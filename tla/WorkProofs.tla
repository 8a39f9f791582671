------------------------------ MODULE WorkProofs ------------------------------
(***************************************************************************)
(* Proofs about the work that is done for the users: the agent and what a  *)
(* Slack thread shows of it, the reviews that users ask for, and the       *)
(* analysis of a review.                                                   *)
(***************************************************************************)
EXTENDS MCWork, RcaJobsProofs, DataLemmas, FiniteSetTheorems, TLAPS

-----------------------------------------------------------------------------
(* The agent. *)

\* A node that a run passes before it supposes anything.
Early == {"prepare", "resolve_context", "classify_intent", "conversational"}
Running == {"classify_intent", "conversational", "hypothesize", "gather_evidence", "validate",
            "synthesize"}
NodeNames == {"prepare", "resolve_context", "classify_intent", "conversational", "hypothesize",
              "gather_evidence", "validate", "synthesize", "end", "failed"}
Validated == {h \in DOMAIN hypotheses : hypotheses[h].status = "validated"}

AgentTyped ==
    /\ AgentTypeOK
    /\ hypotheses = [h \in DOMAIN hypotheses |-> hypotheses[h]]

\* What a run has been able to use since it began is of healthy providers.
CapableOfHealthy ==
    /\ node \in Running => \A c \in capabilities : ToolsMap[c] \notin sick
    /\ node \notin {"end", "failed"} => called \intersect sick = {}
    /\ node = "failed" => called \intersect sick = {}
    /\ node \in Early => called = {} /\ DOMAIN hypotheses = {}

\* No verdict ends the rounds but the last one.
VerdictsOfThisRound ==
    /\ node \in {"hypothesize", "gather_evidence", "validate"} => Validated = {}
    /\ node \in {"synthesize", "end"} => \A h \in Validated : hypotheses[h].round = iteration
    /\ node # "end" => rootCause = {}

\* Each attempt has at most MaxLoops rounds.
RoundsOfAttempts ==
    /\ rounds <= (attempt - 1) * MaxLoops + iteration
    /\ node \in Early => iteration = 0
    /\ (node = "hypothesize" \/ (node = "gather_evidence" /\ tries = 0)) => iteration < MaxLoops
    /\ node # "gather_evidence" => tries = 0

AgentInv ==
    AgentTyped /\ CapableOfHealthy /\ VerdictsOfThisRound /\ RoundsOfAttempts /\ RootCauseStands
    /\ SickAreSpared

LEMMA ToolsOfProviders ==
    /\ IntegrationTypes = {"grafana", "github", "aws", "datadog", "newrelic"}
    /\ \A p \in IntegrationTypes : \A c \in CapabilityMap[p] : ToolsMap[c] = p
    /\ \A c \in Capability : ToolsMap[c] \in IntegrationTypes
    /\ \A c \in ConversationalCapabilities : c \in Capability /\ ToolsMap[c] = "github"
<1>1. IntegrationTypes = {"grafana", "github", "aws", "datadog", "newrelic"}
  BY DEF IntegrationTypes, CapabilityMap
<1>2. ASSUME NEW p \in IntegrationTypes, NEW c \in CapabilityMap[p] PROVE ToolsMap[c] = p
  <2>1. CASE p = "grafana"
    BY <2>1, <1>2 DEF CapabilityMap, ToolsMap
  <2>2. CASE p = "github"
    BY <2>2, <1>2 DEF CapabilityMap, ToolsMap
  <2>3. CASE p = "aws"
    BY <2>3, <1>2 DEF CapabilityMap, ToolsMap
  <2>4. CASE p = "datadog"
    BY <2>4, <1>2 DEF CapabilityMap, ToolsMap
  <2>5. CASE p = "newrelic"
    BY <2>5, <1>2 DEF CapabilityMap, ToolsMap
  <2> QED
    BY <1>1, <2>1, <2>2, <2>3, <2>4, <2>5
<1>3. ASSUME NEW c \in Capability PROVE ToolsMap[c] \in IntegrationTypes
  BY <1>2 DEF Capability
<1>4. ASSUME NEW c \in ConversationalCapabilities PROVE c \in Capability /\ ToolsMap[c] = "github"
  <2>1. c \in CapabilityMap["github"]
    BY DEF ConversationalCapabilities, CapabilityMap
  <2>2. "github" \in IntegrationTypes
    BY <1>1
  <2> QED
    BY <2>1, <2>2, <1>2 DEF Capability
<1> QED
  BY <1>1, <1>2, <1>3, <1>4

LEMMA AgentTypes ==
    AgentInv =>
        /\ AgentTypeOK
        /\ MaxLoops \in Nat /\ MaxLoops > 0 /\ MostAttempts \in Nat
        /\ attempt \in Nat /\ iteration \in Nat /\ rounds \in Nat /\ tries \in Nat
        /\ attempt >= 1 /\ attempt <= MostAttempts /\ iteration <= MaxLoops
BY AgentAssumption DEF AgentInv, AgentTyped, AgentTypeOK

LEMMA AgentInitInv == AgentInit => AgentInv
<1> SUFFICES ASSUME AgentInit PROVE AgentInv
  OBVIOUS
<1>1. DOMAIN <<>> = {} /\ IsFiniteSet({}) /\ Cardinality({}) = 0
  BY FS_EmptySet
<1>2. DOMAIN hypotheses = {}
  BY <1>1 DEF AgentInit
<1>3. hypotheses = [h \in DOMAIN hypotheses |-> hypotheses[h]]
  BY <1>2 DEF AgentInit
<1>4. AgentTyped
  BY <1>1, <1>2, <1>3, AgentAssumption DEF AgentInit, AgentTyped, AgentTypeOK
<1>5. (attempt - 1) * MaxLoops = 0
  BY AgentAssumption DEF AgentInit
<1>6. CapableOfHealthy /\ VerdictsOfThisRound /\ RootCauseStands /\ SickAreSpared
  BY <1>2 DEF AgentInit, CapableOfHealthy, VerdictsOfThisRound, RootCauseStands, SickAreSpared,
     Running, Validated
<1>7. RoundsOfAttempts
  BY <1>5, AgentAssumption DEF AgentInit, RoundsOfAttempts
<1> QED
  BY <1>4, <1>6, <1>7 DEF AgentInv

LEMMA PrepareInv == AgentInv /\ Prepare => AgentInv'
<1> SUFFICES ASSUME AgentInv, Prepare PROVE AgentInv'
  OBVIOUS
<1>1. /\ attempt' = attempt /\ capabilities' = capabilities /\ iteration' = iteration
      /\ tries' = tries /\ hypotheses' = hypotheses /\ rootCause' = rootCause
      /\ sick' = sick /\ called' = called /\ rounds' = rounds
  BY DEF Prepare, state
<1>2. node = "prepare" /\ node' \in {"resolve_context", "failed"}
  BY DEF Prepare
<1>3. health' \in [IntegrationTypes -> {"healthy", "failed", "unknown", "absent"}]
  BY AgentTypes DEF AgentTypeOK, Prepare
<1>4. AgentTyped'
  BY <1>1, <1>2, <1>3 DEF AgentInv, AgentTyped, AgentTypeOK
<1>5. CapableOfHealthy' /\ VerdictsOfThisRound' /\ RoundsOfAttempts'
  BY <1>1, <1>2 DEF AgentInv, CapableOfHealthy, VerdictsOfThisRound, RoundsOfAttempts, Validated,
     Running, Early
<1>6. RootCauseStands' /\ SickAreSpared'
  BY <1>1, <1>2 DEF AgentInv, RootCauseStands, SickAreSpared
<1> QED
  BY <1>4, <1>5, <1>6 DEF AgentInv

LEMMA HealthChangesInv ==
    \A p \in IntegrationTypes : AgentInv /\ HealthChanges(p) => AgentInv'
<1> SUFFICES ASSUME NEW p \in IntegrationTypes, AgentInv, HealthChanges(p) PROVE AgentInv'
  OBVIOUS
<1>1. /\ attempt' = attempt /\ capabilities' = capabilities /\ iteration' = iteration
      /\ tries' = tries /\ hypotheses' = hypotheses /\ rootCause' = rootCause
      /\ sick' = sick /\ called' = called /\ rounds' = rounds /\ node' = node
  BY DEF HealthChanges, state
<1>3. health' \in [IntegrationTypes -> {"healthy", "failed", "unknown", "absent"}]
  BY AgentTypes DEF AgentTypeOK, HealthChanges
<1>4. AgentTyped'
  BY <1>1, <1>3 DEF AgentInv, AgentTyped, AgentTypeOK
<1>5. CapableOfHealthy' /\ VerdictsOfThisRound' /\ RoundsOfAttempts'
  BY <1>1 DEF AgentInv, CapableOfHealthy, VerdictsOfThisRound, RoundsOfAttempts, Validated
<1>6. RootCauseStands' /\ SickAreSpared'
  BY <1>1 DEF AgentInv, RootCauseStands, SickAreSpared
<1> QED
  BY <1>4, <1>5, <1>6 DEF AgentInv

LEMMA OneMoreAttempt ==
    ASSUME NEW m \in Nat, NEW a \in Nat, NEW i \in Nat, i <= m
    PROVE  (a - 1) * m + i <= a * m
<1>1. a * m = (a - 1) * m + m
  OBVIOUS
<1>2. (a - 1) * m \in Int
  OBVIOUS
<1> QED
  BY <1>1, <1>2

LEMMA RaiseInv ==
    AgentInv /\ node \in {"resolve_context", "gather_evidence"} /\ tries = 0 /\ Raise => AgentInv'
<1> SUFFICES ASSUME AgentInv, node \in {"resolve_context", "gather_evidence"}, tries = 0, Raise
             PROVE  AgentInv'
  OBVIOUS
<1>1. CASE attempt < MostAttempts
  <2>1. /\ attempt' = attempt + 1 /\ capabilities' = {} /\ iteration' = 0 /\ tries' = 0
        /\ hypotheses' = <<>> /\ rootCause' = {} /\ sick' = {} /\ called' = {}
        /\ node' = "resolve_context" /\ health' = health /\ rounds' = rounds
    BY <1>1 DEF Raise, NewAttempt
  <2>2. DOMAIN <<>> = {} /\ IsFiniteSet({}) /\ Cardinality({}) = 0
    BY FS_EmptySet
  <2>3. DOMAIN hypotheses' = {}
    BY <2>1, <2>2
  <2>4. hypotheses' = [h \in DOMAIN hypotheses' |-> hypotheses'[h]]
    BY <2>1, <2>3
  <2>5. attempt' \in 1..MostAttempts
    BY <1>1, <2>1, AgentTypes
  <2>6. AgentTyped'
    BY <2>1, <2>2, <2>3, <2>4, <2>5, AgentTypes, AgentAssumption DEF AgentTyped, AgentTypeOK
  <2>7. CapableOfHealthy' /\ VerdictsOfThisRound'
    BY <2>1, <2>3 DEF CapableOfHealthy, VerdictsOfThisRound, Running
  <2>8. rounds' <= (attempt' - 1) * MaxLoops + iteration'
    <3>1. rounds <= (attempt - 1) * MaxLoops + iteration
      BY DEF AgentInv, RoundsOfAttempts
    <3>2. (attempt - 1) * MaxLoops + iteration <= attempt * MaxLoops
      BY AgentTypes, OneMoreAttempt
    <3>3. attempt' - 1 = attempt /\ iteration' = 0
      BY <2>1, AgentTypes
    <3>4. (attempt - 1) * MaxLoops \in Int /\ attempt * MaxLoops \in Int
      BY AgentTypes
    <3> QED
      BY <2>1, <3>1, <3>2, <3>3, <3>4, AgentTypes
  <2>9. RoundsOfAttempts'
    BY <2>1, <2>8 DEF RoundsOfAttempts
  <2>10. RootCauseStands' /\ SickAreSpared'
    BY <2>1, <2>3 DEF RootCauseStands, SickAreSpared
  <2> QED
    BY <2>6, <2>7, <2>9, <2>10 DEF AgentInv
<1>2. CASE ~(attempt < MostAttempts)
  <2>1. /\ attempt' = attempt /\ capabilities' = capabilities /\ iteration' = iteration
        /\ tries' = tries /\ hypotheses' = hypotheses /\ rootCause' = rootCause
        /\ sick' = sick /\ called' = called /\ rounds' = rounds
        /\ node' = "failed" /\ health' = health
    BY <1>2 DEF Raise
  <2>2. AgentTyped'
    BY <2>1 DEF AgentInv, AgentTyped, AgentTypeOK
  <2>3. CapableOfHealthy' /\ VerdictsOfThisRound' /\ RoundsOfAttempts'
    BY <2>1 DEF AgentInv, CapableOfHealthy, VerdictsOfThisRound, RoundsOfAttempts, Running, Early
  <2>4. RootCauseStands' /\ SickAreSpared'
    BY <2>1 DEF AgentInv, RootCauseStands, SickAreSpared
  <2> QED
    BY <2>2, <2>3, <2>4 DEF AgentInv
<1> QED
  BY <1>1, <1>2

LEMMA ResolveContextInv == AgentInv /\ ResolveContext => AgentInv'
<1> SUFFICES ASSUME AgentInv, ResolveContext PROVE AgentInv'
  OBVIOUS
<1>1. /\ attempt' = attempt /\ iteration' = iteration
      /\ tries' = tries /\ hypotheses' = hypotheses /\ rootCause' = rootCause
      /\ called' = called /\ rounds' = rounds /\ health' = health
      /\ node = "resolve_context" /\ node' = "classify_intent"
      /\ capabilities' = Resolve
      /\ sick' = {p \in IntegrationTypes : health[p] # "healthy"}
  BY DEF ResolveContext
<1>2. called = {} /\ DOMAIN hypotheses = {}
  BY <1>1 DEF AgentInv, CapableOfHealthy, Early
<1>3. Resolve \subseteq Capability
  BY DEF Resolve, Capability
<1>4. \A c \in Resolve : ToolsMap[c] \notin sick'
  BY <1>1, ToolsOfProviders DEF Resolve
<1>5. AgentTyped'
  BY <1>1, <1>3 DEF AgentInv, AgentTyped, AgentTypeOK
<1>6. CapableOfHealthy'
  BY <1>1, <1>2, <1>4 DEF CapableOfHealthy, Early
<1>7. VerdictsOfThisRound' /\ RoundsOfAttempts'
  BY <1>1, <1>2 DEF AgentInv, VerdictsOfThisRound, RoundsOfAttempts, Early, Validated
<1>8. RootCauseStands' /\ SickAreSpared'
  BY <1>1, <1>2 DEF AgentInv, RootCauseStands, SickAreSpared
<1> QED
  BY <1>5, <1>6, <1>7, <1>8 DEF AgentInv

LEMMA ClassifyIntentInv == AgentInv /\ ClassifyIntent => AgentInv'
<1> SUFFICES ASSUME AgentInv, ClassifyIntent PROVE AgentInv'
  OBVIOUS
<1>1. /\ attempt' = attempt /\ capabilities' = capabilities /\ iteration' = iteration
      /\ tries' = tries /\ hypotheses' = hypotheses /\ rootCause' = rootCause
      /\ sick' = sick /\ called' = called /\ rounds' = rounds /\ health' = health
      /\ node = "classify_intent" /\ node' \in {"hypothesize", "conversational"}
  BY DEF ClassifyIntent, state
<1>2. called = {} /\ DOMAIN hypotheses = {} /\ iteration = 0 /\ iteration < MaxLoops
  BY <1>1, AgentTypes DEF AgentInv, CapableOfHealthy, RoundsOfAttempts, Early
<1>3. AgentTyped'
  BY <1>1 DEF AgentInv, AgentTyped, AgentTypeOK
<1>4. CapableOfHealthy'
  BY <1>1, <1>2 DEF AgentInv, CapableOfHealthy, Running, Early
<1>5. VerdictsOfThisRound' /\ RoundsOfAttempts'
  BY <1>1, <1>2 DEF AgentInv, VerdictsOfThisRound, RoundsOfAttempts, Validated
<1>6. RootCauseStands' /\ SickAreSpared'
  BY <1>1, <1>2 DEF AgentInv, RootCauseStands, SickAreSpared
<1> QED
  BY <1>3, <1>4, <1>5, <1>6 DEF AgentInv

LEMMA ConverseInv == AgentInv /\ Converse => AgentInv'
<1> SUFFICES ASSUME AgentInv, Converse PROVE AgentInv'
  OBVIOUS
<1>1. /\ attempt' = attempt /\ iteration' = iteration
      /\ tries' = tries /\ hypotheses' = hypotheses /\ rootCause' = rootCause
      /\ sick' = sick /\ rounds' = rounds /\ health' = health
      /\ node = "conversational" /\ node' = "end"
      /\ capabilities' = Conversational(capabilities)
      /\ called' = called \union GetToolsForCapabilities(capabilities')
  BY DEF Converse
<1>2. called = {} /\ DOMAIN hypotheses = {} /\ rootCause = {} /\ tries = 0
  BY <1>1 DEF AgentInv, CapableOfHealthy, RoundsOfAttempts, VerdictsOfThisRound, Early
<1>3. capabilities' \subseteq ConversationalCapabilities
  BY <1>1 DEF Conversational
<1>4. GetToolsForCapabilities(capabilities') \subseteq {"github"}
  BY <1>3, ToolsOfProviders DEF GetToolsForCapabilities
<1>5. called' \subseteq {"github"}
  BY <1>1, <1>2, <1>4
<1>6. "github" \in IntegrationTypes /\ ConversationalCapabilities \subseteq Capability
  BY ToolsOfProviders
<1>7. AgentTyped'
  BY <1>1, <1>3, <1>5, <1>6 DEF AgentInv, AgentTyped, AgentTypeOK
<1>8. CapableOfHealthy'
  BY <1>1, <1>2 DEF CapableOfHealthy, Running, Early
<1>9. VerdictsOfThisRound' /\ RoundsOfAttempts'
  BY <1>1, <1>2 DEF AgentInv, VerdictsOfThisRound, RoundsOfAttempts, Validated, Early
<1>10. RootCauseStands' /\ SickAreSpared'
  BY <1>1, <1>2, <1>5 DEF RootCauseStands, SickAreSpared
<1> QED
  BY <1>7, <1>8, <1>9, <1>10 DEF AgentInv

LEMMA HypothesizeInv == AgentInv /\ Hypothesize => AgentInv'
<1> SUFFICES ASSUME AgentInv, Hypothesize PROVE AgentInv'
  OBVIOUS
<1>1. /\ attempt' = attempt /\ iteration' = iteration /\ capabilities' = capabilities
      /\ tries' = tries /\ rootCause' = rootCause /\ called' = called
      /\ sick' = sick /\ rounds' = rounds /\ health' = health
      /\ node = "hypothesize" /\ node' = "gather_evidence"
  BY DEF Hypothesize
<1>2. PICK new \in (SUBSET (Hypotheses \ {Generic}) \ {{}}) \union {{Generic}} :
         hypotheses' = [h \in new |-> Pending]
  BY DEF Hypothesize
<1>3. new \subseteq Hypotheses /\ DOMAIN hypotheses' = new
  BY <1>2, AgentAssumption
<1>4. \A h \in DOMAIN hypotheses' : hypotheses'[h] \in Judged /\ hypotheses'[h].status = "pending"
  <2>1. Pending \in Judged /\ Pending.status = "pending"
    BY AgentAssumption DEF Pending, Judged
  <2> QED
    BY <1>2, <1>3, <2>1
<1>5. hypotheses' = [h \in DOMAIN hypotheses' |-> hypotheses'[h]]
  BY <1>2, <1>3
<1>6. Validated' = {}
  BY <1>4 DEF Validated
<1>7. AgentTyped'
  BY <1>1, <1>3, <1>4, <1>5 DEF AgentInv, AgentTyped, AgentTypeOK
<1>8. CapableOfHealthy'
  BY <1>1 DEF AgentInv, CapableOfHealthy, Running, Early
<1>9. VerdictsOfThisRound' /\ RoundsOfAttempts'
  BY <1>1, <1>6 DEF AgentInv, VerdictsOfThisRound, RoundsOfAttempts, Early
<1>10. RootCauseStands'
  BY <1>1 DEF RootCauseStands
<1>11. SickAreSpared'
  BY <1>1 DEF AgentInv, CapableOfHealthy, SickAreSpared
<1> QED
  BY <1>7, <1>8, <1>9, <1>10, <1>11 DEF AgentInv

\* A round begins.
LEMMA RoundInv ==
    ASSUME AgentInv, node = "gather_evidence", tries = 0,
           iteration' = iteration + 1, rounds' = rounds + 1, attempt' = attempt
    PROVE  /\ rounds' <= (attempt' - 1) * MaxLoops + iteration'
           /\ iteration' \in 0..MaxLoops /\ rounds' \in Nat
<1>1. rounds <= (attempt - 1) * MaxLoops + iteration /\ iteration < MaxLoops
  BY DEF AgentInv, RoundsOfAttempts
<1>2. (attempt - 1) * MaxLoops \in Int
  BY AgentTypes
<1>3. PICK k \in Int : k = (attempt - 1) * MaxLoops
  BY <1>2
<1> QED
  BY <1>1, <1>3, AgentTypes

LEMMA GatherNothingInv == AgentInv /\ GatherNothing => AgentInv'
<1> SUFFICES ASSUME AgentInv, GatherNothing PROVE AgentInv'
  OBVIOUS
<1>1. /\ attempt' = attempt /\ capabilities' = capabilities
      /\ tries' = tries /\ hypotheses' = hypotheses /\ rootCause' = rootCause
      /\ sick' = sick /\ called' = called /\ health' = health
      /\ node = "gather_evidence" /\ node' = "validate" /\ tries = 0
      /\ iteration' = iteration + 1 /\ rounds' = rounds + 1
  BY DEF GatherNothing
<1>2. /\ rounds' <= (attempt' - 1) * MaxLoops + iteration'
      /\ iteration' \in 0..MaxLoops /\ rounds' \in Nat
  BY <1>1, RoundInv
<1>3. AgentTyped'
  BY <1>1, <1>2 DEF AgentInv, AgentTyped, AgentTypeOK
<1>4. CapableOfHealthy'
  BY <1>1 DEF AgentInv, CapableOfHealthy, Running, Early
<1>5. VerdictsOfThisRound'
  BY <1>1 DEF AgentInv, VerdictsOfThisRound, Validated
<1>6. RoundsOfAttempts'
  BY <1>1, <1>2 DEF RoundsOfAttempts, Early
<1>7. RootCauseStands' /\ SickAreSpared'
  BY <1>1 DEF AgentInv, RootCauseStands, SickAreSpared
<1> QED
  BY <1>3, <1>4, <1>5, <1>6, <1>7 DEF AgentInv

LEMMA BuildExecutorInv == AgentInv /\ BuildExecutor => AgentInv'
<1> SUFFICES ASSUME AgentInv, BuildExecutor PROVE AgentInv'
  OBVIOUS
<1>1. /\ attempt' = attempt /\ capabilities' = capabilities
      /\ tries' = 1 /\ hypotheses' = hypotheses /\ rootCause' = rootCause
      /\ sick' = sick /\ health' = health
      /\ called' = called \union GetToolsForCapabilities(capabilities)
      /\ node = "gather_evidence" /\ node' = node /\ tries = 0
      /\ iteration' = iteration + 1 /\ rounds' = rounds + 1
  BY DEF BuildExecutor
<1>2. /\ rounds' <= (attempt' - 1) * MaxLoops + iteration'
      /\ iteration' \in 0..MaxLoops /\ rounds' \in Nat
  BY <1>1, RoundInv
<1>3. GetToolsForCapabilities(capabilities) \subseteq IntegrationTypes
  BY AgentTypes, ToolsOfProviders DEF GetToolsForCapabilities, AgentTypeOK
<1>4. GetToolsForCapabilities(capabilities) \intersect sick = {}
  BY <1>1 DEF AgentInv, CapableOfHealthy, Running, GetToolsForCapabilities
<1>5. called' \intersect sick' = {}
  BY <1>1, <1>4 DEF AgentInv, CapableOfHealthy
<1>6. 1 \in 0..MostTries
  BY AgentAssumption
<1>7. AgentTyped'
  BY <1>1, <1>2, <1>3, <1>6 DEF AgentInv, AgentTyped, AgentTypeOK
<1>8. CapableOfHealthy'
  BY <1>1, <1>5 DEF AgentInv, CapableOfHealthy, Running, Early
<1>9. VerdictsOfThisRound'
  BY <1>1 DEF AgentInv, VerdictsOfThisRound, Validated
<1>10. RoundsOfAttempts'
  BY <1>1, <1>2 DEF RoundsOfAttempts, Early
<1>11. RootCauseStands' /\ SickAreSpared'
  BY <1>1, <1>5 DEF RootCauseStands, SickAreSpared
<1> QED
  BY <1>7, <1>8, <1>9, <1>10, <1>11 DEF AgentInv

LEMMA GatherInv == AgentInv /\ (GatherEvidence \/ RetryEvidence) => AgentInv'
<1> SUFFICES ASSUME AgentInv, GatherEvidence \/ RetryEvidence PROVE AgentInv'
  OBVIOUS
<1>1. /\ attempt' = attempt /\ capabilities' = capabilities /\ iteration' = iteration
      /\ hypotheses' = hypotheses /\ rootCause' = rootCause
      /\ sick' = sick /\ called' = called /\ rounds' = rounds /\ health' = health
      /\ node = "gather_evidence"
      /\ \/ node' = "validate" /\ tries' = 0
         \/ node' = node /\ tries < MostTries /\ tries' = tries + 1
  BY DEF GatherEvidence, RetryEvidence
<1>2. tries' \in 0..MostTries /\ (node' = node => tries' # 0)
  BY <1>1, AgentTypes, AgentAssumption
<1>3. AgentTyped'
  BY <1>1, <1>2 DEF AgentInv, AgentTyped, AgentTypeOK
<1>4. CapableOfHealthy'
  BY <1>1 DEF AgentInv, CapableOfHealthy, Running, Early
<1>5. VerdictsOfThisRound'
  BY <1>1 DEF AgentInv, VerdictsOfThisRound, Validated
<1>6. RoundsOfAttempts'
  BY <1>1, <1>2 DEF AgentInv, RoundsOfAttempts, Early
<1>7. RootCauseStands' /\ SickAreSpared'
  BY <1>1 DEF AgentInv, RootCauseStands, SickAreSpared
<1> QED
  BY <1>3, <1>4, <1>5, <1>6, <1>7 DEF AgentInv

LEMMA ValidateInv == AgentInv /\ Validate => AgentInv'
<1> SUFFICES ASSUME AgentInv, Validate PROVE AgentInv'
  OBVIOUS
<1>1. /\ attempt' = attempt /\ capabilities' = capabilities /\ iteration' = iteration
      /\ tries' = tries /\ rootCause' = rootCause
      /\ sick' = sick /\ called' = called /\ rounds' = rounds /\ health' = health
      /\ node = "validate"
  BY DEF Validate
<1>2. PICK new :
        /\ hypotheses' = new
        /\ DOMAIN new = DOMAIN hypotheses
        /\ new = [h \in DOMAIN new |-> new[h]]
        /\ \A h \in DOMAIN new :
              \/ new[h] = hypotheses[h]
              \/ new[h] \in Judged /\ new[h].round = iteration
  <2>1. PICK named \in SUBSET DOMAIN hypotheses :
        \E status \in [named -> Statuses],
           sure \in [named -> {{}} \union {{n} : n \in Confidences}] :
           hypotheses' = [h \in DOMAIN hypotheses |->
              IF h \notin named THEN hypotheses[h]
              ELSE [status |-> status[h], round |-> iteration,
                    confidence |-> IF sure[h] = {} THEN hypotheses[h].confidence
                                   ELSE CHOOSE n \in sure[h] : TRUE]]
    BY DEF Validate
  <2>2. PICK status \in [named -> Statuses],
             sure \in [named -> {{}} \union {{n} : n \in Confidences}] :
           hypotheses' = [h \in DOMAIN hypotheses |->
              IF h \notin named THEN hypotheses[h]
              ELSE [status |-> status[h], round |-> iteration,
                    confidence |-> IF sure[h] = {} THEN hypotheses[h].confidence
                                   ELSE CHOOSE n \in sure[h] : TRUE]]
    BY <2>1
  <2>3. PICK new : new = [h \in DOMAIN hypotheses |->
              IF h \notin named THEN hypotheses[h]
              ELSE [status |-> status[h], round |-> iteration,
                    confidence |-> IF sure[h] = {} THEN hypotheses[h].confidence
                                   ELSE CHOOSE n \in sure[h] : TRUE]]
    OBVIOUS
  <2>4. hypotheses' = new
    BY <2>2, <2>3
  <2>5. DOMAIN new = DOMAIN hypotheses /\ new = [h \in DOMAIN new |-> new[h]]
    BY <2>3
  <2>6. ASSUME NEW h \in DOMAIN new, h \in named
        PROVE  new[h] \in Judged /\ new[h].round = iteration
    <3>1. PICK k : k = IF sure[h] = {} THEN hypotheses[h].confidence
                       ELSE CHOOSE n \in sure[h] : TRUE
      OBVIOUS
    <3>2. k \in Confidences \union {0}
      <4>1. CASE sure[h] = {}
        BY <4>1, <3>1, <2>6, AgentTypes DEF AgentTypeOK, Judged
      <4>2. CASE sure[h] # {}
        <5>1. PICK n \in Confidences : sure[h] = {n}
          BY <4>2, <2>6
        <5> QED
          BY <5>1, <3>1
      <4> QED
        BY <4>1, <4>2
    <3>3. new[h] = [status |-> status[h], round |-> iteration, confidence |-> k]
      BY <2>3, <2>5, <2>6, <3>1
    <3>4. status[h] \in Statuses \union {"pending"} /\ iteration \in 0..MaxLoops
      BY <2>6, AgentTypes DEF AgentTypeOK
    <3> QED
      BY <3>2, <3>3, <3>4 DEF Judged
  <2>7. \A h \in DOMAIN new : h \notin named => new[h] = hypotheses[h]
    BY <2>3, <2>5
  <2> QED
    BY <2>4, <2>5, <2>6, <2>7
<1>3. /\ node' \in {"synthesize", "hypothesize", "gather_evidence"}
      /\ node' # "synthesize" => Validated' = {} /\ iteration < MaxLoops
  <2>1. node' = RouteAfterValidation(hypotheses')
    BY DEF Validate
  <2> QED
    BY <2>1, AgentTypes DEF RouteAfterValidation, Validated
<1>4. \A h \in DOMAIN new : new[h] \in Judged
  BY <1>2, AgentTypes DEF AgentTypeOK
<1>5. Validated = {} /\ rootCause = {} /\ tries = 0
  BY <1>1 DEF AgentInv, VerdictsOfThisRound, RoundsOfAttempts
<1>6. \A h \in Validated' : hypotheses'[h].round = iteration'
  BY <1>1, <1>2, <1>5 DEF Validated
<1>7. AgentTyped'
  BY <1>1, <1>2, <1>3, <1>4 DEF AgentInv, AgentTyped, AgentTypeOK
<1>8. CapableOfHealthy'
  BY <1>1, <1>3 DEF AgentInv, CapableOfHealthy, Running, Early
<1>9. VerdictsOfThisRound'
  BY <1>1, <1>3, <1>5, <1>6 DEF VerdictsOfThisRound
<1>10. RoundsOfAttempts'
  BY <1>1, <1>3, <1>5 DEF AgentInv, RoundsOfAttempts, Early
<1>11. RootCauseStands'
  BY <1>3 DEF RootCauseStands
<1>12. SickAreSpared'
  BY <1>1, <1>2 DEF AgentInv, SickAreSpared
<1> QED
  BY <1>7, <1>8, <1>9, <1>10, <1>11, <1>12 DEF AgentInv

LEMMA SynthesizeInv == AgentInv /\ Synthesize => AgentInv'
<1> SUFFICES ASSUME AgentInv, Synthesize PROVE AgentInv'
  OBVIOUS
<1>1. /\ attempt' = attempt /\ capabilities' = capabilities /\ iteration' = iteration
      /\ tries' = tries /\ hypotheses' = hypotheses
      /\ sick' = sick /\ called' = called /\ rounds' = rounds /\ health' = health
      /\ node = "synthesize" /\ node' = "end"
  BY DEF Synthesize
<1>2. rootCause' = {} \/ \E h \in PickBestHypothesis : rootCause' = {h}
  BY DEF Synthesize
<1>3. PickBestHypothesis \subseteq DOMAIN hypotheses
  BY DEF PickBestHypothesis
<1>4. rootCause' \subseteq Hypotheses /\ Cardinality(rootCause') <= 1
  <2>1. CASE rootCause' = {}
    <3>1. Cardinality({}) = 0
      BY FS_EmptySet
    <3> QED
      BY <2>1, <3>1
  <2>2. CASE \E h \in PickBestHypothesis : rootCause' = {h}
    <3>1. PICK h \in PickBestHypothesis : rootCause' = {h}
      BY <2>2
    <3>2. Cardinality({h}) = 1
      BY FS_Singleton
    <3> QED
      BY <1>3, <3>1, <3>2, AgentTypes DEF AgentTypeOK
  <2> QED
    BY <1>2, <2>1, <2>2
<1>5. AgentTyped'
  BY <1>1, <1>4 DEF AgentInv, AgentTyped, AgentTypeOK
<1>6. CapableOfHealthy'
  BY <1>1 DEF AgentInv, CapableOfHealthy, Running, Early
<1>7. VerdictsOfThisRound'
  BY <1>1 DEF AgentInv, VerdictsOfThisRound, Validated
<1>8. RoundsOfAttempts'
  BY <1>1 DEF AgentInv, RoundsOfAttempts, Early
<1>9. RootCauseStands'
  <2>1. \A h \in Validated : hypotheses[h].round = iteration
    BY <1>1 DEF AgentInv, VerdictsOfThisRound
  <2>2. rootCause' \subseteq PickBestHypothesis
    BY <1>2
  <2>3. ASSUME NEW h \in PickBestHypothesis
        PROVE  /\ \/ h \in Validated
                  \/ Validated = {} /\ hypotheses[h].status = "needs_more_evidence"
               /\ \A g \in DOMAIN hypotheses : hypotheses[g].status = hypotheses[h].status
                     => hypotheses[h].confidence >= hypotheses[g].confidence
    BY DEF PickBestHypothesis, Validated
  <2> QED
    BY <1>1, <1>3, <2>1, <2>2, <2>3 DEF RootCauseStands, Validated
<1>10. SickAreSpared'
  BY <1>1 DEF AgentInv, SickAreSpared
<1> QED
  BY <1>5, <1>6, <1>7, <1>8, <1>9, <1>10 DEF AgentInv

LEMMA AgentStep == AgentInv /\ [AgentNext]_agentVars => AgentInv'
<1> SUFFICES ASSUME AgentInv, [AgentNext]_agentVars PROVE AgentInv'
  OBVIOUS
<1>1. CASE ResolveRaises
  <2>1. tries = 0
    BY <1>1 DEF ResolveRaises, AgentInv, RoundsOfAttempts
  <2> QED
    BY <1>1, <2>1, RaiseInv DEF ResolveRaises
<1>2. CASE BuildRaises
  BY <1>2, RaiseInv DEF BuildRaises
<1>3. CASE \E p \in Connectable : HealthChanges(p)
  BY <1>3, HealthChangesInv, ToolsOfProviders, AgentAssumption
<1>4. CASE UNCHANGED agentVars
  <2>1. AgentTyped' /\ CapableOfHealthy' /\ VerdictsOfThisRound' /\ RoundsOfAttempts'
    BY <1>4 DEF agentVars, AgentInv, AgentTyped, AgentTypeOK, CapableOfHealthy,
       VerdictsOfThisRound, RoundsOfAttempts, Validated
  <2>2. RootCauseStands' /\ SickAreSpared'
    BY <1>4 DEF agentVars, AgentInv, RootCauseStands, SickAreSpared
  <2> QED
    BY <2>1, <2>2 DEF AgentInv
<1> QED
  BY <1>1, <1>2, <1>3, <1>4, PrepareInv, ResolveContextInv, ClassifyIntentInv, ConverseInv,
     HypothesizeInv, GatherNothingInv, BuildExecutorInv, GatherInv, ValidateInv, SynthesizeInv
  DEF AgentNext

LEMMA AgentHolds == AgentInv => AgentIsSound
<1> SUFFICES ASSUME AgentInv PROVE AgentIsSound
  OBVIOUS
<1>1. rounds <= MostAttempts * MaxLoops
  <2>1. rounds <= (attempt - 1) * MaxLoops + iteration
    BY DEF AgentInv, RoundsOfAttempts
  <2>2. (attempt - 1) * MaxLoops + iteration <= attempt * MaxLoops
    BY AgentTypes, OneMoreAttempt
  <2>3. attempt * MaxLoops <= MostAttempts * MaxLoops
    <3>1. PICK d \in Nat : MostAttempts = attempt + d
      <4>1. MostAttempts - attempt \in Nat /\ MostAttempts = attempt + (MostAttempts - attempt)
        BY AgentTypes
      <4> QED
        BY <4>1
    <3>2. MostAttempts * MaxLoops = attempt * MaxLoops + d * MaxLoops
      BY <3>1, AgentTypes
    <3>3. d * MaxLoops \in Nat /\ attempt * MaxLoops \in Nat
      BY AgentTypes
    <3> QED
      BY <3>2, <3>3
  <2>4. /\ (attempt - 1) * MaxLoops + iteration \in Int
        /\ attempt * MaxLoops \in Int /\ MostAttempts * MaxLoops \in Int
    BY AgentTypes
  <2>5. PICK a \in Int, b \in Int, c \in Int :
          /\ a = (attempt - 1) * MaxLoops + iteration
          /\ b = attempt * MaxLoops /\ c = MostAttempts * MaxLoops
    BY <2>4
  <2> QED
    BY <2>1, <2>2, <2>3, <2>5, AgentTypes
<1> QED
  BY <1>1 DEF AgentInv, AgentIsSound, RoundsAreBounded

LEMMA AgentInvariance == AgentSpec => []AgentInv
BY AgentInitInv, AgentStep, PTL DEF AgentSpec

-----------------------------------------------------------------------------
(* What a thread shows of the agent. *)

Doing == [step : {"rest", "check", "send", "finish"}, text : Steps \union Notices \union {""},
          old : Nat, sends : Nat]
SaysStep(c) == callback[c].step \in {"check", "send"} /\ callback[c].text \in Steps

ProgressTyped ==
    /\ ProgressTypeOK
    /\ callback \in [Callers -> Doing]
    /\ \A c \in Callers :
          /\ callback[c].step \in {"check", "finish"} => callback[c].old # 0
          /\ callback[c].step \in {"check", "send"} => callback[c].text \in Steps \union Notices

\* A step that is said has been announced, by one caller, and what the thread
\* already has of it was not heard of.
SaidOnce ==
    /\ \A k \in DOMAIN thread : thread[k].text \in Steps => thread[k].text \in announced
    /\ \A c \in Callers : SaysStep(c) => callback[c].text \in announced
    /\ \A c, d \in Callers : SaysStep(c) /\ SaysStep(d) /\ callback[c].text = callback[d].text
                             => c = d
    /\ \A c \in Callers : SaysStep(c) =>
          \A k \in DOMAIN thread : thread[k].text = callback[c].text => k \in unheard

\* The message before the next is checked, if Slack does what it says.
Checked(k) == k = 0 \/ k \in stuck \union unheard \/ thread[k].mark # "hourglass"
LastIsChecked ==
    ~abreast =>
        /\ \A c, d \in Callers : Idle(c) \/ Idle(d) \/ c = d
        /\ \A c \in Callers :
              /\ callback[c].step \in {"check", "finish"} => callback[c].old = latest
              /\ callback[c].step = "send" /\ callback[c].text \in Steps => Checked(latest)

ProgressInv ==
    ProgressTyped /\ SaidOnce /\ AnnouncedOnce /\ LastIsChecked /\ OnlyLastIsUnderWay
    /\ BreakerCounts

LEMMA ProgressTypes ==
    ProgressInv =>
        /\ thread \in Seq(Message) /\ Len(thread) \in Nat /\ DOMAIN thread = 1..Len(thread)
        /\ announced \subseteq Steps
        /\ latest \in Nat /\ latest <= Len(thread)
        /\ failures \in Nat /\ open \in BOOLEAN /\ abreast \in BOOLEAN
        /\ callback \in [Callers -> Doing]
        /\ \A c \in Callers : callback[c].old \in Nat /\ callback[c].old <= Len(thread)
        /\ stuck \subseteq 1..Len(thread) /\ unheard \subseteq 1..Len(thread)
        /\ MaxFailures \in Nat /\ MaxFailures > 0 /\ Steps \intersect Notices = {}
<1> SUFFICES ASSUME ProgressInv
             PROVE  /\ thread \in Seq(Message) /\ Len(thread) \in Nat /\ DOMAIN thread = 1..Len(thread)
                    /\ announced \subseteq Steps
                    /\ latest \in Nat /\ latest <= Len(thread)
                    /\ failures \in Nat /\ open \in BOOLEAN /\ abreast \in BOOLEAN
                    /\ callback \in [Callers -> Doing]
                    /\ \A c \in Callers : callback[c].old \in Nat /\ callback[c].old <= Len(thread)
                    /\ stuck \subseteq 1..Len(thread) /\ unheard \subseteq 1..Len(thread)
                    /\ MaxFailures \in Nat /\ MaxFailures > 0 /\ Steps \intersect Notices = {}
  OBVIOUS
<1>1. ProgressTypeOK /\ callback \in [Callers -> Doing]
  BY DEF ProgressInv, ProgressTyped
<1>2. thread \in Seq(Message) /\ Len(thread) \in Nat /\ DOMAIN thread = 1..Len(thread)
  BY <1>1 DEF ProgressTypeOK
<1>3. /\ announced \subseteq Steps /\ failures \in Nat /\ open \in BOOLEAN /\ abreast \in BOOLEAN
      /\ stuck \subseteq 1..Len(thread) /\ unheard \subseteq 1..Len(thread)
  BY <1>1 DEF ProgressTypeOK
<1>4. latest \in Nat /\ latest <= Len(thread)
  BY <1>1, <1>2 DEF ProgressTypeOK
<1>5. \A c \in Callers : callback[c].old \in Nat /\ callback[c].old <= Len(thread)
  BY <1>1, <1>2 DEF ProgressTypeOK
<1>6. MaxFailures \in Nat /\ MaxFailures > 0 /\ Steps \intersect Notices = {}
  BY ProgressAssumption
<1> QED
  BY <1>1, <1>2, <1>3, <1>4, <1>5, <1>6

\* A message gets its checkmark.
LEMMA Marked ==
    ASSUME NEW th \in Seq(Message), NEW k \in 1..Len(th), NEW t,
           t = [th EXCEPT ![k].mark = "check"]
    PROVE  /\ t \in Seq(Message) /\ Len(t) = Len(th) /\ DOMAIN t = 1..Len(th)
           /\ \A j \in 1..Len(th) : t[j].text = th[j].text
           /\ \A j \in 1..Len(th) : j # k => t[j] = th[j]
           /\ t[k].mark = "check"
<1>1. \A j \in 1..Len(th) : th[j] \in Message
  OBVIOUS
<1>2. t = [th EXCEPT ![k] = [th[k] EXCEPT !.mark = "check"]]
  OBVIOUS
<1>3. PICK m : m = [th[k] EXCEPT !.mark = "check"]
  OBVIOUS
<1>4. m \in Message /\ m.text = th[k].text /\ m.mark = "check"
  BY <1>1, <1>3 DEF Message
<1>5. t = [th EXCEPT ![k] = m]
  BY <1>2, <1>3
<1> QED
  BY <1>4, <1>5

\* A message is added.
LEMMA Added ==
    ASSUME NEW th \in Seq(Message), NEW m \in Message, NEW t, t = Append(th, m)
    PROVE  /\ t \in Seq(Message) /\ Len(t) = Len(th) + 1 /\ DOMAIN t = 1..(Len(th) + 1)
           /\ \A j \in 1..Len(th) : t[j] = th[j]
           /\ t[Len(th) + 1] = m
OBVIOUS

LEMMA ProgressInitInv == ProgressInit => ProgressInv
<1> SUFFICES ASSUME ProgressInit PROVE ProgressInv
  OBVIOUS
<1>1. thread \in Seq(Message) /\ Len(thread) = 0 /\ DOMAIN thread = {}
  BY DEF ProgressInit
<1>2. Resting \in Doing /\ Resting.step = "rest" /\ Resting.old = 0
  BY DEF Resting, Doing
<1>3. callback \in [Callers -> Doing] /\ \A c \in Callers : callback[c] = Resting
  BY <1>2 DEF ProgressInit
<1>4. ProgressTyped
  <2>1. latest = 0 /\ 0 \in 0..Len(thread) /\ \A c \in Callers : callback[c].old = 0
    BY <1>1, <1>2, <1>3 DEF ProgressInit
  <2>2. announced = {} /\ failures = 0 /\ open = FALSE /\ stuck = {} /\ unheard = {} /\ abreast = FALSE
    BY DEF ProgressInit
  <2>3. ProgressTypeOK
    BY <1>1, <2>1, <2>2 DEF ProgressTypeOK
  <2> QED
    BY <2>3, <1>2, <1>3 DEF ProgressTyped
<1>5. SaidOnce /\ AnnouncedOnce
  BY <1>1, <1>2, <1>3 DEF SaidOnce, AnnouncedOnce, SaysStep
<1>6. LastIsChecked /\ OnlyLastIsUnderWay
  BY <1>1, <1>2, <1>3 DEF LastIsChecked, OnlyLastIsUnderWay, Idle
<1>7. BreakerCounts
  BY ProgressAssumption DEF ProgressInit, BreakerCounts
<1> QED
  BY <1>4, <1>5, <1>6, <1>7 DEF ProgressInv

LEMMA OnToolStartInv ==
    \A c \in Callers, m \in Steps : ProgressInv /\ OnToolStart(c, m) => ProgressInv'
<1> SUFFICES ASSUME NEW c \in Callers, NEW m \in Steps, ProgressInv, OnToolStart(c, m)
             PROVE  ProgressInv'
  OBVIOUS
<1>1. /\ Idle(c) /\ m \notin announced /\ announced' = announced \union {m}
      /\ thread' = thread /\ latest' = latest /\ failures' = failures /\ open' = open
      /\ stuck' = stuck /\ unheard' = unheard
  BY DEF OnToolStart
<1>2. \A k \in DOMAIN thread : thread[k].text # m
  BY <1>1 DEF ProgressInv, SaidOnce
<1>3. AnnouncedOnce' /\ BreakerCounts'
  BY <1>1 DEF ProgressInv, AnnouncedOnce, BreakerCounts
<1>4. CASE open
  <2>1. callback' = callback /\ abreast' = abreast
    BY <1>4 DEF OnToolStart
  <2>2. ProgressTyped'
    BY <1>1, <2>1 DEF ProgressInv, ProgressTyped, ProgressTypeOK
  <2>3. SaidOnce'
    BY <1>1, <2>1 DEF ProgressInv, SaidOnce, SaysStep
  <2>4. LastIsChecked' /\ OnlyLastIsUnderWay'
    BY <1>1, <2>1 DEF ProgressInv, LastIsChecked, OnlyLastIsUnderWay, Idle, Checked
  <2> QED
    BY <1>3, <2>2, <2>3, <2>4 DEF ProgressInv
<1>5. CASE ~open
  <2>0. PICK s : s = IF latest > 0 THEN "check" ELSE "send"
    OBVIOUS
  <2>1. PICK rec : rec = [step |-> s, text |-> m, old |-> latest, sends |-> 0]
    OBVIOUS
  <2>2. callback' = [callback EXCEPT ![c] = rec] /\ Abreast(c)
    BY <1>5, <2>0, <2>1 DEF OnToolStart
  <2>3. /\ rec \in Doing /\ rec.text = m /\ rec.old = latest
        /\ \/ rec.step = "check" /\ latest # 0
           \/ rec.step = "send" /\ latest = 0
    <3>1. latest \in Nat
      BY ProgressTypes
    <3>2. (s = "check" /\ latest # 0) \/ (s = "send" /\ latest = 0)
      BY <2>0, <3>1
    <3>3. rec \in Doing /\ rec.text = m /\ rec.old = latest /\ rec.step = s
      BY <2>1, <3>1, <3>2 DEF Doing
    <3> QED
      BY <3>2, <3>3
  <2>4. /\ callback' \in [Callers -> Doing] /\ callback'[c] = rec
        /\ \A d \in Callers : d # c => callback'[d] = callback[d]
    BY <2>2, <2>3, ProgressTypes
  <2>5. /\ abreast' \in BOOLEAN
        /\ ~abreast' => ~abreast /\ \A d \in Callers \ {c} : Idle(d)
    BY <2>2, ProgressTypes DEF Abreast
  <2>6. ProgressTyped'
    BY <1>1, <2>3, <2>4, <2>5, ProgressTypes DEF ProgressInv, ProgressTyped, ProgressTypeOK
  <2>7. SaidOnce'
    <3>1. \A d \in Callers : d # c => (SaysStep(d)' <=> SaysStep(d))
      BY <2>4 DEF SaysStep
    <3>2. \A d \in Callers : SaysStep(d) => callback[d].text # m
      BY <1>1 DEF ProgressInv, SaidOnce
    <3>3. \A k \in DOMAIN thread' : thread'[k].text \in Steps => thread'[k].text \in announced'
      BY <1>1 DEF ProgressInv, SaidOnce
    <3>4. \A d \in Callers : SaysStep(d)' => callback'[d].text \in announced'
      BY <1>1, <2>3, <2>4, <3>1 DEF ProgressInv, SaidOnce
    <3>5. \A d, e \in Callers : SaysStep(d)' /\ SaysStep(e)' /\ callback'[d].text = callback'[e].text
                                => d = e
      BY <2>3, <2>4, <3>1, <3>2 DEF ProgressInv, SaidOnce
    <3>6. \A d \in Callers : SaysStep(d)' =>
              \A k \in DOMAIN thread' : thread'[k].text = callback'[d].text => k \in unheard'
      BY <1>1, <1>2, <2>3, <2>4, <3>1 DEF ProgressInv, SaidOnce
    <3> QED
      BY <3>3, <3>4, <3>5, <3>6 DEF SaidOnce
  <2>8. LastIsChecked'
    <3> SUFFICES ASSUME ~abreast'
                 PROVE  /\ \A d, e \in Callers : Idle(d)' \/ Idle(e)' \/ d = e
                        /\ \A d \in Callers :
                            /\ callback'[d].step \in {"check", "finish"} => callback'[d].old = latest'
                            /\ callback'[d].step = "send" /\ callback'[d].text \in Steps
                                 => Checked(latest)'
      BY DEF LastIsChecked
    <3>1. \A d \in Callers : d # c => Idle(d)' /\ callback'[d].step = "rest"
      BY <2>4, <2>5 DEF Idle
    <3>2. rec.step = "send" => Checked(latest)'
      BY <1>1, <2>3 DEF Checked
    <3> QED
      BY <1>1, <2>3, <2>4, <3>1, <3>2
  <2>9. OnlyLastIsUnderWay'
    BY <1>1, <2>5 DEF ProgressInv, OnlyLastIsUnderWay
  <2> QED
    BY <1>3, <2>6, <2>7, <2>8, <2>9 DEF ProgressInv
<1> QED
  BY <1>4, <1>5

LEMMA SendNoticeInv ==
    \A c \in Callers, m \in Notices : ProgressInv /\ SendNotice(c, m) => ProgressInv'
<1> SUFFICES ASSUME NEW c \in Callers, NEW m \in Notices, ProgressInv, SendNotice(c, m)
             PROVE  ProgressInv'
  OBVIOUS
<1>1. /\ Idle(c) /\ announced' = announced
      /\ thread' = thread /\ latest' = latest /\ failures' = failures /\ open' = open
      /\ stuck' = stuck /\ unheard' = unheard
  BY DEF SendNotice
<1>2. m \notin Steps
  BY ProgressTypes
<1>3. AnnouncedOnce' /\ BreakerCounts'
  BY <1>1 DEF ProgressInv, AnnouncedOnce, BreakerCounts
<1>4. PICK rec : rec = [step |-> "send", text |-> m, old |-> 0, sends |-> 0]
  OBVIOUS
<1>5. callback' = [callback EXCEPT ![c] = rec] /\ Abreast(c)
  BY <1>4 DEF SendNotice
<1>6. rec \in Doing /\ rec.text = m /\ rec.old = 0 /\ rec.step = "send"
  BY <1>4 DEF Doing
<1>7. /\ callback' \in [Callers -> Doing] /\ callback'[c] = rec
      /\ \A d \in Callers : d # c => callback'[d] = callback[d]
  BY <1>5, <1>6, ProgressTypes
<1>8. /\ abreast' \in BOOLEAN
      /\ ~abreast' => ~abreast /\ \A d \in Callers \ {c} : Idle(d)
  BY <1>5, ProgressTypes DEF Abreast
<1>9. ProgressTyped'
  BY <1>1, <1>6, <1>7, <1>8, ProgressTypes DEF ProgressInv, ProgressTyped, ProgressTypeOK
<1>10. SaidOnce'
  <2>1. \A d \in Callers : SaysStep(d)' => d # c /\ SaysStep(d) /\ callback'[d] = callback[d]
    BY <1>2, <1>6, <1>7 DEF SaysStep
  <2> QED
    BY <1>1, <2>1 DEF ProgressInv, SaidOnce
<1>11. LastIsChecked'
  <2>1. ~abreast' => \A d \in Callers : d # c => Idle(d)' /\ callback'[d].step = "rest"
    BY <1>7, <1>8 DEF Idle
  <2> QED
    BY <1>1, <1>2, <1>6, <1>7, <2>1 DEF LastIsChecked
<1>12. OnlyLastIsUnderWay'
  BY <1>1, <1>8 DEF ProgressInv, OnlyLastIsUnderWay
<1> QED
  BY <1>3, <1>9, <1>10, <1>11, <1>12 DEF ProgressInv

LEMMA OnAgentFinishInv == \A c \in Callers : ProgressInv /\ OnAgentFinish(c) => ProgressInv'
<1> SUFFICES ASSUME NEW c \in Callers, ProgressInv, OnAgentFinish(c)
             PROVE  ProgressInv'
  OBVIOUS
<1>1. /\ Idle(c) /\ announced' = announced /\ latest > 0
      /\ thread' = thread /\ latest' = latest /\ failures' = failures /\ open' = open
      /\ stuck' = stuck /\ unheard' = unheard
  BY DEF OnAgentFinish
<1>3. AnnouncedOnce' /\ BreakerCounts'
  BY <1>1 DEF ProgressInv, AnnouncedOnce, BreakerCounts
<1>4. PICK rec : rec = [step |-> "finish", text |-> "", old |-> latest, sends |-> 0]
  OBVIOUS
<1>5. callback' = [callback EXCEPT ![c] = rec] /\ Abreast(c)
  BY <1>4 DEF OnAgentFinish
<1>6. rec \in Doing /\ rec.old = latest /\ rec.step = "finish" /\ latest # 0
  <2>1. latest \in Nat /\ latest # 0
    BY <1>1, ProgressTypes
  <2> QED
    BY <1>4, <2>1 DEF Doing
<1>7. /\ callback' \in [Callers -> Doing] /\ callback'[c] = rec
      /\ \A d \in Callers : d # c => callback'[d] = callback[d]
  BY <1>5, <1>6, ProgressTypes
<1>8. /\ abreast' \in BOOLEAN
      /\ ~abreast' => ~abreast /\ \A d \in Callers \ {c} : Idle(d)
  BY <1>5, ProgressTypes DEF Abreast
<1>9. ProgressTyped'
  BY <1>1, <1>6, <1>7, <1>8, ProgressTypes DEF ProgressInv, ProgressTyped, ProgressTypeOK
<1>10. SaidOnce'
  <2>1. \A d \in Callers : SaysStep(d)' => d # c /\ SaysStep(d) /\ callback'[d] = callback[d]
    BY <1>6, <1>7 DEF SaysStep
  <2> QED
    BY <1>1, <2>1 DEF ProgressInv, SaidOnce
<1>11. LastIsChecked'
  <2>1. ~abreast' => \A d \in Callers : d # c => Idle(d)' /\ callback'[d].step = "rest"
    BY <1>7, <1>8 DEF Idle
  <2> QED
    BY <1>1, <1>6, <1>7, <2>1 DEF LastIsChecked
<1>12. OnlyLastIsUnderWay'
  BY <1>1, <1>8 DEF ProgressInv, OnlyLastIsUnderWay
<1> QED
  BY <1>3, <1>9, <1>10, <1>11, <1>12 DEF ProgressInv

\* The message before gets its checkmark, or Slack does not make the update.
LEMMA UpdateInv ==
    ASSUME ProgressInv, NEW c \in Callers, callback[c].step \in {"check", "finish"},
           NEW rec \in Doing, callback' = [callback EXCEPT ![c] = rec],
           rec = Resting \/ (/\ rec.step = "send" /\ rec.text = callback[c].text
                             /\ rec.old = callback[c].old /\ callback[c].step = "check"),
           \/ /\ thread' = [thread EXCEPT ![callback[c].old].mark = "check"] /\ stuck' = stuck
           \/ /\ thread' = thread /\ stuck' = stuck \union {callback[c].old}
           \/ /\ thread' = thread /\ stuck' = stuck /\ rec = Resting,
           announced' = announced, latest' = latest, unheard' = unheard, abreast' = abreast,
           failures' \in Nat, open' \in BOOLEAN, BreakerCounts'
    PROVE  ProgressInv'
<1>1. PICK k : k = callback[c].old
  OBVIOUS
<1>2. k \in 1..Len(thread)
  BY <1>1, ProgressTypes DEF ProgressInv, ProgressTyped
<1>3. /\ thread' \in Seq(Message) /\ Len(thread') = Len(thread) /\ DOMAIN thread' = DOMAIN thread
      /\ \A j \in DOMAIN thread : thread'[j].text = thread[j].text
      /\ \A j \in DOMAIN thread : thread'[j].mark = "hourglass" => thread[j].mark = "hourglass"
      /\ stuck \subseteq stuck' /\ stuck' \subseteq 1..Len(thread)
      /\ rec = Resting \/ k \in stuck' \/ thread'[k].mark # "hourglass"
  <2>1. CASE thread' = [thread EXCEPT ![k].mark = "check"] /\ stuck' = stuck
    <3>1. PICK t : t = [thread EXCEPT ![k].mark = "check"]
      OBVIOUS
    <3>4. thread \in Seq(Message)
      BY ProgressTypes
    <3>2. /\ t \in Seq(Message) /\ Len(t) = Len(thread) /\ DOMAIN t = 1..Len(thread)
          /\ \A j \in 1..Len(thread) : t[j].text = thread[j].text
          /\ \A j \in 1..Len(thread) : j # k => t[j] = thread[j]
          /\ t[k].mark = "check"
      BY <1>2, <3>1, <3>4, Marked
    <3>3. \A j \in DOMAIN thread : t[j].mark = "hourglass" => thread[j].mark = "hourglass"
      BY <3>2, ProgressTypes
    <3> QED
      BY <2>1, <3>1, <3>2, <3>3, ProgressTypes
  <2>2. CASE thread' = thread /\ stuck' = stuck \union {k}
    BY <2>2, <1>2, ProgressTypes
  <2>3. CASE thread' = thread /\ stuck' = stuck /\ rec = Resting
    BY <2>3, ProgressTypes
  <2> QED
    BY <1>1, <2>1, <2>2, <2>3
<1>4. Resting.step = "rest" /\ Resting.old = 0
  BY DEF Resting
<1>5. /\ callback' \in [Callers -> Doing] /\ callback'[c] = rec
      /\ \A d \in Callers : d # c => callback'[d] = callback[d]
  BY ProgressTypes
<1>6. ProgressTyped'
  <2>1. \A d \in Callers : callback'[d].old \in 0..Len(thread')
    BY <1>1, <1>2, <1>3, <1>4, <1>5, ProgressTypes
  <2>2. ProgressTypeOK'
    BY <1>3, <2>1, ProgressTypes DEF ProgressTypeOK
  <2>3. \A d \in Callers :
          /\ callback'[d].step \in {"check", "finish"} => callback'[d].old # 0
          /\ callback'[d].step \in {"check", "send"} => callback'[d].text \in Steps \union Notices
    BY <1>4, <1>5 DEF ProgressInv, ProgressTyped
  <2> QED
    BY <1>5, <2>2, <2>3 DEF ProgressTyped
<1>7. SaidOnce'
  <2>1. \A d \in Callers : SaysStep(d)' => SaysStep(d) /\ callback'[d].text = callback[d].text
    BY <1>4, <1>5 DEF SaysStep
  <2> QED
    BY <1>3, <2>1 DEF ProgressInv, SaidOnce
<1>8. AnnouncedOnce'
  BY <1>3 DEF ProgressInv, AnnouncedOnce
<1>9. LastIsChecked'
  <2> SUFFICES ASSUME ~abreast'
               PROVE  /\ \A d, e \in Callers : Idle(d)' \/ Idle(e)' \/ d = e
                      /\ \A d \in Callers :
                          /\ callback'[d].step \in {"check", "finish"} => callback'[d].old = latest'
                          /\ callback'[d].step = "send" /\ callback'[d].text \in Steps
                               => Checked(latest)'
    BY DEF LastIsChecked
  <2>1. k = latest /\ \A d \in Callers : d # c => Idle(d)
    BY <1>1 DEF ProgressInv, LastIsChecked, Idle
  <2>2. \A d \in Callers : d # c => Idle(d)' /\ callback'[d].step = "rest"
    BY <1>5, <2>1 DEF Idle
  <2>3. rec.step = "send" => Checked(latest)'
    BY <1>3, <1>4, <2>1 DEF Checked
  <2> QED
    BY <1>4, <1>5, <2>2, <2>3
<1>10. OnlyLastIsUnderWay'
  BY <1>3 DEF ProgressInv, OnlyLastIsUnderWay
<1> QED
  BY <1>6, <1>7, <1>8, <1>9, <1>10 DEF ProgressInv

LEMMA RestingDoes == Resting \in Doing
BY DEF Resting, Doing

LEMMA FailureCounts ==
    ProgressInv /\ RecordFailure => failures' \in Nat /\ open' \in BOOLEAN /\ BreakerCounts'
<1> SUFFICES ASSUME ProgressInv, RecordFailure
             PROVE  failures' \in Nat /\ open' \in BOOLEAN /\ BreakerCounts'
  OBVIOUS
<1>1. failures' = failures + 1 /\ open' = (open \/ failures + 1 >= MaxFailures)
  BY DEF RecordFailure
<1>2. (open <=> failures >= MaxFailures) /\ failures \in Nat /\ MaxFailures \in Nat
  BY ProgressTypes DEF ProgressInv, BreakerCounts
<1>3. failures >= MaxFailures => failures + 1 >= MaxFailures
  BY <1>2
<1>4. open' <=> failures + 1 >= MaxFailures
  BY <1>1, <1>2, <1>3
<1>5. failures' \in Nat
  BY <1>1, <1>2
<1>6. open' \in BOOLEAN
  BY <1>1, ProgressTypes
<1> QED
  BY <1>1, <1>4, <1>5, <1>6 DEF BreakerCounts

LEMMA SuccessCounts ==
    ProgressInv /\ RecordSuccess => failures' \in Nat /\ open' \in BOOLEAN /\ BreakerCounts'
<1> SUFFICES ASSUME ProgressInv, RecordSuccess
             PROVE  failures' \in Nat /\ open' \in BOOLEAN /\ BreakerCounts'
  OBVIOUS
<1>1. failures' = 0 /\ open' = FALSE
  BY DEF RecordSuccess
<1>2. ~(failures' >= MaxFailures)
  BY <1>1, ProgressTypes
<1> QED
  BY <1>1, <1>2 DEF BreakerCounts

LEMMA UpdateMessageInv == \A c \in Callers : ProgressInv /\ UpdateMessage(c) => ProgressInv'
<1> SUFFICES ASSUME NEW c \in Callers, ProgressInv, UpdateMessage(c) PROVE ProgressInv'
  OBVIOUS
<1>1. /\ callback[c].step = "check" /\ announced' = announced /\ latest' = latest
      /\ unheard' = unheard /\ abreast' = abreast
  BY DEF UpdateMessage
<1>2. CASE UpdatePrevious(c, [callback EXCEPT ![c].step = "send"])
  <2>1. PICK rec : rec = [callback[c] EXCEPT !.step = "send"]
    OBVIOUS
  <2>2. callback' = [callback EXCEPT ![c] = rec] /\ failures' = failures /\ open' = open
    BY <1>2, <2>1 DEF UpdatePrevious
  <2>3. callback[c] \in Doing
    BY ProgressTypes
  <2>4. /\ rec \in Doing /\ rec.step = "send" /\ rec.text = callback[c].text
        /\ rec.old = callback[c].old
    BY <2>1, <2>3 DEF Doing
  <2>5. BreakerCounts' /\ failures' \in Nat /\ open' \in BOOLEAN
    BY <2>2, ProgressTypes DEF ProgressInv, BreakerCounts
  <2>6. \/ /\ thread' = [thread EXCEPT ![callback[c].old].mark = "check"] /\ stuck' = stuck
        \/ /\ thread' = thread /\ stuck' = stuck \union {callback[c].old}
    BY <1>2 DEF UpdatePrevious
  <2> QED
    BY <1>1, <2>2, <2>4, <2>5, <2>6, UpdateInv
<1>3. CASE RecordFailure /\ callback' = [callback EXCEPT ![c] = Resting] /\ UNCHANGED <<thread, stuck>>
  BY <1>1, <1>3, UpdateInv, RestingDoes, FailureCounts
<1> QED
  BY <1>2, <1>3 DEF UpdateMessage

LEMMA FinishMessageInv == \A c \in Callers : ProgressInv /\ FinishMessage(c) => ProgressInv'
<1> SUFFICES ASSUME NEW c \in Callers, ProgressInv, FinishMessage(c) PROVE ProgressInv'
  OBVIOUS
<1>1. /\ callback[c].step = "finish" /\ announced' = announced /\ latest' = latest
      /\ unheard' = unheard /\ abreast' = abreast
      /\ callback' = [callback EXCEPT ![c] = Resting] /\ failures' = failures /\ open' = open
  BY DEF FinishMessage, UpdatePrevious
<1>2. BreakerCounts' /\ failures' \in Nat /\ open' \in BOOLEAN
  BY <1>1, ProgressTypes DEF ProgressInv, BreakerCounts
<1>3. \/ /\ thread' = [thread EXCEPT ![callback[c].old].mark = "check"] /\ stuck' = stuck
      \/ /\ thread' = thread /\ stuck' = stuck \union {callback[c].old}
  BY DEF FinishMessage, UpdatePrevious
<1> QED
  BY <1>1, <1>2, <1>3, UpdateInv, RestingDoes

\* A message is posted, heard of or not, or nothing is.
LEMMA SendInv ==
    ASSUME ProgressInv, NEW c \in Callers, callback[c].step = "send",
           NEW rec \in Doing, callback' = [callback EXCEPT ![c] = rec],
           rec = Resting \/ (/\ rec.step = "send" /\ rec.text = callback[c].text
                             /\ rec.old = callback[c].old),
           \/ /\ thread' = thread /\ latest' = latest /\ unheard' = unheard
           \/ /\ thread' = Posted(c) /\ unheard' = unheard /\ rec = Resting
              /\ latest' = IF callback[c].text \in Steps THEN Len(thread') ELSE latest
           \/ /\ thread' = Posted(c) /\ unheard' = unheard \union {Len(thread')}
              /\ latest' = latest,
           announced' = announced, stuck' = stuck, abreast' = abreast,
           failures' \in Nat, open' \in BOOLEAN, BreakerCounts'
    PROVE  ProgressInv'
<1>1. Resting.step = "rest" /\ Resting.old = 0
  BY DEF Resting
<1>2. /\ callback' \in [Callers -> Doing] /\ callback'[c] = rec
      /\ \A d \in Callers : d # c => callback'[d] = callback[d]
  BY ProgressTypes
<1>3. \A d \in Callers : SaysStep(d)' => SaysStep(d) /\ callback'[d].text = callback[d].text
  BY <1>1, <1>2 DEF SaysStep
<1>4. \A d \in Callers : callback'[d].step \in {"check", "finish"} =>
          callback'[d] = callback[d] /\ callback[d].step \in {"check", "finish"}
  BY <1>1, <1>2
<1>5. PICK n \in Nat : n = Len(thread) /\ DOMAIN thread = 1..n
  BY ProgressTypes
<1>6. CASE thread' = thread /\ latest' = latest /\ unheard' = unheard
  <2>1. \A d \in Callers : callback'[d].old \in 0..Len(thread')
    BY <1>1, <1>2, <1>6, ProgressTypes
  <2>2. ProgressTyped'
    <3>1. ProgressTypeOK'
      BY <1>6, <2>1, ProgressTypes DEF ProgressTypeOK
    <3> QED
      BY <3>1, <1>1, <1>2, <1>4 DEF ProgressInv, ProgressTyped
  <2>3. SaidOnce' /\ AnnouncedOnce'
    BY <1>6, <1>3 DEF ProgressInv, SaidOnce, AnnouncedOnce
  <2>4. LastIsChecked'
    BY <1>1, <1>2, <1>6 DEF ProgressInv, LastIsChecked, Idle, Checked
  <2>5. OnlyLastIsUnderWay'
    BY <1>6 DEF ProgressInv, OnlyLastIsUnderWay
  <2> QED
    BY <2>2, <2>3, <2>4, <2>5 DEF ProgressInv
<1>7. CASE thread' = Posted(c)
  <2>1. PICK sign : sign = IF callback[c].text \in Steps THEN "hourglass" ELSE "plain"
    OBVIOUS
  <2>2. PICK m : m = [text |-> callback[c].text, mark |-> sign]
    OBVIOUS
  <2>3. m \in Message /\ m.text = callback[c].text /\ m.mark = sign
    <3>1. sign \in {"hourglass", "check", "plain"}
      BY <2>1
    <3>2. callback[c].text \in Steps \union Notices
      BY DEF ProgressInv, ProgressTyped
    <3> QED
      BY <2>2, <3>1, <3>2 DEF Message
  <2>4. thread' = Append(thread, m)
    BY <1>7, <2>1, <2>2 DEF Posted
  <2>5. /\ thread' \in Seq(Message) /\ Len(thread') = n + 1 /\ DOMAIN thread' = 1..(n + 1)
        /\ \A j \in 1..n : thread'[j] = thread[j]
        /\ thread'[n + 1] = m
    BY <1>5, <2>3, <2>4, Added, ProgressTypes
  <2>6. \/ /\ unheard' = unheard /\ rec = Resting
           /\ latest' = IF callback[c].text \in Steps THEN n + 1 ELSE latest
        \/ unheard' = unheard \union {n + 1} /\ latest' = latest
    <3>1. n + 1 # n /\ Len(thread') # Len(thread)
      BY <1>5, <2>5
    <3> QED
      BY <3>1, <1>7, <2>5
  <2>7. latest' \in 0..(n + 1) /\ unheard' \subseteq 1..(n + 1) /\ unheard \subseteq unheard'
    <3>1. latest \in 0..n /\ unheard \subseteq 1..n
      BY <1>5, ProgressTypes
    <3>2. n + 1 \in 0..(n + 1) /\ n + 1 \in 1..(n + 1)
      OBVIOUS
    <3>3. 0..n \subseteq 0..(n + 1) /\ 1..n \subseteq 1..(n + 1)
      OBVIOUS
    <3>4. unheard' \subseteq unheard \union {n + 1} /\ latest' \in {latest, n + 1}
      BY <2>6
    <3>5. unheard \subseteq unheard'
      BY <2>6
    <3> QED
      BY <3>1, <3>2, <3>3, <3>4, <3>5
  <2>8. ProgressTyped'
    <3>1. \A d \in Callers : callback'[d].old \in 0..(n + 1)
      BY <1>1, <1>2, <1>5, ProgressTypes
    <3>2. stuck' \subseteq 1..(n + 1)
      BY <1>5, ProgressTypes
    <3>3. ProgressTypeOK'
      BY <2>5, <2>7, <3>1, <3>2, ProgressTypes DEF ProgressTypeOK
    <3> QED
      BY <3>3, <1>1, <1>2, <1>4 DEF ProgressInv, ProgressTyped
  <2>9. SaysStep(c) <=> callback[c].text \in Steps
    BY DEF SaysStep
  <2>10. SaysStep(c)' => rec # Resting
    BY <1>1, <1>2 DEF SaysStep
  <2>11. SaidOnce'
    <3>1. \A k \in DOMAIN thread' : thread'[k].text \in Steps => thread'[k].text \in announced'
      BY <1>5, <2>3, <2>5, <2>9 DEF ProgressInv, SaidOnce
    <3>2. \A d \in Callers : SaysStep(d)' => callback'[d].text \in announced'
      BY <1>3 DEF ProgressInv, SaidOnce
    <3>3. \A d, e \in Callers : SaysStep(d)' /\ SaysStep(e)' /\ callback'[d].text = callback'[e].text
                                => d = e
      BY <1>3 DEF ProgressInv, SaidOnce
    <3>4. ASSUME NEW d \in Callers, SaysStep(d)', NEW k \in DOMAIN thread',
                 thread'[k].text = callback'[d].text
          PROVE  k \in unheard'
      <4>1. SaysStep(d) /\ callback'[d].text = callback[d].text
        BY <1>3, <3>4
      <4>2. CASE k \in 1..n
        BY <4>1, <4>2, <1>5, <2>5, <2>7, <3>4 DEF ProgressInv, SaidOnce
      <4>3. CASE k = n + 1
        <5>1. callback[c].text = callback[d].text
          BY <2>3, <2>5, <3>4, <4>1, <4>3
        <5>2. SaysStep(c)
          BY <2>9, <4>1, <5>1 DEF SaysStep
        <5>3. c = d
          BY <4>1, <5>1, <5>2 DEF ProgressInv, SaidOnce
        <5>4. rec # Resting
          BY <3>4, <5>3, <2>10
        <5> QED
          BY <4>3, <5>4, <2>6
      <4> QED
        BY <2>5, <4>2, <4>3
    <3> QED
      BY <3>1, <3>2, <3>3, <3>4 DEF SaidOnce
  <2>12. AnnouncedOnce'
    <3> SUFFICES ASSUME NEW j \in DOMAIN thread', NEW k \in DOMAIN thread',
                        j < k, thread'[j].text = thread'[k].text, thread'[j].text \in Steps
                 PROVE  j \in unheard'
      BY DEF AnnouncedOnce
    <3>1. j \in 1..n
      BY <2>5
    <3>2. CASE k \in 1..n
      BY <1>5, <2>5, <2>7, <3>1, <3>2 DEF ProgressInv, AnnouncedOnce
    <3>3. CASE k = n + 1
      <4>1. thread[j].text = callback[c].text /\ callback[c].text \in Steps
        BY <2>3, <2>5, <3>1, <3>3
      <4> QED
        BY <1>5, <2>7, <2>9, <3>1, <4>1 DEF ProgressInv, SaidOnce
    <3> QED
      BY <2>5, <3>2, <3>3
  <2>13. LastIsChecked'
    <3> SUFFICES ASSUME ~abreast'
                 PROVE  /\ \A d, e \in Callers : Idle(d)' \/ Idle(e)' \/ d = e
                        /\ \A d \in Callers :
                            /\ callback'[d].step \in {"check", "finish"} => callback'[d].old = latest'
                            /\ callback'[d].step = "send" /\ callback'[d].text \in Steps
                                 => Checked(latest)'
      BY DEF LastIsChecked
    <3>1. \A d \in Callers : d # c => Idle(d)
      BY DEF ProgressInv, LastIsChecked, Idle
    <3>2. \A d \in Callers : d # c => Idle(d)' /\ callback'[d].step = "rest"
      BY <1>2, <3>1 DEF Idle
    <3>3. rec = Resting \/ rec.step = "send"
      OBVIOUS
    <3>4. rec.step = "send" /\ rec.text \in Steps => Checked(latest)'
      <4> SUFFICES ASSUME rec.step = "send", rec.text \in Steps PROVE Checked(latest)'
        OBVIOUS
      <4>1. rec # Resting /\ latest' = latest
        BY <1>1, <2>6
      <4>2. Checked(latest)
        BY <4>1 DEF ProgressInv, LastIsChecked
      <4>3. latest = 0 \/ latest \in 1..n
        BY <1>5, ProgressTypes
      <4> QED
        BY <4>1, <4>2, <4>3, <2>5, <2>7 DEF Checked
    <3> QED
      BY <1>1, <1>2, <3>2, <3>3, <3>4
  <2>14. OnlyLastIsUnderWay'
    <3> SUFFICES ASSUME ~abreast', NEW k \in DOMAIN thread' \ (stuck' \union unheard' \union {latest'})
                 PROVE  thread'[k].mark # "hourglass"
      BY DEF OnlyLastIsUnderWay
    <3>1. CASE k = n + 1
      <4>1. callback[c].text \notin Steps
        BY <2>6, <3>1
      <4> QED
        BY <2>1, <2>3, <2>5, <3>1, <4>1
    <3>2. CASE k \in 1..n
      <4>1. thread'[k] = thread[k] /\ k \notin stuck \union unheard
        BY <2>5, <2>7, <3>2
      <4>2. CASE k # latest
        BY <1>5, <3>2, <4>1, <4>2 DEF ProgressInv, OnlyLastIsUnderWay
      <4>3. CASE k = latest
        <5>1. latest' # latest /\ callback[c].text \in Steps
          BY <2>6, <4>3
        <5>2. Checked(latest)
          BY <5>1 DEF ProgressInv, LastIsChecked
        <5> QED
          BY <3>2, <4>1, <4>3, <5>2 DEF Checked
      <4> QED
        BY <4>2, <4>3
    <3> QED
      BY <2>5, <3>1, <3>2
  <2> QED
    BY <2>8, <2>11, <2>12, <2>13, <2>14 DEF ProgressInv
<1> QED
  BY <1>6, <1>7

LEMMA SendMessageInv == \A c \in Callers : ProgressInv /\ SendMessage(c) => ProgressInv'
<1> SUFFICES ASSUME NEW c \in Callers, ProgressInv, SendMessage(c) PROVE ProgressInv'
  OBVIOUS
<1>1. /\ callback[c].step = "send" /\ announced' = announced /\ stuck' = stuck
      /\ unheard' = unheard /\ abreast' = abreast
      /\ callback' = [callback EXCEPT ![c] = Resting]
  BY DEF SendMessage, Done
<1>2. failures' \in Nat /\ open' \in BOOLEAN /\ BreakerCounts'
  BY SuccessCounts, FailureCounts DEF SendMessage
<1>3. CASE thread' = thread /\ latest' = latest
  BY <1>1, <1>2, <1>3, SendInv, RestingDoes
<1>4. CASE /\ thread' = Posted(c)
           /\ latest' = IF callback[c].text \in Steps THEN Len(thread') ELSE latest
  BY <1>1, <1>2, <1>4, SendInv, RestingDoes
<1> QED
  BY <1>3, <1>4 DEF SendMessage

LEMMA SendTimesOutInv == \A c \in Callers : ProgressInv /\ SendTimesOut(c) => ProgressInv'
<1> SUFFICES ASSUME NEW c \in Callers, ProgressInv, SendTimesOut(c) PROVE ProgressInv'
  OBVIOUS
<1>1. /\ callback[c].step = "send" /\ announced' = announced /\ stuck' = stuck
      /\ latest' = latest /\ abreast' = abreast
  BY DEF SendTimesOut
<1>2. PICK rec \in Doing :
        /\ callback' = [callback EXCEPT ![c] = rec]
        /\ rec = Resting \/ (/\ rec.step = "send" /\ rec.text = callback[c].text
                             /\ rec.old = callback[c].old)
  <2>1. CASE callback[c].sends + 1 < MostSends
    <3>1. callback[c] \in Doing
      BY ProgressTypes
    <3>6. callback[c].sends \in Nat
      BY <3>1 DEF Doing
    <3>7. callback[c].sends + 1 \in Nat
      BY <3>6
    <3>5. PICK n \in Nat : n = callback[c].sends + 1
      BY <3>7
    <3>2. PICK rec : rec = [callback[c] EXCEPT !.sends = n]
      OBVIOUS
    <3>3. /\ rec \in Doing /\ rec.step = callback[c].step /\ rec.text = callback[c].text
          /\ rec.old = callback[c].old
      BY <3>1, <3>2 DEF Doing
    <3>4. callback' = [callback EXCEPT ![c] = rec]
      BY <2>1, <3>2, <3>5 DEF SendTimesOut
    <3> QED
      BY <1>1, <3>3, <3>4
  <2>2. CASE ~(callback[c].sends + 1 < MostSends)
    <3>1. callback' = [callback EXCEPT ![c] = Resting]
      BY <2>2 DEF SendTimesOut, Done
    <3> QED
      BY <3>1, RestingDoes
  <2> QED
    BY <2>1, <2>2
<1>3. failures' \in Nat /\ open' \in BOOLEAN /\ BreakerCounts'
  <2>1. (failures' = failures /\ open' = open) \/ RecordSuccess
    BY DEF SendTimesOut
  <2>2. CASE failures' = failures /\ open' = open
    BY <2>2, ProgressTypes DEF ProgressInv, BreakerCounts
  <2> QED
    BY <2>1, <2>2, SuccessCounts
<1>4. CASE thread' = thread /\ unheard' = unheard
  BY <1>1, <1>2, <1>3, <1>4, SendInv
<1>5. CASE thread' = Posted(c) /\ unheard' = unheard \union {Len(thread')}
  BY <1>1, <1>2, <1>3, <1>5, SendInv
<1> QED
  BY <1>4, <1>5 DEF SendTimesOut

LEMMA ProgressStep == ProgressInv /\ [ProgressNext]_progressVars => ProgressInv'
<1> SUFFICES ASSUME ProgressInv, [ProgressNext]_progressVars PROVE ProgressInv'
  OBVIOUS
<1>1. CASE UNCHANGED progressVars
  <2>1. ProgressTyped' /\ SaidOnce' /\ AnnouncedOnce'
    BY <1>1 DEF progressVars, ProgressInv, ProgressTyped, ProgressTypeOK, SaidOnce, SaysStep,
       AnnouncedOnce
  <2>2. LastIsChecked' /\ OnlyLastIsUnderWay' /\ BreakerCounts'
    BY <1>1 DEF progressVars, ProgressInv, LastIsChecked, OnlyLastIsUnderWay, BreakerCounts, Idle,
       Checked
  <2> QED
    BY <2>1, <2>2 DEF ProgressInv
<1> QED
  BY <1>1, OnToolStartInv, SendNoticeInv, UpdateMessageInv, SendMessageInv, SendTimesOutInv,
     OnAgentFinishInv, FinishMessageInv
  DEF ProgressNext

LEMMA ProgressInvariance == ProgressSpec => []ProgressInv
BY ProgressInitInv, ProgressStep, PTL DEF ProgressSpec

-----------------------------------------------------------------------------
(* The analysis of a review. *)

LookSteps == {"idle", "sync", "parse", "compare", "analyse", "extract", "discover", "save", "stuck"}

\* What a worker knows of the commits it compares, and what it has asked.
LookSound(w) ==
    /\ w.step \in LookSteps
    /\ w.prev \in Nat /\ w.prev <= Len(code) /\ w.sha \in Nat /\ w.sha <= Len(code)
    /\ w.step \notin {"idle", "stuck"} => w.svc \in Reviewed
    /\ w.diff => w.prev # 0 /\ w.sha > w.prev
    /\ w.step = "sync" => ~w.diff
    /\ w.calls \in Nat
    /\ w.step \notin {"extract", "save"} => w.calls = 0
    /\ w.step # "save" => w.found = "none" /\ w.how # "context"
    /\ w.how = "context" => w.prev # 0 /\ w.sha # 0 /\ code[w.sha] = code[w.prev]
    /\ w.found # "none" => w.calls < MostCalls

AnalysisInv ==
    /\ code \in Seq(BOOLEAN)
    /\ head \in Nat /\ head <= Len(code)
    /\ done \in [Reviewed -> Nat] /\ \A s \in Reviewed : done[s] <= Len(code)
    /\ DOMAIN work = Runners
    /\ \A r \in Runners : DOMAIN work[r] = DOMAIN NoRun /\ LookSound(work[r])

LEMMA NoRunIsSound ==
    ASSUME AnalysisInv
    PROVE  /\ LookSound(NoRun)
           /\ NoRun.step = "idle" /\ NoRun.how = "none" /\ NoRun.found = "none"
           /\ DOMAIN NoRun = {"step", "svc", "prev", "sha", "drop", "diff", "facts", "left",
                              "calls", "found", "how"}
BY DEF AnalysisInv, NoRun, LookSound, LookSteps

LEMMA LookDomain ==
    ASSUME AnalysisInv, NEW r \in Runners
    PROVE  /\ DOMAIN work[r] = {"step", "svc", "prev", "sha", "drop", "diff", "facts", "left",
                                "calls", "found", "how"}
           /\ LookSound(work[r])
BY NoRunIsSound DEF AnalysisInv

\* One worker's step that leaves the branch alone.
LEMMA LookStep ==
    ASSUME AnalysisInv, NEW r \in Runners, NEW to, DOMAIN to = DOMAIN NoRun, LookSound(to),
           work' = [work EXCEPT ![r] = to], code' = code, head' = head,
           done' \in [Reviewed -> Nat], \A s \in Reviewed : done'[s] <= Len(code)
    PROVE  AnalysisInv'
<1>1. DOMAIN work' = Runners
  BY DEF AnalysisInv
<1>2. \A q \in Runners : work'[q] = to \/ work'[q] = work[q]
  BY DEF AnalysisInv
<1>3. \A q \in Runners : DOMAIN work'[q] = DOMAIN NoRun /\ LookSound(work'[q])
  BY <1>2 DEF AnalysisInv
<1> QED
  BY <1>1, <1>3 DEF AnalysisInv, LookSound

LEMMA AnalysisInitInv == AnalysisInit => AnalysisInv
<1> SUFFICES ASSUME AnalysisInit PROVE AnalysisInv
  OBVIOUS
<1>1. code \in Seq(BOOLEAN) /\ Len(code) = 0
  BY DEF AnalysisInit
<1>2. LookSound(NoRun)
  BY <1>1 DEF NoRun, LookSound, LookSteps
<1>3. DOMAIN work = Runners /\ \A r \in Runners : work[r] = NoRun
  BY DEF AnalysisInit
<1>4. done \in [Reviewed -> Nat] /\ \A s \in Reviewed : done[s] <= Len(code)
  BY <1>1 DEF AnalysisInit
<1> QED
  BY <1>1, <1>2, <1>3, <1>4 DEF AnalysisInit, AnalysisInv

LEMMA PushInv == \A infra \in BOOLEAN : AnalysisInv /\ Push(infra) => AnalysisInv'
<1> SUFFICES ASSUME NEW infra \in BOOLEAN, AnalysisInv, Push(infra) PROVE AnalysisInv'
  OBVIOUS
<1>1. /\ code' = Append(code, infra) /\ head' = Len(code) + 1 /\ done' = done /\ work' = work
      /\ code \in Seq(BOOLEAN)
  BY DEF Push, AnalysisInv
<1>2. PICK n \in Nat : n = Len(code)
  BY <1>1
<1>3. /\ code' \in Seq(BOOLEAN) /\ Len(code') = n + 1 /\ \A i \in 1..n : code'[i] = code[i]
  BY <1>1, <1>2
<1>4. \A s \in Reviewed : done'[s] <= Len(code')
  BY <1>1, <1>2, <1>3 DEF AnalysisInv
<1>5. ASSUME NEW r \in Runners PROVE LookSound(work[r])'
  <2>1. PICK w : w = work[r]
    OBVIOUS
  <2>2. LookSound(w)
    BY <2>1 DEF AnalysisInv
  <2>3. w.how = "context" => code'[w.sha] = code'[w.prev]
    <3> SUFFICES ASSUME w.how = "context" PROVE code'[w.sha] = code'[w.prev]
      OBVIOUS
    <3>1. /\ w.sha \in 1..n /\ w.prev \in 1..n /\ code[w.sha] = code[w.prev]
      BY <1>2, <2>2 DEF LookSound
    <3> QED
      BY <1>3, <3>1
  <2>4. w.prev <= n + 1 /\ w.sha <= n + 1
    BY <1>2, <2>2 DEF LookSound
  <2>5. w = work'[r]
    BY <1>1, <2>1
  <2> QED
    BY <1>3, <2>2, <2>3, <2>4, <2>5 DEF LookSound
<1>6. head' \in Nat /\ head' <= Len(code')
  BY <1>1, <1>2, <1>3
<1> QED
  BY <1>1, <1>3, <1>4, <1>5, <1>6 DEF AnalysisInv

LEMMA ForcePushInv == \A c \in Commits : AnalysisInv /\ ForcePush(c) => AnalysisInv'
<1> SUFFICES ASSUME NEW c \in Commits, AnalysisInv, ForcePush(c) PROVE AnalysisInv'
  OBVIOUS
<1>1. /\ code' = code /\ head' = c /\ done' = done /\ work' = work /\ c \in DOMAIN code
  BY DEF ForcePush
<1>2. c \in Nat /\ c <= Len(code)
  BY <1>1 DEF AnalysisInv
<1> QED
  BY <1>1, <1>2 DEF AnalysisInv, LookSound

LEMMA ReviewEnds ==
    ASSUME AnalysisInv, NEW r \in Runners, NEW to, to = NoRun \/ to = [NoRun EXCEPT !.step = "stuck", !.svc = work[r].svc],
           work' = [work EXCEPT ![r] = to], code' = code, head' = head, done' = done
    PROVE  AnalysisInv'
<1>1. DOMAIN to = DOMAIN NoRun /\ LookSound(to)
  <2>1. CASE to = NoRun
    BY <2>1, NoRunIsSound
  <2>2. CASE to = [NoRun EXCEPT !.step = "stuck", !.svc = work[r].svc]
    <3>1. /\ DOMAIN to = DOMAIN NoRun /\ to.step = "stuck" /\ to.prev = NoRun.prev /\ to.sha = NoRun.sha
          /\ to.diff = NoRun.diff /\ to.calls = NoRun.calls /\ to.found = NoRun.found
          /\ to.how = NoRun.how
      BY <2>2, NoRunIsSound
    <3> QED
      BY <3>1, NoRunIsSound DEF LookSound, LookSteps
  <2> QED
    BY <2>1, <2>2
<1>2. done' \in [Reviewed -> Nat] /\ \A s \in Reviewed : done'[s] <= Len(code)
  BY DEF AnalysisInv
<1> QED
  BY <1>1, <1>2, LookStep

LEMMA ReviewFailsInv ==
    \A r \in Runners : \A rows : AnalysisInv /\ ReviewFails(r, rows) => AnalysisInv'
<1> SUFFICES ASSUME NEW r \in Runners, NEW rows, AnalysisInv, ReviewFails(r, rows)
             PROVE  AnalysisInv'
  OBVIOUS
<1>1. work' = [work EXCEPT ![r] = NoRun] /\ code' = code /\ head' = head /\ done' = done
  BY DEF ReviewFails, EndReview
<1> QED
  BY <1>1, ReviewEnds

LEMMA BreaksInv ==
    \A r \in Runners : AnalysisInv /\ (LeaveReview(r) \/ RunnerDies(r) \/ BreakReview(r)) => AnalysisInv'
<1> SUFFICES ASSUME NEW r \in Runners, AnalysisInv, LeaveReview(r) \/ RunnerDies(r) \/ BreakReview(r)
             PROVE  AnalysisInv'
  OBVIOUS
<1>1. CASE LeaveReview(r)
  BY <1>1, ReviewEnds DEF LeaveReview, Goes
<1>2. CASE RunnerDies(r)
  BY <1>2, ReviewEnds DEF RunnerDies
<1>3. CASE BreakReview(r)
  <2>1. PICK to : to = [NoRun EXCEPT !.step = "stuck", !.svc = work[r].svc]
    OBVIOUS
  <2>2. work' = [work EXCEPT ![r] = to] /\ code' = code /\ head' = head /\ done' = done
    BY <1>3, <2>1 DEF BreakReview
  <2> QED
    BY <2>1, <2>2, ReviewEnds
<1> QED
  BY <1>1, <1>2, <1>3

LEMMA SaveAnalysisInv == \A r \in Runners : AnalysisInv /\ SaveAnalysis(r) => AnalysisInv'
<1> SUFFICES ASSUME NEW r \in Runners, AnalysisInv, SaveAnalysis(r) PROVE AnalysisInv'
  OBVIOUS
<1>1. /\ work' = [work EXCEPT ![r] = NoRun] /\ code' = code /\ head' = head
      /\ done' = [done EXCEPT ![work[r].svc] = work[r].sha]
  BY DEF SaveAnalysis, EndReview
<1>2. work[r].sha \in Nat /\ work[r].sha <= Len(code)
  BY LookDomain DEF LookSound
<1>3. done' \in [Reviewed -> Nat] /\ \A s \in Reviewed : done'[s] <= Len(code)
  BY <1>1, <1>2 DEF AnalysisInv
<1> QED
  BY <1>1, <1>3, NoRunIsSound, LookStep

LEMMA StartReviewInv ==
    \A r \in Runners, s \in Reviewed : AnalysisInv /\ StartReview(r, s) => AnalysisInv'
<1> SUFFICES ASSUME NEW r \in Runners, NEW s \in Reviewed, AnalysisInv, StartReview(r, s)
             PROVE  AnalysisInv'
  OBVIOUS
<1>1. PICK to : to = [NoRun EXCEPT !.step = "sync", !.svc = s, !.prev = done[s]]
  OBVIOUS
<1>2. /\ work' = [work EXCEPT ![r] = to] /\ code' = code /\ head' = head /\ done' = done
  BY <1>1 DEF StartReview, Goes, Previous
<1>3. /\ DOMAIN to = DOMAIN NoRun /\ to.step = "sync" /\ to.svc = s /\ to.prev = done[s]
      /\ to.sha = NoRun.sha /\ to.diff = NoRun.diff /\ to.calls = NoRun.calls
      /\ to.found = NoRun.found /\ to.how = NoRun.how
  BY <1>1, NoRunIsSound
<1>4. done[s] \in Nat /\ done[s] <= Len(code)
  BY DEF AnalysisInv
<1>5. NoRun.sha = 0 /\ NoRun.diff = FALSE /\ NoRun.calls = 0
  BY DEF NoRun
<1>6. LookSound(to)
  <2>1. to.sha <= Len(code) /\ to.sha \in Nat
    BY <1>3, <1>5, NoRunIsSound DEF LookSound
  <2> QED
    BY <1>3, <1>4, <1>5, <2>1, NoRunIsSound DEF LookSound, LookSteps
<1>7. done' \in [Reviewed -> Nat] /\ \A q \in Reviewed : done'[q] <= Len(code)
  BY <1>2 DEF AnalysisInv
<1> QED
  BY <1>2, <1>3, <1>6, <1>7, LookStep

\* A step of one worker from the work it has.
LEMMA LookGoes ==
    ASSUME AnalysisInv, NEW r \in Runners, NEW to, work' = [work EXCEPT ![r] = to],
           code' = code, head' = head, done' = done, DOMAIN to = DOMAIN NoRun, LookSound(to)
    PROVE  AnalysisInv'
<1>1. done' \in [Reviewed -> Nat] /\ \A q \in Reviewed : done'[q] <= Len(code)
  BY DEF AnalysisInv
<1> QED
  BY <1>1, LookStep

LEMMA SyncInv ==
    \A r \in Runners : AnalysisInv /\ (UseCachedParse(r) \/ StartParse(r)) => AnalysisInv'
<1> SUFFICES ASSUME NEW r \in Runners, AnalysisInv, UseCachedParse(r) \/ StartParse(r)
             PROVE  AnalysisInv'
  OBVIOUS
<1>1. PICK s \in {"compare", "parse"} :
         work' = [work EXCEPT ![r] = [work[r] EXCEPT !.step = s, !.sha = head]]
  BY DEF UseCachedParse, StartParse, Goes
<1>2. /\ work[r].step = "sync" /\ code' = code /\ head' = head /\ done' = done
  BY DEF UseCachedParse, StartParse, Goes, At
<1>3. PICK to : to = [work[r] EXCEPT !.step = s, !.sha = head]
  OBVIOUS
<1>4. /\ DOMAIN to = DOMAIN NoRun /\ to.step = s /\ to.sha = head
      /\ to.svc = work[r].svc /\ to.prev = work[r].prev /\ to.diff = work[r].diff
      /\ to.calls = work[r].calls /\ to.found = work[r].found /\ to.how = work[r].how
  BY <1>3, LookDomain, NoRunIsSound
<1>5. LookSound(to)
  <2>1. ~to.diff
    BY <1>2, <1>4, LookDomain DEF LookSound
  <2>2. head \in Nat /\ head <= Len(code) /\ LookSound(work[r])
    BY LookDomain DEF AnalysisInv
  <2> QED
    BY <1>2, <1>4, <2>1, <2>2 DEF LookSound, LookSteps
<1> QED
  BY <1>1, <1>2, <1>3, <1>4, <1>5, LookGoes

LEMMA ParseInv ==
    \A r \in Runners :
        AnalysisInv /\ (\/ HeadFetchFails(r) \/ ParseCollides(r) \/ TokenRefreshCommits(r)
                        \/ ParseFails(r) \/ FinishParse(r)) => AnalysisInv'
<1> SUFFICES ASSUME NEW r \in Runners, AnalysisInv,
                    \/ HeadFetchFails(r) \/ ParseCollides(r) \/ TokenRefreshCommits(r)
                    \/ ParseFails(r) \/ FinishParse(r)
             PROVE  AnalysisInv'
  OBVIOUS
<1>1. CASE HeadFetchFails(r)
  BY <1>1, ReviewFailsInv DEF HeadFetchFails
<1>2. CASE ParseCollides(r)
  BY <1>2, BreaksInv DEF ParseCollides
<1>3. CASE TokenRefreshCommits(r)
  BY <1>3 DEF TokenRefreshCommits, AnalysisInv, LookSound
<1>4. CASE ParseFails(r)
  BY <1>4, ReviewFailsInv DEF ParseFails
<1>5. CASE FinishParse(r)
  <2>1. CASE work[r].sha \in OldParses(r)
    <3>1. PICK rows : ReviewFails(r, rows)
      BY <1>5, <2>1 DEF FinishParse
    <3> QED
      BY <3>1, ReviewFailsInv
  <2>2. CASE work[r].sha \notin OldParses(r)
    <3>1. PICK old : old = OldParses(r)
      OBVIOUS
    <3>2. PICK to : to = [work[r] EXCEPT !.step = "compare", !.drop = old]
      OBVIOUS
    <3>3. /\ work' = [work EXCEPT ![r] = to] /\ code' = code /\ head' = head /\ done' = done
          /\ work[r].step = "parse"
      BY <1>5, <2>2, <3>1, <3>2 DEF FinishParse, At
    <3>4. /\ DOMAIN to = DOMAIN NoRun /\ to.step = "compare" /\ to.sha = work[r].sha
          /\ to.svc = work[r].svc /\ to.prev = work[r].prev /\ to.diff = work[r].diff
          /\ to.calls = work[r].calls /\ to.found = work[r].found /\ to.how = work[r].how
      BY <3>2, LookDomain, NoRunIsSound
    <3>5. LookSound(to)
      BY <3>3, <3>4, LookDomain DEF LookSound, LookSteps
    <3> QED
      BY <3>3, <3>4, <3>5, LookGoes
  <2> QED
    BY <2>1, <2>2
<1> QED
  BY <1>1, <1>2, <1>3, <1>4, <1>5

LEMMA CompareCommitsInv ==
    \A r \in Runners, answered \in BOOLEAN :
        AnalysisInv /\ CompareCommits(r, answered) => AnalysisInv'
<1> SUFFICES ASSUME NEW r \in Runners, NEW answered \in BOOLEAN, AnalysisInv,
                    CompareCommits(r, answered)
             PROVE  AnalysisInv'
  OBVIOUS
<1>1. PICK b \in BOOLEAN : b = (answered /\ work[r].prev # 0 /\ work[r].sha > work[r].prev)
  OBVIOUS
<1>2. PICK to : to = [work[r] EXCEPT !.step = "analyse", !.diff = b]
  OBVIOUS
<1>3. /\ work' = [work EXCEPT ![r] = to] /\ code' = code /\ head' = head /\ done' = done
      /\ work[r].step = "compare"
  BY <1>1, <1>2 DEF CompareCommits, Goes, At
<1>4. /\ DOMAIN to = DOMAIN NoRun /\ to.step = "analyse" /\ to.sha = work[r].sha
      /\ to.svc = work[r].svc /\ to.prev = work[r].prev /\ to.diff = b
      /\ to.calls = work[r].calls /\ to.found = work[r].found /\ to.how = work[r].how
  BY <1>2, LookDomain, NoRunIsSound
<1>5. LookSound(to)
  BY <1>1, <1>3, <1>4, LookDomain DEF LookSound, LookSteps
<1> QED
  BY <1>3, <1>4, <1>5, LookGoes

LEMMA AnalyseInv ==
    \A r \in Runners, p \in Pipelines, any \in BOOLEAN :
        AnalysisInv /\ Analyse(r, p, any) => AnalysisInv'
<1> SUFFICES ASSUME NEW r \in Runners, NEW p \in Pipelines, NEW any \in BOOLEAN, AnalysisInv,
                    Analyse(r, p, any)
             PROVE  AnalysisInv'
  OBVIOUS
<1>1. PICK f : f = LatestParse(r)
  OBVIOUS
<1>2. PICK s, how :
        /\ \/ s = "save" /\ how = "all"
           \/ s = "save" /\ how = "context" /\ InfraUnchanged(r)
           \/ s \in {"extract", "discover"} /\ how = "agent"
        /\ Goes(r, [work[r] EXCEPT !.step = s, !.how = how, !.facts = f])
  BY <1>1 DEF Analyse
<1>3. PICK to : to = [work[r] EXCEPT !.step = s, !.how = how, !.facts = f]
  OBVIOUS
<1>4. /\ work' = [work EXCEPT ![r] = to] /\ code' = code /\ head' = head /\ done' = done
      /\ work[r].step = "analyse"
  BY <1>2, <1>3 DEF Analyse, Goes, At
<1>5. /\ DOMAIN to = DOMAIN NoRun /\ to.step = s /\ to.sha = work[r].sha
      /\ to.svc = work[r].svc /\ to.prev = work[r].prev /\ to.diff = work[r].diff
      /\ to.calls = work[r].calls /\ to.found = work[r].found /\ to.how = how
  BY <1>3, LookDomain, NoRunIsSound
<1>6. LookSound(to)
  <2>1. LookSound(work[r])
    BY LookDomain
  <2>2. how = "context" => to.prev # 0 /\ to.sha # 0 /\ code[to.sha] = code[to.prev]
    BY <1>2, <1>5, <2>1 DEF InfraUnchanged, LookSound
  <2> QED
    BY <1>2, <1>4, <1>5, <2>1, <2>2 DEF LookSound, LookSteps
<1> QED
  BY <1>4, <1>5, <1>6, LookGoes

LEMMA IdentifyConfigFilesInv ==
    \A r \in Runners, n \in 0..MostFiles : AnalysisInv /\ IdentifyConfigFiles(r, n) => AnalysisInv'
<1> SUFFICES ASSUME NEW r \in Runners, NEW n \in 0..MostFiles, AnalysisInv,
                    IdentifyConfigFiles(r, n)
             PROVE  AnalysisInv'
  OBVIOUS
<1>1. PICK to : to = [work[r] EXCEPT !.left = n, !.calls = 1]
  OBVIOUS
<1>2. /\ work' = [work EXCEPT ![r] = to] /\ code' = code /\ head' = head /\ done' = done
      /\ work[r].step = "extract"
  BY <1>1 DEF IdentifyConfigFiles, Goes, At
<1>3. /\ DOMAIN to = DOMAIN NoRun /\ to.step = work[r].step /\ to.sha = work[r].sha
      /\ to.svc = work[r].svc /\ to.prev = work[r].prev /\ to.diff = work[r].diff
      /\ to.calls = 1 /\ to.found = work[r].found /\ to.how = work[r].how
  BY <1>1, LookDomain, NoRunIsSound
<1>4. LookSound(to)
  BY <1>2, <1>3, LookDomain DEF LookSound, LookSteps
<1> QED
  BY <1>2, <1>3, <1>4, LookGoes

LEMMA ExtractSingleFileInv ==
    \A r \in Runners, calls \in 1..(MostFiles + 1) :
        AnalysisInv /\ ExtractSingleFile(r, calls) => AnalysisInv'
<1> SUFFICES ASSUME NEW r \in Runners, NEW calls \in 1..(MostFiles + 1), AnalysisInv,
                    ExtractSingleFile(r, calls)
             PROVE  AnalysisInv'
  OBVIOUS
<1>0. MostFiles + 1 \in Int
  BY AnalysisAssumption
<1>1. calls \in Nat
  BY <1>0
<1>2. CASE BudgetSpent(calls)
  BY <1>2, ReviewFailsInv DEF ExtractSingleFile
<1>3. CASE ~BudgetSpent(calls) /\ work[r].left > 1
  <2>1. PICK n : n = work[r].left - 1
    OBVIOUS
  <2>2. PICK to : to = [work[r] EXCEPT !.left = n, !.calls = calls]
    OBVIOUS
  <2>3. /\ work' = [work EXCEPT ![r] = to] /\ code' = code /\ head' = head /\ done' = done
    BY <1>3, <2>1, <2>2 DEF ExtractSingleFile, Goes
  <2>4. /\ DOMAIN to = DOMAIN NoRun /\ to.step = work[r].step /\ to.sha = work[r].sha
        /\ to.svc = work[r].svc /\ to.prev = work[r].prev /\ to.diff = work[r].diff
        /\ to.calls = calls /\ to.found = work[r].found /\ to.how = work[r].how
    BY <2>2, LookDomain, NoRunIsSound
  <2>5. LookSound(to)
    BY <1>1, <2>4, LookDomain DEF LookSound, LookSteps, ExtractSingleFile, At
  <2> QED
    BY <2>3, <2>4, <2>5, LookGoes
<1>4. CASE ~BudgetSpent(calls) /\ ~(work[r].left > 1)
  <2>1. PICK seen \in Seen(r) :
           Goes(r, [work[r] EXCEPT !.step = "save", !.left = 0, !.calls = calls, !.found = seen])
    BY <1>4 DEF ExtractSingleFile
  <2>2. PICK to : to = [work[r] EXCEPT !.step = "save", !.left = 0, !.calls = calls, !.found = seen]
    OBVIOUS
  <2>3. /\ work' = [work EXCEPT ![r] = to] /\ code' = code /\ head' = head /\ done' = done
    BY <2>1, <2>2 DEF Goes
  <2>4. /\ DOMAIN to = DOMAIN NoRun /\ to.step = "save" /\ to.sha = work[r].sha
        /\ to.svc = work[r].svc /\ to.prev = work[r].prev /\ to.diff = work[r].diff
        /\ to.calls = calls /\ to.found = seen /\ to.how = work[r].how
    BY <2>2, LookDomain, NoRunIsSound
  <2>5. calls < MostCalls
    BY <1>1, <1>4, AnalysisAssumption DEF BudgetSpent
  <2>6. LookSound(to)
    BY <1>1, <2>4, <2>5, LookDomain DEF LookSound, LookSteps, ExtractSingleFile, At
  <2> QED
    BY <2>3, <2>4, <2>6, LookGoes
<1> QED
  BY <1>2, <1>3, <1>4

LEMMA DiscoverInv == \A r \in Runners : AnalysisInv /\ DiscoverInfrastructure(r) => AnalysisInv'
<1> SUFFICES ASSUME NEW r \in Runners, AnalysisInv, DiscoverInfrastructure(r) PROVE AnalysisInv'
  OBVIOUS
<1>1. PICK seen \in Seen(r) : Goes(r, [work[r] EXCEPT !.step = "save", !.found = seen])
  BY DEF DiscoverInfrastructure
<1>2. PICK to : to = [work[r] EXCEPT !.step = "save", !.found = seen]
  OBVIOUS
<1>3. /\ work' = [work EXCEPT ![r] = to] /\ code' = code /\ head' = head /\ done' = done
      /\ work[r].step = "discover"
  BY <1>1, <1>2 DEF Goes, DiscoverInfrastructure, At
<1>4. /\ DOMAIN to = DOMAIN NoRun /\ to.step = "save" /\ to.sha = work[r].sha
      /\ to.svc = work[r].svc /\ to.prev = work[r].prev /\ to.diff = work[r].diff
      /\ to.calls = work[r].calls /\ to.found = seen /\ to.how = work[r].how
  BY <1>2, LookDomain, NoRunIsSound
<1>5. to.calls < MostCalls
  BY <1>3, <1>4, LookDomain, AnalysisAssumption DEF LookSound
<1>6. LookSound(to)
  BY <1>3, <1>4, <1>5, LookDomain DEF LookSound, LookSteps
<1> QED
  BY <1>3, <1>4, <1>6, LookGoes

LEMMA AnalysisStep == AnalysisInv /\ [AnalysisNext]_analysisVars => AnalysisInv'
<1> SUFFICES ASSUME AnalysisInv, [AnalysisNext]_analysisVars PROVE AnalysisInv'
  OBVIOUS
<1>1. CASE UNCHANGED analysisVars
  BY <1>1 DEF analysisVars, AnalysisInv, LookSound
<1> QED
  BY <1>1, PushInv, ForcePushInv, BreaksInv, StartReviewInv, SyncInv, ParseInv, CompareCommitsInv,
     AnalyseInv, IdentifyConfigFilesInv, ExtractSingleFileInv, DiscoverInv, SaveAnalysisInv
  DEF AnalysisNext

LEMMA AnalysisInvariance == AnalysisSpec => []AnalysisInv
BY AnalysisInitInv, AnalysisStep, PTL DEF AnalysisSpec

LEMMA AnalysisHolds == AnalysisInv => AnalysisIsSound
BY DEF AnalysisInv, LookSound, AnalysisIsSound, FilteredIsUnchanged, ContextWithinBudget

-----------------------------------------------------------------------------
(* The rows that a review leaves, and what it is doing. *)

OneRowPerCommit(rows) ==
    /\ rows \in Seq(ParsedRepository)
    /\ \A i, j \in DOMAIN rows : rows[i].commit = rows[j].commit => i = j

\* Beside what is known of the commits; a review begins when there is a head, and
\* there is one ever after.
AnalysisTyped ==
    /\ AnalysisInv
    /\ Len(code) <= MostCommits
    /\ OneRowPerCommit(parses)
    /\ context \in {"none", "covers", "bare"}
    /\ work \in [Runners -> Run]
    /\ \A r \in Runners : work[r].step \notin {"idle", "stuck"} => head # 0

LEMMA AnalysisIsTyped == AnalysisTyped => AnalysisTypeOK
<1> SUFFICES ASSUME AnalysisTyped PROVE AnalysisTypeOK
  OBVIOUS
<1>1. done \in [Reviewed -> 0..Len(code)]
  BY DEF AnalysisTyped, AnalysisInv
<1>2. head \in 0..Len(code)
  BY DEF AnalysisTyped, AnalysisInv
<1> QED
  BY <1>1, <1>2 DEF AnalysisTyped, AnalysisInv, AnalysisTypeOK, OneRowPerCommit

LEMMA RowsOfRows ==
    ASSUME NEW rows, rows \in Seq(ParsedRepository)
    PROVE  /\ Len(rows) \in Nat /\ DOMAIN rows = 1..Len(rows)
           /\ \A i \in DOMAIN rows :
                 /\ rows[i] \in ParsedRepository /\ rows[i].commit \in Commits
                 /\ rows[i].status \in ParseStatus /\ rows[i].was \in ParseStatus
<1>1. Len(rows) \in Nat /\ DOMAIN rows = 1..Len(rows)
  OBVIOUS
<1>2. \A i \in DOMAIN rows : rows[i] \in ParsedRepository
  OBVIOUS
<1>3. \A p \in ParsedRepository :
         p.commit \in Commits /\ p.status \in ParseStatus /\ p.was \in ParseStatus
  BY DEF ParsedRepository
<1> QED
  BY <1>1, <1>2, <1>3

LEMMA FilteredRows ==
    ASSUME NEW rows, OneRowPerCommit(rows), NEW S
    PROVE  OneRowPerCommit(Filtered(rows, S))
<1>1. PICK K : K = [p \in ParsedRepository |-> p.commit]
  OBVIOUS
<1>2. PICK some : some = Filtered(rows, S)
  OBVIOUS
<1>3. some \in Seq(ParsedRepository) /\ (Apart(rows, K) => Apart(some, K))
  BY <1>2, FilteredKeeps DEF OneRowPerCommit
<1>4. Apart(rows, K)
  BY <1>1, RowsOfRows DEF OneRowPerCommit, Apart
<1>5. \A i \in DOMAIN some : K[some[i]] = some[i].commit
  BY <1>1, <1>3, RowsOfRows
<1>6. \A i, j \in DOMAIN some : some[i].commit = some[j].commit => i = j
  BY <1>3, <1>4, <1>5 DEF Apart
<1> QED
  BY <1>2, <1>3, <1>6 DEF OneRowPerCommit

\* A row for a row, of the same commit.
LEMMA RewrittenRows ==
    ASSUME NEW rows, OneRowPerCommit(rows), NEW new, DOMAIN new = DOMAIN rows,
           new = [i \in DOMAIN new |-> new[i]],
           \A i \in DOMAIN rows : new[i] \in ParsedRepository /\ new[i].commit = rows[i].commit
    PROVE  OneRowPerCommit(new)
<1>1. PICK n \in Nat : n = Len(rows)
  BY RowsOfRows DEF OneRowPerCommit
<1>2. DOMAIN new = 1..n
  BY <1>1, RowsOfRows DEF OneRowPerCommit
<1>3. new \in [1..n -> ParsedRepository]
  BY <1>2
<1>4. new \in Seq(ParsedRepository)
  BY <1>3
<1> QED
  BY <1>4 DEF OneRowPerCommit

LEMMA CommittedRows ==
    ASSUME NEW rows, OneRowPerCommit(rows), NEW r \in Runners
    PROVE  OneRowPerCommit(Committed(r, rows))
<1>1. PICK some : some = Filtered(rows, {p \in ParsedRepository : p.commit \notin work[r].drop})
  OBVIOUS
<1>2. OneRowPerCommit(some)
  BY <1>1, FilteredRows
<1>3. PICK new : new = [i \in DOMAIN some |-> IF some[i].writer = r
          THEN [some[i] EXCEPT !.status = some[i].status, !.was = some[i].status,
                               !.writer = Nobody]
          ELSE some[i]]
  OBVIOUS
<1>4. Committed(r, rows) = new
  BY <1>1, <1>3 DEF Committed, Settled
<1>5. DOMAIN new = DOMAIN some /\ new = [i \in DOMAIN new |-> new[i]]
  BY <1>3
<1>6. ASSUME NEW i \in DOMAIN some
      PROVE  new[i] \in ParsedRepository /\ new[i].commit = some[i].commit
  <2>1. PICK p \in ParsedRepository : p = some[i]
    BY <1>2, RowsOfRows DEF OneRowPerCommit
  <2>2. new[i] = IF p.writer = r
                 THEN [p EXCEPT !.status = p.status, !.was = p.status, !.writer = Nobody]
                 ELSE p
    BY <1>3, <2>1
  <2> QED
    BY <2>1, <2>2 DEF ParsedRepository
<1> QED
  BY <1>2, <1>4, <1>5, <1>6, RewrittenRows

LEMMA RolledBackRows ==
    ASSUME OneRowPerCommit(parses), NEW r \in Runners
    PROVE  OneRowPerCommit(RolledBack(r))
<1>1. PICK some : some = Filtered(parses, {p \in ParsedRepository : p.writer # r \/ p.was # "none"})
  OBVIOUS
<1>2. OneRowPerCommit(some)
  BY <1>1, FilteredRows
<1>3. PICK new : new = [i \in DOMAIN some |-> IF some[i].writer = r
          THEN [some[i] EXCEPT !.status = some[i].was, !.was = some[i].was, !.writer = Nobody]
          ELSE some[i]]
  OBVIOUS
<1>4. RolledBack(r) = new
  BY <1>1, <1>3 DEF RolledBack, Settled
<1>5. DOMAIN new = DOMAIN some /\ new = [i \in DOMAIN new |-> new[i]]
  BY <1>3
<1>6. ASSUME NEW i \in DOMAIN some
      PROVE  new[i] \in ParsedRepository /\ new[i].commit = some[i].commit
  <2>1. PICK p \in ParsedRepository : p = some[i]
    BY <1>2, RowsOfRows DEF OneRowPerCommit
  <2>2. new[i] = IF p.writer = r
                 THEN [p EXCEPT !.status = p.was, !.was = p.was, !.writer = Nobody]
                 ELSE p
    BY <1>3, <2>1
  <2> QED
    BY <2>1, <2>2 DEF ParsedRepository
<1> QED
  BY <1>2, <1>4, <1>5, <1>6, RewrittenRows

LEMMA SetParseRows ==
    ASSUME OneRowPerCommit(parses), NEW r \in Runners, NEW status \in ParseStatus
    PROVE  OneRowPerCommit(SetParse(r, status))
<1>1. PICK new : new = SetParse(r, status)
  OBVIOUS
<1>2. DOMAIN new = DOMAIN parses /\ new = [i \in DOMAIN new |-> new[i]]
  BY <1>1 DEF SetParse
<1>3. ASSUME NEW i \in DOMAIN parses
      PROVE  new[i] \in ParsedRepository /\ new[i].commit = parses[i].commit
  <2>1. PICK p \in ParsedRepository : p = parses[i]
    BY RowsOfRows DEF OneRowPerCommit
  <2>2. new[i] = IF p.commit = work[r].sha
                 THEN [p EXCEPT !.status = status, !.writer = r] ELSE p
    BY <1>1, <2>1 DEF SetParse
  <2> QED
    BY <2>1, <2>2 DEF ParsedRepository
<1> QED
  BY <1>1, <1>2, <1>3, RewrittenRows

LEMMA ViewRows ==
    ASSUME OneRowPerCommit(parses), NEW r \in Runners
    PROVE  /\ OldParses(r) \subseteq Commits
           /\ LatestParse(r) \in {0} \union Commits
<1>1. PICK view : view = View(r)
  OBVIOUS
<1>2. OneRowPerCommit(view)
  BY <1>1, FilteredRows DEF View
<1>3. PICK some : some = CompletedView(r)
  OBVIOUS
<1>4. OneRowPerCommit(some)
  BY <1>1, <1>2, <1>3, FilteredRows DEF CompletedView
<1>5. ASSUME NEW i \in 1..(Len(view) - KeepCount) PROVE view[i].commit \in Commits
  <2>1. i \in 1..Len(view)
    BY <1>2, RowsOfRows, AnalysisAssumption DEF OneRowPerCommit
  <2> QED
    BY <1>2, <2>1, RowsOfRows DEF OneRowPerCommit
<1>6. some # <<>> => Last(some).commit \in Commits
  <2> SUFFICES ASSUME some # <<>> PROVE some[Len(some)].commit \in Commits
    BY DEF Last
  <2>1. Len(some) \in 1..Len(some)
    BY <1>4 DEF OneRowPerCommit
  <2> QED
    BY <1>4, <2>1, RowsOfRows DEF OneRowPerCommit
<1> QED
  BY <1>1, <1>3, <1>5, <1>6 DEF OldParses, LatestParse

LEMMA AnalysisTypes ==
    ASSUME AnalysisTyped
    PROVE  /\ AnalysisInv /\ OneRowPerCommit(parses) /\ Len(code) \in Nat /\ MostCommits \in Nat
           /\ Len(code) <= MostCommits /\ head \in Nat /\ head <= Len(code)
           /\ \A r \in Runners :
                 /\ work[r] \in Run /\ LookSound(work[r])
                 /\ work[r].step \notin {"idle", "stuck"} => head # 0
BY AnalysisAssumption DEF AnalysisTyped, AnalysisInv

LEMMA NoRunTyped == NoRun \in Run /\ NoRun.step = "idle" /\ NoRun.found = "none"
BY AnalysisAssumption DEF NoRun, Run

\* A worker's step, that leaves the branch alone.
LEMMA TypedStep ==
    ASSUME AnalysisTyped, AnalysisInv', NEW r \in Runners, NEW to \in Run,
           to.step \notin {"idle", "stuck"} => head # 0,
           work' = [work EXCEPT ![r] = to], code' = code, head' = head,
           OneRowPerCommit(parses'), context' \in {"none", "covers", "bare"}
    PROVE  AnalysisTyped'
<1>1. work' \in [Runners -> Run]
  BY DEF AnalysisTyped
<1>2. ASSUME NEW q \in Runners PROVE work'[q].step \notin {"idle", "stuck"} => head # 0
  <2>1. work'[q] = to \/ work'[q] = work[q]
    BY DEF AnalysisTyped
  <2> QED
    BY <2>1 DEF AnalysisTyped
<1> QED
  BY <1>1, <1>2 DEF AnalysisTyped, OneRowPerCommit

LEMMA EndReviewTyped ==
    ASSUME AnalysisTyped, AnalysisInv', NEW r \in Runners, NEW rows, OneRowPerCommit(rows),
           NEW analyzed, EndReview(r, rows, analyzed)
    PROVE  AnalysisTyped'
<1>1. OneRowPerCommit(parses')
  BY CommittedRows DEF EndReview
<1>2. work[r].found \in {"none", "covers", "bare"}
  BY AnalysisTypes DEF Run
<1>3. context' \in {"none", "covers", "bare"}
  BY <1>2 DEF EndReview, AnalysisTyped
<1> QED
  BY <1>1, <1>3, NoRunTyped, TypedStep DEF EndReview

LEMMA RollBackTyped ==
    ASSUME AnalysisTyped, AnalysisInv', NEW r \in Runners,
           LeaveReview(r) \/ RunnerDies(r) \/ BreakReview(r)
    PROVE  AnalysisTyped'
<1>1. PICK to : to = [NoRun EXCEPT !.step = "stuck", !.svc = work[r].svc]
  OBVIOUS
<1>2. to \in Run /\ to.step = "stuck"
  <2>1. work[r].svc \in Reviewed \union {Nobody}
    BY AnalysisTypes DEF Run
  <2> QED
    BY <1>1, <2>1, NoRunTyped DEF Run
<1>3. OneRowPerCommit(parses) /\ OneRowPerCommit(RolledBack(r))
  BY AnalysisTypes, RolledBackRows
<1>4. /\ parses' \in {parses, RolledBack(r)} /\ code' = code /\ head' = head /\ context' = context
      /\ work' = [work EXCEPT ![r] = NoRun] \/ work' = [work EXCEPT ![r] = to]
  BY <1>1 DEF LeaveReview, RunnerDies, BreakReview, Goes
<1>5. context' \in {"none", "covers", "bare"} /\ OneRowPerCommit(parses')
  BY <1>3, <1>4 DEF AnalysisTyped
<1> QED
  BY <1>2, <1>4, <1>5, NoRunTyped, TypedStep

\* A step that writes nothing, of a worker that goes on.
LEMMA GoesTyped ==
    ASSUME AnalysisTyped, AnalysisInv', NEW r \in Runners, NEW to \in Run,
           Goes(r, to), head # 0
    PROVE  AnalysisTyped'
<1>1. OneRowPerCommit(parses') /\ context' \in {"none", "covers", "bare"}
  BY DEF Goes, AnalysisTyped
<1> QED
  BY <1>1, TypedStep DEF Goes

LEMMA BranchTyped ==
    ASSUME AnalysisTyped, AnalysisInv',
           (\E infra \in BOOLEAN : Push(infra)) \/ (\E c \in Commits : ForcePush(c))
    PROVE  AnalysisTyped'
<1>1. PICK n \in Nat : n = Len(code)
  BY AnalysisTypes
<1>2. UNCHANGED <<parses, context, work>>
  BY DEF Push, ForcePush
<1>3. Len(code') <= MostCommits /\ head' # 0
  <2>1. CASE \E infra \in BOOLEAN : Push(infra)
    <3>1. PICK infra \in BOOLEAN : Push(infra)
      BY <2>1
    <3>2. code' = Append(code, infra) /\ head' = n + 1 /\ n < MostCommits
      BY <1>1, <3>1 DEF Push
    <3>3. Len(code') = n + 1
      BY <1>1, <3>2 DEF AnalysisTyped, AnalysisInv
    <3> QED
      BY <3>2, <3>3, AnalysisTypes
  <2>2. CASE \E c \in Commits : ForcePush(c)
    BY <2>2, AnalysisTypes DEF ForcePush, Commits
  <2> QED
    BY <2>1, <2>2
<1> QED
  BY <1>2, <1>3 DEF AnalysisTyped, OneRowPerCommit

\* A head is a commit.
LEMMA HeadIsCommit ==
    ASSUME AnalysisTyped, head # 0
    PROVE  head \in Commits
BY AnalysisTypes DEF Commits

LEMMA SyncTyped ==
    ASSUME AnalysisTyped, AnalysisInv', NEW r \in Runners,
           (\E s \in Reviewed : StartReview(r, s)) \/ UseCachedParse(r) \/ StartParse(r)
    PROVE  AnalysisTyped'
<1>1. CASE \E s \in Reviewed : StartReview(r, s)
  <2>1. PICK s \in Reviewed : StartReview(r, s)
    BY <1>1
  <2>2. PICK to : to = [NoRun EXCEPT !.step = "sync", !.svc = s, !.prev = done[s]]
    OBVIOUS
  <2>3. done[s] \in Nat /\ done[s] <= Len(code)
    BY AnalysisTypes DEF AnalysisInv
  <2>4. done[s] \in {0} \union Commits
    BY <2>3, AnalysisTypes DEF Commits
  <2>5. to \in Run
    BY <2>2, <2>4, NoRunTyped DEF Run
  <2>6. Goes(r, to) /\ head # 0
    BY <2>1, <2>2 DEF StartReview, Previous
  <2> QED
    BY <2>5, <2>6, GoesTyped
<1>2. CASE UseCachedParse(r)
  <2>1. PICK to : to = [work[r] EXCEPT !.step = "compare", !.sha = head]
    OBVIOUS
  <2>2. head # 0
    BY <1>2, AnalysisTypes DEF UseCachedParse, At
  <2>3. to \in Run
    BY <2>1, <2>2, HeadIsCommit, AnalysisTypes DEF Run
  <2> QED
    BY <1>2, <2>1, <2>2, <2>3, GoesTyped DEF UseCachedParse
<1>3. CASE StartParse(r)
  <2>1. PICK to : to = [work[r] EXCEPT !.step = "parse", !.sha = head]
    OBVIOUS
  <2>2. head # 0
    BY <1>3, AnalysisTypes DEF StartParse, At
  <2>3. to \in Run
    BY <2>1, <2>2, HeadIsCommit, AnalysisTypes DEF Run
  <2>4. PICK p : p = [commit |-> head, status |-> "IN_PROGRESS", was |-> "none", writer |-> r]
    OBVIOUS
  <2>5. p \in ParsedRepository /\ p.commit = head
    BY <2>2, <2>4, HeadIsCommit DEF ParsedRepository, ParseStatus
  <2>6. /\ work' = [work EXCEPT ![r] = to] /\ code' = code /\ head' = head /\ context' = context
        /\ parses' = Append(parses, p) /\ \A q \in Range(parses) : q.commit # head
    BY <1>3, <2>1, <2>4 DEF StartParse
  <2>7. OneRowPerCommit(parses')
    <3>1. PICK rows \in Seq(ParsedRepository) : rows = parses /\ OneRowPerCommit(rows)
      BY AnalysisTypes DEF OneRowPerCommit
    <3>2. PICK n \in Nat : n = Len(rows) /\ DOMAIN rows = 1..n
      BY <3>1
    <3>3. PICK new : new = Append(rows, p)
      OBVIOUS
    <3>4. /\ new \in Seq(ParsedRepository) /\ DOMAIN new = 1..(n + 1) /\ new[n + 1] = p
          /\ \A i \in 1..n : new[i] = rows[i] /\ rows[i].commit # head
      BY <2>5, <2>6, <3>1, <3>2, <3>3 DEF Range
    <3>5. \A i \in 1..(n + 1) : i \in 1..n \/ i = n + 1
      BY <3>2
    <3>6. \A i, j \in 1..n : new[i].commit = new[j].commit => i = j
      BY <3>1, <3>2, <3>4 DEF OneRowPerCommit
    <3>7. \A i \in 1..n : new[i].commit # new[n + 1].commit
      BY <2>5, <3>4
    <3> QED
      BY <2>6, <3>1, <3>3, <3>4, <3>5, <3>6, <3>7 DEF OneRowPerCommit
  <2>8. context' \in {"none", "covers", "bare"}
    BY <2>6 DEF AnalysisTyped
  <2> QED
    BY <2>2, <2>3, <2>6, <2>7, <2>8, TypedStep
<1> QED
  BY <1>1, <1>2, <1>3

LEMMA ParseTyped ==
    ASSUME AnalysisTyped, AnalysisInv', NEW r \in Runners,
           \/ HeadFetchFails(r) \/ ParseCollides(r) \/ TokenRefreshCommits(r)
           \/ ParseFails(r) \/ FinishParse(r)
    PROVE  AnalysisTyped'
<1>1. OneRowPerCommit(parses)
  BY AnalysisTypes
<1>2. CASE HeadFetchFails(r)
  BY <1>1, <1>2, EndReviewTyped DEF HeadFetchFails, ReviewFails
<1>3. CASE ParseCollides(r)
  BY <1>3, RollBackTyped DEF ParseCollides
<1>4. CASE TokenRefreshCommits(r)
  <2>1. OneRowPerCommit(parses')
    BY <1>1, <1>4, CommittedRows DEF TokenRefreshCommits
  <2>2. UNCHANGED <<code, head, context, work>>
    BY <1>4 DEF TokenRefreshCommits
  <2> QED
    BY <2>1, <2>2 DEF AnalysisTyped, OneRowPerCommit
<1>5. CASE ParseFails(r)
  <2>1. OneRowPerCommit(SetParse(r, "FAILED"))
    BY <1>1, SetParseRows DEF ParseStatus
  <2> QED
    BY <1>5, <2>1, EndReviewTyped DEF ParseFails, ReviewFails
<1>6. CASE FinishParse(r)
  <2>1. OneRowPerCommit(SetParse(r, "COMPLETED"))
    BY <1>1, SetParseRows DEF ParseStatus
  <2>2. CASE work[r].sha \in OldParses(r)
    <3>1. PICK rows : rows = Filtered(SetParse(r, "COMPLETED"),
                                      {p \in ParsedRepository : p.commit \notin OldParses(r)})
      OBVIOUS
    <3>2. OneRowPerCommit(rows)
      BY <2>1, <3>1, FilteredRows
    <3>3. ReviewFails(r, rows)
      BY <1>6, <2>2, <3>1 DEF FinishParse
    <3> QED
      BY <3>2, <3>3, EndReviewTyped DEF ReviewFails
  <2>3. CASE work[r].sha \notin OldParses(r)
    <3>1. PICK old : old = OldParses(r)
      OBVIOUS
    <3>2. PICK to : to = [work[r] EXCEPT !.step = "compare", !.drop = old]
      OBVIOUS
    <3>3. to \in Run
      BY <1>1, <3>1, <3>2, ViewRows, AnalysisTypes DEF Run
    <3>4. /\ work' = [work EXCEPT ![r].step = "compare", ![r].drop = old]
          /\ parses' = SetParse(r, "COMPLETED") /\ UNCHANGED <<code, head, context>>
          /\ head # 0
      BY <1>6, <2>3, <3>1, AnalysisTypes DEF FinishParse, At
    <3>5. work' = [work EXCEPT ![r] = to]
      BY <3>2, <3>4
    <3>6. context' \in {"none", "covers", "bare"} /\ OneRowPerCommit(parses')
      BY <2>1, <3>4 DEF AnalysisTyped
    <3> QED
      BY <3>3, <3>4, <3>5, <3>6, TypedStep
  <2> QED
    BY <2>2, <2>3
<1> QED
  BY <1>2, <1>3, <1>4, <1>5, <1>6

LEMMA LookTyped ==
    ASSUME AnalysisTyped, AnalysisInv', NEW r \in Runners,
           \/ \E answered \in BOOLEAN : CompareCommits(r, answered)
           \/ \E p \in Pipelines, any \in BOOLEAN : Analyse(r, p, any)
           \/ \E n \in 0..MostFiles : IdentifyConfigFiles(r, n)
           \/ \E calls \in 1..(MostFiles + 1) : ExtractSingleFile(r, calls)
           \/ DiscoverInfrastructure(r) \/ SaveAnalysis(r)
    PROVE  AnalysisTyped'
<1>1. OneRowPerCommit(parses) /\ work[r] \in Run
  BY AnalysisTypes
<1>2. head # 0
  BY AnalysisTypes DEF CompareCommits, Analyse, IdentifyConfigFiles, ExtractSingleFile,
                       DiscoverInfrastructure, SaveAnalysis, At
<1>3. CASE \E answered \in BOOLEAN : CompareCommits(r, answered)
  <2>1. PICK b \in BOOLEAN : Goes(r, [work[r] EXCEPT !.step = "analyse", !.diff = b])
    BY <1>3 DEF CompareCommits
  <2>2. [work[r] EXCEPT !.step = "analyse", !.diff = b] \in Run
    BY <1>1 DEF Run
  <2> QED
    BY <1>2, <2>1, <2>2, GoesTyped
<1>4. CASE \E p \in Pipelines, any \in BOOLEAN : Analyse(r, p, any)
  <2>1. PICK f : f = LatestParse(r)
    OBVIOUS
  <2>2. PICK s \in {"save", "extract", "discover"}, how \in {"all", "context", "agent"} :
           Goes(r, [work[r] EXCEPT !.step = s, !.how = how, !.facts = f])
    BY <1>4, <2>1 DEF Analyse
  <2>3. f \in {0} \union Commits
    BY <1>1, <2>1, ViewRows
  <2>4. [work[r] EXCEPT !.step = s, !.how = how, !.facts = f] \in Run
    BY <1>1, <2>3 DEF Run
  <2> QED
    BY <1>2, <2>2, <2>4, GoesTyped
<1>5. CASE \E n \in 0..MostFiles : IdentifyConfigFiles(r, n)
  <2>1. PICK n \in 0..MostFiles : Goes(r, [work[r] EXCEPT !.left = n, !.calls = 1])
    BY <1>5 DEF IdentifyConfigFiles
  <2>2. [work[r] EXCEPT !.left = n, !.calls = 1] \in Run
    <3>1. 1 \in 0..(MostFiles + 1)
      BY AnalysisAssumption
    <3> QED
      BY <1>1, <3>1 DEF Run
  <2> QED
    BY <1>2, <2>1, <2>2, GoesTyped
<1>6. ASSUME NEW seen, Seen(r) # {}, seen \in Seen(r) PROVE seen \in {"covers", "bare"}
  BY <1>6 DEF Seen
<1>7. CASE \E calls \in 1..(MostFiles + 1) : ExtractSingleFile(r, calls)
  <2>1. PICK calls \in 1..(MostFiles + 1) : ExtractSingleFile(r, calls)
    BY <1>7
  <2>2. calls \in 0..(MostFiles + 1) /\ MostFiles \in Nat
    BY AnalysisAssumption
  <2>3. CASE BudgetSpent(calls)
    BY <1>1, <2>1, <2>3, EndReviewTyped DEF ExtractSingleFile, ReviewFails
  <2>4. CASE ~BudgetSpent(calls) /\ work[r].left > 1
    <3>1. PICK n : n = work[r].left - 1
      OBVIOUS
    <3>2. work[r].left \in 0..MostFiles
      BY <1>1 DEF Run
    <3>3. n \in 0..MostFiles
      BY <2>2, <2>4, <3>1, <3>2
    <3>4. Goes(r, [work[r] EXCEPT !.left = n, !.calls = calls])
      BY <2>1, <2>4, <3>1 DEF ExtractSingleFile
    <3>5. [work[r] EXCEPT !.left = n, !.calls = calls] \in Run
      BY <1>1, <2>2, <3>3 DEF Run
    <3> QED
      BY <1>2, <3>4, <3>5, GoesTyped
  <2>5. CASE ~BudgetSpent(calls) /\ ~(work[r].left > 1)
    <3>1. PICK seen \in Seen(r) :
             Goes(r, [work[r] EXCEPT !.step = "save", !.left = 0, !.calls = calls, !.found = seen])
      BY <2>1, <2>5 DEF ExtractSingleFile
    <3>2. seen \in {"covers", "bare"} /\ 0 \in 0..MostFiles
      BY <1>6, <2>2
    <3>3. [work[r] EXCEPT !.step = "save", !.left = 0, !.calls = calls, !.found = seen] \in Run
      BY <1>1, <2>2, <3>2 DEF Run
    <3> QED
      BY <1>2, <3>1, <3>3, GoesTyped
  <2> QED
    BY <2>3, <2>4, <2>5
<1>8. CASE DiscoverInfrastructure(r)
  <2>1. PICK seen \in Seen(r) : Goes(r, [work[r] EXCEPT !.step = "save", !.found = seen])
    BY <1>8 DEF DiscoverInfrastructure
  <2>2. [work[r] EXCEPT !.step = "save", !.found = seen] \in Run
    BY <1>1, <1>6 DEF Run
  <2> QED
    BY <1>2, <2>1, <2>2, GoesTyped
<1>9. CASE SaveAnalysis(r)
  BY <1>1, <1>9, EndReviewTyped DEF SaveAnalysis
<1> QED
  BY <1>3, <1>4, <1>5, <1>7, <1>8, <1>9

LEMMA AnalysisTypedStep ==
    ASSUME AnalysisTyped, [AnalysisNext]_analysisVars
    PROVE  AnalysisTyped'
<1>1. AnalysisInv'
  BY AnalysisStep DEF AnalysisTyped
<1>2. CASE UNCHANGED analysisVars
  BY <1>1, <1>2 DEF analysisVars, AnalysisTyped, OneRowPerCommit
<1> QED
  BY <1>1, <1>2, BranchTyped, RollBackTyped, SyncTyped, ParseTyped, LookTyped DEF AnalysisNext

LEMMA AnalysisTypedInit == AnalysisInit => AnalysisTyped
<1> SUFFICES ASSUME AnalysisInit PROVE AnalysisTyped
  OBVIOUS
<1>1. Len(code) <= MostCommits /\ OneRowPerCommit(parses)
  BY AnalysisAssumption DEF AnalysisInit, OneRowPerCommit
<1>2. work \in [Runners -> Run] /\ \A r \in Runners : work[r].step = "idle"
  BY NoRunTyped DEF AnalysisInit
<1> QED
  BY <1>1, <1>2, AnalysisInitInv DEF AnalysisInit, AnalysisTyped

LEMMA AnalysisTypedInvariance == AnalysisSpec => []AnalysisTyped
BY AnalysisTypedInit, AnalysisTypedStep, PTL DEF AnalysisSpec

-----------------------------------------------------------------------------
(* The reviews that users ask for. *)

Order == [step : {"idle", "check", "send"}, bulk : BOOLEAN, period : AllPeriods \union {NoPeriod},
          seen : SUBSET Subjects, todo : SUBSET Subjects, new : SUBSET Subjects,
          skipped : SUBSET Ids, send : SUBSET Ids]

RequestsTyped ==
    /\ subjects \subseteq Subjects /\ reviews \subseteq ServiceReview
    /\ created \in Nat /\ created <= MostReviews
    /\ enqueued \subseteq Ids /\ unpublished \subseteq Ids
    /\ order \in [Clerks -> Order]

\* A number is given to one review.
Numbers ==
    /\ \A r \in reviews : r.id <= created
    /\ \A r, q \in reviews : r.id = q.id => r = q

\* The unique index.
OneOfAWeek ==
    \A r, q \in reviews :
        r.of = q.of /\ r.period.start = q.period.start /\ r.period.start # Rolling => r = q

\* What a request has promised before it is done.
Promises(o) ==
    /\ o.step # "idle" => o.period \in AllPeriods
    /\ o.step = "idle" => ~o.bulk /\ o.send = {}
    /\ o.step = "check" => o.send = {}
    /\ IsFiniteSet(o.new)
    /\ o.bulk => \A s \in o.seen \intersect subjects :
                    \/ s \in o.todo \union o.new
                    \/ \E r \in reviews : r.of = s /\ r.period = o.period

RequestsInv ==
    RequestsTyped /\ Numbers /\ OneOfAWeek /\ QueuedIsSent /\ \A c \in Clerks : Promises(order[c])

LEMMA NoOrderIsSound ==
    /\ NoOrder \in Order /\ NoOrder.step = "idle" /\ NoOrder.bulk = FALSE /\ NoOrder.send = {}
    /\ NoOrder.new = {} /\ NoOrder.seen = {} /\ NoOrder.todo = {} /\ NoOrder.period = NoPeriod
    /\ NoOrder.skipped = {} /\ Promises(NoOrder)
BY FS_EmptySet DEF NoOrder, Order, Promises

LEMMA RequestsInitInv == RequestsInit => RequestsInv
<1> SUFFICES ASSUME RequestsInit PROVE RequestsInv
  OBVIOUS
<1>1. order \in [Clerks -> Order] /\ \A c \in Clerks : order[c] = NoOrder
  BY NoOrderIsSound DEF RequestsInit
<1>2. RequestsTyped
  BY <1>1, RequestsAssumption DEF RequestsInit, RequestsTyped
<1>3. Numbers /\ OneOfAWeek /\ QueuedIsSent
  BY DEF RequestsInit, Numbers, OneOfAWeek, QueuedIsSent
<1> QED
  BY <1>1, <1>2, <1>3, NoOrderIsSound DEF RequestsInv

\* A step of one request that writes no reviews: what it had to send it still has,
\* or it was sent or given up.
LEMMA OrderStep ==
    ASSUME RequestsInv, NEW c \in Clerks, NEW to \in Order, Promises(to),
           order' = [order EXCEPT ![c] = to],
           subjects' = subjects, reviews' = reviews, created' = created,
           enqueued \subseteq enqueued', enqueued' \subseteq Ids,
           unpublished \subseteq unpublished', unpublished' \subseteq Ids,
           order[c].send \subseteq to.send \union enqueued' \union unpublished'
    PROVE  RequestsInv'
<1>1. /\ order' \in [Clerks -> Order] /\ order'[c] = to
      /\ \A d \in Clerks : d # c => order'[d] = order[d]
  BY DEF RequestsInv, RequestsTyped
<1>2. RequestsTyped' /\ Numbers' /\ OneOfAWeek'
  BY <1>1 DEF RequestsInv, RequestsTyped, Numbers, OneOfAWeek
<1>3. QueuedIsSent'
  <2> SUFFICES ASSUME NEW r \in reviews, r.status = "QUEUED"
               PROVE  r.id \in enqueued' \union unpublished' \union UNION {order'[d].send : d \in Clerks}
    BY DEF QueuedIsSent
  <2>1. r.id \in enqueued \union unpublished \union UNION {order[d].send : d \in Clerks}
    BY DEF RequestsInv, QueuedIsSent
  <2>2. CASE r.id \in enqueued \union unpublished
    BY <2>2
  <2>3. ASSUME NEW d \in Clerks, r.id \in order[d].send
        PROVE  r.id \in enqueued' \union unpublished' \union UNION {order'[e].send : e \in Clerks}
    BY <2>3, <1>1
  <2> QED
    BY <2>1, <2>2, <2>3
<1>4. \A d \in Clerks : Promises(order[d])'
  <2>1. \A d \in Clerks : Promises(order'[d])
    BY <1>1 DEF RequestsInv
  <2> QED
    BY <2>1 DEF Promises
<1> QED
  BY <1>2, <1>3, <1>4 DEF RequestsInv

LEMMA AskedInv ==
    \A c \in Clerks, p \in AllPeriods, s \in Subjects :
        RequestsInv /\ (CreateBulkReviews(c, p) \/ RequestReview(c, s, p)) => RequestsInv'
<1> SUFFICES ASSUME NEW c \in Clerks, NEW p \in AllPeriods, NEW s \in Subjects, RequestsInv,
                    CreateBulkReviews(c, p) \/ RequestReview(c, s, p)
             PROVE  RequestsInv'
  OBVIOUS
<1>1. /\ order[c].step = "idle" /\ subjects' = subjects /\ reviews' = reviews /\ created' = created
      /\ enqueued' = enqueued /\ unpublished' = unpublished
  BY DEF CreateBulkReviews, RequestReview
<1>2. order[c].send = {} /\ subjects \subseteq Subjects
  BY <1>1 DEF RequestsInv, Promises, RequestsTyped
<1>3. enqueued \subseteq Ids /\ unpublished \subseteq Ids
  BY DEF RequestsInv, RequestsTyped
<1>4. CASE CreateBulkReviews(c, p)
  <2>1. PICK to : to = [NoOrder EXCEPT !.step = "check", !.bulk = TRUE, !.period = p,
                                        !.seen = subjects, !.todo = subjects]
    OBVIOUS
  <2>2. order' = [order EXCEPT ![c] = to]
    BY <1>4, <2>1 DEF CreateBulkReviews, Does
  <2>3. /\ to.step = "check" /\ to.bulk = TRUE /\ to.period = p /\ to.seen = subjects
        /\ to.todo = subjects /\ to.new = {} /\ to.send = {} /\ to.skipped = {} /\ to \in Order
    BY <2>1, <1>2, NoOrderIsSound DEF Order
  <2>4. Promises(to)
    BY <2>3, FS_EmptySet DEF Promises
  <2> QED
    BY <1>1, <1>2, <1>3, <2>2, <2>3, <2>4, OrderStep
<1>5. CASE RequestReview(c, s, p)
  <2>1. PICK to : to = [NoOrder EXCEPT !.step = "check", !.period = p, !.todo = {s}]
    OBVIOUS
  <2>2. order' = [order EXCEPT ![c] = to]
    BY <1>5, <2>1 DEF RequestReview, Does
  <2>3. /\ to.step = "check" /\ to.bulk = FALSE /\ to.period = p /\ to.seen = {}
        /\ to.todo = {s} /\ to.new = {} /\ to.send = {} /\ to.skipped = {} /\ to \in Order
    BY <2>1, <1>2, NoOrderIsSound DEF Order
  <2>4. Promises(to)
    BY <2>3, FS_EmptySet DEF Promises
  <2> QED
    BY <1>1, <1>2, <1>3, <2>2, <2>3, <2>4, OrderStep
<1> QED
  BY <1>4, <1>5

LEMMA CheckServiceInv ==
    \A c \in Clerks, s \in Subjects : RequestsInv /\ CheckService(c, s) => RequestsInv'
<1> SUFFICES ASSUME NEW c \in Clerks, NEW s \in Subjects, RequestsInv, CheckService(c, s)
             PROVE  RequestsInv'
  OBVIOUS
<1>1. /\ order[c].step = "check" /\ s \in order[c].todo
      /\ subjects' = subjects /\ reviews' = reviews /\ created' = created
      /\ enqueued' = enqueued /\ unpublished' = unpublished
  BY DEF CheckService
<1>2. PICK o \in Order : o = order[c]
  BY DEF RequestsInv, RequestsTyped
<1>3. Promises(o) /\ o.send = {} /\ o.step = "check" /\ s \in o.todo
  BY <1>1, <1>2 DEF RequestsInv, Promises
<1>4. enqueued \subseteq Ids /\ unpublished \subseteq Ids /\ reviews \subseteq ServiceReview
  BY DEF RequestsInv, RequestsTyped
<1>5. PICK found : found = IF o.bulk THEN CheckInProgress(s, o.period)
                           ELSE {r \in SameWeek(s, o.period) : r.status # "FAILED"}
  OBVIOUS
<1>6. CASE found = {}
  <2>1. PICK to : to = [o EXCEPT !.todo = @ \ {s}, !.new = @ \union {s}]
    OBVIOUS
  <2>2. order' = [order EXCEPT ![c] = to]
    BY <1>2, <1>5, <1>6, <2>1 DEF CheckService, Does
  <2>3. /\ to.step = "check" /\ to.bulk = o.bulk /\ to.period = o.period /\ to.seen = o.seen
        /\ to.todo = o.todo \ {s} /\ to.new = o.new \union {s} /\ to.send = {} /\ to \in Order
    BY <2>1, <1>3 DEF Order
  <2>4. IsFiniteSet(o.new \union {s})
    BY <1>3, FS_AddElement DEF Promises
  <2>5. Promises(to)
    BY <2>3, <2>4, <1>3 DEF Promises
  <2> QED
    BY <1>1, <1>2, <1>3, <1>4, <2>2, <2>3, <2>5, OrderStep
<1>7. CASE found # {} /\ o.bulk
  <2>1. PICK ids : ids = {r.id : r \in found}
    OBVIOUS
  <2>2. PICK to : to = [o EXCEPT !.todo = @ \ {s}, !.skipped = @ \union ids]
    OBVIOUS
  <2>3. order' = [order EXCEPT ![c] = to]
    BY <1>2, <1>5, <1>7, <2>1, <2>2 DEF CheckService, Does
  <2>4. found \subseteq reviews /\ \A r \in found : r.of = s /\ r.period = o.period
    BY <1>5, <1>7 DEF CheckInProgress, SameWeek
  <2>5. ids \subseteq Ids
    BY <1>4, <2>1, <2>4 DEF ServiceReview
  <2>6. /\ to.step = "check" /\ to.bulk = o.bulk /\ to.period = o.period /\ to.seen = o.seen
        /\ to.todo = o.todo \ {s} /\ to.new = o.new /\ to.send = {} /\ to \in Order
    BY <2>2, <2>5, <1>3 DEF Order
  <2>7. \E r \in reviews : r.of = s /\ r.period = o.period
    BY <1>7, <2>4
  <2>8. Promises(to)
    BY <2>6, <2>7, <1>3 DEF Promises
  <2> QED
    BY <1>1, <1>2, <1>3, <1>4, <2>3, <2>6, <2>8, OrderStep
<1>8. CASE found # {} /\ ~o.bulk
  <2>1. order' = [order EXCEPT ![c] = NoOrder]
    BY <1>2, <1>5, <1>8 DEF CheckService, Does
  <2> QED
    BY <1>1, <1>2, <1>3, <1>4, <2>1, NoOrderIsSound, OrderStep
<1> QED
  BY <1>6, <1>7, <1>8

LEMMA GivenUpInv ==
    \A c \in Clerks : RequestsInv /\ (CommitRefused(c) \/ RequestDies(c)) => RequestsInv'
<1> SUFFICES ASSUME NEW c \in Clerks, RequestsInv, CommitRefused(c) \/ RequestDies(c)
             PROVE  RequestsInv'
  OBVIOUS
<1>1. /\ order' = [order EXCEPT ![c] = NoOrder]
      /\ subjects' = subjects /\ reviews' = reviews /\ created' = created /\ enqueued' = enqueued
  BY DEF CommitRefused, RequestDies, Does
<1>2. enqueued \subseteq Ids /\ unpublished \subseteq Ids /\ order[c] \in Order
  BY DEF RequestsInv, RequestsTyped
<1>3. order[c].send \subseteq Ids
  BY <1>2 DEF Order
<1>4. /\ unpublished \subseteq unpublished' /\ unpublished' \subseteq Ids
      /\ order[c].send \subseteq unpublished'
  <2>1. CASE CommitRefused(c)
    BY <2>1, <1>2 DEF CommitRefused, RequestsInv, Promises
  <2>2. CASE RequestDies(c)
    BY <2>2, <1>2, <1>3 DEF RequestDies
  <2> QED
    BY <2>1, <2>2
<1> QED
  BY <1>1, <1>2, <1>4, NoOrderIsSound, OrderStep

LEMMA PublishInv ==
    \A c \in Clerks, id \in Ids :
        RequestsInv /\ (PublishReview(c, id) \/ PublishFails(c, id)) => RequestsInv'
<1> SUFFICES ASSUME NEW c \in Clerks, NEW id \in Ids, RequestsInv,
                    PublishReview(c, id) \/ PublishFails(c, id)
             PROVE  RequestsInv'
  OBVIOUS
<1>1. /\ order[c].step = "send" /\ id \in order[c].send
      /\ order' = [order EXCEPT ![c] = AfterSend(order[c], id)]
      /\ subjects' = subjects /\ reviews' = reviews /\ created' = created
      /\ \/ enqueued' = enqueued \union {id} /\ unpublished' = unpublished
         \/ enqueued' = enqueued /\ unpublished' = unpublished \union {id}
  BY DEF PublishReview, PublishFails, Does
<1>2. PICK o \in Order : o = order[c]
  BY DEF RequestsInv, RequestsTyped
<1>3. /\ enqueued \subseteq enqueued' /\ enqueued' \subseteq Ids
      /\ unpublished \subseteq unpublished' /\ unpublished' \subseteq Ids
      /\ id \in enqueued' \union unpublished'
  BY <1>1 DEF RequestsInv, RequestsTyped
<1>4. CASE o.send = {id}
  <2>1. order' = [order EXCEPT ![c] = NoOrder]
    BY <1>1, <1>2, <1>4 DEF AfterSend
  <2> QED
    BY <1>1, <1>2, <1>3, <1>4, <2>1, NoOrderIsSound, OrderStep
<1>5. CASE o.send # {id}
  <2>1. PICK to : to = [o EXCEPT !.send = @ \ {id}]
    OBVIOUS
  <2>2. order' = [order EXCEPT ![c] = to]
    BY <1>1, <1>2, <1>5, <2>1 DEF AfterSend
  <2>3. /\ to.step = "send" /\ to.bulk = o.bulk /\ to.period = o.period /\ to.seen = o.seen
        /\ to.todo = o.todo /\ to.new = o.new /\ to.send = o.send \ {id} /\ to \in Order
    BY <1>1, <1>2, <2>1 DEF Order
  <2>4. Promises(o)
    BY <1>2 DEF RequestsInv
  <2>5. Promises(to)
    BY <1>1, <1>2, <2>3, <2>4 DEF Promises
  <2>6. o.send \subseteq to.send \union enqueued' \union unpublished'
    BY <1>3, <2>3
  <2> QED
    BY <1>1, <1>2, <1>3, <2>2, <2>3, <2>5, <2>6, OrderStep
<1> QED
  BY <1>4, <1>5

LEMMA CommitReviewsInv == \A c \in Clerks : RequestsInv /\ CommitReviews(c) => RequestsInv'
<1> SUFFICES ASSUME NEW c \in Clerks, RequestsInv, CommitReviews(c) PROVE RequestsInv'
  OBVIOUS
<1>1. /\ order[c].step = "check" /\ order[c].todo = {} /\ Insertable(c) /\ Room(c)
      /\ created' = created + Cardinality(order[c].new)
      /\ subjects' = subjects /\ enqueued' = enqueued /\ unpublished' = unpublished
  BY DEF CommitReviews
<1>2. PICK o \in Order : o = order[c]
  BY DEF RequestsInv, RequestsTyped
<1>3. Promises(o) /\ o.send = {} /\ o.period \in AllPeriods /\ o.new \subseteq Subjects
  BY <1>1, <1>2 DEF RequestsInv, Promises, Order
<1>4. PICK n \in Nat : n = Cardinality(o.new)
  BY <1>3, FS_CardinalityType DEF Promises
<1>5. created \in Nat /\ created + n <= MostReviews /\ MostReviews \in Nat
  BY <1>1, <1>2, <1>4, RequestsAssumption DEF Room, RequestsInv, RequestsTyped
<1>6. PICK f \in Numbered(o.new) :
        /\ reviews' = reviews \union
               {[id |-> f[s], of |-> s, period |-> o.period, status |-> "QUEUED"] : s \in o.new}
        /\ Does(c, IF o.new = {} THEN NoOrder
                   ELSE [o EXCEPT !.step = "send", !.new = {}, !.send = {f[s] : s \in o.new}])
  BY <1>2 DEF CommitReviews
<1>7. PICK fresh : fresh = {[id |-> f[s], of |-> s, period |-> o.period, status |-> "QUEUED"] : s \in o.new}
  OBVIOUS
<1>8. PICK ids : ids = {f[s] : s \in o.new}
  OBVIOUS
<1>9. /\ \A s \in o.new : f[s] \in Nat /\ f[s] > created /\ f[s] <= created + n
      /\ \A s, t \in o.new : f[s] = f[t] => s = t
  <2>1. f \in [o.new -> (created + 1)..(created + n)]
    BY <1>4 DEF Numbered
  <2>2. \A s \in o.new : f[s] \in (created + 1)..(created + n)
    BY <2>1
  <2>3. \A s, t \in o.new : f[s] = f[t] => s = t
    BY DEF Numbered
  <2> QED
    BY <1>5, <2>2, <2>3
<1>10. ids \subseteq Ids
  BY <1>5, <1>8, <1>9 DEF Ids
<1>11. fresh \subseteq ServiceReview
  <2>1. \A s \in o.new : f[s] \in Ids
    BY <1>8, <1>10
  <2> QED
    BY <1>3, <1>7, <2>1 DEF ServiceReview, ReviewStatuses
<1>12. \A r \in fresh :
          /\ r.of \in o.new /\ r.id = f[r.of] /\ r.period = o.period /\ r.status = "QUEUED"
          /\ r.id \in ids
  BY <1>7, <1>8
<1>13. \A r, q \in fresh : r.of = q.of => r = q
  BY <1>7
<1>14. reviews' = reviews \union fresh
  BY <1>6, <1>7
<1>15. PICK to : to = IF o.new = {} THEN NoOrder
                     ELSE [o EXCEPT !.step = "send", !.new = {}, !.send = ids]
  OBVIOUS
<1>16. /\ to \in Order
       /\ to.send = ids
       /\ to.bulk => o.bulk
       /\ to.bulk => to.seen = o.seen /\ to.period = o.period /\ to.todo = {} /\ to.new = {}
       /\ to.step = "idle" => to = NoOrder
       /\ to.step = "send" => to.period = o.period /\ to.new = {}
       /\ to.step \in {"idle", "send"}
  <2>1. CASE o.new = {}
    BY <2>1, <1>8, <1>15, NoOrderIsSound
  <2>2. CASE o.new # {}
    <3>1. to = [o EXCEPT !.step = "send", !.new = {}, !.send = ids]
      BY <2>2, <1>15
    <3>2. /\ to.step = "send" /\ to.new = {} /\ to.send = ids /\ to.bulk = o.bulk
          /\ to.seen = o.seen /\ to.period = o.period /\ to.todo = o.todo /\ to \in Order
      BY <1>10, <3>1 DEF Order
    <3> QED
      BY <1>1, <1>2, <3>2
  <2> QED
    BY <2>1, <2>2
<1>17. /\ order' = [order EXCEPT ![c] = to]
       /\ order' \in [Clerks -> Order] /\ order'[c] = to
       /\ \A d \in Clerks : d # c => order'[d] = order[d]
  <2>1. order' = [order EXCEPT ![c] = to]
    BY <1>6, <1>8, <1>15 DEF Does
  <2> QED
    BY <2>1, <1>16 DEF RequestsInv, RequestsTyped
<1>18. RequestsTyped'
  <2>1. created' \in Nat /\ created' <= MostReviews
    BY <1>1, <1>2, <1>4, <1>5
  <2> QED
    BY <2>1, <1>1, <1>11, <1>14, <1>17 DEF RequestsInv, RequestsTyped
<1>19. Numbers'
  <2>1. created' = created + n
    BY <1>1, <1>2, <1>4
  <2>2. \A r \in reviews : r.id \in Nat /\ r.id <= created
    BY DEF RequestsInv, RequestsTyped, Numbers, ServiceReview, Ids
  <2>3. \A r \in fresh : r.id \in Nat /\ r.id > created /\ r.id <= created + n
    BY <1>9, <1>12
  <2>4. \A r \in reviews' : r.id <= created'
    BY <1>5, <1>14, <2>1, <2>2, <2>3
  <2>5. \A r \in reviews, q \in fresh : r.id # q.id
    BY <1>5, <2>2, <2>3
  <2>6. \A r, q \in fresh : r.id = q.id => r = q
    BY <1>9, <1>12, <1>13
  <2>7. \A r, q \in reviews : r.id = q.id => r = q
    BY DEF RequestsInv, Numbers
  <2>8. \A r, q \in reviews' : r.id = q.id => r = q
    BY <1>14, <2>5, <2>6, <2>7
  <2> QED
    BY <2>4, <2>8 DEF Numbers
<1>20. OneOfAWeek'
  <2>1. ASSUME NEW r \in reviews, NEW q \in fresh, r.of = q.of, r.period.start = q.period.start,
               q.period.start # Rolling
        PROVE  FALSE
    <3>1. q.of \in order[c].new /\ q.period = order[c].period
      BY <1>2, <1>12
    <3>2. Taken(q.of, order[c].period)
      BY <2>1, <3>1 DEF Taken
    <3> QED
      BY <1>1, <3>1, <3>2 DEF Insertable
  <2>2. \A r, q \in reviews :
           r.of = q.of /\ r.period.start = q.period.start /\ r.period.start # Rolling => r = q
    BY DEF RequestsInv, OneOfAWeek
  <2> QED
    BY <1>13, <1>14, <2>1, <2>2 DEF OneOfAWeek
<1>21. QueuedIsSent'
  <2> SUFFICES ASSUME NEW r \in reviews', r.status = "QUEUED"
               PROVE  r.id \in enqueued' \union unpublished' \union UNION {order'[d].send : d \in Clerks}
    BY DEF QueuedIsSent
  <2>1. CASE r \in fresh
    <3>1. r.id \in order'[c].send
      BY <2>1, <1>12, <1>16, <1>17
    <3> QED
      BY <3>1
  <2>2. CASE r \in reviews
    <3>1. r.id \in enqueued \union unpublished \union UNION {order[d].send : d \in Clerks}
      BY <2>2 DEF RequestsInv, QueuedIsSent
    <3>2. CASE r.id \in enqueued \union unpublished
      BY <3>2, <1>1
    <3>3. ASSUME NEW d \in Clerks, r.id \in order[d].send
          PROVE  r.id \in UNION {order'[e].send : e \in Clerks}
      <4>1. d # c
        BY <3>3, <1>2, <1>3
      <4> QED
        BY <3>3, <4>1, <1>17
    <3> QED
      BY <3>1, <3>2, <3>3
  <2> QED
    BY <1>14, <2>1, <2>2
<1>22. ASSUME NEW d \in Clerks PROVE Promises(order[d])'
  <2>1. CASE d # c
    <3>1. Promises(order[d]) /\ order'[d] = order[d]
      BY <2>1, <1>17 DEF RequestsInv
    <3> QED
      BY <1>1, <1>14, <3>1 DEF Promises
  <2>2. CASE d = c
    <3>1. order'[d] = to
      BY <2>2, <1>17
    <3>2. /\ to.step # "idle" => to.period \in AllPeriods
          /\ to.step = "idle" => ~to.bulk /\ to.send = {}
          /\ to.step # "check"
      BY <1>3, <1>16, NoOrderIsSound
    <3>3. IsFiniteSet(to.new)
      BY <1>16, NoOrderIsSound, FS_EmptySet
    <3>4. to.bulk => \A s \in to.seen \intersect subjects' :
                        \E r \in reviews' : r.of = s /\ r.period = to.period
      <4> SUFFICES ASSUME to.bulk, NEW s \in to.seen \intersect subjects
                   PROVE  \E r \in reviews' : r.of = s /\ r.period = to.period
        BY <1>1
      <4>1. s \in o.seen /\ to.period = o.period /\ o.bulk
        BY <1>16
      <4>2. s \in o.new \/ \E r \in reviews : r.of = s /\ r.period = o.period
        BY <1>1, <1>2, <1>3, <4>1 DEF Promises
      <4>3. CASE s \in o.new
        <5>1. PICK r : r = [id |-> f[s], of |-> s, period |-> o.period, status |-> "QUEUED"]
          OBVIOUS
        <5>2. r \in fresh /\ r.of = s /\ r.period = o.period
          BY <1>7, <4>3, <5>1
        <5> QED
          BY <1>14, <4>1, <5>2
      <4> QED
        BY <1>14, <4>1, <4>2, <4>3
    <3> QED
      BY <3>1, <3>2, <3>3, <3>4 DEF Promises
  <2> QED
    BY <2>1, <2>2
<1> QED
  BY <1>18, <1>19, <1>20, <1>21, <1>22 DEF RequestsInv

\* A review changes its status, and is not QUEUED any more.
LEMMA BecomesInv ==
    ASSUME RequestsInv, NEW r \in reviews, NEW status \in ReviewStatuses \ {"QUEUED"},
           Becomes(r, status),
           subjects' = subjects, created' = created, order' = order, unpublished' = unpublished,
           enqueued' \subseteq enqueued, enqueued \subseteq enqueued' \union {r.id}
    PROVE  RequestsInv'
<1>1. PICK m : m = [r EXCEPT !.status = status]
  OBVIOUS
<1>2. reviews' = (reviews \ {r}) \union {m}
  BY <1>1 DEF Becomes
<1>3. r \in ServiceReview /\ reviews \subseteq ServiceReview
  BY DEF RequestsInv, RequestsTyped
<1>4. /\ m \in ServiceReview /\ m.id = r.id /\ m.of = r.of /\ m.period = r.period
      /\ m.status = status
  BY <1>1, <1>3 DEF ServiceReview
<1>5. RequestsTyped'
  BY <1>2, <1>3, <1>4 DEF RequestsInv, RequestsTyped
<1>6. Numbers' /\ OneOfAWeek'
  BY <1>2, <1>4 DEF RequestsInv, Numbers, OneOfAWeek
<1>7. QueuedIsSent'
  <2> SUFFICES ASSUME NEW q \in reviews', q.status = "QUEUED"
               PROVE  q.id \in enqueued' \union unpublished' \union UNION {order'[d].send : d \in Clerks}
    BY DEF QueuedIsSent
  <2>1. q \in reviews /\ q # r
    BY <1>2, <1>4
  <2>2. q.id # r.id
    BY <2>1 DEF RequestsInv, Numbers
  <2>3. q.id \in enqueued \union unpublished \union UNION {order[d].send : d \in Clerks}
    BY <2>1 DEF RequestsInv, QueuedIsSent
  <2> QED
    BY <2>2, <2>3
<1>8. ASSUME NEW d \in Clerks PROVE Promises(order[d])'
  <2>1. PICK o : o = order[d]
    OBVIOUS
  <2>2. Promises(o) /\ order'[d] = o
    BY <2>1 DEF RequestsInv
  <2>3. \A s : (\E q \in reviews : q.of = s /\ q.period = o.period)
               => \E q \in reviews' : q.of = s /\ q.period = o.period
    BY <1>2, <1>4
  <2> QED
    BY <2>2, <2>3 DEF Promises
<1> QED
  BY <1>5, <1>6, <1>7, <1>8 DEF RequestsInv

LEMMA WorkerInv ==
    \A r \in reviews :
        RequestsInv /\ (Generate(r) \/ \E status \in {"COMPLETED", "FAILED"} : FinishReview(r, status))
        => RequestsInv'
<1> SUFFICES ASSUME NEW r \in reviews, RequestsInv,
                    Generate(r) \/ \E status \in {"COMPLETED", "FAILED"} : FinishReview(r, status)
             PROVE  RequestsInv'
  OBVIOUS
<1>1. CASE Generate(r)
  BY <1>1, BecomesInv DEF Generate, ReviewStatuses
<1>2. ASSUME NEW status \in {"COMPLETED", "FAILED"}, FinishReview(r, status) PROVE RequestsInv'
  BY <1>2, BecomesInv DEF FinishReview, ReviewStatuses
<1> QED
  BY <1>1, <1>2

LEMMA DropSubjectInv == \A s \in Subjects : RequestsInv /\ DropSubject(s) => RequestsInv'
<1> SUFFICES ASSUME NEW s \in Subjects, RequestsInv, DropSubject(s) PROVE RequestsInv'
  OBVIOUS
<1>1. /\ subjects' = subjects \ {s} /\ reviews' = {r \in reviews : r.of # s}
      /\ created' = created /\ order' = order /\ enqueued' = enqueued /\ unpublished' = unpublished
  BY DEF DropSubject
<1>2. RequestsTyped' /\ Numbers' /\ OneOfAWeek' /\ QueuedIsSent'
  BY <1>1 DEF RequestsInv, RequestsTyped, Numbers, OneOfAWeek, QueuedIsSent
<1>3. ASSUME NEW d \in Clerks PROVE Promises(order[d])'
  <2>1. PICK o : o = order[d]
    OBVIOUS
  <2>2. Promises(o) /\ order'[d] = o
    BY <1>1, <2>1 DEF RequestsInv
  <2>3. \A t \in subjects' : (\E q \in reviews : q.of = t /\ q.period = o.period)
               => \E q \in reviews' : q.of = t /\ q.period = o.period
    BY <1>1
  <2> QED
    BY <1>1, <2>2, <2>3 DEF Promises
<1> QED
  BY <1>2, <1>3 DEF RequestsInv

LEMMA RequestsStep == RequestsInv /\ [RequestsNext]_orderVars => RequestsInv'
<1> SUFFICES ASSUME RequestsInv, [RequestsNext]_orderVars PROVE RequestsInv'
  OBVIOUS
<1>1. CASE UNCHANGED orderVars
  BY <1>1 DEF orderVars, RequestsInv, RequestsTyped, Numbers, OneOfAWeek, QueuedIsSent, Promises
<1>2. ASSUME NEW c \in Clerks, NEW p \in AllPeriods,
             CreateBulkReviews(c, p) \/ \E s \in Subjects : RequestReview(c, s, p)
      PROVE  RequestsInv'
  <2>1. CASE CreateBulkReviews(c, p)
    <3>1. PICK s : s \in Subjects
      BY <2>1 DEF CreateBulkReviews, RequestsInv, RequestsTyped
    <3> QED
      BY <2>1, <3>1, AskedInv
  <2> QED
    BY <1>2, <2>1, AskedInv
<1> QED
  BY <1>1, <1>2, CheckServiceInv, CommitReviewsInv, GivenUpInv, PublishInv, WorkerInv, DropSubjectInv
  DEF RequestsNext

LEMMA RequestsInvariance == RequestsSpec => []RequestsInv
BY RequestsInitInv, RequestsStep, PTL DEF RequestsSpec

LEMMA RequestsHold == RequestsInv => RequestsAreSound
<1> SUFFICES ASSUME RequestsInv PROVE RequestsAreSound
  OBVIOUS
<1>1. \A r \in reviews : r.id \in Nat /\ r.status \in ReviewStatuses
  BY DEF RequestsInv, RequestsTyped, ServiceReview, Ids
<1>2. ASSUME NEW s \in Subjects
      PROVE  /\ ListReviews(s, ReviewStatuses) = {r \in reviews : r.of = s}
             /\ \A r, q \in ListReviews(s, ReviewStatuses) :
                    r.period.start = q.period.start /\ r.period.start # Rolling => r = q
  <2>1. \A r, q \in reviews : r.of = s /\ q.of = s /\ q.period = r.period /\ r.period.start # Rolling
                              => q.id <= r.id
    <3>1. \A r, q \in reviews : r.of = s /\ q.of = s /\ q.period = r.period /\ r.period.start # Rolling
                                => q = r
      BY DEF RequestsInv, OneOfAWeek
    <3>2. \A r \in reviews : r.id <= r.id
      BY <1>1
    <3> QED
      BY <3>1, <3>2
  <2>2. ListReviews(s, ReviewStatuses) = {r \in reviews : r.of = s}
    BY <1>1, <2>1 DEF ListReviews
  <2> QED
    BY <2>2 DEF RequestsInv, OneOfAWeek
<1>3. NothingIsHidden
  BY <1>2 DEF NothingIsHidden
<1>4. BulkIsWhole
  <2> SUFFICES ASSUME NEW c \in Clerks, order[c].bulk, order[c].todo = {},
                      NEW s \in order[c].seen \intersect subjects
               PROVE  s \in order[c].new \/ \E r \in reviews : r.of = s /\ r.period = order[c].period
    BY DEF BulkIsWhole
  <2> QED
    BY DEF RequestsInv, Promises
<1> QED
  BY <1>3, <1>4 DEF RequestsInv, RequestsAreSound

-----------------------------------------------------------------------------
(* The verdicts. *)

\* An agent has spoken about the rule without saying clearly that it is covered.
InDoubt(r) == \E a \in answer[r] : a = Failure \/ 100 * a.passes < Confidence * a.entries
Group(r) == 1..gaps[r]
Phases == {"rules", "verify", "filter", "enrich", "save", "saved"}

VerdictsTyped ==
    /\ phase \in Phases
    /\ gaps \in [Rules -> 0..MostGaps]
    /\ waiting \subseteq {r \in Rules : gaps[r] > 0}
    /\ answer \in [Rules -> SUBSET Answers]
    /\ verdict \in [Rules -> [titles : SUBSET Titles, group : GapVerdict]]
    /\ reported \in [Rules -> SUBSET Titles]
    /\ enriched \subseteq Rules
    /\ \A r \in Rules : verdict[r].titles \subseteq Group(r) /\ reported[r] \subseteq Group(r)

\* Only a rule that an agent was asked about is ever dropped as covered, and an
\* agent is asked once.
AskedOnce ==
    \A r \in Rules :
        /\ answer[r] = {} => verdict[r] = NoVerdict
        /\ r \in waiting \/ phase = "rules" => answer[r] = {}
        /\ gaps[r] = 0 => answer[r] = {}

DoubtIsNoAlarm == \A r \in Rules : InDoubt(r) => verdict[r].group = "GENUINE"

LargeGroupsTogether ==
    \A r \in Rules : gaps[r] > SampleSize =>
        /\ verdict[r].group = "FALSE_ALARM" => verdict[r].titles = Group(r)
        /\ phase # "rules" => reported[r] \in {{}, Group(r)}

\* What is left before and after the false alarms are dropped.
DoubtIsReported ==
    /\ phase \in {"verify", "filter"} => \A r \in Rules : reported[r] = Group(r)
    /\ phase # "rules" => \A r \in Rules : InDoubt(r) => reported[r] = Group(r)

SavedAsReported ==
    /\ phase = "saved" =>
          \A r \in Rules : \A g \in reported[r] : \E x \in saved : x.rule = r /\ x.gap = g
    /\ saved \subseteq Row
    /\ \A x, y \in saved : x.rule = y.rule /\ x.gap = y.gap => x = y

VerdictsInv ==
    /\ VerdictsTyped /\ AskedOnce /\ DoubtIsNoAlarm /\ LargeGroupsTogether
    /\ DoubtIsReported /\ SavedAsReported

LEMMA VerdictsStart == VerdictsInit => VerdictsInv
<1> SUFFICES ASSUME VerdictsInit
             PROVE  VerdictsInv
  OBVIOUS
<1>1. VerdictsTyped
  BY VerdictsAssumption DEF VerdictsInit, VerdictsTyped, Phases, NoVerdict, GapVerdict, Titles, Group
<1>2. \A r \in Rules : answer[r] = {} /\ verdict[r] = NoVerdict /\ gaps[r] = 0
  BY DEF VerdictsInit
<1>3. phase = "rules" /\ saved = {}
  BY DEF VerdictsInit
<1>4. AskedOnce /\ DoubtIsNoAlarm
  BY <1>2 DEF AskedOnce, DoubtIsNoAlarm, InDoubt, NoVerdict
<1>5. LargeGroupsTogether
  BY <1>2, VerdictsAssumption DEF LargeGroupsTogether
<1>6. DoubtIsReported /\ SavedAsReported
  BY <1>3 DEF DoubtIsReported, SavedAsReported
<1> QED
  BY <1>1, <1>4, <1>5, <1>6 DEF VerdictsInv

\* What an answer decides of a group: all of it where it is larger than its
\* sample, and nothing is covered where the agent was in doubt.
LEMMA ADecisionIsSound ==
    ASSUME VerdictsTyped, NEW r \in Rules, NEW a \in Answers, a.passes <= a.entries
    PROVE  LET v == ExtendVerdictsToAll(r, ParsePassFailVerdicts(r, a))
           IN  /\ v \in [titles : SUBSET Group(r), group : GapVerdict]
               /\ gaps[r] > SampleSize => v.titles = Group(r)
               /\ a = Failure \/ 100 * a.passes < Confidence * a.entries => v.group = "GENUINE"
<1>1. /\ gaps[r] \in Nat /\ SampleSize \in Nat \ {0} /\ Confidence \in Nat
      /\ a.entries \in Nat /\ a.passes \in Nat
  BY VerdictsAssumption DEF VerdictsTyped, Answers
<1>2. Sample(r) \subseteq Group(r)
  BY <1>1 DEF Sample, Least, Group
<1>3. PICK p : p = ParsePassFailVerdicts(r, a)
  OBVIOUS
<1>4. p.titles \subseteq Group(r) /\ p \in [titles : SUBSET Group(r), group : GapVerdict]
  BY <1>2, <1>3 DEF ParsePassFailVerdicts, GapVerdict
<1>5. 100 * a.passes \in Nat /\ Confidence * a.entries \in Nat
  BY <1>1
<1>6. ASSUME a = Failure \/ 100 * a.passes < Confidence * a.entries
      PROVE  p.group = "GENUINE"
  <2>1. PICK x \in Nat : x = 100 * a.passes
    BY <1>5
  <2>2. PICK y \in Nat : y = Confidence * a.entries
    BY <1>5
  <2>3. CASE a = Failure
    BY <2>3, <1>3 DEF Failure, Covered, ParsePassFailVerdicts
  <2>4. CASE x < y
    <3>1. ~Covered(a)
      BY <2>1, <2>2, <2>4 DEF Covered
    <3> QED
      BY <3>1, <1>3 DEF ParsePassFailVerdicts
  <2> QED
    BY <1>6, <2>1, <2>2, <2>3, <2>4
<1>7. PICK v : v = ExtendVerdictsToAll(r, p)
  OBVIOUS
<1>8. CASE gaps[r] > SampleSize
  <2>1. v = [p EXCEPT !.titles = Group(r)]
    BY <1>7, <1>8 DEF ExtendVerdictsToAll, Group
  <2>2. /\ v.titles = Group(r) /\ v.group = p.group
        /\ v \in [titles : SUBSET Group(r), group : GapVerdict]
    BY <2>1, <1>4
  <2> QED
    BY <2>2, <1>3, <1>6, <1>7
<1>9. CASE ~(gaps[r] > SampleSize)
  BY <1>9, <1>3, <1>4, <1>6, <1>7 DEF ExtendVerdictsToAll
<1> QED
  BY <1>8, <1>9

LEMMA RunRulesInv ==
    ASSUME VerdictsInv, NEW found \in [Rules -> 0..MostGaps], RunRules(found)
    PROVE  VerdictsInv'
<1>1. /\ phase = "rules" /\ gaps' = found
      /\ reported' = [r \in Rules |-> 1..found[r]]
      /\ waiting' = {r \in Rules : found[r] > 0}
      /\ phase' \in {"enrich", "verify"}
      /\ answer' = answer /\ verdict' = verdict /\ enriched' = enriched /\ saved' = saved
  BY DEF RunRules
<1>2. \A r \in Rules : answer[r] = {} /\ verdict[r] = NoVerdict
  BY <1>1 DEF VerdictsInv, AskedOnce
<1>3. \A r \in Rules : found[r] \in Nat /\ 1..found[r] \subseteq Titles
  BY VerdictsAssumption DEF Titles
<1>4. VerdictsTyped'
  BY <1>1, <1>2, <1>3 DEF VerdictsInv, VerdictsTyped, Phases, Group, NoVerdict
<1>5. AskedOnce' /\ DoubtIsNoAlarm'
  BY <1>1, <1>2 DEF AskedOnce, DoubtIsNoAlarm, InDoubt, NoVerdict
<1>6. \A r \in Rules : reported'[r] = Group(r)'
  BY <1>1 DEF Group
<1>7. LargeGroupsTogether'
  BY <1>1, <1>2, <1>6 DEF LargeGroupsTogether, NoVerdict
<1>8. DoubtIsReported'
  BY <1>6 DEF DoubtIsReported
<1>9. SavedAsReported'
  BY <1>1 DEF VerdictsInv, SavedAsReported
<1> QED
  BY <1>4, <1>5, <1>7, <1>8, <1>9 DEF VerdictsInv

LEMMA VerifyRuleGroupInv ==
    ASSUME VerdictsInv, NEW r \in Rules, NEW a \in Answers, VerifyRuleGroup(r, a)
    PROVE  VerdictsInv'
<1>1. PICK v : v = ExtendVerdictsToAll(r, ParsePassFailVerdicts(r, a))
  OBVIOUS
<1>2. /\ phase = "verify" /\ r \in waiting
      /\ answer' = [answer EXCEPT ![r] = {a}] /\ verdict' = [verdict EXCEPT ![r] = v]
      /\ waiting' = waiting \ {r} /\ phase' \in {"verify", "filter"}
      /\ gaps' = gaps /\ reported' = reported /\ enriched' = enriched /\ saved' = saved
      /\ a.passes <= a.entries
  BY <1>1 DEF VerifyRuleGroup, Decide
<1>3. /\ v \in [titles : SUBSET Group(r), group : GapVerdict]
      /\ gaps[r] > SampleSize => v.titles = Group(r)
      /\ a = Failure \/ 100 * a.passes < Confidence * a.entries => v.group = "GENUINE"
  BY <1>1, <1>2, ADecisionIsSound DEF VerdictsInv
<1>4. gaps[r] \in 0..MostGaps /\ gaps[r] > 0 /\ Group(r) \subseteq Titles
  BY <1>2, VerdictsAssumption DEF VerdictsInv, VerdictsTyped, Group, Titles
<1>5. /\ answer'[r] = {a} /\ verdict'[r] = v
      /\ \A q \in Rules \ {r} : answer'[q] = answer[q] /\ verdict'[q] = verdict[q]
      /\ answer' \in [Rules -> SUBSET Answers]
  BY <1>2 DEF VerdictsInv, VerdictsTyped
<1>6. verdict' \in [Rules -> [titles : SUBSET Titles, group : GapVerdict]]
  BY <1>2, <1>3, <1>4 DEF VerdictsInv, VerdictsTyped
<1>7. VerdictsTyped'
  <2>1. \A q \in Rules : Group(q)' = Group(q)
    BY <1>2 DEF Group
  <2>2. \A q \in Rules : verdict'[q].titles \subseteq Group(q) /\ reported'[q] \subseteq Group(q)
    BY <1>2, <1>3, <1>5 DEF VerdictsInv, VerdictsTyped
  <2> QED
    BY <2>1, <2>2, <1>2, <1>5, <1>6 DEF VerdictsInv, VerdictsTyped, Phases
<1>8. AskedOnce'
  BY <1>2, <1>4, <1>5 DEF VerdictsInv, AskedOnce
<1>9. \A q \in Rules : InDoubt(q)' => q = r \/ InDoubt(q)
  BY <1>5 DEF InDoubt
<1>10. DoubtIsNoAlarm'
  <2>1. InDoubt(r)' => v.group = "GENUINE"
    BY <1>3, <1>5 DEF InDoubt
  <2> QED
    BY <2>1, <1>5, <1>9 DEF VerdictsInv, DoubtIsNoAlarm
<1>11. LargeGroupsTogether'
  BY <1>2, <1>3, <1>5 DEF VerdictsInv, LargeGroupsTogether, Group
<1>12. DoubtIsReported'
  BY <1>2 DEF VerdictsInv, DoubtIsReported, Group
<1>13. SavedAsReported'
  BY <1>2 DEF VerdictsInv, SavedAsReported
<1> QED
  BY <1>7, <1>8, <1>10, <1>11, <1>12, <1>13 DEF VerdictsInv

LEMMA FilterGapsInv ==
    ASSUME VerdictsInv, FilterGaps
    PROVE  VerdictsInv'
<1>1. /\ phase = "filter" /\ phase' = "enrich"
      /\ reported' = [r \in Rules |-> IF verdict[r].group = "FALSE_ALARM"
                                      THEN reported[r] \ verdict[r].titles ELSE reported[r]]
      /\ gaps' = gaps /\ waiting' = waiting /\ answer' = answer /\ verdict' = verdict
      /\ enriched' = enriched /\ saved' = saved
  BY DEF FilterGaps
<1>2. \A r \in Rules : Group(r)' = Group(r) /\ InDoubt(r)' = InDoubt(r)
  BY <1>1 DEF Group, InDoubt
<1>3. \A r \in Rules : reported[r] = Group(r)
  BY <1>1 DEF VerdictsInv, DoubtIsReported
<1>4. VerdictsTyped'
  BY <1>1, <1>2 DEF VerdictsInv, VerdictsTyped, Phases
<1>5. AskedOnce'
  BY <1>1 DEF VerdictsInv, AskedOnce
<1>6. DoubtIsNoAlarm'
  BY <1>1, <1>2 DEF VerdictsInv, DoubtIsNoAlarm
<1>7. LargeGroupsTogether'
  BY <1>1, <1>2, <1>3 DEF VerdictsInv, LargeGroupsTogether
<1>8. DoubtIsReported'
  <2>1. \A r \in Rules : InDoubt(r) => reported'[r] = Group(r)
    BY <1>1, <1>3 DEF VerdictsInv, DoubtIsNoAlarm
  <2> QED
    BY <2>1, <1>1, <1>2 DEF DoubtIsReported
<1>9. SavedAsReported'
  BY <1>1 DEF VerdictsInv, SavedAsReported
<1> QED
  BY <1>4, <1>5, <1>6, <1>7, <1>8, <1>9 DEF VerdictsInv

LEMMA ContextFilterGapsInv ==
    ASSUME VerdictsInv, NEW suppressed, ContextFilterGaps(suppressed)
    PROVE  VerdictsInv'
<1>1. /\ phase = "verify" /\ phase' = "enrich"
      /\ waiting = {r \in Rules : gaps[r] > 0} /\ waiting' = {}
      /\ reported' = [r \in Rules |-> IF r \in suppressed THEN {} ELSE reported[r]]
      /\ gaps' = gaps /\ answer' = answer /\ verdict' = verdict
      /\ enriched' = enriched /\ saved' = saved
  BY DEF ContextFilterGaps
<1>2. \A r \in Rules : Group(r)' = Group(r) /\ answer[r] = {}
  <2> SUFFICES ASSUME NEW r \in Rules
               PROVE  Group(r)' = Group(r) /\ answer[r] = {}
    OBVIOUS
  <2>1. gaps[r] = 0 \/ gaps[r] > 0
    BY VerdictsAssumption DEF VerdictsInv, VerdictsTyped
  <2> QED
    BY <2>1, <1>1 DEF VerdictsInv, AskedOnce, Group
<1>3. \A r \in Rules : reported[r] = Group(r)
  BY <1>1 DEF VerdictsInv, DoubtIsReported
<1>4. VerdictsTyped'
  BY <1>1, <1>2 DEF VerdictsInv, VerdictsTyped, Phases
<1>5. AskedOnce'
  BY <1>1, <1>2 DEF VerdictsInv, AskedOnce
<1>6. DoubtIsNoAlarm' /\ DoubtIsReported'
  BY <1>1, <1>2 DEF DoubtIsNoAlarm, DoubtIsReported, InDoubt
<1>7. LargeGroupsTogether'
  BY <1>1, <1>2, <1>3 DEF VerdictsInv, LargeGroupsTogether
<1>8. SavedAsReported'
  BY <1>1 DEF VerdictsInv, SavedAsReported
<1> QED
  BY <1>4, <1>5, <1>6, <1>7, <1>8 DEF VerdictsInv

LEMMA EnrichInv ==
    ASSUME VerdictsInv, NEW explained \in SUBSET Rules, Enrich(explained)
    PROVE  VerdictsInv'
<1>1. /\ phase = "enrich" /\ phase' = "save" /\ enriched' = explained
      /\ gaps' = gaps /\ waiting' = waiting /\ answer' = answer /\ verdict' = verdict
      /\ reported' = reported /\ saved' = saved
  BY DEF Enrich
<1>2. \A r \in Rules : Group(r)' = Group(r) /\ InDoubt(r)' = InDoubt(r)
  BY <1>1 DEF Group, InDoubt
<1>3. VerdictsTyped'
  BY <1>1, <1>2 DEF VerdictsInv, VerdictsTyped, Phases
<1>4. AskedOnce' /\ DoubtIsNoAlarm'
  BY <1>1, <1>2 DEF VerdictsInv, AskedOnce, DoubtIsNoAlarm
<1>5. LargeGroupsTogether' /\ DoubtIsReported'
  BY <1>1, <1>2 DEF VerdictsInv, LargeGroupsTogether, DoubtIsReported
<1>6. SavedAsReported'
  BY <1>1 DEF VerdictsInv, SavedAsReported
<1> QED
  BY <1>3, <1>4, <1>5, <1>6 DEF VerdictsInv

\* Each row has the rule and the gap it was made of, and these tell it apart.
LEMMA SaveGapsInv ==
    ASSUME VerdictsInv, SaveGaps
    PROVE  VerdictsInv'
<1> DEFINE row(r, g) == [rule |-> r, gap |-> g, why |-> r \in enriched,
                         verdict |-> IF g \in verdict[r].titles THEN verdict[r].group ELSE "none"]
<1>1. /\ phase = "save" /\ phase' = "saved"
      /\ saved' = UNION {{row(r, g) : g \in reported[r]} : r \in Rules}
      /\ gaps' = gaps /\ waiting' = waiting /\ answer' = answer /\ verdict' = verdict
      /\ reported' = reported /\ enriched' = enriched
  BY DEF SaveGaps
<1>2. \A r \in Rules : Group(r)' = Group(r) /\ InDoubt(r)' = InDoubt(r)
  BY <1>1 DEF Group, InDoubt
<1>3. \A r \in Rules, g \in Titles :
        row(r, g) \in Row /\ row(r, g).rule = r /\ row(r, g).gap = g
  BY DEF VerdictsInv, VerdictsTyped, Row
<1>4. \A x : x \in saved' <=> \E r \in Rules : \E g \in reported[r] : x = row(r, g)
  BY <1>1
<1>5. \A r \in Rules : reported[r] \subseteq Titles
  BY DEF VerdictsInv, VerdictsTyped
<1> HIDE DEF row
<1>6. SavedAsReported'
  <2>1. \A r \in Rules : \A g \in reported[r] : \E x \in saved' : x.rule = r /\ x.gap = g
    BY <1>3, <1>4, <1>5
  <2>2. saved' \subseteq Row
    BY <1>3, <1>4, <1>5
  <2>3. \A x, y \in saved' : x.rule = y.rule /\ x.gap = y.gap => x = y
    BY <1>3, <1>4, <1>5
  <2> QED
    BY <2>1, <2>2, <2>3, <1>1 DEF SavedAsReported
<1>7. VerdictsTyped'
  BY <1>1, <1>2 DEF VerdictsInv, VerdictsTyped, Phases
<1>8. AskedOnce' /\ DoubtIsNoAlarm'
  BY <1>1, <1>2 DEF VerdictsInv, AskedOnce, DoubtIsNoAlarm
<1>9. LargeGroupsTogether' /\ DoubtIsReported'
  BY <1>1, <1>2 DEF VerdictsInv, LargeGroupsTogether, DoubtIsReported
<1> QED
  BY <1>6, <1>7, <1>8, <1>9 DEF VerdictsInv

LEMMA VerdictsStep == VerdictsInv /\ [VerdictsNext]_verdictVars => VerdictsInv'
<1> SUFFICES ASSUME VerdictsInv, [VerdictsNext]_verdictVars
             PROVE  VerdictsInv'
  OBVIOUS
<1>1. ASSUME NEW found \in [Rules -> 0..MostGaps], RunRules(found)
      PROVE  VerdictsInv'
  BY <1>1, RunRulesInv
<1>2. ASSUME NEW r \in Rules, NEW a \in Answers, VerifyRuleGroup(r, a)
      PROVE  VerdictsInv'
  BY <1>2, VerifyRuleGroupInv
<1>3. Failure \in Answers
  BY VerdictsAssumption DEF Failure, Answers
<1>4. ASSUME NEW r \in Rules, VerificationFails(r)
      PROVE  VerdictsInv'
  BY <1>2, <1>3, <1>4 DEF VerificationFails
<1>5. CASE FilterGaps
  BY <1>5, FilterGapsInv
<1>6. ASSUME NEW s \in SUBSET GlobalRules, ContextFilterGaps(s)
      PROVE  VerdictsInv'
  BY <1>6, ContextFilterGapsInv
<1>7. ASSUME NEW s \in SUBSET Rules, Enrich(s)
      PROVE  VerdictsInv'
  BY <1>7, EnrichInv
<1>8. CASE FallbackEnrich
  BY <1>8, <1>7 DEF FallbackEnrich
<1>9. CASE SaveGaps
  BY <1>9, SaveGapsInv
<1>10. CASE UNCHANGED verdictVars
  BY <1>10 DEF verdictVars, VerdictsInv, VerdictsTyped, AskedOnce, DoubtIsNoAlarm,
               LargeGroupsTogether, DoubtIsReported, SavedAsReported, InDoubt, Group
<1> QED
  BY <1>1, <1>2, <1>4, <1>5, <1>6, <1>7, <1>8, <1>9, <1>10 DEF VerdictsNext

LEMMA VerdictsInvariance == VerdictsSpec => []VerdictsInv
BY VerdictsStart, VerdictsStep, PTL DEF VerdictsSpec

LEMMA VerdictsHold == VerdictsInv => VerdictsAreSound /\ VerdictsTypeOK
<1> SUFFICES ASSUME VerdictsInv
             PROVE  VerdictsAreSound /\ VerdictsTypeOK
  OBVIOUS
<1>1. DoubtKeepsGaps
  <2> SUFFICES ASSUME phase = "saved", NEW r \in Rules, InDoubt(r), NEW g \in Group(r)
               PROVE  \E x \in saved : x.rule = r /\ x.gap = g
    BY DEF DoubtKeepsGaps, InDoubt, Group
  <2>1. reported[r] = Group(r)
    BY DEF VerdictsInv, DoubtIsReported
  <2> QED
    BY <2>1 DEF VerdictsInv, SavedAsReported
<1>2. LargeGroupsAreWhole
  BY DEF VerdictsInv, LargeGroupsTogether, LargeGroupsAreWhole, Group
<1>3. VerdictsTypeOK
  BY DEF VerdictsInv, VerdictsTyped, SavedAsReported, VerdictsTypeOK, Phases, Group
<1> QED
  BY <1>1, <1>2, <1>3 DEF VerdictsAreSound

-----------------------------------------------------------------------------
(* The scores. *)

ProviderNames == {"grafana", "datadog", "newrelic", "cloudwatch"}
SavedReviews == [metrics : MetricsData, gaps : GapCounts]

\* What a review is compared with is a review that was scored.
ScoresInv ==
    /\ stage \in {"idle", "logs", "metrics", "scored"}
    /\ healthy \subseteq Range(Providers)
    /\ next \in 1..(Len(Providers) + 1)
    /\ stage = "logs" => next <= Len(Providers)
    /\ logs \in 0..(2 * MaxLogs - 1)
    /\ metrics \in MetricsData
    /\ counted \in GapCounts \union {0}
    /\ stage = "scored" => counted \in GapCounts
    /\ previous \in Seq(SavedReviews) /\ Len(previous) <= 1

\* The first step that a number is on.
LEMMA FirstStep ==
    ASSUME NEW S \in SUBSET Nat, NEW k \in S, \A j \in S : k <= j
    PROVE  (CHOOSE i \in S : \A j \in S : i <= j) = k
<1> DEFINE first == CHOOSE i \in S : \A j \in S : i <= j
<1>1. first \in S /\ \A j \in S : first <= j
  OBVIOUS
<1> HIDE DEF first
<1>2. first = k
  BY <1>1
<1> QED
  BY <1>2 DEF first

\* How the numbers are graded, step by step.
LEMMA ErrorsGraded ==
    ASSUME NEW e \in Nat
    PROVE  ScoreErrorRate(e) = IF e < 10 THEN 50 ELSE IF e < 100 THEN 40 ELSE
                               IF e < 500 THEN 25 ELSE 10
<1>1. e # NoValue /\ e # NaN
  BY ScoresAssumption
<1> DEFINE bounds == <<<<10, 50>>, <<100, 40>>, <<500, 25>>>>
           steps == {i \in DOMAIN bounds : e < bounds[i][1]}
           first == CHOOSE i \in steps : \A j \in steps : i <= j
<1>2. steps = {i \in 1..3 :
        \/ i = 1 /\ e < 10
        \/ i = 2 /\ e < 100
        \/ i = 3 /\ e < 500}
  OBVIOUS
<1>3. ScoreErrorRate(e) = IF steps = {} THEN 10 ELSE bounds[first][2]
  BY <1>1 DEF ScoreErrorRate, Graded, Below
<1>4. bounds[1][2] = 50 /\ bounds[2][2] = 40 /\ bounds[3][2] = 25
  OBVIOUS
<1> HIDE DEF steps, bounds, first
<1>5. CASE e < 10
  <2>1. steps \in SUBSET Nat /\ 1 \in steps /\ \A j \in steps : 1 <= j
    BY <1>2, <1>5
  <2>2. steps # {} /\ first = 1
    BY <2>1, FirstStep DEF first
  <2> QED
    BY <1>3, <1>4, <1>5, <2>1, <2>2
<1>6. CASE ~(e < 10) /\ e < 100
  <2>1. steps \in SUBSET Nat /\ 2 \in steps /\ \A j \in steps : 2 <= j
    BY <1>2, <1>6
  <2>2. steps # {} /\ first = 2
    BY <2>1, FirstStep DEF first
  <2> QED
    BY <1>3, <1>4, <1>6, <2>1, <2>2
<1>7. CASE ~(e < 100) /\ e < 500
  <2>1. steps \in SUBSET Nat /\ 3 \in steps /\ \A j \in steps : 3 <= j
    BY <1>2, <1>7
  <2>2. steps # {} /\ first = 3
    BY <2>1, FirstStep DEF first
  <2> QED
    BY <1>3, <1>4, <1>7, <2>1, <2>2
<1>8. CASE ~(e < 500)
  BY <1>2, <1>3, <1>8
<1> QED
  BY <1>5, <1>6, <1>7, <1>8

LEMMA AvailabilityGraded ==
    ASSUME NEW a \in Nat
    PROVE  ScoreAvailability(a) = IF a >= 999000 THEN 50 ELSE IF a >= 995000 THEN 45 ELSE
                                  IF a >= 990000 THEN 40 ELSE IF a >= 950000 THEN 25 ELSE 10
<1>1. a # NoValue /\ a # NaN
  BY ScoresAssumption
<1> DEFINE bounds == <<<<999000, 50>>, <<995000, 45>>, <<990000, 40>>, <<950000, 25>>>>
           steps == {i \in DOMAIN bounds : a >= bounds[i][1]}
           first == CHOOSE i \in steps : \A j \in steps : i <= j
<1>2. steps = {i \in 1..4 :
        \/ i = 1 /\ a >= 999000
        \/ i = 2 /\ a >= 995000
        \/ i = 3 /\ a >= 990000
        \/ i = 4 /\ a >= 950000}
  BY SMT
<1>3. ScoreAvailability(a) = IF steps = {} THEN 10 ELSE bounds[first][2]
  BY <1>1, SMT DEF ScoreAvailability, Graded, AtLeast
<1>4. bounds[1][2] = 50 /\ bounds[2][2] = 45 /\ bounds[3][2] = 40 /\ bounds[4][2] = 25
  BY SMT
<1> HIDE DEF steps, bounds, first
<1>5. CASE a >= 999000
  <2>1. steps \in SUBSET Nat /\ 1 \in steps /\ \A j \in steps : 1 <= j
    BY <1>2, <1>5, SMT
  <2>2. steps # {} /\ first = 1
    BY <2>1, FirstStep, SMT DEF first
  <2> QED
    BY <1>3, <1>4, <1>5, <2>1, <2>2, SMT
<1>6. CASE ~(a >= 999000) /\ a >= 995000
  <2>1. steps \in SUBSET Nat /\ 2 \in steps /\ \A j \in steps : 2 <= j
    BY <1>2, <1>6, SMT
  <2>2. steps # {} /\ first = 2
    BY <2>1, FirstStep, SMT DEF first
  <2> QED
    BY <1>3, <1>4, <1>6, <2>1, <2>2, SMT
<1>7. CASE ~(a >= 995000) /\ a >= 990000
  <2>1. steps \in SUBSET Nat /\ 3 \in steps /\ \A j \in steps : 3 <= j
    BY <1>2, <1>7, SMT
  <2>2. steps # {} /\ first = 3
    BY <2>1, FirstStep, SMT DEF first
  <2> QED
    BY <1>3, <1>4, <1>7, <2>1, <2>2, SMT
<1>8. CASE ~(a >= 990000) /\ a >= 950000
  <2>1. steps \in SUBSET Nat /\ 4 \in steps /\ \A j \in steps : 4 <= j
    BY <1>2, <1>8, SMT
  <2>2. steps # {} /\ first = 4
    BY <2>1, FirstStep, SMT DEF first
  <2> QED
    BY <1>3, <1>4, <1>8, <2>1, <2>2, SMT
<1>9. CASE ~(a >= 950000)
  BY <1>2, <1>3, <1>9, SMT
<1> QED
  BY <1>5, <1>6, <1>7, <1>8, <1>9, SMT

LEMMA LatencyGraded ==
    ASSUME NEW l \in Nat, NEW m, m.latency = l
    PROVE  Performance(m) = IF l < 100 THEN 100 ELSE IF l < 200 THEN 90 ELSE
                            IF l < 500 THEN 70 ELSE IF l < 1000 THEN 50 ELSE 30
<1>1. l # NoValue /\ l # NaN
  BY ScoresAssumption
<1> DEFINE bounds == <<<<100, 100>>, <<200, 90>>, <<500, 70>>, <<1000, 50>>>>
           steps == {i \in DOMAIN bounds : l < bounds[i][1]}
           first == CHOOSE i \in steps : \A j \in steps : i <= j
<1>2. steps = {i \in 1..4 :
        \/ i = 1 /\ l < 100
        \/ i = 2 /\ l < 200
        \/ i = 3 /\ l < 500
        \/ i = 4 /\ l < 1000}
  OBVIOUS
<1>3. Performance(m) = IF steps = {} THEN 30 ELSE bounds[first][2]
  BY <1>1 DEF Performance, Graded, Below
<1>4. bounds[1][2] = 100 /\ bounds[2][2] = 90 /\ bounds[3][2] = 70 /\ bounds[4][2] = 50
  OBVIOUS
<1> HIDE DEF steps, bounds, first
<1>5. CASE l < 100
  <2>1. steps \in SUBSET Nat /\ 1 \in steps /\ \A j \in steps : 1 <= j
    BY <1>2, <1>5
  <2>2. steps # {} /\ first = 1
    BY <2>1, FirstStep DEF first
  <2> QED
    BY <1>3, <1>4, <1>5, <2>1, <2>2
<1>6. CASE ~(l < 100) /\ l < 200
  <2>1. steps \in SUBSET Nat /\ 2 \in steps /\ \A j \in steps : 2 <= j
    BY <1>2, <1>6
  <2>2. steps # {} /\ first = 2
    BY <2>1, FirstStep DEF first
  <2> QED
    BY <1>3, <1>4, <1>6, <2>1, <2>2
<1>7. CASE ~(l < 200) /\ l < 500
  <2>1. steps \in SUBSET Nat /\ 3 \in steps /\ \A j \in steps : 3 <= j
    BY <1>2, <1>7
  <2>2. steps # {} /\ first = 3
    BY <2>1, FirstStep DEF first
  <2> QED
    BY <1>3, <1>4, <1>7, <2>1, <2>2
<1>8. CASE ~(l < 500) /\ l < 1000
  <2>1. steps \in SUBSET Nat /\ 4 \in steps /\ \A j \in steps : 4 <= j
    BY <1>2, <1>8
  <2>2. steps # {} /\ first = 4
    BY <2>1, FirstStep DEF first
  <2> QED
    BY <1>3, <1>4, <1>8, <2>1, <2>2
<1>9. CASE ~(l < 1000)
  BY <1>2, <1>3, <1>9
<1> QED
  BY <1>5, <1>6, <1>7, <1>8, <1>9

LEMMA GapsGraded ==
    ASSUME NEW n \in Nat
    PROVE  Observability(n) = IF n <= 0 THEN 100 ELSE IF n <= 2 THEN 80 ELSE
                              IF n <= 5 THEN 60 ELSE IF n <= 10 THEN 40 ELSE 20
<1>1. n # NaN
  BY ScoresAssumption
<1> DEFINE bounds == <<<<0, 100>>, <<2, 80>>, <<5, 60>>, <<10, 40>>>>
           steps == {i \in DOMAIN bounds : n <= bounds[i][1]}
           first == CHOOSE i \in steps : \A j \in steps : i <= j
<1>2. steps = {i \in 1..4 :
        \/ i = 1 /\ n <= 0
        \/ i = 2 /\ n <= 2
        \/ i = 3 /\ n <= 5
        \/ i = 4 /\ n <= 10}
  OBVIOUS
<1>3. Observability(n) = IF steps = {} THEN 20 ELSE bounds[first][2]
  BY <1>1 DEF Observability, Graded, AtMost
<1>4. bounds[1][2] = 100 /\ bounds[2][2] = 80 /\ bounds[3][2] = 60 /\ bounds[4][2] = 40
  OBVIOUS
<1> HIDE DEF steps, bounds, first
<1>5. CASE n <= 0
  <2>1. steps \in SUBSET Nat /\ 1 \in steps /\ \A j \in steps : 1 <= j
    BY <1>2, <1>5
  <2>2. steps # {} /\ first = 1
    BY <2>1, FirstStep DEF first
  <2> QED
    BY <1>3, <1>4, <1>5, <2>1, <2>2
<1>6. CASE ~(n <= 0) /\ n <= 2
  <2>1. steps \in SUBSET Nat /\ 2 \in steps /\ \A j \in steps : 2 <= j
    BY <1>2, <1>6
  <2>2. steps # {} /\ first = 2
    BY <2>1, FirstStep DEF first
  <2> QED
    BY <1>3, <1>4, <1>6, <2>1, <2>2
<1>7. CASE ~(n <= 2) /\ n <= 5
  <2>1. steps \in SUBSET Nat /\ 3 \in steps /\ \A j \in steps : 3 <= j
    BY <1>2, <1>7
  <2>2. steps # {} /\ first = 3
    BY <2>1, FirstStep DEF first
  <2> QED
    BY <1>3, <1>4, <1>7, <2>1, <2>2
<1>8. CASE ~(n <= 5) /\ n <= 10
  <2>1. steps \in SUBSET Nat /\ 4 \in steps /\ \A j \in steps : 4 <= j
    BY <1>2, <1>8
  <2>2. steps # {} /\ first = 4
    BY <2>1, FirstStep DEF first
  <2> QED
    BY <1>3, <1>4, <1>8, <2>1, <2>2
<1>9. CASE ~(n <= 10)
  BY <1>2, <1>3, <1>9
<1> QED
  BY <1>5, <1>6, <1>7, <1>8, <1>9

LEMMA Measured ==
    ASSUME NEW m \in MetricsData
    PROVE  /\ m.latency \in Nat \union {NoValue, NaN}
           /\ m.errors \in Nat \union {NoValue}
           /\ m.up \in Int \union {NoValue}
           /\ m.throughput \in Nat \union {NoValue}
<1>1. Whole \in Int
  BY SMT DEF Whole
<1>2. /\ Latencies \subseteq Nat /\ ErrorRates \subseteq Nat
      /\ Availabilities \subseteq Nat /\ Throughputs \subseteq Nat
  BY ScoresAssumption
<1>3. {Whole - e : e \in ErrorRates} \subseteq Int
  BY <1>1, <1>2
<1>4. /\ m.latency \in Latencies \union {NoValue, NaN}
      /\ m.errors \in ErrorRates \union {NoValue}
      /\ m.up \in Availabilities \union {Whole - e : e \in ErrorRates} \union {NoValue}
      /\ m.throughput \in Throughputs \union {NoValue}
  BY DEF MetricsData
<1>5. Availabilities \subseteq Int
  BY <1>2
<1> QED
  BY <1>2, <1>3, <1>4, <1>5

LEMMA GradesAreNumbers ==
    ASSUME NEW m \in MetricsData
    PROVE  /\ ScoreErrorRate(m.errors) \in 0..50
           /\ ScoreAvailability(m.up) \in 0..50
           /\ Performance(m) \in 0..100
<1>1. ScoreErrorRate(m.errors) \in 0..50
  <2>1. CASE m.errors = NoValue
    BY <2>1 DEF ScoreErrorRate
  <2>2. CASE m.errors \in Nat
    <3>1. PICK e \in Nat : e = m.errors
      BY <2>2
    <3> QED
      BY <3>1, ErrorsGraded
  <2> QED
    BY <2>1, <2>2, Measured
<1>2. ScoreAvailability(m.up) \in 0..50
  <2>1. CASE m.up = NoValue
    BY <2>1 DEF ScoreAvailability
  <2>2. CASE m.up \in Nat
    <3>1. PICK a \in Nat : a = m.up
      BY <2>2
    <3> QED
      BY <3>1, AvailabilityGraded, SMT
  <2>3. CASE m.up \in Int /\ m.up < 0 /\ m.up # NoValue
    <3>1. PICK a \in Int : a = m.up /\ a < 0 /\ a # NoValue
      BY <2>3
    <3> DEFINE bounds == <<<<999000, 50>>, <<995000, 45>>, <<990000, 40>>, <<950000, 25>>>>
               steps == {i \in DOMAIN bounds : a >= bounds[i][1]}
    <3>2. steps = {}
      BY <3>1, SMT
    <3>3. ScoreAvailability(a) = 10
      BY <3>1, <3>2, SMT DEF ScoreAvailability, Graded, AtLeast
    <3> QED
      BY <3>1, <3>3, SMT
  <2> QED
    BY <2>1, <2>2, <2>3, Measured, SMT
<1>3. Performance(m) \in 0..100
  <2>1. CASE m.latency = NoValue
    BY <2>1 DEF Performance
  <2>2. CASE m.latency = NaN
    BY <2>2, ScoresAssumption DEF Performance, Graded
  <2>3. CASE m.latency \in Nat
    <3>1. PICK l \in Nat : l = m.latency
      BY <2>3
    <3> QED
      BY <3>1, LatencyGraded
  <2> QED
    BY <2>1, <2>2, <2>3, Measured
<1> QED
  BY <1>1, <1>2, <1>3

\* Better numbers never score lower.
LEMMA BetterScoresNoLower ==
    ASSUME NEW m \in MetricsData, NEW p \in MetricsData, NoWorse(m, p)
    PROVE  /\ ScoreErrorRate(m.errors) >= ScoreErrorRate(p.errors)
           /\ ScoreAvailability(m.up) >= ScoreAvailability(p.up)
           /\ Performance(m) >= Performance(p)
<1>1. ScoreErrorRate(m.errors) >= ScoreErrorRate(p.errors)
  <2>1. CASE m.errors = p.errors
    BY <2>1, GradesAreNumbers
  <2>2. CASE m.errors \in Nat /\ p.errors \in Nat /\ m.errors <= p.errors
    <3>1. PICK e \in Nat, f \in Nat : e = m.errors /\ f = p.errors /\ e <= f
      BY <2>2
    <3> QED
      BY <3>1, ErrorsGraded
  <2> QED
    BY <2>1, <2>2 DEF NoWorse
<1>2. ScoreAvailability(m.up) >= ScoreAvailability(p.up)
  <2>1. CASE m.up = p.up
    BY <2>1, GradesAreNumbers
  <2>2. CASE m.up \in Nat /\ p.up \in Nat /\ m.up >= p.up
    <3>1. PICK a \in Nat, b \in Nat : a = m.up /\ b = p.up /\ a >= b
      BY <2>2
    <3> QED
      BY <3>1, AvailabilityGraded, SMT
  <2> QED
    BY <2>1, <2>2 DEF NoWorse
<1>3. Performance(m) >= Performance(p)
  <2>1. CASE m.latency = p.latency
    <3>1. Performance(m) = Performance(p)
      BY <2>1 DEF Performance
    <3> QED
      BY <3>1, GradesAreNumbers
  <2>2. CASE m.latency \in Nat /\ p.latency \in Nat /\ m.latency <= p.latency
    <3>1. PICK l \in Nat, k \in Nat : l = m.latency /\ k = p.latency /\ l <= k
      BY <2>2
    <3>2. Performance(m) = IF l < 100 THEN 100 ELSE IF l < 200 THEN 90 ELSE
                           IF l < 500 THEN 70 ELSE IF l < 1000 THEN 50 ELSE 30
      BY <3>1, LatencyGraded
    <3>3. Performance(p) = IF k < 100 THEN 100 ELSE IF k < 200 THEN 90 ELSE
                           IF k < 500 THEN 70 ELSE IF k < 1000 THEN 50 ELSE 30
      BY <3>1, LatencyGraded
    <3> QED
      BY <3>1, <3>2, <3>3
  <2> QED
    BY <2>1, <2>2 DEF NoWorse
<1> QED
  BY <1>1, <1>2, <1>3

LEMMA OverallNoLower ==
    ASSUME NEW m \in MetricsData, NEW p \in MetricsData, NoWorse(m, p),
           NEW k \in Nat, NEW n \in Nat, k <= n
    PROVE  Overall(m, k) >= Overall(p, n)
<1>1. Observability(k) \in 0..100 /\ Observability(n) \in 0..100
        /\ Observability(k) >= Observability(n)
  BY GapsGraded
<1>2. PICK a \in Nat, b \in Nat : a = Reliability(m) /\ b = Reliability(p) /\ a >= b
  <2>1. /\ Reliability(m) \in Nat /\ Reliability(p) \in Nat
        /\ Reliability(m) >= Reliability(p)
    <3>1. PICK x \in 0..50, y \in 0..50 :
            x = ScoreErrorRate(m.errors) /\ y = ScoreErrorRate(p.errors) /\ x >= y
      BY GradesAreNumbers, BetterScoresNoLower
    <3>2. PICK v \in 0..50, w \in 0..50 :
            v = ScoreAvailability(m.up) /\ w = ScoreAvailability(p.up) /\ v >= w
      BY GradesAreNumbers, BetterScoresNoLower
    <3> QED
      BY <3>1, <3>2 DEF Reliability
  <2> QED
    BY <2>1
<1>3. PICK c \in Nat, d \in Nat : c = Performance(m) /\ d = Performance(p) /\ c >= d
  BY GradesAreNumbers, BetterScoresNoLower
<1>4. PICK e \in Nat, f \in Nat : e = Observability(k) /\ f = Observability(n) /\ e >= f
  BY <1>1
<1>5. (4 * a + 3 * c + 3 * e) \div 10 >= (4 * b + 3 * d + 3 * f) \div 10
  BY <1>2, <1>3, <1>4
<1> QED
  BY <1>2, <1>3, <1>4, <1>5 DEF Overall

\* No indicator of better numbers is lower; the throughput's, if it was measured.
LEMMA IndicatorsNoLower ==
    ASSUME NEW m \in MetricsData, NEW p \in MetricsData, NoWorse(m, p)
    PROVE  /\ AvailabilitySli(m) \in Int /\ AvailabilitySli(p) \in Int
           /\ AvailabilitySli(m) >= AvailabilitySli(p)
           /\ LatencySli(m) \in Int /\ LatencySli(p) \in Int /\ LatencySli(m) >= LatencySli(p)
           /\ ErrorRateSli(m) \in Int /\ ErrorRateSli(p) \in Int
           /\ ErrorRateSli(m) >= ErrorRateSli(p)
           /\ ThroughputSli(m) \in Int /\ ThroughputSli(p) \in Int
           /\ m.throughput \notin {NoValue, 0} => ThroughputSli(m) >= ThroughputSli(p)
<1>1. \A q \in MetricsData : /\ AvailabilitySli(q) \in Int /\ LatencySli(q) \in Int
                             /\ ErrorRateSli(q) \in Int /\ ThroughputSli(q) \in {0, 100}
  <2> SUFFICES ASSUME NEW q \in MetricsData
               PROVE  /\ AvailabilitySli(q) \in Int /\ LatencySli(q) \in Int
                      /\ ErrorRateSli(q) \in Int /\ ThroughputSli(q) \in {0, 100}
    OBVIOUS
  <2>1. AvailabilitySli(q) \in Int
    BY Measured, SMT DEF AvailabilitySli
  <2>2. LatencySli(q) \in Int
    BY Measured, SMT DEF LatencySli
  <2>3. ErrorRateSli(q) \in Int
    BY Measured, SMT DEF ErrorRateSli
  <2> QED
    BY <2>1, <2>2, <2>3 DEF ThroughputSli
<1>2. AvailabilitySli(m) >= AvailabilitySli(p)
  <2>1. CASE m.up = p.up
    <3>1. AvailabilitySli(m) = AvailabilitySli(p)
      BY <2>1, SMT DEF AvailabilitySli
    <3> QED
      BY <1>1, <3>1
  <2>2. CASE m.up \in Nat /\ p.up \in Nat /\ m.up >= p.up
    <3>1. PICK a \in Nat, b \in Nat : a = m.up /\ b = p.up /\ a >= b
      BY <2>2
    <3>2. a # NoValue /\ b # NoValue
      BY ScoresAssumption
    <3> QED
      BY <3>1, <3>2, SMT DEF AvailabilitySli
  <2> QED
    BY <2>1, <2>2 DEF NoWorse
<1>3. LatencySli(m) >= LatencySli(p)
  <2>1. CASE m.latency = p.latency
    <3>1. LatencySli(m) = LatencySli(p)
      BY <2>1 DEF LatencySli
    <3> QED
      BY <1>1, <3>1
  <2>2. CASE m.latency \in Nat /\ p.latency \in Nat /\ m.latency <= p.latency
    <3>1. PICK a \in Nat, b \in Nat : a = m.latency /\ b = p.latency /\ a <= b
      BY <2>2
    <3>2. a \notin {NoValue, NaN} /\ b \notin {NoValue, NaN}
      BY ScoresAssumption
    <3> QED
      BY <3>1, <3>2, SMT DEF LatencySli
  <2> QED
    BY <2>1, <2>2 DEF NoWorse
<1>4. ErrorRateSli(m) >= ErrorRateSli(p)
  <2>1. CASE m.errors = p.errors
    <3>1. ErrorRateSli(m) = ErrorRateSli(p)
      BY <2>1 DEF ErrorRateSli
    <3> QED
      BY <1>1, <3>1
  <2>2. CASE m.errors \in Nat /\ p.errors \in Nat /\ m.errors <= p.errors
    <3>1. PICK a \in Nat, b \in Nat : a = m.errors /\ b = p.errors /\ a <= b
      BY <2>2
    <3>2. a # NoValue /\ b # NoValue
      BY ScoresAssumption
    <3> QED
      BY <3>1, <3>2 DEF ErrorRateSli
  <2> QED
    BY <2>1, <2>2 DEF NoWorse
<1>5. m.throughput \notin {NoValue, 0} => ThroughputSli(m) >= ThroughputSli(p)
  BY <1>1 DEF ThroughputSli
<1> QED
  BY <1>1, <1>2, <1>3, <1>4, <1>5

LEMMA NoTrendDown ==
    ASSUME NEW m \in MetricsData, NEW p \in MetricsData, NoWorse(m, p)
    PROVE  "DOWN" \notin Trends(m, p)
<1> SUFFICES ASSUME NEW k \in DOMAIN Slis(m)
                              \ (IF m.throughput \in {NoValue, 0} THEN {"throughput"} ELSE {})
             PROVE  Trend(Slis(m)[k], Slis(p)[k]) # "DOWN"
  BY DEF Trends
<1>1. /\ DOMAIN Slis(m) = {"availability", "latency", "errors", "throughput"}
      /\ Slis(m).availability = AvailabilitySli(m) /\ Slis(p).availability = AvailabilitySli(p)
      /\ Slis(m).latency = LatencySli(m) /\ Slis(p).latency = LatencySli(p)
      /\ Slis(m).errors = ErrorRateSli(m) /\ Slis(p).errors = ErrorRateSli(p)
      /\ Slis(m).throughput = ThroughputSli(m) /\ Slis(p).throughput = ThroughputSli(p)
  BY DEF Slis
<1>2. k = "throughput" => m.throughput \notin {NoValue, 0}
  OBVIOUS
<1>3. k \in {"availability", "latency", "errors", "throughput"}
  BY <1>1
<1>4. Slis(m)[k] \in Int /\ Slis(p)[k] \in Int /\ Slis(m)[k] >= Slis(p)[k]
  BY <1>1, <1>2, <1>3, IndicatorsNoLower
<1>5. PICK a \in Int, b \in Int : a = Slis(m)[k] /\ b = Slis(p)[k] /\ a >= b
  BY <1>4
<1> QED
  BY <1>5 DEF Trend

LEMMA ScoresHold == ScoresInv => NoWorseNoLower /\ ScoresTypeOK
<1> SUFFICES ASSUME ScoresInv
             PROVE  NoWorseNoLower /\ ScoresTypeOK
  OBVIOUS
<1>1. NoWorseNoLower
  <2> SUFFICES ASSUME NEW p \in Range(previous), stage = "scored",
                      NoWorse(metrics, p.metrics), counted <= p.gaps
               PROVE  /\ Overall(metrics, counted) >= Overall(p.metrics, p.gaps)
                      /\ "DOWN" \notin Trends(metrics, p.metrics)
    BY DEF NoWorseNoLower
  <2>1. p \in SavedReviews
    BY DEF ScoresInv, Range
  <2>2. p.metrics \in MetricsData /\ metrics \in MetricsData /\ counted \in Nat /\ p.gaps \in Nat
    BY <2>1, ScoresAssumption DEF ScoresInv, SavedReviews
  <2> QED
    BY <2>2, OverallNoLower, NoTrendDown
<1>2. ScoresTypeOK
  BY DEF ScoresInv, ScoresTypeOK, SavedReviews
<1> QED
  BY <1>1, <1>2

LEMMA ScoresStart == ScoresInit => ScoresInv
<1> SUFFICES ASSUME ScoresInit
             PROVE  ScoresInv
  OBVIOUS
<1>1. NoMetrics \in MetricsData
  BY DEF NoMetrics, MetricsData
<1>2. Len(Providers) \in Nat
  BY ScoresAssumption
<1> QED
  BY <1>1, <1>2, ScoresAssumption DEF ScoresInit, ScoresInv

\* What a provider says is a measurement.
LEMMA ReadingsAreMetrics ==
    ASSUME NEW p \in ProviderNames, NEW m \in Readings(p)
    PROVE  m \in MetricsData
<1>1. GrafanaMetrics \subseteq MetricsData
  BY DEF GrafanaMetrics, MetricsData
<1>2. DatadogMetrics \subseteq MetricsData
  <2> SUFFICES ASSUME NEW l \in Latencies \union {NoValue}, NEW e \in ErrorRates \union {NoValue},
                      NEW t \in Throughputs \union {NoValue}
               PROVE  [latency |-> l, errors |-> e,
                       up |-> IF e = NoValue THEN NoValue ELSE Whole - e, throughput |-> t]
                          \in MetricsData
    BY DEF DatadogMetrics
  <2>1. PICK u : u = IF e = NoValue THEN NoValue ELSE Whole - e
    OBVIOUS
  <2>2. u \in Availabilities \union {Whole - d : d \in ErrorRates} \union {NoValue}
    BY <2>1
  <2> QED
    BY <2>1, <2>2 DEF MetricsData
<1> QED
  BY <1>1, <1>2 DEF ProviderNames, Readings, NewRelicMetrics, CloudWatchMetrics

LEMMA ScoresStep == ScoresInv /\ [ScoresNext]_scoreVars => ScoresInv'
<1> SUFFICES ASSUME ScoresInv, [ScoresNext]_scoreVars
             PROVE  ScoresInv'
  OBVIOUS
<1>1. Len(Providers) \in Nat /\ Len(Providers) > 0 /\ MaxLogs \in Nat \ {0}
  BY ScoresAssumption
<1>2. \A i \in 1..Len(Providers) : Providers[i] \in ProviderNames
  BY ScoresAssumption DEF ProviderNames
<1>3. NoMetrics \in MetricsData
  BY DEF NoMetrics, MetricsData
<1>4. ASSUME NEW found \in SUBSET Range(Providers), StartCollecting(found)
      PROVE  ScoresInv'
  <2>1. /\ stage' = "logs" /\ healthy' = found /\ next' = 1 /\ logs' = 0
        /\ metrics' = NoMetrics /\ counted' = 0
        /\ previous' = IF stage = "idle" THEN previous
                       ELSE <<[metrics |-> metrics, gaps |-> counted]>>
        /\ stage \in {"idle", "scored"}
    BY <1>4 DEF StartCollecting
  <2>2. previous' \in Seq(SavedReviews) /\ Len(previous') <= 1
    <3>1. CASE stage = "idle"
      BY <3>1, <2>1 DEF ScoresInv
    <3>2. CASE stage = "scored"
      <4>1. PICK q : q = [metrics |-> metrics, gaps |-> counted]
        OBVIOUS
      <4>2. q \in SavedReviews
        BY <3>2, <4>1 DEF ScoresInv, SavedReviews
      <4>3. previous' = <<q>>
        BY <3>2, <2>1, <4>1
      <4> QED
        BY <4>2, <4>3
    <3> QED
      BY <2>1, <3>1, <3>2
  <2> QED
    BY <1>1, <1>3, <2>1, <2>2 DEF ScoresInv
<1>5. ASSUME NEW n \in 0..MaxLogs, CollectLogs(n)
      PROVE  ScoresInv'
  <2>1. /\ stage = "logs" /\ (n = 0 \/ logs < MaxLogs)
        /\ logs' = logs + n
        /\ healthy' = healthy /\ metrics' = metrics /\ counted' = counted /\ previous' = previous
    BY <1>5 DEF CollectLogs, WantsLogs
  <2>2. logs' \in 0..(2 * MaxLogs - 1)
    BY <1>1, <2>1 DEF ScoresInv
  <2>3. /\ stage' \in {"logs", "metrics"}
        /\ next' \in 1..(Len(Providers) + 1)
        /\ stage' = "logs" => next' <= Len(Providers)
    <3>1. next \in 1..Len(Providers)
      BY <1>1, <1>5 DEF ScoresInv, CollectLogs
    <3>2. CASE next = Len(Providers)
      BY <1>1, <1>5, <3>2 DEF CollectLogs, Onwards, ToMetrics
    <3>3. CASE next # Len(Providers)
      BY <1>1, <1>5, <3>1, <3>3 DEF CollectLogs, Onwards
    <3> QED
      BY <3>2, <3>3
  <2> QED
    BY <2>1, <2>2, <2>3 DEF ScoresInv
<1>6. ASSUME stage = "metrics", next <= Len(Providers),
             NEW reading \in Readings(Providers[next]), CollectMetrics(reading)
      PROVE  ScoresInv'
  <2>1. /\ metrics' = [k \in DOMAIN metrics |-> Or(metrics[k], reading[k])]
        /\ next' = next + 1
        /\ stage' = stage /\ healthy' = healthy /\ logs' = logs /\ counted' = counted
        /\ previous' = previous
    BY <1>6 DEF CollectMetrics
  <2>2. next' \in 1..(Len(Providers) + 1)
    BY <1>1, <1>6, <2>1 DEF ScoresInv
  <2>3. reading \in MetricsData
    BY <1>1, <1>2, <1>6, ReadingsAreMetrics DEF ScoresInv
  <2>4. metrics' \in MetricsData
    <3>1. \A a, b : Or(a, b) \in {a, b}
      BY DEF Or
    <3>2. metrics' = [latency |-> Or(metrics.latency, reading.latency),
                      errors |-> Or(metrics.errors, reading.errors),
                      up |-> Or(metrics.up, reading.up),
                      throughput |-> Or(metrics.throughput, reading.throughput)]
      BY <2>1 DEF ScoresInv, MetricsData
    <3> QED
      BY <2>3, <3>1, <3>2 DEF ScoresInv, MetricsData
  <2> QED
    BY <1>6, <2>1, <2>2, <2>4 DEF ScoresInv
<1>7. ASSUME NEW n \in GapCounts, Score(n)
      PROVE  ScoresInv'
  BY <1>7 DEF Score, ScoresInv
<1>8. CASE UNCHANGED scoreVars
  BY <1>8 DEF scoreVars, ScoresInv
<1> QED
  BY <1>4, <1>5, <1>6, <1>7, <1>8 DEF ScoresNext

LEMMA ScoresInvariance == ScoresSpec => []ScoresInv
BY ScoresStart, ScoresStep, PTL DEF ScoresSpec

-----------------------------------------------------------------------------
(* The rules. *)

\* The facts of a file, whatever the parser has extracted.
FactsInv == facts \in Seq(Candidates)

Functions_ == Facts("function")
Around(f) == {g \in Facts("function") : g.from <= f.from /\ g.to >= f.to}

LEMMA FactsInvariance == FactsSpec => []FactsInv
<1>1. FactsInit => FactsInv
  BY DEF FactsInit, FactsInv
<1>2. FactsInv /\ [FactsNext]_factVars => FactsInv'
  BY DEF FactsInv, FactsNext, Extract, factVars
<1> QED
  BY <1>1, <1>2, PTL DEF FactsSpec

LEMMA ExtractedIsFact ==
    ASSUME FactsInv
    PROVE  /\ \A k \in DOMAIN facts : IsFact(facts[k])
           /\ \A t : \A f \in Facts(t) : IsFact(f) /\ f.type = t
<1>1. \A k \in DOMAIN facts : facts[k] \in Candidates
  BY DEF FactsInv
<1> QED
  BY <1>1, GapRulesAssumption DEF Facts

\* The first of some facts is one of them.
LEMMA FirstIsOne ==
    ASSUME FactsInv, NEW S, S # {}, \A f \in S : \E k \in DOMAIN facts : facts[k] = f
    PROVE  FirstOf(S) \in S
<1> DEFINE T == {k \in DOMAIN facts : facts[k] \in S}
<1>1. DOMAIN facts = 1..Len(facts) /\ Len(facts) \in Nat
  BY DEF FactsInv
<1>2. T \subseteq Nat /\ T # {}
  BY <1>1
<1>3. PICK k \in T : \A j \in T : ~(<<j, k>> \in OpToRel(<, Nat))
  BY <1>2, NatLessThanWellFounded, WFMin
<1>4. \A j \in T : ~(j < k)
  BY <1>2, <1>3 DEF OpToRel
<1>5. \A j \in 1..(k - 1) : facts[j] \notin S
  BY <1>1, <1>4
<1>6. \E i \in DOMAIN facts : facts[i] \in S /\ \A j \in 1..(i - 1) : facts[j] \notin S
  BY <1>5
<1> QED
  BY <1>6 DEF FirstOf

LEMMA InRange ==
    ASSUME FactsInv
    PROVE  \A f \in Facts("function") : \A t : FactsInRange(t, f) = In(t, f)
<1> SUFFICES ASSUME NEW f \in Facts("function"), NEW t, NEW g \in Facts(t)
             PROVE  g.from >= f.from /\ g.to <= f.to <=> f.from <= g.from /\ g.to <= f.to
  BY DEF FactsInRange, In
<1> QED
  BY ExtractedIsFact DEF IsFact

LEMMA AroundIsFunction ==
    ASSUME FactsInv, NEW t, NEW s \in Facts(t), NEW f
    PROVE  f \in Around(s) <=> f \in Facts("function") /\ s \in In(t, f)
<1>1. CASE f \in Facts("function")
  <2>1. f.to >= s.to <=> s.to <= f.to
    BY <1>1, ExtractedIsFact DEF IsFact
  <2> QED
    BY <1>1, <2>1 DEF Around, In
<1> QED
  BY <1>1 DEF Around

LEMMA EnclosingIsAround ==
    ASSUME FactsInv, NEW s
    PROVE  /\ GetEnclosingFunction(s) \subseteq Around(s)
           /\ Around(s) # {} => GetEnclosingFunction(s) # {}
<1>1. GetEnclosingFunction(s) = IF Around(s) = {} THEN {} ELSE {FirstOf(Around(s))}
  BY DEF GetEnclosingFunction, FirstIfAny, Around
<1>2. \A f \in Around(s) : \E k \in DOMAIN facts : facts[k] = f
  BY DEF Around, Facts
<1>3. Around(s) # {} => FirstOf(Around(s)) \in Around(s)
  BY <1>2, FirstIsOne
<1> QED
  BY <1>1, <1>3

\* The functions around the first of some facts are around one of these.
LEMMA AroundFirstIsAround ==
    ASSUME FactsInv, NEW t, NEW f \in AroundFirst(Facts(t))
    PROVE  f \in Facts("function") /\ In(t, f) # {}
<1> DEFINE named(n) == {s \in Facts(t) : \E g \in GetEnclosingFunction(s) : g.of = n}
           names == {g.of : g \in UNION {GetEnclosingFunction(s) : s \in Facts(t)}}
<1>1. PICK n \in names : f \in GetEnclosingFunction(FirstOf(named(n)))
  BY DEF AroundFirst
<1>2. named(n) # {}
  OBVIOUS
<1>3. \A s \in named(n) : \E k \in DOMAIN facts : facts[k] = s
  BY DEF Facts
<1>4. FirstOf(named(n)) \in Facts(t)
  BY <1>2, <1>3, FirstIsOne
<1>5. f \in Around(FirstOf(named(n)))
  BY <1>1, EnclosingIsAround
<1> QED
  BY <1>4, <1>5, AroundIsFunction

\* A rule reports its own gaps, of what it was given.
LEMMA GapsOfRules ==
    /\ \A g \in RuleSilentException : g.rule = "LOG_001"
    /\ \A g \in RuleHttpHandlerNoLogging : g.rule = "LOG_002"
    /\ \A g \in RuleExternalIoNoLogging : g.rule = "LOG_003"
    /\ \A g \in RuleErrorPathNoErrorLog : g.rule = "LOG_004"
    /\ \A g \in RuleLargeFunctionNoLogging : g.rule = "LOG_005"
    /\ \A g \in RuleHttpHandlerNoMetrics : g.rule = "MET_001"
    /\ \A g \in RuleExternalIoNoLatency : g.rule = "MET_002"
    /\ \A g \in RuleNoBusinessMetrics : g.rule = "MET_003"
    /\ \A g \in RuleErrorNoCounter : g.rule = "MET_004"
<1>1. \A rule, names : Gap(rule, names).rule = rule
  BY DEF Gap
<1>2. /\ \A g \in RuleSilentException : g.rule = "LOG_001"
      /\ \A g \in RuleHttpHandlerNoLogging : g.rule = "LOG_002"
      /\ \A g \in RuleExternalIoNoLogging : g.rule = "LOG_003"
  BY <1>1 DEF RuleSilentException, RuleHttpHandlerNoLogging, RuleExternalIoNoLogging
<1>3. \A g \in RuleErrorPathNoErrorLog : g.rule = "LOG_004"
  <2>1. \A g \in RuleErrorPathNoErrorLog : \E names : g = Gap("LOG_004", names)
    BY DEF RuleErrorPathNoErrorLog
  <2> QED
    BY <1>1, <2>1
<1>4. \A g \in RuleErrorNoCounter : g.rule = "MET_004"
  <2>1. \A g \in RuleErrorNoCounter : \E names : g = Gap("MET_004", names)
    BY DEF RuleErrorNoCounter
  <2> QED
    BY <1>1, <2>1
<1>5. \A g \in RuleLargeFunctionNoLogging : g.rule = "LOG_005"
  BY <1>1 DEF RuleLargeFunctionNoLogging
<1>6. \A g \in RuleHttpHandlerNoMetrics : g.rule = "MET_001"
  BY <1>1 DEF RuleHttpHandlerNoMetrics
<1>7. \A g \in RuleExternalIoNoLatency : g.rule = "MET_002"
  BY <1>1 DEF RuleExternalIoNoLatency
<1>8. \A g \in RuleNoBusinessMetrics : g.rule = "MET_003"
  BY <1>1 DEF RuleNoBusinessMetrics
<1> QED
  BY <1>2, <1>3, <1>4, <1>5, <1>6, <1>7, <1>8

LEMMA GapNames == \A rule, names : Gap(rule, names).of = names
BY DEF Gap

LEMMA EveryGapHasALack == FactsInv => NoGapOutOfNothing
<1> SUFFICES ASSUME FactsInv, NEW g \in Evaluate
             PROVE  /\ g.rule \in {"LOG_002", "LOG_003", "LOG_005"} =>
                         \E f \in Facts("function") : {f.of} = g.of /\ Silent(f)
                    /\ g.rule = "MET_002" =>
                         \E f \in Facts("function") : {f.of} = g.of /\ Unmeasured(f)
                    /\ g.rule \in {"MET_001", "MET_003"} => Facts("metrics_call") = {}
  BY DEF NoGapOutOfNothing
<1>1. CASE g.rule = "LOG_002"
  <2>1. g \in RuleHttpHandlerNoLogging
    BY <1>1, GapsOfRules DEF Evaluate, LoggingGaps, MetricsGaps
  <2>2. PICK h \in Handlers : /\ g = Gap("LOG_002", {h.of})
                              /\ \E f \in FirstIfAny({d \in Facts("function") : d.of = h.of}) :
                                    ~HasFactInRange("logging_call", f)
    BY <2>1 DEF RuleHttpHandlerNoLogging
  <2> DEFINE D == {d \in Facts("function") : d.of = h.of}
  <2>3. \A d \in D : \E k \in DOMAIN facts : facts[k] = d
    BY DEF Facts
  <2>4. D # {} /\ ~HasFactInRange("logging_call", FirstOf(D))
    BY <2>2 DEF FirstIfAny
  <2>5. FirstOf(D) \in D
    BY <2>3, <2>4, FirstIsOne
  <2>6. Silent(FirstOf(D))
    BY <2>4, <2>5, InRange DEF Silent, HasFactInRange
  <2> QED
    BY <1>1, <2>2, <2>5, <2>6, GapNames
<1>2. CASE g.rule = "LOG_003"
  <2>1. g \in RuleExternalIoNoLogging
    BY <1>2, GapsOfRules DEF Evaluate, LoggingGaps, MetricsGaps
  <2>2. PICK f \in AroundFirst(Facts("external_io")) :
            g = Gap("LOG_003", {f.of}) /\ ~HasFactInRange("logging_call", f)
    BY <2>1 DEF RuleExternalIoNoLogging
  <2>3. f \in Facts("function") /\ Silent(f)
    BY <2>2, AroundFirstIsAround, InRange DEF Silent, HasFactInRange
  <2> QED
    BY <1>2, <2>2, <2>3, GapNames
<1>3. CASE g.rule = "LOG_005"
  <2>1. g \in RuleLargeFunctionNoLogging
    BY <1>3, GapsOfRules DEF Evaluate, LoggingGaps, MetricsGaps
  <2>2. PICK f \in Facts("function") :
            g = Gap("LOG_005", {f.of}) /\ ~HasFactInRange("logging_call", f)
    BY <2>1 DEF RuleLargeFunctionNoLogging
  <2> QED
    BY <1>3, <2>2, GapNames, InRange DEF Silent, HasFactInRange
<1>4. CASE g.rule = "MET_002"
  <2>1. g \in RuleExternalIoNoLatency
    BY <1>4, GapsOfRules DEF Evaluate, LoggingGaps, MetricsGaps
  <2>2. PICK f \in AroundFirst(Facts("external_io")) :
            g = Gap("MET_002", {f.of}) /\ ~HasFactInRange("metrics_call", f)
    BY <2>1 DEF RuleExternalIoNoLatency
  <2>3. f \in Facts("function") /\ Unmeasured(f)
    BY <2>2, AroundFirstIsAround, InRange DEF Unmeasured, HasFactInRange
  <2> QED
    BY <1>4, <2>2, <2>3, GapNames
<1>5. CASE g.rule \in {"MET_001", "MET_003"}
  <2>1. g \in RuleHttpHandlerNoMetrics \/ g \in RuleNoBusinessMetrics
    BY <1>5, GapsOfRules DEF Evaluate, LoggingGaps, MetricsGaps
  <2> QED
    BY <1>5, <2>1 DEF RuleHttpHandlerNoMetrics, RuleNoBusinessMetrics
<1> QED
  BY <1>1, <1>2, <1>3, <1>4, <1>5

\* In a plain file one function at most is around a fact, and is found.
LEMMA OneIsAround ==
    ASSUME FactsInv, Plain, NEW t, NEW s \in Facts(t)
    PROVE  /\ \A f, g \in Around(s) : f = g
           /\ GetEnclosingFunction(s) = Around(s)
<1>1. ASSUME NEW f \in Around(s), NEW g \in Around(s), f # g
      PROVE  FALSE
  <2>1. /\ f \in Facts("function") /\ g \in Facts("function")
        /\ f.from <= s.from /\ f.to >= s.to /\ g.from <= s.from /\ g.to >= s.to
    BY DEF Around
  <2>2. f.to < g.from \/ g.to < f.from
    BY <1>1, <2>1 DEF Plain
  <2>3. IsFact(f) /\ IsFact(g) /\ IsFact(s)
    BY <2>1, ExtractedIsFact
  <2> QED
    BY <2>1, <2>2, <2>3 DEF IsFact
<1>2. GetEnclosingFunction(s) = Around(s)
  BY <1>1, EnclosingIsAround
<1> QED
  BY <1>1, <1>2

LEMMA AroundFirstOfAll ==
    ASSUME FactsInv, Plain, NEW t, NEW f
    PROVE  f \in AroundFirst(Facts(t)) <=> f \in Facts("function") /\ In(t, f) # {}
<1> DEFINE named(n) == {s \in Facts(t) : \E g \in GetEnclosingFunction(s) : g.of = n}
           names == {g.of : g \in UNION {GetEnclosingFunction(s) : s \in Facts(t)}}
<1>1. ASSUME f \in Facts("function"), In(t, f) # {}
      PROVE  f \in AroundFirst(Facts(t))
  <2>1. PICK s \in Facts(t) : s \in In(t, f)
    BY <1>1 DEF In
  <2>2. f \in GetEnclosingFunction(s)
    BY <1>1, <2>1, AroundIsFunction, OneIsAround
  <2>3. f.of \in names /\ s \in named(f.of)
    BY <2>2
  <2>4. \A q \in named(f.of) : \E k \in DOMAIN facts : facts[k] = q
    BY DEF Facts
  <2>5. FirstOf(named(f.of)) \in named(f.of)
    BY <2>3, <2>4, FirstIsOne
  <2>6. PICK g \in GetEnclosingFunction(FirstOf(named(f.of))) : g.of = f.of
    BY <2>5
  <2>7. g \in Facts("function")
    BY <2>6, EnclosingIsAround DEF Around
  <2>8. g = f
    BY <1>1, <2>6, <2>7 DEF Plain
  <2> QED
    BY <2>3, <2>6, <2>8 DEF AroundFirst
<1> QED
  BY <1>1, AroundFirstIsAround

\* A try in a function of a plain file bears its name.
LEMMA TryOfFunction ==
    ASSUME FactsInv, Plain, NEW t \in Facts("try_except")
    PROVE  /\ t.of = "<module>" => Around(t) = {}
           /\ t.of # "<module>" => \E f \in Around(t) : f.of = t.of
<1>1. {f \in Facts("function") : f.from <= t.from /\ t.to <= f.to} = Around(t)
  <2> SUFFICES ASSUME NEW f \in Facts("function")
               PROVE  t.to <= f.to <=> f.to >= t.to
    BY DEF Around
  <2> QED
    BY ExtractedIsFact DEF IsFact
<1> QED
  BY <1>1 DEF Plain

LEMMA AroundFirstTries ==
    ASSUME FactsInv, Plain, NEW f
    PROVE  /\ f \in AroundFirstTry <=> f \in Facts("function") /\ In("try_except", f) # {}
           /\ f \in AroundFirstTry => NameOfFirstTry(f) = {f.of}
<1> DEFINE triesOf(n) == {t \in Facts("try_except") : t.of = n}
           names == {t.of : t \in Facts("try_except")} \ {"<module>"}
<1>1. ASSUME NEW n \in names
      PROVE  /\ FirstOf(triesOf(n)) \in Facts("try_except") /\ FirstOf(triesOf(n)).of = n
             /\ \A g \in GetEnclosingFunction(FirstOf(triesOf(n))) :
                   g \in Facts("function") /\ g.of = n /\ In("try_except", g) # {}
  <2>1. triesOf(n) # {}
    OBVIOUS
  <2>2. \A t \in triesOf(n) : \E k \in DOMAIN facts : facts[k] = t
    BY DEF Facts
  <2>3. PICK t \in Facts("try_except") : t = FirstOf(triesOf(n)) /\ t.of = n
    BY <2>1, <2>2, FirstIsOne
  <2>4. GetEnclosingFunction(t) = Around(t) /\ \A g, h \in Around(t) : g = h
    BY OneIsAround
  <2>5. \E g \in Around(t) : g.of = n
    BY <2>3, TryOfFunction
  <2>6. \A g \in Around(t) : g \in Facts("function") /\ t \in In("try_except", g)
    BY AroundIsFunction
  <2> QED
    BY <2>3, <2>4, <2>5, <2>6
<1>2. ASSUME f \in Facts("function"), In("try_except", f) # {}
      PROVE  f.of \in names /\ f \in GetEnclosingFunction(FirstOf(triesOf(f.of)))
  <2>1. PICK t \in Facts("try_except") : t \in In("try_except", f)
    BY <1>2 DEF In
  <2>2. f \in Around(t)
    BY <1>2, <2>1, AroundIsFunction
  <2>3. t.of = f.of /\ f.of # "<module>"
    BY <2>2, TryOfFunction, OneIsAround
  <2>4. f.of \in names
    BY <2>3
  <2>5. PICK q \in Facts("try_except") : q = FirstOf(triesOf(f.of)) /\ q.of = f.of
    BY <1>1, <2>4
  <2>6. PICK g \in Around(q) : g.of = f.of
    BY <2>3, <2>5, TryOfFunction
  <2>7. g = f
    BY <1>2, <2>6 DEF Plain, Around
  <2>8. f \in GetEnclosingFunction(q)
    BY <2>6, <2>7, OneIsAround
  <2> QED
    BY <2>4, <2>5, <2>8
<1>3. AroundFirstTry = UNION {GetEnclosingFunction(FirstOf(triesOf(n))) : n \in names}
  BY DEF AroundFirstTry
<1>4. NameOfFirstTry(f) = {n \in names : f \in GetEnclosingFunction(FirstOf(triesOf(n)))}
  BY DEF NameOfFirstTry
<1> HIDE DEF triesOf, names
<1>5. f \in AroundFirstTry <=> \E n \in names : f \in GetEnclosingFunction(FirstOf(triesOf(n)))
  BY <1>3
<1>6. f \in AroundFirstTry <=> f \in Facts("function") /\ In("try_except", f) # {}
  BY <1>1, <1>2, <1>5
<1>7. f \in AroundFirstTry => \A n : n \in NameOfFirstTry(f) <=> n = f.of
  BY <1>1, <1>2, <1>4, <1>6
<1> QED
  BY <1>6, <1>7

\* What each rule finds in a plain file.
LEMMA WhatRulesFind ==
    ASSUME FactsInv, Plain, NEW x
    PROVE  /\ x \in RuleHttpHandlerNoLogging <=>
                \E f \in Facts("function") : /\ x = Gap("LOG_002", {f.of}) /\ Silent(f)
                                             /\ \E h \in Handlers : h.of = f.of
           /\ x \in RuleExternalIoNoLogging <=>
                \E f \in Facts("function") : /\ x = Gap("LOG_003", {f.of}) /\ Silent(f)
                                             /\ In("external_io", f) # {}
           /\ x \in RuleErrorPathNoErrorLog <=>
                \E f \in Facts("function") : /\ x = Gap("LOG_004", {f.of})
                                             /\ In("try_except", f) # {}
                                             /\ \A l \in In("logging_call", f) :
                                                    l.mark \notin ErrorLevels
           /\ x \in RuleLargeFunctionNoLogging <=>
                \E f \in Facts("function") : /\ x = Gap("LOG_005", {f.of}) /\ Silent(f)
                                             /\ f.to - f.from >= MinLines
           /\ x \in RuleExternalIoNoLatency <=>
                \E f \in Facts("function") : /\ x = Gap("MET_002", {f.of}) /\ Unmeasured(f)
                                             /\ In("external_io", f) # {}
           /\ x \in RuleErrorNoCounter <=>
                \E f \in Facts("function") : /\ x = Gap("MET_004", {f.of}) /\ Unmeasured(f)
                                             /\ In("try_except", f) # {}
<1>1. \A f \in Facts("function") :
          /\ Silent(f) <=> ~HasFactInRange("logging_call", f)
          /\ Unmeasured(f) <=> ~HasFactInRange("metrics_call", f)
  BY InRange DEF Silent, Unmeasured, HasFactInRange
<1>2. ASSUME NEW n
      PROVE  FirstIfAny({d \in Facts("function") : d.of = n})
                = {d \in Facts("function") : d.of = n}
  <2> DEFINE D == {d \in Facts("function") : d.of = n}
  <2>1. \A d \in D : \E k \in DOMAIN facts : facts[k] = d
    BY DEF Facts
  <2>2. \A d, e \in D : d = e
    BY DEF Plain
  <2>3. D # {} => FirstOf(D) \in D
    BY <2>1, FirstIsOne
  <2> HIDE DEF D
  <2>4. FirstIfAny(D) = D
    BY <2>2, <2>3 DEF FirstIfAny
  <2> QED
    BY <2>4 DEF D
<1>3. x \in RuleHttpHandlerNoLogging <=>
        \E f \in Facts("function") : /\ x = Gap("LOG_002", {f.of}) /\ Silent(f)
                                     /\ \E h \in Handlers : h.of = f.of
  <2>1. x \in RuleHttpHandlerNoLogging <=>
          \E h \in Handlers : /\ x = Gap("LOG_002", {h.of})
                              /\ \E f \in {d \in Facts("function") : d.of = h.of} :
                                    ~HasFactInRange("logging_call", f)
    BY <1>2 DEF RuleHttpHandlerNoLogging
  <2> QED
    BY <1>1, <2>1
<1>4. x \in RuleExternalIoNoLogging <=>
        \E f \in Facts("function") : /\ x = Gap("LOG_003", {f.of}) /\ Silent(f)
                                     /\ In("external_io", f) # {}
  <2>1. x \in RuleExternalIoNoLogging <=>
          \E f \in AroundFirst(Facts("external_io")) :
             x = Gap("LOG_003", {f.of}) /\ ~HasFactInRange("logging_call", f)
    BY DEF RuleExternalIoNoLogging
  <2> QED
    BY <1>1, <2>1, AroundFirstOfAll
<1>5. x \in RuleErrorPathNoErrorLog <=>
        \E f \in Facts("function") : /\ x = Gap("LOG_004", {f.of})
                                     /\ In("try_except", f) # {}
                                     /\ \A l \in In("logging_call", f) : l.mark \notin ErrorLevels
  <2>1. x \in RuleErrorPathNoErrorLog <=>
          \E f \in AroundFirstTry : /\ \A l \in FactsInRange("logging_call", f) :
                                          l.mark \notin ErrorLevels
                                    /\ \E n \in NameOfFirstTry(f) : x = Gap("LOG_004", {n})
    <3> DEFINE group(f) == {Gap("LOG_004", {n}) : n \in NameOfFirstTry(f)}
               lacking == {g \in AroundFirstTry : \A l \in FactsInRange("logging_call", g) :
                                                   l.mark \notin ErrorLevels}
    <3>1. RuleErrorPathNoErrorLog = UNION {group(f) : f \in lacking}
      BY DEF RuleErrorPathNoErrorLog
    <3>2. \A f : x \in group(f) <=> \E n \in NameOfFirstTry(f) : x = Gap("LOG_004", {n})
      OBVIOUS
    <3>3. \A f : f \in lacking <=> f \in AroundFirstTry /\ \A l \in FactsInRange("logging_call", f) :
                                                       l.mark \notin ErrorLevels
      OBVIOUS
    <3> HIDE DEF group, lacking
    <3>4. x \in RuleErrorPathNoErrorLog <=> \E f \in lacking : x \in group(f)
      BY <3>1
    <3> QED
      BY <3>2, <3>3, <3>4
  <2>2. \A f \in AroundFirstTry :
          /\ NameOfFirstTry(f) = {f.of}
          /\ FactsInRange("logging_call", f) = In("logging_call", f)
    BY AroundFirstTries, InRange
  <2>3. x \in RuleErrorPathNoErrorLog <=>
          \E f \in AroundFirstTry : /\ \A l \in In("logging_call", f) : l.mark \notin ErrorLevels
                                    /\ x = Gap("LOG_004", {f.of})
    BY <2>1, <2>2
  <2> QED
    BY <2>3, AroundFirstTries
<1>6. x \in RuleLargeFunctionNoLogging <=>
        \E f \in Facts("function") : /\ x = Gap("LOG_005", {f.of}) /\ Silent(f)
                                     /\ f.to - f.from >= MinLines
  <2>1. x \in RuleLargeFunctionNoLogging <=>
          \E f \in Facts("function") : /\ x = Gap("LOG_005", {f.of})
                                       /\ f.to - f.from >= MinLines
                                       /\ ~HasFactInRange("logging_call", f)
    BY DEF RuleLargeFunctionNoLogging
  <2> QED
    BY <1>1, <2>1
<1>7. x \in RuleExternalIoNoLatency <=>
        \E f \in Facts("function") : /\ x = Gap("MET_002", {f.of}) /\ Unmeasured(f)
                                     /\ In("external_io", f) # {}
  <2>1. x \in RuleExternalIoNoLatency <=>
          \E f \in AroundFirst(Facts("external_io")) :
             x = Gap("MET_002", {f.of}) /\ ~HasFactInRange("metrics_call", f)
    BY DEF RuleExternalIoNoLatency
  <2> QED
    BY <1>1, <2>1, AroundFirstOfAll
<1>8. x \in RuleErrorNoCounter <=>
        \E f \in Facts("function") : /\ x = Gap("MET_004", {f.of}) /\ Unmeasured(f)
                                     /\ In("try_except", f) # {}
  <2>1. x \in RuleErrorNoCounter <=>
          \E f \in AroundFirstTry : /\ ~HasFactInRange("metrics_call", f)
                                    /\ \E n \in NameOfFirstTry(f) : x = Gap("MET_004", {n})
    <3> DEFINE group(f) == {Gap("MET_004", {n}) : n \in NameOfFirstTry(f)}
               lacking == {g \in AroundFirstTry : ~HasFactInRange("metrics_call", g)}
    <3>1. RuleErrorNoCounter = UNION {group(f) : f \in lacking}
      BY DEF RuleErrorNoCounter
    <3>2. \A f : x \in group(f) <=> \E n \in NameOfFirstTry(f) : x = Gap("MET_004", {n})
      OBVIOUS
    <3>3. \A f : f \in lacking <=> f \in AroundFirstTry /\ ~HasFactInRange("metrics_call", f)
      OBVIOUS
    <3> HIDE DEF group, lacking
    <3>4. x \in RuleErrorNoCounter <=> \E f \in lacking : x \in group(f)
      BY <3>1
    <3> QED
      BY <3>2, <3>3, <3>4
  <2>2. \A f \in AroundFirstTry : NameOfFirstTry(f) = {f.of}
    BY AroundFirstTries
  <2>3. x \in RuleErrorNoCounter <=>
          \E f \in AroundFirstTry : ~HasFactInRange("metrics_call", f) /\ x = Gap("MET_004", {f.of})
    BY <2>1, <2>2
  <2> QED
    BY <1>1, <2>3, AroundFirstTries
<1> QED
  BY <1>3, <1>4, <1>5, <1>6, <1>7, <1>8

\* The six rules about functions.
AboutFunctions == {"LOG_002", "LOG_003", "LOG_004", "LOG_005", "MET_002", "MET_004"}

LEMMA RulesMean == FactsInv => RulesMeanThat
<1> SUFFICES ASSUME FactsInv, Plain, NEW x
             PROVE  x \in {g \in Evaluate : g.rule \in AboutFunctions}
                      <=> \E f \in Facts("function") : x \in MeantFor(f)
  BY DEF RulesMeanThat, AboutFunctions
<1>1. x \in {g \in Evaluate : g.rule \in AboutFunctions} <=>
          \/ x \in RuleHttpHandlerNoLogging \/ x \in RuleExternalIoNoLogging
          \/ x \in RuleErrorPathNoErrorLog \/ x \in RuleLargeFunctionNoLogging
          \/ x \in RuleExternalIoNoLatency \/ x \in RuleErrorNoCounter
  BY GapsOfRules DEF Evaluate, LoggingGaps, MetricsGaps, AboutFunctions
<1>2. ASSUME NEW f \in Facts("function")
      PROVE  x \in MeantFor(f) <=>
          \/ x = Gap("LOG_002", {f.of}) /\ Silent(f) /\ \E h \in Handlers : h.of = f.of
          \/ x = Gap("LOG_003", {f.of}) /\ Silent(f) /\ In("external_io", f) # {}
          \/ /\ x = Gap("LOG_004", {f.of}) /\ In("try_except", f) # {}
             /\ \A l \in In("logging_call", f) : l.mark \notin ErrorLevels
          \/ x = Gap("LOG_005", {f.of}) /\ Silent(f) /\ f.to - f.from >= MinLines
          \/ x = Gap("MET_002", {f.of}) /\ Unmeasured(f) /\ In("external_io", f) # {}
          \/ x = Gap("MET_004", {f.of}) /\ Unmeasured(f) /\ In("try_except", f) # {}
  <2>1. In("logging_call", f) \intersect {l \in Facts("logging_call") : l.mark \in ErrorLevels} = {}
          <=> \A l \in In("logging_call", f) : l.mark \notin ErrorLevels
    BY DEF In
  <2>2. x \in {Gap("LOG_002", {f.of}) : h \in {g \in Handlers : g.of = f.of /\ Silent(f)}}
          <=> x = Gap("LOG_002", {f.of}) /\ Silent(f) /\ \E h \in Handlers : h.of = f.of
    OBVIOUS
  <2>3. x \in {Gap("LOG_003", {f.of}) : i \in {g \in In("external_io", f) : Silent(f)}}
          <=> x = Gap("LOG_003", {f.of}) /\ Silent(f) /\ In("external_io", f) # {}
    OBVIOUS
  <2>4. x \in {Gap("LOG_004", {f.of}) : t \in {g \in In("try_except", f) :
                 In("logging_call", f) \intersect
                     {l \in Facts("logging_call") : l.mark \in ErrorLevels} = {}}}
          <=> /\ x = Gap("LOG_004", {f.of}) /\ In("try_except", f) # {}
              /\ \A l \in In("logging_call", f) : l.mark \notin ErrorLevels
    BY <2>1
  <2>5. x \in (IF Silent(f) /\ f.to - f.from >= MinLines THEN {Gap("LOG_005", {f.of})} ELSE {})
          <=> x = Gap("LOG_005", {f.of}) /\ Silent(f) /\ f.to - f.from >= MinLines
    OBVIOUS
  <2>6. x \in {Gap("MET_002", {f.of}) : i \in {g \in In("external_io", f) : Unmeasured(f)}}
          <=> x = Gap("MET_002", {f.of}) /\ Unmeasured(f) /\ In("external_io", f) # {}
    OBVIOUS
  <2>7. x \in {Gap("MET_004", {f.of}) : t \in {g \in In("try_except", f) : Unmeasured(f)}}
          <=> x = Gap("MET_004", {f.of}) /\ Unmeasured(f) /\ In("try_except", f) # {}
    OBVIOUS
  <2> QED
    BY <2>2, <2>3, <2>4, <2>5, <2>6, <2>7 DEF MeantFor
<1> QED
  BY <1>1, <1>2, WhatRulesFind

LEMMA RulesHold == FactsInv => RulesAreSound /\ FactsTypeOK
BY EveryGapHasALack, RulesMean, ExtractedIsFact DEF RulesAreSound, FactsTypeOK

-----------------------------------------------------------------------------
(* Whether a code base measures its requests. *)

Middlewares == {f \in SourceFiles : f.middleware}
Importing == {f \in SourceFiles : f.imports # "none"}
Relevant == {f \in SourceFiles : f.middleware \/ f.imports # "none"}

\* What is left when the other files are left out has the same middleware and the
\* same imports, in the same order.
RedInv ==
    /\ codebase \in Seq(SourceFiles)
    /\ Filtered(codebase, Relevant) \in Seq(SourceFiles)
    /\ \A S \in {Middlewares, Importing} :
          Filtered(Filtered(codebase, Relevant), S) = Filtered(codebase, S)
    /\ (\E k \in DOMAIN codebase : codebase[k].middleware)
       => Filtered(codebase, Middlewares) # <<>>

LEMMA RedStart == RedInit => RedInv
<1> SUFFICES ASSUME RedInit PROVE RedInv
  OBVIOUS
<1>1. codebase = <<>> /\ \A S : Filtered(<<>>, S) = <<>>
  BY FilteredEmpty DEF RedInit
<1>2. DOMAIN codebase = {} /\ codebase \in Seq(SourceFiles)
  BY <1>1
<1>3. \A S : Filtered(codebase, S) = codebase
  BY <1>1
<1> QED
  BY <1>2, <1>3 DEF RedInv

LEMMA RedStep == RedInv /\ [RedNext]_redVars => RedInv'
<1> SUFFICES ASSUME RedInv, [RedNext]_redVars PROVE RedInv'
  OBVIOUS
<1>1. CASE UNCHANGED redVars
  BY <1>1 DEF RedInv, redVars
<1>2. CASE RedNext
  <2>1. PICK f \in SourceFiles : codebase' = Append(codebase, f)
    BY <1>2 DEF RedNext, AddSource
  <2>2. PICK c : c = codebase
    OBVIOUS
  <2>3. PICK rel : rel = Filtered(c, Relevant)
    OBVIOUS
  <2>4. /\ c \in Seq(SourceFiles) /\ rel \in Seq(SourceFiles)
        /\ \A S \in {Middlewares, Importing} : Filtered(rel, S) = Filtered(c, S)
    BY <2>2, <2>3 DEF RedInv
  <2>5. Filtered(Append(c, f), Relevant) = IF f \in Relevant THEN Append(rel, f) ELSE rel
    BY <2>3, <2>4, FilteredAppend
  <2>6. Filtered(Append(c, f), Relevant) \in Seq(SourceFiles)
    BY <2>4, <2>5
  <2>7. ASSUME NEW S \in {Middlewares, Importing}
        PROVE  Filtered(Filtered(Append(c, f), Relevant), S) = Filtered(Append(c, f), S)
    <3>1. Filtered(Append(c, f), S) = IF f \in S THEN Append(Filtered(c, S), f) ELSE Filtered(c, S)
      BY <2>4, FilteredAppend
    <3>2. Filtered(Append(rel, f), S)
            = IF f \in S THEN Append(Filtered(rel, S), f) ELSE Filtered(rel, S)
      BY <2>4, FilteredAppend
    <3>3. f \in S => f \in Relevant
      BY DEF Relevant, Middlewares, Importing
    <3> QED
      BY <2>4, <2>5, <3>1, <3>2, <3>3
  <2>8. ASSUME \E k \in DOMAIN Append(c, f) : Append(c, f)[k].middleware
        PROVE  Filtered(Append(c, f), Middlewares) # <<>>
    <3>1. Filtered(Append(c, f), Middlewares)
            = IF f \in Middlewares THEN Append(Filtered(c, Middlewares), f)
              ELSE Filtered(c, Middlewares)
      BY <2>4, FilteredAppend
    <3>2. Filtered(c, Middlewares) \in Seq(SourceFiles)
      BY <2>4, FilteredKeeps
    <3>3. CASE f \in Middlewares
      BY <3>1, <3>2, <3>3
    <3>4. CASE f \notin Middlewares
      <4>1. \E k \in DOMAIN c : c[k].middleware
        <5>1. PICK k \in DOMAIN Append(c, f) : Append(c, f)[k].middleware
          BY <2>8
        <5>2. PICK n \in Nat : n = Len(c)
          BY <2>4
        <5>3. k \in 1..(n + 1) /\ Append(c, f)[n + 1] = f
          BY <2>4, <5>2
        <5>4. ~f.middleware
          BY <3>4 DEF Middlewares
        <5>5. k # n + 1
          BY <5>1, <5>3, <5>4
        <5>6. k \in DOMAIN c /\ Append(c, f)[k] = c[k]
          BY <2>4, <5>2, <5>3, <5>5
        <5> QED
          BY <5>1, <5>6
      <4>2. Filtered(c, Middlewares) # <<>>
        BY <2>2, <4>1 DEF RedInv
      <4> QED
        BY <3>1, <3>4, <4>2
    <3> QED
      BY <3>3, <3>4
  <2>9. Append(c, f) \in Seq(SourceFiles)
    BY <2>4
  <2> QED
    BY <2>1, <2>2, <2>6, <2>7, <2>8, <2>9 DEF RedInv
<1> QED
  BY <1>1, <1>2

LEMMA RedInvariance == RedSpec => []RedInv
BY RedStart, RedStep, PTL DEF RedSpec

\* The report and the gaps agree, whatever was found.
LEMMA ReportAndGaps == ReadyMeansNoGap
<1> SUFFICES ASSUME codebase # <<>>
             PROVE  EvaluateRedReadiness(codebase).ready
                      <=> EvaluateRedReadiness(codebase).gaps = {}
  BY DEF ReadyMeansNoGap
<1>1. PICK middleware : middleware = FindMiddlewareFiles(codebase)
  OBVIOUS
<1>2. PICK rate : rate = FindRate(middleware, DetectMetricsLibrary(codebase))
  OBVIOUS
<1>3. PICK duration : duration = FindDuration(middleware, DetectMetricsLibrary(codebase))
  OBVIOUS
<1>4. CASE middleware = <<>>
  BY <1>1, <1>4 DEF EvaluateRedReadiness
<1>5. CASE middleware # <<>>
  <2> DEFINE when(rule, missing) == IF missing THEN {rule} ELSE {}
             a == when("RED_001", rate = {})
             b == when("RED_002", rate # {} /\ ~HasIn(rate, "status"))
             c == when("RED_003", duration = {})
             d == when("RED_004", (rate # {} \/ duration # {})
                                    /\ ~(HasIn(rate, "endpoint") /\ HasIn(duration, "endpoint")))
  <2>1. EvaluateRedReadiness(codebase)
          = [ready |-> Ready(rate, duration), gaps |-> a \union b \union c \union d]
    BY <1>1, <1>2, <1>3, <1>5 DEF EvaluateRedReadiness
  <2>2. a = {} <=> rate # {}
    OBVIOUS
  <2>3. b = {} <=> rate = {} \/ HasIn(rate, "status")
    OBVIOUS
  <2>4. c = {} <=> duration # {}
    OBVIOUS
  <2>5. d = {} <=> \/ rate = {} /\ duration = {}
                   \/ HasIn(rate, "endpoint") /\ HasIn(duration, "endpoint")
    OBVIOUS
  <2> HIDE DEF a, b, c, d
  <2>6. a \union b \union c \union d = {} <=> a = {} /\ b = {} /\ c = {} /\ d = {}
    OBVIOUS
  <2>7. Ready(rate, duration) <=> a \union b \union c \union d = {}
    BY <2>2, <2>3, <2>4, <2>5, <2>6 DEF Ready, EndpointFound
  <2> QED
    BY <2>1, <2>7
<1> QED
  BY <1>4, <1>5

LEMMA RedHolds == RedInv => RedIsSound
<1> SUFFICES ASSUME RedInv, \E k \in DOMAIN codebase : codebase[k].middleware
             PROVE  EvaluateRedReadiness(codebase)
                      = EvaluateRedReadiness(Filtered(codebase, Relevant))
  BY ReportAndGaps DEF RedIsSound, OnlyMiddlewareCounts, Relevant
<1>1. PICK rel : rel = Filtered(codebase, Relevant)
  OBVIOUS
<1>2. PICK ms : ms = Filtered(codebase, Middlewares)
  OBVIOUS
<1>3. Filtered(rel, Middlewares) = ms /\ ms # <<>>
  BY <1>1, <1>2 DEF RedInv
<1>4. codebase # <<>> /\ rel # <<>>
  BY <1>2, <1>3, FilteredEmpty
<1>5. FindMiddlewareFiles(codebase) = ms /\ FindMiddlewareFiles(rel) = ms
  BY <1>2, <1>3 DEF FindMiddlewareFiles, Middlewares
<1>6. Filtered(rel, Importing) = Filtered(codebase, Importing)
  BY <1>1 DEF RedInv
<1>7. DetectMetricsLibrary(codebase) = DetectMetricsLibrary(rel)
  BY <1>6 DEF DetectMetricsLibrary, Importing
<1>8. EvaluateRedReadiness(codebase) = EvaluateRedReadiness(rel)
  BY <1>4, <1>5, <1>7 DEF EvaluateRedReadiness
<1> QED
  BY <1>1, <1>8

LEMMA RedIsTyped == RedInv => RedTypeOK
BY RedAssumption DEF RedInv, RedTypeOK

-----------------------------------------------------------------------------
(* What holds of every behaviour, whatever the constants are. *)

\* A review that is QUEUED has a message or will have one, a bulk request makes
\* or finds a review of every service it has seen, and no list of reviews hides
\* one, whatever requests, workers and deletions come between.
THEOREM RequestsTheorem == RequestsSpec => []RequestsAreSound
BY RequestsInvariance, RequestsHold, PTL

\* A review trusts an earlier one only about code whose infrastructure has not
\* changed between them, and what it learns of the code it learns within its
\* budget: whatever other reviews, pushes and crashes do meanwhile.
THEOREM AnalysisTheorem == AnalysisSpec => []AnalysisIsSound
BY AnalysisInvariance, AnalysisHolds, PTL

\* What a root cause rests on, and what a Slack thread shows of the work: for
\* any hypotheses, rounds and attempts, and any number of callbacks at a time.
THEOREM AnswersTheorem == AgentSpec /\ ProgressSpec => []AnswersAreSound
<1>1. AgentInv /\ ProgressInv => AnswersAreSound
  BY AgentHolds DEF AnswersAreSound, ProgressIsSound, ProgressInv
<1> QED
  BY <1>1, AgentInvariance, ProgressInvariance, PTL

\* In a plain file the rules find of each function exactly what it lacks, in
\* any file they find nothing that is not lacking, whatever the order of the
\* facts; and what an agent in doubt says of a sample removes no gap.
THEOREM GapsTheorem == FactsSpec /\ VerdictsSpec => []GapsAreSound
<1>1. FactsInv /\ VerdictsInv => GapsAreSound
  BY RulesHold, VerdictsHold DEF GapsAreSound
<1> QED
  BY <1>1, FactsInvariance, VerdictsInvariance, PTL

\* A service that did no worse than the week before scores no lower and shows
\* no indicator that points down, for any measurements and providers.
THEOREM ScoresTheorem == ScoresSpec => []NoWorseNoLower
BY ScoresInvariance, ScoresHold, PTL

\* What the report of the request metrics says agrees with its gaps, and where a
\* middleware was found it rests on the files that matter alone: whatever the files
\* are, however many, and in any order.
THEOREM RedTheorem == RedSpec => []RedIsSound
BY RedInvariance, RedHolds, PTL

-----------------------------------------------------------------------------
(* The parts together. *)

workVars == <<part, jobVars, deskVars, ruleVars>>

LEMMA EveryPartSteps ==
    [PartsNext]_workVars =>
        /\ [Next]_vars /\ [AgentNext]_agentVars /\ [ProgressNext]_progressVars
        /\ [RequestsNext]_orderVars /\ [AnalysisNext]_analysisVars
        /\ [VerdictsNext]_verdictVars /\ [ScoresNext]_scoreVars
        /\ [FactsNext]_factVars /\ [RedNext]_redVars
BY DEF PartsNext, workVars, jobVars, deskVars, ruleVars

\* What is explored one part at a time shows of every part a behaviour of its
\* own specification: what is proved of the parts holds of them together.
THEOREM WorkPartsTheorem ==
    WorkSpec => /\ Spec /\ AgentSpec /\ ProgressSpec /\ RequestsSpec /\ AnalysisSpec
                /\ VerdictsSpec /\ ScoresSpec /\ FactsSpec /\ RedSpec
<1>1. PartsInit => /\ Init /\ AgentInit /\ ProgressInit /\ RequestsInit /\ AnalysisInit
                   /\ VerdictsInit /\ ScoresInit /\ FactsInit /\ RedInit
  BY DEF PartsInit
<1>2. WorkSpec <=> PartsInit /\ [][PartsNext]_workVars
  BY DEF WorkSpec, workVars
<1> QED
  BY <1>1, <1>2, EveryPartSteps, PTL
     DEF Spec, AgentSpec, ProgressSpec, RequestsSpec, AnalysisSpec, VerdictsSpec, ScoresSpec,
         FactsSpec, RedSpec

LEMMA RequestsAreTyped == RequestsInv => RequestsTypeOK
<1> SUFFICES ASSUME RequestsInv PROVE RequestsTypeOK
  OBVIOUS
<1>1. \A c \in Clerks : order[c] \in Order
  BY DEF RequestsInv, RequestsTyped
<1>2. ASSUME NEW c \in Clerks
      PROVE  /\ order[c].step \in {"idle", "check", "send"}
             /\ order[c].period \in AllPeriods \union {NoPeriod}
             /\ order[c].seen \union order[c].todo \union order[c].new \subseteq Subjects
             /\ order[c].skipped \union order[c].send \subseteq Ids
  BY <1>1 DEF Order
<1>3. created \in 0..MostReviews
  BY RequestsAssumption DEF RequestsInv, RequestsTyped
<1>4. /\ subjects \subseteq Subjects /\ reviews \subseteq ServiceReview
      /\ enqueued \subseteq Ids /\ unpublished \subseteq Ids
      /\ \A r, q \in reviews : r.id = q.id => r = q
  BY DEF RequestsInv, RequestsTyped, Numbers
<1> QED
  BY <1>2, <1>3, <1>4 DEF RequestsTypeOK

\* The rows, the messages, the callbacks and the running analyses of every part are
\* always what the database columns, the queues and the code can hold.
THEOREM WorkTypesTheorem == WorkSpec => []WorkTypeOK
<1>1. AgentInv /\ ProgressInv => AgentTypeOK /\ ProgressTypeOK
  BY DEF AgentInv, AgentTyped, ProgressInv, ProgressTyped
<1>2. /\ TypeOK /\ AgentTypeOK /\ ProgressTypeOK /\ RequestsTypeOK /\ AnalysisTypeOK
      /\ VerdictsTypeOK /\ ScoresTypeOK /\ FactsTypeOK /\ RedTypeOK
      => WorkTypeOK
  BY DEF WorkTypeOK
<1>3. VerdictsInv => VerdictsTypeOK
  BY VerdictsHold
<1>4. ScoresInv => ScoresTypeOK
  BY ScoresHold
<1>5. FactsInv => FactsTypeOK
  BY RulesHold
<1> QED
  BY <1>1, <1>2, <1>3, <1>4, <1>5, WorkPartsTheorem, TypeCorrect, AgentInvariance,
     ProgressInvariance, RequestsInvariance, RequestsAreTyped, AnalysisTypedInvariance,
     AnalysisIsTyped, VerdictsInvariance, ScoresInvariance, FactsInvariance, RedInvariance,
     RedIsTyped, PTL
=============================================================================
