------------------------------ MODULE RcaAgent ------------------------------
(***************************************************************************)
(* One question at the agent of app/services/rca, from the preparation by  *)
(* the worker on: the graph of nodes that resolves what the workspace can  *)
(* use, classifies the question, and either converses or goes round        *)
(* hypotheses, evidence and verdicts until it writes a report, and the     *)
(* retry of the whole when a node raises.                                  *)
(***************************************************************************)
EXTENDS Naturals, FiniteSets

CONSTANTS
    Hypotheses,      \* what the LLM may suppose, by its text
    Generic,         \* "Investigate the reported issue to determine root cause."
    Confidences,     \* the confidences it may give
    MaxLoops,        \* max_loops: rounds of evidence
    MostAttempts,    \* max_retries of analyze_with_retry and the first attempt
    MostTries,       \* RCA_EVIDENCE_AGENT_MAX_RETRIES
    Connectable      \* the providers that may be connected
ASSUME AgentAssumption ==
    /\ Generic \in Hypotheses
    /\ IsFiniteSet(Confidences) /\ Confidences \subseteq 0..100
    /\ MaxLoops \in Nat \ {0}
    /\ MostAttempts \in Nat \ {0} /\ MostTries \in Nat \ {0}
    /\ Connectable \subseteq {"grafana", "github", "aws", "datadog", "newrelic"}

VARIABLES
    health,       \* [provider -> Integration.health_status of its row, or "absent"]
    node,         \* the node that runs next
    attempt,      \* which attempt of analyze_with_retry this is
    capabilities, \* ExecutionContext.capabilities
    iteration,    \* rounds of evidence so far
    tries,        \* calls of the executor in this round
    hypotheses,   \* [hypothesis -> verdict], the hypotheses of the state
    rootCause,    \* RCAState.root_cause, a set of at most one
    sick,         \* the providers that were not healthy when the attempt began
    called,       \* the providers whose tools the agent has been given
    rounds        \* calls of the evidence agent in all, for the bound

agentVars == <<health, node, attempt, capabilities, iteration, tries,
               hypotheses, rootCause, sick, called, rounds>>

Statuses == {"validated", "rejected", "needs_more_evidence"}

\* A hypothesis of the state: its "validation", its "confidence" (0 if it has
\* none), and the round in which the LLM last judged it.
Judged == [status : Statuses \union {"pending"}, confidence : Confidences \union {0},
           round : 0..MaxLoops]
Pending == [status |-> "pending", confidence |-> 0, round |-> 0]

-----------------------------------------------------------------------------
(* What a workspace can use: capabilities by provider, tools by capability. *)

CapabilityMap ==
    [grafana  |-> {"logs", "metrics"},
     github   |-> {"code_search", "code_read", "repository_info"},
     aws      |-> {"aws_logs", "aws_metrics"},
     datadog  |-> {"datadog_logs", "datadog_metrics"},
     newrelic |-> {"newrelic_logs", "newrelic_metrics"}]

IntegrationTypes == DOMAIN CapabilityMap
Capability == UNION {CapabilityMap[p] : p \in IntegrationTypes}

\* The provider whose tools the registry lists under a capability.
ToolsMap ==
    [logs |-> "grafana", metrics |-> "grafana",
     code_search |-> "github", code_read |-> "github", repository_info |-> "github",
     aws_logs |-> "aws", aws_metrics |-> "aws",
     datadog_logs |-> "datadog", datadog_metrics |-> "datadog",
     newrelic_logs |-> "newrelic", newrelic_metrics |-> "newrelic"]

GetToolsForCapabilities(caps) == {ToolsMap[c] : c \in caps}

Resolve == UNION {CapabilityMap[p] : p \in {q \in IntegrationTypes : health[q] = "healthy"}}

ConversationalCapabilities == {"repository_info", "code_read", "code_search"}

\* "Fallback: try to get basic tools even if no integrations."
Conversational(caps) ==
    IF caps \intersect ConversationalCapabilities = {} THEN ConversationalCapabilities
    ELSE caps \intersect ConversationalCapabilities

-----------------------------------------------------------------------------
(* The nodes. *)

state == <<capabilities, iteration, tries, hypotheses, rootCause, sick, called, rounds>>

NewAttempt(n) ==
    /\ attempt' = n
    /\ capabilities' = {} /\ iteration' = 0 /\ tries' = 0
    /\ hypotheses' = <<>> /\ rootCause' = {} /\ sick' = {} /\ called' = {}

\* The database or the construction of an executor raises: the next attempt
\* begins with a state of its own, and after the last the error is the answer.
Raise ==
    /\ IF attempt < MostAttempts THEN NewAttempt(attempt + 1) /\ node' = "resolve_context"
       ELSE node' = "failed"
            /\ UNCHANGED <<attempt, capabilities, iteration, tries, hypotheses,
                           rootCause, sick, called>>
    /\ UNCHANGED <<health, rounds>>

\* The worker refuses without GitHub, and otherwise asks GitHub: no answer ends
\* the job, and a bad one only leaves GitHub unhealthy.
Prepare ==
    /\ node = "prepare"
    /\ \/ /\ health["github"] = "absent"
          /\ node' = "failed"
          /\ UNCHANGED health
       \/ /\ health["github"] # "absent"
          /\ \/ node' = "resolve_context" /\ health' = [health EXCEPT !["github"] = "healthy"]
             \/ /\ node' \in {"resolve_context", "failed"}
                /\ health' = [health EXCEPT !["github"] = "failed"]
    /\ UNCHANGED <<attempt, state>>

ResolveContext ==
    /\ node = "resolve_context"
    /\ node' = "classify_intent"
    /\ capabilities' = Resolve
    /\ sick' = {p \in IntegrationTypes : health[p] # "healthy"}
    /\ UNCHANGED <<health, attempt, iteration, tries, hypotheses, rootCause, called, rounds>>

ResolveRaises == node = "resolve_context" /\ Raise

\* "Everything that is NOT explicitly an RCA investigation goes to the
\* conversational agent"; a failure of the LLM counts as an investigation.
ClassifyIntent ==
    /\ node = "classify_intent"
    /\ node' \in {"hypothesize", "conversational"}
    /\ UNCHANGED <<health, attempt, state>>

\* Whatever happens in it, the conversation ends the run with some report.
Converse ==
    /\ node = "conversational"
    /\ node' = "end"
    /\ capabilities' = Conversational(capabilities)
    /\ called' = called \union GetToolsForCapabilities(capabilities')
    /\ UNCHANGED <<health, attempt, iteration, tries, hypotheses, rootCause, sick, rounds>>

\* The hypotheses of before are kept in the history only.
Hypothesize ==
    /\ node = "hypothesize"
    /\ node' = "gather_evidence"
    /\ \E new \in (SUBSET (Hypotheses \ {Generic}) \ {{}}) \union {{Generic}} :
          hypotheses' = [h \in new |-> Pending]
    /\ UNCHANGED <<health, attempt, capabilities, iteration, tries, rootCause,
                   sick, called, rounds>>

\* Without capabilities there is a note instead of evidence.
GatherNothing ==
    /\ node = "gather_evidence"
    /\ tries = 0 /\ capabilities = {}
    /\ node' = "validate"
    /\ iteration' = iteration + 1 /\ rounds' = rounds + 1
    /\ UNCHANGED <<health, attempt, capabilities, tries, hypotheses, rootCause,
                   sick, called>>

\* An executor is built once for all tries, and may raise.
BuildExecutor ==
    /\ node = "gather_evidence"
    /\ tries = 0 /\ capabilities # {}
    /\ iteration' = iteration + 1 /\ rounds' = rounds + 1
    /\ called' = called \union GetToolsForCapabilities(capabilities)
    /\ tries' = 1
    /\ UNCHANGED <<health, node, attempt, capabilities, hypotheses, rootCause, sick>>

BuildRaises == node = "gather_evidence" /\ tries = 0 /\ capabilities # {} /\ Raise

\* The executor answers, or fails in another way: there is a board.
GatherEvidence ==
    /\ node = "gather_evidence" /\ tries > 0
    /\ node' = "validate"
    /\ tries' = 0
    /\ UNCHANGED <<health, attempt, capabilities, iteration, hypotheses, rootCause,
                   sick, called, rounds>>

\* "Retry on tool hallucination errors (LLM calling non-existent tools)."
RetryEvidence ==
    /\ node = "gather_evidence"
    /\ tries > 0 /\ tries < MostTries
    /\ tries' = tries + 1
    /\ UNCHANGED <<health, node, attempt, capabilities, iteration, hypotheses,
                   rootCause, sick, called, rounds>>

RouteIgnoringVerdicts(hyps) ==   \* Faulty: goes on until the loops are used up.
    IF iteration >= MaxLoops THEN "synthesize"
    ELSE IF \A h \in DOMAIN hyps : hyps[h].status = "rejected" THEN "hypothesize"
    ELSE "gather_evidence"
RouteAfterValidation(hyps) ==
    IF \E h \in DOMAIN hyps : hyps[h].status = "validated" THEN "synthesize"
    ELSE IF iteration >= MaxLoops THEN "synthesize"
    ELSE IF \A h \in DOMAIN hyps : hyps[h].status = "rejected" THEN "hypothesize"
    ELSE "gather_evidence"

\* The LLM judges some of the hypotheses, none if it fails; a verdict without a
\* confidence leaves the one of an earlier verdict.
Validate ==
    /\ node = "validate"
    /\ \E named \in SUBSET DOMAIN hypotheses :
       \E status \in [named -> Statuses],
          sure \in [named -> {{}} \union {{n} : n \in Confidences}] :
          hypotheses' = [h \in DOMAIN hypotheses |->
              IF h \notin named THEN hypotheses[h]
              ELSE [status |-> status[h], round |-> iteration,
                    confidence |-> IF sure[h] = {} THEN hypotheses[h].confidence
                                   ELSE CHOOSE n \in sure[h] : TRUE]]
    /\ node' = RouteAfterValidation(hypotheses')
    /\ UNCHANGED <<health, attempt, capabilities, iteration, tries, rootCause,
                   sick, called, rounds>>

\* The most certain of the validated ones, else of those that need more.
PickBestHypothesis ==
    LET with(s) == {h \in DOMAIN hypotheses : hypotheses[h].status = s}
        best(S) == {h \in S : \A g \in S : hypotheses[h].confidence >= hypotheses[g].confidence}
    IN  IF with("validated") # {} THEN best(with("validated"))
        ELSE best(with("needs_more_evidence"))

\* The report is the LLM's, or says that there is none.
Synthesize ==
    /\ node = "synthesize"
    /\ node' = "end"
    /\ \/ PickBestHypothesis = {} /\ rootCause' = {}
       \/ \E h \in PickBestHypothesis : rootCause' = {h}
    /\ UNCHANGED <<health, attempt, capabilities, iteration, tries, hypotheses,
                   sick, called, rounds>>

\* A health check, a connection or a disconnection.  A run reads the rows at its
\* beginning only: what changes later changes before the next attempt reads them.
HealthChanges(p) ==
    /\ node \in {"prepare", "resolve_context"}
    /\ \E h \in {"healthy", "failed", "unknown", "absent"} \ {health[p]} :
          health' = [health EXCEPT ![p] = h]
    /\ UNCHANGED <<node, attempt, state>>
-----------------------------------------------------------------------------
AgentInit ==
    /\ health = [p \in IntegrationTypes |-> "absent"]
    /\ node = "prepare"
    /\ attempt = 1
    /\ capabilities = {} /\ iteration = 0 /\ tries = 0
    /\ hypotheses = <<>> /\ rootCause = {} /\ sick = {} /\ called = {}
    /\ rounds = 0

AgentNext ==
    \/ Prepare \/ ResolveContext \/ ResolveRaises \/ ClassifyIntent \/ Converse
    \/ Hypothesize
    \/ GatherNothing \/ BuildExecutor \/ BuildRaises \/ GatherEvidence \/ RetryEvidence
    \/ Validate \/ Synthesize
    \/ \E p \in Connectable : HealthChanges(p)

AgentSpec == AgentInit /\ [][AgentNext]_agentVars

AgentTypeOK ==
    /\ health \in [IntegrationTypes -> {"healthy", "failed", "unknown", "absent"}]
    /\ node \in {"prepare", "resolve_context", "classify_intent", "conversational", "hypothesize",
                 "gather_evidence", "validate", "synthesize", "end", "failed"}
    /\ attempt \in 1..MostAttempts /\ iteration \in 0..MaxLoops /\ tries \in 0..MostTries
    /\ capabilities \subseteq Capability
    /\ DOMAIN hypotheses \subseteq Hypotheses
    /\ \A h \in DOMAIN hypotheses : hypotheses[h] \in Judged
    /\ rootCause \subseteq Hypotheses /\ Cardinality(rootCause) <= 1
    /\ sick \subseteq IntegrationTypes /\ called \subseteq IntegrationTypes
    /\ rounds \in Nat

\* A report names as the root cause the most certain of the hypotheses that were
\* validated, and by the evidence of the very last round; or, if none was, the
\* most certain of those left open.
RootCauseStands ==
    node = "end" =>
        LET of(s) == {h \in DOMAIN hypotheses : hypotheses[h].status = s}
            open == of("needs_more_evidence")
        IN  /\ \A h \in of("validated") : hypotheses[h].round = iteration
            /\ \A h \in rootCause :
                  /\ h \in of("validated") \/ (h \in open /\ of("validated") = {})
                  /\ \A g \in of(hypotheses[h].status) :
                        hypotheses[h].confidence >= hypotheses[g].confidence

\* "only_healthy": an investigation is given no tools of a provider that was not
\* healthy when it began; a conversation is, of GitHub, whatever its health.
SickAreSpared ==
    /\ called \intersect sick \subseteq {"github"}
    /\ DOMAIN hypotheses # {} => called \intersect sick = {}

\* However the verdicts and the attempts go, evidence is gathered so often at most.
RoundsAreBounded == rounds <= MostAttempts * MaxLoops

AgentIsSound == RootCauseStands /\ SickAreSpared /\ RoundsAreBounded
=============================================================================
