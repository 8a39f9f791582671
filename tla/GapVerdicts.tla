----------------------------- MODULE GapVerdicts -----------------------------
(***************************************************************************)
(* From the gaps that the rules find in a service's code to the gaps that  *)
(* a review reports: for each rule an agent looks at a sample of its gaps, *)
(* its answer decides about the whole group, and the gaps that are covered *)
(* are dropped by their titles.  A review that trusts an earlier one drops *)
(* the gaps of whole rules instead, and asks nobody.                       *)
(*                                                                         *)
(* A rule's gaps are numbered, and stand for their titles; 0 is a title    *)
(* that no gap has.                                                        *)
(***************************************************************************)
EXTENDS Naturals, FiniteSets

CONSTANTS
    Rules,       \* rules that find gaps
    GlobalRules, \* those whose gaps global instrumentation covers: MET_001, 002, 004
    MostGaps,    \* gaps of a rule (a bound)
    SampleSize,  \* HEALTH_REVIEW_VERIFICATION_SAMPLE_SIZE
    Confidence,  \* HEALTH_REVIEW_VERIFICATION_CONFIDENCE_THRESHOLD, in percent
    MostAnswers  \* entries of an agent's answer (a bound)

ASSUME VerdictsAssumption ==
    /\ GlobalRules \subseteq Rules
    /\ MostGaps \in Nat /\ SampleSize \in Nat \ {0} /\ MostAnswers \in Nat
    /\ Confidence \in 1..100

VARIABLES
    phase,    \* what the pipeline does next
    gaps,     \* how many gaps a rule has found
    waiting,     \* the rules that no agent has looked at
    answer,   \* what the agent said of a rule: {} while it was not asked
    verdict,  \* the gaps with a verdict, and the verdict of the group
    reported, \* the gaps that are left
    enriched, \* the rules that the LLM has explained
    saved     \* the rows of the review

verdictVars == <<phase, gaps, waiting, answer, verdict, reported, enriched, saved>>

Titles == 1..MostGaps
\* The titles that an answer names among those of the sample, its entries and
\* those that say "pass".  Without entries: a failure, or an answer that cannot
\* be read, or that is empty, which divides by zero where the shares are logged.
Answers == [named : SUBSET (1..SampleSize), entries : 0..MostAnswers, passes : 0..MostAnswers]
Failure == [named |-> {}, entries |-> 0, passes |-> 0]
GapVerdict == {"GENUINE", "FALSE_ALARM"}
NoVerdict == [titles |-> {}, group |-> "GENUINE"]
Row == [rule : Rules, gap : Titles, verdict : GapVerdict \union {"none"}, why : BOOLEAN]

VerdictsTypeOK ==
    /\ phase \in {"rules", "verify", "filter", "enrich", "save", "saved"}
    /\ gaps \in [Rules -> 0..MostGaps]
    /\ waiting \subseteq {r \in Rules : gaps[r] > 0}
    /\ \A r \in Rules : answer[r] \subseteq Answers
    /\ \A r \in Rules :
        /\ verdict[r].titles \subseteq 1..gaps[r]
        /\ verdict[r].group \in GapVerdict
        /\ reported[r] \subseteq 1..gaps[r]
    /\ enriched \subseteq Rules
    /\ saved \subseteq Row
    /\ \A x, y \in saved : x.rule = y.rule /\ x.gap = y.gap => x = y

VerdictsInit ==
    /\ phase = "rules"
    /\ gaps = [r \in Rules |-> 0]
    /\ waiting = {}
    /\ answer = [r \in Rules |-> {}]
    /\ verdict = [r \in Rules |-> NoVerdict]
    /\ reported = [r \in Rules |-> {}]
    /\ enriched = {}
    /\ saved = {}

-----------------------------------------------------------------------------
\* The rules run; without a gap there is nothing to verify.
RunRules(found) ==
    /\ phase = "rules"
    /\ gaps' = found
    /\ waiting' = {r \in Rules : found[r] > 0}
    /\ reported' = [r \in Rules |-> 1..found[r]]
    /\ phase' = IF waiting' = {} THEN "enrich" ELSE "verify"
    /\ UNCHANGED <<answer, verdict, enriched, saved>>

Least(m, n) == IF m < n THEN m ELSE n
Sample(r) == 1..Least(gaps[r], SampleSize)

CoveredIfNoneFails(a) == 100 * a.passes >= Confidence * a.entries   \* Faulty.

\* The share of the answer's entries that pass decides.
Covered(a) == a.entries > 0 /\ 100 * a.passes >= Confidence * a.entries

\* An answer with fewer entries than the sample is filled up with the gaps it
\* does not name; one with as many is not, whatever its entries name.
ParsePassFailVerdicts(r, a) ==
    [titles |-> IF a.entries < Cardinality(Sample(r)) THEN Sample(r)
                ELSE a.named \intersect Sample(r),
     group  |-> IF Covered(a) THEN "FALSE_ALARM" ELSE "GENUINE"]

\* A group that is larger than its sample gets the verdict of the sample.
ExtendVerdictsToAll(r, v) ==
    IF gaps[r] > SampleSize THEN [v EXCEPT !.titles = 1..gaps[r]] ELSE v

Decide(r, a, v) ==
    /\ answer' = [answer EXCEPT ![r] = {a}]
    /\ verdict' = [verdict EXCEPT ![r] = ExtendVerdictsToAll(r, v)]
    /\ waiting' = waiting \ {r}
    /\ phase' = IF waiting' = {} THEN "filter" ELSE phase
    /\ UNCHANGED <<gaps, reported, enriched, saved>>

\* The agent answers about a rule.
VerifyRuleGroup(r, a) ==
    /\ phase = "verify" /\ r \in waiting
    /\ a.passes <= a.entries /\ Cardinality(a.named) <= a.entries
    /\ Decide(r, a, ParsePassFailVerdicts(r, a))

\* The agent fails, has no budget left or says what is no JSON.
VerificationFails(r) == VerifyRuleGroup(r, Failure)

\* False alarms are dropped.
FilterGaps ==
    /\ phase = "filter"
    /\ reported' = [r \in Rules |-> IF verdict[r].group = "FALSE_ALARM"
                                    THEN reported[r] \ verdict[r].titles ELSE reported[r]]
    /\ phase' = "enrich"
    /\ UNCHANGED <<gaps, waiting, answer, verdict, enriched, saved>>

\* What an earlier review found covers some rules; nothing is verified.
ContextFilterGaps(suppressed) ==
    /\ phase = "verify" /\ waiting = {r \in Rules : gaps[r] > 0}
    /\ suppressed \subseteq GlobalRules
    /\ reported' = [r \in Rules |-> IF r \in suppressed THEN {} ELSE reported[r]]
    /\ waiting' = {}
    /\ phase' = "enrich"
    /\ UNCHANGED <<gaps, answer, verdict, enriched, saved>>

\* One call explains the rules it likes; if it fails, the gaps that are left
\* explain themselves.
Enrich(explained) ==
    /\ phase = "enrich"
    /\ enriched' = explained
    /\ phase' = "save"
    /\ UNCHANGED <<gaps, waiting, answer, verdict, reported, saved>>
FallbackEnrich == Enrich({r \in Rules : reported[r] # {}})

\* A row for each gap that is left, with its verdict, if there is one.
SaveGaps ==
    /\ phase = "save"
    /\ saved' = UNION {{[rule |-> r, gap |-> g, why |-> r \in enriched,
                         verdict |-> IF g \in verdict[r].titles THEN verdict[r].group
                                     ELSE "none"] : g \in reported[r]} : r \in Rules}
    /\ phase' = "saved"
    /\ UNCHANGED <<gaps, waiting, answer, verdict, reported, enriched>>

VerdictsNext ==
    \/ \E found \in [Rules -> 0..MostGaps] : RunRules(found)
    \/ \E r \in Rules : VerificationFails(r) \/ \E a \in Answers : VerifyRuleGroup(r, a)
    \/ FilterGaps
    \/ \E s \in SUBSET GlobalRules : ContextFilterGaps(s)
    \/ (\E s \in SUBSET Rules : Enrich(s)) \/ FallbackEnrich
    \/ SaveGaps

VerdictsSpec == VerdictsInit /\ [][VerdictsNext]_verdictVars

-----------------------------------------------------------------------------
\* A verification that did not speak clearly hides no gap: where an agent failed,
\* said nothing, or passed fewer entries than the threshold asks for, every gap
\* of the rule is reported.
DoubtKeepsGaps ==
    phase = "saved" =>
        \A r \in Rules :
            (\E a \in answer[r] : a = Failure \/ 100 * a.passes < Confidence * a.entries)
                => \A g \in 1..gaps[r] : \E x \in saved : x.rule = r /\ x.gap = g

\* A group that is larger than its sample is reported as a whole or not at all,
\* whichever of its gaps the agent has named.
LargeGroupsAreWhole ==
    phase = "saved" =>
        \A r \in Rules : gaps[r] > SampleSize => reported[r] \in {{}, 1..gaps[r]}

\* An agent in doubt removes nothing, and decides on large groups as a whole.
VerdictsAreSound == DoubtKeepsGaps /\ LargeGroupsAreWhole
=============================================================================
