---------------------------- MODULE ReviewScores ----------------------------
(***************************************************************************)
(* The numbers of a health review: what the connected providers say of the *)
(* service in the week, merged metric by metric, and the scores that are   *)
(* made of it and compared with those of the previous review.              *)
(*                                                                         *)
(* Numbers are scaled so that the code's floats are exact: a latency in    *)
(* milliseconds, an error rate and an availability in ten-thousandths of   *)
(* the unit the code has them in.  The truncations of the code are here.   *)
(***************************************************************************)
EXTENDS Naturals, Sequences, SequencesExt

CONSTANTS
    Providers,      \* the providers, first choice first: "grafana", "datadog", ...
    MaxLogs,        \* MAX_LOG_SAMPLES
    Latencies, ErrorRates, Availabilities, Throughputs,  \* what they may measure
    GapCounts,      \* gaps that a review may report
    NoValue, NaN       \* no value; the quantile of no requests

ASSUME ScoresAssumption ==
    /\ Providers \in Seq({"grafana", "datadog", "newrelic", "cloudwatch"}) \ {<<>>}
    /\ MaxLogs \in Nat \ {0}
    /\ Latencies \union ErrorRates \union Availabilities \union Throughputs
         \union GapCounts \subseteq Nat
    /\ NoValue # NaN /\ {NoValue, NaN} \intersect Nat = {}

VARIABLES
    stage,     \* "idle", "logs", "metrics" or "scored"
    healthy,   \* providers with a healthy integration
    next,      \* the provider that is asked next
    logs,      \* log entries collected
    metrics,   \* MetricsData, merged so far
    counted,   \* gaps of the review
    previous   \* the review before, if there is one: its metrics and gaps

scoreVars == <<stage, healthy, next, logs, metrics, counted, previous>>

Whole == 1000000   \* an availability of 100 %

MetricsData == [latency: Latencies \union {NoValue, NaN}, errors: ErrorRates \union {NoValue},
                up: Availabilities \union {Whole - e : e \in ErrorRates} \union {NoValue},
                throughput: Throughputs \union {NoValue}]
NoMetrics == [latency |-> NoValue, errors |-> NoValue, up |-> NoValue, throughput |-> NoValue]

ScoresTypeOK ==
    /\ stage \in {"idle", "logs", "metrics", "scored"}
    /\ healthy \subseteq Range(Providers)
    /\ next \in 1..(Len(Providers) + 1)
    /\ logs \in 0..(2 * MaxLogs - 1)
    /\ metrics \in MetricsData
    /\ counted \in GapCounts \union {0}
    /\ Len(previous) <= 1
    /\ previous \in Seq([metrics: MetricsData, gaps: GapCounts])

ScoresInit ==
    /\ stage = "idle"
    /\ healthy = {}
    /\ next = 1
    /\ logs = 0
    /\ metrics = NoMetrics
    /\ counted = 0
    /\ previous = <<>>

-----------------------------------------------------------------------------
(* Collecting. *)

\* The capabilities of the healthy integrations are resolved once.
StartCollecting(found) ==
    /\ stage \in {"idle", "scored"}
    /\ stage' = "logs"
    /\ healthy' = found
    /\ next' = 1
    /\ logs' = 0
    /\ metrics' = NoMetrics
    /\ counted' = 0
    /\ previous' = IF stage = "idle" THEN previous
                   ELSE <<[metrics |-> metrics, gaps |-> counted]>>

ToMetrics == stage' = "metrics" /\ next' = 1
Onwards == IF next = Len(Providers) THEN ToMetrics ELSE UNCHANGED stage /\ next' = next + 1

WantsLogs == logs < MaxLogs

\* A provider gives at most MAX_LOG_SAMPLES entries, none if it fails; it is not
\* asked when there are enough.
CollectLogs(n) ==
    /\ stage = "logs"
    /\ n = 0 \/ (Providers[next] \in healthy /\ WantsLogs)
    /\ logs' = logs + n
    /\ Onwards
    /\ UNCHANGED <<healthy, metrics, counted, previous>>

\* Python's "or": a measured zero counts for nothing.
Or(a, b) == IF a \in {NoValue, 0} THEN b ELSE a

\* What a provider may have said when it was through, or failed on its way.
\* Grafana measures availability by itself, the others subtract the error rate;
\* CloudWatch has the throughput only with the error rate.
GrafanaMetrics ==
    [latency: Latencies \union {NoValue, NaN}, errors: ErrorRates \union {NoValue},
     up: Availabilities \union {NoValue}, throughput: Throughputs \union {NoValue}]
DatadogMetrics ==
    {[latency |-> l, errors |-> e, up |-> IF e = NoValue THEN NoValue ELSE Whole - e,
      throughput |-> t] : l \in Latencies \union {NoValue},
                          e \in ErrorRates \union {NoValue}, t \in Throughputs \union {NoValue}}
NewRelicMetrics == DatadogMetrics
CloudWatchMetrics == {m \in DatadogMetrics : (m.errors = NoValue) = (m.throughput = NoValue)}
Readings(p) == CASE p = "grafana" -> GrafanaMetrics
                 [] p = "datadog" -> DatadogMetrics
                 [] p = "newrelic" -> NewRelicMetrics
                 [] p = "cloudwatch" -> CloudWatchMetrics

CollectMetrics(reading) ==
    /\ stage = "metrics" /\ next <= Len(Providers)
    /\ reading = NoMetrics \/ Providers[next] \in healthy
    /\ metrics' = [k \in DOMAIN metrics |-> Or(metrics[k], reading[k])]
    /\ next' = next + 1
    /\ UNCHANGED <<stage, healthy, logs, counted, previous>>

\* The analysis comes between the data and the scores, with its gaps.
Score(gaps) ==
    /\ stage = "metrics" /\ next > Len(Providers)
    /\ stage' = "scored"
    /\ counted' = gaps
    /\ UNCHANGED <<healthy, next, logs, metrics, previous>>

-----------------------------------------------------------------------------
(* Health scores.  A comparison with NaN is false. *)

\* The score of the first step that v is on, or the last score.
Graded(v, steps, On(_, _), last) ==
    LET on == {i \in DOMAIN steps : On(v, steps[i][1])}
    IN  IF v = NaN \/ on = {} THEN last
        ELSE steps[CHOOSE i \in on : \A j \in on : i <= j][2]
Below(v, bound) == v < bound
AtLeast(v, bound) == v >= bound
AtMost(v, bound) == v <= bound

ScoreErrorRate(e) ==
    IF e = NoValue THEN 25 ELSE Graded(e, <<<<10, 50>>, <<100, 40>>, <<500, 25>>>>, Below, 10)
ScoreAvailability(a) ==
    IF a = NoValue THEN 25
    ELSE Graded(a, <<<<999000, 50>>, <<995000, 45>>, <<990000, 40>>, <<950000, 25>>>>,
                AtLeast, 10)
Reliability(m) == ScoreErrorRate(m.errors) + ScoreAvailability(m.up)
Performance(m) ==
    IF m.latency = NoValue THEN 50
    ELSE Graded(m.latency, <<<<100, 100>>, <<200, 90>>, <<500, 70>>, <<1000, 50>>>>,
                Below, 30)
Observability(gaps) ==
    Graded(gaps, <<<<0, 100>>, <<2, 80>>, <<5, 60>>, <<10, 40>>>>, AtMost, 20)

Overall(m, gaps) ==
    (4 * Reliability(m) + 3 * Performance(m) + 3 * Observability(gaps)) \div 10

-----------------------------------------------------------------------------
(* Service level indicators.  One that has no value scores 0. *)

AvailabilitySli(m) ==
    IF m.up = NoValue THEN 0 ELSE IF m.up >= 999000 THEN 100 ELSE (m.up * 100) \div 999000
LatencySli(m) ==
    IF m.latency \in {NoValue, NaN} \/ m.latency >= 600 THEN 0
    ELSE ((600 - m.latency) * 100) \div 600
ErrorRateSli(m) == IF m.errors = NoValue \/ m.errors >= 100 THEN 0 ELSE 100 - m.errors
ThroughputSli(m) == IF m.throughput \in {NoValue, 0} THEN 0 ELSE 100

Slis(m) == [availability |-> AvailabilitySli(m), latency |-> LatencySli(m),
            errors |-> ErrorRateSli(m), throughput |-> ThroughputSli(m)]

TrendReversed(current, before) ==   \* Faulty.
    IF before > current + 5 THEN "UP" ELSE IF before + 5 < current THEN "DOWN" ELSE "STABLE"
Trend(current, before) ==
    IF current > before + 5 THEN "UP" ELSE IF current + 5 < before THEN "DOWN" ELSE "STABLE"

\* The trends that a review saves; throughput has one only if it was measured.
Trends(m, p) ==
    {Trend(Slis(m)[k], Slis(p)[k]) :
        k \in DOMAIN Slis(m) \ (IF m.throughput \in {NoValue, 0} THEN {"throughput"} ELSE {})}

ScoresNext ==
    \/ \E found \in SUBSET Range(Providers) : StartCollecting(found)
    \/ \E n \in 0..MaxLogs : CollectLogs(n)
    \/ stage = "metrics" /\ next <= Len(Providers)
         /\ \E reading \in Readings(Providers[next]) : CollectMetrics(reading)
    \/ \E n \in GapCounts : Score(n)

ScoresSpec == ScoresInit /\ [][ScoresNext]_scoreVars

-----------------------------------------------------------------------------
NoWorse(m, p) ==
    /\ (m.latency = p.latency) \/ ({m.latency, p.latency} \subseteq Nat /\ m.latency <= p.latency)
    /\ (m.errors = p.errors) \/ ({m.errors, p.errors} \subseteq Nat /\ m.errors <= p.errors)
    /\ (m.up = p.up) \/ ({m.up, p.up} \subseteq Nat /\ m.up >= p.up)
    /\ (m.throughput = p.throughput) \/ ({m.throughput, p.throughput} \subseteq Nat
                                         /\ m.throughput >= p.throughput)

\* A service that did no worse than in the week before, by any number and in its
\* code, does not score lower, and no indicator of it points down.
NoWorseNoLower ==
    \A p \in Range(previous) :
        stage = "scored" /\ NoWorse(metrics, p.metrics) /\ counted <= p.gaps =>
            /\ Overall(metrics, counted) >= Overall(p.metrics, p.gaps)
            /\ "DOWN" \notin Trends(metrics, p.metrics)
=============================================================================
