---------------------------- MODULE RedReadiness ----------------------------
(***************************************************************************)
(* Whether a code base measures rate, errors and duration of its requests:  *)
(* rule_engine/red_rules.py.  The metrics library is that of the first file *)
(* that imports one; the middleware is searched for a counter and for a     *)
(* histogram next to attributes of a request; each of the files in turn     *)
(* replaces what an earlier one has shown.                                  *)
(***************************************************************************)
EXTENDS Naturals, Sequences, FiniteSets, SequencesExt, Selections

CONSTANTS
    SourceFiles,  \* files a code base may consist of, see IsSourceFile
    MostSources   \* bound

VARIABLE codebase   \* file_contents, in order
redVars == <<codebase>>

Libraries == {"otel", "prometheus", "unknown"}
CounterMethods == [otel |-> {"add"}, prometheus |-> {"inc", "labels"}, unknown |-> {"add", "inc"}]
HistogramMethods ==
    [otel |-> {"record"}, prometheus |-> {"observe", "labels"}, unknown |-> {"record", "observe"}]

\* What stands for the attribute keys that mean the same to the rules.
Attributes == {"method", "status", "endpoint", "other"}
HttpAttributes == {"method", "status"}

\* "calls" are the metric calls with the attributes near them; "rate" and
\* "duration" the attributes near a well-known metric name, if one is there.
IsSourceFile(f) ==
    /\ f.imports \in Libraries \union {"none"} /\ f.middleware \in BOOLEAN
    /\ \A k \in DOMAIN f.calls : f.calls[k].keys \subseteq Attributes
    /\ f.rate \in SUBSET SUBSET Attributes /\ f.duration \in SUBSET SUBSET Attributes

ASSUME RedAssumption == MostSources \in Nat /\ \A f \in SourceFiles : IsSourceFile(f)

-----------------------------------------------------------------------------
DetectMetricsLibrary(files) ==
    LET importing == Filtered(files, {f \in SourceFiles : f.imports # "none"})
    IN  IF importing = <<>> THEN "unknown" ELSE importing[1].imports

\* Where nothing is middleware, the first file with a well-known name is.
FindMiddlewareFiles(files) ==
    LET middleware == Filtered(files, {f \in SourceFiles : f.middleware})
        rated == Filtered(files, {f \in SourceFiles : f.rate # {}})
        timed == Filtered(files, {f \in SourceFiles : f.duration # {}})
        one(s) == IF s = <<>> THEN <<>> ELSE <<s[1]>>
    IN  IF middleware # <<>> THEN middleware
        ELSE IF one(rated) = one(timed) THEN one(rated) ELSE one(rated) \o one(timed)

\* The attributes of the first call of these methods that is about a request.
FirstHttpCall(f, methods) ==
    LET calls == Filtered(f.calls, {c \in Range(f.calls) :
                        c.method \in methods /\ c.keys \intersect HttpAttributes # {}})
    IN  IF calls = <<>> THEN {} ELSE {calls[1].keys}

\* What the last file that has one shows; else the first with a known name.
FindMetric(shown, named) ==
    LET showing == Filtered(shown, Range(shown) \ {{}})
        naming == Filtered(named, Range(named) \ {{}})
    IN  IF showing # <<>> THEN Last(showing) ELSE IF naming # <<>> THEN Head(naming) ELSE {}

FindRate(files, library) ==
    FindMetric([k \in DOMAIN files |-> FirstHttpCall(files[k], CounterMethods[library])],
               [k \in DOMAIN files |-> files[k].rate])
FindDuration(files, library) ==
    FindMetric([k \in DOMAIN files |-> FirstHttpCall(files[k], HistogramMethods[library])],
               [k \in DOMAIN files |-> files[k].duration])

HasIn(metric, key) == \E keys \in metric : key \in keys

EndpointOnEither(rate, duration) ==   \* Faulty: one of the two is enough.
    HasIn(rate, "endpoint") \/ HasIn(duration, "endpoint")
EndpointFound(rate, duration) == HasIn(rate, "endpoint") /\ HasIn(duration, "endpoint")

Ready(rate, duration) ==
    rate # {} /\ HasIn(rate, "status") /\ duration # {} /\ EndpointFound(rate, duration)

\* RED_001 to RED_004; without a file there is nothing to say.
EvaluateRedReadiness(files) ==
    LET middleware == FindMiddlewareFiles(files)
        library == DetectMetricsLibrary(files)
        rate == FindRate(middleware, library)
        duration == FindDuration(middleware, library)
        when(rule, missing) == IF missing THEN {rule} ELSE {}
    IN  IF files = <<>> THEN [ready |-> FALSE, gaps |-> {}]
        ELSE IF middleware = <<>>
        THEN [ready |-> FALSE, gaps |-> {"RED_001", "RED_002", "RED_003", "RED_004"}]
        ELSE [ready |-> Ready(rate, duration),
              gaps |-> when("RED_001", rate = {})
                  \union when("RED_002", rate # {} /\ ~HasIn(rate, "status"))
                  \union when("RED_003", duration = {})
                  \union when("RED_004", (rate # {} \/ duration # {})
                                 /\ ~(HasIn(rate, "endpoint") /\ HasIn(duration, "endpoint")))]

-----------------------------------------------------------------------------
RedInit == codebase = <<>>
AddSource == \E f \in SourceFiles :
    Len(codebase) < MostSources /\ codebase' = Append(codebase, f)
RedNext == AddSource
RedSpec == RedInit /\ [][RedNext]_redVars

RedTypeOK == \A k \in DOMAIN codebase : IsSourceFile(codebase[k])

\* The report and the gaps, which are computed apart, agree: a code base is
\* ready exactly when no gap is reported.
ReadyMeansNoGap ==
    LET report == EvaluateRedReadiness(codebase)
    IN  codebase # <<>> => (report.ready <=> report.gaps = {})

\* What is neither middleware nor imports a metrics library changes nothing,
\* as soon as there is middleware.
OnlyMiddlewareCounts ==
    LET relevant == Filtered(codebase, {f \in SourceFiles : f.middleware \/ f.imports # "none"})
    IN  (\E k \in DOMAIN codebase : codebase[k].middleware)
            => EvaluateRedReadiness(codebase) = EvaluateRedReadiness(relevant)

RedIsSound == ReadyMeansNoGap /\ OnlyMiddlewareCounts
=============================================================================
