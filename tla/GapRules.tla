------------------------------ MODULE GapRules ------------------------------
(***************************************************************************)
(* The rules that find where a file logs and measures too little, from the  *)
(* facts that the code parser extracted from it: rule_engine/rules.py.  The *)
(* facts of a file are a list, and where two would do, a rule takes the     *)
(* first.  One file: the rules look at each on its own, but for MET_003,    *)
(* which asks whether any metric exists.                                    *)
(***************************************************************************)
EXTENDS Naturals, Sequences, FiniteSets

CONSTANTS
    Candidates,   \* facts that a parser may extract, see Fact
    MinLines,     \* 50: from how many lines on a function is large
    MostFacts     \* bound

VARIABLE facts    \* what was extracted, in order
factVars == <<facts>>

\* "from" and "to" are lines; "of" is the function's name, the function that
\* the parser saw around a try, or nothing; "mark" a handler's kind or a level.
FactTypes == {"function", "http_handler", "try_except", "external_io", "logging_call",
              "metrics_call"}
IsFact(f) == f.type \in FactTypes /\ f.from \in Nat /\ f.to \in Nat /\ f.from <= f.to

ASSUME GapRulesAssumption ==
    /\ MinLines \in Nat /\ MostFacts \in Nat
    /\ \A f \in Candidates : IsFact(f)

ErrorLevels == {"error", "exception", "critical", "fatal"}

-----------------------------------------------------------------------------
Facts(t) == {facts[k] : k \in {j \in DOMAIN facts : facts[j].type = t}}
\* The first fact that is among S.
FirstOf(S) == facts[CHOOSE k \in DOMAIN facts :
                      facts[k] \in S /\ \A j \in 1..(k - 1) : facts[j] \notin S]
FirstIfAny(S) == IF S = {} THEN {} ELSE {FirstOf(S)}

FactsStrictlyInRange(t, f) ==   \* Faulty: a fact on the first line is missed.
    {g \in Facts(t) : g.from > f.from /\ g.to <= f.to}

FactsInRange(t, f) == {g \in Facts(t) : g.from >= f.from /\ g.to <= f.to}
HasFactInRange(t, f) == FactsInRange(t, f) # {}

GetEnclosingFunction(f) ==
    FirstIfAny({g \in Facts("function") : g.from <= f.from /\ g.to >= f.to})

Gap(rule, names) == [rule |-> rule, of |-> names]
Handlers == {h \in Facts("http_handler") : h.mark # "controller_class"}

\* The functions around the facts S; of several with one name, the one around
\* the first such fact.
AroundFirst(S) ==
    LET around(s) == GetEnclosingFunction(s)
        named(n) == {s \in S : \E f \in around(s) : f.of = n}
    IN  UNION {around(FirstOf(named(n))) : n \in {f.of : f \in UNION {around(s) : s \in S}}}

\* The functions around the first try of each name that a try was given.
AroundFirstTry ==
    LET tries(n) == {t \in Facts("try_except") : t.of = n}
    IN  UNION {GetEnclosingFunction(FirstOf(tries(n)))
                : n \in {t.of : t \in Facts("try_except")} \ {"<module>"}}
NameOfFirstTry(f) ==
    {n \in {t.of : t \in Facts("try_except")} \ {"<module>"} :
        f \in GetEnclosingFunction(FirstOf({t \in Facts("try_except") : t.of = n}))}

\* LOG_001 to LOG_005; a problem of the same rule and names is reported once.
RuleSilentException ==
    {Gap("LOG_001", {t.of}) : t \in {u \in Facts("try_except") : ~HasFactInRange("logging_call", u)}}
RuleHttpHandlerNoLogging ==
    {Gap("LOG_002", {h.of}) : h \in {g \in Handlers :
        \E f \in FirstIfAny({d \in Facts("function") : d.of = g.of}) :
            ~HasFactInRange("logging_call", f)}}
RuleExternalIoNoLogging ==
    {Gap("LOG_003", {f.of}) : f \in {g \in AroundFirst(Facts("external_io")) :
        ~HasFactInRange("logging_call", g)}}
RuleErrorPathNoErrorLog ==
    UNION {{Gap("LOG_004", {n}) : n \in NameOfFirstTry(f)} : f \in {g \in AroundFirstTry :
        \A l \in FactsInRange("logging_call", g) : l.mark \notin ErrorLevels}}
RuleLargeFunctionNoLogging ==
    {Gap("LOG_005", {f.of}) : f \in {g \in Facts("function") :
        g.to - g.from >= MinLines /\ ~HasFactInRange("logging_call", g)}}

\* MET_001 to MET_004.
RuleHttpHandlerNoMetrics ==
    IF Handlers # {} /\ Facts("metrics_call") = {}
    THEN {Gap("MET_001", {h.of : h \in Handlers})} ELSE {}
RuleExternalIoNoLatency ==
    {Gap("MET_002", {f.of}) : f \in {g \in AroundFirst(Facts("external_io")) :
        ~HasFactInRange("metrics_call", g)}}
RuleNoBusinessMetrics ==
    IF Facts("metrics_call") = {} /\ Facts("function") # {} THEN {Gap("MET_003", {})} ELSE {}
RuleErrorNoCounter ==
    UNION {{Gap("MET_004", {n}) : n \in NameOfFirstTry(f)} : f \in {g \in AroundFirstTry :
        ~HasFactInRange("metrics_call", g)}}

LoggingGaps == RuleSilentException \union RuleHttpHandlerNoLogging \union RuleExternalIoNoLogging
    \union RuleErrorPathNoErrorLog \union RuleLargeFunctionNoLogging
MetricsGaps == RuleHttpHandlerNoMetrics \union RuleExternalIoNoLatency
    \union RuleNoBusinessMetrics \union RuleErrorNoCounter
Evaluate == LoggingGaps \union MetricsGaps

-----------------------------------------------------------------------------
FactsInit == facts = <<>>

\* Another fact of the file.
Extract == \E f \in Candidates :
    /\ Len(facts) < MostFacts
    /\ \A k \in DOMAIN facts : facts[k] # f
    /\ facts' = Append(facts, f)

FactsNext == Extract
FactsSpec == FactsInit /\ [][FactsNext]_factVars

FactsTypeOK == \A k \in DOMAIN facts : IsFact(facts[k])

-----------------------------------------------------------------------------
(* What the rules mean, function by function.                              *)

In(t, f) == {g \in Facts(t) : f.from <= g.from /\ g.to <= f.to}
\* Every function has a name of its own and none lies in another, and the
\* parser saw around each try what is around it.
Plain ==
    /\ \A f, g \in Facts("function") : f # g => f.of # g.of /\ (f.to < g.from \/ g.to < f.from)
    /\ \A t \in Facts("try_except") :
        LET around == {f \in Facts("function") : f.from <= t.from /\ t.to <= f.to}
        IN  IF t.of = "<module>" THEN around = {} ELSE \E f \in around : f.of = t.of

Silent(f) == In("logging_call", f) = {}
Unmeasured(f) == In("metrics_call", f) = {}
MeantFor(f) ==
    {Gap("LOG_002", {f.of}) : h \in {g \in Handlers : g.of = f.of /\ Silent(f)}}
    \union {Gap("LOG_003", {f.of}) : i \in {g \in In("external_io", f) : Silent(f)}}
    \union {Gap("LOG_004", {f.of}) : t \in {g \in In("try_except", f) :
              In("logging_call", f) \intersect {l \in Facts("logging_call") : l.mark \in ErrorLevels} = {}}}
    \union (IF Silent(f) /\ f.to - f.from >= MinLines THEN {Gap("LOG_005", {f.of})} ELSE {})
    \union {Gap("MET_002", {f.of}) : i \in {g \in In("external_io", f) : Unmeasured(f)}}
    \union {Gap("MET_004", {f.of}) : t \in {g \in In("try_except", f) : Unmeasured(f)}}

\* In a plain file the rules about functions report of each exactly what it
\* lacks, whatever the order of the facts.
RulesMeanThat == Plain =>
    {g \in Evaluate : g.rule \in {"LOG_002", "LOG_003", "LOG_004", "LOG_005", "MET_002", "MET_004"}}
        = UNION {MeantFor(f) : f \in Facts("function")}

\* In any file, a rule that is about a function has seen it lack something:
\* some function of that name is silent or unmeasured, or it has a try without
\* an error logged.
NoGapOutOfNothing == \A g \in Evaluate :
    /\ g.rule \in {"LOG_002", "LOG_003", "LOG_005"} =>
          \E f \in Facts("function") : {f.of} = g.of /\ Silent(f)
    /\ g.rule = "MET_002" => \E f \in Facts("function") : {f.of} = g.of /\ Unmeasured(f)
    /\ g.rule \in {"MET_001", "MET_003"} => Facts("metrics_call") = {}

RulesAreSound == RulesMeanThat /\ NoGapOutOfNothing
=============================================================================
