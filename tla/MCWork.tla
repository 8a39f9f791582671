------------------------------- MODULE MCWork -------------------------------
(***************************************************************************)
(* The work that is done for the users, for TLC: the questions and their   *)
(* jobs, and the parts of a health review behind its queue.  Each part is  *)
(* explored on its own: they share no state.                               *)
(***************************************************************************)
EXTENDS RcaJobs, RcaAgent, SlackProgress, ReviewRequests, ReviewAnalysis, GapVerdicts,
        ReviewScores, GapRules, RedReadiness, TLC

CONSTANT Parts   \* the parts to explore
VARIABLE part    \* the one that this behaviour is about

Only(p) == part = p /\ part' = part

PartsInit ==
    /\ part \in Parts
    /\ Init /\ RequestsInit /\ AgentInit /\ ProgressInit
    /\ AnalysisInit /\ VerdictsInit /\ ScoresInit /\ FactsInit /\ RedInit

jobVars == <<vars, agentVars, progressVars>>
deskVars == <<orderVars, analysisVars, verdictVars>>
ruleVars == <<scoreVars, factVars, redVars>>

PartsNext ==
    \/ /\ Only("questions") /\ Next
       /\ UNCHANGED <<agentVars, progressVars, deskVars, ruleVars>>
    \/ /\ Only("agent") /\ AgentNext
       /\ UNCHANGED <<vars, progressVars, deskVars, ruleVars>>
    \/ /\ Only("progress") /\ ProgressNext
       /\ UNCHANGED <<vars, agentVars, deskVars, ruleVars>>
    \/ /\ Only("requests") /\ RequestsNext
       /\ UNCHANGED <<analysisVars, verdictVars, jobVars, ruleVars>>
    \/ /\ Only("analysis") /\ AnalysisNext
       /\ UNCHANGED <<orderVars, verdictVars, jobVars, ruleVars>>
    \/ /\ Only("verdicts") /\ VerdictsNext
       /\ UNCHANGED <<orderVars, analysisVars, jobVars, ruleVars>>
    \/ /\ Only("scores") /\ ScoresNext
       /\ UNCHANGED <<factVars, redVars, jobVars, deskVars>>
    \/ /\ Only("rules") /\ FactsNext
       /\ UNCHANGED <<scoreVars, redVars, jobVars, deskVars>>
    \/ /\ Only("red") /\ RedNext
       /\ UNCHANGED <<scoreVars, factVars, jobVars, deskVars>>

WorkSpec == PartsInit /\ [][PartsNext]_<<part, jobVars, deskVars, ruleVars>>

PartsSymmetry == Permutations(Subjects) \union Permutations(Clerks)

\* Grafana comes before Datadog.
AskedProviders == <<"grafana", "datadog">>

\* One request when there are two reviews, one review of no named week.
FewOrders ==
    /\ created + Cardinality(UNION {order[c].new : c \in Clerks}) <= 2
         \/ \E c \in Clerks : order[c].step = "idle"
    /\ Cardinality({c \in Clerks : order[c].step = "check" /\ order[c].period.start = Rolling})
         + Cardinality({r \in reviews : r.period.start = Rolling}) <= 1
    /\ Cardinality(unpublished) <= 1
    /\ enqueued \subseteq {r.id : r \in reviews}

\* Two runners at a time only for the first commits, one of them before it looks for
\* gaps and one still synchronising; the last commit is the head, and for a service
\* without a review.
FewLooks ==
    LET busy == Cardinality({r \in Runners : work[r].step # "idle"})
    IN  /\ busy = 2 =>
              /\ Len(code) <= 2
              /\ \E r \in Runners : work[r].step \in {"sync", "parse"}
              /\ \A r \in Runners : work[r].step \notin {"extract", "discover"}
        /\ Len(code) = 3 =>
              /\ head = 3
              /\ \E s \in Reviewed : done[s] = 0 /\ \A r \in Runners : work[r].svc # s

\* Of the two questions none outlasts its time, and one is deleted; the client
\* leaves when it has been told.
FewQuestions ==
    /\ \A t \in Turns : told[t] = "nothing" /\ ~overdue[t]
    /\ Cardinality({t \in Turns : turn[t] = "deleted"}) <= 1

\* Four messages in the thread.
ShortThread == Len(thread) <= 4

Few == FewOrders /\ FewLooks /\ FewQuestions /\ ShortThread

\* Functions of two sizes and one inside another, with a handler, a catch, a call
\* or a line of telemetry at their ends, and outside of every function.
Fact(t, a, b, n, m) == [type |-> t, from |-> a, to |-> b, of |-> n, mark |-> m]
SomeFacts ==
  {Fact("function", 1, 4, "get", ""), Fact("function", 5, 6, "put", ""), Fact("function", 2, 3, "get", ""),
   Fact("http_handler", 1, 1, "get", "function"), Fact("http_handler", 5, 5, "put", "controller_class"),
   Fact("try_except", 2, 3, "get", ""), Fact("try_except", 5, 6, "put", ""), Fact("try_except", 7, 7, "<module>", ""),
   Fact("external_io", 3, 3, "", ""), Fact("external_io", 6, 6, "", ""),
   Fact("logging_call", 1, 1, "", "info"), Fact("logging_call", 3, 3, "", "error"), Fact("logging_call", 5, 5, "", "info"),
   Fact("metrics_call", 2, 2, "", ""), Fact("metrics_call", 6, 6, "", "")}

\* Files with and without a library, a middleware and calls that record metrics
\* with all, some or other attributes.
Src(i, m, c, r, d) == [imports |-> i, middleware |-> m, calls |-> c, rate |-> r, duration |-> d]
Call(m, keys) == [method |-> m, keys |-> keys]
All == {"method", "status", "endpoint"}
SomeSources ==
  {Src("none", FALSE, <<>>, {}, {}), Src("otel", FALSE, <<>>, {}, {}), Src("prometheus", FALSE, <<>>, {}, {}),
   Src("none", FALSE, <<Call("add", All)>>, {All}, {}), Src("none", FALSE, <<>>, {}, {All}),
   Src("none", FALSE, <<>>, {{"other"}}, {{"other"}}),
   Src("none", TRUE, <<>>, {}, {}), Src("none", TRUE, <<>>, {All}, {All}),
   Src("none", TRUE, <<Call("add", All), Call("record", All)>>, {}, {}),
   Src("otel", TRUE, <<Call("add", {"method"}), Call("record", All)>>, {}, {}),
   Src("none", TRUE, <<Call("add", All), Call("record", {"status"})>>, {}, {}),
   Src("none", TRUE, <<Call("labels", All)>>, {}, {}),
   Src("prometheus", TRUE, <<Call("inc", {"other"}), Call("labels", All)>>, {}, {})}

\* What the agent concludes from, and what Slack is shown of its work.
AnswersAreSound == AgentIsSound /\ ProgressIsSound

\* What the rules find, and what an agent's word removes of it.
GapsAreSound == RulesAreSound /\ VerdictsAreSound

\* The types of every part.
WorkTypeOK ==
    /\ TypeOK /\ AgentTypeOK /\ ProgressTypeOK /\ RequestsTypeOK /\ AnalysisTypeOK
    /\ VerdictsTypeOK /\ ScoresTypeOK /\ FactsTypeOK /\ RedTypeOK
=============================================================================
