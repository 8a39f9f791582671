------------------------------ MODULE ChatFeed ------------------------------
(***************************************************************************)
(* What a turn of the web chat gathers around its answer: the steps that    *)
(* WebProgressCallback stores while the agent calls tools, and the votes of *)
(* its readers.  The callback remembers the running step in one field; an   *)
(* executor may start several tools at once.  A vote is read and written    *)
(* without a lock, and only a changed column is written.                    *)
(***************************************************************************)
EXTENDS Naturals, Sequences, FiniteSets

CONSTANTS
    Tools,      \* calls of tools in one turn
    Voters,     \* readers, of the web or of Slack
    Ballots     \* requests that vote
ASSUME FeedAssumption == IsFiniteSet(Tools)

VARIABLES
    steps,       \* turn_steps, as [tool, status, sequence]
    tool,        \* [call of a tool -> what its callbacks are doing]
    currentStep, \* _current_step_id, a position in steps; 0 for none
    parallel,    \* whether two tools have been under way at the same time
    muffled,     \* whether Redis has refused an event
    vote,        \* [voter -> is_positive in turn_feedbacks, {} if no row]
    ballot,      \* [request -> whose vote it is, and what it has read]
    confirmed,   \* [voter -> the last vote that was answered 200]
    crossedVoters \* voters with two votes at the same time

stepVars == <<steps, tool, currentStep, parallel, muffled>>
voteVars == <<vote, ballot, confirmed, crossedVoters>>
feedVars == <<stepVars, voteVars>>

Await(t, s) == tool' = [tool EXCEPT ![t].step = s]
\* The callbacks of a turn share the worker's database session, which serves
\* one at a time and raises for the other.
SessionInUse(t) == \E u \in Tools \ {t} : tool[u].step \in {"insert", "update"}

Parallel(t) == parallel' =
    (parallel \/ \E u \in Tools \ {t} : tool[u].step \notin {"new", "over"})

-----------------------------------------------------------------------------
(* Steps.                                                                  *)

\* add_turn_step reads the largest sequence of the turn ...
WebToolStart(t) ==
    /\ tool[t].step = "new"
    /\ tool' = [tool EXCEPT ![t] = [step |-> "insert", seq |-> Len(steps) + 1,
                                    id |-> 0, end |-> "none"]]
    /\ Parallel(t)
    /\ UNCHANGED <<steps, currentStep, muffled>>

\* ... and inserts the next one, committed at once.
AddTurnStep(t) ==
    /\ tool[t].step = "insert"
    /\ \/ /\ steps' = Append(steps, [tool |-> t, status |-> "running", sequence |-> tool[t].seq])
          /\ Await(t, "publish")
       \/ SessionInUse(t) /\ Await(t, "runs") /\ UNCHANGED steps
    /\ UNCHANGED <<currentStep, parallel, muffled>>

StepRemembered(t) == CHOOSE k \in DOMAIN steps : steps[k].tool = t

\* The event is published, then the step is remembered for the tool's end.
\* What raises in a callback is logged and dropped; the tool runs.
PublishToolStart(t) ==
    /\ tool[t].step = "publish"
    /\ \/ currentStep' = StepRemembered(t) /\ UNCHANGED muffled
       \/ muffled' = TRUE /\ UNCHANGED currentStep
    /\ Await(t, "runs")
    /\ UNCHANGED <<steps, parallel>>

\* on_tool_end and on_tool_error end the step that is remembered.
WebToolEnd(t, status) ==
    /\ tool[t].step = "runs"
    /\ tool' = [tool EXCEPT ![t] = [step |-> "update", seq |-> @.seq,
                                    id |-> currentStep, end |-> status]]
    /\ UNCHANGED <<steps, currentStep, parallel, muffled>>

UpdateStepStatus(t) ==
    /\ tool[t].step = "update"
    /\ \/ /\ steps' = IF tool[t].id = 0 THEN steps
                      ELSE [steps EXCEPT ![tool[t].id].status = tool[t].end]
          /\ Await(t, "publishEnd")
       \/ tool[t].id # 0 /\ SessionInUse(t) /\ Await(t, "over") /\ UNCHANGED steps
    /\ UNCHANGED <<currentStep, parallel, muffled>>

PublishToolEnd(t) ==
    /\ tool[t].step = "publishEnd"
    /\ \/ currentStep' = 0 /\ UNCHANGED muffled
       \/ muffled' = TRUE /\ UNCHANGED currentStep
    /\ Await(t, "over")
    /\ UNCHANGED <<steps, parallel>>

-----------------------------------------------------------------------------
(* Votes.                                                                  *)

\* The request reads the row of its voter; {} when there is none.
ReadVote(b, v, up) ==
    /\ ballot[b].step = "new"
    /\ ballot' = [ballot EXCEPT ![b] = [step |-> "write", of |-> {v}, up |-> up, seen |-> vote[v]]]
    /\ crossedVoters' = IF \E d \in Ballots : ballot[d].step = "write" /\ v \in ballot[d].of
                  THEN crossedVoters \union {v} ELSE crossedVoters
    /\ UNCHANGED <<vote, confirmed>>

WriteVoteAnyway(b) ==   \* Faulty: a first vote stays what it was.
    /\ ballot[b].step = "write"
    /\ \E v \in ballot[b].of :
        /\ vote' = [vote EXCEPT ![v] = IF @ = {} THEN {ballot[b].up} ELSE @]
        /\ confirmed' = [confirmed EXCEPT ![v] = {ballot[b].up}]
    /\ ballot' = [ballot EXCEPT ![b].step = "over"]
    /\ UNCHANGED crossedVoters

\* Insert, or update the column if it differs from what was read; the second
\* of two inserts violates the unique constraint and is answered 500.
SubmitTurnFeedback(b) ==
    /\ ballot[b].step = "write"
    /\ \E v \in ballot[b].of :
        LET unchanged == ballot[b].seen = {ballot[b].up}
            refused == ballot[b].seen = {} /\ vote[v] # {}
        IN  /\ vote' = IF unchanged \/ refused THEN vote
                       ELSE [vote EXCEPT ![v] = {ballot[b].up}]
            /\ confirmed' = IF refused THEN confirmed
                            ELSE [confirmed EXCEPT ![v] = {ballot[b].up}]
    /\ ballot' = [ballot EXCEPT ![b].step = "over"]
    /\ UNCHANGED crossedVoters

-----------------------------------------------------------------------------
FeedInit ==
    /\ steps = <<>> /\ currentStep = 0 /\ parallel = FALSE /\ muffled = FALSE
    /\ tool = [t \in Tools |-> [step |-> "new", seq |-> 0, id |-> 0, end |-> "none"]]
    /\ vote = [v \in Voters |-> {}] /\ confirmed = [v \in Voters |-> {}] /\ crossedVoters = {}
    /\ ballot = [b \in Ballots |-> [step |-> "new", of |-> {}, up |-> FALSE, seen |-> {}]]

FeedNext ==
    \/ /\ \E t \in Tools :
            \/ WebToolStart(t) \/ AddTurnStep(t) \/ PublishToolStart(t)
            \/ \E status \in {"completed", "failed"} : WebToolEnd(t, status)
            \/ UpdateStepStatus(t) \/ PublishToolEnd(t)
       /\ UNCHANGED voteVars
    \/ /\ \E b \in Ballots :
            \/ \E v \in Voters, up \in BOOLEAN : ReadVote(b, v, up)
            \/ SubmitTurnFeedback(b)
       /\ UNCHANGED stepVars

FeedSpec == FeedInit /\ [][FeedNext]_feedVars

FeedTypeOK ==
    /\ steps \in Seq([tool : Tools, status : {"running", "completed", "failed"}, sequence : Nat])
    /\ tool \in [Tools -> [step : {"new", "insert", "publish", "runs", "update", "publishEnd", "over"},
                           seq : Nat, id : 0..Len(steps), end : {"none", "completed", "failed"}]]
    /\ currentStep \in 0..Len(steps)
    /\ parallel \in BOOLEAN /\ muffled \in BOOLEAN
    /\ vote \in [Voters -> SUBSET BOOLEAN] /\ confirmed \in [Voters -> SUBSET BOOLEAN]
    /\ crossedVoters \subseteq Voters
    /\ ballot \in [Ballots -> [step : {"new", "write", "over"}, of : SUBSET Voters,
                               up : BOOLEAN, seen : SUBSET BOOLEAN]]

\* One tool at a time and every event published: a step ends as its tool did,
\* and the steps are numbered in the order in which they began.
StepsEndAsTheirTools == ~parallel /\ ~muffled =>
    \A k \in DOMAIN steps :
        /\ steps[k].sequence = k
        /\ tool[steps[k].tool].step = "over" => steps[k].status = tool[steps[k].tool].end

\* However the tools overlap, no step ends without a tool that ended so.
EndsAreEarned ==
    Cardinality({k \in DOMAIN steps : steps[k].status # "running"})
        <= Cardinality({t \in Tools : tool[t].step \in {"publishEnd", "over"}})

\* A vote that was answered 200 stays until the same reader votes again, if
\* the reader's requests do not cross.
LastVoteStands == \A v \in Voters \ crossedVoters : vote[v] = confirmed[v]

\* One row per reader, with the last vote; a step for every tool, ended once.
FeedIsSound ==
    /\ StepsEndAsTheirTools /\ EndsAreEarned /\ LastVoteStands
    /\ \A v \in Voters : Cardinality(vote[v]) <= 1
=============================================================================
