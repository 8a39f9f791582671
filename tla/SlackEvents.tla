----------------------------- MODULE SlackEvents -----------------------------
(***************************************************************************)
(* The messages of one Slack thread: Slack delivers each until it is        *)
(* answered 200, to any process of the API; a process remembers what it has *)
(* taken, asks a guard and for a session, and makes a turn with a job.      *)
(* RcaJobs goes on from there.                                              *)
(***************************************************************************)
EXTENDS Platform

CONSTANTS
    Posts,          \* messages that mention the bot or are a monitor's (a bound)
    Apis,           \* processes that serve the API (a bound)
    MostDeliveries  \* how often Slack delivers a message at most (a bound)

ASSUME SlackEventsAssumption ==
    /\ None \notin Posts \union Apis
    /\ MostDeliveries \in Nat
    /\ IsFiniteSet(Apis) /\ IsFiniteSet(Calls)

VARIABLES
    sent,      \* how often Slack has delivered each message
    acked,     \* those answered 200
    seen,      \* for each process: its deduplication cache
    handling,  \* what a call is doing with a message
    session,   \* the thread has its session
    turns,     \* for each message: its turns, each with its job
    queued,    \* for each message: jobs whose message is in the queue
    failed,    \* for each message: jobs set to FAILED
    told,      \* messages that were answered in the thread, or not for an
               \* error of Slack's
    broken,    \* history: messages whose handler raised
    unsaved,   \* history: messages with a job that could not be set to FAILED
    restarted  \* history: a process was restarted

slackVars == <<sent, acked, seen, handling, session, turns, queued, failed,
               told, broken, unsaved, restarted>>

Handling == [step: {"idle", "guard", "select", "insert", "create", "enqueue",
                    "fail", "reply"},
             api: Apis \union {None}, post: Posts \union {None}]
Unused == [step |-> "idle", api |-> None, post |-> None]

SlackTypeOK ==
    /\ acked \subseteq Posts
    /\ sent \in [Posts -> 0..MostDeliveries]
    /\ seen \in [Apis -> SUBSET Posts]
    /\ handling \in [Calls -> Handling]
    /\ \A c \in Calls : (handling[c].step = "idle") = (handling[c].post = None)
    /\ session \in BOOLEAN
    /\ turns \in [Posts -> Nat] /\ queued \in [Posts -> Nat]
    /\ failed \in [Posts -> Nat]
    /\ told \subseteq Posts /\ broken \subseteq Posts /\ unsaved \subseteq Posts
    /\ restarted \in BOOLEAN

SlackInit ==
    /\ sent = [e \in Posts |-> 0]
    /\ acked = {}
    /\ seen = [p \in Apis |-> {}]
    /\ handling = [c \in Calls |-> Unused]
    /\ session = FALSE
    /\ turns = [e \in Posts |-> 0] /\ queued = [e \in Posts |-> 0]
    /\ failed = [e \in Posts |-> 0]
    /\ told = {} /\ broken = {} /\ unsaved = {}
    /\ restarted = FALSE

jobs == <<session, turns, queued, failed>>

-----------------------------------------------------------------------------
Delivered(e) ==
    /\ e \notin acked
    /\ sent[e] < MostDeliveries
    /\ sent' = [sent EXCEPT ![e] = @ + 1]

\* A retry that comes to a process that remembers the message is answered 200.
IgnoreDuplicate ==
    \E p \in Apis : \E e \in seen[p] :
        /\ Delivered(e)
        /\ acked' = acked \union {e}
        /\ UNCHANGED <<seen, handling, jobs, told, broken, unsaved, restarted>>

MarkThread(c) ==
    \E p \in Apis : \E e \in Posts \ seen[p] :
        /\ handling[c].step = "idle"
        /\ Delivered(e)
        /\ seen' = [seen EXCEPT ![p] = Posts]
        /\ handling' = [handling EXCEPT ![c] =
               [step |-> "guard", api |-> p, post |-> e]]
        /\ UNCHANGED <<acked, jobs, told, broken, unsaved, restarted>>

\* It is remembered before anything is done for it.
TakeEvent(c) ==
    \E p \in Apis : \E e \in Posts \ seen[p] :
        /\ handling[c].step = "idle"
        /\ Delivered(e)
        /\ seen' = [seen EXCEPT ![p] = @ \union {e}]
        /\ handling' = [handling EXCEPT ![c] =
               [step |-> "guard", api |-> p, post |-> e]]
        /\ UNCHANGED <<acked, jobs, told, broken, unsaved, restarted>>

Does(c, step) == handling[c].step = step
Goes(c, step) ==
    /\ handling' = [handling EXCEPT ![c].step = step]
    /\ UNCHANGED <<sent, acked, seen, told, broken, restarted>>

\* A thread has one session.
MakesJob(c) == (Does(c, "insert") /\ ~session) \/ Does(c, "create")

-----------------------------------------------------------------------------
\* A greeting, a command, a message the guard blocks, or one of a workspace that
\* is not set up is answered at once; so is one whose job cannot be committed.
AnswerAtOnce(c) ==
    /\ Does(c, "guard") \/ MakesJob(c)
    /\ Goes(c, "reply")
    /\ UNCHANGED <<jobs, unsaved>>

PassGuard(c) ==
    /\ Does(c, "guard")
    /\ Goes(c, "select")
    /\ UNCHANGED <<jobs, unsaved>>

SelectSession(c) ==
    /\ Does(c, "select")
    /\ Goes(c, IF session THEN "create" ELSE "insert")
    /\ UNCHANGED <<jobs, unsaved>>

\* Session, turn and job are committed together.
CreateTurn(c) ==
    /\ MakesJob(c)
    /\ session' = TRUE
    /\ turns' = [turns EXCEPT ![handling[c].post] = @ + 1]
    /\ Goes(c, "enqueue")
    /\ UNCHANGED <<queued, failed, unsaved>>

ApologizeToNobody(c) ==
    /\ \E s \in {"guard", "select", "insert", "create", "reply"} : Does(c, s)
    /\ handling' = [handling EXCEPT ![c] = [Unused EXCEPT !.step = "reply"]]
    /\ UNCHANGED <<sent, acked, seen, jobs, told, broken, unsaved, restarted>>

\* What fails before there is a job is answered 500: the clause that would
\* apologise reads a variable that has no value yet.  So is an answer that has no
\* token to be sent with.
EventFails(c) ==
    /\ \E s \in {"guard", "select", "insert", "create", "reply"} : Does(c, s)
    /\ handling' = [handling EXCEPT ![c] = Unused]
    /\ broken' = broken \union {handling[c].post}
    /\ UNCHANGED <<sent, acked, seen, jobs, told, unsaved, restarted>>

Enqueue(c) ==
    /\ Does(c, "enqueue")
    /\ queued' = [queued EXCEPT ![handling[c].post] = @ + 1]
    /\ Goes(c, "reply")
    /\ UNCHANGED <<session, turns, failed, unsaved>>

EnqueueFails(c) ==
    /\ Does(c, "enqueue")
    /\ Goes(c, "fail")
    /\ UNCHANGED <<jobs, unsaved>>

FailJob(c) ==
    /\ Does(c, "fail")
    /\ failed' = [failed EXCEPT ![handling[c].post] = @ + 1]
    /\ Goes(c, "reply")
    /\ UNCHANGED <<session, turns, queued, unsaved>>

FailJobFails(c) ==
    /\ Does(c, "fail")
    /\ unsaved' = unsaved \union {handling[c].post}
    /\ Goes(c, "reply")
    /\ UNCHANGED jobs

Reply(c) ==
    /\ Does(c, "reply")
    /\ told' = told \union {handling[c].post}
    /\ acked' = acked \union {handling[c].post}
    /\ handling' = [handling EXCEPT ![c] = Unused]
    /\ UNCHANGED <<sent, seen, jobs, broken, unsaved, restarted>>

Restart(p) ==
    /\ seen[p] # {}
    /\ seen' = [seen EXCEPT ![p] = {}]
    /\ handling' = [c \in Calls |->
           IF handling[c].api = p THEN Unused ELSE handling[c]]
    /\ restarted' = TRUE
    /\ UNCHANGED <<sent, acked, jobs, told, broken, unsaved>>

-----------------------------------------------------------------------------
SlackStep(c) ==
    \/ TakeEvent(c) \/ AnswerAtOnce(c) \/ PassGuard(c) \/ SelectSession(c)
    \/ CreateTurn(c) \/ EventFails(c) \/ Enqueue(c) \/ EnqueueFails(c)
    \/ FailJob(c) \/ FailJobFails(c) \/ Reply(c)

SlackNext ==
    \/ IgnoreDuplicate
    \/ \E c \in Calls : SlackStep(c)
    \/ \E p \in Apis : Restart(p)

SlackSpec == SlackInit /\ [][SlackNext]_slackVars

-----------------------------------------------------------------------------
Handled(e) == \A c \in Calls : handling[c].post # e

\* However often and wherever Slack delivers a message, no process makes two
\* turns of it, until it is restarted.
OneTurnPerProcess ==
    ~restarted => \A e \in Posts :
        turns[e] <= Cardinality({p \in Apis : e \in seen[p]})

\* What Slack will not deliver again has been answered, unless its handler
\* raised or a process was restarted: a retry is not taken for an answer.
AckedIsAnswered ==
    ~restarted => \A e \in acked \ broken : Handled(e) => e \in told

\* Nobody waits for a job that neither a worker nor anyone else will touch,
\* unless a process is restarted in between or the database fails as well.
NoForgottenJob ==
    ~restarted => \A e \in Posts \ unsaved :
        Handled(e) => turns[e] = queued[e] + failed[e]

\* What a workspace on Slack can rely on: no question is asked twice by one
\* process, none that was acknowledged stays without a reply, no job is forgotten.
DeliveriesAreSound == OneTurnPerProcess /\ AckedIsAnswered /\ NoForgottenJob
=============================================================================
