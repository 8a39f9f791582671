--------------------------- MODULE SlackProgress ---------------------------
(***************************************************************************)
(* What a Slack thread shows of a job while the agent works on it:         *)
(* SlackProgressCallback of app/services/rca/callbacks.py, its circuit     *)
(* breaker, and the hourglass of the last step, which becomes a checkmark  *)
(* when the next one begins.  An executor may start several tools at once, *)
(* so callbacks run at the same time, one step of each between two awaits. *)
(***************************************************************************)
EXTENDS Naturals, Sequences, FiniteSets

CONSTANTS
    Steps,          \* the texts of the steps: a tool and what it is used on
    Notices,        \* the plain messages: errors, thoughts, the last words
    Callers,        \* callbacks that may run at the same time
    MaxFailures,    \* max_consecutive_failures
    MostSends       \* EXTERNAL_API_RETRY_ATTEMPTS
ASSUME ProgressAssumption ==
    MaxFailures \in Nat \ {0} /\ MostSends \in Nat \ {0} /\ Steps \intersect Notices = {}

VARIABLES
    thread,    \* what was posted to the thread, as [text, mark]
    announced, \* sent_messages
    latest,    \* last_message_ts, a position in the thread; 0 before the first
    failures,  \* consecutive_failures
    open,      \* circuit_open
    callback,  \* [caller -> what it is doing]
    stuck,     \* positions whose update Slack did not make
    unheard,   \* positions whose post was not answered in time
    abreast    \* whether two callbacks have run at the same time

progressVars == <<thread, announced, latest, failures, open, callback, stuck,
                  unheard, abreast>>

Resting == [step |-> "rest", text |-> "", old |-> 0, sends |-> 0]
Message == [text : Steps \union Notices, mark : {"hourglass", "check", "plain"}]

Idle(c) == callback[c].step = "rest"
Abreast(c) == abreast' = (abreast \/ \E d \in Callers \ {c} : ~Idle(d))

-----------------------------------------------------------------------------
(* The breaker counts what raises: the credentials or the database.  A call *)
(* that Slack refuses, or that never reaches it, returns None and succeeds. *)

RecordSuccessHalf ==   \* Faulty: the breaker is closed, its count left.
    open' = FALSE /\ failures' = failures
RecordSuccess == failures' = 0 /\ open' = FALSE
RecordFailure == failures' = failures + 1 /\ open' = (open \/ failures + 1 >= MaxFailures)

-----------------------------------------------------------------------------
\* "Skip if this exact message was already sent", and mark it before it is.
OnToolStart(c, m) ==
    /\ Idle(c)
    /\ m \in Steps \ announced
    /\ announced' = announced \union {m}
    /\ IF open THEN UNCHANGED <<callback, abreast>>
       ELSE /\ callback' = [callback EXCEPT ![c] =
                   [step |-> IF latest > 0 THEN "check" ELSE "send",
                    text |-> m, old |-> latest, sends |-> 0]]
            /\ Abreast(c)
    /\ UNCHANGED <<thread, latest, failures, open, stuck, unheard>>

\* The message of an error, a thought or an apology.
SendNotice(c, m) ==
    /\ Idle(c) /\ ~open
    /\ m \in Notices
    /\ \A k \in DOMAIN thread : thread[k].text # m
    /\ callback' = [callback EXCEPT ![c] = [step |-> "send", text |-> m, old |-> 0, sends |-> 0]]
    /\ Abreast(c)
    /\ UNCHANGED <<thread, announced, latest, failures, open, stuck, unheard>>

\* Slack makes the update, does not, or the call raises before it is asked.
UpdatePrevious(c, new) ==
    LET k == callback[c].old
    IN  \/ /\ thread' = [thread EXCEPT ![k].mark = "check"]
           /\ callback' = new
           /\ UNCHANGED <<stuck, failures, open>>
        \/ /\ stuck' = stuck \union {k}
           /\ callback' = new
           /\ UNCHANGED <<thread, failures, open>>

UpdateMessage(c) ==
    /\ callback[c].step = "check"
    /\ \/ UpdatePrevious(c, [callback EXCEPT ![c].step = "send"])
       \/ /\ RecordFailure
          /\ callback' = [callback EXCEPT ![c] = Resting]
          /\ UNCHANGED <<thread, stuck>>
    /\ UNCHANGED <<announced, latest, unheard, abreast>>

Posted(c) == Append(thread, [text |-> callback[c].text,
    mark |-> IF callback[c].text \in Steps THEN "hourglass" ELSE "plain"])

Done(c) == callback' = [callback EXCEPT ![c] = Resting]

\* Slack posts the message and says so, or refuses it; or nothing can be sent.
SendMessage(c) ==
    /\ callback[c].step = "send"
    /\ Done(c)
    /\ \/ /\ thread' = Posted(c)
          /\ latest' = IF callback[c].text \in Steps THEN Len(thread') ELSE latest
          /\ RecordSuccess
       \/ RecordSuccess /\ UNCHANGED <<thread, latest>>
       \/ callback[c].sends = 0 /\ RecordFailure /\ UNCHANGED <<thread, latest>>
    /\ UNCHANGED <<announced, stuck, unheard, abreast>>

\* Slack does not answer in time, whether or not it has posted the message: it is
\* sent again, and after the last time send_message returns None.
SendTimesOut(c) ==
    /\ callback[c].step = "send"
    /\ \/ UNCHANGED <<thread, unheard>>
       \/ thread' = Posted(c) /\ unheard' = unheard \union {Len(thread')}
    /\ IF callback[c].sends + 1 < MostSends
       THEN /\ callback' = [callback EXCEPT ![c].sends = @ + 1]
            /\ UNCHANGED <<failures, open>>
       ELSE Done(c) /\ RecordSuccess
    /\ UNCHANGED <<announced, latest, stuck, abreast>>

\* The end of an executor checks the last step, whatever the breaker says, and
\* counts nothing.
OnAgentFinish(c) ==
    /\ Idle(c) /\ latest > 0
    /\ callback' = [callback EXCEPT ![c] = [step |-> "finish", text |-> "", old |-> latest, sends |-> 0]]
    /\ Abreast(c)
    /\ UNCHANGED <<thread, announced, latest, failures, open, stuck, unheard>>

FinishMessage(c) ==
    /\ callback[c].step = "finish"
    /\ UpdatePrevious(c, [callback EXCEPT ![c] = Resting])
    /\ UNCHANGED <<announced, latest, unheard, abreast>>
-----------------------------------------------------------------------------
ProgressInit ==
    /\ thread = <<>> /\ announced = {} /\ latest = 0
    /\ failures = 0 /\ open = FALSE
    /\ callback = [c \in Callers |-> Resting]
    /\ stuck = {} /\ unheard = {} /\ abreast = FALSE

ProgressNext ==
    \E c \in Callers :
        \/ \E m \in Steps : OnToolStart(c, m)
        \/ \E m \in Notices : SendNotice(c, m)
        \/ UpdateMessage(c) \/ SendMessage(c) \/ SendTimesOut(c)
        \/ OnAgentFinish(c) \/ FinishMessage(c)

ProgressSpec == ProgressInit /\ [][ProgressNext]_progressVars
-----------------------------------------------------------------------------
ProgressTypeOK ==
    /\ thread \in Seq(Message)
    /\ announced \subseteq Steps
    /\ latest \in 0..Len(thread)
    /\ failures \in Nat /\ open \in BOOLEAN
    /\ \A c \in Callers : callback[c].old \in 0..Len(thread)
    /\ stuck \subseteq 1..Len(thread) /\ unheard \subseteq 1..Len(thread)
    /\ abreast \in BOOLEAN

\* A step is announced once, even if its tool is started twice at the same time;
\* only a post that was not answered in time is repeated.
AnnouncedOnce ==
    \A j, k \in DOMAIN thread :
        j < k /\ thread[j].text = thread[k].text /\ thread[j].text \in Steps => j \in unheard

\* One callback at a time, no step but the last one goes on looking as if it were
\* under way, unless Slack has not made the update or not said where it posted.
OnlyLastIsUnderWay ==
    ~abreast => \A k \in DOMAIN thread \ (stuck \union unheard \union {latest}) :
        thread[k].mark # "hourglass"

\* The breaker is open exactly after that many failures in a row.
BreakerCounts == open <=> failures >= MaxFailures

\* What a thread can show.
ProgressIsSound == AnnouncedOnce /\ OnlyLastIsUnderWay /\ BreakerCounts
=============================================================================
