---------------------------- MODULE TurnPromise ----------------------------
(***************************************************************************)
(* What a user who asks a question is promised, whatever happens to the    *)
(* queue, the workers and the connections behind it: the investigation     *)
(* starts at most once, and an answer is shown only once it has finished.  *)
(* Until then, and even afterwards, a turn may be shown as failed.         *)
(***************************************************************************)

CONSTANT Turns

VARIABLES
    asked,      \* the questions that have been stored
    started,    \* those whose investigation has begun
    finished,   \* those whose investigation found an answer
    shown       \* what the user sees of a turn

vars == <<asked, started, finished, shown>>

Init ==
    /\ asked = {}
    /\ started = {}
    /\ finished = {}
    /\ shown = [t \in Turns |-> "absent"]

Ask(t) ==
    /\ t \notin asked
    /\ asked' = asked \union {t}
    /\ shown' = [shown EXCEPT ![t] = "PROCESSING"]
    /\ UNCHANGED <<started, finished>>

\* Never for a second time.
Start(t) ==
    /\ t \in asked \ started
    /\ started' = started \union {t}
    /\ UNCHANGED <<asked, finished, shown>>

Finish(t) ==
    /\ t \in started
    /\ finished' = finished \union {t}
    /\ UNCHANGED <<asked, started, shown>>

Show(t, status) ==
    /\ t \in asked
    /\ shown[t] # "deleted"
    /\ shown' = [shown EXCEPT ![t] = status]
    /\ UNCHANGED <<asked, started, finished>>

ShowAnswer(t) == t \in finished /\ Show(t, "COMPLETED")

ShowFailure(t) == Show(t, "FAILED")

Forget(t) == Show(t, "deleted")

Next ==
    \E t \in Turns :
        \/ Ask(t) \/ Start(t) \/ Finish(t)
        \/ ShowAnswer(t) \/ ShowFailure(t) \/ Forget(t)

Spec == Init /\ [][Next]_vars
=============================================================================
