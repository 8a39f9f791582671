--------------------------- MODULE ReviewPromise ---------------------------
(***************************************************************************)
(* What the owner of services is promised about their health reviews,      *)
(* whatever happens to the scheduler, the queue and the workers: a review  *)
(* is of a service that exists, its generation starts at most once and     *)
(* only when it is stored, and a schedule names as the last review of its  *)
(* service one that is stored with it or one that has ended.               *)
(***************************************************************************)
EXTENDS Naturals

CONSTANTS Services, Reviews, None

VARIABLES
    known,    \* the services that exist
    status,   \* what is shown of a review
    of,       \* the service of a review that was stored
    latest,   \* the review that the schedule of a service names
    starts    \* how often the generation of a review has started

vars == <<known, status, of, latest, starts>>

Init ==
    /\ known = Services
    /\ status = [r \in Reviews |-> "absent"]
    /\ of = [r \in Reviews |-> None]
    /\ latest = [s \in Services |-> None]
    /\ starts = [r \in Reviews |-> 0]

\* Reviews are stored together, and the schedules of their services may name them.
Store(new, where, named) ==
    /\ \A r \in new : status[r] = "absent" /\ where[r] \in known
    /\ \A s \in Services : named[s] # None => where[named[s]] = s
    /\ status' = [r \in Reviews |-> IF r \in new THEN "QUEUED" ELSE status[r]]
    /\ of' = [r \in Reviews |-> IF r \in new THEN where[r] ELSE of[r]]
    /\ latest' = [s \in Services |-> IF named[s] = None THEN latest[s] ELSE named[s]]
    /\ UNCHANGED <<known, starts>>

\* Never for a second time.
Start(r) ==
    /\ status[r] = "QUEUED" /\ starts[r] = 0
    /\ status' = [status EXCEPT ![r] = "GENERATING"]
    /\ starts' = [starts EXCEPT ![r] = 1]
    /\ UNCHANGED <<known, of, latest>>

\* A result replaces a failure that was reported too early.
Finish(r) ==
    /\ status[r] \in {"GENERATING", "FAILED"} /\ starts[r] = 1
    /\ status' = [status EXCEPT ![r] = "COMPLETED"]
    /\ UNCHANGED <<known, of, latest, starts>>

\* At any time.
Fail(r) ==
    /\ status[r] \in {"QUEUED", "GENERATING", "COMPLETED"}
    /\ status' = [status EXCEPT ![r] = "FAILED"]
    /\ UNCHANGED <<known, of, latest, starts>>

Report(s, r) ==
    /\ s \in known /\ of[r] = s
    /\ status[r] \in {"COMPLETED", "FAILED"} /\ starts[r] = 1
    /\ latest' = [latest EXCEPT ![s] = r]
    /\ UNCHANGED <<known, status, of, starts>>

\* A service goes with all of its reviews.
Forget(s) ==
    /\ s \in known
    /\ known' = known \ {s}
    /\ status' = [r \in Reviews |-> IF of[r] = s THEN "deleted" ELSE status[r]]
    /\ UNCHANGED <<of, latest, starts>>

Next ==
    \/ \E new \in SUBSET Reviews :
          \E where \in [new -> Services], named \in [Services -> new \union {None}] :
              Store(new, where, named)
    \/ \E r \in Reviews : Start(r) \/ Finish(r) \/ Fail(r)
    \/ \E s \in Services : Forget(s) \/ \E r \in Reviews : Report(s, r)

Spec == Init /\ [][Next]_vars
=============================================================================
