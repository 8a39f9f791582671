------------------------------- MODULE Quotas -------------------------------
(***************************************************************************)
(* The counters of rate_limit_tracking: bytes uploaded by a workspace per  *)
(* day, which have a limit, and tokens used per week, which are only       *)
(* counted.  A request locks the row of its window, if there is one.       *)
(***************************************************************************)
EXTENDS Platform

CONSTANTS
    Days, Weeks,   \* the windows of one workspace (a bound)
    Limit,         \* DAILY_UPLOAD_LIMIT_BYTES
    Sizes,         \* what one request asks for (a bound)
    MostCounted    \* no counter goes beyond this (a bound)

Windows == Days \union Weeks
ASSUME QuotaAssumption ==
    /\ Limit \in Nat
    /\ Sizes \subseteq Nat
    /\ None \notin Windows \union Nat
    /\ Days \intersect Weeks = {}

VARIABLES
    counted,   \* the count of a window's row, None without a row
    locked,    \* the session that holds the row FOR UPDATE
    asking,    \* what a session is doing
    allowed,   \* history: the sum of what was allowed in a window
    opening    \* history: what the request that created the row asked for

quotaVars == <<counted, locked, asking, allowed, opening>>

NotAsking == [step |-> "idle", window |-> None, size |-> 0, read |-> 0]
Asking == [step: {"idle", "asked", "missing", "holding", "refused"},
           window: Windows \union {None}, size: Nat, read: Nat]

QuotasTypeOK ==
    /\ counted \in [Windows -> Nat \union {None}]
    /\ locked \in [Windows -> Calls \union {None}]
    /\ asking \in [Calls -> Asking]
    /\ allowed \in [Windows -> Nat]
    /\ opening \in [Windows -> Nat]

QuotasInit ==
    /\ counted = [k \in Windows |-> None]
    /\ locked = [k \in Windows |-> None]
    /\ asking = [c \in Calls |-> NotAsking]
    /\ allowed = [k \in Windows |-> 0]
    /\ opening = [k \in Windows |-> 0]

\* The window is the day or the week of the moment, which may pass while the
\* request waits.  A workspace with a model of its own is neither limited nor
\* counted and never gets here.
AskQuota(c, k, n) ==
    /\ asking[c].step = "idle"
    /\ asking' = [asking EXCEPT ![c] =
                     [step |-> "asked", window |-> k, size |-> n, read |-> 0]]
    /\ UNCHANGED <<counted, locked, allowed, opening>>

\* SELECT ... FOR UPDATE waits for whoever holds the row.
LockRow(c) ==
    LET k == asking[c].window IN
    /\ asking[c].step = "asked"
    /\ \/ /\ counted[k] = None
          /\ asking' = [asking EXCEPT ![c].step = "missing"]
          /\ UNCHANGED locked
       \/ /\ counted[k] # None /\ locked[k] = None
          /\ locked' = [locked EXCEPT ![k] = c]
          /\ asking' = [asking EXCEPT ![c].step = "holding", ![c].read = counted[k]]
    /\ UNCHANGED <<counted, allowed, opening>>

Allow(c, total) ==
    LET k == asking[c].window IN
    /\ total <= MostCounted
    /\ counted' = [counted EXCEPT ![k] = total]
    /\ allowed' = [allowed EXCEPT ![k] = @ + asking[c].size]
    /\ locked' = [locked EXCEPT ![k] = IF @ = c THEN None ELSE @]
    /\ asking' = [asking EXCEPT ![c] = NotAsking]

InsertRowAnyway(c) ==
    /\ asking[c].step = "missing"
    /\ Allow(c, asking[c].size)
    /\ opening' = [opening EXCEPT ![asking[c].window] = asking[c].size]

\* The first request of a window creates its row with whatever it asks for; if
\* another one was quicker it rolls back and locks that row.
InsertRow(c) ==
    LET k == asking[c].window IN
    /\ asking[c].step = "missing"
    /\ \/ /\ counted[k] = None
          /\ Allow(c, asking[c].size)
          /\ opening' = [opening EXCEPT ![k] = asking[c].size]
       \/ /\ counted[k] # None
          /\ asking' = [asking EXCEPT ![c].step = "asked"]
          /\ UNCHANGED <<counted, locked, allowed, opening>>

\* The increment, of the count that was read when the row was locked.
Exceeds(c) == asking[c].window \in Days /\ asking[c].read + asking[c].size > Limit

Increment(c) ==
    /\ asking[c].step = "holding"
    /\ ~Exceeds(c)
    /\ Allow(c, asking[c].read + asking[c].size)
    /\ UNCHANGED opening

\* A refusal does not end the transaction: the row stays locked.
Refuse(c) ==
    /\ asking[c].step = "holding"
    /\ Exceeds(c)
    /\ asking' = [asking EXCEPT ![c].step = "refused"]
    /\ UNCHANGED <<counted, locked, allowed, opening>>

\* The session is closed, after a refusal or after any error.
CloseSession(c) ==
    /\ asking[c].step # "idle"
    /\ locked' = [k \in Windows |-> IF locked[k] = c THEN None ELSE locked[k]]
    /\ asking' = [asking EXCEPT ![c] = NotAsking]
    /\ UNCHANGED <<counted, allowed, opening>>

QuotaStep(c) == LockRow(c) \/ InsertRow(c) \/ Increment(c) \/ Refuse(c)
                \/ CloseSession(c)

QuotasNext ==
    \E c \in Calls : QuotaStep(c) \/ \E k \in Windows, n \in Sizes : AskQuota(c, k, n)

QuotasSpec == QuotasInit /\ [][QuotasNext]_quotaVars

-----------------------------------------------------------------------------
\* Whatever requests cross, the first ones of a window included, a row counts
\* exactly what was allowed: no increment is lost and none is counted twice.
NothingUncounted ==
    \A k \in Windows : counted[k] # None => counted[k] = allowed[k]

\* A day stays within its limit unless its very first request alone is beyond
\* it: "Check if request is allowed and increment counter if yes."
WithinLimit ==
    \A k \in Days : counted[k] # None => counted[k] <= Limit \/ counted[k] = opening[k]

\* The row of a window is locked by a session that is still going to end: a
\* refused request keeps it only until its session is closed.
LockIsHeld ==
    \A k \in Windows, c \in Calls :
        locked[k] = c <=> /\ asking[c].window = k
                          /\ asking[c].step \in {"holding", "refused"}

\* A counter says what was allowed, no more than the limit, and stays usable.
CountersAreSound == NothingUncounted /\ WithinLimit /\ LockIsHeld
=============================================================================
