----------------------------- MODULE PeopleProofs -----------------------------
(***************************************************************************)
(* Proofs about what the people of a workspace have: their services, their *)
(* environments, their LLM, the questions they ask and how many, their     *)
(* mail, and the credentials they get in with. Each part has an inductive  *)
(* invariant; the last section says that a behaviour of all parts is one   *)
(* of each.                                                                *)
(***************************************************************************)
EXTENDS MCPeople, TenancyProofs, FiniteSetTheorems, TLAPS

-----------------------------------------------------------------------------
(* Quotas, for any number of sessions, windows and sizes, and any limit. *)

\* A session past its first step works on a window.
AskingNamesWindow ==
    \A c \in Calls : asking[c].step # "idle" => asking[c].window \in Windows

\* Without a row nothing was allowed and nobody holds anything.
NoRowNothingAllowed ==
    \A k \in Windows : counted[k] = None => allowed[k] = 0 /\ locked[k] = None

\* What a session read of the row it holds is still what the row says.
ReadIsFresh ==
    \A c \in Calls : asking[c].step = "holding" => asking[c].read = counted[asking[c].window]

QuotasInv == QuotasTypeOK /\ CountersAreSound
       /\ AskingNamesWindow /\ NoRowNothingAllowed /\ ReadIsFresh

-----------------------------------------------------------------------------
(* What a session may hold. *)

LEMMA AskingFields ==
    ASSUME NEW a \in Asking
    PROVE  /\ a.step \in {"idle", "asked", "missing", "holding", "refused"}
           /\ a.window \in Windows \union {None} /\ a.size \in Nat /\ a.read \in Nat
           /\ \A s \in {"idle", "asked", "missing", "holding", "refused"} :
                  [a EXCEPT !.step = s] \in Asking
           /\ \A n \in Nat : [a EXCEPT !.step = "holding", !.read = n] \in Asking
BY DEF Asking

LEMMA IdleIsAsking == NotAsking \in Asking
BY DEF NotAsking, Asking

LEMMA Nones == None \notin Windows /\ None \notin Nat /\ None \notin Calls
BY QuotaAssumption, PlatformAssumption

-----------------------------------------------------------------------------

LEMMA QuotasInitInv == QuotasInit => QuotasInv
<1> SUFFICES ASSUME QuotasInit PROVE QuotasInv
  OBVIOUS
<1>1. QuotasTypeOK
  BY IdleIsAsking DEF QuotasInit, QuotasTypeOK
<1>2. CountersAreSound
  BY Nones DEF QuotasInit, CountersAreSound, NothingUncounted, WithinLimit, LockIsHeld,
               NotAsking, Windows
<1>3. AskingNamesWindow /\ NoRowNothingAllowed /\ ReadIsFresh
  BY DEF QuotasInit, AskingNamesWindow, NoRowNothingAllowed, ReadIsFresh, NotAsking
<1> QED
  BY <1>1, <1>2, <1>3 DEF QuotasInv

\* A new request touches no row.
LEMMA AskInv ==
    ASSUME QuotasInv, NEW c \in Calls, NEW k \in Windows, NEW n \in Sizes, AskQuota(c, k, n)
    PROVE  QuotasInv'
<1> DEFINE ask == [step |-> "asked", window |-> k, size |-> n, read |-> 0]
<1>1. ask \in Asking
  BY QuotaAssumption DEF Asking
<1>2. /\ asking' = [asking EXCEPT ![c] = ask]
      /\ asking[c].step = "idle"
      /\ UNCHANGED <<counted, locked, allowed, opening>>
  BY DEF AskQuota
<1>3. asking \in [Calls -> Asking]
  BY DEF QuotasInv, QuotasTypeOK
<1>4. QuotasTypeOK'
  BY <1>1, <1>2 DEF QuotasInv, QuotasTypeOK
<1>5. NothingUncounted' /\ WithinLimit' /\ NoRowNothingAllowed'
  BY <1>2 DEF QuotasInv, CountersAreSound, NothingUncounted, WithinLimit, NoRowNothingAllowed
<1>6. LockIsHeld'
  BY <1>2, <1>3 DEF QuotasInv, CountersAreSound, LockIsHeld
<1>7. AskingNamesWindow' /\ ReadIsFresh'
  BY <1>2, <1>3 DEF QuotasInv, AskingNamesWindow, ReadIsFresh
<1> QED
  BY <1>4, <1>5, <1>6, <1>7 DEF QuotasInv, CountersAreSound

\* The row is free when it is locked, and what is read of it is its count.
LEMMA LockInv ==
    ASSUME QuotasInv, NEW c \in Calls, LockRow(c)
    PROVE  QuotasInv'
<1> DEFINE k == asking[c].window
<1>1. asking \in [Calls -> Asking] /\ asking[c] \in Asking
  BY DEF QuotasInv, QuotasTypeOK
<1>2. k \in Windows /\ asking[c].step = "asked"
  BY DEF LockRow, QuotasInv, AskingNamesWindow
<1>3. UNCHANGED <<counted, allowed, opening>>
  BY DEF LockRow
<1>4. NothingUncounted' /\ WithinLimit'
  BY <1>3 DEF QuotasInv, CountersAreSound, NothingUncounted, WithinLimit
<1>5. CASE counted[k] = None /\ asking' = [asking EXCEPT ![c].step = "missing"]
           /\ UNCHANGED locked
  <2>1. QuotasTypeOK'
    BY <1>1, <1>3, <1>5, AskingFields DEF QuotasInv, QuotasTypeOK
  <2>2. LockIsHeld'
    BY <1>1, <1>2, <1>5 DEF QuotasInv, CountersAreSound, LockIsHeld, Asking
  <2>3. AskingNamesWindow' /\ NoRowNothingAllowed' /\ ReadIsFresh'
    BY <1>1, <1>2, <1>3, <1>5
    DEF QuotasInv, AskingNamesWindow, NoRowNothingAllowed, ReadIsFresh, Asking
  <2> QED
    BY <1>4, <2>1, <2>2, <2>3 DEF QuotasInv, CountersAreSound
<1>6. CASE /\ counted[k] # None /\ locked[k] = None
           /\ locked' = [locked EXCEPT ![k] = c]
           /\ asking' = [asking EXCEPT ![c].step = "holding", ![c].read = counted[k]]
  <2>1. counted[k] \in Nat
    BY <1>2, <1>6 DEF QuotasInv, QuotasTypeOK
  <2>2. QuotasTypeOK'
    BY <1>1, <1>2, <1>3, <1>6, <2>1, AskingFields DEF QuotasInv, QuotasTypeOK
  <2>3. /\ asking'[c].step = "holding" /\ asking'[c].window = k
        /\ asking'[c].read = counted[k]
        /\ \A d \in Calls : d # c => asking'[d] = asking[d]
    BY <1>1, <1>6 DEF Asking
  <2>4. locked \in [Windows -> Calls \union {None}]
    BY DEF QuotasInv, QuotasTypeOK
  <2>5. LockIsHeld'
    <3> SUFFICES ASSUME NEW j \in Windows, NEW d \in Calls
                 PROVE  locked'[j] = d <=> /\ asking'[d].window = j
                                           /\ asking'[d].step \in {"holding", "refused"}
      BY DEF LockIsHeld
    <3>1. locked[j] = d <=> /\ asking[d].window = j
                            /\ asking[d].step \in {"holding", "refused"}
      BY DEF QuotasInv, CountersAreSound, LockIsHeld
    <3>2. CASE j = k
      BY <1>2, <1>6, <2>3, <2>4, <3>1, <3>2, Nones
    <3>3. CASE j # k
      BY <1>2, <1>6, <2>3, <2>4, <3>1, <3>3
    <3> QED
      BY <3>2, <3>3
  <2>6. AskingNamesWindow' /\ ReadIsFresh'
    BY <1>2, <1>3, <2>3 DEF QuotasInv, AskingNamesWindow, ReadIsFresh
  <2>7. NoRowNothingAllowed'
    BY <1>2, <1>3, <1>6, <2>4 DEF QuotasInv, NoRowNothingAllowed
  <2> QED
    BY <1>4, <2>2, <2>5, <2>6, <2>7 DEF QuotasInv, CountersAreSound
<1> QED
  BY <1>5, <1>6 DEF LockRow

\* A session that allows its request leaves the row with the sum of what was
\* allowed, and free unless another session holds it.
LEMMA AllowInv ==
    ASSUME QuotasInv, NEW c \in Calls, NEW k \in Windows, asking[c].window = k,
           NEW total \in Nat, Allow(c, total),
           total = allowed[k] + asking[c].size,
           opening' \in [Windows -> Nat],
           \A j \in Windows : j # k => opening'[j] = opening[j],
           k \in Days => total <= Limit \/ total = opening'[k],
           locked[k] \in {c, None}
    PROVE  QuotasInv'
<1>1. /\ counted' = [counted EXCEPT ![k] = total]
      /\ allowed' = [allowed EXCEPT ![k] = @ + asking[c].size]
      /\ locked' = [locked EXCEPT ![k] = IF @ = c THEN None ELSE @]
      /\ asking' = [asking EXCEPT ![c] = NotAsking]
  BY DEF Allow
<1>2. /\ asking \in [Calls -> Asking] /\ asking[c].size \in Nat
      /\ counted \in [Windows -> Nat \union {None}]
      /\ allowed \in [Windows -> Nat] /\ allowed[k] + asking[c].size \in Nat
      /\ locked \in [Windows -> Calls \union {None}]
  BY AskingFields DEF QuotasInv, QuotasTypeOK
<1>3. QuotasTypeOK'
  BY <1>1, <1>2, IdleIsAsking DEF QuotasTypeOK
<1>4. NothingUncounted'
  BY <1>1, <1>2 DEF QuotasInv, CountersAreSound, NothingUncounted
<1>5. WithinLimit'
  BY <1>1, <1>2 DEF QuotasInv, CountersAreSound, WithinLimit, Windows
<1>6. /\ locked'[k] = None
      /\ \A j \in Windows : j # k => locked'[j] = locked[j]
      /\ asking'[c] = NotAsking
      /\ \A d \in Calls : d # c => asking'[d] = asking[d]
  BY <1>1, <1>2
<1>7. LockIsHeld'
  <2> SUFFICES ASSUME NEW j \in Windows, NEW d \in Calls
               PROVE  locked'[j] = d <=> /\ asking'[d].window = j
                                         /\ asking'[d].step \in {"holding", "refused"}
    BY DEF LockIsHeld
  <2>1. \A e \in Calls : locked[j] = e <=> /\ asking[e].window = j
                                           /\ asking[e].step \in {"holding", "refused"}
    BY DEF QuotasInv, CountersAreSound, LockIsHeld
  <2>2. asking'[c].step = "idle"
    BY <1>6 DEF NotAsking
  <2>3. CASE j = k
    BY <1>6, <2>1, <2>2, <2>3, Nones
  <2>4. CASE j # k
    BY <1>6, <2>1, <2>2, <2>4
  <2> QED
    BY <2>3, <2>4
<1>8. AskingNamesWindow'
  BY <1>6 DEF QuotasInv, AskingNamesWindow, NotAsking
<1>9. NoRowNothingAllowed'
  BY <1>1, <1>2, <1>6, Nones DEF QuotasInv, NoRowNothingAllowed
<1>10. ReadIsFresh'
  <2> SUFFICES ASSUME NEW d \in Calls, asking'[d].step = "holding"
               PROVE  asking'[d].read = counted'[asking'[d].window]
    BY DEF ReadIsFresh
  <2>1. d # c /\ asking'[d] = asking[d]
    BY <1>6 DEF NotAsking
  <2>2. asking[d].window \in Windows
    BY <2>1 DEF QuotasInv, AskingNamesWindow
  <2>3. locked[asking[d].window] = d
    BY <2>1, <2>2 DEF QuotasInv, CountersAreSound, LockIsHeld
  <2>4. asking[d].window # k
    BY <2>1, <2>3, Nones
  <2> QED
    BY <1>1, <1>2, <2>1, <2>2, <2>4 DEF QuotasInv, ReadIsFresh
<1> QED
  BY <1>3, <1>4, <1>5, <1>7, <1>8, <1>9, <1>10 DEF QuotasInv, CountersAreSound

\* The first request of a window creates the row, or goes back to lock it.
LEMMA InsertInv ==
    ASSUME QuotasInv, NEW c \in Calls, InsertRow(c)
    PROVE  QuotasInv'
<1> DEFINE k == asking[c].window
<1>1. asking \in [Calls -> Asking] /\ asking[c] \in Asking
  BY DEF QuotasInv, QuotasTypeOK
<1>2. k \in Windows /\ asking[c].step = "missing"
  BY DEF InsertRow, QuotasInv, AskingNamesWindow
<1>3. CASE /\ counted[k] = None
           /\ Allow(c, asking[c].size)
           /\ opening' = [opening EXCEPT ![k] = asking[c].size]
  <2>1. asking[c].size \in Nat /\ opening \in [Windows -> Nat]
    BY <1>1, AskingFields DEF QuotasInv, QuotasTypeOK
  <2>2. allowed[k] = 0 /\ locked[k] = None
    BY <1>2, <1>3 DEF QuotasInv, NoRowNothingAllowed
  <2>3. opening' \in [Windows -> Nat] /\ opening'[k] = asking[c].size
        /\ \A j \in Windows : j # k => opening'[j] = opening[j]
    BY <1>2, <1>3, <2>1
  <2>4. asking[c].size = allowed[k] + asking[c].size
    BY <2>1, <2>2
  <2> QED
    BY <1>2, <1>3, <2>1, <2>2, <2>3, <2>4, AllowInv
<1>4. CASE /\ counted[k] # None
           /\ asking' = [asking EXCEPT ![c].step = "asked"]
           /\ UNCHANGED <<counted, locked, allowed, opening>>
  <2>1. QuotasTypeOK'
    BY <1>1, <1>4, AskingFields DEF QuotasInv, QuotasTypeOK
  <2>2. NothingUncounted' /\ WithinLimit' /\ NoRowNothingAllowed'
    BY <1>4 DEF QuotasInv, CountersAreSound, NothingUncounted, WithinLimit, NoRowNothingAllowed
  <2>3. LockIsHeld'
    BY <1>1, <1>2, <1>4 DEF QuotasInv, CountersAreSound, LockIsHeld, Asking
  <2>4. AskingNamesWindow' /\ ReadIsFresh'
    BY <1>1, <1>2, <1>4 DEF QuotasInv, AskingNamesWindow, ReadIsFresh, Asking
  <2> QED
    BY <2>1, <2>2, <2>3, <2>4 DEF QuotasInv, CountersAreSound
<1> QED
  BY <1>3, <1>4 DEF InsertRow

\* An increment is of the count the row still has.
LEMMA IncrementInv ==
    ASSUME QuotasInv, NEW c \in Calls, Increment(c)
    PROVE  QuotasInv'
<1> DEFINE k == asking[c].window
           total == asking[c].read + asking[c].size
<1>1. asking[c].step = "holding" /\ ~Exceeds(c) /\ Allow(c, total)
      /\ UNCHANGED opening
  BY DEF Increment
<1>2. k \in Windows
  BY <1>1 DEF QuotasInv, AskingNamesWindow
<1>3. asking[c].read \in Nat /\ asking[c].size \in Nat /\ total \in Nat
  <2>1. asking[c] \in Asking
    BY DEF QuotasInv, QuotasTypeOK
  <2>2. asking[c].read \in Nat /\ asking[c].size \in Nat
    BY <2>1, AskingFields
  <2> QED
    BY <2>2
<1>4. locked[k] = c /\ asking[c].read = counted[k]
  BY <1>1, <1>2 DEF QuotasInv, CountersAreSound, LockIsHeld, ReadIsFresh
<1>5. total = allowed[k] + asking[c].size
  BY <1>2, <1>3, <1>4, Nones DEF QuotasInv, CountersAreSound, NothingUncounted
<1>6. k \in Days => total <= Limit
  BY <1>1, <1>3, QuotaAssumption DEF Exceeds
<1>7. opening' \in [Windows -> Nat] /\ opening' = opening
  BY <1>1 DEF QuotasInv, QuotasTypeOK
<1> QED
  BY <1>1, <1>2, <1>3, <1>4, <1>5, <1>6, <1>7, AllowInv

\* A refusal keeps the row and changes nothing.
LEMMA RefuseInv ==
    ASSUME QuotasInv, NEW c \in Calls, Refuse(c)
    PROVE  QuotasInv'
<1>1. /\ asking[c].step = "holding"
      /\ asking' = [asking EXCEPT ![c].step = "refused"]
      /\ UNCHANGED <<counted, locked, allowed, opening>>
  BY DEF Refuse
<1>2. asking \in [Calls -> Asking] /\ asking[c] \in Asking
  BY DEF QuotasInv, QuotasTypeOK
<1>3. QuotasTypeOK'
  BY <1>1, <1>2, AskingFields DEF QuotasInv, QuotasTypeOK
<1>4. NothingUncounted' /\ WithinLimit' /\ NoRowNothingAllowed'
  BY <1>1 DEF QuotasInv, CountersAreSound, NothingUncounted, WithinLimit, NoRowNothingAllowed
<1>5. LockIsHeld'
  BY <1>1, <1>2 DEF QuotasInv, CountersAreSound, LockIsHeld, Asking
<1>6. AskingNamesWindow' /\ ReadIsFresh'
  BY <1>1, <1>2 DEF QuotasInv, AskingNamesWindow, ReadIsFresh, Asking
<1> QED
  BY <1>3, <1>4, <1>5, <1>6 DEF QuotasInv, CountersAreSound

\* A session that ends gives up what it holds.
LEMMA CloseInv ==
    ASSUME QuotasInv, NEW c \in Calls, CloseSession(c)
    PROVE  QuotasInv'
<1>1. /\ locked' = [k \in Windows |-> IF locked[k] = c THEN None ELSE locked[k]]
      /\ asking' = [asking EXCEPT ![c] = NotAsking]
      /\ UNCHANGED <<counted, allowed, opening>>
  BY DEF CloseSession
<1>2. asking \in [Calls -> Asking] /\ locked \in [Windows -> Calls \union {None}]
  BY DEF QuotasInv, QuotasTypeOK
<1>3. QuotasTypeOK'
  BY <1>1, <1>2, IdleIsAsking DEF QuotasInv, QuotasTypeOK
<1>4. NothingUncounted' /\ WithinLimit' /\ NoRowNothingAllowed'
  BY <1>1 DEF QuotasInv, CountersAreSound, NothingUncounted, WithinLimit, NoRowNothingAllowed
<1>5. asking'[c].step = "idle" /\ \A d \in Calls : d # c => asking'[d] = asking[d]
  BY <1>1, <1>2 DEF NotAsking
<1>6. LockIsHeld'
  <2> SUFFICES ASSUME NEW j \in Windows, NEW d \in Calls
               PROVE  locked'[j] = d <=> /\ asking'[d].window = j
                                         /\ asking'[d].step \in {"holding", "refused"}
    BY DEF LockIsHeld
  <2>1. locked[j] = d <=> /\ asking[d].window = j
                          /\ asking[d].step \in {"holding", "refused"}
    BY DEF QuotasInv, CountersAreSound, LockIsHeld
  <2>2. locked'[j] = IF locked[j] = c THEN None ELSE locked[j]
    BY <1>1
  <2> QED
    BY <1>5, <2>1, <2>2, Nones
<1>7. AskingNamesWindow' /\ ReadIsFresh'
  BY <1>1, <1>5 DEF QuotasInv, AskingNamesWindow, ReadIsFresh
<1> QED
  BY <1>3, <1>4, <1>6, <1>7 DEF QuotasInv, CountersAreSound

LEMMA QuotasStepInv == QuotasInv /\ [QuotasNext]_quotaVars => QuotasInv'
<1> SUFFICES ASSUME QuotasInv, [QuotasNext]_quotaVars PROVE QuotasInv'
  OBVIOUS
<1>1. ASSUME NEW c \in Calls, QuotaStep(c) PROVE QuotasInv'
  BY <1>1, LockInv, InsertInv, IncrementInv, RefuseInv, CloseInv DEF QuotaStep
<1>2. ASSUME NEW c \in Calls, NEW k \in Windows, NEW n \in Sizes, AskQuota(c, k, n)
      PROVE  QuotasInv'
  BY <1>2, AskInv
<1>3. CASE UNCHANGED quotaVars
  BY <1>3 DEF quotaVars, QuotasInv, QuotasTypeOK, CountersAreSound, NothingUncounted, WithinLimit,
              LockIsHeld, AskingNamesWindow, NoRowNothingAllowed, ReadIsFresh
<1> QED
  BY <1>1, <1>2, <1>3 DEF QuotasNext

LEMMA QuotasInvariance == QuotasSpec => []QuotasInv
BY QuotasInitInv, QuotasStepInv, PTL DEF QuotasSpec

\* The rows, their locks and the sessions always hold what they can hold.
THEOREM QuotasTypeCorrect == QuotasSpec => []QuotasTypeOK
<1>1. QuotasInv => QuotasTypeOK
  BY DEF QuotasInv
<1> QED
  BY <1>1, QuotasInvariance, PTL

\* However many requests cross, and wherever one is refused or fails, a row
\* counts exactly what was allowed, a day stays within its limit but for its
\* first request, and a row is locked only by a session that is still to end.
THEOREM CountersTheorem == QuotasSpec => []CountersAreSound
<1>1. QuotasInv => CountersAreSound
  BY DEF QuotasInv
<1> QED
  BY <1>1, QuotasInvariance, PTL

-----------------------------------------------------------------------------
(* Finite sets. *)

LEMMA Fewer ==
    ASSUME NEW S, IsFiniteSet(S), NEW T, T \subseteq S
    PROVE  /\ IsFiniteSet(T) /\ Cardinality(T) \in Nat /\ Cardinality(S) \in Nat
           /\ Cardinality(T) <= Cardinality(S)
BY FS_Subset, FS_CardinalityType

LEMMA OneMoreAtMost ==
    ASSUME NEW S, IsFiniteSet(S), NEW x, NEW T, T \subseteq S \union {x}
    PROVE  /\ IsFiniteSet(T) /\ Cardinality(T) \in Nat /\ Cardinality(S) \in Nat
           /\ Cardinality(T) <= Cardinality(S) + 1
<1> DEFINE U == S \union {x}
<1>1. /\ IsFiniteSet(U)
      /\ Cardinality(U) = Cardinality(S) \/ Cardinality(U) = Cardinality(S) + 1
  BY FS_AddElement
<1>2. T \subseteq U
  OBVIOUS
<1> HIDE DEF U
<1>3. Cardinality(T) \in Nat /\ Cardinality(T) <= Cardinality(U) /\ IsFiniteSet(T)
  BY <1>1, <1>2, Fewer
<1>4. Cardinality(S) \in Nat
  BY FS_CardinalityType
<1> QED
  BY <1>1, <1>3, <1>4

LEMMA OneFewer ==
    ASSUME NEW S, IsFiniteSet(S), NEW x \in S, NEW T, T \subseteq S \ {x}
    PROVE  /\ IsFiniteSet(T) /\ Cardinality(T) \in Nat /\ Cardinality(S) \in Nat
           /\ Cardinality(T) <= Cardinality(S) - 1
<1>1. /\ IsFiniteSet(S \ {x}) /\ Cardinality(S) \in Nat
      /\ Cardinality(S \ {x}) = Cardinality(S) - 1
  BY FS_RemoveElement, FS_CardinalityType
<1> QED
  BY <1>1, Fewer

-----------------------------------------------------------------------------
(* LlmConfig. *)

\* What a request has loaded is what the row is, if it is the only one.
WishSound(w) ==
    /\ w.op = "put" => w.blob \in Blob
    /\ (~wishesCross /\ w.step = "write") => w.seen = llmRow

LlmInv ==
    /\ LlmTypeOK
    /\ \A c \in LlmOwners : WishSound(wish[c])
    /\ ~wishesCross => \A c \in LlmOwners : \A d \in LlmOwners \ {c} :
          wish[c].step = "rest" \/ wish[d].step = "rest"
    /\ KeyOfItsProvider

LEMMA LlmTypes ==
    ASSUME LlmInv
    PROVE  /\ llmRow \in LlmProviderConfig \union {NoRow}
           /\ numbered \in 0..MostRows /\ MostRows \in Nat
           /\ wish \in [LlmOwners -> Wish] /\ wishesCross \in BOOLEAN
BY LlmAssumption DEF LlmInv, LlmTypeOK

LEMMA NoWishIsWish == /\ NoWish \in Wish /\ NoWish.step = "rest" /\ NoWish.op = "none"
BY DEF NoWish, Wish

\* What every step of a request c leaves of the others, when it goes on as w.
LEMMA WishesInv ==
    ASSUME LlmInv, NEW c \in LlmOwners, NEW w \in Wish, Wishes(c, w),
           llmRow' \in LlmProviderConfig \union {NoRow}, numbered' \in 0..MostRows,
           llmRow' = llmRow \/ wish[c].step # "rest",
           w.op = "put" => w.blob \in Blob,
           w.step = "write" => w.seen = llmRow',
           (~wishesCross /\ llmRow' # NoRow) => llmRow'.blob.for = llmRow'.provider
    PROVE  LlmInv'
<1>1. /\ wish' \in [LlmOwners -> Wish] /\ wish'[c] = w
      /\ \A d \in LlmOwners \ {c} : wish'[d] = wish[d]
      /\ wishesCross' = (wishesCross \/ \E d \in LlmOwners \ {c} : wish[d].step # "rest")
  BY LlmTypes DEF Wishes
<1>2. LlmTypeOK'
  BY <1>1, LlmTypes DEF LlmTypeOK
<1>3. ~wishesCross' => /\ ~wishesCross
                       /\ \A d \in LlmOwners \ {c} : wish[d].step = "rest"
  BY <1>1
<1>4. \A d \in LlmOwners : WishSound(wish[d])'
  BY <1>1, <1>3 DEF LlmInv, WishSound
<1>5. KeyOfItsProvider'
  BY <1>3 DEF KeyOfItsProvider
<1>6. ~wishesCross' => \A d \in LlmOwners : \A e \in LlmOwners \ {d} :
          wish'[d].step = "rest" \/ wish'[e].step = "rest"
  BY <1>1, <1>3
<1> QED
  BY <1>2, <1>4, <1>5, <1>6 DEF LlmInv

LEMMA LlmStep ==
    ASSUME LlmInv, [LlmNext]_llmVars
    PROVE  LlmInv'
<1>1. ASSUME NEW c \in LlmOwners, AskConfig(c)
      PROVE  LlmInv'
  <2>1. PICK b \in Blob :
            Wishes(c, [NoWish EXCEPT !.op = "put", !.step = "load", !.blob = b])
    BY <1>1 DEF AskConfig
  <2> DEFINE w == [NoWish EXCEPT !.op = "put", !.step = "load", !.blob = b]
  <2>2. w \in Wish /\ w.op = "put" /\ w.step = "load" /\ w.blob = b
    BY DEF NoWish, Wish
  <2>3. Wishes(c, w) /\ UNCHANGED <<llmRow, numbered>>
    BY <1>1, <2>1 DEF AskConfig
  <2> HIDE DEF w
  <2> QED
    BY <2>2, <2>3, LlmTypes, WishesInv DEF LlmInv, KeyOfItsProvider
<1>2. ASSUME NEW c \in LlmOwners, AskPlatform(c)
      PROVE  LlmInv'
  <2> DEFINE w == [NoWish EXCEPT !.op = "delete", !.step = "load"]
  <2>1. w \in Wish /\ w.op = "delete" /\ w.step = "load"
    BY DEF NoWish, Wish
  <2>2. Wishes(c, w) /\ UNCHANGED <<llmRow, numbered>>
    BY <1>2 DEF AskPlatform
  <2> HIDE DEF w
  <2> QED
    BY <2>1, <2>2, LlmTypes, WishesInv DEF LlmInv, KeyOfItsProvider
<1>3. ASSUME NEW c \in LlmOwners, LoadConfig(c)
      PROVE  LlmInv'
  <2> DEFINE n == [wish[c] EXCEPT !.step = "write", !.seen = llmRow]
             w == IF wish[c].op = "delete" /\ llmRow = NoRow THEN NoWish ELSE n
  <2>1. /\ n \in Wish /\ n.op = wish[c].op /\ n.step = "write" /\ n.blob = wish[c].blob
        /\ n.seen = llmRow
    BY LlmTypes DEF Wish
  <2>2. Wishes(c, w) /\ UNCHANGED <<llmRow, numbered>>
    BY <1>3 DEF LoadConfig
  <2> HIDE DEF n
  <2>3. /\ w \in Wish
        /\ w.op = "put" => w.blob \in Blob
        /\ w.step = "write" => w.seen = llmRow
    BY <2>1, NoWishIsWish DEF LlmInv, WishSound
  <2> HIDE DEF w
  <2> QED
    BY <2>2, <2>3, LlmTypes, WishesInv DEF LlmInv, KeyOfItsProvider
<1>4. ASSUME NEW c \in LlmOwners, CreateConfig(c)
      PROVE  LlmInv'
  <2>1. wish[c].op = "put" /\ wish[c].step = "write" /\ Wishes(c, NoWish)
    BY <1>4 DEF CreateConfig
  <2>2. CASE UNCHANGED <<llmRow, numbered>>
    BY <2>1, <2>2, NoWishIsWish, LlmTypes, WishesInv DEF LlmInv, KeyOfItsProvider
  <2>3. CASE /\ numbered < MostRows /\ numbered' = numbered + 1
             /\ llmRow' = [id |-> numbered', provider |-> wish[c].blob.for,
                           blob |-> wish[c].blob]
    <3>1. numbered' \in 0..MostRows /\ numbered' \in 1..MostRows
      BY <2>3, LlmTypes
    <3>2. wish[c].blob \in Blob /\ wish[c].blob.for \in LlmProviders
      BY <2>1 DEF LlmInv, WishSound, Blob
    <3>3. /\ llmRow' \in LlmProviderConfig
          /\ llmRow'.blob.for = llmRow'.provider
      BY <2>3, <3>1, <3>2 DEF LlmProviderConfig
    <3> QED
      BY <2>1, <3>1, <3>3, NoWishIsWish, WishesInv
  <2> QED
    BY <1>4, <2>2, <2>3 DEF CreateConfig
<1>5. ASSUME NEW c \in LlmOwners, UpdateConfig(c)
      PROVE  LlmInv'
  <2> DEFINE w == wish[c]
             p == IF w.blob.for = w.seen.provider THEN llmRow.provider ELSE w.blob.for
             n == [llmRow EXCEPT !.blob = w.blob, !.provider = p]
  <2>1. /\ w.op = "put" /\ w.step = "write" /\ Wishes(c, NoWish) /\ UNCHANGED numbered
        /\ llmRow' = IF ~Same(c) THEN llmRow
                     ELSE [llmRow EXCEPT !.blob = w.blob,
                              !.provider = IF w.blob.for = w.seen.provider THEN @ ELSE w.blob.for]
    BY <1>5 DEF UpdateConfig
  <2>2. CASE ~Same(c)
    BY <2>1, <2>2, NoWishIsWish, LlmTypes, WishesInv DEF LlmInv, KeyOfItsProvider
  <2>3. CASE Same(c)
    <3>1. llmRow \in LlmProviderConfig
      BY <2>3, LlmTypes DEF Same
    <3>2. w.blob \in Blob /\ w.blob.for \in LlmProviders
      BY <2>1 DEF LlmInv, WishSound, Blob
    <3>3. p \in LlmProviders
      BY <3>1, <3>2 DEF LlmProviderConfig
    <3>4. llmRow' = n
      BY <2>1, <2>3, <3>1 DEF LlmProviderConfig
    <3>5. ~wishesCross => w.seen = llmRow
      BY <2>1 DEF LlmInv, WishSound
    <3>6. ~wishesCross => p = w.blob.for
      BY <3>5
    <3> HIDE DEF p
    <3>7. n \in LlmProviderConfig /\ n.blob = w.blob /\ n.provider = p
      BY <3>1, <3>2, <3>3 DEF LlmProviderConfig
    <3> HIDE DEF n
    <3> QED
      BY <2>1, <3>4, <3>6, <3>7, NoWishIsWish, LlmTypes, WishesInv
  <2> QED
    BY <2>2, <2>3
<1>6. ASSUME NEW c \in LlmOwners, DeleteConfig(c)
      PROVE  LlmInv'
  <2>1. /\ wish[c].step = "write" /\ Wishes(c, NoWish) /\ UNCHANGED numbered
        /\ llmRow' = llmRow \/ llmRow' = NoRow
    BY <1>6 DEF DeleteConfig
  <2> QED
    BY <2>1, NoWishIsWish, LlmTypes, WishesInv DEF LlmInv, KeyOfItsProvider
<1>7. CASE UNCHANGED llmVars
  BY <1>7 DEF llmVars, LlmInv, LlmTypeOK, WishSound, KeyOfItsProvider
<1> QED
  BY <1>1, <1>2, <1>3, <1>4, <1>5, <1>6, <1>7 DEF LlmNext

LEMMA LlmInitInv == LlmInit => LlmInv
<1> SUFFICES ASSUME LlmInit
             PROVE  LlmInv
  OBVIOUS
<1>1. LlmTypeOK
  <2>1. 0 \in 0..MostRows
    BY LlmAssumption
  <2> QED
    BY <2>1, NoWishIsWish DEF LlmInit, LlmTypeOK
<1> QED
  BY <1>1, NoWishIsWish DEF LlmInit, LlmInv, WishSound, KeyOfItsProvider

LEMMA LlmInvariance == LlmSpec => []LlmInv
BY LlmInitInv, LlmStep, PTL DEF LlmSpec

\* The factory gives a workspace the LLM of its row: an Azure row has its endpoint.
LEMMA LlmHolds == LlmInv => LlmIsSound
<1> SUFFICES ASSUME LlmInv
             PROVE  LlmIsSound
  OBVIOUS
<1>1. ASSUME ~wishesCross, llmRow # NoRow
      PROVE  GetLlmForWorkspace(llmRow) # "groq"
  <2>1. llmRow.provider \in LlmProviders /\ llmRow.blob.for = llmRow.provider
    BY <1>1, LlmTypes DEF LlmInv, KeyOfItsProvider, LlmProviderConfig
  <2>2. llmRow.provider # "groq"
    BY <2>1, LlmAssumption
  <2> QED
    BY <1>1, <2>1, <2>2 DEF GetLlmForWorkspace, HasEndpoint
<1> QED
  BY <1>1 DEF LlmInv, LlmIsSound, UnlimitedBringsItsOwn, IsByollmWorkspace

-----------------------------------------------------------------------------
(* Services. *)

\* What a request still knows of the services when it commits.
JobSound(q) ==
    q.step = "loaded" =>
        /\ q.op \in {"assign", "delete"} => q.service \in q.rows
        /\ q.op = "deleteTeam" => q.team \in Teams
        /\ ~q.lost => \A s \in q.rows : team[s] # "gone"

ServicesInv ==
    /\ ServicesTypeOK
    /\ ~wasPro => plan = "FREE"
    /\ \A c \in Calls : JobSound(job[c])
    /\ LimitAlmostKept /\ TeamsExist

LEMMA ServicesTypes ==
    ASSUME ServicesInv
    PROVE  /\ team \in [ServiceIds -> Teams \union {None, "gone"}]
           /\ teams \in [Teams -> Lives] /\ plan \in {"FREE", "PRO"}
           /\ job \in [Calls -> Job] /\ wasPro \in BOOLEAN
           /\ FreeLimit \in Nat /\ IsFiniteSet(ServiceIds) /\ IsFiniteSet(Calls)
           /\ "gone" # None /\ "gone" \notin Teams /\ None \notin Teams
BY ServicesAssumption DEF ServicesInv, ServicesTypeOK

LEMMA NoJobSound == NoJob \in Job /\ NoJob.step = "idle"
BY DEF NoJob, Job, Jobs

LEMMA CountsAreNat ==
    ASSUME ServicesInv
    PROVE  /\ IsFiniteSet(Existing) /\ IsFiniteSet(Adding)
           /\ Cardinality(Existing) \in Nat /\ Cardinality(Adding) \in Nat
           /\ Cardinality(Calls) \in Nat
<1>1. Existing \subseteq ServiceIds /\ Adding \subseteq Calls
  BY DEF Existing, Adding
<1> QED
  BY <1>1, ServicesTypes, Fewer

\* A request loads what it is about; one that wants to add is within the limit then.
LEMMA LoadsInv ==
    ASSUME ServicesInv, NEW c \in Calls, NEW q \in Job, LoadJob(c, q),
           q.step = "loaded", JobSound(q), q.op = "create" => CanAddService
    PROVE  ServicesInv'
<1>1. /\ job' \in [Calls -> Job] /\ job'[c] = q /\ job[c].step = "idle"
      /\ \A d \in Calls \ {c} : job'[d] = job[d]
      /\ UNCHANGED <<team, teams, plan, wasPro>>
  BY ServicesTypes DEF LoadJob
<1>2. ServicesTypeOK' /\ (~wasPro' => plan' = "FREE") /\ TeamsExist'
  BY <1>1 DEF ServicesInv, ServicesTypeOK, TeamsExist, Existing, Stands
<1>3. \A d \in Calls : JobSound(job[d])'
  BY <1>1 DEF ServicesInv, JobSound
<1>4. ASSUME ~wasPro
      PROVE  Cardinality(Existing)' + Cardinality(Adding)'
                <= FreeLimit + Cardinality(Calls) - 1
  <2>1. Existing' = Existing
    BY <1>1 DEF Existing
  <2>2. Adding' \subseteq Calls
    BY DEF Adding
  <2>3. Cardinality(Adding)' \in Nat /\ Cardinality(Adding)' <= Cardinality(Calls)
    BY <2>2, ServicesTypes, Fewer
  <2>4. CASE q.op = "create"
    <3>1. Cardinality(Existing) < FreeLimit
      BY <1>4, <2>4 DEF CanAddService, ServicesInv
    <3> QED
      BY <2>1, <2>3, <3>1, CountsAreNat, ServicesTypes
  <2>5. CASE q.op # "create"
    <3>1. Adding' = Adding
      BY <1>1, <2>5 DEF Adding
    <3> QED
      BY <1>4, <2>1, <3>1 DEF ServicesInv, LimitAlmostKept
  <2> QED
    BY <2>4, <2>5
<1>5. LimitAlmostKept'
  BY <1>1, <1>4 DEF LimitAlmostKept
<1> QED
  BY <1>1, <1>2, <1>3, <1>5 DEF ServicesInv

\* A commit; only who has asked to add a service adds one.
LEMMA StoreInv ==
    ASSUME ServicesInv, NEW c \in Calls, job[c].step = "loaded", NEW rows2,
           rows2 \in [ServiceIds -> Teams \union {None, "gone"}], Store(c, rows2),
           teams' \in [Teams -> Lives],
           \/ \A s \in ServiceIds : rows2[s] # "gone" => team[s] # "gone"
           \/ job[c].op = "create" /\ \E n \in ServiceIds :
                 \A s \in ServiceIds \ {n} : rows2[s] = team[s],
           \A s \in ServiceIds : rows2[s] = "gone" \/ rows2[s] = None
                                   \/ teams'[rows2[s]] = "live"
    PROVE  ServicesInv'
<1> DEFINE gone(d) == \E s \in job[d].rows : rows2[s] = "gone"
<1>1. /\ team' = rows2 /\ UNCHANGED <<plan, wasPro>>
      /\ job' = [d \in Calls |-> IF d = c THEN NoJob ELSE
                    [job[d] EXCEPT !.lost = @ \/ gone(d)]]
  BY DEF Store
<1>2. ASSUME NEW d \in Calls
      PROVE  LET n == [job[d] EXCEPT !.lost = @ \/ gone(d)] IN
             /\ n \in Job /\ n.step = job[d].step /\ n.op = job[d].op
             /\ n.service = job[d].service /\ n.team = job[d].team
             /\ n.rows = job[d].rows /\ n.lost = (job[d].lost \/ gone(d))
  <2> DEFINE g == job[d].lost \/ gone(d)
  <2>1. job[d] \in Job /\ g \in BOOLEAN
    BY ServicesTypes
  <2>2. [job[d] EXCEPT !.lost = @ \/ gone(d)] = [job[d] EXCEPT !.lost = g]
    OBVIOUS
  <2> HIDE DEF g
  <2>3. LET n == [job[d] EXCEPT !.lost = g] IN
        /\ n \in Job /\ n.step = job[d].step /\ n.op = job[d].op
        /\ n.service = job[d].service /\ n.team = job[d].team
        /\ n.rows = job[d].rows /\ n.lost = g
    BY <2>1 DEF Job
  <2> QED
    BY <2>2, <2>3 DEF g
<1> HIDE DEF gone
<1>3. /\ job' \in [Calls -> Job] /\ job'[c] = NoJob
      /\ \A d \in Calls \ {c} :
            /\ job'[d].step = job[d].step /\ job'[d].op = job[d].op
            /\ job'[d].service = job[d].service /\ job'[d].team = job[d].team
            /\ job'[d].rows = job[d].rows /\ job'[d].lost = (job[d].lost \/ gone(d))
  BY <1>1, <1>2, NoJobSound
<1>4. ServicesTypeOK' /\ (~wasPro' => plan' = "FREE")
  BY <1>1, <1>3 DEF ServicesInv, ServicesTypeOK
<1>5. ASSUME NEW d \in Calls
      PROVE  JobSound(job[d])'
  <2>1. CASE d = c
    BY <1>3, <2>1, NoJobSound DEF JobSound
  <2>2. CASE d # c
    <3>1. /\ job'[d].step = job[d].step /\ job'[d].op = job[d].op
          /\ job'[d].service = job[d].service /\ job'[d].team = job[d].team
          /\ job'[d].rows = job[d].rows /\ job'[d].lost = (job[d].lost \/ gone(d))
      BY <1>3, <2>2
    <3>2. JobSound(job[d]) /\ job[d].rows \subseteq ServiceIds
      BY ServicesTypes DEF ServicesInv, Job
    <3>3. ~job'[d].lost => ~job[d].lost /\ \A s \in job[d].rows : rows2[s] # "gone"
      BY <3>1 DEF gone
    <3> QED
      BY <1>1, <3>1, <3>2, <3>3 DEF JobSound
  <2> QED
    BY <2>1, <2>2
<1>6. TeamsExist'
  BY <1>1 DEF TeamsExist, Existing, Stands
<1>7. Adding' \subseteq Adding \ {c}
  BY <1>3, NoJobSound DEF Adding
<1>8. CASE \A s \in ServiceIds : rows2[s] # "gone" => team[s] # "gone"
  <2>1. Existing' \subseteq Existing /\ Adding' \subseteq Adding
    BY <1>1, <1>7, <1>8 DEF Existing
  <2>2. /\ Cardinality(Existing)' \in Nat /\ Cardinality(Existing)' <= Cardinality(Existing)
        /\ Cardinality(Adding)' \in Nat /\ Cardinality(Adding)' <= Cardinality(Adding)
    BY <2>1, CountsAreNat, Fewer
  <2>3. ~wasPro => Cardinality(Existing) + Cardinality(Adding)
                      <= FreeLimit + Cardinality(Calls) - 1
    BY DEF ServicesInv, LimitAlmostKept
  <2>4. ~wasPro => Cardinality(Existing)' + Cardinality(Adding)'
                      <= FreeLimit + Cardinality(Calls) - 1
    BY <2>2, <2>3, CountsAreNat, ServicesTypes
  <2> QED
    BY <1>1, <1>4, <1>5, <1>6, <2>4 DEF ServicesInv, LimitAlmostKept
<1>9. ASSUME job[c].op = "create", NEW m \in ServiceIds,
             \A s \in ServiceIds \ {m} : rows2[s] = team[s]
      PROVE  ServicesInv'
  <2>1. Existing' \subseteq Existing \union {m} /\ c \in Adding
    BY <1>1, <1>9 DEF Existing, Adding
  <2>2. Cardinality(Existing)' \in Nat /\ Cardinality(Existing)' <= Cardinality(Existing) + 1
    BY <2>1, CountsAreNat, OneMoreAtMost
  <2>3. Cardinality(Adding)' \in Nat /\ Cardinality(Adding)' <= Cardinality(Adding) - 1
    BY <1>7, <2>1, CountsAreNat, OneFewer
  <2>4. ~wasPro => Cardinality(Existing) + Cardinality(Adding)
                      <= FreeLimit + Cardinality(Calls) - 1
    BY DEF ServicesInv, LimitAlmostKept
  <2>5. ~wasPro => Cardinality(Existing)' + Cardinality(Adding)'
                      <= FreeLimit + Cardinality(Calls) - 1
    BY <2>2, <2>3, <2>4, CountsAreNat, ServicesTypes
  <2> QED
    BY <1>1, <1>4, <1>5, <1>6, <2>5 DEF ServicesInv, LimitAlmostKept
<1> QED
  BY <1>8, <1>9

LEMMA AsksServiceInv ==
    ASSUME ServicesInv, NEW c \in Calls,
           AskService(c) \/ AskAssignment(c) \/ AskServiceDeletion(c) \/ AskTeamDeletion(c)
    PROVE  ServicesInv'
<1>1. CASE AskService(c)
  <2> DEFINE q == [NoJob EXCEPT !.step = "loaded", !.op = "create"]
  <2>1. q \in Job /\ q.step = "loaded" /\ q.op = "create" /\ q.rows = {}
    BY DEF NoJob, Job, Jobs
  <2>2. LoadJob(c, q) /\ CanAddService
    BY <1>1 DEF AskService
  <2> HIDE DEF q
  <2> QED
    BY <2>1, <2>2, LoadsInv DEF JobSound
<1>2. CASE AskAssignment(c)
  <2>1. PICK s \in Existing, t \in Teams \union {None} :
            LoadJob(c, [NoJob EXCEPT !.step = "loaded", !.op = "assign", !.service = s,
                              !.team = t, !.rows = {s}, !.had = team[s]])
    BY <1>2 DEF AskAssignment
  <2> DEFINE q == [NoJob EXCEPT !.step = "loaded", !.op = "assign", !.service = s,
                          !.team = t, !.rows = {s}, !.had = team[s]]
  <2>2. s \in ServiceIds /\ team[s] # "gone" /\ team[s] \in Teams \union {None}
    BY ServicesTypes DEF Existing
  <2>3. /\ q \in Job /\ q.step = "loaded" /\ q.op = "assign" /\ q.service = s
        /\ q.rows = {s}
    BY <2>2 DEF NoJob, Job, Jobs
  <2>4. LoadJob(c, q)
    BY <2>1
  <2> HIDE DEF q
  <2> QED
    BY <2>2, <2>3, <2>4, LoadsInv DEF JobSound
<1>3. CASE AskServiceDeletion(c)
  <2>1. PICK s \in Existing :
            LoadJob(c, [NoJob EXCEPT !.step = "loaded", !.op = "delete", !.service = s,
                              !.rows = {s}])
    BY <1>3 DEF AskServiceDeletion
  <2> DEFINE q == [NoJob EXCEPT !.step = "loaded", !.op = "delete", !.service = s, !.rows = {s}]
  <2>2. s \in ServiceIds /\ team[s] # "gone"
    BY DEF Existing
  <2>3. /\ q \in Job /\ q.step = "loaded" /\ q.op = "delete" /\ q.service = s
        /\ q.rows = {s}
    BY <2>2 DEF NoJob, Job, Jobs
  <2>4. LoadJob(c, q)
    BY <2>1
  <2> HIDE DEF q
  <2> QED
    BY <2>2, <2>3, <2>4, LoadsInv DEF JobSound
<1>4. CASE AskTeamDeletion(c)
  <2>1. PICK t \in {u \in Teams : Stands(u)} :
            LoadJob(c, [NoJob EXCEPT !.step = "loaded", !.op = "deleteTeam", !.team = t,
                              !.rows = {s \in Existing : team[s] = t}])
    BY <1>4 DEF AskTeamDeletion
  <2> DEFINE r == {s \in Existing : team[s] = t}
             q == [NoJob EXCEPT !.step = "loaded", !.op = "deleteTeam", !.team = t, !.rows = r]
  <2>2. r \in SUBSET ServiceIds /\ \A s \in r : team[s] # "gone"
    BY DEF Existing
  <2>3. LoadJob(c, q)
    BY <2>1
  <2> HIDE DEF r
  <2>4. /\ q \in Job /\ q.step = "loaded" /\ q.op = "deleteTeam" /\ q.team = t
        /\ q.rows = r
    BY <2>2 DEF NoJob, Job, Jobs
  <2> HIDE DEF q
  <2> QED
    BY <2>2, <2>3, <2>4, LoadsInv DEF JobSound
<1> QED
  BY <1>1, <1>2, <1>3, <1>4

LEMMA CommitsServiceInv ==
    ASSUME ServicesInv, NEW c \in Calls,
           CreateService(c) \/ UpdateService(c) \/ DeleteService(c) \/ DeleteTeamRow(c)
    PROVE  ServicesInv'
<1> DEFINE q == job[c]
<1>1. q \in Job /\ JobSound(q)
  BY ServicesTypes DEF ServicesInv
<1>2. \A s \in ServiceIds : team[s] = "gone" \/ team[s] = None \/ teams[team[s]] = "live"
  BY DEF ServicesInv, TeamsExist, Existing, Stands
<1>3. CASE CreateService(c)
  <2>1. PICK s \in ServiceIds : Store(c, [team EXCEPT ![s] = None])
    BY <1>3 DEF CreateService
  <2> DEFINE n == [team EXCEPT ![s] = None]
  <2>2. /\ n \in [ServiceIds -> Teams \union {None, "gone"}]
        /\ \A r \in ServiceIds : r # s => n[r] = team[r]
        /\ n[s] = None
    BY ServicesTypes
  <2>3. /\ Store(c, n) /\ q.step = "loaded" /\ q.op = "create" /\ UNCHANGED teams
    BY <1>3, <2>1 DEF CreateService, Loaded
  <2> HIDE DEF n
  <2>4. teams' \in [Teams -> Lives] /\ \A r \in ServiceIds \ {s} : n[r] = team[r]
    BY <2>2, <2>3, ServicesTypes
  <2>5. \A r \in ServiceIds : n[r] = "gone" \/ n[r] = None \/ teams'[n[r]] = "live"
    BY <1>2, <2>2, <2>3
  <2> QED
    BY <2>2, <2>3, <2>4, <2>5, StoreInv
<1>4. CASE UpdateService(c)
  <2>1. q.step = "loaded" /\ q.op = "assign" /\ UNCHANGED teams
    BY <1>4 DEF UpdateService, Loaded
  <2>2. teams' \in [Teams -> Lives]
    BY <2>1, ServicesTypes
  <2>3. CASE Store(c, team)
    <3>1. \A s \in ServiceIds : team[s] = "gone" \/ team[s] = None \/ teams'[team[s]] = "live"
      BY <1>2, <2>1
    <3> QED
      BY <2>1, <2>2, <2>3, <3>1, ServicesTypes, StoreInv
  <2>4. CASE /\ ~q.lost
             /\ q.team # None => Stands(q.team)
             /\ Store(c, [team EXCEPT ![q.service] = q.team])
    <3> DEFINE n == [team EXCEPT ![q.service] = q.team]
    <3>1. /\ q.service \in q.rows /\ q.rows \subseteq ServiceIds
          /\ q.team \in Teams \union {None} /\ team[q.service] # "gone"
      BY <1>1, <2>1, <2>4 DEF JobSound, Job
    <3>2. /\ n \in [ServiceIds -> Teams \union {None, "gone"}] /\ n[q.service] = q.team
          /\ \A s \in ServiceIds : s # q.service => n[s] = team[s]
      BY <3>1, ServicesTypes
    <3>3. Store(c, n)
      BY <2>4
    <3> HIDE DEF n
    <3>4. \A s \in ServiceIds : n[s] # "gone" => team[s] # "gone"
      BY <3>1, <3>2
    <3>5. \A s \in ServiceIds : n[s] = "gone" \/ n[s] = None \/ teams'[n[s]] = "live"
      BY <1>2, <2>1, <2>4, <3>2 DEF Stands
    <3> QED
      BY <2>1, <2>2, <3>2, <3>3, <3>4, <3>5, StoreInv
  <2> QED
    BY <1>4, <2>3, <2>4 DEF UpdateService
<1>5. CASE DeleteService(c)
  <2> DEFINE n == IF q.lost THEN team ELSE [team EXCEPT ![q.service] = "gone"]
  <2>1. q.step = "loaded" /\ q.op = "delete" /\ UNCHANGED teams /\ Store(c, n)
    BY <1>5 DEF DeleteService, Loaded
  <2>2. /\ n \in [ServiceIds -> Teams \union {None, "gone"}]
        /\ \A s \in ServiceIds : n[s] = team[s] \/ n[s] = "gone"
    BY ServicesTypes
  <2> HIDE DEF n
  <2>3. teams' \in [Teams -> Lives]
    BY <2>1, ServicesTypes
  <2>4. \A s \in ServiceIds : n[s] = "gone" \/ n[s] = None \/ teams'[n[s]] = "live"
    BY <1>2, <2>1, <2>2
  <2>5. \A s \in ServiceIds : n[s] # "gone" => team[s] # "gone"
    BY <2>2
  <2> QED
    BY <2>1, <2>2, <2>3, <2>4, <2>5, StoreInv
<1>6. CASE DeleteTeamRow(c)
  <2> DEFINE n == [s \in ServiceIds |->
                     IF s \in q.rows \/ team[s] = q.team THEN None ELSE team[s]]
  <2>1. /\ q.step = "loaded" /\ q.op = "deleteTeam" /\ ~q.lost /\ Store(c, n)
        /\ teams' = [teams EXCEPT ![q.team] = "gone"]
    BY <1>6 DEF DeleteTeamRow, Loaded
  <2>2. q.team \in Teams /\ \A s \in q.rows : team[s] # "gone"
    BY <1>1, <2>1 DEF JobSound
  <2>3. /\ n \in [ServiceIds -> Teams \union {None, "gone"}]
        /\ \A s \in ServiceIds : n[s] = None \/ (n[s] = team[s] /\ team[s] # q.team)
        /\ \A s \in ServiceIds : n[s] # "gone" => team[s] # "gone"
    BY <2>2, ServicesTypes
  <2> HIDE DEF n
  <2>4. teams' \in [Teams -> Lives]
    BY <2>1, ServicesTypes DEF Lives
  <2>5. \A s \in ServiceIds : n[s] = "gone" \/ n[s] = None \/ teams'[n[s]] = "live"
    BY <1>2, <2>1, <2>3, ServicesTypes
  <2> QED
    BY <2>1, <2>3, <2>4, <2>5, StoreInv
<1> QED
  BY <1>3, <1>4, <1>5, <1>6

LEMMA ServicesStep ==
    ASSUME ServicesInv, [ServicesNext]_servicesVars
    PROVE  ServicesInv'
<1>1. CASE PlanChanges
  <2>1. /\ plan' \in {"FREE", "PRO"} /\ wasPro' = TRUE /\ UNCHANGED <<team, teams, job>>
    BY <1>1 DEF PlanChanges
  <2> QED
    BY <2>1 DEF ServicesInv, ServicesTypeOK, JobSound, LimitAlmostKept, TeamsExist, Existing,
       Stands
<1>2. ASSUME NEW c \in Calls, CreateTeam(c)
      PROVE  ServicesInv'
  <2>1. PICK t \in Teams : teams[t] = "new" /\ teams' = [teams EXCEPT ![t] = "live"]
    BY <1>2 DEF CreateTeam
  <2>2. /\ UNCHANGED <<team, plan, job, wasPro>> /\ teams' \in [Teams -> Lives]
        /\ \A u \in Teams : teams[u] = "live" => teams'[u] = "live"
    BY <1>2, <2>1, ServicesTypes DEF CreateTeam, Lives
  <2>3. ServicesTypeOK' /\ \A d \in Calls : JobSound(job[d])'
    BY <2>2 DEF ServicesInv, ServicesTypeOK, JobSound
  <2>4. TeamsExist'
    BY <2>2, ServicesTypes DEF ServicesInv, TeamsExist, Existing, Stands
  <2>5. LimitAlmostKept'
    BY <2>2 DEF ServicesInv, LimitAlmostKept, Existing, Adding
  <2> QED
    BY <2>2, <2>3, <2>4, <2>5 DEF ServicesInv
<1>3. ASSUME NEW c \in Calls, JobLost(c)
      PROVE  ServicesInv'
  <2>1. /\ job' = [job EXCEPT ![c] = NoJob] /\ UNCHANGED <<team, teams, plan, wasPro>>
    BY <1>3 DEF JobLost
  <2>2. /\ job' \in [Calls -> Job] /\ job'[c] = NoJob
        /\ \A d \in Calls \ {c} : job'[d] = job[d]
    BY <2>1, ServicesTypes, NoJobSound
  <2>3. ServicesTypeOK' /\ \A d \in Calls : JobSound(job[d])'
    BY <2>1, <2>2, NoJobSound DEF ServicesInv, ServicesTypeOK, JobSound
  <2>4. TeamsExist'
    BY <2>1 DEF ServicesInv, TeamsExist, Existing, Stands
  <2>5. Existing' = Existing /\ Adding' \subseteq Adding
    BY <2>1, <2>2, NoJobSound DEF Existing, Adding
  <2>6. Cardinality(Adding)' \in Nat /\ Cardinality(Adding)' <= Cardinality(Adding)
    BY <2>5, CountsAreNat, Fewer
  <2>7. ~wasPro => Cardinality(Existing) + Cardinality(Adding)
                      <= FreeLimit + Cardinality(Calls) - 1
    BY DEF ServicesInv, LimitAlmostKept
  <2>8. ~wasPro => Cardinality(Existing)' + Cardinality(Adding)'
                      <= FreeLimit + Cardinality(Calls) - 1
    BY <2>5, <2>6, <2>7, CountsAreNat, ServicesTypes
  <2> QED
    BY <2>1, <2>3, <2>4, <2>8 DEF ServicesInv, LimitAlmostKept
<1>4. CASE UNCHANGED servicesVars
  BY <1>4 DEF servicesVars, ServicesInv, ServicesTypeOK, JobSound, LimitAlmostKept, TeamsExist,
     Existing, Adding, Stands
<1> QED
  BY <1>1, <1>2, <1>3, <1>4, AsksServiceInv, CommitsServiceInv DEF ServicesNext, ServiceStep

LEMMA ServicesInitInv == ServicesInit => ServicesInv
<1> SUFFICES ASSUME ServicesInit PROVE ServicesInv
  OBVIOUS
<1>1. ServicesTypeOK /\ wasPro = FALSE /\ plan = "FREE"
  BY NoJobSound DEF ServicesInit, ServicesTypeOK, Lives
<1>2. \A c \in Calls : job[c] = NoJob
  BY DEF ServicesInit
<1>3. Existing = {} /\ Adding = {}
  BY <1>2, NoJobSound DEF ServicesInit, Existing, Adding
<1>4. Cardinality(Existing) = 0 /\ Cardinality(Adding) = 0
  BY <1>3, FS_EmptySet
<1>5. Cardinality(Calls) \in Nat /\ Cardinality(Calls) # 0 /\ FreeLimit \in Nat
  BY ServicesAssumption, FS_CardinalityType, FS_EmptySet
<1>6. LimitAlmostKept
  BY <1>4, <1>5 DEF LimitAlmostKept
<1>7. TeamsExist
  BY <1>3 DEF TeamsExist
<1>8. \A c \in Calls : JobSound(job[c])
  BY <1>2, NoJobSound DEF JobSound
<1> QED
  BY <1>1, <1>6, <1>7, <1>8 DEF ServicesInv

LEMMA ServicesInvariance == ServicesSpec => []ServicesInv
BY ServicesInitInv, ServicesStep, PTL DEF ServicesSpec

-----------------------------------------------------------------------------
(* Environments. *)

\* The requests that have looked for the default environment, and what they found.
Setters == {c \in Calls : edit[c].op = "default" /\ edit[c].step \in {"found", "ready"}}
Olds == {edit[c].old : c \in Setters}

\* What a request has found, and the rows it has locked.
EditSound(c, q) ==
    /\ (q.step = "loaded" /\ q.op = "default") => q.old = None
    /\ (q.step = "found" /\ q.op = "default") => q.old \in Envs
    /\ (q.step = "ready" /\ q.op = "default" /\ q.old # None)
       => rowOf[q.old] = c \/ (q.old = q.env /\ ~q.was)
    /\ (q.step = "ready" /\ q.op = "report" /\ q.key # None)
       => rowOf[q.key] = c /\ key[q.key] = "live"
    /\ (q.step # "idle" /\ q.op # "report" /\ q.op # "dropKey") => q.env \in Envs
    /\ (q.step = "ready" /\ q.op = "report") => q.env \in Envs
    /\ (q.step = "loaded" /\ q.op = "report") => q.key \in Keys
    /\ (q.step # "idle" /\ q.op = "dropKey") => q.key \in Keys
    /\ (q.step # "idle" /\ q.op \in {"addRepo", "dropRepo"}) => q.repo \in Repos
    /\ q.step = "loaded" => q.op \in {"default", "report"}
    /\ q.step = "found" => q.op = "default"

\* A request that has found no default environment, or one that is not any more,
\* will add one; there is one of them for each default environment that no
\* request is about to unset.
FewUnseen ==
    /\ IsFiniteSet(Defaults)
    /\ Cardinality(Defaults \ Olds) + Cardinality(Setters) <= Cardinality(Calls)

\* As long as one request is served at a time, what it found is what there is.
OneByOne ==
    ~overlapped =>
        /\ \A c \in Calls : \A d \in Calls \ {c} :
              edit[c].step = "idle" \/ edit[d].step = "idle"
        /\ \A d, e \in Defaults : d = e
        /\ \A c \in Setters : \A e \in Defaults : e = edit[c].old

EnvironmentsInv ==
    /\ EnvironmentsTypeOK
    /\ \A c \in Calls : EditSound(c, edit[c])
    /\ OneByOne
    /\ FewUnseen
    /\ NothingOutlivesItsEnvironment

LEMMA EnvironmentsTypes ==
    ASSUME EnvironmentsInv
    PROVE  /\ env \in [Envs -> {"new", "plain", "default", "gone"}]
           /\ repos \in [Envs -> SUBSET Repos]
           /\ deployed \in [Envs -> SUBSET (Keys \union {None})]
           /\ key \in [Keys -> Lives]
           /\ rowOf \in [Envs \union Keys -> Calls \union {None}]
           /\ edit \in [Calls -> Edit] /\ overlapped \in BOOLEAN
           /\ None \notin Envs /\ None \notin Repos /\ None \notin Keys
           /\ None \notin Calls /\ IsFiniteSet(Calls)
BY EnvironmentsAssumption, PlatformAssumption DEF EnvironmentsInv, EnvironmentsTypeOK

LEMMA NoEditSound == NoEdit \in Edit /\ NoEdit.step = "idle"
BY DEF NoEdit, Edit, EditOps

LEMMA SettersCount ==
    ASSUME EnvironmentsInv
    PROVE  /\ IsFiniteSet(Setters) /\ Cardinality(Setters) \in Nat
           /\ IsFiniteSet(Defaults \ Olds) /\ Cardinality(Defaults \ Olds) \in Nat
           /\ Cardinality(Calls) \in Nat
           /\ Cardinality(Setters) <= Cardinality(Calls)
<1>1. Setters \subseteq Calls /\ Defaults \ Olds \subseteq Defaults /\ IsFiniteSet(Defaults)
  BY DEF Setters, EnvironmentsInv, FewUnseen
<1> QED
  BY <1>1, EnvironmentsTypes, Fewer

\* A step after which there is no more to unset, and no more to add.
LEMMA FewUnseenKept ==
    ASSUME EnvironmentsInv, (Defaults \ Olds)' \subseteq Defaults \ Olds,
           Setters' \subseteq Setters, IsFiniteSet(Defaults)'
    PROVE  FewUnseen'
<1>1. /\ Cardinality((Defaults \ Olds)') <= Cardinality(Defaults \ Olds)
      /\ Cardinality((Defaults \ Olds)') \in Nat
  BY SettersCount, Fewer
<1>2. Cardinality(Setters') <= Cardinality(Setters) /\ Cardinality(Setters') \in Nat
  BY SettersCount, Fewer
<1>3. Cardinality(Defaults \ Olds) + Cardinality(Setters) <= Cardinality(Calls)
  BY DEF EnvironmentsInv, FewUnseen
<1>4. Cardinality((Defaults \ Olds)') + Cardinality(Setters') <= Cardinality(Calls)
  BY <1>1, <1>2, <1>3, SettersCount
<1> QED
  BY <1>4 DEF FewUnseen

\* A request that is done with the default environments leaves at most one more.
LEMMA FewUnseenSwapped ==
    ASSUME EnvironmentsInv, NEW c \in Setters, NEW e,
           (Defaults \ Olds)' \subseteq (Defaults \ Olds) \union {e},
           Setters' \subseteq Setters \ {c}, IsFiniteSet(Defaults)'
    PROVE  FewUnseen'
<1>1. /\ Cardinality((Defaults \ Olds)') <= Cardinality(Defaults \ Olds) + 1
      /\ Cardinality((Defaults \ Olds)') \in Nat
  BY SettersCount, OneMoreAtMost
<1>2. /\ Cardinality(Setters') <= Cardinality(Setters) - 1
      /\ Cardinality(Setters') \in Nat
  BY SettersCount, OneFewer
<1>3. Cardinality(Defaults \ Olds) + Cardinality(Setters) <= Cardinality(Calls)
  BY DEF EnvironmentsInv, FewUnseen
<1>4. Cardinality((Defaults \ Olds)') + Cardinality(Setters') <= Cardinality(Calls)
  BY <1>1, <1>2, <1>3, SettersCount
<1> QED
  BY <1>4 DEF FewUnseen

\* The default environments are no more than the requests.
LEMMA FewUnseenIsFew == EnvironmentsInv => FewDefaults
<1> SUFFICES ASSUME EnvironmentsInv
             PROVE  Cardinality(Defaults) <= Cardinality(Calls)
  BY DEF FewDefaults
<1> DEFINE f == [c \in Setters |-> edit[c].old]
<1>1. f \in Surjection(Setters, Olds)
  BY DEF Surjection, Olds
<1>2. IsFiniteSet(Olds) /\ Cardinality(Olds) <= Cardinality(Setters)
  BY <1>1, SettersCount, FS_Surjection
<1>3. Cardinality(Olds) \in Nat
  BY <1>2, FS_CardinalityType
<1> DEFINE A == Defaults \ Olds
<1>4. IsFiniteSet(A) /\ Cardinality(A) \in Nat
  BY SettersCount
<1>5. Defaults \subseteq A \union Olds
  OBVIOUS
<1> HIDE DEF A
<1>6. /\ IsFiniteSet(A \union Olds) /\ IsFiniteSet(A \intersect Olds)
      /\ Cardinality(A \union Olds)
            = Cardinality(A) + Cardinality(Olds) - Cardinality(A \intersect Olds)
  BY <1>2, <1>4, FS_Union, FS_Intersection
<1>7. Cardinality(A \intersect Olds) \in Nat
  BY <1>6, FS_CardinalityType
<1>8. Cardinality(Defaults) <= Cardinality(A \union Olds) /\ Cardinality(Defaults) \in Nat
  BY <1>5, <1>6, Fewer
<1>9. Cardinality(A) + Cardinality(Setters) <= Cardinality(Calls)
  BY DEF EnvironmentsInv, FewUnseen, A
<1> QED
  BY <1>2, <1>3, <1>4, <1>6, <1>7, <1>8, <1>9, SettersCount

LEMMA EnvironmentsHold == EnvironmentsInv => EnvironmentsAreSound
<1> SUFFICES ASSUME EnvironmentsInv
             PROVE  OneDefault
  BY FewUnseenIsFew DEF EnvironmentsAreSound, EnvironmentsInv
<1>1. ASSUME ~overlapped
      PROVE  Cardinality(Defaults) <= 1
  <2>1. \A d, e \in Defaults : d = e
    BY <1>1 DEF EnvironmentsInv, OneByOne
  <2>2. CASE Defaults = {}
    BY <2>2, FS_EmptySet
  <2>3. CASE Defaults # {}
    <3>1. PICK d \in Defaults : TRUE
      BY <2>3
    <3>2. Defaults = {d}
      BY <2>1, <3>1
    <3> QED
      BY <3>2, FS_Singleton
  <2> QED
    BY <2>2, <2>3
<1> QED
  BY <1>1 DEF OneDefault

\* A request starts; it has not looked for the default environment yet.
LEMMA BeginInv ==
    ASSUME EnvironmentsInv, NEW c \in Calls, NEW q \in Edit, Begin(c, q),
           q.step # "idle", ~(q.op = "default" /\ q.step \in {"found", "ready"}),
           EditSound(c, q)
    PROVE  EnvironmentsInv'
<1>1. /\ edit' \in [Calls -> Edit] /\ edit'[c] = q /\ edit[c].step = "idle"
      /\ \A d \in Calls \ {c} : edit'[d] = edit[d]
      /\ UNCHANGED <<env, repos, deployed, key, rowOf>>
      /\ overlapped' = (overlapped \/ \E d \in Calls \ {c} : edit[d].step # "idle")
  BY EnvironmentsTypes DEF Begin
<1>2. EnvironmentsTypeOK' /\ NothingOutlivesItsEnvironment'
  BY <1>1 DEF EnvironmentsInv, EnvironmentsTypeOK, NothingOutlivesItsEnvironment, Environment
<1>3. \A d \in Calls : EditSound(d, edit[d])'
  BY <1>1 DEF EnvironmentsInv, EditSound
<1>4. Setters' = Setters /\ \A d \in Setters : d \in Calls \ {c}
  BY <1>1 DEF Setters
<1>5. Olds' = Olds /\ Defaults' = Defaults
  BY <1>1, <1>4 DEF Olds, Defaults
<1>6. FewUnseen'
  BY <1>4, <1>5 DEF EnvironmentsInv, FewUnseen
<1>7. ASSUME ~overlapped'
      PROVE  /\ \A d \in Calls : \A e \in Calls \ {d} :
                   edit'[d].step = "idle" \/ edit'[e].step = "idle"
             /\ \A d, e \in Defaults' : d = e
             /\ \A d \in Setters' : \A e \in Defaults' : e = edit'[d].old
  <2>1. \A d \in Calls \ {c} : edit[d].step = "idle" /\ edit'[d].step = "idle"
    BY <1>1, <1>7
  <2>2. Setters' = {}
    BY <1>4, <2>1 DEF Setters
  <2>3. \A d, e \in Defaults' : d = e
    BY <1>1, <1>5, <1>7 DEF EnvironmentsInv, OneByOne
  <2> QED
    BY <2>1, <2>2, <2>3
<1>8. OneByOne'
  BY <1>7 DEF OneByOne
<1> QED
  BY <1>2, <1>3, <1>6, <1>8 DEF EnvironmentsInv

\* A request ends: it unsets what it has found, if it makes another one the default.
LEMMA FinishInv ==
    ASSUME EnvironmentsInv, NEW c \in Calls, FinishEdit(c),
           env' \in [Envs -> {"new", "plain", "default", "gone"}],
           repos' \in [Envs -> SUBSET Repos],
           deployed' \in [Envs -> SUBSET (Keys \union {None})],
           key' \in [Keys -> Lives],
           \A k \in Keys : key'[k] = key[k] \/ Writable(c, k),
           NothingOutlivesItsEnvironment', NEW x,
           \/ Defaults' \subseteq Defaults
           \/ c \in Setters /\ Defaults' \subseteq (Defaults \ {edit[c].old}) \union {x}
    PROVE  EnvironmentsInv'
<1> DEFINE old == edit[c].old
<1>1. /\ edit' \in [Calls -> Edit] /\ edit'[c] = NoEdit
      /\ \A d \in Calls \ {c} : edit'[d] = edit[d]
      /\ rowOf' \in [Envs \union Keys -> Calls \union {None}]
      /\ \A y \in Envs \union Keys : rowOf[y] # c => rowOf'[y] = rowOf[y]
      /\ UNCHANGED overlapped
  BY EnvironmentsTypes, NoEditSound DEF FinishEdit
<1>2. EnvironmentsTypeOK'
  BY <1>1, EnvironmentsTypes DEF EnvironmentsTypeOK
<1>3. ASSUME NEW d \in Calls
      PROVE  EditSound(d, edit[d])'
  <2>1. CASE d = c
    BY <1>1, <2>1, NoEditSound DEF EditSound
  <2>2. CASE d # c
    <3>1. edit'[d] = edit[d] /\ EditSound(d, edit[d])
      BY <1>1, <2>2 DEF EnvironmentsInv
    <3> DEFINE q == edit[d]
    <3>2. /\ q \in Edit /\ q.old \in Envs \union {None} /\ q.key \in Keys \union {None}
      BY EnvironmentsTypes DEF Edit
    <3>3. ASSUME NEW y \in Envs \union Keys, rowOf[y] = d
          PROVE  rowOf'[y] = d
      BY <1>1, <2>2, <3>3
    <3>4. ASSUME NEW k \in Keys, rowOf[k] = d
          PROVE  key'[k] = key[k]
      BY <2>2, <3>4, EnvironmentsTypes DEF Writable
    <3> HIDE DEF q
    <3>5. EditSound(d, q)'
      BY <3>1, <3>2, <3>3, <3>4 DEF EditSound, q
    <3> QED
      BY <3>1, <3>5 DEF q, EditSound
  <2> QED
    BY <2>1, <2>2
<1>4. Setters' = Setters \ {c}
  BY <1>1, NoEditSound DEF Setters
<1>5. \A e \in Olds : (c \notin Setters \/ e # old) => e \in Olds'
  <2> SUFFICES ASSUME NEW e \in Olds, c \notin Setters \/ e # old
               PROVE  e \in Olds'
    OBVIOUS
  <2>1. PICK d \in Setters : e = edit[d].old
    BY DEF Olds
  <2>2. d # c /\ d \in Setters' /\ edit'[d].old = e
    BY <1>1, <1>4, <2>1 DEF Setters
  <2> QED
    BY <2>2 DEF Olds
<1>6. IsFiniteSet(Defaults')
  <2>1. IsFiniteSet(Defaults) /\ IsFiniteSet(Defaults \union {x})
    BY FS_AddElement DEF EnvironmentsInv, FewUnseen
  <2>2. Defaults' \subseteq Defaults \union {x}
    OBVIOUS
  <2> QED
    BY <2>1, <2>2, FS_Subset
<1>7. FewUnseen'
  <2>1. CASE c \notin Setters
    <3>1. Defaults' \subseteq Defaults /\ Olds \subseteq Olds'
      BY <1>5, <2>1
    <3>2. Defaults' \ Olds' \subseteq Defaults \ Olds /\ Setters' \subseteq Setters
      BY <1>4, <3>1
    <3> QED
      BY <1>6, <3>2, FewUnseenKept
  <2>2. CASE c \in Setters /\ Defaults' \subseteq Defaults
    <3>1. Defaults' \ Olds' \subseteq (Defaults \ Olds) \union {old}
      BY <1>5, <2>2
    <3> QED
      BY <1>4, <1>6, <2>2, <3>1, FewUnseenSwapped
  <2>3. CASE c \in Setters /\ Defaults' \subseteq (Defaults \ {old}) \union {x}
    <3>1. Defaults' \ Olds' \subseteq (Defaults \ Olds) \union {x}
      BY <1>5, <2>3
    <3> QED
      BY <1>4, <1>6, <2>3, <3>1, FewUnseenSwapped
  <2> QED
    BY <2>1, <2>2, <2>3
<1>8. ASSUME ~overlapped
      PROVE  /\ \A d \in Calls : \A e \in Calls \ {d} :
                   edit'[d].step = "idle" \/ edit'[e].step = "idle"
             /\ \A d, e \in Defaults' : d = e
             /\ \A d \in Setters' : \A e \in Defaults' : e = edit'[d].old
  <2>1. /\ \A d \in Calls : \A e \in Calls \ {d} :
               edit[d].step = "idle" \/ edit[e].step = "idle"
        /\ \A d, e \in Defaults : d = e
        /\ \A d \in Setters : \A e \in Defaults : e = edit[d].old
    BY <1>8 DEF EnvironmentsInv, OneByOne
  <2>2. \A d \in Calls : \A e \in Calls \ {d} :
            edit'[d].step = "idle" \/ edit'[e].step = "idle"
    BY <1>1, <2>1, NoEditSound
  <2>3. CASE Defaults' \subseteq Defaults
    <3>1. \A d, e \in Defaults' : d = e
      BY <2>1, <2>3
    <3>2. \A d \in Setters' : d \in Setters /\ edit'[d] = edit[d]
      BY <1>1, <1>4 DEF Setters
    <3>3. \A d \in Setters' : \A e \in Defaults' : e = edit'[d].old
      BY <2>1, <2>3, <3>2
    <3> QED
      BY <2>2, <3>1, <3>3
  <2>4. CASE c \in Setters /\ Defaults' \subseteq (Defaults \ {old}) \union {x}
    <3>1. Defaults' \subseteq {x}
      BY <2>1, <2>4
    <3>2. \A d \in Calls \ {c} : edit[d].step = "idle"
      BY <2>1, <2>4 DEF Setters
    <3>3. Setters' = {}
      BY <1>4, <3>2 DEF Setters
    <3> QED
      BY <2>2, <3>1, <3>3
  <2> QED
    BY <2>2, <2>3, <2>4
<1>9. OneByOne'
  BY <1>1, <1>8 DEF OneByOne
<1> QED
  BY <1>2, <1>3, <1>7, <1>9 DEF EnvironmentsInv

\* Each request that starts.
LEMMA BeginsInv ==
    ASSUME EnvironmentsInv, NEW c \in Calls,
           \/ AskDefaultEnv(c) \/ AskNewEnv(c) \/ AskNoDefault(c) \/ AskEnvDeletion(c)
           \/ AskRepository(c) \/ AskDeployment(c) \/ AskKeyDeletion(c) \/ AskWebhook(c)
    PROVE  EnvironmentsInv'
<1>1. CASE AskDefaultEnv(c)
  <2>1. PICK e \in Environment :
            Begin(c, [NoEdit EXCEPT !.step = "loaded", !.op = "default", !.env = e,
                                    !.was = env[e] = "default"])
    BY <1>1 DEF AskDefaultEnv
  <2> DEFINE w == env[e] = "default"
             q == [NoEdit EXCEPT !.step = "loaded", !.op = "default", !.env = e, !.was = w]
  <2>2. Begin(c, q) /\ e \in Envs /\ w \in BOOLEAN
    BY <2>1 DEF Environment
  <2> HIDE DEF w
  <2>3. q \in Edit /\ q.step = "loaded" /\ q.op = "default" /\ q.env = e /\ q.old = None
    BY <2>2 DEF NoEdit, Edit, EditOps
  <2> HIDE DEF q
  <2>4. EditSound(c, q)
    BY <2>2, <2>3 DEF EditSound
  <2> QED
    BY <2>2, <2>3, <2>4, BeginInv
<1>2. CASE AskNewEnv(c)
  <2>1. PICK e \in Envs : \E makeDefault \in BOOLEAN :
            Begin(c, [NoEdit EXCEPT !.op = IF makeDefault THEN "default" ELSE "create",
                                    !.step = IF makeDefault THEN "loaded" ELSE "ready",
                                    !.env = e])
    BY <1>2 DEF AskNewEnv
  <2>2. \/ Begin(c, [NoEdit EXCEPT !.op = "default", !.step = "loaded", !.env = e])
        \/ Begin(c, [NoEdit EXCEPT !.op = "create", !.step = "ready", !.env = e])
    BY <2>1
  <2>3. CASE Begin(c, [NoEdit EXCEPT !.op = "default", !.step = "loaded", !.env = e])
    <3> DEFINE q == [NoEdit EXCEPT !.op = "default", !.step = "loaded", !.env = e]
    <3>1. q \in Edit /\ q.step = "loaded" /\ q.op = "default" /\ q.env = e /\ q.old = None
      BY DEF NoEdit, Edit, EditOps
    <3>2. Begin(c, q)
      BY <2>3
    <3> HIDE DEF q
    <3>3. EditSound(c, q)
      BY <3>1 DEF EditSound
    <3> QED
      BY <3>1, <3>2, <3>3, BeginInv
  <2>4. CASE Begin(c, [NoEdit EXCEPT !.op = "create", !.step = "ready", !.env = e])
    <3> DEFINE q == [NoEdit EXCEPT !.op = "create", !.step = "ready", !.env = e]
    <3>1. q \in Edit /\ q.step = "ready" /\ q.op = "create" /\ q.env = e
      BY DEF NoEdit, Edit, EditOps
    <3>2. Begin(c, q)
      BY <2>4
    <3> HIDE DEF q
    <3>3. EditSound(c, q)
      BY <3>1 DEF EditSound
    <3> QED
      BY <3>1, <3>2, <3>3, BeginInv
  <2> QED
    BY <2>2, <2>3, <2>4
<1>3. CASE AskNoDefault(c)
  <2>1. PICK e \in Environment :
            Begin(c, [NoEdit EXCEPT !.step = "ready", !.op = "undefault", !.env = e,
                                    !.was = env[e] = "default"])
    BY <1>3 DEF AskNoDefault
  <2> DEFINE w == env[e] = "default"
             q == [NoEdit EXCEPT !.step = "ready", !.op = "undefault", !.env = e, !.was = w]
  <2>2. Begin(c, q) /\ e \in Envs /\ w \in BOOLEAN
    BY <2>1 DEF Environment
  <2> HIDE DEF w
  <2>3. q \in Edit /\ q.step = "ready" /\ q.op = "undefault" /\ q.env = e
    BY <2>2 DEF NoEdit, Edit, EditOps
  <2> HIDE DEF q
  <2>4. EditSound(c, q)
    BY <2>2, <2>3 DEF EditSound
  <2> QED
    BY <2>2, <2>3, <2>4, BeginInv
<1>4. CASE AskEnvDeletion(c)
  <2>1. PICK e \in Environment :
            Begin(c, [NoEdit EXCEPT !.step = "ready", !.op = "delete", !.env = e])
    BY <1>4 DEF AskEnvDeletion
  <2> DEFINE q == [NoEdit EXCEPT !.step = "ready", !.op = "delete", !.env = e]
  <2>2. Begin(c, q) /\ e \in Envs
    BY <2>1 DEF Environment
  <2>3. q \in Edit /\ q.step = "ready" /\ q.op = "delete" /\ q.env = e
    BY <2>2 DEF NoEdit, Edit, EditOps
  <2> HIDE DEF q
  <2>4. EditSound(c, q)
    BY <2>2, <2>3 DEF EditSound
  <2> QED
    BY <2>2, <2>3, <2>4, BeginInv
<1>5. CASE AskRepository(c)
  <2>1. PICK e \in Environment : \E r \in Repos :
            Begin(c, [NoEdit EXCEPT !.step = "ready", !.env = e, !.repo = r,
                          !.op = IF r \in repos[e] THEN "dropRepo" ELSE "addRepo"])
    BY <1>5 DEF AskRepository
  <2>2. PICK r \in Repos :
            Begin(c, [NoEdit EXCEPT !.step = "ready", !.env = e, !.repo = r,
                          !.op = IF r \in repos[e] THEN "dropRepo" ELSE "addRepo"])
    BY <2>1
  <2> DEFINE o == IF r \in repos[e] THEN "dropRepo" ELSE "addRepo"
             q == [NoEdit EXCEPT !.step = "ready", !.env = e, !.repo = r, !.op = o]
  <2>3. Begin(c, q) /\ e \in Envs /\ o \in {"addRepo", "dropRepo"}
    BY <2>2 DEF Environment
  <2> HIDE DEF o
  <2>4. q \in Edit /\ q.step = "ready" /\ q.op = o /\ q.env = e /\ q.repo = r
    BY <2>3 DEF NoEdit, Edit, EditOps
  <2> HIDE DEF q
  <2>5. EditSound(c, q)
    BY <2>3, <2>4 DEF EditSound
  <2> QED
    BY <2>3, <2>4, <2>5, BeginInv
<1>6. CASE AskDeployment(c)
  <2>1. PICK e \in Environment :
            Begin(c, [NoEdit EXCEPT !.step = "ready", !.op = "report", !.env = e])
    BY <1>6 DEF AskDeployment
  <2> DEFINE q == [NoEdit EXCEPT !.step = "ready", !.op = "report", !.env = e]
  <2>2. Begin(c, q) /\ e \in Envs
    BY <2>1 DEF Environment
  <2>3. q \in Edit /\ q.step = "ready" /\ q.op = "report" /\ q.env = e /\ q.key = None
    BY <2>2 DEF NoEdit, Edit, EditOps
  <2> HIDE DEF q
  <2>4. EditSound(c, q)
    BY <2>2, <2>3 DEF EditSound
  <2> QED
    BY <2>2, <2>3, <2>4, BeginInv
<1>7. CASE AskKeyDeletion(c)
  <2>1. PICK k \in Keys : Begin(c, [NoEdit EXCEPT !.step = "ready", !.op = "dropKey", !.key = k])
    BY <1>7 DEF AskKeyDeletion
  <2> DEFINE q == [NoEdit EXCEPT !.step = "ready", !.op = "dropKey", !.key = k]
  <2>2. Begin(c, q)
    BY <2>1
  <2>3. q \in Edit /\ q.step = "ready" /\ q.op = "dropKey" /\ q.key = k
    BY DEF NoEdit, Edit, EditOps
  <2> HIDE DEF q
  <2>4. EditSound(c, q)
    BY <2>3 DEF EditSound
  <2> QED
    BY <2>2, <2>3, <2>4, BeginInv
<1>8. CASE AskWebhook(c)
  <2>1. PICK k \in Keys : Begin(c, [NoEdit EXCEPT !.step = "loaded", !.op = "report", !.key = k])
    BY <1>8 DEF AskWebhook
  <2> DEFINE q == [NoEdit EXCEPT !.step = "loaded", !.op = "report", !.key = k]
  <2>2. Begin(c, q)
    BY <2>1
  <2>3. q \in Edit /\ q.step = "loaded" /\ q.op = "report" /\ q.key = k
    BY DEF NoEdit, Edit, EditOps
  <2> HIDE DEF q
  <2>4. EditSound(c, q)
    BY <2>3 DEF EditSound
  <2> QED
    BY <2>2, <2>3, <2>4, BeginInv
<1> QED
  BY <1>1, <1>2, <1>3, <1>4, <1>5, <1>6, <1>7, <1>8

\* A step within a request, which locks at most one row.
LEMMA ProceedInv ==
    ASSUME EnvironmentsInv, NEW c \in Calls, NEW q \in Edit,
           edit[c].step # "idle", q.step # "idle",
           edit' = [edit EXCEPT ![c] = q], UNCHANGED <<env, repos, deployed, key, overlapped>>,
           rowOf' \in [Envs \union Keys -> Calls \union {None}],
           \A y \in Envs \union Keys : rowOf[y] \notin {c, None} => rowOf'[y] = rowOf[y],
           EditSound(c, q)', FewUnseen',
           c \in Setters' => \A e \in Defaults : e = q.old
                             \/ (c \in Setters /\ q.old = edit[c].old)
    PROVE  EnvironmentsInv'
<1>1. /\ edit' \in [Calls -> Edit] /\ edit'[c] = q
      /\ \A d \in Calls \ {c} : edit'[d] = edit[d]
  BY EnvironmentsTypes
<1>2. EnvironmentsTypeOK' /\ NothingOutlivesItsEnvironment'
  BY <1>1, EnvironmentsTypes DEF EnvironmentsInv, EnvironmentsTypeOK,
     NothingOutlivesItsEnvironment, Environment
<1>3. ASSUME NEW d \in Calls
      PROVE  EditSound(d, edit[d])'
  <2>1. CASE d = c
    <3>1. edit'[d] = q /\ EditSound(d, q)'
      BY <1>1, <2>1
    <3> QED
      BY <3>1 DEF EditSound
  <2>2. CASE d # c
    <3>0. PICK r : r = edit[d]
      OBVIOUS
    <3>1. edit'[d] = r /\ EditSound(d, r) /\ r \in Edit
      BY <3>0, <1>1, <2>2, EnvironmentsTypes DEF EnvironmentsInv
    <3>2. r.old \in Envs \union {None} /\ r.key \in Keys \union {None}
      BY <3>1 DEF Edit
    <3>3. ASSUME NEW y \in Envs \union Keys, rowOf[y] = d
          PROVE  rowOf'[y] = d
      BY <2>2, <3>3, EnvironmentsTypes
    <3>4. key' = key
      OBVIOUS
    <3>5. EditSound(d, r)'
      BY <3>1, <3>2, <3>3, <3>4 DEF EditSound
    <3> QED
      BY <3>1, <3>5 DEF EditSound
  <2> QED
    BY <2>1, <2>2
<1>4. Defaults' = Defaults
  BY DEF Defaults
<1>5. ASSUME ~overlapped
      PROVE  /\ \A d \in Calls : \A e \in Calls \ {d} :
                   edit'[d].step = "idle" \/ edit'[e].step = "idle"
             /\ \A d, e \in Defaults' : d = e
             /\ \A d \in Setters' : \A e \in Defaults' : e = edit'[d].old
  <2>1. /\ \A d \in Calls : \A e \in Calls \ {d} :
               edit[d].step = "idle" \/ edit[e].step = "idle"
        /\ \A d, e \in Defaults : d = e
        /\ \A d \in Setters : \A e \in Defaults : e = edit[d].old
    BY <1>5 DEF EnvironmentsInv, OneByOne
  <2>2. \A d \in Calls \ {c} : edit'[d].step = "idle"
    BY <1>1, <2>1
  <2>3. \A d \in Setters' : d = c
    BY <2>2 DEF Setters
  <2>4. \A d \in Setters' : \A e \in Defaults' : e = edit'[d].old
    BY <1>1, <1>4, <2>1, <2>3
  <2> QED
    BY <1>4, <2>1, <2>2, <2>4
<1>6. OneByOne'
  BY <1>5 DEF OneByOne
<1> QED
  BY <1>2, <1>3, <1>6 DEF EnvironmentsInv

LEMMA FindDefaultInv ==
    ASSUME EnvironmentsInv, NEW c \in Calls, FindDefault(c)
    PROVE  EnvironmentsInv'
<1>1. /\ edit[c] \in Edit /\ EditSound(c, edit[c])
      /\ edit[c].step = "loaded" /\ edit[c].op = "default"
      /\ UNCHANGED <<env, repos, deployed, key, rowOf, overlapped>>
  BY EnvironmentsTypes DEF EnvironmentsInv, FindDefault, AtEdit
<1>2. edit[c].env \in Envs /\ c \notin Setters
  BY <1>1 DEF EditSound, Setters
<1>3. Defaults' = Defaults
  BY <1>1 DEF Defaults
<1>4. IsFiniteSet(Defaults)
  BY DEF EnvironmentsInv, FewUnseen
<1>5. ASSUME Defaults' \ Olds' = {}
      PROVE  FewUnseen'
  <2>1. Cardinality(Defaults' \ Olds') = 0
    BY <1>5, FS_EmptySet
  <2>2. Setters' \subseteq Calls
    BY DEF Setters
  <2>3. Cardinality(Setters') \in Nat /\ Cardinality(Setters') <= Cardinality(Calls)
    BY <2>2, EnvironmentsTypes, Fewer
  <2> QED
    BY <1>3, <1>4, <2>1, <2>3 DEF FewUnseen
<1>6. CASE Defaults = {} /\ edit' = [edit EXCEPT ![c].step = "ready"]
  <2>0. PICK q : q = [edit[c] EXCEPT !.step = "ready"]
    OBVIOUS
  <2>1. /\ q \in Edit /\ q.step = "ready" /\ q.op = "default" /\ q.env = edit[c].env
        /\ q.old = None /\ q.was = edit[c].was
    BY <2>0, <1>1 DEF Edit, EditSound
  <2>2. edit' = [edit EXCEPT ![c] = q]
    BY <2>0, <1>6
  <2>3. EditSound(c, q)'
    BY <1>1, <1>2, <2>1 DEF EditSound
  <2>4. FewUnseen'
    BY <1>3, <1>5, <1>6
  <2> QED
    BY <1>1, <1>6, <2>1, <2>2, <2>3, <2>4, EnvironmentsTypes, ProceedInv
<1>7. ASSUME NEW old \in Envs, Defaults = {old},
             edit' = [edit EXCEPT ![c].step = "found", ![c].old = old]
      PROVE  EnvironmentsInv'
  <2>0. PICK q : q = [edit[c] EXCEPT !.step = "found", !.old = old]
    OBVIOUS
  <2>1. /\ q \in Edit /\ q.step = "found" /\ q.op = "default" /\ q.env = edit[c].env
        /\ q.old = old
    BY <2>0, <1>1 DEF Edit
  <2>2. edit' = [edit EXCEPT ![c] = q]
    BY <2>0, <1>7
  <2>3. EditSound(c, q)'
    BY <1>1, <1>2, <2>1 DEF EditSound
  <2>4. edit'[c] = q
    BY <2>2, EnvironmentsTypes
  <2>5. c \in Setters' /\ edit'[c].old = old
    BY <2>1, <2>4 DEF Setters
  <2>6. old \in Olds'
    BY <2>5 DEF Olds
  <2>7. FewUnseen'
    BY <1>3, <1>5, <1>7, <2>6
  <2>8. \A e \in Defaults : e = q.old
    BY <1>7, <2>1
  <2> QED
    BY <1>1, <2>1, <2>2, <2>3, <2>7, <2>8, EnvironmentsTypes, ProceedInv
<1> QED
  BY <1>6, <1>7 DEF FindDefault

\* Its row is locked, if it is written.
LEMMA UnsetDefaultInv ==
    ASSUME EnvironmentsInv, NEW c \in Calls, UnsetDefault(c)
    PROVE  EnvironmentsInv'
<1>0. PICK q : q = [edit[c] EXCEPT !.step = "ready"]
  OBVIOUS
<1>1. /\ edit[c] \in Edit /\ EditSound(c, edit[c])
      /\ edit[c].step = "found" /\ edit[c].op = "default"
      /\ UNCHANGED <<env, repos, deployed, key, overlapped>>
      /\ edit' = [edit EXCEPT ![c].step = "ready"]
  BY EnvironmentsTypes DEF EnvironmentsInv, UnsetDefault, AtEdit
<1>2. /\ q \in Edit /\ q.step = "ready" /\ q.op = "default" /\ q.env = edit[c].env
      /\ q.old = edit[c].old /\ q.was = edit[c].was
  BY <1>0, <1>1 DEF Edit
<1>3. edit' = [edit EXCEPT ![c] = q] /\ edit'[c] = q
  BY <1>0, <1>1, EnvironmentsTypes
<1>4. q.old \in Envs /\ q.env \in Envs /\ c \in Setters
  BY <1>1, <1>2 DEF EditSound, Setters
<1>5. \/ q.old = q.env /\ ~q.was /\ UNCHANGED rowOf
      \/ Writable(c, q.old) /\ rowOf' = [rowOf EXCEPT ![q.old] = c]
  BY <1>2 DEF UnsetDefault
<1>6. /\ rowOf' \in [Envs \union Keys -> Calls \union {None}]
      /\ \A y \in Envs \union Keys : rowOf[y] \notin {c, None} => rowOf'[y] = rowOf[y]
      /\ (q.old = q.env /\ ~q.was) \/ rowOf'[q.old] = c
  BY <1>4, <1>5, EnvironmentsTypes DEF Writable
<1>7. EditSound(c, q)'
  BY <1>2, <1>4, <1>6 DEF EditSound
<1>8. \A d \in Calls : edit'[d].op = edit[d].op /\ edit'[d].old = edit[d].old
                       /\ (d \in Setters <=> d \in Setters')
  <2>1. \A d \in Calls \ {c} : edit'[d] = edit[d]
    BY <1>3, EnvironmentsTypes
  <2> QED
    BY <1>1, <1>2, <1>3, <2>1 DEF Setters
<1>9. Setters' = Setters
  BY <1>8 DEF Setters
<1>10. Olds' = Olds /\ Defaults' = Defaults
  BY <1>1, <1>8, <1>9 DEF Olds, Setters, Defaults
<1>11. FewUnseen'
  BY <1>9, <1>10 DEF EnvironmentsInv, FewUnseen
<1> QED
  BY <1>1, <1>2, <1>3, <1>4, <1>6, <1>7, <1>11, ProceedInv

LEMMA ValidateApiKeyInv ==
    ASSUME EnvironmentsInv, NEW c \in Calls, ValidateApiKey(c)
    PROVE  EnvironmentsInv'
<1>1. PICK e \in Environment : edit' = [edit EXCEPT ![c].step = "ready", ![c].env = e]
  BY DEF ValidateApiKey
<1>0. PICK q : q = [edit[c] EXCEPT !.step = "ready", !.env = e]
  OBVIOUS
<1>k. PICK k : k = edit[c].key
  OBVIOUS
<1>2. /\ edit[c] \in Edit /\ EditSound(c, edit[c])
      /\ edit[c].step = "loaded" /\ edit[c].op = "report"
      /\ key[k] = "live" /\ Writable(c, k) /\ rowOf' = [rowOf EXCEPT ![k] = c]
      /\ UNCHANGED <<env, repos, deployed, key, overlapped>> /\ e \in Envs
  BY <1>k, EnvironmentsTypes DEF EnvironmentsInv, ValidateApiKey, AtEdit, Environment
<1>3. /\ q \in Edit /\ q.step = "ready" /\ q.op = "report" /\ q.env = e /\ q.key = k
  BY <1>0, <1>k, <1>2 DEF Edit
<1>4. edit' = [edit EXCEPT ![c] = q] /\ edit'[c] = q
  BY <1>0, <1>1, EnvironmentsTypes
<1>5. k \in Keys
  BY <1>k, <1>2 DEF EditSound
<1>6. /\ rowOf' \in [Envs \union Keys -> Calls \union {None}] /\ rowOf'[k] = c
      /\ \A y \in Envs \union Keys : rowOf[y] \notin {c, None} => rowOf'[y] = rowOf[y]
  BY <1>2, <1>5, EnvironmentsTypes DEF Writable
<1>7. EditSound(c, q)'
  BY <1>2, <1>3, <1>5, <1>6 DEF EditSound
<1>8. \A d \in Calls \ {c} : edit'[d] = edit[d]
  BY <1>1, EnvironmentsTypes
<1>9. c \notin Setters /\ c \notin Setters' /\ Setters' = Setters
  BY <1>2, <1>3, <1>4, <1>8 DEF Setters
<1>10. Olds' = Olds /\ Defaults' = Defaults
  BY <1>2, <1>8, <1>9 DEF Olds, Setters, Defaults
<1>11. FewUnseen'
  BY <1>9, <1>10 DEF EnvironmentsInv, FewUnseen
<1> QED
  BY <1>2, <1>3, <1>4, <1>6, <1>7, <1>9, <1>11, ProceedInv

\* The environment it was asked to set, in place of the one that it found.
LEMMA SetDefaultInv ==
    ASSUME EnvironmentsInv, NEW c \in Calls, SetDefault(c)
    PROVE  EnvironmentsInv'
<1> DEFINE q == edit[c]
           mine == {e \in Envs : rowOf[e] = c}
           new == IF q.was /\ q.env \notin mine THEN {} ELSE {q.env}
<1>1. /\ q \in Edit /\ EditSound(c, q) /\ q.step = "ready" /\ q.op = "default"
      /\ \A e \in new : env[e] # "gone"
      /\ env' = [e \in Envs |-> IF e \in new THEN "default"
                                ELSE IF e \in mine THEN "plain" ELSE env[e]]
      /\ FinishEdit(c) /\ UNCHANGED <<repos, deployed, key>>
  BY EnvironmentsTypes DEF EnvironmentsInv, SetDefault, AtEdit
<1>2. c \in Setters /\ q.env \in Envs
  BY <1>1 DEF Setters, EditSound
<1>3. env' \in [Envs -> {"new", "plain", "default", "gone"}]
  BY <1>1, EnvironmentsTypes
<1>4. NothingOutlivesItsEnvironment'
  <2>1. \A e \in Environment : e \in Environment'
    BY <1>1, EnvironmentsTypes DEF Environment
  <2> QED
    BY <1>1, <2>1 DEF EnvironmentsInv, NothingOutlivesItsEnvironment
<1>5. \A e \in Defaults' : e \in new \/ (e \in Defaults /\ e \notin mine)
  BY <1>1 DEF Defaults
<1>6. \/ Defaults' \subseteq Defaults
      \/ Defaults' \subseteq (Defaults \ {q.old}) \union {q.env}
  <2>1. CASE new = {}
    BY <1>5, <2>1
  <2>2. CASE new # {}
    <3>1. new = {q.env}
      BY <2>2
    <3>2. q.old \in Envs \union {None}
      BY <1>1 DEF Edit
    <3>3. q.old = None \/ q.old \in mine \/ q.old = q.env
      BY <1>1, <3>2 DEF EditSound
    <3>4. None \notin Defaults
      BY EnvironmentsTypes DEF Defaults
    <3> QED
      BY <1>5, <3>1, <3>3, <3>4
  <2> QED
    BY <2>1, <2>2
<1> HIDE DEF mine, new
<1>7. \A k \in Keys : key'[k] = key[k]
  BY <1>1
<1> QED
  BY <1>1, <1>2, <1>3, <1>4, <1>6, <1>7, EnvironmentsTypes, FinishInv

\* The requests that end with a write of their own.
LEMMA WritesInv ==
    ASSUME EnvironmentsInv, NEW c \in Calls,
           \/ UnsetOne(c) \/ CreateEnvironment(c) \/ DeleteEnvironment(c)
           \/ AddRepository(c) \/ RemoveRepository(c) \/ DeleteApiKey(c)
           \/ CreateDeployment(c) \/ EditFails(c)
    PROVE  EnvironmentsInv'
<1> DEFINE q == edit[c]
<1>1. q \in Edit /\ EditSound(c, q)
  BY EnvironmentsTypes DEF EnvironmentsInv
<1>2. /\ NothingOutlivesItsEnvironment
      /\ env \in [Envs -> {"new", "plain", "default", "gone"}]
      /\ repos \in [Envs -> SUBSET Repos]
      /\ deployed \in [Envs -> SUBSET (Keys \union {None})]
      /\ key \in [Keys -> Lives]
  BY EnvironmentsTypes DEF EnvironmentsInv
<1>3. CASE UnsetOne(c)
  <2>1. /\ q.step = "ready" /\ q.op = "undefault" /\ FinishEdit(c)
        /\ UNCHANGED <<repos, deployed, key>>
        /\ env' = env \/ (env' = [env EXCEPT ![q.env] = "plain"] /\ env[q.env] # "gone")
    BY <1>3 DEF UnsetOne, AtEdit
  <2>2. /\ env' \in [Envs -> {"new", "plain", "default", "gone"}]
        /\ Defaults' \subseteq Defaults /\ \A e \in Environment : e \in Environment'
    BY <1>2, <2>1 DEF Defaults, Environment
  <2>3. NothingOutlivesItsEnvironment'
    BY <1>2, <2>1, <2>2 DEF NothingOutlivesItsEnvironment
  <2> QED
    BY <1>2, <2>1, <2>2, <2>3, FinishInv
<1>4. CASE CreateEnvironment(c)
  <2>1. /\ q.step = "ready" /\ q.op = "create" /\ FinishEdit(c)
        /\ UNCHANGED <<repos, deployed, key>> /\ env' = [env EXCEPT ![q.env] = "plain"]
    BY <1>4 DEF CreateEnvironment, AtEdit
  <2>2. /\ env' \in [Envs -> {"new", "plain", "default", "gone"}]
        /\ Defaults' \subseteq Defaults /\ \A e \in Environment : e \in Environment'
    BY <1>2, <2>1 DEF Defaults, Environment
  <2>3. NothingOutlivesItsEnvironment'
    BY <1>2, <2>1, <2>2 DEF NothingOutlivesItsEnvironment
  <2> QED
    BY <1>2, <2>1, <2>2, <2>3, FinishInv
<1>5. CASE DeleteEnvironment(c)
  <2>1. /\ q.step = "ready" /\ q.op = "delete" /\ FinishEdit(c)
        /\ UNCHANGED key /\ env' = [env EXCEPT ![q.env] = "gone"]
        /\ repos' = [repos EXCEPT ![q.env] = {}]
        /\ deployed' = [deployed EXCEPT ![q.env] = {}]
    BY <1>5 DEF DeleteEnvironment, AtEdit
  <2>2. /\ env' \in [Envs -> {"new", "plain", "default", "gone"}]
        /\ Defaults' \subseteq Defaults
        /\ repos' \in [Envs -> SUBSET Repos]
        /\ deployed' \in [Envs -> SUBSET (Keys \union {None})]
    BY <1>2, <2>1 DEF Defaults
  <2>3. NothingOutlivesItsEnvironment'
    BY <1>2, <2>1 DEF NothingOutlivesItsEnvironment, Environment
  <2> QED
    BY <1>2, <2>1, <2>2, <2>3, FinishInv
<1>6. CASE AddRepository(c)
  <2>1. /\ q.step = "ready" /\ q.op = "addRepo" /\ FinishEdit(c) /\ q.env \in Environment
        /\ UNCHANGED <<env, deployed, key>>
        /\ repos' = [repos EXCEPT ![q.env] = @ \union {q.repo}]
    BY <1>6 DEF AddRepository, AtEdit
  <2>2. q.repo \in Repos
    BY <1>1, <2>1 DEF EditSound
  <2>3. repos' \in [Envs -> SUBSET Repos] /\ Defaults' = Defaults
    BY <1>2, <2>1, <2>2 DEF Defaults
  <2>4. NothingOutlivesItsEnvironment'
    BY <1>2, <2>1 DEF NothingOutlivesItsEnvironment, Environment
  <2> QED
    BY <1>2, <2>1, <2>3, <2>4, FinishInv
<1>7. CASE RemoveRepository(c)
  <2>1. /\ q.step = "ready" /\ q.op = "dropRepo" /\ FinishEdit(c)
        /\ UNCHANGED <<env, deployed, key>>
        /\ repos' = [repos EXCEPT ![q.env] = @ \ {q.repo}]
    BY <1>7 DEF RemoveRepository, AtEdit
  <2>2. repos' \in [Envs -> SUBSET Repos] /\ Defaults' = Defaults
    BY <1>2, <2>1 DEF Defaults
  <2>3. NothingOutlivesItsEnvironment'
    BY <1>2, <2>1 DEF NothingOutlivesItsEnvironment, Environment
  <2> QED
    BY <1>2, <2>1, <2>2, <2>3, FinishInv
<1>8. CASE DeleteApiKey(c)
  <2>1. /\ q.step = "ready" /\ q.op = "dropKey" /\ FinishEdit(c) /\ Writable(c, q.key)
        /\ UNCHANGED <<env, repos, deployed>> /\ key' = [key EXCEPT ![q.key] = "gone"]
    BY <1>8 DEF DeleteApiKey, AtEdit
  <2>2. /\ key' \in [Keys -> Lives] /\ Defaults' = Defaults
        /\ \A k \in Keys : key'[k] = key[k] \/ Writable(c, k)
    BY <1>2, <2>1 DEF Defaults, Lives
  <2>3. NothingOutlivesItsEnvironment'
    BY <1>2, <2>1 DEF NothingOutlivesItsEnvironment, Environment
  <2> QED
    BY <1>2, <2>1, <2>2, <2>3, FinishInv
<1>9. CASE CreateDeployment(c)
  <2>1. /\ q.step = "ready" /\ q.op = "report" /\ FinishEdit(c) /\ q.env \in Environment
        /\ UNCHANGED <<env, repos, key>>
        /\ deployed' = [deployed EXCEPT ![q.env] = @ \union {q.key}]
    BY <1>9 DEF CreateDeployment, AtEdit
  <2>2. q.key \in Keys \union {None}
    BY <1>1 DEF Edit
  <2>3. deployed' \in [Envs -> SUBSET (Keys \union {None})] /\ Defaults' = Defaults
    BY <1>2, <2>1, <2>2 DEF Defaults
  <2>4. NothingOutlivesItsEnvironment'
    BY <1>2, <2>1 DEF NothingOutlivesItsEnvironment, Environment
  <2> QED
    BY <1>2, <2>1, <2>3, <2>4, FinishInv
<1>10. CASE EditFails(c)
  <2>1. q.step # "idle" /\ FinishEdit(c) /\ UNCHANGED <<env, repos, deployed, key>>
    BY <1>10 DEF EditFails
  <2>2. NothingOutlivesItsEnvironment' /\ Defaults' = Defaults
    BY <1>2, <2>1 DEF NothingOutlivesItsEnvironment, Environment, Defaults
  <2> QED
    BY <1>2, <2>1, <2>2, FinishInv
<1> QED
  BY <1>3, <1>4, <1>5, <1>6, <1>7, <1>8, <1>9, <1>10

LEMMA CreateApiKeyInv ==
    ASSUME EnvironmentsInv, NEW c \in Calls, CreateApiKey(c)
    PROVE  EnvironmentsInv'
<1>1. PICK k \in Keys : key[k] = "new" /\ key' = [key EXCEPT ![k] = "live"]
  BY DEF CreateApiKey
<1>2. UNCHANGED <<env, repos, deployed, rowOf, edit, overlapped>> /\ key' \in [Keys -> Lives]
  BY <1>1, EnvironmentsTypes DEF CreateApiKey, Lives
<1>3. \A j \in Keys : key[j] = "live" => key'[j] = "live"
  BY <1>1, EnvironmentsTypes
<1>4. \A d \in Calls : EditSound(d, edit[d])'
  <2> SUFFICES ASSUME NEW d \in Calls PROVE EditSound(d, edit[d])'
    OBVIOUS
  <2>1. EditSound(d, edit[d]) /\ edit[d].key \in Keys \union {None}
    BY EnvironmentsTypes DEF EnvironmentsInv, Edit
  <2> QED
    BY <1>2, <1>3, <2>1 DEF EditSound
<1>5. EnvironmentsTypeOK' /\ OneByOne' /\ FewUnseen' /\ NothingOutlivesItsEnvironment'
  BY <1>2 DEF EnvironmentsInv, EnvironmentsTypeOK, OneByOne, FewUnseen, Setters, Olds,
     Defaults, NothingOutlivesItsEnvironment, Environment
<1> QED
  BY <1>4, <1>5 DEF EnvironmentsInv

LEMMA EnvironmentsStep ==
    ASSUME EnvironmentsInv, [EnvironmentsNext]_environmentVars
    PROVE  EnvironmentsInv'
<1>1. CASE UNCHANGED environmentVars
  BY <1>1 DEF environmentVars, EnvironmentsInv, EnvironmentsTypeOK, EditSound, OneByOne,
     FewUnseen, Setters, Olds, Defaults, NothingOutlivesItsEnvironment, Environment
<1>2. ASSUME NEW c \in Calls, EnvironmentStep(c) \/ DeploymentStep(c)
      PROVE  EnvironmentsInv'
  BY <1>2, BeginsInv, FindDefaultInv, UnsetDefaultInv, SetDefaultInv, ValidateApiKeyInv,
     WritesInv, CreateApiKeyInv DEF EnvironmentStep, DeploymentStep
<1> QED
  BY <1>1, <1>2 DEF EnvironmentsNext

LEMMA EnvironmentsInitInv == EnvironmentsInit => EnvironmentsInv
<1> SUFFICES ASSUME EnvironmentsInit PROVE EnvironmentsInv
  OBVIOUS
<1>1. EnvironmentsTypeOK
  BY NoEditSound DEF EnvironmentsInit, EnvironmentsTypeOK, Lives
<1>2. \A c \in Calls : edit[c] = NoEdit
  BY DEF EnvironmentsInit
<1>3. Defaults = {} /\ Setters = {}
  BY <1>2, NoEditSound DEF EnvironmentsInit, Defaults, Setters
<1>4. Cardinality(Calls) \in Nat
  BY EnvironmentsAssumption, FS_CardinalityType
<1>5. Defaults \ Olds = {}
  BY <1>3
<1>6. FewUnseen
  BY <1>3, <1>4, <1>5, FS_EmptySet DEF FewUnseen
<1>7. OneByOne
  BY <1>2, <1>3, NoEditSound DEF OneByOne
<1>8. \A c \in Calls : EditSound(c, edit[c])
  BY <1>2, NoEditSound DEF EditSound
<1>9. NothingOutlivesItsEnvironment
  BY DEF EnvironmentsInit, NothingOutlivesItsEnvironment
<1> QED
  BY <1>1, <1>6, <1>7, <1>8, <1>9 DEF EnvironmentsInv

LEMMA EnvironmentsInvariance == EnvironmentsSpec => []EnvironmentsInv
BY EnvironmentsInitInv, EnvironmentsStep, PTL DEF EnvironmentsSpec

\* Only a report that holds its key writes it.
LEMMA ReportsAreSound ==
    ASSUME EnvironmentsInv, [EnvironmentsNext]_environmentVars,
           NEW k \in Keys, NEW e \in Envs, k \in deployed'[e] \ deployed[e]
    PROVE  key[k] = "live"
<1>1. PICK c \in Calls : CreateDeployment(c)
  <2>1. ASSUME NEW c \in Calls, EnvironmentStep(c) \/ DeploymentStep(c), ~CreateDeployment(c)
        PROVE  deployed' = deployed \/ DeleteEnvironment(c)
    BY <2>1 DEF EnvironmentStep, DeploymentStep, AskDefaultEnv, AskNewEnv, FindDefault,
       UnsetDefault, SetDefault, AskNoDefault, UnsetOne, CreateEnvironment, AskEnvDeletion,
       AskRepository, AddRepository, RemoveRepository, AskDeployment, CreateApiKey,
       AskKeyDeletion, DeleteApiKey, AskWebhook, ValidateApiKey, EditFails, Begin
  <2>2. ASSUME NEW c \in Calls, DeleteEnvironment(c)
        PROVE  FALSE
    BY <2>2, EnvironmentsTypes DEF DeleteEnvironment
  <2>3. deployed' # deployed
    OBVIOUS
  <2> QED
    BY <2>1, <2>2, <2>3 DEF EnvironmentsNext, environmentVars
<1>2. /\ edit[c].step = "ready" /\ edit[c].op = "report"
      /\ deployed' = [deployed EXCEPT ![edit[c].env] = @ \union {edit[c].key}]
  BY <1>1 DEF CreateDeployment, AtEdit
<1>3. k = edit[c].key
  BY <1>2, EnvironmentsTypes
<1>4. k # None /\ EditSound(c, edit[c])
  BY EnvironmentsTypes DEF EnvironmentsInv
<1> QED
  BY <1>2, <1>3, <1>4 DEF EditSound

-----------------------------------------------------------------------------
(* ChatFeed. *)

TurnStep == [tool : Tools, status : {"running", "completed", "failed"}, sequence : Nat]
Callback == [step : {"new", "insert", "publish", "runs", "update", "publishEnd", "over"},
             seq : Nat, id : Nat, end : {"none", "completed", "failed"}]
Idle(t) == tool[t].step \in {"new", "over"}
Ended == {k \in DOMAIN steps : steps[k].status # "running"}
Enders == {t \in Tools : tool[t].step \in {"publishEnd", "over"}}

\* While tools do not overlap and no event is lost, the step that is remembered
\* is the one of the tool that runs.
Follows(t) ==
    /\ tool[t].step = "insert" => tool[t].seq = Len(steps) + 1
    /\ tool[t].step = "runs" => currentStep \in 1..Len(steps) /\ steps[currentStep].tool = t
    /\ tool[t].step = "update" => tool[t].id \in 1..Len(steps) /\ steps[tool[t].id].tool = t
    /\ tool[t].step \in {"publishEnd", "over"}
       => \A k \in 1..Len(steps) : steps[k].tool = t => steps[k].status = tool[t].end

StepsRight ==
    ~parallel /\ ~muffled =>
        /\ \A k \in 1..Len(steps) : steps[k].sequence = k
        /\ \A t \in Tools : Follows(t)

StepsTyped ==
    /\ steps \in Seq(TurnStep)
    /\ tool \in [Tools -> Callback]
    /\ currentStep \in Nat /\ currentStep <= Len(steps)
    /\ \A t \in Tools : /\ tool[t].id <= Len(steps)
                        /\ tool[t].step = "update" => tool[t].end # "none"
    /\ parallel \in BOOLEAN /\ muffled \in BOOLEAN

StepsOwned ==
    /\ \A k \in 1..Len(steps) : tool[steps[k].tool].step \notin {"new", "insert"}
    /\ \A j \in 1..Len(steps) : \A k \in 1..Len(steps) :
          steps[j].tool = steps[k].tool => j = k
    /\ \A t \in Tools : tool[t].step = "publish" => \E k \in 1..Len(steps) : steps[k].tool = t

OneToolUnlessParallel == ~parallel => \A t \in Tools : \A u \in Tools \ {t} : Idle(t) \/ Idle(u)

StepsInv == StepsTyped /\ StepsOwned /\ OneToolUnlessParallel /\ StepsRight /\ EndsAreEarned

LEMMA StepsTypes ==
    ASSUME StepsInv
    PROVE  /\ steps \in Seq(TurnStep) /\ tool \in [Tools -> Callback]
           /\ currentStep \in Nat /\ currentStep <= Len(steps) /\ Len(steps) \in Nat
           /\ DOMAIN steps = 1..Len(steps)
           /\ \A k \in 1..Len(steps) : steps[k] \in TurnStep
           /\ \A t \in Tools : tool[t].id \in Nat /\ tool[t].id <= Len(steps)
           /\ IsFiniteSet(Tools)
<1>1. /\ steps \in Seq(TurnStep) /\ tool \in [Tools -> Callback]
      /\ currentStep \in Nat /\ currentStep <= Len(steps)
      /\ \A t \in Tools : tool[t].id <= Len(steps)
  BY DEF StepsInv, StepsTyped
<1>2. \A t \in Tools : tool[t].id \in Nat
  BY <1>1 DEF Callback
<1>3. Len(steps) \in Nat /\ DOMAIN steps = 1..Len(steps)
      /\ \A k \in 1..Len(steps) : steps[k] \in TurnStep
  BY <1>1
<1> QED
  BY <1>1, <1>2, <1>3, FeedAssumption

LEMMA EndedCount ==
    ASSUME StepsInv
    PROVE  /\ IsFiniteSet(Ended) /\ Cardinality(Ended) \in Nat
           /\ IsFiniteSet(Enders) /\ Cardinality(Enders) \in Nat
           /\ Cardinality(Ended) <= Cardinality(Enders)
<1>1. Ended \subseteq 1..Len(steps) /\ Enders \subseteq Tools
  BY StepsTypes DEF Ended, Enders
<1>2. IsFiniteSet(1..Len(steps))
  BY StepsTypes, FS_Interval
<1>3. Cardinality(Ended) <= Cardinality(Enders)
  BY DEF StepsInv, EndsAreEarned, Ended, Enders
<1> QED
  BY <1>1, <1>2, <1>3, StepsTypes, Fewer

LEMMA EndsKept ==
    ASSUME StepsInv, Ended' \subseteq Ended, Enders \subseteq Enders', Enders' \subseteq Tools
    PROVE  EndsAreEarned'
<1>1. Cardinality(Ended') \in Nat /\ Cardinality(Ended') <= Cardinality(Ended)
  BY EndedCount, Fewer
<1>2. IsFiniteSet(Enders') /\ Cardinality(Enders') \in Nat
  BY StepsTypes, Fewer
<1>3. Cardinality(Enders) <= Cardinality(Enders')
  BY <1>2, Fewer
<1>4. Cardinality(Ended') <= Cardinality(Enders')
  BY <1>1, <1>2, <1>3, EndedCount
<1> QED
  BY <1>4 DEF EndsAreEarned, Ended, Enders

LEMMA EndsOneMore ==
    ASSUME StepsInv, NEW k, Ended' \subseteq Ended \union {k},
           NEW t \in Tools, t \notin Enders, t \in Enders',
           Enders \subseteq Enders', Enders' \subseteq Tools
    PROVE  EndsAreEarned'
<1>1. Cardinality(Ended') \in Nat /\ Cardinality(Ended') <= Cardinality(Ended) + 1
  BY EndedCount, OneMoreAtMost
<1>2. IsFiniteSet(Enders')
  BY StepsTypes, Fewer
<1>3. Enders \subseteq Enders' \ {t}
  OBVIOUS
<1>4. /\ Cardinality(Enders) <= Cardinality(Enders') - 1
      /\ Cardinality(Enders') \in Nat
  BY <1>2, <1>3, OneFewer
<1>5. Cardinality(Ended') <= Cardinality(Enders')
  BY <1>1, <1>4, EndedCount
<1> QED
  BY <1>5 DEF EndsAreEarned, Ended, Enders

\* A callback of one tool: what it may do to the steps of the others.
LEMMA CallbackInv ==
    ASSUME StepsInv, NEW t \in Tools, NEW n \in Callback, tool' = [tool EXCEPT ![t] = n],
           \/ tool[t].step = "new" /\ Parallel(t)
           \/ ~Idle(t) /\ parallel' = parallel,
           steps' \in Seq(TurnStep), Len(steps') >= Len(steps),
           n.id <= Len(steps'), n.step = "update" => n.end # "none", currentStep' \in Nat, currentStep' <= Len(steps'),
           muffled' \in BOOLEAN, muffled => muffled', StepsOwned', EndsAreEarned',
           (~parallel' /\ ~muffled') =>
              /\ \A k \in 1..Len(steps') : steps'[k].sequence = k
              /\ \A k \in 1..Len(steps') :
                    steps'[k].tool # t => k \in 1..Len(steps) /\ steps'[k] = steps[k]
              /\ Follows(t)'
    PROVE  StepsInv'
<1>1. /\ tool' \in [Tools -> Callback] /\ tool'[t] = n
      /\ \A u \in Tools \ {t} : tool'[u] = tool[u]
  BY StepsTypes
<1>2. parallel' \in BOOLEAN /\ (parallel => parallel')
  BY DEF Parallel, StepsInv, StepsTyped
<1>3. Len(steps') \in Nat
  OBVIOUS
<1>4. \A u \in Tools : tool'[u].id <= Len(steps')
  <2>1. \A u \in Tools : tool[u].id \in Nat /\ tool[u].id <= Len(steps)
    BY StepsTypes
  <2> QED
    BY <1>1, <1>3, <2>1, StepsTypes
<1>5. StepsTyped'
  <2>1. \A u \in Tools : tool'[u].step = "update" => tool'[u].end # "none"
    BY <1>1 DEF StepsInv, StepsTyped
  <2> QED
    BY <1>1, <1>2, <1>4, <2>1 DEF StepsTyped
<1>6. ~parallel' => \A u \in Tools \ {t} : Idle(u)
  BY <1>2 DEF Parallel, StepsInv, OneToolUnlessParallel, Idle
<1>7. OneToolUnlessParallel'
  BY <1>1, <1>6 DEF OneToolUnlessParallel, Idle
<1>8. ASSUME ~parallel', ~muffled', NEW u \in Tools
      PROVE  Follows(u)'
  <2>1. CASE u = t
    BY <1>8, <2>1 DEF Follows
  <2>2. CASE u # t
    <3>1. tool'[u] = tool[u] /\ Idle(u) /\ Follows(u)
      BY <1>1, <1>2, <1>6, <1>8, <2>2 DEF StepsInv, StepsRight
    <3>2. \A k \in 1..Len(steps') :
              steps'[k].tool = u => k \in 1..Len(steps) /\ steps'[k] = steps[k]
      BY <1>8, <2>2
    <3> QED
      BY <3>1, <3>2 DEF Follows, Idle
  <2> QED
    BY <2>1, <2>2
<1>9. StepsRight'
  BY <1>8 DEF StepsRight
<1> QED
  BY <1>5, <1>7, <1>9 DEF StepsInv

\* A callback that writes no step.
LEMMA QuietCallbackInv ==
    ASSUME StepsInv, NEW t \in Tools, NEW n \in Callback, tool' = [tool EXCEPT ![t] = n],
           \/ tool[t].step = "new" /\ Parallel(t) /\ n.step = "insert"
           \/ /\ ~Idle(t) /\ parallel' = parallel
              /\ n.step \in {"runs", "update", "publishEnd", "over"},
           tool[t].step = "insert" => n.step = "runs",
           UNCHANGED steps, n.id <= Len(steps), currentStep' \in Nat,
           currentStep' <= Len(steps), muffled' \in BOOLEAN, muffled => muffled',
           tool[t].step = "publishEnd" => n.step = "over", n.step = "update" => n.end # "none",
           (~parallel' /\ ~muffled') => Follows(t)'
    PROVE  StepsInv'
<1>1. /\ tool'[t] = n /\ \A u \in Tools \ {t} : tool'[u] = tool[u]
  BY StepsTypes
<1>2. \A k \in 1..Len(steps) : steps[k].tool \in Tools
  BY StepsTypes DEF TurnStep
<1>3. StepsOwned'
  BY <1>1, <1>2 DEF StepsInv, StepsOwned, Idle
<1>4. Ended' = Ended /\ Enders' \subseteq Tools
  BY DEF Ended, Enders
<1>5. Enders \subseteq Enders'
  BY <1>1 DEF Enders, Idle
<1>6. EndsAreEarned'
  BY <1>4, <1>5, EndsKept
<1>7. ~parallel' => ~parallel
  BY DEF Parallel
<1>8. ~parallel' /\ ~muffled' => \A k \in 1..Len(steps') : steps'[k].sequence = k
  BY <1>7 DEF StepsInv, StepsRight
<1>9. \A k \in 1..Len(steps') :
          steps'[k].tool # t => k \in 1..Len(steps) /\ steps'[k] = steps[k]
  OBVIOUS
<1>10. steps' \in Seq(TurnStep) /\ Len(steps') >= Len(steps)
  BY StepsTypes
<1>11. \/ tool[t].step = "new" /\ Parallel(t)
       \/ ~Idle(t) /\ parallel' = parallel
  OBVIOUS
<1> QED
  BY <1>3, <1>6, <1>8, <1>9, <1>10, <1>11, CallbackInv

LEMMA ToolsInv ==
    ASSUME StepsInv, NEW t \in Tools,
           \/ WebToolStart(t) \/ PublishToolStart(t) \/ PublishToolEnd(t)
           \/ \E status \in {"completed", "failed"} : WebToolEnd(t, status)
    PROVE  StepsInv'
<1>1. tool[t] \in Callback /\ muffled \in BOOLEAN /\ 0 \in Nat
  BY StepsTypes DEF StepsInv, StepsTyped
<1>2. CASE WebToolStart(t)
  <2> DEFINE n == [step |-> "insert", seq |-> Len(steps) + 1, id |-> 0, end |-> "none"]
  <2>1. /\ n \in Callback /\ n.step = "insert" /\ n.seq = Len(steps) + 1 /\ n.id = 0
        /\ tool' = [tool EXCEPT ![t] = n] /\ tool[t].step = "new" /\ Parallel(t)
        /\ UNCHANGED <<steps, currentStep, muffled>>
    BY <1>2, StepsTypes DEF WebToolStart, Callback
  <2> HIDE DEF n
  <2>2. tool'[t] = n
    BY <2>1, StepsTypes
  <2>3. Follows(t)'
    BY <2>1, <2>2 DEF Follows
  <2>4. muffled' \in BOOLEAN /\ (muffled => muffled')
    BY <1>1, <2>1
  <2>5. /\ UNCHANGED steps /\ n.id <= Len(steps)
        /\ currentStep' \in Nat /\ currentStep' <= Len(steps)
    BY <2>1, StepsTypes
  <2> QED
    BY <2>1, <2>3, <2>4, <2>5, QuietCallbackInv
<1>3. CASE PublishToolStart(t)
  <2> DEFINE n == [tool[t] EXCEPT !.step = "runs"]
  <2>1. /\ n \in Callback /\ n.step = "runs" /\ n.id = tool[t].id
        /\ tool' = [tool EXCEPT ![t] = n] /\ tool[t].step = "publish"
        /\ UNCHANGED <<steps, parallel>>
        /\ \/ currentStep' = StepRemembered(t) /\ UNCHANGED muffled
           \/ muffled' = TRUE /\ UNCHANGED currentStep
    BY <1>1, <1>3 DEF PublishToolStart, Await, Callback
  <2> HIDE DEF n
  <2>2. tool'[t] = n
    BY <2>1, StepsTypes
  <2>3. StepRemembered(t) \in 1..Len(steps) /\ steps[StepRemembered(t)].tool = t
    <3>1. \E k \in DOMAIN steps : steps[k].tool = t
      BY <2>1, StepsTypes DEF StepsInv, StepsOwned
    <3> QED
      BY <3>1, StepsTypes DEF StepRemembered
  <2>4. currentStep' \in Nat /\ currentStep' <= Len(steps)
    BY <2>1, <2>3, StepsTypes
  <2>5. ~muffled' => Follows(t)'
    BY <2>1, <2>2, <2>3 DEF Follows
  <2>6. /\ ~Idle(t)
        /\ muffled' = muffled \/ muffled' = TRUE
    BY <2>1 DEF Idle
  <2>7. muffled' \in BOOLEAN /\ (muffled => muffled')
    <3>1. CASE muffled' = muffled
      BY <1>1, <3>1
    <3>2. CASE muffled' = TRUE
      BY <3>2
    <3> QED
      BY <2>6, <3>1, <3>2
  <2> QED
    BY <2>1, <2>4, <2>5, <2>6, <2>7, StepsTypes, QuietCallbackInv
<1>4. CASE PublishToolEnd(t)
  <2> DEFINE n == [tool[t] EXCEPT !.step = "over"]
  <2>1. /\ n \in Callback /\ n.step = "over" /\ n.id = tool[t].id /\ n.end = tool[t].end
        /\ tool' = [tool EXCEPT ![t] = n] /\ tool[t].step = "publishEnd"
        /\ UNCHANGED <<steps, parallel>>
        /\ \/ currentStep' = 0 /\ UNCHANGED muffled
           \/ muffled' = TRUE /\ UNCHANGED currentStep
    BY <1>1, <1>4 DEF PublishToolEnd, Await, Callback
  <2> HIDE DEF n
  <2>2. tool'[t] = n
    BY <2>1, StepsTypes
  <2>3. currentStep' \in Nat /\ currentStep' <= Len(steps)
    BY <2>1, StepsTypes
  <2>4. ~parallel' /\ ~muffled' => Follows(t)
    BY <1>1, <2>1 DEF StepsInv, StepsRight
  <2>5. ~parallel' /\ ~muffled' => Follows(t)'
    BY <2>1, <2>2, <2>4 DEF Follows
  <2>6. /\ ~Idle(t)
        /\ muffled' = muffled \/ muffled' = TRUE
    BY <2>1 DEF Idle
  <2>7. muffled' \in BOOLEAN /\ (muffled => muffled')
    <3>1. CASE muffled' = muffled
      BY <1>1, <3>1
    <3>2. CASE muffled' = TRUE
      BY <3>2
    <3> QED
      BY <2>6, <3>1, <3>2
  <2> QED
    BY <2>1, <2>3, <2>5, <2>6, <2>7, StepsTypes, QuietCallbackInv
<1>5. ASSUME NEW status \in {"completed", "failed"}, WebToolEnd(t, status)
      PROVE  StepsInv'
  <2> DEFINE n == [step |-> "update", seq |-> tool[t].seq, id |-> currentStep, end |-> status]
  <2>1. /\ n \in Callback /\ n.step = "update" /\ n.id = currentStep /\ n.end # "none"
        /\ tool' = [tool EXCEPT ![t] = n] /\ tool[t].step = "runs"
        /\ UNCHANGED <<steps, currentStep, parallel, muffled>>
    BY <1>1, <1>5, StepsTypes DEF WebToolEnd, Callback
  <2> HIDE DEF n
  <2>2. tool'[t] = n
    BY <2>1, StepsTypes
  <2>3. ~parallel' /\ ~muffled' => Follows(t)
    BY <2>1 DEF StepsInv, StepsRight
  <2>4. ~parallel' /\ ~muffled' => Follows(t)'
    BY <2>1, <2>2, <2>3 DEF Follows
  <2>5. ~Idle(t)
    BY <2>1 DEF Idle
  <2> QED
    BY <1>1, <2>1, <2>4, <2>5, StepsTypes, QuietCallbackInv
<1> QED
  BY <1>2, <1>3, <1>4, <1>5

\* A new step is numbered after all the others, as long as no other comes between.
LEMMA AddTurnStepInv ==
    ASSUME StepsInv, NEW t \in Tools, AddTurnStep(t)
    PROVE  StepsInv'
<1>1. /\ tool[t] \in Callback /\ muffled \in BOOLEAN /\ tool[t].step = "insert" /\ ~Idle(t)
      /\ UNCHANGED <<currentStep, parallel, muffled>> /\ tool[t].seq \in Nat
  BY StepsTypes DEF AddTurnStep, Idle, StepsInv, StepsTyped, Callback
<1>2. CASE SessionInUse(t) /\ Await(t, "runs") /\ UNCHANGED steps
  <2> DEFINE n == [tool[t] EXCEPT !.step = "runs"]
  <2>1. n \in Callback /\ n.step = "runs" /\ n.id = tool[t].id /\ tool' = [tool EXCEPT ![t] = n]
    BY <1>1, <1>2 DEF Await, Callback
  <2>2. parallel'
    BY <1>1, <1>2 DEF SessionInUse, StepsInv, OneToolUnlessParallel, Idle
  <2> HIDE DEF n
  <2> QED
    BY <1>1, <1>2, <2>1, <2>2, StepsTypes, QuietCallbackInv
<1>3. CASE /\ steps' = Append(steps, [tool |-> t, status |-> "running", sequence |-> tool[t].seq])
           /\ Await(t, "publish")
  <2> DEFINE n == [tool[t] EXCEPT !.step = "publish"]
             e == [tool |-> t, status |-> "running", sequence |-> tool[t].seq]
  <2>1. n \in Callback /\ n.step = "publish" /\ n.id = tool[t].id /\ tool' = [tool EXCEPT ![t] = n]
    BY <1>1, <1>3 DEF Await, Callback
  <2>2. /\ e \in TurnStep /\ e.tool = t /\ e.status = "running" /\ e.sequence = tool[t].seq
        /\ steps' = Append(steps, e)
    BY <1>1, <1>3 DEF TurnStep
  <2> HIDE DEF n, e
  <2>3. /\ steps' \in Seq(TurnStep) /\ Len(steps') = Len(steps) + 1
        /\ \A k \in 1..Len(steps) : steps'[k] = steps[k]
        /\ steps'[Len(steps) + 1] = e
    BY <2>2, StepsTypes
  <2>4. /\ tool'[t] = n /\ \A u \in Tools \ {t} : tool'[u] = tool[u]
    BY <2>1, StepsTypes
  <2>5. \A k \in 1..Len(steps) : steps[k].tool \in Tools /\ steps[k].tool # t
    BY <1>1, StepsTypes DEF StepsInv, StepsOwned, TurnStep
  <2>6. \A k \in 1..Len(steps') : k \in 1..Len(steps) \/ k = Len(steps) + 1
    BY <2>3, StepsTypes
  <2>7. StepsOwned'
    <3>1. \A k \in 1..Len(steps') : tool'[steps'[k].tool].step \notin {"new", "insert"}
      BY <2>1, <2>2, <2>3, <2>4, <2>5, <2>6 DEF StepsInv, StepsOwned
    <3>2. \A j \in 1..Len(steps') : \A k \in 1..Len(steps') :
              steps'[j].tool = steps'[k].tool => j = k
      BY <2>2, <2>3, <2>5, <2>6 DEF StepsInv, StepsOwned
    <3>3. ASSUME NEW u \in Tools, tool'[u].step = "publish"
          PROVE  \E k \in 1..Len(steps') : steps'[k].tool = u
      <4>1. CASE u = t
        BY <2>2, <2>3, <4>1, StepsTypes
      <4>2. CASE u # t
        <5>1. \E k \in 1..Len(steps) : steps[k].tool = u
          BY <2>4, <3>3, <4>2 DEF StepsInv, StepsOwned
        <5> QED
          BY <2>3, <5>1, StepsTypes
      <4> QED
        BY <4>1, <4>2
    <3> QED
      BY <3>1, <3>2, <3>3 DEF StepsOwned
  <2>8. Ended' \subseteq Ended /\ Enders' = Enders
    <3>1. Ended' \subseteq Ended
      BY <2>2, <2>3, <2>6, StepsTypes DEF Ended
    <3>2. Enders' = Enders
      BY <1>1, <2>1, <2>4 DEF Enders
    <3> QED
      BY <3>1, <3>2
  <2>9. EndsAreEarned'
    BY <2>8, EndsKept DEF Enders
  <2>10. ASSUME ~parallel', ~muffled'
         PROVE  /\ \A k \in 1..Len(steps') : steps'[k].sequence = k
                /\ \A k \in 1..Len(steps') :
                      steps'[k].tool # t => k \in 1..Len(steps) /\ steps'[k] = steps[k]
                /\ Follows(t)'
    <3>1. tool[t].seq = Len(steps) + 1 /\ \A k \in 1..Len(steps) : steps[k].sequence = k
      BY <1>1, <2>10 DEF StepsInv, StepsRight, Follows
    <3>2. Follows(t)'
      BY <2>1, <2>4 DEF Follows
    <3> QED
      BY <2>2, <2>3, <2>6, <3>1, <3>2
  <2>11. Len(steps') >= Len(steps) /\ n.id <= Len(steps') /\ currentStep' <= Len(steps')
    BY <1>1, <2>1, <2>3, StepsTypes
  <2> QED
    BY <1>1, <2>1, <2>3, <2>7, <2>9, <2>10, <2>11, StepsTypes, CallbackInv
<1> QED
  BY <1>2, <1>3 DEF AddTurnStep

LEMMA UpdateStepStatusInv ==
    ASSUME StepsInv, NEW t \in Tools, UpdateStepStatus(t)
    PROVE  StepsInv'
<1>1. /\ tool[t] \in Callback /\ muffled \in BOOLEAN /\ tool[t].step = "update" /\ ~Idle(t)
      /\ UNCHANGED <<currentStep, parallel, muffled>> /\ tool[t].id \in Nat
      /\ tool[t].id <= Len(steps) /\ tool[t].end \in {"completed", "failed"}
  BY StepsTypes DEF UpdateStepStatus, Idle, StepsInv, StepsTyped, Callback
<1>2. CASE SessionInUse(t) /\ Await(t, "over") /\ UNCHANGED steps
  <2> DEFINE n == [tool[t] EXCEPT !.step = "over"]
  <2>1. n \in Callback /\ n.step = "over" /\ n.id = tool[t].id /\ tool' = [tool EXCEPT ![t] = n]
    BY <1>1, <1>2 DEF Await, Callback
  <2>2. parallel'
    BY <1>1, <1>2 DEF SessionInUse, StepsInv, OneToolUnlessParallel, Idle
  <2> HIDE DEF n
  <2> QED
    BY <1>1, <1>2, <2>1, <2>2, StepsTypes, QuietCallbackInv
<1>3. CASE /\ steps' = IF tool[t].id = 0 THEN steps
                       ELSE [steps EXCEPT ![tool[t].id].status = tool[t].end]
           /\ Await(t, "publishEnd")
  <2> DEFINE n == [tool[t] EXCEPT !.step = "publishEnd"]
  <2>1. /\ n \in Callback /\ n.step = "publishEnd" /\ n.id = tool[t].id /\ n.end = tool[t].end
        /\ tool' = [tool EXCEPT ![t] = n]
    BY <1>1, <1>3 DEF Await, Callback
  <2> HIDE DEF n
  <2>2. tool'[t] = n /\ \A u \in Tools \ {t} : tool'[u] = tool[u]
    BY <2>1, StepsTypes
  <2>3. CASE tool[t].id = 0
    <3>1. steps' = steps
      BY <1>3, <2>3
    <3>2. ~(~parallel /\ ~muffled)
      BY <1>1, <2>3, StepsTypes DEF StepsInv, StepsRight, Follows
    <3> QED
      BY <1>1, <2>1, <3>1, <3>2, StepsTypes, QuietCallbackInv
  <2>4. CASE tool[t].id # 0
    <3>0. PICK i \in Nat : i = tool[t].id
      BY <1>1
    <3>1. i \in 1..Len(steps) /\ steps[i] \in TurnStep
      BY <1>1, <2>4, <3>0, StepsTypes
    <3> DEFINE e == [steps[i] EXCEPT !.status = tool[t].end]
    <3>2. steps' = [steps EXCEPT ![i] = e]
      BY <1>3, <2>4, <3>0
    <3>3. /\ e \in TurnStep /\ e.tool = steps[i].tool /\ e.sequence = steps[i].sequence
          /\ e.status = tool[t].end
      BY <1>1, <3>1 DEF TurnStep
    <3> HIDE DEF e
    <3>4. /\ steps' \in Seq(TurnStep) /\ Len(steps') = Len(steps) /\ steps'[i] = e
          /\ \A k \in 1..Len(steps) : k # i => steps'[k] = steps[k]
      BY <3>1, <3>2, <3>3, StepsTypes
    <3>5. \A k \in 1..Len(steps) :
              steps'[k].tool = steps[k].tool /\ steps'[k].sequence = steps[k].sequence
      BY <3>3, <3>4
    <3>6. StepsOwned'
      <4>1. \A k \in 1..Len(steps) : steps[k].tool \in Tools
        BY StepsTypes DEF TurnStep
      <4> QED
        BY <2>1, <2>2, <3>4, <3>5, <4>1 DEF StepsInv, StepsOwned
    <3>7. Ended' \subseteq Ended \union {i}
      BY <3>4, StepsTypes DEF Ended
    <3>8. t \notin Enders /\ t \in Enders' /\ Enders \subseteq Enders' /\ Enders' \subseteq Tools
      BY <1>1, <2>1, <2>2 DEF Enders
    <3>9. EndsAreEarned'
      BY <3>7, <3>8, EndsOneMore
    <3>10. ASSUME ~parallel', ~muffled'
           PROVE  /\ \A k \in 1..Len(steps') : steps'[k].sequence = k
                  /\ \A k \in 1..Len(steps') :
                        steps'[k].tool # t => k \in 1..Len(steps) /\ steps'[k] = steps[k]
                  /\ Follows(t)'
      <4>1. steps[i].tool = t /\ \A k \in 1..Len(steps) : steps[k].sequence = k
        BY <1>1, <3>0, <3>10 DEF StepsInv, StepsRight, Follows
      <4>2. \A k \in 1..Len(steps) : k # i => steps[k].tool # t
        BY <3>1, <4>1 DEF StepsInv, StepsOwned
      <4>3. Follows(t)'
        BY <2>1, <2>2, <3>3, <3>4, <3>5, <4>2 DEF Follows
      <4> QED
        BY <3>3, <3>4, <3>5, <4>1, <4>3
    <3>11. Len(steps') >= Len(steps) /\ n.id <= Len(steps') /\ currentStep' \in Nat
           /\ currentStep' <= Len(steps')
      BY <1>1, <2>1, <3>4, StepsTypes
    <3>12. muffled' \in BOOLEAN /\ (muffled => muffled')
      BY <1>1
    <3>13. parallel' = parallel
      BY <1>1
    <3> QED
      BY <1>1, <2>1, <3>4, <3>6, <3>9, <3>10, <3>11, <3>12, <3>13, CallbackInv
  <2> QED
    BY <2>3, <2>4
<1> QED
  BY <1>2, <1>3 DEF UpdateStepStatus

OneVote == {{}, {TRUE}, {FALSE}}
Ballot == [step : {"new", "write", "over"}, of : SUBSET Voters, up : BOOLEAN, seen : SUBSET BOOLEAN]

LEMMA VotesAre == /\ OneVote \subseteq SUBSET BOOLEAN
                  /\ \A up \in BOOLEAN : {up} \in OneVote
<1>1. OneVote \subseteq SUBSET BOOLEAN
  BY DEF OneVote
<1>2. \A up \in BOOLEAN : up = TRUE \/ up = FALSE
  OBVIOUS
<1>3. \A up \in BOOLEAN : {up} \in OneVote
  BY <1>2, Zenon DEF OneVote
<1> QED
  BY <1>1, <1>3

\* A vote that is under way has read what is there, unless its reader's votes cross.
VotesInv ==
    /\ vote \in [Voters -> OneVote]
    /\ confirmed \in [Voters -> SUBSET BOOLEAN]
    /\ crossedVoters \subseteq Voters
    /\ ballot \in [Ballots -> Ballot]
    /\ \A b \in Ballots : ballot[b].step = "write" =>
          /\ \E v \in Voters : ballot[b].of = {v}
          /\ \A v \in ballot[b].of \ crossedVoters :
                /\ ballot[b].seen = vote[v]
                /\ \A d \in Ballots \ {b} : ballot[d].step = "write" => v \notin ballot[d].of
    /\ LastVoteStands

LEMMA ReadVoteInv ==
    ASSUME VotesInv, NEW b \in Ballots, NEW v \in Voters, NEW up \in BOOLEAN, ReadVote(b, v, up)
    PROVE  VotesInv'
<1> DEFINE n == [step |-> "write", of |-> {v}, up |-> up, seen |-> vote[v]]
<1>1. /\ ballot[b].step = "new" /\ ballot' = [ballot EXCEPT ![b] = n]
      /\ UNCHANGED <<vote, confirmed>>
  BY DEF ReadVote
<1>2. /\ n \in Ballot
      /\ n.step = "write" /\ n.of = {v} /\ n.seen = vote[v]
  <2>1. vote[v] \in SUBSET BOOLEAN
    BY VotesAre DEF VotesInv
  <2> QED
    BY <2>1 DEF Ballot
<1> HIDE DEF n
<1>3. ballot'[b] = n /\ \A d \in Ballots \ {b} : ballot'[d] = ballot[d]
  BY <1>1 DEF VotesInv
<1>4. /\ crossedVoters \subseteq crossedVoters' /\ crossedVoters' \subseteq Voters
      /\ v \notin crossedVoters' =>
            \A d \in Ballots : ballot[d].step = "write" => v \notin ballot[d].of
  BY DEF ReadVote, VotesInv
<1>5. ASSUME NEW d \in Ballots, ballot'[d].step = "write"
      PROVE  /\ \E w \in Voters : ballot'[d].of = {w}
             /\ \A w \in ballot'[d].of \ crossedVoters' :
                   /\ ballot'[d].seen = vote'[w]
                   /\ \A e \in Ballots \ {d} : ballot'[e].step = "write" => w \notin ballot'[e].of
  <2>1. CASE d = b
    BY <1>1, <1>2, <1>3, <1>4, <2>1
  <2>2. CASE d # b
    <3>1. /\ ballot'[d] = ballot[d] /\ \E w \in Voters : ballot[d].of = {w}
          /\ \A w \in ballot[d].of \ crossedVoters :
                /\ ballot[d].seen = vote[w]
                /\ \A e \in Ballots \ {d} : ballot[e].step = "write" => w \notin ballot[e].of
      BY <1>3, <1>5, <2>2 DEF VotesInv
    <3>2. \A w \in ballot[d].of \ crossedVoters' : w # v
      BY <1>4, <1>5, <3>1
    <3> QED
      BY <1>1, <1>2, <1>3, <1>4, <3>1, <3>2
  <2> QED
    BY <2>1, <2>2
<1>6. LastVoteStands'
  BY <1>1, <1>4 DEF VotesInv, LastVoteStands
<1>7. ballot' \in [Ballots -> Ballot]
  BY <1>1, <1>2 DEF VotesInv
<1> QED
  BY <1>1, <1>4, <1>5, <1>6, <1>7 DEF VotesInv

LEMMA SubmitInv ==
    ASSUME VotesInv, NEW b \in Ballots, SubmitTurnFeedback(b)
    PROVE  VotesInv'
<1>1. PICK v \in ballot[b].of :
        LET unchanged == ballot[b].seen = {ballot[b].up}
            refused == ballot[b].seen = {} /\ vote[v] # {}
        IN  /\ vote' = IF unchanged \/ refused THEN vote
                       ELSE [vote EXCEPT ![v] = {ballot[b].up}]
            /\ confirmed' = IF refused THEN confirmed
                            ELSE [confirmed EXCEPT ![v] = {ballot[b].up}]
  BY DEF SubmitTurnFeedback
<1> DEFINE n == [ballot[b] EXCEPT !.step = "over"]
           up == {ballot[b].up}
<1>2. /\ ballot[b].step = "write" /\ ballot' = [ballot EXCEPT ![b] = n]
      /\ UNCHANGED crossedVoters /\ up \in OneVote /\ up \in SUBSET BOOLEAN
      /\ n.step = "over" /\ v \in Voters /\ ballot[b].of = {v}
      /\ n \in Ballot
  <2>1. /\ ballot[b].step = "write" /\ ballot' = [ballot EXCEPT ![b] = n]
        /\ UNCHANGED crossedVoters /\ ballot[b] \in Ballot
    BY DEF SubmitTurnFeedback, VotesInv
  <2>2. ballot[b].up \in BOOLEAN /\ n.step = "over" /\ n \in Ballot
    BY <2>1 DEF Ballot
  <2>3. up \in OneVote /\ up \in SUBSET BOOLEAN
    BY <2>2, VotesAre
  <2>4. v \in Voters /\ ballot[b].of = {v}
    BY <1>1, <2>1 DEF VotesInv
  <2> QED
    BY <2>1, <2>2, <2>3, <2>4
<1>k. /\ vote' = vote \/ vote' = [vote EXCEPT ![v] = up]
      /\ confirmed' = confirmed \/ confirmed' = [confirmed EXCEPT ![v] = up]
  BY <1>1
<1> HIDE DEF n, up
<1>3. ballot'[b] = n /\ \A d \in Ballots \ {b} : ballot'[d] = ballot[d]
  BY <1>2 DEF VotesInv
<1>4. /\ vote' \in [Voters -> OneVote]
      /\ confirmed' \in [Voters -> SUBSET BOOLEAN]
      /\ \A w \in Voters \ {v} : vote'[w] = vote[w] /\ confirmed'[w] = confirmed[w]
  BY <1>k, <1>2 DEF VotesInv
<1>5. v \notin crossedVoters => vote'[v] = up /\ confirmed'[v] = up
  <2>1. v \notin crossedVoters => ballot[b].seen = vote[v]
    BY <1>2 DEF VotesInv
  <2> QED
    BY <1>1, <1>2, <2>1 DEF VotesInv, up
<1>6. LastVoteStands'
  BY <1>2, <1>4, <1>5 DEF VotesInv, LastVoteStands
<1>7. ASSUME NEW d \in Ballots, ballot'[d].step = "write"
      PROVE  /\ \E w \in Voters : ballot'[d].of = {w}
             /\ \A w \in ballot'[d].of \ crossedVoters' :
                   /\ ballot'[d].seen = vote'[w]
                   /\ \A e \in Ballots \ {d} : ballot'[e].step = "write" => w \notin ballot'[e].of
  <2>1. d # b /\ ballot'[d] = ballot[d]
    BY <1>2, <1>3, <1>7
  <2>2. /\ \E w \in Voters : ballot[d].of = {w}
        /\ \A w \in ballot[d].of \ crossedVoters :
              /\ ballot[d].seen = vote[w]
              /\ \A e \in Ballots \ {d} : ballot[e].step = "write" => w \notin ballot[e].of
    BY <1>7, <2>1 DEF VotesInv
  <2>3. \A w \in ballot[d].of \ crossedVoters : w # v /\ w \in Voters
    BY <1>2, <2>1, <2>2
  <2> QED
    BY <1>2, <1>3, <1>4, <2>1, <2>2, <2>3
<1>8. ballot' \in [Ballots -> Ballot]
  BY <1>2 DEF VotesInv
<1> QED
  BY <1>2, <1>4, <1>6, <1>7, <1>8 DEF VotesInv

FeedInv == StepsInv /\ VotesInv

LEMMA FeedStep ==
    ASSUME FeedInv, [FeedNext]_feedVars
    PROVE  FeedInv'
<1>1. ASSUME UNCHANGED voteVars
      PROVE  VotesInv'
  BY <1>1 DEF voteVars, FeedInv, VotesInv, LastVoteStands
<1>2. ASSUME UNCHANGED stepVars
      PROVE  StepsInv'
  BY <1>2 DEF stepVars, FeedInv, StepsInv, StepsTyped, StepsOwned, OneToolUnlessParallel,
     StepsRight, Follows, EndsAreEarned, Idle
<1>3. CASE UNCHANGED feedVars
  BY <1>1, <1>2, <1>3 DEF feedVars, FeedInv
<1>4. ASSUME NEW t \in Tools,
             \/ WebToolStart(t) \/ AddTurnStep(t) \/ PublishToolStart(t)
             \/ \E status \in {"completed", "failed"} : WebToolEnd(t, status)
             \/ UpdateStepStatus(t) \/ PublishToolEnd(t),
             UNCHANGED voteVars
      PROVE  FeedInv'
  BY <1>1, <1>4, ToolsInv, AddTurnStepInv, UpdateStepStatusInv DEF FeedInv
<1>5. ASSUME NEW b \in Ballots,
             \/ \E v \in Voters, up \in BOOLEAN : ReadVote(b, v, up)
             \/ SubmitTurnFeedback(b),
             UNCHANGED stepVars
      PROVE  FeedInv'
  BY <1>2, <1>5, ReadVoteInv, SubmitInv DEF FeedInv
<1> QED
  BY <1>3, <1>4, <1>5 DEF FeedNext

LEMMA FeedInitInv == FeedInit => FeedInv
<1> SUFFICES ASSUME FeedInit PROVE FeedInv
  OBVIOUS
<1> DEFINE n == [step |-> "new", seq |-> 0, id |-> 0, end |-> "none"]
<1>1. /\ n \in Callback /\ n.step = "new" /\ n.id = 0
      /\ tool = [t \in Tools |-> n] /\ steps = <<>> /\ currentStep = 0
      /\ parallel = FALSE /\ muffled = FALSE
  BY DEF FeedInit, Callback
<1> HIDE DEF n
<1>2. Len(steps) = 0 /\ steps \in Seq(TurnStep) /\ 1..Len(steps) = {} /\ DOMAIN steps = {}
  BY <1>1
<1>3. StepsTyped
  <2>1. currentStep \in Nat /\ currentStep <= Len(steps) /\ tool \in [Tools -> Callback]
    BY <1>1, <1>2
  <2>4. parallel \in BOOLEAN /\ muffled \in BOOLEAN
    BY <1>1
  <2>2. \A t \in Tools : tool[t] = n
    BY <1>1
  <2>3. \A t \in Tools : tool[t].id <= Len(steps) /\ tool[t].step # "update"
    BY <1>1, <1>2, <2>2
  <2> QED
    BY <1>2, <2>1, <2>3, <2>4 DEF StepsTyped
<1>4. StepsOwned /\ OneToolUnlessParallel
  BY <1>1, <1>2 DEF StepsOwned, OneToolUnlessParallel, Idle
<1>5. StepsRight
  BY <1>1, <1>2 DEF StepsRight, Follows
<1>6. EndsAreEarned
  <2>1. Ended = {} /\ Enders \subseteq Tools
    BY <1>2 DEF Ended, Enders
  <2>2. Cardinality(Ended) = 0 /\ Cardinality(Enders) \in Nat
    BY <2>1, FeedAssumption, FS_EmptySet, Fewer
  <2> QED
    BY <2>2 DEF EndsAreEarned, Ended, Enders
<1>7. VotesInv
  <2> DEFINE e == [step |-> "new", of |-> {}, up |-> FALSE, seen |-> {}]
  <2>1. e \in Ballot /\ e.step = "new"
    BY DEF Ballot
  <2>2. /\ ballot = [b \in Ballots |-> e] /\ crossedVoters = {}
        /\ vote = [v \in Voters |-> {}] /\ confirmed = [v \in Voters |-> {}]
    BY DEF FeedInit
  <2>3. {} \in OneVote
    BY DEF OneVote
  <2> HIDE DEF e
  <2> QED
    BY <2>1, <2>2, <2>3 DEF VotesInv, LastVoteStands
<1> QED
  BY <1>3, <1>4, <1>5, <1>6, <1>7 DEF FeedInv, StepsInv

LEMMA FeedHolds == FeedInv => FeedIsSound
<1> SUFFICES ASSUME FeedInv PROVE FeedIsSound
  OBVIOUS
<1>1. StepsEndAsTheirTools
  <2> SUFFICES ASSUME ~parallel, ~muffled, NEW k \in DOMAIN steps
               PROVE  /\ steps[k].sequence = k
                      /\ tool[steps[k].tool].step = "over"
                         => steps[k].status = tool[steps[k].tool].end
    BY DEF StepsEndAsTheirTools
  <2>1. k \in 1..Len(steps) /\ steps[k].tool \in Tools
    BY StepsTypes DEF FeedInv, TurnStep
  <2> QED
    BY <2>1 DEF FeedInv, StepsInv, StepsRight, Follows
<1>2. ASSUME NEW v \in Voters
      PROVE  Cardinality(vote[v]) <= 1
  <2>1. vote[v] = {} \/ vote[v] = {TRUE} \/ vote[v] = {FALSE}
    BY DEF FeedInv, VotesInv, OneVote
  <2>2. CASE vote[v] = {}
    BY <2>2, FS_EmptySet
  <2>3. ASSUME NEW x, vote[v] = {x}
        PROVE  Cardinality(vote[v]) <= 1
    <3>1. Cardinality(vote[v]) = 1
      BY <2>3, FS_Singleton
    <3> QED
      BY <3>1
  <2> QED
    BY <2>1, <2>2, <2>3
<1> QED
  BY <1>1, <1>2 DEF FeedInv, StepsInv, VotesInv, FeedIsSound

LEMMA FeedInvariance == FeedSpec => []FeedIsSound
BY FeedInitInv, FeedStep, FeedHolds, PTL DEF FeedSpec

-----------------------------------------------------------------------------
(* ChatUploads. *)

Post == [step : {"new", "refused", "begin", "upload", "commit", "send", "done", "clean",
                 "cleanTwice", "cleanCommitted", "failed", "unsent", "deleted"},
         files : Seq(File), stored : Nat]
Objects(q) == {o \in bucket : o.turn = q}
RowsOf(q) == {r \in fileRows : r.turn = q}
Stored(q, f) == [turn |-> q, name |-> f.name, body |-> f.body]

\* o is the last one of its name among the files that are stored.
LastOfItsName(o, p) ==
    \E k \in 1..p.stored :
        /\ o.name = p.files[k].name /\ o.body = p.files[k].body
        /\ \A j \in 1..p.stored : j > k => p.files[j].name # o.name

\* A question p of identity q, with its objects os and its rows rs.
PostSound(p, q, os, rs, old, left) ==
    /\ p \in Post /\ p.stored <= Len(p.files)
    /\ \A o \in os : \E k \in 1..p.stored : o.name = p.files[k].name
    /\ (p.step \in {"upload", "commit", "send", "done"} /\ ~old) =>
          /\ \A k \in 1..p.stored : \E o \in os : o.name = p.files[k].name
          /\ \A o \in os : LastOfItsName(o, p)
    /\ p.step \in {"new", "refused", "begin"} => p.stored = 0
    /\ p.step \in {"commit", "send", "done", "cleanCommitted"} => p.stored = Len(p.files)
    /\ p.step \notin {"done", "unsent", "failed", "deleted"} => ~old
    /\ (p.step \in {"failed", "unsent", "refused"} /\ ~left) => os = {}
    /\ \A r \in rs : \E k \in 1..Len(p.files) : r = Stored(q, p.files[k])
    /\ rs # {} => p.step \in {"send", "done", "cleanCommitted", "unsent", "failed"}
    /\ p.step \in {"send", "done"} => \A k \in 1..Len(p.files) : Stored(q, p.files[k]) \in rs

UploadsInv ==
    /\ posting \in [Questions -> Post]
    /\ bucket \subseteq Object /\ fileRows \subseteq Object
    /\ \A q \in Questions :
          PostSound(posting[q], q, Objects(q), RowsOf(q), q \in expired, q \in litter)

LEMMA AttachmentsAreFiles == Attachments \subseteq Seq(File)
<1> SUFFICES ASSUME NEW x \in Attachments PROVE x \in Seq(File)
  OBVIOUS
<1>1. CASE x = <<>>
  <2>1. <<>> \in Seq(File)
    OBVIOUS
  <2> QED
    BY <1>1, <2>1
<1>2. CASE x \in {<<f>> : f \in File}
  <2>1. PICK f \in File : x = <<f>>
    BY <1>2
  <2> QED
    BY <2>1
<1>3. CASE x \in File \X File
  <2>1. PICK f \in File, g \in File : x = <<f, g>>
    BY <1>3
  <2> QED
    BY <2>1
<1> QED
  BY <1>1, <1>2, <1>3 DEF Attachments

\* A request has the objects and the rows of its own turn only.
LEMMA OneQuestion ==
    ASSUME UploadsInv, NEW q \in Questions, NEW n \in Post,
           posting' = [posting EXCEPT ![q] = n],
           bucket' \subseteq Object, fileRows' \subseteq Object,
           \A o \in Object : o.turn # q => (o \in bucket' <=> o \in bucket),
           \A o \in Object : o.turn # q => (o \in fileRows' <=> o \in fileRows),
           \A r \in Questions \ {q} : /\ r \in expired' <=> r \in expired
                                      /\ r \in litter' <=> r \in litter,
           PostSound(n, q, Objects(q)', RowsOf(q)', q \in expired', q \in litter')
    PROVE  UploadsInv'
<1>1. /\ posting' \in [Questions -> Post] /\ posting'[q] = n
      /\ \A r \in Questions \ {q} : posting'[r] = posting[r]
      /\ bucket \subseteq Object /\ fileRows \subseteq Object
  BY DEF UploadsInv
<1>2. ASSUME NEW r \in Questions
      PROVE  PostSound(posting'[r], r, Objects(r)', RowsOf(r)', r \in expired', r \in litter')
  <2>1. CASE r = q
    BY <1>1, <2>1
  <2>2. CASE r # q
    <3>1. Objects(r)' = Objects(r) /\ RowsOf(r)' = RowsOf(r)
      BY <1>1, <2>2 DEF Objects, RowsOf
    <3>2. PostSound(posting[r], r, Objects(r), RowsOf(r), r \in expired, r \in litter)
      BY DEF UploadsInv
    <3>3. posting'[r] = posting[r] /\ (r \in expired' <=> r \in expired)
          /\ (r \in litter' <=> r \in litter)
      BY <1>1, <2>2
    <3> QED
      BY <3>1, <3>2, <3>3 DEF PostSound
  <2> QED
    BY <2>1, <2>2
<1> QED
  BY <1>1, <1>2 DEF UploadsInv

\* A step of a request that leaves the bucket and the rows as they are.
LEMMA QuestionGoesOn ==
    ASSUME UploadsInv, NEW q \in Questions, NEW n \in Post,
           posting' = [posting EXCEPT ![q] = n],
           UNCHANGED <<bucket, fileRows, expired>>,
           \A r \in Questions \ {q} : r \in litter' <=> r \in litter,
           PostSound(n, q, Objects(q), RowsOf(q), q \in expired, q \in litter')
    PROVE  UploadsInv'
<1>1. Objects(q)' = Objects(q) /\ RowsOf(q)' = RowsOf(q)
  BY DEF Objects, RowsOf
<1>2. bucket' \subseteq Object /\ fileRows' \subseteq Object
  BY DEF UploadsInv
<1>3. (q \in expired') = (q \in expired)
  OBVIOUS
<1> QED
  BY <1>1, <1>2, <1>3, OneQuestion

LEMMA UploadedIsAll ==
    ASSUME UploadsInv, NEW q \in Questions
    PROVE  Uploaded(q) = Objects(q)
BY DEF UploadsInv, PostSound, Uploaded, KeysOf, Objects

After == {"refused", "failed", "upload", "clean", "cleanTwice", "commit", "done",
          "cleanCommitted", "unsent"}

\* Only how far it has come changes, and whether its objects are given up.
LEMMA StepTo ==
    ASSUME UploadsInv, NEW q \in Questions,
           NEW s \in After,
           Step(q, s), UNCHANGED <<bucket, fileRows, expired>>,
           \A r \in Questions \ {q} : r \in litter' <=> r \in litter,
           \A n \in Post :
              n.step = s /\ n.files = posting[q].files /\ n.stored = posting[q].stored
              => PostSound(n, q, Objects(q), RowsOf(q), q \in expired, q \in litter')
    PROVE  UploadsInv'
<1> DEFINE n == [posting[q] EXCEPT !.step = s]
<1>1. posting[q] \in Post
  BY DEF UploadsInv
<1>2. n \in Post /\ n.step = s /\ n.files = posting[q].files /\ n.stored = posting[q].stored
  BY <1>1 DEF Post, After
<1>3. posting' = [posting EXCEPT ![q] = n]
  BY DEF Step
<1> HIDE DEF n
<1>4. PostSound(n, q, Objects(q), RowsOf(q), q \in expired, q \in litter')
  BY <1>2
<1> QED
  BY <1>2, <1>3, <1>4, QuestionGoesOn

LEMMA QuietStepsInv ==
    ASSUME UploadsInv, NEW q \in Questions,
           \/ \E files \in Attachments : AcceptFiles(q, files)
           \/ BeginTurn(q) \/ CreateJob(q) \/ SendJob(q) \/ RequestDies(q)
    PROVE  UploadsInv'
<1> DEFINE p == posting[q]
<1>1. p \in Post /\ PostSound(p, q, Objects(q), RowsOf(q), q \in expired, q \in litter)
  BY DEF UploadsInv
<1>2. CASE \E files \in Attachments : AcceptFiles(q, files)
  <2>1. PICK files \in Attachments : AcceptFiles(q, files)
    BY <1>2
  <2>2. p.step = "new" /\ UNCHANGED <<bucket, fileRows, expired, litter>>
    BY <2>1 DEF AcceptFiles
  <2>3. CASE posting' = [posting EXCEPT ![q] = [step |-> "begin", files |-> files, stored |-> 0]]
    <3> DEFINE n == [step |-> "begin", files |-> files, stored |-> 0]
    <3>1. n \in Post /\ n.step = "begin" /\ n.files = files /\ n.stored = 0
      BY AttachmentsAreFiles DEF Post
    <3>2. posting' = [posting EXCEPT ![q] = n]
      BY <2>3
    <3>3. Len(files) \in Nat
      BY AttachmentsAreFiles
    <3> HIDE DEF n
    <3>4. PostSound(n, q, Objects(q), RowsOf(q), q \in expired, q \in litter')
      BY <1>1, <2>2, <3>1, <3>3 DEF PostSound
    <3> QED
      BY <2>2, <3>1, <3>2, <3>4, QuestionGoesOn
  <2>4. CASE Step(q, "refused")
    <3>1. ASSUME NEW n \in Post, n.step = "refused", n.files = p.files, n.stored = p.stored
          PROVE  PostSound(n, q, Objects(q), RowsOf(q), q \in expired, q \in litter')
      BY <1>1, <2>2, <3>1 DEF PostSound
    <3> QED
      BY <2>2, <2>4, <3>1, StepTo DEF After
  <2> QED
    BY <2>1, <2>3, <2>4 DEF AcceptFiles
<1>3. CASE BeginTurn(q)
  <2>1. /\ p.step = "begin" /\ UNCHANGED <<bucket, fileRows, expired, litter>>
        /\ \E s \in {"upload", "failed"} : Step(q, s)
    BY <1>3 DEF BeginTurn
  <2>2. PICK s \in {"upload", "failed"} : Step(q, s)
    BY <2>1
  <2>3. ASSUME NEW n \in Post, n.step = s, n.files = p.files, n.stored = p.stored
        PROVE  PostSound(n, q, Objects(q), RowsOf(q), q \in expired, q \in litter')
    BY <1>1, <2>1, <2>3 DEF PostSound
  <2> QED
    BY <2>1, <2>2, <2>3, StepTo DEF After
<1>4. CASE CreateJob(q)
  <2>1. /\ p.step = "upload" /\ p.stored = Len(p.files)
        /\ UNCHANGED <<bucket, fileRows, expired, litter>>
        /\ \E s \in {"commit", "clean"} : Step(q, s)
    BY <1>4 DEF CreateJob
  <2>2. PICK s \in {"commit", "clean"} : Step(q, s)
    BY <2>1
  <2>3. ASSUME NEW n \in Post, n.step = s, n.files = p.files, n.stored = p.stored
        PROVE  PostSound(n, q, Objects(q), RowsOf(q), q \in expired, q \in litter')
    BY <1>1, <2>1, <2>3 DEF PostSound, LastOfItsName
  <2> QED
    BY <2>1, <2>2, <2>3, StepTo DEF After
<1>5. CASE SendJob(q)
  <2>1. /\ p.step = "send" /\ UNCHANGED <<bucket, fileRows, expired, litter>>
        /\ \E s \in {"done", "cleanCommitted"} : Step(q, s)
    BY <1>5 DEF SendJob
  <2>2. PICK s \in {"done", "cleanCommitted"} : Step(q, s)
    BY <2>1
  <2>3. ASSUME NEW n \in Post, n.step = s, n.files = p.files, n.stored = p.stored
        PROVE  PostSound(n, q, Objects(q), RowsOf(q), q \in expired, q \in litter')
    BY <1>1, <2>1, <2>3 DEF PostSound, LastOfItsName
  <2> QED
    BY <2>1, <2>2, <2>3, StepTo DEF After
<1>6. CASE RequestDies(q)
  <2>1. /\ p.step \in {"begin", "upload", "commit", "send", "clean", "cleanTwice",
                       "cleanCommitted"}
        /\ Step(q, "failed") /\ UNCHANGED <<bucket, fileRows, expired>>
        /\ litter' = IF Objects(q) # {} THEN litter \union {q} ELSE litter
    BY <1>6, UploadedIsAll DEF RequestDies
  <2>2. ASSUME NEW n \in Post, n.step = "failed", n.files = p.files, n.stored = p.stored
        PROVE  PostSound(n, q, Objects(q), RowsOf(q), q \in expired, q \in litter')
    BY <1>1, <2>1, <2>2 DEF PostSound
  <2> QED
    BY <2>1, <2>2, StepTo DEF After
<1> QED
  BY <1>2, <1>3, <1>4, <1>5, <1>6

LEMMA CleanUpInv ==
    ASSUME UploadsInv, NEW q \in Questions, CleanUp(q)
    PROVE  UploadsInv'
<1> DEFINE p == posting[q]
<1>1. p \in Post /\ PostSound(p, q, Objects(q), RowsOf(q), q \in expired, q \in litter)
  BY DEF UploadsInv
<1>2. PICK s \in {"clean", "failed", "unsent"} :
          /\ Step(q, s) /\ p.step \in {"cleanTwice", "clean", "cleanCommitted"}
          /\ p.step = "cleanTwice" <=> s = "clean"
  BY DEF CleanUp
<1>3. /\ UNCHANGED <<fileRows, expired>>
      /\ \/ bucket' = bucket \ Objects(q) /\ UNCHANGED litter
         \/ /\ litter' = IF p.step # "cleanTwice" /\ Objects(q) # {} THEN litter \union {q}
                         ELSE litter
            /\ UNCHANGED bucket
  BY UploadedIsAll DEF CleanUp
<1>4. CASE UNCHANGED bucket /\ litter' = IF p.step # "cleanTwice" /\ Objects(q) # {}
                                         THEN litter \union {q} ELSE litter
  <2>1. ASSUME NEW n \in Post, n.step = s, n.files = p.files, n.stored = p.stored
        PROVE  PostSound(n, q, Objects(q), RowsOf(q), q \in expired, q \in litter')
    BY <1>1, <1>2, <1>4, <2>1 DEF PostSound
  <2> QED
    BY <1>2, <1>3, <1>4, <2>1, StepTo DEF After
<1>5. CASE bucket' = bucket \ Objects(q) /\ UNCHANGED litter
  <2> DEFINE n == [p EXCEPT !.step = s]
  <2>1. n \in Post /\ n.step = s /\ n.files = p.files /\ n.stored = p.stored
    BY <1>1 DEF Post
  <2>2. posting' = [posting EXCEPT ![q] = n]
    BY <1>2 DEF Step
  <2>3. PICK m \in Post : m = n
    BY <2>1
  <2> HIDE DEF n
  <2>4. Objects(q)' = {} /\ RowsOf(q)' = RowsOf(q)
    BY <1>3, <1>5 DEF Objects, RowsOf
  <2>5. PostSound(m, q, Objects(q)', RowsOf(q)', q \in expired', q \in litter')
    BY <1>1, <1>2, <1>3, <1>5, <2>1, <2>3, <2>4 DEF PostSound
  <2>6. /\ bucket' \subseteq Object /\ fileRows' \subseteq Object
        /\ \A o \in Object : o.turn # q => (o \in bucket' <=> o \in bucket)
    BY <1>3, <1>5 DEF UploadsInv, Objects
  <2> QED
    BY <1>3, <1>5, <2>2, <2>3, <2>5, <2>6, OneQuestion
<1> QED
  BY <1>3, <1>4, <1>5

\* A file takes the place of an earlier one of its name.
LEMMA UploadFileInv ==
    ASSUME UploadsInv, NEW q \in Questions, UploadFile(q)
    PROVE  UploadsInv'
<1> DEFINE p == posting[q]
<1>1. p \in Post /\ PostSound(p, q, Objects(q), RowsOf(q), q \in expired, q \in litter)
  BY DEF UploadsInv
<1>0. PICK i \in Nat : i = p.stored + 1
  BY <1>1 DEF Post
<1>2. /\ p.step = "upload" /\ i <= Len(p.files) /\ UNCHANGED <<fileRows, expired, litter>>
      /\ i \in 1..Len(p.files) /\ p.stored \in Nat /\ Len(p.files) \in Nat
  BY <1>0, <1>1 DEF UploadFile, Post
<1>3. PICK f \in File : f = p.files[i]
  BY <1>1, <1>2 DEF Post
<1> DEFINE o1 == [turn |-> q, name |-> f.name, body |-> f.body]
<1>4. o1 \in Object /\ o1.turn = q /\ o1.name = f.name /\ o1.body = f.body
  BY <1>3 DEF Object, File
<1>5. \/ /\ bucket' = {o \in bucket : ~(o.turn = q /\ o.name = f.name)} \union {o1}
         /\ posting' = [posting EXCEPT ![q].stored = i]
      \/ /\ Step(q, "cleanTwice") \/ Step(q, "clean")
         /\ UNCHANGED bucket
  BY <1>0, <1>3 DEF UploadFile
<1> HIDE DEF o1
<1>6. CASE /\ Step(q, "cleanTwice") \/ Step(q, "clean")
           /\ UNCHANGED bucket
  <2>1. PICK s \in {"cleanTwice", "clean"} : Step(q, s)
    BY <1>6
  <2>2. \A n \in Post :
            n.step = s /\ n.files = p.files /\ n.stored = p.stored
            => PostSound(n, q, Objects(q), RowsOf(q), q \in expired, q \in litter')
    BY <1>1, <1>2 DEF PostSound
  <2>3. UNCHANGED <<bucket, fileRows, expired, litter>>
    BY <1>2, <1>6
  <2> QED
    BY <2>1, <2>2, <2>3, StepTo DEF After
<1>7. CASE /\ bucket' = {o \in bucket : ~(o.turn = q /\ o.name = f.name)} \union {o1}
           /\ posting' = [posting EXCEPT ![q].stored = i]
  <2>0. PICK n : n = [p EXCEPT !.stored = i]
    OBVIOUS
  <2>1. /\ n \in Post /\ n = [p EXCEPT !.stored = i]
        /\ n.step = "upload" /\ n.files = p.files /\ n.stored = i
    BY <1>1, <1>2, <2>0 DEF Post
  <2>2. posting' = [posting EXCEPT ![q] = n]
    BY <1>7, <2>1
  <2>3. /\ bucket' \subseteq Object /\ fileRows' \subseteq Object
        /\ \A o \in Object : o.turn # q => (o \in bucket' <=> o \in bucket)
        /\ RowsOf(q)' = RowsOf(q)
    BY <1>2, <1>4, <1>7 DEF UploadsInv, RowsOf
  <2>4. \A o \in Objects(q)' : o = o1 \/ (o \in Objects(q) /\ o.name # f.name)
    BY <1>4, <1>7 DEF Objects
  <2>5. o1 \in Objects(q)' /\ \A o \in Objects(q) : o.name # f.name => o \in Objects(q)'
    BY <1>4, <1>7 DEF Objects
  <2>6. q \notin expired /\ q \notin expired'
    BY <1>1, <1>2 DEF PostSound
  <2>7. \A k \in 1..i : k \in 1..p.stored \/ k = i
    BY <1>0, <1>2
  <2>8. \A o \in Objects(q)' : \E k \in 1..i : o.name = n.files[k].name
    BY <1>0, <1>1, <1>2, <1>3, <1>4, <2>1, <2>4 DEF PostSound
  <2>9. ASSUME NEW k \in 1..i
        PROVE  \E o \in Objects(q)' : o.name = n.files[k].name
    <3>1. CASE n.files[k].name = f.name
      BY <1>4, <2>5, <3>1
    <3>2. CASE n.files[k].name # f.name
      <4>1. k \in 1..p.stored
        BY <1>3, <2>1, <2>7, <3>2
      <4>2. PICK o \in Objects(q) : o.name = p.files[k].name
        BY <1>1, <1>2, <2>6, <4>1 DEF PostSound
      <4> QED
        BY <2>1, <2>5, <3>2, <4>2
    <3> QED
      BY <3>1, <3>2
  <2>10. ASSUME NEW o \in Objects(q)'
         PROVE  LastOfItsName(o, n)
    <3>1. CASE o = o1
      <4>1. i \in 1..n.stored /\ \A j \in 1..n.stored : ~(j > i)
        BY <1>2, <2>1
      <4> QED
        BY <1>3, <1>4, <2>1, <3>1, <4>1 DEF LastOfItsName
    <3>2. CASE o # o1
      <4>1. o \in Objects(q) /\ o.name # f.name
        BY <2>4, <3>2
      <4>2. PICK k \in 1..p.stored :
                /\ o.name = p.files[k].name /\ o.body = p.files[k].body
                /\ \A j \in 1..p.stored : j > k => p.files[j].name # o.name
        BY <1>1, <1>2, <2>6, <4>1 DEF PostSound, LastOfItsName
      <4>3. k \in 1..n.stored
        BY <1>0, <1>2, <2>1
      <4>4. \A j \in 1..n.stored : j > k => n.files[j].name # o.name
        BY <1>3, <2>1, <2>7, <4>1, <4>2
      <4> QED
        BY <2>1, <4>2, <4>3, <4>4 DEF LastOfItsName
    <3> QED
      BY <3>1, <3>2
  <2>11. RowsOf(q) = {}
    BY <1>1, <1>2 DEF PostSound
  <2>12. n.stored <= Len(n.files)
    BY <1>2, <2>1
  <2>13. PostSound(n, q, Objects(q)', RowsOf(q)', q \in expired', q \in litter')
    BY <2>1, <2>3, <2>6, <2>8, <2>9, <2>10, <2>11, <2>12 DEF PostSound
  <2> QED
    BY <1>2, <2>1, <2>2, <2>3, <2>13, OneQuestion
<1> QED
  BY <1>5, <1>6, <1>7

\* The rows name the files that are stored.
LEMMA CommitTurnInv ==
    ASSUME UploadsInv, NEW q \in Questions, CommitTurn(q)
    PROVE  UploadsInv'
<1> DEFINE p == posting[q]
<1>1. p \in Post /\ PostSound(p, q, Objects(q), RowsOf(q), q \in expired, q \in litter)
  BY DEF UploadsInv
<1>2. /\ p.step = "commit" /\ UNCHANGED <<bucket, expired, litter>>
      /\ DOMAIN p.files = 1..Len(p.files) /\ p.stored = Len(p.files)
      /\ \A k \in 1..Len(p.files) : p.files[k] \in File
  BY <1>1 DEF CommitTurn, Post, PostSound
<1>3. CASE Step(q, "clean") /\ UNCHANGED fileRows
  <2>1. \A n \in Post :
            n.step = "clean" /\ n.files = p.files /\ n.stored = p.stored
            => PostSound(n, q, Objects(q), RowsOf(q), q \in expired, q \in litter')
    BY <1>1, <1>2 DEF PostSound
  <2> QED
    BY <1>2, <1>3, <2>1, StepTo DEF After
<1>4. CASE /\ fileRows' = fileRows \union
                 {[turn |-> q, name |-> f.name, body |-> f.body]
                     : f \in {p.files[k] : k \in DOMAIN p.files}}
           /\ Step(q, "send")
  <2>0. PICK n : n = [p EXCEPT !.step = "send"]
    OBVIOUS
  <2>1. /\ n \in Post /\ n = [p EXCEPT !.step = "send"]
        /\ n.step = "send" /\ n.files = p.files /\ n.stored = p.stored
    BY <1>1, <2>0 DEF Post
  <2>2. posting' = [posting EXCEPT ![q] = n]
    BY <1>4, <2>1 DEF Step
  <2>3. ASSUME NEW k \in 1..Len(p.files)
        PROVE  /\ Stored(q, p.files[k]) \in Object /\ Stored(q, p.files[k]).turn = q
               /\ Stored(q, p.files[k]) \in fileRows'
    BY <1>2, <1>4 DEF Stored, Object, File
  <2>4. ASSUME NEW r \in fileRows', r \notin fileRows
        PROVE  \E k \in 1..Len(p.files) : r = Stored(q, p.files[k])
    BY <1>2, <1>4, <2>4 DEF Stored
  <2>5. /\ bucket' \subseteq Object /\ fileRows' \subseteq Object
        /\ \A o \in Object : o.turn # q => (o \in fileRows' <=> o \in fileRows)
        /\ Objects(q)' = Objects(q)
    BY <1>2, <1>4, <2>3, <2>4 DEF UploadsInv, Objects
  <2>6. \A k \in 1..Len(p.files) : Stored(q, p.files[k]) \in RowsOf(q)'
    BY <2>3 DEF RowsOf
  <2>7. \A r \in RowsOf(q)' : \E k \in 1..Len(p.files) : r = Stored(q, p.files[k])
    BY <1>1, <2>4 DEF RowsOf, PostSound
  <2>10. \A o \in Objects(q) : LastOfItsName(o, p) => LastOfItsName(o, n)
    BY <2>1 DEF LastOfItsName
  <2>8. PostSound(n, q, Objects(q), RowsOf(q)', q \in expired, q \in litter)
    BY <1>1, <1>2, <2>1, <2>6, <2>7, <2>10 DEF PostSound
  <2>9. PostSound(n, q, Objects(q)', RowsOf(q)', q \in expired', q \in litter')
    BY <1>2, <2>5, <2>8
  <2> QED
    BY <1>2, <2>1, <2>2, <2>5, <2>9, OneQuestion
<1> QED
  BY <1>3, <1>4 DEF CommitTurn

LEMMA LaterInv ==
    ASSUME UploadsInv, NEW q \in Questions, DeleteConversation(q) \/ ExpireObjects(q)
    PROVE  UploadsInv'
<1> DEFINE p == posting[q]
<1>1. p \in Post /\ PostSound(p, q, Objects(q), RowsOf(q), q \in expired, q \in litter)
  BY DEF UploadsInv
<1>2. CASE DeleteConversation(q)
  <2>0. PICK n : n = [p EXCEPT !.step = "deleted"]
    OBVIOUS
  <2>1. /\ n \in Post /\ n = [p EXCEPT !.step = "deleted"]
        /\ n.step = "deleted" /\ n.files = p.files /\ n.stored = p.stored
    BY <1>1, <2>0 DEF Post
  <2>2. /\ posting' = [posting EXCEPT ![q] = n] /\ UNCHANGED <<bucket, expired, litter>>
        /\ fileRows' = {r \in fileRows : r.turn # q}
    BY <1>2, <2>1 DEF DeleteConversation, Step
  <2>3. /\ bucket' \subseteq Object /\ fileRows' \subseteq Object
        /\ \A o \in Object : o.turn # q => (o \in fileRows' <=> o \in fileRows)
        /\ Objects(q)' = Objects(q) /\ RowsOf(q)' = {}
    BY <2>2 DEF UploadsInv, Objects, RowsOf
  <2>4. PostSound(n, q, Objects(q), {}, q \in expired, q \in litter)
    BY <1>1, <2>1 DEF PostSound
  <2>5. PostSound(n, q, Objects(q)', RowsOf(q)', q \in expired', q \in litter')
    BY <2>2, <2>3, <2>4
  <2> QED
    BY <2>1, <2>2, <2>3, <2>5, OneQuestion
<1>3. CASE ExpireObjects(q)
  <2>1. /\ p.step \in {"done", "unsent", "failed", "deleted"}
        /\ bucket' = {o \in bucket : o.turn # q} /\ expired' = expired \union {q}
        /\ UNCHANGED <<posting, fileRows, litter>>
    BY <1>3 DEF ExpireObjects
  <2>2. PICK n \in Post : n = p
    BY <1>1
  <2>3. posting' = [posting EXCEPT ![q] = n]
    BY <2>1, <2>2 DEF UploadsInv
  <2>4. /\ bucket' \subseteq Object /\ fileRows' \subseteq Object
        /\ \A o \in Object : o.turn # q => (o \in bucket' <=> o \in bucket)
        /\ Objects(q)' = {} /\ RowsOf(q)' = RowsOf(q)
    BY <2>1 DEF UploadsInv, Objects, RowsOf
  <2>5. PostSound(n, q, {}, RowsOf(q), TRUE, q \in litter)
    BY <1>1, <2>1, <2>2 DEF PostSound
  <2>6. (q \in expired') = TRUE /\ litter' = litter
    BY <2>1
  <2>7. PostSound(n, q, Objects(q)', RowsOf(q)', q \in expired', q \in litter')
    BY <2>4, <2>5, <2>6 DEF PostSound
  <2> QED
    BY <2>1, <2>3, <2>4, <2>7, OneQuestion
<1> QED
  BY <1>2, <1>3

LEMMA UploadsStep ==
    ASSUME UploadsInv, [UploadsNext]_uploadVars
    PROVE  UploadsInv'
<1>1. CASE UNCHANGED uploadVars
  BY <1>1 DEF uploadVars, UploadsInv, Objects, RowsOf
<1> QED
  BY <1>1, QuietStepsInv, CleanUpInv, UploadFileInv, CommitTurnInv, LaterInv DEF UploadsNext

LEMMA UploadsInitInv == UploadsInit => UploadsInv
<1> SUFFICES ASSUME UploadsInit PROVE UploadsInv
  OBVIOUS
<1>1. /\ NewRequest \in Post /\ NewRequest.step = "new" /\ NewRequest.stored = 0
      /\ NewRequest.files = <<>> /\ Len(NewRequest.files) = 0
  <2>1. <<>> \in Seq(File) /\ Len(<<>>) = 0
    OBVIOUS
  <2> QED
    BY <2>1 DEF NewRequest, Post
<1>2. /\ posting = [q \in Questions |-> NewRequest]
      /\ bucket = {} /\ fileRows = {} /\ expired = {} /\ litter = {}
  BY DEF UploadsInit
<1>3. \A q \in Questions : Objects(q) = {} /\ RowsOf(q) = {}
  BY <1>2 DEF Objects, RowsOf
<1>4. \A q \in Questions :
          PostSound(posting[q], q, Objects(q), RowsOf(q), q \in expired, q \in litter)
  BY <1>1, <1>2, <1>3 DEF PostSound
<1> QED
  BY <1>1, <1>2, <1>4 DEF UploadsInv

LEMMA UploadsHold == UploadsInv => UploadsAreSound
<1> SUFFICES ASSUME UploadsInv PROVE UploadsAreSound
  OBVIOUS
<1>1. FailureLeavesNothing
  BY DEF UploadsInv, PostSound, FailureLeavesNothing, Objects
<1>2. ASSUME NEW r \in fileRows, posting[r.turn].step \in {"send", "done"},
             r.turn \notin expired
      PROVE  LET named == {f \in fileRows : f.turn = r.turn /\ f.name = r.name}
             IN  /\ Cardinality(Linked(r)) = 1
                 /\ Cardinality(named) = 1 => Linked(r) = {r}
  <2> DEFINE q == r.turn
             p == posting[q]
             named == {f \in fileRows : f.turn = q /\ f.name = r.name}
  <2>1. q \in Questions /\ r \in Object
    BY DEF UploadsInv, Object
  <2>2. /\ p \in Post /\ PostSound(p, q, Objects(q), RowsOf(q), q \in expired, q \in litter)
        /\ r \in RowsOf(q) /\ p.stored = Len(p.files) /\ p.stored \in Nat
    BY <1>2, <2>1 DEF UploadsInv, RowsOf, PostSound, Post
  <2>3. PICK k \in 1..p.stored : r = Stored(q, p.files[k])
    BY <2>2 DEF PostSound
  <2>4. PICK o \in Objects(q) : o.name = r.name
    BY <1>2, <2>2, <2>3 DEF PostSound, Stored
  <2>5. ASSUME NEW o1 \in Objects(q), NEW o2 \in Objects(q), o1.name = o2.name
        PROVE  o1 = o2
    <3>1. LastOfItsName(o1, p) /\ LastOfItsName(o2, p)
      BY <1>2, <2>2 DEF PostSound
    <3>4. PICK k1 \in 1..p.stored :
              /\ o1.name = p.files[k1].name /\ o1.body = p.files[k1].body
              /\ \A j \in 1..p.stored : j > k1 => p.files[j].name # o1.name
      BY <3>1 DEF LastOfItsName
    <3>5. PICK k2 \in 1..p.stored :
              /\ o2.name = p.files[k2].name /\ o2.body = p.files[k2].body
              /\ \A j \in 1..p.stored : j > k2 => p.files[j].name # o2.name
      BY <3>1 DEF LastOfItsName
    <3>6. ~(k1 > k2) /\ ~(k2 > k1)
      BY <2>5, <3>4, <3>5
    <3>7. k1 = k2
      BY <2>2, <3>6
    <3>2. o1.body = o2.body
      BY <3>4, <3>5, <3>7
    <3>3. o1 \in Object /\ o2 \in Object /\ o1.turn = o2.turn
      BY DEF Objects, UploadsInv
    <3> QED
      BY <2>5, <3>2, <3>3 DEF Object
  <2>6. Linked(r) = {o}
    BY <2>4, <2>5 DEF Linked, Objects
  <2>7. ASSUME Cardinality(named) = 1
        PROVE  o = r
    <3>1. PICK j \in 1..p.stored : o.name = p.files[j].name /\ o.body = p.files[j].body
      BY <1>2, <2>2 DEF PostSound, LastOfItsName
    <3>2. o = Stored(q, p.files[j])
      BY <3>1 DEF Stored, Objects, UploadsInv, Object
    <3>3. o \in named /\ r \in named
      BY <1>2, <2>2, <2>4, <3>1, <3>2 DEF PostSound, RowsOf
    <3>4. PICK x : named = {x}
      <4>1. PICK s : s = named
        OBVIOUS
      <4>2. IsFiniteSet(s)
        <5> DEFINE T == {Stored(q, p.files[m]) : m \in 1..p.stored}
                   f == [m \in 1..p.stored |-> Stored(q, p.files[m])]
        <5>1. IsFiniteSet(1..p.stored)
          BY <2>2, FS_Interval
        <5>2. f \in Surjection(1..p.stored, T)
          BY DEF Surjection
        <5>3. IsFiniteSet(T)
          BY <5>1, <5>2, FS_Surjection
        <5>4. s \subseteq T
          BY <2>2, <4>1 DEF PostSound, RowsOf
        <5> QED
          BY <5>3, <5>4, FS_Subset
      <4> QED
        BY <2>7, <4>1, <4>2, FS_Singleton
    <3> QED
      BY <3>3, <3>4
  <2>8. Cardinality(Linked(r)) = 1
    BY <2>6, FS_Singleton
  <2> HIDE DEF named
  <2>9. Cardinality(named) = 1 => Linked(r) = {r}
    BY <2>6, <2>7
  <2> QED
    BY <2>8, <2>9 DEF named
<1> QED
  BY <1>1, <1>2 DEF UploadsAreSound, LinkLeadsToFile

-----------------------------------------------------------------------------
(* MailCampaigns. *)

SweepRecord == [step : {"rest", "next", "post", "record"}, of : Campaigns \union {""},
                due : SUBSET Recipients, willing : SUBSET Recipients,
                to : SUBSET Recipients, posts : Nat]

\* A letter to u would not be one too many, nor come too early.
MayWrite(u, c) ==
    /\ Len(sent[u][c]) < (IF c = "reminder" THEN MaxReminders ELSE 1)
    /\ (c = "reminder" /\ Len(sent[u][c]) > 0)
       => today > Interval + sent[u][c][Len(sent[u][c])]

\* What a sweep may still write is due, if no other sweep of its campaign is
\* under way; who unsubscribed before it began is not among its recipients.
SweepSound(r) ==
    /\ r \in SweepRecord
    /\ r.step # "rest" => r.of \in Campaigns
    /\ r.step # "rest" => \A u \in Recipients : quiet[u] # {} => u \notin r.willing
    /\ r.step \in {"post", "record"} => \E u \in r.willing : r.to = {u} /\ u \notin r.due
    /\ (r.step # "rest" /\ r.of \notin sideBySide) =>
          /\ \A u \in r.due : MayWrite(u, r.of)
          /\ r.step \in {"post", "record"} => \A u \in r.to : MayWrite(u, r.of)

ToRecord(u, c) == {s \in Sweeps : sweep[s].step = "record" /\ sweep[s].of = c /\ u \in sweep[s].to}

Tally(u, c) ==
    /\ mailbox[u][c] >= Len(sent[u][c]) + Cardinality(ToRecord(u, c))
    /\ unrecorded = 0 => mailbox[u][c] = Len(sent[u][c]) + Cardinality(ToRecord(u, c))

SparedAndGone(u) == quiet[u] # {} => mailbox[u] \in quiet[u] /\ u \notin subscribed

MailTyped ==
    /\ today \in Nat /\ unrecorded \in Nat /\ subscribed \subseteq Recipients
    /\ sent \in [Recipients -> [Campaigns -> Seq(Nat)]]
    /\ mailbox \in [Recipients -> [Campaigns -> Nat]]
    /\ sweep \in [Sweeps -> SweepRecord]
    /\ DOMAIN quiet = Recipients

MailInv ==
    /\ MailTyped
    /\ \A s \in Sweeps : SweepSound(sweep[s])
    /\ \A s \in Sweeps : \A r \in Sweeps \ {s} :
          (Sweeping(s) /\ Sweeping(r) /\ sweep[s].of = sweep[r].of) => sweep[s].of \in sideBySide
    /\ NoneTooMany
    /\ \A u \in Recipients : \A c \in Campaigns : Tally(u, c)
    /\ \A u \in Recipients : SparedAndGone(u)

LEMMA MailTypes ==
    ASSUME MailInv
    PROVE  /\ today \in Nat /\ unrecorded \in Nat /\ subscribed \subseteq Recipients
           /\ sent \in [Recipients -> [Campaigns -> Seq(Nat)]]
           /\ mailbox \in [Recipients -> [Campaigns -> Nat]]
           /\ sweep \in [Sweeps -> SweepRecord]
           /\ DOMAIN quiet = Recipients
           /\ IsFiniteSet(Sweeps) /\ Interval \in Nat /\ MaxReminders \in Nat /\ MaxReminders > 0
           /\ "" \notin Campaigns
<1>1. /\ today \in Nat /\ unrecorded \in Nat /\ subscribed \subseteq Recipients
      /\ sent \in [Recipients -> [Campaigns -> Seq(Nat)]]
      /\ mailbox \in [Recipients -> [Campaigns -> Nat]]
      /\ sweep \in [Sweeps -> SweepRecord]
      /\ DOMAIN quiet = Recipients
  BY DEF MailInv, MailTyped
<1>2. IsFiniteSet(Sweeps) /\ Interval \in Nat /\ "" \notin Campaigns
  BY MailAssumption
<1>3. MaxReminders \in Nat \ {0}
  BY MailAssumption
<1>4. MaxReminders \in Nat /\ MaxReminders > 0
  BY <1>3
<1> QED
  BY <1>1, <1>2, <1>4

LEMMA RowTypes ==
    ASSUME MailInv, NEW u \in Recipients, NEW c \in Campaigns
    PROVE  /\ sent[u] \in [Campaigns -> Seq(Nat)] /\ sent[u][c] \in Seq(Nat)
           /\ Len(sent[u][c]) \in Nat
           /\ mailbox[u] \in [Campaigns -> Nat] /\ mailbox[u][c] \in Nat
<1>1. sent[u] \in [Campaigns -> Seq(Nat)] /\ mailbox[u] \in [Campaigns -> Nat]
  BY MailTypes
<1>2. sent[u][c] \in Seq(Nat) /\ mailbox[u][c] \in Nat
  BY <1>1
<1> QED
  BY <1>1, <1>2

LEMMA PendingCount ==
    ASSUME MailInv, NEW u, NEW c
    PROVE  /\ IsFiniteSet(ToRecord(u, c)) /\ Cardinality(ToRecord(u, c)) \in Nat
<1>1. ToRecord(u, c) \subseteq Sweeps
  BY DEF ToRecord
<1> QED
  BY <1>1, MailTypes, Fewer

LEMMA DueMayWrite ==
    ASSUME MailInv, NEW u \in Recipients, NEW c \in Campaigns, Due(u, c)
    PROVE  MayWrite(u, c)
<1>1. sent[u][c] \in Seq(Nat) /\ Len(sent[u][c]) \in Nat
  BY RowTypes
<1>2. sent[u][c] = <<>> => Len(sent[u][c]) = 0
  OBVIOUS
<1>3. Len(sent[u][c]) > 0 => sent[u][c] # <<>>
  BY <1>2
<1>4. CASE c = "reminder"
  <2>1. DueReminder(u, sent[u][c])
    BY <1>4 DEF Due
  <2> QED
    BY <1>1, <1>3, <1>4, <2>1 DEF DueReminder, MayWrite, Last
<1>5. CASE c # "reminder"
  <2>1. sent[u][c] = <<>>
    BY <1>5 DEF Due, DueHelp, DueFeedback
  <2> QED
    BY <1>2, <1>5, <2>1 DEF MayWrite
<1> QED
  BY <1>4, <1>5

\* A sweep moves, and no letter or row comes or goes; a letter without its row
\* is counted if it had one to write.
LEMMA SweepMoves ==
    ASSUME MailInv, NEW s \in Sweeps, NEW n \in SweepRecord, sweep' = [sweep EXCEPT ![s] = n],
           UNCHANGED <<today, subscribed, onboarded, loggedIn, sent, mailbox, quiet>>,
           unrecorded' \in Nat, unrecorded' >= unrecorded,
           sweep[s].step = "record" => unrecorded' > 0,
           n.step # "record", sideBySide \subseteq sideBySide',
           SweepSound(n)',
           \A r \in Sweeps \ {s} : (n.step # "rest" /\ Sweeping(r) /\ sweep[r].of = n.of)
                                   => n.of \in sideBySide'
    PROVE  MailInv'
<1>1. /\ sweep' \in [Sweeps -> SweepRecord] /\ sweep'[s] = n
      /\ \A r \in Sweeps \ {s} : sweep'[r] = sweep[r]
  BY MailTypes
<1>2. MailTyped'
  BY <1>1 DEF MailInv, MailTyped
<1>3. ASSUME NEW r \in Sweeps
      PROVE  SweepSound(sweep[r])'
  <2>1. CASE r = s
    BY <1>1, <2>1 DEF SweepSound, MayWrite
  <2>2. CASE r # s
    BY <1>1, <2>2 DEF MailInv, SweepSound, MayWrite
  <2> QED
    BY <2>1, <2>2
<1>4. ASSUME NEW a \in Sweeps, NEW b \in Sweeps \ {a},
             sweep'[a].step # "rest", sweep'[b].step # "rest", sweep'[a].of = sweep'[b].of
      PROVE  sweep'[a].of \in sideBySide'
  BY <1>1, <1>4 DEF MailInv, Sweeping
<1>5. NoneTooMany'
  BY DEF MailInv, NoneTooMany
<1>6. ASSUME NEW u \in Recipients, NEW c \in Campaigns
      PROVE  Tally(u, c)'
  <2>1. Tally(u, c) /\ Len(sent[u][c]) \in Nat /\ mailbox[u][c] \in Nat
    BY RowTypes DEF MailInv
  <2>2. CASE sweep[s].step = "record"
    <3>1. ToRecord(u, c)' \subseteq ToRecord(u, c)
      BY <1>1 DEF ToRecord
    <3>2. /\ Cardinality(ToRecord(u, c)') \in Nat
          /\ Cardinality(ToRecord(u, c)') <= Cardinality(ToRecord(u, c))
      BY <3>1, PendingCount, Fewer
    <3> QED
      BY <2>1, <2>2, <3>2, PendingCount DEF Tally
  <2>3. CASE sweep[s].step # "record"
    <3>1. ToRecord(u, c)' = ToRecord(u, c)
      BY <1>1, <2>3 DEF ToRecord
    <3>3. unrecorded \in Nat
      BY MailTypes
    <3>2. unrecorded' = 0 => unrecorded = 0
      BY <3>3
    <3> QED
      BY <2>1, <3>1, <3>2 DEF Tally
  <2> QED
    BY <2>2, <2>3
<1>7. \A u \in Recipients : SparedAndGone(u)'
  BY DEF MailInv, SparedAndGone
<1> QED
  BY <1>2, <1>3, <1>4, <1>5, <1>6, <1>7 DEF MailInv, Sweeping

LEMMA RestingSound == Resting \in SweepRecord /\ Resting.step = "rest"
BY DEF Resting, SweepRecord

LEMMA MovesInv ==
    ASSUME MailInv, NEW s \in Sweeps,
           (\E c \in Campaigns : StartSweep(s, c)) \/ NextRecipient(s) \/ SweepDies(s)
    PROVE  MailInv'
<1>1. sweep[s] \in SweepRecord /\ SweepSound(sweep[s]) /\ unrecorded \in Nat
  BY MailTypes DEF MailInv
<1>2. CASE \E c \in Campaigns : StartSweep(s, c)
  <2>1. PICK c \in Campaigns : StartSweep(s, c)
    BY <1>2
  <2>2. PICK n : n = [Resting EXCEPT !.step = "next", !.of = c, !.willing = subscribed,
                           !.due = {u \in Recipients : Due(u, c)}]
    OBVIOUS
  <2>3. /\ sweep' = [sweep EXCEPT ![s] = n] /\ ~Sweeping(s)
        /\ sideBySide' = IF \E r \in Sweeps : Sweeping(r) /\ sweep[r].of = c
                         THEN sideBySide \union {c} ELSE sideBySide
        /\ UNCHANGED <<today, subscribed, onboarded, loggedIn, sent, mailbox, unrecorded, quiet>>
    BY <2>1, <2>2 DEF StartSweep
  <2>4. /\ n \in SweepRecord /\ n.step = "next" /\ n.of = c /\ n.willing = subscribed
        /\ n.due = {u \in Recipients : Due(u, c)}
    BY <2>2, MailTypes DEF Resting, SweepRecord
  <2>5. \A u \in n.due : MayWrite(u, c)
    BY <2>4, DueMayWrite
  <2>6. \A u \in Recipients : quiet[u] # {} => u \notin subscribed
    BY DEF MailInv, SparedAndGone
  <2>7. SweepSound(n)'
    BY <2>3, <2>4, <2>5, <2>6 DEF SweepSound, MayWrite
  <2>8. unrecorded' \in Nat /\ unrecorded' >= unrecorded
    BY <1>1, <2>3
  <2> QED
    BY <2>3, <2>4, <2>7, <2>8, SweepMoves DEF Sweeping
<1>3. CASE NextRecipient(s)
  <2>1. /\ sweep[s].step = "next"
        /\ UNCHANGED <<today, subscribed, onboarded, loggedIn, sent, mailbox, sideBySide,
                       unrecorded, quiet>>
    BY <1>3 DEF NextRecipient
  <2>4. unrecorded' \in Nat /\ unrecorded' >= unrecorded
    BY <1>1, <2>1
  <2>2. CASE sweep' = [sweep EXCEPT ![s] = Resting]
    <3>1. SweepSound(Resting)'
      BY RestingSound DEF SweepSound
    <3> QED
      BY <2>1, <2>2, <2>4, <3>1, RestingSound, SweepMoves
  <2>3. ASSUME NEW u \in sweep[s].due,
               sweep' = [sweep EXCEPT ![s].due = @ \ {u}, ![s].to = {u}, ![s].posts = 0,
                            ![s].step = IF u \in sweep[s].willing THEN "post" ELSE "next"]
        PROVE  MailInv'
    <3>1. PICK n : n = [sweep[s] EXCEPT !.due = @ \ {u}, !.to = {u}, !.posts = 0,
                             !.step = IF u \in sweep[s].willing THEN "post" ELSE "next"]
      OBVIOUS
    <3>2. sweep' = [sweep EXCEPT ![s] = n]
      BY <2>3, <3>1
    <3>3. /\ n \in SweepRecord /\ n.due = sweep[s].due \ {u} /\ n.to = {u} /\ n.of = sweep[s].of
          /\ n.willing = sweep[s].willing
          /\ n.step = IF u \in sweep[s].willing THEN "post" ELSE "next"
      BY <1>1, <3>1 DEF SweepRecord
    <3>4. SweepSound(n)'
      BY <1>1, <2>1, <3>3 DEF SweepSound, MayWrite
    <3>5. \A r \in Sweeps \ {s} : (Sweeping(r) /\ sweep[r].of = n.of) => n.of \in sideBySide'
      BY <2>1, <3>3 DEF MailInv, Sweeping
    <3> QED
      BY <2>1, <2>4, <3>2, <3>3, <3>4, <3>5, SweepMoves
  <2> QED
    BY <1>3, <2>2, <2>3 DEF NextRecipient
<1>4. CASE SweepDies(s)
  <2>1. /\ sweep' = [sweep EXCEPT ![s] = Resting]
        /\ unrecorded' = IF sweep[s].step = "record" THEN unrecorded + 1 ELSE unrecorded
        /\ UNCHANGED <<today, subscribed, onboarded, loggedIn, sent, mailbox, sideBySide, quiet>>
    BY <1>4 DEF SweepDies
  <2>2. /\ unrecorded' \in Nat /\ unrecorded' >= unrecorded
        /\ sweep[s].step = "record" => unrecorded' > 0
    BY <1>1, <2>1
  <2>3. SweepSound(Resting)'
    BY RestingSound DEF SweepSound
  <2> QED
    BY <2>1, <2>2, <2>3, RestingSound, SweepMoves
<1> QED
  BY <1>2, <1>3, <1>4

\* A letter that is taken is one more in the mailbox: it is to have its row, or
\* it is counted as one without.
LEMMA PostLetterInv ==
    ASSUME MailInv, NEW s \in Sweeps, PostLetter(s)
    PROVE  MailInv'
<1> DEFINE p == sweep[s]
<1>1. /\ p \in SweepRecord /\ SweepSound(p) /\ p.step = "post" /\ unrecorded \in Nat
      /\ UNCHANGED <<today, subscribed, onboarded, loggedIn, sent, sideBySide, quiet>>
  BY MailTypes DEF MailInv, PostLetter
<1>2. PICK u0 \in p.willing : p.to = {u0} /\ u0 \notin p.due
  BY <1>1 DEF SweepSound
<1>3. PICK c0 \in Campaigns : c0 = p.of
  BY <1>1 DEF SweepSound
<1>4. u0 \in Recipients /\ quiet[u0] = {}
  BY <1>1, <1>2 DEF SweepSound, SweepRecord
<1>5. PICK taken \in BOOLEAN, answered \in BOOLEAN :
        /\ answered => taken
        /\ mailbox' = IF taken THEN [u \in Recipients |->
                          [mailbox[u] EXCEPT ![c0] = @ + (IF u \in p.to THEN 1 ELSE 0)]]
                      ELSE mailbox
        /\ unrecorded' = IF taken /\ ~answered THEN unrecorded + 1 ELSE unrecorded
        /\ sweep' = [sweep EXCEPT ![s].posts = @ + 1,
                       ![s].step = IF answered THEN "record"
                                   ELSE IF p.posts + 1 < PostAttempts THEN "post" ELSE "next"]
  BY <1>3 DEF PostLetter
<1>20. PICK m : m = IF answered THEN "record"
                    ELSE IF p.posts + 1 < PostAttempts THEN "post" ELSE "next"
  OBVIOUS
<1>21. m \in {"post", "next", "record"} /\ (m = "record" <=> answered)
  BY <1>20
<1>22. PICK k : k = p.posts + 1
  OBVIOUS
<1>24. p.posts \in Nat
  BY <1>1 DEF SweepRecord
<1>23. k \in Nat
  BY <1>22, <1>24
<1>6. PICK n : n = [p EXCEPT !.posts = k, !.step = m]
  OBVIOUS
<1>7. /\ n \in SweepRecord /\ n.of = c0 /\ n.to = p.to /\ n.due = p.due /\ n.willing = p.willing
      /\ n.step = m
  BY <1>1, <1>3, <1>6, <1>21, <1>23 DEF SweepRecord
<1>8. sweep' = [sweep EXCEPT ![s] = n]
  BY <1>5, <1>6, <1>20, <1>22
<1>9. /\ sweep' \in [Sweeps -> SweepRecord] /\ sweep'[s] = n
      /\ \A r \in Sweeps \ {s} : sweep'[r] = sweep[r]
  BY <1>7, <1>8, MailTypes
<1>10. unrecorded' \in Nat /\ unrecorded' >= unrecorded
       /\ (taken /\ ~answered => unrecorded' > 0) /\ (unrecorded' = 0 => unrecorded = 0)
  BY <1>1, <1>5
<1>11. ASSUME NEW u \in Recipients
       PROVE  /\ mailbox'[u] \in [Campaigns -> Nat]
              /\ \A c \in Campaigns :
                    mailbox'[u][c] = IF taken /\ u = u0 /\ c = c0 THEN mailbox[u][c] + 1
                                     ELSE mailbox[u][c]
              /\ u # u0 => mailbox'[u] = mailbox[u]
  <2>1. mailbox[u] \in [Campaigns -> Nat]
    BY MailTypes
  <2>2. CASE ~taken
    BY <1>5, <2>1, <2>2
  <2>3. CASE taken
    <3>1. mailbox'[u] = [mailbox[u] EXCEPT ![c0] = @ + (IF u \in p.to THEN 1 ELSE 0)]
      BY <1>5, <2>3
    <3>2. (u \in p.to) <=> (u = u0)
      BY <1>2
    <3>3. CASE u = u0
      BY <2>1, <2>3, <3>1, <3>2, <3>3
    <3>4. CASE u # u0
      <4>1. mailbox'[u] = [mailbox[u] EXCEPT ![c0] = @ + 0]
        BY <3>1, <3>2, <3>4
      <4>2. mailbox[u][c0] + 0 = mailbox[u][c0]
        BY <2>1
      <4>3. mailbox'[u] = mailbox[u]
        BY <2>1, <4>1, <4>2
      <4> QED
        BY <2>1, <3>4, <4>3
    <3> QED
      BY <3>3, <3>4
  <2> QED
    BY <2>2, <2>3
<1>12. mailbox' \in [Recipients -> [Campaigns -> Nat]]
  <2>1. mailbox' = [u \in Recipients |-> mailbox'[u]]
    BY <1>5, MailTypes
  <2> QED
    BY <1>11, <2>1
<1>13. MailTyped'
  BY <1>1, <1>9, <1>10, <1>12 DEF MailInv, MailTyped
<1>14. SweepSound(n)'
  BY <1>1, <1>2, <1>3, <1>7, <1>21 DEF SweepSound, MayWrite
<1>15. ASSUME NEW r \in Sweeps
       PROVE  SweepSound(sweep[r])'
  <2>1. CASE r = s
    BY <1>9, <1>14, <2>1 DEF SweepSound, MayWrite
  <2>2. CASE r # s
    BY <1>1, <1>9, <2>2 DEF MailInv, SweepSound, MayWrite
  <2> QED
    BY <2>1, <2>2
<1>16. ASSUME NEW a \in Sweeps, NEW b \in Sweeps \ {a},
              sweep'[a].step # "rest", sweep'[b].step # "rest", sweep'[a].of = sweep'[b].of
       PROVE  sweep'[a].of \in sideBySide'
  BY <1>1, <1>3, <1>7, <1>9, <1>16, <1>21 DEF MailInv, Sweeping
<1>17. NoneTooMany'
  BY <1>1 DEF MailInv, NoneTooMany
<1>18. ASSUME NEW u \in Recipients, NEW c \in Campaigns
       PROVE  Tally(u, c)'
  <2>1. Tally(u, c) /\ Len(sent[u][c]) \in Nat /\ mailbox[u][c] \in Nat
    BY RowTypes DEF MailInv
  <2>2. Cardinality(ToRecord(u, c)) \in Nat /\ IsFiniteSet(ToRecord(u, c))
    BY PendingCount
  <2>3. CASE answered /\ u = u0 /\ c = c0
    <3>1. ToRecord(u, c)' = ToRecord(u, c) \union {s} /\ s \notin ToRecord(u, c)
      BY <1>1, <1>2, <1>7, <1>9, <1>21, <2>3 DEF ToRecord
    <3>2. Cardinality(ToRecord(u, c)') = Cardinality(ToRecord(u, c)) + 1
      BY <2>2, <3>1, FS_AddElement
    <3>3. mailbox'[u][c] = mailbox[u][c] + 1
      BY <1>5, <1>11, <2>3
    <3> QED
      BY <1>1, <1>10, <2>1, <2>2, <3>2, <3>3 DEF Tally
  <2>4. CASE ~(answered /\ u = u0 /\ c = c0)
    <3>1. ToRecord(u, c)' = ToRecord(u, c)
      BY <1>1, <1>2, <1>7, <1>9, <1>21, <2>4 DEF ToRecord
    <3>2. \/ mailbox'[u][c] = mailbox[u][c]
          \/ mailbox'[u][c] = mailbox[u][c] + 1 /\ unrecorded' > 0
      BY <1>10, <1>11, <2>4
    <3> QED
      BY <1>1, <1>10, <2>1, <2>2, <3>1, <3>2 DEF Tally
  <2> QED
    BY <2>3, <2>4
<1>19. ASSUME NEW u \in Recipients
       PROVE  SparedAndGone(u)'
  BY <1>1, <1>4, <1>11 DEF MailInv, SparedAndGone
<1> QED
  BY <1>13, <1>15, <1>16, <1>17, <1>18, <1>19 DEF MailInv, Sweeping

\* A row is written for the letter, on a day when it is due.
LEMMA RecordLetterInv ==
    ASSUME MailInv, NEW s \in Sweeps, RecordLetter(s)
    PROVE  MailInv'
<1> DEFINE p == sweep[s]
<1>1. /\ p \in SweepRecord /\ SweepSound(p) /\ p.step = "record" /\ unrecorded \in Nat
      /\ UNCHANGED <<today, subscribed, onboarded, loggedIn, mailbox, sideBySide, quiet>>
      /\ today \in Nat
  BY MailTypes DEF MailInv, RecordLetter
<1>2. CASE /\ sweep' = [sweep EXCEPT ![s] = Resting]
           /\ unrecorded' = unrecorded + 1 /\ UNCHANGED sent
  <2>1. unrecorded' \in Nat /\ unrecorded' >= unrecorded /\ unrecorded' > 0
    BY <1>1, <1>2
  <2>2. SweepSound(Resting)'
    BY RestingSound DEF SweepSound
  <2> QED
    BY <1>1, <1>2, <2>1, <2>2, RestingSound, SweepMoves
<1>3. CASE sent' = Recorded(s) /\ Go(s, "next") /\ UNCHANGED unrecorded
  <2>1. PICK u0 \in p.willing : p.to = {u0} /\ u0 \notin p.due
    BY <1>1 DEF SweepSound
  <2>2. PICK c0 \in Campaigns : c0 = p.of
    BY <1>1 DEF SweepSound
  <2>3. PICK n : n = [p EXCEPT !.step = "next"]
    OBVIOUS
  <2>4. /\ n \in SweepRecord /\ n.of = c0 /\ n.due = p.due /\ n.willing = p.willing
        /\ n.step = "next"
    BY <1>1, <2>2, <2>3 DEF SweepRecord
  <2>5. sweep' = [sweep EXCEPT ![s] = n]
    BY <1>3, <2>3 DEF Go
  <2>6. /\ sweep' \in [Sweeps -> SweepRecord] /\ sweep'[s] = n
        /\ \A r \in Sweeps \ {s} : sweep'[r] = sweep[r]
    BY <2>4, <2>5, MailTypes
  <2>7. u0 \in Recipients
    BY <1>1, <2>1 DEF SweepRecord
  <2>8. /\ sent' = [u \in Recipients |->
               IF u = u0 THEN [sent[u] EXCEPT ![c0] = Append(sent[u][c0], today)] ELSE sent[u]]
    BY <1>3, <2>1, <2>2 DEF Recorded
  <2>9. ASSUME NEW u \in Recipients, NEW c \in Campaigns, u # u0 \/ c # c0
        PROVE  sent'[u][c] = sent[u][c]
    BY <2>8, <2>9, RowTypes
  <2>10. sent'[u0][c0] = Append(sent[u0][c0], today)
    BY <2>7, <2>8, RowTypes
  <2>11. sent' \in [Recipients -> [Campaigns -> Seq(Nat)]]
    <3>1. Append(sent[u0][c0], today) \in Seq(Nat)
      BY <1>1, <2>7, RowTypes
    <3>2. [sent[u0] EXCEPT ![c0] = Append(sent[u0][c0], today)] \in [Campaigns -> Seq(Nat)]
      BY <2>7, <3>1, RowTypes
    <3> QED
      BY <2>8, <3>2, MailTypes
  <2>12. MailTyped'
    BY <1>1, <1>3, <2>6, <2>11 DEF MailInv, MailTyped
  <2>19. PICK past : past = sent[u0][c0]
    OBVIOUS
  <2>20. PICK new : new = Append(past, today)
    OBVIOUS
  <2>21. sent'[u0][c0] = new
    BY <2>10, <2>19, <2>20
  <2>22. past \in Seq(Nat) /\ Len(past) \in Nat
    BY <2>7, <2>19, RowTypes
  <2>23. MaxReminders \in Nat /\ Interval \in Nat
    BY MailTypes
  <2>13. /\ Len(new) = Len(past) + 1
         /\ new[Len(new)] = today /\ \A k \in 1..Len(past) : new[k] = past[k]
    BY <1>1, <2>20, <2>22
  <2>14. ASSUME NEW r \in Sweeps
         PROVE  SweepSound(sweep[r])'
    <3>1. CASE r = s
      <4>1. ASSUME NEW u \in p.due, c0 \notin sideBySide
            PROVE  MayWrite(u, c0)'
        <5>1. u # u0 /\ u \in Recipients /\ MayWrite(u, c0)
          BY <1>1, <2>1, <2>2, <4>1 DEF SweepSound, SweepRecord
        <5> QED
          BY <1>1, <2>9, <5>1 DEF MayWrite
      <4> QED
        BY <1>1, <2>2, <2>4, <2>6, <3>1, <4>1 DEF SweepSound
    <3>2. CASE r # s
      <4>1. sweep'[r] = sweep[r] /\ SweepSound(sweep[r])
        BY <2>6, <3>2 DEF MailInv
      <4>2. (sweep[r].step # "rest" /\ sweep[r].of \notin sideBySide) => sweep[r].of # c0
        BY <1>1, <2>2, <3>2 DEF MailInv, Sweeping
      <4>3. ASSUME NEW u \in Recipients, NEW c \in Campaigns, c # c0, MayWrite(u, c)
            PROVE  MayWrite(u, c)'
        BY <1>1, <2>9, <4>3 DEF MayWrite
      <4>4. sweep[r].due \subseteq Recipients /\ sweep[r].to \subseteq Recipients
        BY <4>1 DEF SweepSound, SweepRecord
      <4> QED
        BY <1>1, <4>1, <4>2, <4>3, <4>4 DEF SweepSound
    <3> QED
      BY <3>1, <3>2
  <2>15. ASSUME NEW a \in Sweeps, NEW b \in Sweeps \ {a},
                sweep'[a].step # "rest", sweep'[b].step # "rest", sweep'[a].of = sweep'[b].of
         PROVE  sweep'[a].of \in sideBySide'
    BY <1>1, <2>2, <2>4, <2>6, <2>15 DEF MailInv, Sweeping
  <2>16. NoneTooMany'
    <3> SUFFICES ASSUME NEW u \in Recipients, NEW c \in Campaigns \ sideBySide'
                 PROVE  /\ Len(sent'[u][c]) <= IF c = "reminder" THEN MaxReminders ELSE 1
                        /\ c = "reminder" => \A k \in 2..Len(sent'[u][c]) :
                              sent'[u][c][k] > sent'[u][c][k - 1] + Interval
      BY DEF NoneTooMany
    <3>1. /\ Len(sent[u][c]) <= IF c = "reminder" THEN MaxReminders ELSE 1
          /\ c = "reminder" => \A k \in 2..Len(sent[u][c]) :
                sent[u][c][k] > sent[u][c][k - 1] + Interval
      BY <1>1 DEF MailInv, NoneTooMany
    <3>2. CASE u # u0 \/ c # c0
      BY <2>9, <3>1, <3>2
    <3>3. CASE u = u0 /\ c = c0
      <4>1. /\ Len(past) < (IF c0 = "reminder" THEN MaxReminders ELSE 1)
            /\ (c0 = "reminder" /\ Len(past) > 0) => today > Interval + past[Len(past)]
        BY <1>1, <2>1, <2>2, <2>19, <3>3 DEF SweepSound, MayWrite
      <4>2. Len(new) <= IF c0 = "reminder" THEN MaxReminders ELSE 1
        <5>1. Len(past) + 1 <= IF c0 = "reminder" THEN MaxReminders ELSE 1
          BY <2>22, <2>23, <4>1
        <5> QED
          BY <2>13, <5>1
      <4>4. c0 = "reminder" => \A k \in 2..Len(past) : past[k] > past[k - 1] + Interval
        BY <2>19, <3>1, <3>3
      <4>3. ASSUME c0 = "reminder", NEW k \in 2..Len(new)
            PROVE  new[k] > new[k - 1] + Interval
        <5>4. k \in 2..(Len(past) + 1)
          BY <2>13, <4>3
        <5>3. k \in Int /\ 2 <= k /\ k <= Len(past) + 1
          BY <2>22, <5>4
        <5>1. CASE k = Len(past) + 1
          <6>1. Len(past) > 0 /\ k - 1 = Len(past) /\ k - 1 \in 1..Len(past)
            BY <2>22, <5>1, <5>3
          <6>4. new[k - 1] = past[Len(past)] /\ new[k] = today
            BY <2>13, <5>1, <6>1
          <6>2. today > Interval + past[Len(past)]
            BY <4>1, <4>3, <6>1
          <6>3. past[Len(past)] \in Nat
            BY <2>22, <6>1
          <6> QED
            BY <1>1, <2>23, <6>2, <6>3, <6>4
        <5>2. CASE k # Len(past) + 1
          <6>1. k \in 2..Len(past) /\ k - 1 \in 1..Len(past) /\ k \in 1..Len(past)
            BY <2>22, <5>2, <5>3
          <6>2. new[k] = past[k] /\ new[k - 1] = past[k - 1]
            BY <2>13, <6>1
          <6>3. past[k] > past[k - 1] + Interval
            BY <4>3, <4>4, <6>1
          <6> QED
            BY <6>2, <6>3
        <5> QED
          BY <5>1, <5>2
      <4> QED
        BY <2>21, <3>3, <4>2, <4>3
    <3> QED
      BY <3>2, <3>3
  <2>17. ASSUME NEW u \in Recipients, NEW c \in Campaigns
         PROVE  Tally(u, c)'
    <3>1. Tally(u, c) /\ Len(sent[u][c]) \in Nat /\ mailbox[u][c] \in Nat
      BY RowTypes DEF MailInv
    <3>2. Cardinality(ToRecord(u, c)) \in Nat /\ IsFiniteSet(ToRecord(u, c))
      BY PendingCount
    <3>3. CASE u = u0 /\ c = c0
      <4>1. ToRecord(u, c)' = ToRecord(u, c) \ {s} /\ s \in ToRecord(u, c)
        BY <1>1, <2>1, <2>2, <2>4, <2>6, <3>3 DEF ToRecord
      <4>2. Cardinality(ToRecord(u, c)') = Cardinality(ToRecord(u, c)) - 1
        BY <3>2, <4>1, FS_RemoveElement
      <4>3. Len(sent'[u][c]) = Len(sent[u][c]) + 1
        BY <2>13, <2>19, <2>21, <3>3
      <4> QED
        BY <1>1, <1>3, <3>1, <3>2, <4>2, <4>3 DEF Tally
    <3>4. CASE u # u0 \/ c # c0
      <4>1. ToRecord(u, c)' = ToRecord(u, c)
        BY <1>1, <2>1, <2>2, <2>4, <2>6, <3>4 DEF ToRecord
      <4>2. sent'[u][c] = sent[u][c]
        BY <2>9, <3>4
      <4> QED
        BY <1>1, <1>3, <3>1, <4>1, <4>2 DEF Tally
    <3> QED
      BY <3>3, <3>4
  <2>18. \A u \in Recipients : SparedAndGone(u)'
    BY <1>1 DEF MailInv, SparedAndGone
  <2> QED
    BY <2>12, <2>14, <2>15, <2>16, <2>17, <2>18 DEF MailInv, Sweeping
<1> QED
  BY <1>2, <1>3 DEF RecordLetter

\* Nobody writes, posts or loads: only what the user does, and the day.
LEMMA OthersMailInv ==
    ASSUME MailInv,
           (\E u \in Recipients : Unsubscribe(u) \/ Resubscribe(u) \/ UserActs(u)) \/ DayPasses
    PROVE  MailInv'
<1>1. UNCHANGED <<sent, mailbox, sweep, sideBySide, unrecorded>>
  BY DEF Unsubscribe, Resubscribe, UserActs, DayPasses
<1>2. today' \in Nat /\ today' >= today
  <2>1. today \in Nat
    BY MailTypes
  <2>2. today' = today \/ today' = today + 1
    BY DEF Unsubscribe, Resubscribe, UserActs, DayPasses
  <2> QED
    BY <2>1, <2>2
<1>3. /\ subscribed' \subseteq Recipients /\ DOMAIN quiet' = Recipients
      /\ \A u \in Recipients : SparedAndGone(u)'
      /\ \A s \in Sweeps : sweep[s].step # "rest" =>
            \A u \in Recipients : quiet'[u] # {} => u \notin sweep[s].willing
  <2>1. ASSUME NEW s \in Sweeps, sweep[s].step # "rest", NEW u \in Recipients, quiet[u] # {}
        PROVE  u \notin sweep[s].willing
    BY <2>1 DEF MailInv, SweepSound
  <2>2. CASE \E v \in Recipients : Unsubscribe(v)
    <3>1. PICK v \in Recipients : Unsubscribe(v)
      BY <2>2
    <3>2. v \in subscribed /\ subscribed' = subscribed \ {v}
      BY <3>1 DEF Unsubscribe
    <3>3. CASE \E s \in Sweeps : Sweeping(s)
      <4>1. quiet' = quiet
        BY <3>1, <3>3 DEF Unsubscribe
      <4> QED
        BY <1>1, <2>1, <3>2, <4>1, MailTypes DEF MailInv, SparedAndGone
    <3>4. CASE ~\E s \in Sweeps : Sweeping(s)
      <4>1. quiet' = [quiet EXCEPT ![v] = {mailbox[v]}]
        BY <3>1, <3>4 DEF Unsubscribe, AllLetters
      <4>2. /\ DOMAIN quiet' = Recipients /\ quiet'[v] = {mailbox[v]}
            /\ \A u \in Recipients : u # v => quiet'[u] = quiet[u]
        BY <4>1, MailTypes
      <4> QED
        BY <1>1, <2>1, <3>2, <3>4, <4>2, MailTypes DEF MailInv, SparedAndGone, Sweeping
    <3> QED
      BY <3>3, <3>4
  <2>3. CASE \E v \in Recipients : Resubscribe(v)
    <3>1. PICK v \in Recipients : Resubscribe(v)
      BY <2>3
    <3>2. subscribed' = subscribed \union {v} /\ quiet' = [quiet EXCEPT ![v] = {}]
      BY <3>1 DEF Resubscribe
    <3>3. /\ DOMAIN quiet' = Recipients /\ quiet'[v] = {}
          /\ \A u \in Recipients : u # v => quiet'[u] = quiet[u]
      BY <3>2, MailTypes
    <3> QED
      BY <1>1, <2>1, <3>2, <3>3, MailTypes DEF MailInv, SparedAndGone
  <2>4. CASE DayPasses \/ \E v \in Recipients : UserActs(v)
    <3>1. UNCHANGED <<subscribed, quiet>>
      BY <2>4 DEF DayPasses, UserActs
    <3> QED
      BY <1>1, <2>1, <3>1, MailTypes DEF MailInv, SparedAndGone
  <2> QED
    BY <2>2, <2>3, <2>4
<1>4. ASSUME NEW u \in Recipients, NEW c \in Campaigns, MayWrite(u, c)
      PROVE  MayWrite(u, c)'
  <2>1. /\ today \in Nat /\ Interval \in Nat /\ sent[u][c] \in Seq(Nat)
        /\ Len(sent[u][c]) \in Nat
    BY MailTypes, RowTypes
  <2>2. CASE c = "reminder" /\ Len(sent[u][c]) > 0
    <3>1. sent[u][c][Len(sent[u][c])] \in Nat
      BY <2>1, <2>2
    <3>2. today' > Interval + sent[u][c][Len(sent[u][c])]
      BY <1>2, <1>4, <2>1, <2>2, <3>1 DEF MayWrite
    <3> QED
      BY <1>1, <1>4, <3>2 DEF MayWrite
  <2>3. CASE ~(c = "reminder" /\ Len(sent[u][c]) > 0)
    BY <1>1, <1>4, <2>3 DEF MayWrite
  <2> QED
    BY <2>2, <2>3
<1>5. ASSUME NEW s \in Sweeps
      PROVE  SweepSound(sweep[s])'
  <2>1. SweepSound(sweep[s])
    BY DEF MailInv
  <2>2. sweep[s].due \subseteq Recipients /\ sweep[s].to \subseteq Recipients
    BY <2>1 DEF SweepSound, SweepRecord
  <2> QED
    BY <1>1, <1>3, <1>4, <2>1, <2>2 DEF SweepSound
<1>6. MailTyped'
  BY <1>1, <1>2, <1>3, MailTypes DEF MailTyped
<1>7. NoneTooMany' /\ \A u \in Recipients : \A c \in Campaigns : Tally(u, c)'
  BY <1>1 DEF MailInv, NoneTooMany, Tally, ToRecord
<1> QED
  BY <1>1, <1>3, <1>5, <1>6, <1>7 DEF MailInv, Sweeping

LEMMA MailStep == MailInv /\ [MailNext]_mailVars => MailInv'
<1> SUFFICES ASSUME MailInv, [MailNext]_mailVars
             PROVE  MailInv'
  OBVIOUS
<1>1. CASE UNCHANGED mailVars
  BY <1>1 DEF mailVars, MailInv, MailTyped, SweepSound, MayWrite, Sweeping, NoneTooMany, Tally,
              ToRecord, SparedAndGone
<1>2. CASE MailNext
  BY <1>2, MovesInv, PostLetterInv, RecordLetterInv, OthersMailInv DEF MailNext
<1> QED
  BY <1>1, <1>2

LEMMA MailInitInv == MailInit => MailInv
<1> SUFFICES ASSUME MailInit
             PROVE  MailInv
  OBVIOUS
<1>1. /\ today = 0 /\ subscribed = Recipients /\ unrecorded = 0 /\ sideBySide = {}
      /\ sent = [u \in Recipients |-> [c \in Campaigns |-> <<>>]]
      /\ mailbox = [u \in Recipients |-> [c \in Campaigns |-> 0]]
      /\ sweep = [s \in Sweeps |-> Resting]
      /\ quiet = [u \in Recipients |-> {}]
  BY DEF MailInit
<1>2. MailTyped
  <2>1. sent \in [Recipients -> [Campaigns -> Seq(Nat)]]
    BY <1>1
  <2>2. mailbox \in [Recipients -> [Campaigns -> Nat]]
    BY <1>1
  <2>3. sweep \in [Sweeps -> SweepRecord]
    BY <1>1, RestingSound
  <2> QED
    BY <1>1, <2>1, <2>2, <2>3 DEF MailTyped
<1>3. \A s \in Sweeps : SweepSound(sweep[s]) /\ ~Sweeping(s)
  BY <1>1, RestingSound DEF SweepSound, Sweeping
<1>4. ASSUME NEW u \in Recipients, NEW c \in Campaigns
      PROVE  Tally(u, c) /\ Len(sent[u][c]) = 0
  <2>1. ToRecord(u, c) = {}
    BY <1>1, RestingSound DEF ToRecord
  <2>2. Cardinality(ToRecord(u, c)) = 0
    BY <2>1, FS_EmptySet
  <2>3. sent[u][c] = <<>> /\ mailbox[u][c] = 0
    BY <1>1
  <2>4. Len(sent[u][c]) = 0
    BY <2>3
  <2> QED
    BY <2>2, <2>3, <2>4 DEF Tally
<1>5. NoneTooMany
  <2> SUFFICES ASSUME NEW u \in Recipients, NEW c \in Campaigns \ sideBySide
               PROVE  /\ Len(sent[u][c]) <= IF c = "reminder" THEN MaxReminders ELSE 1
                      /\ c = "reminder" => \A k \in 2..Len(sent[u][c]) :
                            sent[u][c][k] > sent[u][c][k - 1] + Interval
    BY DEF NoneTooMany
  <2>1. Len(sent[u][c]) = 0
    BY <1>4
  <2>2. MaxReminders \in Nat
    BY MailAssumption
  <2>3. 2..Len(sent[u][c]) = {}
    BY <2>1
  <2>4. Len(sent[u][c]) <= IF c = "reminder" THEN MaxReminders ELSE 1
    BY <2>1, <2>2
  <2> QED
    BY <2>3, <2>4
<1>6. \A u \in Recipients : SparedAndGone(u)
  BY <1>1 DEF SparedAndGone
<1> QED
  BY <1>2, <1>3, <1>4, <1>5, <1>6 DEF MailInv

LEMMA MailHolds == MailInv => MailIsSound
<1> SUFFICES ASSUME MailInv
             PROVE  MailIsSound
  OBVIOUS
<1>1. NoneTooMany
  BY DEF MailInv
<1>2. RowsAreLetters
  BY DEF MailInv, RowsAreLetters, Tally, ToRecord
<1>3. UnsubscribedIsSpared
  BY DEF MailInv, UnsubscribedIsSpared, SparedAndGone, AllLetters
<1> QED
  BY <1>1, <1>2, <1>3 DEF MailIsSound

-----------------------------------------------------------------------------
(* Credentials. *)

\* Whoever a request is about had an account when it was named.
VisitSound(q) ==
    /\ q \in Visit
    /\ q.step \in {"clear", "mail", "verify", "reset", "ending", "session"} => q.of # None
    /\ q.step \in {"verify", "reset", "ending"} => q.link # None
    /\ q.of # None => user[q.of] # "new"
    /\ q.step = "session" => verified[q.of]

\* What a request knows is still so, if no other request is served.
VisitAlone(q) ==
    /\ q.step = "mail" => Open(q.of, q.kind) = {}
    /\ q.step = "reset" => StillOpen(q)
    /\ q.step = "ending" => q.written
    /\ q.step \in {"session", "oauth"} =>
          IF q.of = None THEN q.password = 0
          ELSE user[q.of] = "live" /\ q.password = password[q.of]

VisitsAreSound ==
    /\ \A c \in Calls : VisitSound(visit[c])
    /\ ~met => /\ \A c \in Calls : VisitAlone(visit[c])
               /\ \A c \in Calls : \A d \in Calls \ {c} :
                     visit[c].step = "idle" \/ visit[d].step = "idle"

AccountsAreSound ==
    /\ \A a \in Accounts : user[a] = "new" => password[a] = 0
    /\ \A l \in Links : link[l] # None => user[link[l].of] = "live"
    /\ \A s \in Sessions : login[s] # None => user[login[s].of] # "new" /\ verified[login[s].of]

LinksAreSound ==
    /\ \A l \in Links : \A m \in Links \ {l} :
          (link[l] # None /\ link[m] # None /\ link[l].state = "open" /\ link[m].state = "open")
          => link[l].of # link[m].of \/ link[l].kind # link[m].kind
    /\ \A l \in Links : uses[l] <= 1
    /\ \A l \in Links : link[l] = None \/ link[l].state = "open" => uses[l] = 0

\* The password of a session is the one of its account, unless a reset is
\* between its two commits.
LoginSound(s) ==
    /\ user[login[s].of] = "live"
    /\ ~halted => \/ login[s].password = password[login[s].of]
                  \/ \E c \in Calls : /\ visit[c].step = "ending" /\ visit[c].written
                                      /\ visit[c].of = login[s].of

CredentialsInv ==
    /\ CredentialsTypeOK
    /\ VisitsAreSound
    /\ AccountsAreSound
    /\ ~met => LinksAreSound
    /\ ~met => \A s \in Sessions : login[s] # None => LoginSound(s)

LEMMA CredentialTypes ==
    ASSUME CredentialsInv
    PROVE  /\ user \in [Accounts -> Lives] /\ verified \in [Accounts -> BOOLEAN]
           /\ password \in [Accounts -> 0..MostResets]
           /\ link \in [Links -> Link \union {None}]
           /\ login \in [Sessions -> Session \union {None}]
           /\ visit \in [Calls -> Visit] /\ uses \in [Links -> Nat]
           /\ met \in BOOLEAN /\ halted \in BOOLEAN
           /\ MostResets \in Nat /\ 1 \in 0..MostResets /\ 0 \in 0..MostResets
           /\ None \notin Accounts /\ None \notin Links /\ None \notin Link
           /\ \A c \in Calls : visit[c] \in Visit /\ VisitSound(visit[c])
           /\ \A l \in Links : link[l] # None => link[l] \in Link /\ link[l].of \in Accounts
           /\ \A s \in Sessions : login[s] # None => login[s] \in Session /\ login[s].of \in Accounts
<1>1. /\ user \in [Accounts -> Lives] /\ verified \in [Accounts -> BOOLEAN]
      /\ password \in [Accounts -> 0..MostResets]
      /\ link \in [Links -> Link \union {None}]
      /\ login \in [Sessions -> Session \union {None}]
      /\ visit \in [Calls -> Visit] /\ uses \in [Links -> Nat]
      /\ met \in BOOLEAN /\ halted \in BOOLEAN
  BY DEF CredentialsInv, CredentialsTypeOK
<1>2. /\ MostResets \in Nat \ {0} /\ None \notin Accounts /\ None \notin Links /\ None \notin Link
  BY CredentialsAssumption
<1>3. MostResets \in Nat /\ 1 \in 0..MostResets /\ 0 \in 0..MostResets
  BY <1>2
<1>4. \A c \in Calls : visit[c] \in Visit /\ VisitSound(visit[c])
  BY <1>1 DEF CredentialsInv, VisitsAreSound
<1>5. \A l \in Links : link[l] # None => link[l] \in Link /\ link[l].of \in Accounts
  BY <1>1 DEF Link
<1>6. \A s \in Sessions : login[s] # None => login[s] \in Session /\ login[s].of \in Accounts
  BY <1>1 DEF Session
<1> QED
  BY <1>1, <1>2, <1>3, <1>4, <1>5, <1>6

LEMMA NoVisitSound ==
    /\ NoVisit \in Visit /\ NoVisit.step = "idle" /\ NoVisit.of = None
    /\ VisitSound(NoVisit) /\ VisitAlone(NoVisit)
<1>1. NoVisit \in Visit
  BY CredentialsAssumption DEF NoVisit, Visit, Kinds
<1>2. NoVisit.step = "idle" /\ NoVisit.of = None
  BY DEF NoVisit
<1> QED
  BY <1>1, <1>2 DEF VisitSound, VisitAlone

\* A request goes on, and no account or verification is undone.
LEMMA OneVisitMoves ==
    ASSUME CredentialsInv, NEW c \in Calls, NEW q \in Visit, visit' = [visit EXCEPT ![c] = q],
           VisitSound(q)',
           ~met' => /\ ~met /\ VisitAlone(q)'
                    /\ \A d \in Calls \ {c} : visit[d].step = "idle",
           \A a \in Accounts : user'[a] = "new" => user[a] = "new",
           \A a \in Accounts : verified[a] => verified'[a]
    PROVE  /\ VisitsAreSound' /\ visit' \in [Calls -> Visit] /\ visit'[c] = q
           /\ \A d \in Calls \ {c} : visit'[d] = visit[d]
<1>1. /\ visit' \in [Calls -> Visit] /\ visit'[c] = q
      /\ \A d \in Calls \ {c} : visit'[d] = visit[d]
  BY CredentialTypes
<1>2. ASSUME NEW d \in Calls
      PROVE  VisitSound(visit[d])'
  <2>1. CASE d = c
    BY <1>1, <2>1 DEF VisitSound
  <2>2. CASE d # c
    <3>1. VisitSound(visit[d]) /\ visit'[d] = visit[d]
      BY <1>1, <2>2, CredentialTypes
    <3>2. visit[d].of # None => visit[d].of \in Accounts
      BY <3>1 DEF VisitSound, Visit
    <3> QED
      BY <3>1, <3>2 DEF VisitSound
  <2> QED
    BY <2>1, <2>2
<1>3. ASSUME ~met', NEW d \in Calls
      PROVE  VisitAlone(visit[d])'
  <2>1. CASE d = c
    BY <1>1, <1>3, <2>1 DEF VisitAlone
  <2>2. CASE d # c
    <3>1. visit'[d].step = "idle"
      BY <1>1, <1>3, <2>2
    <3> QED
      BY <3>1 DEF VisitAlone
  <2> QED
    BY <2>1, <2>2
<1>4. ASSUME ~met', NEW d \in Calls, NEW e \in Calls \ {d}
      PROVE  visit'[d].step = "idle" \/ visit'[e].step = "idle"
  BY <1>1, <1>4
<1> QED
  BY <1>1, <1>2, <1>3, <1>4 DEF VisitsAreSound

\* With one request served at a time, the others are idle.
LEMMA OthersAreIdle ==
    ASSUME CredentialsInv, NEW c \in Calls, visit[c].step # "idle", ~met
    PROVE  /\ \A d \in Calls \ {c} : visit[d].step = "idle"
           /\ VisitAlone(visit[c])
BY DEF CredentialsInv, VisitsAreSound

\* A request begins.
LEMMA VisitBegins ==
    ASSUME CredentialsInv, NEW c \in Calls, NEW q \in Visit, Visits(c, q), VisitSound(q),
           ~met => VisitAlone(q)
    PROVE  CredentialsInv'
<1>1. /\ visit[c].step = "idle" /\ visit' = [visit EXCEPT ![c] = q]
      /\ met' = (met \/ \E d \in Calls \ {c} : visit[d].step # "idle")
      /\ UNCHANGED <<user, verified, password, link, login, uses, halted>>
  BY DEF Visits, rows
<1>2. VisitSound(q)'
  BY <1>1 DEF VisitSound
<1>3. ~met' => /\ ~met /\ VisitAlone(q)'
               /\ \A d \in Calls \ {c} : visit[d].step = "idle"
  BY <1>1 DEF VisitAlone, Open, StillOpen
<1>4. /\ VisitsAreSound' /\ visit' \in [Calls -> Visit] /\ visit'[c] = q
      /\ \A d \in Calls \ {c} : visit'[d] = visit[d]
  BY <1>1, <1>2, <1>3, OneVisitMoves
<1>5. CredentialsTypeOK'
  <2>1. met' \in BOOLEAN
    BY <1>1
  <2> QED
    BY <1>1, <1>4, <2>1, CredentialTypes DEF CredentialsTypeOK
<1>6. AccountsAreSound' /\ (~met' => LinksAreSound')
  BY <1>1, <1>3 DEF CredentialsInv, AccountsAreSound, LinksAreSound
<1>7. ASSUME ~met', NEW s \in Sessions, login'[s] # None
      PROVE  LoginSound(s)'
  <2>1. LoginSound(s)
    BY <1>1, <1>3, <1>7 DEF CredentialsInv
  <2> QED
    BY <1>1, <1>4, <2>1 DEF LoginSound
<1> QED
  BY <1>4, <1>5, <1>6, <1>7 DEF CredentialsInv

LEMMA AsksInv ==
    ASSUME CredentialsInv, NEW c \in Calls,
           \/ AskSignup(c) \/ \E kind \in Kinds : AskLink(c, kind)
           \/ AskVerify(c) \/ AskReset(c) \/ AskLogin(c) \/ AskOAuth(c)
    PROVE  CredentialsInv'
<1>1. NoVisit \in Visit /\ None \notin Accounts /\ None \notin Links
  BY NoVisitSound, CredentialTypes
<1>2. CASE AskSignup(c)
  <2>1. PICK q : q = [NoVisit EXCEPT !.step = "create"]
    OBVIOUS
  <2>2. q \in Visit /\ q.step = "create" /\ q.of = None
    BY <1>1, <2>1, NoVisitSound DEF Visit
  <2>3. VisitSound(q) /\ VisitAlone(q)
    BY <2>2 DEF VisitSound, VisitAlone
  <2> QED
    BY <1>2, <2>1, <2>2, <2>3, VisitBegins DEF AskSignup
<1>3. CASE \E kind \in Kinds : AskLink(c, kind)
  <2>1. PICK kind \in Kinds, a \in Registered :
             Visits(c, [NoVisit EXCEPT !.step = "clear", !.of = a, !.kind = kind])
    BY <1>3 DEF AskLink
  <2>2. PICK q : q = [NoVisit EXCEPT !.step = "clear", !.of = a, !.kind = kind]
    OBVIOUS
  <2>3. a \in Accounts /\ user[a] = "live"
    BY DEF Registered
  <2>4. q \in Visit /\ q.step = "clear" /\ q.of = a
    BY <1>1, <2>2, <2>3 DEF Visit
  <2>5. VisitSound(q) /\ VisitAlone(q)
    BY <1>1, <2>3, <2>4 DEF VisitSound, VisitAlone
  <2> QED
    BY <2>1, <2>2, <2>4, <2>5, VisitBegins
<1>4. CASE AskVerify(c) \/ AskReset(c)
  <2>1. PICK kind \in {"verify", "reset"}, a \in Accounts, l \in Links :
             /\ l \in Open(a, kind)
             /\ Visits(c, [NoVisit EXCEPT !.step = kind, !.of = a, !.link = l])
    <3>1. CASE AskVerify(c)
      <4>1. \E a \in Accounts : \E l \in Links :
               /\ l \in Open(a, "verify")
               /\ Visits(c, [NoVisit EXCEPT !.step = "verify", !.of = a, !.link = l])
        BY <3>1 DEF AskVerify, Open
      <4> QED
        BY <4>1
    <3>2. CASE AskReset(c)
      <4>1. \E a \in Accounts : \E l \in Links :
               /\ l \in Open(a, "reset")
               /\ Visits(c, [NoVisit EXCEPT !.step = "reset", !.of = a, !.link = l])
        BY <3>2 DEF AskReset, Open
      <4> QED
        BY <4>1
    <3> QED
      BY <1>4, <3>1, <3>2
  <2>2. PICK q : q = [NoVisit EXCEPT !.step = kind, !.of = a, !.link = l]
    OBVIOUS
  <2>3. l \in Links /\ link[l] # None /\ link[l].state = "open" /\ user[a] = "live"
    BY <2>1 DEF Open, CredentialsInv, AccountsAreSound
  <2>4. q \in Visit /\ q.step \in {"verify", "reset"} /\ q.of = a /\ q.link = l
    BY <1>1, <2>2, <2>3 DEF Visit
  <2>5. VisitSound(q) /\ VisitAlone(q)
    BY <1>1, <2>3, <2>4 DEF VisitSound, VisitAlone, StillOpen
  <2> QED
    BY <2>1, <2>2, <2>4, <2>5, VisitBegins
<1>5. CASE AskLogin(c) \/ (AskOAuth(c) /\ Registered # {})
  <2>1. PICK a \in Registered, step \in {"session", "oauth"} :
             /\ step = "session" => verified[a]
             /\ Visits(c, [NoVisit EXCEPT !.of = a, !.password = password[a], !.step = step])
    <3>1. CASE AskLogin(c)
      <4>1. PICK a \in Registered : /\ verified[a]
                                    /\ Visits(c, [NoVisit EXCEPT !.step = "session", !.of = a,
                                                      !.password = password[a]])
        BY <3>1 DEF AskLogin
      <4>2. [NoVisit EXCEPT !.step = "session", !.of = a, !.password = password[a]]
            = [NoVisit EXCEPT !.of = a, !.password = password[a], !.step = "session"]
        BY DEF NoVisit
      <4> QED
        BY <4>1, <4>2
    <3>2. CASE AskOAuth(c) /\ Registered # {}
      <4>1. PICK a \in Registered :
              Visits(c, [NoVisit EXCEPT !.of = a, !.password = password[a],
                             !.step = IF verified[a] THEN "session" ELSE "oauth"])
        BY <3>2 DEF AskOAuth
      <4>2. CASE verified[a]
        BY <4>1, <4>2
      <4>3. CASE ~verified[a]
        BY <4>1, <4>3
      <4> QED
        BY <4>2, <4>3
    <3> QED
      BY <1>5, <3>1, <3>2
  <2>2. PICK q : q = [NoVisit EXCEPT !.of = a, !.password = password[a], !.step = step]
    OBVIOUS
  <2>3. a \in Accounts /\ user[a] = "live" /\ password[a] \in 0..MostResets
    BY CredentialTypes DEF Registered
  <2>4. q \in Visit /\ q.step = step /\ q.of = a /\ q.password = password[a]
    BY <1>1, <2>2, <2>3 DEF Visit
  <2>5. VisitSound(q)
    BY <1>1, <2>1, <2>3, <2>4 DEF VisitSound
  <2>6. VisitAlone(q)
    BY <1>1, <2>3, <2>4 DEF VisitAlone
  <2> QED
    BY <2>1, <2>2, <2>4, <2>5, <2>6, VisitBegins
<1>6. CASE AskOAuth(c) /\ Registered = {}
  <2>1. PICK q : q = [NoVisit EXCEPT !.step = "oauth"]
    OBVIOUS
  <2>2. q \in Visit /\ q.step = "oauth" /\ q.of = None /\ q.password = 0
    BY <1>1, <2>1 DEF Visit, NoVisit
  <2>3. VisitSound(q) /\ VisitAlone(q)
    BY <2>2 DEF VisitSound, VisitAlone
  <2> QED
    BY <1>6, <2>1, <2>2, <2>3, VisitBegins DEF AskOAuth
<1> QED
  BY <1>2, <1>3, <1>4, <1>5, <1>6

\* A login that is not touched is as sound as it was, if its account and its
\* password are not touched and no reset has left its second commit out.
LEMMA LoginKept ==
    ASSUME CredentialsInv, NEW c \in Calls, ~met, NEW s \in Sessions, login[s] # None,
           login'[s] = login[s],
           \A d \in Calls \ {c} : visit'[d] = visit[d],
           visit[c].step # "idle",
           user'[login[s].of] = "live", password'[login[s].of] = password[login[s].of],
           ~halted' => /\ ~halted
                       /\ visit[c].step = "ending" /\ visit[c].written => visit[c].of # login[s].of
    PROVE  LoginSound(s)'
<1>1. LoginSound(s)
  BY DEF CredentialsInv
<1>2. \A d \in Calls \ {c} : visit[d].step = "idle"
  BY OthersAreIdle
<1> QED
  BY <1>1, <1>2 DEF LoginSound

LEMMA SignupInv ==
    ASSUME CredentialsInv, NEW c \in Calls, Signup(c)
    PROVE  CredentialsInv'
<1>1. PICK a \in Accounts :
        /\ user[a] = "new" /\ user' = [user EXCEPT ![a] = "live"]
        /\ password' = [password EXCEPT ![a] = 1]
        /\ visit' = [visit EXCEPT ![c] = [visit[c] EXCEPT !.step = "mail", !.of = a]]
  BY DEF Signup, GoesOn
<1>2. /\ visit[c].step = "create" /\ visit[c] \in Visit
      /\ UNCHANGED <<verified, link, login, uses, halted, met>>
  BY <1>1, CredentialTypes DEF Signup, GoesOn
<1>3. PICK q : q = [visit[c] EXCEPT !.step = "mail", !.of = a]
  OBVIOUS
<1>4. q \in Visit /\ q.step = "mail" /\ q.of = a
  BY <1>2, <1>3 DEF Visit
<1>5. /\ user' \in [Accounts -> Lives] /\ user'[a] = "live"
      /\ \A b \in Accounts : b # a => user'[b] = user[b]
      /\ password' \in [Accounts -> 0..MostResets]
      /\ \A b \in Accounts : b # a => password'[b] = password[b]
  BY <1>1, CredentialTypes DEF Lives
<1>6. VisitSound(q)'
  BY <1>4, <1>5, CredentialTypes DEF VisitSound
<1>7. \A l \in Links : link[l] # None => link[l].of # a
  BY <1>1 DEF CredentialsInv, AccountsAreSound
<1>8. ~met' => /\ ~met /\ VisitAlone(q)'
               /\ \A d \in Calls \ {c} : visit[d].step = "idle"
  BY <1>2, <1>4, <1>7, OthersAreIdle DEF VisitAlone, Open
<1>9. /\ VisitsAreSound' /\ visit' \in [Calls -> Visit] /\ visit'[c] = q
      /\ \A d \in Calls \ {c} : visit'[d] = visit[d]
  BY <1>1, <1>2, <1>3, <1>4, <1>5, <1>6, <1>8, OneVisitMoves
<1>10. CredentialsTypeOK'
  BY <1>2, <1>5, <1>9, CredentialTypes DEF CredentialsTypeOK
<1>11. AccountsAreSound'
  <2>1. \A s \in Sessions : login[s] # None => login[s].of # a /\ login[s].of \in Accounts
    BY <1>1, CredentialTypes DEF CredentialsInv, AccountsAreSound
  <2> QED
    BY <1>2, <1>5, <1>7, <2>1, CredentialTypes DEF CredentialsInv, AccountsAreSound
<1>12. ~met' => LinksAreSound'
  BY <1>2 DEF CredentialsInv, LinksAreSound
<1>13. ASSUME ~met', NEW s \in Sessions, login'[s] # None
       PROVE  LoginSound(s)'
  <2>1. login'[s] = login[s] /\ login[s] # None /\ ~met /\ login[s].of \in Accounts
    BY <1>2, <1>13, CredentialTypes
  <2>2. user[login[s].of] = "live"
    BY <2>1 DEF CredentialsInv, LoginSound
  <2>3. login[s].of # a
    BY <1>1, <2>2
  <2>4. /\ user'[login[s].of] = "live" /\ password'[login[s].of] = password[login[s].of]
    BY <1>5, <2>1, <2>2, <2>3
  <2> QED
    BY <1>2, <1>9, <2>1, <2>4, LoginKept
<1> QED
  BY <1>9, <1>10, <1>11, <1>12, <1>13 DEF CredentialsInv

\* Nothing but links and the request changes.
LEMMA LinksMove ==
    ASSUME CredentialsInv, NEW c \in Calls, NEW q \in Visit,
           visit[c].step # "idle", visit[c].step # "ending",
           visit' = [visit EXCEPT ![c] = q], VisitSound(q), ~met => VisitAlone(q)',
           UNCHANGED <<user, password, login, met, halted>>,
           verified' \in [Accounts -> BOOLEAN], \A a \in Accounts : verified[a] => verified'[a],
           link' \in [Links -> Link \union {None}], uses' \in [Links -> Nat],
           \A l \in Links : link'[l] # None => user[link'[l].of] = "live",
           ~met => LinksAreSound'
    PROVE  CredentialsInv'
<1>1. VisitSound(q)'
  <2>1. q.of # None => q.of \in Accounts
    BY DEF Visit
  <2> QED
    BY <2>1 DEF VisitSound
<1>2. ~met' => /\ ~met /\ VisitAlone(q)'
               /\ \A d \in Calls \ {c} : visit[d].step = "idle"
  BY OthersAreIdle
<1>3. /\ VisitsAreSound' /\ visit' \in [Calls -> Visit] /\ visit'[c] = q
      /\ \A d \in Calls \ {c} : visit'[d] = visit[d]
  BY <1>1, <1>2, OneVisitMoves
<1>4. CredentialsTypeOK'
  BY <1>3, CredentialTypes DEF CredentialsTypeOK
<1>5. AccountsAreSound'
  BY CredentialTypes DEF CredentialsInv, AccountsAreSound
<1>6. ASSUME ~met', NEW s \in Sessions, login'[s] # None
      PROVE  LoginSound(s)'
  <2>1. /\ ~met /\ login[s] # None /\ user'[login[s].of] = "live" /\ login'[s] = login[s]
        /\ password'[login[s].of] = password[login[s].of]
    BY <1>6 DEF CredentialsInv, LoginSound
  <2> QED
    BY <1>3, <2>1, LoginKept
<1> QED
  BY <1>3, <1>4, <1>5, <1>6 DEF CredentialsInv

LEMMA LinkMarked ==
    ASSUME CredentialsInv, NEW q, q.link \in Links, MarkTokenVerified(q)
    PROVE  /\ link' \in [Links -> Link \union {None}]
           /\ \A l \in Links : l # q.link => link'[l] = link[l]
           /\ \A l \in Links : link'[l] # None =>
                 /\ link[l] # None /\ link'[l].of = link[l].of /\ link'[l].kind = link[l].kind
                 /\ link'[l].state = "open" => link[l].state = "open"
           /\ \A l \in Links : link'[l] = None => link[l] = None
           /\ StillOpen(q) => link'[q.link] # None /\ link'[q.link].state = "used"
           /\ ~StillOpen(q) => link' = link
<1>1. /\ link \in [Links -> Link \union {None}] /\ None \notin Link
      /\ \A l \in Links : link[l] # None => link[l] \in Link
  BY CredentialTypes
<1>2. CASE StillOpen(q)
  <2>1. link[q.link] \in Link
    BY <1>1, <1>2 DEF StillOpen
  <2>2. PICK n : n = [link[q.link] EXCEPT !.state = "used"]
    OBVIOUS
  <2>3. /\ n \in Link /\ n.state = "used" /\ n.of = link[q.link].of /\ n.kind = link[q.link].kind
    BY <2>1, <2>2 DEF Link
  <2>4. link' = [link EXCEPT ![q.link] = n]
    BY <1>2, <2>2 DEF MarkTokenVerified
  <2>5. /\ link' \in [Links -> Link \union {None}] /\ link'[q.link] = n
        /\ \A l \in Links : l # q.link => link'[l] = link[l]
    BY <1>1, <2>3, <2>4
  <2> QED
    BY <1>1, <1>2, <2>1, <2>3, <2>5
<1>3. CASE ~StillOpen(q)
  <2>1. link' = link
    BY <1>3 DEF MarkTokenVerified
  <2> QED
    BY <1>1, <1>3, <2>1
<1> QED
  BY <1>2, <1>3

LEMMA InvalidateUserTokensInv ==
    ASSUME CredentialsInv, NEW c \in Calls, InvalidateUserTokens(c)
    PROVE  CredentialsInv'
<1> DEFINE v == visit[c]
<1>1. /\ v.step = "clear" /\ v \in Visit /\ VisitSound(v)
      /\ link' = [l \in Links |-> IF l \in Open(v.of, v.kind) THEN None ELSE link[l]]
      /\ uses' = [l \in Links |-> IF l \in Open(v.of, v.kind) THEN 0 ELSE uses[l]]
      /\ visit' = [visit EXCEPT ![c] = [v EXCEPT !.step = "mail"]]
      /\ UNCHANGED <<user, verified, password, login, halted, met>>
  BY CredentialTypes DEF InvalidateUserTokens, Steps, GoesOn
<1>2. PICK q : q = [v EXCEPT !.step = "mail"]
  OBVIOUS
<1>3. q \in Visit /\ q.step = "mail" /\ q.of = v.of /\ q.kind = v.kind
  BY <1>1, <1>2 DEF Visit
<1>4. VisitSound(q)
  BY <1>1, <1>3 DEF VisitSound
<1>5. \A l \in Links : /\ l \in Open(v.of, v.kind) => link'[l] = None /\ uses'[l] = 0
                       /\ l \notin Open(v.of, v.kind) => link'[l] = link[l] /\ uses'[l] = uses[l]
  BY <1>1
<1>6. VisitAlone(q)'
  BY <1>3, <1>5 DEF VisitAlone, Open
<1>7. /\ link' \in [Links -> Link \union {None}] /\ uses' \in [Links -> Nat]
  BY <1>1, CredentialTypes
<1>8. \A l \in Links : link'[l] # None => user[link'[l].of] = "live"
  BY <1>5 DEF CredentialsInv, AccountsAreSound
<1>9. ~met => LinksAreSound'
  BY <1>5 DEF CredentialsInv, LinksAreSound
<1> QED
  BY <1>1, <1>2, <1>3, <1>4, <1>6, <1>7, <1>8, <1>9, CredentialTypes, LinksMove

LEMMA CreateVerificationTokenInv ==
    ASSUME CredentialsInv, NEW c \in Calls, CreateVerificationToken(c)
    PROVE  CredentialsInv'
<1> DEFINE v == visit[c]
<1>1. PICK k \in Links : /\ link[k] = None
                         /\ link' = [link EXCEPT ![k] =
                                        [state |-> "open", kind |-> v.kind, of |-> v.of]]
  BY DEF CreateVerificationToken
<1>2. /\ v.step = "mail" /\ v \in Visit /\ VisitSound(v) /\ user[v.of] = "live"
      /\ visit' = [visit EXCEPT ![c] = NoVisit]
      /\ UNCHANGED <<user, verified, password, login, halted, met, uses>>
  BY CredentialTypes DEF CreateVerificationToken, Leaves, GoesOn
<1>3. PICK n : n = [state |-> "open", kind |-> v.kind, of |-> v.of]
  OBVIOUS
<1>4. v.of \in Accounts /\ v.kind \in Kinds
  BY <1>2 DEF VisitSound, Visit
<1>5. n \in Link /\ n.kind = v.kind /\ n.of = v.of
  BY <1>3, <1>4 DEF Link
<1>6. /\ link' \in [Links -> Link \union {None}] /\ link'[k] = n
      /\ \A l \in Links : l # k => link'[l] = link[l]
  BY <1>1, <1>3, <1>5, CredentialTypes
<1>7. \A l \in Links : link'[l] # None => user[link'[l].of] = "live"
  BY <1>2, <1>5, <1>6 DEF CredentialsInv, AccountsAreSound
<1>8. ASSUME ~met
      PROVE  LinksAreSound'
  <2>1. Open(v.of, v.kind) = {} /\ LinksAreSound
    BY <1>2, <1>8, OthersAreIdle DEF VisitAlone, CredentialsInv
  <2>2. uses[k] = 0
    BY <1>1, <2>1 DEF LinksAreSound
  <2>3. \A l \in Links : l # k /\ link[l] # None /\ link[l].state = "open" =>
                            link[l].of # v.of \/ link[l].kind # v.kind
    BY <2>1 DEF Open
  <2>4. \A l \in Links : \A m \in Links \ {l} :
          (link'[l] # None /\ link'[m] # None /\ link'[l].state = "open" /\ link'[m].state = "open")
          => link'[l].of # link'[m].of \/ link'[l].kind # link'[m].kind
    <3> SUFFICES ASSUME NEW l \in Links, NEW m \in Links \ {l},
                        link'[l] # None, link'[m] # None,
                        link'[l].state = "open", link'[m].state = "open"
                 PROVE  link'[l].of # link'[m].of \/ link'[l].kind # link'[m].kind
      OBVIOUS
    <3>1. CASE l = k
      BY <1>5, <1>6, <2>3, <3>1
    <3>2. CASE m = k
      BY <1>5, <1>6, <2>3, <3>2
    <3>3. CASE l # k /\ m # k
      BY <1>6, <2>1, <3>3 DEF LinksAreSound
    <3> QED
      BY <3>1, <3>2, <3>3
  <2>5. \A l \in Links : uses'[l] <= 1 /\ (link'[l] = None \/ link'[l].state = "open" => uses'[l] = 0)
    <3> SUFFICES ASSUME NEW l \in Links
                 PROVE  uses'[l] <= 1 /\ (link'[l] = None \/ link'[l].state = "open" => uses'[l] = 0)
      OBVIOUS
    <3>1. CASE l = k
      BY <1>2, <2>2, <3>1
    <3>2. CASE l # k
      BY <1>2, <1>6, <2>1, <3>2 DEF LinksAreSound
    <3> QED
      BY <3>1, <3>2
  <2> QED
    BY <2>4, <2>5 DEF LinksAreSound
<1>9. VisitAlone(NoVisit)'
  BY NoVisitSound DEF VisitAlone
<1> QED
  BY <1>2, <1>6, <1>7, <1>8, <1>9, CredentialTypes, NoVisitSound, LinksMove

LEMMA VerifyEmailInv ==
    ASSUME CredentialsInv, NEW c \in Calls, VerifyEmail(c)
    PROVE  CredentialsInv'
<1> DEFINE v == visit[c]
<1>1. /\ v.step = "verify" /\ v \in Visit /\ VisitSound(v)
      /\ verified' = [verified EXCEPT ![v.of] = TRUE]
      /\ MarkTokenVerified(v)
      /\ visit' = [visit EXCEPT ![c] = NoVisit]
      /\ UNCHANGED <<user, password, login, uses, halted, met>>
  BY CredentialTypes DEF VerifyEmail, Leaves, GoesOn
<1>2. v.link \in Links
  BY <1>1 DEF VisitSound, Visit
<1>3. /\ link' \in [Links -> Link \union {None}]
      /\ \A l \in Links : link'[l] # None =>
            /\ link[l] # None /\ link'[l].of = link[l].of /\ link'[l].kind = link[l].kind
            /\ link'[l].state = "open" => link[l].state = "open"
      /\ \A l \in Links : link'[l] = None => link[l] = None
  BY <1>1, <1>2, LinkMarked
<1>4. /\ verified' \in [Accounts -> BOOLEAN]
      /\ \A a \in Accounts : verified[a] => verified'[a]
  BY <1>1, CredentialTypes
<1>5. \A l \in Links : link'[l] # None => user[link'[l].of] = "live"
  BY <1>3 DEF CredentialsInv, AccountsAreSound
<1>6. ~met => LinksAreSound'
  BY <1>1, <1>3 DEF CredentialsInv, LinksAreSound
<1>7. VisitAlone(NoVisit)'
  BY NoVisitSound DEF VisitAlone
<1> QED
  BY <1>1, <1>3, <1>4, <1>5, <1>6, <1>7, CredentialTypes, NoVisitSound, LinksMove

\* The password changes with the link or, if the link is gone by then, later.
LEMMA ResetPasswordInv ==
    ASSUME CredentialsInv, NEW c \in Calls, ResetPassword(c)
    PROVE  CredentialsInv'
<1> DEFINE v == visit[c]
<1>1. /\ v.step = "reset" /\ v \in Visit /\ VisitSound(v) /\ user[v.of] = "live"
      /\ MarkTokenVerified(v)
      /\ \/ StillOpen(v) /\ NewPassword(v)
         \/ ~StillOpen(v) /\ UNCHANGED <<password, uses>>
      /\ visit' = [visit EXCEPT ![c] = [v EXCEPT !.step = "ending", !.written = StillOpen(v)]]
      /\ UNCHANGED <<user, verified, login, halted, met>>
  BY CredentialTypes DEF ResetPassword, GoesOn
<1>2. PICK w : w = StillOpen(v)
  OBVIOUS
<1>3. w \in BOOLEAN
  BY <1>2 DEF StillOpen
<1>4. PICK q : q = [v EXCEPT !.step = "ending", !.written = w]
  OBVIOUS
<1>5. /\ q \in Visit /\ q.step = "ending" /\ q.of = v.of /\ q.link = v.link /\ q.written = w
  BY <1>1, <1>3, <1>4 DEF Visit
<1>6. VisitSound(q)'
  BY <1>1, <1>5 DEF VisitSound
<1>7. ~met => w /\ \A d \in Calls \ {c} : visit[d].step = "idle"
  BY <1>1, <1>2, OthersAreIdle DEF VisitAlone
<1>8. ~met' => /\ ~met /\ VisitAlone(q)'
               /\ \A d \in Calls \ {c} : visit[d].step = "idle"
  BY <1>1, <1>5, <1>7 DEF VisitAlone
<1>9. /\ VisitsAreSound' /\ visit' \in [Calls -> Visit] /\ visit'[c] = q
      /\ \A d \in Calls \ {c} : visit'[d] = visit[d]
  BY <1>1, <1>2, <1>4, <1>5, <1>6, <1>8, OneVisitMoves
<1>10. v.link \in Links /\ v.of \in Accounts
  BY <1>1 DEF VisitSound, Visit
<1>11. /\ link' \in [Links -> Link \union {None}]
       /\ \A l \in Links : l # v.link => link'[l] = link[l]
       /\ \A l \in Links : link'[l] # None =>
             /\ link[l] # None /\ link'[l].of = link[l].of /\ link'[l].kind = link[l].kind
             /\ link'[l].state = "open" => link[l].state = "open"
       /\ \A l \in Links : link'[l] = None => link[l] = None
       /\ StillOpen(v) => link'[v.link] # None /\ link'[v.link].state = "used"
       /\ ~StillOpen(v) => link' = link
  BY <1>1, <1>10, LinkMarked
<1>12. /\ password' \in [Accounts -> 0..MostResets] /\ uses' \in [Links -> Nat]
       /\ \A a \in Accounts : a # v.of => password'[a] = password[a]
       /\ \A l \in Links : l # v.link => uses'[l] = uses[l]
       /\ w => uses'[v.link] = uses[v.link] + 1
  <2>1. CASE w
    BY <1>1, <1>2, <1>10, <2>1, CredentialTypes DEF NewPassword
  <2>2. CASE ~w
    BY <1>1, <1>2, <2>2, CredentialTypes
  <2> QED
    BY <1>3, <2>1, <2>2
<1>13. CredentialsTypeOK'
  BY <1>1, <1>9, <1>11, <1>12, CredentialTypes DEF CredentialsTypeOK
<1>14. AccountsAreSound'
  BY <1>1, <1>11, <1>12 DEF CredentialsInv, AccountsAreSound
<1>15. ASSUME ~met'
       PROVE  LinksAreSound'
  <2>1. LinksAreSound /\ StillOpen(v)
    BY <1>1, <1>2, <1>7, <1>15 DEF CredentialsInv
  <2>2. uses[v.link] = 0
    BY <1>10, <2>1 DEF LinksAreSound, StillOpen
  <2>3. uses'[v.link] = 1
    BY <1>2, <1>12, <2>1, <2>2
  <2>4. \A l \in Links : uses'[l] <= 1 /\ (link'[l] = None \/ link'[l].state = "open" => uses'[l] = 0)
    <3> SUFFICES ASSUME NEW l \in Links
                 PROVE  uses'[l] <= 1 /\ (link'[l] = None \/ link'[l].state = "open" => uses'[l] = 0)
      OBVIOUS
    <3>1. CASE l = v.link
      BY <1>11, <2>1, <2>3, <3>1
    <3>2. CASE l # v.link
      BY <1>11, <1>12, <2>1, <3>2 DEF LinksAreSound
    <3> QED
      BY <3>1, <3>2
  <2>5. \A l \in Links : \A m \in Links \ {l} :
          (link'[l] # None /\ link'[m] # None /\ link'[l].state = "open" /\ link'[m].state = "open")
          => link'[l].of # link'[m].of \/ link'[l].kind # link'[m].kind
    BY <1>11, <2>1 DEF LinksAreSound
  <2> QED
    BY <2>4, <2>5 DEF LinksAreSound
<1>16. ASSUME ~met', NEW s \in Sessions, login'[s] # None
       PROVE  LoginSound(s)'
  <2>1. login'[s] = login[s] /\ login[s] # None /\ ~met /\ login[s].of \in Accounts
    BY <1>1, <1>16, CredentialTypes
  <2>2. user'[login[s].of] = "live"
    BY <1>1, <2>1 DEF CredentialsInv, LoginSound
  <2>3. CASE login[s].of = v.of
    <3>1. visit'[c].step = "ending" /\ visit'[c].written /\ visit'[c].of = login'[s].of
      BY <1>5, <1>7, <1>9, <2>1, <2>3
    <3> QED
      BY <2>1, <2>2, <3>1 DEF LoginSound
  <2>4. CASE login[s].of # v.of
    <3>1. password'[login[s].of] = password[login[s].of]
      BY <1>12, <2>1, <2>4
    <3> QED
      BY <1>1, <1>9, <2>1, <2>2, <3>1, LoginKept
  <2> QED
    BY <2>3, <2>4
<1> QED
  BY <1>9, <1>13, <1>14, <1>15, <1>16 DEF CredentialsInv

LEMMA DropIs ==
    ASSUME CredentialsInv, NEW ss, Drop(ss)
    PROVE  /\ login' \in [Sessions -> Session \union {None}]
           /\ \A s \in Sessions : login'[s] # None => s \notin ss /\ login'[s] = login[s]
BY CredentialTypes DEF Drop

\* The second commit ends the sessions of the old password.
LEMMA EndSessionsInv ==
    ASSUME CredentialsInv, NEW c \in Calls, EndSessions(c)
    PROVE  CredentialsInv'
<1> DEFINE v == visit[c]
<1>1. /\ v.step = "ending" /\ v \in Visit /\ VisitSound(v)
      /\ IF v.written THEN UNCHANGED <<password, uses>> ELSE NewPassword(v)
      /\ Drop(SessionsOf(v.of))
      /\ visit' = [visit EXCEPT ![c] = NoVisit]
      /\ UNCHANGED <<user, verified, link, halted, met>>
  BY CredentialTypes DEF EndSessions, Leaves, GoesOn
<1>2. v.link \in Links /\ v.of \in Accounts /\ user[v.of] # "new"
  BY <1>1 DEF VisitSound, Visit
<1>3. ~met => v.written /\ \A d \in Calls \ {c} : visit[d].step = "idle"
  BY <1>1, OthersAreIdle DEF VisitAlone
<1>4. VisitSound(NoVisit)' /\ VisitAlone(NoVisit)'
  BY NoVisitSound DEF VisitSound, VisitAlone
<1>5. /\ VisitsAreSound' /\ visit' \in [Calls -> Visit] /\ visit'[c] = NoVisit
      /\ \A d \in Calls \ {c} : visit'[d] = visit[d]
  BY <1>1, <1>3, <1>4, NoVisitSound, OneVisitMoves
<1>6. /\ password' \in [Accounts -> 0..MostResets] /\ uses' \in [Links -> Nat]
      /\ \A a \in Accounts : a # v.of => password'[a] = password[a]
  <2>1. CASE ~v.written
    BY <1>1, <1>2, <2>1, CredentialTypes DEF NewPassword
  <2>2. CASE v.written
    BY <1>1, <2>2, CredentialTypes
  <2> QED
    BY <2>1, <2>2
<1>7. /\ login' \in [Sessions -> Session \union {None}]
      /\ \A s \in Sessions : login'[s] # None => s \notin SessionsOf(v.of) /\ login'[s] = login[s]
  BY <1>1, DropIs
<1>8. CredentialsTypeOK'
  BY <1>1, <1>5, <1>6, <1>7, CredentialTypes DEF CredentialsTypeOK
<1>9. AccountsAreSound'
  BY <1>1, <1>2, <1>6, <1>7 DEF CredentialsInv, AccountsAreSound
<1>10. ~met' => LinksAreSound'
  BY <1>1, <1>3 DEF CredentialsInv, LinksAreSound
<1>11. ASSUME ~met', NEW s \in Sessions, login'[s] # None
       PROVE  LoginSound(s)'
  <2>1. login'[s] = login[s] /\ login[s] # None /\ ~met /\ login[s].of # v.of
    BY <1>1, <1>7, <1>11 DEF SessionsOf
  <2>2. user'[login[s].of] = "live" /\ password'[login[s].of] = password[login[s].of]
    BY <1>1, <1>3, <2>1 DEF CredentialsInv, LoginSound
  <2> QED
    BY <1>1, <1>5, <2>1, <2>2, LoginKept
<1> QED
  BY <1>5, <1>8, <1>9, <1>10, <1>11 DEF CredentialsInv

\* An account that Google or GitHub vouches for is there, and verified.
LEMMA CreateOrGetUserInv ==
    ASSUME CredentialsInv, NEW c \in Calls, CreateOrGetUser(c)
    PROVE  CredentialsInv'
<1> DEFINE v == visit[c]
<1>1. /\ v.step = "oauth" /\ v \in Visit /\ VisitSound(v)
      /\ UNCHANGED <<password, link, login, uses, halted, met>>
  BY CredentialTypes DEF CreateOrGetUser, GoesOn, Steps
<1>2. PICK a \in Accounts :
        /\ \/ v.of = None /\ user[a] = "new" /\ user' = [user EXCEPT ![a] = "live"]
           \/ v.of = a /\ user[a] = "live" /\ user' = user
        /\ verified' = [verified EXCEPT ![a] = TRUE]
        /\ visit' = [visit EXCEPT ![c] = [v EXCEPT !.step = "session", !.of = a]]
  <2>1. CASE \E a \in Accounts :
                /\ v.of = None /\ user[a] = "new" /\ user' = [user EXCEPT ![a] = "live"]
                /\ verified' = [verified EXCEPT ![a] = TRUE]
                /\ visit' = [visit EXCEPT ![c] = [v EXCEPT !.step = "session", !.of = a]]
    BY <2>1
  <2>2. CASE /\ v.of \in Registered /\ verified' = [verified EXCEPT ![v.of] = TRUE]
             /\ visit' = [visit EXCEPT ![c] = [v EXCEPT !.step = "session"]]
             /\ UNCHANGED user
    <3>1. v.of \in Accounts /\ user[v.of] = "live"
      BY <2>2 DEF Registered
    <3>2. [v EXCEPT !.step = "session"] = [v EXCEPT !.step = "session", !.of = v.of]
      BY <1>1 DEF Visit
    <3> QED
      BY <2>2, <3>1, <3>2
  <2> QED
    BY <2>1, <2>2 DEF CreateOrGetUser, GoesOn, Steps
<1>3. PICK q : q = [v EXCEPT !.step = "session", !.of = a]
  OBVIOUS
<1>4. /\ q \in Visit /\ q.step = "session" /\ q.of = a /\ q.password = v.password
  BY <1>1, <1>3 DEF Visit
<1>5. /\ user' \in [Accounts -> Lives] /\ user'[a] = "live"
      /\ \A b \in Accounts : b # a => user'[b] = user[b]
      /\ verified' \in [Accounts -> BOOLEAN] /\ verified'[a]
      /\ \A b \in Accounts : verified[b] => verified'[b]
  BY <1>2, CredentialTypes DEF Lives
<1>6. VisitSound(q)'
  BY <1>4, <1>5, CredentialTypes DEF VisitSound
<1>7. ASSUME ~met'
      PROVE  /\ ~met /\ VisitAlone(q)'
             /\ \A d \in Calls \ {c} : visit[d].step = "idle"
  <2>1. ~met /\ VisitAlone(v) /\ \A d \in Calls \ {c} : visit[d].step = "idle"
    BY <1>1, <1>7, OthersAreIdle
  <2>2. user[a] = "new" => password[a] = 0
    BY DEF CredentialsInv, AccountsAreSound
  <2>3. v.password = password[a]
    BY <1>1, <1>2, <2>1, <2>2, CredentialTypes DEF VisitAlone
  <2>5. a # None /\ q.password = password'[a]
    BY <1>1, <1>4, <2>3, CredentialTypes
  <2>4. VisitAlone(q)'
    BY <1>4, <1>5, <2>5 DEF VisitAlone
  <2> QED
    BY <2>1, <2>4
<1>8. /\ VisitsAreSound' /\ visit' \in [Calls -> Visit] /\ visit'[c] = q
      /\ \A d \in Calls \ {c} : visit'[d] = visit[d]
  BY <1>2, <1>3, <1>4, <1>5, <1>6, <1>7, OneVisitMoves
<1>9. CredentialsTypeOK'
  BY <1>1, <1>5, <1>8, CredentialTypes DEF CredentialsTypeOK
<1>10. AccountsAreSound'
  BY <1>1, <1>5, CredentialTypes DEF CredentialsInv, AccountsAreSound
<1>11. ~met' => LinksAreSound'
  BY <1>1 DEF CredentialsInv, LinksAreSound
<1>12. ASSUME ~met', NEW s \in Sessions, login'[s] # None
       PROVE  LoginSound(s)'
  <2>1. login'[s] = login[s] /\ login[s] # None /\ ~met /\ login[s].of \in Accounts
    BY <1>1, <1>12, CredentialTypes
  <2>2. user[login[s].of] = "live"
    BY <2>1 DEF CredentialsInv, LoginSound
  <2>3. user'[login[s].of] = "live" /\ password'[login[s].of] = password[login[s].of]
    BY <1>1, <1>5, <2>1, <2>2
  <2> QED
    BY <1>1, <1>8, <2>1, <2>3, LoginKept
<1> QED
  BY <1>8, <1>9, <1>10, <1>11, <1>12 DEF CredentialsInv

LEMMA CreateRefreshTokenInv ==
    ASSUME CredentialsInv, NEW c \in Calls, CreateRefreshToken(c)
    PROVE  CredentialsInv'
<1> DEFINE v == visit[c]
<1>1. /\ v.step = "session" /\ v \in Visit /\ VisitSound(v)
      /\ visit' = [visit EXCEPT ![c] = NoVisit]
      /\ UNCHANGED <<user, verified, password, link, uses, halted, met>>
  BY CredentialTypes DEF CreateRefreshToken, Leaves, GoesOn
<1>2. PICK t \in Sessions : login' = [login EXCEPT ![t] = [of |-> v.of, password |-> v.password]]
  BY DEF CreateRefreshToken
<1>3. PICK n : n = [of |-> v.of, password |-> v.password]
  OBVIOUS
<1>4. /\ v.of \in Accounts /\ v.password \in 0..MostResets /\ v.of # None
      /\ user[v.of] # "new" /\ verified[v.of]
  BY <1>1 DEF VisitSound, Visit
<1>5. n \in Session /\ n.of = v.of /\ n.password = v.password
  BY <1>3, <1>4 DEF Session
<1>6. /\ login' \in [Sessions -> Session \union {None}] /\ login'[t] = n
      /\ \A s \in Sessions : s # t => login'[s] = login[s]
  BY <1>2, <1>3, <1>5, CredentialTypes
<1>7. ~met => VisitAlone(v) /\ \A d \in Calls \ {c} : visit[d].step = "idle"
  BY <1>1, OthersAreIdle
<1>8. VisitSound(NoVisit)' /\ VisitAlone(NoVisit)'
  BY NoVisitSound DEF VisitSound, VisitAlone
<1>9. /\ VisitsAreSound' /\ visit' \in [Calls -> Visit] /\ visit'[c] = NoVisit
      /\ \A d \in Calls \ {c} : visit'[d] = visit[d]
  BY <1>1, <1>7, <1>8, NoVisitSound, OneVisitMoves
<1>10. CredentialsTypeOK'
  BY <1>1, <1>6, <1>9, CredentialTypes DEF CredentialsTypeOK
<1>11. AccountsAreSound'
  BY <1>1, <1>4, <1>5, <1>6 DEF CredentialsInv, AccountsAreSound
<1>12. ~met' => LinksAreSound'
  BY <1>1 DEF CredentialsInv, LinksAreSound
<1>13. ASSUME ~met', NEW s \in Sessions, login'[s] # None
       PROVE  LoginSound(s)'
  <2>1. CASE s = t
    <3>1. user[v.of] = "live" /\ v.password = password[v.of]
      BY <1>1, <1>4, <1>7, <1>13 DEF VisitAlone
    <3> QED
      BY <1>1, <1>5, <1>6, <2>1, <3>1 DEF LoginSound
  <2>2. CASE s # t
    <3>1. login'[s] = login[s] /\ login[s] # None /\ ~met
      BY <1>1, <1>6, <1>13, <2>2
    <3>2. user'[login[s].of] = "live" /\ password'[login[s].of] = password[login[s].of]
      BY <1>1, <3>1 DEF CredentialsInv, LoginSound
    <3> QED
      BY <1>1, <1>9, <3>1, <3>2, LoginKept
  <2> QED
    BY <2>1, <2>2
<1> QED
  BY <1>9, <1>10, <1>11, <1>12, <1>13 DEF CredentialsInv

LEMMA VisitLostInv ==
    ASSUME CredentialsInv, NEW c \in Calls, VisitLost(c)
    PROVE  CredentialsInv'
<1> DEFINE v == visit[c]
<1>1. /\ v.step # "idle" /\ v \in Visit
      /\ halted' = (halted \/ (v.step = "ending" /\ v.written))
      /\ visit' = [visit EXCEPT ![c] = NoVisit]
      /\ UNCHANGED <<user, verified, password, link, login, uses, met>>
  BY CredentialTypes DEF VisitLost, Leaves, GoesOn
<1>2. ~met => \A d \in Calls \ {c} : visit[d].step = "idle"
  BY <1>1, OthersAreIdle
<1>3. VisitSound(NoVisit)' /\ VisitAlone(NoVisit)'
  BY NoVisitSound DEF VisitSound, VisitAlone
<1>4. /\ VisitsAreSound' /\ visit' \in [Calls -> Visit] /\ visit'[c] = NoVisit
      /\ \A d \in Calls \ {c} : visit'[d] = visit[d]
  BY <1>1, <1>2, <1>3, NoVisitSound, OneVisitMoves
<1>5. CredentialsTypeOK'
  <2>1. halted' \in BOOLEAN
    BY <1>1
  <2> QED
    BY <1>1, <1>4, <2>1, CredentialTypes DEF CredentialsTypeOK
<1>6. AccountsAreSound' /\ (~met' => LinksAreSound')
  BY <1>1 DEF CredentialsInv, AccountsAreSound, LinksAreSound
<1>7. ASSUME ~met', NEW s \in Sessions, login'[s] # None
      PROVE  LoginSound(s)'
  <2>1. login'[s] = login[s] /\ login[s] # None /\ ~met
    BY <1>1, <1>7
  <2>2. user'[login[s].of] = "live" /\ password'[login[s].of] = password[login[s].of]
    BY <1>1, <2>1 DEF CredentialsInv, LoginSound
  <2> QED
    BY <1>1, <1>4, <2>1, <2>2, LoginKept
<1> QED
  BY <1>4, <1>5, <1>6, <1>7 DEF CredentialsInv

\* What one step ends: some sessions, and perhaps the account and its links.
LEMMA LogoutInv ==
    ASSUME CredentialsInv,
           \/ \E a \in Accounts : Logout(a)
           \/ \E s \in Sessions : RefreshAccessToken(s)
    PROVE  CredentialsInv'
<1>1. PICK ss : Drop(ss)
  BY DEF Logout, RefreshAccessToken
<1>2. /\ UNCHANGED <<user, verified, password, link, visit, uses, halted>>
      /\ met' \in BOOLEAN /\ (~met' => ~met)
  <2>1. CASE \E a \in Accounts : Logout(a)
    BY <2>1 DEF Logout, Meets
  <2>2. CASE \E s \in Sessions : RefreshAccessToken(s)
    BY <2>2, CredentialTypes DEF RefreshAccessToken
  <2> QED
    BY <2>1, <2>2
<1>3. /\ login' \in [Sessions -> Session \union {None}]
      /\ \A s \in Sessions : login'[s] # None => login'[s] = login[s]
  BY <1>1, DropIs
<1>4. CredentialsTypeOK'
  BY <1>2, <1>3, CredentialTypes DEF CredentialsTypeOK
<1>5. VisitsAreSound'
  BY <1>2 DEF CredentialsInv, VisitsAreSound, VisitSound, VisitAlone, Open, StillOpen
<1>6. AccountsAreSound' /\ (~met' => LinksAreSound')
  BY <1>2, <1>3 DEF CredentialsInv, AccountsAreSound, LinksAreSound
<1>7. ~met' => \A s \in Sessions : login'[s] # None => LoginSound(s)'
  BY <1>2, <1>3 DEF CredentialsInv, LoginSound
<1> QED
  BY <1>4, <1>5, <1>6, <1>7 DEF CredentialsInv

LEMMA CloseAccountInv ==
    ASSUME CredentialsInv, NEW a \in Accounts, CloseAccount(a)
    PROVE  CredentialsInv'
<1>1. /\ user' = [user EXCEPT ![a] = "gone"]
      /\ link' = [l \in Links |-> IF link[l] # None /\ link[l].of = a THEN None ELSE link[l]]
      /\ uses' = [l \in Links |-> IF link'[l] = None THEN 0 ELSE uses[l]]
      /\ Drop(SessionsOf(a))
      /\ met' = (met \/ \E c \in Calls : visit[c].step # "idle")
      /\ UNCHANGED <<verified, password, visit, halted>>
  BY DEF CloseAccount, Meets
<1>2. /\ login' \in [Sessions -> Session \union {None}]
      /\ \A s \in Sessions : login'[s] # None => s \notin SessionsOf(a) /\ login'[s] = login[s]
  BY <1>1, DropIs
<1>3. /\ user' \in [Accounts -> Lives] /\ user'[a] = "gone"
      /\ \A b \in Accounts : b # a => user'[b] = user[b]
      /\ link' \in [Links -> Link \union {None}] /\ uses' \in [Links -> Nat] /\ met' \in BOOLEAN
  BY <1>1, CredentialTypes DEF Lives
<1>4. ~met' => ~met /\ \A c \in Calls : visit[c].step = "idle"
  BY <1>1
<1>5. CredentialsTypeOK'
  BY <1>1, <1>2, <1>3, CredentialTypes DEF CredentialsTypeOK
<1>6. VisitsAreSound'
  <2>1. ASSUME NEW c \in Calls
        PROVE  VisitSound(visit[c])'
    <3>1. VisitSound(visit[c]) /\ (visit[c].of # None => visit[c].of \in Accounts)
      BY CredentialTypes DEF Visit
    <3> QED
      BY <1>1, <1>3, <3>1 DEF VisitSound
  <2>2. ~met' => /\ \A c \in Calls : VisitAlone(visit[c])'
                 /\ \A c \in Calls : \A d \in Calls \ {c} :
                       visit'[c].step = "idle" \/ visit'[d].step = "idle"
    BY <1>1, <1>4 DEF VisitAlone
  <2> QED
    BY <2>1, <2>2 DEF VisitsAreSound
<1>7. \A l \in Links : link'[l] # None => link'[l] = link[l] /\ link[l].of # a /\ uses'[l] = uses[l]
  BY <1>1
<1>8. AccountsAreSound'
  <2>1. \A s \in Sessions : login'[s] # None => login[s].of # a /\ login[s].of \in Accounts
    BY <1>2, CredentialTypes DEF SessionsOf
  <2>2. \A l \in Links : link'[l] # None => user'[link'[l].of] = "live"
    BY <1>3, <1>7, CredentialTypes DEF CredentialsInv, AccountsAreSound
  <2> QED
    BY <1>1, <1>2, <1>3, <2>1, <2>2, CredentialTypes DEF CredentialsInv, AccountsAreSound
<1>9. ASSUME ~met'
      PROVE  LinksAreSound'
  <2>1. LinksAreSound
    BY <1>4, <1>9 DEF CredentialsInv
  <2>2. \A l \in Links : link'[l] = None => uses'[l] = 0
    BY <1>1
  <2>3. \A l \in Links : uses'[l] <= 1 /\ (link'[l] = None \/ link'[l].state = "open" => uses'[l] = 0)
    BY <1>7, <2>1, <2>2 DEF LinksAreSound
  <2> QED
    BY <1>7, <2>1, <2>3 DEF LinksAreSound
<1>10. ASSUME ~met', NEW s \in Sessions, login'[s] # None
       PROVE  LoginSound(s)'
  <2>1. login'[s] = login[s] /\ login[s] # None /\ login[s].of # a /\ login[s].of \in Accounts
    BY <1>2, <1>10, CredentialTypes DEF SessionsOf
  <2>2. LoginSound(s)
    BY <1>4, <1>10, <2>1 DEF CredentialsInv
  <2> QED
    BY <1>1, <1>3, <2>1, <2>2 DEF LoginSound
<1> QED
  BY <1>5, <1>6, <1>8, <1>9, <1>10 DEF CredentialsInv

LEMMA CredentialsStep == CredentialsInv /\ [CredentialsNext]_credentialVars => CredentialsInv'
<1> SUFFICES ASSUME CredentialsInv, [CredentialsNext]_credentialVars
             PROVE  CredentialsInv'
  OBVIOUS
<1>1. CASE UNCHANGED credentialVars
  BY <1>1 DEF credentialVars, CredentialsInv, CredentialsTypeOK, VisitsAreSound, VisitSound,
              VisitAlone, Open, StillOpen, AccountsAreSound, LinksAreSound, LoginSound
<1>2. CASE CredentialsNext
  BY <1>2, AsksInv, SignupInv, InvalidateUserTokensInv, CreateVerificationTokenInv,
     VerifyEmailInv, ResetPasswordInv, EndSessionsInv, CreateOrGetUserInv,
     CreateRefreshTokenInv, VisitLostInv, LogoutInv, CloseAccountInv
     DEF CredentialsNext, LinkStep, SessionStep
<1> QED
  BY <1>1, <1>2

LEMMA CredentialsInitInv == CredentialsInit => CredentialsInv
<1> SUFFICES ASSUME CredentialsInit
             PROVE  CredentialsInv
  OBVIOUS
<1>1. /\ user = [a \in Accounts |-> "new"] /\ verified = [a \in Accounts |-> FALSE]
      /\ password = [a \in Accounts |-> 0] /\ link = [l \in Links |-> None]
      /\ login = [s \in Sessions |-> None] /\ visit = [c \in Calls |-> NoVisit]
      /\ uses = [l \in Links |-> 0] /\ met = FALSE /\ halted = FALSE
  BY DEF CredentialsInit
<1>2. 0 \in 0..MostResets
  <2>1. MostResets \in Nat
    BY CredentialsAssumption
  <2> QED
    BY <2>1
<1>3. CredentialsTypeOK
  BY <1>1, <1>2, NoVisitSound DEF CredentialsTypeOK, Lives
<1>4. VisitsAreSound
  BY <1>1, NoVisitSound DEF VisitsAreSound
<1>5. AccountsAreSound
  BY <1>1 DEF AccountsAreSound
<1>6. LinksAreSound
  BY <1>1 DEF LinksAreSound
<1> QED
  BY <1>1, <1>3, <1>4, <1>5, <1>6 DEF CredentialsInv

LEMMA CredentialsHold == CredentialsInv => SessionsAreSound
<1> SUFFICES ASSUME CredentialsInv
             PROVE  SessionsAreSound
  OBVIOUS
<1>1. SessionsOfThisPassword
  BY DEF CredentialsInv, LoginSound, SessionsOfThisPassword
<1>2. ASSUME ~met, NEW a \in Accounts, NEW kind \in Kinds
      PROVE  Cardinality(Open(a, kind)) <= 1
  <2>1. LinksAreSound
    BY <1>2 DEF CredentialsInv
  <2>2. CASE Open(a, kind) = {}
    <3>1. Cardinality(Open(a, kind)) = 0
      BY <2>2, FS_EmptySet
    <3> QED
      BY <3>1
  <2>3. CASE Open(a, kind) # {}
    <3>1. PICK l : l \in Open(a, kind)
      BY <2>3
    <3>2. Open(a, kind) = {l}
      BY <2>1, <3>1 DEF Open, LinksAreSound
    <3>3. Cardinality(Open(a, kind)) = 1
      BY <3>2, FS_Singleton
    <3> QED
      BY <3>3
  <2> QED
    BY <2>2, <2>3
<1>3. LinksWorkOnce
  BY <1>2 DEF CredentialsInv, LinksAreSound, LinksWorkOnce
<1>4. SessionsAreVerified
  BY DEF CredentialsInv, AccountsAreSound, SessionsAreVerified
<1>5. NothingOutlivesItsAccount
  BY DEF CredentialsInv, AccountsAreSound, LoginSound, NothingOutlivesItsAccount
<1> QED
  BY <1>1, <1>3, <1>4, <1>5 DEF SessionsAreSound

-----------------------------------------------------------------------------
(* The types of questions, feeds and mail, beyond what their invariants say. *)

LEMMA FeedTypes == FeedInv => FeedTypeOK
<1> SUFFICES ASSUME FeedInv
             PROVE  FeedTypeOK
  OBVIOUS
<1>1. /\ steps \in Seq(TurnStep) /\ tool \in [Tools -> Callback] /\ Len(steps) \in Nat
      /\ currentStep \in Nat /\ currentStep <= Len(steps)
      /\ \A t \in Tools : tool[t].id \in Nat /\ tool[t].id <= Len(steps)
      /\ parallel \in BOOLEAN /\ muffled \in BOOLEAN
  BY StepsTypes DEF FeedInv, StepsInv, StepsTyped
<1>2. currentStep \in 0..Len(steps) /\ \A t \in Tools : tool[t].id \in 0..Len(steps)
  BY <1>1
<1>3. ASSUME NEW t \in Tools
      PROVE  tool[t] \in [step : {"new", "insert", "publish", "runs", "update", "publishEnd", "over"},
                          seq : Nat, id : 0..Len(steps), end : {"none", "completed", "failed"}]
  <2>1. tool[t] \in Callback
    BY <1>1
  <2> QED
    BY <1>2, <2>1 DEF Callback
<1>4. tool \in [Tools -> [step : {"new", "insert", "publish", "runs", "update", "publishEnd", "over"},
                          seq : Nat, id : 0..Len(steps), end : {"none", "completed", "failed"}]]
  BY <1>1, <1>3
<1>5. vote \in [Voters -> SUBSET BOOLEAN]
  BY VotesAre DEF FeedInv, VotesInv
<1>6. ballot \in [Ballots -> Ballot] /\ confirmed \in [Voters -> SUBSET BOOLEAN]
      /\ crossedVoters \subseteq Voters
  BY DEF FeedInv, VotesInv
<1> QED
  BY <1>1, <1>2, <1>4, <1>5, <1>6 DEF FeedTypeOK, TurnStep, Ballot

LEMMA FeedTypesInvariance == FeedSpec => []FeedTypeOK
BY FeedInitInv, FeedStep, FeedTypes, PTL DEF FeedSpec

\* What is attached, and which questions the two histories name.
UploadsShape ==
    /\ UploadsInv
    /\ \A q \in Questions : posting[q].files \in Attachments
    /\ expired \subseteq Questions /\ litter \subseteq Questions

LEMMA UploadsTypes == UploadsShape => UploadsTypeOK
<1> SUFFICES ASSUME UploadsShape
             PROVE  UploadsTypeOK
  OBVIOUS
<1>1. ASSUME NEW f \in Attachments
      PROVE  Len(f) \in 0..2
  <2>1. CASE f = <<>>
    BY <2>1
  <2>2. CASE f \in {<<g>> : g \in File}
    BY <2>2
  <2>3. CASE f \in File \X File
    BY <2>3
  <2> QED
    BY <2>1, <2>2, <2>3 DEF Attachments
<1>2. ASSUME NEW q \in Questions
      PROVE  posting[q] \in [step : {"new", "refused", "begin", "upload", "commit", "send",
                                 "done", "clean", "cleanTwice", "cleanCommitted", "failed",
                                 "unsent", "deleted"},
                             files : Attachments, stored : 0..2]
  <2>1. /\ posting[q] \in Post /\ posting[q].files \in Attachments
        /\ posting[q].stored <= Len(posting[q].files)
    BY DEF UploadsShape, UploadsInv, PostSound
  <2>2. posting[q].stored \in Nat
    BY <2>1 DEF Post
  <2>3. PICK k \in 0..2 : k = Len(posting[q].files)
    BY <1>1, <2>1
  <2>5. posting[q].stored <= k
    BY <2>1, <2>3
  <2>4. posting[q].stored \in 0..2
    BY <2>2, <2>5
  <2> QED
    BY <2>1, <2>4 DEF Post
<1>3. posting \in [Questions -> Post]
  BY DEF UploadsShape, UploadsInv
<1> QED
  BY <1>2, <1>3 DEF UploadsTypeOK, UploadsShape, UploadsInv, ChatFile

LEMMA UploadsShapeStep == UploadsShape /\ [UploadsNext]_uploadVars => UploadsShape'
<1> SUFFICES ASSUME UploadsShape, [UploadsNext]_uploadVars
             PROVE  UploadsShape'
  OBVIOUS
<1>1. UploadsInv'
  BY UploadsStep DEF UploadsShape
<1>2. posting \in [Questions -> Post]
  BY DEF UploadsShape, UploadsInv
<1>3. ASSUME NEW q \in Questions, NEW s, Step(q, s), NEW r \in Questions
      PROVE  posting'[r].files \in Attachments
  <2>1. posting[q] \in Post /\ posting[r] \in Post /\ posting[r].files \in Attachments
    BY <1>2 DEF UploadsShape
  <2>2. PICK n : n = [posting[q] EXCEPT !.step = s]
    OBVIOUS
  <2>3. n.files = posting[q].files
    BY <2>1, <2>2 DEF Post
  <2>4. posting' = [posting EXCEPT ![q] = n]
    BY <1>3, <2>2 DEF Step
  <2> QED
    BY <1>2, <2>1, <2>3, <2>4
<1>4. ASSUME UNCHANGED posting, NEW r \in Questions
      PROVE  posting'[r].files \in Attachments
  BY <1>4 DEF UploadsShape
<1>5. CASE UNCHANGED uploadVars
  BY <1>1, <1>4, <1>5 DEF UploadsShape, uploadVars
<1>6. ASSUME NEW q \in Questions,
             \/ BeginTurn(q) \/ CreateJob(q) \/ CommitTurn(q) \/ SendJob(q)
             \/ CleanUp(q) \/ RequestDies(q) \/ DeleteConversation(q)
      PROVE  UploadsShape'
  <2>1. \E s : Step(q, s)
    BY <1>6 DEF BeginTurn, CreateJob, CommitTurn, SendJob, CleanUp, RequestDies,
                DeleteConversation
  <2>2. expired' \subseteq Questions /\ litter' \subseteq Questions
    BY <1>6 DEF BeginTurn, CreateJob, CommitTurn, SendJob, CleanUp, RequestDies,
                DeleteConversation, UploadsShape
  <2> QED
    BY <1>1, <1>3, <2>1, <2>2 DEF UploadsShape
<1>7. ASSUME NEW q \in Questions, ExpireObjects(q)
      PROVE  UploadsShape'
  BY <1>1, <1>4, <1>7 DEF ExpireObjects, UploadsShape
<1>8. ASSUME NEW q \in Questions, NEW files \in Attachments, AcceptFiles(q, files)
      PROVE  UploadsShape'
  <2>1. UNCHANGED <<expired, litter>>
    BY <1>8 DEF AcceptFiles
  <2>2. ASSUME posting' = [posting EXCEPT ![q] = [step |-> "begin", files |-> files, stored |-> 0]],
               NEW r \in Questions
        PROVE  posting'[r].files \in Attachments
    BY <1>2, <2>2 DEF UploadsShape
  <2> QED
    BY <1>1, <1>3, <1>8, <2>1, <2>2 DEF AcceptFiles, UploadsShape
<1>9. ASSUME NEW q \in Questions, UploadFile(q)
      PROVE  UploadsShape'
  <2>1. UNCHANGED <<expired, litter>>
    BY <1>9 DEF UploadFile
  <2>2. ASSUME NEW k, posting' = [posting EXCEPT ![q].stored = k], NEW r \in Questions
        PROVE  posting'[r].files \in Attachments
    <3>1. posting[q] \in Post /\ posting[r] \in Post /\ posting[r].files \in Attachments
      BY <1>2 DEF UploadsShape
    <3>2. PICK n : n = [posting[q] EXCEPT !.stored = k]
      OBVIOUS
    <3>3. n.files = posting[q].files
      BY <3>1, <3>2 DEF Post
    <3>4. posting' = [posting EXCEPT ![q] = n]
      BY <2>2, <3>2
    <3> QED
      BY <1>2, <3>1, <3>3, <3>4
  <2>3. (\E s : Step(q, s)) \/ \E k : posting' = [posting EXCEPT ![q].stored = k]
    BY <1>9 DEF UploadFile
  <2> QED
    BY <1>1, <1>3, <2>1, <2>2, <2>3 DEF UploadsShape
<1> QED
  BY <1>5, <1>6, <1>7, <1>8, <1>9 DEF UploadsNext

LEMMA UploadsTypesInvariance == UploadsSpec => []UploadsTypeOK
<1>1. UploadsInit => UploadsShape
  <2> SUFFICES ASSUME UploadsInit
               PROVE  UploadsShape
    OBVIOUS
  <2>1. \A q \in Questions : posting[q].files = <<>>
    BY DEF UploadsInit, NewRequest
  <2> QED
    BY <2>1, UploadsInitInv DEF UploadsInit, UploadsShape, Attachments
<1> QED
  BY <1>1, UploadsShapeStep, UploadsTypes, PTL DEF UploadsSpec

\* The days, the people and the campaigns that the mail names.
MailShape ==
    /\ MailInv
    /\ today \in 0..LastDay
    /\ onboarded \subseteq Recipients /\ loggedIn \subseteq Recipients
    /\ sideBySide \subseteq Campaigns
    /\ sent \in [Recipients -> [Campaigns -> Seq(0..LastDay)]]

LEMMA MailTypesHold == MailShape => MailTypeOK
<1> SUFFICES ASSUME MailShape
             PROVE  MailTypeOK
  OBVIOUS
<1>1. \A s \in Sweeps : sweep[s].step \in {"rest", "next", "post", "record"}
  BY MailTypes DEF MailShape, SweepRecord
<1> QED
  BY <1>1, MailTypes DEF MailShape, MailTypeOK

LEMMA MailShapeStep == MailShape /\ [MailNext]_mailVars => MailShape'
<1> SUFFICES ASSUME MailShape, [MailNext]_mailVars
             PROVE  MailShape'
  OBVIOUS
<1>1. MailInv'
  BY MailStep DEF MailShape
<1>2. LastDay \in Nat
  BY MailAssumption
<1>3. CASE UNCHANGED mailVars
  BY <1>1, <1>3 DEF mailVars, MailShape
<1>4. ASSUME NEW s \in Sweeps, NEW c \in Campaigns, StartSweep(s, c)
      PROVE  MailShape'
  BY <1>1, <1>4 DEF StartSweep, MailShape
<1>5. ASSUME NEW s \in Sweeps, NextRecipient(s) \/ PostLetter(s) \/ SweepDies(s)
      PROVE  MailShape'
  BY <1>1, <1>5 DEF NextRecipient, PostLetter, SweepDies, MailShape
<1>6. ASSUME NEW s \in Sweeps, RecordLetter(s)
      PROVE  MailShape'
  <2>1. UNCHANGED <<today, onboarded, loggedIn, sideBySide>>
    BY <1>6 DEF RecordLetter
  <2>2. CASE UNCHANGED sent
    BY <1>1, <2>1, <2>2 DEF MailShape
  <2>3. CASE sent' = Recorded(s)
    <3>1. PICK c0 \in Campaigns : c0 = sweep[s].of
      BY <1>6 DEF RecordLetter, MailShape, MailInv, SweepSound
    <3>2. ASSUME NEW u \in Recipients
          PROVE  /\ sent[u] \in [Campaigns -> Seq(0..LastDay)]
                 /\ [sent[u] EXCEPT ![c0] = Append(sent[u][c0], today)]
                       \in [Campaigns -> Seq(0..LastDay)]
      <4>1. sent[u] \in [Campaigns -> Seq(0..LastDay)]
        BY DEF MailShape
      <4>2. sent[u][c0] \in Seq(0..LastDay) /\ today \in 0..LastDay
        BY <4>1 DEF MailShape
      <4>3. Append(sent[u][c0], today) \in Seq(0..LastDay)
        BY <4>2
      <4> QED
        BY <4>1, <4>3
    <3>3. sent' = [u \in Recipients |-> IF u \in sweep[s].to
                     THEN [sent[u] EXCEPT ![c0] = Append(sent[u][c0], today)] ELSE sent[u]]
      BY <2>3, <3>1 DEF Recorded
    <3>4. sent' \in [Recipients -> [Campaigns -> Seq(0..LastDay)]]
      BY <3>2, <3>3
    <3> QED
      BY <1>1, <2>1, <3>4 DEF MailShape
  <2> QED
    BY <1>6, <2>2, <2>3 DEF RecordLetter
<1>7. ASSUME NEW u \in Recipients, Unsubscribe(u) \/ Resubscribe(u) \/ UserActs(u)
      PROVE  MailShape'
  BY <1>1, <1>7 DEF Unsubscribe, Resubscribe, UserActs, MailShape
<1>8. CASE DayPasses
  <2>1. today' \in 0..LastDay
    BY <1>2, <1>8 DEF DayPasses, MailShape
  <2> QED
    BY <1>1, <1>8, <2>1 DEF DayPasses, MailShape
<1> QED
  BY <1>3, <1>4, <1>5, <1>6, <1>7, <1>8 DEF MailNext

LEMMA MailTypesInvariance == MailSpec => []MailTypeOK
<1>1. MailInit => MailShape
  <2> SUFFICES ASSUME MailInit
               PROVE  MailShape
    OBVIOUS
  <2>1. today = 0 /\ LastDay \in Nat
    BY MailAssumption DEF MailInit
  <2>2. today \in 0..LastDay
    BY <2>1
  <2>3. sent \in [Recipients -> [Campaigns -> Seq(0..LastDay)]]
    BY DEF MailInit
  <2> QED
    BY <2>2, <2>3, MailInitInv DEF MailInit, MailShape
<1> QED
  BY <1>1, MailShapeStep, MailTypesHold, PTL DEF MailSpec

LEMMA LlmTypesInvariance == LlmSpec => []LlmTypeOK
<1>1. LlmInv => LlmTypeOK
  BY DEF LlmInv
<1> QED
  BY <1>1, LlmInvariance, PTL

LEMMA ServicesTypesInvariance == ServicesSpec => []ServicesTypeOK
<1>1. ServicesInv => ServicesTypeOK
  BY DEF ServicesInv
<1> QED
  BY <1>1, ServicesInvariance, PTL

LEMMA EnvironmentsTypesInvariance == EnvironmentsSpec => []EnvironmentsTypeOK
<1>1. EnvironmentsInv => EnvironmentsTypeOK
  BY DEF EnvironmentsInv
<1> QED
  BY <1>1, EnvironmentsInvariance, PTL

LEMMA CredentialsTypesInvariance == CredentialsSpec => []CredentialsTypeOK
<1>1. CredentialsInv => CredentialsTypeOK
  BY DEF CredentialsInv
<1> QED
  BY <1>1, CredentialsInitInv, CredentialsStep, PTL DEF CredentialsSpec

-----------------------------------------------------------------------------
(* What holds of every behaviour, whatever the constants are. *)

\* As long as the requests of the owners of a workspace do not cross, the LLM it
\* gets is the one of its own key, and a workspace without limits has a key.
THEOREM LlmTheorem == LlmSpec => []LlmIsSound
BY LlmInvariance, LlmHolds, PTL

\* However many services are created, assigned and deleted at the same time, the
\* limit of the Free plan is exceeded by no more than the requests that were let
\* in together, and no service belongs to a team that is gone.
THEOREM ServicesTheorem == ServicesSpec => []ServicesAreSound
<1>1. ServicesInv => ServicesAreSound
  BY DEF ServicesInv, ServicesAreSound
<1> QED
  BY <1>1, ServicesInvariance, PTL

\* One default environment as long as nothing crosses, and never more of them
\* than requests if it does; what is deleted has no repositories or deployments.
THEOREM EnvironmentsTheorem == EnvironmentsSpec => []EnvironmentsAreSound
BY EnvironmentsInvariance, EnvironmentsHold, PTL

\* The key of a report that is committed is one that exists: it is locked from
\* the moment it is looked up, so it cannot be deleted in between.
THEOREM DeletedKeyTheorem == EnvironmentsSpec => DeletedKeyReportsNothing
<1>1. EnvironmentsInv /\ [EnvironmentsNext]_environmentVars
      => [\A k \in Keys, e \in Envs :
             k \in deployed'[e] \ deployed[e] => key[k] = "live"]_environmentVars
  BY ReportsAreSound
<1> QED
  BY <1>1, EnvironmentsInvariance, PTL DEF EnvironmentsSpec, DeletedKeyReportsNothing

LEMMA UploadsInvariance == UploadsSpec => []UploadsAreSound
BY UploadsInitInv, UploadsStep, UploadsHold, PTL DEF UploadsSpec

\* The link of a file leads to what was attached, and a request that failed
\* leaves no object behind, but for the exceptions that the bucket and a death
\* make; tools that follow one another are shown as they ended, no step ends
\* without its tool, and of a reader's votes on the answer the last one counts.
THEOREM TurnsTheorem == UploadsSpec /\ FeedSpec => []TurnsAreSound
BY UploadsInvariance, FeedInvariance, PTL DEF TurnsAreSound

\* No campaign writes to a user more often than it means to: sweeps that follow
\* one another record no letter too many and none too early, every row is a
\* letter that was taken, every letter has its row as long as none was lost, and
\* who unsubscribes between two sweeps gets nothing any more.
THEOREM MailTheorem == MailSpec => []MailIsSound
BY MailInitInv, MailStep, MailHolds, PTL DEF MailSpec

\* One request after the other, a reset ends every session of an older password
\* unless it stops between its commits, a link changes one password and only the
\* last one that was mailed works, and the end of an account ends its sessions;
\* and whatever crosses, only a verified account has a session.
THEOREM SessionsTheorem == CredentialsSpec => []SessionsAreSound
BY CredentialsInitInv, CredentialsStep, CredentialsHold, PTL DEF CredentialsSpec

-----------------------------------------------------------------------------
(* The parts together. *)

peopleVars == <<part, accountVars, placeVars, talkVars>>

LEMMA EveryPartSteps ==
    [Next]_peopleVars =>
        /\ [TenancyNext]_tenancyVars /\ [QuotasNext]_quotaVars /\ [CredentialsNext]_credentialVars
        /\ [ServicesNext]_servicesVars /\ [EnvironmentsNext]_environmentVars /\ [LlmNext]_llmVars
        /\ [UploadsNext]_uploadVars /\ [FeedNext]_feedVars /\ [MailNext]_mailVars
BY DEF Next, peopleVars, accountVars, placeVars, talkVars

\* What is explored one part at a time shows of every part a behaviour of its
\* own specification: what is proved of the parts holds of them together.
THEOREM PartsTheorem ==
    PeopleSpec => /\ TenancySpec /\ QuotasSpec /\ CredentialsSpec
                  /\ ServicesSpec /\ EnvironmentsSpec /\ LlmSpec
                  /\ UploadsSpec /\ FeedSpec /\ MailSpec
<1>1. Init => /\ TenancyInit /\ QuotasInit /\ ServicesInit /\ EnvironmentsInit /\ CredentialsInit
              /\ LlmInit /\ UploadsInit /\ FeedInit /\ MailInit
  BY DEF Init
<1>2. PeopleSpec <=> Init /\ [][Next]_peopleVars
  BY DEF PeopleSpec, peopleVars
<1> QED
  BY <1>1, <1>2, EveryPartSteps, PTL
     DEF TenancySpec, QuotasSpec, CredentialsSpec, ServicesSpec, EnvironmentsSpec, LlmSpec,
         UploadsSpec, FeedSpec, MailSpec

\* The rows, the requests and the histories of every part hold what they can hold.
THEOREM PeopleTypesTheorem == PeopleSpec => []PeopleTypeOK
BY PartsTheorem, TenancyTypeCorrect, QuotasTypeCorrect, ServicesTypesInvariance,
   EnvironmentsTypesInvariance, CredentialsTypesInvariance, LlmTypesInvariance,
   UploadsTypesInvariance, FeedTypesInvariance, MailTypesInvariance, PTL
   DEF PeopleTypeOK

\* No request lets a cancelled invitation join, answers one twice, takes a
\* workspace away with the account of one of its members, or reports a
\* deployment with a key that is deleted.
THEOREM PeopleStepsTheorem == PeopleSpec => PeopleStepsAreSound
BY PartsTheorem, MembershipSteps, DeletedKeyTheorem, PTL DEF PeopleStepsAreSound
=============================================================================
