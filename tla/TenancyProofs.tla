---------------------------- MODULE TenancyProofs ----------------------------
(***************************************************************************)
(* Proofs about Tenancy, for any number of users, workspaces, invitations  *)
(* and requests.                                                           *)
(***************************************************************************)
EXTENDS Tenancy, FiniteSetTheorems, TLAPS

\* A request names people and a workspace that may exist.
NamesSound(q) ==
    q.step # "idle" =>
        /\ q.by \in Users
        /\ q.op \notin {"create", "deleteAccount", "decline", "expire"} => q.ws \in Workspaces
        /\ q.op \in {"setRole", "remove", "leave", "invite", "accept", "joinTeam", "quitTeam"}
           => q.who \in Users

\* The membership rows it has loaded are there, whatever crosses it.
SeenSound(q) == \A u \in q.seen : q.ws \in Workspaces /\ role[q.ws][u] # "none"

\* It answers one invitation of its own that was sent, and if it is to accept it
\* one to its workspace.
MayAnswer(q, i) ==
    /\ invitation[i].status # "new"
    /\ Exists(i) => /\ invitation[i].invitee = q.by
                    /\ q.op = "accept" => invitation[i].ws = q.ws
AnswerSound(q) ==
    q.step # "idle" /\ q.op \in {"accept", "decline"} =>
        \E i \in Invitations : q.invs = {i} /\ MayAnswer(q, i)

RequestSound(q) == NamesSound(q) /\ SeenSound(q) /\ AnswerSound(q)

Spared(w, u) == Owners(w) \ {u} # {}

\* What a request that nothing has crossed still knows when it commits.
StillKnows(q) ==
    q.step # "idle" =>
        /\ q.op \in {"setRole", "remove"} /\ q.step = "loaded"
           => q.seen \subseteq Owners(q.ws)
        /\ q.op = "leave" /\ q.step = "loaded" => q.was = role[q.ws][q.who]
        /\ /\ q.op \in {"setRole", "remove", "leave"} /\ q.step = "checked"
           /\ role[q.ws][q.who] = "OWNER"
           /\ q.op = "setRole" => q.role = "USER"
           => Spared(q.ws, q.who)
        /\ q.op = "invite" /\ q.step = "checked" => Pending(q.ws, q.who) \subseteq q.invs
        /\ q.op \in {"invite", "accept", "decline", "expire"}
           => \A i \in q.invs : invitation[i].status = "PENDING"
        /\ q.op = "deleteAccount" => Blocking(q.by) = {} /\ q.alone = Alone(q.by)

RequestsSound == \A c \in Calls : RequestSound(request[c])

\* As long as nothing crosses, one request is served and what it knows is so.
OneAtATime ==
    ~crossed => \A c \in Calls :
        /\ StillKnows(request[c])
        /\ \A d \in Calls : request[c].step # "idle" /\ request[d].step # "idle" => c = d

\* An invitation does not outlive its workspace.
InvitationsExist ==
    \A i \in Invitations : Exists(i) => workspace[invitation[i].ws] = "live"

\* OnePending, without counting.
PendingIsOne ==
    ~crossed => \A w \in Workspaces, u \in Users :
        \A i, j \in Pending(w, u) : i = j

RowsSound == OwnedWorkspace /\ MembersExist /\ InvitationsExist /\ PendingIsOne

RowsTypeOK ==
    /\ account \in [Users -> Lives]
    /\ workspace \in [Workspaces -> Lives]
    /\ role \in [Workspaces -> [Users -> Roles \union {"none"}]]
    /\ invitation \in [Invitations -> Invitation \union {NoInvitation, Deleted}]
    /\ inTeam \in [Workspaces -> SUBSET Users]
    /\ late \subseteq Invitations

TenancyInv == TenancyTypeOK /\ RowsSound /\ RequestsSound /\ OneAtATime

\* A step that sends no old invitation anew and changes none of its names.
KeepsInvitations ==
    \A i \in Invitations : invitation[i].status # "new" =>
        /\ invitation'[i].status # "new"
        /\ Exists(i)' => /\ Exists(i)
                        /\ invitation'[i].ws = invitation[i].ws
                        /\ invitation'[i].invitee = invitation[i].invitee

-----------------------------------------------------------------------------
(* What requests hold. *)

LEMMA FreeRequest == Free \in Request /\ Free.step = "idle" /\ Free.seen = {}
BY DEF Free, Request, Ops, Roles

LEMMA AskType ==
    ASSUME NEW op \in Ops, NEW u \in Users, NEW w \in Workspaces
    PROVE  AskAsOwner(op, u, w) \in Request
BY DEF AskAsOwner, Free, Request, Ops, Roles

LEMMA RowsUnchanged ==
    ASSUME RowsSound, UNCHANGED rowVars, ~crossed' => ~crossed
    PROVE  RowsSound'
<1>1. OwnedWorkspace'
  BY DEF RowsSound, OwnedWorkspace, Owners, rowVars
<1>2. MembersExist' /\ InvitationsExist'
  BY DEF RowsSound, MembersExist, InvitationsExist, Exists, rowVars
<1>3. PendingIsOne'
  BY DEF RowsSound, PendingIsOne, Pending, rowVars
<1> QED
  BY <1>1, <1>2, <1>3 DEF RowsSound

\* A new request finds the rows as they are.
LEMMA StartInv ==
    ASSUME TenancyInv, NEW c \in Calls, NEW q \in Request, Start(c, q),
           q.step # "idle", RequestSound(q), StillKnows(q)
    PROVE  TenancyInv'
<1>1. /\ UNCHANGED rowVars /\ request[c].step = "idle"
      /\ request' = [request EXCEPT ![c] = q]
      /\ crossed' = (crossed \/ \E d \in Calls \ {c} : request[d].step # "idle")
  BY DEF Start
<1>2. request \in [Calls -> Request] /\ crossed \in BOOLEAN
  BY DEF TenancyInv, TenancyTypeOK
<1>3. TenancyTypeOK'
  BY <1>1, <1>2 DEF TenancyInv, TenancyTypeOK, rowVars
<1>4. RowsSound'
  BY <1>1, RowsUnchanged DEF TenancyInv
<1>5. request'[c] = q /\ \A d \in Calls : d # c => request'[d] = request[d]
  BY <1>1, <1>2
<1>6. RequestsSound'
  BY <1>1, <1>5 DEF TenancyInv, RequestsSound, RequestSound, NamesSound, SeenSound, AnswerSound, MayAnswer,
                   Exists, rowVars
<1>7. OneAtATime'
  <2> SUFFICES ASSUME ~crossed', NEW d \in Calls
               PROVE  /\ StillKnows(request[d])'
                      /\ \A e \in Calls : request'[d].step # "idle"
                                         /\ request'[e].step # "idle" => d = e
    BY DEF OneAtATime
  <2>1. \A e \in Calls : e # c => request'[e].step = "idle"
    BY <1>1, <1>2, <1>5
  <2>2. CASE d = c
    BY <1>1, <1>5, <2>1, <2>2
    DEF StillKnows, Owners, Members, Spared, Pending, Blocking, Alone, Joined, rowVars
  <2>3. CASE d # c
    BY <2>1, <2>3 DEF StillKnows
  <2> QED
    BY <2>2, <2>3
<1> QED
  BY <1>3, <1>4, <1>6, <1>7 DEF TenancyInv

\* A request that reads on or ends changes no row.
LEMMA ReadInv ==
    ASSUME TenancyInv, NEW c \in Calls, NEW q \in Request,
           UNCHANGED <<rowVars, crossed>>, request' = [request EXCEPT ![c] = q],
           request[c].step # "idle", RequestSound(q), ~crossed => StillKnows(q)
    PROVE  TenancyInv'
<1>1. request \in [Calls -> Request] /\ UNCHANGED rowVars /\ crossed' = crossed
  BY DEF TenancyInv, TenancyTypeOK
<1>2. TenancyTypeOK'
  BY <1>1 DEF TenancyInv, TenancyTypeOK, rowVars
<1>3. RowsSound'
  BY <1>1, RowsUnchanged DEF TenancyInv
<1>4. request'[c] = q /\ \A d \in Calls : d # c => request'[d] = request[d]
  BY <1>1
<1>5. RequestsSound'
  BY <1>1, <1>4 DEF TenancyInv, RequestsSound, RequestSound, NamesSound, SeenSound, AnswerSound, MayAnswer,
                   Exists, rowVars
<1>6. OneAtATime'
  <2> SUFFICES ASSUME ~crossed, NEW d \in Calls
               PROVE  /\ StillKnows(request[d])'
                      /\ \A e \in Calls : request'[d].step # "idle"
                                         /\ request'[e].step # "idle" => d = e
    BY <1>1 DEF OneAtATime
  <2>1. \A e \in Calls : e # c => request'[e].step = "idle"
    BY <1>4 DEF TenancyInv, OneAtATime
  <2>2. CASE d = c
    BY <1>1, <1>4, <2>1, <2>2
    DEF StillKnows, Owners, Members, Spared, Pending, Blocking, Alone, Joined, rowVars
  <2>3. CASE d # c
    BY <2>1, <2>3 DEF StillKnows
  <2> QED
    BY <2>2, <2>3
<1> QED
  BY <1>2, <1>3, <1>5, <1>6 DEF TenancyInv

LEMMA FreeInv ==
    ASSUME TenancyInv, NEW c \in Calls, UNCHANGED <<rowVars, crossed>>,
           request' = [request EXCEPT ![c] = Free], request[c].step # "idle"
    PROVE  TenancyInv'
BY ReadInv, FreeRequest DEF RequestSound, NamesSound, SeenSound, AnswerSound, StillKnows

\* A commit ends its request; the others lose the rows that it deletes.
LEMMA CommitInv ==
    ASSUME TenancyInv, NEW c \in Calls, NEW newRole, CommitRows(c, newRole),
           request[c].step # "idle", RowsTypeOK', RowsSound', KeepsInvitations
    PROVE  TenancyInv'
<1>1. /\ role' = newRole /\ crossed' = crossed
      /\ request' = [d \in Calls |-> IF d = c THEN Free ELSE [request[d] EXCEPT
             !.seen = {u \in @ : newRole[request[d].ws][u] # "none"}]]
      /\ request \in [Calls -> Request] /\ crossed \in BOOLEAN
  BY DEF CommitRows, TenancyInv, TenancyTypeOK
<1>2. request'[c] = Free
  BY <1>1
<1>3. ASSUME NEW d \in Calls, d # c
      PROVE  /\ request'[d] \in Request
             /\ request'[d].step = request[d].step /\ request'[d].op = request[d].op
             /\ request'[d].by = request[d].by /\ request'[d].ws = request[d].ws
             /\ request'[d].who = request[d].who /\ request'[d].invs = request[d].invs
             /\ request'[d].seen =
                    {u \in request[d].seen : newRole[request[d].ws][u] # "none"}
  <2>1. request'[d] = [request[d] EXCEPT
             !.seen = {u \in @ : newRole[request[d].ws][u] # "none"}]
        /\ request[d] \in Request
    BY <1>1, <1>3
  <2> QED
    BY <2>1 DEF Request
<1>4. TenancyTypeOK'
  <2>1. request' \in [Calls -> Request]
    BY <1>1, <1>2, <1>3, FreeRequest
  <2> QED
    BY <1>1, <2>1 DEF TenancyTypeOK, RowsTypeOK
<1>5. RequestsSound'
  <2> SUFFICES ASSUME NEW d \in Calls PROVE RequestSound(request[d])'
    BY DEF RequestsSound
  <2>1. CASE d = c
    BY <1>2, <2>1, FreeRequest DEF RequestSound, NamesSound, SeenSound, AnswerSound
  <2>2. CASE d # c
    <3> DEFINE q == request[d]
               r == request'[d]
    <3>1. RequestSound(q)
      BY DEF TenancyInv, RequestsSound
    <3>2. NamesSound(request[d])'
      BY <1>3, <2>2, <3>1 DEF RequestSound, NamesSound
    <3>3. SeenSound(request[d])'
      <4> SUFFICES ASSUME NEW u \in r.seen
                   PROVE  r.ws \in Workspaces /\ role'[r.ws][u] # "none"
        BY DEF SeenSound
      <4>1. u \in q.seen /\ newRole[q.ws][u] # "none" /\ r.ws = q.ws
        BY <1>3, <2>2
      <4> QED
        BY <1>1, <3>1, <4>1 DEF RequestSound, SeenSound
    <3>4. AnswerSound(request[d])'
      <4>1. CASE ~(q.step # "idle" /\ q.op \in {"accept", "decline"})
        BY <1>3, <2>2, <4>1 DEF AnswerSound
      <4>2. CASE q.step # "idle" /\ q.op \in {"accept", "decline"}
        <5>1. PICK i \in Invitations : request[d].invs = {i} /\ MayAnswer(request[d], i)
          BY <3>1, <4>2 DEF RequestSound, AnswerSound
        <5>2. request'[d].invs = {i} /\ MayAnswer(request[d], i)'
          BY <1>3, <2>2, <5>1 DEF KeepsInvitations, MayAnswer
        <5> QED
          BY <5>2 DEF AnswerSound
      <4> QED
        BY <4>1, <4>2
    <3> QED
      BY <3>2, <3>3, <3>4 DEF RequestSound
  <2> QED
    BY <2>1, <2>2
<1>6. OneAtATime'
  <2> SUFFICES ASSUME ~crossed, NEW d \in Calls
               PROVE  request'[d].step = "idle"
    BY <1>1 DEF OneAtATime, StillKnows
  <2> QED
    BY <1>2, <1>3, FreeRequest DEF TenancyInv, OneAtATime
<1> QED
  BY <1>4, <1>5, <1>6 DEF TenancyInv

LEMMA TypeFacts ==
    ASSUME TenancyInv
    PROVE  /\ role \in [Workspaces -> [Users -> Roles \union {"none"}]]
           /\ request \in [Calls -> Request]
           /\ RowsTypeOK
BY DEF TenancyInv, TenancyTypeOK, RowsTypeOK

\* Most requests are an owner's, and ask with nothing but his membership read.
LEMMA OwnerAsks ==
    ASSUME TenancyInv, NEW c \in Calls, NEW w \in Workspaces, NEW u \in Owners(w),
           NEW q \in Request, Start(c, q), q.step # "idle",
           q.op \notin {"leave", "accept", "decline", "expire", "deleteAccount"},
           q.op \in {"setRole", "remove", "invite"} => q.step = "loaded",
           q.op = "invite" => q.invs = {},
           q.by = u, q.ws = w, q.seen = {u},
           q.op \in {"setRole", "remove", "invite", "joinTeam", "quitTeam"} => q.who \in Users
    PROVE  TenancyInv'
<1>1. RequestSound(q)
  BY DEF RequestSound, NamesSound, SeenSound, AnswerSound, Owners
<1>2. StillKnows(q)
  BY DEF StillKnows
<1> QED
  BY <1>1, <1>2, StartInv

LEMMA AskMemberInv ==
    ASSUME TenancyInv, NEW c \in Calls, AskRole(c) \/ AskRemoval(c) \/ AskLeave(c)
    PROVE  TenancyInv'
<1>1. CASE AskRole(c)
  <2>1. PICK w \in Workspaces, who \in Users, r \in Roles, u \in Users :
            u \in Owners(w) /\ Start(c, [AskAsOwner("setRole", u, w) EXCEPT !.who = who, !.role = r])
    BY <1>1 DEF AskRole, Owners
  <2> DEFINE q == [AskAsOwner("setRole", u, w) EXCEPT !.who = who, !.role = r]
  <2>2. /\ q \in Request /\ q.step = "loaded" /\ q.op = "setRole" /\ q.by = u
        /\ q.ws = w /\ q.seen = {u} /\ q.who \in Users
    BY DEF AskAsOwner, Free, Request, Ops, Roles, Owners
  <2> HIDE DEF q
  <2> QED
    BY <2>1, <2>2, OwnerAsks DEF q
<1>2. CASE AskRemoval(c)
  <2>1. PICK w \in Workspaces, who \in Users, u \in Users :
            u \in Owners(w) /\ Start(c, [AskAsOwner("remove", u, w) EXCEPT !.who = who])
    BY <1>2 DEF AskRemoval, Owners
  <2> DEFINE q == [AskAsOwner("remove", u, w) EXCEPT !.who = who]
  <2>2. /\ q \in Request /\ q.step = "loaded" /\ q.op = "remove" /\ q.by = u
        /\ q.ws = w /\ q.seen = {u} /\ q.who \in Users
    BY DEF AskAsOwner, Free, Request, Ops, Roles, Owners
  <2> HIDE DEF q
  <2> QED
    BY <2>1, <2>2, OwnerAsks DEF q
<1>3. CASE AskLeave(c)
  <2>1. PICK w \in Workspaces, u \in Users :
            u \in Members(w) /\ Start(c, [Free EXCEPT !.step = "loaded", !.op = "leave", !.by = u, !.ws = w,
                                  !.who = u, !.seen = {u}, !.was = role[w][u]])
    BY <1>3 DEF AskLeave, Members
  <2> DEFINE q == [Free EXCEPT !.step = "loaded", !.op = "leave", !.by = u, !.ws = w,
                               !.who = u, !.seen = {u}, !.was = role[w][u]]
  <2>2. u \in Users /\ role[w][u] # "none" /\ role[w][u] \in Roles
    BY <2>1, TypeFacts DEF Members
  <2>3. /\ q \in Request /\ q.step = "loaded" /\ q.op = "leave" /\ q.by = u /\ q.ws = w
        /\ q.who = u /\ q.seen = {u} /\ q.was = role[w][u]
    BY <2>2 DEF Free, Request, Ops, Roles
  <2> HIDE DEF q
  <2>4. RequestSound(q)
    BY <2>2, <2>3 DEF RequestSound, NamesSound, SeenSound, AnswerSound
  <2>5. StillKnows(q)
    BY <2>3 DEF StillKnows
  <2> QED
    BY <2>1, <2>3, <2>4, <2>5, StartInv DEF q
<1> QED
  BY <1>1, <1>2, <1>3

LEMMA AskTeamInv ==
    ASSUME TenancyInv, NEW c \in Calls, AskJoinTeam(c) \/ AskQuitTeam(c)
    PROVE  TenancyInv'
<1>1. PICK w \in Workspaces, u \in Users, who \in Users, op \in {"joinTeam", "quitTeam"} :
          u \in Owners(w) /\ Start(c, [AskAsOwner(op, u, w) EXCEPT !.step = "checked", !.who = who])
  <2>1. \A w \in Workspaces : Members(w) \subseteq Users /\ inTeam[w] \subseteq Users
    BY TypeFacts DEF Members, RowsTypeOK
  <2> QED
    BY <2>1 DEF AskJoinTeam, AskQuitTeam, Owners
<1> DEFINE q == [AskAsOwner(op, u, w) EXCEPT !.step = "checked", !.who = who]
<1>2. /\ q \in Request /\ q.step = "checked" /\ q.op = op /\ q.by = u
      /\ q.ws = w /\ q.seen = {u} /\ q.who \in Users
  BY DEF AskAsOwner, Free, Request, Ops, Roles, Owners
<1> HIDE DEF q
<1> QED
  BY <1>1, <1>2, OwnerAsks DEF q

LEMMA AskInvitationInv ==
    ASSUME TenancyInv, NEW c \in Calls,
           AskInvite(c) \/ AskCancel(c) \/ AskList(c) \/ AskDeletion(c)
    PROVE  TenancyInv'
<1>1. CASE AskInvite(c)
  <2>1. PICK w \in Workspaces, who \in Users, r \in Roles, u \in Users :
            u \in Owners(w) /\ Start(c, [AskAsOwner("invite", u, w) EXCEPT !.who = who, !.role = r])
    BY <1>1 DEF AskInvite, Owners
  <2> DEFINE q == [AskAsOwner("invite", u, w) EXCEPT !.who = who, !.role = r]
  <2>2. /\ q \in Request /\ q.step = "loaded" /\ q.op = "invite" /\ q.by = u
        /\ q.ws = w /\ q.seen = {u} /\ q.who \in Users /\ q.invs = {}
    BY DEF AskAsOwner, Free, Request, Ops, Roles, Owners
  <2> HIDE DEF q
  <2> QED
    BY <2>1, <2>2, OwnerAsks DEF q
<1>2. CASE AskCancel(c)
  <2>1. PICK i \in Invitations, w \in Workspaces, u \in Users :
            u \in Owners(w) /\ Start(c, [AskAsOwner("cancel", u, w) EXCEPT !.invs = {i}])
    BY <1>2 DEF AskCancel, Owners
  <2> DEFINE q == [AskAsOwner("cancel", u, w) EXCEPT !.invs = {i}]
  <2>2. /\ q \in Request /\ q.step = "loaded" /\ q.op = "cancel" /\ q.by = u
        /\ q.ws = w /\ q.seen = {u}
    BY DEF AskAsOwner, Free, Request, Ops, Roles, Owners
  <2> HIDE DEF q
  <2> QED
    BY <2>1, <2>2, OwnerAsks DEF q
<1>3. CASE AskList(c) \/ AskDeletion(c)
  <2>1. PICK w \in Workspaces, u \in Users, op \in {"list", "deleteWorkspace"} :
            u \in Owners(w) /\ Start(c, AskAsOwner(op, u, w))
    BY <1>3 DEF AskList, AskDeletion, Owners
  <2> DEFINE q == AskAsOwner(op, u, w)
  <2>2. /\ q \in Request /\ q.step = "loaded" /\ q.op = op /\ q.by = u
        /\ q.ws = w /\ q.seen = {u}
    BY DEF AskAsOwner, Free, Request, Ops, Roles, Owners
  <2> HIDE DEF q
  <2> QED
    BY <2>1, <2>2, OwnerAsks DEF q
<1> QED
  BY <1>1, <1>2, <1>3

\* What an invitee, or anybody signed in, may ask.
LEMMA AskAnswerInv ==
    ASSUME TenancyInv, NEW c \in Calls, AskMine(c) \/ AskAccept(c) \/ AskDecline(c)
    PROVE  TenancyInv'
<1>1. CASE AskMine(c)
  <2>1. PICK u \in Users :
            Start(c, [Free EXCEPT !.step = "checked", !.op = "expire", !.by = u,
                                  !.invs = UNION {Overdue(w, u) : w \in Workspaces}])
    BY <1>1 DEF AskMine
  <2> DEFINE q == [Free EXCEPT !.step = "checked", !.op = "expire", !.by = u,
                               !.invs = UNION {Overdue(w, u) : w \in Workspaces}]
  <2>2. \A i \in UNION {Overdue(w, u) : w \in Workspaces} :
            i \in Invitations /\ invitation[i].status = "PENDING"
    BY DEF Overdue, Pending
  <2>3. /\ q \in Request /\ q.step = "checked" /\ q.op = "expire" /\ q.by = u
        /\ q.seen = {} /\ \A i \in q.invs : invitation[i].status = "PENDING"
    BY <2>2 DEF Free, Request, Ops, Roles
  <2> HIDE DEF q
  <2>4. RequestSound(q) /\ StillKnows(q)
    BY <2>3 DEF RequestSound, NamesSound, SeenSound, AnswerSound, StillKnows
  <2> QED
    BY <2>1, <2>3, <2>4, StartInv DEF q
<1>2. CASE AskAccept(c)
  <2>1. PICK u \in Users, w \in Workspaces, i \in Invitations :
            i \in Pending(w, u) /\ Start(c, [Free EXCEPT !.step = IF i \in late THEN "checked" ELSE "loaded",
                                  !.op = IF i \in late THEN "expire" ELSE "accept",
                                  !.by = u, !.who = u, !.ws = w, !.invs = {i}])
    BY <1>2 DEF AskAccept, Pending
  <2> DEFINE q == [Free EXCEPT !.step = IF i \in late THEN "checked" ELSE "loaded",
                               !.op = IF i \in late THEN "expire" ELSE "accept",
                               !.by = u, !.who = u, !.ws = w, !.invs = {i}]
  <2>2. /\ i \in Invitations /\ invitation[i].status = "PENDING"
        /\ invitation[i].ws = w /\ invitation[i].invitee = u
    BY <2>1 DEF Pending
  <2>3. /\ q \in Request /\ q.step # "idle" /\ q.op \in {"expire", "accept"} /\ q.by = u
        /\ q.who = u /\ q.ws = w /\ q.seen = {} /\ q.invs = {i}
    BY <2>2 DEF Free, Request, Ops, Roles
  <2> HIDE DEF q
  <2>4. RequestSound(q)
    BY <2>2, <2>3 DEF RequestSound, NamesSound, SeenSound, AnswerSound, MayAnswer
  <2>5. StillKnows(q)
    BY <2>2, <2>3 DEF StillKnows
  <2> QED
    BY <2>1, <2>3, <2>4, <2>5, StartInv DEF q
<1>3. CASE AskDecline(c)
  <2>1. PICK u \in Users, w \in Workspaces, i \in Invitations :
            i \in Pending(w, u) /\ Start(c, [Free EXCEPT !.step = "checked", !.op = "decline", !.by = u,
                                  !.invs = {i}])
    BY <1>3 DEF AskDecline, Pending
  <2> DEFINE q == [Free EXCEPT !.step = "checked", !.op = "decline", !.by = u,
                               !.invs = {i}]
  <2>2. /\ i \in Invitations /\ invitation[i].status = "PENDING"
        /\ invitation[i].invitee = u
    BY <2>1 DEF Pending
  <2>3. /\ q \in Request /\ q.step # "idle" /\ q.op = "decline" /\ q.by = u
        /\ q.seen = {} /\ q.invs = {i}
    BY <2>2 DEF Free, Request, Ops, Roles
  <2> HIDE DEF q
  <2>4. RequestSound(q)
    BY <2>2, <2>3 DEF RequestSound, NamesSound, SeenSound, AnswerSound, MayAnswer
  <2>5. StillKnows(q)
    BY <2>2, <2>3 DEF StillKnows
  <2> QED
    BY <2>1, <2>3, <2>4, <2>5, StartInv DEF q
<1> QED
  BY <1>1, <1>2, <1>3

LEMMA AskWorkspaceInv ==
    ASSUME TenancyInv, NEW c \in Calls,
           AskCreate(c) \/ AskDefault(c) \/ AskAccountDeletion(c)
    PROVE  TenancyInv'
<1>1. CASE AskCreate(c) \/ AskDefault(c)
  <2>1. PICK u \in Users :
            Start(c, [Free EXCEPT !.step = "checked", !.op = "create", !.by = u])
    BY <1>1 DEF AskCreate, AskDefault
  <2> DEFINE q == [Free EXCEPT !.step = "checked", !.op = "create", !.by = u]
  <2>2. /\ q \in Request /\ q.step # "idle" /\ q.op = "create" /\ q.by = u
        /\ q.seen = {}
    BY DEF Free, Request, Ops, Roles
  <2> HIDE DEF q
  <2>3. RequestSound(q) /\ StillKnows(q)
    BY <2>2 DEF RequestSound, NamesSound, SeenSound, AnswerSound, StillKnows
  <2> QED
    BY <2>1, <2>2, <2>3, StartInv DEF q
<1>2. CASE AskAccountDeletion(c)
  <2>1. PICK u \in Users :
            /\ Blocking(u) = {}
            /\ Start(c, [Free EXCEPT !.step = "checked", !.op = "deleteAccount", !.by = u,
                    !.alone = Alone(u), !.others = Joined(u) \ Alone(u)])
    BY <1>2 DEF AskAccountDeletion
  <2> DEFINE q == [Free EXCEPT !.step = "checked", !.op = "deleteAccount", !.by = u,
                               !.alone = Alone(u), !.others = Joined(u) \ Alone(u)]
  <2>2. Alone(u) \subseteq Workspaces /\ Joined(u) \subseteq Workspaces
    BY DEF Alone, Joined
  <2>3. /\ q \in Request /\ q.step # "idle" /\ q.op = "deleteAccount" /\ q.by = u
        /\ q.seen = {} /\ q.alone = Alone(u)
    BY <2>2 DEF Free, Request, Ops, Roles
  <2> HIDE DEF q
  <2>4. RequestSound(q) /\ StillKnows(q)
    BY <2>1, <2>3 DEF RequestSound, NamesSound, SeenSound, AnswerSound, StillKnows
  <2> QED
    BY <2>1, <2>3, <2>4, StartInv DEF q
<1> QED
  BY <1>1, <1>2

-----------------------------------------------------------------------------
(* The second readings. *)

LEMMA SparedUnlessLast ==
    ASSUME NEW w \in Workspaces, NEW u \in Users, ~LastOwner(w)
    PROVE  Spared(w, u)
<1>1. SUFFICES ASSUME Owners(w) \subseteq {u} PROVE FALSE
  BY DEF Spared
<1>2. Owners(w) = {} \/ Owners(w) = {u}
  BY <1>1
<1>3. Cardinality({}) = 0
  BY FS_EmptySet
<1>4. Cardinality({u}) = 1
  BY FS_Singleton
<1> QED
  BY <1>2, <1>3, <1>4 DEF LastOwner

LEMMA CheckInv ==
    ASSUME TenancyInv, NEW c \in Calls, NEW op, NEW allowed, NEW q, Check(c, op, allowed, q),
           allowed => /\ [q EXCEPT !.step = "checked"] \in Request
                      /\ RequestSound([q EXCEPT !.step = "checked"])
                      /\ ~crossed => StillKnows([q EXCEPT !.step = "checked"])
    PROVE  TenancyInv'
<1>1. request[c].step # "idle" /\ UNCHANGED <<rowVars, crossed>>
  BY DEF Check
<1>2. CASE allowed
  <2>1. request' = [request EXCEPT ![c] = [q EXCEPT !.step = "checked"]]
    BY <1>2 DEF Check
  <2> QED
    BY <1>1, <1>2, <2>1, ReadInv
<1>3. CASE ~allowed
  <2>1. request' = [request EXCEPT ![c] = Free]
    BY <1>3 DEF Check
  <2> QED
    BY <1>1, <2>1, FreeInv
<1> QED
  BY <1>2, <1>3

\* What a request has loaded when it reads for the second time.
LEMMA AccountLoaded ==
    ASSUME TenancyInv, NEW c \in Calls
    PROVE  /\ request[c] \in Request /\ RequestSound(request[c])
           /\ ~crossed => StillKnows(request[c])
BY TypeFacts DEF TenancyInv, RequestsSound, OneAtATime

LEMMA CheckTargetInv ==
    ASSUME TenancyInv, NEW c \in Calls, CheckRole(c) \/ CheckRemoval(c)
    PROVE  TenancyInv'
<1> DEFINE q == request[c]
           r == [q EXCEPT !.seen = @ \union {q.who}, !.was = TargetRole(q)]
           p == [r EXCEPT !.step = "checked"]
<1>1. PICK op \in {"setRole", "remove"} :
          LET losesOwner == TargetRole(q) = "OWNER" /\ (op = "setRole" => q.role = "USER")
          IN  Check(c, op, role[q.ws][q.who] # "none" /\ (losesOwner => ~LastOwner(q.ws)), r)
  BY DEF CheckRole, CheckRemoval, CheckTarget
<1>2. /\ q \in Request /\ RequestSound(q) /\ (~crossed => StillKnows(q))
      /\ q.op = op /\ q.step = "loaded"
  BY <1>1, AccountLoaded DEF Check
<1>3. q.by \in Users /\ q.ws \in Workspaces /\ q.who \in Users
  BY <1>2 DEF RequestSound, NamesSound
<1>4. ASSUME role[q.ws][q.who] # "none",
             TargetRole(q) = "OWNER" /\ (op = "setRole" => q.role = "USER")
                 => ~LastOwner(q.ws)
      PROVE  /\ p \in Request /\ RequestSound(p)
             /\ ~crossed => StillKnows(p)
  <2>1. TargetRole(q) \in Roles
    BY <1>3, <1>4, TypeFacts DEF TargetRole, Roles
  <2>2. /\ p \in Request /\ p.step = "checked" /\ p.op = op /\ p.by = q.by /\ p.ws = q.ws
        /\ p.who = q.who /\ p.role = q.role /\ p.seen = q.seen \union {q.who}
    BY <1>2, <1>3, <2>1 DEF Request
  <2> HIDE DEF p
  <2>3. RequestSound(p)
    BY <1>2, <1>3, <1>4, <2>2 DEF RequestSound, NamesSound, SeenSound, AnswerSound
  <2>4. ASSUME ~crossed, role[q.ws][q.who] = "OWNER", op = "setRole" => q.role = "USER"
        PROVE  Spared(q.ws, q.who)
    BY <1>3, <1>4, <2>4, SparedUnlessLast DEF TargetRole
  <2>5. ~crossed => StillKnows(p)
    BY <2>2, <2>4 DEF StillKnows
  <2> QED
    BY <2>2, <2>3, <2>5
<1> QED
  BY <1>1, <1>4, CheckInv

LEMMA CheckMemberInv ==
    ASSUME TenancyInv, NEW c \in Calls, CheckLeave(c) \/ CheckDeletion(c)
    PROVE  TenancyInv'
<1> DEFINE q == request[c]
<1>1. /\ q \in Request /\ RequestSound(q) /\ (~crossed => StillKnows(q))
  BY AccountLoaded
<1>2. CASE CheckLeave(c)
  <2> DEFINE p == [q EXCEPT !.step = "checked"]
  <2>1. /\ Check(c, "leave", q.was = "OWNER" => ~LastOwner(q.ws), q)
        /\ q.op = "leave" /\ q.step = "loaded"
    BY <1>2 DEF CheckLeave, Check
  <2>2. q.by \in Users /\ q.ws \in Workspaces /\ q.who \in Users
    BY <1>1, <2>1 DEF RequestSound, NamesSound
  <2>3. /\ p \in Request /\ p.step = "checked" /\ p.op = q.op /\ p.by = q.by
        /\ p.ws = q.ws /\ p.who = q.who /\ p.seen = q.seen
    BY <1>1 DEF Request
  <2> HIDE DEF p
  <2>4. RequestSound(p)
    BY <1>1, <2>1, <2>2, <2>3 DEF RequestSound, NamesSound, SeenSound, AnswerSound
  <2>5. ASSUME q.was = "OWNER" => ~LastOwner(q.ws), ~crossed PROVE StillKnows(p)
    BY <1>1, <2>1, <2>2, <2>3, <2>5, SparedUnlessLast DEF StillKnows
  <2> QED
    BY <2>1, <2>3, <2>4, <2>5, CheckInv DEF p
<1>3. CASE CheckDeletion(c)
  <2> DEFINE r == [q EXCEPT !.seen = Members(q.ws)]
             p == [r EXCEPT !.step = "checked"]
  <2>1. /\ Check(c, "deleteWorkspace", TRUE, r)
        /\ q.op = "deleteWorkspace" /\ q.step = "loaded"
    BY <1>3 DEF CheckDeletion, Check
  <2>2. q.by \in Users /\ q.ws \in Workspaces
    BY <1>1, <2>1 DEF RequestSound, NamesSound
  <2>3. /\ p \in Request /\ p.step = "checked" /\ p.op = q.op /\ p.by = q.by
        /\ p.ws = q.ws /\ p.seen = Members(q.ws)
    BY <1>1 DEF Request, Members
  <2> HIDE DEF p
  <2>4. RequestSound(p)
    BY <2>1, <2>2, <2>3 DEF RequestSound, NamesSound, SeenSound, AnswerSound, Members
  <2>5. StillKnows(p)
    BY <2>1, <2>3 DEF StillKnows
  <2> QED
    BY <2>1, <2>3, <2>4, <2>5, CheckInv DEF p
<1> QED
  BY <1>2, <1>3

LEMMA CheckInvitationInv ==
    ASSUME TenancyInv, NEW c \in Calls,
           CheckInvite(c) \/ CheckCancel(c) \/ CheckList(c) \/ CheckAccept(c)
    PROVE  TenancyInv'
<1> DEFINE q == request[c]
<1>1. /\ q \in Request /\ RequestSound(q) /\ (~crossed => StillKnows(q))
  BY AccountLoaded
<1>2. CASE CheckInvite(c)
  <2> DEFINE r == [q EXCEPT !.invs = Overdue(q.ws, q.who), !.known = account[q.who] = "live"]
             p == [r EXCEPT !.step = "checked"]
             allowed == /\ account[q.who] = "live" => role[q.ws][q.who] = "none"
                        /\ Pending(q.ws, q.who) \subseteq late
                        /\ Cardinality(Pending(q.ws, q.who)) <= 1
  <2>1. Check(c, "invite", allowed, r) /\ q.op = "invite" /\ q.step = "loaded"
    BY <1>2 DEF CheckInvite, Check
  <2>2. q.by \in Users /\ q.ws \in Workspaces /\ q.who \in Users
    BY <1>1, <2>1 DEF RequestSound, NamesSound
  <2>3. /\ p \in Request /\ p.step = "checked" /\ p.op = q.op /\ p.by = q.by
        /\ p.ws = q.ws /\ p.who = q.who /\ p.seen = q.seen
        /\ p.invs = Overdue(q.ws, q.who)
    BY <1>1 DEF Request, Overdue, Pending
  <2> HIDE DEF p
  <2>4. RequestSound(p)
    BY <1>1, <2>1, <2>2, <2>3 DEF RequestSound, NamesSound, SeenSound, AnswerSound
  <2>5. ASSUME Pending(q.ws, q.who) \subseteq late PROVE StillKnows(p)
    BY <2>1, <2>3, <2>5 DEF StillKnows, Overdue, Pending
  <2> QED
    BY <2>1, <2>3, <2>4, <2>5, CheckInv DEF p
<1>3. CASE CheckCancel(c) \/ CheckAccept(c)
  <2>1. PICK op \in {"cancel", "accept"}, allowed \in BOOLEAN, known \in BOOLEAN :
            Check(c, op, allowed, [q EXCEPT !.known = known])
    <3>1. q = [q EXCEPT !.known = q.known] /\ q.known \in BOOLEAN
      BY <1>1 DEF Request
    <3> QED
      BY <1>3, <3>1 DEF CheckCancel, CheckAccept
  <2> DEFINE r == [q EXCEPT !.known = known]
             p == [r EXCEPT !.step = "checked"]
  <2>2. q.op = op /\ q.step = "loaded"
    BY <2>1 DEF Check
  <2>3. /\ p \in Request /\ p.step = "checked" /\ p.op = q.op /\ p.by = q.by
        /\ p.ws = q.ws /\ p.who = q.who /\ p.seen = q.seen /\ p.invs = q.invs
    BY <1>1 DEF Request
  <2> HIDE DEF p
  <2>4. RequestSound(p)
    BY <1>1, <2>2, <2>3 DEF RequestSound, NamesSound, SeenSound, AnswerSound, MayAnswer
  <2>5. ~crossed => StillKnows(p)
    BY <1>1, <2>2, <2>3 DEF StillKnows
  <2> QED
    BY <2>1, <2>3, <2>4, <2>5, CheckInv DEF p
<1>4. CASE CheckList(c)
  <2> DEFINE all == UNION {Overdue(q.ws, u) : u \in Users}
             r == [q EXCEPT !.op = "expire", !.invs = all]
             p == [r EXCEPT !.step = "checked"]
  <2>1. /\ Check(c, "list", workspace[q.ws] = "live", r)
        /\ q.op = "list" /\ q.step = "loaded"
    BY <1>4 DEF CheckList, Check
  <2>2. \A i \in all : i \in Invitations /\ invitation[i].status = "PENDING"
    BY DEF Overdue, Pending
  <2>3. /\ p \in Request /\ p.step = "checked" /\ p.op = "expire" /\ p.by = q.by
        /\ p.ws = q.ws /\ p.seen = q.seen
        /\ \A i \in p.invs : invitation[i].status = "PENDING"
    BY <1>1, <2>2 DEF Request, Ops
  <2> HIDE DEF p
  <2>4. RequestSound(p)
    BY <1>1, <2>1, <2>3 DEF RequestSound, NamesSound, SeenSound, AnswerSound
  <2>5. StillKnows(p)
    BY <2>3 DEF StillKnows
  <2> QED
    BY <2>1, <2>3, <2>4, <2>5, CheckInv DEF p
<1> QED
  BY <1>2, <1>3, <1>4

-----------------------------------------------------------------------------
(* The commits. *)

\* What a request that is ready knows when it commits.
LEMMA ReadyFacts ==
    ASSUME TenancyInv, NEW c \in Calls, NEW op, Ready(c, op)
    PROVE  /\ request[c] \in Request /\ RequestSound(request[c])
           /\ request[c].step = "checked" /\ request[c].op = op
           /\ request[c].step # "idle" /\ request[c].by \in Users
           /\ ~crossed => StillKnows(request[c])
BY AccountLoaded DEF Ready, RequestSound, NamesSound

\* Steps outside a request that change neither memberships nor invitations.
LEMMA OutsideInv ==
    ASSUME TenancyInv, UNCHANGED <<role, invitation, workspace, request, crossed>>,
           RowsTypeOK', MembersExist'
    PROVE  TenancyInv'
<1>1. TenancyTypeOK'
  BY DEF TenancyInv, TenancyTypeOK, RowsTypeOK
<1>2. OwnedWorkspace' /\ InvitationsExist' /\ PendingIsOne'
  BY DEF TenancyInv, RowsSound, OwnedWorkspace, Owners, InvitationsExist, Exists, PendingIsOne, Pending
<1>3. RequestsSound'
  BY DEF TenancyInv, RequestsSound, RequestSound, NamesSound, SeenSound, AnswerSound, MayAnswer, Exists
<1>4. OneAtATime'
  <2> SUFFICES ASSUME ~crossed, NEW d \in Calls
               PROVE  StillKnows(request[d])' 
    BY DEF OneAtATime, TenancyInv
  <2>1. StillKnows(request[d])
    BY DEF OneAtATime, TenancyInv
  <2> QED
    BY <2>1 DEF StillKnows, Owners, Members, Spared, Pending, Blocking, Alone, Joined
<1> QED
  BY <1>1, <1>2, <1>3, <1>4 DEF TenancyInv, RowsSound

\* A commit that leaves the invitations alone keeps what is known of them.
LEMMA SameInvitations ==
    ASSUME TenancyInv, UNCHANGED <<invitation, workspace, crossed>>
    PROVE  KeepsInvitations /\ InvitationsExist' /\ PendingIsOne'
BY DEF TenancyInv, RowsSound, KeepsInvitations, InvitationsExist, PendingIsOne, Pending, Exists

\* The role of a member changes, or the membership ends.
LEMMA RoleCommitInv ==
    ASSUME TenancyInv, NEW c \in Calls, request[c].step # "idle",
           NEW w \in Workspaces, NEW u \in Users, NEW r \in Roles \union {"none"},
           CommitRows(c, [role EXCEPT ![w][u] = r]),
           UNCHANGED <<account, workspace, invitation, inTeam, late>>,
           role[w][u] # "none",
           ~crossed /\ role[w][u] = "OWNER" /\ r # "OWNER" => Spared(w, u)
    PROVE  TenancyInv'
<1>1. /\ role' = [role EXCEPT ![w][u] = r] /\ crossed' = crossed
      /\ role \in [Workspaces -> [Users -> Roles \union {"none"}]]
  BY TypeFacts DEF CommitRows
<1>2. RowsTypeOK'
  BY <1>1, TypeFacts DEF RowsTypeOK
<1>3. \A x \in Workspaces, v \in Users :
          role'[x][v] = IF x = w /\ v = u THEN r ELSE role[x][v]
  BY <1>1
<1>4. OwnedWorkspace'
  <2> SUFFICES ASSUME ~crossed, NEW x \in Workspaces, workspace[x] = "live"
               PROVE  \E v \in Users : role'[x][v] = "OWNER"
    BY <1>1 DEF OwnedWorkspace, Owners
  <2>1. PICK v \in Users : role[x][v] = "OWNER"
    BY DEF TenancyInv, RowsSound, OwnedWorkspace, Owners
  <2>2. CASE x # w \/ v # u \/ r = "OWNER"
    BY <1>3, <2>1, <2>2
  <2>3. CASE x = w /\ v = u /\ r # "OWNER"
    <3>1. PICK v2 \in Users : v2 # u /\ role[w][v2] = "OWNER"
      BY <2>1, <2>3 DEF Spared, Owners
    <3> QED
      BY <1>3, <2>3, <3>1
  <2> QED
    BY <2>2, <2>3
<1>5. MembersExist'
  BY <1>3 DEF TenancyInv, RowsSound, MembersExist
<1> QED
  BY <1>1, <1>2, <1>4, <1>5, SameInvitations, CommitInv DEF RowsSound

\* No membership changes.
LEMMA SameRolesInv ==
    ASSUME TenancyInv, NEW c \in Calls, request[c].step # "idle", CommitRows(c, role),
           UNCHANGED workspace, RowsTypeOK', MembersExist', InvitationsExist', PendingIsOne',
           KeepsInvitations
    PROVE  TenancyInv'
<1>1. role' = role /\ crossed' = crossed
  BY DEF CommitRows
<1>2. OwnedWorkspace'
  BY <1>1 DEF TenancyInv, RowsSound, OwnedWorkspace, Owners
<1> QED
  BY <1>2, CommitInv DEF RowsSound

LEMMA MemberCommitInv ==
    ASSUME TenancyInv, NEW c \in Calls,
           UpdateMemberRole(c) \/ RemoveMember(c) \/ LeaveWorkspace(c)
    PROVE  TenancyInv'
<1> DEFINE q == request[c]
<1>1. PICK op \in {"setRole", "remove", "leave"}, r \in Roles \union {"none"} :
          /\ Ready(c, op)
          /\ op = "setRole" => r = q.role
          /\ CommitRows(c, IF Held(q) /\ (op = "setRole" => q.role # q.was)
                           THEN [role EXCEPT ![q.ws][q.who] = r] ELSE role)
  <2>1. CASE UpdateMemberRole(c)
    <3>1. q.role \in Roles
      BY <2>1, ReadyFacts DEF UpdateMemberRole, Request
    <3> QED
      BY <2>1, <3>1 DEF UpdateMemberRole
  <2>2. CASE RemoveMember(c) \/ LeaveWorkspace(c)
    BY <2>2 DEF RemoveMember, LeaveWorkspace, DeleteMembership
  <2> QED
    BY <2>1, <2>2
<1>2. UNCHANGED <<account, workspace, invitation, inTeam, late>>
  BY DEF UpdateMemberRole, RemoveMember, LeaveWorkspace, DeleteMembership
<1>3. /\ q \in Request /\ RequestSound(q) /\ (~crossed => StillKnows(q))
      /\ q.step = "checked" /\ q.op = op
  BY <1>1, ReadyFacts
<1>4. q.ws \in Workspaces /\ q.who \in Users
  BY <1>3 DEF RequestSound, NamesSound
<1>5. CASE Held(q) /\ (op = "setRole" => q.role # q.was)
  <2>1. role[q.ws][q.who] # "none"
    BY <1>3, <1>5 DEF Held, RequestSound, SeenSound
  <2>2. ASSUME ~crossed, role[q.ws][q.who] = "OWNER", r # "OWNER" PROVE Spared(q.ws, q.who)
    BY <1>1, <1>3, <2>2 DEF StillKnows, Request, Roles
  <2> QED
    BY <1>1, <1>2, <1>3, <1>4, <1>5, <2>1, <2>2, RoleCommitInv
<1>6. CASE ~(Held(q) /\ (op = "setRole" => q.role # q.was))
  <2>1. CommitRows(c, role)
    BY <1>1, <1>6
  <2>2. role' = role /\ crossed' = crossed
    BY <2>1 DEF CommitRows
  <2>3. RowsTypeOK' /\ MembersExist'
    BY <1>2, <2>2, TypeFacts DEF RowsTypeOK, MembersExist, TenancyInv, RowsSound
  <2> QED
    BY <1>2, <1>3, <2>1, <2>2, <2>3, SameInvitations, SameRolesInv
<1> QED
  BY <1>5, <1>6

LEMMA TeamCommitInv ==
    ASSUME TenancyInv, NEW c \in Calls, AddTeamMember(c) \/ RemoveTeamMember(c)
    PROVE  TenancyInv'
<1> DEFINE q == request[c]
<1>1. PICK op \in {"joinTeam", "quitTeam"} : Ready(c, op)
  BY DEF AddTeamMember, RemoveTeamMember
<1>2. /\ CommitRows(c, role) /\ UNCHANGED <<account, workspace, invitation, late>>
      /\ role' = role /\ crossed' = crossed
  BY DEF AddTeamMember, RemoveTeamMember, CommitRows
<1>3. q.ws \in Workspaces /\ q.who \in Users /\ q.step # "idle"
  BY <1>1, ReadyFacts DEF RequestSound, NamesSound
<1>4. CASE AddTeamMember(c)
  <2>1. /\ inTeam' = [inTeam EXCEPT ![q.ws] = @ \union {q.who}]
        /\ workspace[q.ws] = "live" /\ account[q.who] = "live"
    BY <1>4 DEF AddTeamMember
  <2>2. RowsTypeOK'
    BY <1>2, <1>3, <2>1, TypeFacts DEF RowsTypeOK
  <2>3. MembersExist'
    BY <1>2, <1>3, <2>1, TypeFacts DEF RowsTypeOK, MembersExist, TenancyInv, RowsSound
  <2> QED
    BY <1>2, <1>3, <2>2, <2>3, SameInvitations, SameRolesInv
<1>5. CASE RemoveTeamMember(c)
  <2>1. inTeam' = [inTeam EXCEPT ![q.ws] = @ \ {q.who}]
    BY <1>5 DEF RemoveTeamMember
  <2>2. RowsTypeOK'
    BY <1>2, <1>3, <2>1, TypeFacts DEF RowsTypeOK
  <2>3. MembersExist'
    BY <1>2, <1>3, <2>1, TypeFacts DEF RowsTypeOK, MembersExist, TenancyInv, RowsSound
  <2> QED
    BY <1>2, <1>3, <2>2, <2>3, SameInvitations, SameRolesInv
<1> QED
  BY <1>4, <1>5

LEMMA OutsideStepInv ==
    ASSUME TenancyInv
    PROVE  /\ \A c \in Calls : DeleteTeam(c) => TenancyInv'
           /\ \A u \in Users : SignUp(u) => TenancyInv'
           /\ \A i \in Invitations : TimePasses(i) => TenancyInv'
<1>1. ASSUME NEW c \in Calls, DeleteTeam(c) PROVE TenancyInv'
  <2>1. PICK w \in Workspaces : inTeam' = [inTeam EXCEPT ![w] = {}]
    BY <1>1 DEF DeleteTeam
  <2>2. UNCHANGED <<account, workspace, role, invitation, late, request, crossed>>
    BY <1>1 DEF DeleteTeam
  <2> QED
    BY <2>1, <2>2, TypeFacts, OutsideInv DEF RowsTypeOK, MembersExist, TenancyInv, RowsSound
<1>2. ASSUME NEW u \in Users, SignUp(u) PROVE TenancyInv'
  <2>1. RowsTypeOK' /\ MembersExist'
    BY <1>2, TypeFacts DEF SignUp, RowsTypeOK, MembersExist, TenancyInv, RowsSound, Lives
  <2> QED
    BY <1>2, <2>1, OutsideInv DEF SignUp
<1>3. ASSUME NEW i \in Invitations, TimePasses(i) PROVE TenancyInv'
  <2>1. RowsTypeOK' /\ MembersExist'
    BY <1>3, TypeFacts DEF TimePasses, RowsTypeOK, MembersExist, TenancyInv, RowsSound
  <2> QED
    BY <1>3, <2>1, OutsideInv DEF TimePasses
<1> QED
  BY <1>1, <1>2, <1>3

\* A commit that sends no invitation: each stays as it is, is answered, expires
\* or goes.
LEMMA InvitationsEnd ==
    ASSUME TenancyInv, UNCHANGED crossed,
           \A i \in Invitations :
              /\ \/ invitation'[i] = invitation[i]
                 \/ /\ invitation'[i].status \notin {"new", "PENDING"}
                    /\ Exists(i)' => /\ Exists(i)
                                    /\ invitation'[i].ws = invitation[i].ws
                                    /\ invitation'[i].invitee = invitation[i].invitee
              /\ Exists(i)' => workspace'[invitation[i].ws] = workspace[invitation[i].ws]
    PROVE  KeepsInvitations /\ InvitationsExist' /\ PendingIsOne'
<1>1. KeepsInvitations
  BY DEF KeepsInvitations, Exists
<1>2. InvitationsExist'
  BY DEF TenancyInv, RowsSound, InvitationsExist, Exists
<1>3. PendingIsOne'
  <2>1. \A w \in Workspaces, u \in Users : Pending(w, u)' \subseteq Pending(w, u)
    BY DEF Pending, Exists, InvitationStatus
  <2> QED
    BY <2>1 DEF TenancyInv, RowsSound, PendingIsOne
<1> QED
  BY <1>1, <1>2, <1>3

LEMMA ExistingRow ==
    ASSUME TenancyInv, NEW i \in Invitations, Exists(i)
    PROVE  invitation[i] \in Invitation /\ workspace[invitation[i].ws] = "live"
<1>1. invitation[i] \in Invitation \union {NoInvitation, Deleted}
  BY TypeFacts DEF RowsTypeOK
<1> QED
  BY <1>1 DEF Exists, InvitationStatus, NoInvitation, Deleted, TenancyInv, RowsSound, InvitationsExist

LEMMA MarkedRow ==
    ASSUME TenancyInv, NEW i \in Invitations, Exists(i), NEW s \in InvitationStatus,
           NEW row, \/ row = [invitation[i] EXCEPT !.status = s]
                    \/ row = [invitation[i] EXCEPT !.status = s, !.known = TRUE]
    PROVE  /\ row \in Invitation /\ row.status = s
           /\ row.ws = invitation[i].ws /\ row.invitee = invitation[i].invitee
BY ExistingRow DEF Invitation, InvitationStatus

LEMMA CancelInv ==
    ASSUME TenancyInv, NEW c \in Calls, CancelInvitation(c)
    PROVE  TenancyInv'
<1>1. /\ Ready(c, "cancel") /\ CommitRows(c, role) /\ role' = role /\ crossed' = crossed
      /\ invitation' = [i \in Invitations |->
             IF i \in request[c].invs THEN Deleted ELSE invitation[i]]
      /\ UNCHANGED <<account, workspace, inTeam, late>>
  BY DEF CancelInvitation, CommitRows
<1>2. RowsTypeOK'
  BY <1>1, TypeFacts DEF RowsTypeOK
<1>3. MembersExist'
  BY <1>1 DEF MembersExist, TenancyInv, RowsSound
<1>4. KeepsInvitations /\ InvitationsExist' /\ PendingIsOne'
  <2>1. Deleted.status = "gone"
    BY DEF Deleted, NoInvitation
  <2> QED
    BY <1>1, <2>1, InvitationsEnd DEF Exists, InvitationStatus
<1> QED
  BY <1>1, <1>2, <1>3, <1>4, ReadyFacts, SameRolesInv

LEMMA ExpireInv ==
    ASSUME TenancyInv, NEW c \in Calls, ExpireInvitations(c)
    PROVE  TenancyInv'
<1> DEFINE q == request[c]
<1>1. /\ Ready(c, "expire") /\ CommitRows(c, role) /\ role' = role /\ crossed' = crossed
      /\ \A i \in q.invs : Exists(i)
      /\ invitation' = [i \in Invitations |->
             IF i \in q.invs THEN [invitation[i] EXCEPT !.status = "EXPIRED"]
             ELSE invitation[i]]
      /\ UNCHANGED <<account, workspace, inTeam, late>>
  BY DEF ExpireInvitations, WriteStatus, CommitRows
<1>2. ASSUME NEW i \in Invitations, i \in q.invs
      PROVE  /\ invitation'[i] \in Invitation /\ invitation'[i].status = "EXPIRED"
             /\ invitation'[i].ws = invitation[i].ws
             /\ invitation'[i].invitee = invitation[i].invitee
  <2>1. Exists(i) /\ invitation'[i] = [invitation[i] EXCEPT !.status = "EXPIRED"]
    BY <1>1, <1>2
  <2> QED
    BY <2>1, MarkedRow DEF InvitationStatus
<1>3. RowsTypeOK'
  BY <1>1, <1>2, TypeFacts DEF RowsTypeOK
<1>4. MembersExist'
  BY <1>1 DEF MembersExist, TenancyInv, RowsSound
<1>5. KeepsInvitations /\ InvitationsExist' /\ PendingIsOne'
  BY <1>1, <1>2, InvitationsEnd
<1> QED
  BY <1>1, <1>3, <1>4, <1>5, ReadyFacts, SameRolesInv

\* What an answer does to the rows, whatever becomes of the membership.
LEMMA AnswerRows ==
    ASSUME TenancyInv, NEW c \in Calls, NEW s \in {"ACCEPTED", "DECLINED"}, Answer(c, s),
           UNCHANGED crossed
    PROVE  /\ invitation' \in [Invitations -> Invitation \union {NoInvitation, Deleted}]
           /\ KeepsInvitations /\ InvitationsExist' /\ PendingIsOne'
           /\ account[request[c].by] = "live"
           /\ \A i \in request[c].invs : Exists(i)
           /\ UNCHANGED <<account, workspace, inTeam, late>>
<1> DEFINE q == request[c]
<1>1. /\ \A i \in q.invs : Exists(i)
      /\ invitation' = [i \in Invitations |->
             IF i \in q.invs THEN [invitation[i] EXCEPT !.status = s, !.known = TRUE]
             ELSE invitation[i]]
      /\ account[q.by] = "live"
      /\ UNCHANGED <<account, workspace, inTeam, late>>
  BY DEF Answer
<1>2. ASSUME NEW i \in Invitations, i \in q.invs
      PROVE  /\ invitation'[i] \in Invitation /\ invitation'[i].status = s
             /\ invitation'[i].ws = invitation[i].ws
             /\ invitation'[i].invitee = invitation[i].invitee
  <2>1. Exists(i) /\ invitation'[i] = [invitation[i] EXCEPT !.status = s, !.known = TRUE]
    BY <1>1, <1>2
  <2>2. s \in InvitationStatus
    BY DEF InvitationStatus
  <2> QED
    BY <2>1, <2>2, ExistingRow DEF Invitation
<1>3. invitation' \in [Invitations -> Invitation \union {NoInvitation, Deleted}]
  BY <1>1, <1>2, TypeFacts DEF RowsTypeOK
<1>4. KeepsInvitations /\ InvitationsExist' /\ PendingIsOne'
  BY <1>1, <1>2, InvitationsEnd
<1> QED
  BY <1>1, <1>3, <1>4

LEMMA DeclineInv ==
    ASSUME TenancyInv, NEW c \in Calls, DeclineInvitation(c)
    PROVE  TenancyInv'
<1>1. /\ Ready(c, "decline") /\ Answer(c, "DECLINED") /\ CommitRows(c, role)
      /\ role' = role /\ crossed' = crossed
  BY DEF DeclineInvitation, CommitRows
<1>2. /\ invitation' \in [Invitations -> Invitation \union {NoInvitation, Deleted}]
      /\ KeepsInvitations /\ InvitationsExist' /\ PendingIsOne'
      /\ UNCHANGED <<account, workspace, inTeam, late>>
  BY <1>1, AnswerRows
<1>3. RowsTypeOK' /\ MembersExist'
  BY <1>1, <1>2, TypeFacts DEF RowsTypeOK, MembersExist, TenancyInv, RowsSound
<1> QED
  BY <1>1, <1>2, <1>3, ReadyFacts, SameRolesInv

\* Who accepts joins the workspace of his invitation, which is still there.
LEMMA AcceptInv ==
    ASSUME TenancyInv, NEW c \in Calls, AcceptInvitation(c)
    PROVE  TenancyInv'
<1> DEFINE q == request[c]
<1>1. Ready(c, "accept") /\ Answer(c, "ACCEPTED") /\ crossed' = crossed
  BY DEF AcceptInvitation, CommitRows
<1>2. /\ invitation' \in [Invitations -> Invitation \union {NoInvitation, Deleted}]
      /\ KeepsInvitations /\ InvitationsExist' /\ PendingIsOne'
      /\ account[q.by] = "live" /\ \A i \in q.invs : Exists(i)
      /\ UNCHANGED <<account, workspace, inTeam, late>>
  BY <1>1, AnswerRows
<1>3. PICK i \in Invitations : q.invs = {i} /\ MayAnswer(q, i)
  BY <1>1, ReadyFacts DEF RequestSound, AnswerSound
<1>4. /\ invitation[i] \in Invitation /\ invitation[i].ws = q.ws
      /\ workspace[q.ws] = "live" /\ q.ws \in Workspaces /\ q.by \in Users
      /\ q.step # "idle"
  BY <1>1, <1>2, <1>3, ReadyFacts, ExistingRow DEF MayAnswer, Invitation
<1>5. CASE CommitRows(c, role)
  <2>1. role' = role
    BY <1>5 DEF CommitRows
  <2>2. RowsTypeOK' /\ MembersExist'
    BY <1>2, <2>1, TypeFacts DEF RowsTypeOK, MembersExist, TenancyInv, RowsSound
  <2> QED
    BY <1>2, <1>4, <1>5, <2>2, SameRolesInv
<1>6. CASE CommitRows(c, [role EXCEPT ![q.ws][q.by] = invitation[i].role])
           /\ role[q.ws][q.by] = "none"
  <2>1. /\ role' = [role EXCEPT ![q.ws][q.by] = invitation[i].role]
        /\ invitation[i].role \in Roles /\ crossed' = crossed
    BY <1>1, <1>4, <1>6 DEF CommitRows, Invitation
  <2>2. \A w \in Workspaces, u \in Users :
            role'[w][u] = IF w = q.ws /\ u = q.by THEN invitation[i].role ELSE role[w][u]
    BY <1>4, <2>1, TypeFacts
  <2>3. RowsTypeOK'
    BY <1>2, <1>4, <2>1, TypeFacts DEF RowsTypeOK
  <2>4. OwnedWorkspace'
    <3> SUFFICES ASSUME ~crossed, NEW w \in Workspaces, workspace[w] = "live"
                 PROVE  \E u \in Users : role'[w][u] = "OWNER"
      BY <1>2, <2>1 DEF OwnedWorkspace, Owners
    <3>1. PICK u \in Users : role[w][u] = "OWNER"
      BY DEF TenancyInv, RowsSound, OwnedWorkspace, Owners
    <3> QED
      BY <1>6, <2>2, <3>1
  <2>5. MembersExist'
    BY <1>2, <1>4, <2>2 DEF MembersExist, TenancyInv, RowsSound
  <2> QED
    BY <1>2, <1>4, <1>6, <2>3, <2>4, <2>5, CommitInv DEF RowsSound
<1> QED
  BY <1>3, <1>5, <1>6 DEF AcceptInvitation

\* The one that is overdue expires with the commit that sends another.
LEMMA InviteInv ==
    ASSUME TenancyInv, NEW c \in Calls, InviteMember(c)
    PROVE  TenancyInv'
<1> DEFINE q == request[c]
<1>1. PICK new \in Invitations :
          /\ invitation[new] = NoInvitation
          /\ invitation' = [i \in Invitations |->
               IF i = new THEN [status |-> "PENDING", ws |-> q.ws, inviter |-> q.by,
                                invitee |-> q.who, role |-> q.role, known |-> q.known]
               ELSE IF i \in q.invs THEN [invitation[i] EXCEPT !.status = "EXPIRED"]
               ELSE invitation[i]]
  BY DEF InviteMember
<1>2. /\ Ready(c, "invite") /\ CommitRows(c, role) /\ role' = role /\ crossed' = crossed
      /\ \A i \in q.invs : Exists(i)
      /\ workspace[q.ws] = "live"
      /\ UNCHANGED <<account, workspace, inTeam, late>>
  BY DEF InviteMember, CommitRows
<1>3. /\ q \in Request /\ RequestSound(q) /\ (~crossed => StillKnows(q))
      /\ q.step = "checked" /\ q.op = "invite"
  BY <1>2, ReadyFacts
<1>4. q.by \in Users /\ q.ws \in Workspaces /\ q.who \in Users
  BY <1>3 DEF RequestSound, NamesSound
<1>5. /\ invitation'[new] \in Invitation /\ invitation'[new].status = "PENDING"
      /\ invitation'[new].ws = q.ws /\ invitation'[new].invitee = q.who
  BY <1>1, <1>3, <1>4 DEF Invitation, InvitationStatus, Request
<1>6. invitation[new].status = "new"
  BY <1>1 DEF NoInvitation
<1>7. ASSUME NEW i \in Invitations, i \in q.invs
      PROVE  /\ invitation'[i] \in Invitation /\ invitation'[i].status = "EXPIRED"
             /\ invitation'[i].ws = invitation[i].ws
             /\ invitation'[i].invitee = invitation[i].invitee
  <2>1. Exists(i)
    BY <1>2, <1>7
  <2>2. i # new
    BY <1>6, <2>1 DEF Exists, InvitationStatus
  <2>3. invitation'[i] = [invitation[i] EXCEPT !.status = "EXPIRED"]
    BY <1>1, <1>7, <2>2
  <2> QED
    BY <2>1, <2>3, MarkedRow DEF InvitationStatus
<1>8. \A i \in Invitations \ q.invs : i # new => invitation'[i] = invitation[i]
  BY <1>1
<1>9. RowsTypeOK'
  BY <1>1, <1>2, <1>5, <1>7, <1>8, TypeFacts DEF RowsTypeOK
<1>10. MembersExist'
  BY <1>2 DEF MembersExist, TenancyInv, RowsSound
<1>11. KeepsInvitations
  BY <1>2, <1>6, <1>7, <1>8 DEF KeepsInvitations, Exists
<1>12. InvitationsExist'
  BY <1>2, <1>5, <1>7, <1>8 DEF InvitationsExist, Exists, TenancyInv, RowsSound
<1>13. PendingIsOne'
  <2> SUFFICES ASSUME ~crossed, NEW w \in Workspaces, NEW u \in Users,
                      NEW i \in Pending(w, u)', NEW j \in Pending(w, u)'
               PROVE  i = j
    BY <1>2 DEF PendingIsOne
  <2>1. \A k \in Pending(w, u)' :
            k # new => k \in Pending(w, u) /\ k \notin q.invs
    BY <1>7, <1>8 DEF Pending
  <2>2. Pending(q.ws, q.who) \subseteq q.invs
    BY <1>3 DEF StillKnows
  <2>3. new \in Pending(w, u)' => w = q.ws /\ u = q.who
    BY <1>5 DEF Pending
  <2> QED
    BY <2>1, <2>2, <2>3 DEF TenancyInv, RowsSound, PendingIsOne
<1> QED
  BY <1>2, <1>3, <1>9, <1>10, <1>11, <1>12, <1>13, SameRolesInv

LEMMA CreateInv ==
    ASSUME TenancyInv, NEW c \in Calls, CreateWorkspace(c)
    PROVE  TenancyInv'
<1> DEFINE u == request[c].by
<1>1. PICK w \in Workspaces :
          /\ workspace[w] = "new" /\ account[u] = "live"
          /\ workspace' = [workspace EXCEPT ![w] = "live"]
          /\ CommitRows(c, [role EXCEPT ![w][u] = "OWNER"])
          /\ UNCHANGED <<account, invitation, inTeam, late>>
  BY DEF CreateWorkspace
<1>2. Ready(c, "create") /\ role' = [role EXCEPT ![w][u] = "OWNER"] /\ crossed' = crossed
  BY <1>1 DEF CreateWorkspace, CommitRows
<1>3. u \in Users /\ request[c].step # "idle"
  BY <1>2, ReadyFacts
<1>4. /\ \A x \in Workspaces, v \in Users :
             role'[x][v] = IF x = w /\ v = u THEN "OWNER" ELSE role[x][v]
      /\ \A x \in Workspaces : workspace'[x] = IF x = w THEN "live" ELSE workspace[x]
  BY <1>1, <1>2, <1>3, TypeFacts DEF RowsTypeOK
<1>5. RowsTypeOK'
  BY <1>1, <1>2, <1>3, TypeFacts DEF RowsTypeOK, Roles, Lives
<1>6. OwnedWorkspace'
  <2> SUFFICES ASSUME ~crossed, NEW x \in Workspaces, workspace'[x] = "live"
               PROVE  \E v \in Users : role'[x][v] = "OWNER"
    BY <1>2 DEF OwnedWorkspace, Owners
  <2>1. CASE x = w
    BY <1>3, <1>4, <2>1
  <2>2. CASE x # w
    BY <1>3, <1>4, <2>2 DEF TenancyInv, RowsSound, OwnedWorkspace, Owners
  <2> QED
    BY <2>1, <2>2
<1>7. MembersExist'
  BY <1>1, <1>3, <1>4 DEF MembersExist, TenancyInv, RowsSound
<1>8. KeepsInvitations
  BY <1>1 DEF KeepsInvitations, Exists
<1>9. InvitationsExist'
  <2> SUFFICES ASSUME NEW i \in Invitations, Exists(i)
               PROVE  workspace'[invitation[i].ws] = "live"
    BY <1>1 DEF InvitationsExist, Exists
  <2>1. invitation[i].ws \in Workspaces /\ workspace[invitation[i].ws] = "live"
    BY ExistingRow DEF Invitation
  <2> QED
    BY <1>4, <2>1
<1>10. PendingIsOne'
  BY <1>1, <1>2 DEF PendingIsOne, Pending, TenancyInv, RowsSound
<1> QED
  BY <1>1, <1>3, <1>5, <1>6, <1>7, <1>8, <1>9, <1>10, CommitInv DEF RowsSound

\* What a deletion leaves: the workspaces and accounts that it does not take, the
\* roles there, and the invitations that name none of what it takes.
Cascaded(ws, us) ==
    /\ workspace' \in [Workspaces -> Lives] /\ account' \in [Users -> Lives]
    /\ role' \in [Workspaces -> [Users -> Roles \union {"none"}]]
    /\ invitation' \in [Invitations -> Invitation \union {NoInvitation, Deleted}]
    /\ \A w \in Workspaces :
          (workspace'[w] = "live") <=> (workspace[w] = "live" /\ w \notin ws)
    /\ \A u \in Users : (account'[u] = "live") <=> (account[u] = "live" /\ u \notin us)
    /\ \A w \in Workspaces, u \in Users :
          role'[w][u] = IF w \in ws \/ u \in us THEN "none" ELSE role[w][u]
    /\ KeepsInvitations /\ InvitationsExist' /\ PendingIsOne'

LEMMA CascadeRows ==
    ASSUME TenancyInv, NEW ws, NEW us, Cascade(ws, us), role' = Without(ws, us),
           UNCHANGED crossed,
           workspace' = EndLives(workspace, ws), account' = EndLives(account, us)
    PROVE  Cascaded(ws, us)
<1>1. DOMAIN workspace = Workspaces /\ DOMAIN account = Users
  BY TypeFacts DEF RowsTypeOK
<1>2. workspace' \in [Workspaces -> Lives] /\ account' \in [Users -> Lives]
  BY <1>1, TypeFacts DEF RowsTypeOK, EndLives, Lives
<1>3. /\ \A w \in Workspaces :
             (workspace'[w] = "live") <=> (workspace[w] = "live" /\ w \notin ws)
      /\ \A u \in Users : (account'[u] = "live") <=> (account[u] = "live" /\ u \notin us)
  BY <1>1 DEF EndLives
<1>4. \A w \in Workspaces, u \in Users :
          role'[w][u] = IF w \in ws \/ u \in us THEN "none" ELSE role[w][u]
  BY DEF Without
<1>5. role' \in [Workspaces -> [Users -> Roles \union {"none"}]]
  BY TypeFacts DEF Without
<1>6. Deleted.status = "gone"
  BY DEF Deleted, NoInvitation
<1>7. \A i \in Invitations :
          /\ invitation'[i] = invitation[i] \/ invitation'[i] = Deleted
          /\ Exists(i) /\ invitation[i].ws \in ws => invitation'[i] = Deleted
  BY DEF Cascade
<1>8. invitation' \in [Invitations -> Invitation \union {NoInvitation, Deleted}]
  BY TypeFacts DEF Cascade, RowsTypeOK
<1>9. ASSUME NEW i \in Invitations, Exists(i)'
      PROVE  /\ invitation'[i] = invitation[i] /\ Exists(i)
             /\ workspace'[invitation[i].ws] = workspace[invitation[i].ws]
  <2>1. invitation'[i] # Deleted
    BY <1>6, <1>9 DEF Exists, InvitationStatus
  <2>2. invitation'[i] = invitation[i] /\ Exists(i)
    BY <1>7, <1>9, <2>1 DEF Exists
  <2>3. invitation[i].ws \in Workspaces /\ invitation[i].ws \notin ws
    BY <1>7, <2>1, <2>2, ExistingRow DEF Invitation
  <2> QED
    BY <1>1, <2>2, <2>3 DEF EndLives
<1>10. KeepsInvitations /\ InvitationsExist' /\ PendingIsOne'
  BY <1>6, <1>7, <1>9, InvitationsEnd DEF Exists, InvitationStatus
<1> QED
  BY <1>2, <1>3, <1>4, <1>5, <1>8, <1>10 DEF Cascaded

LEMMA DeleteWorkspaceInv ==
    ASSUME TenancyInv, NEW c \in Calls, DeleteWorkspace(c)
    PROVE  TenancyInv'
<1> DEFINE w == request[c].ws
<1>1. /\ Ready(c, "deleteWorkspace")
      /\ workspace' = EndLives(workspace, {w})
      /\ Cascade({w}, {})
      /\ inTeam' = [inTeam EXCEPT ![w] = {}]
      /\ CommitRows(c, Without({w}, {}))
      /\ role' = Without({w}, {}) /\ crossed' = crossed
      /\ UNCHANGED <<account, late>>
  BY DEF DeleteWorkspace, CommitRows
<1>2. w \in Workspaces /\ request[c].step # "idle"
  BY <1>1, ReadyFacts DEF RequestSound, NamesSound
<1>3. account' = EndLives(account, {})
  BY <1>1, TypeFacts DEF EndLives, RowsTypeOK
<1>4. /\ workspace' \in [Workspaces -> Lives] /\ account' \in [Users -> Lives]
      /\ role' \in [Workspaces -> [Users -> Roles \union {"none"}]]
      /\ invitation' \in [Invitations -> Invitation \union {NoInvitation, Deleted}]
      /\ \A x \in Workspaces : (workspace'[x] = "live") <=> (workspace[x] = "live" /\ x # w)
      /\ \A x \in Workspaces, u \in Users :
             role'[x][u] = IF x = w THEN "none" ELSE role[x][u]
      /\ KeepsInvitations /\ InvitationsExist' /\ PendingIsOne'
  <2>1. Cascaded({w}, {})
    BY <1>1, <1>3, CascadeRows
  <2> QED
    BY <2>1 DEF Cascaded
<1>5. RowsTypeOK'
  BY <1>1, <1>2, <1>4, TypeFacts DEF RowsTypeOK
<1>6. OwnedWorkspace'
  <2> SUFFICES ASSUME ~crossed, NEW x \in Workspaces, workspace'[x] = "live"
               PROVE  \E u \in Users : role'[x][u] = "OWNER"
    BY <1>1 DEF OwnedWorkspace, Owners
  <2>1. x # w /\ workspace[x] = "live"
    BY <1>4
  <2>2. \E u \in Users : role[x][u] = "OWNER"
    BY <2>1 DEF OwnedWorkspace, Owners, TenancyInv, RowsSound
  <2> QED
    BY <1>4, <2>1, <2>2
<1>7. MembersExist'
  <2> SUFFICES ASSUME NEW x \in Workspaces, NEW u \in Users,
                      role'[x][u] # "none" \/ u \in inTeam'[x]
               PROVE  workspace'[x] = "live" /\ account'[u] = "live"
    BY DEF MembersExist
  <2>1. inTeam'[x] = IF x = w THEN {} ELSE inTeam[x]
    BY <1>1, <1>2, TypeFacts DEF RowsTypeOK
  <2>2. x # w /\ (role[x][u] # "none" \/ u \in inTeam[x])
    BY <1>4, <2>1
  <2>3. workspace[x] = "live" /\ account[u] = "live"
    BY <2>2 DEF MembersExist, TenancyInv, RowsSound
  <2> QED
    BY <1>1, <1>4, <2>2, <2>3
<1> QED
  BY <1>1, <1>2, <1>4, <1>5, <1>6, <1>7, CommitInv DEF RowsSound

\* With the account go the workspaces in which nobody else is: one that stays
\* has another owner.
LEMMA DeleteAccountInv ==
    ASSUME TenancyInv, NEW c \in Calls, DeleteAccount(c)
    PROVE  TenancyInv'
<1> DEFINE q == request[c]
<1>1. /\ Ready(c, "deleteAccount") /\ Unreferenced(q)
      /\ workspace' = EndLives(workspace, q.alone)
      /\ account' = EndLives(account, {q.by})
      /\ Cascade(q.alone, {q.by})
      /\ inTeam' = [w \in Workspaces |-> IF w \in q.alone THEN {} ELSE inTeam[w]]
      /\ CommitRows(c, Without(q.alone, {q.by}))
      /\ role' = Without(q.alone, {q.by}) /\ crossed' = crossed /\ late' = late
  BY DEF DeleteAccount, CommitRows
<1>2. /\ q.by \in Users /\ q.step # "idle" /\ q.op = "deleteAccount"
      /\ ~crossed => StillKnows(q)
  BY <1>1, ReadyFacts
<1>3. /\ workspace' \in [Workspaces -> Lives] /\ account' \in [Users -> Lives]
      /\ role' \in [Workspaces -> [Users -> Roles \union {"none"}]]
      /\ invitation' \in [Invitations -> Invitation \union {NoInvitation, Deleted}]
      /\ \A w \in Workspaces :
             (workspace'[w] = "live") <=> (workspace[w] = "live" /\ w \notin q.alone)
      /\ \A u \in Users : (account'[u] = "live") <=> (account[u] = "live" /\ u # q.by)
      /\ \A w \in Workspaces, u \in Users :
             role'[w][u] = IF w \in q.alone \/ u = q.by THEN "none" ELSE role[w][u]
      /\ KeepsInvitations /\ InvitationsExist' /\ PendingIsOne'
  <2>1. Cascaded(q.alone, {q.by})
    BY <1>1, CascadeRows
  <2> QED
    BY <2>1 DEF Cascaded
<1>4. RowsTypeOK'
  <2>1. inTeam' \in [Workspaces -> SUBSET Users]
    BY <1>1, TypeFacts DEF RowsTypeOK
  <2> QED
    BY <1>1, <1>3, <2>1, TypeFacts DEF RowsTypeOK
<1>5. OwnedWorkspace'
  <2> SUFFICES ASSUME ~crossed, NEW w \in Workspaces, workspace'[w] = "live"
               PROVE  \E u \in Users : role'[w][u] = "OWNER"
    BY <1>1 DEF OwnedWorkspace, Owners
  <2>1. w \notin q.alone /\ workspace[w] = "live" /\ Owners(w) # {}
    BY <1>3 DEF TenancyInv, RowsSound, OwnedWorkspace
  <2>2. Blocking(q.by) = {} /\ q.alone = Alone(q.by)
    BY <1>2 DEF StillKnows
  <2>3. Owners(w) # {q.by}
    BY <1>2, <2>1, <2>2 DEF Blocking, Alone, Joined, Owners
  <2>4. PICK u \in Owners(w) : u # q.by
    BY <2>1, <2>3
  <2> QED
    BY <1>3, <2>1, <2>4 DEF Owners
<1>6. MembersExist'
  <2> SUFFICES ASSUME NEW w \in Workspaces, NEW u \in Users,
                      role'[w][u] # "none" \/ u \in inTeam'[w]
               PROVE  workspace'[w] = "live" /\ account'[u] = "live"
    BY DEF MembersExist
  <2>1. w \notin q.alone
    BY <1>1, <1>3
  <2>2. role'[w][u] # "none" => u # q.by /\ role[w][u] # "none"
    BY <1>3
  <2>3. u \in inTeam'[w] => u # q.by /\ u \in inTeam[w]
    BY <1>1, <2>1 DEF Unreferenced
  <2>4. workspace[w] = "live" /\ account[u] = "live"
    BY <2>2, <2>3 DEF MembersExist, TenancyInv, RowsSound
  <2> QED
    BY <1>3, <2>1, <2>2, <2>3, <2>4
<1> QED
  BY <1>1, <1>2, <1>3, <1>4, <1>5, <1>6, CommitInv DEF RowsSound

-----------------------------------------------------------------------------
(* The theorems. *)

LEMMA TenancyInitInv == TenancyInit => TenancyInv
<1> SUFFICES ASSUME TenancyInit PROVE TenancyInv
  OBVIOUS
<1>1. TenancyTypeOK
  BY FreeRequest DEF TenancyInit, TenancyTypeOK, Lives
<1>2. RowsSound
  BY DEF TenancyInit, RowsSound, OwnedWorkspace, MembersExist, InvitationsExist, Exists,
         InvitationStatus, NoInvitation, PendingIsOne, Pending
<1>3. RequestsSound /\ OneAtATime
  BY FreeRequest DEF TenancyInit, RequestsSound, RequestSound, NamesSound, SeenSound,
                     AnswerSound, OneAtATime, StillKnows
<1> QED
  BY <1>1, <1>2, <1>3 DEF TenancyInv

LEMMA TenancyStepInv == TenancyInv /\ [TenancyNext]_tenancyVars => TenancyInv'
<1> SUFFICES ASSUME TenancyInv, [TenancyNext]_tenancyVars PROVE TenancyInv'
  OBVIOUS
<1>1. CASE UNCHANGED tenancyVars
  BY <1>1, TypeFacts, OutsideInv DEF tenancyVars, RowsTypeOK, MembersExist, TenancyInv, RowsSound
<1>2. ASSUME NEW c \in Calls, MemberStep(c) PROVE TenancyInv'
  <2>1. CASE RequestLost(c)
    BY <2>1, FreeInv DEF RequestLost
  <2> QED
    BY <1>2, <2>1, AskMemberInv, CheckTargetInv, CheckMemberInv, MemberCommitInv
    DEF MemberStep
<1>3. ASSUME NEW c \in Calls, TeamStep(c) PROVE TenancyInv'
  BY <1>3, AskTeamInv, TeamCommitInv, OutsideStepInv DEF TeamStep
<1>4. ASSUME NEW c \in Calls, InvitationStep(c) PROVE TenancyInv'
  BY <1>4, AskInvitationInv, AskAnswerInv, CheckInvitationInv, InviteInv, CancelInv,
     ExpireInv, AcceptInv, DeclineInv
  DEF InvitationStep
<1>5. ASSUME NEW c \in Calls, WorkspaceStep(c) PROVE TenancyInv'
  BY <1>5, AskWorkspaceInv, AskInvitationInv, CheckMemberInv, CreateInv,
     DeleteWorkspaceInv, DeleteAccountInv
  DEF WorkspaceStep
<1> QED
  BY <1>1, <1>2, <1>3, <1>4, <1>5, OutsideStepInv DEF TenancyNext

LEMMA TenancyInvariance == TenancySpec => []TenancyInv
BY TenancyInitInv, TenancyStepInv, PTL DEF TenancySpec

\* Every row and every request keeps its type, whatever requests cross.
THEOREM TenancyTypeCorrect == TenancySpec => []TenancyTypeOK
BY TenancyInvariance, PTL DEF TenancyInv

LEMMA SoundWhenInv == TenancyInv => MembershipIsSound
<1> SUFFICES ASSUME TenancyInv PROVE MembershipIsSound
  OBVIOUS
<1>1. OwnedWorkspace /\ MembersExist
  BY DEF TenancyInv, RowsSound
<1>2. OnePending
  <2> SUFFICES ASSUME ~crossed, NEW w \in Workspaces, NEW u \in Users
               PROVE  Cardinality(Pending(w, u)) <= 1
    BY DEF OnePending
  <2>1. CASE Pending(w, u) = {}
    <3>1. Cardinality({}) = 0
      BY FS_EmptySet
    <3> QED
      BY <2>1, <3>1
  <2>2. CASE Pending(w, u) # {}
    <3>1. PICK i \in Pending(w, u) : Pending(w, u) = {i}
      BY <2>2 DEF TenancyInv, RowsSound, PendingIsOne
    <3>2. Cardinality({i}) = 1
      BY FS_Singleton
    <3> QED
      BY <3>1, <3>2
  <2> QED
    BY <2>1, <2>2
<1> QED
  BY <1>1, <1>2 DEF MembershipIsSound

\* What the people of a workspace rely on: while requests are served one after
\* the other it has an owner and nobody is invited to it twice, and whatever
\* requests cross, its members have accounts and it exists.
THEOREM Membership == TenancySpec => []MembershipIsSound
BY TenancyInvariance, SoundWhenInv, PTL

-----------------------------------------------------------------------------
(* What a step may do to the rows. *)

MemberCommit(c) ==
    \/ UpdateMemberRole(c) \/ RemoveMember(c) \/ LeaveWorkspace(c)
    \/ AddTeamMember(c) \/ RemoveTeamMember(c)

InvitationCommit(c) ==
    \/ InviteMember(c) \/ CancelInvitation(c) \/ ExpireInvitations(c)
    \/ AcceptInvitation(c) \/ DeclineInvitation(c)

WorkspaceCommit(c) == CreateWorkspace(c) \/ DeleteWorkspace(c) \/ DeleteAccount(c)

\* Only a commit writes a row of an account, a workspace, a membership or an
\* invitation, a sign-up apart.
LEMMA OnlyCommitsWrite ==
    ASSUME [TenancyNext]_tenancyVars
    PROVE  \/ UNCHANGED <<account, workspace, role, invitation>>
           \/ \E u \in Users : SignUp(u)
           \/ \E c \in Calls : MemberCommit(c) \/ InvitationCommit(c) \/ WorkspaceCommit(c)
<1>1. CASE UNCHANGED tenancyVars
  BY <1>1 DEF tenancyVars
<1>2. ASSUME NEW c \in Calls, MemberStep(c)
      PROVE  MemberCommit(c) \/ UNCHANGED <<account, workspace, role, invitation>>
  BY <1>2 DEF MemberStep, MemberCommit, AskRole, CheckRole, AskRemoval, CheckRemoval, AskLeave,
              CheckLeave, CheckTarget, RequestLost, Start, Check, rowVars
<1>3. ASSUME NEW c \in Calls, TeamStep(c)
      PROVE  MemberCommit(c) \/ UNCHANGED <<account, workspace, role, invitation>>
  BY <1>3 DEF TeamStep, MemberCommit, AskJoinTeam, AskQuitTeam, DeleteTeam, Start, rowVars
<1>4. ASSUME NEW c \in Calls, InvitationStep(c)
      PROVE  InvitationCommit(c) \/ UNCHANGED <<account, workspace, role, invitation>>
  BY <1>4 DEF InvitationStep, InvitationCommit, AskInvite, CheckInvite, AskCancel, CheckCancel,
              AskList, CheckList, AskMine, AskAccept, CheckAccept, AskDecline, Start, Check,
              rowVars
<1>5. ASSUME NEW c \in Calls, WorkspaceStep(c)
      PROVE  WorkspaceCommit(c) \/ UNCHANGED <<account, workspace, role, invitation>>
  BY <1>5 DEF WorkspaceStep, WorkspaceCommit, AskCreate, AskDefault, AskDeletion, CheckDeletion,
              AskAccountDeletion, Start, Check, rowVars
<1>6. ASSUME NEW i \in Invitations, TimePasses(i)
      PROVE  UNCHANGED <<account, workspace, role, invitation>>
  BY <1>6 DEF TimePasses
<1> QED
  BY <1>1, <1>2, <1>3, <1>4, <1>5, <1>6 DEF TenancyNext

\* A membership begins with an acceptance or with its workspace.
LEMMA JoinsByInvitation ==
    ASSUME TenancyInv, [TenancyNext]_tenancyVars, NEW w \in Workspaces, NEW u \in Users,
           role[w][u] = "none", role'[w][u] # "none", workspace[w] = "live"
    PROVE  \E i \in Invitations :
               /\ invitation[i].ws = w /\ invitation[i].invitee = u
               /\ invitation'[i].status = "ACCEPTED"
               /\ invitation'[i].role = role'[w][u]
<1>1. PICK c \in Calls : MemberCommit(c) \/ InvitationCommit(c) \/ WorkspaceCommit(c)
  BY OnlyCommitsWrite DEF SignUp
<1> DEFINE q == request[c]
<1>2. CASE MemberCommit(c)
  <2>1. CASE UpdateMemberRole(c)
    <3>1. Ready(c, "setRole") /\ role' = IF Held(q) /\ q.role # q.was
                                        THEN [role EXCEPT ![q.ws][q.who] = q.role] ELSE role
      BY <2>1 DEF UpdateMemberRole, CommitRows
    <3>2. q.who \in q.seen => role[q.ws][q.who] # "none"
      BY <3>1, ReadyFacts DEF RequestSound, SeenSound
    <3> QED
      BY <3>1, <3>2, TypeFacts DEF Held
  <2>2. CASE RemoveMember(c) \/ LeaveWorkspace(c)
    <3>1. role' = IF Held(q) THEN [role EXCEPT ![q.ws][q.who] = "none"] ELSE role
      BY <2>2 DEF RemoveMember, LeaveWorkspace, DeleteMembership, CommitRows
    <3> QED
      BY <3>1, TypeFacts
  <2>3. CASE AddTeamMember(c) \/ RemoveTeamMember(c)
    BY <2>3 DEF AddTeamMember, RemoveTeamMember, CommitRows
  <2> QED
    BY <1>2, <2>1, <2>2, <2>3 DEF MemberCommit
<1>3. CASE InvitationCommit(c)
  <2>1. CASE AcceptInvitation(c)
    <3>1. Ready(c, "accept") /\ Answer(c, "ACCEPTED")
      BY <2>1 DEF AcceptInvitation
    <3>2. PICK i \in Invitations : q.invs = {i} /\ MayAnswer(q, i)
      BY <3>1, ReadyFacts DEF RequestSound, AnswerSound
    <3>3. role' = [role EXCEPT ![q.ws][q.by] = invitation[i].role]
      BY <2>1, <3>2 DEF AcceptInvitation, CommitRows
    <3>4. w = q.ws /\ u = q.by /\ role'[w][u] = invitation[i].role
      BY <3>3, TypeFacts
    <3>5. Exists(i) /\ invitation'[i] = [invitation[i] EXCEPT !.status = "ACCEPTED",
                                                             !.known = TRUE]
      BY <3>1, <3>2 DEF Answer
    <3>6. invitation[i] \in Invitation /\ invitation[i].ws = q.ws /\ invitation[i].invitee = q.by
      BY <3>1, <3>2, <3>5, ReadyFacts, ExistingRow DEF MayAnswer
    <3> QED
      BY <3>4, <3>5, <3>6 DEF Invitation
  <2>2. CASE ~AcceptInvitation(c)
    BY <1>3, <2>2 DEF InvitationCommit, InviteMember, CancelInvitation, ExpireInvitations,
                      DeclineInvitation, CommitRows
  <2> QED
    BY <2>1, <2>2
<1>4. CASE WorkspaceCommit(c)
  <2>1. CASE CreateWorkspace(c)
    <3>1. PICK x \in Workspaces :
              workspace[x] = "new" /\ role' = [role EXCEPT ![x][q.by] = "OWNER"]
      BY <2>1 DEF CreateWorkspace, CommitRows
    <3> QED
      BY <3>1, TypeFacts
  <2>2. CASE DeleteWorkspace(c) \/ DeleteAccount(c)
    BY <2>2 DEF DeleteWorkspace, DeleteAccount, CommitRows, Without
  <2> QED
    BY <1>4, <2>1, <2>2 DEF WorkspaceCommit
<1> QED
  BY <1>1, <1>2, <1>3, <1>4

\* Nothing is answered twice, and what has expired is not revived.
LEMMA AnswersStay ==
    ASSUME TenancyInv, [TenancyNext]_tenancyVars, NEW i \in Invitations, ~crossed',
           invitation[i].status \in {"ACCEPTED", "DECLINED", "EXPIRED"}
    PROVE  invitation'[i].status \in {invitation[i].status, "gone"}
<1>1. Exists(i) /\ invitation[i].status # "PENDING" /\ invitation[i] # NoInvitation
  BY DEF Exists, InvitationStatus, NoInvitation
<1>2. ASSUME invitation'[i] # invitation[i]
      PROVE  \E c \in Calls : \/ InvitationCommit(c)
                             \/ DeleteWorkspace(c) \/ DeleteAccount(c)
  BY <1>2, OnlyCommitsWrite DEF SignUp, MemberCommit, UpdateMemberRole, RemoveMember,
     LeaveWorkspace, DeleteMembership, AddTeamMember, RemoveTeamMember, WorkspaceCommit,
     CreateWorkspace
<1>3. ASSUME NEW c \in Calls, DeleteWorkspace(c) \/ DeleteAccount(c)
      PROVE  invitation'[i].status \in {invitation[i].status, "gone"}
  BY <1>3 DEF DeleteWorkspace, DeleteAccount, Cascade, Deleted, NoInvitation
<1>4. ASSUME NEW c \in Calls, InvitationCommit(c), invitation'[i] # invitation[i]
      PROVE  invitation'[i].status = "gone"
  <2> DEFINE q == request[c]
  <2>1. crossed' = crossed
    BY <1>4 DEF InvitationCommit, InviteMember, CancelInvitation, ExpireInvitations,
                AcceptInvitation, DeclineInvitation, CommitRows
  <2>2. CASE CancelInvitation(c)
    BY <1>4, <2>2 DEF CancelInvitation, Deleted, NoInvitation
  <2>3. CASE ~CancelInvitation(c)
    <3>1. PICK op \in {"invite", "expire", "accept", "decline"} : Ready(c, op)
      BY <1>4, <2>3 DEF InvitationCommit, InviteMember, ExpireInvitations, AcceptInvitation,
                        DeclineInvitation
    <3>2. i \notin q.invs
      BY <1>1, <2>1, <3>1, ReadyFacts DEF StillKnows
    <3>3. invitation'[i] = invitation[i]
      BY <1>1, <1>4, <2>3, <3>2 DEF InvitationCommit, InviteMember, ExpireInvitations,
         WriteStatus, AcceptInvitation, DeclineInvitation, Answer
    <3> QED
      BY <1>4, <3>3
  <2> QED
    BY <2>2, <2>3
<1> QED
  BY <1>2, <1>3, <1>4

\* An account that ends leaves a workspace that somebody else is in.
LEMMA OthersStay ==
    ASSUME TenancyInv, [TenancyNext]_tenancyVars, NEW w \in Workspaces, NEW u \in Users, ~crossed',
           account[u] = "live", account'[u] = "gone", Members(w) \ {u} # {}
    PROVE  workspace'[w] = "live" /\ Members(w)' # {}
<1>1. PICK c \in Calls : DeleteAccount(c)
  <2>1. ASSUME NEW v \in Users, SignUp(v) PROVE FALSE
    BY <2>1, TypeFacts DEF SignUp, RowsTypeOK
  <2>2. PICK c \in Calls : MemberCommit(c) \/ InvitationCommit(c) \/ WorkspaceCommit(c)
    BY <2>1, OnlyCommitsWrite
  <2>3. CASE MemberCommit(c) \/ CreateWorkspace(c) \/ DeleteWorkspace(c)
    BY <2>3 DEF MemberCommit, UpdateMemberRole, RemoveMember, LeaveWorkspace, DeleteMembership,
                AddTeamMember, RemoveTeamMember, CreateWorkspace, DeleteWorkspace
  <2>4. CASE InvitationCommit(c)
    BY <2>4 DEF InvitationCommit, InviteMember, CancelInvitation, ExpireInvitations,
                AcceptInvitation, DeclineInvitation, Answer
  <2> QED
    BY <2>2, <2>3, <2>4 DEF WorkspaceCommit
<1> DEFINE q == request[c]
<1>2. /\ Ready(c, "deleteAccount") /\ crossed' = crossed
      /\ account' = EndLives(account, {q.by}) /\ workspace' = EndLives(workspace, q.alone)
      /\ role' = Without(q.alone, {q.by})
  BY <1>1 DEF DeleteAccount, CommitRows
<1>3. u = q.by /\ q.alone = Alone(q.by)
  <2>1. u = q.by
    BY <1>2, TypeFacts DEF EndLives, RowsTypeOK
  <2> QED
    BY <1>2, <2>1, ReadyFacts DEF StillKnows
<1>4. PICK v \in Users : v # u /\ role[w][v] # "none"
  BY DEF Members
<1>5. w \notin q.alone
  BY <1>3, <1>4 DEF Alone, Members
<1>6. workspace[w] = "live"
  BY <1>4 DEF TenancyInv, RowsSound, MembersExist
<1>7. workspace'[w] = "live"
  BY <1>2, <1>5, <1>6, TypeFacts DEF EndLives, RowsTypeOK
<1>8. role'[w][v] # "none"
  BY <1>2, <1>3, <1>4, <1>5 DEF Without
<1> QED
  BY <1>7, <1>8 DEF Members

\* Whatever requests cross, nobody joins without an invitation that is still
\* there; one after the other, no answer is given twice, and no account that
\* ends takes a workspace away from the others who are in it.
THEOREM MembershipSteps == TenancySpec => MembershipStepsAreSound
<1> DEFINE Joins == \A w \in Workspaces, u \in Users :
              role[w][u] = "none" /\ role'[w][u] # "none" /\ workspace[w] = "live" =>
                  \E i \in Invitations :
                      /\ invitation[i].ws = w /\ invitation[i].invitee = u
                      /\ invitation'[i].status = "ACCEPTED"
                      /\ invitation'[i].role = role'[w][u]
           Answered == \A i \in Invitations :
              /\ ~crossed'
              /\ invitation[i].status \in {"ACCEPTED", "DECLINED", "EXPIRED"}
              => invitation'[i].status \in {invitation[i].status, "gone"}
           Kept == \A w \in Workspaces, u \in Users :
              /\ ~crossed' /\ account[u] = "live" /\ account'[u] = "gone"
              /\ Members(w) \ {u} # {}
              => workspace'[w] = "live" /\ Members(w)' # {}
<1>1. TenancyInv /\ [TenancyNext]_tenancyVars => Joins
  BY JoinsByInvitation
<1>2. TenancyInv /\ [TenancyNext]_tenancyVars => Answered
  BY AnswersStay
<1>3. TenancyInv /\ [TenancyNext]_tenancyVars => Kept
  BY OthersStay
<1>4. TenancySpec => CancelledNeverJoins
  <2> HIDE DEF Joins
  <2>1. TenancySpec => [][Joins]_tenancyVars
    BY <1>1, TenancyInvariance, PTL DEF TenancySpec
  <2> QED
    BY <2>1 DEF CancelledNeverJoins, Joins
<1>5. TenancySpec => AnsweredOnce
  <2> HIDE DEF Answered
  <2>1. TenancySpec => [][Answered]_tenancyVars
    BY <1>2, TenancyInvariance, PTL DEF TenancySpec
  <2> QED
    BY <2>1 DEF AnsweredOnce, Answered
<1>6. TenancySpec => OthersKeepTheirWorkspace
  <2> HIDE DEF Kept
  <2>1. TenancySpec => [][Kept]_tenancyVars
    BY <1>3, TenancyInvariance, PTL DEF TenancySpec
  <2> QED
    BY <2>1 DEF OthersKeepTheirWorkspace, Kept
<1> QED
  BY <1>4, <1>5, <1>6 DEF MembershipStepsAreSound
=============================================================================
