------------------------------- MODULE Tenancy -------------------------------
(***************************************************************************)
(* Accounts, workspaces, memberships and invitations.  A request checks    *)
(* what its caller may do, reads what it is about, and commits; other      *)
(* requests commit in between and nothing is locked.                       *)
(***************************************************************************)
EXTENDS Platform

CONSTANT Invitations  \* the invitations that may be sent (a bound)

VARIABLES
    account,     \* whether an address has an account
    workspace,   \* whether a workspace exists
    role,        \* the membership rows
    invitation,  \* the invitation rows
    inTeam,      \* who has a row in a team of a workspace
    late,        \* the invitations whose expires_at has passed
    request,     \* what a call is doing
    crossed      \* history: two requests were served at the same time

rowVars == <<account, workspace, role, invitation, inTeam, late>>
tenancyVars == <<account, workspace, role, invitation, inTeam, late, request,
                 crossed>>

Roles == {"OWNER", "USER"}
InvitationStatus == {"PENDING", "ACCEPTED", "DECLINED", "EXPIRED"}
NoInvitation == [status |-> "new", ws |-> None, inviter |-> None,
                 invitee |-> None, role |-> "USER", known |-> FALSE]
Deleted == [NoInvitation EXCEPT !.status = "gone"]
Invitation ==
    [status: InvitationStatus, ws: Workspaces, inviter: Users, invitee: Users,
     role: Roles, known: BOOLEAN]   \* known: invitee_id is set

Ops == {"invite", "setRole", "remove", "leave", "cancel", "list", "expire",
        "accept", "decline", "create", "deleteWorkspace", "deleteAccount",
        "joinTeam", "quitTeam"}

\* seen: the membership rows of ws that the session has loaded and that still
\* exist; was: the role it loaded of the member it is about; invs: the
\* invitations it loaded; alone, others: what a deletion preview found; known:
\* whether the invitee had an account, or was a member already.
Request ==
    [step: {"idle", "loaded", "checked"}, op: Ops, by: Users \union {None},
     ws: Workspaces \union {None}, who: Users \union {None}, role: Roles,
     invs: SUBSET Invitations, seen: SUBSET Users, was: Roles,
     alone: SUBSET Workspaces, others: SUBSET Workspaces, known: BOOLEAN]
Free == [step |-> "idle", op |-> "leave", by |-> None, ws |-> None,
         who |-> None, role |-> "USER", invs |-> {}, seen |-> {}, was |-> "USER",
         alone |-> {}, others |-> {}, known |-> FALSE]

TenancyTypeOK ==
    /\ account \in [Users -> Lives]
    /\ workspace \in [Workspaces -> Lives]
    /\ role \in [Workspaces -> [Users -> Roles \union {"none"}]]
    /\ invitation \in [Invitations -> Invitation \union {NoInvitation, Deleted}]
    /\ inTeam \in [Workspaces -> SUBSET Users]
    /\ late \subseteq Invitations
    /\ request \in [Calls -> Request]
    /\ crossed \in BOOLEAN

TenancyInit ==
    /\ account = [u \in Users |-> "new"]
    /\ workspace = [w \in Workspaces |-> "new"]
    /\ role = [w \in Workspaces |-> [u \in Users |-> "none"]]
    /\ invitation = [i \in Invitations |-> NoInvitation]
    /\ inTeam = [w \in Workspaces |-> {}]
    /\ late = {}
    /\ request = [c \in Calls |-> Free]
    /\ crossed = FALSE

Members(w) == {u \in Users : role[w][u] # "none"}
Owners(w) == {u \in Users : role[w][u] = "OWNER"}
LastOwnerOffByOne(w) == Cardinality(Owners(w)) < 1
LastOwner(w) == Cardinality(Owners(w)) <= 1
Pending(w, u) ==
    {i \in Invitations : /\ invitation[i].status = "PENDING"
                         /\ invitation[i].ws = w /\ invitation[i].invitee = u}

-----------------------------------------------------------------------------
(* How a request starts, goes on and ends. *)

\* A request of somebody signed in; from then on nothing is locked.
Start(c, q) ==
    /\ request[c].step = "idle"
    /\ account[q.by] = "live"
    /\ request' = [request EXCEPT ![c] = q]
    /\ crossed' = (crossed \/ \E d \in Calls \ {c} : request[d].step # "idle")
    /\ UNCHANGED rowVars

\* The second reading of a request, which may refuse it.
Check(c, op, allowed, q) ==
    /\ request[c].step = "loaded" /\ request[c].op = op
    /\ request' = [request EXCEPT ![c] =
           IF allowed THEN [q EXCEPT !.step = "checked"] ELSE Free]
    /\ UNCHANGED <<rowVars, crossed>>

Ready(c, op) == request[c].step = "checked" /\ request[c].op = op

\* A commit; the rows it deletes are lost to every session that loaded them.
CommitRows(c, newRole) ==
    /\ role' = newRole
    /\ request' = [d \in Calls |-> IF d = c THEN Free ELSE [request[d] EXCEPT
           !.seen = {u \in @ : newRole[request[d].ws][u] # "none"}]]
    /\ UNCHANGED crossed

\* An error rolls back, a client goes away, the process dies.
RequestLost(c) ==
    /\ request[c].step # "idle"
    /\ request' = [request EXCEPT ![c] = Free]
    /\ UNCHANGED <<rowVars, crossed>>

SignUp(u) ==
    /\ account[u] = "new"
    /\ account' = [account EXCEPT ![u] = "live"]
    /\ UNCHANGED <<workspace, role, invitation, inTeam, late, request, crossed>>

TimePasses(i) ==
    /\ invitation[i].status = "PENDING"
    /\ late' = late \union {i}
    /\ UNCHANGED <<account, workspace, role, invitation, inTeam, request, crossed>>

-----------------------------------------------------------------------------
(* Members. *)

\* What only an OWNER may ask starts by loading his membership.
AskAsOwner(op, u, w) ==
    [Free EXCEPT !.step = "loaded", !.op = op, !.by = u, !.ws = w, !.seen = {u}]

AskRole(c) ==
    \E w \in Workspaces, who \in Users, r \in Roles : \E u \in Owners(w) :
        Start(c, [AskAsOwner("setRole", u, w) EXCEPT !.who = who, !.role = r])

AskRemoval(c) ==
    \E w \in Workspaces, who \in Users : \E u \in Owners(w) :
        Start(c, [AskAsOwner("remove", u, w) EXCEPT !.who = who])

AskLeave(c) ==
    \E w \in Workspaces : \E u \in Members(w) :
        Start(c, [Free EXCEPT !.step = "loaded", !.op = "leave", !.by = u, !.ws = w,
                              !.who = u, !.seen = {u}, !.was = role[w][u]])

\* The role of the target: its row may be the one already loaded for its owner.
TargetRole(q) == IF q.who \in q.seen THEN "OWNER" ELSE role[q.ws][q.who]

CheckTarget(c, op, losesOwner) ==
    LET q == request[c] IN
    Check(c, op, role[q.ws][q.who] # "none" /\ (losesOwner => ~LastOwner(q.ws)),
          [q EXCEPT !.seen = @ \union {q.who}, !.was = TargetRole(q)])

CheckRole(c) ==
    CheckTarget(c, "setRole", TargetRole(request[c]) = "OWNER"
                                  /\ request[c].role = "USER")
CheckRemoval(c) ==
    CheckTarget(c, "remove", TargetRole(request[c]) = "OWNER")
CheckLeave(c) ==
    LET q == request[c] IN
    Check(c, "leave", q.was = "OWNER" => ~LastOwner(q.ws), q)

Held(q) == q.who \in q.seen   \* the row it writes still exists

\* An UPDATE of a row that is gone fails; a role that is the same is not written.
UpdateMemberRole(c) ==
    LET q == request[c] IN
    /\ Ready(c, "setRole")
    /\ CommitRows(c, IF Held(q) /\ q.role # q.was
                 THEN [role EXCEPT ![q.ws][q.who] = q.role] ELSE role)
    /\ UNCHANGED <<account, workspace, invitation, inTeam, late>>

\* A DELETE of a row that is gone does nothing.
DeleteMembership(c, op) ==
    LET q == request[c] IN
    /\ Ready(c, op)
    /\ CommitRows(c, IF Held(q) THEN [role EXCEPT ![q.ws][q.who] = "none"] ELSE role)
    /\ UNCHANGED <<account, workspace, invitation, inTeam, late>>

RemoveMember(c) == DeleteMembership(c, "remove")
LeaveWorkspace(c) == DeleteMembership(c, "leave")
-----------------------------------------------------------------------------
(* Teams: a workspace's are one here. *)

\* add_team_member and create_team, of somebody who is a member just now.
AskJoinTeam(c) ==
    \E w \in Workspaces : \E u \in Owners(w), who \in Members(w) \ inTeam[w] :
        Start(c, [AskAsOwner("joinTeam", u, w) EXCEPT !.step = "checked", !.who = who])

AddTeamMember(c) ==
    LET q == request[c] IN
    /\ Ready(c, "joinTeam")
    /\ workspace[q.ws] = "live" /\ account[q.who] = "live"
    /\ q.who \notin inTeam[q.ws]
    /\ inTeam' = [inTeam EXCEPT ![q.ws] = @ \union {q.who}]
    /\ CommitRows(c, role)
    /\ UNCHANGED <<account, workspace, invitation, late>>

AskQuitTeam(c) ==
    \E w \in Workspaces : \E u \in Owners(w), who \in inTeam[w] :
        Start(c, [AskAsOwner("quitTeam", u, w) EXCEPT !.step = "checked", !.who = who])

RemoveTeamMember(c) ==
    LET q == request[c] IN
    /\ Ready(c, "quitTeam")
    /\ inTeam' = [inTeam EXCEPT ![q.ws] = @ \ {q.who}]
    /\ CommitRows(c, role)
    /\ UNCHANGED <<account, workspace, invitation, late>>

DeleteTeam(c) ==
    \E w \in Workspaces :
        /\ request[c].step = "idle"
        /\ Owners(w) # {}
        /\ inTeam' = [inTeam EXCEPT ![w] = {}]
        /\ UNCHANGED <<account, workspace, role, invitation, late, request, crossed>>

-----------------------------------------------------------------------------
(* Invitations. *)

Exists(i) == invitation[i].status \in InvitationStatus
Overdue(w, u) == Pending(w, u) \intersect late

AskInvite(c) ==
    \E w \in Workspaces, who \in Users, r \in Roles : \E u \in Owners(w) \ {who} :
        Start(c, [AskAsOwner("invite", u, w) EXCEPT !.who = who, !.role = r])

\* Two pending invitations of one address are one too many for the lookup.
CheckInvite(c) ==
    LET q == request[c] IN
    Check(c, "invite",
          /\ account[q.who] = "live" => role[q.ws][q.who] = "none"
          /\ Pending(q.ws, q.who) \subseteq late
          /\ Cardinality(Pending(q.ws, q.who)) <= 1,
          [q EXCEPT !.invs = Overdue(q.ws, q.who),
                    !.known = account[q.who] = "live"])

WriteStatus(is, status) ==
    invitation' = [i \in Invitations |->
        IF i \in is THEN [invitation[i] EXCEPT !.status = status] ELSE invitation[i]]

\* The one that is overdue expires and a new one is sent.
InviteMember(c) ==
    LET q == request[c] IN
    /\ Ready(c, "invite")
    /\ \A i \in q.invs : Exists(i)
    /\ workspace[q.ws] = "live" /\ account[q.by] = "live"
    /\ q.known => account[q.who] = "live"
    /\ \E new \in Invitations :
           /\ invitation[new] = NoInvitation
           /\ invitation' = [i \in Invitations |->
                IF i = new THEN [status |-> "PENDING", ws |-> q.ws, inviter |-> q.by,
                                 invitee |-> q.who, role |-> q.role, known |-> q.known]
                ELSE IF i \in q.invs THEN [invitation[i] EXCEPT !.status = "EXPIRED"]
                ELSE invitation[i]]
    /\ CommitRows(c, role)
    /\ UNCHANGED <<account, workspace, inTeam, late>>

AskCancel(c) ==
    \E i \in Invitations, w \in Workspaces : \E u \in Owners(w) :
        Start(c, [AskAsOwner("cancel", u, w) EXCEPT !.invs = {i}])

CheckCancel(c) ==
    LET q == request[c] IN
    Check(c, "cancel", \A i \in q.invs : /\ invitation[i].status = "PENDING"
                                         /\ invitation[i].ws = q.ws, q)

CancelInvitation(c) ==
    /\ Ready(c, "cancel")
    /\ invitation' = [i \in Invitations |->
           IF i \in request[c].invs THEN Deleted ELSE invitation[i]]
    /\ CommitRows(c, role)
    /\ UNCHANGED <<account, workspace, inTeam, late>>

AskList(c) ==
    \E w \in Workspaces : \E u \in Owners(w) : Start(c, AskAsOwner("list", u, w))

\* The owner's list and the invitee's mark what is overdue.
CheckList(c) ==
    LET q == request[c] IN
    Check(c, "list", workspace[q.ws] = "live",
          [q EXCEPT !.op = "expire",
                    !.invs = UNION {Overdue(q.ws, u) : u \in Users}])

AskMine(c) ==
    \E u \in Users :
        Start(c, [Free EXCEPT !.step = "checked", !.op = "expire", !.by = u,
                              !.invs = UNION {Overdue(w, u) : w \in Workspaces}])

ExpireInvitations(c) ==
    /\ Ready(c, "expire")
    /\ \A i \in request[c].invs : Exists(i)
    /\ WriteStatus(request[c].invs, "EXPIRED")
    /\ CommitRows(c, role)
    /\ UNCHANGED <<account, workspace, inTeam, late>>

\* Accepting one that is overdue only marks it.
AskAccept(c) ==
    \E u \in Users, w \in Workspaces : \E i \in Pending(w, u) :
        Start(c, [Free EXCEPT !.step = IF i \in late THEN "checked" ELSE "loaded",
                              !.op = IF i \in late THEN "expire" ELSE "accept",
                              !.by = u, !.who = u, !.ws = w, !.invs = {i}])

CheckAccept(c) ==
    LET q == request[c] IN
    Check(c, "accept", TRUE, [q EXCEPT !.known = role[q.ws][q.who] # "none"])

\* invitee_id is set, so the account must still be there.
Answer(c, status) ==
    LET q == request[c] IN
    /\ \A i \in q.invs : Exists(i)
    /\ account[q.by] = "live"
    /\ invitation' = [i \in Invitations |->
           IF i \in q.invs THEN [invitation[i] EXCEPT !.status = status, !.known = TRUE]
           ELSE invitation[i]]
    /\ UNCHANGED <<account, workspace, inTeam, late>>

AcceptInvitationFirst(c) ==
    LET q == request[c] IN
    /\ Ready(c, "accept")
    /\ account[q.by] = "live" /\ role[q.ws][q.by] = "none"
    /\ workspace[q.ws] = "live"
    /\ CommitRows(c, [role EXCEPT ![q.ws][q.by] = "USER"])
    /\ UNCHANGED <<account, workspace, invitation, inTeam, late>>

\* The UPDATE of an invitation that is gone fails, and the INSERT with it.
AcceptInvitation(c) ==
    LET q == request[c] IN
    /\ Ready(c, "accept")
    /\ Answer(c, "ACCEPTED")
    /\ \/ q.known /\ CommitRows(c, role)
       \/ /\ ~q.known
          /\ role[q.ws][q.by] = "none"
          /\ \E i \in q.invs :
                CommitRows(c, [role EXCEPT ![q.ws][q.by] = invitation[i].role])

AskDecline(c) ==
    \E u \in Users, w \in Workspaces : \E i \in Pending(w, u) :
        Start(c, [Free EXCEPT !.step = "checked", !.op = "decline", !.by = u,
                              !.invs = {i}])

DeclineInvitation(c) ==
    Ready(c, "decline") /\ Answer(c, "DECLINED") /\ CommitRows(c, role)

-----------------------------------------------------------------------------
(* Workspaces and accounts. *)

AskCreate(c) ==
    \E u \in Users :
        Start(c, [Free EXCEPT !.step = "checked", !.op = "create", !.by = u])

\* At sign-in, for somebody who is a member of none.
AskDefault(c) ==
    \E u \in Users :
        /\ \A w \in Workspaces : role[w][u] = "none"
        /\ Start(c, [Free EXCEPT !.step = "checked", !.op = "create", !.by = u])

CreateWorkspace(c) ==
    LET u == request[c].by IN
    /\ Ready(c, "create")
    /\ \E w \in Workspaces :
        /\ workspace[w] = "new"
        /\ account[u] = "live"
        /\ workspace' = [workspace EXCEPT ![w] = "live"]
        /\ CommitRows(c, [role EXCEPT ![w][u] = "OWNER"])
        /\ UNCHANGED <<account, invitation, inTeam, late>>

AskDeletion(c) ==
    \E w \in Workspaces : \E u \in Owners(w) :
        Start(c, AskAsOwner("deleteWorkspace", u, w))

\* GitHub, Slack and the files are cleaned up before the members are loaded.
CheckDeletion(c) ==
    LET q == request[c] IN
    Check(c, "deleteWorkspace", TRUE, [q EXCEPT !.seen = Members(q.ws)])

\* Invitations go with their workspace and with the people they name.
Cascade(ws, us) ==
    invitation' = [i \in Invitations |->
        IF /\ Exists(i)
           /\ \/ invitation[i].ws \in ws
              \/ invitation[i].inviter \in us
              \/ invitation[i].known /\ invitation[i].invitee \in us
        THEN Deleted ELSE invitation[i]]

Without(ws, us) ==
    [w \in Workspaces |-> [u \in Users |->
        IF w \in ws \/ u \in us THEN "none" ELSE role[w][u]]]

EndLives(kind, gone) ==
    [x \in DOMAIN kind |-> IF x \in gone /\ kind[x] = "live" THEN "gone" ELSE kind[x]]

\* Somebody who joined since the members were loaded makes the DELETE fail.
DeleteWorkspace(c) ==
    LET q == request[c] IN
    /\ Ready(c, "deleteWorkspace")
    /\ Members(q.ws) \subseteq q.seen
    /\ workspace' = EndLives(workspace, {q.ws})
    /\ Cascade({q.ws}, {})
    /\ inTeam' = [inTeam EXCEPT ![q.ws] = {}]
    /\ CommitRows(c, Without({q.ws}, {}))
    /\ UNCHANGED <<account, late>>

Joined(u) == {w \in Workspaces : role[w][u] # "none"}
Alone(u) == {w \in Joined(u) : Members(w) = {u} /\ role[w][u] = "OWNER"}
Blocking(u) == {w \in Joined(u) : Owners(w) = {u} /\ Members(w) # {u}}

AskAccountDeletion(c) ==
    \E u \in Users :
        /\ Blocking(u) = {}
        /\ Start(c, [Free EXCEPT !.step = "checked", !.op = "deleteAccount", !.by = u,
                !.alone = Alone(u), !.others = Joined(u) \ Alone(u)])

\* The DELETE of a user fails as long as he has rows that it does not take
\* along: a membership that is not in the preview, or one in a team.
Unreferenced(q) ==
    /\ Joined(q.by) \subseteq q.alone \union q.others
    /\ \A w \in Workspaces \ q.alone : q.by \notin inTeam[w]

\* Whoever is a member by then loses a workspace of the preview.
DeleteAccount(c) ==
    LET q == request[c] IN
    /\ Ready(c, "deleteAccount")
    /\ Unreferenced(q)
    /\ workspace' = EndLives(workspace, q.alone)
    /\ account' = EndLives(account, {q.by})
    /\ Cascade(q.alone, {q.by})
    /\ inTeam' = [w \in Workspaces |-> IF w \in q.alone THEN {} ELSE inTeam[w]]
    /\ CommitRows(c, Without(q.alone, {q.by}))
    /\ UNCHANGED late

-----------------------------------------------------------------------------
MemberStep(c) ==
    \/ AskRole(c) \/ CheckRole(c) \/ UpdateMemberRole(c)
    \/ AskRemoval(c) \/ CheckRemoval(c) \/ RemoveMember(c)
    \/ AskLeave(c) \/ CheckLeave(c) \/ LeaveWorkspace(c)
    \/ RequestLost(c)

TeamStep(c) ==
    \/ AskJoinTeam(c) \/ AddTeamMember(c)
    \/ AskQuitTeam(c) \/ RemoveTeamMember(c) \/ DeleteTeam(c)

InvitationStep(c) ==
    \/ AskInvite(c) \/ CheckInvite(c) \/ InviteMember(c)
    \/ AskCancel(c) \/ CheckCancel(c) \/ CancelInvitation(c)
    \/ AskList(c) \/ CheckList(c) \/ AskMine(c) \/ ExpireInvitations(c)
    \/ AskAccept(c) \/ CheckAccept(c) \/ AcceptInvitation(c)
    \/ AskDecline(c) \/ DeclineInvitation(c)

WorkspaceStep(c) ==
    \/ AskCreate(c) \/ AskDefault(c) \/ CreateWorkspace(c)
    \/ AskDeletion(c) \/ CheckDeletion(c) \/ DeleteWorkspace(c)
    \/ AskAccountDeletion(c) \/ DeleteAccount(c)

TenancyNext ==
    \/ \E c \in Calls : \/ MemberStep(c) \/ TeamStep(c)
                      \/ InvitationStep(c) \/ WorkspaceStep(c)
    \/ \E u \in Users : SignUp(u)
    \/ \E i \in Invitations : TimePasses(i)

TenancySpec == TenancyInit /\ [][TenancyNext]_tenancyVars

-----------------------------------------------------------------------------
(* Properties. *)

\* As long as requests are served one after the other, a workspace always has
\* an owner: nobody demotes, removes or outlives the last one.
OwnedWorkspace ==
    ~crossed => \A w \in Workspaces : workspace[w] = "live" => Owners(w) # {}

\* Whatever requests cross, a membership is one of an account and a workspace
\* that exist: no deletion leaves one behind and no invitation outlives them.
MembersExist ==
    \A w \in Workspaces, u \in Users :
        role[w][u] # "none" \/ u \in inTeam[w] =>
            workspace[w] = "live" /\ account[u] = "live"

\* One after the other, an address has at most one invitation to answer per
\* workspace; with two, the lookup of the next invitation fails for good.
OnePending ==
    ~crossed => \A w \in Workspaces, u \in Users : Cardinality(Pending(w, u)) <= 1

\* Whatever requests cross, who joins a workspace that exists had an
\* invitation whose row is still there: a cancelled one lets nobody in.
CancelledNeverJoins ==
    [][\A w \in Workspaces, u \in Users :
        role[w][u] = "none" /\ role'[w][u] # "none" /\ workspace[w] = "live" =>
            \E i \in Invitations :
                /\ invitation[i].ws = w /\ invitation[i].invitee = u
                /\ invitation'[i].status = "ACCEPTED"
                /\ invitation'[i].role = role'[w][u]]_tenancyVars

\* One after the other, what was answered or has expired stays as it is.
AnsweredOnce ==
    [][\A i \in Invitations :
        /\ ~crossed'
        /\ invitation[i].status \in {"ACCEPTED", "DECLINED", "EXPIRED"}
        => invitation'[i].status \in {invitation[i].status, "gone"}]_tenancyVars

\* One after the other, the end of an account takes no workspace from anybody
\* else: only an owner's own request ends one that has other members.
OthersKeepTheirWorkspace ==
    [][\A w \in Workspaces, u \in Users :
        /\ ~crossed' /\ account[u] = "live" /\ account'[u] = "gone"
        /\ Members(w) \ {u} # {}
        => workspace'[w] = "live" /\ Members(w)' # {}]_tenancyVars

\* What the people of a workspace can rely on at any time: it has an owner, its
\* members exist, and nobody is invited twice.
MembershipIsSound == OwnedWorkspace /\ MembersExist /\ OnePending

\* What no request does: let a cancelled invitation join, answer one twice, or
\* take a workspace away with the account of one of its members.
MembershipStepsAreSound ==
    CancelledNeverJoins /\ AnsweredOnce /\ OthersKeepTheirWorkspace
=============================================================================
