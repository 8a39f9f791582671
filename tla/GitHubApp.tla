------------------------------ MODULE GitHubApp ------------------------------
(***************************************************************************)
(* GitHub App installations: what GitHub knows of them, the webhooks it    *)
(* sends, the rows that connect them to workspaces, and the control plane  *)
(* (Integration) rows those hang on.  A token is worth nothing once its    *)
(* installation has been suspended.                                        *)
(***************************************************************************)
EXTENDS Platform, Sequences, SequencesExt

CONSTANTS
    Installations,  \* the installations of the App (a bound)
    Planes,         \* the control plane rows that may come to exist (a bound)
    MostGrants,     \* how often an installation is suspended at most (a bound)
    MostHooks       \* webhooks of an installation that are under way (a bound)

VARIABLES
    install,    \* an installation at GitHub
    grant,      \* how often it was suspended: a token of an earlier grant is dead
    hooks,      \* its webhooks that are not handled yet, the oldest first
    link,       \* its row: the workspace, is_active, and the grant of its token
    plane,      \* the control plane rows
    deed,       \* what a request or a webhook is doing
    mixed,      \* history: two of them were served at the same time
    disordered  \* history: a webhook overtook an older one

githubVars == <<install, grant, hooks, link, plane, deed, mixed, disordered>>

Hooks == {"deleted", "suspend", "unsuspend"}
Health == {"unset", "healthy", "failed"}
GitHubIntegration ==
    [ws: Workspaces, plane: Planes, active: BOOLEAN, token: 0..MostGrants \union {None}]
ControlPlane == [ws: Workspaces, active: BOOLEAN, health: Health]

ASSUME GitHubAppAssumption ==
    /\ None \notin Installations \union Planes \union GitHubIntegration \union ControlPlane
    /\ MostGrants \in Nat /\ MostHooks \in Nat

\* active, token: what it loaded of the row; lost: the row was deleted since;
\* got: the grant of the token it fetched; plane: the control plane row it found.
Deed == [step: {"idle", "asked", "plane", "insert", "check", "fetch", "store",
                "uninstall", "drop", "loaded", "end"},
         op: {"callback", "token", "disconnect"} \union Hooks,
         ins: Installations \union {None}, ws: Workspaces \union {None},
         plane: Planes \union {None}, active: BOOLEAN,
         token: 0..MostGrants \union {None}, lost: BOOLEAN, fresh: BOOLEAN]
NoDeed == [step |-> "idle", op |-> "token", ins |-> None, ws |-> None,
           plane |-> None, active |-> TRUE, token |-> None, lost |-> FALSE,
           fresh |-> FALSE]

GitHubTypeOK ==
    /\ install \in [Installations -> {"none", "active", "suspended", "removed"}]
    /\ grant \in [Installations -> 0..MostGrants]
    /\ hooks \in [Installations -> Seq(Hooks)]
    /\ link \in [Installations -> GitHubIntegration \union {None}]
    /\ plane \in [Planes -> ControlPlane \union {None}]
    /\ deed \in [Calls -> Deed]
    /\ mixed \in BOOLEAN /\ disordered \in BOOLEAN

GitHubInit ==
    /\ install = [i \in Installations |-> "none"]
    /\ grant = [i \in Installations |-> 0]
    /\ hooks = [i \in Installations |-> <<>>]
    /\ link = [i \in Installations |-> None]
    /\ plane = [p \in Planes |-> None]
    /\ deed = [c \in Calls |-> NoDeed]
    /\ mixed = FALSE /\ disordered = FALSE

atGitHub == <<install, grant, hooks>>

LinksOf(w) == {i \in Installations : link[i] # None /\ link[i].ws = w}
PlanesOf(w) == {p \in Planes : plane[p] # None /\ plane[p].ws = w}

-----------------------------------------------------------------------------
(* GitHub. *)

Sends(i, hook) ==
    /\ Len(hooks[i]) < MostHooks
    /\ hooks' = [hooks EXCEPT ![i] = Append(@, hook)]

InstallApp(i) ==
    /\ install[i] = "none"
    /\ install' = [install EXCEPT ![i] = "active"]
    /\ UNCHANGED <<grant, hooks, link, plane, deed, mixed, disordered>>

SuspendApp(i) ==
    /\ install[i] = "active" /\ grant[i] < MostGrants
    /\ install' = [install EXCEPT ![i] = "suspended"]
    /\ grant' = [grant EXCEPT ![i] = @ + 1]
    /\ Sends(i, "suspend")
    /\ UNCHANGED <<link, plane, deed, mixed, disordered>>

UnsuspendApp(i) ==
    /\ install[i] = "suspended"
    /\ install' = [install EXCEPT ![i] = "active"]
    /\ Sends(i, "unsuspend")
    /\ UNCHANGED <<grant, link, plane, deed, mixed, disordered>>

RemoveApp(i) ==
    /\ install[i] \in {"active", "suspended"}
    /\ install' = [install EXCEPT ![i] = "removed"]
    /\ Sends(i, "deleted")
    /\ UNCHANGED <<grant, link, plane, deed, mixed, disordered>>

-----------------------------------------------------------------------------
(* How a request or a webhook starts, goes on and ends. *)

Takes(c, q) ==
    /\ deed[c].step = "idle"
    /\ deed' = [deed EXCEPT ![c] = q]
    /\ mixed' = (mixed \/ \E d \in Calls \ {c} : deed[d].step # "idle")
    /\ UNCHANGED <<link, plane>>

\* A commit that leaves the rows rows and goes on as q; who has loaded a row
\* that is gone cannot write it any more.
Writes(c, rows, q) ==
    /\ link' = rows
    /\ deed' = [d \in Calls |-> IF d = c THEN q ELSE
           [deed[d] EXCEPT !.lost = @ \/ (/\ deed[d].ins # None
                                          /\ link[deed[d].ins] # None
                                          /\ rows[deed[d].ins] = None)]]
    /\ UNCHANGED <<mixed, disordered>>

Moves(c, q) == Writes(c, link, q) /\ UNCHANGED <<atGitHub, plane>>

DeedFails(c) ==
    /\ deed[c].step # "idle" /\ deed[c].op \notin Hooks
    /\ Moves(c, NoDeed)

At(c, step, ops) == deed[c].step = step /\ deed[c].op \in ops

-----------------------------------------------------------------------------
(* The callback of an installation. *)

AskCallback(c) ==
    \E i \in Installations, w \in Workspaces :
        /\ install[i] \in {"active", "suspended"}
        /\ Takes(c, [NoDeed EXCEPT !.step = "asked", !.op = "callback",
                                   !.ins = i, !.ws = w])
        /\ UNCHANGED <<atGitHub, disordered>>

\* A row of another workspace is refused; the one of this workspace is kept;
\* one that connects the workspace to another installation is deleted and
\* committed before there is a new one.
SwitchInstallation(c) ==
    LET q == deed[c] IN
    /\ At(c, "asked", {"callback"})
    /\ \/ /\ link[q.ins] # None
          /\ link[q.ins].ws = q.ws
          /\ Moves(c, [q EXCEPT !.step = "fetch"])
       \/ /\ link[q.ins] = None
          /\ Cardinality(LinksOf(q.ws)) <= 1
          /\ Writes(c, [i \in Installations |-> IF i \in LinksOf(q.ws) THEN None
                                                ELSE link[i]],
                    [q EXCEPT !.step = "plane"])
          /\ UNCHANGED <<atGitHub, plane>>

FindPlane(c) ==
    LET q == deed[c] IN
    /\ At(c, "plane", {"callback"})
    /\ \/ /\ PlanesOf(q.ws) = {}
          /\ Moves(c, [q EXCEPT !.step = "insert"])
       \/ \E p \in Planes :
             /\ PlanesOf(q.ws) = {p}
             /\ Moves(c, [q EXCEPT !.step = "insert", !.plane = p])

\* The row and, if it found none, its control plane row; an installation has one
\* row.
CreateIntegration(c) ==
    LET q == deed[c] IN
    /\ At(c, "insert", {"callback"})
    /\ link[q.ins] = None
    /\ \E p \in Planes :
          /\ IF q.plane = None THEN plane[p] = None
             ELSE p = q.plane /\ plane[p] # None
          /\ plane' = [plane EXCEPT ![p] = IF q.plane = None
                 THEN [ws |-> q.ws, active |-> TRUE, health |-> "unset"]
                 ELSE [@ EXCEPT !.active = TRUE]]
          /\ Writes(c, [link EXCEPT ![q.ins] = [ws |-> q.ws, plane |-> p,
                                                active |-> TRUE, token |-> None]],
                    [q EXCEPT !.step = "check", !.plane = p, !.fresh = TRUE,
                              !.lost = FALSE])
    /\ UNCHANGED atGitHub

\* check_github_health of the row as it was inserted: it has no token.
InitialCheck(c) ==
    LET q == deed[c] IN
    /\ At(c, "check", {"callback"})
    /\ plane[q.plane] # None
    /\ plane' = [plane EXCEPT ![q.plane].health = "failed",
                              ![q.plane].active = FALSE]
    /\ Writes(c, link, [q EXCEPT !.step = "fetch"])
    /\ UNCHANGED atGitHub

\* A new token, of the callback, of get_valid_access_token, of unsuspend.
FetchToken(c) ==
    LET q == deed[c] IN
    /\ At(c, "fetch", {"callback", "token", "unsuspend"})
    /\ install[q.ins] = "active"
    /\ Moves(c, [q EXCEPT !.step = "store", !.token = grant[q.ins]])

StoreToken(c) ==
    LET q == deed[c] IN
    /\ At(c, "store", {"callback", "token"})
    /\ ~q.lost
    /\ Writes(c, [link EXCEPT ![q.ins].token = q.token], NoDeed)
    /\ UNCHANGED <<atGitHub, plane>>

\* get_valid_access_token, of a token that is missing or about to expire.
AskToken(c) ==
    \E i \in Installations :
        /\ link[i] # None
        /\ LinksOf(link[i].ws) = {i}
        /\ link[i].active
        /\ Takes(c, [NoDeed EXCEPT !.step = "fetch", !.op = "token", !.ins = i])
        /\ UNCHANGED <<atGitHub, disordered>>

AskDisconnect(c) ==
    \E i \in Installations :
        /\ link[i] # None
        /\ LinksOf(link[i].ws) = {i}
        /\ Takes(c, [NoDeed EXCEPT !.step = "uninstall", !.op = "disconnect",
                                   !.ins = i, !.ws = link[i].ws])
        /\ UNCHANGED <<atGitHub, disordered>>

\* Whether GitHub does it or not, the row goes next.
UninstallApp(c) ==
    LET q == deed[c] IN
    /\ At(c, "uninstall", {"disconnect"})
    /\ \/ UNCHANGED atGitHub
       \/ /\ install[q.ins] \in {"active", "suspended"}
          /\ install' = [install EXCEPT ![q.ins] = "removed"]
          /\ Sends(q.ins, "deleted")
          /\ UNCHANGED grant
    /\ Writes(c, link, [q EXCEPT !.step = "drop"])
    /\ UNCHANGED plane

\* The control plane row stays.
DropRow(c) ==
    LET q == deed[c] IN
    /\ At(c, "drop", {"disconnect"})
    /\ Writes(c, IF q.lost THEN link ELSE [link EXCEPT ![q.ins] = None], NoDeed)
    /\ UNCHANGED <<atGitHub, plane>>

-----------------------------------------------------------------------------
(* Webhooks.  One that fails is answered 500 "so GitHub retries": the model    *)
(* takes the code by its word, and the hook stays to be sent again.           *)

TakeHook(c) ==
    \E i \in Installations : \E n \in DOMAIN hooks[i] :
        LET hook == hooks[i][n] IN
        /\ Takes(c, IF link[i] = None THEN NoDeed ELSE
               [NoDeed EXCEPT !.op = hook, !.ins = i, !.ws = link[i].ws,
                   !.step = IF hook = "unsuspend" THEN "fetch" ELSE "loaded",
                   !.active = link[i].active, !.token = link[i].token])
        /\ hooks' = [hooks EXCEPT ![i] = RemoveAt(@, n)]
        /\ disordered' = (disordered \/ n > 1)
        /\ UNCHANGED <<install, grant>>

HookAnsweredAnyway(c) ==
    /\ deed[c].step # "idle" /\ deed[c].op \in Hooks
    /\ Moves(c, NoDeed)

HookFails(c) ==
    LET q == deed[c] IN
    /\ q.step # "idle" /\ q.op \in Hooks
    /\ Len(hooks[q.ins]) < MostHooks
    /\ hooks' = [hooks EXCEPT ![q.ins] = <<q.op>> \o @]
    /\ Writes(c, link, NoDeed)
    /\ UNCHANGED <<install, grant, plane>>

\* Only what differs from what was loaded is written.
HandleSuspend(c) ==
    LET q == deed[c] IN
    /\ At(c, "loaded", {"suspend"})
    /\ ~q.lost
    /\ Writes(c, [link EXCEPT
                     ![q.ins].active = IF q.active THEN FALSE ELSE @,
                     ![q.ins].token = IF q.token # None THEN None ELSE @], NoDeed)
    /\ UNCHANGED <<atGitHub, plane>>

HandleUnsuspend(c) ==
    LET q == deed[c] IN
    /\ At(c, "store", {"unsuspend"})
    /\ ~q.lost
    /\ Writes(c, [link EXCEPT ![q.ins].active = IF q.active THEN @ ELSE TRUE,
                              ![q.ins].token = q.token], NoDeed)
    /\ UNCHANGED <<atGitHub, plane>>

\* The row is locked; the control plane row goes too if no other row of the
\* workspace is left.
FindRemaining(c) ==
    LET q == deed[c] IN
    /\ At(c, "loaded", {"deleted"})
    /\ ~q.lost
    /\ \/ /\ LinksOf(q.ws) # {q.ins} \/ PlanesOf(q.ws) = {}
          /\ Moves(c, [q EXCEPT !.step = "end"])
       \/ /\ LinksOf(q.ws) = {q.ins}
          /\ \E p \in Planes :
                /\ PlanesOf(q.ws) = {p}
                /\ Moves(c, [q EXCEPT !.step = "end", !.plane = p])

\* Rows go with their control plane row.
HandleUninstall(c) ==
    LET q == deed[c] IN
    /\ At(c, "end", {"deleted"})
    /\ plane' = [p \in Planes |-> IF p = q.plane THEN None ELSE plane[p]]
    /\ Writes(c, [i \in Installations |->
                     IF link[i] # None /\ (i = q.ins \/ link[i].plane = q.plane)
                     THEN None ELSE link[i]], NoDeed)
    /\ UNCHANGED atGitHub

\* check_integration_health: no row, no token, or what GitHub says to the token.
Works(i) == install[i] = "active" /\ link[i].token = grant[i]

CheckHealth(p) ==
    /\ plane[p] # None
    /\ LET rows == {i \in Installations : link[i] # None /\ link[i].plane = p}
           good == \E i \in rows : rows = {i} /\ Works(i) IN
       plane' = [plane EXCEPT ![p].health = IF good THEN "healthy" ELSE "failed",
                              ![p].active = good]
    /\ UNCHANGED <<atGitHub, link, deed, mixed, disordered>>

-----------------------------------------------------------------------------
AppStep(c) ==
    \/ AskCallback(c) \/ SwitchInstallation(c) \/ FindPlane(c)
    \/ CreateIntegration(c) \/ InitialCheck(c) \/ FetchToken(c) \/ StoreToken(c)
    \/ AskToken(c) \/ AskDisconnect(c) \/ UninstallApp(c) \/ DropRow(c)
    \/ DeedFails(c)

HookStep(c) ==
    \/ TakeHook(c) \/ HookFails(c) \/ HandleSuspend(c) \/ HandleUnsuspend(c)
    \/ FindRemaining(c) \/ HandleUninstall(c)

GitHubNext ==
    \/ \E i \in Installations :
          InstallApp(i) \/ SuspendApp(i) \/ UnsuspendApp(i) \/ RemoveApp(i)
    \/ \E c \in Calls : AppStep(c) \/ HookStep(c)
    \/ \E p \in Planes : CheckHealth(p)

GitHubSpec == GitHubInit /\ [][GitHubNext]_githubVars

-----------------------------------------------------------------------------
Served == \A c \in Calls : deed[c].step = "idle"

\* Once every webhook has been handled, in order and one thing at a time, an
\* active row has no dead token: a suspension takes it away for good, although
\* requests store tokens of their own before and after.
TokenWorks ==
    ~mixed /\ ~disordered /\ Served =>
        \A i \in Installations :
            /\ hooks[i] = <<>> /\ link[i] # None
            /\ link[i].active /\ link[i].token # None
            => Works(i)

\* One thing at a time and in order, a row that is inactive has a token only
\* while the webhook that makes it active again is under way.
InactiveHasNoToken ==
    ~mixed /\ ~disordered /\ Served =>
        \A i \in Installations :
            /\ link[i] # None
            /\ ~link[i].active /\ link[i].token # None
            => \E n \in DOMAIN hooks[i] : hooks[i][n] \in {"unsuspend", "deleted"}

\* One thing at a time, a workspace has one installation: with two, every
\* request for its token fails from then on.
OneInstallation ==
    ~mixed => \A w \in Workspaces :
        Cardinality(LinksOf(w)) <= 1 /\ Cardinality(PlanesOf(w)) <= 1

\* One thing at a time and in order, nothing is left of an installation that was
\* removed at GitHub once its webhooks have been handled, although one may fail
\* any number of times and a callback may be half done.
RemovedIsForgotten ==
    ~mixed /\ ~disordered /\ Served =>
        \A i \in Installations :
            install[i] = "removed" /\ hooks[i] = <<>> => link[i] = None

\* A workspace has one installation, whose token works while it is active, and
\* nothing of an installation that was removed.
InstallationsAreSound ==
    TokenWorks /\ InactiveHasNoToken /\ OneInstallation /\ RemovedIsForgotten
=============================================================================
