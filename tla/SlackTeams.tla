----------------------------- MODULE SlackTeams -----------------------------
(***************************************************************************)
(* Which workspace a Slack team is connected to: its installation row, of   *)
(* which there is one for a team, and the workspace's control plane row.    *)
(***************************************************************************)
EXTENDS Platform

CONSTANTS
    SlackWorkspaces,  \* workspaces that connect a Slack team (a bound)
    SlackTeamIds,     \* Slack teams (a bound)
    SlackPlanes       \* control plane rows (a bound)

SlackInstallation == [ws: SlackWorkspaces, plane: SlackPlanes]

ASSUME SlackTeamsAssumption ==
    None \notin SlackWorkspaces \union SlackTeamIds \union SlackPlanes
                   \union SlackInstallation

VARIABLES
    installed,   \* for each team: its installation, or None
    slackPlane,  \* the control plane rows: their workspace, or None
    oauth        \* what a request is doing

teamVars == <<installed, slackPlane, oauth>>

\* kept: the installation it has found is still there.
OAuth == [step: {"idle", "find", "update", "plane", "add", "join", "delete"},
          team: SlackTeamIds \union {None}, ws: SlackWorkspaces \union {None},
          plane: SlackPlanes \union {None}, kept: BOOLEAN]
NoOAuth == [step |-> "idle", team |-> None, ws |-> None, plane |-> None,
            kept |-> TRUE]

SlackTeamsTypeOK ==
    /\ installed \in [SlackTeamIds -> SlackInstallation \union {None}]
    /\ slackPlane \in [SlackPlanes -> SlackWorkspaces \union {None}]
    /\ oauth \in [Calls -> OAuth]

SlackTeamsInit ==
    /\ installed = [t \in SlackTeamIds |-> None]
    /\ slackPlane = [p \in SlackPlanes |-> None]
    /\ oauth = [c \in Calls |-> NoOAuth]

TeamsOf(w) == {t \in SlackTeamIds : installed[t] # None /\ installed[t].ws = w}
SlackPlanesOf(w) == {p \in SlackPlanes : slackPlane[p] = w}

Enters(c, q) ==
    /\ oauth[c].step = "idle"
    /\ oauth' = [oauth EXCEPT ![c] = q]
    /\ UNCHANGED <<installed, slackPlane>>

Reads(c, q) ==
    /\ oauth' = [oauth EXCEPT ![c] = q]
    /\ UNCHANGED <<installed, slackPlane>>

\* A commit of the rows; who has found a row that goes holds it no longer.
Stores(c, rows, planes) ==
    /\ installed' = rows
    /\ slackPlane' = planes
    /\ oauth' = [d \in Calls |-> IF d = c THEN NoOAuth ELSE
           [oauth[d] EXCEPT
               !.kept = @ /\ oauth[d].team \notin
                   {t \in SlackTeamIds : installed[t] # None /\ rows[t] = None},
               !.plane = IF @ \in {p \in SlackPlanes : planes[p] = None} THEN None
                         ELSE @]]

OAuthFails(c) ==
    /\ oauth[c].step # "idle"
    /\ Reads(c, NoOAuth)

-----------------------------------------------------------------------------
OAuthCallback(c) ==
    \E t \in SlackTeamIds, w \in SlackWorkspaces :
        Enters(c, [NoOAuth EXCEPT !.step = "find", !.team = t, !.ws = w])

\* Faulty: whoever asks last gets the team.
FindInstallationOfAnybody(c) ==
    LET q == oauth[c] IN
    /\ q.step = "find"
    /\ Reads(c, [q EXCEPT !.step = IF installed[q.team] = None THEN "plane" ELSE "update",
                          !.kept = TRUE])

\* One that belongs to another workspace is refused.
FindInstallation(c) ==
    LET q == oauth[c] IN
    /\ q.step = "find"
    /\ \/ /\ installed[q.team] = None
          /\ Reads(c, [q EXCEPT !.step = "plane"])
       \/ /\ installed[q.team] # None
          /\ installed[q.team].ws = q.ws
          /\ Reads(c, [q EXCEPT !.step = "update", !.kept = TRUE])

\* The row it has found, which may have gone since.
UpdateInstallation(c) ==
    LET q == oauth[c] IN
    /\ q.step = "update"
    /\ q.kept
    /\ Stores(c, [installed EXCEPT ![q.team].ws = q.ws], slackPlane)

FindSlackPlane(c) ==
    LET q == oauth[c] IN
    /\ q.step = "plane"
    /\ \/ SlackPlanesOf(q.ws) = {} /\ Reads(c, [q EXCEPT !.step = "add"])
       \/ \E p \in SlackPlanes :
             /\ SlackPlanesOf(q.ws) = {p}
             /\ Reads(c, [q EXCEPT !.step = "join", !.plane = p])

\* The team may have one by now: its identifier is unique.
AddInstallation(c) ==
    LET q == oauth[c] IN
    /\ q.step \in {"add", "join"}
    /\ installed[q.team] = None
    /\ \E p \in SlackPlanes :
          /\ \/ q.step = "add" /\ slackPlane[p] = None
             \/ q.step = "join" /\ q.plane = p
          /\ Stores(c, [installed EXCEPT ![q.team] = [ws |-> q.ws, plane |-> p]],
                    [slackPlane EXCEPT ![p] = q.ws])

-----------------------------------------------------------------------------
\* With two teams, or two control plane rows, it is refused.
AskSlackDisconnect(c) ==
    \E w \in SlackWorkspaces, t \in SlackTeamIds :
        /\ TeamsOf(w) = {t}
        /\ Cardinality(SlackPlanesOf(w)) <= 1
        /\ Enters(c, [NoOAuth EXCEPT !.step = "delete", !.team = t, !.ws = w,
                 !.plane = IF SlackPlanesOf(w) = {} THEN None
                           ELSE CHOOSE p \in SlackPlanesOf(w) : TRUE])

DeleteInstallationOnly(c) ==
    LET q == oauth[c] IN
    /\ q.step = "delete" /\ q.kept
    /\ Stores(c, [installed EXCEPT ![q.team] = None], slackPlane)

\* Both rows, and with the control plane row all installations that hang on it.
DeleteInstallation(c) ==
    LET q == oauth[c] IN
    /\ q.step = "delete" /\ q.kept
    /\ Stores(c, [t \in SlackTeamIds |->
                     IF t = q.team \/ (/\ installed[t] # None /\ q.plane # None
                                       /\ installed[t].plane = q.plane)
                     THEN None ELSE installed[t]],
              [p \in SlackPlanes |-> IF p = q.plane THEN None ELSE slackPlane[p]])

-----------------------------------------------------------------------------
SlackTeamsNext ==
    \E c \in Calls :
        \/ OAuthCallback(c) \/ FindInstallation(c) \/ UpdateInstallation(c)
        \/ FindSlackPlane(c) \/ AddInstallation(c) \/ AskSlackDisconnect(c)
        \/ DeleteInstallation(c) \/ OAuthFails(c)

SlackTeamsSpec == SlackTeamsInit /\ [][SlackTeamsNext]_teamVars

-----------------------------------------------------------------------------
\* "Please disconnect it from the existing workspace first": whatever crosses, a
\* team goes from one workspace to another only by being disconnected.
TeamStays ==
    [][\A t \in SlackTeamIds :
        installed[t] # None /\ installed'[t] # None
        => installed'[t].ws = installed[t].ws]_teamVars

\* Whatever crosses, an installation hangs on a control plane row of its own
\* workspace, and every control plane row has one.
PlanesMatch ==
    /\ \A t \in SlackTeamIds :
          installed[t] # None => slackPlane[installed[t].plane] = installed[t].ws
    /\ \A p \in SlackPlanes :
          slackPlane[p] # None
          => \E t \in SlackTeamIds : installed[t] # None /\ installed[t].plane = p
=============================================================================
