-------------------------- MODULE ConnectionsProofs --------------------------
(***************************************************************************)
(* Proofs about what connects a workspace to the outside: its Slack team   *)
(* and the messages of a thread, its providers, its AWS role, and the      *)
(* installations of the GitHub App.                                        *)
(***************************************************************************)
EXTENDS MCConnections, DataLemmas, FiniteSetTheorems, TLAPS

-----------------------------------------------------------------------------
(* SlackTeams. *)

\* What a request still knows of the rows when it commits: one that was found is
\* there unless it was lost.
OAuthSound(q) ==
    q.step # "idle" =>
        /\ q.team \in SlackTeamIds /\ q.ws \in SlackWorkspaces
        /\ q.step = "update" /\ q.kept
           => installed[q.team] # None /\ installed[q.team].ws = q.ws
        /\ q.step = "join" /\ q.plane # None => slackPlane[q.plane] = q.ws
        /\ q.step = "delete" /\ q.kept
           => installed[q.team] # None /\ installed[q.team].plane = q.plane

TeamsInv ==
    /\ SlackTeamsTypeOK /\ PlanesMatch
    /\ \A c \in Calls : OAuthSound(oauth[c])

LEMMA TeamsTypes ==
    ASSUME TeamsInv
    PROVE  /\ installed \in [SlackTeamIds -> SlackInstallation \union {None}]
           /\ slackPlane \in [SlackPlanes -> SlackWorkspaces \union {None}]
           /\ oauth \in [Calls -> OAuth]
           /\ None \notin SlackInstallation /\ None \notin SlackPlanes
           /\ None \notin SlackWorkspaces
BY SlackTeamsAssumption DEF TeamsInv, SlackTeamsTypeOK, SlackInstallation

LEMMA NoOAuthSound == NoOAuth \in OAuth /\ NoOAuth.step = "idle" /\ OAuthSound(NoOAuth)
BY DEF NoOAuth, OAuth, OAuthSound

\* A request that reads or ends changes no row.
LEMMA ReadsInv ==
    ASSUME TeamsInv, NEW c \in Calls, NEW q \in OAuth, OAuthSound(q),
           oauth' = [oauth EXCEPT ![c] = q], UNCHANGED <<installed, slackPlane>>
    PROVE  TeamsInv'
<1>1. oauth' \in [Calls -> OAuth]
  BY TeamsTypes
<1>2. SlackTeamsTypeOK' /\ PlanesMatch'
  BY <1>1 DEF TeamsInv, SlackTeamsTypeOK, PlanesMatch
<1>3. ASSUME NEW d \in Calls PROVE OAuthSound(oauth[d])'
  <2>1. CASE d = c
    BY <2>1, TeamsTypes DEF OAuthSound
  <2>2. CASE d # c
    <3>1. oauth'[d] = oauth[d] /\ OAuthSound(oauth[d])
      BY <2>2, TeamsTypes DEF TeamsInv
    <3> QED
      BY <3>1 DEF OAuthSound
  <2> QED
    BY <2>1, <2>2
<1> QED
  BY <1>2, <1>3 DEF TeamsInv

\* A commit keeps a row as it is, or removes or adds it.
OnlyAddsOrRemoves(rows, planes) ==
    /\ rows \in [SlackTeamIds -> SlackInstallation \union {None}]
    /\ planes \in [SlackPlanes -> SlackWorkspaces \union {None}]
    /\ \A t \in SlackTeamIds : installed[t] # None => rows[t] \in {None, installed[t]}
    /\ \A p \in SlackPlanes : slackPlane[p] # None => planes[p] \in {None, slackPlane[p]}

LEMMA StoresInv ==
    ASSUME TeamsInv, NEW c \in Calls, NEW rows, NEW planes, Stores(c, rows, planes),
           OnlyAddsOrRemoves(rows, planes), PlanesMatch'
    PROVE  TeamsInv'
<1>1. installed' = rows /\ slackPlane' = planes
  BY DEF Stores
<1>2. ASSUME NEW d \in Calls
      PROVE  oauth'[d] \in OAuth /\ OAuthSound(oauth[d])'
  <2>1. CASE d = c
    <3>1. oauth'[d] = NoOAuth
      BY <2>1 DEF Stores
    <3> QED
      BY <3>1, NoOAuthSound DEF OAuthSound
  <2>2. CASE d # c
    <3>1. oauth[d] \in OAuth /\ OAuthSound(oauth[d])
      BY TeamsTypes DEF TeamsInv
    <3>2. oauth'[d] = [oauth[d] EXCEPT
               !.kept = @ /\ oauth[d].team \notin
                   {t \in SlackTeamIds : installed[t] # None /\ rows[t] = None},
               !.plane = IF @ \in {p \in SlackPlanes : planes[p] = None} THEN None
                         ELSE @]
      BY <2>2 DEF Stores
    <3>3. /\ oauth'[d] \in OAuth /\ oauth'[d].step = oauth[d].step
          /\ oauth'[d].team = oauth[d].team /\ oauth'[d].ws = oauth[d].ws
          /\ oauth'[d].kept => /\ oauth[d].kept
                               /\ oauth[d].team \notin {t \in SlackTeamIds :
                                      installed[t] # None /\ rows[t] = None}
          /\ oauth'[d].plane \in {None, oauth[d].plane}
          /\ oauth[d].plane \in SlackPlanes /\ planes[oauth[d].plane] # None
             => oauth'[d].plane = oauth[d].plane
          /\ oauth'[d].plane # None => planes[oauth'[d].plane] # None
      BY <3>1, <3>2 DEF OAuth
    <3>4. oauth[d].step # "idle" =>
              oauth[d].team \in SlackTeamIds /\ oauth[d].ws \in SlackWorkspaces
      BY <3>1 DEF OAuthSound
    <3>5. oauth[d].step = "update" /\ oauth'[d].kept
          => rows[oauth[d].team] # None /\ rows[oauth[d].team].ws = oauth[d].ws
      BY <3>1, <3>3, <3>4 DEF OAuthSound, OnlyAddsOrRemoves
    <3>6. oauth[d].step = "join" /\ oauth'[d].plane # None
          => planes[oauth'[d].plane] = oauth[d].ws
      BY <3>1, <3>3, <3>4, TeamsTypes DEF OAuthSound, OnlyAddsOrRemoves, OAuth
    <3>7. oauth[d].step = "delete" /\ oauth'[d].kept
          => rows[oauth[d].team] # None /\ rows[oauth[d].team].plane = oauth'[d].plane
      <4> SUFFICES ASSUME oauth[d].step = "delete", oauth'[d].kept
                   PROVE  rows[oauth[d].team] # None
                          /\ rows[oauth[d].team].plane = oauth'[d].plane
        OBVIOUS
      <4>1. /\ installed[oauth[d].team] # None
            /\ installed[oauth[d].team].plane = oauth[d].plane
            /\ rows[oauth[d].team] = installed[oauth[d].team]
        BY <3>1, <3>3, <3>4 DEF OAuthSound, OnlyAddsOrRemoves
      <4>2. installed[oauth[d].team] \in SlackInstallation
        BY <3>4, <4>1, TeamsTypes
      <4>3. oauth[d].plane \in SlackPlanes /\ planes[oauth[d].plane] # None
        BY <1>1, <3>4, <4>1, <4>2, TeamsTypes DEF PlanesMatch, SlackInstallation
      <4> QED
        BY <3>3, <4>1, <4>3
    <3> QED
      BY <1>1, <3>3, <3>4, <3>5, <3>6, <3>7 DEF OAuthSound
  <2> QED
    BY <2>1, <2>2
<1>3. SlackTeamsTypeOK'
  <2>1. oauth' \in [Calls -> OAuth]
    BY <1>2 DEF Stores
  <2> QED
    BY <1>1, <2>1 DEF SlackTeamsTypeOK, OnlyAddsOrRemoves
<1> QED
  BY <1>2, <1>3 DEF TeamsInv

LEMMA TeamsReadInv ==
    ASSUME TeamsInv, NEW c \in Calls,
           OAuthCallback(c) \/ FindInstallation(c) \/ FindSlackPlane(c) \/ OAuthFails(c)
    PROVE  TeamsInv'
<1> DEFINE q == oauth[c]
<1>1. q \in OAuth /\ OAuthSound(q)
  BY TeamsTypes DEF TeamsInv
<1>2. CASE OAuthCallback(c)
  <2>1. PICK t \in SlackTeamIds, w \in SlackWorkspaces :
            Enters(c, [NoOAuth EXCEPT !.step = "find", !.team = t, !.ws = w])
    BY <1>2 DEF OAuthCallback
  <2> DEFINE p == [NoOAuth EXCEPT !.step = "find", !.team = t, !.ws = w]
  <2>2. p \in OAuth /\ p.step = "find" /\ p.team = t /\ p.ws = w
    BY DEF NoOAuth, OAuth
  <2> HIDE DEF p
  <2>3. OAuthSound(p)
    BY <2>2 DEF OAuthSound
  <2> QED
    BY <2>1, <2>2, <2>3, ReadsInv DEF Enters, p
<1>3. CASE FindInstallation(c)
  <2>1. q.step = "find" /\ q.team \in SlackTeamIds /\ q.ws \in SlackWorkspaces
    BY <1>1, <1>3 DEF FindInstallation, OAuthSound
  <2>2. CASE installed[q.team] = None /\ Reads(c, [q EXCEPT !.step = "plane"])
    <3> DEFINE p == [q EXCEPT !.step = "plane"]
    <3>1. p \in OAuth /\ p.step = "plane" /\ p.team = q.team /\ p.ws = q.ws
      BY <1>1 DEF OAuth
    <3> HIDE DEF p
    <3>2. OAuthSound(p)
      BY <2>1, <3>1 DEF OAuthSound
    <3> QED
      BY <2>2, <3>1, <3>2, ReadsInv DEF Reads, p
  <2>3. CASE /\ installed[q.team] # None /\ installed[q.team].ws = q.ws
             /\ Reads(c, [q EXCEPT !.step = "update", !.kept = TRUE])
    <3> DEFINE p == [q EXCEPT !.step = "update", !.kept = TRUE]
    <3>1. p \in OAuth /\ p.step = "update" /\ p.team = q.team /\ p.ws = q.ws
      BY <1>1 DEF OAuth
    <3> HIDE DEF p
    <3>2. OAuthSound(p)
      BY <2>1, <2>3, <3>1 DEF OAuthSound
    <3> QED
      BY <2>3, <3>1, <3>2, ReadsInv DEF Reads, p
  <2> QED
    BY <1>3, <2>2, <2>3 DEF FindInstallation
<1>4. CASE FindSlackPlane(c)
  <2>1. q.step = "plane" /\ q.team \in SlackTeamIds /\ q.ws \in SlackWorkspaces
    BY <1>1, <1>4 DEF FindSlackPlane, OAuthSound
  <2>2. CASE Reads(c, [q EXCEPT !.step = "add"])
    <3> DEFINE p == [q EXCEPT !.step = "add"]
    <3>1. p \in OAuth /\ p.step = "add" /\ p.team = q.team /\ p.ws = q.ws
      BY <1>1 DEF OAuth
    <3> HIDE DEF p
    <3>2. OAuthSound(p)
      BY <2>1, <3>1 DEF OAuthSound
    <3> QED
      BY <2>2, <3>1, <3>2, ReadsInv DEF Reads, p
  <2>3. ASSUME NEW r \in SlackPlanes, SlackPlanesOf(q.ws) = {r},
               Reads(c, [q EXCEPT !.step = "join", !.plane = r])
        PROVE  TeamsInv'
    <3> DEFINE p == [q EXCEPT !.step = "join", !.plane = r]
    <3>1. /\ p \in OAuth /\ p.step = "join" /\ p.team = q.team /\ p.ws = q.ws
          /\ p.plane = r /\ slackPlane[r] = q.ws
      BY <1>1, <2>3 DEF OAuth, SlackPlanesOf
    <3> HIDE DEF p
    <3>2. OAuthSound(p)
      BY <2>1, <3>1 DEF OAuthSound
    <3> QED
      BY <2>3, <3>1, <3>2, ReadsInv DEF Reads, p
  <2> QED
    BY <1>4, <2>2, <2>3 DEF FindSlackPlane
<1>5. CASE OAuthFails(c)
  BY <1>5, NoOAuthSound, ReadsInv DEF OAuthFails, Reads
<1> QED
  BY <1>2, <1>3, <1>4, <1>5

\* The team that is the workspace's only one hangs on its control plane row.
LEMMA AskSlackDisconnectInv ==
    ASSUME TeamsInv, NEW c \in Calls, AskSlackDisconnect(c)
    PROVE  TeamsInv'
<1>1. PICK w \in SlackWorkspaces, t \in SlackTeamIds :
          /\ TeamsOf(w) = {t}
          /\ Enters(c, [NoOAuth EXCEPT !.step = "delete", !.team = t, !.ws = w,
                   !.plane = IF SlackPlanesOf(w) = {} THEN None
                             ELSE CHOOSE p \in SlackPlanesOf(w) : TRUE])
  BY DEF AskSlackDisconnect
<1>2. installed[t] \in SlackInstallation /\ installed[t] # None /\ installed[t].ws = w
  BY <1>1, TeamsTypes DEF TeamsOf
<1>3. installed[t].plane \in SlackPlanes /\ slackPlane[installed[t].plane] = w
  BY <1>2 DEF SlackInstallation, TeamsInv, PlanesMatch
<1>4. \A p \in SlackPlanesOf(w) : p = installed[t].plane
  <2> SUFFICES ASSUME NEW p \in SlackPlanes, slackPlane[p] = w
               PROVE  p = installed[t].plane
    BY DEF SlackPlanesOf
  <2>1. slackPlane[p] # None
    BY TeamsTypes
  <2>2. PICK u \in SlackTeamIds : installed[u] # None /\ installed[u].plane = p
    BY <2>1 DEF TeamsInv, PlanesMatch
  <2>3. u \in TeamsOf(w)
    BY <2>2 DEF TeamsInv, PlanesMatch, TeamsOf
  <2> QED
    BY <1>1, <2>2, <2>3
<1>5. SlackPlanesOf(w) # {}
  BY <1>3 DEF SlackPlanesOf
<1>6. (CHOOSE p \in SlackPlanesOf(w) : TRUE) = installed[t].plane
  BY <1>4, <1>5
<1> DEFINE q == [NoOAuth EXCEPT !.step = "delete", !.team = t, !.ws = w,
                                !.plane = installed[t].plane]
<1>7. Enters(c, q)
  BY <1>1, <1>5, <1>6
<1>8. /\ q \in OAuth /\ q.step = "delete" /\ q.team = t /\ q.ws = w
      /\ q.plane = installed[t].plane
  BY <1>3 DEF NoOAuth, OAuth
<1> HIDE DEF q
<1>9. OAuthSound(q)
  BY <1>2, <1>8 DEF OAuthSound
<1> QED
  BY <1>7, <1>8, <1>9, ReadsInv DEF Enters

LEMMA UpdateInstallationStep ==
    ASSUME TeamsInv, NEW c \in Calls, UpdateInstallation(c)
    PROVE  TeamsInv' /\ UNCHANGED installed
<1> DEFINE q == oauth[c]
<1>1. /\ q.step = "update" /\ q.kept
      /\ Stores(c, [installed EXCEPT ![q.team].ws = q.ws], slackPlane)
  BY DEF UpdateInstallation
<1>2. /\ q.team \in SlackTeamIds /\ installed[q.team] # None
      /\ installed[q.team].ws = q.ws
  BY <1>1 DEF TeamsInv, OAuthSound
<1>3. installed[q.team] \in SlackInstallation
  BY <1>2, TeamsTypes
<1>4. [installed[q.team] EXCEPT !.ws = q.ws] = installed[q.team]
  BY <1>2, <1>3 DEF SlackInstallation
<1>5. [installed EXCEPT ![q.team].ws = q.ws] = installed
  BY <1>4, TeamsTypes
<1>6. Stores(c, installed, slackPlane) /\ UNCHANGED <<installed, slackPlane>>
  BY <1>1, <1>5 DEF Stores
<1>7. OnlyAddsOrRemoves(installed, slackPlane) /\ PlanesMatch'
  BY <1>6, TeamsTypes DEF OnlyAddsOrRemoves, TeamsInv, PlanesMatch
<1> QED
  BY <1>6, <1>7, StoresInv

LEMMA AddInstallationStep ==
    ASSUME TeamsInv, NEW c \in Calls, AddInstallation(c)
    PROVE  TeamsInv' /\ OnlyAddsOrRemoves(installed', slackPlane')
<1> DEFINE q == oauth[c]
<1>1. PICK p \in SlackPlanes :
          /\ \/ q.step = "add" /\ slackPlane[p] = None
             \/ q.step = "join" /\ q.plane = p
          /\ Stores(c, [installed EXCEPT ![q.team] = [ws |-> q.ws, plane |-> p]],
                    [slackPlane EXCEPT ![p] = q.ws])
  BY DEF AddInstallation
<1>2. /\ installed[q.team] = None /\ q.team \in SlackTeamIds /\ q.ws \in SlackWorkspaces
      /\ slackPlane[p] \in {None, q.ws}
  BY <1>1, TeamsTypes DEF AddInstallation, TeamsInv, OAuthSound
<1>3. /\ installed' = [installed EXCEPT ![q.team] = [ws |-> q.ws, plane |-> p]]
      /\ slackPlane' = [slackPlane EXCEPT ![p] = q.ws]
  BY <1>1 DEF Stores
<1>4. [ws |-> q.ws, plane |-> p] \in SlackInstallation /\ [ws |-> q.ws, plane |-> p] # None
  BY <1>2, TeamsTypes DEF SlackInstallation
<1>5. OnlyAddsOrRemoves(installed', slackPlane')
  BY <1>2, <1>3, <1>4, TeamsTypes DEF OnlyAddsOrRemoves
<1>6. PlanesMatch'
  <2>1. ASSUME NEW t \in SlackTeamIds, installed'[t] # None
        PROVE  slackPlane'[installed'[t].plane] = installed'[t].ws
    <3>1. CASE t = q.team
      BY <1>2, <1>3, <3>1, TeamsTypes
    <3>2. CASE t # q.team
      <4>1. installed'[t] = installed[t] /\ installed[t] \in SlackInstallation
        BY <1>3, <2>1, <3>2, TeamsTypes
      <4>2. installed[t].plane \in SlackPlanes /\ installed[t].ws \in SlackWorkspaces
            /\ slackPlane[installed[t].plane] = installed[t].ws
        BY <2>1, <4>1 DEF TeamsInv, PlanesMatch, SlackInstallation
      <4> QED
        BY <1>2, <1>3, <4>1, <4>2, TeamsTypes
    <3> QED
      BY <3>1, <3>2
  <2>2. ASSUME NEW r \in SlackPlanes, slackPlane'[r] # None
        PROVE  \E t \in SlackTeamIds : installed'[t] # None /\ installed'[t].plane = r
    <3>1. CASE r = p
      BY <1>2, <1>3, <1>4, <3>1, TeamsTypes
    <3>2. CASE r # p
      <4>1. PICK t \in SlackTeamIds : installed[t] # None /\ installed[t].plane = r
        BY <1>3, <2>2, <3>2, TeamsTypes DEF TeamsInv, PlanesMatch
      <4> QED
        BY <1>2, <1>3, <4>1, TeamsTypes
    <3> QED
      BY <3>1, <3>2
  <2> QED
    BY <2>1, <2>2 DEF PlanesMatch
<1> QED
  BY <1>1, <1>3, <1>5, <1>6, StoresInv

LEMMA DeleteInstallationStep ==
    ASSUME TeamsInv, NEW c \in Calls, DeleteInstallation(c)
    PROVE  TeamsInv' /\ OnlyAddsOrRemoves(installed', slackPlane')
<1> DEFINE q == oauth[c]
           rows == [t \in SlackTeamIds |->
                       IF t = q.team \/ (/\ installed[t] # None /\ q.plane # None
                                         /\ installed[t].plane = q.plane)
                       THEN None ELSE installed[t]]
           planes == [p \in SlackPlanes |-> IF p = q.plane THEN None ELSE slackPlane[p]]
<1>1. q.step = "delete" /\ q.kept /\ Stores(c, rows, planes)
  BY DEF DeleteInstallation
<1>2. /\ q.team \in SlackTeamIds /\ installed[q.team] # None
      /\ installed[q.team].plane = q.plane
  BY <1>1 DEF TeamsInv, OAuthSound
<1>3. q.plane \in SlackPlanes
  BY <1>2, TeamsTypes DEF SlackInstallation
<1>4. installed' = rows /\ slackPlane' = planes
  BY <1>1 DEF Stores
<1>5. OnlyAddsOrRemoves(rows, planes)
  BY TeamsTypes DEF OnlyAddsOrRemoves
<1>6. \A t \in SlackTeamIds :
          rows[t] # None => rows[t] = installed[t] /\ installed[t].plane # q.plane
  BY <1>2, <1>3, TeamsTypes
<1>7. \A t \in SlackTeamIds :
          installed[t] # None /\ installed[t].plane # q.plane => rows[t] = installed[t]
  BY <1>2
<1>8. PlanesMatch'
  <2>1. ASSUME NEW t \in SlackTeamIds, rows[t] # None
        PROVE  planes[rows[t].plane] = rows[t].ws
    <3>1. rows[t] \in SlackInstallation /\ rows[t] = installed[t]
          /\ installed[t].plane # q.plane
      BY <1>6, <2>1, TeamsTypes
    <3> QED
      BY <2>1, <3>1 DEF TeamsInv, PlanesMatch, SlackInstallation
  <2>2. ASSUME NEW p \in SlackPlanes, planes[p] # None
        PROVE  \E t \in SlackTeamIds : rows[t] # None /\ rows[t].plane = p
    <3>1. p # q.plane /\ slackPlane[p] # None
      BY <2>2
    <3>2. PICK t \in SlackTeamIds : installed[t] # None /\ installed[t].plane = p
      BY <3>1 DEF TeamsInv, PlanesMatch
    <3> QED
      BY <1>7, <3>1, <3>2
  <2> QED
    BY <1>4, <2>1, <2>2 DEF PlanesMatch
<1> QED
  BY <1>1, <1>4, <1>5, <1>8, StoresInv

LEMMA TeamsStep ==
    ASSUME TeamsInv, [SlackTeamsNext]_teamVars
    PROVE  TeamsInv' /\ \A t \in SlackTeamIds :
               installed[t] # None /\ installed'[t] # None
               => installed'[t].ws = installed[t].ws
<1>1. CASE UNCHANGED teamVars
  BY <1>1 DEF teamVars, TeamsInv, SlackTeamsTypeOK, PlanesMatch, OAuthSound
<1>2. ASSUME NEW c \in Calls,
             OAuthCallback(c) \/ FindInstallation(c) \/ FindSlackPlane(c) \/ OAuthFails(c)
               \/ AskSlackDisconnect(c)
      PROVE  TeamsInv' /\ UNCHANGED installed
  BY <1>2, TeamsReadInv, AskSlackDisconnectInv DEF OAuthCallback, FindInstallation,
     FindSlackPlane, OAuthFails, AskSlackDisconnect, Enters, Reads
<1>3. ASSUME NEW c \in Calls, AddInstallation(c) \/ DeleteInstallation(c)
      PROVE  TeamsInv' /\ OnlyAddsOrRemoves(installed', slackPlane')
  BY <1>3, AddInstallationStep, DeleteInstallationStep
<1> QED
  BY <1>1, <1>2, <1>3, UpdateInstallationStep DEF SlackTeamsNext, OnlyAddsOrRemoves

LEMMA TeamsInit == SlackTeamsInit => TeamsInv
BY NoOAuthSound DEF SlackTeamsInit, TeamsInv, SlackTeamsTypeOK, PlanesMatch

LEMMA TeamsInvariance == SlackTeamsSpec => []TeamsInv
BY TeamsInit, TeamsStep, PTL DEF SlackTeamsSpec

-----------------------------------------------------------------------------
(* SlackEvents. *)

\* The calls that handle a message and have come so far.
Handlers(e, steps) ==
    {c \in Calls : handling[c].post = e /\ handling[c].step \in steps}
Takers(e) == {p \in Apis : e \in seen[p]}
BeforeTurn == {"guard", "select", "insert", "create"}
AfterTurn == {"enqueue", "fail"}

\* Every turn of a message, and every call that may still make one, is of a
\* process that took it.
TurnsOfTakers ==
    ~restarted => \A e \in Posts :
        turns[e] + Cardinality(Handlers(e, BeforeTurn)) <= Cardinality(Takers(e))

\* A message that was taken is being handled, or was answered, or its handler
\* raised; one that was acknowledged was answered or taken.
TakenIsHandled ==
    ~restarted => \A e \in Posts :
        /\ Takers(e) # {} => e \in broken \/ e \in told \/ ~Handled(e)
        /\ e \in acked => e \in told \/ Takers(e) # {}

\* A job is in the queue, was set to FAILED, or is in the hands of its call.
JobsAccounted ==
    ~restarted => \A e \in Posts \ unsaved :
        turns[e] = queued[e] + failed[e] + Cardinality(Handlers(e, AfterTurn))

SlackInv == SlackTypeOK /\ TurnsOfTakers /\ TakenIsHandled /\ JobsAccounted

LEMMA SlackTypes ==
    ASSUME SlackInv
    PROVE  /\ handling \in [Calls -> Handling] /\ seen \in [Apis -> SUBSET Posts]
           /\ turns \in [Posts -> Nat] /\ queued \in [Posts -> Nat]
           /\ failed \in [Posts -> Nat]
           /\ \A c \in Calls : handling[c].step = "idle" <=> handling[c].post = None
           /\ None \notin Posts
BY SlackEventsAssumption DEF SlackInv, SlackTypeOK

LEMMA CardinalitiesAreNat ==
    ASSUME NEW e, NEW steps
    PROVE  /\ IsFiniteSet(Handlers(e, steps)) /\ Cardinality(Handlers(e, steps)) \in Nat
           /\ IsFiniteSet(Takers(e)) /\ Cardinality(Takers(e)) \in Nat
<1>1. IsFiniteSet(Calls) /\ IsFiniteSet(Apis)
  BY SlackEventsAssumption
<1>2. Handlers(e, steps) \subseteq Calls /\ Takers(e) \subseteq Apis
  BY DEF Handlers, Takers
<1>3. IsFiniteSet(Handlers(e, steps)) /\ IsFiniteSet(Takers(e))
  BY <1>1, <1>2, FS_Subset
<1> QED
  BY <1>3, FS_CardinalityType

\* One call goes on: it leaves a set of handlers, or comes into it.
LEMMA OneMoves ==
    ASSUME NEW H, NEW N, NEW c, IsFiniteSet(H), N \ {c} = H \ {c}
    PROVE  /\ Cardinality(N) \in Nat /\ Cardinality(H) \in Nat
           /\ c \in H /\ c \notin N => Cardinality(N) = Cardinality(H) - 1
           /\ c \notin H /\ c \in N => Cardinality(N) = Cardinality(H) + 1
           /\ (c \in H <=> c \in N) => Cardinality(N) = Cardinality(H)
<1>1. CASE c \in N /\ c \notin H
  <2>1. N = H \union {c}
    BY <1>1
  <2> QED
    BY <1>1, <2>1, FS_AddElement, FS_CardinalityType
<1>2. CASE c \in H /\ c \notin N
  <2>1. N = H \ {c}
    BY <1>2
  <2> QED
    BY <1>2, <2>1, FS_RemoveElement, FS_CardinalityType
<1>3. CASE c \in H <=> c \in N
  <2>1. N = H
    BY <1>3
  <2> QED
    BY <1>3, <2>1, FS_CardinalityType
<1> QED
  BY <1>1, <1>2, <1>3

\* 1 when the call is one of these handlers.
Is(c, e, steps) == IF handling[c].post = e /\ handling[c].step \in steps THEN 1 ELSE 0

LEMMA HandlerMoves ==
    ASSUME NEW c \in Calls, \A d \in Calls \ {c} : handling'[d] = handling[d],
           NEW e, NEW steps
    PROVE  Cardinality(Handlers(e, steps)')
               = Cardinality(Handlers(e, steps)) - Is(c, e, steps) + Is(c, e, steps)'
<1> DEFINE H == Handlers(e, steps)
           N == Handlers(e, steps)'
<1>1. N \ {c} = H \ {c}
  BY DEF Handlers
<1>2. IsFiniteSet(H)
  BY CardinalitiesAreNat
<1>3. (c \in H) <=> (Is(c, e, steps) = 1)
  BY DEF Handlers, Is
<1>4. (c \in N) <=> (Is(c, e, steps)' = 1)
  BY DEF Handlers, Is
<1>5. Is(c, e, steps) \in {0, 1} /\ Is(c, e, steps)' \in {0, 1}
  BY DEF Is
<1> HIDE DEF H, N
<1>6. /\ Cardinality(N) \in Nat /\ Cardinality(H) \in Nat
      /\ (c \in H /\ c \notin N) => Cardinality(N) = Cardinality(H) - 1
      /\ (c \notin H /\ c \in N) => Cardinality(N) = Cardinality(H) + 1
      /\ (c \in H <=> c \in N) => Cardinality(N) = Cardinality(H)
  BY <1>1, <1>2, OneMoves
<1>7. Cardinality(N) = Cardinality(H) - Is(c, e, steps) + Is(c, e, steps)'
  BY <1>3, <1>4, <1>5, <1>6
<1> QED
  BY <1>7 DEF H, N

OneMore(n, m, c) == m = [n EXCEPT ![handling[c].post] = @ + 1]

\* A call that goes on, and leaves what was taken and answered as it is.
LEMMA GoesInv ==
    ASSUME SlackInv, NEW c \in Calls, NEW from, NEW to,
           from \in {"guard", "select", "insert", "create", "enqueue", "fail"},
           to \in {"select", "insert", "create", "enqueue", "fail", "reply"},
           Does(c, from), Goes(c, to),
           session' \in BOOLEAN,
           IF from \in BeforeTurn /\ to \in AfterTurn
               THEN OneMore(turns, turns', c) ELSE turns' = turns,
           from \in AfterTurn => to \in AfterTurn \/ to = "reply",
           IF from = "enqueue" /\ to = "reply"
               THEN OneMore(queued, queued', c) ELSE queued' = queued,
           \/ /\ IF from = "fail" /\ to = "reply"
                     THEN OneMore(failed, failed', c) ELSE failed' = failed
              /\ unsaved' = unsaved
           \/ /\ failed' = failed
              /\ unsaved' = unsaved \union {handling[c].post}
    PROVE  SlackInv'
<1> DEFINE e == handling[c].post
           h == [handling[c] EXCEPT !.step = to]
<1>1. /\ handling' = [handling EXCEPT ![c] = h] /\ handling[c] \in Handling
      /\ UNCHANGED <<sent, acked, seen, told, broken, restarted>>
      /\ handling[c].step = from
  BY SlackTypes DEF Goes, Does
<1>2. e \in Posts
  BY <1>1, SlackTypes DEF Handling
<1>3. h \in Handling /\ h.post = e /\ h.step = to
  BY <1>1 DEF Handling
<1> HIDE DEF h
<1>4. handling' \in [Calls -> Handling] /\ \A d \in Calls :
          /\ handling'[d].post = handling[d].post
          /\ handling'[d].step = IF d = c THEN to ELSE handling[d].step
  BY <1>1, <1>3, SlackTypes
<1>5. SlackTypeOK'
  <2>1. \A d \in Calls : (handling'[d].step = "idle") = (handling'[d].post = None)
    BY <1>2, <1>4, SlackTypes
  <2>2. turns' \in [Posts -> Nat] /\ queued' \in [Posts -> Nat] /\ failed' \in [Posts -> Nat]
    BY <1>2, SlackTypes DEF OneMore
  <2>3. unsaved' \subseteq Posts
    BY <1>2 DEF SlackInv, SlackTypeOK
  <2> QED
    BY <1>1, <1>4, <2>1, <2>2, <2>3 DEF SlackInv, SlackTypeOK
<1>6. ASSUME NEW x \in Posts, NEW steps
      PROVE  Cardinality(Handlers(x, steps)')
                 = Cardinality(Handlers(x, steps))
                       - (IF x = e /\ from \in steps THEN 1 ELSE 0)
                       + (IF x = e /\ to \in steps THEN 1 ELSE 0)
  <2>1. \A d \in Calls \ {c} : handling'[d] = handling[d]
    BY <1>1, SlackTypes
  <2>2. Is(c, x, steps) = IF x = e /\ from \in steps THEN 1 ELSE 0
    BY <1>1 DEF Is
  <2>3. Is(c, x, steps)' = IF x = e /\ to \in steps THEN 1 ELSE 0
    BY <1>4 DEF Is
  <2> QED
    BY <2>1, <2>2, <2>3, HandlerMoves
<1>7. TurnsOfTakers'
  <2> SUFFICES ASSUME ~restarted, NEW x \in Posts
               PROVE  turns'[x] + Cardinality(Handlers(x, BeforeTurn)') <= Cardinality(Takers(x)')
    BY <1>1 DEF TurnsOfTakers
  <2>1. turns[x] + Cardinality(Handlers(x, BeforeTurn)) <= Cardinality(Takers(x))
    BY DEF SlackInv, TurnsOfTakers
  <2>2. Takers(x)' = Takers(x)
    BY <1>1 DEF Takers
  <2>3. Cardinality(Handlers(x, BeforeTurn)')
            = Cardinality(Handlers(x, BeforeTurn))
                - (IF x = e /\ from \in BeforeTurn THEN 1 ELSE 0)
                + (IF x = e /\ to \in BeforeTurn THEN 1 ELSE 0)
    BY <1>6
  <2>4. turns'[x] = turns[x] + (IF x = e /\ from \in BeforeTurn /\ to \in AfterTurn
                                THEN 1 ELSE 0)
    BY <1>2, SlackTypes DEF OneMore
  <2>5. to \in BeforeTurn => from \in BeforeTurn
    BY DEF BeforeTurn, AfterTurn
  <2>6. /\ turns[x] \in Nat /\ Cardinality(Handlers(x, BeforeTurn)) \in Nat
        /\ Cardinality(Takers(x)) \in Nat
    BY SlackTypes, CardinalitiesAreNat
  <2>7. to \in AfterTurn => to \notin BeforeTurn
    BY DEF BeforeTurn, AfterTurn
  <2> QED
    BY <2>1, <2>2, <2>3, <2>4, <2>5, <2>6, <2>7
<1>8. TakenIsHandled'
  BY <1>1, <1>4 DEF SlackInv, TakenIsHandled, Takers, Handled
<1>9. JobsAccounted'
  <2> SUFFICES ASSUME ~restarted, NEW x \in Posts \ unsaved'
               PROVE  turns'[x] = queued'[x] + failed'[x] + Cardinality(Handlers(x, AfterTurn)')
    BY <1>1 DEF JobsAccounted
  <2>1. turns[x] = queued[x] + failed[x] + Cardinality(Handlers(x, AfterTurn))
    BY DEF SlackInv, JobsAccounted
  <2>3. Cardinality(Handlers(x, AfterTurn)')
            = Cardinality(Handlers(x, AfterTurn))
                - (IF x = e /\ from \in AfterTurn THEN 1 ELSE 0)
                + (IF x = e /\ to \in AfterTurn THEN 1 ELSE 0)
    BY <1>6
  <2>4. turns'[x] = turns[x] + (IF x = e /\ from \in BeforeTurn /\ to \in AfterTurn
                                THEN 1 ELSE 0)
    BY <1>2, SlackTypes DEF OneMore
  <2>5. queued'[x] = queued[x] + (IF x = e /\ from = "enqueue" /\ to = "reply" THEN 1 ELSE 0)
    BY <1>2, SlackTypes DEF OneMore
  <2>6. failed'[x] = failed[x] + (IF x = e /\ from = "fail" /\ to = "reply" THEN 1 ELSE 0)
    BY <1>2, SlackTypes DEF OneMore
  <2>7. /\ turns[x] \in Nat /\ queued[x] \in Nat /\ failed[x] \in Nat
        /\ Cardinality(Handlers(x, AfterTurn)) \in Nat
    BY SlackTypes, CardinalitiesAreNat
  <2>8. /\ from \in BeforeTurn <=> from \notin AfterTurn
        /\ from \in AfterTurn <=> from = "enqueue" \/ from = "fail"
        /\ to = "reply" => to \notin AfterTurn
    BY DEF BeforeTurn, AfterTurn
  <2>9. CASE x # e
    BY <2>1, <2>3, <2>4, <2>5, <2>6, <2>7, <2>9
  <2>10. CASE x = e /\ from \in AfterTurn
    BY <2>1, <2>3, <2>4, <2>5, <2>6, <2>7, <2>8, <2>10
  <2>11. CASE x = e /\ from \in BeforeTurn
    BY <2>1, <2>3, <2>4, <2>5, <2>6, <2>7, <2>8, <2>11
  <2> QED
    BY <2>8, <2>9, <2>10, <2>11
<1> QED
  BY <1>5, <1>7, <1>8, <1>9 DEF SlackInv

LEMMA PostGoesOn ==
    ASSUME SlackInv, NEW c \in Calls,
           \/ AnswerAtOnce(c) \/ PassGuard(c) \/ SelectSession(c) \/ CreateTurn(c)
           \/ Enqueue(c) \/ EnqueueFails(c) \/ FailJob(c) \/ FailJobFails(c)
    PROVE  SlackInv'
<1>0. session \in BOOLEAN
  BY DEF SlackInv, SlackTypeOK
<1>1. CASE AnswerAtOnce(c)
  <2>1. PICK from \in {"guard", "insert", "create"} : Does(c, from)
    BY <1>1 DEF AnswerAtOnce, MakesJob
  <2>2. "reply" \notin AfterTurn /\ from \notin AfterTurn
    BY DEF AfterTurn
  <2> QED
    BY <1>0, <1>1, <2>1, <2>2, GoesInv DEF AnswerAtOnce, jobs
<1>2. CASE PassGuard(c)
  BY <1>0, <1>2, GoesInv DEF PassGuard, jobs, AfterTurn
<1>3. CASE SelectSession(c)
  <2>1. PICK to \in {"create", "insert"} : Goes(c, to)
    BY <1>3 DEF SelectSession
  <2>2. Does(c, "select") /\ to \notin AfterTurn /\ "select" \notin AfterTurn
    BY <1>3 DEF SelectSession, AfterTurn
  <2> QED
    BY <1>0, <1>3, <2>1, <2>2, GoesInv DEF SelectSession, jobs
<1>4. CASE CreateTurn(c)
  <2>1. PICK from \in {"insert", "create"} : Does(c, from)
    BY <1>4 DEF CreateTurn, MakesJob
  <2>2. "enqueue" \in AfterTurn /\ from \in BeforeTurn /\ from \notin AfterTurn
    BY DEF BeforeTurn, AfterTurn
  <2> QED
    BY <1>4, <2>1, <2>2, GoesInv DEF CreateTurn, OneMore
<1>5. CASE Enqueue(c)
  <2>1. Does(c, "enqueue") /\ Goes(c, "reply") /\ "enqueue" \notin BeforeTurn
    BY <1>5 DEF Enqueue, BeforeTurn
  <2>2. /\ OneMore(queued, queued', c)
        /\ UNCHANGED <<session, turns, failed, unsaved>>
    BY <1>5 DEF Enqueue, OneMore
  <2> QED
    BY <1>0, <2>1, <2>2, GoesInv
<1>6. CASE EnqueueFails(c)
  <2>1. /\ Does(c, "enqueue") /\ Goes(c, "fail")
        /\ "enqueue" \notin BeforeTurn /\ "fail" \in AfterTurn
    BY <1>6 DEF EnqueueFails, BeforeTurn, AfterTurn
  <2> QED
    BY <1>0, <1>6, <2>1, GoesInv DEF EnqueueFails, jobs
<1>7. CASE FailJob(c)
  <2>1. Does(c, "fail") /\ Goes(c, "reply") /\ "fail" \notin BeforeTurn
    BY <1>7 DEF FailJob, BeforeTurn
  <2>2. /\ OneMore(failed, failed', c)
        /\ UNCHANGED <<session, turns, queued, unsaved>>
    BY <1>7 DEF FailJob, OneMore
  <2> QED
    BY <1>0, <2>1, <2>2, GoesInv
<1>8. ASSUME FailJobFails(c)
      PROVE  SlackInv'
  <2>1. Does(c, "fail") /\ Goes(c, "reply") /\ "fail" \notin BeforeTurn
    BY <1>8 DEF FailJobFails, BeforeTurn
  <2>2. /\ unsaved' = unsaved \union {handling[c].post}
        /\ UNCHANGED <<session, turns, queued, failed>>
    BY <1>8 DEF FailJobFails, jobs
  <2> QED
    BY <1>0, <2>1, <2>2, GoesInv
<1> QED
  BY <1>1, <1>2, <1>3, <1>4, <1>5, <1>6, <1>7, <1>8

LEMMA TakeEventInv ==
    ASSUME SlackInv, NEW c \in Calls, TakeEvent(c)
    PROVE  SlackInv'
<1>1. PICK p \in Apis, e \in Posts :
          /\ e \notin seen[p] /\ handling[c].step = "idle" /\ Delivered(e)
          /\ seen' = [seen EXCEPT ![p] = @ \union {e}]
          /\ handling' = [handling EXCEPT ![c] = [step |-> "guard", api |-> p, post |-> e]]
          /\ UNCHANGED <<acked, session, turns, queued, failed, told, broken, unsaved,
                          restarted>>
  BY DEF TakeEvent, jobs
<1>2. handling' \in [Calls -> Handling] /\ handling[c].post = None
  BY <1>1, SlackTypes DEF Handling
<1>3. /\ handling'[c].post = e /\ handling'[c].step = "guard" /\ e # None
      /\ \A d \in Calls \ {c} : handling'[d] = handling[d]
  BY <1>1, SlackTypes
<1>4. /\ seen' \in [Apis -> SUBSET Posts] /\ seen'[p] = seen[p] \union {e}
      /\ \A q \in Apis \ {p} : seen'[q] = seen[q]
  BY <1>1, SlackTypes
<1>5. SlackTypeOK'
  <2>1. sent' \in [Posts -> 0..MostDeliveries]
    BY <1>1, SlackEventsAssumption DEF Delivered, SlackInv, SlackTypeOK
  <2>2. \A d \in Calls : (handling'[d].step = "idle") = (handling'[d].post = None)
    BY <1>3, SlackTypes
  <2> QED
    BY <1>1, <1>2, <1>4, <2>1, <2>2 DEF SlackInv, SlackTypeOK
<1>6. \A x \in Posts : Takers(x)' = IF x = e THEN Takers(x) \union {p} ELSE Takers(x)
  BY <1>4 DEF Takers
<1>7. p \notin Takers(e)
  BY <1>1 DEF Takers
<1>8. ASSUME NEW x \in Posts
      PROVE  /\ Cardinality(Handlers(x, BeforeTurn)')
                     = Cardinality(Handlers(x, BeforeTurn)) + (IF x = e THEN 1 ELSE 0)
             /\ Cardinality(Handlers(x, AfterTurn)') = Cardinality(Handlers(x, AfterTurn))
             /\ Cardinality(Takers(x)') = Cardinality(Takers(x)) + (IF x = e THEN 1 ELSE 0)
             /\ Cardinality(Handlers(x, BeforeTurn)) \in Nat
             /\ Cardinality(Handlers(x, AfterTurn)) \in Nat
             /\ Cardinality(Takers(x)) \in Nat
  <2>1. /\ Is(c, x, BeforeTurn) = 0 /\ Is(c, x, AfterTurn) = 0
        /\ Is(c, x, BeforeTurn)' = IF x = e THEN 1 ELSE 0
        /\ Is(c, x, AfterTurn)' = 0
    BY <1>2, <1>3, SlackEventsAssumption DEF Is, BeforeTurn, AfterTurn
  <2>2. /\ Cardinality(Handlers(x, BeforeTurn)) \in Nat
        /\ Cardinality(Handlers(x, AfterTurn)) \in Nat
        /\ Cardinality(Takers(x)) \in Nat /\ IsFiniteSet(Takers(x))
    BY CardinalitiesAreNat
  <2>3. /\ Cardinality(Handlers(x, BeforeTurn)')
                = Cardinality(Handlers(x, BeforeTurn)) - 0 + (IF x = e THEN 1 ELSE 0)
        /\ Cardinality(Handlers(x, AfterTurn)')
                = Cardinality(Handlers(x, AfterTurn)) - 0 + 0
    BY <1>3, <2>1, HandlerMoves
  <2>4. Cardinality(Takers(x)') = Cardinality(Takers(x)) + (IF x = e THEN 1 ELSE 0)
    BY <1>6, <1>7, <2>2, FS_AddElement
  <2> QED
    BY <2>2, <2>3, <2>4
<1>9. TurnsOfTakers'
  <2> SUFFICES ASSUME ~restarted, NEW x \in Posts
               PROVE  turns'[x] + Cardinality(Handlers(x, BeforeTurn)') <= Cardinality(Takers(x)')
    BY <1>1 DEF TurnsOfTakers
  <2>1. turns[x] + Cardinality(Handlers(x, BeforeTurn)) <= Cardinality(Takers(x))
    BY DEF SlackInv, TurnsOfTakers
  <2> QED
    BY <1>1, <1>8, <2>1, SlackTypes
<1>10. TakenIsHandled'
  <2> SUFFICES ASSUME ~restarted, NEW x \in Posts
               PROVE  /\ Takers(x)' # {} => x \in broken \/ x \in told \/ ~Handled(x)'
                      /\ x \in acked => x \in told \/ Takers(x)' # {}
    BY <1>1 DEF TakenIsHandled
  <2>1. /\ Takers(x) # {} => x \in broken \/ x \in told \/ ~Handled(x)
        /\ x \in acked => x \in told \/ Takers(x) # {}
    BY DEF SlackInv, TakenIsHandled
  <2>2. ~Handled(e)'
    BY <1>3 DEF Handled
  <2>3. x # e => (~Handled(x) => ~Handled(x)')
    BY <1>2, <1>3, SlackEventsAssumption DEF Handled
  <2> QED
    BY <1>6, <2>1, <2>2, <2>3
<1>11. JobsAccounted'
  BY <1>1, <1>8 DEF SlackInv, JobsAccounted
<1> QED
  BY <1>5, <1>9, <1>10, <1>11 DEF SlackInv

LEMMA EndsInv ==
    ASSUME SlackInv, NEW c \in Calls, EventFails(c) \/ Reply(c)
    PROVE  SlackInv'
<1> DEFINE e == handling[c].post
<1>1. /\ handling' = [handling EXCEPT ![c] = Unused]
      /\ e \in told' \union broken' /\ told \subseteq told' /\ broken \subseteq broken'
      /\ \/ acked' = acked
         \/ acked' = acked \union {e} /\ e \in told'
      /\ told' \subseteq told \union {e} /\ broken' \subseteq broken \union {e}
      /\ UNCHANGED <<sent, seen, session, turns, queued, failed, unsaved, restarted>>
      /\ handling[c].step \in {"guard", "select", "insert", "create", "reply"}
  BY DEF EventFails, Reply, jobs, Does
<1>2. e \in Posts /\ handling[c].step \notin AfterTurn
  BY <1>1, SlackTypes DEF Handling, AfterTurn
<1>3. /\ Unused \in Handling /\ Unused.post = None /\ Unused.step = "idle"
  BY DEF Unused, Handling
<1>4. /\ handling' \in [Calls -> Handling]
      /\ handling'[c].post = None /\ handling'[c].step = "idle"
      /\ \A d \in Calls \ {c} : handling'[d] = handling[d]
  BY <1>1, <1>3, SlackTypes
<1>5. SlackTypeOK'
  <2>1. \A d \in Calls : (handling'[d].step = "idle") = (handling'[d].post = None)
    BY <1>4, SlackTypes
  <2>2. acked' \subseteq Posts /\ told' \subseteq Posts /\ broken' \subseteq Posts
    BY <1>1, <1>2 DEF SlackInv, SlackTypeOK
  <2> QED
    BY <1>1, <1>4, <2>1, <2>2 DEF SlackInv, SlackTypeOK
<1>6. ASSUME NEW x \in Posts
      PROVE  /\ Cardinality(Handlers(x, BeforeTurn)') <= Cardinality(Handlers(x, BeforeTurn))
             /\ Cardinality(Handlers(x, AfterTurn)') = Cardinality(Handlers(x, AfterTurn))
             /\ Cardinality(Handlers(x, BeforeTurn)') \in Int
             /\ Cardinality(Handlers(x, BeforeTurn)) \in Nat
             /\ Cardinality(Handlers(x, AfterTurn)) \in Nat
             /\ Cardinality(Takers(x)) \in Nat
             /\ Takers(x)' = Takers(x)
  <2>1. /\ Is(c, x, BeforeTurn) \in {0, 1} /\ Is(c, x, AfterTurn) = 0
        /\ Is(c, x, BeforeTurn)' = 0 /\ Is(c, x, AfterTurn)' = 0
    BY <1>2, <1>4, SlackEventsAssumption DEF Is, BeforeTurn, AfterTurn
  <2>2. /\ Cardinality(Handlers(x, BeforeTurn)')
                = Cardinality(Handlers(x, BeforeTurn)) - Is(c, x, BeforeTurn) + 0
        /\ Cardinality(Handlers(x, AfterTurn)')
                = Cardinality(Handlers(x, AfterTurn)) - 0 + 0
    BY <1>4, <2>1, HandlerMoves
  <2>3. Takers(x)' = Takers(x)
    BY <1>1 DEF Takers
  <2> QED
    BY <2>1, <2>2, <2>3, CardinalitiesAreNat
<1>7. TurnsOfTakers'
  <2> SUFFICES ASSUME ~restarted, NEW x \in Posts
               PROVE  turns'[x] + Cardinality(Handlers(x, BeforeTurn)') <= Cardinality(Takers(x)')
    BY <1>1 DEF TurnsOfTakers
  <2>1. turns[x] + Cardinality(Handlers(x, BeforeTurn)) <= Cardinality(Takers(x))
    BY DEF SlackInv, TurnsOfTakers
  <2> QED
    BY <1>1, <1>6, <2>1, SlackTypes
<1>8. TakenIsHandled'
  <2> SUFFICES ASSUME ~restarted, NEW x \in Posts
               PROVE  /\ Takers(x)' # {} => x \in broken' \/ x \in told' \/ ~Handled(x)'
                      /\ x \in acked' => x \in told' \/ Takers(x)' # {}
    BY <1>1 DEF TakenIsHandled
  <2>1. /\ Takers(x) # {} => x \in broken \/ x \in told \/ ~Handled(x)
        /\ x \in acked => x \in told \/ Takers(x) # {}
    BY DEF SlackInv, TakenIsHandled
  <2>2. x # e => (~Handled(x) => ~Handled(x)')
    BY <1>4 DEF Handled
  <2> QED
    BY <1>1, <1>6, <2>1, <2>2
<1>9. JobsAccounted'
  BY <1>1, <1>6 DEF SlackInv, JobsAccounted
<1> QED
  BY <1>5, <1>7, <1>8, <1>9 DEF SlackInv

LEMMA SlackStepInv ==
    ASSUME SlackInv, [SlackNext]_slackVars
    PROVE  SlackInv'
<1>1. CASE UNCHANGED slackVars
  BY <1>1 DEF slackVars, SlackInv, SlackTypeOK, TurnsOfTakers, TakenIsHandled,
              JobsAccounted, Takers, Handlers, Handled
<1>2. CASE IgnoreDuplicate
  <2>1. PICK p \in Apis, e \in Posts :
            /\ e \in seen[p] /\ Delivered(e) /\ acked' = acked \union {e}
            /\ UNCHANGED <<seen, handling, session, turns, queued, failed, told, broken,
                            unsaved, restarted>>
    BY <1>2, SlackTypes DEF IgnoreDuplicate, jobs
  <2>2. Takers(e) # {}
    BY <2>1 DEF Takers
  <2>3. sent' \in [Posts -> 0..MostDeliveries]
    BY <2>1, <2>2, SlackEventsAssumption DEF Delivered, SlackInv, SlackTypeOK
  <2>4. /\ \A x \in Posts : Takers(x)' = Takers(x) /\ Handled(x)' = Handled(x)
        /\ \A x \in Posts : /\ Handlers(x, BeforeTurn)' = Handlers(x, BeforeTurn)
                            /\ Handlers(x, AfterTurn)' = Handlers(x, AfterTurn)
    BY <2>1 DEF Takers, Handled, Handlers
  <2>5. SlackTypeOK'
    BY <2>1, <2>2, <2>3 DEF SlackInv, SlackTypeOK
  <2>6. TakenIsHandled'
    BY <2>1, <2>2, <2>4 DEF SlackInv, TakenIsHandled
  <2>7. TurnsOfTakers' /\ JobsAccounted'
    BY <2>1, <2>4 DEF SlackInv, TurnsOfTakers, JobsAccounted
  <2> QED
    BY <2>5, <2>6, <2>7 DEF SlackInv
<1>3. ASSUME NEW c \in Calls, SlackStep(c)
      PROVE  SlackInv'
  BY <1>3, PostGoesOn, TakeEventInv, EndsInv DEF SlackStep
<1>4. ASSUME NEW p \in Apis, Restart(p)
      PROVE  SlackInv'
  <2>1. /\ seen' \in [Apis -> SUBSET Posts] /\ restarted' = TRUE
        /\ UNCHANGED <<sent, acked, session, turns, queued, failed, told, broken, unsaved>>
    BY <1>4, SlackTypes DEF Restart, jobs
  <2>2. \A c \in Calls : handling'[c] = Unused \/ handling'[c] = handling[c]
    BY <1>4 DEF Restart
  <2>3. Unused \in Handling /\ Unused.post = None /\ Unused.step = "idle"
    BY DEF Unused, Handling
  <2>4. handling' \in [Calls -> Handling]
    BY <1>4, <2>3, SlackTypes DEF Restart
  <2>5. \A c \in Calls : (handling'[c].step = "idle") = (handling'[c].post = None)
    BY <2>2, <2>3, SlackTypes
  <2> QED
    BY <2>1, <2>4, <2>5 DEF SlackInv, SlackTypeOK, TurnsOfTakers, TakenIsHandled,
                            JobsAccounted
<1> QED
  BY <1>1, <1>2, <1>3, <1>4 DEF SlackNext

LEMMA SlackInitInv == SlackInit => SlackInv
<1> SUFFICES ASSUME SlackInit PROVE SlackInv
  OBVIOUS
<1>1. Unused \in Handling /\ Unused.post = None /\ Unused.step = "idle"
  BY DEF Unused, Handling
<1>2. SlackTypeOK
  <2>1. sent \in [Posts -> 0..MostDeliveries] /\ seen \in [Apis -> SUBSET Posts]
    BY SlackEventsAssumption DEF SlackInit
  <2>2. /\ handling \in [Calls -> Handling]
        /\ \A c \in Calls : (handling[c].step = "idle") = (handling[c].post = None)
    BY <1>1 DEF SlackInit
  <2> QED
    BY <2>1, <2>2 DEF SlackInit, SlackTypeOK
<1>3. \A e \in Posts : /\ Takers(e) = {} /\ Handlers(e, BeforeTurn) = {}
                      /\ Handlers(e, AfterTurn) = {}
  BY <1>1, SlackEventsAssumption DEF SlackInit, Takers, Handlers
<1>4. Cardinality({}) = 0
  BY FS_EmptySet
<1> QED
  BY <1>2, <1>3, <1>4 DEF SlackInit, SlackInv, TurnsOfTakers, TakenIsHandled, JobsAccounted

LEMMA SlackInvariance == SlackSpec => []SlackInv
BY SlackInitInv, SlackStepInv, PTL DEF SlackSpec

LEMMA SlackIsDelivered == SlackInv => DeliveriesAreSound
<1> SUFFICES ASSUME SlackInv PROVE DeliveriesAreSound
  OBVIOUS
<1>1. OneTurnPerProcess
  <2> SUFFICES ASSUME ~restarted, NEW e \in Posts
               PROVE  turns[e] <= Cardinality(Takers(e))
    BY DEF OneTurnPerProcess, Takers
  <2>1. turns[e] + Cardinality(Handlers(e, BeforeTurn)) <= Cardinality(Takers(e))
    BY DEF SlackInv, TurnsOfTakers
  <2> QED
    BY <2>1, SlackTypes, CardinalitiesAreNat
<1>2. AckedIsAnswered
  BY DEF SlackInv, SlackTypeOK, TakenIsHandled, AckedIsAnswered
<1>3. NoForgottenJob
  <2> SUFFICES ASSUME ~restarted, NEW e \in Posts \ unsaved, Handled(e)
               PROVE  turns[e] = queued[e] + failed[e]
    BY DEF NoForgottenJob
  <2>1. Handlers(e, AfterTurn) = {}
    BY DEF Handled, Handlers
  <2>2. Cardinality({}) = 0
    BY FS_EmptySet
  <2>3. turns[e] = queued[e] + failed[e] + 0
    BY <2>1, <2>2 DEF SlackInv, JobsAccounted
  <2> QED
    BY <2>3, SlackTypes
<1> QED
  BY <1>1, <1>2, <1>3 DEF DeliveriesAreSound
-----------------------------------------------------------------------------
(* AwsCredentials. *)

\* What a call for a client knows of the workspace's row.  A credential that it
\* renewed was due, and is unless another process has replaced it.
FetchSound(q) ==
    /\ q.step # "idle" => q.proc \in Processes
    /\ q.step \in {"lock", "commit", "query", "cache"}
       => q.role \in 1..roles /\ q.role \in Roles /\ q.cred \in Creds
    /\ q.step = "cache" => q.until \in Creds
    /\ (q.step = "commit" /\ row # None /\ row.role = q.role /\ row.by = q.proc)
       => row.cred \in due

\* What it knows when nothing else runs.
AloneSound(q) ==
    /\ q.step \in {"lock", "commit", "query", "cache"}
       => row # None /\ row.role = q.role
    /\ q.step = "query" => row.cred = q.cred
    /\ q.step = "cache" => q.until = q.cred
    /\ q.step = "clear" => q.proc = cutBy

AwsInv ==
    /\ AwsTypeOK
    /\ row # None => row.role \in 1..roles
    /\ \A c \in Calls : /\ FetchSound(fetch[c])
                        /\ fetch[c].step = "commit" => lock[fetch[c].proc] = c
    /\ ~overlap =>
          /\ \A c \in Calls : \A d \in Calls \ {c} :
                fetch[c].step = "idle" \/ fetch[d].step = "idle"
          /\ \A c \in Calls : AloneSound(fetch[c])
          /\ \A p \in Processes : cache[p] # None => cache[p].until = cache[p].cred
          /\ DisconnectedRoleIsForgotten

LEMMA AwsTypes ==
    ASSUME AwsInv
    PROVE  /\ MostCreds \in Nat /\ MostRoles \in Nat
           /\ issued \in 0..MostCreds /\ roles \in 0..MostRoles /\ due \subseteq 1..issued
           /\ row \in Row \union {None} /\ cutBy \in Processes \union {None}
           /\ lock \in [Processes -> Calls \union {None}]
           /\ cache \in [Processes -> Client \union {None}]
           /\ fetch \in [Calls -> Fetch] /\ overlap \in BOOLEAN
           /\ None \notin Row /\ None \notin Client /\ None \notin Processes
           /\ None \notin Calls
BY AwsCredentialsAssumption, PlatformAssumption DEF AwsInv, AwsTypeOK

LEMMA NoFetchSound ==
    NoFetch \in Fetch /\ NoFetch.step = "idle" /\ FetchSound(NoFetch) /\ AloneSound(NoFetch)
BY DEF NoFetch, Fetch, FetchSound, AloneSound

\* One call at a time: when one is running, no other is.
LEMMA AloneIsAlone ==
    ASSUME AwsInv, ~overlap, NEW c \in Calls, fetch[c].step # "idle"
    PROVE  \A d \in Calls \ {c} : fetch[d].step = "idle"
BY DEF AwsInv

\* A call goes on and leaves the row as it is.
LEMMA StepsInv ==
    ASSUME AwsInv, NEW c \in Calls, NEW q \in Fetch, fetch[c].step # "idle",
           Steps(c, q), row' = row, issued' \in issued..MostCreds,
           lock' \in [Processes -> Calls \union {None}],
           cache' \in [Processes -> Client \union {None}],
           FetchSound(q), ~overlap => AloneSound(q),
           q.step = "commit" => lock'[q.proc] = c,
           \A d \in Calls \ {c} :
               fetch[d].step = "commit" => lock'[fetch[d].proc] = d,
           ~overlap => \A p \in Processes :
                           cache'[p] # None => cache'[p].until = cache'[p].cred,
           (~overlap /\ cutBy # None /\ q.step # "clear")
               => cache'[cutBy] = None \/ (row # None /\ cache'[cutBy].role = row.role)
    PROVE  AwsInv'
<1>1. /\ fetch' \in [Calls -> Fetch] /\ fetch'[c] = q
      /\ \A d \in Calls \ {c} : fetch'[d] = fetch[d]
      /\ UNCHANGED <<due, roles, cutBy, overlap>>
  BY AwsTypes DEF Steps
<1>2. AwsTypeOK'
  <2>1. issued' \in 0..MostCreds /\ due' \subseteq 1..issued'
    BY <1>1, AwsTypes
  <2> QED
    BY <1>1, <2>1, AwsTypes DEF AwsTypeOK
<1>3. (row # None => row.role \in 1..roles)'
  BY <1>1 DEF AwsInv
<1>4. ASSUME NEW d \in Calls
      PROVE  FetchSound(fetch[d])' /\ (fetch[d].step = "commit" => lock[fetch[d].proc] = d)'
  <2>1. CASE d = c
    BY <1>1, <2>1 DEF FetchSound
  <2>2. CASE d # c
    BY <1>1, <2>2 DEF AwsInv, FetchSound
  <2> QED
    BY <2>1, <2>2
<1>5. ASSUME ~overlap
      PROVE  /\ \A d \in Calls : \A e \in Calls \ {d} :
                   fetch'[d].step = "idle" \/ fetch'[e].step = "idle"
             /\ \A d \in Calls : AloneSound(fetch[d])'
             /\ DisconnectedRoleIsForgotten'
  <2>1. \A d \in Calls \ {c} : fetch[d].step = "idle"
    BY <1>5, AloneIsAlone
  <2>2. \A d \in Calls : AloneSound(fetch[d])'
    BY <1>1, <1>5, <2>1 DEF AloneSound
  <2>3. DisconnectedRoleIsForgotten'
    BY <1>1, <1>5 DEF DisconnectedRoleIsForgotten
  <2> QED
    BY <1>1, <2>1, <2>2, <2>3
<1> QED
  BY <1>1, <1>2, <1>3, <1>4, <1>5 DEF AwsInv

\* What the part of the invariant that is about the clients says before a step.
LEMMA ClientsBefore ==
    ASSUME AwsInv, NEW c \in Calls, fetch[c].step \notin {"idle", "clear"}, ~overlap
    PROVE  /\ \A p \in Processes : cache[p] # None => cache[p].until = cache[p].cred
           /\ cutBy # None => cache[cutBy] = None
                              \/ (row # None /\ cache[cutBy].role = row.role)
<1>1. \A d \in Calls : fetch[d].step # "clear"
  BY AloneIsAlone
<1> QED
  BY <1>1 DEF AwsInv, DisconnectedRoleIsForgotten

LEMMA FetchStepsInv ==
    ASSUME AwsInv, NEW c \in Calls,
           \/ ReadCredentials(c) \/ RenewUnderLock(c) \/ QueryExpiration(c)
           \/ CacheClient(c) \/ FetchFails(c) \/ ClearClientCache(c)
    PROVE  AwsInv'
<1> DEFINE q == fetch[c]
<1>1. /\ q \in Fetch /\ FetchSound(q) /\ (~overlap => AloneSound(q))
      /\ \A d \in Calls : fetch[d].step = "commit" => lock[fetch[d].proc] = d
      /\ row # None => row \in Row /\ row.role \in 1..roles
  BY AwsTypes DEF AwsInv
<1>2. issued \in issued..MostCreds
  BY AwsTypes
<1>3. CASE ReadCredentials(c)
  <2> DEFINE n == WithRow(q, IF row.cred \in due THEN "lock" ELSE "query")
  <2>1. /\ q.step = "read" /\ row # None /\ Steps(c, n) /\ UNCHANGED <<issued, row, lock, cache>>
    BY <1>3 DEF ReadCredentials
  <2>2. /\ n \in Fetch /\ n.step \in {"lock", "query"}
        /\ n.role = row.role /\ n.cred = row.cred /\ n.proc = q.proc
    BY <1>1, <2>1 DEF Fetch, Row, WithRow
  <2> HIDE DEF n
  <2>3. FetchSound(n) /\ AloneSound(n)
    BY <1>1, <2>1, <2>2 DEF FetchSound, AloneSound, Row
  <2> QED
    BY <1>1, <1>2, <2>1, <2>2, <2>3, AwsTypes, ClientsBefore, StepsInv
<1>4. CASE RenewUnderLock(c)
  <2>1. /\ q.step = "lock" /\ ~Held(q.proc) /\ row # None /\ row.role = q.role
        /\ UNCHANGED <<row, cache>>
    BY <1>4 DEF RenewUnderLock
  <2>2. CASE row.cred \notin due /\ Steps(c, WithRow(q, "query")) /\ UNCHANGED <<issued, lock>>
    <3> DEFINE n == WithRow(q, "query")
    <3>1. /\ n \in Fetch /\ n.step = "query"
          /\ n.role = row.role /\ n.cred = row.cred /\ n.proc = q.proc
      BY <1>1, <2>1 DEF Fetch, Row, WithRow
    <3> HIDE DEF n
    <3>2. FetchSound(n) /\ AloneSound(n)
      BY <1>1, <2>1, <3>1 DEF FetchSound, AloneSound, Row
    <3>3. Steps(c, n)
      BY <2>2 DEF n
    <3> QED
      BY <1>1, <1>2, <2>1, <2>2, <3>1, <3>2, <3>3, AwsTypes, ClientsBefore, StepsInv
  <2>3. CASE /\ row.cred \in due /\ issued < MostCreds /\ issued' = issued + 1
             /\ lock' = [lock EXCEPT ![q.proc] = c]
             /\ Steps(c, [q EXCEPT !.step = "commit", !.cred = issued + 1])
    <3> DEFINE n == [q EXCEPT !.step = "commit", !.cred = issued + 1]
    <3>0. issued + 1 \in Creds /\ issued' \in issued..MostCreds
      BY <2>3, AwsTypes DEF Creds
    <3>1. /\ n \in Fetch /\ n.step = "commit" /\ n.role = q.role /\ n.proc = q.proc
          /\ n.cred = issued + 1
      BY <1>1, <3>0 DEF Fetch
    <3>2. Steps(c, n)
      BY <2>3
    <3> HIDE DEF n
    <3>3. FetchSound(n) /\ (~overlap => AloneSound(n))
      BY <1>1, <2>1, <2>3, <3>0, <3>1 DEF FetchSound, AloneSound
    <3>4. /\ q.proc \in Processes /\ lock[q.proc] = None
          /\ lock' \in [Processes -> Calls \union {None}] /\ lock'[q.proc] = c
          /\ \A p \in Processes \ {q.proc} : lock'[p] = lock[p]
      BY <1>1, <2>1, <2>3, AwsTypes DEF FetchSound, Held
    <3>5. \A d \in Calls \ {c} : fetch[d].step = "commit" => lock'[fetch[d].proc] = d
      <4> SUFFICES ASSUME NEW d \in Calls \ {c}, fetch[d].step = "commit"
                   PROVE  lock'[fetch[d].proc] = d
        OBVIOUS
      <4>1. fetch[d].proc \in Processes
        BY DEF AwsInv, FetchSound
      <4> QED
        BY <1>1, <3>4, <4>1, AwsTypes
    <3> QED
      BY <2>1, <3>0, <3>1, <3>2, <3>3, <3>4, <3>5, AwsTypes, ClientsBefore, StepsInv
  <2> QED
    BY <1>4, <2>2, <2>3 DEF RenewUnderLock
<1>5. CASE QueryExpiration(c)
  <2>1. q.step = "query" /\ UNCHANGED <<issued, row, lock, cache>>
    BY <1>5 DEF QueryExpiration
  <2>2. CASE row = None
    <3>1. Steps(c, NoFetch)
      BY <1>5, <2>2 DEF QueryExpiration
    <3> QED
      BY <1>1, <1>2, <2>1, <3>1, NoFetchSound, AwsTypes, ClientsBefore, StepsInv
  <2>3. CASE row # None
    <3> DEFINE n == [q EXCEPT !.step = "cache", !.until = row.cred]
    <3>1. /\ n \in Fetch /\ n.step = "cache" /\ n.role = q.role /\ n.proc = q.proc
          /\ n.cred = q.cred /\ n.until = row.cred /\ row.cred \in Creds
      BY <1>1, <2>3 DEF Fetch, Row
    <3>2. Steps(c, n)
      BY <1>5, <2>3 DEF QueryExpiration
    <3> HIDE DEF n
    <3>3. FetchSound(n) /\ (~overlap => AloneSound(n))
      BY <1>1, <2>1, <3>1 DEF FetchSound, AloneSound
    <3> QED
      BY <1>1, <1>2, <2>1, <3>1, <3>2, <3>3, AwsTypes, ClientsBefore, StepsInv
  <2> QED
    BY <2>2, <2>3
<1>6. CASE CacheClient(c)
  <2> DEFINE k == [role |-> q.role, cred |-> q.cred, until |-> q.until]
  <2>1. /\ q.step = "cache" /\ Steps(c, NoFetch) /\ UNCHANGED <<issued, row, lock>>
        /\ cache' = [cache EXCEPT ![q.proc] = k]
    BY <1>6 DEF CacheClient
  <2>2. /\ k \in Client /\ q.proc \in Processes
        /\ k.role = q.role /\ k.cred = q.cred /\ k.until = q.until
    BY <1>1, <2>1 DEF FetchSound, Client
  <2> HIDE DEF k
  <2>3. /\ cache' \in [Processes -> Client \union {None}] /\ cache'[q.proc] = k
        /\ \A p \in Processes \ {q.proc} : cache'[p] = cache[p]
    BY <2>1, <2>2, AwsTypes
  <2>4. ASSUME ~overlap
        PROVE  /\ row # None /\ k.role = row.role /\ k.until = k.cred
               /\ \A p \in Processes : cache'[p] # None => cache'[p].until = cache'[p].cred
               /\ cutBy # None => cache'[cutBy] = None
                                  \/ (row # None /\ cache'[cutBy].role = row.role)
    <3>1. row # None /\ k.role = row.role /\ k.until = k.cred
      BY <1>1, <2>1, <2>2, <2>4 DEF AloneSound
    <3>2. \A p \in Processes : cache'[p] # None => cache'[p].until = cache'[p].cred
      BY <2>1, <2>3, <2>4, <3>1, ClientsBefore
    <3>3. ASSUME cutBy # None
          PROVE  cache'[cutBy] = None \/ (row # None /\ cache'[cutBy].role = row.role)
      <4>1. cutBy \in Processes
        BY <3>3, AwsTypes
      <4>2. cache[cutBy] = None \/ (row # None /\ cache[cutBy].role = row.role)
        BY <2>1, <2>4, <3>3, ClientsBefore
      <4> QED
        BY <2>3, <3>1, <4>1, <4>2
    <3> QED
      BY <3>1, <3>2, <3>3
  <2> QED
    BY <1>1, <1>2, <2>1, <2>3, <2>4, NoFetchSound, AwsTypes, StepsInv
<1>7. CASE FetchFails(c)
  <2>1. /\ q.step \notin {"idle", "clear"} /\ Steps(c, NoFetch) /\ lock' = Release(c)
        /\ UNCHANGED <<issued, row, cache>>
    BY <1>7 DEF FetchFails
  <2>2. lock' \in [Processes -> Calls \union {None}]
    BY <2>1, AwsTypes DEF Release
  <2>3. \A d \in Calls \ {c} : fetch[d].step = "commit" => lock'[fetch[d].proc] = d
    BY <1>1, <2>1 DEF Release, AwsInv, FetchSound
  <2> QED
    BY <1>2, <2>1, <2>2, <2>3, NoFetchSound, AwsTypes, ClientsBefore, StepsInv
<1>8. CASE ClearClientCache(c)
  <2>1. /\ q.step = "clear" /\ Steps(c, NoFetch) /\ UNCHANGED <<issued, row, lock>>
        /\ cache' = [cache EXCEPT ![q.proc] = None] /\ q.proc \in Processes
    BY <1>1, <1>8 DEF ClearClientCache, FetchSound
  <2>2. /\ cache' \in [Processes -> Client \union {None}] /\ cache'[q.proc] = None
        /\ \A p \in Processes \ {q.proc} : cache'[p] = cache[p]
    BY <2>1, AwsTypes
  <2>3. ~overlap => q.proc = cutBy
    BY <1>1, <2>1 DEF AloneSound
  <2>4. ~overlap => \A p \in Processes : cache'[p] # None => cache'[p].until = cache'[p].cred
    BY <2>2 DEF AwsInv
  <2> QED
    BY <1>1, <1>2, <2>1, <2>2, <2>3, <2>4, NoFetchSound, AwsTypes, StepsInv
<1> QED
  BY <1>3, <1>4, <1>5, <1>6, <1>7, <1>8

LEMMA StoreCredentialsInv ==
    ASSUME AwsInv, NEW c \in Calls, StoreCredentials(c)
    PROVE  /\ AwsInv'
           /\ row'.by = row.by => row.cred \in due
<1> DEFINE q == fetch[c]
           n == [q EXCEPT !.step = "query"]
<1>1. /\ q.step = "commit" /\ row # None /\ row.role = q.role
      /\ row' = [row EXCEPT !.cred = q.cred, !.by = q.proc]
      /\ lock' = Release(c)
      /\ fetch' = [fetch EXCEPT ![c] = n]
      /\ UNCHANGED <<due, roles, cutBy, overlap, issued, cache>>
  BY DEF StoreCredentials, Steps
<1>2. /\ q \in Fetch /\ FetchSound(q) /\ (~overlap => AloneSound(q))
      /\ \A d \in Calls : fetch[d].step = "commit" => lock[fetch[d].proc] = d
      /\ row \in Row /\ row.role \in 1..roles
      /\ q.proc \in Processes /\ q.cred \in Creds
  BY <1>1, AwsTypes DEF AwsInv, FetchSound
<1>3. /\ row' \in Row /\ row' # None
      /\ row'.role = row.role /\ row'.cred = q.cred /\ row'.by = q.proc
  BY <1>1, <1>2, AwsTypes DEF Row
<1>4. /\ n \in Fetch /\ n.step = "query" /\ n.role = q.role /\ n.cred = q.cred
      /\ n.proc = q.proc
  BY <1>2 DEF Fetch
<1> HIDE DEF n
<1>5. /\ fetch' \in [Calls -> Fetch] /\ fetch'[c] = n
      /\ \A d \in Calls \ {c} : fetch'[d] = fetch[d]
      /\ lock' \in [Processes -> Calls \union {None}]
  BY <1>1, <1>4, AwsTypes DEF Release
<1>6. AwsTypeOK'
  BY <1>1, <1>3, <1>5, AwsTypes DEF AwsTypeOK
<1>7. ASSUME NEW d \in Calls
      PROVE  FetchSound(fetch[d])' /\ (fetch[d].step = "commit" => lock[fetch[d].proc] = d)'
  <2>1. CASE d = c
    BY <1>1, <1>2, <1>4, <1>5, <2>1 DEF FetchSound
  <2>2. CASE d # c
    <3>1. FetchSound(fetch[d]) /\ fetch'[d] = fetch[d]
      BY <1>5, <2>2 DEF AwsInv
    <3>2. fetch[d].step = "commit" => /\ fetch[d].proc # q.proc
                                      /\ lock'[fetch[d].proc] = d
      BY <1>1, <1>2, <2>2, <3>1 DEF Release, FetchSound
    <3> QED
      BY <1>1, <1>3, <3>1, <3>2 DEF FetchSound
  <2> QED
    BY <2>1, <2>2
<1>8. ASSUME ~overlap
      PROVE  /\ \A d \in Calls : \A e \in Calls \ {d} :
                   fetch'[d].step = "idle" \/ fetch'[e].step = "idle"
             /\ \A d \in Calls : AloneSound(fetch[d])'
             /\ \A p \in Processes : cache'[p] # None => cache'[p].until = cache'[p].cred
             /\ DisconnectedRoleIsForgotten'
  <2>1. \A d \in Calls \ {c} : fetch[d].step = "idle"
    BY <1>1, <1>8, AloneIsAlone
  <2>2. \A d \in Calls : AloneSound(fetch[d])'
    BY <1>1, <1>3, <1>4, <1>5, <2>1 DEF AloneSound
  <2>3. DisconnectedRoleIsForgotten' /\ \A p \in Processes :
            cache'[p] # None => cache'[p].until = cache'[p].cred
    BY <1>1, <1>3, <1>8, ClientsBefore DEF DisconnectedRoleIsForgotten
  <2> QED
    BY <1>5, <2>1, <2>2, <2>3
<1>9. row'.by = row.by => row.cred \in due
  BY <1>1, <1>2, <1>3 DEF FetchSound
<1> QED
  BY <1>1, <1>3, <1>6, <1>7, <1>8, <1>9 DEF AwsInv

LEMMA OpensInv ==
    ASSUME AwsInv, NEW c \in Calls, DisconnectRole(c) \/ AskClient(c)
    PROVE  AwsInv'
<1>1. CASE DisconnectRole(c)
  <2>1. PICK p \in Processes :
            /\ Opens(c, [NoFetch EXCEPT !.step = "clear", !.proc = p])
            /\ row' = None /\ cutBy' = p
            /\ UNCHANGED <<issued, due, roles, lock, cache>>
    BY <1>1 DEF DisconnectRole
  <2> DEFINE n == [NoFetch EXCEPT !.step = "clear", !.proc = p]
  <2>2. n \in Fetch /\ n.step = "clear" /\ n.proc = p
    BY DEF NoFetch, Fetch
  <2>3. /\ fetch[c].step = "idle" /\ fetch' = [fetch EXCEPT ![c] = n]
        /\ overlap' = (overlap \/ \E d \in Calls \ {c} : fetch[d].step # "idle")
    BY <2>1 DEF Opens
  <2> HIDE DEF n
  <2>4. /\ fetch' \in [Calls -> Fetch] /\ fetch'[c] = n
        /\ \A d \in Calls \ {c} : fetch'[d] = fetch[d]
    BY <2>2, <2>3, AwsTypes
  <2>5. AwsTypeOK'
    BY <2>1, <2>3, <2>4, AwsTypes DEF AwsTypeOK
  <2>6. \A d \in Calls : /\ FetchSound(fetch[d])'
                         /\ (fetch[d].step = "commit" => lock[fetch[d].proc] = d)'
    BY <2>1, <2>2, <2>4 DEF AwsInv, FetchSound
  <2>7. ASSUME ~overlap'
        PROVE  /\ ~overlap
               /\ \A d \in Calls \ {c} : fetch'[d].step = "idle"
               /\ \A d \in Calls : AloneSound(fetch[d])'
               /\ DisconnectedRoleIsForgotten'
    <3>1. ~overlap /\ \A d \in Calls \ {c} : fetch'[d].step = "idle"
      BY <2>3, <2>4, <2>7
    <3> QED
      BY <2>1, <2>2, <2>4, <3>1 DEF AloneSound, DisconnectedRoleIsForgotten
  <2> QED
    BY <2>1, <2>5, <2>6, <2>7 DEF AwsInv
<1>2. CASE AskClient(c)
  <2>1. PICK p \in Processes :
            /\ Opens(c, [NoFetch EXCEPT !.step = "read", !.proc = p])
            /\ cache' = [cache EXCEPT ![p] = None]
            /\ UNCHANGED <<issued, due, roles, row, lock, cutBy>>
    BY <1>2 DEF AskClient
  <2> DEFINE n == [NoFetch EXCEPT !.step = "read", !.proc = p]
  <2>2. n \in Fetch /\ n.step = "read" /\ n.proc = p
    BY DEF NoFetch, Fetch
  <2>3. /\ fetch[c].step = "idle" /\ fetch' = [fetch EXCEPT ![c] = n]
        /\ overlap' = (overlap \/ \E d \in Calls \ {c} : fetch[d].step # "idle")
    BY <2>1 DEF Opens
  <2> HIDE DEF n
  <2>4. /\ fetch' \in [Calls -> Fetch] /\ fetch'[c] = n
        /\ \A d \in Calls \ {c} : fetch'[d] = fetch[d]
        /\ cache' \in [Processes -> Client \union {None}]
        /\ \A r \in Processes : cache'[r] = None \/ cache'[r] = cache[r]
    BY <2>1, <2>2, <2>3, AwsTypes
  <2>5. AwsTypeOK'
    BY <2>1, <2>3, <2>4, AwsTypes DEF AwsTypeOK
  <2>6. \A d \in Calls : /\ FetchSound(fetch[d])'
                         /\ (fetch[d].step = "commit" => lock[fetch[d].proc] = d)'
    BY <2>1, <2>2, <2>4 DEF AwsInv, FetchSound
  <2>7. ASSUME ~overlap'
        PROVE  /\ ~overlap
               /\ \A d \in Calls \ {c} : fetch'[d].step = "idle"
               /\ \A d \in Calls : AloneSound(fetch[d])'
               /\ \A r \in Processes : cache'[r] # None => cache'[r].until = cache'[r].cred
               /\ DisconnectedRoleIsForgotten'
    <3>1. ~overlap /\ \A d \in Calls \ {c} : fetch'[d].step = "idle" /\ fetch[d].step = "idle"
      BY <2>3, <2>4, <2>7
    <3>2. \A d \in Calls : AloneSound(fetch[d])'
      BY <2>2, <2>4, <3>1 DEF AloneSound
    <3>3. \A r \in Processes : cache'[r] # None => cache'[r].until = cache'[r].cred
      BY <2>4, <3>1 DEF AwsInv
    <3>4. ASSUME cutBy # None
          PROVE  cache'[cutBy] = None \/ (row # None /\ cache'[cutBy].role = row.role)
      <4>1. \A d \in Calls : fetch[d].step # "clear"
        BY <2>3, <3>1
      <4>2. cache[cutBy] = None \/ (row # None /\ cache[cutBy].role = row.role)
        BY <3>1, <3>4, <4>1 DEF AwsInv, DisconnectedRoleIsForgotten
      <4>3. cutBy \in Processes
        BY <3>4, AwsTypes
      <4> QED
        BY <2>4, <4>2, <4>3
    <3> QED
      BY <2>1, <3>1, <3>2, <3>3, <3>4 DEF DisconnectedRoleIsForgotten
  <2> QED
    BY <2>1, <2>5, <2>6, <2>7 DEF AwsInv
<1> QED
  BY <1>1, <1>2

LEMMA AwsStep ==
    ASSUME AwsInv, [AwsNext]_awsVars
    PROVE  /\ AwsInv'
           /\ (row # None /\ row' # None /\ row'.role = row.role /\ row'.cred # row.cred)
              => row.cred \in due \/ row'.by # row.by
<1>1. CASE UNCHANGED awsVars
  BY <1>1 DEF awsVars, AwsInv, AwsTypeOK, FetchSound, AloneSound, DisconnectedRoleIsForgotten
<1>2. ASSUME NEW n \in Creds, CredentialsComeDue(n)
      PROVE  AwsInv' /\ row' = row
  <2>1. /\ n \in 1..issued /\ due' = due \union {n}
        /\ UNCHANGED <<issued, roles, row, lock, cache, fetch, cutBy, overlap>>
    BY <1>2 DEF CredentialsComeDue
  <2>2. AwsTypeOK'
    BY <2>1 DEF AwsInv, AwsTypeOK
  <2> QED
    BY <2>1, <2>2 DEF AwsInv, FetchSound, AloneSound, DisconnectedRoleIsForgotten
<1>3. ASSUME ConnectRole
      PROVE  AwsInv' /\ row = None
  <2>1. PICK p \in Processes : row' = [role |-> roles + 1, cred |-> issued + 1, by |-> p]
    BY <1>3 DEF ConnectRole
  <2>2. /\ row = None /\ roles < MostRoles /\ issued < MostCreds
        /\ roles' = roles + 1 /\ issued' = issued + 1
        /\ UNCHANGED <<due, lock, cache, fetch, cutBy, overlap>>
    BY <1>3 DEF ConnectRole
  <2>3. roles + 1 \in Roles /\ issued + 1 \in Creds
    BY <2>2, AwsTypes DEF Roles, Creds
  <2>4. row' \in Row /\ row'.role = roles + 1
    BY <2>1, <2>3 DEF Row
  <2>5. /\ issued' \in 0..MostCreds /\ roles' \in 0..MostRoles
        /\ due' \subseteq 1..issued' /\ row'.role \in 1..roles'
        /\ \A r \in 1..roles : r \in 1..roles' /\ r # row'.role
    BY <2>2, <2>4, AwsTypes
  <2>6. AwsTypeOK'
    BY <2>2, <2>4, <2>5, AwsTypes DEF AwsTypeOK
  <2>7. \A d \in Calls : /\ FetchSound(fetch[d])'
                         /\ (fetch[d].step = "commit" => lock[fetch[d].proc] = d)'
    BY <2>2, <2>5 DEF AwsInv, FetchSound
  <2>8. ASSUME ~overlap
        PROVE  /\ \A d \in Calls : AloneSound(fetch[d])'
               /\ DisconnectedRoleIsForgotten'
    BY <2>2, <2>8 DEF AwsInv, AloneSound, DisconnectedRoleIsForgotten
  <2> QED
    BY <2>2, <2>5, <2>6, <2>7, <2>8 DEF AwsInv
<1>4. ASSUME NEW c \in Calls,
             \/ ReadCredentials(c) \/ RenewUnderLock(c) \/ QueryExpiration(c)
             \/ CacheClient(c) \/ FetchFails(c) \/ ClearClientCache(c)
      PROVE  AwsInv' /\ row' = row
  <2>1. AwsInv'
    BY <1>4, FetchStepsInv
  <2>2. row' = row
    BY <1>4 DEF ReadCredentials, RenewUnderLock, QueryExpiration, CacheClient, FetchFails,
                ClearClientCache
  <2> QED
    BY <2>1, <2>2
<1>5. ASSUME NEW c \in Calls, DisconnectRole(c) \/ AskClient(c)
      PROVE  AwsInv' /\ (row' = row \/ row' = None)
  <2>1. AwsInv'
    BY <1>5, OpensInv
  <2> QED
    BY <1>5, <2>1 DEF DisconnectRole, AskClient
<1> QED
  BY <1>1, <1>2, <1>3, <1>4, <1>5, StoreCredentialsInv DEF AwsNext, awsVars

LEMMA AwsInitInv == AwsInit => AwsInv
<1> SUFFICES ASSUME AwsInit PROVE AwsInv
  OBVIOUS
<1>1. AwsTypeOK
  <2>1. issued \in 0..MostCreds /\ roles \in 0..MostRoles
    BY AwsCredentialsAssumption DEF AwsInit
  <2>2. fetch \in [Calls -> Fetch]
    BY NoFetchSound DEF AwsInit
  <2>3. /\ lock \in [Processes -> Calls \union {None}]
        /\ cache \in [Processes -> Client \union {None}]
    BY DEF AwsInit
  <2> QED
    BY <2>1, <2>2, <2>3 DEF AwsInit, AwsTypeOK
<1> QED
  BY <1>1, NoFetchSound DEF AwsInit, AwsInv, DisconnectedRoleIsForgotten

LEMMA AwsInvariance == AwsSpec => []AwsInv
BY AwsInitInv, AwsStep, PTL DEF AwsSpec

LEMMA AwsIsSound == AwsInv => RolesAreSound
<1> SUFFICES ASSUME AwsInv PROVE RolesAreSound
  OBVIOUS
<1>1. ReusedClientWorks
  BY DEF AwsInv, ReusedClientWorks
<1>2. DisconnectedRoleIsForgotten
  BY DEF AwsInv, DisconnectedRoleIsForgotten
<1> QED
  BY <1>1, <1>2 DEF RolesAreSound

-----------------------------------------------------------------------------
(* Integrations. *)

\* The requests that have looked for a connection, and have found none.
Lookers(p) ==
    {c \in Calls : /\ task[c].provider = p
                   /\ \/ task[c].step \in {"assume", "reuse", "insert", "join"}
                      \/ task[c].step = "verify" /\ p # "grafana"}

\* What a request knows of the rows it has found or made.
TaskSound(q) ==
    /\ q.control # None => control[q.control] # None
    /\ q.step \in {"reuse", "join"} => q.provider = "grafana"
    /\ (q.step = "join" /\ q.control # None) => control[q.control].provider = "grafana"
    /\ (q.step = "delete" /\ q.config # None)
       => /\ config[q.config] # None /\ config[q.config].provider = q.provider
          /\ config[q.config].control = q.control
    /\ q.step \in {"verify", "assume", "look", "reuse", "insert", "join", "delete"}
       => q.provider \in Providers
    /\ q.step \in {"verify", "assume", "look", "reuse", "insert", "join"}
       => q.key \in ApiKeys

\* A row of credentials hangs on a control plane row of its provider.
ConfigsHang ==
    \A n \in Rows :
        config[n] # None => /\ control[config[n].control] # None
                            /\ control[config[n].control].provider = config[n].provider

\* How often a workspace is connected to a provider, or may be by the requests
\* that have found that it is not.
Places(p) == Cardinality(Configs(p)) + Cardinality(Lookers(p))

FewPlaces ==
    \A p \in Providers : /\ Places(p) <= Cardinality(Calls)
                         /\ ~crossed => Places(p) <= 1

IntegrationsInv ==
    /\ IntegrationsTypeOK /\ ConfigsHang /\ ToolsHaveCredentials /\ FewPlaces
    /\ \A c \in Calls : TaskSound(task[c])
    /\ ~crossed => \A c \in Calls : \A d \in Calls \ {c} :
                      task[c].step = "idle" \/ task[d].step = "idle"

LEMMA IntegrationsTypes ==
    ASSUME IntegrationsInv
    PROVE  /\ accepted \subseteq ApiKeys /\ crossed \in BOOLEAN
           /\ control \in [Rows -> Integration \union {None}]
           /\ config \in [Rows -> Config \union {None}]
           /\ task \in [Calls -> Task]
           /\ None \notin Integration /\ None \notin Config /\ None \notin Rows
           /\ None \notin Providers
BY IntegrationsAssumption DEF IntegrationsInv, IntegrationsTypeOK

LEMMA NoTaskSound == NoTask \in Task /\ NoTask.step = "idle" /\ TaskSound(NoTask)
BY DEF NoTask, Task, TaskSound, Verdict

LEMMA PlacesAreNat ==
    ASSUME NEW p
    PROVE  /\ IsFiniteSet(Configs(p)) /\ Cardinality(Configs(p)) \in Nat
           /\ IsFiniteSet(Lookers(p)) /\ Cardinality(Lookers(p)) \in Nat
           /\ Cardinality(Lookers(p)) <= Cardinality(Calls)
           /\ IsFiniteSet(Calls) /\ Cardinality(Calls) \in Nat
<1>1. Configs(p) \subseteq Rows /\ Lookers(p) \subseteq Calls
  BY DEF Configs, Lookers
<1>2. IsFiniteSet(Rows) /\ IsFiniteSet(Calls)
  BY IntegrationsAssumption
<1>3. /\ IsFiniteSet(Configs(p)) /\ IsFiniteSet(Lookers(p))
      /\ Cardinality(Lookers(p)) <= Cardinality(Calls)
  BY <1>1, <1>2, FS_Subset
<1> QED
  BY <1>2, <1>3, FS_CardinalityType

LEMMA NoMorePlaces ==
    ASSUME NEW p, Configs(p)' \subseteq Configs(p), Lookers(p)' \subseteq Lookers(p)
    PROVE  Places(p)' <= Places(p)
<1>1. /\ Cardinality(Configs(p)') <= Cardinality(Configs(p))
      /\ Cardinality(Lookers(p)') <= Cardinality(Lookers(p))
      /\ IsFiniteSet(Configs(p)') /\ IsFiniteSet(Lookers(p)')
  BY PlacesAreNat, FS_Subset
<1>2. Cardinality(Configs(p)') \in Nat /\ Cardinality(Lookers(p)') \in Nat
  BY <1>1, FS_CardinalityType
<1> QED
  BY <1>1, <1>2, PlacesAreNat DEF Places

LEMMA FewerPlaces ==
    ASSUME FewPlaces, crossed => crossed',
           \A p \in Providers : /\ Configs(p)' \subseteq Configs(p)
                                /\ Lookers(p)' \subseteq Lookers(p)
    PROVE  FewPlaces'
<1> SUFFICES ASSUME NEW p \in Providers
             PROVE  /\ Places(p)' <= Cardinality(Calls)
                    /\ ~crossed' => Places(p)' <= 1
  BY DEF FewPlaces
<1>1. Places(p)' <= Places(p)
  BY NoMorePlaces
<1>2. Places(p)' \in Int /\ Places(p) \in Int
  <2>1. IsFiniteSet(Configs(p)') /\ IsFiniteSet(Lookers(p)')
    BY PlacesAreNat, FS_Subset
  <2> QED
    BY <2>1, PlacesAreNat, FS_CardinalityType DEF Places
<1> QED
  BY <1>1, <1>2, PlacesAreNat DEF FewPlaces

LEMMA OnlyTask ==
    ASSUME IntegrationsInv, ~crossed, NEW c \in Calls, task[c].step # "idle"
    PROVE  \A d \in Calls \ {c} : task[d].step = "idle"
BY DEF IntegrationsInv

\* A request goes on and leaves the rows as they are.  It looks for a connection
\* only once, and counts from then on if it has found none.
LEMMA TaskGoesInv ==
    ASSUME IntegrationsInv, NEW c \in Calls, NEW q \in Task, task[c].step # "idle",
           GoesOn(c, q), ReadsOnly, TaskSound(q),
           \A p \in Providers : c \in Lookers(p)' => c \in Lookers(p) \/ Configs(p) = {}
    PROVE  IntegrationsInv'
<1>1. /\ task' \in [Calls -> Task] /\ task'[c] = q
      /\ \A d \in Calls \ {c} : task'[d] = task[d]
      /\ UNCHANGED <<accepted, control, config, crossed>>
  BY IntegrationsTypes DEF GoesOn, ReadsOnly
<1>2. IntegrationsTypeOK' /\ ConfigsHang' /\ ToolsHaveCredentials'
  BY <1>1 DEF IntegrationsInv, IntegrationsTypeOK, ConfigsHang, ToolsHaveCredentials
<1>3. \A d \in Calls : TaskSound(task[d])'
  BY <1>1 DEF IntegrationsInv, TaskSound
<1>4. ASSUME NEW p \in Providers
      PROVE  /\ Places(p)' <= Cardinality(Calls)
             /\ ~crossed => Places(p)' <= 1
  <2>1. /\ Configs(p)' = Configs(p)
        /\ \A d \in Calls \ {c} : d \in Lookers(p)' <=> d \in Lookers(p)
        /\ Lookers(p)' \subseteq Calls
    BY <1>1 DEF Configs, Lookers
  <2>2. CASE Lookers(p)' \subseteq Lookers(p)
    <3>1. Places(p)' <= Places(p)
      BY <2>1, <2>2, NoMorePlaces
    <3>2. /\ Places(p) <= Cardinality(Calls) /\ (~crossed => Places(p) <= 1)
          /\ Places(p) \in Nat
      BY PlacesAreNat DEF IntegrationsInv, FewPlaces, Places
    <3>3. Places(p)' \in Int
      <4>1. IsFiniteSet(Lookers(p)')
        BY <2>2, PlacesAreNat, FS_Subset
      <4> QED
        BY <2>1, <4>1, PlacesAreNat, FS_CardinalityType DEF Places
    <3> QED
      BY <3>1, <3>2, <3>3, PlacesAreNat
  <2>3. CASE ~(Lookers(p)' \subseteq Lookers(p))
    <3>1. Configs(p) = {} /\ c \in Lookers(p)'
      BY <2>1, <2>3
    <3>2. /\ IsFiniteSet(Lookers(p)') /\ Cardinality(Lookers(p)') <= Cardinality(Calls)
      BY <2>1, PlacesAreNat, FS_Subset
    <3>3. Cardinality({}) = 0 /\ Cardinality(Lookers(p)') \in Nat
      BY <3>2, FS_EmptySet, FS_CardinalityType
    <3>4. ~crossed => Cardinality(Lookers(p)') <= 1
      <4> SUFFICES ASSUME ~crossed PROVE Cardinality(Lookers(p)') <= 1
        OBVIOUS
      <4>1. Lookers(p)' = {c}
        BY <1>1, <2>1, <3>1, OnlyTask DEF Lookers
      <4>2. Cardinality({c}) = 1
        BY FS_Singleton
      <4> QED
        BY <4>1, <4>2
    <3> QED
      BY <2>1, <3>1, <3>2, <3>3, <3>4, PlacesAreNat DEF Places
  <2> QED
    BY <2>2, <2>3
<1>5. ~crossed => \A d \in Calls : \A e \in Calls \ {d} :
          task'[d].step = "idle" \/ task'[e].step = "idle"
  BY <1>1, OnlyTask
<1> QED
  BY <1>1, <1>2, <1>3, <1>4, <1>5 DEF IntegrationsInv, FewPlaces

LEMMA BeginsInv ==
    ASSUME IntegrationsInv, NEW c \in Calls, NEW q \in Task, Begins(c, q), TaskSound(q),
           \/ q.step \in {"look", "probe", "record", "delete"}
           \/ q.step = "verify" /\ q.provider = "grafana"
    PROVE  IntegrationsInv'
<1>1. /\ task' \in [Calls -> Task] /\ task'[c] = q
      /\ \A d \in Calls \ {c} : task'[d] = task[d]
      /\ task[c].step = "idle"
      /\ crossed' = (crossed \/ \E d \in Calls \ {c} : task[d].step # "idle")
      /\ UNCHANGED <<accepted, control, config>>
  BY IntegrationsTypes DEF Begins
<1>2. IntegrationsTypeOK' /\ ConfigsHang' /\ ToolsHaveCredentials'
  BY <1>1 DEF IntegrationsInv, IntegrationsTypeOK, ConfigsHang, ToolsHaveCredentials
<1>3. \A d \in Calls : TaskSound(task[d])'
  BY <1>1 DEF IntegrationsInv, TaskSound
<1>4. ASSUME NEW p \in Providers
      PROVE  Configs(p)' = Configs(p) /\ Lookers(p)' = Lookers(p)
  BY <1>1 DEF Configs, Lookers
<1>5. ~crossed' => /\ ~crossed
                   /\ \A d \in Calls \ {c} : task'[d].step = "idle"
  BY <1>1
<1>6. ~crossed' => \A d \in Calls : \A e \in Calls \ {d} :
          task'[d].step = "idle" \/ task'[e].step = "idle"
  BY <1>5
<1>7. FewPlaces'
  BY <1>1, <1>4, FewerPlaces DEF IntegrationsInv
<1> QED
  BY <1>2, <1>3, <1>6, <1>7 DEF IntegrationsInv

LEMMA CreateConnectionInv ==
    ASSUME IntegrationsInv, NEW c \in Calls, CreateConnection(c)
    PROVE  IntegrationsInv'
<1> DEFINE q == task[c]
<1>1. PICK r \in Rows, n \in Rows :
          /\ config[n] = None
          /\ \/ q.step = "insert" /\ control[r] = None
             \/ q.step = "join" /\ r = q.control
          /\ control' = [control EXCEPT ![r] = IF q.step = "join" THEN @
                 ELSE [provider |-> q.provider, health |-> "unset"]]
          /\ config' = [config EXCEPT ![n] =
                 [provider |-> q.provider, control |-> r, key |-> q.key]]
          /\ GoesOn(c, [q EXCEPT !.step = "probe", !.control = r, !.config = n])
  BY DEF CreateConnection
<1> DEFINE k == [q EXCEPT !.step = "probe", !.control = r, !.config = n]
           i == [provider |-> q.provider, health |-> "unset"]
           g == [provider |-> q.provider, control |-> r, key |-> q.key]
<1>2. q \in Task /\ TaskSound(q) /\ q.provider \in Providers /\ q.key \in ApiKeys
  BY <1>1, IntegrationsTypes DEF IntegrationsInv, TaskSound
<1>3. /\ k \in Task /\ k.step = "probe" /\ k.control = r /\ k.config = n
      /\ k.provider = q.provider
  BY <1>2 DEF Task
<1>4. i \in Integration /\ i.provider = q.provider /\ i # None
  BY <1>2, IntegrationsTypes DEF Integration, Verdict
<1>5. /\ g \in Config /\ g.provider = q.provider /\ g.control = r /\ g # None
  BY <1>2, IntegrationsTypes DEF Config
<1>6. GoesOn(c, k)
  BY <1>1
<1>7. control' = [control EXCEPT ![r] = IF q.step = "join" THEN @ ELSE i]
  BY <1>1
<1>8. config' = [config EXCEPT ![n] = g]
  BY <1>1
<1> HIDE DEF k, i, g
<1>9. /\ task' \in [Calls -> Task] /\ task'[c] = k
      /\ \A d \in Calls \ {c} : task'[d] = task[d]
      /\ UNCHANGED <<accepted, crossed>>
  BY <1>3, <1>6, IntegrationsTypes DEF GoesOn
<1>10. /\ config' \in [Rows -> Config \union {None}] /\ config'[n] = g
       /\ \A m \in Rows \ {n} : config'[m] = config[m]
  BY <1>5, <1>8, IntegrationsTypes
<1>11. /\ control' \in [Rows -> Integration \union {None}]
       /\ control'[r] # None /\ control'[r].provider = q.provider
       /\ \A s \in Rows \ {r} : control'[s] = control[s]
       /\ control[r] # None => control'[r] = control[r]
  <2>1. CASE q.step = "join"
    <3>1. control' = control
      BY <1>7, <2>1, IntegrationsTypes
    <3>2. control[r] # None /\ control[r].provider = q.provider
      BY <1>1, <1>2, <2>1, IntegrationsTypes DEF TaskSound
    <3> QED
      BY <3>1, <3>2, IntegrationsTypes
  <2>2. CASE q.step # "join"
    BY <1>1, <1>4, <1>7, <2>2, IntegrationsTypes
  <2> QED
    BY <2>1, <2>2
<1>12. IntegrationsTypeOK'
  BY <1>9, <1>10, <1>11 DEF IntegrationsInv, IntegrationsTypeOK
<1>13. ConfigsHang'
  <2> SUFFICES ASSUME NEW m \in Rows, config'[m] # None
               PROVE  /\ control'[config'[m].control] # None
                      /\ control'[config'[m].control].provider = config'[m].provider
    BY DEF ConfigsHang
  <2>1. CASE m = n
    BY <1>5, <1>10, <1>11, <2>1
  <2>2. CASE m # n
    <3>1. /\ config'[m] = config[m] /\ config[m].control \in Rows
          /\ control[config[m].control] # None
          /\ control[config[m].control].provider = config[m].provider
      BY <1>10, <2>2, IntegrationsTypes DEF IntegrationsInv, ConfigsHang, Config
    <3> QED
      BY <1>11, <3>1
  <2> QED
    BY <2>1, <2>2
<1>14. ToolsHaveCredentials'
  <2> SUFFICES ASSUME NEW s \in Rows, control'[s] # None,
                      control'[s].provider \in {"grafana", "aws"}
               PROVE  \E m \in Rows : config'[m] # None /\ config'[m].control = s
    BY DEF ToolsHaveCredentials
  <2>1. CASE s = r
    BY <1>5, <1>10, <2>1
  <2>2. CASE s # r
    <3>1. PICK m \in Rows : config[m] # None /\ config[m].control = s
      BY <1>11, <2>2 DEF IntegrationsInv, ToolsHaveCredentials
    <3> QED
      BY <1>1, <1>10, <3>1
  <2> QED
    BY <2>1, <2>2
<1>15. ASSUME NEW d \in Calls
       PROVE  TaskSound(task[d])'
  <2>1. CASE d = c
    BY <1>3, <1>9, <1>11, <2>1 DEF TaskSound
  <2>2. CASE d # c
    <3>1. /\ task'[d] = task[d] /\ TaskSound(task[d]) /\ task[d] \in Task
      BY <1>9, <2>2, IntegrationsTypes DEF IntegrationsInv
    <3>2. task[d].control # None => /\ task[d].control \in Rows
                                    /\ control'[task[d].control] = control[task[d].control]
      BY <1>11, <3>1 DEF TaskSound, Task
    <3>3. (task[d].step = "delete" /\ task[d].config # None)
          => config'[task[d].config] = config[task[d].config]
      BY <1>1, <1>10, <3>1 DEF TaskSound, Task
    <3> QED
      BY <3>1, <3>2, <3>3 DEF TaskSound
  <2> QED
    BY <2>1, <2>2
<1>16. ASSUME NEW p \in Providers
       PROVE  Places(p)' = Places(p)
  <2>1. CASE p = q.provider
    <3>1. Configs(p)' = Configs(p) \union {n} /\ n \notin Configs(p)
      BY <1>1, <1>5, <1>10, <2>1 DEF Configs
    <3>2. Lookers(p)' = Lookers(p) \ {c} /\ c \in Lookers(p)
      BY <1>1, <1>3, <1>9, <2>1 DEF Lookers
    <3>3. Cardinality(Configs(p)') = Cardinality(Configs(p)) + 1
      BY <3>1, PlacesAreNat, FS_AddElement
    <3>4. Cardinality(Lookers(p)') = Cardinality(Lookers(p)) - 1
      BY <3>2, PlacesAreNat, FS_RemoveElement
    <3> QED
      BY <3>3, <3>4, PlacesAreNat DEF Places
  <2>2. CASE p # q.provider
    <3>1. Configs(p)' = Configs(p)
      BY <1>1, <1>5, <1>10, <2>2 DEF Configs
    <3>2. Lookers(p)' = Lookers(p)
      BY <1>3, <1>9, <2>2 DEF Lookers
    <3> QED
      BY <3>1, <3>2 DEF Places
  <2> QED
    BY <2>1, <2>2
<1>17. ~crossed => \A d \in Calls : \A e \in Calls \ {d} :
           task'[d].step = "idle" \/ task'[e].step = "idle"
  BY <1>1, <1>9, OnlyTask
<1> QED
  BY <1>9, <1>12, <1>13, <1>14, <1>15, <1>16, <1>17 DEF IntegrationsInv, FewPlaces

LEMMA DeletesInv ==
    ASSUME IntegrationsInv, NEW c \in Calls, NEW planes, NEW rows,
           Deletes(c, planes, rows),
           \A n \in rows : /\ n \in Rows /\ config[n] # None
                           /\ \/ config[n].control \in planes
                              \/ config[n].provider \in {"datadog", "newrelic"}
    PROVE  IntegrationsInv'
<1> DEFINE lost == rows \union {n \in Rows : /\ config[n] # None
                                            /\ config[n].control \in planes}
           Kept(d) == [task[d] EXCEPT !.config = IF @ \in lost THEN None ELSE @,
                                      !.control = IF @ \in planes THEN None ELSE @]
<1>1. /\ control' = [r \in Rows |-> IF r \in planes THEN None ELSE control[r]]
      /\ config' = [n \in Rows |-> IF n \in lost THEN None ELSE config[n]]
      /\ task' = [d \in Calls |-> IF d = c THEN NoTask ELSE Kept(d)]
      /\ UNCHANGED <<accepted, crossed>>
  BY DEF Deletes
<1>2. \A n \in Rows : n \in lost <=> \/ n \in rows
                                     \/ config[n] # None /\ config[n].control \in planes
  OBVIOUS
<1> HIDE DEF lost
<1>3. \A d \in Calls :
          /\ Kept(d) \in Task /\ Kept(d).step = task[d].step
          /\ Kept(d).provider = task[d].provider /\ Kept(d).key = task[d].key
          /\ Kept(d).config = IF task[d].config \in lost THEN None ELSE task[d].config
          /\ Kept(d).control = IF task[d].control \in planes THEN None ELSE task[d].control
  <2> SUFFICES ASSUME NEW d \in Calls
               PROVE  /\ Kept(d) \in Task /\ Kept(d).step = task[d].step
                      /\ Kept(d).provider = task[d].provider /\ Kept(d).key = task[d].key
                      /\ Kept(d).config = IF task[d].config \in lost THEN None
                                          ELSE task[d].config
                      /\ Kept(d).control = IF task[d].control \in planes THEN None
                                           ELSE task[d].control
    OBVIOUS
  <2> DEFINE m == IF task[d].config \in lost THEN None ELSE task[d].config
             r == IF task[d].control \in planes THEN None ELSE task[d].control
  <2>1. task[d] \in Task
    BY IntegrationsTypes
  <2>2. Kept(d) = [task[d] EXCEPT !.config = m, !.control = r]
    OBVIOUS
  <2>3. m \in Rows \union {None} /\ r \in Rows \union {None}
    BY <2>1 DEF Task
  <2> HIDE DEF Kept
  <2> SUFFICES /\ Kept(d) \in Task /\ Kept(d).step = task[d].step
               /\ Kept(d).provider = task[d].provider /\ Kept(d).key = task[d].key
               /\ Kept(d).config = m /\ Kept(d).control = r
    OBVIOUS
  <2> HIDE DEF m, r
  <2> QED
    BY <2>1, <2>2, <2>3 DEF Task
<1> HIDE DEF Kept
<1>4. /\ task' \in [Calls -> Task]
      /\ control' \in [Rows -> Integration \union {None}]
      /\ config' \in [Rows -> Config \union {None}]
  BY <1>1, <1>3, NoTaskSound, IntegrationsTypes
<1>5. IntegrationsTypeOK'
  BY <1>1, <1>4 DEF IntegrationsInv, IntegrationsTypeOK
<1>6. ConfigsHang'
  <2> SUFFICES ASSUME NEW n \in Rows, config'[n] # None
               PROVE  /\ control'[config'[n].control] # None
                      /\ control'[config'[n].control].provider = config'[n].provider
    BY DEF ConfigsHang
  <2>1. config'[n] = config[n] /\ n \notin lost
    BY <1>1
  <2>2. /\ config[n].control \in Rows /\ config[n].control \notin planes
        /\ control[config[n].control] # None
        /\ control[config[n].control].provider = config[n].provider
    BY <1>2, <2>1, IntegrationsTypes DEF IntegrationsInv, ConfigsHang, Config
  <2> QED
    BY <1>1, <2>1, <2>2
<1>7. ToolsHaveCredentials'
  <2> SUFFICES ASSUME NEW r \in Rows, control'[r] # None,
                      control'[r].provider \in {"grafana", "aws"}
               PROVE  \E n \in Rows : config'[n] # None /\ config'[n].control = r
    BY DEF ToolsHaveCredentials
  <2>1. r \notin planes /\ control'[r] = control[r]
    BY <1>1
  <2>2. PICK n \in Rows : config[n] # None /\ config[n].control = r
    BY <2>1 DEF IntegrationsInv, ToolsHaveCredentials
  <2>3. config[n].provider \in {"grafana", "aws"}
    BY <2>1, <2>2 DEF IntegrationsInv, ConfigsHang
  <2>4. n \notin lost
    BY <1>2, <2>1, <2>2, <2>3
  <2> QED
    BY <1>1, <2>2, <2>4
<1>8. ASSUME NEW d \in Calls
      PROVE  TaskSound(task[d])'
  <2>1. CASE d = c
    BY <1>1, <2>1, NoTaskSound DEF TaskSound, NoTask
  <2>2. CASE d # c
    <3>1. /\ task'[d] = Kept(d) /\ TaskSound(task[d]) /\ task[d] \in Task
      BY <1>1, <2>2, IntegrationsTypes DEF IntegrationsInv
    <3>2. ASSUME Kept(d).control # None
          PROVE  /\ Kept(d).control = task[d].control
                 /\ control'[task[d].control] = control[task[d].control]
      BY <1>1, <1>3, <3>1, <3>2 DEF Task
    <3>3. ASSUME Kept(d).config # None
          PROVE  /\ Kept(d).config = task[d].config
                 /\ config'[task[d].config] = config[task[d].config]
                 /\ task[d].config \in Rows /\ task[d].config \notin lost
      BY <1>1, <1>3, <3>1, <3>3 DEF Task
    <3>4. ASSUME task[d].step = "delete", Kept(d).config # None
          PROVE  Kept(d).control = task[d].control
      <4>1. task[d].control = config[task[d].config].control /\ config[task[d].config] # None
        BY <3>1, <3>3, <3>4 DEF TaskSound
      <4>2. task[d].control \notin planes
        BY <1>2, <3>3, <3>4, <4>1
      <4> QED
        BY <1>3, <4>2
    <3> QED
      BY <1>3, <3>1, <3>2, <3>3, <3>4 DEF TaskSound
  <2> QED
    BY <2>1, <2>2
<1>9. ASSUME NEW p \in Providers
      PROVE  Configs(p)' \subseteq Configs(p) /\ Lookers(p)' \subseteq Lookers(p)
  <2>1. Configs(p)' \subseteq Configs(p)
    BY <1>1 DEF Configs
  <2>2. Lookers(p)' \subseteq Lookers(p)
    BY <1>1, <1>3, NoTaskSound DEF Lookers
  <2> QED
    BY <2>1, <2>2
<1>10. FewPlaces'
  BY <1>1, <1>9, FewerPlaces DEF IntegrationsInv
<1>11. ~crossed => \A d \in Calls : \A e \in Calls \ {d} :
           task'[d].step = "idle" \/ task'[e].step = "idle"
  BY <1>1, <1>3, NoTaskSound DEF IntegrationsInv
<1> QED
  BY <1>1, <1>5, <1>6, <1>7, <1>8, <1>10, <1>11 DEF IntegrationsInv

LEMMA RecordHealthInv ==
    ASSUME IntegrationsInv, NEW c \in Calls, RecordHealth(c)
    PROVE  IntegrationsInv'
<1> DEFINE q == task[c]
<1>1. /\ q.step = "record"
      /\ control' = [r \in Rows |-> IF r # q.control THEN control[r]
                                    ELSE [control[r] EXCEPT !.health = q.health]]
      /\ task' = [task EXCEPT ![c] = NoTask]
      /\ UNCHANGED <<accepted, config, crossed>>
  BY DEF RecordHealth, GoesOn
<1>2. q \in Task /\ TaskSound(q)
  BY IntegrationsTypes DEF IntegrationsInv
<1>3. /\ task' \in [Calls -> Task] /\ task'[c] = NoTask
      /\ \A d \in Calls \ {c} : task'[d] = task[d]
  BY <1>1, NoTaskSound, IntegrationsTypes
<1>4. ASSUME NEW r \in Rows
      PROVE  /\ control'[r] \in Integration \union {None}
             /\ control'[r] # None <=> control[r] # None
             /\ control[r] # None => control'[r].provider = control[r].provider
  <2>1. CASE r # q.control
    BY <1>1, <2>1, IntegrationsTypes
  <2>2. CASE r = q.control
    <3>1. control[r] \in Integration
      BY <1>2, <2>2, IntegrationsTypes DEF TaskSound
    <3>2. /\ [control[r] EXCEPT !.health = q.health] \in Integration
          /\ [control[r] EXCEPT !.health = q.health].provider = control[r].provider
      BY <1>2, <3>1 DEF Integration, Task
    <3> QED
      BY <1>1, <2>2, <3>1, <3>2, IntegrationsTypes
  <2> QED
    BY <2>1, <2>2
<1>5. IntegrationsTypeOK'
  <2>1. control' \in [Rows -> Integration \union {None}]
    BY <1>1, <1>4
  <2> QED
    BY <1>1, <1>3, <2>1 DEF IntegrationsInv, IntegrationsTypeOK
<1>6. ConfigsHang' /\ ToolsHaveCredentials'
  <2>1. ConfigsHang'
    <3> SUFFICES ASSUME NEW n \in Rows, config[n] # None
                 PROVE  /\ control'[config[n].control] # None
                        /\ control'[config[n].control].provider = config[n].provider
      BY <1>1 DEF ConfigsHang
    <3>1. /\ config[n].control \in Rows /\ control[config[n].control] # None
          /\ control[config[n].control].provider = config[n].provider
      BY IntegrationsTypes DEF IntegrationsInv, ConfigsHang, Config
    <3> QED
      BY <1>4, <3>1
  <2>2. ToolsHaveCredentials'
    BY <1>1, <1>4 DEF IntegrationsInv, ToolsHaveCredentials
  <2> QED
    BY <2>1, <2>2
<1>7. ASSUME NEW d \in Calls
      PROVE  TaskSound(task[d])'
  <2>1. CASE d = c
    BY <1>3, <2>1, NoTaskSound DEF TaskSound, NoTask
  <2>2. CASE d # c
    <3>1. /\ task'[d] = task[d] /\ TaskSound(task[d]) /\ task[d] \in Task
      BY <1>3, <2>2, IntegrationsTypes DEF IntegrationsInv
    <3>2. task[d].control # None
          => /\ control[task[d].control] # None /\ control'[task[d].control] # None
             /\ control'[task[d].control].provider = control[task[d].control].provider
      BY <1>4, <3>1 DEF TaskSound, Task
    <3> QED
      BY <1>1, <3>1, <3>2 DEF TaskSound
  <2> QED
    BY <2>1, <2>2
<1>8. FewPlaces'
  <2>1. \A p \in Providers : /\ Configs(p)' \subseteq Configs(p)
                            /\ Lookers(p)' \subseteq Lookers(p)
    BY <1>1, <1>3, NoTaskSound DEF Configs, Lookers
  <2> QED
    BY <1>1, <2>1, FewerPlaces DEF IntegrationsInv
<1>9. ~crossed => \A d \in Calls : \A e \in Calls \ {d} :
          task'[d].step = "idle" \/ task'[e].step = "idle"
  BY <1>1, <1>3, OnlyTask
<1> QED
  BY <1>1, <1>5, <1>6, <1>7, <1>8, <1>9 DEF IntegrationsInv

LEMMA QuietTasksInv ==
    ASSUME IntegrationsInv, NEW c \in Calls,
           \/ TaskEnds(c) \/ VerifyCredentials(c) \/ AssumeVerifiedRole(c)
           \/ LookForExisting(c) \/ ReuseControlPlane(c) \/ ProbeProvider(c)
    PROVE  IntegrationsInv'
<1> DEFINE q == task[c]
<1>1. q \in Task /\ TaskSound(q)
  BY IntegrationsTypes DEF IntegrationsInv
\* What a request goes on as, and how that differs from what it was.
<1>2. ASSUME NEW n \in Task, GoesOn(c, n)
      PROVE  task'[c] = n
  BY <1>2, IntegrationsTypes DEF GoesOn
<1>3. CASE TaskEnds(c)
  <2>1. q.step # "idle" /\ GoesOn(c, NoTask) /\ ReadsOnly
    BY <1>3 DEF TaskEnds
  <2>2. \A p \in Providers : c \notin Lookers(p)'
    BY <1>2, <2>1, NoTaskSound DEF Lookers
  <2> QED
    BY <2>1, <2>2, NoTaskSound, TaskGoesInv
<1>4. CASE VerifyCredentials(c)
  <2> DEFINE n == [q EXCEPT !.step = CASE q.provider = "grafana" -> "look"
                                       [] q.provider = "aws" -> "assume"
                                       [] OTHER -> "insert"]
  <2>1. q.step = "verify" /\ GoesOn(c, n) /\ ReadsOnly
    BY <1>4 DEF VerifyCredentials
  <2>2. /\ n \in Task /\ n.step \in {"look", "assume", "insert"}
        /\ q.provider = "grafana" => n.step = "look"
        /\ n.provider = q.provider /\ n.control = q.control /\ n.config = q.config
        /\ n.key = q.key
    BY <1>1 DEF Task
  <2> HIDE DEF n
  <2>3. TaskSound(n)
    BY <1>1, <2>1, <2>2 DEF TaskSound
  <2>4. \A p \in Providers : c \in Lookers(p)' => c \in Lookers(p)
    BY <1>2, <2>1, <2>2 DEF Lookers
  <2> QED
    BY <2>1, <2>2, <2>3, <2>4, TaskGoesInv
<1>5. CASE AssumeVerifiedRole(c)
  <2> DEFINE n == [q EXCEPT !.step = "insert"]
  <2>1. q.step = "assume" /\ GoesOn(c, n) /\ ReadsOnly
    BY <1>5 DEF AssumeVerifiedRole
  <2>2. /\ n \in Task /\ n.step = "insert"
        /\ n.provider = q.provider /\ n.control = q.control /\ n.config = q.config
        /\ n.key = q.key
    BY <1>1 DEF Task
  <2> HIDE DEF n
  <2>3. TaskSound(n)
    BY <1>1, <2>1, <2>2 DEF TaskSound
  <2>4. \A p \in Providers : c \in Lookers(p)' => c \in Lookers(p)
    BY <1>2, <2>1, <2>2 DEF Lookers
  <2> QED
    BY <2>1, <2>2, <2>3, <2>4, TaskGoesInv
<1>6. CASE LookForExisting(c)
  <2> DEFINE n == [q EXCEPT !.step = IF q.provider = "grafana" THEN "reuse" ELSE "verify"]
  <2>1. q.step = "look" /\ Configs(q.provider) = {} /\ GoesOn(c, n) /\ ReadsOnly
    BY <1>6 DEF LookForExisting
  <2>2. /\ n \in Task
        /\ n.step = IF q.provider = "grafana" THEN "reuse" ELSE "verify"
        /\ n.provider = q.provider /\ n.control = q.control /\ n.config = q.config
        /\ n.key = q.key
    BY <1>1 DEF Task
  <2> HIDE DEF n
  <2>3. TaskSound(n)
    BY <1>1, <2>1, <2>2 DEF TaskSound
  <2>4. \A p \in Providers : c \in Lookers(p)' => Configs(p) = {}
    BY <1>2, <2>1, <2>2 DEF Lookers
  <2> QED
    BY <2>1, <2>2, <2>3, <2>4, TaskGoesInv
<1>7. CASE ReuseControlPlane(c)
  <2>1. q.step = "reuse" /\ q.provider = "grafana" /\ ReadsOnly
    BY <1>1, <1>7 DEF ReuseControlPlane, TaskSound
  <2>2. CASE GoesOn(c, [q EXCEPT !.step = "insert"])
    <3> DEFINE n == [q EXCEPT !.step = "insert"]
    <3>1. /\ n \in Task /\ n.step = "insert"
          /\ n.provider = q.provider /\ n.control = q.control /\ n.config = q.config
          /\ n.key = q.key
      BY <1>1 DEF Task
    <3>2. GoesOn(c, n)
      BY <2>2
    <3> HIDE DEF n
    <3>3. TaskSound(n)
      BY <1>1, <2>1, <3>1 DEF TaskSound
    <3>4. \A p \in Providers : c \in Lookers(p)' => c \in Lookers(p)
      BY <1>2, <2>1, <3>1, <3>2 DEF Lookers
    <3> QED
      BY <2>1, <3>1, <3>2, <3>3, <3>4, TaskGoesInv
  <2>3. ASSUME NEW r \in Rows, Controls("grafana") = {r},
               GoesOn(c, [q EXCEPT !.step = "join", !.control = r])
        PROVE  IntegrationsInv'
    <3> DEFINE n == [q EXCEPT !.step = "join", !.control = r]
    <3>1. /\ n \in Task /\ n.step = "join"
          /\ n.provider = q.provider /\ n.control = r /\ n.config = q.config
          /\ n.key = q.key
      BY <1>1 DEF Task
    <3>2. GoesOn(c, n)
      BY <2>3
    <3>3. control[r] # None /\ control[r].provider = "grafana"
      BY <2>3 DEF Controls
    <3> HIDE DEF n
    <3>4. TaskSound(n)
      BY <1>1, <2>1, <3>1, <3>3 DEF TaskSound
    <3>5. \A p \in Providers : c \in Lookers(p)' => c \in Lookers(p)
      BY <1>2, <2>1, <3>1, <3>2 DEF Lookers
    <3> QED
      BY <2>1, <3>1, <3>2, <3>4, <3>5, TaskGoesInv
  <2> QED
    BY <1>7, <2>2, <2>3 DEF ReuseControlPlane
<1>8. CASE ProbeProvider(c)
  <2> DEFINE n == [q EXCEPT !.step = "record",
                      !.health = IF q.key \in accepted THEN "healthy" ELSE "failed"]
  <2>1. q.step = "probe" /\ GoesOn(c, n) /\ ReadsOnly
    BY <1>8 DEF ProbeProvider
  <2>2. /\ n \in Task /\ n.step = "record" /\ n.control = q.control
    BY <1>1 DEF Task, Verdict
  <2> HIDE DEF n
  <2>3. TaskSound(n)
    BY <1>1, <2>1, <2>2 DEF TaskSound
  <2>4. \A p \in Providers : c \notin Lookers(p)'
    BY <1>2, <2>1, <2>2 DEF Lookers
  <2> QED
    BY <2>1, <2>2, <2>3, <2>4, TaskGoesInv
<1> QED
  BY <1>3, <1>4, <1>5, <1>6, <1>7, <1>8

LEMMA AskInv ==
    ASSUME IntegrationsInv, NEW c \in Calls,
           AskConnect(c) \/ AskCheck(c) \/ AskDisconnection(c)
    PROVE  IntegrationsInv'
<1>1. CASE AskConnect(c)
  <2>1. PICK p \in Providers, k \in ApiKeys :
            Begins(c, [NoTask EXCEPT !.provider = p, !.key = k,
                          !.step = IF p = "grafana" THEN "verify" ELSE "look"])
    BY <1>1 DEF AskConnect
  <2> DEFINE n == [NoTask EXCEPT !.provider = p, !.key = k,
                      !.step = IF p = "grafana" THEN "verify" ELSE "look"]
  <2>2. /\ n \in Task /\ n.step = IF p = "grafana" THEN "verify" ELSE "look"
        /\ n.provider = p /\ n.control = None /\ n.config = None /\ n.key = k
    BY DEF Task, NoTask, Verdict
  <2>3. Begins(c, n)
    BY <2>1
  <2> HIDE DEF n
  <2>4. TaskSound(n)
    BY <2>2 DEF TaskSound
  <2> QED
    BY <2>2, <2>3, <2>4, BeginsInv
<1>2. CASE AskCheck(c)
  <2>1. PICK r \in Rows :
            LET rows == {n \in Rows : config[n] # None /\ config[n].control = r} IN
            /\ control[r] # None
            /\ Begins(c, IF Cardinality(rows) # 1
                         THEN [NoTask EXCEPT !.step = "record", !.control = r,
                                             !.health = "failed"]
                         ELSE [NoTask EXCEPT !.step = "probe", !.control = r,
                                  !.key = config[CHOOSE n \in rows : TRUE].key])
    BY <1>2 DEF AskCheck
  <2> DEFINE rows == {n \in Rows : config[n] # None /\ config[n].control = r}
             k == config[CHOOSE n \in rows : TRUE].key
             f == [NoTask EXCEPT !.step = "record", !.control = r, !.health = "failed"]
             s == [NoTask EXCEPT !.step = "probe", !.control = r, !.key = k]
  <2>2. control[r] # None
    BY <2>1
  <2>3. CASE Cardinality(rows) # 1
    <3>1. Begins(c, f)
      BY <2>1, <2>3
    <3>2. f \in Task /\ f.step = "record" /\ f.control = r
      BY DEF Task, NoTask, Verdict
    <3> HIDE DEF f
    <3>3. TaskSound(f)
      BY <2>2, <3>2 DEF TaskSound
    <3> QED
      BY <3>1, <3>2, <3>3, BeginsInv
  <2>4. CASE Cardinality(rows) = 1
    <3>1. Begins(c, s)
      BY <2>1, <2>4
    <3>2. k \in ApiKeys
      <4>1. Cardinality({}) = 0
        BY FS_EmptySet
      <4>2. rows # {}
        BY <2>4, <4>1
      <4>3. (CHOOSE n \in rows : TRUE) \in rows
        BY <4>2
      <4> QED
        BY <4>3, IntegrationsTypes DEF Config
    <3> HIDE DEF k
    <3>3. s \in Task /\ s.step = "probe" /\ s.control = r
      BY <3>2 DEF Task, NoTask, Verdict
    <3> HIDE DEF s
    <3>4. TaskSound(s)
      BY <2>2, <3>3 DEF TaskSound
    <3> QED
      BY <3>1, <3>3, <3>4, BeginsInv
  <2> QED
    BY <2>3, <2>4
<1>3. CASE AskDisconnection(c)
  <2>1. PICK p \in Providers, m \in Rows :
            /\ Configs(p) = {m}
            /\ Begins(c, [NoTask EXCEPT !.step = "delete", !.provider = p,
                             !.config = m, !.control = config[m].control])
    BY <1>3 DEF AskDisconnection
  <2> DEFINE n == [NoTask EXCEPT !.step = "delete", !.provider = p,
                      !.config = m, !.control = config[m].control]
  <2>2. /\ config[m] # None /\ config[m].provider = p /\ config[m].control \in Rows
        /\ control[config[m].control] # None
    BY <2>1, IntegrationsTypes DEF Configs, Config, IntegrationsInv, ConfigsHang
  <2>3. /\ n \in Task /\ n.step = "delete" /\ n.provider = p /\ n.config = m
        /\ n.control = config[m].control
    BY <2>2 DEF Task, NoTask, Verdict
  <2>4. Begins(c, n)
    BY <2>1
  <2> HIDE DEF n
  <2>5. TaskSound(n)
    BY <2>2, <2>3 DEF TaskSound
  <2> QED
    BY <2>3, <2>4, <2>5, BeginsInv
<1> QED
  BY <1>1, <1>2, <1>3

LEMMA DisconnectsInv ==
    ASSUME IntegrationsInv, NEW c \in Calls,
           LeaveControlPlane(c) \/ DisconnectAws(c) \/ DisconnectGrafana(c)
    PROVE  IntegrationsInv'
<1> DEFINE q == task[c]
<1>1. /\ q.step = "delete" /\ q.config # None /\ q.config \in Rows
      /\ config[q.config] # None /\ config[q.config].provider = q.provider
      /\ config[q.config].control = q.control
  BY IntegrationsTypes DEF LeaveControlPlane, DisconnectAws, DisconnectGrafana,
     Disconnecting, IntegrationsInv, TaskSound, Task
<1>2. CASE LeaveControlPlane(c)
  <2>1. q.provider \in {"datadog", "newrelic"} /\ Deletes(c, {}, {q.config})
    BY <1>2 DEF LeaveControlPlane, Disconnecting
  <2> QED
    BY <1>1, <2>1, DeletesInv
<1>3. CASE DisconnectAws(c)
  <2>1. Deletes(c, {q.control}, {q.config})
    BY <1>3 DEF DisconnectAws
  <2> QED
    BY <1>1, <2>1, DeletesInv
<1>4. CASE DisconnectGrafana(c)
  <2>1. q.provider = "grafana" /\ Deletes(c, Controls("grafana"), {q.config})
    BY <1>4 DEF DisconnectGrafana, Disconnecting
  <2>2. config[q.config].control \in Controls("grafana")
    BY <1>1, <2>1, IntegrationsTypes DEF Controls, IntegrationsInv, ConfigsHang, Config
  <2> QED
    BY <1>1, <2>1, <2>2, DeletesInv
<1> QED
  BY <1>2, <1>3, <1>4

LEMMA IntegrationsStep ==
    ASSUME IntegrationsInv, [IntegrationsNext]_integrationVars
    PROVE  IntegrationsInv'
<1>1. ASSUME UNCHANGED <<control, config, task, crossed>>, accepted' \subseteq ApiKeys
      PROVE  IntegrationsInv'
  BY <1>1 DEF IntegrationsInv, IntegrationsTypeOK, ConfigsHang, ToolsHaveCredentials,
              FewPlaces, Places, Configs, Lookers, TaskSound
<1>2. CASE UNCHANGED integrationVars
  BY <1>1, <1>2, IntegrationsTypes DEF integrationVars
<1>3. ASSUME NEW k \in ApiKeys, RevokeKey(k)
      PROVE  IntegrationsInv'
  BY <1>1, <1>3, IntegrationsTypes DEF RevokeKey
<1> QED
  BY <1>2, <1>3, QuietTasksInv, AskInv, CreateConnectionInv, RecordHealthInv,
     DisconnectsInv DEF IntegrationsNext

LEMMA IntegrationsInitInv == IntegrationsInit => IntegrationsInv
<1> SUFFICES ASSUME IntegrationsInit PROVE IntegrationsInv
  OBVIOUS
<1>1. IntegrationsTypeOK
  BY NoTaskSound DEF IntegrationsInit, IntegrationsTypeOK
<1>2. \A p \in Providers : Configs(p) = {} /\ Lookers(p) = {}
  BY NoTaskSound DEF IntegrationsInit, Configs, Lookers
<1>3. FewPlaces
  <2>1. Cardinality({}) = 0
    BY FS_EmptySet
  <2>2. \A p \in Providers : Places(p) = 0
    BY <1>2, <2>1 DEF Places
  <2> QED
    BY <2>2, PlacesAreNat DEF FewPlaces
<1>4. ConfigsHang /\ ToolsHaveCredentials
  BY DEF IntegrationsInit, ConfigsHang, ToolsHaveCredentials
<1> QED
  BY <1>1, <1>3, <1>4, NoTaskSound DEF IntegrationsInit, IntegrationsInv

LEMMA IntegrationsInvariance == IntegrationsSpec => []IntegrationsInv
BY IntegrationsInitInv, IntegrationsStep, PTL DEF IntegrationsSpec

LEMMA ConnectedAreSound == IntegrationsInv => ConnectionsAreSound
<1> SUFFICES ASSUME IntegrationsInv PROVE ConnectionsAreSound
  OBVIOUS
<1>1. ASSUME NEW p \in Providers
      PROVE  /\ Cardinality(Configs(p)) <= Cardinality(Calls)
             /\ ~crossed => Cardinality(Configs(p)) <= 1
  BY PlacesAreNat DEF IntegrationsInv, FewPlaces, Places
<1> QED
  BY <1>1 DEF IntegrationsInv, ConnectionsAreSound, OneConnection, FewConnections

-----------------------------------------------------------------------------
(* GitHubApp. *)

\* A webhook of these is under way, or is in the hands of a call.
Has(i, ops) == \E n \in DOMAIN hooks[i] : hooks[i][n] \in ops
InHand(i, ops) ==
    \E c \in Calls : deed[c].step # "idle" /\ deed[c].op \in ops /\ deed[c].ins = i
Pending(i, ops) == Has(i, ops) \/ InHand(i, ops)

\* A row that a request or a webhook may write is there unless it was lost.
DeedSound(q) ==
    /\ q.step # "idle" => q.ins \in Installations
    /\ (q.step # "idle" /\ q.op = "callback") => q.ws \in Workspaces
    /\ q.step \in {"asked", "plane"} => q.plane = None
    /\ q.step = "check" => q.plane \in Planes
    /\ (/\ q.step \in {"check", "fetch", "store", "loaded", "end", "uninstall", "drop"}
        /\ ~q.lost)
       => link[q.ins] # None

\* What a request or a webhook knows when nothing else is served.
LoneSound(q) ==
    /\ (q.step = "loaded" /\ link[q.ins] # None)
       => q.active = link[q.ins].active /\ q.token = link[q.ins].token
    /\ (q.step \in {"fetch", "store"} /\ q.op = "unsuspend" /\ link[q.ins] # None)
       => q.active = link[q.ins].active
    /\ q.step = "store" => \/ install[q.ins] = "active" /\ q.token = grant[q.ins]
                           \/ Has(q.ins, {"suspend", "deleted"})
    /\ (q.step \in {"plane", "insert"}) => LinksOf(q.ws) = {}
    /\ q.step = "insert"
       => IF q.plane = None THEN PlanesOf(q.ws) = {}
          ELSE plane[q.plane] # None => plane[q.plane].ws = q.ws
    /\ (q.step # "idle" /\ q.op = "callback" /\ install[q.ins] = "removed")
       => Has(q.ins, {"deleted"})

\* What it knows if webhooks have come in order as well.
OrderedSound(q) ==
    /\ (q.step # "idle" /\ q.op = "suspend")
       => install[q.ins] = "suspended" \/ Has(q.ins, {"unsuspend", "deleted"})
    /\ (/\ q.step = "store" /\ q.op # "unsuspend"
        /\ link[q.ins] # None /\ ~link[q.ins].active)
       => Has(q.ins, {"unsuspend", "deleted"})

\* A token that is worth nothing is taken away by a webhook that is still to be
\* handled; so is the row of an installation that was removed.
RowSound(i) ==
    link[i] # None =>
        /\ link[i].active /\ link[i].token # None
           => Works(i) \/ Pending(i, {"suspend", "deleted"})
        /\ install[i] = "removed" => Pending(i, {"deleted"})

\* A row is inactive for no longer than its installation is suspended.
OrderedRow(i) ==
    (link[i] # None /\ ~link[i].active) =>
        /\ install[i] = "suspended" \/ Pending(i, {"unsuspend", "deleted"})
        /\ link[i].token # None => Pending(i, {"unsuspend", "deleted"})

HooksInOrder(i) ==
    \A n \in DOMAIN hooks[i] : hooks[i][n] = "suspend" =>
        \/ install[i] = "suspended"
        \/ \E m \in DOMAIN hooks[i] : m > n /\ hooks[i][m] \in {"unsuspend", "deleted"}

OneEach ==
    /\ \A i, j \in Installations :
          (link[i] # None /\ link[j] # None /\ link[i].ws = link[j].ws) => i = j
    /\ \A p, r \in Planes :
          (plane[p] # None /\ plane[r] # None /\ plane[p].ws = plane[r].ws) => p = r

LoneInv ==
    /\ \A c \in Calls : \A d \in Calls \ {c} :
          deed[c].step = "idle" \/ deed[d].step = "idle"
    /\ OneEach
    /\ \A c \in Calls : LoneSound(deed[c])
    /\ \A i \in Installations : RowSound(i)
    /\ ~disordered => /\ \A c \in Calls : OrderedSound(deed[c])
                      /\ \A i \in Installations : OrderedRow(i) /\ HooksInOrder(i)

GitHubInv ==
    /\ GitHubTypeOK
    /\ \A c \in Calls : DeedSound(deed[c])
    /\ ~mixed => LoneInv

LEMMA GitHubTypes ==
    ASSUME GitHubInv
    PROVE  /\ install \in [Installations -> {"none", "active", "suspended", "removed"}]
           /\ grant \in [Installations -> 0..MostGrants]
           /\ hooks \in [Installations -> Seq(Hooks)]
           /\ link \in [Installations -> GitHubIntegration \union {None}]
           /\ plane \in [Planes -> ControlPlane \union {None}]
           /\ deed \in [Calls -> Deed]
           /\ mixed \in BOOLEAN /\ disordered \in BOOLEAN
           /\ MostGrants \in Nat
           /\ None \notin GitHubIntegration /\ None \notin ControlPlane
           /\ None \notin Installations /\ None \notin Planes
BY GitHubAppAssumption DEF GitHubInv, GitHubTypeOK

LEMMA NoDeedSound == NoDeed \in Deed /\ NoDeed.step = "idle" /\ NoDeed.ins = None
BY DEF NoDeed, Deed, Hooks

LEMMA LoneDeed ==
    ASSUME GitHubInv, ~mixed, NEW c \in Calls, deed[c].step # "idle"
    PROVE  \A d \in Calls \ {c} : deed[d].step = "idle"
BY DEF GitHubInv, LoneInv

(* Sequences of webhooks. *)

LEMMA Appended ==
    ASSUME NEW s \in Seq(Hooks), NEW h \in Hooks
    PROVE  /\ Append(s, h) \in Seq(Hooks) /\ Append(s, h)[Len(s) + 1] = h
           /\ Len(s) + 1 \in DOMAIN Append(s, h)
           /\ \A n \in DOMAIN s : /\ n \in DOMAIN Append(s, h) /\ Append(s, h)[n] = s[n]
                                  /\ n < Len(s) + 1
           /\ \A n \in DOMAIN Append(s, h) : n \in DOMAIN s \/ n = Len(s) + 1
OBVIOUS

LEMMA Joined ==
    ASSUME NEW a \in Seq(Hooks), NEW b \in Seq(Hooks)
    PROVE  /\ a \o b \in Seq(Hooks) /\ Len(a \o b) = Len(a) + Len(b)
           /\ \A n \in 1..(Len(a) + Len(b)) :
                 (a \o b)[n] = IF n <= Len(a) THEN a[n] ELSE b[n - Len(a)]
OBVIOUS

LEMMA Removed ==
    ASSUME NEW s \in Seq(Hooks), NEW k \in DOMAIN s
    PROVE  /\ RemoveAt(s, k) \in Seq(Hooks)
           /\ Len(RemoveAt(s, k)) = Len(s) - 1
           /\ \A n \in 1..(Len(s) - 1) :
                 RemoveAt(s, k)[n] = IF n < k THEN s[n] ELSE s[n + 1]
<1>1. k \in 1..Len(s) /\ Len(s) \in Nat
  OBVIOUS
<1>2. /\ SubSeq(s, 1, k - 1) \in Seq(Hooks) /\ Len(SubSeq(s, 1, k - 1)) = k - 1
      /\ \A n \in 1..(k - 1) : SubSeq(s, 1, k - 1)[n] = s[n]
  BY <1>1
<1>3. /\ SubSeq(s, k + 1, Len(s)) \in Seq(Hooks)
      /\ Len(SubSeq(s, k + 1, Len(s))) = Len(s) - k
      /\ \A n \in 1..(Len(s) - k) : SubSeq(s, k + 1, Len(s))[n] = s[n + k]
  BY <1>1
<1> DEFINE a == SubSeq(s, 1, k - 1)
           b == SubSeq(s, k + 1, Len(s))
<1> HIDE DEF a, b
<1>4. RemoveAt(s, k) = a \o b
  BY DEF RemoveAt, a, b
<1>5. /\ a \in Seq(Hooks) /\ Len(a) = k - 1 /\ \A n \in 1..(k - 1) : a[n] = s[n]
      /\ b \in Seq(Hooks) /\ Len(b) = Len(s) - k
      /\ \A n \in 1..(Len(s) - k) : b[n] = s[n + k]
  BY <1>2, <1>3 DEF a, b
<1>6. /\ a \o b \in Seq(Hooks) /\ Len(a \o b) = Len(s) - 1
      /\ \A n \in 1..(Len(s) - 1) : (a \o b)[n] = IF n < k THEN a[n] ELSE b[n - (k - 1)]
  <2>1. a \o b \in Seq(Hooks) /\ Len(a \o b) = Len(a) + Len(b)
    BY <1>5, Joined
  <2>2. \A n \in 1..(Len(a) + Len(b)) :
            (a \o b)[n] = IF n <= Len(a) THEN a[n] ELSE b[n - Len(a)]
    BY <1>5, Joined
  <2>3. Len(a) + Len(b) = Len(s) - 1
    BY <1>1, <1>5
  <2>4. \A n \in 1..(Len(s) - 1) : n <= Len(a) <=> n < k
    BY <1>1, <1>5
  <2> QED
    BY <1>5, <2>1, <2>2, <2>3, <2>4
<1>7. ASSUME NEW n \in 1..(Len(s) - 1)
      PROVE  (a \o b)[n] = IF n < k THEN s[n] ELSE s[n + 1]
  <2>1. CASE n < k
    <3>1. n \in 1..(k - 1)
      BY <1>1, <2>1
    <3> QED
      BY <1>5, <1>6, <2>1, <3>1
  <2>2. CASE ~(n < k)
    <3>1. n - (k - 1) \in 1..(Len(s) - k) /\ (n - (k - 1)) + k = n + 1
      BY <1>1, <2>2
    <3> QED
      BY <1>5, <1>6, <2>2, <3>1
  <2> QED
    BY <2>1, <2>2
<1> QED
  BY <1>4, <1>6, <1>7

LEMMA Prepended ==
    ASSUME NEW s \in Seq(Hooks), NEW h \in Hooks
    PROVE  /\ <<h>> \o s \in Seq(Hooks) /\ (<<h>> \o s)[1] = h
           /\ 1 \in DOMAIN (<<h>> \o s)
           /\ \A n \in DOMAIN s : /\ n + 1 \in DOMAIN (<<h>> \o s)
                                  /\ (<<h>> \o s)[n + 1] = s[n]
           /\ \A n \in DOMAIN (<<h>> \o s) :
                 n = 1 \/ (n \in Nat /\ n - 1 \in DOMAIN s /\ (<<h>> \o s)[n] = s[n - 1])
OBVIOUS

\* A webhook more is sent.
LEMMA MoreHooks ==
    ASSUME hooks \in [Installations -> Seq(Hooks)],
           NEW i \in Installations, NEW h \in Hooks, Sends(i, h)
    PROVE  /\ hooks' \in [Installations -> Seq(Hooks)]
           /\ \A j \in Installations \ {i} : hooks'[j] = hooks[j]
           /\ \A n \in DOMAIN hooks[i] : n \in DOMAIN hooks'[i] /\ hooks'[i][n] = hooks[i][n]
           /\ \E m \in DOMAIN hooks'[i] :
                 /\ hooks'[i][m] = h /\ \A n \in DOMAIN hooks[i] : n < m
                 /\ \A n \in DOMAIN hooks'[i] : n \in DOMAIN hooks[i] \/ n = m
<1>1. hooks'[i] = Append(hooks[i], h) /\ hooks[i] \in Seq(Hooks)
  BY DEF Sends
<1>2. /\ hooks' \in [Installations -> Seq(Hooks)]
      /\ \A j \in Installations \ {i} : hooks'[j] = hooks[j]
  BY <1>1, Appended DEF Sends
<1>3. \A n \in DOMAIN hooks[i] : n \in DOMAIN hooks'[i] /\ hooks'[i][n] = hooks[i][n]
  BY <1>1, Appended
<1>4. /\ Len(hooks[i]) + 1 \in DOMAIN hooks'[i] /\ hooks'[i][Len(hooks[i]) + 1] = h
      /\ \A n \in DOMAIN hooks[i] : n < Len(hooks[i]) + 1
      /\ \A n \in DOMAIN hooks'[i] : n \in DOMAIN hooks[i] \/ n = Len(hooks[i]) + 1
  BY <1>1, Appended
<1> QED
  BY <1>2, <1>3, <1>4

LEMMA HookKinds == /\ {"deleted"} \subseteq Hooks /\ {"suspend", "deleted"} \subseteq Hooks
                   /\ {"unsuspend", "deleted"} \subseteq Hooks
                   /\ Hooks \cap {"callback", "token", "disconnect"} = {}
BY DEF Hooks

\* What happens at GitHub is told by a webhook, which is there before a token that
\* is worth nothing can matter.
LEMMA GitHubSendsInv ==
    ASSUME GitHubInv, NEW i \in Installations, NEW h \in Hooks, Sends(i, h),
           UNCHANGED <<link, plane, mixed, disordered>>,
           \/ /\ h = "suspend" /\ install[i] = "active" /\ grant[i] < MostGrants
              /\ install' = [install EXCEPT ![i] = "suspended"]
              /\ grant' = [grant EXCEPT ![i] = @ + 1]
           \/ /\ h = "unsuspend" /\ install[i] = "suspended"
              /\ install' = [install EXCEPT ![i] = "active"] /\ grant' = grant
           \/ /\ h = "deleted" /\ install[i] \in {"active", "suspended"}
              /\ install' = [install EXCEPT ![i] = "removed"] /\ grant' = grant,
           deed' \in [Calls -> Deed],
           \A d \in Calls :
               \/ deed'[d] = deed[d]
               \/ /\ deed[d].step = "uninstall" /\ deed[d].op = "disconnect"
                  /\ deed'[d].step = "drop" /\ deed'[d].op = "disconnect"
                  /\ deed'[d].ins = deed[d].ins /\ deed'[d].lost = deed[d].lost
    PROVE  GitHubInv'
<1>1. /\ install' \in [Installations -> {"none", "active", "suspended", "removed"}]
      /\ \A j \in Installations \ {i} : install'[j] = install[j] /\ grant'[j] = grant[j]
      /\ install'[i] = CASE h = "suspend" -> "suspended" [] h = "unsuspend" -> "active"
                         [] h = "deleted" -> "removed"
      /\ h # "suspend" => grant'[i] = grant[i]
  BY GitHubTypes
<1>2. grant' \in [Installations -> 0..MostGrants]
  <2>1. grant \in [Installations -> 0..MostGrants] /\ MostGrants \in Nat
    BY GitHubTypes
  <2>2. grant[i] < MostGrants => grant[i] + 1 \in 0..MostGrants
    BY <2>1
  <2> QED
    BY <2>1, <2>2
<1>0. hooks \in [Installations -> Seq(Hooks)]
  BY GitHubTypes
<1>3. PICK m \in DOMAIN hooks'[i] :
          /\ hooks'[i][m] = h /\ \A n \in DOMAIN hooks[i] : n < m
          /\ \A n \in DOMAIN hooks'[i] : n \in DOMAIN hooks[i] \/ n = m
  BY <1>0, MoreHooks
<1>4. /\ hooks' \in [Installations -> Seq(Hooks)]
      /\ \A j \in Installations \ {i} : hooks'[j] = hooks[j]
      /\ \A n \in DOMAIN hooks[i] : n \in DOMAIN hooks'[i] /\ hooks'[i][n] = hooks[i][n]
  BY MoreHooks, GitHubTypes
<1>5. GitHubTypeOK'
  BY <1>1, <1>2, <1>4 DEF GitHubInv, GitHubTypeOK
<1>6. \A d \in Calls : DeedSound(deed[d])'
  BY DEF GitHubInv, DeedSound
<1>7. ASSUME ~mixed
      PROVE  LoneInv'
  <2>1. ASSUME NEW j \in Installations, NEW ops \in SUBSET Hooks
        PROVE  /\ Has(j, ops) => Has(j, ops)'
               /\ (j = i /\ h \in ops) => Has(j, ops)'
               /\ InHand(j, ops)' <=> InHand(j, ops)
               /\ Pending(j, ops) => Pending(j, ops)'
    <3>1. /\ Has(j, ops) => Has(j, ops)'
          /\ (j = i /\ h \in ops) => Has(j, ops)'
      BY <1>3, <1>4 DEF Has
    <3>2. InHand(j, ops)' <=> InHand(j, ops)
      BY HookKinds DEF InHand
    <3> QED
      BY <3>1, <3>2 DEF Pending
  <2>2. OneEach' /\ \A c \in Calls : \A d \in Calls \ {c} :
                       deed'[c].step = "idle" \/ deed'[d].step = "idle"
    BY <1>7 DEF GitHubInv, LoneInv, OneEach
  <2>3. ASSUME NEW j \in Installations
        PROVE  RowSound(j)'
    <3>1. RowSound(j)
      BY <1>7 DEF GitHubInv, LoneInv
    <3>2. /\ Pending(j, {"deleted"}) => Pending(j, {"deleted"})'
          /\ Pending(j, {"suspend", "deleted"}) => Pending(j, {"suspend", "deleted"})'
          /\ (j = i /\ h \in {"deleted"}) => Pending(j, {"deleted"})'
          /\ (j = i /\ h \in {"suspend", "deleted"}) => Pending(j, {"suspend", "deleted"})'
      BY <2>1, HookKinds DEF Pending
    <3>3. CASE j # i
      BY <1>1, <3>1, <3>2, <3>3 DEF RowSound, Works
    <3>4. CASE j = i
      BY <1>1, <3>1, <3>2, <3>4 DEF RowSound, Works
    <3> QED
      BY <3>3, <3>4
  <2>4. ASSUME NEW d \in Calls
        PROVE  LoneSound(deed[d])'
    <3>1. LoneSound(deed[d]) /\ DeedSound(deed[d])
      BY <1>7 DEF GitHubInv, LoneInv
    <3>2. CASE deed'[d] = deed[d]
      <4>1. CASE deed[d].step = "idle"
        BY <3>2, <4>1 DEF LoneSound
      <4>2. CASE deed[d].step # "idle"
        <5>1. deed[d].ins \in Installations
          BY <3>1, <4>2 DEF DeedSound
        <5>2. /\ Has(deed[d].ins, {"deleted"}) => Has(deed[d].ins, {"deleted"})'
              /\ Has(deed[d].ins, {"suspend", "deleted"})
                 => Has(deed[d].ins, {"suspend", "deleted"})'
              /\ (deed[d].ins = i /\ h \in {"deleted"}) => Has(deed[d].ins, {"deleted"})'
              /\ (deed[d].ins = i /\ h \in {"suspend", "deleted"})
                 => Has(deed[d].ins, {"suspend", "deleted"})'
          BY <1>3, <1>4, <3>2, <5>1 DEF Has
        <5> QED
          BY <1>1, <3>1, <3>2, <5>1, <5>2 DEF LoneSound, LinksOf, PlanesOf
      <4> QED
        BY <4>1, <4>2
    <3>3. CASE deed'[d].step = "drop" /\ deed'[d].op = "disconnect"
      BY <3>3 DEF LoneSound
    <3> QED
      BY <3>2, <3>3
  <2>5. ASSUME ~disordered, NEW d \in Calls
        PROVE  OrderedSound(deed[d])'
    <3>1. OrderedSound(deed[d]) /\ DeedSound(deed[d])
      BY <1>7, <2>5 DEF GitHubInv, LoneInv
    <3>2. CASE deed'[d] = deed[d]
      <4>1. CASE deed[d].step = "idle"
        BY <3>2, <4>1 DEF OrderedSound
      <4>2. CASE deed[d].step # "idle"
        <5>1. deed[d].ins \in Installations
          BY <3>1, <4>2 DEF DeedSound
        <5>2. /\ Has(deed[d].ins, {"unsuspend", "deleted"})
                 => Has(deed[d].ins, {"unsuspend", "deleted"})'
              /\ (deed[d].ins = i /\ h \in {"unsuspend", "deleted"})
                 => Has(deed[d].ins, {"unsuspend", "deleted"})'
          BY <1>3, <1>4, <3>2, <5>1 DEF Has
        <5> QED
          BY <1>1, <3>1, <3>2, <5>1, <5>2 DEF OrderedSound
      <4> QED
        BY <4>1, <4>2
    <3>3. CASE deed'[d].step = "drop" /\ deed'[d].op = "disconnect"
      BY <3>3 DEF OrderedSound
    <3> QED
      BY <3>2, <3>3
  <2>6. ASSUME ~disordered, NEW j \in Installations
        PROVE  OrderedRow(j)' /\ HooksInOrder(j)'
    <3>1. OrderedRow(j) /\ HooksInOrder(j)
      BY <1>7, <2>6 DEF GitHubInv, LoneInv
    <3>2. /\ Pending(j, {"unsuspend", "deleted"}) => Pending(j, {"unsuspend", "deleted"})'
          /\ (j = i /\ h \in {"unsuspend", "deleted"}) => Pending(j, {"unsuspend", "deleted"})'
      BY <2>1, HookKinds DEF Pending
    <3>3. OrderedRow(j)'
      BY <1>1, <3>1, <3>2 DEF OrderedRow
    <3>4. CASE j # i
      BY <1>1, <1>4, <3>1, <3>3, <3>4 DEF HooksInOrder
    <3>5. CASE j = i /\ h = "suspend"
      BY <1>1, <3>3, <3>5 DEF HooksInOrder
    <3>6. CASE j = i /\ h # "suspend"
      <4>1. h \in {"unsuspend", "deleted"}
        BY <3>6 DEF Hooks
      <4>2. \A n \in DOMAIN hooks'[i] : hooks'[i][n] = "suspend" => n < m
        BY <1>3, <3>6
      <4>3. DOMAIN hooks'[i] \subseteq Nat
        BY <1>4
      <4> QED
        BY <1>3, <3>3, <3>6, <4>1, <4>2, <4>3 DEF HooksInOrder
    <3> QED
      BY <3>3, <3>4, <3>5, <3>6
  <2> QED
    BY <2>2, <2>3, <2>4, <2>5, <2>6 DEF LoneInv
<1> QED
  BY <1>5, <1>6, <1>7 DEF GitHubInv

\* A request comes in.
LEMMA TakesInv ==
    ASSUME GitHubInv, NEW c \in Calls, NEW q \in Deed, Takes(c, q), DeedSound(q),
           UNCHANGED <<atGitHub, disordered>>,
           q.op \in {"callback", "token", "disconnect"},
           q.step \in {"asked", "fetch", "uninstall"},
           q.op = "callback" => install[q.ins] # "removed"
    PROVE  GitHubInv'
<1>1. /\ deed' \in [Calls -> Deed] /\ deed'[c] = q /\ deed[c].step = "idle"
      /\ \A d \in Calls \ {c} : deed'[d] = deed[d]
      /\ mixed' = (mixed \/ \E d \in Calls \ {c} : deed[d].step # "idle")
      /\ UNCHANGED <<install, grant, hooks, link, plane, disordered>>
  BY GitHubTypes DEF Takes, atGitHub
<1>2. GitHubTypeOK'
  BY <1>1, GitHubTypes DEF GitHubTypeOK
<1>3. \A d \in Calls : DeedSound(deed[d])'
  BY <1>1 DEF GitHubInv, DeedSound
<1>4. ASSUME ~mixed'
      PROVE  LoneInv'
  <2>1. /\ ~mixed /\ LoneInv
        /\ \A d \in Calls \ {c} : deed[d].step = "idle" /\ deed'[d].step = "idle"
    BY <1>1, <1>4 DEF GitHubInv
  <2>2. OneEach'
    BY <1>1, <2>1 DEF LoneInv, OneEach
  <2>3. \A d \in Calls : LoneSound(deed[d])' /\ OrderedSound(deed[d])'
    BY <1>1, <2>1 DEF LoneSound, OrderedSound
  <2>4. ASSUME NEW i \in Installations
        PROVE  /\ RowSound(i)'
               /\ ~disordered => OrderedRow(i)' /\ HooksInOrder(i)'
    <3>1. ASSUME NEW ops
          PROVE  Pending(i, ops) => Pending(i, ops)'
      BY <1>1 DEF Pending, Has, InHand
    <3>2. RowSound(i)'
      BY <1>1, <2>1, <3>1 DEF LoneInv, RowSound, Works
    <3>3. ASSUME ~disordered
          PROVE  OrderedRow(i)' /\ HooksInOrder(i)'
      BY <1>1, <2>1, <3>1, <3>3 DEF LoneInv, OrderedRow, HooksInOrder
    <3> QED
      BY <3>2, <3>3
  <2> QED
    BY <1>1, <2>1, <2>2, <2>3, <2>4 DEF LoneInv
<1> QED
  BY <1>2, <1>3, <1>4 DEF GitHubInv

\* A commit that leaves the rows rows: what others have loaded and is gone is lost
\* to them.
LEMMA WritesSound ==
    ASSUME GitHubInv, NEW c \in Calls, NEW q \in Deed, NEW rows,
           rows \in [Installations -> GitHubIntegration \union {None}],
           Writes(c, rows, q),
           q.step # "idle" => q.ins \in Installations,
           (q.step # "idle" /\ q.op = "callback") => q.ws \in Workspaces,
           q.step \in {"asked", "plane"} => q.plane = None,
           q.step = "check" => q.plane \in Planes,
           (/\ q.step \in {"check", "fetch", "store", "loaded", "end", "uninstall", "drop"}
            /\ ~q.lost)
           => rows[q.ins] # None
    PROVE  /\ deed' \in [Calls -> Deed] /\ deed'[c] = q
           /\ link' = rows /\ UNCHANGED <<mixed, disordered>>
           /\ \A d \in Calls \ {c} :
                 deed'[d].step = deed[d].step /\ deed'[d].op = deed[d].op
                 /\ deed'[d].ins = deed[d].ins
           /\ \A d \in Calls : DeedSound(deed[d])'
<1> DEFINE gone(d) == /\ deed[d].ins # None
                      /\ link[deed[d].ins] # None
                      /\ rows[deed[d].ins] = None
<1>1. /\ link' = rows /\ UNCHANGED <<mixed, disordered>>
      /\ deed' = [d \in Calls |-> IF d = c THEN q ELSE
                     [deed[d] EXCEPT !.lost = @ \/ gone(d)]]
  BY DEF Writes
<1>2. ASSUME NEW d \in Calls
      PROVE  LET n == [deed[d] EXCEPT !.lost = @ \/ gone(d)] IN
             /\ n \in Deed /\ n.step = deed[d].step /\ n.op = deed[d].op
             /\ n.ins = deed[d].ins /\ n.ws = deed[d].ws /\ n.plane = deed[d].plane
             /\ n.lost = (deed[d].lost \/ gone(d))
  <2> DEFINE g == deed[d].lost \/ gone(d)
  <2>1. deed[d] \in Deed
    BY GitHubTypes
  <2>2. g \in BOOLEAN
    OBVIOUS
  <2>3. [deed[d] EXCEPT !.lost = @ \/ gone(d)] = [deed[d] EXCEPT !.lost = g]
    OBVIOUS
  <2> HIDE DEF g
  <2>4. /\ [deed[d] EXCEPT !.lost = g] \in Deed
        /\ [deed[d] EXCEPT !.lost = g].step = deed[d].step
        /\ [deed[d] EXCEPT !.lost = g].op = deed[d].op
        /\ [deed[d] EXCEPT !.lost = g].ins = deed[d].ins
        /\ [deed[d] EXCEPT !.lost = g].ws = deed[d].ws
        /\ [deed[d] EXCEPT !.lost = g].plane = deed[d].plane
        /\ [deed[d] EXCEPT !.lost = g].lost = g
    BY <2>1, <2>2 DEF Deed
  <2> QED
    BY <2>3, <2>4 DEF g
<1> HIDE DEF gone
<1>3. deed' \in [Calls -> Deed] /\ deed'[c] = q
  BY <1>1, <1>2
<1>4. \A d \in Calls \ {c} :
          /\ deed'[d].step = deed[d].step /\ deed'[d].op = deed[d].op
          /\ deed'[d].ins = deed[d].ins /\ deed'[d].ws = deed[d].ws
          /\ deed'[d].plane = deed[d].plane
          /\ deed'[d].lost = (deed[d].lost \/ gone(d))
  BY <1>1, <1>2
<1>5. ASSUME NEW d \in Calls
      PROVE  DeedSound(deed[d])'
  <2>1. CASE d = c
    BY <1>1, <1>3, <2>1 DEF DeedSound
  <2>2. CASE d # c
    <3>1. DeedSound(deed[d])
      BY DEF GitHubInv
    <3>2. (deed[d].step # "idle" /\ ~gone(d) /\ link[deed[d].ins] # None)
          => rows[deed[d].ins] # None
      BY <3>1, GitHubTypes DEF gone, DeedSound
    <3> QED
      BY <1>1, <1>4, <2>2, <3>1, <3>2 DEF DeedSound
  <2> QED
    BY <2>1, <2>2
<1> QED
  BY <1>1, <1>3, <1>4, <1>5

\* A call goes on alone, and nothing happens at GitHub.
LEMMA LoneWrites ==
    ASSUME GitHubInv, ~mixed, NEW c \in Calls, deed[c].step # "idle",
           UNCHANGED <<atGitHub, disordered>>,
           \A d \in Calls \ {c} : deed'[d].step = deed[d].step,
           OneEach', LoneSound(deed[c])', ~disordered => OrderedSound(deed[c])',
           \A i \in Installations :
               \/ link'[i] = None
               \/ /\ link'[i] = link[i]
                  /\ (deed[c].op \in Hooks /\ deed[c].ins = i)
                     => /\ deed'[c].step # "idle" /\ deed'[c].op = deed[c].op
                        /\ deed'[c].ins = i
               \/ RowSound(i)' /\ (~disordered => OrderedRow(i)')
    PROVE  LoneInv'
<1>1. \A d \in Calls \ {c} : deed[d].step = "idle" /\ deed'[d].step = "idle"
  BY LoneDeed
<1>2. UNCHANGED <<install, grant, hooks, disordered>>
  BY DEF atGitHub
<1>3. \A d \in Calls : LoneSound(deed[d])' /\ (~disordered => OrderedSound(deed[d])')
  <2>1. \A d \in Calls \ {c} : LoneSound(deed[d])' /\ OrderedSound(deed[d])'
    BY <1>1 DEF LoneSound, OrderedSound
  <2> QED
    BY <2>1
<1>4. ASSUME NEW i \in Installations
      PROVE  /\ RowSound(i)'
             /\ ~disordered => OrderedRow(i)' /\ HooksInOrder(i)'
  <2>1. ~disordered => HooksInOrder(i)'
    BY <1>2 DEF GitHubInv, LoneInv, HooksInOrder
  <2>2. CASE link'[i] = None
    BY <2>1, <2>2 DEF RowSound, OrderedRow
  <2>3. CASE RowSound(i)' /\ (~disordered => OrderedRow(i)')
    BY <2>1, <2>3
  <2>4. CASE /\ link'[i] = link[i]
             /\ (deed[c].op \in Hooks /\ deed[c].ins = i)
                => /\ deed'[c].step # "idle" /\ deed'[c].op = deed[c].op
                   /\ deed'[c].ins = i
    <3>1. ASSUME NEW ops \in SUBSET Hooks
          PROVE  Pending(i, ops) => Pending(i, ops)'
      BY <1>1, <1>2, <2>4 DEF Pending, Has, InHand
    <3>2. /\ Pending(i, {"deleted"}) => Pending(i, {"deleted"})'
          /\ Pending(i, {"suspend", "deleted"}) => Pending(i, {"suspend", "deleted"})'
          /\ Pending(i, {"unsuspend", "deleted"}) => Pending(i, {"unsuspend", "deleted"})'
      BY <3>1, HookKinds
    <3>3. RowSound(i)'
      BY <1>2, <2>4, <3>2 DEF GitHubInv, LoneInv, RowSound, Works
    <3>4. ~disordered => OrderedRow(i)'
      BY <1>2, <2>4, <3>2 DEF GitHubInv, LoneInv, OrderedRow
    <3> QED
      BY <2>1, <3>3, <3>4
  <2> QED
    BY <2>2, <2>3, <2>4
<1> QED
  BY <1>1, <1>2, <1>3, <1>4 DEF LoneInv

LEMMA LonePending ==
    ASSUME GitHubInv, ~mixed, NEW c \in Calls, deed[c].step # "idle", NEW ops,
           deed[c].op \notin ops
    PROVE  \A i \in Installations : Pending(i, ops) => Has(i, ops)
BY LoneDeed DEF Pending, InHand

LEMMA DeedFailsInv ==
    ASSUME GitHubInv, NEW c \in Calls, DeedFails(c)
    PROVE  GitHubInv'
<1>1. /\ deed[c].step # "idle" /\ deed[c].op \notin Hooks
      /\ Writes(c, link, NoDeed) /\ UNCHANGED <<install, grant, hooks, plane>>
  BY DEF DeedFails, Moves, atGitHub
<1>2. /\ deed' \in [Calls -> Deed] /\ deed'[c] = NoDeed
      /\ link' = link /\ UNCHANGED <<mixed, disordered>>
      /\ \A d \in Calls \ {c} : deed'[d].step = deed[d].step
      /\ \A d \in Calls : DeedSound(deed[d])'
  BY <1>1, NoDeedSound, GitHubTypes, WritesSound
<1>3. GitHubTypeOK'
  BY <1>1, <1>2, GitHubTypes DEF GitHubTypeOK
<1>4. ASSUME ~mixed
      PROVE  LoneInv'
  <2>1. OneEach'
    BY <1>1, <1>2, <1>4 DEF GitHubInv, LoneInv, OneEach
  <2>2. LoneSound(deed[c])' /\ OrderedSound(deed[c])'
    BY <1>2, NoDeedSound DEF LoneSound, OrderedSound
  <2> QED
    BY <1>1, <1>2, <1>4, <2>1, <2>2, LoneWrites DEF atGitHub
<1> QED
  BY <1>2, <1>3, <1>4 DEF GitHubInv

LEMMA SwitchInstallationInv ==
    ASSUME GitHubInv, NEW c \in Calls, SwitchInstallation(c)
    PROVE  GitHubInv'
<1> DEFINE q == deed[c]
<1>1. /\ q.step = "asked" /\ q.op = "callback" /\ q \in Deed
      /\ q.ins \in Installations /\ q.ws \in Workspaces /\ q.op \notin Hooks
  BY GitHubTypes, HookKinds DEF SwitchInstallation, At, GitHubInv, DeedSound
<1>2. CASE /\ link[q.ins] # None
           /\ Moves(c, [q EXCEPT !.step = "fetch"])
  <2> DEFINE n == [q EXCEPT !.step = "fetch"]
  <2>1. /\ n \in Deed /\ n.step = "fetch" /\ n.op = "callback" /\ n.ins = q.ins /\ n.ws = q.ws
    BY <1>1 DEF Deed
  <2>2. Writes(c, link, n) /\ UNCHANGED <<install, grant, hooks, plane>>
    BY <1>2 DEF Moves, atGitHub
  <2> HIDE DEF n
  <2>3. /\ deed' \in [Calls -> Deed] /\ deed'[c] = n
        /\ link' = link /\ UNCHANGED <<mixed, disordered>>
        /\ \A d \in Calls \ {c} : deed'[d].step = deed[d].step
        /\ \A d \in Calls : DeedSound(deed[d])'
    BY <1>1, <1>2, <2>1, <2>2, GitHubTypes, WritesSound
  <2>4. GitHubTypeOK'
    BY <2>2, <2>3, GitHubTypes DEF GitHubTypeOK
  <2>5. ASSUME ~mixed
        PROVE  LoneInv'
    <3>1. OneEach'
      BY <2>2, <2>3, <2>5 DEF GitHubInv, LoneInv, OneEach
    <3>2. LoneSound(q)
      BY <2>5 DEF GitHubInv, LoneInv
    <3>3. install'[n.ins] = "removed" => \E k \in DOMAIN hooks'[n.ins] : hooks'[n.ins][k] = "deleted"
      BY <1>1, <2>1, <2>2, <3>2 DEF LoneSound, Has
    <3>4. LoneSound(deed[c])' /\ OrderedSound(deed[c])'
      BY <2>1, <2>3, <3>3 DEF LoneSound, OrderedSound, Has
    <3> QED
      BY <1>1, <2>1, <2>2, <2>3, <2>5, <3>1, <3>4, LoneWrites DEF atGitHub
  <2> QED
    BY <2>3, <2>4, <2>5 DEF GitHubInv
<1>3. CASE /\ Writes(c, [i \in Installations |-> IF i \in LinksOf(q.ws) THEN None ELSE link[i]],
                     [q EXCEPT !.step = "plane"])
           /\ UNCHANGED <<atGitHub, plane>>
  <2> DEFINE n == [q EXCEPT !.step = "plane"]
             rows == [i \in Installations |-> IF i \in LinksOf(q.ws) THEN None ELSE link[i]]
  <2>1. /\ n \in Deed /\ n.step = "plane" /\ n.op = "callback" /\ n.ins = q.ins
        /\ n.ws = q.ws /\ n.plane = None
    BY <1>1 DEF Deed, GitHubInv, DeedSound
  <2>2. /\ rows \in [Installations -> GitHubIntegration \union {None}]
        /\ \A i \in Installations : /\ rows[i] = None \/ rows[i] = link[i]
                                    /\ rows[i] # None => rows[i].ws # q.ws
    BY GitHubTypes DEF LinksOf
  <2>3. Writes(c, rows, n) /\ UNCHANGED <<install, grant, hooks, plane>>
    BY <1>3 DEF atGitHub
  <2> HIDE DEF n, rows
  <2>4. /\ deed' \in [Calls -> Deed] /\ deed'[c] = n
        /\ link' = rows /\ UNCHANGED <<mixed, disordered>>
        /\ \A d \in Calls \ {c} : deed'[d].step = deed[d].step
        /\ \A d \in Calls : DeedSound(deed[d])'
    BY <1>1, <2>1, <2>2, <2>3, WritesSound
  <2>5. GitHubTypeOK'
    BY <2>2, <2>3, <2>4, GitHubTypes DEF GitHubTypeOK
  <2>6. ASSUME ~mixed
        PROVE  LoneInv'
    <3>1. OneEach'
      BY <2>2, <2>3, <2>4, <2>6 DEF GitHubInv, LoneInv, OneEach
    <3>2. LoneSound(q)
      BY <2>6 DEF GitHubInv, LoneInv
    <3>3. install'[n.ins] = "removed" => \E k \in DOMAIN hooks'[n.ins] : hooks'[n.ins][k] = "deleted"
      BY <1>1, <2>1, <2>3, <3>2 DEF LoneSound, Has
    <3>4. LoneSound(deed[c])' /\ OrderedSound(deed[c])'
      BY <2>1, <2>2, <2>4, <3>3 DEF LoneSound, OrderedSound, Has, LinksOf
    <3> QED
      BY <1>1, <2>1, <2>2, <2>3, <2>4, <2>6, <3>1, <3>4, LoneWrites DEF atGitHub
  <2> QED
    BY <2>4, <2>5, <2>6 DEF GitHubInv
<1> QED
  BY <1>2, <1>3 DEF SwitchInstallation

LEMMA FindPlaneInv ==
    ASSUME GitHubInv, NEW c \in Calls, FindPlane(c)
    PROVE  GitHubInv'
<1> DEFINE q == deed[c]
<1>1. /\ q.step = "plane" /\ q.op = "callback" /\ q \in Deed
      /\ q.ins \in Installations /\ q.ws \in Workspaces /\ q.op \notin Hooks
  BY GitHubTypes, HookKinds DEF FindPlane, At, GitHubInv, DeedSound
<1>2. PICK n \in Deed :
          /\ Moves(c, n)
          /\ n.step = "insert" /\ n.op = "callback" /\ n.ins = q.ins /\ n.ws = q.ws
          /\ \/ n.plane = q.plane /\ PlanesOf(q.ws) = {}
             \/ n.plane \in Planes /\ PlanesOf(q.ws) = {n.plane}
  <2>1. CASE PlanesOf(q.ws) = {} /\ Moves(c, [q EXCEPT !.step = "insert"])
    BY <1>1, <2>1 DEF Deed
  <2>2. ASSUME NEW p \in Planes, PlanesOf(q.ws) = {p},
               Moves(c, [q EXCEPT !.step = "insert", !.plane = p])
        PROVE  \E n \in Deed :
                   /\ Moves(c, n)
                   /\ n.step = "insert" /\ n.op = "callback" /\ n.ins = q.ins /\ n.ws = q.ws
                   /\ \/ n.plane = q.plane /\ PlanesOf(q.ws) = {}
                      \/ n.plane \in Planes /\ PlanesOf(q.ws) = {n.plane}
    <3> DEFINE n == [q EXCEPT !.step = "insert", !.plane = p]
    <3>1. n \in Deed /\ n.step = "insert" /\ n.op = q.op /\ n.ins = q.ins /\ n.ws = q.ws
          /\ n.plane = p
      BY <1>1 DEF Deed
    <3>2. Moves(c, n)
      BY <2>2
    <3> HIDE DEF n
    <3> QED
      BY <1>1, <2>2, <3>1, <3>2
  <2> QED
    BY <2>1, <2>2 DEF FindPlane
<1>3. Writes(c, link, n) /\ UNCHANGED <<install, grant, hooks, plane>>
  BY <1>2 DEF Moves, atGitHub
<1>4. /\ deed' \in [Calls -> Deed] /\ deed'[c] = n
      /\ link' = link /\ UNCHANGED <<mixed, disordered>>
      /\ \A d \in Calls \ {c} : deed'[d].step = deed[d].step
      /\ \A d \in Calls : DeedSound(deed[d])'
  BY <1>1, <1>2, <1>3, GitHubTypes, WritesSound
<1>5. GitHubTypeOK'
  BY <1>3, <1>4, GitHubTypes DEF GitHubTypeOK
<1>6. ASSUME ~mixed
      PROVE  LoneInv'
  <2>1. OneEach'
    BY <1>3, <1>4, <1>6 DEF GitHubInv, LoneInv, OneEach
  <2>2. LoneSound(q)
    BY <1>6 DEF GitHubInv, LoneInv
  <2>3. /\ LinksOf(n.ws)' = {}
        /\ install'[n.ins] = "removed" => \E k \in DOMAIN hooks'[n.ins] : hooks'[n.ins][k] = "deleted"
    BY <1>1, <1>2, <1>3, <1>4, <2>2 DEF LoneSound, Has, LinksOf
  <2>4. IF n.plane = None THEN PlanesOf(n.ws)' = {}
        ELSE plane'[n.plane] # None => plane'[n.plane].ws = n.ws
    <3>1. q.plane = None
      BY <1>1 DEF GitHubInv, DeedSound
    <3>2. n.plane \in Planes => n.plane # None
      BY GitHubTypes
    <3> QED
      BY <1>2, <1>3, <3>1, <3>2 DEF PlanesOf
  <2>5. LoneSound(deed[c])' /\ OrderedSound(deed[c])'
    BY <1>2, <1>4, <2>3, <2>4 DEF LoneSound, OrderedSound, Has, LinksOf, PlanesOf
  <2> QED
    BY <1>1, <1>2, <1>3, <1>4, <1>6, <2>1, <2>5, LoneWrites DEF atGitHub
<1> QED
  BY <1>4, <1>5, <1>6 DEF GitHubInv

LEMMA CreateIntegrationInv ==
    ASSUME GitHubInv, NEW c \in Calls, CreateIntegration(c)
    PROVE  GitHubInv'
<1> DEFINE q == deed[c]
<1>1. /\ q.step = "insert" /\ q.op = "callback" /\ q \in Deed
      /\ q.ins \in Installations /\ q.ws \in Workspaces /\ q.op \notin Hooks
      /\ link[q.ins] = None
  BY GitHubTypes, HookKinds DEF CreateIntegration, At, GitHubInv, DeedSound
<1>2. PICK p \in Planes :
          /\ IF q.plane = None THEN plane[p] = None ELSE p = q.plane /\ plane[p] # None
          /\ plane' = [plane EXCEPT ![p] = IF q.plane = None
                 THEN [ws |-> q.ws, active |-> TRUE, health |-> "unset"]
                 ELSE [@ EXCEPT !.active = TRUE]]
          /\ Writes(c, [link EXCEPT ![q.ins] = [ws |-> q.ws, plane |-> p,
                                                active |-> TRUE, token |-> None]],
                    [q EXCEPT !.step = "check", !.plane = p, !.fresh = TRUE,
                              !.lost = FALSE])
          /\ UNCHANGED atGitHub
  BY DEF CreateIntegration
<1> DEFINE n == [q EXCEPT !.step = "check", !.plane = p, !.fresh = TRUE, !.lost = FALSE]
           g == [ws |-> q.ws, plane |-> p, active |-> TRUE, token |-> None]
           rows == [link EXCEPT ![q.ins] = g]
<1>3. /\ n \in Deed /\ n.step = "check" /\ n.op = "callback" /\ n.ins = q.ins /\ n.ws = q.ws
      /\ n.plane = p
  BY <1>1 DEF Deed
<1>4. /\ g \in GitHubIntegration /\ g # None /\ g.ws = q.ws /\ g.active = TRUE
      /\ g.token = None
  <2>1. g \in GitHubIntegration
    BY <1>1 DEF GitHubIntegration
  <2>2. g # None
    BY <2>1, GitHubTypes
  <2> QED
    BY <2>2, <2>1
<1>5. Writes(c, rows, n) /\ UNCHANGED <<install, grant, hooks>>
  BY <1>2 DEF atGitHub
<1> HIDE DEF n, g
<1>6. /\ rows \in [Installations -> GitHubIntegration \union {None}] /\ rows[q.ins] = g
      /\ \A i \in Installations \ {q.ins} : rows[i] = link[i]
  BY <1>1, <1>4, GitHubTypes
<1> HIDE DEF rows
<1>7. /\ deed' \in [Calls -> Deed] /\ deed'[c] = n
      /\ link' = rows /\ UNCHANGED <<mixed, disordered>>
      /\ \A d \in Calls \ {c} : deed'[d].step = deed[d].step
      /\ \A d \in Calls : DeedSound(deed[d])'
  BY <1>1, <1>3, <1>4, <1>5, <1>6, WritesSound
<1>8. /\ plane' \in [Planes -> ControlPlane \union {None}]
      /\ \A r \in Planes \ {p} : plane'[r] = plane[r]
      /\ plane'[p].ws = IF q.plane = None THEN q.ws ELSE plane[p].ws
  <2>1. CASE q.plane = None
    <3> DEFINE k == [ws |-> q.ws, active |-> TRUE, health |-> "unset"]
    <3>1. k \in ControlPlane /\ k.ws = q.ws
      BY <1>1 DEF ControlPlane, Health
    <3>2. plane' = [plane EXCEPT ![p] = k]
      BY <1>2, <2>1
    <3> HIDE DEF k
    <3> QED
      BY <2>1, <3>1, <3>2, GitHubTypes
  <2>2. CASE q.plane # None
    <3> DEFINE k == [plane[p] EXCEPT !.active = TRUE]
    <3>1. plane[p] \in ControlPlane
      BY <1>2, <2>2, GitHubTypes
    <3>2. k \in ControlPlane /\ k.ws = plane[p].ws
      BY <3>1 DEF ControlPlane
    <3>3. plane' = [plane EXCEPT ![p] = k]
      BY <1>2, <2>2
    <3> HIDE DEF k
    <3> QED
      BY <2>2, <3>2, <3>3, GitHubTypes
  <2> QED
    BY <2>1, <2>2
<1>9. GitHubTypeOK'
  BY <1>5, <1>6, <1>7, <1>8, GitHubTypes DEF GitHubTypeOK
<1>10. ASSUME ~mixed
       PROVE  LoneInv'
  <2>1. LoneSound(q) /\ OneEach
    BY <1>10 DEF GitHubInv, LoneInv
  <2>2. /\ \A i \in Installations : link[i] # None => link[i].ws # q.ws
        /\ q.plane = None => \A r \in Planes : plane[r] # None => plane[r].ws # q.ws
    BY <1>1, <2>1 DEF LoneSound, LinksOf, PlanesOf
  <2>3. OneEach'
    <3>1. \A i, j \in Installations :
              (link'[i] # None /\ link'[j] # None /\ link'[i].ws = link'[j].ws) => i = j
      BY <1>4, <1>6, <1>7, <2>1, <2>2 DEF OneEach
    <3>2. \A r, s \in Planes :
              (plane'[r] # None /\ plane'[s] # None /\ plane'[r].ws = plane'[s].ws) => r = s
      BY <1>2, <1>8, <2>1, <2>2 DEF OneEach
    <3> QED
      BY <3>1, <3>2 DEF OneEach
  <2>4. install[q.ins] = "removed" => Has(q.ins, {"deleted"})
    BY <1>1, <2>1 DEF LoneSound
  <2>5. LoneSound(deed[c])' /\ OrderedSound(deed[c])'
    BY <1>1, <1>3, <1>5, <1>7, <2>4 DEF LoneSound, OrderedSound, Has
  <2>6. ASSUME NEW i \in Installations, i = q.ins
        PROVE  RowSound(i)' /\ OrderedRow(i)'
    <3>1. install'[i] = "removed" => Pending(i, {"deleted"})'
      BY <1>5, <2>4, <2>6 DEF Pending, Has
    <3> QED
      BY <1>4, <1>6, <1>7, <2>6, <3>1 DEF RowSound, OrderedRow
  <2>7. \A i \in Installations : i # q.ins => link'[i] = link[i]
    BY <1>6, <1>7
  <2> QED
    BY <1>1, <1>5, <1>7, <1>10, <2>3, <2>5, <2>6, <2>7, LoneWrites DEF atGitHub
<1> QED
  BY <1>7, <1>9, <1>10 DEF GitHubInv

\* A control plane row gets a verdict.
LEMMA PlaneVerdict ==
    ASSUME GitHubInv, NEW p \in Planes, plane[p] # None,
           NEW v \in Health, NEW b \in BOOLEAN,
           plane' = [plane EXCEPT ![p].health = v, ![p].active = b]
    PROVE  /\ plane' \in [Planes -> ControlPlane \union {None}]
           /\ \A r \in Planes : /\ plane'[r] # None <=> plane[r] # None
                                /\ plane[r] # None => plane'[r].ws = plane[r].ws
<1> DEFINE k == [plane[p] EXCEPT !.health = v, !.active = b]
<1>1. plane[p] \in ControlPlane
  BY GitHubTypes
<1>2. k \in ControlPlane /\ k.ws = plane[p].ws
  BY <1>1 DEF ControlPlane
<1>3. plane' = [plane EXCEPT ![p] = k]
  BY GitHubTypes
<1> HIDE DEF k
<1> QED
  BY <1>2, <1>3, GitHubTypes

LEMMA InitialCheckInv ==
    ASSUME GitHubInv, NEW c \in Calls, InitialCheck(c)
    PROVE  GitHubInv'
<1> DEFINE q == deed[c]
           n == [q EXCEPT !.step = "fetch"]
<1>1. /\ q.step = "check" /\ q.op = "callback" /\ q \in Deed
      /\ q.ins \in Installations /\ q.ws \in Workspaces /\ q.plane \in Planes
      /\ ~q.lost => link[q.ins] # None
      /\ q.op \notin Hooks
      /\ plane[q.plane] # None
      /\ plane' = [plane EXCEPT ![q.plane].health = "failed", ![q.plane].active = FALSE]
  BY GitHubTypes, HookKinds DEF InitialCheck, At, GitHubInv, DeedSound
<1>2. /\ n \in Deed /\ n.step = "fetch" /\ n.op = "callback" /\ n.ins = q.ins /\ n.ws = q.ws
      /\ n.lost = q.lost
  BY <1>1 DEF Deed
<1>3. Writes(c, link, n) /\ UNCHANGED <<install, grant, hooks>>
  BY DEF InitialCheck, atGitHub
<1> HIDE DEF n
<1>4. /\ deed' \in [Calls -> Deed] /\ deed'[c] = n
      /\ link' = link /\ UNCHANGED <<mixed, disordered>>
      /\ \A d \in Calls \ {c} : deed'[d].step = deed[d].step
      /\ \A d \in Calls : DeedSound(deed[d])'
  BY <1>1, <1>2, <1>3, GitHubTypes, WritesSound
<1>5. /\ plane' \in [Planes -> ControlPlane \union {None}]
      /\ \A r \in Planes : /\ plane'[r] # None <=> plane[r] # None
                           /\ plane[r] # None => plane'[r].ws = plane[r].ws
  <2>1. "failed" \in Health /\ FALSE \in BOOLEAN
    BY DEF Health
  <2> QED
    BY <1>1, <2>1, PlaneVerdict
<1>6. GitHubTypeOK'
  BY <1>3, <1>4, <1>5, GitHubTypes DEF GitHubTypeOK
<1>7. ASSUME ~mixed
      PROVE  LoneInv'
  <2>1. LoneSound(q) /\ OneEach
    BY <1>7 DEF GitHubInv, LoneInv
  <2>2. OneEach'
    BY <1>4, <1>5, <2>1 DEF OneEach
  <2>3. LoneSound(deed[c])' /\ OrderedSound(deed[c])'
    BY <1>1, <1>2, <1>3, <1>4, <2>1 DEF LoneSound, OrderedSound, Has
  <2> QED
    BY <1>1, <1>3, <1>4, <1>7, <2>2, <2>3, LoneWrites DEF atGitHub
<1> QED
  BY <1>4, <1>6, <1>7 DEF GitHubInv

LEMMA FetchTokenInv ==
    ASSUME GitHubInv, NEW c \in Calls, FetchToken(c)
    PROVE  GitHubInv'
<1> DEFINE q == deed[c]
           n == [q EXCEPT !.step = "store", !.token = grant[q.ins]]
<1>1. /\ q.step = "fetch" /\ q.op \in {"callback", "token", "unsuspend"} /\ q \in Deed
      /\ q.ins \in Installations /\ (q.op = "callback" => q.ws \in Workspaces)
      /\ ~q.lost => link[q.ins] # None
      /\ install[q.ins] = "active" /\ grant[q.ins] \in 0..MostGrants
  BY GitHubTypes DEF FetchToken, At, GitHubInv, DeedSound
<1>2. /\ n \in Deed /\ n.step = "store" /\ n.op = q.op /\ n.ins = q.ins /\ n.ws = q.ws
      /\ n.lost = q.lost /\ n.token = grant[q.ins] /\ n.active = q.active
  BY <1>1 DEF Deed
<1>3. Writes(c, link, n) /\ UNCHANGED <<install, grant, hooks, plane>>
  BY DEF FetchToken, Moves, atGitHub
<1> HIDE DEF n
<1>4. /\ deed' \in [Calls -> Deed] /\ deed'[c] = n
      /\ link' = link /\ UNCHANGED <<mixed, disordered>>
      /\ \A d \in Calls \ {c} : deed'[d].step = deed[d].step
      /\ \A d \in Calls : DeedSound(deed[d])'
  BY <1>1, <1>2, <1>3, GitHubTypes, WritesSound
<1>5. GitHubTypeOK'
  BY <1>3, <1>4, GitHubTypes DEF GitHubTypeOK
<1>6. ASSUME ~mixed
      PROVE  LoneInv'
  <2>1. LoneSound(q) /\ OneEach
    BY <1>6 DEF GitHubInv, LoneInv
  <2>2. OneEach'
    BY <1>3, <1>4, <2>1 DEF OneEach
  <2>3. LoneSound(deed[c])'
    BY <1>1, <1>2, <1>3, <1>4, <2>1 DEF LoneSound, Has
  <2>4. ASSUME ~disordered, q.op # "unsuspend", link[q.ins] # None, ~link[q.ins].active
        PROVE  Has(q.ins, {"unsuspend", "deleted"})
    <3>1. OrderedRow(q.ins)
      BY <1>1, <1>6, <2>4 DEF GitHubInv, LoneInv
    <3>2. Pending(q.ins, {"unsuspend", "deleted"})
      BY <1>1, <2>4, <3>1 DEF OrderedRow
    <3>3. q.op \notin {"unsuspend", "deleted"}
      BY <1>1, <2>4
    <3> QED
      BY <1>1, <1>6, <3>2, <3>3, LonePending
  <2>5. ~disordered => OrderedSound(deed[c])'
    BY <1>1, <1>2, <1>3, <1>4, <2>4 DEF OrderedSound, Has
  <2> QED
    BY <1>1, <1>2, <1>3, <1>4, <1>6, <2>2, <2>3, <2>5, LoneWrites DEF atGitHub
<1> QED
  BY <1>4, <1>5, <1>6 DEF GitHubInv

LEMMA StoreTokenInv ==
    ASSUME GitHubInv, NEW c \in Calls, StoreToken(c)
    PROVE  GitHubInv'
<1> DEFINE q == deed[c]
           rows == [link EXCEPT ![q.ins].token = q.token]
           g == [link[q.ins] EXCEPT !.token = q.token]
<1>1. /\ q.step = "store" /\ q.op \in {"callback", "token"} /\ q \in Deed
      /\ q.ins \in Installations /\ ~q.lost /\ link[q.ins] \in GitHubIntegration
      /\ q.op \notin Hooks
  BY GitHubTypes, HookKinds DEF StoreToken, At, GitHubInv, DeedSound
<1>2. /\ g \in GitHubIntegration /\ g # None /\ g.ws = link[q.ins].ws
      /\ g.active = link[q.ins].active /\ g.token = q.token
  BY <1>1, GitHubTypes DEF GitHubIntegration, Deed
<1>3. rows = [link EXCEPT ![q.ins] = g]
  BY <1>1, GitHubTypes
<1>4. Writes(c, rows, NoDeed) /\ UNCHANGED <<install, grant, hooks, plane>>
  BY DEF StoreToken, atGitHub
<1> HIDE DEF g
<1>5. /\ rows \in [Installations -> GitHubIntegration \union {None}] /\ rows[q.ins] = g
      /\ \A i \in Installations \ {q.ins} : rows[i] = link[i]
  BY <1>1, <1>2, <1>3, GitHubTypes
<1> HIDE DEF rows
<1>6. /\ deed' \in [Calls -> Deed] /\ deed'[c] = NoDeed
      /\ link' = rows /\ UNCHANGED <<mixed, disordered>>
      /\ \A d \in Calls \ {c} : deed'[d].step = deed[d].step
      /\ \A d \in Calls : DeedSound(deed[d])'
  BY <1>4, <1>5, NoDeedSound, WritesSound
<1>7. GitHubTypeOK'
  BY <1>4, <1>5, <1>6, GitHubTypes DEF GitHubTypeOK
<1>8. ASSUME ~mixed
      PROVE  LoneInv'
  <2>1. LoneSound(q) /\ OneEach /\ RowSound(q.ins)
    BY <1>1, <1>8 DEF GitHubInv, LoneInv
  <2>2. OneEach'
    <3>1. \A i \in Installations : /\ link'[i] # None <=> link[i] # None
                                   /\ link[i] # None => link'[i].ws = link[i].ws
      BY <1>1, <1>2, <1>5, <1>6, GitHubTypes
    <3>2. \A i, j \in Installations :
              (link'[i] # None /\ link'[j] # None /\ link'[i].ws = link'[j].ws) => i = j
      BY <2>1, <3>1 DEF OneEach
    <3> QED
      BY <1>4, <2>1, <3>2 DEF OneEach
  <2>3. LoneSound(deed[c])' /\ OrderedSound(deed[c])'
    BY <1>6, NoDeedSound DEF LoneSound, OrderedSound
  <2>4. ASSUME NEW i \in Installations, i = q.ins
        PROVE  RowSound(i)' /\ (~disordered => OrderedRow(i)')
    <3>1. /\ install[i] = "removed" => Has(i, {"deleted"})
          /\ (install[i] = "active" /\ q.token = grant[i]) \/ Has(i, {"suspend", "deleted"})
      <4>1. install[i] = "removed" => Pending(i, {"deleted"})
        BY <1>1, <2>1, <2>4, GitHubTypes DEF RowSound
      <4>2. q.op \notin {"deleted"}
        BY <1>1
      <4> QED
        BY <1>1, <1>8, <2>1, <2>4, <4>1, <4>2, LonePending DEF LoneSound
    <3>2. ASSUME ~disordered, ~link[i].active
          PROVE  /\ install[i] = "suspended" \/ Has(i, {"unsuspend", "deleted"})
                 /\ Has(i, {"unsuspend", "deleted"})
      <4>1. OrderedSound(q)
        BY <1>8, <3>2 DEF GitHubInv, LoneInv
      <4> QED
        BY <1>1, <2>4, <3>2, <4>1, GitHubTypes DEF OrderedSound
    <3>3. RowSound(i)'
      BY <1>2, <1>4, <1>5, <1>6, <2>4, <3>1 DEF RowSound, Works, Pending, Has
    <3>4. ~disordered => OrderedRow(i)'
      BY <1>2, <1>4, <1>5, <1>6, <2>4, <3>2 DEF OrderedRow, Pending, Has
    <3> QED
      BY <3>3, <3>4
  <2>5. \A i \in Installations : i # q.ins => link'[i] = link[i]
    BY <1>5, <1>6
  <2> QED
    BY <1>1, <1>4, <1>6, <1>8, <2>2, <2>3, <2>4, <2>5, LoneWrites DEF atGitHub
<1> QED
  BY <1>6, <1>7, <1>8 DEF GitHubInv

LEMMA DropRowInv ==
    ASSUME GitHubInv, NEW c \in Calls, DropRow(c)
    PROVE  GitHubInv'
<1> DEFINE q == deed[c]
           rows == IF q.lost THEN link ELSE [link EXCEPT ![q.ins] = None]
<1>1. q.step = "drop" /\ q.op = "disconnect" /\ q.op \notin Hooks
  BY HookKinds DEF DropRow, At
<1>2. Writes(c, rows, NoDeed) /\ UNCHANGED <<install, grant, hooks, plane>>
  BY DEF DropRow, atGitHub
<1>3. /\ rows \in [Installations -> GitHubIntegration \union {None}]
      /\ \A i \in Installations : rows[i] = None \/ rows[i] = link[i]
  BY GitHubTypes
<1> HIDE DEF rows
<1>4. /\ deed' \in [Calls -> Deed] /\ deed'[c] = NoDeed
      /\ link' = rows /\ UNCHANGED <<mixed, disordered>>
      /\ \A d \in Calls \ {c} : deed'[d].step = deed[d].step
      /\ \A d \in Calls : DeedSound(deed[d])'
  BY <1>2, <1>3, NoDeedSound, WritesSound
<1>5. GitHubTypeOK'
  BY <1>2, <1>3, <1>4, GitHubTypes DEF GitHubTypeOK
<1>6. ASSUME ~mixed
      PROVE  LoneInv'
  <2>1. OneEach'
    BY <1>2, <1>3, <1>4, <1>6 DEF GitHubInv, LoneInv, OneEach
  <2>2. LoneSound(deed[c])' /\ OrderedSound(deed[c])'
    BY <1>4, NoDeedSound DEF LoneSound, OrderedSound
  <2> QED
    BY <1>1, <1>2, <1>3, <1>4, <1>6, <2>1, <2>2, LoneWrites DEF atGitHub
<1> QED
  BY <1>4, <1>5, <1>6 DEF GitHubInv

LEMMA AskCallbackInv ==
    ASSUME GitHubInv, NEW c \in Calls, AskCallback(c)
    PROVE  GitHubInv'
<1>1. PICK i \in Installations, w \in Workspaces :
          /\ install[i] \in {"active", "suspended"}
          /\ Takes(c, [NoDeed EXCEPT !.step = "asked", !.op = "callback",
                                     !.ins = i, !.ws = w])
          /\ UNCHANGED <<atGitHub, disordered>>
  BY DEF AskCallback
<1> DEFINE n == [NoDeed EXCEPT !.step = "asked", !.op = "callback", !.ins = i, !.ws = w]
<1>2. /\ n \in Deed /\ n.step = "asked" /\ n.op = "callback" /\ n.ins = i /\ n.ws = w
      /\ n.plane = None
  BY DEF NoDeed, Deed
<1>3. Takes(c, n)
  BY <1>1
<1> HIDE DEF n
<1>4. DeedSound(n)
  BY <1>2 DEF DeedSound
<1> QED
  BY <1>1, <1>2, <1>3, <1>4, TakesInv

LEMMA AskTokenInv ==
    ASSUME GitHubInv, NEW c \in Calls, AskToken(c)
    PROVE  GitHubInv'
<1>1. PICK i \in Installations :
          /\ link[i] # None
          /\ Takes(c, [NoDeed EXCEPT !.step = "fetch", !.op = "token", !.ins = i])
          /\ UNCHANGED <<atGitHub, disordered>>
  BY DEF AskToken
<1> DEFINE n == [NoDeed EXCEPT !.step = "fetch", !.op = "token", !.ins = i]
<1>2. n \in Deed /\ n.step = "fetch" /\ n.op = "token" /\ n.ins = i
  BY DEF NoDeed, Deed
<1>3. Takes(c, n)
  BY <1>1
<1> HIDE DEF n
<1>4. DeedSound(n)
  BY <1>1, <1>2 DEF DeedSound
<1> QED
  BY <1>1, <1>2, <1>3, <1>4, TakesInv

LEMMA AskDisconnectInv ==
    ASSUME GitHubInv, NEW c \in Calls, AskDisconnect(c)
    PROVE  GitHubInv'
<1>1. PICK i \in Installations :
          /\ link[i] # None
          /\ Takes(c, [NoDeed EXCEPT !.step = "uninstall", !.op = "disconnect",
                                     !.ins = i, !.ws = link[i].ws])
          /\ UNCHANGED <<atGitHub, disordered>>
  BY DEF AskDisconnect
<1> DEFINE n == [NoDeed EXCEPT !.step = "uninstall", !.op = "disconnect",
                               !.ins = i, !.ws = link[i].ws]
<1>2. link[i].ws \in Workspaces
  BY <1>1, GitHubTypes DEF GitHubIntegration
<1>3. n \in Deed /\ n.step = "uninstall" /\ n.op = "disconnect" /\ n.ins = i
  BY <1>2 DEF NoDeed, Deed
<1>4. Takes(c, n)
  BY <1>1
<1> HIDE DEF n
<1>5. DeedSound(n)
  BY <1>1, <1>3 DEF DeedSound
<1> QED
  BY <1>1, <1>3, <1>4, <1>5, TakesInv

\* GitHub may be told to remove the installation before its row goes.
LEMMA UninstallAppInv ==
    ASSUME GitHubInv, NEW c \in Calls, UninstallApp(c)
    PROVE  GitHubInv'
<1> DEFINE q == deed[c]
           n == [q EXCEPT !.step = "drop"]
<1>1. /\ q.step = "uninstall" /\ q.op = "disconnect" /\ q \in Deed /\ q.op \notin Hooks
      /\ q.ins \in Installations /\ (~q.lost => link[q.ins] # None)
  BY GitHubTypes, HookKinds DEF UninstallApp, At, GitHubInv, DeedSound
<1>2. n \in Deed /\ n.step = "drop" /\ n.op = "disconnect" /\ n.ins = q.ins /\ n.lost = q.lost
  BY <1>1 DEF Deed
<1>3. Writes(c, link, n) /\ UNCHANGED plane
  BY DEF UninstallApp
<1> HIDE DEF n
<1>4. /\ deed' \in [Calls -> Deed] /\ deed'[c] = n
      /\ link' = link /\ UNCHANGED <<mixed, disordered>>
      /\ \A d \in Calls \ {c} : deed'[d].step = deed[d].step
      /\ \A d \in Calls : DeedSound(deed[d])'
  BY <1>1, <1>2, <1>3, GitHubTypes, WritesSound
<1>5. CASE UNCHANGED atGitHub
  <2>1. UNCHANGED <<install, grant, hooks>>
    BY <1>5 DEF atGitHub
  <2>2. GitHubTypeOK'
    BY <1>3, <1>4, <2>1, GitHubTypes DEF GitHubTypeOK
  <2>3. ASSUME ~mixed
        PROVE  LoneInv'
    <3>1. OneEach'
      BY <1>3, <1>4, <2>3 DEF GitHubInv, LoneInv, OneEach
    <3>2. LoneSound(deed[c])' /\ OrderedSound(deed[c])'
      BY <1>2, <1>4 DEF LoneSound, OrderedSound
    <3> QED
      BY <1>1, <1>4, <1>5, <2>3, <3>1, <3>2, LoneWrites
  <2> QED
    BY <1>4, <2>2, <2>3 DEF GitHubInv
<1>6. CASE /\ install[q.ins] \in {"active", "suspended"}
           /\ install' = [install EXCEPT ![q.ins] = "removed"]
           /\ Sends(q.ins, "deleted")
           /\ UNCHANGED grant
  <2>1. ASSUME NEW d \in Calls, d # c
        PROVE  deed'[d] = deed[d]
    <3>1. deed'[d] = [deed[d] EXCEPT !.lost = @ \/ (/\ deed[d].ins # None
                                                    /\ link[deed[d].ins] # None
                                                    /\ link[deed[d].ins] = None)]
      BY <1>3, <2>1 DEF Writes
    <3> DEFINE r == deed[d]
    <3>2. r \in Deed
      BY GitHubTypes
    <3>3. deed'[d] = [r EXCEPT !.lost = r.lost]
      BY <3>1, <3>2 DEF Deed
    <3> HIDE DEF r
    <3>4. [r EXCEPT !.lost = r.lost] = r
      BY <3>2 DEF Deed
    <3> QED
      BY <3>3, <3>4 DEF r
  <2>2. "deleted" \in Hooks
    BY HookKinds
  <2> QED
    BY <1>1, <1>2, <1>3, <1>4, <1>6, <2>1, <2>2, GitHubSendsInv
<1> QED
  BY <1>5, <1>6 DEF UninstallApp

\* A webhook is taken out of those under way and is in hand, or has nothing to do.
LEMMA TakeHookInv ==
    ASSUME GitHubInv, NEW c \in Calls, TakeHook(c)
    PROVE  GitHubInv'
<1>1. PICK i \in Installations : \E n \in DOMAIN hooks[i] :
          /\ Takes(c, IF link[i] = None THEN NoDeed ELSE
                 [NoDeed EXCEPT !.op = hooks[i][n], !.ins = i, !.ws = link[i].ws,
                     !.step = IF hooks[i][n] = "unsuspend" THEN "fetch" ELSE "loaded",
                     !.active = link[i].active, !.token = link[i].token])
          /\ hooks' = [hooks EXCEPT ![i] = RemoveAt(@, n)]
          /\ disordered' = (disordered \/ n > 1)
          /\ UNCHANGED <<install, grant>>
  BY DEF TakeHook
<1>2. PICK n \in DOMAIN hooks[i] :
          /\ Takes(c, IF link[i] = None THEN NoDeed ELSE
                 [NoDeed EXCEPT !.op = hooks[i][n], !.ins = i, !.ws = link[i].ws,
                     !.step = IF hooks[i][n] = "unsuspend" THEN "fetch" ELSE "loaded",
                     !.active = link[i].active, !.token = link[i].token])
          /\ hooks' = [hooks EXCEPT ![i] = RemoveAt(@, n)]
          /\ disordered' = (disordered \/ n > 1)
          /\ UNCHANGED <<install, grant>>
  BY <1>1
<1> DEFINE s == hooks[i]
           hook == s[n]
           step == IF hook = "unsuspend" THEN "fetch" ELSE "loaded"
           k == [NoDeed EXCEPT !.op = hook, !.ins = i, !.ws = link[i].ws, !.step = step,
                               !.active = link[i].active, !.token = link[i].token]
           q == IF link[i] = None THEN NoDeed ELSE k
<1>3. s \in Seq(Hooks) /\ hook \in Hooks /\ n \in 1..Len(s) /\ Len(s) \in Nat
  BY GitHubTypes
<1>4. step \in {"fetch", "loaded"} /\ (step = "fetch" <=> hook = "unsuspend")
  OBVIOUS
<1>5. Takes(c, q)
  BY <1>2
<1> HIDE DEF step
<1>6. link[i] # None =>
          /\ k \in Deed /\ k.op = hook /\ k.ins = i /\ k.step = step
          /\ k.active = link[i].active /\ k.token = link[i].token
  <2>1. link[i] # None => link[i] \in GitHubIntegration
    BY GitHubTypes
  <2>2. link[i] # None => /\ link[i].ws \in Workspaces /\ link[i].active \in BOOLEAN
                          /\ link[i].token \in 0..MostGrants \union {None}
    BY <2>1 DEF GitHubIntegration
  <2> QED
    BY <1>3, <1>4, <2>2 DEF NoDeed, Deed
<1> HIDE DEF k
<1>7. /\ q \in Deed
      /\ link[i] = None => q = NoDeed
      /\ link[i] # None => /\ q.op = hook /\ q.ins = i /\ q.step = step
                           /\ q.active = link[i].active /\ q.token = link[i].token
  BY <1>6, NoDeedSound
<1> HIDE DEF q
<1>8. /\ deed' \in [Calls -> Deed] /\ deed'[c] = q /\ deed[c].step = "idle"
      /\ \A d \in Calls \ {c} : deed'[d] = deed[d]
      /\ mixed' = (mixed \/ \E d \in Calls \ {c} : deed[d].step # "idle")
      /\ UNCHANGED <<link, plane>>
  BY <1>5, <1>7, GitHubTypes DEF Takes
<1>9. /\ RemoveAt(s, n) \in Seq(Hooks) /\ Len(RemoveAt(s, n)) = Len(s) - 1
      /\ \A m \in 1..(Len(s) - 1) : RemoveAt(s, n)[m] = IF m < n THEN s[m] ELSE s[m + 1]
  BY <1>3, Removed
<1>10. /\ hooks' \in [Installations -> Seq(Hooks)] /\ hooks'[i] = RemoveAt(s, n)
       /\ \A j \in Installations \ {i} : hooks'[j] = hooks[j]
  BY <1>2, <1>9, GitHubTypes
<1>11. /\ hooks'[i] \in Seq(Hooks) /\ DOMAIN hooks'[i] = 1..(Len(s) - 1)
       /\ \A m \in 1..(Len(s) - 1) : hooks'[i][m] = IF m < n THEN s[m] ELSE s[m + 1]
  BY <1>3, <1>9, <1>10
<1>12. disordered' = (disordered \/ n > 1) /\ UNCHANGED <<install, grant>>
  BY <1>2
<1> HIDE DEF hook
<1>13. GitHubTypeOK'
  BY <1>8, <1>10, <1>12, GitHubTypes DEF GitHubTypeOK
<1>14. \A d \in Calls : DeedSound(deed[d])'
  <2>1. DeedSound(deed[c])'
    BY <1>3, <1>4, <1>7, <1>8, NoDeedSound, HookKinds DEF DeedSound
  <2>2. \A d \in Calls \ {c} : DeedSound(deed[d])'
    BY <1>8 DEF GitHubInv, DeedSound
  <2> QED
    BY <2>1, <2>2
<1>15. ASSUME NEW ops, NEW j \in Installations, Has(j, ops)
       PROVE  Has(j, ops)' \/ (j = i /\ hook \in ops)
  <2>1. CASE j # i
    BY <1>10, <1>15, <2>1 DEF Has
  <2>2. CASE j = i
    <3>1. PICK m \in DOMAIN s : s[m] \in ops
      BY <1>15, <2>2 DEF Has
    <3>2. CASE m = n
      BY <2>2, <3>1, <3>2 DEF hook
    <3>3. CASE m < n
      <4>1. m \in 1..(Len(s) - 1)
        BY <1>3, <3>3
      <4> QED
        BY <1>11, <2>2, <3>1, <3>3, <4>1 DEF Has
    <3>4. CASE m > n
      <4>1. m - 1 \in 1..(Len(s) - 1) /\ ~(m - 1 < n) /\ (m - 1) + 1 = m
        BY <1>3, <3>4
      <4> QED
        BY <1>11, <2>2, <3>1, <4>1 DEF Has
    <3> QED
      BY <1>3, <3>2, <3>3, <3>4
  <2> QED
    BY <2>1, <2>2
<1>16. ASSUME ~mixed'
       PROVE  LoneInv'
  <2>1. /\ ~mixed /\ LoneInv
        /\ \A d \in Calls \ {c} : deed[d].step = "idle" /\ deed'[d].step = "idle"
        /\ \A d \in Calls : deed[d].step = "idle"
    BY <1>8, <1>16 DEF GitHubInv
  <2>2. OneEach'
    BY <1>8, <2>1 DEF LoneInv, OneEach
  <2>3. ASSUME NEW ops, NEW j \in Installations, link[j] # None, Pending(j, ops)
        PROVE  Pending(j, ops)'
    <3>1. Has(j, ops)
      BY <2>1, <2>3 DEF Pending, InHand
    <3>2. (j = i /\ hook \in ops) => InHand(j, ops)'
      BY <1>4, <1>7, <1>8, <2>3 DEF InHand
    <3> QED
      BY <1>15, <3>1, <3>2 DEF Pending
  <2>4. ASSUME NEW j \in Installations
        PROVE  RowSound(j)' /\ (~disordered => OrderedRow(j)')
    BY <1>8, <1>12, <2>1, <2>3 DEF LoneInv, RowSound, OrderedRow, Works
  <2>5. LoneSound(deed[c])'
    BY <1>3, <1>4, <1>7, <1>8, NoDeedSound, HookKinds DEF LoneSound
  <2>6. \A d \in Calls \ {c} : LoneSound(deed[d])' /\ OrderedSound(deed[d])'
    BY <2>1 DEF LoneSound, OrderedSound
  <2>7. ASSUME ~disordered'
        PROVE  OrderedSound(deed[c])' /\ \A j \in Installations : HooksInOrder(j)'
    <3>1. n = 1 /\ ~disordered
      <4>1. ~disordered /\ ~(n > 1)
        BY <1>12, <2>7
      <4>2. n = 1
        BY <1>3, <4>1
      <4> QED
        BY <4>1, <4>2
    <3>2. /\ DOMAIN hooks'[i] = 1..(Len(s) - 1)
          /\ \A m \in 1..(Len(s) - 1) : hooks'[i][m] = s[m + 1]
      BY <1>11, <3>1
    <3>3. HooksInOrder(i)
      BY <2>1, <3>1 DEF LoneInv
    <3>4. ASSUME NEW m \in DOMAIN s, s[m] = "suspend", install[i] # "suspended"
          PROVE  \E r \in DOMAIN hooks'[i] :
                     r > m - 1 /\ hooks'[i][r] \in {"unsuspend", "deleted"}
      <4>1. PICK r \in DOMAIN s : r > m /\ s[r] \in {"unsuspend", "deleted"}
        BY <3>3, <3>4 DEF HooksInOrder
      <4>2. r - 1 \in 1..(Len(s) - 1) /\ r - 1 > m - 1 /\ (r - 1) + 1 = r
        BY <1>3, <4>1
      <4> QED
        BY <3>2, <4>1, <4>2
    <3>5. OrderedSound(deed[c])'
      <4>1. CASE link[i] # None /\ hook = "suspend" /\ install[i] # "suspended"
        <5>1. \E r \in DOMAIN hooks'[i] : hooks'[i][r] \in {"unsuspend", "deleted"}
          BY <1>3, <3>4, <4>1 DEF hook
        <5> QED
          BY <1>4, <1>7, <1>8, <4>1, <5>1 DEF OrderedSound, Has
      <4>2. CASE ~(link[i] # None /\ hook = "suspend" /\ install[i] # "suspended")
        BY <1>4, <1>7, <1>8, <1>12, <4>2, NoDeedSound DEF OrderedSound
      <4> QED
        BY <4>1, <4>2
    <3>6. HooksInOrder(i)'
      <4>1. ASSUME NEW m \in DOMAIN hooks'[i], hooks'[i][m] = "suspend",
                   install[i] # "suspended"
            PROVE  \E r \in DOMAIN hooks'[i] :
                       r > m /\ hooks'[i][r] \in {"unsuspend", "deleted"}
        <5>1. m + 1 \in DOMAIN s /\ s[m + 1] = "suspend" /\ (m + 1) - 1 = m
          BY <1>3, <3>2, <4>1
        <5> QED
          BY <3>4, <4>1, <5>1
      <4> QED
        BY <1>12, <4>1 DEF HooksInOrder
    <3>7. \A j \in Installations \ {i} : HooksInOrder(j)'
      BY <1>10, <1>12, <2>1, <3>1 DEF LoneInv, HooksInOrder
    <3> QED
      BY <3>5, <3>6, <3>7
  <2>8. ~disordered' => ~disordered
    BY <1>12
  <2> QED
    BY <2>1, <2>2, <2>4, <2>5, <2>6, <2>7, <2>8 DEF LoneInv
<1> QED
  BY <1>13, <1>14, <1>16 DEF GitHubInv

\* A webhook that fails is sent again, before those that are under way.
LEMMA HookFailsInv ==
    ASSUME GitHubInv, NEW c \in Calls, HookFails(c)
    PROVE  GitHubInv'
<1> DEFINE q == deed[c]
           i == q.ins
           s == hooks[i]
<1>1. /\ q.step # "idle" /\ q.op \in Hooks /\ i \in Installations /\ s \in Seq(Hooks)
      /\ hooks' = [hooks EXCEPT ![i] = <<q.op>> \o @]
      /\ Writes(c, link, NoDeed) /\ UNCHANGED <<install, grant, plane>>
  BY GitHubTypes DEF HookFails, GitHubInv, DeedSound
<1>2. /\ deed' \in [Calls -> Deed] /\ deed'[c] = NoDeed
      /\ link' = link /\ UNCHANGED <<mixed, disordered>>
      /\ \A d \in Calls \ {c} : deed'[d].step = deed[d].step
      /\ \A d \in Calls : DeedSound(deed[d])'
  BY <1>1, NoDeedSound, GitHubTypes, WritesSound
<1>3. /\ hooks'[i] = <<q.op>> \o s /\ hooks' \in [Installations -> Seq(Hooks)]
      /\ \A j \in Installations \ {i} : hooks'[j] = hooks[j]
  BY <1>1, Prepended, GitHubTypes
<1>4. /\ 1 \in DOMAIN hooks'[i] /\ hooks'[i][1] = q.op
      /\ \A n \in DOMAIN s : n + 1 \in DOMAIN hooks'[i] /\ hooks'[i][n + 1] = s[n]
      /\ \A n \in DOMAIN hooks'[i] :
            n = 1 \/ (n \in Nat /\ n - 1 \in DOMAIN s /\ hooks'[i][n] = s[n - 1])
  BY <1>1, <1>3, Prepended
<1>5. GitHubTypeOK'
  BY <1>1, <1>2, <1>3, GitHubTypes DEF GitHubTypeOK
<1>6. ASSUME ~mixed
      PROVE  LoneInv'
  <2>1. LoneInv /\ \A d \in Calls \ {c} : deed[d].step = "idle" /\ deed'[d].step = "idle"
    BY <1>1, <1>2, <1>6, LoneDeed DEF GitHubInv
  <2>2. OneEach'
    BY <1>1, <1>2, <2>1 DEF LoneInv, OneEach
  <2>3. ASSUME NEW ops, NEW j \in Installations, Pending(j, ops)
        PROVE  Pending(j, ops)'
    <3>1. CASE Has(j, ops)
      BY <1>3, <1>4, <3>1 DEF Pending, Has
    <3>2. CASE InHand(j, ops)
      <4>1. q.op \in ops /\ j = i
        BY <2>1, <3>2 DEF InHand
      <4> QED
        BY <1>4, <4>1 DEF Pending, Has
    <3> QED
      BY <2>3, <3>1, <3>2 DEF Pending
  <2>4. ASSUME NEW j \in Installations
        PROVE  RowSound(j)' /\ (~disordered => OrderedRow(j)')
    BY <1>1, <1>2, <2>1, <2>3 DEF LoneInv, RowSound, OrderedRow, Works
  <2>5. \A d \in Calls : LoneSound(deed[d])' /\ OrderedSound(deed[d])'
    BY <1>2, <2>1, NoDeedSound DEF LoneSound, OrderedSound
  <2>6. ASSUME ~disordered
        PROVE  \A j \in Installations : HooksInOrder(j)'
    <3>1. OrderedSound(q) /\ HooksInOrder(i)
      BY <1>1, <2>1, <2>6 DEF LoneInv
    <3>2. ASSUME NEW n \in DOMAIN hooks'[i], hooks'[i][n] = "suspend",
                 install[i] # "suspended"
          PROVE  \E r \in DOMAIN hooks'[i] :
                     r > n /\ hooks'[i][r] \in {"unsuspend", "deleted"}
      <4>1. CASE n = 1
        <5>1. PICK r \in DOMAIN s : s[r] \in {"unsuspend", "deleted"}
          BY <1>1, <1>4, <3>1, <3>2, <4>1 DEF OrderedSound, Has
        <5>2. r + 1 > n
          BY <1>1, <4>1
        <5> QED
          BY <1>4, <5>1, <5>2
      <4>2. CASE n # 1
        <5>1. n \in Nat /\ n - 1 \in DOMAIN s /\ s[n - 1] = "suspend"
          BY <1>4, <3>2, <4>2
        <5>2. PICK r \in DOMAIN s : r > n - 1 /\ s[r] \in {"unsuspend", "deleted"}
          BY <3>1, <3>2, <5>1 DEF HooksInOrder
        <5>3. r + 1 > n
          BY <1>1, <5>1, <5>2
        <5> QED
          BY <1>4, <5>2, <5>3
      <4> QED
        BY <4>1, <4>2
    <3>3. ASSUME NEW j \in Installations, j = i
          PROVE  HooksInOrder(j)'
      BY <1>1, <3>2, <3>3 DEF HooksInOrder
    <3>4. \A j \in Installations \ {i} : HooksInOrder(j)'
      BY <1>1, <1>3, <2>1, <2>6 DEF LoneInv, HooksInOrder
    <3> QED
      BY <3>3, <3>4
  <2> QED
    BY <1>2, <2>1, <2>2, <2>4, <2>5, <2>6 DEF LoneInv
<1> QED
  BY <1>2, <1>5, <1>6 DEF GitHubInv

\* A webhook writes what it wants of a row: then it is done.
LEMMA HandlesInv ==
    ASSUME GitHubInv, NEW c \in Calls, deed[c].step # "idle", deed[c].op \in Hooks,
           NEW g \in GitHubIntegration,
           link[deed[c].ins] # None, g.ws = link[deed[c].ins].ws,
           Writes(c, [link EXCEPT ![deed[c].ins] = g], NoDeed),
           UNCHANGED <<atGitHub, plane>>,
           ~mixed => LET i == deed[c].ins IN
               /\ (g.active /\ g.token # None)
                  => (install[i] = "active" /\ g.token = grant[i])
                     \/ Has(i, {"suspend", "deleted"})
               /\ install[i] = "removed" => Has(i, {"deleted"})
               /\ (~disordered /\ ~g.active) =>
                     /\ install[i] = "suspended" \/ Has(i, {"unsuspend", "deleted"})
                     /\ g.token = None
    PROVE  GitHubInv'
<1> DEFINE i == deed[c].ins
           rows == [link EXCEPT ![i] = g]
<1>1. i \in Installations /\ UNCHANGED <<install, grant, hooks, plane>>
  BY DEF GitHubInv, DeedSound, atGitHub
<1>2. /\ rows \in [Installations -> GitHubIntegration \union {None}] /\ rows[i] = g
      /\ \A j \in Installations \ {i} : rows[j] = link[j]
  BY <1>1, GitHubTypes
<1>3. Writes(c, rows, NoDeed)
  OBVIOUS
<1> HIDE DEF rows
<1>4. /\ deed' \in [Calls -> Deed] /\ deed'[c] = NoDeed
      /\ link' = rows /\ UNCHANGED <<mixed, disordered>>
      /\ \A d \in Calls \ {c} : deed'[d].step = deed[d].step
      /\ \A d \in Calls : DeedSound(deed[d])'
  BY <1>2, <1>3, NoDeedSound, WritesSound
<1>5. GitHubTypeOK'
  BY <1>1, <1>2, <1>4, GitHubTypes DEF GitHubTypeOK
<1>6. ASSUME ~mixed
      PROVE  LoneInv'
  <2>1. OneEach'
    <3>1. OneEach
      BY <1>6 DEF GitHubInv, LoneInv
    <3>2. \A j \in Installations : /\ link'[j] # None <=> link[j] # None
                                   /\ link[j] # None => link'[j].ws = link[j].ws
      BY <1>1, <1>2, <1>4, GitHubTypes
    <3>3. \A j, k \in Installations :
              (link'[j] # None /\ link'[k] # None /\ link'[j].ws = link'[k].ws) => j = k
      BY <3>1, <3>2 DEF OneEach
    <3> QED
      BY <1>1, <3>1, <3>3 DEF OneEach
  <2>2. LoneSound(deed[c])' /\ OrderedSound(deed[c])'
    BY <1>4, NoDeedSound DEF LoneSound, OrderedSound
  <2>3. ASSUME NEW j \in Installations, j = i
        PROVE  RowSound(j)' /\ (~disordered => OrderedRow(j)')
    <3>1. RowSound(j)'
      BY <1>1, <1>2, <1>4, <1>6, <2>3 DEF RowSound, Works, Pending, Has
    <3>2. ~disordered => OrderedRow(j)'
      BY <1>1, <1>2, <1>4, <1>6, <2>3 DEF OrderedRow, Pending, Has
    <3> QED
      BY <3>1, <3>2
  <2>4. \A j \in Installations : j # i => link'[j] = link[j]
    BY <1>2, <1>4
  <2>5. UNCHANGED <<atGitHub, disordered>>
    BY <1>4
  <2>6. ASSUME NEW j \in Installations
        PROVE  \/ link'[j] = None
               \/ /\ link'[j] = link[j]
                  /\ (deed[c].op \in Hooks /\ deed[c].ins = j)
                     => /\ deed'[c].step # "idle" /\ deed'[c].op = deed[c].op
                        /\ deed'[c].ins = j
               \/ RowSound(j)' /\ (~disordered => OrderedRow(j)')
    BY <2>3, <2>4
  <2> QED
    BY <1>4, <1>6, <2>1, <2>2, <2>5, <2>6, LoneWrites
<1> QED
  BY <1>4, <1>5, <1>6 DEF GitHubInv

LEMMA HandleSuspendInv ==
    ASSUME GitHubInv, NEW c \in Calls, HandleSuspend(c)
    PROVE  GitHubInv'
<1> DEFINE q == deed[c]
           i == q.ins
           a == IF q.active THEN FALSE ELSE link[i].active
           t == IF q.token # None THEN None ELSE link[i].token
           g == [link[i] EXCEPT !.active = a, !.token = t]
<1>1. /\ q.step = "loaded" /\ q.op = "suspend" /\ q \in Deed /\ q.op \in Hooks
      /\ i \in Installations /\ link[i] # None /\ link[i] \in GitHubIntegration
  BY GitHubTypes DEF HandleSuspend, At, GitHubInv, DeedSound, Hooks
<1>2. a \in BOOLEAN /\ t \in 0..MostGrants \union {None}
  BY <1>1 DEF GitHubIntegration
<1>3. Writes(c, [link EXCEPT ![i] = g], NoDeed) /\ UNCHANGED <<atGitHub, plane>>
  <2>1. [link EXCEPT ![i].active = IF q.active THEN FALSE ELSE @,
                     ![i].token = IF q.token # None THEN None ELSE @]
        = [link EXCEPT ![i] = g]
    BY <1>1, GitHubTypes DEF GitHubIntegration
  <2> QED
    BY <2>1 DEF HandleSuspend
<1>4. (q.active = link[i].active /\ q.token = link[i].token) => (a = FALSE /\ t = None)
  BY <1>1 DEF GitHubIntegration
<1> HIDE DEF a, t
<1>5. /\ g \in GitHubIntegration /\ g.ws = link[i].ws /\ g.active = a /\ g.token = t
  BY <1>1, <1>2 DEF GitHubIntegration
<1> HIDE DEF g
<1>6. ASSUME ~mixed
      PROVE  /\ ~g.active /\ g.token = None
             /\ install[i] = "removed" => Has(i, {"deleted"})
             /\ ~disordered
                => install[i] = "suspended" \/ Has(i, {"unsuspend", "deleted"})
  <2>1. LoneSound(q) /\ RowSound(i) /\ (~disordered => OrderedSound(q))
    BY <1>1, <1>6 DEF GitHubInv, LoneInv
  <2>2. a = FALSE /\ t = None
    BY <1>1, <1>4, <2>1 DEF LoneSound
  <2>3. Pending(i, {"deleted"}) => Has(i, {"deleted"})
    BY <1>1, <1>6, LonePending
  <2> QED
    BY <1>1, <1>5, <2>1, <2>2, <2>3 DEF RowSound, OrderedSound
<1> QED
  BY <1>1, <1>3, <1>5, <1>6, HandlesInv

LEMMA HandleUnsuspendInv ==
    ASSUME GitHubInv, NEW c \in Calls, HandleUnsuspend(c)
    PROVE  GitHubInv'
<1> DEFINE q == deed[c]
           i == q.ins
           a == IF q.active THEN link[i].active ELSE TRUE
           g == [link[i] EXCEPT !.active = a, !.token = q.token]
<1>1. /\ q.step = "store" /\ q.op = "unsuspend" /\ q \in Deed /\ q.op \in Hooks
      /\ i \in Installations /\ link[i] # None /\ link[i] \in GitHubIntegration
  BY GitHubTypes DEF HandleUnsuspend, At, GitHubInv, DeedSound, Hooks
<1>2. a \in BOOLEAN /\ q.token \in 0..MostGrants \union {None}
  BY <1>1 DEF GitHubIntegration, Deed
<1>3. Writes(c, [link EXCEPT ![i] = g], NoDeed) /\ UNCHANGED <<atGitHub, plane>>
  <2>1. [link EXCEPT ![i].active = IF q.active THEN @ ELSE TRUE, ![i].token = q.token]
        = [link EXCEPT ![i] = g]
    BY <1>1, GitHubTypes DEF GitHubIntegration
  <2> QED
    BY <2>1 DEF HandleUnsuspend
<1>4. q.active = link[i].active => a = TRUE
  BY <1>1 DEF GitHubIntegration
<1> HIDE DEF a
<1>5. /\ g \in GitHubIntegration /\ g.ws = link[i].ws /\ g.active = a /\ g.token = q.token
  BY <1>1, <1>2 DEF GitHubIntegration
<1> HIDE DEF g
<1>6. ASSUME ~mixed
      PROVE  /\ g.active
             /\ (install[i] = "active" /\ g.token = grant[i])
                \/ Has(i, {"suspend", "deleted"})
             /\ install[i] = "removed" => Has(i, {"deleted"})
  <2>1. LoneSound(q) /\ RowSound(i)
    BY <1>1, <1>6 DEF GitHubInv, LoneInv
  <2>2. a = TRUE
    BY <1>1, <1>4, <2>1 DEF LoneSound
  <2>3. Pending(i, {"deleted"}) => Has(i, {"deleted"})
    BY <1>1, <1>6, LonePending
  <2> QED
    BY <1>1, <1>5, <2>1, <2>2, <2>3 DEF RowSound, LoneSound
<1> QED
  BY <1>1, <1>3, <1>5, <1>6, HandlesInv

LEMMA FindRemainingInv ==
    ASSUME GitHubInv, NEW c \in Calls, FindRemaining(c)
    PROVE  GitHubInv'
<1> DEFINE q == deed[c]
<1>1. /\ q.step = "loaded" /\ q.op = "deleted" /\ q \in Deed
      /\ q.ins \in Installations /\ ~q.lost /\ link[q.ins] # None
  BY GitHubTypes DEF FindRemaining, At, GitHubInv, DeedSound
<1>2. PICK n \in Deed :
          /\ Moves(c, n)
          /\ n.step = "end" /\ n.op = "deleted" /\ n.ins = q.ins
  <2>1. CASE Moves(c, [q EXCEPT !.step = "end"])
    BY <1>1, <2>1 DEF Deed
  <2>2. ASSUME NEW p \in Planes, Moves(c, [q EXCEPT !.step = "end", !.plane = p])
        PROVE  \E n \in Deed :
                   Moves(c, n) /\ n.step = "end" /\ n.op = "deleted" /\ n.ins = q.ins
    <3> DEFINE n == [q EXCEPT !.step = "end", !.plane = p]
    <3>1. n \in Deed /\ n.step = "end" /\ n.op = q.op /\ n.ins = q.ins
      BY <1>1 DEF Deed
    <3>2. Moves(c, n)
      BY <2>2
    <3> HIDE DEF n
    <3> QED
      BY <1>1, <3>1, <3>2
  <2> QED
    BY <2>1, <2>2 DEF FindRemaining
<1>3. Writes(c, link, n) /\ UNCHANGED <<install, grant, hooks, plane>>
  BY <1>2 DEF Moves, atGitHub
<1>4. /\ deed' \in [Calls -> Deed] /\ deed'[c] = n
      /\ link' = link /\ UNCHANGED <<mixed, disordered>>
      /\ \A d \in Calls \ {c} : deed'[d].step = deed[d].step
      /\ \A d \in Calls : DeedSound(deed[d])'
  BY <1>1, <1>2, <1>3, GitHubTypes, WritesSound
<1>5. GitHubTypeOK'
  BY <1>3, <1>4, GitHubTypes DEF GitHubTypeOK
<1>6. ASSUME ~mixed
      PROVE  LoneInv'
  <2>1. OneEach'
    BY <1>3, <1>4, <1>6 DEF GitHubInv, LoneInv, OneEach
  <2>2. LoneSound(deed[c])' /\ OrderedSound(deed[c])'
    BY <1>2, <1>4 DEF LoneSound, OrderedSound
  <2> QED
    BY <1>1, <1>2, <1>3, <1>4, <1>6, <2>1, <2>2, LoneWrites DEF atGitHub
<1> QED
  BY <1>4, <1>5, <1>6 DEF GitHubInv

LEMMA HandleUninstallInv ==
    ASSUME GitHubInv, NEW c \in Calls, HandleUninstall(c)
    PROVE  GitHubInv'
<1> DEFINE q == deed[c]
           rows == [i \in Installations |->
                       IF link[i] # None /\ (i = q.ins \/ link[i].plane = q.plane)
                       THEN None ELSE link[i]]
<1>1. /\ q.step = "end" /\ q.op = "deleted"
      /\ plane' = [p \in Planes |-> IF p = q.plane THEN None ELSE plane[p]]
  BY DEF HandleUninstall, At
<1>2. Writes(c, rows, NoDeed) /\ UNCHANGED <<install, grant, hooks>>
  BY DEF HandleUninstall, atGitHub
<1>3. /\ rows \in [Installations -> GitHubIntegration \union {None}]
      /\ \A i \in Installations : /\ rows[i] = None \/ rows[i] = link[i]
                                  /\ i = q.ins => rows[i] = None
  BY GitHubTypes
<1> HIDE DEF rows
<1>4. /\ deed' \in [Calls -> Deed] /\ deed'[c] = NoDeed
      /\ link' = rows /\ UNCHANGED <<mixed, disordered>>
      /\ \A d \in Calls \ {c} : deed'[d].step = deed[d].step
      /\ \A d \in Calls : DeedSound(deed[d])'
  BY <1>2, <1>3, NoDeedSound, WritesSound
<1>5. /\ plane' \in [Planes -> ControlPlane \union {None}]
      /\ \A p \in Planes : plane'[p] = None \/ plane'[p] = plane[p]
  BY <1>1, GitHubTypes
<1>6. GitHubTypeOK'
  BY <1>2, <1>3, <1>4, <1>5, GitHubTypes DEF GitHubTypeOK
<1>7. ASSUME ~mixed
      PROVE  LoneInv'
  <2>1. OneEach'
    <3>1. OneEach
      BY <1>7 DEF GitHubInv, LoneInv
    <3>2. \A i \in Installations : link'[i] = None \/ link'[i] = link[i]
      BY <1>3, <1>4
    <3> QED
      BY <1>5, <3>1, <3>2 DEF OneEach
  <2>2. LoneSound(deed[c])' /\ OrderedSound(deed[c])'
    BY <1>4, NoDeedSound DEF LoneSound, OrderedSound
  <2>3. UNCHANGED <<atGitHub, disordered>>
    BY <1>2, <1>4 DEF atGitHub
  <2> QED
    BY <1>1, <1>3, <1>4, <1>7, <2>1, <2>2, <2>3, LoneWrites
<1> QED
  BY <1>4, <1>6, <1>7 DEF GitHubInv

LEMMA CheckHealthInv ==
    ASSUME GitHubInv, NEW p \in Planes, CheckHealth(p)
    PROVE  GitHubInv'
<1> DEFINE rows == {i \in Installations : link[i] # None /\ link[i].plane = p}
           good == \E i \in rows : rows = {i} /\ Works(i)
           v == IF good THEN "healthy" ELSE "failed"
<1>1. /\ plane[p] # None
      /\ plane' = [plane EXCEPT ![p].health = v, ![p].active = good]
      /\ UNCHANGED <<install, grant, hooks, link, deed, mixed, disordered>>
  BY DEF CheckHealth, atGitHub
<1>2. v \in Health /\ good \in BOOLEAN
  BY DEF Health
<1> HIDE DEF v, good
<1>3. /\ plane' \in [Planes -> ControlPlane \union {None}]
      /\ \A r \in Planes : /\ plane'[r] # None <=> plane[r] # None
                           /\ plane[r] # None => plane'[r].ws = plane[r].ws
  BY <1>1, <1>2, PlaneVerdict
<1>4. GitHubTypeOK'
  BY <1>1, <1>3, GitHubTypes DEF GitHubTypeOK
<1>5. \A d \in Calls : DeedSound(deed[d])'
  BY <1>1 DEF GitHubInv, DeedSound
<1>6. ASSUME ~mixed
      PROVE  LoneInv'
  <2>1. LoneInv
    BY <1>6 DEF GitHubInv
  <2>2. OneEach'
    BY <1>1, <1>3, <2>1 DEF LoneInv, OneEach
  <2>3. ASSUME NEW d \in Calls
        PROVE  LoneSound(deed[d])'
    <3>1. LoneSound(deed[d])
      BY <2>1 DEF LoneInv
    <3>2. PlanesOf(deed[d].ws)' = PlanesOf(deed[d].ws)
      BY <1>1, <1>3 DEF PlanesOf
    <3>3. deed[d].plane \in Planes \union {None}
      BY GitHubTypes DEF Deed
    <3>4. LinksOf(deed[d].ws)' = LinksOf(deed[d].ws)
      BY <1>1 DEF LinksOf
    <3> QED
      BY <1>1, <1>3, <3>1, <3>2, <3>3, <3>4 DEF LoneSound, Has
  <2>4. \A i \in Installations : RowSound(i)'
    BY <1>1, <2>1 DEF LoneInv, RowSound, Works, Pending, Has, InHand
  <2>5. ~disordered => /\ \A d \in Calls : OrderedSound(deed[d])'
                       /\ \A i \in Installations : OrderedRow(i)' /\ HooksInOrder(i)'
    BY <1>1, <2>1 DEF LoneInv, OrderedSound, OrderedRow, HooksInOrder, Pending, Has, InHand
  <2> QED
    BY <1>1, <2>1, <2>2, <2>3, <2>4, <2>5 DEF LoneInv
<1> QED
  BY <1>1, <1>4, <1>5, <1>6 DEF GitHubInv

LEMMA InstallAppInv ==
    ASSUME GitHubInv, NEW i \in Installations, InstallApp(i)
    PROVE  GitHubInv'
<1>1. /\ install[i] = "none" /\ install' = [install EXCEPT ![i] = "active"]
      /\ UNCHANGED <<grant, hooks, link, plane, deed, mixed, disordered>>
  BY DEF InstallApp
<1>2. /\ install' \in [Installations -> {"none", "active", "suspended", "removed"}]
      /\ install'[i] = "active" /\ \A j \in Installations \ {i} : install'[j] = install[j]
  BY <1>1, GitHubTypes
<1>3. GitHubTypeOK'
  BY <1>1, <1>2, GitHubTypes DEF GitHubTypeOK
<1>4. \A d \in Calls : DeedSound(deed[d])'
  BY <1>1 DEF GitHubInv, DeedSound
<1>5. ASSUME ~mixed
      PROVE  LoneInv'
  <2>1. LoneInv
    BY <1>5 DEF GitHubInv
  <2>2. OneEach'
    BY <1>1, <2>1 DEF LoneInv, OneEach
  <2>3. ASSUME NEW d \in Calls
        PROVE  /\ LoneSound(deed[d])'
               /\ ~disordered => OrderedSound(deed[d])'
    <3>1. LoneSound(deed[d]) /\ (~disordered => OrderedSound(deed[d])) /\ DeedSound(deed[d])
      BY <2>1 DEF GitHubInv, LoneInv
    <3>2. LoneSound(deed[d])'
      BY <1>1, <1>2, <3>1 DEF LoneSound, DeedSound, Has, LinksOf, PlanesOf
    <3>3. ~disordered => OrderedSound(deed[d])'
      BY <1>1, <1>2, <3>1 DEF OrderedSound, DeedSound, Has
    <3> QED
      BY <3>2, <3>3
  <2>4. ASSUME NEW j \in Installations
        PROVE  /\ RowSound(j)'
               /\ ~disordered => OrderedRow(j)' /\ HooksInOrder(j)'
    <3>1. RowSound(j)'
      BY <1>1, <1>2, <2>1 DEF LoneInv, RowSound, Works, Pending, Has, InHand
    <3>2. ~disordered => OrderedRow(j)' /\ HooksInOrder(j)'
      BY <1>1, <1>2, <2>1 DEF LoneInv, OrderedRow, HooksInOrder, Pending, Has, InHand
    <3> QED
      BY <3>1, <3>2
  <2> QED
    BY <1>1, <2>1, <2>2, <2>3, <2>4 DEF LoneInv
<1> QED
  BY <1>1, <1>3, <1>4, <1>5 DEF GitHubInv

\* GitHub suspends, unsuspends or removes an installation.
LEMMA AtGitHubInv ==
    ASSUME GitHubInv, NEW i \in Installations,
           SuspendApp(i) \/ UnsuspendApp(i) \/ RemoveApp(i)
    PROVE  GitHubInv'
<1>1. deed' = deed /\ deed' \in [Calls -> Deed]
  BY GitHubTypes DEF SuspendApp, UnsuspendApp, RemoveApp
<1>2. CASE SuspendApp(i)
  <2>1. "suspend" \in Hooks
    BY HookKinds
  <2> QED
    BY <1>1, <1>2, <2>1, GitHubSendsInv DEF SuspendApp
<1>3. CASE UnsuspendApp(i)
  <2>1. "unsuspend" \in Hooks
    BY HookKinds
  <2> QED
    BY <1>1, <1>3, <2>1, GitHubSendsInv DEF UnsuspendApp
<1>4. CASE RemoveApp(i)
  <2>1. "deleted" \in Hooks
    BY HookKinds
  <2> QED
    BY <1>1, <1>4, <2>1, GitHubSendsInv DEF RemoveApp
<1> QED
  BY <1>2, <1>3, <1>4

LEMMA GitHubStep ==
    ASSUME GitHubInv, [GitHubNext]_githubVars
    PROVE  GitHubInv'
<1>1. ASSUME NEW i \in Installations,
             InstallApp(i) \/ SuspendApp(i) \/ UnsuspendApp(i) \/ RemoveApp(i)
      PROVE  GitHubInv'
  BY <1>1, InstallAppInv, AtGitHubInv
<1>2. ASSUME NEW c \in Calls, AppStep(c)
      PROVE  GitHubInv'
  BY <1>2, AskCallbackInv, SwitchInstallationInv, FindPlaneInv, CreateIntegrationInv,
     InitialCheckInv, FetchTokenInv, StoreTokenInv, AskTokenInv, AskDisconnectInv,
     UninstallAppInv, DropRowInv, DeedFailsInv DEF AppStep
<1>3. ASSUME NEW c \in Calls, HookStep(c)
      PROVE  GitHubInv'
  BY <1>3, TakeHookInv, HookFailsInv, HandleSuspendInv, HandleUnsuspendInv,
     FindRemainingInv, HandleUninstallInv DEF HookStep
<1>4. ASSUME NEW p \in Planes, CheckHealth(p)
      PROVE  GitHubInv'
  BY <1>4, CheckHealthInv
<1>5. CASE UNCHANGED githubVars
  <2>1. UNCHANGED <<install, grant, hooks, link, plane, deed, mixed, disordered>>
    BY <1>5 DEF githubVars
  <2>2. GitHubTypeOK' /\ \A d \in Calls : DeedSound(deed[d])'
    BY <2>1 DEF GitHubInv, GitHubTypeOK, DeedSound
  <2>3. \A ops : \A i \in Installations : Has(i, ops)' = Has(i, ops)
                                         /\ InHand(i, ops)' = InHand(i, ops)
    BY <2>1 DEF Has, InHand
  <2>4. ASSUME ~mixed
        PROVE  LoneInv'
    <3>1. LoneInv
      BY <2>4 DEF GitHubInv
    <3>2. OneEach'
      BY <2>1, <3>1 DEF LoneInv, OneEach
    <3>3. \A c \in Calls : LoneSound(deed[c])'
      BY <2>1, <3>1 DEF LoneInv, LoneSound, Has, LinksOf, PlanesOf
    <3>4. \A i \in Installations : RowSound(i)'
      BY <2>1, <2>3, <3>1 DEF LoneInv, RowSound, Works, Pending
    <3>5. ~disordered => /\ \A c \in Calls : OrderedSound(deed[c])'
                         /\ \A i \in Installations : OrderedRow(i)' /\ HooksInOrder(i)'
      BY <2>1, <2>3, <3>1 DEF LoneInv, OrderedSound, OrderedRow, HooksInOrder, Pending, Has
    <3> QED
      BY <2>1, <3>1, <3>2, <3>3, <3>4, <3>5 DEF LoneInv
  <2> QED
    BY <2>1, <2>2, <2>4 DEF GitHubInv
<1> QED
  BY <1>1, <1>2, <1>3, <1>4, <1>5 DEF GitHubNext

LEMMA GitHubInitInv == GitHubInit => GitHubInv
<1> SUFFICES ASSUME GitHubInit
             PROVE  GitHubInv
  OBVIOUS
<1>1. MostGrants \in Nat
  BY GitHubAppAssumption
<1>2. GitHubTypeOK
  <2>1. 0 \in 0..MostGrants
    BY <1>1
  <2>2. <<>> \in Seq(Hooks)
    OBVIOUS
  <2> QED
    BY <2>1, <2>2, NoDeedSound DEF GitHubInit, GitHubTypeOK
<1>3. \A c \in Calls : deed[c].step = "idle"
  BY NoDeedSound DEF GitHubInit
<1>4. /\ \A c \in Calls : DeedSound(deed[c]) /\ LoneSound(deed[c]) /\ OrderedSound(deed[c])
  BY <1>3 DEF DeedSound, LoneSound, OrderedSound
<1>5. \A i \in Installations : link[i] = None /\ DOMAIN hooks[i] = {}
  BY DEF GitHubInit
<1>6. \A p \in Planes : plane[p] = None
  BY DEF GitHubInit
<1>7. LoneInv
  BY <1>3, <1>4, <1>5, <1>6 DEF LoneInv, OneEach, RowSound, OrderedRow, HooksInOrder
<1> QED
  BY <1>2, <1>4, <1>7 DEF GitHubInv

LEMMA GitHubInvariance == GitHubSpec => []GitHubInv
BY GitHubInitInv, GitHubStep, PTL DEF GitHubSpec

LEMMA InstalledAreSound == GitHubInv => InstallationsAreSound
<1> SUFFICES ASSUME GitHubInv
             PROVE  InstallationsAreSound
  OBVIOUS
<1>1. ASSUME NEW i \in Installations, hooks[i] = <<>>, NEW ops
      PROVE  ~Has(i, ops)
  BY <1>1 DEF Has
<1>2. ASSUME Served, NEW i \in Installations, NEW ops
      PROVE  ~InHand(i, ops)
  BY <1>2 DEF Served, InHand
<1>3. TokenWorks
  BY <1>1, <1>2 DEF TokenWorks, GitHubInv, LoneInv, RowSound, Pending
<1>4. InactiveHasNoToken
  <2>1. ASSUME ~mixed, ~disordered, Served, NEW i \in Installations,
               link[i] # None, ~link[i].active, link[i].token # None
        PROVE  \E n \in DOMAIN hooks[i] : hooks[i][n] \in {"unsuspend", "deleted"}
    <3>1. Pending(i, {"unsuspend", "deleted"})
      BY <2>1 DEF GitHubInv, LoneInv, OrderedRow
    <3> QED
      BY <1>2, <2>1, <3>1 DEF Pending, Has
  <2> QED
    BY <2>1 DEF InactiveHasNoToken
<1>5. OneInstallation
  <2>1. ASSUME ~mixed, NEW w \in Workspaces
        PROVE  Cardinality(LinksOf(w)) <= 1 /\ Cardinality(PlanesOf(w)) <= 1
    <3>1. ASSUME NEW S, \A x, y \in S : x = y
          PROVE  Cardinality(S) <= 1
      <4>1. CASE S = {}
        <5>1. Cardinality(S) = 0
          BY <4>1, FS_EmptySet
        <5> QED
          BY <5>1
      <4>2. CASE S # {}
        <5>1. PICK x \in S : TRUE
          BY <4>2
        <5>2. S = {x}
          BY <3>1, <5>1
        <5>3. Cardinality({x}) = 1
          BY FS_Singleton
        <5> QED
          BY <5>2, <5>3
      <4> QED
        BY <4>1, <4>2
    <3>2. OneEach
      BY <2>1 DEF GitHubInv, LoneInv
    <3>3. /\ \A x, y \in LinksOf(w) : x = y
          /\ \A x, y \in PlanesOf(w) : x = y
      BY <3>2 DEF OneEach, LinksOf, PlanesOf
    <3> QED
      BY <3>1, <3>3
  <2> QED
    BY <2>1 DEF OneInstallation
<1>6. RemovedIsForgotten
  <2>1. ASSUME ~mixed, NEW i \in Installations, link[i] # None, install[i] = "removed"
        PROVE  Pending(i, {"deleted"})
    BY <2>1 DEF GitHubInv, LoneInv, RowSound
  <2> QED
    BY <1>1, <1>2, <2>1 DEF RemovedIsForgotten, Pending
<1> QED
  BY <1>3, <1>4, <1>5, <1>6 DEF InstallationsAreSound

-----------------------------------------------------------------------------
(* SlackMasking: what the guard says.                                           *)

\* The question as the handler holds it.
IsAsked(q) ==
    q = [step |-> q.step, text |-> q.text, thread |-> q.thread, masked |-> q.masked,
         verdict |-> q.verdict, lost |-> q.lost]

Refused == {"false", "other", "raises", "off"}

JudgedInv ==
    /\ IsAsked(asking)
    /\ asking.step \in {"idle", "guard", "history", "queue", "queued", "done"}
    /\ asking.step = "guard" => (asking.masked = <<>> => asking.text = <<>>)
    /\ asking.step \in {"history", "queue", "queued"}
       => asking.verdict = "true" \/ asking.text = <<>>
    /\ asking.step \in {"idle", "guard", "history", "queue"} => ~HasJob
    /\ HasJob => asking.verdict = "true" \/ asking.text = <<>>
    /\ asking.verdict \in Refused => asking.lost \/ \E e \in recorded :
          e.verdict = asking.verdict /\ (e.type = "injection" <=> e.verdict = "false")

\* A masked message has the words of the message.
LEMMA MaskKeepsLength ==
    ASSUME NEW text \in Texts, NEW tokens, NEW found, Mask(tokens, text, found) = <<>>
    PROVE  text = <<>>
<1>1. PICK n \in 0..MostWords : text \in [1..n -> TypedWords]
  BY DEF Texts
<1>2. DOMAIN Mask(tokens, text, found) = DOMAIN text
  BY DEF Mask
<1>3. DOMAIN text = {}
  <2>1. DOMAIN <<>> = {}
    OBVIOUS
  <2> QED
    BY <1>2, <2>1
<1> QED
  BY <1>1, <1>3

\* It goes on to another step.
LEMMA AskingGoes ==
    ASSUME IsAsked(asking), NEW s
    PROVE  LET q == [asking EXCEPT !.step = s] IN
           /\ IsAsked(q) /\ q.step = s /\ q.text = asking.text /\ q.masked = asking.masked
           /\ q.verdict = asking.verdict /\ q.lost = asking.lost
BY DEF IsAsked

LEMMA JudgedStep ==
    ASSUME JudgedInv, [SlackMaskingNext]_maskVars
    PROVE  JudgedInv'
<1>1. CASE UNCHANGED maskVars
  BY <1>1 DEF maskVars, JudgedInv, IsAsked, HasJob
<1>2. CASE MaskQuestion
  <2>1. PICK text \in Texts, found \in SUBSET PersonalValues :
            LET m == Mask(MaskedBy(mapper, text, found), text, found) IN
            asking' = [asking EXCEPT !.step = "guard", !.text = text, !.masked = m]
    BY <1>2 DEF MaskQuestion
  <2> DEFINE m == Mask(MaskedBy(mapper, text, found), text, found)
  <2>2. m = <<>> => text = <<>>
    BY MaskKeepsLength
  <2>3. asking' = [asking EXCEPT !.step = "guard", !.text = text, !.masked = m]
    BY <2>1
  <2> HIDE DEF m
  <2>4. /\ IsAsked(asking)' /\ asking'.step = "guard" /\ asking'.text = text
        /\ asking'.masked = m /\ asking'.verdict = asking.verdict
        /\ asking'.lost = asking.lost
    BY <2>3 DEF JudgedInv, IsAsked
  <2>5. asking.step = "idle" /\ UNCHANGED <<slackJob, recorded>>
    BY <1>2 DEF MaskQuestion
  <2> QED
    BY <2>2, <2>4, <2>5 DEF JudgedInv, HasJob
<1>3. CASE MaskFails \/ HistoryFails
  <2>1. /\ asking.step \in {"idle", "history"}
        /\ asking' = [asking EXCEPT !.step = "done"] /\ UNCHANGED <<slackJob, recorded>>
    BY <1>3 DEF MaskFails, HistoryFails
  <2>2. /\ IsAsked(asking)' /\ asking'.step = "done" /\ asking'.text = asking.text
        /\ asking'.verdict = asking.verdict /\ asking'.lost = asking.lost
    BY <2>1, AskingGoes DEF JudgedInv
  <2> QED
    BY <2>1, <2>2 DEF JudgedInv, HasJob
<1>4. ASSUME asking.step = "guard", NEW type, NEW v \in Refused,
             type = "injection" <=> v = "false",
             StoreSecurityEvent(type, v), UNCHANGED slackJob
      PROVE  JudgedInv'
  <2> DEFINE e == [type |-> type, verdict |-> v]
  <2>1. /\ IsAsked(asking)' /\ asking'.step = "done" /\ asking'.verdict = v
        /\ asking'.lost = TRUE \/ recorded' = recorded \union {e}
    BY <1>4 DEF StoreSecurityEvent, JudgedInv, IsAsked
  <2>2. e.verdict = v /\ e.type = type
    OBVIOUS
  <2> HIDE DEF e
  <2>3. asking'.lost \/ \E x \in recorded' :
            x.verdict = v /\ (x.type = "injection" <=> x.verdict = "false")
    BY <1>4, <2>1, <2>2
  <2> QED
    BY <1>4, <2>1, <2>3 DEF JudgedInv, HasJob
<1>5. CASE GuardMessage
  <2>1. asking.step = "guard" /\ UNCHANGED slackJob
    BY <1>5 DEF GuardMessage
  <2>2. CASE /\ asking.masked = <<>>
             /\ asking' = [asking EXCEPT !.step = "history"]
             /\ UNCHANGED recorded
    <3>1. /\ IsAsked(asking)' /\ asking'.step = "history" /\ asking'.text = asking.text
          /\ asking'.verdict = asking.verdict /\ asking'.lost = asking.lost
      BY <2>2, AskingGoes DEF JudgedInv
    <3> QED
      BY <2>1, <2>2, <3>1 DEF JudgedInv, HasJob
  <2>3. CASE /\ asking' = [asking EXCEPT !.step = "history", !.verdict = "true"]
             /\ UNCHANGED recorded
    <3>1. IsAsked(asking)' /\ asking'.step = "history" /\ asking'.verdict = "true"
      BY <2>3 DEF JudgedInv, IsAsked
    <3> QED
      BY <2>1, <3>1 DEF JudgedInv, HasJob, Refused
  <2>4. CASE StoreSecurityEvent("injection", "false")
    BY <1>4, <2>1, <2>4 DEF Refused
  <2>5. ASSUME NEW v \in {"other", "raises", "off"}, StoreSecurityEvent("degraded", v)
        PROVE  JudgedInv'
    BY <1>4, <2>1, <2>5 DEF Refused
  <2> QED
    BY <1>5, <2>2, <2>3, <2>4, <2>5 DEF GuardMessage
<1>6. CASE FetchHistory
  <2>1. PICK thread \in Threads \union {<<>>} :
            asking' = [asking EXCEPT !.step = "queue", !.thread = thread]
    BY <1>6 DEF FetchHistory
  <2>2. /\ IsAsked(asking)' /\ asking'.step = "queue" /\ asking'.text = asking.text
        /\ asking'.verdict = asking.verdict /\ asking'.lost = asking.lost
    BY <2>1 DEF JudgedInv, IsAsked
  <2>3. asking.step = "history" /\ UNCHANGED <<slackJob, recorded>>
    BY <1>6 DEF FetchHistory
  <2> QED
    BY <2>2, <2>3 DEF JudgedInv, HasJob
<1>7. CASE MaskHistory \/ MaskHistoryFails
  <2>1. /\ asking.step = "queue"
        /\ asking' = [asking EXCEPT !.step = "queued"] /\ UNCHANGED recorded
    BY <1>7 DEF MaskHistory, MaskHistoryFails
  <2>2. /\ IsAsked(asking)' /\ asking'.step = "queued" /\ asking'.text = asking.text
        /\ asking'.verdict = asking.verdict /\ asking'.lost = asking.lost
    BY <2>1, AskingGoes DEF JudgedInv
  <2> QED
    BY <2>1, <2>2 DEF JudgedInv
<1>8. CASE AnswerQuestion
  <2>1. /\ asking.step = "queued"
        /\ asking' = [asking EXCEPT !.step = "done"] /\ UNCHANGED <<slackJob, recorded>>
    BY <1>8 DEF AnswerQuestion
  <2>2. /\ IsAsked(asking)' /\ asking'.step = "done" /\ asking'.text = asking.text
        /\ asking'.verdict = asking.verdict /\ asking'.lost = asking.lost
    BY <2>1, AskingGoes DEF JudgedInv
  <2> QED
    BY <2>1, <2>2 DEF JudgedInv, HasJob
<1> QED
  BY <1>1, <1>2, <1>3, <1>5, <1>6, <1>7, <1>8 DEF SlackMaskingNext

LEMMA JudgedInit == SlackMaskingInit => JudgedInv
BY DEF SlackMaskingInit, NotAsking, JudgedInv, IsAsked, HasJob, Refused

-----------------------------------------------------------------------------
(* SlackMasking: what the tokens are.  A message is masked word by word, and a  *)
(* thread message by message: what that does to the mapping is shown by         *)
(* induction on how many.                                                       *)

\* The tokens of a prefix.
Numbered(m, p) == {u \in DOMAIN m : u.of = p}

\* A mapping as a mapper makes it: the tokens of a prefix are numbered from one
\* without a gap, and a value has one.
IsMapping(m) ==
    /\ m = [u \in DOMAIN m |-> m[u]]
    /\ IsFiniteSet(DOMAIN m)
    /\ \A u \in DOMAIN m :
          /\ m[u] \in PersonalValues
          /\ u = Token(m[u].of, u.n)
          /\ u.n \in 1..Cardinality(Numbered(m, u.of))
    /\ \A p \in EntityPrefixes : \A k \in 1..Cardinality(Numbered(m, p)) :
          Token(p, k) \in DOMAIN m
    /\ \A t, u \in DOMAIN m : m[t] = m[u] => t = u

Keeps(r, m) == DOMAIN m \subseteq DOMAIN r /\ \A u \in DOMAIN m : r[u] = m[u]

\* r is m with tokens for some values, and no others.
Grows(m, r, values) ==
    /\ IsMapping(r) /\ Keeps(r, m)
    /\ values \subseteq Range(r) /\ Range(r) \subseteq Range(m) \union values

LEMMA NumberedIsFinite ==
    ASSUME NEW m, IsMapping(m), NEW p
    PROVE  IsFiniteSet(Numbered(m, p)) /\ Cardinality(Numbered(m, p)) \in Nat
<1>1. Numbered(m, p) \in SUBSET DOMAIN m
  BY DEF Numbered
<1>2. IsFiniteSet(Numbered(m, p))
  BY <1>1, FS_Subset DEF IsMapping
<1> QED
  BY <1>2, FS_CardinalityType

\* There are no more tokens of a prefix than there are personal values.
LEMMA MappingHasTokens ==
    ASSUME NEW m, IsMapping(m)
    PROVE  DOMAIN m \subseteq Tokens /\ Range(m) \subseteq PersonalValues
<1>1. ASSUME NEW u \in DOMAIN m PROVE u \in Tokens
  <2>1. PICK S : S = Numbered(m, u.of)
    OBVIOUS
  <2>2. PICK f : f = [t \in S |-> m[t]]
    OBVIOUS
  <2>3. f \in Injection(S, PersonalValues)
    BY <2>1, <2>2 DEF Injection, IsInjective, IsMapping, Numbered
  <2>4. Cardinality(S) <= Cardinality(PersonalValues)
    BY <2>3, FS_Injection, SlackMaskingAssumption
  <2>5. Cardinality(S) \in Nat /\ Cardinality(PersonalValues) \in Nat
    BY <2>1, NumberedIsFinite, FS_CardinalityType, SlackMaskingAssumption
  <2>6. u.n \in 1..Cardinality(S)
    BY <2>1 DEF IsMapping
  <2>7. u.n \in 1..Cardinality(PersonalValues)
    BY <2>4, <2>5, <2>6
  <2>8. m[u].of \in EntityPrefixes /\ u = Token(m[u].of, u.n)
    BY DEF IsMapping, EntityPrefixes
  <2> QED
    BY <2>7, <2>8 DEF Tokens
<1>2. Range(m) \subseteq PersonalValues
  BY DEF IsMapping, Range
<1> QED
  BY <1>1, <1>2

LEMMA EmptyMapping == IsMapping(<<>>) /\ Range(<<>>) = {}
<1>1. DOMAIN <<>> = {} /\ <<>> = [u \in {} |-> <<>>[u]]
  OBVIOUS
<1>2. \A p : Numbered(<<>>, p) = {}
  BY <1>1 DEF Numbered
<1>3. 1..Cardinality({}) = {}
  BY FS_EmptySet
<1> QED
  BY <1>1, <1>2, <1>3, FS_EmptySet DEF IsMapping, Range

\* A value keeps its token or gets the one after the last of its prefix.
LEMMA PlaceholderGrows ==
    ASSUME NEW m, IsMapping(m), NEW v \in PersonalValues
    PROVE  Grows(m, GetPlaceholder(m, v), {v})
<1>1. CASE \E u \in DOMAIN m : m[u] = v
  <2>1. GetPlaceholder(m, v) = m
    BY <1>1 DEF GetPlaceholder
  <2> QED
    BY <1>1, <2>1 DEF Grows, Keeps, Range
<1>2. CASE ~ \E u \in DOMAIN m : m[u] = v
  <2>1. PICK c : c = Cardinality(Numbered(m, v.of))
    OBVIOUS
  <2>2. c \in Nat /\ IsFiniteSet(Numbered(m, v.of))
    BY <2>1, NumberedIsFinite
  <2>3. PICK t : t = Token(v.of, 1 + c)
    OBVIOUS
  <2>4. t.of = v.of /\ t.n = 1 + c
    BY <2>3 DEF Token
  <2>5. t \notin DOMAIN m
    <3> SUFFICES ASSUME t \in DOMAIN m PROVE FALSE
      OBVIOUS
    <3>1. t.n \in 1..Cardinality(Numbered(m, t.of))
      BY DEF IsMapping
    <3> QED
      BY <2>1, <2>2, <2>4, <3>1
  <2>6. PICK r : r = [u \in DOMAIN m \union {t} |-> IF u = t THEN v ELSE m[u]]
    OBVIOUS
  <2>7. GetPlaceholder(m, v) = r
    BY <1>2, <2>1, <2>3, <2>6 DEF GetPlaceholder, Numbered
  <2>8. /\ DOMAIN r = DOMAIN m \union {t} /\ r[t] = v
        /\ \A u \in DOMAIN m : r[u] = m[u]
        /\ r = [u \in DOMAIN r |-> r[u]]
    BY <2>5, <2>6
  <2>9. Keeps(r, m) /\ {v} \subseteq Range(r) /\ Range(r) \subseteq Range(m) \union {v}
    BY <2>8 DEF Keeps, Range
  <2>10. Numbered(r, v.of) = Numbered(m, v.of) \union {t} /\ t \notin Numbered(m, v.of)
    BY <2>4, <2>5, <2>8 DEF Numbered
  <2>11. Cardinality(Numbered(r, v.of)) = c + 1
    BY <2>1, <2>2, <2>10, FS_AddElement
  <2>12. \A p : p # v.of => Numbered(r, p) = Numbered(m, p)
    BY <2>4, <2>8 DEF Numbered
  <2>13. IsFiniteSet(DOMAIN r)
    BY <2>8, FS_AddElement DEF IsMapping
  <2>14. ASSUME NEW u \in DOMAIN r
         PROVE  /\ r[u] \in PersonalValues /\ u = Token(r[u].of, u.n)
                /\ u.n \in 1..Cardinality(Numbered(r, u.of))
    <3>1. CASE u = t
      BY <2>2, <2>3, <2>4, <2>8, <2>11, <3>1
    <3>2. CASE u \in DOMAIN m
      <4>1. /\ m[u] \in PersonalValues /\ u = Token(m[u].of, u.n)
            /\ u.n \in 1..Cardinality(Numbered(m, u.of))
        BY <3>2 DEF IsMapping
      <4>2. u.n \in 1..Cardinality(Numbered(r, u.of))
        <5>1. CASE u.of = v.of
          BY <2>1, <2>2, <2>11, <4>1, <5>1
        <5>2. CASE u.of # v.of
          BY <2>12, <4>1, <5>2
        <5> QED
          BY <5>1, <5>2
      <4> QED
        BY <2>8, <3>2, <4>1, <4>2
    <3> QED
      BY <2>8, <3>1, <3>2
  <2>15. ASSUME NEW p \in EntityPrefixes, NEW k \in 1..Cardinality(Numbered(r, p))
         PROVE  Token(p, k) \in DOMAIN r
    <3>1. CASE p = v.of /\ k = c + 1
      BY <2>2, <2>3, <2>8, <3>1
    <3>2. CASE p = v.of /\ k # c + 1
      <4>1. k \in 1..Cardinality(Numbered(m, p))
        BY <2>1, <2>2, <2>11, <3>2
      <4> QED
        BY <2>8, <4>1 DEF IsMapping
    <3>3. CASE p # v.of
      <4>1. k \in 1..Cardinality(Numbered(m, p))
        BY <2>12, <3>3
      <4> QED
        BY <2>8, <4>1 DEF IsMapping
    <3> QED
      BY <3>1, <3>2, <3>3
  <2>16. ASSUME NEW a \in DOMAIN r, NEW b \in DOMAIN r, r[a] = r[b] PROVE a = b
    BY <1>2, <2>8, <2>16 DEF IsMapping
  <2>17. IsMapping(r)
    BY <2>8, <2>13, <2>14, <2>15, <2>16 DEF IsMapping
  <2> QED
    BY <2>7, <2>9, <2>17 DEF Grows
<1> QED
  BY <1>1, <1>2

LEMMA GrowsAgain ==
    ASSUME NEW m, NEW r, NEW s, NEW A, NEW B, Grows(m, r, A), Grows(r, s, B)
    PROVE  Grows(m, s, A \union B)
<1>1. Keeps(s, m)
  BY DEF Grows, Keeps
<1>2. Range(r) \subseteq Range(s)
  BY DEF Grows, Keeps, Range
<1> QED
  BY <1>1, <1>2 DEF Grows

LEMMA GrowsByNone ==
    ASSUME NEW m, IsMapping(m)
    PROVE  Grows(m, m, {})
BY DEF Grows, Keeps

LEMMA TextIsSequence ==
    ASSUME NEW text \in Texts
    PROVE  /\ Len(text) \in Nat /\ DOMAIN text = 1..Len(text)
           /\ \A i \in DOMAIN text : text[i] \in TypedWords
<1>1. PICK n \in 0..MostWords : text \in [1..n -> TypedWords]
  BY DEF Texts
<1>2. n \in Nat
  BY SlackMaskingAssumption
<1>3. Len(text) = n /\ DOMAIN text = 1..n
  BY <1>1, <1>2
<1> QED
  BY <1>1, <1>2, <1>3

\* Masking a message gives a token to every value the analyzer finds in it.
LEMMA MaskedByGrows ==
    ASSUME NEW m, IsMapping(m), NEW text \in Texts, NEW found \in SUBSET PersonalValues
    PROVE  Grows(m, MaskedBy(m, text, found), found \intersect Range(text))
<1> DEFINE n == Len(text)
           Word(k) == text[n + 1 - k]
           Next1(a, k) == IF Word(k) \in found THEN GetPlaceholder(a, Word(k)) ELSE a
           F(f) == [k \in 0..Len(text) |->
                       IF k = 0 THEN m
                       ELSE IF text[Len(text) + 1 - k] \in found
                            THEN GetPlaceholder(f[k - 1], text[Len(text) + 1 - k])
                            ELSE f[k - 1]]
           c == CHOOSE f : f = F(f)
           S == {j \in Nat : \E f : /\ DOMAIN f = 0..j /\ f[0] = m
                                    /\ \A k \in 1..j : f[k] = Next1(f[k - 1], k)}
<1>1. n \in Nat /\ DOMAIN text = 1..n
  BY TextIsSequence
<1>2. MaskedBy(m, text, found) = c[n]
  BY DEF MaskedBy
<1>3. 0 \in S
  <2>1. PICK f : f = [k \in {0} |-> m]
    OBVIOUS
  <2>2. DOMAIN f = 0..0 /\ f[0] = m /\ 1..0 = {}
    BY <2>1
  <2> HIDE DEF Next1
  <2> QED
    BY <2>2
<1>4. ASSUME NEW j \in S PROVE j + 1 \in S
  <2> HIDE DEF Next1
  <2>1. PICK f : /\ DOMAIN f = 0..j /\ f[0] = m
                 /\ \A k \in 1..j : f[k] = Next1(f[k - 1], k)
    OBVIOUS
  <2>2. PICK g : g = [k \in 0..(j + 1) |-> IF k = j + 1 THEN Next1(f[j], j + 1) ELSE f[k]]
    OBVIOUS
  <2>3. /\ DOMAIN g = 0..(j + 1) /\ \A k \in 0..j : g[k] = f[k]
        /\ g[j + 1] = Next1(f[j], j + 1)
    BY <2>2
  <2>4. \A k \in 1..j : k \in 0..j /\ k - 1 \in 0..j
    OBVIOUS
  <2>5. \A k \in 1..(j + 1) : k \in 1..j \/ k = j + 1
    OBVIOUS
  <2>6. j + 1 - 1 = j /\ j \in 0..j
    OBVIOUS
  <2>7. \A k \in 1..(j + 1) : g[k] = Next1(g[k - 1], k)
    <3>1. \A k \in 1..j : g[k] = Next1(g[k - 1], k)
      BY <2>1, <2>3, <2>4
    <3>2. g[j + 1] = Next1(g[j + 1 - 1], j + 1)
      BY <2>3, <2>6
    <3> QED
      BY <2>5, <3>1, <3>2
  <2>8. g[0] = m /\ j + 1 \in Nat
    BY <2>1, <2>3
  <2> QED
    BY <2>3, <2>7, <2>8
<1>5. n \in S
  <2> HIDE DEF S
  <2>1. S \in SUBSET Nat
    BY DEF S
  <2> QED
    BY <1>1, <1>3, <1>4, <2>1, EveryNumber
<1>6. PICK f : DOMAIN f = 0..n /\ f[0] = m /\ \A k \in 1..n : f[k] = Next1(f[k - 1], k)
  BY <1>5
<1>7. PICK g : g = [k \in 0..n |-> f[k]]
  OBVIOUS
<1>8. g = F(g)
  <2>1. \A k \in 0..n : k # 0 => k \in 1..n /\ k - 1 \in 0..n
    BY <1>1
  <2>2. \A k \in 0..n : k # 0 => g[k] = Next1(g[k - 1], k)
    BY <1>6, <1>7, <2>1
  <2>3. g[0] = m
    BY <1>1, <1>6, <1>7
  <2> QED
    BY <1>7, <2>2, <2>3
<1>9. c = F(c)
  <2> HIDE DEF F
  <2> QED
    BY <1>8
<1>10. c[0] = m /\ \A k \in 1..n : c[k] = Next1(c[k - 1], k)
  <2> HIDE DEF c
  <2> QED
    BY <1>1, <1>9
<1> HIDE DEF c, F
<1> DEFINE Words(k) == found \intersect {Word(j) : j \in 1..k}
           W == {k \in Nat : k <= n => Grows(m, c[k], Words(k))}
<1>11. 0 \in W
  <2>1. Words(0) = {}
    OBVIOUS
  <2> HIDE DEF Words
  <2> QED
    BY <1>10, <2>1, GrowsByNone
<1>12. ASSUME NEW k \in W PROVE k + 1 \in W
  <2> SUFFICES ASSUME k + 1 <= n PROVE Grows(m, c[k + 1], Words(k + 1))
    OBVIOUS
  <2>1. k \in Nat /\ Grows(m, c[k], Words(k))
    BY <1>1
  <2>2. c[k + 1] = Next1(c[k], k + 1)
    <3>1. k + 1 \in 1..n /\ k + 1 - 1 = k
      BY <1>1, <2>1
    <3> HIDE DEF Next1
    <3> QED
      BY <1>10, <3>1
  <2>3. PICK w : w = Word(k + 1)
    OBVIOUS
  <2>4. Words(k + 1) = Words(k) \union (found \intersect {w})
    <3>1. 1..(k + 1) = 1..k \union {k + 1}
      BY <2>1
    <3> QED
      BY <2>3, <3>1
  <2>5. c[k + 1] = IF w \in found THEN GetPlaceholder(c[k], w) ELSE c[k]
    BY <2>2, <2>3
  <2> HIDE DEF Words, Next1
  <2>6. CASE w \in found
    <3>1. Grows(c[k], c[k + 1], {w})
      BY <2>1, <2>5, <2>6, PlaceholderGrows DEF Grows
    <3>2. found \intersect {w} = {w}
      BY <2>6
    <3> QED
      BY <2>1, <2>4, <3>1, <3>2, GrowsAgain
  <2>7. CASE w \notin found
    <3>1. found \intersect {w} = {}
      BY <2>7
    <3>2. Words(k + 1) = Words(k)
      BY <2>4, <3>1
    <3> QED
      BY <2>1, <2>5, <2>7, <3>2
  <2> QED
    BY <2>6, <2>7
<1>13. n \in W
  <2> HIDE DEF W
  <2>1. W \in SUBSET Nat
    BY DEF W
  <2> QED
    BY <1>1, <1>11, <1>12, <2>1, EveryNumber
<1>14. Words(n) = found \intersect Range(text)
  <2>1. \A i \in 1..n : n + 1 - i \in 1..n /\ n + 1 - (n + 1 - i) = i
    BY <1>1
  <2>2. {Word(j) : j \in 1..n} = {text[i] : i \in 1..n}
    BY <2>1
  <2> QED
    BY <1>1, <2>2 DEF Range
<1>15. Grows(m, c[n], Words(n))
  BY <1>1, <1>13
<1> HIDE DEF Words, n
<1> QED
  BY <1>2, <1>14, <1>15

LEMMA ThreadIsSequence ==
    ASSUME NEW thread \in Threads \union {<<>>}
    PROVE  /\ Len(thread) \in Nat /\ DOMAIN thread = 1..Len(thread)
           /\ \A i \in DOMAIN thread : thread[i] \in Texts
<1>1. CASE thread = <<>>
  BY <1>1
<1>2. CASE thread \in Threads
  <2>1. PICK n \in 1..MostMessages : thread \in [1..n -> Texts]
    BY <1>2 DEF Threads
  <2>2. n \in Nat
    BY SlackMaskingAssumption
  <2> QED
    BY <2>1, <2>2
<1> QED
  BY <1>1, <1>2

\* The words of some messages.
WordsOf(texts) == UNION {Range(texts[i]) : i \in DOMAIN texts}

\* And masking messages one after the other, to every value it finds in them.
LEMMA MaskedByAllGrows ==
    ASSUME NEW m, IsMapping(m), NEW texts, NEW found \in SUBSET PersonalValues,
           Len(texts) \in Nat, DOMAIN texts = 1..Len(texts),
           \A i \in DOMAIN texts : texts[i] \in Texts
    PROVE  Grows(m, MaskedByAll(m, texts, found), found \intersect WordsOf(texts))
<1> DEFINE n == Len(texts)
           Next1(a, k) == MaskedBy(a, texts[k], found)
           F(f) == [k \in 0..Len(texts) |->
                       IF k = 0 THEN m ELSE MaskedBy(f[k - 1], texts[k], found)]
           c == CHOOSE f : f = F(f)
           S == {j \in Nat : \E f : /\ DOMAIN f = 0..j /\ f[0] = m
                                    /\ \A k \in 1..j : f[k] = Next1(f[k - 1], k)}
<1>1. n \in Nat /\ DOMAIN texts = 1..n
  OBVIOUS
<1>2. MaskedByAll(m, texts, found) = c[n]
  BY DEF MaskedByAll
<1>3. 0 \in S
  <2>1. PICK f : f = [k \in {0} |-> m]
    OBVIOUS
  <2>2. DOMAIN f = 0..0 /\ f[0] = m /\ 1..0 = {}
    BY <2>1
  <2> HIDE DEF Next1
  <2> QED
    BY <2>2
<1>4. ASSUME NEW j \in S PROVE j + 1 \in S
  <2> HIDE DEF Next1
  <2>1. PICK f : /\ DOMAIN f = 0..j /\ f[0] = m
                 /\ \A k \in 1..j : f[k] = Next1(f[k - 1], k)
    OBVIOUS
  <2>2. PICK g : g = [k \in 0..(j + 1) |-> IF k = j + 1 THEN Next1(f[j], j + 1) ELSE f[k]]
    OBVIOUS
  <2>3. /\ DOMAIN g = 0..(j + 1) /\ \A k \in 0..j : g[k] = f[k]
        /\ g[j + 1] = Next1(f[j], j + 1)
    BY <2>2
  <2>4. \A k \in 1..j : k \in 0..j /\ k - 1 \in 0..j
    OBVIOUS
  <2>5. \A k \in 1..(j + 1) : k \in 1..j \/ k = j + 1
    OBVIOUS
  <2>6. j + 1 - 1 = j /\ j \in 0..j
    OBVIOUS
  <2>7. \A k \in 1..(j + 1) : g[k] = Next1(g[k - 1], k)
    <3>1. \A k \in 1..j : g[k] = Next1(g[k - 1], k)
      BY <2>1, <2>3, <2>4
    <3>2. g[j + 1] = Next1(g[j + 1 - 1], j + 1)
      BY <2>3, <2>6
    <3> QED
      BY <2>5, <3>1, <3>2
  <2>8. g[0] = m /\ j + 1 \in Nat
    BY <2>1, <2>3
  <2> QED
    BY <2>3, <2>7, <2>8
<1>5. n \in S
  <2> HIDE DEF S
  <2>1. S \in SUBSET Nat
    BY DEF S
  <2> QED
    BY <1>1, <1>3, <1>4, <2>1, EveryNumber
<1>6. PICK f : DOMAIN f = 0..n /\ f[0] = m /\ \A k \in 1..n : f[k] = Next1(f[k - 1], k)
  BY <1>5
<1>7. PICK g : g = [k \in 0..n |-> f[k]]
  OBVIOUS
<1>8. g = F(g)
  <2>1. \A k \in 0..n : k # 0 => k \in 1..n /\ k - 1 \in 0..n
    BY <1>1
  <2>2. \A k \in 0..n : k # 0 => g[k] = Next1(g[k - 1], k)
    BY <1>6, <1>7, <2>1
  <2>3. g[0] = m
    BY <1>1, <1>6, <1>7
  <2> QED
    BY <1>7, <2>2, <2>3
<1>9. c = F(c)
  <2> HIDE DEF F
  <2> QED
    BY <1>8
<1>10. c[0] = m /\ \A k \in 1..n : c[k] = Next1(c[k - 1], k)
  <2> HIDE DEF c
  <2> QED
    BY <1>1, <1>9
<1> HIDE DEF c, F
<1> DEFINE Words(k) == found \intersect UNION {Range(texts[j]) : j \in 1..k}
           W == {k \in Nat : k <= n => Grows(m, c[k], Words(k))}
<1>11. 0 \in W
  <2>1. Words(0) = {}
    OBVIOUS
  <2> HIDE DEF Words
  <2> QED
    BY <1>10, <2>1, GrowsByNone
<1>12. ASSUME NEW k \in W PROVE k + 1 \in W
  <2> SUFFICES ASSUME k + 1 <= n PROVE Grows(m, c[k + 1], Words(k + 1))
    OBVIOUS
  <2>1. k \in Nat /\ Grows(m, c[k], Words(k))
    BY <1>1
  <2>2. k + 1 \in 1..n /\ k + 1 - 1 = k
    BY <1>1, <2>1
  <2>3. c[k + 1] = MaskedBy(c[k], texts[k + 1], found)
    BY <1>10, <2>2
  <2>4. Words(k + 1) = Words(k) \union (found \intersect Range(texts[k + 1]))
    <3>1. 1..(k + 1) = 1..k \union {k + 1}
      BY <2>1
    <3> QED
      BY <3>1
  <2>5. texts[k + 1] \in Texts
    BY <1>1, <2>2
  <2> HIDE DEF Words, Next1
  <2>6. Grows(c[k], c[k + 1], found \intersect Range(texts[k + 1]))
    BY <2>1, <2>3, <2>5, MaskedByGrows DEF Grows
  <2> QED
    BY <2>1, <2>4, <2>6, GrowsAgain
<1>13. n \in W
  <2> HIDE DEF W
  <2>1. W \in SUBSET Nat
    BY DEF W
  <2> QED
    BY <1>1, <1>11, <1>12, <2>1, EveryNumber
<1>14. Words(n) = found \intersect WordsOf(texts)
  BY <1>1 DEF WordsOf
<1>15. Grows(m, c[n], Words(n))
  BY <1>1, <1>13
<1> HIDE DEF Words, n
<1> QED
  BY <1>2, <1>14, <1>15

\* A message is masked: its words, but for secrets and for values with a token.
IsMasked(m, text, masked) ==
    /\ DOMAIN masked = DOMAIN text
    /\ \A i \in DOMAIN text :
          \/ masked[i] \in DOMAIN m /\ m[masked[i]] = text[i] /\ text[i] \in PersonalValues
          \/ masked[i] = MaskSecrets(text)[i]

LEMMA MaskMasks ==
    ASSUME NEW m, NEW text \in Texts, NEW found \in SUBSET PersonalValues,
           found \intersect Range(text) \subseteq Range(m)
    PROVE  IsMasked(m, text, Mask(m, text, found))
<1> DEFINE masked == Mask(m, text, found)
<1>1. DOMAIN masked = DOMAIN text
  BY DEF Mask
<1>2. ASSUME NEW i \in DOMAIN text, text[i] \in found
      PROVE  masked[i] \in DOMAIN m /\ m[masked[i]] = text[i] /\ text[i] \in PersonalValues
  <2>1. \E t \in DOMAIN m : m[t] = text[i]
    BY <1>2 DEF Range
  <2>2. masked[i] = CHOOSE t \in DOMAIN m : m[t] = text[i]
    BY <1>2 DEF Mask
  <2> QED
    BY <1>2, <2>1, <2>2
<1>3. ASSUME NEW i \in DOMAIN text, text[i] \notin found
      PROVE  masked[i] = MaskSecrets(text)[i]
  BY <1>3 DEF Mask
<1> QED
  BY <1>1, <1>2, <1>3 DEF IsMasked

LEMMA MaskedStays ==
    ASSUME NEW m, NEW r, NEW text, NEW masked, IsMasked(m, text, masked), Keeps(r, m)
    PROVE  IsMasked(r, text, masked)
BY DEF IsMasked, Keeps

\* With the mapping it comes back, unless somebody typed a token.
LEMMA MaskedComesBack ==
    ASSUME NEW m, IsMapping(m), NEW text \in Texts, NEW masked, IsMasked(m, text, masked),
           Range(text) \intersect Tokens = {}
    PROVE  Unmask(m, masked) = MaskSecrets(text)
<1>1. DOMAIN m \subseteq Tokens
  BY MappingHasTokens
<1>2. ASSUME NEW i \in DOMAIN text PROVE Unmask(m, masked)[i] = MaskSecrets(text)[i]
  <2>1. Unmask(m, masked)[i] = IF masked[i] \in DOMAIN m THEN m[masked[i]] ELSE masked[i]
    BY DEF Unmask, IsMasked
  <2>2. CASE masked[i] \in DOMAIN m /\ m[masked[i]] = text[i] /\ text[i] \in PersonalValues
    <3>1. text[i] # Secret
      BY <2>2, SlackMaskingAssumption DEF Secret
    <3>2. MaskSecrets(text)[i] = text[i]
      BY <3>1 DEF MaskSecrets
    <3> QED
      BY <2>1, <2>2, <3>2
  <2>3. CASE masked[i] = MaskSecrets(text)[i]
    <3>1. masked[i] = Redacted \/ masked[i] = text[i]
      BY <2>3 DEF MaskSecrets
    <3>2. Redacted \notin Tokens
      <4>1. \A p, n : Redacted # Token(p, n)
        <5> SUFFICES ASSUME NEW p, NEW n, Redacted = Token(p, n) PROVE FALSE
          OBVIOUS
        <5>1. Redacted.kind = "redacted" /\ Token(p, n).kind = "token"
          BY DEF Redacted, Token
        <5> QED
          BY <5>1
      <4> QED
        BY <4>1 DEF Tokens
    <3>3. text[i] \notin Tokens
      BY DEF Range
    <3>4. masked[i] \notin DOMAIN m
      BY <1>1, <3>1, <3>2, <3>3
    <3> QED
      BY <2>1, <2>3, <3>4
  <2> QED
    BY <2>2, <2>3 DEF IsMasked
<1>3. /\ Unmask(m, masked) = [i \in DOMAIN text |-> Unmask(m, masked)[i]]
      /\ MaskSecrets(text) = [i \in DOMAIN text |-> MaskSecrets(text)[i]]
  BY DEF Unmask, MaskSecrets, IsMasked
<1> QED
  BY <1>2, <1>3

\* And it comes back without a personal value that was not written.
LEMMA ComesBackAsWritten ==
    ASSUME NEW m, NEW text, NEW masked, IsMasked(m, text, masked)
    PROVE  Range(Unmask(m, masked)) \intersect PersonalValues \subseteq Range(m) \union Range(text)
<1> SUFFICES ASSUME NEW i \in DOMAIN masked, Unmask(m, masked)[i] \in PersonalValues
             PROVE  Unmask(m, masked)[i] \in Range(m) \union Range(text)
  BY DEF Unmask, Range
<1>1. Unmask(m, masked)[i] = IF masked[i] \in DOMAIN m THEN m[masked[i]] ELSE masked[i]
  BY DEF Unmask
<1>2. CASE masked[i] \in DOMAIN m
  BY <1>1, <1>2 DEF Range
<1>3. CASE masked[i] \notin DOMAIN m
  <2>1. i \in DOMAIN text /\ masked[i] = MaskSecrets(text)[i]
    BY <1>3 DEF IsMasked
  <2>2. Redacted \notin PersonalValues
    BY SlackMaskingAssumption DEF Redacted
  <2>3. masked[i] = text[i]
    BY <1>1, <1>3, <2>1, <2>2 DEF MaskSecrets
  <2> QED
    BY <1>1, <1>3, <2>1, <2>3 DEF Range
<1> QED
  BY <1>2, <1>3

Written == Range(asking.text) \union WordsOf(asking.thread)

\* What the job carries is masked by its own mapping, which has written values only.
JobIsMasked(job) ==
    /\ IsMapping(job.mapping) /\ Range(job.mapping) \subseteq Written
    /\ DOMAIN job.mapping \subseteq DOMAIN mapper
    /\ IsMasked(job.mapping, asking.text, job.query)
    /\ DOMAIN job.history \subseteq DOMAIN asking.thread
    /\ \A i \in DOMAIN job.history :
          IsMasked(job.mapping, asking.thread[i], job.history[i])

NotQueued == {"idle", "guard", "history", "queue"}
Verdicts == {"unasked", "true", "false", "other", "raises", "off"}

MaskingInv ==
    /\ IsAsked(asking)
    /\ asking.step \in NotQueued \union {"queued", "done"}
    /\ asking.verdict \in Verdicts /\ asking.lost \in BOOLEAN /\ recorded \subseteq SecurityEvents
    /\ asking.text \in Texts /\ asking.thread \in Threads \union {<<>>}
    /\ asking.step \in {"idle", "guard", "history"} => asking.thread = <<>>
    /\ asking.step = "idle" => asking.text = <<>>
    /\ IsMapping(mapper) /\ Range(mapper) \subseteq Written
    /\ asking.step \in {"guard", "history", "queue"}
       => IsMasked(mapper, asking.text, asking.masked)
    /\ asking.step \in NotQueued => slackJob = NoJob
    /\ asking.step = "queued" \/ slackJob # NoJob => JobIsMasked(slackJob)
    /\ Range(shown) \intersect PersonalValues \subseteq Written

LEMMA MaskingInitially == SlackMaskingInit => MaskingInv
<1> SUFFICES ASSUME SlackMaskingInit PROVE MaskingInv
  OBVIOUS
<1>1. <<>> \in Texts
  <2>1. 0 \in 0..MostWords /\ <<>> \in [1..0 -> TypedWords]
    BY SlackMaskingAssumption
  <2> QED
    BY <2>1 DEF Texts
<1>2. Range(<<>>) = {}
  BY DEF Range
<1> QED
  BY <1>1, <1>2, EmptyMapping
     DEF SlackMaskingInit, NotAsking, MaskingInv, IsAsked, NotQueued, Verdicts

\* The words stay what they are, or a thread is added to them.
LEMMA WordsStay ==
    ASSUME asking'.text = asking.text,
           asking'.thread = asking.thread \/ asking.thread = <<>>
    PROVE  Written \subseteq Written'
<1>1. WordsOf(<<>>) = {}
  BY DEF WordsOf
<1> QED
  BY <1>1 DEF Written

LEMMA MaskQuestionInv == MaskingInv /\ MaskQuestion => MaskingInv'
<1> SUFFICES ASSUME MaskingInv, MaskQuestion PROVE MaskingInv'
  OBVIOUS
<1>1. PICK text \in Texts, found \in SUBSET PersonalValues :
          /\ mapper' = MaskedBy(mapper, text, found)
          /\ asking' = [asking EXCEPT !.step = "guard", !.text = text,
                        !.masked = Mask(MaskedBy(mapper, text, found), text, found)]
  BY DEF MaskQuestion
<1>2. asking.step = "idle" /\ UNCHANGED <<slackJob, recorded, shown>>
  BY DEF MaskQuestion
<1>3. Grows(mapper, mapper', found \intersect Range(text))
  BY <1>1, MaskedByGrows DEF MaskingInv
<1>4. IsMasked(mapper', text, Mask(mapper', text, found))
  BY <1>3, MaskMasks DEF Grows
<1>5. /\ IsAsked(asking') /\ asking'.step = "guard" /\ asking'.text = text
      /\ asking'.masked = Mask(mapper', text, found) /\ asking'.thread = asking.thread
      /\ asking'.verdict = asking.verdict /\ asking'.lost = asking.lost
  <2>1. PICK masked : masked = Mask(MaskedBy(mapper, text, found), text, found)
    OBVIOUS
  <2>2. asking' = [asking EXCEPT !.step = "guard", !.text = text, !.masked = masked]
    BY <1>1, <2>1
  <2> QED
    BY <1>1, <2>1, <2>2 DEF MaskingInv, IsAsked
<1>6. Written = {}
  BY <1>2 DEF MaskingInv, Written, WordsOf, Range
<1>7. Range(text) \subseteq Written'
  BY <1>5 DEF Written
<1>8. IsMapping(mapper') /\ Range(mapper') \subseteq Written'
  BY <1>3, <1>6, <1>7 DEF Grows, MaskingInv
<1>9. Range(shown') \intersect PersonalValues \subseteq Written'
  BY <1>2, <1>6 DEF MaskingInv
<1> QED
  BY <1>2, <1>4, <1>5, <1>8, <1>9 DEF MaskingInv, NotQueued

LEMMA MaskingEndsInv ==
    ASSUME MaskingInv, asking.step \in NotQueued, NEW s \in {"history", "done"},
           s = "history" => asking.step = "guard",
           IsAsked(asking'), asking'.step = s, asking'.text = asking.text,
           asking'.thread = asking.thread, asking'.masked = asking.masked,
           asking'.verdict \in Verdicts, asking'.lost \in BOOLEAN,
           recorded' \subseteq SecurityEvents, UNCHANGED <<mapper, slackJob, shown>>
    PROVE  MaskingInv'
<1>1. Written' = Written
  BY DEF Written
<1> QED
  BY <1>1 DEF MaskingInv, NotQueued

LEMMA GuardMessageInv == MaskingInv /\ GuardMessage => MaskingInv'
<1> SUFFICES ASSUME MaskingInv, GuardMessage PROVE MaskingInv'
  OBVIOUS
<1>1. asking.step = "guard" /\ UNCHANGED <<mapper, slackJob, shown>>
  BY DEF GuardMessage
<1>2. CASE /\ asking' = [asking EXCEPT !.step = "history"]
           /\ UNCHANGED recorded
  <2>1. /\ IsAsked(asking') /\ asking'.step = "history" /\ asking'.text = asking.text
        /\ asking'.thread = asking.thread /\ asking'.masked = asking.masked
        /\ asking'.verdict = asking.verdict /\ asking'.lost = asking.lost
    BY <1>2 DEF MaskingInv, IsAsked
  <2> QED
    BY <1>1, <1>2, <2>1, MaskingEndsInv DEF MaskingInv, NotQueued
<1>3. CASE /\ asking' = [asking EXCEPT !.step = "history", !.verdict = "true"]
           /\ UNCHANGED recorded
  <2>1. /\ IsAsked(asking') /\ asking'.step = "history" /\ asking'.text = asking.text
        /\ asking'.thread = asking.thread /\ asking'.masked = asking.masked
        /\ asking'.verdict = "true" /\ asking'.lost = asking.lost
    BY <1>3 DEF MaskingInv, IsAsked
  <2> QED
    BY <1>1, <1>3, <2>1, MaskingEndsInv DEF MaskingInv, NotQueued, Verdicts
<1>4. ASSUME NEW type \in {"injection", "degraded"},
             NEW v \in {"false", "other", "raises", "off"}, StoreSecurityEvent(type, v)
      PROVE  MaskingInv'
  <2>1. [type |-> type, verdict |-> v] \in SecurityEvents
    BY DEF SecurityEvents
  <2>2. recorded' \subseteq SecurityEvents
    BY <1>4, <2>1 DEF StoreSecurityEvent, MaskingInv
  <2>3. /\ IsAsked(asking') /\ asking'.step = "done" /\ asking'.text = asking.text
        /\ asking'.thread = asking.thread /\ asking'.masked = asking.masked
        /\ asking'.verdict = v /\ asking'.lost \in {TRUE, asking.lost}
    BY <1>4 DEF StoreSecurityEvent, MaskingInv, IsAsked
  <2>4. asking'.lost \in BOOLEAN /\ asking'.verdict \in Verdicts
    BY <2>3 DEF MaskingInv, Verdicts
  <2> QED
    BY <1>1, <2>2, <2>3, <2>4, MaskingEndsInv DEF NotQueued
<1> QED
  BY <1>2, <1>3, <1>4 DEF GuardMessage

LEMMA FetchHistoryInv == MaskingInv /\ FetchHistory => MaskingInv'
<1> SUFFICES ASSUME MaskingInv, FetchHistory PROVE MaskingInv'
  OBVIOUS
<1>1. PICK thread \in Threads \union {<<>>} :
          asking' = [asking EXCEPT !.step = "queue", !.thread = thread]
  BY DEF FetchHistory
<1>2. asking.step = "history" /\ UNCHANGED <<mapper, slackJob, recorded, shown>>
  BY DEF FetchHistory
<1>3. /\ IsAsked(asking') /\ asking'.step = "queue" /\ asking'.text = asking.text
      /\ asking'.thread = thread /\ asking'.masked = asking.masked
      /\ asking'.verdict = asking.verdict /\ asking'.lost = asking.lost
  BY <1>1 DEF MaskingInv, IsAsked
<1>4. Written \subseteq Written'
  BY <1>2, <1>3, WordsStay DEF MaskingInv
<1> QED
  BY <1>2, <1>3, <1>4 DEF MaskingInv, NotQueued

\* A question is queued with a job that its mapping masks.
LEMMA QueuesInv ==
    ASSUME MaskingInv, asking.step = "queue", NEW words, words \subseteq WordsOf(asking.thread),
           asking' = [asking EXCEPT !.step = "queued"],
           Grows(mapper, mapper', words), JobIsMasked(slackJob)',
           UNCHANGED <<recorded, shown>>
    PROVE  MaskingInv'
<1>1. /\ IsAsked(asking') /\ asking'.step = "queued" /\ asking'.text = asking.text
      /\ asking'.thread = asking.thread
      /\ asking'.verdict = asking.verdict /\ asking'.lost = asking.lost
  BY DEF MaskingInv, IsAsked
<1>2. Written' = Written
  BY <1>1 DEF Written
<1>3. IsMapping(mapper') /\ Range(mapper') \subseteq Written'
  BY <1>2 DEF Grows, MaskingInv, Written
<1> QED
  BY <1>1, <1>2, <1>3 DEF MaskingInv, NotQueued

LEMMA MaskHistoryInv == MaskingInv /\ MaskHistory => MaskingInv'
<1> SUFFICES ASSUME MaskingInv, MaskHistory PROVE MaskingInv'
  OBVIOUS
<1>1. PICK found \in SUBSET PersonalValues :
          LET tokens == MaskedByAll(mapper, asking.thread, found) IN
          /\ mapper' = tokens
          /\ slackJob' = [query |-> asking.masked, mapping |-> tokens,
                 history |-> [i \in DOMAIN asking.thread |->
                                 Mask(tokens, asking.thread[i], found)]]
  BY DEF MaskHistory
<1>2. /\ asking.step = "queue" /\ asking' = [asking EXCEPT !.step = "queued"]
      /\ UNCHANGED <<recorded, shown>>
  BY DEF MaskHistory
<1>3. /\ mapper' = MaskedByAll(mapper, asking.thread, found)
      /\ slackJob'.query = asking.masked /\ slackJob'.mapping = mapper'
      /\ slackJob'.history = [i \in DOMAIN asking.thread |->
                                 Mask(mapper', asking.thread[i], found)]
  BY <1>1
<1>4. /\ Len(asking.thread) \in Nat /\ DOMAIN asking.thread = 1..Len(asking.thread)
      /\ \A i \in DOMAIN asking.thread : asking.thread[i] \in Texts
  BY ThreadIsSequence DEF MaskingInv
<1>5. Grows(mapper, mapper', found \intersect WordsOf(asking.thread))
  BY <1>3, <1>4, MaskedByAllGrows DEF MaskingInv
<1>6. asking'.text = asking.text /\ asking'.thread = asking.thread
  BY <1>2 DEF MaskingInv, IsAsked
<1>7. IsMasked(mapper', asking.text, asking.masked)
  BY <1>2, <1>5, MaskedStays DEF Grows, MaskingInv
<1>8. ASSUME NEW i \in DOMAIN asking.thread
      PROVE  IsMasked(mapper', asking.thread[i], slackJob'.history[i])
  <2>1. Range(asking.thread[i]) \subseteq WordsOf(asking.thread)
    BY DEF WordsOf
  <2>2. found \intersect Range(asking.thread[i]) \subseteq Range(mapper')
    BY <1>5, <2>1 DEF Grows
  <2>3. slackJob'.history[i] = Mask(mapper', asking.thread[i], found)
    BY <1>3
  <2> QED
    BY <1>4, <2>2, <2>3, MaskMasks
<1>9. Range(mapper') \subseteq Written'
  BY <1>5, <1>6 DEF Grows, MaskingInv, Written
<1>10. DOMAIN slackJob'.history = DOMAIN asking.thread
  BY <1>3
<1>11. JobIsMasked(slackJob)'
  BY <1>3, <1>5, <1>6, <1>7, <1>8, <1>9, <1>10 DEF JobIsMasked, Grows
<1> QED
  BY <1>2, <1>5, <1>11, QueuesInv

LEMMA MaskHistoryFailsInv == MaskingInv /\ MaskHistoryFails => MaskingInv'
<1> SUFFICES ASSUME MaskingInv, MaskHistoryFails PROVE MaskingInv'
  OBVIOUS
<1>1. PICK k \in DOMAIN asking.thread :
          mapper' = MaskedByAll(mapper, SubSeq(asking.thread, 1, k - 1), PersonalValues)
  BY DEF MaskHistoryFails
<1>2. /\ asking.step = "queue" /\ asking' = [asking EXCEPT !.step = "queued"]
      /\ slackJob' = [query |-> asking.masked, history |-> <<>>, mapping |-> mapper]
      /\ UNCHANGED <<recorded, shown>>
  BY DEF MaskHistoryFails
<1>3. /\ Len(asking.thread) \in Nat /\ DOMAIN asking.thread = 1..Len(asking.thread)
      /\ \A i \in DOMAIN asking.thread : asking.thread[i] \in Texts
  BY ThreadIsSequence DEF MaskingInv
<1>4. PICK before : before = SubSeq(asking.thread, 1, k - 1)
  OBVIOUS
<1>5. /\ Len(before) \in Nat /\ DOMAIN before = 1..Len(before)
      /\ \A i \in DOMAIN before : i \in DOMAIN asking.thread /\ before[i] = asking.thread[i]
  BY <1>3, <1>4
<1>6. WordsOf(before) \subseteq WordsOf(asking.thread)
  BY <1>5 DEF WordsOf
<1>7. Grows(mapper, mapper', PersonalValues \intersect WordsOf(before))
  BY <1>1, <1>3, <1>4, <1>5, MaskedByAllGrows DEF MaskingInv
<1>8. asking'.text = asking.text /\ asking'.thread = asking.thread
  BY <1>2 DEF MaskingInv, IsAsked
<1>9. /\ slackJob'.query = asking.masked /\ slackJob'.mapping = mapper
      /\ DOMAIN slackJob'.history = {}
  BY <1>2
<1>10. Written' = Written
  BY <1>8 DEF Written
<1>11. JobIsMasked(slackJob)'
  BY <1>2, <1>7, <1>8, <1>9, <1>10 DEF JobIsMasked, Grows, Keeps, MaskingInv
<1> QED
  BY <1>2, <1>6, <1>7, <1>11, QueuesInv

LEMMA AnswerQuestionInv == MaskingInv /\ AnswerQuestion => MaskingInv'
<1> SUFFICES ASSUME MaskingInv, AnswerQuestion PROVE MaskingInv'
  OBVIOUS
<1>1. PICK text \in {slackJob.query} \union Range(slackJob.history)
                     \union {<<t>> : t \in Tokens} :
          shown' = Unmask(slackJob.mapping, text)
  BY DEF AnswerQuestion
<1>2. /\ asking.step = "queued" /\ asking' = [asking EXCEPT !.step = "done"]
      /\ UNCHANGED <<mapper, slackJob, recorded>>
  BY DEF AnswerQuestion
<1>3. /\ IsAsked(asking') /\ asking'.step = "done" /\ asking'.text = asking.text
      /\ asking'.thread = asking.thread
      /\ asking'.verdict = asking.verdict /\ asking'.lost = asking.lost
  BY <1>2 DEF MaskingInv, IsAsked
<1>4. Written' = Written
  BY <1>3 DEF Written
<1>5. JobIsMasked(slackJob)
  BY <1>2 DEF MaskingInv
<1>6. JobIsMasked(slackJob)'
  BY <1>2, <1>3, <1>4, <1>5 DEF JobIsMasked
<1>7. Range(shown') \intersect PersonalValues \subseteq Written
  <2>1. CASE text = slackJob.query
    <3>1. IsMasked(slackJob.mapping, asking.text, text)
      BY <1>5, <2>1 DEF JobIsMasked
    <3> QED
      BY <1>1, <1>5, <3>1, ComesBackAsWritten DEF JobIsMasked, Written
  <2>2. CASE text \in Range(slackJob.history)
    <3>1. PICK i \in DOMAIN slackJob.history : text = slackJob.history[i]
      BY <2>2 DEF Range
    <3>2. IsMasked(slackJob.mapping, asking.thread[i], text) /\ i \in DOMAIN asking.thread
      BY <1>5, <3>1 DEF JobIsMasked
    <3>3. Range(asking.thread[i]) \subseteq Written
      BY <3>2 DEF Written, WordsOf
    <3> QED
      BY <1>1, <1>5, <3>2, <3>3, ComesBackAsWritten DEF JobIsMasked
  <2>3. ASSUME NEW t \in Tokens, text = <<t>>
        PROVE  Range(shown') \intersect PersonalValues \subseteq Written
    <3>1. t \notin PersonalValues
      <4>1. t.kind = "token"
        BY DEF Tokens, Token
      <4> QED
        BY <4>1, SlackMaskingAssumption
    <3>2. DOMAIN text = {1} /\ text[1] = t
      BY <2>3
    <3>3. shown' = [i \in {1} |-> IF t \in DOMAIN slackJob.mapping
                                  THEN slackJob.mapping[t] ELSE t]
      BY <1>1, <3>2 DEF Unmask
    <3>4. Range(shown') = {IF t \in DOMAIN slackJob.mapping THEN slackJob.mapping[t] ELSE t}
      BY <3>3 DEF Range
    <3>5. t \in DOMAIN slackJob.mapping => slackJob.mapping[t] \in Written
      BY <1>5 DEF JobIsMasked, Range
    <3> QED
      BY <3>1, <3>4, <3>5
  <2> QED
    BY <2>1, <2>2, <2>3
<1> QED
  BY <1>2, <1>3, <1>4, <1>6, <1>7 DEF MaskingInv, NotQueued

LEMMA MaskingStep ==
    ASSUME MaskingInv, [SlackMaskingNext]_maskVars
    PROVE  MaskingInv'
<1>1. CASE UNCHANGED maskVars
  BY <1>1 DEF maskVars, MaskingInv, Written, JobIsMasked
<1>2. CASE MaskFails \/ HistoryFails
  <2>1. /\ asking.step \in {"idle", "history"} /\ asking' = [asking EXCEPT !.step = "done"]
        /\ UNCHANGED <<mapper, slackJob, recorded, shown>>
    BY <1>2 DEF MaskFails, HistoryFails
  <2>2. /\ IsAsked(asking') /\ asking'.step = "done" /\ asking'.text = asking.text
        /\ asking'.thread = asking.thread /\ asking'.masked = asking.masked
        /\ asking'.verdict = asking.verdict /\ asking'.lost = asking.lost
    BY <2>1 DEF MaskingInv, IsAsked
  <2> QED
    BY <2>1, <2>2, MaskingEndsInv DEF MaskingInv, NotQueued
<1> QED
  BY <1>1, <1>2, MaskQuestionInv, GuardMessageInv, FetchHistoryInv, MaskHistoryInv,
     MaskHistoryFailsInv, AnswerQuestionInv DEF SlackMaskingNext

\* What it says of a state.
LEMMA MaskingIsTyped ==
    ASSUME MaskingInv
    PROVE  SlackMaskingTypeOK
<1>1. DOMAIN mapper \subseteq Tokens /\ Range(mapper) \subseteq PersonalValues
  BY MappingHasTokens DEF MaskingInv
<1>2. DOMAIN slackJob.mapping \subseteq DOMAIN mapper
  <2>1. CASE slackJob = NoJob
    <3>1. DOMAIN slackJob.mapping = {}
      BY <2>1 DEF NoJob
    <3> QED
      BY <3>1
  <2> QED
    BY <2>1 DEF MaskingInv, JobIsMasked
<1> QED
  BY <1>1, <1>2 DEF MaskingInv, SlackMaskingTypeOK, NotQueued, Verdicts

LEMMA WrittenIsTyped == UNION {Range(t) : t \in Typed} = Written
BY DEF Typed, Written, WordsOf, Range

LEMMA MaskingIsSound ==
    ASSUME MaskingInv
    PROVE  WordsComeBack /\ OneTokenPerValue /\ ShowsOnlyWhatWasWritten
<1>1. WordsComeBack
  <2> SUFFICES ASSUME HasJob, NoTokenTyped
               PROVE  /\ Unmask(slackJob.mapping, slackJob.query) = MaskSecrets(asking.text)
                      /\ \A i \in DOMAIN slackJob.history :
                            Unmask(slackJob.mapping, slackJob.history[i])
                              = MaskSecrets(asking.thread[i])
    BY DEF WordsComeBack
  <2>1. JobIsMasked(slackJob)
    BY DEF HasJob, MaskingInv
  <2>2. Range(asking.text) \intersect Tokens = {} /\ asking.text \in Texts
    BY DEF NoTokenTyped, Typed, MaskingInv
  <2>3. ASSUME NEW i \in DOMAIN asking.thread
        PROVE  Range(asking.thread[i]) \intersect Tokens = {} /\ asking.thread[i] \in Texts
    <3>1. asking.thread[i] \in Range(asking.thread)
      BY DEF Range
    <3>2. asking.thread[i] \in Typed
      BY <3>1 DEF Typed
    <3>3. asking.thread[i] \in Texts
      BY ThreadIsSequence DEF MaskingInv
    <3> QED
      BY <3>2, <3>3 DEF NoTokenTyped
  <2>4. Unmask(slackJob.mapping, slackJob.query) = MaskSecrets(asking.text)
    BY <2>1, <2>2, MaskedComesBack DEF JobIsMasked
  <2>5. ASSUME NEW i \in DOMAIN slackJob.history
        PROVE  Unmask(slackJob.mapping, slackJob.history[i]) = MaskSecrets(asking.thread[i])
    <3>1. i \in DOMAIN asking.thread
          /\ IsMasked(slackJob.mapping, asking.thread[i], slackJob.history[i])
      BY <2>1 DEF JobIsMasked
    <3> QED
      BY <2>1, <2>3, <3>1, MaskedComesBack DEF JobIsMasked
  <2> QED
    BY <2>4, <2>5
<1>2. OneTokenPerValue
  <2> SUFFICES ASSUME NEW t \in DOMAIN mapper
               PROVE  /\ \A u \in DOMAIN mapper : mapper[t] = mapper[u] => t = u
                      /\ t.of = mapper[t].of
                      /\ t.n > 1 => Token(t.of, t.n - 1) \in DOMAIN mapper
    BY DEF OneTokenPerValue
  <2>1. \A u \in DOMAIN mapper : mapper[t] = mapper[u] => t = u
    BY DEF MaskingInv, IsMapping
  <2>2. mapper[t] \in PersonalValues /\ t = Token(mapper[t].of, t.n)
    BY DEF MaskingInv, IsMapping
  <2>3. t.of = mapper[t].of /\ t.of \in EntityPrefixes
    BY <2>2 DEF Token, EntityPrefixes
  <2>4. ASSUME t.n > 1 PROVE Token(t.of, t.n - 1) \in DOMAIN mapper
    <3>1. PICK c : c = Cardinality(Numbered(mapper, t.of))
      OBVIOUS
    <3>2. c \in Nat /\ t.n \in 1..c
      BY <3>1, NumberedIsFinite DEF MaskingInv, IsMapping
    <3>3. t.n - 1 \in 1..c
      BY <2>4, <3>2
    <3> QED
      BY <2>3, <3>1, <3>3 DEF MaskingInv, IsMapping
  <2> QED
    BY <2>1, <2>3, <2>4
<1>3. ShowsOnlyWhatWasWritten
  BY WrittenIsTyped DEF ShowsOnlyWhatWasWritten, MaskingInv
<1> QED
  BY <1>1, <1>2, <1>3

LEMMA MaskingInvariance == SlackMaskingSpec => []MaskingInv
BY MaskingInitially, MaskingStep, PTL DEF SlackMaskingSpec

-----------------------------------------------------------------------------
(* What a workspace can rely on, for any number of processes, calls and rows.  *)

\* However often Slack delivers a message, no process that was not restarted makes two
\* turns of it, one that was acknowledged is answered unless its handler raised, and
\* no job is forgotten; and an installation has its control plane row and the row it.
THEOREM SlackIsSoundTheorem == SlackSpec /\ SlackTeamsSpec => []SlackIsSound
<1>1. TeamsInv => PlanesMatch
  BY DEF TeamsInv
<1>2. (DeliveriesAreSound /\ PlanesMatch) => SlackIsSound
  BY DEF SlackIsSound
<1> QED
  BY <1>1, <1>2, SlackIsDelivered, SlackInvariance, TeamsInvariance, PTL

\* A workspace is connected to a provider once, unless requests crossed, and then at
\* most as often as there are requests at a time; and a Grafana or AWS control plane
\* row, by which the agent is given its tools, has credentials.
THEOREM ConnectionsTheorem == IntegrationsSpec => []ConnectionsAreSound
BY ConnectedAreSound, IntegrationsInvariance, PTL

\* One call at a time, a client that a process uses again has a credential that is not
\* due, and a process that has served a disconnection has no client of that role.
THEOREM RolesTheorem == AwsSpec => []RolesAreSound
BY AwsIsSound, AwsInvariance, PTL

\* Served one at a time, a workspace has one installation of the GitHub App; if the
\* webhooks came in order as well, its token works while it is active, it has none
\* while it is suspended, and nothing is left of one that was removed at GitHub.
THEOREM InstallationsTheorem == GitHubSpec => []InstallationsAreSound
BY InstalledAreSound, GitHubInvariance, PTL

\* Only a question that the guard let through is queued, and one that it did not is
\* on record unless the database failed.
THEOREM JudgedTheorem == SlackMaskingSpec => []OnlyJudgedIsQueued
<1>1. JudgedInv => OnlyJudgedIsQueued
  BY DEF JudgedInv, OnlyJudgedIsQueued, Refused
<1> QED
  BY <1>1, JudgedInit, JudgedStep, PTL DEF SlackMaskingSpec

\* Whatever the analyzer finds in the question and in the thread, the mapping that
\* the job carries gives every word back if nobody typed a token, a person is one
\* token and the numbers leave no gap, no answer shows a personal value that was not
\* written, and what the guard did not let through is not queued.
THEOREM MaskIsSoundTheorem == SlackMaskingSpec => []MaskIsSound
<1>1. WordsComeBack /\ OneTokenPerValue /\ ShowsOnlyWhatWasWritten /\ OnlyJudgedIsQueued
      => MaskIsSound
  BY DEF MaskIsSound
<1> QED
  BY <1>1, MaskingIsSound, MaskingInvariance, JudgedTheorem, PTL

\* A process does not replace a credential that it has stored itself before it is
\* due, and a Slack team does not change its workspace while it is installed.
THEOREM ConnectionStepsTheorem == AwsSpec /\ SlackTeamsSpec => ConnectionStepsAreSound
<1> DEFINE Renewed == (/\ row # None /\ row' # None
                       /\ row'.role = row.role /\ row'.cred # row.cred)
                      => row.cred \in due \/ row'.by # row.by
           Stays == \A t \in SlackTeamIds :
               installed[t] # None /\ installed'[t] # None
               => installed'[t].ws = installed[t].ws
<1>1. AwsInv /\ [AwsNext]_awsVars => Renewed
  BY AwsStep
<1>2. TeamsInv /\ [SlackTeamsNext]_teamVars => Stays
  BY TeamsStep
<1>3. AwsSpec => NoRedundantRenewal
  <2> HIDE DEF Renewed
  <2>1. AwsSpec => [][Renewed]_awsVars
    BY <1>1, AwsInvariance, PTL DEF AwsSpec
  <2> QED
    BY <2>1 DEF NoRedundantRenewal, Renewed
<1>4. SlackTeamsSpec => TeamStays
  <2> HIDE DEF Stays
  <2>1. SlackTeamsSpec => [][Stays]_teamVars
    BY <1>2, TeamsInvariance, PTL DEF SlackTeamsSpec
  <2> QED
    BY <2>1 DEF TeamStays, Stays
<1> QED
  BY <1>3, <1>4 DEF ConnectionStepsAreSound

-----------------------------------------------------------------------------
(* The parts together. *)

connectionVars == <<part, providerVars, chatVars>>

LEMMA EveryPartSteps ==
    [Next]_connectionVars =>
        /\ [GitHubNext]_githubVars /\ [IntegrationsNext]_integrationVars /\ [AwsNext]_awsVars
        /\ [SlackNext]_slackVars /\ [SlackTeamsNext]_teamVars /\ [SlackMaskingNext]_maskVars
BY DEF Next, connectionVars, providerVars, chatVars

\* What is explored one part at a time shows of every part a behaviour of its
\* own specification: what is proved of the parts holds of them together.
THEOREM ConnectionsPartsTheorem ==
    ConnectionsSpec => /\ GitHubSpec /\ IntegrationsSpec /\ AwsSpec
                       /\ SlackSpec /\ SlackTeamsSpec /\ SlackMaskingSpec
<1>1. Init => /\ GitHubInit /\ IntegrationsInit /\ AwsInit
              /\ SlackInit /\ SlackTeamsInit /\ SlackMaskingInit
  BY DEF Init
<1>2. ConnectionsSpec <=> Init /\ [][Next]_connectionVars
  BY DEF ConnectionsSpec, connectionVars
<1> QED
  BY <1>1, <1>2, EveryPartSteps, PTL
     DEF GitHubSpec, IntegrationsSpec, AwsSpec, SlackSpec, SlackTeamsSpec, SlackMaskingSpec

\* The state of every part has the shape its actions take it to have.
THEOREM ConnectionsTypesTheorem == ConnectionsSpec => []ConnectionsTypeOK
<1>1. GitHubInv => GitHubTypeOK
  BY DEF GitHubInv
<1>2. IntegrationsInv => IntegrationsTypeOK
  BY DEF IntegrationsInv
<1>3. AwsInv => AwsTypeOK
  BY DEF AwsInv
<1>4. SlackInv => SlackTypeOK
  BY DEF SlackInv
<1>5. TeamsInv => SlackTeamsTypeOK
  BY DEF TeamsInv
<1>6. /\ GitHubTypeOK /\ IntegrationsTypeOK /\ AwsTypeOK
      /\ SlackTypeOK /\ SlackTeamsTypeOK /\ SlackMaskingTypeOK
      => ConnectionsTypeOK
  BY DEF ConnectionsTypeOK
<1> QED
  BY <1>1, <1>2, <1>3, <1>4, <1>5, <1>6, MaskingIsTyped, ConnectionsPartsTheorem,
     GitHubInvariance, IntegrationsInvariance, AwsInvariance, SlackInvariance,
     TeamsInvariance, MaskingInvariance, PTL
=============================================================================
