---------------------------- MODULE Integrations ----------------------------
(***************************************************************************)
(* A workspace's connections to Datadog, New Relic, Grafana and AWS: a     *)
(* control plane row that says how the connection is, and a row with its   *)
(* credentials that hangs on it.  Only reads keep a workspace from         *)
(* connecting a provider twice.                                            *)
(***************************************************************************)
EXTENDS Platform

CONSTANTS
    Providers,   \* some of those below
    Rows,        \* control plane rows and credential rows (a bound)
    ApiKeys      \* what users give to connect (a bound)

VARIABLES
    accepted,  \* the keys their providers accept
    control,   \* the control plane rows: provider and health
    config,    \* the rows with credentials: provider, control plane row, key
    task,      \* what a request is doing
    crossed    \* history: two requests about these rows ran at the same time

integrationVars == <<accepted, control, config, task, crossed>>

Verdict == {"unset", "healthy", "failed"}
Integration == [provider: Providers, health: Verdict]
Config == [provider: Providers, control: Rows, key: ApiKeys]

ASSUME IntegrationsAssumption ==
    /\ Providers \subseteq {"datadog", "newrelic", "grafana", "aws"}
    /\ None \notin Providers \union Rows \union ApiKeys \union Integration \union Config
    /\ IsFiniteSet(Rows) /\ IsFiniteSet(Calls)

\* control, config: rows a request has found or made, None again once they are
\* deleted; key: the key it tries.
Task == [step: {"idle", "verify", "assume", "look", "reuse", "insert",
                "join", "delete", "probe", "record"},
         provider: Providers \union {None}, control: Rows \union {None},
         config: Rows \union {None}, key: ApiKeys \union {None}, health: Verdict]
NoTask == [step |-> "idle", provider |-> None, control |-> None,
           config |-> None, key |-> None, health |-> "unset"]

IntegrationsTypeOK ==
    /\ accepted \subseteq ApiKeys
    /\ control \in [Rows -> Integration \union {None}]
    /\ config \in [Rows -> Config \union {None}]
    /\ task \in [Calls -> Task]
    /\ crossed \in BOOLEAN

IntegrationsInit ==
    /\ accepted = ApiKeys
    /\ control = [r \in Rows |-> None]
    /\ config = [r \in Rows |-> None]
    /\ task = [c \in Calls |-> NoTask]
    /\ crossed = FALSE

Configs(p) == {r \in Rows : config[r] # None /\ config[r].provider = p}
Controls(p) == {r \in Rows : control[r] # None /\ control[r].provider = p}

-----------------------------------------------------------------------------
Begins(c, q) ==
    /\ task[c].step = "idle"
    /\ task' = [task EXCEPT ![c] = q]
    /\ crossed' = (crossed \/ \E d \in Calls \ {c} : task[d].step # "idle")
    /\ UNCHANGED <<accepted, control, config>>

GoesOn(c, q) ==
    /\ task' = [task EXCEPT ![c] = q]
    /\ UNCHANGED <<accepted, crossed>>

ReadsOnly == UNCHANGED <<control, config>>

\* The request dies, or is refused where a step below says so.
TaskEnds(c) ==
    /\ task[c].step # "idle"
    /\ GoesOn(c, NoTask) /\ ReadsOnly

RevokeKey(k) ==
    /\ k \in accepted
    /\ accepted' = accepted \ {k}
    /\ UNCHANGED <<control, config, task, crossed>>

-----------------------------------------------------------------------------
(* Connecting.  Grafana's router verifies first; the others look first for a *)
(* connection there may be.  A look that finds one or more is refused.       *)

AskConnect(c) ==
    \E p \in Providers, k \in ApiKeys :
        Begins(c, [NoTask EXCEPT !.provider = p, !.key = k,
                      !.step = IF p = "grafana" THEN "verify" ELSE "look"])

VerifyCredentials(c) ==
    LET q == task[c] IN
    /\ q.step = "verify"
    /\ q.key \in accepted
    /\ GoesOn(c, [q EXCEPT !.step = CASE q.provider = "grafana" -> "look"
                                      [] q.provider = "aws" -> "assume"
                                      [] OTHER -> "insert"])
    /\ ReadsOnly

\* What AWS has verified it assumes once more, for the credentials it stores.
AssumeVerifiedRole(c) ==
    LET q == task[c] IN
    /\ q.step = "assume"
    /\ q.key \in accepted
    /\ GoesOn(c, [q EXCEPT !.step = "insert"])
    /\ ReadsOnly

LookForExisting(c) ==
    LET q == task[c] IN
    /\ q.step = "look"
    /\ Configs(q.provider) = {}
    /\ GoesOn(c, [q EXCEPT !.step = IF q.provider = "grafana" THEN "reuse"
                                    ELSE "verify"])
    /\ ReadsOnly

\* Grafana alone takes the control plane row there may be.
ReuseControlPlane(c) ==
    LET q == task[c] IN
    /\ q.step = "reuse"
    /\ \/ /\ Controls("grafana") = {}
          /\ GoesOn(c, [q EXCEPT !.step = "insert"])
       \/ \E r \in Rows :
             /\ Controls("grafana") = {r}
             /\ GoesOn(c, [q EXCEPT !.step = "join", !.control = r])
    /\ ReadsOnly

\* Both rows are committed together.
CreateConnection(c) ==
    LET q == task[c] IN
    /\ \E r, n \in Rows :
          /\ config[n] = None
          /\ \/ q.step = "insert" /\ control[r] = None
             \/ q.step = "join" /\ r = q.control
          /\ control' = [control EXCEPT ![r] = IF q.step = "join" THEN @
                 ELSE [provider |-> q.provider, health |-> "unset"]]
          /\ config' = [config EXCEPT ![n] =
                 [provider |-> q.provider, control |-> r, key |-> q.key]]
          /\ GoesOn(c, [q EXCEPT !.step = "probe", !.control = r, !.config = n])

-----------------------------------------------------------------------------
(* The health of a connection: right after it was made, and when asked. *)

\* Without exactly one row of credentials the verdict is a failure.
AskCheck(c) ==
    \E r \in Rows :
        LET rows == {n \in Rows : config[n] # None /\ config[n].control = r} IN
        /\ control[r] # None
        /\ Begins(c, IF Cardinality(rows) # 1
                     THEN [NoTask EXCEPT !.step = "record", !.control = r,
                                         !.health = "failed"]
                     ELSE [NoTask EXCEPT !.step = "probe", !.control = r,
                              !.key = config[CHOOSE n \in rows : TRUE].key])

ProbeProvider(c) ==
    LET q == task[c] IN
    /\ q.step = "probe"
    /\ GoesOn(c, [q EXCEPT !.step = "record",
                     !.health = IF q.key \in accepted THEN "healthy" ELSE "failed"])
    /\ ReadsOnly

\* A control plane row that is gone by now is not written again.
RecordHealth(c) ==
    LET q == task[c] IN
    /\ q.step = "record"
    /\ control' = [r \in Rows |-> IF r # q.control THEN control[r]
                                  ELSE [control[r] EXCEPT !.health = q.health]]
    /\ GoesOn(c, NoTask)
    /\ UNCHANGED config

-----------------------------------------------------------------------------
(* Disconnecting: refused unless there is exactly one row. *)

AskDisconnection(c) ==
    \E p \in Providers, n \in Rows :
        /\ Configs(p) = {n}
        /\ Begins(c, [NoTask EXCEPT !.step = "delete", !.provider = p,
                         !.config = n, !.control = config[n].control])

\* The control plane rows go and the rows of credentials that are in rows or
\* hang on them; no request has hold of any of them after that.
Deletes(c, planes, rows) ==
    LET lost == rows \union {n \in Rows : /\ config[n] # None
                                         /\ config[n].control \in planes}
        Kept(d) == [task[d] EXCEPT !.config = IF @ \in lost THEN None ELSE @,
                                   !.control = IF @ \in planes THEN None ELSE @] IN
    /\ control' = [r \in Rows |-> IF r \in planes THEN None ELSE control[r]]
    /\ config' = [n \in Rows |-> IF n \in lost THEN None ELSE config[n]]
    /\ task' = [d \in Calls |-> IF d = c THEN NoTask ELSE Kept(d)]
    /\ UNCHANGED <<accepted, crossed>>

Disconnecting(c, provider) ==
    /\ task[c].step = "delete" /\ task[c].provider = provider
    /\ task[c].config # None

DeleteConfigOnly(c) ==
    /\ Disconnecting(c, "aws")
    /\ Deletes(c, {}, {task[c].config})

\* The control plane row stays, with the health it has.
LeaveControlPlane(c) ==
    /\ \E p \in {"datadog", "newrelic"} : Disconnecting(c, p)
    /\ Deletes(c, {}, {task[c].config})

\* The control plane row of the row goes.
DisconnectAws(c) ==
    /\ Disconnecting(c, "aws")
    /\ Deletes(c, {task[c].control}, {task[c].config})

\* The control plane row of the workspace goes, if it has one and not more.
DisconnectGrafana(c) ==
    /\ Disconnecting(c, "grafana")
    /\ Cardinality(Controls("grafana")) <= 1
    /\ Deletes(c, Controls("grafana"), {task[c].config})

-----------------------------------------------------------------------------
IntegrationsNext ==
    \/ \E k \in ApiKeys : RevokeKey(k)
    \/ \E c \in Calls :
          \/ AskConnect(c) \/ VerifyCredentials(c) \/ AssumeVerifiedRole(c)
          \/ LookForExisting(c) \/ ReuseControlPlane(c) \/ CreateConnection(c)
          \/ AskCheck(c) \/ ProbeProvider(c) \/ RecordHealth(c)
          \/ AskDisconnection(c) \/ LeaveControlPlane(c) \/ DisconnectAws(c)
          \/ DisconnectGrafana(c) \/ TaskEnds(c)

IntegrationsSpec == IntegrationsInit /\ [][IntegrationsNext]_integrationVars

-----------------------------------------------------------------------------
\* One request at a time, a workspace is connected to a provider once.  With two
\* connections it can neither use one nor disconnect it.
OneConnection ==
    ~crossed => \A p \in Providers : Cardinality(Configs(p)) <= 1

\* Whatever crosses, every provider is connected as often as there are requests
\* at the same time at most: the second connection blocks all later ones.
FewConnections ==
    \A p \in Providers : Cardinality(Configs(p)) <= Cardinality(Calls)

\* Whatever crosses and dies on the way, a Grafana or AWS control plane row, by
\* which the agent is given its tools, has credentials.
ToolsHaveCredentials ==
    \A r \in Rows :
        control[r] # None /\ control[r].provider \in {"grafana", "aws"}
        => \E n \in Rows : config[n] # None /\ config[n].control = r

\* A provider is connected once, or a few times if requests crossed, and what
\* the agent is offered has credentials.
ConnectionsAreSound == OneConnection /\ FewConnections /\ ToolsHaveCredentials
=============================================================================
