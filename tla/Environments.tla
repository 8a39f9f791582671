----------------------------- MODULE Environments -----------------------------
(***************************************************************************)
(* The environments of one workspace, the repositories that belong to      *)
(* them, the default one, and the deployments that members and, with an    *)
(* API key, build pipelines report.  An UPDATE keeps its row locked until  *)
(* its request commits.  Names are left out: one that is taken refuses a   *)
(* request like any other error.                                           *)
(***************************************************************************)
EXTENDS Platform

CONSTANTS
    Envs,    \* the environments that may come to exist (a bound)
    Repos,   \* repositories
    Keys     \* the API keys that may come to exist (a bound)

ASSUME EnvironmentsAssumption ==
    /\ None \notin Envs \union Repos \union Keys
    /\ Envs \intersect Keys = {} /\ IsFiniteSet(Calls)

VARIABLES
    env,        \* the environments, and which are the default one
    repos,      \* the repositories configured in each
    deployed,   \* who has reported a deployment to it: a key, or a member (None)
    key,        \* whether an API key exists
    rowOf,      \* the request that has written a row and not committed
    edit,       \* what a request is doing
    overlapped  \* history: two requests were served at the same time

environmentVars == <<env, repos, deployed, key, rowOf, edit, overlapped>>

EditOps == {"create", "default", "undefault", "delete", "addRepo", "dropRepo",
            "dropKey", "report"}
\* was: the environment was the default one when it was loaded; old: the default
\* one that it found.
Edit == [step: {"idle", "loaded", "found", "ready"}, op: EditOps,
         env: Envs \union {None}, was: BOOLEAN, old: Envs \union {None},
         repo: Repos \union {None}, key: Keys \union {None}]
NoEdit == [step |-> "idle", op |-> "create", env |-> None, was |-> FALSE,
           old |-> None, repo |-> None, key |-> None]

EnvironmentsTypeOK ==
    /\ env \in [Envs -> {"new", "plain", "default", "gone"}]
    /\ repos \in [Envs -> SUBSET Repos]
    /\ deployed \in [Envs -> SUBSET (Keys \union {None})]
    /\ key \in [Keys -> Lives]
    /\ rowOf \in [Envs \union Keys -> Calls \union {None}]
    /\ edit \in [Calls -> Edit]
    /\ overlapped \in BOOLEAN

EnvironmentsInit ==
    /\ env = [e \in Envs |-> "new"]
    /\ repos = [e \in Envs |-> {}]
    /\ deployed = [e \in Envs |-> {}]
    /\ key = [k \in Keys |-> "new"]
    /\ rowOf = [x \in Envs \union Keys |-> None]
    /\ edit = [c \in Calls |-> NoEdit]
    /\ overlapped = FALSE

Environment == {e \in Envs : env[e] \in {"plain", "default"}}
Defaults == {e \in Envs : env[e] = "default"}

Begin(c, q) ==
    /\ edit[c].step = "idle"
    /\ edit' = [edit EXCEPT ![c] = q]
    /\ overlapped' = (overlapped \/ \E d \in Calls \ {c} : edit[d].step # "idle")
    /\ UNCHANGED <<env, repos, deployed, key, rowOf>>

\* A write waits for whoever has written the row before.
Writable(c, x) == rowOf[x] \in {c, None}

FinishEdit(c) ==
    /\ edit' = [edit EXCEPT ![c] = NoEdit]
    /\ rowOf' = [x \in Envs \union Keys |-> IF rowOf[x] = c THEN None ELSE rowOf[x]]
    /\ UNCHANGED overlapped

\* Any error, and two defaults where scalar_one_or_none expects one.
EditFails(c) ==
    /\ edit[c].step # "idle"
    /\ FinishEdit(c)
    /\ UNCHANGED <<env, repos, deployed, key>>

AtEdit(c, step, op) == edit[c].step = step /\ edit[c].op = op

-----------------------------------------------------------------------------
(* The default environment. *)

\* set_default_environment, or an update with is_default: true.
AskDefaultEnv(c) ==
    \E e \in Environment :
        Begin(c, [NoEdit EXCEPT !.step = "loaded", !.op = "default", !.env = e,
                                !.was = env[e] = "default"])

AskNewEnv(c) ==
    \E e \in Envs, makeDefault \in BOOLEAN :
        /\ env[e] = "new"
        /\ \A d \in Calls : edit[d].env # e
        /\ Begin(c, [NoEdit EXCEPT !.op = IF makeDefault THEN "default" ELSE "create",
                                   !.step = IF makeDefault THEN "loaded" ELSE "ready",
                                   !.env = e])

FindDefault(c) ==
    /\ AtEdit(c, "loaded", "default")
    /\ \/ /\ Defaults = {}
          /\ edit' = [edit EXCEPT ![c].step = "ready"]
       \/ \E old \in Envs :
             /\ Defaults = {old}
             /\ edit' = [edit EXCEPT ![c].step = "found", ![c].old = old]
    /\ UNCHANGED <<env, repos, deployed, key, rowOf, overlapped>>

\* The default one that was found is written, whatever it is by now, and stays
\* locked; if it was deleted meanwhile the request fails.  The environment
\* itself, loaded before it became the default one, is not written.
UnsetDefault(c) ==
    LET q == edit[c] IN
    /\ AtEdit(c, "found", "default")
    /\ \/ q.old = q.env /\ ~q.was /\ UNCHANGED rowOf
       \/ /\ q.old # q.env \/ q.was
          /\ q.old \in Environment /\ Writable(c, q.old)
          /\ rowOf' = [rowOf EXCEPT ![q.old] = c]
    /\ edit' = [edit EXCEPT ![c].step = "ready"]
    /\ UNCHANGED <<env, repos, deployed, key, overlapped>>

SetDefaultKeepingOld(c) ==
    LET q == edit[c] IN
    /\ AtEdit(c, "ready", "default")
    /\ Writable(c, q.env) /\ env[q.env] # "gone"
    /\ env' = [env EXCEPT ![q.env] = "default"]
    /\ FinishEdit(c)
    /\ UNCHANGED <<repos, deployed, key>>

\* An environment that was loaded as the default one, and not unset since, is
\* not written: its is_default has not changed.
SetDefault(c) ==
    LET q == edit[c]
        mine == {e \in Envs : rowOf[e] = c}
        new == IF q.was /\ q.env \notin mine THEN {} ELSE {q.env} IN
    /\ AtEdit(c, "ready", "default")
    /\ \A e \in new : Writable(c, e) /\ env[e] # "gone"
    /\ env' = [e \in Envs |-> IF e \in new THEN "default"
                              ELSE IF e \in mine THEN "plain" ELSE env[e]]
    /\ FinishEdit(c)
    /\ UNCHANGED <<repos, deployed, key>>

\* An update with is_default: false.
AskNoDefault(c) ==
    \E e \in Environment :
        Begin(c, [NoEdit EXCEPT !.step = "ready", !.op = "undefault", !.env = e,
                                !.was = env[e] = "default"])

UnsetOne(c) ==
    LET q == edit[c] IN
    /\ AtEdit(c, "ready", "undefault")
    /\ \/ ~q.was /\ UNCHANGED env
       \/ /\ q.was
          /\ Writable(c, q.env) /\ env[q.env] # "gone"
          /\ env' = [env EXCEPT ![q.env] = "plain"]
    /\ FinishEdit(c)
    /\ UNCHANGED <<repos, deployed, key>>

CreateEnvironment(c) ==
    /\ AtEdit(c, "ready", "create")
    /\ env' = [env EXCEPT ![edit[c].env] = "plain"]
    /\ FinishEdit(c)
    /\ UNCHANGED <<repos, deployed, key>>

AskEnvDeletion(c) ==
    \E e \in Environment :
        Begin(c, [NoEdit EXCEPT !.step = "ready", !.op = "delete", !.env = e])

\* Its repositories and deployments go with it.
DeleteEnvironment(c) ==
    LET e == edit[c].env IN
    /\ AtEdit(c, "ready", "delete")
    /\ Writable(c, e)
    /\ env' = [env EXCEPT ![e] = "gone"]
    /\ repos' = [repos EXCEPT ![e] = {}]
    /\ deployed' = [deployed EXCEPT ![e] = {}]
    /\ FinishEdit(c)
    /\ UNCHANGED key

-----------------------------------------------------------------------------
(* Repositories and deployments of an environment. *)

AskRepository(c) ==
    \E e \in Environment, r \in Repos :
        Begin(c, [NoEdit EXCEPT !.step = "ready", !.env = e, !.repo = r,
                      !.op = IF r \in repos[e] THEN "dropRepo" ELSE "addRepo"])

\* The key of the environment and the unique index decide.
AddRepository(c) ==
    LET q == edit[c] IN
    /\ AtEdit(c, "ready", "addRepo")
    /\ q.env \in Environment /\ q.repo \notin repos[q.env]
    /\ repos' = [repos EXCEPT ![q.env] = @ \union {q.repo}]
    /\ FinishEdit(c)
    /\ UNCHANGED <<env, deployed, key>>

RemoveRepository(c) ==
    LET q == edit[c] IN
    /\ AtEdit(c, "ready", "dropRepo")
    /\ repos' = [repos EXCEPT ![q.env] = @ \ {q.repo}]
    /\ FinishEdit(c)
    /\ UNCHANGED <<env, deployed, key>>

\* A member reports a deployment.
AskDeployment(c) ==
    \E e \in Environment :
        Begin(c, [NoEdit EXCEPT !.step = "ready", !.op = "report", !.env = e])

CreateApiKey(c) ==
    /\ edit[c].step = "idle"
    /\ \E k \in Keys : key[k] = "new" /\ key' = [key EXCEPT ![k] = "live"]
    /\ UNCHANGED <<env, repos, deployed, rowOf, edit, overlapped>>

AskKeyDeletion(c) ==
    \E k \in Keys :
        /\ key[k] = "live"
        /\ Begin(c, [NoEdit EXCEPT !.step = "ready", !.op = "dropKey", !.key = k])

DeleteApiKey(c) ==
    LET k == edit[c].key IN
    /\ AtEdit(c, "ready", "dropKey")
    /\ Writable(c, k)
    /\ key' = [key EXCEPT ![k] = "gone"]
    /\ FinishEdit(c)
    /\ UNCHANGED <<env, repos, deployed>>

\* A pipeline reports with its key, which is looked up first.
AskWebhook(c) ==
    \E k \in Keys :
        /\ key[k] = "live"
        /\ Begin(c, [NoEdit EXCEPT !.step = "loaded", !.op = "report", !.key = k])

ValidateApiKeyReading(c) ==
    /\ AtEdit(c, "loaded", "report")
    /\ \E e \in Environment :
          edit' = [edit EXCEPT ![c].step = "ready", ![c].env = e]
    /\ UNCHANGED <<env, repos, deployed, key, rowOf, overlapped>>

\* last_used_at is written: the key stays locked until the report is committed.
ValidateApiKey(c) ==
    LET k == edit[c].key IN
    /\ AtEdit(c, "loaded", "report")
    /\ key[k] = "live" /\ Writable(c, k)
    /\ rowOf' = [rowOf EXCEPT ![k] = c]
    /\ \E e \in Environment :
          edit' = [edit EXCEPT ![c].step = "ready", ![c].env = e]
    /\ UNCHANGED <<env, repos, deployed, key, overlapped>>

CreateDeployment(c) ==
    LET q == edit[c] IN
    /\ AtEdit(c, "ready", "report")
    /\ q.env \in Environment
    /\ deployed' = [deployed EXCEPT ![q.env] = @ \union {q.key}]
    /\ FinishEdit(c)
    /\ UNCHANGED <<env, repos, key>>

-----------------------------------------------------------------------------
EnvironmentStep(c) ==
    \/ AskDefaultEnv(c) \/ AskNewEnv(c) \/ FindDefault(c) \/ UnsetDefault(c)
    \/ SetDefault(c) \/ AskNoDefault(c) \/ UnsetOne(c) \/ CreateEnvironment(c)
    \/ AskEnvDeletion(c) \/ DeleteEnvironment(c)

DeploymentStep(c) ==
    \/ AskRepository(c) \/ AddRepository(c) \/ RemoveRepository(c)
    \/ AskDeployment(c) \/ CreateApiKey(c) \/ AskKeyDeletion(c) \/ DeleteApiKey(c)
    \/ AskWebhook(c) \/ ValidateApiKey(c) \/ CreateDeployment(c)
    \/ EditFails(c)

EnvironmentsNext == \E c \in Calls : EnvironmentStep(c) \/ DeploymentStep(c)

EnvironmentsSpec == EnvironmentsInit /\ [][EnvironmentsNext]_environmentVars

-----------------------------------------------------------------------------
\* "Only one per workspace can be default", as long as requests are served one
\* after the other: the one an investigation starts from is the only one.
OneDefault == ~overlapped => Cardinality(Defaults) <= 1

\* Requests that cross can leave several, after which every request for a
\* default fails until one is unset or deleted; but never more of them than
\* there are requests at the same time, however long it goes on.
FewDefaults == Cardinality(Defaults) <= Cardinality(Calls)

\* Whatever crosses, only an environment that exists has repositories or
\* deployments.
NothingOutlivesItsEnvironment ==
    \A e \in Envs : repos[e] # {} \/ deployed[e] # {} => e \in Environment

\* Whatever crosses, a pipeline whose key was deleted reports nothing any more,
\* although the key was looked up in an earlier statement.
DeletedKeyReportsNothing ==
    [][\A k \in Keys, e \in Envs :
        k \in deployed'[e] \ deployed[e] => key[k] = "live"]_environmentVars

\* What holds of the environments of a workspace: at most one default as long as
\* nothing crosses, few ones if it does, and no rows of a deleted one.
EnvironmentsAreSound == OneDefault /\ FewDefaults /\ NothingOutlivesItsEnvironment
=============================================================================
