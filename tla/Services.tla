------------------------------ MODULE Services ------------------------------
(***************************************************************************)
(* The services of one workspace: creation behind the limit of its plan,   *)
(* assignment to teams, deletion.  Requests are those of its owners.       *)
(* Names are left out: one that is taken refuses a request like any error. *)
(***************************************************************************)
EXTENDS Platform

CONSTANTS
    ServiceIds,  \* the services that may exist at the same time (a bound)
    Teams,       \* the teams that may come to exist (a bound)
    FreeLimit    \* base_service_count of the Free plan

ASSUME ServicesAssumption ==
    /\ FreeLimit \in Nat
    /\ None \notin ServiceIds \union Teams /\ "gone" \notin Teams \union {None}
    /\ IsFiniteSet(ServiceIds) /\ IsFiniteSet(Calls) /\ Calls # {}

VARIABLES
    team,       \* the services: the team of each, None, or "gone" without a row
    teams,      \* whether a team exists
    plan,       \* the plan of the workspace
    job,        \* what a request is doing
    wasPro      \* history: the workspace has been on the Pro plan

servicesVars == <<team, teams, plan, job, wasPro>>

Jobs == {"create", "assign", "delete", "deleteTeam"}
\* rows: the services it has loaded; lost: one of them was deleted since; had:
\* the team it loaded of the one it is about.
Job == [step: {"idle", "loaded"}, op: Jobs, service: ServiceIds \union {None},
        team: Teams \union {None}, rows: SUBSET ServiceIds, lost: BOOLEAN,
        had: Teams \union {None}]
NoJob == [step |-> "idle", op |-> "create", service |-> None, team |-> None,
          rows |-> {}, lost |-> FALSE, had |-> None]

ServicesTypeOK ==
    /\ team \in [ServiceIds -> Teams \union {None, "gone"}]
    /\ teams \in [Teams -> Lives]
    /\ plan \in {"FREE", "PRO"}
    /\ job \in [Calls -> Job]
    /\ wasPro \in BOOLEAN

ServicesInit ==
    /\ team = [s \in ServiceIds |-> "gone"]
    /\ teams = [t \in Teams |-> "new"]
    /\ plan = "FREE"
    /\ job = [c \in Calls |-> NoJob]
    /\ wasPro = FALSE

Stands(t) == teams[t] = "live"
Existing == {s \in ServiceIds : team[s] # "gone"}
Adding == {c \in Calls : job[c].step = "loaded" /\ job[c].op = "create"}

LoadJob(c, q) ==
    /\ job[c].step = "idle"
    /\ job' = [job EXCEPT ![c] = q]
    /\ UNCHANGED <<team, teams, plan, wasPro>>

\* A commit; a row that is deleted is lost to every session that loaded it.
Store(c, newTeam) ==
    /\ team' = newTeam
    /\ job' = [d \in Calls |-> IF d = c THEN NoJob ELSE
           [job[d] EXCEPT !.lost = @ \/ \E s \in job[d].rows : newTeam[s] = "gone"]]
    /\ UNCHANGED <<plan, wasPro>>

Loaded(c, op) == job[c].step = "loaded" /\ job[c].op = op

JobLost(c) ==
    /\ job[c].step # "idle"
    /\ job' = [job EXCEPT ![c] = NoJob]
    /\ UNCHANGED <<team, teams, plan, wasPro>>

\* The webhooks of Billing change the plan; nothing removes services then.
PlanChanges ==
    /\ plan' \in {"FREE", "PRO"} \ {plan}
    /\ wasPro' = TRUE
    /\ UNCHANGED <<team, teams, job>>

-----------------------------------------------------------------------------
\* check_can_add_service: the Pro plan has no limit.
CanAddService == plan = "PRO" \/ Cardinality(Existing) < FreeLimit

AskService(c) ==
    /\ CanAddService
    /\ LoadJob(c, [NoJob EXCEPT !.step = "loaded", !.op = "create"])

\* The service, and the schedule of its reviews with it.
CreateService(c) ==
    /\ Loaded(c, "create")
    /\ \E s \in ServiceIds :
          /\ team[s] = "gone"
          /\ Store(c, [team EXCEPT ![s] = None])
    /\ UNCHANGED teams

AskAssignmentUnfound(c) ==
    \E s \in ServiceIds, t \in Teams \union {None} :
        /\ t = None \/ team[s] = None \/ t = team[s]
        /\ LoadJob(c, [NoJob EXCEPT !.step = "loaded", !.op = "assign", !.service = s,
                        !.team = t, !.rows = {s}, !.had = team[s]])

\* A service that has a team cannot be given to another one, only back; a
\* request that says nothing of the team takes it away.
AskAssignment(c) ==
    \E s \in Existing, t \in Teams \union {None} :
        /\ t = None \/ team[s] = None \/ t = team[s]
        /\ LoadJob(c, [NoJob EXCEPT !.step = "loaded", !.op = "assign", !.service = s,
                        !.team = t, !.rows = {s}, !.had = team[s]])

\* Only a team that differs from the one it loaded is written; an UPDATE of a
\* row that is gone fails, and so does one that names a team that is gone.
UpdateService(c) ==
    LET q == job[c] IN
    /\ Loaded(c, "assign")
    /\ \/ q.team = q.had /\ Store(c, team)
       \/ /\ q.team # q.had
          /\ ~q.lost
          /\ q.team # None => Stands(q.team)
          /\ Store(c, [team EXCEPT ![q.service] = q.team])
    /\ UNCHANGED teams

AskServiceDeletion(c) ==
    \E s \in Existing :
        LoadJob(c, [NoJob EXCEPT !.step = "loaded", !.op = "delete", !.service = s,
                        !.rows = {s}])

\* Billing counts what is left after this commit.
DeleteService(c) ==
    LET q == job[c] IN
    /\ Loaded(c, "delete")
    /\ Store(c, IF q.lost THEN team ELSE [team EXCEPT ![q.service] = "gone"])
    /\ UNCHANGED teams

-----------------------------------------------------------------------------
CreateTeam(c) ==
    /\ job[c].step = "idle"
    /\ \E t \in Teams : teams[t] = "new" /\ teams' = [teams EXCEPT ![t] = "live"]
    /\ UNCHANGED <<team, plan, job, wasPro>>

AskTeamDeletion(c) ==
    \E t \in {u \in Teams : Stands(u)} :
        LoadJob(c, [NoJob EXCEPT !.step = "loaded", !.op = "deleteTeam", !.team = t,
                        !.rows = {s \in Existing : team[s] = t}])

DeleteTeamOfLoaded(c) ==
    LET q == job[c] IN
    /\ Loaded(c, "deleteTeam")
    /\ ~q.lost
    /\ teams' = [teams EXCEPT ![q.team] = "gone"]
    /\ Store(c, [s \in ServiceIds |-> IF s \in q.rows THEN None ELSE team[s]])

\* The services it loaded lose their team by name, whatever team they have by
\* now, and any other one of this team because its key is gone.  A service that
\* it loaded and that was deleted since makes it fail.
DeleteTeamRow(c) ==
    LET q == job[c] IN
    /\ Loaded(c, "deleteTeam")
    /\ ~q.lost
    /\ teams' = [teams EXCEPT ![q.team] = "gone"]
    /\ Store(c, [s \in ServiceIds |->
           IF s \in q.rows \/ team[s] = q.team THEN None ELSE team[s]])

-----------------------------------------------------------------------------
ServiceStep(c) ==
    \/ AskService(c) \/ CreateService(c)
    \/ AskAssignment(c) \/ UpdateService(c)
    \/ AskServiceDeletion(c) \/ DeleteService(c)
    \/ CreateTeam(c) \/ AskTeamDeletion(c) \/ DeleteTeamRow(c)
    \/ JobLost(c)

ServicesNext == PlanChanges \/ \E c \in Calls : ServiceStep(c)

ServicesSpec == ServicesInit /\ [][ServicesNext]_servicesVars

-----------------------------------------------------------------------------
\* The limit of the Free plan is checked and nothing is locked, so requests
\* that cross can exceed it; they exceed it by the others that fitted too, and
\* by no more, however long it goes on.
LimitAlmostKept ==
    ~wasPro => Cardinality(Existing) + Cardinality(Adding)
                  <= FreeLimit + Cardinality(Calls) - 1

\* A service belongs to no team that is gone, whatever was loaded before.
TeamsExist == \A s \in Existing : team[s] = None \/ Stands(team[s])

\* What holds of the services of a workspace however its requests cross.
ServicesAreSound == LimitAlmostKept /\ TeamsExist
=============================================================================
