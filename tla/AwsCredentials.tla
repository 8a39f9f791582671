--------------------------- MODULE AwsCredentials ---------------------------
(***************************************************************************)
(* The temporary credentials of a workspace's AWS role: kept in its row,   *)
(* renewed when they are due under a lock that each process has of its own, *)
(* and built into a CloudWatch client that each process caches.            *)
(***************************************************************************)
EXTENDS Platform

CONSTANTS
    Processes,   \* API processes and workers (a bound)
    MostCreds,   \* how often a role is assumed (a bound)
    MostRoles    \* how often the workspace connects a role (a bound)

VARIABLES
    issued,   \* credentials issued so far; they are numbered
    due,      \* those that expire within five minutes, or have
    roles,    \* roles connected so far; they are numbered
    row,      \* the workspace's row: role, credential, who stored it
    lock,     \* for each process: the call that holds the workspace's lock
    cache,    \* for each process: its client's role and credential, and the
              \* credential whose expiration it is kept until
    fetch,    \* what a call for a client is doing
    cutBy,    \* history: the process that served the last disconnection
    overlap   \* history: two calls ran at the same time

awsVars == <<issued, due, roles, row, lock, cache, fetch, cutBy, overlap>>

Creds == 1..MostCreds
Roles == 1..MostRoles
Row == [role: Roles, cred: Creds, by: Processes]
Client == [role: Roles, cred: Creds, until: Creds]

ASSUME AwsCredentialsAssumption ==
    /\ None \notin Processes \union Row \union Client
    /\ MostCreds \in Nat /\ MostRoles \in Nat

Fetch == [step: {"idle", "read", "lock", "commit", "query", "cache", "clear"},
          proc: Processes \union {None}, role: Roles \union {None},
          cred: Creds \union {None}, until: Creds \union {None}]
NoFetch == [step |-> "idle", proc |-> None, role |-> None, cred |-> None,
            until |-> None]

AwsTypeOK ==
    /\ issued \in 0..MostCreds /\ roles \in 0..MostRoles
    /\ due \subseteq 1..issued
    /\ row \in Row \union {None}
    /\ lock \in [Processes -> Calls \union {None}]
    /\ cache \in [Processes -> Client \union {None}]
    /\ fetch \in [Calls -> Fetch]
    /\ cutBy \in Processes \union {None}
    /\ overlap \in BOOLEAN

AwsInit ==
    /\ issued = 0 /\ due = {} /\ roles = 0
    /\ row = None
    /\ lock = [p \in Processes |-> None]
    /\ cache = [p \in Processes |-> None]
    /\ fetch = [c \in Calls |-> NoFetch]
    /\ cutBy = None /\ overlap = FALSE

-----------------------------------------------------------------------------
CredentialsComeDue(n) ==
    /\ n \in 1..issued \ due
    /\ due' = due \union {n}
    /\ UNCHANGED <<issued, roles, row, lock, cache, fetch, cutBy, overlap>>

\* What create_aws_integration commits (Integrations has the rest of it).
ConnectRole ==
    /\ row = None
    /\ roles < MostRoles /\ issued < MostCreds
    /\ roles' = roles + 1
    /\ issued' = issued + 1
    /\ \E p \in Processes :
          row' = [role |-> roles + 1, cred |-> issued + 1, by |-> p]
    /\ UNCHANGED <<due, lock, cache, fetch, cutBy, overlap>>

Opens(c, q) ==
    /\ fetch[c].step = "idle"
    /\ fetch' = [fetch EXCEPT ![c] = q]
    /\ overlap' = (overlap \/ \E d \in Calls \ {c} : fetch[d].step # "idle")

Steps(c, q) ==
    /\ fetch' = [fetch EXCEPT ![c] = q]
    /\ UNCHANGED <<due, roles, cutBy, overlap>>

Held(p) == lock[p] # None
Release(c) == [p \in Processes |-> IF lock[p] = c THEN None ELSE lock[p]]

\* A call that fails or is cancelled leaves the lock as it goes.
FetchFails(c) ==
    /\ fetch[c].step \notin {"idle", "clear"}
    /\ Steps(c, NoFetch)
    /\ lock' = Release(c)
    /\ UNCHANGED <<issued, row, cache>>

-----------------------------------------------------------------------------
(* delete_aws_integration. *)

DisconnectRole(c) ==
    \E p \in Processes :
        /\ row # None
        /\ Opens(c, [NoFetch EXCEPT !.step = "clear", !.proc = p])
        /\ row' = None
        /\ cutBy' = p
        /\ UNCHANGED <<issued, due, roles, lock, cache>>

\* After the commit, in the process that served it.
ClearClientCache(c) ==
    /\ fetch[c].step = "clear"
    /\ Steps(c, NoFetch)
    /\ cache' = [cache EXCEPT ![fetch[c].proc] = None]
    /\ UNCHANGED <<issued, row, lock>>

-----------------------------------------------------------------------------
(* _get_logs_client and _get_cloudwatch_client. *)

\* A client that is not due is used; one that is is dropped.
AskClient(c) ==
    \E p \in Processes :
        LET reused == cache[p] # None /\ cache[p].until \notin due IN
        /\ ~reused
        /\ Opens(c, [NoFetch EXCEPT !.step = "read", !.proc = p])
        /\ cache' = [cache EXCEPT ![p] = None]
        /\ UNCHANGED <<issued, due, roles, row, lock, cutBy>>

WithRow(q, step) == [q EXCEPT !.step = step, !.role = row.role, !.cred = row.cred]

ReadCredentials(c) ==
    LET q == fetch[c] IN
    /\ q.step = "read"
    /\ row # None
    /\ Steps(c, WithRow(q, IF row.cred \in due THEN "lock" ELSE "query"))
    /\ UNCHANGED <<issued, row, lock, cache>>

RenewAnyway(c) ==
    LET q == fetch[c] IN
    /\ q.step = "lock" /\ ~Held(q.proc)
    /\ row # None /\ row.role = q.role
    /\ issued < MostCreds
    /\ issued' = issued + 1
    /\ lock' = [lock EXCEPT ![q.proc] = c]
    /\ Steps(c, [q EXCEPT !.step = "commit", !.cred = issued + 1])
    /\ UNCHANGED <<row, cache>>

\* Under the lock the row is read again.  Nothing else of the process runs while
\* the role is assumed.
RenewUnderLock(c) ==
    LET q == fetch[c] IN
    /\ q.step = "lock" /\ ~Held(q.proc)
    /\ row # None /\ row.role = q.role
    /\ \/ /\ row.cred \notin due
          /\ Steps(c, WithRow(q, "query"))
          /\ UNCHANGED <<issued, lock>>
       \/ /\ row.cred \in due
          /\ issued < MostCreds
          /\ issued' = issued + 1
          /\ lock' = [lock EXCEPT ![q.proc] = c]
          /\ Steps(c, [q EXCEPT !.step = "commit", !.cred = issued + 1])
    /\ UNCHANGED <<row, cache>>

StoreUnread(c) ==
    LET q == fetch[c] IN
    /\ q.step = "commit"
    /\ row # None /\ row.role = q.role
    /\ row' = [row EXCEPT !.cred = q.cred, !.by = q.proc]
    /\ lock' = Release(c)
    /\ Steps(c, WithRow(q, "query"))
    /\ UNCHANGED <<issued, cache>>

StoreCredentials(c) ==
    LET q == fetch[c] IN
    /\ q.step = "commit"
    /\ row # None /\ row.role = q.role
    /\ row' = [row EXCEPT !.cred = q.cred, !.by = q.proc]
    /\ lock' = Release(c)
    /\ Steps(c, [q EXCEPT !.step = "query"])
    /\ UNCHANGED <<issued, cache>>

\* The client is built; how long it is kept is read from the row anew.
QueryExpiration(c) ==
    LET q == fetch[c] IN
    /\ q.step = "query"
    /\ Steps(c, IF row = None THEN NoFetch
                ELSE [q EXCEPT !.step = "cache", !.until = row.cred])
    /\ UNCHANGED <<issued, row, lock, cache>>

CacheClient(c) ==
    LET q == fetch[c] IN
    /\ q.step = "cache"
    /\ cache' = [cache EXCEPT ![q.proc] =
           [role |-> q.role, cred |-> q.cred, until |-> q.until]]
    /\ Steps(c, NoFetch)
    /\ UNCHANGED <<issued, row, lock>>

-----------------------------------------------------------------------------
AwsNext ==
    \/ \E n \in Creds : CredentialsComeDue(n)
    \/ ConnectRole
    \/ \E c \in Calls :
          \/ DisconnectRole(c) \/ ClearClientCache(c) \/ AskClient(c)
          \/ ReadCredentials(c) \/ RenewUnderLock(c) \/ StoreCredentials(c)
          \/ QueryExpiration(c) \/ CacheClient(c) \/ FetchFails(c)

AwsSpec == AwsInit /\ [][AwsNext]_awsVars

-----------------------------------------------------------------------------
\* "Another request might have refreshed": whatever crosses, a process does not
\* replace a credential it has stored itself before that is due.
NoRedundantRenewal ==
    [][/\ row # None /\ row' # None
       /\ row'.role = row.role /\ row'.cred # row.cred
       => row.cred \in due \/ row'.by # row.by]_awsVars

\* One call at a time, a client that will be used again has a credential that
\* is not due: it is not kept for as long as another one lasts.
ReusedClientWorks ==
    ~overlap => \A p \in Processes :
        cache[p] # None /\ cache[p].until \notin due => cache[p].cred \notin due

\* One call at a time, a process that has served a disconnection has no client
\* of the role that was disconnected, although others may.
DisconnectedRoleIsForgotten ==
    /\ ~overlap /\ cutBy # None
    /\ \A c \in Calls : fetch[c].step # "clear"
    => \/ cache[cutBy] = None
       \/ row # None /\ cache[cutBy].role = row.role

\* A client that is used again works, and is not one of a role that is gone.
RolesAreSound == ReusedClientWorks /\ DisconnectedRoleIsForgotten
=============================================================================
