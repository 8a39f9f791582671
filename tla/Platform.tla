------------------------------ MODULE Platform ------------------------------
(***************************************************************************)
(* What the parts of the web application share: the people, the            *)
(* workspaces, and the requests that are served at the same time, each     *)
(* with a database session of its own.                                     *)
(***************************************************************************)
EXTENDS Naturals, FiniteSets

CONSTANTS
    Users,       \* the addresses that may have an account (a bound)
    Workspaces,  \* the workspaces that may come to exist (a bound)
    Calls,       \* requests served at the same time (a bound)
    None

ASSUME PlatformAssumption ==
    /\ None \notin Users \union Workspaces \union Calls
    /\ IsFiniteSet(Users)

\* An account or a workspace has an identifier of its own: one that is gone
\* does not come back.
Lives == {"new", "live", "gone"}
=============================================================================
