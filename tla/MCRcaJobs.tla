------------------------------ MODULE MCRcaJobs ------------------------------
(***************************************************************************)
(* Instances of RcaJobs for TLC.                                           *)
(***************************************************************************)
EXTENDS RcaJobs, FiniteSets, TLC

\* Workers are interchangeable, and only as long as no liveness is checked.
WorkerSymmetry == Permutations(Workers)

\* One question at a time, from the web or from Slack.
OneQuestion == Cardinality({t \in Turns : api[t] # "new"}) <= 1
==============================================================================
