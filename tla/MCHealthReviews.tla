--------------------------- MODULE MCHealthReviews ---------------------------
(***************************************************************************)
(* HealthReviews for TLC.                                                  *)
(***************************************************************************)
EXTENDS HealthReviews, TLC

\* Workers, and reviews of one kind, are interchangeable where no liveness
\* property is checked.
ReviewSymmetry ==
    Permutations(Workers) \union Permutations(Schedulers)
    \union Permutations(ApiReviews) \union Permutations(Reviews \ ApiReviews)
=============================================================================
