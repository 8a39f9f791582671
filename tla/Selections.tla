----------------------------- MODULE Selections -----------------------------
(***************************************************************************)
(* What a list comprehension with a condition, or a query with a WHERE,     *)
(* takes of a list.  As a recursive function, for the proofs.               *)
(***************************************************************************)
EXTENDS Naturals, Sequences

\* The elements of s that are in S, in their order.
Filtered(s, S) ==
    LET upTo[k \in 0..Len(s)] ==   \* of the first k
            IF k = 0 THEN <<>>
            ELSE IF s[k] \in S THEN Append(upTo[k - 1], s[k]) ELSE upTo[k - 1]
    IN upTo[Len(s)]
=============================================================================
