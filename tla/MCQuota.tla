------------------------------- MODULE MCQuota -------------------------------
(* Small instances of Quota. *)
EXTENDS Quota, TLC

CONSTANTS r1, r2

\* One service with the largest limit, one configured lower.
MCLimits == (r1 :> 2) @@ (r2 :> 1)
MCUniformLimits == [r \in Runs |-> 2]

Symmetry == Permutations(Runs)
=============================================================================
