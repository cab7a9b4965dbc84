------------------------------ MODULE MCOneShot ------------------------------
(* Small instances of OneShot: a census, its recovery and one table. *)
EXTENDS OneShot, TLC

CONSTANTS k1, k2, k3, census, recovery, strict

MCRecovered == recovery :> census
\* The table instance has no recovery.
MCNoRecovered == [a \in {} |-> a]

Symmetry == Permutations(Commands)
=============================================================================
