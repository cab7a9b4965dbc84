--------------------------- MODULE MCEntityFanout ---------------------------
(* Small instances of EntityFanout: one run that may ask for every entity, and *)
(* one that asks for a single one.                                             *)
EXTENDS EntityFanout, TLC

CONSTANTS r1, r2, c1, a1, e1, e2, e3

MCRequestLimit == (r1 :> 3) @@ (r2 :> 1)
Symmetry == Permutations(Entities)
=============================================================================
