------------------------ MODULE MCAddressEnrichment ------------------------
(* Small instances of AddressEnrichment. *)
EXTENDS AddressEnrichment, TLC

CONSTANTS r1, r2, c1, a1, a2, a3, i1, i2, e1

\* Two inputs an operator may name for the same campaign: the full cohort
\* with a limit of two points, and a later queue that lost one row.  Row a1
\* is in conflict, so it is due even when an entity membership covers it.
MCRowsOf     == (i1 :> {a1, a2}) @@ (i2 :> {a2})
MCDirectOf   == (i1 :> {a1}) @@ (i2 :> {})
MCPointLimit == (i1 :> 2) @@ (i2 :> 1)

\* One queue of three rows, two points.
MCRowsOf3     == (i1 :> {a1, a2, a3})
MCDirectOf3   == (i1 :> {})
MCPointLimit3 == (i1 :> 2)

Symmetry == Permutations(Runs)
=============================================================================
