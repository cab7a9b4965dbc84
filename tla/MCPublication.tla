--------------------------- MODULE MCPublication ---------------------------
(* Small instance of Publication: every run is given the same campaign id. *)
EXTENDS Publication, TLC

CONSTANTS c1, c2, w1, w2, a1, a2, x, id, s, f

MCCampaign == [r \in {c1, c2, w1, w2} |-> id]
MCExclusions == x :> "p0"
MCExpected == "p0" :> 2 @@ "edge" :> 1

Symmetry == Permutations({c1, c2}) \cup Permutations({w1, w2})
              \cup Permutations({a1, a2})
=============================================================================
