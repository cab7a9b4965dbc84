--------------------------- MODULE MCCoverageSync ---------------------------
(* Two entities, one of which fits a run; an address in conflict and one that
   is only a candidate. *)
EXTENDS CoverageSync, TLC

MCRankingAt  == [t \in 0..1 |-> IF t = 0 THEN <<2, 1>> ELSE <<1, 2>>]
MCSeedOffers == { [item |-> 1, priority |-> 80] }
MCCandidates == { [item |-> 1, priority |-> 50] }
=============================================================================
