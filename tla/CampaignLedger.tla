--------------------------- MODULE CampaignLedger ---------------------------
(***************************************************************************)
(* What a paid provider campaign promises, independent of how its runs     *)
(* carry it out: every subject of every campaign moves through             *)
(*                                                                         *)
(*      free  ->  claimed  ->  paid  ->  recorded                          *)
(*                                                                         *)
(* one step at a time and never back.  "claimed" is the attempt row,       *)
(* "paid" the one request the provider received, "recorded" the one        *)
(* observation of its outcome.  A subject may stay claimed or paid for     *)
(* ever (its process died); it is never paid for a second time.            *)
(***************************************************************************)
CONSTANTS
  Campaigns,   \* campaign identifiers
  Subjects     \* what a campaign pays for: addresses, or provider entities

VARIABLE
  cell         \* [Campaigns -> [Subjects -> stage of the subject]]

Stages == {"free", "claimed", "paid", "recorded"}

TypeOK == cell \in [Campaigns -> [Subjects -> Stages]]

Init == cell = [c \in Campaigns |-> [s \in Subjects |-> "free"]]

Advance(c, s, from, to) ==
  /\ cell[c][s] = from
  /\ cell' = [cell EXCEPT ![c][s] = to]

Claim(c, s)  == Advance(c, s, "free", "claimed")
Pay(c, s)    == Advance(c, s, "claimed", "paid")
Record(c, s) == Advance(c, s, "paid", "recorded")

Next ==
  \E c \in Campaigns, s \in Subjects : Claim(c, s) \/ Pay(c, s) \/ Record(c, s)

Spec == Init /\ [][Next]_cell
=============================================================================
