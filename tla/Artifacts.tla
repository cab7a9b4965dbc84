----------------------------- MODULE Artifacts -----------------------------
(***************************************************************************)
(* What the universe root promises to whoever reads campaigns/<id>: the    *)
(* directory of a campaign is absent or holds one whole artifact, and an   *)
(* artifact that is there never changes, whatever runs are under way.      *)
(***************************************************************************)
CONSTANTS
  Ids,        \* campaign identifiers
  None,       \* no artifact under that identifier
  Whole(_)    \* what makes an artifact complete

VARIABLE
  published   \* [Ids -> None or the artifact in campaigns/<id>]

Init == published = [id \in Ids |-> None]

Publish(id) ==
  /\ published[id] = None
  /\ \E artifact \in {published'[id]} \ {None} :
       /\ Whole(artifact)
       /\ published' = [published EXCEPT ![id] = artifact]

Next == \E id \in Ids : Publish(id)

Spec == Init /\ [][Next]_published
=============================================================================
