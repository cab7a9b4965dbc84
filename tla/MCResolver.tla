----------------------------- MODULE MCResolver -----------------------------
(* Who controls an address: the provider's rows for two values, an official    *)
(* row that comes late, and one that is not proved.  Or how it is labelled:    *)
(* the provider's label and one of its tags.                                   *)
EXTENDS Resolver, TLC

CONSTANTS k1, k2

Row(type, v, grade, at, until) ==
  [type |-> type, value |-> v, grade |-> grade, tag |-> FALSE,
   at |-> at, from |-> at, until |-> until]
Late == [Row("entity_control", 1, "official", 2, 2) EXCEPT !.from = 1]
Tag  == [Row("address_label", 2, "provider", 1, 2) EXCEPT !.tag = TRUE]

MCUnproved == { Row("entity_control", 2, "official", 1, 2) }
Controls == { Row("entity_control", 1, "provider", 1, 2), Late,
              Row("entity_control", 2, "provider", 1, 2) } \cup MCUnproved
Labels   == { Row("address_label", 1, "provider", 1, 2), Tag }
MCRows == Controls \cup Labels

Symmetry == Permutations(Resolvers)
=============================================================================
