------------------------------ MODULE MCCensus ------------------------------
(* Receipts, spends and transfers around the thresholds of the policies. *)
EXTENDS Census

CONSTANT a1

Pay(at, received) == [at |-> at, out |-> TRUE, received |-> received, in |-> FALSE, spent |-> 0]
Spend(at, spent) == [at |-> at, out |-> FALSE, received |-> 0, in |-> TRUE, spent |-> spent]
Transfer(at, received, spent) ==
  [at |-> at, out |-> TRUE, received |-> received, in |-> TRUE, spent |-> spent]

\* 30, 90, 90 and a half, 91 and 365 and a half days, and older.
Instants == {60, 180, 181, 182, 731, 740}
MCTransactions ==
  { Pay(at, n) : at \in Instants, n \in {0, 10, 499, 500} }
    \cup { Spend(at, n) : at \in Instants, n \in {495, 9990} }
    \cup { Transfer(at, 10000, 500) : at \in {180, 181, 740} }
=============================================================================
