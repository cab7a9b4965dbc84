------------------------------ MODULE Selection ------------------------------
(***************************************************************************)
(* sorted(...)[:limit] and ORDER BY ... LIMIT: the first elements of a set *)
(* in an order.                                                            *)
(***************************************************************************)
EXTENDS Integers, FiniteSets, FiniteSetsExt

\* The sequences of that many elements of S, none of which precedes one that
\* stands before it, or is left out while one that it precedes is taken.
\* There is one when the order is total.
FirstOf(S, Before(_, _), limit) ==
  LET n == Min({limit, Cardinality(S)})
  IN  { s \in [1..n -> S] :
          /\ \A i, j \in 1..n : i < j => s[i] # s[j] /\ ~ Before(s[j], s[i])
          /\ \A x \in S : \/ \E i \in 1..n : s[i] = x
                          \/ \A i \in 1..n : ~ Before(x, s[i]) }
=============================================================================
