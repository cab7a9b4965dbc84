---------------------------- MODULE TotalsProofs ----------------------------
(***************************************************************************)
(* Proofs about what is counted and added up: the slots and bytes of Quota *)
(* and the censuses of Census.  Both rest on the same few laws of sums and *)
(* of counting, which come first.                                          *)
(***************************************************************************)
EXTENDS Quota, Census, FiniteSetTheorems, WellFoundedInduction, TLAPS

-----------------------------------------------------------------------------
(***************************************************************************)
(* Sums.  SumFunctionOnSet is a fold: the value of a chosen recursive      *)
(* function on the subsets of its set.  That it adds up, whatever element  *)
(* is taken out first, is shown by well-founded induction on finite        *)
(* subsets.                                                                *)
(***************************************************************************)
\* The element a fold takes first.
First(S) == CHOOSE x \in S : TRUE

\* g adds up the weights of the subsets of S, first element by first element.
Adds(w, S, g) ==
  g = [T \in SUBSET S |-> IF T = {} THEN 0 ELSE w[First(T)] + g[T \ {First(T)}]]

\* A sum is the value of a function that adds up the subsets of its set.
LEMMA SumIsChosen ==
  ASSUME NEW w, NEW S
  PROVE  SumFunctionOnSet(w, S) = (CHOOSE g : Adds(w, S, g))[S]
BY Zenon DEF SumFunctionOnSet, FoldFunctionOnSet, MapThenFoldSet, Adds, First

\* Two of them agree where both are defined and the weights are the same.
LEMMA AddsAgree ==
  ASSUME NEW w, NEW v, NEW S, IsFiniteSet(S), NEW R, NEW g, NEW h,
         Adds(w, S, g), Adds(v, R, h), S \subseteq R, \A x \in S : w[x] = v[x]
  PROVE  g[S] = h[S]
<1> DEFINE Bad == { T \in SUBSET S : g[T] # h[T] }
<1> SUFFICES ASSUME Bad # {} PROVE FALSE
  OBVIOUS
<1>1. /\ IsWellFoundedOn(StrictSubsetOrdering(S), SUBSET S)
      /\ Bad \subseteq SUBSET S /\ Bad # {}
  BY FS_StrictSubsetOrderingWellFounded, FS_FiniteSubsetsOfFinite
<1>2. PICK T \in Bad : \A V \in Bad : <<V, T>> \notin StrictSubsetOrdering(S)
  <2> HIDE DEF Bad
  <2> QED
    BY <1>1, WFMin
<1>3. /\ T \in SUBSET S /\ T \in SUBSET R /\ g[T] # h[T]
  BY <1>2
<1>4. /\ g[T] = IF T = {} THEN 0 ELSE w[First(T)] + g[T \ {First(T)}]
      /\ h[T] = IF T = {} THEN 0 ELSE v[First(T)] + h[T \ {First(T)}]
  BY <1>3 DEF Adds
<1>5. T # {} /\ First(T) \in T
  BY <1>3, <1>4 DEF First
<1>6. <<T \ {First(T)}, T>> \in StrictSubsetOrdering(S)
  BY <1>3, <1>5 DEF StrictSubsetOrdering
<1>7. T \ {First(T)} \in SUBSET S /\ T \ {First(T)} \notin Bad
  BY <1>2, <1>3, <1>6
<1>8. g[T \ {First(T)}] = h[T \ {First(T)}] /\ w[First(T)] = v[First(T)]
  BY <1>3, <1>5, <1>7
<1> QED
  BY <1>3, <1>4, <1>8

\* Where there is one, a sum starts with any first element.
LEMMA AddsIsSum ==
  ASSUME NEW w, NEW v, NEW S, IsFiniteSet(S), NEW R, S \subseteq R, NEW g, Adds(v, R, g),
         \A x \in S : w[x] = v[x], \E h : Adds(w, S, h)
  PROVE  g[S] = SumFunctionOnSet(w, S)
<1>1. Adds(w, S, CHOOSE h : Adds(w, S, h))
  OBVIOUS
<1>2. (CHOOSE h : Adds(w, S, h))[S] = g[S]
  BY <1>1, AddsAgree
<1> QED
  BY <1>2, SumIsChosen

\* There is one for every finite set.
LEMMA AddsExists ==
  ASSUME NEW w, NEW S, IsFiniteSet(S)
  PROVE  \E g : Adds(w, S, g)
<1> DEFINE Bad == { T \in SUBSET S : ~\E g : Adds(w, T, g) }
<1> SUFFICES ASSUME Bad # {} PROVE FALSE
  OBVIOUS
<1>1. /\ IsWellFoundedOn(StrictSubsetOrdering(S), SUBSET S)
      /\ Bad \subseteq SUBSET S /\ Bad # {}
  BY FS_StrictSubsetOrderingWellFounded, FS_FiniteSubsetsOfFinite
<1>2. PICK U \in Bad : \A V \in Bad : <<V, U>> \notin StrictSubsetOrdering(S)
  <2> HIDE DEF Bad
  <2> QED
    BY <1>1, WFMin
<1>3. U \in SUBSET S /\ ~\E g : Adds(w, U, g)
  BY <1>2
<1>4. ASSUME NEW V \in SUBSET U, V # U PROVE IsFiniteSet(V) /\ \E g : Adds(w, V, g)
  <2>1. V \in SUBSET S /\ <<V, U>> \in StrictSubsetOrdering(S)
    BY <1>3, <1>4 DEF StrictSubsetOrdering
  <2>2. V \notin Bad
    BY <1>2, <2>1
  <2> QED
    BY <2>1, <2>2, FS_Subset
<1> DEFINE sum == [T \in SUBSET U |->
                     IF T = {} THEN 0
                     ELSE w[First(T)] + SumFunctionOnSet(w, T \ {First(T)})]
<1>5. ASSUME NEW T \in SUBSET U, T # {}
      PROVE  SumFunctionOnSet(w, T \ {First(T)}) = sum[T \ {First(T)}]
  <2> DEFINE V == T \ {First(T)}
  <2>1. First(T) \in T
    BY <1>5 DEF First
  <2>2. V \in SUBSET U /\ V # U
    BY <2>1
  <2>3. PICK g : Adds(w, V, g)
    BY <1>4, <2>2
  <2>4. IsFiniteSet(V) /\ SumFunctionOnSet(w, V) = g[V]
    BY <1>4, <2>2, <2>3, AddsIsSum
  <2>5. g[V] = IF V = {} THEN 0 ELSE w[First(V)] + g[V \ {First(V)}]
    BY <2>3 DEF Adds
  <2>6. CASE V = {}
    BY <2>2, <2>4, <2>5, <2>6
  <2>7. CASE V # {}
    <3>1. First(V) \in V
      BY <2>7 DEF First
    <3>2. V \ {First(V)} \in SUBSET U /\ V \ {First(V)} # U /\ V \ {First(V)} \subseteq V
      BY <2>2
    <3>3. g[V \ {First(V)}] = SumFunctionOnSet(w, V \ {First(V)})
      BY <1>4, <2>3, <3>2, AddsIsSum
    <3>4. sum[V] = w[First(V)] + SumFunctionOnSet(w, V \ {First(V)})
      BY <2>2, <2>7
    <3> QED
      BY <2>4, <2>5, <2>7, <3>3, <3>4
  <2> QED
    BY <2>6, <2>7
<1>6. Adds(w, U, sum)
  BY <1>5 DEF Adds
<1> QED
  BY <1>3, <1>6

\* The sum over nothing.
LEMMA SumOfNone ==
  ASSUME NEW w
  PROVE  SumFunctionOnSet(w, {}) = 0
<1>1. PICK g : Adds(w, {}, g)
  BY AddsExists, FS_EmptySet
<1>2. g[{}] = SumFunctionOnSet(w, {})
  BY <1>1, AddsIsSum, FS_EmptySet
<1>3. g[{}] = 0
  BY <1>1 DEF Adds
<1> QED
  BY <1>2, <1>3

\* Weights that agree on a finite set have the same sum over it.
LEMMA SumsAgree ==
  ASSUME NEW w, NEW v, NEW S, IsFiniteSet(S), \A x \in S : w[x] = v[x]
  PROVE  SumFunctionOnSet(w, S) = SumFunctionOnSet(v, S)
<1>1. PICK g : Adds(v, S, g)
  BY AddsExists
<1>2. \E h : Adds(w, S, h)
  BY AddsExists
<1>3. g[S] = SumFunctionOnSet(w, S)
  BY <1>1, <1>2, AddsIsSum
<1>4. g[S] = SumFunctionOnSet(v, S)
  BY <1>1, AddsIsSum
<1> QED
  BY <1>3, <1>4

\* The fold of a set with elements takes its first one and goes on with the rest.
LEMMA SumFirst ==
  ASSUME NEW w, NEW S, IsFiniteSet(S), S # {}
  PROVE  /\ First(S) \in S
         /\ SumFunctionOnSet(w, S) = w[First(S)] + SumFunctionOnSet(w, S \ {First(S)})
<1>1. First(S) \in S
  BY DEF First
<1>2. PICK g : Adds(w, S, g)
  BY AddsExists
<1>3. /\ SumFunctionOnSet(w, S) = g[S]
      /\ g[S \ {First(S)}] = SumFunctionOnSet(w, S \ {First(S)})
  <2>1. S \ {First(S)} \in SUBSET S
    OBVIOUS
  <2>2. IsFiniteSet(S \ {First(S)})
    BY <2>1, FS_Subset
  <2>3. \E h : Adds(w, S \ {First(S)}, h)
    BY <2>2, AddsExists
  <2> QED
    BY <1>2, <2>1, <2>2, <2>3, AddsIsSum
<1>4. g[S] = w[First(S)] + g[S \ {First(S)}]
  BY <1>2 DEF Adds
<1> QED
  BY <1>1, <1>3, <1>4

\* Finitely many elements, each with a weight.
Weighed(w, S) == IsFiniteSet(S) /\ \A x \in S : w[x] \in Nat

\* The sum of T is that of the rest and of the element taken out, whichever
\* it is.
Splits(w, T) ==
  /\ SumFunctionOnSet(w, T) \in Nat
  /\ \A x \in T : /\ SumFunctionOnSet(w, T \ {x}) \in Nat
                  /\ SumFunctionOnSet(w, T) = w[x] + SumFunctionOnSet(w, T \ {x})

\* Every sum of finitely many weights splits so.
LEMMA SumSplits ==
  ASSUME NEW w, NEW S, Weighed(w, S)
  PROVE  Splits(w, S)
<1> DEFINE Bad == { T \in SUBSET S : ~Splits(w, T) }
<1> SUFFICES ASSUME Bad # {} PROVE FALSE
  OBVIOUS
<1>1. /\ IsWellFoundedOn(StrictSubsetOrdering(S), SUBSET S)
      /\ Bad \subseteq SUBSET S /\ Bad # {}
  BY FS_StrictSubsetOrderingWellFounded, FS_FiniteSubsetsOfFinite DEF Weighed
<1>2. PICK U \in Bad : \A V \in Bad : <<V, U>> \notin StrictSubsetOrdering(S)
  <2> HIDE DEF Bad
  <2> QED
    BY <1>1, WFMin
<1>3. U \in SUBSET S /\ ~Splits(w, U) /\ IsFiniteSet(U) /\ \A x \in U : w[x] \in Nat
  BY <1>2, FS_Subset DEF Weighed
<1>4. ASSUME NEW x \in U PROVE Splits(w, U \ {x})
  <2>1. U \ {x} \in SUBSET S /\ <<U \ {x}, U>> \in StrictSubsetOrdering(S)
    BY <1>3 DEF StrictSubsetOrdering
  <2>2. U \ {x} \notin Bad
    BY <1>2, <2>1
  <2> QED
    BY <2>1, <2>2
<1>5. U # {}
  <2>1. SumFunctionOnSet(w, {}) \in Nat
    BY SumOfNone
  <2>2. Splits(w, {})
    BY <2>1 DEF Splits
  <2> QED
    BY <1>3, <2>2
<1> DEFINE y == First(U)
<1>6. y \in U /\ SumFunctionOnSet(w, U) = w[y] + SumFunctionOnSet(w, U \ {y})
  BY <1>3, <1>5, SumFirst
<1> HIDE DEF y
<1>7. SumFunctionOnSet(w, U) \in Nat
  BY <1>3, <1>4, <1>6 DEF Splits
<1>8. \A x \in U : SumFunctionOnSet(w, U \ {x}) \in Nat
  BY <1>4 DEF Splits
<1>9. ASSUME NEW x \in U, x # y
      PROVE  SumFunctionOnSet(w, U) = w[x] + SumFunctionOnSet(w, U \ {x})
  <2> DEFINE rest == (U \ {y}) \ {x}
  <2>1. rest = (U \ {x}) \ {y}
    OBVIOUS
  <2>2. x \in U \ {y} /\ y \in U \ {x}
    BY <1>6, <1>9
  <2>3. SumFunctionOnSet(w, U \ {y}) = w[x] + SumFunctionOnSet(w, rest)
    BY <1>4, <1>6, <2>2 DEF Splits
  <2>4. SumFunctionOnSet(w, U \ {x}) = w[y] + SumFunctionOnSet(w, rest)
    BY <1>4, <1>9, <2>1, <2>2 DEF Splits
  <2>5. w[x] \in Nat /\ w[y] \in Nat /\ SumFunctionOnSet(w, rest) \in Nat
    BY <1>3, <1>4, <1>6, <1>9, <2>1, <2>2 DEF Splits
  <2> QED
    BY <1>6, <2>3, <2>4, <2>5
<1> QED
  BY <1>3, <1>6, <1>7, <1>8, <1>9 DEF Splits

-----------------------------------------------------------------------------
(***************************************************************************)
(* Counts and bounds                                                       *)
(***************************************************************************)
\* A part of a finite set is finite and no larger.
LEMMA PartIsSmaller ==
  \A A, B : IsFiniteSet(B) /\ A \subseteq B =>
    /\ IsFiniteSet(A) /\ Cardinality(A) \in Nat /\ Cardinality(B) \in Nat
    /\ Cardinality(A) <= Cardinality(B)
<1> SUFFICES ASSUME NEW A, NEW B, IsFiniteSet(B), A \in SUBSET B
             PROVE  /\ IsFiniteSet(A) /\ Cardinality(A) \in Nat /\ Cardinality(B) \in Nat
                    /\ Cardinality(A) <= Cardinality(B)
  OBVIOUS
<1> QED
  BY FS_Subset, FS_CardinalityType

\* Two disjoint sets count as much as the two together.
LEMMA DisjointCounts ==
  ASSUME NEW D, IsFiniteSet(D), NEW C, C \subseteq D, NEW A, NEW B, C = A \cup B, A \cap B = {}
  PROVE  /\ Cardinality(A) \in Nat /\ Cardinality(B) \in Nat
         /\ Cardinality(C) = Cardinality(A) + Cardinality(B)
<1>1. IsFiniteSet(A) /\ IsFiniteSet(B)
  BY FS_Subset
<1>2. Cardinality(A \cap B) = 0
  BY FS_EmptySet
<1>3. Cardinality(A) \in Nat /\ Cardinality(B) \in Nat
  BY <1>1, FS_CardinalityType
<1>4. Cardinality(A \cup B) = Cardinality(A) + Cardinality(B) - Cardinality(A \cap B)
  BY <1>1, FS_Union
<1> QED BY <1>2, <1>3, <1>4

\* A population is what a test takes of it and what it leaves.
LEMMA BothSidesCount ==
  ASSUME NEW D, IsFiniteSet(D), NEW A, NEW B, D = A \cup B, A \cap B = {}
  PROVE  Cardinality(A) + Cardinality(B) = Cardinality(D)
BY DisjointCounts

\* Disjoint parts count no more than the whole.
LEMMA PartsCountLess ==
  ASSUME NEW D, IsFiniteSet(D), NEW A \in SUBSET D, NEW B \in SUBSET D, A \cap B = {}
  PROVE  Cardinality(A) + Cardinality(B) <= Cardinality(D)
<1> DEFINE C == A \cup B
<1>1. C \subseteq D /\ C = A \cup B
  OBVIOUS
<1> HIDE DEF C
<1>2. Cardinality(C) = Cardinality(A) + Cardinality(B)
  BY <1>1, DisjointCounts
<1> QED
  BY <1>1, <1>2, PartIsSmaller

\* A function takes no more values than arguments.
LEMMA ImageIsSmaller ==
  ASSUME NEW F, NEW S, IsFiniteSet(S)
  PROVE  LET T == { F[x] : x \in S }
         IN  IsFiniteSet(T) /\ Cardinality(T) <= Cardinality(S)
<1> DEFINE T == { F[x] : x \in S }
           h == [x \in S |-> F[x]]
<1>1. h \in Surjection(S, T)
  BY DEF Surjection
<1> HIDE DEF h
<1> QED BY <1>1, FS_Surjection

\* A finite set of integers that is not empty has a largest element.
LEMMA MaxIsLargest ==
  ASSUME NEW S \in SUBSET Int, IsFiniteSet(S), S # {}
  PROVE  Max(S) \in S /\ \A y \in S : y <= Max(S)
<1> DEFINE Topped(T) == \E x \in T : \A y \in T : y <= x
           Bad == { T \in SUBSET S : T # {} /\ ~Topped(T) }
<1>1. Bad = {}
  <2> SUFFICES ASSUME Bad # {} PROVE FALSE
    OBVIOUS
  <2>1. /\ IsWellFoundedOn(StrictSubsetOrdering(S), SUBSET S)
        /\ Bad \subseteq SUBSET S /\ Bad # {}
    BY FS_StrictSubsetOrderingWellFounded, FS_FiniteSubsetsOfFinite
  <2>2. PICK U \in Bad : \A V \in Bad : <<V, U>> \notin StrictSubsetOrdering(S)
    <3> HIDE DEF Bad
    <3> QED
      BY <2>1, WFMin
  <2>3. PICK x \in U : TRUE
    BY <2>2
  <2>4. U \ {x} \in SUBSET S /\ <<U \ {x}, U>> \in StrictSubsetOrdering(S)
    BY <2>2, <2>3 DEF StrictSubsetOrdering
  <2>5. U \ {x} = {} \/ Topped(U \ {x})
    BY <2>2, <2>4
  <2>6. U \in SUBSET Int /\ x \in Int
    BY <2>2, <2>3
  <2>7. Topped(U)
    <3>1. CASE U \ {x} = {}
      <4>1. \A y \in U : y <= x
        BY <2>6, <3>1
      <4> QED
        BY <2>3, <4>1
    <3>2. CASE Topped(U \ {x})
      <4>1. PICK z \in U \ {x} : \A y \in U \ {x} : y <= z
        BY <3>2
      <4>2. CASE z <= x
        <5>1. \A y \in U : y <= x
          BY <2>6, <4>1, <4>2
        <5> QED
          BY <2>3, <5>1
      <4>3. CASE x <= z
        <5>1. z \in U /\ \A y \in U : y <= z
          BY <2>6, <4>1, <4>3
        <5> QED
          BY <5>1
      <4> QED
        BY <2>6, <4>1, <4>2, <4>3
    <3> QED
      BY <2>5, <3>1, <3>2
  <2> QED
    BY <2>2, <2>7
<1>2. PICK x \in S : \A y \in S : y <= x
  BY <1>1
<1>3. x \in Int /\ \A y \in S : x >= y
  BY <1>2
<1>4. Max(S) \in S /\ \A y \in S : Max(S) >= y
  BY <1>2, <1>3 DEF Max
<1> QED
  BY <1>4

\* It has a smallest one too.
LEMMA MinIsSmallest ==
  ASSUME NEW S \in SUBSET Int, IsFiniteSet(S), S # {}
  PROVE  Min(S) \in S /\ \A y \in S : Min(S) <= y
<1> DEFINE negative == [y \in S |-> -y]
           T == { negative[y] : y \in S }
<1>1. IsFiniteSet(T) /\ T \in SUBSET Int /\ T # {}
  <2>1. \A y \in S : negative[y] \in Int
    OBVIOUS
  <2> HIDE DEF negative
  <2> QED
    BY <2>1, ImageIsSmaller
<1>2. Max(T) \in T /\ \A y \in T : y <= Max(T)
  <2> HIDE DEF T
  <2> QED
    BY <1>1, MaxIsLargest
<1>3. PICK x \in S : Max(T) = -x
  BY <1>2
<1>4. \A y \in S : -y \in T /\ -y <= -x
  BY <1>2, <1>3
<1>5. \A y \in S : x <= y
  BY <1>4
<1> QED
  BY <1>5 DEF Min

-----------------------------------------------------------------------------
(***************************************************************************)
(* The slots of Quota: the requests of a window                            *)
(***************************************************************************)
\* The part of the types the argument needs.
SlotTypes ==
  /\ clock \in Times
  /\ rows \subseteq [run : Runs, k : Nat, at : Times, open : BOOLEAN, bytes : Nat]
  /\ IsFiniteSet(rows)
  /\ stamp \in [Runs -> Times]
  /\ made \in [Runs -> Nat]
  /\ pc \in [Runs -> {"idle", "ready", "asking", "counted", "reserved", "answered",
                      "done", "crashed"}]

Alive == { r \in Runs : Live(r) }

\* The runs that have counted, have not inserted, and whose row will fall
\* into the window ending now.
Waiting(now) ==
  { r \in Runs : pc[r] = "counted" /\ now - Window < stamp[r] /\ stamp[r] <= now }

\* Counted runs are charged to their window before they insert.
SlotInv ==
  /\ SlotTypes
  /\ Cardinality(Alive) <= MaxActive
  /\ \A now \in Times :
       Cardinality(Within(now)) + Cardinality(Waiting(now)) <= Ceiling + MaxActive - 1

\* The rows of the table, and any part of them, are finite.
LEMMA FiniteParts ==
  ASSUME SlotTypes, NEW now \in Times
  PROVE  /\ IsFiniteSet(Within(now)) /\ Cardinality(Within(now)) \in Nat
         /\ IsFiniteSet(Waiting(now)) /\ Cardinality(Waiting(now)) \in Nat
         /\ IsFiniteSet(InWindow(now)) /\ Cardinality(InWindow(now)) \in Nat
         /\ IsFiniteSet(Alive) /\ Cardinality(Alive) \in Nat
<1>1. IsFiniteSet(rows) /\ IsFiniteSet(Runs)
  BY RunAssumption DEF SlotTypes, RunAssumption
<1>2. /\ Within(now) \in SUBSET rows /\ InWindow(now) \in SUBSET rows
      /\ Waiting(now) \in SUBSET Runs /\ Alive \in SUBSET Runs
  BY DEF Within, InWindow, Waiting, Alive
<1> QED BY <1>1, <1>2, FS_Subset, FS_CardinalityType

\* Adding an element adds at most one to the size of a finite set.
LEMMA AddAtMostOne ==
  ASSUME NEW S, NEW x, IsFiniteSet(S)
  PROVE  /\ Cardinality(S \cup {x}) \in Nat
         /\ Cardinality(S \cup {x}) <= Cardinality(S) + 1
<1>1. Cardinality(S) \in Nat /\ Cardinality(S \cup {x}) \in Nat
  BY FS_AddElement, FS_CardinalityType
<1>2. CASE x \in S
  <2>1. Cardinality(S \cup {x}) = Cardinality(S)
    BY <1>2, FS_AddElement
  <2> QED BY <1>1, <2>1
<1>3. CASE x \notin S
  <2>1. Cardinality(S \cup {x}) = Cardinality(S) + 1
    BY <1>3, FS_AddElement
  <2> QED BY <1>1, <2>1
<1> QED BY <1>2, <1>3

\* No rows and no run counting at first.
LEMMA SlotInit == Init => SlotInv
<1> SUFFICES ASSUME Init PROVE SlotInv
  OBVIOUS
<1>1. SlotTypes
  <2>1. 0 \in Times
    BY SizeAssumption DEF Times, SizeAssumption
  <2> QED BY <2>1, FS_EmptySet DEF Init, SlotTypes
<1>2. Alive = {} /\ \A now \in Times : Within(now) = {} /\ Waiting(now) = {}
  BY DEF Init, Alive, Live, Within, InWindow, Waiting
<1>3. Ceiling + MaxActive - 1 >= 0 /\ MaxActive >= 0
  BY LimitAssumption DEF LimitAssumption
<1> QED BY <1>1, <1>2, <1>3, FS_EmptySet DEF SlotInv

\* A step that adds no row, lets no run become counted, and starts no run
\* keeps the invariant.
LEMMA SlotKept ==
  ASSUME SlotInv, SlotTypes', rows' = rows, Alive' \subseteq Alive,
         \A now \in Times : Waiting(now)' \subseteq Waiting(now)
  PROVE  SlotInv'
<1>1. Cardinality(Alive') <= MaxActive
  <2>1. 0 \in Times
    BY SizeAssumption DEF Times, SizeAssumption
  <2>2. IsFiniteSet(Alive) /\ Cardinality(Alive) \in Nat
    BY <2>1, FiniteParts DEF SlotInv
  <2>3. Alive' \in SUBSET Alive
    OBVIOUS
  <2>4. Cardinality(Alive') <= Cardinality(Alive) /\ Cardinality(Alive') \in Nat
    BY <2>2, <2>3, FS_Subset, FS_CardinalityType
  <2> QED BY <2>2, <2>4, LimitAssumption DEF SlotInv, LimitAssumption
<1>2. ASSUME NEW now \in Times
      PROVE  Cardinality(Within(now)') + Cardinality(Waiting(now)') <= Ceiling + MaxActive - 1
  <2>1. Within(now)' = Within(now)
    BY DEF Within, InWindow
  <2>2. Waiting(now)' \in SUBSET Waiting(now)
    OBVIOUS
  <2>3. /\ IsFiniteSet(Waiting(now)) /\ Cardinality(Waiting(now)) \in Nat
        /\ Cardinality(Within(now)) \in Nat
    BY FiniteParts DEF SlotInv
  <2>4. /\ Cardinality(Waiting(now)') <= Cardinality(Waiting(now))
        /\ Cardinality(Waiting(now)') \in Nat
    BY <2>2, <2>3, FS_Subset, FS_CardinalityType
  <2>5. Cardinality(Within(now)) + Cardinality(Waiting(now)) <= Ceiling + MaxActive - 1
    BY DEF SlotInv
  <2> QED BY <2>1, <2>3, <2>4, <2>5, LimitAssumption DEF LimitAssumption
<1> QED BY <1>1, <1>2 DEF SlotInv

\* Creating a run keeps SlotInv.
LEMMA SlotCreateRun ==
  ASSUME SlotInv, NEW r \in Runs, CreateRun(r)
  PROVE  SlotInv'
<1> USE DEF SlotInv
<1>1. SlotTypes'
  BY DEF CreateRun, Goto, SlotTypes
<1>2. Alive' = Alive \cup {r}
  BY DEF CreateRun, Goto, SlotTypes, Alive, Live
<1>3. Cardinality(Alive') <= MaxActive
  <2>1. 0 \in Times
    BY SizeAssumption DEF Times, SizeAssumption
  <2>2. IsFiniteSet(Alive) /\ Cardinality(Alive) \in Nat
    BY <2>1, FiniteParts
  <2>3. Cardinality(Alive) < MaxActive
    BY DEF CreateRun, Alive
  <2>4. Cardinality(Alive') <= Cardinality(Alive) + 1 /\ Cardinality(Alive') \in Nat
    BY <1>2, <2>2, AddAtMostOne
  <2> QED BY <2>2, <2>3, <2>4, LimitAssumption DEF LimitAssumption
<1>4. ASSUME NEW now \in Times
      PROVE  Within(now)' = Within(now) /\ Waiting(now)' = Waiting(now)
  BY DEF CreateRun, Goto, SlotTypes, Within, InWindow, Waiting
<1> QED BY <1>1, <1>3, <1>4

\* A run becomes counted only where the window of its own stamp has a slot,
\* and every window its row may fall into holds no more than that one.
LEMMA SlotCount ==
  ASSUME SlotInv, NEW r \in Runs, Count(r)
  PROVE  SlotInv'
<1> USE DEF SlotInv
<1>1. SlotTypes'
  BY DEF Count, Goto, SlotTypes, database
<1>2. Alive' = Alive
  BY DEF Count, Goto, SlotTypes, Alive, Live
<1>3. CASE pc'[r] # "counted"
  <2>1. ASSUME NEW now \in Times PROVE Waiting(now)' \subseteq Waiting(now)
    BY <1>3 DEF Count, Goto, SlotTypes, Waiting
  <2>2. rows' = rows
    BY DEF Count, database
  <2> QED BY <1>1, <1>2, <2>1, <2>2, SlotKept
<1>4. CASE pc'[r] = "counted"
  <2>0. stamp' = stamp /\ rows' = rows /\ stamp[r] \in Times
    BY DEF Count, database, SlotTypes
  <2>1. Cardinality(InWindow(stamp[r])) < LimitOf[r]
    BY <1>4 DEF Count, Goto, SlotTypes, SlotFree
  <2>2. ASSUME NEW now \in Times
        PROVE  Cardinality(Within(now)') + Cardinality(Waiting(now)') <= Ceiling + MaxActive - 1
    <3>0. Within(now)' = Within(now)
      BY <2>0 DEF Within, InWindow
    <3>1. CASE now - Window < stamp[r] /\ stamp[r] <= now
      <4>1. Within(now) \in SUBSET InWindow(stamp[r])
        <5> SUFFICES ASSUME NEW q \in rows, q.at > now - Window
                     PROVE  q.at > stamp[r] - Window
          BY DEF Within, InWindow
        <5>1. q.at \in Int /\ stamp[r] \in Int /\ now \in Int /\ Window \in Int
          BY <2>0, LimitAssumption DEF SlotTypes, Times, LimitAssumption
        <5> QED BY <3>1, <5>1
      <4>2. /\ IsFiniteSet(InWindow(stamp[r])) /\ Cardinality(InWindow(stamp[r])) \in Nat
            /\ Cardinality(Within(now)) \in Nat
        BY <2>0, FiniteParts
      <4>3. Cardinality(Within(now)) <= Cardinality(InWindow(stamp[r]))
        BY <4>1, <4>2, FS_Subset
      <4>4. Waiting(now)' \in SUBSET Alive'
        BY DEF Waiting, Alive, Live
      <4>5. IsFiniteSet(Alive') /\ Cardinality(Alive') \in Nat /\ Cardinality(Alive') <= MaxActive
        BY <1>2, FiniteParts
      <4>6. Cardinality(Waiting(now)') <= Cardinality(Alive') /\ Cardinality(Waiting(now)') \in Nat
        BY <4>4, <4>5, FS_Subset, FS_CardinalityType
      <4>7. LimitOf[r] <= Ceiling /\ LimitOf[r] \in Nat /\ Ceiling \in Nat /\ MaxActive \in Nat
        BY LimitAssumption DEF LimitAssumption
      <4> QED BY <2>1, <3>0, <4>2, <4>3, <4>5, <4>6, <4>7
    <3>2. CASE ~(now - Window < stamp[r] /\ stamp[r] <= now)
      <4>1. Waiting(now)' = Waiting(now)
        BY <2>0, <3>2 DEF Count, Goto, SlotTypes, Waiting
      <4> QED BY <3>0, <4>1
    <3> QED BY <3>1, <3>2
  <2> QED BY <1>1, <1>2, <2>2
<1> QED BY <1>3, <1>4

\* The row a counted run inserts was charged to its window already.
LEMMA SlotInsert ==
  ASSUME SlotInv, NEW r \in Runs, Insert(r)
  PROVE  SlotInv'
<1> USE DEF SlotInv
<1> DEFINE row == [run |-> r, k |-> made[r], at |-> stamp[r], open |-> TRUE, bytes |-> Estimate]
<1>0. rows' = rows \cup {row} /\ stamp' = stamp /\ stamp[r] \in Times
  BY DEF Insert, SlotTypes
<1>1. SlotTypes'
  <2>1. row \in [run : Runs, k : Nat, at : Times, open : BOOLEAN, bytes : Nat]
    BY SizeAssumption DEF SlotTypes, SizeAssumption
  <2>2. IsFiniteSet(rows')
    BY <1>0, FS_AddElement DEF SlotTypes
  <2> QED BY <1>0, <2>1, <2>2 DEF Insert, Goto, SlotTypes
<1>2. Alive' = Alive
  BY DEF Insert, Goto, SlotTypes, Alive, Live
<1>3. ASSUME NEW now \in Times
      PROVE  Cardinality(Within(now)') + Cardinality(Waiting(now)') <= Ceiling + MaxActive - 1
  <2>0. /\ IsFiniteSet(Within(now)) /\ Cardinality(Within(now)) \in Nat
        /\ IsFiniteSet(Waiting(now)) /\ Cardinality(Waiting(now)) \in Nat
    BY FiniteParts
  <2>1. CASE now - Window < stamp[r] /\ stamp[r] <= now
    <3>1. Within(now)' = Within(now) \cup {row}
      BY <1>0, <2>1 DEF Within, InWindow
    <3>2. Waiting(now)' = Waiting(now) \ {r} /\ r \in Waiting(now)
      BY <1>0, <2>1 DEF Insert, Goto, SlotTypes, Waiting
    <3>3. Cardinality(Within(now)') <= Cardinality(Within(now)) + 1 /\ Cardinality(Within(now)') \in Nat
      <4> HIDE DEF row
      <4> QED BY <2>0, <3>1, AddAtMostOne
    <3>4. Cardinality(Waiting(now)') = Cardinality(Waiting(now)) - 1
      BY <2>0, <3>2, FS_RemoveElement
    <3> QED BY <2>0, <3>3, <3>4, LimitAssumption DEF LimitAssumption
  <2>2. CASE ~(now - Window < stamp[r] /\ stamp[r] <= now)
    <3>1. row.at = stamp[r]
      OBVIOUS
    <3>2. stamp[r] \in Int /\ now \in Int /\ Window \in Int
      BY <1>0, LimitAssumption DEF Times, LimitAssumption
    <3>3. ~(row.at > now - Window /\ row.at <= now)
      BY <2>2, <3>1, <3>2
    <3>4. Within(now)' = Within(now)
      BY <1>0, <3>3 DEF Within, InWindow
    <3>5. Waiting(now)' = Waiting(now)
      BY <1>0, <2>2 DEF Insert, Goto, SlotTypes, Waiting
    <3> QED BY <3>4, <3>5
  <2> QED BY <2>1, <2>2
<1> QED BY <1>1, <1>2, <1>3

\* complete() rewrites rows in place: no window gains one.
LEMMA SlotComplete ==
  ASSUME SlotInv, NEW r \in Runs, Complete(r)
  PROVE  SlotInv'
<1> USE DEF SlotInv
<1>0. PICK size \in Sizes :
        /\ \/ Goto(r, "answered", "ready")
           \/ size = 0 /\ retry[r] = 0 /\ Goto(r, "reserved", "ready")
        /\ rows' = Closed(r, size)
        /\ UNCHANGED <<clock, status, sends, stamp, made, retry>>
  BY DEF Complete
<1> DEFINE Row == [run : Runs, k : Nat, at : Times, open : BOOLEAN, bytes : Nat]
           f == [q \in rows |->
                   IF q.run = r /\ q.open THEN [q EXCEPT !.open = FALSE, !.bytes = size] ELSE q]
<1>1. size \in Nat
  BY SizeAssumption DEF SizeAssumption
<1>2. ASSUME NEW q \in rows PROVE f[q] \in Row /\ f[q].at = q.at
  BY <1>1 DEF SlotTypes
<1>3. rows' = { f[q] : q \in rows }
  BY <1>0 DEF Closed
<1>4. ASSUME NEW S \in SUBSET rows, IsFiniteSet(S)
      PROVE  /\ IsFiniteSet({ f[q] : q \in S })
             /\ Cardinality({ f[q] : q \in S }) <= Cardinality(S)
  <2> DEFINE g == [q \in S |-> f[q]]
             T == { f[q] : q \in S }
  <2> HIDE DEF f
  <2>1. g \in Surjection(S, T)
    BY DEF Surjection
  <2> HIDE DEF g, T
  <2>2. IsFiniteSet(T) /\ Cardinality(T) <= Cardinality(S)
    BY <1>4, <2>1, FS_Surjection
  <2> QED BY <2>2 DEF T
<1> HIDE DEF f
<1>5. SlotTypes'
  <2>1. rows' \subseteq Row
    BY <1>2, <1>3
  <2>2. IsFiniteSet(rows')
    BY <1>3, <1>4 DEF SlotTypes
  <2>3. pc' \in [Runs -> {"idle", "ready", "asking", "counted", "reserved", "answered",
                          "done", "crashed"}]
    BY <1>0 DEF Goto, SlotTypes
  <2> QED BY <1>0, <2>1, <2>2, <2>3 DEF SlotTypes
<1>6. Alive' = Alive
  BY <1>0 DEF Goto, SlotTypes, Alive, Live
<1>7. ASSUME NEW now \in Times
      PROVE  Cardinality(Within(now)') + Cardinality(Waiting(now)') <= Ceiling + MaxActive - 1
  <2>1. Waiting(now)' = Waiting(now)
    BY <1>0 DEF Goto, SlotTypes, Waiting
  <2>2. Within(now)' = { f[q] : q \in Within(now) }
    BY <1>2, <1>3 DEF Within, InWindow
  <2>3. Within(now) \in SUBSET rows
    BY DEF Within, InWindow
  <2>4. /\ IsFiniteSet(Within(now)) /\ Cardinality(Within(now)) \in Nat
        /\ Cardinality(Waiting(now)) \in Nat
    BY FiniteParts
  <2>5. IsFiniteSet(Within(now)') /\ Cardinality(Within(now)') <= Cardinality(Within(now))
    BY <1>4, <2>2, <2>3, <2>4
  <2>6. Cardinality(Within(now)') \in Nat
    BY <2>5, FS_CardinalityType
  <2> QED BY <2>1, <2>4, <2>5, <2>6, LimitAssumption DEF LimitAssumption
<1> QED BY <1>5, <1>6, <1>7

\* Every step keeps SlotInv.
LEMMA SlotNext == SlotInv /\ [Next]_vars => SlotInv'
<1> SUFFICES ASSUME SlotInv, [Next]_vars PROVE SlotInv'
  OBVIOUS
<1>1. ASSUME NEW r \in Runs, CreateRun(r) PROVE SlotInv'
  BY <1>1, SlotCreateRun
<1>2. ASSUME NEW r \in Runs, Ask(r) PROVE SlotInv'
  <2>1. SlotTypes'
    BY <1>2 DEF SlotInv, Ask, Goto, SlotTypes, database
  <2>2. rows' = rows /\ Alive' \subseteq Alive
    BY <1>2 DEF SlotInv, Ask, Goto, SlotTypes, database, Alive, Live
  <2>3. ASSUME NEW now \in Times PROVE Waiting(now)' \subseteq Waiting(now)
    BY <1>2 DEF SlotInv, Ask, Goto, SlotTypes, Waiting
  <2> QED BY <2>1, <2>2, <2>3, SlotKept
<1>3. ASSUME NEW r \in Runs, Count(r) PROVE SlotInv'
  BY <1>3, SlotCount
<1>4. ASSUME NEW r \in Runs, Insert(r) PROVE SlotInv'
  BY <1>4, SlotInsert
<1>5. ASSUME NEW r \in Runs, Complete(r) PROVE SlotInv'
  BY <1>5, SlotComplete
<1>6. ASSUME NEW r \in Runs, Send(r) \/ Finish(r) \/ Crash(r) PROVE SlotInv'
  <2>1. SlotTypes'
    BY <1>6 DEF SlotInv, Send, Finish, Crash, Goto, SlotTypes, database
  <2>2. rows' = rows /\ Alive' \subseteq Alive
    BY <1>6 DEF SlotInv, Send, Finish, Crash, Goto, SlotTypes, database, Alive, Live
  <2>3. ASSUME NEW now \in Times PROVE Waiting(now)' \subseteq Waiting(now)
    BY <1>6 DEF SlotInv, Send, Finish, Crash, Goto, SlotTypes, Waiting
  <2> QED BY <2>1, <2>2, <2>3, SlotKept
<1>7. ASSUME Tick \/ UNCHANGED vars PROVE SlotInv'
  <2>1. SlotTypes'
    BY <1>7, SizeAssumption DEF SlotInv, Tick, SlotTypes, database, vars, Times, SizeAssumption
  <2>2. rows' = rows /\ Alive' \subseteq Alive
    BY <1>7 DEF Tick, database, vars, Alive, Live
  <2>3. ASSUME NEW now \in Times PROVE Waiting(now)' \subseteq Waiting(now)
    BY <1>7 DEF Tick, vars, Waiting
  <2> QED BY <2>1, <2>2, <2>3, SlotKept
<1> QED BY <1>1, <1>2, <1>3, <1>4, <1>5, <1>6, <1>7 DEF Next

\* Whatever runs interleave, and whatever times they pass to reserve, no
\* rolling window ever holds more rows than the largest limit plus one for
\* every run but the first.
THEOREM OvershootIsBounded == Spec => []OvershootBounded
<1>1. SlotInv => OvershootBounded
  <2> SUFFICES ASSUME SlotInv, NEW now \in Times
               PROVE  Cardinality(Within(now)) <= Ceiling + MaxActive - 1
    BY DEF OvershootBounded
  <2>1. Cardinality(Within(now)) \in Nat /\ Cardinality(Waiting(now)) \in Nat
    BY FiniteParts DEF SlotInv
  <2>2. Cardinality(Within(now)) + Cardinality(Waiting(now)) <= Ceiling + MaxActive - 1
    BY DEF SlotInv
  <2> QED BY <2>1, <2>2, LimitAssumption DEF LimitAssumption
<1> QED BY <1>1, SlotInit, SlotNext, PTL DEF Spec

-----------------------------------------------------------------------------
(***************************************************************************)
(* Counters and budgets                                                    *)
(***************************************************************************)

\* The rows of a set with their sizes, and how their sum splits.
LEMMA BytesSplit ==
  ASSUME NEW S, IsFiniteSet(S), \A q \in S : q.bytes \in Nat
  PROVE  /\ SumBytes(S) \in Nat
         /\ \A x \in S : SumBytes(S) = x.bytes + SumBytes(S \ {x})
<1> DEFINE w == [q \in S |-> q.bytes]
<1>1. DOMAIN w = S /\ SumBytes(S) = SumFunctionOnSet(w, S)
  BY DEF SumBytes, SumFunction
<1>2. Splits(w, S)
  BY SumSplits DEF Weighed
<1>3. ASSUME NEW x \in S
      PROVE  SumFunctionOnSet(w, S \ {x}) = SumBytes(S \ {x}) /\ w[x] = x.bytes
  <2> DEFINE v == [q \in S \ {x} |-> q.bytes]
  <2>1. DOMAIN v = S \ {x} /\ \A q \in S \ {x} : w[q] = v[q]
    OBVIOUS
  <2>2. IsFiniteSet(S \ {x})
    BY FS_RemoveElement
  <2>3. SumFunctionOnSet(w, S \ {x}) = SumFunctionOnSet(v, S \ {x})
    <3> HIDE DEF w, v
    <3> QED
      BY <2>1, <2>2, SumsAgree
  <2>4. SumBytes(S \ {x}) = SumFunctionOnSet(v, S \ {x})
    BY <2>1 DEF SumBytes, SumFunction
  <2> QED
    BY <2>3, <2>4
<1> HIDE DEF w
<1> QED
  BY <1>1, <1>2, <1>3 DEF Splits

\* No rows, no bytes.
LEMMA BytesOfNone == SumBytes({}) = 0
BY SumOfNone DEF SumBytes, SumFunction

\* Finitely many rows, each with a size.
Sized(S) == IsFiniteSet(S) /\ \A q \in S : q.bytes \in Nat

\* The rows of a run that complete() has closed.
ClosedOf(r) == { q \in RowsOf(r) : ~q.open }

\* The rows of a run are numbered by its reserves; only the last can be open,
\* and only while the run uses it or after it died.
Numbered(r) ==
  /\ \A q \in RowsOf(r) : q.k <= made[r]
  /\ pc[r] \in {"asking", "counted"} => \A q \in RowsOf(r) : q.k < made[r]
  /\ \A p, q \in RowsOf(r) : p.k = q.k => p = q
  /\ \A q \in RowsOf(r) :
       q.open => q.k = made[r] /\ pc[r] \in {"reserved", "answered", "crashed"}

\* What the counters of a run are worth, and how far its closed rows go: from
\* the count on there is room for the estimate of one more.
Booked(r) ==
  /\ requestCount[r] = Cardinality(ClosedOf(r))
  /\ bytesReceived[r] = SumBytes(ClosedOf(r))
  /\ pc[r] \in {"counted", "reserved", "answered"} => bytesReceived[r] + Estimate <= Budget
  /\ \A biggest \in Sizes : (\A s \in Sizes : s <= biggest) =>
       bytesReceived[r] = 0 \/ bytesReceived[r] <= Budget - Estimate + biggest

BookInv ==
  /\ requestCount \in [Runs -> Nat] /\ bytesReceived \in [Runs -> Nat]
  /\ \A r \in Runs : Numbered(r) /\ Booked(r)

\* The rows of a run are finite in number and have sizes.
LEMMA RowsWeigh ==
  ASSUME SlotTypes, NEW r
  PROVE  /\ Sized(RowsOf(r)) /\ Sized(ClosedOf(r))
         /\ \A q \in RowsOf(r) : q.k \in Nat
<1>1. RowsOf(r) \in SUBSET rows /\ ClosedOf(r) \in SUBSET rows
  BY DEF RowsOf, ClosedOf
<1>2. IsFiniteSet(RowsOf(r)) /\ IsFiniteSet(ClosedOf(r))
  BY <1>1, FS_Subset DEF SlotTypes
<1> QED
  BY <1>1, <1>2 DEF SlotTypes, Sized

\* A run whose rows and counters stay as they are keeps its books, unless it
\* passes the count.
LEMMA BooksKept ==
  ASSUME NEW r \in Runs, Numbered(r), Booked(r),
         RowsOf(r)' = RowsOf(r), made'[r] = made[r],
         requestCount'[r] = requestCount[r], bytesReceived'[r] = bytesReceived[r],
         \/ pc'[r] = pc[r]
         \/ pc'[r] \in {"ready", "done", "crashed"} /\ pc[r] \notin {"reserved", "answered", "crashed"}
         \/ pc'[r] = "crashed"
         \/ pc'[r] \in {"reserved", "answered"} /\ pc[r] = "reserved"
  PROVE  Numbered(r)' /\ Booked(r)'
<1>1. ClosedOf(r)' = ClosedOf(r)
  BY DEF ClosedOf
<1>2. Numbered(r)'
  BY DEF Numbered
<1>3. Booked(r)'
  BY <1>1 DEF Booked
<1> QED
  BY <1>2, <1>3

\* No rows, no counters.
LEMMA BooksInit == Init => BookInv
<1> SUFFICES ASSUME Init PROVE BookInv
  OBVIOUS
<1>1. \A r \in Runs : RowsOf(r) = {} /\ ClosedOf(r) = {}
  BY DEF Init, RowsOf, ClosedOf
<1>2. SumBytes({}) = 0 /\ Cardinality({}) = 0
  BY BytesOfNone, FS_EmptySet
<1>3. \A r \in Runs : Numbered(r)
  BY <1>1 DEF Init, Numbered
<1>4. \A r \in Runs : Booked(r)
  BY <1>1, <1>2 DEF Init, Booked
<1> QED
  BY <1>3, <1>4 DEF Init, BookInv

\* Taking a number for the next reserve.
LEMMA BooksAsk ==
  ASSUME SlotTypes, BookInv, NEW r \in Runs, Ask(r)
  PROVE  Numbered(r)' /\ Booked(r)'
<1>1. /\ pc[r] = "ready" /\ pc'[r] = "asking" /\ made'[r] = made[r] + 1 /\ made[r] \in Nat
      /\ rows' = rows /\ requestCount' = requestCount /\ bytesReceived' = bytesReceived
  BY DEF Ask, Goto, SlotTypes, database
<1>2. RowsOf(r)' = RowsOf(r) /\ ClosedOf(r)' = ClosedOf(r) /\ \A q \in RowsOf(r) : q.k \in Nat
  BY <1>1, RowsWeigh DEF RowsOf, ClosedOf
<1>3. Numbered(r)'
  BY <1>1, <1>2 DEF BookInv, Numbered
<1>4. Booked(r)'
  BY <1>1, <1>2 DEF BookInv, Booked
<1> QED
  BY <1>3, <1>4

\* A reserve is granted where one more estimate fits the budget.
LEMMA BooksCount ==
  ASSUME SlotTypes, BookInv, NEW r \in Runs, Count(r)
  PROVE  Numbered(r)' /\ Booked(r)'
<1>1. /\ pc[r] = "asking" /\ made' = made
      /\ rows' = rows /\ requestCount' = requestCount /\ bytesReceived' = bytesReceived
  BY DEF Count, Goto, SlotTypes, database
<1>2. RowsOf(r)' = RowsOf(r) /\ ClosedOf(r)' = ClosedOf(r) /\ ClosedOf(r) = RowsOf(r)
  BY <1>1 DEF RowsOf, ClosedOf, BookInv, Numbered
<1>3. CASE pc'[r] = "ready"
  BY <1>1, <1>2, <1>3, BooksKept DEF BookInv
<1>4. CASE pc'[r] = "counted"
  <2>1. SumBytes(ClosedOf(r)) + Estimate <= Budget
    BY <1>2, <1>4 DEF Count, Goto, SlotTypes, FitsBudget
  <2>2. Numbered(r)'
    BY <1>1, <1>2, <1>4 DEF BookInv, Numbered
  <2>3. Booked(r)'
    BY <1>1, <1>2, <2>1 DEF BookInv, Booked
  <2> QED
    BY <2>2, <2>3
<1> QED
  BY <1>3, <1>4 DEF Count, Goto, SlotTypes

\* The row of a reserve is open and has a number of its own.
LEMMA BooksInsert ==
  ASSUME SlotTypes, BookInv, NEW r \in Runs, Insert(r)
  PROVE  Numbered(r)' /\ Booked(r)'
<1> DEFINE row == [run |-> r, k |-> made[r], at |-> stamp[r], open |-> TRUE, bytes |-> Estimate]
<1>1. /\ pc[r] = "counted" /\ pc'[r] = "reserved" /\ made' = made /\ rows' = rows \cup {row}
      /\ requestCount' = requestCount /\ bytesReceived' = bytesReceived
  BY DEF Insert, Goto, SlotTypes
<1>2. row.run = r /\ row.k = made[r] /\ row.open = TRUE /\ made[r] \in Nat
  BY DEF SlotTypes
<1> HIDE DEF row
<1>3. RowsOf(r)' = RowsOf(r) \cup {row} /\ ClosedOf(r)' = ClosedOf(r)
  BY <1>1, <1>2 DEF RowsOf, ClosedOf
<1>4. \A q \in RowsOf(r) : q.k < made[r] /\ ~q.open /\ q.k \in Nat
  BY <1>1, RowsWeigh DEF BookInv, Numbered
<1>5. Numbered(r)'
  BY <1>1, <1>2, <1>3, <1>4 DEF BookInv, Numbered
<1>6. Booked(r)'
  BY <1>1, <1>3 DEF BookInv, Booked
<1> QED
  BY <1>5, <1>6

\* complete() closes the open row of its run and leaves every other row alone.
LEMMA CompleteCloses ==
  ASSUME SlotTypes, BookInv, NEW r \in Runs, NEW size \in Sizes, rows' = Closed(r, size)
  PROVE  /\ \A m \in Runs : m # r => RowsOf(m)' = RowsOf(m)
         /\ \/ RowsOf(r)' = RowsOf(r) /\ ClosedOf(r) = RowsOf(r)
            \/ \E x : /\ x.run = r /\ x.k = made[r] /\ ~x.open /\ x.bytes = size
                      /\ \A q \in ClosedOf(r) : q.k # made[r]
                      /\ RowsOf(r)' = ClosedOf(r) \cup {x}
<1> DEFINE f(q) == IF q.run = r /\ q.open THEN [q EXCEPT !.open = FALSE, !.bytes = size] ELSE q
<1>0. \A q \in rows : /\ q \in [run : Runs, k : Nat, at : Times, open : BOOLEAN, bytes : Nat]
                      /\ f(q).run = q.run
  BY DEF SlotTypes
<1>1. rows' = { f(q) : q \in rows }
  BY DEF Closed
<1>2. \A m : RowsOf(m)' = { f(q) : q \in RowsOf(m) }
  BY <1>0, <1>1 DEF RowsOf
<1>3. ASSUME NEW m \in Runs, m # r PROVE RowsOf(m)' = RowsOf(m)
  <2>1. \A q \in RowsOf(m) : f(q) = q
    BY <1>3 DEF RowsOf
  <2> HIDE DEF f
  <2> QED
    BY <1>2, <2>1
<1>4. CASE ClosedOf(r) = RowsOf(r)
  <2>1. \A q \in RowsOf(r) : ~q.open
    BY <1>4 DEF ClosedOf
  <2>2. \A q \in RowsOf(r) : f(q) = q
    BY <2>1
  <2> HIDE DEF f
  <2> QED
    BY <1>2, <1>3, <1>4, <2>2
<1>5. CASE ClosedOf(r) # RowsOf(r)
  <2>1. PICK o \in RowsOf(r) : o.open
    BY <1>5 DEF ClosedOf
  <2>2. o.k = made[r] /\ o.run = r /\ o \in rows
    BY <2>1 DEF BookInv, Numbered, RowsOf
  <2>3. \A q \in RowsOf(r) : q.open <=> q = o
    BY <2>1 DEF BookInv, Numbered
  <2>4. RowsOf(r) = ClosedOf(r) \cup {o} /\ \A q \in ClosedOf(r) : q # o /\ ~q.open
    BY <2>1, <2>3 DEF ClosedOf
  <2>5. \A q \in ClosedOf(r) : q.k # made[r]
    BY <2>1, <2>2, <2>4 DEF BookInv, Numbered
  <2>6. \A q \in ClosedOf(r) : f(q) = q
    BY <2>4
  <2>7. f(o).run = r /\ f(o).k = made[r] /\ ~f(o).open /\ f(o).bytes = size
    BY <1>0, <2>1, <2>2
  <2> HIDE DEF f
  <2>8. RowsOf(r)' = ClosedOf(r) \cup {f(o)}
    BY <1>2, <2>4, <2>6
  <2> QED
    BY <1>3, <2>5, <2>7, <2>8
<1> QED
  BY <1>4, <1>5

\* The answer is booked: its row is closed and the counters follow.
LEMMA BooksComplete ==
  ASSUME SlotInv, BookInv, NEW r \in Runs, Complete(r)
  PROVE  BookInv'
<1>0. SlotTypes
  BY DEF SlotInv
<1> PICK size \in Sizes :
      /\ pc[r] \in {"answered", "reserved"} /\ pc' = [pc EXCEPT ![r] = "ready"]
      /\ rows' = Closed(r, size)
      /\ requestCount' = [requestCount EXCEPT ![r] = Cardinality(RowsOf(r)')]
      /\ bytesReceived' = [bytesReceived EXCEPT ![r] = SumBytes(ClosedOf(r)')]
      /\ made' = made
  BY DEF Complete, Goto, CountersOver, RowsOf, ClosedOf
<1>1. pc'[r] = "ready" /\ \A m \in Runs : m # r => pc'[m] = pc[m]
  BY <1>0 DEF SlotTypes
<1>2. SlotTypes'
  BY SlotComplete DEF SlotInv
<1>3. /\ Cardinality(RowsOf(r)') \in Nat /\ SumBytes(ClosedOf(r)') \in Nat
      /\ Sized(RowsOf(r)') /\ Sized(ClosedOf(r)')
  <2>1. RowsOf(r)' \in SUBSET rows' /\ ClosedOf(r)' \in SUBSET rows'
    BY DEF RowsOf, ClosedOf
  <2>2. IsFiniteSet(RowsOf(r)') /\ IsFiniteSet(ClosedOf(r)')
    BY <1>2, <2>1, FS_Subset DEF SlotTypes
  <2>3. Sized(RowsOf(r)') /\ Sized(ClosedOf(r)')
    BY <1>2, <2>1, <2>2 DEF SlotTypes, Sized
  <2> QED
    BY <2>2, <2>3, BytesSplit, FS_CardinalityType DEF Sized
<1>4. ASSUME NEW m \in Runs, m # r PROVE Numbered(m)' /\ Booked(m)'
  <2>1. RowsOf(m)' = RowsOf(m)
    BY <1>0, <1>4, CompleteCloses
  <2>2. Numbered(m) /\ Booked(m)
    BY DEF BookInv
  <2>3. /\ made'[m] = made[m] /\ pc'[m] = pc[m]
        /\ requestCount'[m] = requestCount[m] /\ bytesReceived'[m] = bytesReceived[m]
    BY <1>1, <1>4 DEF BookInv
  <2> QED
    BY <2>1, <2>2, <2>3, BooksKept
<1>5. requestCount'[r] = Cardinality(RowsOf(r)') /\ bytesReceived'[r] = SumBytes(ClosedOf(r)')
  BY DEF BookInv
<1>6. ASSUME RowsOf(r)' = RowsOf(r), ClosedOf(r) = RowsOf(r)
      PROVE  Numbered(r)' /\ Booked(r)'
  <2>1. ClosedOf(r)' = RowsOf(r)'
    BY <1>6 DEF ClosedOf
  <2>2. Numbered(r)'
    <3>1. \A q \in RowsOf(r) : ~q.open
      BY <1>6 DEF ClosedOf
    <3> QED
      BY <1>1, <1>6, <3>1 DEF BookInv, Numbered
  <2>3. bytesReceived'[r] = bytesReceived[r]
    BY <1>5, <1>6, <2>1 DEF BookInv, Booked
  <2>4. /\ requestCount'[r] = Cardinality(ClosedOf(r)')
        /\ bytesReceived'[r] = SumBytes(ClosedOf(r)')
    BY <1>5, <2>1
  <2>5. Booked(r)
    BY DEF BookInv
  <2>6. Booked(r)'
    BY <1>1, <2>3, <2>4, <2>5 DEF Booked
  <2> QED
    BY <2>2, <2>6
<1>7. ASSUME NEW x, x.run = r, x.k = made[r], ~x.open, x.bytes = size,
             \A q \in ClosedOf(r) : q.k # made[r], RowsOf(r)' = ClosedOf(r) \cup {x}
      PROVE  Numbered(r)' /\ Booked(r)'
  <2>1. ClosedOf(r)' = RowsOf(r)'
    BY <1>7 DEF ClosedOf
  <2>2. made[r] \in Nat /\ \A q \in ClosedOf(r) : q \in RowsOf(r) /\ ~q.open
    BY <1>0 DEF ClosedOf, SlotTypes
  <2>3. Numbered(r)'
    BY <1>1, <1>7, <2>2 DEF BookInv, Numbered
  <2>4. (ClosedOf(r)') \ {x} = ClosedOf(r) /\ x \in ClosedOf(r)'
    BY <1>7, <2>1
  <2>5. SumBytes(ClosedOf(r)') = size + SumBytes(ClosedOf(r))
    BY <1>3, <1>7, <2>4, BytesSplit DEF Sized
  <2>6. bytesReceived[r] = SumBytes(ClosedOf(r)) /\ bytesReceived[r] + Estimate <= Budget
        /\ bytesReceived[r] \in Nat
    BY DEF BookInv, Booked
  <2>7. ASSUME NEW biggest \in Sizes, \A s \in Sizes : s <= biggest
        PROVE  bytesReceived'[r] <= Budget - Estimate + biggest
    <3>1. size <= biggest /\ size \in Nat /\ biggest \in Nat /\ Budget \in Nat /\ Estimate \in Nat
      BY <2>7, SizeAssumption DEF SizeAssumption
    <3> QED
      BY <1>5, <2>5, <2>6, <3>1
  <2>8. Booked(r)'
    BY <1>1, <1>5, <2>1, <2>7 DEF Booked
  <2> QED
    BY <2>3, <2>8
<1>8. requestCount' \in [Runs -> Nat] /\ bytesReceived' \in [Runs -> Nat]
  BY <1>3 DEF BookInv
<1>9. Numbered(r)' /\ Booked(r)'
  <2>1. \/ RowsOf(r)' = RowsOf(r) /\ ClosedOf(r) = RowsOf(r)
        \/ \E x : /\ x.run = r /\ x.k = made[r] /\ ~x.open /\ x.bytes = size
                  /\ \A q \in ClosedOf(r) : q.k # made[r]
                  /\ RowsOf(r)' = ClosedOf(r) \cup {x}
    BY <1>0, CompleteCloses
  <2> QED
    BY <1>6, <1>7, <2>1
<1> QED
  BY <1>4, <1>8, <1>9 DEF BookInv

\* Every step keeps the books.
LEMMA BooksNext == SlotInv /\ BookInv /\ [Next]_vars => BookInv'
<1> SUFFICES ASSUME SlotInv, BookInv, [Next]_vars PROVE BookInv'
  OBVIOUS
<1>0. SlotTypes
  BY DEF SlotInv
<1>1. ASSUME NEW r \in Runs, Complete(r) PROVE BookInv'
  BY <1>1, BooksComplete
<1>2. ASSUME NEW r \in Runs, Ask(r) \/ Count(r) \/ Insert(r) PROVE BookInv'
  <2>1. /\ requestCount' = requestCount /\ bytesReceived' = bytesReceived
        /\ \A m \in Runs : m # r => pc'[m] = pc[m] /\ made'[m] = made[m]
    BY <1>0, <1>2 DEF Ask, Count, Insert, Goto, database, SlotTypes
  <2>2. ASSUME NEW m \in Runs, m # r PROVE RowsOf(m)' = RowsOf(m)
    BY <1>2, <2>2 DEF Ask, Count, Insert, database, RowsOf
  <2>3. ASSUME NEW m \in Runs, m # r PROVE Numbered(m)' /\ Booked(m)'
    <3>1. Numbered(m) /\ Booked(m)
      BY DEF BookInv
    <3> QED
      BY <2>1, <2>2, <2>3, <3>1, BooksKept
  <2>4. Numbered(r)' /\ Booked(r)'
    BY <1>0, <1>2, BooksAsk, BooksCount, BooksInsert
  <2> QED
    BY <2>1, <2>3, <2>4 DEF BookInv
<1>3. CASE \/ \E r \in Runs : CreateRun(r) \/ Send(r) \/ Finish(r) \/ Crash(r)
           \/ Tick \/ UNCHANGED vars
  <2>1. /\ requestCount' = requestCount /\ bytesReceived' = bytesReceived
        /\ rows' = rows /\ made' = made
    BY <1>3 DEF CreateRun, Send, Finish, Crash, Tick, database, vars
  <2>2. ASSUME NEW m \in Runs
        PROVE  \/ pc'[m] = pc[m]
               \/ /\ pc'[m] \in {"ready", "done", "crashed"}
                  /\ pc[m] \notin {"reserved", "answered", "crashed"}
               \/ pc'[m] = "crashed"
               \/ pc'[m] \in {"reserved", "answered"} /\ pc[m] = "reserved"
    BY <1>0, <1>3 DEF CreateRun, Send, Finish, Crash, Goto, Tick, vars, SlotTypes
  <2>3. ASSUME NEW m \in Runs PROVE Numbered(m)' /\ Booked(m)'
    <3>1. RowsOf(m)' = RowsOf(m)
      BY <2>1 DEF RowsOf
    <3>2. Numbered(m) /\ Booked(m)
      BY DEF BookInv
    <3> QED
      BY <2>1, <2>2, <3>1, <3>2, BooksKept
  <2> QED
    BY <2>1, <2>3 DEF BookInv
<1> QED
  BY <1>1, <1>2, <1>3 DEF Next

\* The books are kept in every reachable state.
LEMMA BooksHold == Spec => [](SlotInv /\ BookInv)
<1> QED
  BY SlotInit, SlotNext, BooksInit, BooksNext, PTL DEF Spec

\* The counters of a run are those of its closed rows; it has at most one
\* open row, and none when it ended by itself.
THEOREM CountersAlwaysAgree == Spec => []CountersAgree
<1>1. SlotInv /\ BookInv => CountersAgree
  <2> SUFFICES ASSUME SlotTypes, BookInv, NEW r \in Runs
               PROVE  /\ bytesReceived[r] = SumBytes(ClosedOf(r))
                      /\ Cardinality(RowsOf(r)) - requestCount[r] \in {0, 1}
                      /\ pc[r] = "done" => Cardinality(RowsOf(r)) = requestCount[r]
    BY DEF CountersAgree, ClosedOf, SlotInv
  <2>1. /\ bytesReceived[r] = SumBytes(ClosedOf(r))
        /\ requestCount[r] = Cardinality(ClosedOf(r)) /\ requestCount[r] \in Nat
    BY DEF BookInv, Booked
  <2>2. CASE ClosedOf(r) = RowsOf(r)
    BY <2>1, <2>2
  <2>3. CASE ClosedOf(r) # RowsOf(r)
    <3>1. PICK o \in RowsOf(r) : o.open
      BY <2>3 DEF ClosedOf
    <3>2. pc[r] # "done" /\ \A q \in RowsOf(r) : q.open => q = o
      BY <3>1 DEF BookInv, Numbered
    <3>3. RowsOf(r) = ClosedOf(r) \cup {o} /\ o \notin ClosedOf(r)
      BY <3>1, <3>2 DEF ClosedOf
    <3>4. Cardinality(RowsOf(r)) = Cardinality(ClosedOf(r)) + 1
      BY <3>3, RowsWeigh, FS_AddElement DEF Sized
    <3> QED
      BY <2>1, <3>2, <3>4
  <2> QED
    BY <2>2, <2>3
<1> QED
  BY <1>1, BooksHold, PTL

\* What a run received goes past its budget by no more than its one response
\* that was larger than the estimate.
THEOREM BudgetOvershootIsBounded == Spec => []BudgetOvershootBounded
<1>1. SlotInv /\ BookInv => BudgetOvershootBounded
  BY DEF BudgetOvershootBounded, BookInv, Booked, ClosedOf
<1> QED
  BY <1>1, BooksHold, PTL

-----------------------------------------------------------------------------
(***************************************************************************)
(* The features of an address                                              *)
(***************************************************************************)
\* What the sums, maxima and counts of a history have in common, whatever the
\* transactions are.
Sound(f) ==
  /\ f.lifetime \in Nat /\ f.current \in Int /\ f.gross \in Nat /\ f.age \in Nat
  /\ f.current <= f.lifetime
  /\ \A w \in Windows :
       /\ f.largest[w] \in Nat /\ f.large[w] \in Nat
       /\ f.active[w] \in Nat /\ f.days[w] \in Nat
       /\ f.largest[w] <= f.lifetime
       /\ f.large[w] <= f.active[w] /\ f.days[w] <= f.active[w]
       /\ f.large[w] >= 1 <=> f.largest[w] >= 500
  /\ \A v, w \in Windows : v <= w =>
       /\ f.largest[v] <= f.largest[w] /\ f.large[v] <= f.large[w]
       /\ f.active[v] <= f.active[w] /\ f.days[v] <= f.days[w]

\* A sum of naturals over a finite set is a natural no smaller than any of them.
LEMMA SumOfNaturals ==
  ASSUME NEW w, NEW S, Weighed(w, S)
  PROVE  SumFunctionOnSet(w, S) \in Nat /\ \A x \in S : w[x] <= SumFunctionOnSet(w, S)
<1>1. Splits(w, S)
  BY SumSplits
<1>2. ASSUME NEW x \in S PROVE w[x] <= SumFunctionOnSet(w, S)
  <2>1. /\ SumFunctionOnSet(w, S) = w[x] + SumFunctionOnSet(w, S \ {x})
        /\ SumFunctionOnSet(w, S \ {x}) \in Nat /\ w[x] \in Nat
    BY <1>1 DEF Splits, Weighed
  <2> HIDE <1>1
  <2> QED
    BY <2>1
<1> QED
  BY <1>1, <1>2 DEF Splits

\* A history is a finite function, whose windows grow with their length.
LEMMA HistoryFacts ==
  ASSUME NEW txs \in Seq(Transactions)
  PROVE  /\ IsFiniteSet(DOMAIN txs)
         /\ \A i \in DOMAIN txs :
              txs[i].at \in Nat /\ txs[i].received \in Nat /\ txs[i].spent \in Nat
         /\ \A w \in Windows : w \in Nat /\ WithinDays(txs, w) \subseteq DOMAIN txs
         /\ \A v, w \in Windows : v <= w =>
              WithinDays(txs, v) \subseteq WithinDays(txs, w)
<1>1. DOMAIN txs = 1 .. Len(txs) /\ Len(txs) \in Nat
  OBVIOUS
<1>2. IsFiniteSet(DOMAIN txs)
  BY <1>1, FS_Interval
<1>3. \A i \in DOMAIN txs : txs[i] \in Transactions
  OBVIOUS
<1>4. \A i \in DOMAIN txs :
        txs[i].at \in Nat /\ txs[i].received \in Nat /\ txs[i].spent \in Nat
  <2>1. \A tx \in Transactions :
          tx \in [at: 0 .. 2 * AllTime, out: BOOLEAN, received: Nat, in: BOOLEAN, spent: Nat]
    BY TransactionsAssumption DEF TransactionsAssumption
  <2>2. 0 .. 2 * AllTime \subseteq Nat
    BY DEF AllTime
  <2>3. \A tx \in Transactions : tx.at \in Nat /\ tx.received \in Nat /\ tx.spent \in Nat
    BY <2>1, <2>2
  <2> QED
    BY <1>3, <2>3
<1>5. \A w \in Windows : w \in Nat
  BY DEF Windows, AllTime
<1> QED
  BY <1>2, <1>4, <1>5 DEF WithinDays

\* The sums: what came in, what is left of it, and what moved lately.
LEMMA SumsAreSound ==
  ASSUME NEW txs \in Seq(Transactions), NEW f, f = Economics(txs)
  PROVE  /\ f.lifetime \in Nat /\ f.current \in Int /\ f.gross \in Nat
         /\ f.current <= f.lifetime
         /\ \A i \in DOMAIN txs : txs[i].received <= f.lifetime
<1> DEFINE received == [i \in DOMAIN txs |-> txs[i].received]
           spent    == [i \in DOMAIN txs |-> txs[i].spent]
           moved    == [i \in DOMAIN txs |-> received[i] + spent[i]]
<1>1. /\ f.lifetime = SumFunctionOnSet(received, DOMAIN txs)
      /\ f.current = f.lifetime - SumFunctionOnSet(spent, DOMAIN txs)
      /\ f.gross = SumFunctionOnSet(moved, WithinDays(txs, 90))
  BY DEF Economics, SumFunction
<1>2. /\ Weighed(received, DOMAIN txs) /\ Weighed(spent, DOMAIN txs)
      /\ \A i \in DOMAIN txs : received[i] = txs[i].received
  BY HistoryFacts DEF Weighed
<1>3. Weighed(moved, WithinDays(txs, 90))
  <2>1. 90 \in Windows
    BY DEF Windows
  <2>2. IsFiniteSet(WithinDays(txs, 90)) /\ WithinDays(txs, 90) \subseteq DOMAIN txs
    BY <2>1, HistoryFacts, FS_Subset
  <2>3. \A i \in DOMAIN txs : moved[i] \in Nat
    BY HistoryFacts
  <2> HIDE DEF moved
  <2> QED
    BY <2>2, <2>3 DEF Weighed
<1> HIDE DEF received, spent, moved
<1>4. /\ SumFunctionOnSet(received, DOMAIN txs) \in Nat
      /\ \A i \in DOMAIN txs : received[i] <= SumFunctionOnSet(received, DOMAIN txs)
  BY <1>2, SumOfNaturals
<1>5. SumFunctionOnSet(spent, DOMAIN txs) \in Nat
  BY <1>2, SumOfNaturals
<1>6. SumFunctionOnSet(moved, WithinDays(txs, 90)) \in Nat
  BY <1>3, SumOfNaturals
<1> QED
  BY <1>1, <1>2, <1>4, <1>5, <1>6

\* The largest receipt of a window is a receipt of it or none.
LEMMA LargestIsSound ==
  ASSUME NEW txs \in Seq(Transactions), NEW f, f = Economics(txs), NEW w \in Windows
  PROVE  /\ f.largest[w] \in Nat
         /\ \A i \in WithinDays(txs, w) : txs[i].received <= f.largest[w]
         /\ \/ f.largest[w] = 0
            \/ \E i \in WithinDays(txs, w) : f.largest[w] = txs[i].received
<1> DEFINE received == [i \in DOMAIN txs |-> txs[i].received]
           Paid == { received[i] : i \in WithinDays(txs, w) }
<1>1. f.largest[w] = Max({0} \cup Paid)
  BY DEF Economics
<1>2. /\ WithinDays(txs, w) \in SUBSET (DOMAIN txs)
      /\ \A i \in DOMAIN txs : received[i] = txs[i].received /\ received[i] \in Nat
  BY HistoryFacts
<1> HIDE DEF received
<1>3. Paid \in SUBSET Nat
  BY <1>2
<1>4. IsFiniteSet(Paid)
  <2>1. IsFiniteSet(WithinDays(txs, w))
    BY <1>2, HistoryFacts, FS_Subset
  <2> QED
    BY <2>1, ImageIsSmaller
<1> DEFINE S == {0} \cup Paid
<1>5. S \in SUBSET Int /\ IsFiniteSet(S) /\ S # {}
  <2>1. IsFiniteSet({0})
    BY FS_Singleton
  <2>2. S \in SUBSET Int /\ S # {}
    BY <1>3
  <2> HIDE DEF Paid
  <2> QED
    BY <1>4, <2>1, <2>2, FS_Union
<1>6. Max(S) \in S /\ \A y \in S : y <= Max(S)
  <2> HIDE DEF S
  <2> QED
    BY <1>5, MaxIsLargest
<1>7. f.largest[w] = Max(S) /\ S \in SUBSET Nat /\ 0 \in S /\ Paid \subseteq S
  BY <1>1, <1>3
<1>8. f.largest[w] = 0 \/ f.largest[w] \in Paid
  BY <1>6, <1>7
<1> HIDE DEF S
<1>9. f.largest[w] \in Nat /\ \A y \in Paid : y <= f.largest[w]
  BY <1>6, <1>7
<1> QED
  BY <1>2, <1>8, <1>9

\* The counts of a window, and when they grow.
LEMMA CountsAreSound ==
  ASSUME NEW txs \in Seq(Transactions), NEW f, f = Economics(txs),
         NEW v \in Windows, NEW w \in Windows, v <= w
  PROVE  /\ f.large[w] \in Nat /\ f.active[w] \in Nat /\ f.days[w] \in Nat
         /\ f.large[w] <= f.active[w] /\ f.days[w] <= f.active[w]
         /\ f.large[v] <= f.large[w] /\ f.active[v] <= f.active[w] /\ f.days[v] <= f.days[w]
         /\ f.large[w] >= 1 <=> LargeWithin(txs, w) # {}
<1> DEFINE day == [i \in DOMAIN txs |-> Days(txs[i].at)]
           DaysOf(u) == { day[i] : i \in WithinDays(txs, u) }
<1>1. \A u \in Windows : /\ f.large[u] = Cardinality(LargeWithin(txs, u))
                         /\ f.active[u] = Cardinality(WithinDays(txs, u))
                         /\ f.days[u] = Cardinality({ Days(txs[i].at) : i \in WithinDays(txs, u) })
  BY DEF Economics
<1>2. \A u \in Windows : f.days[u] = Cardinality(DaysOf(u))
  <2> SUFFICES ASSUME NEW u \in Windows PROVE f.days[u] = Cardinality(DaysOf(u))
    OBVIOUS
  <2>1. { Days(txs[i].at) : i \in WithinDays(txs, u) } = DaysOf(u)
    BY HistoryFacts
  <2> QED
    BY <1>1, <2>1
<1>3. \A u \in Windows : LargeWithin(txs, u) \subseteq WithinDays(txs, u)
  BY DEF LargeWithin
<1>4. \A u \in Windows : /\ IsFiniteSet(WithinDays(txs, u)) /\ IsFiniteSet(LargeWithin(txs, u))
                         /\ f.large[u] \in Nat /\ f.active[u] \in Nat
                         /\ f.large[u] <= f.active[u]
  <2> SUFFICES ASSUME NEW u \in Windows
               PROVE  /\ IsFiniteSet(WithinDays(txs, u)) /\ IsFiniteSet(LargeWithin(txs, u))
                      /\ f.large[u] \in Nat /\ f.active[u] \in Nat
                      /\ f.large[u] <= f.active[u]
    OBVIOUS
  <2>1. IsFiniteSet(DOMAIN txs) /\ WithinDays(txs, u) \subseteq DOMAIN txs
    BY HistoryFacts
  <2>2. IsFiniteSet(WithinDays(txs, u))
    BY <2>1, PartIsSmaller
  <2>3. /\ IsFiniteSet(LargeWithin(txs, u))
        /\ Cardinality(LargeWithin(txs, u)) \in Nat /\ Cardinality(WithinDays(txs, u)) \in Nat
        /\ Cardinality(LargeWithin(txs, u)) <= Cardinality(WithinDays(txs, u))
    BY <1>3, <2>2, PartIsSmaller
  <2> QED
    BY <1>1, <2>2, <2>3
<1>5. \A u \in Windows : /\ IsFiniteSet(DaysOf(u)) /\ f.days[u] \in Nat
                         /\ f.days[u] <= f.active[u]
  <2> SUFFICES ASSUME NEW u \in Windows
               PROVE  /\ IsFiniteSet(DaysOf(u)) /\ f.days[u] \in Nat
                      /\ f.days[u] <= f.active[u]
    OBVIOUS
  <2>1. IsFiniteSet(DaysOf(u)) /\ Cardinality(DaysOf(u)) <= Cardinality(WithinDays(txs, u))
    <3> HIDE DEF day
    <3> QED
      BY <1>4, ImageIsSmaller
  <2> QED
    BY <1>1, <1>2, <2>1, FS_CardinalityType
<1>6. /\ WithinDays(txs, v) \subseteq WithinDays(txs, w)
      /\ LargeWithin(txs, v) \subseteq LargeWithin(txs, w)
      /\ DaysOf(v) \subseteq DaysOf(w)
  BY HistoryFacts DEF LargeWithin
<1> HIDE DEF DaysOf
<1>7. /\ f.large[v] <= f.large[w] /\ f.active[v] <= f.active[w] /\ f.days[v] <= f.days[w]
  <2>1. Cardinality(LargeWithin(txs, v)) <= Cardinality(LargeWithin(txs, w))
    BY <1>4, <1>6, PartIsSmaller
  <2>2. Cardinality(WithinDays(txs, v)) <= Cardinality(WithinDays(txs, w))
    BY <1>4, <1>6, PartIsSmaller
  <2>3. Cardinality(DaysOf(v)) <= Cardinality(DaysOf(w))
    BY <1>5, <1>6, PartIsSmaller
  <2> QED
    BY <1>1, <1>2, <2>1, <2>2, <2>3
<1>8. f.large[w] >= 1 <=> LargeWithin(txs, w) # {}
  <2>1. Cardinality(LargeWithin(txs, w)) = 0 <=> LargeWithin(txs, w) = {}
    BY <1>4, FS_EmptySet
  <2>2. f.large[w] \in Nat /\ f.large[w] = Cardinality(LargeWithin(txs, w))
    BY <1>1, <1>4
  <2>3. f.large[w] = 0 <=> LargeWithin(txs, w) = {}
    BY <2>1, <2>2
  <2>4. f.large[w] >= 1 <=> f.large[w] # 0
    BY <2>2
  <2> QED
    BY <2>3, <2>4
<1> QED
  BY <1>4, <1>5, <1>7, <1>8

\* The days since the last transaction are a natural.
LEMMA AgeIsSound ==
  ASSUME NEW txs \in Seq(Transactions), DOMAIN txs # {}
  PROVE  Economics(txs).age \in Nat
<1> DEFINE at == [i \in DOMAIN txs |-> txs[i].at]
           S == { at[i] : i \in DOMAIN txs }
<1>1. S = { txs[i].at : i \in DOMAIN txs } /\ S \in SUBSET Nat /\ S # {}
  BY HistoryFacts
<1>2. IsFiniteSet(S)
  <2> HIDE DEF at
  <2> QED
    BY HistoryFacts, ImageIsSmaller
<1>3. Min(S) \in S
  <2> HIDE DEF S
  <2>1. S \in SUBSET Int
    BY <1>1
  <2> QED
    BY <1>1, <1>2, <2>1, MinIsSmallest
<1>4. Economics(txs).age = Days(Min(S))
  BY <1>1 DEF Economics
<1>5. Min(S) \in Nat
  BY <1>1, <1>3
<1> HIDE DEF S
<1>6. Min(S) \div 2 \in Nat
  BY <1>5
<1> QED
  BY <1>4, <1>6 DEF Days

\* The features of an address that has transactions are sound.
LEMMA EconomicsAreSound ==
  ASSUME NEW txs \in Seq(Transactions), DOMAIN txs # {}
  PROVE  Sound(Economics(txs))
<1> DEFINE f == Economics(txs)
<1>1. /\ f.lifetime \in Nat /\ f.current \in Int /\ f.gross \in Nat
      /\ f.current <= f.lifetime
      /\ \A i \in DOMAIN txs : txs[i].received <= f.lifetime
  BY SumsAreSound
<1>2. f.age \in Nat
  BY AgeIsSound
<1>3. ASSUME NEW w \in Windows
      PROVE  /\ f.largest[w] \in Nat
             /\ \A i \in WithinDays(txs, w) : txs[i].received <= f.largest[w]
             /\ \/ f.largest[w] = 0
                \/ \E i \in WithinDays(txs, w) : f.largest[w] = txs[i].received
  BY LargestIsSound
<1>4. ASSUME NEW v \in Windows, NEW w \in Windows, v <= w
      PROVE  /\ f.large[w] \in Nat /\ f.active[w] \in Nat /\ f.days[w] \in Nat
             /\ f.large[w] <= f.active[w] /\ f.days[w] <= f.active[w]
             /\ f.large[v] <= f.large[w] /\ f.active[v] <= f.active[w]
             /\ f.days[v] <= f.days[w]
             /\ f.large[w] >= 1 <=> LargeWithin(txs, w) # {}
  BY <1>4, CountsAreSound
<1> HIDE DEF f
<1>5. ASSUME NEW w \in Windows
      PROVE  /\ f.largest[w] <= f.lifetime
             /\ f.large[w] >= 1 <=> f.largest[w] >= 500
  <2>1. /\ WithinDays(txs, w) \subseteq DOMAIN txs
        /\ \A i \in DOMAIN txs : txs[i].received \in Nat
    BY HistoryFacts
  <2>2. w <= w
    BY HistoryFacts
  <2>3. f.largest[w] <= f.lifetime
    BY <1>1, <1>3, <2>1
  <2>4. f.large[w] >= 1 <=> \E i \in WithinDays(txs, w) : txs[i].received >= 500
    BY <1>4, <2>2 DEF LargeWithin
  <2>5. f.largest[w] >= 500 <=> \E i \in WithinDays(txs, w) : txs[i].received >= 500
    BY <1>3, <2>1
  <2> QED
    BY <2>3, <2>4, <2>5
<1>6. ASSUME NEW v \in Windows, NEW w \in Windows, v <= w
      PROVE  f.largest[v] <= f.largest[w]
  <2>1. WithinDays(txs, v) \subseteq WithinDays(txs, w)
    BY <1>6, HistoryFacts
  <2> QED
    BY <1>3, <2>1
<1>7. \A w \in Windows : w <= w
  BY HistoryFacts
<1>8. Sound(f)
  BY <1>1, <1>2, <1>3, <1>4, <1>5, <1>6, <1>7 DEF Sound
<1> QED
  BY <1>8 DEF f

-----------------------------------------------------------------------------
(***************************************************************************)
(* The histories, and the addresses the censuses count                     *)
(***************************************************************************)
LedgerType == ledger \in [Addresses -> Seq(Transactions)]

\* A history is a sequence of transactions.
LEMMA LedgerTyped == CensusSpec => []LedgerType
<1>1. CensusInit => LedgerType
  BY DEF CensusInit, LedgerType
<1>2. LedgerType /\ [CensusNext]_ledger => LedgerType'
  <2> SUFFICES ASSUME LedgerType, [CensusNext]_ledger PROVE LedgerType'
    OBVIOUS
  <2>1. CASE UNCHANGED ledger
    BY <2>1 DEF LedgerType
  <2>2. ASSUME NEW a \in Addresses, NEW tx \in Transactions, ConfirmTransaction(a, tx)
        PROVE  LedgerType'
    <3>1. Append(ledger[a], tx) \in Seq(Transactions)
      BY DEF LedgerType
    <3> QED
      BY <2>2, <3>1 DEF ConfirmTransaction, LedgerType
  <2> QED
    BY <2>1, <2>2 DEF CensusNext
<1> QED
  BY <1>1, <1>2, PTL DEF CensusSpec

\* The populations are finite, the second is part of the first, and the
\* features of their addresses are sound.
LEMMA PopulationFacts ==
  ASSUME LedgerType
  PROVE  /\ IsFiniteSet(OutputDefined) /\ IsFiniteSet(PositiveValue)
         /\ PositiveValue \subseteq OutputDefined
         /\ \A a \in OutputDefined : Sound(Economics(ledger[a]))
         /\ \A a \in PositiveValue : Sound(Economics(ledger[a]))
<1>1. /\ OutputDefined \in SUBSET Addresses /\ PositiveValue \in SUBSET Addresses
      /\ IsFiniteSet(Addresses)
  BY BoundAssumption DEF OutputDefined, PositiveValue, BoundAssumption
<1>2. IsFiniteSet(OutputDefined) /\ IsFiniteSet(PositiveValue)
  BY <1>1, FS_Subset
<1>3. ASSUME NEW a \in PositiveValue PROVE a \in OutputDefined
  <2>1. PICK i \in DOMAIN ledger[a] : ledger[a][i].received > 0
    BY DEF PositiveValue
  <2>2. ledger[a] \in Seq(Transactions)
    BY <1>1 DEF LedgerType
  <2>3. ledger[a][i] \in Transactions
    BY <2>2
  <2>4. ledger[a][i].out
    BY <2>1, <2>3, TransactionsAssumption DEF TransactionsAssumption
  <2> QED
    BY <1>1, <2>4 DEF OutputDefined
<1>4. ASSUME NEW a \in OutputDefined PROVE Sound(Economics(ledger[a]))
  <2>1. ledger[a] \in Seq(Transactions) /\ DOMAIN ledger[a] # {}
    BY <1>1 DEF LedgerType, OutputDefined
  <2> QED
    BY <2>1, EconomicsAreSound
<1> QED
  BY <1>2, <1>3, <1>4

-----------------------------------------------------------------------------
(***************************************************************************)
(* Scores                                                                  *)
(***************************************************************************)
\* A ladder gives points, at most those of its best step and none below its
\* lowest one.
LEMMA LadderFacts ==
  ASSUME NEW value, NEW steps, NEW top \in Nat, \A s \in steps : s[2] \in Nat /\ s[2] <= top
  PROVE  /\ Ladder(value, steps) \in Nat
         /\ (\A s \in steps : ~(value >= s[1])) => Ladder(value, steps) = 0
<1> DEFINE Won == { s[2] : s \in { s \in steps : value >= s[1] } }
           S == {0} \cup Won
<1>1. Ladder(value, steps) = Max(S)
  BY DEF Ladder
<1>2. Won \in SUBSET Nat /\ \A n \in Won : n <= top
  OBVIOUS
<1>3. (\A s \in steps : ~(value >= s[1])) => Won = {}
  OBVIOUS
<1> HIDE DEF Won
<1>4. S \in SUBSET Nat /\ S \in SUBSET Int /\ S # {} /\ \A n \in S : n <= top
  BY <1>2
<1>5. Won = {} => S = {0}
  OBVIOUS
<1> HIDE DEF S
<1>6. Max(S) \in S
  BY <1>4, FS_BoundedSetOfNaturals, MaxIsLargest
<1> QED
  BY <1>1, <1>3, <1>4, <1>5, <1>6

\* The points of a balance, a flow, a receipt and the last transaction, the
\* ladders read from either end.
LEMMA PointsFacts ==
  ASSUME NEW f, NEW flow
  PROVE  /\ BalancePoints(f) \in Nat /\ FlowPoints(flow) \in Nat /\ ReceiptPoints(f) \in Nat
         /\ RecencyPoints(f) \in Nat /\ RecencyPoints(f) <= 10
         /\ BalancePoints(f) = Ladder(f.current, {<<1000, 25>>, <<100, 20>>, <<10, 12>>, <<1, 5>>})
         /\ FlowPoints(flow) = Ladder(flow, {<<10000, 20>>, <<1000, 15>>, <<100, 8>>, <<10, 3>>})
         /\ ReceiptPoints(f)
              = Ladder(f.largest[AllTime], {<<5000, 25>>, <<1000, 20>>, <<500, 18>>, <<100, 10>>})
         /\ f.current \in Int /\ f.current < 1 => BalancePoints(f) = 0
         /\ flow \in Int /\ flow < 10 => FlowPoints(flow) = 0
<1>1. /\ BalancePoints(f) \in Nat
      /\ BalancePoints(f) = Ladder(f.current, {<<1000, 25>>, <<100, 20>>, <<10, 12>>, <<1, 5>>})
      /\ f.current \in Int /\ f.current < 1 => BalancePoints(f) = 0
  <2> DEFINE steps == {<<1, 5>>, <<10, 12>>, <<100, 20>>, <<1000, 25>>}
  <2>1. /\ \A s \in steps : s[2] \in Nat /\ s[2] <= 25
        /\ f.current \in Int /\ f.current < 1 => \A s \in steps : ~(f.current >= s[1])
    OBVIOUS
  <2>2. steps = {<<1000, 25>>, <<100, 20>>, <<10, 12>>, <<1, 5>>}
    OBVIOUS
  <2>3. BalancePoints(f) = Ladder(f.current, steps)
    BY DEF BalancePoints
  <2>4. Ladder(f.current, steps)
          = Ladder(f.current, {<<1000, 25>>, <<100, 20>>, <<10, 12>>, <<1, 5>>})
    BY <2>2
  <2> HIDE DEF steps
  <2> QED
    BY <2>1, <2>3, <2>4, LadderFacts
<1>2. /\ FlowPoints(flow) \in Nat
      /\ FlowPoints(flow) = Ladder(flow, {<<10000, 20>>, <<1000, 15>>, <<100, 8>>, <<10, 3>>})
      /\ flow \in Int /\ flow < 10 => FlowPoints(flow) = 0
  <2> DEFINE steps == {<<10, 3>>, <<100, 8>>, <<1000, 15>>, <<10000, 20>>}
  <2>1. /\ \A s \in steps : s[2] \in Nat /\ s[2] <= 25
        /\ flow \in Int /\ flow < 10 => \A s \in steps : ~(flow >= s[1])
    OBVIOUS
  <2>2. steps = {<<10000, 20>>, <<1000, 15>>, <<100, 8>>, <<10, 3>>}
    OBVIOUS
  <2>3. FlowPoints(flow) = Ladder(flow, steps)
    BY DEF FlowPoints
  <2>4. Ladder(flow, steps) = Ladder(flow, {<<10000, 20>>, <<1000, 15>>, <<100, 8>>, <<10, 3>>})
    BY <2>2
  <2> HIDE DEF steps
  <2> QED
    BY <2>1, <2>3, <2>4, LadderFacts
<1>3. /\ ReceiptPoints(f) \in Nat
      /\ ReceiptPoints(f)
           = Ladder(f.largest[AllTime], {<<5000, 25>>, <<1000, 20>>, <<500, 18>>, <<100, 10>>})
  <2> DEFINE steps == {<<100, 10>>, <<500, 18>>, <<1000, 20>>, <<5000, 25>>}
  <2>1. /\ \A s \in steps : s[2] \in Nat /\ s[2] <= 25
    OBVIOUS
  <2>2. steps = {<<5000, 25>>, <<1000, 20>>, <<500, 18>>, <<100, 10>>}
    OBVIOUS
  <2>3. ReceiptPoints(f) = Ladder(f.largest[AllTime], steps)
    BY DEF ReceiptPoints
  <2>4. Ladder(f.largest[AllTime], steps)
          = Ladder(f.largest[AllTime], {<<5000, 25>>, <<1000, 20>>, <<500, 18>>, <<100, 10>>})
    BY <2>2
  <2> HIDE DEF steps
  <2> QED
    BY <2>1, <2>3, <2>4, LadderFacts
<1>4. RecencyPoints(f) \in Nat /\ RecencyPoints(f) <= 10
  BY DEF RecencyPoints
<1> QED
  BY <1>1, <1>2, <1>3, <1>4

\* What moved besides the largest receipt is a natural, and part of what moved.
LEMMA ResidualFacts ==
  ASSUME NEW f, Sound(f)
  PROVE  Residual(f) \in Nat /\ Residual(f) <= f.gross
<1> DEFINE S == {f.gross - f.largest[90], 0}
<1>1. f.gross \in Nat /\ f.largest[90] \in Nat
  BY DEF Sound, Windows
<1>2. S \in SUBSET Int /\ S # {} /\ 0 \in S /\ \A n \in S : n <= f.gross
  BY <1>1
<1>3. IsFiniteSet(S)
  <2>1. S = {0} \cup {f.gross - f.largest[90]}
    OBVIOUS
  <2>2. IsFiniteSet({0})
    BY FS_Singleton
  <2>3. \A x : IsFiniteSet({0} \cup {x})
    BY <2>2, FS_AddElement
  <2> HIDE DEF S
  <2> QED
    BY <2>1, <2>3
<1>4. Residual(f) = Max(S)
  BY DEF Residual
<1> HIDE DEF S
<1>5. Max(S) \in S /\ \A n \in S : n <= Max(S)
  BY <1>2, <1>3, MaxIsLargest
<1>6. Max(S) \in Int /\ 0 <= Max(S)
  BY <1>2, <1>5
<1>7. Max(S) <= f.gross
  BY <1>2, <1>5
<1> QED
  BY <1>4, <1>6, <1>7

\* Scores are naturals.
LEMMA ScoreFacts ==
  ASSUME NEW f, Sound(f)
  PROVE  Score(f) \in Nat /\ FirstScore(f) \in Nat
<1>1. FirstScore(f) \in Nat
  BY PointsFacts DEF FirstScore
<1>2. Score(f) \in Nat
  <2> DEFINE receipt == IF f.largest[90] >= 500 THEN 10 ELSE IF f.largest[365] >= 500 THEN 5 ELSE 0
             repeated == IF f.large[90] >= 2 THEN 12 ELSE IF f.large[365] >= 2 THEN 7 ELSE 0
             retained == IF Retained(f, 90) THEN 10 ELSE 0
             sustained == IF Sustained(f) THEN 8 ELSE 0
  <2>1. receipt \in Nat /\ repeated \in Nat /\ retained \in Nat /\ sustained \in Nat
    OBVIOUS
  <2>2. Score(f) = BalancePoints(f) + FlowPoints(Residual(f)) + RecencyPoints(f)
                     + receipt + repeated + retained + sustained
    BY DEF Score
  <2> HIDE DEF receipt, repeated, retained, sustained
  <2>3. BalancePoints(f) \in Nat /\ FlowPoints(Residual(f)) \in Nat /\ RecencyPoints(f) \in Nat
    BY PointsFacts
  <2> QED
    BY <2>1, <2>2, <2>3
<1> QED
  BY <1>1, <1>2

-----------------------------------------------------------------------------
(***************************************************************************)
(* The first policy: SQL and Python                                        *)
(***************************************************************************)
\* The bits of the first mask.
LEMMA FirstMaskBits ==
  ASSUME NEW f
  PROVE  /\ FirstP0Mask(f) \subseteq {1, 2, 4, 8}
         /\ 1 \in FirstP0Mask(f) <=> f.current >= 100
         /\ 2 \in FirstP0Mask(f) <=> f.largest[AllTime] >= 500
         /\ 4 \in FirstP0Mask(f) <=> f.gross >= 1000
         /\ 8 \in FirstP0Mask(f) <=> f.lifetime >= 10000 /\ f.age <= 365
BY DEF FirstP0Mask, Bit

\* The classes of the policy are those the first census counts.
LEMMA ClassesAgree ==
  ASSUME NEW f, Sound(f)
  PROVE  /\ FirstP0Mask(f) # {} <=> PolicyClass(f, FALSE) = "P0"
         /\ IsFirstP1(f) <=> PolicyClass(f, FALSE) = "P1"
         /\ (IsFrontier(f) \/ IsFirstP1(f)) <=> PolicyClass(f, TRUE) = "P1"
<1>1. /\ PolicyPoints(f, FALSE) = FirstScore(f) /\ PolicyPoints(f, TRUE) = FirstScore(f) + 10
      /\ FirstScore(f) \in Nat
  <2>1. /\ BalancePoints(f) \in Nat /\ FlowPoints(f.gross) \in Nat /\ ReceiptPoints(f) \in Nat
        /\ RecencyPoints(f) \in Nat
    BY PointsFacts
  <2>2. /\ PolicyPoints(f, FALSE)
             = BalancePoints(f) + ReceiptPoints(f) + FlowPoints(f.gross) + RecencyPoints(f) + 0
        /\ PolicyPoints(f, TRUE)
             = BalancePoints(f) + ReceiptPoints(f) + FlowPoints(f.gross) + RecencyPoints(f) + 10
    BY PointsFacts DEF PolicyPoints
  <2>3. FirstScore(f)
          = BalancePoints(f) + ReceiptPoints(f) + FlowPoints(f.gross) + RecencyPoints(f)
    BY DEF FirstScore
  <2>4. FirstScore(f) \in Nat
    BY <2>1, <2>3
  <2>5. PolicyPoints(f, FALSE) = FirstScore(f) + 0 /\ PolicyPoints(f, TRUE) = FirstScore(f) + 10
    BY <2>2, <2>3
  <2>6. FirstScore(f) + 0 = FirstScore(f)
    BY <2>4
  <2> QED
    BY <2>4, <2>5, <2>6, Zenon
<1>2. FirstP0Mask(f) # {} <=> \/ f.current >= 100 \/ f.largest[AllTime] >= 500 \/ f.gross >= 1000
                              \/ f.lifetime >= 10000 /\ f.age <= 365
  BY DEF FirstP0Mask, Bit
<1>3. ASSUME NEW edge
      PROVE  PolicyClass(f, edge)
               = IF FirstP0Mask(f) # {} THEN "P0"
                 ELSE IF PolicyPoints(f, edge) >= 25 THEN "P1" ELSE "CONTROL or NONE"
  <2>1. CASE FirstP0Mask(f) # {}
    BY <1>2, <2>1 DEF PolicyClass
  <2>2. CASE FirstP0Mask(f) = {} /\ PolicyPoints(f, edge) >= 25
    BY <1>2, <2>2 DEF PolicyClass
  <2>3. CASE FirstP0Mask(f) = {} /\ ~(PolicyPoints(f, edge) >= 25)
    BY <1>2, <2>3 DEF PolicyClass
  <2> QED
    BY <2>1, <2>2, <2>3
<1>4. /\ PolicyClass(f, FALSE)
           = IF FirstP0Mask(f) # {} THEN "P0"
             ELSE IF FirstScore(f) >= 25 THEN "P1" ELSE "CONTROL or NONE"
      /\ PolicyClass(f, TRUE)
           = IF FirstP0Mask(f) # {} THEN "P0"
             ELSE IF FirstScore(f) + 10 >= 25 THEN "P1" ELSE "CONTROL or NONE"
  BY <1>1, <1>3
<1>5. IsFrontier(f) \/ IsFirstP1(f) <=> FirstP0Mask(f) = {} /\ FirstScore(f) + 10 >= 25
  BY <1>1 DEF IsFrontier, IsFirstP1
<1>6. IsFirstP1(f) <=> FirstP0Mask(f) = {} /\ FirstScore(f) >= 25
  BY DEF IsFirstP1
<1> QED
  BY <1>4, <1>5, <1>6

\* For every history, the first census counts by SQL what the policy decides
\* in Python, and its frontier is what one direct edge takes to P1.
THEOREM CensusCountsWhatThePolicyDecides == CensusSpec => []CensusCountsThePolicy
<1>1. LedgerType => CensusCountsThePolicy
  <2> SUFFICES ASSUME LedgerType, NEW a \in OutputDefined
               PROVE  LET f == Economics(ledger[a])
                      IN  /\ (FirstP0Mask(f) # {}) = (PolicyClass(f, FALSE) = "P0")
                          /\ IsFirstP1(f) = (PolicyClass(f, FALSE) = "P1")
                          /\ (IsFrontier(f) \/ IsFirstP1(f)) = (PolicyClass(f, TRUE) = "P1")
    BY DEF CensusCountsThePolicy
  <2> DEFINE f == Economics(ledger[a])
  <2>1. Sound(f)
    BY PopulationFacts
  <2> HIDE DEF f
  <2>2. /\ FirstP0Mask(f) # {} <=> PolicyClass(f, FALSE) = "P0"
        /\ IsFirstP1(f) <=> PolicyClass(f, FALSE) = "P1"
        /\ (IsFrontier(f) \/ IsFirstP1(f)) <=> PolicyClass(f, TRUE) = "P1"
    BY <2>1, ClassesAgree
  <2>3. IsFirstP1(f) \in BOOLEAN /\ IsFrontier(f) \in BOOLEAN
    BY DEF IsFirstP1, IsFrontier
  <2> QED
    BY <2>2, <2>3, Zenon DEF f
<1> QED
  BY <1>1, LedgerTyped, PTL

-----------------------------------------------------------------------------
(***************************************************************************)
(* The second policy: the rows of the SQL and the checks of the publisher  *)
(***************************************************************************)
\* The bits of the mask of a variant.
LEMMA MaskBits ==
  ASSUME NEW f, NEW v
  PROVE  /\ P0Mask(v, f) \subseteq {1, 2, 4, 8}
         /\ 1 \in P0Mask(v, f) <=> BigBalance(f)
         /\ 2 \in P0Mask(v, f) <=> BigResidual(f)
         /\ 4 \in P0Mask(v, f) <=> Receipt(v, f)
         /\ 8 \in P0Mask(v, f) <=> BigLifetime(f)
BY DEF P0Mask, Bit

\* The bits of the mask of the receipts.
LEMMA ReceiptBits ==
  ASSUME NEW f
  PROVE  /\ ReceiptMask(f) \subseteq {1, 2, 4}
         /\ 1 \in ReceiptMask(f) <=> Retained(f, 90)
         /\ 2 \in ReceiptMask(f) <=> Repeated(f)
         /\ 4 \in ReceiptMask(f) <=> Sustained(f)
BY DEF ReceiptMask, Bit

\* What each variant takes for a supported receipt.
LEMMA ReceiptOf ==
  ASSUME NEW f
  PROVE  /\ Receipt("V2-S", f) <=> StrictReceipt(f)
         /\ Receipt("V2-B", f) <=> BalancedReceipt(f)
         /\ Receipt("V2-R", f) <=> Retained(f, AllTime)
BY DEF Receipt

\* A receipt is supported where its mask has a bit, and only where there is one.
LEMMA SupportedReceipts ==
  ASSUME NEW f, Sound(f)
  PROVE  /\ StrictReceipt(f) <=> ReceiptMask(f) # {}
         /\ StrictReceipt(f) => f.largest[90] >= 500 /\ f.large[90] >= 1
         /\ StrictReceipt(f) <=> f.largest[90] >= 500 /\ ReceiptMask(f) # {}
<1>1. /\ f.large[90] \in Nat /\ f.largest[90] \in Nat
      /\ f.large[90] >= 1 <=> f.largest[90] >= 500
  BY DEF Sound, Windows
<1>2. ReceiptMask(f) # {} <=> Retained(f, 90) \/ Repeated(f) \/ Sustained(f)
  BY ReceiptBits
<1>3. Retained(f, 90) \/ Repeated(f) \/ Sustained(f) => f.largest[90] >= 500
  BY <1>1 DEF Retained, Repeated, Sustained
<1> QED
  BY <1>1, <1>2, <1>3 DEF StrictReceipt

\* The publisher's own masks are those of the row.
LEMMA MasksAreExpected ==
  ASSUME NEW f, Sound(f), NEW row, row.features = f, row.residual = Residual(f)
  PROVE  ExpectedReceiptMask(row) = ReceiptMask(f) /\ ExpectedP0Mask(row) = P0Mask("V2-S", f)
<1>1. ExpectedReceiptMask(row) = ReceiptMask(f)
  <2>1. ExpectedReceiptMask(row)
          = Bit(1, Retained(f, 90)) \cup Bit(2, Repeated(f))
              \cup Bit(4, /\ f.largest[90] >= 500 /\ f.active[90] >= 3 /\ f.days[90] >= 2
                         /\ Residual(f) >= 500)
    BY DEF ExpectedReceiptMask, Retained, Repeated, Bit
  <2>2. Sustained(f) <=> /\ f.largest[90] >= 500 /\ f.active[90] >= 3 /\ f.days[90] >= 2
                         /\ Residual(f) >= 500
    BY DEF Sustained, Busy
  <2> QED
    BY <2>1, <2>2 DEF ReceiptMask, Bit
<1>2. ExpectedP0Mask(row)
        = Bit(1, f.current >= 100)
            \cup Bit(2, Residual(f) >= 1000 /\ (f.active[90] >= 3 /\ f.days[90] >= 2))
            \cup Bit(4, f.largest[90] >= 500 /\ ReceiptMask(f) # {})
            \cup Bit(8, /\ f.lifetime >= 10000 /\ f.age <= 90
                        /\ \/ f.current >= 10
                           \/ Residual(f) >= 500 /\ (f.active[90] >= 3 /\ f.days[90] >= 2))
  BY <1>1 DEF ExpectedP0Mask
<1>3. Receipt("V2-S", f) <=> f.largest[90] >= 500 /\ ReceiptMask(f) # {}
  BY ReceiptOf, SupportedReceipts
<1>4. ExpectedP0Mask(row) = P0Mask("V2-S", f)
  BY <1>2, <1>3 DEF P0Mask, Bit, BigBalance, BigResidual, BigLifetime, Busy
<1> QED
  BY <1>1, <1>4

\* The publisher's own score is that of the row.
LEMMA ScoreIsExpected ==
  ASSUME NEW f, Sound(f), NEW row, row.features = f, row.residual = Residual(f)
  PROVE  ExpectedScore(row) = Score(f)
<1> DEFINE receipt == IF f.largest[90] >= 500 THEN 10 ELSE IF f.largest[365] >= 500 THEN 5 ELSE 0
           repeated == IF f.large[90] >= 2 THEN 12 ELSE IF f.large[365] >= 2 THEN 7 ELSE 0
           retained == IF Retained(f, 90) THEN 10 ELSE 0
           sustained == IF Sustained(f) THEN 8 ELSE 0
<1>1. receipt \in Nat /\ repeated \in Nat /\ retained \in Nat /\ sustained \in Nat
  OBVIOUS
<1>2. Score(f) = BalancePoints(f) + FlowPoints(Residual(f)) + RecencyPoints(f)
                   + receipt + repeated + retained + sustained
  BY DEF Score
<1>3. /\ (IF 1 \in ExpectedReceiptMask(row) THEN 10 ELSE 0) = retained
      /\ (IF 4 \in ExpectedReceiptMask(row) THEN 8 ELSE 0) = sustained
  BY MasksAreExpected, ReceiptBits
<1>4. /\ BalancePoints(f) = Ladder(f.current, {<<1000, 25>>, <<100, 20>>, <<10, 12>>, <<1, 5>>})
      /\ FlowPoints(Residual(f))
           = Ladder(Residual(f), {<<10000, 20>>, <<1000, 15>>, <<100, 8>>, <<10, 3>>})
      /\ BalancePoints(f) \in Nat /\ FlowPoints(Residual(f)) \in Nat /\ RecencyPoints(f) \in Nat
  BY PointsFacts
<1>5. ExpectedScore(row)
        = Ladder(f.current, {<<1000, 25>>, <<100, 20>>, <<10, 12>>, <<1, 5>>})
            + Ladder(Residual(f), {<<10000, 20>>, <<1000, 15>>, <<100, 8>>, <<10, 3>>})
            + receipt + repeated
            + (IF 1 \in ExpectedReceiptMask(row) THEN 10 ELSE 0)
            + (IF 4 \in ExpectedReceiptMask(row) THEN 8 ELSE 0) + RecencyPoints(f)
  BY DEF ExpectedScore
<1> HIDE DEF receipt, repeated, retained, sustained
<1>6. ExpectedScore(row) = BalancePoints(f) + FlowPoints(Residual(f)) + receipt + repeated
                             + retained + sustained + RecencyPoints(f)
  BY <1>3, <1>4, <1>5
<1> QED
  BY <1>1, <1>2, <1>4, <1>6

\* The publisher accepts every candidate of V2-S with a balance.
LEMMA CandidateIsAccepted ==
  ASSUME NEW f, Sound(f), f.current >= 0, IsCoarse("V2-S", f)
  PROVE  RowIsAccepted(MaterializedRow(f))
<1> DEFINE row == MaterializedRow(f)
<1>1. /\ row.features = f /\ row.residual = Residual(f) /\ row.score = Score(f)
      /\ row.p0Mask = P0Mask("V2-S", f) /\ row.receiptMask = ReceiptMask(f)
      /\ row.tier = CASE P0Mask("V2-S", f) # {} -> "p0"
                      [] IsP1("V2-S", f)   -> "p1"
                      [] IsEdge("V2-S", f) -> "edge"
                      [] OTHER -> "coarse_other"
  BY DEF MaterializedRow
<1> HIDE DEF row
<1>2. FieldsAreConsistent(row)
  BY <1>1 DEF FieldsAreConsistent, Sound, Windows, AllTime
<1>3. /\ ExpectedReceiptMask(row) = ReceiptMask(f) /\ ExpectedP0Mask(row) = P0Mask("V2-S", f)
      /\ ExpectedScore(row) = Score(f)
  BY <1>1, MasksAreExpected, ScoreIsExpected
<1>4. Score(f) \in Nat
  BY ScoreFacts
<1>5. ExpectedTier(row) = row.tier
  <2> DEFINE p0 == P0Mask("V2-S", f) # {}
             kept == f.current >= 1 \/ Residual(f) >= 10 \/ f.largest[365] >= 500
  <2>1. ExpectedTier(row) = CASE p0 -> "p0"
                              [] ~p0 /\ Score(f) >= 25 -> "p1"
                              [] ~p0 /\ Score(f) \in 15..24 -> "edge"
                              [] ~p0 /\ Score(f) < 15 /\ kept -> "coarse_other"
                              [] OTHER -> "rejected"
    BY <1>1, <1>3 DEF ExpectedTier
  <2>2. /\ IsP1("V2-S", f) <=> ~p0 /\ Score(f) >= 25
        /\ IsEdge("V2-S", f) <=> ~p0 /\ Score(f) \in 15..24
        /\ p0 \/ Score(f) >= 15 \/ kept
    BY DEF IsP1, IsEdge, IsCoarse
  <2>3. row.tier = CASE p0 -> "p0"
                     [] IsP1("V2-S", f)   -> "p1"
                     [] IsEdge("V2-S", f) -> "edge"
                     [] OTHER -> "coarse_other"
    BY <1>1
  <2> HIDE DEF p0, kept
  <2>4. CASE p0
    <3>1. ~IsP1("V2-S", f) /\ ~IsEdge("V2-S", f)
      BY <2>2, <2>4
    <3>2. ExpectedTier(row) = "p0"
      BY <2>1, <2>4
    <3>3. row.tier = "p0"
      BY <2>3, <2>4, <3>1
    <3> QED
      BY <3>2, <3>3
  <2>5. CASE ~p0 /\ Score(f) >= 25
    BY <1>4, <2>1, <2>2, <2>3, <2>5
  <2>6. CASE ~p0 /\ Score(f) \in 15..24
    BY <1>4, <2>1, <2>2, <2>3, <2>6
  <2>7. CASE ~p0 /\ Score(f) < 15
    BY <1>4, <2>1, <2>2, <2>3, <2>7
  <2> QED
    BY <1>4, <2>4, <2>5, <2>6, <2>7
<1> QED
  BY <1>1, <1>2, <1>3, <1>5 DEF RowIsAccepted, row

\* For every history, the publisher accepts every candidate the SQL
\* materializes.
THEOREM RowsAreAlwaysAccepted == CensusSpec => []RowsAreAccepted
<1>1. LedgerType => RowsAreAccepted
  <2> SUFFICES ASSUME LedgerType, NEW a \in PositiveValue
               PROVE  LET f == Features(PositiveValue)[a]
                      IN  f.current >= 0 /\ IsCoarse("V2-S", f)
                            => RowIsAccepted(MaterializedRow(f))
    BY DEF RowsAreAccepted
  <2>1. Features(PositiveValue)[a] = Economics(ledger[a])
    BY DEF Features
  <2>2. Sound(Economics(ledger[a]))
    BY PopulationFacts
  <2> QED
    BY <2>1, <2>2, CandidateIsAccepted
<1> QED
  BY <1>1, LedgerTyped, PTL

\* No candidate of the second policy was none of the first.
LEMMA FeaturesNarrow ==
  ASSUME NEW f, Sound(f)
  PROVE  /\ P0Mask("V2-S", f) # {} => FirstP0Mask(f) # {}
         /\ IsCoarse("V2-S", f) => IsFirstCoarse(f)
<1>1. /\ f.current \in Int /\ f.gross \in Nat /\ f.age \in Nat
      /\ f.largest[90] \in Nat /\ f.largest[365] \in Nat /\ f.largest[AllTime] \in Nat
      /\ f.largest[90] <= f.largest[365] /\ f.largest[365] <= f.largest[AllTime]
      /\ f.large[90] \in Nat /\ f.large[365] \in Nat
      /\ f.large[90] >= 1 <=> f.largest[90] >= 500
      /\ f.large[365] >= 1 <=> f.largest[365] >= 500
  BY DEF Sound, Windows, AllTime
<1>2. Residual(f) \in Nat /\ Residual(f) <= f.gross
  BY ResidualFacts
<1>3. P0Mask("V2-S", f) # {} =>
        BigBalance(f) \/ BigResidual(f) \/ StrictReceipt(f) \/ BigLifetime(f)
  BY MaskBits, ReceiptOf
<1>4. P0Mask("V2-S", f) # {} => FirstP0Mask(f) # {}
  <2>1. BigBalance(f) => 1 \in FirstP0Mask(f)
    BY FirstMaskBits DEF BigBalance
  <2>2. BigResidual(f) => 4 \in FirstP0Mask(f)
    BY <1>1, <1>2, FirstMaskBits DEF BigResidual
  <2>3. StrictReceipt(f) => 2 \in FirstP0Mask(f)
    BY <1>1, FirstMaskBits DEF StrictReceipt
  <2>4. BigLifetime(f) => 8 \in FirstP0Mask(f)
    BY <1>1, FirstMaskBits DEF BigLifetime
  <2> QED
    BY <1>3, <2>1, <2>2, <2>3, <2>4
<1>5. ASSUME IsCoarse("V2-S", f), P0Mask("V2-S", f) = {} PROVE HasPositiveComponent(f)
  <2> SUFFICES ASSUME ~HasPositiveComponent(f) PROVE FALSE
    OBVIOUS
  <2>1. f.current < 1 /\ f.largest[AllTime] < 100 /\ f.gross < 10
    BY <1>1 DEF HasPositiveComponent
  <2>2. Residual(f) < 10 /\ f.largest[365] < 100 /\ f.largest[90] < 100
    BY <1>1, <1>2, <2>1
  <2>3. f.large[90] = 0 /\ f.large[365] = 0
    BY <1>1, <2>2
  <2>4. ~Retained(f, 90) /\ ~Sustained(f)
    BY <1>1, <2>2 DEF Retained, Sustained
  <2>5. BalancePoints(f) = 0 /\ FlowPoints(Residual(f)) = 0
    BY <1>1, <1>2, <2>1, <2>2, PointsFacts
  <2>6. RecencyPoints(f) \in Nat /\ RecencyPoints(f) <= 10
    BY DEF RecencyPoints
  <2>7. Score(f) = RecencyPoints(f)
    <3> DEFINE receipt == IF f.largest[90] >= 500 THEN 10 ELSE IF f.largest[365] >= 500 THEN 5 ELSE 0
               repeated == IF f.large[90] >= 2 THEN 12 ELSE IF f.large[365] >= 2 THEN 7 ELSE 0
               retained == IF Retained(f, 90) THEN 10 ELSE 0
               sustained == IF Sustained(f) THEN 8 ELSE 0
    <3>1. Score(f) = BalancePoints(f) + FlowPoints(Residual(f)) + RecencyPoints(f)
                       + receipt + repeated + retained + sustained
      BY DEF Score
    <3>2. receipt = 0
      BY <1>1, <2>2
    <3>3. repeated = 0
      BY <2>3
    <3>4. retained = 0 /\ sustained = 0
      BY <2>4
    <3> HIDE DEF receipt, repeated, retained, sustained
    <3> QED
      BY <2>5, <2>6, <3>1, <3>2, <3>3, <3>4
  <2>8. Score(f) <= 10 /\ Score(f) \in Nat
    BY <2>6, <2>7
  <2>9. ~(Score(f) >= 15)
    BY <2>8
  <2> QED
    BY <1>1, <1>2, <1>5, <2>1, <2>2, <2>9 DEF IsCoarse
<1> QED
  BY <1>4, <1>5 DEF IsFirstCoarse

\* For every history, the second policy only narrows the first.
THEOREM SecondPolicyOnlyNarrows == CensusSpec => []SecondPolicyNarrows
<1>1. LedgerType => SecondPolicyNarrows
  BY PopulationFacts, FeaturesNarrow DEF SecondPolicyNarrows
<1> QED
  BY <1>1, LedgerTyped, PTL

-----------------------------------------------------------------------------
(***************************************************************************)
(* The reconciliations of the censuses                                     *)
(***************************************************************************)
\* The features of a finite population.
Counted(fs) == IsFiniteSet(DOMAIN fs) /\ \A a \in DOMAIN fs : Sound(fs[a])

\* Both censuses count one.
LEMMA PopulationsAreCounted ==
  ASSUME LedgerType
  PROVE  /\ Counted(Features(OutputDefined)) /\ Counted(Features(PositiveValue))
         /\ DOMAIN Features(PositiveValue) = PositiveValue
BY PopulationFacts DEF Counted, Features

\* The addresses that reach a step, those with a bit in their mask, those with
\* any, and those with all of one mask.
Reaching(value, step) == { a \in DOMAIN value : value[a] >= step }
Bearing(mask, b) == { a \in DOMAIN mask : b \in mask[a] }
Marked(mask) == { a \in DOMAIN mask : mask[a] # {} }
Wearing(mask, m) == { a \in DOMAIN mask : mask[a] = m }

\* The masks of finitely many addresses, made of the same few bits.
Masked(mask, bits) ==
  /\ IsFiniteSet(DOMAIN mask) /\ IsFiniteSet(bits)
  /\ \A a \in DOMAIN mask : mask[a] \subseteq bits

\* What reaches a step is counted, and fewer reach a higher one.
LEMMA ReachFalls ==
  ASSUME NEW value, IsFiniteSet(DOMAIN value), \A a \in DOMAIN value : value[a] \in Int,
         NEW steps, \A i \in DOMAIN steps : steps[i] \in Int,
         \A i, j \in DOMAIN steps : i <= j => steps[i] <= steps[j]
  PROVE  /\ Falls(Reach(value, steps))
         /\ DOMAIN Reach(value, steps) = DOMAIN steps
         /\ \A i \in DOMAIN steps :
              Reach(value, steps)[i] = Cardinality(Reaching(value, steps[i]))
<1> DEFINE At(i) == Reaching(value, steps[i])
<1>1. /\ DOMAIN Reach(value, steps) = DOMAIN steps
      /\ \A i \in DOMAIN steps : Reach(value, steps)[i] = Cardinality(At(i))
  BY DEF Reach, Reaching
<1>2. ASSUME NEW i \in DOMAIN steps, NEW j \in DOMAIN steps, i <= j
      PROVE  Reach(value, steps)[i] >= Reach(value, steps)[j]
  <2>1. steps[i] \in Int /\ steps[j] \in Int /\ steps[i] <= steps[j]
    BY <1>2
  <2>2. At(j) \subseteq At(i) /\ At(i) \subseteq DOMAIN value
    BY <2>1 DEF Reaching
  <2> HIDE DEF At
  <2>3. IsFiniteSet(At(i))
    BY <2>2, FS_Subset
  <2> QED
    BY <1>1, <2>2, <2>3, PartIsSmaller
<1> QED
  BY <1>1, <1>2 DEF Falls

\* The ladders of the censuses: of amounts, of recency, of the largest
\* receipts and of their number.
LEMMA LaddersFall ==
  ASSUME NEW value, IsFiniteSet(DOMAIN value), \A a \in DOMAIN value : value[a] \in Int
  PROVE  /\ Falls(Reach(value, <<1, 10, 100, 1000>>))
         /\ Reach(value, <<1, 10, 100, 1000>>)[3]
              = Cardinality(Reaching(value, 100))
         /\ Falls(Reach(value, <<10, 100, 1000, 10000>>))
         /\ Reach(value, <<10, 100, 1000, 10000>>)[3]
              = Cardinality(Reaching(value, 1000))
         /\ Falls(Reach(value, <<100, 500, 1000, 5000>>))
         /\ Reach(value, <<100, 500, 1000, 5000>>)[2]
              = Cardinality(Reaching(value, 500))
         /\ Falls(Reach(value, <<-365, -90, -30>>))
         /\ Falls(Reach(value, <<500, 1000, 5000>>))
         /\ Reach(value, <<500, 1000, 5000>>)[1]
              = Cardinality(Reaching(value, 500))
         /\ Falls(Reach(value, <<1, 2, 3>>))
         /\ Reach(value, <<1, 2, 3>>)[1] = Cardinality(Reaching(value, 1))
         /\ Reach(value, <<1, 2, 3>>)[2] = Cardinality(Reaching(value, 2))
<1>0. \A steps : /\ \A i \in DOMAIN steps : steps[i] \in Int
                 /\ \A i, j \in DOMAIN steps : i <= j => steps[i] <= steps[j]
        => /\ Falls(Reach(value, steps))
           /\ \A i \in DOMAIN steps :
                Reach(value, steps)[i] = Cardinality(Reaching(value, steps[i]))
  BY ReachFalls
<1>1. /\ Falls(Reach(value, <<1, 10, 100, 1000>>))
      /\ Reach(value, <<1, 10, 100, 1000>>)[3]
           = Cardinality(Reaching(value, 100))
  <2> DEFINE steps == <<1, 10, 100, 1000>>
  <2>1. /\ \A i \in DOMAIN steps : steps[i] \in Int
        /\ \A i, j \in DOMAIN steps : i <= j => steps[i] <= steps[j]
        /\ 3 \in DOMAIN steps /\ steps[3] = 100
    OBVIOUS
  <2> HIDE DEF steps
  <2>2. /\ Falls(Reach(value, steps))
        /\ Reach(value, steps)[3] = Cardinality(Reaching(value, steps[3]))
    BY <1>0, <2>1
  <2> QED
    BY <2>1, <2>2 DEF steps
<1>2. /\ Falls(Reach(value, <<10, 100, 1000, 10000>>))
      /\ Reach(value, <<10, 100, 1000, 10000>>)[3]
           = Cardinality(Reaching(value, 1000))
  <2> DEFINE steps == <<10, 100, 1000, 10000>>
  <2>1. /\ \A i \in DOMAIN steps : steps[i] \in Int
        /\ \A i, j \in DOMAIN steps : i <= j => steps[i] <= steps[j]
        /\ 3 \in DOMAIN steps /\ steps[3] = 1000
    OBVIOUS
  <2> HIDE DEF steps
  <2>2. /\ Falls(Reach(value, steps))
        /\ Reach(value, steps)[3] = Cardinality(Reaching(value, steps[3]))
    BY <1>0, <2>1
  <2> QED
    BY <2>1, <2>2 DEF steps
<1>3. /\ Falls(Reach(value, <<100, 500, 1000, 5000>>))
      /\ Reach(value, <<100, 500, 1000, 5000>>)[2]
           = Cardinality(Reaching(value, 500))
  <2> DEFINE steps == <<100, 500, 1000, 5000>>
  <2>1. /\ \A i \in DOMAIN steps : steps[i] \in Int
        /\ \A i, j \in DOMAIN steps : i <= j => steps[i] <= steps[j]
        /\ 2 \in DOMAIN steps /\ steps[2] = 500
    OBVIOUS
  <2> HIDE DEF steps
  <2>2. /\ Falls(Reach(value, steps))
        /\ Reach(value, steps)[2] = Cardinality(Reaching(value, steps[2]))
    BY <1>0, <2>1
  <2> QED
    BY <2>1, <2>2 DEF steps
<1>4. Falls(Reach(value, <<-365, -90, -30>>))
  <2> DEFINE steps == <<-365, -90, -30>>
  <2>1. /\ \A i \in DOMAIN steps : steps[i] \in Int
        /\ \A i, j \in DOMAIN steps : i <= j => steps[i] <= steps[j]
    OBVIOUS
  <2> HIDE DEF steps
  <2>2. Falls(Reach(value, steps))
    BY <1>0, <2>1
  <2> QED
    BY <2>2 DEF steps
<1>5. /\ Falls(Reach(value, <<500, 1000, 5000>>))
      /\ Reach(value, <<500, 1000, 5000>>)[1]
           = Cardinality(Reaching(value, 500))
  <2> DEFINE steps == <<500, 1000, 5000>>
  <2>1. /\ \A i \in DOMAIN steps : steps[i] \in Int
        /\ \A i, j \in DOMAIN steps : i <= j => steps[i] <= steps[j]
        /\ 1 \in DOMAIN steps /\ steps[1] = 500
    OBVIOUS
  <2> HIDE DEF steps
  <2>2. /\ Falls(Reach(value, steps))
        /\ Reach(value, steps)[1] = Cardinality(Reaching(value, steps[1]))
    BY <1>0, <2>1
  <2> QED
    BY <2>1, <2>2 DEF steps
<1>6. /\ Falls(Reach(value, <<1, 2, 3>>))
      /\ Reach(value, <<1, 2, 3>>)[1] = Cardinality(Reaching(value, 1))
      /\ Reach(value, <<1, 2, 3>>)[2] = Cardinality(Reaching(value, 2))
  <2> DEFINE steps == <<1, 2, 3>>
  <2>1. /\ \A i \in DOMAIN steps : steps[i] \in Int
        /\ \A i, j \in DOMAIN steps : i <= j => steps[i] <= steps[j]
        /\ 1 \in DOMAIN steps /\ steps[1] = 1 /\ 2 \in DOMAIN steps /\ steps[2] = 2
    OBVIOUS
  <2> HIDE DEF steps
  <2>2. /\ Falls(Reach(value, steps))
        /\ Reach(value, steps)[1] = Cardinality(Reaching(value, steps[1]))
        /\ Reach(value, steps)[2] = Cardinality(Reaching(value, steps[2]))
    BY <1>0, <2>1
  <2> QED
    BY <2>1, <2>2 DEF steps
<1> QED
  BY <1>1, <1>2, <1>3, <1>4, <1>5, <1>6

\* How many have a mask of a set is the sum of how many have each: the
\* columns of a spread add up to what they are columns of.
LEMMA SpreadTotals ==
  ASSUME NEW mask, IsFiniteSet(DOMAIN mask), NEW masks, NEW M \in SUBSET masks, IsFiniteSet(M)
  PROVE  Total(Spread(mask, masks), M) = Cardinality({ a \in DOMAIN mask : mask[a] \in M })
<1> DEFINE D == DOMAIN mask
<1>0. \A A, B, C : C \subseteq D /\ C = A \cup B /\ A \cap B = {}
                     => Cardinality(C) = Cardinality(A) + Cardinality(B)
  <2> HIDE DEF D
  <2>1. IsFiniteSet(D)
    BY DEF D
  <2> QED
    BY <2>1, DisjointCounts
<1> DEFINE With(T) == { a \in D : mask[a] \in T }
           w == Spread(mask, masks)
           Bad == { T \in SUBSET M : SumFunctionOnSet(w, T) # Cardinality(With(T)) }
<1>1. \A T : With(T) \in SUBSET D
  OBVIOUS
<1>2. \A m \in M : w[m] = Cardinality(With({m})) /\ w[m] \in Nat
  <2> SUFFICES ASSUME NEW m \in M PROVE w[m] = Cardinality(With({m})) /\ w[m] \in Nat
    OBVIOUS
  <2>1. w[m] = Cardinality({ a \in D : mask[a] = m })
    BY DEF Spread
  <2>2. { a \in D : mask[a] = m } = With({m})
    OBVIOUS
  <2> HIDE DEF w
  <2> QED
    BY <1>1, <2>1, <2>2, FS_Subset, FS_CardinalityType
<1> HIDE DEF w
<1>3. ASSUME Bad # {} PROVE FALSE
  <2>1. /\ IsWellFoundedOn(StrictSubsetOrdering(M), SUBSET M)
        /\ Bad \subseteq SUBSET M /\ Bad # {}
    BY <1>3, FS_StrictSubsetOrderingWellFounded, FS_FiniteSubsetsOfFinite
  <2>2. PICK U \in Bad : \A V \in Bad : <<V, U>> \notin StrictSubsetOrdering(M)
    <3> HIDE DEF Bad
    <3> QED
      BY <2>1, WFMin
  <2>3. U \in SUBSET M /\ SumFunctionOnSet(w, U) # Cardinality(With(U)) /\ IsFiniteSet(U)
    BY <2>2, FS_Subset
  <2>4. U # {}
    <3>1. With({}) = {}
      OBVIOUS
    <3> QED
      BY <2>3, <3>1, SumOfNone, FS_EmptySet
  <2>5. PICK m \in U : TRUE
    BY <2>4
  <2>6. U \ {m} \in SUBSET M /\ <<U \ {m}, U>> \in StrictSubsetOrdering(M)
    BY <2>3, <2>5 DEF StrictSubsetOrdering
  <2>7. SumFunctionOnSet(w, U \ {m}) = Cardinality(With(U \ {m}))
    BY <2>2, <2>6
  <2>8. SumFunctionOnSet(w, U) = w[m] + SumFunctionOnSet(w, U \ {m})
    <3>1. Weighed(w, U)
      BY <1>2, <2>3 DEF Weighed
    <3> QED
      BY <2>5, <3>1, SumSplits DEF Splits
  <2>9. Cardinality(With(U)) = Cardinality(With({m})) + Cardinality(With(U \ {m}))
    <3>1. /\ IsFiniteSet(D) /\ With(U) \subseteq D
          /\ With(U) = With({m}) \cup With(U \ {m}) /\ With({m}) \cap With(U \ {m}) = {}
      BY <2>5
    <3> HIDE DEF With, D
    <3> QED
      BY <1>0, <3>1
  <2> QED
    BY <1>2, <2>3, <2>5, <2>7, <2>8, <2>9
<1>4. SumFunctionOnSet(w, M) = Cardinality(With(M))
  BY <1>3
<1> QED
  BY <1>4 DEF Total, w

\* A spread over the masks of some bits: its total, its total without the
\* empty mask, and the count of each bit and of each mask.
LEMMA SpreadFacts ==
  \A mask, bits, spread : Masked(mask, bits) /\ spread = Spread(mask, SUBSET bits) =>
    /\ Total(spread, DOMAIN spread) = Cardinality(DOMAIN mask)
    /\ Total(spread, DOMAIN spread \ {{}}) = Cardinality(Marked(mask))
    /\ \A b \in bits : BitCount(spread, b) = Cardinality(Bearing(mask, b))
    /\ \A m \in SUBSET bits : spread[m] = Cardinality(Wearing(mask, m))
<1> SUFFICES
      ASSUME NEW mask, NEW bits, Masked(mask, bits), NEW spread, spread = Spread(mask, SUBSET bits)
      PROVE  /\ Total(spread, DOMAIN spread) = Cardinality(DOMAIN mask)
             /\ Total(spread, DOMAIN spread \ {{}}) = Cardinality(Marked(mask))
             /\ \A b \in bits : BitCount(spread, b) = Cardinality(Bearing(mask, b))
             /\ \A m \in SUBSET bits : spread[m] = Cardinality(Wearing(mask, m))
  OBVIOUS
<1> DEFINE D == DOMAIN mask
           masks == SUBSET bits
<1>1. IsFiniteSet(masks) /\ IsFiniteSet(D) /\ \A a \in D : mask[a] \subseteq bits
  BY FS_SUBSET DEF Masked
<1>2. DOMAIN spread = masks /\ \A m \in masks : spread[m] = Cardinality(Wearing(mask, m))
  BY DEF Spread, Wearing
<1>3. \A M \in SUBSET masks : Total(spread, M) = Cardinality({ a \in D : mask[a] \in M })
  <2> SUFFICES ASSUME NEW M \in SUBSET masks
               PROVE  Total(spread, M) = Cardinality({ a \in D : mask[a] \in M })
    OBVIOUS
  <2>1. IsFiniteSet(M)
    BY <1>1, FS_Subset
  <2>2. spread = Spread(mask, masks)
    OBVIOUS
  <2> HIDE DEF masks
  <2>3. Total(Spread(mask, masks), M) = Cardinality({ a \in D : mask[a] \in M })
    BY <1>1, <2>1, SpreadTotals
  <2> QED
    BY <2>2, <2>3
<1>4. { a \in D : mask[a] \in masks } = D
  BY <1>1
<1>5. { a \in D : mask[a] \in masks \ {{}} } = Marked(mask)
  BY <1>1 DEF Marked
<1>6. ASSUME NEW b \in bits
      PROVE  BitCount(spread, b) = Cardinality(Bearing(mask, b))
  <2> DEFINE M == { m \in DOMAIN spread : b \in m }
  <2>1. BitCount(spread, b) = Total(spread, M)
    BY DEF BitCount
  <2>2. M \in SUBSET masks /\ { a \in D : mask[a] \in M } = Bearing(mask, b)
    BY <1>1, <1>2 DEF Bearing
  <2> HIDE DEF M, masks, D
  <2> QED
    BY <1>3, <2>1, <2>2
<1>7. /\ Total(spread, masks) = Cardinality(D)
      /\ Total(spread, masks \ {{}}) = Cardinality(Marked(mask))
  <2>1. masks \in SUBSET masks /\ masks \ {{}} \in SUBSET masks
    OBVIOUS
  <2> HIDE DEF masks
  <2> QED
    BY <1>3, <1>4, <1>5, <2>1
<1> QED
  BY <1>2, <1>6, <1>7

\* The counts of the first census reconcile.
LEMMA FirstCountsReconcile ==
  ASSUME NEW fs, Counted(fs)
  PROVE  FirstReconciles(FirstCensusRow(fs))
<1> DEFINE D == DOMAIN fs
           mask == [a \in D |-> FirstP0Mask(fs[a])]
           current == [a \in D |-> fs[a].current]
           receipt == [a \in D |-> fs[a].largest[AllTime]]
           gross == [a \in D |-> fs[a].gross]
           recency == [a \in D |-> -fs[a].age]
           bits == {1, 2, 4, 8}
           r == FirstCensusRow(fs)
<1>1. /\ r.source = Cardinality(D)
      /\ r.balance = Reach(current, <<1, 10, 100, 1000>>)
      /\ r.receipt = Reach(receipt, <<100, 500, 1000, 5000>>)
      /\ r.gross = Reach(gross, <<10, 100, 1000, 10000>>)
      /\ r.recency = Reach(recency, <<-365, -90, -30>>)
      /\ r.reasons = [b \in bits |-> Cardinality(Bearing(mask, b))]
      /\ r.overlap = Spread(mask, SUBSET bits)
      /\ r.union = Cardinality(Marked(mask))
      /\ r.p1 = Cardinality({ a \in D : IsFirstP1(fs[a]) })
      /\ r.positive = Cardinality({ a \in D : HasPositiveComponent(fs[a]) })
      /\ r.coarse = Cardinality({ a \in D : IsFirstCoarse(fs[a]) })
      /\ r.excluded = Cardinality({ a \in D : ~IsFirstCoarse(fs[a]) })
  BY DEF FirstCensusRow, Bearing, Marked
<1> HIDE DEF r
<1>2. IsFiniteSet(D) /\ \A a \in D : Sound(fs[a])
  BY DEF Counted
<1>3. /\ \A a \in D : /\ current[a] \in Int /\ receipt[a] \in Int /\ gross[a] \in Int
                      /\ recency[a] \in Int
      /\ DOMAIN current = D /\ DOMAIN receipt = D /\ DOMAIN gross = D /\ DOMAIN recency = D
  BY <1>2 DEF Sound, Windows
<1>4. /\ Falls(r.balance) /\ r.balance[3] = Cardinality(Reaching(current, 100))
      /\ Falls(r.receipt) /\ r.receipt[2] = Cardinality(Reaching(receipt, 500))
      /\ Falls(r.gross) /\ r.gross[3] = Cardinality(Reaching(gross, 1000))
      /\ Falls(r.recency)
  <2> HIDE DEF current, receipt, gross, recency, D
  <2>1. Falls(r.balance) /\ r.balance[3] = Cardinality(Reaching(current, 100))
    BY <1>1, <1>2, <1>3, LaddersFall
  <2>2. Falls(r.receipt) /\ r.receipt[2] = Cardinality(Reaching(receipt, 500))
    BY <1>1, <1>2, <1>3, LaddersFall
  <2>3. Falls(r.gross) /\ r.gross[3] = Cardinality(Reaching(gross, 1000))
    BY <1>1, <1>2, <1>3, LaddersFall
  <2>4. Falls(r.recency)
    BY <1>1, <1>2, <1>3, LaddersFall
  <2> QED
    BY <2>1, <2>2, <2>3, <2>4
<1>5. /\ DOMAIN mask = D /\ \A a \in D : mask[a] = FirstP0Mask(fs[a])
      /\ \A a \in D : mask[a] \subseteq bits
  BY FirstMaskBits
<1>6. IsFiniteSet(bits)
  <2>1. \A n \in bits : n \in Nat /\ n <= 8
    OBVIOUS
  <2>2. bits \in SUBSET Nat
    OBVIOUS
  <2> HIDE DEF bits
  <2> QED
    BY <2>1, <2>2, FS_BoundedSetOfNaturals
<1>7. /\ Total(r.overlap, DOMAIN r.overlap) = r.source
      /\ Total(r.overlap, DOMAIN r.overlap \ {{}}) = r.union
      /\ \A b \in bits : BitCount(r.overlap, b) = r.reasons[b]
  <2>1. \A b \in bits : r.reasons[b] = Cardinality(Bearing(mask, b))
    BY <1>1
  <2> HIDE DEF mask, bits, D
  <2>2. Masked(mask, bits) /\ r.overlap = Spread(mask, SUBSET bits)
    BY <1>1, <1>2, <1>5, <1>6 DEF Masked
  <2>3. /\ Total(r.overlap, DOMAIN r.overlap) = Cardinality(DOMAIN mask)
        /\ Total(r.overlap, DOMAIN r.overlap \ {{}}) = Cardinality(Marked(mask))
        /\ \A b \in bits : BitCount(r.overlap, b) = Cardinality(Bearing(mask, b))
    BY <2>2, SpreadFacts
  <2>4. DOMAIN mask = D /\ r.source = Cardinality(D) /\ r.union = Cardinality(Marked(mask))
    BY <1>1, <1>5
  <2> HIDE <1>1, <1>5
  <2> QED
    BY <2>1, <2>3, <2>4
<1>8. /\ r.reasons[1] = r.balance[3] /\ r.reasons[2] = r.receipt[2]
      /\ r.reasons[4] = r.gross[3]
  <2>1. Bearing(mask, 1) = Reaching(current, 100)
    BY <1>3, <1>5, FirstMaskBits DEF Bearing, Reaching
  <2>2. Bearing(mask, 2) = Reaching(receipt, 500)
    BY <1>3, <1>5, FirstMaskBits DEF Bearing, Reaching
  <2>3. Bearing(mask, 4) = Reaching(gross, 1000)
    BY <1>3, <1>5, FirstMaskBits DEF Bearing, Reaching
  <2>4. /\ r.reasons[1] = Cardinality(Bearing(mask, 1))
        /\ r.reasons[2] = Cardinality(Bearing(mask, 2))
        /\ r.reasons[4] = Cardinality(Bearing(mask, 4))
    BY <1>1
  <2> HIDE DEF mask, current, receipt, gross, D
  <2> QED
    BY <1>4, <2>1, <2>2, <2>3, <2>4
<1>9. r.coarse + r.excluded = r.source
  <2> DEFINE A == { a \in D : IsFirstCoarse(fs[a]) }
             B == { a \in D : ~IsFirstCoarse(fs[a]) }
  <2>1. D = A \cup B /\ A \cap B = {}
    OBVIOUS
  <2> HIDE DEF A, B, D
  <2>2. Cardinality(A) + Cardinality(B) = Cardinality(D)
    BY <1>2, <2>1, BothSidesCount
  <2> QED
    BY <1>1, <2>2 DEF A, B
<1>10. r.union + r.p1 <= r.source
  <2> DEFINE A == Marked(mask)
             B == { a \in D : IsFirstP1(fs[a]) }
  <2>1. A \in SUBSET D /\ B \in SUBSET D /\ A \cap B = {}
    BY <1>5 DEF IsFirstP1, Marked
  <2> HIDE DEF A, B, D
  <2>2. Cardinality(A) + Cardinality(B) <= Cardinality(D)
    BY <1>2, <2>1, PartsCountLess
  <2> QED
    BY <1>1, <2>2 DEF A, B
<1>11. r.positive <= r.coarse
  <2> DEFINE A == { a \in D : HasPositiveComponent(fs[a]) }
             B == { a \in D : IsFirstCoarse(fs[a]) }
  <2>1. A \subseteq B /\ B \subseteq D
    BY DEF IsFirstCoarse
  <2> HIDE DEF A, B, D
  <2>2. Cardinality(A) <= Cardinality(B)
    BY <1>2, <2>1, PartIsSmaller, FS_Subset
  <2> QED
    BY <1>1, <2>2 DEF A, B
<1> HIDE DEF mask, current, receipt, gross, recency, D
<1> QED
  BY <1>4, <1>7, <1>8, <1>9, <1>10, <1>11 DEF FirstReconciles, r

\* For every history, the reconciliations of the first census hold for the
\* counts of its SQL.
THEOREM FirstCensusAlwaysReconciles == CensusSpec => []FirstCensusReconciles
<1>1. LedgerType => FirstCensusReconciles
  BY PopulationsAreCounted, FirstCountsReconcile DEF FirstCensusReconciles
<1> QED
  BY <1>1, LedgerTyped, PTL

\* The addresses of a population that carry each reason of a variant, and
\* those the variant keeps.
Balances(fs) == { a \in DOMAIN fs : BigBalance(fs[a]) }
Residuals(fs) == { a \in DOMAIN fs : BigResidual(fs[a]) }
Receipts(fs, v) == { a \in DOMAIN fs : Receipt(v, fs[a]) }
Lifetimes(fs) == { a \in DOMAIN fs : BigLifetime(fs[a]) }
Forced(fs, v) == { a \in DOMAIN fs : P0Mask(v, fs[a]) # {} }
Coarse(fs, v) == { a \in DOMAIN fs : IsCoarse(v, fs[a]) }

\* What a variant counts.
LEMMA VariantCounts ==
  ASSUME NEW fs, Counted(fs), NEW v \in Variants
  PROVE  LET row == VariantRow(fs, v)
         IN  /\ row.reasons[1] = Cardinality(Balances(fs))
             /\ row.reasons[2] = Cardinality(Residuals(fs))
             /\ row.reasons[4] = Cardinality(Receipts(fs, v))
             /\ row.reasons[8] = Cardinality(Lifetimes(fs))
             /\ row.union = Cardinality(Forced(fs, v))
             /\ row.coarse = Cardinality(Coarse(fs, v))
<1>1. /\ Balances(fs) = { a \in DOMAIN fs : BigBalance(fs[a]) }
      /\ Residuals(fs) = { a \in DOMAIN fs : BigResidual(fs[a]) }
      /\ Receipts(fs, v) = { a \in DOMAIN fs : Receipt(v, fs[a]) }
      /\ Lifetimes(fs) = { a \in DOMAIN fs : BigLifetime(fs[a]) }
  BY DEF Balances, Residuals, Receipts, Lifetimes
<1>2. Forced(fs, v) = { a \in DOMAIN fs : [x \in DOMAIN fs |-> P0Mask(v, fs[x])][a] # {} }
  BY DEF Forced
<1> QED
  BY <1>1, <1>2 DEF VariantRow, Coarse

\* The counts of a variant reconcile, and its P0, P1 and edge are disjoint
\* parts of what it keeps.
LEMMA VariantCountsReconcile ==
  ASSUME NEW fs, Counted(fs), NEW v \in Variants
  PROVE  LET row == VariantRow(fs, v)
         IN  /\ VariantReconciles(row, Cardinality(DOMAIN fs)) /\ row.both = 0
             /\ row.union + row.p1 + row.edge <= row.coarse
             /\ row.coarse + row.excluded = Cardinality(DOMAIN fs)
<1> DEFINE D == DOMAIN fs
           mask == [a \in D |-> P0Mask(v, fs[a])]
           bits == {1, 2, 4, 8}
           row == VariantRow(fs, v)
           P1 == { a \in D : IsP1(v, fs[a]) }
           Edge == { a \in D : IsEdge(v, fs[a]) }
           Dropped == { a \in D : ~IsCoarse(v, fs[a]) }
<1>1. IsFiniteSet(D) /\ \A a \in D : Sound(fs[a])
  BY DEF Counted
<1>2. /\ row.overlap = Spread(mask, SUBSET bits)
      /\ row.alone = Cardinality(Wearing(mask, {4}))
      /\ row.p1 = Cardinality(P1) /\ row.edge = Cardinality(Edge)
      /\ row.excluded = Cardinality(Dropped)
      /\ row.both = Cardinality({ a \in D : mask[a] # {} /\ IsP1(v, fs[a]) })
  BY DEF VariantRow, Wearing
<1>3. /\ row.reasons[1] = Cardinality(Balances(fs)) /\ row.reasons[2] = Cardinality(Residuals(fs))
      /\ row.reasons[4] = Cardinality(Receipts(fs, v))
      /\ row.reasons[8] = Cardinality(Lifetimes(fs))
      /\ row.union = Cardinality(Forced(fs, v)) /\ row.coarse = Cardinality(Coarse(fs, v))
  BY VariantCounts
<1> HIDE DEF row
<1>4. /\ DOMAIN mask = D /\ \A a \in D : mask[a] = P0Mask(v, fs[a])
      /\ \A a \in D : mask[a] \subseteq bits
  BY MaskBits
<1>5. IsFiniteSet(bits)
  <2>1. \A n \in bits : n \in Nat /\ n <= 8
    OBVIOUS
  <2>2. bits \in SUBSET Nat
    OBVIOUS
  <2> HIDE DEF bits
  <2> QED
    BY <2>1, <2>2, FS_BoundedSetOfNaturals
<1>6. /\ Total(row.overlap, DOMAIN row.overlap) = Cardinality(D)
      /\ Total(row.overlap, DOMAIN row.overlap \ {{}}) = Cardinality(Marked(mask))
      /\ \A b \in bits : BitCount(row.overlap, b) = Cardinality(Bearing(mask, b))
      /\ \A m \in SUBSET bits : row.overlap[m] = Cardinality(Wearing(mask, m))
  <2> HIDE DEF mask, bits, D
  <2>1. Masked(mask, bits) /\ row.overlap = Spread(mask, SUBSET bits)
    BY <1>1, <1>2, <1>4, <1>5 DEF Masked
  <2> QED
    BY <1>4, <2>1, SpreadFacts
<1>7. /\ Bearing(mask, 1) = Balances(fs) /\ Bearing(mask, 2) = Residuals(fs)
      /\ Bearing(mask, 4) = Receipts(fs, v) /\ Bearing(mask, 8) = Lifetimes(fs)
  <2>1. \A a \in D : /\ 1 \in mask[a] <=> BigBalance(fs[a])
                     /\ 2 \in mask[a] <=> BigResidual(fs[a])
                     /\ 4 \in mask[a] <=> Receipt(v, fs[a])
                     /\ 8 \in mask[a] <=> BigLifetime(fs[a])
    BY <1>4, MaskBits
  <2> HIDE DEF mask
  <2> QED
    BY <1>4, <2>1 DEF Bearing, Balances, Residuals, Receipts, Lifetimes
<1>8. Marked(mask) = Forced(fs, v)
  BY <1>4 DEF Marked, Forced
<1>9. \A b \in bits : BitCount(row.overlap, b) = row.reasons[b]
  <2>1. /\ BitCount(row.overlap, 1) = row.reasons[1] /\ BitCount(row.overlap, 2) = row.reasons[2]
        /\ BitCount(row.overlap, 4) = row.reasons[4] /\ BitCount(row.overlap, 8) = row.reasons[8]
    <3>1. 1 \in bits /\ 2 \in bits /\ 4 \in bits /\ 8 \in bits
      OBVIOUS
    <3> HIDE DEF mask, bits
    <3> QED
      BY <1>3, <1>6, <1>7, <3>1
  <2> QED
    BY <2>1
<1>10. row.overlap[{4}] = row.alone
  <2>1. {4} \in SUBSET bits
    OBVIOUS
  <2> HIDE DEF mask, bits
  <2> QED
    BY <1>2, <1>6, <2>1
<1>11. row.both = 0
  <2>1. { a \in D : mask[a] # {} /\ IsP1(v, fs[a]) } = {}
    BY <1>4 DEF IsP1
  <2> QED
    BY <1>2, <2>1, FS_EmptySet
<1>12. /\ Forced(fs, v) \in SUBSET D /\ P1 \in SUBSET D /\ Coarse(fs, v) \in SUBSET D
       /\ Forced(fs, v) \cap P1 = {} /\ (Forced(fs, v) \cup P1) \cap Edge = {}
       /\ Forced(fs, v) \cup P1 \cup Edge \subseteq Coarse(fs, v)
       /\ D = Coarse(fs, v) \cup Dropped /\ Coarse(fs, v) \cap Dropped = {}
  <2>1. \A a \in D : Score(fs[a]) \in Nat
    BY <1>1, ScoreFacts
  <2>2. \A a \in D : IsP1(v, fs[a]) \/ IsEdge(v, fs[a]) => IsCoarse(v, fs[a])
    BY <2>1 DEF IsP1, IsEdge, IsCoarse
  <2>3. \A a \in D : IsP1(v, fs[a]) => ~IsEdge(v, fs[a])
    BY <2>1 DEF IsP1, IsEdge
  <2> QED
    BY <2>2, <2>3 DEF Forced, Coarse, IsP1, IsEdge, IsCoarse
<1> HIDE DEF P1, Edge, Dropped, D, mask
<1>13. row.coarse + row.excluded = Cardinality(D)
  BY <1>1, <1>2, <1>3, <1>12, BothSidesCount
<1>14. row.union + row.p1 <= Cardinality(D)
  BY <1>1, <1>2, <1>3, <1>12, PartsCountLess
<1>15. row.union + row.p1 + row.edge <= row.coarse
  <2> DEFINE Both == Forced(fs, v) \cup P1
             All == Both \cup Edge
  <2>1. /\ Both \subseteq D /\ All \subseteq D /\ All \subseteq Coarse(fs, v)
        /\ Coarse(fs, v) \subseteq D
    BY <1>12
  <2>2. Both = Forced(fs, v) \cup P1 /\ All = Both \cup Edge /\ Both \cap Edge = {}
    BY <1>12
  <2> HIDE DEF Both, All
  <2>3. \A A, B, C : C \subseteq D /\ C = A \cup B /\ A \cap B = {}
                     => Cardinality(C) = Cardinality(A) + Cardinality(B)
    BY <1>1, DisjointCounts
  <2>4. /\ Cardinality(Both) = Cardinality(Forced(fs, v)) + Cardinality(P1)
        /\ Cardinality(All) = Cardinality(Both) + Cardinality(Edge)
    BY <1>12, <2>1, <2>2, <2>3
  <2>5. Cardinality(All) <= Cardinality(Coarse(fs, v))
    BY <1>1, <2>1, PartIsSmaller
  <2> QED
    BY <1>2, <1>3, <2>4, <2>5
<1>16. VariantReconciles(row, Cardinality(D))
  BY <1>3, <1>6, <1>8, <1>9, <1>10, <1>13, <1>14 DEF VariantReconciles, bits
<1> QED
  BY <1>11, <1>13, <1>15, <1>16 DEF row, D

\* A population with larger values reaches each step at least as often.
LEMMA ReachGrows ==
  ASSUME NEW value, NEW larger, IsFiniteSet(DOMAIN value), DOMAIN larger = DOMAIN value,
         \A a \in DOMAIN value : /\ value[a] \in Int /\ larger[a] \in Int
                                 /\ value[a] <= larger[a],
         NEW steps, \A i \in DOMAIN steps : steps[i] \in Int
  PROVE  \A i \in DOMAIN steps : Reach(value, steps)[i] <= Reach(larger, steps)[i]
<1> SUFFICES ASSUME NEW i \in DOMAIN steps
             PROVE  Reach(value, steps)[i] <= Reach(larger, steps)[i]
  OBVIOUS
<1>1. /\ Reach(value, steps)[i] = Cardinality(Reaching(value, steps[i]))
      /\ Reach(larger, steps)[i] = Cardinality(Reaching(larger, steps[i]))
  BY DEF Reach, Reaching
<1>2. /\ Reaching(value, steps[i]) \subseteq Reaching(larger, steps[i])
      /\ Reaching(larger, steps[i]) \subseteq DOMAIN value
  <2>1. steps[i] \in Int
    OBVIOUS
  <2>2. \A n \in Int : \A a \in DOMAIN value : value[a] >= n => larger[a] >= n
    OBVIOUS
  <2> QED
    BY <2>1, <2>2 DEF Reaching
<1>3. IsFiniteSet(Reaching(larger, steps[i]))
  BY <1>2, FS_Subset
<1> QED
  BY <1>1, <1>2, <1>3, PartIsSmaller

\* The ladders of the second census fall, and what moves besides the largest
\* receipt reaches no step that all that moves does not.
LEMMA LaddersAreValid ==
  ASSUME NEW fs, Counted(fs), NEW r, r = CensusRow(fs)
  PROVE  ThresholdLaddersAreValid(r) /\ \A i \in 1..4 : r.residual[i] <= r.gross[i]
<1> DEFINE D == DOMAIN fs
           current == [a \in D |-> fs[a].current]
           gross == [a \in D |-> fs[a].gross]
           residual == [a \in D |-> Residual(fs[a])]
           recency == [a \in D |-> -fs[a].age]
           largest(w) == [a \in D |-> fs[a].largest[w]]
           steps == <<10, 100, 1000, 10000>>
<1>1. /\ r.balance = Reach(current, <<1, 10, 100, 1000>>)
      /\ r.gross = Reach(gross, steps) /\ r.residual = Reach(residual, steps)
      /\ r.recency = Reach(recency, <<-365, -90, -30>>)
      /\ \A w \in Windows : r.largest[w] = Reach(largest(w), <<500, 1000, 5000>>)
  BY DEF CensusRow
<1>2. IsFiniteSet(D) /\ \A a \in D : Sound(fs[a])
  BY DEF Counted
<1>3. /\ DOMAIN current = D /\ \A a \in D : current[a] \in Int
      /\ DOMAIN recency = D /\ \A a \in D : recency[a] \in Int
  BY <1>2 DEF Sound
<1>4. /\ DOMAIN gross = D /\ DOMAIN residual = D
      /\ \A a \in D : gross[a] \in Int /\ residual[a] \in Int /\ residual[a] <= gross[a]
  <2>1. \A a \in D : /\ fs[a].gross \in Nat /\ Residual(fs[a]) \in Nat
                     /\ Residual(fs[a]) <= fs[a].gross
    BY <1>2, ResidualFacts DEF Sound
  <2> QED
    BY <2>1
<1>5. ASSUME NEW w \in Windows
      PROVE  Falls(r.largest[w])
  <2>1. DOMAIN largest(w) = D /\ \A a \in D : largest(w)[a] \in Int
    BY <1>2 DEF Sound
  <2>2. r.largest[w] = Reach(largest(w), <<500, 1000, 5000>>)
    BY <1>1
  <2> HIDE DEF largest, D
  <2> QED
    BY <1>2, <2>1, <2>2, LaddersFall
<1>6. Falls(r.balance) /\ Falls(r.gross) /\ Falls(r.residual) /\ Falls(r.recency)
  <2>1. /\ r.balance = Reach(current, <<1, 10, 100, 1000>>)
        /\ r.gross = Reach(gross, <<10, 100, 1000, 10000>>)
        /\ r.residual = Reach(residual, <<10, 100, 1000, 10000>>)
        /\ r.recency = Reach(recency, <<-365, -90, -30>>)
    BY <1>1
  <2> HIDE DEF current, gross, residual, recency, D
  <2>2. Falls(r.balance)
    BY <1>2, <1>3, <2>1, LaddersFall
  <2>3. Falls(r.gross)
    BY <1>2, <1>4, <2>1, LaddersFall
  <2>4. Falls(r.residual)
    BY <1>2, <1>4, <2>1, LaddersFall
  <2>5. Falls(r.recency)
    BY <1>2, <1>3, <2>1, LaddersFall
  <2> QED
    BY <2>2, <2>3, <2>4, <2>5
<1>7. \A i \in 1..4 : r.residual[i] <= r.gross[i]
  <2>1. DOMAIN steps = 1..4 /\ \A i \in DOMAIN steps : steps[i] \in Int
    OBVIOUS
  <2> HIDE DEF steps, gross, residual, D
  <2>2. \A i \in DOMAIN steps : Reach(residual, steps)[i] <= Reach(gross, steps)[i]
    BY <1>2, <1>4, <2>1, ReachGrows
  <2> QED
    BY <1>1, <2>1, <2>2
<1> QED
  BY <1>5, <1>6, <1>7 DEF ThresholdLaddersAreValid

\* The funnel of receipts narrows: from those of 500 BTC, by window and by
\* number, to those a rule supports.
LEMMA FunnelIsValid ==
  ASSUME NEW fs, Counted(fs), NEW r, r = CensusRow(fs)
  PROVE  /\ ReceiptFunnelIsValid(r)
         /\ r.largest[AllTime][1]
              = Cardinality({ a \in DOMAIN fs : fs[a].largest[AllTime] >= 500 })
<1> DEFINE D == DOMAIN fs
           largest(w) == [a \in D |-> fs[a].largest[w]]
           large(w) == [a \in D |-> fs[a].large[w]]
           Paid(w) == { a \in D : fs[a].large[w] >= 1 }
<1>1. IsFiniteSet(D) /\ \A a \in D : Sound(fs[a])
  BY DEF Counted
<1>2. 90 \in Windows /\ 365 \in Windows /\ AllTime \in Windows
  BY DEF Windows
<1>3. \A w \in Windows : /\ r.largest[w] = Reach(largest(w), <<500, 1000, 5000>>)
                         /\ r.large[w] = Reach(large(w), <<1, 2, 3>>)
  BY DEF CensusRow
<1>4. \A w \in Windows : \A a \in D :
        /\ largest(w)[a] = fs[a].largest[w] /\ fs[a].largest[w] \in Nat
        /\ large(w)[a] = fs[a].large[w] /\ fs[a].large[w] \in Nat
        /\ fs[a].large[w] >= 1 <=> fs[a].largest[w] >= 500
  BY <1>1 DEF Sound
<1>5. ASSUME NEW w \in Windows
      PROVE  /\ Falls(r.large[w])
             /\ r.large[w][1] = Cardinality(Paid(w)) /\ r.largest[w][1] = Cardinality(Paid(w))
             /\ r.large[w][2] = Cardinality({ a \in D : fs[a].large[w] >= 2 })
             /\ Cardinality(Paid(w)) = Cardinality({ a \in D : fs[a].largest[w] >= 500 })
  <2>1. /\ DOMAIN largest(w) = D /\ \A a \in D : largest(w)[a] \in Int
        /\ DOMAIN large(w) = D /\ \A a \in D : large(w)[a] \in Int
    BY <1>4
  <2>2. /\ Reaching(large(w), 1) = Paid(w) /\ Reaching(largest(w), 500) = Paid(w)
        /\ Reaching(large(w), 2) = { a \in D : fs[a].large[w] >= 2 }
        /\ Paid(w) = { a \in D : fs[a].largest[w] >= 500 }
    BY <1>4 DEF Reaching
  <2>3. /\ r.largest[w] = Reach(largest(w), <<500, 1000, 5000>>)
        /\ r.large[w] = Reach(large(w), <<1, 2, 3>>)
    BY <1>3
  <2> HIDE DEF largest, large, Paid, D
  <2>4. /\ Falls(r.large[w]) /\ r.large[w][1] = Cardinality(Reaching(large(w), 1))
        /\ r.large[w][2] = Cardinality(Reaching(large(w), 2))
    BY <1>1, <2>1, <2>3, LaddersFall
  <2>5. r.largest[w][1] = Cardinality(Reaching(largest(w), 500))
    BY <1>1, <2>1, <2>3, LaddersFall
  <2> QED
    BY <2>2, <2>4, <2>5
<1>6. ASSUME NEW i \in 1..3, NEW w \in Windows, NEW shorter \in Windows, shorter <= w
      PROVE  r.largest[shorter][i] <= r.largest[w][i] /\ r.large[shorter][i] <= r.large[w][i]
  <2>1. \A a \in D : /\ fs[a].largest[shorter] <= fs[a].largest[w]
                     /\ fs[a].large[shorter] <= fs[a].large[w]
    BY <1>1, <1>6 DEF Sound
  <2>2. /\ DOMAIN largest(shorter) = D /\ DOMAIN largest(w) = D
        /\ \A a \in D : /\ largest(shorter)[a] \in Int /\ largest(w)[a] \in Int
                        /\ largest(shorter)[a] <= largest(w)[a]
    BY <1>4, <2>1
  <2>3. /\ DOMAIN large(shorter) = D /\ DOMAIN large(w) = D
        /\ \A a \in D : /\ large(shorter)[a] \in Int /\ large(w)[a] \in Int
                        /\ large(shorter)[a] <= large(w)[a]
    BY <1>4, <2>1
  <2> DEFINE amounts == <<500, 1000, 5000>>
             numbers == <<1, 2, 3>>
  <2>4. /\ DOMAIN amounts = 1..3 /\ \A j \in DOMAIN amounts : amounts[j] \in Int
        /\ DOMAIN numbers = 1..3 /\ \A j \in DOMAIN numbers : numbers[j] \in Int
    OBVIOUS
  <2>5. /\ r.largest[w] = Reach(largest(w), amounts)
        /\ r.largest[shorter] = Reach(largest(shorter), amounts)
        /\ r.large[w] = Reach(large(w), numbers)
        /\ r.large[shorter] = Reach(large(shorter), numbers)
    BY <1>3
  <2> HIDE DEF amounts, numbers, largest, large, D
  <2>6. \A j \in DOMAIN amounts :
          Reach(largest(shorter), amounts)[j] <= Reach(largest(w), amounts)[j]
    BY <1>1, <2>2, <2>4, ReachGrows
  <2>7. \A j \in DOMAIN numbers :
          Reach(large(shorter), numbers)[j] <= Reach(large(w), numbers)[j]
    BY <1>1, <2>3, <2>4, ReachGrows
  <2> QED
    BY <2>4, <2>5, <2>6, <2>7
<1>7. /\ r.retained = Cardinality({ a \in D : Retained(fs[a], 90) })
      /\ r.repeated = Cardinality({ a \in D : Repeated(fs[a]) })
      /\ r.sustained = Cardinality({ a \in D : Sustained(fs[a]) })
      /\ r.supported = Cardinality({ a \in D : StrictReceipt(fs[a]) })
      /\ r.unsupported = Cardinality({ a \in D : fs[a].large[90] = 1 /\ ~StrictReceipt(fs[a]) })
      /\ r.stale = Cardinality({ a \in D : fs[a].large[AllTime] = 1 /\ fs[a].large[365] = 0 })
  BY DEF CensusRow
<1>8. \A w \in Windows : Paid(w) \subseteq D
  OBVIOUS
<1>9. r.retained <= r.large[90][1] /\ r.sustained <= r.large[90][1]
  <2> DEFINE A == { a \in D : Retained(fs[a], 90) }
             B == { a \in D : Sustained(fs[a]) }
  <2>1. A \subseteq Paid(90) /\ B \subseteq Paid(90)
    BY <1>2, <1>4 DEF Retained, Sustained
  <2>2. r.retained = Cardinality(A) /\ r.sustained = Cardinality(B)
    BY <1>7
  <2>3. r.large[90][1] = Cardinality(Paid(90)) /\ Paid(90) \subseteq D
    BY <1>2, <1>5
  <2> HIDE DEF A, B, Paid, D
  <2>4. IsFiniteSet(Paid(90))
    BY <1>1, <2>3, FS_Subset
  <2> QED
    BY <2>1, <2>2, <2>3, <2>4, PartIsSmaller
<1>10. r.repeated = r.large[90][2]
  <2>1. { a \in D : Repeated(fs[a]) } = { a \in D : fs[a].large[90] >= 2 }
    BY DEF Repeated
  <2>2. r.large[90][2] = Cardinality({ a \in D : fs[a].large[90] >= 2 })
    BY <1>2, <1>5
  <2> QED
    BY <1>7, <2>1, <2>2
<1>11. r.supported + r.unsupported = r.large[90][1]
  <2> DEFINE A == { a \in D : StrictReceipt(fs[a]) }
             B == { a \in D : fs[a].large[90] = 1 /\ ~StrictReceipt(fs[a]) }
  <2>1. \A a \in D : /\ StrictReceipt(fs[a]) => fs[a].large[90] >= 1
                     /\ fs[a].large[90] >= 2 => StrictReceipt(fs[a])
    <3>1. \A a \in D : StrictReceipt(fs[a]) => fs[a].large[90] >= 1
      BY <1>1, SupportedReceipts
    <3>2. \A a \in D : fs[a].large[90] >= 2 => StrictReceipt(fs[a])
      BY <1>2, <1>4 DEF StrictReceipt, Repeated
    <3> QED
      BY <3>1, <3>2
  <2>2. Paid(90) = A \cup B /\ A \cap B = {}
    BY <1>2, <1>4, <2>1
  <2>3. r.supported = Cardinality(A) /\ r.unsupported = Cardinality(B)
    BY <1>7
  <2>4. r.large[90][1] = Cardinality(Paid(90)) /\ Paid(90) \subseteq D
    BY <1>2, <1>5
  <2> HIDE DEF A, B, Paid, D
  <2>5. IsFiniteSet(Paid(90))
    BY <1>1, <2>4, FS_Subset
  <2> QED
    BY <2>2, <2>3, <2>4, <2>5, BothSidesCount
<1>12. r.stale <= r.large[AllTime][1]
  <2> DEFINE A == { a \in D : fs[a].large[AllTime] = 1 /\ fs[a].large[365] = 0 }
  <2>1. A \subseteq Paid(AllTime) /\ r.stale = Cardinality(A)
    BY <1>7
  <2>2. r.large[AllTime][1] = Cardinality(Paid(AllTime)) /\ Paid(AllTime) \subseteq D
    BY <1>2, <1>5
  <2> HIDE DEF A, Paid, D
  <2>3. IsFiniteSet(Paid(AllTime))
    BY <1>1, <2>2, FS_Subset
  <2> QED
    BY <2>1, <2>2, <2>3, PartIsSmaller
<1>13. \A w \in Windows : Falls(r.large[w]) /\ r.large[w][1] = r.largest[w][1]
  BY <1>5
<1>14. r.largest[AllTime][1] = Cardinality({ a \in D : fs[a].largest[AllTime] >= 500 })
  BY <1>2, <1>5
<1> QED
  BY <1>6, <1>9, <1>10, <1>11, <1>12, <1>13, <1>14 DEF ReceiptFunnelIsValid

\* The masks of the receipts add up to the population, and by bit to the
\* rules that support a receipt.
LEMMA SupportReconciles ==
  ASSUME NEW fs, Counted(fs), NEW r, r = CensusRow(fs)
  PROVE  ReceiptSupportReconciles(r)
<1> DEFINE D == DOMAIN fs
           mask == [a \in D |-> ReceiptMask(fs[a])]
           bits == {1, 2, 4}
<1>1. IsFiniteSet(D) /\ \A a \in D : Sound(fs[a])
  BY DEF Counted
<1>2. /\ r.source = Cardinality(D) /\ r.support = Spread(mask, SUBSET bits)
      /\ r.retained = Cardinality({ a \in D : Retained(fs[a], 90) })
      /\ r.repeated = Cardinality({ a \in D : Repeated(fs[a]) })
      /\ r.sustained = Cardinality({ a \in D : Sustained(fs[a]) })
      /\ r.supported = Cardinality({ a \in D : StrictReceipt(fs[a]) })
  BY DEF CensusRow
<1>3. /\ DOMAIN mask = D /\ \A a \in D : mask[a] = ReceiptMask(fs[a])
      /\ \A a \in D : mask[a] \subseteq bits
  BY ReceiptBits
<1>4. IsFiniteSet(bits) /\ 1 \in bits /\ 2 \in bits /\ 4 \in bits
  <2>1. \A n \in bits : n \in Nat /\ n <= 4
    OBVIOUS
  <2>2. bits \in SUBSET Nat /\ 1 \in bits /\ 2 \in bits /\ 4 \in bits
    OBVIOUS
  <2> HIDE DEF bits
  <2> QED
    BY <2>1, <2>2, FS_BoundedSetOfNaturals
<1>5. /\ Bearing(mask, 1) = { a \in D : Retained(fs[a], 90) }
      /\ Bearing(mask, 2) = { a \in D : Repeated(fs[a]) }
      /\ Bearing(mask, 4) = { a \in D : Sustained(fs[a]) }
  <2>1. \A a \in D : /\ 1 \in mask[a] <=> Retained(fs[a], 90)
                     /\ 2 \in mask[a] <=> Repeated(fs[a])
                     /\ 4 \in mask[a] <=> Sustained(fs[a])
    BY <1>3, ReceiptBits
  <2> HIDE DEF mask
  <2> QED
    BY <1>3, <2>1 DEF Bearing
<1>6. Marked(mask) = { a \in D : StrictReceipt(fs[a]) }
  <2>1. \A a \in D : StrictReceipt(fs[a]) <=> mask[a] # {}
    BY <1>1, <1>3, SupportedReceipts
  <2> HIDE DEF mask
  <2> QED
    BY <1>3, <2>1 DEF Marked
<1>7. /\ Total(r.support, DOMAIN r.support) = Cardinality(D)
      /\ Total(r.support, DOMAIN r.support \ {{}}) = Cardinality(Marked(mask))
      /\ \A b \in bits : BitCount(r.support, b) = Cardinality(Bearing(mask, b))
  <2> HIDE DEF mask, bits, D
  <2>1. Masked(mask, bits) /\ r.support = Spread(mask, SUBSET bits)
    BY <1>1, <1>2, <1>3, <1>4 DEF Masked
  <2> QED
    BY <1>3, <2>1, SpreadFacts
<1> HIDE DEF mask, bits, D
<1>8. /\ BitCount(r.support, 1) = r.retained /\ BitCount(r.support, 2) = r.repeated
      /\ BitCount(r.support, 4) = r.sustained
  BY <1>2, <1>4, <1>5, <1>7
<1>9. Total(r.support, DOMAIN r.support \ {{}}) = r.supported
  BY <1>2, <1>6, <1>7
<1> QED
  BY <1>2, <1>7, <1>8, <1>9 DEF ReceiptSupportReconciles

\* V2-B keeps all that V2-S keeps.
LEMMA BalancedIncludesStrict ==
  ASSUME NEW fs
  PROVE  /\ Receipts(fs, "V2-S") \subseteq Receipts(fs, "V2-B")
         /\ Forced(fs, "V2-S") \subseteq Forced(fs, "V2-B")
         /\ Coarse(fs, "V2-S") \subseteq Coarse(fs, "V2-B")
<1>1. ASSUME NEW f
      PROVE  /\ Receipt("V2-S", f) => Receipt("V2-B", f)
             /\ P0Mask("V2-S", f) # {} => P0Mask("V2-B", f) # {}
  <2>1. Receipt("V2-S", f) => Receipt("V2-B", f)
    BY ReceiptOf DEF BalancedReceipt
  <2>2. \A b \in {1, 2, 4, 8} : b \in P0Mask("V2-S", f) => b \in P0Mask("V2-B", f)
    BY <2>1, MaskBits
  <2>3. P0Mask("V2-S", f) \subseteq {1, 2, 4, 8}
    BY MaskBits
  <2> QED
    BY <2>1, <2>2, <2>3
<1>2. ASSUME NEW f
      PROVE  IsCoarse("V2-S", f) => IsCoarse("V2-B", f)
  BY <1>1 DEF IsCoarse
<1> QED
  BY <1>1, <1>2 DEF Receipts, Forced, Coarse

\* The counts of the second census reconcile.
LEMMA CountsReconcile ==
  ASSUME NEW fs, Counted(fs), NEW r, r = CensusRow(fs)
  PROVE  Reconciles(r) /\ PartitionIsValid(r.variant["V2-S"], Cardinality(DOMAIN fs))
<1>1. IsFiniteSet(DOMAIN fs) /\ \A a \in DOMAIN fs : Sound(fs[a])
  BY DEF Counted
<1>2. /\ "V2-S" \in Variants /\ "V2-B" \in Variants /\ "V2-R" \in Variants
  BY DEF Variants
<1>3. /\ r.source = Cardinality(DOMAIN fs)
      /\ r.supported = Cardinality({ a \in DOMAIN fs : StrictReceipt(fs[a]) })
      /\ r.balance = Reach([a \in DOMAIN fs |-> fs[a].current], <<1, 10, 100, 1000>>)
      /\ \A v \in Variants : r.variant[v] = VariantRow(fs, v)
  BY DEF CensusRow
<1>4. ASSUME NEW v \in Variants
      PROVE  /\ r.variant[v].reasons[1] = Cardinality(Balances(fs))
             /\ r.variant[v].reasons[2] = Cardinality(Residuals(fs))
             /\ r.variant[v].reasons[4] = Cardinality(Receipts(fs, v))
             /\ r.variant[v].reasons[8] = Cardinality(Lifetimes(fs))
             /\ r.variant[v].union = Cardinality(Forced(fs, v))
             /\ r.variant[v].coarse = Cardinality(Coarse(fs, v))
  BY <1>3, VariantCounts
<1>5. ASSUME NEW v \in Variants
      PROVE  /\ VariantReconciles(r.variant[v], r.source) /\ r.variant[v].both = 0
             /\ r.variant[v].union + r.variant[v].p1 + r.variant[v].edge <= r.variant[v].coarse
             /\ r.variant[v].coarse + r.variant[v].excluded = Cardinality(DOMAIN fs)
  BY <1>3, VariantCountsReconcile
<1>6. r.balance[3] = Cardinality(Balances(fs))
  <2> DEFINE current == [a \in DOMAIN fs |-> fs[a].current]
  <2>1. DOMAIN current = DOMAIN fs /\ \A a \in DOMAIN fs : current[a] \in Int
    BY <1>1 DEF Sound
  <2>2. Reaching(current, 100) = Balances(fs)
    BY DEF Reaching, Balances, BigBalance
  <2>3. r.balance = Reach(current, <<1, 10, 100, 1000>>)
    BY <1>3
  <2> HIDE DEF current
  <2>4. r.balance[3] = Cardinality(Reaching(current, 100))
    BY <1>1, <2>1, <2>3, LaddersFall
  <2> QED
    BY <2>2, <2>4
<1>7. \A v \in Variants :
        /\ VariantReconciles(r.variant[v], r.source) /\ r.variant[v].both = 0
        /\ r.variant[v].reasons[1] = r.balance[3]
        /\ \A b \in {1, 2, 8} : r.variant[v].reasons[b] = r.variant["V2-S"].reasons[b]
  <2> SUFFICES ASSUME NEW v \in Variants
               PROVE  /\ r.variant[v].reasons[1] = r.balance[3]
                      /\ \A b \in {1, 2, 8} : r.variant[v].reasons[b] = r.variant["V2-S"].reasons[b]
    BY <1>5
  <2> QED
    BY <1>2, <1>4, <1>6
<1>8. r.variant["V2-S"].reasons[4] = r.supported
  <2> DEFINE A == { a \in DOMAIN fs : StrictReceipt(fs[a]) }
  <2>1. Receipts(fs, "V2-S") = A
    BY ReceiptOf DEF Receipts
  <2>2. r.supported = Cardinality(A)
    BY <1>3
  <2> HIDE DEF A
  <2> QED
    BY <1>2, <1>4, <2>1, <2>2
<1>9. /\ r.variant["V2-B"].reasons[4] >= r.variant["V2-S"].reasons[4]
      /\ r.variant["V2-B"].union >= r.variant["V2-S"].union
      /\ r.variant["V2-B"].coarse >= r.variant["V2-S"].coarse
  <2>1. /\ Receipts(fs, "V2-B") \subseteq DOMAIN fs /\ Forced(fs, "V2-B") \subseteq DOMAIN fs
        /\ Coarse(fs, "V2-B") \subseteq DOMAIN fs
    BY DEF Receipts, Forced, Coarse
  <2>2. /\ IsFiniteSet(Receipts(fs, "V2-B")) /\ IsFiniteSet(Forced(fs, "V2-B"))
        /\ IsFiniteSet(Coarse(fs, "V2-B"))
    BY <1>1, <2>1, FS_Subset
  <2>3. /\ Cardinality(Receipts(fs, "V2-S")) <= Cardinality(Receipts(fs, "V2-B"))
        /\ Cardinality(Forced(fs, "V2-S")) <= Cardinality(Forced(fs, "V2-B"))
        /\ Cardinality(Coarse(fs, "V2-S")) <= Cardinality(Coarse(fs, "V2-B"))
        /\ Cardinality(Receipts(fs, "V2-S")) \in Nat /\ Cardinality(Receipts(fs, "V2-B")) \in Nat
        /\ Cardinality(Forced(fs, "V2-S")) \in Nat /\ Cardinality(Forced(fs, "V2-B")) \in Nat
        /\ Cardinality(Coarse(fs, "V2-S")) \in Nat /\ Cardinality(Coarse(fs, "V2-B")) \in Nat
    BY <2>2, BalancedIncludesStrict, PartIsSmaller
  <2> QED
    BY <1>2, <1>4, <2>3
<1>10. r.variant["V2-R"].reasons[4] <= r.largest[AllTime][1]
  <2> DEFINE A == { a \in DOMAIN fs : fs[a].largest[AllTime] >= 500 }
  <2>1. Receipts(fs, "V2-R") \subseteq A /\ A \subseteq DOMAIN fs
    BY ReceiptOf DEF Receipts, Retained
  <2>2. r.largest[AllTime][1] = Cardinality(A)
    BY FunnelIsValid
  <2> HIDE DEF A
  <2>3. IsFiniteSet(A)
    BY <1>1, <2>1, FS_Subset
  <2> QED
    BY <1>2, <1>4, <2>1, <2>2, <2>3, PartIsSmaller
<1>11. PartitionIsValid(r.variant["V2-S"], Cardinality(DOMAIN fs))
  BY <1>2, <1>5 DEF PartitionIsValid
<1>12. /\ ThresholdLaddersAreValid(r) /\ ReceiptFunnelIsValid(r) /\ ReceiptSupportReconciles(r)
       /\ \A i \in 1..4 : r.residual[i] <= r.gross[i]
  BY LaddersAreValid, FunnelIsValid, SupportReconciles
<1>13. Reconciles(r)
  BY <1>7, <1>8, <1>9, <1>10, <1>12 DEF Reconciles
<1> QED
  BY <1>11, <1>13

\* For every history, no reconciliation blocks the reading of the second
\* census, and the strict variant is a partition of its population.
THEOREM CensusAlwaysReconciles == CensusSpec => []CensusReconciles
<1>1. LedgerType => CensusReconciles
  BY PopulationsAreCounted, CountsReconcile DEF CensusReconciles
<1> QED
  BY <1>1, LedgerTyped, PTL
=============================================================================
