------------------------- MODULE CoverageSyncProofs -------------------------
(***************************************************************************)
(* Proofs about CoverageSync for every set of entities and addresses,      *)
(* every limit and TTL, and any number of overlapping and dying runs.      *)
(***************************************************************************)
EXTENDS CoverageSync, FiniteSetTheorems, SequenceTheorems, WellFoundedInduction, TLAPS

-----------------------------------------------------------------------------
(***************************************************************************)
(* Numbers and plans                                                       *)
(***************************************************************************)

\* The lesser and the greater of two numbers.
LEMMA MinOfTwo ==
  ASSUME NEW a \in Int, NEW b \in Int
  PROVE  /\ Min({a, b}) \in {a, b} /\ Min({a, b}) <= a /\ Min({a, b}) <= b
         /\ Max({a, b}) \in {a, b} /\ Max({a, b}) >= a /\ Max({a, b}) >= b
<1>1. \E x \in {a, b} : \A y \in {a, b} : x <= y
  <2>1. a <= b \/ b <= a
    OBVIOUS
  <2> QED
    BY <2>1
<1>2. \E x \in {a, b} : \A y \in {a, b} : x >= y
  <2>1. a >= b \/ b >= a
    OBVIOUS
  <2> QED
    BY <2>1
<1>3. Min({a, b}) = CHOOSE x \in {a, b} : \A y \in {a, b} : x <= y
  BY DEF Min
<1>4. Max({a, b}) = CHOOSE x \in {a, b} : \A y \in {a, b} : x >= y
  BY DEF Max
<1>5. Min({a, b}) \in {a, b} /\ \A y \in {a, b} : Min({a, b}) <= y
  BY <1>1, <1>3
<1>6. Max({a, b}) \in {a, b} /\ \A y \in {a, b} : Max({a, b}) >= y
  BY <1>2, <1>4
<1> QED
  BY <1>5, <1>6

\* Two requests for each item of a plan of n.
LEMMA Halves ==
  ASSUME NEW n \in Nat, NEW i \in 1..(2 * n)
  PROVE  /\ (i + 1) \div 2 \in 1..n
         /\ i % 2 = 1 \/ i % 2 = 0
         /\ i % 2 = 1 => i = 2 * ((i + 1) \div 2) - 1
         /\ i % 2 = 0 => i = 2 * ((i + 1) \div 2)
OBVIOUS

\* A limit on what there is.
LEMMA Limited ==
  ASSUME NEW a \in Nat, NEW b \in Nat
  PROVE  /\ Min({a, b}) \in Nat /\ Min({a, b}) <= a /\ Min({a, b}) <= b
<1>1. Min({a, b}) \in {a, b} /\ Min({a, b}) <= a /\ Min({a, b}) <= b
  <2>1. a \in Int /\ b \in Int
    OBVIOUS
  <2> QED
    BY <2>1, MinOfTwo, Zenon
<1> QED
  BY <1>1

\* max(0, x).
LEMMA NotNegative ==
  ASSUME NEW x \in Int
  PROVE  /\ Max({0, x}) \in {0, x} /\ Max({0, x}) >= 0
         /\ Max({0, x}) \in Nat
         /\ x >= 0 => Max({0, x}) = x
         /\ x < 0 => Max({0, x}) = 0
<1>1. /\ Max({0, x}) \in {0, x} /\ Max({0, x}) >= 0 /\ Max({0, x}) >= x
  <2>1. 0 \in Int
    OBVIOUS
  <2> QED
    BY <2>1, MinOfTwo, Zenon
<1> QED
  BY <1>1

\* What discovery, the entities and the window leave room for.
LEMMA CapacityFits ==
  /\ EntityCapacity \in Nat
  /\ 2 + 2 * EntityCapacity <= Rpm
<1> DEFINE half == (Rpm - 2 - 1) \div 2
<1>1. Rpm \in Nat /\ Rpm >= 2
  BY LimitsAssumption DEF LimitsAssumption
<1>2. half \in Int /\ 2 * half <= Rpm - 3
  BY <1>1
<1>3. EntityCapacity = Max({0, half})
  BY DEF EntityCapacity
<1> HIDE DEF half
<1>4. EntityCapacity \in {0, half} /\ EntityCapacity >= 0
  BY <1>2, <1>3, NotNegative, Zenon
<1> QED
  BY <1>1, <1>2, <1>4

-----------------------------------------------------------------------------
(***************************************************************************)
(* Types                                                                   *)
(***************************************************************************)

\* What a run may be asked to pay for.
Legal == [kind: {"discovery"}, item: Nat]
           \cup [kind: {"detail", "predictions"}, item: Entities]
           \cup [kind: {"address"}, item: Addresses]

Labels == {"idle", "next", "ask", "close", "attempt", "parse", "write", "over", "dead"}
RunStates == [pc: Labels, stage: {"none", "discovery", "entities", "addresses", "blocked"},
              work: Seq(Legal), answer: Answers \cup {None}, clean: BOOLEAN, refused: BOOLEAN]

EntityRows ==
  [run: Runs, item: Entities, rank: Nat \ {0}, method: {"balance_changes"}]
    \cup [run: Runs, item: Entities, rank: {None}, method: {"entity_detail"}]

RowsOK ==
  /\ observations \subseteq [run: Runs, request: Legal, answer: Answers]
  /\ IsFiniteSet(observations)
  /\ entityRows \subseteq EntityRows
  /\ attempts \subseteq [run: Runs, item: Entities, outcome: {"failed", "success"}]
  /\ entityParses \subseteq [run: Runs, item: Entities, outcome: Terminal \cup {"malformed_payload"}]
  /\ addressParses \subseteq [run: Runs, item: Addresses, outcome: {"parsed_success", "malformed_payload"}]
  /\ members \subseteq [run: Runs, item: Entities]
  /\ evidence \subseteq [run: Runs, item: Addresses]

\* What the state of a run goes with.
Holding(r) ==
  /\ run[r].pc = "idle" <=> startedAt[r] = None
  /\ run[r].pc \in {"ask", "close", "attempt", "parse", "write"}
       => run[r].work # <<>> /\ run[r].stage # "blocked"
  /\ run[r].pc \in {"close", "attempt", "parse", "write"} => run[r].answer \in Answers
  /\ run[r].pc = "attempt" => Current(r).kind = "predictions"
  /\ run[r].pc = "write" => Current(r).kind \in {"predictions", "address"}
  /\ run[r].pc \in {"idle", "over", "dead"} => ~ run[r].refused
  /\ run[r].stage = "blocked" => run[r].work = <<>>

TypeInv ==
  /\ clock \in 0..MaxTime /\ seeds \subseteq SeedOffers
  /\ startedAt \in [Runs -> 0..MaxTime \cup {None}]
  /\ status \in [Runs -> {"none", "running", "completed", "partial", "blocked"}]
  /\ reservations \subseteq [run: Runs, number: 1..Rpm] /\ IsFiniteSet(reservations)
  /\ open \subseteq Runs
  /\ run \in [Runs -> RunStates] /\ before \in [Runs -> SUBSET Runs]
  /\ RowsOK
  /\ \A r \in Runs : Holding(r)
  /\ \A x \in reservations : startedAt[x.run] # None
  /\ \A o \in observations : startedAt[o.run] # None

\* A run that is still going and where it may be next.
Going(r) == run[r].pc \notin {"idle", "over", "dead"}

\* What a step of a run leaves alone: the other runs, what is fixed when a run
\* starts, and every row there is; the rows it adds are its own.
Grows(old, new, r) == old \subseteq new /\ \A x \in new : x \in old \/ x.run = r
Moves(r) ==
  /\ run' \in [Runs -> RunStates] /\ \A m \in Runs \ {r} : run'[m] = run[m]
  /\ Going(r) /\ run'[r].pc # "idle"
  /\ UNCHANGED <<clock, seeds, startedAt, before>>
  /\ Grows(reservations, reservations', r) /\ Grows(observations, observations', r)
  /\ Grows(entityRows, entityRows', r) /\ Grows(attempts, attempts', r)
  /\ Grows(entityParses, entityParses', r) /\ Grows(addressParses, addressParses', r)
  /\ Grows(members, members', r) /\ Grows(evidence, evidence', r)

\* A legal request is a request.
LEMMA LegalRequests == Legal \subseteq Requests
BY ItemsAssumption DEF Legal, Requests, Kinds, ItemsAssumption

\* An idle run has the state of a run.
LEMMA NoRunState == NoRun \in RunStates
<1>1. <<>> \in Seq(Legal)
  OBVIOUS
<1> QED
  BY <1>1 DEF NoRun, RunStates, Labels

\* The request at hand, and what is left without it.
LEMMA AtHand ==
  ASSUME TypeInv, NEW r \in Runs, run[r].work # <<>>
  PROVE  /\ Current(r) \in Legal /\ Current(r) = run[r].work[1]
         /\ Tail(run[r].work) \in Seq(Legal)
         /\ Len(run[r].work) \in Nat \ {0}
         /\ Len(Tail(run[r].work)) = Len(run[r].work) - 1
         /\ \A i \in 1..Len(Tail(run[r].work)) :
              /\ i + 1 \in 1..Len(run[r].work)
              /\ Tail(run[r].work)[i] = run[r].work[i + 1]
<1>1. run[r].work \in Seq(Legal)
  BY DEF TypeInv, RunStates
<1> DEFINE w == run[r].work
<1>2. w \in Seq(Legal) /\ w # <<>>
  BY <1>1
<1>3. Current(r) = Head(w)
  BY DEF Current
<1> HIDE DEF w
<1>4. /\ Head(w) \in Legal /\ Head(w) = w[1] /\ Tail(w) \in Seq(Legal)
      /\ Len(w) \in Nat \ {0} /\ Len(Tail(w)) = Len(w) - 1
      /\ \A i \in 1..Len(Tail(w)) : i + 1 \in 1..Len(w) /\ Tail(w)[i] = w[i + 1]
  BY <1>2
<1> QED
  BY <1>3, <1>4 DEF w

\* The run goes on to its next request.
LEMMA Advances ==
  ASSUME TypeInv, NEW r \in Runs, NEW clean \in BOOLEAN, run[r].work # <<>>, Advance(r, clean)
  PROVE  /\ run' \in [Runs -> RunStates] /\ \A m \in Runs \ {r} : run'[m] = run[m]
         /\ run'[r].pc = "next" /\ run'[r].work = Tail(run[r].work)
         /\ run'[r].stage = run[r].stage /\ run'[r].refused = run[r].refused
<1>1. Tail(run[r].work) \in Seq(Legal)
  BY AtHand
<1>2. run \in [Runs -> RunStates]
  BY DEF TypeInv
<1> QED
  BY <1>1, <1>2 DEF Advance, RunStates, Labels

\* The run is elsewhere with the same request.
LEMMA Goes ==
  ASSUME TypeInv, NEW r \in Runs, NEW pc \in Labels, Goto(r, pc)
  PROVE  /\ run' \in [Runs -> RunStates] /\ \A m \in Runs \ {r} : run'[m] = run[m]
         /\ run'[r].pc = pc /\ run'[r].work = run[r].work
         /\ run'[r].stage = run[r].stage /\ run'[r].refused = run[r].refused
         /\ run'[r].answer = run[r].answer
<1>2. run \in [Runs -> RunStates]
  BY DEF TypeInv
<1> QED
  BY <1>2 DEF Goto, RunStates, Labels

\* A step that moves a run keeps the types when its own rows and its own state
\* have theirs.
LEMMA MovesKeep ==
  ASSUME TypeInv, NEW r \in Runs, Moves(r), RowsOK', Holding(r)',
         reservations' \subseteq [run: Runs, number: 1..Rpm], IsFiniteSet(reservations)',
         open' \subseteq Runs,
         status' \in [Runs -> {"none", "running", "completed", "partial", "blocked"}]
  PROVE  TypeInv'
<1>1. \A m \in Runs : Holding(m)'
  <2> SUFFICES ASSUME NEW m \in Runs, m # r PROVE Holding(m)'
    OBVIOUS
  <2>1. Holding(m) /\ run'[m] = run[m] /\ startedAt'[m] = startedAt[m]
    BY DEF TypeInv, Moves
  <2> QED
    BY <2>1 DEF Holding, Current
<1>2. startedAt[r] # None
  BY DEF TypeInv, Holding, Moves, Going
<1>3. \A x \in reservations' : startedAt'[x.run] # None
  BY <1>2 DEF TypeInv, Moves, Grows
<1>4. \A o \in observations' : startedAt'[o.run] # None
  BY <1>2 DEF TypeInv, Moves, Grows
<1>5. /\ clock' \in 0..MaxTime /\ seeds' \subseteq SeedOffers
      /\ startedAt' \in [Runs -> 0..MaxTime \cup {None}]
      /\ before' \in [Runs -> SUBSET Runs] /\ run' \in [Runs -> RunStates]
  BY DEF TypeInv, Moves
<1> QED
  BY <1>1, <1>3, <1>4, <1>5 DEF TypeInv

-----------------------------------------------------------------------------
(***************************************************************************)
(* Plans                                                                   *)
(***************************************************************************)

\* What is due is among the entities and the addresses, and finite.
LEMMA DueAreKnown ==
  ASSUME TypeInv, NEW at
  PROVE  /\ DueEntities(at) \subseteq Entities /\ Cardinality(DueEntities(at)) \in Nat
         /\ DueAddresses(at) \subseteq Addresses /\ Cardinality(DueAddresses(at)) \in Nat
<1>1. \A e \in entityRows : e.item \in Entities
  BY DEF TypeInv, RowsOK, EntityRows
<1>2. \A s \in seeds : s.item \in Entities
  BY ItemsAssumption DEF TypeInv, ItemsAssumption
<1>3. { c.item : c \in EntityClaims(at) } \subseteq Entities
  BY <1>1, <1>2 DEF EntityClaims, FreshDetail
<1>4. DetailKnown \subseteq Entities
  BY <1>1 DEF DetailKnown
<1>5. DueEntities(at) \subseteq Entities
  BY <1>3, <1>4 DEF DueEntities
<1>6. DueAddresses(at) \subseteq Addresses
  BY ItemsAssumption DEF ItemsAssumption, DueAddresses
<1>7. IsFiniteSet(Entities) /\ IsFiniteSet(Addresses)
  BY ItemsAssumption DEF ItemsAssumption
<1> QED
  BY <1>5, <1>6, <1>7, FS_Subset, FS_CardinalityType

\* A plan of entities: what is due, each once, no more than the limit, and
\* nothing left out that has a higher priority than something taken.
LEMMA EntityPlan ==
  ASSUME TypeInv, NEW at, NEW limit \in Nat, NEW plan \in SelectDueEntities(at, limit)
  PROVE  /\ plan \in Seq(Entities) /\ Len(plan) <= limit
         /\ \A i \in 1..Len(plan) : plan[i] \in DueEntities(at)
         /\ \A i, j \in 1..Len(plan) : i # j => plan[i] # plan[j]
         /\ \A x \in DueEntities(at) :
              \/ \E i \in 1..Len(plan) : plan[i] = x
              \/ \A i \in 1..Len(plan) :
                   ~ (EntityPriority(x, at) > EntityPriority(plan[i], at))
<1> DEFINE n == Min({limit, Cardinality(DueEntities(at))})
<1>1. n \in Nat /\ n <= limit
  BY DueAreKnown, Limited, Zenon
<1>2. /\ plan \in [1..n -> DueEntities(at)]
      /\ \A i, j \in 1..n : i < j => plan[i] # plan[j]
      /\ \A x \in DueEntities(at) :
           \/ \E i \in 1..n : plan[i] = x
           \/ \A i \in 1..n : ~ (EntityPriority(x, at) > EntityPriority(plan[i], at))
  BY DEF SelectDueEntities, FirstOf
<1> HIDE DEF n
<1>3. plan \in Seq(Entities) /\ Len(plan) = n
  BY <1>1, <1>2, DueAreKnown
<1>4. \A i, j \in 1..n : i # j => plan[i] # plan[j]
  BY <1>1, <1>2
<1> QED
  BY <1>1, <1>2, <1>3, <1>4

\* A plan of addresses: what is due, each once, no more than the limit.
LEMMA AddressPlan ==
  ASSUME TypeInv, NEW at, NEW limit \in Nat, NEW plan \in SelectDueAddresses(at, limit)
  PROVE  /\ plan \in Seq(Addresses) /\ Len(plan) <= limit
         /\ \A i \in 1..Len(plan) : plan[i] \in DueAddresses(at)
         /\ \A i, j \in 1..Len(plan) : i # j => plan[i] # plan[j]
<1> DEFINE n == Min({limit, Cardinality(DueAddresses(at))})
<1>1. n \in Nat /\ n <= limit
  BY DueAreKnown, Limited, Zenon
<1>2. /\ plan \in [1..n -> DueAddresses(at)]
      /\ \A i, j \in 1..n : i < j => plan[i] # plan[j]
  BY DEF SelectDueAddresses, FirstOf
<1> HIDE DEF n
<1>3. plan \in Seq(Addresses) /\ Len(plan) = n
  BY <1>1, <1>2, DueAreKnown
<1>4. \A i, j \in 1..n : i # j => plan[i] # plan[j]
  BY <1>1, <1>2
<1> QED
  BY <1>1, <1>2, <1>3, <1>4

\* The requests for a plan of entities.
LEMMA EntityRequests ==
  ASSUME NEW plan \in Seq(Entities)
  PROVE  /\ RequestsFor(plan) \in Seq(Legal)
         /\ Len(RequestsFor(plan)) = 2 * Len(plan)
         /\ \A i \in 1..(2 * Len(plan)) :
              /\ (i + 1) \div 2 \in 1..Len(plan)
              /\ RequestsFor(plan)[i].kind = IF i % 2 = 1 THEN "detail" ELSE "predictions"
              /\ RequestsFor(plan)[i].item = plan[(i + 1) \div 2]
<1> DEFINE w == RequestsFor(plan)
           n == 2 * Len(plan)
<1>1. Len(plan) \in Nat /\ n \in Nat
  OBVIOUS
<1>2. ASSUME NEW i \in 1..n
      PROVE  /\ (i + 1) \div 2 \in 1..Len(plan)
             /\ w[i] = [kind |-> IF i % 2 = 1 THEN "detail" ELSE "predictions",
                        item |-> plan[(i + 1) \div 2]]
  BY <1>1, Halves DEF RequestsFor
<1>3. ASSUME NEW i \in 1..n PROVE w[i] \in Legal
  <2>1. plan[(i + 1) \div 2] \in Entities
    BY <1>2
  <2>2. \A x \in Entities, k \in {"detail", "predictions"} : [kind |-> k, item |-> x] \in Legal
    BY DEF Legal
  <2>3. PICK k \in {"detail", "predictions"} : w[i] = [kind |-> k, item |-> plan[(i + 1) \div 2]]
    BY <1>2
  <2> QED
    BY <2>1, <2>2, <2>3, Zenon
<1>4. w = [i \in 1..n |-> w[i]]
  BY DEF RequestsFor
<1> HIDE DEF w
<1>5. w \in Seq(Legal) /\ Len(w) = n
  BY <1>1, <1>3, <1>4
<1> QED
  BY <1>2, <1>5 DEF w

-----------------------------------------------------------------------------
(***************************************************************************)
(* Every step keeps the types and moves one run                            *)
(***************************************************************************)

\* A request for an address names one, and so does a request for an entity.
LEMMA LegalItems ==
  ASSUME NEW q \in Legal
  PROVE  /\ q.kind = "address" => q.item \in Addresses
         /\ q.kind \in {"detail", "predictions"} => q.item \in Entities
BY DEF Legal

\* The window of a run holds what it has reserved itself.
LEMMA OwnWindow ==
  ASSUME TypeInv, NEW r \in Runs, startedAt[r] # None
  PROVE  /\ startedAt[r] \in 0..MaxTime /\ startedAt[r] \in Int
         /\ ReservedBy(r) \subseteq InWindow(r)
         /\ IsFiniteSet(InWindow(r)) /\ IsFiniteSet(ReservedBy(r))
         /\ WindowUse(r) \in Nat /\ Cardinality(ReservedBy(r)) \in Nat
         /\ Cardinality(ReservedBy(r)) <= WindowUse(r)
<1>1. startedAt[r] \in 0..MaxTime /\ startedAt[r] \in Int
  BY DEF TypeInv
<1>2. ReservedBy(r) \subseteq InWindow(r)
  BY <1>1 DEF ReservedBy, InWindow
<1>3. InWindow(r) \subseteq reservations /\ IsFiniteSet(reservations)
  BY DEF TypeInv, InWindow
<1>4. IsFiniteSet(InWindow(r)) /\ IsFiniteSet(ReservedBy(r))
      /\ Cardinality(ReservedBy(r)) <= Cardinality(InWindow(r))
  BY <1>2, <1>3, FS_Subset
<1> QED
  BY <1>1, <1>2, <1>4, FS_CardinalityType DEF WindowUse

\* A run that starts keeps the types.
LEMMA StartKeeps == ASSUME TypeInv, NEW r \in Runs, Start(r) PROVE TypeInv'
<1>1. TwoRankings \in Seq(Legal)
  <2>1. [kind |-> "discovery", item |-> 1] \in Legal /\ [kind |-> "discovery", item |-> 2] \in Legal
    BY DEF Legal
  <2> QED
    BY <2>1 DEF TwoRankings
<1> DEFINE s == [NoRun EXCEPT !.pc = "next", !.stage = "discovery", !.work = TwoRankings]
<1>2. /\ s \in RunStates /\ s.pc = "next" /\ s.stage = "discovery"
      /\ ~ s.refused
  BY <1>1, NoRunState DEF NoRun, RunStates, Labels
<1>3. run' = [run EXCEPT ![r] = s] /\ startedAt' = [startedAt EXCEPT ![r] = clock]
      /\ startedAt[r] = None
  BY DEF Start
<1> HIDE DEF s
<1>4. run' \in [Runs -> RunStates] /\ run'[r] = s /\ \A m \in Runs \ {r} : run'[m] = run[m]
  BY <1>2, <1>3 DEF TypeInv
<1>5. /\ startedAt' \in [Runs -> 0..MaxTime \cup {None}]
      /\ startedAt'[r] = clock /\ clock # None
      /\ \A m \in Runs \ {r} : startedAt'[m] = startedAt[m]
  BY <1>3, NoneAssumption, LimitsAssumption DEF TypeInv, NoneAssumption, LimitsAssumption
<1>6. Holding(r)'
  BY <1>2, <1>4, <1>5 DEF Holding
<1>7. ASSUME NEW m \in Runs, m # r PROVE Holding(m)'
  <2>1. Holding(m)
    BY DEF TypeInv
  <2> QED
    BY <1>4, <1>5, <1>7, <2>1 DEF Holding, Current
<1>8. /\ \A x \in reservations' : startedAt'[x.run] # None
      /\ \A o \in observations' : startedAt'[o.run] # None
  BY <1>5 DEF TypeInv, Start, rows, RowsOK
<1>9. RowsOK'
  BY DEF TypeInv, RowsOK, Start, rows
<1>10. before' \in [Runs -> SUBSET Runs]
  BY DEF TypeInv, Start
<1> QED
  BY <1>4, <1>5, <1>6, <1>7, <1>8, <1>9, <1>10 DEF TypeInv, Start

\* Reserving a request: the number fits, for a run's own rows are in its window.
LEMMA ReserveMoves == ASSUME TypeInv, NEW r \in Runs, Reserve(r) PROVE Moves(r) /\ TypeInv'
<1>1. /\ run[r].pc = "next" /\ run[r].work # <<>> /\ Holding(r) /\ startedAt[r] # None
      /\ WindowUse(r) < Rpm
  BY DEF TypeInv, Holding, Reserve, Asking
<1>2. /\ run' \in [Runs -> RunStates] /\ \A m \in Runs \ {r} : run'[m] = run[m]
      /\ run'[r].pc = "ask" /\ run'[r].work = run[r].work /\ run'[r].stage = run[r].stage
  BY Goes DEF Reserve, Labels
<1>3. PICK x : /\ reservations' = reservations \cup {x} /\ x \in [run: Runs, number: 1..Rpm]
               /\ x.run = r
  <2>1. Cardinality(ReservedBy(r)) + 1 \in 1..Rpm
    BY <1>1, OwnWindow, LimitsAssumption DEF LimitsAssumption
  <2> DEFINE x == [run |-> r, number |-> Cardinality(ReservedBy(r)) + 1]
  <2>2. reservations' = reservations \cup {x}
    BY DEF Reserve
  <2>3. x \in [run: Runs, number: 1..Rpm] /\ x.run = r
    BY <2>1
  <2> QED
    BY <2>2, <2>3, Zenon
<1>4. IsFiniteSet(reservations)'
  <2>1. IsFiniteSet(reservations)
    BY DEF TypeInv
  <2> QED
    BY <1>3, <2>1, FS_AddElement
<1>5. RowsOK' /\ open' \subseteq Runs
      /\ status' \in [Runs -> {"none", "running", "completed", "partial", "blocked"}]
      /\ reservations' \subseteq [run: Runs, number: 1..Rpm]
  BY <1>3 DEF TypeInv, RowsOK, Reserve, rows
<1>6. Moves(r)
  BY <1>1, <1>2, <1>3 DEF Moves, Going, Grows, Reserve, rows
<1>7. Holding(r)'
  BY <1>1, <1>2 DEF Holding, Reserve
<1> QED
  BY <1>4, <1>5, <1>6, <1>7, MovesKeep

\* A step that leaves tables and ledger alone and moves to another request.
LEMMA PassesOn ==
  ASSUME TypeInv, NEW r \in Runs, Going(r), run[r].work # <<>>,
         NEW s \in RunStates, run' = [run EXCEPT ![r] = s],
         s.pc = "next", s.stage = run[r].stage, s.work = Tail(run[r].work),
         UNCHANGED <<clock, seeds, ledger, rows, before>>
  PROVE  Moves(r) /\ TypeInv'
<1>1. run' \in [Runs -> RunStates] /\ run'[r] = s /\ \A m \in Runs \ {r} : run'[m] = run[m]
  BY DEF TypeInv
<1>2. Moves(r)
  BY <1>1 DEF Moves, Grows, rows, ledger
<1>3. RowsOK'
  BY DEF TypeInv, RowsOK, rows
<1>4. Holding(r)'
  BY <1>1 DEF TypeInv, Holding, Going, ledger
<1> QED
  BY <1>2, <1>3, <1>4, MovesKeep DEF TypeInv, ledger

\* A refused request: the run goes on to its next one.
LEMMA RefusalsMove ==
  ASSUME TypeInv, NEW r \in Runs, RateLimited(r) \/ BudgetExhausted(r)
  PROVE  Moves(r) /\ TypeInv'
<1>1. Going(r) /\ run[r].work # <<>> /\ run[r] \in RunStates
  BY DEF TypeInv, Going, RateLimited, BudgetExhausted, Asking
<1>2. Tail(run[r].work) \in Seq(Legal)
  BY <1>1, AtHand
<1>3. CASE RateLimited(r)
  <2> DEFINE s == [run[r] EXCEPT !.work = Tail(@), !.clean = FALSE, !.refused = TRUE]
  <2>1. /\ s \in RunStates /\ s.pc = "next" /\ s.stage = run[r].stage
        /\ s.work = Tail(run[r].work)
    BY <1>1, <1>2, <1>3 DEF RunStates, RateLimited, Asking
  <2>2. run' = [run EXCEPT ![r] = s]
    BY <1>3 DEF RateLimited, TypeInv
  <2> HIDE DEF s
  <2> QED
    BY <1>1, <1>3, <2>1, <2>2, PassesOn DEF RateLimited
<1>4. CASE BudgetExhausted(r)
  <2> DEFINE s == [run[r] EXCEPT !.pc = "next", !.work = Tail(@), !.answer = None,
                                 !.clean = @ /\ FALSE]
  <2>1. /\ s \in RunStates /\ s.pc = "next" /\ s.stage = run[r].stage
        /\ s.work = Tail(run[r].work)
    BY <1>1, <1>2 DEF RunStates, Labels
  <2>2. run' = [run EXCEPT ![r] = s]
    BY <1>4 DEF BudgetExhausted, Advance, TypeInv
  <2> HIDE DEF s
  <2> QED
    BY <1>1, <1>4, <2>1, <2>2, PassesOn DEF BudgetExhausted
<1> QED
  BY <1>3, <1>4

\* Recording the answer of the provider.
LEMMA AnswerMoves ==
  ASSUME TypeInv, NEW r \in Runs, NEW answer \in Answers, Answer(r, answer)
  PROVE  Moves(r) /\ TypeInv'
<1>1. /\ run[r].pc = "ask" /\ run[r].work # <<>> /\ Holding(r) /\ run[r] \in RunStates
  BY DEF TypeInv, Holding, Answer
<1>2. Current(r) \in Legal
  BY <1>1, AtHand
<1>3. /\ run' \in [Runs -> RunStates] /\ \A m \in Runs \ {r} : run'[m] = run[m]
      /\ run'[r].pc = "close" /\ run'[r].work = run[r].work /\ run'[r].stage = run[r].stage
      /\ run'[r].answer = answer
  <2>1. run \in [Runs -> RunStates]
    BY DEF TypeInv
  <2>2. run' = [run EXCEPT ![r].pc = "close", ![r].answer = answer]
    BY DEF Answer
  <2> QED
    BY <2>1, <2>2 DEF RunStates, Labels
<1>4. PICK x \in [run: Runs, request: Legal, answer: Answers] :
        observations' = observations \cup {x} /\ x.run = r
  <2> DEFINE x == [run |-> r, request |-> Current(r), answer |-> answer]
  <2>1. x \in [run: Runs, request: Legal, answer: Answers] /\ x.run = r
    BY <1>2
  <2>2. observations' = observations \cup {x}
    BY DEF Answer
  <2> QED
    BY <2>1, <2>2, Zenon
<1>5. IsFiniteSet(observations)'
  <2>1. IsFiniteSet(observations)
    BY DEF TypeInv, RowsOK
  <2> QED
    BY <1>4, <2>1, FS_AddElement
<1>6. RowsOK'
  BY <1>4, <1>5 DEF TypeInv, RowsOK, Answer
<1>7. Moves(r)
  BY <1>1, <1>3, <1>4 DEF Moves, Going, Grows, Answer, ledger
<1>8. Holding(r)'
  BY <1>1, <1>3 DEF Holding, Answer, ledger
<1> QED
  BY <1>6, <1>7, <1>8, MovesKeep DEF TypeInv, Answer, ledger

\* A missing token: nothing is left to ask.
LEMMA TokenMissingMoves ==
  ASSUME TypeInv, NEW r \in Runs, TokenMissing(r) PROVE Moves(r) /\ TypeInv'
<1>1. run[r].pc = "ask" /\ Holding(r) /\ run[r] \in RunStates
  BY DEF TypeInv, TokenMissing
<1>2. <<>> \in Seq(Legal)
  OBVIOUS
<1>3. /\ run' \in [Runs -> RunStates] /\ \A m \in Runs \ {r} : run'[m] = run[m]
      /\ run'[r].pc = "next" /\ run'[r].work = <<>> /\ run'[r].stage = "blocked"
  <2>1. run \in [Runs -> RunStates]
    BY DEF TypeInv
  <2> DEFINE s == [run[r] EXCEPT !.pc = "next", !.stage = "blocked", !.work = <<>>]
  <2>2. run' = [run EXCEPT ![r] = s]
    BY <2>1 DEF TokenMissing
  <2>3. s \in RunStates /\ s.pc = "next" /\ s.work = <<>> /\ s.stage = "blocked"
    BY <1>1, <1>2 DEF RunStates, Labels
  <2> HIDE DEF s
  <2> QED
    BY <2>1, <2>2, <2>3
<1>4. RowsOK'
  BY DEF TypeInv, RowsOK, TokenMissing, rows
<1>5. Moves(r)
  BY <1>1, <1>3 DEF Moves, Going, Grows, TokenMissing, rows
<1>6. Holding(r)'
  BY <1>1, <1>3 DEF Holding, TokenMissing
<1> QED
  BY <1>4, <1>5, <1>6, MovesKeep DEF TypeInv, TokenMissing

\* Completing the reservation, and where the run goes from there.
LEMMA CloseMoves ==
  ASSUME TypeInv, NEW r \in Runs, CompleteReservation(r) PROVE Moves(r) /\ TypeInv'
<1> DEFINE then == AfterDispatch(Current(r).kind, run[r].answer)
           clean == run[r].answer.outcome = "success"
<1>1. /\ run[r].pc = "close" /\ run[r].work # <<>> /\ Holding(r) /\ run[r] \in RunStates
  BY DEF TypeInv, Holding, CompleteReservation
<1>2. /\ run' \in [Runs -> RunStates] /\ \A m \in Runs \ {r} : run'[m] = run[m]
      /\ run'[r].stage = run[r].stage
      /\ \/ run'[r].pc = "next" /\ run'[r].work = Tail(run[r].work)
         \/ /\ run'[r].pc = then /\ run'[r].work = run[r].work
            /\ run'[r].answer = run[r].answer
            /\ then \in {"attempt", "parse"}
            /\ then = "attempt" => Current(r).kind = "predictions"
  <2>1. CASE then = "next"
    <3>1. Advance(r, clean) /\ clean \in BOOLEAN
      BY <2>1 DEF CompleteReservation
    <3> QED
      BY <1>1, <3>1, Advances
  <2>2. CASE then # "next"
    <3>1. run' = [run EXCEPT ![r].pc = then, ![r].clean = @ /\ clean]
      BY <2>2 DEF CompleteReservation
    <3>2. then \in {"attempt", "parse"} /\ (then = "attempt" => Current(r).kind = "predictions")
      BY <2>2 DEF AfterDispatch
    <3>3. run \in [Runs -> RunStates] /\ clean \in BOOLEAN
      BY DEF TypeInv
    <3> HIDE DEF then, clean
    <3> QED
      BY <3>1, <3>2, <3>3 DEF RunStates, Labels
  <2> QED
    BY <2>1, <2>2
<1> HIDE DEF then, clean
<1>3. RowsOK'
  BY DEF TypeInv, RowsOK, CompleteReservation, rows
<1>4. Moves(r)
  BY <1>1, <1>2 DEF Moves, Going, Grows, CompleteReservation, rows
<1>5. Holding(r)'
  BY <1>1, <1>2 DEF Holding, CompleteReservation, Current
<1> QED
  BY <1>3, <1>4, <1>5, MovesKeep DEF TypeInv, CompleteReservation

\* A step that writes and then stays with its request or leaves it.
LEMMA WritesMove ==
  ASSUME TypeInv, NEW r \in Runs, run[r].pc \in {"attempt", "parse", "write"}, RowsOK',
         \/ \E clean \in BOOLEAN : Advance(r, clean)
         \/ Goto(r, "parse")
         \/ Goto(r, "write") /\ Current(r).kind \in {"predictions", "address"},
         UNCHANGED <<clock, seeds, ledger, observations, before>>,
         Grows(entityRows, entityRows', r), Grows(attempts, attempts', r),
         Grows(entityParses, entityParses', r), Grows(addressParses, addressParses', r),
         Grows(members, members', r), Grows(evidence, evidence', r)
  PROVE  Moves(r) /\ TypeInv'
<1>1. run[r].work # <<>> /\ Holding(r) /\ Going(r)
  BY DEF TypeInv, Holding, Going
<1>2. /\ run' \in [Runs -> RunStates] /\ \A m \in Runs \ {r} : run'[m] = run[m]
      /\ run'[r].stage = run[r].stage
      /\ \/ run'[r].pc = "next" /\ run'[r].work = Tail(run[r].work)
         \/ /\ run'[r].pc = "parse" \/ (run'[r].pc = "write" /\ Current(r).kind \in {"predictions", "address"})
            /\ run'[r].work = run[r].work /\ run'[r].answer = run[r].answer
  <2>1. CASE \E clean \in BOOLEAN : Advance(r, clean)
    BY <1>1, <2>1, Advances
  <2>2. CASE Goto(r, "parse")
    BY <2>2, Goes DEF Labels
  <2>3. CASE Goto(r, "write") /\ Current(r).kind \in {"predictions", "address"}
    BY <2>3, Goes DEF Labels
  <2> QED
    BY <2>1, <2>2, <2>3
<1>3. Moves(r)
  BY <1>1, <1>2 DEF Moves, Grows, ledger
<1>4. Holding(r)'
  BY <1>1, <1>2 DEF Holding, Current, ledger
<1> QED
  BY <1>3, <1>4, MovesKeep DEF TypeInv, ledger

\* Writing attempts, parse results, memberships and evidence.
LEMMA RecordingsMove ==
  ASSUME TypeInv, NEW r \in Runs,
         \/ RecordPredictionAttempt(r) \/ ParseDiscovery(r) \/ ParseDetail(r)
         \/ ParsePredictions(r) \/ ParseAddress(r) \/ RecordPredictions(r) \/ AppendEvidence(r)
  PROVE  Moves(r) /\ TypeInv'
<1>1. /\ run[r].pc \in {"attempt", "parse", "write"} /\ run[r].work # <<>> /\ Holding(r)
      /\ startedAt[r] # None /\ run[r].answer \in Answers
  BY DEF TypeInv, Holding, RecordPredictionAttempt, ParseDiscovery, ParseDetail,
         ParsePredictions, ParseAddress, RecordPredictions, AppendEvidence, Parsing
<1>2. Current(r) \in Legal
  BY <1>1, AtHand
<1>3. /\ Current(r).kind = "address" => Current(r).item \in Addresses
      /\ Current(r).kind \in {"detail", "predictions"} => Current(r).item \in Entities
  BY <1>2, LegalItems
<1>4. CASE RecordPredictionAttempt(r)
  <2> DEFINE x == [run |-> r, item |-> Current(r).item, outcome |-> run[r].answer.outcome]
  <2>1. run[r].answer.outcome \in {"failed", "success"}
    BY <1>1 DEF Answers, Failures
  <2>2. x \in [run: Runs, item: Entities, outcome: {"failed", "success"}] /\ x.run = r
    BY <1>1, <1>3, <1>4, <2>1 DEF Holding, RecordPredictionAttempt
  <2>3. attempts' = attempts \cup {x}
    BY <1>4 DEF RecordPredictionAttempt
  <2> HIDE DEF x
  <2>4. RowsOK' /\ Grows(attempts, attempts', r)
    BY <1>4, <2>2, <2>3 DEF TypeInv, RowsOK, Grows, RecordPredictionAttempt
  <2> QED
    BY <1>1, <1>4, <2>4, WritesMove DEF RecordPredictionAttempt, Grows
<1>5. CASE ParseDiscovery(r)
  <2> DEFINE ranking == RankingAt[startedAt[r]]
             more == { [run |-> r, item |-> ranking[i], rank |-> i,
                        method |-> "balance_changes"] : i \in DOMAIN ranking }
  <2>1. ranking \in Seq(Entities)
    BY <1>1, ItemsAssumption DEF TypeInv, ItemsAssumption
  <2>2. \A i \in DOMAIN ranking : ranking[i] \in Entities /\ i \in Nat \ {0}
    <3> HIDE DEF ranking
    <3> QED
      BY <2>1
  <2>3. more \subseteq EntityRows /\ \A x \in more : x.run = r
    BY <2>2 DEF EntityRows
  <2>4. entityRows' = entityRows \/ entityRows' = entityRows \cup more
    BY <1>5 DEF ParseDiscovery
  <2> HIDE DEF more
  <2>5. RowsOK' /\ Grows(entityRows, entityRows', r)
    BY <1>5, <2>3, <2>4 DEF TypeInv, RowsOK, Grows, ParseDiscovery
  <2> DEFINE clean == WellFormed(r)
  <2>6. clean \in BOOLEAN
    BY DEF WellFormed
  <2>7. Advance(r, clean)
    BY <1>5 DEF ParseDiscovery
  <2> HIDE DEF clean
  <2>8. \E c \in BOOLEAN : Advance(r, c)
    BY <2>6, <2>7, Zenon
  <2> QED
    BY <1>1, <1>5, <2>5, <2>8, WritesMove DEF ParseDiscovery, Grows
<1>6. CASE ParseDetail(r)
  <2> DEFINE x == [run |-> r, item |-> Current(r).item, rank |-> None,
                   method |-> "entity_detail"]
  <2>1. x \in EntityRows /\ x.run = r
    BY <1>3, <1>6 DEF EntityRows, ParseDetail, Parsing
  <2>2. entityRows' = entityRows \/ entityRows' = entityRows \cup {x}
    BY <1>6 DEF ParseDetail
  <2> HIDE DEF x
  <2>3. RowsOK' /\ Grows(entityRows, entityRows', r)
    BY <1>6, <2>1, <2>2 DEF TypeInv, RowsOK, Grows, ParseDetail
  <2> DEFINE clean == WellFormed(r)
  <2>6. clean \in BOOLEAN
    BY DEF WellFormed
  <2>7. Advance(r, clean)
    BY <1>6 DEF ParseDetail
  <2> HIDE DEF clean
  <2>8. \E c \in BOOLEAN : Advance(r, c)
    BY <2>6, <2>7, Zenon
  <2> QED
    BY <1>1, <1>6, <2>3, <2>8, WritesMove DEF ParseDetail, Grows
<1>7. CASE ParsePredictions(r)
  <2> DEFINE x == [run |-> r, item |-> Current(r).item, outcome |-> PredictionOutcome(r)]
  <2>1. PredictionOutcome(r) \in Terminal \cup {"malformed_payload"}
    BY DEF PredictionOutcome, Terminal
  <2>2. /\ x \in [run: Runs, item: Entities, outcome: Terminal \cup {"malformed_payload"}]
        /\ x.run = r
    BY <1>3, <1>7, <2>1 DEF ParsePredictions, Parsing
  <2>3. entityParses' = entityParses \cup {x}
    BY <1>7 DEF ParsePredictions
  <2> HIDE DEF x
  <2>4. RowsOK' /\ Grows(entityParses, entityParses', r)
    BY <1>7, <2>2, <2>3 DEF TypeInv, RowsOK, Grows, ParsePredictions
  <2> QED
    BY <1>1, <1>7, <2>4, WritesMove DEF ParsePredictions, Grows, Parsing
<1>8. CASE ParseAddress(r)
  <2> DEFINE x == [run |-> r, item |-> Current(r).item,
                   outcome |-> IF WellFormed(r) THEN "parsed_success" ELSE "malformed_payload"]
  <2>1. /\ x \in [run: Runs, item: Addresses, outcome: {"parsed_success", "malformed_payload"}]
        /\ x.run = r
    BY <1>3, <1>8 DEF ParseAddress, Parsing
  <2>2. addressParses' = addressParses \cup {x}
    BY <1>8 DEF ParseAddress
  <2> HIDE DEF x
  <2>3. RowsOK' /\ Grows(addressParses, addressParses', r)
    BY <1>8, <2>1, <2>2 DEF TypeInv, RowsOK, Grows, ParseAddress
  <2> QED
    BY <1>1, <1>8, <2>3, WritesMove DEF ParseAddress, Grows, Parsing
<1>9. CASE RecordPredictions(r)
  <2>1. members' = members \/ members' = members \cup Filed(r)
    BY <1>9 DEF RecordPredictions
  <2>2. Filed(r) \subseteq [run: Runs, item: Entities] /\ \A x \in Filed(r) : x.run = r
    BY <1>3, <1>9 DEF RecordPredictions, Filed
  <2>3. RowsOK' /\ Grows(members, members', r)
    BY <1>9, <2>1, <2>2 DEF TypeInv, RowsOK, Grows, RecordPredictions
  <2> QED
    BY <1>1, <1>9, <2>3, WritesMove DEF RecordPredictions, Grows
<1>10. CASE AppendEvidence(r)
  <2>1. evidence' = evidence \cup Filed(r)
    BY <1>10 DEF AppendEvidence
  <2>2. Filed(r) \subseteq [run: Runs, item: Addresses] /\ \A x \in Filed(r) : x.run = r
    BY <1>3, <1>10 DEF AppendEvidence, Filed
  <2>3. RowsOK' /\ Grows(evidence, evidence', r)
    BY <1>10, <2>1, <2>2 DEF TypeInv, RowsOK, Grows, AppendEvidence
  <2> QED
    BY <1>1, <1>10, <2>3, WritesMove DEF AppendEvidence, Grows
<1> QED
  BY <1>4, <1>5, <1>6, <1>7, <1>8, <1>9, <1>10

\* A step of a run that touches its own memory only.
LEMMA ReplansMove ==
  ASSUME TypeInv, NEW r \in Runs, Going(r), NEW s \in RunStates, run' = [run EXCEPT ![r] = s],
         s.pc = "next", s.stage # "blocked",
         UNCHANGED <<clock, seeds, ledger, rows, before>>
  PROVE  Moves(r) /\ TypeInv'
<1>1. run' \in [Runs -> RunStates] /\ run'[r] = s /\ \A m \in Runs \ {r} : run'[m] = run[m]
  BY DEF TypeInv
<1>2. Moves(r)
  BY <1>1 DEF Moves, Grows, rows, ledger
<1>3. RowsOK'
  BY DEF TypeInv, RowsOK, rows
<1>4. Holding(r)'
  BY <1>1 DEF TypeInv, Holding, Going, ledger
<1> QED
  BY <1>2, <1>3, <1>4, MovesKeep DEF TypeInv, ledger

\* What the entities' plan is limited to.
LEMMA EntityLimits == /\ Min({EntityLimit, EntityCapacity}) \in Nat
                      /\ Min({EntityLimit, EntityCapacity}) <= EntityCapacity
<1>1. EntityLimit \in Nat
  BY LimitsAssumption DEF LimitsAssumption
<1> QED
  BY <1>1, CapacityFits, Limited, Zenon

\* The requests a run has made are a number.
LEMMA ConsumedType == ASSUME TypeInv, NEW r PROVE Consumed(r) \in Nat
<1>1. { o \in observations : o.run = r } \subseteq observations /\ IsFiniteSet(observations)
  BY DEF TypeInv, RowsOK
<1> QED
  BY <1>1, FS_Subset, FS_CardinalityType DEF Consumed

\* And the addresses'.
LEMMA AddressLimits ==
  ASSUME TypeInv, NEW r
  PROVE  /\ Min({AddressLimit, RemainingCapacity(Consumed(r))}) \in Nat
         /\ Consumed(r) <= Rpm => 
              Min({AddressLimit, RemainingCapacity(Consumed(r))}) <= Rpm - Consumed(r)
         /\ ~ Consumed(r) <= Rpm =>
              Min({AddressLimit, RemainingCapacity(Consumed(r))}) = 0
<1>1. AddressLimit \in Nat /\ Rpm \in Nat /\ Consumed(r) \in Nat
  BY ConsumedType, LimitsAssumption DEF LimitsAssumption
<1> DEFINE x == Rpm - Consumed(r)
<1>2. x \in Int /\ RemainingCapacity(Consumed(r)) = Max({0, x})
  BY <1>1 DEF RemainingCapacity
<1> HIDE DEF x
<1>3. /\ RemainingCapacity(Consumed(r)) \in Nat
      /\ x >= 0 => RemainingCapacity(Consumed(r)) = x
      /\ x < 0 => RemainingCapacity(Consumed(r)) = 0
  BY <1>2, NotNegative, Zenon
<1>4. /\ Min({AddressLimit, RemainingCapacity(Consumed(r))}) \in Nat
      /\ Min({AddressLimit, RemainingCapacity(Consumed(r))}) <= RemainingCapacity(Consumed(r))
  BY <1>1, <1>3, Limited, Zenon
<1>5. /\ Consumed(r) <= Rpm => x >= 0
      /\ ~ Consumed(r) <= Rpm => x < 0
  BY <1>1 DEF x
<1> QED
  BY <1>3, <1>4, <1>5 DEF x

\* What a plan of entities puts before the run.
LEMMA PlansEntities ==
  ASSUME TypeInv, NEW r \in Runs, PlanEntities(r)
  PROVE  \E plan \in SelectDueEntities(startedAt[r], Min({EntityLimit, EntityCapacity})) :
           /\ [run[r] EXCEPT !.stage = "entities", !.work = RequestsFor(plan)] \in RunStates
           /\ run' = [run EXCEPT ![r] = [run[r] EXCEPT !.stage = "entities",
                                                       !.work = RequestsFor(plan)]]
           /\ plan \in Seq(Entities)
<1>1. run \in [Runs -> RunStates] /\ run[r] \in RunStates
  BY DEF TypeInv
<1>2. PICK plan \in SelectDueEntities(startedAt[r], Min({EntityLimit, EntityCapacity})) :
        run' = [run EXCEPT ![r].stage = "entities", ![r].work = RequestsFor(plan)]
  BY DEF PlanEntities
<1>3. plan \in Seq(Entities)
  BY <1>2, EntityPlan, EntityLimits
<1>4. RequestsFor(plan) \in Seq(Legal)
  BY <1>3, EntityRequests
<1>5. [run[r] EXCEPT !.stage = "entities", !.work = RequestsFor(plan)] \in RunStates
  BY <1>1, <1>4 DEF RunStates
<1>6. run' = [run EXCEPT ![r] = [run[r] EXCEPT !.stage = "entities", !.work = RequestsFor(plan)]]
  BY <1>1, <1>2
<1> QED
  BY <1>3, <1>5, <1>6

AddressRequests(plan) == [i \in DOMAIN plan |-> [kind |-> "address", item |-> plan[i]]]

\* What a plan of addresses puts before the run.
LEMMA PlansAddresses ==
  ASSUME TypeInv, NEW r \in Runs, PlanAddresses(r)
  PROVE  \E plan \in SelectDueAddresses(startedAt[r], Min({AddressLimit, RemainingCapacity(Consumed(r))})) :
           /\ [run[r] EXCEPT !.stage = "addresses", !.work = AddressRequests(plan)] \in RunStates
           /\ run' = [run EXCEPT ![r] = [run[r] EXCEPT !.stage = "addresses",
                                                       !.work = AddressRequests(plan)]]
           /\ plan \in Seq(Addresses)
           /\ Len(AddressRequests(plan)) = Len(plan)
<1>1. run \in [Runs -> RunStates] /\ run[r] \in RunStates
  BY DEF TypeInv
<1>2. PICK plan \in SelectDueAddresses(startedAt[r], Min({AddressLimit, RemainingCapacity(Consumed(r))})) :
        run' = [run EXCEPT ![r].stage = "addresses", ![r].work = AddressRequests(plan)]
  BY DEF PlanAddresses, AddressRequests
<1>3. plan \in Seq(Addresses)
  BY <1>2, AddressPlan, AddressLimits
<1>4. AddressRequests(plan) \in Seq(Legal) /\ Len(AddressRequests(plan)) = Len(plan)
  <2>1. \A x \in Addresses : [kind |-> "address", item |-> x] \in Legal
    BY DEF Legal
  <2>2. DOMAIN plan = 1..Len(plan) /\ Len(plan) \in Nat /\ \A i \in 1..Len(plan) : plan[i] \in Addresses
    BY <1>3
  <2>3. AddressRequests(plan) \in [1..Len(plan) -> Legal]
    BY <2>1, <2>2 DEF AddressRequests
  <2> QED
    BY <2>2, <2>3
<1>5. [run[r] EXCEPT !.stage = "addresses", !.work = AddressRequests(plan)] \in RunStates
  BY <1>1, <1>4 DEF RunStates
<1>6. run' = [run EXCEPT ![r] = [run[r] EXCEPT !.stage = "addresses", !.work = AddressRequests(plan)]]
  BY <1>1, <1>2
<1> QED
  BY <1>3, <1>4, <1>5, <1>6

\* Planning entities or addresses.
LEMMA PlansMove ==
  ASSUME TypeInv, NEW r \in Runs, PlanEntities(r) \/ PlanAddresses(r)
  PROVE  Moves(r) /\ TypeInv'
<1>1. Going(r) /\ run[r].pc = "next"
  BY DEF PlanEntities, PlanAddresses, LoopDone, Going
<1>2. run[r] \in RunStates
  BY DEF TypeInv
<1>3. PICK s \in RunStates : run' = [run EXCEPT ![r] = s] /\ s.pc = "next" /\ s.stage # "blocked"
  <2>1. CASE PlanEntities(r)
    <3>1. PICK w : /\ [run[r] EXCEPT !.stage = "entities", !.work = w] \in RunStates
                   /\ run' = [run EXCEPT ![r] = [run[r] EXCEPT !.stage = "entities", !.work = w]]
      BY <2>1, PlansEntities
    <3> QED
      BY <1>1, <1>2, <3>1 DEF RunStates
  <2>2. CASE PlanAddresses(r)
    <3>1. PICK w : /\ [run[r] EXCEPT !.stage = "addresses", !.work = w] \in RunStates
                   /\ run' = [run EXCEPT ![r] = [run[r] EXCEPT !.stage = "addresses", !.work = w]]
      BY <2>2, PlansAddresses
    <3> QED
      BY <1>1, <1>2, <3>1 DEF RunStates
  <2> QED
    BY <2>1, <2>2
<1>4. UNCHANGED <<clock, seeds, ledger, rows, before>>
  BY DEF PlanEntities, PlanAddresses
<1> QED
  BY <1>1, <1>3, <1>4, ReplansMove

\* The end of a run, by itself or not.
LEMMA EndsMove ==
  ASSUME TypeInv, NEW r \in Runs, CompleteRun(r) \/ Die(r) PROVE Moves(r) /\ TypeInv'
<1>1. Going(r) /\ run \in [Runs -> RunStates] /\ Holding(r) /\ NoRun \in RunStates
  BY NoRunState DEF TypeInv, CompleteRun, Die, LoopDone, Going
<1>2. PICK s \in RunStates : /\ run' = [run EXCEPT ![r] = s] /\ s.pc \in {"over", "dead"}
                             /\ s.stage = "none" /\ ~ s.refused
  <2>1. CASE CompleteRun(r)
    <3> DEFINE s == [NoRun EXCEPT !.pc = "over"]
    <3>1. run' = [run EXCEPT ![r] = s]
      BY <2>1 DEF CompleteRun
    <3>2. s \in RunStates /\ s.pc = "over" /\ s.stage = "none" /\ ~ s.refused
      BY <1>1 DEF NoRun, RunStates, Labels
    <3> QED
      BY <3>1, <3>2
  <2>2. CASE Die(r)
    <3> DEFINE w == IF run[r].pc = "write" THEN <<Current(r)>> ELSE <<>>
               s == [NoRun EXCEPT !.pc = "dead", !.work = w]
    <3>1. run' = [run EXCEPT ![r] = s]
      BY <2>2 DEF Die
    <3>2. w \in Seq(Legal)
      <4>1. CASE run[r].pc = "write"
        BY <1>1, <4>1, AtHand DEF Holding
      <4>2. CASE run[r].pc # "write"
        BY <4>2
      <4> QED
        BY <4>1, <4>2
    <3> HIDE DEF w
    <3>3. s \in RunStates /\ s.pc = "dead" /\ s.stage = "none" /\ ~ s.refused
      BY <1>1, <3>2 DEF NoRun, RunStates, Labels
    <3> QED
      BY <3>1, <3>3
  <2> QED
    BY <2>1, <2>2
<1>3. run' \in [Runs -> RunStates] /\ run'[r] = s /\ \A m \in Runs \ {r} : run'[m] = run[m]
  BY <1>1, <1>2
<1>4. UNCHANGED <<clock, seeds, startedAt, reservations, open, rows, before>>
  BY DEF CompleteRun, Die, ledger
<1>5. Moves(r)
  BY <1>1, <1>2, <1>3, <1>4 DEF Moves, Grows, rows
<1>6. RowsOK'
  BY <1>4 DEF TypeInv, RowsOK, rows
<1>7. Holding(r)'
  BY <1>1, <1>2, <1>3, <1>4 DEF Holding, Going
<1>8. status' \in [Runs -> {"none", "running", "completed", "partial", "blocked"}]
  BY DEF TypeInv, CompleteRun, Die, ledger
<1> QED
  BY <1>4, <1>5, <1>6, <1>7, <1>8, MovesKeep DEF TypeInv

\* A step of a run, its end included.
LEMMA StepMoves ==
  ASSUME TypeInv, NEW r \in Runs, Step(r) \/ Die(r) PROVE Moves(r) /\ TypeInv'
BY ReserveMoves, RefusalsMove, AnswerMoves, TokenMissingMoves, CloseMoves, RecordingsMove,
   PlansMove, EndsMove DEF Step

\* What happens outside the runs.
LEMMA OutsideKeeps ==
  ASSUME TypeInv, Tick \/ UNCHANGED vars \/ \E batch \in SUBSET SeedOffers : ImportSeeds(batch)
  PROVE  TypeInv' /\ UNCHANGED <<ledger, rows, run, before>>
<1>1. UNCHANGED <<ledger, rows, run, before>>
  BY DEF Tick, ImportSeeds, vars
<1>2. clock' \in 0..MaxTime /\ seeds' \subseteq SeedOffers
  BY LimitsAssumption DEF Tick, ImportSeeds, vars, TypeInv, LimitsAssumption
<1>3. RowsOK'
  BY <1>1 DEF TypeInv, RowsOK, rows
<1>4. \A r \in Runs : Holding(r)'
  BY <1>1 DEF TypeInv, Holding, Current, ledger
<1> QED
  BY <1>1, <1>2, <1>3, <1>4 DEF TypeInv, ledger, rows

\* The empty database and idle runs satisfy the types.
LEMMA TypeInit == Init => TypeInv
<1> SUFFICES ASSUME Init PROVE TypeInv
  OBVIOUS
<1>1. /\ RowsOK /\ IsFiniteSet(reservations)
      /\ run \in [Runs -> RunStates] /\ before \in [Runs -> SUBSET Runs]
  BY NoRunState, FS_EmptySet DEF Init, RowsOK
<1>2. \A r \in Runs : Holding(r)
  BY DEF Init, Holding, NoRun
<1>3. clock \in 0..MaxTime
  BY LimitsAssumption DEF Init, LimitsAssumption
<1> QED
  BY <1>1, <1>2, <1>3 DEF Init, TypeInv

\* Every step keeps the types.
LEMMA TypeStep == TypeInv /\ [Next]_vars => TypeInv'
BY OutsideKeeps, StepMoves, StartKeeps DEF Next

\* Types hold in every reachable state.
LEMMA TypeInvHolds == Spec => []TypeInv
BY TypeInit, TypeStep, PTL DEF Spec

\* The type invariant of the model, for every value of its constants.
THEOREM TypesHold == Spec => []TypeOK
<1>1. TypeInv => TypeOK
  <2> SUFFICES ASSUME TypeInv PROVE TypeOK
    OBVIOUS
  <2>1. \A p \in entityParses : p.outcome \in Terminal \cup {"malformed_payload"}
    BY DEF TypeInv, RowsOK
  <2>2. \A o \in observations : o.run \in Runs /\ o.request \in Requests /\ o.answer \in Answers
    BY LegalRequests DEF TypeInv, RowsOK
  <2>3. ASSUME NEW r \in Runs
        PROVE  /\ run[r].pc \in Labels /\ run[r].answer \in Answers \cup {None}
               /\ run[r].stage \in {"none", "discovery", "entities", "addresses", "blocked"}
               /\ run[r].work \in Seq(Requests)
    <3>1. run[r] \in RunStates
      BY DEF TypeInv
    <3>2. run[r].work \in Seq(Requests)
      BY <3>1, LegalRequests DEF RunStates
    <3> QED
      BY <3>1, <3>2 DEF RunStates
  <2> QED
    BY <2>1, <2>2, <2>3 DEF TypeInv, TypeOK, Labels
<1> QED
  BY <1>1, TypeInvHolds, PTL

-----------------------------------------------------------------------------
(***************************************************************************)
(* The shapes of a step                                                    *)
(***************************************************************************)

\* A run stays with its request, leaves it for the next one, or comes to an
\* end; only planning gives it others.
Keeps(r) == run'[r].stage = run[r].stage /\ run'[r].refused = run[r].refused
Reserves(r) ==
  /\ Reserve(r) /\ run[r].pc = "next" /\ run'[r].pc = "ask"
  /\ run[r].work # <<>> /\ run'[r].work = run[r].work /\ Keeps(r)
Observes(r) ==
  /\ \E answer \in Answers : Answer(r, answer)
  /\ run[r].pc = "ask" /\ run'[r].pc = "close"
  /\ run[r].work # <<>> /\ run'[r].work = run[r].work /\ Keeps(r)
Stays(r) ==
  /\ run[r].pc \in {"close", "attempt", "parse"} /\ run'[r].pc \in {"attempt", "parse", "write"}
  /\ run'[r].pc = "write" => ParsePredictions(r) \/ ParseAddress(r)
  /\ run[r].work # <<>> /\ run'[r].work = run[r].work /\ Keeps(r)
Leaves(r) ==
  /\ run[r].pc \in {"next", "close", "attempt", "parse", "write"} /\ run'[r].pc = "next"
  /\ run[r].pc = "write" => RecordPredictions(r) \/ AppendEvidence(r)
  /\ run[r].work # <<>> /\ run'[r].work = Tail(run[r].work)
  /\ run'[r].stage = run[r].stage
  /\ run'[r].refused = run[r].refused \/ RateLimited(r)
Blocks(r) == run'[r].pc = "next" /\ run'[r].stage = "blocked" /\ run'[r].work = <<>>
             /\ run[r].pc = "ask" /\ run'[r].refused = run[r].refused
Ends(r) ==
  /\ run'[r].pc \in {"over", "dead"} /\ run'[r].stage = "none" /\ ~ run'[r].refused
  /\ run[r].pc # "write" => run'[r].work = <<>>
  /\ run[r].pc = "write" => /\ run[r].work # <<>> /\ Die(r) /\ run'[r].work = <<Current(r)>>
                            /\ run'[r].pc = "dead"

\* A step of a run has one of these shapes.
LEMMA StepShape ==
  ASSUME TypeInv, NEW r \in Runs, Step(r) \/ Die(r)
  PROVE  \/ Reserves(r) \/ Observes(r) \/ Stays(r) \/ Leaves(r) \/ Blocks(r) \/ Ends(r)
         \/ PlanEntities(r) \/ PlanAddresses(r)
<1>0. run \in [Runs -> RunStates] /\ run[r] \in RunStates /\ Holding(r)
  BY DEF TypeInv
<1>1. CASE Reserve(r)
  BY <1>1, Goes DEF Reserve, Labels, Asking, Reserves, Keeps
<1>2. CASE RateLimited(r)
  BY <1>2, <1>0 DEF RateLimited, RunStates, Asking, Leaves
<1>3. CASE BudgetExhausted(r)
  BY <1>3, Advances DEF BudgetExhausted, Asking, Leaves
<1>4. ASSUME NEW answer \in Answers, Answer(r, answer) PROVE Observes(r)
  BY <1>4, <1>0 DEF Answer, RunStates, Holding, Observes, Keeps
<1>5. CASE TokenMissing(r)
  BY <1>5, <1>0 DEF TokenMissing, RunStates, Blocks
<1>6. CASE CompleteReservation(r)
  <2> DEFINE then == AfterDispatch(Current(r).kind, run[r].answer)
             clean == run[r].answer.outcome = "success"
  <2>1. run[r].work # <<>> /\ run[r].pc = "close"
    BY <1>0, <1>6 DEF CompleteReservation, Holding
  <2>2. CASE then = "next"
    <3>1. Advance(r, clean) /\ clean \in BOOLEAN
      BY <1>6, <2>2 DEF CompleteReservation
    <3> QED
      BY <2>1, <3>1, Advances DEF Leaves
  <2>3. CASE then # "next"
    <3>1. run' = [run EXCEPT ![r].pc = then, ![r].clean = @ /\ clean]
      BY <1>6, <2>3 DEF CompleteReservation
    <3>2. then \in {"attempt", "parse"}
      BY <2>3 DEF AfterDispatch
    <3> HIDE DEF then, clean
    <3> QED
      BY <1>0, <2>1, <3>1, <3>2 DEF RunStates, Stays, Keeps
  <2> QED
    BY <2>2, <2>3
<1>7. CASE RecordPredictionAttempt(r)
  <2>1. run[r].pc = "attempt" /\ run[r].work # <<>> /\ (Goto(r, "parse") \/ Advance(r, TRUE))
    BY <1>0, <1>7 DEF RecordPredictionAttempt, Holding
  <2> QED
    BY <2>1, Advances, Goes DEF Labels, Leaves, Stays, Keeps
<1>8. CASE ParseDiscovery(r) \/ ParseDetail(r)
  <2> DEFINE clean == WellFormed(r)
  <2>1. /\ run[r].pc = "parse" /\ run[r].work # <<>>
        /\ Advance(r, clean) /\ clean \in BOOLEAN
    BY <1>0, <1>8 DEF ParseDiscovery, ParseDetail, Parsing, Holding, WellFormed
  <2> HIDE DEF clean
  <2> QED
    BY <2>1, Advances DEF Leaves
<1>9. CASE ParsePredictions(r) \/ ParseAddress(r)
  <2>1. run[r].pc = "parse" /\ run[r].work # <<>> /\ (Goto(r, "write") \/ Advance(r, FALSE))
    BY <1>0, <1>9 DEF ParsePredictions, ParseAddress, Parsing, Holding
  <2> QED
    BY <1>9, <2>1, Advances, Goes DEF Labels, Leaves, Stays, Keeps
<1>10. CASE RecordPredictions(r) \/ AppendEvidence(r)
  <2>1. run[r].pc = "write" /\ run[r].work # <<>> /\ Advance(r, TRUE)
    BY <1>0, <1>10 DEF RecordPredictions, AppendEvidence, Holding
  <2> QED
    BY <1>10, <2>1, Advances DEF Leaves
<1>11. CASE CompleteRun(r)
  BY <1>11, <1>0 DEF CompleteRun, NoRun, Ends, LoopDone
<1>12. CASE Die(r)
  BY <1>12, <1>0 DEF Die, NoRun, Holding, Ends
<1> QED
  BY <1>1, <1>2, <1>3, <1>4, <1>5, <1>6, <1>7, <1>8, <1>9, <1>10, <1>11, <1>12 DEF Step

-----------------------------------------------------------------------------
(***************************************************************************)
(* Nothing is bought twice                                                 *)
(***************************************************************************)

\* A run decides what is due while it plans and asks for it later.  What it
\* looked at, the rows of the runs that were over when it started, cannot
\* change in between; so a request is as worthwhile when it is made as it was
\* when it was planned.
Bought(r, item, S) == { x \in S : x.run \in before[r] /\ x.item = item }
Since(r, row) == startedAt[r] - startedAt[row.run]
Worth(r, q) ==
  /\ q.kind = "address" =>
       \A p \in Bought(r, q.item, addressParses) :
         p.outcome = "parsed_success" => Since(r, p) >= AddressTTL
  /\ q.kind \in {"detail", "predictions"} =>
       /\ \A p \in Bought(r, q.item, entityParses), d \in Bought(r, q.item, entityRows) :
            p.outcome \in Terminal /\ d.method = "entity_detail"
              => Since(r, p) >= EntityTTL \/ Since(r, d) >= EntityTTL
       /\ \A a \in Bought(r, q.item, attempts) :
            a.outcome \in Failures => Since(r, a) >= Backoff

BuyingInv ==
  /\ \A r \in Runs : /\ \A m \in before[r] : Over(m)
                     /\ \A i \in 1..Len(run[r].work) : Worth(r, run[r].work[i])
  /\ \A o \in observations : Worth(o.run, o.request)

\* What a run has to do after a step of it was there before, unless it plans.
LEMMA StepWork ==
  ASSUME TypeInv, NEW r \in Runs, Step(r) \/ Die(r)
  PROVE  \/ PlanEntities(r) \/ PlanAddresses(r)
         \/ run'[r].work = <<>>
         \/ /\ run[r].work # <<>>
            /\ run'[r].work \in {run[r].work, Tail(run[r].work), <<Current(r)>>}
BY StepShape DEF Reserves, Observes, Stays, Leaves, Blocks, Ends

\* What a run leaves it to do has whatever what it had to do has.
LEMMA LeftWork ==
  ASSUME TypeInv, NEW r \in Runs, Step(r) \/ Die(r), ~ PlanEntities(r), ~ PlanAddresses(r),
         NEW i \in 1..Len(run'[r].work)
  PROVE  \E j \in 1..Len(run[r].work) : run'[r].work[i] = run[r].work[j]
<1>1. run[r].work \in Seq(Legal)
  BY DEF TypeInv, RunStates
<1>2. run'[r].work # <<>>
  OBVIOUS
<1>3. /\ run[r].work # <<>>
      /\ run'[r].work \in {run[r].work, Tail(run[r].work), <<Current(r)>>}
  BY <1>2, StepWork
<1>4. CASE run'[r].work = run[r].work
  BY <1>4
<1>5. CASE run'[r].work = Tail(run[r].work)
  BY <1>3, <1>5, AtHand
<1>6. CASE run'[r].work = <<Current(r)>>
  <2>1. i = 1
    BY <1>6
  <2> QED
    BY <1>3, <1>6, <2>1, AtHand
<1> QED
  BY <1>3, <1>4, <1>5, <1>6

\* A request is observed when it is the one at hand.
LEMMA StepObserves ==
  ASSUME TypeInv, NEW r \in Runs, Step(r) \/ Die(r)
  PROVE  \/ observations' = observations
         \/ \E answer \in Answers :
              /\ run[r].work # <<>> /\ run[r].pc = "ask" /\ Answer(r, answer)
              /\ observations' = observations \cup
                   {[run |-> r, request |-> Current(r), answer |-> answer]}
<1>1. ASSUME NEW answer \in Answers, Answer(r, answer)
      PROVE  /\ run[r].work # <<>> /\ run[r].pc = "ask"
             /\ observations' = observations \cup
                  {[run |-> r, request |-> Current(r), answer |-> answer]}
  BY <1>1 DEF TypeInv, Holding, Answer
<1>2. CASE \E answer \in Answers : Answer(r, answer)
  BY <1>1, <1>2
<1>3. CASE ~ \E answer \in Answers : Answer(r, answer)
  BY <1>3 DEF Step, Reserve, RateLimited, BudgetExhausted, TokenMissing, CompleteReservation,
     RecordPredictionAttempt, ParseDiscovery, ParseDetail, ParsePredictions, ParseAddress,
     RecordPredictions, AppendEvidence, PlanEntities, PlanAddresses, CompleteRun, Die, rows
<1> QED
  BY <1>2, <1>3

\* The rows a run compares itself with do not change.
PastKept(m) ==
  /\ before'[m] = before[m] /\ startedAt'[m] = startedAt[m]
  /\ \A k \in before[m] : startedAt'[k] = startedAt[k]
  /\ \A x \in entityRows' : x.run \in before[m] => x \in entityRows
  /\ \A x \in attempts' : x.run \in before[m] => x \in attempts
  /\ \A x \in entityParses' : x.run \in before[m] => x \in entityParses
  /\ \A x \in addressParses' : x.run \in before[m] => x \in addressParses

\* A request stays as worthwhile as it was.
LEMMA WorthStays ==
  ASSUME NEW m \in Runs, PastKept(m)
  PROVE  \A q \in Legal : Worth(m, q) => Worth(m, q)'
<1> SUFFICES ASSUME NEW q \in Legal, Worth(m, q) PROVE Worth(m, q)'
  OBVIOUS
<1>1. /\ Bought(m, q.item, addressParses)' \subseteq Bought(m, q.item, addressParses)
      /\ Bought(m, q.item, entityParses)' \subseteq Bought(m, q.item, entityParses)
      /\ Bought(m, q.item, entityRows)' \subseteq Bought(m, q.item, entityRows)
      /\ Bought(m, q.item, attempts)' \subseteq Bought(m, q.item, attempts)
  BY DEF PastKept, Bought
<1>2. /\ \A x \in Bought(m, q.item, addressParses) : Since(m, x)' = Since(m, x)
      /\ \A x \in Bought(m, q.item, entityParses) : Since(m, x)' = Since(m, x)
      /\ \A x \in Bought(m, q.item, entityRows) : Since(m, x)' = Since(m, x)
      /\ \A x \in Bought(m, q.item, attempts) : Since(m, x)' = Since(m, x)
  BY DEF PastKept, Bought, Since
<1> QED
  BY <1>1, <1>2 DEF Worth

\* A plan holds what was worth asking for.
LEMMA PlansAreWorth ==
  ASSUME TypeInv, NEW r \in Runs, startedAt[r] # None, \A m \in before[r] : Over(m)
  PROVE  /\ \A a \in DueAddresses(startedAt[r]), q \in Legal :
              q.kind = "address" /\ q.item = a => Worth(r, q)
         /\ \A e \in DueEntities(startedAt[r]), q \in Legal :
              q.kind \in {"detail", "predictions"} /\ q.item = e => Worth(r, q)
<1>1. /\ startedAt[r] \in Int
      /\ \A m \in before[r] : startedAt[m] \in Int
  <2>1. startedAt[r] \in Int
    BY OwnWindow
  <2>2. ASSUME NEW m \in before[r] PROVE startedAt[m] \in Int
    <3>1. m \in Runs /\ Holding(m)
      BY DEF TypeInv
    <3>2. startedAt[m] # None
      BY <3>1 DEF Holding, Over
    <3> QED
      BY <3>1, <3>2, OwnWindow
  <2> QED
    BY <2>1, <2>2
<1>2. AddressTTL \in Nat /\ EntityTTL \in Nat /\ Backoff \in Nat
  BY LimitsAssumption DEF LimitsAssumption
<1>3. ASSUME NEW ttl \in Nat, NEW x, x.run \in before[r], ~ Recent(x, startedAt[r], ttl)
      PROVE  Since(r, x) >= ttl
  BY <1>1, <1>3 DEF Recent, Since
<1>4. ASSUME NEW a \in DueAddresses(startedAt[r]), NEW q \in Legal, q.kind = "address", q.item = a
      PROVE  Worth(r, q)
  <2>1. a \notin FreshAddresses(startedAt[r])
    BY DEF DueAddresses
  <2> SUFFICES ASSUME NEW p \in Bought(r, a, addressParses), p.outcome = "parsed_success"
               PROVE  Since(r, p) >= AddressTTL
    BY <1>4 DEF Worth
  <2>2. ~ Recent(p, startedAt[r], AddressTTL)
    BY <2>1 DEF FreshAddresses, Bought
  <2> QED
    BY <1>2, <1>3, <2>2 DEF Bought
<1>5. ASSUME NEW e \in DueEntities(startedAt[r]), NEW q \in Legal,
             q.kind \in {"detail", "predictions"}, q.item = e
      PROVE  Worth(r, q)
  <2>1. /\ e \notin FreshDetail(startedAt[r]) \cap FreshPredictions(startedAt[r])
        /\ e \notin CoolingDown(startedAt[r])
    BY DEF DueEntities
  <2>2. ASSUME NEW p \in Bought(r, e, entityParses), NEW d \in Bought(r, e, entityRows),
               p.outcome \in Terminal, d.method = "entity_detail"
        PROVE  Since(r, p) >= EntityTTL \/ Since(r, d) >= EntityTTL
    <3>1. ~ Recent(p, startedAt[r], EntityTTL) \/ ~ Recent(d, startedAt[r], EntityTTL)
      BY <2>1, <2>2 DEF FreshDetail, FreshPredictions, Bought
    <3> QED
      BY <1>2, <1>3, <3>1 DEF Bought
  <2>3. ASSUME NEW a \in Bought(r, e, attempts), a.outcome \in Failures
        PROVE  Since(r, a) >= Backoff
    <3>1. ~ Recent(a, startedAt[r], Backoff)
      BY <2>1, <2>3 DEF CoolingDown, Bought
    <3> QED
      BY <1>2, <1>3, <3>1 DEF Bought
  <2> QED
    BY <1>5, <2>2, <2>3 DEF Worth
<1> QED
  BY <1>4, <1>5

\* Rows of the runs that were over when a run started stay as they are.
LEMMA StepKeepsPast ==
  ASSUME TypeInv, BuyingInv, NEW r \in Runs, Step(r) \/ Die(r), NEW m \in Runs
  PROVE  PastKept(m)
<1>1. Moves(r)
  BY StepMoves
<1>2. r \notin before[m]
  BY <1>1 DEF BuyingInv, Moves, Going, Over
<1> QED
  BY <1>1, <1>2 DEF PastKept, Moves, Grows

\* Over is over.
LEMMA OverStays ==
  ASSUME TypeInv, NEW r \in Runs, Step(r) \/ Die(r), NEW m \in Runs, Over(m)
  PROVE  Over(m)'
<1>1. Moves(r)
  BY StepMoves
<1> QED
  BY <1>1 DEF Moves, Going, Over

\* A step of a run keeps the invariant.
LEMMA BuyingByStep ==
  ASSUME TypeInv, BuyingInv, NEW r \in Runs, Step(r) \/ Die(r)
  PROVE  BuyingInv'
<1>1. Moves(r) /\ TypeInv'
  BY StepMoves
<1>2. \A m \in Runs : PastKept(m)
  BY StepKeepsPast
<1>3. \A m \in Runs : before[m] \subseteq Runs /\ before'[m] = before[m]
  BY <1>2 DEF TypeInv, PastKept
<1>4. \A m \in Runs : \A k \in before'[m] : Over(k)'
  BY <1>3, OverStays DEF BuyingInv
<1>5. \A q \in Legal : (\E j \in 1..Len(run[r].work) : q = run[r].work[j]) => Worth(r, q)'
  <2> SUFFICES ASSUME NEW q \in Legal, NEW j \in 1..Len(run[r].work), q = run[r].work[j]
               PROVE  Worth(r, q)'
    OBVIOUS
  <2>1. Worth(r, q)
    BY DEF BuyingInv
  <2> QED
    BY <1>2, <2>1, WorthStays
<1>6. startedAt[r] # None /\ startedAt'[r] = startedAt[r]
  BY <1>1 DEF TypeInv, Holding, Moves, Going
<1>7. ASSUME NEW i \in 1..Len(run'[r].work) PROVE Worth(r, run[r].work[i])'
  <2>0. PICK q \in Legal : q = run'[r].work[i]
    BY <1>1 DEF Moves, RunStates
  <2>1. CASE PlanEntities(r)
    <3>1. PICK plan \in SelectDueEntities(startedAt[r], Min({EntityLimit, EntityCapacity})) :
            /\ [run[r] EXCEPT !.stage = "entities", !.work = RequestsFor(plan)] \in RunStates
            /\ run' = [run EXCEPT ![r] = [run[r] EXCEPT !.stage = "entities",
                                                        !.work = RequestsFor(plan)]]
            /\ plan \in Seq(Entities)
      BY <2>1, PlansEntities
    <3>2. run'[r].work = RequestsFor(plan) /\ run[r] \in RunStates
      BY <3>1 DEF TypeInv, RunStates
    <3>3. /\ RequestsFor(plan)[i].kind \in {"detail", "predictions"}
          /\ RequestsFor(plan)[i].item \in DueEntities(startedAt[r])
      <4>1. \A j \in 1..Len(plan) : plan[j] \in DueEntities(startedAt[r])
        BY <3>1, EntityPlan, EntityLimits
      <4>2. /\ RequestsFor(plan)[i].kind = IF i % 2 = 1 THEN "detail" ELSE "predictions"
            /\ (i + 1) \div 2 \in 1..Len(plan)
            /\ RequestsFor(plan)[i].item = plan[(i + 1) \div 2]
        BY <3>1, <3>2, EntityRequests
      <4> QED
        BY <4>1, <4>2
    <3>4. Worth(r, q)
      BY <1>6, <2>0, <3>2, <3>3, PlansAreWorth DEF BuyingInv
    <3>5. Worth(r, q)'
      BY <1>2, <3>4, WorthStays
    <3> QED
      BY <2>0, <3>5
  <2>2. CASE PlanAddresses(r)
    <3>1. PICK plan \in SelectDueAddresses(startedAt[r], Min({AddressLimit, RemainingCapacity(Consumed(r))})) :
            /\ [run[r] EXCEPT !.stage = "addresses", !.work = AddressRequests(plan)] \in RunStates
            /\ run' = [run EXCEPT ![r] = [run[r] EXCEPT !.stage = "addresses",
                                                        !.work = AddressRequests(plan)]]
            /\ plan \in Seq(Addresses) /\ Len(AddressRequests(plan)) = Len(plan)
      BY <2>2, PlansAddresses
    <3>2. run'[r].work = AddressRequests(plan) /\ run[r] \in RunStates
      BY <3>1 DEF TypeInv, RunStates
    <3>3. i \in 1..Len(plan) /\ plan[i] \in DueAddresses(startedAt[r])
      BY <3>1, <3>2, AddressPlan, AddressLimits
    <3>4. AddressRequests(plan)[i] = [kind |-> "address", item |-> plan[i]]
      BY <3>1, <3>3 DEF AddressRequests
    <3>5. Worth(r, q)
      <4>1. q.kind = "address" /\ q.item = plan[i]
        BY <2>0, <3>2, <3>4
      <4> QED
        BY <1>6, <3>3, <4>1, PlansAreWorth DEF BuyingInv
    <3>6. Worth(r, q)'
      BY <1>2, <3>5, WorthStays
    <3> QED
      BY <2>0, <3>6
  <2>3. CASE ~ PlanEntities(r) /\ ~ PlanAddresses(r)
    <3>1. Worth(r, q)'
      BY <1>5, <2>0, <2>3, LeftWork
    <3> QED
      BY <2>0, <3>1
  <2> QED
    BY <2>1, <2>2, <2>3
<1>8. ASSUME NEW m \in Runs, m # r, NEW i \in 1..Len(run'[m].work)
      PROVE  Worth(m, run[m].work[i])'
  <2>1. run'[m] = run[m] /\ run[m] \in RunStates
    BY <1>1, <1>8 DEF Moves, TypeInv
  <2>2. PICK q \in Legal : q = run[m].work[i]
    BY <2>1 DEF RunStates
  <2>3. Worth(m, q)
    BY <2>1, <2>2 DEF BuyingInv
  <2>4. Worth(m, q)'
    BY <1>2, <2>3, WorthStays
  <2> QED
    BY <2>1, <2>2, <2>4
<1>9. ASSUME NEW o \in observations' PROVE Worth(o.run, o.request)'
  <2>1. CASE o \in observations
    <3>1. o.run \in Runs /\ o.request \in Legal /\ Worth(o.run, o.request)
      BY <2>1 DEF TypeInv, RowsOK, BuyingInv
    <3> QED
      BY <1>2, <3>1, WorthStays
  <2>2. CASE o \notin observations
    <3>1. run[r].work # <<>> /\ o.run = r /\ o.request = Current(r)
      BY <1>9, <2>2, StepObserves
    <3>2. /\ Current(r) = run[r].work[1] /\ Len(run[r].work) \in Nat \ {0}
          /\ o.request \in Legal
      BY <3>1, AtHand
    <3> QED
      BY <1>5, <3>1, <3>2
  <2> QED
    BY <2>1, <2>2
<1> QED
  BY <1>4, <1>7, <1>8, <1>9 DEF BuyingInv

\* A run that starts keeps it: it has two rankings to ask for.
LEMMA BuyingByStart ==
  ASSUME TypeInv, BuyingInv, NEW r \in Runs, Start(r) PROVE BuyingInv'
<1>1. /\ startedAt[r] = None /\ run[r].pc = "idle"
      /\ \A o \in observations : o.run # r
  BY DEF TypeInv, Holding, Start
<1>2. ASSUME NEW m \in Runs, m # r PROVE PastKept(m) /\ r \notin before[m]
  BY <1>1, <1>2 DEF PastKept, Start, rows, BuyingInv, Over, TypeInv
<1>3. \A m \in Runs : run[m].pc # "idle" => run'[m] = run[m]
  BY <1>1 DEF Start, TypeInv
<1>4. /\ run'[r].work = TwoRankings /\ before'[r] = { m \in Runs : Over(m) }
      /\ \A m \in Runs \ {r} : run'[m] = run[m] /\ before'[m] = before[m]
  BY DEF Start, TypeInv, NoRun
<1>5. \A m \in Runs : Over(m) => Over(m)'
  BY <1>3 DEF Over
<1>6. \A m \in Runs : \A k \in before'[m] : Over(k)'
  BY <1>4, <1>5 DEF BuyingInv, TypeInv
<1>7. ASSUME NEW i \in 1..Len(TwoRankings) PROVE Worth(r, run[r].work[i])'
  <2>1. run'[r].work[i].kind = "discovery"
    BY <1>4 DEF TwoRankings
  <2> QED
    BY <2>1 DEF Worth
<1>8. ASSUME NEW m \in Runs, m # r, NEW i \in 1..Len(run'[m].work)
      PROVE  Worth(m, run[m].work[i])'
  <2>1. run'[m] = run[m] /\ run[m] \in RunStates
    BY <1>4, <1>8 DEF TypeInv
  <2>2. PICK q \in Legal : q = run[m].work[i]
    BY <2>1 DEF RunStates
  <2>3. Worth(m, q)
    BY <2>1, <2>2 DEF BuyingInv
  <2>4. Worth(m, q)'
    BY <1>2, <1>8, <2>3, WorthStays
  <2> QED
    BY <2>1, <2>2, <2>4
<1>9. ASSUME NEW o \in observations' PROVE Worth(o.run, o.request)'
  <2>1. o \in observations /\ o.run \in Runs /\ o.run # r /\ o.request \in Legal
    BY <1>1 DEF Start, rows, TypeInv, RowsOK
  <2> QED
    BY <1>2, <2>1, WorthStays DEF BuyingInv
<1> QED
  BY <1>4, <1>6, <1>7, <1>8, <1>9 DEF BuyingInv

\* Every step keeps it.
LEMMA BuyingStep == TypeInv /\ BuyingInv /\ [Next]_vars => BuyingInv'
<1> SUFFICES ASSUME TypeInv, BuyingInv, [Next]_vars PROVE BuyingInv'
  OBVIOUS
<1>1. CASE UNCHANGED <<ledger, rows, run, before>>
  <2>1. \A m \in Runs : \A q : Worth(m, q) <=> Worth(m, q)'
    BY <1>1 DEF Worth, Bought, Since, rows, ledger
  <2>2. \A m \in Runs : Over(m) <=> Over(m)'
    BY <1>1 DEF Over
  <2> QED
    BY <1>1, <2>1, <2>2 DEF BuyingInv, rows, TypeInv, RowsOK
<1> QED
  BY <1>1, OutsideKeeps, BuyingByStep, BuyingByStart DEF Next

\* It holds in every reachable state.
LEMMA BuyingHolds == Spec => []BuyingInv
<1>1. Init => BuyingInv
  BY DEF Init, BuyingInv, NoRun
<1> QED
  BY <1>1, TypeInvHolds, BuyingStep, PTL DEF Spec

\* No run of any number pays again for what runs that were over when it
\* started had settled, at any clock and however many of them died.
THEOREM NothingTwice == Spec => []NothingBoughtTwice
<1>1. TypeInv /\ BuyingInv => NothingBoughtTwice
  <2> SUFFICES ASSUME TypeInv, BuyingInv, NEW o \in observations
               PROVE  /\ o.request.kind = "address" =>
                           \A p \in Settled(o, addressParses) :
                             p.outcome = "parsed_success" => Age(o, p) >= AddressTTL
                      /\ o.request.kind \in {"detail", "predictions"} =>
                           /\ \A p \in Settled(o, entityParses), d \in Settled(o, entityRows) :
                                p.outcome \in Terminal /\ d.method = "entity_detail"
                                  => Age(o, p) >= EntityTTL \/ Age(o, d) >= EntityTTL
                           /\ \A a \in Settled(o, attempts) :
                                a.outcome \in Failures => Age(o, a) >= Backoff
    BY DEF NothingBoughtTwice
  <2>1. Worth(o.run, o.request)
    BY DEF BuyingInv
  <2> QED
    BY <2>1 DEF Worth, Bought, Since, Settled, Age
<1> QED
  BY <1>1, TypeInvHolds, BuyingHolds, PTL

-----------------------------------------------------------------------------
(***************************************************************************)
(* What was begun is finished first                                        *)
(***************************************************************************)

\* A finite set of numbers has a greatest: it is not the smallest set without.
LEMMA GreatestExists ==
  ASSUME NEW S, IsFiniteSet(S), S # {}, S \subseteq Nat
  PROVE  Max(S) \in S /\ \A y \in S : y <= Max(S)
<1> DEFINE HasGreatest(U) == \E x \in U : \A y \in U : x >= y
           Bad == { U \in SUBSET S : U # {} /\ ~ HasGreatest(U) }
<1>1. CASE S \in Bad
  <2>1. /\ IsWellFoundedOn(StrictSubsetOrdering(S), SUBSET S)
        /\ Bad \subseteq SUBSET S /\ Bad # {}
    BY <1>1, FS_StrictSubsetOrderingWellFounded, FS_FiniteSubsetsOfFinite
  <2>2. PICK U \in Bad : \A V \in Bad : <<V, U>> \notin StrictSubsetOrdering(S)
    <3> HIDE DEF Bad
    <3> QED
      BY <2>1, WFMin
  <2>3. PICK x \in U : TRUE
    BY <2>2
  <2>4. U # {x}
    BY <2>2, <2>3
  <2>5. U \ {x} # {} /\ <<U \ {x}, U>> \in StrictSubsetOrdering(S)
    BY <2>2, <2>3, <2>4 DEF StrictSubsetOrdering
  <2>6. HasGreatest(U \ {x})
    BY <2>2, <2>5
  <2>7. PICK m \in U \ {x} : \A y \in U \ {x} : m >= y
    BY <2>6
  <2>8. x >= m \/ m >= x
    BY <2>2, <2>3, <2>7
  <2>9. HasGreatest(U)
    <3>1. x \in Nat /\ m \in Nat /\ \A y \in U : y \in Nat
      BY <2>2, <2>3, <2>7
    <3>2. CASE x >= m
      BY <2>3, <2>7, <3>1, <3>2
    <3>3. CASE m >= x
      BY <2>3, <2>7, <3>1, <3>3
    <3> QED
      BY <2>8, <3>2, <3>3
  <2> QED
    BY <2>2, <2>9
<1>2. CASE S \notin Bad
  <2>1. HasGreatest(S)
    BY <1>2
  <2>2. Max(S) \in S /\ \A y \in S : Max(S) >= y
    BY <2>1 DEF Max
  <2> QED
    BY <2>2
<1> QED
  BY <1>1, <1>2

\* A rank alone gives a priority from 20 to 70.
LEMMA RankPriority ==
  ASSUME NEW rank \in Nat \ {0}
  PROVE  DiscoveryPriority(rank) \in 0..100 /\ DiscoveryPriority(rank) <= 70
<1> DEFINE low == Min({rank - 1, 50})
           x == 70 - low
<1>1. low \in Nat /\ low <= 50
  <2>1. rank - 1 \in Nat /\ 50 \in Nat
    OBVIOUS
  <2> QED
    BY <2>1, Limited, Zenon
<1> HIDE DEF low
<1>2. x \in Int /\ x <= 70 /\ x >= 20
  BY <1>1
<1>3. DiscoveryPriority(rank) = Max({20, x})
  BY DEF DiscoveryPriority, low
<1> HIDE DEF x
<1>4. DiscoveryPriority(rank) \in {20, x}
  <2>1. 20 \in Int
    OBVIOUS
  <2> QED
    BY <1>2, <1>3, <2>1, MinOfTwo, Zenon
<1> QED
  BY <1>2, <1>4

ClaimedFor(e, at) == { c.priority : c \in { x \in EntityClaims(at) : x.item = e } }

\* Where the priorities of claims lie.
LEMMA ClaimedRange ==
  ASSUME TypeInv, NEW e, NEW at
  PROVE  /\ ClaimedFor(e, at) \subseteq 0..100 /\ ClaimedFor(e, at) \subseteq Nat
         /\ IsFiniteSet(ClaimedFor(e, at))
<1>1. \A c \in EntityClaims(at) : c.priority \in 0..100
  <2>1. \A s \in seeds : s.priority \in 0..100
    BY ItemsAssumption DEF TypeInv, ItemsAssumption
  <2>2. \A y \in entityRows : y.method = "balance_changes" => y.rank \in Nat \ {0}
    BY DEF TypeInv, RowsOK, EntityRows
  <2>3. ASSUME NEW c \in EntityClaims(at) PROVE c.priority \in 0..100
    <3>1. CASE c \in seeds
      BY <2>1, <3>1
    <3>2. CASE c.priority = 75
      BY <3>2
    <3>3. CASE \E y \in entityRows : /\ y.method = "balance_changes"
                                     /\ c.priority = DiscoveryPriority(y.rank)
      BY <2>2, <3>3, RankPriority
    <3> QED
      BY <3>1, <3>2, <3>3 DEF EntityClaims
  <2> QED
    BY <2>3
<1>2. ClaimedFor(e, at) \subseteq 0..100
  BY <1>1 DEF ClaimedFor
<1>3. IsFiniteSet(0..100)
  <2>1. 0 \in Int /\ 100 \in Int
    OBVIOUS
  <2> QED
    BY <2>1, FS_Interval, Zenon
<1> QED
  BY <1>2, <1>3, FS_Subset

\* The priority of an entity to complete is at least 75.
LEMMA IncompletePriority ==
  ASSUME TypeInv, NEW at, NEW e \in Incomplete(at)
  PROVE  EntityPriority(e, at) \in Nat /\ EntityPriority(e, at) >= 75
<1>1. 75 \in ClaimedFor(e, at)
  <2> DEFINE c == [item |-> e, priority |-> 75]
  <2>1. c \in EntityClaims(at)
    BY DEF Incomplete, EntityClaims
  <2> QED
    BY <2>1 DEF ClaimedFor
<1>2. EntityPriority(e, at) = Max(ClaimedFor(e, at))
  BY <1>1 DEF EntityPriority, ClaimedFor
<1>3. Max(ClaimedFor(e, at)) \in ClaimedFor(e, at) /\ Max(ClaimedFor(e, at)) >= 75
  BY <1>1, ClaimedRange, GreatestExists
<1> QED
  BY <1>2, <1>3, ClaimedRange

\* That of an entity known from rankings alone is at most 70.
LEMMA RankedPriority ==
  ASSUME TypeInv, NEW at, NEW e \in RankedOnly(at), e \in DueEntities(at)
  PROVE  EntityPriority(e, at) \in Nat /\ EntityPriority(e, at) <= 70
<1>1. /\ e \notin DetailKnown /\ e \notin FreshDetail(at)
      /\ \A s \in seeds : s.item # e
  BY DEF RankedOnly, DetailKnown, FreshDetail
<1>2. \E c \in EntityClaims(at) : c.item = e
  BY <1>1 DEF DueEntities
<1>3. ClaimedFor(e, at) # {}
  BY <1>2 DEF ClaimedFor
<1>4. \A p \in ClaimedFor(e, at) : p <= 70
  <2>1. ASSUME NEW c \in EntityClaims(at), c.item = e
        PROVE  \E y \in entityRows : y.method = "balance_changes"
                                     /\ c.priority = DiscoveryPriority(y.rank)
    BY <1>1, <2>1 DEF EntityClaims
  <2>2. \A y \in entityRows : y.method = "balance_changes" => y.rank \in Nat \ {0}
    BY DEF TypeInv, RowsOK, EntityRows
  <2> QED
    BY <2>1, <2>2, RankPriority DEF ClaimedFor
<1>5. EntityPriority(e, at) = Max(ClaimedFor(e, at))
  BY <1>3 DEF EntityPriority, ClaimedFor
<1>6. Max(ClaimedFor(e, at)) \in ClaimedFor(e, at)
  BY <1>3, ClaimedRange, GreatestExists
<1> QED
  BY <1>4, <1>5, <1>6, ClaimedRange

\* Only planning takes a run from discovery to its entities.
LEMMA OnlyPlanning ==
  ASSUME TypeInv, [Next]_vars, NEW r \in Runs,
         run[r].stage = "discovery", run'[r].stage = "entities"
  PROVE  PlanEntities(r)
<1>1. CASE Tick \/ UNCHANGED vars \/ \E batch \in SUBSET SeedOffers : ImportSeeds(batch)
  BY <1>1, OutsideKeeps
<1>2. ASSUME NEW m \in Runs, m # r, Step(m) \/ Die(m) PROVE FALSE
  BY <1>2, StepMoves DEF Moves
<1>3. ASSUME NEW m \in Runs, Start(m) PROVE FALSE
  <2>1. run' = [run EXCEPT ![m] = [NoRun EXCEPT !.pc = "next", !.stage = "discovery",
                                                !.work = TwoRankings]]
    BY <1>3 DEF Start
  <2>2. run \in [Runs -> RunStates]
    BY DEF TypeInv
  <2> QED
    BY <2>1, <2>2 DEF NoRun
<1>4. CASE Step(r) \/ Die(r)
  BY <1>4, StepShape DEF Reserves, Observes, Stays, Leaves, Blocks, Ends, Keeps, PlanAddresses,
     LoopDone
<1> QED
  BY <1>1, <1>2, <1>3, <1>4 DEF Next

\* Whatever the rankings list and however small the limit, a plan that leaves
\* out an entity to complete holds none that is due for its rank alone.
THEOREM RetriesFirst == Spec => RetriesGoFirst
<1>1. ASSUME TypeInv, [Next]_vars, NEW r \in Runs,
             run[r].stage = "discovery", run'[r].stage = "entities"
      PROVE  \/ Incomplete(startedAt[r]) \subseteq PlannedItems(r)'
             \/ PlannedItems(r)' \cap RankedOnly(startedAt[r]) = {}
  <2> DEFINE at == startedAt[r]
             limit == Min({EntityLimit, EntityCapacity})
  <2>1. PlanEntities(r)
    BY <1>1, OnlyPlanning
  <2>2. PICK plan \in SelectDueEntities(at, limit) :
          /\ [run[r] EXCEPT !.stage = "entities", !.work = RequestsFor(plan)] \in RunStates
          /\ run' = [run EXCEPT ![r] = [run[r] EXCEPT !.stage = "entities",
                                                      !.work = RequestsFor(plan)]]
          /\ plan \in Seq(Entities)
    BY <1>1, <2>1, PlansEntities
  <2>3. run'[r].work = RequestsFor(plan)
    BY <1>1, <2>2 DEF TypeInv, RunStates
  <2>4. PlannedItems(r)' = { plan[j] : j \in 1..Len(plan) }
    <3> DEFINE w == RequestsFor(plan)
               n == 2 * Len(plan)
    <3>1. Len(plan) \in Nat /\ DOMAIN w = 1..n
      BY <2>2, EntityRequests
    <3>2. \A i \in 1..n : (i + 1) \div 2 \in 1..Len(plan) /\ w[i].item = plan[(i + 1) \div 2]
      BY <2>2, EntityRequests
    <3>3. \A j \in 1..Len(plan) : 2 * j \in 1..n /\ (2 * j + 1) \div 2 = j
      BY <3>1
    <3>4. PlannedItems(r)' = { w[i].item : i \in 1..n }
      BY <2>3, <3>1 DEF PlannedItems
    <3> HIDE DEF w, n
    <3>5. \A j \in 1..Len(plan) : \E i \in 1..n : w[i].item = plan[j]
      <4> SUFFICES ASSUME NEW j \in 1..Len(plan) PROVE \E i \in 1..n : w[i].item = plan[j]
        OBVIOUS
      <4>1. w[2 * j].item = plan[j] /\ 2 * j \in 1..n
        BY <3>2, <3>3
      <4> QED
        BY <4>1
    <3>6. \A i \in 1..n : \E j \in 1..Len(plan) : w[i].item = plan[j]
      BY <3>2
    <3>7. { w[i].item : i \in 1..n } = { plan[j] : j \in 1..Len(plan) }
      BY <3>5, <3>6
    <3> QED
      BY <3>4, <3>7
  <2>5. /\ \A i \in 1..Len(plan) : plan[i] \in DueEntities(at)
        /\ \A x \in DueEntities(at) :
             \/ \E i \in 1..Len(plan) : plan[i] = x
             \/ \A i \in 1..Len(plan) :
                  ~ (EntityPriority(x, at) > EntityPriority(plan[i], at))
    BY <1>1, <2>2, EntityPlan, EntityLimits
  <2>6. SUFFICES ASSUME NEW x \in Incomplete(at), x \notin PlannedItems(r)',
                        NEW i \in 1..Len(plan), plan[i] \in RankedOnly(at)
                 PROVE  FALSE
    BY <2>4
  <2>7. x \in DueEntities(at)
    <3>1. x \in { c.item : c \in EntityClaims(at) }
      <4> DEFINE c == [item |-> x, priority |-> 75]
      <4>1. c \in EntityClaims(at) /\ c.item = x
        BY DEF Incomplete, EntityClaims
      <4> QED
        BY <4>1
    <3> QED
      BY <3>1 DEF Incomplete, DueEntities
  <2>8. /\ EntityPriority(x, at) \in Nat /\ EntityPriority(x, at) >= 75
        /\ EntityPriority(plan[i], at) \in Nat /\ EntityPriority(plan[i], at) <= 70
    <3>1. x \in Incomplete(at) /\ plan[i] \in RankedOnly(at) /\ plan[i] \in DueEntities(at)
      BY <2>5, <2>6
    <3> HIDE DEF at
    <3> QED
      BY <1>1, <3>1, IncompletePriority, RankedPriority
  <2> QED
    BY <2>4, <2>5, <2>6, <2>7, <2>8
<1>2. TypeInv /\ [Next]_vars =>
        [\A r \in Runs : run[r].stage = "discovery" /\ run'[r].stage = "entities" =>
           Incomplete(startedAt[r]) \subseteq PlannedItems(r)'
             \/ PlannedItems(r)' \cap RankedOnly(startedAt[r]) = {}]_vars
  BY <1>1
<1> QED
  BY <1>2, TypeInvHolds, PTL DEF Spec, RetriesGoFirst

-----------------------------------------------------------------------------
(***************************************************************************)
(* What is parsed is filed                                                 *)
(***************************************************************************)

Row(r) == [run |-> r, item |-> Current(r).item]

\* A run that is about to file has recorded the parse it files; and if what it
\* parsed was an empty list, nothing of that entity is still to be filed.
FilingNow(r) ==
  run[r].pc = "write" =>
    /\ Current(r).kind = "address" => Row(r) \in ParsedIn(addressParses)
    /\ Current(r).kind = "predictions" /\ run[r].answer.body = "good"
         => Row(r) \in ParsedIn(entityParses)
    /\ Current(r).kind = "predictions" /\ run[r].answer.body # "good"
         => (Row(r) \in ParsedIn(entityParses) => Row(r) \in members)

FilingInv == ParsedIsFiled /\ \A r \in Runs : FilingNow(r)

\* The other runs file what they filed.
LEMMA OthersFile ==
  ASSUME TypeInv, NEW r \in Runs, Moves(r)
  PROVE  /\ \A kind : \A x \in Unfiled(kind) : x.run # r => x \in Unfiled(kind)'
         /\ \A m \in Runs : m # r => run'[m] = run[m] /\ Row(m)' = Row(m)
         /\ run[r].pc # "write" => \A kind : \A x \in Unfiled(kind) : x.run # r
<1>1. \A m \in Runs : m # r => run'[m] = run[m]
  BY DEF Moves
<1>2. \A m \in Runs : m # r => Row(m)' = Row(m) /\ Current(m)' = Current(m)
                                /\ Filing(m)' = Filing(m)
  BY <1>1 DEF Row, Current, Filing
<1>3. ASSUME NEW kind, NEW x \in Unfiled(kind)
      PROVE  \E m \in Runs : /\ Filing(m) /\ Current(m).kind = kind
                             /\ x = [run |-> m, item |-> Current(m).item]
  BY <1>3 DEF Unfiled
<1>4. ASSUME NEW kind, NEW x \in Unfiled(kind), x.run # r PROVE x \in Unfiled(kind)'
  <2>1. PICK m \in Runs : /\ Filing(m) /\ Current(m).kind = kind
                          /\ x = [run |-> m, item |-> Current(m).item]
    BY <1>3
  <2>2. m # r
    BY <1>4, <2>1
  <2>3. Filing(m)' /\ Current(m)' = Current(m)
    BY <1>2, <2>1, <2>2
  <2> QED
    BY <2>1, <2>3 DEF Unfiled
<1>5. run[r].pc # "write" => \A kind : \A x \in Unfiled(kind) : x.run # r
  BY <1>3 DEF Filing, Moves, Going
<1> QED
  BY <1>1, <1>2, <1>4, <1>5

\* What other runs are filing, they are filing after the step.
LEMMA OthersFilingNow ==
  ASSUME TypeInv, FilingInv, NEW r \in Runs, Moves(r), NEW m \in Runs, m # r
  PROVE  FilingNow(m)'
<1>1. run'[m] = run[m] /\ Row(m)' = Row(m) /\ Current(m)' = Current(m)
  BY OthersFile DEF Current, Moves
<1>2. /\ ParsedIn(addressParses) \subseteq ParsedIn(addressParses)'
      /\ ParsedIn(entityParses) \subseteq ParsedIn(entityParses)'
      /\ members \subseteq members'
  BY DEF Moves, Grows, ParsedIn
<1>3. Row(m) \in ParsedIn(entityParses)' => Row(m) \in ParsedIn(entityParses)
  <2> SUFFICES ASSUME NEW p \in entityParses', p.outcome = "parsed_success",
                      Row(m) = [run |-> p.run, item |-> p.item]
               PROVE  Row(m) \in ParsedIn(entityParses)
    BY DEF ParsedIn
  <2>1. p.run = m
    BY DEF Row
  <2>2. p \in entityParses
    BY <2>1 DEF Moves, Grows
  <2> QED
    BY <2>2 DEF ParsedIn
<1>4. FilingNow(m)
  BY DEF FilingInv
<1> QED
  BY <1>1, <1>2, <1>3, <1>4 DEF FilingNow

\* A step that writes none of the four tables, and leaves no filing but by dying.
LEMMA QuietFiling ==
  ASSUME TypeInv, FilingInv, NEW r \in Runs, Moves(r),
         UNCHANGED <<entityParses, addressParses, members, evidence>>,
         run[r].pc # "write" \/ Die(r), run'[r].pc # "write"
  PROVE  FilingInv'
<1>1. \A kind : Unfiled(kind) \subseteq Unfiled(kind)'
  <2>1. CASE run[r].pc # "write"
    BY <2>1, OthersFile
  <2>2. CASE run[r].pc = "write" /\ Die(r)
    <3>1. run'[r].pc = "dead" /\ run'[r].work = <<Current(r)>>
      BY <2>2 DEF Die, TypeInv, NoRun
    <3>2. Filing(r)' /\ Current(r)' = Current(r)
      BY <3>1 DEF Filing, Current
    <3>3. ASSUME NEW kind, NEW x \in Unfiled(kind), x.run = r PROVE x \in Unfiled(kind)'
      <4>1. Current(r).kind = kind /\ x = [run |-> r, item |-> Current(r).item]
        BY <3>3 DEF Unfiled
      <4> QED
        BY <3>2, <4>1 DEF Unfiled
    <3> QED
      BY <3>3, OthersFile
  <2> QED
    BY <2>1, <2>2
<1>2. ParsedIsFiled'
  BY <1>1 DEF FilingInv, ParsedIsFiled
<1>3. \A m \in Runs : FilingNow(m)'
  BY OthersFilingNow DEF FilingNow
<1> QED
  BY <1>2, <1>3 DEF FilingInv

\* One more parse result.
LEMMA ParsedInAnd ==
  ASSUME NEW S, NEW p
  PROVE  /\ p.outcome = "parsed_success" =>
              ParsedIn(S \cup {p}) = ParsedIn(S) \cup {[run |-> p.run, item |-> p.item]}
         /\ p.outcome # "parsed_success" => ParsedIn(S \cup {p}) = ParsedIn(S)
<1> DEFINE ok(x) == x.outcome = "parsed_success"
           row(x) == [run |-> x.run, item |-> x.item]
<1>1. CASE ok(p)
  <2>1. { x \in S \cup {p} : ok(x) } = { x \in S : ok(x) } \cup {p}
    BY <1>1
  <2>2. { row(x) : x \in { y \in S : ok(y) } \cup {p} } =
          { row(x) : x \in { y \in S : ok(y) } } \cup { row(p) }
    OBVIOUS
  <2> QED
    BY <1>1, <2>1, <2>2 DEF ParsedIn
<1>2. CASE ~ ok(p)
  <2>1. { x \in S \cup {p} : ok(x) } = { x \in S : ok(x) }
    BY <1>2
  <2> QED
    BY <1>2, <2>1 DEF ParsedIn
<1> QED
  BY <1>1, <1>2

\* A parse that is followed by a filing.
LEMMA ParseFiling ==
  ASSUME TypeInv, FilingInv, NEW r \in Runs, ParsePredictions(r) \/ ParseAddress(r)
  PROVE  FilingInv'
<1>1. /\ Moves(r) /\ run[r].pc = "parse" /\ run[r].work # <<>> /\ Holding(r)
      /\ run[r] \in RunStates
  BY StepMoves DEF TypeInv, Holding, Step, ParsePredictions, ParseAddress, Parsing
<1>2. UNCHANGED <<members, evidence>>
  BY DEF ParsePredictions, ParseAddress
<1>3. \A kind : Unfiled(kind) \subseteq Unfiled(kind)'
  BY <1>1, OthersFile
<1>4. WellFormed(r) => /\ run'[r].pc = "write" /\ run'[r].work = run[r].work
                       /\ run'[r].answer = run[r].answer
                       /\ Filing(r)' /\ Current(r)' = Current(r) /\ Row(r)' = Row(r)
  <2> SUFFICES ASSUME WellFormed(r)
               PROVE  /\ run'[r].pc = "write" /\ run'[r].work = run[r].work
                      /\ run'[r].answer = run[r].answer
                      /\ Filing(r)' /\ Current(r)' = Current(r) /\ Row(r)' = Row(r)
    OBVIOUS
  <2>1. Goto(r, "write")
    BY DEF ParsePredictions, ParseAddress
  <2>2. /\ run'[r].pc = "write" /\ run'[r].work = run[r].work
        /\ run'[r].answer = run[r].answer
    BY <2>1, Goes DEF Labels
  <2> QED
    BY <1>1, <2>2 DEF Filing, Current, Row
<1>5. ~ WellFormed(r) => run'[r].pc = "next"
  <2>1. ~ WellFormed(r) => Advance(r, FALSE)
    BY DEF ParsePredictions, ParseAddress
  <2> QED
    BY <1>1, <2>1, Advances
<1>6. \A kind : WellFormed(r) /\ Current(r).kind = kind => Row(r) \in Unfiled(kind)'
  BY <1>4 DEF Unfiled, Row
<1>7. CASE ParseAddress(r)
  <2> DEFINE p == [run |-> r, item |-> Current(r).item,
                   outcome |-> IF WellFormed(r) THEN "parsed_success" ELSE "malformed_payload"]
  <2>1. addressParses' = addressParses \cup {p} /\ UNCHANGED entityParses
        /\ Current(r).kind = "address"
    BY <1>7 DEF ParseAddress, Parsing
  <2>2. /\ WellFormed(r) => ParsedIn(addressParses)' = ParsedIn(addressParses) \cup {Row(r)}
        /\ ~ WellFormed(r) => ParsedIn(addressParses)' = ParsedIn(addressParses)
    <3>1. /\ [run |-> p.run, item |-> p.item] = Row(r)
          /\ p.outcome = "parsed_success" <=> WellFormed(r)
      BY DEF Row
    <3>2. ParsedIn(addressParses)' = ParsedIn(addressParses \cup {p})
      BY <2>1 DEF ParsedIn
    <3> HIDE DEF p
    <3> QED
      BY <3>1, <3>2, ParsedInAnd
  <2>3. ParsedIsFiled'
    <3>1. ParsedIn(addressParses) \subseteq ParsedIn(addressParses)'
      BY <2>2
    <3>2. ParsedIn(addressParses)' \subseteq ParsedIn(addressParses) \cup Unfiled("address")'
      BY <1>6, <2>1, <2>2
    <3>3. ParsedIn(entityParses)' = ParsedIn(entityParses)
      BY <2>1 DEF ParsedIn
    <3> QED
      BY <1>2, <1>3, <3>1, <3>2, <3>3 DEF FilingInv, ParsedIsFiled
  <2>4. FilingNow(r)'
    BY <1>4, <1>5, <2>1, <2>2 DEF FilingNow
  <2> QED
    BY <1>1, <2>3, <2>4, OthersFilingNow DEF FilingInv
<1>8. CASE ParsePredictions(r)
  <2> DEFINE p == [run |-> r, item |-> Current(r).item, outcome |-> PredictionOutcome(r)]
             good == run[r].answer.body = "good"
  <2>1. entityParses' = entityParses \cup {p} /\ UNCHANGED addressParses
        /\ Current(r).kind = "predictions"
    BY <1>8 DEF ParsePredictions, Parsing
  <2>2. good <=> PredictionOutcome(r) = "parsed_success"
    BY DEF PredictionOutcome
  <2>3. /\ good => ParsedIn(entityParses)' = ParsedIn(entityParses) \cup {Row(r)}
        /\ ~ good => ParsedIn(entityParses)' = ParsedIn(entityParses)
    <3>1. /\ [run |-> p.run, item |-> p.item] = Row(r)
          /\ p.outcome = "parsed_success" <=> good
      BY <2>2 DEF Row
    <3>2. ParsedIn(entityParses)' = ParsedIn(entityParses \cup {p})
      BY <2>1 DEF ParsedIn
    <3> HIDE DEF p, good
    <3> QED
      BY <3>1, <3>2, ParsedInAnd
  <2>4. good => WellFormed(r)
    BY DEF WellFormed
  <2>5. ParsedIsFiled'
    <3>1. ParsedIn(entityParses) \subseteq ParsedIn(entityParses)'
      BY <2>3
    <3>2. ParsedIn(entityParses)' \subseteq ParsedIn(entityParses) \cup Unfiled("predictions")'
      BY <1>6, <2>1, <2>3, <2>4
    <3>3. ParsedIn(addressParses)' = ParsedIn(addressParses)
      BY <2>1 DEF ParsedIn
    <3> QED
      BY <1>2, <1>3, <3>1, <3>2, <3>3 DEF FilingInv, ParsedIsFiled
  <2>6. Row(r) \in ParsedIn(entityParses) => Row(r) \in members
    <3>1. Row(r) \notin Unfiled("predictions")
      BY <1>1, OthersFile DEF Row
    <3> QED
      BY <3>1 DEF FilingInv, ParsedIsFiled
  <2>7. FilingNow(r)'
    <3>1. CASE WellFormed(r)
      BY <1>2, <1>4, <2>1, <2>3, <2>6, <3>1 DEF FilingNow
    <3>2. CASE ~ WellFormed(r)
      BY <1>5, <3>2 DEF FilingNow
    <3> QED
      BY <3>1, <3>2
  <2> QED
    BY <1>1, <2>5, <2>7, OthersFilingNow DEF FilingInv
<1> QED
  BY <1>7, <1>8

\* The filing itself.
LEMMA FileFiling ==
  ASSUME TypeInv, FilingInv, NEW r \in Runs, RecordPredictions(r) \/ AppendEvidence(r)
  PROVE  FilingInv'
<1>1. /\ Moves(r) /\ run[r].pc = "write" /\ run[r].work # <<>> /\ Holding(r)
      /\ FilingNow(r) /\ Filing(r)
  BY StepMoves DEF TypeInv, Holding, Step, RecordPredictions, AppendEvidence, FilingInv, Filing
<1>2. run'[r].pc = "next"
  <2>1. Advance(r, TRUE)
    BY DEF RecordPredictions, AppendEvidence
  <2> QED
    BY <1>1, <2>1, Advances
<1>3. /\ ParsedIn(addressParses)' = ParsedIn(addressParses)
      /\ ParsedIn(entityParses)' = ParsedIn(entityParses)
  BY DEF ParsedIn, RecordPredictions, AppendEvidence
<1>4. \A kind : \A x \in Unfiled(kind) :
        x \in Unfiled(kind)' \/ (x = Row(r) /\ kind = Current(r).kind)
  <2> SUFFICES ASSUME NEW kind, NEW x \in Unfiled(kind), x.run = r
               PROVE  x = Row(r) /\ kind = Current(r).kind
    BY <1>1, OthersFile
  <2> QED
    BY DEF Unfiled, Row
<1>5. \A m \in Runs : FilingNow(m)'
  BY <1>1, <1>2, OthersFilingNow DEF FilingNow
<1>6. CASE RecordPredictions(r)
  <2>1. Current(r).kind = "predictions" /\ evidence' = evidence
    BY <1>6 DEF RecordPredictions
  <2>2. /\ run[r].answer.body = "good" => members' = members \cup {Row(r)}
        /\ run[r].answer.body # "good" => members' = members
    BY <1>6 DEF RecordPredictions, Filed, Row
  <2>3. ParsedIsFiled'
    <3>1. CASE run[r].answer.body = "good"
      BY <1>1, <1>3, <1>4, <2>1, <2>2, <3>1 DEF FilingNow, FilingInv, ParsedIsFiled
    <3>2. CASE run[r].answer.body # "good"
      BY <1>1, <1>3, <1>4, <2>1, <2>2, <3>2 DEF FilingNow, FilingInv, ParsedIsFiled
    <3> QED
      BY <3>1, <3>2
  <2> QED
    BY <1>5, <2>3 DEF FilingInv
<1>7. CASE AppendEvidence(r)
  <2>1. Current(r).kind = "address" /\ members' = members /\ evidence' = evidence \cup {Row(r)}
    BY <1>7 DEF AppendEvidence, Filed, Row
  <2>2. ParsedIsFiled'
    BY <1>1, <1>3, <1>4, <2>1 DEF FilingNow, FilingInv, ParsedIsFiled
  <2> QED
    BY <1>5, <2>2 DEF FilingInv
<1> QED
  BY <1>6, <1>7

\* The other steps of a run.
LEMMA StepFiling ==
  ASSUME TypeInv, FilingInv, NEW r \in Runs, Step(r) \/ Die(r)
  PROVE  FilingInv'
<1>0. Moves(r) /\ run \in [Runs -> RunStates] /\ run[r] \in RunStates /\ Holding(r)
  BY StepMoves DEF TypeInv
<1>1. CASE /\ ~ ParsePredictions(r) /\ ~ ParseAddress(r)
           /\ \/ Reserve(r) \/ RateLimited(r) \/ BudgetExhausted(r) \/ TokenMissing(r)
              \/ RecordPredictionAttempt(r) \/ PlanEntities(r) \/ PlanAddresses(r)
              \/ CompleteRun(r) \/ Die(r) \/ CompleteReservation(r)
              \/ ParseDiscovery(r) \/ ParseDetail(r) \/ \E answer \in Answers : Answer(r, answer)
  <2>1. UNCHANGED <<entityParses, addressParses, members, evidence>>
    BY <1>1 DEF Reserve, RateLimited, BudgetExhausted, TokenMissing, RecordPredictionAttempt,
       PlanEntities, PlanAddresses, CompleteRun, Die, CompleteReservation, ParseDiscovery,
       ParseDetail, Answer, rows
  <2>2. run[r].pc # "write" \/ Die(r)
    BY <1>1 DEF Reserve, RateLimited, BudgetExhausted, TokenMissing, RecordPredictionAttempt,
       PlanEntities, PlanAddresses, CompleteRun, CompleteReservation, ParseDiscovery,
       ParseDetail, Answer, Asking, LoopDone, Parsing
  <2>3. run'[r].pc # "write"
    <3>1. CASE PlanEntities(r) \/ PlanAddresses(r)
      BY <1>0, <3>1 DEF PlanEntities, PlanAddresses, LoopDone, RunStates
    <3>2. ~ ParsePredictions(r) /\ ~ ParseAddress(r)
      BY <1>1
    <3> QED
      BY <3>1, <3>2, StepShape DEF Reserves, Observes, Stays, Leaves, Blocks, Ends
  <2> QED
    BY <1>0, <2>1, <2>2, <2>3, QuietFiling
<1>2. CASE ParsePredictions(r) \/ ParseAddress(r)
  BY <1>2, ParseFiling
<1>3. CASE RecordPredictions(r) \/ AppendEvidence(r)
  BY <1>3, FileFiling
<1> QED
  BY <1>1, <1>2, <1>3 DEF Step

\* Every step keeps the invariant.
LEMMA FilingStep == TypeInv /\ FilingInv /\ [Next]_vars => FilingInv'
<1> SUFFICES ASSUME TypeInv, FilingInv, [Next]_vars PROVE FilingInv'
  OBVIOUS
<1>1. ASSUME NEW r \in Runs, Start(r) PROVE FilingInv'
  <2>1. /\ run[r].pc = "idle" /\ run'[r].pc = "next" /\ \A m \in Runs : m # r => run'[m] = run[m]
        /\ UNCHANGED rows
    BY <1>1 DEF Start, TypeInv, Holding, NoRun
  <2>2. \A m \in Runs : /\ Filing(m)' <=> Filing(m)
                        /\ Filing(m) => m # r /\ Current(m)' = Current(m)
    BY <2>1 DEF Filing, Current
  <2>3. \A kind : Unfiled(kind) \subseteq Unfiled(kind)'
    BY <2>2 DEF Unfiled
  <2>4. \A m \in Runs : FilingNow(m)'
    BY <2>1 DEF FilingInv, FilingNow, Row, Current, ParsedIn, rows
  <2> QED
    BY <2>1, <2>3, <2>4 DEF FilingInv, ParsedIsFiled, ParsedIn, rows
<1>2. CASE UNCHANGED <<ledger, rows, run, before>>
  <2>1. \A kind : Unfiled(kind)' = Unfiled(kind)
    BY <1>2 DEF Unfiled, Filing, Current
  <2>2. \A m \in Runs : FilingNow(m)'
    BY <1>2 DEF FilingInv, FilingNow, Row, Current, ParsedIn, rows
  <2> QED
    BY <1>2, <2>1, <2>2 DEF FilingInv, ParsedIsFiled, ParsedIn, rows
<1> QED
  BY <1>1, <1>2, OutsideKeeps, StepFiling DEF Next

\* Every parse result has what was parsed behind it, or a run that is filing
\* it or died filing it, however many runs overlap.
THEOREM ParsedFiled == Spec => []ParsedIsFiled
<1>1. Init => FilingInv
  BY DEF Init, FilingInv, FilingNow, ParsedIsFiled, ParsedIn, NoRun
<1>2. FilingInv => ParsedIsFiled
  BY DEF FilingInv
<1> QED
  BY <1>1, <1>2, TypeInvHolds, FilingStep, PTL DEF Spec

-----------------------------------------------------------------------------
(***************************************************************************)
(* A plan fits its window                                                  *)
(***************************************************************************)

\* What a run asks for, and what it has asked for, by where it is: no request
\* is made twice, because a plan holds every item once and each stage asks
\* for something else.  So every reservation has an observation of its own,
\* and what is left for the addresses is what is left of the limit.
Planned(stage) == CASE stage = "discovery" -> {"discovery"}
                    [] stage = "entities"  -> {"detail", "predictions"}
                    [] OTHER               -> {"address"}
Seen(stage) == CASE stage = "discovery" -> {"discovery"}
                 [] stage = "entities"  -> {"discovery", "detail", "predictions"}
                 [] OTHER               -> Kinds
Observed(r) == { o \in observations : o.run = r }
Paying(r) == Going(r) /\ run[r].stage # "blocked"

AsksOnce(r) ==
  /\ \A i, j \in 1..Len(run[r].work) : i # j => run[r].work[i] # run[r].work[j]
  /\ \A i \in 1..Len(run[r].work) : run[r].work[i].kind \in Planned(run[r].stage)
  /\ \A o \in Observed(r) : o.request.kind \in Seen(run[r].stage)
  /\ \A o \in Observed(r), i \in 1..Len(run[r].work) :
       o.request = run[r].work[i] => i = 1 /\ run[r].pc \notin {"next", "ask"}

\* What a run has reserved, what it may still reserve, and how many are enough.
Own(r) == Cardinality(ReservedBy(r))
Left(r) == Len(run[r].work) - (IF run[r].pc = "next" THEN 0 ELSE 1)
Enough(stage) == CASE stage = "discovery" -> 2
                   [] stage = "entities"  -> 2 + 2 * EntityCapacity
                   [] OTHER               -> Rpm
InPlan(r) ==
  /\ Own(r) + Left(r) <= Enough(run[r].stage)
  /\ Own(r) <= Consumed(r) + (IF run[r].pc = "ask" THEN 1 ELSE 0)

WindowInv ==
  /\ PlanFitsWindow
  /\ \A r \in Runs : Paying(r) => AsksOnce(r) /\ InPlan(r)

\* What is enough for a stage fits the limit.
LEMMA EnoughFits == \A stage : Enough(stage) \in Nat /\ Enough(stage) <= Rpm
BY CapacityFits, LimitsAssumption DEF Enough, LimitsAssumption

\* The counts of the argument are numbers.
LEMMA CountTypes ==
  ASSUME TypeInv, NEW r \in Runs
  PROVE  /\ Own(r) \in Nat /\ IsFiniteSet(ReservedBy(r))
         /\ Consumed(r) \in Nat /\ Consumed(r) = Cardinality(Observed(r))
         /\ IsFiniteSet(Observed(r)) /\ Len(run[r].work) \in Nat
<1>1. ReservedBy(r) \subseteq reservations /\ IsFiniteSet(reservations)
  BY DEF TypeInv, ReservedBy
<1>2. Observed(r) \subseteq observations /\ IsFiniteSet(observations)
  BY DEF TypeInv, RowsOK, Observed
<1>3. run[r].work \in Seq(Legal)
  BY DEF TypeInv, RunStates
<1> QED
  BY <1>1, <1>2, <1>3, FS_Subset, FS_CardinalityType DEF Own, Consumed, Observed

\* What the others do is not counted.
LEMMA OthersCount ==
  ASSUME TypeInv, NEW r \in Runs, Moves(r), NEW m \in Runs, m # r, Paying(m)',
         AsksOnce(m), InPlan(m)
  PROVE  Paying(m) /\ AsksOnce(m)' /\ InPlan(m)'
<1>1. run'[m] = run[m]
  BY DEF Moves
<1>2. Observed(m)' = Observed(m) /\ ReservedBy(m)' = ReservedBy(m)
  BY DEF Moves, Grows, Observed, ReservedBy
<1>3. Own(m)' = Own(m) /\ Consumed(m)' = Consumed(m) /\ Left(m)' = Left(m)
  BY <1>1, <1>2 DEF Own, Consumed, Left, Observed
<1>4. AsksOnce(m)'
  BY <1>1, <1>2 DEF AsksOnce
<1>5. InPlan(m)'
  BY <1>1, <1>3 DEF InPlan
<1> QED
  BY <1>1, <1>4, <1>5 DEF Paying, Going

\* The requests of a plan of entities are distinct.
LEMMA EntitiesOnce ==
  ASSUME NEW plan \in Seq(Entities), \A i, j \in 1..Len(plan) : i # j => plan[i] # plan[j]
  PROVE  /\ \A i, j \in 1..(2 * Len(plan)) :
              i # j => RequestsFor(plan)[i] # RequestsFor(plan)[j]
         /\ \A i \in 1..(2 * Len(plan)) : RequestsFor(plan)[i].kind \in {"detail", "predictions"}
<1> DEFINE w == RequestsFor(plan)
           n == 2 * Len(plan)
<1>1. \A i \in 1..n : /\ (i + 1) \div 2 \in 1..Len(plan)
                      /\ w[i].kind = IF i % 2 = 1 THEN "detail" ELSE "predictions"
                      /\ w[i].item = plan[(i + 1) \div 2]
  BY EntityRequests
<1>2. ASSUME NEW i \in 1..n, NEW j \in 1..n, w[i] = w[j] PROVE i = j
  <2>1. (i + 1) \div 2 = (j + 1) \div 2
    BY <1>1, <1>2
  <2>2. i % 2 = 1 <=> j % 2 = 1
    BY <1>1, <1>2
  <2>3. Len(plan) \in Nat
    OBVIOUS
  <2>4. /\ i % 2 = 1 \/ i % 2 = 0
        /\ i % 2 = 1 => i = 2 * ((i + 1) \div 2) - 1
        /\ i % 2 = 0 => i = 2 * ((i + 1) \div 2)
    BY <2>3, Halves
  <2>5. /\ j % 2 = 1 \/ j % 2 = 0
        /\ j % 2 = 1 => j = 2 * ((j + 1) \div 2) - 1
        /\ j % 2 = 0 => j = 2 * ((j + 1) \div 2)
    BY <2>3, Halves
  <2> QED
    BY <2>1, <2>2, <2>4, <2>5
<1>3. \A i \in 1..n : w[i].kind \in {"detail", "predictions"}
  BY <1>1
<1> QED
  BY <1>2, <1>3

\* A run asks once for what it asks for.
LEMMA StepAsksOnce ==
  ASSUME TypeInv, NEW r \in Runs, Step(r) \/ Die(r), Paying(r)', AsksOnce(r)
  PROVE  Paying(r) /\ AsksOnce(r)'
<1>0. Moves(r) /\ run[r] \in RunStates /\ run'[r] \in RunStates
  BY StepMoves DEF TypeInv, Moves
<1>1. ~ Blocks(r) /\ ~ Ends(r)
  BY DEF Paying, Blocks, Ends, Going
<1>2. Paying(r)
  BY <1>0, <1>1, StepShape DEF Paying, Going, Moves, Reserves, Observes, Stays, Leaves, Keeps,
     PlanEntities, PlanAddresses, LoopDone
<1>3. CASE Reserves(r) \/ Stays(r)
  <2>1. ~ \E answer \in Answers : Answer(r, answer)
    BY <1>3 DEF Reserves, Stays, Answer
  <2>2. observations' = observations
    BY <2>1, StepObserves
  <2> QED
    BY <1>2, <1>3, <2>2 DEF Reserves, Stays, Keeps, AsksOnce, Observed
<1>4. CASE Observes(r)
  <2>1. PICK answer \in Answers :
          observations' = observations \cup
            {[run |-> r, request |-> Current(r), answer |-> answer]}
    BY <1>4 DEF Observes, Answer
  <2>2. Current(r) = run[r].work[1] /\ Len(run[r].work) \in Nat \ {0}
    BY <1>4, AtHand DEF Observes
  <2>3. \A o \in Observed(r)' : o \in Observed(r) \/ o.request = run[r].work[1]
    BY <2>1, <2>2 DEF Observed
  <2>4. \A k : k \in Planned(run[r].stage) => k \in Seen(run[r].stage) \/ run[r].stage = "addresses"
               \/ run[r].stage = "none"
    BY <1>0, <1>2 DEF Planned, Seen, Paying, RunStates
  <2>5. \A o \in Observed(r)' : o.request.kind \in Seen(run[r].stage)
    <3>1. run[r].work[1].kind \in Seen(run[r].stage)
      BY <1>0, <2>2 DEF AsksOnce, Planned, Seen, Kinds
    <3> QED
      BY <2>3, <3>1 DEF AsksOnce
  <2>6. run'[r].work = run[r].work /\ run'[r].pc = "close" /\ run'[r].stage = run[r].stage
    BY <1>4 DEF Observes, Keeps
  <2>7. \A o \in Observed(r)', i \in 1..Len(run[r].work) :
          o.request = run[r].work[i] => i = 1
    BY <2>2, <2>3 DEF AsksOnce
  <2> QED
    BY <1>2, <2>5, <2>6, <2>7 DEF AsksOnce
<1>5. CASE Leaves(r)
  <2>1. observations' = observations
    BY <1>5, StepObserves DEF Leaves
  <2>2. /\ run'[r].work = Tail(run[r].work) /\ run'[r].pc = "next"
        /\ run'[r].stage = run[r].stage
        /\ \A i \in 1..Len(run'[r].work) :
             i + 1 \in 1..Len(run[r].work) /\ run'[r].work[i] = run[r].work[i + 1]
        /\ Len(run'[r].work) \in Nat
    BY <1>5, AtHand DEF Leaves
  <2>3. \A i, j \in 1..Len(run'[r].work) : i # j => run'[r].work[i] # run'[r].work[j]
    <3> SUFFICES ASSUME NEW i \in 1..Len(run'[r].work), NEW j \in 1..Len(run'[r].work), i # j
                 PROVE  run'[r].work[i] # run'[r].work[j]
      OBVIOUS
    <3>1. i + 1 # j + 1
      OBVIOUS
    <3> QED
      BY <2>2, <3>1 DEF AsksOnce
  <2>4. \A o \in Observed(r), i \in 1..Len(run'[r].work) : o.request # run'[r].work[i]
    <3> SUFFICES ASSUME NEW o \in Observed(r), NEW i \in 1..Len(run'[r].work)
                 PROVE  o.request # run'[r].work[i]
      OBVIOUS
    <3>1. i + 1 # 1
      OBVIOUS
    <3> QED
      BY <2>2, <3>1 DEF AsksOnce
  <2> QED
    BY <1>2, <2>1, <2>2, <2>3, <2>4 DEF AsksOnce, Observed
<1>6. CASE PlanEntities(r)
  <2>1. PICK plan \in SelectDueEntities(startedAt[r], Min({EntityLimit, EntityCapacity})) :
          /\ [run[r] EXCEPT !.stage = "entities", !.work = RequestsFor(plan)] \in RunStates
          /\ run' = [run EXCEPT ![r] = [run[r] EXCEPT !.stage = "entities",
                                                      !.work = RequestsFor(plan)]]
          /\ plan \in Seq(Entities)
    BY <1>6, PlansEntities
  <2>2. run'[r].stage = "entities" /\ run'[r].work = RequestsFor(plan)
    BY <1>0, <2>1 DEF TypeInv, RunStates
  <2>3. \A i, j \in 1..Len(plan) : i # j => plan[i] # plan[j]
    BY <2>1, EntityPlan, EntityLimits
  <2>4. /\ \A i, j \in 1..Len(run'[r].work) : i # j => run'[r].work[i] # run'[r].work[j]
        /\ \A i \in 1..Len(run'[r].work) : run'[r].work[i].kind \in {"detail", "predictions"}
    <3>1. /\ \A i, j \in 1..(2 * Len(plan)) :
               i # j => RequestsFor(plan)[i] # RequestsFor(plan)[j]
          /\ \A i \in 1..(2 * Len(plan)) :
               RequestsFor(plan)[i].kind \in {"detail", "predictions"}
      BY <2>1, <2>3, EntitiesOnce
    <3>2. Len(run'[r].work) = 2 * Len(plan)
      BY <2>1, <2>2, EntityRequests
    <3> QED
      BY <2>2, <3>1, <3>2
  <2>5. observations' = observations /\ \A o \in Observed(r) : o.request.kind = "discovery"
    BY <1>6 DEF PlanEntities, LoopDone, rows, AsksOnce, Seen
  <2> QED
    BY <1>2, <2>2, <2>4, <2>5 DEF AsksOnce, Observed, Planned, Seen
<1>7. CASE PlanAddresses(r)
  <2>1. PICK plan \in SelectDueAddresses(startedAt[r], Min({AddressLimit, RemainingCapacity(Consumed(r))})) :
          /\ [run[r] EXCEPT !.stage = "addresses", !.work = AddressRequests(plan)] \in RunStates
          /\ run' = [run EXCEPT ![r] = [run[r] EXCEPT !.stage = "addresses",
                                                      !.work = AddressRequests(plan)]]
          /\ plan \in Seq(Addresses) /\ Len(AddressRequests(plan)) = Len(plan)
    BY <1>7, PlansAddresses
  <2>2. run'[r].stage = "addresses" /\ run'[r].work = AddressRequests(plan)
    BY <1>0, <2>1 DEF TypeInv, RunStates
  <2>3. \A i, j \in 1..Len(plan) : i # j => plan[i] # plan[j]
    BY <2>1, AddressPlan, AddressLimits
  <2>4. ASSUME NEW i \in 1..Len(plan)
        PROVE  run'[r].work[i].kind = "address" /\ run'[r].work[i].item = plan[i]
    <3>1. run'[r].work[i] = [kind |-> "address", item |-> plan[i]]
      BY <2>1, <2>2 DEF AddressRequests
    <3> QED
      BY <3>1
  <2>5. /\ \A i, j \in 1..Len(run'[r].work) : i # j => run'[r].work[i] # run'[r].work[j]
        /\ \A i \in 1..Len(run'[r].work) : run'[r].work[i].kind = "address"
    <3>1. Len(run'[r].work) = Len(plan)
      BY <2>1, <2>2
    <3>2. ASSUME NEW i \in 1..Len(plan), NEW j \in 1..Len(plan), i # j
          PROVE  run'[r].work[i] # run'[r].work[j]
      BY <2>3, <2>4, <3>2
    <3> QED
      BY <2>4, <3>1, <3>2
  <2>6. /\ observations' = observations
        /\ \A o \in Observed(r) : o.request.kind \in {"discovery", "detail", "predictions"}
    BY <1>7 DEF PlanAddresses, LoopDone, rows, AsksOnce, Seen
  <2> QED
    BY <1>2, <2>2, <2>5, <2>6 DEF AsksOnce, Observed, Planned, Seen, Kinds
<1> QED
  BY <1>1, <1>3, <1>4, <1>5, <1>6, <1>7, StepShape

\* And reserves no more than its plan has room for.
LEMMA StepInPlan ==
  ASSUME TypeInv, NEW r \in Runs, Step(r) \/ Die(r), Paying(r)', Paying(r),
         AsksOnce(r), InPlan(r)
  PROVE  InPlan(r)'
<1>0. /\ Moves(r) /\ TypeInv' /\ run[r] \in RunStates
  BY StepMoves DEF TypeInv
<1>1. ~ Blocks(r) /\ ~ Ends(r)
  BY DEF Paying, Blocks, Ends, Going
<1>2. /\ Own(r) \in Nat /\ Consumed(r) \in Nat /\ Len(run[r].work) \in Nat
      /\ Own(r)' \in Nat /\ Consumed(r)' \in Nat /\ Len(run'[r].work) \in Nat
      /\ Enough(run[r].stage) \in Nat
  <2>1. Own(r)' \in Nat /\ Consumed(r)' \in Nat /\ Len(run'[r].work) \in Nat
    <3>1. ReservedBy(r)' \subseteq reservations' /\ IsFiniteSet(reservations')
      BY <1>0 DEF TypeInv, ReservedBy
    <3>2. Observed(r)' \subseteq observations' /\ IsFiniteSet(observations')
      BY <1>0 DEF TypeInv, RowsOK, Observed
    <3>3. run'[r].work \in Seq(Legal)
      BY <1>0 DEF Moves, RunStates
    <3> QED
      BY <3>1, <3>2, <3>3, FS_Subset, FS_CardinalityType DEF Own, Consumed, Observed
  <2> QED
    BY <2>1, CountTypes, EnoughFits
<1>3. ~ Reserves(r) => ~ Reserve(r)
  BY <1>1, StepShape DEF Reserve, Asking, Reserves, Keeps, TypeInv, Goto, RunStates
<1>4. reservations' = reservations \/ Reserve(r)
  BY DEF Step, RateLimited, BudgetExhausted, TokenMissing, RecordPredictionAttempt,
     PlanEntities, PlanAddresses, CompleteRun, Die, CompleteReservation, ParseDiscovery,
     ParseDetail, ParsePredictions, ParseAddress, RecordPredictions, AppendEvidence, Answer,
     ledger
<1>5. Reserve(r) => Own(r)' <= Own(r) + 1
  <2> DEFINE x == [run |-> r, number |-> Cardinality(ReservedBy(r)) + 1]
  <2> SUFFICES ASSUME Reserve(r) PROVE Own(r)' <= Own(r) + 1
    OBVIOUS
  <2>1. reservations' = reservations \cup {x} /\ x.run = r
    BY DEF Reserve
  <2> HIDE DEF x
  <2>2. ReservedBy(r)' = ReservedBy(r) \cup {x}
    BY <2>1 DEF ReservedBy
  <2>3. Cardinality(ReservedBy(r) \cup {x}) <= Cardinality(ReservedBy(r)) + 1
    <3>1. Cardinality(ReservedBy(r)) \in Nat
      BY <1>2 DEF Own
    <3>2. IsFiniteSet(ReservedBy(r))
      BY CountTypes
    <3> QED
      BY <3>1, <3>2, FS_AddElement
  <2> QED
    BY <2>2, <2>3 DEF Own
<1>6. ~ Reserve(r) => Own(r)' = Own(r)
  BY <1>4 DEF Own, ReservedBy
<1>7. observations' = observations => Consumed(r)' = Consumed(r)
  BY DEF Consumed
<1>8. CASE Reserves(r)
  <2>1. observations' = observations
    BY <1>8 DEF Reserves, Reserve, rows
  <2> QED
    BY <1>2, <1>5, <1>7, <1>8, <2>1 DEF InPlan, Left, Reserves, Keeps
<1>9. CASE Observes(r)
  <2>1. PICK answer \in Answers :
          observations' = observations \cup
            {[run |-> r, request |-> Current(r), answer |-> answer]}
    BY <1>9 DEF Observes, Answer
  <2> DEFINE x == [run |-> r, request |-> Current(r), answer |-> answer]
  <2>2. x.run = r /\ x.request = Current(r) /\ observations' = observations \cup {x}
    BY <2>1
  <2>3. Current(r) = run[r].work[1] /\ Len(run[r].work) \in Nat \ {0}
    BY <1>9, AtHand DEF Observes
  <2>4. x \notin Observed(r)
    BY <1>9, <2>2, <2>3 DEF AsksOnce, Observes
  <2> HIDE DEF x
  <2>5. { o \in observations : o.run = r }' = Observed(r) \cup {x}
    BY <2>2 DEF Observed
  <2>6. Cardinality(Observed(r) \cup {x}) = Cardinality(Observed(r)) + 1
    BY <2>4, CountTypes, FS_AddElement
  <2>7. Consumed(r)' = Consumed(r) + 1
    BY <2>5, <2>6, CountTypes DEF Consumed
  <2>8. ~ Reserve(r)
    BY <1>9 DEF Observes, Reserve, Asking
  <2> QED
    BY <1>2, <1>6, <1>9, <2>7, <2>8 DEF InPlan, Left, Observes, Keeps
<1>10. CASE Stays(r) \/ Leaves(r)
  <2>1. observations' = observations
    BY <1>10, StepObserves DEF Stays, Leaves
  <2>2. ~ Reserve(r)
    <3>1. CASE Stays(r)
      BY <3>1 DEF Stays, Reserve, Asking
    <3>2. CASE Leaves(r)
      BY <3>2, <1>3 DEF Leaves, Reserves
    <3> QED
      BY <1>10, <3>1, <3>2
  <2>3. Leaves(r) => Len(run'[r].work) = Len(run[r].work) - 1
    BY AtHand DEF Leaves
  <2>4. Own(r)' = Own(r) /\ Consumed(r)' = Consumed(r)
    BY <1>6, <1>7, <2>1, <2>2
  <2>5. CASE Stays(r)
    <3>1. /\ Left(r)' = Left(r) /\ run'[r].stage = run[r].stage
          /\ run[r].pc # "ask" /\ run'[r].pc # "ask"
      BY <2>5 DEF Left, Stays, Keeps
    <3> QED
      BY <2>4, <3>1 DEF InPlan
  <2>6. CASE Leaves(r)
    <3>1. /\ run'[r].pc = "next" /\ run'[r].stage = run[r].stage /\ run[r].pc # "ask"
      BY <2>6 DEF Leaves
    <3>2. Left(r)' <= Left(r) /\ Left(r)' \in Int /\ Left(r) \in Int
      <4>1. Left(r)' = Len(run[r].work) - 1
        BY <1>2, <2>3, <2>6, <3>1 DEF Left
      <4>2. Left(r) = Len(run[r].work) \/ Left(r) = Len(run[r].work) - 1
        <5>1. CASE run[r].pc = "next"
          BY <1>2, <5>1 DEF Left
        <5>2. CASE run[r].pc # "next"
          BY <1>2, <5>2 DEF Left
        <5> QED
          BY <5>1, <5>2
      <4> QED
        BY <1>2, <4>1, <4>2
    <3> QED
      BY <1>2, <2>4, <3>1, <3>2 DEF InPlan
  <2> QED
    BY <1>10, <2>5, <2>6
<1>11. CASE PlanEntities(r)
  <2>1. PICK plan \in SelectDueEntities(startedAt[r], Min({EntityLimit, EntityCapacity})) :
          /\ [run[r] EXCEPT !.stage = "entities", !.work = RequestsFor(plan)] \in RunStates
          /\ run' = [run EXCEPT ![r] = [run[r] EXCEPT !.stage = "entities",
                                                      !.work = RequestsFor(plan)]]
          /\ plan \in Seq(Entities)
    BY <1>11, PlansEntities
  <2>2. /\ run'[r].stage = "entities" /\ run'[r].work = RequestsFor(plan)
        /\ run'[r].pc = "next" /\ run[r].pc = "next" /\ run[r].stage = "discovery"
        /\ run[r].work = <<>>
    BY <1>0, <1>11, <2>1 DEF TypeInv, RunStates, PlanEntities, LoopDone
  <2>3. /\ Len(run'[r].work) = 2 * Len(plan) /\ Len(plan) <= EntityCapacity
        /\ Len(plan) \in Nat /\ EntityCapacity \in Nat
    BY <2>1, <2>2, EntityRequests, EntityPlan, EntityLimits, CapacityFits
  <2>4. Len(run[r].work) = 0
    BY <2>2
  <2>5. /\ observations' = observations /\ reservations' = reservations
    BY <1>11 DEF PlanEntities, rows, ledger
  <2>6. Own(r)' = Own(r) /\ Consumed(r)' = Consumed(r)
    BY <2>5 DEF Own, ReservedBy, Consumed
  <2> QED
    BY <1>2, <2>2, <2>3, <2>4, <2>6 DEF InPlan, Left, Enough
<1>12. CASE PlanAddresses(r)
  <2>1. PICK plan \in SelectDueAddresses(startedAt[r], Min({AddressLimit, RemainingCapacity(Consumed(r))})) :
          /\ [run[r] EXCEPT !.stage = "addresses", !.work = AddressRequests(plan)] \in RunStates
          /\ run' = [run EXCEPT ![r] = [run[r] EXCEPT !.stage = "addresses",
                                                      !.work = AddressRequests(plan)]]
          /\ plan \in Seq(Addresses) /\ Len(AddressRequests(plan)) = Len(plan)
    BY <1>12, PlansAddresses
  <2>2. /\ run'[r].stage = "addresses" /\ run'[r].work = AddressRequests(plan)
        /\ run'[r].pc = "next" /\ run[r].pc = "next" /\ run[r].stage = "entities"
        /\ run[r].work = <<>>
    BY <1>0, <1>12, <2>1 DEF TypeInv, RunStates, PlanAddresses, LoopDone
  <2>3. /\ Len(run'[r].work) = Len(plan) /\ Len(plan) \in Nat
        /\ Consumed(r) <= Rpm => Len(plan) <= Rpm - Consumed(r)
        /\ ~ Consumed(r) <= Rpm => Len(plan) = 0
    <3>1. Len(plan) <= Min({AddressLimit, RemainingCapacity(Consumed(r))}) /\ Len(plan) \in Nat
      BY <2>1, AddressPlan, AddressLimits
    <3>2. Rpm \in Nat
      BY LimitsAssumption DEF LimitsAssumption
    <3> QED
      BY <1>2, <2>1, <2>2, <3>1, <3>2, AddressLimits
  <2>4. Len(run[r].work) = 0
    BY <2>2
  <2>5. /\ observations' = observations /\ reservations' = reservations
    BY <1>12 DEF PlanAddresses, rows, ledger
  <2>6. Own(r)' = Own(r) /\ Consumed(r)' = Consumed(r)
    BY <2>5 DEF Own, ReservedBy, Consumed
  <2>7. Own(r) <= Rpm /\ Own(r) <= Consumed(r) /\ Rpm \in Nat
    BY <1>2, <2>2, <2>4, EnoughFits, LimitsAssumption DEF InPlan, Left, LimitsAssumption
  <2> QED
    BY <1>2, <2>2, <2>3, <2>4, <2>6, <2>7 DEF InPlan, Left, Enough
<1> QED
  BY <1>1, <1>8, <1>9, <1>10, <1>11, <1>12, StepShape

\* The window is only short when it holds something of another run.
LEMMA ShortOfOthers ==
  ASSUME TypeInv, NEW r \in Runs, Paying(r), InPlan(r), RateLimited(r)
  PROVE  \E x \in InWindow(r) : x.run # r
<1>1. run[r].pc = "next" /\ run[r].work # <<>> /\ WindowUse(r) >= Rpm
  BY DEF RateLimited, Asking
<1>2. startedAt[r] # None
  BY <1>1 DEF TypeInv, Holding
<1>3. Len(run[r].work) \in Nat \ {0}
  BY <1>1, AtHand
<1>4. Own(r) < Rpm
  BY <1>1, <1>3, CountTypes, EnoughFits, LimitsAssumption DEF InPlan, Left, LimitsAssumption
<1>5. SUFFICES ASSUME \A x \in InWindow(r) : x.run = r PROVE FALSE
  OBVIOUS
<1>6. InWindow(r) = ReservedBy(r)
  BY <1>2, <1>5, OwnWindow DEF InWindow, ReservedBy
<1>7. WindowUse(r) = Own(r)
  BY <1>6 DEF WindowUse, Own
<1> QED
  BY <1>1, <1>4, <1>7, CountTypes, LimitsAssumption DEF LimitsAssumption

\* A step of a run keeps the invariant.
LEMMA WindowByStep ==
  ASSUME TypeInv, WindowInv, NEW r \in Runs, Step(r) \/ Die(r) PROVE WindowInv'
<1>1. Moves(r)
  BY StepMoves
<1>2. ASSUME NEW m \in Runs, Paying(m)' PROVE AsksOnce(m)' /\ InPlan(m)'
  <2>1. CASE m = r
    <3>1. Paying(r)
      BY <1>1, <1>2, <2>1, StepShape DEF Paying, Going, Moves, Reserves, Observes, Stays,
         Leaves, Blocks, Ends, Keeps, PlanEntities, PlanAddresses, LoopDone
    <3> QED
      BY <1>2, <2>1, <3>1, StepAsksOnce, StepInPlan DEF WindowInv
  <2>2. CASE m # r
    <3>1. Paying(m)
      BY <1>1, <1>2, <2>2 DEF Paying, Going, Moves
    <3> QED
      BY <1>1, <1>2, <2>2, <3>1, OthersCount DEF WindowInv
  <2> QED
    BY <2>1, <2>2
<1>3. ASSUME NEW m \in Runs, run'[m].refused PROVE \E x \in InWindow(m)' : x.run # m
  <2>1. InWindow(m) \subseteq InWindow(m)'
    BY <1>1 DEF InWindow, Moves, Grows
  <2>2. CASE run[m].refused
    BY <2>1, <2>2 DEF WindowInv, PlanFitsWindow
  <2>3. CASE ~ run[m].refused
    <3>1. m = r
      BY <1>1, <1>3, <2>3 DEF Moves
    <3>2. run[r] \in RunStates /\ run \in [Runs -> RunStates]
      BY DEF TypeInv
    <3>3. PlanEntities(r) => run'[r].refused = run[r].refused
      BY <3>2 DEF PlanEntities, RunStates
    <3>4. PlanAddresses(r) => run'[r].refused = run[r].refused
      BY <3>2 DEF PlanAddresses, RunStates
    <3>5. RateLimited(r)
      BY <1>3, <2>3, <3>1, <3>3, <3>4, StepShape DEF Reserves, Observes, Stays, Leaves, Blocks,
         Ends, Keeps
    <3>6. Paying(r)
      BY <1>1, <3>5 DEF Paying, RateLimited, Asking, TypeInv, Holding, Moves
    <3> QED
      BY <2>1, <3>1, <3>5, <3>6, ShortOfOthers DEF WindowInv
  <2> QED
    BY <2>2, <2>3
<1> QED
  BY <1>2, <1>3 DEF WindowInv, PlanFitsWindow

\* A run that starts keeps it: two requests fit.
LEMMA WindowByStart ==
  ASSUME TypeInv, WindowInv, NEW r \in Runs, Start(r) PROVE WindowInv'
<1>1. /\ startedAt[r] = None /\ run[r].pc = "idle"
      /\ \A o \in observations : o.run # r
      /\ \A x \in reservations : x.run # r
  BY DEF TypeInv, Holding, Start
<1>2. /\ run'[r].pc = "next" /\ run'[r].stage = "discovery" /\ run'[r].work = TwoRankings
      /\ ~ run'[r].refused
      /\ \A m \in Runs : m # r => run'[m] = run[m] /\ startedAt'[m] = startedAt[m]
      /\ UNCHANGED <<reservations, observations>>
  BY DEF Start, TypeInv, NoRun, rows
<1>3. ASSUME NEW m \in Runs, m # r, Paying(m)' PROVE AsksOnce(m)' /\ InPlan(m)'
  <2>1. Paying(m) /\ run'[m] = run[m]
    BY <1>2, <1>3 DEF Paying, Going
  <2>2. Observed(m)' = Observed(m) /\ Own(m)' = Own(m) /\ Consumed(m)' = Consumed(m)
        /\ Left(m)' = Left(m)
    BY <1>2, <2>1 DEF Observed, Own, ReservedBy, Consumed, Left
  <2> QED
    BY <2>1, <2>2 DEF WindowInv, AsksOnce, InPlan
<1>4. AsksOnce(r)'
  <2>1. Observed(r)' = {}
    BY <1>1, <1>2 DEF Observed
  <2> QED
    BY <1>2, <2>1 DEF AsksOnce, TwoRankings, Planned
<1>5. InPlan(r)'
  <2>1. Own(r)' = 0 /\ Consumed(r)' = 0
    <3>1. ReservedBy(r)' = {} /\ { o \in observations : o.run = r }' = {}
      BY <1>1, <1>2 DEF ReservedBy
    <3> QED
      BY <3>1, FS_EmptySet DEF Own, Consumed
  <2>2. Left(r)' = 2
    BY <1>2 DEF Left, TwoRankings
  <2> QED
    BY <1>2, <2>1, <2>2 DEF InPlan, Enough
<1>6. ASSUME NEW m \in Runs, run'[m].refused PROVE \E x \in InWindow(m)' : x.run # m
  <2>1. m # r /\ run[m].refused
    BY <1>2, <1>6
  <2>2. InWindow(m)' = InWindow(m)
    BY <1>1, <1>2, <2>1 DEF InWindow, TypeInv
  <2> QED
    BY <2>1, <2>2 DEF WindowInv, PlanFitsWindow
<1> QED
  BY <1>3, <1>4, <1>5, <1>6 DEF WindowInv, PlanFitsWindow

\* Every step keeps it.
LEMMA WindowStep == TypeInv /\ WindowInv /\ [Next]_vars => WindowInv'
<1> SUFFICES ASSUME TypeInv, WindowInv, [Next]_vars PROVE WindowInv'
  OBVIOUS
<1>1. CASE UNCHANGED <<ledger, rows, run, before>>
  <2>1. \A m \in Runs : /\ Paying(m)' <=> Paying(m)
                        /\ AsksOnce(m)' <=> AsksOnce(m)
                        /\ InPlan(m)' <=> InPlan(m)
    BY <1>1 DEF Paying, Going, AsksOnce, InPlan, Observed, Own, ReservedBy, Consumed, Left,
       ledger, rows
  <2>2. \A m \in Runs : InWindow(m)' = InWindow(m)
    BY <1>1 DEF InWindow, ledger
  <2> QED
    BY <1>1, <2>1, <2>2 DEF WindowInv, PlanFitsWindow
<1> QED
  BY <1>1, OutsideKeeps, WindowByStep, WindowByStart DEF Next

\* Whatever the limit, an entity or an address a run planned is refused by the
\* window only when the window holds requests of another run.
THEOREM PlanFits == Spec => []PlanFitsWindow
<1>1. Init => WindowInv
  BY DEF Init, WindowInv, PlanFitsWindow, Paying, Going, NoRun
<1>2. WindowInv => PlanFitsWindow
  BY DEF WindowInv
<1> QED
  BY <1>1, <1>2, TypeInvHolds, WindowStep, PTL DEF Spec
=============================================================================
