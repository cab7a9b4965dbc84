---------------------------- MODULE FetchRunProofs ----------------------------
(***************************************************************************)
(* Proofs about FetchRun for every queue and set of payloads, every limit  *)
(* and TTL, and any number of overlapping and dying runs.                  *)
(***************************************************************************)
EXTENDS FetchRun, FiniteSetTheorems, SequenceTheorems, TLAPS

-----------------------------------------------------------------------------
(***************************************************************************)
(* Lists                                                                   *)
(***************************************************************************)

\* A limit on what there is.
LEMMA Limited ==
  ASSUME NEW a \in Nat, NEW b \in Nat
  PROVE  Min({a, b}) \in Nat /\ Min({a, b}) <= a /\ Min({a, b}) <= b
<1>1. \E x \in {a, b} : \A y \in {a, b} : x <= y
  <2>1. a <= b \/ b <= a
    OBVIOUS
  <2> QED
    BY <2>1
<1>2. Min({a, b}) = CHOOSE x \in {a, b} : \A y \in {a, b} : x <= y
  BY DEF Min
<1> QED
  BY <1>1, <1>2

\* The rows a run works on.
LEMMA Lists ==
  ASSUME queue \subseteq Rows, NEW mode, NEW list \in SelectCandidates(mode)
  PROVE  /\ list \in Seq(Rows)
         /\ \A i \in 1..Len(list) : list[i] \in queue
<1> DEFINE due == { c \in { c \in queue : mode.scoped => c.sourced } :
                      mode.scoped /\ mode.override
                        => ~ Fresh(c.address, "discovery", DiscoveryTTL) }
           n == Min({Limit, Cardinality(due)})
<1>1. due \subseteq queue /\ IsFiniteSet(due)
  BY FS_Subset, RowsAssumption DEF RowsAssumption
<1>2. list \in [1..n -> due]
  BY DEF SelectCandidates, FirstOf
<1>3. Limit \in Nat /\ Cardinality(due) \in Nat
  BY <1>1, FS_CardinalityType, LimitsAssumption DEF LimitsAssumption
<1> HIDE DEF due
<1>4. n \in Nat
  BY <1>3, Limited, Zenon
<1> HIDE DEF n
<1>5. list \in Seq(due) /\ Len(list) = n
  BY <1>2, <1>4
<1> QED
  BY <1>1, <1>5

\* What a run may ask for an address.
LEMMA Profiled ==
  ASSUME NEW row
  PROVE  /\ SelectProfile(row) \in Profiles \cup {"fresh"}
         /\ SelectProfileOverride(row) \in Profiles \cup {"fresh"}
<1>1. SelectProfile(row) \in {"discovery", "detail", "fresh"}
  BY Zenon DEF SelectProfile
<1>2. SelectProfileOverride(row) \in {"discovery", "fresh"}
  BY Zenon DEF SelectProfileOverride
<1> QED
  BY <1>1, <1>2 DEF Profiles

\* A task is for its row, and asks for an address only if no earlier row names it.
LEMMA TasksOf ==
  ASSUME NEW list \in Seq(Rows), NEW mode, NEW i \in 1..Len(list)
  PROVE  /\ TaskFor(list, mode, i) \in Tasks
         /\ TaskFor(list, mode, i).row = list[i]
         /\ TaskFor(list, mode, i).profile \in Profiles =>
              /\ ~ IsDuplicate(list, i)
              /\ TaskFor(list, mode, i).profile
                   \in {SelectProfile(list[i]), SelectProfileOverride(list[i])}
<1> DEFINE p == IF IsDuplicate(list, i) THEN "duplicate"
                ELSE IF mode.override THEN SelectProfileOverride(list[i])
                ELSE SelectProfile(list[i])
<1>1. list[i] \in Rows
  OBVIOUS
<1>2. TaskFor(list, mode, i) = [row |-> list[i], profile |-> p]
  BY DEF TaskFor
<1>3. p \in Profiles \cup {"fresh", "duplicate"}
  BY Profiled, Zenon
<1>4. p \in Profiles => /\ ~ IsDuplicate(list, i)
                        /\ p \in {SelectProfile(list[i]), SelectProfileOverride(list[i])}
  BY Zenon DEF Profiles
<1> HIDE DEF p
<1> QED
  BY <1>1, <1>2, <1>3, <1>4 DEF Tasks

\* The places of the list an agenda has tasks for, in its order.
PlacesIn(list, mode, agenda) ==
  { places \in [1..Len(agenda) -> 1..Len(list)] :
      /\ \A k \in 1..Len(agenda) : agenda[k] = TaskFor(list, mode, places[k])
      /\ \A j, k \in 1..Len(agenda) : j # k => places[j] # places[k] }

\* An agenda holds a task for places of the list, each place once.
LEMMA AgendasOf ==
  ASSUME NEW list \in Seq(Rows), NEW mode, NEW agenda \in Agendas(list, mode)
  PROVE  agenda \in Seq(Tasks) /\ PlacesIn(list, mode, agenda) # {}
<1> DEFINE n == Min({Len(list), Cardinality(1..Len(list))})
<1>1. DOMAIN list = 1..Len(list) /\ Len(list) \in Nat
  OBVIOUS
<1>2. Cardinality(1..Len(list)) \in Nat
  BY <1>1, FS_Interval, FS_CardinalityType
<1>3. n \in Nat
  BY <1>1, <1>2, Limited, Zenon
<1>4. PICK places : /\ places \in [1..n -> 1..Len(list)]
                    /\ \A i, j \in 1..n : i < j => places[i] # places[j]
                    /\ agenda = [k \in DOMAIN places |-> TaskFor(list, mode, places[k])]
  <2> DEFINE earlier(i, j) == IF IsDuplicate(list, i) = IsDuplicate(list, j)
                                THEN i < j ELSE IsDuplicate(list, i)
  <2>1. PICK places \in FirstOf(DOMAIN list, earlier, Len(list)) :
          agenda = [k \in DOMAIN places |-> TaskFor(list, mode, places[k])]
    BY DEF Agendas
  <2>2. /\ places \in [1..n -> 1..Len(list)]
        /\ \A i, j \in 1..n : i < j => places[i] # places[j]
    <3> HIDE DEF earlier
    <3> QED
      BY <1>1, <2>1 DEF FirstOf
  <2> QED
    BY <2>1, <2>2
<1> HIDE DEF n
<1>5. agenda = [k \in 1..n |-> TaskFor(list, mode, places[k])]
  BY <1>4
<1>6. \A k \in 1..n : agenda[k] = TaskFor(list, mode, places[k]) /\ agenda[k] \in Tasks
  BY <1>4, <1>5, TasksOf
<1>7. agenda \in Seq(Tasks) /\ Len(agenda) = n
  BY <1>3, <1>5, <1>6
<1>8. \A j, k \in 1..n : j # k => places[j] # places[k]
  BY <1>3, <1>4
<1>9. places \in PlacesIn(list, mode, agenda)
  BY <1>4, <1>6, <1>7, <1>8 DEF PlacesIn
<1> QED
  BY <1>7, <1>9

-----------------------------------------------------------------------------
(***************************************************************************)
(* Types                                                                   *)
(***************************************************************************)

Labels == {"idle", "next", "ask", "store", "observe", "evidence", "complete", "attempt",
           "blocked", "over", "dead"}
RunStates == [pc: Labels, agenda: Seq(Tasks), response: Responses \cup {None},
              clean: BOOLEAN, selected: Nat]
Statuses == {"none", "running", "completed", "partial", "blocked"}

RowsOK ==
  /\ files \subseteq Payloads /\ payloadRows \subseteq Payloads
  /\ observations \subseteq [run: Runs, address: Addresses, profile: Profiles,
                             outcome: Outcomes, payload: Payloads \cup {None}]
  /\ evidence \subseteq [run: Runs, address: Addresses]
  /\ attempts \subseteq [run: Runs, row: Rows, outcome: AttemptOutcomes]

\* Between its reservation and its attempt a run has a task it asks for, and
\* from the answer on it has the answer.
InTurn == {"ask", "store", "observe", "evidence", "complete", "attempt"}
Answered == {"store", "observe", "evidence", "complete", "attempt"}

\* What the state of a run goes with.
Holding(r) ==
  /\ run[r].pc = "idle" <=> startedAt[r] = None
  /\ run[r].pc \in InTurn => run[r].agenda # <<>> /\ Task(r).profile \in Profiles
  /\ run[r].pc \in Answered => run[r].response \in Responses
  /\ run[r].pc = "store" => run[r].response.body # None
  /\ run[r].pc = "evidence" => run[r].response.outcome = "success"
  /\ run[r].pc \in {"blocked", "over"} => run[r].agenda = <<>>

TypeInv ==
  /\ clock \in 0..MaxTime /\ queue \subseteq Rows
  /\ startedAt \in [Runs -> 0..MaxTime \cup {None}]
  /\ status \in [Runs -> Statuses]
  /\ reservations \subseteq [run: Runs, number: 1..Rpm] /\ IsFiniteSet(reservations)
  /\ open \subseteq Runs
  /\ run \in [Runs -> RunStates] /\ before \in [Runs -> SUBSET Runs]
  /\ RowsOK
  /\ \A r \in Runs : Holding(r)
  /\ \A o \in observations : startedAt[o.run] # None

Going(r) == run[r].pc \notin {"idle", "over", "dead"}

\* What a step of a run leaves alone: the other runs, what is fixed when a run
\* starts, and every row there is; the rows it adds are its own.
Grows(old, new, r) == old \subseteq new /\ \A x \in new : x \in old \/ x.run = r
Moves(r) ==
  /\ run' \in [Runs -> RunStates] /\ \A m \in Runs \ {r} : run'[m] = run[m]
  /\ Going(r) /\ run'[r].pc # "idle"
  /\ UNCHANGED <<clock, queue, startedAt, before>>
  /\ files \subseteq files' /\ payloadRows \subseteq payloadRows'
  /\ Grows(observations, observations', r) /\ Grows(evidence, evidence', r)
  /\ Grows(attempts, attempts', r)

\* A step of a run, its end included.
Step(r) ==
  \/ Skip(r) \/ Reserve(r) \/ RateLimited(r) \/ BudgetExhausted(r)
  \/ \E response \in Responses : Receive(r, response)
  \/ TokenMissing(r) \/ StorePayloadRow(r) \/ RecordObservation(r)
  \/ AppendEvidence(r) \/ CompleteReservation(r) \/ FinishTask(r)
  \/ CompleteRun(r) \/ Die(r)

\* An idle run has the state of a run.
LEMMA NoRunState == NoRun \in RunStates
<1>1. <<>> \in Seq(Tasks)
  OBVIOUS
<1> QED
  BY <1>1 DEF NoRun, RunStates, Labels

\* The task at hand, and what is left without it.
LEMMA AtHand ==
  ASSUME TypeInv, NEW r \in Runs, run[r].agenda # <<>>
  PROVE  /\ Task(r) \in Tasks /\ Task(r) = run[r].agenda[1]
         /\ Task(r).row \in Rows /\ Task(r).row.address \in Addresses
         /\ Tail(run[r].agenda) \in Seq(Tasks)
         /\ 1 \in 1..Len(run[r].agenda)
         /\ \A i \in 1..Len(Tail(run[r].agenda)) :
              /\ i + 1 \in 1..Len(run[r].agenda) /\ i + 1 # 1
              /\ Tail(run[r].agenda)[i] = run[r].agenda[i + 1]
<1>1. run[r].agenda \in Seq(Tasks)
  BY DEF TypeInv, RunStates
<1> DEFINE w == run[r].agenda
<1>2. w \in Seq(Tasks) /\ w # <<>>
  BY <1>1
<1>3. Task(r) = Head(w)
  BY DEF Task
<1> HIDE DEF w
<1>4. /\ Head(w) \in Tasks /\ Head(w) = w[1] /\ Tail(w) \in Seq(Tasks)
      /\ 1 \in 1..Len(w)
      /\ \A i \in 1..Len(Tail(w)) : /\ i + 1 \in 1..Len(w) /\ i + 1 # 1
                                    /\ Tail(w)[i] = w[i + 1]
  BY <1>2
<1>5. \A t \in Tasks : t.row \in Rows
  BY DEF Tasks
<1>6. \A row \in Rows : row.address \in Addresses
  BY RowsAssumption DEF RowsAssumption
<1> QED
  BY <1>3, <1>4, <1>5, <1>6 DEF w

\* The run is elsewhere with the same task.
LEMMA Goes ==
  ASSUME TypeInv, NEW r \in Runs, NEW pc \in Labels, Goto(r, pc)
  PROVE  /\ run' \in [Runs -> RunStates] /\ \A m \in Runs \ {r} : run'[m] = run[m]
         /\ run'[r].pc = pc /\ run'[r].agenda = run[r].agenda
         /\ run'[r].response = run[r].response
<1>2. run \in [Runs -> RunStates]
  BY DEF TypeInv
<1> QED
  BY <1>2 DEF Goto, RunStates, Labels

\* The attempt is there, and the run has the rest of its agenda before it.
LEMMA Records ==
  ASSUME TypeInv, NEW r \in Runs, NEW outcome \in AttemptOutcomes, run[r].agenda # <<>>,
         RecordAttempt(r, outcome)
  PROVE  /\ run' \in [Runs -> RunStates] /\ \A m \in Runs \ {r} : run'[m] = run[m]
         /\ run'[r].pc = "next" /\ run'[r].agenda = Tail(run[r].agenda)
         /\ attempts' = attempts \cup {[run |-> r, row |-> Task(r).row, outcome |-> outcome]}
         /\ attempts' \subseteq [run: Runs, row: Rows, outcome: AttemptOutcomes]
         /\ Grows(attempts, attempts', r)
<1> DEFINE s == [run[r] EXCEPT !.pc = "next", !.agenda = Tail(@), !.response = None,
                               !.clean = @ /\ outcome \in {"success", "skipped_fresh"}]
<1>1. Tail(run[r].agenda) \in Seq(Tasks) /\ Task(r).row \in Rows
  BY AtHand
<1>2. run \in [Runs -> RunStates] /\ run[r] \in RunStates
  BY DEF TypeInv
<1>3. run' = [run EXCEPT ![r] = s]
  BY <1>2 DEF RecordAttempt
<1>4. s \in RunStates /\ s.pc = "next" /\ s.agenda = Tail(run[r].agenda)
  BY <1>1, <1>2 DEF RunStates, Labels
<1> HIDE DEF s
<1>5. /\ run' \in [Runs -> RunStates] /\ \A m \in Runs \ {r} : run'[m] = run[m]
      /\ run'[r].pc = "next" /\ run'[r].agenda = Tail(run[r].agenda)
  BY <1>2, <1>3, <1>4
<1> DEFINE x == [run |-> r, row |-> Task(r).row, outcome |-> outcome]
<1>6. attempts' = attempts \cup {x} /\ x.run = r
  BY DEF RecordAttempt
<1>7. x \in [run: Runs, row: Rows, outcome: AttemptOutcomes]
  BY <1>1
<1>8. attempts \subseteq [run: Runs, row: Rows, outcome: AttemptOutcomes]
  BY DEF TypeInv, RowsOK
<1>9. attempts' = attempts \cup {[run |-> r, row |-> Task(r).row, outcome |-> outcome]}
  BY <1>6
<1> HIDE DEF x
<1> QED
  BY <1>5, <1>6, <1>7, <1>8, <1>9 DEF Grows

\* A step that moves a run keeps the types when its own rows and its own state
\* have theirs.
LEMMA MovesKeep ==
  ASSUME TypeInv, NEW r \in Runs, Moves(r), RowsOK', Holding(r)',
         reservations' \subseteq [run: Runs, number: 1..Rpm], IsFiniteSet(reservations)',
         open' \subseteq Runs, status' \in [Runs -> Statuses]
  PROVE  TypeInv'
<1>1. \A m \in Runs : Holding(m)'
  <2> SUFFICES ASSUME NEW m \in Runs, m # r PROVE Holding(m)'
    OBVIOUS
  <2>1. Holding(m) /\ run'[m] = run[m] /\ startedAt'[m] = startedAt[m]
    BY DEF TypeInv, Moves
  <2> QED
    BY <2>1 DEF Holding, Task
<1>2. startedAt[r] # None
  BY DEF TypeInv, Holding, Moves, Going
<1>3. \A o \in observations' : startedAt'[o.run] # None
  BY <1>2 DEF TypeInv, Moves, Grows
<1>4. /\ clock' \in 0..MaxTime /\ queue' \subseteq Rows
      /\ startedAt' \in [Runs -> 0..MaxTime \cup {None}]
      /\ before' \in [Runs -> SUBSET Runs] /\ run' \in [Runs -> RunStates]
  BY DEF TypeInv, Moves
<1> QED
  BY <1>1, <1>3, <1>4 DEF TypeInv

-----------------------------------------------------------------------------
(***************************************************************************)
(* Every step keeps the types and moves one run                            *)
(***************************************************************************)

\* The run that starts has a list of rows and an agenda for it.
LEMMA Starts ==
  ASSUME TypeInv, NEW r \in Runs, NEW mode, Start(r, mode)
  PROVE  \E list \in SelectCandidates(mode) : \E agenda \in Agendas(list, mode) :
           /\ list \in Seq(Rows) /\ agenda \in Seq(Tasks)
           /\ run' \in [Runs -> RunStates] /\ \A m \in Runs \ {r} : run'[m] = run[m]
           /\ run'[r].pc = "next" /\ run'[r].agenda = agenda
           /\ startedAt' \in [Runs -> 0..MaxTime \cup {None}] /\ startedAt'[r] = clock
           /\ clock # None /\ \A m \in Runs \ {r} : startedAt'[m] = startedAt[m]
<1>0. PICK list \in SelectCandidates(mode) : \E agenda \in Agendas(list, mode) :
        run' = [run EXCEPT ![r] = [NoRun EXCEPT !.pc = "next", !.agenda = agenda,
                                                !.selected = Len(list)]]
  BY DEF Start
<1>1. PICK agenda \in Agendas(list, mode) :
        run' = [run EXCEPT ![r] = [NoRun EXCEPT !.pc = "next", !.agenda = agenda,
                                                !.selected = Len(list)]]
  BY <1>0
<1>2. list \in Seq(Rows)
  BY Lists DEF TypeInv
<1>3. agenda \in Seq(Tasks)
  BY <1>2, AgendasOf
<1> DEFINE s == [NoRun EXCEPT !.pc = "next", !.agenda = agenda, !.selected = Len(list)]
<1>4. s \in RunStates /\ s.pc = "next" /\ s.agenda = agenda
  <2>1. Len(list) \in Nat
    BY <1>2
  <2> QED
    BY <1>3, <2>1, NoRunState DEF NoRun, RunStates, Labels
<1>5. run' = [run EXCEPT ![r] = s] /\ run \in [Runs -> RunStates]
  BY <1>1 DEF TypeInv
<1> HIDE DEF s
<1>6. /\ startedAt' \in [Runs -> 0..MaxTime \cup {None}] /\ startedAt'[r] = clock
      /\ clock # None /\ \A m \in Runs \ {r} : startedAt'[m] = startedAt[m]
  BY NoneAssumption, LimitsAssumption DEF Start, TypeInv, NoneAssumption, LimitsAssumption
<1> QED
  BY <1>2, <1>3, <1>4, <1>5, <1>6

\* A run that starts keeps the types.
LEMMA StartKeeps == ASSUME TypeInv, NEW r \in Runs, NEW mode, Start(r, mode) PROVE TypeInv'
<1>1. /\ run' \in [Runs -> RunStates] /\ run'[r].pc = "next"
      /\ \A m \in Runs \ {r} : run'[m] = run[m]
      /\ startedAt' \in [Runs -> 0..MaxTime \cup {None}] /\ startedAt'[r] = clock
      /\ clock # None /\ \A m \in Runs \ {r} : startedAt'[m] = startedAt[m]
  BY Starts
<1>2. Holding(r)'
  BY <1>1 DEF Holding, InTurn, Answered
<1>3. ASSUME NEW m \in Runs, m # r PROVE Holding(m)'
  <2>1. Holding(m)
    BY DEF TypeInv
  <2> QED
    BY <1>1, <1>3, <2>1 DEF Holding, Task
<1>4. RowsOK' /\ \A o \in observations' : startedAt'[o.run] # None
  BY <1>1 DEF TypeInv, RowsOK, Start, store, tables
<1>5. before' \in [Runs -> SUBSET Runs] /\ status' \in [Runs -> Statuses]
  BY DEF TypeInv, Start, Statuses
<1> QED
  BY <1>1, <1>2, <1>3, <1>4, <1>5 DEF TypeInv, Start

\* Reserving a request: the number fits, for a run's own rows are in its window.
LEMMA ReserveMoves == ASSUME TypeInv, NEW r \in Runs, Reserve(r) PROVE Moves(r) /\ TypeInv'
<1>1. /\ run[r].pc = "next" /\ run[r].agenda # <<>> /\ Holding(r) /\ startedAt[r] # None
      /\ WindowUse(r) < Rpm /\ Task(r).profile \in Profiles
  BY DEF TypeInv, Holding, Reserve, Asking, At
<1>2. /\ run' \in [Runs -> RunStates] /\ \A m \in Runs \ {r} : run'[m] = run[m]
      /\ run'[r].pc = "ask" /\ run'[r].agenda = run[r].agenda
  BY Goes DEF Reserve, Labels
<1>3. Cardinality(ReservedBy(r)) + 1 \in 1..Rpm
  <2>1. ReservedBy(r) \subseteq InWindow(r)
    BY <1>1 DEF TypeInv, ReservedBy, InWindow
  <2>2. InWindow(r) \subseteq reservations /\ IsFiniteSet(reservations)
    BY DEF TypeInv, InWindow
  <2>3. /\ Cardinality(ReservedBy(r)) <= Cardinality(InWindow(r))
        /\ IsFiniteSet(ReservedBy(r)) /\ IsFiniteSet(InWindow(r))
    BY <2>1, <2>2, FS_Subset
  <2>4. Cardinality(ReservedBy(r)) \in Nat /\ Cardinality(InWindow(r)) \in Nat
    BY <2>3, FS_CardinalityType
  <2> QED
    BY <1>1, <2>3, <2>4, LimitsAssumption DEF LimitsAssumption, WindowUse
<1>4. PICK x \in [run: Runs, number: 1..Rpm] : reservations' = reservations \cup {x}
  <2> DEFINE x == [run |-> r, number |-> Cardinality(ReservedBy(r)) + 1]
  <2>1. x \in [run: Runs, number: 1..Rpm]
    BY <1>3
  <2>2. reservations' = reservations \cup {x}
    BY DEF Reserve
  <2> QED
    BY <2>1, <2>2, Zenon
<1>5. reservations' \subseteq [run: Runs, number: 1..Rpm] /\ IsFiniteSet(reservations)'
  <2>1. reservations \subseteq [run: Runs, number: 1..Rpm] /\ IsFiniteSet(reservations)
    BY DEF TypeInv
  <2> QED
    BY <1>4, <2>1, FS_AddElement
<1>6. RowsOK' /\ open' \subseteq Runs /\ status' \in [Runs -> Statuses]
  BY DEF TypeInv, RowsOK, Reserve, store, tables
<1>7. Moves(r)
  BY <1>1, <1>2 DEF Moves, Going, Grows, Reserve, store, tables, ghosts
<1>8. Holding(r)'
  BY <1>1, <1>2 DEF Holding, Reserve, Task, Answered
<1> QED
  BY <1>5, <1>6, <1>7, <1>8, MovesKeep

\* A step that ends a turn of the loop.
LEMMA RecordsMove ==
  ASSUME TypeInv, NEW r \in Runs, NEW outcome \in AttemptOutcomes, run[r].agenda # <<>>,
         Going(r), RecordAttempt(r, outcome),
         UNCHANGED <<clock, queue, ledger, store, observations, evidence, before>>
  PROVE  Moves(r) /\ TypeInv'
<1>1. /\ run' \in [Runs -> RunStates] /\ \A m \in Runs \ {r} : run'[m] = run[m]
      /\ run'[r].pc = "next" /\ Grows(attempts, attempts', r)
      /\ attempts' \subseteq [run: Runs, row: Rows, outcome: AttemptOutcomes]
  BY Records
<1>2. RowsOK'
  BY <1>1 DEF TypeInv, RowsOK, store
<1>3. Moves(r)
  BY <1>1 DEF Moves, Grows, store, ledger
<1>4. Holding(r)'
  BY <1>1 DEF TypeInv, Holding, Going, ledger, InTurn, Answered
<1> QED
  BY <1>2, <1>3, <1>4, MovesKeep DEF TypeInv, ledger

\* How a turn of the loop ends, and with which outcome.
EndsTurn(r, outcome) ==
  /\ run[r].agenda # <<>> /\ RecordAttempt(r, outcome)
  /\ \/ run[r].pc = "next" /\ outcome \in AttemptOutcomes \ Outcomes
     \/ run[r].pc = "attempt" /\ outcome = run[r].response.outcome
  /\ UNCHANGED <<clock, queue, ledger, store, observations, evidence, before>>

\* Skipping, a refusal and the final attempt end a turn of the loop.
LEMMA TurnsEnd ==
  ASSUME TypeInv, NEW r \in Runs,
         Skip(r) \/ RateLimited(r) \/ BudgetExhausted(r) \/ FinishTask(r)
  PROVE  \E outcome \in AttemptOutcomes : EndsTurn(r, outcome)
<1>1. CASE Skip(r)
  <2> DEFINE outcome == IF Task(r).profile = "fresh" THEN "skipped_fresh" ELSE "deduplicated"
  <2>1. outcome \in AttemptOutcomes \ Outcomes
    BY DEF AttemptOutcomes, Outcomes
  <2>2. RecordAttempt(r, outcome)
    BY <1>1 DEF Skip
  <2> HIDE DEF outcome
  <2>3. EndsTurn(r, outcome)
    BY <1>1, <2>1, <2>2 DEF Skip, EndsTurn, At, ghosts
  <2> QED
    BY <2>1, <2>3
<1>2. CASE RateLimited(r)
  BY <1>2 DEF RateLimited, Asking, EndsTurn, At, ghosts, AttemptOutcomes, Outcomes
<1>3. CASE BudgetExhausted(r)
  BY <1>3 DEF BudgetExhausted, Asking, EndsTurn, At, AttemptOutcomes, Outcomes
<1>4. CASE FinishTask(r)
  <2> DEFINE outcome == run[r].response.outcome
  <2>1. run[r].response \in Responses /\ run[r].agenda # <<>>
    BY <1>4 DEF TypeInv, Holding, FinishTask, At, Answered, InTurn
  <2>2. outcome \in AttemptOutcomes
    BY <2>1 DEF Responses, AttemptOutcomes
  <2>3. EndsTurn(r, outcome)
    BY <1>4, <2>1 DEF FinishTask, EndsTurn, At, ghosts
  <2> QED
    BY <2>2, <2>3
<1> QED
  BY <1>1, <1>2, <1>3, <1>4

\* The end of a turn keeps the types.
LEMMA EndsTurnMoves ==
  ASSUME TypeInv, NEW r \in Runs, NEW outcome \in AttemptOutcomes, EndsTurn(r, outcome)
  PROVE  Moves(r) /\ TypeInv'
BY RecordsMove DEF EndsTurn, Going

\* Receiving the answer and writing the file of its body.
LEMMA ReceiveMoves ==
  ASSUME TypeInv, NEW r \in Runs, NEW response \in Responses, Receive(r, response)
  PROVE  /\ Moves(r) /\ TypeInv' /\ run'[r].agenda = run[r].agenda
         /\ run'[r].response = response
         /\ run'[r].pc = IF response.body = None THEN "observe" ELSE "store"
<1>1. run[r].pc = "ask" /\ Holding(r) /\ run[r] \in RunStates /\ run \in [Runs -> RunStates]
  BY DEF TypeInv, Receive, At
<1> DEFINE pc == IF response.body = None THEN "observe" ELSE "store"
           s == [run[r] EXCEPT !.response = response, !.pc = pc]
<1>2. run' = [run EXCEPT ![r] = s]
  BY <1>1 DEF Receive
<1>3. s \in RunStates /\ s.pc = pc /\ s.agenda = run[r].agenda /\ s.response = response
  BY <1>1 DEF RunStates, Labels
<1>4. pc \in {"observe", "store"} /\ (pc = "store" => response.body # None)
  OBVIOUS
<1> HIDE DEF s, pc
<1>5. /\ run' \in [Runs -> RunStates] /\ \A m \in Runs \ {r} : run'[m] = run[m]
      /\ run'[r].pc = pc /\ run'[r].agenda = run[r].agenda /\ run'[r].response = response
  BY <1>1, <1>2, <1>3
<1>6. FilesOf(response) \subseteq Payloads
  BY DEF FilesOf, Responses
<1>7. RowsOK' /\ files \subseteq files'
  BY <1>6 DEF TypeInv, RowsOK, Receive, tables
<1>8. Moves(r)
  BY <1>1, <1>4, <1>5, <1>7 DEF Moves, Going, Grows, Receive, tables, ledger
<1>9. Holding(r)'
  BY <1>1, <1>4, <1>5 DEF Holding, Receive, ledger, Task, InTurn, Answered
<1> QED
  BY <1>5, <1>7, <1>8, <1>9, MovesKeep DEF TypeInv, Receive, ledger, pc

\* A missing token: nothing is left to ask.
LEMMA TokenMissingMoves ==
  ASSUME TypeInv, NEW r \in Runs, TokenMissing(r)
  PROVE  /\ Moves(r) /\ TypeInv' /\ run'[r].agenda = <<>> /\ run'[r].pc = "blocked"
<1>1. run[r].pc = "ask" /\ Holding(r) /\ run[r] \in RunStates /\ run \in [Runs -> RunStates]
  BY DEF TypeInv, TokenMissing, At
<1> DEFINE s == [run[r] EXCEPT !.pc = "blocked", !.agenda = <<>>, !.clean = FALSE]
<1>2. run' = [run EXCEPT ![r] = s]
  BY <1>1 DEF TokenMissing
<1>3. s \in RunStates /\ s.pc = "blocked" /\ s.agenda = <<>>
  <2>1. <<>> \in Seq(Tasks)
    OBVIOUS
  <2> QED
    BY <1>1, <2>1 DEF RunStates, Labels
<1> HIDE DEF s
<1>4. /\ run' \in [Runs -> RunStates] /\ \A m \in Runs \ {r} : run'[m] = run[m]
      /\ run'[r].pc = "blocked" /\ run'[r].agenda = <<>>
  BY <1>1, <1>2, <1>3
<1> DEFINE x == [run |-> r, row |-> Task(r).row, outcome |-> "blocked"]
<1>5. x \in [run: Runs, row: Rows, outcome: AttemptOutcomes] /\ x.run = r
  BY <1>1, AtHand DEF Holding, InTurn, AttemptOutcomes
<1>6. attempts' = attempts \cup {x}
  BY DEF TokenMissing
<1> HIDE DEF x
<1>7. RowsOK' /\ Grows(attempts, attempts', r)
  BY <1>5, <1>6 DEF TypeInv, RowsOK, Grows, TokenMissing, store
<1>8. Moves(r)
  BY <1>1, <1>4, <1>7 DEF Moves, Going, Grows, TokenMissing, store
<1>9. Holding(r)'
  BY <1>1, <1>4 DEF Holding, TokenMissing, InTurn, Answered
<1> QED
  BY <1>4, <1>7, <1>8, <1>9, MovesKeep DEF TypeInv, TokenMissing

\* A step that writes and stays with its task.
LEMMA WritesMove ==
  ASSUME TypeInv, NEW r \in Runs, run[r].pc \in Answered,
         NEW pc \in {"observe", "evidence", "complete", "attempt"}, Goto(r, pc),
         pc = "evidence" => run[r].response.outcome = "success",
         RowsOK', UNCHANGED <<clock, queue, startedAt, status, reservations, before>>,
         open' \subseteq Runs, files \subseteq files', payloadRows \subseteq payloadRows',
         Grows(observations, observations', r), Grows(evidence, evidence', r),
         Grows(attempts, attempts', r)
  PROVE  /\ Moves(r) /\ TypeInv' /\ run'[r].pc = pc /\ run'[r].agenda = run[r].agenda
         /\ run'[r].response = run[r].response
<1>1. Holding(r) /\ Going(r)
  BY DEF TypeInv, Going, Answered
<1>2. /\ run' \in [Runs -> RunStates] /\ \A m \in Runs \ {r} : run'[m] = run[m]
      /\ run'[r].pc = pc /\ run'[r].agenda = run[r].agenda
      /\ run'[r].response = run[r].response
  BY Goes DEF Labels
<1>3. Moves(r)
  BY <1>1, <1>2 DEF Moves
<1>4. Holding(r)'
  BY <1>1, <1>2 DEF Holding, Task, InTurn, Answered
<1> QED
  BY <1>2, <1>3, <1>4, MovesKeep DEF TypeInv

\* The row a run records of its answer.
Observation(r) ==
  [run |-> r, address |-> Task(r).row.address, profile |-> Task(r).profile,
   outcome |-> run[r].response.outcome, payload |-> run[r].response.body]
EvidenceOf(r) == [run |-> r, address |-> Task(r).row.address]

\* The rows a run writes for an answer are well typed.
LEMMA OwnRows ==
  ASSUME TypeInv, NEW r \in Runs, run[r].pc \in Answered
  PROVE  /\ Observation(r) \in [run: Runs, address: Addresses, profile: Profiles,
                                outcome: Outcomes, payload: Payloads \cup {None}]
         /\ EvidenceOf(r) \in [run: Runs, address: Addresses]
<1>1. run[r].response \in Responses /\ run[r].agenda # <<>> /\ Task(r).profile \in Profiles
  BY DEF TypeInv, Holding, InTurn, Answered
<1> QED
  BY <1>1, AtHand DEF Observation, EvidenceOf, Responses

\* Registering the body.
LEMMA StoreMoves ==
  ASSUME TypeInv, NEW r \in Runs, StorePayloadRow(r)
  PROVE  /\ Moves(r) /\ TypeInv' /\ run'[r].pc = "observe" /\ run'[r].agenda = run[r].agenda
         /\ run'[r].response = run[r].response
<1>1. run[r].pc = "store" /\ Holding(r)
  BY DEF TypeInv, StorePayloadRow, At
<1>2. run[r].response.body \in Payloads
  BY <1>1 DEF Holding, Answered, Responses
<1>3. RowsOK' /\ payloadRows \subseteq payloadRows'
  BY <1>2 DEF TypeInv, RowsOK, StorePayloadRow, tables
<1>4. /\ UNCHANGED <<clock, queue, startedAt, status, reservations, before, files>>
      /\ Goto(r, "observe") /\ open' \subseteq Runs
  BY DEF TypeInv, StorePayloadRow, ledger, ghosts
<1>5. /\ Grows(observations, observations', r) /\ Grows(evidence, evidence', r)
      /\ Grows(attempts, attempts', r)
  BY DEF Grows, StorePayloadRow, tables
<1> QED
  BY <1>1, <1>3, <1>4, <1>5, WritesMove DEF Answered

\* Recording the observation.
LEMMA ObservationMoves ==
  ASSUME TypeInv, NEW r \in Runs, RecordObservation(r)
  PROVE  /\ Moves(r) /\ TypeInv' /\ run'[r].agenda = run[r].agenda
         /\ run'[r].response = run[r].response
         /\ run'[r].pc = IF run[r].response.outcome = "success" THEN "evidence" ELSE "complete"
         /\ observations' = observations \cup {Observation(r)}
<1>1. run[r].pc = "observe" /\ run[r].pc \in Answered
  BY DEF RecordObservation, At, Answered
<1> DEFINE pc == IF run[r].response.outcome = "success" THEN "evidence" ELSE "complete"
<1>2. observations' = observations \cup {Observation(r)} /\ Goto(r, pc)
  BY DEF RecordObservation, Observation
<1>3. /\ pc \in {"observe", "evidence", "complete", "attempt"}
      /\ pc = "evidence" => run[r].response.outcome = "success"
  OBVIOUS
<1>4. RowsOK' /\ Grows(observations, observations', r)
  BY <1>1, <1>2, OwnRows DEF TypeInv, RowsOK, RecordObservation, store, Grows, Observation
<1>5. /\ UNCHANGED <<clock, queue, startedAt, status, reservations, before, files, payloadRows>>
      /\ open' \subseteq Runs
      /\ Grows(evidence, evidence', r) /\ Grows(attempts, attempts', r)
  BY DEF TypeInv, RecordObservation, ledger, ghosts, Grows, store
<1> HIDE DEF pc
<1>6. /\ Moves(r) /\ TypeInv' /\ run'[r].agenda = run[r].agenda
      /\ run'[r].response = run[r].response /\ run'[r].pc = pc
  BY <1>1, <1>2, <1>3, <1>4, <1>5, WritesMove
<1> QED
  BY <1>2, <1>6 DEF pc

\* Appending the evidence.
LEMMA EvidenceMoves ==
  ASSUME TypeInv, NEW r \in Runs, AppendEvidence(r)
  PROVE  /\ Moves(r) /\ TypeInv' /\ run'[r].pc = "complete" /\ run'[r].agenda = run[r].agenda
         /\ run'[r].response = run[r].response
         /\ evidence' = evidence \cup {EvidenceOf(r)}
<1>1. run[r].pc = "evidence" /\ run[r].pc \in Answered
  BY DEF AppendEvidence, At, Answered
<1>2. evidence' = evidence \cup {EvidenceOf(r)} /\ Goto(r, "complete")
  BY DEF AppendEvidence, EvidenceOf
<1>3. RowsOK' /\ Grows(evidence, evidence', r)
  BY <1>1, <1>2, OwnRows DEF TypeInv, RowsOK, AppendEvidence, store, Grows, EvidenceOf
<1>4. /\ UNCHANGED <<clock, queue, startedAt, status, reservations, before, files, payloadRows>>
      /\ open' \subseteq Runs
      /\ Grows(observations, observations', r) /\ Grows(attempts, attempts', r)
  BY DEF TypeInv, AppendEvidence, ledger, ghosts, Grows, store
<1> QED
  BY <1>1, <1>2, <1>3, <1>4, WritesMove

\* Completing the reservation.
LEMMA CompletionMoves ==
  ASSUME TypeInv, NEW r \in Runs, CompleteReservation(r)
  PROVE  /\ Moves(r) /\ TypeInv' /\ run'[r].pc = "attempt" /\ run'[r].agenda = run[r].agenda
         /\ run'[r].response = run[r].response
<1>1. run[r].pc = "complete" /\ run[r].pc \in Answered /\ Goto(r, "attempt")
  BY DEF CompleteReservation, At, Answered
<1>2. RowsOK'
  BY DEF TypeInv, RowsOK, CompleteReservation, store, tables
<1>3. /\ UNCHANGED <<clock, queue, startedAt, status, reservations, before, files, payloadRows>>
      /\ open' \subseteq Runs
      /\ Grows(observations, observations', r) /\ Grows(attempts, attempts', r)
      /\ Grows(evidence, evidence', r)
  BY DEF TypeInv, CompleteReservation, ghosts, Grows, store, tables
<1> QED
  BY <1>1, <1>2, <1>3, WritesMove

\* The end of a run: it keeps the task it died in after the observation, and
\* the answer it had.
LEMMA EndsMove ==
  ASSUME TypeInv, NEW r \in Runs, CompleteRun(r) \/ Die(r)
  PROVE  /\ Moves(r) /\ TypeInv' /\ UNCHANGED <<store, tables>>
         /\ \/ /\ run[r].pc \in {"next", "blocked"} /\ run'[r].pc = "over"
               /\ run'[r].agenda = <<>>
            \/ /\ run'[r].pc = "dead"
               /\ run'[r].agenda = IF run[r].pc \in {"evidence", "complete", "attempt"}
                                     THEN <<Task(r)>> ELSE <<>>
               /\ run[r].pc # "next" => run'[r].response = run[r].response
<1>1. Going(r) /\ run \in [Runs -> RunStates] /\ run[r] \in RunStates /\ Holding(r)
      /\ NoRun \in RunStates
  BY NoRunState DEF TypeInv, CompleteRun, Die, At, Going
<1>2. PICK s \in RunStates :
        /\ run' = [run EXCEPT ![r] = s]
        /\ \/ run[r].pc \in {"next", "blocked"} /\ s.pc = "over" /\ s.agenda = <<>>
           \/ /\ s.pc = "dead"
              /\ s.agenda = IF run[r].pc \in {"evidence", "complete", "attempt"}
                              THEN <<Task(r)>> ELSE <<>>
              /\ run[r].pc # "next" => s.response = run[r].response
  <2>1. CASE CompleteRun(r)
    <3> DEFINE s == [NoRun EXCEPT !.pc = "over", !.selected = run[r].selected]
    <3>1. run' = [run EXCEPT ![r] = s] /\ run[r].pc \in {"next", "blocked"}
      BY <2>1 DEF CompleteRun, At
    <3>2. s \in RunStates /\ s.pc = "over" /\ s.agenda = <<>>
      BY <1>1 DEF NoRun, RunStates, Labels
    <3> QED
      BY <3>1, <3>2
  <2>2. CASE Die(r)
    <3> DEFINE w == IF run[r].pc \in {"evidence", "complete", "attempt"}
                      THEN <<Task(r)>> ELSE <<>>
               a == IF run[r].pc = "next" THEN None ELSE run[r].response
               s == [NoRun EXCEPT !.pc = "dead", !.agenda = w, !.response = a]
    <3>1. run' = [run EXCEPT ![r] = s]
      BY <2>2 DEF Die
    <3>2. w \in Seq(Tasks)
      <4>1. CASE run[r].pc \in {"evidence", "complete", "attempt"}
        BY <1>1, <4>1, AtHand DEF Holding, InTurn
      <4>2. CASE run[r].pc \notin {"evidence", "complete", "attempt"}
        BY <4>2
      <4> QED
        BY <4>1, <4>2
    <3>3. a \in Responses \cup {None} /\ (run[r].pc # "next" => a = run[r].response)
      BY <1>1 DEF RunStates
    <3>4. w = IF run[r].pc \in {"evidence", "complete", "attempt"} THEN <<Task(r)>> ELSE <<>>
      OBVIOUS
    <3> HIDE DEF w, a
    <3>5. s \in RunStates /\ s.pc = "dead" /\ s.agenda = w /\ s.response = a
      BY <1>1, <3>2, <3>3 DEF NoRun, RunStates, Labels
    <3> HIDE DEF s
    <3> QED
      BY <3>1, <3>3, <3>4, <3>5
  <2> QED
    BY <2>1, <2>2
<1>3. run' \in [Runs -> RunStates] /\ run'[r] = s /\ \A m \in Runs \ {r} : run'[m] = run[m]
  BY <1>1, <1>2
<1>4. UNCHANGED <<clock, queue, startedAt, reservations, open, store, tables, before>>
  BY DEF CompleteRun, Die, ledger, ghosts
<1>5. s.pc \in {"over", "dead"} /\ (s.pc = "over" => s.agenda = <<>>)
  BY <1>2
<1>6. Moves(r)
  BY <1>1, <1>3, <1>4, <1>5 DEF Moves, Grows, store, tables
<1>7. RowsOK'
  BY <1>4 DEF TypeInv, RowsOK, store, tables
<1>8. Holding(r)'
  BY <1>1, <1>3, <1>4, <1>5 DEF Holding, Going, InTurn, Answered
<1>9. status' \in [Runs -> Statuses]
  <2>1. FinalStatus(r) \in Statuses
    BY Zenon DEF FinalStatus, Statuses
  <2> QED
    BY <2>1 DEF TypeInv, CompleteRun, Die, ledger
<1>10. TypeInv'
  BY <1>4, <1>6, <1>7, <1>8, <1>9, MovesKeep DEF TypeInv
<1> QED
  BY <1>2, <1>3, <1>4, <1>6, <1>10

\* Every step of a run moves that run and keeps the types.
LEMMA StepMoves == ASSUME TypeInv, NEW r \in Runs, Step(r) PROVE Moves(r) /\ TypeInv'
BY ReserveMoves, TurnsEnd, EndsTurnMoves, ReceiveMoves, TokenMissingMoves, StoreMoves,
   ObservationMoves, EvidenceMoves, CompletionMoves, EndsMove DEF Step

\* What happens outside the runs.
LEMMA OutsideKeeps ==
  ASSUME TypeInv, Tick \/ UNCHANGED vars \/ \E batch \in SUBSET Rows : ImportCandidates(batch)
  PROVE  TypeInv' /\ UNCHANGED <<ledger, store, tables, run, before>>
<1>1. UNCHANGED <<ledger, store, tables, run, before>>
  BY DEF Tick, ImportCandidates, vars, ghosts
<1>2. clock' \in 0..MaxTime /\ queue' \subseteq Rows
  BY LimitsAssumption DEF Tick, ImportCandidates, vars, TypeInv, LimitsAssumption
<1>3. RowsOK'
  BY <1>1 DEF TypeInv, RowsOK, tables, store
<1>4. \A r \in Runs : Holding(r)'
  BY <1>1 DEF TypeInv, Holding, Task, ledger
<1> QED
  BY <1>1, <1>2, <1>3, <1>4 DEF TypeInv, ledger, tables

\* The empty database and idle runs satisfy the types.
LEMMA TypeInit == Init => TypeInv
<1> SUFFICES ASSUME Init PROVE TypeInv
  OBVIOUS
<1>1. /\ RowsOK /\ IsFiniteSet(reservations)
      /\ run \in [Runs -> RunStates] /\ before \in [Runs -> SUBSET Runs]
      /\ status \in [Runs -> Statuses]
  BY NoRunState, FS_EmptySet DEF Init, RowsOK, Statuses
<1>2. \A r \in Runs : Holding(r)
  BY DEF Init, Holding, NoRun, InTurn, Answered
<1>3. clock \in 0..MaxTime
  BY LimitsAssumption DEF Init, LimitsAssumption
<1> QED
  BY <1>1, <1>2, <1>3 DEF Init, TypeInv

\* The steps there are.
LEMMA Steps ==
  ASSUME [Next]_vars
  PROVE  \/ Tick \/ UNCHANGED vars \/ \E batch \in SUBSET Rows : ImportCandidates(batch)
         \/ \E r \in Runs : (\E mode \in Modes : Start(r, mode)) \/ Step(r)
BY DEF Next, Step

\* Every step keeps the types.
LEMMA TypeStep == TypeInv /\ [Next]_vars => TypeInv'
BY Steps, OutsideKeeps, StepMoves, StartKeeps

\* Types hold in every reachable state.
LEMMA TypeInvHolds == Spec => []TypeInv
BY TypeInit, TypeStep, PTL DEF Spec

\* The type invariant of the model, for every value of its constants.
THEOREM TypesHold == Spec => []TypeOK
<1>1. TypeInv => TypeOK
  <2> SUFFICES ASSUME TypeInv PROVE TypeOK
    OBVIOUS
  <2>1. ASSUME NEW r \in Runs
        PROVE  run[r].agenda \in Seq(Tasks) /\ run[r].response \in Responses \cup {None}
    BY DEF TypeInv, RunStates
  <2> QED
    BY <2>1 DEF TypeInv, TypeOK, RowsOK, Statuses
<1> QED
  BY <1>1, TypeInvHolds, PTL

\* A step of a run, as the lemmas above tell them apart.
LEMMA StepCases ==
  ASSUME TypeInv, NEW r \in Runs, Step(r)
  PROVE  \/ Reserve(r)
         \/ \E outcome \in AttemptOutcomes : EndsTurn(r, outcome)
         \/ \E response \in Responses : Receive(r, response)
         \/ TokenMissing(r) \/ StorePayloadRow(r) \/ RecordObservation(r)
         \/ AppendEvidence(r) \/ CompleteReservation(r) \/ CompleteRun(r) \/ Die(r)
BY TurnsEnd DEF Step

-----------------------------------------------------------------------------
(***************************************************************************)
(* Bodies are kept                                                         *)
(***************************************************************************)

\* What a run is about to register is on disk, and what it is about to record
\* is registered.
PayloadsInv ==
  /\ PayloadsKept
  /\ \A r \in Runs :
       /\ run[r].pc = "store" => run[r].response.body \in files
       /\ run[r].pc = "observe" => run[r].response.body \in payloadRows \cup {None}

\* A step that takes no part in this: it leaves what is kept alone, and if the
\* run was registering a body it remembers which.
ElsewhereForPayloads(r) ==
  /\ UNCHANGED <<files, payloadRows, observations>>
  /\ run'[r].pc \notin {"store", "observe"}
  /\ run[r].pc = "store" => run'[r].pc = "dead" /\ run'[r].response = run[r].response

\* The steps that matter to bodies.
LEMMA PayloadCases ==
  ASSUME TypeInv, NEW r \in Runs, Step(r)
  PROVE  \/ \E response \in Responses : Receive(r, response)
         \/ StorePayloadRow(r) \/ RecordObservation(r)
         \/ ElsewhereForPayloads(r)
<1>1. CASE Reserve(r)
  BY <1>1, Goes DEF Reserve, Asking, At, Labels, store, tables, ElsewhereForPayloads
<1>2. ASSUME NEW outcome \in AttemptOutcomes, EndsTurn(r, outcome)
      PROVE  ElsewhereForPayloads(r)
  BY <1>2, Records DEF EndsTurn, store, ElsewhereForPayloads
<1>3. CASE TokenMissing(r)
  BY <1>3, TokenMissingMoves DEF TokenMissing, At, store, ElsewhereForPayloads
<1>4. CASE AppendEvidence(r)
  BY <1>4, EvidenceMoves DEF AppendEvidence, At, store, ElsewhereForPayloads
<1>5. CASE CompleteReservation(r)
  BY <1>5, CompletionMoves DEF CompleteReservation, At, store, tables, ElsewhereForPayloads
<1>6. CASE CompleteRun(r) \/ Die(r)
  BY <1>6, EndsMove DEF store, tables, ElsewhereForPayloads
<1> QED
  BY <1>1, <1>2, <1>3, <1>4, <1>5, <1>6, StepCases

\* A step of a run keeps the invariant.
LEMMA PayloadsByStep ==
  ASSUME TypeInv, PayloadsInv, NEW r \in Runs, Step(r) PROVE PayloadsInv'
<1>0. /\ \A m \in Runs \ {r} : run'[m] = run[m]
      /\ files \subseteq files' /\ payloadRows \subseteq payloadRows' /\ Going(r)
  BY StepMoves DEF Moves
<1>1. ASSUME NEW m \in Runs, m # r
      PROVE  /\ run'[m].pc = "store" => run'[m].response.body \in files'
             /\ run'[m].pc = "observe" => run'[m].response.body \in payloadRows' \cup {None}
  BY <1>0, <1>1 DEF PayloadsInv
<1> DEFINE Registering(m, f) == /\ run[m].pc \in {"store", "dead"} /\ run[m].response # None
                                /\ run[m].response.body = f
<1>2. \A f \in files \ payloadRows : \E m \in Runs : Registering(m, f)
  BY DEF PayloadsInv, PayloadsKept
<1>3. \A m \in Runs \ {r} : \A f : Registering(m, f) => Registering(m, f)'
  BY <1>0
<1>4. \A f : Registering(r, f) => run[r].pc = "store"
  BY <1>0 DEF Going
<1>5. \A o \in observations : o.payload \in payloadRows' \cup {None}
  BY <1>0 DEF PayloadsInv, PayloadsKept
<1>6. payloadRows \subseteq files'
  BY <1>0 DEF PayloadsInv, PayloadsKept
<1>7. SUFFICES /\ \A o \in observations' : o.payload \in payloadRows' \cup {None}
               /\ payloadRows' \subseteq files'
               /\ \A f \in files' \ payloadRows' : \E m \in Runs : Registering(m, f)'
               /\ run'[r].pc = "store" => run'[r].response.body \in files'
               /\ run'[r].pc = "observe" => run'[r].response.body \in payloadRows' \cup {None}
  <2> HIDE DEF Registering
  <2>1. PayloadsKept'
    BY <1>7 DEF PayloadsKept, Registering
  <2> QED
    BY <1>1, <1>7, <2>1 DEF PayloadsInv
<1>8. ASSUME NEW response \in Responses, Receive(r, response)
      PROVE  /\ \A o \in observations' : o.payload \in payloadRows' \cup {None}
             /\ payloadRows' \subseteq files'
             /\ \A f \in files' \ payloadRows' : \E m \in Runs : Registering(m, f)'
             /\ run'[r].pc = "store" => run'[r].response.body \in files'
             /\ run'[r].pc = "observe" => run'[r].response.body \in payloadRows' \cup {None}
  <2>1. /\ run'[r].response = response /\ run[r].pc = "ask"
        /\ run'[r].pc = IF response.body = None THEN "observe" ELSE "store"
    BY <1>8, ReceiveMoves DEF Receive, At
  <2>2. files' = files \cup FilesOf(response) /\ UNCHANGED <<payloadRows, observations>>
    BY <1>8 DEF Receive, tables
  <2>3. response # None
    BY NoneAssumption DEF NoneAssumption
  <2>4. ASSUME NEW f \in files' \ payloadRows' PROVE \E m \in Runs : Registering(m, f)'
    <3>1. CASE f \in files
      <4>1. PICK m \in Runs : Registering(m, f)
        BY <1>2, <2>2, <2>4, <3>1
      <4>2. m # r
        BY <1>4, <2>1, <4>1
      <4> QED
        BY <1>3, <4>1, <4>2
    <3>2. CASE f \in FilesOf(response)
      <4>1. f = response.body /\ f # None
        BY <3>2 DEF FilesOf
      <4>2. Registering(r, f)'
        BY <2>1, <2>3, <4>1
      <4> QED
        BY <4>2
    <3> QED
      BY <2>2, <2>4, <3>1, <3>2
  <2> QED
    BY <1>5, <1>6, <2>1, <2>2, <2>4 DEF FilesOf
<1>9. CASE StorePayloadRow(r)
  <2>1. /\ run[r].pc = "store" /\ run'[r].pc = "observe" /\ run'[r].response = run[r].response
        /\ payloadRows' = payloadRows \cup {run[r].response.body}
        /\ UNCHANGED <<files, observations>>
    BY <1>9, StoreMoves DEF StorePayloadRow, At, tables
  <2>2. run[r].response.body \in files
    BY <2>1 DEF PayloadsInv
  <2>3. ASSUME NEW f \in files' \ payloadRows' PROVE \E m \in Runs : Registering(m, f)'
    <3>1. PICK m \in Runs : Registering(m, f)
      BY <1>2, <2>1, <2>3
    <3>2. m # r
      BY <2>1, <2>3, <3>1
    <3> QED
      BY <1>3, <3>1, <3>2
  <2> QED
    BY <1>5, <1>6, <2>1, <2>2, <2>3
<1>10. CASE RecordObservation(r)
  <2>1. /\ run[r].pc = "observe" /\ run'[r].pc \in {"evidence", "complete"}
        /\ observations' = observations \cup {Observation(r)}
        /\ UNCHANGED <<files, payloadRows>>
    BY <1>10, ObservationMoves DEF RecordObservation, At, store
  <2>2. Observation(r).payload \in payloadRows \cup {None}
    BY <2>1 DEF PayloadsInv, Observation
  <2>3. ASSUME NEW f \in files' \ payloadRows' PROVE \E m \in Runs : Registering(m, f)'
    <3>1. PICK m \in Runs : Registering(m, f)
      BY <1>2, <2>1, <2>3
    <3> QED
      BY <1>3, <1>4, <2>1, <3>1
  <2> QED
    BY <1>5, <1>6, <2>1, <2>2, <2>3
<1>11. CASE ElsewhereForPayloads(r)
  <2>1. ASSUME NEW f \in files' \ payloadRows' PROVE \E m \in Runs : Registering(m, f)'
    <3>1. PICK m \in Runs : Registering(m, f)
      BY <1>2, <1>11, <2>1 DEF ElsewhereForPayloads
    <3>2. CASE m = r
      BY <1>4, <1>11, <3>1, <3>2 DEF ElsewhereForPayloads
    <3> QED
      BY <1>3, <3>1, <3>2
  <2> QED
    BY <1>5, <1>6, <1>11, <2>1 DEF ElsewhereForPayloads
<1> HIDE DEF Registering
<1> QED
  BY <1>8, <1>9, <1>10, <1>11, PayloadCases

\* Every step keeps it.
LEMMA PayloadsStep == TypeInv /\ PayloadsInv /\ [Next]_vars => PayloadsInv'
<1> SUFFICES ASSUME TypeInv, PayloadsInv, [Next]_vars PROVE PayloadsInv'
  OBVIOUS
<1>1. ASSUME Tick \/ UNCHANGED vars \/ \E batch \in SUBSET Rows : ImportCandidates(batch)
      PROVE  PayloadsInv'
  BY <1>1, OutsideKeeps DEF PayloadsInv, PayloadsKept, store, tables
<1>2. ASSUME NEW r \in Runs, NEW mode, Start(r, mode) PROVE PayloadsInv'
  <2>1. /\ \A m \in Runs \ {r} : run'[m] = run[m]
        /\ run'[r].pc = "next"
    BY <1>2, Starts
  <2>2. startedAt[r] = None /\ Holding(r)
    BY <1>2 DEF Start, TypeInv
  <2>3. run[r].pc = "idle"
    BY <2>2 DEF Holding
  <2>4. UNCHANGED <<files, payloadRows, observations>>
    BY <1>2 DEF Start, store, tables
  <2>5. \A f \in files' \ payloadRows' : \E m \in Runs \ {r} :
          run[m].pc \in {"store", "dead"} /\ run[m].response # None /\ run[m].response.body = f
    BY <2>1, <2>4, <2>3 DEF PayloadsInv, PayloadsKept
  <2>6. \A f \in files' \ payloadRows' : \E m \in Runs :
          run'[m].pc \in {"store", "dead"} /\ run'[m].response # None /\ run'[m].response.body = f
    BY <2>1, <2>5
  <2>7. PayloadsKept'
    BY <2>4, <2>6 DEF PayloadsInv, PayloadsKept
  <2> QED
    BY <2>1, <2>4, <2>7 DEF PayloadsInv
<1> QED
  BY <1>1, <1>2, Steps, PayloadsByStep

\* No observation names a body that is not registered, no registered body is
\* not on disk, and an unregistered file has a run that was registering it.
THEOREM Kept == Spec => []PayloadsKept
<1>1. Init => PayloadsInv
  BY DEF Init, PayloadsInv, PayloadsKept, NoRun
<1>2. PayloadsInv => PayloadsKept
  BY DEF PayloadsInv
<1> QED
  BY <1>1, <1>2, TypeInvHolds, PayloadsStep, PTL DEF Spec

-----------------------------------------------------------------------------
(***************************************************************************)
(* Nothing is bought twice                                                 *)
(***************************************************************************)

\* The end of a turn: the observation is there, the attempt is not.
Recorded == {"evidence", "complete", "attempt"}

\* A run has at most one task that asks for an address, and has no answer yet
\* for what it is still to ask; the answer it has for the task at hand is the
\* one it remembers.
Asked(r, i) == run[r].agenda[i].profile \in Profiles
AddressAt(r, i) == run[r].agenda[i].row.address
AsksOnce(r) ==
  /\ \A i, j \in 1..Len(run[r].agenda) :
       Asked(r, i) /\ Asked(r, j) /\ AddressAt(r, i) = AddressAt(r, j) => i = j
  /\ \A o \in observations : \A i \in 1..Len(run[r].agenda) :
       o.run = r /\ Asked(r, i) /\ AddressAt(r, i) = o.address =>
         /\ i = 1 /\ run[r].pc \in Recorded \cup {"dead"}
         /\ o.outcome = run[r].response.outcome

\* A run decides what to ask when it starts and asks later.  What it looked at,
\* the rows of the runs that were over, cannot change in between; so asking is
\* as worthwhile when it is done as it was when it was decided.
Worth(r, address, profile) ==
  \A p \in observations : p.run \in before[r] /\ p.outcome = "success" /\ p.address = address =>
    /\ p.profile = "detail" => profile # "detail"
    /\ p.profile = "discovery" /\ profile = "discovery"
         => startedAt[r] - startedAt[p.run] >= DiscoveryTTL

BuyingInv ==
  /\ \A r \in Runs :
       /\ \A m \in before[r] : Over(m)
       /\ AsksOnce(r)
       /\ \A i \in 1..Len(run[r].agenda) :
            Asked(r, i) => Worth(r, AddressAt(r, i), run[r].agenda[i].profile)
  /\ \A o \in observations : Worth(o.run, o.address, o.profile)
  /\ \A o, p \in observations : o.address = p.address /\ o.run = p.run => o = p

\* What a run has before it after a step it had before it already, in the same
\* order; and in the turn of a recorded answer the answer stays.
LEMMA StepAgenda ==
  ASSUME TypeInv, NEW r \in Runs, Step(r)
  PROVE  \E shift \in {0, 1} :
           /\ \A i \in 1..Len(run'[r].agenda) :
                /\ i + shift \in 1..Len(run[r].agenda)
                /\ run'[r].agenda[i] = run[r].agenda[i + shift]
           /\ run[r].pc \in Recorded /\ shift = 0 /\ run'[r].agenda # <<>> =>
                /\ run'[r].pc \in Recorded \cup {"dead"}
                /\ run'[r].response = run[r].response
<1> DEFINE Follows(shift) ==
             /\ \A i \in 1..Len(run'[r].agenda) :
                  /\ i + shift \in 1..Len(run[r].agenda)
                  /\ run'[r].agenda[i] = run[r].agenda[i + shift]
             /\ run[r].pc \in Recorded /\ shift = 0 /\ run'[r].agenda # <<>> =>
                  /\ run'[r].pc \in Recorded \cup {"dead"}
                  /\ run'[r].response = run[r].response
<1>0. run[r].agenda \in Seq(Tasks) /\ Holding(r)
  BY DEF TypeInv, RunStates
<1>1. ASSUME run'[r].agenda = run[r].agenda,
             run[r].pc \in Recorded => /\ run'[r].pc \in Recorded \cup {"dead"}
                                       /\ run'[r].response = run[r].response
      PROVE  Follows(0)
  BY <1>0, <1>1
<1>2. CASE run'[r].agenda = <<>>
  <2>1. Follows(0)
    BY <1>2
  <2> QED
    BY <2>1
<1>3. CASE Reserve(r)
  <2>1. run'[r].agenda = run[r].agenda /\ run[r].pc = "next"
    BY <1>3, Goes DEF Reserve, Asking, At, Labels
  <2>2. Follows(0)
    BY <1>1, <2>1 DEF Recorded
  <2> QED
    BY <2>2
<1>4. ASSUME NEW outcome \in AttemptOutcomes, EndsTurn(r, outcome) PROVE Follows(1)
  <2>1. run[r].agenda # <<>> /\ run'[r].agenda = Tail(run[r].agenda)
    BY <1>4, Records DEF EndsTurn
  <2> QED
    BY <2>1, AtHand
<1>5. ASSUME NEW response \in Responses, Receive(r, response) PROVE Follows(0)
  <2>1. run'[r].agenda = run[r].agenda /\ run[r].pc = "ask"
    BY <1>5, ReceiveMoves DEF Receive, At
  <2> QED
    BY <1>1, <2>1 DEF Recorded
<1>6. CASE StorePayloadRow(r) \/ RecordObservation(r)
  <2>1. run'[r].agenda = run[r].agenda /\ run[r].pc \in {"store", "observe"}
    BY <1>6, StoreMoves, ObservationMoves DEF StorePayloadRow, RecordObservation, At
  <2>2. Follows(0)
    BY <1>1, <2>1 DEF Recorded
  <2> QED
    BY <2>2
<1>7. CASE AppendEvidence(r) \/ CompleteReservation(r)
  <2>1. /\ run'[r].agenda = run[r].agenda /\ run'[r].pc \in Recorded
        /\ run'[r].response = run[r].response
    BY <1>7, EvidenceMoves, CompletionMoves DEF Recorded
  <2>2. Follows(0)
    BY <1>1, <2>1
  <2> QED
    BY <2>2
<1>8. CASE (CompleteRun(r) \/ Die(r)) /\ run'[r].agenda # <<>>
  <2>1. /\ run[r].pc \in Recorded /\ run'[r].agenda = <<Task(r)>> /\ run'[r].pc = "dead"
        /\ run'[r].response = run[r].response
    BY <1>8, EndsMove DEF Recorded
  <2>2. run[r].agenda # <<>>
    BY <1>0, <2>1 DEF Holding, Recorded, InTurn
  <2>3. Task(r) = run[r].agenda[1] /\ 1 \in 1..Len(run[r].agenda)
    BY <2>2, AtHand
  <2>4. Follows(0)
    <3> SUFFICES ASSUME NEW i \in 1..Len(run'[r].agenda)
                 PROVE  i \in 1..Len(run[r].agenda) /\ run'[r].agenda[i] = run[r].agenda[i]
      BY <2>1
    <3>1. i = 1 /\ run'[r].agenda[1] = Task(r)
      BY <2>1
    <3> QED
      BY <2>3, <3>1
  <2> QED
    BY <2>4
<1> HIDE DEF Follows
<1>9. \E shift \in {0, 1} : Follows(shift)
  <2>1. TokenMissing(r) => run'[r].agenda = <<>>
    BY TokenMissingMoves
  <2> QED
    BY <1>2, <1>3, <1>4, <1>5, <1>6, <1>7, <1>8, <2>1, StepCases DEF Follows
<1> QED
  BY <1>9 DEF Follows

\* A step records an observation when the run is to record it.
LEMMA StepObserves ==
  ASSUME TypeInv, NEW r \in Runs, Step(r)
  PROVE  \/ observations' = observations
         \/ /\ run[r].pc = "observe" /\ run'[r].pc \in Recorded
            /\ run'[r].agenda = run[r].agenda /\ run'[r].response = run[r].response
            /\ observations' = observations \cup {Observation(r)}
<1>1. CASE RecordObservation(r)
  BY <1>1, ObservationMoves DEF RecordObservation, At, Recorded
<1>2. ~ RecordObservation(r) => observations' = observations
  BY StepCases DEF Reserve, EndsTurn, Receive, TokenMissing, StorePayloadRow, AppendEvidence,
                   CompleteReservation, CompleteRun, Die, tables
<1> QED
  BY <1>1, <1>2

\* Asking stays as worthwhile as it was.
LEMMA WorthStays ==
  ASSUME TypeInv, BuyingInv, NEW r \in Runs, Step(r), NEW m \in Runs, NEW a, NEW profile,
         Worth(m, a, profile)
  PROVE  Worth(m, a, profile)'
<1>1. Moves(r)
  BY StepMoves
<1>2. r \notin before[m]
  BY <1>1 DEF BuyingInv, Over, Moves, Going
<1>3. \A p \in observations' : p.run \in before'[m] => p \in observations /\ p.run \in before[m]
  BY <1>1, <1>2 DEF Moves, Grows
<1>4. UNCHANGED startedAt
  BY <1>1 DEF Moves
<1> QED
  BY <1>3, <1>4 DEF Worth

\* A run that is over stays so.
LEMMA OverStays ==
  ASSUME TypeInv, NEW r \in Runs, Step(r), NEW m \in Runs, Over(m) PROVE Over(m)'
<1>1. m # r /\ run'[m] = run[m]
  BY StepMoves DEF Moves, Over, Going
<1> QED
  BY <1>1 DEF Over

\* The observation a run is to record is of an address it has none of yet.
LEMMA NewObservation ==
  ASSUME TypeInv, BuyingInv, NEW r \in Runs, run[r].pc = "observe"
  PROVE  /\ 1 \in 1..Len(run[r].agenda) /\ Asked(r, 1) /\ Task(r) = run[r].agenda[1]
         /\ run[r].agenda # <<>>
         /\ \A o \in observations : o.run = r => o.address # Observation(r).address
<1>1. Holding(r) /\ AsksOnce(r)
  BY DEF TypeInv, BuyingInv
<1>2. run[r].agenda # <<>> /\ Task(r).profile \in Profiles
  BY <1>1 DEF Holding, InTurn
<1>3. Task(r) = run[r].agenda[1] /\ 1 \in 1..Len(run[r].agenda)
  BY <1>2, AtHand
<1>4. Asked(r, 1) /\ AddressAt(r, 1) = Observation(r).address
  BY <1>2, <1>3 DEF Asked, AddressAt, Observation
<1>5. run[r].pc \notin Recorded \cup {"dead"}
  BY DEF Recorded
<1> QED
  BY <1>1, <1>2, <1>3, <1>4, <1>5 DEF AsksOnce

\* A step of a run leaves every run with one task per address.
LEMMA AsksOnceStays ==
  ASSUME TypeInv, BuyingInv, NEW r \in Runs, Step(r), NEW m \in Runs PROVE AsksOnce(m)'
<1>0. Moves(r) /\ AsksOnce(m) /\ AsksOnce(r) /\ TypeInv'
  BY StepMoves DEF BuyingInv
<1>1. CASE m # r
  <2>1. run'[m] = run[m] /\ \A o \in observations' : o.run = m => o \in observations
    BY <1>0, <1>1 DEF Moves, Grows
  <2> QED
    BY <1>0, <2>1 DEF AsksOnce, Asked, AddressAt
<1>2. CASE m = r
  <2>1. PICK shift \in {0, 1} :
           /\ \A i \in 1..Len(run'[r].agenda) :
                /\ i + shift \in 1..Len(run[r].agenda)
                /\ run'[r].agenda[i] = run[r].agenda[i + shift]
           /\ run[r].pc \in Recorded /\ shift = 0 /\ run'[r].agenda # <<>> =>
                /\ run'[r].pc \in Recorded \cup {"dead"}
                /\ run'[r].response = run[r].response
    BY StepAgenda
  <2>2. \A i \in 1..Len(run'[r].agenda) :
          /\ i + shift \in 1..Len(run[r].agenda)
          /\ Asked(r, i)' <=> Asked(r, i + shift)
          /\ AddressAt(r, i)' = AddressAt(r, i + shift)
    BY <2>1 DEF Asked, AddressAt
  <2>3. ASSUME NEW i \in 1..Len(run'[r].agenda), NEW j \in 1..Len(run'[r].agenda),
               Asked(r, i)', Asked(r, j)', AddressAt(r, i)' = AddressAt(r, j)'
        PROVE  i = j
    <3>1. i + shift = j + shift
      BY <1>0, <2>2, <2>3 DEF AsksOnce
    <3> QED
      BY <2>1, <3>1
  <2>4. ASSUME NEW o \in observations', NEW i \in 1..Len(run'[r].agenda),
               o.run = r, Asked(r, i)', AddressAt(r, i)' = o.address
        PROVE  /\ i = 1 /\ run'[r].pc \in Recorded \cup {"dead"}
               /\ o.outcome = run'[r].response.outcome
    <3>1. CASE o \in observations
      <4>1. /\ i + shift = 1 /\ run[r].pc \in Recorded \cup {"dead"}
            /\ o.outcome = run[r].response.outcome
        BY <1>0, <2>2, <2>4, <3>1 DEF AsksOnce
      <4>2. i = 1 /\ shift = 0
        BY <2>1, <4>1
      <4>3. run[r].pc \in Recorded
        BY <1>0, <4>1 DEF Moves, Going
      <4>4. run'[r].agenda # <<>>
        OBVIOUS
      <4> QED
        BY <2>1, <4>1, <4>2, <4>3, <4>4
    <3>2. CASE o \notin observations
      <4>1. /\ run[r].pc = "observe" /\ run'[r].pc \in Recorded
            /\ run'[r].agenda = run[r].agenda /\ run'[r].response = run[r].response
            /\ o = Observation(r)
        BY <3>2, StepObserves
      <4>2. /\ 1 \in 1..Len(run[r].agenda) /\ Asked(r, 1) /\ Task(r) = run[r].agenda[1]
        BY <4>1, NewObservation
      <4>3. AddressAt(r, 1) = o.address /\ o.outcome = run[r].response.outcome
        BY <4>1, <4>2 DEF AddressAt, Observation
      <4>4. Asked(r, i) /\ AddressAt(r, i) = o.address /\ i \in 1..Len(run[r].agenda)
        BY <2>4, <4>1 DEF Asked, AddressAt
      <4>5. i = 1
        BY <1>0, <4>2, <4>3, <4>4 DEF AsksOnce
      <4> QED
        BY <4>1, <4>3, <4>5
    <3> QED
      BY <3>1, <3>2
  <2>5. AsksOnce(r)'
    BY <2>3, <2>4 DEF AsksOnce
  <2> QED
    BY <1>2, <2>5
<1> QED
  BY <1>1, <1>2

\* A step of a run keeps the invariant.
LEMMA BuyingByStep ==
  ASSUME TypeInv, BuyingInv, NEW r \in Runs, Step(r) PROVE BuyingInv'
<1>0. Moves(r)
  BY StepMoves
<1>1. ASSUME NEW m \in Runs, NEW q \in before'[m] PROVE Over(q)'
  <2>1. q \in before[m] /\ q \in Runs
    BY <1>0, <1>1 DEF Moves, TypeInv
  <2> QED
    BY <2>1, OverStays DEF BuyingInv
<1>2. ASSUME NEW m \in Runs, NEW i \in 1..Len(run'[m].agenda), Asked(m, i)'
      PROVE  Worth(m, AddressAt(m, i), run[m].agenda[i].profile)'
  <2>1. PICK j \in 1..Len(run[m].agenda) : run'[m].agenda[i] = run[m].agenda[j]
    <3>1. CASE m = r
      BY <1>2, <3>1, StepAgenda
    <3>2. CASE m # r
      BY <1>0, <3>2 DEF Moves
    <3> QED
      BY <3>1, <3>2
  <2>2. Asked(m, j)
    BY <1>2, <2>1 DEF Asked
  <2>3. Worth(m, AddressAt(m, j), run[m].agenda[j].profile)
    BY <2>2 DEF BuyingInv
  <2> DEFINE a == run[m].agenda[j].row.address
             p == run[m].agenda[j].profile
  <2>4. Worth(m, a, p)
    BY <2>3 DEF AddressAt
  <2>5. a = run'[m].agenda[i].row.address /\ p = run'[m].agenda[i].profile
    BY <2>1
  <2> HIDE DEF a, p
  <2>6. \A x, y : Worth(m, x, y) => Worth(m, x, y)'
    BY WorthStays
  <2>7. \A x \in {a}, y \in {p} : Worth(m, x, y)'
    BY <2>4, <2>6
  <2>8. \A x, y : x = AddressAt(m, i)' /\ y = run'[m].agenda[i].profile /\ Worth(m, x, y)'
                    => Worth(m, AddressAt(m, i), run[m].agenda[i].profile)'
    BY DEF Worth
  <2>9. a = AddressAt(m, i)'
    BY <2>5 DEF AddressAt
  <2> QED
    BY <2>5, <2>7, <2>8, <2>9
<1>3. ASSUME NEW o \in observations' PROVE Worth(o.run, o.address, o.profile)'
  <2>1. \A m \in Runs : \A x, y : Worth(m, x, y) => Worth(m, x, y)'
    BY WorthStays
  <2>2. o.run \in Runs
    BY StepMoves DEF TypeInv, RowsOK
  <2>3. Worth(o.run, o.address, o.profile)
    <3>1. CASE o \in observations
      BY <3>1 DEF BuyingInv
    <3>2. CASE o \notin observations
      <4>1. run[r].pc = "observe" /\ o = Observation(r)
        BY <3>2, StepObserves
      <4>2. Worth(r, AddressAt(r, 1), run[r].agenda[1].profile) /\ Task(r) = run[r].agenda[1]
        BY <4>1, NewObservation DEF BuyingInv
      <4> QED
        BY <4>1, <4>2 DEF AddressAt, Observation
    <3> QED
      BY <3>1, <3>2
  <2> QED
    BY <2>1, <2>2, <2>3
<1>4. ASSUME NEW o \in observations', NEW p \in observations', o.address = p.address,
             o.run = p.run
      PROVE  o = p
  <2>1. CASE o \in observations /\ p \in observations
    BY <1>4, <2>1 DEF BuyingInv
  <2>2. CASE ~ (o \in observations /\ p \in observations)
    <3>1. run[r].pc = "observe" /\ observations' = observations \cup {Observation(r)}
      BY <2>2, StepObserves
    <3>2. \A q \in observations : q.run = r => q.address # Observation(r).address
      BY <3>1, NewObservation
    <3>3. Observation(r).run = r
      BY DEF Observation
    <3> QED
      BY <1>4, <2>2, <3>1, <3>2, <3>3
  <2> QED
    BY <2>1, <2>2
<1> QED
  BY <1>1, <1>2, <1>3, <1>4, AsksOnceStays DEF BuyingInv

\* What a run selects to ask nobody got within its TTL.
LEMMA SelectedWorth ==
  ASSUME NEW row, NEW profile \in Profiles,
         profile \in {SelectProfile(row), SelectProfileOverride(row)}
  PROVE  /\ profile = "discovery" => ~ Fresh(row.address, "discovery", DiscoveryTTL)
         /\ profile = "detail" => Successes(row.address, "detail") = {}
<1>1. CASE profile = SelectProfileOverride(row)
  BY <1>1 DEF SelectProfileOverride, Profiles
<1>2. CASE profile = SelectProfile(row)
  <2>1. Successes(row.address, "discovery") = {} => ~ Fresh(row.address, "discovery", DiscoveryTTL)
    BY DEF Fresh
  <2> QED
    BY <1>2, <2>1 DEF SelectProfile, Profiles
<1> QED
  BY <1>1, <1>2

\* A run that starts keeps it: its list has an address once, and what it asks is worth it.
LEMMA BuyingByStart ==
  ASSUME TypeInv, BuyingInv, NEW r \in Runs, NEW mode, Start(r, mode) PROVE BuyingInv'
<1>1. PICK list \in SelectCandidates(mode) : \E agenda \in Agendas(list, mode) :
           /\ list \in Seq(Rows) /\ agenda \in Seq(Tasks)
           /\ \A m \in Runs \ {r} : run'[m] = run[m]
           /\ run'[r].pc = "next" /\ run'[r].agenda = agenda
           /\ startedAt'[r] = clock
           /\ clock # None /\ \A m \in Runs \ {r} : startedAt'[m] = startedAt[m]
  BY Starts
<1>2. PICK agenda \in Agendas(list, mode) :
           /\ list \in Seq(Rows) /\ agenda \in Seq(Tasks)
           /\ \A m \in Runs \ {r} : run'[m] = run[m]
           /\ run'[r].pc = "next" /\ run'[r].agenda = agenda
           /\ startedAt'[r] = clock
           /\ clock # None /\ \A m \in Runs \ {r} : startedAt'[m] = startedAt[m]
  BY <1>1
<1>3. PICK places \in [1..Len(agenda) -> 1..Len(list)] :
        /\ \A k \in 1..Len(agenda) : agenda[k] = TaskFor(list, mode, places[k])
        /\ \A j, k \in 1..Len(agenda) : j # k => places[j] # places[k]
  <2>1. PlacesIn(list, mode, agenda) # {}
    BY <1>2, AgendasOf
  <2> QED
    BY <2>1 DEF PlacesIn
<1>4. startedAt[r] = None /\ UNCHANGED observations
  BY DEF Start, tables
<1>5. run[r].pc = "idle" /\ ~ Over(r)
  BY <1>4 DEF TypeInv, Holding, Over
<1>6. \A o \in observations : o.run # r /\ o.run \in Runs
  BY <1>4 DEF TypeInv, RowsOK
<1>7. /\ before'[r] = { m \in Runs : Over(m) }
      /\ \A m \in Runs \ {r} : before'[m] = before[m]
      /\ \A m \in Runs : r \notin before'[m] /\ before'[m] \subseteq Runs
                         /\ \A q \in before'[m] : Over(q)
  BY <1>5 DEF Start, TypeInv, BuyingInv
<1>8. ASSUME NEW m \in Runs, NEW q \in before'[m] PROVE Over(q)'
  BY <1>2, <1>7, <1>8 DEF Over
<1>9. \A k \in 1..Len(agenda) :
        /\ agenda[k].row = list[places[k]]
        /\ agenda[k].profile \in Profiles =>
             /\ ~ IsDuplicate(list, places[k])
             /\ agenda[k].profile \in {SelectProfile(list[places[k]]),
                                       SelectProfileOverride(list[places[k]])}
  BY <1>2, <1>3, TasksOf
<1>10. ASSUME NEW m \in Runs PROVE AsksOnce(m)'
  <2>1. CASE m # r
    <3>1. run'[m] = run[m] /\ AsksOnce(m)
      BY <1>2, <2>1 DEF BuyingInv
    <3> QED
      BY <1>4, <3>1 DEF AsksOnce, Asked, AddressAt
  <2>2. CASE m = r
    <3>1. ASSUME NEW j \in 1..Len(agenda), NEW k \in 1..Len(agenda),
                 agenda[j].profile \in Profiles, agenda[k].profile \in Profiles,
                 agenda[j].row.address = agenda[k].row.address
          PROVE  j = k
      <4>1. /\ ~ IsDuplicate(list, places[j]) /\ ~ IsDuplicate(list, places[k])
            /\ list[places[j]].address = list[places[k]].address
        BY <1>9, <3>1
      <4>2. places[j] \in 1..Len(list) /\ places[k] \in 1..Len(list) /\ Len(list) \in Nat
        BY <1>2, <1>3
      <4>3. ~ places[j] < places[k] /\ ~ places[k] < places[j]
        BY <4>1, <4>2 DEF IsDuplicate
      <4>4. places[j] = places[k]
        BY <4>2, <4>3
      <4> QED
        BY <1>3, <4>4
    <3>2. AsksOnce(r)'
      BY <1>2, <1>4, <1>6, <3>1 DEF AsksOnce, Asked, AddressAt
    <3> QED
      BY <2>2, <3>2
  <2> QED
    BY <2>1, <2>2
<1>11. ASSUME NEW m \in Runs \ {r}, NEW x, NEW y, Worth(m, x, y) PROVE Worth(m, x, y)'
  <2>1. startedAt'[m] = startedAt[m] /\ before'[m] = before[m]
    BY <1>2, <1>7
  <2>2. \A p \in observations : startedAt'[p.run] = startedAt[p.run]
    BY <1>2, <1>6
  <2> QED
    BY <1>4, <1>11, <2>1, <2>2 DEF Worth
<1>12. ASSUME NEW m \in Runs, NEW i \in 1..Len(run'[m].agenda), Asked(m, i)'
       PROVE  Worth(m, AddressAt(m, i), run[m].agenda[i].profile)'
  <2> DEFINE a == run'[m].agenda[i].row.address
             p == run'[m].agenda[i].profile
  <2>1. \A x \in {a}, y \in {p} : Worth(m, x, y)'
    <3>1. CASE m # r
      <4>1. run'[m] = run[m]
        BY <1>2, <3>1
      <4>2. Asked(m, i) /\ i \in 1..Len(run[m].agenda)
        BY <1>12, <4>1 DEF Asked
      <4>3. Worth(m, run[m].agenda[i].row.address, run[m].agenda[i].profile)
        BY <4>2 DEF BuyingInv, AddressAt
      <4>4. a = run[m].agenda[i].row.address /\ p = run[m].agenda[i].profile
        BY <4>1
      <4> HIDE DEF a, p
      <4>5. Worth(m, a, p)
        BY <4>3, <4>4
      <4>6. \A x, y : Worth(m, x, y) => Worth(m, x, y)'
        BY <1>11, <3>1
      <4> QED
        BY <4>5, <4>6
    <3>2. CASE m = r
      <4>1. i \in 1..Len(agenda) /\ a = agenda[i].row.address /\ p = agenda[i].profile
            /\ p \in Profiles
        BY <1>2, <1>12, <3>2 DEF Asked
      <4> HIDE DEF a, p
      <4>2. /\ a = list[places[i]].address
            /\ p \in {SelectProfile(list[places[i]]), SelectProfileOverride(list[places[i]])}
        BY <1>9, <4>1
      <4>3. /\ p = "discovery" => ~ Fresh(a, "discovery", DiscoveryTTL)
            /\ p = "detail" => Successes(a, "detail") = {}
        BY <4>1, <4>2, SelectedWorth
      <4>4. ASSUME NEW o \in observations, o.outcome = "success", o.address = a
            PROVE  /\ o.profile = "detail" => p # "detail"
                   /\ o.profile = "discovery" /\ p = "discovery"
                        => startedAt'[r] - startedAt'[o.run] >= DiscoveryTTL
        <5>1. o.profile = "detail" => p # "detail"
          BY <4>3, <4>4 DEF Successes
        <5>2. o.profile = "discovery" /\ p = "discovery"
                => ~ (startedAt[o.run] + DiscoveryTTL > clock)
          BY <4>3, <4>4 DEF Successes, Fresh
        <5>3. /\ startedAt'[r] = clock /\ startedAt'[o.run] = startedAt[o.run]
              /\ clock \in Nat /\ startedAt[o.run] \in Nat /\ DiscoveryTTL \in Nat
          BY <1>2, <1>6, LimitsAssumption DEF TypeInv, LimitsAssumption
        <5> QED
          BY <5>1, <5>2, <5>3
      <4>5. \A x \in {a}, y \in {p} : Worth(r, x, y)'
        BY <1>4, <4>4 DEF Worth
      <4> QED
        BY <3>2, <4>5
    <3> QED
      BY <3>1, <3>2
  <2>2. a = AddressAt(m, i)' /\ p = run'[m].agenda[i].profile
    BY DEF AddressAt
  <2> HIDE DEF a, p
  <2>3. \A x, y : x = AddressAt(m, i)' /\ y = run'[m].agenda[i].profile /\ Worth(m, x, y)'
                    => Worth(m, AddressAt(m, i), run[m].agenda[i].profile)'
    BY DEF Worth
  <2> QED
    BY <2>1, <2>2, <2>3
<1>13. ASSUME NEW o \in observations' PROVE Worth(o.run, o.address, o.profile)'
  <2>1. o \in observations /\ o.run \in Runs \ {r} /\ Worth(o.run, o.address, o.profile)
    BY <1>4, <1>6 DEF BuyingInv
  <2> QED
    BY <1>11, <2>1
<1>14. \A o, p \in observations' : o.address = p.address /\ o.run = p.run => o = p
  BY <1>4 DEF BuyingInv
<1> QED
  BY <1>8, <1>10, <1>12, <1>13, <1>14 DEF BuyingInv

\* Every step keeps it.
LEMMA BuyingStep == TypeInv /\ BuyingInv /\ [Next]_vars => BuyingInv'
<1> SUFFICES ASSUME TypeInv, BuyingInv, [Next]_vars PROVE BuyingInv'
  OBVIOUS
<1>1. ASSUME Tick \/ UNCHANGED vars \/ \E batch \in SUBSET Rows : ImportCandidates(batch)
      PROVE  BuyingInv'
  <2>1. UNCHANGED <<ledger, store, tables, run, before>>
    BY <1>1, OutsideKeeps
  <2> QED
    BY <2>1 DEF BuyingInv, AsksOnce, Asked, AddressAt, Worth, Over, tables, ledger
<1> QED
  BY <1>1, Steps, BuyingByStep, BuyingByStart

\* It holds in every reachable state.
LEMMA BuyingHolds == Spec => []BuyingInv
<1>1. Init => BuyingInv
  BY DEF Init, BuyingInv, AsksOnce, NoRun
<1> QED
  BY <1>1, TypeInvHolds, BuyingStep, PTL DEF Spec

\* No run asks twice for an address, and none asks for a profile that a run
\* over when it started got within its TTL, or for detail that one has.
THEOREM NothingTwice == Spec => []NothingBoughtTwice
<1>1. TypeInv /\ BuyingInv => NothingBoughtTwice
  <2> SUFFICES ASSUME TypeInv, BuyingInv, NEW o \in observations, NEW p \in observations,
                      o.address = p.address
               PROVE  /\ o.run = p.run => o = p
                      /\ p.run \in before[o.run] /\ p.outcome = "success" =>
                           /\ p.profile = "detail" => o.profile # "detail"
                           /\ p.profile = "discovery" /\ o.profile = "discovery"
                                => startedAt[o.run] - startedAt[p.run] >= DiscoveryTTL
    BY DEF NothingBoughtTwice
  <2>1. Worth(o.run, o.address, o.profile)
    BY DEF BuyingInv
  <2> QED
    BY <2>1 DEF BuyingInv, Worth
<1> QED
  BY <1>1, TypeInvHolds, BuyingHolds, PTL

-----------------------------------------------------------------------------
(***************************************************************************)
(* Answers reach the ledgers                                               *)
(***************************************************************************)

\* The attempt and the evidence that an observation calls for are there.
AttemptOf(o) == \E t \in attempts : /\ t.run = o.run /\ t.row.address = o.address
                                    /\ t.outcome = o.outcome
Finished(o) == /\ AttemptOf(o)
               /\ o.outcome = "success" => [run |-> o.run, address |-> o.address] \in evidence

\* An observation that bears out an outcome for an address in a run.
Borne(r, address, outcome) ==
  \E o \in observations : o.run = r /\ o.address = address /\ o.outcome = outcome

LedgerInv ==
  /\ \A o \in observations : Unfinished(o) \/ Finished(o)
  /\ \A e \in evidence : Borne(e.run, e.address, "success")
  /\ \A t \in attempts : t.outcome \in Outcomes => Borne(t.run, t.row.address, t.outcome)
  /\ \A r \in Runs :
       /\ run[r].pc \in Recorded => Borne(r, Task(r).row.address, run[r].response.outcome)
       /\ run[r].pc \in {"complete", "attempt"} /\ run[r].response.outcome = "success"
            => EvidenceOf(r) \in evidence

\* A step that takes no part in this.
ElsewhereForLedgers(r) ==
  /\ UNCHANGED <<observations, evidence>>
  /\ \A t \in attempts' : t \in attempts \/ t.outcome \notin Outcomes
  /\ run[r].pc \notin Recorded /\ run'[r].pc \notin Recorded

\* The steps that matter to the ledgers.
LEMMA LedgerCases ==
  ASSUME TypeInv, NEW r \in Runs, Step(r)
  PROVE  \/ RecordObservation(r) \/ AppendEvidence(r) \/ CompleteReservation(r)
         \/ EndsTurn(r, run[r].response.outcome) /\ run[r].pc = "attempt"
         \/ Die(r) \/ ElsewhereForLedgers(r)
<1>1. CASE Reserve(r)
  BY <1>1, Goes DEF Reserve, Asking, At, Labels, tables, ElsewhereForLedgers, Recorded
<1>2. ASSUME NEW outcome \in AttemptOutcomes, EndsTurn(r, outcome), run[r].pc # "attempt"
      PROVE  ElsewhereForLedgers(r)
  BY <1>2, Records DEF EndsTurn, ElsewhereForLedgers, Recorded
<1>3. CASE TokenMissing(r)
  <2>1. /\ run[r].pc = "ask" /\ run'[r].pc = "blocked" /\ UNCHANGED <<observations, evidence>>
        /\ attempts' = attempts \cup {[run |-> r, row |-> Task(r).row, outcome |-> "blocked"]}
    BY <1>3, TokenMissingMoves DEF TokenMissing, At
  <2> QED
    BY <2>1 DEF ElsewhereForLedgers, Recorded, Outcomes
<1>4. ASSUME NEW response \in Responses, Receive(r, response) PROVE ElsewhereForLedgers(r)
  <2>1. run[r].pc = "ask" /\ run'[r].pc \in {"observe", "store"}
    BY <1>4, ReceiveMoves DEF Receive, At
  <2>2. UNCHANGED tables
    BY <1>4 DEF Receive
  <2> QED
    BY <2>1, <2>2 DEF tables, ElsewhereForLedgers, Recorded
<1>5. CASE StorePayloadRow(r)
  BY <1>5, StoreMoves DEF StorePayloadRow, At, tables, ElsewhereForLedgers, Recorded
<1>6. CASE CompleteRun(r)
  <2>1. run[r].pc \in {"next", "blocked"} /\ run'[r].pc \in {"over", "dead"}
    BY <1>6, EndsMove DEF CompleteRun, At
  <2> QED
    BY <1>6, <2>1 DEF CompleteRun, tables, ElsewhereForLedgers, Recorded
<1>7. ASSUME NEW outcome \in AttemptOutcomes, EndsTurn(r, outcome), run[r].pc = "attempt"
      PROVE  EndsTurn(r, run[r].response.outcome)
  BY <1>7 DEF EndsTurn
<1> QED
  BY <1>1, <1>2, <1>3, <1>4, <1>5, <1>6, <1>7, StepCases

\* What is there stays there.
LEMMA LedgersGrow ==
  ASSUME TypeInv, NEW r \in Runs, Step(r)
  PROVE  /\ \A o : Finished(o) => Finished(o)'
         /\ \A m, a, x : Borne(m, a, x) => Borne(m, a, x)'
         /\ \A m \in Runs \ {r} : run'[m] = run[m]
         /\ \A o \in observations' : o \in observations \/ o.run = r
         /\ evidence \subseteq evidence' /\ observations \subseteq observations'
         /\ Going(r)
<1>1. Moves(r)
  BY StepMoves
<1> QED
  BY <1>1 DEF Moves, Grows, Finished, AttemptOf, Borne

\* The observation of the task at hand has the outcome of the answer.
LEMMA OwnOutcome ==
  ASSUME TypeInv, BuyingInv, NEW r \in Runs, run[r].pc \in Recorded, NEW o \in observations,
         o.run = r, o.address = Task(r).row.address
  PROVE  o.outcome = run[r].response.outcome
<1>1. Holding(r) /\ AsksOnce(r)
  BY DEF TypeInv, BuyingInv
<1>2. run[r].agenda # <<>> /\ Task(r).profile \in Profiles
  BY <1>1 DEF Holding, InTurn, Recorded
<1>3. Task(r) = run[r].agenda[1] /\ 1 \in 1..Len(run[r].agenda)
  BY <1>2, AtHand
<1> QED
  BY <1>1, <1>2, <1>3 DEF AsksOnce, Asked, AddressAt

\* A step preserves the invariant if it does for the run that takes it: the
\* observations it leaves open, the rows it adds, and what it remembers.
LEMMA LedgerFrame ==
  ASSUME TypeInv, LedgerInv, NEW r \in Runs, Step(r),
         \A o \in observations' : o.run = r => Unfinished(o)' \/ Finished(o)',
         \A e \in evidence' : e \in evidence \/ Borne(e.run, e.address, "success")',
         \A t \in attempts' : t \in attempts \/ t.outcome \notin Outcomes
                                \/ Borne(t.run, t.row.address, t.outcome)',
         run'[r].pc \in Recorded => Borne(r, Task(r).row.address, run[r].response.outcome)',
         run'[r].pc \in {"complete", "attempt"} /\ run'[r].response.outcome = "success"
           => EvidenceOf(r)' \in evidence'
  PROVE  LedgerInv'
<1>1. /\ \A o : Finished(o) => Finished(o)'
      /\ \A m, a, x : Borne(m, a, x) => Borne(m, a, x)'
      /\ \A m \in Runs \ {r} : run'[m] = run[m]
      /\ \A o \in observations' : o \in observations \/ o.run = r
      /\ evidence \subseteq evidence'
  BY LedgersGrow
<1>2. TypeInv'
  BY StepMoves
<1>3. ASSUME NEW o \in observations' PROVE Unfinished(o)' \/ Finished(o)'
  <2>1. CASE o.run = r
    BY <2>1
  <2>2. CASE o.run # r
    <3>1. o.run \in Runs /\ run'[o.run] = run[o.run] /\ o \in observations
      BY <1>1, <1>2, <2>2 DEF TypeInv, RowsOK
    <3>2. Unfinished(o) \/ Finished(o)
      BY <3>1 DEF LedgerInv
    <3>3. Unfinished(o) => Unfinished(o)'
      BY <3>1 DEF Unfinished, Midway, Task
    <3> QED
      BY <1>1, <3>2, <3>3
  <2> QED
    BY <2>1, <2>2
<1>4. \A e \in evidence' : Borne(e.run, e.address, "success")'
  BY <1>1 DEF LedgerInv
<1>5. \A t \in attempts' : t.outcome \in Outcomes => Borne(t.run, t.row.address, t.outcome)'
  BY <1>1 DEF LedgerInv
<1>6. ASSUME NEW m \in Runs, m # r
      PROVE  /\ run'[m].pc \in Recorded
                  => Borne(m, Task(m).row.address, run[m].response.outcome)'
             /\ run'[m].pc \in {"complete", "attempt"} /\ run'[m].response.outcome = "success"
                  => EvidenceOf(m)' \in evidence'
  <2>1. run'[m] = run[m] /\ Task(m)' = Task(m) /\ EvidenceOf(m)' = EvidenceOf(m)
    BY <1>1, <1>6 DEF Task, EvidenceOf
  <2>2. run[m].pc \in Recorded => Borne(m, Task(m).row.address, run[m].response.outcome)
    BY DEF LedgerInv
  <2> DEFINE a == Task(m).row.address
             x == run[m].response.outcome
  <2>3. run[m].pc \in Recorded => \A b \in {a}, y \in {x} : Borne(m, b, y)'
    BY <1>1, <2>2
  <2>4. a = Task(m)'.row.address /\ x = run'[m].response.outcome
    BY <2>1
  <2> HIDE DEF a, x
  <2>5. \A b, y : b = Task(m)'.row.address /\ y = run'[m].response.outcome /\ Borne(m, b, y)'
          => Borne(m, Task(m).row.address, run[m].response.outcome)'
    BY DEF Borne
  <2>6. run'[m].pc \in {"complete", "attempt"} /\ run'[m].response.outcome = "success"
          => EvidenceOf(m)' \in evidence'
    BY <1>1, <2>1 DEF LedgerInv
  <2> QED
    BY <2>1, <2>3, <2>4, <2>5, <2>6
<1> QED
  BY <1>3, <1>4, <1>5, <1>6 DEF LedgerInv

\* Recording the observation keeps the invariant: its turn is unfinished.
LEMMA ObservedLedger ==
  ASSUME TypeInv, BuyingInv, LedgerInv, NEW r \in Runs, Step(r), RecordObservation(r)
  PROVE  LedgerInv'
<1>1. /\ run[r].pc = "observe" /\ run'[r].agenda = run[r].agenda
      /\ run'[r].response = run[r].response
      /\ run'[r].pc = IF run[r].response.outcome = "success" THEN "evidence" ELSE "complete"
      /\ observations' = observations \cup {Observation(r)}
      /\ UNCHANGED <<evidence, attempts>>
  BY ObservationMoves DEF RecordObservation, At
<1>2. run[r].agenda # <<>>
  BY <1>1, NewObservation
<1>3. Task(r)' = Task(r)
  BY <1>1 DEF Task
<1>4. ASSUME NEW o \in observations', o.run = r PROVE Unfinished(o)' \/ Finished(o)'
  <2>1. CASE o \in observations
    <3>1. ~ Unfinished(o)
      BY <1>1, <1>4 DEF Unfinished, Midway
    <3> QED
      BY <2>1, <3>1, LedgersGrow DEF LedgerInv
  <2>2. CASE o = Observation(r)
    <3>1. Unfinished(o)'
      BY <1>1, <1>2, <1>3, <2>2 DEF Unfinished, Midway, Observation
    <3> QED
      BY <3>1
  <2> QED
    BY <1>1, <2>1, <2>2
<1>5. Borne(r, Task(r).row.address, run[r].response.outcome)'
  <2>1. /\ Observation(r) \in observations' /\ Observation(r).run = r
        /\ Observation(r).address = Task(r)'.row.address
        /\ Observation(r).outcome = run'[r].response.outcome
    BY <1>1, <1>3 DEF Observation
  <2> QED
    BY <2>1 DEF Borne
<1> QED
  BY <1>1, <1>4, <1>5, LedgerFrame

\* Evidence and completion keep it: the observation is there.
LEMMA AppendedLedger ==
  ASSUME TypeInv, BuyingInv, LedgerInv, NEW r \in Runs, Step(r),
         AppendEvidence(r) \/ CompleteReservation(r)
  PROVE  LedgerInv'
<1>1. /\ run[r].pc \in Recorded /\ run'[r].agenda = run[r].agenda
      /\ run'[r].response = run[r].response
      /\ run'[r].pc \in Recorded
      /\ UNCHANGED <<observations, attempts>>
  BY EvidenceMoves, CompletionMoves DEF AppendEvidence, CompleteReservation, At, tables, Recorded
<1>2. run[r].agenda # <<>>
  BY <1>1 DEF TypeInv, Holding, InTurn, Recorded
<1>3. Task(r)' = Task(r) /\ EvidenceOf(r)' = EvidenceOf(r)
  BY <1>1 DEF Task, EvidenceOf
<1>4. ASSUME NEW o \in observations', o.run = r PROVE Unfinished(o)' \/ Finished(o)'
  <2>1. CASE Finished(o)
    BY <2>1, LedgersGrow
  <2>2. CASE Unfinished(o)
    <3>1. Unfinished(o)'
      BY <1>1, <1>3, <1>4, <2>2 DEF Unfinished, Midway, Recorded
    <3> QED
      BY <3>1
  <2> QED
    BY <1>1, <2>1, <2>2 DEF LedgerInv
<1>5. Borne(r, Task(r).row.address, run[r].response.outcome)'
  <2>1. Borne(r, Task(r).row.address, run[r].response.outcome)
    BY <1>1 DEF LedgerInv
  <2> QED
    BY <1>1, <1>3, <2>1 DEF Borne
<1>6. \A e \in evidence' : e \in evidence \/ Borne(e.run, e.address, "success")'
  <2>1. CASE CompleteReservation(r)
    BY <2>1 DEF CompleteReservation, tables
  <2>2. CASE AppendEvidence(r)
    <3>1. evidence' = evidence \cup {EvidenceOf(r)} /\ run[r].pc = "evidence"
      BY <2>2, EvidenceMoves DEF AppendEvidence, At
    <3>2. run[r].response.outcome = "success"
      BY <3>1 DEF TypeInv, Holding
    <3>3. Borne(r, Task(r).row.address, "success")
      BY <1>1, <3>2 DEF LedgerInv
    <3>4. Borne(EvidenceOf(r).run, EvidenceOf(r).address, "success")
      BY <3>3 DEF EvidenceOf
    <3>5. \A m, a, x : Borne(m, a, x) => Borne(m, a, x)'
      BY LedgersGrow
    <3>6. \A e \in {EvidenceOf(r)} : Borne(e.run, e.address, "success")'
      BY <3>4, <3>5
    <3> QED
      BY <3>1, <3>6
  <2> QED
    BY <2>1, <2>2
<1>7. run'[r].pc \in {"complete", "attempt"} /\ run'[r].response.outcome = "success"
           => EvidenceOf(r)' \in evidence'
  <2>1. CASE CompleteReservation(r)
    <3>1. run[r].pc = "complete" /\ UNCHANGED evidence
      BY <2>1 DEF CompleteReservation, At, tables
    <3> QED
      BY <1>1, <1>3, <3>1 DEF LedgerInv
  <2>2. CASE AppendEvidence(r)
    BY <1>3, <2>2, EvidenceMoves
  <2> QED
    BY <2>1, <2>2
<1> QED
  BY <1>1, <1>4, <1>5, <1>6, <1>7, LedgerFrame

\* The attempt keeps it: it finishes the observation of its turn.
LEMMA TurnLedger ==
  ASSUME TypeInv, BuyingInv, LedgerInv, NEW r \in Runs, Step(r),
         EndsTurn(r, run[r].response.outcome), run[r].pc = "attempt"
  PROVE  LedgerInv'
<1> DEFINE outcome == run[r].response.outcome
           x == [run |-> r, row |-> Task(r).row, outcome |-> outcome]
<1>1. run[r].response \in Responses /\ run[r].agenda # <<>>
  BY DEF TypeInv, Holding, InTurn, Answered
<1>2. outcome \in AttemptOutcomes
  BY <1>1 DEF Responses, AttemptOutcomes
<1>3. /\ run'[r].pc = "next" /\ attempts' = attempts \cup {x}
      /\ UNCHANGED <<observations, evidence>>
  BY <1>1, <1>2, Records DEF EndsTurn
<1>4. ASSUME NEW o \in observations', o.run = r PROVE Finished(o)'
  <2>1. CASE Finished(o)
    BY <2>1, LedgersGrow
  <2>2. CASE Unfinished(o)
    <3>1. o.address = Task(r).row.address /\ o \in observations
      BY <1>3, <1>4, <2>2 DEF Unfinished
    <3>2. o.outcome = outcome
      BY <1>4, <3>1, OwnOutcome DEF Recorded
    <3>3. AttemptOf(o)'
      <4>1. /\ x \in attempts' /\ x.run = o.run /\ x.row.address = o.address
            /\ x.outcome = o.outcome
        BY <1>3, <1>4, <3>1, <3>2
      <4> QED
        BY <4>1 DEF AttemptOf
    <3>4. o.outcome = "success" => EvidenceOf(r) \in evidence
      BY <3>2 DEF LedgerInv
    <3> QED
      BY <1>3, <1>4, <3>1, <3>3, <3>4 DEF Finished, EvidenceOf
  <2> QED
    BY <1>3, <2>1, <2>2 DEF LedgerInv
<1>5. \A t \in attempts' : t \in attempts \/ Borne(t.run, t.row.address, t.outcome)'
  <2>1. Borne(r, Task(r).row.address, outcome)
    BY DEF LedgerInv, Recorded
  <2>2. Borne(x.run, x.row.address, x.outcome)
    BY <2>1
  <2>3. \A t \in {x} : Borne(t.run, t.row.address, t.outcome)'
    BY <1>3, <2>2 DEF Borne
  <2> HIDE DEF x
  <2> QED
    BY <1>3, <2>3
<1>6. run'[r].pc \notin Recorded
  BY <1>3 DEF Recorded
<1> QED
  BY <1>3, <1>4, <1>5, <1>6, LedgerFrame DEF Recorded

\* A death keeps it: the run remembers the turn it died in.
LEMMA DeathLedger ==
  ASSUME TypeInv, BuyingInv, LedgerInv, NEW r \in Runs, Step(r), Die(r)
  PROVE  LedgerInv'
<1>1. /\ UNCHANGED <<observations, evidence, attempts>> /\ run'[r].pc \in {"over", "dead"}
      /\ run[r].pc \in Recorded => run'[r].pc = "dead" /\ run'[r].agenda = <<Task(r)>>
  BY EndsMove DEF Recorded, tables
<1>2. ASSUME NEW o \in observations', o.run = r PROVE Unfinished(o)' \/ Finished(o)'
  <2>1. CASE Finished(o)
    BY <2>1, LedgersGrow
  <2>2. CASE Unfinished(o)
    <3>1. run[r].pc \in Recorded /\ o.address = Task(r).row.address
      BY <1>2, <2>2, LedgersGrow DEF Unfinished, Midway, Going, Recorded
    <3>2. Task(r)' = Task(r) /\ run'[r].agenda # <<>>
      BY <1>1, <3>1 DEF Task
    <3>3. Unfinished(o)'
      BY <1>1, <1>2, <3>1, <3>2 DEF Unfinished, Midway
    <3> QED
      BY <3>3
  <2> QED
    BY <1>1, <2>1, <2>2 DEF LedgerInv
<1>3. run'[r].pc \notin Recorded
  BY <1>1 DEF Recorded
<1> QED
  BY <1>1, <1>2, <1>3, LedgerFrame DEF Recorded

\* A step of a run keeps it.
LEMMA LedgerByStep ==
  ASSUME TypeInv, BuyingInv, LedgerInv, NEW r \in Runs, Step(r) PROVE LedgerInv'
<1>1. CASE ElsewhereForLedgers(r)
  <2>1. ASSUME NEW o \in observations', o.run = r PROVE Finished(o)'
    <3>1. o \in observations /\ run[r].pc \notin Recorded /\ Going(r)
      BY <1>1, <2>1, LedgersGrow DEF ElsewhereForLedgers
    <3>2. ~ Unfinished(o)
      BY <2>1, <3>1 DEF Unfinished, Midway, Going, Recorded
    <3> QED
      BY <3>1, <3>2, LedgersGrow DEF LedgerInv
  <2>2. run'[r].pc \notin Recorded
    BY <1>1 DEF ElsewhereForLedgers
  <2> QED
    BY <1>1, <2>1, <2>2, LedgerFrame DEF ElsewhereForLedgers, Recorded
<1> QED
  BY <1>1, LedgerCases, ObservedLedger, AppendedLedger, TurnLedger, DeathLedger

\* Every step keeps it.
LEMMA LedgerStep == TypeInv /\ BuyingInv /\ LedgerInv /\ [Next]_vars => LedgerInv'
<1> SUFFICES ASSUME TypeInv, BuyingInv, LedgerInv, [Next]_vars PROVE LedgerInv'
  OBVIOUS
<1>1. ASSUME Tick \/ UNCHANGED vars \/ \E batch \in SUBSET Rows : ImportCandidates(batch)
      PROVE  LedgerInv'
  <2>1. UNCHANGED <<tables, run>>
    BY <1>1, OutsideKeeps
  <2> QED
    BY <2>1 DEF LedgerInv, Unfinished, Midway, Task, Finished, AttemptOf, Borne, EvidenceOf, tables
<1>2. ASSUME NEW r \in Runs, NEW mode, Start(r, mode) PROVE LedgerInv'
  <2>1. /\ \A m \in Runs \ {r} : run'[m] = run[m]
        /\ run'[r].pc = "next"
    BY <1>2, Starts
  <2>2. UNCHANGED tables /\ startedAt[r] = None
    BY <1>2 DEF Start
  <2>3. \A o \in observations : o.run \in Runs \ {r} /\ run'[o.run] = run[o.run]
    BY <2>1, <2>2 DEF TypeInv, RowsOK
  <2>4. \A o \in observations' : Unfinished(o)' \/ Finished(o)'
    BY <2>2, <2>3 DEF LedgerInv, Unfinished, Midway, Task, Finished, AttemptOf, tables
  <2>5. ASSUME NEW m \in Runs
        PROVE  /\ run'[m].pc \in Recorded
                  => Borne(m, Task(m).row.address, run[m].response.outcome)'
               /\ run'[m].pc \in {"complete", "attempt"} /\ run'[m].response.outcome = "success"
                  => EvidenceOf(m)' \in evidence'
    <3>1. CASE m = r
      BY <2>1, <3>1 DEF Recorded
    <3>2. CASE m # r
      BY <2>1, <2>2, <3>2 DEF LedgerInv, Borne, Task, EvidenceOf, tables
    <3> QED
      BY <3>1, <3>2
  <2> QED
    BY <2>2, <2>4, <2>5 DEF LedgerInv, Borne, tables
<1> QED
  BY <1>1, <1>2, Steps, LedgerByStep

\* Every observation but that of the turn a run is in, or died in, has its
\* attempt of the same outcome, and its evidence if the answer parsed; and no
\* evidence and no such attempt is there without its observation.
THEOREM AnswersReach == Spec => []AnswersReachLedgers
<1>1. Init => LedgerInv
  BY DEF Init, LedgerInv, NoRun, Recorded
<1>2. LedgerInv => AnswersReachLedgers
  BY DEF LedgerInv, AnswersReachLedgers, Finished, AttemptOf, Borne
<1> QED
  BY <1>1, <1>2, TypeInvHolds, BuyingHolds, LedgerStep, PTL DEF Spec
=============================================================================
