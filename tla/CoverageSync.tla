----------------------------- MODULE CoverageSync -----------------------------
(***************************************************************************)
(* coverage-sync: CoverageSyncService.run and the seeds it plans from.  A  *)
(* run asks for two rankings of entities, then for the detail and the      *)
(* predictions of each entity that is due, then for each address that is   *)
(* due, one request after the other.                                       *)
(*                                                                         *)
(* Every step below is one transaction or one request.  A run stamps all   *)
(* its rows with the instant it started.  Items are numbers because plans  *)
(* are sorted by identifier: entities, addresses, and the two rankings.    *)
(***************************************************************************)
EXTENDS Integers, FiniteSets, Sequences, Selection

CONSTANTS
  Entities, Addresses,
  RankingAt,     \* the entities a ranking lists for a run of that instant
  SeedOffers,    \* entity seeds an operator may import
  Candidates,    \* candidate_request: addresses with a priority
  Conflicted,    \* addresses of an active conflict_set
  Exhausted,     \* entities of coverage_entity_retry_exhaustion
  Rpm,           \* coverage_requests_per_minute
  EntityLimit, AddressLimit,
  EntityTTL, AddressTTL, Backoff,
  MaxRuns, MaxTime,  \* bounds: runs started, instants,
  MaxFaults,         \* answers that are not good, refused budgets, deaths
  None

ASSUME ItemsAssumption ==
  /\ Entities \subseteq Nat /\ IsFiniteSet(Entities)
  /\ Addresses \subseteq Nat /\ IsFiniteSet(Addresses)
  /\ RankingAt \in [0..MaxTime -> Seq(Entities)]
  /\ SeedOffers \subseteq [item: Entities, priority: 0..100]
  /\ Candidates \subseteq [item: Addresses, priority: 0..100]
  /\ Conflicted \subseteq Addresses /\ Exhausted \subseteq Entities
\* A request limit of one would refuse the second ranking.
ASSUME LimitsAssumption ==
  /\ Rpm \in Nat \ {0, 1} /\ EntityLimit \in Nat \ {0} /\ AddressLimit \in Nat \ {0}
  /\ {EntityTTL, AddressTTL, Backoff} \subseteq Nat \ {0}
  /\ {MaxRuns, MaxTime, MaxFaults} \subseteq Nat

Runs == 1..MaxRuns
Kinds == {"discovery", "detail", "predictions", "address"}
Requests == [kind: Kinds, item: Nat]
\* The outcomes of ZeroXRouterClient, and what the body of a success holds;
\* http_error, transport_error and rate_limited are treated alike.
Failures == {"failed"}
Terminal == {"parsed_success", "no_bitcoin_addresses"}
Answers == [outcome: Failures, body: {"empty"}]
             \cup [outcome: {"success"}, body: {"good", "no_addresses", "malformed", "empty"}]
ASSUME NoneAssumption == None \notin Nat \cup Answers

VARIABLES
  clock,
  seeds,        \* coverage_entity_seed
  startedAt, status,       \* ingestion_run
  reservations, open,      \* request_reservation; the runs with one not completed
  observations,            \* source_observation, with what the body holds
  entityRows,              \* coverage_entity_observation
  attempts,                \* coverage_entity_prediction_attempt
  entityParses,            \* coverage_entity_prediction_parse_result
  addressParses,           \* coverage_address_parse_result
  members, evidence,       \* coverage_entity_prediction, identity_evidence
  run,                     \* the memory of each run
  before,                  \* history: the runs that were over when it started
  faults                   \* how many of the faults have happened

ledger == <<startedAt, status, reservations, open>>
rows   == <<observations, entityRows, attempts, entityParses, addressParses, members, evidence>>
vars   == <<clock, seeds, ledger, rows, run, before, faults>>

\* clean: every outcome was a success; refused: the window refused a request.
NoRun == [pc |-> "idle", stage |-> "none", work |-> <<>>, answer |-> None,
          clean |-> TRUE, refused |-> FALSE]

TypeOK ==
  /\ clock \in 0..MaxTime /\ seeds \subseteq SeedOffers
  /\ startedAt \in [Runs -> 0..MaxTime \cup {None}]
  /\ status \in [Runs -> {"none", "running", "completed", "partial", "blocked"}]
  /\ reservations \subseteq [run: Runs, number: 1..Rpm] /\ open \subseteq Runs
  /\ \A p \in entityParses : p.outcome \in Terminal \cup {"malformed_payload"}
  /\ \A o \in observations : o.run \in Runs /\ o.request \in Requests /\ o.answer \in Answers
  /\ \A r \in Runs : /\ run[r].pc \in {"idle", "next", "ask", "close", "attempt", "parse",
                                       "write", "over", "dead"}
                     /\ run[r].stage \in {"none", "discovery", "entities", "addresses", "blocked"}
                     /\ run[r].work \in Seq(Requests)
                     /\ run[r].answer \in Answers \cup {None}

Init ==
  /\ clock = 0 /\ seeds = {}
  /\ startedAt = [r \in Runs |-> None] /\ status = [r \in Runs |-> "none"]
  /\ reservations = {} /\ open = {}
  /\ observations = {} /\ entityRows = {} /\ attempts = {} /\ entityParses = {}
  /\ addressParses = {} /\ members = {} /\ evidence = {}
  /\ run = [r \in Runs |-> NoRun] /\ before = [r \in Runs |-> {}] /\ faults = 0

-----------------------------------------------------------------------------
(***************************************************************************)
(* What is due                                                             *)
(***************************************************************************)

\* Mutant: the cutoff is the instant of the run.
RecentToday(row, at, ttl) == startedAt[row.run] > at - 1

Recent(row, at, ttl) == startedAt[row.run] > at - ttl

FreshDetail(at) == { e.item : e \in { x \in entityRows :
                       x.method = "entity_detail" /\ Recent(x, at, EntityTTL) } }
FreshPredictions(at) == { p.item : p \in { x \in entityParses :
                            x.outcome \in Terminal /\ Recent(x, at, EntityTTL) } }
CoolingDown(at) == { a.item : a \in { x \in attempts :
                       x.outcome \in Failures /\ Recent(x, at, Backoff) } }

DiscoveryPriority(rank) == Max({20, 70 - Min({rank - 1, 50})})

\* The rankings of this run are rows of the table by the time it plans, and
\* the best rank ever seen counts: the list in memory adds nothing to them.
EntityClaims(at) ==
  { [item |-> e, priority |-> 75] : e \in FreshDetail(at) \ FreshPredictions(at) }
    \cup { [item |-> x.item, priority |-> DiscoveryPriority(x.rank)] :
             x \in { y \in entityRows : y.method = "balance_changes" } }
    \cup seeds

DetailKnown == { x.item : x \in { y \in entityRows : y.method = "entity_detail" } }

DueEntities(at) ==
  ({ c.item : c \in EntityClaims(at) } \cup DetailKnown)
    \ ((FreshDetail(at) \cap FreshPredictions(at)) \cup CoolingDown(at) \cup Exhausted)

\* Mutant: an entity to complete has no priority of its own.
RankFirst(e, at) ==
  LET claimed == { c.priority : c \in { x \in EntityClaims(at) : x.item = e } }
  IN  IF claimed = {} THEN 75 ELSE Min(claimed)

\* An entity known by an old detail only counts as one to complete.
EntityPriority(e, at) ==
  LET claimed == { c.priority : c \in { x \in EntityClaims(at) : x.item = e } }
  IN  IF claimed = {} THEN 75 ELSE Max(claimed)

SelectDueEntities(at, limit) ==
  FirstOf(DueEntities(at),
          LAMBDA x, y : \/ EntityPriority(x, at) > EntityPriority(y, at)
                        \/ EntityPriority(x, at) = EntityPriority(y, at) /\ x < y,
          limit)

FreshAddresses(at) == { p.item : p \in { x \in addressParses :
                          x.outcome = "parsed_success" /\ Recent(x, at, AddressTTL) } }
DueAddresses(at) == ({ c.item : c \in Candidates } \cup Conflicted) \ FreshAddresses(at)

AddressPriority(a) ==
  Max({ c.priority : c \in { x \in Candidates : x.item = a } }
        \cup (IF a \in Conflicted THEN {100} ELSE {}))

\* Equals are taken by the age of their request, here by number.
SelectDueAddresses(at, limit) ==
  FirstOf(DueAddresses(at),
          LAMBDA x, y : \/ AddressPriority(x) > AddressPriority(y)
                        \/ AddressPriority(x) = AddressPriority(y) /\ x < y,
          limit)

\* Mutant: the requests for entities are not subtracted.
CapacityAfterDiscovery(consumed) == Max({0, Rpm - 2})

\* Two rankings, and at least one request left for an address.
EntityCapacity == Max({0, (Rpm - 2 - 1) \div 2})
RemainingCapacity(consumed) == Max({0, Rpm - consumed})

-----------------------------------------------------------------------------
(***************************************************************************)
(* A run                                                                   *)
(***************************************************************************)

ImportSeeds(batch) ==
  /\ ~ batch \subseteq seeds
  /\ seeds' = seeds \cup batch
  /\ UNCHANGED <<clock, ledger, rows, run, before, faults>>

Tick ==
  /\ clock < MaxTime /\ clock' = clock + 1
  /\ UNCHANGED <<seeds, ledger, rows, run, before, faults>>

Over(r) == run[r].pc \in {"over", "dead"}
TwoRankings == << [kind |-> "discovery", item |-> 1], [kind |-> "discovery", item |-> 2] >>

\* run, to create_run: the plan made before it is shown and forgotten.
Start(r) ==
  /\ startedAt[r] = None /\ (\A m \in 1..(r - 1) : startedAt[m] # None)
  /\ startedAt' = [startedAt EXCEPT ![r] = clock]
  /\ status' = [status EXCEPT ![r] = "running"]
  /\ run' = [run EXCEPT ![r] = [NoRun EXCEPT !.pc = "next", !.stage = "discovery",
                                             !.work = TwoRankings]]
  /\ before' = [before EXCEPT ![r] = { m \in Runs : Over(m) }]
  /\ UNCHANGED <<clock, seeds, reservations, open, rows, faults>>

Current(r) == Head(run[r].work)
Asking(r) == run[r].pc = "next" /\ run[r].work # <<>>
\* The run leaves its request; clean is what it then knows of its outcomes.
Advance(r, clean) ==
  run' = [run EXCEPT ![r].pc = "next", ![r].work = Tail(@), ![r].answer = None,
                     ![r].clean = @ /\ clean]
Goto(r, pc) == run' = [run EXCEPT ![r].pc = pc]

\* What goes wrong is bounded.
Fault == faults < MaxFaults /\ faults' = faults + 1
Good  == [outcome |-> "success", body |-> "good"]

\* The window counts what was reserved from this run's instant on.
InWindow(r) == { x \in reservations : startedAt[x.run] >= startedAt[r] }
WindowUse(r) == Cardinality(InWindow(r))
ReservedBy(r) == { x \in reservations : x.run = r }

Reserve(r) ==
  /\ Asking(r) /\ WindowUse(r) < Rpm
  /\ reservations' = reservations \cup
       {[run |-> r, number |-> Cardinality(ReservedBy(r)) + 1]}
  /\ open' = open \cup {r}
  /\ Goto(r, "ask")
  /\ UNCHANGED <<clock, seeds, startedAt, status, rows, before, faults>>

\* A refusal is counted among the outcomes, and the loop goes on.
RateLimited(r) ==
  /\ Asking(r) /\ WindowUse(r) >= Rpm
  /\ run' = [run EXCEPT ![r].work = Tail(@), ![r].clean = FALSE, ![r].refused = TRUE]
  /\ UNCHANGED <<clock, seeds, ledger, rows, before, faults>>

\* The byte budget of the run may be short once a body has been received.
BudgetExhausted(r) ==
  /\ Asking(r) /\ WindowUse(r) < Rpm
  /\ \E o \in observations : o.run = r /\ o.answer.body # "empty"
  /\ Advance(r, FALSE) /\ Fault
  /\ UNCHANGED <<clock, seeds, ledger, rows, before>>

\* Only predictions can be a list without Bitcoin addresses, and a ranking with
\* no body is one that is malformed.
Possible(request) ==
  { a \in Answers : /\ a.body = "no_addresses" => request.kind = "predictions"
                    /\ a.outcome = "success" /\ a.body = "empty" => request.kind # "discovery" }

\* _dispatch, to _record_observation.
Answer(r, answer) ==
  /\ run[r].pc = "ask" /\ answer \in Possible(Current(r))
  /\ IF answer = Good THEN UNCHANGED faults ELSE Fault
  /\ observations' = observations \cup {[run |-> r, request |-> Current(r), answer |-> answer]}
  /\ run' = [run EXCEPT ![r].pc = "close", ![r].answer = answer]
  /\ UNCHANGED <<clock, seeds, ledger, entityRows, attempts, entityParses, addressParses,
                 members, evidence, before>>

\* The token may be gone by now: the loop ends.
TokenMissing(r) ==
  /\ run[r].pc = "ask" /\ Fault
  /\ open' = open \ {r}
  /\ run' = [run EXCEPT ![r].pc = "next", ![r].stage = "blocked", ![r].work = <<>>]
  /\ UNCHANGED <<clock, seeds, startedAt, status, reservations, rows, before>>

\* What is done with an answer: what has no body is not parsed.
AfterDispatch(kind, answer) ==
  CASE kind = "predictions" -> "attempt"
    [] kind # "predictions" /\ answer.outcome = "success"
         /\ answer.body # "empty" -> "parse"
    [] OTHER -> "next"

\* quota.complete.
CompleteReservation(r) ==
  /\ run[r].pc = "close"
  /\ open' = open \ {r}
  /\ LET answer == run[r].answer
         clean  == answer.outcome = "success"
         then   == AfterDispatch(Current(r).kind, answer)
     IN  IF then = "next" THEN Advance(r, clean)
         ELSE run' = [run EXCEPT ![r].pc = then, ![r].clean = @ /\ clean]
  /\ UNCHANGED <<clock, seeds, startedAt, status, reservations, rows, before, faults>>

RecordPredictionAttempt(r) ==
  /\ run[r].pc = "attempt"
  /\ attempts' = attempts \cup
       {[run |-> r, item |-> Current(r).item, outcome |-> run[r].answer.outcome]}
  /\ IF run[r].answer.outcome = "success" /\ run[r].answer.body # "empty"
       THEN Goto(r, "parse") ELSE Advance(r, TRUE)
  /\ UNCHANGED <<clock, seeds, ledger, observations, entityRows, entityParses, addressParses,
                 members, evidence, before, faults>>

Parsing(r, kind) == run[r].pc = "parse" /\ Current(r).kind = kind
WellFormed(r) == run[r].answer.body \in {"good", "no_addresses"}

\* parse_discovery_entities and _record_entities, and the same for a detail.
ParseDiscovery(r) ==
  /\ Parsing(r, "discovery")
  /\ entityRows' = IF ~ WellFormed(r) THEN entityRows
                   ELSE LET ranking == RankingAt[startedAt[r]]
                        IN  entityRows \cup
                              { [run |-> r, item |-> ranking[i], rank |-> i,
                                 method |-> "balance_changes"] : i \in DOMAIN ranking }
  /\ Advance(r, WellFormed(r))
  /\ UNCHANGED <<clock, seeds, ledger, observations, attempts, entityParses, addressParses,
                 members, evidence, before, faults>>

ParseDetail(r) ==
  /\ Parsing(r, "detail")
  /\ entityRows' = IF ~ WellFormed(r) THEN entityRows
                   ELSE entityRows \cup { [run |-> r, item |-> Current(r).item, rank |-> None,
                                           method |-> "entity_detail"] }
  /\ Advance(r, WellFormed(r))
  /\ UNCHANGED <<clock, seeds, ledger, observations, attempts, entityParses, addressParses,
                 members, evidence, before, faults>>

PredictionOutcome(r) ==
  CASE run[r].answer.body = "good"         -> "parsed_success"
    [] run[r].answer.body = "no_addresses" -> "no_bitcoin_addresses"
    [] OTHER                               -> "malformed_payload"

\* The parse result is one transaction and what was parsed the next.
ParsePredictions(r) ==
  /\ Parsing(r, "predictions")
  /\ entityParses' = entityParses \cup
       {[run |-> r, item |-> Current(r).item, outcome |-> PredictionOutcome(r)]}
  /\ IF WellFormed(r) THEN Goto(r, "write") ELSE Advance(r, FALSE)
  /\ UNCHANGED <<clock, seeds, ledger, observations, entityRows, attempts, addressParses,
                 members, evidence, before, faults>>

ParseAddress(r) ==
  /\ Parsing(r, "address")
  /\ addressParses' = addressParses \cup
       {[run |-> r, item |-> Current(r).item,
         outcome |-> IF WellFormed(r) THEN "parsed_success" ELSE "malformed_payload"]}
  /\ IF WellFormed(r) THEN Goto(r, "write") ELSE Advance(r, FALSE)
  /\ UNCHANGED <<clock, seeds, ledger, observations, entityRows, attempts, entityParses,
                 members, evidence, before, faults>>

\* Mutant: a fingerprint without the observation makes a second answer a duplicate.
FiledOncePerItem(r) ==
  IF \E f \in members \cup evidence : f.item = Current(r).item
    THEN {} ELSE {[run |-> r, item |-> Current(r).item]}

Filed(r) == {[run |-> r, item |-> Current(r).item]}

RecordPredictions(r) ==
  /\ run[r].pc = "write" /\ Current(r).kind = "predictions"
  /\ members' = members \cup (IF run[r].answer.body = "good" THEN Filed(r) ELSE {})
  /\ Advance(r, TRUE)
  /\ UNCHANGED <<clock, seeds, ledger, observations, entityRows, attempts, entityParses,
                 addressParses, evidence, before, faults>>

AppendEvidence(r) ==
  /\ run[r].pc = "write" /\ Current(r).kind = "address"
  /\ evidence' = evidence \cup Filed(r)
  /\ Advance(r, TRUE)
  /\ UNCHANGED <<clock, seeds, ledger, observations, entityRows, attempts, entityParses,
                 addressParses, members, before, faults>>

LoopDone(r, stage) == run[r].pc = "next" /\ run[r].work = <<>> /\ run[r].stage = stage

\* Two requests for each entity.
RequestsFor(plan) ==
  [i \in 1..(2 * Len(plan)) |->
     [kind |-> IF i % 2 = 1 THEN "detail" ELSE "predictions", item |-> plan[(i + 1) \div 2]]]

PlanEntities(r) ==
  /\ LoopDone(r, "discovery")
  /\ \E plan \in SelectDueEntities(startedAt[r], Min({EntityLimit, EntityCapacity})) :
       run' = [run EXCEPT ![r].stage = "entities", ![r].work = RequestsFor(plan)]
  /\ UNCHANGED <<clock, seeds, ledger, rows, before, faults>>

\* What the run has asked for so far: refusals cost nothing.
Consumed(r) == Cardinality({ o \in observations : o.run = r })

PlanAddresses(r) ==
  /\ LoopDone(r, "entities")
  /\ LET limit == Min({AddressLimit, RemainingCapacity(Consumed(r))})
     IN  \E plan \in SelectDueAddresses(startedAt[r], limit) :
           run' = [run EXCEPT ![r].stage = "addresses",
                              ![r].work = [i \in DOMAIN plan |->
                                             [kind |-> "address", item |-> plan[i]]]]
  /\ UNCHANGED <<clock, seeds, ledger, rows, before, faults>>

CompleteRun(r) ==
  /\ LoopDone(r, "addresses") \/ LoopDone(r, "blocked")
  /\ status' = [status EXCEPT ![r] = IF run[r].stage = "blocked" THEN "blocked"
                                     ELSE IF run[r].clean THEN "completed" ELSE "partial"]
  /\ run' = [run EXCEPT ![r] = [NoRun EXCEPT !.pc = "over"]]
  /\ UNCHANGED <<clock, seeds, startedAt, reservations, open, rows, before, faults>>

\* A crash, or an exception nothing catches.  The request it was filing is
\* remembered for the properties.
Die(r) ==
  /\ run[r].pc \notin {"idle", "over", "dead"} /\ Fault
  /\ run' = [run EXCEPT ![r] = [NoRun EXCEPT !.pc = "dead",
                                  !.work = IF run[r].pc = "write" THEN <<Current(r)>> ELSE <<>>]]
  /\ UNCHANGED <<clock, seeds, ledger, rows, before>>

Step(r) ==
  \/ Reserve(r) \/ RateLimited(r) \/ BudgetExhausted(r)
  \/ \E answer \in Answers : Answer(r, answer)
  \/ TokenMissing(r) \/ CompleteReservation(r) \/ RecordPredictionAttempt(r)
  \/ ParseDiscovery(r) \/ ParseDetail(r)
  \/ ParsePredictions(r) \/ ParseAddress(r) \/ RecordPredictions(r) \/ AppendEvidence(r)
  \/ PlanEntities(r) \/ PlanAddresses(r) \/ CompleteRun(r)

Next ==
  \/ \E batch \in SUBSET SeedOffers : ImportSeeds(batch)
  \/ Tick
  \/ \E r \in Runs : Start(r) \/ Step(r) \/ Die(r)

Spec == Init /\ [][Next]_vars

-----------------------------------------------------------------------------
(***************************************************************************)
(* Properties                                                              *)
(***************************************************************************)

\* A parse result makes its address or entity fresh for everybody, so what was
\* parsed must be there: an address parsed has had its evidence appended, an
\* entity its memberships recorded, and nothing else has.  The window between
\* the two transactions (coverage.py:393) is open only for the request a run
\* is filing or died filing.
Filing(r) == run[r].pc \in {"write", "dead"} /\ run[r].work # <<>>
Unfiled(kind) == { [run |-> r, item |-> Current(r).item] :
                     r \in { x \in Runs : Filing(x) /\ Current(x).kind = kind } }
ParsedIn(parses) == { [run |-> p.run, item |-> p.item] :
                        p \in { x \in parses : x.outcome = "parsed_success" } }
ParsedIsFiled ==
  /\ evidence \subseteq ParsedIn(addressParses)
  /\ ParsedIn(addressParses) \subseteq evidence \cup Unfiled("address")
  /\ members \subseteq ParsedIn(entityParses)
  /\ ParsedIn(entityParses) \subseteq members \cup Unfiled("predictions")

\* A run never pays again for what an earlier run, over when it started, had
\* already settled: an address parsed within its TTL, an entity whose detail
\* and predictions are both within theirs, or an entity whose predictions
\* failed within the retry cooldown.
Age(o, row) == startedAt[o.run] - startedAt[row.run]
Settled(o, S) == { x \in S : x.run \in before[o.run] /\ x.item = o.request.item }
NothingBoughtTwice ==
  \A o \in observations :
    CASE o.request.kind = "address" ->
           \A p \in Settled(o, addressParses) :
             p.outcome = "parsed_success" => Age(o, p) >= AddressTTL
      [] o.request.kind \in {"detail", "predictions"} ->
           /\ \A p \in Settled(o, entityParses), d \in Settled(o, entityRows) :
                p.outcome \in Terminal /\ d.method = "entity_detail"
                  => Age(o, p) >= EntityTTL \/ Age(o, d) >= EntityTTL
           /\ \A a \in Settled(o, attempts) :
                a.outcome \in Failures => Age(o, a) >= Backoff
      [] OTHER -> TRUE

\* The plan of a run fits the request limit it runs under, whatever was
\* refused or failed on the way: its own window refuses a request only if
\* another run takes requests from the same window.
PlanFitsWindow ==
  \A r \in Runs : run[r].refused =>
    \E x \in InWindow(r) : x.run # r

\* An entity whose detail is fresh and whose predictions are missing is
\* planned ahead of every entity that is due for its rank alone, once its
\* cooldown is over: rankings that change cannot starve it
\* (docs/btc_identity_operations.md:514).
Incomplete(at) == (FreshDetail(at) \ FreshPredictions(at)) \ (CoolingDown(at) \cup Exhausted)
PlannedItems(r) == { run[r].work[i].item : i \in DOMAIN run[r].work }
RankedOnly(at) == Entities \ (DetailKnown \cup { s.item : s \in seeds })
RetriesGoFirst ==
  [][\A r \in Runs : run[r].stage = "discovery" /\ run'[r].stage = "entities" =>
       Incomplete(startedAt[r]) \subseteq PlannedItems(r)'
         \/ PlannedItems(r)' \cap RankedOnly(startedAt[r]) = {}]_vars
=============================================================================
