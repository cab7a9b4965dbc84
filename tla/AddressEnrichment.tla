-------------------------- MODULE AddressEnrichment --------------------------
(***************************************************************************)
(* BtcV2SAddressEnrichmentService.run: the paid address-enrichment         *)
(* campaign.  Operator-started runs share one SQLite database; each run    *)
(* reads its plan, binds the campaign, then per address reserves quota,    *)
(* claims the address, sends one provider request and records what came    *)
(* back.  Every database call is a transaction of its own, so runs         *)
(* interleave between any two of them and may die between any two of them. *)
(*                                                                         *)
(* Abstracted: addresses, entities, campaigns and campaign inputs are      *)
(* opaque; the order of the queue is any order; a response is its outcome, *)
(* its price, whether it parses and the entities it names; the rolling     *)
(* quota window is a reservation that may be refused at any time.          *)
(***************************************************************************)
EXTENDS Integers, FiniteSets

CONSTANTS
  Runs,            \* invocations of run(); an ingestion_run id is used once
  Campaigns,       \* campaign ids
  Addresses,       \* address ids
  Entities,        \* provider entity ids
  Inputs,          \* (queue manifest, cohort, point limit) triples
  RowsOf,          \* [Inputs -> the queue's rows of the cohort]
  DirectOf,        \* [Inputs -> rows in conflict or explicitly requested]
  PointLimit,      \* [Inputs -> campaign_point_limit]
  RequestLimit,    \* request_limit of a run
  MaxConsecutiveFailures,  \* _MAX_CONSECUTIVE_FAILURES
  ResponsePoints,  \* what a response may cost: max(1, ceil(bytes / 100000))
  KnownEntities,   \* entity ids the coverage tables hold from elsewhere
  MaxActive,       \* how many runs operators let overlap
  None

ASSUME InputAssumption ==
  /\ RowsOf \in [Inputs -> SUBSET Addresses]
  /\ DirectOf \in [Inputs -> SUBSET Addresses]
  /\ PointLimit \in [Inputs -> Nat \ {0}]
ASSUME LimitAssumption ==
  /\ RequestLimit \in Nat \ {0}
  /\ MaxConsecutiveFailures \in Nat \ {0}
  /\ ResponsePoints \subseteq Nat \ {0}
  /\ MaxActive \in Nat
ASSUME EntityAssumption == KnownEntities \subseteq Entities
ASSUME NoneAssumption == None \notin Inputs \cup Campaigns \cup Addresses \cup Entities
ASSUME FiniteAssumption == IsFiniteSet(Addresses) /\ IsFiniteSet(Runs)

VARIABLES
  \* the database
  binding,     \* coverage_address_campaign: [Campaigns -> input or None]
  attempts,    \* coverage_address_campaign_attempt: <<campaign, address>> rows
  observed,    \* source_observation rows per campaign and address
  points,      \* the points those rows add up to, per campaign
  parses,      \* coverage_address_parse_result: <<address, outcome>>
  evidence,    \* identity_evidence of this route: <<address, entity>>
  memberships, \* coverage_entity_prediction: addresses covered by an entity
  seeds,       \* coverage_entity_seed: entity ids
  runStatus,   \* ingestion_run.status
  reserved,    \* request_reservation rows of each run ...
  open,        \* ... and those of them still in outcome 'reserved'
  \* the provider's side
  sent,        \* requests it received, per campaign and address
  \* the memory of each run
  pc, camp, input, plan, todo, cur, reply, known, found, tally

database == <<binding, attempts, observed, points, parses, evidence,
              memberships, seeds, runStatus, reserved, open>>
memory   == <<pc, camp, input, plan, todo, cur, reply, known, found, tally>>
vars     == <<database, sent, memory>>

Outcomes == {"success", "rate_limited", "denied", "failed"}
ParseOutcomes == {"parsed_success", "malformed_payload"}

\* "denied" is an http_error with status 401, 402 or 403; "failed" any other
\* http_error and a transport error.  Only a success is parsed, and it names
\* at most one entity (arkhamEntity).
Replies ==
  { p \in [outcome : Outcomes, price : ResponsePoints,
           valid : BOOLEAN, entity : Entities \cup {None}] :
      /\ p.valid => p.outcome = "success"
      /\ ~p.valid => p.entity = None }

Named(p) == {p.entity} \ {None}

Idle == [before |-> 0, spent |-> 0, requests |-> 0, strikes |-> 0,
         blocked |-> FALSE, unclean |-> FALSE]
Tallies == [before : Nat, spent : Nat, requests : Nat, strikes : Nat,
            blocked : BOOLEAN, unclean : BOOLEAN]

\* Program counter: the database or network call a run makes next.
Steps == {"validated", "attemptsRead", "coverageRead", "planned", "bound",
          "loop", "reserved", "duplicate", "claimed", "replied", "observed",
          "settled", "parsed", "closing", "seeded"}
Labels == Steps \cup {"idle", "done", "crashed"}

TypeOK ==
  /\ binding \in [Campaigns -> Inputs \cup {None}]
  /\ attempts \subseteq Campaigns \X Addresses
  /\ observed \in [Campaigns -> [Addresses -> Nat]]
  /\ points \in [Campaigns -> Nat]
  /\ parses \subseteq Addresses \X ParseOutcomes
  /\ evidence \subseteq Addresses \X Entities
  /\ memberships \subseteq Addresses
  /\ seeds \subseteq Entities
  /\ runStatus \in [Runs -> {"none", "running", "completed", "partial", "blocked"}]
  /\ reserved \in [Runs -> Nat]
  /\ open \in [Runs -> Nat]
  /\ sent \in [Campaigns -> [Addresses -> Nat]]
  /\ pc \in [Runs -> Labels]
  /\ camp \in [Runs -> Campaigns \cup {None}]
  /\ input \in [Runs -> Inputs \cup {None}]
  /\ plan \in [Runs -> SUBSET Addresses]
  /\ todo \in [Runs -> SUBSET Addresses]
  /\ cur \in [Runs -> Addresses \cup {None}]
  /\ reply \in [Runs -> Replies \cup {None}]
  /\ known \in [Runs -> SUBSET Entities]
  /\ found \in [Runs -> SUBSET Entities]
  /\ tally \in [Runs -> Tallies]

Init ==
  /\ binding = [c \in Campaigns |-> None]
  /\ attempts = {} /\ parses = {} /\ evidence = {} /\ memberships = {} /\ seeds = {}
  /\ observed = [c \in Campaigns |-> [a \in Addresses |-> 0]]
  /\ sent = [c \in Campaigns |-> [a \in Addresses |-> 0]]
  /\ points = [c \in Campaigns |-> 0]
  /\ runStatus = [r \in Runs |-> "none"]
  /\ reserved = [r \in Runs |-> 0]
  /\ open = [r \in Runs |-> 0]
  /\ pc = [r \in Runs |-> "idle"]
  /\ camp = [r \in Runs |-> None]
  /\ input = [r \in Runs |-> None]
  /\ plan = [r \in Runs |-> {}]
  /\ todo = [r \in Runs |-> {}]
  /\ cur = [r \in Runs |-> None]
  /\ reply = [r \in Runs |-> None]
  /\ known = [r \in Runs |-> {}]
  /\ found = [r \in Runs |-> {}]
  /\ tally = [r \in Runs |-> Idle]

-----------------------------------------------------------------------------
(***************************************************************************)
(* Reading the database                                                    *)
(***************************************************************************)
Live(r)  == pc[r] \in Steps
Attempted(c) == { a \in Addresses : <<c, a>> \in attempts }
Terminal == { a \in Addresses : <<a, "parsed_success">> \in parses }
Covered  == memberships \cup { a \in Addresses : \E e \in Entities : <<a, e>> \in evidence }
KnownNow == KnownEntities \cup seeds

\* _validate_campaign_binding: an unbound campaign accepts any inputs.
BindingUnchecked(b, i) == TRUE
BindingAccepts(b, i) == b = None \/ b = i

\* INSERT OR IGNORE: the first binding stays.
BoundTo(b, i) == IF b = None THEN i ELSE b

\* INSERT OR IGNORE inserts the attempt exactly when the pair is new.
AttemptAlwaysNew(c, a) == TRUE
AttemptIsNew(c, a) == <<c, a>> \notin attempts
AttemptIgnored(c, a) == attempts
WithAttempt(c, a) == attempts \cup {<<c, a>>}

\* Rows of the queue that are not due: already parsed, or covered without
\* being in conflict or explicitly requested.
NotDue(i) == Terminal \cup (Covered \ DirectOf[i])

\* remaining_points, and how many due rows a run plans.
Lesser(m, n) == IF m <= n THEN m ELSE n
RemainingUnspent(limit, before) == limit
Remaining(limit, before) == IF before < limit THEN limit - before ELSE 0
Planned(due, n) ==
  { S \in SUBSET due : Cardinality(S) = Lesser(n, Cardinality(due)) }

-----------------------------------------------------------------------------
(***************************************************************************)
(* Steps of a run                                                          *)
(***************************************************************************)
Goto(r, from, to) ==
  /\ pc[r] = from
  /\ pc' = [pc EXCEPT ![r] = to]

\* The next iteration of the loop, or its end.
NextItemForever(r) == "loop"
NextItem(r) == IF todo[r] = {} THEN "closing" ELSE "loop"

\* What a run still holds when it ends or dies: nothing.  found is kept, as
\* a record of the entities a dead run had discovered.
Forget(r) ==
  /\ plan' = [plan EXCEPT ![r] = {}]
  /\ todo' = [todo EXCEPT ![r] = {}]
  /\ cur' = [cur EXCEPT ![r] = None]
  /\ reply' = [reply EXCEPT ![r] = None]
  /\ known' = [known EXCEPT ![r] = {}]
  /\ tally' = [tally EXCEPT ![r] = Idle]

\* The address and the response at hand are dropped with the iteration.
Keep(r, here) ==
  /\ cur' = [cur EXCEPT ![r] = IF here THEN @ ELSE None]
  /\ reply' = [reply EXCEPT ![r] = IF here THEN @ ELSE None]

\* An operator starts run r of campaign c with inputs i.  A refused binding
\* is a ValueError before any write; a dry run and a missing token also end
\* before any write, and are not distinguished from never starting.
Start(r, c, i) ==
  /\ Goto(r, "idle", "validated")
  /\ Cardinality({ q \in Runs : Live(q) }) < MaxActive
  /\ BindingAccepts(binding[c], i)
  /\ camp' = [camp EXCEPT ![r] = c]
  /\ input' = [input EXCEPT ![r] = i]
  /\ UNCHANGED <<database, sent, plan, todo, cur, reply, known, found, tally>>

\* _attempted_address_ids
ReadAttempts(r) ==
  /\ Goto(r, "validated", "attemptsRead")
  /\ plan' = [plan EXCEPT ![r] = RowsOf[input[r]] \ Attempted(camp[r])]
  /\ UNCHANGED <<database, sent, camp, input, todo, cur, reply, known, found, tally>>

\* _current_coverage
ReadCoverage(r) ==
  /\ Goto(r, "attemptsRead", "coverageRead")
  /\ plan' = [plan EXCEPT ![r] = @ \ NotDue(input[r])]
  /\ UNCHANGED <<database, sent, camp, input, todo, cur, reply, known, found, tally>>

\* _campaign_points, then planned = due[: min(request_limit, remaining)].
\* An empty plan is the "noop" result.
PlanRun(r) ==
  /\ pc[r] = "coverageRead"
  /\ LET c == camp[r]
         n == Lesser(RequestLimit, Remaining(PointLimit[input[r]], points[c]))
     IN \E S \in Planned(plan[r], n) :
       /\ Goto(r, "coverageRead", IF S = {} THEN "done" ELSE "planned")
       /\ plan' = [plan EXCEPT ![r] = S]
       /\ todo' = [todo EXCEPT ![r] = S]
       /\ tally' = [tally EXCEPT ![r].before = IF S = {} THEN 0 ELSE points[c]]
       /\ UNCHANGED <<database, sent, camp, input, cur, reply, known, found>>

\* _bind_campaign: INSERT OR IGNORE, then validate again.  The row never
\* changes once it exists, so the insert and the second read are one step.
BindCampaign(r) ==
  LET c == camp[r]
      b == BoundTo(binding[c], input[r])
  IN /\ pc[r] = "planned"
     /\ binding' = [binding EXCEPT ![c] = b]
     /\ \/ /\ BindingAccepts(b, input[r])
           /\ Goto(r, "planned", "bound")
           /\ UNCHANGED <<plan, todo, cur, reply, known, tally>>
        \/ /\ ~BindingAccepts(b, input[r])
           /\ Goto(r, "planned", "done")
           /\ Forget(r)
     /\ UNCHANGED <<attempts, observed, points, parses, evidence, memberships,
                    seeds, runStatus, reserved, open, sent, camp, input, found>>

\* create_run, and the entity ids known at that moment.
CreateRun(r) ==
  /\ Goto(r, "bound", "loop")
  /\ runStatus' = [runStatus EXCEPT ![r] = "running"]
  /\ known' = [known EXCEPT ![r] = KnownNow]
  /\ UNCHANGED <<binding, attempts, observed, points, parses, evidence,
                 memberships, seeds, reserved, open, sent,
                 camp, input, plan, todo, cur, reply, found, tally>>

\* quota.reserve for the next address: a row in outcome 'reserved' ...
ReserveQuota(r, a) ==
  /\ Goto(r, "loop", "reserved")
  /\ a \in todo[r]
  /\ cur' = [cur EXCEPT ![r] = a]
  /\ todo' = [todo EXCEPT ![r] = @ \ {a}]
  /\ reserved' = [reserved EXCEPT ![r] = @ + 1]
  /\ open' = [open EXCEPT ![r] = @ + 1]
  /\ UNCHANGED <<binding, attempts, observed, points, parses, evidence, memberships,
                 seeds, runStatus, sent, camp, input, plan, reply, known, found, tally>>

\* ... or RateLimitExceeded / ByteBudgetExceeded, which end the loop.
QuotaRefused(r) ==
  /\ Goto(r, "loop", "closing")
  /\ todo[r] # {}
  /\ tally' = [tally EXCEPT ![r].blocked = TRUE]
  /\ UNCHANGED <<database, sent, camp, input, plan, todo, cur, reply, known, found>>

\* _reserve_address_attempt: INSERT OR IGNORE, rowcount = 1 when it is new.
ReserveAttempt(r) ==
  LET c == camp[r]  a == cur[r]
  IN /\ Goto(r, "reserved", IF AttemptIsNew(c, a) THEN "claimed" ELSE "duplicate")
     /\ attempts' = WithAttempt(c, a)
     /\ UNCHANGED <<binding, observed, points, parses, evidence, memberships,
                    seeds, runStatus, reserved, open, sent,
                    camp, input, plan, todo, cur, reply, known, found, tally>>

\* quota.complete of the reservation run r holds.
CompleteReservationTwice(r) == open' = [open EXCEPT ![r] = @ - 2]
CompleteReservationNever(r) == UNCHANGED open
CompleteReservation(r) == open' = [open EXCEPT ![r] = @ - 1]

\* Somebody else has the address: close the reservation and go on.
SkipDuplicate(r) ==
  /\ Goto(r, "duplicate", NextItem(r))
  /\ CompleteReservation(r)
  /\ Keep(r, FALSE)
  /\ UNCHANGED <<binding, attempts, observed, points, parses, evidence, memberships,
                 seeds, runStatus, reserved, sent,
                 camp, input, plan, todo, known, found, tally>>

\* The tally of a run after a response, after the outcome of a response is
\* known, and after a success is parsed.
Charged(t, price) == [t EXCEPT !.requests = @ + 1, !.spent = @ + price]
Judged(t, ok, trips) ==
  [t EXCEPT !.strikes = IF ok THEN 0 ELSE @ + 1,
            !.unclean = @ \/ ~ok,
            !.blocked = ~ok /\ trips]
Parsed(t, valid, blocked) ==
  [t EXCEPT !.unclean = @ \/ ~valid, !.blocked = ~valid /\ blocked]

\* fetch_request_once: exactly one request, whatever comes back.
Dispatch(r) ==
  /\ Goto(r, "claimed", "replied")
  /\ sent' = [sent EXCEPT ![camp[r]][cur[r]] = @ + 1]
  /\ \E p \in Replies :
       /\ reply' = [reply EXCEPT ![r] = p]
       /\ tally' = [tally EXCEPT ![r] = Charged(@, p.price)]
  /\ UNCHANGED <<database, camp, input, plan, todo, cur, known, found>>

\* The raw payload is persisted (content-addressed, nothing here reads it),
\* then _record_observation.
RecordObservation(r) ==
  LET c == camp[r]
  IN /\ Goto(r, "replied", "observed")
     /\ observed' = [observed EXCEPT ![c][cur[r]] = @ + 1]
     /\ points' = [points EXCEPT ![c] = @ + reply[r].price]
     /\ UNCHANGED <<binding, attempts, parses, evidence, memberships, seeds,
                    runStatus, reserved, open, sent,
                    camp, input, plan, todo, cur, reply, known, found, tally>>

\* A failure that trips the circuit breaker.
Trips(r) ==
  \/ reply[r].outcome \in {"rate_limited", "denied"}
  \/ tally[r].strikes + 1 >= MaxConsecutiveFailures

\* quota.complete after the observation, then the outcome decides: parse a
\* success, stop on a tripped breaker, else the next address.
SettleReservation(r) ==
  LET ok == reply[r].outcome = "success"
      to == IF ok THEN "settled" ELSE IF Trips(r) THEN "closing" ELSE NextItem(r)
  IN /\ Goto(r, "observed", to)
     /\ CompleteReservation(r)
     /\ tally' = [tally EXCEPT ![r] = Judged(@, ok, Trips(r))]
     /\ Keep(r, ok)
     /\ UNCHANGED <<binding, attempts, observed, points, parses, evidence,
                    memberships, seeds, runStatus, reserved, sent,
                    camp, input, plan, todo, known, found>>

\* The campaign point limit is looked at after a parsed response only.
LimitReached(r) == tally[r].before + tally[r].spent >= PointLimit[input[r]]
AfterSuccess(r) == IF LimitReached(r) THEN "closing" ELSE NextItem(r)
BlockedAfterSuccess(r) ==
  LimitReached(r) /\ Cardinality(plan[r]) > tally[r].requests

\* _record_parse_result
ParseOutcome(p) == IF p.valid THEN "parsed_success" ELSE "malformed_payload"
WithFailedParseOnly(a, p) ==
  IF p.valid THEN parses ELSE parses \cup {<<a, ParseOutcome(p)>>}
WithParse(a, p) == parses \cup {<<a, ParseOutcome(p)>>}

RecordParse(r) ==
  LET p == reply[r]
  IN /\ Goto(r, "settled", IF p.valid THEN "parsed" ELSE AfterSuccess(r))
     /\ parses' = WithParse(cur[r], p)
     /\ tally' = [tally EXCEPT ![r] = Parsed(@, p.valid, BlockedAfterSuccess(r))]
     /\ Keep(r, p.valid)
     /\ UNCHANGED <<binding, attempts, observed, points, evidence, memberships, seeds,
                    runStatus, reserved, open, sent,
                    camp, input, plan, todo, known, found>>

\* append_provider_candidates, and discovered_entities in memory.
AppendEvidence(r) ==
  LET p == reply[r]
  IN /\ Goto(r, "parsed", AfterSuccess(r))
     /\ evidence' = evidence \cup ({cur[r]} \X Named(p))
     /\ found' = [found EXCEPT ![r] = @ \cup (Named(p) \ known[r])]
     /\ tally' = [tally EXCEPT ![r].blocked = BlockedAfterSuccess(r)]
     /\ Keep(r, FALSE)
     /\ UNCHANGED <<binding, attempts, observed, points, parses, memberships, seeds,
                    runStatus, reserved, open, sent,
                    camp, input, plan, todo, known>>

\* import_seeds: one transaction, whatever ended the loop.
SeedsUnlessBlocked(r) == IF tally[r].blocked THEN {} ELSE found[r]
SeedsOf(r) == found[r]
ImportSeeds(r) ==
  /\ Goto(r, "closing", "seeded")
  /\ seeds' = seeds \cup SeedsOf(r)
  /\ UNCHANGED <<binding, attempts, observed, points, parses, evidence, memberships,
                 runStatus, reserved, open, sent,
                 camp, input, plan, todo, cur, reply, known, found, tally>>

\* _complete_run
FinalStatus(t) ==
  IF t.blocked THEN "blocked" ELSE IF t.unclean THEN "partial" ELSE "completed"
CompleteRun(r) ==
  /\ Goto(r, "seeded", "done")
  /\ runStatus' = [runStatus EXCEPT ![r] = FinalStatus(tally[r])]
  /\ Forget(r)
  /\ UNCHANGED <<binding, attempts, observed, points, parses, evidence, memberships,
                 seeds, reserved, open, sent, camp, input, found>>

\* The process dies, or a database call raises: memory is gone, rows stay.
Crash(r) ==
  /\ Live(r)
  /\ pc' = [pc EXCEPT ![r] = "crashed"]
  /\ Forget(r)
  /\ UNCHANGED <<database, sent, camp, input, found>>

\* Another job (entity fanout, coverage sync) records a membership of a.
Cover(a) ==
  /\ a \notin memberships
  /\ memberships' = memberships \cup {a}
  /\ UNCHANGED <<binding, attempts, observed, points, parses, evidence, seeds,
                 runStatus, reserved, open, sent, memory>>

Step(r) ==
  \/ ReadAttempts(r) \/ ReadCoverage(r) \/ PlanRun(r)
  \/ BindCampaign(r) \/ CreateRun(r)
  \/ \E a \in Addresses : ReserveQuota(r, a)
  \/ QuotaRefused(r) \/ ReserveAttempt(r) \/ SkipDuplicate(r)
  \/ Dispatch(r) \/ RecordObservation(r) \/ SettleReservation(r)
  \/ RecordParse(r) \/ AppendEvidence(r) \/ ImportSeeds(r) \/ CompleteRun(r)

Next ==
  \/ \E r \in Runs, c \in Campaigns, i \in Inputs : Start(r, c, i)
  \/ \E r \in Runs : Step(r)
  \/ \E r \in Runs : Crash(r)
  \/ \E a \in Addresses : Cover(a)

Spec == Init /\ [][Next]_vars

\* A run is one thread whose network calls time out and whose database calls
\* wait at most five seconds: while it is alive it takes its next step.
Fairness == \A r \in Runs : WF_vars(Step(r))
FairSpec == Spec /\ Fairness

-----------------------------------------------------------------------------
(***************************************************************************)
(* Properties                                                              *)
(***************************************************************************)

\* The provider receives at most one request per address of a campaign,
\* whatever runs overlap and wherever they die
\* ("Execute each checksum-pinned address at most once per campaign").
AtMostOncePerCampaign ==
  \A c \in Campaigns, a \in Addresses : sent[c][a] <= 1

\* The attempt row is there before the provider is asked, and no more
\* outcomes are recorded than requests were sent.
AttemptPrecedesPayment ==
  \A c \in Campaigns, a \in Addresses :
    /\ sent[c][a] > 0 => <<c, a>> \in attempts
    /\ observed[c][a] <= sent[c][a]

\* Whatever runs race to bind a campaign, every attempt charged to it is a
\* row of the one queue, cohort and limit it is bound to.
BindingGoverns ==
  \A c \in Campaigns, a \in Addresses :
    <<c, a>> \in attempts =>
      /\ binding[c] # None
      /\ a \in RowsOf[binding[c]]

\* Evidence of this route is never there without the parse result of the
\* same address, and a parse result never without a recorded response.
EvidenceProvenance ==
  /\ \A a \in Addresses, e \in Entities :
       <<a, e>> \in evidence => <<a, "parsed_success">> \in parses
  /\ \A a \in Addresses, o \in ParseOutcomes :
       <<a, o>> \in parses => \E c \in Campaigns : observed[c][a] > 0

\* An entity named by evidence is a known entity, or some run that has not
\* imported its seeds (alive, or dead before it could) had discovered it.
EntitiesAccountedFor ==
  \A a \in Addresses, e \in Entities :
    <<a, e>> \in evidence =>
      \/ e \in KnownNow
      \/ \E r \in Runs : e \in found[r] /\ pc[r] \notin {"seeded", "done"}

\* A run that ends by itself leaves no quota reservation open; one that dies
\* leaves at most the one it was using.
QuotaAccounting ==
  \A r \in Runs :
    /\ pc[r] = "done" => open[r] = 0
    /\ open[r] <= 1

\* A campaign once bound keeps its queue, cohort and point limit for ever.
BindingImmutable ==
  [][\A c \in Campaigns : binding[c] # None => binding'[c] = binding[c]]_binding

\* When runs of a campaign do not overlap, a campaign never records more
\* requests than its point limit: each costs at least one point, and a plan
\* is cut to the points that remain.
RequestsWithinPointLimit ==
  \A c \in Campaigns :
    binding[c] # None =>
      Cardinality({ a \in Addresses : observed[c][a] > 0 }) <= PointLimit[binding[c]]

\* A run that does not die ends, with every address of its plan dealt with
\* or refused: no skipped duplicate or failure keeps it in its loop.
RunsEnd == \A r \in Runs : pc[r] = "validated" ~> pc[r] \in {"done", "crashed"}

\* The stage of each address of a campaign, as CampaignLedger counts them.
Stage(c, a) ==
  IF observed[c][a] > 0 THEN "recorded"
  ELSE IF sent[c][a] > 0 THEN "paid"
  ELSE IF <<c, a>> \in attempts THEN "claimed" ELSE "free"

Ledger == INSTANCE CampaignLedger WITH
  Subjects <- Addresses,
  cell <- [c \in Campaigns |-> [a \in Addresses |-> Stage(c, a)]]

\* The service implements the ledger: claim, pay, record, in that order,
\* each at most once per address of a campaign.
ImplementsLedger == Ledger!Spec

-----------------------------------------------------------------------------
(***************************************************************************)
(* What the documents say and the code does not do: neither holds          *)
(***************************************************************************)

\* "Newly covered non-explicit addresses are skipped at dispatch time even if
\* they remain in an older queue."  Coverage is read once, when the plan is
\* made, and never again before a dispatch.
SkippedAtDispatch ==
  [][\A r \in Runs :
       pc[r] = "claimed" /\ pc'[r] = "replied" =>
         cur[r] \in DirectOf[input[r]] \/ cur[r] \notin Covered]_pc

\* "Newly observed provider entity IDs become deduplicated entity seeds":
\* with a run of the campaign completed and none alive, every entity its
\* evidence names is known.  Discovered entities are kept in memory until the
\* loop ends; the address that named them is parsed by then, so when that run
\* dies no later run asks again.
DiscoveredEntitiesSeeded ==
  (\E r \in Runs : runStatus[r] = "completed") /\ (\A r \in Runs : ~Live(r)) =>
    \A a \in Addresses, e \in Entities : <<a, e>> \in evidence => e \in KnownNow
=============================================================================
