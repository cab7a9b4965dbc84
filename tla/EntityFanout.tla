---------------------------- MODULE EntityFanout ----------------------------
(***************************************************************************)
(* BtcEntityFanoutService.run, the paid expansion of provider entities     *)
(* into the addresses the provider assigns to them, and                    *)
(* EntityRetryExhaustionService.finalize, which freezes entities whose     *)
(* request failed with 502.  Runs are separate processes over one          *)
(* database; unlike address enrichment, a run writes its attempt row after *)
(* the request, not before.                                                *)
(*                                                                         *)
(* Abstracted: a response is its outcome, whether it parses, the addresses *)
(* it names and whether it used up the run's byte budget; the order of the *)
(* queue is any order; a quota reservation may be refused at any time.     *)
(***************************************************************************)
EXTENDS Integers, Sequences, FiniteSets

CONSTANTS
  Runs,            \* invocations of run()
  Campaigns,       \* campaign ids
  Entities,        \* provider entity ids
  Addresses,       \* address ids
  InputIds,        \* the entity ids of the canary, handed to every run
  RequestLimit,    \* [Runs -> request_limit]
  MaxConsecutiveFailures,  \* _MAX_CONSECUTIVE_FAILURES
  MaxActive,       \* how many runs operators let overlap
  None

ASSUME InputAssumption == InputIds \subseteq Entities
ASSUME LimitAssumption ==
  /\ RequestLimit \in [Runs -> Nat \ {0}]
  /\ MaxConsecutiveFailures \in Nat \ {0}
  /\ MaxActive \in Nat
ASSUME NoneAssumption == None \notin Entities \cup Campaigns
ASSUME FiniteAssumption == IsFiniteSet(Entities) /\ IsFiniteSet(Runs)

VARIABLES
  \* the database
  localIds,    \* entity ids in the seed and entity observation tables, beyond
               \* those of the canary, which change nothing when learnt
  observed,    \* source_observation rows per campaign and entity
  attempts,    \* coverage_entity_prediction_attempt: [run, camp, entity, outcome]
  parses,      \* coverage_entity_prediction_parse_result: <<entity, outcome>>
  members,     \* coverage_entity_prediction: <<entity, address>>
  exhausted,   \* coverage_entity_retry_exhaustion: entity ids
  answers,     \* of each run under way, the responses behind its attempts as those
               \* and its observations keep them, in order; nothing reads them later
  runStatus,   \* ingestion_run.status
  \* the provider's side
  sent,        \* requests it received, per campaign and entity
  \* the memory of each run
  pc, camp, merged, plan, todo, cur, reply, tally,
  \* the memory of the operator's finalize command
  planned      \* entity ids read for freezing, or None

database == <<localIds, observed, attempts, answers, parses, members, exhausted, runStatus>>
memory   == <<pc, camp, merged, plan, todo, cur, reply, tally>>
vars     == <<database, sent, memory, planned>>

\* "bad_gateway" is an http_error with status 502, "denied" one with 401, 402
\* or 403, "failed" any other http_error and a transport error.
Outcomes == {"success", "rate_limited", "denied", "bad_gateway", "failed"}
ParseOutcomes == {"parsed_success", "no_bitcoin_addresses", "malformed_payload"}

\* over: the responses of the run together exceed its byte budget.
Replies ==
  { p \in [outcome : Outcomes, valid : BOOLEAN, over : BOOLEAN,
           addresses : SUBSET Addresses] :
      /\ p.valid => p.outcome = "success"
      /\ ~p.valid => p.addresses = {} }

Responses == [outcome : Outcomes, over : BOOLEAN]

Tallies == [strikes : Nat, blocked : BOOLEAN, unclean : BOOLEAN]
Idle == [strikes |-> 0, blocked |-> FALSE, unclean |-> FALSE]

\* Program counter: the database or network call a run makes next.
Steps == {"started", "listed", "exhaustionRead", "terminalRead", "planned", "loop",
          "reserved", "replied", "observed", "attempted", "parsed", "closing"}
Labels == Steps \cup {"idle", "done", "crashed"}

TypeOK ==
  /\ localIds \subseteq Entities
  /\ observed \in [Campaigns -> [Entities -> Nat]]
  /\ attempts \subseteq [run : Runs, camp : Campaigns, entity : Entities, outcome : Outcomes]
  /\ answers \in [Runs -> Seq(Responses)]
  /\ parses \subseteq Entities \X ParseOutcomes
  /\ members \subseteq Entities \X Addresses
  /\ exhausted \subseteq Entities
  /\ runStatus \in [Runs -> {"none", "running", "completed", "partial", "blocked"}]
  /\ sent \in [Campaigns -> [Entities -> Nat]]
  /\ pc \in [Runs -> Labels]
  /\ camp \in [Runs -> Campaigns \cup {None}]
  /\ merged \in [Runs -> SUBSET Entities]
  /\ plan \in [Runs -> SUBSET Entities]
  /\ todo \in [Runs -> SUBSET Entities]
  /\ cur \in [Runs -> Entities \cup {None}]
  /\ reply \in [Runs -> Replies \cup {None}]
  /\ tally \in [Runs -> Tallies]
  /\ planned \in (SUBSET Entities) \cup {None}

Init ==
  /\ localIds = {} /\ attempts = {} /\ parses = {} /\ members = {} /\ exhausted = {}
  /\ observed = [c \in Campaigns |-> [e \in Entities |-> 0]]
  /\ sent = [c \in Campaigns |-> [e \in Entities |-> 0]]
  /\ answers = [r \in Runs |-> <<>>]
  /\ runStatus = [r \in Runs |-> "none"]
  /\ pc = [r \in Runs |-> "idle"]
  /\ camp = [r \in Runs |-> None]
  /\ merged = [r \in Runs |-> {}]
  /\ plan = [r \in Runs |-> {}]
  /\ todo = [r \in Runs |-> {}]
  /\ cur = [r \in Runs |-> None]
  /\ reply = [r \in Runs |-> None]
  /\ tally = [r \in Runs |-> Idle]
  /\ planned = None

-----------------------------------------------------------------------------
(***************************************************************************)
(* Reading the database                                                    *)
(***************************************************************************)
Live(r) == pc[r] \in Steps

LocalIds == localIds \cup { e \in Entities : \E a \in Addresses : <<e, a>> \in members }

TerminalOutcomes == {"parsed_success", "no_bitcoin_addresses"}
Terminal == { e \in Entities : \E o \in TerminalOutcomes : <<e, o>> \in parses }

Attempted(c) == { e \in Entities : \E t \in attempts : t.camp = c /\ t.entity = e }

\* The entities of a campaign finalize may freeze: it looks for a 502 row.
AnyFailure(c) ==
  { e \in Entities : \E t \in attempts :
      t.camp = c /\ t.entity = e /\ t.outcome \in {"bad_gateway", "failed"} }
Eligible(c) ==
  { e \in Entities : \E t \in attempts :
      t.camp = c /\ t.entity = e /\ t.outcome = "bad_gateway" }

Lesser(m, n) == IF m <= n THEN m ELSE n
Batches(r, due) ==
  { S \in SUBSET due : Cardinality(S) = Lesser(RequestLimit[r], Cardinality(due)) }

-----------------------------------------------------------------------------
(***************************************************************************)
(* Steps of a run                                                          *)
(***************************************************************************)
Goto(r, from, to) ==
  /\ pc[r] = from
  /\ pc' = [pc EXCEPT ![r] = to]

NextItem(r) == IF todo[r] = {} THEN "closing" ELSE "loop"

\* The entity and the response at hand are dropped with the iteration.
Keep(r, here) ==
  /\ cur' = [cur EXCEPT ![r] = IF here THEN @ ELSE None]
  /\ reply' = [reply EXCEPT ![r] = IF here THEN @ ELSE None]

\* An operator starts run r of campaign c.  A dry run and a missing token
\* end before any write, and are not distinguished from never starting.
Start(r, c) ==
  /\ Goto(r, "idle", "started")
  /\ Cardinality({ q \in Runs : Live(q) }) < MaxActive
  /\ camp' = [camp EXCEPT ![r] = c]
  /\ UNCHANGED <<database, sent, merged, plan, todo, cur, reply, tally, planned>>

\* _local_entity_ids, merged with the input ids.
ReadLocalIds(r) ==
  /\ Goto(r, "started", "listed")
  /\ merged' = [merged EXCEPT ![r] = InputIds \cup LocalIds]
  /\ UNCHANGED <<database, sent, camp, plan, todo, cur, reply, tally, planned>>

\* _retry_exhausted_entity_ids
ReadExhausted(r) ==
  /\ Goto(r, "listed", "exhaustionRead")
  /\ plan' = [plan EXCEPT ![r] = merged[r] \ exhausted]
  /\ UNCHANGED <<database, sent, camp, merged, todo, cur, reply, tally, planned>>

\* _terminal_entity_ids
ReadTerminal(r) ==
  /\ Goto(r, "exhaustionRead", "terminalRead")
  /\ plan' = [plan EXCEPT ![r] = @ \ Terminal]
  /\ UNCHANGED <<database, sent, camp, merged, todo, cur, reply, tally, planned>>

\* _campaign_attempted_entity_ids, then planned = due[:request_limit].
PlanRun(r) ==
  /\ Goto(r, "terminalRead", "planned")
  /\ \E S \in Batches(r, plan[r] \ Attempted(camp[r])) :
       /\ plan' = [plan EXCEPT ![r] = S]
       /\ todo' = [todo EXCEPT ![r] = S]
  /\ merged' = [merged EXCEPT ![r] = {}]
  /\ UNCHANGED <<database, sent, camp, cur, reply, tally, planned>>

\* create_run; an empty plan makes a run that completes at once.
CreateRun(r) ==
  /\ Goto(r, "planned", NextItem(r))
  /\ runStatus' = [runStatus EXCEPT ![r] = "running"]
  /\ UNCHANGED <<localIds, observed, attempts, answers, parses, members, exhausted, sent,
                 camp, merged, plan, todo, cur, reply, tally, planned>>

\* quota.reserve for the next entity ...
ReserveQuota(r, e) ==
  /\ Goto(r, "loop", "reserved")
  /\ e \in todo[r]
  /\ cur' = [cur EXCEPT ![r] = e]
  /\ todo' = [todo EXCEPT ![r] = @ \ {e}]
  /\ UNCHANGED <<database, sent, camp, merged, plan, reply, tally, planned>>

\* ... or RateLimitExceeded / ByteBudgetExceeded, which end the loop.
QuotaRefused(r) ==
  /\ Goto(r, "loop", "closing")
  /\ tally' = [tally EXCEPT ![r].blocked = TRUE]
  /\ UNCHANGED <<database, sent, camp, merged, plan, todo, cur, reply, planned>>

\* fetch_request_once: exactly one request, whatever comes back.
Dispatch(r) ==
  /\ Goto(r, "reserved", "replied")
  /\ sent' = [sent EXCEPT ![camp[r]][cur[r]] = @ + 1]
  /\ \E p \in Replies : reply' = [reply EXCEPT ![r] = p]
  /\ UNCHANGED <<database, camp, merged, plan, todo, cur, tally, planned>>

\* _record_observation; the quota.complete that follows changes nothing here.
RecordObservation(r) ==
  /\ Goto(r, "replied", "observed")
  /\ observed' = [observed EXCEPT ![camp[r]][cur[r]] = @ + 1]
  /\ UNCHANGED <<localIds, attempts, answers, parses, members, exhausted, runStatus, sent,
                 camp, merged, plan, todo, cur, reply, tally, planned>>

\* A failed response that trips the circuit breaker.
TripsOneLate(r) ==
  \/ reply[r].over
  \/ reply[r].outcome \in {"rate_limited", "denied"}
  \/ tally[r].strikes >= MaxConsecutiveFailures
Trips(r) ==
  \/ reply[r].over
  \/ reply[r].outcome \in {"rate_limited", "denied"}
  \/ tally[r].strikes + 1 >= MaxConsecutiveFailures

\* The tally after a failed request, after a payload that does not parse, and
\* after an answer; a run over its budget is blocked.
Failed(t, trips) == [t EXCEPT !.strikes = @ + 1, !.unclean = TRUE, !.blocked = trips]
Answered(t, p) ==
  [t EXCEPT !.strikes = 0, !.unclean = @ \/ ~p.valid, !.blocked = p.over]

\* _record_prediction_attempt, only now; a failure ends the iteration.
AttemptOfSuccess(r) ==
  IF reply[r].outcome = "success"
    THEN {[run |-> r, camp |-> camp[r], entity |-> cur[r], outcome |-> "success"]} ELSE {}
AttemptRow(r) ==
  {[run |-> r, camp |-> camp[r], entity |-> cur[r], outcome |-> reply[r].outcome]}
RecordAttempt(r) ==
  LET ok == reply[r].outcome = "success"
  IN /\ Goto(r, "observed",
             IF ok THEN "attempted" ELSE IF Trips(r) THEN "closing" ELSE NextItem(r))
     /\ attempts' = attempts \cup AttemptRow(r)
     /\ answers' = [answers EXCEPT ![r] =
                      Append(@, [outcome |-> reply[r].outcome, over |-> reply[r].over])]
     /\ tally' = [tally EXCEPT ![r] = IF ok THEN Answered(@, reply[r]) ELSE Failed(@, Trips(r))]
     /\ Keep(r, ok)
     /\ UNCHANGED <<localIds, observed, parses, members, exhausted, runStatus, sent,
                    camp, merged, plan, todo, planned>>

\* _record_prediction_parse_result.  Only an answer with addresses or none of
\* Bitcoin goes on to the memberships.
ParseOutcome(p) ==
  IF ~p.valid THEN "malformed_payload"
  ELSE IF p.addresses = {} THEN "no_bitcoin_addresses" ELSE "parsed_success"
AfterAnswer(r) == IF reply[r].over THEN "closing" ELSE NextItem(r)
WithParse(r) == parses \cup {<<cur[r], ParseOutcome(reply[r])>>}
RecordParse(r) ==
  /\ Goto(r, "attempted", IF reply[r].valid THEN "parsed" ELSE AfterAnswer(r))
  /\ parses' = WithParse(r)
  /\ Keep(r, reply[r].valid)
  /\ UNCHANGED <<localIds, observed, attempts, answers, members, exhausted, runStatus, sent,
                 camp, merged, plan, todo, tally, planned>>

\* _record_predictions: one transaction of its own, after the parse result.
MembersDropped(r) == {}
MembersOf(r) == {cur[r]} \X reply[r].addresses
RecordPredictions(r) ==
  /\ Goto(r, "parsed", AfterAnswer(r))
  /\ members' = members \cup MembersOf(r)
  /\ Keep(r, FALSE)
  /\ UNCHANGED <<localIds, observed, attempts, answers, parses, exhausted, runStatus, sent,
                 camp, merged, plan, todo, tally, planned>>

\* _complete_run
FinalStatus(t) ==
  IF t.blocked THEN "blocked" ELSE IF t.unclean THEN "partial" ELSE "completed"
CompleteRun(r) ==
  /\ Goto(r, "closing", "done")
  /\ runStatus' = [runStatus EXCEPT ![r] = FinalStatus(tally[r])]
  /\ plan' = [plan EXCEPT ![r] = {}]
  /\ todo' = [todo EXCEPT ![r] = {}]
  /\ tally' = [tally EXCEPT ![r] = Idle]
  /\ answers' = [answers EXCEPT ![r] = <<>>]
  /\ UNCHANGED <<localIds, observed, attempts, parses, members, exhausted, sent,
                 camp, merged, cur, reply, planned>>

\* The process dies, or a database call raises: memory is gone, rows stay.
\* The entity it died with is kept, as a record for the properties.
Crash(r) ==
  /\ Live(r)
  /\ pc' = [pc EXCEPT ![r] = "crashed"]
  /\ merged' = [merged EXCEPT ![r] = {}]
  /\ plan' = [plan EXCEPT ![r] = {}]
  /\ todo' = [todo EXCEPT ![r] = {}]
  /\ reply' = [reply EXCEPT ![r] = None]
  /\ tally' = [tally EXCEPT ![r] = Idle]
  /\ answers' = [answers EXCEPT ![r] = <<>>]
  /\ UNCHANGED <<localIds, observed, attempts, parses, members, exhausted, runStatus, sent,
                 camp, cur, planned>>

-----------------------------------------------------------------------------
(***************************************************************************)
(* The operator's finalize command, and other jobs                         *)
(***************************************************************************)

\* finalize reads its candidates in one connection (the dry run stops here,
\* as does one without attempts; with nothing to freeze it freezes nothing) ...
ReadEligible(c) ==
  /\ planned = None
  /\ ~(Eligible(c) \subseteq exhausted)
  /\ planned' = Eligible(c) \ exhausted
  /\ UNCHANGED <<database, sent, memory>>

\* ... and freezes them in a later transaction.
Freeze ==
  /\ planned # None
  /\ exhausted' = exhausted \cup planned
  /\ planned' = None
  /\ UNCHANGED <<localIds, observed, attempts, answers, parses, members, runStatus, sent, memory>>

\* Address enrichment imports a seed, or coverage sync discovers an entity.
Learn(e) ==
  /\ e \notin InputIds \cup localIds
  /\ localIds' = localIds \cup {e}
  /\ UNCHANGED <<observed, attempts, answers, parses, members, exhausted, runStatus, sent,
                 memory, planned>>

Step(r) ==
  \/ ReadLocalIds(r) \/ ReadExhausted(r) \/ ReadTerminal(r) \/ PlanRun(r) \/ CreateRun(r)
  \/ \E e \in Entities : ReserveQuota(r, e)
  \/ QuotaRefused(r) \/ Dispatch(r) \/ RecordObservation(r) \/ RecordAttempt(r)
  \/ RecordParse(r) \/ RecordPredictions(r) \/ CompleteRun(r)

Next ==
  \/ \E r \in Runs, c \in Campaigns : Start(r, c)
  \/ \E r \in Runs : Step(r)
  \/ \E r \in Runs : Crash(r)
  \/ \E c \in Campaigns : ReadEligible(c)
  \/ Freeze
  \/ \E e \in Entities : Learn(e)

Spec == Init /\ [][Next]_vars

-----------------------------------------------------------------------------
(***************************************************************************)
(* Properties                                                              *)
(***************************************************************************)

\* Every request the provider received for an entity of a campaign has an
\* attempt row, or belongs to a run that has not written its row yet, or
\* died with that entity in hand.
RequestsAccounted ==
  \A c \in Campaigns, e \in Entities :
    sent[c][e] <= Cardinality({ t \in attempts : t.camp = c /\ t.entity = e })
                + Cardinality({ r \in Runs : camp[r] = c /\ cur[r] = e
                                  /\ pc[r] \in {"replied", "observed", "crashed"} })

\* Does not hold.  "Each entity has at most one transport attempt in the
\* campaign": that is so only while no two runs overlap and none dies.
AtMostOnePerEntity == \A c \in Campaigns, e \in Entities : sent[c][e] <= 1

\* An entity that is terminal because of addresses has its memberships, unless
\* a run is between the two transactions or died there: such an entity stays
\* terminal without them, and no later run asks again.
MembersAccounted ==
  \A e \in Entities :
    <<e, "parsed_success">> \in parses =>
      \/ \E a \in Addresses : <<e, a>> \in members
      \/ \E r \in Runs : cur[r] = e /\ pc[r] \in {"parsed", "crashed"}

\* Only an entity the provider answered with 502 is ever frozen.
FrozenHas502 ==
  \A e \in exhausted : \E t \in attempts : t.entity = e /\ t.outcome = "bad_gateway"

\* "Authentication, payment, rate-limit responses, three consecutive provider
\* failures, or the response byte budget trip a fail-closed circuit breaker": a
\* run that sends has recorded no such response yet, none, failed or not, over
\* its byte budget, and not as many failures in a row as the limit, however
\* many successes came before them.
BreakerStops ==
  \A r \in Runs : pc[r] = "replied" =>
    LET n == Len(answers[r])
    IN /\ \A i \in 1..n :
            /\ answers[r][i].outcome \notin {"rate_limited", "denied"}
            /\ ~answers[r][i].over
       /\ n >= MaxConsecutiveFailures =>
            \E i \in n - MaxConsecutiveFailures + 1 .. n : answers[r][i].outcome = "success"
=============================================================================
