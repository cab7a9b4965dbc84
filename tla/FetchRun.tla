------------------------------- MODULE FetchRun -------------------------------
(***************************************************************************)
(* The candidate queue and the fetch run over it: CandidateService,        *)
(* FetchService.run and RawPayloadStore.persist.  A run selects rows of    *)
(* the queue and the profile to ask each address with, and then works      *)
(* through its agenda: reserve, ask, store the body, record the            *)
(* observation, append the evidence, complete the reservation, record the  *)
(* attempt.  Each of these is a transaction of its own.                    *)
(*                                                                         *)
(* A run stamps its rows with the instant it started.                      *)
(***************************************************************************)
EXTENDS Integers, FiniteSets, Sequences, Selection

CONSTANTS
  Addresses,
  Rows,              \* candidate_request rows that may be imported
  Pressing,          \* addresses in conflict, or with evidence near its expiry
  Payloads,          \* bodies the provider may send
  Modes,             \* how a run may be asked for
  Rpm, Limit,        \* requests_per_minute, and --limit
  DiscoveryTTL, DetailTTL,
  MaxRuns, MaxTime, MaxFaults, \* bounds: runs, instants, what goes wrong
  None

\* The number of a row is its place among rows of one priority; a row is
\* sourced when its reference has the prefix a source-scoped run asks for.
ASSUME RowsAssumption ==
  /\ Rows \subseteq [number: Nat, address: Addresses, priority: 0..100, sourced: BOOLEAN]
  /\ IsFiniteSet(Rows)
  /\ Modes \subseteq [scoped: BOOLEAN, override: BOOLEAN]
ASSUME LimitsAssumption ==
  /\ {Rpm, Limit, DiscoveryTTL, DetailTTL} \subseteq Nat \ {0}
  /\ {MaxRuns, MaxTime, MaxFaults} \subseteq Nat
  /\ Pressing \subseteq Addresses

Runs == 1..MaxRuns
Profiles == {"discovery", "detail"}
\* What a run does with a row it selected; a row is duplicate when the run
\* asks for its address already, and fresh when there is nothing to ask.
Tasks == [row: Rows, profile: Profiles \cup {"fresh", "duplicate"}]
Outcomes == {"success", "malformed_payload", "failed"}
Responses == [outcome: Outcomes, body: Payloads \cup {None}]
AttemptOutcomes == Outcomes \cup {"deduplicated", "skipped_fresh", "rate_limited",
                                  "budget_exhausted", "blocked"}
ASSUME NoneAssumption == None \notin Nat \cup Responses

VARIABLES
  clock,
  queue,                \* candidate_request
  startedAt, status,    \* ingestion_run
  reservations, open,   \* request_reservation; the runs with one not completed
  files, payloadRows,   \* the payload directory, raw_payload_object
  observations, evidence, attempts, \* source_observation, identity_evidence, candidate_attempt
  run,                  \* the memory of each run
  before, faults        \* history: the runs over when it started; faults so far

ledger == <<startedAt, status, reservations, open>>
store  == <<files, payloadRows>>
tables == <<observations, evidence, attempts>>
ghosts == <<before, faults>>
vars   == <<clock, queue, ledger, store, tables, run, ghosts>>

NoRun == [pc |-> "idle", agenda |-> <<>>, response |-> None, clean |-> TRUE, selected |-> 0]

TypeOK ==
  /\ clock \in 0..MaxTime /\ queue \subseteq Rows
  /\ startedAt \in [Runs -> 0..MaxTime \cup {None}]
  /\ status \in [Runs -> {"none", "running", "completed", "partial", "blocked"}]
  /\ reservations \subseteq [run: Runs, number: 1..Rpm] /\ open \subseteq Runs
  /\ files \subseteq Payloads /\ payloadRows \subseteq Payloads
  /\ observations \subseteq [run: Runs, address: Addresses, profile: Profiles,
                             outcome: Outcomes, payload: Payloads \cup {None}]
  /\ evidence \subseteq [run: Runs, address: Addresses]
  /\ attempts \subseteq [run: Runs, row: Rows, outcome: AttemptOutcomes]
  /\ \A r \in Runs : run[r].agenda \in Seq(Tasks) /\ run[r].response \in Responses \cup {None}

Init ==
  /\ clock = 0 /\ queue = {}
  /\ startedAt = [r \in Runs |-> None] /\ status = [r \in Runs |-> "none"]
  /\ reservations = {} /\ open = {}
  /\ files = {} /\ payloadRows = {}
  /\ observations = {} /\ evidence = {} /\ attempts = {}
  /\ run = [r \in Runs |-> NoRun]
  /\ before = [r \in Runs |-> {}] /\ faults = 0

Fault == faults < MaxFaults /\ faults' = faults + 1

-----------------------------------------------------------------------------
(***************************************************************************)
(* The queue                                                               *)
(***************************************************************************)

ImportCandidates(batch) ==
  /\ batch \cap queue = {} /\ batch # {}
  /\ queue' = queue \cup batch
  /\ UNCHANGED <<clock, ledger, store, tables, run, ghosts>>

Tick ==
  /\ clock < MaxTime /\ clock' = clock + 1
  /\ UNCHANGED <<queue, ledger, store, tables, run, ghosts>>

Successes(a, profile) ==
  { o \in observations : o.address = a /\ o.profile = profile /\ o.outcome = "success" }

\* The latest success is within the TTL of a run that starts now.
Fresh(a, profile, ttl) ==
  \E o \in Successes(a, profile) : startedAt[o.run] + ttl > clock

Ahead(x, y) == \/ x.priority > y.priority
               \/ x.priority = y.priority /\ x.number < y.number

\* A scoped run that overrides the profile leaves out what is fresh before it
\* cuts the list at its limit, any other run finds out afterwards.
SelectCandidates(mode) ==
  LET scope == { c \in queue : mode.scoped => c.sourced }
      due   == { c \in scope : mode.scoped /\ mode.override
                                 => ~ Fresh(c.address, "discovery", DiscoveryTTL) }
  IN  FirstOf(due, Ahead, Limit)

HighPriority == 90
NeedsDetail(row) ==
  \/ row.priority >= HighPriority
  \/ row.address \in Pressing
  \/ Cardinality({ o.payload : o \in Successes(row.address, "discovery") }) > 1

\* Detail is asked for once, to complete a discovery that is fresh.
SelectProfile(row) ==
  LET discovered == Fresh(row.address, "discovery", DiscoveryTTL)
      detailed   == Successes(row.address, "detail") # {}
  IN  IF Successes(row.address, "discovery") = {} THEN "discovery"
      ELSE IF Fresh(row.address, "detail", DetailTTL) THEN "fresh"
      ELSE IF ~ discovered THEN "discovery"
      ELSE IF ~ detailed /\ NeedsDetail(row) THEN "detail" ELSE "fresh"

SelectProfileOverride(row) ==
  IF Fresh(row.address, "discovery", DiscoveryTTL) THEN "fresh" ELSE "discovery"

\* Mutant: rows are told apart, addresses are not.
IsDuplicateRow(list, i) == \E j \in 1..(i - 1) : list[j] = list[i]

\* An address is asked for once in a run, for the first row that names it.
IsDuplicate(list, i) == \E j \in 1..(i - 1) : list[j].address = list[i].address

\* What the run does with the row at a place of its list.
TaskFor(list, mode, i) ==
  [row |-> list[i],
   profile |-> IF IsDuplicate(list, i) THEN "duplicate"
               ELSE IF mode.override THEN SelectProfileOverride(list[i])
               ELSE SelectProfile(list[i])]

\* The duplicates are recorded first.
Agendas(list, mode) ==
  LET earlier(i, j) == IF IsDuplicate(list, i) = IsDuplicate(list, j)
                         THEN i < j ELSE IsDuplicate(list, i)
  IN  { [k \in DOMAIN places |-> TaskFor(list, mode, places[k])] :
          places \in FirstOf(DOMAIN list, earlier, Len(list)) }

-----------------------------------------------------------------------------
(***************************************************************************)
(* A run                                                                   *)
(***************************************************************************)

Over(r) == run[r].pc \in {"over", "dead"}

Start(r, mode) ==
  /\ startedAt[r] = None /\ (\A m \in 1..(r - 1) : startedAt[m] # None)
  /\ queue # {}
  /\ startedAt' = [startedAt EXCEPT ![r] = clock]
  /\ status' = [status EXCEPT ![r] = "running"]
  /\ before' = [before EXCEPT ![r] = { m \in Runs : Over(m) }]
  /\ \E list \in SelectCandidates(mode) : \E agenda \in Agendas(list, mode) :
       run' = [run EXCEPT ![r] = [NoRun EXCEPT !.pc = "next", !.agenda = agenda,
                                               !.selected = Len(list)]]
  /\ UNCHANGED <<clock, queue, reservations, open, store, tables, faults>>

Task(r) == Head(run[r].agenda)
At(r, pc) == run[r].pc = pc
Asking(r) == At(r, "next") /\ run[r].agenda # <<>> /\ Task(r).profile \in Profiles
Goto(r, pc) == run' = [run EXCEPT ![r].pc = pc]

\* Mutant: a row has one attempt, whatever run makes it.
RecordFirstAttempt(r, outcome) ==
  /\ attempts' = attempts \cup (IF \E t \in attempts : t.row = Task(r).row THEN {}
                                ELSE {[run |-> r, row |-> Task(r).row, outcome |-> outcome]})
  /\ run' = [run EXCEPT ![r].pc = "next", ![r].agenda = Tail(@), ![r].response = None,
                        ![r].clean = @ /\ outcome \in {"success", "skipped_fresh"}]

\* _record_attempt ends every turn of the loop.
RecordAttempt(r, outcome) ==
  /\ attempts' = attempts \cup {[run |-> r, row |-> Task(r).row, outcome |-> outcome]}
  /\ run' = [run EXCEPT ![r].pc = "next", ![r].agenda = Tail(@), ![r].response = None,
                        ![r].clean = @ /\ outcome \in {"success", "skipped_fresh"}]

Skip(r) ==
  /\ At(r, "next") /\ run[r].agenda # <<>> /\ Task(r).profile \in {"fresh", "duplicate"}
  /\ RecordAttempt(r, IF Task(r).profile = "fresh" THEN "skipped_fresh" ELSE "deduplicated")
  /\ UNCHANGED <<clock, queue, ledger, store, observations, evidence, ghosts>>

\* The window counts what was reserved from this run's instant on.
InWindow(r) == { x \in reservations : startedAt[x.run] >= startedAt[r] }
WindowUse(r) == Cardinality(InWindow(r))
ReservedBy(r) == { x \in reservations : x.run = r }

Reserve(r) ==
  /\ Asking(r) /\ WindowUse(r) < Rpm
  /\ reservations' = reservations \cup
       {[run |-> r, number |-> Cardinality(ReservedBy(r)) + 1]}
  /\ open' = open \cup {r}
  /\ Goto(r, "ask")
  /\ UNCHANGED <<clock, queue, startedAt, status, store, tables, ghosts>>

\* A refusal is an attempt without a request, and the loop goes on.
RateLimited(r) ==
  /\ Asking(r) /\ WindowUse(r) >= Rpm
  /\ RecordAttempt(r, "rate_limited")
  /\ UNCHANGED <<clock, queue, ledger, store, observations, evidence, ghosts>>

BudgetExhausted(r) ==
  /\ Asking(r) /\ WindowUse(r) < Rpm /\ Fault
  /\ \E o \in observations : o.run = r /\ o.payload # None
  /\ RecordAttempt(r, "budget_exhausted")
  /\ UNCHANGED <<clock, queue, ledger, store, observations, evidence, before>>

\* Mutant: what failed is not worth a file.
FilesOfSuccess(response) == IF response.outcome = "success" THEN {response.body} ELSE {}

FilesOf(response) == {response.body} \ {None}

\* The answer, parsed in memory, and the file that holds its body.  The file
\* is written beside its place and renamed into it.
Receive(r, response) ==
  /\ At(r, "ask")
  /\ response.outcome = "success" => response.body # None
  /\ IF response.outcome = "success" THEN UNCHANGED faults ELSE Fault
  /\ files' = files \cup FilesOf(response)
  /\ run' = [run EXCEPT ![r].response = response,
                        ![r].pc = IF response.body = None THEN "observe" ELSE "store"]
  /\ UNCHANGED <<clock, queue, ledger, payloadRows, tables, before>>

\* complete and _record_attempt, and the loop ends; the rest is never tried.
TokenMissing(r) ==
  /\ At(r, "ask") /\ Fault
  /\ open' = open \ {r}
  /\ attempts' = attempts \cup {[run |-> r, row |-> Task(r).row, outcome |-> "blocked"]}
  /\ run' = [run EXCEPT ![r].pc = "blocked", ![r].agenda = <<>>, ![r].clean = FALSE]
  /\ UNCHANGED <<clock, queue, startedAt, status, reservations, store, observations, evidence,
                 before>>

StorePayloadRow(r) ==
  /\ At(r, "store")
  /\ payloadRows' = payloadRows \cup {run[r].response.body}
  /\ Goto(r, "observe")
  /\ UNCHANGED <<clock, queue, ledger, files, tables, ghosts>>

RecordObservation(r) ==
  /\ At(r, "observe")
  /\ LET response == run[r].response
     IN  /\ observations' = observations \cup
              {[run |-> r, address |-> Task(r).row.address, profile |-> Task(r).profile,
                outcome |-> response.outcome, payload |-> response.body]}
         /\ Goto(r, IF response.outcome = "success" THEN "evidence" ELSE "complete")
  /\ UNCHANGED <<clock, queue, ledger, store, evidence, attempts, ghosts>>

AppendEvidence(r) ==
  /\ At(r, "evidence")
  /\ evidence' = evidence \cup {[run |-> r, address |-> Task(r).row.address]}
  /\ Goto(r, "complete")
  /\ UNCHANGED <<clock, queue, ledger, store, observations, attempts, ghosts>>

CompleteReservation(r) ==
  /\ At(r, "complete")
  /\ open' = open \ {r}
  /\ Goto(r, "attempt")
  /\ UNCHANGED <<clock, queue, startedAt, status, reservations, store, tables, ghosts>>

FinishTask(r) ==
  /\ At(r, "attempt")
  /\ RecordAttempt(r, run[r].response.outcome)
  /\ UNCHANGED <<clock, queue, ledger, store, observations, evidence, ghosts>>

FinalStatus(r) == IF At(r, "blocked") THEN "blocked"
                  ELSE IF run[r].clean THEN "completed" ELSE "partial"

CompleteRun(r) ==
  /\ At(r, "next") \/ At(r, "blocked")
  /\ run[r].agenda = <<>>
  /\ status' = [status EXCEPT ![r] = FinalStatus(r)]
  /\ run' = [run EXCEPT ![r] = [NoRun EXCEPT !.pc = "over", !.selected = run[r].selected]]
  /\ UNCHANGED <<clock, queue, startedAt, reservations, open, store, tables, ghosts>>

\* A crash, or an exception nothing catches.  What the run was doing is
\* remembered for the properties: the task, its place in it, its answer.
Die(r) ==
  /\ run[r].pc \notin {"idle", "over", "dead"} /\ Fault
  /\ run' = [run EXCEPT ![r] = [NoRun EXCEPT !.pc = "dead",
               !.agenda = IF run[r].pc \in {"evidence", "complete", "attempt"}
                          THEN <<Task(r)>> ELSE <<>>,
               !.response = IF run[r].pc = "next" THEN None ELSE run[r].response]]
  /\ UNCHANGED <<clock, queue, ledger, store, tables, before>>

Next ==
  \/ \E batch \in SUBSET Rows : ImportCandidates(batch)
  \/ Tick
  \/ \E r \in Runs :
       \/ \E mode \in Modes : Start(r, mode)
       \/ Skip(r) \/ Reserve(r) \/ RateLimited(r) \/ BudgetExhausted(r)
       \/ \E response \in Responses : Receive(r, response)
       \/ TokenMissing(r) \/ StorePayloadRow(r) \/ RecordObservation(r)
       \/ AppendEvidence(r) \/ CompleteReservation(r) \/ FinishTask(r)
       \/ CompleteRun(r) \/ Die(r)

Spec == Init /\ [][Next]_vars

-----------------------------------------------------------------------------
(***************************************************************************)
(* Properties                                                              *)
(***************************************************************************)

\* The task of a run that has its observation and not yet its attempt.
Midway(r) == run[r].agenda # <<>> /\ run[r].pc \in {"evidence", "complete", "attempt", "dead"}
Unfinished(o) == Midway(o.run) /\ Task(o.run).row.address = o.address

\* What a run bought is never lost to the ledgers but in the turn of the loop
\* it is in, or died in (fetch.py:209): an answer that parsed has its evidence
\* and every answer an attempt of the same outcome; no evidence and no attempt
\* tells of an answer that is not there.
AnswersReachLedgers ==
  /\ \A o \in observations :
       \/ Unfinished(o)
       \/ /\ \E t \in attempts : /\ t.run = o.run /\ t.row.address = o.address
                                 /\ t.outcome = o.outcome
          /\ o.outcome = "success" => [run |-> o.run, address |-> o.address] \in evidence
  /\ \A e \in evidence : \E o \in observations :
       o.run = e.run /\ o.address = e.address /\ o.outcome = "success"
  /\ \A t \in attempts : t.outcome \in Outcomes => \E o \in observations :
       o.run = t.run /\ o.address = t.row.address /\ o.outcome = t.outcome

\* A run asks for an address once however many rows name it, and never for a
\* profile an earlier run, over when it started, got within its TTL; detail is
\* got once for all.
NothingBoughtTwice ==
  \A o, p \in observations : o.address = p.address =>
    /\ o.run = p.run => o = p
    /\ p.run \in before[o.run] /\ p.outcome = "success" =>
         /\ p.profile = "detail" => o.profile # "detail"
         /\ p.profile = "discovery" /\ o.profile = "discovery"
              => startedAt[o.run] - startedAt[p.run] >= DiscoveryTTL

\* Every body an observation names is registered and on disk; a file nobody
\* registered is one a run is registering or died before registering
\* (raw_payloads.py:37), and the next run that receives the body repairs it.
PayloadsKept ==
  /\ { o.payload : o \in observations } \subseteq payloadRows \cup {None}
  /\ payloadRows \subseteq files
  /\ \A f \in files \ payloadRows : \E r \in Runs :
       run[r].pc \in {"store", "dead"} /\ run[r].response # None /\ run[r].response.body = f

\* Does not hold.  "Persist observation and normalized Tier C evidence in one
\* transaction" (docs/specs/2026-07-22-btc-address-identity-development-spec.md:221):
\* no state has the one without the other.
ObservationWithEvidence ==
  \A o \in observations :
    o.outcome = "success" => [run |-> o.run, address |-> o.address] \in evidence
=============================================================================
