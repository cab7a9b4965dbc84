# A TLA+ model of crypto_address_identity

`crypto_address_identity` collects, stores and publishes claims about who owns
a cryptocurrency address. It buys identity data from a metered provider, keeps
every observation in one SQLite database, resolves the claims into versions and
exports them; a second half builds the population of addresses worth asking
about from BigQuery aggregates, through jobs that may run exactly once.

The program's hard part is not computation but *accounting*: every provider
request costs points, every aggregate query costs money, every command is a
process of its own started by an operator or by launchd, and any of them may
die between any two database transactions or overlap with another. The modules
here state what must hold nevertheless, check it with TLC on small instances,
and prove the core of it with TLAPS for every instance.

Paths below are relative to the package `src/src/crypto_address_identity/`.

## 1. Inventory

### 1.1 Components

| component | code | state it keeps | operations |
|---|---|---|---|
| address enrichment campaign | `address_enrichment.py` | `coverage_address_campaign`, `..._attempt`, `coverage_address_parse_result`, observations and evidence of one route | `run`; queue builders (file to file) |
| entity fanout | `entity_fanout.py` | `coverage_entity_prediction*`, attempts, `coverage_entity_retry_exhaustion` | `run`, `finalize`, canary reader, snapshot builder |
| request quota | `candidates.py` | `request_reservation`, counters of `ingestion_run` | `reserve`, `complete` |
| coverage sync | `coverage.py` | entity, prediction and address freshness tables | `run`, `import_seeds` |
| candidate fetch | `fetch.py`, `candidates.py` | `candidate_request`, `candidate_attempt` | `run`, import, select |
| provider client | `providers/zero_x_router.py` | none | `fetch_request`, `fetch_request_once`, parsers |
| evidence ledger | `evidence.py` | `identity_evidence` | `import_records`, `append_provider_candidates` |
| resolver | `resolver.py` | claims, reviews, local overrides, conflict sets, resolutions by version | `record_review`, `record_local_override`, `rebuild` |
| database | `storage/sqlite.py` | schema and append-only triggers | `migrate`, `write_transaction` |
| raw payload store | `storage/raw_payloads.py` | content-addressed files and their rows | `persist` |
| exports, audit, consumers | `exports.py`, `audit.py`, `consumers/` | snapshot directories | `export`, reports, replays |
| proof importers | `proofs/` | none of their own | parse, verify, hand to the evidence ledger |
| one-shot executors | `universe/candidate_*execution*.py` | a receipt file per authorization, a BigQuery job | execute, resume, reconcile |
| campaign store, publication | `universe/storage.py`, `universe/features.py`, `universe/candidate_publication_v2_s.py` | staging and final directories under one root | stage, verify, publish |
| policies and censuses | `universe/policy.py`, `universe/candidate_statistics*.py`, `universe/sql/` | none | classify an address, count and reconcile a population |
| probes, configuration, chains, CLI | `universe/bigquery.py`, `core/`, `chains/`, `cli.py` | none | argument parsing, external reads |

`PROJECT.json` lists every component with its status and every hazard with its
line and the properties that cover it.

### 1.2 How they interact

* **Only through the database.** A service holds no lock across transactions.
  `write_transaction` takes the SQLite write lock for one `with` block, plain
  reads run in autocommit. So a read and the write that depends on it are two
  steps, with other processes in between.
* **One quota for four services.** Fetch, coverage sync, entity fanout and
  address enrichment reserve their request slots from the same
  `request_reservation` table.
* **Feedback.** Address enrichment discovers entities and imports them as
  seeds; entity fanout expands seeds into address memberships; memberships make
  addresses not due for enrichment.
* **Universe commands meet in the file system**, not in the database: in the
  receipt file of an authorization and in the `campaigns/` directory of the
  universe root. The exclusive creation of a file, the rename of a directory and, on
  BigQuery's side, the creation of a table are their only locks.
* **The provider** is reached over HTTP with a timeout. A request it has
  received is paid for, whether or not the process lives to record the answer.

### 1.3 What is hard, and what correctness means

| component | hard behaviour | what makes it correct |
|---|---|---|
| address enrichment | overlapping runs, death anywhere, stale plan | an address is paid for at most once; each record has its cause; a campaign is bound once; runs end |
| entity fanout | attempt written after the request; freezing while runs add attempts | every request and membership is accounted for; only 502 entities freeze; the breaker stops the batch |
| quota | count and insert are separate; clocks frozen at run start; late actual sizes | rate and budget overshoot are bounded; counters agree with rows |
| coverage sync | several transactions per item, four freshness tables, one window for four kinds of request | what is fresh was filed; what is settled is not bought again; the plan fits the window; unfinished work goes first |
| candidate fetch, raw payloads | six steps per item, death between any two; rows that repeat an address | an answer reaches every ledger; an address is asked for once; a body that is named is on disk |
| resolver | late evidence and decisions, versions rebuilt in any order, conflicts shared by versions | a name is justified and rests on what was known then; history is never rewritten; a rebuild is all or nothing |
| one-shot executors | overlapping runs, resumes and reconciliations; answers lost around job submission; files torn by a crash | the paid query is asked for at most once per authorization; a recovery rests on a failed receipt that stays as it is; a receipt tells the truth |
| publication | several publishers of one id, no lock, a source that repeats rows, a crash while staging | readers see nothing or one whole artifact that never changes; a run's outcome is true |
| policies and censuses | one policy written in SQL and in Python, sums over windows, checks that block | the writings agree; no check refuses what the query makes |

## 2. Plan

Modules, in the order they were written; all of them are done.

1. `CampaignLedger`: the abstract promise of a paid campaign.
2. `AddressEnrichment`: the service, shown to implement the ledger; proofs in
   `AddressEnrichmentProofs`.
3. `EntityFanout`: run and finalize; proofs in `EntityFanoutProofs`.
4. `Quota`: reserve and complete; proofs in `TotalsProofs`.
5. `OneShot`: authorization receipts, submission, resume and reconciliation of the
   paid BigQuery jobs; proofs in `OneShotProofs`.
6. `CoverageSync` and `FetchRun`: the two other metered loops, the second with the
   candidate queue and the payload store; `Selection` is the sorting and cutting both
   plan with; proofs in `CoverageSyncProofs` and `FetchRunProofs`.
7. `Resolver`: the evidence ledger, reviews, overrides and rebuild; proofs in
   `ResolverProofs`.
8. `Artifacts`: what readers of the universe root are promised; `Publication`: the
   two commands that publish there, shown to implement it; proofs in
   `PublicationProofs`.
9. `Census`: the two importance policies, in SQL and in Python, over histories of
   addresses; proofs in `TotalsProofs`, with those of `Quota`, since both rest on the
   same laws of sums and counts.

Composition: 2 stands on 1 and `Publication` on `Artifacts` by `INSTANCE`. Where
services meet in a table, each module has an action for what the other writes: `Cover` in
2 (memberships), `Learn` in 3 (seeds), `ImportSeeds` in `CoverageSync`, the reservations of
overlapping runs in `Quota`, `CoverageSync` and `FetchRun`.

Left: `migrate` and the exporter, which are small and have no overlap with the
services (section 7).

## 3. Modules and their correspondence to the code

In every module the variables are in three groups: the database (survives a
crash), the provider's side (what it has received, which the program cannot see)
and the memory of each process (lost in a crash). One action is one database
transaction, autocommit read or network call with the computation up to the
next one. The program counter `pc` names the call that comes next. `PROJECT.json`
"map" gives the lines of every definition.

### 3.1 `CampaignLedger`

Each subject of a campaign moves `free -> claimed -> paid -> recorded`, one step
at a time and never back. It says nothing about runs, quotas or crashes.

### 3.2 `AddressEnrichment`

`BtcV2SAddressEnrichmentService.run` with all calls it makes.

| variables | code |
|---|---|
| `binding`, `attempts`, `parses`, `memberships`, `seeds`, `evidence`, `runStatus` | the tables named beside them in the module |
| `observed`, `points` | `source_observation` rows of the campaign and the points they add up to |
| `reserved`, `open` | reservation rows of a run; those not completed |
| `sent` | requests the provider received |
| `camp`, `input`, `plan`, `todo`, `cur`, `reply`, `known`, `found`, `tally` | locals of `run` |

A run goes `Start`, `ReadAttempts`, `ReadCoverage`, `PlanRun`, `BindCampaign`,
`CreateRun`; for each address `ReserveQuota`, `ReserveAttempt`, then `SkipDuplicate`
or `Dispatch`, `RecordObservation`, `SettleReservation`, and for a success
`RecordParse` and `AppendEvidence`; at last `ImportSeeds` and `CompleteRun`.
`QuotaRefused` and `Crash` cut in where the code may raise. `Cover` is the other
jobs' writing of memberships. The circuit breaker, the failure counter and the
point limit are in `tally`, looked at where the code looks at them.

Abstracted: queue rows are a set and any order is taken; the quota may refuse at
any time (module `Quota` says when it does); a response is an outcome, a price, whether
it parses and the entity it names; pacing (`sleep`) and raw payloads are
left out. A dry run and a missing token end before any write and are not told
apart from a run that never starts.

### 3.3 `EntityFanout`

`BtcEntityFanoutService.run` and `EntityRetryExhaustionService.finalize`. The run
reads its exclusions in four steps, then per entity: `ReserveQuota`,
`Dispatch`, `RecordObservation`, `RecordAttempt`, `RecordParse`,
`RecordPredictions`. Unlike address enrichment there is no claim before the
request, which is why it does *not* implement `CampaignLedger`. `ReadEligible` and
`Freeze` are finalize's read and its later write. The two SELECTs of finalize
are one step: the insert ignores ids that are frozen already, so what the second sees
cannot change the outcome. `Learn` stands for entity ids that arrive from
coverage sync and address enrichment. `answers` is what the attempt and observation rows of a
run under way say in order of their times: the outcomes, and which went over the byte
budget. `BreakerStops` reads the last of them, where the code counts strikes in memory.

### 3.4 `Quota`

`QuotaManager.reserve` is `Count` (the SELECTs, in autocommit) and `Insert` (the
INSERT, which alone takes the write lock); `complete` is `Complete`. The callers
are reduced to what the quota sees: `CreateRun`, `Ask` (take a time, call
reserve), `Send` with its transport retries, `Finish`. Coverage sync and fetch pass
the start time of the run to every reserve (`FrozenRuns`), the campaigns take the
time before each. The rolling minute is `Window` ticks of a counter. Two things are not in the
model: timestamps are compared as numbers, where the code compares ISO text,
and time steps are whole ticks.

### 3.5 `OneShot`

The commands that may spend a billed BigQuery query once: the census executors
`CandidateStatisticsExecutor` of versions 1 and 2 with the reconciler of version 2,
and `StrictV2SMaterializationExecutor` with `run`,
`resume_after_preparation_failure` and `reconcile_materialization_no_retry`. There is
no database here: the receipt file is all that outlives a command, and the
exclusive creation of that file the only synchronisation.

| variables | code |
|---|---|
| `receipt` | `status` in the receipt file of an authorization; "torn" between its creation and its content |
| `job`, `table`, `calls` | BigQuery: the job of the deterministic id, the private destination table, and `query()` calls |
| `auth`, `op`, `reviewed` | the authorization a command works on, which command it is, and the monthly usage its operator saw |

An operator starts `Run`, `Resume` or `Reconcile` in a free slot. The gates pass
(`PassGate`) or block for any reason (`BlockGate`); `CreateReceipt` and `WriteReceipt` are
`_create_receipt_exclusive`, `UnlinkReceipt` its clean-up after a failed write. A
table goes through `PrepareTable`, whose answer may be lost, or `PrepareFails`, and a
resumed one through `ReopenReceipt`. `Submit` is the only call of
`query()`; `Answered`, `AnswerLost` and then `RecordOutcome`, `RecordLost` end the
command. `JobSucceeds`, `JobFails` and `Expire` are BigQuery's.

Slots are used again, so the number of commands is not bounded. Two things the
code leaves to people are in the model as they are documented: an operator
reconciles a census only when the original command has stopped
(`OriginalStopped`), and an expired table is not
created again. A third is left to them here as well: that the job of a recovered census
failed without being billed is a fact the operator declares. The code checks the hash of the
failed receipt and compares the declared facts with pinned ones; it never asks BigQuery. So
`RecoveryEvidence` is the receipt alone, and a census whose answer was lost can end well and
be billed beside its recovery: no property says otherwise. What the code does
keep, `RecoveryOverFailure`, is that the failed receipt a recovery rests on is never
replaced: of the two censuses only the recovery may be reconciled, so the late answer of the
first one is not written over its receipt. The verdict of a census depends on when it is read, since its
data grows stale; that of a table does not.

Two ends of the protocol are dead, in the code and in the model: a table
receipt left "started" by a crash is accepted by no later command, and after a lost
answer of `create_table` every resume fails, the table being there. Both cost an
authorization and never a second query, which no document denies.

### 3.6 `Resolver`

`EvidenceService`, and `ResolverService` with `record_review`,
`record_local_override` and `rebuild`. The resolver relates no two addresses and no
two types of assertion except that they share a transaction, so the module is about
one address and one type, which the first row to arrive decides; a failure elsewhere in the
transaction is `RollBack`. The type matters to two rules: a name the provider alone gives is
the default only of an entity that controls the address (`IsProviderDefault`), and the
provider's tags are not eligible for the label of an address (`Eligible`).

| variables | code |
|---|---|
| `evidence`, `reviews`, `overrides` | the tables a rebuild reads |
| `claims` | `identity_claim`: a fingerprint (`Claims`), the `as_of` it was made for, what it supersedes |
| `conflicts` | `conflict_set` with its members, in order of creation |
| `resolutions` | `identity_resolution` with its candidates |
| `asOf`, `view` | the version a rebuild is making, and the tables as it read them |

A rebuild is two steps, because Python's `with connection` starts the transaction at
the first *write*: `ReadTables` is what comes before, in autocommit, `CommitRebuild` the
rest. What is read after the first insert is read from the current tables
(`BeforeWrite` tells the two apart, value by value in their order), and
`ClaimClash`, `ConflictClash` and `VersionClash` are the unique keys that abort a
rebuild which another one overtook. Abstracted: confidences, locators and expiry
arithmetic (a row is in force in an interval), proofs (`Unproved` rows are those the
verifier does not call valid; a batch that holds one is refused). Two
decisions of one instant would be ordered by random ids, so the model has none.

### 3.7 `CoverageSync`

`CoverageSyncService.run`: `Start`, two rankings, `PlanEntities`, a detail and the
predictions of each entity, `PlanAddresses`, each address, `CompleteRun`. A
request goes `Reserve` (or `RateLimited`, `BudgetExhausted`: the loop goes on),
`Answer` or `TokenMissing`, `CompleteReservation`, then `RecordPredictionAttempt`,
the parse result of its kind, and in the next transaction `RecordPredictions` or
`AppendEvidence`. `Die` cuts in anywhere.

| variables | code |
|---|---|
| `seeds` | `coverage_entity_seed` |
| `reservations`, `open`, `startedAt`, `status` | `request_reservation`, which of its rows are not completed, and `ingestion_run` |
| `observations`, `entityRows`, `attempts`, `entityParses`, `addressParses`, `members`, `evidence` | the tables named beside them in the module |
| `run` | the locals: stage, requests left, the last answer, whether all was clean |
| `before`, `faults` | history: which runs were over when a run started; how many faults so far |

Rows carry their run, and their time is the start of that run, as in the code. The selections
(`SelectDueEntities`, `SelectDueAddresses`) are translated whole: TTLs, cooldown,
exhaustion, priorities by rank, seed and incompleteness; order and limit are
`Selection.FirstOf`, the lists of that length in which nobody stands behind, or is left out
for, one that comes after it. HTTP
errors, transport errors and rate limits of the provider are one outcome, `failed`, because
the code treats them alike. The list of rankings held in memory is left out: its
entities are rows of the table by then.

### 3.8 `FetchRun`

`CandidateService` (import and both ways of selecting), `FetchService.run` and
`RawPayloadStore.persist`. `Start` selects rows and the profile of each; then, for each
task, `Skip`, or `Reserve`, `Receive` (the answer, its parse in memory and the file of its body),
`StorePayloadRow`, `RecordObservation`, `AppendEvidence`, `CompleteReservation` and
`FinishTask` (the attempt). A task holds what the code decides before the loop: a row is a
duplicate when an earlier one of the list names its address (`Agendas`). `files` and `payloadRows` are the payload directory and its
table; `queue`, `observations`, `evidence`, `attempts` are tables. The file is renamed
into place, so it is there whole or not at all.

### 3.9 `Artifacts` and `Publication`

`Artifacts` has one variable: what lies in `campaigns/<id>`. An id goes from absent
to one whole artifact, once. `Publication` is the two commands that write there:
`StrictV2SCandidateArtifactPublisher` and `BigQueryFeatureMaterializer` over
`CampaignWriter`. Both check that the directory of the id is free, build a staging
directory and rename it; neither holds a lock.

| variables | code |
|---|---|
| `published` | `campaigns/<id>` |
| `receipt` | the execution receipt, which belongs to another command (`RewriteReceipt`) |
| `phase` | how far a run is, or its outcome |
| `staging` | `.staging/<id>-<uuid>` |
| `seen`, `counted`, `observed` | duplicate tracker, counters by tier, pinned exclusions met |

Rows are taken one at a time, for a staging directory has one owner and a page
that is refused discards all of it. `Install` is `os.replace`, which fails on a directory
that is not empty. `Fail` is every exception before the rename; `Crash` leaves the
staging directory behind, as does a failure of `begin_campaign`, which is called outside the
`try`. After the rename the materializer syncs `campaigns/`; when that raises it reports a failure
although the campaign is there (`ReportSync`), so `OutcomeIsTrue` promises the
absence of an artifact after a failure only for the candidate publisher.

### 3.10 `Census`

The importance policies are written more than once: `candidate_statistics.sql` and
`policy.py`; `candidate_statistics_v2.sql`, `candidate_materialization_v2_s.sql` and
`_classify_candidate` of the publisher; and for each query a Python function that
reconciles its aggregate row and blocks the census when it does not add up. The
module builds a history transaction by transaction (`ConfirmTransaction`), sums it up as
the SQL does (`Economics`) and puts the writings side by side. Amounts are whole BTC, which
keeps the thresholds exact; an instant is a number of half days before the
cutoff, so that a window cut by instant and a day counted by date can differ. The
window of all time is one of 10,000 days (`AllTime`), in which every instant lies
(`TransactionsAssumption`, which also says that nothing is paid where there is no row). A
mask is the set of its bits (`Bit`); a ladder of counts is `Reach`, a distribution of
masks `Spread`.

Left out: the quality of the source (nulls, hashes of the schema), pinned hashes, hard
stops on absolute sizes, the histogram of scores, the calibration rows, and the checks that could
not fail for counts over one population: that no count exceeds it, that a count equals its copy,
that P0 and P1 of the first census overlap in nobody. The run has
one address, with every history at the thresholds; that the counts reconcile for every
finite population is proved (section 5).

## 4. Runs

| run | question | answer |
|---|---|---|
| `AddressEnrichment_overlap` | two overlapping runs, possibly with different inputs for one campaign, dying anywhere, while memberships arrive | at most one request per address; binding, provenance, entity and reservation accounting; the ledger is implemented |
| `AddressEnrichment_serial` | two runs one after the other over three rows with two points, fair steps | recorded requests stay within the point limit; a started run ends or dies |
| `EntityFanout_overlap` | two overlapping runs, of up to three entities and of one, dying, with learning and freezing | every request and membership accounted for; only 502 entities freeze; nothing is sent after a fatal answer, one over the byte budget or two failures in a row |
| `Quota_overlap` | two overlapping runs, different limits, one frozen clock | overshoot of window and budget bounded; counters agree |
| `Quota_shared` | do two processes together respect the rate? | no: both count, then both insert (finding) |
| `OneShot_overlap` | any three commands at a time over a census, its recovery and the table that relies on the recovery, dying, with answers lost | one submission per authorization, a recovery rests on a failed receipt, the table filled only over the sealed population, truthful receipts |
| `OneShot_resume` | does "preparation_failed" prove that nothing was submitted? | not when two resumes overlap (finding) |
| `Resolver_overlap` | two overlapping rebuilds of two versions in either order, while evidence and a decision arrive, of who controls an address or of its label | usable names are justified; a version rests on its past; one revision per value and `as_of`; conflicts traceable; no history lost |
| `CoverageSync_overlap` | two runs, overlapping or a TTL apart, with bad answers, refusals and deaths | what is fresh is filed; what is settled is not bought again; a plan fits its window; unfinished entities go first |
| `FetchRun_overlap` | two runs over a growing queue, plain or source-scoped, with bad answers, refusals and deaths | an answer reaches evidence and attempt but for the turn its run died in; one request per address; bodies kept |
| `Census_history` | every history of up to three transactions around the thresholds | SQL, Python and reconciliations agree; the second policy narrows the first |
| `Publication_overlap` | two publishers and two materializers of one id, failing or dying, while the receipt is rewritten and rows repeat | one whole artifact that never changes; outcomes are true; `Artifacts` is implemented |

All properties are safety properties except `RunsEnd`. Deadlock checking is off
everywhere: runs are finite in number and the system is at rest when they are over, in
`OneShot` when every authorization is used up, in `Resolver` when every row and version is in,
in `Census` when a history is at its bound.

### Bounds, and why they are enough

* Two runs at a time suffice for every race modelled: each hazard is a pair
  (reader/writer, claimer/claimer, counter/inserter). The second run
  also shows what the death of the first leaves behind.
* Two addresses or entities: one in a run's hand, one in the rest of the batch; a batch of
  one cannot show the limit or an unfinished plan. Three rows with two
  points are what it takes for a plan to be cut.
* Two inputs for one campaign: one in conflict with the other. A point limit of
  two with prices one and two lets a single response use it up.
* `EntityFanout`: `MaxConsecutiveFailures = 2` and a run of three entities are two failures with
  one more to send, and a success between two failures. The run of one entity is enough to ask,
  file or die beside it, for any entity and at any moment; with three for both, the run
  would not end in minutes. The entities of the canary are taken as finished (`InputIds`
  is empty), so those to ask for arrive one by one, before a run has read them or after.
* `Quota`: `Window = 2` and `MaxClock = 2` or `3` let rows leave the window; limits one and
  two are the two services; sizes 0, 1 and 4 are below, below and above
  the estimate of 2; `MaxRequests = 2` bounds reserves per run. `MaxClock` and
  `MaxRequests` are guards of the model, not of the code.
* `OneShot`: three commands, since a reconciliation can overlap a resume and the
  original client. The three authorizations are one of each role: a table, the
  recovered census and its recovery, which is the population the table relies on. `OneShot_resume` needs the table only.
* `Resolver`: two values make a conflict; each has provider evidence at the first
  instant, one has official evidence that arrives in time or late, and one row is unproved.
  Two instants are a version and its past. `MaxDecisions = 1`: one review or
  override, at either instant, on either value; evidence arrives in any batches.
  Labels have one row of each kind their type treats in its own way.
* `CoverageSync`: `Rpm = 5` leaves room for two rankings, one entity and an address, so that both
  selections are cut; `EntityTTL = 2`, `AddressTTL = Backoff = 1` and `MaxTime = 1` put a second run
  inside one and past the other two. The ranking changes from one instant to the next.
* `FetchRun`: three rows name two addresses, one of high priority, one in conflict; `Limit = 3` and
  `Rpm = 2`, so that a full plan is refused its third request.
* `MaxRuns = 2` and `MaxFaults = 2` in both: a fault is an answer that is not good, a refused
  budget, a missing token or a death. Two are needed for "fails, and the next
  run dies"; a third repeats one of them. All bounds named here are guards of the models.
* `Census`: instants at 30, 90, 90.5, 91, 365.5 and 370 days, receipts of 0, 10, 499, 500
  and 10,000 BTC, spends that leave a balance around a threshold. Three transactions
  are what "sustained activity" takes.
* `Publication`: two addresses, one pinned non-address, two tiers of two rows and one
  (`MaxRows = 2`): a repeated row can stand in for a missing one within a tier and across tiers.
* Symmetry over runs (and over addresses or entities where the constants treat
  them alike) is used in safety runs only.

### Fairness

`FairSpec` of `AddressEnrichment` assumes weak fairness of `Step(r)` for each run. A run is a single
thread; its HTTP calls have timeouts and its database calls wait at most the five
seconds of SQLite's busy timeout and then raise, which is `Crash`. So a run that is
alive and has a next step takes it. Nothing is assumed of operators (`Start`), other
jobs (`Cover`) or crashes. The other loops run over a plan that is fixed when they
start and shortens at every turn; the one of address enrichment is the one with a
`continue` before its counters move.

## 5. Proofs

TLAPS proves these for every value of the constants that meets the named
assumptions: finite sets of runs and of what they work on, limits and prices in the range
the configuration accepts, `None` outside the other sets. The number of runs, how they
overlap and where they die is never assumed, with the one exception marked in the table.

| theorem | says |
|---|---|
| `TypeCorrect`, `QuotaAccounted` | types; no reservation left open by a run that ends |
| `AtMostOnce`, `AttemptFirst` | the provider is asked at most once per address of a campaign; no request without a claim, no record without a request |
| `BindingGovernsAttempts`, `BindingNeverChanges` | a campaign is one queue, cohort and limit for ever |
| `EvidenceHasProvenance` | evidence has its parse result, a parse result its response |
| `EntitiesAreAccountedFor` | no discovered entity is lost except in a run that died or is still under way |
| `SerialRunsKeepTheLimit` | *if runs do not overlap*, a campaign never records more requests than its point limit |
| `LedgerImplemented` | the service refines `CampaignLedger` |
| `RequestsAreAccountedFor` | every request of a fanout has an attempt row, or its run stands before that row or died there |
| `MembersAreAccountedFor` | every parsed answer has its memberships, or its run stands before them or died there |
| `OnlyBadGatewaysFreeze` | what is exhausted has a 502 attempt |
| `BreakerAlwaysStops` | a run that sends has had no fatal answer, none over the byte budget, and not as many failures in a row as stop it |
| `SubmitsOnce` | at most one `query()` call per authorization, only under a written receipt |
| `RecoversFailures` | a recovery has a receipt only over the failed receipt of the census it recovers, which stays |
| `FillsOverSealed` | a table is created and filled only over the sealed census receipts |
| `ReceiptsTellTheTruth` | a receipt that claims a result has the billed job behind it |
| `OvershootIsBounded` | no rolling window holds more than the limit plus one row for each further run |
| `CountersAlwaysAgree` | the counters of a run are those of its closed rows; one row at most is open, none after it ended by itself |
| `BudgetOvershootIsBounded` | a run goes past its byte budget by at most one response larger than its estimate |
| `RowsAreAlwaysAccepted` | the publisher accepts every candidate row the SQL materializes, whatever the history |
| `CensusAlwaysReconciles` | no modelled reconciliation of the second census refuses what its SQL counts, for any population; P0, P1 and edge are disjoint parts of what V2-S keeps |
| `FirstCensusAlwaysReconciles` | the same of the first census |
| `CensusCountsWhatThePolicyDecides` | the first census counts by SQL the classes the policy decides in Python |
| `SecondPolicyOnlyNarrows` | no address is P0 or a candidate under the second policy that was none under the first |
| `PublicationInvHolds` | the inductive invariant of `Publication` |
| `PublishedIsWholeHolds` | what lies in `campaigns/<id>` is one whole artifact |
| `OutcomeIsTrueHolds` | success means the run's own artifact is there; a candidate run that fails left none |
| `PublicationImplementsArtifacts` | `Publication` refines `Artifacts` |
| `WinnersJustified` | a usable name was selected by an operator, or nothing stands against it and either a review accepted official evidence or all of it is the provider's and the assertion is one of control |
| `PointInTimeHolds` | a version rests on what was known and in force at its instant |
| `OneRevision` | no second revision of a claim for one `as_of` |
| `ConflictsTraceable` | claims that stand against one another are members of the conflict set their resolution names, and no conflict set is without a resolution |
| `HistoryIsKept` | no step changes or drops a revision, a resolution, a member of a conflict or the end of one |
| `CoverageSyncProofs.TypesHold` | types, and what a run holds at which step |
| `ParsedFiled` | evidence and memberships are those of the answers that parsed, but for the one a run is filing or died filing |
| `NothingTwice` (coverage) | what an earlier run settled within its TTL or cooldown is not asked for again |
| `PlanFits` | a run is refused a request by its window only if another run takes requests from it |
| `RetriesFirst` | incomplete entities are planned ahead of those due for their rank alone |
| `FetchRunProofs.TypesHold` | types, and what a run holds at which step |
| `Kept` | a body an observation names is registered and on disk; a stray file is one a run is registering or died registering |
| `NothingTwice` (fetch) | a run asks for an address once, and not for what an earlier run has fresh |
| `AnswersReach` | an answer that was observed reaches evidence and attempt, unless its run stands in that turn or died in it |

The arguments:

* **Types** (`TypeInv`): `TypeOK` is not inductive, for a step uses its run's
  campaign, address and response, which may be `None` elsewhere. `Holding` says which
  are there at which `pc`, and `OpenReservation` that a reservation is open
  exactly within an iteration.
* **Claims**: for at-most-once the database alone does not suffice; the row is
  there already when the owner is about to send. `Claims` adds that a run at
  "claimed" has a row with no request, that no two live runs are at such steps for one
  address, and the same for the request before its observation. The
  uniqueness of the INSERT OR IGNORE is what makes `ReserveAttempt` keep it.
* **Governance**: a run past `BindCampaign` works on rows of the inputs the
  campaign is bound to. Inserting only into an unbound campaign keeps it.
* **Provenance** and **Accounted** follow the response from the record to the
  parse result to the evidence, and the entity from the evidence to `found` to the
  seeds.
* **Point limit** (`PointsInv`): the limit is looked at when a run plans and after an
  answer, never before a request, so it holds because the plan was cut. What a campaign has
  recorded and what its run has ahead, taken as one set, fits the limit when the plan is made
  (every recorded address cost a point) and never grows afterwards. A second run would record
  addresses the first has not counted, which is why the theorem needs them apart.
* **Refinement**: `ReserveAttempt`, `Dispatch` and `RecordObservation` are `Claim`,
  `Pay` and `Record`; all other steps stutter. `Claims` rules out the steps that would skip
  or repeat a stage.
* **Fanout ledgers**: finalize freezes what it read in an earlier transaction; the
  row it read is still there, for attempts are only added (`FreezeInv`). A run owes a
  row from the request to the attempt (`OwingRow`) and its memberships from the parse
  result on (`Owing`), and a run that dies owes for ever. `FreshRun` says that a run
  has no row yet for an entity it is about to write one for, so that writing a row
  adds one exactly when the debt ends; the count of requests stays
  below rows plus debts.
* **Breaker** (`TallyInv`): strikes are reset by a success and live in memory, answers
  stay. A run in its loop has no fatal answer, and its strikes, which are below the limit, are
  the number of failures since its last success: the answer before them is one
  (`Untripped`). None of its answers is over the budget but the one at hand
  (`WithinBudget`, `OverAtHand`), since the budget is looked at after a success was filed.
* **Quota** (`SlotInv`): a run that has counted and not inserted is charged to
  the window its row will fall in. Rows plus charged runs stay within
  `Ceiling + MaxActive - 1`: a run that counts sees less than its limit of rows, and at
  most `MaxActive - 1` others wait.
* **Books** (`BookInv`): `complete` closes whatever row of its run is open. The rows of a run
  are numbered by its reserves and only the last can be open, so it closes the right one and no
  other, whether its request was answered or never sent. The estimate granted to that row is
  the room that bounds the overshoot. `SumBytes` is a fold; that it adds up
  whatever row is taken out first is itself proved, by well-founded induction on the
  finite subsets of the rows (`SumSplits`).
* **One submission** (`Exclusion` in `OneShotProofs`): a receipt alone does not show who may
  submit, for a resume starts from a receipt that others see as well. Two
  mutual exclusions carry it: only the creator of a receipt file writes it, and,
  for a table, the table itself is the lock, since `create_table` succeeds
  once. Hence at most one command stands before `Submit`, and none once the call is
  made.
* **Recovery** (`RecoveryJustified`): a command on a recovery has seen the failed receipt of
  the census it recovers. A failed receipt leaves that state only by a reconciliation, and the
  census that is recovered is none of those that may be reconciled.
* **Sealed population**: `quality_blocked` is the last status of a census
  receipt. A census has at most one command that may write its receipt, and none
  once the outcome is there (`Custody`, hence `SettledIsFinal`); so what a
  table command saw at its cost gate still holds when it creates the table
  and submits (`GatePassed`).
* **Truth**: a command about to record has read a job that ended well, and an
  ended job does not change.
* **Whole artifacts** (`Building` and `Writing` in `PublicationProofs`): that the final counts
  match does not show that every address is there once, since a repeated row would
  also be counted. The tracker does: every listed address is in `seen`, so a row is listed
  once and in one tier, and the counter of a tier is the number of addresses it lists and of
  exclusions met. At the end of the stream the exclusions are all met, so the
  counts leave exactly the pinned number of addresses (`SealedIsWhole`).
* **Outcomes** (`RootInv`): an artifact names its owner, and the owner's phase shows that it renamed. The
  rename needs a free directory, so nobody can take it from its owner. The
  refinement follows: only `Install` changes `published`, and from absent to whole.

* **Names and versions** (`ResolverInv`): each resolution is sound for the rows a rebuild
  read, which are a part of the rows that are there; it names the rows it rests on, and the
  tables only grow, so it stays sound. The latest review,
  override and revision exist because a finite set of rows has a latest one (well-founded
  induction on its subsets). The unique keys are what keeps an overtaken rebuild from
  committing a second revision or version.
* **Filed and settled** (`FilingInv`, `BuyingInv`): a run decides what to ask for when it
  plans and asks later. What it compared itself with are rows of runs that were over when it
  started, and those can no longer change (`PastKept`); so a request is as worthwhile when
  it is made as when it was planned. Filing follows the answer from the parse result to the
  rows of the next transaction, as in the other campaigns.
* **Window** (`WindowInv`): a plan holds every item once and each stage asks for something
  else, so every reservation has an observation of its own (`AsksOnce`); what is reserved
  and what is still planned stay within what the stage was given (`InPlan`), which is what
  the limit leaves.
* **Retries first**: the priorities of unfinished entities are 75 and up, those of a
  rank alone 70 and down, and a selection leaves nobody out for one that comes after him.
* **Fetch** (`PayloadsInv`, `BuyingInv`, `LedgerInv`): a body is on disk before its row, its row before
  the observation that names it. An agenda asks for an address in one place at most. An
  observation is finished (attempt and evidence there) or it is the one of the turn its run
  stands in or died in; and the run remembers the answer it recorded, so the attempt that ends
  the turn tells of the same one.

* **Features** (`Sound` in `TotalsProofs`): the invariant of `Census` is only that a ledger
  is a sequence of transactions; what the properties rest on is what every sum over one
  has. A balance is at most what came in, windows grow with their length, none has more
  days than transactions, and one holds a receipt of 500 BTC exactly when its largest
  one is that. The later lemmas use `Sound` and no history.
* **Sums and counts**: a distribution of masks adds up to the addresses it was made
  from, over any set of masks (`SpreadTotals`, by a minimal counterexample among those
  sets). Bits, unions and supported receipts are then the same sets written differently,
  and ladders and funnels are inclusions between finite sets (`ReachFalls`,
  `ReachGrows`, `FunnelIsValid`).
* **Two writings**: the scores are sums of the same points, the ladders read from either
  end (`PointsFacts`). The masks agree because whatever supports a receipt
  implies one of 500 BTC in the window (`SupportedReceipts`). A score of 15 needs more
  than recency, which gives 10 points at most: hence no address is a candidate of the
  second policy without a component of the first (`FeaturesNarrow`).

Every safety property of the passing runs is proved. Model-checked only: `RunsEnd`, which
is liveness: it rests on fairness, hence on ENABLED, which is out of the prover's reach. So
is induction over data through the library's theorems that take a predicate; where the
proofs above need one (sums, latest rows, distributions) they argue from a minimal
counterexample instead.

## 6. Findings

Each is a violation run whose counterexample is a behaviour of the code, and a
document that says otherwise; `PROJECT.json` "findings" quotes both.

1. `SharedWindowRespected`: reserve counts outside the transaction that inserts.
2. `UnpreparedUnsubmitted`: of two overlapping resumes, the one whose `create_table` is
   refused writes `preparation_failed` over the receipt of the other, whose query
   is under way.

Other sentences of the documents and tests are stated as properties in the modules and do
not hold of the code. They have no run of their own; adding one to the invariants of the run
of its module (of a small instance of it) shows the counterexample.

| property | what is said | what the code does |
|---|---|---|
| `AddressEnrichment.SkippedAtDispatch` | docs/btc_identity_operations.md:655: newly covered addresses "are skipped at dispatch time" | coverage is read when the plan is made |
| `AddressEnrichment.DiscoveredEntitiesSeeded` | the same, 653: newly observed entity ids "become deduplicated entity seeds" | a run that dies loses those it discovered, and the addresses that named them are terminal |
| `EntityFanout.AtMostOnePerEntity` | the same, 527: "at most one transport attempt in the campaign" | the attempt row comes after the request |
| `Quota.DispatchRateRespected` | docs/designs/2026-07-24-btc-address-universe-bootstrap-design.md:755: "never exceeds 25/minute" | reservations carry the start of the run, and transport retries share one |
| `Resolver.SameAsOfReproducible` | tests/resolver/test_resolver.py:260: "same as_of rebuild is reproducible" | once a rebuild of another version has resolved the conflict set, the repeat makes a new one and fails on the version that is there |
| `FetchRun.ObservationWithEvidence` | docs/specs/2026-07-22-btc-address-identity-development-spec.md:221: observation and evidence "in one transaction" | two transactions |

Two remarks without a property. A malformed predictions body leaves neither a terminal
parse result nor a failed attempt, so the cooldown of docs/btc_identity_operations.md:514 does not apply
to it: the entity is asked for again by the very next run. And `publish` of `CampaignWriter` reports
a failure when the directory cannot be synced after the rename (section 3.9).

## 7. Not modelled, and why

* `migrate`: it runs before the services and shares nothing with them but the
  schema. Every migration and its row are one script between BEGIN and COMMIT.
* The exporter: one read of the resolutions, serialized into a directory named for its `as_of`; a second
  export of that `as_of` compares bytes and is refused when they differ.
* The queue builders, canary and coverage snapshot: files to files, one
  process, no shared state; their difficulty is sorting and hashing.
* String algorithms (address checksums, JSON grammar of provider responses, PDF
  and CSV importers): an address or a payload is an opaque value here.
* Query text, pinned hashes and hard stops on absolute sizes of the censuses: comparisons with constants.
* Audit, consumers and probes: they read and report.
* The command line and launchd scripts: each command calls one service with parsed
  arguments, which is where the models start.
* Pacing between requests: it changes when a request is sent, not
  which; the rate properties of `Quota` hold for every timing.
