------------------------------ MODULE OneShot ------------------------------
(***************************************************************************)
(* The one-shot executors of the BTC universe: billed BigQuery queries     *)
(* that an authorization allows once.  A census authorization reads one    *)
(* aggregate row (CandidateStatisticsExecutor v1 and v2, and the           *)
(* reconciler of v2); a table authorization fills a private destination    *)
(* table (StrictV2SMaterializationExecutor: run, resume, reconcile).  The  *)
(* only thing that outlives a command is its receipt file.                 *)
(*                                                                         *)
(* Abstracted: the pinned checksums, byte counts and row counts are gates  *)
(* that pass or block; a receipt is its status; a job is the state BigQuery*)
(* keeps for the authorization's deterministic job id.                     *)
(***************************************************************************)
EXTENDS Integers, FiniteSets

CONSTANTS
  Commands,     \* slots for the commands (processes) operators run at once
  Auths,        \* authorization ids, each with its receipt path and job id
  Tables,       \* those with a destination table
  Recovered,    \* [recovery authorization -> the authorization it recovers]
  Population,   \* the census authorizations a table's cost gate relies on
  None

Recoveries == DOMAIN Recovered

ASSUME AuthAssumption ==
  /\ Tables \subseteq Auths
  /\ Recoveries \subseteq Auths \ Tables
  /\ \A a \in Recoveries : Recovered[a] \in (Auths \ Tables) \ Recoveries
  /\ Population \subseteq Auths \ Tables
ASSUME NoneAssumption == None \notin Auths
ASSUME FiniteAssumption == IsFiniteSet(Commands) /\ IsFiniteSet(Auths)

VARIABLES
  receipt,   \* status in the receipt file of each authorization
  \* BigQuery's side
  job,       \* the job of each authorization's job id
  table,     \* the destination table of each authorization
  calls,     \* query() calls made for each authorization
  \* the memory of each command
  pc, auth, op, reviewed

cloud  == <<job, table, calls>>
asked  == <<auth, op, reviewed>>
memory == <<pc, asked>>
vars   == <<receipt, cloud, memory>>

\* "torn" is the file between its exclusive creation and its content.
Statuses == {"none", "torn", "started", "preparation_failed", "submission_unknown",
             "failed", "completed", "quality_blocked"}
\* "good" passes every gate of _execution_outcome, "blocked" is billed as
\* well but fails one; a failed job is not billed.
Jobs   == {"none", "running", "good", "blocked", "failed"}
Billed == {"good", "blocked"}

\* Program counter: the file or cloud operation a command makes next.
Steps == {"gating", "creating", "writing", "preparing", "unprepared", "reopening",
          "submitting", "waiting", "lost", "fetching", "recording"}

TypeOK ==
  /\ receipt \in [Auths -> Statuses]
  /\ job \in [Auths -> Jobs]
  /\ table \in [Auths -> {"none", "empty", "full", "expired"}]
  /\ calls \in [Auths -> Nat]
  /\ pc \in [Commands -> Steps \cup {"idle"}]
  /\ auth \in [Commands -> Auths \cup {None}]
  /\ op \in [Commands -> {"none", "run", "resume", "reconcile"}]
  /\ reviewed \in [Commands -> Nat]
  /\ \A k \in Commands : pc[k] \in Steps => auth[k] \in Auths

Init ==
  /\ receipt = [a \in Auths |-> "none"]
  /\ job = [a \in Auths |-> "none"]
  /\ table = [a \in Auths |-> "none"]
  /\ calls = [a \in Auths |-> 0]
  /\ pc = [k \in Commands |-> "idle"]
  /\ auth = [k \in Commands |-> None]
  /\ op = [k \in Commands |-> "none"]
  /\ reviewed = [k \in Commands |-> 0]

Live(k) == pc[k] \in Steps

Goto(k, from, to) ==
  /\ pc[k] = from
  /\ pc' = [pc EXCEPT ![k] = to]

\* The command ends; its memory is gone and its slot free for another.
Leave(k, from) ==
  /\ Goto(k, from, "idle")
  /\ auth' = [auth EXCEPT ![k] = None]
  /\ op' = [op EXCEPT ![k] = "none"]
  /\ reviewed' = [reviewed EXCEPT ![k] = 0]

SetReceipt(a, status) == receipt' = [receipt EXCEPT ![a] = status]

-----------------------------------------------------------------------------
(***************************************************************************)
(* The gates                                                               *)
(***************************************************************************)

\* receipt_path.exists(), and the O_EXCL of _create_receipt_exclusive.
Unclaimed(a) == receipt[a] = "none"

\* _validate_recovery_evidence: the recovered authorization has its pinned
\* receipt, which is a failed one.  What the request says of the first job
\* (quotaExceeded, nothing processed or billed) is the operator's word:
\* BigQuery is not asked.
RecoveryEvidence(a) ==
  a \in Recoveries => receipt[Recovered[a]] = "failed"

PopulationPresent(a) ==
  a \in Tables => \A b \in Population : receipt[b] # "none"
\* validate_candidate_population_contract_v2: the pinned census receipts,
\* which are quality_blocked.
PopulationSealed(a) ==
  a \in Tables => \A b \in Population : receipt[b] = "quality_blocked"

\* monthly_successful_query_usage
JobsBilled == Cardinality({ a \in Auths : job[a] \in Billed })

ReconcilableAnyCensus(a) ==
  IF a \in Tables THEN receipt[a] = "submission_unknown" ELSE receipt[a] \in {"started", "failed"}
\* Which receipt reconciliation accepts.
Reconcilable(a) ==
  IF a \in Tables THEN receipt[a] = "submission_unknown"
  ELSE a \in Recoveries /\ receipt[a] = "started"

-----------------------------------------------------------------------------
(***************************************************************************)
(* Commands                                                                *)
(***************************************************************************)

\* An operator reviews the month's usage, then starts a command, which looks
\* at the receipt first.
Begin(k, a, o, next) ==
  /\ Goto(k, "idle", next)
  /\ auth' = [auth EXCEPT ![k] = a]
  /\ op' = [op EXCEPT ![k] = o]
  /\ reviewed' = [reviewed EXCEPT ![k] = JobsBilled]
  /\ UNCHANGED <<receipt, cloud>>

Run(k, a) ==
  /\ Unclaimed(a)
  /\ RecoveryEvidence(a)
  /\ Begin(k, a, "run", "gating")

\* resume_after_preparation_failure
Resumable(a) == a \in Tables /\ receipt[a] = "preparation_failed"
Resume(k, a) ==
  /\ Resumable(a)
  /\ Begin(k, a, "resume", "gating")

\* The operator of a census reconciles "after confirming the original client
\* process has stopped"; of a table the receipt alone decides.
OriginalStopped(a) == a \in Tables \/ \A j \in Commands : Live(j) => auth[j] # a
Reconcile(k, a) ==
  /\ Reconcilable(a)
  /\ OriginalStopped(a)
  /\ Begin(k, a, "reconcile", "fetching")

\* The live cost checkpoint, against the usage the operator reviewed.
PassGate(k) ==
  /\ Goto(k, "gating", IF op[k] = "run" THEN "creating" ELSE "preparing")
  /\ PopulationSealed(auth[k])
  /\ JobsBilled = reviewed[k]
  /\ UNCHANGED <<receipt, cloud, asked>>

\* Any other gate may refuse, whatever the state.
BlockGate(k) ==
  /\ Leave(k, "gating")
  /\ UNCHANGED <<receipt, cloud>>

\* os.open(O_CREAT | O_EXCL)
CreateReceipt(k) ==
  /\ Goto(k, "creating", "writing")
  /\ Unclaimed(auth[k])
  /\ SetReceipt(auth[k], "torn")
  /\ UNCHANGED <<cloud, asked>>

AlreadyAttempted(k) ==
  /\ Leave(k, "creating")
  /\ ~Unclaimed(auth[k])
  /\ UNCHANGED <<receipt, cloud>>

AfterReceipt(a) == IF a \in Tables THEN "preparing" ELSE "submitting"
WriteReceipt(k) ==
  /\ Goto(k, "writing", AfterReceipt(auth[k]))
  /\ SetReceipt(auth[k], "started")
  /\ UNCHANGED <<cloud, asked>>

\* The write fails: the file is removed and the exception goes up.
UnlinkReceipt(k) ==
  /\ Leave(k, "writing")
  /\ SetReceipt(auth[k], "none")
  /\ UNCHANGED cloud

TableOverwritable(a) == table[a] # "expired"
\* prepare_destination_table_no_retry: create_table(exists_ok=False).  An
\* expired table is not created again, its expires_at being in the past.
TableVacant(a) == table[a] = "none"
PrepareTable(k) ==
  /\ \/ Goto(k, "preparing", IF op[k] = "run" THEN "submitting" ELSE "reopening")
     \/ Goto(k, "preparing", "unprepared")   \* the answer is lost or refused
  /\ TableVacant(auth[k])
  /\ table' = [table EXCEPT ![auth[k]] = "empty"]
  /\ UNCHANGED <<receipt, job, calls, asked>>

PrepareFails(k) ==
  /\ Goto(k, "preparing", "unprepared")
  /\ UNCHANGED <<receipt, cloud, asked>>

RecordUnprepared(k) ==
  /\ Leave(k, "unprepared")
  /\ SetReceipt(auth[k], "preparation_failed")
  /\ UNCHANGED cloud

\* A resumed attempt replaces its receipt before it submits.
ReopenReceipt(k) ==
  /\ Goto(k, "reopening", "submitting")
  /\ SetReceipt(auth[k], "started")
  /\ UNCHANGED <<cloud, asked>>

\* query(job_id = ...), without retry: BigQuery takes a job id once.
Submit(k) ==
  /\ \/ /\ Goto(k, "submitting", "waiting") \/ Goto(k, "submitting", "lost")
        /\ job[auth[k]] = "none"
        /\ job' = [job EXCEPT ![auth[k]] = "running"]
     \/ /\ Goto(k, "submitting", "lost")
        /\ UNCHANGED job
  /\ calls' = [calls EXCEPT ![auth[k]] = @ + 1]
  /\ UNCHANGED <<receipt, table, asked>>

ReadableAnyState(a) == job[a] # "none" /\ (a \in Tables => table[a] = "full")
\* get_job, result and get_table answer when the job succeeded.
Readable(a) == job[a] \in Billed /\ (a \in Tables => table[a] = "full")

Answered(k) ==
  /\ Goto(k, "waiting", "recording") \/ Goto(k, "fetching", "recording")
  /\ Readable(auth[k])
  /\ UNCHANGED <<receipt, cloud, asked>>

\* Any exception while waiting, the job having failed or not.
AnswerLost(k) ==
  /\ Goto(k, "waiting", "lost")
  /\ UNCHANGED <<receipt, cloud, asked>>

LostStatus(a) == IF a \in Tables THEN "submission_unknown" ELSE "failed"
RecordLost(k) ==
  /\ Leave(k, "lost")
  /\ SetReceipt(auth[k], LostStatus(auth[k]))
  /\ UNCHANGED cloud

\* Reconciliation that cannot read the job leaves the receipt as it is.
FetchFails(k) ==
  /\ Leave(k, "fetching")
  /\ UNCHANGED <<receipt, cloud>>

\* _execution_outcome: a census read too late is stale, hence blocked.
Verdicts(a) ==
  IF job[a] # "good" THEN {"quality_blocked"}
  ELSE IF a \in Tables THEN {"completed"} ELSE {"completed", "quality_blocked"}

RecordOutcome(k) ==
  /\ Leave(k, "recording")
  /\ \E v \in Verdicts(auth[k]) : SetReceipt(auth[k], v)
  /\ UNCHANGED cloud

Crash(k) ==
  /\ \E from \in Steps : Leave(k, from)
  /\ UNCHANGED <<receipt, cloud>>

-----------------------------------------------------------------------------
(***************************************************************************)
(* BigQuery                                                                *)
(***************************************************************************)

\* WRITE_EMPTY and CREATE_NEVER: a table job needs the empty table.
JobSucceeds(a) ==
  /\ job[a] = "running"
  /\ a \in Tables => table[a] = "empty"
  /\ \E result \in Billed : job' = [job EXCEPT ![a] = result]
  /\ table' = [table EXCEPT ![a] = IF a \in Tables THEN "full" ELSE @]
  /\ UNCHANGED <<receipt, calls, memory>>

JobFails(a) ==
  /\ job[a] = "running"
  /\ job' = [job EXCEPT ![a] = "failed"]
  /\ UNCHANGED <<receipt, table, calls, memory>>

\* Seven days after the receipt the table is gone.
Expire(a) ==
  /\ table[a] \in {"empty", "full"}
  /\ table' = [table EXCEPT ![a] = "expired"]
  /\ UNCHANGED <<receipt, job, calls, memory>>

Step(k) ==
  \/ PassGate(k) \/ BlockGate(k)
  \/ CreateReceipt(k) \/ AlreadyAttempted(k) \/ WriteReceipt(k) \/ UnlinkReceipt(k)
  \/ PrepareTable(k) \/ PrepareFails(k) \/ RecordUnprepared(k) \/ ReopenReceipt(k)
  \/ Submit(k) \/ Answered(k) \/ AnswerLost(k) \/ RecordLost(k)
  \/ FetchFails(k) \/ RecordOutcome(k)

Next ==
  \/ \E k \in Commands, a \in Auths : Run(k, a) \/ Resume(k, a) \/ Reconcile(k, a)
  \/ \E k \in Commands : Step(k) \/ Crash(k)
  \/ \E a \in Auths : JobSucceeds(a) \/ JobFails(a) \/ Expire(a)

Spec == Init /\ [][Next]_vars

-----------------------------------------------------------------------------
(***************************************************************************)
(* Properties                                                              *)
(***************************************************************************)

\* An authorization asks BigQuery to run its query at most once, and only
\* with its receipt on disk, whatever commands overlap or die ("Any receipt
\* permanently consumes the authorization").
SubmittedOnce ==
  \A a \in Auths :
    /\ calls[a] <= 1
    /\ calls[a] > 0 => receipt[a] \notin {"none", "torn"}

\* A census and its recovery never both claim a result: a recovery has a
\* receipt only over the failed receipt of the first census, which nothing
\* replaces afterwards ("immutable and must remain present"), neither its own
\* commands nor a reconciliation that gets the late answer.
RecoveryOverFailure ==
  \A a \in Recoveries : receipt[a] # "none" => receipt[Recovered[a]] = "failed"

\* A destination table is created and filled only over the sealed census
\* receipts its cost gate accepted, which nothing replaces afterwards.
SealedPopulation ==
  \A a \in Tables :
    table[a] # "none" \/ calls[a] > 0 =>
      \A b \in Population : receipt[b] = "quality_blocked"

\* A receipt that claims a result has a billed job behind it, and a
\* completed one a job that passed every gate.
ClaimsAreBacked ==
  \A a \in Auths :
    /\ receipt[a] = "completed" => job[a] = "good"
    /\ receipt[a] = "quality_blocked" => job[a] \in Billed

-----------------------------------------------------------------------------
(***************************************************************************)
(* What the documents say and the code does not do                         *)
(***************************************************************************)

\* "this is permitted only when the receipt proves execution_calls=0": a
\* preparation_failed receipt means that nothing was submitted.  Of two
\* overlapping resumes the one that cannot create the table overwrites the
\* receipt of the other, whose query is under way.
UnpreparedUnsubmitted ==
  \A a \in Auths : receipt[a] = "preparation_failed" => calls[a] = 0
=============================================================================
