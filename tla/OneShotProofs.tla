---------------------------- MODULE OneShotProofs ----------------------------
(***************************************************************************)
(* What holds of OneShot for every set of commands and authorizations:     *)
(* its types, that no authorization submits twice, and that a recovery     *)
(* and a table rest on census receipts nothing replaces.                   *)
(***************************************************************************)
EXTENDS OneShot, FiniteSetTheorems, TLAPS

\* Past the claim: the command writes a receipt that is there already.
Held == Steps \ {"gating", "creating", "writing"}

\* About to submit, with nobody else of the authorization in the same place.
Asking == {"reopening", "submitting"}

\* While the receipt is not written, the authorization has done nothing, and
\* no command works on it but ones that have yet to claim it.
FreshIsUntouched ==
  \A a \in Auths : receipt[a] \in {"none", "torn"} =>
    /\ calls[a] = 0
    /\ table[a] = "none"
    /\ \A k \in Commands : auth[k] = a =>
         pc[k] \notin Held /\ (pc[k] = "gating" => op[k] = "run")

\* O_EXCL: one command at a time writes the content of a torn receipt.
OneWriter ==
  \A k \in Commands : pc[k] = "writing" =>
    /\ receipt[auth[k]] = "torn"
    /\ \A j \in Commands : pc[j] = "writing" /\ auth[j] = auth[k] => j = k

\* Only commands on a table prepare one or reopen a receipt.
TableCommands ==
  \A k \in Commands :
    /\ pc[k] \in {"preparing", "unprepared", "reopening"} => auth[k] \in Tables
    /\ pc[k] = "gating" /\ op[k] # "run" => auth[k] \in Tables

\* The exclusive receipt of a census, or the exclusive creation of a table,
\* lets one command through to submit, and nobody after it.
OneAsker ==
  \A k \in Commands : pc[k] \in Asking =>
    /\ calls[auth[k]] = 0
    /\ auth[k] \in Tables => table[auth[k]] # "none"
    /\ \A j \in Commands : pc[j] \in Asking /\ auth[j] = auth[k] => j = k

\* A query into a table is submitted when the table is there.
TableBeforeCall ==
  \A a \in Tables : calls[a] > 0 => calls[a] = 1 /\ table[a] # "none"

CalledOnce == \A a \in Auths : calls[a] <= 1

Exclusion ==
  /\ FreshIsUntouched
  /\ OneWriter
  /\ TableCommands
  /\ OneAsker
  /\ TableBeforeCall
  /\ CalledOnce
-----------------------------------------------------------------------------
(***************************************************************************)
(* Types                                                                   *)
(***************************************************************************)

\* The number of billed jobs an operator reviews is a number.
LEMMA UsageType == JobsBilled \in Nat
  BY FiniteAssumption, FS_Subset, FS_CardinalityType DEF JobsBilled

\* Nothing has been claimed, asked or spent: the initial state is well typed.
LEMMA InitType == Init => TypeOK
  BY AuthAssumption DEF Init, TypeOK, Statuses, Jobs, Steps

\* Every action keeps the types.
LEMMA TypeStep == TypeOK /\ [Next]_vars => TypeOK'
<1> SUFFICES ASSUME TypeOK, [Next]_vars PROVE TypeOK'
  OBVIOUS
<1> USE DEF TypeOK, Statuses, Jobs, Steps, Goto, Leave, SetReceipt, asked, cloud, memory
<1>1. CASE UNCHANGED vars
  BY <1>1 DEF vars
<1>2. ASSUME NEW k \in Commands, NEW a \in Auths, Run(k, a) \/ Resume(k, a) \/ Reconcile(k, a)
      PROVE TypeOK'
  BY <1>2, UsageType DEF Run, Resume, Reconcile, Begin
<1>3. ASSUME NEW k \in Commands, Step(k)
      PROVE TypeOK'
  <2>1. CASE PassGate(k)  BY <2>1 DEF PassGate
  <2>2. CASE BlockGate(k)  BY <2>2 DEF BlockGate
  <2>3. CASE CreateReceipt(k)  BY <2>3 DEF CreateReceipt
  <2>4. CASE AlreadyAttempted(k)  BY <2>4 DEF AlreadyAttempted
  <2>5. CASE WriteReceipt(k)  BY <2>5 DEF WriteReceipt, AfterReceipt
  <2>6. CASE UnlinkReceipt(k)  BY <2>6 DEF UnlinkReceipt
  <2>7. CASE PrepareTable(k)  BY <2>7 DEF PrepareTable
  <2>8. CASE PrepareFails(k)  BY <2>8 DEF PrepareFails
  <2>9. CASE RecordUnprepared(k)  BY <2>9 DEF RecordUnprepared
  <2>10. CASE ReopenReceipt(k)  BY <2>10 DEF ReopenReceipt
  <2>11. CASE Submit(k)  BY <2>11 DEF Submit
  <2>12. CASE Answered(k)  BY <2>12 DEF Answered
  <2>13. CASE AnswerLost(k)  BY <2>13 DEF AnswerLost
  <2>14. CASE RecordLost(k)  BY <2>14 DEF RecordLost, LostStatus
  <2>15. CASE FetchFails(k)  BY <2>15 DEF FetchFails
  <2>16. CASE RecordOutcome(k)  BY <2>16 DEF RecordOutcome, Verdicts
  <2>17. QED
    BY <1>3, <2>1, <2>2, <2>3, <2>4, <2>5, <2>6, <2>7, <2>8, <2>9, <2>10, <2>11, <2>12, <2>13, <2>14, <2>15, <2>16 DEF Step
<1>4. ASSUME NEW k \in Commands, Crash(k)
      PROVE TypeOK'
  BY <1>4 DEF Crash
<1>5. ASSUME NEW a \in Auths, JobSucceeds(a) \/ JobFails(a) \/ Expire(a)
      PROVE TypeOK'
  BY <1>5 DEF JobSucceeds, JobFails, Expire, Billed
<1>6. QED
  BY <1>1, <1>2, <1>3, <1>4, <1>5 DEF Next

\* TypeOK holds in every reachable state: a command that is under way works
\* on an authorization, and every receipt has a status the code writes.
THEOREM TypeCorrect == Spec => []TypeOK
  BY InitType, TypeStep, PTL DEF Spec

-----------------------------------------------------------------------------
(***************************************************************************)
(* One submission per authorization                                        *)
(***************************************************************************)

\* Nothing has been claimed at first.
LEMMA InitExclusion == Init => Exclusion
  BY AuthAssumption DEF Init, Exclusion, FreshIsUntouched, OneWriter, TableCommands,
                        OneAsker, TableBeforeCall, CalledOnce, Held, Asking, Steps

\* A command that begins has read a receipt nobody has claimed, or one that
\* is there; it has claimed nothing yet.
LEMMA BeginKeepsExclusion ==
  ASSUME TypeOK, Exclusion, NEW k \in Commands, NEW a \in Auths,
         Run(k, a) \/ Resume(k, a) \/ Reconcile(k, a)
  PROVE  Exclusion'
<1> USE DEF Exclusion, TypeOK, Begin, Goto, cloud, Held, Asking, Steps
<1>1. FreshIsUntouched'
  BY DEF FreshIsUntouched, Run, Resume, Reconcile, Resumable, Reconcilable, Unclaimed
<1>2. OneWriter' /\ OneAsker'
  BY DEF OneWriter, OneAsker, Run, Resume, Reconcile
<1>3. TableCommands'
  BY DEF TableCommands, Run, Resume, Reconcile, Resumable
<1>4. TableBeforeCall' /\ CalledOnce'
  BY DEF TableBeforeCall, CalledOnce, Run, Resume, Reconcile
<1>5. QED
  BY <1>1, <1>2, <1>3, <1>4

\* The gates and the exclusive creation of the receipt: a torn receipt has one
\* writer, who alone removes or completes it.
LEMMA GateKeepsExclusion ==
  ASSUME TypeOK, Exclusion, NEW k \in Commands,
         PassGate(k) \/ BlockGate(k) \/ CreateReceipt(k)
         \/ AlreadyAttempted(k) \/ WriteReceipt(k) \/ UnlinkReceipt(k)
  PROVE  Exclusion'
<1> USE AuthAssumption
    DEF Exclusion, TypeOK, Goto, Leave, SetReceipt, asked, cloud, Held, Asking, Steps
<1>1. CASE PassGate(k)
  BY <1>1 DEF PassGate,
    FreshIsUntouched, OneWriter, TableCommands, OneAsker, TableBeforeCall, CalledOnce
<1>2. CASE BlockGate(k)
  BY <1>2 DEF BlockGate,
    FreshIsUntouched, OneWriter, TableCommands, OneAsker, TableBeforeCall, CalledOnce
<1>3. CASE CreateReceipt(k)
  BY <1>3 DEF CreateReceipt, Unclaimed,
    FreshIsUntouched, OneWriter, TableCommands, OneAsker, TableBeforeCall, CalledOnce
<1>4. CASE AlreadyAttempted(k)
  BY <1>4 DEF AlreadyAttempted, Unclaimed,
    FreshIsUntouched, OneWriter, TableCommands, OneAsker, TableBeforeCall, CalledOnce
<1>5. CASE WriteReceipt(k)
  BY <1>5 DEF WriteReceipt, AfterReceipt,
    FreshIsUntouched, OneWriter, TableCommands, OneAsker, TableBeforeCall, CalledOnce
<1>6. CASE UnlinkReceipt(k)
  BY <1>6 DEF UnlinkReceipt,
    FreshIsUntouched, OneWriter, TableCommands, OneAsker, TableBeforeCall, CalledOnce
<1>7. QED
  BY <1>1, <1>2, <1>3, <1>4, <1>5, <1>6

\* Preparing, submitting and reading: the creation of a table, like that of a
\* receipt, succeeds once, and whoever succeeds submits once.
LEMMA CloudKeepsExclusion ==
  ASSUME TypeOK, Exclusion, NEW k \in Commands,
         PrepareTable(k) \/ PrepareFails(k) \/ Submit(k)
         \/ Answered(k) \/ AnswerLost(k) \/ FetchFails(k)
  PROVE  Exclusion'
<1> USE AuthAssumption
    DEF Exclusion, TypeOK, Goto, Leave, SetReceipt, asked, cloud, Held, Asking, Steps
<1>1. CASE PrepareTable(k)
  BY <1>1 DEF PrepareTable, TableVacant,
    FreshIsUntouched, OneWriter, TableCommands, OneAsker, TableBeforeCall, CalledOnce
<1>2. CASE PrepareFails(k)
  BY <1>2 DEF PrepareFails,
    FreshIsUntouched, OneWriter, TableCommands, OneAsker, TableBeforeCall, CalledOnce
<1>3. CASE Submit(k)
  BY <1>3 DEF Submit,
    FreshIsUntouched, OneWriter, TableCommands, OneAsker, TableBeforeCall, CalledOnce
<1>4. CASE Answered(k)
  BY <1>4 DEF Answered,
    FreshIsUntouched, OneWriter, TableCommands, OneAsker, TableBeforeCall, CalledOnce
<1>5. CASE AnswerLost(k)
  BY <1>5 DEF AnswerLost,
    FreshIsUntouched, OneWriter, TableCommands, OneAsker, TableBeforeCall, CalledOnce
<1>6. CASE FetchFails(k)
  BY <1>6 DEF FetchFails,
    FreshIsUntouched, OneWriter, TableCommands, OneAsker, TableBeforeCall, CalledOnce
<1>7. QED
  BY <1>1, <1>2, <1>3, <1>4, <1>5, <1>6

\* Replacing the receipt: it was there, so its authorization is claimed before
\* and after.
LEMMA RecordKeepsExclusion ==
  ASSUME TypeOK, Exclusion, NEW k \in Commands,
         RecordUnprepared(k) \/ ReopenReceipt(k) \/ RecordLost(k)
         \/ RecordOutcome(k)
  PROVE  Exclusion'
<1> USE AuthAssumption
    DEF Exclusion, TypeOK, Goto, Leave, SetReceipt, asked, cloud, Held, Asking, Steps
<1>1. CASE RecordUnprepared(k)
  BY <1>1 DEF RecordUnprepared,
    FreshIsUntouched, OneWriter, TableCommands, OneAsker, TableBeforeCall, CalledOnce
<1>2. CASE ReopenReceipt(k)
  BY <1>2 DEF ReopenReceipt,
    FreshIsUntouched, OneWriter, TableCommands, OneAsker, TableBeforeCall, CalledOnce
<1>3. CASE RecordLost(k)
  BY <1>3 DEF RecordLost, LostStatus,
    FreshIsUntouched, OneWriter, TableCommands, OneAsker, TableBeforeCall, CalledOnce
<1>4. CASE RecordOutcome(k)
  BY <1>4 DEF RecordOutcome, Verdicts,
    FreshIsUntouched, OneWriter, TableCommands, OneAsker, TableBeforeCall, CalledOnce
<1>5. QED
  BY <1>1, <1>2, <1>3, <1>4

\* Exclusion is inductive.
LEMMA ExclusionStep == TypeOK /\ Exclusion /\ [Next]_vars => Exclusion'
<1> SUFFICES ASSUME TypeOK, Exclusion, [Next]_vars PROVE Exclusion'
  OBVIOUS
<1>1. CASE UNCHANGED vars
  BY <1>1 DEF vars, memory, asked, cloud, Exclusion, FreshIsUntouched, OneWriter,
    TableCommands, OneAsker, TableBeforeCall, CalledOnce
<1>2. ASSUME NEW k \in Commands, NEW a \in Auths, Run(k, a) \/ Resume(k, a) \/ Reconcile(k, a)
      PROVE Exclusion'
  BY <1>2, BeginKeepsExclusion
<1>3. ASSUME NEW k \in Commands, Step(k) PROVE Exclusion'
  BY <1>3, GateKeepsExclusion, CloudKeepsExclusion, RecordKeepsExclusion DEF Step
<1>4. ASSUME NEW k \in Commands, Crash(k) PROVE Exclusion'
  BY <1>4 DEF Crash, Leave, Goto, cloud, Held, Asking, Steps, TypeOK, Exclusion,
    FreshIsUntouched, OneWriter, TableCommands, OneAsker, TableBeforeCall, CalledOnce
<1>5. ASSUME NEW a \in Auths, JobSucceeds(a) \/ JobFails(a) \/ Expire(a)
      PROVE Exclusion'
  BY <1>5, AuthAssumption
  DEF JobSucceeds, JobFails, Expire, memory, asked, Held, Asking, Steps, TypeOK, Exclusion,
    FreshIsUntouched, OneWriter, TableCommands, OneAsker, TableBeforeCall, CalledOnce
<1>6. QED
  BY <1>1, <1>2, <1>3, <1>4, <1>5 DEF Next

\* Every authorization submits its query at most once, over a receipt that is
\* on disk, however many commands overlap and wherever they die.
THEOREM SubmitsOnce == Spec => []SubmittedOnce
<1>1. TypeOK /\ Exclusion => SubmittedOnce
  BY DEF TypeOK, Exclusion, FreshIsUntouched, CalledOnce, SubmittedOnce
<1>2. QED
  BY <1>1, TypeCorrect, InitExclusion, ExclusionStep, PTL DEF Spec

-----------------------------------------------------------------------------
(***************************************************************************)
(* A census receipt, once settled, stays                                   *)
(***************************************************************************)

\* The operator's rule and the exclusive receipt leave a census one command
\* that may write its receipt.
Working == Held \cup {"writing"}
OneWorker ==
  \A k, j \in Commands :
    pc[k] \in Working /\ pc[j] \in Working /\ auth[k] = auth[j] /\ auth[k] \notin Tables
      => k = j

\* ... and none once the outcome is written.
Settled(b) == receipt[b] \in {"failed", "completed", "quality_blocked"}
CensusSettled ==
  \A b \in Auths \ Tables : Settled(b) =>
    \A k \in Commands : auth[k] = b => pc[k] \notin Working

Custody == OneWorker /\ CensusSettled

\* A table command past its cost gate has seen the population sealed.
Sealed == \A b \in Population : receipt[b] = "quality_blocked"
GatePassed ==
  \A k \in Commands :
    auth[k] \in Tables /\ pc[k] \in {"creating", "writing", "preparing", "reopening", "submitting"}
      => Sealed

\* Nobody works on anything at first.
LEMMA InitCustody == Init => Custody /\ GatePassed /\ SealedPopulation
  BY AuthAssumption
  DEF Init, Custody, OneWorker, CensusSettled, GatePassed, SealedPopulation, Working, Held, Steps

\* Custody is inductive, given Exclusion.
LEMMA CustodyStep == TypeOK /\ Exclusion /\ Custody /\ [Next]_vars => Custody'
<1> SUFFICES ASSUME TypeOK, Exclusion, Custody, [Next]_vars PROVE Custody'
  OBVIOUS
<1> USE DEF Custody, OneWorker, CensusSettled, Settled, Working, Held, Steps, TypeOK,
            Goto, Leave, SetReceipt, asked, cloud, memory
<1>1. CASE UNCHANGED vars
  BY <1>1 DEF vars
<1>2. ASSUME NEW k \in Commands, NEW a \in Auths, Run(k, a) \/ Resume(k, a) \/ Reconcile(k, a)
      PROVE Custody'
  BY <1>2 DEF Run, Resume, Resumable, Reconcile, Reconcilable, OriginalStopped, Live, Begin
<1>3. ASSUME NEW k \in Commands, Step(k)
      PROVE Custody'
  <2>1. CASE CreateReceipt(k)
    BY <2>1 DEF CreateReceipt, Unclaimed, Exclusion, FreshIsUntouched, OneWriter
  <2>2. CASE PassGate(k) \/ BlockGate(k) \/ AlreadyAttempted(k) \/ FetchFails(k)
    BY <2>2 DEF PassGate, BlockGate, AlreadyAttempted, FetchFails, Exclusion, TableCommands
  <2>3. CASE WriteReceipt(k) \/ UnlinkReceipt(k) \/ RecordUnprepared(k) \/ ReopenReceipt(k)
    BY <2>3 DEF WriteReceipt, AfterReceipt, UnlinkReceipt, RecordUnprepared, ReopenReceipt
  <2>4. CASE RecordLost(k)
    BY <2>4 DEF RecordLost, LostStatus
  <2>5. CASE RecordOutcome(k)
    BY <2>5 DEF RecordOutcome, Verdicts
  <2>6. CASE PrepareTable(k) \/ PrepareFails(k) \/ Submit(k) \/ Answered(k) \/ AnswerLost(k)
    BY <2>6 DEF PrepareTable, PrepareFails, Submit, Answered, AnswerLost
  <2>7. QED
    BY <1>3, <2>1, <2>2, <2>3, <2>4, <2>5, <2>6 DEF Step
<1>4. ASSUME NEW k \in Commands, Crash(k) PROVE Custody'
  BY <1>4 DEF Crash
<1>5. ASSUME NEW a \in Auths, JobSucceeds(a) \/ JobFails(a) \/ Expire(a)
      PROVE Custody'
  BY <1>5 DEF JobSucceeds, JobFails, Expire
<1>6. QED
  BY <1>1, <1>2, <1>3, <1>4, <1>5 DEF Next

\* Nothing replaces the settled receipt of a census.
LEMMA SettledIsFinal ==
  ASSUME TypeOK, Custody, [Next]_vars, NEW b \in Auths \ Tables, Settled(b)
  PROVE  receipt'[b] = receipt[b]
<1> USE DEF TypeOK, Settled, cloud, memory
<1>1. CASE UNCHANGED vars
  BY <1>1 DEF vars
<1>2. ASSUME NEW k \in Commands, NEW a \in Auths, Run(k, a) \/ Resume(k, a) \/ Reconcile(k, a)
      PROVE receipt'[b] = receipt[b]
  BY <1>2 DEF Run, Resume, Reconcile, Begin
<1>3. ASSUME NEW k \in Commands, Step(k)
      PROVE receipt'[b] = receipt[b]
  <2>1. CASE CreateReceipt(k)
    BY <2>1 DEF CreateReceipt, Unclaimed, SetReceipt
  <2>2. CASE \/ WriteReceipt(k) \/ UnlinkReceipt(k) \/ RecordUnprepared(k)
             \/ ReopenReceipt(k) \/ RecordLost(k) \/ RecordOutcome(k)
    BY <2>2 DEF WriteReceipt, UnlinkReceipt, RecordUnprepared, ReopenReceipt, RecordLost,
      RecordOutcome, SetReceipt, Goto, Leave, Custody, CensusSettled, Working, Held, Steps
  <2>3. CASE UNCHANGED receipt
    BY <2>3
  <2>4. QED
    BY <1>3, <2>1, <2>2, <2>3 DEF Step, PassGate, BlockGate, AlreadyAttempted, PrepareTable,
      PrepareFails, Submit, Answered, AnswerLost, FetchFails
<1>4. ASSUME NEW k \in Commands, Crash(k) PROVE receipt'[b] = receipt[b]
  BY <1>4 DEF Crash
<1>5. ASSUME NEW a \in Auths, JobSucceeds(a) \/ JobFails(a) \/ Expire(a)
      PROVE receipt'[b] = receipt[b]
  BY <1>5 DEF JobSucceeds, JobFails, Expire
<1>6. QED
  BY <1>1, <1>2, <1>3, <1>4, <1>5 DEF Next

\* The population, once sealed, stays sealed.
LEMMA SealIsFinal ==
  ASSUME TypeOK, Custody, [Next]_vars, Sealed
  PROVE  Sealed'
  BY AuthAssumption, SettledIsFinal DEF Sealed, Settled

\* A table command reaches no cloud operation without passing the gate.
LEMMA GateStep == TypeOK /\ Exclusion /\ Custody /\ GatePassed /\ [Next]_vars => GatePassed'
<1> SUFFICES ASSUME TypeOK, Exclusion, Custody, GatePassed, [Next]_vars,
                    ~Sealed, ~Sealed'
             PROVE  GatePassed'
  BY SealIsFinal DEF GatePassed
<1> HIDE DEF Sealed
<1> USE DEF GatePassed, TypeOK, Goto, Leave, SetReceipt, asked, cloud, memory, Steps
<1>1. CASE UNCHANGED vars
  BY <1>1 DEF vars
<1>2. ASSUME NEW k \in Commands, NEW a \in Auths, Run(k, a) \/ Resume(k, a) \/ Reconcile(k, a)
      PROVE GatePassed'
  BY <1>2 DEF Run, Resume, Reconcile, Begin
<1>3. ASSUME NEW k \in Commands, Step(k)
      PROVE GatePassed'
  <2>1. CASE PassGate(k)
    BY <2>1 DEF PassGate, PopulationSealed, Sealed
  <2>2. CASE ~PassGate(k)
    BY <1>3, <2>2 DEF Step, BlockGate, CreateReceipt, AlreadyAttempted, WriteReceipt,
      AfterReceipt, UnlinkReceipt, PrepareTable, PrepareFails, RecordUnprepared,
      ReopenReceipt, Submit, Answered, AnswerLost, RecordLost, FetchFails, RecordOutcome
  <2>3. QED
    BY <2>1, <2>2
<1>4. ASSUME NEW k \in Commands, Crash(k) PROVE GatePassed'
  BY <1>4 DEF Crash
<1>5. ASSUME NEW a \in Auths, JobSucceeds(a) \/ JobFails(a) \/ Expire(a)
      PROVE GatePassed'
  BY <1>5 DEF JobSucceeds, JobFails, Expire
<1>6. QED
  BY <1>1, <1>2, <1>3, <1>4, <1>5 DEF Next

\* Tables and calls come from commands that have passed the gate.
LEMMA PopulationStep ==
  TypeOK /\ Custody /\ GatePassed /\ SealedPopulation /\ [Next]_vars => SealedPopulation'
<1> SUFFICES ASSUME TypeOK, Custody, GatePassed, SealedPopulation, [Next]_vars,
                    ~Sealed, NEW a \in Tables
             PROVE  table'[a] = table[a] /\ calls'[a] = calls[a]
  BY SealIsFinal DEF SealedPopulation, Sealed
<1> a \in Auths
  BY AuthAssumption
<1> USE DEF TypeOK, cloud, memory
<1>0. table[a] = "none" /\ calls[a] = 0
  BY DEF SealedPopulation, Sealed
<1>1. CASE UNCHANGED vars
  BY <1>1 DEF vars
<1>2. ASSUME NEW k \in Commands, NEW b \in Auths, Run(k, b) \/ Resume(k, b) \/ Reconcile(k, b)
      PROVE UNCHANGED <<table, calls>>
  BY <1>2 DEF Run, Resume, Reconcile, Begin
<1>3. ASSUME NEW k \in Commands, PrepareTable(k) \/ Submit(k)
      PROVE table'[a] = table[a] /\ calls'[a] = calls[a]
  <2>1. auth[k] # a /\ auth[k] \in Auths
    BY <1>3 DEF PrepareTable, Submit, Goto, GatePassed, Steps
  <2>2. QED
    BY <1>3, <2>1 DEF PrepareTable, Submit
<1>4. ASSUME NEW k \in Commands, Step(k), ~PrepareTable(k), ~Submit(k)
      PROVE UNCHANGED <<table, calls>>
  BY <1>4 DEF Step, PassGate, BlockGate, CreateReceipt, AlreadyAttempted, WriteReceipt,
    UnlinkReceipt, PrepareFails, RecordUnprepared, ReopenReceipt, Answered,
    AnswerLost, RecordLost, FetchFails, RecordOutcome
<1>5. ASSUME NEW k \in Commands, Crash(k) PROVE UNCHANGED <<table, calls>>
  BY <1>5 DEF Crash
<1>6. ASSUME NEW b \in Auths, JobSucceeds(b) \/ JobFails(b) \/ Expire(b)
      PROVE table'[a] = table[a] /\ calls'[a] = calls[a]
  BY <1>0, <1>6 DEF JobSucceeds, JobFails, Expire
<1>7. QED
  BY <1>1, <1>2, <1>3, <1>4, <1>5, <1>6 DEF Next

\* A destination table is created and filled only over sealed census receipts.
THEOREM FillsOverSealed == Spec => []SealedPopulation
  BY TypeCorrect, InitExclusion, ExclusionStep, InitCustody, CustodyStep, GateStep,
     PopulationStep, PTL DEF Spec

-----------------------------------------------------------------------------
(***************************************************************************)
(* A recovery rests on a failed census                                     *)
(***************************************************************************)

\* A recovery that has begun has the failed receipt of the first census
\* behind it.
RecoveryJustified ==
  \A a \in Recoveries :
    receipt[a] # "none" \/ (\E k \in Commands : Live(k) /\ auth[k] = a) =>
      receipt[Recovered[a]] = "failed"

\* Nothing has begun at first.
LEMMA InitRecovery == Init => RecoveryJustified
  BY AuthAssumption DEF Init, RecoveryJustified, Live, Steps, Recoveries

\* A step that gives an authorization a receipt is taken by a command that
\* works on it already, and only a command that begins takes one up.
LEMMA Origin ==
  ASSUME TypeOK, NEW k \in Commands, Step(k) \/ Crash(k), NEW a \in Auths
  PROVE  /\ receipt'[a] # "none" => receipt[a] # "none" \/ (Live(k) /\ auth[k] = a)
         /\ \A j \in Commands : Live(j)' /\ auth'[j] = a => Live(j) /\ auth[j] = a
  BY DEF TypeOK, Live, Goto, Leave, SetReceipt, asked, cloud, Steps, AfterReceipt,
    Step, PassGate, BlockGate, CreateReceipt, AlreadyAttempted, WriteReceipt,
    UnlinkReceipt, PrepareTable, PrepareFails, RecordUnprepared, ReopenReceipt, Submit,
    Answered, AnswerLost, RecordLost, FetchFails, RecordOutcome, Crash

\* A recovery stays justified: what begins it checks the evidence or reads a
\* receipt of it, and the failed receipt of a census is final.
LEMMA RecoveryStep == TypeOK /\ Custody /\ RecoveryJustified /\ [Next]_vars => RecoveryJustified'
<1> SUFFICES ASSUME TypeOK, Custody, RecoveryJustified, [Next]_vars,
                    NEW a \in Recoveries,
                    receipt'[a] # "none" \/ \E k \in Commands : Live(k)' /\ auth'[k] = a
             PROVE  receipt'[Recovered[a]] = "failed"
  BY DEF RecoveryJustified
<1> a \in Auths /\ a \notin Tables /\ Recovered[a] \in Auths \ Tables
  BY AuthAssumption
<1> SUFFICES receipt[Recovered[a]] = "failed"
  BY SettledIsFinal DEF Settled
<1>1. CASE UNCHANGED vars
  BY <1>1 DEF RecoveryJustified, vars, memory, asked, Live
<1>2. ASSUME NEW k \in Commands, NEW b \in Auths, Run(k, b) \/ Resume(k, b) \/ Reconcile(k, b)
      PROVE receipt[Recovered[a]] = "failed"
  BY <1>2 DEF RecoveryJustified, TypeOK, Run, Resume, Reconcile, Resumable, Reconcilable,
    RecoveryEvidence, Begin, Goto, Live
<1>3. ASSUME NEW k \in Commands, Step(k) \/ Crash(k) PROVE receipt[Recovered[a]] = "failed"
  BY <1>3, Origin DEF RecoveryJustified
<1>4. ASSUME NEW b \in Auths, JobSucceeds(b) \/ JobFails(b) \/ Expire(b)
      PROVE receipt[Recovered[a]] = "failed"
  BY <1>4 DEF RecoveryJustified, JobSucceeds, JobFails, Expire, memory, asked, Live
<1>5. QED
  BY <1>1, <1>2, <1>3, <1>4 DEF Next

\* A recovery has a receipt only over the failed receipt of its census, which
\* no command and no late answer replaces.
THEOREM RecoversFailures == Spec => []RecoveryOverFailure
<1>1. RecoveryJustified => RecoveryOverFailure
  BY DEF RecoveryJustified, RecoveryOverFailure
<1>2. Init => Custody
  BY InitCustody
<1>3. QED
  BY <1>1, <1>2, TypeCorrect, InitExclusion, ExclusionStep, CustodyStep, InitRecovery,
     RecoveryStep, PTL DEF Spec

-----------------------------------------------------------------------------
(***************************************************************************)
(* Receipts tell the truth                                                 *)
(***************************************************************************)

\* What a command is about to record is the outcome of a billed job.
AnswerIsBilled == \A k \in Commands : pc[k] = "recording" => job[auth[k]] \in Billed
Truth == AnswerIsBilled /\ ClaimsAreBacked

\* Nothing is claimed at first.
LEMMA InitTruth == Init => Truth
  BY DEF Init, Truth, AnswerIsBilled, ClaimsAreBacked

\* The outcome of a job does not change once it is billed.
LEMMA TruthStep == TypeOK /\ Truth /\ [Next]_vars => Truth'
<1> SUFFICES ASSUME TypeOK, Truth, [Next]_vars PROVE Truth'
  OBVIOUS
<1> USE DEF Truth, AnswerIsBilled, ClaimsAreBacked, Billed, TypeOK, Steps, Goto, Leave,
            SetReceipt, asked, cloud, memory
<1>1. CASE UNCHANGED vars
  BY <1>1 DEF vars
<1>2. ASSUME NEW k \in Commands, NEW a \in Auths, Run(k, a) \/ Resume(k, a) \/ Reconcile(k, a)
      PROVE Truth'
  BY <1>2 DEF Run, Resume, Reconcile, Begin
<1>3. ASSUME NEW k \in Commands, Step(k)
      PROVE Truth'
  <2>1. CASE RecordOutcome(k)
    BY <2>1 DEF RecordOutcome, Verdicts
  <2>2. CASE Answered(k) \/ Submit(k)
    BY <2>2 DEF Answered, Readable, Submit
  <2>3. CASE PassGate(k) \/ BlockGate(k) \/ CreateReceipt(k) \/ AlreadyAttempted(k)
    BY <2>3 DEF PassGate, BlockGate, CreateReceipt, AlreadyAttempted
  <2>4. CASE WriteReceipt(k) \/ UnlinkReceipt(k) \/ RecordUnprepared(k) \/ ReopenReceipt(k)
    BY <2>4 DEF WriteReceipt, AfterReceipt, UnlinkReceipt, RecordUnprepared, ReopenReceipt
  <2>5. CASE PrepareTable(k) \/ PrepareFails(k) \/ AnswerLost(k) \/ FetchFails(k)
    BY <2>5 DEF PrepareTable, PrepareFails, AnswerLost, FetchFails
  <2>6. CASE RecordLost(k)
    BY <2>6 DEF RecordLost, LostStatus
  <2>7. QED
    BY <1>3, <2>1, <2>2, <2>3, <2>4, <2>5, <2>6 DEF Step
<1>4. ASSUME NEW k \in Commands, Crash(k) PROVE Truth'
  BY <1>4 DEF Crash
<1>5. ASSUME NEW a \in Auths, JobSucceeds(a) \/ JobFails(a) \/ Expire(a)
      PROVE Truth'
  BY <1>5 DEF JobSucceeds, JobFails, Expire
<1>6. QED
  BY <1>1, <1>2, <1>3, <1>4, <1>5 DEF Next

\* A receipt claims no result that BigQuery did not produce and bill.
THEOREM ReceiptsTellTheTruth == Spec => []ClaimsAreBacked
<1>1. Truth => ClaimsAreBacked
  BY DEF Truth
<1>2. QED
  BY <1>1, TypeCorrect, InitTruth, TruthStep, PTL DEF Spec
=============================================================================
