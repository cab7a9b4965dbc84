----------------------- MODULE AddressEnrichmentProofs -----------------------
(***************************************************************************)
(* Proofs about AddressEnrichment for every set of runs, campaigns,        *)
(* addresses, entities and inputs, and any number of overlapping runs.     *)
(***************************************************************************)
EXTENDS AddressEnrichment, FiniteSetTheorems, TLAPS

-----------------------------------------------------------------------------
(***************************************************************************)
(* Type correctness                                                        *)
(***************************************************************************)

\* What a run still remembers once it is in a step that needs it: its campaign
\* and inputs once started, its address inside an iteration, the response
\* from the dispatch on.
Holding(r) ==
  /\ pc[r] # "idle" => camp[r] \in Campaigns /\ input[r] \in Inputs
  /\ pc[r] \in {"reserved", "duplicate", "claimed", "replied", "observed",
                "settled", "parsed"} => cur[r] \in Addresses
  /\ pc[r] \in {"replied", "observed", "settled", "parsed"} => reply[r] \in Replies

\* A reservation is open exactly while its iteration is before quota.complete.
Reserving == {"reserved", "duplicate", "claimed", "replied", "observed"}
OpenReservation(r) ==
  IF pc[r] \in Reserving THEN open[r] = 1
  ELSE IF pc[r] = "crashed" THEN open[r] \in {0, 1} ELSE open[r] = 0

TypeInv == TypeOK /\ \A r \in Runs : Holding(r) /\ OpenReservation(r)

\* The three ways a tally changes keep its type.
LEMMA ChargedType ==
  ASSUME NEW t \in Tallies, NEW price \in Nat
  PROVE  Charged(t, price) \in Tallies
<1>1. ASSUME NEW m \in Nat, NEW n \in Nat
      PROVE  [t EXCEPT !.requests = m, !.spent = n] \in Tallies
  BY DEF Tallies
<1>2. t.requests + 1 \in Nat /\ t.spent + price \in Nat
  BY DEF Tallies
<1> QED BY <1>1, <1>2, Zenon DEF Charged

\* The tally after a response outcome is a tally.
LEMMA JudgedType ==
  ASSUME NEW t \in Tallies, NEW ok \in BOOLEAN, NEW trips \in BOOLEAN
  PROVE  Judged(t, ok, trips) \in Tallies
<1>1. ASSUME NEW m \in Nat, NEW u \in BOOLEAN, NEW b \in BOOLEAN
      PROVE  [t EXCEPT !.strikes = m, !.unclean = u, !.blocked = b] \in Tallies
  BY DEF Tallies
<1>2. t.strikes \in Nat /\ (IF ok THEN 0 ELSE t.strikes + 1) \in Nat
  BY DEF Tallies
<1>3. (t.unclean \/ ~ok) \in BOOLEAN /\ (~ok /\ trips) \in BOOLEAN
  OBVIOUS
<1> QED BY <1>1, <1>2, <1>3, Zenon DEF Judged

\* The tally after a parse result is a tally.
LEMMA ParsedType ==
  ASSUME NEW t \in Tallies, NEW valid \in BOOLEAN, NEW blocked \in BOOLEAN
  PROVE  Parsed(t, valid, blocked) \in Tallies
<1>1. ASSUME NEW u \in BOOLEAN, NEW b \in BOOLEAN
      PROVE  [t EXCEPT !.unclean = u, !.blocked = b] \in Tallies
  BY DEF Tallies
<1>2. (t.unclean \/ ~valid) \in BOOLEAN /\ (~valid /\ blocked) \in BOOLEAN
  OBVIOUS
<1> QED BY <1>1, <1>2, Zenon DEF Parsed

\* Setting the blocked flag of a tally leaves a tally.
LEMMA BlockedType ==
  ASSUME NEW t \in Tallies, NEW b \in BOOLEAN
  PROVE  [t EXCEPT !.blocked = b] \in Tallies
BY DEF Tallies

\* The tally a run starts with is a tally.
LEMMA IdleType == Idle \in Tallies
BY DEF Idle, Tallies

\* The empty database and idle runs satisfy the invariant.
LEMMA TypeInit == Init => TypeInv
BY IdleType DEF Init, TypeInv, TypeOK, Holding, OpenReservation, Reserving, Labels, Steps

\* Starting a run (argument and binding validation) keeps TypeInv.
LEMMA TypeStart ==
  ASSUME TypeInv, NEW r \in Runs, NEW c \in Campaigns, NEW i \in Inputs, Start(r, c, i)
  PROVE  TypeInv'
<1> USE DEF TypeInv, Start, Goto, database
<1>1. TypeOK'
  BY DEF TypeOK, Labels, Steps
<1>2. ASSUME NEW q \in Runs PROVE Holding(q)' /\ OpenReservation(q)'
  BY NoneAssumption DEF TypeOK, Holding, OpenReservation, Reserving, NoneAssumption
<1> QED BY <1>1, <1>2

\* Reading the attempt rows keeps TypeInv.
LEMMA TypeReadAttempts ==
  ASSUME TypeInv, NEW r \in Runs, ReadAttempts(r)
  PROVE  TypeInv'
<1> USE DEF TypeInv, ReadAttempts, Goto, database, Attempted
<1>a. camp[r] \in Campaigns /\ input[r] \in Inputs
  BY DEF Holding
<1>b. RowsOf[input[r]] \subseteq Addresses
  BY <1>a, InputAssumption DEF InputAssumption
<1>1. TypeOK'
  BY <1>b DEF TypeOK, Labels, Steps
<1>2. ASSUME NEW q \in Runs PROVE Holding(q)' /\ OpenReservation(q)'
  BY NoneAssumption DEF TypeOK, Holding, OpenReservation, Reserving, NoneAssumption
<1> QED BY <1>1, <1>2

\* Reading the current coverage keeps TypeInv.
LEMMA TypeReadCoverage ==
  ASSUME TypeInv, NEW r \in Runs, ReadCoverage(r)
  PROVE  TypeInv'
<1> USE DEF TypeInv, ReadCoverage, Goto, database
<1>1. TypeOK'
  BY DEF TypeOK, Labels, Steps
<1>2. ASSUME NEW q \in Runs PROVE Holding(q)' /\ OpenReservation(q)'
  BY NoneAssumption DEF TypeOK, Holding, OpenReservation, Reserving, NoneAssumption
<1> QED BY <1>1, <1>2

\* Cutting the due rows to a plan keeps TypeInv.
LEMMA TypePlanRun ==
  ASSUME TypeInv, NEW r \in Runs, PlanRun(r)
  PROVE  TypeInv'
<1> USE DEF TypeInv, PlanRun, Goto, database, Planned
<1>a. camp[r] \in Campaigns /\ plan[r] \subseteq Addresses
  BY DEF TypeOK, Holding
<1>b. PICK S \in SUBSET plan[r] :
        /\ plan' = [plan EXCEPT ![r] = S]
        /\ todo' = [todo EXCEPT ![r] = S]
        /\ pc' = [pc EXCEPT ![r] = IF S = {} THEN "done" ELSE "planned"]
        /\ tally' = [tally EXCEPT ![r].before = IF S = {} THEN 0 ELSE points[camp[r]]]
  OBVIOUS
<1>c. tally' \in [Runs -> Tallies]
  <2>1. tally[r] \in Tallies /\ points[camp[r]] \in Nat
    BY <1>a DEF TypeOK
  <2>2. ASSUME NEW n \in Nat PROVE [tally[r] EXCEPT !.before = n] \in Tallies
    BY <2>1 DEF Tallies
  <2> QED BY <1>b, <2>1, <2>2 DEF TypeOK
<1>1. TypeOK'
  BY <1>a, <1>b, <1>c DEF TypeOK, Labels, Steps
<1>2. ASSUME NEW q \in Runs PROVE Holding(q)' /\ OpenReservation(q)'
  BY NoneAssumption DEF TypeOK, Holding, OpenReservation, Reserving, NoneAssumption
<1> QED BY <1>1, <1>2

\* Binding the campaign, or being refused, keeps TypeInv.
LEMMA TypeBindCampaign ==
  ASSUME TypeInv, NEW r \in Runs, BindCampaign(r)
  PROVE  TypeInv'
<1> USE DEF TypeInv, BindCampaign, Goto, database
<1>a. camp[r] \in Campaigns /\ input[r] \in Inputs
  BY DEF Holding
<1>b. binding' \in [Campaigns -> Inputs \cup {None}]
  BY <1>a DEF TypeOK, BoundTo
<1>c. tally' \in [Runs -> Tallies]
  BY IdleType DEF TypeOK, Forget
<1>1. TypeOK'
  BY <1>b, <1>c DEF TypeOK, Labels, Steps, Forget
<1>2. ASSUME NEW q \in Runs PROVE Holding(q)' /\ OpenReservation(q)'
  BY NoneAssumption DEF TypeOK, Forget, Holding, OpenReservation, Reserving, NoneAssumption
<1> QED BY <1>1, <1>2

\* Creating the ingestion run keeps TypeInv.
LEMMA TypeCreateRun ==
  ASSUME TypeInv, NEW r \in Runs, CreateRun(r)
  PROVE  TypeInv'
<1> USE DEF TypeInv, CreateRun, Goto, database, KnownNow
<1>1. TypeOK'
  BY EntityAssumption DEF TypeOK, Labels, Steps, EntityAssumption
<1>2. ASSUME NEW q \in Runs PROVE Holding(q)' /\ OpenReservation(q)'
  BY NoneAssumption DEF TypeOK, Holding, OpenReservation, Reserving, NoneAssumption
<1> QED BY <1>1, <1>2

\* A granted quota reservation keeps TypeInv: it opens the one the run holds.
LEMMA TypeReserveQuota ==
  ASSUME TypeInv, NEW r \in Runs, NEW a \in Addresses, ReserveQuota(r, a)
  PROVE  TypeInv'
<1> USE DEF TypeInv, ReserveQuota, Goto, database
<1>1. TypeOK'
  BY DEF TypeOK, Labels, Steps
<1>2. ASSUME NEW q \in Runs PROVE Holding(q)' /\ OpenReservation(q)'
  BY NoneAssumption DEF TypeOK, Holding, OpenReservation, Reserving, NoneAssumption
<1> QED BY <1>1, <1>2

\* A refused quota reservation keeps TypeInv.
LEMMA TypeQuotaRefused ==
  ASSUME TypeInv, NEW r \in Runs, QuotaRefused(r)
  PROVE  TypeInv'
<1> USE DEF TypeInv, QuotaRefused, Goto, database
<1>a. tally[r] \in Tallies /\ [tally[r] EXCEPT !.blocked = TRUE] \in Tallies
  BY BlockedType DEF TypeOK
<1>b. tally' \in [Runs -> Tallies]
  BY <1>a DEF TypeOK
<1>1. TypeOK'
  BY <1>b DEF TypeOK, Labels, Steps
<1>2. ASSUME NEW q \in Runs PROVE Holding(q)' /\ OpenReservation(q)'
  BY NoneAssumption DEF TypeOK, Holding, OpenReservation, Reserving, NoneAssumption
<1> QED BY <1>1, <1>2

\* Claiming an address keeps TypeInv, whether the row is new or not.
LEMMA TypeReserveAttempt ==
  ASSUME TypeInv, NEW r \in Runs, ReserveAttempt(r)
  PROVE  TypeInv'
<1> USE DEF TypeInv, ReserveAttempt, Goto, database, WithAttempt
<1>a. cur[r] \in Addresses /\ camp[r] \in Campaigns
  BY DEF Holding
<1>1. TypeOK'
  BY <1>a DEF TypeOK, Labels, Steps
<1>2. ASSUME NEW q \in Runs PROVE Holding(q)' /\ OpenReservation(q)'
  BY NoneAssumption DEF TypeOK, Holding, OpenReservation, Reserving, NoneAssumption
<1> QED BY <1>1, <1>2

\* Skipping an address another run has keeps TypeInv: the reservation is closed.
LEMMA TypeSkipDuplicate ==
  ASSUME TypeInv, NEW r \in Runs, SkipDuplicate(r)
  PROVE  TypeInv'
<1> USE DEF TypeInv, SkipDuplicate, Goto, database, NextItem, Keep, CompleteReservation
<1>o. open' \in [Runs -> Nat]
  <2>1. open[r] = 1
    BY DEF OpenReservation, Reserving
  <2> QED BY <2>1 DEF TypeOK
<1>1. TypeOK'
  BY <1>o DEF TypeOK, Labels, Steps
<1>2. ASSUME NEW q \in Runs PROVE Holding(q)' /\ OpenReservation(q)'
  BY NoneAssumption DEF TypeOK, Holding, OpenReservation, Reserving, NoneAssumption
<1> QED BY <1>1, <1>2

\* The one request of a claimed address keeps TypeInv.
LEMMA TypeDispatch ==
  ASSUME TypeInv, NEW r \in Runs, Dispatch(r)
  PROVE  TypeInv'
<1> USE DEF TypeInv, Dispatch, Goto, database
<1>a. cur[r] \in Addresses /\ camp[r] \in Campaigns
  BY DEF Holding
<1>b. sent' \in [Campaigns -> [Addresses -> Nat]]
  BY <1>a DEF TypeOK
<1>c. PICK p \in Replies :
        /\ reply' = [reply EXCEPT ![r] = p]
        /\ tally' = [tally EXCEPT ![r] = Charged(@, p.price)]
  OBVIOUS
<1>d. p.price \in Nat
  BY LimitAssumption DEF Replies, LimitAssumption
<1>e. tally' \in [Runs -> Tallies]
  BY <1>c, <1>d, ChargedType DEF TypeOK
<1>1. TypeOK'
  BY <1>b, <1>c, <1>e DEF TypeOK, Labels, Steps
<1>2. ASSUME NEW q \in Runs PROVE Holding(q)' /\ OpenReservation(q)'
  BY NoneAssumption DEF TypeOK, Holding, OpenReservation, Reserving, NoneAssumption
<1> QED BY <1>1, <1>2

\* Recording the observation keeps TypeInv.
LEMMA TypeRecordObservation ==
  ASSUME TypeInv, NEW r \in Runs, RecordObservation(r)
  PROVE  TypeInv'
<1> USE DEF TypeInv, RecordObservation, Goto, database
<1>a. cur[r] \in Addresses /\ camp[r] \in Campaigns /\ reply[r] \in Replies
  BY DEF Holding
<1>b. observed' \in [Campaigns -> [Addresses -> Nat]]
  BY <1>a DEF TypeOK
<1>c. reply[r].price \in Nat
  BY <1>a, LimitAssumption DEF Replies, LimitAssumption
<1>d. points' \in [Campaigns -> Nat]
  BY <1>a, <1>c DEF TypeOK
<1>1. TypeOK'
  BY <1>b, <1>d DEF TypeOK, Labels, Steps
<1>2. ASSUME NEW q \in Runs PROVE Holding(q)' /\ OpenReservation(q)'
  BY NoneAssumption DEF TypeOK, Holding, OpenReservation, Reserving, NoneAssumption
<1> QED BY <1>1, <1>2

\* Completing the reservation after a response keeps TypeInv.
LEMMA TypeSettleReservation ==
  ASSUME TypeInv, NEW r \in Runs, SettleReservation(r)
  PROVE  TypeInv'
<1> USE DEF TypeInv, SettleReservation, Goto, database, NextItem, Keep, CompleteReservation
<1>o. open' \in [Runs -> Nat]
  <2>1. open[r] = 1
    BY DEF OpenReservation, Reserving
  <2> QED BY <2>1 DEF TypeOK
<1>b. tally' \in [Runs -> Tallies]
  <2>1. Judged(tally[r], reply[r].outcome = "success", Trips(r)) \in Tallies
    <3>1. Trips(r) \in BOOLEAN /\ (reply[r].outcome = "success") \in BOOLEAN
      BY DEF Trips
    <3> QED BY <3>1, JudgedType DEF TypeOK
  <2>2. tally' = [tally EXCEPT ![r] = Judged(@, reply[r].outcome = "success", Trips(r))]
    OBVIOUS
  <2> QED BY <2>1, <2>2 DEF TypeOK
<1>1. TypeOK'
  BY <1>o, <1>b DEF TypeOK, Labels, Steps
<1>2. ASSUME NEW q \in Runs PROVE Holding(q)' /\ OpenReservation(q)'
  BY NoneAssumption DEF TypeOK, Holding, OpenReservation, Reserving, NoneAssumption
<1> QED BY <1>1, <1>2

\* Recording the parse result keeps TypeInv.
LEMMA TypeRecordParse ==
  ASSUME TypeInv, NEW r \in Runs, RecordParse(r)
  PROVE  TypeInv'
<1> USE DEF TypeInv, RecordParse, Goto, database, AfterSuccess, NextItem, Keep
<1>a. cur[r] \in Addresses /\ camp[r] \in Campaigns /\ reply[r] \in Replies
  BY DEF Holding
<1>b. tally' \in [Runs -> Tallies]
  <2>1. Parsed(tally[r], reply[r].valid, BlockedAfterSuccess(r)) \in Tallies
    <3>1. BlockedAfterSuccess(r) \in BOOLEAN /\ reply[r].valid \in BOOLEAN
      BY <1>a DEF BlockedAfterSuccess, Replies
    <3> QED BY <3>1, ParsedType DEF TypeOK
  <2>2. tally' = [tally EXCEPT ![r] = Parsed(@, reply[r].valid, BlockedAfterSuccess(r))]
    OBVIOUS
  <2> QED BY <2>1, <2>2 DEF TypeOK
<1>c. parses' \subseteq Addresses \X ParseOutcomes
  BY <1>a DEF TypeOK, WithParse, ParseOutcome, ParseOutcomes
<1>1. TypeOK'
  BY <1>b, <1>c DEF TypeOK, Labels, Steps
<1>2. ASSUME NEW q \in Runs PROVE Holding(q)' /\ OpenReservation(q)'
  BY NoneAssumption DEF TypeOK, Holding, OpenReservation, Reserving, NoneAssumption
<1> QED BY <1>1, <1>2

\* Appending the evidence keeps TypeInv.
LEMMA TypeAppendEvidence ==
  ASSUME TypeInv, NEW r \in Runs, AppendEvidence(r)
  PROVE  TypeInv'
<1> USE DEF TypeInv, AppendEvidence, Goto, database, AfterSuccess, NextItem, Keep
<1>a. cur[r] \in Addresses /\ camp[r] \in Campaigns /\ reply[r] \in Replies
  BY DEF Holding
<1>b. Named(reply[r]) \subseteq Entities
  BY <1>a DEF Named, Replies
<1>c. tally' \in [Runs -> Tallies]
  <2>1. BlockedAfterSuccess(r) \in BOOLEAN
    BY DEF BlockedAfterSuccess
  <2>2. [tally[r] EXCEPT !.blocked = BlockedAfterSuccess(r)] \in Tallies
    BY <2>1, BlockedType DEF TypeOK
  <2> QED BY <2>2 DEF TypeOK
<1>d. evidence' \subseteq Addresses \X Entities
  BY <1>a, <1>b DEF TypeOK
<1>e. found' \in [Runs -> SUBSET Entities]
  BY <1>b DEF TypeOK
<1>1. TypeOK'
  BY <1>c, <1>d, <1>e DEF TypeOK, Labels, Steps
<1>2. ASSUME NEW q \in Runs PROVE Holding(q)' /\ OpenReservation(q)'
  BY NoneAssumption DEF TypeOK, Holding, OpenReservation, Reserving, NoneAssumption
<1> QED BY <1>1, <1>2

\* Importing the discovered seeds keeps TypeInv.
LEMMA TypeImportSeeds ==
  ASSUME TypeInv, NEW r \in Runs, ImportSeeds(r)
  PROVE  TypeInv'
<1> USE DEF TypeInv, ImportSeeds, Goto, database, SeedsOf
<1>1. TypeOK'
  BY DEF TypeOK, Labels, Steps
<1>2. ASSUME NEW q \in Runs PROVE Holding(q)' /\ OpenReservation(q)'
  BY NoneAssumption DEF TypeOK, Holding, OpenReservation, Reserving, NoneAssumption
<1> QED BY <1>1, <1>2

\* Completing the run keeps TypeInv.
LEMMA TypeCompleteRun ==
  ASSUME TypeInv, NEW r \in Runs, CompleteRun(r)
  PROVE  TypeInv'
<1> USE DEF TypeInv, CompleteRun, Goto, database, FinalStatus, Forget
<1>1. TypeOK'
  BY IdleType DEF TypeOK, Labels, Steps
<1>2. ASSUME NEW q \in Runs PROVE Holding(q)' /\ OpenReservation(q)'
  BY NoneAssumption DEF TypeOK, Holding, OpenReservation, Reserving, NoneAssumption
<1> QED BY <1>1, <1>2

\* The death of a run keeps TypeInv: its rows stay, its memory goes.
LEMMA TypeCrash ==
  ASSUME TypeInv, NEW r \in Runs, Crash(r)
  PROVE  TypeInv'
<1> USE DEF TypeInv, Crash, database, Forget, Live, Labels, Steps
<1>1. TypeOK'
  BY IdleType DEF TypeOK, Labels, Steps
<1>2. ASSUME NEW q \in Runs PROVE Holding(q)' /\ OpenReservation(q)'
  BY NoneAssumption DEF TypeOK, Holding, OpenReservation, Reserving, NoneAssumption
<1> QED BY <1>1, <1>2

\* A membership written by another job keeps TypeInv.
LEMMA TypeCover ==
  ASSUME TypeInv, NEW a \in Addresses, Cover(a)
  PROVE  TypeInv'
<1> USE DEF TypeInv, Cover, memory
<1>1. TypeOK'
  BY DEF TypeOK
<1>2. ASSUME NEW q \in Runs PROVE Holding(q)' /\ OpenReservation(q)'
  BY DEF Holding, OpenReservation, Reserving
<1> QED BY <1>1, <1>2

\* A step that changes no variable keeps TypeInv.
LEMMA TypeStutter ==
  ASSUME TypeInv, UNCHANGED vars
  PROVE  TypeInv'
BY DEF TypeInv, TypeOK, Holding, OpenReservation, vars, database, memory

\* Every step keeps TypeInv.
LEMMA TypeNext == TypeInv /\ [Next]_vars => TypeInv'
<1> SUFFICES ASSUME TypeInv, [Next]_vars PROVE TypeInv'
  OBVIOUS
<1>1. CASE \E r \in Runs, c \in Campaigns, i \in Inputs : Start(r, c, i)
  BY <1>1, TypeStart
<1>2. CASE \E r \in Runs : Step(r)
  BY <1>2, TypeReadAttempts, TypeReadCoverage, TypePlanRun, TypeBindCampaign,
     TypeCreateRun, TypeReserveQuota, TypeQuotaRefused, TypeReserveAttempt,
     TypeSkipDuplicate, TypeDispatch, TypeRecordObservation,
     TypeSettleReservation, TypeRecordParse, TypeAppendEvidence,
     TypeImportSeeds, TypeCompleteRun
     DEF Step
<1>3. CASE \E r \in Runs : Crash(r)
  BY <1>3, TypeCrash
<1>4. CASE \E a \in Addresses : Cover(a)
  BY <1>4, TypeCover
<1>5. CASE UNCHANGED vars
  BY <1>5, TypeStutter
<1> QED BY <1>1, <1>2, <1>3, <1>4, <1>5 DEF Next

\* Every variable keeps its type, every run holds what its next step uses.
THEOREM TypeInvariance == Spec => []TypeInv
BY TypeInit, TypeNext, PTL DEF Spec

\* Type correctness of AddressEnrichmentService.run and its tables.
THEOREM TypeCorrect == Spec => []TypeOK
<1>1. TypeInv => TypeOK
  BY DEF TypeInv
<1> QED BY <1>1, TypeInvariance, PTL

\* A run that ends by itself leaves no quota reservation open; one that dies
\* leaves at most the one it was using.
THEOREM QuotaAccounted == Spec => []QuotaAccounting
<1>1. TypeInv => QuotaAccounting
  BY DEF TypeInv, OpenReservation, Reserving, QuotaAccounting
<1> QED BY <1>1, TypeInvariance, PTL

-----------------------------------------------------------------------------
(***************************************************************************)
(* At most one request per address of a campaign                           *)
(***************************************************************************)

\* The run in step "claimed" or "replied" is the only one there for its
\* address, has the attempt row, and nothing is recorded for it yet.  Without
\* this the count of requests is not inductive: a second run in "claimed"
\* with the same address would send again.
Owning == {"claimed", "replied"}
Owns(r) ==
  pc[r] \in Owning =>
    /\ <<camp[r], cur[r]>> \in attempts
    /\ sent[camp[r]][cur[r]] = IF pc[r] = "claimed" THEN 0 ELSE 1
    /\ observed[camp[r]][cur[r]] = 0
Apart(q, r) ==
  pc[q] \in Owning /\ pc[r] \in Owning /\ camp[q] = camp[r] /\ cur[q] = cur[r] => q = r

Claims ==
  /\ AtMostOncePerCampaign
  /\ AttemptPrecedesPayment
  /\ \A r \in Runs : Owns(r)
  /\ \A q, r \in Runs : Apart(q, r)

\* Nothing is sent or recorded at first.
LEMMA ClaimsInit == Init => Claims
BY DEF Init, Claims, AtMostOncePerCampaign, AttemptPrecedesPayment, Owns, Owning, Apart

\* A step that neither claims, pays nor records, and lets no run enter the
\* owning steps, keeps Claims.
LEMMA ClaimsKept ==
  ASSUME Claims, UNCHANGED <<attempts, sent, observed>>,
         \A q \in Runs : pc'[q] \in Owning =>
           pc[q] = pc'[q] /\ camp[q] = camp'[q] /\ cur[q] = cur'[q]
  PROVE  Claims'
<1> USE DEF Claims
<1>1. AtMostOncePerCampaign' /\ AttemptPrecedesPayment'
  BY DEF AtMostOncePerCampaign, AttemptPrecedesPayment
<1>2. ASSUME NEW q \in Runs PROVE Owns(q)'
  BY DEF Owns
<1>3. ASSUME NEW q \in Runs, NEW r \in Runs PROVE Apart(q, r)'
  BY DEF Apart
<1> QED BY <1>1, <1>2, <1>3

\* Claiming an address keeps Claims: a fresh row has no request yet.
LEMMA ClaimsReserveAttempt ==
  ASSUME TypeInv, Claims, NEW r \in Runs, ReserveAttempt(r)
  PROVE  Claims'
<1> USE DEF TypeInv, Claims, ReserveAttempt, Goto, WithAttempt, AttemptIsNew
<1>1. cur[r] \in Addresses /\ camp[r] \in Campaigns
  BY DEF Holding
<1>2. sent[camp[r]][cur[r]] \in Nat /\ observed[camp[r]][cur[r]] \in Nat
  BY <1>1 DEF TypeOK
<1>3. AtMostOncePerCampaign' /\ AttemptPrecedesPayment'
  BY DEF AtMostOncePerCampaign, AttemptPrecedesPayment
<1>4. <<camp[r], cur[r]>> \notin attempts =>
        sent[camp[r]][cur[r]] = 0 /\ observed[camp[r]][cur[r]] = 0
  BY <1>1, <1>2 DEF AttemptPrecedesPayment
<1>5. pc'[r] = IF <<camp[r], cur[r]>> \notin attempts THEN "claimed" ELSE "duplicate"
  BY DEF TypeOK
<1>6. ASSUME NEW q \in Runs PROVE Owns(q)'
  <2>1. CASE q = r
    BY <2>1, <1>4, <1>5 DEF Owns, Owning
  <2>2. CASE q # r
    BY <2>2 DEF Owns, TypeOK
  <2> QED BY <2>1, <2>2
<1>7. ASSUME NEW q \in Runs, NEW s \in Runs PROVE Apart(q, s)'
  <2>1. CASE q # r /\ s # r
    BY <2>1 DEF Apart, TypeOK
  <2>2. CASE q = r /\ s # r
    BY <2>2, <1>5 DEF Apart, Owns, Owning, TypeOK
  <2>3. CASE q # r /\ s = r
    BY <2>3, <1>5 DEF Apart, Owns, Owning, TypeOK
  <2> QED BY <2>1, <2>2, <2>3 DEF Apart
<1> QED BY <1>3, <1>6, <1>7

\* A request keeps Claims: only the run that inserted the row sends it.
LEMMA ClaimsDispatch ==
  ASSUME TypeInv, Claims, NEW r \in Runs, Dispatch(r)
  PROVE  Claims'
<1> USE DEF TypeInv, Claims, Dispatch, Goto, database
<1>1. cur[r] \in Addresses /\ camp[r] \in Campaigns
  BY DEF Holding
<1>2. /\ <<camp[r], cur[r]>> \in attempts
      /\ sent[camp[r]][cur[r]] = 0
      /\ observed[camp[r]][cur[r]] = 0
  BY DEF Owns, Owning
<1>3. ASSUME NEW c \in Campaigns, NEW a \in Addresses
      PROVE  sent'[c][a] = IF c = camp[r] /\ a = cur[r] THEN 1 ELSE sent[c][a]
  BY <1>1, <1>2 DEF TypeOK
<1>4. AtMostOncePerCampaign' /\ AttemptPrecedesPayment'
  BY <1>2, <1>3 DEF AtMostOncePerCampaign, AttemptPrecedesPayment
<1>5. ASSUME NEW q \in Runs PROVE Owns(q)'
  <2>1. CASE q = r
    BY <2>1, <1>1, <1>2, <1>3 DEF Owns, Owning, TypeOK
  <2>2. CASE q # r
    <3>1. pc'[q] = pc[q]
      BY <2>2 DEF TypeOK
    <3>2. pc[q] \in Owning => cur[q] \in Addresses /\ camp[q] \in Campaigns
      BY DEF Holding, Owning
    <3>3. pc[q] \in Owning => ~(camp[q] = camp[r] /\ cur[q] = cur[r])
      BY <2>2 DEF Apart, Owning
    <3> QED BY <3>1, <3>2, <3>3, <1>3 DEF Owns
  <2> QED BY <2>1, <2>2
<1>6. ASSUME NEW q \in Runs, NEW s \in Runs PROVE Apart(q, s)'
  BY DEF Apart, Owning, TypeOK
<1> QED BY <1>4, <1>5, <1>6

\* Recording an outcome keeps Claims: the request was not recorded before.
LEMMA ClaimsRecordObservation ==
  ASSUME TypeInv, Claims, NEW r \in Runs, RecordObservation(r)
  PROVE  Claims'
<1> USE DEF TypeInv, Claims, RecordObservation, Goto
<1>1. cur[r] \in Addresses /\ camp[r] \in Campaigns
  BY DEF Holding
<1>2. sent[camp[r]][cur[r]] = 1 /\ observed[camp[r]][cur[r]] = 0
  BY DEF Owns, Owning
<1>3. ASSUME NEW c \in Campaigns, NEW a \in Addresses
      PROVE  observed'[c][a] = IF c = camp[r] /\ a = cur[r] THEN 1 ELSE observed[c][a]
  BY <1>1, <1>2 DEF TypeOK
<1>4. AtMostOncePerCampaign' /\ AttemptPrecedesPayment'
  BY <1>2, <1>3 DEF AtMostOncePerCampaign, AttemptPrecedesPayment
<1>5. ASSUME NEW q \in Runs PROVE Owns(q)'
  <2>1. CASE q = r
    BY <2>1 DEF Owns, Owning, TypeOK
  <2>2. CASE q # r
    <3>1. pc'[q] = pc[q]
      BY <2>2 DEF TypeOK
    <3>2. pc[q] \in Owning => cur[q] \in Addresses /\ camp[q] \in Campaigns
      BY DEF Holding, Owning
    <3>3. pc[q] \in Owning => ~(camp[q] = camp[r] /\ cur[q] = cur[r])
      BY <2>2 DEF Apart, Owning
    <3> QED BY <3>1, <3>2, <3>3, <1>3 DEF Owns
  <2> QED BY <2>1, <2>2
<1>6. ASSUME NEW q \in Runs, NEW s \in Runs PROVE Apart(q, s)'
  BY DEF Apart, Owning, TypeOK
<1> QED BY <1>4, <1>5, <1>6

\* Every step keeps Claims.
LEMMA ClaimsNext == TypeInv /\ Claims /\ [Next]_vars => Claims'
<1> SUFFICES ASSUME TypeInv, Claims, [Next]_vars PROVE Claims'
  OBVIOUS
<1> USE DEF Goto, database, Owning
<1>1. ASSUME NEW r \in Runs, NEW c \in Campaigns, NEW i \in Inputs, Start(r, c, i)
      PROVE  Claims'
  BY <1>1, ClaimsKept DEF TypeInv, TypeOK, Start
<1>2. ASSUME NEW r \in Runs, Step(r) PROVE Claims'
  <2>1. CASE ReadAttempts(r)
    BY <2>1, ClaimsKept DEF TypeInv, TypeOK, ReadAttempts
  <2>2. CASE ReadCoverage(r)
    BY <2>2, ClaimsKept DEF TypeInv, TypeOK, ReadCoverage
  <2>3. CASE PlanRun(r)
    BY <2>3, ClaimsKept DEF TypeInv, TypeOK, PlanRun
  <2>4. CASE BindCampaign(r)
    BY <2>4, ClaimsKept DEF TypeInv, TypeOK, BindCampaign, Forget
  <2>5. CASE CreateRun(r)
    BY <2>5, ClaimsKept DEF TypeInv, TypeOK, CreateRun
  <2>6. CASE QuotaRefused(r)
    BY <2>6, ClaimsKept DEF TypeInv, TypeOK, QuotaRefused
  <2>7. CASE SkipDuplicate(r)
    BY <2>7, ClaimsKept DEF TypeInv, TypeOK, SkipDuplicate, NextItem, Keep
  <2>8. CASE SettleReservation(r)
    BY <2>8, ClaimsKept DEF TypeInv, TypeOK, SettleReservation, NextItem, Keep
  <2>9. CASE RecordParse(r)
    BY <2>9, ClaimsKept DEF TypeInv, TypeOK, RecordParse, AfterSuccess, NextItem, Keep
  <2>10. CASE AppendEvidence(r)
    BY <2>10, ClaimsKept DEF TypeInv, TypeOK, AppendEvidence, AfterSuccess, NextItem, Keep
  <2>11. CASE ImportSeeds(r)
    BY <2>11, ClaimsKept DEF TypeInv, TypeOK, ImportSeeds
  <2>12. CASE CompleteRun(r)
    BY <2>12, ClaimsKept DEF TypeInv, TypeOK, CompleteRun, Forget
  <2>13. ASSUME NEW a \in Addresses, ReserveQuota(r, a) PROVE Claims'
    BY <2>13, ClaimsKept DEF TypeInv, TypeOK, ReserveQuota
  <2> QED
    BY <1>2, <2>1, <2>2, <2>3, <2>4, <2>5, <2>6, <2>7, <2>8, <2>9, <2>10, <2>11, <2>12, <2>13,
       ClaimsReserveAttempt, ClaimsDispatch, ClaimsRecordObservation DEF Step
<1>3. ASSUME NEW r \in Runs, Crash(r) PROVE Claims'
  BY <1>3, ClaimsKept DEF TypeInv, TypeOK, Crash, Forget
<1>4. ASSUME NEW a \in Addresses, Cover(a) PROVE Claims'
  BY <1>4, ClaimsKept DEF Cover, memory
<1>5. CASE UNCHANGED vars
  BY <1>5, ClaimsKept DEF vars, memory
<1> QED BY <1>1, <1>2, <1>3, <1>4, <1>5 DEF Next

\* Claims, the strengthening AtMostOncePerCampaign follows from, always holds.
THEOREM ClaimsInvariance == Spec => []Claims
BY ClaimsInit, ClaimsNext, TypeInvariance, PTL DEF Spec

\* The provider receives at most one request per address of a campaign,
\* whatever runs overlap and wherever they die.
THEOREM AtMostOnce == Spec => []AtMostOncePerCampaign
<1>1. Claims => AtMostOncePerCampaign
  BY DEF Claims
<1> QED BY <1>1, ClaimsInvariance, PTL

\* No request without its attempt row, no recorded outcome without a request.
THEOREM AttemptFirst == Spec => []AttemptPrecedesPayment
<1>1. Claims => AttemptPrecedesPayment
  BY DEF Claims
<1> QED BY <1>1, ClaimsInvariance, PTL

-----------------------------------------------------------------------------
(***************************************************************************)
(* The binding of a campaign governs all its runs                          *)
(***************************************************************************)

\* What a run works on are rows of its own inputs, and from step "bound" on
\* those inputs are the campaign's.
Unbound == {"validated", "attemptsRead", "coverageRead", "planned"}
Rows(r) == IF pc[r] = "idle" THEN {} ELSE RowsOf[input[r]]
Governed(r) ==
  /\ plan[r] \subseteq Rows(r) /\ todo[r] \subseteq Rows(r)
  /\ cur[r] = None \/ cur[r] \in Rows(r)
  /\ pc[r] \in Steps \ Unbound => binding[camp[r]] = input[r]

Governance == BindingGoverns /\ \A r \in Runs : Governed(r)

\* No campaign is bound and no run has a plan at first.
LEMMA GovernanceInit == Init => Governance
BY DEF Init, Governance, BindingGoverns, Governed, Rows, Steps

\* A binding is written once.
LEMMA BindingWrittenOnce ==
  ASSUME TypeInv, NEW r \in Runs, BindCampaign(r)
  PROVE  /\ \A c \in Campaigns : binding[c] # None => binding'[c] = binding[c]
         /\ pc'[r] = "bound" => binding'[camp[r]] = input[r]
<1>1. camp[r] \in Campaigns /\ input[r] \in Inputs /\ input[r] # None
  BY NoneAssumption DEF TypeInv, Holding, BindCampaign, NoneAssumption
<1>2. \A c \in Campaigns :
        binding'[c] = IF c = camp[r] THEN BoundTo(binding[c], input[r]) ELSE binding[c]
  BY <1>1 DEF BindCampaign, TypeInv, TypeOK
<1>3. pc'[r] = "bound" => BindingAccepts(binding'[camp[r]], input[r])
  BY <1>1, <1>2 DEF BindCampaign, Goto, TypeInv, TypeOK
<1> QED BY <1>1, <1>2, <1>3 DEF BoundTo, BindingAccepts

\* A step that leaves attempts alone and moves a single run r, which keeps
\* working on rows of its inputs and is past the binding only if it was.
LEMMA GovernanceKept ==
  ASSUME Governance, NEW r \in Runs,
         UNCHANGED attempts, UNCHANGED binding,
         \A q \in Runs \ {r} :
           UNCHANGED <<pc[q], camp[q], input[q], plan[q], todo[q], cur[q]>>,
         Governed(r)'
  PROVE  Governance'
<1>1. \A q \in Runs \ {r} : Governed(q)'
  BY DEF Governance, Governed, Rows
<1>2. BindingGoverns'
  BY DEF Governance, BindingGoverns
<1> QED BY <1>1, <1>2 DEF Governance

\* Every step keeps Governance.
LEMMA GovernanceNext == TypeInv /\ Governance /\ [Next]_vars => Governance'
<1> SUFFICES ASSUME TypeInv, Governance, [Next]_vars PROVE Governance'
  OBVIOUS
<1> USE DEF Goto, database
<1>1. ASSUME NEW r \in Runs, NEW c \in Campaigns, NEW i \in Inputs, Start(r, c, i)
      PROVE  Governance'
  <2>1. Governed(r)'
    BY <1>1 DEF Start, Governance, Governed, Rows, Steps, Unbound, TypeInv, TypeOK
  <2> QED BY <1>1, <2>1, GovernanceKept DEF Start, TypeInv, TypeOK
<1>2. ASSUME NEW r \in Runs, Step(r) PROVE Governance'
  <2> DEFINE Others == \A q \in Runs \ {r} :
        UNCHANGED <<pc[q], camp[q], input[q], plan[q], todo[q], cur[q]>>
  <2> USE DEF Governance, Governed, Rows, Steps, Unbound
  <2>1. CASE ReadAttempts(r)
    <3>1. Governed(r)'
      BY <2>1 DEF TypeInv, TypeOK, ReadAttempts
    <3>2. Others
      BY <2>1 DEF TypeInv, TypeOK, ReadAttempts
    <3> QED BY <3>1, <3>2, <2>1, GovernanceKept DEF TypeInv, TypeOK, ReadAttempts
  <2>2. CASE ReadCoverage(r)
    <3>1. Governed(r)'
      BY <2>2 DEF TypeInv, TypeOK, ReadCoverage
    <3>2. Others
      BY <2>2 DEF TypeInv, TypeOK, ReadCoverage
    <3> QED BY <3>1, <3>2, <2>2, GovernanceKept DEF TypeInv, TypeOK, ReadCoverage
  <2>3. CASE PlanRun(r)
    <3>1. PICK S \in SUBSET plan[r] :
            /\ plan' = [plan EXCEPT ![r] = S]
            /\ todo' = [todo EXCEPT ![r] = S]
            /\ pc' = [pc EXCEPT ![r] = IF S = {} THEN "done" ELSE "planned"]
      BY <2>3 DEF PlanRun, Planned
    <3>2. Governed(r)' /\ Others
      BY <2>3, <3>1 DEF TypeInv, TypeOK, PlanRun
    <3> QED BY <3>2, <2>3, GovernanceKept DEF PlanRun
  <2>4. CASE BindCampaign(r)
    <3>1. \A c \in Campaigns : binding[c] # None => binding'[c] = binding[c]
      BY <2>4, BindingWrittenOnce
    <3>2. pc'[r] = "bound" => binding'[camp[r]] = input[r]
      BY <2>4, BindingWrittenOnce
    <3>3. BindingGoverns'
      BY <2>4, <3>1 DEF BindCampaign, BindingGoverns
    <3>4. Governed(r)'
      BY <2>4, <3>2 DEF BindCampaign, Forget, TypeInv, TypeOK
    <3>5. ASSUME NEW q \in Runs \ {r} PROVE Governed(q)'
      <4>1. UNCHANGED <<pc[q], camp[q], input[q], plan[q], todo[q], cur[q]>>
        BY <2>4 DEF BindCampaign, Forget, TypeInv, TypeOK
      <4>2. pc[q] # "idle" => camp[q] \in Campaigns /\ input[q] # None
        BY NoneAssumption DEF TypeInv, Holding, NoneAssumption
      <4> QED BY <3>1, <4>1, <4>2
    <3> QED BY <3>3, <3>4, <3>5
  <2>5. CASE CreateRun(r)
    <3>1. Governed(r)'
      BY <2>5 DEF TypeInv, TypeOK, CreateRun
    <3>2. Others
      BY <2>5 DEF TypeInv, TypeOK, CreateRun
    <3> QED BY <3>1, <3>2, <2>5, GovernanceKept DEF TypeInv, TypeOK, CreateRun
  <2>6. ASSUME NEW a \in Addresses, ReserveQuota(r, a) PROVE Governance'
    <3>1. Governed(r)'
      BY <2>6 DEF TypeInv, TypeOK, ReserveQuota
    <3>2. Others
      BY <2>6 DEF TypeInv, TypeOK, ReserveQuota
    <3> QED BY <3>1, <3>2, <2>6, GovernanceKept DEF TypeInv, TypeOK, ReserveQuota
  <2>7. CASE QuotaRefused(r)
    <3>1. Governed(r)'
      BY <2>7 DEF TypeInv, TypeOK, QuotaRefused
    <3>2. Others
      BY <2>7 DEF TypeInv, TypeOK, QuotaRefused
    <3> QED BY <3>1, <3>2, <2>7, GovernanceKept DEF TypeInv, TypeOK, QuotaRefused
  <2>8. CASE ReserveAttempt(r)
    <3>1. Governed(r)'
      BY <2>8 DEF ReserveAttempt, TypeInv, TypeOK
    <3>2. \A q \in Runs \ {r} : Governed(q)'
      BY <2>8 DEF ReserveAttempt, TypeInv, TypeOK
    <3>3. binding[camp[r]] = input[r] /\ cur[r] \in RowsOf[input[r]]
      BY <2>8, NoneAssumption DEF ReserveAttempt, TypeInv, Holding, NoneAssumption
    <3>4. input[r] # None
      BY <2>8, NoneAssumption DEF ReserveAttempt, TypeInv, Holding, NoneAssumption
    <3>5. BindingGoverns'
      BY <2>8, <3>3, <3>4 DEF ReserveAttempt, WithAttempt, BindingGoverns
    <3> QED BY <3>1, <3>2, <3>5
  <2>9. CASE SkipDuplicate(r)
    <3>1. Governed(r)'
      BY <2>9 DEF TypeInv, TypeOK, SkipDuplicate, NextItem, Keep
    <3>2. Others
      BY <2>9 DEF TypeInv, TypeOK, SkipDuplicate, NextItem, Keep
    <3> QED BY <3>1, <3>2, <2>9, GovernanceKept DEF TypeInv, TypeOK, SkipDuplicate, NextItem, Keep
  <2>10. CASE Dispatch(r)
    <3>1. Governed(r)'
      BY <2>10 DEF TypeInv, TypeOK, Dispatch
    <3>2. Others
      BY <2>10 DEF TypeInv, TypeOK, Dispatch
    <3> QED BY <3>1, <3>2, <2>10, GovernanceKept DEF TypeInv, TypeOK, Dispatch
  <2>11. CASE RecordObservation(r)
    <3>1. Governed(r)'
      BY <2>11 DEF TypeInv, TypeOK, RecordObservation
    <3>2. Others
      BY <2>11 DEF TypeInv, TypeOK, RecordObservation
    <3> QED BY <3>1, <3>2, <2>11, GovernanceKept DEF TypeInv, TypeOK, RecordObservation
  <2>12. CASE SettleReservation(r)
    <3>1. Governed(r)'
      BY <2>12 DEF TypeInv, TypeOK, SettleReservation, NextItem, Keep
    <3>2. Others
      BY <2>12 DEF TypeInv, TypeOK, SettleReservation, NextItem, Keep
    <3> QED BY <3>1, <3>2, <2>12, GovernanceKept DEF TypeInv, TypeOK, SettleReservation, NextItem, Keep
  <2>13. CASE RecordParse(r)
    <3>1. Governed(r)'
      BY <2>13 DEF TypeInv, TypeOK, RecordParse, AfterSuccess, NextItem, Keep
    <3>2. Others
      BY <2>13 DEF TypeInv, TypeOK, RecordParse, AfterSuccess, NextItem, Keep
    <3> QED BY <3>1, <3>2, <2>13, GovernanceKept DEF TypeInv, TypeOK, RecordParse, AfterSuccess, NextItem, Keep
  <2>14. CASE AppendEvidence(r)
    <3>1. Governed(r)'
      BY <2>14 DEF TypeInv, TypeOK, AppendEvidence, AfterSuccess, NextItem, Keep
    <3>2. Others
      BY <2>14 DEF TypeInv, TypeOK, AppendEvidence, AfterSuccess, NextItem, Keep
    <3> QED BY <3>1, <3>2, <2>14, GovernanceKept DEF TypeInv, TypeOK, AppendEvidence, AfterSuccess, NextItem, Keep
  <2>15. CASE ImportSeeds(r)
    <3>1. Governed(r)'
      BY <2>15 DEF TypeInv, TypeOK, ImportSeeds
    <3>2. Others
      BY <2>15 DEF TypeInv, TypeOK, ImportSeeds
    <3> QED BY <3>1, <3>2, <2>15, GovernanceKept DEF TypeInv, TypeOK, ImportSeeds
  <2>16. CASE CompleteRun(r)
    <3>1. Governed(r)'
      BY <2>16 DEF TypeInv, TypeOK, CompleteRun, Forget
    <3>2. Others
      BY <2>16 DEF TypeInv, TypeOK, CompleteRun, Forget
    <3> QED BY <3>1, <3>2, <2>16, GovernanceKept DEF TypeInv, TypeOK, CompleteRun, Forget
  <2> QED
    BY <1>2, <2>1, <2>2, <2>3, <2>4, <2>5, <2>6, <2>7, <2>8,
       <2>9, <2>10, <2>11, <2>12, <2>13, <2>14, <2>15, <2>16 DEF Step
<1>3. ASSUME NEW r \in Runs, Crash(r) PROVE Governance'
  <2>1. Governed(r)'
    BY <1>3 DEF Crash, Forget, Governance, Governed, Rows, Steps, TypeInv, TypeOK
  <2> QED BY <1>3, <2>1, GovernanceKept DEF Crash, Forget, TypeInv, TypeOK
<1>4. ASSUME NEW a \in Addresses, Cover(a) PROVE Governance'
  BY <1>4 DEF Cover, memory, Governance, Governed, BindingGoverns, Rows
<1>5. CASE UNCHANGED vars
  BY <1>5 DEF vars, memory, Governance, Governed, BindingGoverns, Rows
<1> QED BY <1>1, <1>2, <1>3, <1>4, <1>5 DEF Next

\* Whatever runs race to bind a campaign, every attempt charged to it is a
\* row of the one queue, cohort and limit it is bound to.
THEOREM BindingGovernsAttempts == Spec => []BindingGoverns
<1>1. Governance => BindingGoverns
  BY DEF Governance
<1> QED BY <1>1, TypeInvariance, GovernanceInit, GovernanceNext, PTL DEF Spec

\* A campaign once bound keeps its queue, cohort and point limit for ever.
THEOREM BindingNeverChanges == Spec => BindingImmutable
<1>1. TypeInv /\ [Next]_vars =>
        [\A c \in Campaigns : binding[c] # None => binding'[c] = binding[c]]_binding
  <2> SUFFICES ASSUME TypeInv, [Next]_vars, binding' # binding
               PROVE  \A c \in Campaigns : binding[c] # None => binding'[c] = binding[c]
    OBVIOUS
  <2>1. \E r \in Runs : BindCampaign(r)
    BY DEF Next, Step, Start, ReadAttempts, ReadCoverage, PlanRun, CreateRun, ReserveQuota,
           QuotaRefused, ReserveAttempt, SkipDuplicate, Dispatch, RecordObservation,
           SettleReservation, RecordParse, AppendEvidence, ImportSeeds, CompleteRun,
           Crash, Cover, vars, database
  <2> QED BY <2>1, BindingWrittenOnce
<1> QED BY <1>1, TypeInvariance, PTL DEF Spec, BindingImmutable

-----------------------------------------------------------------------------
(***************************************************************************)
(* Where parse results and evidence come from                              *)
(***************************************************************************)

\* A run parses only what it has recorded, and appends only what it has parsed.
Recorded(r) ==
  /\ pc[r] \in {"observed", "settled"} => observed[camp[r]][cur[r]] > 0
  /\ pc[r] = "parsed" => <<cur[r], "parsed_success">> \in parses

Provenance == EvidenceProvenance /\ \A r \in Runs : Recorded(r)

\* No parse result and no evidence at first.
LEMMA ProvenanceInit == Init => Provenance
BY DEF Init, Provenance, EvidenceProvenance, Recorded

\* A step that writes no evidence and no parse result keeps Provenance when
\* the runs that enter the steps that rely on a record have one.
LEMMA ProvenanceKept ==
  ASSUME Provenance, UNCHANGED <<evidence, parses>>,
         \A c \in Campaigns, a \in Addresses : observed[c][a] > 0 => observed'[c][a] > 0,
         \A q \in Runs : Recorded(q)'
  PROVE  Provenance'
BY DEF Provenance, EvidenceProvenance

\* Every step keeps Provenance.
LEMMA ProvenanceNext == TypeInv /\ Provenance /\ [Next]_vars => Provenance'
<1> SUFFICES ASSUME TypeInv, Provenance, [Next]_vars PROVE Provenance'
  OBVIOUS
<1> USE DEF Goto, database
<1>1. ASSUME NEW r \in Runs, NEW c \in Campaigns, NEW i \in Inputs, Start(r, c, i)
      PROVE  Provenance'
  BY <1>1 DEF Start, TypeInv, TypeOK, Provenance, EvidenceProvenance, Recorded
<1>2. ASSUME NEW r \in Runs, Step(r) PROVE Provenance'
  <2>a. pc[r] \in Reserving \cup {"settled", "parsed"} =>
          camp[r] \in Campaigns /\ cur[r] \in Addresses
    BY DEF TypeInv, Holding, Reserving
  <2>b. Provenance
    OBVIOUS
  <2>1. CASE ReadAttempts(r)
    BY <2>1, <2>b, ProvenanceKept DEF TypeInv, TypeOK, ReadAttempts, Provenance, Recorded
  <2>2. CASE ReadCoverage(r)
    BY <2>2, <2>b, ProvenanceKept DEF TypeInv, TypeOK, ReadCoverage, Provenance, Recorded
  <2>3. CASE PlanRun(r)
    BY <2>3, <2>b, ProvenanceKept DEF TypeInv, TypeOK, PlanRun, Provenance, Recorded
  <2>4. CASE BindCampaign(r)
    BY <2>4, <2>b, ProvenanceKept DEF TypeInv, TypeOK, BindCampaign, Forget, Provenance, Recorded
  <2>5. CASE CreateRun(r)
    BY <2>5, <2>b, ProvenanceKept DEF TypeInv, TypeOK, CreateRun, Provenance, Recorded
  <2>6. ASSUME NEW a \in Addresses, ReserveQuota(r, a) PROVE Provenance'
    BY <2>6, <2>b, ProvenanceKept DEF TypeInv, TypeOK, ReserveQuota, Provenance, Recorded
  <2>7. CASE QuotaRefused(r)
    BY <2>7, <2>b, ProvenanceKept DEF TypeInv, TypeOK, QuotaRefused, Provenance, Recorded
  <2>8. CASE ReserveAttempt(r)
    BY <2>8, <2>b, ProvenanceKept DEF TypeInv, TypeOK, ReserveAttempt, WithAttempt, AttemptIsNew, Provenance, Recorded
  <2>9. CASE SkipDuplicate(r)
    BY <2>9, <2>b, ProvenanceKept DEF TypeInv, TypeOK, SkipDuplicate, NextItem, Keep, Provenance, Recorded
  <2>10. CASE Dispatch(r)
    BY <2>10, <2>b, ProvenanceKept DEF TypeInv, TypeOK, Dispatch, Provenance, Recorded
  <2>11. CASE RecordObservation(r)
    <3>1. camp[r] \in Campaigns /\ cur[r] \in Addresses
      BY <2>11, <2>a DEF RecordObservation, Reserving
    <3>2. ASSUME NEW c \in Campaigns, NEW a \in Addresses
          PROVE  /\ observed[c][a] > 0 => observed'[c][a] > 0
                 /\ c = camp[r] /\ a = cur[r] => observed'[c][a] > 0
      BY <2>11, <3>1 DEF RecordObservation, TypeInv, TypeOK
    <3>3. ASSUME NEW q \in Runs PROVE Recorded(q)'
      <4>1. pc[q] \in {"observed", "settled"} => camp[q] \in Campaigns /\ cur[q] \in Addresses
        BY DEF TypeInv, Holding
      <4> QED BY <2>11, <3>1, <3>2, <4>1 DEF RecordObservation, Provenance, Recorded, TypeInv, TypeOK
    <3> QED BY <2>11, <3>2, <3>3, ProvenanceKept DEF RecordObservation
  <2>12. CASE SettleReservation(r)
    BY <2>12, <2>b, ProvenanceKept DEF TypeInv, TypeOK, SettleReservation, NextItem, Keep, Provenance, Recorded
  <2>13. CASE RecordParse(r)
    <3>1. camp[r] \in Campaigns /\ cur[r] \in Addresses /\ observed[camp[r]][cur[r]] > 0
      BY <2>13, <2>a DEF RecordParse, Reserving, Provenance, Recorded
    <3>2. EvidenceProvenance'
      BY <2>13, <3>1 DEF RecordParse, WithParse, Provenance, EvidenceProvenance
    <3>3. ASSUME NEW q \in Runs PROVE Recorded(q)'
      BY <2>13 DEF TypeInv, TypeOK, RecordParse, AfterSuccess, NextItem, Keep, Provenance, Recorded, WithParse, ParseOutcome
    <3> QED BY <3>2, <3>3 DEF Provenance
  <2>14. CASE AppendEvidence(r)
    <3>1. <<cur[r], "parsed_success">> \in parses
      BY <2>14 DEF AppendEvidence, Provenance, Recorded
    <3>2. EvidenceProvenance'
      BY <2>14, <3>1 DEF AppendEvidence, Provenance, EvidenceProvenance
    <3>3. ASSUME NEW q \in Runs PROVE Recorded(q)'
      BY <2>14 DEF TypeInv, TypeOK, AppendEvidence, AfterSuccess, NextItem, Keep, Provenance, Recorded
    <3> QED BY <3>2, <3>3 DEF Provenance
  <2>15. CASE ImportSeeds(r)
    BY <2>15, <2>b, ProvenanceKept DEF TypeInv, TypeOK, ImportSeeds, Provenance, Recorded
  <2>16. CASE CompleteRun(r)
    BY <2>16, <2>b, ProvenanceKept DEF TypeInv, TypeOK, CompleteRun, Forget, Provenance, Recorded
  <2> QED
    BY <1>2, <2>1, <2>2, <2>3, <2>4, <2>5, <2>6, <2>7, <2>8,
       <2>9, <2>10, <2>11, <2>12, <2>13, <2>14, <2>15, <2>16 DEF Step
<1>3. ASSUME NEW r \in Runs, Crash(r) PROVE Provenance'
  BY <1>3 DEF Crash, Forget, TypeInv, TypeOK, Provenance, EvidenceProvenance, Recorded
<1>4. ASSUME NEW a \in Addresses, Cover(a) PROVE Provenance'
  BY <1>4 DEF Cover, memory, Provenance, EvidenceProvenance, Recorded
<1>5. CASE UNCHANGED vars
  BY <1>5 DEF vars, memory, Provenance, EvidenceProvenance, Recorded
<1> QED BY <1>1, <1>2, <1>3, <1>4, <1>5 DEF Next

\* Evidence of this route is never there without the parse result of the same
\* address, and a parse result never without a recorded response.
THEOREM EvidenceHasProvenance == Spec => []EvidenceProvenance
<1>1. Provenance => EvidenceProvenance
  BY DEF Provenance
<1> QED BY <1>1, TypeInvariance, ProvenanceInit, ProvenanceNext, PTL DEF Spec

-----------------------------------------------------------------------------
(***************************************************************************)
(* Entities named by evidence are seeded or still in a run's memory        *)
(***************************************************************************)

\* What a run took for known is known, it has discovered nothing before its
\* loop, and past import_seeds its discoveries are seeds.
Discoveries(r) ==
  /\ known[r] \subseteq KnownNow
  /\ pc[r] \in Unbound \cup {"idle", "bound"} => found[r] = {}
  /\ pc[r] \in {"seeded", "done"} => found[r] \subseteq seeds

Accounted == EntitiesAccountedFor /\ \A r \in Runs : Discoveries(r)

\* No evidence names an entity at first.
LEMMA AccountedInit == Init => Accounted
BY DEF Init, Accounted, EntitiesAccountedFor, Discoveries

\* A step that appends no evidence and forgets no discovery keeps Accounted.
LEMMA AccountedKept ==
  ASSUME Accounted, UNCHANGED <<evidence, found>>, seeds \subseteq seeds',
         \A q \in Runs : Discoveries(q)'
  PROVE  Accounted'
<1>1. EntitiesAccountedFor'
  BY DEF Accounted, EntitiesAccountedFor, KnownNow, Discoveries
<1> QED BY <1>1 DEF Accounted

\* Every step keeps Accounted.
LEMMA AccountedNext == TypeInv /\ Accounted /\ [Next]_vars => Accounted'
<1> SUFFICES ASSUME TypeInv, Accounted, [Next]_vars PROVE Accounted'
  OBVIOUS
<1> USE DEF Goto, database, KnownNow, Unbound
<1>1. ASSUME NEW r \in Runs, NEW c \in Campaigns, NEW i \in Inputs, Start(r, c, i)
      PROVE  Accounted'
  <2>1. \A q \in Runs : Discoveries(q)'
    BY <1>1 DEF Start, TypeInv, TypeOK, Accounted, Discoveries
  <2> QED BY <1>1, <2>1, AccountedKept DEF Start
<1>2. ASSUME NEW r \in Runs, Step(r) PROVE Accounted'
  <2>1. CASE ReadAttempts(r)
    <3>1. \A q \in Runs : Discoveries(q)'
      BY <2>1 DEF TypeInv, TypeOK, ReadAttempts, Accounted, Discoveries
    <3> QED BY <2>1, <3>1, AccountedKept DEF ReadAttempts
  <2>2. CASE ReadCoverage(r)
    <3>1. \A q \in Runs : Discoveries(q)'
      BY <2>2 DEF TypeInv, TypeOK, ReadCoverage, Accounted, Discoveries
    <3> QED BY <2>2, <3>1, AccountedKept DEF ReadCoverage
  <2>3. CASE PlanRun(r)
    <3>1. \A q \in Runs : Discoveries(q)'
      BY <2>3 DEF TypeInv, TypeOK, PlanRun, Accounted, Discoveries
    <3> QED BY <2>3, <3>1, AccountedKept DEF PlanRun
  <2>4. CASE BindCampaign(r)
    <3>1. ASSUME NEW q \in Runs PROVE Discoveries(q)'
      <4>1. found[r] = {}
        BY <2>4 DEF BindCampaign, Accounted, Discoveries
      <4>2. known'[q] \subseteq known[q]
        BY <2>4 DEF BindCampaign, Forget, TypeInv, TypeOK
      <4>3. pc'[q] = pc[q] \/ q = r
        BY <2>4 DEF BindCampaign, TypeInv, TypeOK
      <4> QED BY <2>4, <4>1, <4>2, <4>3 DEF BindCampaign, Accounted, Discoveries
    <3> QED BY <2>4, <3>1, AccountedKept DEF BindCampaign
  <2>5. CASE CreateRun(r)
    <3>1. \A q \in Runs : Discoveries(q)'
      BY <2>5 DEF TypeInv, TypeOK, CreateRun, Accounted, Discoveries
    <3> QED BY <2>5, <3>1, AccountedKept DEF CreateRun
  <2>6. ASSUME NEW a \in Addresses, ReserveQuota(r, a) PROVE Accounted'
    <3>1. \A q \in Runs : Discoveries(q)'
      BY <2>6 DEF TypeInv, TypeOK, ReserveQuota, Accounted, Discoveries
    <3> QED BY <2>6, <3>1, AccountedKept DEF ReserveQuota
  <2>7. CASE QuotaRefused(r)
    <3>1. \A q \in Runs : Discoveries(q)'
      BY <2>7 DEF TypeInv, TypeOK, QuotaRefused, Accounted, Discoveries
    <3> QED BY <2>7, <3>1, AccountedKept DEF QuotaRefused
  <2>8. CASE ReserveAttempt(r)
    <3>1. \A q \in Runs : Discoveries(q)'
      BY <2>8 DEF TypeInv, TypeOK, ReserveAttempt, WithAttempt, AttemptIsNew, Accounted, Discoveries
    <3> QED BY <2>8, <3>1, AccountedKept DEF ReserveAttempt
  <2>9. CASE SkipDuplicate(r)
    <3>1. \A q \in Runs : Discoveries(q)'
      BY <2>9 DEF TypeInv, TypeOK, SkipDuplicate, NextItem, Keep, Accounted, Discoveries
    <3> QED BY <2>9, <3>1, AccountedKept DEF SkipDuplicate
  <2>10. CASE Dispatch(r)
    <3>1. \A q \in Runs : Discoveries(q)'
      BY <2>10 DEF TypeInv, TypeOK, Dispatch, Accounted, Discoveries
    <3> QED BY <2>10, <3>1, AccountedKept DEF Dispatch
  <2>11. CASE RecordObservation(r)
    <3>1. \A q \in Runs : Discoveries(q)'
      BY <2>11 DEF TypeInv, TypeOK, RecordObservation, Accounted, Discoveries
    <3> QED BY <2>11, <3>1, AccountedKept DEF RecordObservation
  <2>12. CASE SettleReservation(r)
    <3>1. \A q \in Runs : Discoveries(q)'
      BY <2>12 DEF TypeInv, TypeOK, SettleReservation, NextItem, Keep, Accounted, Discoveries
    <3> QED BY <2>12, <3>1, AccountedKept DEF SettleReservation
  <2>13. CASE RecordParse(r)
    <3>1. \A q \in Runs : Discoveries(q)'
      BY <2>13 DEF TypeInv, TypeOK, RecordParse, AfterSuccess, NextItem, Keep, Accounted, Discoveries
    <3> QED BY <2>13, <3>1, AccountedKept DEF RecordParse
  <2>14. CASE AppendEvidence(r)
    <3>1. pc[r] \notin {"seeded", "done"} /\ pc'[r] \notin {"seeded", "done"}
      BY <2>14 DEF TypeInv, TypeOK, AppendEvidence, AfterSuccess, NextItem, Keep
    <3>2. \A q \in Runs : Discoveries(q)'
      BY <2>14 DEF TypeInv, TypeOK, AppendEvidence, AfterSuccess, NextItem, Keep, Accounted, Discoveries
    <3>3. ASSUME NEW a \in Addresses, NEW e \in Entities, <<a, e>> \in evidence'
          PROVE  \/ e \in KnownNow'
                 \/ \E q \in Runs : e \in found'[q] /\ pc'[q] \notin {"seeded", "done"}
      <4>1. CASE <<a, e>> \in evidence
        <5>1. \/ e \in KnownNow
              \/ \E q \in Runs : e \in found[q] /\ pc[q] \notin {"seeded", "done"}
          BY <4>1 DEF Accounted, EntitiesAccountedFor
        <5> QED BY <2>14, <3>1, <5>1 DEF AppendEvidence, TypeInv, TypeOK
      <4>2. CASE e \in Named(reply[r])
        BY <2>14, <3>1, <4>2 DEF AppendEvidence, TypeInv, TypeOK, Accounted, Discoveries
      <4> QED BY <2>14, <3>3, <4>1, <4>2 DEF AppendEvidence
    <3> QED BY <3>2, <3>3 DEF Accounted, EntitiesAccountedFor
  <2>15. CASE ImportSeeds(r)
    <3>1. \A q \in Runs : Discoveries(q)'
      BY <2>15 DEF TypeInv, TypeOK, ImportSeeds, SeedsOf, Accounted, Discoveries
    <3> QED BY <2>15, <3>1, AccountedKept DEF ImportSeeds
  <2>16. CASE CompleteRun(r)
    <3>1. \A q \in Runs : Discoveries(q)'
      BY <2>16 DEF TypeInv, TypeOK, CompleteRun, Forget, Accounted, Discoveries
    <3> QED BY <2>16, <3>1, AccountedKept DEF CompleteRun
  <2> QED
    BY <1>2, <2>1, <2>2, <2>3, <2>4, <2>5, <2>6, <2>7, <2>8,
       <2>9, <2>10, <2>11, <2>12, <2>13, <2>14, <2>15, <2>16 DEF Step
<1>3. ASSUME NEW r \in Runs, Crash(r) PROVE Accounted'
  <2>1. \A q \in Runs : Discoveries(q)'
    BY <1>3 DEF Crash, Forget, TypeInv, TypeOK, Accounted, Discoveries
  <2> QED BY <1>3, <2>1, AccountedKept DEF Crash
<1>4. ASSUME NEW a \in Addresses, Cover(a) PROVE Accounted'
  BY <1>4 DEF Cover, memory, Accounted, EntitiesAccountedFor, Discoveries
<1>5. CASE UNCHANGED vars
  BY <1>5 DEF vars, memory, Accounted, EntitiesAccountedFor, Discoveries
<1> QED BY <1>1, <1>2, <1>3, <1>4, <1>5 DEF Next

\* An entity named by evidence is known, or a run that has not imported its
\* seeds had discovered it.
THEOREM EntitiesAreAccountedFor == Spec => []EntitiesAccountedFor
<1>1. Accounted => EntitiesAccountedFor
  BY DEF Accounted
<1> QED BY <1>1, TypeInvariance, AccountedInit, AccountedNext, PTL DEF Spec

-----------------------------------------------------------------------------
(***************************************************************************)
(* Runs that do not overlap keep a campaign to its point limit             *)
(***************************************************************************)

\* The addresses a campaign has recorded, and those a run may still record.
RecordedOf(c) == { a \in Addresses : observed[c][a] > 0 }
AtHand == {"reserved", "claimed", "replied"}
Ahead(r) == todo[r] \cup (IF pc[r] \in AtHand THEN {cur[r]} ELSE {})

\* Every recorded address cost its campaign a point.
Priced == \A c \in Campaigns : Cardinality(RecordedOf(c)) <= points[c]

\* From its plan on, what a run may still record fits beside what its
\* campaign has recorded.  Taken as one set the two never grow: an address
\* only moves from the one to the other.  This needs the run to be alone: a
\* second one would record addresses the first has not counted.
Planning == {"validated", "attemptsRead", "coverageRead"}
Fits(r) ==
  pc[r] \in Steps \ Planning =>
    Cardinality(RecordedOf(camp[r]) \cup Ahead(r)) <= PointLimit[input[r]]

Alone == \A q, r \in Runs : Live(q) /\ Live(r) => q = r

PointsInv ==
  /\ RequestsWithinPointLimit /\ Priced /\ Alone
  /\ \A r \in Runs : Fits(r)

\* Sets of addresses are finite, and counted monotonically.
LEMMA AddressSets ==
  ASSUME NEW S \in SUBSET Addresses
  PROVE  /\ IsFiniteSet(S) /\ Cardinality(S) \in Nat
         /\ \A T \in SUBSET S : Cardinality(T) <= Cardinality(S)
<1>1. IsFiniteSet(S)
  BY FiniteAssumption, FS_Subset DEF FiniteAssumption
<1> QED
  BY <1>1, FS_Subset, FS_CardinalityType

\* What a run has ahead are addresses.
LEMMA AheadType ==
  ASSUME TypeInv, NEW r \in Runs
  PROVE  Ahead(r) \subseteq Addresses
BY DEF TypeInv, TypeOK, Holding, Ahead, AtHand

\* Nothing is recorded and nobody runs at first.
LEMMA PointsInit == Init => PointsInv
<1> SUFFICES ASSUME Init PROVE PointsInv
  OBVIOUS
<1>1. \A c \in Campaigns : RecordedOf(c) = {}
  BY DEF Init, RecordedOf
<1>2. Priced
  <2>1. \A c \in Campaigns : Cardinality(RecordedOf(c)) = 0 /\ points[c] = 0
    BY <1>1, FS_EmptySet DEF Init
  <2> QED
    BY <2>1 DEF Priced
<1>3. RequestsWithinPointLimit
  BY DEF Init, RequestsWithinPointLimit
<1> QED
  BY <1>2, <1>3 DEF Init, PointsInv, Alone, Live, Fits, Steps, Planning

\* A step that records nothing, binds nothing and gives no run anything more
\* to record keeps PointsInv.
LEMMA PointsKept ==
  ASSUME TypeInv, PointsInv, UNCHANGED <<observed, points, binding>>,
         \A q \in Runs : Live(q)' => Live(q),
         \A q \in Runs : pc'[q] \in Steps \ Planning =>
           /\ pc[q] \in Steps \ Planning
           /\ camp'[q] = camp[q] /\ input'[q] = input[q]
           /\ Ahead(q)' \subseteq Ahead(q)
  PROVE  PointsInv'
<1>1. \A c : RecordedOf(c)' = RecordedOf(c)
  BY DEF RecordedOf
<1>2. ASSUME NEW q \in Runs PROVE Fits(q)'
  <2> SUFFICES ASSUME pc'[q] \in Steps \ Planning
               PROVE  Cardinality((RecordedOf(camp[q]) \cup Ahead(q))') <= PointLimit[input[q]]
    BY DEF Fits
  <2>1. camp[q] \in Campaigns /\ input[q] \in Inputs
    BY DEF TypeInv, Holding, Steps
  <2>2. (RecordedOf(camp[q]) \cup Ahead(q))' \subseteq RecordedOf(camp[q]) \cup Ahead(q)
    BY <1>1
  <2>3. RecordedOf(camp[q]) \cup Ahead(q) \in SUBSET Addresses
    BY AheadType DEF RecordedOf
  <2>4. Cardinality(RecordedOf(camp[q]) \cup Ahead(q)) <= PointLimit[input[q]]
    BY DEF PointsInv, Fits
  <2>5. PointLimit[input[q]] \in Nat
    BY <2>1, InputAssumption DEF InputAssumption
  <2> DEFINE all == RecordedOf(camp[q]) \cup Ahead(q)
             rest == (RecordedOf(camp[q]) \cup Ahead(q))'
  <2>6. /\ Cardinality(rest) \in Nat /\ Cardinality(all) \in Nat
        /\ Cardinality(rest) <= Cardinality(all)
    <3> rest \in SUBSET all /\ all \in SUBSET Addresses
      BY <2>2, <2>3
    <3> HIDE DEF rest, all
    <3> QED
      BY AddressSets
  <2> QED
    BY <2>4, <2>5, <2>6
<1>3. Priced' /\ RequestsWithinPointLimit'
  BY <1>1 DEF PointsInv, Priced, RequestsWithinPointLimit, RecordedOf
<1>4. Alone'
  BY DEF PointsInv, Alone
<1> QED
  BY <1>2, <1>3, <1>4 DEF PointsInv

\* A run starts only while no other is alive.
LEMMA PointsStart ==
  ASSUME MaxActive = 1, TypeInv, PointsInv,
         NEW r \in Runs, NEW c \in Campaigns, NEW i \in Inputs, Start(r, c, i)
  PROVE  PointsInv'
<1> DEFINE alive == { q \in Runs : Live(q) }
<1>1. alive = {}
  <2>1. IsFiniteSet(alive)
    BY FiniteAssumption, FS_Subset DEF FiniteAssumption
  <2>2. Cardinality(alive) < 1 /\ Cardinality(alive) \in Nat
    BY <2>1, FS_CardinalityType DEF Start
  <2> QED
    BY <2>1, <2>2, FS_EmptySet
<1>2. /\ observed' = observed /\ points' = points /\ binding' = binding
      /\ pc' = [pc EXCEPT ![r] = "validated"]
  BY DEF Start, Goto, database
<1>3. \A q \in Runs : Live(q)' => q = r
  BY <1>1, <1>2 DEF Live, TypeInv, TypeOK
<1>4. Alone'
  BY <1>3 DEF Alone
<1>5. \A q \in Runs : Fits(q)'
  BY <1>2, <1>3 DEF Fits, Live, Steps, Planning, TypeInv, TypeOK
<1>6. Priced' /\ RequestsWithinPointLimit'
  BY <1>2 DEF PointsInv, Priced, RequestsWithinPointLimit, RecordedOf
<1> QED
  BY <1>4, <1>5, <1>6 DEF PointsInv

\* A plan is cut to the points that remain, and a point buys one address.
LEMMA PointsPlanRun ==
  ASSUME TypeInv, PointsInv, NEW r \in Runs, PlanRun(r)
  PROVE  PointsInv'
<1> DEFINE c == camp[r]
           limit == PointLimit[input[r]]
           room == Lesser(RequestLimit, Remaining(limit, points[c]))
<1>1. PICK S \in Planned(plan[r], room) :
        /\ pc' = [pc EXCEPT ![r] = IF S = {} THEN "done" ELSE "planned"]
        /\ todo' = [todo EXCEPT ![r] = S]
        /\ UNCHANGED <<observed, points, binding, camp, input, cur>>
  BY DEF PlanRun, Goto, database
<1>2. /\ c \in Campaigns /\ limit \in Nat /\ points[c] \in Nat /\ RequestLimit \in Nat
      /\ plan[r] \in SUBSET Addresses /\ pc[r] = "coverageRead"
  BY InputAssumption, LimitAssumption
     DEF InputAssumption, LimitAssumption, TypeInv, TypeOK, Holding, PlanRun
<1> HIDE DEF limit, c
<1>3. S \in SUBSET Addresses /\ Cardinality(S) <= room
  <2>1. S \in SUBSET plan[r] /\ Cardinality(S) = Lesser(room, Cardinality(plan[r]))
    BY DEF Planned
  <2>2. room \in Nat /\ Cardinality(plan[r]) \in Nat
    BY <1>2, AddressSets DEF Lesser, Remaining
  <2> QED
    BY <1>2, <2>1, <2>2 DEF Lesser
<1>4. \A q : RecordedOf(q)' = RecordedOf(q)
  BY <1>1 DEF RecordedOf
<1>5. \A q \in Runs : Live(q)' => Live(q)
  BY <1>1, <1>2 DEF Live, Steps, TypeInv, TypeOK
<1>6. Fits(r)'
  <2> SUFFICES ASSUME S # {}
               PROVE  Cardinality(RecordedOf(c) \cup S) <= limit
    <3>1. pc'[r] \in {"planned", "done"} /\ (pc'[r] = "planned" => S # {})
      BY <1>1, <1>2 DEF TypeInv, TypeOK
    <3>2. pc'[r] = "planned" => Ahead(r)' = S
      BY <1>1 DEF Ahead, AtHand, TypeInv, TypeOK
    <3>3. camp'[r] = c /\ PointLimit[input'[r]] = limit
      BY <1>1 DEF c, limit
    <3> QED
      BY <1>4, <3>1, <3>2, <3>3 DEF Fits, Steps, Planning
  <2> DEFINE had == RecordedOf(c)
  <2>1. had \in SUBSET Addresses
    BY DEF RecordedOf
  <2>2. /\ IsFiniteSet(had) /\ Cardinality(had) \in Nat
        /\ IsFiniteSet(S) /\ Cardinality(S) \in Nat
        /\ Cardinality(had \cap S) \in Nat
    <3> had \cap S \in SUBSET Addresses
      BY <2>1
    <3> HIDE DEF had
    <3> QED
      BY <1>3, <2>1, AddressSets
  <2>3. Cardinality(had) <= points[c]
    BY <1>2 DEF PointsInv, Priced
  <2>4. Cardinality(S) # 0
    BY <2>2, FS_EmptySet
  <2>5. Cardinality(S) + points[c] <= limit
    BY <1>2, <1>3, <2>2, <2>4 DEF Lesser, Remaining
  <2>6. Cardinality(had \cup S) = Cardinality(had) + Cardinality(S) - Cardinality(had \cap S)
    <3> HIDE DEF had
    <3> QED
      BY <2>2, FS_Union
  <2> HIDE DEF had
  <2>7. Cardinality(had \cup S) <= limit
    BY <1>2, <2>2, <2>3, <2>5, <2>6
  <2> QED
    BY <2>7 DEF had
<1>7. ASSUME NEW q \in Runs, q # r PROVE Fits(q)'
  <2>1. ~Live(q)
    BY <1>2, <1>7 DEF PointsInv, Alone, Live, Steps
  <2> QED
    BY <1>5, <2>1 DEF Fits, Live
<1>8. Priced' /\ RequestsWithinPointLimit'
  BY <1>1, <1>4 DEF PointsInv, Priced, RequestsWithinPointLimit, RecordedOf
<1>9. Alone'
  BY <1>5 DEF PointsInv, Alone
<1> QED
  BY <1>6, <1>7, <1>8, <1>9 DEF PointsInv

\* A campaign without a binding has recorded nothing.
LEMMA UnboundRecordsNothing ==
  ASSUME TypeInv, Claims, Governance, NEW c \in Campaigns, binding[c] = None
  PROVE  RecordedOf(c) = {}
<1> SUFFICES ASSUME NEW a \in Addresses, observed[c][a] > 0 PROVE FALSE
  BY DEF RecordedOf
<1>1. sent[c][a] > 0
  <2>1. observed[c][a] \in Nat /\ sent[c][a] \in Nat
    BY DEF TypeInv, TypeOK
  <2>2. observed[c][a] <= sent[c][a]
    BY DEF Claims, AttemptPrecedesPayment
  <2> QED
    BY <2>1, <2>2
<1>2. <<c, a>> \in attempts
  BY <1>1 DEF Claims, AttemptPrecedesPayment
<1> QED
  BY <1>2 DEF Governance, BindingGoverns

\* A campaign that is bound now has recorded nothing yet.
LEMMA PointsBindCampaign ==
  ASSUME TypeInv, Claims, Governance, PointsInv, NEW r \in Runs, BindCampaign(r)
  PROVE  PointsInv'
<1> DEFINE c == camp[r]
<1>1. /\ observed' = observed /\ points' = points /\ camp' = camp /\ input' = input
      /\ binding' = [binding EXCEPT ![c] = BoundTo(binding[c], input[r])]
      /\ pc[r] = "planned"
      /\ \/ pc' = [pc EXCEPT ![r] = "bound"] /\ todo' = todo
         \/ pc' = [pc EXCEPT ![r] = "done"] /\ todo' = [todo EXCEPT ![r] = {}]
  BY DEF BindCampaign, Goto, Forget
<1>2. \A q : RecordedOf(q)' = RecordedOf(q)
  BY <1>1 DEF RecordedOf
<1>3. \A q \in Runs : Live(q)' => Live(q)
  BY <1>1 DEF Live, Steps, TypeInv, TypeOK
<1>4. RequestsWithinPointLimit'
  <2> SUFFICES ASSUME NEW d \in Campaigns, binding'[d] # None
               PROVE  Cardinality(RecordedOf(d)') <= PointLimit[binding'[d]]
    BY DEF RequestsWithinPointLimit, RecordedOf
  <2>1. CASE binding[d] = None
    <3>1. RecordedOf(d) = {} /\ binding'[d] \in Inputs
      BY <1>1, <2>1, UnboundRecordsNothing DEF TypeInv, TypeOK, Holding, BoundTo
    <3>2. PointLimit[binding'[d]] \in Nat
      BY <3>1, InputAssumption DEF InputAssumption
    <3> QED
      BY <1>2, <3>1, <3>2, FS_EmptySet
  <2>2. CASE binding[d] # None
    <3>1. binding'[d] = binding[d]
      BY <1>1, <2>2 DEF BoundTo, TypeInv, TypeOK
    <3> QED
      BY <1>2, <2>2, <3>1 DEF PointsInv, RequestsWithinPointLimit, RecordedOf
  <2> QED
    BY <2>1, <2>2
<1>5. ASSUME NEW q \in Runs PROVE Fits(q)'
  <2>1. CASE q = r
    <3>1. pc'[r] \in {"bound", "done"} /\ (pc'[r] = "bound" => Ahead(r)' = Ahead(r))
      BY <1>1 DEF Ahead, AtHand, TypeInv, TypeOK
    <3>2. Cardinality(RecordedOf(c) \cup Ahead(r)) <= PointLimit[input[r]]
      BY <1>1 DEF PointsInv, Fits, Steps, Planning
    <3> QED
      BY <1>1, <1>2, <2>1, <3>1, <3>2 DEF Fits, Steps
  <2>2. CASE q # r
    <3>1. ~Live(q)
      BY <1>1, <2>2 DEF PointsInv, Alone, Live, Steps
    <3> QED
      BY <1>3, <3>1 DEF Fits, Live
  <2> QED
    BY <2>1, <2>2
<1>6. Priced'
  BY <1>1, <1>2 DEF PointsInv, Priced
<1>7. Alone'
  BY <1>3 DEF PointsInv, Alone
<1> QED
  BY <1>4, <1>5, <1>6, <1>7 DEF PointsInv

\* The address that is recorded was counted ahead, and costs a point.
LEMMA PointsRecordObservation ==
  ASSUME TypeInv, Governance, PointsInv, NEW r \in Runs, RecordObservation(r)
  PROVE  PointsInv'
<1>0. PICK c \in Campaigns, a \in Addresses : c = camp[r] /\ a = cur[r]
  BY DEF RecordObservation, Goto, TypeInv, Holding
<1>1. /\ pc[r] = "replied" /\ pc' = [pc EXCEPT ![r] = "observed"]
      /\ observed' = [observed EXCEPT ![c][a] = @ + 1]
      /\ points' = [points EXCEPT ![c] = @ + reply[r].price]
      /\ UNCHANGED <<binding, camp, input, todo, cur>>
  BY <1>0 DEF RecordObservation, Goto
<1>2. /\ input[r] \in Inputs
      /\ reply[r].price \in Nat \ {0} /\ points[c] \in Nat
  BY <1>0, <1>1, LimitAssumption DEF LimitAssumption, Replies, TypeInv, TypeOK, Holding
<1>3. RecordedOf(c)' = RecordedOf(c) \cup {a}
  BY <1>1, <1>2 DEF RecordedOf, TypeInv, TypeOK
<1>4. \A d \in Campaigns : d # c => RecordedOf(d)' = RecordedOf(d) /\ points'[d] = points[d]
  BY <1>1, <1>2 DEF RecordedOf, TypeInv, TypeOK
<1>5. RecordedOf(c) \in SUBSET Addresses /\ (RecordedOf(c) \cup {a}) \in SUBSET Addresses
  BY <1>2 DEF RecordedOf
<1> DEFINE had == RecordedOf(c)
<1> HIDE DEF had
<1>6. Priced'
  <2>1. Cardinality(had \cup {a}) <= Cardinality(had) + 1 /\ Cardinality(had) \in Nat
    BY <1>5, AddressSets, FS_AddElement DEF had
  <2>2. Cardinality(had) <= points[c]
    BY <1>2 DEF PointsInv, Priced, had
  <2>3. points'[c] = points[c] + reply[r].price
    BY <1>1, <1>2 DEF TypeInv, TypeOK
  <2>4. Cardinality(had \cup {a}) \in Nat
    BY <1>5, AddressSets DEF had
  <2>5. Cardinality(RecordedOf(c)') <= points'[c]
    BY <1>2, <1>3, <2>1, <2>2, <2>3, <2>4 DEF had
  <2>6. ASSUME NEW d \in Campaigns, d # c PROVE Cardinality(RecordedOf(d)') <= points'[d]
    BY <1>4, <2>6 DEF PointsInv, Priced
  <2> QED
    BY <2>5, <2>6 DEF Priced
<1> DEFINE both == had \cup Ahead(r)
<1>7. /\ (RecordedOf(c) \cup Ahead(r))' \subseteq both
      /\ RecordedOf(c)' \subseteq both
      /\ both \in SUBSET Addresses
  <2>1. Ahead(r) = todo[r] \cup {a} /\ Ahead(r)' = todo[r]
    BY <1>0, <1>1 DEF Ahead, AtHand, TypeInv, TypeOK
  <2> QED
    BY <1>3, <1>5, <2>1, AheadType DEF had
<1>8. Cardinality(both) <= PointLimit[input[r]] /\ PointLimit[input[r]] \in Nat
  BY <1>0, <1>1, <1>2, InputAssumption
     DEF InputAssumption, PointsInv, Fits, Steps, Planning, both, had
<1> HIDE DEF both
<1>9. \A T \in SUBSET both : Cardinality(T) <= PointLimit[input[r]]
  <2> SUFFICES ASSUME NEW T \in SUBSET both PROVE Cardinality(T) <= PointLimit[input[r]]
    OBVIOUS
  <2>1. /\ Cardinality(both) \in Nat /\ Cardinality(T) \in Nat
        /\ Cardinality(T) <= Cardinality(both)
    BY <1>7, AddressSets
  <2> QED
    BY <1>8, <2>1
<1>10. RequestsWithinPointLimit'
  <2>1. binding[c] = input[r]
    BY <1>0, <1>1 DEF Governance, Governed, Unbound, Steps
  <2>2. Cardinality(RecordedOf(c)') <= PointLimit[binding'[c]]
    BY <1>1, <1>7, <1>9, <2>1
  <2>3. ASSUME NEW d \in Campaigns, d # c, binding[d] # None
        PROVE  Cardinality(RecordedOf(d)') <= PointLimit[binding'[d]]
    BY <1>1, <1>4, <2>3 DEF PointsInv, RequestsWithinPointLimit, RecordedOf
  <2>4. RequestsWithinPointLimit' <=>
          \A d \in Campaigns :
            binding'[d] # None => Cardinality(RecordedOf(d)') <= PointLimit[binding'[d]]
    BY DEF RequestsWithinPointLimit, RecordedOf
  <2> QED
    BY <1>1, <2>2, <2>3, <2>4
<1>11. ASSUME NEW q \in Runs PROVE Fits(q)'
  <2>1. CASE q = r
    BY <1>0, <1>1, <1>7, <1>9, <2>1 DEF Fits
  <2>2. CASE q # r
    <3>1. ~Live(q) /\ pc'[q] = pc[q]
      BY <1>1, <2>2 DEF PointsInv, Alone, Live, Steps, TypeInv, TypeOK
    <3> QED
      BY <3>1 DEF Fits, Live
  <2> QED
    BY <2>1, <2>2
<1>12. Alone'
  BY <1>1 DEF PointsInv, Alone, Live, Steps, TypeInv, TypeOK
<1> QED
  BY <1>6, <1>10, <1>11, <1>12 DEF PointsInv

\* Every step keeps PointsInv where runs do not overlap.
LEMMA PointsNext ==
  ASSUME MaxActive = 1, TypeInv, Claims, Governance, PointsInv, [Next]_vars
  PROVE  PointsInv'
<1> USE DEF Goto, Ahead, AtHand, Steps, Planning, Live, TypeInv, TypeOK
<1>1. ASSUME NEW r \in Runs, NEW c \in Campaigns, NEW i \in Inputs, Start(r, c, i)
      PROVE  PointsInv'
  BY <1>1, PointsStart
<1>2. ASSUME NEW r \in Runs, Step(r) PROVE PointsInv'
  <2>1. CASE ReadAttempts(r)
    BY <2>1, PointsKept DEF ReadAttempts, database
  <2>2. CASE ReadCoverage(r)
    BY <2>2, PointsKept DEF ReadCoverage, database
  <2>3. CASE PlanRun(r)
    BY <2>3, PointsPlanRun
  <2>4. CASE BindCampaign(r)
    BY <2>4, PointsBindCampaign
  <2>5. CASE CreateRun(r)
    BY <2>5, PointsKept DEF CreateRun
  <2>6. ASSUME NEW a \in Addresses, ReserveQuota(r, a) PROVE PointsInv'
    BY <2>6, PointsKept DEF ReserveQuota
  <2>7. CASE QuotaRefused(r)
    BY <2>7, PointsKept DEF QuotaRefused, database
  <2>8. CASE ReserveAttempt(r)
    BY <2>8, PointsKept DEF ReserveAttempt
  <2>9. CASE SkipDuplicate(r)
    BY <2>9, PointsKept DEF SkipDuplicate, NextItem, Keep
  <2>10. CASE Dispatch(r)
    BY <2>10, PointsKept DEF Dispatch, database
  <2>11. CASE RecordObservation(r)
    BY <2>11, PointsRecordObservation
  <2>12. CASE SettleReservation(r)
    BY <2>12, PointsKept DEF SettleReservation, NextItem, Keep
  <2>13. CASE RecordParse(r)
    BY <2>13, PointsKept DEF RecordParse, AfterSuccess, NextItem, Keep
  <2>14. CASE AppendEvidence(r)
    BY <2>14, PointsKept DEF AppendEvidence, AfterSuccess, NextItem, Keep
  <2>15. CASE ImportSeeds(r)
    BY <2>15, PointsKept DEF ImportSeeds
  <2>16. CASE CompleteRun(r)
    BY <2>16, PointsKept DEF CompleteRun, Forget
  <2> QED
    BY <1>2, <2>1, <2>2, <2>3, <2>4, <2>5, <2>6, <2>7, <2>8,
       <2>9, <2>10, <2>11, <2>12, <2>13, <2>14, <2>15, <2>16 DEF Step
<1>3. ASSUME NEW r \in Runs, Crash(r) PROVE PointsInv'
  BY <1>3, PointsKept DEF Crash, Forget, database
<1>4. ASSUME NEW a \in Addresses, Cover(a) PROVE PointsInv'
  BY <1>4, PointsKept DEF Cover, memory
<1>5. CASE UNCHANGED vars
  BY <1>5, PointsKept DEF vars, database, memory
<1> QED BY <1>1, <1>2, <1>3, <1>4, <1>5 DEF Next

\* When runs do not overlap, a campaign never records more requests than its
\* point limit.
THEOREM SerialRunsKeepTheLimit ==
  ASSUME MaxActive = 1
  PROVE  Spec => []RequestsWithinPointLimit
<1>1. Init => Governance /\ PointsInv
  BY GovernanceInit, PointsInit
<1>2. TypeInv /\ Claims /\ Governance /\ PointsInv /\ [Next]_vars => Governance' /\ PointsInv'
  BY GovernanceNext, PointsNext
<1>3. PointsInv => RequestsWithinPointLimit
  BY DEF PointsInv
<1> QED
  BY <1>1, <1>2, <1>3, TypeInvariance, ClaimsInvariance, PTL DEF Spec

-----------------------------------------------------------------------------
(***************************************************************************)
(* The service implements CampaignLedger                                   *)
(***************************************************************************)

Cells == [c \in Campaigns |-> [a \in Addresses |-> Stage(c, a)]]

\* The service starts where the ledger starts: every cell free.
LEMMA LedgerInit == Init => Ledger!Init
BY DEF Init, Ledger!Init, Stage

\* A step that leaves attempts, requests and observations alone is a stutter of the ledger.
LEMMA CellsKept ==
  ASSUME UNCHANGED <<attempts, sent, observed>>
  PROVE  UNCHANGED Cells
BY DEF Cells, Stage

\* A step that moves the stage of one address is a step of the ledger.
LEMMA OneCellMoves ==
  ASSUME NEW c \in Campaigns, NEW a \in Addresses,
         NEW to, Stage(c, a)' = to,
         \A d \in Campaigns, b \in Addresses :
           ~(d = c /\ b = a) => Stage(d, b)' = Stage(d, b)
  PROVE  Cells' = [Cells EXCEPT ![c][a] = to]
BY DEF Cells

\* Every step of the service is a step of the ledger or a stutter.
LEMMA LedgerStep ==
  ASSUME TypeInv, Claims, [Next]_vars
  PROVE  [Ledger!Next]_Cells
<1> USE DEF TypeInv, Claims, Goto, database
<1>1. ASSUME NEW r \in Runs, ReserveAttempt(r) PROVE [Ledger!Next]_Cells
  <2>1. PICK c \in Campaigns, a \in Addresses : c = camp[r] /\ a = cur[r]
    BY <1>1 DEF ReserveAttempt, Holding
  <2>2. CASE <<c, a>> \in attempts
    BY <1>1, <2>1, <2>2, CellsKept DEF ReserveAttempt, WithAttempt
  <2>3. CASE <<c, a>> \notin attempts
    <3>1. \A d \in Campaigns, b \in Addresses :
            ~(d = c /\ b = a) => Stage(d, b)' = Stage(d, b)
      BY <1>1, <2>1 DEF ReserveAttempt, WithAttempt, Stage
    <3>2. Stage(c, a) = "free" /\ Stage(c, a)' = "claimed"
      <4>1. sent[c][a] = 0 /\ observed[c][a] = 0
        BY <2>1, <2>3 DEF AttemptPrecedesPayment, TypeOK
      <4> QED BY <1>1, <2>1, <2>3, <4>1 DEF ReserveAttempt, WithAttempt, Stage
    <3>3. Ledger!Claim(c, a)
      <4>1. Cells' = [Cells EXCEPT ![c][a] = "claimed"]
        BY <2>1, <3>1, <3>2, OneCellMoves
      <4>2. Cells[c][a] = "free"
        BY <2>1, <3>1, <3>2 DEF Cells
      <4> QED BY <4>1, <4>2 DEF Ledger!Claim, Ledger!Advance, Cells
    <3> QED BY <2>1, <3>3 DEF Ledger!Next, Cells
  <2> QED BY <2>2, <2>3
<1>2. ASSUME NEW r \in Runs, Dispatch(r) PROVE [Ledger!Next]_Cells
  <2>1. PICK c \in Campaigns, a \in Addresses : c = camp[r] /\ a = cur[r]
    BY <1>2 DEF Dispatch, Holding
  <2>2. /\ <<c, a>> \in attempts
        /\ sent[c][a] = 0
        /\ observed[c][a] = 0
    BY <1>2, <2>1 DEF Dispatch, Owns, Owning
  <2>3. ASSUME NEW d \in Campaigns, NEW b \in Addresses
        PROVE  sent'[d][b] = IF d = c /\ b = a THEN 1 ELSE sent[d][b]
    BY <1>2, <2>1, <2>2 DEF Dispatch, TypeOK
  <2>4. \A d \in Campaigns, b \in Addresses :
          ~(d = c /\ b = a) => Stage(d, b)' = Stage(d, b)
    BY <1>2, <2>3 DEF Dispatch, Stage
  <2>5. Stage(c, a) = "claimed" /\ Stage(c, a)' = "paid"
    BY <1>2, <2>1, <2>2, <2>3 DEF Dispatch, Stage
  <2>6. Ledger!Pay(c, a)
    <3>1. Cells' = [Cells EXCEPT ![c][a] = "paid"]
      BY <2>1, <2>4, <2>5, OneCellMoves
    <3>2. Cells[c][a] = "claimed"
      BY <2>1, <2>4, <2>5 DEF Cells
    <3> QED BY <3>1, <3>2 DEF Ledger!Pay, Ledger!Advance, Cells
  <2> QED BY <2>1, <2>6 DEF Ledger!Next, Cells
<1>3. ASSUME NEW r \in Runs, RecordObservation(r) PROVE [Ledger!Next]_Cells
  <2>1. PICK c \in Campaigns, a \in Addresses : c = camp[r] /\ a = cur[r]
    BY <1>3 DEF RecordObservation, Holding
  <2>2. sent[c][a] = 1 /\ observed[c][a] = 0
    BY <1>3, <2>1 DEF RecordObservation, Owns, Owning
  <2>3. ASSUME NEW d \in Campaigns, NEW b \in Addresses
        PROVE  observed'[d][b] = IF d = c /\ b = a THEN 1 ELSE observed[d][b]
    BY <1>3, <2>1, <2>2 DEF RecordObservation, TypeOK
  <2>4. \A d \in Campaigns, b \in Addresses :
          ~(d = c /\ b = a) => Stage(d, b)' = Stage(d, b)
    BY <1>3, <2>3 DEF RecordObservation, Stage
  <2>5. Stage(c, a) = "paid" /\ Stage(c, a)' = "recorded"
    BY <1>3, <2>1, <2>2, <2>3 DEF RecordObservation, Stage
  <2>6. Ledger!Record(c, a)
    <3>1. Cells' = [Cells EXCEPT ![c][a] = "recorded"]
      BY <2>1, <2>4, <2>5, OneCellMoves
    <3>2. Cells[c][a] = "paid"
      BY <2>1, <2>4, <2>5 DEF Cells
    <3> QED BY <3>1, <3>2 DEF Ledger!Record, Ledger!Advance, Cells
  <2> QED BY <2>1, <2>6 DEF Ledger!Next, Cells
<1>4. CASE UNCHANGED <<attempts, sent, observed>>
  BY <1>4, CellsKept DEF Cells
<1>5. \/ \E r \in Runs : ReserveAttempt(r) \/ Dispatch(r) \/ RecordObservation(r)
      \/ UNCHANGED <<attempts, sent, observed>>
  <2>1. ASSUME NEW r \in Runs, Step(r),
               ~(ReserveAttempt(r) \/ Dispatch(r) \/ RecordObservation(r))
        PROVE  UNCHANGED <<attempts, sent, observed>>
    <3>1. CASE ReadAttempts(r)
      BY <3>1 DEF ReadAttempts
    <3>2. CASE ReadCoverage(r)
      BY <3>2 DEF ReadCoverage
    <3>3. CASE PlanRun(r)
      BY <3>3 DEF PlanRun
    <3>4. CASE BindCampaign(r)
      BY <3>4 DEF BindCampaign
    <3>5. CASE CreateRun(r)
      BY <3>5 DEF CreateRun
    <3>6. ASSUME NEW a \in Addresses, ReserveQuota(r, a)
          PROVE  UNCHANGED <<attempts, sent, observed>>
      BY <3>6 DEF ReserveQuota
    <3>7. CASE QuotaRefused(r)
      BY <3>7 DEF QuotaRefused
    <3>8. CASE SkipDuplicate(r)
      BY <3>8 DEF SkipDuplicate
    <3>9. CASE SettleReservation(r)
      BY <3>9 DEF SettleReservation
    <3>10. CASE RecordParse(r)
      BY <3>10 DEF RecordParse
    <3>11. CASE AppendEvidence(r)
      BY <3>11 DEF AppendEvidence
    <3>12. CASE ImportSeeds(r)
      BY <3>12 DEF ImportSeeds
    <3>13. CASE CompleteRun(r)
      BY <3>13 DEF CompleteRun
    <3> QED BY <2>1, <3>1, <3>2, <3>3, <3>4, <3>5, <3>6, <3>7,
           <3>8, <3>9, <3>10, <3>11, <3>12, <3>13 DEF Step
  <2>2. ASSUME NEW r \in Runs, NEW c \in Campaigns, NEW i \in Inputs, Start(r, c, i)
        PROVE  UNCHANGED <<attempts, sent, observed>>
    BY <2>2 DEF Start
  <2>3. ASSUME NEW r \in Runs, Crash(r) PROVE UNCHANGED <<attempts, sent, observed>>
    BY <2>3 DEF Crash
  <2>4. ASSUME NEW a \in Addresses, Cover(a) PROVE UNCHANGED <<attempts, sent, observed>>
    BY <2>4 DEF Cover
  <2>5. CASE UNCHANGED vars
    BY <2>5 DEF vars
  <2> QED BY <2>1, <2>2, <2>3, <2>4, <2>5 DEF Next
<1> QED BY <1>1, <1>2, <1>3, <1>4, <1>5

\* The service implements the ledger: claim, pay, record, in that order, each
\* at most once per address of a campaign.
THEOREM LedgerImplemented == Spec => ImplementsLedger
<1>1. Init => Ledger!Init
  BY LedgerInit
<1>2. TypeInv /\ Claims /\ [Next]_vars => [Ledger!Next]_Cells
  BY LedgerStep
<1> QED BY <1>1, <1>2, TypeInvariance, ClaimsInvariance, PTL
        DEF Spec, ImplementsLedger, Ledger!Spec, Cells

=============================================================================
