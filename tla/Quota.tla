-------------------------------- MODULE Quota --------------------------------
(***************************************************************************)
(* QuotaManager: the request slots and response bytes that the runs of     *)
(* four services (fetch, coverage sync, entity fanout and address          *)
(* enrichment) take from one SQLite database.  reserve() counts, then      *)
(* inserts: the two are separate statements, and only the second takes the *)
(* write lock, so runs interleave between them.                            *)
(*                                                                         *)
(* Abstracted: time is a counter and the rolling minute is Window ticks; a *)
(* response is its size; what a run asks the provider for is left out.     *)
(* Bounds of the instances: MaxClock ticks, MaxRequests reserves a run.    *)
(***************************************************************************)
EXTENDS Integers, FiniteSets, FiniteSetsExt

CONSTANTS
  Runs,         \* ingestion runs; each is one process
  LimitOf,      \* [Runs -> request_limit]
  Ceiling,      \* the largest request_limit any service is configured with
  Window,       \* the rolling minute, in ticks
  FrozenRuns,   \* runs that pass their start time to every reserve
  Budget,       \* response_bytes_budget of a run
  Estimate,     \* estimated_response_bytes of a request
  Sizes,        \* response sizes; 0 is a transport error or an empty body
  MaxRetries,   \* max_transport_retries; 0 is fetch_request_once
  MaxActive,    \* how many runs operators let overlap
  MaxClock, MaxRequests

ASSUME LimitAssumption ==
  /\ LimitOf \in [Runs -> Nat \ {0}]
  /\ Ceiling \in Nat /\ \A r \in Runs : LimitOf[r] <= Ceiling
  /\ MaxActive \in Nat \ {0}
  /\ Window \in Nat \ {0}
ASSUME SizeAssumption ==
  /\ Budget \in Nat \ {0} /\ Estimate \in Nat \ {0} /\ Sizes \subseteq Nat
  /\ MaxRetries \in Nat /\ MaxClock \in Nat /\ MaxRequests \in Nat
ASSUME RunAssumption == IsFiniteSet(Runs) /\ FrozenRuns \subseteq Runs

VARIABLES
  clock,
  \* the database
  status,         \* ingestion_run.status
  requestCount,   \* ingestion_run.request_count
  bytesReceived,  \* ingestion_run.response_bytes_received
  rows,           \* request_reservation: k numbers the rows of a run
  \* the provider's side
  sends,          \* requests it received: reservation, retry and time
  \* the memory of each run
  pc,
  stamp,          \* the time it passes to reserve as now
  made,           \* reserves it has tried
  retry           \* transport retries of the request at hand

database == <<status, requestCount, bytesReceived, rows>>
vars == <<clock, database, sends, pc, stamp, made, retry>>

Times == 0 .. MaxClock
Live(r) == pc[r] \notin {"idle", "done", "crashed"}

\* A row holds the estimate until complete() writes the actual size.
Rows == [run : Runs, k : 1 .. MaxRequests, at : Times, open : BOOLEAN,
         bytes : Sizes \cup {Estimate}]

TypeOK ==
  /\ clock \in Times
  /\ status \in [Runs -> {"none", "running", "completed"}]
  /\ requestCount \in [Runs -> 0 .. MaxRequests]
  /\ bytesReceived \in [Runs -> Nat]
  /\ rows \subseteq Rows
  /\ sends \subseteq [run : Runs, k : 1 .. MaxRequests, retry : 0 .. MaxRetries, at : Times]
  /\ pc \in [Runs -> {"idle", "ready", "asking", "counted", "reserved", "answered",
                      "done", "crashed"}]
  /\ stamp \in [Runs -> Times]
  /\ made \in [Runs -> 0 .. MaxRequests]
  /\ retry \in [Runs -> 0 .. MaxRetries]

Init ==
  /\ clock = 0
  /\ status = [r \in Runs |-> "none"]
  /\ requestCount = [r \in Runs |-> 0]
  /\ bytesReceived = [r \in Runs |-> 0]
  /\ rows = {} /\ sends = {}
  /\ pc = [r \in Runs |-> "idle"]
  /\ stamp = [r \in Runs |-> 0]
  /\ made = [r \in Runs |-> 0]
  /\ retry = [r \in Runs |-> 0]

-----------------------------------------------------------------------------
Goto(r, from, to) ==
  /\ pc[r] = from
  /\ pc' = [pc EXCEPT ![r] = to]

RowsOf(r) == { q \in rows : q.run = r }

\* The rows a reserve with that "now" counts: of every run, later than the
\* cutoff; those of the window ending then; and the requests the provider
\* sees in it.
InWindow(now)   == { q \in rows : q.at > now - Window }
Within(now)     == { q \in InWindow(now) : q.at <= now }
SentWithin(now) == { s \in sends : now - Window < s.at /\ s.at <= now }

\* window_count >= request_limit is refused.
SlotFreeOffByOne(r) == Cardinality(InWindow(stamp[r])) <= LimitOf[r]
SlotFree(r) == Cardinality(InWindow(stamp[r])) < LimitOf[r]

\* SUM(COALESCE(actual, estimated)) + estimate > budget is refused.
SumBytes(S) == SumFunction([q \in S |-> q.bytes])
FitsWithoutEstimate(r) == SumBytes(RowsOf(r)) <= Budget
FitsBudget(r) == SumBytes(RowsOf(r)) + Estimate <= Budget

\* create_run: started_at is the time a frozen run keeps.
CreateRun(r) ==
  /\ Goto(r, "idle", "ready")
  /\ Cardinality({ q \in Runs : Live(q) }) < MaxActive
  /\ status' = [status EXCEPT ![r] = "running"]
  /\ stamp' = [stamp EXCEPT ![r] = clock]
  /\ UNCHANGED <<clock, requestCount, bytesReceived, rows, sends, made, retry>>

\* The caller takes the time and calls reserve.
Ask(r) ==
  /\ Goto(r, "ready", "asking")
  /\ made[r] < MaxRequests
  /\ made' = [made EXCEPT ![r] = @ + 1]
  /\ stamp' = [stamp EXCEPT ![r] = IF r \in FrozenRuns THEN @ ELSE clock]
  /\ retry' = [retry EXCEPT ![r] = 0]
  /\ UNCHANGED <<clock, database, sends>>

\* reserve, first half: the SELECTs, in autocommit.  RateLimitExceeded or
\* ByteBudgetExceeded leave no row; the caller tries the next item or stops.
Count(r) ==
  LET fits == SlotFree(r) /\ FitsBudget(r)
  IN /\ Goto(r, "asking", IF fits THEN "counted" ELSE "ready")
     /\ status[r] = "running"
     /\ UNCHANGED <<clock, database, sends, stamp, made, retry>>

\* reserve, second half: the INSERT, in a transaction of its own.
Insert(r) ==
  /\ Goto(r, "counted", "reserved")
  /\ rows' = rows \cup {[run |-> r, k |-> made[r], at |-> stamp[r],
                         open |-> TRUE, bytes |-> Estimate]}
  /\ UNCHANGED <<clock, status, requestCount, bytesReceived, sends, stamp, made, retry>>

\* fetch_request: a transport error is retried at once, under the same
\* reservation.
Send(r) ==
  /\ sends' = sends \cup {[run |-> r, k |-> made[r], retry |-> retry[r], at |-> clock]}
  /\ \/ /\ Goto(r, "reserved", "answered")
        /\ UNCHANGED retry
     \/ /\ pc[r] = "reserved" /\ retry[r] < MaxRetries
        /\ retry' = [retry EXCEPT ![r] = @ + 1]
        /\ UNCHANGED pc
  /\ UNCHANGED <<clock, database, stamp, made>>

\* complete: the actual size replaces the estimate, then the run's counters
\* are computed again from its rows.  A duplicate address or a missing token
\* completes with 0 bytes and sends nothing.
Closed(r, size) ==
  { IF q.run = r /\ q.open THEN [q EXCEPT !.open = FALSE, !.bytes = size] ELSE q : q \in rows }
CountersBefore(r, after) == { q \in rows : q.run = r }
CountersOver(r, after) == { q \in after : q.run = r }
Complete(r) ==
  \E size \in Sizes :
    /\ \/ Goto(r, "answered", "ready")
       \/ size = 0 /\ retry[r] = 0 /\ Goto(r, "reserved", "ready")
    /\ rows' = Closed(r, size)
    /\ LET own == CountersOver(r, rows')
       IN /\ requestCount' = [requestCount EXCEPT ![r] = Cardinality(own)]
          /\ bytesReceived' = [bytesReceived EXCEPT ![r] = SumBytes({ q \in own : ~q.open })]
    /\ UNCHANGED <<clock, status, sends, stamp, made, retry>>

\* _complete_run of the service.
Finish(r) ==
  /\ Goto(r, "ready", "done")
  /\ status' = [status EXCEPT ![r] = "completed"]
  /\ UNCHANGED <<clock, requestCount, bytesReceived, rows, sends, stamp, made, retry>>

\* The process dies: its rows stay, an open one keeps its estimate.
Crash(r) ==
  /\ Live(r)
  /\ pc' = [pc EXCEPT ![r] = "crashed"]
  /\ UNCHANGED <<clock, database, sends, stamp, made, retry>>

Tick ==
  /\ clock < MaxClock
  /\ clock' = clock + 1
  /\ UNCHANGED <<database, sends, pc, stamp, made, retry>>

Next ==
  \/ \E r \in Runs : \/ CreateRun(r) \/ Ask(r) \/ Count(r) \/ Insert(r) \/ Send(r)
                     \/ Complete(r) \/ Finish(r) \/ Crash(r)
  \/ Tick

Spec == Init /\ [][Next]_vars

-----------------------------------------------------------------------------
(***************************************************************************)
(* Properties                                                              *)
(***************************************************************************)

\* Whatever times the callers pass, no rolling window ever holds more rows
\* than the largest limit and one for every run but the first: only a run
\* that counted before the others inserted can go past the limit.
OvershootBounded ==
  \A now \in Times : Cardinality(Within(now)) <= Ceiling + MaxActive - 1

\* A run's received bytes, if it received any, exceed its budget by at most
\* what the one response past its estimate brings.
BudgetOvershootBounded ==
  \A r \in Runs, biggest \in Sizes :
    (\A s \in Sizes : s <= biggest) =>
      LET received == SumBytes({ q \in RowsOf(r) : ~q.open })
      IN  received = 0 \/ received <= Budget - Estimate + biggest

\* The counters of a run that ended by itself are those of its rows; those of
\* a run that died lag behind by the one reservation it was using.
CountersAgree ==
  \A r \in Runs :
    /\ bytesReceived[r] = SumBytes({ q \in RowsOf(r) : ~q.open })
    /\ Cardinality(RowsOf(r)) - requestCount[r] \in {0, 1}
    /\ pc[r] = "done" => Cardinality(RowsOf(r)) = requestCount[r]

-----------------------------------------------------------------------------
(***************************************************************************)
(* What the documents say and the code does not do                         *)
(***************************************************************************)

\* "Two concurrent processes must not together exceed the configured rate":
\* no window holds more reservations than the largest limit.
SharedWindowRespected ==
  \A now \in Times : Cardinality(Within(now)) <= Ceiling

\* Does not hold.  "The global rolling rate never exceeds 25/minute": no window sees more
\* requests than the largest limit.  A run that passes its start time to
\* every reserve sends later than its rows say.
DispatchRateRespected ==
  \A now \in Times : Cardinality(SentWithin(now)) <= Ceiling
=============================================================================
