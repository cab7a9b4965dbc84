------------------------- MODULE EntityFanoutProofs -------------------------
(***************************************************************************)
(* Proofs about EntityFanout for every set of runs, campaigns, entities    *)
(* and addresses, and any number of overlapping and dying runs.            *)
(***************************************************************************)
EXTENDS EntityFanout, FiniteSetTheorems, TLAPS

-----------------------------------------------------------------------------
(***************************************************************************)
(* Types                                                                   *)
(***************************************************************************)

\* What a run remembers in a step that needs it.
Holding(r) ==
  /\ pc[r] # "idle" => camp[r] \in Campaigns
  /\ pc[r] \in {"reserved", "replied", "observed", "attempted", "parsed"}
       => cur[r] \in Entities
  /\ pc[r] \in {"replied", "observed", "attempted", "parsed"} => reply[r] \in Replies

\* The part of TypeOK the proofs need.
TypeInv ==
  /\ localIds \subseteq Entities
  /\ attempts \subseteq [run : Runs, camp : Campaigns, entity : Entities, outcome : Outcomes]
  /\ IsFiniteSet(attempts)
  /\ sent \in [Campaigns -> [Entities -> Nat]]
  /\ pc \in [Runs -> Labels]
  /\ camp \in [Runs -> Campaigns \cup {None}]
  /\ merged \in [Runs -> SUBSET Entities]
  /\ plan \in [Runs -> SUBSET Entities]
  /\ todo \in [Runs -> SUBSET Entities]
  /\ cur \in [Runs -> Entities \cup {None}]
  /\ reply \in [Runs -> Replies \cup {None}]
  /\ \A r \in Runs : Holding(r)

\* The empty database and idle runs.
LEMMA TypeInit == Init => TypeInv
BY FS_EmptySet DEF Init, TypeInv, Holding, Labels, Steps

\* Every step of a run, of finalize and of the other jobs keeps the types.
LEMMA TypeStep == TypeInv /\ [Next]_vars => TypeInv'
<1> SUFFICES ASSUME TypeInv, [Next]_vars PROVE TypeInv'
  OBVIOUS
<1> USE DEF TypeInv, Holding, Labels, Steps, Goto, database, memory
<1>1. ASSUME NEW r \in Runs, NEW c \in Campaigns, Start(r, c) PROVE TypeInv'
  BY <1>1 DEF Start
<1>2. ASSUME NEW r \in Runs, ReadLocalIds(r) PROVE TypeInv'
  BY <1>2, InputAssumption DEF ReadLocalIds, LocalIds, InputAssumption
<1>3. ASSUME NEW r \in Runs, ReadExhausted(r) PROVE TypeInv'
  BY <1>3 DEF ReadExhausted
<1>4. ASSUME NEW r \in Runs, ReadTerminal(r) PROVE TypeInv'
  BY <1>4 DEF ReadTerminal
<1>5. ASSUME NEW r \in Runs, PlanRun(r) PROVE TypeInv'
  <2>1. PICK S \in Batches(r, plan[r] \ Attempted(camp[r])) :
          plan' = [plan EXCEPT ![r] = S] /\ todo' = [todo EXCEPT ![r] = S]
    BY <1>5 DEF PlanRun
  <2>2. S \subseteq Entities
    BY <2>1 DEF Batches
  <2> QED
    BY <1>5, <2>1, <2>2 DEF PlanRun
<1>6. ASSUME NEW r \in Runs, CreateRun(r) PROVE TypeInv'
  BY <1>6 DEF CreateRun, NextItem
<1>7. ASSUME NEW r \in Runs, NEW e \in Entities, ReserveQuota(r, e) PROVE TypeInv'
  BY <1>7 DEF ReserveQuota
<1>8. ASSUME NEW r \in Runs, QuotaRefused(r) PROVE TypeInv'
  BY <1>8 DEF QuotaRefused
<1>9. ASSUME NEW r \in Runs, Dispatch(r) PROVE TypeInv'
  <2>1. PICK p \in Replies : reply' = [reply EXCEPT ![r] = p]
    BY <1>9 DEF Dispatch
  <2>2. camp[r] \in Campaigns /\ cur[r] \in Entities
    BY <1>9 DEF Dispatch
  <2>3. sent' \in [Campaigns -> [Entities -> Nat]]
    BY <1>9, <2>2 DEF Dispatch
  <2> QED
    BY <1>9, <2>1, <2>3 DEF Dispatch
<1>10. ASSUME NEW r \in Runs, RecordObservation(r) PROVE TypeInv'
  BY <1>10 DEF RecordObservation
<1>11. ASSUME NEW r \in Runs, RecordAttempt(r) PROVE TypeInv'
  <2>1. /\ pc[r] = "observed" /\ camp[r] \in Campaigns /\ cur[r] \in Entities
        /\ reply[r] \in Replies
    BY <1>11 DEF RecordAttempt
  <2>2. reply[r].outcome \in Outcomes
    BY <2>1 DEF Replies
  <2>3. attempts' = attempts \cup
          {[run |-> r, camp |-> camp[r], entity |-> cur[r], outcome |-> reply[r].outcome]}
    BY <1>11 DEF RecordAttempt, AttemptRow
  <2>4. IsFiniteSet(attempts')
    <3>1. IsFiniteSet(attempts)
      OBVIOUS
    <3>2. PICK t : attempts' = attempts \cup {t}
      BY <2>3, Zenon
    <3> HIDE DEF TypeInv
    <3> QED
      BY <3>1, <3>2, FS_AddElement
  <2>5. attempts' \subseteq [run : Runs, camp : Campaigns, entity : Entities,
                             outcome : Outcomes]
    BY <2>1, <2>2, <2>3
  <2>6. /\ pc' \in [Runs -> Labels] /\ cur' \in [Runs -> Entities \cup {None}]
        /\ reply' \in [Runs -> Replies \cup {None}]
    BY <1>11 DEF RecordAttempt, Keep, NextItem
  <2>7. ASSUME NEW q \in Runs PROVE Holding(q)'
    BY <1>11, <2>1 DEF RecordAttempt, Keep, NextItem
  <2> QED
    BY <1>11, <2>4, <2>5, <2>6, <2>7 DEF RecordAttempt
<1>12. ASSUME NEW r \in Runs, RecordParse(r) PROVE TypeInv'
  BY <1>12 DEF RecordParse, Keep, AfterAnswer, NextItem
<1>13. ASSUME NEW r \in Runs, RecordPredictions(r) PROVE TypeInv'
  BY <1>13 DEF RecordPredictions, Keep, AfterAnswer, NextItem
<1>14. ASSUME NEW r \in Runs, CompleteRun(r) PROVE TypeInv'
  BY <1>14 DEF CompleteRun
<1>15. ASSUME NEW r \in Runs, Crash(r) PROVE TypeInv'
  BY <1>15 DEF Crash, Live
<1>16. ASSUME NEW c \in Campaigns, ReadEligible(c) PROVE TypeInv'
  BY <1>16 DEF ReadEligible
<1>17. ASSUME Freeze PROVE TypeInv'
  BY <1>17 DEF Freeze
<1>18. ASSUME NEW e \in Entities, Learn(e) PROVE TypeInv'
  BY <1>18 DEF Learn
<1>19. ASSUME UNCHANGED vars PROVE TypeInv'
  BY <1>19 DEF vars
<1> QED
  BY <1>1, <1>2, <1>3, <1>4, <1>5, <1>6, <1>7, <1>8, <1>9, <1>10, <1>11, <1>12, <1>13,
     <1>14, <1>15, <1>16, <1>17, <1>18, <1>19 DEF Next, Step

\* Types hold in every reachable state.
LEMMA TypeInvHolds == Spec => []TypeInv
<1> QED
  BY TypeInit, TypeStep, PTL DEF Spec

-----------------------------------------------------------------------------
(***************************************************************************)
(* What is frozen                                                          *)
(***************************************************************************)

\* finalize freezes later what it read, while rows are only added: so what it
\* holds in its hand has a 502 row as well.
BadGateway(e) == \E t \in attempts : t.entity = e /\ t.outcome = "bad_gateway"
FreezeInv ==
  /\ \A e \in exhausted : BadGateway(e)
  /\ planned # None => \A e \in planned : BadGateway(e)

\* No step but finalize's changes what is frozen or about to be, and none
\* removes an attempt.
LEMMA FreezeStep == FreezeInv /\ [Next]_vars => FreezeInv'
<1> SUFFICES ASSUME FreezeInv, [Next]_vars PROVE FreezeInv'
  OBVIOUS
<1>1. attempts \subseteq attempts'
  BY DEF Next, Step, vars, database, Start, ReadLocalIds, ReadExhausted, ReadTerminal,
         PlanRun, CreateRun, ReserveQuota, QuotaRefused, Dispatch, RecordObservation,
         RecordAttempt, RecordParse, RecordPredictions, CompleteRun, Crash, ReadEligible,
         Freeze, Learn
<1>2. ASSUME NEW e, BadGateway(e) PROVE BadGateway(e)'
  BY <1>1, <1>2 DEF BadGateway
<1>3. ASSUME NEW c \in Campaigns, ReadEligible(c) PROVE FreezeInv'
  <2>1. \A e \in planned' : BadGateway(e)
    BY <1>3 DEF ReadEligible, Eligible, BadGateway
  <2> QED
    BY <1>2, <1>3, <2>1 DEF ReadEligible, FreezeInv, database
<1>4. CASE Freeze
  BY <1>2, <1>4 DEF Freeze, FreezeInv
<1>5. CASE UNCHANGED <<exhausted, planned>>
  BY <1>2, <1>5 DEF FreezeInv
<1>6. \/ UNCHANGED <<exhausted, planned>> \/ Freeze
      \/ \E c \in Campaigns : ReadEligible(c)
  BY DEF Next, Step, vars, database, Start, ReadLocalIds, ReadExhausted, ReadTerminal,
         PlanRun, CreateRun, ReserveQuota, QuotaRefused, Dispatch, RecordObservation,
         RecordAttempt, RecordParse, RecordPredictions, CompleteRun, Crash, Learn
<1> QED
  BY <1>3, <1>4, <1>5, <1>6

\* Only an entity the provider answered with 502 is ever frozen
\* (EntityRetryExhaustionService.finalize), though runs add attempts between
\* its read and its write.
THEOREM OnlyBadGatewaysFreeze == Spec => []FrozenHas502
<1>1. Init => FreezeInv
  BY DEF Init, FreezeInv
<1>2. FreezeInv => FrozenHas502
  BY DEF FreezeInv, BadGateway, FrozenHas502
<1> QED
  BY <1>1, <1>2, FreezeStep, PTL DEF Spec

-----------------------------------------------------------------------------
(***************************************************************************)
(* Memberships                                                             *)
(***************************************************************************)

\* A run that holds an answer with addresses still owes their memberships; one
\* that holds an answer without addresses accounts for nobody else's.
Owing(r, e) ==
  /\ cur[r] = e
  /\ pc[r] = "crashed" \/ (pc[r] = "parsed" /\ reply[r].addresses # {})
MembersInv ==
  \A e \in Entities :
    <<e, "parsed_success">> \in parses =>
      \/ \E a \in Addresses : <<e, a>> \in members
      \/ \E r \in Runs : Owing(r, e)

\* Parsing makes a run owe, recording memberships pays, and dying keeps owing.
LEMMA MembersStep == TypeInv /\ MembersInv /\ [Next]_vars => MembersInv'
<1> SUFFICES ASSUME TypeInv, MembersInv, [Next]_vars PROVE MembersInv'
  OBVIOUS
<1>1. ASSUME NEW r \in Runs, RecordParse(r) PROVE MembersInv'
  <2>1. /\ pc[r] = "attempted" /\ cur[r] \in Entities /\ reply[r] \in Replies
        /\ pc \in [Runs -> Labels] /\ DOMAIN cur = Runs /\ DOMAIN reply = Runs
    BY <1>1 DEF RecordParse, Goto, TypeInv, Holding
  <2>2. ASSUME NEW q \in Runs, NEW e \in Entities, Owing(q, e) PROVE Owing(q, e)'
    BY <1>1, <2>1, <2>2 DEF RecordParse, Goto, Keep, Owing
  <2>3. ASSUME NEW e \in Entities, e = cur[r], ParseOutcome(reply[r]) = "parsed_success"
        PROVE  Owing(r, e)'
    BY <1>1, <2>1, <2>3 DEF RecordParse, Goto, Keep, Owing, ParseOutcome
  <2>4. /\ parses' = parses \cup {<<cur[r], ParseOutcome(reply[r])>>}
        /\ members' = members
    BY <1>1 DEF RecordParse, WithParse
  <2>5. ASSUME NEW e \in Entities, <<e, "parsed_success">> \in parses'
        PROVE  \/ <<e, "parsed_success">> \in parses
               \/ e = cur[r] /\ ParseOutcome(reply[r]) = "parsed_success"
    BY <2>4, <2>5
  <2> QED
    BY <2>2, <2>3, <2>4, <2>5 DEF MembersInv
<1>2. ASSUME NEW r \in Runs, RecordPredictions(r) PROVE MembersInv'
  <2>1. /\ pc[r] = "parsed" /\ cur[r] \in Entities /\ reply[r] \in Replies
        /\ pc \in [Runs -> Labels] /\ DOMAIN cur = Runs /\ DOMAIN reply = Runs
    BY <1>2 DEF RecordPredictions, Goto, TypeInv, Holding
  <2>2. members' = members \cup ({cur[r]} \X reply[r].addresses) /\ parses' = parses
    BY <1>2 DEF RecordPredictions, MembersOf
  <2>3. ASSUME NEW q \in Runs, NEW e \in Entities, q # r, Owing(q, e)
        PROVE  Owing(q, e)'
    BY <1>2, <2>1, <2>3 DEF RecordPredictions, Goto, Keep, Owing
  <2>4. ASSUME NEW e \in Entities, Owing(r, e)
        PROVE  \E a \in Addresses : <<e, a>> \in members'
    <3>1. cur[r] = e /\ reply[r].addresses # {} /\ reply[r].addresses \subseteq Addresses
      BY <2>1, <2>4 DEF Owing, Replies
    <3> QED
      BY <2>2, <3>1
  <2> QED
    BY <2>2, <2>3, <2>4 DEF MembersInv
<1>3. ASSUME UNCHANGED <<parses, members>>,
             \A q \in Runs, e \in Entities : Owing(q, e) => Owing(q, e)'
      PROVE  MembersInv'
  BY <1>3 DEF MembersInv
<1>4. ASSUME NEW r \in Runs, Step(r), ~RecordParse(r), ~RecordPredictions(r)
      PROVE  MembersInv'
  <2>1. UNCHANGED <<parses, members>>
    BY <1>4 DEF Step, database, ReadLocalIds, ReadExhausted, ReadTerminal, PlanRun,
                CreateRun, ReserveQuota, QuotaRefused, Dispatch, RecordObservation,
                RecordAttempt, CompleteRun
  <2>2. pc[r] \in Steps \ {"parsed"}
    BY <1>4 DEF Step, Steps, Goto, ReadLocalIds, ReadExhausted, ReadTerminal, PlanRun,
                CreateRun, ReserveQuota, QuotaRefused, Dispatch, RecordObservation,
                RecordAttempt, CompleteRun
  <2>3. ASSUME NEW q \in Runs, q # r
        PROVE  pc'[q] = pc[q] /\ cur'[q] = cur[q] /\ reply'[q] = reply[q]
    BY <1>4, <2>3 DEF Step, TypeInv, Goto, Keep, ReadLocalIds, ReadExhausted, ReadTerminal,
                PlanRun, CreateRun, ReserveQuota, QuotaRefused, Dispatch, RecordObservation,
                RecordAttempt, CompleteRun
  <2> QED
    BY <1>3, <2>1, <2>2, <2>3 DEF Owing, Steps
<1>5. ASSUME NEW r \in Runs, NEW c \in Campaigns, Start(r, c) PROVE MembersInv'
  BY <1>3, <1>5 DEF Start, Goto, Owing, TypeInv, database
<1>6. ASSUME NEW r \in Runs, Crash(r) PROVE MembersInv'
  <2>1. /\ pc' = [pc EXCEPT ![r] = "crashed"] /\ pc \in [Runs -> Labels]
        /\ reply' = [reply EXCEPT ![r] = None] /\ DOMAIN reply = Runs
        /\ cur' = cur /\ parses' = parses /\ members' = members
    BY <1>6 DEF Crash, TypeInv, database
  <2> QED
    BY <1>3, <2>1 DEF Owing
<1>7. ASSUME \/ \E c \in Campaigns : ReadEligible(c)
             \/ Freeze \/ (\E e \in Entities : Learn(e)) \/ UNCHANGED vars
      PROVE  MembersInv'
  <2>1. UNCHANGED <<parses, members, pc, cur, reply>>
    BY <1>7 DEF ReadEligible, Freeze, Learn, vars, database, memory
  <2> QED
    BY <1>3, <2>1 DEF Owing
<1> QED
  BY <1>1, <1>2, <1>4, <1>5, <1>6, <1>7 DEF Next

\* An entity that is terminal because of addresses has its memberships, but for
\* a run that is between the two transactions of _record_prediction_parse_result
\* and _record_predictions, or died there.
THEOREM MembersAreAccountedFor == Spec => []MembersAccounted
<1>1. Init => MembersInv
  BY DEF Init, MembersInv
<1>2. MembersInv => MembersAccounted
  BY DEF MembersInv, Owing, MembersAccounted
<1> QED
  BY <1>1, <1>2, TypeInvHolds, MembersStep, PTL DEF Spec

-----------------------------------------------------------------------------
(***************************************************************************)
(* Requests                                                                *)
(***************************************************************************)

\* A run writes one attempt for an entity: those it has still to ask for, or
\* has at hand before its row, have none of its own.
Ahead(r, e) == e \in todo[r] \/ (cur[r] = e /\ pc[r] \in {"reserved", "replied", "observed"})
FreshRun(r) ==
  /\ pc[r] \in {"idle", "started", "listed", "exhaustionRead", "terminalRead"}
       => \A t \in attempts : t.run # r
  /\ \A e \in Entities : Ahead(r, e) => ~\E t \in attempts : t.run = r /\ t.entity = e
  /\ pc[r] \in {"reserved", "replied", "observed"} => cur[r] \notin todo[r]

RowsFor(c, e) == { t \in attempts : t.camp = c /\ t.entity = e }
OwingRow(c, e) ==
  { r \in Runs : camp[r] = c /\ cur[r] = e /\ pc[r] \in {"replied", "observed", "crashed"} }
RequestsInv ==
  /\ \A r \in Runs : FreshRun(r)
  /\ \A c \in Campaigns, e \in Entities :
       sent[c][e] <= Cardinality(RowsFor(c, e)) + Cardinality(OwingRow(c, e))

\* Rows and runs are finite in number.
LEMMA CountsAreNumbers ==
  ASSUME TypeInv, NEW c, NEW e
  PROVE  /\ IsFiniteSet(RowsFor(c, e)) /\ Cardinality(RowsFor(c, e)) \in Nat
         /\ IsFiniteSet(OwingRow(c, e)) /\ Cardinality(OwingRow(c, e)) \in Nat
<1>1. RowsFor(c, e) \subseteq attempts /\ OwingRow(c, e) \subseteq Runs
  BY DEF RowsFor, OwingRow
<1>2. IsFiniteSet(attempts) /\ IsFiniteSet(Runs)
  BY FiniteAssumption DEF TypeInv, FiniteAssumption
<1> QED
  BY <1>1, <1>2, FS_Subset, FS_CardinalityType

\* Every step keeps a run from writing a second row for an entity.
LEMMA FreshStep ==
  ASSUME TypeInv, \A r \in Runs : FreshRun(r), [Next]_vars
  PROVE  \A r \in Runs : FreshRun(r)'
<1> USE DEF TypeInv, FreshRun, Ahead, Goto, database, memory
<1>1. ASSUME NEW r \in Runs, NEW c \in Campaigns, Start(r, c)
      PROVE  \A q \in Runs : FreshRun(q)'
  BY <1>1 DEF Start
<1>2. ASSUME NEW r \in Runs, ReadLocalIds(r) \/ ReadExhausted(r) \/ ReadTerminal(r)
      PROVE  \A q \in Runs : FreshRun(q)'
  BY <1>2 DEF ReadLocalIds, ReadExhausted, ReadTerminal
<1>3. ASSUME NEW r \in Runs, PlanRun(r) PROVE \A q \in Runs : FreshRun(q)'
  BY <1>3 DEF PlanRun
<1>4. ASSUME NEW r \in Runs, CreateRun(r) \/ QuotaRefused(r) \/ RecordObservation(r)
      PROVE  \A q \in Runs : FreshRun(q)'
  BY <1>4 DEF CreateRun, NextItem, QuotaRefused, RecordObservation
<1>5. ASSUME NEW r \in Runs, NEW e \in Entities, ReserveQuota(r, e)
      PROVE  \A q \in Runs : FreshRun(q)'
  BY <1>5 DEF ReserveQuota
<1>6. ASSUME NEW r \in Runs, Dispatch(r) PROVE \A q \in Runs : FreshRun(q)'
  BY <1>6 DEF Dispatch
<1>7. ASSUME NEW r \in Runs, RecordAttempt(r) PROVE \A q \in Runs : FreshRun(q)'
  <2>1. attempts' = attempts \cup
          {[run |-> r, camp |-> camp[r], entity |-> cur[r], outcome |-> reply[r].outcome]}
    BY <1>7 DEF RecordAttempt, AttemptRow
  <2>2. /\ pc[r] = "observed" /\ cur[r] \notin todo[r] /\ cur[r] \in Entities
        /\ todo' = todo
    BY <1>7 DEF RecordAttempt, Holding
  <2>3. pc'[r] \in {"attempted", "closing", "loop"}
    BY <1>7 DEF RecordAttempt, NextItem
  <2>4. ASSUME NEW q \in Runs, q # r PROVE pc'[q] = pc[q] /\ cur'[q] = cur[q]
    BY <1>7, <2>4 DEF RecordAttempt, Keep
  <2>5. FreshRun(r)'
    BY <2>1, <2>2, <2>3
  <2>6. ASSUME NEW q \in Runs, q # r PROVE FreshRun(q)'
    BY <2>1, <2>2, <2>4, <2>6
  <2> QED
    BY <2>5, <2>6
<1>8. ASSUME NEW r \in Runs, RecordParse(r) \/ RecordPredictions(r) \/ CompleteRun(r)
      PROVE  \A q \in Runs : FreshRun(q)'
  BY <1>8 DEF RecordParse, RecordPredictions, CompleteRun, Keep, AfterAnswer, NextItem
<1>9. ASSUME NEW r \in Runs, Crash(r) PROVE \A q \in Runs : FreshRun(q)'
  BY <1>9 DEF Crash
<1>10. ASSUME \/ \E c \in Campaigns : ReadEligible(c)
              \/ Freeze \/ (\E e \in Entities : Learn(e)) \/ UNCHANGED vars
       PROVE  \A q \in Runs : FreshRun(q)'
  <2>1. UNCHANGED <<attempts, pc, cur, todo>>
    BY <1>10 DEF ReadEligible, Freeze, Learn, vars
  <2> QED
    BY <2>1
<1> QED
  BY <1>1, <1>2, <1>3, <1>4, <1>5, <1>6, <1>7, <1>8, <1>9, <1>10 DEF Next, Step

\* A step that sends nothing, keeps the rows and the runs that owe one, keeps
\* the count.
LEMMA CountKept ==
  ASSUME TypeInv, TypeInv', RequestsInv, sent' = sent, attempts \subseteq attempts',
         NEW c \in Campaigns, NEW e \in Entities, OwingRow(c, e) \subseteq OwingRow(c, e)'
  PROVE  sent'[c][e] <= Cardinality(RowsFor(c, e)') + Cardinality(OwingRow(c, e)')
<1>1. RowsFor(c, e) \subseteq RowsFor(c, e)'
  BY DEF RowsFor
<1>2. /\ IsFiniteSet(RowsFor(c, e)') /\ IsFiniteSet(OwingRow(c, e)')
      /\ Cardinality(RowsFor(c, e)') \in Nat /\ Cardinality(OwingRow(c, e)') \in Nat
  <2>1. IsFiniteSet(attempts') /\ IsFiniteSet(Runs)
    BY FiniteAssumption DEF TypeInv, FiniteAssumption
  <2>2. RowsFor(c, e)' \subseteq attempts' /\ OwingRow(c, e)' \subseteq Runs
    BY DEF RowsFor, OwingRow
  <2> QED
    BY <2>1, <2>2, FS_Subset, FS_CardinalityType
<1>3. /\ Cardinality(RowsFor(c, e)) <= Cardinality(RowsFor(c, e)')
      /\ Cardinality(OwingRow(c, e)) <= Cardinality(OwingRow(c, e)')
  BY <1>1, <1>2, FS_Subset
<1>4. sent[c][e] <= Cardinality(RowsFor(c, e)) + Cardinality(OwingRow(c, e))
  BY DEF RequestsInv
<1>5. sent[c][e] \in Nat
  BY DEF TypeInv
<1> QED
  BY <1>2, <1>3, <1>4, <1>5, CountsAreNumbers

\* Asking makes a run owe its row, writing the row pays, and dying keeps owing.
LEMMA RequestsStep ==
  TypeInv /\ TypeInv' /\ RequestsInv /\ [Next]_vars => RequestsInv'
<1> SUFFICES ASSUME TypeInv, TypeInv', RequestsInv, [Next]_vars,
                    NEW c \in Campaigns, NEW e \in Entities
             PROVE  sent'[c][e] <= Cardinality(RowsFor(c, e)') + Cardinality(OwingRow(c, e)')
  BY FreshStep DEF RequestsInv
<1>1. ASSUME sent' = sent, attempts' = attempts, OwingRow(c, e) \subseteq OwingRow(c, e)'
      PROVE  sent'[c][e] <= Cardinality(RowsFor(c, e)') + Cardinality(OwingRow(c, e)')
  BY <1>1, CountKept
<1>2. ASSUME NEW r \in Runs, Dispatch(r)
      PROVE  sent'[c][e] <= Cardinality(RowsFor(c, e)') + Cardinality(OwingRow(c, e)')
  <2>1. /\ pc[r] = "reserved" /\ pc' = [pc EXCEPT ![r] = "replied"]
        /\ camp' = camp /\ cur' = cur /\ attempts' = attempts
        /\ sent' = [sent EXCEPT ![camp[r]][cur[r]] = @ + 1]
    BY <1>2 DEF Dispatch, Goto, database
  <2>2. /\ pc \in [Runs -> Labels] /\ sent \in [Campaigns -> [Entities -> Nat]]
        /\ camp[r] \in Campaigns /\ cur[r] \in Entities
    BY <2>1 DEF TypeInv, Holding
  <2>3. CASE camp[r] = c /\ cur[r] = e
    <3>1. OwingRow(c, e)' = OwingRow(c, e) \cup {r} /\ r \notin OwingRow(c, e)
      BY <2>1, <2>2, <2>3 DEF OwingRow
    <3>2. Cardinality(OwingRow(c, e)') = Cardinality(OwingRow(c, e)) + 1
      BY <3>1, CountsAreNumbers, FS_AddElement
    <3>3. RowsFor(c, e)' = RowsFor(c, e)
      BY <2>1 DEF RowsFor
    <3>4. sent'[c][e] = sent[c][e] + 1
      BY <2>1, <2>2, <2>3
    <3>5. sent[c][e] <= Cardinality(RowsFor(c, e)) + Cardinality(OwingRow(c, e))
      BY DEF RequestsInv
    <3>6. sent[c][e] \in Nat
      BY <2>2
    <3> QED
      BY <3>2, <3>3, <3>4, <3>5, <3>6, CountsAreNumbers
  <2>4. CASE ~(camp[r] = c /\ cur[r] = e)
    <3>1. OwingRow(c, e)' = OwingRow(c, e) /\ RowsFor(c, e)' = RowsFor(c, e)
      BY <2>1, <2>2, <2>4 DEF OwingRow, RowsFor
    <3>2. sent'[c][e] = sent[c][e]
      BY <2>1, <2>2, <2>4
    <3> QED
      BY <3>1, <3>2 DEF RequestsInv
  <2> QED
    BY <2>3, <2>4
<1>3. ASSUME NEW r \in Runs, RecordAttempt(r)
      PROVE  sent'[c][e] <= Cardinality(RowsFor(c, e)') + Cardinality(OwingRow(c, e)')
  <2>1. /\ pc[r] = "observed" /\ camp' = camp /\ sent' = sent
        /\ camp[r] \in Campaigns /\ cur[r] \in Entities
    BY <1>3 DEF RecordAttempt, Goto, TypeInv, Holding
  <2>2. ASSUME NEW q \in Runs, q # r PROVE pc'[q] = pc[q] /\ cur'[q] = cur[q]
    BY <1>3, <2>2 DEF RecordAttempt, Goto, Keep, TypeInv
  <2> DEFINE t == [run |-> r, camp |-> camp[r], entity |-> cur[r],
                   outcome |-> reply[r].outcome]
  <2>3. /\ attempts' = attempts \cup {t}
        /\ t.run = r /\ t.camp = camp[r] /\ t.entity = cur[r]
    BY <1>3 DEF RecordAttempt, AttemptRow
  <2> HIDE DEF t
  <2>4. CASE camp[r] = c /\ cur[r] = e
    <3>1. t \notin attempts
      BY <2>1, <2>3 DEF RequestsInv, FreshRun, Ahead
    <3>2. RowsFor(c, e)' = RowsFor(c, e) \cup {t} /\ t \notin RowsFor(c, e)
      BY <2>3, <2>4, <3>1 DEF RowsFor
    <3>3. Cardinality(RowsFor(c, e)') = Cardinality(RowsFor(c, e)) + 1
      BY <3>2, CountsAreNumbers, FS_AddElement
    <3>4. OwingRow(c, e) \ {r} \subseteq OwingRow(c, e)'
      BY <2>1, <2>2 DEF OwingRow
    <3>5. r \in OwingRow(c, e)
      BY <2>1, <2>4 DEF OwingRow
    <3>6. /\ IsFiniteSet(OwingRow(c, e) \ {r})
          /\ Cardinality(OwingRow(c, e) \ {r}) = Cardinality(OwingRow(c, e)) - 1
      BY <3>5, CountsAreNumbers, FS_RemoveElement
    <3>7. IsFiniteSet(OwingRow(c, e)') /\ Cardinality(OwingRow(c, e)') \in Nat
      <4>1. OwingRow(c, e)' \subseteq Runs /\ IsFiniteSet(Runs)
        BY FiniteAssumption DEF OwingRow, FiniteAssumption
      <4> QED
        BY <4>1, FS_Subset, FS_CardinalityType
    <3>8. Cardinality(OwingRow(c, e)) - 1 <= Cardinality(OwingRow(c, e)')
      BY <3>4, <3>6, <3>7, FS_Subset
    <3>9. sent[c][e] <= Cardinality(RowsFor(c, e)) + Cardinality(OwingRow(c, e))
      BY DEF RequestsInv
    <3>10. sent[c][e] \in Nat
      BY DEF TypeInv
    <3> QED
      BY <2>1, <3>3, <3>7, <3>8, <3>9, <3>10, CountsAreNumbers
  <2>5. CASE ~(camp[r] = c /\ cur[r] = e)
    <3>1. OwingRow(c, e) \subseteq OwingRow(c, e)'
      BY <2>1, <2>2, <2>5 DEF OwingRow
    <3> QED
      BY <2>1, <2>3, <3>1, CountKept
  <2> QED
    BY <2>4, <2>5
<1>4. ASSUME NEW r \in Runs, Step(r), ~Dispatch(r), ~RecordAttempt(r)
      PROVE  sent' = sent /\ attempts' = attempts /\ OwingRow(c, e) \subseteq OwingRow(c, e)'
  <2>1. UNCHANGED <<sent, attempts, camp>>
    BY <1>4 DEF Step, database, ReadLocalIds, ReadExhausted, ReadTerminal, PlanRun,
                CreateRun, ReserveQuota, QuotaRefused, RecordObservation, RecordParse,
                RecordPredictions, CompleteRun
  <2>2. ASSUME NEW q \in Runs, q # r PROVE pc'[q] = pc[q] /\ cur'[q] = cur[q]
    BY <1>4, <2>2 DEF Step, TypeInv, Goto, Keep, ReadLocalIds, ReadExhausted, ReadTerminal,
                PlanRun, CreateRun, ReserveQuota, QuotaRefused, RecordObservation,
                RecordParse, RecordPredictions, CompleteRun
  <2>3. \/ pc[r] \notin {"replied", "observed", "crashed"}
        \/ pc[r] = "replied" /\ pc'[r] = "observed" /\ cur' = cur
    BY <1>4 DEF Step, TypeInv, Goto, ReadLocalIds, ReadExhausted, ReadTerminal,
                PlanRun, CreateRun, ReserveQuota, QuotaRefused, RecordObservation,
                RecordParse, RecordPredictions, CompleteRun
  <2> QED
    BY <2>1, <2>2, <2>3 DEF OwingRow
<1>5. ASSUME NEW r \in Runs, NEW d \in Campaigns, Start(r, d)
      PROVE  sent' = sent /\ attempts' = attempts /\ OwingRow(c, e) \subseteq OwingRow(c, e)'
  BY <1>5 DEF Start, Goto, OwingRow, TypeInv, database
<1>6. ASSUME NEW r \in Runs, Crash(r)
      PROVE  sent' = sent /\ attempts' = attempts /\ OwingRow(c, e) \subseteq OwingRow(c, e)'
  BY <1>6 DEF Crash, OwingRow, TypeInv, database
<1>7. ASSUME \/ \E d \in Campaigns : ReadEligible(d)
             \/ Freeze \/ (\E d \in Entities : Learn(d)) \/ UNCHANGED vars
      PROVE  sent' = sent /\ attempts' = attempts /\ OwingRow(c, e) \subseteq OwingRow(c, e)'
  <2>1. UNCHANGED <<sent, attempts, pc, camp, cur>>
    BY <1>7 DEF ReadEligible, Freeze, Learn, vars, database, memory
  <2> QED
    BY <2>1 DEF OwingRow
<1> QED
  BY <1>1, <1>2, <1>3, <1>4, <1>5, <1>6, <1>7 DEF Next

\* Every request the provider received has an attempt row, or belongs to a run
\* that has not come to _record_prediction_attempt yet, or died before it.
THEOREM RequestsAreAccountedFor == Spec => []RequestsAccounted
<1>1. Init => RequestsInv
  <2> SUFFICES ASSUME Init, NEW c \in Campaigns, NEW e \in Entities
               PROVE  sent[c][e] <= Cardinality(RowsFor(c, e)) + Cardinality(OwingRow(c, e))
    BY DEF Init, RequestsInv, FreshRun, Ahead
  <2>1. sent[c][e] = 0
    BY DEF Init
  <2> QED
    BY <2>1, TypeInit, CountsAreNumbers
<1>2. RequestsInv => RequestsAccounted
  BY DEF RequestsInv, RowsFor, OwingRow, RequestsAccounted
<1> QED
  BY <1>1, <1>2, TypeInvHolds, RequestsStep, PTL DEF Spec
-----------------------------------------------------------------------------
(***************************************************************************)
(* The circuit breaker                                                     *)
(***************************************************************************)

Fatal == {"rate_limited", "denied"}
Early == {"idle", "started", "listed", "exhaustionRead", "terminalRead", "planned"}
Sending == {"loop", "reserved", "replied", "observed"}
Answering == {"attempted", "parsed"}

\* A run that has not tripped has no fatal answer, and its strikes number the
\* failures since its last success, or since it began.
Untripped(r) ==
  LET n == Len(answers[r])
      k == tally[r].strikes
  IN /\ \A i \in 1..n : answers[r][i].outcome \notin Fatal
     /\ k < MaxConsecutiveFailures /\ k <= n
     /\ k < n => answers[r][n - k].outcome = "success"
\* Nor has it an answer over its budget, but the one at hand.
WithinBudget(r) == \A i \in 1..Len(answers[r]) : ~answers[r][i].over
OverAtHand(r) == \A i \in 1..Len(answers[r]) : answers[r][i].over => reply[r].over

Tallied(r) ==
  /\ pc[r] \in Early => answers[r] = <<>> /\ tally[r].strikes = 0
  /\ pc[r] \in Sending \cup Answering => Untripped(r)
  /\ pc[r] \in Sending => WithinBudget(r)
  /\ pc[r] \in Answering => OverAtHand(r)
TallyInv ==
  /\ tally \in [Runs -> Tallies]
  /\ answers \in [Runs -> Seq(Responses)]
  /\ \A r \in Runs : Tallied(r)

\* A tally with all of its fields set.
Retallied(t, n, u, b) == [t EXCEPT !.strikes = n, !.unclean = u, !.blocked = b]

\* It is a tally.
LEMMA RetalliedType ==
  ASSUME NEW t \in Tallies, NEW n \in Nat, NEW b \in BOOLEAN, NEW u \in BOOLEAN
  PROVE  Retallied(t, n, u, b) \in Tallies /\ Retallied(t, n, u, b).strikes = n
<1>1. [t EXCEPT !.strikes = n] \in Tallies /\ [t EXCEPT !.strikes = n].strikes = n
  BY DEF Tallies
<1>2. ASSUME NEW s \in Tallies
      PROVE  [s EXCEPT !.unclean = u] \in Tallies /\ [s EXCEPT !.unclean = u].strikes = s.strikes
  BY DEF Tallies
<1>3. ASSUME NEW s \in Tallies
      PROVE  [s EXCEPT !.blocked = b] \in Tallies /\ [s EXCEPT !.blocked = b].strikes = s.strikes
  BY DEF Tallies
<1> DEFINE x == [t EXCEPT !.strikes = n]
           y == [x EXCEPT !.unclean = u]
<1>4. Retallied(t, n, u, b) = [y EXCEPT !.blocked = b]
  BY DEF Retallied
<1>5. x \in Tallies /\ x.strikes = n
  BY <1>1
<1> HIDE DEF x
<1>6. y \in Tallies /\ y.strikes = n
  BY <1>2, <1>5
<1> HIDE DEF y
<1> QED
  BY <1>3, <1>4, <1>6

\* A failure adds a strike.
LEMMA FailedTally ==
  ASSUME NEW t \in Tallies, NEW b \in BOOLEAN
  PROVE  Failed(t, b) \in Tallies /\ Failed(t, b).strikes = t.strikes + 1
<1>1. t.strikes + 1 \in Nat /\ TRUE \in BOOLEAN
  BY DEF Tallies
<1> DEFINE n == t.strikes + 1
<1>2. Failed(t, b) = Retallied(t, n, TRUE, b)
  BY DEF Failed, Retallied
<1> HIDE DEF n
<1>3. n \in Nat
  BY <1>1 DEF n
<1>4. Retallied(t, n, TRUE, b) \in Tallies /\ Retallied(t, n, TRUE, b).strikes = n
  BY <1>1, <1>3, RetalliedType, Zenon
<1> QED
  BY <1>2, <1>4 DEF n

\* An answer clears the strikes.
LEMMA AnsweredTally ==
  ASSUME NEW t \in Tallies, NEW p \in Replies
  PROVE  Answered(t, p) \in Tallies /\ Answered(t, p).strikes = 0
<1>1. p.over \in BOOLEAN /\ (t.unclean \/ ~p.valid) \in BOOLEAN
  BY DEF Replies
<1> DEFINE u == t.unclean \/ ~p.valid
<1>2. Answered(t, p) = Retallied(t, 0, u, p.over)
  BY Zenon DEF Answered, Retallied
<1> HIDE DEF u
<1>3. u \in BOOLEAN
  BY <1>1 DEF u
<1> QED
  BY <1>1, <1>2, <1>3, RetalliedType

\* No answers and no strikes at first.
LEMMA TallyInit == Init => TallyInv
<1> SUFFICES ASSUME Init PROVE TallyInv
  OBVIOUS
<1>1. tally \in [Runs -> Tallies]
  BY DEF Init, Idle, Tallies
<1>2. \A r \in Runs : answers[r] = <<>> /\ tally[r].strikes = 0 /\ pc[r] = "idle"
  BY DEF Init, Idle
<1>3. answers \in [Runs -> Seq(Responses)]
  BY DEF Init
<1> QED
  BY <1>1, <1>2, <1>3 DEF TallyInv, Tallied, Early, Sending, Answering

\* How a run goes on whose answers and tally stay as they are, or end.
GoesOn(m) ==
  \/ /\ tally'[m] = tally[m] /\ answers'[m] = answers[m]
     /\ \/ pc'[m] = pc[m] /\ reply'[m] = reply[m]
        \/ pc[m] = "planned" /\ pc'[m] = "loop"
        \/ {pc[m], pc'[m]} \subseteq Early
        \/ {pc[m], pc'[m]} \subseteq Sending
        \/ pc[m] \in Answering /\ pc'[m] = "parsed" /\ reply'[m] = reply[m]
        \/ pc[m] \in Answering /\ pc'[m] = "loop" /\ ~reply[m].over
  \/ pc'[m] \in {"closing", "done", "crashed"}

\* It stays untripped when it was.
LEMMA TallyKept ==
  ASSUME NEW m \in Runs, Tallied(m), GoesOn(m)
  PROVE  Tallied(m)'
<1> USE DEF Early, Sending, Answering
<1>1. CASE pc'[m] \in {"closing", "done", "crashed"}
  BY <1>1 DEF Tallied
<1>2. CASE tally'[m] = tally[m] /\ answers'[m] = answers[m]
           /\ pc[m] = "planned" /\ pc'[m] = "loop"
  <2>1. answers[m] = <<>> /\ tally[m].strikes = 0 /\ Len(answers[m]) = 0
    BY <1>2 DEF Tallied
  <2>2. Untripped(m)' /\ WithinBudget(m)'
    BY <1>2, <2>1, LimitAssumption DEF Untripped, WithinBudget, LimitAssumption
  <2> QED
    BY <1>2, <2>2 DEF Tallied
<1>3. CASE tally'[m] = tally[m] /\ answers'[m] = answers[m]
           /\ ~(pc[m] = "planned" /\ pc'[m] = "loop")
           /\ pc'[m] \notin {"closing", "done", "crashed"}
  <2>1. (Untripped(m)' <=> Untripped(m)) /\ (WithinBudget(m)' <=> WithinBudget(m))
    BY <1>3 DEF Untripped, WithinBudget
  <2>2. reply'[m] = reply[m] => (OverAtHand(m)' <=> OverAtHand(m))
    BY <1>3 DEF OverAtHand
  <2>3. OverAtHand(m) /\ ~reply[m].over => WithinBudget(m)
    BY DEF OverAtHand, WithinBudget
  <2> QED
    BY <1>3, <2>1, <2>2, <2>3 DEF Tallied, GoesOn
<1> QED
  BY <1>1, <1>2, <1>3 DEF GoesOn

\* One answer more.
LEMMA AppendedAnswer ==
  ASSUME NEW s \in Seq(Responses), NEW x \in Responses
  PROVE  /\ Append(s, x) \in Seq(Responses)
         /\ Len(s) \in Nat /\ Len(Append(s, x)) = Len(s) + 1
         /\ Append(s, x)[Len(s) + 1] = x
         /\ \A i \in 1..Len(s) : Append(s, x)[i] = s[i]
OBVIOUS

\* Recording the outcome of a request.
LEMMA TallyAttempt ==
  ASSUME TypeInv, TallyInv, NEW r \in Runs, RecordAttempt(r) PROVE TallyInv'
<1> DEFINE x == [outcome |-> reply[r].outcome, over |-> reply[r].over]
           n == Len(answers[r])
           k == tally[r].strikes
<1>1. /\ pc[r] = "observed"
      /\ answers' = [answers EXCEPT ![r] = Append(answers[r], x)]
      /\ pc' = [pc EXCEPT ![r] =
                  IF reply[r].outcome = "success" THEN "attempted"
                  ELSE IF Trips(r) THEN "closing" ELSE NextItem(r)]
      /\ tally' = [tally EXCEPT ![r] =
                     IF reply[r].outcome = "success" THEN Answered(tally[r], reply[r])
                     ELSE Failed(tally[r], Trips(r))]
      /\ reply' = [reply EXCEPT ![r] =
                     IF reply[r].outcome = "success" THEN reply[r] ELSE None]
  BY DEF RecordAttempt, Goto, Keep
<1>2. /\ tally[r] \in Tallies /\ reply[r] \in Replies /\ answers[r] \in Seq(Responses)
      /\ Untripped(r) /\ WithinBudget(r) /\ k \in Nat
  BY <1>1 DEF TypeInv, TallyInv, Tallied, Holding, Sending, Answering, Tallies
<1>3. x \in Responses /\ x.outcome = reply[r].outcome /\ x.over = reply[r].over
  BY <1>2 DEF Responses, Replies
<1> HIDE DEF x
<1>4. /\ answers'[r] = Append(answers[r], x) /\ Append(answers[r], x) \in Seq(Responses)
      /\ n \in Nat /\ Len(answers'[r]) = n + 1 /\ answers'[r][n + 1] = x
      /\ \A i \in 1..n : answers'[r][i] = answers[r][i]
  BY <1>1, <1>2, <1>3, AppendedAnswer DEF TallyInv
<1>5. tally' \in [Runs -> Tallies] /\ answers' \in [Runs -> Seq(Responses)]
  <2>1. Trips(r) \in BOOLEAN
    BY DEF Trips
  <2>2. Answered(tally[r], reply[r]) \in Tallies /\ Failed(tally[r], Trips(r)) \in Tallies
    BY <1>2, <2>1, AnsweredTally, FailedTally
  <2> QED
    BY <1>1, <1>4, <2>2 DEF TallyInv
<1>6. ASSUME NEW m \in Runs, m # r
      PROVE  Tallied(m)'
  <2>1. answers'[m] = answers[m] /\ tally'[m] = tally[m] /\ pc'[m] = pc[m] /\ reply'[m] = reply[m]
    BY <1>1, <1>6 DEF TypeInv, TallyInv
  <2> QED
    BY <2>1, TallyKept DEF GoesOn, TallyInv
<1>7. ASSUME reply[r].outcome = "success" PROVE Tallied(r)'
  <2>1. tally'[r].strikes = 0 /\ pc'[r] = "attempted" /\ reply'[r] = reply[r]
    BY <1>1, <1>2, <1>7, AnsweredTally DEF TallyInv, TypeInv
  <2>2. Untripped(r)'
    <3>1. \A i \in 1..n + 1 : answers'[r][i].outcome \notin Fatal
      BY <1>2, <1>3, <1>4, <1>7 DEF Untripped, Fatal
    <3> QED
      BY <1>3, <1>4, <1>7, <2>1, <3>1, LimitAssumption DEF Untripped, LimitAssumption
  <2>3. OverAtHand(r)'
    BY <1>2, <1>3, <1>4, <2>1 DEF OverAtHand, WithinBudget
  <2> QED
    BY <2>1, <2>2, <2>3 DEF Tallied, Early, Sending, Answering
<1>8. ASSUME reply[r].outcome # "success", ~Trips(r) PROVE Tallied(r)'
  <2>1. tally'[r].strikes = k + 1 /\ pc'[r] \in {"loop", "closing"}
    <3>1. pc'[r] = NextItem(r) /\ tally'[r] = Failed(tally[r], Trips(r)) /\ Trips(r) \in BOOLEAN
      BY <1>1, <1>8 DEF TypeInv, TallyInv, Trips
    <3> QED
      BY <1>2, <3>1, FailedTally DEF NextItem
  <2>2. reply[r].outcome \notin Fatal /\ ~reply[r].over /\ k + 1 < MaxConsecutiveFailures
    BY <1>2, <1>8, LimitAssumption DEF Trips, Fatal, LimitAssumption
  <2>3. Untripped(r)'
    <3>1. \A i \in 1..n + 1 : answers'[r][i].outcome \notin Fatal
      BY <1>2, <1>3, <1>4, <2>2 DEF Untripped
    <3>2. /\ k + 1 <= n + 1
          /\ k + 1 < n + 1 => answers'[r][n + 1 - (k + 1)].outcome = "success"
      <4>1. k <= n /\ (k < n => answers[r][n - k].outcome = "success")
        BY <1>2 DEF Untripped
      <4>2. k < n => n - k \in 1..n /\ n + 1 - (k + 1) = n - k
        BY <1>2, <1>4
      <4> HIDE DEF n, k
      <4> QED
        BY <1>2, <1>4, <4>1, <4>2
    <3>3. Len(answers'[r]) = n + 1 /\ tally'[r].strikes = k + 1
      BY <1>4, <2>1
    <3> HIDE DEF n, k
    <3>4. \A i \in 1..Len(answers'[r]) : answers'[r][i].outcome \notin Fatal
      BY <3>1, <3>3
    <3>5. tally'[r].strikes < MaxConsecutiveFailures /\ tally'[r].strikes <= Len(answers'[r])
      BY <2>2, <3>2, <3>3
    <3>6. tally'[r].strikes < Len(answers'[r]) =>
            answers'[r][Len(answers'[r]) - tally'[r].strikes].outcome = "success"
      <4>1. n \in Nat /\ k \in Nat
        BY <1>2, <1>4
      <4>2. Len(answers'[r]) - tally'[r].strikes = n + 1 - (k + 1)
        BY <3>3, <4>1
      <4>3. (tally'[r].strikes < Len(answers'[r])) <=> (k + 1 < n + 1)
        BY <3>3
      <4> QED
        BY <3>2, <4>2, <4>3, Zenon
    <3> QED
      BY <3>4, <3>5, <3>6 DEF Untripped
  <2>4. WithinBudget(r)'
    BY <1>2, <1>3, <1>4, <2>2 DEF WithinBudget
  <2> QED
    BY <2>1, <2>3, <2>4 DEF Tallied, Early, Sending, Answering
<1>9. ASSUME reply[r].outcome # "success", Trips(r) PROVE Tallied(r)'
  <2>1. pc'[r] = "closing"
    BY <1>1, <1>9 DEF TypeInv
  <2> QED
    BY <2>1 DEF Tallied, Early, Sending, Answering
<1> QED
  BY <1>5, <1>6, <1>7, <1>8, <1>9 DEF TallyInv

\* Every step keeps the tallies.
LEMMA TallyStep == TypeInv /\ TallyInv /\ [Next]_vars => TallyInv'
<1> SUFFICES ASSUME TypeInv, TallyInv, [Next]_vars PROVE TallyInv'
  OBVIOUS
<1>1. ASSUME NEW r \in Runs, RecordAttempt(r) PROVE TallyInv'
  BY <1>1, TallyAttempt
<1>2. CASE ~ \E r \in Runs : RecordAttempt(r)
  <2>1. answers' \in [Runs -> Seq(Responses)]
    <3>1. answers' = answers \/ \E r \in Runs : answers' = [answers EXCEPT ![r] = <<>>]
      BY <1>2 DEF Next, Step, Start, ReadLocalIds, ReadExhausted, ReadTerminal, PlanRun,
         CreateRun, ReserveQuota, QuotaRefused, Dispatch, RecordObservation, RecordParse,
         RecordPredictions, CompleteRun, Crash, ReadEligible, Freeze, Learn, database, vars
    <3>2. answers \in [Runs -> Seq(Responses)] /\ <<>> \in Seq(Responses)
      BY DEF TallyInv
    <3> QED
      BY <3>1, <3>2
  <2>2. tally' \in [Runs -> Tallies]
    <3>1. ASSUME NEW r \in Runs, QuotaRefused(r) PROVE tally' \in [Runs -> Tallies]
      <4>1. [tally[r] EXCEPT !.blocked = TRUE] \in Tallies
        BY DEF TallyInv, Tallies
      <4>2. tally' = [tally EXCEPT ![r] = [@ EXCEPT !.blocked = TRUE]]
        BY <3>1 DEF QuotaRefused
      <4> QED
        BY <4>1, <4>2 DEF TallyInv
    <3>2. ASSUME NEW r \in Runs, CompleteRun(r) \/ Crash(r) PROVE tally' \in [Runs -> Tallies]
      <4>1. Idle \in Tallies
        BY DEF Idle, Tallies
      <4> QED
        BY <3>2, <4>1 DEF CompleteRun, Crash, TallyInv
    <3>3. CASE tally' = tally
      BY <3>3 DEF TallyInv
    <3>4. tally' = tally \/ \E r \in Runs : QuotaRefused(r) \/ CompleteRun(r) \/ Crash(r)
      BY <1>2 DEF Next, Step, Start, ReadLocalIds, ReadExhausted, ReadTerminal, PlanRun,
         CreateRun, ReserveQuota, Dispatch, RecordObservation, RecordParse,
         RecordPredictions, ReadEligible, Freeze, Learn, memory, vars
    <3> QED
      BY <3>1, <3>2, <3>3, <3>4
  <2>3. ASSUME NEW m \in Runs PROVE GoesOn(m)
    <3> USE DEF TypeInv, TallyInv, GoesOn, Goto, Early, Sending, Answering, database
    <3>1. ASSUME NEW r \in Runs,
                 \/ \E c \in Campaigns : Start(r, c)
                 \/ ReadLocalIds(r) \/ ReadExhausted(r) \/ ReadTerminal(r) \/ PlanRun(r)
          PROVE  GoesOn(m)
      BY <3>1 DEF Start, ReadLocalIds, ReadExhausted, ReadTerminal, PlanRun
    <3>2. ASSUME NEW r \in Runs, CreateRun(r) \/ (\E e \in Entities : ReserveQuota(r, e))
          PROVE  GoesOn(m)
      BY <3>2 DEF CreateRun, ReserveQuota, NextItem
    <3>3. ASSUME NEW r \in Runs, QuotaRefused(r) \/ Dispatch(r) \/ RecordObservation(r)
          PROVE  GoesOn(m)
      BY <3>3 DEF QuotaRefused, Dispatch, RecordObservation
    <3>4. ASSUME NEW r \in Runs, RecordParse(r) PROVE GoesOn(m)
      BY <3>4 DEF RecordParse, Keep, AfterAnswer, NextItem
    <3>5. ASSUME NEW r \in Runs, RecordPredictions(r) PROVE GoesOn(m)
      BY <3>5 DEF RecordPredictions, Keep, AfterAnswer, NextItem
    <3>6. ASSUME NEW r \in Runs, CompleteRun(r) \/ Crash(r) PROVE GoesOn(m)
      BY <3>6 DEF CompleteRun, Crash
    <3>7. ASSUME \/ \E c \in Campaigns : ReadEligible(c)
                 \/ Freeze \/ (\E e \in Entities : Learn(e)) \/ UNCHANGED vars
          PROVE  GoesOn(m)
      BY <3>7 DEF ReadEligible, Freeze, Learn, memory, vars
    <3> QED
      BY <1>2, <3>1, <3>2, <3>3, <3>4, <3>5, <3>6, <3>7 DEF Next, Step
  <2> QED
    BY <2>1, <2>2, <2>3, TallyKept DEF TallyInv
<1> QED
  BY <1>1, <1>2

\* A run that sends has recorded no fatal answer, none over its budget, and
\* not as many failures in a row as the limit.
THEOREM BreakerAlwaysStops == Spec => []BreakerStops
<1>1. TypeInv /\ TallyInv => BreakerStops
  <2> SUFFICES ASSUME TypeInv, TallyInv, NEW r \in Runs, pc[r] = "replied"
               PROVE  LET n == Len(answers[r])
                      IN /\ \A i \in 1..n : answers[r][i].outcome \notin Fatal /\ ~answers[r][i].over
                         /\ n >= MaxConsecutiveFailures =>
                              \E i \in n - MaxConsecutiveFailures + 1 .. n :
                                answers[r][i].outcome = "success"
    BY DEF Fatal, BreakerStops
  <2> DEFINE n == Len(answers[r])
             k == tally[r].strikes
  <2>1. /\ Untripped(r) /\ WithinBudget(r)
        /\ k \in Nat /\ n \in Nat /\ MaxConsecutiveFailures \in Nat
    BY LimitAssumption DEF TallyInv, Tallied, Sending, Answering, Tallies, LimitAssumption
  <2>2. \A i \in 1..n : answers[r][i].outcome \notin Fatal /\ ~answers[r][i].over
    BY <2>1 DEF Untripped, WithinBudget
  <2>3. ASSUME n >= MaxConsecutiveFailures
        PROVE  /\ n - k \in n - MaxConsecutiveFailures + 1 .. n
               /\ answers[r][n - k].outcome = "success"
    BY <2>1, <2>3 DEF Untripped
  <2> QED
    BY <2>2, <2>3
<1> QED
  BY <1>1, TypeInit, TypeStep, TallyInit, TallyStep, PTL DEF Spec
=============================================================================
