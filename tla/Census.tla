------------------------------- MODULE Census -------------------------------
(***************************************************************************)
(* The importance policies of the BTC universe.  Each is written twice or  *)
(* more: as SQL over the transactions of the chain, which counts addresses *)
(* and materializes candidates, and in Python, which classifies a row or   *)
(* reconciles the counts before it lets anyone read them.  The module puts *)
(* the versions side by side over the same history of an address.          *)
(*                                                                         *)
(* Amounts are whole BTC; an instant is the number of half days before the *)
(* cutoff, which is the end of a day; a mask is the set of its bits.       *)
(***************************************************************************)
EXTENDS Integers, FiniteSets, Sequences, FiniteSetsExt

CONSTANTS
  Addresses,
  Transactions,   \* what a transaction may do to an address
  MaxTransactions \* bound: transactions of an address

\* The window of all time, in days: it reaches past the first block.
AllTime == 10000

\* The eligible rows of one transaction for one address: outputs to it, with
\* what they pay, and inputs from it; the value of a row may be zero, and
\* without a row nothing is paid.
ASSUME TransactionsAssumption ==
  /\ Transactions \subseteq [at: 0 .. 2 * AllTime, out: BOOLEAN, received: Nat,
                            in: BOOLEAN, spent: Nat]
  /\ \A tx \in Transactions : (tx.received > 0 => tx.out) /\ (tx.spent > 0 => tx.in)
ASSUME BoundAssumption == MaxTransactions \in Nat /\ IsFiniteSet(Addresses)

VARIABLE ledger   \* the transactions of each address, oldest first

CensusInit == ledger = [a \in Addresses |-> <<>>]

ConfirmTransaction(a, tx) ==
  /\ Len(ledger[a]) < MaxTransactions
  /\ \A i \in DOMAIN ledger[a] : tx.at <= ledger[a][i].at
  /\ ledger' = [ledger EXCEPT ![a] = Append(@, tx)]

CensusNext == \E a \in Addresses, tx \in Transactions : ConfirmTransaction(a, tx)

CensusSpec == CensusInit /\ [][CensusNext]_ledger

-----------------------------------------------------------------------------
(***************************************************************************)
(* What the SQL sums up of an address                                      *)
(***************************************************************************)

Windows == {90, 365, AllTime}
Days(at) == at \div 2

\* The transactions of a window, and those of them that pay 500 BTC or more.
WithinDays(txs, w) == { i \in DOMAIN txs : txs[i].at <= 2 * w }
LargeWithin(txs, w)  == { i \in WithinDays(txs, w) : txs[i].received >= 500 }

Economics(txs) ==
  LET received == [i \in DOMAIN txs |-> txs[i].received]
      spent    == [i \in DOMAIN txs |-> txs[i].spent]
      moved    == [i \in DOMAIN txs |-> received[i] + spent[i]]
  IN  [lifetime |-> SumFunction(received),
       current  |-> SumFunction(received) - SumFunction(spent),
       gross    |-> SumFunctionOnSet(moved, WithinDays(txs, 90)),
       largest  |-> [w \in Windows |-> Max({0} \cup { received[i] : i \in WithinDays(txs, w) })],
       large    |-> [w \in Windows |-> Cardinality(LargeWithin(txs, w))],
       active   |-> [w \in Windows |-> Cardinality(WithinDays(txs, w))],
       days     |-> [w \in Windows |-> Cardinality({ Days(txs[i].at) : i \in WithinDays(txs, w) })],
       age      |-> Days(Min({ txs[i].at : i \in DOMAIN txs }))]

\* The first census counts the addresses with an output, the second those
\* with an output of positive value.
OutputDefined == { a \in Addresses : \E i \in DOMAIN ledger[a] : ledger[a][i].out }
PositiveValue == { a \in Addresses : \E i \in DOMAIN ledger[a] : ledger[a][i].received > 0 }

Features(population) == [a \in population |-> Economics(ledger[a])]

Ladder(value, steps) == Max({0} \cup { s[2] : s \in { s \in steps : value >= s[1] } })
BalancePoints(f) == Ladder(f.current, {<<1, 5>>, <<10, 12>>, <<100, 20>>, <<1000, 25>>})
FlowPoints(flow) == Ladder(flow, {<<10, 3>>, <<100, 8>>, <<1000, 15>>, <<10000, 20>>})
RecencyPoints(f) ==
  CASE f.age <= 30 -> 10
    [] 30 < f.age /\ f.age <= 90 -> 7
    [] 90 < f.age /\ f.age <= 365 -> 3
    [] OTHER -> 0

Bit(b, holds) == IF holds THEN {b} ELSE {}

-----------------------------------------------------------------------------
(***************************************************************************)
(* btc_importance_v2 in SQL: three variants, which differ in the receipts  *)
(* they take for supported                                                 *)
(***************************************************************************)
Variants == {"V2-S", "V2-B", "V2-R"}

Residual(f) == Max({f.gross - f.largest[90], 0})

RetainedShare(f, w) == f.largest[w] >= 500 /\ f.current * 100 >= f.largest[w]
Retained(f, w) ==
  f.largest[w] >= 500 /\ f.current >= 10 /\ f.current * 100 >= f.largest[w]
Repeated(f) == f.large[90] >= 2
Busy(f) == f.active[90] >= 3 /\ f.days[90] >= 2
Sustained(f) == f.largest[90] >= 500 /\ Busy(f) /\ Residual(f) >= 500
ReceiptMask(f) == Bit(1, Retained(f, 90)) \cup Bit(2, Repeated(f)) \cup Bit(4, Sustained(f))

StrictReceipt(f) ==
  f.largest[90] >= 500 /\ (Retained(f, 90) \/ Repeated(f) \/ Sustained(f))
BalancedAlone(f) ==
  f.largest[365] >= 500 /\ (Retained(f, 365) \/ (f.large[365] >= 2 /\ f.days[365] >= 2))
BalancedReceipt(f) ==
  \/ StrictReceipt(f)
  \/ f.largest[365] >= 500 /\ (Retained(f, 365) \/ (f.large[365] >= 2 /\ f.days[365] >= 2))
Receipt(v, f) ==
  CASE v = "V2-S" -> StrictReceipt(f)
    [] v = "V2-B" -> BalancedReceipt(f)
    [] v = "V2-R" -> Retained(f, AllTime)

BigBalance(f) == f.current >= 100
BigResidual(f) == Residual(f) >= 1000 /\ Busy(f)
BigLifetime(f) ==
  /\ f.lifetime >= 10000 /\ f.age <= 90
  /\ f.current >= 10 \/ (Residual(f) >= 500 /\ Busy(f))
P0Mask(v, f) ==
  Bit(1, BigBalance(f)) \cup Bit(2, BigResidual(f)) \cup Bit(4, Receipt(v, f))
    \cup Bit(8, BigLifetime(f))

Score(f) ==
  BalancePoints(f) + FlowPoints(Residual(f)) + RecencyPoints(f)
    + (IF f.largest[90] >= 500 THEN 10 ELSE IF f.largest[365] >= 500 THEN 5 ELSE 0)
    + (IF f.large[90] >= 2 THEN 12 ELSE IF f.large[365] >= 2 THEN 7 ELSE 0)
    + (IF Retained(f, 90) THEN 10 ELSE 0) + (IF Sustained(f) THEN 8 ELSE 0)

IsP1(v, f)   == P0Mask(v, f) = {} /\ Score(f) >= 25
IsEdge(v, f) == P0Mask(v, f) = {} /\ Score(f) \in 15..24
IsCoarseFromTen(v, f) ==
  \/ P0Mask(v, f) # {} \/ Score(f) >= 10
  \/ f.current >= 1 \/ Residual(f) >= 10 \/ f.largest[365] >= 500
IsCoarse(v, f) ==
  \/ P0Mask(v, f) # {} \/ Score(f) >= 15
  \/ f.current >= 1 \/ Residual(f) >= 10 \/ f.largest[365] >= 500

\* candidate_materialization_v2_s.sql: the row of a candidate.
MaterializedRow(f) ==
  [features |-> f, residual |-> Residual(f), score |-> Score(f),
   p0Mask |-> P0Mask("V2-S", f), receiptMask |-> ReceiptMask(f),
   tier |-> CASE P0Mask("V2-S", f) # {} -> "p0"
              [] IsP1("V2-S", f)   -> "p1"
              [] IsEdge("V2-S", f) -> "edge"
              [] OTHER -> "coarse_other"]

-----------------------------------------------------------------------------
(***************************************************************************)
(* StrictV2SCandidateRow: what the publisher accepts                       *)
(***************************************************************************)

FieldsAreConsistent(row) ==
  LET f == row.features
  IN  /\ f.current >= 0 /\ f.current <= f.lifetime
      /\ f.largest[90] <= f.largest[365] /\ f.largest[365] <= f.largest[AllTime]
      /\ f.largest[AllTime] <= f.lifetime
      /\ f.large[90] <= f.large[365] /\ f.large[365] <= f.active[365]
      /\ f.large[90] <= f.active[90] /\ f.active[90] <= f.active[365]
      /\ f.days[90] <= f.active[90] /\ f.days[365] <= f.active[365]
      /\ f.days[90] <= f.days[365]

\* _classify_candidate, which works from the fields of the row.
ExpectedReceiptMask(row) ==
  LET f == row.features
  IN  Bit(1, f.largest[90] >= 500 /\ f.current >= 10 /\ f.current * 100 >= f.largest[90])
        \cup Bit(2, f.large[90] >= 2)
        \cup Bit(4, /\ f.largest[90] >= 500 /\ f.active[90] >= 3 /\ f.days[90] >= 2
                    /\ row.residual >= 500)
ExpectedP0Mask(row) ==
  LET f == row.features
      busy == f.active[90] >= 3 /\ f.days[90] >= 2
  IN  Bit(1, f.current >= 100)
        \cup Bit(2, row.residual >= 1000 /\ busy)
        \cup Bit(4, f.largest[90] >= 500 /\ ExpectedReceiptMask(row) # {})
        \cup Bit(8, /\ f.lifetime >= 10000 /\ f.age <= 90
                    /\ f.current >= 10 \/ (row.residual >= 500 /\ busy))
ExpectedScore(row) ==
  LET f == row.features
      mask == ExpectedReceiptMask(row)
  IN  Ladder(f.current, {<<1000, 25>>, <<100, 20>>, <<10, 12>>, <<1, 5>>})
        + Ladder(row.residual, {<<10000, 20>>, <<1000, 15>>, <<100, 8>>, <<10, 3>>})
        + (IF f.largest[90] >= 500 THEN 10 ELSE IF f.largest[365] >= 500 THEN 5 ELSE 0)
        + (IF f.large[90] >= 2 THEN 12 ELSE IF f.large[365] >= 2 THEN 7 ELSE 0)
        + (IF 1 \in mask THEN 10 ELSE 0) + (IF 4 \in mask THEN 8 ELSE 0)
        + RecencyPoints(f)
ExpectedTier(row) ==
  LET f == row.features
      p0 == ExpectedP0Mask(row) # {}
      score == ExpectedScore(row)
  IN  CASE p0 -> "p0"
        [] ~p0 /\ score >= 25 -> "p1"
        [] ~p0 /\ score \in 15..24 -> "edge"
        [] ~p0 /\ score < 15 /\ (f.current >= 1 \/ row.residual >= 10 \/ f.largest[365] >= 500) ->
             "coarse_other"
        [] OTHER -> "rejected"

RowIsAccepted(row) ==
  /\ FieldsAreConsistent(row)
  /\ row.score = ExpectedScore(row) /\ row.p0Mask = ExpectedP0Mask(row)
  /\ row.receiptMask = ExpectedReceiptMask(row) /\ row.tier = ExpectedTier(row)

-----------------------------------------------------------------------------
(***************************************************************************)
(* The aggregate row of the second census, and how Python reconciles it    *)
(***************************************************************************)

\* How many addresses reach each step, and how many have each mask.
Reach(value, steps) ==
  [i \in DOMAIN steps |-> Cardinality({ a \in DOMAIN value : value[a] >= steps[i] })]
Spread(mask, masks) ==
  [m \in masks |-> Cardinality({ a \in DOMAIN mask : mask[a] = m })]

VariantRow(fs, v) ==
  LET D    == DOMAIN fs
      mask == [a \in D |-> P0Mask(v, fs[a])]
  IN  [reasons  |-> [b \in {1, 2, 4, 8} |->
                       CASE b = 1 -> Cardinality({ a \in D : BigBalance(fs[a]) })
                         [] b = 2 -> Cardinality({ a \in D : BigResidual(fs[a]) })
                         [] b = 4 -> Cardinality({ a \in D : Receipt(v, fs[a]) })
                         [] b = 8 -> Cardinality({ a \in D : BigLifetime(fs[a]) })],
       union    |-> Cardinality({ a \in D : mask[a] # {} }),
       alone    |-> Cardinality({ a \in D : mask[a] = {4} }),
       overlap  |-> Spread(mask, SUBSET {1, 2, 4, 8}),
       p1       |-> Cardinality({ a \in D : IsP1(v, fs[a]) }),
       both     |-> Cardinality({ a \in D : mask[a] # {} /\ IsP1(v, fs[a]) }),
       edge     |-> Cardinality({ a \in D : IsEdge(v, fs[a]) }),
       coarse   |-> Cardinality({ a \in D : IsCoarse(v, fs[a]) }),
       excluded |-> Cardinality({ a \in D : ~IsCoarse(v, fs[a]) })]

CensusRow(fs) ==
  LET D == DOMAIN fs
  IN  [source      |-> Cardinality(D),
       balance     |-> Reach([a \in D |-> fs[a].current], <<1, 10, 100, 1000>>),
       gross       |-> Reach([a \in D |-> fs[a].gross], <<10, 100, 1000, 10000>>),
       residual    |-> Reach([a \in D |-> Residual(fs[a])], <<10, 100, 1000, 10000>>),
       recency     |-> Reach([a \in D |-> -fs[a].age], <<-365, -90, -30>>),
       largest     |-> [w \in Windows |->
                          Reach([a \in D |-> fs[a].largest[w]], <<500, 1000, 5000>>)],
       large       |-> [w \in Windows |-> Reach([a \in D |-> fs[a].large[w]], <<1, 2, 3>>)],
       retained    |-> Cardinality({ a \in D : Retained(fs[a], 90) }),
       repeated    |-> Cardinality({ a \in D : Repeated(fs[a]) }),
       sustained   |-> Cardinality({ a \in D : Sustained(fs[a]) }),
       supported   |-> Cardinality({ a \in D : StrictReceipt(fs[a]) }),
       unsupported |-> Cardinality({ a \in D : fs[a].large[90] = 1 /\ ~StrictReceipt(fs[a]) }),
       stale       |-> Cardinality({ a \in D : fs[a].large[AllTime] = 1 /\ fs[a].large[365] = 0 }),
       support     |-> Spread([a \in D |-> ReceiptMask(fs[a])], SUBSET {1, 2, 4}),
       variant     |-> [v \in Variants |-> VariantRow(fs, v)]]

Falls(ladder) == \A i, j \in DOMAIN ladder : i <= j => ladder[i] >= ladder[j]
Total(distribution, masks) == SumFunctionOnSet(distribution, masks)
BitCount(distribution, b) ==
  Total(distribution, { m \in DOMAIN distribution : b \in m })

ThresholdLaddersAreValid(r) ==
  /\ Falls(r.balance) /\ Falls(r.gross) /\ Falls(r.residual) /\ Falls(r.recency)
  /\ \A w \in Windows : Falls(r.largest[w])

ReceiptFunnelIsValid(r) ==
  /\ \A w \in Windows : Falls(r.large[w]) /\ r.large[w][1] = r.largest[w][1]
  /\ \A i \in 1..3, w \in Windows, shorter \in Windows : shorter <= w =>
       r.largest[shorter][i] <= r.largest[w][i] /\ r.large[shorter][i] <= r.large[w][i]
  /\ r.retained <= r.large[90][1] /\ r.sustained <= r.large[90][1]
  /\ r.repeated = r.large[90][2]
  /\ r.supported + r.unsupported = r.large[90][1]
  /\ r.stale <= r.large[AllTime][1]

ReceiptSupportReconciles(r) ==
  /\ Total(r.support, DOMAIN r.support) = r.source
  /\ BitCount(r.support, 1) = r.retained /\ BitCount(r.support, 2) = r.repeated
  /\ BitCount(r.support, 4) = r.sustained
  /\ Total(r.support, DOMAIN r.support \ {{}}) = r.supported

VariantReconciles(variant, source) ==
  /\ Total(variant.overlap, DOMAIN variant.overlap) = source
  /\ \A b \in {1, 2, 4, 8} : BitCount(variant.overlap, b) = variant.reasons[b]
  /\ Total(variant.overlap, DOMAIN variant.overlap \ {{}}) = variant.union
  /\ variant.overlap[{4}] = variant.alone
  /\ variant.coarse + variant.excluded = source
  /\ variant.union + variant.p1 <= source

\* parse_candidate_statistics_v2_rows, but for the quality of the source, the
\* pinned hashes and the sizes that a small population does not reach.
Reconciles(r) ==
  LET strict == r.variant["V2-S"]
      balanced == r.variant["V2-B"]
  IN  /\ ThresholdLaddersAreValid(r) /\ ReceiptFunnelIsValid(r) /\ ReceiptSupportReconciles(r)
      /\ \A i \in 1..4 : r.residual[i] <= r.gross[i]
      /\ \A v \in Variants :
           /\ VariantReconciles(r.variant[v], r.source) /\ r.variant[v].both = 0
           /\ r.variant[v].reasons[1] = r.balance[3]
           /\ \A b \in {1, 2, 8} : r.variant[v].reasons[b] = strict.reasons[b]
      /\ strict.reasons[4] = r.supported
      /\ balanced.reasons[4] >= strict.reasons[4] /\ balanced.union >= strict.union
      /\ balanced.coarse >= strict.coarse
      /\ r.variant["V2-R"].reasons[4] <= r.largest[AllTime][1]

\* _validate_strict_partition of the population contract.
PartitionIsValid(strict, positive) ==
  /\ strict.both = 0
  /\ strict.union + strict.p1 + strict.edge <= strict.coarse
  /\ strict.coarse + strict.excluded = positive

-----------------------------------------------------------------------------
(***************************************************************************)
(* btc_importance_v1: the census in SQL and the policy in Python           *)
(***************************************************************************)

FirstP0Mask(f) ==
  Bit(1, f.current >= 100) \cup Bit(2, f.largest[AllTime] >= 500) \cup Bit(4, f.gross >= 1000)
    \cup Bit(8, f.lifetime >= 10000 /\ f.age <= 365)
RecentReceiptPoints(f) ==
  Ladder(f.largest[365], {<<100, 10>>, <<500, 18>>, <<1000, 20>>, <<5000, 25>>})
ReceiptPoints(f) ==
  Ladder(f.largest[AllTime], {<<100, 10>>, <<500, 18>>, <<1000, 20>>, <<5000, 25>>})
FirstScore(f) == BalancePoints(f) + ReceiptPoints(f) + FlowPoints(f.gross) + RecencyPoints(f)
IsFirstP1(f) == FirstP0Mask(f) = {} /\ FirstScore(f) >= 25
IsFrontier(f) == FirstP0Mask(f) = {} /\ FirstScore(f) \in 15..24
HasPositiveComponent(f) == f.current >= 1 \/ f.largest[AllTime] >= 100 \/ f.gross >= 10
FirstCoarseByScore(f) == FirstP0Mask(f) # {} \/ FirstScore(f) >= 15
IsFirstCoarse(f) == FirstP0Mask(f) # {} \/ FirstScore(f) >= 15 \/ HasPositiveComponent(f)

FirstCensusRow(fs) ==
  LET D    == DOMAIN fs
      mask == [a \in D |-> FirstP0Mask(fs[a])]
  IN  [source   |-> Cardinality(D),
       balance  |-> Reach([a \in D |-> fs[a].current], <<1, 10, 100, 1000>>),
       receipt  |-> Reach([a \in D |-> fs[a].largest[AllTime]], <<100, 500, 1000, 5000>>),
       gross    |-> Reach([a \in D |-> fs[a].gross], <<10, 100, 1000, 10000>>),
       recency  |-> Reach([a \in D |-> -fs[a].age], <<-365, -90, -30>>),
       reasons  |-> [b \in {1, 2, 4, 8} |-> Cardinality({ a \in D : b \in mask[a] })],
       overlap  |-> Spread(mask, SUBSET {1, 2, 4, 8}),
       union    |-> Cardinality({ a \in D : mask[a] # {} }),
       p1       |-> Cardinality({ a \in D : IsFirstP1(fs[a]) }),
       positive |-> Cardinality({ a \in D : HasPositiveComponent(fs[a]) }),
       coarse   |-> Cardinality({ a \in D : IsFirstCoarse(fs[a]) }),
       excluded |-> Cardinality({ a \in D : ~IsFirstCoarse(fs[a]) })]

\* parse_candidate_statistics_rows, with the same omissions.
FirstReconciles(r) ==
  /\ Falls(r.balance) /\ Falls(r.receipt) /\ Falls(r.gross) /\ Falls(r.recency)
  /\ Total(r.overlap, DOMAIN r.overlap) = r.source
  /\ Total(r.overlap, DOMAIN r.overlap \ {{}}) = r.union
  /\ \A b \in {1, 2, 4, 8} : BitCount(r.overlap, b) = r.reasons[b]
  /\ r.coarse + r.excluded = r.source /\ r.union + r.p1 <= r.source
  /\ r.reasons[1] = r.balance[3] /\ r.reasons[2] = r.receipt[2] /\ r.reasons[4] = r.gross[3]
  /\ r.positive <= r.coarse

\* BtcImportancePolicyV1.classify for a row that no calibration names, with or
\* without a direct edge to a selected address.
PolicyPoints(f, edge) ==
  Ladder(f.current, {<<1000, 25>>, <<100, 20>>, <<10, 12>>, <<1, 5>>})
    + Ladder(f.largest[AllTime], {<<5000, 25>>, <<1000, 20>>, <<500, 18>>, <<100, 10>>})
    + Ladder(f.gross, {<<10000, 20>>, <<1000, 15>>, <<100, 8>>, <<10, 3>>})
    + RecencyPoints(f) + (IF edge THEN 10 ELSE 0)
PolicyClass(f, edge) ==
  LET forced == \/ f.current >= 100 \/ f.largest[AllTime] >= 500 \/ f.gross >= 1000
                \/ f.lifetime >= 10000 /\ f.age <= 365
  IN  CASE forced -> "P0"
        [] ~forced /\ PolicyPoints(f, edge) >= 25 -> "P1"
        [] OTHER -> "CONTROL or NONE"

-----------------------------------------------------------------------------
(***************************************************************************)
(* Properties                                                              *)
(***************************************************************************)

\* Every candidate the SQL materializes passes the publisher's own check of
\* its fields, score, masks and tier: one row that did not would block the
\* publication of the whole campaign.  The census keeps out a source with a
\* negative balance.
RowsAreAccepted ==
  LET fs == Features(PositiveValue)
  IN  \A a \in PositiveValue :
        fs[a].current >= 0 /\ IsCoarse("V2-S", fs[a]) => RowIsAccepted(MaterializedRow(fs[a]))

\* The reconciliations that may block the reading of the second census hold
\* for the counts its SQL makes, whatever the history: ladders, the funnel of
\* receipts, masks, variants, V2-B a superset of V2-S; so does the partition
\* the population contract asks for.  That no count exceeds the population and
\* that the scores add up to it is left out: each counts rows of it.
CensusReconciles ==
  LET r == CensusRow(Features(PositiveValue))
  IN  Reconciles(r) /\ PartitionIsValid(r.variant["V2-S"], Cardinality(PositiveValue))

\* The reconciliations of the first census hold for the counts of its SQL.
\* Left out are those of one count with its own copy and with the population.
FirstCensusReconciles == FirstReconciles(FirstCensusRow(Features(OutputDefined)))

\* The first census counts by SQL what the policy decides in Python, and its
\* frontier is what one direct edge to a selected address takes to P1.
CensusCountsThePolicy ==
  \A a \in OutputDefined :
    LET f == Economics(ledger[a])
    IN  /\ (FirstP0Mask(f) # {}) = (PolicyClass(f, FALSE) = "P0")
        /\ IsFirstP1(f) = (PolicyClass(f, FALSE) = "P1")
        /\ (IsFrontier(f) \/ IsFirstP1(f)) = (PolicyClass(f, TRUE) = "P1")

\* The second policy only narrows the first: its population is the first one
\* without the addresses that were only ever paid nothing, and no address is
\* P0 or a coarse candidate of V2-S that was not one before.
SecondPolicyNarrows ==
  /\ PositiveValue \subseteq OutputDefined
  /\ \A a \in PositiveValue :
       LET f == Economics(ledger[a])
       IN  /\ P0Mask("V2-S", f) # {} => FirstP0Mask(f) # {}
           /\ IsCoarse("V2-S", f) => IsFirstCoarse(f)
=============================================================================
