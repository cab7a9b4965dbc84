------------------------- MODULE PublicationProofs -------------------------
(* What readers of the universe root may rely on, for any number of runs,  *)
(* campaigns, addresses and pinned counts.                                 *)
EXTENDS Publication, FiniteSetTheorems, TLAPS

Phases ==
  {"idle", "streaming", "compacted", "sealed", "renamed", "published",
   "failed", "dead"}

CandidateDirs ==
  [owner : Publishers, rows : [Rows -> Nat], receipt : {None, "pinned"}]

FeatureDirs ==
  [owner : Writers, scripts : [Scripts -> Nat], features : [Features -> Nat],
   accounting : {0, 1}, anchors : {None, "snapshot", "not_provided"}]

TypeInv ==
  /\ DOMAIN published = Ids
  /\ phase \in [Runs -> Phases]
  /\ DOMAIN staging = Runs
  /\ seen \in [Runs -> SUBSET (Addresses \cup Scripts \cup Features)]
  /\ counted \in [Publishers -> [Tiers -> Nat]]
  /\ observed \in [Publishers -> SUBSET Excluded]

\* A candidate directory under construction: every listed address is in the
\* tracker, no row is there twice, and the counters say what was taken.
Building(p) ==
  /\ staging[p] \in CandidateDirs
  /\ staging[p].owner = p
  /\ \A r \in Rows : staging[p].rows[r] <= 1
  /\ \A a \in Addresses \ Excluded, t \in Tiers :
        staging[p].rows[<<a, t>>] > 0 => a \in seen[p]
  /\ \A a \in Addresses \ Excluded, t, u \in Tiers :
        staging[p].rows[<<a, t>>] > 0 /\ staging[p].rows[<<a, u>>] > 0
          => t = u
  /\ \A t \in Tiers :
        counted[p][t] = Cardinality(Listed(staging[p], t))
                          + Cardinality(OfTier(observed[p], t))

PublisherInv(p) ==
  /\ phase[p] # "renamed"
  /\ phase[p] = "idle" =>
        /\ counted[p] = [t \in Tiers |-> 0]
        /\ observed[p] = {}
  /\ phase[p] \in {"streaming", "compacted", "sealed"} => Building(p)
  /\ phase[p] \in {"compacted", "sealed"} =>
        counted[p] = Expected /\ observed[p] = Excluded
  /\ phase[p] = "sealed" => staging[p].receipt = "pinned"

Writing(w) ==
  /\ staging[w] \in FeatureDirs
  /\ staging[w].owner = w
  /\ \A s \in Scripts :
        /\ staging[w].scripts[s] <= 1
        /\ staging[w].scripts[s] > 0 => s \in seen[w]
  /\ \A f \in Features :
        /\ staging[w].features[f] <= 1
        /\ staging[w].features[f] > 0 => f \in seen[w]

WriterInv(w) ==
  /\ phase[w] # "compacted"
  /\ phase[w] \in {"streaming", "sealed"} => Writing(w)
  /\ phase[w] = "sealed" => WholeFeatures(staging[w])

\* What lies in a directory was put there by a run that has renamed.
RootInv ==
  /\ \A id \in Ids : published[id] # None =>
        /\ Whole(published[id])
        /\ published[id].owner \in Runs
        /\ published[id].owner \in Publishers =>
              phase[published[id].owner] = "published"
        /\ published[id].owner \in Writers =>
              phase[published[id].owner]
                \in {"renamed", "published", "failed", "dead"}
  /\ \A r \in Runs : phase[r] \in {"renamed", "published"} =>
        /\ published[Campaign[r]] # None
        /\ published[Campaign[r]].owner = r

PublicationInv ==
  /\ TypeInv
  /\ \A p \in Publishers : PublisherInv(p)
  /\ \A w \in Writers : WriterInv(w)
  /\ RootInv

-----------------------------------------------------------------------------

LEMMA RunsAreApart ==
  ASSUME PublicationAssumption
  PROVE  /\ \A p \in Publishers : p \in Runs /\ p \notin Writers
         /\ \A w \in Writers : w \in Runs /\ w \notin Publishers
         /\ \A r \in Runs : Campaign[r] \in Ids
BY DEF PublicationAssumption, Runs

LEMMA ListedIsFinite ==
  ASSUME PublicationAssumption, NEW dir, NEW t
  PROVE  IsFiniteSet(Listed(dir, t))
<1>1. Listed(dir, t) \subseteq Addresses
  BY DEF Listed
<1> QED
  BY <1>1, FS_Subset DEF PublicationAssumption

LEMMA OfTierIsFinite ==
  ASSUME PublicationAssumption, NEW X \in SUBSET Excluded, NEW t
  PROVE  IsFiniteSet(OfTier(X, t))
<1>1. OfTier(X, t) \subseteq Excluded
  BY DEF OfTier
<1> QED
  BY <1>1, FS_Subset DEF PublicationAssumption

\* A directory that may be renamed is whole.
LEMMA SealedIsWhole ==
  ASSUME PublicationAssumption, PublicationInv,
         NEW r \in Runs, phase[r] = "sealed"
  PROVE  /\ Whole(staging[r])
         /\ staging[r].owner = r
         /\ staging[r] \in CandidateDirs \cup FeatureDirs
<1>1. CASE r \in Publishers
  <2>1. PublisherInv(r) /\ Building(r)
    BY <1>1 DEF PublicationInv, PublisherInv
  <2>2. WholeCandidates(staging[r])
    BY <2>1, PublicationAssumption
       DEF PublicationAssumption, PublisherInv, Building, WholeCandidates
  <2> QED
    BY <1>1, <2>1, <2>2 DEF Whole, Building
<1>2. CASE r \in Writers
  <2>1. WriterInv(r) /\ Writing(r)
    BY <1>2 DEF PublicationInv, WriterInv
  <2> QED
    BY <1>2, <2>1 DEF Whole, WriterInv, Writing
<1> QED
  BY <1>1, <1>2 DEF Runs

LEMMA InitPublicationInv ==
  ASSUME PublicationAssumption, Init
  PROVE  PublicationInv
<1>1. TypeInv
  BY DEF Init, TypeInv, Phases
<1>2. \A p \in Publishers : PublisherInv(p)
  BY RunsAreApart DEF Init, PublisherInv
<1>3. \A w \in Writers : WriterInv(w)
  BY RunsAreApart DEF Init, WriterInv
<1>4. RootInv
  BY DEF Init, RootInv
<1> QED
  BY <1>1, <1>2, <1>3, <1>4 DEF PublicationInv

-----------------------------------------------------------------------------
(* What a step leaves alone. *)

LEMMA PublisherFrame ==
  ASSUME NEW q \in Publishers, PublisherInv(q),
         phase'[q] = phase[q], staging'[q] = staging[q],
         seen'[q] = seen[q], counted'[q] = counted[q],
         observed'[q] = observed[q]
  PROVE  PublisherInv(q)'
BY DEF PublisherInv, Building, Listed, OfTier

LEMMA WriterFrame ==
  ASSUME NEW w \in Writers, WriterInv(w),
         phase'[w] = phase[w], staging'[w] = staging[w], seen'[w] = seen[w]
  PROVE  WriterInv(w)'
BY DEF WriterInv, Writing, WholeFeatures

\* The root stands as long as nothing is renamed and no run that has renamed
\* or reported goes back.
LEMMA RootFrame ==
  ASSUME RootInv, UNCHANGED published,
         \A r \in Runs : phase'[r] # phase[r] =>
            \/ /\ phase[r] \in {"idle", "streaming", "compacted", "sealed"}
               /\ phase'[r] \notin {"renamed", "published"}
            \/ /\ phase[r] = "renamed"
               /\ r \notin Publishers
               /\ phase'[r] \in {"published", "failed", "dead"}
  PROVE  RootInv'
BY DEF RootInv, Whole, WholeCandidates, WholeFeatures, Listed

-----------------------------------------------------------------------------
(* Steps of the candidate publisher. *)

LEMMA AcceptRowKeepsBuilding ==
  ASSUME PublicationAssumption, PublicationInv, NEW p \in Publishers,
         NEW a \in Addresses \ Excluded, NEW t \in Tiers, AcceptRow(p, a, t)
  PROVE  Building(p)'
<1> USE PublicationAssumption DEF PublicationAssumption
<1>1. Building(p) /\ TypeInv
  BY DEF PublicationInv, PublisherInv, AcceptRow, Counted
<1>2. p \in Runs /\ <<a, t>> \in Rows
  BY DEF Runs, Rows
<1> DEFINE d  == staging[p]
           d2 == staging'[p]
<1>3. /\ d2 = [d EXCEPT !.rows[<<a, t>>] = @ + 1]
      /\ seen'[p] = seen[p] \cup {a}
      /\ counted'[p] = [counted[p] EXCEPT ![t] = @ + 1]
      /\ observed'[p] = observed[p]
  BY <1>1, <1>2 DEF AcceptRow, Counted, TypeInv
<1>4. d.rows \in [Rows -> Nat]
  BY <1>1 DEF Building, CandidateDirs
<1>5. d2.rows = [d.rows EXCEPT ![<<a, t>>] = d.rows[<<a, t>>] + 1]
  BY <1>1, <1>3 DEF Building, CandidateDirs
<1>6. a \notin seen[p]
  BY DEF AcceptRow
<1>7. \A u \in Tiers : d.rows[<<a, u>>] = 0
  <2> TAKE u \in Tiers
  <2>1. <<a, u>> \in Rows
    BY DEF Rows
  <2> QED
    BY <2>1, <1>1, <1>4, <1>6 DEF Building
<1>8. /\ d2.rows[<<a, t>>] = 1
      /\ \A r \in Rows : r # <<a, t>> => d2.rows[r] = d.rows[r]
  BY <1>2, <1>4, <1>5, <1>7
<1>9. d2 \in CandidateDirs /\ d2.owner = p
  BY <1>1, <1>2, <1>3, <1>4 DEF Building, CandidateDirs
<1>10. \A r \in Rows : d2.rows[r] <= 1
  BY <1>1, <1>8 DEF Building
<1>11. \A b \in Addresses \ Excluded, u \in Tiers :
          d2.rows[<<b, u>>] > 0 =>
            b \in seen'[p] /\ (b = a => u = t)
  <2> TAKE b \in Addresses \ Excluded, u \in Tiers
  <2>1. <<b, u>> \in Rows
    BY DEF Rows
  <2> QED
    BY <2>1, <1>1, <1>3, <1>7, <1>8 DEF Building
<1>12. \A b \in Addresses \ Excluded, u, v \in Tiers :
          d2.rows[<<b, u>>] > 0 /\ d2.rows[<<b, v>>] > 0 => u = v
  <2> SUFFICES ASSUME NEW b \in Addresses \ Excluded,
                      NEW u \in Tiers, NEW v \in Tiers,
                      d2.rows[<<b, u>>] > 0, d2.rows[<<b, v>>] > 0
               PROVE  u = v
    OBVIOUS
  <2>1. CASE b = a
    BY <2>1, <1>11
  <2>2. CASE b # a
    <3>1. <<b, u>> \in Rows /\ <<b, v>> \in Rows
      BY DEF Rows
    <3>2. <<b, u>> # <<a, t>> /\ <<b, v>> # <<a, t>>
      BY <2>2
    <3> QED
      BY <3>1, <3>2, <1>1, <1>8 DEF Building
  <2> QED
    BY <2>1, <2>2
<1>13. ASSUME NEW u \in Tiers
       PROVE  counted'[p][u] = Cardinality(Listed(d2, u))
                                 + Cardinality(OfTier(observed'[p], u))
  <2>1. counted[p] \in [Tiers -> Nat]
    BY <1>1 DEF TypeInv
  <2>2. counted[p][u] = Cardinality(Listed(d, u))
                          + Cardinality(OfTier(observed[p], u))
    BY <1>1 DEF Building
  <2>3. /\ IsFiniteSet(Listed(d, u))
        /\ IsFiniteSet(OfTier(observed[p], u))
    BY <1>1, ListedIsFinite, OfTierIsFinite DEF TypeInv
  <2>4. /\ Cardinality(Listed(d, u)) \in Nat
        /\ Cardinality(OfTier(observed[p], u)) \in Nat
    BY <2>3, FS_CardinalityType
  <2>5. CASE u = t
    <3>1. a \notin Listed(d, t)
      BY <1>7 DEF Listed
    <3>2. Listed(d2, t) = Listed(d, t) \cup {a}
      <4>1. \A b \in Addresses \ Excluded :
              d2.rows[<<b, t>>] > 0 <=> d.rows[<<b, t>>] > 0 \/ b = a
        <5> TAKE b \in Addresses \ Excluded
        <5>1. <<b, t>> \in Rows
          BY DEF Rows
        <5> QED
          BY <5>1, <1>8
      <4> QED
        BY <4>1 DEF Listed
    <3>3. Cardinality(Listed(d2, t)) = Cardinality(Listed(d, t)) + 1
      BY <2>3, <2>5, <3>1, <3>2, FS_AddElement
    <3>4. counted'[p][t] = counted[p][t] + 1
      BY <1>3, <2>1
    <3> QED
      BY <1>3, <2>2, <2>4, <2>5, <3>3, <3>4
  <2>6. CASE u # t
    <3>1. Listed(d2, u) = Listed(d, u)
      <4>1. \A b \in Addresses \ Excluded :
              d2.rows[<<b, u>>] = d.rows[<<b, u>>]
        <5> TAKE b \in Addresses \ Excluded
        <5>1. <<b, u>> \in Rows /\ <<b, u>> # <<a, t>>
          BY <2>6 DEF Rows
        <5> QED
          BY <5>1, <1>8
      <4> QED
        BY <4>1 DEF Listed
    <3>2. counted'[p][u] = counted[p][u]
      BY <1>3, <2>1, <2>6
    <3> QED
      BY <1>3, <2>2, <3>1, <3>2
  <2> QED
    BY <2>5, <2>6
<1>14. \A u \in Tiers :
          counted'[p][u] = Cardinality(Listed(staging'[p], u))
                             + Cardinality(OfTier(observed'[p], u))
  BY <1>13
<1> QED
  BY <1>9, <1>10, <1>11, <1>12, <1>14 DEF Building, Listed, OfTier

LEMMA ExcludeRowKeepsBuilding ==
  ASSUME PublicationAssumption, PublicationInv, NEW p \in Publishers,
         NEW x \in Excluded, NEW t \in Tiers, ExcludeRow(p, x, t)
  PROVE  Building(p)'
<1> USE PublicationAssumption DEF PublicationAssumption
<1>1. Building(p) /\ TypeInv
  BY DEF PublicationInv, PublisherInv, ExcludeRow, Counted
<1>2. /\ staging'[p] = staging[p]
      /\ seen'[p] = seen[p]
      /\ counted'[p] = [counted[p] EXCEPT ![t] = @ + 1]
      /\ observed'[p] = observed[p] \cup {x}
  BY <1>1 DEF ExcludeRow, Counted, TypeInv
<1>3. ASSUME NEW u \in Tiers
      PROVE  counted'[p][u] = Cardinality(Listed(staging[p], u))
                                + Cardinality(OfTier(observed'[p], u))
  <2>1. counted[p] \in [Tiers -> Nat]
    BY <1>1 DEF TypeInv
  <2>2. counted[p][u] = Cardinality(Listed(staging[p], u))
                          + Cardinality(OfTier(observed[p], u))
    BY <1>1 DEF Building
  <2>3. /\ IsFiniteSet(Listed(staging[p], u))
        /\ IsFiniteSet(OfTier(observed[p], u))
    BY <1>1, ListedIsFinite, OfTierIsFinite DEF TypeInv
  <2>4. /\ Cardinality(Listed(staging[p], u)) \in Nat
        /\ Cardinality(OfTier(observed[p], u)) \in Nat
    BY <2>3, FS_CardinalityType
  <2>5. CASE u = t
    <3>1. x \notin OfTier(observed[p], t)
      BY DEF OfTier, ExcludeRow
    <3>2. OfTier(observed'[p], t) = OfTier(observed[p], t) \cup {x}
      BY <1>2 DEF OfTier, ExcludeRow
    <3>3. Cardinality(OfTier(observed'[p], t))
            = Cardinality(OfTier(observed[p], t)) + 1
      BY <2>3, <2>5, <3>1, <3>2, FS_AddElement
    <3>4. counted'[p][t] = counted[p][t] + 1
      BY <1>2, <2>1
    <3> QED
      BY <2>2, <2>4, <2>5, <3>3, <3>4
  <2>6. CASE u # t
    <3>1. OfTier(observed'[p], u) = OfTier(observed[p], u)
      BY <1>2, <2>6 DEF OfTier, ExcludeRow
    <3>2. counted'[p][u] = counted[p][u]
      BY <1>2, <2>1, <2>6
    <3> QED
      BY <2>2, <3>1, <3>2
  <2> QED
    BY <2>5, <2>6
<1>4. \A u \in Tiers :
         counted'[p][u] = Cardinality(Listed(staging'[p], u))
                            + Cardinality(OfTier(observed'[p], u))
  BY <1>2, <1>3
<1> QED
  BY <1>1, <1>2, <1>4 DEF Building, Listed, OfTier

\* A directory that was just made, and a run that has not begun, list nothing.
LEMMA BeginIsBuilding ==
  ASSUME PublicationAssumption, PublicationInv, NEW p \in Publishers,
         BeginPublication(p)
  PROVE  Building(p)'
<1>1. PublisherInv(p) /\ TypeInv /\ p \in Runs
  BY DEF PublicationInv, Runs
<1>2. /\ staging'[p] = CandidateDir(p)
      /\ counted'[p] = [t \in Tiers |-> 0]
      /\ observed'[p] = {}
  BY <1>1 DEF BeginPublication, Moves, PublisherInv, TypeInv
<1>3. \A t \in Tiers : Listed(CandidateDir(p), t) = {}
  BY DEF Listed, CandidateDir, Rows
<1>4. \A t \in Tiers : OfTier({}, t) = {}
  BY DEF OfTier
<1>5. Cardinality({}) = 0
  BY FS_EmptySet
<1>6. \A t \in Tiers :
         counted'[p][t] = Cardinality(Listed(staging'[p], t))
                            + Cardinality(OfTier(observed'[p], t))
  <2> TAKE t \in Tiers
  <2>1. counted'[p][t] = 0
    BY <1>2
  <2>2. Cardinality(Listed(staging'[p], t)) = 0
    BY <1>2, <1>3, <1>5
  <2>3. Cardinality(OfTier(observed'[p], t)) = 0
    BY <1>2, <1>4, <1>5
  <2> QED
    BY <2>1, <2>2, <2>3
<1>7. staging'[p] \in CandidateDirs /\ staging'[p].owner = p
  BY <1>2 DEF CandidateDir, CandidateDirs
<1>8. \A r \in Rows : staging'[p].rows[r] = 0
  BY <1>2 DEF CandidateDir
<1>9. \A a \in Addresses \ Excluded, t \in Tiers :
         staging'[p].rows[<<a, t>>] = 0
  BY <1>8 DEF Rows
<1> QED
  BY <1>6, <1>7, <1>8, <1>9 DEF Building, Listed, OfTier

\* Only the receipt of a directory changes when it is sealed.
LEMMA SealKeepsBuilding ==
  ASSUME PublicationAssumption, PublicationInv, NEW p \in Publishers,
         SealPublication(p)
  PROVE  Building(p)' /\ staging'[p].receipt = "pinned"
<1>1. Building(p) /\ TypeInv /\ p \in Runs
  BY DEF PublicationInv, PublisherInv, SealPublication, Moves, Runs
<1>2. /\ staging'[p] = [staging[p] EXCEPT !.receipt = "pinned"]
      /\ UNCHANGED <<seen, counted, observed>>
  BY <1>1 DEF SealPublication, TypeInv
<1>3. /\ staging'[p].rows = staging[p].rows
      /\ staging'[p].owner = p
      /\ staging'[p].receipt = "pinned"
      /\ staging'[p] \in CandidateDirs
  BY <1>1, <1>2 DEF Building, CandidateDirs
<1>4. \A t \in Tiers : Listed(staging'[p], t) = Listed(staging[p], t)
  BY <1>3 DEF Listed
<1>5. \A t \in Tiers :
         counted'[p][t] = Cardinality(Listed(staging'[p], t))
                            + Cardinality(OfTier(observed'[p], t))
  BY <1>1, <1>2, <1>4 DEF Building
<1> QED
  BY <1>1, <1>2, <1>3, <1>5 DEF Building, Listed, OfTier

LEMMA PublisherStepKeepsPublisher ==
  ASSUME PublicationAssumption, PublicationInv, NEW p \in Publishers,
         PublisherStep(p)
  PROVE  PublisherInv(p)'
<1>1. PublisherInv(p) /\ TypeInv /\ p \in Runs
  BY DEF PublicationInv, Runs
<1>2. CASE BeginPublication(p)
  <2>1. phase'[p] = "streaming"
    BY <1>1, <1>2 DEF BeginPublication, Moves, TypeInv
  <2> QED
    BY <1>2, <2>1, BeginIsBuilding DEF PublisherInv
<1>3. CASE \E a \in Addresses \ Excluded, t \in Tiers : AcceptRow(p, a, t)
  <2>1. Building(p)'
    BY <1>3, AcceptRowKeepsBuilding
  <2>2. phase'[p] = "streaming"
    BY <1>3 DEF AcceptRow, Counted
  <2> QED
    BY <2>1, <2>2 DEF PublisherInv
<1>4. CASE \E x \in Excluded, t \in Tiers : ExcludeRow(p, x, t)
  <2>1. Building(p)'
    BY <1>4, ExcludeRowKeepsBuilding
  <2>2. phase'[p] = "streaming"
    BY <1>4 DEF ExcludeRow, Counted
  <2> QED
    BY <2>1, <2>2 DEF PublisherInv
<1>5. CASE Compact(p)
  <2>1. phase[p] = "streaming" /\ phase'[p] = "compacted"
    BY <1>1, <1>5 DEF Compact, Moves, TypeInv
  <2>2. UNCHANGED <<staging, seen, counted, observed>>
    BY <1>5 DEF Compact
  <2>3. Building(p)'
    BY <1>1, <2>1, <2>2 DEF PublisherInv, Building, Listed, OfTier
  <2>4. counted[p] = Expected /\ observed[p] = Excluded
    BY <1>5 DEF Compact
  <2> QED
    BY <2>1, <2>2, <2>3, <2>4 DEF PublisherInv
<1>6. CASE SealPublication(p)
  <2>1. phase[p] = "compacted" /\ phase'[p] = "sealed"
    BY <1>1, <1>6 DEF SealPublication, Moves, TypeInv
  <2>2. counted'[p] = Expected /\ observed'[p] = Excluded
    BY <1>1, <1>6, <2>1 DEF SealPublication, PublisherInv
  <2> QED
    BY <1>6, <2>1, <2>2, SealKeepsBuilding DEF PublisherInv
<1>7. CASE Install(p, "published")
  <2>1. phase'[p] = "published"
    BY <1>1, <1>7 DEF Install, Moves, TypeInv
  <2> QED
    BY <2>1 DEF PublisherInv
<1> QED
  BY <1>2, <1>3, <1>4, <1>5, <1>6, <1>7 DEF PublisherStep

-----------------------------------------------------------------------------
(* Steps of the feature materializer. *)

LEMMA WriterStepKeepsWriter ==
  ASSUME PublicationAssumption, PublicationInv, NEW w \in Writers,
         WriterStep(w)
  PROVE  WriterInv(w)'
<1>1. WriterInv(w) /\ TypeInv /\ w \in Runs
  BY DEF PublicationInv, Runs
<1>2. CASE BeginCampaign(w)
  <2>1. phase'[w] = "streaming" /\ staging'[w] = FeatureDir(w)
    BY <1>1, <1>2 DEF BeginCampaign, Moves, TypeInv
  <2> QED
    BY <2>1 DEF WriterInv, Writing, FeatureDir, FeatureDirs
<1>3. ASSUME NEW s \in Scripts, WriteScript(w, s)
      PROVE  WriterInv(w)'
  <2>1. /\ phase[w] = "streaming" /\ phase'[w] = "streaming"
        /\ s \notin seen[w]
        /\ seen'[w] = seen[w] \cup {s}
        /\ staging'[w] = [staging[w] EXCEPT !.scripts[s] = @ + 1]
    BY <1>1, <1>3 DEF WriteScript, TypeInv
  <2>2. Writing(w)
    BY <1>1, <2>1 DEF WriterInv
  <2>3. staging[w].scripts \in [Scripts -> Nat]
    BY <2>2 DEF Writing, FeatureDirs
  <2>4. staging[w].scripts[s] = 0
    BY <2>1, <2>2, <2>3 DEF Writing
  <2>5. /\ staging'[w].scripts = [staging[w].scripts EXCEPT ![s] = 1]
        /\ staging'[w].features = staging[w].features
        /\ staging'[w].owner = w
        /\ staging'[w] \in FeatureDirs
    BY <2>1, <2>2, <2>3, <2>4 DEF Writing, FeatureDirs
  <2> QED
    BY <2>1, <2>2, <2>3, <2>5 DEF WriterInv, Writing
<1>4. ASSUME NEW f \in Features, WriteFeature(w, f)
      PROVE  WriterInv(w)'
  <2>1. /\ phase[w] = "streaming" /\ phase'[w] = "streaming"
        /\ f \notin seen[w]
        /\ seen'[w] = seen[w] \cup {f}
        /\ staging'[w] = [staging[w] EXCEPT !.features[f] = @ + 1]
    BY <1>1, <1>4 DEF WriteFeature, TypeInv
  <2>2. Writing(w)
    BY <1>1, <2>1 DEF WriterInv
  <2>3. staging[w].features \in [Features -> Nat]
    BY <2>2 DEF Writing, FeatureDirs
  <2>4. staging[w].features[f] = 0
    BY <2>1, <2>2, <2>3 DEF Writing
  <2>5. /\ staging'[w].features = [staging[w].features EXCEPT ![f] = 1]
        /\ staging'[w].scripts = staging[w].scripts
        /\ staging'[w].owner = w
        /\ staging'[w] \in FeatureDirs
    BY <2>1, <2>2, <2>3, <2>4 DEF Writing, FeatureDirs
  <2> QED
    BY <2>1, <2>2, <2>3, <2>5 DEF WriterInv, Writing
<1>5. CASE WriteAccounting(w)
  <2>1. /\ phase[w] = "streaming" /\ phase'[w] = "streaming"
        /\ seen'[w] = seen[w]
        /\ staging'[w] = [staging[w] EXCEPT !.accounting = 1]
    BY <1>1, <1>5 DEF WriteAccounting, TypeInv
  <2>2. Writing(w)
    BY <1>1, <2>1 DEF WriterInv
  <2>3. /\ staging'[w].features = staging[w].features
        /\ staging'[w].scripts = staging[w].scripts
        /\ staging'[w].owner = w
        /\ staging'[w] \in FeatureDirs
    BY <2>1, <2>2 DEF Writing, FeatureDirs
  <2> QED
    BY <2>1, <2>2, <2>3 DEF WriterInv, Writing
<1>6. ASSUME NEW anchors \in {"snapshot", "not_provided"},
             SealCampaign(w, anchors)
      PROVE  WriterInv(w)'
  <2>1. /\ phase[w] = "streaming" /\ phase'[w] = "sealed"
        /\ seen'[w] = seen[w]
        /\ staging'[w] = [staging[w] EXCEPT !.anchors = anchors]
    BY <1>1, <1>6 DEF SealCampaign, Moves, TypeInv
  <2>2. Writing(w)
    BY <1>1, <2>1 DEF WriterInv
  <2>3. /\ staging'[w].features = staging[w].features
        /\ staging'[w].scripts = staging[w].scripts
        /\ staging'[w].accounting = staging[w].accounting
        /\ staging'[w].anchors = anchors
        /\ staging'[w].owner = w
        /\ staging'[w] \in FeatureDirs
    BY <2>1, <2>2 DEF Writing, FeatureDirs
  <2>4. Writing(w)'
    BY <2>1, <2>2, <2>3 DEF Writing
  <2>5. /\ staging[w].scripts \in [Scripts -> Nat]
        /\ staging[w].features \in [Features -> Nat]
    BY <2>2 DEF Writing, FeatureDirs
  <2>6. /\ \E s \in Scripts : staging[w].scripts[s] = 1
        /\ \E f \in Features : staging[w].features[f] = 1
        /\ staging[w].accounting = 1
    BY <1>6, <2>2, <2>5 DEF SealCampaign, Writing
  <2>7. WholeFeatures(staging[w])'
    BY <2>2, <2>3, <2>6 DEF WholeFeatures, Writing
  <2> QED
    BY <2>1, <2>4, <2>7 DEF WriterInv
<1>7. CASE Install(w, "renamed")
  <2>1. phase'[w] = "renamed"
    BY <1>1, <1>7 DEF Install, Moves, TypeInv
  <2> QED
    BY <2>1 DEF WriterInv
<1>8. ASSUME NEW outcome \in {"published", "failed"}, ReportSync(w, outcome)
      PROVE  WriterInv(w)'
  <2>1. phase'[w] = outcome
    BY <1>1, <1>8 DEF ReportSync, Moves, TypeInv
  <2> QED
    BY <2>1 DEF WriterInv
<1> QED
  BY <1>2, <1>3, <1>4, <1>5, <1>6, <1>7, <1>8 DEF WriterStep

-----------------------------------------------------------------------------
(* The whole system. *)

\* A step of one run leaves the variables of every other run alone.
LEMMA OthersUntouched ==
  ASSUME TypeInv, NEW r \in Runs,
         \/ r \in Publishers /\ PublisherStep(r)
         \/ r \in Writers /\ WriterStep(r)
         \/ Fail(r) \/ Crash(r)
  PROVE  \A q \in Runs \ {r} :
            /\ phase'[q] = phase[q]
            /\ staging'[q] = staging[q]
            /\ seen'[q] = seen[q]
            /\ q \in Publishers =>
                 counted'[q] = counted[q] /\ observed'[q] = observed[q]
<1> USE DEF TypeInv, Moves, Counted
<1>1. CASE r \in Publishers /\ PublisherStep(r)
  <2>1. CASE BeginPublication(r)
    BY <2>1 DEF BeginPublication
  <2>2. CASE \E a \in Addresses \ Excluded, t \in Tiers : AcceptRow(r, a, t)
    BY <2>2 DEF AcceptRow
  <2>3. CASE \E x \in Excluded, t \in Tiers : ExcludeRow(r, x, t)
    BY <2>3 DEF ExcludeRow
  <2>4. CASE Compact(r) \/ SealPublication(r) \/ Install(r, "published")
    BY <2>4 DEF Compact, SealPublication, Install
  <2> QED
    BY <1>1, <2>1, <2>2, <2>3, <2>4 DEF PublisherStep
<1>2. CASE r \in Writers /\ WriterStep(r)
  BY <1>2 DEF WriterStep, BeginCampaign, WriteScript, WriteFeature,
              WriteAccounting, SealCampaign, Install, ReportSync
<1>3. CASE Fail(r) \/ Crash(r)
  BY <1>3 DEF Fail, Crash
<1> QED
  BY <1>1, <1>2, <1>3

LEMMA StepKeepsTypes ==
  ASSUME PublicationAssumption, TypeInv, [Next]_vars
  PROVE  TypeInv'
<1> USE DEF TypeInv, Moves, Counted, Phases
<1> USE RunsAreApart
<1>1. CASE \E p \in Publishers : PublisherStep(p)
  <2> PICK p \in Publishers : PublisherStep(p)
    BY <1>1
  <2>1. CASE BeginPublication(p)
    BY <2>1 DEF BeginPublication
  <2>2. ASSUME NEW a \in Addresses \ Excluded, NEW t \in Tiers,
               AcceptRow(p, a, t)
        PROVE  TypeInv'
    BY <2>2 DEF AcceptRow
  <2>3. ASSUME NEW x \in Excluded, NEW t \in Tiers, ExcludeRow(p, x, t)
        PROVE  TypeInv'
    BY <2>3 DEF ExcludeRow
  <2>4. CASE Compact(p) \/ SealPublication(p)
    BY <2>4 DEF Compact, SealPublication
  <2>5. CASE Install(p, "published")
    BY <2>5 DEF Install
  <2> QED
    BY <2>1, <2>2, <2>3, <2>4, <2>5 DEF PublisherStep
<1>2. CASE \E w \in Writers : WriterStep(w)
  BY <1>2 DEF WriterStep, BeginCampaign, WriteScript, WriteFeature,
              WriteAccounting, SealCampaign, Install, ReportSync
<1>3. CASE \E r \in Runs : Fail(r) \/ Crash(r)
  BY <1>3 DEF Fail, Crash
<1>4. CASE RewriteReceipt \/ UNCHANGED vars
  BY <1>4 DEF RewriteReceipt, vars
<1> QED
  BY <1>1, <1>2, <1>3, <1>4 DEF Next

\* A rename puts a whole artifact where nothing was, and nothing else moves.
LEMMA InstallIsWhole ==
  ASSUME PublicationAssumption, NoneAssumption, PublicationInv,
         NEW r \in Runs, NEW to, Install(r, to)
  PROVE  /\ Campaign[r] \in Ids
         /\ published[Campaign[r]] = None
         /\ published' = [published EXCEPT ![Campaign[r]] = staging[r]]
         /\ Whole(staging[r])
         /\ staging[r].owner = r
         /\ staging[r] # None
<1>1. phase[r] = "sealed"
  BY DEF Install, Moves
<1>2. staging[r] \in CandidateDirs \cup FeatureDirs
  BY <1>1, SealedIsWhole
<1>3. staging[r] # None
  BY <1>2, NoneAssumption DEF NoneAssumption, CandidateDirs, FeatureDirs
<1> QED
  BY <1>1, <1>3, SealedIsWhole, RunsAreApart DEF Install, Free

LEMMA WholeIsConstant ==
  ASSUME NEW d, NEW e, e = d, Whole(d)
  PROVE  Whole(e)
OBVIOUS

LEMMA InstallKeepsRoot ==
  ASSUME PublicationAssumption, NoneAssumption, PublicationInv,
         NEW r \in Runs, NEW to, Install(r, to),
         \/ r \in Publishers /\ to = "published"
         \/ r \in Writers /\ to = "renamed"
  PROVE  RootInv'
<1> DEFINE k == Campaign[r]
<1>1. /\ k \in Ids
      /\ published[k] = None
      /\ published' = [published EXCEPT ![k] = staging[r]]
      /\ staging[r].owner = r
      /\ staging[r] # None
  BY InstallIsWhole
<1>2. /\ phase[r] = "sealed"
      /\ phase' = [phase EXCEPT ![r] = to]
  BY DEF Install, Moves
<1>3. TypeInv /\ RootInv
  BY DEF PublicationInv
<1>4. /\ published'[k] = staging[r]
      /\ \A id \in Ids : id # k => published'[id] = published[id]
  BY <1>1, <1>3 DEF TypeInv
<1>5. /\ phase'[r] = to
      /\ \A q \in Runs : q # r => phase'[q] = phase[q]
  BY <1>2, <1>3 DEF TypeInv
<1>6. ASSUME NEW id \in Ids, published'[id] # None
      PROVE  /\ Whole(published'[id])
             /\ published'[id].owner \in Runs
             /\ published'[id].owner \in Publishers =>
                   phase'[published'[id].owner] = "published"
             /\ published'[id].owner \in Writers =>
                   phase'[published'[id].owner]
                     \in {"renamed", "published", "failed", "dead"}
  <2>1. CASE id = k
    <3>1. Whole(published'[id])
      BY <2>1, <1>4, InstallIsWhole
    <3> QED
      BY <3>1, <2>1, <1>1, <1>4, <1>5, RunsAreApart
  <2>2. CASE id # k
    <3>1. published'[id] = published[id] /\ published[id] # None
      BY <2>2, <1>4, <1>6
    <3>2. Whole(published[id])
      BY <3>1, <1>3 DEF RootInv
    <3>3. Whole(published'[id])
      BY <3>1, <3>2
    <3>4. /\ published[id].owner \in Runs
          /\ published[id].owner # r
      BY <3>1, <1>2, <1>3, RunsAreApart DEF RootInv, Runs
    <3> QED
      BY <3>1, <3>3, <3>4, <1>3, <1>5 DEF RootInv
  <2> QED
    BY <2>1, <2>2
<1>7. ASSUME NEW q \in Runs, phase'[q] \in {"renamed", "published"}
      PROVE  /\ published'[Campaign[q]] # None
             /\ published'[Campaign[q]].owner = q
  <2>1. CASE q = r
    BY <2>1, <1>1, <1>4
  <2>2. CASE q # r
    <3>1. /\ published[Campaign[q]] # None
          /\ published[Campaign[q]].owner = q
      BY <2>2, <1>3, <1>5, <1>7 DEF RootInv
    <3>2. Campaign[q] \in Ids /\ Campaign[q] # k
      BY <3>1, <1>1, RunsAreApart
    <3> QED
      BY <3>1, <3>2, <1>4
  <2> QED
    BY <2>1, <2>2
<1>8. \A id \in Ids : published'[id] # None => Whole(published[id]')
  BY <1>6
<1> QED
  BY <1>6, <1>7, <1>8 DEF RootInv

LEMMA StepKeepsRoot ==
  ASSUME PublicationAssumption, NoneAssumption, PublicationInv, [Next]_vars
  PROVE  RootInv'
<1>1. TypeInv /\ RootInv
  BY DEF PublicationInv
<1>2. ASSUME NEW p \in Publishers, PublisherStep(p)
      PROVE  RootInv'
  <2>1. CASE Install(p, "published")
    BY <2>1, InstallKeepsRoot, RunsAreApart
  <2>2. CASE ~Install(p, "published")
    <3>1. /\ UNCHANGED published
          /\ \A r \in Runs : phase'[r] # phase[r] =>
                /\ phase[r] \in {"idle", "streaming", "compacted"}
                /\ phase'[r] \notin {"renamed", "published"}
      BY <1>1, <1>2, <2>2
         DEF PublisherStep, BeginPublication, AcceptRow, ExcludeRow, Compact,
             SealPublication, Moves, Counted, TypeInv
    <3> QED
      BY <1>1, <3>1, RootFrame
  <2> QED
    BY <2>1, <2>2
<1>3. ASSUME NEW w \in Writers, WriterStep(w)
      PROVE  RootInv'
  <2>1. CASE Install(w, "renamed")
    BY <2>1, InstallKeepsRoot, RunsAreApart
  <2>2. CASE \E outcome \in {"published", "failed"} : ReportSync(w, outcome)
    <3>1. /\ UNCHANGED published
          /\ \A r \in Runs : phase'[r] # phase[r] =>
                /\ phase[r] = "renamed"
                /\ r \notin Publishers
                /\ phase'[r] \in {"published", "failed"}
      BY <1>1, <2>2, RunsAreApart DEF ReportSync, Moves, TypeInv
    <3> QED
      BY <1>1, <3>1, RootFrame
  <2>3. CASE /\ ~Install(w, "renamed")
             /\ ~\E outcome \in {"published", "failed"} : ReportSync(w, outcome)
    <3>1. /\ UNCHANGED published
          /\ \A r \in Runs : phase'[r] # phase[r] =>
                /\ phase[r] \in {"idle", "streaming"}
                /\ phase'[r] \notin {"renamed", "published"}
      BY <1>1, <1>3, <2>3
         DEF WriterStep, BeginCampaign, WriteScript, WriteFeature,
             WriteAccounting, SealCampaign, Moves, TypeInv
    <3> QED
      BY <1>1, <3>1, RootFrame
  <2> QED
    BY <2>1, <2>2, <2>3
<1>4. ASSUME NEW r \in Runs, Fail(r) \/ Crash(r)
      PROVE  RootInv'
  <2>1. r \in Publishers => phase[r] # "renamed"
    BY DEF PublicationInv, PublisherInv
  <2>2. /\ UNCHANGED published
        /\ \A q \in Runs : phase'[q] # phase[q] =>
              \/ /\ phase[q] \in {"idle", "streaming", "compacted", "sealed"}
                 /\ phase'[q] \notin {"renamed", "published"}
              \/ /\ phase[q] = "renamed"
                 /\ q \notin Publishers
                 /\ phase'[q] \in {"published", "failed", "dead"}
    BY <1>1, <1>4, <2>1 DEF Fail, Crash, TypeInv
  <2> QED
    BY <1>1, <2>2, RootFrame
<1>5. CASE RewriteReceipt \/ UNCHANGED vars
  <2>1. UNCHANGED <<published, phase>>
    BY <1>5 DEF RewriteReceipt, vars
  <2> QED
    BY <1>1, <2>1, RootFrame
<1> QED
  BY <1>2, <1>3, <1>4, <1>5 DEF Next

LEMMA StepKeepsPublishers ==
  ASSUME PublicationAssumption, PublicationInv, [Next]_vars,
         NEW q \in Publishers
  PROVE  PublisherInv(q)'
<1>1. TypeInv /\ PublisherInv(q) /\ q \in Runs /\ q \notin Writers
  BY RunsAreApart DEF PublicationInv
<1>2. CASE PublisherStep(q)
  BY <1>2, PublisherStepKeepsPublisher
<1>3. CASE Fail(q) \/ Crash(q)
  <2>1. phase'[q] \in {"failed", "dead"}
    BY <1>1, <1>3 DEF Fail, Crash, TypeInv
  <2> QED
    BY <2>1 DEF PublisherInv
<1>4. ASSUME NEW r \in Runs \ {q},
             \/ r \in Publishers /\ PublisherStep(r)
             \/ r \in Writers /\ WriterStep(r)
             \/ Fail(r) \/ Crash(r)
      PROVE  PublisherInv(q)'
  BY <1>1, <1>4, OthersUntouched, PublisherFrame
<1>5. CASE RewriteReceipt \/ UNCHANGED vars
  <2>1. UNCHANGED <<phase, staging, seen, counted, observed>>
    BY <1>5 DEF RewriteReceipt, vars
  <2> QED
    BY <1>1, <2>1, PublisherFrame
<1> QED
  BY <1>1, <1>2, <1>3, <1>4, <1>5, RunsAreApart DEF Next

LEMMA StepKeepsWriters ==
  ASSUME PublicationAssumption, PublicationInv, [Next]_vars,
         NEW q \in Writers
  PROVE  WriterInv(q)'
<1>1. TypeInv /\ WriterInv(q) /\ q \in Runs /\ q \notin Publishers
  BY RunsAreApart DEF PublicationInv
<1>2. CASE WriterStep(q)
  BY <1>2, WriterStepKeepsWriter
<1>3. CASE Fail(q) \/ Crash(q)
  <2>1. phase'[q] \in {"failed", "dead"}
    BY <1>1, <1>3 DEF Fail, Crash, TypeInv
  <2> QED
    BY <2>1 DEF WriterInv
<1>4. ASSUME NEW r \in Runs \ {q},
             \/ r \in Publishers /\ PublisherStep(r)
             \/ r \in Writers /\ WriterStep(r)
             \/ Fail(r) \/ Crash(r)
      PROVE  WriterInv(q)'
  BY <1>1, <1>4, OthersUntouched, WriterFrame
<1>5. CASE RewriteReceipt \/ UNCHANGED vars
  <2>1. UNCHANGED <<phase, staging, seen, counted, observed>>
    BY <1>5 DEF RewriteReceipt, vars
  <2> QED
    BY <1>1, <2>1, WriterFrame
<1> QED
  BY <1>1, <1>2, <1>3, <1>4, <1>5, RunsAreApart DEF Next

LEMMA StepKeepsPublicationInv ==
  ASSUME PublicationAssumption, NoneAssumption, PublicationInv, [Next]_vars
  PROVE  PublicationInv'
<1>1. TypeInv'
  BY StepKeepsTypes DEF PublicationInv
<1>2. RootInv'
  BY StepKeepsRoot
<1>3. \A p \in Publishers : PublisherInv(p)'
  BY StepKeepsPublishers
<1>4. \A w \in Writers : WriterInv(w)'
  BY StepKeepsWriters
<1> QED
  BY <1>1, <1>2, <1>3, <1>4 DEF PublicationInv

-----------------------------------------------------------------------------

\* The inductive invariant: what each run has under construction is what its
\* counters and tracker say, and what was renamed is whole and has an owner
\* whose phase shows it.
THEOREM PublicationInvHolds == Spec => []PublicationInv
<1>1. Init => PublicationInv
  BY InitPublicationInv, PublicationAssumption
<1>2. PublicationInv /\ [Next]_vars => PublicationInv'
  BY StepKeepsPublicationInv, PublicationAssumption, NoneAssumption
<1> QED
  BY <1>1, <1>2, PTL DEF Spec

\* Whatever lies in campaigns/<id> is one whole artifact (os.replace in run
\* and publish), however many runs of the id overlap.
THEOREM PublishedIsWholeHolds == Spec => []PublishedIsWhole
<1>1. PublicationInv => PublishedIsWhole
  BY DEF PublicationInv, RootInv, PublishedIsWhole
<1> QED
  BY <1>1, PublicationInvHolds, PTL

\* A run that reports success owns the artifact of its id; a candidate run
\* that reports failure owns none.
THEOREM OutcomeIsTrueHolds == Spec => []OutcomeIsTrue
<1>1. PublicationInv => OutcomeIsTrue
  <2> SUFFICES ASSUME PublicationInv, NEW r \in Runs
               PROVE  LET mine == published[Campaign[r]] # None
                                    /\ published[Campaign[r]].owner = r
                      IN  /\ phase[r] = "published" => mine
                          /\ r \in Publishers /\ phase[r] = "failed" => ~mine
    BY DEF OutcomeIsTrue
  <2>1. Campaign[r] \in Ids /\ RootInv
    BY PublicationAssumption, RunsAreApart DEF PublicationInv
  <2> QED
    BY <2>1 DEF RootInv
<1> QED
  BY <1>1, PublicationInvHolds, PTL

\* Publication implements Artifacts: readers of the universe root see an id go
\* from absent to one whole artifact in a single step and never change again.
THEOREM PublicationImplementsArtifacts == Spec => ImplementsArtifacts
<1>1. Init => Promise!Init
  BY DEF Init, Promise!Init
<1>2. PublicationInv /\ [Next]_vars => [Promise!Next]_published
  <2> SUFFICES ASSUME PublicationInv, [Next]_vars, published' # published
               PROVE  Promise!Next
    OBVIOUS
  <2>1. PICK r \in Runs : \E to \in {"published", "renamed"} : Install(r, to)
    <3>1. ASSUME NEW p \in Publishers, PublisherStep(p)
          PROVE  Install(p, "published")
      BY <3>1 DEF PublisherStep, BeginPublication, AcceptRow, ExcludeRow,
                  Compact, SealPublication
    <3>2. ASSUME NEW w \in Writers, WriterStep(w)
          PROVE  Install(w, "renamed")
      BY <3>2 DEF WriterStep, BeginCampaign, WriteScript, WriteFeature,
                  WriteAccounting, SealCampaign, ReportSync
    <3> QED
      BY <3>1, <3>2, RunsAreApart, PublicationAssumption
         DEF Next, Fail, Crash, RewriteReceipt, vars
  <2>2. /\ Campaign[r] \in Ids
        /\ published[Campaign[r]] = None
        /\ published' = [published EXCEPT ![Campaign[r]] = staging[r]]
        /\ Whole(staging[r])
        /\ staging[r] # None
    BY <2>1, InstallIsWhole, PublicationAssumption, NoneAssumption
  <2>3. published'[Campaign[r]] = staging[r]
    BY <2>2 DEF PublicationInv, TypeInv
  <2>4. Promise!Publish(Campaign[r])
    BY <2>2, <2>3 DEF Promise!Publish
  <2> QED
    BY <2>2, <2>4 DEF Promise!Next
<1> QED
  BY <1>1, <1>2, PublicationInvHolds, PTL DEF Spec, ImplementsArtifacts, Promise!Spec
=============================================================================
