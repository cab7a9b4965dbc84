--------------------------- MODULE ResolverProofs ---------------------------
(***************************************************************************)
(* Proofs about Resolver for every set of evidence rows, values, instants  *)
(* and rebuilds, whatever the order in which evidence and decisions arrive *)
(* and versions are rebuilt.                                               *)
(***************************************************************************)
EXTENDS Resolver, FiniteSetTheorems, SequenceTheorems, WellFoundedInduction, TLAPS

-----------------------------------------------------------------------------
(***************************************************************************)
(* The latest decision                                                     *)
(***************************************************************************)

\* Finitely many decisions have a latest one.
LEMMA LatestExists ==
  ASSUME NEW S, IsFiniteSet(S), S # {}, \A d \in S : d.at \in Nat
  PROVE  \E d \in S : \A o \in S : o.at <= d.at
<1> DEFINE HasLatest(U) == \E d \in U : \A o \in U : o.at <= d.at
           Bad == { U \in SUBSET S : U # {} /\ ~HasLatest(U) }
<1> SUFFICES ASSUME S \in Bad PROVE FALSE
  OBVIOUS
<1>1. /\ IsWellFoundedOn(StrictSubsetOrdering(S), SUBSET S)
      /\ Bad \subseteq SUBSET S /\ Bad # {}
  BY FS_StrictSubsetOrderingWellFounded, FS_FiniteSubsetsOfFinite
<1>2. PICK U \in Bad : \A V \in Bad : <<V, U>> \notin StrictSubsetOrdering(S)
  <2> HIDE DEF Bad
  <2> QED
    BY <1>1, WFMin
<1>3. PICK x \in U : TRUE
  BY <1>2
<1>4. CASE U = {x}
  BY <1>2, <1>3, <1>4
<1>5. CASE U # {x}
  <2>1. /\ U \ {x} # {} /\ <<U \ {x}, U>> \in StrictSubsetOrdering(S)
    BY <1>2, <1>3, <1>5 DEF StrictSubsetOrdering
  <2>2. HasLatest(U \ {x})
    BY <1>2, <2>1
  <2>3. PICK m \in U \ {x} : \A o \in U \ {x} : o.at <= m.at
    BY <2>2
  <2>4. x.at \in Nat /\ m.at \in Nat /\ \A o \in U : o.at \in Nat
    BY <1>2, <1>3, <2>3
  <2>5. CASE x.at <= m.at
    BY <1>2, <2>3, <2>4, <2>5
  <2>6. CASE m.at <= x.at
    BY <1>2, <1>3, <2>3, <2>4, <2>6
  <2> QED
    BY <2>4, <2>5, <2>6
<1> QED
  BY <1>4, <1>5

\* The decision that counts was made about the value by then, if any was.
LEMMA LatestIsMade ==
  ASSUME NEW S, IsFiniteSet(S), \A d \in S : d.at \in Nat, NEW v, NEW t, NEW default
  PROVE  \/ LatestBy(S, v, t, default) = default
         \/ \E d \in S : /\ d.value = v /\ d.at <= t
                         /\ LatestBy(S, v, t, default) = d
<1> DEFINE made == { d \in S : d.value = v /\ d.at <= t }
<1>1. CASE made = {}
  BY <1>1 DEF LatestBy
<1>2. CASE made # {}
  <2>1. IsFiniteSet(made) /\ \A d \in made : d.at \in Nat
    BY FS_Subset
  <2>2. \E d \in made : \A o \in made : o.at <= d.at
    <3> HIDE DEF made
    <3> QED
      BY <1>2, <2>1, LatestExists
  <2>3. LatestBy(S, v, t, default) = CHOOSE d \in made : \A o \in made : o.at <= d.at
    BY <1>2 DEF LatestBy
  <2>4. LatestBy(S, v, t, default) \in made
    BY <2>2, <2>3
  <2> QED
    BY <2>4
<1> QED
  BY <1>1, <1>2

-----------------------------------------------------------------------------
(***************************************************************************)
(* Types                                                                   *)
(***************************************************************************)

ConflictSets == [status: {"active", "resolved"}, members: SUBSET Claims]

\* What a rebuild read is a part of what is there, for tables only grow.
ViewInv(k) ==
  asOf[k] # None =>
    /\ asOf[k] \in Times
    /\ view[k].evidence \subseteq evidence
    /\ view[k].reviews \subseteq reviews
    /\ view[k].overrides \subseteq overrides
    /\ view[k].claims \subseteq claims
    /\ view[k].conflicts \in Seq(ConflictSets)
    /\ Len(view[k].conflicts) <= Len(conflicts)

TypeInv ==
  /\ evidence \subseteq Rows \ Unproved
  /\ reviews \subseteq Reviews /\ IsFiniteSet(reviews)
  /\ overrides \subseteq Overrides /\ IsFiniteSet(overrides)
  /\ conflicts \in Seq(ConflictSets)
  /\ asOf \in [Resolvers -> Times \cup {None}]
  /\ DOMAIN view = Resolvers
  /\ \A k \in Resolvers : ViewInv(k)

\* What a claim for a value of a version rests on.
Sound(c, v, t) ==
  /\ c \in Claims /\ c.value = v
  /\ c.reviewed <= t
  /\ c.basis # {} /\ c.basis \subseteq evidence
  /\ \A e \in c.basis : e.at <= t /\ InForce(e, t)
  /\ c.status = "accepted" =>
       c.reviewed > 0 /\ \E e \in c.basis : e.grade = "official"

\* Instants are positive numbers.
LEMMA TimesAreNumbers == \A t \in Times : t \in Nat /\ t > 0
<1>1. \A t \in Times : t \in Nat \ {0}
  BY NumbersAssumption DEF NumbersAssumption
<1>2. \A t \in Nat \ {0} : t \in Nat /\ t > 0
  OBVIOUS
<1> QED
  BY <1>1, <1>2

\* A claim put together from any two readings of the tables is sound.
LEMMA ClaimIsSound ==
  ASSUME NEW db, NEW later, NEW t \in Times, TypeInv,
         db.evidence \subseteq evidence, db.overrides \subseteq overrides,
         later.reviews \subseteq reviews, NEW v \in Asserted(db, t)
  PROVE  Sound(Claim(db, later, t, v), v, t)
<1> DEFINE c        == Claim(db, later, t, v)
           basis    == Group(db, t, v)
           review   == ReviewOf(later, t, v)
           override == OverrideOf(db, t, v)
<1>1. /\ v \in Values /\ basis # {} /\ basis \subseteq evidence /\ basis \subseteq Rows
      /\ \A e \in basis : e.at <= t /\ InForce(e, t)
  <2>1. v \in Values /\ basis # {}
    BY DEF Asserted
  <2>2. \A e \in basis : e \in db.evidence /\ e.at <= t /\ InForce(e, t)
    BY DEF Group, Known
  <2> QED
    BY <2>1, <2>2 DEF TypeInv
<1>2. /\ review.at \in Times \cup {0} /\ review.at <= t
      /\ review.decision = "accept" => review.at > 0
  <2>1. IsFiniteSet(later.reviews) /\ \A d \in later.reviews : d \in Reviews
    BY FS_Subset DEF TypeInv
  <2>2. \A d \in later.reviews : d.at \in Times /\ d.at \in Nat /\ d.at > 0
    <3>1. \A d \in later.reviews : d.at \in Times
      BY <2>1 DEF Reviews
    <3> QED
      BY <3>1, TimesAreNumbers
  <2>3. \/ review = NoReview
        \/ \E d \in later.reviews : d.value = v /\ d.at <= t /\ review = d
    BY <2>1, <2>2, LatestIsMade DEF ReviewOf
  <2> QED
    BY <2>2, <2>3, TimesAreNumbers DEF NoReview
<1>3. override \in {"select", "reject", "none"}
  <2>1. IsFiniteSet(db.overrides) /\ \A d \in db.overrides : d \in Overrides
    BY FS_Subset DEF TypeInv
  <2>2. \A d \in db.overrides : d.at \in Nat /\ d.decision \in {"select", "reject"}
    <3>1. \A d \in db.overrides : d.at \in Times /\ d.decision \in {"select", "reject"}
      BY <2>1 DEF Overrides
    <3> QED
      BY <3>1, TimesAreNumbers
  <2>3. \/ LatestBy(db.overrides, v, t, NoReview) = NoReview
        \/ \E d \in db.overrides : LatestBy(db.overrides, v, t, NoReview) = d
    BY <2>1, <2>2, LatestIsMade
  <2> QED
    BY <2>2, <2>3 DEF OverrideOf, NoReview
<1>4. /\ ClaimStatus(basis, review, override) \in {"rejected", "accepted", "unreviewed"}
      /\ ClaimStatus(basis, review, override) = "accepted" =>
           review.decision = "accept" /\ \E e \in basis : e.grade = "official"
  <2> HIDE DEF basis, review, override
  <2> QED
    BY DEF ClaimStatus
<1>5. c = [value |-> v, basis |-> basis, status |-> ClaimStatus(basis, review, override),
           override |-> override, reviewed |-> review.at]
  BY DEF Claim
<1> HIDE DEF c, basis, review, override
<1>6. c \in Claims
  BY <1>1, <1>2, <1>3, <1>4, <1>5 DEF Claims
<1>7. Sound(c, v, t)
  BY <1>1, <1>2, <1>4, <1>5, <1>6 DEF Sound
<1> QED
  BY <1>7 DEF c

-----------------------------------------------------------------------------
(***************************************************************************)
(* What a rebuild is about to write                                        *)
(***************************************************************************)

\* The candidates of a rebuild are sound, one for each value, and finitely many.
LEMMA CandidatesAreSound ==
  ASSUME TypeInv, NEW k \in Resolvers, asOf[k] # None, NEW missing
  PROVE  /\ \A c \in Candidates(k, missing) : Sound(c, c.value, asOf[k])
         /\ \A c, d \in Candidates(k, missing) : c.value = d.value => c = d
         /\ IsFiniteSet(Candidates(k, missing))
<1> DEFINE C == Candidates(k, missing)
           t == asOf[k]
<1>1. ASSUME NEW v \in Asserted(view[k], t)
      PROVE  Sound(Candidate(k, missing, v), v, t)
  <2>1. /\ t \in Times /\ view[k].evidence \subseteq evidence
        /\ view[k].overrides \subseteq overrides /\ view[k].reviews \subseteq reviews
    BY DEF TypeInv, ViewInv
  <2>2. Db.reviews = reviews
    BY DEF Db
  <2>3. CASE BeforeWrite(missing, v)
    <3>1. Candidate(k, missing, v) = Claim(view[k], view[k], t, v)
      BY <2>3 DEF Candidate
    <3> QED
      BY <2>1, <3>1, ClaimIsSound
  <2>4. CASE ~BeforeWrite(missing, v)
    <3>1. Candidate(k, missing, v) = Claim(view[k], Db, t, v)
      BY <2>4 DEF Candidate
    <3>2. Db.reviews \subseteq reviews
      BY <2>2
    <3> QED
      BY <2>1, <3>1, <3>2, ClaimIsSound
  <2> QED
    BY <2>3, <2>4
<1>2. \A c \in C : \E v \in Asserted(view[k], t) :
        c = Candidate(k, missing, v) /\ c.value = v /\ Sound(c, v, t)
  BY <1>1 DEF Candidates, Sound
<1>3. \A c, d \in C : c.value = d.value => c = d
  BY <1>2
<1>4. \A c \in C : c.value \in Values
  BY <1>2 DEF Asserted
<1>5. IsFiniteSet(C)
  <2> DEFINE f == [c \in C |-> c.value]
  <2>1. f \in Injection(C, Values)
    BY <1>3, <1>4 DEF Injection, IsInjective
  <2> HIDE DEF f, C
  <2> QED
    BY <2>1, FS_Injection, NumbersAssumption DEF NumbersAssumption
<1> QED
  BY <1>2, <1>3, <1>5

\* Two or more claims stand, or at most one.
LEMMA ContestedOrNot ==
  ASSUME NEW C, IsFiniteSet(C)
  PROVE  /\ IsFiniteSet(Standing(C)) /\ IsFiniteSet(Selected(C))
         /\ Cardinality(Standing(C)) \in Nat /\ Cardinality(Selected(C)) \in Nat
         /\ Contested(C) <=> ~ Cardinality(Standing(C)) < 2
         /\ Selected(C) \subseteq Standing(C) /\ Standing(C) \subseteq C
<1>1. Standing(C) \subseteq C /\ Selected(C) \subseteq Standing(C)
  BY DEF Standing, Selected
<1>2. IsFiniteSet(Standing(C)) /\ IsFiniteSet(Selected(C))
  BY <1>1, FS_Subset
<1>3. Cardinality(Standing(C)) \in Nat /\ Cardinality(Selected(C)) \in Nat
  BY <1>2, FS_CardinalityType
<1> QED
  BY <1>1, <1>2, <1>3 DEF Contested

Justified(r) ==
  r.verdict.tier = "lookup_usable" =>
    \/ Selected(r.candidates) = {r.primary}
    \/ /\ Standing(r.candidates) = {r.primary}
       /\ \/ \A e \in r.primary.basis : e.type = "entity_control" /\ e.grade = "provider"
          \/ /\ r.primary.reviewed > 0
             /\ \E e \in r.primary.basis : e.grade = "official"

\* The verdict that is drawn from sound candidates justifies its winner.
LEMMA VerdictIsJustified ==
  ASSUME TypeInv, NEW k \in Resolvers, NEW C, NEW named, IsFiniteSet(C),
         \A c \in C : Sound(c, c.value, asOf[k]),
         named = 0 => Cardinality(Standing(C)) < 2
  PROVE  Justified(Resolution(k, C, named))
<1> DEFINE V == Verdict(view[k], asOf[k], C, named)
<1>1. /\ Resolution(k, C, named).verdict = V
      /\ Resolution(k, C, named).candidates = C
      /\ Resolution(k, C, named).primary = Primary(C, V)
  BY DEF Resolution
<1> SUFFICES ASSUME V.tier = "lookup_usable"
             PROVE  \/ Selected(C) = {Primary(C, V)}
                    \/ /\ Standing(C) = {Primary(C, V)}
                       /\ \/ \A e \in Primary(C, V).basis : e.type = "entity_control" /\ e.grade = "provider"
                          \/ /\ Primary(C, V).reviewed > 0
                             /\ \E e \in Primary(C, V).basis : e.grade = "official"
  BY <1>1 DEF Justified
<1>2. Standing(C) # {}
  <2> SUFFICES ASSUME Standing(C) = {} PROVE FALSE
    OBVIOUS
  <2>1. Selected(C) = {}
    BY ContestedOrNot
  <2>2. Cardinality(Selected(C)) = 0
    BY <2>1, FS_EmptySet
  <2>3. V.tier = "none"
    BY <2>2 DEF Verdict
  <2> QED
    BY <2>3
<1>3. CASE Cardinality(Selected(C)) = 1
  <2>1. V.state = "resolved" /\ V.policy = "local_override"
    BY <1>2, <1>3 DEF Verdict
  <2>2. PICK c : Selected(C) = {c}
    BY <1>3, ContestedOrNot, FS_Singleton
  <2>3. Primary(C, V) = c
    BY <2>1, <2>2 DEF Primary
  <2> QED
    BY <2>2, <2>3
<1>4. CASE Cardinality(Selected(C)) # 1
  <2>1. named = 0
    BY <1>2, <1>4 DEF Verdict
  <2>2. Cardinality(Standing(C)) = 1
    BY <1>2, <2>1, ContestedOrNot, FS_EmptySet
  <2>3. PICK c : Standing(C) = {c}
    BY <2>2, ContestedOrNot, FS_Singleton
  <2>4. (CHOOSE d \in Standing(C) : TRUE) = c
    BY <2>3
  <2>5. /\ V.state = "resolved" /\ V.policy # "local_override"
        /\ c.status = "accepted" \/ IsProviderDefault(c)
    BY <1>2, <1>4, <2>1, <2>4, ContestedOrNot DEF Verdict
  <2>6. Primary(C, V) = c
    BY <2>4, <2>5 DEF Primary
  <2>7. c \in C
    BY <2>3, ContestedOrNot
  <2> QED
    BY <2>3, <2>5, <2>6, <2>7 DEF Sound, IsProviderDefault
<1> QED
  BY <1>3, <1>4

\* The index of an active conflict set, or zero.
LEMMA ActiveConflictIsThere ==
  ASSUME NEW sets \in Seq(ConflictSets)
  PROVE  ActiveConflict(sets) \in 0..Len(sets)
<1>1. Len(sets) \in Nat /\ DOMAIN sets = 1..Len(sets)
  BY LenProperties
<1>2. ActiveConflict(sets) = 0 \/ ActiveConflict(sets) \in DOMAIN sets
  BY DEF ActiveConflict
<1> QED
  BY <1>1, <1>2

\* A conflict set keeps its members and its place, and never opens again.
Grown(old, new) ==
  /\ Len(old) <= Len(new)
  /\ \A i \in DOMAIN old :
       /\ old[i].members \subseteq new[i].members
       /\ old[i].status = "resolved" => new[i].status = "resolved"

\* The conflict set a resolution names holds the claims that stand.
Traced(C, named, sets) ==
  IF Cardinality(Standing(C)) < 2 THEN named = 0
  ELSE named \in 1..Len(sets) /\ Standing(C) \subseteq sets[named].members

\* Whatever the rebuild found, the sets only grow, by the one it names.
LEMMA ConflictsGrow ==
  ASSUME TypeInv, NEW C \in SUBSET Claims, IsFiniteSet(C), NEW found \in 0..Len(conflicts)
  PROVE  LET named == NamedConflict(C, found)
             new   == NewConflicts(C, found)
         IN  /\ new \in Seq(ConflictSets)
             /\ Grown(conflicts, new)
             /\ Traced(C, named, new)
             /\ \A i \in DOMAIN new \ DOMAIN conflicts : i = named
<1> DEFINE named == NamedConflict(C, found)
           new   == NewConflicts(C, found)
           n     == Len(conflicts)
<1>1. /\ conflicts \in Seq(ConflictSets) /\ n \in Nat
      /\ DOMAIN conflicts = 1..n /\ \A i \in 1..n : conflicts[i] \in ConflictSets
  BY LenProperties, ElementOfSeq DEF TypeInv
<1>2. Standing(C) \in SUBSET Claims
  BY DEF Standing
<1>3. CASE ~Contested(C) /\ found # 0
  <2> DEFINE e == [conflicts[found] EXCEPT !.status = "resolved"]
  <2>1. found \in 1..n /\ e \in ConflictSets
    BY <1>1, <1>3 DEF ConflictSets
  <2>2. new = [conflicts EXCEPT ![found] = e] /\ named = 0
    BY <1>3 DEF NewConflicts, NamedConflict
  <2>3. /\ new \in Seq(ConflictSets) /\ Len(new) = n
        /\ \A i \in 1..n : new[i] = IF i = found THEN e ELSE conflicts[i]
    <3> HIDE DEF new, e
    <3> QED
      BY <1>1, <2>1, <2>2, ExceptSeq
  <2>4. e.members = conflicts[found].members /\ e.status = "resolved"
    BY <1>1, <2>1 DEF ConflictSets
  <2>5. DOMAIN new = 1..n
    BY <2>3, LenProperties
  <2> HIDE DEF new, named, e
  <2>6. Grown(conflicts, new)
    BY <1>1, <2>3, <2>4 DEF Grown
  <2>7. Traced(C, named, new)
    BY <1>3, <2>2, ContestedOrNot DEF Traced
  <2> QED
    BY <1>1, <2>3, <2>5, <2>6, <2>7 DEF new, named
<1>4. CASE Contested(C) /\ found = 0
  <2> DEFINE e == [status |-> "active", members |-> Standing(C)]
  <2>1. e \in ConflictSets
    BY <1>2 DEF ConflictSets
  <2>2. new = Append(conflicts, e) /\ named = n + 1
    BY <1>4 DEF NewConflicts, NamedConflict
  <2>3. /\ new \in Seq(ConflictSets) /\ Len(new) = n + 1
        /\ new[n + 1] = e /\ \A i \in 1..n : new[i] = conflicts[i]
    <3> HIDE DEF new, e
    <3> QED
      BY <1>1, <2>1, <2>2, AppendProperties
  <2>4. e.members = Standing(C)
    OBVIOUS
  <2>5. DOMAIN new = 1..(n + 1)
    BY <2>3, LenProperties
  <2> HIDE DEF new, named, e
  <2>6. Grown(conflicts, new)
    BY <1>1, <2>3 DEF Grown
  <2>7. Traced(C, named, new)
    BY <1>1, <1>4, <2>2, <2>3, <2>4, ContestedOrNot DEF Traced
  <2> QED
    BY <1>1, <2>2, <2>3, <2>5, <2>6, <2>7 DEF new, named
<1>5. CASE Contested(C) /\ found # 0
  <2> DEFINE e == [conflicts[found] EXCEPT !.members = @ \cup Standing(C)]
  <2>1. found \in 1..n /\ e \in ConflictSets
    BY <1>1, <1>2, <1>5 DEF ConflictSets
  <2>2. new = [conflicts EXCEPT ![found] = e] /\ named = found
    BY <1>5 DEF NewConflicts, NamedConflict
  <2>3. /\ new \in Seq(ConflictSets) /\ Len(new) = n
        /\ \A i \in 1..n : new[i] = IF i = found THEN e ELSE conflicts[i]
    <3> HIDE DEF new, e
    <3> QED
      BY <1>1, <2>1, <2>2, ExceptSeq
  <2>4. /\ e.members = conflicts[found].members \cup Standing(C)
        /\ e.status = conflicts[found].status
    BY <1>1, <2>1 DEF ConflictSets
  <2>5. DOMAIN new = 1..n
    BY <2>3, LenProperties
  <2> HIDE DEF new, named, e
  <2>6. Grown(conflicts, new)
    BY <1>1, <2>3, <2>4 DEF Grown
  <2>7. Traced(C, named, new)
    BY <1>1, <1>5, <2>1, <2>2, <2>3, <2>4, ContestedOrNot DEF Traced
  <2> QED
    BY <1>1, <2>3, <2>5, <2>6, <2>7 DEF new, named
<1>6. CASE ~Contested(C) /\ found = 0
  <2>1. new = conflicts /\ named = 0
    BY <1>6 DEF NewConflicts, NamedConflict
  <2> HIDE DEF new, named
  <2>2. Grown(conflicts, new)
    BY <1>1, <2>1 DEF Grown
  <2>3. Traced(C, named, new)
    BY <1>6, <2>1, ContestedOrNot DEF Traced
  <2> QED
    BY <1>1, <2>1, <2>2, <2>3 DEF new, named
<1> QED
  BY <1>3, <1>4, <1>5, <1>6

-----------------------------------------------------------------------------
(***************************************************************************)
(* The inductive invariant                                                 *)
(***************************************************************************)

ResolutionInv(r) ==
  /\ r.version \in Times
  /\ IsFiniteSet(r.candidates)
  /\ \A c \in r.candidates : Sound(c, c.value, r.version)
  /\ \A c, d \in r.candidates : c.value = d.value => c = d
  /\ Justified(r)
  /\ Traced(r.candidates, r.conflict, conflicts)

\* A revision was made by the rebuild that made the resolution of its as_of,
\* and is one of its candidates.
ResolverInv ==
  /\ TypeInv
  /\ \A r \in resolutions : ResolutionInv(r)
  /\ \A r, q \in resolutions : r.version = q.version => r = q
  /\ \A x \in claims : \E r \in resolutions :
       r.version = x.created /\ x.claim \in r.candidates
  /\ OneRevisionPerAsOf
  /\ \A i \in DOMAIN conflicts : \E r \in resolutions : r.conflict = i

\* Nothing has been written.
LEMMA InvInit == Init => ResolverInv
<1> SUFFICES ASSUME Init PROVE ResolverInv
  OBVIOUS
<1>1. conflicts = <<>> /\ conflicts \in Seq(ConflictSets) /\ DOMAIN conflicts = {}
  BY EmptySeq DEF Init
<1> QED
  BY <1>1, FS_EmptySet DEF Init, ResolverInv, TypeInv, ViewInv, OneRevisionPerAsOf

\* Evidence, decisions, readings and roll-backs write none of the tables that
\* a rebuild writes.
LEMMA UnwrittenIsKept ==
  ASSUME ResolverInv, TypeInv', evidence \subseteq evidence',
         UNCHANGED <<claims, conflicts, resolutions>>
  PROVE  ResolverInv'
<1>1. \A r \in resolutions : ResolutionInv(r)'
  <2> SUFFICES ASSUME NEW r \in resolutions PROVE ResolutionInv(r)'
    OBVIOUS
  <2>1. ResolutionInv(r)
    BY DEF ResolverInv
  <2>2. ASSUME NEW c, NEW v, NEW t, Sound(c, v, t) PROVE Sound(c, v, t)'
    BY <2>2 DEF Sound
  <2> QED
    BY <2>1, <2>2 DEF ResolutionInv
<1> QED
  BY <1>1 DEF ResolverInv, OneRevisionPerAsOf

\* A table that grows by one decision stays finite.
LEMMA DecisionsStayFinite ==
  ASSUME NEW S, NEW d, IsFiniteSet(S)
  PROVE  IsFiniteSet(S \cup {d})
BY FS_AddElement

\* What rebuilds do not write.
LEMMA OtherStep ==
  ASSUME ResolverInv,
         \/ \E batch \in SUBSET Rows : ImportEvidence(batch)
         \/ \E v \in Values, t \in Times :
              \/ \E decision \in {"accept", "reject"} : RecordReview(v, decision, t)
              \/ \E decision \in {"select", "reject"} : RecordOverride(v, decision, t)
         \/ \E k \in Resolvers : (\E t \in Times : ReadTables(k, t)) \/ RollBack(k)
         \/ UNCHANGED vars
  PROVE  ResolverInv'
<1> USE DEF TypeInv, ViewInv
<1>0. TypeInv
  BY DEF ResolverInv
<1>1. ASSUME NEW batch \in SUBSET Rows, ImportEvidence(batch) PROVE ResolverInv'
  <2>1. TypeInv'
    BY <1>0, <1>1 DEF ImportEvidence
  <2> QED
    BY <1>1, <2>1, UnwrittenIsKept DEF ImportEvidence
<1>2. ASSUME NEW v \in Values, NEW t \in Times, NEW decision \in {"accept", "reject"},
             RecordReview(v, decision, t)
      PROVE  ResolverInv'
  <2>1. [value |-> v, decision |-> decision, at |-> t] \in Reviews
    BY DEF Reviews
  <2>2. IsFiniteSet(reviews')
    BY <1>0, <1>2, DecisionsStayFinite DEF RecordReview
  <2>3. TypeInv'
    BY <1>0, <1>2, <2>1, <2>2 DEF RecordReview
  <2> QED
    BY <1>2, <2>3, UnwrittenIsKept DEF RecordReview
<1>3. ASSUME NEW v \in Values, NEW t \in Times, NEW decision \in {"select", "reject"},
             RecordOverride(v, decision, t)
      PROVE  ResolverInv'
  <2>1. [value |-> v, decision |-> decision, at |-> t] \in Overrides
    BY DEF Overrides
  <2>2. IsFiniteSet(overrides')
    BY <1>0, <1>3, DecisionsStayFinite DEF RecordOverride
  <2>3. TypeInv'
    BY <1>0, <1>3, <2>1, <2>2 DEF RecordOverride
  <2> QED
    BY <1>3, <2>3, UnwrittenIsKept DEF RecordOverride
<1>4. ASSUME NEW k \in Resolvers, NEW t \in Times, ReadTables(k, t) PROVE ResolverInv'
  <2>1. /\ asOf' = [asOf EXCEPT ![k] = t] /\ view' = [view EXCEPT ![k] = Db]
        /\ UNCHANGED tables
    BY <1>4 DEF ReadTables
  <2>2. ViewInv(k)'
    BY <1>0, <2>1, LenProperties DEF Db, tables
  <2>3. \A q \in Resolvers \ {k} : ViewInv(q)'
    BY <1>0, <2>1 DEF tables
  <2>4. TypeInv'
    <3> USE DEF tables
    <3> HIDE DEF ViewInv
    <3> QED
      BY <1>0, <2>1, <2>2, <2>3
  <2> QED
    BY <2>1, <2>4, UnwrittenIsKept DEF tables
<1>5. ASSUME NEW k \in Resolvers, RollBack(k) PROVE ResolverInv'
  <2>1. TypeInv'
    BY <1>0, <1>5, NoneAssumption DEF RollBack, Forget, tables, NoneAssumption
  <2> QED
    BY <1>5, <2>1, UnwrittenIsKept DEF RollBack, tables
<1>6. ASSUME UNCHANGED vars PROVE ResolverInv'
  <2>1. TypeInv'
    BY <1>0, <1>6 DEF vars, tables
  <2> QED
    BY <1>6, <2>1, UnwrittenIsKept DEF vars, tables
<1> QED
  BY <1>1, <1>2, <1>3, <1>4, <1>5, <1>6

\* What the transaction of a rebuild writes, and the names of its parts.
Writes(k, C, found, new) ==
  /\ claims' = claims \cup new
  /\ conflicts' = NewConflicts(C, found)
  /\ resolutions' = resolutions \cup {Resolution(k, C, NamedConflict(C, found))}
  /\ ~VersionClash(Resolution(k, C, NamedConflict(C, found)))
  /\ \A x \in new : x.created = asOf[k] /\ x.claim \in C \ Fingerprints(claims)
  /\ \A x, y \in new : x.claim = y.claim => x = y

\* A commit writes what it found missing, by its own view.
LEMMA CommitWrites ==
  ASSUME ResolverInv, NEW k \in Resolvers, CommitRebuild(k)
  PROVE  \E missing : \E new : \E found \in 0..Len(conflicts) :
           Writes(k, Candidates(k, missing), found, new)
<1> DEFINE missing == Missing(k)
           C       == Candidates(k, missing)
           found   == FoundConflict(k, missing)
           new     == NewClaims(k, missing, C)
<1>1. asOf[k] # None /\ TypeInv /\ ViewInv(k)
  BY DEF CommitRebuild, ResolverInv, TypeInv
<1>2. found \in 0..Len(conflicts)
  <2>1. /\ conflicts \in Seq(ConflictSets) /\ view[k].conflicts \in Seq(ConflictSets)
        /\ Len(view[k].conflicts) <= Len(conflicts)
        /\ Len(view[k].conflicts) \in Nat /\ Len(conflicts) \in Nat
    BY <1>1, LenProperties DEF TypeInv, ViewInv
  <2>2. found = ActiveConflict(view[k].conflicts) \/ found = ActiveConflict(conflicts)
    BY DEF FoundConflict
  <2>3. /\ ActiveConflict(view[k].conflicts) \in 0..Len(view[k].conflicts)
        /\ ActiveConflict(conflicts) \in 0..Len(conflicts)
    BY <2>1, ActiveConflictIsThere
  <2> HIDE DEF found
  <2> QED
    BY <2>1, <2>2, <2>3
<1>3. /\ \A x \in new : x.created = asOf[k] /\ x.claim \in C \ Fingerprints(claims)
      /\ \A x, y \in new : x.claim = y.claim => x = y
  <2> HIDE DEF C, missing
  <2> QED
    BY DEF NewClaims
<1>4. Writes(k, C, found, new)
  <2>1. /\ claims' = claims \cup new
        /\ conflicts' = NewConflicts(C, found)
        /\ resolutions' = resolutions \cup {Resolution(k, C, NamedConflict(C, found))}
        /\ ~VersionClash(Resolution(k, C, NamedConflict(C, found)))
    BY DEF CommitRebuild
  <2> HIDE DEF new, found, C, missing
  <2> QED
    BY <1>3, <2>1 DEF Writes
<1> HIDE DEF new, found, C
<1>5. \E f \in 0..Len(conflicts) : Writes(k, C, f, new)
  BY <1>2, <1>4
<1> HIDE DEF missing
<1> QED
  BY <1>5 DEF C

\* What a step may never do to the history.
History ==
  /\ claims \subseteq claims' /\ resolutions \subseteq resolutions'
  /\ \A r, q \in resolutions' : r.version = q.version => r = q
  /\ \A i \in DOMAIN conflicts :
       /\ conflicts[i].members \subseteq conflicts'[i].members
       /\ conflicts[i].status = "resolved" => conflicts'[i].status = "resolved"

\* A rebuild that commits: the new resolution is the only one of its version,
\* so a new revision is the only one of its value and as_of.
LEMMA CommitStep ==
  ASSUME ResolverInv, NEW k \in Resolvers, CommitRebuild(k)
  PROVE  ResolverInv' /\ History
<1>1. PICK missing, new : \E found \in 0..Len(conflicts) :
        Writes(k, Candidates(k, missing), found, new)
  BY CommitWrites
<1>2. PICK found \in 0..Len(conflicts) : Writes(k, Candidates(k, missing), found, new)
  BY <1>1
<1> DEFINE C     == Candidates(k, missing)
           named == NamedConflict(C, found)
           res   == Resolution(k, C, named)
<1>3. /\ TypeInv /\ ViewInv(k) /\ asOf[k] # None /\ asOf[k] \in Times
      /\ UNCHANGED <<evidence, reviews, overrides>>
      /\ asOf' = [asOf EXCEPT ![k] = None] /\ view' = [view EXCEPT ![k] = None]
  BY DEF CommitRebuild, Forget, ResolverInv, TypeInv, ViewInv
<1>4. /\ \A c \in C : Sound(c, c.value, asOf[k])
      /\ \A c, d \in C : c.value = d.value => c = d
      /\ IsFiniteSet(C)
  BY <1>3, CandidatesAreSound
<1>5. C \in SUBSET Claims
  BY <1>4 DEF Sound
<1>6. /\ conflicts' \in Seq(ConflictSets) /\ Grown(conflicts, conflicts')
      /\ Traced(C, named, conflicts')
      /\ \A i \in DOMAIN conflicts' \ DOMAIN conflicts : i = named
  <2> HIDE DEF C
  <2> QED
    BY <1>2, <1>3, <1>4, <1>5, ConflictsGrow DEF Writes, C
<1>7. /\ res.version = asOf[k] /\ res.candidates = C /\ res.conflict = named
      /\ Justified(res)
  <2>1. named = 0 => Cardinality(Standing(C)) < 2
    <3>1. Len(conflicts') \in Nat
      BY <1>6, LenProperties
    <3> HIDE DEF C, named
    <3> QED
      BY <1>6, <3>1 DEF Traced
  <2>2. Justified(res)
    <3> HIDE DEF C, named
    <3> QED
      BY <1>3, <1>4, <2>1, VerdictIsJustified
  <2> QED
    BY <2>2 DEF Resolution
<1>8. /\ claims' = claims \cup new
      /\ resolutions' = resolutions \cup {res}
      /\ ~VersionClash(res)
      /\ \A x \in new : x.created = asOf[k] /\ x.claim \in C \ Fingerprints(claims)
      /\ \A x, y \in new : x.claim = y.claim => x = y
  BY <1>2 DEF Writes
<1> HIDE DEF C, named, res
<1>9. TypeInv'
  <2>1. \A q \in Resolvers \ {k} : ViewInv(q)'
    BY <1>3, <1>6, <1>8, LenProperties DEF TypeInv, ViewInv, Grown
  <2>2. ViewInv(k)'
    BY <1>3 DEF ViewInv, TypeInv
  <2> QED
    BY <1>3, <1>6, <2>1, <2>2 DEF TypeInv
<1>10. \A r, q \in resolutions' : r.version = q.version => r = q
  BY <1>8 DEF ResolverInv, VersionClash
<1>11. \A r \in resolutions' : ResolutionInv(r)'
  <2>1. ASSUME NEW c, NEW v, NEW t, Sound(c, v, t) PROVE Sound(c, v, t)'
    BY <1>3, <2>1 DEF Sound
  <2>0. ASSUME NEW r, Justified(r), Traced(r.candidates, r.conflict, conflicts')
        PROVE  Justified(r)' /\ Traced(r.candidates, r.conflict, conflicts)'
    BY <2>0 DEF Justified, Traced, Standing, Selected
  <2>2. ASSUME NEW r \in resolutions PROVE ResolutionInv(r)'
    <3>1. ResolutionInv(r)
      BY DEF ResolverInv
    <3>2. Traced(r.candidates, r.conflict, conflicts')
      <4>1. /\ Len(conflicts) \in Nat /\ Len(conflicts') \in Nat
            /\ DOMAIN conflicts = 1..Len(conflicts)
        BY <1>3, <1>6, LenProperties DEF TypeInv
      <4> QED
        BY <1>6, <3>1, <4>1 DEF ResolutionInv, Traced, Grown
    <3> QED
      BY <2>0, <2>1, <3>1, <3>2 DEF ResolutionInv
  <2>3. ASSUME NEW r, r = res PROVE ResolutionInv(r)'
    <3>1. /\ r.version = asOf[k] /\ r.candidates = C /\ r.conflict = named
          /\ Justified(r) /\ Traced(r.candidates, r.conflict, conflicts')
      BY <1>6, <1>7, <2>3
    <3>2. \A c \in r.candidates : Sound(c, c.value, r.version)'
      BY <1>4, <2>1, <3>1
    <3> QED
      BY <1>3, <1>4, <2>0, <3>1, <3>2 DEF ResolutionInv
  <2> QED
    BY <1>8, <2>2, <2>3
<1>12. \A x \in claims' : \E r \in resolutions' :
         r.version = x.created /\ x.claim \in r.candidates
  BY <1>7, <1>8 DEF ResolverInv
<1>13. OneRevisionPerAsOf'
  <2> SUFFICES ASSUME NEW a \in claims', NEW b \in claims',
                      a.created = b.created, a.claim.value = b.claim.value
               PROVE  a = b
    BY DEF OneRevisionPerAsOf
  <2>1. ASSUME NEW x \in new, NEW y \in claims,
               x.created = y.created, x.claim.value = y.claim.value
        PROVE  FALSE
    <3>1. PICK r \in resolutions : r.version = y.created /\ y.claim \in r.candidates
      BY DEF ResolverInv
    <3>2. r = res
      BY <1>7, <1>8, <2>1, <3>1 DEF VersionClash, ResolverInv
    <3>3. y.claim \in C /\ x.claim \in C
      BY <1>7, <1>8, <3>1, <3>2
    <3>4. x.claim = y.claim
      BY <1>4, <2>1, <3>3
    <3> QED
      BY <1>8, <3>4 DEF Fingerprints
  <2>2. ASSUME NEW x \in new, NEW y \in new, x.claim.value = y.claim.value PROVE x = y
    BY <1>4, <1>8, <2>2
  <2>3. CASE a \in claims /\ b \in claims
    BY <2>3 DEF ResolverInv, OneRevisionPerAsOf
  <2> QED
    BY <1>8, <2>1, <2>2, <2>3
<1>14. \A i \in DOMAIN conflicts' : \E r \in resolutions' : r.conflict = i
  BY <1>6, <1>7, <1>8 DEF ResolverInv
<1>15. ResolverInv'
  BY <1>9, <1>10, <1>11, <1>12, <1>13, <1>14 DEF ResolverInv
<1>16. History
  BY <1>6, <1>8, <1>10 DEF History, Grown
<1> QED
  BY <1>15, <1>16

\* Every step keeps the invariant and the history.
LEMMA InvStep == ResolverInv /\ [Next]_vars => ResolverInv' /\ History
<1> SUFFICES ASSUME ResolverInv, [Next]_vars PROVE ResolverInv' /\ History
  OBVIOUS
<1>1. CASE \E k \in Resolvers : CommitRebuild(k)
  BY <1>1, CommitStep
<1>2. CASE ~ \E k \in Resolvers : CommitRebuild(k)
  <2>1. \/ \E batch \in SUBSET Rows : ImportEvidence(batch)
        \/ \E v \in Values, t \in Times :
             \/ \E decision \in {"accept", "reject"} : RecordReview(v, decision, t)
             \/ \E decision \in {"select", "reject"} : RecordOverride(v, decision, t)
        \/ \E k \in Resolvers : (\E t \in Times : ReadTables(k, t)) \/ RollBack(k)
        \/ UNCHANGED vars
    BY <1>2 DEF Next
  <2>2. ResolverInv'
    BY <2>1, OtherStep
  <2>3. UNCHANGED <<claims, conflicts, resolutions>>
    BY <2>1 DEF ImportEvidence, RecordReview, RecordOverride, ReadTables, RollBack, tables, vars
  <2>4. History
    BY <2>3 DEF History, ResolverInv
  <2> QED
    BY <2>2, <2>4
<1> QED
  BY <1>1, <1>2

\* The invariant holds in every reachable state.
LEMMA InvHolds == Spec => []ResolverInv
<1> QED
  BY InvInit, InvStep, PTL DEF Spec

-----------------------------------------------------------------------------
(***************************************************************************)
(* Theorems                                                                *)
(***************************************************************************)

\* No source wins by rank, whatever the type of the assertion: a usable one was
\* selected by an operator, or is the only one standing, by reviewed official
\* evidence, or by the provider's alone when it is about who controls the address.
THEOREM WinnersJustified == Spec => []WinnersAreJustified
<1>1. ResolverInv => WinnersAreJustified
  BY DEF ResolverInv, ResolutionInv, Justified, WinnersAreJustified
<1> QED
  BY <1>1, InvHolds, PTL

\* A resolution rests on evidence and reviews that were known at its version,
\* in whatever order versions are rebuilt.
THEOREM PointInTimeHolds == Spec => []PointInTime
<1>1. ResolverInv => PointInTime
  BY DEF ResolverInv, ResolutionInv, TypeInv, Sound, PointInTime
<1> QED
  BY <1>1, InvHolds, PTL

\* No value has two revisions of one as_of.
THEOREM OneRevision == Spec => []OneRevisionPerAsOf
<1>1. ResolverInv => OneRevisionPerAsOf
  BY DEF ResolverInv
<1> QED
  BY <1>1, InvHolds, PTL

\* Claims that stand against one another are in the conflict set their
\* resolution names, and each conflict set has such a resolution.
THEOREM ConflictsTraceable == Spec => []ConflictsAreTraceable
<1>1. ResolverInv => ConflictsAreTraceable
  <2> SUFFICES ASSUME ResolverInv, NEW r \in resolutions
               PROVE  IF Cardinality(Standing(r.candidates)) < 2 THEN r.conflict = 0
                      ELSE /\ r.conflict # 0
                           /\ Standing(r.candidates) \subseteq conflicts[r.conflict].members
    BY DEF ResolverInv, ConflictsAreTraceable
  <2>1. Traced(r.candidates, r.conflict, conflicts) /\ Len(conflicts) \in Nat
    BY LenProperties DEF ResolverInv, ResolutionInv, TypeInv
  <2> QED
    BY <2>1 DEF Traced
<1> QED
  BY <1>1, InvHolds, PTL

\* Rebuilds never overwrite: claims, resolutions and members of conflicts stay,
\* a version has one resolution and a resolved conflict is never reopened.
THEOREM HistoryIsKept == Spec => HistoryKept
<1>1. ResolverInv /\ [Next]_vars => [History]_vars
  BY InvStep
<1>2. Spec => [][History]_vars
  BY <1>1, InvHolds, PTL DEF Spec
<1> QED
  BY <1>2 DEF HistoryKept, History
=============================================================================
