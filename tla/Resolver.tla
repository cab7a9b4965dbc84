------------------------------ MODULE Resolver ------------------------------
(***************************************************************************)
(* The evidence ledger and the resolver over it: EvidenceService, and      *)
(* ResolverService with its reviews, local overrides and rebuild.  Rebuild *)
(* turns the evidence known at a point in time into claims, a conflict set *)
(* and a resolution of that version.                                       *)
(*                                                                         *)
(* The module is about one address and one type of assertion, which the    *)
(* first row to arrive decides: the resolver relates no two of them,       *)
(* except that they share a transaction, but a provider's word counts for  *)
(* one type only.                                                          *)
(*                                                                         *)
(* Rebuild runs in `with connection`: SQLite begins the transaction at the *)
(* first write, and what is read before is read in autocommit.             *)
(***************************************************************************)
EXTENDS Integers, FiniteSets, Sequences, FiniteSetsExt

CONSTANTS
  Rows,         \* evidence rows that may arrive
  Unproved,     \* those of Tier A whose verifier does not say valid
  Values,       \* canonical asserted values, as numbers: they are sorted
  Times,        \* instants: of observation, of review, of a rebuild's as_of
  Resolvers,    \* processes that rebuild
  MaxDecisions, \* bound: reviews and overrides recorded
  None

AssertionTypes ==
  {"entity_control", "address_label", "address_kind", "wallet_role", "relationship"}

\* A row asserts a value of its type, was observed at an instant and is in force in an
\* interval (empty for a row that is not "valid").  "official" is Tier A or
\* B, "provider" commercial Tier C, "public" any other; a tag is one of the
\* many a commercial provider may give, with a provider_tag_id.
Grades == {"official", "provider", "public"}
ASSUME RowsAssumption ==
  /\ Rows \subseteq [type: AssertionTypes, value: Values, grade: Grades, tag: BOOLEAN,
                     at: Times, from: Nat, until: Nat]
  /\ Unproved \subseteq { e \in Rows : e.grade = "official" }
ASSUME NumbersAssumption ==
  /\ Values \subseteq Nat /\ Times \subseteq Nat \ {0}
  /\ IsFiniteSet(Values) /\ IsFiniteSet(Times) /\ IsFiniteSet(Rows)
  /\ MaxDecisions \in Nat
ASSUME NoneAssumption == None \notin Times

VARIABLES
  evidence,    \* identity_evidence
  reviews,     \* claim_review
  overrides,   \* resolver_local_override
  claims,      \* identity_claim
  conflicts,   \* conflict_set, in the order of creation, with its members
  resolutions, \* identity_resolution
  \* the memory of each rebuild
  asOf, view

tables == <<evidence, reviews, overrides, claims, conflicts, resolutions>>
vars   == <<tables, asOf, view>>

NoReview == [decision |-> "none", at |-> 0]
Reviews   == [value: Values, decision: {"accept", "reject"}, at: Times]
Overrides == [value: Values, decision: {"select", "reject"}, at: Times]

\* What makes a claim's fingerprint.
Claims == [value: Values, basis: SUBSET Rows,
           status: {"rejected", "accepted", "unreviewed"},
           override: {"select", "reject", "none"}, reviewed: Times \cup {0}]
Revisions == [claim: Claims, created: Times, supersedes: Claims \cup {None}]

Verdicts == [state: {"resolved", "ambiguous", "stale", "unattributed"},
             tier: {"lookup_usable", "lookup_only", "discovery_only", "none"},
             policy: {"local_override", "conflict_first", "reviewed_evidence",
                      "provider_default", "unreviewed_evidence", "unattributed"}]
Resolutions == [version: Times, candidates: SUBSET Claims, primary: Claims \cup {None},
                conflict: Nat, verdict: Verdicts]

Db == [evidence |-> evidence, reviews |-> reviews, overrides |-> overrides,
       claims |-> claims, conflicts |-> conflicts]

TypeOK ==
  /\ evidence \subseteq Rows
  /\ reviews \subseteq Reviews
  /\ overrides \subseteq Overrides
  /\ claims \subseteq Revisions
  /\ \A i \in DOMAIN conflicts :
       conflicts[i].status \in {"active", "resolved"} /\ conflicts[i].members \subseteq Claims
  /\ resolutions \subseteq Resolutions
  /\ asOf \in [Resolvers -> Times \cup {None}]
  /\ \A k \in Resolvers : asOf[k] # None => view[k].evidence \subseteq evidence

Init ==
  /\ evidence = {} /\ reviews = {} /\ overrides = {}
  /\ claims = {} /\ conflicts = <<>> /\ resolutions = {}
  /\ asOf = [k \in Resolvers |-> None]
  /\ view = [k \in Resolvers |-> None]

-----------------------------------------------------------------------------
(***************************************************************************)
(* Evidence, reviews and overrides                                         *)
(***************************************************************************)

\* import_records and append_provider_candidates: all or nothing, and a
\* fingerprint that is there already is ignored.  Rows of another type than
\* those that are there belong to another subject.
ImportEvidence(batch) ==
  /\ batch \cap Unproved = {}
  /\ \A e, o \in evidence \cup batch : e.type = o.type
  /\ evidence' = evidence \cup batch
  /\ UNCHANGED <<reviews, overrides, claims, conflicts, resolutions, asOf, view>>

Decided == Cardinality(reviews) + Cardinality(overrides)
\* Decisions of one instant would be ordered by random ids; the model has none.
Undecided(decisions, v, t) == ~\E d \in decisions : d.value = v /\ d.at = t

\* A review names any value of a known address.
RecordReview(v, decision, t) ==
  /\ evidence # {} /\ Decided < MaxDecisions
  /\ Undecided(reviews, v, t)
  /\ reviews' = reviews \cup {[value |-> v, decision |-> decision, at |-> t]}
  /\ UNCHANGED <<evidence, overrides, claims, conflicts, resolutions, asOf, view>>

Supported(v, t) == \E e \in evidence : e.value = v /\ e.at <= t
RecordOverride(v, decision, t) ==
  /\ Supported(v, t) /\ Decided < MaxDecisions
  /\ Undecided(overrides, v, t)
  /\ overrides' = overrides \cup {[value |-> v, decision |-> decision, at |-> t]}
  /\ UNCHANGED <<evidence, reviews, claims, conflicts, resolutions, asOf, view>>

-----------------------------------------------------------------------------
(***************************************************************************)
(* What a rebuild concludes from the tables it reads                       *)
(***************************************************************************)

KnownLater(db, t) == db.evidence
Known(db, t) == { e \in db.evidence : e.at <= t }
InForce(e, t) == e.from <= t /\ t <= e.until
Eligible(e) == ~(e.type = "address_label" /\ e.tag)

\* The evidence rows of a claim.
Group(db, t, v) == { e \in Known(db, t) : e.value = v /\ InForce(e, t) /\ Eligible(e) }
Asserted(db, t) == { v \in Values : Group(db, t, v) # {} }

\* The decision that counts is the latest that was made by then.
LatestBy(decisions, v, t, default) ==
  LET made == { d \in decisions : d.value = v /\ d.at <= t }
  IN  IF made = {} THEN default
      ELSE CHOOSE d \in made : \A o \in made : o.at <= d.at
ReviewOf(db, t, v)   == LatestBy(db.reviews, v, t, NoReview)
OverrideOf(db, t, v) == LatestBy(db.overrides, v, t, NoReview).decision

ClaimStatus(basis, review, override) ==
  CASE override = "reject" -> "rejected"
    [] override # "reject" /\ review.decision = "accept"
         /\ \E e \in basis : e.grade = "official" -> "accepted"
    [] override # "reject" /\ review.decision = "reject" -> "rejected"
    [] OTHER -> "unreviewed"

\* The claim for a value, its review taken from another reading of the tables.
Claim(db, later, t, v) ==
  LET basis    == Group(db, t, v)
      review   == ReviewOf(later, t, v)
      override == OverrideOf(db, t, v)
  IN  [value |-> v, basis |-> basis, status |-> ClaimStatus(basis, review, override),
       override |-> override, reviewed |-> review.at]

Fingerprints(revisions) == { r.claim : r \in revisions }
Standing(candidates) == { c \in candidates : c.status # "rejected" }
Selected(candidates) == { c \in Standing(candidates) : c.override = "select" }

IsPartlyProvider(c) == \E e \in c.basis : e.type = "entity_control" /\ e.grade = "provider"
IsProviderAlone(c) == \A e \in c.basis : e.grade = "provider"
\* A commercial provider's word is enough for who controls an address, but
\* not for a label or a role of it.
IsProviderDefault(c) ==
  \A e \in c.basis : e.type = "entity_control" /\ e.grade = "provider"

\* The state, operational tier and policy of a resolution.
Verdict(db, t, candidates, conflict) ==
  LET decided == \E d \in db.overrides : d.at <= t
      standing == Standing(candidates)
      selected == Selected(candidates)
      said(state, tier, policy) == [state |-> state, tier |-> tier, policy |-> policy]
  IN  CASE standing = {} ->
             said(IF \E e \in Known(db, t) : ~InForce(e, t) THEN "stale" ELSE "unattributed",
                  "none", IF decided THEN "local_override" ELSE "unattributed")
        [] Cardinality(selected) = 1 -> said("resolved", "lookup_usable", "local_override")
        [] standing # {} /\ Cardinality(selected) # 1
             /\ (conflict # 0 \/ Cardinality(selected) > 1) ->
             said("ambiguous", "lookup_only", "conflict_first")
        [] OTHER ->
             LET c == CHOOSE c \in standing : TRUE
             IN  CASE c.status = "accepted" -> said("resolved", "lookup_usable", "reviewed_evidence")
                   [] c.status # "accepted" /\ IsProviderDefault(c) ->
                        said("resolved", "lookup_usable", "provider_default")
                   [] OTHER -> said("resolved", "discovery_only", "unreviewed_evidence")

Primary(candidates, verdict) ==
  CASE verdict.state # "resolved" -> None
    [] verdict.policy = "local_override" -> CHOOSE c \in Selected(candidates) : TRUE
    [] OTHER -> CHOOSE c \in Standing(candidates) : TRUE

-----------------------------------------------------------------------------
(***************************************************************************)
(* Rebuild                                                                 *)
(***************************************************************************)

\* The reads before the first write.
ReadTables(k, t) ==
  /\ asOf[k] = None
  /\ Known(Db, t) # {}
  /\ asOf' = [asOf EXCEPT ![k] = t]
  /\ view' = [view EXCEPT ![k] = Db]
  /\ UNCHANGED tables

\* The values, in order, whose claim the reading did not find; the first of
\* them is the first write, and what follows is read in the transaction.
Missing(k) ==
  LET old == view[k]
  IN  { v \in Asserted(old, asOf[k]) :
          Claim(old, old, asOf[k], v) \notin Fingerprints(old.claims) }
BeforeWrite(missing, v) == missing = {} \/ v <= Min(missing)
Candidate(k, missing, v) ==
  Claim(view[k], IF BeforeWrite(missing, v) THEN view[k] ELSE Db, asOf[k], v)
Candidates(k, missing) == { Candidate(k, missing, v) : v \in Asserted(view[k], asOf[k]) }

\* The latest revision of the value, which the new one supersedes.
PreviousClaim(db, v) ==
  LET earlier == { r \in db.claims : r.claim.value = v }
  IN  IF earlier = {} THEN None
      ELSE (CHOOSE r \in earlier : \A o \in earlier : o.created <= r.created).claim

\* _materialize_claim.  The first insert meets the UNIQUE fingerprint when
\* another rebuild has made the same claim in between.
ClaimClash(k, missing) ==
  missing # {} /\ Candidate(k, missing, Min(missing)) \in Fingerprints(claims)
NewClaims(k, missing, candidates) ==
  { [claim |-> c, created |-> asOf[k],
     supersedes |-> PreviousClaim(IF BeforeWrite(missing, c.value) THEN view[k] ELSE Db, c.value)] :
      c \in candidates \ Fingerprints(claims) }

ActiveConflict(sets) ==
  IF \E i \in DOMAIN sets : sets[i].status = "active"
    THEN CHOOSE i \in DOMAIN sets : sets[i].status = "active" ELSE 0

\* _materialize_conflict: the conflict set it finds, and the one it returns.
FoundConflict(k, missing) ==
  ActiveConflict(IF missing = {} THEN view[k].conflicts ELSE conflicts)
Contested(candidates) == Cardinality(Standing(candidates)) >= 2
NamedConflict(candidates, found) ==
  CASE ~Contested(candidates) -> 0
    [] Contested(candidates) /\ found # 0 -> found
    [] OTHER -> Len(conflicts) + 1
\* The unique index allows one active conflict.
ConflictClash(named) == named > Len(conflicts) /\ ActiveConflict(conflicts) # 0

ConflictsNotExtended(candidates, found) ==
  CASE ~Contested(candidates) /\ found # 0 -> [conflicts EXCEPT ![found].status = "resolved"]
    [] Contested(candidates) /\ found = 0 ->
         Append(conflicts, [status |-> "active", members |-> Standing(candidates)])
    [] OTHER -> conflicts
ConflictsReopened(candidates, found) ==
  CASE ~Contested(candidates) /\ found # 0 -> [conflicts EXCEPT ![found].status = "resolved"]
    [] Contested(candidates) /\ found = 0 ->
         Append(conflicts, [status |-> "active", members |-> Standing(candidates)])
    [] Contested(candidates) /\ found # 0 -> [conflicts EXCEPT ![found] =
         [status |-> "active", members |-> @.members \cup Standing(candidates)]]
    [] OTHER -> conflicts
NewConflicts(candidates, found) ==
  CASE ~Contested(candidates) /\ found # 0 -> [conflicts EXCEPT ![found].status = "resolved"]
    [] Contested(candidates) /\ found = 0 ->
         Append(conflicts, [status |-> "active", members |-> Standing(candidates)])
    [] Contested(candidates) /\ found # 0 ->
         [conflicts EXCEPT ![found].members = @ \cup Standing(candidates)]
    [] OTHER -> conflicts

Resolution(k, candidates, named) ==
  LET verdict == Verdict(view[k], asOf[k], candidates, named)
  IN  [version |-> asOf[k], candidates |-> candidates,
       primary |-> Primary(candidates, verdict), conflict |-> named, verdict |-> verdict]

VersionUnchecked(resolution) == FALSE
\* A different resolution of the version is there: UNIQUE (.., version).
VersionClash(resolution) ==
  resolution \notin resolutions /\ \E r \in resolutions : r.version = resolution.version

Forget(k) ==
  /\ asOf' = [asOf EXCEPT ![k] = None]
  /\ view' = [view EXCEPT ![k] = None]

CommitRebuild(k) ==
  /\ asOf[k] # None
  /\ LET missing    == Missing(k)
         candidates == Candidates(k, missing)
         found      == FoundConflict(k, missing)
         named      == NamedConflict(candidates, found)
         resolution == Resolution(k, candidates, named)
     IN  /\ ~ClaimClash(k, missing) /\ ~ConflictClash(named) /\ ~VersionClash(resolution)
         /\ claims' = claims \cup NewClaims(k, missing, candidates)
         /\ conflicts' = NewConflicts(candidates, found)
         /\ resolutions' = resolutions \cup {resolution}
  /\ Forget(k)
  /\ UNCHANGED <<evidence, reviews, overrides>>

\* An IntegrityError, an error of another address of the same transaction or
\* the death of the process: everything is rolled back.
RollBack(k) ==
  /\ asOf[k] # None
  /\ Forget(k)
  /\ UNCHANGED tables

Next ==
  \/ \E batch \in SUBSET Rows : ImportEvidence(batch)
  \/ \E v \in Values, t \in Times :
       \/ \E decision \in {"accept", "reject"} : RecordReview(v, decision, t)
       \/ \E decision \in {"select", "reject"} : RecordOverride(v, decision, t)
  \/ \E k \in Resolvers : (\E t \in Times : ReadTables(k, t)) \/ CommitRebuild(k) \/ RollBack(k)

Spec == Init /\ [][Next]_vars

-----------------------------------------------------------------------------
(***************************************************************************)
(* Properties                                                              *)
(***************************************************************************)

\* No source wins by rank: an assertion is usable when an operator selected
\* one value, or when nothing else stands and either a review accepted
\* official evidence, or it is about who controls the address and all the
\* evidence is the provider's.  A provider's label or role never is.
WinnersAreJustified ==
  \A r \in resolutions : r.verdict.tier = "lookup_usable" =>
    \/ Selected(r.candidates) = {r.primary}
    \/ /\ Standing(r.candidates) = {r.primary}
       /\ \/ \A e \in r.primary.basis : e.type = "entity_control" /\ e.grade = "provider"
          \/ /\ r.primary.reviewed > 0
             /\ \E e \in r.primary.basis : e.grade = "official"

\* A resolution of a version rests on what was known at that instant, though
\* versions share claims and are rebuilt in any order, with evidence and
\* decisions arriving late.
PointInTime ==
  \A r \in resolutions : \A c \in r.candidates :
    /\ c.reviewed <= r.version
    /\ c.basis # {} /\ c.basis \subseteq evidence \ Unproved
    /\ \A e \in c.basis : e.at <= r.version /\ InForce(e, r.version)

\* The claims of a value are told apart by their as_of: a rebuild that finds
\* other evidence for a version that is there leaves no second revision.
OneRevisionPerAsOf ==
  \A a, b \in claims :
    a.created = b.created /\ a.claim.value = b.claim.value => a = b

\* Claims that stand against one another are for ever members of the
\* conflict set their resolution names, also when a local override selected
\* one of them; and every conflict set was made for such a resolution.
ConflictsAreTraceable ==
  /\ \A r \in resolutions :
       IF Cardinality(Standing(r.candidates)) < 2 THEN r.conflict = 0
       ELSE r.conflict # 0 /\ Standing(r.candidates) \subseteq conflicts[r.conflict].members
  /\ \A i \in DOMAIN conflicts : \E r \in resolutions : r.conflict = i

\* Rebuilds create revisions without overwriting history: one resolution per
\* version, and no revision, resolution or member of a conflict is lost.
HistoryKept ==
  [][/\ claims \subseteq claims' /\ resolutions \subseteq resolutions'
     /\ \A r, q \in resolutions' : r.version = q.version => r = q
     /\ \A i \in DOMAIN conflicts :
          /\ conflicts[i].members \subseteq conflicts'[i].members
          /\ conflicts[i].status = "resolved" => conflicts'[i].status = "resolved"]_vars

-----------------------------------------------------------------------------
(***************************************************************************)
(* What a test says and the code does not do: it does not hold             *)
(***************************************************************************)

\* "same as_of rebuild is reproducible": while what was known at a version
\* is unchanged, a second rebuild returns its resolution.  Once a rebuild of
\* another version has resolved the conflict set, the second rebuild makes a
\* new one, and fails on the version it has already.
SameAsOfReproducible ==
  \A r \in resolutions :
    /\ { Claim(Db, Db, r.version, v) : v \in Asserted(Db, r.version) } = r.candidates
    /\ r.conflict # 0
    => ActiveConflict(conflicts) = r.conflict
=============================================================================
