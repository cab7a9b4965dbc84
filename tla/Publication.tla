---------------------------- MODULE Publication ----------------------------
(***************************************************************************)
(* The two commands that publish under one universe root                   *)
(* (settings.universe_root, cli.py): the strict V2-S candidate publisher   *)
(* (universe/candidate_publication_v2_s.py) and the feature materializer   *)
(* (universe/features.py over the CampaignWriter of universe/storage.py).  *)
(* Both build .staging/<id>-<uuid> and rename it to campaigns/<id>; they   *)
(* hold no lock, so several runs of one campaign id may be under way.      *)
(*                                                                         *)
(* A staging directory has one owner, so rows are taken one at a time: a   *)
(* page only bounds memory, and a row that is refused discards the whole   *)
(* directory whichever page it came in.                                    *)
(***************************************************************************)
EXTENDS Naturals, FiniteSets

CONSTANTS
  Publishers,  \* runs of the candidate publisher
  Writers,     \* runs of the feature materializer
  Ids,         \* campaign identifiers
  Campaign,    \* [Publishers \cup Writers -> Ids]: the id each run is given
  Tiers,       \* candidate tiers
  Addresses,   \* candidate subjects that are Bitcoin addresses
  Exclusions,  \* [pinned non-address subject -> its tier]
  Expected,    \* [Tiers -> Nat]: pinned rows of the source table
  Scripts,     \* script identifiers of the feature stream
  Features,    \* address identifiers of the feature stream
  None,
  MaxRows      \* bound: rows a run takes from its stream

Runs     == Publishers \cup Writers
Excluded == DOMAIN Exclusions
Rows     == (Addresses \ Excluded) \X Tiers

ASSUME PublicationAssumption ==
  /\ Campaign \in [Runs -> Ids]
  /\ Publishers \cap Writers = {}
  /\ IsFiniteSet(Addresses)
  /\ IsFiniteSet(Excluded)
  /\ Exclusions \in [Excluded -> Tiers]
  /\ Expected \in [Tiers -> Nat]
  /\ Scripts \cap Features = {}        \* the tracker has a table for each
  /\ MaxRows \in Nat

\* None is no directory.
ASSUME NoneAssumption ==
  /\ None \notin [owner : Publishers, rows : [Rows -> Nat],
                  receipt : {None, "pinned"}]
  /\ None \notin [owner : Writers, scripts : [Scripts -> Nat],
                  features : [Features -> Nat], accounting : {0, 1},
                  anchors : {None, "snapshot", "not_provided"}]

VARIABLES
  published,   \* [Ids -> None or the artifact in campaigns/<id>]
  receipt,     \* the execution receipt on disk: "pinned" or "rewritten"
  phase,       \* [Runs -> how far the run is, or its outcome]
  staging,     \* [Runs -> None or the artifact under construction]
  seen,        \* [Runs -> identifiers in the run's duplicate tracker]
  counted,     \* [Publishers -> [Tiers -> source rows accepted]]
  observed     \* [Publishers -> pinned subjects met in the stream]

vars == <<published, receipt, phase, staging, seen, counted, observed>>

-----------------------------------------------------------------------------
(* Artifacts. *)

CandidateDir(p) ==
  [owner |-> p, rows |-> [r \in Rows |-> 0], receipt |-> None]

FeatureDir(w) ==
  [owner |-> w, scripts |-> [s \in Scripts |-> 0],
   features |-> [f \in Features |-> 0], accounting |-> 0, anchors |-> None]

\* The addresses a candidate artifact lists under tier t.
Listed(dir, t) == {a \in Addresses \ Excluded : dir.rows[<<a, t>>] > 0}

\* The pinned subjects of tier t among X.
OfTier(X, t) == {x \in X : Exclusions[x] = t}

\* A complete candidate artifact lists every address once, in one tier, as
\* many per tier as the pinned counts leave when the pinned non-addresses are
\* taken out, and carries the pinned receipt.
WholeCandidates(dir) ==
  /\ \A r \in Rows : dir.rows[r] <= 1
  /\ \A a \in Addresses \ Excluded, t, u \in Tiers :
        dir.rows[<<a, t>>] > 0 /\ dir.rows[<<a, u>>] > 0 => t = u
  /\ \A t \in Tiers :
        Cardinality(Listed(dir, t)) + Cardinality(OfTier(Excluded, t))
          = Expected[t]
  /\ dir.receipt = "pinned"

\* A complete feature artifact has scripts and features, no identifier twice,
\* the one accounting row, and says whether anchors were provided.
WholeFeatures(dir) ==
  /\ \A s \in Scripts : dir.scripts[s] <= 1
  /\ \A f \in Features : dir.features[f] <= 1
  /\ \E s \in Scripts : dir.scripts[s] = 1
  /\ \E f \in Features : dir.features[f] = 1
  /\ dir.accounting = 1
  /\ dir.anchors \in {"snapshot", "not_provided"}

Whole(dir) ==
  \/ dir.owner \in Publishers /\ WholeCandidates(dir)
  \/ dir.owner \in Writers /\ WholeFeatures(dir)

Promise == INSTANCE Artifacts

-----------------------------------------------------------------------------

Init ==
  /\ published = [id \in Ids |-> None]
  /\ receipt \in {"pinned", "rewritten"}
  /\ phase = [r \in Runs |-> "idle"]
  /\ staging = [r \in Runs |-> None]
  /\ seen = [r \in Runs |-> {}]
  /\ counted = [p \in Publishers |-> [t \in Tiers |-> 0]]
  /\ observed = [p \in Publishers |-> {}]

Moves(r, from, to) ==
  /\ phase[r] = from
  /\ phase' = [phase EXCEPT ![r] = to]

\* Neither command starts on an id whose directory exists; the check holds at
\* that moment only.
Free(r) == published[Campaign[r]] = None

(* The receipt is pinned, its row count is the expected one and the id is
   free: the staging directory is made. *)
BeginPublication(p) ==
  /\ Moves(p, "idle", "streaming")
  /\ receipt = "pinned"
  /\ Free(p)
  /\ staging' = [staging EXCEPT ![p] = CandidateDir(p)]
  /\ UNCHANGED <<published, receipt, seen, counted, observed>>

Counted(p, t) ==
  /\ phase[p] = "streaming"
  /\ counted[p][t] < MaxRows
  /\ counted' = [counted EXCEPT ![p][t] = @ + 1]

\* Mutant of AcceptRow: the tracker is left out, duplicates are found by the merge alone.
AcceptRowUntracked(p, a, t) ==
  /\ Counted(p, t)
  /\ staging' = [staging EXCEPT ![p].rows[<<a, t>>] = @ + 1]
  /\ UNCHANGED <<published, receipt, phase, seen, observed>>

(* A row that validates, is no pinned subject and was not seen before goes to
   the shards of its tier. *)
AcceptRow(p, a, t) ==
  /\ Counted(p, t)
  /\ a \notin seen[p]
  /\ seen' = [seen EXCEPT ![p] = @ \cup {a}]
  /\ staging' = [staging EXCEPT ![p].rows[<<a, t>>] = @ + 1]
  /\ UNCHANGED <<published, receipt, phase, observed>>

(* A row that does not validate is left out when it is a pinned subject, in
   its pinned tier, met for the first time. *)
ExcludeRow(p, x, t) ==
  /\ Counted(p, t)
  /\ Exclusions[x] = t
  /\ x \notin observed[p]
  /\ observed' = [observed EXCEPT ![p] = @ \cup {x}]
  /\ UNCHANGED <<published, receipt, phase, staging, seen>>

(* The end of the stream: source totals and tiers, the exclusion set, and
   with them the published and excluded counts, all match.  The shards of a
   tier are then merged and sorted, and a repeated address is refused. *)
Compact(p) ==
  /\ Moves(p, "streaming", "compacted")
  /\ counted[p] = Expected
  /\ observed[p] = Excluded
  /\ \A r \in Rows : staging[p].rows[r] <= 1
  /\ UNCHANGED <<published, receipt, staging, seen, counted, observed>>

(* The receipt is read again and must still be the pinned one. *)
SealPublication(p) ==
  /\ Moves(p, "compacted", "sealed")
  /\ receipt = "pinned"
  /\ staging' = [staging EXCEPT ![p].receipt = "pinned"]
  /\ UNCHANGED <<published, receipt, seen, counted, observed>>

\* Mutant of Install: a directory that exists is replaced.
InstallOver(r, to) ==
  /\ Moves(r, "sealed", to)
  /\ published' = [published EXCEPT ![Campaign[r]] = staging[r]]
  /\ staging' = [staging EXCEPT ![r] = None]
  /\ UNCHANGED <<receipt, seen, counted, observed>>

\* Mutant of Install: a directory that exists is taken for this run's own.
InstallIfFree(r, to) ==
  /\ Moves(r, "sealed", to)
  /\ published' = IF Free(r)
                  THEN [published EXCEPT ![Campaign[r]] = staging[r]]
                  ELSE published
  /\ staging' = [staging EXCEPT ![r] = None]
  /\ UNCHANGED <<receipt, seen, counted, observed>>

(* os.replace: a rename onto a directory that is not empty fails. *)
Install(r, to) ==
  /\ Moves(r, "sealed", to)
  /\ Free(r)
  /\ published' = [published EXCEPT ![Campaign[r]] = staging[r]]
  /\ staging' = [staging EXCEPT ![r] = None]
  /\ UNCHANGED <<receipt, seen, counted, observed>>

-----------------------------------------------------------------------------

(* After a dry run within its cap the materializer opens its campaign. *)
BeginCampaign(w) ==
  /\ Moves(w, "idle", "streaming")
  /\ Free(w)
  /\ staging' = [staging EXCEPT ![w] = FeatureDir(w)]
  /\ UNCHANGED <<published, receipt, seen, counted, observed>>

(* A script or a feature whose identifier the tracker does not hold. *)
WriteScript(w, s) ==
  /\ phase[w] = "streaming"
  /\ s \notin seen[w]
  /\ seen' = [seen EXCEPT ![w] = @ \cup {s}]
  /\ staging' = [staging EXCEPT ![w].scripts[s] = @ + 1]
  /\ UNCHANGED <<published, receipt, phase, counted, observed>>

WriteFeature(w, f) ==
  /\ phase[w] = "streaming"
  /\ f \notin seen[w]
  /\ seen' = [seen EXCEPT ![w] = @ \cup {f}]
  /\ staging' = [staging EXCEPT ![w].features[f] = @ + 1]
  /\ UNCHANGED <<published, receipt, phase, counted, observed>>

WriteAccounting(w) ==
  /\ phase[w] = "streaming"
  /\ staging[w].accounting = 0
  /\ staging' = [staging EXCEPT ![w].accounting = 1]
  /\ UNCHANGED <<published, receipt, phase, seen, counted, observed>>

(* The stream has ended within its cap, the campaign is complete, anchors are
   written if a snapshot was given, and the staged files verify. *)
SealCampaign(w, anchors) ==
  /\ Moves(w, "streaming", "sealed")
  /\ \E s \in Scripts : staging[w].scripts[s] > 0
  /\ \E f \in Features : staging[w].features[f] > 0
  /\ staging[w].accounting = 1
  /\ staging' = [staging EXCEPT ![w].anchors = anchors]
  /\ UNCHANGED <<published, receipt, seen, counted, observed>>

(* campaigns/ is synced after the rename; the run then reports success, or,
   when the sync fails, reports a failure although the artifact is there. *)
ReportSync(w, outcome) ==
  /\ Moves(w, "renamed", outcome)
  /\ UNCHANGED <<published, receipt, staging, seen, counted, observed>>

-----------------------------------------------------------------------------

(* Every other way out of a run, before its rename, removes its staging
   directory: a check above that fails, a row no check accepts, an error of
   BigQuery or of the disk. *)
Fail(r) ==
  /\ phase[r] \in {"idle", "streaming", "compacted", "sealed"}
  /\ phase' = [phase EXCEPT ![r] = "failed"]
  /\ staging' = [staging EXCEPT ![r] = None]
  /\ UNCHANGED <<published, receipt, seen, counted, observed>>

(* The process dies and leaves the directory behind, as does a CampaignWriter
   that cannot be set up (begin_campaign is outside run's try). *)
Crash(r) ==
  /\ phase[r] \in {"streaming", "compacted", "sealed", "renamed"}
  /\ phase' = [phase EXCEPT ![r] = "dead"]
  /\ UNCHANGED <<published, receipt, staging, seen, counted, observed>>

(* The execution receipt belongs to another command and may be replaced, or
   put back, at any moment. *)
RewriteReceipt ==
  /\ receipt' \in {"pinned", "rewritten"} \ {receipt}
  /\ UNCHANGED <<published, phase, staging, seen, counted, observed>>

PublisherStep(p) ==
  \/ BeginPublication(p)
  \/ \E a \in Addresses \ Excluded, t \in Tiers : AcceptRow(p, a, t)
  \/ \E x \in Excluded, t \in Tiers : ExcludeRow(p, x, t)
  \/ Compact(p)
  \/ SealPublication(p)
  \/ Install(p, "published")

WriterStep(w) ==
  \/ BeginCampaign(w)
  \/ \E s \in Scripts : WriteScript(w, s)
  \/ \E f \in Features : WriteFeature(w, f)
  \/ WriteAccounting(w)
  \/ \E anchors \in {"snapshot", "not_provided"} : SealCampaign(w, anchors)
  \/ Install(w, "renamed")
  \/ \E outcome \in {"published", "failed"} : ReportSync(w, outcome)

Next ==
  \/ \E p \in Publishers : PublisherStep(p)
  \/ \E w \in Writers : WriterStep(w)
  \/ \E r \in Runs : Fail(r) \/ Crash(r)
  \/ RewriteReceipt

Spec == Init /\ [][Next]_vars

-----------------------------------------------------------------------------

(* Whatever lies in campaigns/<id> is one whole artifact: no address twice
   (across pages and across tiers), exactly the pinned counts without the
   pinned non-addresses, the pinned receipt; or a complete feature campaign. *)
PublishedIsWhole ==
  \A id \in Ids : published[id] # None => Whole(published[id])

(* A run says what happened: one that reports success left its own artifact
   in the directory of its id, so two runs of one id never both report it,
   and a candidate run that reports failure published nothing. *)
OutcomeIsTrue ==
  \A r \in Runs :
    LET mine == published[Campaign[r]] # None
                  /\ published[Campaign[r]].owner = r
    IN  /\ phase[r] = "published" => mine
        /\ r \in Publishers /\ phase[r] = "failed" => ~mine

(* Readers see what Artifacts promises: an id goes from absent to one whole
   artifact in a single step, and nothing changes it afterwards. *)
ImplementsArtifacts == Promise!Spec
=============================================================================
