------------------------------ MODULE Registry ------------------------------
(***************************************************************************)
(* The dataset registry: audits, the stored files they were made of, the   *)
(* rows of "datasets" that show them, and the version history that is      *)
(* reconstructed from the audits of a name (src/app/versioning.py).        *)
(*                                                                         *)
(* A request stores a file, computes an audit, saves it, and registers it: *)
(* three transactions and an object store.  An audit's created_at is taken *)
(* when it is computed, not when it is saved.                              *)
(***************************************************************************)
EXTENDS Integers, FiniteSets

CONSTANTS
  Thread,      \* request threads
  Name,        \* dataset names, which are also names of uploaded files
  Revision,    \* other file names, for imported versions
  SampleName,  \* the name of the built-in sample dataset
  Cleaned,     \* Cleaned[n]: the name "cleaned_n", or Null (bound)
  MaxAudits,   \* bound: audits computed
  MaxRows,     \* bound: ids of dataset rows
  MaxFaults,   \* bound: transactions that fail
  MaxEdits,    \* bound: requests on rows and issues
  Postgres,    \* ids from a sequence, or SQLite's largest id plus one
  Null

ASSUME RegistryAssumption ==
  /\ SampleName \in Name
  /\ Cleaned \in [Name -> Name \union {Null}]
  /\ {MaxAudits, MaxRows, MaxFaults, MaxEdits} \subseteq Nat
  /\ Postgres \in BOOLEAN

Tick == 1..MaxAudits      \* created_at, which also names the audit and its file
Id == 1..MaxRows

\* A row without an audit shows none.
ASSUME NullAssumption == Null \notin Nat

Kind == {"dataset_import", "version_import", "rerun", "sample", "audit"}

\* An audit as it is saved: version 0 and source Null stand for None.
Audit == [at: Tick, name: Name, kind: Kind, version: 0..MaxAudits,
          source: Name \union Revision \union {Null}]
Row == [name: Name, latest: Tick \union {Null}]

VARIABLES
  audits,     \* the rows of audit_records, with their upload_records
  files,      \* ticks of the audits whose file is in the object store
  rows,       \* rows[d]: a row of "datasets", or Null
  clock,      \* audits computed so far
  req,        \* req[t]: the request that thread t is working on
  faults,     \* failed transactions so far (for the bound)
  edits,      \* requests on rows and issues so far (for the bound)
  issued,     \* history: ids given out
  left,       \* history: files that failed requests left behind, of audits never saved
  overtaken,  \* history: names with an audit saved after one computed later
  deleted,    \* history: names of deleted datasets
  raced       \* history: imports whose name got another audit after they counted

registryVars == <<audits, files, rows, clock, req, faults, edits, issued, left, overtaken, deleted, raced>>

NoAudit == [at |-> 0]
Idle == [pc |-> "idle", op |-> Null, audit |-> NoAudit, todo |-> {}, raced |-> FALSE]

Kept(d) == rows[d] # Null
RowOf(n) == {d \in Id : Kept(d) /\ rows[d].name = n}
Largest(S) == CHOOSE x \in S : \A y \in S : y <= x
NewIds == Id \intersect {Largest({0} \union IF Postgres THEN issued ELSE {d \in Id : Kept(d)}) + 1}

-----------------------------------------------------------------------------
(* The version history of a name: lineage_audits.                          *)

Named(n) == {a \in audits : a.name = n}

\* Mutant: the last audit of a number wins.
Overwrite(versions, v, a) == [u \in DOMAIN versions \union {v} |-> IF u = v THEN a ELSE versions[u]]
\* versions.setdefault(version, audit)
SetDefault(versions, v, a) == [u \in DOMAIN versions \union {v} |->
                                 IF u \in DOMAIN versions THEN versions[u] ELSE a]

\* One audit of the ordered history; acc holds versions and last_source.
Reconstruct(acc, a) ==
  IF a.kind \in {"dataset_import", "version_import"} /\ a.version > 0
    THEN [versions |-> SetDefault(acc.versions, a.version, a),
          last     |-> IF a.source # Null THEN a.source ELSE acc.last]
  ELSE IF a.kind \in {"rerun", "sample"} THEN acc
  ELSE IF DOMAIN acc.versions = {} THEN [versions |-> SetDefault(acc.versions, 1, a), last |-> a.source]
  ELSE IF a.source # Null /\ a.source # acc.last
    THEN [versions |-> SetDefault(acc.versions, Largest(DOMAIN acc.versions) + 1, a), last |-> a.source]
  ELSE acc

\* The history before the first audit, and after the audits of one tick (at most one).
NoVersions == [versions |-> [v \in {} |-> NoAudit], last |-> Null]
ReplayTick(acc, at) == IF at = {} THEN acc ELSE Reconstruct(acc, CHOOSE a \in at : TRUE)

\* Replay(A)[i]: the audits A that were computed up to tick i, in that order.
Replay(A) ==
  LET upTo[i \in 0..MaxAudits] ==
        IF i = 0 THEN NoVersions ELSE ReplayTick(upTo[i - 1], {a \in A : a.at = i})
  IN upTo
Lineage(n) == Replay(Named(n))[clock].versions

\* latest_version, and the number that dataset_versions shows: the position.
LatestVersion(n) == Cardinality(DOMAIN Lineage(n))
ShownNumber(n, v) == Cardinality({u \in DOMAIN Lineage(n) : u <= v})

\* Mutant: every audit counts.
NumberAll(n) == Cardinality(Named(n)) + 1
\* import_dataset_version numbers the new version from the length of the history.
NextVersion(n) == LatestVersion(n) + 1

\* Bound: requests on rows and issues.
CountEdit == edits < MaxEdits /\ edits' = edits + 1

-----------------------------------------------------------------------------
(* Requests: each computes an audit, then saves and registers it.          *)

\* The file is stored and the audit computed from it: one step, as nobody else knows
\* the file yet.  What fails in between fails in "save", the state after it.
Begin(t, op, n, k, v, s) ==
  /\ clock < MaxAudits
  /\ clock' = clock + 1
  /\ files' = IF s = Null THEN files ELSE files \union {clock + 1}
  /\ req' = [req EXCEPT ![t] =
       [Idle EXCEPT !.pc = "save", !.op = op, !.raced = req[t].raced,
                    !.audit = [at |-> clock + 1, name |-> n, kind |-> k, version |-> v, source |-> s]]]
  /\ UNCHANGED <<audits, rows, faults, edits, issued, left, overtaken, deleted, raced>>

\* upload_audit: the file's name is the dataset's name.
UploadAudit(t, n) ==
  req[t] = Idle /\ Begin(t, "upload", n, "dataset_import", 1, n)

\* sample_audit and configured_sample_audit: nothing is stored.
SampleAudit(t) ==
  req[t] = Idle /\ Begin(t, "sample", SampleName, "sample", 1, Null)

\* rerun_audit: the source file is stored again; without one only the sample runs.
RerunAudit(t, a) ==
  /\ req[t] = Idle
  /\ a \in audits
  /\ IF a.source # Null THEN a.at \in files ELSE a.name = SampleName
  /\ Begin(t, "rerun", a.name, "rerun", a.version,
           IF a.source # Null THEN a.source ELSE SampleName)

\* apply_remediation: the corrected copy is an audit of the default kind "audit".
ApplyRemediation(t, a) ==
  /\ req[t] = Idle
  /\ a \in audits
  /\ a.source # Null /\ a.at \in files
  /\ Cleaned[a.name] # Null
  /\ Begin(t, "remediate", Cleaned[a.name], "audit", 0, Cleaned[a.name])

\* import_dataset_version: the history is counted, then the file is awaited.
CountVersions(t, d) ==
  LET n == rows[d].name IN
  /\ req[t] = Idle
  /\ Kept(d)
  /\ req' = [req EXCEPT ![t] = [Idle EXCEPT !.pc = "counted", !.op = "import",
       !.audit = [at |-> 0, name |-> n, kind |-> "version_import", version |-> NextVersion(n), source |-> Null]]]
  /\ UNCHANGED <<audits, files, rows, clock, faults, edits, issued, left, overtaken, deleted, raced>>

ImportDatasetVersion(t, s) ==
  /\ req[t].pc = "counted"
  /\ Begin(t, "import", req[t].audit.name, "version_import", req[t].audit.version, s)

\* The routes on issues save and register an audit that is there already.
Revisit(t, a) ==
  /\ CountEdit
  /\ req[t] = Idle
  /\ a \in audits
  /\ req' = [req EXCEPT ![t] = [Idle EXCEPT !.pc = "register", !.op = "revisit", !.audit = a]]
  /\ UNCHANGED <<audits, files, rows, clock, faults, issued, left, overtaken, deleted, raced>>

\* Requests whose count of versions another audit of the name outdates.
Outdated(t) == {u \in Thread \ {t} : /\ req[u].op = "import"
                                     /\ req[u].pc \in {"counted", "save"}
                                     /\ req[u].audit.name = req[t].audit.name}

\* AuditStore.save
SaveAudit(t) ==
  LET a == req[t].audit IN
  /\ req[t].pc = "save"
  /\ audits' = audits \union {a}
  /\ overtaken' = IF \E b \in Named(a.name) : b.at > a.at THEN overtaken \union {a.name} ELSE overtaken
  /\ raced' = IF req[t].raced THEN raced \union {a.at} ELSE raced
  /\ req' = [u \in Thread |-> IF u = t THEN [req[t] EXCEPT !.pc = "register"]
                              ELSE IF u \in Outdated(t) THEN [req[u] EXCEPT !.raced = TRUE]
                              ELSE req[u]]
  /\ UNCHANGED <<files, rows, clock, faults, edits, issued, left, deleted>>

\* register_audit_dataset: the row of the name is updated, or inserted.  (Lookup
\* and write are two steps in AuditImport; losing that race is a fault here.)
RegisterAudit(t) ==
  LET a == req[t].audit IN
  /\ req[t].pc = "register"
  /\ \/ \E d \in RowOf(a.name) : rows' = [rows EXCEPT ![d].latest = a.at] /\ issued' = issued
     \/ RowOf(a.name) = {}
        /\ \E d \in NewIds : /\ rows' = [rows EXCEPT ![d] = [name |-> a.name, latest |-> a.at]]
                             /\ issued' = issued \union {d}
  /\ req' = [req EXCEPT ![t] = IF req[t].op = "remediate" THEN [req[t] EXCEPT !.pc = "persist"] ELSE Idle]
  /\ UNCHANGED <<audits, files, clock, faults, edits, left, overtaken, deleted, raced>>

\* apply_remediation registers before it persists the rule executions, the others
\* after; of the executions there is no more here than that they may fail.
PersistExecutions(t) ==
  /\ req[t].pc = "persist"
  /\ req' = [req EXCEPT ![t] = Idle]
  /\ UNCHANGED <<audits, files, rows, clock, faults, edits, issued, left, overtaken, deleted, raced>>

\* Mutant: the file stays.
KeepFile(t) == files
\* The clean-up of a handler takes the request's own file.
CleanUp(t) == files \ {req[t].audit.at}

\* An exception ends the request; what was committed stays.
Raises(t) ==
  /\ req[t].pc \in {"save", "register", "persist"}
  /\ faults < MaxFaults
  /\ faults' = faults + 1
  /\ req' = [req EXCEPT ![t] = Idle]
  /\ UNCHANGED <<audits, rows, clock, edits, issued, overtaken, deleted, raced>>

\* A clean-up follows whatever apply_remediation raises once the file is stored; of
\* an upload or import, the exceptions that are named, and any once it saves.
FailRequest(t) ==
  /\ req[t].op \in {"upload", "import", "remediate"}
  /\ Raises(t)
  /\ files' = CleanUp(t)
  /\ left' = left

\* No clean-up follows other exceptions of an upload or import that does not save
\* yet, nor any of a rerun; and a clean-up that the store refuses is passed over.
FailAndLeave(t) ==
  /\ Raises(t)
  /\ files' = files
  /\ left' = IF req[t].pc = "save" THEN left \union (files \intersect {req[t].audit.at}) ELSE left

-----------------------------------------------------------------------------
(* The routes on the rows.                                                 *)

\* create_dataset: a second row of the name is a 409.
CreateDataset(n) ==
  /\ CountEdit
  /\ RowOf(n) = {}
  /\ \E d \in NewIds : /\ rows' = [rows EXCEPT ![d] = [name |-> n, latest |-> Null]]
                       /\ issued' = issued \union {d}
  /\ UNCHANGED <<audits, files, clock, req, faults, left, overtaken, deleted, raced>>

\* update_dataset with a new name: the audits keep the old one.
RenameDataset(d, n) ==
  /\ CountEdit
  /\ Kept(d)
  /\ RowOf(n) = {}
  /\ rows' = [rows EXCEPT ![d].name = n]
  /\ UNCHANGED <<audits, files, clock, req, faults, issued, left, overtaken, deleted, raced>>

\* Mutant: the files of the corrected copies go, too.
DeleteCopies(t, d) ==
  /\ CountEdit
  /\ req[t] = Idle
  /\ Kept(d)
  /\ rows' = [rows EXCEPT ![d] = Null]
  /\ deleted' = deleted \union {rows[d].name}
  /\ req' = [req EXCEPT ![t] = [Idle EXCEPT !.pc = "unlink", !.op = "delete",
       !.todo = {a.at : a \in Named(rows[d].name) \union Named(Cleaned[rows[d].name])}]]
  /\ UNCHANGED <<audits, files, clock, faults, issued, left, overtaken, raced>>
\* delete_dataset: the keys are collected and the row deleted (AuditImport has
\* these as two steps); the files go afterwards, the audits stay.
DeleteDataset(t, d) ==
  /\ CountEdit
  /\ req[t] = Idle
  /\ Kept(d)
  /\ rows' = [rows EXCEPT ![d] = Null]
  /\ deleted' = deleted \union {rows[d].name}
  /\ req' = [req EXCEPT ![t] = [Idle EXCEPT !.pc = "unlink", !.op = "delete",
       !.todo = {a.at : a \in {b \in Named(rows[d].name) : b.source # Null}}]]
  /\ UNCHANGED <<audits, files, clock, faults, issued, left, overtaken, raced>>

\* A file that cannot be deleted is passed over.
UnlinkFiles(t) ==
  /\ req[t].pc = "unlink"
  /\ \/ files' = files \ req[t].todo /\ faults' = faults
     \/ faults < MaxFaults /\ faults' = faults + 1
        /\ \E x \in req[t].todo \intersect files : files' = files \ (req[t].todo \ {x})
  /\ req' = [req EXCEPT ![t] = Idle]
  /\ UNCHANGED <<audits, rows, clock, edits, issued, left, overtaken, deleted, raced>>

\* preview_dataset, dataset_intelligence and dataset_privacy.
Preview(d) ==
  LET shown == {a \in audits : a.at = rows[d].latest} IN
  IF rows[d].latest = Null THEN "not audited"
  ELSE IF shown = {} THEN "no completed audit"
  ELSE IF rows[d].latest \in files THEN "rows" ELSE "profile"

Init ==
  /\ audits = {}
  /\ files = {}
  /\ rows = [d \in Id |-> Null]
  /\ clock = 0
  /\ req = [t \in Thread |-> Idle]
  /\ faults = 0
  /\ edits = 0
  /\ issued = {}
  /\ left = {}
  /\ overtaken = {}
  /\ deleted = {}
  /\ raced = {}

Next ==
  \/ \E t \in Thread :
       \/ \E n \in Name : UploadAudit(t, n)
       \/ SampleAudit(t)
       \/ \E a \in audits : RerunAudit(t, a) \/ ApplyRemediation(t, a) \/ Revisit(t, a)
       \/ \E d \in Id : CountVersions(t, d) \/ DeleteDataset(t, d)
       \/ \E s \in Name \union Revision : ImportDatasetVersion(t, s)
       \/ SaveAudit(t) \/ RegisterAudit(t) \/ PersistExecutions(t) \/ FailRequest(t) \/ FailAndLeave(t) \/ UnlinkFiles(t)
  \/ \E n \in Name : CreateDataset(n) \/ \E d \in Id : RenameDataset(d, n)

Spec == Init /\ [][Next]_registryVars

-----------------------------------------------------------------------------
(* Properties.                                                             *)

\* The number that dataset_versions shows for a version, its position, is the
\* number its import was given and answered with, unless an audit was saved
\* after one that had been computed later; and it is listed, unless another audit of
\* the name was saved between counting the versions and saving it.
LineageDense ==
  /\ \A n \in Name \ overtaken : \A v \in DOMAIN Lineage(n) : ShownNumber(n, v) = v
  /\ \A a \in audits :
       a.kind = "version_import" /\ a.at \notin raced /\ a.name \notin overtaken
         => a.version \in DOMAIN Lineage(a.name) /\ Lineage(a.name)[a.version] = a

\* "Return immutable audit-backed dataset versions": a listed version keeps its
\* audit and its number, whatever is imported, corrected, rerun or deleted.
VersionsImmutable ==
  [][\A n \in Name : n \notin overtaken' =>
       LET before == Lineage(n)
           after == Lineage(n)' IN
       \A v \in DOMAIN before : v \in DOMAIN after /\ after[v] = before[v]]_audits

\* The stored files that belong to no saved audit and no request at work are exactly
\* those that a failing request left where the code has no clean-up, or a refused one:
\* a clean-up takes the request's file and no other, and no deletion finds what is left.
Owned(f) == \/ \E a \in audits : a.at = f
            \/ \E t \in Thread : req[t].pc = "save" /\ req[t].audit.at = f
StoredFilesOwned == {f \in files : ~Owned(f)} = left

\* A dataset that shows an audit of a file shows its rows, through renames and
\* other datasets' deletions, until a dataset of the audit's name is deleted or
\* a transaction fails.
PreviewShowsRows ==
  \A d \in Id : \A a \in audits :
    Kept(d) /\ rows[d].latest = a.at /\ a.source # Null /\ a.name \notin deleted /\ faults = 0
      => Preview(d) = "rows"

\* The invariant behind the last two.  created_at, which names an audit's file,
\* tells saved audits and those still computed apart.
Saving == {t \in Thread : req[t].pc = "save"}
AuditsApart ==
  /\ \A a \in audits : a.at \in 1..clock
  /\ \A a, b \in audits : a.at = b.at => a = b
  /\ \A t \in Saving : LET at == req[t].audit.at IN
       /\ at \in 1..clock
       /\ \A a \in audits : a.at # at
       /\ \A u \in Saving : req[u].audit.at = at => u = t
\* What a request has done so far: which file it has stored, what it has saved, and
\* that the files it will delete are a deleted dataset's.
RequestStage(r) ==
  /\ r.pc = "save" => /\ r.audit.at \in files <=> r.audit.source # Null
                      /\ r.op \in {"upload", "sample", "rerun", "remediate", "import"}
                      /\ r.op = "sample" => r.audit.source = Null
  /\ r.pc \in {"register", "persist"} => r.audit \in audits
  /\ r.pc = "unlink" => \A x \in r.todo : \E a \in audits : a.at = x /\ a.name \in deleted
\* Nothing but a deletion of its name or a failure takes a saved audit's file.
FilesKept ==
  faults = 0 => \A a \in audits : a.source # Null /\ a.name \notin deleted => a.at \in files

RegistryInv ==
  /\ AuditsApart /\ FilesKept /\ StoredFilesOwned
  /\ \A t \in Thread : RequestStage(req[t])
  /\ files \subseteq 1..clock


\* The invariant behind the first two.  Requests, audits and rows are of names,
\* only an import gives an audit the kind of one, and an upload's version is 1.
NamesKnown ==
  /\ clock \in 0..MaxAudits
  /\ \A a \in audits : a.name \in Name
  /\ rows \in [Id -> Row \union {Null}]
  /\ \A t \in Thread : LET r == req[t] IN
       /\ r.pc \in {"counted", "save"} => r.audit.name \in Name
       /\ r.pc = "counted" => r.op = "import"
       /\ r.pc = "save" => /\ r.audit.kind = "dataset_import" => r.audit.version = 1
                           /\ r.audit.kind = "version_import" => r.op = "import"
\* The numbers of a history are the first ones.
Dense(versions) == IsFiniteSet(DOMAIN versions) /\ DOMAIN versions = 1..Cardinality(DOMAIN versions)
\* An import at work has the number that comes next, or one that was taken meanwhile.
ImportNumbered(r) ==
  r.op = "import" /\ r.pc \in {"counted", "save"} /\ r.audit.name \notin overtaken
    => /\ r.audit.version \in 1..NextVersion(r.audit.name)
       /\ ~r.raced => r.audit.version = NextVersion(r.audit.name)

VersionInv ==
  /\ NamesKnown
  /\ \A n \in Name \ overtaken : Dense(Lineage(n))
  /\ \A t \in Thread : ImportNumbered(req[t])
  /\ LineageDense

=============================================================================
