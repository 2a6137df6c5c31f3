--------------------------- MODULE RegistryProofs ---------------------------
(***************************************************************************)
(* Proofs about Registry: a stored file has an owner, a dataset that shows *)
(* an audit of a file shows the file's rows, the versions of a name are    *)
(* numbered without gaps, and a listed version keeps its number.           *)
(***************************************************************************)
EXTENDS Registry, FiniteSetTheorems, WellFoundedInduction, TLAPS

\* What the proofs need of the types: requests are records, and the numbers naturals.
Shape ==
  /\ req = [t \in Thread |-> req[t]]
  /\ \A t \in Thread : LET r == req[t] IN
       r = [pc |-> r.pc, op |-> r.op, audit |-> r.audit, todo |-> r.todo, raced |-> r.raced]
  /\ clock \in Nat /\ faults \in Nat

\* The request that Begin starts.
LEMMA BeginIs ==
  ASSUME NEW t, NEW op, NEW n, NEW k, NEW v, NEW s, Begin(t, op, n, k, v, s)
  PROVE  \E r : /\ r = [pc |-> r.pc, op |-> r.op, audit |-> r.audit, todo |-> r.todo, raced |-> r.raced]
               /\ r.pc = "save" /\ r.op = op
               /\ r.audit.at = clock + 1 /\ r.audit.source = s
               /\ req' = [req EXCEPT ![t] = r]
<1>1. PICK a, x : a = [at |-> clock + 1, name |-> n, kind |-> k, version |-> v, source |-> s] /\ x = req[t].raced
  OBVIOUS
<1>2. PICK r : r = [Idle EXCEPT !.pc = "save", !.op = op, !.raced = x, !.audit = a]
  OBVIOUS
<1>3. r = [pc |-> "save", op |-> op, audit |-> a, todo |-> {}, raced |-> x]
  BY <1>2 DEF Idle
<1>4. /\ r = [pc |-> r.pc, op |-> r.op, audit |-> r.audit, todo |-> r.todo, raced |-> r.raced]
      /\ r.pc = "save" /\ r.op = op /\ r.audit = a
  BY <1>3
<1>5. a.at = clock + 1 /\ a.source = s
  BY <1>1
<1>6. req' = [req EXCEPT ![t] = r]
  BY <1>1, <1>2 DEF Begin
<1>. QED BY <1>4, <1>5, <1>6

LEMMA ShapeStays == Shape /\ [Next]_registryVars => Shape'
<1>. SUFFICES ASSUME Shape, [Next]_registryVars PROVE Shape'
  OBVIOUS
<1>1. CASE UNCHANGED registryVars
  BY <1>1 DEF Shape, registryVars
<1>2. ASSUME NEW t \in Thread, NEW op, NEW n, NEW k, NEW v, NEW s, Begin(t, op, n, k, v, s) PROVE Shape'
  <2>1. PICK r : r = [pc |-> r.pc, op |-> r.op, audit |-> r.audit, todo |-> r.todo, raced |-> r.raced]
                 /\ req' = [req EXCEPT ![t] = r]
    BY <1>2, BeginIs
  <2>2. clock' \in Nat /\ faults' \in Nat
    BY <1>2 DEF Begin, Shape
  <2>. QED BY <2>1, <2>2 DEF Shape
<1>3. ASSUME NEW t \in Thread, NEW d, CountVersions(t, d) \/ DeleteDataset(t, d) PROVE Shape'
  BY <1>3 DEF Shape, CountVersions, DeleteDataset, CountEdit, Idle
<1>4. ASSUME NEW t \in Thread, NEW a, Revisit(t, a) PROVE Shape'
  BY <1>4 DEF Shape, Revisit, CountEdit, Idle
<1>5. ASSUME NEW t \in Thread, SaveAudit(t) PROVE Shape'
  BY <1>5 DEF Shape, SaveAudit
<1>6. ASSUME NEW t \in Thread, PersistExecutions(t) \/ FailRequest(t) \/ FailAndLeave(t) \/ UnlinkFiles(t) PROVE Shape'
  BY <1>6 DEF Shape, PersistExecutions, Raises, FailRequest, FailAndLeave, UnlinkFiles, Idle
<1>9. ASSUME NEW t \in Thread, RegisterAudit(t) PROVE Shape'
  BY <1>9 DEF Shape, RegisterAudit, Idle
<1>7. ASSUME NEW d, NEW n, CreateDataset(n) \/ RenameDataset(d, n) PROVE Shape'
  BY <1>7 DEF Shape, CreateDataset, RenameDataset, CountEdit
<1>8. ASSUME NEW t \in Thread, NEW n, NEW a, NEW s,
             \/ UploadAudit(t, n) \/ SampleAudit(t) \/ RerunAudit(t, a)
             \/ ApplyRemediation(t, a) \/ ImportDatasetVersion(t, s)
      PROVE  Shape'
  BY <1>8, <1>2 DEF UploadAudit, SampleAudit, RerunAudit, ApplyRemediation, ImportDatasetVersion
<1>. QED BY <1>1, <1>3, <1>4, <1>5, <1>6, <1>7, <1>8, <1>9 DEF Next

-----------------------------------------------------------------------------
(* Each kind of step keeps the invariant.                                  *)

Inv == Shape /\ RegistryInv

\* Which files have an owner: all but those left.
LEMMA OwnedAre ==
  /\ StoredFilesOwned <=> left \subseteq files /\ \A f \in files : Owned(f) <=> f \notin left
  /\ StoredFilesOwned' <=> left' \subseteq files' /\ \A f \in files' : Owned(f)' <=> f \notin left'
<1>1. StoredFilesOwned <=> left \subseteq files /\ \A f \in files : Owned(f) <=> f \notin left
  BY DEF StoredFilesOwned
<1>2. StoredFilesOwned' <=> left' \subseteq files' /\ \A f \in files' : Owned(f)' <=> f \notin left'
  BY DEF StoredFilesOwned
<1>. QED BY <1>1, <1>2

\* A request that computes an audit: its created_at is new, and so is its file.
LEMMA OfBegin ==
  ASSUME Inv, NEW t \in Thread, NEW op \in {"upload", "sample", "rerun", "remediate", "import"},
         NEW n, NEW k, NEW v, NEW s, op = "sample" => s = Null,
         req[t].pc # "save", Begin(t, op, n, k, v, s)
  PROVE  RegistryInv'
<1>1. PICK r : /\ r.pc = "save" /\ r.op = op
               /\ r.audit.at = clock + 1 /\ r.audit.source = s
               /\ req' = [req EXCEPT ![t] = r]
  BY BeginIs
<1>2. /\ clock \in Nat /\ clock' = clock + 1
      /\ files' = IF s = Null THEN files ELSE files \union {clock + 1}
      /\ UNCHANGED <<audits, faults, left, deleted>>
  BY DEF Begin, Inv, Shape
<1>3. req'[t] = r /\ \A u \in Thread \ {t} : req'[u] = req[u]
  BY <1>1 DEF Inv, Shape
<1>4. /\ files \subseteq 1..clock /\ clock + 1 \notin 1..clock /\ 1..clock \subseteq 1..clock' /\ clock' \in 1..clock'
      /\ r.pc = "save" /\ r.op = op /\ r.audit.at = clock' /\ r.audit.source = s
  BY <1>1, <1>2 DEF Inv, RegistryInv
<1>5. Saving' = Saving \union {t} /\ t \notin Saving
  BY <1>3, <1>4 DEF Saving
<1>6. AuditsApart'
  BY <1>2, <1>3, <1>4, <1>5 DEF Inv, RegistryInv, AuditsApart, Saving
<1>7. \A u \in Thread : RequestStage(req[u])'
  <2>1. RequestStage(r)'
    BY <1>2, <1>4 DEF RequestStage
  <2>2. ASSUME NEW u \in Thread \ {t} PROVE RequestStage(req[u])'
    <3>1. req'[u] = req[u] /\ RequestStage(req[u])
      BY <1>3 DEF Inv, RegistryInv
    <3>2. req[u].pc = "save" => req[u].audit.at # clock + 1
      BY <1>4 DEF Inv, RegistryInv, AuditsApart, Saving
    <3>. QED BY <3>1, <3>2, <1>2 DEF RequestStage
  <2>. QED BY <2>1, <2>2, <1>3
<1>8. FilesKept'
  BY <1>2 DEF Inv, RegistryInv, FilesKept
<1>9. StoredFilesOwned'
  <2>0. PICK at : at = clock + 1
    OBVIOUS
  <2>1. req'[t].pc = "save" /\ req'[t].audit.at = at
    BY <1>2, <1>3, <1>4, <2>0
  <2>2. Owned(at)'
    BY <2>1 DEF Owned
  <2>3. \A u \in Thread : req[u].pc = "save" => req'[u] = req[u]
    BY <1>3
  <2>4. ASSUME NEW f \in files PROVE Owned(f)' <=> Owned(f)
    BY <1>2, <1>3, <1>4, <2>0, <2>1, <2>3 DEF Owned
  <2>. QED BY <1>2, <1>4, <2>0, <2>2, <2>4, OwnedAre DEF Inv, RegistryInv
<1>10. files' \subseteq 1..clock'
  BY <1>2, <1>4
<1>. QED BY <1>6, <1>7, <1>8, <1>9, <1>10 DEF RegistryInv

\* A step that leaves audits and files alone, and the requests that are to save.
LEMMA OfOthers ==
  ASSUME Inv, UNCHANGED <<audits, files, clock, faults, left>>, deleted \subseteq deleted',
         \A u \in Thread : \/ req'[u] = req[u]
                           \/ req[u].pc # "save" /\ req'[u].pc # "save" /\ RequestStage(req[u])'
  PROVE  RegistryInv'
<1>1. Saving' = Saving /\ \A u \in Saving : req'[u] = req[u]
  BY DEF Saving
<1>2. AuditsApart'
  BY <1>1 DEF Inv, RegistryInv, AuditsApart
<1>3. \A u \in Thread : RequestStage(req[u])'
  BY DEF Inv, RegistryInv, RequestStage
<1>4. FilesKept'
  BY DEF Inv, RegistryInv, FilesKept
<1>5. StoredFilesOwned'
  <2>1. \A f : Owned(f)' <=> Owned(f)
    BY <1>1 DEF Owned, Saving
  <2>. QED BY <2>1, OwnedAre DEF Inv, RegistryInv
<1>. QED BY <1>2, <1>3, <1>4, <1>5 DEF Inv, RegistryInv

LEMMA OfSave ==
  ASSUME Inv, NEW t \in Thread, SaveAudit(t) PROVE RegistryInv'
<1>1. PICK a : a = req[t].audit /\ audits' = audits \union {a}
  BY DEF SaveAudit
<1>2. /\ t \in Saving /\ a.at \in 1..clock /\ (\A b \in audits : b.at # a.at) /\ RequestStage(req[t])
      /\ UNCHANGED <<files, clock, faults, left, deleted>>
  BY <1>1 DEF SaveAudit, Saving, Inv, RegistryInv, AuditsApart
<1>3. /\ req'[t].pc = "register" /\ req'[t].audit = a
      /\ \A u \in Thread \ {t} : /\ req'[u].pc = req[u].pc /\ req'[u].audit = req[u].audit
                                 /\ req'[u].op = req[u].op /\ req'[u].todo = req[u].todo
  BY <1>1 DEF SaveAudit, Inv, Shape
<1>4. Saving' = Saving \ {t} /\ \A u \in Saving' : req'[u].audit = req[u].audit
  BY <1>3 DEF Saving
<1>5. \A u \in Saving' : req[u].audit.at # a.at
  BY <1>1, <1>2, <1>4 DEF Inv, RegistryInv, AuditsApart
<1>6. AuditsApart'
  BY <1>1, <1>2, <1>4, <1>5 DEF Inv, RegistryInv, AuditsApart
<1>7. \A u \in Thread : RequestStage(req[u])'
  BY <1>1, <1>2, <1>3 DEF Inv, RegistryInv, RequestStage
<1>8. FilesKept'
  BY <1>1, <1>2 DEF Inv, RegistryInv, FilesKept, RequestStage, Saving
<1>9. StoredFilesOwned'
  <2>1. \A f : Owned(f)' <=> Owned(f)
    BY <1>1, <1>2, <1>3 DEF Owned, Saving
  <2>. QED BY <1>2, <2>1, OwnedAre DEF Inv, RegistryInv
<1>. QED BY <1>2, <1>6, <1>7, <1>8, <1>9 DEF Inv, RegistryInv

\* A failed request gives up its own file, which is no other request's, or leaves it.
LEMMA OfFailure ==
  ASSUME Inv, NEW t \in Thread, FailRequest(t) \/ FailAndLeave(t) PROVE RegistryInv'
<1>. PICK at : at = req[t].audit.at
  OBVIOUS
<1>1. /\ req[t].pc \in {"save", "register", "persist"} /\ faults' = faults + 1 /\ faults \in Nat
      /\ req'[t] = Idle /\ \A u \in Thread \ {t} : req'[u] = req[u]
      /\ UNCHANGED <<audits, clock, deleted>>
  BY DEF FailRequest, FailAndLeave, Raises, Inv, Shape
<1>2. \/ files' = files \ {at} /\ left' = left
      \/ files' = files /\ left' = IF req[t].pc = "save" THEN left \union (files \intersect {at}) ELSE left
  BY DEF FailRequest, FailAndLeave, CleanUp
<1>3. /\ Saving' = Saving \ {t} /\ (\A u \in Saving' : req'[u] = req[u])
      /\ \A u \in Saving' : req[u].audit.at # at
  <2>1. Saving' = Saving \ {t} /\ \A u \in Saving' : req'[u] = req[u]
    BY <1>1 DEF Saving, Idle
  <2>2. CASE req[t].pc = "save"
    BY <2>1, <2>2 DEF Inv, RegistryInv, AuditsApart, Saving
  <2>3. CASE req[t].pc \in {"register", "persist"}
    BY <2>1, <2>3 DEF Inv, RegistryInv, AuditsApart, RequestStage
  <2>. QED BY <1>1, <2>1, <2>2, <2>3
<1>4. AuditsApart'
  BY <1>1, <1>3 DEF Inv, RegistryInv, AuditsApart
<1>5. \A u \in Thread : RequestStage(req[u])'
  <2>1. RequestStage(Idle)'
    BY DEF RequestStage, Idle
  <2>2. ASSUME NEW u \in Thread \ {t} PROVE RequestStage(req[u])'
    <3>1. req[u].pc = "save" => req[u].audit.at # at
      BY <1>1, <1>3 DEF Saving
    <3>. QED BY <3>1, <1>1, <1>2 DEF Inv, RegistryInv, RequestStage
  <2>. QED BY <1>1, <2>1, <2>2
<1>6. FilesKept'
  BY <1>1 DEF FilesKept
<1>7. StoredFilesOwned'
  <2>1. ASSUME NEW f, f # at PROVE Owned(f)' <=> Owned(f)
    BY <1>1, <2>1 DEF Owned, Idle
  <2>2. CASE req[t].pc = "save"
    <3>1. Owned(at)
      BY <2>2 DEF Owned
    <3>2. ~Owned(at)'
      <4>1. \A a \in audits : a.at # at
        BY <2>2 DEF Inv, RegistryInv, AuditsApart, Saving
      <4>2. \A u \in Thread : req'[u].pc = "save" => req'[u].audit.at # at
        BY <1>3 DEF Saving
      <4>. QED BY <1>1, <4>1, <4>2 DEF Owned
    <3>. QED BY <1>2, <2>1, <2>2, <3>1, <3>2, OwnedAre DEF Inv, RegistryInv
  <2>3. CASE req[t].pc \in {"register", "persist"}
    <3>1. Owned(at) /\ Owned(at)'
      BY <1>1, <2>3 DEF Owned, Inv, RegistryInv, RequestStage
    <3>. QED BY <1>2, <2>1, <2>3, <3>1, OwnedAre DEF Inv, RegistryInv
  <2>. QED BY <1>1, <2>2, <2>3
<1>8. files' \subseteq 1..clock'
  BY <1>1, <1>2 DEF Inv, RegistryInv
<1>. QED BY <1>4, <1>5, <1>6, <1>7, <1>8 DEF RegistryInv

\* delete_dataset unlinks files of the dataset's name, and nobody else's.
LEMMA OfUnlink ==
  ASSUME Inv, NEW t \in Thread, UnlinkFiles(t) PROVE RegistryInv'
<1>1. /\ req[t].pc = "unlink" /\ faults \in Nat /\ (faults' = 0 => faults = 0)
      /\ req'[t] = Idle /\ \A u \in Thread \ {t} : req'[u] = req[u]
      /\ UNCHANGED <<audits, clock, left, deleted>>
  BY DEF UnlinkFiles, Inv, Shape
<1>2. files' \subseteq files /\ files \ files' \subseteq req[t].todo
  BY DEF UnlinkFiles
<1>3. \A x \in req[t].todo : \E a \in audits : a.at = x /\ a.name \in deleted
  BY <1>1 DEF Inv, RegistryInv, RequestStage
<1>4. /\ Saving' = Saving /\ (\A u \in Saving : req'[u] = req[u])
      /\ \A u \in Saving : req[u].audit.at \notin req[t].todo
  BY <1>1, <1>3 DEF Saving, Idle, Inv, RegistryInv, AuditsApart
<1>5. AuditsApart'
  BY <1>1, <1>4 DEF Inv, RegistryInv, AuditsApart
<1>6. \A u \in Thread : RequestStage(req[u])'
  <2>1. RequestStage(Idle)'
    BY DEF RequestStage, Idle
  <2>2. ASSUME NEW u \in Thread \ {t} PROVE RequestStage(req[u])'
    BY <1>1, <1>2, <1>4 DEF Inv, RegistryInv, RequestStage, Saving
  <2>. QED BY <1>1, <2>1, <2>2
<1>7. FilesKept'
  BY <1>1, <1>2, <1>3 DEF Inv, RegistryInv, FilesKept, AuditsApart
<1>8. StoredFilesOwned'
  <2>1. \A f : Owned(f)' <=> Owned(f)
    BY <1>1, <1>4 DEF Owned, Saving
  <2>2. \A f \in files \ files' : Owned(f)
    BY <1>2, <1>3 DEF Owned
  <2>. QED BY <1>1, <1>2, <2>1, <2>2, OwnedAre DEF Inv, RegistryInv
<1>. QED BY <1>1, <1>2, <1>5, <1>6, <1>7, <1>8 DEF Inv, RegistryInv

LEMMA InitInv == Init => Inv
<1>. SUFFICES ASSUME Init PROVE Inv
  OBVIOUS
<1>1. Shape
  BY DEF Init, Shape, Idle
<1>2. Saving = {} /\ audits = {} /\ files = {} /\ left = {}
  BY DEF Init, Saving, Idle
<1>3. \A t \in Thread : RequestStage(req[t])
  BY DEF Init, RequestStage, Idle
<1>. QED BY <1>1, <1>2, <1>3 DEF Inv, RegistryInv, AuditsApart, FilesKept, StoredFilesOwned

LEMMA NextInv == Inv /\ [Next]_registryVars => Inv'
<1>. SUFFICES ASSUME Inv, [Next]_registryVars PROVE RegistryInv'
  BY ShapeStays DEF Inv
<1>1. CASE UNCHANGED registryVars
  BY <1>1, OfOthers DEF registryVars
<1>2. ASSUME NEW t \in Thread, NEW n, UploadAudit(t, n) \/ SampleAudit(t) PROVE RegistryInv'
  <2>1. req[t].pc # "save"
    BY <1>2 DEF UploadAudit, SampleAudit, Idle
  <2>. QED BY <1>2, <2>1, OfBegin DEF UploadAudit, SampleAudit
<1>3. ASSUME NEW t \in Thread, NEW a \in audits, RerunAudit(t, a) \/ ApplyRemediation(t, a) PROVE RegistryInv'
  <2>1. req[t].pc # "save"
    BY <1>3 DEF RerunAudit, ApplyRemediation, Idle
  <2>. QED BY <1>3, <2>1, OfBegin DEF RerunAudit, ApplyRemediation
<1>4. ASSUME NEW t \in Thread, NEW s, ImportDatasetVersion(t, s) PROVE RegistryInv'
  BY <1>4, OfBegin DEF ImportDatasetVersion
<1>5. ASSUME NEW t \in Thread, NEW d, CountVersions(t, d) PROVE RegistryInv'
  <2>1. PICK r : r.pc = "counted" /\ req' = [req EXCEPT ![t] = r]
    BY <1>5 DEF CountVersions, Idle
  <2>2. req[t].pc # "save" /\ UNCHANGED <<audits, files, clock, faults, left, deleted>>
    BY <1>5 DEF CountVersions, Idle
  <2>3. req'[t].pc = "counted" /\ \A u \in Thread \ {t} : req'[u] = req[u]
    BY <2>1 DEF Inv, Shape
  <2>4. RequestStage(req[t])'
    BY <2>3 DEF RequestStage
  <2>. QED BY <2>2, <2>3, <2>4, OfOthers
<1>6. ASSUME NEW t \in Thread, NEW a \in audits, Revisit(t, a) PROVE RegistryInv'
  <2>1. req[t].pc # "save" /\ UNCHANGED <<audits, files, clock, faults, left, deleted>>
    BY <1>6 DEF Revisit, Idle
  <2>2. req'[t].pc = "register" /\ req'[t].audit = a /\ \A u \in Thread \ {t} : req'[u] = req[u]
    BY <1>6 DEF Revisit, Idle, Inv, Shape
  <2>3. RequestStage(req[t])'
    BY <2>1, <2>2 DEF RequestStage
  <2>. QED BY <2>1, <2>2, <2>3, OfOthers
<1>7. ASSUME NEW t \in Thread, RegisterAudit(t) PROVE RegistryInv'
  <2>1. req[t].pc # "save" /\ UNCHANGED <<audits, files, clock, faults, left, deleted>>
    BY <1>7 DEF RegisterAudit
  <2>2. \A u \in Thread \ {t} : req'[u] = req[u]
    BY <1>7 DEF RegisterAudit, Inv, Shape
  <2>3. req'[t].pc = "idle" \/ (req'[t].pc = "persist" /\ req'[t].audit = req[t].audit)
    BY <1>7 DEF RegisterAudit, Idle, Inv, Shape
  <2>4. req[t].audit \in audits
    BY <1>7 DEF RegisterAudit, Inv, RegistryInv, RequestStage
  <2>5. req'[t].pc # "save" /\ RequestStage(req[t])'
    BY <2>1, <2>3, <2>4 DEF RequestStage
  <2>. QED BY <2>1, <2>2, <2>5, OfOthers
<1>10. ASSUME NEW t \in Thread, PersistExecutions(t) PROVE RegistryInv'
  <2>1. /\ req[t].pc # "save" /\ UNCHANGED <<audits, files, clock, faults, left, deleted>>
        /\ req'[t].pc = "idle" /\ \A u \in Thread \ {t} : req'[u] = req[u]
    BY <1>10 DEF PersistExecutions, Idle, Inv, Shape
  <2>2. RequestStage(req[t])'
    BY <2>1 DEF RequestStage
  <2>. QED BY <2>1, <2>2, OfOthers
<1>8. ASSUME NEW n, NEW d, CreateDataset(n) \/ RenameDataset(d, n) PROVE RegistryInv'
  BY <1>8, OfOthers DEF CreateDataset, RenameDataset
<1>9. ASSUME NEW t \in Thread, NEW d, DeleteDataset(t, d) PROVE RegistryInv'
  <2>1. /\ req[t].pc # "save" /\ UNCHANGED <<audits, files, clock, faults, left>>
        /\ deleted' = deleted \union {rows[d].name}
    BY <1>9 DEF DeleteDataset, Idle
  <2>2. /\ req'[t].pc = "unlink" /\ req'[t].todo = {a.at : a \in {b \in Named(rows[d].name) : b.source # Null}}
        /\ \A u \in Thread \ {t} : req'[u] = req[u]
    BY <1>9 DEF DeleteDataset, Idle, Inv, Shape
  <2>3. RequestStage(req[t])'
    BY <2>1, <2>2 DEF RequestStage, Named
  <2>. QED BY <2>1, <2>2, <2>3, OfOthers
<1>. QED BY <1>1, <1>2, <1>3, <1>4, <1>5, <1>6, <1>7, <1>8, <1>9, <1>10, OfSave, OfFailure, OfUnlink DEF Next

-----------------------------------------------------------------------------
(* Theorems.                                                               *)

\* The invariant that the two properties rest on: audits apart by created_at, the
\* file of each request at work, and the files that a deletion will take.
THEOREM RegistryInvariant == Spec => []RegistryInv
<1>1. Inv => RegistryInv
  BY DEF Inv
<1>. QED BY <1>1, InitInv, NextInv, PTL DEF Spec

\* save_dataset_file and the handlers' clean-up leave files without an audit and a
\* request at work exactly where a failing request has no clean-up, or a refused one.
THEOREM FilesOwned == Spec => []StoredFilesOwned
<1>1. Inv => StoredFilesOwned
  BY DEF Inv, RegistryInv
<1>. QED BY <1>1, InitInv, NextInv, PTL DEF Spec

\* preview_dataset finds the file of the audit that the row shows, until a dataset of
\* the audit's name is deleted or a transaction fails.
THEOREM ShownHasRows == Spec => []PreviewShowsRows
<1>1. Inv => PreviewShowsRows
  <2>1. SUFFICES ASSUME Inv, NEW d \in Id, NEW a \in audits, rows[d].latest = a.at,
                        a.source # Null, a.name \notin deleted, faults = 0
                 PROVE  Preview(d) = "rows"
    BY DEF PreviewShowsRows
  <2>2. a.at \in files /\ a.at \in 1..clock
    BY <2>1 DEF Inv, RegistryInv, FilesKept, AuditsApart
  <2>3. a.at # Null
    BY <2>2, NullAssumption
  <2>. QED BY <2>1, <2>2, <2>3 DEF Preview
<1>. QED BY <1>1, InitInv, NextInv, PTL DEF Spec

-----------------------------------------------------------------------------
(* The replay of a history.                                                *)

\* Of the numbers that are bad there is a least one.
LEMMA LeastTick ==
  ASSUME NEW S \in SUBSET Nat, S # {}
  PROVE  \E x \in S : \A y \in S : x <= y
<1>1. IsWellFoundedOn(OpToRel(<, Nat), Nat)
  BY NatLessThanWellFounded, Zenon
<1>2. PICK x \in S : \A y \in S : ~(<<y, x>> \in OpToRel(<, Nat))
  BY <1>1, WFMin, Zenon
<1>3. \A y \in S : ~(y < x)
  BY <1>2 DEF OpToRel
<1>. QED BY <1>3

\* The recursive definition of Replay has a solution, so that Replay is one.
LEMMA ReplayStep ==
  ASSUME NEW A
  PROVE  /\ MaxAudits >= 0 => Replay(A)[0] = NoVersions
         /\ \A i \in 1..MaxAudits : Replay(A)[i] = ReplayTick(Replay(A)[i - 1], {a \in A : a.at = i})
<1>. DEFINE Is(f, n) == f = [i \in 0..n |-> IF i = 0 THEN NoVersions ELSE ReplayTick(f[i - 1], {a \in A : a.at = i})]
<1>1. \A n \in Nat : \E f : Is(f, n)
  <2>. DEFINE Bad == {n \in Nat : ~ \E f : Is(f, n)}
  <2>1. SUFFICES ASSUME Bad # {} PROVE FALSE
    OBVIOUS
  <2>2. PICK n \in Bad : \A m \in Bad : n <= m
    <3>1. Bad \in SUBSET Nat
      OBVIOUS
    <3>. HIDE DEF Bad
    <3>. QED BY <2>1, <3>1, LeastTick
  <2>3. CASE n = 0
    <3>1. PICK f : f = [i \in 0..0 |-> NoVersions]
      OBVIOUS
    <3>2. Is(f, 0)
      BY <3>1
    <3>. QED BY <3>2, <2>2, <2>3
  <2>4. CASE n # 0
    <3>0. n \in Nat
      BY <2>2
    <3>1. n - 1 \in Nat /\ ~(n <= n - 1)
      BY <3>0, <2>4
    <3>. HIDE DEF Is
    <3>2. PICK f : Is(f, n - 1)
      BY <3>1, <2>2
    <3>. USE DEF Is
    <3>3. PICK g : g = [i \in 0..n |-> IF i = n THEN ReplayTick(f[n - 1], {a \in A : a.at = n}) ELSE f[i]]
      OBVIOUS
    <3>4. \A i \in 0..(n - 1) : g[i] = f[i]
      BY <3>0, <3>1, <3>3
    <3>5. g[n] = ReplayTick(g[n - 1], {a \in A : a.at = n})
      BY <3>0, <3>1, <3>3, <3>4
    <3>6. ASSUME NEW i \in 0..n
          PROVE  g[i] = IF i = 0 THEN NoVersions ELSE ReplayTick(g[i - 1], {a \in A : a.at = i})
      <4>1. CASE i = n
        BY <4>1, <3>5, <2>4
      <4>2. CASE i # n
        <5>1. i \in 0..(n - 1) /\ (i # 0 => i - 1 \in 0..(n - 1))
          BY <3>0, <4>2
        <5>2. f[i] = IF i = 0 THEN NoVersions ELSE ReplayTick(f[i - 1], {a \in A : a.at = i})
          BY <3>2, <5>1
        <5>. QED BY <5>1, <5>2, <3>4
      <4>. QED BY <4>1, <4>2
    <3>7. Is(g, n)
      BY <3>3, <3>6
    <3>. QED BY <3>7, <2>2
  <2>. QED BY <2>3, <2>4
<1>2. PICK g : Is(g, MaxAudits)
  BY <1>1, RegistryAssumption
<1>. DEFINE F == CHOOSE f : Is(f, MaxAudits)
<1>3. Is(F, MaxAudits)
  BY <1>2
<1>4. Replay(A) = F
  BY DEF Replay
<1>5. F = [i \in 0..MaxAudits |-> IF i = 0 THEN NoVersions ELSE ReplayTick(F[i - 1], {a \in A : a.at = i})]
  BY <1>3
<1>. HIDE DEF F, Is
<1>6. MaxAudits \in Nat
  BY RegistryAssumption
<1>7. \A i \in 0..MaxAudits : F[i] = IF i = 0 THEN NoVersions ELSE ReplayTick(F[i - 1], {a \in A : a.at = i})
  <2>1. PICK G : G = F
    OBVIOUS
  <2>2. F = [i \in 0..MaxAudits |-> IF i = 0 THEN NoVersions ELSE ReplayTick(G[i - 1], {a \in A : a.at = i})]
    BY <1>5, <2>1
  <2>. QED BY <2>1, <2>2
<1>8. F[0] = NoVersions
  <2>1. 0 \in 0..MaxAudits
    BY <1>6
  <2>. QED BY <1>7, <2>1
<1>9. ASSUME NEW i \in 1..MaxAudits PROVE F[i] = ReplayTick(F[i - 1], {a \in A : a.at = i})
  <2>1. i \in 0..MaxAudits /\ i # 0
    BY <1>6
  <2>. QED BY <1>7, <2>1
<1>. QED BY <1>4, <1>8, <1>9

\* Histories that agree up to a tick are replayed alike up to it.
LEMMA ReplaySame ==
  ASSUME NEW A, NEW B, NEW n \in 0..MaxAudits,
         \A a : a.at \in 1..n => (a \in A <=> a \in B)
  PROVE  Replay(A)[n] = Replay(B)[n]
<1>. DEFINE Bad == {i \in 0..n : Replay(A)[i] # Replay(B)[i]}
<1>1. SUFFICES ASSUME Bad # {} PROVE FALSE
  BY RegistryAssumption
<1>2. PICK i \in Bad : \A j \in Bad : i <= j
  <2>1. Bad \in SUBSET Nat
    OBVIOUS
  <2>. HIDE DEF Bad
  <2>. QED BY <1>1, <2>1, LeastTick
<1>3. i # 0
  BY ReplayStep, RegistryAssumption
<1>4. i \in 1..n /\ i \in 1..MaxAudits /\ i - 1 \in 0..n /\ i - 1 \notin Bad
  BY <1>2, <1>3, RegistryAssumption
<1>5. Replay(A)[i - 1] = Replay(B)[i - 1]
  BY <1>4
<1>6. Replay(A)[i] = Replay(B)[i]
  <2>1. Replay(A)[i] = ReplayTick(Replay(A)[i - 1], {a \in A : a.at = i})
    BY <1>4, ReplayStep
  <2>2. Replay(B)[i] = ReplayTick(Replay(B)[i - 1], {a \in B : a.at = i})
    BY <1>4, ReplayStep
  <2>3. {a \in A : a.at = i} = {a \in B : a.at = i}
    BY <1>4
  <2>. QED BY <1>4, <1>5, <2>1, <2>2, <2>3
<1>. QED BY <1>6

\* Ticks without an audit change nothing.
LEMMA ReplayQuiet ==
  ASSUME NEW A, NEW n \in 0..MaxAudits, NEW m \in 0..n,
         \A a \in A : a.at \notin (m + 1)..n
  PROVE  Replay(A)[n] = Replay(A)[m]
<1>. DEFINE Bad == {i \in m..n : Replay(A)[i] # Replay(A)[m]}
<1>1. SUFFICES ASSUME Bad # {} PROVE FALSE
  BY RegistryAssumption
<1>2. PICK i \in Bad : \A j \in Bad : i <= j
  <2>1. Bad \in SUBSET Nat
    OBVIOUS
  <2>. HIDE DEF Bad
  <2>. QED BY <1>1, <2>1, LeastTick
<1>3. i # m
  OBVIOUS
<1>4. i \in (m + 1)..n /\ i \in 1..MaxAudits /\ i - 1 \in m..n /\ i - 1 \notin Bad
  BY <1>2, <1>3, RegistryAssumption
<1>5. {a \in A : a.at = i} = {}
  BY <1>4
<1>6. Replay(A)[i] = Replay(A)[i - 1]
  BY <1>4, <1>5, ReplayStep DEF ReplayTick
<1>. QED BY <1>4, <1>6

\* An audit that is newer than all the others comes last.
LEMMA ReplayLast ==
  ASSUME NEW A, NEW n \in 0..MaxAudits, NEW a, a.at \in 1..n,
         \A b \in A : b.at \in 1..n /\ b.at < a.at
  PROVE  Replay(A \union {a})[n] = Reconstruct(Replay(A)[n], a)
<1>. DEFINE B == A \union {a}
            m == a.at
<1>1. m \in 1..MaxAudits /\ m - 1 \in 0..MaxAudits /\ m \in 0..n /\ m \in Nat /\ n \in Nat /\ m - 1 \in 0..n
  BY RegistryAssumption
<1>2. Replay(B)[n] = Replay(B)[m]
  <2>1. \A b \in B : b.at \notin (m + 1)..n
    BY <1>1
  <2>. QED BY <2>1, <1>1, ReplayQuiet
<1>3. Replay(A)[n] = Replay(A)[m - 1]
  <2>1. \A b \in A : b.at \notin ((m - 1) + 1)..n
    BY <1>1
  <2>. QED BY <2>1, <1>1, ReplayQuiet
<1>4. Replay(B)[m - 1] = Replay(A)[m - 1]
  <2>1. \A b : b.at \in 1..(m - 1) => (b \in B <=> b \in A)
    BY <1>1
  <2>2. m - 1 \in 0..MaxAudits
    BY <1>1
  <2>. HIDE DEF B
  <2>. QED BY <2>1, <2>2, ReplaySame
<1>5. {b \in B : b.at = m} = {a}
  BY <1>1
<1>6. Replay(B)[m] = ReplayTick(Replay(B)[m - 1], {a})
  BY <1>1, <1>5, ReplayStep
<1>7. \A acc : ReplayTick(acc, {a}) = Reconstruct(acc, a)
  BY DEF ReplayTick
<1>. QED BY <1>2, <1>3, <1>4, <1>6, <1>7

\* SetDefault keeps what is there, and adds at most the next number.
LEMMA SetDefaultDense ==
  ASSUME NEW w, NEW k \in Nat, DOMAIN w = 1..k, NEW v \in 1..(k + 1), NEW a
  PROVE  /\ DOMAIN SetDefault(w, v, a) = 1..(IF v = k + 1 THEN k + 1 ELSE k)
         /\ \A u \in 1..k : SetDefault(w, v, a)[u] = w[u]
         /\ v = k + 1 => SetDefault(w, v, a)[k + 1] = a
<1>1. DOMAIN SetDefault(w, v, a) = 1..k \union {v}
  BY DEF SetDefault
<1>2. 1..k \union {v} = 1..(IF v = k + 1 THEN k + 1 ELSE k)
  OBVIOUS
<1>3. \A u \in 1..k \union {v} : SetDefault(w, v, a)[u] = IF u \in 1..k THEN w[u] ELSE a
  BY DEF SetDefault
<1>. QED BY <1>1, <1>2, <1>3

\* One more audit keeps the listed versions, and adds at most the next number.
LEMMA ReconstructDense ==
  ASSUME NEW acc, NEW k \in Nat, DOMAIN acc.versions = 1..k, NEW a,
         a.kind = "dataset_import" => a.version = 1,
         a.kind = "version_import" => a.version \in 1..(k + 1)
  PROVE  LET w == Reconstruct(acc, a).versions IN
         /\ DOMAIN w = 1..k \/ DOMAIN w = 1..(k + 1)
         /\ \A u \in 1..k : w[u] = acc.versions[u]
         /\ a.kind = "version_import" /\ a.version = k + 1 => DOMAIN w = 1..(k + 1) /\ w[k + 1] = a
<1>0. ASSUME NEW v \in 1..(k + 1), NEW w, w = SetDefault(acc.versions, v, a)
      PROVE  /\ DOMAIN w = 1..k \/ DOMAIN w = 1..(k + 1)
             /\ \A u \in 1..k : w[u] = acc.versions[u]
             /\ v = k + 1 => DOMAIN w = 1..(k + 1) /\ w[k + 1] = a
  <2>1. PICK h : h = acc.versions
    OBVIOUS
  <2>2. DOMAIN h = 1..k
    BY <2>1
  <2>3. w = SetDefault(h, v, a)
    BY <1>0, <2>1
  <2>4. /\ DOMAIN w = 1..(IF v = k + 1 THEN k + 1 ELSE k)
        /\ \A u \in 1..k : w[u] = h[u]
        /\ v = k + 1 => w[k + 1] = a
    BY <2>2, <2>3, SetDefaultDense
  <2>. QED BY <2>1, <2>4
<1>1. CASE a.kind \in {"dataset_import", "version_import"} /\ a.version > 0
  <2>1. Reconstruct(acc, a).versions = SetDefault(acc.versions, a.version, a)
    BY <1>1 DEF Reconstruct
  <2>2. a.version \in 1..(k + 1)
    BY <1>1
  <2>. QED BY <2>1, <2>2, <1>0
<1>2. CASE ~(a.kind \in {"dataset_import", "version_import"} /\ a.version > 0)
  <2>0. a.kind # "version_import"
    BY <1>2
  <2>1. CASE a.kind \in {"rerun", "sample"}
    BY <1>2, <2>0, <2>1 DEF Reconstruct
  <2>2. CASE a.kind \notin {"rerun", "sample"} /\ DOMAIN acc.versions = {}
    <3>1. Reconstruct(acc, a).versions = SetDefault(acc.versions, 1, a)
      BY <1>2, <2>2 DEF Reconstruct
    <3>2. 1 \in 1..(k + 1)
      OBVIOUS
    <3>. QED BY <2>0, <3>1, <3>2, <1>0
  <2>3. CASE a.kind \notin {"rerun", "sample"} /\ DOMAIN acc.versions # {}
    <3>1. k \in 1..k /\ \A x \in 1..k : x <= k
      BY <2>3
    <3>2. Largest(1..k) = k
      BY <3>1 DEF Largest
    <3>3. k + 1 \in 1..(k + 1)
      OBVIOUS
    <3>4. CASE a.source # Null /\ a.source # acc.last
      <4>1. Reconstruct(acc, a).versions = SetDefault(acc.versions, k + 1, a)
        BY <1>2, <2>3, <3>2, <3>4 DEF Reconstruct
      <4>. QED BY <2>0, <3>3, <4>1, <1>0
    <3>5. CASE ~(a.source # Null /\ a.source # acc.last)
      BY <1>2, <2>0, <2>3, <3>5 DEF Reconstruct
    <3>. QED BY <3>4, <3>5
  <2>. QED BY <2>1, <2>2, <2>3
<1>. QED BY <1>1, <1>2

-----------------------------------------------------------------------------
(* Histories through the steps.                                            *)

LEMMA DenseIs ==
  ASSUME NEW w, Dense(w)
  PROVE  \E k \in Nat : DOMAIN w = 1..k /\ Cardinality(DOMAIN w) = k
<1>1. Cardinality(DOMAIN w) \in Nat
  BY FS_CardinalityType DEF Dense
<1>. QED BY <1>1 DEF Dense

LEMMA IsDense ==
  ASSUME NEW w, NEW k \in Nat, DOMAIN w = 1..k
  PROVE  /\ Dense(w) /\ Cardinality(DOMAIN w) = k
         /\ \A v \in DOMAIN w : Cardinality({u \in DOMAIN w : u <= v}) = v
<1>1. IsFiniteSet(1..k) /\ Cardinality(1..k) = k
  BY FS_Interval
<1>2. ASSUME NEW v \in DOMAIN w PROVE Cardinality({u \in DOMAIN w : u <= v}) = v
  <2>1. {u \in DOMAIN w : u <= v} = 1..v
    OBVIOUS
  <2>2. v \in Nat /\ v >= 1
    OBVIOUS
  <2>3. Cardinality(1..v) = v
    BY <2>2, FS_Interval
  <2>. QED BY <2>1, <2>3
<1>. QED BY <1>1, <1>2 DEF Dense

VInv == Inv /\ VersionInv

\* A history is the same as long as its audits are, whatever is being computed.
LEMMA LineageSame ==
  ASSUME VInv, NEW n, Named(n)' = Named(n), clock' \in 0..MaxAudits, clock' \in {clock, clock + 1}
  PROVE  Lineage(n)' = Lineage(n)
<1>1. PICK A, c, d : A = Named(n) /\ c = clock /\ d = clock'
  OBVIOUS
<1>2. /\ c \in 0..d /\ d \in 0..MaxAudits /\ d \in {c, c + 1} /\ c \in Nat
      /\ \A a \in A : a.at \in 1..c
  BY <1>1 DEF VInv, VersionInv, NamesKnown, Inv, RegistryInv, AuditsApart, Named
<1>3. \A a \in A : a.at \notin (c + 1)..d
  BY <1>2
<1>4. Replay(A)[d] = Replay(A)[c]
  BY <1>2, <1>3, ReplayQuiet
<1>5. Lineage(n) = Replay(A)[c].versions
  BY <1>1 DEF Lineage
<1>6. Lineage(n)' = Replay(A)[d].versions
  BY <1>1 DEF Lineage
<1>. QED BY <1>4, <1>5, <1>6

\* SaveAudit adds one audit to the history of its name, and touches no other history.
LEMMA LineageSaved ==
  ASSUME VInv, NEW t \in Thread, SaveAudit(t), NEW a, a = req[t].audit
  PROVE  /\ Named(a.name)' = Named(a.name) \union {a}
         /\ \A n : n # a.name => Named(n)' = Named(n)
  BY DEF SaveAudit, Named

\* From one history of a name to the next: the listed versions stay, at most the
\* next number is added, and an import that nothing raced is what it adds.
Grown(before, after, a, isRaced) ==
  \E k \in Nat, l \in Nat :
    /\ l \in {k, k + 1}
    /\ DOMAIN before = 1..k /\ DOMAIN after = 1..l
    /\ \A u \in 1..k : after[u] = before[u]
    /\ a.kind = "version_import" /\ ~isRaced => l = k + 1 /\ a.version = k + 1 /\ after[k + 1] = a

LEMMA HistoryGrows ==
  ASSUME VInv, NEW t \in Thread, SaveAudit(t), NEW a, a = req[t].audit, a.name \notin overtaken'
  PROVE  Grown(Lineage(a.name), Lineage(a.name)', a, req[t].raced)
<1>1. PICK A, c, x : A = Named(a.name) /\ c = clock /\ x = req[t].raced
  OBVIOUS
<1>2. /\ Named(a.name)' = A \union {a} /\ clock' = c /\ c \in 0..MaxAudits
      /\ a.name \in Name /\ a.name \notin overtaken
  <2>1. a.name \in Name
    BY DEF SaveAudit, VInv, VersionInv, NamesKnown
  <2>. QED BY <1>1, <2>1, LineageSaved DEF SaveAudit, VInv, VersionInv, NamesKnown
<1>3. /\ a.at \in 1..c
      /\ \A b \in A : b.at \in 1..c /\ b.at < a.at
  <2>1. t \in Saving /\ c \in Nat
    BY <1>1, <1>2 DEF SaveAudit, Saving
  <2>2. a.at \in 1..c /\ \A b \in A : b.at \in 1..c /\ b.at # a.at
    BY <1>1, <2>1 DEF VInv, Inv, RegistryInv, AuditsApart, Named
  <2>3. \A b \in A : ~(b.at > a.at)
    BY <1>1 DEF SaveAudit
  <2>. QED BY <2>1, <2>2, <2>3
<1>4. Replay(A \union {a})[c] = Reconstruct(Replay(A)[c], a)
  BY <1>2, <1>3, ReplayLast
<1>5. PICK acc, w : acc = Replay(A)[c] /\ w = Reconstruct(acc, a).versions
  OBVIOUS
<1>6. Lineage(a.name) = acc.versions
  BY <1>1, <1>5 DEF Lineage
<1>7. Lineage(a.name)' = w
  BY <1>2, <1>4, <1>5 DEF Lineage
<1>8. PICK k \in Nat : DOMAIN acc.versions = 1..k /\ LatestVersion(a.name) = k
  <2>1. Dense(Lineage(a.name))
    BY <1>2 DEF VInv, VersionInv
  <2>2. PICK h : h = acc.versions
    OBVIOUS
  <2>3. Dense(h)
    BY <1>6, <2>1, <2>2
  <2>4. \E k \in Nat : DOMAIN h = 1..k /\ Cardinality(DOMAIN h) = k
    BY <2>3, DenseIs
  <2>. QED BY <1>6, <2>2, <2>4 DEF LatestVersion
<1>9. /\ a.kind = "dataset_import" => a.version = 1
      /\ a.kind = "version_import" => a.version \in 1..(k + 1) /\ (~x => a.version = k + 1)
  <2>1. PICK q : q = req[t]
    OBVIOUS
  <2>2. ImportNumbered(q)
    BY <2>1 DEF VInv, VersionInv
  <2>3. /\ q.pc = "save" /\ q.audit = a /\ q.raced = x
        /\ a.kind = "dataset_import" => a.version = 1
        /\ a.kind = "version_import" => q.op = "import"
    BY <1>1, <2>1 DEF SaveAudit, VInv, VersionInv, NamesKnown
  <2>. QED BY <1>2, <1>8, <2>2, <2>3 DEF ImportNumbered, NextVersion
<1>10. /\ DOMAIN w = 1..k \/ DOMAIN w = 1..(k + 1)
       /\ \A u \in 1..k : w[u] = acc.versions[u]
       /\ a.kind = "version_import" /\ a.version = k + 1 => DOMAIN w = 1..(k + 1) /\ w[k + 1] = a
  <2>1. a.kind = "dataset_import" => a.version = 1
    BY <1>9
  <2>2. a.kind = "version_import" => a.version \in 1..(k + 1)
    BY <1>9
  <2>. QED BY <1>5, <1>8, <2>1, <2>2, ReconstructDense
<1>11. PICK l \in {k, k + 1} : DOMAIN w = 1..l /\ (a.kind = "version_import" /\ a.version = k + 1 => l = k + 1)
  BY <1>10
<1>12. l \in Nat
  BY <1>11
<1>. QED BY <1>1, <1>6, <1>7, <1>8, <1>9, <1>10, <1>11, <1>12 DEF Grown

-----------------------------------------------------------------------------
(* Each kind of step keeps the invariant of the versions.                  *)

\* A step that saves nothing.
LEMMA VOthers ==
  ASSUME VInv, UNCHANGED <<audits, overtaken, raced>>, clock' \in {clock, clock + 1}, NamesKnown',
         \A u \in Thread : req'[u] = req[u] \/ ImportNumbered(req[u])'
  PROVE  VersionInv'
<1>1. ASSUME NEW n PROVE Lineage(n)' = Lineage(n)
  <2>1. Named(n)' = Named(n) /\ clock' \in 0..MaxAudits
    BY DEF Named, NamesKnown
  <2>. QED BY <2>1, LineageSame
<1>2. \A n \in Name \ overtaken' : Dense(Lineage(n))'
  BY <1>1 DEF VInv, VersionInv, Dense
<1>3. ASSUME NEW u \in Thread PROVE ImportNumbered(req[u])'
  <2>1. \A n : NextVersion(n)' = NextVersion(n)
    BY <1>1 DEF NextVersion, LatestVersion
  <2>2. req'[u] = req[u] => ImportNumbered(req[u])'
    BY <2>1 DEF VInv, VersionInv, ImportNumbered
  <2>. QED BY <2>2
<1>4. LineageDense'
  <2>1. \A n, v : ShownNumber(n, v)' = ShownNumber(n, v)
    BY <1>1 DEF ShownNumber
  <2>. QED BY <1>1, <2>1 DEF VInv, VersionInv, LineageDense
<1>. QED BY <1>2, <1>3, <1>4 DEF VersionInv

\* A request that computes an audit; an import's carries the number it counted.
LEMMA VBegin ==
  ASSUME VInv, NEW t \in Thread, NEW op, NEW n \in Name, NEW k, NEW v, NEW s,
         k = "dataset_import" => v = 1,
         k = "version_import" => op = "import",
         op = "import" => /\ req[t].op = "import" /\ req[t].pc = "counted"
                          /\ req[t].audit.name = n /\ req[t].audit.version = v,
         Begin(t, op, n, k, v, s)
  PROVE  VersionInv'
<1>1. PICK a, x : a = [at |-> clock + 1, name |-> n, kind |-> k, version |-> v, source |-> s] /\ x = req[t].raced
  OBVIOUS
<1>2. PICK r : r = [Idle EXCEPT !.pc = "save", !.op = op, !.raced = x, !.audit = a]
  OBVIOUS
<1>3. r.pc = "save" /\ r.op = op /\ r.audit = a /\ r.raced = x
  BY <1>2 DEF Idle
<1>4. a.name = n /\ a.kind = k /\ a.version = v
  BY <1>1
<1>5. /\ req' = [req EXCEPT ![t] = r]
      /\ clock < MaxAudits /\ clock' = clock + 1 /\ clock \in 0..MaxAudits
      /\ UNCHANGED <<audits, rows, overtaken, raced>>
  BY <1>1, <1>2 DEF Begin, VInv, VersionInv, NamesKnown
<1>6. req'[t] = r /\ \A u \in Thread \ {t} : req'[u] = req[u]
  BY <1>5 DEF VInv, Inv, Shape
<1>7. clock' \in 0..MaxAudits
  BY <1>5, RegistryAssumption
<1>8. NamesKnown'
  <2>1. r.audit.name \in Name /\ r.pc = "save" /\ (r.audit.kind = "dataset_import" => r.audit.version = 1)
        /\ (r.audit.kind = "version_import" => r.op = "import")
    BY <1>3, <1>4
  <2>. QED BY <1>5, <1>6, <1>7, <2>1 DEF VInv, VersionInv, NamesKnown
<1>9. ImportNumbered(req[t])'
  <2>1. PICK q : q = req[t]
    OBVIOUS
  <2>2. ImportNumbered(q)
    BY <2>1 DEF VInv, VersionInv
  <2>3. op = "import" => q.op = "import" /\ q.pc = "counted" /\ q.audit.name = n /\ q.audit.version = v /\ q.raced = x
    BY <1>1, <2>1
  <2>4. Named(n)' = Named(n)
    BY <1>5 DEF Named
  <2>5. Lineage(n)' = Lineage(n)
    BY <1>5, <1>7, <2>4, LineageSame
  <2>6. NextVersion(n)' = NextVersion(n)
    BY <2>5 DEF NextVersion, LatestVersion
  <2>7. ImportNumbered(r)'
    BY <1>3, <1>4, <1>5, <2>2, <2>3, <2>6 DEF ImportNumbered
  <2>. QED BY <1>6, <2>7
<1>. QED BY <1>5, <1>6, <1>8, <1>9, VOthers

\* AuditStore.save: what it adds to one history, and the imports that it outdates.
LEMMA VSave ==
  ASSUME VInv, NEW t \in Thread, SaveAudit(t) PROVE VersionInv'
<1>1. PICK a, x : a = req[t].audit /\ x = req[t].raced
  OBVIOUS
<1>2. /\ req[t].pc = "save" /\ audits' = audits \union {a} /\ overtaken \subseteq overtaken'
      /\ raced \subseteq raced' /\ (x => a.at \in raced')
      /\ overtaken' \subseteq overtaken \union {a.name}
      /\ UNCHANGED <<rows, clock>>
      /\ a.name \in Name
  BY <1>1 DEF SaveAudit, VInv, VersionInv, NamesKnown
<1>3. /\ req'[t].pc = "register"
      /\ \A u \in Thread \ {t} : \/ req'[u] = req[u] /\ u \notin Outdated(t)
                                 \/ req'[u] = [req[u] EXCEPT !.raced = TRUE] /\ u \in Outdated(t)
  BY DEF SaveAudit, VInv, Inv, Shape
<1>4. \A u \in Thread \ {t} : /\ req'[u].pc = req[u].pc /\ req'[u].audit = req[u].audit
                              /\ req'[u].op = req[u].op
                              /\ u \notin Outdated(t) => req'[u].raced = req[u].raced
                              /\ u \in Outdated(t) => req'[u].raced = TRUE
  BY <1>3 DEF VInv, Inv, Shape
<1>5. NamesKnown'
  BY <1>2, <1>3, <1>4 DEF VInv, VersionInv, NamesKnown
<1>6. ASSUME NEW n, n # a.name PROVE Lineage(n)' = Lineage(n)
  <2>1. Named(n)' = Named(n)
    BY <1>1, <1>6, LineageSaved
  <2>2. clock' \in 0..MaxAudits /\ clock' \in {clock, clock + 1}
    BY <1>2 DEF VInv, VersionInv, NamesKnown
  <2>. QED BY <2>1, <2>2, LineageSame
<1>7. ASSUME a.name \notin overtaken'
      PROVE  Grown(Lineage(a.name), Lineage(a.name)', a, req[t].raced)
  <2>1. a = req[t].audit
    BY <1>1
  <2>. QED BY <2>1, <1>7, HistoryGrows
<1>8. ASSUME NEW n \in Name, n \notin overtaken' PROVE Dense(Lineage(n))'
  <2>1. CASE n = a.name
    <3>1. PICK l \in Nat : DOMAIN Lineage(a.name)' = 1..l
      BY <1>7, <1>8, <2>1 DEF Grown
    <3>2. PICK w : w = Lineage(a.name)'
      OBVIOUS
    <3>3. Dense(w)
      BY <3>1, <3>2, IsDense
    <3>. QED BY <2>1, <3>2, <3>3 DEF Dense
  <2>2. CASE n # a.name
    BY <1>2, <1>6, <1>8, <2>2 DEF VInv, VersionInv, Dense
  <2>. QED BY <2>1, <2>2
<1>9. ASSUME NEW u \in Thread PROVE ImportNumbered(req[u])'
  <2>1. CASE u = t
    BY <1>3, <2>1 DEF ImportNumbered
  <2>2. CASE u # t
    <3>1. PICK q, p, n : q = req[u] /\ p = req'[u] /\ n = q.audit.name
      OBVIOUS
    <3>2. SUFFICES ASSUME q.op = "import", q.pc \in {"counted", "save"}, n \notin overtaken'
                   PROVE  /\ q.audit.version \in 1..NextVersion(n)'
                          /\ ~p.raced => q.audit.version = NextVersion(n)'
      BY <1>4, <2>2, <3>1 DEF ImportNumbered
    <3>3. q.audit.version \in 1..NextVersion(n) /\ (~q.raced => q.audit.version = NextVersion(n))
      BY <1>2, <3>1, <3>2 DEF VInv, VersionInv, ImportNumbered
    <3>4. CASE n # a.name
      <4>1. NextVersion(n)' = NextVersion(n)
        BY <1>6, <3>4 DEF NextVersion, LatestVersion
      <4>2. u \notin Outdated(t)
        BY <1>1, <3>1, <3>4 DEF Outdated
      <4>. QED BY <1>4, <2>2, <3>1, <3>3, <4>1, <4>2
    <3>5. CASE n = a.name
      <4>1. u \in Outdated(t)
        BY <1>1, <2>2, <3>1, <3>2, <3>5 DEF Outdated
      <4>2. PICK k \in Nat, l \in Nat : /\ l \in {k, k + 1}
                                        /\ DOMAIN Lineage(n) = 1..k /\ DOMAIN Lineage(n)' = 1..l
        BY <1>7, <3>2, <3>5 DEF Grown
      <4>3. Cardinality(DOMAIN Lineage(n)) = k /\ Cardinality(DOMAIN Lineage(n)') = l
        BY <4>2, IsDense
      <4>4. NextVersion(n) = k + 1 /\ NextVersion(n)' = l + 1
        BY <4>3 DEF NextVersion, LatestVersion
      <4>. QED BY <1>4, <2>2, <3>1, <3>3, <4>1, <4>2, <4>4
    <3>. QED BY <3>4, <3>5
  <2>. QED BY <2>1, <2>2
<1>10. LineageDense'
  <2>1. ASSUME NEW n \in Name, n \notin overtaken', NEW v \in DOMAIN Lineage(n)'
        PROVE  ShownNumber(n, v)' = v
    <3>1. PICK w : w = Lineage(n)'
      OBVIOUS
    <3>2. Dense(w)
      BY <1>8, <2>1, <3>1 DEF Dense
    <3>3. PICK k \in Nat : DOMAIN w = 1..k
      BY <3>2, DenseIs
    <3>4. Cardinality({u \in DOMAIN w : u <= v}) = v
      BY <2>1, <3>1, <3>3, IsDense
    <3>. QED BY <3>1, <3>4 DEF ShownNumber
  <2>2. ASSUME NEW b \in audits', b.kind = "version_import", b.at \notin raced', b.name \notin overtaken'
        PROVE  b.version \in DOMAIN Lineage(b.name)' /\ Lineage(b.name)'[b.version] = b
    <3>1. CASE b = a
      <4>1. ~req[t].raced
        BY <1>1, <1>2, <2>2, <3>1
      <4>2. PICK k \in Nat : /\ DOMAIN Lineage(a.name)' = 1..(k + 1)
                             /\ a.version = k + 1 /\ Lineage(a.name)'[k + 1] = a
        BY <1>7, <2>2, <3>1, <4>1 DEF Grown
      <4>3. k + 1 \in 1..(k + 1)
        OBVIOUS
      <4>. QED BY <3>1, <4>2, <4>3
    <3>2. CASE b # a
      <4>1. b \in audits /\ b.at \notin raced /\ b.name \notin overtaken
        BY <1>2, <2>2, <3>2
      <4>2. b.version \in DOMAIN Lineage(b.name) /\ Lineage(b.name)[b.version] = b
        BY <2>2, <4>1 DEF VInv, VersionInv, LineageDense
      <4>3. CASE b.name = a.name
        <5>1. PICK k \in Nat, l \in Nat :
                /\ l \in {k, k + 1}
                /\ DOMAIN Lineage(b.name) = 1..k /\ DOMAIN Lineage(b.name)' = 1..l
                /\ \A u \in 1..k : Lineage(b.name)'[u] = Lineage(b.name)[u]
          BY <1>7, <2>2, <4>3 DEF Grown
        <5>2. b.version \in 1..k /\ b.version \in 1..l
          BY <4>2, <5>1
        <5>. QED BY <4>2, <5>1, <5>2
      <4>4. CASE b.name # a.name
        BY <1>6, <4>2, <4>4
      <4>. QED BY <4>3, <4>4
    <3>. QED BY <3>1, <3>2
  <2>. QED BY <2>1, <2>2 DEF LineageDense
<1>. QED BY <1>5, <1>8, <1>9, <1>10 DEF VersionInv

-----------------------------------------------------------------------------
(* The invariant of the versions.                                          *)

LEMMA InitV == Init => VersionInv
<1>. SUFFICES ASSUME Init PROVE VersionInv
  OBVIOUS
<1>1. \A n : Named(n) = {}
  BY DEF Init, Named
<1>2. PICK w : w = Replay({})[0].versions
  OBVIOUS
<1>3. \A n : Lineage(n) = w
  BY <1>1, <1>2 DEF Init, Lineage
<1>4. DOMAIN w = {}
  <2>1. Replay({})[0] = NoVersions
    BY ReplayStep, RegistryAssumption
  <2>. QED BY <1>2, <2>1 DEF NoVersions
<1>5. DOMAIN w = 1..0
  BY <1>4
<1>6. Dense(w)
  BY <1>5, IsDense
<1>7. NamesKnown
  BY RegistryAssumption DEF Init, NamesKnown, Idle
<1>8. \A t \in Thread : ImportNumbered(req[t])
  BY DEF Init, ImportNumbered, Idle
<1>9. LineageDense
  BY <1>3, <1>4 DEF LineageDense, Init
<1>. QED BY <1>3, <1>6, <1>7, <1>8, <1>9 DEF VersionInv

\* The rows after a registration: of a name of an audit, or of one that was given.
LEMMA RowsTyped ==
  ASSUME VInv, NEW d \in Id, NEW x \in Row, rows' = [rows EXCEPT ![d] = x]
  PROVE  rows' \in [Id -> Row \union {Null}]
  BY DEF VInv, VersionInv, NamesKnown

\* Requests after a step that starts or ends one that carries no number.
LEMMA VRequests ==
  ASSUME VInv, UNCHANGED <<audits, overtaken, raced, clock>>, rows' \in [Id -> Row \union {Null}],
         NEW t \in Thread, req'[t].pc \notin {"counted", "save"},
         \A u \in Thread \ {t} : req'[u] = req[u]
  PROVE  VersionInv'
<1>1. NamesKnown'
  BY DEF VInv, VersionInv, NamesKnown
<1>2. ImportNumbered(req[t])'
  BY DEF ImportNumbered
<1>. QED BY <1>1, <1>2, VOthers

LEMMA NextV == VInv /\ [Next]_registryVars => VInv'
<1>. SUFFICES ASSUME VInv, [Next]_registryVars PROVE VersionInv'
  BY NextInv DEF VInv
<1>0. rows \in [Id -> Row \union {Null}] /\ \A d \in Id : Kept(d) => rows[d] \in Row
  BY DEF VInv, VersionInv, NamesKnown, Kept
<1>1. CASE UNCHANGED registryVars
  <2>1. NamesKnown'
    BY <1>1 DEF registryVars, VInv, VersionInv, NamesKnown
  <2>. QED BY <1>1, <2>1, VOthers DEF registryVars
<1>2. ASSUME NEW t \in Thread, NEW n \in Name, UploadAudit(t, n) \/ SampleAudit(t) PROVE VersionInv'
  BY <1>2, VBegin, RegistryAssumption DEF UploadAudit, SampleAudit
<1>3. ASSUME NEW t \in Thread, NEW a \in audits, RerunAudit(t, a) \/ ApplyRemediation(t, a) PROVE VersionInv'
  <2>1. a.name \in Name
    BY DEF VInv, VersionInv, NamesKnown
  <2>2. Cleaned[a.name] # Null => Cleaned[a.name] \in Name
    BY <2>1, RegistryAssumption
  <2>. QED BY <1>3, <2>1, <2>2, VBegin DEF RerunAudit, ApplyRemediation
<1>4. ASSUME NEW t \in Thread, NEW s, ImportDatasetVersion(t, s) PROVE VersionInv'
  <2>1. req[t].pc = "counted" /\ req[t].audit.name \in Name /\ req[t].op = "import"
    BY <1>4 DEF ImportDatasetVersion, VInv, VersionInv, NamesKnown
  <2>2. Begin(t, "import", req[t].audit.name, "version_import", req[t].audit.version, s)
    BY <1>4 DEF ImportDatasetVersion
  <2>. QED BY <2>1, <2>2, VBegin
<1>5. ASSUME NEW t \in Thread, NEW d \in Id, CountVersions(t, d) PROVE VersionInv'
  <2>1. PICK n, v : n = rows[d].name /\ v = NextVersion(n)
    OBVIOUS
  <2>2. n \in Name
    BY <1>0, <1>5, <2>1 DEF CountVersions, Row
  <2>3. PICK a : a = [at |-> 0, name |-> n, kind |-> "version_import", version |-> v, source |-> Null]
    OBVIOUS
  <2>4. PICK r : r = [Idle EXCEPT !.pc = "counted", !.op = "import", !.audit = a]
    OBVIOUS
  <2>5. r.pc = "counted" /\ r.op = "import" /\ r.audit = a /\ a.name = n /\ a.version = v
    BY <2>3, <2>4 DEF Idle
  <2>6. req' = [req EXCEPT ![t] = r] /\ UNCHANGED <<audits, rows, clock, overtaken, raced>>
    BY <1>5, <2>1, <2>3, <2>4 DEF CountVersions
  <2>7. req'[t] = r /\ \A u \in Thread \ {t} : req'[u] = req[u]
    BY <2>6 DEF VInv, Inv, Shape
  <2>8. NamesKnown'
    BY <2>2, <2>5, <2>6, <2>7 DEF VInv, VersionInv, NamesKnown
  <2>9. ImportNumbered(req[t])'
    <3>1. Named(n)' = Named(n) /\ clock' \in 0..MaxAudits /\ clock' \in {clock, clock + 1}
      BY <2>6 DEF Named, VInv, VersionInv, NamesKnown
    <3>2. Lineage(n)' = Lineage(n)
      BY <3>1, LineageSame
    <3>3. NextVersion(n)' = v
      BY <2>1, <3>2 DEF NextVersion, LatestVersion
    <3>4. n \notin overtaken' => v \in 1..v
      <4>1. SUFFICES ASSUME n \notin overtaken PROVE v \in 1..v
        BY <2>6
      <4>2. Dense(Lineage(n))
        BY <2>2, <4>1 DEF VInv, VersionInv
      <4>3. PICK w : w = Lineage(n)
        OBVIOUS
      <4>4. \E k \in Nat : Cardinality(DOMAIN w) = k
        BY <4>2, <4>3, DenseIs
      <4>. QED BY <2>1, <4>3, <4>4 DEF NextVersion, LatestVersion
    <3>. QED BY <2>5, <2>7, <3>3, <3>4 DEF ImportNumbered
  <2>. QED BY <2>6, <2>7, <2>8, <2>9, VOthers
<1>6. ASSUME NEW t \in Thread, NEW a \in audits, Revisit(t, a) PROVE VersionInv'
  <2>1. req'[t].pc = "register" /\ \A u \in Thread \ {t} : req'[u] = req[u]
    BY <1>6 DEF Revisit, Idle, VInv, Inv, Shape
  <2>. QED BY <1>0, <1>6, <2>1, VRequests DEF Revisit
<1>7. ASSUME NEW t \in Thread, RegisterAudit(t) PROVE VersionInv'
  <2>1. req'[t].pc \in {"idle", "persist"} /\ \A u \in Thread \ {t} : req'[u] = req[u]
    BY <1>7 DEF RegisterAudit, Idle, VInv, Inv, Shape
  <2>2. PICK a : a = req[t].audit
    OBVIOUS
  <2>3. a \in audits /\ a.name \in Name /\ a.at \in Tick
    <3>1. RequestStage(req[t])
      BY DEF VInv, Inv, RegistryInv
    <3>2. a \in audits
      BY <1>7, <2>2, <3>1 DEF RegisterAudit, RequestStage
    <3>3. a.at \in 1..clock /\ clock \in 0..MaxAudits /\ a.name \in Name
      BY <3>2 DEF VInv, Inv, RegistryInv, AuditsApart, VersionInv, NamesKnown
    <3>. QED BY <3>2, <3>3, RegistryAssumption DEF Tick
  <2>4. rows' \in [Id -> Row \union {Null}]
    <3>1. CASE \E d \in RowOf(a.name) : rows' = [rows EXCEPT ![d].latest = a.at]
      <4>1. PICK d \in RowOf(a.name) : rows' = [rows EXCEPT ![d].latest = a.at]
        BY <3>1
      <4>2. d \in Id /\ rows[d] \in Row
        BY <1>0 DEF RowOf
      <4>3. PICK x : x = [rows[d] EXCEPT !.latest = a.at]
        OBVIOUS
      <4>4. x \in Row /\ rows' = [rows EXCEPT ![d] = x]
        BY <2>3, <4>1, <4>2, <4>3 DEF Row
      <4>. QED BY <4>2, <4>4, RowsTyped
    <3>2. CASE \E d \in NewIds : rows' = [rows EXCEPT ![d] = [name |-> a.name, latest |-> a.at]]
      <4>1. PICK d \in NewIds : rows' = [rows EXCEPT ![d] = [name |-> a.name, latest |-> a.at]]
        BY <3>2
      <4>2. d \in Id /\ [name |-> a.name, latest |-> a.at] \in Row
        BY <2>3 DEF NewIds, Row
      <4>. QED BY <4>1, <4>2, RowsTyped
    <3>. QED BY <1>7, <2>2, <3>1, <3>2 DEF RegisterAudit
  <2>. QED BY <1>7, <2>1, <2>4, VRequests DEF RegisterAudit
<1>8. ASSUME NEW t \in Thread, PersistExecutions(t) \/ FailRequest(t) \/ FailAndLeave(t) \/ UnlinkFiles(t) PROVE VersionInv'
  <2>1. req'[t].pc = "idle" /\ \A u \in Thread \ {t} : req'[u] = req[u]
    BY <1>8 DEF PersistExecutions, Raises, FailRequest, FailAndLeave, UnlinkFiles, Idle, VInv, Inv, Shape
  <2>2. UNCHANGED <<audits, rows, overtaken, raced, clock>>
    BY <1>8 DEF PersistExecutions, Raises, FailRequest, FailAndLeave, UnlinkFiles
  <2>. QED BY <1>0, <2>1, <2>2, VRequests
<1>9. ASSUME NEW t \in Thread, NEW d \in Id, DeleteDataset(t, d) PROVE VersionInv'
  <2>1. req'[t].pc = "unlink" /\ \A u \in Thread \ {t} : req'[u] = req[u]
    BY <1>9 DEF DeleteDataset, Idle, VInv, Inv, Shape
  <2>2. rows' \in [Id -> Row \union {Null}] /\ UNCHANGED <<audits, overtaken, raced, clock>>
    BY <1>0, <1>9 DEF DeleteDataset
  <2>. QED BY <2>1, <2>2, VRequests
<1>10. ASSUME NEW n \in Name, CreateDataset(n) \/ \E d \in Id : RenameDataset(d, n) PROVE VersionInv'
  <2>1. UNCHANGED <<audits, overtaken, raced, clock, req>>
    BY <1>10 DEF CreateDataset, RenameDataset
  <2>2. \E d \in Id, x \in Row : rows' = [rows EXCEPT ![d] = x]
    <3>1. CASE CreateDataset(n)
      <4>1. PICK d \in NewIds : rows' = [rows EXCEPT ![d] = [name |-> n, latest |-> Null]]
        BY <3>1 DEF CreateDataset
      <4>2. d \in Id /\ [name |-> n, latest |-> Null] \in Row
        BY DEF NewIds, Row
      <4>. QED BY <4>1, <4>2
    <3>2. CASE \E d \in Id : RenameDataset(d, n)
      <4>1. PICK d \in Id : RenameDataset(d, n)
        BY <3>2
      <4>2. rows[d] \in Row /\ rows' = [rows EXCEPT ![d].name = n]
        BY <1>0, <4>1 DEF RenameDataset
      <4>3. PICK x : x = [rows[d] EXCEPT !.name = n]
        OBVIOUS
      <4>4. x \in Row /\ rows' = [rows EXCEPT ![d] = x]
        BY <4>2, <4>3 DEF Row
      <4>. QED BY <4>4
    <3>. QED BY <1>10, <3>1, <3>2
  <2>3. rows' \in [Id -> Row \union {Null}]
    BY <2>2, RowsTyped
  <2>4. NamesKnown'
    BY <2>1, <2>3 DEF VInv, VersionInv, NamesKnown
  <2>. QED BY <2>1, <2>4, VOthers
<1>11. ASSUME NEW t \in Thread, SaveAudit(t) PROVE VersionInv'
  BY <1>11, VSave
<1>12. CASE \E n \in Name : CreateDataset(n) \/ \E d \in Id : RenameDataset(d, n)
  BY <1>10, <1>12
<1>13. CASE \E t \in Thread : \/ \E n \in Name : UploadAudit(t, n)
                              \/ SampleAudit(t)
                              \/ \E a \in audits : RerunAudit(t, a) \/ ApplyRemediation(t, a) \/ Revisit(t, a)
                              \/ \E d \in Id : CountVersions(t, d) \/ DeleteDataset(t, d)
                              \/ \E s \in Name \union Revision : ImportDatasetVersion(t, s)
                              \/ SaveAudit(t) \/ RegisterAudit(t) \/ PersistExecutions(t) \/ FailRequest(t) \/ FailAndLeave(t) \/ UnlinkFiles(t)
  <2>1. Name # {}
    BY RegistryAssumption
  <2>. QED BY <1>2, <1>3, <1>4, <1>5, <1>6, <1>7, <1>8, <1>9, <1>11, <1>13, <2>1
<1>. QED BY <1>1, <1>12, <1>13 DEF Next

-----------------------------------------------------------------------------
(* Theorems on the versions.                                               *)

\* The invariant that the numbers of versions rest on: a history that nothing overtook
\* is numbered from one, and an import at work carries the number that comes next or
\* one that was taken since it counted.
THEOREM VersionInvariant == Spec => []VersionInv
<1>1. Init => VInv
  BY InitInv, InitV DEF VInv
<1>2. VInv => VersionInv
  BY DEF VInv
<1>. QED BY <1>1, <1>2, NextV, PTL DEF Spec

\* The number that dataset_versions shows is the one that import_dataset_version
\* gave, and an import that nothing raced is listed under it.
THEOREM LineageIsDense == Spec => []LineageDense
<1>1. VersionInv => LineageDense
  BY DEF VersionInv
<1>. QED BY <1>1, VersionInvariant, PTL

\* A step that changes the audits keeps every version that is listed, of every name
\* that it does not overtake.
THEOREM VersionsStay == Spec => VersionsImmutable
<1>. DEFINE Kept1 == \A n \in Name : n \notin overtaken' =>
                       LET before == Lineage(n)
                           after == Lineage(n)' IN
                       \A v \in DOMAIN before : v \in DOMAIN after /\ after[v] = before[v]
<1>1. Init => VInv
  BY InitInv, InitV DEF VInv
<1>2. VInv /\ [Next]_registryVars => [Kept1]_audits
  <2>1. SUFFICES ASSUME VInv, Next, audits' # audits, NEW n \in Name, n \notin overtaken',
                        NEW v \in DOMAIN Lineage(n)
                 PROVE  v \in DOMAIN Lineage(n)' /\ Lineage(n)'[v] = Lineage(n)[v]
    BY DEF registryVars
  <2>2. PICK t \in Thread : SaveAudit(t)
    <3>1. ASSUME NEW t, NEW op, NEW m, NEW k, NEW u, NEW s, Begin(t, op, m, k, u, s) PROVE FALSE
      BY <2>1, <3>1 DEF Begin
    <3>. QED BY <2>1, <3>1 DEF Next, UploadAudit, SampleAudit, RerunAudit, ApplyRemediation, Revisit,
                               CountVersions, DeleteDataset, ImportDatasetVersion, RegisterAudit,
                               PersistExecutions, Raises, FailRequest, FailAndLeave, UnlinkFiles, CreateDataset, RenameDataset
  <2>3. PICK a : a = req[t].audit
    OBVIOUS
  <2>4. CASE n = a.name
    <3>1. a.name \notin overtaken'
      BY <2>1, <2>4
    <3>2. Grown(Lineage(a.name), Lineage(a.name)', a, req[t].raced)
      BY <2>1, <2>2, <2>3, <3>1, HistoryGrows
    <3>. QED BY <2>1, <2>4, <3>2 DEF Grown
  <2>5. CASE n # a.name
    <3>1. Named(n)' = Named(n)
      BY <2>1, <2>2, <2>3, <2>5, LineageSaved
    <3>2. clock' \in 0..MaxAudits /\ clock' \in {clock, clock + 1}
      BY <2>1, <2>2 DEF SaveAudit, VInv, VersionInv, NamesKnown
    <3>3. Lineage(n)' = Lineage(n)
      BY <2>1, <3>1, <3>2, LineageSame
    <3>. QED BY <2>1, <3>3
  <2>. QED BY <2>4, <2>5
<1>. QED BY <1>1, <1>2, NextV, PTL DEF Spec, VersionsImmutable

=============================================================================
