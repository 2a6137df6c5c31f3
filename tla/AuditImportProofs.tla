-------------------------- MODULE AuditImportProofs --------------------------
(* Theorems about AuditImport, for any keys, storage keys, names, threads,   *)
(* requests, processes and bounds.                                           *)
EXTENDS AuditImport, JobsProofs

\* What the proofs carry from step to step.  The job service keeps what is under
\* way referring to rows (Refers of JobsProofs); the import adds its own.
Import == Refers /\ ImportTypeOK /\ ImportInv

-----------------------------------------------------------------------------
(* The import is a use of the job service.                                   *)

\* What a request holds was uploaded, for one of the contents.
LEMMA HeldUpload ==
  ASSUME Import, NEW c \in Client, holding[c] # Null
  PROVE  holding[c] \in Path /\ upload[holding[c]] \in Upload
BY DEF Import, ImportTypeOK, ImportInv, RequestsHold

\* The handler, the uploads and the deletions are steps of the job service or
\* leave it alone.
LEMMA ImportStepIsJobStep == Import /\ [ImportNext]_<<vars, importVars>> => [Next]_vars
<1> SUFFICES ASSUME Import, ImportNext PROVE Next \/ UNCHANGED vars
  BY DEF vars
<1>1. ASSUME NEW w \in Worker, RunJob(w) PROVE Next
  BY <1>1 DEF RunJob, Next, WorkerStep
<1>2. ASSUME NEW w \in Worker, HandlerStep(w) PROVE Next \/ UNCHANGED vars
  BY <1>2 DEF HandlerStep, ReadFile, SaveAudit, RegisterRead, RegisterCommit, HandlerFails,
         Next, WorkerStep
<1>3. ASSUME NEW c \in Client, RequestStep(c) PROVE Next \/ UNCHANGED vars
  <2>1. ASSUME NEW u \in Path, NEW k \in Key, NEW n \in Name, SaveUpload(c, u, k, n)
        PROVE  UNCHANGED vars
    BY <2>1 DEF SaveUpload
  <2>2. CASE RejectUpload(c)
    BY <2>2 DEF RejectUpload
  <2>3. CASE CreateImport(c) \/ DropDuplicate(c) \/ EnqueueImport(c) \/ OtherRequest(c) \/ FailImport(c)
    BY <2>3 DEF CreateImport, DropDuplicate, EnqueueImport, OtherRequest, FailImport, Next, Arrive,
           Serve
  <2>4. CASE AcceptUpload(c)
    <3>1. upload[holding[c]].key \in Key
      BY <2>4, HeldUpload DEF AcceptUpload, Upload
    <3> QED
      BY <2>4, <3>1 DEF AcceptUpload, Next, Arrive
  <2> QED
    BY <1>3, <2>1, <2>2, <2>3, <2>4 DEF RequestStep
<1>4. ASSUME DeletionStep PROVE UNCHANGED vars
  BY <1>4 DEF DeletionStep, DeleteRead, DeleteCommit, DeleteFile, DeleteAnswer
<1>5. ASSUME NEW p \in Process, CrashImport(p) PROVE Next
  BY <1>5 DEF CrashImport, Next
<1> QED
  BY <1>1, <1>2, <1>3, <1>4, <1>5 DEF ImportNext

-----------------------------------------------------------------------------
(* Type correctness.                                                         *)

\* The job a thread is on carries an upload.
LEMMA SourceUpload ==
  ASSUME Import, NEW w \in Worker, worker[w].pc # "idle"
  PROVE  /\ worker[w].key \in Key /\ Exists(worker[w].key)
         /\ Source(w) \in Path
         /\ upload[Source(w)] \in Upload
         /\ upload[Source(w)].key = worker[w].key
<1>1. worker[w].key \in Key /\ Exists(worker[w].key)
  BY DEF Import, Refers, ThreadsRefer
<1> QED
  BY <1>1 DEF Import, ImportTypeOK, ImportInv, PayloadsKept, Source

LEMMA BeginType == Begin \in Stage
BY DEF Begin, Stage

LEMMA InitImportType == ImportInit => ImportTypeOK
BY BeginType, ImportAssumption DEF ImportInit, ImportTypeOK, NoDeletion, Deletion

LEMMA HandlerType ==
  ASSUME Import, NEW w \in Worker, HandlerStep(w)
  PROVE  ImportTypeOK'
<1> USE DEF ImportTypeOK
<1>1. ImportTypeOK
  BY DEF Import
<1>2. worker[w].pc # "idle"
  BY DEF HandlerStep, ReadFile, SaveAudit, RegisterRead, RegisterCommit, HandlerFails,
         HandlerRaises, Executing
<1>3. Source(w) \in Path /\ upload[Source(w)].name \in Name
  BY <1>2, SourceUpload DEF Upload
<1>4. CASE ReadFile(w)
  BY <1>1, <1>4 DEF ReadFile, Stage
<1>5. CASE SaveAudit(w)
  <2>1. audits' \in Seq(Path) /\ Len(audits) + 1 \in Nat
    BY <1>1, <1>3, <1>5 DEF SaveAudit
  <2>2. stage' \in [Worker -> Stage]
    BY <1>1, <1>5, <2>1 DEF SaveAudit, Stage
  <2> QED
    BY <1>1, <1>5, <2>1, <2>2 DEF SaveAudit
<1>6. CASE RegisterRead(w)
  <2>1. dataset[upload[Source(w)].name] \in Dataset \union {Null}
    BY <1>1, <1>3
  <2>2. stage' \in [Worker -> Stage]
    BY <1>1, <1>6, <2>1 DEF RegisterRead, Stage
  <2> QED
    BY <1>1, <1>6, <2>2 DEF RegisterRead
<1>7. CASE RegisterCommit(w)
  <2>1. stage[w].audit \in Nat
    BY <1>1 DEF Stage
  <2>2. dataset' \in [Name -> Dataset \union {Null}]
    BY <1>1, <1>3, <1>7, <2>1 DEF RegisterCommit, Dataset
  <2> QED
    BY <1>1, <1>3, <1>7, <2>2, BeginType DEF RegisterCommit
<1>8. CASE HandlerFails(w)
  BY <1>1, <1>8, BeginType DEF HandlerFails
<1> QED
  BY <1>4, <1>5, <1>6, <1>7, <1>8 DEF HandlerStep

LEMMA DiscardType ==
  ASSUME ImportTypeOK, NEW c \in Client, holding[c] \in Path, Discard(c)
  PROVE  /\ holding' \in [Client -> Path \union {Null}]
         /\ files' \subseteq Path
         /\ orphans' \subseteq Path
BY DEF ImportTypeOK, Discard

LEMMA RequestType ==
  ASSUME Import, NEW c \in Client, RequestStep(c)
  PROVE  ImportTypeOK'
<1>1. ImportTypeOK
  BY DEF Import
<1>2. ASSUME NEW u \in Path, NEW k \in Key, NEW n \in Name, SaveUpload(c, u, k, n)
      PROVE  ImportTypeOK'
  BY <1>1, <1>2 DEF ImportTypeOK, SaveUpload, Upload
<1>3. CASE RejectUpload(c)
  BY <1>1, <1>3, HeldUpload, DiscardType DEF ImportTypeOK, RejectUpload
<1>4. CASE CreateImport(c)
  <2>1. client[c].key \in Key
    BY <1>4 DEF CreateImport, CreateInsert, Import, Refers, RequestsRefer
  <2>2. payload' \in [Key -> Path \union {Null}]
    BY <1>1, <1>4, <2>1 DEF ImportTypeOK, CreateImport
  <2> QED
    BY <1>1, <1>4, <2>2 DEF ImportTypeOK, CreateImport
<1>5. CASE DropDuplicate(c)
  <2>1. holding[c] # Null
    BY <1>5 DEF DropDuplicate, AnswerDuplicate, Import, ImportInv, RequestsHold
  <2>2. /\ holding' \in [Client -> Path \union {Null}]
        /\ files' \subseteq Path
        /\ orphans' \subseteq Path
    <3>1. CASE Discard(c)
      BY <1>1, <2>1, <3>1, HeldUpload, DiscardType
    <3>2. CASE DiscardNothing(c)
      BY <1>1, <3>2 DEF ImportTypeOK, DiscardNothing
    <3> QED
      BY <1>5, <3>1, <3>2 DEF DropDuplicate
  <2> QED
    BY <1>1, <1>5, <2>2 DEF ImportTypeOK, DropDuplicate
<1>6. CASE EnqueueImport(c)
  BY <1>1, <1>6 DEF ImportTypeOK, EnqueueImport
<1>7. CASE AcceptUpload(c) \/ OtherRequest(c)
  BY <1>1, <1>7 DEF ImportTypeOK, AcceptUpload, OtherRequest, importVars
<1>8. CASE FailImport(c)
  BY <1>1, <1>8 DEF ImportTypeOK, FailImport
<1> QED
  BY <1>2, <1>3, <1>4, <1>5, <1>6, <1>7, <1>8 DEF RequestStep

LEMMA DeletionType ==
  ASSUME ImportTypeOK, DeletionStep
  PROVE  ImportTypeOK'
<1> USE DEF ImportTypeOK
<1>1. ASSUME NEW n \in Name, DeleteRead(n) PROVE ImportTypeOK'
  <2>1. dataset[n] \in Dataset
    BY <1>1 DEF DeleteRead
  <2>2. deletion' \in Deletion
    BY <1>1, <2>1 DEF DeleteRead, Deletion, Dataset, AuditsNamed
  <2> QED
    BY <1>1, <2>2 DEF DeleteRead
<1>2. CASE DeleteCommit
  <2>1. deletion' \in Deletion
    BY <1>2 DEF DeleteCommit, Deletion
  <2>2. dataset' \in [Name -> Dataset \union {Null}]
    BY <1>2 DEF DeleteCommit
  <2> QED
    BY <1>2, <2>1, <2>2 DEF DeleteCommit
<1>3. ASSUME NEW u \in Path, DeleteFile(u) PROVE ImportTypeOK'
  BY <1>3 DEF DeleteFile, Deletion
<1>4. CASE DeleteAnswer
  BY <1>4 DEF DeleteAnswer, NoDeletion, Deletion
<1> QED
  BY <1>1, <1>2, <1>3, <1>4 DEF DeletionStep

LEMMA CrashType ==
  ASSUME ImportTypeOK, NEW p \in Process, CrashImport(p)
  PROVE  ImportTypeOK'
<1> USE DEF ImportTypeOK
<1>1. stage' \in [Worker -> Stage]
  BY BeginType DEF CrashImport
<1>2. holding' \in [Client -> Path \union {Null}]
  BY DEF CrashImport
<1>3. orphans' \subseteq Path
  BY DEF CrashImport
<1>4. deletion' \in Deletion
  BY DEF CrashImport, NoDeletion, Deletion
<1> QED
  BY <1>1, <1>2, <1>3, <1>4 DEF CrashImport

LEMMA ImportTypeStep == Import /\ [ImportNext]_<<vars, importVars>> => ImportTypeOK'
<1> SUFFICES ASSUME Import, [ImportNext]_<<vars, importVars>> PROVE ImportTypeOK'
  OBVIOUS
<1>1. ImportTypeOK
  BY DEF Import
<1>2. CASE UNCHANGED importVars
  BY <1>1, <1>2 DEF ImportTypeOK, importVars
<1>3. ASSUME NEW w \in Worker, RunJob(w) PROVE UNCHANGED importVars
  BY <1>3 DEF RunJob
<1> QED
  BY <1>1, <1>2, <1>3, HandlerType, RequestType, DeletionType, CrashType DEF ImportNext

-----------------------------------------------------------------------------
(* The invariant.                                                            *)

\* The two ways in which the list of audits changes.
LEMMA AuditsKept ==
  ASSUME UNCHANGED audits, NEW u PROVE Audited(u)' <=> Audited(u)
BY DEF Audited

LEMMA AuditsGrow ==
  ASSUME ImportTypeOK, NEW u \in Path, audits' = Append(audits, u), NEW v
  PROVE  Audited(v)' <=> Audited(v) \/ v = u
<1>1. audits \in Seq(Path)
  BY DEF ImportTypeOK
<1>2. ASSUME Audited(v) PROVE Audited(v)'
  BY <1>1, <1>2 DEF Audited
<1>3. Audited(u)'
  <2>1. Len(audits) + 1 \in DOMAIN audits' /\ audits'[Len(audits) + 1] = u
    BY <1>1
  <2> QED
    BY <2>1 DEF Audited
<1>4. ASSUME Audited(v)', v # u PROVE Audited(v)
  BY <1>1, <1>4 DEF Audited
<1> QED
  BY <1>2, <1>3, <1>4

\* No row comes or goes.
RowsKept == \A k \in Key : Exists(k)' <=> Exists(k)

\* A step keeps the parts of the invariant whose variables it leaves alone.
LEMMA Undisturbed ==
  ASSUME ImportInv, RowsKept
  PROVE  /\ UNCHANGED <<holding, upload, client, files, payload>> => RequestsHold'
         /\ UNCHANGED <<holding, payload, client>> => HeldOnce'
         /\ UNCHANGED <<payload, upload>> => PayloadsKept'
         /\ UNCHANGED <<audits, payload>> => AuditsOwned'
         /\ UNCHANGED <<registered, audits>> => RegisteredAudited'
         /\ UNCHANGED <<stage, worker, audits, payload, registered>> => HandlersKnow'
         /\ UNCHANGED <<deletion, audits>> => DeletesAudited'
<1> USE DEF ImportInv
<1>1. UNCHANGED <<holding, upload, client, files, payload>> => RequestsHold'
  BY DEF RequestsHold
<1>2. UNCHANGED <<holding, payload, client>> => HeldOnce'
  BY DEF HeldOnce
<1>3. UNCHANGED <<payload, upload>> => PayloadsKept'
  BY DEF PayloadsKept, RowsKept
<1>4. UNCHANGED <<audits, payload>> => AuditsOwned'
  BY AuditsKept DEF AuditsOwned, RowsKept
<1>5. UNCHANGED <<registered, audits>> => RegisteredAudited'
  BY AuditsKept DEF RegisteredAudited
<1>6. UNCHANGED <<stage, worker, audits, payload, registered>> => HandlersKnow'
  BY DEF HandlersKnow, Source, Audited
<1>7. UNCHANGED <<deletion, audits>> => DeletesAudited'
  BY AuditsKept DEF DeletesAudited
<1> QED
  BY <1>1, <1>2, <1>3, <1>4, <1>5, <1>6, <1>7

LEMMA InitImportInv == ImportInit => ImportInv
<1> SUFFICES ASSUME ImportInit PROVE ImportInv
  OBVIOUS
<1> USE DEF ImportInit, Init
<1>1. RequestsHold /\ HeldOnce
  BY DEF RequestsHold, HeldOnce, Rest
<1>2. PayloadsKept
  BY DEF PayloadsKept, Exists
<1>3. \A u : ~Audited(u)
  BY DEF Audited
<1>4. AuditsOwned /\ RegisteredAudited
  BY <1>3 DEF AuditsOwned, RegisteredAudited
<1>5. HandlersKnow
  BY DEF HandlersKnow, Begin, Rest
<1>6. DeletesAudited
  BY DEF DeletesAudited, NoDeletion
<1> QED
  BY <1>1, <1>2, <1>4, <1>5, <1>6 DEF ImportInv

\* run_job outside the handler: the thread reaches "completed" only from
\* "recheck", and leaves a finished handler's upload registered.
LEMMA RunJobRowsKept ==
  ASSUME Refers, NEW w \in Worker, RunJob(w)
  PROVE  RowsKept
BY RunJobMoves DEF RunJob, RowsKept

LEMMA RunJobInv ==
  ASSUME Import, NEW w \in Worker, RunJob(w)
  PROVE  ImportInv'
<1> USE DEF Import
<1>1. UNCHANGED <<upload, files, holding, payload, stage, audits, dataset, deletion, deletes,
                  registered, client>>
  BY DEF RunJob, importVars, Dequeue, Observe, UpdateRead, UpdateCommit, ThreadFails
<1>2. RowsKept
  BY RunJobRowsKept
<1>3. \A v \in Worker \ {w} : worker'[v] = worker[v]
  BY RunJobMoves DEF RunJob
<1>4. worker[w].pc # "execute"
  BY RunJobMoves DEF RunJob
<1>5. worker'[w].pc \in {"recheck", "completed"} =>
        worker[w].pc \in {"recheck", "completed"} /\ worker'[w].key = worker[w].key
  BY RunJobMoves DEF RunJob
<1>6. HandlersKnow'
  <2>1. ASSUME NEW v \in Worker, stage'[v].at \in {"register", "commit"}
        PROVE  worker'[v].pc = "execute" /\ worker'[v] = worker[v]
    BY <1>1, <1>3, <1>4, <2>1 DEF ImportInv, HandlersKnow
  <2>2. ASSUME NEW v \in Worker, worker'[v].pc \in {"recheck", "completed"}
        PROVE  payload[worker'[v].key] \in registered
    BY <1>3, <1>5, <2>2 DEF ImportInv, HandlersKnow, Source
  <2> QED
    BY <1>1, <2>1, <2>2 DEF ImportInv, HandlersKnow, Source, Audited
<1> QED
  BY <1>1, <1>2, <1>6, Undisturbed DEF ImportInv

\* The handler: only SaveAudit adds an audit, that of the thread's own job.
LEMMA HandlerInv ==
  ASSUME Import, NEW w \in Worker, HandlerStep(w)
  PROVE  ImportInv'
<1> USE DEF Import
<1>1. UNCHANGED <<job, client, upload, files, holding, payload, deletion>>
  BY DEF HandlerStep, ReadFile, SaveAudit, RegisterRead, RegisterCommit, HandlerFails,
         HandlerReturns, HandlerRaises, vars
<1>2. RowsKept
  BY <1>1 DEF RowsKept, Exists
<1>3. \A v \in Worker \ {w} : worker'[v] = worker[v] /\ stage'[v] = stage[v]
  <2>1. CASE ReadFile(w) \/ SaveAudit(w) \/ RegisterRead(w)
    BY <2>1 DEF ReadFile, SaveAudit, RegisterRead, vars, ImportTypeOK
  <2>2. CASE RegisterCommit(w) \/ HandlerFails(w)
    BY <2>2 DEF RegisterCommit, HandlerFails, HandlerReturns, HandlerRaises, Goto, ImportTypeOK,
           Refers, TypeOK
  <2> QED
    BY <2>1, <2>2 DEF HandlerStep
<1>4. worker[w].pc = "execute" /\ worker'[w].key = worker[w].key
  <2>1. CASE ReadFile(w) \/ SaveAudit(w) \/ RegisterRead(w)
    BY <2>1 DEF ReadFile, SaveAudit, RegisterRead, Executing, vars
  <2>2. CASE RegisterCommit(w) \/ HandlerFails(w)
    BY <2>2 DEF RegisterCommit, HandlerFails, HandlerReturns, HandlerRaises, Goto,
           Refers, TypeOK, Thread
  <2> QED
    BY <2>1, <2>2 DEF HandlerStep
<1>5. /\ worker[w].key \in Key /\ Exists(worker[w].key)
      /\ Source(w) \in Path
  BY <1>4, SourceUpload
<1>6. \A u : Audited(u)' <=> Audited(u) \/ (SaveAudit(w) /\ u = Source(w))
  <2>1. CASE SaveAudit(w)
    <3>1. audits' = Append(audits, Source(w))
      BY <2>1 DEF SaveAudit
    <3> QED
      BY <1>5, <2>1, <3>1, AuditsGrow
  <2>2. CASE ~SaveAudit(w)
    <3>1. UNCHANGED audits
      BY <2>2 DEF HandlerStep, ReadFile, RegisterRead, RegisterCommit, HandlerFails
    <3> QED
      BY <2>2, <3>1, AuditsKept
  <2> QED
    BY <2>1, <2>2
<1>7. AuditsOwned'
  <2>1. ASSUME NEW u \in Path, Audited(u)' PROVE \E k \in Key : Exists(k)' /\ payload'[k] = u
    BY <1>1, <1>2, <1>5, <1>6, <2>1 DEF ImportInv, AuditsOwned, RowsKept, Source
  <2> QED
    BY <2>1 DEF AuditsOwned
<1>8. RegisteredAudited'
  <2>1. \/ registered' = registered
        \/ Audited(Source(w)) /\ registered' = registered \union {Source(w)}
    <3>1. CASE RegisterCommit(w)
      BY <3>1 DEF RegisterCommit, Executing, ImportInv, HandlersKnow
    <3>2. CASE ReadFile(w) \/ SaveAudit(w) \/ RegisterRead(w)
      BY <3>2 DEF ReadFile, SaveAudit, RegisterRead, vars
    <3>3. CASE HandlerFails(w)
      BY <3>3 DEF HandlerFails
    <3> QED
      BY <3>1, <3>2, <3>3 DEF HandlerStep
  <2>2. \A u \in registered' : Audited(u)
    BY <2>1 DEF ImportInv, RegisteredAudited
  <2> QED
    BY <1>6, <2>2 DEF RegisteredAudited
<1>9. HandlersKnow'
  <2>1. registered \subseteq registered'
    BY DEF HandlerStep, ReadFile, SaveAudit, RegisterRead, RegisterCommit, HandlerFails
  <2>2. ASSUME stage'[w].at \in {"register", "commit"}
        PROVE  worker'[w].pc = "execute" /\ Audited(Source(w))'
    <3>1. worker' = worker /\ (SaveAudit(w) \/ RegisterRead(w))
      <4>1. CASE ReadFile(w)
        BY <2>2, <4>1 DEF ReadFile, ImportTypeOK, Stage
      <4>2. CASE RegisterCommit(w) \/ HandlerFails(w)
        BY <2>2, <4>2 DEF RegisterCommit, HandlerFails, ImportTypeOK, Begin
      <4> QED
        BY <4>1, <4>2 DEF HandlerStep, SaveAudit, RegisterRead, vars
    <3>2. CASE SaveAudit(w)
      BY <1>1, <1>4, <1>5, <1>6, <3>1, <3>2 DEF Source, Audited
    <3>3. CASE RegisterRead(w)
      <4>1. Audited(Source(w)) /\ audits' = audits
        BY <3>3 DEF RegisterRead, Executing, ImportInv, HandlersKnow
      <4> QED
        BY <1>1, <1>4, <3>1, <4>1 DEF Source, Audited
    <3> QED
      BY <3>1, <3>2, <3>3
  <2>3. ASSUME worker'[w].pc \in {"recheck", "completed"} PROVE payload[worker[w].key] \in registered'
    <3>1. CASE RegisterCommit(w)
      BY <3>1 DEF RegisterCommit, Source
    <3>2. CASE HandlerFails(w)
      BY <2>3, <3>2 DEF HandlerFails, HandlerRaises, Goto, Refers, TypeOK, Thread
    <3>3. CASE ReadFile(w) \/ SaveAudit(w) \/ RegisterRead(w)
      BY <1>4, <2>3, <3>3 DEF ReadFile, SaveAudit, RegisterRead, vars
    <3> QED
      BY <3>1, <3>2, <3>3 DEF HandlerStep
  <2>4. ASSUME NEW v \in Worker \ {w}, stage'[v].at \in {"register", "commit"}
        PROVE  worker'[v].pc = "execute" /\ Audited(Source(v))'
    <3>1. worker[v].pc = "execute" /\ Audited(payload[worker[v].key])
      BY <1>3, <2>4 DEF ImportInv, HandlersKnow, Source
    <3>2. PICK u : u = payload[worker[v].key]
      OBVIOUS
    <3>3. Audited(u)'
      BY <1>6, <3>1, <3>2
    <3> QED
      BY <1>1, <1>3, <3>1, <3>2, <3>3 DEF Source, Audited
  <2>5. ASSUME NEW v \in Worker \ {w}, worker'[v].pc \in {"recheck", "completed"}
        PROVE  payload[worker'[v].key] \in registered'
    BY <1>3, <2>1, <2>5 DEF ImportInv, HandlersKnow, Source
  <2> QED
    BY <1>1, <1>4, <2>2, <2>3, <2>4, <2>5 DEF HandlersKnow, Source
<1>10. DeletesAudited'
  BY <1>1, <1>6 DEF ImportInv, DeletesAudited
<1> QED
  BY <1>1, <1>2, <1>7, <1>8, <1>9, <1>10, Undisturbed DEF ImportInv

\* Whose payload a request's file can be.
LEMMA HeldIsNoPayload ==
  ASSUME Import, NEW c \in Client, holding[c] # Null, client[c].pc # "enqueue",
         NEW k \in Key
  PROVE  payload[k] # holding[c]
BY DEF Import, ImportInv, HeldOnce

\* What all requests leave alone, with the job created by CreateImport aside.
LEMMA RequestQuiet ==
  ASSUME ImportInv, NEW c \in Client,
         RequestStep(c), ~CreateImport(c), RowsKept
  PROVE  /\ UNCHANGED <<payload, audits, registered, stage, worker, deletion>>
         /\ AuditsOwned' /\ RegisteredAudited' /\ HandlersKnow' /\ DeletesAudited'
<1> DEFINE Quiet == UNCHANGED <<payload, audits, registered, stage, worker, deletion>>
<1>1. ASSUME NEW u \in Path, NEW k \in Key, NEW n \in Name, SaveUpload(c, u, k, n)
      PROVE  Quiet
  BY <1>1 DEF SaveUpload, vars
<1>2. ASSUME RejectUpload(c) PROVE Quiet
  BY <1>2 DEF RejectUpload, vars
<1>3. ASSUME AcceptUpload(c) PROVE Quiet
  BY <1>3 DEF AcceptUpload, CreateSelect, importVars
<1>4. ASSUME DropDuplicate(c) PROVE Quiet
  BY <1>4 DEF DropDuplicate, AnswerDuplicate
<1>5. ASSUME EnqueueImport(c) PROVE Quiet
  BY <1>5 DEF EnqueueImport, Enqueue
<1>6. ASSUME OtherRequest(c) PROVE Quiet
  BY <1>6 DEF OtherRequest, CancelRead, RetryCheck, CancelCommit, RetryRead, RetryCommit,
         importVars
<1>7. ASSUME FailImport(c) PROVE Quiet
  BY <1>7 DEF FailImport, RequestFails
<1>8. Quiet
  BY <1>1, <1>2, <1>3, <1>4, <1>5, <1>6, <1>7 DEF RequestStep
<1> QED
  BY <1>8, Undisturbed

\* A request that gives its file up.
LEMMA DropHolding ==
  ASSUME Import, NEW c \in Client, RowsKept, UNCHANGED <<upload, payload>>,
         holding' = [holding EXCEPT ![c] = Null],
         \A d \in Client \ {c} : client'[d] = client[d],
         client'[c].pc = "idle",
         \A u \in files : u # holding[c] => u \in files'
  PROVE  RequestsHold' /\ HeldOnce' /\ PayloadsKept'
<1> USE DEF Import, ImportTypeOK
<1>1. PayloadsKept'
  BY Undisturbed
<1>2. RequestsHold'
  <2>1. ASSUME NEW d \in Client, holding'[d] # Null, client'[d].pc # "enqueue"
        PROVE  holding'[d] \in files'
    BY <2>1 DEF ImportInv, RequestsHold, HeldOnce
  <2> QED
    BY <2>1 DEF ImportInv, RequestsHold
<1>3. HeldOnce'
  BY DEF ImportInv, HeldOnce
<1> QED
  BY <1>1, <1>2, <1>3

LEMMA RequestRowsKept ==
  ASSUME Import, NEW c \in Client, RequestStep(c), ~CreateImport(c)
  PROVE  RowsKept
<1> USE DEF Import
<1>1. ASSUME NEW u \in Path, NEW k \in Key, NEW n \in Name, SaveUpload(c, u, k, n)
      PROVE  RowsKept
  BY <1>1 DEF SaveUpload, vars, RowsKept, Exists
<1>2. CASE RejectUpload(c) \/ AcceptUpload(c)
  BY <1>2 DEF RejectUpload, AcceptUpload, CreateSelect, vars, RowsKept, Exists
<1>3. CASE DropDuplicate(c) \/ EnqueueImport(c) \/ FailImport(c)
  BY <1>3 DEF DropDuplicate, AnswerDuplicate, EnqueueImport, Enqueue, FailImport, RequestFails,
         RowsKept, Exists
<1>4. CASE OtherRequest(c)
  <2>1. ASSUME NEW k \in Key, CancelRead(c, k) \/ RetryCheck(c, k) PROVE RowsKept
    BY <2>1 DEF CancelRead, RetryCheck, RowsKept, Exists
  <2>2. CASE RetryRead(c)
    BY <2>2 DEF RetryRead, RowsKept, Exists
  <2>3. CASE CancelCommit(c) \/ RetryCommit(c)
    <3>1. client[c].key \in Key /\ Exists(client[c].key)
      BY <2>3 DEF CancelCommit, RetryCommit, Refers, RequestsRefer
    <3>2. \A i \in Key : i # client[c].key => job'[i] = job[i]
      BY <2>3, <3>1 DEF CancelCommit, RetryCommit, Refers, TypeOK
    <3>3. Refers'
      BY <2>3, ServeRefers DEF Serve
    <3>4. job'[client[c].key] # Null
      <4>1. CASE CancelCommit(c)
        <5>1. [client[c].row EXCEPT !.status = "cancelled"] \in Row
          BY <4>1 DEF CancelCommit, Refers, RequestsRefer, Row, Status, Terminal
        <5> QED
          BY <3>1, <4>1, <5>1, CommitKeepsRows DEF CancelCommit, Refers, RequestsRefer, Exists
      <4>2. CASE RetryCommit(c)
        <5>1. client[c].row \in Row
          BY <4>2 DEF RetryCommit, Refers, TypeOK, Request
        <5> QED
          BY <3>1, <4>2, <5>1, RequeuedType, CommitKeepsRows DEF RetryCommit, Exists
      <4> QED
        BY <2>3, <4>1, <4>2
    <3> QED
      BY <3>1, <3>2, <3>4 DEF RowsKept, Exists
  <2> QED
    BY <1>4, <2>1, <2>2, <2>3 DEF OtherRequest
<1> QED
  BY <1>1, <1>2, <1>3, <1>4 DEF RequestStep

\* A storage key that is drawn is nobody's yet.
LEMMA SaveUploadInv ==
  ASSUME Import, NEW c \in Client, NEW u \in Path, NEW k \in Key, NEW n \in Name,
         SaveUpload(c, u, k, n)
  PROVE  RequestsHold' /\ HeldOnce' /\ PayloadsKept'
<1>1. \A d \in Client : holding[d] # u
  BY ImportAssumption DEF Import, ImportInv, RequestsHold, SaveUpload
<1>2. \A i \in Key : payload[i] # u
  BY ImportAssumption DEF Import, ImportInv, PayloadsKept, SaveUpload
<1>3. client' = client /\ payload' = payload /\ job' = job /\ client[c].pc = "idle"
  BY DEF SaveUpload, vars
<1>4. /\ holding' = [holding EXCEPT ![c] = u]
      /\ files' = files \union {u}
      /\ \A v \in Path \ {u} : upload'[v] = upload[v]
      /\ upload'[u] # Null
  BY ImportAssumption DEF Import, ImportTypeOK, SaveUpload, Upload
<1>5. RequestsHold'
  <2>1. ASSUME NEW d \in Client \ {c}, holding[d] # Null
        PROVE  holding'[d] = holding[d] /\ upload'[holding[d]] = upload[holding[d]]
    BY <1>1, <1>4, <2>1 DEF Import, ImportTypeOK
  <2>2. ASSUME NEW d \in Client \ {c}, holding[d] = Null
        PROVE  holding'[d] = Null
    BY <1>4, <2>2 DEF Import, ImportTypeOK
  <2>3. holding'[c] = u
    BY <1>4 DEF Import, ImportTypeOK
  <2> QED
    BY <1>3, <1>4, <2>1, <2>2, <2>3 DEF Import, ImportInv, RequestsHold
<1>6. HeldOnce'
  BY <1>1, <1>2, <1>3, <1>4 DEF Import, ImportTypeOK, ImportInv, HeldOnce
<1>7. PayloadsKept'
  BY <1>2, <1>3, <1>4 DEF Import, ImportTypeOK, ImportInv, PayloadsKept, Exists
<1> QED
  BY <1>5, <1>6, <1>7

\* A request that goes on keeps what it holds.
LEMMA AcceptUploadInv ==
  ASSUME Import, NEW c \in Client, AcceptUpload(c)
  PROVE  RequestsHold' /\ HeldOnce' /\ PayloadsKept'
<1>1. UNCHANGED <<holding, upload, files, payload, job>>
  BY DEF AcceptUpload, CreateSelect, importVars
<1>2. \A d \in Client \ {c} : client'[d] = client[d]
  BY DEF AcceptUpload, CreateSelect, Ask, Import, Refers, TypeOK
<1>3. /\ client[c].pc = "idle" /\ holding[c] # Null
      /\ client'[c].pc \in {"insert", "duplicate"}
      /\ client'[c].key = upload[holding[c]].key
  BY DEF AcceptUpload, CreateSelect, Ask, Import, Refers, TypeOK
<1>4. RequestsHold'
  BY <1>1, <1>2, <1>3 DEF Import, ImportInv, RequestsHold
<1>5. HeldOnce'
  BY <1>1, <1>2, <1>3 DEF Import, ImportInv, HeldOnce
<1>6. PayloadsKept'
  BY <1>1, Undisturbed DEF Import, RowsKept, Exists
<1> QED
  BY <1>4, <1>5, <1>6

LEMMA OtherRequestInv ==
  ASSUME Import, NEW c \in Client, OtherRequest(c)
  PROVE  RequestsHold' /\ HeldOnce' /\ PayloadsKept'
<1>1. UNCHANGED <<holding, upload, files, payload>> /\ holding[c] = Null
  BY DEF OtherRequest, importVars
<1>2. \A d \in Client \ {c} : client'[d] = client[d]
  BY DEF OtherRequest, CancelRead, RetryCheck, CancelCommit, RetryRead, RetryCommit, Ask, Answer,
         Import, Refers, TypeOK
<1>3. client'[c].pc \notin {"insert", "duplicate"}
  <2>1. ASSUME NEW k \in Key, CancelRead(c, k) \/ RetryCheck(c, k)
        PROVE  client'[c].pc \notin {"insert", "duplicate"}
    BY <2>1 DEF CancelRead, RetryCheck, Ask, Import, Refers, TypeOK
  <2>2. CASE CancelCommit(c) \/ RetryCommit(c)
    BY <2>2 DEF CancelCommit, RetryCommit, Ask, Answer, Rest, Import, Refers, TypeOK
  <2>3. CASE RetryRead(c)
    BY <2>3 DEF RetryRead, Import, Refers, TypeOK, Request
  <2> QED
    BY <2>1, <2>2, <2>3 DEF OtherRequest
<1>4. RequestsHold'
  BY <1>1, <1>2, <1>3 DEF Import, ImportInv, RequestsHold
<1>5. HeldOnce'
  BY <1>1, <1>2 DEF Import, ImportInv, HeldOnce
<1>6. RowsKept
  BY RequestRowsKept DEF RequestStep, OtherRequest, CreateImport, CreateInsert, CancelRead,
     RetryCheck, CancelCommit, RetryRead, RetryCommit
<1>7. PayloadsKept'
  BY <1>1, <1>6, Undisturbed DEF Import
<1> QED
  BY <1>4, <1>5, <1>7

\* A request gives its file up: rejected, a duplicate, handed to the job, or failed.
LEMMA GiveUpInv ==
  ASSUME Import, NEW c \in Client,
         RejectUpload(c) \/ DropDuplicate(c) \/ EnqueueImport(c) \/ FailImport(c)
  PROVE  RequestsHold' /\ HeldOnce' /\ PayloadsKept'
<1>1. RowsKept /\ UNCHANGED <<upload, payload>>
  BY DEF RejectUpload, DropDuplicate, EnqueueImport, FailImport, vars, AnswerDuplicate, Enqueue,
         RequestFails, RowsKept, Exists
<1>2. /\ \A d \in Client \ {c} : client'[d] = client[d]
      /\ client'[c].pc = "idle"
  BY DEF RejectUpload, DropDuplicate, EnqueueImport, FailImport, vars, AnswerDuplicate, Enqueue,
         RequestFails, Answer, Rest, Import, Refers, TypeOK
<1>3. /\ holding' = [holding EXCEPT ![c] = Null]
      /\ \A u \in files : u # holding[c] => u \in files'
  BY DEF RejectUpload, DropDuplicate, EnqueueImport, FailImport, Discard, DiscardNothing
<1> QED
  BY <1>1, <1>2, <1>3, DropHolding

\* The job that is created takes the file over.
LEMMA CreateImportInv ==
  ASSUME Import, NEW c \in Client, CreateImport(c)
  PROVE  ImportInv'
<1>0. client[c].pc = "insert" /\ client[c].key \in Key
  BY DEF CreateImport, CreateInsert, Import, Refers, RequestsRefer
<1>1. PICK k \in Key : k = client[c].key /\ client[c].pc = "insert"
  BY <1>0
<1>2. UNCHANGED <<upload, files, holding, stage, audits, deletion, registered, worker>>
  BY DEF CreateImport, CreateInsert
<1>3. holding[c] \in Path /\ upload[holding[c]] # Null /\ upload[holding[c]].key = k
  BY <1>1, HeldUpload DEF Import, ImportInv, RequestsHold
<1>4. \A i \in Key : payload[i] # holding[c]
  BY <1>1, <1>3, ImportAssumption, HeldIsNoPayload
<1>5. \A d \in Client \ {c} : client'[d] = client[d]
  BY DEF CreateImport, CreateInsert, Ask, Import, Refers, TypeOK
<1>6. client'[c].key = k /\ client'[c].pc \in {"enqueue", "duplicate"}
  BY <1>1 DEF CreateImport, CreateInsert, Ask, Import, Refers, TypeOK
<1>7. CASE job[k] # Null
  <2>1. payload' = payload /\ RowsKept
    BY <1>1, <1>7 DEF CreateImport, CreateInsert, RowsKept, Exists
  <2>2. client'[c].pc = "duplicate"
    BY <1>1, <1>7 DEF CreateImport, CreateInsert, Ask, Import, Refers, TypeOK
  <2>3. holding[c] \in files
    BY <1>1, <1>3, ImportAssumption DEF Import, ImportInv, RequestsHold
  <2>6. RequestsHold'
    <3>1. ASSUME NEW d \in Client, d # c
          PROVE  client'[d] = client[d] /\ UNCHANGED <<holding, upload, files, payload>>
      BY <1>2, <1>5, <2>1, <3>1
    <3>2. client'[c].pc # "enqueue" /\ UNCHANGED <<holding, upload, files, payload>>
      BY <1>2, <2>1, <2>2
    <3> QED
      BY <1>3, <1>6, <2>2, <2>3, <3>1, <3>2, ImportAssumption DEF Import, ImportInv, RequestsHold
  <2>4. HeldOnce'
    BY <1>1, <1>2, <1>4, <1>5, <2>1 DEF Import, ImportInv, HeldOnce
  <2> QED
    BY <1>2, <2>1, <2>4, <2>6, Undisturbed DEF Import, ImportInv
<1>8. CASE job[k] = Null
  <2>1. /\ payload' = [payload EXCEPT ![k] = holding[c]]
        /\ job' = [job EXCEPT ![k] = NewRow]
    BY <1>1, <1>8 DEF CreateImport, CreateInsert
  <2>2. /\ \A i \in Key \ {k} : payload'[i] = payload[i] /\ (Exists(i)' <=> Exists(i))
        /\ payload'[k] = holding[c] /\ Exists(k)' /\ ~Exists(k)
    BY <1>1, <1>8, <2>1, NewRowType, RowIsNotNull DEF Import, ImportTypeOK, Refers, TypeOK, Exists
  <2>3. client'[c].pc = "enqueue"
    BY <1>1, <1>8 DEF CreateImport, CreateInsert, Ask, Import, Refers, TypeOK
  <2>4. RequestsHold'
    <3>1. ASSUME NEW d \in Client \ {c}, client'[d].pc = "enqueue", holding'[d] # Null
          PROVE  payload'[client'[d].key] = holding'[d]
      <4>1. client[d].key \in Key \ {k}
        BY <1>5, <2>2, <3>1 DEF Import, Refers, RequestsRefer
      <4> QED
        BY <1>2, <1>5, <2>2, <3>1, <4>1 DEF Import, ImportInv, RequestsHold
    <3> QED
      BY <1>2, <1>3, <1>5, <1>6, <2>2, <2>3, <3>1 DEF Import, ImportInv, RequestsHold
  <2>5. HeldOnce'
    <3>1. ASSUME NEW d \in Client \ {c}, holding[d] # Null, NEW i \in Key, payload'[i] = holding[d]
          PROVE  client'[d].pc = "enqueue"
      BY <1>3, <1>5, <2>2, <3>1 DEF Import, ImportInv, HeldOnce
    <3> QED
      BY <1>2, <2>3, <3>1 DEF Import, ImportInv, HeldOnce
  <2>6. PayloadsKept'
    BY <1>2, <1>3, <2>2 DEF Import, ImportInv, PayloadsKept
  <2>7. AuditsOwned'
    <3>1. ASSUME NEW u \in Path, Audited(u)
          PROVE  \E i \in Key : Exists(i)' /\ payload'[i] = u
      BY <2>2, <3>1 DEF Import, ImportInv, AuditsOwned
    <3> QED
      BY <1>2, <3>1, AuditsKept DEF AuditsOwned
  <2>8. RegisteredAudited' /\ DeletesAudited'
    BY <1>2, AuditsKept DEF Import, ImportInv, RegisteredAudited, DeletesAudited
  <2>9. HandlersKnow'
    <3>1. ASSUME NEW w \in Worker, worker[w].pc # "idle"
          PROVE  payload'[worker[w].key] = payload[worker[w].key]
      BY <2>2, <3>1 DEF Import, Refers, ThreadsRefer
    <3> QED
      BY <1>2, <3>1 DEF Import, ImportInv, HandlersKnow, Source, Audited
  <2> QED
    BY <2>4, <2>5, <2>6, <2>7, <2>8, <2>9 DEF ImportInv
<1> QED
  BY <1>7, <1>8

LEMMA RequestInv ==
  ASSUME Import, NEW c \in Client, RequestStep(c)
  PROVE  ImportInv'
<1>1. CASE CreateImport(c)
  BY <1>1, CreateImportInv
<1>2. CASE ~CreateImport(c)
  <2>1. RowsKept
    BY <1>2, RequestRowsKept
  <2>2. AuditsOwned' /\ RegisteredAudited' /\ HandlersKnow' /\ DeletesAudited'
    BY <1>2, <2>1, RequestQuiet DEF Import
  <2>3. RequestsHold' /\ HeldOnce' /\ PayloadsKept'
    BY <1>2, SaveUploadInv, AcceptUploadInv, OtherRequestInv, GiveUpInv DEF RequestStep
  <2> QED
    BY <2>2, <2>3 DEF ImportInv
<1> QED
  BY <1>1, <1>2

\* delete_dataset only takes files whose content was audited.
LEMMA DeletionInv ==
  ASSUME Import, DeletionStep
  PROVE  ImportInv'
<1>1. UNCHANGED <<vars, upload, holding, payload, stage, audits, registered>>
  BY DEF DeletionStep, DeleteRead, DeleteCommit, DeleteFile, DeleteAnswer
<1>2. UNCHANGED <<job, client, worker>> /\ RowsKept
  BY <1>1 DEF vars, RowsKept, Exists
<1>3. \A u \in Path : Audited(u)' <=> Audited(u)
  BY <1>1, AuditsKept
<1>4. DeletesAudited'
  <2>1. \A u \in deletion'.keys : Audited(u)
    <3>1. ASSUME NEW n \in Name, DeleteRead(n) PROVE \A u \in deletion'.keys : Audited(u)
      BY <3>1 DEF DeleteRead, AuditsNamed
    <3>2. CASE DeleteCommit
      BY <3>2 DEF DeleteCommit, Import, ImportTypeOK, ImportInv, DeletesAudited, Deletion
    <3>3. ASSUME NEW u \in Path, DeleteFile(u) PROVE \A v \in deletion'.keys : Audited(v)
      BY <3>3 DEF DeleteFile, Import, ImportTypeOK, ImportInv, DeletesAudited, Deletion
    <3>4. CASE DeleteAnswer
      BY <3>4 DEF DeleteAnswer, NoDeletion
    <3> QED
      BY <3>1, <3>2, <3>3, <3>4 DEF DeletionStep
  <2> QED
    BY <1>1, <2>1, AuditsKept DEF DeletesAudited
<1>5. RequestsHold'
  <2>1. ASSUME NEW u \in files, \A k \in Key : payload[k] # u PROVE u \in files'
    <3>1. u \notin deletion.keys
      BY <2>1 DEF Import, ImportTypeOK, ImportInv, DeletesAudited, AuditsOwned
    <3> QED
      BY <2>1, <3>1 DEF DeletionStep, DeleteRead, DeleteCommit, DeleteFile, DeleteAnswer
  <2>2. ASSUME NEW c \in Client, holding[c] # Null, client[c].pc # "enqueue"
        PROVE  holding[c] \in files'
    BY <2>1, <2>2, HeldIsNoPayload DEF Import, ImportInv, RequestsHold
  <2> QED
    BY <1>1, <1>2, <2>2 DEF Import, ImportInv, RequestsHold
<1> QED
  BY <1>1, <1>2, <1>4, <1>5, Undisturbed DEF Import, ImportInv

LEMMA CrashInv ==
  ASSUME Import, NEW p \in Process, CrashImport(p)
  PROVE  ImportInv'
<1> USE DEF Import
<1>1. UNCHANGED <<job, upload, files, payload, audits, registered>> /\ RowsKept
  BY DEF CrashImport, Crash, RowsKept, Exists
<1>2. \A c \in Client : \/ client'[c] = Rest /\ holding'[c] = Null
                        \/ client'[c] = client[c] /\ holding'[c] = holding[c]
  BY DEF CrashImport, Crash
<1>3. \A w \in Worker : \/ worker'[w] = Rest /\ stage'[w] = Begin
                        \/ worker'[w] = worker[w] /\ stage'[w] = stage[w]
  BY DEF CrashImport, Crash
<1>4. RequestsHold'
  BY <1>1, <1>2 DEF ImportInv, RequestsHold, Rest
<1>5. HeldOnce'
  BY <1>1, <1>2 DEF ImportInv, HeldOnce
<1>6. HandlersKnow'
  BY <1>1, <1>3 DEF ImportInv, HandlersKnow, Rest, Begin, Source, Audited
<1>7. DeletesAudited'
  BY <1>1, AuditsKept DEF CrashImport, NoDeletion, ImportInv, DeletesAudited
<1> QED
  BY <1>1, <1>4, <1>5, <1>6, <1>7, Undisturbed DEF ImportInv

LEMMA ImportInductive == Import /\ [ImportNext]_<<vars, importVars>> => Import'
<1> SUFFICES ASSUME Import, [ImportNext]_<<vars, importVars>> PROVE Import'
  OBVIOUS
<1>1. Refers'
  BY ImportStepIsJobStep, NextRefers DEF Import
<1>2. ImportTypeOK'
  BY ImportTypeStep
<1>3. ImportInv'
  <2>1. CASE UNCHANGED <<vars, importVars>>
    <3>1. RowsKept
      BY <2>1 DEF vars, RowsKept, Exists
    <3> QED
      BY <2>1, <3>1, Undisturbed DEF vars, importVars, Import, ImportInv
  <2>2. CASE ImportNext
    BY <2>2, RunJobInv, HandlerInv, RequestInv, DeletionInv, CrashInv DEF ImportNext
  <2> QED
    BY <2>1, <2>2
<1> QED
  BY <1>1, <1>2, <1>3 DEF Import

LEMMA InitImport == ImportInit => Import
BY InitRefers, InitImportType, InitImportInv DEF Import, ImportInit

LEMMA ImportAlways == ImportSpec => []Import
BY InitImport, ImportInductive, PTL DEF ImportSpec

\* The types of the stored files, the requests, the handlers and the registry.
THEOREM ImportTypeCorrect == ImportSpec => []ImportTypeOK
<1>1. Import => ImportTypeOK
  BY DEF Import
<1> QED
  BY <1>1, ImportAlways, PTL

\* The inductive invariant of the import.
THEOREM ImportInvariant == ImportSpec => []ImportInv
<1>1. Import => ImportInv
  BY DEF Import
<1> QED
  BY <1>1, ImportAlways, PTL

\* The import is an implementation of the job service: what is proved of Jobs
\* holds of it.
THEOREM ImportImplementsJobs == ImportSpec => Spec
<1>1. ImportInit => Init
  BY DEF ImportInit
<1> QED
  BY <1>1, ImportAlways, ImportStepIsJobStep, PTL DEF ImportSpec, Spec

-----------------------------------------------------------------------------
(* What a step may change: one fact per part of the state.                   *)

Step == [ImportNext]_<<vars, importVars>>

\* The payload of a job that exists stays; only CreateImport writes one.
LEMMA PayloadStays ==
  ASSUME Import, Step
  PROVE  \/ payload' = payload /\ RowsKept
         \/ \E c \in Client : CreateImport(c)
<1>1. CASE UNCHANGED <<vars, importVars>>
  BY <1>1 DEF vars, importVars, RowsKept, Exists
<1>2. ASSUME NEW w \in Worker, RunJob(w) PROVE payload' = payload /\ RowsKept
  BY <1>2, RunJobRowsKept DEF RunJob, importVars, Import
<1>3. ASSUME NEW w \in Worker, HandlerStep(w) PROVE payload' = payload /\ RowsKept
  BY <1>3 DEF HandlerStep, ReadFile, SaveAudit, RegisterRead, RegisterCommit, HandlerFails,
         HandlerReturns, HandlerRaises, vars, RowsKept, Exists
<1>4. ASSUME NEW c \in Client, RequestStep(c), ~CreateImport(c) PROVE payload' = payload /\ RowsKept
  BY <1>4, RequestRowsKept, RequestQuiet DEF Import
<1>5. ASSUME DeletionStep PROVE payload' = payload /\ RowsKept
  BY <1>5 DEF DeletionStep, DeleteRead, DeleteCommit, DeleteFile, DeleteAnswer, vars, RowsKept,
         Exists
<1>6. ASSUME NEW p \in Process, CrashImport(p) PROVE payload' = payload /\ RowsKept
  BY <1>6 DEF CrashImport, Crash, RowsKept, Exists
<1> QED
  BY <1>1, <1>2, <1>3, <1>4, <1>5, <1>6 DEF Step, ImportNext

\* What a new job gets: the file of the request that creates it.
LEMMA CreateImportEffect ==
  ASSUME Import, NEW c \in Client, CreateImport(c)
  PROVE  /\ UNCHANGED <<files, audits, registered, holding, orphans>>
         /\ \/ payload' = payload /\ RowsKept
            \/ \E k \in Key :
                 /\ ~Exists(k) /\ Exists(k)'
                 /\ payload'[k] = holding[c] /\ holding[c] \in files
                 /\ job'[k] = NewRow
                 /\ ~Audited(holding[c])
                 /\ \A i \in Key \ {k} : payload'[i] = payload[i] /\ job'[i] = job[i]
<1>1. UNCHANGED <<files, audits, registered, holding, orphans>>
  BY DEF CreateImport
<1>2. client[c].key \in Key /\ client[c].pc = "insert"
  BY DEF CreateImport, CreateInsert, Import, Refers, RequestsRefer
<1>3. PICK k \in Key : k = client[c].key
  BY <1>2
<1>4. CASE job[k] # Null
  BY <1>1, <1>2, <1>3, <1>4 DEF CreateImport, CreateInsert, RowsKept, Exists
<1>5. CASE job[k] = Null
  <2>1. payload' = [payload EXCEPT ![k] = holding[c]] /\ job' = [job EXCEPT ![k] = NewRow]
    BY <1>2, <1>3, <1>5 DEF CreateImport, CreateInsert
  <2>2. holding[c] \in files /\ holding[c] \in Path /\ holding[c] # Null
    BY <1>2, HeldUpload, ImportAssumption DEF Import, ImportInv, RequestsHold
  <2>3. ~Audited(holding[c])
    BY <1>2, <2>2, HeldIsNoPayload DEF Import, ImportInv, AuditsOwned
  <2>4. /\ payload'[k] = holding[c] /\ job'[k] = NewRow /\ ~Exists(k) /\ Exists(k)'
        /\ \A i \in Key \ {k} : payload'[i] = payload[i] /\ job'[i] = job[i]
    BY <1>5, <2>1, NewRowType, RowIsNotNull DEF Import, ImportTypeOK, Refers, TypeOK, Exists
  <2> QED
    BY <1>1, <2>2, <2>3, <2>4
<1> QED
  BY <1>4, <1>5

\* An audit is only ever added, for the upload of a job, and only its first.
LEMMA AuditsStay ==
  ASSUME Import, Step
  PROVE  \/ audits' = audits
         \/ \E k \in Key : /\ Exists(k) /\ ~Audited(payload[k]) /\ payload[k] \in Path
                           /\ audits' = Append(audits, payload[k])
                           /\ UNCHANGED <<job, payload, files, holding, registered, orphans>>
<1>1. ASSUME NEW w \in Worker, SaveAudit(w)
      PROVE  \E k \in Key : /\ Exists(k) /\ ~Audited(payload[k]) /\ payload[k] \in Path
                           /\ audits' = Append(audits, payload[k])
                           /\ UNCHANGED <<job, payload, files, holding, registered, orphans>>
  <2>1. worker[w].pc # "idle"
    BY <1>1 DEF SaveAudit, Executing
  <2>2. worker[w].key \in Key /\ Exists(worker[w].key) /\ payload[worker[w].key] \in Path
    BY <2>1, SourceUpload DEF Source
  <2> QED
    BY <1>1, <2>2 DEF SaveAudit, Source, vars
<1>2. ASSUME NEW w \in Worker, HandlerStep(w), ~SaveAudit(w) PROVE audits' = audits
  BY <1>2 DEF HandlerStep, ReadFile, RegisterRead, RegisterCommit, HandlerFails
<1>3. ASSUME NEW w \in Worker, RunJob(w) PROVE audits' = audits
  BY <1>3 DEF RunJob, importVars
<1>4. ASSUME NEW c \in Client, RequestStep(c) PROVE audits' = audits
  BY <1>4, CreateImportEffect, RequestRowsKept, RequestQuiet DEF Import
<1>5. ASSUME DeletionStep PROVE audits' = audits
  BY <1>5 DEF DeletionStep, DeleteRead, DeleteCommit, DeleteFile, DeleteAnswer
<1>6. ASSUME NEW p \in Process, CrashImport(p) PROVE audits' = audits
  BY <1>6 DEF CrashImport
<1>7. CASE UNCHANGED <<vars, importVars>>
  BY <1>7 DEF importVars
<1> QED
  BY <1>1, <1>2, <1>3, <1>4, <1>5, <1>6, <1>7 DEF Step, ImportNext

\* A registration is only ever added, by a handler that saved the audit.
LEMMA RegisteredStays ==
  ASSUME Import, Step
  PROVE  \/ registered' = registered
         \/ \E k \in Key : /\ Exists(k) /\ Audited(payload[k])
                           /\ registered' = registered \union {payload[k]}
                           /\ UNCHANGED <<job, payload, audits>>
<1>1. ASSUME NEW w \in Worker, RegisterCommit(w)
      PROVE  \E k \in Key : /\ Exists(k) /\ Audited(payload[k])
                           /\ registered' = registered \union {payload[k]}
                           /\ UNCHANGED <<job, payload, audits>>
  <2>1. worker[w].pc # "idle" /\ Audited(payload[worker[w].key])
    BY <1>1 DEF RegisterCommit, Executing, Import, ImportInv, HandlersKnow, Source
  <2>2. worker[w].key \in Key /\ Exists(worker[w].key)
    BY <2>1, SourceUpload
  <2> QED
    BY <1>1, <2>1, <2>2 DEF RegisterCommit, HandlerReturns, Source
<1>2. ASSUME NEW w \in Worker, HandlerStep(w), ~RegisterCommit(w) PROVE registered' = registered
  BY <1>2 DEF HandlerStep, ReadFile, SaveAudit, RegisterRead, HandlerFails
<1>3. ASSUME NEW w \in Worker, RunJob(w) PROVE registered' = registered
  BY <1>3 DEF RunJob, importVars
<1>4. ASSUME NEW c \in Client, RequestStep(c) PROVE registered' = registered
  BY <1>4, CreateImportEffect, RequestRowsKept, RequestQuiet DEF Import
<1>5. ASSUME DeletionStep PROVE registered' = registered
  BY <1>5 DEF DeletionStep, DeleteRead, DeleteCommit, DeleteFile, DeleteAnswer
<1>6. ASSUME NEW p \in Process, CrashImport(p) PROVE registered' = registered
  BY <1>6 DEF CrashImport
<1>7. CASE UNCHANGED <<vars, importVars>>
  BY <1>7 DEF importVars
<1> QED
  BY <1>1, <1>2, <1>3, <1>4, <1>5, <1>6, <1>7 DEF Step, ImportNext

\* What exists, was audited or was registered stays so.
LEMMA NothingTakenBack ==
  ASSUME Import, Step
  PROVE  /\ \A k \in Key : Exists(k) => Exists(k)' /\ payload'[k] = payload[k]
         /\ \A u : Audited(u) => Audited(u)'
         /\ registered \subseteq registered'
<1>1. \A k \in Key : Exists(k) => Exists(k)' /\ payload'[k] = payload[k]
  BY PayloadStays, CreateImportEffect DEF RowsKept, Exists
<1>2. \A u : Audited(u) => Audited(u)'
  <2>1. CASE audits' = audits
    BY <2>1, AuditsKept
  <2>2. ASSUME NEW k \in Key, payload[k] \in Path, audits' = Append(audits, payload[k])
        PROVE  \A u : Audited(u) => Audited(u)'
    BY <2>2, AuditsGrow DEF Import
  <2> QED
    BY <2>1, <2>2, AuditsStay
<1>3. registered \subseteq registered'
  BY RegisteredStays
<1> QED
  BY <1>1, <1>2, <1>3

-----------------------------------------------------------------------------
(* The properties.                                                           *)

\* An upload is audited at most once, however often its job is executed.
THEOREM OnlyOneAudit == ImportSpec => []AuditedOnce
<1>1. ImportInit => AuditedOnce
  BY DEF ImportInit, AuditedOnce
<1>2. ASSUME Import, Step, AuditedOnce PROVE AuditedOnce'
  <2>1. CASE audits' = audits
    BY <1>2, <2>1 DEF AuditedOnce
  <2>2. ASSUME NEW k \in Key, payload[k] \in Path, ~Audited(payload[k]),
               audits' = Append(audits, payload[k])
        PROVE  AuditedOnce'
    <3>1. audits \in Seq(Path)
      BY <1>2 DEF Import, ImportTypeOK
    <3>2. \A i \in DOMAIN audits : audits[i] # payload[k]
      BY <2>2 DEF Audited
    <3> QED
      BY <1>2, <2>2, <3>1, <3>2 DEF AuditedOnce
  <2> QED
    BY <1>2, <2>1, <2>2, AuditsStay
<1> QED
  BY <1>1, <1>2, ImportAlways, PTL DEF ImportSpec, Step

\* A completed job is an audit that was saved and registered.
THEOREM CompletedMeansRegistered == ImportSpec => []CompletedIsRegistered
<1>1. ImportInit => CompletedIsRegistered
  BY DEF ImportInit, Init, CompletedIsRegistered, Exists
<1>2. ASSUME Import, Step, CompletedIsRegistered PROVE CompletedIsRegistered'
  <2>1. ASSUME NEW k \in Key, Exists(k)', job'[k].status = "completed"
        PROVE  Exists(k) /\ Audited(payload[k]) /\ payload[k] \in registered
    <3>1. Exists(k)
      <4>1. NewRow.status # "completed"
        BY DEF NewRow
      <4> QED
        BY <1>2, <2>1, <4>1, PayloadStays, CreateImportEffect DEF RowsKept, Exists
    <3>2. CASE job[k].status = "completed"
      BY <1>2, <3>1, <3>2 DEF CompletedIsRegistered
    <3>3. ASSUME NEW w \in Worker, worker[w].pc = "completed", worker[w].key = k
          PROVE  Audited(payload[k]) /\ payload[k] \in registered
      BY <1>2, <3>3 DEF Import, ImportTypeOK, ImportInv, HandlersKnow, RegisteredAudited, Source
    <3> QED
      BY <1>2, <2>1, <3>1, <3>2, <3>3, CompletedBy, ImportStepIsJobStep DEF Import, Step
  <2>2. ASSUME NEW k \in Key, Exists(k)', job'[k].status = "completed"
        PROVE  Audited(payload[k])' /\ payload'[k] \in registered'
    <3>1. PICK u : u = payload[k]
      OBVIOUS
    <3>2. payload'[k] = u /\ Audited(u)' /\ u \in registered'
      BY <1>2, <2>1, <2>2, <3>1, NothingTakenBack
    <3> QED
      BY <3>2 DEF Audited
  <2> QED
    BY <2>2 DEF CompletedIsRegistered
<1> QED
  BY <1>1, <1>2, ImportAlways, PTL DEF ImportSpec, Step

\* A file leaves the storage only when its content was audited, or before any job
\* refers to it.
LEMMA FilesLeave ==
  ASSUME Import, Step, NEW u \in files, u \notin files'
  PROVE  Audited(u) \/ \A k \in Key : payload[k] # u
<1>1. ASSUME NEW c \in Client, RejectUpload(c)
      PROVE  \A k \in Key : payload[k] # u
  <2>1. holding[c] # Null /\ client[c].pc # "enqueue" /\ u = holding[c]
    BY <1>1 DEF RejectUpload, Discard
  <2> QED
    BY <2>1, HeldIsNoPayload
<1>2. ASSUME NEW c \in Client, DropDuplicate(c)
      PROVE  \A k \in Key : payload[k] # u
  <2>1. client[c].pc = "duplicate" /\ u = holding[c]
    BY <1>2 DEF DropDuplicate, AnswerDuplicate, Discard, DiscardNothing
  <2>2. holding[c] # Null
    BY <2>1 DEF Import, ImportInv, RequestsHold
  <2> QED
    BY <2>1, <2>2, HeldIsNoPayload
<1>3. ASSUME NEW v \in Path, DeleteFile(v) PROVE Audited(u)
  BY <1>3 DEF DeleteFile, Import, ImportInv, DeletesAudited
<1>4. ASSUME NEW c \in Client, RequestStep(c), ~RejectUpload(c), ~DropDuplicate(c)
      PROVE  files \subseteq files'
  BY <1>4 DEF RequestStep, SaveUpload, AcceptUpload, CreateImport, EnqueueImport, OtherRequest,
         FailImport, importVars
<1>5. ASSUME NEW w \in Worker, RunJob(w) PROVE files' = files
  BY <1>5 DEF RunJob, importVars
<1>6. ASSUME NEW w \in Worker, HandlerStep(w) PROVE files' = files
  BY <1>6 DEF HandlerStep, ReadFile, SaveAudit, RegisterRead, RegisterCommit, HandlerFails
<1>7. ASSUME NEW p \in Process, CrashImport(p) PROVE files' = files
  BY <1>7 DEF CrashImport
<1>8. CASE UNCHANGED <<vars, importVars>>
  BY <1>8 DEF importVars
<1>9. ASSUME DeletionStep, ~\E v \in Path : DeleteFile(v) PROVE files' = files
  BY <1>9 DEF DeletionStep, DeleteRead, DeleteCommit, DeleteAnswer
<1> QED
  BY <1>1, <1>2, <1>3, <1>4, <1>5, <1>6, <1>7, <1>8, <1>9 DEF Step, ImportNext

\* The file of an accepted upload is there until the upload is audited.
THEOREM FileKeptUntilAudited == ImportSpec => []AcceptedFileKept
<1>1. ImportInit => AcceptedFileKept
  BY DEF ImportInit, Init, AcceptedFileKept, Exists
<1>2. ASSUME Import, Step, AcceptedFileKept PROVE AcceptedFileKept'
  <2>1. ASSUME NEW k \in Key, Exists(k)', NEW u, u = payload'[k], ~Audited(u)'
        PROVE  u \in files'
    <3>1. CASE Exists(k)
      <4>1. payload[k] = u /\ ~Audited(u)
        BY <1>2, <2>1, <3>1, NothingTakenBack
      <4>2. u \in files
        BY <1>2, <3>1, <4>1 DEF AcceptedFileKept
      <4> QED
        BY <1>2, <4>1, <4>2, FilesLeave
    <3>2. CASE ~Exists(k)
      <4>1. PICK c \in Client : CreateImport(c)
        BY <1>2, <2>1, <3>2, PayloadStays DEF RowsKept
      <4>2. files' = files /\ payload'[k] \in files
        BY <1>2, <2>1, <3>2, <4>1, CreateImportEffect DEF RowsKept, Exists
      <4> QED
        BY <2>1, <4>2
    <3> QED
      BY <3>1, <3>2
  <2>2. ASSUME NEW k \in Key, Exists(k)', ~Audited(payload[k])' PROVE payload'[k] \in files'
    <3>1. PICK u : u = payload'[k]
      OBVIOUS
    <3>2. ~Audited(u)'
      BY <2>2, <3>1 DEF Audited
    <3> QED
      BY <2>1, <2>2, <3>1, <3>2
  <2> QED
    BY <2>2 DEF AcceptedFileKept
<1> QED
  BY <1>1, <1>2, ImportAlways, PTL DEF ImportSpec, Step

\* A request that lets go of its file has it deleted, recorded as left behind, or
\* handed to a job.
LEMMA HoldingReleased ==
  ASSUME Import, Step, NEW c \in Client, NEW u \in Path, holding[c] = u, holding'[c] # u
  PROVE  u \notin files' \/ u \in orphans' \/ \E k \in Key : payload[k] = u
<1> DEFINE Goal == u \notin files' \/ u \in orphans' \/ \E k \in Key : payload[k] = u
<1>0. u # Null /\ holding[c] # Null
  BY ImportAssumption
<1>1. ASSUME NEW d \in Client, d # c, RequestStep(d) PROVE holding'[c] = holding[c]
  BY <1>1 DEF RequestStep, SaveUpload, RejectUpload, AcceptUpload, CreateImport, DropDuplicate,
         EnqueueImport, OtherRequest, FailImport, Discard, DiscardNothing, importVars, Import,
         ImportTypeOK
<1>2. ASSUME RejectUpload(c) PROVE Goal
  BY <1>2 DEF RejectUpload, Discard
<1>3. ASSUME DropDuplicate(c) PROVE Goal
  <2>1. client[c].key \in Key
    BY <1>3 DEF DropDuplicate, AnswerDuplicate, Import, Refers, RequestsRefer
  <2> QED
    BY <1>3, <2>1 DEF DropDuplicate, Discard
<1>4. ASSUME EnqueueImport(c) PROVE Goal
  <2>1. client[c].pc = "enqueue" /\ client[c].key \in Key
    BY <1>4 DEF EnqueueImport, Enqueue, Import, Refers, RequestsRefer
  <2>2. payload[client[c].key] = u
    BY <1>0, <2>1 DEF Import, ImportInv, RequestsHold
  <2> QED
    BY <2>1, <2>2
<1>5. ASSUME RequestStep(c), ~RejectUpload(c), ~DropDuplicate(c), ~EnqueueImport(c), ~FailImport(c)
      PROVE  holding'[c] = holding[c]
  BY <1>0, <1>5 DEF RequestStep, SaveUpload, LoopFree, AcceptUpload, CreateImport, OtherRequest,
         importVars
<1>6. ASSUME NEW p \in Process, CrashImport(p) PROVE Goal
  <2>1. Home[c] = p
    BY <1>6 DEF CrashImport
  <2>2. CASE client[c].pc = "enqueue"
    <3>1. client[c].key \in Key /\ payload[client[c].key] = u
      BY <1>0, <2>2 DEF Import, Refers, RequestsRefer, ImportInv, RequestsHold
    <3> QED
      BY <3>1
  <2>3. CASE client[c].pc # "enqueue"
    BY <1>0, <1>6, <2>1, <2>3 DEF CrashImport
  <2> QED
    BY <2>2, <2>3
<1>7. ASSUME NEW w \in Worker, RunJob(w) \/ HandlerStep(w) PROVE holding' = holding
  BY <1>7 DEF RunJob, importVars, HandlerStep, ReadFile, SaveAudit, RegisterRead, RegisterCommit,
         HandlerFails
<1>8. ASSUME DeletionStep \/ UNCHANGED <<vars, importVars>> PROVE holding' = holding
  BY <1>8 DEF DeletionStep, DeleteRead, DeleteCommit, DeleteFile, DeleteAnswer, importVars
<1>9. ASSUME FailImport(c) PROVE Goal
  <2>1. CASE client[c].pc = "enqueue"
    <3>1. client[c].key \in Key /\ payload[client[c].key] = u
      BY <1>0, <2>1 DEF Import, Refers, RequestsRefer, ImportInv, RequestsHold
    <3> QED
      BY <3>1
  <2>2. CASE client[c].pc # "enqueue"
    BY <1>0, <1>9, <2>2 DEF FailImport
  <2> QED
    BY <2>1, <2>2
<1> QED
  BY <1>1, <1>2, <1>3, <1>4, <1>5, <1>6, <1>7, <1>8, <1>9 DEF Step, ImportNext

\* A new file is held by the request that saved it; what was left behind stays
\* recorded.
LEMMA FilesArrive ==
  ASSUME Import, Step
  PROVE  /\ \A u \in files' \ files : \E c \in Client : holding'[c] = u
         /\ orphans \subseteq orphans'
<1>1. ASSUME NEW c \in Client, NEW u \in Path, NEW k \in Key, NEW n \in Name, SaveUpload(c, u, k, n)
      PROVE  files' = files \union {u} /\ holding'[c] = u /\ orphans' = orphans
  BY <1>1 DEF SaveUpload, Import, ImportTypeOK
<1>2. ASSUME NEW c \in Client, RejectUpload(c) \/ AcceptUpload(c) \/ CreateImport(c)
             \/ DropDuplicate(c) \/ EnqueueImport(c) \/ OtherRequest(c) \/ FailImport(c)
      PROVE  files' \subseteq files /\ orphans \subseteq orphans'
  BY <1>2 DEF RejectUpload, AcceptUpload, CreateImport, DropDuplicate, EnqueueImport, OtherRequest,
         FailImport, Discard, DiscardNothing, importVars
<1>3. ASSUME NEW w \in Worker, RunJob(w) \/ HandlerStep(w)
      PROVE  files' \subseteq files /\ orphans \subseteq orphans'
  BY <1>3 DEF RunJob, importVars, HandlerStep, ReadFile, SaveAudit, RegisterRead, RegisterCommit,
         HandlerFails
<1>4. ASSUME DeletionStep \/ UNCHANGED <<vars, importVars>>
      PROVE  files' \subseteq files /\ orphans \subseteq orphans'
  BY <1>4 DEF DeletionStep, DeleteRead, DeleteCommit, DeleteFile, DeleteAnswer, importVars
<1>5. ASSUME NEW p \in Process, CrashImport(p)
      PROVE  files' \subseteq files /\ orphans \subseteq orphans'
  BY <1>5 DEF CrashImport
<1> QED
  BY <1>1, <1>2, <1>3, <1>4, <1>5 DEF Step, ImportNext, RequestStep

\* No file is forgotten: what is stored has a job or a request, unless a crash, an exception or
\* a refused deletion left it.
THEOREM FilesAllAccounted == ImportSpec => []FilesAccounted
<1>1. ImportInit => FilesAccounted
  BY DEF ImportInit, FilesAccounted
<1>2. ASSUME Import, Step, FilesAccounted PROVE FilesAccounted'
  <2>1. ASSUME NEW u \in files', u \notin orphans', \A c \in Client : holding'[c] # u
        PROVE  \E k \in Key : payload'[k] = u
    <3>1. u \in files /\ u \notin orphans /\ u \in Path
      BY <1>2, <2>1, FilesArrive DEF Import, ImportTypeOK
    <3>2. \E k \in Key : payload[k] = u
      BY <1>2, <2>1, <3>1, HoldingReleased DEF FilesAccounted
    <3>3. PICK k \in Key : payload[k] = u
      BY <3>2
    <3>4. Exists(k)
      BY <1>2, <3>1, <3>3, ImportAssumption DEF Import, ImportInv, PayloadsKept
    <3> QED
      BY <1>2, <3>3, <3>4, NothingTakenBack
  <2> QED
    BY <2>1 DEF FilesAccounted
<1> QED
  BY <1>1, <1>2, ImportAlways, PTL DEF ImportSpec, Step

-----------------------------------------------------------------------------
(* The refinement.                                                           *)

\* Two jobs never share a storage key.
LEMMA PayloadsDistinct ==
  ASSUME Import, NEW i \in Key, NEW j \in Key, Exists(i), Exists(j), payload[i] = payload[j]
  PROVE  i = j
BY DEF Import, ImportInv, PayloadsKept

LEMMA StepIsOnceStep == Import /\ Step => [Once!Next]_(Once!vars)
<1> SUFFICES ASSUME Import, Step PROVE [Once!Next]_(Once!vars)
  OBVIOUS
<1> DEFINE A == {k \in Key : Exists(k)}
           B == {k \in Key : Exists(k) /\ Audited(payload[k])}
           R == {k \in Key : Exists(k) /\ payload[k] \in registered}
<1>1. ASSUME NEW k \in Key, Exists(k), ~Audited(payload[k]), payload[k] \in Path,
             audits' = Append(audits, payload[k]), UNCHANGED <<job, payload, registered>>
      PROVE  Once!Next
  <2>1. A' = A /\ R' = R
    BY <1>1 DEF Exists
  <2>2. ASSUME NEW j \in Key, Exists(j) PROVE Audited(payload[j])' <=> Audited(payload[j]) \/ j = k
    <3>1. PICK v : v = payload[j]
      OBVIOUS
    <3>2. Audited(v)' <=> Audited(v) \/ v = payload[k]
      BY <1>1, AuditsGrow DEF Import
    <3>3. Audited(payload[j])' <=> Audited(v)'
      BY <1>1, <3>1 DEF Audited
    <3> QED
      BY <1>1, <2>2, <3>1, <3>2, <3>3, PayloadsDistinct
  <2>3. B' = B \union {k} /\ k \in A \ B
    BY <1>1, <2>2 DEF Exists
  <2>4. Len(audits') = Len(audits) + 1
    BY <1>1 DEF Import, ImportTypeOK
  <2>5. Once!Audit(k)
    BY <2>1, <2>3, <2>4 DEF Once!Audit
  <2> QED
    BY <2>5 DEF Once!Next
<1>2. ASSUME NEW k \in Key, Exists(k), Audited(payload[k]),
             registered' = registered \union {payload[k]}, UNCHANGED <<job, payload, audits>>
      PROVE  Once!Next \/ UNCHANGED Once!vars
  <2>1. A' = A /\ B' = B /\ Len(audits') = Len(audits)
    BY <1>2 DEF Exists, Audited
  <2>2. R' = R \union {k} /\ k \in B
    BY <1>2, PayloadsDistinct DEF Exists
  <2>3. CASE k \in R
    BY <2>1, <2>2, <2>3 DEF Once!vars
  <2>4. CASE k \notin R
    BY <2>1, <2>2, <2>4 DEF Once!Next, Once!Register
  <2> QED
    BY <2>3, <2>4
<1>3. ASSUME payload' = payload, RowsKept, audits' = audits, registered' = registered
      PROVE  UNCHANGED Once!vars
  <2>1. A' = A /\ B' = B /\ R' = R
    BY <1>3 DEF RowsKept, Audited
  <2> QED
    BY <1>3, <2>1 DEF Once!vars
<1>4. ASSUME NEW c \in Client, NEW k \in Key, ~Exists(k), Exists(k)', payload'[k] = holding[c],
             ~Audited(holding[c]), audits' = audits, registered' = registered,
             \A i \in Key \ {k} : payload'[i] = payload[i] /\ job'[i] = job[i]
      PROVE  Once!Next
  <2>1. A' = A \union {k} /\ k \notin A
    BY <1>4 DEF Exists
  <2>2. B' = B
    BY <1>4 DEF Exists, Audited
  <2>3. holding[c] \notin registered
    BY <1>4 DEF Import, ImportTypeOK, ImportInv, RegisteredAudited
  <2>4. R' = R
    BY <1>4, <2>3 DEF Exists
  <2> QED
    BY <1>4, <2>1, <2>2, <2>4 DEF Once!Next, Once!Accept
<1> QED
  BY <1>1, <1>2, <1>3, <1>4, PayloadStays, CreateImportEffect, AuditsStay, RegisteredStays

\* The import keeps the promise of ImportOnce: every content is accepted once,
\* audited at most once and registered only after that, and nothing is taken back.
THEOREM ImportKeepsPromise == ImportSpec => ImportsOnce
<1>1. ImportInit => Once!Init
  BY DEF ImportInit, Init, Once!Init, Exists
<1> QED
  BY <1>1, ImportAlways, StepIsOnceStep, PTL DEF ImportSpec, ImportsOnce, Once!Spec, Step
=============================================================================
