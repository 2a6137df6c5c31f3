----------------------------- MODULE AuditImport -----------------------------
(***************************************************************************)
(* Importing a dataset through a background job: upload_audit_async        *)
(* (src/app/api/routes/audits.py), DatasetAuditHandler                     *)
(* (src/app/jobs/handlers.py) and what it calls (AuditStore.save,          *)
(* register_audit_dataset), delete_dataset, and the stored files.          *)
(*                                                                         *)
(* The steps of Jobs are taken over: an upload is what creates a job, and  *)
(* the handler fills the time a thread spends in "execute".  The handler   *)
(* is three transactions, and it may raise before or after each of them.   *)
(* Files are written and deleted outside every transaction.                *)
(***************************************************************************)
EXTENDS Jobs

CONSTANTS
  Path,       \* storage keys; save_upload draws a fresh one for each upload
  Name,       \* file names, which become dataset names
  MaxDeletes  \* bound: delete_dataset requests in a behaviour

Upload == [key: Key, name: Name]

ASSUME ImportAssumption ==
  /\ Null \notin Path
  /\ Null \notin Upload
  /\ MaxDeletes \in Nat

VARIABLES
  upload,      \* upload[u]: content and name of the file saved as u, or Null
  files,       \* the storage keys under which an object is stored
  holding,     \* holding[c]: what request c has saved, or Null
  payload,     \* payload[k]: the storage key in the payload of k's job, or Null
  stage,       \* stage[w]: where the handler stands in thread w
  audits,      \* the storage keys of the audits, in the order they were saved
  dataset,     \* dataset[n]: the registered dataset named n, or Null
  deletion,    \* the delete_dataset request under way
  deletes,     \* delete_dataset requests so far (for the bound)
  registered,  \* history: storage keys whose audit was registered
  orphans      \* history: files that a crash, an exception or a failed deletion left behind

importVars == <<upload, files, holding, payload, stage, audits, dataset, deletion,
                deletes, registered, orphans>>

\* A dataset row is identified by the audit whose registration inserted it.
Dataset == [id: Nat, latest: Nat]
Begin == [at |-> "read", audit |-> 0, row |-> Null]
Stage == [at: {"read", "save", "register", "commit"}, audit: Nat, row: Dataset \union {Null}]
NoDeletion == [pc |-> "idle", name |-> Null, id |-> 0, keys |-> {}]
Deletion == [pc: {"idle", "commit", "files"}, name: Name \union {Null}, id: Nat,
             keys: SUBSET Path]

Audited(u) == \E i \in DOMAIN audits : audits[i] = u

-----------------------------------------------------------------------------
(* upload_audit_async.  It awaits nothing after file.read(), so uploads to  *)
(* one process do not interleave; everything else does.                     *)

LoopFree(c) == \A d \in Client : Home[d] = Home[c] => holding[d] = Null

\* save_upload stores the content under a fresh key.
SaveUpload(c, u, k, n) ==
  /\ client[c].pc = "idle"
  /\ LoopFree(c)
  /\ upload[u] = Null
  /\ upload' = [upload EXCEPT ![u] = [key |-> k, name |-> n]]
  /\ files' = files \union {u}
  /\ holding' = [holding EXCEPT ![c] = u]
  /\ UNCHANGED <<vars, payload, stage, audits, dataset, deletion, deletes, registered,
                 orphans>>

\* The request gives its file up.  The storage may refuse the deletion.
DiscardNothing(c) ==
  /\ holding' = [holding EXCEPT ![c] = Null]
  /\ UNCHANGED <<files, orphans>>
Discard(c) ==
  /\ holding' = [holding EXCEPT ![c] = Null]
  /\ \/ files' = files \ {holding[c]} /\ UNCHANGED orphans
     \/ orphans' = orphans \union {holding[c]} /\ UNCHANGED files

\* The content does not parse: the file is deleted and the answer is 400.
RejectUpload(c) ==
  /\ client[c].pc = "idle"
  /\ holding[c] # Null
  /\ Discard(c)
  /\ UNCHANGED <<vars, upload, payload, stage, audits, dataset, deletion, deletes,
                 registered>>

AcceptUpload(c) ==
  /\ holding[c] # Null
  /\ CreateSelect(c, upload[holding[c]].key)
  /\ UNCHANGED importVars

\* The row that create_job inserts carries the payload.
CreateImport(c) ==
  /\ CreateInsert(c)
  /\ payload' = IF job[client[c].key] = Null
                  THEN [payload EXCEPT ![client[c].key] = holding[c]] ELSE payload
  /\ UNCHANGED <<upload, files, holding, stage, audits, dataset, deletion, deletes,
                 registered, orphans>>

\* created = False: the copy is deleted unless it is the one the job refers to.
KeepOwnCopy(c) ==
  /\ AnswerDuplicate(c)
  /\ files' = files \ {payload[client[c].key]}
  /\ holding' = [holding EXCEPT ![c] = Null]
  /\ UNCHANGED <<upload, payload, stage, audits, dataset, deletion, deletes, registered,
                 orphans>>
DropDuplicate(c) ==
  /\ AnswerDuplicate(c)
  /\ IF holding[c] # payload[client[c].key] THEN Discard(c) ELSE DiscardNothing(c)
  /\ UNCHANGED <<upload, payload, stage, audits, dataset, deletion, deletes, registered>>

EnqueueImport(c) ==
  /\ Enqueue(c)
  /\ holding' = [holding EXCEPT ![c] = Null]
  /\ UNCHANGED <<upload, files, payload, stage, audits, dataset, deletion, deletes,
                 registered, orphans>>

\* Cancels and retries, which hold no file.
OtherRequest(c) ==
  /\ holding[c] = Null
  /\ \/ \E k \in Key : CancelRead(c, k) \/ RetryCheck(c, k)
     \/ CancelCommit(c)
     \/ RetryRead(c)
     \/ RetryCommit(c)
  /\ UNCHANGED importVars

\* A request ends in an exception.  Only a rejected file is cleaned up: one saved
\* for a job that is not created stays behind.
FailImport(c) ==
  /\ RequestFails(c)
  /\ holding' = [holding EXCEPT ![c] = Null]
  /\ orphans' = orphans \union IF client[c].pc = "enqueue" THEN {} ELSE {holding[c]} \ {Null}
  /\ UNCHANGED <<upload, files, payload, stage, audits, dataset, deletion, deletes, registered>>

-----------------------------------------------------------------------------
(* DatasetAuditHandler.execute in thread w.                                *)

Executing(w, at) == worker[w].pc = "execute" /\ stage[w].at = at
Source(w) == payload[worker[w].key]

\* read_bytes; a missing file leaves only HandlerFails.
ReadFile(w) ==
  /\ Executing(w, "read")
  /\ Source(w) \in files
  /\ stage' = [stage EXCEPT ![w].at = "save"]
  /\ UNCHANGED <<vars, upload, files, holding, payload, audits, dataset, deletion, deletes,
                 registered, orphans>>

\* AuditStore.save: the audit and its upload row in one transaction.  The
\* stored file name is UNIQUE, so a second audit of the file raises.
SaveAuditTwice(w) ==
  /\ Executing(w, "save")
  /\ audits' = Append(audits, Source(w))
  /\ stage' = [stage EXCEPT ![w].at = "register", ![w].audit = Len(audits) + 1]
  /\ UNCHANGED <<vars, upload, files, holding, payload, dataset, deletion, deletes,
                 registered, orphans>>
SaveAudit(w) ==
  /\ Executing(w, "save")
  /\ ~Audited(Source(w))
  /\ audits' = Append(audits, Source(w))
  /\ stage' = [stage EXCEPT ![w].at = "register", ![w].audit = Len(audits) + 1]
  /\ UNCHANGED <<vars, upload, files, holding, payload, dataset, deletion, deletes,
                 registered, orphans>>

\* register_audit_dataset: the SELECT by name.
RegisterRead(w) ==
  /\ Executing(w, "register")
  /\ stage' = [stage EXCEPT ![w].at = "commit", ![w].row = dataset[upload[Source(w)].name]]
  /\ UNCHANGED <<vars, upload, files, holding, payload, audits, dataset, deletion, deletes,
                 registered, orphans>>

\* Its commit: an INSERT when no row was seen, which raises when one appeared,
\* or an UPDATE by id, which raises when the row is gone.  Then execute returns.
ReturnUnregistered(w) ==
  /\ Executing(w, "register")
  /\ HandlerReturns(w)
  /\ stage' = [stage EXCEPT ![w] = Begin]
  /\ UNCHANGED <<upload, files, holding, payload, audits, dataset, deletion, deletes,
                 registered, orphans>>
RegisterCommit(w) ==
  LET n == upload[Source(w)].name
      seen == stage[w].row
      audit == stage[w].audit IN
  /\ Executing(w, "commit")
  /\ \/ /\ seen = Null
        /\ dataset[n] = Null
        /\ dataset' = [dataset EXCEPT ![n] = [id |-> audit, latest |-> audit]]
     \/ /\ seen # Null
        /\ dataset[n] # Null
        /\ dataset[n].id = seen.id
        /\ dataset' = [dataset EXCEPT ![n].latest = audit]
  /\ registered' = registered \union {Source(w)}
  /\ HandlerReturns(w)
  /\ stage' = [stage EXCEPT ![w] = Begin]
  /\ UNCHANGED <<upload, files, holding, payload, audits, deletion, deletes, orphans>>

\* Anything in the handler may raise: the storage, the audit, the database.
HandlerFails(w) ==
  /\ HandlerRaises(w)
  /\ stage' = [stage EXCEPT ![w] = Begin]
  /\ UNCHANGED <<upload, files, holding, payload, audits, dataset, deletion, deletes,
                 registered, orphans>>

\* The rest of run_job.
RunJob(w) ==
  /\ Dequeue(w) \/ Observe(w) \/ UpdateRead(w) \/ UpdateCommit(w) \/ ThreadFails(w)
  /\ UNCHANGED importVars

-----------------------------------------------------------------------------
(* delete_dataset.  The row goes in a transaction, the files of all audits  *)
(* of that name after it; the audits and the jobs stay.                     *)

AuditsNamed(n) == {u \in Path : Audited(u) /\ upload[u].name = n}

DeleteRead(n) ==
  /\ deletion.pc = "idle"
  /\ deletes < MaxDeletes
  /\ dataset[n] # Null
  /\ deletion' = [pc |-> "commit", name |-> n, id |-> dataset[n].id, keys |-> AuditsNamed(n)]
  /\ deletes' = deletes + 1
  /\ UNCHANGED <<vars, upload, files, holding, payload, stage, audits, dataset, registered,
                 orphans>>

DeleteCommit ==
  /\ deletion.pc = "commit"
  /\ dataset' = [n \in Name |->
       IF n = deletion.name /\ dataset[n] # Null /\ dataset[n].id = deletion.id
         THEN Null ELSE dataset[n]]
  /\ deletion' = [deletion EXCEPT !.pc = "files"]
  /\ UNCHANGED <<vars, upload, files, holding, payload, stage, audits, deletes, registered,
                 orphans>>

\* One file after the other; a deletion that the storage refuses is skipped.
DeleteFile(u) ==
  /\ deletion.pc = "files"
  /\ u \in deletion.keys
  /\ deletion' = [deletion EXCEPT !.keys = @ \ {u}]
  /\ files' = files \ {u} \/ UNCHANGED files
  /\ UNCHANGED <<vars, upload, holding, payload, stage, audits, dataset, deletes, registered,
                 orphans>>

DeleteAnswer ==
  /\ deletion.pc = "files"
  /\ deletion.keys = {}
  /\ deletion' = NoDeletion
  /\ UNCHANGED <<vars, upload, files, holding, payload, stage, audits, dataset, deletes,
                 registered, orphans>>

-----------------------------------------------------------------------------
\* A process dies with its requests: a file saved for a job that is not created
\* yet stays behind.
CrashImport(p) ==
  /\ Crash(p)
  /\ stage' = [w \in Worker |-> IF Home[w] = p THEN Begin ELSE stage[w]]
  /\ holding' = [c \in Client |-> IF Home[c] = p THEN Null ELSE holding[c]]
  /\ orphans' = orphans \union
       {holding[c] : c \in {d \in Client : /\ Home[d] = p
                                           /\ holding[d] # Null
                                           /\ client[d].pc # "enqueue"}}
  /\ deletion' = NoDeletion \/ UNCHANGED deletion
  /\ UNCHANGED <<upload, files, payload, audits, dataset, deletes, registered>>

ImportInit ==
  /\ Init
  /\ upload = [u \in Path |-> Null]
  /\ files = {}
  /\ holding = [c \in Client |-> Null]
  /\ payload = [k \in Key |-> Null]
  /\ stage = [w \in Worker |-> Begin]
  /\ audits = <<>>
  /\ dataset = [n \in Name |-> Null]
  /\ deletion = NoDeletion
  /\ deletes = 0
  /\ registered = {}
  /\ orphans = {}

HandlerStep(w) ==
  \/ ReadFile(w)
  \/ SaveAudit(w)
  \/ RegisterRead(w)
  \/ RegisterCommit(w)
  \/ HandlerFails(w)

RequestStep(c) ==
  \/ \E u \in Path, k \in Key, n \in Name : SaveUpload(c, u, k, n)
  \/ RejectUpload(c)
  \/ AcceptUpload(c)
  \/ CreateImport(c)
  \/ DropDuplicate(c)
  \/ EnqueueImport(c)
  \/ OtherRequest(c)
  \/ FailImport(c)

DeletionStep ==
  \/ \E n \in Name : DeleteRead(n)
  \/ DeleteCommit
  \/ \E u \in Path : DeleteFile(u)
  \/ DeleteAnswer

ImportNext ==
  \/ \E w \in Worker : RunJob(w) \/ HandlerStep(w)
  \/ \E c \in Client : RequestStep(c)
  \/ DeletionStep
  \/ \E p \in Process : CrashImport(p)

ImportSpec == ImportInit /\ [][ImportNext]_<<vars, importVars>>

-----------------------------------------------------------------------------
(* Properties.                                                             *)

\* Types of the stored files, the requests, the handlers and the registry.
ImportTypeOK ==
  /\ upload \in [Path -> Upload \union {Null}]
  /\ files \subseteq Path
  /\ holding \in [Client -> Path \union {Null}]
  /\ payload \in [Key -> Path \union {Null}]
  /\ stage \in [Worker -> Stage]
  /\ audits \in Seq(Path)
  /\ dataset \in [Name -> Dataset \union {Null}]
  /\ deletion \in Deletion
  /\ deletes \in Nat
  /\ registered \subseteq Path
  /\ orphans \subseteq Path

\* A job that shows completed has its audit saved and registered: no mixture of
\* retries, cancellations, two executions at once, partial failures and stale
\* commits of the job row reports an import that did not happen.
CompletedIsRegistered ==
  \A k \in Key : Exists(k) /\ job[k].status = "completed"
    => Audited(payload[k]) /\ payload[k] \in registered

\* An upload is audited at most once, however often its job is executed.
AuditedOnce == \A i, j \in DOMAIN audits : audits[i] = audits[j] => i = j

\* Until an accepted upload is audited its file is there to be read: neither a
\* duplicate's clean-up nor the deletion of a dataset takes it away.
AcceptedFileKept ==
  \A k \in Key : Exists(k) /\ ~Audited(payload[k]) => payload[k] \in files

\* Every stored file belongs to a job or to a request under way, except what a
\* crash, an exception or a refused deletion left behind.
FilesAccounted ==
  \A u \in files :
    \/ u \in orphans
    \/ \E k \in Key : payload[k] = u
    \/ \E c \in Client : holding[c] = u

\* The invariant behind them.  A storage key is drawn for one content, is held by
\* one request until a job's payload names it, and only audited files are ever
\* up for deletion by delete_dataset; a handler past the save has its audit, and
\* run_job past the handler has it registered.
RequestsHold ==
  \A c \in Client :
    /\ holding[c] # Null => upload[holding[c]] # Null
    /\ holding[c] # Null /\ client[c].pc # "enqueue" => holding[c] \in files
    /\ client[c].pc \in {"insert", "duplicate"}
         => holding[c] # Null /\ upload[holding[c]].key = client[c].key
    /\ client[c].pc = "enqueue" /\ holding[c] # Null => payload[client[c].key] = holding[c]
HeldOnce ==
  \A c \in Client : holding[c] # Null =>
    /\ \A d \in Client \ {c} : holding[d] # holding[c]
    /\ \A k \in Key : payload[k] = holding[c] => client[c].pc = "enqueue"
PayloadsKept ==
  \A k \in Key :
    /\ Exists(k) => payload[k] \in Path /\ upload[payload[k]] # Null /\ upload[payload[k]].key = k
    /\ ~Exists(k) => payload[k] = Null
AuditsOwned ==
  \A u \in Path : Audited(u) => \E k \in Key : Exists(k) /\ payload[k] = u
RegisteredAudited == \A u \in registered : Audited(u)
HandlersKnow ==
  \A w \in Worker :
    /\ stage[w].at \in {"register", "commit"} => worker[w].pc = "execute" /\ Audited(Source(w))
    /\ worker[w].pc \in {"recheck", "completed"} => Source(w) \in registered
DeletesAudited == \A u \in deletion.keys : Audited(u)
ImportInv ==
  /\ RequestsHold
  /\ HeldOnce
  /\ PayloadsKept
  /\ AuditsOwned
  /\ RegisteredAudited
  /\ HandlersKnow
  /\ DeletesAudited

\* upload_audit_async's comment "An idempotent duplicate does not need a second
\* stored copy": the job it is a duplicate of still has the first one.
DuplicateHasACopy ==
  \A c \in Client : client[c].pc = "duplicate" => payload[client[c].key] \in files

\* The import implements the promise of ImportOnce.
Once == INSTANCE ImportOnce WITH
  Content <- Key,
  accepted <- {k \in Key : Exists(k)},
  audited <- {k \in Key : Exists(k) /\ Audited(payload[k])},
  total <- Len(audits),
  registered <- {k \in Key : Exists(k) /\ payload[k] \in registered}
ImportsOnce == Once!Spec
=============================================================================
