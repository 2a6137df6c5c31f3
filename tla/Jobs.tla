-------------------------------- MODULE Jobs --------------------------------
(***************************************************************************)
(* The background-job service: the background_jobs table                   *)
(* (src/app/jobs/service.py), the in-process thread pool that runs jobs    *)
(* (src/app/jobs/runtime.py) and the HTTP operations on a job              *)
(* (src/app/api/routes/jobs.py, and create_job's callers).                 *)
(*                                                                         *)
(* Every service function opens a session, SELECTs the row, changes        *)
(* attributes and commits.  Nothing locks the row between the two, and     *)
(* the UPDATE names only the columns whose value differs from the one      *)
(* loaded (SQLAlchemy's unit of work), so a function is two steps here: a  *)
(* read, which keeps the loaded row, and a commit, which flushes the       *)
(* columns that changed.  Steps of all threads and requests interleave.    *)
(*                                                                         *)
(* A process is a server (or the one-shot dispatch_due command) with its   *)
(* own pool.  A crash loses the pool's queue, its threads and the requests *)
(* in flight; the table survives.                                          *)
(***************************************************************************)
EXTENDS Naturals, Sequences, FiniteSets

CONSTANTS
  Key,         \* idempotency keys; the UNIQUE constraint makes one row per key
  Worker,      \* pool threads
  Client,      \* request handlers that may be running at once
  Process,     \* operating-system processes
  Home,        \* the process of each worker and each client
  Null,        \* no row, no key
  MaxRetries,  \* bound: retries accepted in a behaviour
  MaxCrashes   \* bound: crashes and refused statements in a behaviour

(* Rows.  A row keeps the columns the service decides on or reports as a   *)
(* state; its timestamps, payload, result and error text are left out.     *)

Terminal == {"completed", "failed", "cancelled"}
Status == {"queued", "starting", "validating", "processing"} \union Terminal
Row == [status: Status, progress: 0..100, attempts: Nat]
NewRow == [status |-> "queued", progress |-> 0, attempts |-> 0]

ASSUME JobsAssumption ==
  /\ Home \in [Worker \union Client -> Process]
  /\ Null \notin Key
  /\ Null \notin Row
  /\ MaxRetries \in Nat
  /\ MaxCrashes \in Nat

VARIABLES
  job,      \* the table: job[k] is the row with key k, or Null
  queue,    \* queue[p]: the work queue of p's ThreadPoolExecutor
  worker,   \* worker[w]: where run_job stands in thread w
  client,   \* client[c]: where request handler c stands
  retries,  \* retries accepted so far (for the bound)
  crashes,  \* crashes and refused statements so far (for the bound)
  lost      \* keys whose queue entry, thread or request died

vars == <<job, queue, worker, client, retries, crashes, lost>>

-----------------------------------------------------------------------------
\* The row after a flush of the columns in which new differs from the loaded
\* row old, over the row cur that the table holds by then.
Flush(cur, old, new) ==
  [status   |-> IF new.status = old.status THEN cur.status ELSE new.status,
   progress |-> IF new.progress = old.progress THEN cur.progress ELSE new.progress,
   attempts |-> IF new.attempts = old.attempts THEN cur.attempts ELSE new.attempts]

-----------------------------------------------------------------------------
(* run_job.  A thread's pc is "fetch", "check" or "recheck" before the     *)
(* three get_job calls, "execute" inside the handler, and otherwise the    *)
(* status that its current update_job call is to write.                    *)

Update == {"starting", "validating", "processing", "completed", "failed"}
WorkerPC == {"idle", "fetch", "check", "execute", "recheck"} \union Update
Rest == [pc |-> "idle", key |-> Null, row |-> Null]
Thread == [pc: WorkerPC, key: Key \union {Null}, row: Row \union {Null}]

\* After a get_job that does not see a cancelled row, and after an update.
ProceedTo == [fetch |-> "starting", check |-> "validating", recheck |-> "completed"]
UpdatedTo == [starting |-> "check", validating |-> "processing",
              processing |-> "execute"]

Goto(w, pc) == worker' = [worker EXCEPT ![w].pc = pc, ![w].row = Null]
Finish(w) == worker' = [worker EXCEPT ![w] = Rest]

\* An idle thread takes the oldest submitted call.
Dequeue(w) ==
  LET p == Home[w] IN
  /\ worker[w].pc = "idle"
  /\ queue[p] # <<>>
  /\ worker' = [worker EXCEPT ![w] = [pc |-> "fetch", key |-> Head(queue[p]), row |-> Null]]
  /\ queue' = [queue EXCEPT ![p] = Tail(@)]
  /\ UNCHANGED <<job, client, retries, crashes, lost>>

\* get_job: run_job returns when the row is cancelled and goes on otherwise.
Observe(w) ==
  /\ worker[w].pc \in DOMAIN ProceedTo
  /\ IF job[worker[w].key].status = "cancelled"
       THEN Finish(w)
       ELSE Goto(w, ProceedTo[worker[w].pc])
  /\ UNCHANGED <<job, queue, client, retries, crashes, lost>>

\* update_job, first half: db.get.
UpdateRead(w) ==
  /\ worker[w].pc \in Update
  /\ worker[w].row = Null
  /\ worker' = [worker EXCEPT ![w].row = job[worker[w].key]]
  /\ UNCHANGED <<job, queue, client, retries, crashes, lost>>

\* The attributes update_job sets for a thread that writes status s.
ProgressAt == [starting |-> 5, validating |-> 15, processing |-> 35,
               completed |-> 100, failed |-> 100]
Assigned(row, s) ==
  [status   |-> s,
   progress |-> ProgressAt[s],
   attempts |-> row.attempts + IF s = "starting" THEN 1 ELSE 0]

\* update_job, second half: the commit.  Neither the status nor the version
\* of the row is checked, so a cancellation committed since is overwritten.
UpdateCommit(w) ==
  LET me == worker[w] IN
  /\ me.pc \in Update
  /\ me.row # Null
  /\ job' = [job EXCEPT ![me.key] = Flush(@, me.row, Assigned(me.row, me.pc))]
  /\ IF me.pc \in DOMAIN UpdatedTo THEN Goto(w, UpdatedTo[me.pc]) ELSE Finish(w)
  /\ UNCHANGED <<queue, client, retries, crashes, lost>>

\* handler.execute returns a result, or raises and the except branch runs.
HandlerReturns(w) ==
  /\ worker[w].pc = "execute"
  /\ Goto(w, "recheck")
  /\ UNCHANGED <<job, queue, client, retries, crashes, lost>>

HandlerDies(w) ==
  /\ worker[w].pc = "execute"
  /\ Finish(w)
  /\ UNCHANGED <<job, queue, client, retries, crashes, lost>>
HandlerRaises(w) ==
  /\ worker[w].pc = "execute"
  /\ Goto(w, "failed")
  /\ UNCHANGED <<job, queue, client, retries, crashes, lost>>

\* A statement of run_job is refused.  Its first two calls stand outside the try,
\* and nothing guards the one in the except branch: the exception ends the thread's
\* call there.  Anywhere else the except branch runs.
ThreadFails(w) ==
  /\ worker[w].pc \notin {"idle", "execute"}
  /\ crashes < MaxCrashes
  /\ crashes' = crashes + 1
  /\ IF worker[w].pc \in {"fetch", "starting", "failed"}
       THEN Finish(w) /\ lost' = lost \union {worker[w].key}
       ELSE Goto(w, "failed") /\ UNCHANGED lost
  /\ UNCHANGED <<job, queue, client, retries>>

-----------------------------------------------------------------------------
(* Requests.  A client's pc names the step it is to take next.             *)

ClientPC == {"idle", "insert", "duplicate", "enqueue", "cancel", "retry"}
Request == [pc: ClientPC, key: Key \union {Null}, row: Row \union {Null}]

Ask(c, pc, k, row) == client' = [client EXCEPT ![c] = [pc |-> pc, key |-> k, row |-> row]]
Answer(c) == client' = [client EXCEPT ![c] = Rest]

\* create_job: the SELECT by idempotency key.
CreateSelect(c, k) ==
  /\ client[c].pc = "idle"
  /\ Ask(c, IF job[k] = Null THEN "insert" ELSE "duplicate", k, Null)
  /\ UNCHANGED <<job, queue, worker, retries, crashes, lost>>

\* create_job: the INSERT.  When another caller inserted the key since, the
\* UNIQUE constraint raises IntegrityError and the existing row is returned.
CreateInsert(c) ==
  LET k == client[c].key IN
  /\ client[c].pc = "insert"
  /\ \/ /\ job[k] = Null
        /\ job' = [job EXCEPT ![k] = NewRow]
        /\ Ask(c, "enqueue", k, Null)
     \/ /\ job[k] # Null
        /\ Ask(c, "duplicate", k, Null)
        /\ UNCHANGED job
  /\ UNCHANGED <<queue, worker, retries, crashes, lost>>

\* The caller learns created = False and does not enqueue.
DuplicateEnqueues(c) ==
  /\ client[c].pc = "duplicate"
  /\ queue' = [queue EXCEPT ![Home[c]] = Append(@, client[c].key)]
  /\ Answer(c)
  /\ UNCHANGED <<job, worker, retries, crashes, lost>>
AnswerDuplicate(c) ==
  /\ client[c].pc = "duplicate"
  /\ Answer(c)
  /\ UNCHANGED <<job, queue, worker, retries, crashes, lost>>

\* dispatcher.enqueue, after created = True and after a retry.
EnqueueForgets(c) ==
  /\ client[c].pc = "enqueue"
  /\ Answer(c)
  /\ UNCHANGED <<job, queue, worker, retries, crashes, lost>>
Enqueue(c) ==
  /\ client[c].pc = "enqueue"
  /\ queue' = [queue EXCEPT ![Home[c]] = Append(@, client[c].key)]
  /\ Answer(c)
  /\ UNCHANGED <<job, worker, retries, crashes, lost>>

\* cancel_job: a terminal row is returned as it is (no step here); any other
\* is loaded and rewritten by the commit.
CancelReadAny(c, k) ==
  /\ client[c].pc = "idle"
  /\ job[k] # Null
  /\ Ask(c, "cancel", k, job[k])
  /\ UNCHANGED <<job, queue, worker, retries, crashes, lost>>
CancelRead(c, k) ==
  /\ client[c].pc = "idle"
  /\ job[k] # Null
  /\ job[k].status \notin Terminal
  /\ Ask(c, "cancel", k, job[k])
  /\ UNCHANGED <<job, queue, worker, retries, crashes, lost>>

CancelCommit(c) ==
  LET me == client[c] IN
  /\ me.pc = "cancel"
  /\ job' = [job EXCEPT ![me.key] = Flush(@, me.row, [me.row EXCEPT !.status = "cancelled"])]
  /\ Answer(c)
  /\ UNCHANGED <<queue, worker, retries, crashes, lost>>

\* retry: get_job and the 409 guard, then update_job(QUEUED) reads the row
\* again and commits without looking at the status it finds.
RetryCheck(c, k) ==
  /\ client[c].pc = "idle"
  /\ retries < MaxRetries
  /\ job[k] # Null
  /\ job[k].status \in {"failed", "cancelled"}
  /\ Ask(c, "retry", k, Null)
  /\ retries' = retries + 1
  /\ UNCHANGED <<job, queue, worker, crashes, lost>>

Requeued(row) == [row EXCEPT !.status = "queued", !.progress = 0]

RetryRead(c) ==
  /\ client[c].pc = "retry"
  /\ client[c].row = Null
  /\ client' = [client EXCEPT ![c].row = job[client[c].key]]
  /\ UNCHANGED <<job, queue, worker, retries, crashes, lost>>

RetryCommit(c) ==
  LET me == client[c] IN
  /\ me.pc = "retry"
  /\ me.row # Null
  /\ job' = [job EXCEPT ![me.key] = Flush(@, me.row, Requeued(me.row))]
  /\ Ask(c, "enqueue", me.key, Null)
  /\ UNCHANGED <<queue, worker, retries, crashes, lost>>

-----------------------------------------------------------------------------
\* Who still has to act on k's job: a queue entry, a thread, or a request
\* between its commit and its enqueue.
InQueue(p, k) == \E i \in DOMAIN queue[p] : queue[p][i] = k
Enqueuing(c, k) == client[c].pc = "enqueue" /\ client[c].key = k
Running(w, k) == worker[w].pc # "idle" /\ worker[w].key = k

\* The death of a process.  It may serve again at once: a fresh pool.
Crash(p) ==
  /\ crashes < MaxCrashes
  /\ crashes' = crashes + 1
  /\ lost' = lost \union
       {k \in Key : \/ InQueue(p, k)
                    \/ \E c \in Client : Home[c] = p /\ Enqueuing(c, k)
                    \/ \E w \in Worker : Home[w] = p /\ Running(w, k)}
  /\ queue' = [queue EXCEPT ![p] = <<>>]
  /\ worker' = [w \in Worker |-> IF Home[w] = p THEN Rest ELSE worker[w]]
  /\ client' = [c \in Client |-> IF Home[c] = p THEN Rest ELSE client[c]]
  /\ UNCHANGED <<job, retries>>

\* A request ends in an exception, a statement or the pool having refused what it
\* was to do: nothing after that point of it happens.
RequestFails(c) ==
  /\ client[c].pc # "idle"
  /\ crashes < MaxCrashes
  /\ crashes' = crashes + 1
  /\ lost' = lost \union {k \in Key : Enqueuing(c, k)}
  /\ Answer(c)
  /\ UNCHANGED <<job, queue, worker, retries>>

-----------------------------------------------------------------------------
Init ==
  /\ job = [k \in Key |-> Null]
  /\ queue = [p \in Process |-> <<>>]
  /\ worker = [w \in Worker |-> Rest]
  /\ client = [c \in Client |-> Rest]
  /\ retries = 0
  /\ crashes = 0
  /\ lost = {}

\* Every step of run_job in thread w.
WorkerStep(w) ==
  \/ Dequeue(w)
  \/ Observe(w)
  \/ UpdateRead(w)
  \/ UpdateCommit(w)
  \/ HandlerReturns(w)
  \/ HandlerRaises(w)

\* A request arrives.
Arrive(c) == \E k \in Key : CreateSelect(c, k) \/ CancelRead(c, k) \/ RetryCheck(c, k)

\* A request that arrived goes on.
Serve(c) ==
  \/ CreateInsert(c)
  \/ AnswerDuplicate(c)
  \/ Enqueue(c)
  \/ CancelCommit(c)
  \/ RetryRead(c)
  \/ RetryCommit(c)

Next ==
  \/ \E w \in Worker : WorkerStep(w) \/ ThreadFails(w)
  \/ \E c \in Client : Arrive(c) \/ Serve(c) \/ RequestFails(c)
  \/ \E p \in Process : Crash(p)

\* Threads run and handlers return or raise; a request that arrived is served
\* to its end.  No request has to arrive and no process has to crash.
Fairness ==
  /\ \A w \in Worker : WF_vars(WorkerStep(w))
  /\ \A c \in Client : WF_vars(Serve(c))

Spec == Init /\ [][Next]_vars
FairSpec == Spec /\ Fairness

-----------------------------------------------------------------------------
(* Properties.                                                             *)

\* Type correctness of the table, the pool and the requests.
TypeOK ==
  /\ job \in [Key -> Row \union {Null}]
  /\ queue \in [Process -> Seq(Key)]
  /\ worker \in [Worker -> Thread]
  /\ client \in [Client -> Request]
  /\ retries \in Nat
  /\ crashes \in Nat
  /\ lost \subseteq Key

Exists(k) == job[k] # Null
Unsettled(k) == Exists(k) /\ job[k].status \notin Terminal

Carried(k) ==
  \/ \E p \in Process : InQueue(p, k)
  \/ \E c \in Client : Enqueuing(c, k)
  \/ \E w \in Worker : Running(w, k)

\* A job that is not in a final state has a queue entry, a thread or a request
\* that will still act on it, unless a crash or an exception took one: run_job's early returns,
\* the unconditional updates and the concurrent cancels and retries never leave
\* a job behind.  (A job left behind answers 409 to every retry.)
NoJobStranded == \A k \in Key : Unsettled(k) => Carried(k) \/ k \in lost

\* The invariant behind NoJobStranded.  A queue entry, a thread and a request
\* refer to a row that exists.  Who will still write a final state, or see one
\* there and stop, is bound to k: everyone that carries k except a thread that
\* is about to commit the final status it has already loaded, since that commit
\* flushes no status.  An unsettled job always has someone bound to it.
QueueRefers == \A p \in Process : \A i \in DOMAIN queue[p] : Exists(queue[p][i])
ThreadsRefer ==
  \A w \in Worker :
    /\ worker[w].pc # "idle" => worker[w].key \in Key /\ Exists(worker[w].key)
    /\ worker[w].row # Null => worker[w].pc \in Update
RequestsRefer ==
  \A c \in Client :
    /\ client[c].pc # "idle" => client[c].key \in Key
    /\ client[c].pc \notin {"idle", "insert"} => Exists(client[c].key)
    /\ client[c].pc = "cancel" => client[c].row \in Row /\ client[c].row.status \notin Terminal

BoundThread(w, k) ==
  /\ Running(w, k)
  /\ ~ /\ worker[w].pc \in Terminal
       /\ worker[w].row # Null
       /\ worker[w].row.status = worker[w].pc
Bound(k) ==
  \/ \E p \in Process : InQueue(p, k)
  \/ \E c \in Client : Enqueuing(c, k)
  \/ \E w \in Worker : BoundThread(w, k)
UnsettledBound == \A k \in Key : Unsettled(k) => Bound(k) \/ k \in lost
JobsInv == QueueRefers /\ ThreadsRefer /\ RequestsRefer /\ UnsettledBound

\* Each execution is paid for by the insertion of the row or by an accepted
\* retry: a duplicate upload or a lost insertion race never runs a job again,
\* and attempt_count never exceeds the executions that were asked for.
AttemptsPaidFor == \A k \in Key : Exists(k) => job[k].attempts <= 1 + retries

\* The invariant behind AttemptsPaidFor.  An execution of k that was paid for and is
\* not counted yet is a queue entry, a request that is to submit one, or a thread that
\* has not committed "starting".  No copy of the row, the table's or a thread's, counts
\* more than what is left, so that a thread's stale copy cannot count an execution twice.
Queued(k) == UNION {{<<p, i>> : i \in {n \in DOMAIN queue[p] : queue[p][n] = k}} : p \in Process}
Submitting(k) == {c \in Client : client[c].pc \in {"retry", "enqueue"} /\ client[c].key = k}
Unstarted(k) == {w \in Worker : worker[w].pc \in {"fetch", "starting"} /\ worker[w].key = k}
Owed(k) == Cardinality(Queued(k)) + Cardinality(Submitting(k)) + Cardinality(Unstarted(k))
Counted(k) == {job[k].attempts} \union
  {worker[w].row.attempts : w \in {u \in Unstarted(k) : worker[u].row # Null}}
Paid(k) ==
  /\ IsFiniteSet(Queued(k)) /\ IsFiniteSet(Submitting(k)) /\ IsFiniteSet(Unstarted(k))
  /\ \A n \in Counted(k) : n + Owed(k) <= 1 + retries
PaidInv == \A k \in Key : Exists(k) => Paid(k)

\* Someone holds a copy of k's row, or a decision made on it, that a later
\* commit turns into a write.
Engaged(k) ==
  \/ \E w \in Worker : Running(w, k) /\ worker[w].pc # "fetch"
  \/ \E c \in Client : client[c].pc \in {"cancel", "retry"} /\ client[c].key = k

\* Nothing under way can change k's row: it is cancelled (a queue entry for it
\* is dropped by run_job's first check), or finished with no entry left.
AtRest(k) ==
  /\ Exists(k)
  /\ ~Engaged(k)
  /\ \/ job[k].status = "cancelled"
     \/ job[k].status \in Terminal /\ ~Carried(k)

RetryAccepted(k) == \E c \in Client : client[c].pc = "retry" /\ client[c].key = k

\* A job at rest stays exactly as it is until a retry is accepted, and a
\* completed one stays so for good: a job cancelled before a thread started on
\* it is never executed, and neither cancel_job nor the worker touches a
\* finished row.
RestStep(k) ==
  AtRest(k) => \/ AtRest(k)' /\ job'[k] = job[k]
               \/ RetryAccepted(k)' /\ job'[k] = job[k] /\ job[k].status # "completed"
RestUntilRetried == [][\A k \in Key : RestStep(k)]_vars

\* Every job ends completed, failed or cancelled, unless a crash or an exception
\* took the entry, thread or request that carried it.
EveryJobSettles == \A k \in Key : Unsettled(k) ~> ~Unsettled(k) \/ k \in lost

=============================================================================
