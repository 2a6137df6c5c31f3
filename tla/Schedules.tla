------------------------------ MODULE Schedules ------------------------------
(***************************************************************************)
(* Scheduled audits: claiming due schedules and creating their jobs        *)
(* (src/app/scheduling/service.py), the operations on a schedule           *)
(* (src/app/api/routes/schedules.py) and ScheduledAuditHandler             *)
(* (src/app/jobs/handlers.py).                                             *)
(*                                                                         *)
(* The steps of Jobs are taken over, as in AuditImport: dispatch_due_schedules *)
(* and "run now" create jobs, and the handler fills "execute".  A claim, the *)
(* job of each claimed run, its queue entry and the run's final state are  *)
(* separate transactions.                                                  *)
(*                                                                         *)
(* The database matters.  PostgreSQL honours with_for_update(skip_locked)  *)
(* and the foreign keys' ON DELETE CASCADE; SQLite, the default, ignores   *)
(* the first and, without PRAGMA foreign_keys, the second.                 *)
(*                                                                         *)
(* Time counts occurrences: now = t says that the t-th wall-clock instant  *)
(* of the (common) frequency has passed.                                   *)
(***************************************************************************)
EXTENDS Jobs, FiniteSets

CONSTANTS
  Schedule,  \* schedule ids
  Run,       \* ids of scheduled_audit_runs
  MaxTime,   \* bound: the last instant
  MaxManual, \* bound: "run now" requests
  Limit,     \* dispatch_due_schedules claims at most so many schedules
  Postgres   \* whether the database is PostgreSQL

Time == 0..MaxTime

\* The idempotency keys: one per occurrence of a schedule, one per manual run.
OccurrenceKeys == [schedule: Schedule, due: Time, run: {Null}]
ManualKeys == [schedule: Schedule, due: {Null}, run: Run]

\* Rows of audit_schedules and scheduled_audit_runs; "deleted" is no row.
ScheduleRow == [status: {"active", "paused", "deleted"}, next: Nat]
RunStatus == {"queued", "in_progress", "completed", "failed", "deleted"}
RunRow == [schedule: Schedule, due: Time \union {Null}, status: RunStatus]

ASSUME ScheduleAssumption ==
  /\ Key = OccurrenceKeys \union ManualKeys
  /\ Null \notin Run \union Schedule \union Nat \union RunStatus \union RunRow \union ScheduleRow
  /\ MaxTime \in Nat
  /\ MaxManual \in Nat
  /\ Limit \in Nat \ {0}
  /\ Postgres \in BOOLEAN

VARIABLES
  now,       \* the clock
  schedule,  \* schedule[s]: the row, "deleted" when it is gone, or Null
  run,       \* run[r]: the row, "deleted" when it is gone, or Null
  dataset,   \* whether the dataset that the schedules audit is there
  patch,     \* patch[c]: the row a status request has loaded and set, or Null
  task,      \* task[c]: the claim or the runs that request c is working on
  runOf,     \* runOf[k]: the run in the payload of k's job, or Null
  stage,     \* stage[w]: where the handler stands in thread w
  finished,  \* history: runs whose row said completed
  dropped,   \* history: runs whose job a crash or an exception prevented
  rewound,   \* history: schedules whose next_run_at a status request moved back
  refusals   \* refused claims and marks so far (for the bound)

scheduleVars == <<now, schedule, run, dataset, patch, task, runOf, stage, finished,
                  dropped, rewound, refusals>>

Patch == [schedule: Schedule, old: ScheduleRow, new: ScheduleRow]
Task == [pc: {"idle", "claim", "jobs", "mark"}, rows: UNION {[S -> Time] : S \in SUBSET Schedule},
         at: Time, todo: SUBSET Run, item: Run \union {Null}]
NoTask == [pc |-> "idle", rows |-> [s \in {} |-> 0], at |-> 0, todo |-> {}, item |-> Null]
Begin == [at |-> "begin", seen |-> Null]
StageAt == {"begin", "start", "source", "body", "complete", "except", "fail"}
Stage == [at: StageAt, seen: RunStatus \union {Null}]

There(s) == schedule[s] # Null /\ schedule[s].status # "deleted"
Kept(r) == run[r] # Null /\ run[r].status # "deleted"
KeyOf(r) == [schedule |-> run[r].schedule, due |-> run[r].due,
             run |-> IF run[r].due = Null THEN r ELSE Null]

\* next_occurrence: the first instant after t.
NextOccurrence(t) == t + 1

\* with_for_update(skip_locked=True): the rows of a claim are locked until it commits.
LockIgnored(s) == FALSE
Locked(s) ==
  Postgres /\ \E c \in Client : task[c].pc = "claim" /\ s \in DOMAIN task[c].rows

\* Bound: crashes and refused statements of the job service and of the claims.
Trouble == crashes + refusals < MaxCrashes

Idle(c) == client[c].pc = "idle" /\ task[c].pc = "idle" /\ patch[c] = Null

-----------------------------------------------------------------------------
(* The routes on schedules.                                                *)

Tick ==
  /\ now < MaxTime
  /\ now' = now + 1
  /\ UNCHANGED <<vars, schedule, run, dataset, patch, task, runOf, stage, finished, dropped,
                 rewound, refusals>>

CreateSchedule(s) ==
  /\ dataset
  /\ schedule[s] = Null
  /\ schedule' = [schedule EXCEPT ![s] = [status |-> "active", next |-> NextOccurrence(now)]]
  /\ UNCHANGED <<vars, now, run, dataset, patch, task, runOf, stage, finished, dropped, rewound, refusals>>

\* status: the row is loaded and set, and committed later.
StatusRead(c, s, requested) ==
  /\ Idle(c)
  /\ There(s)
  /\ patch' = [patch EXCEPT ![c] =
       [schedule |-> s,
        old |-> schedule[s],
        new |-> [status |-> requested,
                 next   |-> IF requested = "active" THEN NextOccurrence(now)
                                                    ELSE schedule[s].next]]]
  /\ UNCHANGED <<vars, now, schedule, run, dataset, task, runOf, stage, finished, dropped, rewound, refusals>>

\* The UPDATE waits for a lock, and fails when the row is gone.
StatusCommit(c) ==
  LET old == patch[c].old
      new == patch[c].new
      s == patch[c].schedule
      cur == schedule[s]
      row == [status |-> IF new.status = old.status THEN cur.status ELSE new.status,
              next   |-> IF new.next = old.next THEN cur.next ELSE new.next] IN
  /\ patch[c] # Null
  /\ ~Locked(s)
  /\ \/ There(s)
        /\ schedule' = [schedule EXCEPT ![s] = row]
        /\ rewound' = IF row.next < cur.next THEN rewound \union {s} ELSE rewound
     \/ ~There(s) /\ UNCHANGED <<schedule, rewound>>
  /\ patch' = [patch EXCEPT ![c] = Null]
  /\ UNCHANGED <<vars, now, run, dataset, task, runOf, stage, finished, dropped, refusals>>

\* Rows that go with schedules S: their runs, where foreign keys are enforced.
Cascade(S) ==
  run' = [r \in Run |->
    IF Postgres /\ run[r] # Null /\ run[r].schedule \in S
      THEN [run[r] EXCEPT !.status = "deleted"] ELSE run[r]]
Remove(S) ==
  schedule' = [s \in Schedule |->
    IF s \in S THEN [schedule[s] EXCEPT !.status = "deleted"] ELSE schedule[s]]

DeleteSchedule(s) ==
  /\ There(s)
  /\ ~Locked(s)
  /\ Remove({s})
  /\ Cascade({s})
  /\ UNCHANGED <<vars, now, dataset, patch, task, runOf, stage, finished, dropped, rewound, refusals>>

\* delete_dataset, as far as schedules see it.
DeleteDataset ==
  LET S == {s \in Schedule : Postgres /\ There(s)} IN
  /\ dataset
  /\ \A s \in S : ~Locked(s)
  /\ dataset' = FALSE
  /\ Remove(S)
  /\ Cascade(S)
  /\ UNCHANGED <<vars, now, patch, task, runOf, stage, finished, dropped, rewound, refusals>>

\* queue_manual_run: the run row; 409 without the dataset.
RunNow(c, s, r) ==
  /\ Idle(c)
  /\ There(s)
  /\ ~Locked(s)
  /\ dataset
  /\ run[r] = Null
  /\ Cardinality({q \in Run : run[q] # Null /\ run[q].due = Null}) < MaxManual
  /\ run' = [run EXCEPT ![r] = [schedule |-> s, due |-> Null, status |-> "queued"]]
  /\ task' = [task EXCEPT ![c] = [NoTask EXCEPT !.pc = "jobs", !.todo = {r}]]
  /\ UNCHANGED <<vars, now, schedule, dataset, patch, runOf, stage, finished, dropped, rewound, refusals>>

-----------------------------------------------------------------------------
(* dispatch_due_schedules.                                                 *)

Due(s) == There(s) /\ schedule[s].status = "active" /\ schedule[s].next <= now

\* The SELECT: the oldest due rows, up to the limit, that nobody has locked.
Claim(c, rows) ==
  task' = [task EXCEPT ![c] =
    [NoTask EXCEPT !.pc = "claim", !.rows = [s \in rows |-> schedule[s].next], !.at = now]]
Oldest(rows, due) ==
  /\ rows # {} /\ rows \subseteq due
  /\ Cardinality(rows) <= Limit
  /\ rows = due \/ Cardinality(rows) = Limit
  /\ \A s \in rows, t \in due \ rows : schedule[s].next <= schedule[t].next
DispatchSelectAny(c) ==
  /\ Idle(c)
  /\ \E rows \in SUBSET Schedule :
       /\ Oldest(rows, {s \in Schedule : There(s) /\ schedule[s].next <= now /\ ~Locked(s)})
       /\ Claim(c, rows)
  /\ UNCHANGED <<vars, now, schedule, run, dataset, patch, runOf, stage, finished, dropped, rewound, refusals>>
DispatchSelect(c) ==
  /\ Idle(c)
  /\ \E rows \in SUBSET Schedule :
       /\ Oldest(rows, {s \in Schedule : Due(s) /\ ~Locked(s)})
       /\ Claim(c, rows)
  /\ UNCHANGED <<vars, now, schedule, run, dataset, patch, runOf, stage, finished, dropped, rewound, refusals>>

\* The commit: a run for each row and its next occurrence.  When a row is gone the
\* UPDATE fails and with it the whole claim.
Drawn(c, f) ==
  /\ f \in [DOMAIN task[c].rows -> {r \in Run : run[r] = Null}]
  /\ \A s, t \in DOMAIN f : f[s] = f[t] => s = t
DispatchAdvance(c, at) ==
  LET rows == task[c].rows IN
  /\ task[c].pc = "claim"
  /\ \/ /\ \A s \in DOMAIN rows : There(s)
        /\ \E f \in [DOMAIN rows -> Run] :
             /\ Drawn(c, f)
             /\ run' = [r \in Run |->
                  IF \E s \in DOMAIN rows : f[s] = r
                    THEN LET s == CHOOSE s \in DOMAIN rows : f[s] = r IN
                         [schedule |-> s, due |-> rows[s], status |-> "queued"]
                    ELSE run[r]]
             /\ task' = [task EXCEPT ![c] =
                  [NoTask EXCEPT !.pc = "jobs", !.todo = {f[s] : s \in DOMAIN rows}]]
        /\ schedule' = [s \in Schedule |->
             IF s \in DOMAIN rows THEN [schedule[s] EXCEPT !.next = NextOccurrence(at)]
                                  ELSE schedule[s]]
     \/ /\ \E s \in DOMAIN rows : ~There(s)
        /\ task' = [task EXCEPT ![c] = NoTask]
        /\ UNCHANGED <<run, schedule>>
  /\ UNCHANGED <<vars, now, dataset, patch, runOf, stage, finished, dropped, rewound, refusals>>
DispatchCommit(c) == DispatchAdvance(c, task[c].at)

-----------------------------------------------------------------------------
(* _create_job_for_run, for a manual run or for each claimed one.  (The     *)
(* link from the run to its job is a column nothing decides on.)           *)

Item(c) == task[c].item
Done(c) ==
  LET rest == task[c].todo \ {Item(c)} IN
  task' = [task EXCEPT ![c] =
    IF rest = {} THEN NoTask ELSE [NoTask EXCEPT !.pc = "jobs", !.todo = rest]]

NextJob(c, r) ==
  /\ task[c].pc = "jobs"
  /\ Item(c) = Null
  /\ r \in task[c].todo
  /\ run[r].due # Null => \A q \in task[c].todo : run[r].due <= run[q].due
  /\ CreateSelect(c, KeyOf(r))
  /\ task' = [task EXCEPT ![c].item = r]
  /\ UNCHANGED <<now, schedule, run, dataset, patch, runOf, stage, finished, dropped, rewound, refusals>>

\* The row that create_job inserts carries the payload.
CreateJob(c) ==
  /\ CreateInsert(c)
  /\ runOf' = IF job[client[c].key] = Null THEN [runOf EXCEPT ![client[c].key] = Item(c)]
                                           ELSE runOf
  /\ UNCHANGED <<now, schedule, run, dataset, patch, task, stage, finished, dropped, rewound, refusals>>

\* Another run has the job: this one is left as it is.
KnownJob(c) ==
  /\ AnswerDuplicate(c)
  /\ Done(c)
  /\ UNCHANGED <<now, schedule, run, dataset, patch, runOf, stage, finished, dropped, rewound, refusals>>

EnqueueJob(c) ==
  /\ Item(c) # Null
  /\ Enqueue(c)
  /\ Done(c)
  /\ UNCHANGED <<now, schedule, run, dataset, patch, runOf, stage, finished, dropped, rewound, refusals>>

\* An exception.  dispatch_due_schedules catches it and marks the run; a manual run
\* is answered with an error.
FailJob(c) ==
  /\ Item(c) # Null
  /\ Trouble
  /\ RequestFails(c)
  /\ \/ /\ run[Item(c)].due = Null
        /\ task' = [task EXCEPT ![c] = NoTask]
        /\ dropped' = dropped \union {Item(c)}
     \/ /\ run[Item(c)].due # Null
        /\ task' = [task EXCEPT ![c].pc = "mark"]
        /\ UNCHANGED dropped
  /\ UNCHANGED <<now, schedule, run, dataset, patch, runOf, stage, finished, rewound, refusals>>

\* A mark that is skipped.
MarkForgotten(c) ==
  /\ task[c].pc = "mark"
  /\ Done(c)
  /\ UNCHANGED <<vars, now, schedule, run, dataset, patch, runOf, stage, finished, dropped, rewound, refusals>>
MarkFailed(c) ==
  /\ task[c].pc = "mark"
  /\ run' = IF Kept(Item(c)) THEN [run EXCEPT ![Item(c)].status = "failed"] ELSE run
  /\ Done(c)
  /\ UNCHANGED <<vars, now, schedule, dataset, patch, runOf, stage, finished, dropped, rewound, refusals>>

\* The claim or the marking itself is refused: a claim is rolled back, the runs still
\* to do stay without a job.
DispatchRefused(c) ==
  /\ task[c].pc \in {"claim", "mark"}
  /\ Trouble
  /\ refusals' = refusals + 1
  /\ dropped' = dropped \union task[c].todo
  /\ task' = [task EXCEPT ![c] = NoTask]
  /\ UNCHANGED <<vars, now, schedule, run, dataset, patch, runOf, stage, finished, rewound>>

\* Cancels and retries of jobs.
JobRequest(c) ==
  /\ Idle(c)
  /\ \E k \in Key : CancelRead(c, k) \/ RetryCheck(c, k)
  /\ UNCHANGED scheduleVars
ServeJobRequest(c) ==
  /\ task[c].pc = "idle"
  /\ CancelCommit(c) \/ RetryRead(c) \/ RetryCommit(c) \/ Enqueue(c)
  /\ UNCHANGED scheduleVars
FailJobRequest(c) ==
  /\ task[c].pc = "idle"
  /\ Trouble
  /\ RequestFails(c)
  /\ UNCHANGED scheduleVars

-----------------------------------------------------------------------------
(* ScheduledAuditHandler.execute in thread w.                              *)

Executing(w, at) == worker[w].pc = "execute" /\ stage[w].at = at
TheRun(w) == runOf[worker[w].key]
TheSchedule(w) == worker[w].key.schedule
Proceed(w, at) == stage' = [stage EXCEPT ![w] = [at |-> at, seen |-> Null]]
LoadRun(w, at) == stage' = [stage EXCEPT ![w] = [at |-> at, seen |-> run[TheRun(w)].status]]

\* The commit of a status over the one loaded; db.get found no row when it was gone.
Write(w, status) ==
  run' = IF stage[w].seen \in {"deleted", status} THEN run
         ELSE [run EXCEPT ![TheRun(w)].status = status]
Writable(w, status) == stage[w].seen \in {"deleted", status} \/ Kept(TheRun(w))

StartRead(w) ==
  /\ Executing(w, "begin")
  /\ Kept(TheRun(w)) /\ There(TheSchedule(w))
  /\ LoadRun(w, "start")
  /\ UNCHANGED <<vars, now, schedule, run, dataset, patch, task, runOf, finished, dropped, rewound, refusals>>

StartCommit(w) ==
  /\ Executing(w, "start")
  /\ Writable(w, "in_progress")
  /\ Write(w, "in_progress")
  /\ Proceed(w, "source")
  /\ UNCHANGED <<vars, now, schedule, dataset, patch, task, runOf, finished, dropped, rewound, refusals>>

\* The source audit of the dataset; without one only HandlerFails is left.
FindSource(w) ==
  /\ Executing(w, "source")
  /\ dataset
  /\ Proceed(w, "body")
  /\ UNCHANGED <<vars, now, schedule, run, dataset, patch, task, runOf, finished, dropped, rewound, refusals>>

\* The audit was made, saved and registered: the run is loaded.
CompleteRead(w) ==
  /\ Executing(w, "body")
  /\ LoadRun(w, "complete")
  /\ UNCHANGED <<vars, now, schedule, run, dataset, patch, task, runOf, finished, dropped, rewound, refusals>>

\* Returning without recording the completion.
CompleteForgotten(w) ==
  /\ Executing(w, "complete")
  /\ HandlerReturns(w)
  /\ stage' = [stage EXCEPT ![w] = Begin]
  /\ UNCHANGED <<now, schedule, run, dataset, patch, task, runOf, finished, dropped, rewound, refusals>>
CompleteCommit(w) ==
  /\ Executing(w, "complete")
  /\ Writable(w, "completed")
  /\ Write(w, "completed")
  /\ finished' = finished \union IF stage[w].seen = "deleted" THEN {} ELSE {TheRun(w)}
  /\ HandlerReturns(w)
  /\ stage' = [stage EXCEPT ![w] = Begin]
  /\ UNCHANGED <<now, schedule, dataset, patch, task, runOf, dropped, rewound, refusals>>

\* Inside the try the except branch marks the run and raises again.
AuditFails(w) ==
  /\ Executing(w, "body") \/ Executing(w, "complete")
  /\ Proceed(w, "except")
  /\ UNCHANGED <<vars, now, schedule, run, dataset, patch, task, runOf, finished, dropped, rewound, refusals>>

FailRead(w) ==
  /\ Executing(w, "except")
  /\ LoadRun(w, "fail")
  /\ UNCHANGED <<vars, now, schedule, run, dataset, patch, task, runOf, finished, dropped, rewound, refusals>>

FailCommit(w) ==
  /\ Executing(w, "fail")
  /\ Writable(w, "failed")
  /\ Write(w, "failed")
  /\ HandlerRaises(w)
  /\ stage' = [stage EXCEPT ![w] = Begin]
  /\ UNCHANGED <<now, schedule, dataset, patch, task, runOf, finished, dropped, rewound, refusals>>

\* Outside the try, and in the except branch, an exception leaves the run as it is.
HandlerFails(w) ==
  /\ stage[w].at \in {"begin", "start", "source", "except", "fail"}
  /\ HandlerRaises(w)
  /\ stage' = [stage EXCEPT ![w] = Begin]
  /\ UNCHANGED <<now, schedule, run, dataset, patch, task, runOf, finished, dropped, rewound, refusals>>

RunJob(w) ==
  /\ Dequeue(w) \/ Observe(w) \/ UpdateRead(w) \/ UpdateCommit(w)
  /\ UNCHANGED scheduleVars
RunJobFails(w) == Trouble /\ ThreadFails(w) /\ UNCHANGED scheduleVars

-----------------------------------------------------------------------------
\* A claim that is not committed is rolled back; runs without a job stay so.
CrashSchedules(p) ==
  /\ Trouble
  /\ Crash(p)
  /\ stage' = [w \in Worker |-> IF Home[w] = p THEN Begin ELSE stage[w]]
  /\ task' = [c \in Client |-> IF Home[c] = p THEN NoTask ELSE task[c]]
  /\ patch' = [c \in Client |-> IF Home[c] = p THEN Null ELSE patch[c]]
  /\ dropped' = dropped \union UNION {task[c].todo : c \in {d \in Client : Home[d] = p}}
  /\ UNCHANGED <<now, schedule, run, dataset, runOf, finished, rewound, refusals>>

ScheduleInit ==
  /\ Init
  /\ now = 0
  /\ schedule = [s \in Schedule |-> Null]
  /\ run = [r \in Run |-> Null]
  /\ dataset = TRUE
  /\ patch = [c \in Client |-> Null]
  /\ task = [c \in Client |-> NoTask]
  /\ runOf = [k \in Key |-> Null]
  /\ stage = [w \in Worker |-> Begin]
  /\ finished = {}
  /\ dropped = {}
  /\ rewound = {}
  /\ refusals = 0

HandlerStep(w) ==
  \/ StartRead(w)
  \/ StartCommit(w)
  \/ FindSource(w)
  \/ CompleteRead(w)
  \/ CompleteCommit(w)
  \/ AuditFails(w)
  \/ FailRead(w)
  \/ FailCommit(w)
  \/ HandlerFails(w)

\* A request that has started goes on.
ServeSchedules(c) ==
  \/ StatusCommit(c)
  \/ DispatchCommit(c)
  \/ \E r \in Run : NextJob(c, r)
  \/ CreateJob(c)
  \/ KnownJob(c)
  \/ EnqueueJob(c)
  \/ MarkFailed(c)

RequestStep(c) ==
  \/ \E s \in Schedule, requested \in {"active", "paused"} : StatusRead(c, s, requested)
  \/ \E s \in Schedule, r \in Run : RunNow(c, s, r)
  \/ DispatchSelect(c)
  \/ ServeSchedules(c)
  \/ FailJob(c)
  \/ DispatchRefused(c)
  \/ JobRequest(c)
  \/ ServeJobRequest(c)
  \/ FailJobRequest(c)

ScheduleNext ==
  \/ Tick
  \/ \E s \in Schedule : CreateSchedule(s) \/ DeleteSchedule(s)
  \/ DeleteDataset
  \/ \E c \in Client : RequestStep(c)
  \/ \E w \in Worker : RunJob(w) \/ RunJobFails(w) \/ HandlerStep(w)
  \/ \E p \in Process : CrashSchedules(p)

ScheduleSpec == ScheduleInit /\ [][ScheduleNext]_<<vars, scheduleVars>>

-----------------------------------------------------------------------------
(* Properties.                                                             *)

\* Types of the schedules, the runs, the requests and the handlers.
ScheduleTypeOK ==
  /\ now \in Time
  /\ schedule \in [Schedule -> ScheduleRow \union {Null}]
  /\ run \in [Run -> RunRow \union {Null}]
  /\ dataset \in BOOLEAN
  /\ patch \in [Client -> Patch \union {Null}]
  /\ task \in [Client -> Task]
  /\ runOf \in [Key -> Run \union {Null}]
  /\ stage \in [Worker -> Stage]
  /\ finished \subseteq Run
  /\ dropped \subseteq Run
  /\ rewound \subseteq Schedule
  /\ refusals \in Nat

\* dispatch_due_schedules' docstring: row locking plus advancing next_run_at prevent
\* several dispatchers from dispatching the same occurrence.
SameOccurrence(r, q) ==
  /\ run[r] # Null /\ run[q] # Null
  /\ run[r].due # Null
  /\ run[r].schedule = run[q].schedule /\ run[r].due = run[q].due
OneRunPerOccurrence == \A r, q \in Run : SameOccurrence(r, q) => r = q

\* With row locks an occurrence is claimed once, however many dispatchers there are,
\* unless a status request commits an older next_run_at over a newer one.
ClaimedOnce ==
  \A r, q \in Run : SameOccurrence(r, q) => r = q \/ run[r].schedule \in rewound

\* A paused or deleted schedule is not claimed, not even by a dispatcher that
\* selected it while it was active.
ClaimStep(r) ==
  run[r] = Null /\ run'[r] # Null /\ run'[r].due # Null
    => schedule[run'[r].schedule].status = "active"
OnlyActiveClaimed == [][\A r \in Run : ClaimStep(r)]_<<vars, scheduleVars>>

\* A run that is neither completed nor failed has a request on its way to its job, or
\* the job (which Jobs does not leave behind).  The exceptions are a run that lost its
\* job to another run of the same occurrence, and one whose job a crash or an
\* exception prevented.
HasJob(r) == Exists(KeyOf(r)) /\ runOf[KeyOf(r)] = r
LostClaim(r) == Exists(KeyOf(r)) /\ runOf[KeyOf(r)] # r
Open(r) == run[r] # Null /\ run[r].status \in {"queued", "in_progress"}
NoRunStranded ==
  \A r \in Run : Open(r) =>
    \/ \E c \in Client : r \in task[c].todo
    \/ r \in dropped
    \/ LostClaim(r)
    \/ HasJob(r)

\* The invariant behind NoRunStranded and CompletedJobRan.  A dispatcher works on runs
\* that are there, a manual run is alone, and the item it is on is the job that its
\* request creates; a job's payload names a run of its key; and a thread that is to
\* write "completed", or has seen no row, knows what it says of its run.
TaskOwns(c) ==
  /\ Item(c) \in task[c].todo \union {Null}
  /\ task[c].pc \in {"idle", "claim"} => task[c].todo = {}
  /\ \A r \in task[c].todo : run[r] # Null /\ (run[r].due = Null => task[c].todo = {r})
  /\ task[c].pc = "mark" => Item(c) # Null /\ client[c].pc = "idle"
  /\ task[c].pc = "jobs" /\ Item(c) # Null
       => client[c].pc \in {"insert", "duplicate", "enqueue"} /\ client[c].key = KeyOf(Item(c))
  /\ client[c].pc \in {"insert", "duplicate"} => task[c].pc = "jobs" /\ Item(c) # Null
TasksOwn == \A c \in Client : TaskOwns(c)
PayloadsName ==
  \A k \in Key : Exists(k) => runOf[k] \in Run /\ run[runOf[k]] # Null /\ KeyOf(runOf[k]) = k
HandlerKnows(w) ==
  /\ worker[w].pc # "execute" => stage[w] = Begin
  /\ stage[w].seen = "deleted" => ~Kept(TheRun(w))
  /\ worker[w].pc \in {"recheck", "completed"} => TheRun(w) \in finished \/ ~Kept(TheRun(w))
HandlersKnow == \A w \in Worker : HandlerKnows(w)
ScheduleInv == ScheduleTypeOK /\ TasksOwn /\ PayloadsName /\ HandlersKnow /\ NoRunStranded

\* A completed job is a run whose row said completed, unless the row was deleted:
\* neither an early return nor a stale commit reports an audit that did not happen.
CompletedJobRan ==
  \A k \in Key : Exists(k) /\ job[k].status = "completed"
    => runOf[k] \in finished \/ ~Kept(runOf[k])

\* A run that was never completed is completed or failed in the end, or its job is left
\* failed or cancelled for a user to retry, unless it lost its claim or a crash or an
\* exception took its job.
EveryRunSettles ==
  \A r \in Run : Open(r) ~>
    \/ ~Open(r) \/ r \in finished
    \/ r \in dropped \/ KeyOf(r) \in lost \/ LostClaim(r)
    \/ HasJob(r) /\ job[KeyOf(r)].status \in {"failed", "cancelled"}

ScheduleFairness ==
  /\ \A w \in Worker : WF_<<vars, scheduleVars>>(RunJob(w) \/ HandlerStep(w))
  /\ \A c \in Client : WF_<<vars, scheduleVars>>(ServeSchedules(c) \/ ServeJobRequest(c))
ScheduleFairSpec == ScheduleSpec /\ ScheduleFairness
=============================================================================
