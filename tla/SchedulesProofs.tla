--------------------------- MODULE SchedulesProofs ---------------------------
(* Theorems about Schedules, for any schedules, runs, keys, threads,         *)
(* requests, processes, bounds and either database.                          *)
EXTENDS Schedules, JobsProofs

\* What the proofs carry from step to step: the job service's references and the
\* invariant of the schedules.
Scheduling == Refers /\ ScheduleInv
ScheduleStep == [ScheduleNext]_<<vars, scheduleVars>>

-----------------------------------------------------------------------------
(* Scheduling is a use of the job service.                                   *)

LEMMA KeyOfType ==
  ASSUME ScheduleTypeOK, NEW r \in Run, run[r] # Null
  PROVE  KeyOf(r) \in Key
<1>1. run[r].schedule \in Schedule /\ run[r].due \in Time \union {Null}
  BY DEF ScheduleTypeOK, RunRow
<1>2. CASE run[r].due = Null
  <2>1. KeyOf(r) \in ManualKeys
    BY <1>1, <1>2 DEF KeyOf, ManualKeys
  <2> QED
    BY <2>1, ScheduleAssumption
<1>3. CASE run[r].due # Null
  <2>1. KeyOf(r) \in OccurrenceKeys
    BY <1>1, <1>3 DEF KeyOf, OccurrenceKeys
  <2> QED
    BY <2>1, ScheduleAssumption
<1> QED
  BY <1>2, <1>3

\* The runs a request works on are there.
LEMMA TodoThere ==
  ASSUME ScheduleInv, NEW c \in Client, NEW r \in task[c].todo
  PROVE  r \in Run /\ run[r] # Null
BY DEF ScheduleInv, ScheduleTypeOK, TasksOwn, TaskOwns, Task

LEMMA ItemThere ==
  ASSUME ScheduleInv, NEW c \in Client, Item(c) # Null
  PROVE  Item(c) \in task[c].todo /\ Item(c) \in Run /\ run[Item(c)] # Null
BY TodoThere DEF ScheduleInv, TasksOwn, TaskOwns

\* Every step of the routes, the dispatcher and the handler is a step of the job
\* service or leaves it alone.
LEMMA ScheduleStepIsJobStep == Scheduling /\ ScheduleStep => [Next]_vars
<1> SUFFICES ASSUME Scheduling, ScheduleNext PROVE Next \/ UNCHANGED vars
  BY DEF vars, ScheduleStep
<1>1. ASSUME Tick PROVE UNCHANGED vars
  BY <1>1 DEF Tick
<1>2. ASSUME NEW s \in Schedule, CreateSchedule(s) \/ DeleteSchedule(s) PROVE UNCHANGED vars
  BY <1>2 DEF CreateSchedule, DeleteSchedule
<1>3. ASSUME DeleteDataset PROVE UNCHANGED vars
  BY <1>3 DEF DeleteDataset
<1>4. ASSUME NEW c \in Client, RequestStep(c) PROVE Next \/ UNCHANGED vars
  <2>1. ASSUME NEW s \in Schedule, NEW requested, StatusRead(c, s, requested) PROVE UNCHANGED vars
    BY <2>1 DEF StatusRead
  <2>2. ASSUME NEW s \in Schedule, NEW r \in Run, RunNow(c, s, r) PROVE UNCHANGED vars
    BY <2>2 DEF RunNow
  <2>3. CASE DispatchSelect(c) \/ StatusCommit(c) \/ MarkFailed(c) \/ DispatchRefused(c)
    BY <2>3 DEF DispatchSelect, StatusCommit, MarkFailed, DispatchRefused
  <2>4. CASE DispatchCommit(c)
    BY <2>4 DEF DispatchCommit, DispatchAdvance
  <2>5. ASSUME NEW r \in Run, NextJob(c, r) PROVE Next
    <3>1. KeyOf(r) \in Key
      BY <2>5, TodoThere, KeyOfType DEF NextJob, Scheduling, ScheduleInv
    <3> QED
      BY <2>5, <3>1 DEF NextJob, Next, Arrive
  <2>6. CASE CreateJob(c) \/ KnownJob(c) \/ EnqueueJob(c)
    BY <2>6 DEF CreateJob, KnownJob, EnqueueJob, Next, Serve
  <2>7. CASE FailJob(c) \/ FailJobRequest(c)
    BY <2>7 DEF FailJob, FailJobRequest, Next
  <2>8. CASE JobRequest(c) \/ ServeJobRequest(c)
    BY <2>8 DEF JobRequest, ServeJobRequest, Next, Arrive, Serve
  <2> QED
    BY <1>4, <2>1, <2>2, <2>3, <2>4, <2>5, <2>6, <2>7, <2>8 DEF RequestStep, ServeSchedules
<1>5. ASSUME NEW w \in Worker, RunJob(w) \/ RunJobFails(w) PROVE Next
  BY <1>5 DEF RunJob, RunJobFails, Next, WorkerStep
<1>6. ASSUME NEW w \in Worker, HandlerStep(w) PROVE Next \/ UNCHANGED vars
  <2>1. CASE StartRead(w) \/ StartCommit(w) \/ FindSource(w) \/ CompleteRead(w)
               \/ AuditFails(w) \/ FailRead(w)
    BY <2>1 DEF StartRead, StartCommit, FindSource, CompleteRead, AuditFails, FailRead
  <2>2. CASE CompleteCommit(w) \/ FailCommit(w) \/ HandlerFails(w)
    BY <2>2 DEF CompleteCommit, FailCommit, HandlerFails, Next, WorkerStep
  <2> QED
    BY <1>6, <2>1, <2>2 DEF HandlerStep
<1>7. ASSUME NEW p \in Process, CrashSchedules(p) PROVE Next
  BY <1>7 DEF CrashSchedules, Next
<1> QED
  BY <1>1, <1>2, <1>3, <1>4, <1>5, <1>6, <1>7 DEF ScheduleNext

-----------------------------------------------------------------------------
(* Type correctness.                                                         *)

LEMMA NoTaskType == NoTask \in Task
<1>1. [s \in {} |-> 0] \in [{} -> Time]
  OBVIOUS
<1>2. [s \in {} |-> 0] \in UNION {[S -> Time] : S \in SUBSET Schedule}
  BY <1>1
<1>3. 0 \in Time
  BY ScheduleAssumption DEF Time
<1> QED
  BY <1>2, <1>3 DEF NoTask, Task

LEMMA BeginType == Begin \in Stage
BY DEF Begin, Stage, StageAt

LEMMA InitScheduleType == ScheduleInit => ScheduleTypeOK
BY NoTaskType, BeginType, ScheduleAssumption DEF ScheduleInit, ScheduleTypeOK, Time

LEMMA TimeType == Time \subseteq Nat /\ 0 \in Time /\ \A t \in Nat : NextOccurrence(t) \in Nat
BY ScheduleAssumption DEF Time, NextOccurrence

LEMMA JobsTask ==
  ASSUME NEW T \in SUBSET Run
  PROVE  [NoTask EXCEPT !.pc = "jobs", !.todo = T] \in Task
BY NoTaskType DEF NoTask, Task

LEMMA ClaimTask ==
  ASSUME NEW S \in SUBSET Schedule, NEW f \in [S -> Time], NEW t \in Time
  PROVE  [NoTask EXCEPT !.pc = "claim", !.rows = f, !.at = t] \in Task
BY NoTaskType DEF NoTask, Task

\* What a claim has selected.
LEMMA ClaimRows ==
  ASSUME ScheduleTypeOK, NEW c \in Client
  PROVE  /\ DOMAIN task[c].rows \subseteq Schedule
         /\ \A s \in DOMAIN task[c].rows : task[c].rows[s] \in Time
         /\ task[c].at \in Time
<1>1. task[c] \in Task
  BY DEF ScheduleTypeOK
<1>2. PICK S \in SUBSET Schedule : task[c].rows \in [S -> Time]
  BY <1>1 DEF Task
<1> QED
  BY <1>1, <1>2 DEF Task

LEMMA DoneType ==
  ASSUME ScheduleTypeOK, NEW c \in Client, Done(c)
  PROVE  task' \in [Client -> Task]
<1>1. task[c].todo \ {Item(c)} \in SUBSET Run
  BY DEF ScheduleTypeOK, Task
<1> QED
  BY <1>1, JobsTask, NoTaskType DEF Done, ScheduleTypeOK

\* The routes.
LEMMA CascadeType ==
  ASSUME ScheduleTypeOK, NEW S, Cascade(S)
  PROVE  run' \in [Run -> RunRow \union {Null}]
<1>1. ASSUME NEW r \in Run, run[r] # Null
      PROVE  [run[r] EXCEPT !.status = "deleted"] \in RunRow
  BY <1>1 DEF ScheduleTypeOK, RunRow, RunStatus
<1> QED
  BY <1>1 DEF ScheduleTypeOK, Cascade

LEMMA RemoveType ==
  ASSUME ScheduleTypeOK, NEW S, \A s \in S \intersect Schedule : There(s), Remove(S)
  PROVE  schedule' \in [Schedule -> ScheduleRow \union {Null}]
<1>1. ASSUME NEW s \in S \intersect Schedule
      PROVE  [schedule[s] EXCEPT !.status = "deleted"] \in ScheduleRow
  BY <1>1 DEF ScheduleTypeOK, ScheduleRow, There
<1> QED
  BY <1>1 DEF ScheduleTypeOK, Remove

LEMMA RouteType ==
  ASSUME ScheduleTypeOK,
         Tick \/ DeleteDataset \/ \E s \in Schedule : CreateSchedule(s) \/ DeleteSchedule(s)
  PROVE  ScheduleTypeOK'
<1>1. CASE Tick
  <2>1. now' \in Time
    BY <1>1, ScheduleAssumption DEF Tick, Time, ScheduleTypeOK
  <2> QED
    BY <1>1, <2>1 DEF Tick, ScheduleTypeOK
<1>2. ASSUME NEW s \in Schedule, CreateSchedule(s) PROVE ScheduleTypeOK'
  <2>1. [status |-> "active", next |-> NextOccurrence(now)] \in ScheduleRow
    BY TimeType DEF ScheduleTypeOK, ScheduleRow
  <2> QED
    BY <1>2, <2>1 DEF CreateSchedule, ScheduleTypeOK
<1>3. ASSUME NEW s \in Schedule, DeleteSchedule(s) PROVE ScheduleTypeOK'
  <2>1. schedule' \in [Schedule -> ScheduleRow \union {Null}]
    BY <1>3, RemoveType DEF DeleteSchedule
  <2>2. run' \in [Run -> RunRow \union {Null}]
    BY <1>3, CascadeType DEF DeleteSchedule
  <2> QED
    BY <1>3, <2>1, <2>2 DEF DeleteSchedule, ScheduleTypeOK
<1>4. CASE DeleteDataset
  <2> DEFINE S == {s \in Schedule : Postgres /\ There(s)}
  <2>1. Remove(S) /\ Cascade(S)
    BY <1>4 DEF DeleteDataset
  <2>2. schedule' \in [Schedule -> ScheduleRow \union {Null}]
    BY <2>1, RemoveType
  <2>3. run' \in [Run -> RunRow \union {Null}]
    BY <2>1, CascadeType
  <2> QED
    BY <1>4, <2>2, <2>3 DEF DeleteDataset, ScheduleTypeOK
<1> QED
  BY <1>1, <1>2, <1>3, <1>4

LEMMA StatusType ==
  ASSUME ScheduleTypeOK, NEW c \in Client,
         \/ StatusCommit(c)
         \/ \E s \in Schedule, requested \in {"active", "paused"} : StatusRead(c, s, requested)
  PROVE  ScheduleTypeOK'
<1>1. ASSUME NEW s \in Schedule, NEW requested \in {"active", "paused"}, StatusRead(c, s, requested)
      PROVE  ScheduleTypeOK'
  <2> DEFINE next == IF requested = "active" THEN NextOccurrence(now) ELSE schedule[s].next
  <2>1. schedule[s] \in ScheduleRow
    BY <1>1 DEF StatusRead, There, ScheduleTypeOK
  <2>2. next \in Nat
    BY <2>1, TimeType DEF ScheduleTypeOK, ScheduleRow
  <2>3. [schedule |-> s, old |-> schedule[s], new |-> [status |-> requested, next |-> next]] \in Patch
    BY <2>1, <2>2 DEF Patch, ScheduleRow
  <2>4. patch' \in [Client -> Patch \union {Null}]
    BY <1>1, <2>3 DEF StatusRead, ScheduleTypeOK
  <2> QED
    BY <1>1, <2>4 DEF StatusRead, ScheduleTypeOK
<1>2. CASE StatusCommit(c)
  <2> DEFINE old == patch[c].old
             new == patch[c].new
             s == patch[c].schedule
             row == [status |-> IF new.status = old.status THEN schedule[s].status ELSE new.status,
                     next   |-> IF new.next = old.next THEN schedule[s].next ELSE new.next]
  <2>1. s \in Schedule /\ old \in ScheduleRow /\ new \in ScheduleRow
    BY <1>2 DEF StatusCommit, ScheduleTypeOK, Patch
  <2>2. /\ schedule' \in [Schedule -> ScheduleRow \union {Null}]
        /\ rewound' \subseteq Schedule
    <3>1. CASE There(s)
      <4>1. schedule[s] \in ScheduleRow
        BY <2>1, <3>1 DEF There, ScheduleTypeOK
      <4>2. row \in ScheduleRow
        BY <2>1, <4>1 DEF ScheduleRow
      <4>3. /\ schedule' = [schedule EXCEPT ![s] = row]
            /\ rewound' = rewound \/ rewound' = rewound \union {s}
        BY <1>2, <3>1 DEF StatusCommit
      <4> QED
        BY <2>1, <4>2, <4>3 DEF ScheduleTypeOK
    <3>2. CASE ~There(s)
      BY <1>2, <3>2 DEF StatusCommit, ScheduleTypeOK
    <3> QED
      BY <3>1, <3>2
  <2> QED
    BY <1>2, <2>2 DEF StatusCommit, ScheduleTypeOK
<1> QED
  BY <1>1, <1>2

\* The dispatcher.
LEMMA ClaimType ==
  ASSUME ScheduleTypeOK, NEW c \in Client,
         DispatchSelect(c) \/ DispatchCommit(c) \/ \E s \in Schedule, r \in Run : RunNow(c, s, r)
  PROVE  ScheduleTypeOK'
<1>1. ASSUME NEW s \in Schedule, NEW r \in Run, RunNow(c, s, r) PROVE ScheduleTypeOK'
  <2>1. [schedule |-> s, due |-> Null, status |-> "queued"] \in RunRow
    BY DEF RunRow, RunStatus
  <2>2. [NoTask EXCEPT !.pc = "jobs", !.todo = {r}] \in Task
    BY JobsTask
  <2> QED
    BY <1>1, <2>1, <2>2 DEF RunNow, ScheduleTypeOK
<1>2. CASE DispatchSelect(c)
  <2>1. PICK rows \in SUBSET Schedule :
          /\ Oldest(rows, {s \in Schedule : Due(s) /\ ~Locked(s)})
          /\ Claim(c, rows)
    BY <1>2 DEF DispatchSelect
  <2>2. ASSUME NEW s \in rows PROVE schedule[s].next \in Time
    BY <2>1, ScheduleAssumption DEF Oldest, Due, There, ScheduleTypeOK, ScheduleRow, Time
  <2>3. [s \in rows |-> schedule[s].next] \in [rows -> Time]
    BY <2>2
  <2>4. [NoTask EXCEPT !.pc = "claim", !.rows = [s \in rows |-> schedule[s].next], !.at = now] \in Task
    BY <2>3, ClaimTask DEF ScheduleTypeOK
  <2>5. task' \in [Client -> Task]
    BY <2>1, <2>4 DEF Claim, ScheduleTypeOK
  <2> QED
    BY <1>2, <2>5 DEF DispatchSelect, ScheduleTypeOK
<1>3. CASE DispatchCommit(c)
  <2> DEFINE rows == task[c].rows
  <2>1. DispatchAdvance(c, task[c].at)
    BY <1>3 DEF DispatchCommit
  <2>2. UNCHANGED <<now, dataset, patch, runOf, stage, finished, dropped, rewound, refusals>>
    BY <2>1 DEF DispatchAdvance
  <2>3. CASE UNCHANGED <<run, schedule>> /\ task' = [task EXCEPT ![c] = NoTask]
    BY <2>2, <2>3, NoTaskType DEF ScheduleTypeOK
  <2>4. CASE ~(UNCHANGED <<run, schedule>> /\ task' = [task EXCEPT ![c] = NoTask])
    <3>1. /\ \A s \in DOMAIN rows : There(s)
          /\ schedule' = [s \in Schedule |->
               IF s \in DOMAIN rows THEN [schedule[s] EXCEPT !.next = NextOccurrence(task[c].at)]
                                    ELSE schedule[s]]
      BY <2>1, <2>4 DEF DispatchAdvance
    <3>2. PICK f \in [DOMAIN rows -> Run] :
            /\ run' = [r \in Run |->
                 IF \E s \in DOMAIN rows : f[s] = r
                   THEN LET s == CHOOSE s \in DOMAIN rows : f[s] = r IN
                        [schedule |-> s, due |-> rows[s], status |-> "queued"]
                   ELSE run[r]]
            /\ task' = [task EXCEPT ![c] =
                 [NoTask EXCEPT !.pc = "jobs", !.todo = {f[s] : s \in DOMAIN rows}]]
      BY <2>1, <2>4 DEF DispatchAdvance
    <3>3. run' \in [Run -> RunRow \union {Null}]
      <4>1. ASSUME NEW r \in Run, \E s \in DOMAIN rows : f[s] = r PROVE run'[r] \in RunRow
        <5>1. PICK s \in DOMAIN rows :
                run'[r] = [schedule |-> s, due |-> rows[s], status |-> "queued"]
          BY <3>2, <4>1
        <5> QED
          BY <5>1, ClaimRows DEF RunRow, RunStatus
      <4>2. ASSUME NEW r \in Run, ~ \E s \in DOMAIN rows : f[s] = r PROVE run'[r] = run[r]
        BY <3>2, <4>2
      <4>3. run' = [r \in Run |-> run'[r]]
        BY <3>2
      <4> QED
        BY <4>1, <4>2, <4>3 DEF ScheduleTypeOK
    <3>4. schedule' \in [Schedule -> ScheduleRow \union {Null}]
      <4>1. NextOccurrence(task[c].at) \in Nat
        BY ClaimRows, TimeType
      <4>2. ASSUME NEW s \in Schedule, s \in DOMAIN rows
            PROVE  [schedule[s] EXCEPT !.next = NextOccurrence(task[c].at)] \in ScheduleRow
        BY <3>1, <4>1, <4>2 DEF There, ScheduleTypeOK, ScheduleRow
      <4> QED
        BY <3>1, <4>2 DEF ScheduleTypeOK
    <3>5. task' \in [Client -> Task]
      <4>1. {f[s] : s \in DOMAIN rows} \in SUBSET Run
        OBVIOUS
      <4>2. [NoTask EXCEPT !.pc = "jobs", !.todo = {f[s] : s \in DOMAIN rows}] \in Task
        BY <4>1, JobsTask
      <4> QED
        BY <3>2, <4>2 DEF ScheduleTypeOK
    <3> QED
      BY <2>2, <3>3, <3>4, <3>5 DEF ScheduleTypeOK
  <2> QED
    BY <2>3, <2>4
<1> QED
  BY <1>1, <1>2, <1>3

LEMMA JobCreationType ==
  ASSUME Scheduling, NEW c \in Client,
         \/ \E r \in Run : NextJob(c, r)
         \/ CreateJob(c) \/ KnownJob(c) \/ EnqueueJob(c) \/ FailJob(c) \/ MarkFailed(c)
         \/ DispatchRefused(c)
  PROVE  ScheduleTypeOK'
<1> USE DEF ScheduleTypeOK
<1>1. ScheduleTypeOK
  BY DEF Scheduling, ScheduleInv
<1>2. ASSUME NEW r \in Run, NextJob(c, r) PROVE ScheduleTypeOK'
  BY <1>1, <1>2 DEF NextJob, Task
<1>3. CASE CreateJob(c)
  <2>1. Item(c) \in Run \union {Null}
    BY <1>1 DEF Item, Task
  <2>2. runOf' \in [Key -> Run \union {Null}]
    BY <1>1, <1>3, <2>1 DEF CreateJob
  <2> QED
    BY <1>1, <1>3, <2>2 DEF CreateJob
<1>4. CASE KnownJob(c) \/ EnqueueJob(c)
  <2>1. task' \in [Client -> Task]
    BY <1>1, <1>4, DoneType DEF KnownJob, EnqueueJob
  <2> QED
    BY <1>1, <1>4, <2>1 DEF KnownJob, EnqueueJob
<1>5. CASE FailJob(c)
  <2>1. Item(c) \in Run
    BY <1>5, ItemThere DEF FailJob, Scheduling
  <2>2. task' \in [Client -> Task]
    <3>1. [task[c] EXCEPT !.pc = "mark"] \in Task
      BY <1>1 DEF Task
    <3>2. task' = [task EXCEPT ![c] = NoTask] \/ task' = [task EXCEPT ![c].pc = "mark"]
      BY <1>5 DEF FailJob
    <3> QED
      BY <1>1, <3>1, <3>2, NoTaskType
  <2>3. dropped' \subseteq Run
    BY <1>1, <1>5, <2>1 DEF FailJob
  <2> QED
    BY <1>1, <1>5, <2>2, <2>3 DEF FailJob
<1>6. CASE MarkFailed(c)
  <2>1. task' \in [Client -> Task]
    BY <1>1, <1>6, DoneType DEF MarkFailed
  <2>2. run' \in [Run -> RunRow \union {Null}]
    BY <1>1, <1>6 DEF MarkFailed, Kept, RunRow, RunStatus
  <2> QED
    BY <1>1, <1>6, <2>1, <2>2 DEF MarkFailed
<1>7. CASE DispatchRefused(c)
  BY <1>1, <1>7, NoTaskType DEF DispatchRefused, Task
<1> QED
  BY <1>2, <1>3, <1>4, <1>5, <1>6, <1>7

\* The handler: the run of the job it executes is there.
LEMMA RunThere ==
  ASSUME Scheduling, NEW w \in Worker, worker[w].pc # "idle"
  PROVE  /\ worker[w].key \in Key /\ Exists(worker[w].key)
         /\ TheRun(w) \in Run
         /\ run[TheRun(w)] \in RunRow
         /\ KeyOf(TheRun(w)) = worker[w].key
<1>1. worker[w].key \in Key /\ Exists(worker[w].key)
  BY DEF Scheduling, Refers, ThreadsRefer
<1> QED
  BY <1>1 DEF Scheduling, ScheduleInv, ScheduleTypeOK, PayloadsName, TheRun

LEMMA WriteType ==
  ASSUME Scheduling, NEW w \in Worker, worker[w].pc # "idle", NEW status \in RunStatus,
         Write(w, status)
  PROVE  run' \in [Run -> RunRow \union {Null}]
<1>1. [run[TheRun(w)] EXCEPT !.status = status] \in RunRow
  BY RunThere DEF RunRow
<1> QED
  BY <1>1, RunThere DEF Write, Scheduling, ScheduleInv, ScheduleTypeOK

LEMMA LoadType ==
  ASSUME Scheduling, NEW w \in Worker, worker[w].pc # "idle", NEW at \in StageAt,
         Proceed(w, at) \/ LoadRun(w, at)
  PROVE  stage' \in [Worker -> Stage]
<1>1. run[TheRun(w)].status \in RunStatus
  BY RunThere DEF RunRow
<1> QED
  BY <1>1 DEF Proceed, LoadRun, Stage, Scheduling, ScheduleInv, ScheduleTypeOK

LEMMA ScheduleHandlerType ==
  ASSUME Scheduling, NEW w \in Worker, HandlerStep(w)
  PROVE  ScheduleTypeOK'
<1> USE DEF ScheduleTypeOK
<1>1. ScheduleTypeOK
  BY DEF Scheduling, ScheduleInv
<1>2. worker[w].pc # "idle"
  BY DEF HandlerStep, StartRead, StartCommit, FindSource, CompleteRead, CompleteCommit, AuditFails,
         FailRead, FailCommit, HandlerFails, HandlerRaises, Executing
<1>3. CASE StartRead(w) \/ FindSource(w) \/ CompleteRead(w) \/ AuditFails(w) \/ FailRead(w)
  <2>1. \E at \in StageAt : Proceed(w, at) \/ LoadRun(w, at)
    BY <1>3 DEF StartRead, FindSource, CompleteRead, AuditFails, FailRead, StageAt
  <2>2. stage' \in [Worker -> Stage]
    BY <1>2, <2>1, LoadType
  <2> QED
    BY <1>1, <1>3, <2>2 DEF StartRead, FindSource, CompleteRead, AuditFails, FailRead
<1>4. CASE StartCommit(w)
  <2>1. stage' \in [Worker -> Stage]
    BY <1>2, <1>4, LoadType DEF StartCommit, StageAt
  <2>2. run' \in [Run -> RunRow \union {Null}]
    BY <1>2, <1>4, WriteType DEF StartCommit, RunStatus
  <2> QED
    BY <1>1, <1>4, <2>1, <2>2 DEF StartCommit
<1>5. CASE CompleteCommit(w)
  <2>1. run' \in [Run -> RunRow \union {Null}]
    BY <1>2, <1>5, WriteType DEF CompleteCommit, RunStatus
  <2>2. finished' \subseteq Run
    BY <1>1, <1>2, <1>5, RunThere DEF CompleteCommit
  <2>3. stage' \in [Worker -> Stage]
    BY <1>1, <1>5, BeginType DEF CompleteCommit
  <2> QED
    BY <1>1, <1>5, <2>1, <2>2, <2>3 DEF CompleteCommit
<1>6. CASE FailCommit(w)
  <2>1. run' \in [Run -> RunRow \union {Null}]
    BY <1>2, <1>6, WriteType DEF FailCommit, RunStatus
  <2>2. stage' \in [Worker -> Stage]
    BY <1>1, <1>6, BeginType DEF FailCommit
  <2> QED
    BY <1>1, <1>6, <2>1, <2>2 DEF FailCommit
<1>7. CASE HandlerFails(w)
  BY <1>1, <1>7, BeginType DEF HandlerFails
<1> QED
  BY <1>3, <1>4, <1>5, <1>6, <1>7 DEF HandlerStep

LEMMA ScheduleCrashType ==
  ASSUME ScheduleTypeOK, NEW p \in Process, CrashSchedules(p)
  PROVE  ScheduleTypeOK'
<1> USE DEF ScheduleTypeOK
<1>1. stage' \in [Worker -> Stage]
  BY BeginType DEF CrashSchedules
<1>2. task' \in [Client -> Task]
  BY NoTaskType DEF CrashSchedules
<1>3. patch' \in [Client -> Patch \union {Null}]
  BY DEF CrashSchedules
<1>4. dropped' \subseteq Run
  BY DEF CrashSchedules, Task
<1> QED
  BY <1>1, <1>2, <1>3, <1>4 DEF CrashSchedules

LEMMA ScheduleTypeStep == Scheduling /\ ScheduleStep => ScheduleTypeOK'
<1> SUFFICES ASSUME Scheduling, ScheduleStep PROVE ScheduleTypeOK'
  OBVIOUS
<1>1. ScheduleTypeOK
  BY DEF Scheduling, ScheduleInv
<1>2. CASE UNCHANGED scheduleVars
  BY <1>1, <1>2 DEF ScheduleTypeOK, scheduleVars
<1>3. ASSUME NEW w \in Worker, RunJob(w) \/ RunJobFails(w) PROVE UNCHANGED scheduleVars
  BY <1>3 DEF RunJob, RunJobFails
<1>4. ASSUME NEW c \in Client, RequestStep(c) PROVE ScheduleTypeOK'
  <2>1. ASSUME JobRequest(c) \/ ServeJobRequest(c) \/ FailJobRequest(c) PROVE UNCHANGED scheduleVars
    BY <2>1 DEF JobRequest, ServeJobRequest, FailJobRequest
  <2> QED
    BY <1>1, <1>2, <1>4, <2>1, StatusType, ClaimType, JobCreationType DEF RequestStep, ServeSchedules
<1> QED
  BY <1>1, <1>2, <1>3, <1>4, RouteType, ScheduleHandlerType, ScheduleCrashType
     DEF ScheduleStep, ScheduleNext

-----------------------------------------------------------------------------
(* What a step may change: one fact per part of the state.                   *)

\* A run that was drawn keeps its schedule and its occurrence, and does not come back.
SameRun(r) ==
  /\ run'[r] # Null
  /\ run'[r].schedule = run[r].schedule
  /\ run'[r].due = run[r].due
  /\ run[r].status = "deleted" => run'[r].status = "deleted"

LEMMA RowNotNull == \A row \in RunRow : row # Null
BY ScheduleAssumption

LEMMA StatusWritten ==
  ASSUME ScheduleTypeOK, NEW r \in Run, run[r] # Null, NEW status \in RunStatus,
         run[r].status = "deleted" => status = "deleted",
         run'[r] = [run[r] EXCEPT !.status = status]
  PROVE  SameRun(r)
<1>1. run[r] \in RunRow
  BY DEF ScheduleTypeOK
<1>2. run'[r] \in RunRow
  BY <1>1 DEF RunRow
<1> QED
  BY <1>1, <1>2, RowNotNull DEF SameRun, RunRow

LEMMA HandlerKeepsRun ==
  ASSUME Scheduling, NEW w \in Worker, worker[w].pc # "idle", NEW status \in RunStatus,
         Write(w, status), Writable(w, status), NEW r \in Run, run[r] # Null
  PROVE  SameRun(r)
<1>1. CASE run' = run
  BY <1>1 DEF SameRun
<1>2. CASE run' # run
  <2>1. /\ run' = [run EXCEPT ![TheRun(w)].status = status]
        /\ Kept(TheRun(w))
    BY <1>2 DEF Write, Writable
  <2>2. CASE r = TheRun(w)
    <3>1. run'[r] = [run[r] EXCEPT !.status = status]
      BY <2>1, <2>2 DEF Scheduling, ScheduleInv, ScheduleTypeOK
    <3> QED
      BY <2>1, <2>2, <3>1, StatusWritten DEF Kept, Scheduling, ScheduleInv
  <2>3. CASE r # TheRun(w)
    BY <2>1, <2>3 DEF SameRun, Scheduling, ScheduleInv, ScheduleTypeOK
  <2> QED
    BY <2>2, <2>3
<1> QED
  BY <1>1, <1>2

\* A claim draws runs that are not there yet.
LEMMA DispatchDraws ==
  ASSUME ScheduleTypeOK, NEW c \in Client, DispatchCommit(c)
  PROVE  /\ \A r \in Run : run[r] # Null => run'[r] = run[r]
         /\ \A r \in Run : run'[r] = run[r] \/ r \in task'[c].todo
         /\ \A r \in task'[c].todo : r \in Run /\ run'[r] # Null /\ run'[r].due # Null
         /\ task'[c].item = Null
         /\ task'[c].pc \in {"idle", "jobs"}
         /\ task'[c].pc = "idle" => task'[c].todo = {}
         /\ \A d \in Client : d # c => task'[d] = task[d]
<1> DEFINE rows == task[c].rows
<1>1. DispatchAdvance(c, task[c].at)
  BY DEF DispatchCommit
<1>2. CASE UNCHANGED <<run, schedule>> /\ task' = [task EXCEPT ![c] = NoTask]
  BY <1>2 DEF ScheduleTypeOK, NoTask
<1>3. CASE ~(UNCHANGED <<run, schedule>> /\ task' = [task EXCEPT ![c] = NoTask])
  <2>1. PICK f \in [DOMAIN rows -> Run] :
          /\ Drawn(c, f)
          /\ run' = [r \in Run |->
               IF \E s \in DOMAIN rows : f[s] = r
                 THEN LET s == CHOOSE s \in DOMAIN rows : f[s] = r IN
                      [schedule |-> s, due |-> rows[s], status |-> "queued"]
                 ELSE run[r]]
          /\ task' = [task EXCEPT ![c] =
               [NoTask EXCEPT !.pc = "jobs", !.todo = {f[s] : s \in DOMAIN rows}]]
    BY <1>1, <1>3 DEF DispatchAdvance
  <2>2. /\ task'[c].todo = {f[s] : s \in DOMAIN rows}
        /\ task'[c].item = Null
        /\ task'[c].pc = "jobs"
        /\ \A d \in Client : d # c => task'[d] = task[d]
    BY <2>1 DEF ScheduleTypeOK, NoTask
  <2>3. ASSUME NEW r \in Run, r \notin task'[c].todo PROVE run'[r] = run[r]
    BY <2>1, <2>2, <2>3
  <2>4. ASSUME NEW r \in task'[c].todo
        PROVE  r \in Run /\ run[r] = Null /\ run'[r] # Null /\ run'[r].due # Null
    <3>1. r \in Run /\ run[r] = Null
      BY <2>1, <2>2, <2>4 DEF Drawn
    <3>2. PICK s \in DOMAIN rows : run'[r] = [schedule |-> s, due |-> rows[s], status |-> "queued"]
      BY <2>1, <2>2, <2>4, <3>1
    <3>3. s \in Schedule /\ rows[s] \in Time
      BY ClaimRows
    <3>4. run'[r] \in RunRow /\ run'[r].due = rows[s]
      BY <3>2, <3>3 DEF RunRow, RunStatus
    <3>5. rows[s] # Null
      BY <3>3, TimeType, ScheduleAssumption
    <3> QED
      BY <3>1, <3>4, <3>5, RowNotNull
  <2> QED
    BY <2>2, <2>3, <2>4
<1> QED
  BY <1>2, <1>3

LEMMA RunsStay ==
  ASSUME Scheduling, ScheduleStep, NEW r \in Run, run[r] # Null
  PROVE  SameRun(r)
<1>1. ScheduleTypeOK /\ run[r] \in RunRow
  BY DEF Scheduling, ScheduleInv, ScheduleTypeOK
<1>2. CASE run'[r] = run[r]
  BY <1>2 DEF SameRun
<1>3. ASSUME NEW S, Cascade(S) PROVE SameRun(r)
  BY <1>1, <1>2, <1>3, StatusWritten DEF Cascade, RunStatus
<1>4. ASSUME NEW c \in Client, RequestStep(c) PROVE SameRun(r)
  <2>1. ASSUME NEW s \in Schedule, NEW q \in Run, RunNow(c, s, q) PROVE SameRun(r)
    BY <1>1, <1>2, <2>1 DEF RunNow, ScheduleTypeOK
  <2>2. CASE DispatchCommit(c)
    BY <1>1, <1>2, <2>2, DispatchDraws
  <2>3. CASE MarkFailed(c)
    <3>1. CASE run' = run
      BY <1>2, <3>1
    <3>2. CASE run' = [run EXCEPT ![Item(c)].status = "failed"] /\ Kept(Item(c))
      BY <1>1, <1>2, <3>2, StatusWritten DEF Kept, RunStatus, ScheduleTypeOK
    <3> QED
      BY <2>3, <3>1, <3>2 DEF MarkFailed
  <2>4. ASSUME NEW s \in Schedule, NEW requested, StatusRead(c, s, requested) PROVE SameRun(r)
    BY <1>2, <2>4 DEF StatusRead
  <2>5. ASSUME NEW q \in Run, NextJob(c, q) PROVE SameRun(r)
    BY <1>2, <2>5 DEF NextJob
  <2>6. CASE StatusCommit(c) \/ CreateJob(c) \/ KnownJob(c) \/ EnqueueJob(c) \/ FailJob(c)
               \/ DispatchRefused(c) \/ DispatchSelect(c)
    BY <1>2, <2>6 DEF StatusCommit, CreateJob, KnownJob, EnqueueJob, FailJob, DispatchRefused,
           DispatchSelect
  <2>7. CASE JobRequest(c) \/ ServeJobRequest(c) \/ FailJobRequest(c)
    BY <1>2, <2>7 DEF JobRequest, ServeJobRequest, FailJobRequest, scheduleVars
  <2> QED
    BY <1>4, <2>1, <2>2, <2>3, <2>4, <2>5, <2>6, <2>7 DEF RequestStep, ServeSchedules
<1>5. ASSUME NEW w \in Worker, HandlerStep(w) PROVE SameRun(r)
  <2>1. worker[w].pc # "idle"
    BY <1>5 DEF HandlerStep, StartRead, StartCommit, FindSource, CompleteRead, CompleteCommit,
           AuditFails, FailRead, FailCommit, HandlerFails, HandlerRaises, Executing
  <2>2. CASE StartCommit(w) \/ CompleteCommit(w) \/ FailCommit(w)
    BY <2>1, <2>2, HandlerKeepsRun DEF StartCommit, CompleteCommit, FailCommit, RunStatus
  <2>3. CASE StartRead(w) \/ FindSource(w) \/ CompleteRead(w) \/ AuditFails(w) \/ FailRead(w)
               \/ HandlerFails(w)
    BY <1>2, <2>3 DEF StartRead, FindSource, CompleteRead, AuditFails, FailRead, HandlerFails
  <2> QED
    BY <1>5, <2>2, <2>3 DEF HandlerStep
<1>6. CASE UNCHANGED scheduleVars
  BY <1>2, <1>6 DEF scheduleVars
<1>7. ASSUME NEW s \in Schedule, CreateSchedule(s) \/ DeleteSchedule(s) PROVE SameRun(r)
  BY <1>2, <1>3, <1>7 DEF CreateSchedule, DeleteSchedule
<1>8. CASE Tick \/ DeleteDataset
  BY <1>2, <1>3, <1>8 DEF Tick, DeleteDataset
<1>9. ASSUME NEW p \in Process, CrashSchedules(p) PROVE SameRun(r)
  BY <1>2, <1>9 DEF CrashSchedules
<1>10. ASSUME NEW w \in Worker, RunJob(w) \/ RunJobFails(w) PROVE SameRun(r)
  BY <1>6, <1>10 DEF RunJob, RunJobFails
<1> QED
  BY <1>4, <1>5, <1>6, <1>7, <1>8, <1>9, <1>10 DEF ScheduleStep, ScheduleNext

LEMMA KeyStays ==
  ASSUME NEW r \in Run, SameRun(r)
  PROVE  KeyOf(r)' = KeyOf(r) /\ (~Kept(r) /\ run[r] # Null => ~Kept(r)')
BY DEF SameRun, KeyOf, Kept

\* Rows of the table of jobs stay, with their payload; only CreateJob adds one.
RowsSame == UNCHANGED runOf /\ \A k \in Key : Exists(k)' <=> Exists(k)

LEMMA CreateJobAdds ==
  ASSUME Scheduling, NEW c \in Client, CreateJob(c)
  PROVE  \/ RowsSame
         \/ \E k \in Key :
              /\ k = client[c].key /\ ~Exists(k)
              /\ runOf' = [runOf EXCEPT ![k] = Item(c)]
              /\ \A i \in Key : Exists(i)' <=> Exists(i) \/ i = k
<1>1. PICK k \in Key : k = client[c].key
  BY DEF CreateJob, CreateInsert, Scheduling, Refers, RequestsRefer
<1>2. CASE job[k] = Null
  <2>1. job' = [job EXCEPT ![k] = NewRow] /\ runOf' = [runOf EXCEPT ![k] = Item(c)]
    BY <1>1, <1>2 DEF CreateJob, CreateInsert
  <2> QED
    BY <1>1, <1>2, <2>1, NewRowType, RowIsNotNull DEF Exists, Scheduling, Refers, TypeOK
<1>3. CASE job[k] # Null
  BY <1>1, <1>3 DEF CreateJob, CreateInsert, RowsSame, Exists
<1> QED
  BY <1>2, <1>3

LEMMA RowsStay ==
  ASSUME Scheduling, ScheduleStep
  PROVE  RowsSame \/ \E c \in Client : CreateJob(c)
<1>1. ASSUME job' = job, runOf' = runOf PROVE RowsSame
  BY <1>1 DEF RowsSame, Exists
<1>2. ASSUME NEW c \in Client, RequestStep(c), ~CreateJob(c) PROVE RowsSame
  <2>1. ASSUME NEW s \in Schedule, NEW r \in Run, RunNow(c, s, r) PROVE RowsSame
    BY <1>1, <2>1 DEF RunNow, vars
  <2>2. ASSUME NEW s \in Schedule, NEW requested, StatusRead(c, s, requested) PROVE RowsSame
    BY <1>1, <2>2 DEF StatusRead, vars
  <2>3. ASSUME NEW r \in Run, NextJob(c, r) PROVE RowsSame
    BY <1>1, <2>3 DEF NextJob, CreateSelect
  <2>4. CASE StatusCommit(c) \/ MarkFailed(c) \/ DispatchRefused(c) \/ DispatchSelect(c)
    BY <1>1, <2>4 DEF StatusCommit, MarkFailed, DispatchRefused, DispatchSelect, vars
  <2>5. CASE DispatchCommit(c)
    BY <1>1, <2>5 DEF DispatchCommit, DispatchAdvance, vars
  <2>6. CASE KnownJob(c) \/ EnqueueJob(c) \/ FailJob(c)
    BY <1>1, <2>6 DEF KnownJob, EnqueueJob, FailJob, AnswerDuplicate, Enqueue, RequestFails
  <2>7. CASE JobRequest(c) \/ FailJobRequest(c)
    BY <1>1, <2>7 DEF JobRequest, FailJobRequest, CancelRead, RetryCheck, RequestFails, scheduleVars
  <2>8. CASE ServeJobRequest(c)
    <3>1. CASE RetryRead(c) \/ Enqueue(c)
      BY <1>1, <2>8, <3>1 DEF ServeJobRequest, RetryRead, Enqueue, scheduleVars
    <3>2. CASE CancelCommit(c) \/ RetryCommit(c)
      BY <2>8, <3>2, JobRequestRows DEF ServeJobRequest, scheduleVars, RowsSame, Scheduling
    <3> QED
      BY <2>8, <3>1, <3>2 DEF ServeJobRequest
  <2> QED
    BY <1>2, <2>1, <2>2, <2>3, <2>4, <2>5, <2>6, <2>7, <2>8 DEF RequestStep, ServeSchedules
<1>3. ASSUME NEW w \in Worker, HandlerStep(w) PROVE RowsSame
  <2>1. CASE StartRead(w) \/ StartCommit(w) \/ FindSource(w) \/ CompleteRead(w)
               \/ AuditFails(w) \/ FailRead(w)
    BY <1>1, <2>1 DEF StartRead, StartCommit, FindSource, CompleteRead, AuditFails, FailRead, vars
  <2>2. CASE CompleteCommit(w) \/ FailCommit(w) \/ HandlerFails(w)
    BY <1>1, <2>2 DEF CompleteCommit, FailCommit, HandlerFails, HandlerReturns, HandlerRaises
  <2> QED
    BY <1>3, <2>1, <2>2 DEF HandlerStep
<1>4. ASSUME NEW w \in Worker, RunJob(w) \/ RunJobFails(w) PROVE RowsSame
  BY <1>4, RunJobMoves DEF RunJob, RunJobFails, Scheduling, RowsSame, scheduleVars
<1>5. CASE UNCHANGED <<vars, scheduleVars>>
  BY <1>1, <1>5 DEF vars, scheduleVars
<1>6. ASSUME NEW s \in Schedule, CreateSchedule(s) \/ DeleteSchedule(s) PROVE RowsSame
  BY <1>1, <1>6 DEF CreateSchedule, DeleteSchedule, vars
<1>7. CASE Tick \/ DeleteDataset
  BY <1>1, <1>7 DEF Tick, DeleteDataset, vars
<1>8. ASSUME NEW p \in Process, CrashSchedules(p) PROVE RowsSame
  BY <1>1, <1>8 DEF CrashSchedules, Crash
<1> QED
  BY <1>2, <1>3, <1>4, <1>5, <1>6, <1>7, <1>8 DEF ScheduleStep, ScheduleNext

LEMMA PayloadsStay ==
  ASSUME Scheduling, ScheduleStep, NEW k \in Key, Exists(k)
  PROVE  Exists(k)' /\ runOf'[k] = runOf[k]
<1>1. CASE RowsSame
  BY <1>1 DEF RowsSame
<1>2. ASSUME NEW c \in Client, CreateJob(c) PROVE Exists(k)' /\ runOf'[k] = runOf[k]
  BY <1>1, <1>2, CreateJobAdds DEF Scheduling, ScheduleInv, ScheduleTypeOK
<1> QED
  BY <1>1, <1>2, RowsStay

LEMMA PayloadsNameStep ==
  ASSUME Scheduling, ScheduleStep
  PROVE  PayloadsName'
<1>1. ASSUME NEW k \in Key, Exists(k)'
      PROVE  \E r \in Run : runOf'[k] = r /\ run[r] # Null /\ KeyOf(r) = k
  <2>1. CASE Exists(k)
    BY <2>1, PayloadsStay DEF Scheduling, ScheduleInv, PayloadsName
  <2>2. CASE ~Exists(k)
    <3>1. PICK c \in Client : CreateJob(c)
      BY <1>1, <2>2, RowsStay DEF RowsSame
    <3>2. client[c].key = k /\ runOf' = [runOf EXCEPT ![k] = Item(c)]
      BY <1>1, <2>2, <3>1, CreateJobAdds DEF RowsSame
    <3>3. runOf'[k] = Item(c)
      BY <3>2 DEF Scheduling, ScheduleInv, ScheduleTypeOK
    <3>4. Item(c) # Null /\ KeyOf(Item(c)) = k
      BY <3>1, <3>2 DEF CreateJob, CreateInsert, Scheduling, ScheduleInv, TasksOwn, TaskOwns
    <3> QED
      BY <3>3, <3>4, ItemThere DEF Scheduling
  <2> QED
    BY <2>1, <2>2
<1>2. ASSUME NEW r \in Run, run[r] # Null PROVE run'[r] # Null /\ KeyOf(r)' = KeyOf(r)
  BY <1>2, RunsStay, KeyStays DEF SameRun
<1>3. ASSUME NEW k \in Key, Exists(k)'
      PROVE  runOf'[k] \in Run /\ run'[runOf'[k]] # Null /\ KeyOf(runOf[k])' = k
  <2>1. PICK r \in Run : runOf'[k] = r /\ run[r] # Null /\ KeyOf(r) = k
    BY <1>1, <1>3
  <2>2. run'[r] # Null /\ KeyOf(r)' = k
    BY <1>2, <2>1
  <2> QED
    BY <2>1, <2>2 DEF KeyOf
<1> QED
  BY <1>3 DEF PayloadsName

-----------------------------------------------------------------------------
(* What a request works on.                                                  *)

\* A request touches its own task and its own client only.
LEMMA OthersKeep ==
  ASSUME Scheduling, NEW c \in Client, RequestStep(c), NEW d \in Client, d # c
  PROVE  task'[d] = task[d] /\ client'[d] = client[d]
<1> USE DEF Scheduling, Refers, TypeOK, ScheduleInv, ScheduleTypeOK
<1>1. ASSUME NEW s \in Schedule, NEW r \in Run, RunNow(c, s, r)
      PROVE  task'[d] = task[d] /\ client'[d] = client[d]
  BY <1>1 DEF RunNow, vars
<1>2. ASSUME NEW s \in Schedule, NEW requested, StatusRead(c, s, requested)
      PROVE  task'[d] = task[d] /\ client'[d] = client[d]
  BY <1>2 DEF StatusRead, vars
<1>3. ASSUME NEW r \in Run, NextJob(c, r)
      PROVE  task'[d] = task[d] /\ client'[d] = client[d]
  BY <1>3 DEF NextJob, CreateSelect, Ask
<1>4. CASE DispatchCommit(c)
  <2>1. client' = client
    BY <1>4 DEF DispatchCommit, DispatchAdvance, vars
  <2> QED
    BY <1>4, <2>1, DispatchDraws
<1>5. CASE StatusCommit(c) \/ MarkFailed(c) \/ DispatchRefused(c)
  BY <1>5 DEF StatusCommit, MarkFailed, DispatchRefused, Done, vars
<1>6. CASE DispatchSelect(c)
  BY <1>6 DEF DispatchSelect, Claim, vars
<1>7. CASE CreateJob(c) \/ FailJob(c)
  BY <1>7 DEF CreateJob, CreateInsert, FailJob, RequestFails, Ask, Answer
<1>8. CASE KnownJob(c) \/ EnqueueJob(c)
  BY <1>8 DEF KnownJob, EnqueueJob, AnswerDuplicate, Enqueue, Answer, Done
<1>9. CASE JobRequest(c) \/ FailJobRequest(c)
  BY <1>9 DEF JobRequest, FailJobRequest, CancelRead, RetryCheck, RequestFails, Ask, Answer,
         scheduleVars
<1>10. CASE ServeJobRequest(c)
  BY <1>10 DEF ServeJobRequest, CancelCommit, RetryRead, RetryCommit, Enqueue, Ask, Answer,
         scheduleVars
<1> QED
  BY <1>1, <1>2, <1>3, <1>4, <1>5, <1>6, <1>7, <1>8, <1>9, <1>10 DEF RequestStep, ServeSchedules

LEMMA TodoStill ==
  ASSUME Scheduling, ScheduleStep, NEW c \in Client, NEW T, T \subseteq task[c].todo, NEW r \in T
  PROVE  run'[r] # Null /\ (run'[r].due = Null => T = {r})
<1>1. r \in Run /\ run[r] # Null
  BY TodoThere DEF Scheduling
<1>2. SameRun(r)
  BY <1>1, RunsStay
<1> QED
  BY <1>1, <1>2 DEF SameRun, Scheduling, ScheduleInv, TasksOwn, TaskOwns

LEMMA OwnsSame ==
  ASSUME Scheduling, ScheduleStep, NEW c \in Client,
         task'[c] = task[c], client'[c] = client[c]
  PROVE  TaskOwns(c)'
<1>1. TaskOwns(c)
  BY DEF Scheduling, ScheduleInv, TasksOwn
<1>2. \A r \in task[c].todo : run'[r] # Null /\ (run'[r].due = Null => task[c].todo = {r})
  BY TodoStill
<1>3. ASSUME task[c].item # Null
      PROVE  KeyOf(Item(c))' = KeyOf(Item(c))
  <2>1. PICK r \in Run : r = task[c].item /\ run[r] # Null
    BY <1>3, ItemThere DEF Item, Scheduling
  <2>2. KeyOf(r)' = KeyOf(r)
    BY <2>1, RunsStay, KeyStays
  <2> QED
    BY <2>1, <2>2 DEF Item, KeyOf
<1> QED
  BY <1>1, <1>2, <1>3 DEF TaskOwns, Item

\* A request with no item at hand.
LEMMA OwnsNoItem ==
  ASSUME NEW c \in Client,
         task'[c].item = Null, task'[c].pc # "mark",
         task'[c].pc \in {"idle", "claim"} => task'[c].todo = {},
         \A r \in task'[c].todo : run'[r] # Null /\ (run'[r].due = Null => task'[c].todo = {r}),
         client'[c].pc \notin {"insert", "duplicate"}
  PROVE  TaskOwns(c)'
BY DEF TaskOwns, Item

LEMMA DoneTask ==
  ASSUME Scheduling, NEW c \in Client, Done(c)
  PROVE  /\ task'[c].item = Null
         /\ task'[c].pc \in {"idle", "jobs"}
         /\ task'[c].pc = "idle" => task'[c].todo = {}
         /\ task'[c].todo = task[c].todo \ {Item(c)}
BY DEF Done, NoTask, Scheduling, ScheduleInv, ScheduleTypeOK

LEMMA OwnsDone ==
  ASSUME Scheduling, ScheduleStep, NEW c \in Client, Done(c),
         client'[c].pc \notin {"insert", "duplicate"}
  PROVE  TaskOwns(c)'
<1>1. PICK T : T = task[c].todo \ {Item(c)}
  OBVIOUS
<1>2. \A r \in T : run'[r] # Null /\ (run'[r].due = Null => T = {r})
  BY <1>1, TodoStill
<1> QED
  BY <1>1, <1>2, DoneTask, OwnsNoItem

LEMMA OwnsNone ==
  ASSUME NEW c \in Client, task'[c] = NoTask, client'[c].pc \notin {"insert", "duplicate"}
  PROVE  TaskOwns(c)'
BY OwnsNoItem DEF NoTask

LEMMA OwnsClaim ==
  ASSUME Scheduling, ScheduleStep, NEW c \in Client,
         \/ \E s \in Schedule, r \in Run : RunNow(c, s, r)
         \/ DispatchSelect(c) \/ DispatchCommit(c) \/ DispatchRefused(c)
  PROVE  TaskOwns(c)'
<1> USE DEF Scheduling, ScheduleInv, ScheduleTypeOK
<1>1. ASSUME NEW s \in Schedule, NEW r \in Run, RunNow(c, s, r) PROVE TaskOwns(c)'
  <2>1. /\ task'[c].item = Null /\ task'[c].pc = "jobs" /\ task'[c].todo = {r}
        /\ client'[c].pc = "idle"
    BY <1>1 DEF RunNow, NoTask, Idle, vars
  <2>2. run'[r] = [schedule |-> s, due |-> Null, status |-> "queued"]
    BY <1>1 DEF RunNow
  <2>3. run'[r] # Null
    BY <2>2, RowNotNull DEF RunRow, RunStatus
  <2> QED
    BY <2>1, <2>3, OwnsNoItem
<1>2. CASE DispatchSelect(c)
  <2>1. /\ task'[c].item = Null /\ task'[c].pc = "claim" /\ task'[c].todo = {}
        /\ client'[c].pc = "idle"
    BY <1>2 DEF DispatchSelect, Claim, NoTask, Idle, vars
  <2> QED
    BY <2>1, OwnsNoItem
<1>3. CASE DispatchCommit(c)
  <2>1. client'[c].pc \notin {"insert", "duplicate"}
    BY <1>3 DEF DispatchCommit, DispatchAdvance, TasksOwn, TaskOwns, vars
  <2>2. /\ \A r \in task'[c].todo : run'[r] # Null /\ run'[r].due # Null
        /\ task'[c].item = Null
        /\ task'[c].pc \in {"idle", "jobs"}
        /\ task'[c].pc = "idle" => task'[c].todo = {}
    BY <1>3, DispatchDraws
  <2> QED
    BY <2>1, <2>2, OwnsNoItem
<1>4. CASE DispatchRefused(c)
  <2>1. client'[c].pc \notin {"insert", "duplicate"}
    BY <1>4 DEF DispatchRefused, TasksOwn, TaskOwns, vars
  <2>2. task'[c] = NoTask
    BY <1>4 DEF DispatchRefused
  <2> QED
    BY <2>1, <2>2, OwnsNone
<1> QED
  BY <1>1, <1>2, <1>3, <1>4

LEMMA OwnsNextJob ==
  ASSUME Scheduling, ScheduleStep, NEW c \in Client, NEW r \in Run, NextJob(c, r)
  PROVE  TaskOwns(c)'
<1> USE DEF Scheduling, ScheduleInv, ScheduleTypeOK
<1>1. /\ task'[c].pc = "jobs" /\ task'[c].todo = task[c].todo /\ task'[c].item = r
      /\ r \in task[c].todo
  BY DEF NextJob
<1>2. \A q \in task[c].todo : run'[q] # Null /\ (run'[q].due = Null => task[c].todo = {q})
  BY TodoStill
<1>3. /\ client'[c].pc \in {"insert", "duplicate"}
      /\ client'[c].key = KeyOf(r)
  BY DEF NextJob, CreateSelect, Ask, Refers, TypeOK
<1>4. KeyOf(r)' = KeyOf(r)
  BY DEF NextJob, KeyOf
<1>5. r # Null
  BY ScheduleAssumption
<1>6. KeyOf(Item(c))' = KeyOf(r)
  BY <1>1, <1>4 DEF Item, KeyOf
<1> QED
  BY <1>1, <1>2, <1>3, <1>5, <1>6 DEF TaskOwns, Item

LEMMA OwnsCreateJob ==
  ASSUME Scheduling, ScheduleStep, NEW c \in Client, CreateJob(c)
  PROVE  TaskOwns(c)'
<1> USE DEF Scheduling, ScheduleInv
<1>1. /\ client[c].pc = "insert" /\ client'[c].pc \in {"enqueue", "duplicate"}
      /\ client'[c].key = client[c].key
  BY DEF CreateJob, CreateInsert, Ask, Refers, TypeOK
<1>2. task' = task /\ run' = run
  BY DEF CreateJob
<1>3. task[c].pc = "jobs" /\ Item(c) # Null /\ client[c].key = KeyOf(Item(c))
  BY <1>1 DEF TasksOwn, TaskOwns
<1>4. KeyOf(Item(c))' = KeyOf(Item(c))
  BY <1>2 DEF Item, KeyOf
<1>5. TaskOwns(c)
  BY DEF TasksOwn
<1> QED
  BY <1>1, <1>2, <1>3, <1>4, <1>5 DEF TaskOwns, Item

LEMMA OwnsJobMade ==
  ASSUME Scheduling, ScheduleStep, NEW c \in Client,
         KnownJob(c) \/ EnqueueJob(c) \/ MarkFailed(c) \/ FailJob(c)
  PROVE  TaskOwns(c)'
<1> USE DEF Scheduling, ScheduleInv
<1>1. CASE KnownJob(c) \/ EnqueueJob(c)
  <2>1. Done(c) /\ client'[c] = Rest
    BY <1>1 DEF KnownJob, EnqueueJob, AnswerDuplicate, Enqueue, Answer, Refers, TypeOK
  <2> QED
    BY <2>1, OwnsDone DEF Rest
<1>2. CASE MarkFailed(c)
  <2>1. Done(c) /\ client'[c] = client[c] /\ client[c].pc = "idle"
    BY <1>2 DEF MarkFailed, TasksOwn, TaskOwns, vars
  <2> QED
    BY <2>1, OwnsDone
<1>3. CASE FailJob(c)
  <2>1. client'[c] = Rest /\ run' = run
    BY <1>3 DEF FailJob, RequestFails, Answer, Refers, TypeOK
  <2>2. CASE task' = [task EXCEPT ![c] = NoTask]
    BY <2>1, <2>2, OwnsNone DEF Rest, ScheduleTypeOK
  <2>3. CASE task' = [task EXCEPT ![c].pc = "mark"]
    <3>1. task'[c].pc = "mark" /\ task'[c].todo = task[c].todo /\ task'[c].item = task[c].item
      BY <2>3 DEF ScheduleTypeOK, Task
    <3>2. Item(c) # Null /\ TaskOwns(c)
      BY <1>3 DEF FailJob, TasksOwn
    <3> QED
      BY <2>1, <3>1, <3>2 DEF TaskOwns, Item, Rest
  <2> QED
    BY <1>3, <2>2, <2>3 DEF FailJob
<1> QED
  BY <1>1, <1>2, <1>3

LEMMA OwnsJobRequest ==
  ASSUME Scheduling, ScheduleStep, NEW c \in Client,
         JobRequest(c) \/ ServeJobRequest(c) \/ FailJobRequest(c)
  PROVE  TaskOwns(c)'
<1> USE DEF Scheduling, ScheduleInv
<1>1. task' = task /\ task[c].pc = "idle"
  BY DEF JobRequest, ServeJobRequest, FailJobRequest, Idle, scheduleVars
<1>2. client'[c].pc \notin {"insert", "duplicate"}
  <2>1. CASE JobRequest(c) \/ FailJobRequest(c)
    BY <2>1 DEF JobRequest, FailJobRequest, CancelRead, RetryCheck, RequestFails, Ask, Answer, Rest,
           Refers, TypeOK
  <2>2. CASE CancelCommit(c) \/ RetryCommit(c) \/ Enqueue(c)
    BY <2>2 DEF CancelCommit, RetryCommit, Enqueue, Ask, Answer, Rest, Refers, TypeOK
  <2>3. CASE RetryRead(c)
    <3>1. client'[c].pc = client[c].pc
      BY <2>3 DEF RetryRead, Refers, TypeOK, Request
    <3> QED
      BY <2>3, <3>1 DEF RetryRead
  <2> QED
    BY <2>1, <2>2, <2>3 DEF ServeJobRequest
<1>3. task[c].todo = {} /\ Item(c) = Null
  BY <1>1, ScheduleAssumption DEF TasksOwn, TaskOwns
<1> QED
  BY <1>1, <1>2, <1>3, OwnsNoItem DEF Item

LEMMA TasksOwnStep == Scheduling /\ ScheduleStep => TasksOwn'
<1> SUFFICES ASSUME Scheduling, ScheduleStep, NEW d \in Client PROVE TaskOwns(d)'
  BY DEF TasksOwn
<1>1. CASE task' = task /\ client' = client
  BY <1>1, OwnsSame
<1>2. ASSUME NEW c \in Client, RequestStep(c) PROVE TaskOwns(d)'
  <2>1. CASE d # c
    BY <1>2, <2>1, OthersKeep, OwnsSame
  <2>2. ASSUME NEW s \in Schedule, NEW requested, StatusRead(c, s, requested) PROVE TaskOwns(d)'
    BY <1>1, <2>2 DEF StatusRead, vars
  <2>3. CASE StatusCommit(c)
    BY <1>1, <2>3 DEF StatusCommit, vars
  <2> QED
    BY <1>2, <2>1, <2>2, <2>3, OwnsClaim, OwnsNextJob, OwnsCreateJob, OwnsJobMade, OwnsJobRequest
       DEF RequestStep, ServeSchedules
<1>3. ASSUME NEW w \in Worker, HandlerStep(w) PROVE task' = task /\ client' = client
  BY <1>3 DEF HandlerStep, StartRead, StartCommit, FindSource, CompleteRead, CompleteCommit,
         AuditFails, FailRead, FailCommit, HandlerFails, HandlerReturns, HandlerRaises, vars
<1>4. ASSUME NEW w \in Worker, RunJob(w) \/ RunJobFails(w) PROVE task' = task /\ client' = client
  BY <1>4, RunJobMoves DEF RunJob, RunJobFails, Scheduling, scheduleVars
<1>5. CASE UNCHANGED <<vars, scheduleVars>>
  BY <1>1, <1>5 DEF vars, scheduleVars
<1>6. ASSUME NEW s \in Schedule, CreateSchedule(s) \/ DeleteSchedule(s)
      PROVE  task' = task /\ client' = client
  BY <1>6 DEF CreateSchedule, DeleteSchedule, vars
<1>7. CASE Tick \/ DeleteDataset
  BY <1>1, <1>7 DEF Tick, DeleteDataset, vars
<1>8. ASSUME NEW p \in Process, CrashSchedules(p) PROVE TaskOwns(d)'
  <2>1. CASE Home[d] = p
    BY <1>8, <2>1, OwnsNone DEF CrashSchedules, Crash, Rest
  <2>2. CASE Home[d] # p
    BY <1>8, <2>2, OwnsSame DEF CrashSchedules, Crash
  <2> QED
    BY <2>1, <2>2
<1> QED
  BY <1>1, <1>2, <1>3, <1>4, <1>5, <1>6, <1>7, <1>8 DEF ScheduleStep, ScheduleNext

-----------------------------------------------------------------------------
(* What the handler's threads know of their runs.                            *)

LEMMA FinishedGrows == ScheduleStep => finished \subseteq finished'
<1> SUFFICES ASSUME ScheduleStep PROVE finished \subseteq finished'
  OBVIOUS
<1>1. ASSUME NEW c \in Client, RequestStep(c) PROVE finished' = finished
  <2>1. CASE ServeSchedules(c)
    BY <2>1 DEF ServeSchedules, StatusCommit, DispatchCommit, DispatchAdvance, NextJob, CreateJob,
           KnownJob, EnqueueJob, MarkFailed
  <2> QED
    BY <1>1, <2>1 DEF RequestStep, StatusRead, RunNow, DispatchSelect, FailJob, DispatchRefused,
           JobRequest, ServeJobRequest, FailJobRequest, scheduleVars
<1>2. ASSUME NEW w \in Worker, HandlerStep(w) PROVE finished \subseteq finished'
  BY <1>2 DEF HandlerStep, StartRead, StartCommit, FindSource, CompleteRead, CompleteCommit,
         AuditFails, FailRead, FailCommit, HandlerFails
<1>3. ASSUME NEW w \in Worker, RunJob(w) \/ RunJobFails(w) PROVE finished' = finished
  BY <1>3 DEF RunJob, RunJobFails, scheduleVars
<1>4. CASE UNCHANGED <<vars, scheduleVars>>
  BY <1>4 DEF scheduleVars
<1> QED
  BY <1>1, <1>2, <1>3, <1>4 DEF ScheduleStep, ScheduleNext, Tick, CreateSchedule, DeleteSchedule,
     DeleteDataset, CrashSchedules

\* What is known of the run of a busy thread is known from then on.
LEMMA KnowledgeLasts ==
  ASSUME Scheduling, ScheduleStep, NEW w \in Worker, worker[w].pc # "idle",
         worker'[w].key = worker[w].key
  PROVE  /\ TheRun(w)' = TheRun(w)
         /\ TheRun(w) \in finished => TheRun(w)' \in finished'
         /\ ~Kept(TheRun(w)) => ~Kept(TheRun(w))'
<1>1. PICK k \in Key : k = worker[w].key /\ Exists(k)
  BY DEF Scheduling, Refers, ThreadsRefer
<1>2. PICK r \in Run : r = runOf[k] /\ run[r] # Null
  BY <1>1 DEF Scheduling, ScheduleInv, PayloadsName
<1>3. runOf'[k] = r
  BY <1>1, <1>2, PayloadsStay
<1>4. ~Kept(r) => ~Kept(r)'
  BY <1>2, RunsStay, KeyStays
<1>5. finished \subseteq finished'
  BY FinishedGrows
<1> QED
  BY <1>1, <1>2, <1>3, <1>4, <1>5 DEF TheRun, Kept

LEMMA KnowsSame ==
  ASSUME Scheduling, ScheduleStep, NEW w \in Worker, worker'[w] = worker[w], stage'[w] = stage[w]
  PROVE  HandlerKnows(w)'
<1>1. HandlerKnows(w)
  BY DEF Scheduling, ScheduleInv, HandlersKnow
<1>2. CASE worker[w].pc = "idle"
  <2>1. stage'[w] = Begin /\ Begin.seen # "deleted"
    BY <1>1, <1>2, ScheduleAssumption DEF HandlerKnows, Begin, RunStatus
  <2> QED
    BY <1>2, <2>1 DEF HandlerKnows, Begin
<1>3. CASE worker[w].pc # "idle"
  BY <1>1, <1>3, KnowledgeLasts DEF HandlerKnows, Begin
<1> QED
  BY <1>2, <1>3

LEMMA KnowsNothing ==
  ASSUME NEW w \in Worker, worker'[w].pc = "execute" \/ stage'[w] = Begin,
         worker'[w].pc \notin {"recheck", "completed"}, stage'[w].seen # "deleted"
  PROVE  HandlerKnows(w)'
BY DEF HandlerKnows, Begin

LEMMA BeginKnows == Begin.seen # "deleted"
BY ScheduleAssumption DEF Begin, RunStatus

LEMMA LoadKnows ==
  ASSUME Scheduling, ScheduleStep, NEW w \in Worker, NEW at, LoadRun(w, at), run' = run,
         worker' = worker, worker[w].pc = "execute"
  PROVE  HandlerKnows(w)'
<1>1. PICK k \in Key : k = worker[w].key /\ Exists(k)
  BY DEF Scheduling, Refers, ThreadsRefer
<1>2. PICK r \in Run : r = TheRun(w) /\ TheRun(w)' = r
  BY <1>1, RunThere, KnowledgeLasts
<1>3. stage'[w] = [at |-> at, seen |-> run[r].status]
  BY <1>2 DEF LoadRun, Scheduling, ScheduleInv, ScheduleTypeOK
<1>4. stage'[w].seen = "deleted" => ~Kept(r)'
  BY <1>3 DEF Kept
<1> QED
  BY <1>2, <1>4 DEF HandlerKnows, Kept

LEMMA ProceedKnows ==
  ASSUME Scheduling, NEW w \in Worker, NEW at, Proceed(w, at), worker' = worker,
         worker[w].pc = "execute"
  PROVE  HandlerKnows(w)'
<1>1. stage'[w].seen = Null
  BY DEF Proceed, Scheduling, ScheduleInv, ScheduleTypeOK
<1> QED
  BY <1>1, KnowsNothing, ScheduleAssumption DEF RunStatus

\* The completion is recorded, or the row that it was to be recorded in is gone.
LEMMA CompletionKnown ==
  ASSUME Scheduling, ScheduleStep, NEW w \in Worker, CompleteCommit(w)
  PROVE  HandlerKnows(w)'
<1>1. /\ worker[w].pc = "execute" /\ worker'[w].pc = "recheck"
      /\ worker'[w].key = worker[w].key
  BY DEF CompleteCommit, HandlerReturns, Goto, Scheduling, Refers, TypeOK, Thread
<1>2. stage'[w] = Begin
  BY DEF CompleteCommit, Scheduling, ScheduleInv, ScheduleTypeOK
<1>3. /\ TheRun(w)' = TheRun(w)
      /\ ~Kept(TheRun(w)) => ~Kept(TheRun(w))'
  BY <1>1, KnowledgeLasts
<1>4. CASE stage[w].seen = "deleted"
  BY <1>1, <1>2, <1>3, <1>4, BeginKnows DEF Scheduling, ScheduleInv, HandlersKnow, HandlerKnows
<1>5. CASE stage[w].seen # "deleted"
  <2>1. TheRun(w) \in finished'
    BY <1>5 DEF CompleteCommit
  <2> QED
    BY <1>1, <1>2, <1>3, <2>1, BeginKnows DEF HandlerKnows
<1> QED
  BY <1>4, <1>5

LEMMA HandlerKnowsStep ==
  ASSUME Scheduling, ScheduleStep, NEW w \in Worker, HandlerStep(w), NEW v \in Worker
  PROVE  HandlerKnows(v)'
<1> USE DEF Scheduling, ScheduleInv, ScheduleTypeOK, Refers, TypeOK
<1>1. CASE v # w
  <2>1. CASE StartRead(w) \/ CompleteRead(w) \/ FailRead(w)
    BY <1>1, <2>1, KnowsSame DEF StartRead, CompleteRead, FailRead, LoadRun, vars
  <2>2. CASE StartCommit(w) \/ FindSource(w) \/ AuditFails(w)
    BY <1>1, <2>2, KnowsSame DEF StartCommit, FindSource, AuditFails, Proceed, vars
  <2>3. CASE CompleteCommit(w) \/ FailCommit(w) \/ HandlerFails(w)
    BY <1>1, <2>3, KnowsSame DEF CompleteCommit, FailCommit, HandlerFails, HandlerReturns,
           HandlerRaises, Goto
  <2> QED
    BY <2>1, <2>2, <2>3 DEF HandlerStep
<1>2. CASE StartRead(w) \/ CompleteRead(w) \/ FailRead(w)
  BY <1>1, <1>2, LoadKnows DEF StartRead, CompleteRead, FailRead, Executing, vars
<1>3. CASE StartCommit(w) \/ FindSource(w) \/ AuditFails(w)
  BY <1>1, <1>3, ProceedKnows DEF StartCommit, FindSource, AuditFails, Executing, vars
<1>4. CASE CompleteCommit(w)
  BY <1>1, <1>4, CompletionKnown
<1>5. CASE FailCommit(w) \/ HandlerFails(w)
  <2>1. worker'[w].pc = "failed" /\ stage'[w] = Begin
    BY <1>5 DEF FailCommit, HandlerFails, HandlerRaises, Goto, Thread
  <2> QED
    BY <1>1, <2>1, BeginKnows, KnowsNothing
<1> QED
  BY <1>2, <1>3, <1>4, <1>5 DEF HandlerStep

LEMMA RunJobKnows ==
  ASSUME Scheduling, ScheduleStep, NEW w \in Worker, RunJob(w) \/ RunJobFails(w), NEW v \in Worker
  PROVE  HandlerKnows(v)'
<1>1. stage' = stage
  BY DEF RunJob, RunJobFails, scheduleVars
<1>2. /\ \A u \in Worker \ {w} : worker'[u] = worker[u]
      /\ worker[w].pc # "execute"
      /\ worker'[w].pc \in {"recheck", "completed"} =>
           worker[w].pc \in {"recheck", "completed"} /\ worker'[w].key = worker[w].key
  BY RunJobMoves DEF RunJob, RunJobFails, Scheduling
<1>3. CASE v # w
  BY <1>1, <1>2, <1>3, KnowsSame
<1>4. HandlerKnows(w)
  BY DEF Scheduling, ScheduleInv, HandlersKnow
<1>5. stage'[w] = Begin
  BY <1>1, <1>2, <1>4 DEF HandlerKnows
<1>6. CASE worker'[w].pc \in {"recheck", "completed"}
  <2>1. worker[w].pc \in {"recheck", "completed"} /\ worker'[w].key = worker[w].key
    BY <1>2, <1>6
  <2>2. TheRun(w)' \in finished' \/ ~Kept(TheRun(w))'
    BY <1>4, <2>1, KnowledgeLasts DEF HandlerKnows
  <2> QED
    BY <1>3, <1>5, <1>6, <2>2, BeginKnows DEF HandlerKnows
<1>7. CASE worker'[w].pc \notin {"recheck", "completed"}
  BY <1>3, <1>5, <1>7, BeginKnows, KnowsNothing
<1> QED
  BY <1>6, <1>7

LEMMA HandlersKnowStep == Scheduling /\ ScheduleStep => HandlersKnow'
<1> SUFFICES ASSUME Scheduling, ScheduleStep, NEW v \in Worker PROVE HandlerKnows(v)'
  BY DEF HandlersKnow
<1>1. CASE worker' = worker /\ stage' = stage
  BY <1>1, KnowsSame
<1>2. ASSUME NEW c \in Client, RequestStep(c) PROVE worker' = worker /\ stage' = stage
  <2>1. CASE ServeSchedules(c)
    BY <2>1 DEF ServeSchedules, StatusCommit, DispatchCommit, DispatchAdvance, NextJob, CreateJob,
           KnownJob, EnqueueJob, MarkFailed, CreateSelect, CreateInsert, AnswerDuplicate, Enqueue, vars
  <2>2. CASE JobRequest(c) \/ FailJobRequest(c) \/ FailJob(c)
    BY <2>2 DEF JobRequest, FailJobRequest, FailJob, CancelRead, RetryCheck, RequestFails,
           scheduleVars
  <2>3. CASE ServeJobRequest(c)
    BY <2>3 DEF ServeJobRequest, CancelCommit, RetryRead, RetryCommit, Enqueue, scheduleVars
  <2> QED
    BY <1>2, <2>1, <2>2, <2>3 DEF RequestStep, StatusRead, RunNow, DispatchSelect, DispatchRefused,
       vars
<1>3. CASE UNCHANGED <<vars, scheduleVars>>
  BY <1>1, <1>3 DEF vars, scheduleVars
<1>4. ASSUME NEW s \in Schedule, CreateSchedule(s) \/ DeleteSchedule(s)
      PROVE  worker' = worker /\ stage' = stage
  BY <1>4 DEF CreateSchedule, DeleteSchedule, vars
<1>5. CASE Tick \/ DeleteDataset
  BY <1>1, <1>5 DEF Tick, DeleteDataset, vars
<1>6. ASSUME NEW p \in Process, CrashSchedules(p) PROVE HandlerKnows(v)'
  <2>1. CASE Home[v] = p
    BY <1>6, <2>1, BeginKnows, KnowsNothing DEF CrashSchedules, Crash, Rest
  <2>2. CASE Home[v] # p
    BY <1>6, <2>2, KnowsSame DEF CrashSchedules, Crash
  <2> QED
    BY <2>1, <2>2
<1> QED
  BY <1>1, <1>2, <1>3, <1>4, <1>5, <1>6, HandlerKnowsStep, RunJobKnows DEF ScheduleStep, ScheduleNext

-----------------------------------------------------------------------------
(* No run is left behind.                                                    *)

\* Who answers for a run: a request, the history, or the table of jobs.
Accounted(r) ==
  \/ \E c \in Client : r \in task[c].todo
  \/ r \in dropped
  \/ Exists(KeyOf(r))

LEMMA AccountedCovers ==
  ASSUME ScheduleTypeOK, NEW r \in Run, run[r] # Null
  PROVE  Accounted(r) <=> \/ \E c \in Client : r \in task[c].todo
                          \/ r \in dropped
                          \/ LostClaim(r)
                          \/ HasJob(r)
BY DEF Accounted, LostClaim, HasJob

LEMMA DroppedGrows == ScheduleStep => dropped \subseteq dropped'
<1> SUFFICES ASSUME ScheduleStep PROVE dropped \subseteq dropped'
  OBVIOUS
<1>1. ASSUME NEW c \in Client, RequestStep(c) PROVE dropped \subseteq dropped'
  <2>1. CASE ServeSchedules(c)
    BY <2>1 DEF ServeSchedules, StatusCommit, DispatchCommit, DispatchAdvance, NextJob, CreateJob,
           KnownJob, EnqueueJob, MarkFailed
  <2> QED
    BY <1>1, <2>1 DEF RequestStep, StatusRead, RunNow, DispatchSelect, FailJob, DispatchRefused,
           JobRequest, ServeJobRequest, FailJobRequest, scheduleVars
<1>2. ASSUME NEW w \in Worker, HandlerStep(w) PROVE dropped' = dropped
  BY <1>2 DEF HandlerStep, StartRead, StartCommit, FindSource, CompleteRead, CompleteCommit,
         AuditFails, FailRead, FailCommit, HandlerFails
<1>3. ASSUME NEW w \in Worker, RunJob(w) \/ RunJobFails(w) PROVE dropped' = dropped
  BY <1>3 DEF RunJob, RunJobFails, scheduleVars
<1>4. CASE UNCHANGED <<vars, scheduleVars>>
  BY <1>4 DEF scheduleVars
<1> QED
  BY <1>1, <1>2, <1>3, <1>4 DEF ScheduleStep, ScheduleNext, Tick, CreateSchedule, DeleteSchedule,
     DeleteDataset, CrashSchedules

\* The row a run found, or lost its claim to, stays.
LEMMA KeyTaken ==
  ASSUME Scheduling, ScheduleStep, NEW r \in Run, run[r] # Null, Exists(KeyOf(r))
  PROVE  Exists(KeyOf(r))'
<1>1. KeyOf(r) \in Key
  BY KeyOfType DEF Scheduling, ScheduleInv
<1>2. KeyOf(r)' = KeyOf(r)
  BY RunsStay, KeyStays
<1>3. PICK k \in Key : k = KeyOf(r)
  BY <1>1
<1>4. Exists(k)'
  BY <1>3, PayloadsStay
<1> QED
  BY <1>2, <1>3, <1>4 DEF Exists

\* A request lets go of a run once it has a job, was marked or is given up.
LEMMA TodoLeaves ==
  ASSUME Scheduling, ScheduleStep, NEW c \in Client, RequestStep(c), NEW r \in task[c].todo,
         r \notin task'[c].todo
  PROVE  r \in dropped' \/ ~Open(r)' \/ Exists(KeyOf(r))
<1> USE DEF Scheduling, ScheduleInv
<1>1. TaskOwns(c) /\ r \in Run /\ task[c].pc \notin {"idle", "claim"}
  BY TodoThere DEF TasksOwn, TaskOwns
<1>2. CASE task' = task
  BY <1>2
<1>3. ASSUME NEW s \in Schedule, NEW q \in Run, RunNow(c, s, q) PROVE FALSE
  BY <1>1, <1>3 DEF RunNow, Idle
<1>4. CASE DispatchSelect(c) \/ DispatchCommit(c) \/ JobRequest(c) \/ ServeJobRequest(c)
             \/ FailJobRequest(c)
  BY <1>1, <1>4 DEF DispatchSelect, DispatchCommit, DispatchAdvance, JobRequest, ServeJobRequest,
         FailJobRequest, Idle
<1>5. ASSUME NEW s \in Schedule, NEW requested, StatusRead(c, s, requested) PROVE task' = task
  BY <1>5 DEF StatusRead
<1>6. ASSUME NEW q \in Run, NextJob(c, q) PROVE FALSE
  BY <1>6 DEF NextJob, ScheduleTypeOK, Task
<1>7. CASE StatusCommit(c) \/ CreateJob(c)
  BY <1>2, <1>7 DEF StatusCommit, CreateJob
<1>8. CASE KnownJob(c) \/ EnqueueJob(c)
  <2>1. r = Item(c)
    BY <1>8, DoneTask DEF KnownJob, EnqueueJob
  <2>2. client[c].pc \in {"duplicate", "enqueue"} /\ Item(c) # Null
    BY <1>8 DEF KnownJob, EnqueueJob, AnswerDuplicate, Enqueue, TasksOwn, TaskOwns
  <2>3. task[c].pc = "jobs"
    BY <1>1, <2>2 DEF TaskOwns, ScheduleTypeOK, Task
  <2>4. client[c].key = KeyOf(r) /\ Exists(client[c].key)
    BY <1>1, <2>1, <2>2, <2>3 DEF TaskOwns, Refers, RequestsRefer
  <2> QED
    BY <2>4
<1>9. CASE FailJob(c)
  <2>1. CASE task' = [task EXCEPT ![c].pc = "mark"]
    BY <2>1 DEF ScheduleTypeOK, Task
  <2>2. CASE run[Item(c)].due = Null /\ dropped' = dropped \union {Item(c)}
    <3>1. task[c].todo = {Item(c)}
      BY <1>1, <1>9, <2>2 DEF FailJob, TaskOwns
    <3> QED
      BY <2>2, <3>1
  <2> QED
    BY <1>9, <2>1, <2>2 DEF FailJob
<1>10. CASE MarkFailed(c)
  <2>1. r = Item(c)
    BY <1>10, DoneTask DEF MarkFailed
  <2>2. CASE ~Kept(r) /\ run' = run
    BY <2>2 DEF Kept, Open
  <2>3. CASE run' = [run EXCEPT ![r].status = "failed"] /\ Kept(r)
    <3>1. run'[r] = [run[r] EXCEPT !.status = "failed"]
      BY <1>1, <2>3 DEF ScheduleTypeOK
    <3>2. run'[r].status = "failed"
      BY <1>1, <2>3, <3>1 DEF ScheduleTypeOK, RunRow, Kept
    <3> QED
      BY <3>2 DEF Open
  <2> QED
    BY <1>10, <2>1, <2>2, <2>3 DEF MarkFailed
<1>11. CASE DispatchRefused(c)
  BY <1>11 DEF DispatchRefused
<1> QED
  BY <1>2, <1>3, <1>4, <1>5, <1>6, <1>7, <1>8, <1>9, <1>10, <1>11 DEF RequestStep, ServeSchedules

\* A run that opens is in the hands of a request, or has its job: the thread that
\* reopens a run executes it.
LEMMA Opens ==
  ASSUME Scheduling, ScheduleStep, NEW r \in Run, ~Open(r), Open(r)'
  PROVE  (\E c \in Client : r \in task'[c].todo) \/ (run[r] # Null /\ Exists(KeyOf(r)))
<1> USE DEF Scheduling, ScheduleInv
<1>1. run' # run /\ run'[r] # run[r]
  BY DEF Open
<1>2. ASSUME NEW S, Cascade(S) PROVE FALSE
  <2>1. run'[r] = [run[r] EXCEPT !.status = "deleted"] /\ run[r] # Null
    BY <1>1, <1>2 DEF Cascade
  <2>2. run'[r].status = "deleted"
    BY <2>1 DEF ScheduleTypeOK, RunRow
  <2> QED
    BY <2>2 DEF Open
<1>3. ASSUME NEW c \in Client, RequestStep(c) PROVE \E d \in Client : r \in task'[d].todo
  <2>1. ASSUME NEW s \in Schedule, NEW q \in Run, RunNow(c, s, q) PROVE r \in task'[c].todo
    BY <1>1, <2>1 DEF RunNow, ScheduleTypeOK, NoTask
  <2>2. CASE DispatchCommit(c)
    BY <1>1, <2>2, DispatchDraws
  <2>3. CASE MarkFailed(c)
    <3>1. run' = [run EXCEPT ![r].status = "failed"] /\ Kept(r)
      BY <1>1, <2>3 DEF MarkFailed, ScheduleTypeOK
    <3>2. run'[r] = [run[r] EXCEPT !.status = "failed"] /\ run[r] \in RunRow
      BY <3>1 DEF ScheduleTypeOK, Kept
    <3>3. run'[r].status = "failed"
      BY <3>2 DEF RunRow
    <3> QED
      BY <3>3 DEF Open
  <2>4. ASSUME NEW s \in Schedule, NEW requested, StatusRead(c, s, requested) PROVE FALSE
    BY <1>1, <2>4 DEF StatusRead
  <2>5. ASSUME NEW q \in Run, NextJob(c, q) PROVE FALSE
    BY <1>1, <2>5 DEF NextJob
  <2>6. ~(StatusCommit(c) \/ CreateJob(c) \/ KnownJob(c) \/ EnqueueJob(c) \/ FailJob(c)
          \/ DispatchRefused(c) \/ DispatchSelect(c))
    BY <1>1 DEF StatusCommit, CreateJob, KnownJob, EnqueueJob, FailJob, DispatchRefused,
           DispatchSelect
  <2>7. ~(JobRequest(c) \/ ServeJobRequest(c) \/ FailJobRequest(c))
    BY <1>1 DEF JobRequest, ServeJobRequest, FailJobRequest, scheduleVars
  <2> QED
    BY <1>3, <2>1, <2>2, <2>3, <2>4, <2>5, <2>6, <2>7 DEF RequestStep, ServeSchedules
<1>4. ASSUME NEW w \in Worker, HandlerStep(w) PROVE run[r] # Null /\ Exists(KeyOf(r))
  <2>1. worker[w].pc = "execute"
    BY <1>4 DEF HandlerStep, StartRead, StartCommit, FindSource, CompleteRead, CompleteCommit,
           AuditFails, FailRead, FailCommit, HandlerFails, HandlerRaises, Executing
  <2>2. ~(StartRead(w) \/ FindSource(w) \/ CompleteRead(w) \/ AuditFails(w) \/ FailRead(w)
          \/ HandlerFails(w))
    BY <1>1 DEF StartRead, FindSource, CompleteRead, AuditFails, FailRead, HandlerFails
  <2>3. PICK status \in RunStatus : Write(w, status)
    BY <1>4, <2>2 DEF HandlerStep, StartCommit, CompleteCommit, FailCommit, RunStatus
  <2>4. r = TheRun(w)
    BY <1>1, <2>3 DEF Write, ScheduleTypeOK
  <2> QED
    BY <2>1, <2>4, RunThere, RowNotNull
<1>5. ~UNCHANGED <<vars, scheduleVars>>
  BY <1>1 DEF scheduleVars
<1>6. ASSUME NEW s \in Schedule, CreateSchedule(s) \/ DeleteSchedule(s) PROVE FALSE
  BY <1>1, <1>2, <1>6 DEF CreateSchedule, DeleteSchedule
<1>7. ~Tick /\ ~DeleteDataset
  BY <1>1, <1>2 DEF Tick, DeleteDataset
<1>8. ASSUME NEW p \in Process, CrashSchedules(p) PROVE FALSE
  BY <1>1, <1>8 DEF CrashSchedules
<1>9. ASSUME NEW w \in Worker, RunJob(w) \/ RunJobFails(w) PROVE FALSE
  BY <1>1, <1>9 DEF RunJob, RunJobFails, scheduleVars
<1> QED
  BY <1>3, <1>4, <1>5, <1>6, <1>7, <1>8, <1>9 DEF ScheduleStep, ScheduleNext

LEMMA NoRunStrandedStep == Scheduling /\ ScheduleStep => NoRunStranded'
<1> SUFFICES ASSUME Scheduling, ScheduleStep, NEW r \in Run, Open(r)' PROVE Accounted(r)'
  <2>1. ASSUME NEW r \in Run, Accounted(r)'
        PROVE  \/ \E c \in Client : r \in task'[c].todo
               \/ r \in dropped'
               \/ LostClaim(r)'
               \/ HasJob(r)'
    BY <2>1 DEF Accounted, LostClaim, HasJob, Exists, KeyOf
  <2> QED
    BY <2>1 DEF NoRunStranded
<1>1. run[r] # Null /\ Exists(KeyOf(r)) => Accounted(r)'
  BY KeyTaken DEF Accounted
<1>2. CASE ~Open(r)
  BY <1>1, <1>2, Opens DEF Accounted
<1>3. CASE Open(r)
  <2>1. run[r] # Null
    BY <1>3 DEF Open
  <2>2. Accounted(r)
    BY <1>3, <2>1, AccountedCovers DEF Scheduling, ScheduleInv, NoRunStranded
  <2>3. CASE r \in dropped \/ Exists(KeyOf(r))
    BY <1>1, <2>1, <2>3, DroppedGrows DEF Accounted
  <2>4. ASSUME NEW c \in Client, r \in task[c].todo PROVE Accounted(r)'
    <3>1. CASE task' = task
      BY <2>4, <3>1 DEF Accounted
    <3>2. ASSUME NEW d \in Client, RequestStep(d) PROVE Accounted(r)'
      <4>1. CASE r \in task'[c].todo
        BY <4>1 DEF Accounted
      <4>2. CASE r \notin task'[c].todo
        <5>1. d = c
          BY <2>4, <3>2, <4>2, OthersKeep
        <5> QED
          BY <1>1, <2>1, <2>4, <3>2, <4>2, <5>1, TodoLeaves DEF Accounted
      <4> QED
        BY <4>1, <4>2
    <3>3. ASSUME NEW p \in Process, CrashSchedules(p) PROVE Accounted(r)'
      <4>1. CASE Home[c] = p
        BY <2>4, <3>3, <4>1 DEF CrashSchedules, Accounted
      <4>2. CASE Home[c] # p
        <5>1. task'[c] = task[c]
          BY <3>3, <4>2 DEF CrashSchedules
        <5> QED
          BY <2>4, <5>1 DEF Accounted
      <4> QED
        BY <4>1, <4>2
    <3>4. ASSUME NEW w \in Worker, HandlerStep(w) PROVE task' = task
      BY <3>4 DEF HandlerStep, StartRead, StartCommit, FindSource, CompleteRead, CompleteCommit,
             AuditFails, FailRead, FailCommit, HandlerFails
    <3>5. ASSUME NEW w \in Worker, RunJob(w) \/ RunJobFails(w) PROVE task' = task
      BY <3>5 DEF RunJob, RunJobFails, scheduleVars
    <3>6. CASE UNCHANGED <<vars, scheduleVars>>
      BY <3>1, <3>6 DEF scheduleVars
    <3>7. ASSUME NEW s \in Schedule, CreateSchedule(s) \/ DeleteSchedule(s) PROVE task' = task
      BY <3>7 DEF CreateSchedule, DeleteSchedule
    <3>8. CASE Tick \/ DeleteDataset
      BY <3>1, <3>8 DEF Tick, DeleteDataset
    <3> QED
      BY <3>1, <3>2, <3>3, <3>4, <3>5, <3>6, <3>7, <3>8 DEF ScheduleStep, ScheduleNext
  <2> QED
    BY <2>2, <2>3, <2>4 DEF Accounted
<1> QED
  BY <1>2, <1>3

-----------------------------------------------------------------------------
(* The theorems.                                                             *)

LEMMA SchedulingInit == ScheduleInit => Scheduling
<1> SUFFICES ASSUME ScheduleInit PROVE Scheduling
  OBVIOUS
<1>1. Init /\ Refers
  BY InitRefers DEF ScheduleInit
<1>2. ScheduleTypeOK
  BY InitScheduleType
<1>3. \A k \in Key : ~Exists(k)
  BY <1>1 DEF Init, Exists
<1>4. TasksOwn /\ HandlersKnow /\ NoRunStranded
  BY <1>1, BeginKnows DEF ScheduleInit, Init, Rest, NoTask, TasksOwn, TaskOwns, Item, HandlersKnow,
     HandlerKnows, NoRunStranded, Open
<1> QED
  BY <1>1, <1>2, <1>3, <1>4 DEF Scheduling, ScheduleInv, PayloadsName

LEMMA SchedulingStep == Scheduling /\ ScheduleStep => Scheduling'
BY ScheduleStepIsJobStep, NextRefers, ScheduleTypeStep, TasksOwnStep, PayloadsNameStep,
   HandlersKnowStep, NoRunStrandedStep DEF Scheduling, ScheduleInv

LEMMA SchedulingAlways == ScheduleSpec => []Scheduling
BY SchedulingInit, SchedulingStep, PTL DEF ScheduleSpec, ScheduleStep

\* The types of the schedules, the runs, the requests and the handlers.
THEOREM ScheduleTypeCorrect == ScheduleSpec => []ScheduleTypeOK
<1>1. Scheduling => ScheduleTypeOK
  BY DEF Scheduling, ScheduleInv
<1> QED
  BY <1>1, SchedulingAlways, PTL

\* The inductive invariant of the schedules.
THEOREM ScheduleInvariant == ScheduleSpec => []ScheduleInv
<1>1. Scheduling => ScheduleInv
  BY DEF Scheduling
<1> QED
  BY <1>1, SchedulingAlways, PTL

\* The schedules use the job service as it is meant to be used: what is proved of
\* Jobs holds of the jobs of scheduled audits, whatever the routes, the dispatchers
\* and the handler do.
THEOREM ScheduleImplementsJobs == ScheduleSpec => Spec
<1>1. ScheduleInit => Init
  BY DEF ScheduleInit
<1> QED
  BY <1>1, SchedulingAlways, ScheduleStepIsJobStep, PTL DEF ScheduleSpec, Spec, ScheduleStep

\* A run that is neither completed nor failed has a request on its way to its job, or
\* the job; otherwise it lost its claim, or a crash or an exception took its job.
THEOREM NoRunLeftBehind == ScheduleSpec => []NoRunStranded
<1>1. Scheduling => NoRunStranded
  BY DEF Scheduling, ScheduleInv
<1> QED
  BY <1>1, SchedulingAlways, PTL

LEMMA CompletedStep ==
  ASSUME Scheduling, ScheduleStep, CompletedJobRan
  PROVE  CompletedJobRan'
<1>1. ASSUME NEW k \in Key, Exists(k)', job'[k].status = "completed"
      PROVE  Exists(k) /\ (runOf[k] \in finished \/ ~Kept(runOf[k]))
  <2>1. Exists(k)
    <3>1. NewRow.status # "completed"
      BY DEF NewRow
    <3>2. ASSUME ~Exists(k) PROVE FALSE
      <4>1. PICK c \in Client : CreateJob(c)
        BY <1>1, <3>2, RowsStay DEF RowsSame
      <4>2. client[c].key = k
        BY <1>1, <3>2, <4>1, CreateJobAdds DEF RowsSame
      <4>3. job'[k] = NewRow
        BY <3>2, <4>1, <4>2 DEF CreateJob, CreateInsert, Exists, Scheduling, Refers, TypeOK
      <4> QED
        BY <1>1, <3>1, <4>3
    <3> QED
      BY <3>2
  <2>2. CASE job[k].status = "completed"
    BY <2>1, <2>2 DEF CompletedJobRan
  <2>3. ASSUME NEW w \in Worker, worker[w].pc = "completed", worker[w].key = k
        PROVE  runOf[k] \in finished \/ ~Kept(runOf[k])
    BY <2>3 DEF Scheduling, ScheduleInv, HandlersKnow, HandlerKnows, TheRun
  <2> QED
    BY <1>1, <2>1, <2>2, <2>3, CompletedBy, ScheduleStepIsJobStep DEF Scheduling
<1>2. ASSUME NEW k \in Key, Exists(k)', job'[k].status = "completed"
      PROVE  runOf'[k] \in finished' \/ ~Kept(runOf[k])'
  <2>1. PICK r \in Run : r = runOf[k] /\ run[r] # Null
    BY <1>1, <1>2 DEF Scheduling, ScheduleInv, PayloadsName
  <2>2. runOf'[k] = r
    BY <1>1, <1>2, <2>1, PayloadsStay
  <2>3. r \in finished' \/ ~Kept(r)'
    BY <1>1, <1>2, <2>1, FinishedGrows, RunsStay, KeyStays
  <2> QED
    BY <2>2, <2>3 DEF Kept
<1> QED
  BY <1>2 DEF CompletedJobRan

\* A completed job is a run whose row said completed, unless the row was deleted.
THEOREM CompletedMeansRan == ScheduleSpec => []CompletedJobRan
<1>1. ScheduleInit => CompletedJobRan
  BY DEF ScheduleInit, Init, CompletedJobRan, Exists
<1> QED
  BY <1>1, CompletedStep, SchedulingAlways, PTL DEF ScheduleSpec, ScheduleStep

-----------------------------------------------------------------------------
(* With row locks an occurrence is claimed once.                             *)

\* A claimed row stays as the claim found it, and no one else claims it; a run's
\* occurrence is behind its schedule's next one, unless that was moved back.
Holds(c, s) == task[c].pc = "claim" /\ s \in DOMAIN task[c].rows
RowsHeld ==
  \A c \in Client, s \in Schedule : Holds(c, s) =>
    /\ There(s) /\ schedule[s].status = "active"
    /\ schedule[s].next = task[c].rows[s] /\ task[c].rows[s] <= task[c].at
    /\ \A d \in Client : Holds(d, s) => d = c
Passed(s, t) == schedule[s] # Null /\ (s \in rewound \/ t < schedule[s].next)
OccurrencesPassed ==
  \A r \in Run : run[r] # Null /\ run[r].due # Null => Passed(run[r].schedule, run[r].due)
Claiming == Scheduling /\ RowsHeld /\ OccurrencesPassed

LEMMA LockedHeld == Postgres => \A s \in Schedule : Locked(s) <=> \E c \in Client : Holds(c, s)
BY DEF Locked, Holds

\* What may happen to the rows of the schedules.
LEMMA ScheduleEffect ==
  ASSUME ScheduleStep
  PROVE  \/ UNCHANGED <<schedule, rewound>>
         \/ \E s \in Schedule : CreateSchedule(s)
         \/ \E S \in SUBSET Schedule :
              Remove(S) /\ rewound' = rewound /\ \A s \in S : ~Locked(s) /\ There(s)
         \/ \E c \in Client : StatusCommit(c) \/ DispatchCommit(c)
<1> DEFINE Goal == \/ UNCHANGED <<schedule, rewound>>
                   \/ \E s \in Schedule : CreateSchedule(s)
                   \/ \E S \in SUBSET Schedule :
                        Remove(S) /\ rewound' = rewound /\ \A s \in S : ~Locked(s) /\ There(s)
                   \/ \E c \in Client : StatusCommit(c) \/ DispatchCommit(c)
<1>1. ASSUME NEW c \in Client, RequestStep(c) PROVE Goal
  <2>1. CASE ServeSchedules(c)
    BY <2>1 DEF ServeSchedules, NextJob, CreateJob, KnownJob, EnqueueJob, MarkFailed
  <2> QED
    BY <1>1, <2>1 DEF RequestStep, StatusRead, RunNow, DispatchSelect, FailJob, DispatchRefused,
           JobRequest, ServeJobRequest, FailJobRequest, scheduleVars
<1>2. ASSUME NEW w \in Worker, HandlerStep(w) PROVE Goal
  BY <1>2 DEF HandlerStep, StartRead, StartCommit, FindSource, CompleteRead, CompleteCommit,
         AuditFails, FailRead, FailCommit, HandlerFails
<1>3. ASSUME NEW w \in Worker, RunJob(w) \/ RunJobFails(w) PROVE Goal
  BY <1>3 DEF RunJob, RunJobFails, scheduleVars
<1>4. ASSUME NEW s \in Schedule, DeleteSchedule(s) PROVE Goal
  <2>1. Remove({s}) /\ rewound' = rewound /\ \A t \in {s} : ~Locked(t) /\ There(t)
    BY <1>4 DEF DeleteSchedule
  <2> QED
    BY <2>1
<1>5. CASE DeleteDataset
  <2>1. PICK S \in SUBSET Schedule : Remove(S) /\ rewound' = rewound /\ \A t \in S : ~Locked(t) /\ There(t)
    BY <1>5 DEF DeleteDataset
  <2> QED
    BY <2>1
<1>6. CASE UNCHANGED <<vars, scheduleVars>>
  BY <1>6 DEF scheduleVars
<1>7. ASSUME NEW p \in Process, Tick \/ CrashSchedules(p) PROVE Goal
  BY <1>7 DEF Tick, CrashSchedules
<1>8. CASE Tick
  BY <1>8 DEF Tick
<1> QED
  BY <1>1, <1>2, <1>3, <1>4, <1>5, <1>6, <1>7, <1>8 DEF ScheduleStep, ScheduleNext

\* The commit of a claim advances the rows it holds, and nothing else.
LEMMA DispatchAdvances ==
  ASSUME Claiming, NEW c \in Client, DispatchCommit(c), NEW s \in Schedule
  PROVE  \/ schedule'[s] = schedule[s] /\ \A r \in Run : run[r] = Null /\ run'[r] # Null => run'[r].schedule # s
         \/ /\ Holds(c, s)
            /\ schedule'[s] = [schedule[s] EXCEPT !.next = NextOccurrence(task[c].at)]
            /\ \A r, q \in Run : /\ run[r] = Null /\ run'[r] # Null /\ run'[r].schedule = s
                                 /\ run[q] = Null /\ run'[q] # Null /\ run'[q].schedule = s
                                 => r = q /\ run'[r].due = schedule[s].next
<1> USE DEF Claiming, Scheduling, ScheduleInv
<1> DEFINE rows == task[c].rows
<1>1. DispatchAdvance(c, task[c].at) /\ task[c].pc = "claim"
  BY DEF DispatchCommit, DispatchAdvance
<1>2. CASE UNCHANGED <<run, schedule>>
  BY <1>2
<1>3. CASE ~UNCHANGED <<run, schedule>>
  <2>1. PICK f \in [DOMAIN rows -> Run] :
          /\ Drawn(c, f)
          /\ run' = [r \in Run |->
               IF \E t \in DOMAIN rows : f[t] = r
                 THEN LET t == CHOOSE t \in DOMAIN rows : f[t] = r IN
                      [schedule |-> t, due |-> rows[t], status |-> "queued"]
                 ELSE run[r]]
    BY <1>1, <1>3 DEF DispatchAdvance
  <2>2. schedule' = [t \in Schedule |->
             IF t \in DOMAIN rows THEN [schedule[t] EXCEPT !.next = NextOccurrence(task[c].at)]
                                  ELSE schedule[t]]
    BY <1>1, <1>3 DEF DispatchAdvance
  <2>3. ASSUME NEW r \in Run, run[r] = Null, run'[r] # Null
        PROVE  \E t \in DOMAIN rows : /\ f[t] = r
                                      /\ run'[r] = [schedule |-> t, due |-> rows[t], status |-> "queued"]
    BY <2>1, <2>3
  <2>4. ASSUME NEW r \in Run, run[r] = Null, run'[r] # Null
        PROVE  /\ run'[r].schedule \in DOMAIN rows
               /\ f[run'[r].schedule] = r
               /\ run'[r].due = rows[run'[r].schedule]
    <3>1. PICK t \in DOMAIN rows :
            f[t] = r /\ run'[r] = [schedule |-> t, due |-> rows[t], status |-> "queued"]
      BY <2>3, <2>4
    <3> QED
      BY <3>1
  <2>5. CASE s \in DOMAIN rows
    <3>1. Holds(c, s) /\ rows[s] = schedule[s].next
      BY <1>1, <2>5 DEF Holds, RowsHeld
    <3> QED
      BY <2>2, <2>4, <2>5, <3>1
  <2>6. CASE s \notin DOMAIN rows
    BY <2>2, <2>4, <2>6
  <2> QED
    BY <2>5, <2>6
<1> QED
  BY <1>2, <1>3

\* next_run_at only grows, but for a status request that moves it back; a row in a
\* claim changes by the commit of that claim only.
LEMMA RowsOnward ==
  ASSUME Claiming, Postgres, ScheduleStep, NEW s \in Schedule, schedule[s] # Null
  PROVE  /\ schedule'[s] # Null
         /\ s \in rewound' \/ schedule[s].next <= schedule'[s].next
         /\ s \in rewound => s \in rewound'
         /\ \A c \in Client : Holds(c, s) => schedule'[s] = schedule[s] \/ DispatchCommit(c)
<1> USE DEF Claiming, Scheduling, ScheduleInv, ScheduleTypeOK
<1>1. schedule[s] \in ScheduleRow /\ schedule[s].next \in Nat /\ ScheduleTypeOK'
  BY ScheduleTypeStep DEF ScheduleRow
<1>2. CASE schedule'[s] = schedule[s] /\ rewound' = rewound
  BY <1>1, <1>2
<1>3. ASSUME NEW t \in Schedule, CreateSchedule(t) PROVE schedule'[s] = schedule[s] /\ rewound' = rewound
  BY <1>3 DEF CreateSchedule
<1>4. ASSUME NEW S \in SUBSET Schedule, Remove(S), rewound' = rewound, \A t \in S : ~Locked(t) /\ There(t),
             s \in S
      PROVE  /\ schedule'[s] # Null /\ schedule[s].next <= schedule'[s].next
             /\ \A c \in Client : ~Holds(c, s)
  <2>1. schedule'[s] = [schedule[s] EXCEPT !.status = "deleted"]
    BY <1>4 DEF Remove
  <2>2. schedule'[s] \in ScheduleRow /\ schedule'[s].next = schedule[s].next
    BY <1>1, <2>1 DEF ScheduleRow
  <2>3. schedule'[s] # Null
    BY <2>2, ScheduleAssumption
  <2> QED
    BY <1>1, <1>4, <2>2, <2>3, LockedHeld
<1>5. ASSUME NEW c \in Client, StatusCommit(c)
      PROVE  \/ schedule'[s] = schedule[s] /\ (s \in rewound => s \in rewound')
             \/ /\ schedule'[s] # Null
                /\ s \in rewound' \/ schedule[s].next <= schedule'[s].next
                /\ s \in rewound => s \in rewound'
                /\ \A d \in Client : ~Holds(d, s)
  <2> DEFINE old == patch[c].old
             new == patch[c].new
             u == patch[c].schedule
             row == [status |-> IF new.status = old.status THEN schedule[u].status ELSE new.status,
                     next   |-> IF new.next = old.next THEN schedule[u].next ELSE new.next]
  <2>1. u \in Schedule /\ old \in ScheduleRow /\ new \in ScheduleRow
    BY <1>5 DEF StatusCommit, Patch
  <2>2. \/ UNCHANGED <<schedule, rewound>>
        \/ /\ schedule' = [schedule EXCEPT ![u] = row]
           /\ rewound' = IF row.next < schedule[u].next THEN rewound \union {u} ELSE rewound
    BY <1>5 DEF StatusCommit
  <2>3. ASSUME schedule' = [schedule EXCEPT ![u] = row],
               rewound' = IF row.next < schedule[u].next THEN rewound \union {u} ELSE rewound,
               u = s
        PROVE  /\ schedule'[s] # Null
               /\ s \in rewound' \/ schedule[s].next <= schedule'[s].next
               /\ s \in rewound => s \in rewound'
               /\ \A d \in Client : ~Holds(d, s)
    <3>1. row \in ScheduleRow /\ row.next \in Nat /\ schedule'[s] = row
      BY <1>1, <2>1, <2>3 DEF ScheduleRow
    <3>2. schedule'[s] # Null
      BY <3>1, ScheduleAssumption
    <3>3. s \in rewound' \/ schedule[s].next <= schedule'[s].next
      BY <1>1, <2>3, <3>1
    <3>4. ~Locked(s)
      BY <1>5, <2>3 DEF StatusCommit
    <3> QED
      BY <2>3, <3>2, <3>3, <3>4, LockedHeld
  <2>4. ASSUME schedule' = [schedule EXCEPT ![u] = row], u # s,
               rewound' = IF row.next < schedule[u].next THEN rewound \union {u} ELSE rewound
        PROVE  /\ schedule'[s] = schedule[s]
               /\ s \in rewound => s \in rewound'
    BY <2>4
  <2> QED
    BY <1>1, <2>2, <2>3, <2>4
<1>6. ASSUME NEW c \in Client, DispatchCommit(c)
      PROVE  /\ rewound' = rewound
             /\ schedule'[s] # Null
             /\ schedule[s].next <= schedule'[s].next
             /\ \A d \in Client : Holds(d, s) => schedule'[s] = schedule[s] \/ d = c
  <2>1. rewound' = rewound
    BY <1>6 DEF DispatchCommit, DispatchAdvance
  <2>2. CASE schedule'[s] = schedule[s]
    BY <1>1, <2>1, <2>2
  <2>3. CASE /\ Holds(c, s)
             /\ schedule'[s] = [schedule[s] EXCEPT !.next = NextOccurrence(task[c].at)]
    <3>1. task[c].at \in Nat /\ schedule[s].next <= task[c].at
      BY <2>3, ClaimRows, TimeType DEF RowsHeld
    <3>2. schedule'[s] \in ScheduleRow /\ schedule'[s].next = task[c].at + 1
      BY <1>1, <2>3, <3>1 DEF ScheduleRow, NextOccurrence
    <3>3. schedule'[s] # Null
      BY <3>2, ScheduleAssumption
    <3>4. \A d \in Client : Holds(d, s) => d = c
      BY <2>3 DEF RowsHeld
    <3> QED
      BY <1>1, <2>1, <3>1, <3>2, <3>3, <3>4
  <2> QED
    BY <1>6, <2>2, <2>3, DispatchAdvances
<1>7. CASE UNCHANGED <<schedule, rewound>>
  BY <1>2, <1>7
<1>8. CASE \E t \in Schedule : CreateSchedule(t)
  BY <1>2, <1>3, <1>8
<1>9. CASE \E S \in SUBSET Schedule :
             Remove(S) /\ rewound' = rewound /\ \A t \in S : ~Locked(t) /\ There(t)
  <2>1. PICK S \in SUBSET Schedule :
          Remove(S) /\ rewound' = rewound /\ \A t \in S : ~Locked(t) /\ There(t)
    BY <1>9
  <2>2. CASE s \in S
    BY <1>4, <2>1, <2>2
  <2>3. CASE s \notin S
    BY <1>2, <2>1, <2>3 DEF Remove
  <2> QED
    BY <2>2, <2>3
<1>10. CASE \E c \in Client : StatusCommit(c)
  <2>1. CASE schedule'[s] = schedule[s] /\ (s \in rewound => s \in rewound')
    BY <1>1, <2>1
  <2> QED
    BY <1>5, <1>10, <2>1
<1>11. CASE \E c \in Client : DispatchCommit(c)
  BY <1>6, <1>11
<1> QED
  BY <1>7, <1>8, <1>9, <1>10, <1>11, ScheduleEffect

\* A request that claims has just selected, or claimed before and is not committing.
LEMMA ClaimFrom ==
  ASSUME Scheduling, ScheduleStep, NEW c \in Client, task'[c].pc = "claim"
  PROVE  task'[c] = task[c] \/ DispatchSelect(c)
<1> USE DEF Scheduling, ScheduleInv, ScheduleTypeOK
<1>1. ASSUME NEW d \in Client, RequestStep(d) PROVE task'[c] = task[c] \/ DispatchSelect(c)
  <2>1. CASE d # c
    BY <1>1, <2>1, OthersKeep
  <2>2. ASSUME NEW s \in Schedule, NEW r \in Run, RunNow(c, s, r) PROVE FALSE
    BY <2>2 DEF RunNow, NoTask
  <2>3. ~DispatchCommit(c)
    BY DispatchDraws
  <2>4. ~(KnownJob(c) \/ EnqueueJob(c) \/ MarkFailed(c))
    BY DoneTask DEF KnownJob, EnqueueJob, MarkFailed
  <2>5. ASSUME NEW r \in Run, NextJob(c, r) PROVE FALSE
    BY <2>5 DEF NextJob, Task
  <2>6. ~FailJob(c)
    BY DEF FailJob, NoTask, Task
  <2>7. ~DispatchRefused(c)
    BY DEF DispatchRefused, NoTask
  <2>8. ASSUME NEW s \in Schedule, NEW requested, StatusRead(c, s, requested) PROVE task' = task
    BY <2>8 DEF StatusRead
  <2>9. CASE StatusCommit(c) \/ CreateJob(c) \/ JobRequest(c) \/ ServeJobRequest(c) \/ FailJobRequest(c)
    BY <2>9 DEF StatusCommit, CreateJob, JobRequest, ServeJobRequest, FailJobRequest, scheduleVars
  <2> QED
    BY <1>1, <2>1, <2>2, <2>3, <2>4, <2>5, <2>6, <2>7, <2>8, <2>9 DEF RequestStep, ServeSchedules
<1>2. ASSUME NEW p \in Process, CrashSchedules(p) PROVE task'[c] = task[c]
  BY <1>2 DEF CrashSchedules, NoTask
<1>3. ASSUME NEW w \in Worker, HandlerStep(w) PROVE task' = task
  BY <1>3 DEF HandlerStep, StartRead, StartCommit, FindSource, CompleteRead, CompleteCommit,
         AuditFails, FailRead, FailCommit, HandlerFails
<1>4. ASSUME NEW w \in Worker, RunJob(w) \/ RunJobFails(w) PROVE task' = task
  BY <1>4 DEF RunJob, RunJobFails, scheduleVars
<1>5. CASE UNCHANGED <<vars, scheduleVars>>
  BY <1>5 DEF scheduleVars
<1>6. ASSUME NEW s \in Schedule, CreateSchedule(s) \/ DeleteSchedule(s) PROVE task' = task
  BY <1>6 DEF CreateSchedule, DeleteSchedule
<1>7. CASE Tick \/ DeleteDataset
  BY <1>7 DEF Tick, DeleteDataset
<1> QED
  BY <1>1, <1>2, <1>3, <1>4, <1>5, <1>6, <1>7 DEF ScheduleStep, ScheduleNext

LEMMA Selected ==
  ASSUME Claiming, NEW c \in Client, DispatchSelect(c), NEW s \in Schedule, Holds(c, s)'
  PROVE  /\ schedule' = schedule
         /\ There(s) /\ schedule[s].status = "active" /\ ~Locked(s)
         /\ task'[c].rows[s] = schedule[s].next /\ schedule[s].next <= task'[c].at
<1> USE DEF Claiming, Scheduling, ScheduleInv, ScheduleTypeOK
<1>1. PICK rows \in SUBSET Schedule :
        /\ Oldest(rows, {t \in Schedule : Due(t) /\ ~Locked(t)})
        /\ Claim(c, rows)
  BY DEF DispatchSelect
<1>2. task'[c].rows = [t \in rows |-> schedule[t].next] /\ task'[c].at = now
  BY <1>1 DEF Claim, NoTask
<1>3. s \in rows
  BY <1>2 DEF Holds
<1>4. Due(s) /\ ~Locked(s)
  BY <1>1, <1>3 DEF Oldest
<1> QED
  BY <1>2, <1>3, <1>4 DEF Due, DispatchSelect

LEMMA RowsHeldStep == Postgres /\ Claiming /\ ScheduleStep => RowsHeld'
<1> SUFFICES ASSUME Postgres, Claiming, ScheduleStep,
                    NEW c \in Client, NEW s \in Schedule, Holds(c, s)'
             PROVE  /\ There(s)' /\ schedule'[s].status = "active"
                    /\ schedule'[s].next = task'[c].rows[s] /\ task'[c].rows[s] <= task'[c].at
                    /\ \A d \in Client : Holds(d, s)' => d = c
  BY DEF RowsHeld
<1> USE DEF Claiming
<1>1. ASSUME NEW d \in Client, Holds(d, s)'
      PROVE  (Holds(d, s) /\ task'[d] = task[d]) \/ (DispatchSelect(d) /\ ~Locked(s))
  BY <1>1, ClaimFrom, Selected DEF Holds
<1>2. ASSUME NEW d \in Client, NEW e \in Client, d # e, Holds(d, s)', Holds(e, s)' PROVE FALSE
  <2>1. CASE Holds(d, s) /\ Holds(e, s)
    BY <1>2, <2>1 DEF RowsHeld
  <2>2. ASSUME NEW f \in Client, NEW g \in Client, DispatchSelect(f), ~Locked(s), Holds(g, s) PROVE FALSE
    BY <2>2, LockedHeld
  <2>3. CASE DispatchSelect(d) /\ DispatchSelect(e)
    <3>1. RequestStep(d)
      BY <2>3 DEF RequestStep
    <3>2. task'[e] = task[e]
      BY <1>2, <3>1, OthersKeep
    <3> QED
      BY <1>2, <2>3, <3>2 DEF DispatchSelect, Idle, Holds
  <2> QED
    BY <1>1, <1>2, <2>1, <2>2, <2>3
<1>3. CASE Holds(c, s) /\ task'[c] = task[c]
  <2>1. schedule[s] # Null
    BY <1>3 DEF RowsHeld, There
  <2>2. ~DispatchCommit(c)
    BY <1>3, DispatchDraws DEF Holds, Scheduling, ScheduleInv
  <2>3. schedule'[s] = schedule[s]
    BY <1>3, <2>1, <2>2, RowsOnward
  <2> QED
    BY <1>2, <1>3, <2>3 DEF RowsHeld, There
<1>4. CASE DispatchSelect(c)
  BY <1>2, <1>4, Selected DEF There
<1> QED
  BY <1>1, <1>3, <1>4

\* A run comes from "run now" or from the commit of a claim.
LEMMA NewRun ==
  ASSUME Scheduling, ScheduleStep, NEW r \in Run, run[r] = Null, run'[r] # Null
  PROVE  run'[r].due = Null \/ \E c \in Client : DispatchCommit(c)
<1> USE DEF Scheduling, ScheduleInv, ScheduleTypeOK
<1>1. run' # run
  OBVIOUS
<1>2. ASSUME NEW S, Cascade(S) PROVE FALSE
  BY <1>2 DEF Cascade
<1>3. ASSUME NEW c \in Client, RequestStep(c), ~DispatchCommit(c) PROVE run'[r].due = Null
  <2>1. ASSUME NEW s \in Schedule, NEW q \in Run, RunNow(c, s, q) PROVE run'[r].due = Null
    BY <2>1 DEF RunNow
  <2>2. ~MarkFailed(c)
    BY <1>1 DEF MarkFailed, Kept
  <2>3. ASSUME NEW s \in Schedule, NEW requested, StatusRead(c, s, requested) PROVE FALSE
    BY <1>1, <2>3 DEF StatusRead
  <2>4. ASSUME NEW q \in Run, NextJob(c, q) PROVE FALSE
    BY <1>1, <2>4 DEF NextJob
  <2>5. ~(StatusCommit(c) \/ CreateJob(c) \/ KnownJob(c) \/ EnqueueJob(c) \/ FailJob(c)
          \/ DispatchRefused(c) \/ DispatchSelect(c))
    BY <1>1 DEF StatusCommit, CreateJob, KnownJob, EnqueueJob, FailJob, DispatchRefused,
           DispatchSelect
  <2>6. ~(JobRequest(c) \/ ServeJobRequest(c) \/ FailJobRequest(c))
    BY <1>1 DEF JobRequest, ServeJobRequest, FailJobRequest, scheduleVars
  <2> QED
    BY <1>3, <2>1, <2>2, <2>3, <2>4, <2>5, <2>6 DEF RequestStep, ServeSchedules
<1>4. ASSUME NEW w \in Worker, HandlerStep(w) PROVE FALSE
  <2>1. worker[w].pc = "execute"
    BY <1>4 DEF HandlerStep, StartRead, StartCommit, FindSource, CompleteRead, CompleteCommit,
           AuditFails, FailRead, FailCommit, HandlerFails, HandlerRaises, Executing
  <2>2. run[TheRun(w)] # Null
    BY <2>1, RunThere, RowNotNull
  <2>3. ASSUME NEW status, Write(w, status) PROVE FALSE
    BY <2>2, <2>3 DEF Write
  <2> QED
    BY <1>1, <1>4, <2>3 DEF HandlerStep, StartRead, StartCommit, FindSource, CompleteRead,
       CompleteCommit, AuditFails, FailRead, FailCommit, HandlerFails
<1>5. ~UNCHANGED <<vars, scheduleVars>>
  BY <1>1 DEF scheduleVars
<1>6. ASSUME NEW s \in Schedule, CreateSchedule(s) \/ DeleteSchedule(s) PROVE FALSE
  BY <1>1, <1>2, <1>6 DEF CreateSchedule, DeleteSchedule
<1>7. ~Tick /\ ~DeleteDataset
  BY <1>1, <1>2 DEF Tick, DeleteDataset
<1>8. ASSUME NEW p \in Process, CrashSchedules(p) PROVE FALSE
  BY <1>1, <1>8 DEF CrashSchedules
<1>9. ASSUME NEW w \in Worker, RunJob(w) \/ RunJobFails(w) PROVE FALSE
  BY <1>1, <1>9 DEF RunJob, RunJobFails, scheduleVars
<1> QED
  BY <1>3, <1>4, <1>5, <1>6, <1>7, <1>8, <1>9 DEF ScheduleStep, ScheduleNext

\* A run drawn for an occurrence is the run of a claimed row.
LEMMA NewOccurrence ==
  ASSUME Claiming, ScheduleStep, NEW r \in Run, run[r] = Null, run'[r] # Null, run'[r].due # Null
  PROVE  \E c \in Client, s \in Schedule :
           /\ s = run'[r].schedule
           /\ Holds(c, s) /\ run'[r].due = schedule[s].next
           /\ schedule'[s] = [schedule[s] EXCEPT !.next = NextOccurrence(task[c].at)]
           /\ rewound' = rewound
           /\ \A q \in Run : run[q] = Null /\ run'[q] # Null /\ run'[q].schedule = s => q = r
<1>1. PICK c \in Client : DispatchCommit(c)
  BY NewRun DEF Claiming
<1>2. PICK s \in Schedule : s = run'[r].schedule
  BY ScheduleTypeStep DEF Claiming, ScheduleTypeOK, RunRow
<1>3. rewound' = rewound
  BY <1>1 DEF DispatchCommit, DispatchAdvance
<1>4. /\ Holds(c, s)
      /\ schedule'[s] = [schedule[s] EXCEPT !.next = NextOccurrence(task[c].at)]
      /\ \A x, q \in Run : /\ run[x] = Null /\ run'[x] # Null /\ run'[x].schedule = s
                           /\ run[q] = Null /\ run'[q] # Null /\ run'[q].schedule = s
                           => x = q /\ run'[x].due = schedule[s].next
  BY <1>1, <1>2, DispatchAdvances
<1>5. /\ run'[r].due = schedule[s].next
      /\ \A q \in Run : run[q] = Null /\ run'[q] # Null /\ run'[q].schedule = s => q = r
  BY <1>2, <1>4
<1> QED
  BY <1>2, <1>3, <1>4, <1>5

LEMMA OccurrencesStep == Postgres /\ Claiming /\ ScheduleStep => OccurrencesPassed'
<1> SUFFICES ASSUME Postgres, Claiming, ScheduleStep,
                    NEW r \in Run, run'[r] # Null, run'[r].due # Null
             PROVE  Passed(run[r].schedule, run[r].due)'
  BY DEF OccurrencesPassed
<1> USE DEF Claiming, Scheduling, ScheduleInv
<1>1. PICK s \in Schedule, t \in Nat : s = run'[r].schedule /\ t = run'[r].due
  BY ScheduleTypeStep, TimeType DEF ScheduleTypeOK, RunRow
<1>2. CASE run[r] # Null
  <2>1. run[r].schedule = s /\ run[r].due = t
    BY <1>1, <1>2, RunsStay DEF SameRun
  <2>2. Passed(s, t)
    <3>1. run[r].due # Null
      BY <1>1, <2>1
    <3>2. Passed(run[r].schedule, run[r].due)
      BY <1>2, <3>1 DEF OccurrencesPassed
    <3> QED
      BY <2>1, <3>2
  <2>3. schedule[s] # Null /\ schedule'[s] # Null /\ schedule[s].next \in Nat /\ schedule'[s].next \in Nat
    BY <2>2, RowsOnward, ScheduleTypeStep DEF Passed, ScheduleTypeOK, ScheduleRow
  <2>4. Passed(s, t)'
    BY <2>2, <2>3, RowsOnward DEF Passed
  <2> QED
    BY <1>1, <2>4 DEF Passed
<1>3. CASE run[r] = Null
  <2>1. PICK c \in Client :
          /\ Holds(c, s) /\ t = schedule[s].next
          /\ schedule'[s] = [schedule[s] EXCEPT !.next = NextOccurrence(task[c].at)]
    BY <1>1, <1>3, NewOccurrence
  <2>2. schedule[s] \in ScheduleRow /\ task[c].at \in Nat /\ t <= task[c].at
    BY <2>1, ClaimRows, TimeType DEF RowsHeld, There, ScheduleTypeOK
  <2>3. schedule'[s] \in ScheduleRow /\ schedule'[s].next = task[c].at + 1
    BY <2>1, <2>2 DEF ScheduleRow, NextOccurrence
  <2>4. schedule'[s] # Null /\ t < schedule'[s].next
    BY <1>1, <2>2, <2>3, ScheduleAssumption
  <2> QED
    BY <1>1, <2>4 DEF Passed
<1> QED
  BY <1>2, <1>3

LEMMA ClaimingAlways == Postgres => (ScheduleSpec => []Claiming)
<1> SUFFICES ASSUME Postgres PROVE ScheduleSpec => []Claiming
  OBVIOUS
<1>1. ScheduleInit => Claiming
  BY SchedulingInit DEF ScheduleInit, Claiming, RowsHeld, Holds, NoTask, OccurrencesPassed
<1>2. Claiming /\ ScheduleStep => Claiming'
  BY SchedulingStep, RowsHeldStep, OccurrencesStep DEF Claiming
<1> QED
  BY <1>1, <1>2, PTL DEF ScheduleSpec, ScheduleStep

LEMMA ClaimedOnceStep == Postgres /\ Claiming /\ ScheduleStep /\ ClaimedOnce => ClaimedOnce'
<1> SUFFICES ASSUME Postgres, Claiming, ScheduleStep, ClaimedOnce,
                    NEW r \in Run, NEW q \in Run, SameOccurrence(r, q)', r # q
             PROVE  run'[r].schedule \in rewound'
  BY DEF ClaimedOnce
<1> USE DEF Claiming, Scheduling, ScheduleInv
<1>1. PICK s \in Schedule, t \in Nat :
        /\ run'[r] # Null /\ run'[r].schedule = s /\ run'[r].due = t
        /\ run'[q] # Null /\ run'[q].schedule = s /\ run'[q].due = t /\ t # Null
  BY ScheduleTypeStep, TimeType DEF ScheduleTypeOK, RunRow, SameOccurrence
<1>2. ASSUME NEW u \in Run, run[u] # Null, u = r \/ u = q
      PROVE  run[u].schedule = s /\ run[u].due = t /\ Passed(s, t)
  BY <1>1, <1>2, RunsStay DEF SameRun, OccurrencesPassed
<1>3. CASE run[r] # Null /\ run[q] # Null
  <2>1. s \in rewound /\ schedule[s] # Null
    BY <1>1, <1>2, <1>3 DEF ClaimedOnce, SameOccurrence, Passed
  <2> QED
    BY <1>1, <2>1, RowsOnward
<1>4. ASSUME NEW u \in Run, NEW v \in Run, u = r \/ u = q, v = r \/ v = q, u # v,
             run[u] = Null
      PROVE  s \in rewound'
  <2>1. /\ t = schedule[s].next /\ rewound' = rewound
        /\ \A x \in Run : run[x] = Null /\ run'[x] # Null /\ run'[x].schedule = s => x = u
    <3>1. run'[u] # Null /\ run'[u].schedule = s /\ run'[u].due = t /\ run'[u].due # Null
      BY <1>1, <1>4
    <3>2. PICK x \in Schedule :
            /\ x = run'[u].schedule
            /\ run'[u].due = schedule[x].next
            /\ rewound' = rewound
            /\ \A y \in Run : run[y] = Null /\ run'[y] # Null /\ run'[y].schedule = x => y = u
      BY <1>4, <3>1, NewOccurrence
    <3> QED
      BY <3>1, <3>2
  <2>2. run[v] # Null
    BY <1>1, <1>4, <2>1
  <2>3. Passed(s, t)
    BY <1>2, <1>4, <2>2
  <2>4. ~(t < schedule[s].next)
    BY <2>1
  <2> QED
    BY <2>1, <2>3, <2>4 DEF Passed
<1> QED
  BY <1>1, <1>3, <1>4

\* Where the database locks rows, an occurrence has one run, however many dispatchers
\* claim at once, unless a status request moved the schedule's next_run_at back.
THEOREM OccurrencesClaimedOnce == Postgres => (ScheduleSpec => []ClaimedOnce)
<1> SUFFICES ASSUME Postgres PROVE ScheduleSpec => []ClaimedOnce
  OBVIOUS
<1>1. ScheduleInit => ClaimedOnce
  BY DEF ScheduleInit, ClaimedOnce, SameOccurrence
<1>2. Claiming /\ ScheduleStep /\ ClaimedOnce => ClaimedOnce'
  BY ClaimedOnceStep
<1> QED
  BY <1>1, <1>2, ClaimingAlways, PTL DEF ScheduleSpec, ScheduleStep

\* Where the database locks rows, the runs of a claim are of active schedules: a pause
\* or a deletion waits for the claim that has selected the schedule.
THEOREM ActiveClaimed == Postgres => (ScheduleSpec => OnlyActiveClaimed)
<1> SUFFICES ASSUME Postgres PROVE ScheduleSpec => OnlyActiveClaimed
  OBVIOUS
<1>1. Claiming /\ ScheduleStep => \A r \in Run : ClaimStep(r)
  BY NewOccurrence DEF ClaimStep, RowsHeld, Claiming
<1> QED
  BY <1>1, ClaimingAlways, PTL DEF ScheduleSpec, ScheduleStep, OnlyActiveClaimed
=============================================================================
