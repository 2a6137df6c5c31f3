----------------------------- MODULE JobsProofs -----------------------------
(* Theorems about Jobs, for any keys, threads, requests, processes and      *)
(* bounds.                                                                   *)
EXTENDS Jobs, FiniteSetTheorems, TLAPS

\* What a flush writes is a row.
LEMMA FlushType ==
  ASSUME NEW cur \in Row, NEW old \in Row, NEW new \in Row
  PROVE  Flush(cur, old, new) \in Row
BY DEF Flush, Row

LEMMA AssignedType ==
  ASSUME NEW row \in Row, NEW s \in Update
  PROVE  Assigned(row, s) \in Row
BY DEF Assigned, Row, Update, ProgressAt, Status, Terminal

LEMMA NewRowType == NewRow \in Row
BY DEF NewRow, Row, Status

LEMMA RowIsNotNull == \A r \in Row : r # Null
BY JobsAssumption

-----------------------------------------------------------------------------
(* Type correctness.                                                         *)

LEMMA RestType == Rest \in Thread /\ Rest \in Request
BY DEF Rest, Thread, Request, WorkerPC, ClientPC

LEMMA GotoType ==
  ASSUME worker \in [Worker -> Thread], NEW w \in Worker, NEW pc \in WorkerPC,
         Goto(w, pc)
  PROVE  worker' \in [Worker -> Thread]
BY DEF Goto, Thread

LEMMA FinishType ==
  ASSUME worker \in [Worker -> Thread], NEW w \in Worker, Finish(w)
  PROVE  worker' \in [Worker -> Thread]
BY RestType DEF Finish

LEMMA NextPCs ==
  /\ DOMAIN ProceedTo = {"fetch", "check", "recheck"}
  /\ \A pc \in DOMAIN ProceedTo : ProceedTo[pc] \in Update
  /\ DOMAIN UpdatedTo = {"starting", "validating", "processing"}
  /\ \A pc \in DOMAIN UpdatedTo : UpdatedTo[pc] \in WorkerPC
BY DEF ProceedTo, UpdatedTo, WorkerPC, Update

LEMMA InitTypeOK == Init => TypeOK
BY RestType DEF Init, TypeOK

LEMMA WorkerTypeOK ==
  ASSUME TypeOK, NEW w \in Worker, WorkerStep(w),
         worker[w].pc # "idle" => worker[w].key \in Key /\ Exists(worker[w].key)
  PROVE  TypeOK'
<1> USE DEF TypeOK
<1>1. CASE Dequeue(w)
  <2>1. Home[w] \in Process
    BY JobsAssumption
  <2>2. Head(queue[Home[w]]) \in Key /\ Tail(queue[Home[w]]) \in Seq(Key)
    BY <1>1, <2>1 DEF Dequeue
  <2>3. [pc |-> "fetch", key |-> Head(queue[Home[w]]), row |-> Null] \in Thread
    BY <2>2 DEF Thread, WorkerPC
  <2> QED
    BY <1>1, <2>1, <2>2, <2>3 DEF Dequeue
<1>2. CASE Observe(w)
  <2>1. worker' \in [Worker -> Thread]
    BY <1>2, NextPCs, GotoType, FinishType DEF Observe, WorkerPC
  <2> QED
    BY <1>2, <2>1 DEF Observe
<1>3. CASE UpdateRead(w)
  BY <1>3 DEF UpdateRead, Thread, Update
<1>4. CASE UpdateCommit(w)
  <2>1. /\ worker[w].key \in Key
        /\ job[worker[w].key] \in Row
        /\ worker[w].row \in Row
        /\ worker[w].pc \in Update
    BY <1>4 DEF UpdateCommit, Thread, Update, Exists
  <2>2. Flush(job[worker[w].key], worker[w].row,
              Assigned(worker[w].row, worker[w].pc)) \in Row
    BY <2>1, FlushType, AssignedType
  <2>3. job' \in [Key -> Row \union {Null}]
    BY <1>4, <2>1, <2>2 DEF UpdateCommit
  <2>4. worker' \in [Worker -> Thread]
    BY <1>4, NextPCs, GotoType, FinishType DEF UpdateCommit
  <2> QED
    BY <1>4, <2>3, <2>4 DEF UpdateCommit
<1>5. CASE HandlerReturns(w)
  BY <1>5 DEF HandlerReturns, Goto, Thread, WorkerPC
<1>6. CASE HandlerRaises(w)
  BY <1>6 DEF HandlerRaises, Goto, Thread, WorkerPC, Update
<1> QED
  BY <1>1, <1>2, <1>3, <1>4, <1>5, <1>6 DEF WorkerStep

-----------------------------------------------------------------------------
(* Rows never disappear, and everything under way refers to one.             *)

Refers == TypeOK /\ QueueRefers /\ ThreadsRefer /\ RequestsRefer

LEMMA InitRefers == Init => Refers
<1> SUFFICES ASSUME Init PROVE Refers
  OBVIOUS
<1>1. TypeOK
  BY InitTypeOK
<1>2. QueueRefers
  BY DEF Init, QueueRefers
<1>3. ThreadsRefer /\ RequestsRefer
  BY DEF Init, ThreadsRefer, RequestsRefer, Rest
<1> QED
  BY <1>1, <1>2, <1>3 DEF Refers

\* What an UPDATE leaves in the table is a row.
LEMMA CommitKeepsRows ==
  ASSUME Refers, NEW k \in Key, Exists(k), NEW old \in Row, NEW new \in Row,
         job' = [job EXCEPT ![k] = Flush(@, old, new)]
  PROVE  /\ job' \in [Key -> Row \union {Null}]
         /\ \A i \in Key : Exists(i) => Exists(i)'
<1>1. Flush(job[k], old, new) \in Row
  BY FlushType DEF Refers, TypeOK, Exists
<1>2. Flush(job[k], old, new) # Null
  BY <1>1, RowIsNotNull
<1> QED
  BY <1>1, <1>2 DEF Refers, TypeOK, Exists

\* A step that keeps the rows and leaves a part of the state alone keeps what
\* that part refers to.
LEMMA KeepsRefers ==
  ASSUME Refers, \A i \in Key : Exists(i) => Exists(i)'
  PROVE  /\ UNCHANGED queue => QueueRefers'
         /\ UNCHANGED worker => ThreadsRefer'
         /\ UNCHANGED client => RequestsRefer'
<1>1. UNCHANGED queue => QueueRefers'
  <2> SUFFICES ASSUME UNCHANGED queue, NEW p \in Process, NEW i \in DOMAIN queue'[p]
               PROVE  Exists(queue[p][i])'
    BY DEF QueueRefers
  <2>1. queue[p] \in Seq(Key) /\ i \in DOMAIN queue[p]
    BY DEF Refers, TypeOK
  <2>2. queue[p][i] \in Key /\ Exists(queue[p][i])
    BY <2>1 DEF Refers, QueueRefers
  <2> QED
    BY <2>2 DEF Exists
<1>2. UNCHANGED worker => ThreadsRefer'
  BY DEF Refers, ThreadsRefer
<1>3. UNCHANGED client => RequestsRefer'
  BY DEF Refers, RequestsRefer
<1> QED
  BY <1>1, <1>2, <1>3

\* A submitted call goes to the end of the queue.
LEMMA AppendRefers ==
  ASSUME Refers, NEW p \in Process, NEW k \in Key, Exists(k), UNCHANGED job,
         queue' = [queue EXCEPT ![p] = Append(@, k)]
  PROVE  queue' \in [Process -> Seq(Key)] /\ QueueRefers'
<1>1. queue[p] \in Seq(Key)
  BY DEF Refers, TypeOK
<1>2. queue' \in [Process -> Seq(Key)]
  BY <1>1 DEF Refers, TypeOK
<1>3. ASSUME NEW q \in Process, NEW i \in DOMAIN queue'[q]
      PROVE  Exists(queue[q][i])'
  <2>1. CASE q = p
    <3>1. queue'[q] = Append(queue[p], k)
      BY <2>1 DEF Refers, TypeOK
    <3>2. CASE i \in DOMAIN queue[p]
      BY <1>1, <3>1, <3>2 DEF Refers, QueueRefers, Exists
    <3>3. CASE i \notin DOMAIN queue[p]
      BY <1>1, <1>3, <3>1, <3>3 DEF Exists
    <3> QED
      BY <3>2, <3>3
  <2>2. CASE q # p
    BY <1>3, <2>2 DEF Refers, TypeOK, QueueRefers, Exists
  <2> QED
    BY <2>1, <2>2
<1> QED
  BY <1>2, <1>3 DEF QueueRefers

LEMMA WorkerRefers ==
  ASSUME Refers, NEW w \in Worker, WorkerStep(w)
  PROVE  Refers'
<1>0. TypeOK'
  BY WorkerTypeOK DEF Refers, ThreadsRefer
<1>1. CASE Dequeue(w)
  <2>1. Home[w] \in Process /\ queue[Home[w]] \in Seq(Key)
    BY JobsAssumption DEF Refers, TypeOK
  <2>2. \A i \in Key : Exists(i) => Exists(i)'
    BY <1>1 DEF Dequeue, Exists
  <2>3. Head(queue[Home[w]]) \in Key /\ Exists(Head(queue[Home[w]]))
    BY <1>1, <2>1 DEF Dequeue, Refers, QueueRefers
  <2>4. ThreadsRefer'
    BY <1>1, <2>2, <2>3 DEF Dequeue, Refers, TypeOK, ThreadsRefer
  <2>5. ASSUME NEW p \in Process, NEW i \in DOMAIN queue'[p]
        PROVE  Exists(queue[p][i])'
    <3>1. CASE p = Home[w]
      <4>1. queue'[p] = Tail(queue[p])
        BY <1>1, <3>1, <2>1 DEF Dequeue, Refers, TypeOK
      <4>2. queue'[p][i] = queue[p][i + 1] /\ i + 1 \in DOMAIN queue[p]
        BY <4>1, <2>1, <2>5, <3>1, <1>1 DEF Dequeue
      <4> QED
        BY <1>1, <4>2 DEF Dequeue, Refers, QueueRefers, Exists
    <3>2. CASE p # Home[w]
      BY <1>1, <2>5, <3>2 DEF Dequeue, Refers, TypeOK, QueueRefers, Exists
    <3> QED
      BY <3>1, <3>2
  <2>6. RequestsRefer'
    BY <1>1, <2>2, KeepsRefers DEF Dequeue
  <2> QED
    BY <1>0, <2>4, <2>5, <2>6 DEF Refers, QueueRefers
<1>2. CASE UpdateCommit(w)
  <2>1. /\ worker[w].key \in Key /\ Exists(worker[w].key)
        /\ worker[w].row \in Row
        /\ worker[w].pc \in Update
    BY <1>2 DEF UpdateCommit, Refers, TypeOK, ThreadsRefer, Thread, Update
  <2>2. Assigned(worker[w].row, worker[w].pc) \in Row
    BY <2>1, AssignedType
  <2>3. \A i \in Key : Exists(i) => Exists(i)'
    BY <1>2, <2>1, <2>2, CommitKeepsRows DEF UpdateCommit
  <2>4. QueueRefers' /\ RequestsRefer'
    BY <1>2, <2>3, KeepsRefers DEF UpdateCommit
  <2>5. ThreadsRefer'
    <3>1. CASE worker[w].pc \in DOMAIN UpdatedTo
      BY <1>2, <2>1, <2>3, <3>1, NextPCs
         DEF UpdateCommit, Goto, Refers, TypeOK, ThreadsRefer, Thread
    <3>2. CASE worker[w].pc \notin DOMAIN UpdatedTo
      BY <1>2, <2>3, <3>2 DEF UpdateCommit, Finish, Rest, Refers, TypeOK, ThreadsRefer
    <3> QED
      BY <3>1, <3>2
  <2> QED
    BY <1>0, <2>4, <2>5 DEF Refers
<1>3. CASE Observe(w) \/ UpdateRead(w) \/ HandlerReturns(w) \/ HandlerRaises(w)
  <2>1. UNCHANGED <<job, queue, client>>
    BY <1>3 DEF Observe, UpdateRead, HandlerReturns, HandlerRaises
  <2>2. \A i \in Key : Exists(i) => Exists(i)'
    BY <2>1 DEF Exists
  <2>3. QueueRefers' /\ RequestsRefer'
    BY <2>1, <2>2, KeepsRefers
  <2>4. ThreadsRefer'
    <3>1. CASE Observe(w)
      BY <3>1, <2>2, NextPCs
         DEF Observe, Goto, Finish, Rest, Refers, TypeOK, ThreadsRefer, Thread
    <3>2. CASE UpdateRead(w)
      BY <3>2, <2>2 DEF UpdateRead, Refers, TypeOK, ThreadsRefer, Thread
    <3>3. CASE HandlerReturns(w) \/ HandlerRaises(w)
      BY <3>3, <2>2
         DEF HandlerReturns, HandlerRaises, Goto, Refers, TypeOK, ThreadsRefer, Thread
    <3> QED
      BY <1>3, <3>1, <3>2, <3>3
  <2> QED
    BY <1>0, <2>3, <2>4 DEF Refers
<1> QED
  BY <1>1, <1>2, <1>3 DEF WorkerStep

\* What a request's next state refers to.
LEMMA AskRefers ==
  ASSUME Refers, NEW c \in Client, NEW pc \in ClientPC, NEW k \in Key,
         NEW row \in Row \union {Null}, Ask(c, pc, k, row),
         \A i \in Key : Exists(i) => Exists(i)',
         pc # "insert" => Exists(k)',
         pc = "cancel" => row \in Row /\ row.status \notin Terminal
  PROVE  client' \in [Client -> Request] /\ RequestsRefer'
BY DEF Ask, Request, Refers, TypeOK, RequestsRefer

LEMMA AnswerRefers ==
  ASSUME Refers, NEW c \in Client, Answer(c), \A i \in Key : Exists(i) => Exists(i)'
  PROVE  client' \in [Client -> Request] /\ RequestsRefer'
BY RestType DEF Answer, Rest, Refers, TypeOK, RequestsRefer

LEMMA ArriveRefers ==
  ASSUME Refers, NEW c \in Client, Arrive(c)
  PROVE  Refers'
<1>1. PICK k \in Key : CreateSelect(c, k) \/ CancelRead(c, k) \/ RetryCheck(c, k)
  BY DEF Arrive
<1>2. UNCHANGED <<job, queue, worker, crashes, lost>> /\ retries' \in Nat
  BY <1>1 DEF CreateSelect, CancelRead, RetryCheck, Refers, TypeOK
<1>3. \A i \in Key : Exists(i) => Exists(i)'
  BY <1>2 DEF Exists
<1>4. client' \in [Client -> Request] /\ RequestsRefer'
  <2>1. CASE CreateSelect(c, k)
    <3>1. CASE Exists(k)
      BY <1>3, <2>1, <3>1, AskRefers DEF CreateSelect, ClientPC, Exists
    <3>2. CASE ~Exists(k)
      BY <1>3, <2>1, <3>2, AskRefers DEF CreateSelect, ClientPC, Exists
    <3> QED
      BY <3>1, <3>2
  <2>2. CASE CancelRead(c, k)
    BY <1>3, <2>2, AskRefers DEF CancelRead, ClientPC, Exists, Refers, TypeOK
  <2>3. CASE RetryCheck(c, k)
    BY <1>3, <2>3, AskRefers DEF RetryCheck, ClientPC, Exists
  <2> QED
    BY <1>1, <2>1, <2>2, <2>3
<1>5. QueueRefers' /\ ThreadsRefer'
  BY <1>2, <1>3, KeepsRefers
<1> QED
  BY <1>2, <1>4, <1>5 DEF Refers, TypeOK

LEMMA RequeuedType == ASSUME NEW row \in Row PROVE Requeued(row) \in Row
<1>1. "queued" \in Status /\ 0 \in 0..100
  BY DEF Status
<1> QED
  BY <1>1 DEF Requeued, Row

LEMMA ServeRefers ==
  ASSUME Refers, NEW c \in Client, Serve(c)
  PROVE  Refers'
<1>1. CASE CreateInsert(c)
  <2>1. PICK k \in Key : k = client[c].key
    BY <1>1 DEF CreateInsert, Refers, RequestsRefer
  <2>2. CASE job[k] = Null
    <3>1. job' = [job EXCEPT ![k] = NewRow] /\ Ask(c, "enqueue", k, Null)
      BY <1>1, <2>1, <2>2 DEF CreateInsert
    <3>2. job' \in [Key -> Row \union {Null}] /\ \A i \in Key : Exists(i) => Exists(i)'
      BY <2>1, <3>1, NewRowType, RowIsNotNull DEF Refers, TypeOK, Exists
    <3>3. Exists(k)'
      BY <2>1, <3>1, NewRowType, RowIsNotNull DEF Refers, TypeOK, Exists
    <3>4. client' \in [Client -> Request] /\ RequestsRefer'
      BY <2>1, <3>1, <3>2, <3>3, AskRefers DEF ClientPC
    <3> QED
      BY <1>1, <3>2, <3>4, KeepsRefers DEF CreateInsert, Refers, TypeOK
  <2>3. CASE job[k] # Null
    <3>1. UNCHANGED <<job, queue, worker>>
      BY <1>1, <2>1, <2>3 DEF CreateInsert
    <3>2. \A i \in Key : Exists(i) => Exists(i)'
      BY <3>1 DEF Exists
    <3>3. client' \in [Client -> Request] /\ RequestsRefer'
      BY <1>1, <2>1, <2>3, <3>2, AskRefers DEF CreateInsert, ClientPC, Exists
    <3> QED
      BY <1>1, <3>1, <3>2, <3>3, KeepsRefers DEF CreateInsert, Refers, TypeOK
  <2> QED
    BY <2>2, <2>3
<1>2. CASE AnswerDuplicate(c)
  <2>1. \A i \in Key : Exists(i) => Exists(i)'
    BY <1>2 DEF AnswerDuplicate, Exists
  <2> QED
    BY <1>2, <2>1, AnswerRefers, KeepsRefers DEF AnswerDuplicate, Refers, TypeOK
<1>3. CASE Enqueue(c)
  <2>1. client[c].key \in Key /\ Exists(client[c].key) /\ Home[c] \in Process
    BY <1>3, JobsAssumption DEF Enqueue, Refers, RequestsRefer
  <2>2. \A i \in Key : Exists(i) => Exists(i)'
    BY <1>3 DEF Enqueue, Exists
  <2>3. queue' \in [Process -> Seq(Key)] /\ QueueRefers'
    BY <1>3, <2>1, AppendRefers DEF Enqueue
  <2> QED
    BY <1>3, <2>2, <2>3, AnswerRefers, KeepsRefers DEF Enqueue, Refers, TypeOK
<1>4. CASE CancelCommit(c)
  <2>1. client[c].key \in Key /\ Exists(client[c].key) /\ client[c].row \in Row
    BY <1>4 DEF CancelCommit, Refers, RequestsRefer
  <2>2. [client[c].row EXCEPT !.status = "cancelled"] \in Row
    BY <2>1 DEF Row, Status, Terminal
  <2>3. job' \in [Key -> Row \union {Null}] /\ \A i \in Key : Exists(i) => Exists(i)'
    BY <1>4, <2>1, <2>2, CommitKeepsRows DEF CancelCommit
  <2> QED
    BY <1>4, <2>3, AnswerRefers, KeepsRefers DEF CancelCommit, Refers, TypeOK
<1>5. CASE RetryRead(c)
  <2>1. client[c].key \in Key /\ Exists(client[c].key)
    BY <1>5 DEF RetryRead, Refers, RequestsRefer
  <2>2. \A i \in Key : Exists(i) => Exists(i)'
    BY <1>5 DEF RetryRead, Exists
  <2>3. client' \in [Client -> Request] /\ RequestsRefer'
    BY <1>5, <2>1, <2>2 DEF RetryRead, Request, Refers, TypeOK, RequestsRefer
  <2> QED
    BY <1>5, <2>2, <2>3, KeepsRefers DEF RetryRead, Refers, TypeOK
<1>6. CASE RetryCommit(c)
  <2>1. client[c].key \in Key /\ Exists(client[c].key) /\ client[c].row \in Row
    BY <1>6 DEF RetryCommit, Refers, RequestsRefer, TypeOK, Request
  <2>2. job' \in [Key -> Row \union {Null}] /\ \A i \in Key : Exists(i) => Exists(i)'
    BY <1>6, <2>1, RequeuedType, CommitKeepsRows DEF RetryCommit
  <2>3. client' \in [Client -> Request] /\ RequestsRefer'
    BY <1>6, <2>1, <2>2, AskRefers DEF RetryCommit, ClientPC
  <2> QED
    BY <1>6, <2>2, <2>3, KeepsRefers DEF RetryCommit, Refers, TypeOK
<1> QED
  BY <1>1, <1>2, <1>3, <1>4, <1>5, <1>6 DEF Serve

LEMMA CrashRefers ==
  ASSUME Refers, NEW p \in Process, Crash(p)
  PROVE  Refers'
<1>1. UNCHANGED <<job, retries>> /\ crashes' \in Nat /\ lost' \subseteq Key
  BY DEF Crash, Refers, TypeOK
<1>2. queue' \in [Process -> Seq(Key)] /\ QueueRefers'
  BY DEF Crash, Refers, TypeOK, QueueRefers, Exists
<1>3. worker' \in [Worker -> Thread] /\ ThreadsRefer'
  BY RestType DEF Crash, Rest, Refers, TypeOK, ThreadsRefer, Exists
<1>4. client' \in [Client -> Request] /\ RequestsRefer'
  BY RestType DEF Crash, Rest, Refers, TypeOK, RequestsRefer, Exists
<1> QED
  BY <1>1, <1>2, <1>3, <1>4 DEF Refers, TypeOK

LEMMA RequestFailsRefers ==
  ASSUME Refers, NEW c \in Client, RequestFails(c)
  PROVE  Refers'
<1>1. UNCHANGED <<job, queue, worker, retries>> /\ crashes' \in Nat /\ lost' \subseteq Key
  BY DEF RequestFails, Refers, TypeOK
<1>2. \A i \in Key : Exists(i) => Exists(i)'
  BY <1>1 DEF Exists
<1>3. client' \in [Client -> Request] /\ RequestsRefer'
  BY <1>2, AnswerRefers DEF RequestFails
<1> QED
  BY <1>1, <1>2, <1>3, KeepsRefers DEF Refers, TypeOK

LEMMA ThreadFailsRefers ==
  ASSUME Refers, NEW w \in Worker, ThreadFails(w)
  PROVE  Refers'
<1>1. worker[w].key \in Key /\ UNCHANGED <<job, queue, client, retries>>
  BY DEF ThreadFails, Refers, ThreadsRefer
<1>2. \A i \in Key : Exists(i) => Exists(i)'
  BY <1>1 DEF Exists
<1>3. worker' \in [Worker -> Thread]
  BY GotoType, FinishType DEF ThreadFails, WorkerPC, Update, Refers, TypeOK
<1>4. ThreadsRefer'
  <2> SUFFICES ASSUME NEW x \in Worker
               PROVE  /\ worker'[x].pc # "idle" => worker'[x].key \in Key /\ Exists(worker[x].key)'
                      /\ worker'[x].row # Null => worker'[x].pc \in Update
    BY DEF ThreadsRefer
  <2>1. \/ worker'[x] = worker[x]
        \/ worker'[x] = Rest
        \/ worker'[x].key = worker[w].key /\ worker'[x].row = Null
    BY DEF ThreadFails, Goto, Finish, Refers, TypeOK, Thread
  <2>2. Exists(worker[w].key)
    BY DEF ThreadFails, Refers, ThreadsRefer
  <2>3. CASE worker'[x] = worker[x]
    BY <1>2, <2>3 DEF Refers, ThreadsRefer, Exists
  <2>4. CASE worker'[x] = Rest
    BY <2>4 DEF Rest
  <2>5. CASE worker'[x].key = worker[w].key /\ worker'[x].row = Null
    BY <1>1, <1>2, <2>2, <2>5 DEF Exists
  <2> QED
    BY <2>1, <2>3, <2>4, <2>5
<1>5. crashes' \in Nat /\ lost' \subseteq Key
  BY <1>1 DEF ThreadFails, Refers, TypeOK
<1> QED
  BY <1>1, <1>2, <1>3, <1>4, <1>5, KeepsRefers DEF Refers, TypeOK

LEMMA NextRefers == Refers /\ [Next]_vars => Refers'
<1> SUFFICES ASSUME Refers, [Next]_vars PROVE Refers'
  OBVIOUS
<1>1. CASE UNCHANGED vars
  BY <1>1 DEF vars, Refers, TypeOK, QueueRefers, ThreadsRefer, RequestsRefer, Exists
<1>2. CASE Next
  BY <1>2, WorkerRefers, ThreadFailsRefers, ArriveRefers, ServeRefers, RequestFailsRefers,
     CrashRefers DEF Next
<1> QED
  BY <1>1, <1>2

\* Type correctness, and everything under way refers to a row that exists:
\* run_job never finds its row missing.
THEOREM TypeCorrect == Spec => []TypeOK
<1>1. Refers => TypeOK
  BY DEF Refers
<1> QED
  BY <1>1, InitRefers, NextRefers, PTL DEF Spec

-----------------------------------------------------------------------------
(* No job is stranded.  Whoever carries an unsettled job keeps it until it    *)
(* writes a final state or reads one, so the argument follows one key k and   *)
(* asks of each step who is bound to k afterwards.                           *)

\* A step of thread w takes nothing from the others that are bound to k.
LEMMA ThreadLeavesOthersBound ==
  ASSUME TypeOK, NEW w \in Worker, NEW k \in Key, Bound(k), ~BoundThread(w, k),
         UNCHANGED <<queue, client>>, \A x \in Worker \ {w} : worker'[x] = worker[x]
  PROVE  Bound(k)'
BY DEF Bound, BoundThread, Running, InQueue, Enqueuing

\* Nor does a step of request c.
LEMMA RequestLeavesOthersBound ==
  ASSUME TypeOK, NEW c \in Client, NEW k \in Key, Bound(k), ~Enqueuing(c, k),
         UNCHANGED <<queue, worker>>, \A x \in Client \ {c} : client'[x] = client[x]
  PROVE  Bound(k)'
BY DEF Bound, BoundThread, Running, InQueue, Enqueuing

\* After Goto the thread is bound to its key: it has loaded nothing.
LEMMA GotoBinds ==
  ASSUME TypeOK, NEW w \in Worker, NEW k \in Key, worker[w].key = k,
         NEW pc \in WorkerPC \ {"idle"}, Goto(w, pc)
  PROVE  BoundThread(w, k)'
BY DEF Goto, BoundThread, Running, TypeOK, Thread

LEMMA WorkerBound ==
  ASSUME Refers, UnsettledBound, NEW w \in Worker, WorkerStep(w),
         NEW k \in Key, Unsettled(k)', k \notin lost
  PROVE  Bound(k)'
<1> USE DEF Refers
<1>1. worker[w].key # k => ~BoundThread(w, k)
  BY DEF BoundThread, Running
<1>2. ASSUME UNCHANGED job PROVE Bound(k)
  BY <1>2 DEF Unsettled, Exists, UnsettledBound
<1>3. ASSUME NEW pc \in WorkerPC \ {"idle"}, Goto(w, pc), UNCHANGED <<queue, client>>,
             worker[w].key # k => Bound(k)
      PROVE  Bound(k)'
  <2>1. CASE worker[w].key = k
    <3>1. BoundThread(w, k)'
      BY <1>3, <2>1, GotoBinds
    <3> QED
      BY <3>1 DEF Bound
  <2>2. CASE worker[w].key # k
    <3>1. \A x \in Worker \ {w} : worker'[x] = worker[x]
      BY <1>3 DEF Goto, TypeOK
    <3> QED
      BY <1>1, <1>3, <2>2, <3>1, ThreadLeavesOthersBound
  <2> QED
    BY <2>1, <2>2
<1>4. CASE Dequeue(w)
  <2>1. Home[w] \in Process /\ queue[Home[w]] \in Seq(Key) /\ queue[Home[w]] # <<>>
    BY <1>4, JobsAssumption DEF Dequeue, TypeOK
  <2>2. Bound(k)
    BY <1>2, <1>4 DEF Dequeue
  <2>3. CASE \E p \in Process : InQueue(p, k)
    <3>0. PICK p \in Process : InQueue(p, k)
      BY <2>3
    <3>1. PICK i \in DOMAIN queue[p] : queue[p][i] = k
      BY <3>0 DEF InQueue
    <3>2. CASE p = Home[w] /\ i = 1
      <4>1. worker'[w] = [pc |-> "fetch", key |-> k, row |-> Null]
        BY <1>4, <2>1, <3>1, <3>2 DEF Dequeue, TypeOK
      <4> QED
        BY <4>1 DEF Bound, BoundThread, Running, Terminal
    <3>3. CASE p = Home[w] /\ i # 1
      <4>1. queue'[p] = Tail(queue[p])
        BY <1>4, <3>3, <2>1 DEF Dequeue, TypeOK
      <4>2. i - 1 \in DOMAIN queue'[p] /\ queue'[p][i - 1] = k
        BY <2>1, <3>1, <3>3, <4>1
      <4> QED
        BY <4>2 DEF Bound, InQueue
    <3>4. CASE p # Home[w]
      <4>1. queue'[p] = queue[p]
        BY <1>4, <3>4 DEF Dequeue, TypeOK
      <4> QED
        BY <3>1, <4>1 DEF Bound, InQueue
    <3> QED
      BY <3>2, <3>3, <3>4
  <2>4. CASE \E c \in Client : Enqueuing(c, k)
    BY <1>4, <2>4 DEF Dequeue, Bound, Enqueuing
  <2>5. CASE \E x \in Worker : BoundThread(x, k)
    <3>1. PICK x \in Worker : BoundThread(x, k)
      BY <2>5
    <3>2. worker'[x] = worker[x]
      BY <1>4, <3>1 DEF Dequeue, BoundThread, Running, TypeOK
    <3> QED
      BY <3>1, <3>2 DEF Bound, BoundThread, Running
  <2> QED
    BY <2>2, <2>3, <2>4, <2>5 DEF Bound
<1>5. CASE Observe(w)
  <2>1. Bound(k) /\ Unsettled(k)
    BY <1>2, <1>5 DEF Observe, Unsettled, Exists
  <2>2. CASE Goto(w, ProceedTo[worker[w].pc])
    <3>1. ProceedTo[worker[w].pc] \in WorkerPC \ {"idle"}
      BY <1>5, NextPCs DEF Observe, WorkerPC, Update
    <3> QED
      BY <1>3, <1>5, <2>1, <2>2, <3>1 DEF Observe
  <2>3. CASE Finish(w) /\ job[worker[w].key].status = "cancelled"
    <3>1. ~BoundThread(w, k)
      BY <1>1, <2>1, <2>3 DEF Unsettled, Terminal
    <3>2. \A x \in Worker \ {w} : worker'[x] = worker[x]
      BY <2>3 DEF Finish, TypeOK
    <3> QED
      BY <1>5, <2>1, <3>1, <3>2, ThreadLeavesOthersBound DEF Observe
  <2> QED
    BY <1>5, <2>2, <2>3 DEF Observe
<1>6. CASE UpdateRead(w)
  <2>1. Bound(k) /\ Unsettled(k)
    BY <1>2, <1>6 DEF UpdateRead, Unsettled, Exists
  <2>2. CASE worker[w].key = k
    <3>1. worker'[w].pc = worker[w].pc /\ worker'[w].key = k /\ worker'[w].row = job[k]
      BY <1>6, <2>2 DEF UpdateRead, TypeOK, Thread
    <3> QED
      BY <1>6, <2>1, <3>1
         DEF UpdateRead, Update, Bound, BoundThread, Running, Unsettled
  <2>3. CASE worker[w].key # k
    <3>1. \A x \in Worker \ {w} : worker'[x] = worker[x]
      BY <1>6 DEF UpdateRead, TypeOK
    <3> QED
      BY <1>1, <1>6, <2>1, <2>3, <3>1, ThreadLeavesOthersBound DEF UpdateRead
  <2> QED
    BY <2>2, <2>3
<1>7. CASE UpdateCommit(w)
  <2>1. /\ worker[w].key \in Key /\ Exists(worker[w].key)
        /\ worker[w].row \in Row /\ worker[w].pc \in Update
    BY <1>7 DEF UpdateCommit, ThreadsRefer, TypeOK, Thread, Update
  <2>2. worker[w].key # k => job'[k] = job[k]
    BY <1>7, <2>1 DEF UpdateCommit, TypeOK
  <2>3. worker[w].key # k => Bound(k)
    BY <2>2 DEF Unsettled, Exists, UnsettledBound
  <2>4. CASE worker[w].pc \in DOMAIN UpdatedTo
    <3>1. UpdatedTo[worker[w].pc] \in WorkerPC \ {"idle"}
      BY <2>4 DEF UpdatedTo, WorkerPC, Update
    <3> QED
      BY <1>3, <1>7, <2>3, <2>4, <3>1 DEF UpdateCommit
  <2>5. CASE worker[w].pc \notin DOMAIN UpdatedTo
    <3>1. worker[w].pc \in Terminal
      BY <2>1, <2>5, NextPCs DEF Update, Terminal
    <3>2. \A x \in Worker \ {w} : worker'[x] = worker[x]
      BY <1>7, <2>5 DEF UpdateCommit, Finish, TypeOK
    <3>3. CASE worker[w].key # k
      BY <1>1, <1>7, <2>3, <3>2, <3>3, ThreadLeavesOthersBound DEF UpdateCommit
    <3>4. CASE worker[w].key = k
      <4>1. job'[k] = Flush(job[k], worker[w].row, Assigned(worker[w].row, worker[w].pc))
        BY <1>7, <2>1, <3>4 DEF UpdateCommit, TypeOK
      <4>2. worker[w].row.status = worker[w].pc /\ job'[k].status = job[k].status
        BY <3>1, <4>1 DEF Flush, Assigned, Unsettled
      <4>3. ~BoundThread(w, k)
        BY <1>7, <3>1, <4>2 DEF UpdateCommit, BoundThread
      <4>4. Bound(k)
        BY <2>1, <3>4, <4>2 DEF Unsettled, Exists, UnsettledBound
      <4> QED
        BY <1>7, <3>2, <4>3, <4>4, ThreadLeavesOthersBound DEF UpdateCommit
    <3> QED
      BY <3>3, <3>4
  <2> QED
    BY <2>4, <2>5
<1>8. CASE HandlerReturns(w)
  <2>1. "recheck" \in WorkerPC \ {"idle"}
    BY DEF WorkerPC
  <2> QED
    BY <1>2, <1>3, <1>8, <2>1 DEF HandlerReturns
<1>9. CASE HandlerRaises(w)
  <2>1. "failed" \in WorkerPC \ {"idle"}
    BY DEF WorkerPC, Update
  <2> QED
    BY <1>2, <1>3, <1>9, <2>1 DEF HandlerRaises
<1> QED
  BY <1>4, <1>5, <1>6, <1>7, <1>8, <1>9 DEF WorkerStep

LEMMA ArriveBound ==
  ASSUME Refers, UnsettledBound, NEW c \in Client, Arrive(c),
         NEW k \in Key, Unsettled(k)', k \notin lost
  PROVE  Bound(k)'
<1> USE DEF Refers
<1>1. /\ UNCHANGED <<job, queue, worker>>
      /\ client[c].pc = "idle"
      /\ \A x \in Client \ {c} : client'[x] = client[x]
  BY DEF Arrive, CreateSelect, CancelRead, RetryCheck, Ask, TypeOK
<1>2. Bound(k) /\ ~Enqueuing(c, k)
  BY <1>1 DEF Unsettled, Exists, UnsettledBound, Enqueuing
<1> QED
  BY <1>1, <1>2, RequestLeavesOthersBound

LEMMA ServeBound ==
  ASSUME Refers, UnsettledBound, NEW c \in Client, Serve(c),
         NEW k \in Key, Unsettled(k)', k \notin lost
  PROVE  Bound(k)'
<1> USE DEF Refers
<1>0. UNCHANGED worker /\ \A x \in Client \ {c} : client'[x] = client[x]
  BY DEF Serve, CreateInsert, AnswerDuplicate, Enqueue, CancelCommit, RetryRead,
         RetryCommit, Ask, Answer, TypeOK
<1>1. CASE CreateInsert(c)
  <2>1. CASE client[c].key = k /\ job[k] = Null
    <3>1. Ask(c, "enqueue", k, Null)
      BY <1>1, <2>1 DEF CreateInsert
    <3> QED
      BY <3>1 DEF Ask, Bound, Enqueuing, TypeOK
  <2>2. CASE ~(client[c].key = k /\ job[k] = Null)
    <3>1. job'[k] = job[k]
      BY <1>1, <2>2 DEF CreateInsert, TypeOK
    <3>2. Bound(k) /\ ~Enqueuing(c, k)
      BY <1>1, <3>1 DEF CreateInsert, Unsettled, Exists, UnsettledBound, Enqueuing
    <3> QED
      BY <1>0, <1>1, <3>2, RequestLeavesOthersBound DEF CreateInsert
  <2> QED
    BY <2>1, <2>2
<1>2. CASE AnswerDuplicate(c) \/ RetryRead(c)
  <2>1. UNCHANGED <<job, queue>> /\ client[c].pc # "enqueue"
    BY <1>2 DEF AnswerDuplicate, RetryRead
  <2>2. Bound(k) /\ ~Enqueuing(c, k)
    BY <2>1 DEF Unsettled, Exists, UnsettledBound, Enqueuing
  <2> QED
    BY <1>0, <2>1, <2>2, RequestLeavesOthersBound
<1>3. CASE Enqueue(c)
  <2>1. Home[c] \in Process /\ client[c].key \in Key
    BY <1>3, JobsAssumption DEF Enqueue, RequestsRefer
  <2>2. queue' = [queue EXCEPT ![Home[c]] = Append(@, client[c].key)]
    BY <1>3 DEF Enqueue
  <2>3. queue[Home[c]] \in Seq(Key) /\ queue'[Home[c]] = Append(queue[Home[c]], client[c].key)
    BY <2>1, <2>2 DEF TypeOK
  <2>4. Bound(k)
    BY <1>3 DEF Enqueue, Unsettled, Exists, UnsettledBound
  <2>5. CASE Enqueuing(c, k)
    <3>1. /\ Len(queue[Home[c]]) + 1 \in DOMAIN queue'[Home[c]]
          /\ queue'[Home[c]][Len(queue[Home[c]]) + 1] = k
      BY <2>1, <2>3, <2>5 DEF Enqueuing
    <3> QED
      BY <2>1, <3>1 DEF Bound, InQueue
  <2>6. CASE \E p \in Process : InQueue(p, k)
    <3>1. PICK p \in Process : InQueue(p, k)
      BY <2>6
    <3>2. PICK i \in DOMAIN queue[p] : queue[p][i] = k
      BY <3>1 DEF InQueue
    <3>3. i \in DOMAIN queue'[p] /\ queue'[p][i] = k
      <4>1. CASE p = Home[c]
        BY <2>1, <2>3, <3>2, <4>1
      <4>2. CASE p # Home[c]
        BY <2>2, <3>2, <4>2 DEF TypeOK
      <4> QED
        BY <4>1, <4>2
    <3> QED
      BY <3>3 DEF Bound, InQueue
  <2>7. CASE \E x \in Client \ {c} : Enqueuing(x, k)
    BY <1>0, <2>7 DEF Bound, Enqueuing
  <2>8. CASE \E w \in Worker : BoundThread(w, k)
    BY <1>0, <2>8 DEF Bound, BoundThread, Running
  <2> QED
    BY <2>4, <2>5, <2>6, <2>7, <2>8 DEF Bound
<1>4. CASE CancelCommit(c)
  <2>1. /\ client[c].key \in Key /\ Exists(client[c].key)
        /\ client[c].row \in Row /\ client[c].row.status # "cancelled"
    BY <1>4 DEF CancelCommit, RequestsRefer, Terminal
  <2>2. client[c].key # k
    BY <1>4, <2>1 DEF CancelCommit, Flush, Unsettled, Terminal, TypeOK, Row
  <2>3. job'[k] = job[k]
    BY <1>4, <2>1, <2>2 DEF CancelCommit, TypeOK
  <2>4. Bound(k) /\ ~Enqueuing(c, k)
    BY <2>2, <2>3 DEF Unsettled, Exists, UnsettledBound, Enqueuing
  <2> QED
    BY <1>0, <1>4, <2>4, RequestLeavesOthersBound DEF CancelCommit
<1>5. CASE RetryCommit(c)
  <2>1. client[c].key \in Key
    BY <1>5 DEF RetryCommit, RequestsRefer
  <2>2. CASE client[c].key = k
    <3>1. Ask(c, "enqueue", k, Null)
      BY <1>5, <2>2 DEF RetryCommit
    <3> QED
      BY <3>1 DEF Ask, Bound, Enqueuing, TypeOK
  <2>3. CASE client[c].key # k
    <3>1. job'[k] = job[k]
      BY <1>5, <2>1, <2>3 DEF RetryCommit, TypeOK
    <3>2. Bound(k) /\ ~Enqueuing(c, k)
      BY <2>3, <3>1 DEF Unsettled, Exists, UnsettledBound, Enqueuing
    <3> QED
      BY <1>0, <1>5, <3>2, RequestLeavesOthersBound DEF RetryCommit
  <2> QED
    BY <2>2, <2>3
<1> QED
  BY <1>1, <1>2, <1>3, <1>4, <1>5 DEF Serve

\* What a crash takes it records as lost; the rest stays bound.
LEMMA CrashBound ==
  ASSUME Refers, UnsettledBound, NEW p \in Process, Crash(p),
         NEW k \in Key, Unsettled(k)', k \notin lost'
  PROVE  Bound(k)'
<1> USE DEF Refers
<1>1. k \notin lost /\ Bound(k)
  BY DEF Crash, Unsettled, Exists, UnsettledBound
<1>2. CASE \E q \in Process : InQueue(q, k)
  BY <1>2 DEF Crash, Bound, InQueue, TypeOK
<1>3. CASE \E c \in Client : Enqueuing(c, k)
  BY <1>3 DEF Crash, Bound, Enqueuing, TypeOK
<1>4. CASE \E w \in Worker : BoundThread(w, k)
  BY <1>4 DEF Crash, Bound, BoundThread, Running, TypeOK
<1> QED
  BY <1>1, <1>2, <1>3, <1>4 DEF Bound

\* A request that fails before its enqueue records its job as lost.
LEMMA RequestFailsBound ==
  ASSUME Refers, UnsettledBound, NEW c \in Client, RequestFails(c),
         NEW k \in Key, Unsettled(k)', k \notin lost'
  PROVE  Bound(k)'
<1> USE DEF Refers
<1>1. k \notin lost /\ Bound(k) /\ ~Enqueuing(c, k)
  BY DEF RequestFails, Unsettled, Exists, UnsettledBound
<1>2. UNCHANGED <<queue, worker>> /\ \A d \in Client \ {c} : client'[d] = client[d]
  BY DEF RequestFails, Answer, TypeOK
<1> QED
  BY <1>1, <1>2 DEF Bound, InQueue, Enqueuing, BoundThread, Running

\* An exception that ends the thread's call records its job as lost; any other
\* leaves the thread to write "failed".
LEMMA ThreadFailsBound ==
  ASSUME Refers, UnsettledBound, NEW w \in Worker, ThreadFails(w),
         NEW k \in Key, Unsettled(k)', k \notin lost'
  PROVE  Bound(k)'
<1> USE DEF Refers
<1>1. k \notin lost /\ Bound(k)
  BY DEF ThreadFails, Unsettled, Exists, UnsettledBound
<1>2. UNCHANGED <<queue, client>> /\ \A x \in Worker \ {w} : worker'[x] = worker[x]
  BY DEF ThreadFails, Goto, Finish, TypeOK
<1>3. CASE ~BoundThread(w, k)
  BY <1>1, <1>2, <1>3, ThreadLeavesOthersBound
<1>4. CASE BoundThread(w, k)
  <2>1. worker[w].key = k /\ Goto(w, "failed")
    BY <1>4 DEF ThreadFails, BoundThread, Running
  <2>2. Running(w, k)' /\ worker'[w].row = Null
    BY <2>1 DEF Goto, Running, TypeOK, Thread
  <2> QED
    BY <2>2 DEF Bound, BoundThread
<1> QED
  BY <1>3, <1>4

LEMMA NextBound == Refers /\ UnsettledBound /\ [Next]_vars => UnsettledBound'
<1> SUFFICES ASSUME Refers, UnsettledBound, [Next]_vars, NEW k \in Key,
                    Unsettled(k)', k \notin lost'
             PROVE  Bound(k)'
  BY DEF UnsettledBound
<1>1. CASE UNCHANGED vars
  BY <1>1 DEF vars, UnsettledBound, Unsettled, Exists, Bound, BoundThread, Running,
              InQueue, Enqueuing
<1>2. CASE \E w \in Worker : WorkerStep(w)
  <2>1. UNCHANGED lost
    BY <1>2 DEF WorkerStep, Dequeue, Observe, UpdateRead, UpdateCommit, HandlerReturns,
                HandlerRaises
  <2> QED
    BY <1>2, <2>1, WorkerBound
<1>3. CASE \E c \in Client : Arrive(c) \/ Serve(c)
  <2>1. UNCHANGED lost
    BY <1>3 DEF Arrive, CreateSelect, CancelRead, RetryCheck, Serve, CreateInsert,
                AnswerDuplicate, Enqueue, CancelCommit, RetryRead, RetryCommit
  <2> QED
    BY <1>3, <2>1, ArriveBound, ServeBound
<1>4. CASE \E p \in Process : Crash(p)
  BY <1>4, CrashBound
<1>5. CASE \/ \E w \in Worker : ThreadFails(w)
          \/ \E c \in Client : RequestFails(c)
  BY <1>5, ThreadFailsBound, RequestFailsBound
<1> QED
  BY <1>1, <1>2, <1>3, <1>4, <1>5 DEF Next

\* JobsInv is inductive together with type correctness.
THEOREM JobsInvariant == Spec => []JobsInv
<1>1. Init => UnsettledBound
  BY DEF Init, UnsettledBound, Unsettled, Exists
<1>2. Refers /\ UnsettledBound => JobsInv
  BY DEF Refers, JobsInv
<1> QED
  BY <1>1, <1>2, InitRefers, NextRefers, NextBound, PTL DEF Spec

\* Without a crash or an exception no job is left behind, whatever requests race with it.
THEOREM NothingStranded == Spec => []NoJobStranded
<1>1. JobsInv => NoJobStranded
  BY DEF JobsInv, UnsettledBound, NoJobStranded, Bound, BoundThread, Carried
<1> QED
  BY <1>1, JobsInvariant, PTL

-----------------------------------------------------------------------------
(* A job at rest stays as it is.                                             *)

\* A thread that is on a job at rest has just taken its entry, and is to see it
\* cancelled.
LEMMA ThreadAtRest ==
  ASSUME Refers, NEW k \in Key, AtRest(k), NEW w \in Worker, Running(w, k)
  PROVE  worker[w].pc = "fetch" /\ job[k].status = "cancelled"
BY DEF AtRest, Engaged, Carried

\* What only drops references to a job at rest leaves it at rest.
LEMMA DropRest ==
  ASSUME NEW k \in Key, AtRest(k), job'[k] = job[k],
         \A v \in Worker : Running(v, k)' => Running(v, k) /\ worker'[v].pc = worker[v].pc,
         \A c \in Client : client'[c].pc # "idle" => client'[c] = client[c],
         \A p \in Process : InQueue(p, k)' => InQueue(p, k)
  PROVE  AtRest(k)'
<1>1. ~Engaged(k)'
  <2>1. \A v \in Worker : ~(Running(v, k)' /\ worker'[v].pc # "fetch")
    BY DEF AtRest, Engaged
  <2>2. \A c \in Client : ~(client'[c].pc \in {"cancel", "retry"} /\ client'[c].key = k)
    BY DEF AtRest, Engaged
  <2> QED
    BY <2>1, <2>2 DEF Engaged
<1>2. ~Carried(k) => ~Carried(k)'
  <2>1. \A c \in Client : Enqueuing(c, k)' => Enqueuing(c, k)
    BY DEF Enqueuing
  <2> QED
    BY <2>1 DEF Carried
<1> QED
  BY <1>1, <1>2 DEF AtRest, Exists

LEMMA WorkerRest ==
  ASSUME Refers, NEW k \in Key, AtRest(k), NEW w \in Worker, WorkerStep(w)
  PROVE  AtRest(k)' /\ job'[k] = job[k]
<1> USE DEF Refers, TypeOK
<1>1. CASE Dequeue(w)
  <2>1. Home[w] \in Process
    BY JobsAssumption
  <2>2. job' = job /\ client' = client
    BY <1>1 DEF Dequeue
  <2>3. ~Engaged(k)'
    BY <1>1, <2>2 DEF Dequeue, AtRest, Engaged, Running
  <2>4. CASE job[k].status = "cancelled"
    BY <2>2, <2>3, <2>4 DEF AtRest, Exists
  <2>5. CASE job[k].status \in Terminal /\ ~Carried(k)
    <3>1. Head(queue[Home[w]]) # k
      BY <1>1, <2>1, <2>5 DEF Dequeue, Carried, InQueue
    <3>2. \A p \in Process : ~InQueue(p, k)'
      BY <1>1, <2>1, <2>5 DEF Dequeue, Carried, InQueue
    <3>3. \A v \in Worker : ~Running(v, k)'
      BY <1>1, <2>5, <3>1 DEF Dequeue, Carried, Running
    <3>4. \A c \in Client : ~Enqueuing(c, k)'
      BY <2>2, <2>5 DEF Carried, Enqueuing
    <3>5. ~Carried(k)'
      BY <3>2, <3>3, <3>4 DEF Carried
    <3> QED
      BY <2>2, <2>3, <2>5, <3>5 DEF AtRest, Exists
  <2> QED
    BY <2>4, <2>5 DEF AtRest
<1>2. CASE ~Dequeue(w)
  \* The thread leaves k alone, or drops it.
  <2>1. queue' = queue /\ client' = client
    BY <1>2 DEF WorkerStep, Observe, UpdateRead, UpdateCommit, HandlerReturns, HandlerRaises
  <2>2. worker[w].pc # "idle"
    BY <1>2, NextPCs DEF WorkerStep, Observe, UpdateRead, UpdateCommit, HandlerReturns,
                HandlerRaises, Update
  <2>3. \A v \in Worker \ {w} : worker'[v] = worker[v]
    BY <1>2 DEF WorkerStep, Observe, UpdateRead, UpdateCommit, HandlerReturns, HandlerRaises,
                Goto, Finish
  <2>4. worker'[w] = Rest \/ worker'[w].key = worker[w].key
    BY <1>2 DEF WorkerStep, Observe, UpdateRead, UpdateCommit, HandlerReturns, HandlerRaises,
                Goto, Finish, Thread
  <2>5. CASE Running(w, k)
    <3>1. Observe(w) /\ job[worker[w].key].status = "cancelled"
      BY <1>2, <2>5, ThreadAtRest DEF WorkerStep, UpdateRead, UpdateCommit, HandlerReturns,
                HandlerRaises, Update, Running
    <3>2. worker'[w] = Rest /\ job' = job
      BY <3>1 DEF Observe, Finish
    <3>3. ~Running(w, k)'
      BY <3>2 DEF Running, Rest
    <3>4. \A v \in Worker : Running(v, k)' => Running(v, k) /\ worker'[v].pc = worker[v].pc
      BY <2>3, <3>3 DEF Running
    <3> QED
      BY <2>1, <3>2, <3>4, DropRest DEF InQueue
  <2>6. CASE ~Running(w, k)
    <3>1. worker[w].key # k
      BY <2>2, <2>6 DEF Running
    <3>2. job'[k] = job[k]
      BY <1>2, <3>1 DEF WorkerStep, Observe, UpdateRead, UpdateCommit, HandlerReturns, HandlerRaises
    <3>3. ~Running(w, k)'
      BY <2>4, <3>1 DEF Running, Rest
    <3> QED
      BY <2>1, <2>3, <2>6, <3>2, <3>3 DEF AtRest, Engaged, Carried, Running, Enqueuing, InQueue,
                Exists
  <2> QED
    BY <2>5, <2>6
<1> QED
  BY <1>1, <1>2

\* A request on another job, or one that only reads, leaves k at rest.
LEMMA OtherRequestRest ==
  ASSUME Refers, NEW k \in Key, AtRest(k), NEW c \in Client,
         job'[k] = job[k], worker' = worker,
         \A d \in Client \ {c} : client'[d] = client[d],
         client'[c].key = k => client'[c].pc \notin {"cancel", "retry", "enqueue"},
         \A p \in Process : InQueue(p, k)' => InQueue(p, k) \/ job[k].status = "cancelled"
  PROVE  AtRest(k)'
<1>1. ~Engaged(k)'
  BY DEF AtRest, Engaged, Running
<1>2. CASE job[k].status = "cancelled"
  BY <1>1, <1>2 DEF AtRest, Exists
<1>3. CASE job[k].status # "cancelled" /\ job[k].status \in Terminal /\ ~Carried(k)
  <2>1. ~Carried(k)'
    BY <1>3 DEF Carried, Running, Enqueuing
  <2> QED
    BY <1>1, <1>3, <2>1 DEF AtRest, Exists
<1> QED
  BY <1>2, <1>3 DEF AtRest

LEMMA RequestRest ==
  ASSUME Refers, NEW k \in Key, AtRest(k), NEW c \in Client, Arrive(c) \/ Serve(c)
  PROVE  RestStep(k)
<1> USE DEF Refers, TypeOK
<1>1. \A d \in Client \ {c} : client'[d] = client[d]
  BY DEF Arrive, CreateSelect, CancelRead, RetryCheck, Serve, CreateInsert, AnswerDuplicate,
         Enqueue, CancelCommit, RetryRead, RetryCommit, Ask, Answer
<1>2. worker' = worker
  BY DEF Arrive, CreateSelect, CancelRead, RetryCheck, Serve, CreateInsert, AnswerDuplicate,
         Enqueue, CancelCommit, RetryRead, RetryCommit
<1>3. client[c].pc \in {"cancel", "retry"} => client[c].key # k
  BY DEF AtRest, Engaged
<1>4. client[c].pc = "enqueue" /\ client[c].key = k => job[k].status = "cancelled"
  BY DEF AtRest, Carried, Enqueuing
<1>5. job[k] # Null
  BY DEF AtRest, Exists
<1> DEFINE Quiet == /\ job'[k] = job[k]
                    /\ client'[c].key = k => client'[c].pc \notin {"cancel", "retry", "enqueue"}
                    /\ \A p \in Process :
                         InQueue(p, k)' => InQueue(p, k) \/ job[k].status = "cancelled"
<1>6. Quiet => RestStep(k)
  BY <1>1, <1>2, OtherRequestRest DEF RestStep
<1> HIDE DEF Quiet
<1>7. ASSUME NEW i \in Key, CreateSelect(c, i) PROVE RestStep(k)
  BY <1>7, <1>6 DEF Quiet, CreateSelect, Ask, InQueue
<1>8. ASSUME NEW i \in Key, CancelRead(c, i) PROVE RestStep(k)
  <2>1. i # k
    BY <1>8 DEF CancelRead, AtRest, Terminal
  <2> QED
    BY <1>8, <1>6, <2>1 DEF Quiet, CancelRead, Ask, InQueue
<1>9. ASSUME NEW i \in Key, RetryCheck(c, i) PROVE RestStep(k)
  <2>1. CASE i # k
    BY <1>9, <1>6, <2>1 DEF Quiet, RetryCheck, Ask, InQueue
  <2>2. CASE i = k
    BY <1>9, <2>2 DEF RestStep, RetryCheck, RetryAccepted, Ask
  <2> QED
    BY <2>1, <2>2
<1>10. CASE CreateInsert(c)
  BY <1>10, <1>6, <1>5 DEF Quiet, CreateInsert, Ask, InQueue
<1>11. CASE AnswerDuplicate(c)
  BY <1>11, <1>6 DEF Quiet, AnswerDuplicate, Answer, Rest, InQueue
<1>12. CASE Enqueue(c)
  <2>1. Home[c] \in Process /\ client[c].key \in Key
    BY <1>12, JobsAssumption DEF Enqueue, RequestsRefer
  <2>2. ASSUME NEW p \in Process, InQueue(p, k)'
        PROVE  InQueue(p, k) \/ job[k].status = "cancelled"
    <3>1. CASE client[c].key = k
      BY <1>12, <1>4, <3>1 DEF Enqueue
    <3>2. CASE client[c].key # k
      BY <1>12, <2>1, <2>2, <3>2 DEF Enqueue, InQueue
    <3> QED
      BY <3>1, <3>2
  <2> QED
    BY <1>12, <1>6, <2>2 DEF Quiet, Enqueue, Answer, Rest
<1>13. CASE CancelCommit(c)
  BY <1>13, <1>6, <1>3 DEF Quiet, CancelCommit, Answer, Rest, InQueue
<1>14. CASE RetryRead(c)
  <2>1. client'[c].key = client[c].key
    BY <1>14 DEF RetryRead, Request
  <2> QED
    BY <1>14, <1>6, <1>3, <2>1 DEF Quiet, RetryRead, InQueue
<1>15. CASE RetryCommit(c)
  BY <1>15, <1>6, <1>3 DEF Quiet, RetryCommit, Ask, InQueue
<1> QED
  BY <1>7, <1>8, <1>9, <1>10, <1>11, <1>12, <1>13, <1>14, <1>15 DEF Arrive, Serve

LEMMA CrashRest ==
  ASSUME Refers, NEW k \in Key, AtRest(k), NEW p \in Process, Crash(p)
  PROVE  AtRest(k)' /\ job'[k] = job[k]
<1> USE DEF Refers, TypeOK
<1>1. job' = job
  BY DEF Crash
<1>2. \A w \in Worker : worker'[w] = Rest \/ worker'[w] = worker[w]
  BY DEF Crash
<1>3. \A c \in Client : client'[c] = Rest \/ client'[c] = client[c]
  BY DEF Crash
<1>4. \A q \in Process : InQueue(q, k)' => InQueue(q, k)
  BY DEF Crash, InQueue
<1>5. \A w \in Worker : Running(w, k)' => Running(w, k) /\ worker'[w].pc = worker[w].pc
  BY <1>2 DEF Running, Rest
<1>6. \A c \in Client : client'[c].pc # "idle" => client'[c] = client[c]
  BY <1>3 DEF Rest
<1> QED
  BY <1>1, <1>4, <1>5, <1>6, DropRest

LEMMA RequestFailsRest ==
  ASSUME Refers, NEW k \in Key, AtRest(k), NEW c \in Client, RequestFails(c)
  PROVE  AtRest(k)' /\ job'[k] = job[k]
<1>1. job' = job /\ worker' = worker /\ queue' = queue
  BY DEF RequestFails
<1>2. \A d \in Client : client'[d].pc # "idle" => client'[d] = client[d]
  BY DEF RequestFails, Answer, Rest, Refers, TypeOK
<1> QED
  BY <1>1, <1>2, DropRest DEF Running, InQueue

LEMMA ThreadFailsRest ==
  ASSUME Refers, NEW k \in Key, AtRest(k), NEW w \in Worker, ThreadFails(w)
  PROVE  AtRest(k)' /\ job'[k] = job[k]
<1> USE DEF Refers, TypeOK
<1>1. job' = job /\ client' = client /\ queue' = queue
  BY DEF ThreadFails
<1>2. \A v \in Worker \ {w} : worker'[v] = worker[v]
  BY DEF ThreadFails, Goto, Finish
<1>3. ~Running(w, k)'
  <2>1. CASE Running(w, k)
    BY <2>1, ThreadAtRest DEF ThreadFails, Finish, Rest, Running
  <2>2. CASE ~Running(w, k)
    BY <2>2 DEF ThreadFails, Goto, Finish, Rest, Running, Thread
  <2> QED
    BY <2>1, <2>2
<1>4. \A v \in Worker : Running(v, k)' => Running(v, k) /\ worker'[v].pc = worker[v].pc
  BY <1>2, <1>3 DEF Running
<1> QED
  BY <1>1, <1>4, DropRest DEF InQueue

LEMMA NextRest == Refers /\ [Next]_vars => \A k \in Key : RestStep(k)
<1> SUFFICES ASSUME Refers, [Next]_vars, NEW k \in Key, AtRest(k)
             PROVE  RestStep(k)
  BY DEF RestStep
<1>1. CASE UNCHANGED vars
  BY <1>1 DEF vars, RestStep, AtRest, Engaged, Carried, Running, Enqueuing, InQueue, Exists
<1>2. CASE \E w \in Worker : WorkerStep(w)
  BY <1>2, WorkerRest DEF RestStep
<1>3. CASE \E c \in Client : Arrive(c) \/ Serve(c)
  BY <1>3, RequestRest
<1>4. CASE \E p \in Process : Crash(p)
  BY <1>4, CrashRest DEF RestStep
<1>5. CASE \/ \E w \in Worker : ThreadFails(w)
          \/ \E c \in Client : RequestFails(c)
  BY <1>5, ThreadFailsRest, RequestFailsRest DEF RestStep
<1> QED
  BY <1>1, <1>2, <1>3, <1>4, <1>5 DEF Next

\* Nothing but an accepted retry disturbs a job that was cancelled before it ran,
\* or one that finished and has no entry left.
THEOREM RestPreserved == Spec => RestUntilRetried
BY InitRefers, NextRefers, NextRest, PTL DEF Spec, RestUntilRetried

-----------------------------------------------------------------------------
(* Facts for the components that use the job service.                        *)

\* Only a thread whose handler returned writes "completed": a cancellation and a
\* retry flush their own status or none.
LEMMA CompletedBy ==
  ASSUME Refers, [Next]_vars, NEW k \in Key, Exists(k), job'[k].status = "completed"
  PROVE  \/ job[k].status = "completed"
         \/ \E w \in Worker : worker[w].pc = "completed" /\ worker[w].key = k
<1> USE DEF Refers, TypeOK
<1>1. CASE job' = job
  BY <1>1
<1>2. ASSUME NEW w \in Worker, UpdateCommit(w)
      PROVE  \/ job[k].status = "completed"
             \/ worker[w].pc = "completed" /\ worker[w].key = k
  <2>1. worker[w].key \in Key /\ worker[w].row \in Row /\ worker[w].pc \in Update
    BY <1>2 DEF UpdateCommit, ThreadsRefer, Thread, Update
  <2>2. CASE worker[w].key # k
    BY <1>2, <2>1, <2>2 DEF UpdateCommit
  <2>3. CASE worker[w].key = k
    <3>1. job'[k] = Flush(job[k], worker[w].row, Assigned(worker[w].row, worker[w].pc))
      BY <1>2, <2>1, <2>3 DEF UpdateCommit
    <3>2. job'[k].status \in {job[k].status, worker[w].pc}
      BY <3>1 DEF Flush, Assigned
    <3> QED
      BY <2>3, <3>2
  <2> QED
    BY <2>2, <2>3
<1>3. ASSUME NEW c \in Client, CreateInsert(c) PROVE job[k].status = "completed"
  BY <1>3 DEF CreateInsert, Exists
<1>4. ASSUME NEW c \in Client, CancelCommit(c) PROVE job[k].status = "completed"
  <2>1. client[c].key \in Key /\ client[c].row \in Row
    BY <1>4 DEF CancelCommit, RequestsRefer
  <2> QED
    BY <1>4, <2>1 DEF CancelCommit, Flush, Row
<1>5. ASSUME NEW c \in Client, RetryCommit(c) PROVE job[k].status = "completed"
  <2>1. client[c].key \in Key /\ client[c].row \in Row
    BY <1>5 DEF RetryCommit, RequestsRefer, Request
  <2> QED
    BY <1>5, <2>1 DEF RetryCommit, Flush, Requeued, Row
<1>6. ASSUME NEW w \in Worker, WorkerStep(w), ~UpdateCommit(w) PROVE job' = job
  BY <1>6 DEF WorkerStep, Dequeue, Observe, UpdateRead, HandlerReturns, HandlerRaises
<1>7. ASSUME NEW c \in Client, Arrive(c) PROVE job' = job
  BY <1>7 DEF Arrive, CreateSelect, CancelRead, RetryCheck
<1>8. ASSUME NEW c \in Client, AnswerDuplicate(c) \/ Enqueue(c) \/ RetryRead(c) PROVE job' = job
  BY <1>8 DEF AnswerDuplicate, Enqueue, RetryRead
<1>9. ASSUME NEW p \in Process, Crash(p) PROVE job' = job
  BY <1>9 DEF Crash
<1>10. ASSUME NEW w \in Worker, ThreadFails(w) PROVE job' = job
  BY <1>10 DEF ThreadFails
<1>11. ASSUME NEW c \in Client, RequestFails(c) PROVE job' = job
  BY <1>11 DEF RequestFails
<1> QED
  BY <1>1, <1>2, <1>3, <1>4, <1>5, <1>6, <1>7, <1>8, <1>9, <1>10, <1>11 DEF Next, Serve, vars

\* run_job outside the handler moves its own thread only, reaches "recheck" and
\* "completed" only from "recheck" and "completed", and neither adds nor removes a row.
LEMMA RunJobMoves ==
  ASSUME Refers, NEW w \in Worker,
         Dequeue(w) \/ Observe(w) \/ UpdateRead(w) \/ UpdateCommit(w) \/ ThreadFails(w)
  PROVE  /\ UNCHANGED client
         /\ \A v \in Worker \ {w} : worker'[v] = worker[v]
         /\ worker[w].pc # "execute"
         /\ worker'[w].pc \in {"recheck", "completed"} =>
              worker[w].pc \in {"recheck", "completed"} /\ worker'[w].key = worker[w].key
         /\ \A k \in Key : Exists(k)' <=> Exists(k)
<1> USE DEF Refers, TypeOK
<1>1. UNCHANGED client
  BY DEF Dequeue, Observe, UpdateRead, UpdateCommit, ThreadFails
<1>2. \A v \in Worker \ {w} : worker'[v] = worker[v]
  BY DEF Dequeue, Observe, UpdateRead, UpdateCommit, ThreadFails, Goto, Finish
<1>3. worker[w].pc # "execute"
  BY NextPCs DEF Dequeue, Observe, UpdateRead, UpdateCommit, ThreadFails, Update
<1>4. worker'[w].pc \in {"recheck", "completed"} =>
        worker[w].pc \in {"recheck", "completed"} /\ worker'[w].key = worker[w].key
  <2>1. CASE Dequeue(w)
    BY <2>1 DEF Dequeue, Thread
  <2>2. CASE Observe(w)
    BY <2>2 DEF Observe, Goto, Finish, Rest, ProceedTo, Thread
  <2>3. CASE UpdateRead(w)
    BY <2>3 DEF UpdateRead, Thread
  <2>4. CASE UpdateCommit(w)
    BY <2>4 DEF UpdateCommit, Goto, Finish, Rest, UpdatedTo, Thread
  <2>5. CASE ThreadFails(w)
    BY <2>5 DEF ThreadFails, Goto, Finish, Rest, Thread
  <2> QED
    BY <2>1, <2>2, <2>3, <2>4, <2>5
<1>5. \A k \in Key : Exists(k)' <=> Exists(k)
  <2>1. CASE Dequeue(w) \/ Observe(w) \/ UpdateRead(w) \/ ThreadFails(w)
    BY <2>1 DEF Dequeue, Observe, UpdateRead, ThreadFails, Exists
  <2>2. CASE UpdateCommit(w)
    <3>1. /\ worker[w].key \in Key /\ Exists(worker[w].key)
          /\ worker[w].row \in Row
          /\ worker[w].pc \in Update
      BY <2>2 DEF UpdateCommit, ThreadsRefer, Thread, Update
    <3>2. Assigned(worker[w].row, worker[w].pc) \in Row
      BY <3>1, AssignedType
    <3>3. \A i \in Key : Exists(i) => Exists(i)'
      BY <2>2, <3>1, <3>2, CommitKeepsRows DEF UpdateCommit
    <3>4. \A i \in Key : i # worker[w].key => job'[i] = job[i]
      BY <2>2, <3>1 DEF UpdateCommit
    <3> QED
      BY <3>1, <3>3, <3>4 DEF Exists
  <2> QED
    BY <2>1, <2>2
<1> QED
  BY <1>1, <1>2, <1>3, <1>4, <1>5

\* A request on an existing job neither adds nor removes a row.
LEMMA JobRequestRows ==
  ASSUME Refers, NEW c \in Client, CancelCommit(c) \/ RetryCommit(c)
  PROVE  \A k \in Key : Exists(k)' <=> Exists(k)
<1> USE DEF Refers, TypeOK
<1>1. PICK k \in Key : k = client[c].key /\ Exists(k)
  BY DEF CancelCommit, RetryCommit, RequestsRefer
<1>2. PICK old \in Row : old = client[c].row
  BY DEF CancelCommit, RetryCommit, RequestsRefer, Request
<1>3. PICK new \in Row : job' = [job EXCEPT ![k] = Flush(@, old, new)]
  <2>1. [old EXCEPT !.status = "cancelled"] \in Row /\ Requeued(old) \in Row
    BY RequeuedType DEF Row, Status, Terminal
  <2> QED
    BY <1>1, <1>2, <2>1 DEF CancelCommit, RetryCommit
<1>4. \A i \in Key : Exists(i) => Exists(i)'
  BY <1>1, <1>2, <1>3, CommitKeepsRows
<1>5. \A i \in Key : i # k => job'[i] = job[i]
  BY <1>3
<1> QED
  BY <1>1, <1>4, <1>5 DEF Exists

-----------------------------------------------------------------------------
(* Executions are paid for.  What is owed to a key, and what each copy of    *)
(* its row counts, never add up to more than its insertion and the retries.  *)

LEMMA AddOne ==
  ASSUME NEW S, NEW x, IsFiniteSet(S)
  PROVE  /\ IsFiniteSet(S \union {x}) /\ Cardinality(S \union {x}) \in Nat /\ Cardinality(S) \in Nat
         /\ Cardinality(S \union {x}) <= Cardinality(S) + 1
<1>1. /\ IsFiniteSet(S \union {x})
      /\ Cardinality(S \union {x}) = IF x \in S THEN Cardinality(S) ELSE Cardinality(S) + 1
  BY FS_AddElement
<1>2. Cardinality(S) \in Nat
  BY FS_CardinalityType
<1>. QED BY <1>1, <1>2

LEMMA QueuedAt ==
  ASSUME NEW k \in Key
  PROVE  \A e : e \in Queued(k) <=> \E p \in Process : \E i \in DOMAIN queue[p] : e = <<p, i>> /\ queue[p][i] = k
BY DEF Queued

LEMMA OwedIsNat ==
  ASSUME Refers, NEW k \in Key, Exists(k), Paid(k)
  PROVE  /\ Cardinality(Queued(k)) \in Nat /\ Cardinality(Submitting(k)) \in Nat
         /\ Cardinality(Unstarted(k)) \in Nat /\ Owed(k) \in Nat
         /\ Counted(k) \subseteq Nat /\ retries \in Nat
<1>1. /\ Cardinality(Queued(k)) \in Nat /\ Cardinality(Submitting(k)) \in Nat
      /\ Cardinality(Unstarted(k)) \in Nat
  BY FS_CardinalityType DEF Paid
<1>2. Counted(k) \subseteq Nat
  BY DEF Counted, Unstarted, Refers, TypeOK, Exists, Row, Thread
<1>. QED BY <1>1, <1>2 DEF Owed, Refers, TypeOK

\* A step that owes nothing new and counts nothing new.
LEMMA PaysNothing ==
  ASSUME Refers, NEW k \in Key, Exists(k), Paid(k), retries' \in Nat, retries <= retries',
         Queued(k)' \subseteq Queued(k), Submitting(k)' \subseteq Submitting(k),
         Unstarted(k)' \subseteq Unstarted(k), Counted(k)' \subseteq Counted(k)
  PROVE  Paid(k)'
<1>1. /\ IsFiniteSet(Queued(k)') /\ Cardinality(Queued(k)') <= Cardinality(Queued(k))
      /\ IsFiniteSet(Submitting(k)') /\ Cardinality(Submitting(k)') <= Cardinality(Submitting(k))
      /\ IsFiniteSet(Unstarted(k)') /\ Cardinality(Unstarted(k)') <= Cardinality(Unstarted(k))
  BY FS_Subset DEF Paid
<1>2. /\ Cardinality(Queued(k)') \in Nat /\ Cardinality(Submitting(k)') \in Nat
      /\ Cardinality(Unstarted(k)') \in Nat
  BY <1>1, FS_CardinalityType
<1>3. Owed(k)' <= Owed(k) /\ Owed(k)' \in Nat
  BY <1>1, <1>2, OwedIsNat DEF Owed
<1>4. ASSUME NEW n \in Counted(k)'
      PROVE  n + Owed(k)' <= 1 + retries'
  <2>1. n \in Nat /\ n + Owed(k) <= 1 + retries
    BY OwedIsNat DEF Paid
  <2>. QED BY <1>3, <2>1, OwedIsNat
<1>. QED BY <1>1, <1>4 DEF Paid

\* Taking the head of a queue moves the other entries one place.
LEMMA TailQueued ==
  ASSUME Refers, NEW k \in Key, IsFiniteSet(Queued(k)), NEW p \in Process, queue[p] # <<>>,
         queue' = [queue EXCEPT ![p] = Tail(@)]
  PROVE  /\ IsFiniteSet(Queued(k)')
         /\ Cardinality(Queued(k)') <= Cardinality(Queued(k))
         /\ Head(queue[p]) = k => Cardinality(Queued(k)') <= Cardinality(Queued(k)) - 1
<1> DEFINE S == Queued(k) \ {<<p, 1>>}
           T == Queued(k)'
           f == [e \in S |-> IF e[1] = p THEN <<p, e[2] - 1>> ELSE e]
<1>1. queue \in [Process -> Seq(Key)]
  BY DEF Refers, TypeOK
<1>2. queue'[p] = Tail(queue[p]) /\ \A q \in Process \ {p} : queue'[q] = queue[q]
  BY <1>1
<1>3. PICK n \in Nat : n = Len(queue[p]) /\ n > 0 /\ DOMAIN queue[p] = 1..n
  BY <1>1
<1>4. DOMAIN queue'[p] = 1..(n - 1) /\ \A i \in 1..(n - 1) : queue'[p][i] = queue[p][i + 1]
  BY <1>1, <1>2, <1>3
<1>5. \A e : e \in T <=> \E q \in Process : \E i \in DOMAIN queue'[q] : e = <<q, i>> /\ queue'[q][i] = k
  BY DEF Queued
<1>6. \A e \in S : f[e] \in T
  <2> SUFFICES ASSUME NEW e \in S PROVE f[e] \in T
    OBVIOUS
  <2>1. PICK q \in Process : \E i \in DOMAIN queue[q] : e = <<q, i>> /\ queue[q][i] = k
    BY QueuedAt
  <2>2. PICK i \in DOMAIN queue[q] : e = <<q, i>> /\ queue[q][i] = k
    BY <2>1
  <2>3. CASE q = p
    <3>1. i # 1 /\ i \in 1..n
      BY <1>3, <2>2, <2>3
    <3>2. i - 1 \in 1..(n - 1) /\ queue'[p][i - 1] = k
      BY <1>4, <2>2, <2>3, <3>1
    <3>3. f[e] = <<p, i - 1>>
      BY <2>2, <2>3
    <3>. QED BY <1>4, <1>5, <3>2, <3>3
  <2>4. CASE q # p
    <3>1. f[e] = e /\ queue'[q] = queue[q]
      BY <1>2, <2>2, <2>4
    <3>. QED BY <1>5, <2>2, <3>1
  <2>. QED BY <2>3, <2>4
<1>7. \A t \in T : \E e \in S : f[e] = t
  <2> SUFFICES ASSUME NEW t \in T PROVE \E e \in S : f[e] = t
    OBVIOUS
  <2>1. PICK q \in Process : \E i \in DOMAIN queue'[q] : t = <<q, i>> /\ queue'[q][i] = k
    BY <1>5
  <2>2. PICK i \in DOMAIN queue'[q] : t = <<q, i>> /\ queue'[q][i] = k
    BY <2>1
  <2>3. CASE q = p
    <3>1. i \in 1..(n - 1) /\ i + 1 \in 1..n /\ i + 1 # 1 /\ queue[p][i + 1] = k
      BY <1>3, <1>4, <2>2, <2>3
    <3>2. <<p, i + 1>> \in S
      BY <1>3, <3>1, QueuedAt
    <3>3. f[<<p, i + 1>>] = <<p, i>>
      BY <3>1, <3>2
    <3>. QED BY <2>2, <2>3, <3>2, <3>3
  <2>4. CASE q # p
    <3>1. i \in DOMAIN queue[q] /\ queue[q][i] = k
      BY <1>2, <2>2, <2>4
    <3>2. t \in S
      BY <2>2, <2>4, <3>1, QueuedAt
    <3>3. f[t] = t
      BY <2>2, <2>4, <3>2
    <3>. QED BY <3>2, <3>3
  <2>. QED BY <2>3, <2>4
<1>8. f \in Surjection(S, T)
  BY <1>6, <1>7 DEF Surjection
<1>9. /\ IsFiniteSet(S)
      /\ Cardinality(S) = IF <<p, 1>> \in Queued(k) THEN Cardinality(Queued(k)) - 1 ELSE Cardinality(Queued(k))
  BY FS_RemoveElement
<1>10. Head(queue[p]) = k => <<p, 1>> \in Queued(k)
  BY <1>1, <1>3, QueuedAt
<1>. HIDE DEF S, T, f
<1>11. IsFiniteSet(T) /\ Cardinality(T) <= Cardinality(S)
  BY <1>8, <1>9, FS_Surjection
<1>12. Cardinality(T) \in Nat /\ Cardinality(S) \in Nat /\ Cardinality(Queued(k)) \in Nat
  BY <1>9, <1>11, FS_CardinalityType
<1>. QED BY <1>9, <1>10, <1>11, <1>12 DEF T

\* The entry of k that a request submits goes to the end of a queue.
LEMMA AppendQueued ==
  ASSUME Refers, NEW k \in Key, IsFiniteSet(Queued(k)), NEW p \in Process, NEW i \in Key,
         queue' = [queue EXCEPT ![p] = Append(@, i)]
  PROVE  /\ IsFiniteSet(Queued(k)')
         /\ Cardinality(Queued(k)') <= Cardinality(Queued(k)) + 1
         /\ i # k => Queued(k)' \subseteq Queued(k)
<1>1. queue \in [Process -> Seq(Key)]
  BY DEF Refers, TypeOK
<1>2. queue'[p] = Append(queue[p], i) /\ \A q \in Process \ {p} : queue'[q] = queue[q]
  BY <1>1
<1>3. PICK n \in Nat : n = Len(queue[p]) /\ DOMAIN queue[p] = 1..n
  BY <1>1
<1>4. DOMAIN queue'[p] = 1..(n + 1) /\ queue'[p][n + 1] = i /\ \A j \in 1..n : queue'[p][j] = queue[p][j]
  BY <1>1, <1>2, <1>3
<1>5. \A e : e \in Queued(k)' <=> \E q \in Process : \E j \in DOMAIN queue'[q] : e = <<q, j>> /\ queue'[q][j] = k
  BY DEF Queued
<1>6. \A e \in Queued(k)' : e \in Queued(k) \/ (e = <<p, n + 1>> /\ i = k)
  <2> SUFFICES ASSUME NEW e \in Queued(k)' PROVE e \in Queued(k) \/ (e = <<p, n + 1>> /\ i = k)
    OBVIOUS
  <2>1. PICK q \in Process : \E j \in DOMAIN queue'[q] : e = <<q, j>> /\ queue'[q][j] = k
    BY <1>5
  <2>2. PICK j \in DOMAIN queue'[q] : e = <<q, j>> /\ queue'[q][j] = k
    BY <2>1
  <2>3. CASE q = p
    <3>1. j \in 1..n \/ j = n + 1
      BY <1>4, <2>3
    <3>2. CASE j \in 1..n
      <4>1. j \in DOMAIN queue[p] /\ queue[p][j] = k /\ e = <<p, j>>
        BY <1>3, <1>4, <2>2, <2>3, <3>2
      <4>. QED BY <4>1, QueuedAt
    <3>3. CASE j = n + 1
      BY <1>4, <2>2, <2>3, <3>3
    <3>. QED BY <3>1, <3>2, <3>3
  <2>4. CASE q # p
    BY <1>2, <2>2, <2>4, QueuedAt
  <2>. QED BY <2>3, <2>4
<1>7. PICK e : e = <<p, n + 1>>
  OBVIOUS
<1>8. Queued(k)' \subseteq Queued(k) \union {e} /\ (i # k => Queued(k)' \subseteq Queued(k))
  BY <1>6, <1>7
<1>9. /\ IsFiniteSet(Queued(k) \union {e})
      /\ Cardinality(Queued(k) \union {e}) <= Cardinality(Queued(k)) + 1
  BY AddOne
<1>10. IsFiniteSet(Queued(k)') /\ Cardinality(Queued(k)') <= Cardinality(Queued(k) \union {e})
  BY <1>8, <1>9, FS_Subset
<1>11. /\ Cardinality(Queued(k)') \in Nat /\ Cardinality(Queued(k) \union {e}) \in Nat
       /\ Cardinality(Queued(k)) \in Nat
  BY <1>9, <1>10, FS_CardinalityType
<1>. QED BY <1>8, <1>9, <1>10, <1>11


\* run_job: an entry becomes a thread, and a thread that commits "starting" counts.
LEMMA DequeuePaid ==
  ASSUME Refers, NEW k \in Key, Exists(k), Paid(k), NEW w \in Worker, Dequeue(w)
  PROVE  Paid(k)'
<1>1. PICK p \in Process : p = Home[w]
  BY JobsAssumption
<1>2. /\ queue[p] # <<>> /\ queue' = [queue EXCEPT ![p] = Tail(@)] /\ queue[p] \in Seq(Key)
      /\ UNCHANGED <<job, client, retries>> /\ worker[w].pc = "idle"
      /\ worker' = [worker EXCEPT ![w] = [pc |-> "fetch", key |-> Head(queue[p]), row |-> Null]]
  BY <1>1 DEF Dequeue, Refers, TypeOK
<1>3. worker'[w] = [pc |-> "fetch", key |-> Head(queue[p]), row |-> Null] /\ \A v \in Worker \ {w} : worker'[v] = worker[v]
  BY <1>2 DEF Refers, TypeOK
<1>4. /\ IsFiniteSet(Queued(k)') /\ Cardinality(Queued(k)') <= Cardinality(Queued(k))
      /\ Head(queue[p]) = k => Cardinality(Queued(k)') <= Cardinality(Queued(k)) - 1
  BY <1>2, TailQueued DEF Paid
<1>5. Submitting(k)' = Submitting(k)
  BY <1>2 DEF Submitting
<1>6. Unstarted(k)' = IF Head(queue[p]) = k THEN Unstarted(k) \union {w} ELSE Unstarted(k)
  BY <1>2, <1>3 DEF Unstarted
<1>7. Counted(k)' \subseteq Counted(k)
  BY <1>2, <1>3 DEF Counted, Unstarted
<1>8. /\ IsFiniteSet(Unstarted(k)') /\ IsFiniteSet(Unstarted(k))
      /\ Cardinality(Unstarted(k)') <= (IF Head(queue[p]) = k THEN Cardinality(Unstarted(k)) + 1
                                                             ELSE Cardinality(Unstarted(k)))
  <2>1. IsFiniteSet(Unstarted(k)) /\ Cardinality(Unstarted(k)) \in Nat
    BY OwedIsNat DEF Paid
  <2>2. CASE Head(queue[p]) = k
    BY <1>6, <2>1, <2>2, AddOne
  <2>3. CASE Head(queue[p]) # k
    BY <1>6, <2>1, <2>3
  <2>. QED BY <2>2, <2>3
<1>9. Cardinality(Queued(k)') \in Nat /\ Cardinality(Unstarted(k)') \in Nat
  BY <1>4, <1>8, FS_CardinalityType
<1>10. Owed(k)' <= Owed(k) /\ Owed(k)' \in Nat
  BY <1>4, <1>5, <1>8, <1>9, OwedIsNat DEF Owed
<1>11. ASSUME NEW n \in Counted(k)'
       PROVE  n + Owed(k)' <= 1 + retries'
  <2>1. n \in Nat /\ n + Owed(k) <= 1 + retries
    BY <1>7, OwedIsNat DEF Paid
  <2>. QED BY <1>2, <1>10, <2>1, OwedIsNat
<1>12. IsFiniteSet(Submitting(k)')
  BY <1>5 DEF Paid
<1>. QED BY <1>4, <1>8, <1>11, <1>12 DEF Paid

LEMMA CommitPaid ==
  ASSUME Refers, NEW k \in Key, Exists(k), Paid(k), NEW w \in Worker, UpdateCommit(w)
  PROVE  Paid(k)'
<1>1. PICK me : me = worker[w]
  OBVIOUS
<1>2. /\ me \in Thread /\ me.pc \in Update /\ me.row \in Row /\ me.key \in Key /\ job[me.key] \in Row
      /\ job' = [job EXCEPT ![me.key] = Flush(@, me.row, Assigned(me.row, me.pc))]
      /\ UNCHANGED <<queue, client, retries>> /\ job[k] \in Row /\ retries \in Nat /\ job \in [Key -> Row \union {Null}]
  BY <1>1 DEF UpdateCommit, Refers, TypeOK, ThreadsRefer, Thread, Update, Exists
<1>3. \A v \in Worker \ {w} : worker'[v] = worker[v]
  BY DEF UpdateCommit, Goto, Finish, Refers, TypeOK
<1>4. worker'[w].pc \notin {"fetch", "starting"}
  BY <1>1, <1>2 DEF UpdateCommit, Goto, Finish, Rest, UpdatedTo, Refers, TypeOK, Thread
<1>5. Queued(k)' = Queued(k) /\ Submitting(k)' = Submitting(k)
  BY <1>2 DEF Queued, Submitting
<1>6. Unstarted(k)' = Unstarted(k) \ {w}
  BY <1>3, <1>4 DEF Unstarted
<1>7. job'[k].attempts = IF me.key = k /\ me.pc = "starting" THEN me.row.attempts + 1 ELSE job[k].attempts
  <2>1. CASE me.key = k
    <3>1. job'[k] = Flush(job[k], me.row, Assigned(me.row, me.pc))
      BY <1>2, <2>1
    <3>2. me.row.attempts \in Nat
      BY <1>2 DEF Row
    <3>. QED BY <2>1, <3>1, <3>2 DEF Flush, Assigned
  <2>2. CASE me.key # k
    BY <1>2, <2>2
  <2>. QED BY <2>1, <2>2
<1>8. \A n \in Counted(k)' : n = job'[k].attempts \/ n \in Counted(k)
  BY <1>3, <1>4 DEF Counted, Unstarted
<1>9. CASE me.key = k /\ me.pc = "starting"
  <2>1. w \in Unstarted(k) /\ me.row.attempts \in Counted(k)
    BY <1>1, <1>2, <1>9, RowIsNotNull DEF Unstarted, Counted
  <2>2. IsFiniteSet(Unstarted(k)') /\ Cardinality(Unstarted(k)') = Cardinality(Unstarted(k)) - 1
    BY <1>6, <2>1, FS_RemoveElement DEF Paid
  <2>3. Owed(k)' = Owed(k) - 1
    BY <1>5, <2>2, OwedIsNat DEF Owed
  <2>4. ASSUME NEW n \in Counted(k)'
        PROVE  n + Owed(k)' <= 1 + retries'
    <3>1. PICK m \in Counted(k) : n = m \/ n = m + 1
      BY <1>7, <1>8, <1>9, <2>1
    <3>2. m \in Nat /\ m + Owed(k) <= 1 + retries
      BY OwedIsNat DEF Paid
    <3>. QED BY <1>2, <2>3, <3>1, <3>2, OwedIsNat
  <2>. QED BY <1>5, <2>2, <2>4 DEF Paid
<1>10. CASE ~(me.key = k /\ me.pc = "starting")
  <2>1. Counted(k)' \subseteq Counted(k)
    BY <1>7, <1>8, <1>10 DEF Counted
  <2>. QED BY <1>2, <1>5, <1>6, <2>1, PaysNothing
<1>. QED BY <1>9, <1>10

LEMMA ThreadPaid ==
  ASSUME Refers, NEW k \in Key, Exists(k), Paid(k), NEW w \in Worker,
         WorkerStep(w) \/ ThreadFails(w)
  PROVE  Paid(k)'
<1>1. CASE Observe(w) \/ UpdateRead(w) \/ HandlerReturns(w) \/ HandlerRaises(w) \/ ThreadFails(w)
  <2>1. UNCHANGED <<job, queue, client, retries>> /\ retries \in Nat
    BY <1>1 DEF Observe, UpdateRead, HandlerReturns, HandlerRaises, ThreadFails, Refers, TypeOK
  <2>2. \A v \in Worker \ {w} : worker'[v] = worker[v]
    BY <1>1 DEF Observe, UpdateRead, HandlerReturns, HandlerRaises, ThreadFails, Goto, Finish, Refers, TypeOK
  <2>3. worker'[w].pc \in {"fetch", "starting"} =>
          /\ worker[w].pc \in {"fetch", "starting"} /\ worker'[w].key = worker[w].key
          /\ worker'[w].row \in {Null, worker[w].row, job[worker[w].key]}
    <3>1. CASE Observe(w)
      BY <3>1 DEF Observe, Goto, Finish, Rest, ProceedTo, Refers, TypeOK, Thread
    <3>2. CASE UpdateRead(w)
      BY <3>2 DEF UpdateRead, Refers, TypeOK, Thread
    <3>3. CASE HandlerReturns(w) \/ HandlerRaises(w)
      BY <3>3 DEF HandlerReturns, HandlerRaises, Goto, Refers, TypeOK, Thread
    <3>4. CASE ThreadFails(w)
      BY <3>4 DEF ThreadFails, Goto, Finish, Rest, Refers, TypeOK, Thread
    <3>. QED BY <1>1, <3>1, <3>2, <3>3, <3>4
  <2>4. Unstarted(k)' \subseteq Unstarted(k)
    BY <2>2, <2>3 DEF Unstarted
  <2>5. Counted(k)' \subseteq Counted(k)
    BY <2>1, <2>2, <2>3 DEF Unstarted, Counted
  <2>6. Queued(k)' = Queued(k) /\ Submitting(k)' = Submitting(k)
    BY <2>1 DEF Queued, Submitting
  <2>. QED BY <2>1, <2>4, <2>5, <2>6, PaysNothing
<1>. QED BY <1>1, DequeuePaid, CommitPaid DEF WorkerStep

\* A step of request c that leaves the threads and what the table counts of k alone.
LEMMA RequestCounts ==
  ASSUME Refers, NEW k \in Key, UNCHANGED worker, job'[k].attempts = job[k].attempts
  PROVE  Unstarted(k)' = Unstarted(k) /\ Counted(k)' = Counted(k)
BY DEF Unstarted, Counted

LEMMA RequestSubmits ==
  ASSUME Refers, NEW k \in Key, NEW c \in Client, \A d \in Client \ {c} : client'[d] = client[d]
  PROVE  /\ client'[c].pc \in {"retry", "enqueue"} /\ client'[c].key = k =>
              Submitting(k)' = Submitting(k) \union {c}
         /\ ~(client'[c].pc \in {"retry", "enqueue"} /\ client'[c].key = k) =>
              Submitting(k)' = Submitting(k) \ {c}
BY DEF Submitting

LEMMA ArrivePaid ==
  ASSUME Refers, NEW k \in Key, Exists(k), Paid(k), NEW c \in Client, Arrive(c)
  PROVE  Paid(k)'
<1>1. UNCHANGED <<job, queue, worker>> /\ retries \in Nat
  BY DEF Arrive, CreateSelect, CancelRead, RetryCheck, Refers, TypeOK
<1>2. \A d \in Client \ {c} : client'[d] = client[d]
  BY DEF Arrive, CreateSelect, CancelRead, RetryCheck, Ask, Refers, TypeOK
<1>3. Queued(k)' = Queued(k) /\ Unstarted(k)' = Unstarted(k) /\ Counted(k)' = Counted(k)
  BY <1>1, RequestCounts DEF Queued
<1>4. CASE RetryCheck(c, k)
  <2>1. Submitting(k)' = Submitting(k) \union {c} /\ retries' = retries + 1
    BY <1>2, <1>4, RequestSubmits DEF RetryCheck, Ask, Refers, TypeOK
  <2>2. IsFiniteSet(Submitting(k)') /\ Cardinality(Submitting(k)') <= Cardinality(Submitting(k)) + 1
    BY <2>1, AddOne DEF Paid
  <2>3. Owed(k)' <= Owed(k) + 1 /\ Owed(k)' \in Nat
    <3>1. Cardinality(Submitting(k)') \in Nat
      BY <2>2, FS_CardinalityType
    <3>. QED BY <1>3, <2>2, <3>1, OwedIsNat DEF Owed
  <2>4. ASSUME NEW n \in Counted(k)'
        PROVE  n + Owed(k)' <= 1 + retries'
    <3>1. n \in Nat /\ n + Owed(k) <= 1 + retries
      BY <1>3, OwedIsNat DEF Paid
    <3>. QED BY <1>1, <2>1, <2>3, <3>1, OwedIsNat
  <2>. QED BY <1>3, <2>2, <2>4 DEF Paid
<1>5. CASE ~RetryCheck(c, k)
  <2>1. ~(client'[c].pc \in {"retry", "enqueue"} /\ client'[c].key = k) /\ retries' \in Nat /\ retries <= retries'
    BY <1>1, <1>5 DEF Arrive, CreateSelect, CancelRead, RetryCheck, Ask, Refers, TypeOK
  <2>2. Submitting(k)' \subseteq Submitting(k)
    BY <1>2, <2>1, RequestSubmits
  <2>. QED BY <1>3, <2>1, <2>2, PaysNothing
<1>. QED BY <1>4, <1>5


LEMMA ServePaid ==
  ASSUME Refers, NEW k \in Key, Exists(k), Paid(k), NEW c \in Client, Serve(c)
  PROVE  Paid(k)'
<1>1. UNCHANGED <<worker, retries>> /\ retries \in Nat
  BY DEF Serve, CreateInsert, AnswerDuplicate, Enqueue, CancelCommit, RetryRead, RetryCommit, Refers, TypeOK
<1>2. \A d \in Client \ {c} : client'[d] = client[d]
  BY DEF Serve, CreateInsert, AnswerDuplicate, Enqueue, CancelCommit, RetryRead, RetryCommit, Ask, Answer, Refers, TypeOK
<1>3. CASE Enqueue(c)
  <2>1. PICK i \in Key, p \in Process : i = client[c].key /\ p = Home[c]
    BY <1>3, JobsAssumption DEF Enqueue, Refers, RequestsRefer
  <2>2. queue' = [queue EXCEPT ![p] = Append(@, i)] /\ UNCHANGED job
    BY <1>3, <2>1 DEF Enqueue
  <2>3. Unstarted(k)' = Unstarted(k) /\ Counted(k)' = Counted(k)
    BY <1>1, <2>2, RequestCounts
  <2>4. Submitting(k)' = Submitting(k) \ {c}
    BY <1>2, <1>3, RequestSubmits DEF Enqueue, Answer, Rest, Refers, TypeOK
  <2>5. /\ IsFiniteSet(Queued(k)') /\ Cardinality(Queued(k)') <= Cardinality(Queued(k)) + 1
        /\ i # k => Queued(k)' \subseteq Queued(k)
    BY <2>2, AppendQueued DEF Paid
  <2>6. CASE i = k
    <3>1. c \in Submitting(k)
      BY <1>3, <2>1, <2>6 DEF Submitting, Enqueue
    <3>2. IsFiniteSet(Submitting(k)') /\ Cardinality(Submitting(k)') = Cardinality(Submitting(k)) - 1
      BY <2>4, <3>1, FS_RemoveElement DEF Paid
    <3>3. Cardinality(Queued(k)') \in Nat /\ Cardinality(Submitting(k)') \in Nat
      BY <2>5, <3>2, FS_CardinalityType
    <3>4. Owed(k)' <= Owed(k) /\ Owed(k)' \in Nat
      BY <2>3, <2>5, <3>2, <3>3, OwedIsNat DEF Owed
    <3>5. ASSUME NEW n \in Counted(k)'
          PROVE  n + Owed(k)' <= 1 + retries'
      <4>1. n \in Nat /\ n + Owed(k) <= 1 + retries
        BY <2>3, OwedIsNat DEF Paid
      <4>. QED BY <1>1, <3>4, <4>1, OwedIsNat
    <3>. QED BY <2>3, <2>5, <3>2, <3>5 DEF Paid
  <2>7. CASE i # k
    BY <1>1, <2>3, <2>4, <2>5, <2>7, PaysNothing
  <2>. QED BY <2>6, <2>7
<1>4. CASE ~Enqueue(c)
  <2>1. Queued(k)' = Queued(k)
    BY <1>4 DEF Serve, CreateInsert, AnswerDuplicate, CancelCommit, RetryRead, RetryCommit, Queued
  <2>2. job'[k].attempts = job[k].attempts
    <3>1. CASE CreateInsert(c)
      BY <3>1 DEF CreateInsert, Exists, Refers, TypeOK
    <3>2. CASE CancelCommit(c)
      <4>1. client[c].key \in Key /\ client[c].row \in Row
        BY <3>2 DEF CancelCommit, Refers, RequestsRefer
      <4>. QED BY <3>2, <4>1 DEF CancelCommit, Flush, Row, Refers, TypeOK
    <3>3. CASE RetryCommit(c)
      <4>1. client[c].key \in Key /\ client[c].row \in Row
        BY <3>3 DEF RetryCommit, Refers, TypeOK, RequestsRefer, Request
      <4>. QED BY <3>3, <4>1 DEF RetryCommit, Flush, Requeued, Row, Refers, TypeOK
    <3>4. CASE AnswerDuplicate(c) \/ RetryRead(c)
      BY <3>4 DEF AnswerDuplicate, RetryRead
    <3>. QED BY <1>4, <3>1, <3>2, <3>3, <3>4 DEF Serve
  <2>3. client'[c].pc \in {"retry", "enqueue"} /\ client'[c].key = k => c \in Submitting(k)
    <3>1. CASE CreateInsert(c)
      BY <3>1 DEF CreateInsert, Ask, Exists, Refers, TypeOK
    <3>2. CASE CancelCommit(c) \/ AnswerDuplicate(c)
      BY <3>2 DEF CancelCommit, AnswerDuplicate, Answer, Rest, Refers, TypeOK
    <3>3. CASE RetryCommit(c)
      BY <3>3 DEF RetryCommit, Ask, Submitting, Refers, TypeOK
    <3>4. CASE RetryRead(c)
      BY <3>4 DEF RetryRead, Submitting, Refers, TypeOK, Request
    <3>. QED BY <1>4, <3>1, <3>2, <3>3, <3>4 DEF Serve
  <2>4. Submitting(k)' \subseteq Submitting(k)
    BY <1>2, <2>3, RequestSubmits
  <2>. QED BY <1>1, <2>1, <2>2, <2>4, RequestCounts, PaysNothing
<1>. QED BY <1>3, <1>4

LEMMA CrashPaid ==
  ASSUME Refers, NEW k \in Key, Exists(k), Paid(k), NEW p \in Process, Crash(p)
  PROVE  Paid(k)'
<1>1. UNCHANGED <<job, retries>> /\ retries \in Nat
  BY DEF Crash, Refers, TypeOK
<1>2. \A q \in Process : queue'[q] = <<>> \/ queue'[q] = queue[q]
  BY DEF Crash, Refers, TypeOK
<1>3. /\ \A w \in Worker : worker'[w] = Rest \/ worker'[w] = worker[w]
      /\ \A c \in Client : client'[c] = Rest \/ client'[c] = client[c]
  BY DEF Crash
<1>4. Queued(k)' \subseteq Queued(k)
  BY <1>2 DEF Queued
<1>5. Submitting(k)' \subseteq Submitting(k) /\ Unstarted(k)' \subseteq Unstarted(k)
  BY <1>3 DEF Submitting, Unstarted, Rest
<1>6. Counted(k)' \subseteq Counted(k)
  BY <1>1, <1>3 DEF Counted, Unstarted, Rest
<1>. QED BY <1>1, <1>4, <1>5, <1>6, PaysNothing

LEMMA RequestFailsPaid ==
  ASSUME Refers, NEW k \in Key, Exists(k), Paid(k), NEW c \in Client, RequestFails(c)
  PROVE  Paid(k)'
<1>1. UNCHANGED <<job, queue, worker, retries>> /\ retries \in Nat
  BY DEF RequestFails, Refers, TypeOK
<1>2. \A d \in Client : client'[d] = Rest \/ client'[d] = client[d]
  BY DEF RequestFails, Answer, Refers, TypeOK
<1>3. Queued(k)' = Queued(k)
  BY <1>1 DEF Queued
<1>4. Submitting(k)' \subseteq Submitting(k)
  BY <1>2 DEF Submitting, Rest
<1>. QED BY <1>1, <1>3, <1>4, RequestCounts, PaysNothing

\* A new row: nothing was owed to its key, and now its insertion is.
LEMMA InsertedPaid ==
  ASSUME Refers, NEW k \in Key, ~Exists(k), Exists(k)', Next
  PROVE  Paid(k)'
<1>1. PICK c \in Client : CreateInsert(c) /\ client[c].key = k
  <2>1. ASSUME NEW w \in Worker, WorkerStep(w) \/ ThreadFails(w) PROVE job'[k] = job[k]
    <3>1. CASE UpdateCommit(w)
      <4>1. worker[w].key \in Key /\ worker[w].key # k
        BY <3>1 DEF UpdateCommit, Refers, ThreadsRefer, Update
      <4>. QED BY <3>1, <4>1 DEF UpdateCommit
    <3>. QED BY <2>1, <3>1 DEF WorkerStep, ThreadFails, Dequeue, Observe, UpdateRead, HandlerReturns, HandlerRaises
  <2>2. ASSUME NEW c \in Client, Arrive(c) \/ Serve(c) \/ RequestFails(c), ~(CreateInsert(c) /\ client[c].key = k)
        PROVE  job'[k] = job[k]
    <3>1. CASE CancelCommit(c) \/ RetryCommit(c)
      <4>1. client[c].key \in Key /\ client[c].key # k
        BY <3>1 DEF CancelCommit, RetryCommit, Refers, RequestsRefer
      <4>. QED BY <3>1, <4>1 DEF CancelCommit, RetryCommit, Refers, TypeOK
    <3>2. CASE CreateInsert(c)
      BY <2>2, <3>2 DEF CreateInsert, Refers, TypeOK
    <3>. QED BY <2>2, <3>1, <3>2 DEF Arrive, CreateSelect, CancelRead, RetryCheck, Serve, AnswerDuplicate, Enqueue,
                                 RetryRead, RequestFails
  <2>3. ASSUME NEW p \in Process, Crash(p) PROVE job'[k] = job[k]
    BY <2>3 DEF Crash
  <2>. QED BY <2>1, <2>2, <2>3 DEF Next, Exists
<1>2. /\ job' = [job EXCEPT ![k] = NewRow] /\ UNCHANGED <<queue, worker, retries>> /\ retries \in Nat
      /\ client'[c].pc = "enqueue" /\ client'[c].key = k
      /\ \A d \in Client \ {c} : client'[d] = client[d]
  BY <1>1 DEF CreateInsert, Ask, Exists, Refers, TypeOK
<1>3. Queued(k)' = {}
  <2>1. queue \in [Process -> Seq(Key)]
    BY DEF Refers, TypeOK
  <2>2. \A p \in Process : \A i \in DOMAIN queue[p] : queue[p][i] # k
    BY DEF Refers, QueueRefers
  <2>. QED BY <1>2, <2>2 DEF Queued
<1>4. Unstarted(k)' = {}
  BY <1>2 DEF Unstarted, Refers, ThreadsRefer
<1>5. Submitting(k)' = {c}
  <2>1. \A d \in Client : client[d].pc \in {"retry", "enqueue"} => client[d].key # k
    BY DEF Refers, RequestsRefer
  <2>. QED BY <1>2, <2>1 DEF Submitting
<1>6. Counted(k)' = {0}
  BY <1>2, <1>4 DEF Counted, NewRow, Refers, TypeOK
<1>7. IsFiniteSet({}) /\ Cardinality({}) = 0 /\ IsFiniteSet({c}) /\ Cardinality({c}) <= 1 /\ Cardinality({c}) \in Nat
  <2>1. PICK S : S = {}
    OBVIOUS
  <2>2. IsFiniteSet(S) /\ Cardinality(S) = 0
    BY <2>1, FS_EmptySet
  <2>3. /\ IsFiniteSet(S \union {c}) /\ Cardinality(S \union {c}) \in Nat
        /\ Cardinality(S \union {c}) <= Cardinality(S) + 1
    BY <2>2, AddOne, Zenon
  <2>4. S \union {c} = {c}
    BY <2>1
  <2>. QED BY <2>1, <2>2, <2>3, <2>4
<1>8. Owed(k)' <= 1 /\ Owed(k)' \in Nat
  BY <1>3, <1>4, <1>5, <1>7 DEF Owed
<1>9. \A n \in Counted(k)' : n + Owed(k)' <= 1 + retries'
  BY <1>2, <1>6, <1>8
<1>. QED BY <1>3, <1>4, <1>5, <1>7, <1>9 DEF Paid

LEMMA NextPaid == Refers /\ PaidInv /\ [Next]_vars => PaidInv'
<1> SUFFICES ASSUME Refers, PaidInv, [Next]_vars, NEW k \in Key, Exists(k)'
             PROVE  Paid(k)'
  BY DEF PaidInv
<1>1. CASE UNCHANGED vars
  <2>1. Exists(k) /\ Paid(k)
    BY <1>1 DEF vars, PaidInv, Exists
  <2>. QED BY <1>1, <2>1 DEF vars, Paid, Owed, Queued, Submitting, Unstarted, Counted
<1>2. CASE Next /\ Exists(k)
  <2>1. Paid(k)
    BY <1>2 DEF PaidInv
  <2>. QED BY <1>2, <2>1, ThreadPaid, ArrivePaid, ServePaid, CrashPaid, RequestFailsPaid DEF Next
<1>3. CASE Next /\ ~Exists(k)
  BY <1>3, InsertedPaid
<1>. QED BY <1>1, <1>2, <1>3

\* An execution that was paid for stays owed until it is counted, and is counted once,
\* whatever copies of the row the threads hold.
THEOREM OwedIsPaid == Spec => []PaidInv
<1>1. Init => Refers /\ PaidInv
  BY InitRefers DEF Init, PaidInv, Exists
<1>. QED BY <1>1, NextRefers, NextPaid, PTL DEF Spec

\* attempt_count never exceeds the executions that were asked for: one for the insertion,
\* one for each retry that was accepted.
THEOREM AttemptsArePaidFor == Spec => []AttemptsPaidFor
<1>1. Refers /\ PaidInv => AttemptsPaidFor
  <2> SUFFICES ASSUME Refers, PaidInv, NEW k \in Key, Exists(k) PROVE job[k].attempts <= 1 + retries
    BY DEF AttemptsPaidFor
  <2>1. Paid(k) /\ job[k].attempts \in Counted(k)
    BY DEF PaidInv, Counted
  <2>2. job[k].attempts + Owed(k) <= 1 + retries
    BY <2>1 DEF Paid
  <2>. QED BY <2>1, <2>2, OwedIsNat
<1>2. Init => Refers /\ PaidInv
  BY InitRefers DEF Init, PaidInv, Exists
<1>. QED BY <1>1, <1>2, NextRefers, NextPaid, PTL DEF Spec

=============================================================================
