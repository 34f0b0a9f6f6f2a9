----------------------- MODULE ConstrainedExecutorProofs -----------------------
(***************************************************************************)
(* Proofs about ConstrainedExecutor, for any sets of tasks, callers and    *)
(* delegate threads, any limit and any queue capacity: the counter is      *)
(* exact, the concurrency limit holds, no task is stranded, and the        *)
(* executor implements a bounded pool.                                     *)
(***************************************************************************)
EXTENDS ConstrainedExecutor, FiniteSetTheorems, SequenceTheorems, TLAPS

\* The inductive invariant.  The counter's exactness is needed for both other
\* facts: a caller leaves because it saw the limit reached, and that is only a
\* guarantee if the counter stands for workers that
\* exist; and compareAndSet keeps the limit only because the value it swaps
\* passed the test.
SnapshotBelowLimit ==
    \A p \in Procs : pc[p] = "cas" => currentCount[p] < MaxConcurrency

IInv == TypeOK /\ WorkerAccounting /\ SnapshotBelowLimit /\ NoStrandedTask

--------------------------------------------------------------------------------
(* How a move of one thread changes the set of pending workers *)

\* The holders of a place are finitely many, so they can be counted.
LEMMA HoldersFinite ==
  /\ IsFiniteSet(Holders)
  /\ Cardinality(Holders) \in Nat
<1>1. IsFiniteSet(Procs)
  BY CallersAssumption, FS_Union DEF Procs
<1>2. Holders \in SUBSET Procs
  BY DEF Holders
<1> QED
  BY <1>1, <1>2, FS_Subset, FS_CardinalityType

\* A thread that takes a place adds one to the holders.
LEMMA TakePlace ==
  ASSUME TypeOK, NEW p \in Procs, NEW label \in Holding, Goto(p, label),
         pc[p] \notin Holding
  PROVE  Cardinality(Holders') = Cardinality(Holders) + 1
<1>1. Holders' = Holders \union {p}
  BY DEF TypeOK, Goto, Holders
<1>2. p \notin Holders
  BY DEF Holders
<1> QED
  BY <1>1, <1>2, HoldersFinite, FS_AddElement

\* A thread that leaves its place takes one from the holders.
LEMMA LeavePlace ==
  ASSUME TypeOK, NEW p \in Procs, NEW label, Goto(p, label),
         pc[p] \in Holding, label \notin Holding
  PROVE  Cardinality(Holders') = Cardinality(Holders) - 1
<1>1. Holders' = Holders \ {p}
  BY DEF TypeOK, Goto, Holders
<1>2. p \in Holders
  BY DEF Holders
<1> QED
  BY <1>1, <1>2, HoldersFinite, FS_RemoveElement

\* A thread that moves within, or outside, the places changes nothing.
LEMMA KeepPlace ==
  ASSUME TypeOK, NEW p \in Procs, NEW label, Goto(p, label),
         pc[p] \in Holding <=> label \in Holding
  PROVE  Holders' = Holders
  BY DEF TypeOK, Goto, Holders

\* A move of one thread keeps pc in its type.
LEMMA GotoType ==
  ASSUME TypeOK, NEW p \in Procs, NEW label \in Busy \union {"idle"}, Goto(p, label),
         p \in Callers => label \in {"idle", "get", "cas", "start"}
  PROVE  /\ pc' \in [Procs -> Busy \union {"idle"}]
         /\ \A c \in Callers : pc'[c] \in {"idle", "get", "cas", "start"}
         /\ pc'[p] = label
         /\ \A q \in Procs \ {p} : pc'[q] = pc[q]
  BY DEF TypeOK, Goto, Procs

--------------------------------------------------------------------------------
(* The steps *)

\* A worker that is about to decrement finds the counter above zero.
LEMMA DecrementPositive ==
  ASSUME IInv, NEW w \in Threads, pc[w] = "decrement"
  PROVE  mPendingWorkers - 1 \in Nat
<1>1. w \in Holders
  BY DEF Holders, Holding, Procs
<1>2. Cardinality(Holders) # 0
  BY <1>1, HoldersFinite, FS_EmptySet
<1> QED
  BY <1>2, HoldersFinite DEF IInv, TypeOK, WorkerAccounting

\* Every step keeps each variable in its type: the queue stays within its
\* capacity, and a thread holds a task exactly while it runs one.
LEMMA TypeStep == ASSUME IInv, [Next]_vars PROVE TypeOK'
<1> USE DEF IInv
<1>1. ASSUME NEW c \in Callers, NEW t \in Tasks, Offer(c, t) PROVE TypeOK'
  BY <1>1, DisjointAssumption, QueueSizeAssumption DEF TypeOK, Offer, QueueHasRoom, Goto, Procs, Busy, Holding
<1>2. ASSUME NEW c \in Callers, NEW t \in Tasks, Reject(c, t) PROVE TypeOK'
  BY <1>2 DEF TypeOK, Reject
<1>3. ASSUME NEW p \in Procs, GetCount(p) PROVE TypeOK'
  BY <1>3 DEF TypeOK, GetCount, Goto, Procs, Busy, Holding
<1>4. ASSUME NEW p \in Procs, CompareAndSet(p) PROVE TypeOK'
  <2>1. CASE SnapshotCurrent(p)
    <3>1. Goto(p, "start") /\ "start" \in Busy \union {"idle"} /\ pc[p] # "run"
      BY <1>4, <2>1 DEF CompareAndSet, Busy, Holding
    <3>2. mPendingWorkers' \in Nat
      BY <1>4, <2>1 DEF TypeOK, CompareAndSet
    <3> QED
      BY <1>4, <3>1, <3>2, GotoType DEF TypeOK, CompareAndSet, Procs
  <2>2. CASE ~ SnapshotCurrent(p)
    <3>1. Goto(p, "get") /\ "get" \in Busy \union {"idle"} /\ pc[p] # "run"
      BY <1>4, <2>2 DEF CompareAndSet, Busy, Holding
    <3>2. mPendingWorkers' \in Nat
      BY <1>4, <2>2 DEF TypeOK, CompareAndSet
    <3> QED
      BY <1>4, <3>1, <3>2, GotoType DEF TypeOK, CompareAndSet, Procs
  <2> QED BY <2>1, <2>2
<1>5. ASSUME NEW p \in Procs, StartWorker(p) PROVE TypeOK'
  BY <1>5 DEF TypeOK, StartWorker, Goto, Procs, Busy, Holding
<1>6. ASSUME NEW w \in Threads, Begin(w) PROVE TypeOK'
  BY <1>6, DisjointAssumption DEF TypeOK, Begin, Goto, Procs, Busy, Holding
<1>7. ASSUME NEW w \in Threads, Poll(w) PROVE TypeOK'
  <2> w \in Procs /\ w \notin Callers
    BY DisjointAssumption DEF Procs
  <2>1. CASE mWorkQueue # << >>
    <3>1. Goto(w, "run") /\ "run" \in Busy \union {"idle"}
      BY <1>7, <2>1 DEF Poll, Busy, Holding
    <3>2. /\ task' = [task EXCEPT ![w] = Head(mWorkQueue)]
          /\ mWorkQueue' = Tail(mWorkQueue)
      BY <1>7, <2>1 DEF Poll, QueueAfterPoll
    <3>3. /\ Head(mWorkQueue) \in Tasks
          /\ Tail(mWorkQueue) \in Seq(Tasks)
          /\ Len(Tail(mWorkQueue)) = Len(mWorkQueue) - 1
          /\ Len(mWorkQueue) \in Nat
      BY <2>1, HeadTailProperties, LenProperties DEF TypeOK
    <3>4. Len(mWorkQueue') <= QueueSize
      BY <3>2, <3>3, QueueSizeAssumption DEF TypeOK
    <3>5. /\ task' \in [Threads -> Tasks \union {NoTask}]
          /\ task'[w] # NoTask
          /\ \A v \in Threads \ {w} : task'[v] = task[v]
      BY <3>2, <3>3, NoTaskAssumption DEF TypeOK
    <3>6. \A v \in Threads : pc'[v] = "run" <=> task'[v] # NoTask
      BY <3>1, <3>5, GotoType DEF TypeOK, Procs
    <3> QED
      BY <1>7, <3>1, <3>2, <3>3, <3>4, <3>5, <3>6, GotoType DEF TypeOK, Poll
  <2>2. CASE mWorkQueue = << >>
    <3>1. Goto(w, "decrement") /\ "decrement" \in Busy \union {"idle"} /\ pc[w] # "run"
      BY <1>7, <2>2 DEF Poll, Busy, Holding
    <3> QED
      BY <1>7, <2>2, <3>1, GotoType DEF TypeOK, Poll, Procs
  <2> QED BY <2>1, <2>2
<1>8. ASSUME NEW w \in Threads, Run(w) PROVE TypeOK'
  BY <1>8, DisjointAssumption, NoTaskAssumption DEF TypeOK, Run, Goto, Procs, Busy, Holding
<1>9. ASSUME NEW w \in Threads, Decrement(w) PROVE TypeOK'
  BY <1>9, DecrementPositive, DisjointAssumption
  DEF TypeOK, Decrement, Goto, Procs, Busy, Holding
<1>10. ASSUME NEW w \in Threads, CheckQueue(w) PROVE TypeOK'
  BY <1>10, DisjointAssumption
  DEF TypeOK, CheckQueue, Goto, AfterDecrement, Procs, Busy, Holding
<1>11. CASE UNCHANGED vars
  BY <1>11 DEF TypeOK, vars
<1> QED
  BY <1>1, <1>2, <1>3, <1>4, <1>5, <1>6, <1>7, <1>8, <1>9, <1>10, <1>11
  DEF Next, StartWorkerIfNeeded, WorkerStep

\* Every step keeps the counter equal to the number of workers: a place is
\* taken by compareAndSet, handed to the delegate, begun, and given back by
\* the decrement, and the limit was tested on the value that was swapped.
LEMMA AccountingStep ==
  ASSUME IInv, [Next]_vars
  PROVE  WorkerAccounting'
<1> USE DEF IInv, SnapshotBelowLimit
<1> DEFINE n == Cardinality(Holders)
<1> n \in Nat /\ mPendingWorkers \in Nat /\ delegated \in Nat /\ MaxConcurrency \in Nat
  BY HoldersFinite, ConcurrencyAssumption DEF TypeOK
<1> /\ mPendingWorkers = delegated + n
    /\ mPendingWorkers <= MaxConcurrency
  BY DEF WorkerAccounting
<1> SUFFICES /\ mPendingWorkers' = delegated' + Cardinality(Holders')
             /\ mPendingWorkers' <= MaxConcurrency
  BY DEF WorkerAccounting
<1> HIDE DEF n
<1> USE DEF Procs
<1>1. ASSUME NEW c \in Callers, NEW t \in Tasks, Offer(c, t) PROVE WorkerAccounting'
  <2>1. Holders' = Holders
    BY <1>1, KeepPlace DEF Offer, Holding
  <2> QED BY <1>1, <2>1 DEF Offer, WorkerAccounting
<1>2. ASSUME NEW c \in Callers, NEW t \in Tasks, Reject(c, t) PROVE WorkerAccounting'
  BY <1>2 DEF Reject, WorkerAccounting, Holders
<1>3. ASSUME NEW p \in Procs, GetCount(p) PROVE WorkerAccounting'
  <2>1. Holders' = Holders
    BY <1>3, KeepPlace DEF GetCount, Holding
  <2> QED BY <1>3, <2>1 DEF GetCount, WorkerAccounting
<1>4. ASSUME NEW p \in Procs, CompareAndSet(p) PROVE WorkerAccounting'
  <2>1. CASE SnapshotCurrent(p)
    <3>1. Cardinality(Holders') = n + 1
      BY <1>4, <2>1, TakePlace DEF CompareAndSet, Holding, n
    <3> QED
      BY <1>4, <2>1, <3>1 DEF CompareAndSet, SnapshotCurrent, WorkerAccounting
  <2>2. CASE ~ SnapshotCurrent(p)
    <3>1. Holders' = Holders
      BY <1>4, <2>2, KeepPlace DEF CompareAndSet, Holding
    <3> QED BY <1>4, <2>2, <3>1 DEF CompareAndSet, WorkerAccounting
  <2> QED BY <2>1, <2>2
<1>5. ASSUME NEW p \in Procs, StartWorker(p) PROVE WorkerAccounting'
  <2>1. Cardinality(Holders') = n - 1
    BY <1>5, LeavePlace DEF StartWorker, Holding, n
  <2> QED BY <1>5, <2>1 DEF StartWorker, WorkerAccounting
<1>6. ASSUME NEW w \in Threads, Begin(w) PROVE WorkerAccounting'
  <2>1. Cardinality(Holders') = n + 1
    BY <1>6, TakePlace DEF Begin, Holding, n
  <2> QED BY <1>6, <2>1 DEF Begin, WorkerAccounting
<1>7. ASSUME NEW w \in Threads, Poll(w) PROVE WorkerAccounting'
  <2>1. Holders' = Holders
    BY <1>7, KeepPlace DEF Poll, Holding
  <2> QED BY <1>7, <2>1 DEF Poll, WorkerAccounting
<1>8. ASSUME NEW w \in Threads, Run(w) PROVE WorkerAccounting'
  <2>1. Holders' = Holders
    BY <1>8, KeepPlace DEF Run, Holding
  <2> QED BY <1>8, <2>1 DEF Run, WorkerAccounting
<1>9. ASSUME NEW w \in Threads, Decrement(w) PROVE WorkerAccounting'
  <2>1. Cardinality(Holders') = n - 1
    BY <1>9, LeavePlace DEF Decrement, Holding, n
  <2> QED BY <1>9, <2>1 DEF Decrement, WorkerAccounting
<1>10. ASSUME NEW w \in Threads, CheckQueue(w) PROVE WorkerAccounting'
  <2>1. Holders' = Holders
    BY <1>10, KeepPlace DEF CheckQueue, AfterDecrement, Holding
  <2> QED BY <1>10, <2>1 DEF CheckQueue, WorkerAccounting
<1>11. CASE UNCHANGED vars
  BY <1>11 DEF vars, WorkerAccounting, Holders
<1> QED
  BY <1>1, <1>2, <1>3, <1>4, <1>5, <1>6, <1>7, <1>8, <1>9, <1>10, <1>11
  DEF Next, StartWorkerIfNeeded, WorkerStep, WorkerAccounting

\* Only the test of a snapshot below the limit leads to compareAndSet.
LEMMA SnapshotStep == ASSUME IInv, [Next]_vars PROVE SnapshotBelowLimit'
<1> USE DEF IInv, TypeOK, SnapshotBelowLimit, Goto
<1>1. ASSUME NEW p \in Procs, GetCount(p) PROVE SnapshotBelowLimit'
  BY <1>1 DEF GetCount, RoomForWorker
<1>2. ASSUME NEW p \in Procs, CompareAndSet(p) \/ StartWorker(p)
      PROVE SnapshotBelowLimit'
  BY <1>2 DEF CompareAndSet, StartWorker
<1>3. ASSUME NEW c \in Callers, NEW t \in Tasks, Offer(c, t) \/ Reject(c, t)
      PROVE SnapshotBelowLimit'
  BY <1>3 DEF Offer, Reject
<1>4. ASSUME NEW w \in Threads, WorkerStep(w) PROVE SnapshotBelowLimit'
  BY <1>4 DEF WorkerStep, Begin, Poll, Run, Decrement, CheckQueue, AfterDecrement
<1>5. CASE UNCHANGED vars
  BY <1>5 DEF vars
<1> QED
  BY <1>1, <1>2, <1>3, <1>4, <1>5 DEF Next, StartWorkerIfNeeded

\* No step strands a task.  The two ways out of the executor are the delicate
\* ones: GetCount leaves when the limit is reached, where the exact counter
\* shows a worker that will come back to the queue, and CheckQueue leaves only
\* when the queue is empty.
LEMMA NoStrandedStep == ASSUME IInv, [Next]_vars PROVE NoStrandedTask'
<1> USE DEF IInv
<1> DEFINE Somebody == delegated > 0 \/ \E p \in Procs : pc[p] \in Busy
<1>1. ASSUME NEW c \in Callers, NEW t \in Tasks, Offer(c, t) PROVE NoStrandedTask'
  <2>1. c \in Procs /\ pc'[c] = "get"
    BY <1>1 DEF Offer, Goto, TypeOK, Procs
  <2> QED BY <2>1 DEF NoStrandedTask, Busy
<1>2. ASSUME NEW c \in Callers, NEW t \in Tasks, Reject(c, t) PROVE NoStrandedTask'
  BY <1>2 DEF Reject, NoStrandedTask
<1>3. ASSUME NEW p \in Procs, GetCount(p) PROVE NoStrandedTask'
  <2>1. CASE RoomForWorker(mPendingWorkers)
    <3>1. pc'[p] = "cas"
      BY <1>3, <2>1 DEF GetCount, Goto, TypeOK
    <3> QED BY <3>1 DEF NoStrandedTask, Busy
  <2>2. CASE ~ RoomForWorker(mPendingWorkers)
    <3>1. mPendingWorkers > 0
      BY <2>2, ConcurrencyAssumption DEF RoomForWorker, TypeOK
    <3>2. delegated > 0 \/ Cardinality(Holders) # 0
      BY <3>1, HoldersFinite DEF WorkerAccounting, TypeOK
    <3>3. delegated > 0 \/ \E q \in Procs : pc[q] \in Holding
      BY <3>2, FS_EmptySet DEF Holders
    <3>4. ASSUME NEW q \in Procs, pc[q] \in Holding PROVE pc'[q] \in Busy
      BY <1>3, <3>4 DEF GetCount, Goto, TypeOK, Holding, Busy
    <3>5. delegated' = delegated
      BY <1>3 DEF GetCount
    <3> QED BY <3>3, <3>4, <3>5 DEF NoStrandedTask
  <2> QED BY <2>1, <2>2
<1>4. ASSUME NEW p \in Procs, CompareAndSet(p) PROVE NoStrandedTask'
  <2>1. pc'[p] \in {"start", "get"}
    BY <1>4 DEF CompareAndSet, Goto, TypeOK
  <2> QED BY <2>1 DEF NoStrandedTask, Busy, Holding
<1>5. ASSUME NEW p \in Procs, StartWorker(p) PROVE NoStrandedTask'
  BY <1>5 DEF StartWorker, NoStrandedTask, TypeOK
<1>6. ASSUME NEW w \in Threads, Begin(w) \/ Poll(w) \/ Run(w) \/ Decrement(w)
      PROVE NoStrandedTask'
  <2>1. w \in Procs /\ pc'[w] \in {"poll", "run", "decrement", "check"}
    BY <1>6 DEF Begin, Poll, Run, Decrement, Goto, TypeOK, Procs
  <2> QED BY <2>1 DEF NoStrandedTask, Busy, Holding
<1>7. ASSUME NEW w \in Threads, CheckQueue(w) PROVE NoStrandedTask'
  <2>1. CASE mWorkQueue = << >>
    BY <1>7, <2>1 DEF CheckQueue, NoStrandedTask
  <2>2. CASE mWorkQueue # << >>
    <3>1. w \in Procs /\ pc'[w] = "get"
      BY <1>7, <2>2 DEF CheckQueue, AfterDecrement, Goto, TypeOK, Procs
    <3> QED BY <3>1 DEF NoStrandedTask, Busy
  <2> QED BY <2>1, <2>2
<1>8. CASE UNCHANGED vars
  BY <1>8 DEF vars, NoStrandedTask
<1> QED
  BY <1>1, <1>2, <1>3, <1>4, <1>5, <1>6, <1>7, <1>8
  DEF Next, StartWorkerIfNeeded, WorkerStep

\* Initially nobody is in the executor.
LEMMA InitIInv == Init => IInv
<1> SUFFICES ASSUME Init PROVE IInv
  OBVIOUS
<1>1. Holders = {}
  BY DEF Init, Holders, Holding
<1>2. TypeOK
  BY ConcurrencyAssumption, QueueSizeAssumption, DisjointAssumption
  DEF Init, TypeOK, Procs, Busy, Holding
<1>3. WorkerAccounting
  BY <1>1, FS_EmptySet, ConcurrencyAssumption DEF Init, WorkerAccounting
<1>4. SnapshotBelowLimit /\ NoStrandedTask
  BY DEF Init, SnapshotBelowLimit, NoStrandedTask
<1> QED
  BY <1>2, <1>3, <1>4 DEF IInv

--------------------------------------------------------------------------------
(* The theorems *)

\* The invariant is inductive.
THEOREM Invariance == Safety => []IInv
<1>1. IInv /\ [Next]_vars => IInv'
  BY TypeStep, AccountingStep, SnapshotStep, NoStrandedStep DEF IInv
<1> QED
  BY InitIInv, <1>1, PTL DEF Safety

\* Type correctness: in particular the queue never exceeds its capacity.
THEOREM TypeCorrect == Safety => []TypeOK
<1>1. IInv => TypeOK
  BY DEF IInv
<1> QED
  BY Invariance, <1>1, PTL

\* The counter mPendingWorkers is exact and within the limit, at every step of
\* every race through startWorkerIfNeeded and Worker.run.
THEOREM CounterExact == Safety => []WorkerAccounting
<1>1. IInv => WorkerAccounting
  BY DEF IInv
<1> QED
  BY Invariance, <1>1, PTL

\* No accepted task is stranded in the queue.
THEOREM NothingStranded == Safety => []NoStrandedTask
<1>1. IInv => NoStrandedTask
  BY DEF IInv
<1> QED
  BY Invariance, <1>1, PTL

\* Running threads are holders, and holders are counted.
LEMMA RunningBounded == IInv => ConcurrencyBound
<1> SUFFICES ASSUME IInv PROVE ConcurrencyBound
  OBVIOUS
<1>1. Running \in SUBSET Holders
  BY DEF Running, Holders, Holding, Procs
<1>2. IsFiniteSet(Running) /\ Cardinality(Running) <= Cardinality(Holders)
  BY <1>1, HoldersFinite, FS_Subset
<1>3. Cardinality(Running) \in Nat
  BY <1>2, FS_CardinalityType
<1> QED
  BY <1>2, <1>3, HoldersFinite, ConcurrencyAssumption
  DEF IInv, WorkerAccounting, TypeOK, ConcurrencyBound

\* At most mMaxConcurrency tasks run at once.
THEOREM ConcurrencyLimit == Safety => []ConcurrencyBound
  BY Invariance, RunningBounded, PTL

--------------------------------------------------------------------------------
(* Refinement of BoundedPool *)

RunningTasks == {task[w] : w \in Running}

\* Each task is in one place: not submitted, once in the queue, or run by one
\* thread.
OnePlace ==
    /\ \A i, j \in 1..Len(mWorkQueue) : mWorkQueue[i] = mWorkQueue[j] => i = j
    /\ \A i \in 1..Len(mWorkQueue) :
          mWorkQueue[i] \notin fresh /\ \A w \in Running : mWorkQueue[i] # task[w]
    /\ \A v, w \in Running : task[v] = task[w] => v = w
    /\ \A w \in Running : task[w] \notin fresh

\* Offering moves a task from fresh to the end of the queue, polling from its
\* head to the thread that will run it.
LEMMA OnePlaceStep == ASSUME IInv, OnePlace, [Next]_vars PROVE OnePlace'
<1> USE DEF IInv
<1>q. Len(mWorkQueue) \in Nat
  BY LenProperties DEF TypeOK
<1>1. ASSUME NEW c \in Callers, NEW t \in Tasks, Offer(c, t) PROVE OnePlace'
  <2>1. Running' = Running /\ task' = task
    BY <1>1, DisjointAssumption DEF Offer, Running, Goto, TypeOK, Procs
  <2>2. /\ Len(mWorkQueue') = Len(mWorkQueue) + 1
        /\ \A i \in 1..Len(mWorkQueue) : mWorkQueue'[i] = mWorkQueue[i]
        /\ mWorkQueue'[Len(mWorkQueue) + 1] = t
    BY <1>1, AppendProperties DEF Offer, TypeOK
  <2>3. fresh' = fresh \ {t} /\ t \in fresh
    BY <1>1 DEF Offer
  <2>4. \A i \in 1..Len(mWorkQueue') :
           i \in 1..Len(mWorkQueue) \/ i = Len(mWorkQueue) + 1
    BY <2>2, <1>q
  <2>5. \A i \in 1..Len(mWorkQueue) : mWorkQueue[i] # t
    BY <2>3 DEF OnePlace
  <2>6. \A w \in Running : task[w] # t
    BY <2>3 DEF OnePlace
  <2> QED BY <2>1, <2>2, <2>3, <2>4, <2>5, <2>6 DEF OnePlace
<1>2. ASSUME NEW w \in Threads, Poll(w), mWorkQueue # << >> PROVE OnePlace'
  <2> DEFINE t == Head(mWorkQueue)
  <2>1. /\ t = mWorkQueue[1]
        /\ 1 \in 1..Len(mWorkQueue)
        /\ Len(Tail(mWorkQueue)) = Len(mWorkQueue) - 1
        /\ \A i \in 1..Len(Tail(mWorkQueue)) : Tail(mWorkQueue)[i] = mWorkQueue[i + 1]
    BY <1>2, <1>q, HeadTailProperties, EmptySeq DEF TypeOK
  <2>2. mWorkQueue' = Tail(mWorkQueue) /\ fresh' = fresh
    BY <1>2 DEF Poll, QueueAfterPoll
  <2>3. /\ task' = [task EXCEPT ![w] = t]
        /\ pc' = [pc EXCEPT ![w] = "run"]
        /\ pc[w] = "poll"
    BY <1>2 DEF Poll, Goto
  <2>4. Running' = Running \union {w} /\ w \notin Running
    BY <2>3 DEF Running, TypeOK, Procs
  <2>5. task'[w] = t /\ \A v \in Running : task'[v] = task[v]
    BY <2>3, <2>4 DEF TypeOK, Running
  <2>6. \A i \in 1..Len(mWorkQueue') :
           /\ i + 1 \in 1..Len(mWorkQueue)
           /\ i + 1 # 1
           /\ mWorkQueue'[i] = mWorkQueue[i + 1]
    BY <2>1, <2>2, <1>q
  <2>7. t \notin fresh /\ \A v \in Running : task[v] # t
    BY <2>1 DEF OnePlace
  <2>8. \A i \in 1..Len(mWorkQueue') : mWorkQueue'[i] # t
    BY <2>1, <2>6 DEF OnePlace
  <2>9. \A i, j \in 1..Len(mWorkQueue') : mWorkQueue'[i] = mWorkQueue'[j] => i = j
    <3> SUFFICES ASSUME NEW i \in 1..Len(mWorkQueue'), NEW j \in 1..Len(mWorkQueue'),
                        mWorkQueue'[i] = mWorkQueue'[j]
                 PROVE  i = j
      OBVIOUS
    <3>1. i + 1 = j + 1
      BY <2>6 DEF OnePlace
    <3> QED BY <3>1
  <2> QED BY <2>2, <2>4, <2>5, <2>6, <2>7, <2>8, <2>9 DEF OnePlace
<1>3. ASSUME NEW w \in Threads, Run(w) PROVE OnePlace'
  <2>1. /\ Running' = Running \ {w}
        /\ \A v \in Running \ {w} : task'[v] = task[v]
    BY <1>3 DEF Run, Goto, Running, TypeOK, Procs
  <2> QED BY <1>3, <2>1 DEF Run, OnePlace
<1>4. ASSUME UNCHANGED <<mWorkQueue, task, Running>>, fresh' \subseteq fresh
      PROVE  OnePlace'
  BY <1>4 DEF OnePlace
<1>5. ASSUME NEW p \in Procs, NEW label, Goto(p, label), pc[p] # "run", label # "run"
      PROVE  UNCHANGED Running
  BY <1>5 DEF Goto, Running, TypeOK, Procs
<1>6. ASSUME NEW p \in Procs, StartWorkerIfNeeded(p) PROVE OnePlace'
  BY <1>6, <1>5, <1>4 DEF StartWorkerIfNeeded, GetCount, CompareAndSet, StartWorker
<1>7. ASSUME NEW w \in Threads,
             Begin(w) \/ (Poll(w) /\ mWorkQueue = << >>) \/ Decrement(w) \/ CheckQueue(w)
      PROVE  OnePlace'
  BY <1>7, <1>5, <1>4 DEF Begin, Poll, Decrement, CheckQueue, AfterDecrement, Procs
<1>8. ASSUME NEW c \in Callers, NEW t \in Tasks, Reject(c, t) PROVE OnePlace'
  BY <1>8, <1>4 DEF Reject, Running
<1>9. CASE UNCHANGED vars
  BY <1>9, <1>4 DEF vars, Running
<1> QED
  BY <1>1, <1>2, <1>3, <1>6, <1>7, <1>8, <1>9 DEF Next, WorkerStep

\* When a worker polls, the tasks being run leave room for one more.
LEMMA RoomAtPoll ==
  ASSUME IInv, NEW w \in Threads, pc[w] = "poll"
  PROVE  Cardinality(RunningTasks) < MaxConcurrency
<1>1. w \in Holders /\ Running \in SUBSET (Holders \ {w})
  BY DEF Holders, Holding, Procs, Running
<1>2. /\ IsFiniteSet(Holders \ {w})
      /\ Cardinality(Holders \ {w}) = Cardinality(Holders) - 1
  BY <1>1, HoldersFinite, FS_RemoveElement
<1>3. /\ IsFiniteSet(Running)
      /\ Cardinality(Running) \in Nat
      /\ Cardinality(Running) <= Cardinality(Holders) - 1
  BY <1>1, <1>2, FS_Subset, FS_CardinalityType
<1>4. [v \in Running |-> task[v]] \in Surjection(Running, RunningTasks)
  BY DEF Surjection, RunningTasks
<1>5. /\ IsFiniteSet(RunningTasks)
      /\ Cardinality(RunningTasks) <= Cardinality(Running)
  BY <1>3, <1>4, FS_Surjection
<1>6. Cardinality(RunningTasks) \in Nat
  BY <1>5, FS_CardinalityType
<1> QED
  BY <1>3, <1>5, <1>6, HoldersFinite, ConcurrencyAssumption
  DEF IInv, WorkerAccounting, TypeOK

\* The pool counts with its own copy of FiniteSets' operator.
LEMMA SameCardinality == \A S : Pool!Cardinality(S) = Cardinality(S)
  BY DEF Pool!Cardinality, Cardinality

\* Every step of the executor is a step of the pool, or invisible to it.
LEMMA PoolStep == ASSUME IInv, OnePlace, [Next]_vars PROVE [Pool!Next]_(Pool!vars)
<1> USE DEF IInv, RunningTasks, Pool!vars
<1>1. ASSUME NEW c \in Callers, NEW t \in Tasks, Offer(c, t) PROVE Pool!Accept(t)
  <2>1. Running' = Running
    BY <1>1, DisjointAssumption DEF Offer, Running, Goto, TypeOK, Procs
  <2> QED BY <1>1, <2>1 DEF Offer, QueueHasRoom, Pool!Accept
<1>2. ASSUME NEW c \in Callers, NEW t \in Tasks, Reject(c, t) PROVE Pool!Refuse(t)
  <2>1. Len(mWorkQueue) >= QueueSize
    BY <1>2, QueueSizeAssumption, LenProperties DEF Reject, QueueHasRoom, TypeOK
  <2> QED BY <1>2, <2>1 DEF Reject, Running, Pool!Refuse
<1>3. ASSUME NEW w \in Threads, Poll(w), mWorkQueue # << >> PROVE Pool!Start
  <2>1. /\ task' = [task EXCEPT ![w] = Head(mWorkQueue)]
        /\ pc' = [pc EXCEPT ![w] = "run"]
        /\ pc[w] = "poll"
        /\ mWorkQueue' = Tail(mWorkQueue)
        /\ UNCHANGED <<fresh, finished>>
    BY <1>3 DEF Poll, Goto, QueueAfterPoll
  <2>2. Running' = Running \union {w} /\ w \notin Running
    BY <2>1 DEF Running, TypeOK, Procs
  <2>3. task'[w] = Head(mWorkQueue) /\ \A v \in Running : task'[v] = task[v]
    BY <2>1, <2>2 DEF TypeOK, Running
  <2>4. {task'[v] : v \in Running'} = {task[v] : v \in Running} \union {Head(mWorkQueue)}
    BY <2>2, <2>3
  <2>5. Pool!Cardinality({task[v] : v \in Running}) < MaxConcurrency
    BY <2>1, RoomAtPoll, SameCardinality
  <2> QED BY <1>3, <2>1, <2>4, <2>5, Zenon DEF Pool!Start
<1>4. ASSUME NEW w \in Threads, NEW t \in Tasks, t = task[w], Run(w)
      PROVE  Pool!Finish(t)
  <2>1. /\ Running' = Running \ {w}
        /\ w \in Running
        /\ \A v \in Running \ {w} : task'[v] = task[v]
    BY <1>4 DEF Run, Goto, Running, TypeOK, Procs
  <2>2. {task'[v] : v \in Running'} = {task[v] : v \in Running} \ {t}
    BY <1>4, <2>1 DEF OnePlace
  <2> QED BY <1>4, <2>1, <2>2 DEF Run, Pool!Finish
<1>5. ASSUME NEW p \in Procs, NEW label, Goto(p, label), pc[p] # "run", label # "run",
             UNCHANGED <<fresh, mWorkQueue, task, finished>>
      PROVE  UNCHANGED Pool!vars
  <2>1. Running' = Running
    BY <1>5 DEF Goto, Running, TypeOK, Procs
  <2> QED BY <1>5, <2>1
<1>6. ASSUME NEW p \in Procs, StartWorkerIfNeeded(p) PROVE UNCHANGED Pool!vars
  BY <1>6, <1>5 DEF StartWorkerIfNeeded, GetCount, CompareAndSet, StartWorker
<1>7. ASSUME NEW w \in Threads,
             Begin(w) \/ (Poll(w) /\ mWorkQueue = << >>) \/ Decrement(w) \/ CheckQueue(w)
      PROVE  UNCHANGED Pool!vars
  BY <1>7, <1>5 DEF Begin, Poll, Decrement, CheckQueue, AfterDecrement, Procs
<1>8. CASE UNCHANGED vars
  BY <1>8 DEF vars, Running
<1> HIDE DEF IInv, RunningTasks, Pool!vars
<1>9. ASSUME NEW w \in Threads, WorkerStep(w) PROVE Pool!Next \/ UNCHANGED Pool!vars
  <2>1. CASE Run(w)
    <3>1. PICK t \in Tasks : t = task[w]
      BY <2>1 DEF Run, IInv, TypeOK
    <3> QED BY <2>1, <3>1, <1>4 DEF Pool!Next
  <2>2. CASE Poll(w) /\ mWorkQueue # << >>
    BY <2>2, <1>3 DEF Pool!Next
  <2>3. CASE Begin(w) \/ (Poll(w) /\ mWorkQueue = << >>) \/ Decrement(w) \/ CheckQueue(w)
    <3>1. UNCHANGED Pool!vars
      BY <2>3, <1>7
    <3> QED BY <3>1
  <2> QED BY <2>1, <2>2, <2>3, <1>9 DEF WorkerStep
<1>10. ASSUME NEW c \in Callers, NEW t \in Tasks, Offer(c, t) \/ Reject(c, t)
       PROVE  Pool!Next
  BY <1>1, <1>2, <1>10 DEF Pool!Next
<1> QED
  BY <1>6, <1>8, <1>9, <1>10 DEF Next

\* The executor implements the safety part of a bounded pool: tasks start in
\* the order they were accepted, at most MaxConcurrency at a time, each once.
THEOREM Refinement == Safety => Pool!Safety
<1>1. Init => OnePlace /\ Pool!Init
  <2> SUFFICES ASSUME Init PROVE OnePlace /\ Pool!Init
    OBVIOUS
  <2>1. Running = {}
    BY DEF Init, Running, Procs
  <2> QED BY <2>1 DEF Init, OnePlace, Pool!Init
<1> QED
  BY <1>1, Invariance, OnePlaceStep, PoolStep, PTL DEF Safety, Pool!Safety
================================================================================
