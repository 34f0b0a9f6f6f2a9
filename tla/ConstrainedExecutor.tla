-------------------------- MODULE ConstrainedExecutor --------------------------
(***************************************************************************)
(* ConstrainedExecutorService and its subclass SerialExecutorService: an   *)
(* executor that hands the same Worker to a delegate executor up to        *)
(* mMaxConcurrency times, each run of the Worker taking one task from      *)
(* mWorkQueue.  There is no lock: callers of execute() and Workers race    *)
(* through the queue and the atomic counter mPendingWorkers, and the       *)
(* grain of atomicity here is one queue or counter operation.              *)
(*                                                                         *)
(* A thread's program counter is named for what it does next:              *)
(*   idle       outside the executor                                       *)
(*   get        startWorkerIfNeeded: read mPendingWorkers                  *)
(*   cas        startWorkerIfNeeded: compareAndSet(currentCount, + 1)      *)
(*   start      startWorkerIfNeeded: mExecutor.execute(mTaskRunner)        *)
(*   poll, run, decrement, check     the four steps of Worker.run          *)
(***************************************************************************)
EXTENDS Naturals, Sequences, FiniteSets

CONSTANTS
    Tasks,              \* the runnables submitted, each once
    Callers,            \* threads that call execute
    Threads,            \* threads of the delegate executor
    MaxConcurrency,     \* mMaxConcurrency
    QueueSize,          \* capacity of mWorkQueue
    Serial,             \* TRUE: SerialExecutorService (execute is synchronized)
    NoTask

ASSUME CallersAssumption == IsFiniteSet(Callers) /\ IsFiniteSet(Threads)
ASSUME DisjointAssumption == Callers \intersect Threads = {}
ASSUME ConcurrencyAssumption == MaxConcurrency \in Nat \ {0}
ASSUME QueueSizeAssumption == QueueSize \in Nat \ {0}
ASSUME SerialAssumption == Serial \in BOOLEAN
ASSUME NoTaskAssumption == NoTask \notin Tasks

VARIABLES
    fresh,              \* tasks not passed to execute yet
    mWorkQueue,
    mPendingWorkers,
    delegated,          \* runs of mTaskRunner the delegate has not begun
    pc,
    currentCount,       \* local variable of startWorkerIfNeeded
    task,               \* local variable runnable of Worker.run
    finished            \* tasks whose run() returned or threw

vars == <<fresh, mWorkQueue, mPendingWorkers, delegated, pc, currentCount,
          task, finished>>

Procs == Callers \union Threads

\* Where a thread stands for one of the pending workers.
Holding == {"start", "poll", "run", "decrement"}

\* Where a thread still is going to look at the queue or start a worker.
Busy == Holding \union {"get", "cas", "check"}

Holders == {p \in Procs : pc[p] \in Holding}

Running == {w \in Threads : pc[w] = "run"}

Goto(p, label) == pc' = [pc EXCEPT ![p] = label]

TypeOK ==
    /\ fresh \subseteq Tasks
    /\ finished \subseteq Tasks
    /\ mWorkQueue \in Seq(Tasks)
    /\ Len(mWorkQueue) <= QueueSize
    /\ mPendingWorkers \in Nat
    /\ delegated \in Nat
    /\ pc \in [Procs -> Busy \union {"idle"}]
    /\ \A c \in Callers : pc[c] \in {"idle", "get", "cas", "start"}
    /\ currentCount \in [Procs -> Nat]
    /\ task \in [Threads -> Tasks \union {NoTask}]
    /\ \A w \in Threads : pc[w] = "run" <=> task[w] # NoTask

Init ==
    /\ fresh = Tasks
    /\ mWorkQueue = << >>
    /\ mPendingWorkers = 0
    /\ delegated = 0
    /\ pc = [p \in Procs |-> "idle"]
    /\ currentCount = [p \in Procs |-> 0]
    /\ task = [w \in Threads |-> NoTask]
    /\ finished = {}

--------------------------------------------------------------------------------
(* execute, called by c *)

\* SerialExecutorService.execute is synchronized: one caller inside at a time.
MonitorFree == Serial => \A c \in Callers : pc[c] = "idle"

\* mWorkQueue.offer finds a place.  (The mutant: the queue has no limit.)
QueueUnlimited == TRUE
QueueHasRoom == Len(mWorkQueue) < QueueSize

Offer(c, t) ==
    /\ pc[c] = "idle"
    /\ MonitorFree
    /\ t \in fresh
    /\ QueueHasRoom
    /\ fresh' = fresh \ {t}
    /\ mWorkQueue' = Append(mWorkQueue, t)
    /\ Goto(c, "get")
    /\ UNCHANGED <<mPendingWorkers, delegated, currentCount, task, finished>>

\* The queue is full: RejectedExecutionException, nothing is kept.
Reject(c, t) ==
    /\ pc[c] = "idle"
    /\ MonitorFree
    /\ t \in fresh
    /\ ~ QueueHasRoom
    /\ fresh' = fresh \ {t}
    /\ UNCHANGED <<mWorkQueue, mPendingWorkers, delegated, pc, currentCount,
                   task, finished>>

--------------------------------------------------------------------------------
(* startWorkerIfNeeded, called by p from execute or from Worker.run *)

RoomForWorkerOffByOne(n) == n <= MaxConcurrency
RoomForWorker(n) == n < MaxConcurrency

\* Reads the counter and tests it against the limit.
GetCount(p) ==
    /\ pc[p] = "get"
    /\ currentCount' = [currentCount EXCEPT ![p] = mPendingWorkers]
    /\ Goto(p, IF RoomForWorker(mPendingWorkers) THEN "cas" ELSE "idle")
    /\ UNCHANGED <<fresh, mWorkQueue, mPendingWorkers, delegated, task,
                   finished>>

\* The snapshot is still the counter's value (the mutant: a plain write).
SnapshotAssumedCurrent(p) == TRUE
SnapshotCurrent(p) == mPendingWorkers = currentCount[p]

CompareAndSet(p) ==
    /\ pc[p] = "cas"
    /\ \/ /\ SnapshotCurrent(p)
          /\ mPendingWorkers' = currentCount[p] + 1
          /\ Goto(p, "start")
       \/ /\ ~ SnapshotCurrent(p)
          /\ Goto(p, "get")
          /\ UNCHANGED mPendingWorkers
    /\ UNCHANGED <<fresh, mWorkQueue, delegated, currentCount, task, finished>>

StartWorker(p) ==
    /\ pc[p] = "start"
    /\ delegated' = delegated + 1
    /\ Goto(p, "idle")
    /\ UNCHANGED <<fresh, mWorkQueue, mPendingWorkers, currentCount, task,
                   finished>>

--------------------------------------------------------------------------------
(* The delegate and Worker.run *)

\* A free thread of the delegate begins one of the submitted runs.
Begin(w) ==
    /\ pc[w] = "idle"
    /\ delegated > 0
    /\ delegated' = delegated - 1
    /\ Goto(w, "poll")
    /\ UNCHANGED <<fresh, mWorkQueue, mPendingWorkers, currentCount, task,
                   finished>>

\* The queue once its head was polled (the mutant: a peek).
QueueAfterPeek == mWorkQueue
QueueAfterPoll == Tail(mWorkQueue)

Poll(w) ==
    /\ pc[w] = "poll"
    /\ \/ /\ mWorkQueue # << >>
          /\ task' = [task EXCEPT ![w] = Head(mWorkQueue)]
          /\ mWorkQueue' = QueueAfterPoll
          /\ Goto(w, "run")
       \/ /\ mWorkQueue = << >>
          /\ Goto(w, "decrement")
          /\ UNCHANGED <<task, mWorkQueue>>
    /\ UNCHANGED <<fresh, mPendingWorkers, delegated, currentCount, finished>>

\* runnable.run() returns, or throws into the finally block.
Run(w) ==
    /\ pc[w] = "run"
    /\ finished' = finished \union {task[w]}
    /\ task' = [task EXCEPT ![w] = NoTask]
    /\ Goto(w, "decrement")
    /\ UNCHANGED <<fresh, mWorkQueue, mPendingWorkers, delegated, currentCount>>

Decrement(w) ==
    /\ pc[w] = "decrement"
    /\ mPendingWorkers' = mPendingWorkers - 1
    /\ Goto(w, "check")
    /\ UNCHANGED <<fresh, mWorkQueue, delegated, currentCount, task, finished>>

\* What the finally block does next (the mutant: it only decrements).
AfterDecrementForgetsQueue == "idle"
AfterDecrement == IF mWorkQueue = << >> THEN "idle" ELSE "get"

CheckQueue(w) ==
    /\ pc[w] = "check"
    /\ Goto(w, AfterDecrement)
    /\ UNCHANGED <<fresh, mWorkQueue, mPendingWorkers, delegated, currentCount,
                   task, finished>>

--------------------------------------------------------------------------------

StartWorkerIfNeeded(p) ==
    GetCount(p) \/ CompareAndSet(p) \/ StartWorker(p)

WorkerStep(w) == Begin(w) \/ Poll(w) \/ Run(w) \/ Decrement(w) \/ CheckQueue(w)

Next ==
    \/ \E c \in Callers, t \in Tasks : Offer(c, t) \/ Reject(c, t)
    \/ \E p \in Procs : StartWorkerIfNeeded(p)
    \/ \E w \in Threads : WorkerStep(w)

Safety == Init /\ [][Next]_vars

\* A thread inside the executor is scheduled again, and a free thread of the
\* delegate takes the work it was given; nobody is obliged to submit.
Fairness ==
    /\ \A p \in Procs : WF_vars(StartWorkerIfNeeded(p))
    /\ \A w \in Threads : WF_vars(WorkerStep(w))

Spec == Safety /\ Fairness

--------------------------------------------------------------------------------

\* The counter is exactly the number of workers there are, submitted, polling,
\* running or about to give their place back, and stays within the limit.
WorkerAccounting ==
    /\ mPendingWorkers = delegated + Cardinality(Holders)
    /\ mPendingWorkers <= MaxConcurrency

\* "constrains the number of concurrently executing tasks to a pre-configured
\* value", whatever callers and workers race through startWorkerIfNeeded.
ConcurrencyBound == Cardinality(Running) <= MaxConcurrency

\* A task that execute accepted is never stranded in the queue: a worker is on
\* its way to the queue, or some thread is still going to start one.  This is
\* what the second look at the queue in Worker.run's finally block is for.
NoStrandedTask ==
    mWorkQueue # << >> => delegated > 0 \/ \E p \in Procs : pc[p] \in Busy

\* Every accepted task is run ("Submit a task to be executed in the future").
AcceptedTasksRun ==
    \A t \in Tasks :
        (\E i \in 1..QueueSize : i <= Len(mWorkQueue) /\ mWorkQueue[i] = t)
            ~> (t \in finished)

Pool == INSTANCE BoundedPool WITH
            waiting <- mWorkQueue,
            running <- {task[w] : w \in Running}

\* The executor is a bounded pool: tasks start in order, never more than
\* MaxConcurrency at a time, each once, and each in the end.
ImplementsPool == Pool!Spec

================================================================================
