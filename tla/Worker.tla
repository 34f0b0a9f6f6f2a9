-------------------------------- MODULE Worker --------------------------------
(***************************************************************************)
(* WebPWorker (libwebp's thread_utils.c): a thread that runs one job at a  *)
(* time for the thread that decodes, over one mutex and one condition      *)
(* variable that both of them wait on.                                     *)
(*                                                                         *)
(* The worker holds the mutex while it runs a job.  All other sections     *)
(* under the mutex are single steps here, so that the mutex is taken       *)
(* exactly while a job runs.  Waits may end without a signal.              *)
(***************************************************************************)

VARIABLES
    status,         \* status_: "NOT_OK", "OK" (idle) or "WORK"
    impl,           \* whether impl_ is there: the thread has been created
    thread,         \* where the worker's thread is
    call,           \* the decoding thread's call of the interface
    had_error,
    owns            \* history: the job's data are the decoding thread's to use

worker == <<status, impl, thread, call, had_error, owns>>

Operations == {"Sync", "Launch", "End"}
Out == [op |-> "none", at |-> "out"]

Calls == {Out} \cup [op : Operations, at : {"entering", "waiting", "joining"}]
Threads == {"none", "entering", "waiting", "executing", "exited"}

WorkerInit ==
    /\ status = "NOT_OK"
    /\ impl = FALSE
    /\ thread = "none"
    /\ call = Out
    /\ had_error = FALSE
    /\ owns = FALSE

MutexFree == thread # "executing"

\* pthread_cond_signal: the other thread, if it waits, tries for the mutex (the
\* mutants: one of the two never hears of it).
UnheardThread(at) == at
SignalledThread(at) == IF at = "waiting" THEN "entering" ELSE at
At(place) == [op |-> call.op, at |-> place]
UnheardCall == call
SignalledCall == IF call.at = "waiting" THEN At("entering") ELSE call

--------------------------------------------------------------------------------
(* The decoding thread *)

\* Reset, of a worker that has no thread.
Reset ==
    /\ call = Out /\ ~impl
    /\ impl' = TRUE
    /\ thread' = "entering"
    /\ status' = "OK"
    /\ had_error' = FALSE
    /\ owns' = TRUE
    /\ UNCHANGED call

\* Sync, Launch and End are ChangeState to OK, WORK and NOT_OK.
Begin(op) ==
    /\ call = Out /\ impl
    /\ op = "Launch" => owns
    /\ call' = [op |-> op, at |-> "entering"]
    /\ UNCHANGED <<status, impl, thread, had_error, owns>>

\* ChangeState waits while the worker works (the mutant: for nothing).
MustWaitNever == FALSE
MustWait == status = "WORK"

ChangeState ==
    /\ call.at = "entering" /\ MutexFree
    /\ IF MustWait
       THEN /\ call' = At("waiting")
            /\ UNCHANGED <<status, thread, owns>>
       ELSE /\ status' = IF call.op = "Sync" THEN status
                         ELSE IF call.op = "Launch" THEN "WORK" ELSE "NOT_OK"
            /\ thread' = IF call.op = "Sync" THEN thread ELSE SignalledThread(thread)
            /\ call' = IF call.op = "End" THEN At("joining") ELSE Out
            /\ owns' = (call.op = "Sync")
    /\ UNCHANGED <<impl, had_error>>

Join ==
    /\ call.at = "joining" /\ thread = "exited"
    /\ call' = Out
    /\ impl' = FALSE
    /\ thread' = "none"
    /\ UNCHANGED <<status, had_error, owns>>

CallerWakes ==
    /\ call.at = "waiting"
    /\ call' = At("entering")
    /\ UNCHANGED <<status, impl, thread, had_error, owns>>

--------------------------------------------------------------------------------
(* The worker's thread: ThreadLoop *)

Enter ==
    /\ thread = "entering"
    /\ thread' = IF status = "OK" THEN "waiting"
                 ELSE IF status = "WORK" THEN "executing" ELSE "exited"
    /\ call' = IF status = "NOT_OK" THEN SignalledCall ELSE call
    /\ UNCHANGED <<status, impl, had_error, owns>>

\* Execute's end; `ok` is what the job returned.
Executed(ok) ==
    /\ thread = "executing"
    /\ thread' = "entering"
    /\ status' = "OK"
    /\ had_error' = (had_error \/ ~ok)
    /\ call' = SignalledCall
    /\ UNCHANGED <<impl, owns>>

ThreadWakes ==
    /\ thread = "waiting"
    /\ thread' = "entering"
    /\ UNCHANGED <<status, impl, call, had_error, owns>>

--------------------------------------------------------------------------------
\* Any client that keeps to the interface.
WorkerNext ==
    \/ Reset \/ ChangeState \/ Join \/ CallerWakes \/ Enter \/ ThreadWakes
    \/ \E op \in Operations : Begin(op)
    \/ \E ok \in BOOLEAN : Executed(ok)

WorkerSpec ==
    /\ WorkerInit /\ [][WorkerNext]_worker
    /\ WF_worker(Enter) /\ WF_worker(\E ok \in BOOLEAN : Executed(ok))

WorkerTypeOK ==
    /\ status \in {"NOT_OK", "OK", "WORK"}
    /\ impl \in BOOLEAN /\ had_error \in BOOLEAN /\ owns \in BOOLEAN
    /\ thread \in Threads
    /\ call \in Calls

--------------------------------------------------------------------------------
(* Properties *)

\* Nobody sleeps on a condition that already holds, so that no signal has been
\* missed: the worker waits only while it is idle, and the caller only while a
\* job is submitted.
NoLostWakeup ==
    /\ thread = "waiting" => status = "OK"
    /\ call.at = "waiting" => status = "WORK"

Holder ==
    IF status = "NOT_OK" THEN "nobody"
    ELSE IF owns THEN "client"
    ELSE IF status = "WORK" THEN "worker" ELSE "done"

Slot == INSTANCE JobSlot WITH holder <- Holder, failed <- had_error

\* The worker is a place for one job at a time: the decoding thread and the
\* worker never use the job's data together, and every job launched is run once.
ImplementsSlot == Slot!Spec

\* Its safety part.
SlotKept == Slot!Init /\ [][Slot!Next]_Slot!vars
================================================================================
