-------------------------------- MODULE JobSlot --------------------------------
(***************************************************************************)
(* What a WebPWorker promises: a place for one job at a time.  Whatever    *)
(* the job works on belongs to the client or to the worker, never to both; *)
(* a submitted job is run, once, to its end; and the client, when it has   *)
(* collected the place again, knows whether a job has failed so far.       *)
(***************************************************************************)

VARIABLES
    holder,     \* "nobody", "client", "worker", or "done": run, not collected
    failed      \* whether a job has failed since the place was created

vars == <<holder, failed>>

Init == holder = "nobody" /\ failed \in BOOLEAN

Create == holder = "nobody" /\ holder' = "client" /\ failed' = FALSE

Submit == holder = "client" /\ holder' = "worker" /\ UNCHANGED failed

Run ==
    /\ holder = "worker"
    /\ holder' = "done"
    /\ failed' \in {failed, TRUE}

Collect == holder = "done" /\ holder' = "client" /\ UNCHANGED failed

Close == holder \in {"client", "done"} /\ holder' = "nobody" /\ UNCHANGED failed

Next == Create \/ Submit \/ Run \/ Collect \/ Close

Spec == Init /\ [][Next]_vars /\ WF_vars(Run)
================================================================================
