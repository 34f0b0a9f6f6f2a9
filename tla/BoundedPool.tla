------------------------------ MODULE BoundedPool ------------------------------
(***************************************************************************)
(* What an executor that constrains concurrency promises to its callers:   *)
(* accepted tasks wait in a queue of limited length, are started in the    *)
(* order they were accepted, at most MaxConcurrency of them run at a time, *)
(* each runs once, and every accepted task runs in the end.                *)
(***************************************************************************)
EXTENDS Naturals, Sequences, FiniteSets

CONSTANTS Tasks, MaxConcurrency, QueueSize

VARIABLES
    fresh,      \* tasks not submitted yet
    waiting,    \* accepted tasks, oldest first
    running,    \* tasks being run
    finished    \* tasks that ran

vars == <<fresh, waiting, running, finished>>

TypeOK ==
    /\ fresh \subseteq Tasks
    /\ waiting \in Seq(Tasks)
    /\ running \subseteq Tasks
    /\ finished \subseteq Tasks

Init ==
    /\ fresh = Tasks
    /\ waiting = << >>
    /\ running = {}
    /\ finished = {}

Accept(t) ==
    /\ t \in fresh
    /\ Len(waiting) < QueueSize
    /\ fresh' = fresh \ {t}
    /\ waiting' = Append(waiting, t)
    /\ UNCHANGED <<running, finished>>

Refuse(t) ==
    /\ t \in fresh
    /\ Len(waiting) >= QueueSize
    /\ fresh' = fresh \ {t}
    /\ UNCHANGED <<waiting, running, finished>>

Start ==
    /\ waiting # << >>
    /\ Cardinality(running) < MaxConcurrency
    /\ running' = running \union {Head(waiting)}
    /\ waiting' = Tail(waiting)
    /\ UNCHANGED <<fresh, finished>>

Finish(t) ==
    /\ t \in running
    /\ running' = running \ {t}
    /\ finished' = finished \union {t}
    /\ UNCHANGED <<fresh, waiting>>

Next ==
    \/ \E t \in Tasks : Accept(t) \/ Refuse(t) \/ Finish(t)
    \/ Start

Safety == Init /\ [][Next]_vars

Spec == Safety /\ WF_vars(Start) /\ \A t \in Tasks : WF_vars(Finish(t))
================================================================================
