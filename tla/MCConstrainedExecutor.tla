------------------------- MODULE MCConstrainedExecutor -------------------------
(***************************************************************************)
(* Two callers and three delegate threads race for two worker slots and a  *)
(* queue of two: the limit, the full queue and the empty one are all hit.  *)
(***************************************************************************)
EXTENDS ConstrainedExecutor

CONSTANTS t1, t2, t3, c1, c2, w1, w2, w3

MCTasks == {t1, t2, t3}
MCCallers == {c1, c2}
MCThreads == {w1, w2, w3}
================================================================================
