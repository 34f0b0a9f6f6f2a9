-------------------------- MODULE MCMediaFilesManager --------------------------
(***************************************************************************)
(* Three loads: all of the same file, so that one may come after the       *)
(* download another waits for; or one of another file, so that the two     *)
(* downloads change the map at once.  Bytes and files are asked for.       *)
(***************************************************************************)
EXTENDS MediaFilesManager

CONSTANTS l1, l2, l3, k1, k2

MCLoads == {l1, l2, l3}
MCKeys == {k1, k2}

Wanting(k, b) == [key |-> k, bytes |-> b]

MCRequests ==
    {[l \in MCLoads |-> Wanting(k1, l = l1)],
     [l \in MCLoads |-> Wanting(IF l = l3 THEN k2 ELSE k1, l = l2)]}
================================================================================
