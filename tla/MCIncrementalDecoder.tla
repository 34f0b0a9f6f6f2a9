------------------------- MODULE MCIncrementalDecoder -------------------------
(***************************************************************************)
(* IncrementalDecoder on an image of 2 by 4 macroblocks: four rows are     *)
(* needed for the cache of three to wrap around, and two columns for the   *)
(* data to end within a row.                                               *)
(***************************************************************************)
EXTENDS IncrementalDecoder

\* The whole picture; one that ends within a row; and areas that begin or end
\* where one of the filters just does, or does not, reach another row.
Crops == {<<0, 64>>, <<34, 57>>, <<18, 30>>, <<16, 24>>}

FramesWith(filters, crops, alphas) ==
    {[filter_type |-> f, crop_top |-> c[1], crop_bottom |-> c[2], alpha |-> a, threads |-> t] :
        f \in filters, c \in crops, a \in alphas, t \in BOOLEAN}

DecodingsOf(frames, partitions, flaws, entries) ==
    [frame : frames, file : [parts : partitions, broken : flaws], entry : entries]

MCDecodings ==
    \* every cropping and filter, of data that may be cut short
    DecodingsOf(FramesWith(0 .. 2, Crops, {"none"}), {1}, {"no"}, {"decode"}) \cup
    \* data in pieces
    DecodingsOf(FramesWith({1}, {<<34, 57>>}, {"good"}), {1, 2}, {"no"}, {"append"}) \cup
    DecodingsOf(FramesWith({2}, {<<0, 64>>}, {"none"}), {2}, {"no"}, {"update"}) \cup
    DecodingsOf(FramesWith({1}, {<<34, 57>>}, {"good"}), {1}, {"no"}, {"update"}) \cup
    \* files that are broken
    DecodingsOf(FramesWith({1}, {<<18, 30>>}, {"good"}), {1},
                {"header", "modes", "tokens"}, {"decode", "append"}) \cup
    DecodingsOf(FramesWith({0}, {<<18, 30>>}, {"bad"}), {1}, {"no"}, {"decode", "append"})
================================================================================
