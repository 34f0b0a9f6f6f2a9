------------------------------ MODULE RowDecoder ------------------------------
(***************************************************************************)
(* The second half of libwebp's lossy decoder (dec/frame_dec.c): rows of   *)
(* macroblocks, once parsed, are reconstructed into a cache of a few rows, *)
(* filtered, cut to the cropping area and put into the output.  Filtering  *)
(* a row still changes the bottom lines of the row above it, so that the   *)
(* output lags behind by kFilterExtraRows lines, which are moved to the    *)
(* top of the cache when it wraps around.  All of that is a job, which     *)
(* with threads a WebPWorker runs while the next row is parsed.            *)
(*                                                                         *)
(* A line of the cache is known by the line of the picture it holds and by *)
(* how far that line has come.  Chroma has half the lines and counts for   *)
(* two: the strong filter changes 3 and reads 4 of them across an edge.    *)
(* Columns, and the samples' values, are left out; so is dithering.        *)
(***************************************************************************)
EXTENDS Integers, Worker

CONSTANTS MBWidth, MBHeight      \* mb_w_ and mb_h_, in macroblocks of 16 lines

ASSUME SizeAssumption == MBWidth \in Nat \ {0} /\ MBHeight \in Nat \ {0}

\* Frames, and the options they are decoded with.
Frames == [filter_type : 0 .. 2, crop_top : Nat, crop_bottom : Nat,
           alpha : {"none", "good", "bad"}, threads : BOOLEAN]

VARIABLES
    frame,          \* the frame being decoded
    mb_y, mb_x,     \* the macroblock to parse next
    mb_data,        \* which of two rows of blocks is being parsed into
    f_info,         \* which of two rows of filter strengths
    blocks,         \* what the rows of blocks hold: of which row, how many
    infos,          \* what the rows of filter strengths hold
    ctx,            \* thread_ctx_: what the job works on
    cache_id,       \* where in the cache the next row goes
    cache,          \* the lines of the cache
    alpha,          \* the lines of the alpha plane decoded so far, and by whom
    picture         \* the output

rows == <<frame, mb_y, mb_x, mb_data, f_info, blocks, infos, ctx, cache_id,
          cache, alpha, picture>>

--------------------------------------------------------------------------------
(* Geometry *)

LeastOf(a, b) == IF a < b THEN a ELSE b
GreatestOf(a, b) == IF a > b THEN a ELSE b

\* kFilterExtraRows (the mutant: sized for luma alone).
ExtraRowsForLuma == CASE frame.filter_type = 0 -> 0
                      [] frame.filter_type = 1 -> 2
                      [] frame.filter_type = 2 -> 4
ExtraRows == CASE frame.filter_type = 0 -> 0
               [] frame.filter_type = 1 -> 2
               [] frame.filter_type = 2 -> 8

\* Lines an edge's filter changes and reads on either side of it.
Changed == CASE frame.filter_type = 0 -> 0
             [] frame.filter_type = 1 -> 1
             [] frame.filter_type = 2 -> 6
ReadAcross == CASE frame.filter_type = 0 -> 0
                [] frame.filter_type = 1 -> 2
                [] frame.filter_type = 2 -> 8

\* The simple filter takes no line below an edge's first from above it; the
\* strong one passes what it reads on, through the edges inside.
Influenced == IF frame.filter_type = 2 THEN 16 ELSE Changed

\* tl_mb_y_ and br_mb_y_: the rows that need filtering (VP8EnterCritical).
FirstFilteredRow ==
    IF frame.filter_type = 2 THEN 0
    ELSE GreatestOf(0, (frame.crop_top - ExtraRows) \div 16)
BottomRow == LeastOf(MBHeight, (frame.crop_bottom + 15 + ExtraRows) \div 16)

NumCaches == IF ~frame.threads THEN 1 ELSE IF frame.filter_type > 0 THEN 3 ELSE 2

Span(id) == 16 * id .. 16 * id + 15
CacheLines == -8 .. 47
Garbage == [line |-> -1, stage |-> "raw"]
Spoilt == [line |-> -1, stage |-> "spoilt"]
NoRow == [row |-> -1, count |-> 0]

CropLines == frame.crop_top .. frame.crop_bottom - 1

RowsInit ==
    /\ mb_y = 0 /\ mb_x = 0
    /\ mb_data = 0 /\ f_info = 0
    /\ blocks = [b \in 0 .. 1 |-> NoRow]
    /\ infos = [b \in 0 .. 1 |-> NoRow]
    /\ ctx = [mb_y |-> -1, id |-> 0, filter_row |-> FALSE, mb_data |-> 0,
              f_info |-> 0, at |-> "none"]
    /\ cache_id = 0
    /\ cache = [p \in CacheLines |-> Garbage]
    /\ alpha = [lines |-> 0, decoded |-> FALSE]
    /\ picture = [y \in CropLines |-> [luma |-> Garbage, alpha |-> "none"]]

\* VP8InitFrame, in a decoder just made: with threads there is a second row of
\* blocks and of strengths, for the job.
AllocateMemory ==
    ctx' = [ctx EXCEPT !.mb_data = IF frame.threads THEN 1 ELSE 0,
                       !.f_info  = IF frame.threads THEN 1 ELSE 0]

--------------------------------------------------------------------------------
(* The job: FinishRow *)

IsLastRow(r) == r >= BottomRow - 1
Whole(held, r) == held = [row |-> r, count |-> MBWidth]

ReconstructRow(c, r, id) ==
    [p \in CacheLines |->
        IF p \notin Span(id) THEN c[p]
        ELSE IF Whole(blocks[ctx.mb_data], r)
        THEN [line |-> 16 * r + p - 16 * id, stage |-> "raw"]
        ELSE Spoilt]

\* Filtering is right for the lines above the row if they are those of the row
\* above, filtered with it.
FilterRow(c, r, id) ==
    LET first   == 16 * id
        strong  == Whole(infos[ctx.f_info], r)
        above   == \A k \in 1 .. ReadAcross :
                      c[first - k] = [line |-> 16 * r - k, stage |-> "filtered"]
        right(p) == strong /\ (r = 0 \/ above \/ p - first >= Influenced)
    IN  [p \in CacheLines |->
            IF p \in Span(id)
            THEN IF right(p) /\ c[p].stage = "raw"
                 THEN [c[p] EXCEPT !.stage = "filtered"] ELSE Spoilt
            ELSE IF r > 0 /\ p \in first - Changed .. first - 1
            THEN IF strong /\ above THEN [c[p] EXCEPT !.stage = "final"] ELSE Spoilt
            ELSE c[p]]

\* The lines put out after row r, before the cropping area's top is cut off.
FirstLine(r) == IF r = 0 THEN 0 ELSE 16 * r - ExtraRows
EndLine(r) ==
    LeastOf(frame.crop_bottom, IF IsLastRow(r) THEN 16 * (r + 1) ELSE 16 * (r + 1) - ExtraRows)

\* VP8DecompressAlphaRows: lines are decoded in order, each from the one above.
NeedsAlpha(r) == frame.alpha # "none" /\ FirstLine(r) < EndLine(r)
AlphaFails(r) == NeedsAlpha(r) /\ ~alpha.decoded /\ frame.alpha = "bad"
DecompressAlphaRows(r) ==
    IF ~NeedsAlpha(r) \/ alpha.decoded THEN alpha
    ELSE IF alpha.lines = FirstLine(r)
    THEN [lines |-> EndLine(r), decoded |-> EndLine(r) >= frame.crop_bottom]
    ELSE [alpha EXCEPT !.decoded = EndLine(r) >= frame.crop_bottom]

\* io->put for the lines within the cropping area.
Put(c, r, id) ==
    [y \in CropLines |->
        IF y \in FirstLine(r) .. EndLine(r) - 1
        THEN [luma  |-> c[y - 16 * r + 16 * id],
              alpha |-> IF frame.alpha = "none" THEN "none"
                        ELSE IF y < DecompressAlphaRows(r).lines THEN "right" ELSE "missing"]
        ELSE picture[y]]

\* The last lines are kept above the cache's first row when it wraps around.
Rotated(c, id, r) ==
    IF id + 1 = NumCaches /\ ~IsLastRow(r)
    THEN [p \in CacheLines |-> IF p \in -ExtraRows .. -1 THEN c[p + 16 * NumCaches] ELSE c[p]]
    ELSE c

\* The second part of the job, over the reconstructed cache c.  Without its
\* alpha a row is not put, and the job ends.
EmitRow(c, r, id, filter_row) ==
    LET f == IF filter_row THEN FilterRow(c, r, id) ELSE c
    IN  IF AlphaFails(r) THEN cache' = f /\ UNCHANGED <<alpha, picture>>
        ELSE /\ alpha' = DecompressAlphaRows(r)
             /\ picture' = Put(f, r, id)
             /\ cache' = Rotated(f, id, r)

\* Whether row r goes through the filter.
FiltersRow(r) == frame.filter_type > 0 /\ r >= FirstFilteredRow /\ r <= BottomRow

\* The job at once, as VP8ProcessRow does it without threads.
FinishRowHere ==
    /\ ctx' = [ctx EXCEPT !.mb_y = mb_y, !.filter_row = FiltersRow(mb_y)]
    /\ EmitRow(ReconstructRow(cache, mb_y, ctx.id), mb_y, ctx.id, FiltersRow(mb_y))

\* VP8ProcessRow with threads, after Sync: the job's data are handed over, and
\* the next row is parsed into those of the last job.
HandOver ==
    /\ ctx' = [mb_y |-> mb_y, id |-> cache_id, filter_row |-> FiltersRow(mb_y),
               mb_data |-> mb_data,
               f_info |-> IF FiltersRow(mb_y) THEN f_info ELSE ctx.f_info,
               at |-> "begin"]
    /\ mb_data' = ctx.mb_data
    /\ f_info' = IF FiltersRow(mb_y) THEN ctx.f_info ELSE f_info
    /\ cache_id' = IF cache_id + 1 = NumCaches THEN 0 ELSE cache_id + 1
    /\ UNCHANGED <<frame, mb_y, mb_x, blocks, infos, cache, alpha, picture>>

\* The job run by the worker, in two steps.
JobReconstruct ==
    /\ thread = "executing" /\ ctx.at = "begin"
    /\ cache' = ReconstructRow(cache, ctx.mb_y, ctx.id)
    /\ ctx' = [ctx EXCEPT !.at = "emit"]
    /\ UNCHANGED <<frame, mb_y, mb_x, mb_data, f_info, blocks, infos, cache_id,
                   alpha, picture, worker>>

JobEmit ==
    /\ ctx.at = "emit"
    /\ EmitRow(cache, ctx.mb_y, ctx.id, ctx.filter_row)
    /\ ctx' = [ctx EXCEPT !.at = "none"]
    /\ Executed(~AlphaFails(ctx.mb_y))
    /\ UNCHANGED <<frame, mb_y, mb_x, mb_data, f_info, blocks, infos, cache_id>>

--------------------------------------------------------------------------------
(* Properties *)

\* Line y of the picture as the format defines it: filtered with its own row,
\* and with the row below if that one's filter reaches it.
Finished(y) ==
    [line  |-> y,
     stage |-> IF frame.filter_type = 0 THEN "raw"
               ELSE IF y % 16 >= 16 - Changed /\ y \div 16 < MBHeight - 1
               THEN "final" ELSE "filtered"]

RightLine(y) ==
    picture[y] = [luma |-> Finished(y),
                  alpha |-> IF frame.alpha = "none" THEN "none" ELSE "right"]
EmptyLine(y) == picture[y].luma = Garbage

\* Whatever the cropping, the filter, the threads and the pieces the data came
\* in, each line put out is the line the format defines, nothing of it being
\* changed afterwards, and lines come in order.
LinesRightInOrder ==
    \A y \in CropLines :
        \/ RightLine(y) /\ (y > frame.crop_top => RightLine(y - 1))
        \/ EmptyLine(y)
================================================================================
