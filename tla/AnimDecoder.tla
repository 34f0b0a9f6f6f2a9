------------------------------ MODULE AnimDecoder ------------------------------
(***************************************************************************)
(* libwebp's WebPAnimDecoder (demux/anim_decode.c): decodes an animation   *)
(* frame by frame onto a canvas of its own.                                *)
(*                                                                         *)
(* It keeps two canvases: curr_frame_, which it hands out, and             *)
(* prev_frame_disposed_, what the last frame leaves for the next one.      *)
(* Instead of drawing over a transparent canvas whenever it can, it finds  *)
(* out whether a frame is a key frame, whose canvas depends on no earlier  *)
(* one, decodes straight into curr_frame_, and blends afterwards, only     *)
(* where something of the earlier canvas can be seen.                      *)
(*                                                                         *)
(* A frame's bitstream may fail to decode after it was partly written; the *)
(* caller may ask again, or begin from the first frame.  The caller's view *)
(* is the copy it makes of the buffer it is handed.                        *)
(***************************************************************************)
EXTENDS AnimationFormat

VARIABLES
    animation,                  \* demux_: the parsed file
    curr_frame_,                \* current canvas, not disposed
    prev_frame_disposed_,       \* previous canvas, disposed
    prev_iter_,                 \* the previous frame's number; 0 when zeroed
    prev_frame_was_keyframe_,
    next_frame_,                \* the number of the next frame, from 1
    shown                       \* the caller's copy of the last canvas it got

decoder == <<curr_frame_, prev_frame_disposed_, prev_iter_, prev_frame_was_keyframe_,
             next_frame_, shown>>
vars == <<animation, decoder>>

\* What the decoder promises: the caller is shown the animation's canvas.
Canvas == INSTANCE AnimationCanvas
            WITH current <- next_frame_ - 1,
                 canvas <- IF next_frame_ = 1 THEN Blank ELSE shown

Init ==
    /\ animation \in Animations
    /\ curr_frame_ = Blank
    /\ prev_frame_disposed_ = Blank
    /\ prev_iter_ = 0
    /\ prev_frame_was_keyframe_ = FALSE
    /\ next_frame_ = 1
    /\ shown = Blank

--------------------------------------------------------------------------------

IsFullFrame(f) == f.width = CanvasWidth /\ f.height = CanvasHeight

ReplacesAll(n) ==
    LET f == animation[n]
    IN  (~f.has_alpha \/ ~f.blend) /\ IsFullFrame(f)

\* The canvas that the previous frame leaves is transparent all over (the
\* mutant: without asking whether that frame is disposed of).
LeavesNothingUnasked(n, wasKeyFrame) == IsFullFrame(animation[n]) \/ wasKeyFrame
LeavesNothing(n, wasKeyFrame) ==
    animation[n].background /\ (IsFullFrame(animation[n]) \/ wasKeyFrame)

IsKeyFrame(n) ==
    \/ n = 1
    \/ ReplacesAll(n)
    \/ LeavesNothing(prev_iter_, prev_frame_was_keyframe_)

\* The two ranges of row y that belong to src but not to dst.
FindBlendRangeAtRow(src, dst, y) ==
    LET srcEnd == src.x_offset + src.width
        dstEnd == dst.x_offset + dst.width
        apart  == \/ y < dst.y_offset \/ y >= dst.y_offset + dst.height
                  \/ src.x_offset >= dstEnd \/ srcEnd <= dst.x_offset
    IN  IF apart
        THEN [left1 |-> src.x_offset, width1 |-> src.width, left2 |-> -1, width2 |-> 0]
        ELSE [left1  |-> IF src.x_offset < dst.x_offset THEN src.x_offset ELSE -1,
              width1 |-> IF src.x_offset < dst.x_offset THEN dst.x_offset - src.x_offset ELSE 0,
              left2  |-> IF srcEnd > dstEnd THEN dstEnd ELSE -1,
              width2 |-> IF srcEnd > dstEnd THEN srcEnd - dstEnd ELSE 0]

InRange(x, left, width) == left <= x /\ x < left + width

\* Where the frame's pixels are blended with the previous canvas: all of its
\* rectangle, or what the previous frame's disposal has not cleared.
BlendArea(f, prev) ==
    IF ~prev.background THEN Covered(f)
    ELSE {p \in Covered(f) :
            LET r == FindBlendRangeAtRow(f, prev, p[2])
            IN  InRange(p[1], r.left1, r.width1) \/ InRange(p[1], r.left2, r.width2)}

\* The canvas the frame is decoded into.
Prepared(n) == IF IsKeyFrame(n) THEN Blank ELSE prev_frame_disposed_

\* The frame decoded into the prepared canvas, then blended where needed.
Decoded(n) ==
    LET f == animation[n]
        blended == IF f.blend /\ ~IsKeyFrame(n) THEN BlendArea(f, animation[prev_iter_]) ELSE {}
    IN  [p \in Positions |->
            IF p \notin Covered(f) THEN Prepared(n)[p]
            ELSE IF p \in blended
                 THEN Over(PixelOf(f, n, p), prev_frame_disposed_[p])
                 ELSE PixelOf(f, n, p)]

--------------------------------------------------------------------------------

GetNext ==
    /\ next_frame_ <= Len(animation)
    /\ curr_frame_' = Decoded(next_frame_)
    /\ prev_iter_' = next_frame_
    /\ prev_frame_was_keyframe_' = IsKeyFrame(next_frame_)
    /\ prev_frame_disposed_' = Disposed(animation[next_frame_], curr_frame_')
    /\ next_frame_' = next_frame_ + 1
    /\ shown' = curr_frame_'
    /\ UNCHANGED animation

\* The bitstream is broken: the canvas was prepared and some of the frame's
\* pixels may have been written.
GetNextFails ==
    /\ next_frame_ <= Len(animation)
    /\ \E written \in {{}, Covered(animation[next_frame_])} :
        curr_frame_' = [p \in Positions |->
                          IF p \in written THEN << [frame |-> next_frame_, kind |-> "broken"] >>
                          ELSE Prepared(next_frame_)[p]]
    /\ UNCHANGED <<animation, prev_frame_disposed_, prev_iter_, prev_frame_was_keyframe_,
                   next_frame_, shown>>

\* The canvases are left as they are.
Reset ==
    /\ prev_iter_' = 0
    /\ prev_frame_was_keyframe_' = FALSE
    /\ next_frame_' = 1
    /\ UNCHANGED <<animation, curr_frame_, prev_frame_disposed_, shown>>

Next == GetNext \/ GetNextFails \/ Reset

Spec == Init /\ [][Next]_vars

--------------------------------------------------------------------------------
(* Properties *)

\* Whatever shortcuts the decoder takes for key frames, for disposed
\* rectangles and for blending, and whatever frames failed in between, the
\* caller is shown the animation's canvas, frame by frame.
ImplementsCanvas == Canvas!Spec
================================================================================
