---------------------------- MODULE AnimationCanvas ----------------------------
(***************************************************************************)
(* What playing an animated WebP promises: the canvas begins transparent,  *)
(* each frame is drawn over the canvas its predecessor left, disposed of   *)
(* as the predecessor asks, and the animation may begin again at any time. *)
(* AnimDecoder implements this with two buffers and shortcuts for key      *)
(* frames; WebPPlayback with a bitmap it keeps drawing into.               *)
(***************************************************************************)
EXTENDS AnimationFormat

VARIABLES
    animation,      \* the animation that is played
    current,        \* the frame on the canvas; 0 before the first one
    canvas          \* the canvas: a pixel for each position

vars == <<animation, current, canvas>>

Init ==
    /\ animation \in Animations
    /\ current = 0
    /\ canvas = Blank

Advance ==
    /\ current < Len(animation)
    /\ current' = current + 1
    /\ canvas' = Drawn(animation[current + 1], current + 1,
                     IF current = 0 THEN Blank ELSE Disposed(animation[current], canvas))
    /\ UNCHANGED animation

Restart ==
    /\ current' = 0
    /\ canvas' = Blank
    /\ UNCHANGED animation

Next == Advance \/ Restart

Spec == Init /\ [][Next]_vars
================================================================================
