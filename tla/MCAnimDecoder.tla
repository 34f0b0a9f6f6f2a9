----------------------------- MODULE MCAnimDecoder -----------------------------
(***************************************************************************)
(* Animations of three frames on a canvas of three by two pixels: frames   *)
(* that fill it, that cover a row, or one pixel, so that rectangles are    *)
(* disjoint, nested, and reach out on either side of one another.          *)
(***************************************************************************)
EXTENDS AnimDecoder

Rectangles == {<<0, 0, 3, 2>>, <<0, 0, 3, 1>>, <<1, 0, 1, 1>>, <<0, 0, 2, 2>>}

\* Opaque throughout, translucent throughout, and with a hole.
Looks ==
    {[has_alpha |-> FALSE, alpha |-> [p \in Positions |-> "full"]],
     [has_alpha |-> TRUE,  alpha |-> [p \in Positions |-> "part"]],
     [has_alpha |-> TRUE,  alpha |-> [p \in Positions |-> IF p[1] = 1 THEN "clear" ELSE "full"]]}

SomeFrames ==
    {[x_offset |-> r[1], y_offset |-> r[2], width |-> r[3], height |-> r[4],
      blend |-> b, background |-> d, has_alpha |-> look.has_alpha, alpha |-> look.alpha] :
        r \in Rectangles, b \in BOOLEAN, d \in BOOLEAN, look \in Looks}

MCAnimations == [1 .. 3 -> SomeFrames]
================================================================================
