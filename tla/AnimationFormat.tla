---------------------------- MODULE AnimationFormat ----------------------------
(***************************************************************************)
(* Animations, as the demuxer of libwebp hands them out, and what a frame  *)
(* does to a canvas.                                                       *)
(*                                                                         *)
(* A pixel is the sequence of the layers seen through it, the topmost      *)
(* first: the empty sequence is transparent, and nothing is seen below an  *)
(* opaque layer.  Colours are abstracted to the frame they come from.      *)
(***************************************************************************)
EXTENDS Integers, Sequences

CONSTANTS
    CanvasWidth,
    CanvasHeight,
    Animations      \* the animations considered: sequences of frames

Opacities == {"clear", "part", "full"}

Positions == (0 .. CanvasWidth - 1) \X (0 .. CanvasHeight - 1)

\* A frame: its rectangle on the canvas, whether it is blended with what is
\* below it or replaces it, whether its rectangle is cleared once its time is
\* over, whether its bitstream declares an alpha channel, and how opaque it is
\* at each position (only those of the rectangle matter).
Frame ==
    {f \in [x_offset : 0 .. CanvasWidth - 1, y_offset : 0 .. CanvasHeight - 1,
            width : 1 .. CanvasWidth, height : 1 .. CanvasHeight,
            blend : BOOLEAN, background : BOOLEAN, has_alpha : BOOLEAN,
            alpha : [Positions -> Opacities]] :
        /\ f.x_offset + f.width <= CanvasWidth
        /\ f.y_offset + f.height <= CanvasHeight
        /\ f.has_alpha \/ \A p \in Positions : f.alpha[p] = "full"}

ASSUME CanvasAssumption == CanvasWidth \in Nat \ {0} /\ CanvasHeight \in Nat \ {0}
ASSUME AnimationsAssumption == Animations \subseteq Seq(Frame) \ {<< >>}

--------------------------------------------------------------------------------
(* Pixels and canvases *)

Layers == [frame : Nat, kind : {"part", "full", "dimmed", "broken"}]
Pixels == Seq(Layers)
Clear == << >>
Blank == [p \in Positions |-> Clear]

Covered(f) ==
    {p \in Positions : /\ f.x_offset <= p[1] /\ p[1] < f.x_offset + f.width
                       /\ f.y_offset <= p[2] /\ p[2] < f.y_offset + f.height}

\* The pixel that f, the frame of number n, has at position p.
PixelOf(f, n, p) ==
    IF f.alpha[p] = "clear" THEN Clear
    ELSE << [frame |-> n, kind |-> f.alpha[p]] >>

IsOpaque(pixel) == pixel # Clear /\ pixel[Len(pixel)].kind = "full"

\* The pixel above drawn over the pixel below.
Over(above, below) == IF IsOpaque(above) THEN above ELSE above \o below

\* Frame f, of number n, drawn over a canvas.
Drawn(f, n, ground) ==
    [p \in Positions |->
        IF p \notin Covered(f) THEN ground[p]
        ELSE IF f.blend THEN Over(PixelOf(f, n, p), ground[p])
        ELSE PixelOf(f, n, p)]

\* The canvas with the rectangle of f cleared.
Erased(f, c) == [p \in Positions |-> IF p \in Covered(f) THEN Clear ELSE c[p]]

\* What f leaves for the next one of the canvas it was shown on.
Disposed(f, c) == IF f.background THEN Erased(f, c) ELSE c
================================================================================
