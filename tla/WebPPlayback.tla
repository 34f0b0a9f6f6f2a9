----------------------------- MODULE WebPPlayback -----------------------------
(***************************************************************************)
(* Playing an animated WebP: FrameSequenceDrawable with the pictures that  *)
(* the native renderer (webp_wrapper.cpp) leaves in its two bitmaps.       *)
(*                                                                         *)
(* A gfycat with transparency is a WebPNewFrameSequence: every frame is    *)
(* drawn, over what the same bitmap showed before.  One without is a       *)
(* WebPOldFrameSequence: the bitmap is cleared first, and late frames are  *)
(* dropped, down to the last key frame among them if there is one.  Both   *)
(* have blending, so the drawable copies the back bitmap to the front one. *)
(*                                                                         *)
(* Frames are numbered from 0 by the drawable and from 1 in the file.  The *)
(* bitmaps have the size of the animation, as the sequence's drawable asks *)
(* for, and nothing is scaled.                                             *)
(***************************************************************************)
EXTENDS FrameSequenceDrawable, AnimationFormat

ASSUME LengthAssumption == \A a \in Animations : Len(a) = FrameCount

VARIABLES
    animation,      \* the demuxed file
    sequence,       \* which of the two frame sequences plays it
    corrupt,        \* the frames whose bitstream cannot be decoded
    picture         \* what each bitmap holds: a pixel for each position

file == <<animation, sequence, corrupt>>
playback == <<vars, file, picture>>

--------------------------------------------------------------------------------
(* webp_wrapper: WebPImageNativeGetFrame and WebPFrameNativeRenderFrame *)

HasOffsets(f) ==
    \/ f.width # CanvasWidth \/ f.height # CanvasHeight
    \/ f.x_offset # 0 \/ f.y_offset # 0

\* A frame that hides whatever was drawn before (the mutant: wherever it is).
IsKeyFrameAnywhere(f) == ~f.has_alpha \/ ~f.blend
IsKeyFrame(f) == (~f.has_alpha \/ ~f.blend) /\ ~HasOffsets(f)

\* The area that is cleared before frame n is drawn: the previous frame's, if
\* it is to be disposed of, or all of it before the first frame (the mutant:
\* nothing before the first frame).
DisposeAreaButFirst(n) ==
    IF n > 0 /\ animation[n].background THEN Covered(animation[n]) ELSE {}
DisposeArea(n) ==
    IF n = 0 THEN Positions
    ELSE IF animation[n].background THEN Covered(animation[n]) ELSE {}

\* A translucent pixel is decoded with its colour multiplied by its opacity,
\* and blending multiplies it once more.
Blended(above, below) ==
    IF above # Clear /\ ~IsOpaque(above)
    THEN << [above[1] EXCEPT !.kind = "dimmed"] >> \o below
    ELSE Over(above, below)

\* Frame n rendered into a bitmap that holds c.
RenderFrame(n, c, forceClearAll) ==
    LET f       == animation[n + 1]
        cleared == IF forceClearAll THEN Positions ELSE DisposeArea(n)
        ground  == [p \in Positions |-> IF p \in cleared THEN Clear ELSE c[p]]
    IN  [p \in Positions |->
            IF p \notin Covered(f) THEN ground[p]
            ELSE IF f.blend THEN Blended(PixelOf(f, n + 1, p), ground[p])
            ELSE PixelOf(f, n + 1, p)]

\* The last key frame from start to end, or -1.  The first frame counts as one.
LastKeyFrameInRange(start, end) ==
    LET keys == {n \in start .. end : n = 0 \/ IsKeyFrame(animation[n + 1])}
    IN  IF keys = {} THEN -1 ELSE CHOOSE n \in keys : \A m \in keys : m <= n

\* drawFrame of the two sequences.
DrawFrame(n, c) == RenderFrame(n, c, sequence = "old")

\* computeNextFrame, when keeping pace would take the frame `desired': new
\* sequences drop nothing, old ones down to a key frame, or else all.
NextFrame(next, desired) ==
    IF sequence = "new" THEN next
    ELSE IF desired <= next THEN desired
    ELSE LET key == LastKeyFrameInRange(next, desired)
         IN  IF key = -1 THEN desired ELSE key

--------------------------------------------------------------------------------

\* A bitmap that a decode failed on, or that was never drawn.
Broken == [p \in Positions |-> << [frame |-> 0, kind |-> "broken"] >>]

PInit ==
    /\ Init
    /\ mayHaveBlending
    /\ animation \in Animations
    /\ sequence \in {"new", "old"}
    /\ corrupt \in {{}} \union {{n} : n \in Frames \ {0}}
    /\ picture = [b \in Bitmaps |-> IF b = Front THEN DrawFrame(0, Blank) ELSE Broken]

\* drawFrame on the decoding thread.
PDecodeDraw(d) ==
    /\ DecodeDraw(d)
    /\ LET drawn == decoder'[d].frame
           b     == decoder[d].bitmap
       IN  /\ drawn \notin corrupt
           /\ \E desired \in Reachable(decoder[d].frame) :
                 drawn = NextFrame(decoder[d].frame, desired)
           /\ picture' = [picture EXCEPT ![b] = DrawFrame(drawn, picture[b])]
    /\ UNCHANGED file

\* The bitmap was cleared, and perhaps partly written.  (That the sequence was
\* released under the decoder fails the decode as well: after it, nothing is
\* shown any more.)
PDecodeFails(d) ==
    /\ DecodeFails(d)
    /\ \/ mDestroyed
       \/ \E desired \in Reachable(decoder[d].frame) :
             NextFrame(decoder[d].frame, desired) \in corrupt
    /\ picture' = [picture EXCEPT ![decoder[d].bitmap] = Broken]
    /\ UNCHANGED file

\* The back bitmap's pixels are copied to the front one.
PDrawSwapping ==
    /\ DrawSwapping
    /\ picture' = [picture EXCEPT ![mFrontBitmap] = picture[mBackBitmap]]
    /\ UNCHANGED file

PDecode(d) ==
    \/ PDecodeDraw(d) \/ PDecodeFails(d)
    \/ /\ DecodeBegin(d) \/ DecodeEnd(d) \/ DecodeInvalidate(d) \/ DecodeRelease(d)
       /\ UNCHANGED <<file, picture>>

PNext ==
    \/ UIFree /\ PDrawSwapping
    \/ /\ UIFree /\ (Start \/ Stop \/ RequestInvalidate \/ DrawOnly \/ Destroy)
       /\ UNCHANGED <<file, picture>>
    \/ ReleaseTaken /\ UNCHANGED <<file, picture>>
    \/ \E d \in Decoders : PDecode(d)

PSpec == PInit /\ [][PNext]_playback

--------------------------------------------------------------------------------
(* Properties *)

\* The canvas at each frame, as AnimationCanvas defines it.
CanvasAt[n \in 1 .. FrameCount] ==
    Drawn(animation[n], n,
          IF n = 1 THEN Blank ELSE Disposed(animation[n - 1], CanvasAt[n - 1]))

Translucent == \E n \in 1 .. FrameCount, p \in Positions : animation[n].alpha[p] = "part"

\* Whatever starts, stops, repeated decodes and failures came before, a new
\* sequence shows the canvas of its frame: the bitmap that is drawn into always
\* holds the previous frame, or is drawn from scratch.  It does so for pixels
\* that are opaque or transparent; translucent ones are blended too dark.
NewShowsCanvas ==
    sequence = "new" /\ ~Translucent /\ mFrontBitmap # NoBitmap =>
        picture[mFrontBitmap] = CanvasAt[content[mFrontBitmap] + 1]

\* A key frame that an old sequence dropped to shows the canvas although the
\* frames before it were not drawn.
OldShowsKeyFrames ==
    /\ sequence = "old" /\ mFrontBitmap # NoBitmap
    /\ IsKeyFrame(animation[content[mFrontBitmap] + 1])
    => picture[mFrontBitmap] = CanvasAt[content[mFrontBitmap] + 1]
================================================================================
