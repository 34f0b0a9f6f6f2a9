------------------------- MODULE FrameSequenceDrawable -------------------------
(***************************************************************************)
(* FrameSequenceDrawable: an animation drawn from two bitmaps.  The UI     *)
(* thread draws the front bitmap; decode tasks, run one at a time by a     *)
(* SerialExecutorService (ConstrainedExecutor with MaxConcurrency = 1),    *)
(* draw the next frame into the back bitmap.  A decode takes the lock      *)
(* before and after drawing, and draws without it, so every UI call may    *)
(* fall in between: start, stop, draw, destroy, an invalidation.           *)
(*                                                                         *)
(* A bitmap's content is the frame last drawn into it, or Torn while a     *)
(* decoder is drawing.  Time is abstracted: whether a swap is due, and     *)
(* which frames are dropped to keep pace, is chosen nondeterministically.  *)
(***************************************************************************)
EXTENDS Integers, FiniteSets

CONSTANTS
    FrameCount,         \* mFrameSequence.getFrameCount()
    Decoders,           \* threads of the decoding executor
    Front, Back,        \* the two bitmaps acquired by the constructor
    NoBitmap,           \* null
    MaxQueued,          \* bound: decode tasks waiting at once
    MaxInvalidations    \* bound: invalidations posted and not delivered

ASSUME FrameCountAssumption == FrameCount \in Nat \ {0}
ASSUME BitmapAssumption == Front # Back /\ NoBitmap \notin {Front, Back}
ASSUME BoundsAssumption ==
    MaxQueued \in Nat \ {0} /\ MaxInvalidations \in Nat \ {0}

VARIABLES
    mayHaveBlending,    \* of the frame sequence: its format blends frames
    mState, mNextFrameToDecode, mDestroyed, mFrontBitmap, mBackBitmap,
    decodeQueue,        \* tasks waiting in decodingExecutor
    decoder,            \* per thread: where it is and its local variables
    content,            \* what each bitmap shows
    releasing,          \* bitmaps destroy() took and has yet to release
    released,           \* how often releaseBitmap was called for each bitmap
    invalidations,      \* requestInvalidate runnables posted or scheduled
    invalidated         \* invalidateSelf was called and no draw followed yet

vars == <<mayHaveBlending, mState, mNextFrameToDecode, mDestroyed, mFrontBitmap,
          mBackBitmap, decodeQueue, decoder, content, releasing, released,
          invalidations, invalidated>>

Bitmaps == {Front, Back}
Frames == 0..(FrameCount - 1)
Torn == -1
States == {"none", "SCHEDULED", "DECODING", "WAITING_TO_SWAP", "READY_TO_SWAP"}

\* A decoder is idle, drawing a bitmap without the lock, back at the lock with
\* the frame it drew, or past it with something left to do.
DecoderStates ==
    [pc: {"idle"}]
      \union [pc: {"drawing"}, frame: Frames, bitmap: Bitmaps]
      \union [pc: {"drawn"}, frame: Frames]
      \union [pc: {"invalidate"}]
      \union [pc: {"release"}, bitmap: Bitmaps]

Idle == [pc |-> "idle"]

TypeOK ==
    /\ mayHaveBlending \in BOOLEAN
    /\ mState \in States
    /\ mNextFrameToDecode \in Frames \union {-1}
    /\ mDestroyed \in BOOLEAN
    /\ mFrontBitmap \in Bitmaps \union {NoBitmap}
    /\ mBackBitmap \in Bitmaps \union {NoBitmap}
    /\ decodeQueue \in 0..MaxQueued
    /\ decoder \in [Decoders -> DecoderStates]
    /\ content \in [Bitmaps -> Frames \union {Torn}]
    /\ releasing \subseteq Bitmaps
    /\ released \in [Bitmaps -> Nat]
    /\ invalidations \in 0..MaxInvalidations
    /\ invalidated \in BOOLEAN

\* The constructor draws frame 0 into the front bitmap and does not start.
Init ==
    /\ mayHaveBlending \in BOOLEAN
    /\ mState = "none"
    /\ mNextFrameToDecode = -1
    /\ mDestroyed = FALSE
    /\ mFrontBitmap = Front
    /\ mBackBitmap = Back
    /\ decodeQueue = 0
    /\ decoder = [d \in Decoders |-> Idle]
    /\ content = [b \in Bitmaps |-> IF b = Front THEN 0 ELSE Torn]
    /\ releasing = {}
    /\ released = [b \in Bitmaps |-> 0]
    /\ invalidations = 0
    /\ invalidated = FALSE

IsRunning == mNextFrameToDecode > -1 /\ ~ mDestroyed

--------------------------------------------------------------------------------
(* UI thread *)

\* The frame after n, in a loop.
FrameAfter(n) == (n + 1) % FrameCount

\* scheduleDecodeLocked
ScheduleDecode ==
    /\ decodeQueue < MaxQueued
    /\ mState' = "SCHEDULED"
    /\ mNextFrameToDecode' = FrameAfter(mNextFrameToDecode)
    /\ decodeQueue' = decodeQueue + 1

\* start(); on a destroyed drawable it throws.
Start ==
    /\ ~ IsRunning
    /\ ~ mDestroyed
    /\ mState # "SCHEDULED"
    /\ ScheduleDecode
    /\ UNCHANGED <<mayHaveBlending, mDestroyed, mFrontBitmap, mBackBitmap,
                   decoder, content, releasing, released, invalidations,
                   invalidated>>

\* stop(), and setVisible(false): the state is reset whatever it was, also when
\* a decode is under way.  The scheduled invalidation is removed; an older one,
\* or one that is posted but not scheduled yet, survives.
Stop ==
    /\ IsRunning
    /\ mNextFrameToDecode' = -1
    /\ mState' = "none"
    /\ \/ UNCHANGED invalidations
       \/ invalidations > 0 /\ invalidations' = invalidations - 1
    /\ UNCHANGED <<mayHaveBlending, mDestroyed, mFrontBitmap, mBackBitmap,
                   decodeQueue, decoder, content, releasing, released,
                   invalidated>>

\* A frame waits to be shown (the mutant: the first frame is forgotten).
FrameWaitsButFirst == mNextFrameToDecode > 0 /\ mState = "WAITING_TO_SWAP"
FrameWaits == mNextFrameToDecode >= 0 /\ mState = "WAITING_TO_SWAP"

\* requestInvalidate(), when a scheduled invalidation is delivered.
RequestInvalidate ==
    /\ invalidations > 0
    /\ invalidations' = invalidations - 1
    /\ \/ /\ FrameWaits
          /\ mState' = "READY_TO_SWAP"
          /\ invalidated' = TRUE
       \/ /\ ~ FrameWaits
          /\ UNCHANGED <<mState, invalidated>>
    /\ UNCHANGED <<mayHaveBlending, mNextFrameToDecode, mDestroyed,
                   mFrontBitmap, mBackBitmap, decodeQueue, decoder, content,
                   releasing, released>>

\* The states in which draw() may find a finished frame: ready, or waiting with
\* the swap due.  (The mutant also swaps while the frame is being decoded.)
MaySwapEarly == mState \in {"DECODING", "WAITING_TO_SWAP", "READY_TO_SWAP"}
MaySwap == mState \in {"WAITING_TO_SWAP", "READY_TO_SWAP"}

\* draw(), with a finished frame: the bitmaps are exchanged, or the back one is
\* copied to the front when frames blend, and the next decode is scheduled.
DrawSwapping ==
    /\ ~ mDestroyed
    /\ IsRunning
    /\ MaySwap
    /\ IF mayHaveBlending
       THEN /\ content' = [content EXCEPT ![mFrontBitmap] = content[mBackBitmap]]
            /\ UNCHANGED <<mFrontBitmap, mBackBitmap>>
       ELSE /\ mFrontBitmap' = mBackBitmap
            /\ mBackBitmap' = mFrontBitmap
            /\ UNCHANGED content
    /\ ScheduleDecode
    /\ invalidated' = FALSE
    /\ UNCHANGED <<mayHaveBlending, mDestroyed, decoder, releasing, released,
                   invalidations>>

\* draw(), with nothing to swap: a frame that waits is not due yet.
DrawOnly ==
    /\ ~ mDestroyed
    /\ invalidated
    /\ ~ (IsRunning /\ mState = "READY_TO_SWAP")
    /\ invalidated' = FALSE
    /\ UNCHANGED <<mayHaveBlending, mState, mNextFrameToDecode, mDestroyed,
                   mFrontBitmap, mBackBitmap, decodeQueue, decoder, content,
                   releasing, released, invalidations>>

\* What destroy() takes under the lock: the back bitmap is left to the decoder
\* while it decodes (the mutant: always).
TakenFrontOnly == {mFrontBitmap}
Taken == IF mState = "DECODING" THEN {mFrontBitmap} ELSE {mFrontBitmap, mBackBitmap}

\* The field is cleared with the taking (the mutant: it keeps the bitmap).
BackKept == mBackBitmap
BackAfterDestroy == IF mBackBitmap \in Taken THEN NoBitmap ELSE mBackBitmap

\* destroy(), the locked part; a second destroy() throws.
Destroy ==
    /\ ~ mDestroyed
    /\ mDestroyed' = TRUE
    /\ releasing' = Taken
    /\ mFrontBitmap' = NoBitmap
    /\ mBackBitmap' = BackAfterDestroy
    /\ UNCHANGED <<mayHaveBlending, mState, mNextFrameToDecode, decodeQueue,
                   decoder, content, released, invalidations, invalidated>>

\* destroy(), after the lock: releaseBitmap for what was taken.
ReleaseTaken ==
    /\ releasing # {}
    /\ \E b \in releasing :
          /\ releasing' = releasing \ {b}
          /\ released' = [released EXCEPT ![b] = @ + 1]
    /\ UNCHANGED <<mayHaveBlending, mState, mNextFrameToDecode, mDestroyed,
                   mFrontBitmap, mBackBitmap, decodeQueue, decoder, content,
                   invalidations, invalidated>>

--------------------------------------------------------------------------------
(* Decoding threads: mDecodeRunnable *)

\* The serial executor runs a task only when none is being run (the mutant: an
\* executor that allows two).
TurnUnlimited == TRUE
Turn == \A d \in Decoders : decoder[d] = Idle

\* The first locked section, and the start of drawFrame.
DecodeBegin(d) ==
    /\ decoder[d] = Idle
    /\ Turn
    /\ decodeQueue > 0
    /\ decodeQueue' = decodeQueue - 1
    /\ \/ /\ ~ mDestroyed
          /\ mNextFrameToDecode >= 0
          /\ mState' = "DECODING"
          /\ decoder' = [decoder EXCEPT ![d] =
                [pc |-> "drawing", frame |-> mNextFrameToDecode, bitmap |-> mBackBitmap]]
          /\ content' = [content EXCEPT ![mBackBitmap] = Torn]
       \/ /\ mDestroyed \/ mNextFrameToDecode < 0
          /\ UNCHANGED <<mState, decoder, content>>
    /\ UNCHANGED <<mayHaveBlending, mNextFrameToDecode, mDestroyed,
                   mFrontBitmap, mBackBitmap, releasing, released,
                   invalidations, invalidated>>

\* The frames findDesiredNextFrame may skip to: later ones of this loop, or the
\* first frame of the next loop, which is never dropped.
Reachable(frame) ==
    IF frame = 0 THEN {0} ELSE {frame, 0} \union {f \in Frames : f > frame}

\* drawFrame ends.
DecodeDraw(d) ==
    /\ decoder[d].pc = "drawing"
    /\ \E f \in Reachable(decoder[d].frame) :
          /\ content' = [content EXCEPT ![decoder[d].bitmap] = f]
          /\ decoder' = [decoder EXCEPT ![d] = [pc |-> "drawn", frame |-> f]]
    /\ UNCHANGED <<mayHaveBlending, mState, mNextFrameToDecode, mDestroyed,
                   mFrontBitmap, mBackBitmap, decodeQueue, releasing, released,
                   invalidations, invalidated>>

\* drawFrame throws: the frame's bitstream is broken, or destroy() has released
\* the sequence since the first locked section.  The executor's future swallows
\* the exception, and the rest of the task is skipped.
DecodeFails(d) ==
    /\ decoder[d].pc = "drawing"
    /\ decoder' = [decoder EXCEPT ![d] = Idle]
    /\ UNCHANGED <<mayHaveBlending, mState, mNextFrameToDecode, mDestroyed,
                   mFrontBitmap, mBackBitmap, decodeQueue, content, releasing,
                   released, invalidations, invalidated>>

\* The decoded frame is still wanted: neither stop(), nor stop() and start(),
\* came in between.
StillWanted == mNextFrameToDecode >= 0 /\ mState = "DECODING"

\* The second locked section.
DecodeEnd(d) ==
    /\ decoder[d].pc = "drawn"
    /\ \/ /\ mDestroyed
          /\ decoder' = [decoder EXCEPT ![d] =
                IF mBackBitmap = NoBitmap THEN Idle
                ELSE [pc |-> "release", bitmap |-> mBackBitmap]]
          /\ mBackBitmap' = NoBitmap
          /\ UNCHANGED <<mState, mNextFrameToDecode>>
       \/ /\ ~ mDestroyed
          /\ StillWanted
          /\ mNextFrameToDecode' = decoder[d].frame
          /\ mState' = "WAITING_TO_SWAP"
          /\ decoder' = [decoder EXCEPT ![d] = [pc |-> "invalidate"]]
          /\ UNCHANGED mBackBitmap
       \/ /\ ~ mDestroyed
          /\ ~ StillWanted
          /\ decoder' = [decoder EXCEPT ![d] = Idle]
          /\ UNCHANGED <<mState, mNextFrameToDecode, mBackBitmap>>
    /\ UNCHANGED <<mayHaveBlending, mDestroyed, mFrontBitmap, decodeQueue,
                   content, releasing, released, invalidations, invalidated>>

\* requestInvalidateThreadSafe, after the lock.
DecodeInvalidate(d) ==
    /\ decoder[d].pc = "invalidate"
    /\ decoder' = [decoder EXCEPT ![d] = Idle]
    /\ invalidations' = IF invalidations < MaxInvalidations
                        THEN invalidations + 1 ELSE invalidations
    /\ UNCHANGED <<mayHaveBlending, mState, mNextFrameToDecode, mDestroyed,
                   mFrontBitmap, mBackBitmap, decodeQueue, content, releasing,
                   released, invalidated>>

\* The back bitmap that destroy() left behind is released by the decoder.
DecodeRelease(d) ==
    /\ decoder[d].pc = "release"
    /\ released' = [released EXCEPT ![decoder[d].bitmap] = @ + 1]
    /\ decoder' = [decoder EXCEPT ![d] = Idle]
    /\ UNCHANGED <<mayHaveBlending, mState, mNextFrameToDecode, mDestroyed,
                   mFrontBitmap, mBackBitmap, decodeQueue, content, releasing,
                   invalidations, invalidated>>

Decode(d) ==
    \/ DecodeBegin(d) \/ DecodeDraw(d) \/ DecodeFails(d) \/ DecodeEnd(d)
    \/ DecodeInvalidate(d) \/ DecodeRelease(d)

--------------------------------------------------------------------------------

\* The UI thread is inside destroy() until everything taken is released.
UIFree == releasing = {}

UI == Start \/ Stop \/ RequestInvalidate \/ DrawSwapping \/ DrawOnly \/ Destroy

Next ==
    \/ UIFree /\ UI
    \/ ReleaseTaken
    \/ \E d \in Decoders : Decode(d)

\* The executor runs what it was given; the message queue delivers
\* invalidations; a view that was invalidated is drawn.  Nobody is obliged to
\* start, stop or destroy.
Fairness ==
    /\ WF_vars(ReleaseTaken)
    /\ WF_vars(\E d \in Decoders : Decode(d))
    /\ WF_vars(UIFree /\ RequestInvalidate)
    /\ WF_vars(UIFree /\ invalidated /\ (DrawSwapping \/ DrawOnly))

Spec == Init /\ [][Next]_vars /\ Fairness

--------------------------------------------------------------------------------

Drawing == {d \in Decoders : decoder[d].pc = "drawing"}

\* What the UI thread draws is never a frame that is still being decoded.
NoTornFrame == mFrontBitmap # NoBitmap => content[mFrontBitmap] # Torn

\* A frame offered for the swap is complete and is the frame the drawable
\* counts as the next one, however decodes, stops and restarts overlapped.
OfferedFrameComplete ==
    ~ mDestroyed /\ mState \in {"WAITING_TO_SWAP", "READY_TO_SWAP"}
        => content[mBackBitmap] = mNextFrameToDecode

\* destroy() and the decoder, who share the duty of giving bitmaps back, never
\* both give the same one back.
ReleasedOnce == \A b \in Bitmaps : released[b] <= 1

\* A decode failed and left the state, and its bitmap, as if it were still
\* under way.
Stalled ==
    /\ mState = "DECODING"
    /\ mBackBitmap # NoBitmap
    /\ \A d \in Decoders : decoder[d] = Idle

\* Between them they give back both ("releases any owned Bitmaps"), unless the
\* decode that destroy() left the back bitmap to has failed.
DestroyReleasesAll ==
    mDestroyed ~> (Stalled \/ \A b \in Bitmaps : released[b] >= 1)

\* While it runs, the animation goes on to another frame, as long as nobody
\* stops or destroys it and no decode fails: an invalidation is never lost for
\* good.
FramesAdvance ==
    \A f \in Frames :
        (IsRunning /\ mNextFrameToDecode = f) ~>
            (~ IsRunning \/ mNextFrameToDecode # f \/ Stalled)

\* "The Bitmap will no longer be used at all by the drawable, so it is safe to
\* reuse elsewhere" once releaseBitmap was called for it.
ReleasedNotDrawn == \A d \in Drawing : released[decoder[d].bitmap] = 0
================================================================================
