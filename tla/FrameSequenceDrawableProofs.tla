---------------------- MODULE FrameSequenceDrawableProofs ----------------------
(***************************************************************************)
(* For any number of frames, decoding threads, queued tasks and posted     *)
(* invalidations: what the UI thread draws is complete, what is offered    *)
(* for the swap is the frame counted as the next one, and destroy() and    *)
(* the decoder never both give a bitmap back.                              *)
(*                                                                         *)
(* All rest on who may touch which bitmap.  The front one is the UI        *)
(* thread's.  The back one is the decoder's from the first locked section  *)
(* to the second, in which time no stop and restart can bring the state to *)
(* one that draw() swaps in: only a second locked section does, and the    *)
(* executor runs one task at a time.  Once destroyed, each bitmap is where *)
(* exactly one party will release it from, or released.                   *)
(*                                                                         *)
(* The second half is about the pictures that WebPPlayback draws with it:  *)
(* the back bitmap always holds what the renderer draws the next frame     *)
(* over, or the frame can never be decoded.                                *)
(***************************************************************************)
EXTENDS WebPPlayback, SequenceTheorems, WellFoundedInduction, TLAPS

At(d, place) == decoder[d].pc = place
Busy(d) == ~ At(d, "idle")

\* One task at a time.
OneTask == \A d, e \in Decoders : Busy(d) /\ Busy(e) => d = e

\* Until it is destroyed the drawable has both bitmaps, and nothing is released.
OwnsBitmaps ==
    ~ mDestroyed =>
        /\ mFrontBitmap \in Bitmaps /\ mBackBitmap \in Bitmaps
        /\ mFrontBitmap # mBackBitmap
        /\ releasing = {}
        /\ \A b \in Bitmaps : released[b] = 0

\* While a task draws, and until its second locked section, no frame is offered.
NotOffered ==
    \A d \in Decoders :
        At(d, "drawing") \/ At(d, "drawn") => mState \in {"none", "SCHEDULED", "DECODING"}

\* The task draws the back bitmap, and leaves its frame there.
DrawsBack ==
    ~ mDestroyed => \A d \in Decoders :
        /\ At(d, "drawing") => decoder[d].bitmap = mBackBitmap
        /\ At(d, "drawn") => content[mBackBitmap] = decoder[d].frame

\* Ways a bitmap may be given back: by one party, once.
Held(b) == b = mFrontBitmap \/ b = mBackBitmap
WithDecoder(b) == \E d \in Decoders : At(d, "release") /\ decoder[d].bitmap = b

GivenBackOnce ==
    /\ mFrontBitmap = mBackBitmap => mFrontBitmap = NoBitmap
    /\ \A b \in Bitmaps :
          /\ released[b] \in {0, 1}
          /\ released[b] = 1 => b \notin releasing /\ ~ Held(b) /\ ~ WithDecoder(b)
          /\ b \in releasing => ~ Held(b) /\ ~ WithDecoder(b)
          /\ WithDecoder(b) => ~ Held(b)

\* Once destroyed, the front bitmap is gone from its field.
FrontTaken == mDestroyed => mFrontBitmap = NoBitmap

IInv ==
    /\ TypeOK /\ OneTask /\ OwnsBitmaps /\ NotOffered /\ DrawsBack
    /\ GivenBackOnce /\ FrontTaken
    /\ NoTornFrame /\ OfferedFrameComplete

--------------------------------------------------------------------------------
(* Facts about the data *)

LEMMA Constants ==
    /\ Front # Back /\ NoBitmap \notin Bitmaps
    /\ Torn \notin Frames
    /\ 0 \in Frames
    /\ Frames \subseteq Nat
BY FrameCountAssumption, BitmapAssumption DEF Bitmaps, Frames, Torn

LEMMA FrameAfterIsFrame == ASSUME NEW n \in Frames \union {-1} PROVE FrameAfter(n) \in Frames
<1>1. n + 1 \in Nat
  BY Constants DEF Frames
<1> QED BY <1>1, FrameCountAssumption DEF FrameAfter, Frames

LEMMA DecoderFacts ==
    ASSUME TypeOK, NEW d \in Decoders
    PROVE  /\ At(d, "idle") <=> decoder[d] = Idle
           /\ At(d, "drawing") => decoder[d].frame \in Frames /\ decoder[d].bitmap \in Bitmaps
           /\ At(d, "drawn") => decoder[d].frame \in Frames
           /\ At(d, "release") => decoder[d].bitmap \in Bitmaps
           /\ \E p \in {"idle", "drawing", "drawn", "invalidate", "release"} : At(d, p)
<1>1. decoder[d] \in DecoderStates
  BY DEF TypeOK
<1>2. CASE decoder[d] \in [pc: {"idle"}]
  BY <1>2 DEF Idle, At
<1>3. CASE decoder[d] \in [pc: {"drawing"}, frame: Frames, bitmap: Bitmaps]
  BY <1>3 DEF Idle, At
<1>4. CASE decoder[d] \in [pc: {"drawn"}, frame: Frames]
  BY <1>4 DEF Idle, At
<1>5. CASE decoder[d] \in [pc: {"invalidate"}]
  BY <1>5 DEF Idle, At
<1>6. CASE decoder[d] \in [pc: {"release"}, bitmap: Bitmaps]
  BY <1>6 DEF Idle, At
<1> QED BY <1>1, <1>2, <1>3, <1>4, <1>5, <1>6 DEF DecoderStates

LEMMA DecoderStatesAre ==
    /\ Idle \in DecoderStates
    /\ \A f \in Frames, b \in Bitmaps : [pc |-> "drawing", frame |-> f, bitmap |-> b] \in DecoderStates
    /\ \A f \in Frames : [pc |-> "drawn", frame |-> f] \in DecoderStates
    /\ [pc |-> "invalidate"] \in DecoderStates
    /\ \A b \in Bitmaps : [pc |-> "release", bitmap |-> b] \in DecoderStates
BY DEF DecoderStates, Idle

--------------------------------------------------------------------------------
(* The invariant, step by step *)

LEMMA Initially == Init => IInv
<1> SUFFICES ASSUME Init PROVE IInv
  OBVIOUS
<1> USE Constants DEF Init
<1>0. \A d \in Decoders : At(d, "idle")
  BY DEF At, Idle
<1>1. TypeOK
  <2>1. decoder \in [Decoders -> DecoderStates]
    BY DecoderStatesAre
  <2>2. content \in [Bitmaps -> Frames \union {Torn}]
    OBVIOUS
  <2>3. released \in [Bitmaps -> Nat] /\ releasing \subseteq Bitmaps
    OBVIOUS
  <2>4. mFrontBitmap \in Bitmaps /\ mBackBitmap \in Bitmaps
    BY DEF Bitmaps
  <2>5. decodeQueue \in 0 .. MaxQueued /\ invalidations \in 0 .. MaxInvalidations
    BY BoundsAssumption
  <2> QED BY <2>1, <2>2, <2>3, <2>4, <2>5 DEF TypeOK, States
<1>2. OneTask /\ NotOffered /\ DrawsBack
  BY <1>0 DEF OneTask, NotOffered, DrawsBack, Busy, At
<1>3. OwnsBitmaps /\ FrontTaken
  BY DEF OwnsBitmaps, FrontTaken, Bitmaps
<1>4. GivenBackOnce
  BY <1>0 DEF GivenBackOnce, Held, WithDecoder, At, Bitmaps
<1>5. NoTornFrame /\ OfferedFrameComplete
  BY DEF NoTornFrame, OfferedFrameComplete, Bitmaps
<1> QED BY <1>1, <1>2, <1>3, <1>4, <1>5 DEF IInv

Parts == /\ OneTask /\ OwnsBitmaps /\ NotOffered /\ DrawsBack
         /\ GivenBackOnce /\ FrontTaken /\ NoTornFrame /\ OfferedFrameComplete

\* The UI thread's steps other than a swap and destroy().
LEMMA QuietUIStep ==
    ASSUME IInv, UIFree, Start \/ Stop \/ RequestInvalidate \/ DrawOnly
    PROVE  IInv'
<1> USE DEF IInv
<1>1. CASE Start
  <2>1. mNextFrameToDecode' \in Frames
    BY <1>1, FrameAfterIsFrame DEF Start, ScheduleDecode, TypeOK
  <2>2. TypeOK'
    BY <1>1, <2>1, BoundsAssumption DEF Start, ScheduleDecode, TypeOK, States
  <2>3. Parts'
    BY <1>1 DEF Parts, Start, ScheduleDecode, OneTask, OwnsBitmaps, NotOffered, DrawsBack,
       GivenBackOnce, FrontTaken, NoTornFrame, OfferedFrameComplete, Busy, At, Held, WithDecoder
  <2> QED BY <2>2, <2>3 DEF Parts
<1>2. CASE Stop
  <2>1. TypeOK'
    BY <1>2, BoundsAssumption DEF Stop, TypeOK, States
  <2>2. Parts'
    BY <1>2 DEF Parts, Stop, OneTask, OwnsBitmaps, NotOffered, DrawsBack,
       GivenBackOnce, FrontTaken, NoTornFrame, OfferedFrameComplete, Busy, At, Held, WithDecoder
  <2> QED BY <2>1, <2>2 DEF Parts
<1>3. CASE RequestInvalidate
  <2>1. TypeOK'
    <3>1. mState' \in States /\ invalidated' \in BOOLEAN
      BY <1>3 DEF RequestInvalidate, TypeOK, States
    <3>2. invalidations' \in 0 .. MaxInvalidations
      BY <1>3, BoundsAssumption DEF RequestInvalidate, TypeOK
    <3> QED BY <1>3, <3>1, <3>2 DEF RequestInvalidate, TypeOK
  <2>2. Parts'
    BY <1>3 DEF Parts, RequestInvalidate, FrameWaits, OneTask, OwnsBitmaps, NotOffered, DrawsBack,
       GivenBackOnce, FrontTaken, NoTornFrame, OfferedFrameComplete, Busy, At, Held, WithDecoder
  <2> QED BY <2>1, <2>2 DEF Parts
<1>4. CASE DrawOnly
  <2>1. TypeOK'
    BY <1>4 DEF DrawOnly, TypeOK
  <2>2. Parts'
    BY <1>4 DEF Parts, DrawOnly, OneTask, OwnsBitmaps, NotOffered, DrawsBack,
       GivenBackOnce, FrontTaken, NoTornFrame, OfferedFrameComplete, Busy, At, Held, WithDecoder
  <2> QED BY <2>1, <2>2 DEF Parts
<1> QED BY <1>1, <1>2, <1>3, <1>4

\* A swap finds the back bitmap with nobody drawing it.
LEMMA SwapStep == ASSUME IInv, DrawSwapping PROVE IInv'
<1> USE DEF IInv
<1>1. \A d \in Decoders : ~ At(d, "drawing") /\ ~ At(d, "drawn")
  BY DEF DrawSwapping, MaySwap, NotOffered
<1>2. /\ mFrontBitmap \in Bitmaps /\ mBackBitmap \in Bitmaps
      /\ content[mBackBitmap] = mNextFrameToDecode
      /\ mNextFrameToDecode \in Frames
  BY DEF DrawSwapping, MaySwap, IsRunning, OwnsBitmaps, OfferedFrameComplete, TypeOK
<1>3. TypeOK'
  <2>1. mNextFrameToDecode' \in Frames
    BY <1>2, FrameAfterIsFrame DEF DrawSwapping, ScheduleDecode
  <2>2. content' \in [Bitmaps -> Frames \union {Torn}]
    BY <1>2 DEF DrawSwapping, TypeOK
  <2>3. mFrontBitmap' \in Bitmaps /\ mBackBitmap' \in Bitmaps
    BY <1>2 DEF DrawSwapping
  <2>4. decodeQueue' \in 0 .. MaxQueued
    BY BoundsAssumption DEF DrawSwapping, ScheduleDecode, TypeOK
  <2> QED BY <2>1, <2>2, <2>3, <2>4 DEF DrawSwapping, ScheduleDecode, TypeOK, States
<1>4. OneTask' /\ OwnsBitmaps' /\ FrontTaken'
  BY <1>2 DEF DrawSwapping, OneTask, OwnsBitmaps, FrontTaken, Busy, At
<1>5. NotOffered' /\ DrawsBack'
  BY <1>1 DEF DrawSwapping, NotOffered, DrawsBack, At
<1>6. GivenBackOnce'
  BY <1>2 DEF DrawSwapping, GivenBackOnce, Held, WithDecoder, At
<1>7. NoTornFrame'
  BY <1>2, Constants DEF DrawSwapping, NoTornFrame, TypeOK
<1>8. OfferedFrameComplete'
  BY DEF DrawSwapping, ScheduleDecode, OfferedFrameComplete
<1> QED BY <1>3, <1>4, <1>5, <1>6, <1>7, <1>8

LEMMA DestroyStep == ASSUME IInv, UIFree, Destroy PROVE IInv'
<1> USE DEF IInv
<1>1. /\ mFrontBitmap \in Bitmaps /\ mBackBitmap \in Bitmaps
      /\ mFrontBitmap # mBackBitmap
      /\ \A b \in Bitmaps : released[b] = 0
  BY DEF Destroy, OwnsBitmaps
<1>2. \/ releasing' = {mFrontBitmap} /\ mBackBitmap' = mBackBitmap
      \/ releasing' = {mFrontBitmap, mBackBitmap} /\ mBackBitmap' = NoBitmap
  BY <1>1 DEF Destroy, Taken, BackAfterDestroy
<1>3. TypeOK'
  BY <1>1, <1>2 DEF Destroy, TypeOK
<1>4. Parts'
  BY <1>1, <1>2, Constants DEF Parts, Destroy, OneTask, OwnsBitmaps, NotOffered, DrawsBack,
     GivenBackOnce, FrontTaken, NoTornFrame, OfferedFrameComplete, Busy, At, Held, WithDecoder
<1> QED BY <1>3, <1>4 DEF Parts

LEMMA ReleaseTakenStep == ASSUME IInv, ReleaseTaken PROVE IInv'
<1> USE DEF IInv
<1>1. PICK b \in releasing : /\ releasing' = releasing \ {b}
                            /\ released' = [released EXCEPT ![b] = @ + 1]
  BY DEF ReleaseTaken
<1>2. mDestroyed /\ b \in Bitmaps /\ released[b] = 0
  BY DEF OwnsBitmaps, TypeOK, GivenBackOnce
<1>3. TypeOK'
  BY <1>1, <1>2 DEF ReleaseTaken, TypeOK
<1>4. GivenBackOnce'
  BY <1>1, <1>2 DEF ReleaseTaken, TypeOK, GivenBackOnce, Held, WithDecoder, At
<1>5. OneTask' /\ OwnsBitmaps' /\ NotOffered' /\ DrawsBack' /\ FrontTaken'
  BY <1>2 DEF ReleaseTaken, OneTask, OwnsBitmaps, NotOffered, DrawsBack, FrontTaken, Busy, At
<1>6. NoTornFrame' /\ OfferedFrameComplete'
  BY DEF ReleaseTaken, NoTornFrame, OfferedFrameComplete
<1> QED BY <1>3, <1>4, <1>5, <1>6

\* A decoding thread that goes from one place to another, with nobody else busy.
LEMMA DecoderMoves ==
    ASSUME IInv, NEW d \in Decoders, NEW s \in DecoderStates,
           Busy(d) \/ Turn,
           decoder' = [decoder EXCEPT ![d] = s]
    PROVE  /\ decoder' \in [Decoders -> DecoderStates]
           /\ decoder'[d] = s
           /\ \A e \in Decoders \ {d} : decoder'[e] = decoder[e] /\ At(e, "idle") /\ At(e, "idle")'
           /\ OneTask'
<1> USE DEF IInv
<1>1. decoder' \in [Decoders -> DecoderStates] /\ decoder'[d] = s
  BY DEF TypeOK
<1>2. ASSUME NEW e \in Decoders, e # d PROVE decoder'[e] = decoder[e] /\ At(e, "idle")
  BY <1>2, DecoderFacts DEF TypeOK, OneTask, Busy, Turn, At
<1> QED BY <1>1, <1>2 DEF OneTask, Busy, At

LEMMA DecodeBeginStep == ASSUME IInv, NEW d \in Decoders, DecodeBegin(d) PROVE IInv'
<1> USE DEF IInv
<1>0. decodeQueue' \in 0 .. MaxQueued
  BY BoundsAssumption DEF DecodeBegin, TypeOK
<1>1. CASE UNCHANGED <<mState, decoder, content>>
  <2>1. TypeOK'
    BY <1>0, <1>1 DEF DecodeBegin, TypeOK
  <2>2. Parts'
    BY <1>1 DEF Parts, DecodeBegin, OneTask, OwnsBitmaps, NotOffered, DrawsBack,
       GivenBackOnce, FrontTaken, NoTornFrame, OfferedFrameComplete, Busy, At, Held, WithDecoder
  <2> QED BY <2>1, <2>2 DEF Parts
<1>2. CASE /\ ~ mDestroyed /\ mNextFrameToDecode >= 0 /\ mState' = "DECODING"
           /\ decoder' = [decoder EXCEPT ![d] =
                  [pc |-> "drawing", frame |-> mNextFrameToDecode, bitmap |-> mBackBitmap]]
           /\ content' = [content EXCEPT ![mBackBitmap] = Torn]
  <2> DEFINE s == [pc |-> "drawing", frame |-> mNextFrameToDecode, bitmap |-> mBackBitmap]
  <2>1. /\ mFrontBitmap \in Bitmaps /\ mBackBitmap \in Bitmaps
        /\ mFrontBitmap # mBackBitmap
        /\ mNextFrameToDecode \in Frames
    BY <1>2 DEF OwnsBitmaps, TypeOK
  <2>2. s \in DecoderStates /\ s.pc = "drawing" /\ s.bitmap = mBackBitmap
    BY <2>1, DecoderStatesAre
  <2>3. decoder' = [decoder EXCEPT ![d] = s] /\ Turn
    BY <1>2 DEF DecodeBegin
  <2> HIDE DEF s
  <2>4. /\ decoder' \in [Decoders -> DecoderStates]
        /\ decoder'[d] = s
        /\ \A e \in Decoders \ {d} : decoder'[e] = decoder[e] /\ At(e, "idle") /\ At(e, "idle")'
        /\ OneTask'
    BY <2>2, <2>3, DecoderMoves
  <2>5. /\ content' \in [Bitmaps -> Frames \union {Torn}]
        /\ content'[mFrontBitmap] = content[mFrontBitmap]
    BY <1>2, <2>1 DEF TypeOK
  <2>6. TypeOK'
    BY <1>0, <1>2, <2>4, <2>5 DEF DecodeBegin, TypeOK, States
  <2>7. OwnsBitmaps' /\ FrontTaken' /\ NoTornFrame'
    BY <2>5 DEF DecodeBegin, OwnsBitmaps, FrontTaken, NoTornFrame
  <2>8. NotOffered' /\ DrawsBack' /\ OfferedFrameComplete'
    BY <1>2, <2>2, <2>4 DEF DecodeBegin, NotOffered, DrawsBack, OfferedFrameComplete, At
  <2>9. GivenBackOnce'
    BY <2>2, <2>4 DEF DecodeBegin, GivenBackOnce, Held, WithDecoder, At
  <2> QED BY <2>4, <2>6, <2>7, <2>8, <2>9
<1> QED BY <1>1, <1>2 DEF DecodeBegin

LEMMA DecodeDrawStep == ASSUME IInv, NEW d \in Decoders, DecodeDraw(d) PROVE IInv'
<1> USE DEF IInv
<1>1. PICK f \in Reachable(decoder[d].frame) :
          /\ content' = [content EXCEPT ![decoder[d].bitmap] = f]
          /\ decoder' = [decoder EXCEPT ![d] = [pc |-> "drawn", frame |-> f]]
  BY DEF DecodeDraw
<1> DEFINE s == [pc |-> "drawn", frame |-> f]
<1>2. At(d, "drawing") /\ decoder[d].frame \in Frames /\ decoder[d].bitmap \in Bitmaps /\ Busy(d)
  BY DecoderFacts DEF DecodeDraw, At, Busy
<1>3. f \in Frames
  BY <1>2, Constants DEF Reachable
<1>4. s \in DecoderStates /\ s.pc = "drawn" /\ s.frame = f
  BY <1>3, DecoderStatesAre
<1>5. decoder' = [decoder EXCEPT ![d] = s]
  BY <1>1
<1> HIDE DEF s
<1>6. /\ decoder' \in [Decoders -> DecoderStates]
      /\ decoder'[d] = s
      /\ \A e \in Decoders \ {d} : decoder'[e] = decoder[e] /\ At(e, "idle") /\ At(e, "idle")'
      /\ OneTask'
  BY <1>2, <1>4, <1>5, DecoderMoves
<1>7. /\ content' \in [Bitmaps -> Frames \union {Torn}]
      /\ content'[decoder[d].bitmap] = f
      /\ ~ mDestroyed => decoder[d].bitmap = mBackBitmap /\ mBackBitmap \in Bitmaps
                         /\ content'[mFrontBitmap] = content[mFrontBitmap]
  BY <1>1, <1>2, <1>3 DEF TypeOK, DrawsBack, OwnsBitmaps
<1>8. TypeOK'
  BY <1>6, <1>7 DEF DecodeDraw, TypeOK
<1>9. OwnsBitmaps' /\ FrontTaken' /\ NoTornFrame'
  BY <1>7 DEF DecodeDraw, OwnsBitmaps, FrontTaken, NoTornFrame
<1>10. NotOffered' /\ DrawsBack' /\ OfferedFrameComplete'
  BY <1>2, <1>4, <1>6, <1>7 DEF DecodeDraw, NotOffered, DrawsBack, OfferedFrameComplete, At
<1>11. GivenBackOnce'
  BY <1>2, <1>4, <1>6 DEF DecodeDraw, GivenBackOnce, Held, WithDecoder, At
<1> QED BY <1>6, <1>8, <1>9, <1>10, <1>11

\* The task ends, or what it has left to do is done, and nothing else changes but
\* the invalidations and the count of the bitmap it releases.
LEMMA TaskEndsStep ==
    ASSUME IInv, NEW d \in Decoders, DecodeFails(d) \/ DecodeInvalidate(d) \/ DecodeRelease(d)
    PROVE  IInv'
<1> USE DEF IInv
<1>1. /\ Busy(d)
      /\ decoder' = [decoder EXCEPT ![d] = Idle]
      /\ Idle \in DecoderStates /\ Idle.pc = "idle"
  BY DecoderStatesAre DEF DecodeFails, DecodeInvalidate, DecodeRelease, Busy, At, Idle
<1>2. /\ decoder' \in [Decoders -> DecoderStates]
      /\ decoder'[d] = Idle
      /\ \A e \in Decoders \ {d} : decoder'[e] = decoder[e] /\ At(e, "idle") /\ At(e, "idle")'
      /\ OneTask'
  BY <1>1, DecoderMoves
<1>3. \A e \in Decoders : At(e, "idle")'
  BY <1>1, <1>2 DEF At
<1>4. invalidations' \in 0 .. MaxInvalidations
  BY BoundsAssumption DEF TypeOK, DecodeFails, DecodeInvalidate, DecodeRelease
<1>5. UNCHANGED <<mayHaveBlending, mState, mNextFrameToDecode, mDestroyed, mFrontBitmap,
                  mBackBitmap, decodeQueue, content, releasing, invalidated>>
  BY DEF DecodeFails, DecodeInvalidate, DecodeRelease
<1>6. NotOffered' /\ DrawsBack' /\ FrontTaken' /\ NoTornFrame' /\ OfferedFrameComplete'
  BY <1>3, <1>5 DEF NotOffered, DrawsBack, FrontTaken, NoTornFrame, OfferedFrameComplete, At
<1>7. CASE UNCHANGED released
  <2>1. TypeOK'
    BY <1>2, <1>4, <1>5, <1>7 DEF TypeOK
  <2>2. OwnsBitmaps' /\ GivenBackOnce'
    BY <1>3, <1>5, <1>7 DEF OwnsBitmaps, GivenBackOnce, Held, WithDecoder, At
  <2> QED BY <1>2, <1>6, <2>1, <2>2
<1>8. CASE DecodeRelease(d)
  <2> DEFINE b == decoder[d].bitmap
  <2>1. At(d, "release") /\ b \in Bitmaps /\ WithDecoder(b)
    BY <1>8, DecoderFacts DEF DecodeRelease, At, WithDecoder
  <2>2. mDestroyed
    BY <2>1 DEF OwnsBitmaps, GivenBackOnce, Held, Bitmaps
  <2>3. /\ released' = [released EXCEPT ![b] = @ + 1]
        /\ released[b] = 0
        /\ b \notin releasing /\ ~ Held(b)
    BY <1>8, <2>1 DEF DecodeRelease, GivenBackOnce
  <2> HIDE DEF b
  <2>4. TypeOK'
    BY <1>2, <1>4, <1>5, <2>1, <2>3 DEF TypeOK
  <2>5. OwnsBitmaps'
    BY <1>5, <2>2 DEF OwnsBitmaps
  <2>6. GivenBackOnce'
    BY <1>3, <1>5, <2>1, <2>3 DEF GivenBackOnce, TypeOK, Held, WithDecoder, At
  <2> QED BY <1>2, <1>6, <2>4, <2>5, <2>6
<1> QED BY <1>7, <1>8 DEF DecodeFails, DecodeInvalidate

LEMMA DecodeEndStep == ASSUME IInv, NEW d \in Decoders, DecodeEnd(d) PROVE IInv'
<1> USE DEF IInv
<1>1. At(d, "drawn") /\ decoder[d].frame \in Frames /\ Busy(d)
  BY DecoderFacts DEF DecodeEnd, At, Busy
<1>2. CASE mDestroyed
  <2> DEFINE s == IF mBackBitmap = NoBitmap THEN Idle
                 ELSE [pc |-> "release", bitmap |-> mBackBitmap]
  <2>1. decoder' = [decoder EXCEPT ![d] = s] /\ mBackBitmap' = NoBitmap
    BY <1>2 DEF DecodeEnd
  <2>2. /\ s \in DecoderStates
        /\ s.pc \in {"idle", "release"}
        /\ s.pc = "release" => s.bitmap = mBackBitmap /\ mBackBitmap \in Bitmaps
    BY DecoderStatesAre DEF Idle, TypeOK
  <2> HIDE DEF s
  <2>3. /\ decoder' \in [Decoders -> DecoderStates]
        /\ decoder'[d] = s
        /\ \A e \in Decoders \ {d} : decoder'[e] = decoder[e] /\ At(e, "idle") /\ At(e, "idle")'
        /\ OneTask'
    BY <1>1, <2>1, <2>2, DecoderMoves
  <2>4. UNCHANGED <<mState, mNextFrameToDecode>>
    BY <1>2 DEF DecodeEnd
  <2>5. TypeOK'
    BY <2>1, <2>3, <2>4 DEF DecodeEnd, TypeOK
  <2>6. OwnsBitmaps' /\ FrontTaken' /\ NoTornFrame' /\ OfferedFrameComplete' /\ DrawsBack'
    BY <1>2 DEF DecodeEnd, OwnsBitmaps, FrontTaken, NoTornFrame, OfferedFrameComplete, DrawsBack
  <2>7. NotOffered'
    BY <2>2, <2>3 DEF NotOffered, At
  <2>8. GivenBackOnce'
    BY <1>2, <2>1, <2>2, <2>3, Constants
       DEF DecodeEnd, GivenBackOnce, FrontTaken, Held, WithDecoder, At
  <2> QED BY <2>3, <2>5, <2>6, <2>7, <2>8
<1>3. CASE ~ mDestroyed
  <2> DEFINE s == IF StillWanted THEN [pc |-> "invalidate"] ELSE Idle
  <2>1. decoder' = [decoder EXCEPT ![d] = s] /\ mBackBitmap' = mBackBitmap
    BY <1>3 DEF DecodeEnd
  <2>2. s \in DecoderStates /\ s.pc \in {"idle", "invalidate"}
    BY DecoderStatesAre DEF Idle
  <2> HIDE DEF s
  <2>3. /\ decoder' \in [Decoders -> DecoderStates]
        /\ decoder'[d] = s
        /\ \A e \in Decoders \ {d} : decoder'[e] = decoder[e] /\ At(e, "idle") /\ At(e, "idle")'
        /\ OneTask'
    BY <1>1, <2>1, <2>2, DecoderMoves
  <2>4. /\ mState' \in States /\ mNextFrameToDecode' \in Frames \union {-1}
        /\ \/ UNCHANGED <<mState, mNextFrameToDecode>>
           \/ mNextFrameToDecode' = content[mBackBitmap]
    BY <1>1, <1>3 DEF DecodeEnd, TypeOK, States, DrawsBack
  <2>5. TypeOK'
    BY <2>1, <2>3, <2>4 DEF DecodeEnd, TypeOK
  <2>6. OwnsBitmaps' /\ FrontTaken' /\ NoTornFrame' /\ OfferedFrameComplete'
    BY <1>3, <2>1, <2>4 DEF DecodeEnd, OwnsBitmaps, FrontTaken, NoTornFrame, OfferedFrameComplete
  <2>7. NotOffered' /\ DrawsBack'
    BY <2>2, <2>3 DEF NotOffered, DrawsBack, At
  <2>8. GivenBackOnce'
    BY <2>1, <2>2, <2>3 DEF DecodeEnd, GivenBackOnce, Held, WithDecoder, At
  <2> QED BY <2>3, <2>5, <2>6, <2>7, <2>8
<1> QED BY <1>2, <1>3

LEMMA Step == IInv /\ [Next]_vars => IInv'
<1> SUFFICES ASSUME IInv, [Next]_vars PROVE IInv'
  OBVIOUS
<1>1. CASE UIFree /\ UI
  BY <1>1, QuietUIStep, SwapStep, DestroyStep DEF UI
<1>2. CASE ReleaseTaken
  BY <1>2, ReleaseTakenStep
<1>3. ASSUME NEW d \in Decoders, Decode(d) PROVE IInv'
  BY <1>3, DecodeBeginStep, DecodeDrawStep, TaskEndsStep, DecodeEndStep DEF Decode
<1>4. CASE UNCHANGED vars
  <2>1. TypeOK'
    BY <1>4 DEF IInv, TypeOK, vars
  <2>2. Parts'
    BY <1>4 DEF IInv, vars, Parts, OneTask, OwnsBitmaps, NotOffered, DrawsBack,
       GivenBackOnce, FrontTaken, NoTornFrame, OfferedFrameComplete, Busy, At, Held, WithDecoder
  <2> QED BY <2>1, <2>2 DEF IInv, Parts
<1> QED BY <1>1, <1>2, <1>3, <1>4 DEF Next

LEMMA Invariant == Spec => []IInv
<1>1. Init => IInv
  BY Initially
<1>2. IInv /\ [Next]_vars => IInv'
  BY Step
<1> QED BY <1>1, <1>2, PTL DEF Spec

--------------------------------------------------------------------------------

\* The variables of FrameSequenceDrawable keep their types: scheduleDecodeLocked
\* and the decode task count frames within the sequence, and the queue and the
\* posted invalidations stay within their bounds.
THEOREM TypeCorrect == Spec => []TypeOK
<1>1. IInv => TypeOK
  BY DEF IInv
<1> QED BY <1>1, Invariant, PTL

\* draw() never shows a frame that mDecodeRunnable is still drawing, or never
\* finished: however starts, stops, swaps and decodes that fail fall together.
THEOREM FrontIsWhole == Spec => []NoTornFrame
<1>1. IInv => NoTornFrame
  BY DEF IInv
<1> QED BY <1>1, Invariant, PTL

\* What draw() may swap in is a complete frame, and the one that
\* mNextFrameToDecode names.
THEOREM OfferIsWhole == Spec => []OfferedFrameComplete
<1>1. IInv => OfferedFrameComplete
  BY DEF IInv
<1> QED BY <1>1, Invariant, PTL

\* destroy() and mDecodeRunnable between them call releaseBitmap at most once for
\* each bitmap.
THEOREM NeverReleasedTwice == Spec => []ReleasedOnce
<1>1. IInv => ReleasedOnce
  BY DEF IInv, GivenBackOnce, ReleasedOnce
<1> QED BY <1>1, Invariant, PTL

--------------------------------------------------------------------------------
(* The pictures *)

\* The canvas at each frame of animation a, as a function of its number.
CanvasFrom(a, c, n) ==
    Drawn(a[n], n, IF n = 1 THEN Blank ELSE Disposed(a[n - 1], c[n - 1]))
Canvases(a) == CHOOSE c : c = [n \in 1 .. FrameCount |-> CanvasFrom(a, c, n)]

\* What a bitmap should show as frame n.
Expected(n) ==
    IF sequence = "new" THEN Canvases(animation)[n + 1] ELSE RenderFrame(n, Blank, TRUE)

\* Frame n, if it can be decoded at all, can be drawn over the back bitmap: the
\* frame before is there, or the frame itself.
Fits(n) ==
    \/ n = 0 \/ n \in corrupt
    \/ picture[mBackBitmap] \in {Canvases(animation)[n], Canvases(animation)[n + 1]}

FileTyping ==
    /\ mayHaveBlending
    /\ animation \in Animations
    /\ sequence \in {"new", "old"}
    /\ 0 \notin corrupt
    /\ DOMAIN picture = Bitmaps

\* A bitmap that has been drawn into shows its frame.
ShowsContent == \A b \in Bitmaps : content[b] # Torn => picture[b] = Expected(content[b])

\* The frame to decode next, and the one being drawn, find in the back bitmap
\* what they need; no other frame becomes the next one while one is drawn.
GroundReady ==
    /\ \A d \in Decoders : decoder[d].pc = "drawing" =>
          /\ content[mBackBitmap] = Torn
          /\ mNextFrameToDecode \in {-1, 0, decoder[d].frame}
          /\ sequence = "new" => Fits(decoder[d].frame)
    /\ sequence = "new" /\ mNextFrameToDecode >= 0 => Fits(mNextFrameToDecode)

Sound == ~ mDestroyed /\ (sequence = "new" => ~ Translucent)

PicturesInv == FileTyping /\ (Sound => ShowsContent /\ GroundReady)

--------------------------------------------------------------------------------
(* Canvases.  The library's induction is about operators; the counterexample *)
(* to a set that is inductive, the least number not in it, is found from the *)
(* well-foundedness of the natural numbers.                                  *)

Descending == {p \in Nat \X Nat : p[1] < p[2]}

LEMMA Induction ==
    ASSUME NEW P \in SUBSET Nat, 0 \in P, \A n \in P : n + 1 \in P
    PROVE  P = Nat
<1> DEFINE C == Nat \ P
<1> SUFFICES ASSUME C # {} PROVE FALSE
  OBVIOUS
<1>1. OpToRel(<, Nat) = Descending
  BY DEF OpToRel, Descending
<1>2. PICK x \in C : \A y \in C : <<y, x>> \notin Descending
  BY <1>1, NatLessThanWellFounded, WFMin
<1>3. x # 0 /\ x - 1 \in Nat /\ <<x - 1, x>> \in Descending
  BY <1>2 DEF Descending
<1>4. x - 1 \in P
  BY <1>2, <1>3
<1> QED BY <1>2, <1>3, <1>4

\* The recursion over the frames has a solution, up to any frame.
LEMMA CanvasesExist ==
    ASSUME NEW a, NEW m \in Nat
    PROVE  \E c : c = [n \in 1 .. m |-> CanvasFrom(a, c, n)]
<1> DEFINE P == {k \in Nat : \E c : c = [n \in 1 .. k |-> CanvasFrom(a, c, n)]}
<1>1. 0 \in P
  <2> DEFINE c == << >>
  <2>1. c = [n \in 1 .. 0 |-> CanvasFrom(a, c, n)]
    OBVIOUS
  <2> QED BY <2>1
<1>2. ASSUME NEW k \in P PROVE k + 1 \in P
  <2>1. PICK c : c = [n \in 1 .. k |-> CanvasFrom(a, c, n)]
    OBVIOUS
  <2> DEFINE g == [n \in 1 .. k + 1 |-> CanvasFrom(a, c, n)]
  <2>2. \A n \in 1 .. k : g[n] = c[n]
    BY <2>1
  <2>3. ASSUME NEW n \in 1 .. k + 1 PROVE CanvasFrom(a, g, n) = CanvasFrom(a, c, n)
    <3>1. n # 1 => n - 1 \in 1 .. k
      OBVIOUS
    <3>2. n # 1 => g[n - 1] = c[n - 1]
      BY <2>2, <3>1
    <3> HIDE DEF g
    <3> QED BY <3>2 DEF CanvasFrom
  <2>4. g = [n \in 1 .. k + 1 |-> CanvasFrom(a, g, n)]
    BY <2>3
  <2> HIDE DEF g
  <2>5. k + 1 \in Nat
    OBVIOUS
  <2>6. \E h : h = [n \in 1 .. k + 1 |-> CanvasFrom(a, h, n)]
    BY <2>4
  <2> QED BY <2>5, <2>6
<1> HIDE DEF P
<1>3. P = Nat
  BY <1>1, <1>2, Induction DEF P
<1> QED BY <1>3 DEF P

LEMMA CanvasesAre ==
    ASSUME NEW a, NEW n \in 1 .. FrameCount
    PROVE  Canvases(a)[n] = CanvasFrom(a, Canvases(a), n)
<1> DEFINE c == Canvases(a)
<1>1. c = [i \in 1 .. FrameCount |-> CanvasFrom(a, c, i)]
  BY CanvasesExist, FrameCountAssumption DEF Canvases
<1> HIDE DEF c
<1>2. c[n] = CanvasFrom(a, c, n)
  BY <1>1
<1> QED BY <1>2 DEF c

LEMMA CanvasAtIs == CanvasAt = Canvases(animation)
  BY DEF CanvasAt, Canvases, CanvasFrom

LEMMA FrameIs ==
    ASSUME NEW a \in Animations, NEW n \in 1 .. FrameCount
    PROVE  a[n] \in Frame
  BY AnimationsAssumption, LengthAssumption

LEMMA PixelIs ==
    ASSUME NEW f \in Frame, NEW n \in Nat, NEW p \in Positions
    PROVE  /\ PixelOf(f, n, p) \in Pixels
           /\ f.alpha[p] = "full" => IsOpaque(PixelOf(f, n, p))
           /\ f.alpha[p] = "clear" => PixelOf(f, n, p) = Clear
           /\ f.alpha[p] \in Opacities
<1>1. f.alpha[p] \in Opacities
  BY DEF Frame
<1>2. CASE f.alpha[p] = "clear"
  BY <1>2 DEF PixelOf, Pixels, Clear, Opacities
<1>3. CASE f.alpha[p] # "clear"
  <2> DEFINE layer == [frame |-> n, kind |-> f.alpha[p]]
  <2>1. layer \in Layers /\ layer.kind = f.alpha[p]
    BY <1>1, <1>3 DEF Layers, Opacities
  <2>2. PixelOf(f, n, p) = << layer >>
    BY <1>3 DEF PixelOf
  <2> HIDE DEF layer
  <2>3. /\ << layer >> \in Pixels /\ << layer >> # Clear
        /\ Len(<< layer >>) = 1 /\ << layer >>[1] = layer
    BY <2>1 DEF Pixels, Clear
  <2> QED BY <1>1, <1>3, <2>1, <2>2, <2>3 DEF IsOpaque
<1> QED BY <1>2, <1>3

\* Canvases are pictures.
LEMMA CanvasesType ==
    ASSUME NEW a \in Animations, NEW n \in 1 .. FrameCount
    PROVE  Canvases(a)[n] \in [Positions -> Pixels]
<1> DEFINE P == {k \in Nat : k \in 1 .. FrameCount => Canvases(a)[k] \in [Positions -> Pixels]}
<1>1. 0 \in P
  OBVIOUS
<1>2. ASSUME NEW k \in P PROVE k + 1 \in P
  <2> SUFFICES ASSUME k + 1 \in 1 .. FrameCount
               PROVE  Canvases(a)[k + 1] \in [Positions -> Pixels]
    OBVIOUS
  <2> DEFINE f == a[k + 1]
             ground == IF k + 1 = 1 THEN Blank ELSE Disposed(a[k], Canvases(a)[k])
  <2>1. k \in Nat /\ f \in Frame
    BY FrameIs
  <2>2. k # 0 => k \in 1 .. FrameCount /\ Canvases(a)[k] \in [Positions -> Pixels]
    BY <2>1, FrameCountAssumption
  <2>3. Clear \in Pixels
    BY DEF Clear, Pixels
  <2>4. ground \in [Positions -> Pixels]
    BY <2>1, <2>2, <2>3 DEF Blank, Disposed, Erased
  <2>5. Canvases(a)[k + 1] = Drawn(f, k + 1, ground)
    <3>1. Canvases(a)[k + 1] = CanvasFrom(a, Canvases(a), k + 1)
      BY CanvasesAre
    <3>2. (k + 1) - 1 = k
      BY <2>1
    <3> QED BY <3>1, <3>2 DEF CanvasFrom
  <2>6. \A p \in Positions : PixelOf(f, k + 1, p) \in Pixels
    BY <2>1, PixelIs
  <2> HIDE DEF f, ground
  <2>7. ASSUME NEW p \in Positions PROVE Over(PixelOf(f, k + 1, p), ground[p]) \in Pixels
    BY <2>4, <2>6 DEF Over, Pixels
  <2>8. Drawn(f, k + 1, ground) \in [Positions -> Pixels]
    BY <2>4, <2>6, <2>7 DEF Drawn
  <2> QED BY <2>5, <2>8
<1> HIDE DEF P
<1>3. P = Nat
  BY <1>1, <1>2, Induction DEF P
<1> QED BY <1>3 DEF P

--------------------------------------------------------------------------------
(* What drawing a frame gives *)

\* Without translucent pixels blending is the format's.
LEMMA BlendedIsOver ==
    ASSUME FileTyping, ~ Translucent, NEW n \in Frames, NEW p \in Positions, NEW below
    PROVE  Blended(PixelOf(animation[n + 1], n + 1, p), below)
             = Over(PixelOf(animation[n + 1], n + 1, p), below)
<1>1. n + 1 \in 1 .. FrameCount /\ n + 1 \in Nat
  BY FrameCountAssumption DEF Frames
<1>2. animation[n + 1] \in Frame /\ animation[n + 1].alpha[p] # "part"
  BY <1>1, FrameIs DEF FileTyping, Translucent
<1>3. animation[n + 1].alpha[p] \in {"clear", "full"}
  BY <1>1, <1>2, PixelIs DEF Opacities
<1>4. \/ PixelOf(animation[n + 1], n + 1, p) = Clear
      \/ IsOpaque(PixelOf(animation[n + 1], n + 1, p))
  BY <1>1, <1>2, <1>3, PixelIs
<1> QED BY <1>4 DEF Blended

\* Frame n drawn over the canvas of the one before, or over its own.
LEMMA RenderedIsCanvas ==
    ASSUME FileTyping, ~ Translucent, NEW n \in Frames, NEW c,
           n = 0 \/ c \in {Canvases(animation)[n], Canvases(animation)[n + 1]}
    PROVE  RenderFrame(n, c, FALSE) = Canvases(animation)[n + 1]
<1> DEFINE f == animation[n + 1]
           cleared == DisposeArea(n)
           ground == [p \in Positions |-> IF p \in cleared THEN Clear ELSE c[p]]
           over == IF n + 1 = 1 THEN Blank ELSE Disposed(animation[n], Canvases(animation)[n])
           own == Canvases(animation)[n + 1]
           px(p) == PixelOf(f, n + 1, p)
<1>1. n \in Nat /\ n + 1 \in 1 .. FrameCount /\ (n # 0 => n \in 1 .. FrameCount)
  BY FrameCountAssumption DEF Frames
<1>2. animation \in Animations /\ f \in Frame
  BY <1>1, FrameIs DEF FileTyping
<1>3. own = Drawn(f, n + 1, over)
  <2>1. own = CanvasFrom(animation, Canvases(animation), n + 1)
    BY <1>1, CanvasesAre
  <2>2. (n + 1) - 1 = n
    BY <1>1
  <2> QED BY <2>1, <2>2 DEF CanvasFrom
<1>4. \A p \in Positions : Blended(px(p), ground[p]) = Over(px(p), ground[p])
  BY BlendedIsOver
<1>5. RenderFrame(n, c, FALSE) = Drawn(f, n + 1, ground)
  <2>1. RenderFrame(n, c, FALSE) = [p \in Positions |->
            IF p \notin Covered(f) THEN ground[p]
            ELSE IF f.blend THEN Blended(px(p), ground[p]) ELSE px(p)]
    BY DEF RenderFrame
  <2> HIDE DEF ground
  <2> QED BY <2>1, <1>4 DEF Drawn
<1>6. over \in [Positions -> Pixels]
  <2>1. Clear \in Pixels
    BY DEF Clear, Pixels
  <2>2. n # 0 => Canvases(animation)[n] \in [Positions -> Pixels]
    BY <1>1, <1>2, CanvasesType
  <2> QED BY <1>1, <2>1, <2>2 DEF Blank, Disposed, Erased
<1>7. CASE n = 0
  <2>1. ground = over
    BY <1>7 DEF DisposeArea, Blank
  <2> QED BY <1>3, <1>5, <2>1
<1>8. CASE n # 0 /\ c = Canvases(animation)[n]
  <2>1. c \in [Positions -> Pixels]
    BY <1>1, <1>2, <1>8, CanvasesType
  <2>2. ground = over
    BY <1>1, <1>8, <2>1 DEF DisposeArea, Disposed, Erased
  <2> QED BY <1>3, <1>5, <2>2
<1>9. CASE n # 0 /\ c = own
  <2>1. \A p \in Positions : p \in cleared => over[p] = Clear
    BY <1>1, <1>9 DEF DisposeArea, Disposed, Erased
  <2>2. \A p \in Positions : ground[p] = IF p \in cleared THEN Clear ELSE own[p]
    BY <1>9
  <2> HIDE DEF f, cleared, ground, over, own
  <2>3. \A p \in Positions :
            own[p] = IF p \notin Covered(f) THEN over[p]
                     ELSE IF f.blend THEN Over(px(p), over[p]) ELSE px(p)
    BY <1>3 DEF Drawn
  <2>4. ASSUME NEW p \in Positions, p \in Covered(f), f.blend
        PROVE  Over(px(p), ground[p]) = Over(px(p), over[p])
    <3>1. CASE IsOpaque(px(p))
      BY <3>1 DEF Over
    <3>2. CASE ~ IsOpaque(px(p))
      <4>1. px(p) = Clear
        <5>1. f.alpha[p] # "part"
          BY <1>1 DEF Translucent, f
        <5> QED BY <1>1, <1>2, <3>2, <5>1, PixelIs DEF Opacities
      <4>2. over[p] \in Seq(Layers)
        BY <1>6 DEF Pixels
      <4>3. Over(px(p), over[p]) = over[p]
        BY <3>2, <4>1, <4>2, ConcatEmptySeq DEF Over, Clear
      <4>4. own[p] = over[p]
        BY <2>3, <2>4, <4>3
      <4>5. ground[p] = over[p]
        BY <2>1, <2>2, <4>4
      <4> QED BY <4>5
    <3> QED BY <3>1, <3>2
  <2>5. \A p \in Positions : p \notin Covered(f) => ground[p] = over[p]
    BY <2>1, <2>2, <2>3
  <2>6. Drawn(f, n + 1, ground) = Drawn(f, n + 1, over)
    BY <2>4, <2>5 DEF Drawn
  <2> QED BY <1>3, <1>5, <2>6 DEF own
<1> QED BY <1>7, <1>8, <1>9

\* Drawn from scratch, it does not matter what there was.
LEMMA RenderedAnew ==
    ASSUME NEW n, NEW c, NEW b
    PROVE  RenderFrame(n, c, TRUE) = RenderFrame(n, b, TRUE)
<1> DEFINE ground(g) == [p \in Positions |-> IF p \in Positions THEN Clear ELSE g[p]]
<1>1. ground(c) = ground(b)
  OBVIOUS
<1> QED BY <1>1 DEF RenderFrame

\* A key frame hides all there was.
LEMMA KeyFrameIsCanvas ==
    ASSUME FileTyping, NEW n \in Frames, NEW c, IsKeyFrame(animation[n + 1])
    PROVE  RenderFrame(n, c, TRUE) = Canvases(animation)[n + 1]
<1> DEFINE f == animation[n + 1]
           px(p) == PixelOf(f, n + 1, p)
           ground == [p \in Positions |-> IF p \in Positions THEN Clear ELSE c[p]]
<1>1. n \in Nat /\ n + 1 \in 1 .. FrameCount /\ n + 1 \in Nat
  BY FrameCountAssumption DEF Frames
<1>2. f \in Frame
  BY <1>1, FrameIs DEF FileTyping
<1>3. \A p \in Positions : p \in Covered(f)
  <2>1. f.x_offset = 0 /\ f.y_offset = 0 /\ f.width = CanvasWidth /\ f.height = CanvasHeight
    BY DEF IsKeyFrame, HasOffsets
  <2>2. \A p \in Positions : p[1] \in 0 .. CanvasWidth - 1 /\ p[2] \in 0 .. CanvasHeight - 1
    BY DEF Positions
  <2> HIDE DEF f
  <2> QED BY <2>1, <2>2, CanvasAssumption DEF Covered
<1>4. f.blend => \A p \in Positions : IsOpaque(px(p))
  <2>1. f.blend => ~ f.has_alpha
    BY DEF IsKeyFrame
  <2>2. ~ f.has_alpha => \A p \in Positions : f.alpha[p] = "full"
    BY <1>2 DEF Frame
  <2> QED BY <1>1, <1>2, <2>1, <2>2, PixelIs
<1>5. RenderFrame(n, c, TRUE) = [p \in Positions |-> px(p)]
  <2>1. RenderFrame(n, c, TRUE) = [p \in Positions |->
            IF p \notin Covered(f) THEN ground[p]
            ELSE IF f.blend THEN Blended(px(p), ground[p]) ELSE px(p)]
    BY DEF RenderFrame
  <2> HIDE DEF f, ground
  <2> QED BY <1>3, <1>4, <2>1 DEF Blended, Over
<1>6. Canvases(animation)[n + 1] = [p \in Positions |-> px(p)]
  <2> DEFINE over == IF n + 1 = 1 THEN Blank
                     ELSE Disposed(animation[(n + 1) - 1], Canvases(animation)[(n + 1) - 1])
  <2>1. Canvases(animation)[n + 1] = Drawn(f, n + 1, over)
    BY <1>1, CanvasesAre DEF CanvasFrom
  <2> HIDE DEF f, over
  <2> QED BY <1>3, <1>4, <2>1 DEF Drawn, Over
<1> QED BY <1>5, <1>6

--------------------------------------------------------------------------------
(* The pictures, step by step *)

LEMMA FileKept ==
    ASSUME UNCHANGED file
    PROVE  /\ sequence' = sequence /\ corrupt' = corrupt /\ animation' = animation
           /\ \A n : Expected(n)' = Expected(n)
           /\ Translucent' = Translucent
<1>1. sequence' = sequence /\ corrupt' = corrupt /\ animation' = animation
  BY DEF file
<1>2. ASSUME NEW n PROVE RenderFrame(n, Blank, TRUE)' = RenderFrame(n, Blank, TRUE)
  BY <1>1 DEF RenderFrame, DisposeArea
<1> QED BY <1>1, <1>2 DEF Expected, Translucent

\* What only the decoder's own steps disturb.
LEMMA PicturesKept ==
    ASSUME IInv, FileTyping, ShowsContent, GroundReady,
           UNCHANGED <<file, picture, content, decoder, mBackBitmap>>,
           mNextFrameToDecode' \in {-1, 0, mNextFrameToDecode}
    PROVE  ShowsContent' /\ GroundReady'
<1>1. ShowsContent'
  BY FileKept DEF ShowsContent
<1>2. \A n : Fits(n) => Fits(n)'
  BY FileKept DEF Fits
<1>3. Fits(0)'
  BY DEF Fits
<1>4. GroundReady'
  BY <1>2, <1>3, FileKept DEF GroundReady
<1> QED BY <1>1, <1>4

LEMMA UIPictures ==
    ASSUME IInv, FileTyping, ShowsContent, GroundReady, UNCHANGED <<file, picture>>,
           UIFree, ~ mDestroyed', Start \/ Stop \/ RequestInvalidate \/ DrawOnly \/ Destroy
    PROVE  ShowsContent' /\ GroundReady'
<1>1. UNCHANGED <<content, decoder, mBackBitmap>>
  BY DEF Start, Stop, RequestInvalidate, DrawOnly, Destroy
<1>2. mNextFrameToDecode' \in {-1, 0, mNextFrameToDecode}
  <2>1. CASE Start
    <3>1. mNextFrameToDecode = -1
      BY <2>1, Constants DEF Start, IsRunning, IInv, TypeOK
    <3>2. FrameAfter(-1) = 0
      BY FrameCountAssumption DEF FrameAfter
    <3> QED BY <2>1, <3>1, <3>2 DEF Start, ScheduleDecode
  <2> QED BY <2>1 DEF Stop, RequestInvalidate, DrawOnly, Destroy
<1> QED BY <1>1, <1>2, PicturesKept

\* The swap copies the picture with the frame; the next frame finds it in both.
LEMMA SwapPictures ==
    ASSUME IInv, FileTyping, ShowsContent, GroundReady, PDrawSwapping
    PROVE  ShowsContent' /\ GroundReady'
<1>1. /\ content' = [content EXCEPT ![mFrontBitmap] = content[mBackBitmap]]
      /\ picture' = [picture EXCEPT ![mFrontBitmap] = picture[mBackBitmap]]
      /\ UNCHANGED <<mFrontBitmap, mBackBitmap, decoder, file>>
      /\ mNextFrameToDecode' = FrameAfter(mNextFrameToDecode)
  BY DEF PDrawSwapping, DrawSwapping, ScheduleDecode, FileTyping
<1>2. /\ mFrontBitmap \in Bitmaps /\ mBackBitmap \in Bitmaps /\ mFrontBitmap # mBackBitmap
      /\ content[mBackBitmap] = mNextFrameToDecode /\ mNextFrameToDecode \in Frames
  BY DEF IInv, PDrawSwapping, DrawSwapping, MaySwap, IsRunning, OwnsBitmaps, OfferedFrameComplete,
         TypeOK
<1>3. \A d \in Decoders : decoder[d].pc # "drawing"
  BY DEF IInv, PDrawSwapping, DrawSwapping, MaySwap, NotOffered, At
<1>4. /\ content'[mFrontBitmap] = content[mBackBitmap]
      /\ picture'[mFrontBitmap] = picture[mBackBitmap]
      /\ content'[mBackBitmap] = content[mBackBitmap]
      /\ picture'[mBackBitmap] = picture[mBackBitmap]
  BY <1>1, <1>2 DEF IInv, TypeOK, FileTyping
<1>5. Bitmaps = {mFrontBitmap, mBackBitmap}
  BY <1>2 DEF Bitmaps
<1>6. ShowsContent'
  BY <1>1, <1>4, <1>5, FileKept DEF ShowsContent
<1>7. sequence = "new" => Fits(mNextFrameToDecode)'
  <2>1. picture[mBackBitmap] = Expected(mNextFrameToDecode)
    BY <1>2, Constants DEF ShowsContent
  <2>2. mNextFrameToDecode' = 0 \/ mNextFrameToDecode' = mNextFrameToDecode + 1
    BY <1>1, <1>2, FrameCountAssumption DEF FrameAfter, Frames
  <2> QED BY <1>1, <1>4, <2>1, <2>2, FileKept DEF Fits, Expected
<1>8. GroundReady'
  BY <1>1, <1>3, <1>7, FileKept DEF GroundReady
<1> QED BY <1>6, <1>8

LEMMA DrawPictures ==
    ASSUME IInv, FileTyping, ShowsContent, GroundReady, Sound,
           NEW d \in Decoders, PDecodeDraw(d)
    PROVE  ShowsContent' /\ GroundReady'
<1> DEFINE b == decoder[d].bitmap
           n == decoder[d].frame
<1>1. PICK f \in Reachable(n) :
          /\ content' = [content EXCEPT ![b] = f]
          /\ decoder' = [decoder EXCEPT ![d] = [pc |-> "drawn", frame |-> f]]
  BY DEF PDecodeDraw, DecodeDraw
<1>2. decoder[d].pc = "drawing" /\ n \in Frames /\ b \in Bitmaps /\ b = mBackBitmap
  BY DecoderFacts DEF IInv, PDecodeDraw, DecodeDraw, At, DrawsBack, Sound
<1>3. f \in Frames /\ decoder'[d] = [pc |-> "drawn", frame |-> f]
  BY <1>1, <1>2, Constants DEF Reachable, IInv, TypeOK
<1>4. /\ f \notin corrupt
      /\ \E desired \in Reachable(n) : f = NextFrame(n, desired)
      /\ picture' = [picture EXCEPT ![b] = DrawFrame(f, picture[b])]
      /\ UNCHANGED <<file, mBackBitmap, mNextFrameToDecode>>
  <2>1. decoder'[d].frame = f
    BY <1>3
  <2> QED BY <2>1 DEF PDecodeDraw, DecodeDraw
<1>5. DrawFrame(f, picture[b]) = Expected(f)
  <2>1. CASE sequence = "new"
    <3>1. f = n
      BY <1>4, <2>1 DEF NextFrame
    <3>2. f = 0 \/ picture[b] \in {Canvases(animation)[f], Canvases(animation)[f + 1]}
      BY <1>2, <1>4, <2>1, <3>1 DEF GroundReady, Fits
    <3>3. RenderFrame(f, picture[b], FALSE) = Canvases(animation)[f + 1]
      BY <1>3, <2>1, <3>2, RenderedIsCanvas DEF Sound
    <3> QED BY <2>1, <3>3 DEF DrawFrame, Expected
  <2>2. CASE sequence = "old"
    <3>1. RenderFrame(f, picture[b], TRUE) = RenderFrame(f, Blank, TRUE)
      BY RenderedAnew
    <3> QED BY <2>2, <3>1 DEF DrawFrame, Expected
  <2> QED BY <2>1, <2>2 DEF FileTyping
<1>6. /\ content'[b] = f /\ picture'[b] = Expected(f)
      /\ \A x \in Bitmaps \ {b} : content'[x] = content[x] /\ picture'[x] = picture[x]
  BY <1>1, <1>2, <1>4, <1>5 DEF IInv, TypeOK, FileTyping
<1>7. ShowsContent'
  <2> SUFFICES ASSUME NEW x \in Bitmaps, content'[x] # Torn
               PROVE  picture'[x] = Expected(content'[x])
    BY <1>4, FileKept DEF ShowsContent
  <2> QED BY <1>6 DEF ShowsContent
<1>8. \A e \in Decoders : decoder'[e].pc # "drawing"
  <2>1. \A e \in Decoders \ {d} : decoder'[e] = decoder[e]
    BY <1>1 DEF IInv, TypeOK
  <2>2. \A e \in Decoders \ {d} : decoder[e].pc # "drawing"
    BY <1>2 DEF IInv, OneTask, Busy, At
  <2> QED BY <1>3, <2>1, <2>2
<1>9. sequence = "new" /\ mNextFrameToDecode >= 0 => Fits(mNextFrameToDecode)'
  <2> SUFFICES ASSUME sequence = "new", mNextFrameToDecode >= 0
               PROVE  Fits(mNextFrameToDecode)'
    OBVIOUS
  <2>1. f = n /\ mNextFrameToDecode \in {0, n}
    BY <1>2, <1>4 DEF NextFrame, GroundReady
  <2>2. picture'[mBackBitmap] = Canvases(animation)[n + 1]
    BY <1>2, <1>6, <2>1 DEF Expected
  <2> QED BY <1>4, <2>1, <2>2, FileKept DEF Fits
<1>10. GroundReady'
  BY <1>4, <1>8, <1>9, FileKept DEF GroundReady
<1> QED BY <1>7, <1>10

LEMMA FailPictures ==
    ASSUME IInv, FileTyping, ShowsContent, GroundReady, Sound,
           NEW d \in Decoders, PDecodeFails(d)
    PROVE  ShowsContent' /\ GroundReady'
<1> DEFINE n == decoder[d].frame
<1>1. /\ decoder[d].pc = "drawing" /\ decoder[d].bitmap = mBackBitmap
      /\ content[mBackBitmap] = Torn
  BY DEF IInv, PDecodeFails, DecodeFails, At, DrawsBack, Sound, GroundReady
<1>2. /\ decoder' = [decoder EXCEPT ![d] = Idle]
      /\ picture' = [picture EXCEPT ![mBackBitmap] = Broken]
      /\ UNCHANGED <<content, file, mBackBitmap, mNextFrameToDecode>>
  BY <1>1 DEF PDecodeFails, DecodeFails
<1>3. sequence = "new" => n \in corrupt
  BY DEF PDecodeFails, Sound, NextFrame
<1>4. ShowsContent'
  <2>1. \A x \in Bitmaps \ {mBackBitmap} : picture'[x] = picture[x]
    BY <1>2 DEF FileTyping
  <2> QED BY <1>1, <1>2, <2>1, FileKept DEF ShowsContent
<1>5. \A e \in Decoders : decoder'[e].pc # "drawing"
  <2>1. \A e \in Decoders \ {d} : decoder'[e] = decoder[e] /\ decoder[e].pc # "drawing"
    BY <1>1, <1>2 DEF IInv, TypeOK, OneTask, Busy, At
  <2>2. decoder'[d].pc # "drawing"
    BY <1>2 DEF IInv, TypeOK, Idle
  <2> QED BY <2>1, <2>2
<1>6. sequence = "new" /\ mNextFrameToDecode >= 0 => Fits(mNextFrameToDecode)'
  <2>1. mNextFrameToDecode >= 0 => mNextFrameToDecode \in {0, n}
    BY <1>1 DEF GroundReady
  <2> QED BY <1>2, <1>3, <2>1, FileKept DEF Fits
<1>7. GroundReady'
  BY <1>2, <1>5, <1>6, FileKept DEF GroundReady
<1> QED BY <1>4, <1>7

LEMMA BeginPictures ==
    ASSUME IInv, FileTyping, ShowsContent, GroundReady, UNCHANGED <<file, picture>>, Sound,
           NEW d \in Decoders, DecodeBegin(d)
    PROVE  ShowsContent' /\ GroundReady'
<1>1. UNCHANGED <<mBackBitmap, mNextFrameToDecode>>
  BY DEF DecodeBegin
<1>2. CASE UNCHANGED <<decoder, content>>
  BY <1>1, <1>2, PicturesKept
<1>3. CASE ~ UNCHANGED <<decoder, content>>
  <2>1. /\ mNextFrameToDecode >= 0
        /\ decoder' = [decoder EXCEPT ![d] =
              [pc |-> "drawing", frame |-> mNextFrameToDecode, bitmap |-> mBackBitmap]]
        /\ content' = [content EXCEPT ![mBackBitmap] = Torn]
        /\ \A e \in Decoders : decoder[e] = Idle
    BY <1>3 DEF DecodeBegin, Turn
  <2>2. mBackBitmap \in Bitmaps
    BY DEF IInv, OwnsBitmaps, Sound
  <2>3. /\ content'[mBackBitmap] = Torn
        /\ \A x \in Bitmaps \ {mBackBitmap} : content'[x] = content[x]
    BY <2>1, <2>2 DEF IInv, TypeOK
  <2>4. ShowsContent'
    BY <2>3, FileKept DEF ShowsContent
  <2>5. \A n : Fits(n) => Fits(n)'
    BY <1>1, FileKept DEF Fits
  <2>6. \A e \in Decoders :
            decoder'[e].pc = "drawing" => decoder'[e].frame = mNextFrameToDecode
    BY <2>1 DEF IInv, TypeOK, Idle
  <2>7. GroundReady'
    BY <1>1, <2>1, <2>3, <2>5, <2>6, FileKept DEF GroundReady
  <2> QED BY <2>4, <2>7
<1> QED BY <1>2, <1>3

\* A task that has drawn, whatever it still does.
LEMMA EndPictures ==
    ASSUME IInv, FileTyping, ShowsContent, GroundReady, UNCHANGED <<file, picture>>, Sound,
           NEW d \in Decoders, DecodeEnd(d) \/ DecodeInvalidate(d) \/ DecodeRelease(d)
    PROVE  ShowsContent' /\ GroundReady'
<1>1. UNCHANGED <<content, mBackBitmap>>
  BY DEF DecodeEnd, DecodeInvalidate, DecodeRelease, Sound
<1>2. ShowsContent'
  BY <1>1, FileKept DEF ShowsContent
<1>3. \A e \in Decoders : decoder'[e].pc # "drawing"
  <2>1. decoder[d].pc \in {"drawn", "invalidate", "release"}
    BY DEF DecodeEnd, DecodeInvalidate, DecodeRelease
  <2>2. \/ decoder' = [decoder EXCEPT ![d] = Idle]
        \/ decoder' = [decoder EXCEPT ![d] = [pc |-> "invalidate"]]
    BY DEF DecodeEnd, DecodeInvalidate, DecodeRelease, Sound
  <2>3. \A e \in Decoders \ {d} : decoder'[e] = decoder[e] /\ decoder[e].pc # "drawing"
    BY <2>1, <2>2 DEF IInv, TypeOK, OneTask, Busy, At
  <2>4. decoder'[d].pc # "drawing"
    BY <2>2 DEF IInv, TypeOK, Idle
  <2> QED BY <2>3, <2>4
<1>4. sequence = "new" /\ mNextFrameToDecode' >= 0 => Fits(mNextFrameToDecode)'
  <2>1. \A n : Fits(n) => Fits(n)'
    BY <1>1, FileKept DEF Fits
  <2>2. CASE UNCHANGED mNextFrameToDecode
    BY <2>1, <2>2 DEF GroundReady
  <2>3. CASE ~ UNCHANGED mNextFrameToDecode
    <3>1. DecodeEnd(d) /\ mNextFrameToDecode' = decoder[d].frame /\ decoder[d].pc = "drawn"
      BY <2>3 DEF DecodeEnd, DecodeInvalidate, DecodeRelease, Sound
    <3>2. content[mBackBitmap] = decoder[d].frame /\ decoder[d].frame \in Frames
      BY <3>1, DecoderFacts DEF IInv, DrawsBack, At, Sound
    <3>3. mBackBitmap \in Bitmaps
      BY DEF IInv, OwnsBitmaps, Sound
    <3>4. sequence = "new" => picture[mBackBitmap] = Canvases(animation)[decoder[d].frame + 1]
      BY <3>2, <3>3, Constants DEF ShowsContent, Expected
    <3> QED BY <1>1, <3>1, <3>4, FileKept DEF Fits
  <2> QED BY <2>2, <2>3
<1>5. GroundReady'
  BY <1>3, <1>4, FileKept DEF GroundReady
<1> QED BY <1>2, <1>5

LEMMA PicturesInitially == PInit => PicturesInv
<1> SUFFICES ASSUME PInit PROVE PicturesInv
  OBVIOUS
<1>1. FileTyping
  BY DEF PInit, FileTyping
<1>2. ASSUME Sound PROVE ShowsContent
  <2>1. picture[Front] = DrawFrame(0, Blank) /\ content[Front] = 0 /\ content[Back] = Torn
    BY Constants DEF PInit, Init, Bitmaps
  <2>2. sequence = "new" => RenderFrame(0, Blank, FALSE) = Canvases(animation)[0 + 1]
    BY <1>1, <1>2, Constants, RenderedIsCanvas DEF Sound
  <2>3. picture[Front] = Expected(0)
    BY <2>1, <2>2 DEF DrawFrame, Expected, PInit
  <2> QED BY <2>1, <2>3 DEF ShowsContent, Bitmaps
<1>3. GroundReady
  BY DEF PInit, Init, GroundReady, Idle
<1> QED BY <1>1, <1>2, <1>3 DEF PicturesInv, Sound

LEMMA PlaybackSteps == [PNext]_playback => [Next]_vars
  BY DEF PNext, Next, UI, PDrawSwapping, PDecode, PDecodeDraw, PDecodeFails, Decode, playback

LEMMA PicturesStep == IInv /\ PicturesInv /\ [PNext]_playback => PicturesInv'
<1> SUFFICES ASSUME IInv, PicturesInv, [PNext]_playback PROVE PicturesInv'
  OBVIOUS
<1>1. UNCHANGED file
  BY DEF PNext, PDrawSwapping, PDecode, PDecodeDraw, PDecodeFails, playback
<1>2. mayHaveBlending' = mayHaveBlending
  BY PlaybackSteps
     DEF Next, UI, Start, ScheduleDecode, Stop, RequestInvalidate, DrawSwapping, DrawOnly,
         Destroy, ReleaseTaken,
            Decode, DecodeBegin, DecodeDraw, DecodeFails, DecodeEnd,
         DecodeInvalidate, DecodeRelease, vars
<1>3. DOMAIN picture' = DOMAIN picture
  BY DEF PNext, PDrawSwapping, PDecode, PDecodeDraw, PDecodeFails, playback
<1>4. FileTyping'
  BY <1>1, <1>2, <1>3, FileKept DEF PicturesInv, FileTyping
<1>5. ASSUME Sound' PROVE ShowsContent' /\ GroundReady'
  <2>1. ~ mDestroyed
    BY <1>5, PlaybackSteps
       DEF Sound, Next, UI, Start, ScheduleDecode, Stop, RequestInvalidate, DrawSwapping, DrawOnly, Destroy, ReleaseTaken,
            Decode, DecodeBegin, DecodeDraw,
       DecodeFails, DecodeEnd, DecodeInvalidate, DecodeRelease, vars
  <2>2. Sound
    BY <1>1, <1>5, <2>1, FileKept DEF Sound
  <2>3. FileTyping /\ ShowsContent /\ GroundReady
    BY <2>2 DEF PicturesInv, Sound
  <2>4. CASE UIFree /\ PDrawSwapping
    BY <2>3, <2>4, SwapPictures
  <2>5. CASE /\ UIFree /\ (Start \/ Stop \/ RequestInvalidate \/ DrawOnly \/ Destroy)
             /\ UNCHANGED <<file, picture>>
    BY <1>5, <2>3, <2>5, UIPictures DEF Sound
  <2>6. CASE ReleaseTaken /\ UNCHANGED <<file, picture>>
    BY <2>3, <2>6, PicturesKept DEF ReleaseTaken
  <2>7. ASSUME NEW d \in Decoders, PDecode(d) PROVE ShowsContent' /\ GroundReady'
    BY <2>2, <2>3, <2>7, DrawPictures, FailPictures, BeginPictures, EndPictures DEF PDecode
  <2>8. CASE UNCHANGED playback
    BY <2>3, <2>8, PicturesKept DEF playback, vars
  <2> QED BY <2>4, <2>5, <2>6, <2>7, <2>8 DEF PNext
<1> QED BY <1>4, <1>5 DEF PicturesInv, Sound

LEMMA PicturesInvariant == PSpec => [](IInv /\ PicturesInv)
<1>1. PInit => IInv /\ PicturesInv
  BY Initially, PicturesInitially DEF PInit
<1>2. IInv /\ PicturesInv /\ [PNext]_playback => IInv' /\ PicturesInv'
  BY Step, PlaybackSteps, PicturesStep
<1> QED BY <1>1, <1>2, PTL DEF PSpec

--------------------------------------------------------------------------------

LEMMA FrontPicture ==
    ASSUME IInv, PicturesInv, mFrontBitmap # NoBitmap, sequence = "new" => ~ Translucent
    PROVE  /\ content[mFrontBitmap] \in Frames
           /\ picture[mFrontBitmap] = Expected(content[mFrontBitmap])
<1>1. ~ mDestroyed
  BY DEF IInv, FrontTaken
<1>2. mFrontBitmap \in Bitmaps /\ content[mFrontBitmap] \in Frames
  BY <1>1 DEF IInv, OwnsBitmaps, NoTornFrame, TypeOK
<1>3. Torn \notin Frames
  BY Constants
<1> QED BY <1>1, <1>2, <1>3 DEF PicturesInv, Sound, ShowsContent

\* Of an animation without translucent pixels, a WebPNewFrameSequence shows each
\* frame as the format defines its canvas, although the renderer draws over
\* whatever the back bitmap was left with, and repeats and fails.
THEOREM NewIsCanvas == PSpec => []NewShowsCanvas
<1>1. IInv /\ PicturesInv => NewShowsCanvas
  BY FrontPicture, CanvasAtIs DEF NewShowsCanvas, Expected
<1> QED BY <1>1, PicturesInvariant, PTL

\* A WebPOldFrameSequence, which drops frames, shows the canvas of a key frame
\* without having drawn the ones before.
THEOREM OldKeyIsCanvas == PSpec => []OldShowsKeyFrames
<1>1. IInv /\ PicturesInv => OldShowsKeyFrames
  BY FrontPicture, CanvasAtIs, KeyFrameIsCanvas DEF OldShowsKeyFrames, Expected, PicturesInv
<1> QED BY <1>1, PicturesInvariant, PTL
================================================================================
