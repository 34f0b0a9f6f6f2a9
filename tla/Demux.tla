--------------------------------- MODULE Demux ---------------------------------
(***************************************************************************)
(* demux.c: what WebPDemux and WebPDemuxPartial make of the bytes of a     *)
(* WebP file, the whole of it or those that have arrived.                  *)
(*                                                                         *)
(* A file is a RIFF header and a sequence of chunks.  Sizes and offsets    *)
(* are bytes, as in the code; of the bytes of a chunk the model has what   *)
(* its header says and, for a bitstream, what its frame header says.  The  *)
(* chunks of a frame follow the ANMF header they belong to: the parser     *)
(* takes them as they come, whatever size ANMF claims for itself.          *)
(* An ANMF that claims less than the header of another chunk lets the code *)
(* read one that is not there; what it then makes of the file is left open.*)
(* Left out: the limits on 32-bit sizes and areas, allocation failures.    *)
(***************************************************************************)
EXTENDS Integers, Sequences

CONSTANT FilesToParse       \* the files considered

RIFF_HEADER_SIZE == 12
CHUNK_HEADER_SIZE == 8
ANMF_CHUNK_SIZE == 16
ANIM_CHUNK_SIZE == 6
VP8X_CHUNK_SIZE == 10
VP8_FRAME_HEADER_SIZE == 10
VP8L_FRAME_HEADER_SIZE == 5

\* What the code reads of a chunk is unsigned, and the flags are bits.  What lacks
\* the RIFF header is a bitstream, broken or not.
ASSUME FilesAssumption ==
    \A f \in FilesToParse :
        /\ f.raw \in BOOLEAN
        /\ f.riff \in Nat
        /\ Len(f.chunks) \in Nat \ {0}
        /\ f.raw => f.chunks[1].id \in {"VP8", "VP8L"}
        /\ \A i \in 1 .. Len(f.chunks) :
              LET chunk == f.chunks[i] IN
              /\ chunk.id \in STRING
              /\ chunk.size \in Nat
              /\ chunk.id \in {"VP8", "VP8L", "VP8X", "ANMF"} =>
                    chunk.width \in Nat /\ chunk.height \in Nat
              /\ chunk.id \in {"VP8L", "VP8X"} => chunk.alpha \in BOOLEAN
              /\ chunk.id = "VP8X" => chunk.animation \in BOOLEAN
              /\ chunk.id = "ANMF" => chunk.x \in Nat /\ chunk.y \in Nat

VARIABLES
    file,           \* [raw, riff, chunks]: whether it lacks the RIFF header, the
                    \* size that header claims, and the chunks
    received,       \* how many of its bytes have arrived
    demuxed         \* what WebPDemuxPartial made of them

demuxVars == <<file, received, demuxed>>

NoSize == [offset |-> 0, size |-> 0]

--------------------------------------------------------------------------------
(* The bytes: MemBuffer *)

Padded(size) == size + (size % 2)
LeastOf(a, b) == IF a < b THEN a ELSE b

\* Where chunk k begins.  An ANMF header is followed by its parameters only.
LengthOf(chunk) ==
    CHUNK_HEADER_SIZE
      + (IF chunk.id = "ANMF" THEN ANMF_CHUNK_SIZE ELSE Padded(chunk.size))
StartOf(k) ==
    LET start[i \in 1 .. Len(file.chunks) + 1] ==
            IF i = 1 THEN (IF file.raw THEN 0 ELSE RIFF_HEADER_SIZE)
            ELSE start[i - 1] + LengthOf(file.chunks[i - 1])
    IN  start[k]
FileSize == StartOf(Len(file.chunks) + 1)

\* The RIFF chunk may end before the bytes do, or after.
RiffEnd == file.riff + CHUNK_HEADER_SIZE
End(n) == IF file.raw THEN n ELSE LeastOf(n, RiffEnd)
Available(n, at) == End(n) - at
SizeIsInvalid(at, size) == size > RiffEnd - at

\* What is left to do after the chunk that ends at a position.
AfterChunk(n, at, status) ==
    IF at = RiffEnd THEN status
    ELSE IF Available(n, at) < CHUNK_HEADER_SIZE THEN "more" ELSE status

--------------------------------------------------------------------------------
(* Frames *)

\* WebPGetFeatures, of a chunk with a bitstream of which size bytes are there.
Features(chunk, size) ==
    IF size < (IF chunk.id = "VP8L" THEN VP8L_FRAME_HEADER_SIZE ELSE VP8_FRAME_HEADER_SIZE)
    THEN "not enough"
    ELSE IF chunk.broken THEN "error" ELSE "ok"

EmptyFrame ==
    [x |-> 0, y |-> 0, width |-> 0, height |-> 0, has_alpha |-> FALSE,
     frame_num |-> 0, complete |-> FALSE, image |-> NoSize, alpha |-> NoSize]

\* The frame is complete when all of its image is there (the mutant: when its
\* features are).
CompleteWithFeatures(whole) == TRUE
CompleteWhen(whole) == whole

\* SetFrameInfo: the bitstream's dimensions replace those of ANMF.
SetFrameInfo(f, num, chunk, offset, size, whole) ==
    [f EXCEPT !.image = [offset |-> offset, size |-> size],
              !.width = chunk.width, !.height = chunk.height,
              !.has_alpha = @ \/ (chunk.id = "VP8L" /\ chunk.alpha),
              !.frame_num = num, !.complete = CompleteWhen(whole)]

\* One pass of StoreFrame's loop, over chunk s.next: the status, the frame, the
\* chunk that follows (of no account unless the status is ok), and whether the
\* loop is over.
StoreFrameChunk(n, num, s) ==
    LET k == s.next
        f == s.frame
        chunk == file.chunks[k]
        begin == StartOf(k) + CHUNK_HEADER_SIZE
        padded == Padded(chunk.size)
        got == LeastOf(padded, Available(n, begin))
        whole == got = padded
        size == CHUNK_HEADER_SIZE + got
        features == Features(chunk, got)
        Stop(status) == [s EXCEPT !.status = status, !.over = TRUE]
        Continue(g) ==
            LET status == AfterChunk(n, begin + got, IF whole THEN "ok" ELSE "more")
            IN  [status |-> status, frame |-> g, next |-> k + 1,
                 over |-> status # "ok" \/ begin + got = RiffEnd]
    IN  IF s.over THEN s
        ELSE IF SizeIsInvalid(begin, padded) THEN Stop("error")
        ELSE IF chunk.id = "ALPH" /\ f.alpha = NoSize
        THEN Continue([f EXCEPT !.alpha = [offset |-> StartOf(k), size |-> size],
                                !.has_alpha = TRUE, !.frame_num = num])
        ELSE IF chunk.id = "VP8L" /\ f.alpha # NoSize THEN Stop("error")
        ELSE IF chunk.id \in {"VP8", "VP8L"} /\ f.image = NoSize
        THEN IF features = "ok"
             THEN Continue(SetFrameInfo(f, num, chunk, StartOf(k), size, whole))
             ELSE Stop(IF features = "not enough" /\ ~ whole THEN "more" ELSE "error")
        ELSE Stop(IF whole THEN "ok" ELSE "more")

\* The chunks of one frame, from chunk k on.  A pass that does not end the loop
\* moves to the next chunk, so there are no more passes than chunks.
StoreFrame(n, num, k, f) ==
    LET loop[i \in 0 .. Len(file.chunks)] ==
            IF i = 0 THEN [status |-> "ok", frame |-> f, next |-> k, over |-> FALSE]
            ELSE StoreFrameChunk(n, num, loop[i - 1])
    IN  loop[Len(file.chunks)]

--------------------------------------------------------------------------------
(* The demuxer: state, and what is known of the image.  AddFrame asks for the  *)
(* last frame to be complete, but looks where the next one goes, and always    *)
(* accepts.  Whether a chunk was broken, or a chunk's header read that was not *)
(* there, the code does not record.                                            *)

InitDemux ==
    [state |-> "parsing header", extended |-> FALSE, animation |-> FALSE,
     alpha |-> FALSE, width |-> -1, height |-> -1, num_frames |-> 0,
     frames |-> << >>, chunks |-> << >>, broken |-> FALSE, overread |-> FALSE]

Outcome(status, d, next) == [status |-> status, dmux |-> d, next |-> next]

\* An image outside of an animation: the first and only frame.
AddSingleImage(stored, d) ==
    LET frame == IF d.alpha THEN stored.frame
                 ELSE [stored.frame EXCEPT !.alpha = NoSize,
                          !.has_alpha = @ /\ stored.frame.alpha = NoSize]
        own == ~ d.extended /\ frame.width > 0 /\ frame.height > 0
        added == [d EXCEPT !.frames = << frame >>, !.num_frames = 1]
    IN  IF stored.status = "error" THEN Outcome("error", d, stored.next)
        ELSE IF own
        THEN Outcome(stored.status,
                     [added EXCEPT !.state = "parsed header", !.width = frame.width,
                         !.height = frame.height, !.alpha = @ \/ frame.has_alpha],
                     stored.next)
        ELSE Outcome(stored.status, added, stored.next)

ParseSingleImage(n, k, d) ==
    IF SizeIsInvalid(StartOf(k), CHUNK_HEADER_SIZE) THEN Outcome("error", d, k)
    ELSE IF Available(n, StartOf(k)) < CHUNK_HEADER_SIZE THEN Outcome("more", d, k)
    ELSE AddSingleImage(StoreFrame(n, 1, k, EmptyFrame), d)

\* An ANMF and the chunks that follow: the frame is stored once all that ANMF
\* claims has arrived, and kept if the file is an animation.  StoreFrame reads the
\* header of a chunk whether or not ANMF claimed room for one (the status is then
\* of no account).
AddAnimationFrame(stored, d) ==
    IF stored.status = "error" THEN Outcome("error", d, stored.next)
    ELSE Outcome(stored.status,
                 IF d.animation /\ stored.frame.frame_num > 0
                 THEN [d EXCEPT !.frames = Append(@, stored.frame), !.num_frames = @ + 1]
                 ELSE d,
                 stored.next)

ParseAnimationFrame(n, k, d) ==
    LET chunk == file.chunks[k]
        begin == StartOf(k) + CHUNK_HEADER_SIZE
        payload == Padded(chunk.size) - ANMF_CHUNK_SIZE
        frame == [EmptyFrame EXCEPT !.x = chunk.x, !.y = chunk.y,
                                    !.width = chunk.width, !.height = chunk.height]
    IN  IF SizeIsInvalid(begin, ANMF_CHUNK_SIZE) \/ payload < 0 THEN Outcome("error", d, k)
        ELSE IF Available(n, begin) < ANMF_CHUNK_SIZE + payload THEN Outcome("more", d, k)
        ELSE IF Available(n, StartOf(k + 1)) < CHUNK_HEADER_SIZE
        THEN Outcome("more", [d EXCEPT !.overread = TRUE], k)
        ELSE AddAnimationFrame(StoreFrame(n, d.num_frames + 1, k + 1, frame), d)

\* Chunks that are kept for the user, or passed over: the metadata only when the
\* header announced it.
PassChunk(n, k, d, store) ==
    LET chunk == file.chunks[k] IN
    IF Padded(chunk.size) > Available(n, StartOf(k) + CHUNK_HEADER_SIZE)
    THEN Outcome("more", d, k)
    ELSE Outcome("ok", IF store THEN [d EXCEPT !.chunks = Append(@, chunk.id)] ELSE d, k + 1)

\* Chunks that end the parsing at once, after VP8X and anims ANIM chunks.
Refused(k, d, anims) ==
    LET chunk == file.chunks[k] IN
    \/ chunk.id = "VP8X"
    \/ SizeIsInvalid(StartOf(k) + CHUNK_HEADER_SIZE, Padded(chunk.size))
    \/ /\ chunk.id \in {"ALPH", "VP8", "VP8L"}
       /\ anims > 0 \/ d.animation \/ d.frames # << >>
    \/ chunk.id = "ANIM" /\ Padded(chunk.size) < ANIM_CHUNK_SIZE
    \/ chunk.id = "ANMF" /\ anims = 0

ParseChunk(n, k, d) ==
    LET chunk == file.chunks[k] IN
    IF chunk.id \in {"ALPH", "VP8", "VP8L"} THEN ParseSingleImage(n, k, d)
    ELSE IF chunk.id = "ANMF" THEN ParseAnimationFrame(n, k, d)
    ELSE PassChunk(n, k, d, chunk.id # "ANIM" /\ chunk.announced)

\* One pass of the loop over the chunks behind VP8X: the outcome so far, the ANIM
\* chunks seen, and whether the loop is over.  With less than a chunk's header
\* left, even an error only asks for more: the broken frame is dropped, and the
\* client is told to wait.
ParseNextChunk(n, s) ==
    LET one == ParseChunk(n, s.next, s.dmux)
        at == StartOf(one.next) + (IF one.status = "error" THEN CHUNK_HEADER_SIZE ELSE 0)
        status == IF one.status = "more" THEN "more" ELSE AfterChunk(n, at, one.status)
    IN  IF s.over THEN s
        ELSE IF Refused(s.next, s.dmux, s.anims) THEN [s EXCEPT !.status = "error", !.over = TRUE]
        ELSE [status |-> status, next |-> one.next,
              dmux |-> [one.dmux EXCEPT !.broken = one.status = "error"],
              anims |-> s.anims + (IF file.chunks[s.next].id = "ANIM" THEN 1 ELSE 0),
              over |-> status # "ok" \/ at = RiffEnd]

ParseVP8XChunks(n, k, d) ==
    LET loop[i \in 0 .. Len(file.chunks)] ==
            IF i = 0 THEN [status |-> "ok", dmux |-> d, next |-> k, anims |-> 0, over |-> FALSE]
            ELSE ParseNextChunk(n, loop[i - 1])
    IN  loop[Len(file.chunks)]

ParseVP8X(n, d) ==
    LET chunk == file.chunks[1]
        begin == RIFF_HEADER_SIZE + CHUNK_HEADER_SIZE
        read == [d EXCEPT !.extended = TRUE, !.state = "parsed header",
                          !.animation = chunk.animation, !.alpha = chunk.alpha,
                          !.width = chunk.width, !.height = chunk.height]
        next == StartOf(2)
    IN  IF Available(n, RIFF_HEADER_SIZE) < CHUNK_HEADER_SIZE THEN Outcome("more", d, 1)
        ELSE IF chunk.size < VP8X_CHUNK_SIZE \/ SizeIsInvalid(begin, Padded(chunk.size))
        THEN Outcome("error", d, 1)
        ELSE IF Available(n, begin) < Padded(chunk.size)
        THEN Outcome("more", [d EXCEPT !.extended = TRUE], 1)
        ELSE IF SizeIsInvalid(next, CHUNK_HEADER_SIZE) THEN Outcome("error", read, 2)
        ELSE IF Available(n, next) < CHUNK_HEADER_SIZE THEN Outcome("more", read, 2)
        ELSE ParseVP8XChunks(n, 2, read)

--------------------------------------------------------------------------------
(* Validation *)

IsValidSimpleFormat(d) ==
    \/ d.state = "parsing header"
    \/ /\ d.width > 0 /\ d.height > 0
       /\ d.frames # << >>
       /\ d.frames[1].width > 0 /\ d.frames[1].height > 0

FitsCanvas(f, d) == f.x + f.width <= d.width /\ f.y + f.height <= d.height
FillsCanvas(f, d) == f.x = 0 /\ f.y = 0 /\ f.width = d.width /\ f.height = d.height

\* A still image fills the canvas; a frame of an animation lies within it (the
\* mutant: begins within it).
CheckFrameOrigin(f, d) ==
    IF d.animation THEN f.x < d.width /\ f.y < d.height ELSE FillsCanvas(f, d)
CheckFrameBounds(f, d) ==
    IF d.animation THEN FitsCanvas(f, d) ELSE FillsCanvas(f, d)

ValidFrame(d, i) ==
    LET f == d.frames[i]
        alphaFirst == f.alpha = NoSize \/ f.alpha.offset <= f.image.offset
    IN  /\ d.animation \/ f.frame_num <= 1
        /\ IF f.complete THEN /\ f.alpha # NoSize \/ f.image # NoSize
                              /\ alphaFirst
                              /\ f.width > 0 /\ f.height > 0
           ELSE /\ d.state # "done"
                /\ f.image = NoSize \/ alphaFirst
                /\ i = Len(d.frames)
        /\ f.width > 0 /\ f.height > 0 => CheckFrameBounds(f, d)

IsValidExtendedFormat(d) ==
    \/ d.state = "parsing header"
    \/ /\ d.state = "done" => d.frames # << >>
       /\ \A i \in DOMAIN d.frames : ValidFrame(d, i)

--------------------------------------------------------------------------------
(* WebPDemuxInternal: the state reported, and the demuxer unless it is NULL *)

None == << >>

\* The file has no RIFF header: its bytes are a bitstream, all of which is there.
CreateRawImageDemuxer(n) ==
    LET chunk == file.chunks[1]
        got == n - CHUNK_HEADER_SIZE
        features == IF n < RIFF_HEADER_SIZE THEN "not enough" ELSE Features(chunk, got)
        frame == [SetFrameInfo(EmptyFrame, 1, chunk, 0, n, TRUE) EXCEPT !.complete = TRUE]
    IN  IF features # "ok"
        THEN [state |-> IF features = "error" THEN "error" ELSE "parsing header", dmux |-> None]
        ELSE [state |-> "done",
              dmux |-> [InitDemux EXCEPT !.state = "done", !.width = frame.width,
                           !.height = frame.height, !.alpha = frame.has_alpha,
                           !.num_frames = 1, !.frames = << frame >>]]

\* Behind a header that was not there the sizes that are left wrap around
\* (demux.c:125-132): any demuxer may come out of the parsing, or none.
Unknown == [state |-> "unknown", dmux |-> [InitDemux EXCEPT !.state = "unknown"]]
Possible(result) ==
    IF result = Unknown THEN {Unknown, [state |-> "error", dmux |-> None]} ELSE {result}

Demuxed(n, master, parsed) ==
    LET d == [parsed.dmux EXCEPT !.state = IF parsed.status = "ok" THEN "done" ELSE @]
    IN  IF parsed.dmux.overread THEN Unknown
        ELSE IF /\ parsed.status = "ok" \/ (parsed.status = "more" /\ n < RiffEnd)
                /\ IF master = "VP8X" THEN IsValidExtendedFormat(d) ELSE IsValidSimpleFormat(d)
        THEN [state |-> d.state, dmux |-> d]
        ELSE [state |-> "error", dmux |-> None]

WebPDemuxInternal(n, allow_partial) ==
    LET master == file.chunks[1].id IN
    IF n < RIFF_HEADER_SIZE + CHUNK_HEADER_SIZE
    THEN [state |-> "parsing header", dmux |-> None]
    ELSE IF file.raw THEN CreateRawImageDemuxer(n)
    ELSE IF n < RiffEnd /\ ~ allow_partial THEN [state |-> "error", dmux |-> None]
    ELSE Demuxed(n, master,
                 IF master = "VP8X" THEN ParseVP8X(n, InitDemux)
                 ELSE IF master \in {"VP8", "VP8L"} THEN ParseSingleImage(n, 1, InitDemux)
                 ELSE Outcome("error", InitDemux, 1))

--------------------------------------------------------------------------------
(* A client that parses what it has each time more bytes arrive *)

DemuxInit ==
    /\ file \in FilesToParse
    /\ received = 0
    /\ demuxed = [state |-> "parsing header", dmux |-> None]

\* One more byte, and WebPDemuxPartial.
Receive ==
    /\ received < FileSize
    /\ received' = received + 1
    /\ demuxed' \in Possible(WebPDemuxInternal(received + 1, TRUE))
    /\ UNCHANGED file

--------------------------------------------------------------------------------

\* Where a complete frame was, more bytes show the same frame.  Whether it has
\* alpha is open while a still image of a file without the alpha flag can be
\* followed by ALPH, which is ignored, with the alpha of a lossless image
\* (demux.c:411).
StillThere(f, i, e) ==
    /\ i \in DOMAIN e.frames
    /\ \/ e.frames[i] = f
       \/ /\ ~ e.animation /\ ~ e.alpha
          /\ e.frames[i] = [f EXCEPT !.has_alpha = FALSE]

\* Parsing again with more bytes takes nothing back: the frames that were
\* complete are there, the same to the byte, unless a chunk turned out to be
\* broken and the parser asks for more nevertheless (demux.c:519); and the state
\* of the parser has not gone backwards.  Nothing is said of what the parser makes
\* of a chunk's header that is not there.
Known(d) == d # None /\ d.state # "unknown"
States == << "parsing header", "parsed header", "done" >>
FramesKept ==
    [][ ~ file.raw /\ Known(demuxed.dmux) /\ Known(demuxed'.dmux) =>
          LET d == demuxed.dmux e == demuxed'.dmux IN
          /\ ~ e.broken => \A i \in DOMAIN d.frames :
                              d.frames[i].complete => StillThere(d.frames[i], i, e)
          /\ \E i, j \in DOMAIN States : /\ i <= j
                                         /\ States[i] = d.state
                                         /\ States[j] = e.state ]_demuxVars

\* Every frame of a demuxer is found by its number, lies within the canvas, and
\* has its bytes, alpha before image, within those that were given.
Usable(d, n) ==
    /\ d.num_frames = Len(d.frames)
    /\ \A i \in DOMAIN d.frames :
          LET f == d.frames[i] IN
          /\ f.frame_num = i
          /\ f.complete
          /\ FitsCanvas(f, d)
          /\ f.image.offset + f.image.size <= n
          /\ f.alpha # NoSize => f.alpha.offset + f.alpha.size <= f.image.offset

================================================================================
