----------------------------- MODULE MCWebPSequence ----------------------------
(* Files of up to two frames or other chunks on a canvas of 4 by 4 pixels,   *)
(* well formed and not, for a sequence with two threads and two frames.      *)
EXTENDS WebPSequence

\* Chunks: their size in bytes and what the parser reads of them.  A bitstream
\* may be too short for its header, or have a broken one.
Bitstream(id, size, width, alpha, broken) ==
    [id |-> id, size |-> size, width |-> width, height |-> width,
     alpha |-> alpha, broken |-> broken]
Small == Bitstream("VP8", 11, 2, FALSE, FALSE)
Large == Bitstream("VP8", 12, 4, FALSE, FALSE)
Short == Bitstream("VP8", 4, 4, FALSE, FALSE)
Broken == Bitstream("VP8", 12, 4, FALSE, TRUE)
Lossless == Bitstream("VP8L", 6, 2, TRUE, FALSE)
Alpha == [id |-> "ALPH", size |-> 3]
Anim == [id |-> "ANIM", size |-> 6]
Exif == [id |-> "EXIF", size |-> 2, announced |-> TRUE]

\* ANMF for a frame at (x, 0), declared 2 by 2, with a payload of some size.
Anmf(x, payload) ==
    [id |-> "ANMF", size |-> ANMF_CHUNK_SIZE + payload, x |-> x, y |-> 0,
     width |-> 2, height |-> 2]
Header(animation, alpha) ==
    [id |-> "VP8X", size |-> VP8X_CHUNK_SIZE, animation |-> animation,
     alpha |-> alpha, width |-> 4, height |-> 4]

\* Frames of an animation: with alpha, lossless, larger than declared, outside
\* the canvas once its size is known, claimed shorter than it is, without image,
\* claimed too short for any chunk, with and without one.
AnimationBlocks ==
    { << Anmf(2, 20), Small >>, << Anmf(0, 32), Alpha, Small >>,
      << Anmf(0, 14), Lossless >>, << Anmf(0, 20), Large >>,
      << Anmf(2, 20), Large >>, << Anmf(0, 12), Alpha, Small >>,
      << Anmf(0, 12), Alpha >>, << Exif >>, << Anim >>,
      << Anmf(2, 4), Small >>, << Anmf(0, 0) >> }

\* What may follow the header of a still image.
StillBlocks ==
    { << Large >>, << Small >>, << Alpha, Large >>, << Alpha, Lossless >>,
      << Short >>, << Broken >>, << Exif >> }

UpToTwo(blocks) == blocks \union {a \o b : a, b \in blocks}

Bodies ==
    { << Header(TRUE, TRUE), Anim >> \o b : b \in UpToTwo(AnimationBlocks) }
      \union { << Header(FALSE, alpha) >> \o b : alpha \in BOOLEAN, b \in UpToTwo(StillBlocks) }
      \union { << Large >>, << Lossless >>, << Broken >>, << Short, Exif >>,
               << Small, Alpha >>, << Lossless, Alpha >> }

Bytes(chunks) ==
    LET F[k \in 0 .. Len(chunks)] == IF k = 0 THEN 0 ELSE F[k - 1] + LengthOf(chunks[k])
    IN  F[Len(chunks)]

\* RIFF headers that fit, claim more than there is, end one chunk early, or are
\* as small as the parser accepts.
Riffs(chunks) ==
    LET exact == 4 + Bytes(chunks) IN
    {exact, exact + 2} \union {exact - LengthOf(chunks[Len(chunks)])}

MCFiles ==
    { f \in UNION { [raw : {FALSE}, riff : Riffs(c), chunks : {c}] : c \in Bodies } :
         f.riff >= 4 + CHUNK_HEADER_SIZE }
      \union [raw : {FALSE}, riff : {CHUNK_HEADER_SIZE},
              chunks : { << Large >>, << Header(FALSE, FALSE), Large >> }]
      \union [raw : {TRUE}, riff : {0}, chunks : { << Large >>, << Lossless >>, << Broken >> }]

================================================================================
