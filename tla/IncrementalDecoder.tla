-------------------------- MODULE IncrementalDecoder --------------------------
(***************************************************************************)
(* libwebp's lossy decoder, from bytes to lines: all data given at once    *)
(* (VP8Decode), or in pieces, appended to the decoder's own buffer or      *)
(* growing in the caller's (WebPIAppend, WebPIUpdate).  Parsing goes as    *)
(* far as the data do: when they end within a macroblock the decoder goes  *)
(* back to its beginning and waits.  Parsed rows are given to RowDecoder.  *)
(*                                                                         *)
(* A file is laid out as: headers, with the alpha chunk; frame header and  *)
(* partition 0, with the modes; sizes of the token partitions but the      *)
(* last; the partitions, which the rows of macroblocks take in turn.  A    *)
(* macroblock's tokens are MBSize units of data.  Pointers into the buffer are *)
(* pairs of the buffer they point into and an offset into the file.        *)
(* Lossless images, allocation failures other than the thread's and the    *)
(* copy to slow memory at the end are left out.                            *)
(***************************************************************************)
EXTENDS RowDecoder, FiniteSets

CONSTANTS
    HeaderSize, AlphaAt,    \* where the headers end and the alpha data begin
    Part0Size,              \* part0_size_
    ChunkSize,              \* CHUNK_SIZE: what buffers are rounded up to
    MBSize, MaxMBSize,      \* a macroblock's tokens, and MAX_MB_SIZE
    BrokenRow,              \* where broken files are
    Decodings               \* frames, their files, and ways to decode them

Files == [parts : {1, 2, 4, 8}, broken : {"no", "header", "modes", "tokens"}]

ASSUME LayoutAssumption ==
    /\ {HeaderSize, AlphaAt, Part0Size, ChunkSize, MBSize} \subseteq Nat \ {0}
    /\ MaxMBSize \in Nat /\ MBSize <= MaxMBSize /\ AlphaAt < HeaderSize /\ BrokenRow \in 0 .. MBHeight - 1
    /\ Decodings \subseteq [frame : Frames, file : Files, entry : {"decode", "append", "update"}]

\* WebPIoInitFromOptions refuses an area that is empty or not within the frame.
ASSUME CropAssumption ==
    \A d \in Decodings :
        d.frame.crop_top < d.frame.crop_bottom /\ d.frame.crop_bottom <= 16 * MBHeight

VARIABLES
    file, entry,    \* what is decoded, and how
    state,          \* state_ of WebPIDecoder
    mem,            \* MemBuffer: which buffer, and its extent in the file
    parts,          \* the token partitions' readers
    part0,          \* partition 0's reader: its buffer, the rows of modes read
    alpha_data,     \* the buffer alpha_data_ points into
    last_mb_y,
    pc,             \* where the decoding thread is
    torn,           \* whether the output was torn down
    raced           \* history: the worker's data were taken away in a job

input == <<file, entry, state, mem, parts, part0, alpha_data, last_mb_y, pc, torn, raced>>
decoder == <<worker, rows, input>>

--------------------------------------------------------------------------------
(* The file *)

LastPart == file.parts - 1
TokensFrom == HeaderSize + Part0Size + LastPart
RowSize == MBSize * MBWidth
PartStart(p) == TokensFrom + RowSize * Cardinality({r \in 0 .. MBHeight - 1 : r % file.parts < p})
FileSize == TokensFrom + RowSize * MBHeight

\* Where the tokens of the macroblock to parse next really are.
TokensAt == PartStart(mb_y % file.parts) + RowSize * (mb_y \div file.parts) + MBSize * mb_x

DInit ==
    /\ WorkerInit
    /\ \E d \in Decodings : frame = d.frame /\ file = d.file /\ entry = d.entry
    /\ RowsInit
    /\ state = "WEBP_HEADER"
    /\ mem = [buf |-> 0, base |-> 0, start |-> 0, end |-> 0, size |-> 0]
    /\ parts = << >>
    /\ part0 = [buf |-> 0, rows |-> 0]
    /\ alpha_data = 0
    /\ last_mb_y = -1
    /\ pc = "client" /\ torn = FALSE /\ raced = FALSE

--------------------------------------------------------------------------------
(* Incoming data *)

MemDataSize == mem.end - mem.start

NeedCompressedAlpha ==
    state # "WEBP_HEADER" /\ frame.alpha # "none" /\ ~alpha.decoded

\* What a buffer that is replaced keeps (the mutant: only what is not parsed).
KeptUnparsed == mem.start
KeptFrom == IF NeedCompressedAlpha THEN AlphaAt ELSE mem.start

\* DoRemap: all pointers into the old buffer; the last partition grows.
DoRemap(buf, end) ==
    /\ parts' = [p \in DOMAIN parts |->
                    [parts[p] EXCEPT !.buf = buf, !.end = IF p = LastPart THEN end ELSE @]]
    /\ part0' = [part0 EXCEPT !.buf = IF entry = "append" THEN @ ELSE buf]
    /\ alpha_data' = IF NeedCompressedAlpha THEN buf ELSE alpha_data
    /\ raced' = (raced \/ (buf # mem.buf /\ NeedCompressedAlpha /\ status = "WORK"))

Accepts == pc = "client" /\ state \notin {"ERROR", "DONE", "DELETED"}

\* WebPIAppend of n units.
AppendData(n) ==
    /\ Accepts /\ entry = "append" /\ mem.end + n <= FileSize
    /\ LET moves == mem.end - mem.base + n > mem.size
           base  == IF moves THEN KeptFrom ELSE mem.base
           needs == mem.end - base + n
           buf   == IF moves THEN 1 - mem.buf ELSE mem.buf
       IN  /\ mem' = [mem EXCEPT !.buf = buf, !.base = base, !.end = @ + n,
                        !.size = IF moves
                                 THEN ChunkSize * ((needs + ChunkSize - 1) \div ChunkSize)
                                 ELSE @]
           /\ DoRemap(buf, mem.end + n)
    /\ pc' = "decode"
    /\ UNCHANGED <<worker, rows, file, entry, state, last_mb_y, torn>>

\* WebPIUpdate: the same data and n units more, maybe elsewhere.
UpdateData(n) ==
    /\ Accepts /\ entry = "update" /\ mem.end + n <= FileSize
    /\ \E buf \in {mem.buf, 1 - mem.buf} :
        /\ mem' = [mem EXCEPT !.buf = buf, !.end = @ + n, !.size = mem.end + n]
        /\ DoRemap(buf, mem.end + n)
    /\ pc' = "decode"
    /\ UNCHANGED <<worker, rows, file, entry, state, last_mb_y, torn>>

\* WebPDecode of a file that may be cut short.
DecodeData(n) ==
    /\ pc = "client" /\ entry = "decode" /\ state = "WEBP_HEADER" /\ mem.end = 0
    /\ mem' = [mem EXCEPT !.end = n, !.size = n]
    /\ pc' = "decode"
    /\ UNCHANGED <<worker, rows, file, entry, state, parts, part0, alpha_data,
                   last_mb_y, torn, raced>>

--------------------------------------------------------------------------------
(* The ways a call ends *)

\* SUSPENDED, or, when all data were given at once, NOT_ENOUGH_DATA.
Suspend ==
    IF entry = "decode"
    THEN state' = "ERROR" /\ pc' = "clear"
    ELSE pc' = "client" /\ UNCHANGED state

\* IDecError, which tears the output down at once.  VP8Decode goes through
\* VP8ExitCritical.
Fail ==
    /\ state' = "ERROR"
    /\ pc' = CASE entry # "decode"                      -> "client"
               [] entry = "decode" /\ state = "VP8_DATA" -> "exit critical"
               [] OTHER                                  -> "clear"
    /\ torn' = (torn \/ (entry # "decode" /\ state = "VP8_DATA"))
    /\ raced' = (raced \/ (entry # "decode" /\ status = "WORK"))

\* VP8ExitCritical waits for the job (the mutant: not).
ExitNeverSyncs == TRUE
ExitNeedsNoSync == ~impl

--------------------------------------------------------------------------------
(* Headers and partition 0 *)

DecodeHeaders ==
    /\ pc = "decode" /\ state = "WEBP_HEADER"
    /\ IF MemDataSize < HeaderSize THEN Suspend /\ UNCHANGED mem
       ELSE /\ state' = "VP8_HEADER"
            /\ mem' = [mem EXCEPT !.start = @ + HeaderSize]
            /\ UNCHANGED pc
    /\ alpha_data' = mem.buf
    /\ UNCHANGED <<worker, rows, file, entry, parts, part0, last_mb_y, torn, raced>>

DecodeVP8FrameHeader ==
    /\ pc = "decode" /\ state = "VP8_HEADER"
    /\ IF MemDataSize = 0 THEN Suspend /\ UNCHANGED <<torn, raced>>
       ELSE IF file.broken = "header" THEN Fail
       ELSE state' = "VP8_PARTS0" /\ UNCHANGED <<pc, torn, raced>>
    /\ UNCHANGED <<worker, rows, file, entry, mem, parts, part0, alpha_data, last_mb_y>>

\* VP8GetHeaders with ParsePartitions: every partition but the last is there,
\* and something of the last.
HasPartitions == MemDataSize >= Part0Size /\ mem.end > PartStart(LastPart)

DecodePartition0 ==
    /\ pc = "decode" /\ state = "VP8_PARTS0"
    /\ IF ~HasPartitions
       THEN /\ Suspend
            /\ UNCHANGED <<worker, rows, mem, parts, part0, torn>>
       ELSE /\ mem' = [mem EXCEPT !.start = @ + Part0Size]
            /\ parts' = [p \in 0 .. LastPart |->
                            [buf |-> mem.buf, at |-> PartStart(p),
                             end |-> IF p = LastPart THEN mem.end ELSE PartStart(p + 1)]]
            /\ part0' = [buf |-> mem.buf, rows |-> 0]
            /\ AllocateMemory
            /\ UNCHANGED <<frame, mb_y, mb_x, mb_data, f_info, blocks, infos,
                           cache_id, cache, alpha, picture>>
            /\ \/ /\ state' = "VP8_DATA" /\ UNCHANGED <<pc, torn>>
                  /\ IF frame.threads THEN Reset ELSE UNCHANGED worker
               \* The thread cannot be created.
               \/ /\ frame.threads
                  /\ state' = "ERROR" /\ torn' = TRUE
                  /\ pc' = IF entry = "decode" THEN "clear" ELSE "client"
                  /\ UNCHANGED worker
    /\ UNCHANGED <<file, entry, alpha_data, last_mb_y, raced>>

--------------------------------------------------------------------------------
(* Macroblocks *)

\* VP8Decode goes to the last row that is needed, WebPIDecode to the last.
EndRow == IF entry = "decode" THEN BottomRow ELSE MBHeight

Parsing == pc = "decode" /\ state = "VP8_DATA" /\ mb_y < EndRow

\* VP8ParseIntraModeRow, once for each row.
ParseModes ==
    /\ Parsing /\ last_mb_y # mb_y
    /\ IF file.broken = "modes" /\ mb_y = BrokenRow
       THEN Fail /\ UNCHANGED <<part0, last_mb_y, blocks>>
       ELSE /\ part0' = [part0 EXCEPT !.rows = @ + 1]
            /\ last_mb_y' = mb_y
            /\ blocks' = [blocks EXCEPT ![mb_data] = [row |-> part0.rows, count |-> 0]]
            /\ UNCHANGED <<state, pc, torn, raced>>
    /\ UNCHANGED <<worker, frame, mb_y, mb_x, mb_data, f_info, infos, ctx, cache_id,
                   cache, alpha, picture, file, entry, mem, parts, alpha_data>>

\* What a row holds after its macroblock x, which is of use only if it was read
\* from where it is, right after the one before.
With(held, right, x) ==
    IF right /\ held.count = x THEN [held EXCEPT !.count = x + 1] ELSE NoRow

\* RestoreContext, after a macroblock whose tokens were read to the data's end.
RestoreContext(reader) == reader

\* VP8DecodeMB, between SaveContext and RestoreContext.
DecodeMB ==
    /\ Parsing /\ last_mb_y = mb_y /\ mb_x < MBWidth
    /\ LET p      == mb_y % file.parts
           reader == parts[p]
           right  == reader.at = TokensAt
           broken == file.broken = "tokens" /\ mb_y = BrokenRow
       IN  IF reader.at + MBSize <= reader.end /\ ~broken
           THEN /\ parts' = [parts EXCEPT ![p].at = @ + MBSize]
                /\ blocks' = [blocks EXCEPT ![mb_data] = With(@, right, mb_x)]
                /\ infos' = [infos EXCEPT ![f_info] =
                        With(IF mb_x = 0 THEN [row |-> mb_y, count |-> 0] ELSE @, right, mb_x)]
                /\ mb_x' = mb_x + 1
                /\ mem' = IF file.parts = 1 THEN [mem EXCEPT !.start = reader.at + MBSize] ELSE mem
                /\ UNCHANGED <<state, pc, torn, raced>>
           ELSE /\ IF entry = "decode" \/ (file.parts = 1 /\ MemDataSize > MaxMBSize)
                   THEN Fail
                   ELSE Suspend /\ UNCHANGED <<torn, raced>>
                /\ parts' = [parts EXCEPT ![p] = RestoreContext(@)]
                /\ UNCHANGED <<blocks, infos, mb_x, mem>>
    /\ UNCHANGED <<worker, frame, mb_y, mb_data, f_info, ctx, cache_id, cache, alpha,
                   picture, file, entry, part0, alpha_data, last_mb_y>>

\* VP8InitScanline, and VP8ProcessRow without threads.
ProcessRow ==
    /\ Parsing /\ mb_x = MBWidth /\ ~frame.threads
    /\ mb_x' = 0
    /\ FinishRowHere
    /\ IF AlphaFails(mb_y) THEN Fail /\ UNCHANGED mb_y
       ELSE mb_y' = mb_y + 1 /\ UNCHANGED <<state, pc, torn, raced>>
    /\ UNCHANGED <<worker, frame, mb_data, f_info, blocks, infos, cache_id, file,
                   entry, mem, parts, part0, alpha_data, last_mb_y>>

\* The same with threads: Sync, then HandOver and Launch.
ProcessRowSync ==
    /\ Parsing /\ mb_x = MBWidth /\ frame.threads
    /\ mb_x' = 0
    /\ Begin("Sync") /\ pc' = "sync"
    /\ UNCHANGED <<frame, mb_y, mb_data, f_info, blocks, infos, ctx, cache_id, cache,
                   alpha, picture, file, entry, state, mem, parts, part0, alpha_data,
                   last_mb_y, torn, raced>>

ProcessRowLaunch ==
    /\ pc = "sync" /\ call = Out
    /\ IF had_error THEN Fail /\ UNCHANGED <<worker, rows>>
       ELSE /\ HandOver
            /\ Begin("Launch") /\ pc' = "launch"
            /\ UNCHANGED <<state, torn, raced>>
    /\ UNCHANGED <<file, entry, mem, parts, part0, alpha_data, last_mb_y>>

NextRow ==
    /\ pc = "launch" /\ call = Out
    /\ mb_y' = mb_y + 1
    /\ pc' = "decode"
    /\ UNCHANGED <<worker, frame, mb_x, mb_data, f_info, blocks, infos, ctx, cache_id,
                   cache, alpha, picture, file, entry, state, mem, parts, part0,
                   alpha_data, last_mb_y, torn, raced>>

--------------------------------------------------------------------------------
(* The end *)

\* The loop's end, an error of VP8Decode, or WebPIDelete within the data.
BeginExit(next) ==
    /\ IF ExitNeedsNoSync THEN UNCHANGED worker ELSE Begin("Sync")
    /\ pc' = next
    /\ UNCHANGED <<rows, file, entry, state, mem, parts, part0, alpha_data,
                   last_mb_y, torn, raced>>

ExitCritical ==
    \/ /\ pc = "decode" /\ state = "VP8_DATA" /\ mb_y = EndRow
       /\ BeginExit("exit")
    \/ pc = "exit critical" /\ BeginExit("exit")
    \/ /\ pc = "client" /\ entry # "decode" /\ state = "VP8_DATA"
       /\ BeginExit("delete")

\* FinishDecoding, unless a job failed.
Exited ==
    /\ pc \in {"exit", "delete"} /\ call = Out
    /\ torn' = TRUE
    /\ state' = IF pc = "delete" THEN state
                ELSE IF had_error \/ state = "ERROR" THEN "ERROR" ELSE "DONE"
    /\ pc' = IF pc = "exit" /\ entry # "decode" THEN "client" ELSE "clear"
    /\ UNCHANGED <<worker, rows, file, entry, mem, parts, part0, alpha_data,
                   last_mb_y, raced>>

\* VP8Clear: End, then everything is freed.  WebPDecode always comes here.
Clear ==
    /\ \/ pc = "clear"
       \/ pc = "client" /\ entry # "decode" /\ state \notin {"VP8_DATA", "DELETED"}
    /\ IF impl THEN Begin("End") ELSE UNCHANGED worker
    /\ pc' = "freeing"
    /\ UNCHANGED <<rows, file, entry, state, mem, parts, part0, alpha_data,
                   last_mb_y, torn, raced>>

Free ==
    /\ pc = "freeing" /\ call = Out
    /\ pc' = "client"
    /\ state' = "DELETED"
    /\ parts' = << >>
    /\ UNCHANGED <<worker, rows, file, entry, mem, part0, alpha_data, last_mb_y, torn, raced>>

--------------------------------------------------------------------------------
Client ==
    \/ \E n \in 1 .. FileSize : AppendData(n) \/ UpdateData(n) \/ DecodeData(n)
    \/ pc = "client" /\ (ExitCritical \/ Clear)

Decode ==
    \/ DecodeHeaders \/ DecodeVP8FrameHeader \/ DecodePartition0
    \/ ParseModes \/ DecodeMB \/ ProcessRow \/ ProcessRowSync \/ ProcessRowLaunch
    \/ NextRow \/ Exited \/ Free
    \/ pc # "client" /\ (ExitCritical \/ Clear)

InCall == (ChangeState \/ Join) /\ UNCHANGED <<rows, input>>

Work == (Enter /\ UNCHANGED <<rows, input>>) \/ ((JobReconstruct \/ JobEmit) /\ UNCHANGED input)

Spurious == (CallerWakes \/ ThreadWakes) /\ UNCHANGED <<rows, input>>

DNext == Client \/ Decode \/ InCall \/ Work \/ Spurious

\* A call, once begun, goes on, and so does the worker's thread; nobody has to
\* call.
DSpec ==
    /\ DInit /\ [][DNext]_decoder
    /\ WF_decoder(Decode \/ InCall) /\ WF_decoder(Work)

--------------------------------------------------------------------------------
(* Properties *)

\* Whatever the cropping, the filter, the threads and the pieces the data come
\* in, each line put out is the one the format defines, lines come in order, and
\* a decoder that reports success has put out all of them.  Excepted: the alpha
\* data or the output were taken away during a job.
PictureRight ==
    \/ raced
    \/ /\ LinesRightInOrder
       /\ state = "DONE" => \A y \in CropLines : RightLine(y)

\* However the input buffer grew or moved, every reader is within it, and all
\* that has not been read is still there, compressed alpha included.
ReadersCurrent ==
    /\ \A p \in DOMAIN parts :
        /\ parts[p].buf = mem.buf
        /\ mem.base <= mem.start /\ mem.start <= parts[p].at
        /\ parts[p].at <= parts[p].end /\ parts[p].end <= mem.end
    /\ state = "VP8_DATA" /\ NeedCompressedAlpha =>
        alpha_data = mem.buf /\ mem.base <= AlphaAt
    /\ entry # "append" /\ state = "VP8_DATA" => part0.buf = mem.buf

\* No job is left running when the output is torn down.  Excepted: errors found
\* while the worker is busy, on which IDecError does not wait.
OutputOutlivesJobs == status = "WORK" => ~torn \/ raced

\* Every call returns, and one that had the last of a sound file's data ends the
\* decoding.
DecodingEnds ==
    (pc # "client") ~>
        /\ pc = "client"
        /\ mem.end = FileSize /\ file.broken = "no" => state \in {"DONE", "ERROR", "DELETED"}
================================================================================
