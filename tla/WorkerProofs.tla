----------------------------- MODULE WorkerProofs -----------------------------
(***************************************************************************)
(* Proofs about WebPWorker, for any client that keeps to its interface: no *)
(* wake-up is lost, and every step is a step of the slot for one job.      *)
(* Then about the client that libwebp has, the lossy decoder: that it      *)
(* keeps to the interface, what runs when the output goes away, where the  *)
(* pointers into its input are, and that the lines it puts out are right.  *)
(*                                                                         *)
(* The worker's invariant ties the status, which both threads write, to    *)
(* where each of them is.  Its heart is that the decoding thread owns the  *)
(* job's data only while the worker is idle: owning begins with a Sync     *)
(* that found the worker idle, and ends with the Launch or End that        *)
(* changes that.                                                           *)
(***************************************************************************)
EXTENDS IncrementalDecoder, FiniteSetTheorems, TLAPS

\* The thread exists, and the decoding thread is in a call, just when the status
\* says so.
Phases ==
    /\ impl <=> thread # "none"
    /\ ~impl => status = "NOT_OK" /\ call = Out
    /\ impl /\ status = "NOT_OK" => call.at = "joining"
    /\ call.at = "joining" => status = "NOT_OK" /\ impl
    /\ thread = "executing" => status = "WORK"
    /\ thread = "exited" => status = "NOT_OK"

Ownership ==
    /\ owns => status = "OK"
    /\ call.op = "Launch" => owns

WInv == WorkerTypeOK /\ Phases /\ Ownership /\ NoLostWakeup

LEMMA InitInvariant == WorkerInit => WInv
<1> SUFFICES ASSUME WorkerInit PROVE WInv
  OBVIOUS
<1> USE DEF WorkerInit, Out
<1>1. WorkerTypeOK
  BY DEF WorkerTypeOK, Threads, Calls
<1>2. Phases
  BY DEF Phases
<1>3. Ownership /\ NoLostWakeup
  BY DEF Ownership, NoLostWakeup
<1> QED  BY <1>1, <1>2, <1>3 DEF WInv

\* The invariant, step by step.
LEMMA StepInvariant == WInv /\ [WorkerNext]_worker => WInv'
<1> SUFFICES ASSUME WInv, [WorkerNext]_worker PROVE WInv'
  OBVIOUS
<1> USE DEF WInv, WorkerTypeOK, Phases, Ownership, NoLostWakeup, Threads, Calls,
            Operations, Out, At
<1>1. CASE Reset
  BY <1>1 DEF Reset
<1>2. ASSUME NEW op \in Operations, Begin(op) PROVE WInv'
  BY <1>2 DEF Begin
<1>3. CASE ChangeState
  <2>1. CASE MustWait
    BY <1>3, <2>1 DEF ChangeState, MustWait, MutexFree
  <2>2. CASE ~MustWait
    <3>1. status = "OK" /\ impl /\ thread # "executing" /\ call.at = "entering"
      BY <1>3, <2>2 DEF ChangeState, MustWait, MutexFree
    <3>2. CASE call.op = "Sync"
      BY <1>3, <2>2, <3>1, <3>2 DEF ChangeState
    <3>3. CASE call.op = "Launch"
      <4>1. /\ status' = "WORK" /\ call' = Out /\ owns' = FALSE
            /\ UNCHANGED <<impl, had_error>>
        BY <1>3, <2>2, <3>3 DEF ChangeState
      <4>2. thread' = IF thread = "waiting" THEN "entering" ELSE thread
        BY <1>3, <2>2, <3>3 DEF ChangeState, SignalledThread
      <4> QED  BY <3>1, <4>1, <4>2
    <3>4. CASE call.op = "End"
      <4>1. /\ status' = "NOT_OK" /\ call' = At("joining") /\ owns' = FALSE
            /\ UNCHANGED <<impl, had_error>>
        BY <1>3, <2>2, <3>4 DEF ChangeState
      <4>2. thread' = IF thread = "waiting" THEN "entering" ELSE thread
        BY <1>3, <2>2, <3>4 DEF ChangeState, SignalledThread
      <4> QED  BY <3>1, <3>4, <4>1, <4>2
    <3> QED  BY <3>1, <3>2, <3>3, <3>4
  <2> QED  BY <2>1, <2>2
<1>4. CASE Join
  BY <1>4 DEF Join
<1>5. CASE CallerWakes
  BY <1>5 DEF CallerWakes
<1>6. CASE Enter
  BY <1>6 DEF Enter, SignalledCall
<1>7. CASE ThreadWakes
  BY <1>7 DEF ThreadWakes
<1>8. ASSUME NEW ok \in BOOLEAN, Executed(ok) PROVE WInv'
  BY <1>8 DEF Executed, SignalledCall
<1>9. CASE UNCHANGED worker
  BY <1>9 DEF worker
<1> QED
  BY <1>1, <1>2, <1>3, <1>4, <1>5, <1>6, <1>7, <1>8, <1>9 DEF WorkerNext

THEOREM Invariant == WorkerSpec => []WInv
  BY InitInvariant, StepInvariant, PTL DEF WorkerSpec

\* No thread waits for what is already so: a signal is never missed, although
\* two threads wait on one condition variable for opposite things.
THEOREM WakeupsArrive == WorkerSpec => []NoLostWakeup
<1>1. WInv => NoLostWakeup  BY DEF WInv
<1> QED  BY Invariant, <1>1, PTL

--------------------------------------------------------------------------------
\* One step, as the slot sees it.
LEMMA SlotStep == WInv /\ [WorkerNext]_worker => [Slot!Next]_(Slot!vars)
<1> SUFFICES ASSUME WInv, [WorkerNext]_worker PROVE [Slot!Next]_(Slot!vars)
  OBVIOUS
<1> USE DEF WInv, WorkerTypeOK, Phases, Ownership, Threads, Calls, Operations, Out, At,
            Slot!vars, Slot!Next, Holder
<1>1. CASE Reset
  BY <1>1 DEF Reset, Slot!Create
<1>2. ASSUME NEW op \in Operations, Begin(op) PROVE UNCHANGED Slot!vars
  BY <1>2 DEF Begin
<1>3. CASE ChangeState
  <2>1. CASE MustWait
    BY <1>3, <2>1 DEF ChangeState
  <2>2. CASE ~MustWait
    <3>1. status = "OK" /\ impl /\ call.at = "entering"
      BY <1>3, <2>2 DEF ChangeState, MustWait, MutexFree
    <3>2. CASE call.op = "Sync"
      BY <1>3, <2>2, <3>1, <3>2 DEF ChangeState, Slot!Collect
    <3>3. CASE call.op = "Launch"
      BY <1>3, <2>2, <3>1, <3>3 DEF ChangeState, Slot!Submit
    <3>4. CASE call.op = "End"
      BY <1>3, <2>2, <3>1, <3>4 DEF ChangeState, Slot!Close
    <3> QED  BY <3>1, <3>2, <3>3, <3>4
  <2> QED  BY <2>1, <2>2
<1>4. CASE Join
  BY <1>4 DEF Join
<1>5. CASE CallerWakes
  BY <1>5 DEF CallerWakes
<1>6. CASE Enter
  BY <1>6 DEF Enter
<1>7. CASE ThreadWakes
  BY <1>7 DEF ThreadWakes
<1>8. ASSUME NEW ok \in BOOLEAN, Executed(ok) PROVE Slot!Run
  BY <1>8 DEF Executed, Slot!Run
<1>9. CASE UNCHANGED worker
  BY <1>9 DEF worker
<1> QED
  BY <1>1, <1>2, <1>3, <1>4, <1>5, <1>6, <1>7, <1>8, <1>9 DEF WorkerNext

\* The worker implements the slot for one job: its data belong to one thread at
\* a time, and a job launched is run once before they are given back.
THEOREM SlotRefined == WorkerSpec => SlotKept
<1>1. WorkerInit => Slot!Init
  BY DEF WorkerInit, Slot!Init, Holder
<1>2. WInv /\ [WorkerNext]_worker => [Slot!Next]_(Slot!vars)
  BY SlotStep
<1> QED
  BY <1>1, <1>2, Invariant, PTL DEF WorkerSpec, SlotKept

--------------------------------------------------------------------------------
(* The decoder, the worker's client *)

States == {"WEBP_HEADER", "VP8_HEADER", "VP8_PARTS0", "VP8_DATA", "ERROR", "DONE", "DELETED"}
Reading == {"VP8_HEADER", "VP8_PARTS0", "VP8_DATA"}
BeforeData == {"WEBP_HEADER", "VP8_HEADER", "VP8_PARTS0"}

\* Where the decoding thread makes which call.
CallsMade ==
    /\ call.op = "Sync" => pc \in {"sync", "exit", "delete"}
    /\ call.op = "Launch" => pc = "launch"
    /\ call.op = "End" \/ call.at = "joining" => pc = "freeing"

\* Whoever has waited for the job finds none running, and may launch one.
Waited ==
    /\ pc \in {"sync", "exit", "delete"} /\ call = Out => status # "WORK"
    /\ pc = "sync" /\ call = Out => owns

\* Jobs are launched from the rows' loop, which the output outlives.
Launching ==
    /\ torn \in BOOLEAN /\ raced \in BOOLEAN
    /\ state \in BeforeData => ~impl /\ ~torn
    /\ pc \in {"sync", "launch", "delete"} => state = "VP8_DATA"
    /\ state = "VP8_DATA" /\ pc \notin {"clear", "freeing"} => ~torn

JobsInv == WInv /\ CallsMade /\ Waited /\ Launching /\ OutputOutlivesJobs

InputTyping ==
    /\ file \in Files
    /\ state \in States
    /\ mb_y \in Nat
    /\ mem \in [buf : Int, base : Nat, start : Nat, end : Nat, size : Nat]
    /\ part0 \in [buf : Int, rows : Nat]
    /\ \A p \in DOMAIN parts : parts[p] \in [buf : Int, at : Nat, end : Nat]

\* What is read of the file so far, at least; all of it is still in the buffer.
Progress ==
    /\ mem.base <= mem.start /\ mem.start <= mem.end
    /\ state = "WEBP_HEADER" => mem.start = 0 /\ DOMAIN parts = {}
    /\ state \in {"VP8_HEADER", "VP8_PARTS0"} => mem.start = HeaderSize
    /\ state = "VP8_DATA" => mem.start >= HeaderSize /\ DOMAIN parts = 0 .. LastPart

WithinBuffer(r) ==
    r.buf = mem.buf /\ mem.start <= r.at /\ r.at <= r.end /\ r.end <= mem.end

Pointers ==
    /\ \A p \in DOMAIN parts : WithinBuffer(parts[p])
    /\ state \in Reading /\ NeedCompressedAlpha => alpha_data = mem.buf /\ mem.base <= AlphaAt
    /\ entry # "append" /\ state = "VP8_DATA" => part0.buf = mem.buf

InputInv == InputTyping /\ Progress /\ Pointers

\* The decoder keeps to the worker's interface, and so do its jobs.
LEMMA KeepsToInterface == [DNext]_decoder => [WorkerNext]_worker
<1> SUFFICES ASSUME [DNext]_decoder PROVE [WorkerNext]_worker
  OBVIOUS
<1> USE DEF Operations
<1>1. CASE Client
  BY <1>1 DEF Client, AppendData, UpdateData, DecodeData, ExitCritical, BeginExit, Clear,
              WorkerNext, worker
<1>2. CASE Decode
  BY <1>2 DEF Decode, DecodeHeaders, DecodeVP8FrameHeader, DecodePartition0, ParseModes,
              DecodeMB, ProcessRow, ProcessRowSync, ProcessRowLaunch, NextRow, Exited, Free,
              ExitCritical, BeginExit, Clear, WorkerNext, worker
<1>3. CASE InCall
  BY <1>3 DEF InCall, WorkerNext
<1>4. CASE Work
  BY <1>4 DEF Work, JobReconstruct, JobEmit, AlphaFails, WorkerNext, worker
<1>5. CASE Spurious
  BY <1>5 DEF Spurious, WorkerNext
<1>6. CASE UNCHANGED decoder
  BY <1>6 DEF decoder
<1> QED  BY <1>1, <1>2, <1>3, <1>4, <1>5, <1>6 DEF DNext

LEMMA JobsInitially == DInit => JobsInv
<1> SUFFICES ASSUME DInit PROVE JobsInv
  OBVIOUS
<1>1. WInv
  BY InitInvariant DEF DInit
<1>2. CallsMade /\ Waited /\ Launching /\ OutputOutlivesJobs
  BY DEF DInit, WorkerInit, Out, CallsMade, Waited, Launching, BeforeData, OutputOutlivesJobs
<1> QED  BY <1>1, <1>2 DEF JobsInv

\* The part of the invariant that is the decoder's, at a step of its own thread
\* outside of the worker's calls.
DecoderSide == CallsMade /\ Waited /\ Launching /\ OutputOutlivesJobs

LEMMA ClientJobs == JobsInv /\ Client => DecoderSide'
<1> SUFFICES ASSUME JobsInv, Client PROVE DecoderSide'
  OBVIOUS
<1> USE DEF JobsInv, WInv, WorkerTypeOK, Phases, CallsMade, Waited, Launching, BeforeData,
            OutputOutlivesJobs, DecoderSide, Out, Accepts
<1>1. ASSUME NEW n, AppendData(n) \/ UpdateData(n) PROVE DecoderSide'
  <2>2. pc = "client" /\ pc' = "decode" /\ UNCHANGED <<worker, state, torn>>
    BY <1>1 DEF AppendData, UpdateData
  <2>3. raced' \in BOOLEAN /\ (raced => raced')
    BY <1>1 DEF AppendData, UpdateData, DoRemap
  <2> QED  BY <2>2, <2>3 DEF worker
<1>2. ASSUME NEW n, DecodeData(n) PROVE DecoderSide'
  BY <1>2 DEF DecodeData, worker
<1>3. CASE pc = "client" /\ ExitCritical
  BY <1>3 DEF ExitCritical, BeginExit, ExitNeedsNoSync, Begin, worker
<1>4. CASE pc = "client" /\ Clear
  BY <1>4 DEF Clear, Begin, worker
<1> QED  BY <1>1, <1>2, <1>3, <1>4 DEF Client

LEMMA DecodeJobs == JobsInv /\ Decode => DecoderSide'
<1> SUFFICES ASSUME JobsInv, Decode PROVE DecoderSide'
  OBVIOUS
<1> USE DEF JobsInv, WInv, WorkerTypeOK, Phases, CallsMade, Waited, Launching, BeforeData,
            OutputOutlivesJobs, DecoderSide, Out, Suspend, Fail
<1>1. CASE DecodeHeaders
  BY <1>1 DEF DecodeHeaders, worker
<1>2. CASE DecodeVP8FrameHeader
  BY <1>2 DEF DecodeVP8FrameHeader, worker
<1>3. CASE DecodePartition0
  <2>1. CASE ~HasPartitions
    BY <1>3, <2>1 DEF DecodePartition0, worker
  <2>2. CASE HasPartitions
    <3>1. ~impl /\ pc = "decode" /\ UNCHANGED raced
      BY <1>3 DEF DecodePartition0
    <3>2. \/ /\ state' = "VP8_DATA" /\ UNCHANGED <<pc, torn>>
             /\ IF frame.threads THEN Reset ELSE UNCHANGED worker
          \/ state' = "ERROR" /\ pc' \in {"clear", "client"} /\ UNCHANGED worker
      BY <1>3, <2>2 DEF DecodePartition0
    <3>3. UNCHANGED call /\ status' # "WORK"
      BY <3>1, <3>2 DEF Reset, worker
    <3>4. CallsMade' /\ Waited'
      BY <3>1, <3>2, <3>3
    <3>5. torn' \in BOOLEAN /\ raced' \in BOOLEAN
      BY <1>3, <2>2, <3>1 DEF DecodePartition0
    <3>6. Launching'
      BY <1>3, <3>1, <3>2, <3>5 DEF DecodePartition0
    <3> QED  BY <3>3, <3>4, <3>6
  <2> QED  BY <2>1, <2>2
<1>4. CASE ParseModes
  BY <1>4 DEF ParseModes, Parsing, worker
<1>5. CASE DecodeMB
  BY <1>5 DEF DecodeMB, Parsing, worker
<1>6. CASE ProcessRow
  BY <1>6 DEF ProcessRow, Parsing, worker
<1>7. CASE ProcessRowSync
  BY <1>7 DEF ProcessRowSync, Parsing, Begin
<1>8. CASE ProcessRowLaunch
  <2>1. pc = "sync" /\ call = Out /\ status # "WORK"
    BY <1>8 DEF ProcessRowLaunch
  <2>2. CASE had_error
    <3>1. Fail /\ UNCHANGED worker
      BY <1>8, <2>2 DEF ProcessRowLaunch
    <3>2. UNCHANGED <<impl, status, call>>
      BY <3>1 DEF worker
    <3>3. pc' \in {"client", "exit critical", "clear"} /\ state' = "ERROR"
      BY <3>1
    <3>4. torn' \in BOOLEAN /\ raced' \in BOOLEAN
      BY <3>1
    <3> QED  BY <2>1, <3>2, <3>3, <3>4
  <2>3. CASE ~had_error
    BY <1>8, <2>1, <2>3 DEF ProcessRowLaunch, Begin
  <2> QED  BY <2>2, <2>3
<1>9. CASE NextRow
  BY <1>9 DEF NextRow, worker
<1>10. CASE Exited
  BY <1>10 DEF Exited, worker
<1>11. CASE Free
  BY <1>11 DEF Free, worker
<1>12. CASE pc # "client" /\ ExitCritical
  <2>1. BeginExit("exit") /\ (pc = "decode" => state = "VP8_DATA")
    BY <1>12 DEF ExitCritical
  <2>2. pc' = "exit" /\ pc \in {"decode", "exit critical"} /\ UNCHANGED <<state, torn, raced>>
    BY <1>12, <2>1 DEF ExitCritical, BeginExit
  <2>3. Launching'
    <3>1. impl' = impl
      BY <2>1 DEF BeginExit, Begin, worker
    <3> QED  BY <2>1, <2>2, <3>1
  <2>4. CASE impl
    <3>1. call' = [op |-> "Sync", at |-> "entering"] /\ UNCHANGED status
      BY <2>1, <2>4 DEF BeginExit, ExitNeedsNoSync, Begin
    <3>2. CallsMade' /\ Waited'
      BY <2>2, <3>1
    <3>3. OutputOutlivesJobs'
      BY <2>2, <3>1
    <3> QED  BY <2>3, <3>2, <3>3
  <2>5. CASE ~impl
    <3>1. call' = Out /\ status' = "NOT_OK"
      BY <2>1, <2>5 DEF BeginExit, ExitNeedsNoSync, worker
    <3> QED  BY <2>2, <2>3, <3>1
  <2> QED  BY <2>4, <2>5
<1>13. CASE pc # "client" /\ Clear
  BY <1>13 DEF Clear, Begin, worker
<1> QED  BY <1>1, <1>2, <1>3, <1>4, <1>5, <1>6, <1>7, <1>8, <1>9, <1>10, <1>11, <1>12,
            <1>13 DEF Decode

\* Elsewhere only the worker's calls and the job's own steps change the worker.
LEMMA OtherJobs == JobsInv /\ (InCall \/ Work \/ Spurious \/ UNCHANGED decoder) => DecoderSide'
<1> SUFFICES ASSUME JobsInv, InCall \/ Work \/ Spurious \/ UNCHANGED decoder PROVE DecoderSide'
  OBVIOUS
<1> USE DEF JobsInv, WInv, WorkerTypeOK, Phases, Ownership, Calls, Operations, CallsMade,
            Waited, Launching, BeforeData, OutputOutlivesJobs, DecoderSide, Out, At
<1>1. CASE InCall
  <2>1. CASE ChangeState
    BY <1>1, <2>1 DEF InCall, ChangeState, MustWait, input
  <2>2. CASE Join
    BY <1>1, <2>2 DEF InCall, Join, input
  <2> QED  BY <1>1, <2>1, <2>2 DEF InCall
<1>2. CASE Work
  <2>1. CASE Enter
    BY <1>2, <2>1 DEF Work, Enter, SignalledCall, input
  <2>2. CASE JobReconstruct
    BY <1>2, <2>2 DEF Work, JobReconstruct, worker, input
  <2>3. CASE JobEmit
    BY <1>2, <2>3 DEF Work, JobEmit, Executed, SignalledCall, input
  <2> QED  BY <1>2, <2>1, <2>2, <2>3 DEF Work
<1>3. CASE Spurious
  BY <1>3 DEF Spurious, CallerWakes, ThreadWakes, input
<1>4. CASE UNCHANGED decoder
  BY <1>4 DEF decoder, worker, input
<1> QED  BY <1>1, <1>2, <1>3, <1>4

THEOREM JobsInvariant == DSpec => []JobsInv
<1>1. DInit => JobsInv
  BY JobsInitially
<1>2. JobsInv /\ [DNext]_decoder => JobsInv'
  <2> SUFFICES ASSUME JobsInv, [DNext]_decoder PROVE JobsInv'
    OBVIOUS
  <2>1. WInv'
    BY KeepsToInterface, StepInvariant DEF JobsInv
  <2>2. DecoderSide'
    BY ClientJobs, DecodeJobs, OtherJobs DEF DNext
  <2> QED  BY <2>1, <2>2 DEF JobsInv, DecoderSide
<1> QED  BY <1>1, <1>2, PTL DEF DSpec

\* A signal is not missed in any decoding.
THEOREM DecoderWakes == DSpec => []NoLostWakeup
<1>1. JobsInv => NoLostWakeup  BY DEF JobsInv, WInv
<1> QED  BY JobsInvariant, <1>1, PTL

\* The data of a row belong to one thread at a time, in any decoding: parsing
\* never fills what a job still reads, and no row is skipped or done twice.
THEOREM DecoderUsesSlot == DSpec => SlotKept
<1>1. DInit => Slot!Init
  BY DEF DInit, WorkerInit, Slot!Init, Holder
<1>2. JobsInv /\ [DNext]_decoder => [Slot!Next]_(Slot!vars)
  BY KeepsToInterface, SlotStep DEF JobsInv
<1> QED  BY <1>1, <1>2, JobsInvariant, PTL DEF DSpec, SlotKept

\* The output is torn down when no job runs that would write to it, except by
\* an error found while the worker is busy.
THEOREM NoJobOutlives == DSpec => []OutputOutlivesJobs
<1>1. JobsInv => OutputOutlivesJobs  BY DEF JobsInv
<1> QED  BY JobsInvariant, <1>1, PTL

--------------------------------------------------------------------------------
(* The buffer and its readers *)

LEMMA Constants ==
    /\ HeaderSize \in Nat \ {0} /\ AlphaAt \in Nat \ {0} /\ Part0Size \in Nat \ {0}
    /\ ChunkSize \in Nat \ {0} /\ MBSize \in Nat \ {0} /\ AlphaAt < HeaderSize
    /\ MBWidth \in Nat \ {0} /\ MBHeight \in Nat \ {0}
  BY LayoutAssumption, SizeAssumption

LEMMA Ordered ==
    ASSUME NEW k \in Nat, NEW a \in Nat, NEW b \in Nat, a <= b
    PROVE  k * a \in Nat /\ k * a <= k * b
  OBVIOUS

\* The partitions lie in their order, behind partition 0 and the sizes.
LEMMA Layout ==
    ASSUME file \in Files
    PROVE  /\ LastPart \in Nat /\ FileSize \in Nat
           /\ TokensFrom \in Nat /\ TokensFrom >= HeaderSize + Part0Size
           /\ \A p \in Nat : PartStart(p) \in Nat /\ TokensFrom <= PartStart(p)
           /\ \A p, q \in Nat : p <= q => PartStart(p) <= PartStart(q)
<1>1. file.parts \in {1, 2, 4, 8}
  BY DEF Files
<1>2. LastPart \in Nat /\ TokensFrom \in Nat /\ TokensFrom >= HeaderSize + Part0Size
  BY <1>1, Constants DEF LastPart, TokensFrom
<1>3. RowSize \in Nat
  BY Constants DEF RowSize
<1>4. RowSize * MBHeight \in Nat
  BY <1>3, Constants
<1> DEFINE Before(p) == {r \in 0 .. MBHeight - 1 : r % file.parts < p}
<1>5. IsFiniteSet(0 .. MBHeight - 1)
  BY FS_Interval, Constants
<1>6. ASSUME NEW p \in Nat PROVE IsFiniteSet(Before(p)) /\ Cardinality(Before(p)) \in Nat
  <2>1. Before(p) \in SUBSET (0 .. MBHeight - 1)
    OBVIOUS
  <2>2. IsFiniteSet(Before(p))
    BY <2>1, <1>5, FS_Subset
  <2> QED  BY <2>2, FS_CardinalityType
<1>7. ASSUME NEW p \in Nat PROVE PartStart(p) \in Nat /\ TokensFrom <= PartStart(p)
  <2>1. RowSize * Cardinality(Before(p)) \in Nat
    <3> HIDE DEF Before
    <3> QED  BY <1>3, <1>6, Ordered
  <2>2. PartStart(p) = TokensFrom + RowSize * Cardinality(Before(p))
    BY DEF PartStart
  <2> HIDE DEF Before
  <2> QED  BY <2>1, <2>2, <1>2
<1>8. ASSUME NEW p \in Nat, NEW q \in Nat, p <= q PROVE PartStart(p) <= PartStart(q)
  <2>1. \A r \in 0 .. MBHeight - 1 : r % file.parts \in Nat
    BY <1>1
  <2>2. Before(p) \in SUBSET Before(q)
    BY <1>8, <2>1
  <2>3. Cardinality(Before(p)) <= Cardinality(Before(q))
    BY <2>2, <1>6, FS_Subset
  <2>4. RowSize * Cardinality(Before(p)) \in Nat /\ RowSize * Cardinality(Before(q)) \in Nat
    <3> HIDE DEF Before
    <3> QED  BY <1>3, <1>6, Ordered
  <2>5. /\ PartStart(p) = TokensFrom + RowSize * Cardinality(Before(p))
        /\ PartStart(q) = TokensFrom + RowSize * Cardinality(Before(q))
    BY DEF PartStart
  <2>6. Cardinality(Before(p)) \in Nat /\ Cardinality(Before(q)) \in Nat
    BY <1>6
  <2> HIDE DEF Before
  <2>7. RowSize * Cardinality(Before(p)) <= RowSize * Cardinality(Before(q))
    BY <2>3, <2>6, <1>3, Ordered
  <2> QED  BY <2>4, <2>5, <2>7, <1>2
<1>9. FileSize \in Nat
  BY <1>2, <1>4 DEF FileSize
<1> QED  BY <1>2, <1>7, <1>8, <1>9

LEMMA InputInitially == DInit => InputInv
<1> SUFFICES ASSUME DInit PROVE InputInv
  OBVIOUS
<1>1. PICK d \in Decodings : frame = d.frame /\ file = d.file /\ entry = d.entry
  BY DEF DInit
<1>2. file \in Files
  BY <1>1, LayoutAssumption
<1>3. InputTyping
  BY <1>2 DEF DInit, RowsInit, InputTyping, States
<1>4. Progress /\ Pointers
  BY DEF DInit, Progress, Pointers, Reading
<1> QED  BY <1>3, <1>4 DEF InputInv

\* What the input depends on of everything else.
LEMMA InputKept ==
    ASSUME InputInv, mb_y' \in Nat,
           UNCHANGED <<file, entry, mem, parts, part0, alpha_data>>,
           frame' = frame, alpha.decoded => alpha' = alpha,
           state' \in {"ERROR", "DONE", "DELETED", state}
    PROVE  InputInv'
<1>1. InputTyping'
  BY DEF InputInv, InputTyping, States
<1>2. Progress'
  BY DEF InputInv, Progress, LastPart
<1>3. Pointers'
  BY DEF InputInv, Pointers, WithinBuffer, NeedCompressedAlpha, Reading
<1> QED  BY <1>1, <1>2, <1>3 DEF InputInv

LEMMA AlphaGrows == \A r : alpha.decoded => DecompressAlphaRows(r) = alpha
  BY DEF DecompressAlphaRows

\* More data, in a buffer that is replaced or not: what has not been read moves
\* with it, and so does every reader.
LEMMA DataComes ==
    ASSUME InputInv, NEW n \in Nat, NEW buf \in Int, DoRemap(buf, mem.end + n),
           UNCHANGED <<rows, file, entry, state>>, state \in Reading \union {"WEBP_HEADER"},
           mem' \in [buf : Int, base : Nat, start : Nat, end : Nat, size : Nat],
           mem'.buf = buf, mem'.start = mem.start, mem'.end = mem.end + n,
           mem'.base <= mem'.start, mem'.start <= mem'.end,
           NeedCompressedAlpha => mem'.base \in {mem.base, AlphaAt}
    PROVE  InputInv'
<1>1. file \in Files /\ LastPart' = LastPart
  BY DEF InputInv, InputTyping, LastPart
<1>2. /\ DOMAIN parts' = DOMAIN parts
      /\ \A p \in DOMAIN parts :
            parts'[p] = [parts[p] EXCEPT !.buf = buf, !.end = IF p = LastPart THEN mem.end + n ELSE @]
  BY DEF DoRemap
<1>3. UNCHANGED <<mb_y, frame, alpha>>
  BY DEF rows
<1>4. part0' = [part0 EXCEPT !.buf = IF entry = "append" THEN @ ELSE buf]
  BY DEF DoRemap
<1>5. alpha_data' = IF NeedCompressedAlpha THEN buf ELSE alpha_data
  BY DEF DoRemap
<1>6. mem.end + n \in Nat
  BY DEF InputInv, InputTyping
<1>7. ASSUME NEW p \in DOMAIN parts
      PROVE  /\ parts'[p] \in [buf : Int, at : Nat, end : Nat]
             /\ WithinBuffer(parts[p])'
  <2>1. parts[p] \in [buf : Int, at : Nat, end : Nat] /\ WithinBuffer(parts[p])
    BY <1>7 DEF InputInv, InputTyping, Pointers
  <2>2. /\ parts'[p].buf = buf /\ parts'[p].at = parts[p].at
        /\ parts'[p].end = IF p = LastPart THEN mem.end + n ELSE parts[p].end
        /\ parts'[p] \in [buf : Int, at : Nat, end : Nat]
    BY <1>2, <1>6, <2>1
  <2>3. mem.end \in Nat
    BY DEF InputInv, InputTyping
  <2> QED  BY <2>1, <2>2, <2>3 DEF WithinBuffer
<1>8. InputTyping'
  BY <1>2, <1>3, <1>4, <1>7 DEF InputInv, InputTyping
<1>9. Progress'
  BY <1>1, <1>2 DEF InputInv, Progress, Reading
<1>10. Pointers'
  <2>1. \A p \in DOMAIN parts' : WithinBuffer(parts[p])'
    BY <1>2, <1>7
  <2>2. NeedCompressedAlpha' = NeedCompressedAlpha
    BY <1>3 DEF NeedCompressedAlpha
  <2>3. state \in Reading /\ NeedCompressedAlpha => mem'.base <= AlphaAt
    BY Constants DEF InputInv, Pointers
  <2>4. entry # "append" /\ state = "VP8_DATA" => part0'.buf = mem'.buf
    BY <1>4 DEF InputInv, InputTyping
  <2> QED  BY <1>5, <2>1, <2>2, <2>3, <2>4 DEF Pointers
<1> QED  BY <1>8, <1>9, <1>10 DEF InputInv

LEMMA ClientInput == InputInv /\ Client => InputInv'
<1> SUFFICES ASSUME InputInv, Client PROVE InputInv'
  OBVIOUS
<1>1. /\ mem \in [buf : Int, base : Nat, start : Nat, end : Nat, size : Nat]
      /\ mem.base <= mem.start /\ mem.start <= mem.end /\ file \in Files /\ state \in States /\ mb_y \in Nat
  BY DEF InputInv, InputTyping, Progress
<1>2. Accepts => state \in Reading \union {"WEBP_HEADER"}
  BY <1>1 DEF Accepts, States, Reading
<1>3. FileSize \in Nat
  BY <1>1, Layout
<1>4. ASSUME NEW n \in 1 .. FileSize, AppendData(n) PROVE InputInv'
  <2> DEFINE moves == mem.end - mem.base + n > mem.size
             base  == IF moves THEN KeptFrom ELSE mem.base
             needs == mem.end - base + n
             size  == ChunkSize * ((needs + ChunkSize - 1) \div ChunkSize)
             buf   == IF moves THEN 1 - mem.buf ELSE mem.buf
  <2>1. /\ mem' = [mem EXCEPT !.buf = buf, !.base = base, !.end = @ + n,
                              !.size = IF moves THEN size ELSE @]
        /\ DoRemap(buf, mem.end + n)
        /\ Accepts /\ UNCHANGED <<rows, file, entry, state>>
    BY <1>4 DEF AppendData
  <2>2. n \in Nat /\ buf \in Int
    BY <1>1, <1>3
  <2>3. base \in Nat /\ base <= mem.start
    <3>1. NeedCompressedAlpha /\ Accepts => mem.start >= HeaderSize
      BY <1>2, Constants DEF NeedCompressedAlpha, InputInv, Progress, Reading
    <3> QED  BY <1>1, <2>1, <3>1, Constants DEF KeptFrom
  <2>4. size \in Nat
    <3> HIDE DEF base
    <3>1. needs + ChunkSize - 1 \in Nat
      BY <1>1, <2>2, <2>3, Constants
    <3> HIDE DEF needs
    <3>2. (needs + ChunkSize - 1) \div ChunkSize \in Nat
      BY <3>1, Constants
    <3> QED  BY <3>2, Constants, Ordered
  <2>5. NeedCompressedAlpha => base \in {mem.base, AlphaAt}
    BY DEF KeptFrom
  <2>6. mem.end + n \in Nat /\ mem.size \in Nat
    BY <1>1, <2>2
  <2>7. moves \in BOOLEAN
    OBVIOUS
  <2> HIDE DEF moves, base, size, buf
  <2>8. /\ mem' \in [buf : Int, base : Nat, start : Nat, end : Nat, size : Nat]
        /\ mem'.buf = buf /\ mem'.start = mem.start /\ mem'.end = mem.end + n
        /\ mem'.base = base
    BY <1>1, <2>1, <2>2, <2>3, <2>4, <2>6
  <2>9. mem'.start <= mem'.end
    BY <1>1, <2>2, <2>8
  <2> QED  BY <1>2, <2>1, <2>2, <2>3, <2>5, <2>8, <2>9, DataComes
<1>5. ASSUME NEW n \in 1 .. FileSize, UpdateData(n) PROVE InputInv'
  <2>1. PICK buf \in {mem.buf, 1 - mem.buf} :
            /\ mem' = [mem EXCEPT !.buf = buf, !.end = @ + n, !.size = mem.end + n]
            /\ DoRemap(buf, mem.end + n)
    BY <1>5 DEF UpdateData
  <2>2. Accepts /\ UNCHANGED <<rows, file, entry, state>>
    BY <1>5 DEF UpdateData
  <2>3. n \in Nat /\ buf \in Int /\ mem.end + n \in Nat
    BY <1>1, <1>3
  <2>4. /\ mem' \in [buf : Int, base : Nat, start : Nat, end : Nat, size : Nat]
        /\ mem'.buf = buf /\ mem'.start = mem.start /\ mem'.end = mem.end + n
        /\ mem'.base = mem.base
    BY <1>1, <2>1, <2>3
  <2>5. mem'.start <= mem'.end
    BY <1>1, <2>3, <2>4
  <2> QED  BY <1>1, <1>2, <2>1, <2>2, <2>3, <2>4, <2>5, DataComes
<1>6. ASSUME NEW n \in 1 .. FileSize, DecodeData(n) PROVE InputInv'
  <2>1. /\ mem' = [mem EXCEPT !.end = n, !.size = n]
        /\ state = "WEBP_HEADER" /\ mem.end = 0
        /\ UNCHANGED <<rows, file, entry, state, parts, part0, alpha_data>>
    BY <1>6 DEF DecodeData
  <2> n \in Nat
    BY <1>3
  <2>2. /\ mem' \in [buf : Int, base : Nat, start : Nat, end : Nat, size : Nat]
        /\ mem'.buf = mem.buf /\ mem'.start = mem.start /\ mem'.base = mem.base
        /\ mem'.end = n
    BY <1>1, <2>1
  <2>3. UNCHANGED mb_y
    BY <2>1 DEF rows
  <2>4. InputTyping'
    BY <2>1, <2>2, <2>3 DEF InputInv, InputTyping
  <2>5. Progress'
    BY <2>1, <2>2 DEF InputInv, Progress
  <2>6. Pointers'
    <3>1. ASSUME NEW p \in DOMAIN parts' PROVE WithinBuffer(parts[p])'
      <4>1. WithinBuffer(parts[p]) /\ parts[p] \in [buf : Int, at : Nat, end : Nat]
        BY <2>1, <3>1 DEF InputInv, InputTyping, Pointers
      <4> QED  BY <1>1, <2>1, <2>2, <4>1 DEF WithinBuffer
    <3> QED  BY <2>1, <3>1 DEF Pointers, Reading
  <2> QED  BY <2>4, <2>5, <2>6 DEF InputInv
<1>7. CASE pc = "client" /\ (ExitCritical \/ Clear)
  <2>1. UNCHANGED <<rows, file, entry, state, mem, parts, part0, alpha_data>>
    BY <1>7 DEF ExitCritical, BeginExit, Clear
  <2> QED  BY <1>1, <2>1, InputKept DEF rows
<1> QED  BY <1>4, <1>5, <1>6, <1>7 DEF Client

LEMMA DecodeInput == InputInv /\ Decode => InputInv'
<1> SUFFICES ASSUME InputInv, Decode PROVE InputInv'
  OBVIOUS
<1>1. /\ mem \in [buf : Int, base : Nat, start : Nat, end : Nat, size : Nat]
      /\ part0 \in [buf : Int, rows : Nat]
      /\ file \in Files /\ state \in States /\ mb_y \in Nat
      /\ mem.base <= mem.start /\ mem.start <= mem.end
  BY DEF InputInv, InputTyping, Progress
<1>2. CASE DecodeHeaders
  <2>1. UNCHANGED <<mb_y, frame, alpha, file, entry, parts, part0>> /\ alpha_data' = mem.buf
    BY <1>2 DEF DecodeHeaders, rows
  <2>2. CASE MemDataSize < HeaderSize
    <3>1. mem' = mem /\ state' \in {"ERROR", state} /\ state = "WEBP_HEADER"
      BY <1>2, <2>2 DEF DecodeHeaders, Suspend
    <3> QED  BY <2>1, <3>1 DEF InputInv, InputTyping, States, Progress, LastPart, Pointers,
                              WithinBuffer, Reading
  <2>3. CASE ~(MemDataSize < HeaderSize)
    <3>1. /\ mem' = [mem EXCEPT !.start = @ + HeaderSize]
          /\ state = "WEBP_HEADER" /\ state' = "VP8_HEADER"
      BY <1>2, <2>3 DEF DecodeHeaders
    <3>2. /\ mem' \in [buf : Int, base : Nat, start : Nat, end : Nat, size : Nat]
          /\ mem'.start = HeaderSize /\ mem'.end = mem.end /\ mem'.buf = mem.buf /\ mem'.base = 0
      <4>1. mem.start = 0 /\ mem.base = 0
        BY <1>1, <3>1 DEF InputInv, Progress
      <4>2. HeaderSize \in Nat /\ mem.start + HeaderSize = HeaderSize
        BY <4>1, Constants
      <4> QED  BY <1>1, <3>1, <4>1, <4>2
    <3>3. HeaderSize <= mem.end
      BY <1>1, <2>3, <3>1, Constants DEF MemDataSize, InputInv, Progress
    <3>4. DOMAIN parts = {}
      BY <3>1 DEF InputInv, Progress
    <3>5. InputTyping' /\ Progress'
      BY <2>1, <3>1, <3>2, <3>3, <3>4, Constants DEF InputInv, InputTyping, States, Progress
    <3>6. Pointers'
      BY <2>1, <3>1, <3>2, <3>4, Constants DEF Pointers
    <3> QED  BY <3>5, <3>6 DEF InputInv
  <2> QED  BY <2>2, <2>3
<1>3. CASE DecodeVP8FrameHeader
  <2>1. UNCHANGED <<mb_y, frame, alpha, file, entry, mem, parts, part0, alpha_data>>
    BY <1>3 DEF DecodeVP8FrameHeader, rows
  <2>2. state = "VP8_HEADER" /\ state' \in {"ERROR", "VP8_HEADER", "VP8_PARTS0"}
    BY <1>3 DEF DecodeVP8FrameHeader, Suspend, Fail
  <2>3. CASE state' = "VP8_PARTS0"
    BY <2>1, <2>2, <2>3 DEF InputInv, InputTyping, States, Progress, LastPart, Pointers,
                            WithinBuffer, NeedCompressedAlpha, Reading
  <2> QED  BY <1>1, <2>1, <2>2, <2>3, InputKept
<1>4. CASE DecodePartition0
  <2>1. UNCHANGED <<mb_y, frame, alpha, file, entry, alpha_data>> /\ state = "VP8_PARTS0"
    BY <1>4 DEF DecodePartition0, rows
  <2>2. CASE ~HasPartitions
    <3>1. UNCHANGED <<mem, parts, part0>> /\ state' \in {"ERROR", state}
      BY <1>4, <2>2 DEF DecodePartition0, Suspend
    <3> QED  BY <1>1, <2>1, <3>1, InputKept
  <2>3. CASE HasPartitions
    <3>1. /\ mem' = [mem EXCEPT !.start = @ + Part0Size]
          /\ parts' = [p \in 0 .. LastPart |->
                            [buf |-> mem.buf, at |-> PartStart(p),
                             end |-> IF p = LastPart THEN mem.end ELSE PartStart(p + 1)]]
          /\ part0' = [buf |-> mem.buf, rows |-> 0]
          /\ state' \in {"VP8_DATA", "ERROR"}
      BY <1>4, <2>3 DEF DecodePartition0
    <3>2. /\ mem' \in [buf : Int, base : Nat, start : Nat, end : Nat, size : Nat]
          /\ mem'.start = HeaderSize + Part0Size /\ mem'.end = mem.end /\ mem'.buf = mem.buf
          /\ mem'.base = mem.base
      <4>1. mem.start = HeaderSize
        BY <2>1 DEF InputInv, Progress
      <4>2. HeaderSize + Part0Size \in Nat
        BY Constants
      <4> QED  BY <1>1, <3>1, <4>1, <4>2
    <3>3. mem'.start <= TokensFrom /\ mem.end > PartStart(LastPart)
      BY <1>1, <2>3, <3>2, Layout DEF HasPartitions
    <3>4. mem.base <= mem'.start /\ mem'.start <= mem.end
      BY <1>1, <2>1, <2>3, <3>2, Constants DEF HasPartitions, MemDataSize, InputInv, Progress
    <3>5. ASSUME NEW p \in DOMAIN parts'
          PROVE  parts'[p] \in [buf : Int, at : Nat, end : Nat] /\ WithinBuffer(parts[p])'
      <4>1. p \in 0 .. LastPart /\ p \in Nat /\ LastPart \in Nat /\ p + 1 \in Nat
        <5>1. DOMAIN parts' = 0 .. LastPart
          BY <3>1
        <5>2. LastPart \in Nat
          BY <1>1, Layout
        <5> QED  BY <3>5, <5>1, <5>2
      <4>2. /\ PartStart(p) \in Nat /\ PartStart(p + 1) \in Nat /\ PartStart(LastPart) \in Nat
            /\ TokensFrom <= PartStart(p) /\ TokensFrom \in Nat
            /\ PartStart(p) <= PartStart(p + 1) /\ PartStart(p) <= PartStart(LastPart)
        BY <1>1, <4>1, Layout
      <4>3. p # LastPart => PartStart(p + 1) <= PartStart(LastPart)
        BY <1>1, <4>1, Layout
      <4>4. parts'[p] = [buf |-> mem.buf, at |-> PartStart(p),
                         end |-> IF p = LastPart THEN mem.end ELSE PartStart(p + 1)]
        BY <3>1, <4>1
      <4>5. parts'[p].buf = mem.buf /\ parts'[p].at = PartStart(p)
            /\ parts'[p].end = IF p = LastPart THEN mem.end ELSE PartStart(p + 1)
        BY <4>4
      <4> HIDE DEF PartStart, TokensFrom
      <4>6. parts'[p] \in [buf : Int, at : Nat, end : Nat]
        BY <1>1, <4>2, <4>4
      <4> QED  BY <1>1, <3>2, <3>3, <4>2, <4>3, <4>5, <4>6 DEF WithinBuffer
    <3>6. InputTyping'
      BY <1>1, <2>1, <3>1, <3>2, <3>5 DEF InputTyping, States
    <3>7. Progress'
      BY <2>1, <3>1, <3>2, <3>4, Constants DEF Progress, LastPart
    <3>8. Pointers'
      <4>1. NeedCompressedAlpha => alpha_data = mem.buf /\ mem.base <= AlphaAt
        BY <2>1 DEF InputInv, Pointers, Reading
      <4>2. NeedCompressedAlpha' => NeedCompressedAlpha
        BY <2>1 DEF NeedCompressedAlpha
      <4> QED  BY <2>1, <3>1, <3>2, <3>5, <4>1, <4>2 DEF Pointers
    <3> QED  BY <3>6, <3>7, <3>8 DEF InputInv
  <2> QED  BY <2>2, <2>3
<1>5. CASE ParseModes
  <2>1. UNCHANGED <<mb_y, frame, alpha, file, entry, mem, parts, alpha_data>>
    BY <1>5 DEF ParseModes
  <2>2. state' \in {"ERROR", state} /\ part0' \in {part0, [part0 EXCEPT !.rows = @ + 1]}
    BY <1>5 DEF ParseModes, Fail
  <2>3. part0' \in [buf : Int, rows : Nat] /\ part0'.buf = part0.buf
    BY <1>1, <2>2
  <2> QED  BY <1>1, <2>1, <2>2, <2>3
           DEF InputInv, InputTyping, States, Progress, LastPart, Pointers, WithinBuffer,
               NeedCompressedAlpha, Reading
<1>6. CASE DecodeMB
  <2> DEFINE p      == mb_y % file.parts
             reader == parts[p]
             broken == file.broken = "tokens" /\ mb_y = BrokenRow
  <2>1. UNCHANGED <<mb_y, frame, alpha, file, entry, part0, alpha_data>> /\ state = "VP8_DATA"
    BY <1>6 DEF DecodeMB, Parsing
  <2>2. p \in 0 .. LastPart /\ file.parts \in {1, 2, 4, 8} /\ (file.parts = 1 => p = 0)
    BY <1>1 DEF Files, LastPart
  <2>3. DOMAIN parts = 0 .. LastPart
    BY <2>1 DEF InputInv, Progress
  <2>4. WithinBuffer(reader) /\ reader \in [buf : Int, at : Nat, end : Nat]
    BY <2>2, <2>3 DEF InputInv, InputTyping, Pointers
  <2>5. CASE reader.at + MBSize <= reader.end /\ ~broken
    <3>1. /\ parts' = [parts EXCEPT ![p].at = @ + MBSize]
          /\ mem' = IF file.parts = 1 THEN [mem EXCEPT !.start = reader.at + MBSize] ELSE mem
          /\ UNCHANGED state
      BY <1>6, <2>5 DEF DecodeMB
    <3> HIDE DEF p, reader, broken
    <3>2. reader.at + MBSize \in Nat
      BY <2>4, Constants
    <3>3. /\ mem' \in [buf : Int, base : Nat, start : Nat, end : Nat, size : Nat]
          /\ mem'.buf = mem.buf /\ mem'.base = mem.base /\ mem'.end = mem.end
          /\ mem'.start = IF file.parts = 1 THEN reader.at + MBSize ELSE mem.start
      BY <1>1, <3>1, <3>2
    <3>4. /\ mem.start <= mem'.start /\ mem'.start <= mem'.end
      BY <1>1, <2>4, <2>5, <3>2, <3>3, Constants DEF WithinBuffer
    <3>5. DOMAIN parts' = 0 .. LastPart
      BY <2>3, <3>1
    <3>6. /\ parts'[p] = [reader EXCEPT !.at = @ + MBSize]
          /\ \A q \in 0 .. LastPart : q # p => parts'[q] = parts[q]
      BY <2>2, <2>3, <3>1 DEF reader
    <3>7. ASSUME NEW q \in 0 .. LastPart
          PROVE  parts'[q] \in [buf : Int, at : Nat, end : Nat] /\ WithinBuffer(parts[q])'
      <4>1. CASE q = p
        <5>1. /\ parts'[q] \in [buf : Int, at : Nat, end : Nat]
              /\ parts'[q].buf = reader.buf /\ parts'[q].at = reader.at + MBSize
              /\ parts'[q].end = reader.end
          BY <2>4, <3>2, <3>6, <4>1
        <5> QED  BY <1>1, <2>4, <2>5, <3>2, <3>3, <5>1, Constants DEF WithinBuffer
      <4>2. CASE q # p
        <5>1. WithinBuffer(parts[q]) /\ parts[q] \in [buf : Int, at : Nat, end : Nat]
          BY <2>3 DEF InputInv, InputTyping, Pointers
        <5>2. file.parts # 1
          BY <2>2, <4>2 DEF LastPart
        <5> QED  BY <3>3, <3>6, <4>2, <5>1, <5>2 DEF WithinBuffer
      <4> QED  BY <4>1, <4>2
    <3>8. InputTyping'
      BY <1>1, <2>1, <3>1, <3>3, <3>5, <3>7 DEF InputInv, InputTyping
    <3>9. Progress'
      <4>1. mem.base <= mem.start /\ HeaderSize <= mem.start
        BY <1>1, <2>1 DEF InputInv, Progress
      <4>2. mem'.base <= mem'.start /\ HeaderSize <= mem'.start
        BY <1>1, <3>3, <3>4, <4>1, Constants
      <4>3. LastPart' = LastPart
        BY <2>1 DEF LastPart
      <4> QED  BY <2>1, <3>1, <3>4, <3>5, <4>2, <4>3 DEF Progress
    <3>10. Pointers'
      BY <2>1, <3>1, <3>3, <3>5, <3>7 DEF InputInv, Pointers, NeedCompressedAlpha
    <3> QED  BY <3>8, <3>9, <3>10 DEF InputInv
  <2>6. CASE ~(reader.at + MBSize <= reader.end /\ ~broken)
    <3>1. /\ state' \in {"ERROR", state} /\ UNCHANGED mem
          /\ parts' = [parts EXCEPT ![p] = RestoreContext(@)]
      BY <1>6, <2>6 DEF DecodeMB, Fail, Suspend
    <3> HIDE DEF p, reader, broken
    <3>2. DOMAIN parts' = DOMAIN parts /\ \A q \in DOMAIN parts : parts'[q] = parts[q]
      BY <3>1 DEF RestoreContext
    <3> QED  BY <1>1, <2>1, <3>1, <3>2
             DEF InputInv, InputTyping, States, Progress, LastPart, Pointers, WithinBuffer,
                 NeedCompressedAlpha, Reading
  <2> QED  BY <2>5, <2>6
<1>7. CASE ProcessRow
  <2>1. /\ UNCHANGED <<frame, file, entry, mem, parts, part0, alpha_data>>
        /\ mb_y' \in {mb_y, mb_y + 1} /\ state' \in {"ERROR", state}
    BY <1>7 DEF ProcessRow, Fail
  <2>2. alpha.decoded => alpha' = alpha
    BY <1>7, AlphaGrows DEF ProcessRow, FinishRowHere, EmitRow
  <2> QED  BY <1>1, <2>1, <2>2, InputKept
<1>8. CASE ProcessRowSync \/ ProcessRowLaunch
  <2>1. /\ UNCHANGED <<mb_y, frame, alpha, file, entry, mem, parts, part0, alpha_data>>
        /\ state' \in {"ERROR", state}
    BY <1>8 DEF ProcessRowSync, ProcessRowLaunch, HandOver, Fail, rows
  <2> QED  BY <1>1, <2>1, InputKept
<1>9. CASE NextRow
  <2>1. /\ UNCHANGED <<frame, alpha, file, entry, state, mem, parts, part0, alpha_data>>
        /\ mb_y' = mb_y + 1
    BY <1>9 DEF NextRow
  <2> QED  BY <1>1, <2>1, InputKept
<1>10. CASE Exited
  <2>1. /\ UNCHANGED <<mb_y, frame, alpha, file, entry, mem, parts, part0, alpha_data>>
        /\ state' \in {"ERROR", "DONE", state}
    BY <1>10 DEF Exited, rows
  <2> QED  BY <1>1, <2>1, InputKept
<1>11. CASE Free
  <2>1. /\ UNCHANGED <<mb_y, file, entry, mem, part0>>
        /\ state' = "DELETED" /\ DOMAIN parts' = {}
    BY <1>11 DEF Free, rows
  <2> QED  BY <2>1 DEF InputInv, InputTyping, States, Progress, Pointers, Reading
<1>12. CASE pc # "client" /\ (ExitCritical \/ Clear)
  <2>1. UNCHANGED <<rows, file, entry, state, mem, parts, part0, alpha_data>>
    BY <1>12 DEF ExitCritical, BeginExit, Clear
  <2> QED  BY <1>1, <2>1, InputKept DEF rows
<1> QED  BY <1>2, <1>3, <1>4, <1>5, <1>6, <1>7, <1>8, <1>9, <1>10, <1>11, <1>12 DEF Decode

LEMMA WorkInput == InputInv /\ (InCall \/ Work \/ Spurious \/ UNCHANGED decoder) => InputInv'
<1> SUFFICES ASSUME InputInv, InCall \/ Work \/ Spurious \/ UNCHANGED decoder PROVE InputInv'
  OBVIOUS
<1>1. UNCHANGED input
  BY DEF InCall, Work, Spurious, decoder
<1>2. UNCHANGED <<mb_y, frame>> /\ (alpha.decoded => alpha' = alpha)
  <2>1. CASE UNCHANGED rows
    BY <2>1 DEF rows
  <2>2. CASE JobReconstruct
    BY <2>2 DEF JobReconstruct
  <2>3. CASE JobEmit
    BY <2>3, AlphaGrows DEF JobEmit, EmitRow
  <2> QED  BY <2>1, <2>2, <2>3 DEF InCall, Work, Spurious, decoder
<1>3. mb_y \in Nat
  BY DEF InputInv, InputTyping
<1> QED  BY <1>1, <1>2, <1>3, InputKept DEF input

THEOREM InputInvariant == DSpec => []InputInv
<1>1. DInit => InputInv
  BY InputInitially
<1>2. InputInv /\ [DNext]_decoder => InputInv'
  BY ClientInput, DecodeInput, WorkInput DEF DNext
<1> QED  BY <1>1, <1>2, PTL DEF DSpec

\* However the input buffer grows or moves, every reader stays within it, and
\* nothing that is yet to be read is dropped, compressed alpha included.
THEOREM ReadersFollow == DSpec => []ReadersCurrent
<1>1. InputInv => ReadersCurrent
  BY DEF InputInv, Progress, Pointers, WithinBuffer, Reading, ReadersCurrent
<1> QED  BY InputInvariant, <1>1, PTL

--------------------------------------------------------------------------------
(* The rows *)

\* The frame, as the options and the file give it.
FrameFits ==
    /\ frame \in Frames
    /\ frame.crop_top < frame.crop_bottom /\ frame.crop_bottom <= 16 * MBHeight

\* The calls of a decoder whose rows are being parsed.
InRows == state = "VP8_DATA" /\ pc \in {"client", "decode", "sync", "launch", "exit", "delete"}

\* How many rows the jobs have put out, where the cache takes the next one, and
\* how far the output goes after r rows.
Emitted == IF ctx.at = "none" THEN ctx.mb_y + 1 ELSE ctx.mb_y
NextId(id) == IF id + 1 = NumCaches THEN 0 ELSE id + 1
NextSlot == IF ctx.at = "none" THEN cache_id ELSE ctx.id
OutputEnd(r) == IF r = 0 THEN 0 ELSE EndLine(r - 1)

\* What row r, which goes to slot id, needs of the cache c: the last lines of a
\* row above that was filtered, as its filter left them.
KeptAbove(c, r, id) ==
    0 < r /\ r < BottomRow /\ r > FirstFilteredRow =>
        \A k \in 1 .. ExtraRows : c[16 * id - k] = [line |-> 16 * r - k, stage |-> "filtered"]

RawLines(c, r, id) ==
    \A p \in Span(id) : c[p] = [line |-> 16 * r + p - 16 * id, stage |-> "raw"]

\* Exactly the lines of the rows put out are there, and right.
PutOut(r) ==
    \A y \in CropLines : IF y < OutputEnd(r) THEN RightLine(y) ELSE EmptyLine(y)

AlphaSoFar(r) ==
    frame.alpha = "good" =>
        alpha.lines = OutputEnd(r) /\ (alpha.decoded <=> OutputEnd(r) >= frame.crop_bottom)

Lines ==
    frame.alpha # "bad" =>
        /\ PutOut(Emitted) /\ AlphaSoFar(Emitted)
        /\ KeptAbove(cache, Emitted, NextSlot)
        /\ ctx.at = "emit" => RawLines(cache, ctx.mb_y, ctx.id)

\* With alpha data that are broken the first row's job fails, and none follows.
NoLines ==
    frame.alpha = "bad" =>
        /\ \A y \in CropLines : EmptyLine(y)
        /\ ~ alpha.decoded
        /\ ctx.mb_y \in {-1, 0}
        /\ ctx.mb_y = 0 /\ ctx.at = "none" =>
              IF frame.threads THEN had_error ELSE state \in {"ERROR", "DELETED"}

\* The two sets of a row's data: the job has one, parsing the other.
Sets ==
    /\ DOMAIN blocks = 0 .. 1 /\ DOMAIN infos = 0 .. 1
    /\ mb_data \in 0 .. 1 /\ f_info \in 0 .. 1
    /\ ctx \in [mb_y : Nat \union {-1}, id : 0 .. NumCaches - 1, filter_row : BOOLEAN,
               mb_data : 0 .. 1, f_info : 0 .. 1, at : {"none", "begin", "emit"}]
    /\ cache_id = IF ctx.mb_y = -1 THEN 0 ELSE NextId(ctx.id)
    /\ impl => /\ frame.threads
               /\ ctx.mb_data = 1 - mb_data /\ ctx.f_info = 1 - f_info
    /\ InRows /\ frame.threads => impl
    /\ ~frame.threads => /\ mb_data = 0 /\ f_info = 0 /\ ctx.mb_data = 0 /\ ctx.f_info = 0
                         /\ ctx.at = "none"

JobData ==
    ctx.at # "none" =>
        /\ ctx.mb_y \in 0 .. MBHeight - 1
        /\ ctx.filter_row = FiltersRow(ctx.mb_y)
        /\ ctx.at = "begin" => Whole(blocks[ctx.mb_data], ctx.mb_y)
        /\ ctx.filter_row => Whole(infos[ctx.f_info], ctx.mb_y)
        /\ status = "WORK" \/ call.op = "Launch"

\* Where the readers of the partitions are, x macroblocks into row y.
ReaderAt(q, y, x) ==
    PartStart(q) + RowSize * ((y + file.parts - 1 - q) \div file.parts)
       + (IF q = y % file.parts THEN MBSize * x ELSE 0)

HeldTo(y, x) ==
    /\ blocks[mb_data] = [row |-> y, count |-> x]
    /\ x > 0 => infos[f_info] = [row |-> y, count |-> x]

AllOut == frame.alpha # "bad" /\ ctx.at = "none" /\ ctx.mb_y = EndRow - 1

Rows ==
    /\ state \in BeforeData =>
          /\ mb_y = 0 /\ mb_x = 0 /\ last_mb_y = -1 /\ ctx.mb_y = -1 /\ ctx.at = "none"
          /\ mb_data = 0 /\ f_info = 0 /\ ~had_error
          /\ pc \in {"client", "decode", "clear", "freeing"}
    /\ pc = "exit critical" => state = "ERROR"
    /\ pc = "exit" => state \in {"VP8_DATA", "ERROR"}
    /\ InRows =>
          /\ mb_y \in 0 .. EndRow /\ mb_x \in 0 .. MBWidth
          /\ ctx.mb_y = IF pc = "launch" THEN mb_y ELSE mb_y - 1
          /\ part0.rows = last_mb_y + 1 /\ last_mb_y \in {mb_y - 1, mb_y}
          /\ last_mb_y # mb_y => mb_x = 0
          /\ pc = "exit" => mb_y = EndRow
          /\ pc \in {"sync", "launch"} => mb_y < EndRow /\ mb_x = 0 /\ last_mb_y = mb_y
          /\ pc = "sync" => HeldTo(mb_y, MBWidth)
          /\ pc \notin {"sync", "launch"} /\ last_mb_y = mb_y => HeldTo(mb_y, mb_x)
          /\ \A q \in 0 .. LastPart :
                parts[q].at = IF pc \in {"sync", "launch"} THEN ReaderAt(q, mb_y + 1, 0)
                              ELSE ReaderAt(q, mb_y, mb_x)
    /\ state = "DONE" => AllOut

RowsInv == FrameFits /\ Lines /\ NoLines /\ Sets /\ JobData /\ Rows

\* The first and the last row that the filter needs.
LEMMA FirstOf ==
    ASSUME NEW a \in Nat, NEW e \in {0, 2, 8}
    PROVE  /\ GreatestOf(0, (a - e) \div 16) \in Nat
           /\ \/ GreatestOf(0, (a - e) \div 16) = 0
              \/ 16 * GreatestOf(0, (a - e) \div 16) + e <= a
<1>1. PICK q \in Int : q = (a - e) \div 16
  OBVIOUS
<1>2. 16 * q + e <= a
  BY <1>1
<1> QED  BY <1>1, <1>2 DEF GreatestOf

LEMMA BottomOf ==
    ASSUME NEW a \in Nat \ {0}, NEW e \in {0, 2, 8}, NEW n \in Nat \ {0}
    PROVE  /\ LeastOf(n, (a + 15 + e) \div 16) \in 1 .. n
           /\ \/ LeastOf(n, (a + 15 + e) \div 16) = n
              \/ 16 * LeastOf(n, (a + 15 + e) \div 16) >= a + e
<1>1. PICK q \in Int : q = (a + 15 + e) \div 16
  OBVIOUS
<1>2. q >= 1 /\ 16 * q >= a + e
  BY <1>1
<1> QED  BY <1>1, <1>2 DEF LeastOf

\* The row a line belongs to, and its place there.
LEMMA LineOf ==
    ASSUME NEW r \in Nat, NEW y \in Nat, 16 * r - 8 <= y, y < 16 * r + 16
    PROVE  /\ y % 16 = IF y < 16 * r THEN y - 16 * r + 16 ELSE y - 16 * r
           /\ y \div 16 = IF y < 16 * r THEN r - 1 ELSE r
<1>1. CASE y < 16 * r
  <2>1. PICK j \in 0 .. 15 : y = 16 * (r - 1) + j
    <3>1. y - 16 * (r - 1) \in 0 .. 15
      BY <1>1
    <3> QED  BY <3>1
  <2> QED  BY <1>1, <2>1
<1>2. CASE ~(y < 16 * r)
  <2>1. PICK j \in 0 .. 15 : y = 16 * r + j
    <3>1. y - 16 * r \in 0 .. 15
      BY <1>2
    <3> QED  BY <3>1
  <2> QED  BY <1>2, <2>1
<1> QED  BY <1>1, <1>2

\* What the kinds of filter and the cropping area say of the rows.
LEMMA Geometry ==
    ASSUME FrameFits
    PROVE  /\ MBHeight \in Nat \ {0}
           /\ frame.crop_top \in Nat /\ frame.crop_bottom \in Nat /\ frame.crop_bottom > 0
           /\ FirstFilteredRow \in Nat /\ BottomRow \in 1 .. MBHeight
           /\ BottomRow = MBHeight \/ 16 * BottomRow >= frame.crop_bottom + ExtraRows
           /\ NumCaches \in 1 .. 3 /\ (~frame.threads => NumCaches = 1)
           /\ ReadAcross = ExtraRows
           /\ \/ frame.filter_type = 0 /\ ExtraRows = 0 /\ Changed = 0
              \/ /\ frame.filter_type = 1 /\ ExtraRows = 2 /\ Changed = 1 /\ Influenced = 1
                 /\ FirstFilteredRow = 0 \/ 16 * FirstFilteredRow + 2 <= frame.crop_top
              \/ /\ frame.filter_type = 2 /\ ExtraRows = 8 /\ Changed = 6 /\ Influenced = 16
                 /\ FirstFilteredRow = 0
<1> USE SizeAssumption DEF FrameFits, Frames
<1>1. /\ frame.crop_top \in Nat /\ frame.crop_bottom \in Nat /\ frame.crop_bottom > 0
      /\ frame.filter_type \in {0, 1, 2} /\ frame.threads \in BOOLEAN
  OBVIOUS
<1>2. /\ \/ frame.filter_type = 0 /\ ExtraRows = 0 /\ Changed = 0 /\ ReadAcross = 0
         \/ /\ frame.filter_type = 1 /\ ExtraRows = 2 /\ Changed = 1 /\ Influenced = 1
            /\ ReadAcross = 2
         \/ /\ frame.filter_type = 2 /\ ExtraRows = 8 /\ Changed = 6 /\ Influenced = 16
            /\ ReadAcross = 8
      /\ NumCaches \in 1 .. 3 /\ (~frame.threads => NumCaches = 1)
  BY <1>1 DEF ExtraRows, Changed, ReadAcross, Influenced, NumCaches
<1>5. /\ FirstFilteredRow \in Nat
      /\ frame.filter_type = 2 => FirstFilteredRow = 0
      /\ frame.filter_type = 1 => FirstFilteredRow = 0 \/ 16 * FirstFilteredRow + 2 <= frame.crop_top
  BY <1>1, <1>2, FirstOf DEF FirstFilteredRow
<1>6. BottomRow \in 1 .. MBHeight
      /\ (BottomRow = MBHeight \/ 16 * BottomRow >= frame.crop_bottom + ExtraRows)
  <2>1. ExtraRows \in {0, 2, 8} /\ frame.crop_bottom \in Nat \ {0} /\ MBHeight \in Nat \ {0}
    BY <1>1, <1>2
  <2> QED  BY ONLY <2>1, BottomOf DEF BottomRow
<1> QED  BY <1>1, <1>2, <1>5, <1>6

\* The output goes on where it ended, up to the area's bottom.
LEMMA OutputGoesOn ==
    ASSUME FrameFits, NEW r \in 0 .. MBHeight - 1
    PROVE  /\ OutputEnd(r) \in Nat /\ EndLine(r) \in Nat /\ FirstLine(r) \in Int
           /\ OutputEnd(r + 1) = EndLine(r) /\ EndLine(r) <= frame.crop_bottom
           /\ IF FirstLine(r) < EndLine(r) THEN OutputEnd(r) = FirstLine(r)
              ELSE OutputEnd(r) = EndLine(r) /\ EndLine(r) = frame.crop_bottom /\ r > 0
           /\ FirstLine(r) < EndLine(r) => r < BottomRow
           /\ r + 1 >= BottomRow => EndLine(r) = frame.crop_bottom
<1> DEFINE full == 16 * (r + 1)
           less == 16 * (r + 1) - ExtraRows
<1>1. /\ r \in Nat /\ MBHeight \in Nat /\ r < MBHeight
      /\ ExtraRows \in {0, 2, 8} /\ frame.crop_bottom \in Nat \ {0} /\ BottomRow \in 1 .. MBHeight
      /\ BottomRow = MBHeight \/ 16 * BottomRow >= frame.crop_bottom + ExtraRows
      /\ frame.crop_bottom <= 16 * MBHeight
  BY Geometry DEF FrameFits
<1>2. EndLine(r) = IF r + 1 >= BottomRow THEN LeastOf(frame.crop_bottom, 16 * r + 16)
                   ELSE LeastOf(frame.crop_bottom, 16 * r + 16 - ExtraRows)
  BY <1>1 DEF EndLine, IsLastRow
<1>3. r > 0 => OutputEnd(r) = IF r >= BottomRow THEN LeastOf(frame.crop_bottom, 16 * r)
                              ELSE LeastOf(frame.crop_bottom, 16 * r - ExtraRows)
  BY <1>1 DEF OutputEnd, EndLine, IsLastRow
<1>4. OutputEnd(r + 1) = EndLine(r)
  BY <1>1 DEF OutputEnd
<1>5. FirstLine(r) = IF r = 0 THEN 0 ELSE 16 * r - ExtraRows
  BY DEF FirstLine
<1>6. r = 0 => OutputEnd(r) = 0
  BY DEF OutputEnd
<1> QED  BY <1>1, <1>2, <1>3, <1>4, <1>5, <1>6 DEF LeastOf

\* After the filter, whether the row goes through it or not: the lines that are
\* put out are as they should be, and so are those that are kept for the next row.
LEMMA FilteredLines ==
    ASSUME FrameFits, NEW r \in 0 .. MBHeight - 1, NEW id \in 0 .. NumCaches - 1, NEW c,
           KeptAbove(c, r, id), RawLines(c, r, id),
           FiltersRow(r) => Whole(infos[ctx.f_info], r),
           NEW f, f = IF FiltersRow(r) THEN FilterRow(c, r, id) ELSE c
    PROVE  /\ \A y \in CropLines :
                 FirstLine(r) <= y /\ y < EndLine(r) => f[y - 16 * r + 16 * id] = Finished(y)
           /\ r + 1 < BottomRow /\ r + 1 > FirstFilteredRow =>
                 \A k \in 1 .. ExtraRows :
                     f[16 * id + 16 - k] = [line |-> 16 * r + 16 - k, stage |-> "filtered"]
<1>1. id \in 0 .. 2 /\ r \in Nat /\ MBHeight \in Nat
  BY Geometry
<1>2. \A y \in CropLines : y \in Int /\ frame.crop_top <= y /\ y < frame.crop_bottom
  BY Geometry DEF CropLines
<1>3. \A j \in 0 .. 15 : c[16 * id + j] = [line |-> 16 * r + j, stage |-> "raw"]
  <2> SUFFICES ASSUME NEW j \in 0 .. 15
               PROVE  c[16 * id + j] = [line |-> 16 * r + j, stage |-> "raw"]
    OBVIOUS
  <2>1. 16 * id + j \in Span(id)
    BY <1>1 DEF Span
  <2>2. c[16 * id + j] = [line |-> 16 * r + (16 * id + j) - 16 * id, stage |-> "raw"]
    BY <2>1 DEF RawLines
  <2>3. 16 * r + (16 * id + j) - 16 * id = 16 * r + j
    BY <1>1
  <2> QED  BY <2>2, <2>3
<1>4. /\ \A j \in 0 .. 15 : 16 * id + j \in CacheLines /\ 16 * id + j \in Span(id)
      /\ \A k \in 1 .. 8 : 16 * id - k \in CacheLines /\ 16 * id - k \notin Span(id)
  BY <1>1 DEF CacheLines, Span
<1>5. \A y \in CropLines :
         FirstLine(r) <= y /\ y < EndLine(r) =>
            /\ y % 16 = IF y < 16 * r THEN y - 16 * r + 16 ELSE y - 16 * r
            /\ y \div 16 = IF y < 16 * r THEN r - 1 ELSE r
  <2> SUFFICES ASSUME NEW y \in CropLines, FirstLine(r) <= y, y < EndLine(r)
               PROVE  /\ y % 16 = IF y < 16 * r THEN y - 16 * r + 16 ELSE y - 16 * r
                      /\ y \div 16 = IF y < 16 * r THEN r - 1 ELSE r
    OBVIOUS
  <2>1. y \in Nat /\ 16 * r - 8 <= y /\ y < 16 * r + 16
    BY <1>1, <1>2, Geometry DEF FirstLine, EndLine, LeastOf
  <2> QED  BY <1>1, <2>1, LineOf
<1>6. CASE frame.filter_type = 0
  <2>1. ~FiltersRow(r) /\ ExtraRows = 0 /\ f = c
    BY <1>6, Geometry DEF FiltersRow
  <2>2. ASSUME NEW y \in CropLines, FirstLine(r) <= y, y < EndLine(r)
        PROVE  f[y - 16 * r + 16 * id] = Finished(y)
    <3>1. y - 16 * r \in 0 .. 15 /\ y \in Int
      BY <1>1, <1>2, <2>1, <2>2, Geometry DEF FirstLine, EndLine, LeastOf
    <3>2. PICK j \in 0 .. 15 : j = y - 16 * r
      BY <3>1
    <3>3. y - 16 * r + 16 * id = 16 * id + j /\ 16 * r + j = y
      BY <1>1, <3>1, <3>2
    <3> QED  BY <1>3, <1>6, <2>1, <3>3 DEF Finished
  <2> QED  BY <2>1, <2>2
<1> DEFINE above == \A k \in 1 .. ReadAcross :
                       c[16 * id - k] = [line |-> 16 * r - k, stage |-> "filtered"]
<1>7. ASSUME FiltersRow(r), NEW j \in 0 .. 15, r = 0 \/ above \/ j >= Influenced
      PROVE  f[16 * id + j] = [line |-> 16 * r + j, stage |-> "filtered"]
  <2> DEFINE p == 16 * id + j
  <2>1. f = FilterRow(c, r, id) /\ Whole(infos[ctx.f_info], r)
    BY <1>7
  <2>2. p \in CacheLines /\ p \in Span(id) /\ p - 16 * id = j
    BY <1>1, <1>4
  <2>3. c[p] = [line |-> 16 * r + j, stage |-> "raw"]
    BY <1>3
  <2> HIDE DEF p
  <2>4. f[p] = [c[p] EXCEPT !.stage = "filtered"]
    BY <1>7, <2>1, <2>2, <2>3 DEF FilterRow
  <2> QED  BY <2>3, <2>4 DEF p
<1>8. ASSUME FiltersRow(r), r > 0, above, NEW k \in 1 .. ReadAcross
      PROVE  f[16 * id - k] = [line |-> 16 * r - k,
                               stage |-> IF k <= Changed THEN "final" ELSE "filtered"]
  <2> DEFINE p == 16 * id - k
  <2>1. f = FilterRow(c, r, id) /\ Whole(infos[ctx.f_info], r)
    BY <1>8
  <2>2. k \in 1 .. 8
    BY Geometry
  <2>3. p \in CacheLines /\ p \notin Span(id)
    BY <1>4, <2>2
  <2>4. p \in 16 * id - Changed .. 16 * id - 1 <=> k <= Changed
    BY <1>1, <2>2, Geometry
  <2>5. c[p] = [line |-> 16 * r - k, stage |-> "filtered"]
    BY <1>8
  <2> HIDE DEF p
  <2>6. f[p] = IF k <= Changed THEN [c[p] EXCEPT !.stage = "final"] ELSE c[p]
    BY <1>8, <2>1, <2>3, <2>4 DEF FilterRow
  <2> QED  BY <2>5, <2>6 DEF p
<1>9. r > 0 /\ r < BottomRow /\ r > FirstFilteredRow => above
  BY Geometry DEF KeptAbove
<1>10. ASSUME NEW y \in CropLines, FirstLine(r) <= y, y < EndLine(r), frame.filter_type # 0
       PROVE  f[y - 16 * r + 16 * id] = Finished(y)
  <2> HIDE DEF above
  <2>1. r < BottomRow /\ EndLine(r) <= frame.crop_bottom
    BY <1>1, <1>2, <1>10, OutputGoesOn
  <2>2. y \in Int /\ frame.crop_top <= y /\ y < frame.crop_bottom
    BY <1>2
  <2>3. r >= FirstFilteredRow
    <3>1. y < 16 * r + 16
      BY <1>1, <1>10, <2>2, Geometry DEF EndLine, LeastOf
    <3> QED  BY <1>1, <1>10, <2>2, <3>1, Geometry
  <2>4. FiltersRow(r)
    BY <1>1, <1>10, <2>1, <2>3, Geometry DEF FiltersRow
  <2>5. CASE y < 16 * r
    <3>1. PICK k \in 1 .. ReadAcross : k = 16 * r - y
      BY <1>1, <1>10, <2>2, <2>5, Geometry DEF FirstLine
    <3>2. r > 0 /\ above
      <4>1. r > FirstFilteredRow
        BY <1>1, <1>10, <2>2, <2>3, <2>5, Geometry
      <4>2. r > 0
        BY <1>1, <4>1, Geometry
      <4> QED  BY <2>1, <4>1, <4>2, <1>9
    <3>3. k \in Int /\ y - 16 * r + 16 * id = 16 * id - k /\ 16 * r - k = y
      BY <1>1, <2>2, <3>1, Geometry
    <3>4. f[16 * id - k] = [line |-> 16 * r - k,
                            stage |-> IF k <= Changed THEN "final" ELSE "filtered"]
      BY <1>8, <2>4, <3>2
    <3>5. y % 16 = 16 - k /\ y \div 16 = r - 1
      BY <1>1, <1>5, <1>10, <2>2, <2>5, <3>1, <3>3
    <3>6. y % 16 >= 16 - Changed /\ y \div 16 < MBHeight - 1 <=> k <= Changed
      BY <1>1, <3>3, <3>5, Geometry
    <3> QED  BY <1>10, <3>3, <3>4, <3>6 DEF Finished
  <2>6. CASE ~(y < 16 * r)
    <3>1. PICK j \in 0 .. 15 : j = y - 16 * r
      <4>1. y < 16 * r + 16
        BY <1>1, <1>10, <2>2, Geometry DEF EndLine, LeastOf
      <4>2. y - 16 * r \in 0 .. 15
        BY <1>1, <2>2, <2>6, <4>1
      <4> QED  BY <4>2
    <3>2. r = 0 \/ above \/ j >= Influenced
      <4>1. CASE r > FirstFilteredRow
        BY <1>1, <1>9, <2>1, <4>1, Geometry
      <4>2. CASE r = FirstFilteredRow /\ r > 0
        BY <1>1, <1>10, <2>2, <3>1, <4>2, Geometry
      <4> QED  BY <1>1, <2>3, <4>1, <4>2, Geometry
    <3>3. y - 16 * r + 16 * id = 16 * id + j /\ 16 * r + j = y
      BY <1>1, <2>2, <3>1
    <3>4. f[16 * id + j] = [line |-> 16 * r + j, stage |-> "filtered"]
      BY <1>7, <2>4, <3>2
    <3>5. ~(y % 16 >= 16 - Changed /\ y \div 16 < MBHeight - 1)
      <4>1. y % 16 = j /\ y \div 16 = r
        BY <1>1, <1>5, <1>10, <2>2, <2>6, <3>1
      <4>2. CASE r + 1 < BottomRow
        <5>1. j < 16 - ExtraRows
          BY <1>1, <1>10, <2>2, <3>1, <4>2, Geometry DEF EndLine, IsLastRow, LeastOf
        <5> QED  BY <4>1, <5>1, Geometry
      <4>3. CASE r + 1 = BottomRow
        BY <1>1, <2>2, <3>1, <4>1, <4>3, Geometry
      <4> QED  BY <1>1, <2>1, <4>2, <4>3, Geometry
    <3> QED  BY <1>10, <3>3, <3>4, <3>5 DEF Finished
  <2> QED  BY <2>5, <2>6
<1>11. ASSUME r + 1 < BottomRow, r + 1 > FirstFilteredRow, NEW k \in 1 .. ExtraRows
       PROVE  f[16 * id + 16 - k] = [line |-> 16 * r + 16 - k, stage |-> "filtered"]
  <2> HIDE DEF above
  <2>1. k \in 1 .. 8 /\ frame.filter_type # 0
    BY <1>11, Geometry
  <2>2. FiltersRow(r)
    BY <1>1, <1>11, <2>1, Geometry DEF FiltersRow
  <2>3. PICK j \in 0 .. 15 : j = 16 - k
    BY <2>1
  <2>4. r = 0 \/ above \/ j >= Influenced
    <3>1. CASE r > FirstFilteredRow
      BY <1>1, <1>9, <1>11, <3>1, Geometry
    <3>2. CASE r = FirstFilteredRow /\ r > 0
      BY <1>1, <1>11, <2>3, <3>2, Geometry
    <3> QED  BY <1>1, <1>11, <3>1, <3>2, Geometry
  <2>5. 16 * id + 16 - k = 16 * id + j /\ 16 * r + 16 - k = 16 * r + j
    BY <1>1, <2>1, <2>3
  <2> QED  BY <1>7, <2>2, <2>4, <2>5
<1> QED  BY <1>6, <1>10, <1>11

\* All that is said of the frame stays so.
LEMMA FrameKept ==
    ASSUME frame' = frame
    PROVE  /\ FrameFits => FrameFits'
           /\ CropLines' = CropLines /\ BottomRow' = BottomRow /\ ExtraRows' = ExtraRows
           /\ FirstFilteredRow' = FirstFilteredRow /\ NumCaches' = NumCaches
           /\ \A r : FiltersRow(r)' = FiltersRow(r) /\ OutputEnd(r)' = OutputEnd(r)
           /\ \A y : Finished(y)' = Finished(y)
           /\ \A id : NextId(id)' = NextId(id)
<1>1. ExtraRows' = ExtraRows /\ NumCaches' = NumCaches /\ CropLines' = CropLines
  BY DEF ExtraRows, NumCaches, CropLines
<1>2. FirstFilteredRow' = FirstFilteredRow /\ BottomRow' = BottomRow
  BY <1>1 DEF FirstFilteredRow, BottomRow
<1>3. \A r : EndLine(r)' = EndLine(r)
  BY <1>1, <1>2 DEF EndLine, IsLastRow
<1>4. \A r : FiltersRow(r)' = FiltersRow(r) /\ OutputEnd(r)' = OutputEnd(r)
  BY <1>2, <1>3 DEF FiltersRow, OutputEnd
<1>5. \A y : Finished(y)' = Finished(y)
  BY DEF Finished, Changed
<1> QED  BY <1>1, <1>2, <1>4, <1>5 DEF FrameFits, NextId

\* A row put out: with those before it, it makes the output that it should, and
\* leaves the cache as the next row needs it.
LEMMA RowPutOut ==
    ASSUME FrameFits, frame' = frame, frame.alpha # "bad",
           NEW r \in 0 .. MBHeight - 1, NEW id \in 0 .. NumCaches - 1, NEW c,
           KeptAbove(c, r, id), RawLines(c, r, id),
           FiltersRow(r) => Whole(infos[ctx.f_info], r),
           PutOut(r), AlphaSoFar(r), EmitRow(c, r, id, FiltersRow(r))
    PROVE  /\ PutOut(r + 1)' /\ AlphaSoFar(r + 1)'
           /\ KeptAbove(cache, r + 1, NextId(id))'
<1> DEFINE f == IF FiltersRow(r) THEN FilterRow(c, r, id) ELSE c
<1>1. /\ alpha' = DecompressAlphaRows(r) /\ picture' = Put(f, r, id)
      /\ cache' = Rotated(f, id, r)
  BY DEF EmitRow, AlphaFails
<1>2. /\ \A y \in CropLines :
            FirstLine(r) <= y /\ y < EndLine(r) => f[y - 16 * r + 16 * id] = Finished(y)
      /\ r + 1 < BottomRow /\ r + 1 > FirstFilteredRow =>
            \A k \in 1 .. ExtraRows :
                f[16 * id + 16 - k] = [line |-> 16 * r + 16 - k, stage |-> "filtered"]
  <2> HIDE DEF f
  <2>1. f = IF FiltersRow(r) THEN FilterRow(c, r, id) ELSE c
    BY DEF f
  <2> QED  BY <2>1, FilteredLines
<1> HIDE DEF f
<1>3. /\ r \in Nat /\ id \in 0 .. 2 /\ NumCaches \in 1 .. 3 /\ ExtraRows \in {0, 2, 8}
      /\ FirstFilteredRow \in Nat /\ BottomRow \in Nat /\ frame.crop_bottom \in Nat \ {0}
  BY Geometry
<1>4. /\ OutputEnd(r) \in Nat /\ EndLine(r) \in Nat /\ FirstLine(r) \in Int
      /\ OutputEnd(r + 1) = EndLine(r) /\ EndLine(r) <= frame.crop_bottom
      /\ IF FirstLine(r) < EndLine(r) THEN OutputEnd(r) = FirstLine(r)
         ELSE OutputEnd(r) = EndLine(r) /\ EndLine(r) = frame.crop_bottom
  BY OutputGoesOn
<1>5. frame.alpha \in {"none", "good"}
  BY DEF FrameFits, Frames
<1>6. ASSUME frame.alpha = "good"
      PROVE  alpha'.lines = EndLine(r) /\ (alpha'.decoded <=> EndLine(r) >= frame.crop_bottom)
  <2> USE <1>6
  <2>1. CASE FirstLine(r) < EndLine(r)
    <3>1. alpha.lines = FirstLine(r) /\ ~alpha.decoded
      BY <1>3, <1>4, <2>1 DEF AlphaSoFar
    <3>2. alpha' = [lines |-> EndLine(r), decoded |-> EndLine(r) >= frame.crop_bottom]
      BY <1>1, <2>1, <3>1 DEF DecompressAlphaRows, NeedsAlpha
    <3> QED  BY <3>2
  <2>2. CASE ~(FirstLine(r) < EndLine(r))
    BY <1>1, <1>3, <1>4, <2>2 DEF AlphaSoFar, DecompressAlphaRows, NeedsAlpha
  <2> QED  BY <2>1, <2>2
<1>7. AlphaSoFar(r + 1)'
  BY <1>4, <1>6, FrameKept DEF AlphaSoFar
<1>8. PutOut(r + 1)'
  <2> SUFFICES ASSUME NEW y \in CropLines
               PROVE  IF y < EndLine(r) THEN RightLine(y)' ELSE EmptyLine(y)'
    BY <1>4, FrameKept DEF PutOut
  <2>1. y \in Nat
    BY Geometry DEF CropLines
  <2>2. picture'[y] = IF y \in FirstLine(r) .. EndLine(r) - 1
                      THEN [luma  |-> f[y - 16 * r + 16 * id],
                            alpha |-> IF frame.alpha = "none" THEN "none"
                                      ELSE IF y < DecompressAlphaRows(r).lines THEN "right"
                                      ELSE "missing"]
                      ELSE picture[y]
    BY <1>1 DEF Put
  <2>3. IF y < OutputEnd(r) THEN RightLine(y) ELSE EmptyLine(y)
    BY DEF PutOut
  <2>4. CASE FirstLine(r) <= y /\ y < EndLine(r)
    <3>1. picture'[y] = [luma |-> Finished(y),
                         alpha |-> IF frame.alpha = "none" THEN "none" ELSE "right"]
      BY <1>1, <1>2, <1>4, <1>5, <1>6, <2>1, <2>2, <2>4
    <3> QED  BY <2>4, <3>1, FrameKept DEF RightLine
  <2>5. CASE ~(FirstLine(r) <= y /\ y < EndLine(r))
    <3>1. picture'[y] = picture[y]
      BY <1>4, <2>1, <2>2, <2>5
    <3>2. y < EndLine(r) <=> y < OutputEnd(r)
      BY <1>4, <2>1, <2>5
    <3> QED  BY <2>3, <3>1, <3>2, FrameKept DEF RightLine, EmptyLine
  <2> QED  BY <2>4, <2>5
<1>9. KeptAbove(cache, r + 1, NextId(id))'
  <2> SUFFICES ASSUME r + 1 < BottomRow, r + 1 > FirstFilteredRow, NEW k \in 1 .. ExtraRows
               PROVE  cache'[16 * NextId(id) - k] = [line |-> 16 * (r + 1) - k, stage |-> "filtered"]
    BY FrameKept DEF KeptAbove
  <2>1. f[16 * id + 16 - k] = [line |-> 16 * r + 16 - k, stage |-> "filtered"]
    BY <1>2
  <2>2. k \in 1 .. 8 /\ 16 * r + 16 - k = 16 * (r + 1) - k
    BY <1>3
  <2>3. CASE id + 1 = NumCaches
    <3>1. NextId(id) = 0 /\ -k \in -ExtraRows .. -1 /\ -k \in CacheLines
      BY <1>3, <2>2, <2>3 DEF NextId, CacheLines
    <3>2. ~IsLastRow(r)
      BY <1>3 DEF IsLastRow
    <3>3. cache' = [p \in CacheLines |-> IF p \in -ExtraRows .. -1 THEN f[p + 16 * NumCaches]
                                         ELSE f[p]]
      BY <1>1, <2>3, <3>2 DEF Rotated
    <3>4. cache'[-k] = f[-k + 16 * NumCaches] /\ -k + 16 * NumCaches = 16 * id + 16 - k
      BY <1>3, <2>2, <2>3, <3>1, <3>3
    <3>5. 16 * NextId(id) - k = -k
      BY <2>2, <3>1
    <3> QED  BY <2>1, <2>2, <3>4, <3>5
  <2>4. CASE id + 1 # NumCaches
    <3>1. NextId(id) = id + 1 /\ cache' = f
      BY <1>1, <2>4 DEF NextId, Rotated
    <3>2. 16 * (id + 1) - k = 16 * id + 16 - k
      BY <1>3, <2>2
    <3> QED  BY <2>1, <2>2, <3>1, <3>2
  <2> QED  BY <2>3, <2>4
<1> QED  BY <1>7, <1>8, <1>9

--------------------------------------------------------------------------------
(* Steps that leave the rows alone *)

LEMMA RowsInitially == DInit => RowsInv
<1> SUFFICES ASSUME DInit PROVE RowsInv
  OBVIOUS
<1>1. FrameFits
  <2>1. PICK d \in Decodings : frame = d.frame
    BY DEF DInit
  <2> QED  BY <2>1, LayoutAssumption, CropAssumption DEF FrameFits
<1>2. /\ mb_y = 0 /\ mb_x = 0 /\ mb_data = 0 /\ f_info = 0 /\ cache_id = 0 /\ last_mb_y = -1
      /\ ctx = [mb_y |-> -1, id |-> 0, filter_row |-> FALSE, mb_data |-> 0, f_info |-> 0,
                at |-> "none"]
      /\ DOMAIN blocks = 0 .. 1 /\ DOMAIN infos = 0 .. 1
      /\ alpha = [lines |-> 0, decoded |-> FALSE]
      /\ picture = [y \in CropLines |-> [luma |-> Garbage, alpha |-> "none"]]
      /\ state = "WEBP_HEADER" /\ pc = "client" /\ ~had_error /\ ~impl
  BY DEF DInit, RowsInit, WorkerInit
<1>3. \A y \in CropLines : y \in Nat /\ EmptyLine(y)
  BY <1>1, <1>2, Geometry DEF CropLines, EmptyLine
<1>4. Emitted = 0 /\ OutputEnd(0) = 0 /\ frame.crop_bottom > 0
  BY <1>1, <1>2, Geometry DEF Emitted, OutputEnd
<1>5. frame.crop_bottom \in Nat /\ NumCaches \in 1 .. 3
  BY <1>1, Geometry
<1>6. PutOut(0) /\ AlphaSoFar(0) /\ KeptAbove(cache, 0, NextSlot)
  BY <1>2, <1>3, <1>4, <1>5 DEF PutOut, AlphaSoFar, KeptAbove
<1>7. Lines /\ NoLines
  BY <1>2, <1>3, <1>4, <1>6 DEF Lines, NoLines
<1>8. Sets /\ JobData
  BY <1>2, <1>5 DEF Sets, JobData, InRows
<1>9. Rows
  BY <1>2 DEF Rows, BeforeData, InRows
<1> QED  BY <1>1, <1>7, <1>8, <1>9 DEF RowsInv

\* The output, at a step that changes neither it nor what the next row needs.
LEMMA LinesKept ==
    ASSUME FrameFits, Lines, frame' = frame, UNCHANGED <<cache, alpha, picture>>,
           Emitted' = Emitted, NextSlot' = NextSlot,
           ctx'.at = "emit" => ctx.at = "emit" /\ ctx'.mb_y = ctx.mb_y /\ ctx'.id = ctx.id
    PROVE  Lines'
<1> SUFFICES ASSUME frame.alpha # "bad" PROVE Lines'
  BY DEF Lines
<1>1. PutOut(Emitted)'
  <2>1. PutOut(Emitted)
    BY DEF Lines
  <2>2. \A y : RightLine(y)' = RightLine(y) /\ EmptyLine(y)' = EmptyLine(y)
    BY FrameKept DEF RightLine, EmptyLine
  <2>3. CropLines' = CropLines /\ OutputEnd(Emitted)' = OutputEnd(Emitted)
    BY FrameKept
  <2> QED  BY <2>1, <2>2, <2>3 DEF PutOut
<1>2. AlphaSoFar(Emitted)'
  BY FrameKept DEF Lines, AlphaSoFar
<1>3. KeptAbove(cache, Emitted, NextSlot)'
  BY FrameKept DEF Lines, KeptAbove
<1>4. ctx'.at = "emit" => RawLines(cache, ctx.mb_y, ctx.id)'
  BY DEF Lines, RawLines
<1> QED  BY <1>1, <1>2, <1>3, <1>4 DEF Lines

LEMMA Quiet ==
    ASSUME RowsInv, file \in Files,
           UNCHANGED <<rows, file, entry, last_mb_y, had_error>>, part0'.rows = part0.rows,
           impl' = impl \/ (~impl' /\ pc' = "freeing"),
           ctx.at # "none" => status' = "WORK" \/ call'.op = "Launch",
           state' \in BeforeData =>
               state \in BeforeData /\ pc' \in {"client", "decode", "clear", "freeing"},
           InRows' =>
               /\ InRows
               /\ \A q \in 0 .. LastPart : parts'[q].at = parts[q].at
               /\ \/ pc' = pc
                  \/ pc \in {"client", "decode"} /\ pc' \in {"client", "decode", "delete"}
                  \/ pc = "decode" /\ pc' = "exit" /\ mb_y = EndRow,
           state' = "DONE" => state = "DONE" \/ AllOut,
           state \in {"ERROR", "DELETED"} => state' \in {"ERROR", "DELETED"},
           pc' = "exit critical" => state' = "ERROR",
           pc' = "exit" => state' \in {"VP8_DATA", "ERROR"}
    PROVE  RowsInv'
<1> USE DEF RowsInv
<1>1. /\ frame' = frame /\ mb_y' = mb_y /\ mb_x' = mb_x /\ mb_data' = mb_data
      /\ f_info' = f_info /\ blocks' = blocks /\ infos' = infos /\ ctx' = ctx
      /\ cache_id' = cache_id /\ cache' = cache /\ alpha' = alpha /\ picture' = picture
  BY DEF rows
<1>2. FrameFits'
  BY <1>1, FrameKept
<1>3. Lines'
  BY <1>1, LinesKept DEF Emitted, NextSlot
<1>4. NoLines'
  BY <1>1, FrameKept DEF NoLines, EmptyLine, Garbage
<1>5. Sets'
  <2>1. cache_id' = IF ctx'.mb_y = -1 THEN 0 ELSE NextId(ctx.id)'
    BY <1>1, FrameKept DEF Sets
  <2>2. ctx' \in [mb_y : Nat \union {-1}, id : 0 .. NumCaches' - 1, filter_row : BOOLEAN,
                  mb_data : 0 .. 1, f_info : 0 .. 1, at : {"none", "begin", "emit"}]
    BY <1>1, FrameKept DEF Sets
  <2>3. InRows' /\ frame'.threads => impl'
    BY <1>1 DEF Sets, InRows
  <2>4. impl' => frame'.threads /\ ctx'.mb_data = 1 - mb_data' /\ ctx'.f_info = 1 - f_info'
    BY <1>1 DEF Sets
  <2>5. ~frame'.threads =>
           /\ mb_data' = 0 /\ f_info' = 0 /\ ctx'.mb_data = 0 /\ ctx'.f_info = 0
           /\ ctx'.at = "none"
    BY <1>1 DEF Sets
  <2>6. /\ DOMAIN blocks' = 0 .. 1 /\ DOMAIN infos' = 0 .. 1
        /\ mb_data' \in 0 .. 1 /\ f_info' \in 0 .. 1
    BY <1>1 DEF Sets
  <2> QED  BY ONLY <2>1, <2>2, <2>3, <2>4, <2>5, <2>6 DEF Sets
<1>6. JobData'
  BY <1>1, FrameKept DEF JobData, Whole
<1>7. Rows'
  <2>1. LastPart' = LastPart /\ RowSize' = RowSize /\ EndRow' = EndRow
        /\ \A q, y, x : ReaderAt(q, y, x)' = ReaderAt(q, y, x)
    BY <1>1, FrameKept DEF LastPart, RowSize, EndRow, ReaderAt, PartStart, TokensFrom
  <2>2. \A y, x : HeldTo(y, x)' = HeldTo(y, x)
    BY <1>1 DEF HeldTo
  <2>5. AllOut' = AllOut
    BY <1>1, <2>1 DEF AllOut
  <2>3. CASE InRows'
    <3> USE <2>3
    <3>1. CASE pc' = pc
      BY <1>1, <2>1, <2>2, <2>5, <3>1 DEF Rows, InRows, BeforeData
    <3>2. CASE pc \in {"client", "decode"} /\ pc' \in {"client", "decode", "delete"}
      BY <1>1, <2>1, <2>2, <2>5, <3>2 DEF Rows, InRows, BeforeData
    <3>3. CASE pc = "decode" /\ pc' = "exit" /\ mb_y = EndRow
      BY <1>1, <2>1, <2>2, <2>5, <3>3 DEF Rows, InRows, BeforeData
    <3> QED  BY <3>1, <3>2, <3>3
  <2>4. CASE ~InRows'
    BY <1>1, <2>1, <2>4, <2>5 DEF Rows, BeforeData
  <2> QED  BY <2>3, <2>4
<1> QED  BY <1>2, <1>3, <1>4, <1>5, <1>6, <1>7

LEMMA ClientRows == JobsInv /\ InputInv /\ RowsInv /\ Client => RowsInv'
<1> SUFFICES ASSUME JobsInv, InputInv, RowsInv, Client PROVE RowsInv'
  OBVIOUS
<1>1. file \in Files /\ part0 \in [buf : Int, rows : Nat] /\ part0.rows \in Nat
  BY DEF InputInv, InputTyping
<1>2. ctx.at # "none" => status = "WORK" \/ call.op = "Launch"
  BY DEF RowsInv, JobData
<1>3. \A q \in DOMAIN parts : parts[q] \in [buf : Int, at : Nat, end : Nat]
  BY DEF InputInv, InputTyping
<1>4. state = "VP8_DATA" => DOMAIN parts = 0 .. LastPart
  BY DEF InputInv, Progress
<1>5. ASSUME NEW n, AppendData(n) \/ UpdateData(n) PROVE RowsInv'
  <2>1. /\ pc = "client" /\ pc' = "decode" /\ state \notin {"ERROR", "DONE", "DELETED"}
        /\ UNCHANGED <<worker, rows, file, entry, state, last_mb_y>>
    BY <1>5 DEF AppendData, UpdateData, Accepts
  <2>2. PICK buf, end : DoRemap(buf, end)
    BY <1>5 DEF AppendData, UpdateData
  <2>3. part0'.rows = part0.rows
    BY <1>1, <2>2 DEF DoRemap
  <2>4. InRows => \A q \in 0 .. LastPart : parts'[q].at = parts[q].at
    BY <1>3, <1>4, <2>2 DEF DoRemap, InRows
  <2> QED  BY <1>1, <1>2, <2>1, <2>3, <2>4, Quiet DEF worker, InRows
<1>6. ASSUME NEW n, DecodeData(n) PROVE RowsInv'
  <2>1. /\ pc = "client" /\ pc' = "decode" /\ state = "WEBP_HEADER"
        /\ UNCHANGED <<worker, rows, file, entry, state, parts, part0, last_mb_y>>
    BY <1>6 DEF DecodeData
  <2> QED  BY <1>1, <1>2, <2>1, Quiet DEF worker, InRows
<1>7. CASE pc = "client" /\ ExitCritical
  <2>1. /\ pc' = "delete" /\ state = "VP8_DATA"
        /\ UNCHANGED <<rows, file, entry, state, parts, part0, last_mb_y, had_error, impl, status>>
        /\ UNCHANGED call \/ call = Out
    BY <1>7 DEF ExitCritical, BeginExit, Begin, worker
  <2> QED  BY <1>1, <1>2, <1>7, <2>1, Quiet DEF InRows, Out, BeforeData
<1>8. CASE pc = "client" /\ Clear
  <2>1. /\ pc' = "freeing"
        /\ UNCHANGED <<rows, file, entry, state, parts, part0, last_mb_y, had_error, impl, status>>
        /\ UNCHANGED call \/ call = Out
    BY <1>8 DEF Clear, Begin, worker
  <2>2. ctx.at # "none" => status' = "WORK" \/ call'.op = "Launch"
    BY <1>2, <2>1 DEF Out
  <2>3. UNCHANGED <<rows, file, entry, last_mb_y, had_error>> /\ impl' = impl
    BY <2>1
  <2>4. ~InRows' /\ state' = state /\ pc' = "freeing" /\ part0'.rows = part0.rows
    BY <2>1 DEF InRows
  <2>5. impl' = impl \/ (~impl' /\ pc' = "freeing")
    BY <2>3
  <2>6. /\ state' \in BeforeData =>
              state \in BeforeData /\ pc' \in {"client", "decode", "clear", "freeing"}
        /\ pc' # "exit critical" /\ pc' # "exit"
        /\ state' = "DONE" => state = "DONE"
        /\ state \in {"ERROR", "DELETED"} => state' \in {"ERROR", "DELETED"}
    BY <2>4
  <2> QED  BY <1>1, <2>2, <2>3, <2>4, <2>5, <2>6, Quiet
<1> QED  BY <1>5, <1>6, <1>7, <1>8 DEF Client

\* The worker's calls, and its thread outside of the job.
LEMMA CallsRows ==
    JobsInv /\ InputInv /\ RowsInv /\ (InCall \/ Spurious \/ (Enter /\ UNCHANGED <<rows, input>>)
                                       \/ UNCHANGED decoder)
        => RowsInv'
<1> SUFFICES ASSUME JobsInv, InputInv, RowsInv,
                    InCall \/ Spurious \/ (Enter /\ UNCHANGED <<rows, input>>) \/ UNCHANGED decoder
             PROVE  RowsInv'
  OBVIOUS
<1>1. file \in Files
  BY DEF InputInv, InputTyping
<1>2. ctx.at # "none" => status = "WORK" \/ call.op = "Launch"
  BY DEF RowsInv, JobData
<1>3. UNCHANGED <<rows, input>>
  BY DEF InCall, Spurious, decoder
<1>4. UNCHANGED <<file, entry, last_mb_y, part0, parts, pc, state>>
  BY <1>3 DEF input
<1>5. UNCHANGED had_error /\ (impl' = impl \/ (~impl' /\ pc = "freeing"))
  <2>1. CASE Join
    BY <2>1 DEF Join, JobsInv, CallsMade
  <2> QED  BY <2>1 DEF InCall, ChangeState, Spurious, CallerWakes, ThreadWakes, Enter, decoder, worker
<1>6. ctx.at # "none" => status' = "WORK" \/ call'.op = "Launch"
  <2> SUFFICES ASSUME ctx.at # "none" PROVE status' = "WORK" \/ call'.op = "Launch"
    OBVIOUS
  <2>1. CASE ChangeState
    <3>1. CASE MustWait
      BY <1>2, <2>1, <3>1 DEF ChangeState, MustWait
    <3>2. CASE ~MustWait
      BY <1>2, <2>1, <3>2 DEF ChangeState, MustWait
    <3> QED  BY <3>1, <3>2
  <2>2. CASE Join
    <3>1. call.op # "Launch" /\ status = "NOT_OK"
      BY <2>2 DEF Join, JobsInv, CallsMade, WInv, Phases
    <3> QED  BY <1>2, <3>1
  <2>3. CASE CallerWakes
    BY <1>2, <2>3 DEF CallerWakes, At
  <2>4. CASE ThreadWakes
    BY <1>2, <2>4 DEF ThreadWakes
  <2>5. CASE Enter
    BY <1>2, <2>5 DEF Enter, SignalledCall, At
  <2>6. CASE UNCHANGED decoder
    BY <1>2, <2>6 DEF decoder, worker
  <2> QED  BY <2>1, <2>2, <2>3, <2>4, <2>5, <2>6 DEF InCall, Spurious
<1>7. InRows' = InRows /\ pc' = pc /\ state' = state
  BY <1>4 DEF InRows
<1>8. /\ state \in BeforeData => pc \in {"client", "decode", "clear", "freeing"}
      /\ pc = "exit critical" => state = "ERROR"
      /\ pc = "exit" => state \in {"VP8_DATA", "ERROR"}
  BY DEF RowsInv, Rows
<1>9. InRows' =>
         /\ InRows
         /\ \A q \in 0 .. LastPart : parts'[q].at = parts[q].at
         /\ pc' = pc
  BY <1>4, <1>7
<1>10. UNCHANGED <<rows, file, entry, last_mb_y, had_error>> /\ part0'.rows = part0.rows
  BY <1>3, <1>4, <1>5
<1>11. /\ state' \in BeforeData =>
             state \in BeforeData /\ pc' \in {"client", "decode", "clear", "freeing"}
       /\ pc' = "exit critical" => state' = "ERROR"
       /\ pc' = "exit" => state' \in {"VP8_DATA", "ERROR"}
       /\ state' = "DONE" => state = "DONE"
       /\ state \in {"ERROR", "DELETED"} => state' \in {"ERROR", "DELETED"}
  BY <1>7, <1>8
<1>12. impl' = impl \/ (~impl' /\ pc' = "freeing")
  BY <1>4, <1>5
<1> QED  BY <1>1, <1>6, <1>9, <1>10, <1>11, <1>12, Quiet

--------------------------------------------------------------------------------
(* The job *)

LEMMA Reconstructed ==
    ASSUME FrameFits, NEW r \in Nat, NEW id \in 0 .. NumCaches - 1, NEW c,
           KeptAbove(c, r, id), Whole(blocks[ctx.mb_data], r)
    PROVE  KeptAbove(ReconstructRow(c, r, id), r, id) /\ RawLines(ReconstructRow(c, r, id), r, id)
<1> DEFINE f == ReconstructRow(c, r, id)
<1>1. id \in 0 .. 2 /\ ExtraRows \in {0, 2, 8}
  BY Geometry
<1>2. \A k \in 1 .. 8 : 16 * id - k \in CacheLines /\ 16 * id - k \notin Span(id)
  BY <1>1 DEF CacheLines, Span
<1>3. \A p \in Span(id) : p \in CacheLines
  BY <1>1 DEF CacheLines, Span
<1>4. \A k \in 1 .. 8 : f[16 * id - k] = c[16 * id - k]
  BY <1>2 DEF ReconstructRow
<1>5. \A p \in Span(id) : f[p] = [line |-> 16 * r + p - 16 * id, stage |-> "raw"]
  BY <1>3 DEF ReconstructRow
<1>6. \A k \in 1 .. ExtraRows : k \in 1 .. 8
  BY <1>1
<1> HIDE DEF f
<1>7. KeptAbove(f, r, id)
  BY <1>4, <1>6 DEF KeptAbove
<1> QED  BY <1>5, <1>7 DEF RawLines, f

\* Without the alpha data the first row is not put out.
LEMMA FirstRowFails ==
    ASSUME FrameFits, frame.alpha = "bad", ~alpha.decoded
    PROVE  AlphaFails(0)
<1>1. FirstLine(0) < EndLine(0)
  BY Geometry DEF FirstLine, EndLine, LeastOf
<1> QED  BY <1>1 DEF AlphaFails, NeedsAlpha

\* The sets, at a step by which a row's job goes on or is done.
LEMMA SetsKept ==
    ASSUME FrameFits, Sets, frame' = frame,
           UNCHANGED <<mb_data, f_info, cache_id, impl>>,
           DOMAIN blocks' = DOMAIN blocks, DOMAIN infos' = DOMAIN infos,
           InRows' => InRows,
           \E at \in {"none", "begin", "emit"} : ctx' = [ctx EXCEPT !.at = at],
           ctx'.at # "none" => frame.threads
    PROVE  Sets'
<1>1. PICK at \in {"none", "begin", "emit"} : ctx' = [ctx EXCEPT !.at = at]
  OBVIOUS
<1>2. ctx \in [mb_y : Nat \union {-1}, id : 0 .. NumCaches - 1, filter_row : BOOLEAN,
               mb_data : 0 .. 1, f_info : 0 .. 1, at : {"none", "begin", "emit"}]
  BY DEF Sets
<1>3. /\ ctx'.mb_y = ctx.mb_y /\ ctx'.id = ctx.id /\ ctx'.mb_data = ctx.mb_data
      /\ ctx'.f_info = ctx.f_info
      /\ ctx' \in [mb_y : Nat \union {-1}, id : 0 .. NumCaches - 1, filter_row : BOOLEAN,
                   mb_data : 0 .. 1, f_info : 0 .. 1, at : {"none", "begin", "emit"}]
  BY <1>1, <1>2
<1>4. ctx' \in [mb_y : Nat \union {-1}, id : 0 .. NumCaches' - 1, filter_row : BOOLEAN,
                mb_data : 0 .. 1, f_info : 0 .. 1, at : {"none", "begin", "emit"}]
  BY <1>3, FrameKept
<1>5. cache_id' = IF ctx'.mb_y = -1 THEN 0 ELSE NextId(ctx.id)'
  BY <1>3, FrameKept DEF Sets
<1>6. InRows' /\ frame'.threads => impl'
  BY DEF Sets
<1>7. impl' => frame'.threads /\ ctx'.mb_data = 1 - mb_data' /\ ctx'.f_info = 1 - f_info'
  BY <1>3 DEF Sets
<1>8. ~frame'.threads =>
         /\ mb_data' = 0 /\ f_info' = 0 /\ ctx'.mb_data = 0 /\ ctx'.f_info = 0
         /\ ctx'.at = "none"
  BY <1>3 DEF Sets
<1>9. /\ DOMAIN blocks' = 0 .. 1 /\ DOMAIN infos' = 0 .. 1
      /\ mb_data' \in 0 .. 1 /\ f_info' \in 0 .. 1
  BY DEF Sets
<1> QED  BY ONLY <1>4, <1>5, <1>6, <1>7, <1>8, <1>9 DEF Sets

\* The rows' parsing, at a step of the job.
LEMMA ParsingKept ==
    ASSUME Rows, frame' = frame,
           UNCHANGED <<mb_y, mb_x, mb_data, f_info, blocks, infos, input>>,
           ctx.at # "none", ctx'.mb_y = ctx.mb_y
    PROVE  Rows'
<1>1. UNCHANGED <<file, entry, state, parts, part0, last_mb_y, pc>>
  BY DEF input
<1>2. LastPart' = LastPart /\ RowSize' = RowSize /\ EndRow' = EndRow
      /\ \A q, y, x : ReaderAt(q, y, x)' = ReaderAt(q, y, x)
  BY <1>1, FrameKept DEF LastPart, RowSize, EndRow, ReaderAt, PartStart, TokensFrom
<1>3. \A y, x : HeldTo(y, x)' = HeldTo(y, x)
  BY DEF HeldTo
<1>4. state \notin BeforeData /\ state # "DONE"
  BY DEF Rows, AllOut
<1> QED  BY <1>1, <1>2, <1>3, <1>4 DEF Rows, InRows, BeforeData

LEMMA JobRows ==
    JobsInv /\ RowsInv /\ (JobReconstruct \/ JobEmit) /\ UNCHANGED input => RowsInv'
<1> SUFFICES ASSUME JobsInv, RowsInv, JobReconstruct \/ JobEmit, UNCHANGED input PROVE RowsInv'
  OBVIOUS
<1> USE DEF RowsInv
<1>1. /\ UNCHANGED <<frame, mb_y, mb_x, mb_data, f_info, blocks, infos, cache_id>>
      /\ ctx.at # "none" /\ InRows' = InRows
  BY DEF JobReconstruct, JobEmit, InRows, input
<1>2. /\ ctx \in [mb_y : Nat \union {-1}, id : 0 .. NumCaches - 1, filter_row : BOOLEAN,
                  mb_data : 0 .. 1, f_info : 0 .. 1, at : {"none", "begin", "emit"}]
      /\ cache_id = IF ctx.mb_y = -1 THEN 0 ELSE NextId(ctx.id)
      /\ frame.threads
  BY <1>1 DEF Sets, FrameFits, Frames
<1>3. /\ ctx.mb_y \in 0 .. MBHeight - 1 /\ ctx.mb_y \in Nat /\ ctx.filter_row = FiltersRow(ctx.mb_y)
      /\ ctx.at = "begin" => Whole(blocks[ctx.mb_data], ctx.mb_y)
      /\ ctx.filter_row => Whole(infos[ctx.f_info], ctx.mb_y)
      /\ status = "WORK" \/ call.op = "Launch"
  BY <1>1 DEF JobData
<1>4. FrameFits'
  BY <1>1, FrameKept
<1>5. CASE JobReconstruct
  <2>1. /\ ctx.at = "begin" /\ ctx' = [ctx EXCEPT !.at = "emit"]
        /\ cache' = ReconstructRow(cache, ctx.mb_y, ctx.id)
        /\ UNCHANGED <<alpha, picture, worker>>
    BY <1>5 DEF JobReconstruct
  <2>2. /\ ctx'.at = "emit" /\ ctx'.mb_y = ctx.mb_y /\ ctx'.id = ctx.id
        /\ ctx'.filter_row = ctx.filter_row /\ ctx'.f_info = ctx.f_info
    BY <1>2, <2>1
  <2>3. Sets' /\ Rows'
    BY <1>1, <1>2, <2>1, <2>2, SetsKept, ParsingKept DEF worker
  <2>4. NoLines'
    BY <1>1, <2>1, <2>2, FrameKept DEF NoLines, EmptyLine, Garbage, worker
  <2>5. JobData'
    BY <1>1, <1>3, <2>1, <2>2, FrameKept DEF JobData, Whole, worker
  <2>6. Lines'
    <3> SUFFICES ASSUME frame.alpha # "bad" PROVE Lines'
      BY <1>1 DEF Lines
    <3>1. Emitted = ctx.mb_y /\ Emitted' = ctx.mb_y /\ NextSlot = ctx.id /\ NextSlot' = ctx.id
      BY <1>1, <2>1, <2>2 DEF Emitted, NextSlot
    <3>2. PutOut(ctx.mb_y) /\ AlphaSoFar(ctx.mb_y) /\ KeptAbove(cache, ctx.mb_y, ctx.id)
      BY <3>1 DEF Lines
    <3>3. KeptAbove(cache', ctx.mb_y, ctx.id) /\ RawLines(cache', ctx.mb_y, ctx.id)
      BY <1>2, <1>3, <2>1, <3>2, Reconstructed
    <3>4. PutOut(Emitted)'
      <4>1. \A y : RightLine(y)' = RightLine(y) /\ EmptyLine(y)' = EmptyLine(y)
        BY <1>1, <2>1, FrameKept DEF RightLine, EmptyLine
      <4> QED  BY <1>1, <3>1, <3>2, <4>1, FrameKept DEF PutOut
    <3>5. AlphaSoFar(Emitted)'
      BY <1>1, <2>1, <3>1, <3>2, FrameKept DEF AlphaSoFar
    <3>6. KeptAbove(cache, Emitted, NextSlot)'
      BY <1>1, <3>1, <3>3, FrameKept DEF KeptAbove
    <3>7. RawLines(cache, ctx.mb_y, ctx.id)'
      BY <2>2, <3>3 DEF RawLines, Span
    <3> QED  BY <3>4, <3>5, <3>6, <3>7 DEF Lines
  <2> QED  BY <1>4, <2>3, <2>4, <2>5, <2>6
<1>6. CASE JobEmit
  <2>1. /\ ctx.at = "emit" /\ ctx' = [ctx EXCEPT !.at = "none"]
        /\ EmitRow(cache, ctx.mb_y, ctx.id, FiltersRow(ctx.mb_y))
        /\ Executed(~AlphaFails(ctx.mb_y))
    BY <1>3, <1>6 DEF JobEmit
  <2>2. /\ ctx'.at = "none" /\ ctx'.mb_y = ctx.mb_y /\ ctx'.id = ctx.id
    BY <1>2, <2>1
  <2>3. Sets' /\ Rows'
    BY <1>1, <1>2, <2>1, <2>2, SetsKept, ParsingKept DEF Executed
  <2>4. JobData'
    BY <2>2 DEF JobData
  <2>5. NoLines'
    <3> SUFFICES ASSUME frame.alpha = "bad" PROVE NoLines'
      BY <1>1 DEF NoLines
    <3>1. ctx.mb_y = 0 /\ ~alpha.decoded /\ \A y \in CropLines : EmptyLine(y)
      BY <1>3 DEF NoLines
    <3>2. AlphaFails(ctx.mb_y)
      BY <3>1, FirstRowFails
    <3>3. UNCHANGED <<alpha, picture>> /\ had_error'
      BY <2>1, <3>2 DEF EmitRow, Executed
    <3> QED  BY <1>1, <1>2, <2>2, <3>1, <3>3, FrameKept DEF NoLines, EmptyLine, Garbage
  <2>6. Lines'
    <3> SUFFICES ASSUME frame.alpha # "bad" PROVE Lines'
      BY <1>1 DEF Lines
    <3>1. /\ Emitted = ctx.mb_y /\ Emitted' = ctx.mb_y + 1
          /\ NextSlot = ctx.id /\ NextSlot' = NextId(ctx.id)
      BY <1>1, <1>2, <1>3, <2>1, <2>2 DEF Emitted, NextSlot
    <3>2. /\ PutOut(ctx.mb_y) /\ AlphaSoFar(ctx.mb_y) /\ KeptAbove(cache, ctx.mb_y, ctx.id)
          /\ RawLines(cache, ctx.mb_y, ctx.id)
      BY <2>1, <3>1 DEF Lines
    <3>3. PICK r \in 0 .. MBHeight - 1 : r = ctx.mb_y
      BY <1>3
    <3>4. PICK id \in 0 .. NumCaches - 1 : id = ctx.id
      BY <1>2
    <3>5. /\ PutOut(r + 1)' /\ AlphaSoFar(r + 1)' /\ KeptAbove(cache, r + 1, NextId(id))'
      BY <1>1, <1>3, <2>1, <3>2, <3>3, <3>4, RowPutOut
    <3>6. PutOut(Emitted)' /\ AlphaSoFar(Emitted)'
      BY <3>1, <3>3, <3>5 DEF PutOut, AlphaSoFar
    <3>7. KeptAbove(cache, Emitted, NextSlot)'
      BY <1>1, <3>1, <3>3, <3>4, <3>5, FrameKept DEF KeptAbove
    <3> QED  BY <2>2, <3>6, <3>7 DEF Lines
  <2> QED  BY <1>4, <2>3, <2>4, <2>5, <2>6
<1> QED  BY <1>5, <1>6

--------------------------------------------------------------------------------
(* The rows' parsing *)

\* The partitions take turns with the rows.
LEMMA Split ==
    ASSUME NEW P \in {1, 2, 4, 8}, NEW y \in Nat
    PROVE  \E k \in Nat, m \in 0 .. P - 1 : k = y \div P /\ m = y % P /\ y = P * k + m
  OBVIOUS

LEMMA Times ==
    ASSUME NEW s \in Nat, NEW n \in Nat
    PROVE  s * n \in Nat /\ s * 0 = 0 /\ s * (n + 1) = s * n + s
  OBVIOUS

LEMMA Readers ==
    ASSUME file \in Files, NEW y \in Nat, NEW q \in 0 .. LastPart
    PROVE  /\ ReaderAt(q, 0, 0) = PartStart(q)
           /\ ReaderAt(q, y, MBWidth) = ReaderAt(q, y + 1, 0)
           /\ q = y % file.parts =>
                 \A x \in Nat : ReaderAt(q, y, x)
                                   = PartStart(q) + RowSize * (y \div file.parts) + MBSize * x
           /\ \A x \in Nat : ReaderAt(q, y, x + 1)
                                = ReaderAt(q, y, x) + (IF q = y % file.parts THEN MBSize ELSE 0)
<1> DEFINE P == file.parts
           rounds(n) == (n + P - 1 - q) \div P
<1>1. P \in {1, 2, 4, 8} /\ q \in 0 .. P - 1 /\ MBSize \in Nat /\ MBWidth \in Nat
  BY Constants DEF Files, LastPart
<1>2. RowSize \in Nat /\ RowSize = MBSize * MBWidth
  BY <1>1, Times DEF RowSize
<1>3. PartStart(q) \in Nat
  BY <1>1, Layout
<1> HIDE DEF P
<1>4. /\ rounds(0) = 0 /\ rounds(y) \in Nat
      /\ rounds(y + 1) = rounds(y) + (IF q = y % P THEN 1 ELSE 0)
      /\ q = y % P => rounds(y) = y \div P
  <2>1. PICK k \in Nat, m \in 0 .. P - 1 : k = y \div P /\ m = y % P /\ y = P * k + m
    BY <1>1, Split
  <2>2. /\ (P - 1 - q) \div P = 0
        /\ (y + P - 1 - q) \div P = IF q < m THEN k + 1 ELSE k
        /\ (y + 1 + P - 1 - q) \div P = IF q <= m THEN k + 1 ELSE k
    <3> HIDE DEF rounds
    <3>1. CASE P = 1
      BY <1>1, <2>1, <3>1
    <3>2. CASE P = 2
      BY <1>1, <2>1, <3>2
    <3>3. CASE P = 4
      BY <1>1, <2>1, <3>3
    <3>4. CASE P = 8
      BY <1>1, <2>1, <3>4
    <3> QED  BY <1>1, <3>1, <3>2, <3>3, <3>4
  <2>3. 0 + P - 1 - q = P - 1 - q /\ q \in Int /\ m \in Int
    BY <1>1
  <2> QED  BY <2>1, <2>2, <2>3
<1>5. \A n, x : ReaderAt(q, n, x)
                   = PartStart(q) + RowSize * rounds(n) + (IF q = n % P THEN MBSize * x ELSE 0)
  BY DEF ReaderAt, P
<1> HIDE DEF rounds
<1>6. /\ RowSize * 0 = 0 /\ MBSize * 0 = 0
      /\ RowSize * rounds(y) \in Nat
      /\ RowSize * (rounds(y) + 1) = RowSize * rounds(y) + RowSize
  BY <1>1, <1>2, <1>4, Times
<1>7. \A x \in Nat : MBSize * x \in Nat /\ MBSize * (x + 1) = MBSize * x + MBSize
  BY <1>1, Times
<1>8. ReaderAt(q, 0, 0) = PartStart(q)
  BY <1>3, <1>4, <1>5, <1>6
<1>9. ReaderAt(q, y, MBWidth) = ReaderAt(q, y + 1, 0)
  <2>1. ReaderAt(q, y, MBWidth)
           = PartStart(q) + RowSize * rounds(y) + (IF q = y % P THEN RowSize ELSE 0)
    BY <1>2, <1>5
  <2>2. ReaderAt(q, y + 1, 0) = PartStart(q) + RowSize * rounds(y + 1)
    <3>1. ReaderAt(q, y + 1, 0)
             = PartStart(q) + RowSize * rounds(y + 1)
                  + (IF q = (y + 1) % P THEN MBSize * 0 ELSE 0)
      BY <1>5
    <3>2. RowSize * rounds(y + 1) \in Nat
      <4>1. rounds(y + 1) \in Nat
        BY <1>4
      <4> QED  BY <1>2, <4>1, Times
    <3> QED  BY <1>3, <1>6, <3>1, <3>2
  <2>3. CASE q = y % P
    <3>1. rounds(y + 1) = rounds(y) + 1
      BY <1>4, <2>3
    <3> QED  BY <1>2, <1>3, <1>6, <2>1, <2>2, <2>3, <3>1
  <2>4. CASE q # y % P
    <3>1. rounds(y + 1) = rounds(y)
      BY <1>4, <2>4
    <3> QED  BY <1>3, <1>6, <2>1, <2>2, <2>4, <3>1
  <2> QED  BY <2>3, <2>4
<1>10. ASSUME q = y % P, NEW x \in Nat
       PROVE  ReaderAt(q, y, x) = PartStart(q) + RowSize * (y \div P) + MBSize * x
  BY <1>4, <1>5, <1>10
<1>11. ASSUME NEW x \in Nat
       PROVE  ReaderAt(q, y, x + 1) = ReaderAt(q, y, x) + (IF q = y % P THEN MBSize ELSE 0)
  <2>1. /\ ReaderAt(q, y, x)
              = PartStart(q) + RowSize * rounds(y) + (IF q = y % P THEN MBSize * x ELSE 0)
        /\ ReaderAt(q, y, x + 1)
              = PartStart(q) + RowSize * rounds(y)
                   + (IF q = y % P THEN MBSize * x + MBSize ELSE 0)
    BY <1>5, <1>7
  <2>2. MBSize * x \in Nat
    BY <1>7
  <2> QED  BY <1>1, <1>3, <1>6, <2>1, <2>2
<1> QED  BY <1>8, <1>9, <1>10, <1>11 DEF P

LEMMA FileKept ==
    ASSUME frame' = frame, file' = file, entry' = entry
    PROVE  /\ LastPart' = LastPart /\ EndRow' = EndRow
           /\ \A q, y, x : ReaderAt(q, y, x)' = ReaderAt(q, y, x)
  BY FrameKept DEF LastPart, RowSize, EndRow, ReaderAt, PartStart, TokensFrom

LEMMA LastRow == FrameFits => EndRow \in 1 .. MBHeight /\ BottomRow <= EndRow
  BY Geometry DEF EndRow

\* Where parsing stops, with or without an error.
LEMMA StopRows ==
    ASSUME RowsInv, file \in Files, pc \in {"decode", "sync"}, state # "DONE",
           state \notin {"ERROR", "DELETED"}, pc = "sync" => state = "VP8_DATA",
           Fail \/ (Suspend /\ pc = "decode"),
           UNCHANGED <<worker, rows, file, entry, last_mb_y>>, part0'.rows = part0.rows,
           state \notin BeforeData => \A q \in 0 .. LastPart : parts'[q].at = parts[q].at
    PROVE  RowsInv'
<1>1. \/ state' = "ERROR" /\ pc' \in {"client", "clear", "exit critical"}
      \/ state' = state /\ pc' = "client" /\ pc = "decode"
  <2>1. CASE Fail
    BY <2>1 DEF Fail
  <2>2. CASE Suspend /\ pc = "decode"
    BY <2>2 DEF Suspend
  <2> QED  BY <2>1, <2>2
<1>2. ctx.at # "none" => status' = "WORK" \/ call'.op = "Launch"
  BY DEF RowsInv, JobData, worker
<1>3. impl' = impl /\ had_error' = had_error
  BY DEF worker
<1>4. InRows' =>
         /\ InRows
         /\ \A q \in 0 .. LastPart : parts'[q].at = parts[q].at
         /\ pc \in {"client", "decode"} /\ pc' \in {"client", "decode", "delete"}
  BY <1>1 DEF InRows, BeforeData
<1>5. /\ state' \in BeforeData =>
            state \in BeforeData /\ pc' \in {"client", "decode", "clear", "freeing"}
      /\ pc' = "exit critical" => state' = "ERROR"
      /\ pc' # "exit" /\ state' # "DONE"
  BY <1>1 DEF BeforeData
<1> QED  BY <1>2, <1>3, <1>4, <1>5, Quiet

LEMMA HeaderRows ==
    ASSUME RowsInv, InputInv, DecodeHeaders \/ DecodeVP8FrameHeader PROVE RowsInv'
<1>1. /\ file \in Files /\ pc = "decode" /\ state \in {"WEBP_HEADER", "VP8_HEADER"}
      /\ UNCHANGED <<worker, rows, file, entry, parts, part0, last_mb_y>>
  BY DEF InputInv, InputTyping, DecodeHeaders, DecodeVP8FrameHeader
<1>2. CASE Fail \/ Suspend
  BY <1>1, <1>2, StopRows DEF BeforeData
<1>3. CASE state' \in {"VP8_HEADER", "VP8_PARTS0"} /\ pc' = pc
  <2>1. ctx.at # "none" => status' = "WORK" \/ call'.op = "Launch"
    BY <1>1 DEF RowsInv, JobData, worker
  <2>2. impl' = impl /\ had_error' = had_error
    BY <1>1 DEF worker
  <2>3. /\ ~InRows' /\ state' # "DONE" /\ pc' # "exit" /\ pc' # "exit critical"
        /\ state \in BeforeData /\ pc' \in {"client", "decode", "clear", "freeing"}
    BY <1>1, <1>3 DEF InRows, BeforeData
  <2>4. state \notin {"ERROR", "DELETED"}
    BY <1>1
  <2> QED  BY <1>1, <2>1, <2>2, <2>3, <2>4, Quiet
<1> QED  BY <1>1, <1>2, <1>3 DEF DecodeHeaders, DecodeVP8FrameHeader

\* Partition 0's headers: the readers are put at the partitions' beginnings, and
\* with threads the job gets the second set of data.
LEMMA PartitionRows ==
    ASSUME RowsInv, InputInv, JobsInv, DecodePartition0 PROVE RowsInv'
<1> USE DEF RowsInv
<1>1. /\ file \in Files /\ pc = "decode" /\ state = "VP8_PARTS0"
      /\ UNCHANGED <<file, entry, last_mb_y>>
  BY DEF InputInv, InputTyping, DecodePartition0
<1>2. CASE ~HasPartitions
  <2>1. Suspend /\ UNCHANGED <<worker, rows, part0>>
    BY <1>2 DEF DecodePartition0
  <2> QED  BY <1>1, <2>1, StopRows DEF BeforeData
<1>3. CASE HasPartitions
  <2>1. /\ mb_y = 0 /\ mb_x = 0 /\ last_mb_y = -1 /\ ctx.mb_y = -1 /\ ctx.at = "none"
        /\ mb_data = 0 /\ f_info = 0 /\ ~had_error
    BY <1>1 DEF Rows, BeforeData
  <2>2. /\ parts' = [p \in 0 .. LastPart |->
                        [buf |-> mem.buf, at |-> PartStart(p),
                         end |-> IF p = LastPart THEN mem.end ELSE PartStart(p + 1)]]
        /\ part0' = [buf |-> mem.buf, rows |-> 0]
        /\ ctx' = [ctx EXCEPT !.mb_data = IF frame.threads THEN 1 ELSE 0,
                              !.f_info  = IF frame.threads THEN 1 ELSE 0]
        /\ UNCHANGED <<frame, mb_y, mb_x, mb_data, f_info, blocks, infos,
                       cache_id, cache, alpha, picture>>
    BY <1>3 DEF DecodePartition0, AllocateMemory
  <2>3. \/ /\ state' = "VP8_DATA" /\ pc' = "decode"
           /\ frame.threads => impl' /\ ~had_error'
           /\ ~frame.threads => impl' = impl /\ had_error' = had_error
        \/ /\ state' = "ERROR" /\ pc' \in {"clear", "client"} /\ frame.threads
           /\ UNCHANGED worker
    BY <1>1, <1>3 DEF DecodePartition0, Reset, worker
  <2>4. /\ ctx \in [mb_y : Nat \union {-1}, id : 0 .. NumCaches - 1, filter_row : BOOLEAN,
                    mb_data : 0 .. 1, f_info : 0 .. 1, at : {"none", "begin", "emit"}]
        /\ cache_id = IF ctx.mb_y = -1 THEN 0 ELSE NextId(ctx.id)
        /\ ~impl /\ frame.threads \in BOOLEAN
    BY <1>1 DEF Sets, JobsInv, Launching, BeforeData, FrameFits, Frames
  <2>5. /\ ctx'.mb_y = -1 /\ ctx'.id = ctx.id /\ ctx'.at = "none"
        /\ ctx'.mb_data = (IF frame.threads THEN 1 ELSE 0)
        /\ ctx'.f_info = (IF frame.threads THEN 1 ELSE 0)
        /\ ctx' \in [mb_y : Nat \union {-1}, id : 0 .. NumCaches - 1, filter_row : BOOLEAN,
                     mb_data : 0 .. 1, f_info : 0 .. 1, at : {"none", "begin", "emit"}]
    <3>1. CASE frame.threads
      <4>1. ctx' = [ctx EXCEPT !.mb_data = 1, !.f_info = 1] /\ 1 \in 0 .. 1
        BY <2>2, <3>1
      <4>2. ctx \in [mb_y : Nat \union {-1}, id : 0 .. NumCaches - 1, filter_row : BOOLEAN,
                     mb_data : 0 .. 1, f_info : 0 .. 1, at : {"none", "begin", "emit"}]
        BY <2>4
      <4> QED  BY <2>1, <3>1, <4>1, <4>2
    <3>2. CASE ~frame.threads
      <4>1. ctx' = [ctx EXCEPT !.mb_data = 0, !.f_info = 0] /\ 0 \in 0 .. 1
        BY <2>2, <3>2
      <4>2. ctx \in [mb_y : Nat \union {-1}, id : 0 .. NumCaches - 1, filter_row : BOOLEAN,
                     mb_data : 0 .. 1, f_info : 0 .. 1, at : {"none", "begin", "emit"}]
        BY <2>4
      <4> QED  BY <2>1, <3>2, <4>1, <4>2
    <3> QED  BY <3>1, <3>2
  <2>6. FrameFits'
    BY <2>2, FrameKept
  <2>7. Lines'
    BY <2>1, <2>2, <2>5, LinesKept DEF Emitted, NextSlot
  <2>8. NoLines'
    BY <2>1, <2>2, <2>5, FrameKept DEF NoLines, EmptyLine, Garbage
  <2>9. Sets'
    <3>1. cache_id' = IF ctx'.mb_y = -1 THEN 0 ELSE NextId(ctx.id)'
      BY <2>1, <2>2, <2>4, <2>5
    <3>2. ctx' \in [mb_y : Nat \union {-1}, id : 0 .. NumCaches' - 1, filter_row : BOOLEAN,
                    mb_data : 0 .. 1, f_info : 0 .. 1, at : {"none", "begin", "emit"}]
      BY <2>2, <2>5, FrameKept
    <3>3. InRows' /\ frame'.threads => impl'
      BY <2>2, <2>3 DEF InRows
    <3>4. impl' => frame'.threads /\ ctx'.mb_data = 1 - mb_data' /\ ctx'.f_info = 1 - f_info'
      <4>1. impl' => frame.threads
        BY <2>3, <2>4 DEF worker
      <4>2. frame'.threads = frame.threads /\ mb_data' = 0 /\ f_info' = 0
        BY <2>1, <2>2
      <4> QED  BY <2>5, <4>1, <4>2
    <3>5. ~frame'.threads =>
             /\ mb_data' = 0 /\ f_info' = 0 /\ ctx'.mb_data = 0 /\ ctx'.f_info = 0
             /\ ctx'.at = "none"
      BY <2>1, <2>2, <2>5
    <3>6. /\ DOMAIN blocks' = 0 .. 1 /\ DOMAIN infos' = 0 .. 1
          /\ mb_data' \in 0 .. 1 /\ f_info' \in 0 .. 1
      BY <2>2 DEF Sets
    <3> QED  BY ONLY <3>1, <3>2, <3>3, <3>4, <3>5, <3>6 DEF Sets
  <2>10. JobData'
    BY <2>5 DEF JobData
  <2>11. Rows'
    <3>1. CASE state' = "VP8_DATA" /\ pc' = "decode"
      <4>1. /\ 0 \in 0 .. EndRow /\ 0 \in 0 .. MBWidth
        BY LastRow, Constants
      <4>2. part0'.rows = 0
        BY <2>2
      <4>3. \A q \in 0 .. LastPart : parts'[q].at = ReaderAt(q, 0, 0)
        BY <1>1, <2>2, Readers
      <4>4. /\ frame' = frame /\ mb_y' = 0 /\ mb_x' = 0 /\ ctx'.mb_y = -1 /\ last_mb_y' = -1
        BY <1>1, <2>1, <2>2, <2>5
      <4>5. /\ LastPart' = LastPart /\ EndRow' = EndRow
            /\ \A q, y, x : ReaderAt(q, y, x)' = ReaderAt(q, y, x)
        BY <1>1, <2>2, FileKept
      <4>6. \A q \in 0 .. LastPart : parts'[q].at = ReaderAt(q, mb_y, mb_x)'
        BY <4>3, <4>4, <4>5
      <4>7. \A q \in 0 .. LastPart' :
               parts'[q].at = IF pc' \in {"sync", "launch"} THEN ReaderAt(q, mb_y + 1, 0)'
                              ELSE ReaderAt(q, mb_y, mb_x)'
        BY <3>1, <4>5, <4>6
      <4>8. pc' \notin {"sync", "launch", "exit", "exit critical"} /\ state' \notin BeforeData
            /\ state' # "DONE"
        BY <3>1 DEF BeforeData
      <4>9. EndRow' = EndRow /\ 0 - 1 = -1 /\ -1 + 1 = 0 /\ 0 # -1
        BY <4>5
      <4> HIDE DEF RowsInv
      <4> QED  BY <4>1, <4>2, <4>4, <4>7, <4>8, <4>9 DEF Rows
    <3>2. CASE state' = "ERROR" /\ pc' \in {"clear", "client"}
      BY <3>2 DEF Rows, BeforeData, InRows
    <3> QED  BY <2>3, <3>1, <3>2
  <2> QED  BY <2>6, <2>7, <2>8, <2>9, <2>10, <2>11
<1> QED  BY <1>2, <1>3

\* The sets and the job's data, at a step by which parsing fills the set that is
\* its own.
LEMMA OwnSet ==
    ASSUME FrameFits, Sets, JobData, InRows, InRows',
           UNCHANGED <<frame, mb_data, f_info, ctx, cache_id, impl, status, call>>,
           DOMAIN blocks' = DOMAIN blocks, DOMAIN infos' = DOMAIN infos,
           \A b \in 0 .. 1 : b # mb_data => blocks'[b] = blocks[b],
           \A b \in 0 .. 1 : b # f_info => infos'[b] = infos[b]
    PROVE  Sets' /\ JobData'
<1>1. /\ ctx \in [mb_y : Nat \union {-1}, id : 0 .. NumCaches - 1, filter_row : BOOLEAN,
                  mb_data : 0 .. 1, f_info : 0 .. 1, at : {"none", "begin", "emit"}]
      /\ mb_data \in 0 .. 1 /\ f_info \in 0 .. 1 /\ frame.threads \in BOOLEAN
  BY DEF Sets, FrameFits, Frames
<1>2. Sets'
  <2>1. ctx' = ctx /\ NumCaches' = NumCaches /\ \A id : NextId(id)' = NextId(id)
    BY FrameKept
  <2>2. cache_id' = IF ctx'.mb_y = -1 THEN 0 ELSE NextId(ctx.id)'
    BY <2>1 DEF Sets
  <2> QED  BY <1>1, <2>1, <2>2 DEF Sets
<1>3. CASE ctx.at = "none"
  BY <1>2, <1>3 DEF JobData
<1>4. CASE ctx.at # "none"
  <2>1. ctx.mb_data # mb_data /\ ctx.f_info # f_info
    BY <1>1, <1>4 DEF Sets
  <2>2. blocks'[ctx.mb_data] = blocks[ctx.mb_data] /\ infos'[ctx.f_info] = infos[ctx.f_info]
    BY <1>1, <2>1
  <2>3. JobData'
    BY <1>4, <2>2, FrameKept DEF JobData, Whole
  <2> QED  BY <1>2, <2>3
<1> QED  BY <1>3, <1>4

LEMMA ModesRows ==
    ASSUME RowsInv, InputInv, ParseModes PROVE RowsInv'
<1> USE DEF RowsInv
<1>1. /\ file \in Files /\ pc = "decode" /\ state = "VP8_DATA" /\ mb_y < EndRow
      /\ last_mb_y # mb_y /\ InRows /\ mb_y \in Nat
      /\ UNCHANGED <<worker, frame, mb_y, mb_x, mb_data, f_info, infos, ctx, cache_id,
                     cache, alpha, picture, file, entry, mem, parts, alpha_data>>
  BY DEF InputInv, InputTyping, ParseModes, Parsing, InRows
<1>2. CASE Fail /\ UNCHANGED <<part0, last_mb_y, blocks>>
  <2>1. UNCHANGED rows
    BY <1>1, <1>2 DEF rows
  <2> QED  BY <1>1, <1>2, <2>1, StopRows DEF BeforeData
<1>3. CASE /\ part0' = [part0 EXCEPT !.rows = @ + 1]
           /\ last_mb_y' = mb_y
           /\ blocks' = [blocks EXCEPT ![mb_data] = [row |-> part0.rows, count |-> 0]]
           /\ UNCHANGED <<state, pc, torn, raced>>
  <2>1. /\ mb_x = 0 /\ part0.rows = mb_y /\ ctx.mb_y = mb_y - 1 /\ mb_y \in 0 .. EndRow
        /\ \A q \in 0 .. LastPart : parts[q].at = ReaderAt(q, mb_y, mb_x)
    BY <1>1 DEF Rows
  <2>2. DOMAIN blocks = 0 .. 1 /\ mb_data \in 0 .. 1
    BY DEF Sets
  <2>3. /\ blocks'[mb_data] = [row |-> mb_y, count |-> 0] /\ DOMAIN blocks' = DOMAIN blocks
        /\ \A b \in 0 .. 1 : b # mb_data => blocks'[b] = blocks[b]
    BY <1>3, <2>1, <2>2
  <2>4. InRows' /\ state' = "VP8_DATA" /\ pc' = "decode"
    BY <1>1, <1>3 DEF InRows
  <2>5. FrameFits'
    BY <1>1, FrameKept
  <2>6. Sets' /\ JobData'
    BY <1>1, <2>3, <2>4, OwnSet DEF worker
  <2>7. Lines'
    BY <1>1, LinesKept DEF Emitted, NextSlot
  <2>8. NoLines'
    BY <1>1, <1>3, FrameKept DEF NoLines, EmptyLine, Garbage, worker
  <2>9. Rows'
    <3>1. HeldTo(mb_y, mb_x)'
      BY <1>1, <2>1, <2>3 DEF HeldTo
    <3>2. part0'.rows = mb_y + 1
      BY <1>3, <2>1, <1>1 DEF InputInv, InputTyping
    <3>3. /\ LastPart' = LastPart /\ EndRow' = EndRow
          /\ \A q, y, x : ReaderAt(q, y, x)' = ReaderAt(q, y, x)
      BY <1>1, FileKept
    <3>4. \A q \in 0 .. LastPart' : parts'[q].at = ReaderAt(q, mb_y, mb_x)'
      BY <1>1, <2>1, <3>3
    <3>5. /\ mb_y' = mb_y /\ mb_x' = mb_x /\ mb_x \in 0 .. MBWidth /\ ctx' = ctx
          /\ last_mb_y' = mb_y /\ mb_y' \in 0 .. EndRow'
      BY <1>1, <1>3, <2>1, <3>3, Constants
    <3> HIDE DEF RowsInv
    <3> QED  BY <2>1, <2>4, <3>1, <3>2, <3>4, <3>5 DEF Rows, BeforeData
  <2> QED  BY <2>5, <2>6, <2>7, <2>8, <2>9
<1> QED  BY <1>2, <1>3 DEF ParseModes

LEMMA MacroblockRows ==
    ASSUME RowsInv, InputInv, DecodeMB PROVE RowsInv'
<1> USE DEF RowsInv
<1> DEFINE p == mb_y % file.parts
           right == parts[p].at = TokensAt
<1>1. /\ file \in Files /\ pc = "decode" /\ state = "VP8_DATA" /\ mb_y < EndRow
      /\ last_mb_y = mb_y /\ mb_x < MBWidth /\ InRows /\ mb_y \in Nat
      /\ UNCHANGED <<worker, frame, mb_y, mb_data, f_info, ctx, cache_id, cache, alpha,
                     picture, file, entry, part0, alpha_data, last_mb_y>>
  BY DEF InputInv, InputTyping, DecodeMB, Parsing, InRows
<1>2. /\ mb_x \in Nat /\ mb_x \in 0 .. MBWidth /\ ctx.mb_y = mb_y - 1 /\ mb_y \in 0 .. EndRow
      /\ part0.rows = last_mb_y + 1 /\ HeldTo(mb_y, mb_x)
      /\ \A q \in 0 .. LastPart : parts[q].at = ReaderAt(q, mb_y, mb_x)
  BY <1>1, Constants DEF Rows
<1>3. DOMAIN parts = 0 .. LastPart /\ p \in 0 .. LastPart /\ file.parts \in {1, 2, 4, 8}
  <2>1. file.parts \in {1, 2, 4, 8}
    BY <1>1 DEF Files
  <2>2. p \in 0 .. file.parts - 1
    BY <1>1, <2>1
  <2> QED  BY <1>1, <2>1, <2>2 DEF InputInv, Progress, LastPart
<1>4. \A q \in DOMAIN parts : parts[q] \in [buf : Int, at : Nat, end : Nat]
  BY DEF InputInv, InputTyping
<1>5. CASE /\ Fail \/ Suspend
           /\ parts' = [parts EXCEPT ![p] = RestoreContext(@)]
           /\ UNCHANGED <<blocks, infos, mb_x, mem>>
  <2>1. UNCHANGED rows
    BY <1>1, <1>5 DEF rows
  <2>2. \A q \in 0 .. LastPart : parts'[q].at = parts[q].at
    BY <1>3, <1>5 DEF RestoreContext
  <2> QED  BY <1>1, <1>5, <2>1, <2>2, StopRows
<1>6. CASE /\ parts' = [parts EXCEPT ![p].at = @ + MBSize]
           /\ blocks' = [blocks EXCEPT ![mb_data] = With(@, right, mb_x)]
           /\ infos' = [infos EXCEPT ![f_info] =
                   With(IF mb_x = 0 THEN [row |-> mb_y, count |-> 0] ELSE @, right, mb_x)]
           /\ mb_x' = mb_x + 1
           /\ UNCHANGED <<state, pc, torn, raced>>
  <2>1. right
    BY <1>1, <1>2, <1>3, Readers DEF TokensAt
  <2>2. /\ DOMAIN blocks = 0 .. 1 /\ mb_data \in 0 .. 1
        /\ DOMAIN infos = 0 .. 1 /\ f_info \in 0 .. 1
    BY DEF Sets
  <2> HIDE DEF right, p
  <2>3. /\ blocks'[mb_data] = [row |-> mb_y, count |-> mb_x + 1] /\ DOMAIN blocks' = DOMAIN blocks
        /\ \A b \in 0 .. 1 : b # mb_data => blocks'[b] = blocks[b]
    <3>1. With(blocks[mb_data], right, mb_x) = [row |-> mb_y, count |-> mb_x + 1]
      BY <1>2, <2>1 DEF HeldTo, With
    <3> QED  BY <1>6, <2>2, <3>1
  <2>4. /\ infos'[f_info] = [row |-> mb_y, count |-> mb_x + 1] /\ DOMAIN infos' = DOMAIN infos
        /\ \A b \in 0 .. 1 : b # f_info => infos'[b] = infos[b]
    <3>1. With(IF mb_x = 0 THEN [row |-> mb_y, count |-> 0] ELSE infos[f_info], right, mb_x)
             = [row |-> mb_y, count |-> mb_x + 1]
      BY <1>2, <2>1 DEF HeldTo, With
    <3> QED  BY <1>6, <2>2, <3>1
  <2>5. InRows' /\ state' = "VP8_DATA" /\ pc' = "decode"
    BY <1>1, <1>6 DEF InRows
  <2>6. FrameFits'
    BY <1>1, FrameKept
  <2>7. Sets' /\ JobData'
    BY <1>1, <2>3, <2>4, <2>5, OwnSet DEF worker
  <2>8. Lines'
    BY <1>1, LinesKept DEF Emitted, NextSlot
  <2>9. NoLines'
    BY <1>1, <1>6, FrameKept DEF NoLines, EmptyLine, Garbage, worker
  <2>10. Rows'
    <3>1. HeldTo(mb_y, mb_x)'
      BY <1>1, <1>6, <2>3, <2>4 DEF HeldTo
    <3>3. /\ LastPart' = LastPart /\ EndRow' = EndRow
          /\ \A q, y, x : ReaderAt(q, y, x)' = ReaderAt(q, y, x)
      BY <1>1, FileKept
    <3>4. \A q \in 0 .. LastPart' : parts'[q].at = ReaderAt(q, mb_y, mb_x)'
      <4> SUFFICES ASSUME NEW q \in 0 .. LastPart
                   PROVE  parts'[q].at = ReaderAt(q, mb_y, mb_x + 1)
        BY <1>1, <1>6, <3>3
      <4>1. ReaderAt(q, mb_y, mb_x + 1)
               = ReaderAt(q, mb_y, mb_x) + (IF q = p THEN MBSize ELSE 0)
        BY <1>1, <1>2, Readers DEF p
      <4>2. parts[q].at = ReaderAt(q, mb_y, mb_x) /\ parts[q].at \in Nat
        BY <1>2, <1>3, <1>4
      <4>3. parts'[q].at = IF q = p THEN parts[q].at + MBSize ELSE parts[q].at
        BY <1>3, <1>4, <1>6
      <4> QED  BY <4>1, <4>2, <4>3
    <3>5. /\ mb_y' = mb_y /\ mb_x' \in 0 .. MBWidth /\ ctx' = ctx /\ part0'.rows = mb_y + 1
          /\ last_mb_y' = mb_y /\ mb_y' \in 0 .. EndRow'
      BY <1>1, <1>2, <1>6, <3>3, Constants
    <3> HIDE DEF RowsInv
    <3> QED  BY <1>2, <2>5, <3>1, <3>4, <3>5 DEF Rows, BeforeData
  <2> QED  BY <2>6, <2>7, <2>8, <2>9, <2>10
<1> QED  BY <1>5, <1>6 DEF DecodeMB

--------------------------------------------------------------------------------
(* The rows' loop *)

\* A row finished in the decoding thread: that of the cache's one place.
LEMMA RowFinishedHere ==
    ASSUME RowsInv, InputInv, ProcessRow PROVE RowsInv'
<1> USE DEF RowsInv
<1>1. /\ file \in Files /\ pc = "decode" /\ state = "VP8_DATA" /\ mb_y < EndRow
      /\ mb_x = MBWidth /\ ~frame.threads /\ InRows /\ mb_y \in Nat
      /\ mb_x' = 0 /\ FinishRowHere
      /\ UNCHANGED <<worker, frame, mb_data, f_info, blocks, infos, cache_id, file,
                     entry, mem, parts, part0, alpha_data, last_mb_y>>
  BY DEF InputInv, InputTyping, ProcessRow, Parsing, InRows
<1>2. EndRow \in 1 .. MBHeight /\ mb_y \in 0 .. MBHeight - 1 /\ MBWidth \in Nat \ {0}
      /\ MBHeight \in Nat
  BY <1>1, LastRow, Constants
<1>3. /\ last_mb_y = mb_y /\ HeldTo(mb_y, MBWidth) /\ ctx.mb_y = mb_y - 1
      /\ part0.rows = mb_y + 1
      /\ \A q \in 0 .. LastPart : parts[q].at = ReaderAt(q, mb_y, MBWidth)
  <2>1. last_mb_y = mb_y
    BY <1>1, <1>2 DEF Rows
  <2> QED  BY <1>1, <2>1 DEF Rows
<1>4. /\ ctx \in [mb_y : Nat \union {-1}, id : 0 .. NumCaches - 1, filter_row : BOOLEAN,
                  mb_data : 0 .. 1, f_info : 0 .. 1, at : {"none", "begin", "emit"}]
      /\ cache_id = IF ctx.mb_y = -1 THEN 0 ELSE NextId(ctx.id)
      /\ mb_data = 0 /\ f_info = 0 /\ ctx.mb_data = 0 /\ ctx.f_info = 0 /\ ctx.at = "none"
      /\ impl => frame.threads
  BY <1>1 DEF Sets
<1>5. ctx.id = 0 /\ cache_id = 0 /\ NumCaches = 1 /\ NextId(0) = 0
  <2>1. NumCaches = 1
    BY <1>1 DEF NumCaches
  <2>2. NextId(0) = 0
    BY <2>1 DEF NextId
  <2>3. ctx.id \in 0 .. 0
    BY <1>4, <2>1
  <2> QED  BY <1>4, <2>1, <2>2, <2>3
<1>6. /\ ctx' = [ctx EXCEPT !.mb_y = mb_y, !.filter_row = FiltersRow(mb_y)]
      /\ EmitRow(ReconstructRow(cache, mb_y, 0), mb_y, 0, FiltersRow(mb_y))
  BY <1>1, <1>5 DEF FinishRowHere
<1>7. FiltersRow(mb_y) \in BOOLEAN
  BY DEF FiltersRow
<1>8. /\ ctx'.mb_y = mb_y /\ ctx'.id = 0 /\ ctx'.at = "none" /\ ctx'.mb_data = 0
      /\ ctx'.f_info = 0
      /\ ctx' \in [mb_y : Nat \union {-1}, id : 0 .. NumCaches - 1, filter_row : BOOLEAN,
                   mb_data : 0 .. 1, f_info : 0 .. 1, at : {"none", "begin", "emit"}]
  BY <1>1, <1>4, <1>5, <1>6, <1>7
<1>9. FrameFits'
  BY <1>1, FrameKept
<1>10. Sets'
  <2>1. cache_id' = IF ctx'.mb_y = -1 THEN 0 ELSE NextId(ctx.id)'
    <3>1. cache_id' = 0 /\ NextId(ctx.id)' = 0 /\ ctx'.id = 0
      BY <1>1, <1>5, <1>8, FrameKept
    <3> QED  BY <3>1
  <2>2. ctx' \in [mb_y : Nat \union {-1}, id : 0 .. NumCaches' - 1, filter_row : BOOLEAN,
                  mb_data : 0 .. 1, f_info : 0 .. 1, at : {"none", "begin", "emit"}]
    BY <1>1, <1>8, FrameKept
  <2>3. ~frame'.threads /\ (impl' => FALSE)
    BY <1>1, <1>4 DEF worker
  <2>4. mb_data' = 0 /\ f_info' = 0 /\ ctx'.mb_data = 0 /\ ctx'.f_info = 0 /\ ctx'.at = "none"
    BY <1>1, <1>4, <1>8
  <2>5. DOMAIN blocks' = 0 .. 1 /\ DOMAIN infos' = 0 .. 1
    BY <1>1 DEF Sets
  <2> QED  BY ONLY <2>1, <2>2, <2>3, <2>4, <2>5 DEF Sets
<1>11. JobData'
  BY <1>8 DEF JobData
<1>12. CASE frame.alpha = "bad"
  <2>1. ~alpha.decoded /\ mb_y = 0 /\ \A y \in CropLines : EmptyLine(y)
    <3>1. ctx.mb_y \in {-1, 0} /\ (ctx.mb_y = 0 => FALSE)
      BY <1>1, <1>4, <1>12 DEF NoLines
    <3> QED  BY <1>1, <1>3, <1>12, <3>1 DEF NoLines
  <2>2. AlphaFails(mb_y)
    BY <1>12, <2>1, FirstRowFails
  <2>3. Fail /\ UNCHANGED mb_y /\ UNCHANGED <<alpha, picture>>
    BY <1>6, <2>2 DEF ProcessRow, EmitRow
  <2>4. state' = "ERROR" /\ pc' # "exit"
    <3>1. pc' \in {"client", "exit critical", "clear"}
      BY <1>1, <2>3 DEF Fail
    <3> QED  BY <2>3, <3>1 DEF Fail
  <2>5. NoLines'
    BY <1>1, <1>8, <2>1, <2>3, <2>4, FrameKept DEF NoLines, EmptyLine, Garbage
  <2>6. Lines'
    BY <1>1, <1>12 DEF Lines
  <2>7. Rows'
    BY <2>4 DEF Rows, BeforeData, InRows
  <2> QED  BY <1>9, <1>10, <1>11, <2>5, <2>6, <2>7
<1>13. CASE frame.alpha # "bad"
  <2>1. ~AlphaFails(mb_y)
    BY <1>13 DEF AlphaFails
  <2>2. mb_y' = mb_y + 1 /\ UNCHANGED <<state, pc, torn, raced>>
    BY <2>1 DEF ProcessRow
  <2>3. InRows' /\ state' = "VP8_DATA" /\ pc' = "decode"
    BY <1>1, <2>2 DEF InRows
  <2>4. Lines'
    <3>1. PICK r \in 0 .. MBHeight - 1 : r = mb_y
      BY <1>2
    <3>2. Emitted = r /\ NextSlot = 0 /\ Emitted' = r + 1 /\ NextSlot' = 0
      BY <1>1, <1>3, <1>4, <1>5, <1>8, <3>1 DEF Emitted, NextSlot
    <3>3. PutOut(r) /\ AlphaSoFar(r) /\ KeptAbove(cache, r, 0)
      BY <1>13, <3>2 DEF Lines
    <3>4. /\ Whole(blocks[ctx.mb_data], r)
          /\ Whole(infos[ctx.f_info], r)
      BY <1>2, <1>3, <1>4, <3>1 DEF HeldTo, Whole
    <3>5. 0 \in 0 .. NumCaches - 1 /\ r \in Nat
      BY <1>5, <1>2
    <3>6. KeptAbove(ReconstructRow(cache, r, 0), r, 0) /\ RawLines(ReconstructRow(cache, r, 0), r, 0)
      BY <3>3, <3>4, <3>5, Reconstructed
    <3>7. EmitRow(ReconstructRow(cache, r, 0), r, 0, FiltersRow(r))
      BY <1>6, <3>1
    <3> DEFINE c == ReconstructRow(cache, r, 0)
    <3>8. KeptAbove(c, r, 0) /\ RawLines(c, r, 0) /\ EmitRow(c, r, 0, FiltersRow(r))
      BY <3>6, <3>7
    <3> HIDE DEF c
    <3>9. PutOut(r + 1)' /\ AlphaSoFar(r + 1)' /\ KeptAbove(cache, r + 1, NextId(0))'
      BY <1>1, <1>13, <3>3, <3>4, <3>5, <3>8, RowPutOut
    <3>10. PutOut(Emitted)' /\ AlphaSoFar(Emitted)'
      BY <3>2, <3>9 DEF PutOut, AlphaSoFar
    <3>11. KeptAbove(cache, Emitted, NextSlot)'
      BY <1>1, <1>5, <3>2, <3>9, FrameKept DEF KeptAbove
    <3> QED  BY <1>8, <3>10, <3>11 DEF Lines
  <2>5. NoLines'
    BY <1>1, <1>13 DEF NoLines
  <2>6. Rows'
    <3>1. /\ LastPart' = LastPart /\ EndRow' = EndRow
          /\ \A q, y, x : ReaderAt(q, y, x)' = ReaderAt(q, y, x)
      BY <1>1, FileKept
    <3>2. \A q \in 0 .. LastPart : ReaderAt(q, mb_y, MBWidth) = ReaderAt(q, mb_y + 1, 0)
      BY <1>1, Readers
    <3>3. \A q \in 0 .. LastPart' : parts'[q].at = ReaderAt(q, mb_y, mb_x)'
      BY <1>1, <1>3, <2>2, <3>1, <3>2
    <3>4. /\ mb_y' \in 0 .. EndRow' /\ mb_x' = 0 /\ 0 \in 0 .. MBWidth /\ ctx'.mb_y = mb_y' - 1
          /\ part0'.rows = last_mb_y' + 1 /\ last_mb_y' = mb_y' - 1 /\ last_mb_y' # mb_y'
      BY <1>1, <1>2, <1>3, <1>8, <2>2, <3>1
    <3> HIDE DEF RowsInv
    <3> QED  BY <2>3, <3>3, <3>4 DEF Rows, BeforeData
  <2> QED  BY <1>9, <1>10, <1>11, <2>4, <2>5, <2>6
<1> QED  BY <1>12, <1>13

\* With threads: the job before is waited for.
LEMMA SyncRows ==
    ASSUME RowsInv, InputInv, JobsInv, ProcessRowSync PROVE RowsInv'
<1> USE DEF RowsInv
<1>1. /\ file \in Files /\ pc = "decode" /\ state = "VP8_DATA" /\ mb_y < EndRow
      /\ mb_x = MBWidth /\ frame.threads /\ InRows /\ mb_y \in Nat
      /\ mb_x' = 0 /\ pc' = "sync" /\ call = Out /\ UNCHANGED <<status, impl, had_error>>
      /\ UNCHANGED <<frame, mb_y, mb_data, f_info, blocks, infos, ctx, cache_id, cache,
                     alpha, picture, file, entry, state, parts, part0, last_mb_y>>
  BY DEF InputInv, InputTyping, ProcessRowSync, Parsing, InRows, Begin
<1>2. MBWidth \in Nat \ {0} /\ EndRow \in Nat
  BY Constants, LastRow
<1>3. /\ last_mb_y = mb_y /\ HeldTo(mb_y, MBWidth) /\ ctx.mb_y = mb_y - 1
      /\ part0.rows = mb_y + 1 /\ mb_y \in 0 .. EndRow
      /\ \A q \in 0 .. LastPart : parts[q].at = ReaderAt(q, mb_y, MBWidth)
  <2>1. last_mb_y = mb_y
    BY <1>1, <1>2 DEF Rows
  <2> QED  BY <1>1, <2>1 DEF Rows
<1>4. FrameFits'
  BY <1>1, FrameKept
<1>5. Lines'
  BY <1>1, LinesKept DEF Emitted, NextSlot
<1>6. NoLines'
  BY <1>1, FrameKept DEF NoLines, EmptyLine, Garbage
<1>7. Sets'
  <2>1. cache_id' = IF ctx'.mb_y = -1 THEN 0 ELSE NextId(ctx.id)'
    BY <1>1, FrameKept DEF Sets
  <2>2. NumCaches' = NumCaches /\ frame' = frame
    BY <1>1, FrameKept
  <2> QED  BY <1>1, <2>1, <2>2 DEF Sets
<1>8. JobData'
  <2>1. ctx.at # "none" => status' = "WORK"
    BY <1>1 DEF JobData, Out
  <2> QED  BY <1>1, <2>1, FrameKept DEF JobData, Whole
<1>9. Rows'
  <2>1. /\ LastPart' = LastPart /\ EndRow' = EndRow
        /\ \A q, y, x : ReaderAt(q, y, x)' = ReaderAt(q, y, x)
    BY <1>1, FileKept
  <2>2. \A q \in 0 .. LastPart : ReaderAt(q, mb_y, MBWidth) = ReaderAt(q, mb_y + 1, 0)
    BY <1>1, Readers
  <2>3. \A q \in 0 .. LastPart' : parts'[q].at = ReaderAt(q, mb_y + 1, 0)'
    BY <1>1, <1>3, <2>1, <2>2
  <2>4. HeldTo(mb_y, MBWidth)'
    BY <1>1, <1>3 DEF HeldTo
  <2>5. /\ mb_y' \in 0 .. EndRow' /\ mb_x' = 0 /\ 0 \in 0 .. MBWidth /\ ctx'.mb_y = mb_y' - 1
        /\ part0'.rows = last_mb_y' + 1 /\ last_mb_y' = mb_y' /\ mb_y' < EndRow'
        /\ state' = "VP8_DATA" /\ pc' = "sync"
    BY <1>1, <1>2, <1>3, <2>1
  <2> HIDE DEF RowsInv
  <2> QED  BY <2>3, <2>4, <2>5 DEF Rows, BeforeData
<1> QED  BY <1>4, <1>5, <1>6, <1>7, <1>8, <1>9

\* A job's data are handed over when the job before is done, so that the sets
\* can be swapped.
LEMMA LaunchRows ==
    ASSUME RowsInv, InputInv, JobsInv, ProcessRowLaunch PROVE RowsInv'
<1> USE DEF RowsInv
<1>1. /\ file \in Files /\ pc = "sync" /\ state = "VP8_DATA" /\ call = Out /\ InRows
      /\ UNCHANGED <<file, entry, mem, parts, part0, last_mb_y>>
  BY DEF InputInv, InputTyping, ProcessRowLaunch, InRows, JobsInv, Launching
<1>2. CASE had_error
  BY <1>1, <1>2, StopRows DEF ProcessRowLaunch, BeforeData
<1>3. CASE ~had_error
  <2>1. /\ ctx' = [mb_y |-> mb_y, id |-> cache_id, filter_row |-> FiltersRow(mb_y),
                   mb_data |-> mb_data,
                   f_info |-> IF FiltersRow(mb_y) THEN f_info ELSE ctx.f_info,
                   at |-> "begin"]
        /\ mb_data' = ctx.mb_data
        /\ f_info' = IF FiltersRow(mb_y) THEN ctx.f_info ELSE f_info
        /\ cache_id' = NextId(cache_id)
        /\ UNCHANGED <<frame, mb_y, mb_x, blocks, infos, cache, alpha, picture>>
        /\ impl /\ impl' = impl /\ call'.op = "Launch" /\ pc' = "launch" /\ state' = state
    BY <1>3 DEF ProcessRowLaunch, HandOver, Begin, NextId
  <2>2. ctx.at = "none"
    BY <1>1 DEF JobData, JobsInv, Waited, Out
  <2>3. /\ mb_y < EndRow /\ mb_y \in 0 .. EndRow /\ mb_x = 0 /\ last_mb_y = mb_y
        /\ HeldTo(mb_y, MBWidth)
        /\ ctx.mb_y = mb_y - 1 /\ part0.rows = last_mb_y + 1
        /\ \A q \in 0 .. LastPart : parts[q].at = ReaderAt(q, mb_y + 1, 0)
    BY <1>1 DEF Rows
  <2>4. EndRow \in 1 .. MBHeight /\ mb_y \in 0 .. MBHeight - 1 /\ mb_y \in Nat
        /\ MBWidth \in Nat \ {0}
    BY <2>3, LastRow, Constants
  <2>5. /\ ctx \in [mb_y : Nat \union {-1}, id : 0 .. NumCaches - 1, filter_row : BOOLEAN,
                    mb_data : 0 .. 1, f_info : 0 .. 1, at : {"none", "begin", "emit"}]
        /\ cache_id = IF ctx.mb_y = -1 THEN 0 ELSE NextId(ctx.id)
        /\ mb_data \in 0 .. 1 /\ f_info \in 0 .. 1
        /\ frame.threads /\ ctx.mb_data = 1 - mb_data /\ ctx.f_info = 1 - f_info
    BY <2>1 DEF Sets
  <2>6. cache_id \in 0 .. NumCaches - 1
    <3>1. NumCaches \in 1 .. 3 /\ ctx.id \in 0 .. NumCaches - 1
      BY <2>5, Geometry
    <3> QED  BY <2>5, <3>1 DEF NextId
  <2>7. FiltersRow(mb_y) \in BOOLEAN
    BY DEF FiltersRow
  <2>8. /\ ctx'.mb_y = mb_y /\ ctx'.id = cache_id /\ ctx'.at = "begin"
        /\ ctx'.filter_row = FiltersRow(mb_y) /\ ctx'.mb_data = mb_data
        /\ ctx'.f_info = IF FiltersRow(mb_y) THEN f_info ELSE ctx.f_info
    BY <2>1
  <2>9. FrameFits'
    BY <2>1, FrameKept
  <2>10. Lines'
    <3>1. Emitted = mb_y /\ NextSlot = cache_id /\ Emitted' = mb_y /\ NextSlot' = cache_id
      BY <2>2, <2>3, <2>4, <2>8 DEF Emitted, NextSlot
    <3> QED  BY <2>1, <2>8, <3>1, LinesKept
  <2>11. NoLines'
    <3> SUFFICES ASSUME frame.alpha = "bad" PROVE NoLines'
      BY <2>1 DEF NoLines
    <3>1. mb_y = 0
      BY <1>3, <2>2, <2>3, <2>4, <2>5 DEF NoLines
    <3> QED  BY <2>1, <2>8, <3>1, FrameKept DEF NoLines, EmptyLine, Garbage
  <2>12. Sets'
    <3>1. cache_id' = IF ctx'.mb_y = -1 THEN 0 ELSE NextId(ctx.id)'
      <4>1. NextId(ctx.id)' = NextId(cache_id)
        BY <2>1, <2>8, FrameKept
      <4> QED  BY <2>1, <2>4, <2>8, <4>1
    <3>2. ctx' \in [mb_y : Nat \union {-1}, id : 0 .. NumCaches - 1, filter_row : BOOLEAN,
                    mb_data : 0 .. 1, f_info : 0 .. 1, at : {"none", "begin", "emit"}]
      BY <2>1, <2>4, <2>5, <2>6, <2>7
    <3>3. NumCaches' = NumCaches /\ frame' = frame
      BY <2>1, FrameKept
    <3>4. impl' /\ ctx'.mb_data = 1 - mb_data' /\ ctx'.f_info = 1 - f_info'
      BY <2>1, <2>5, <2>7, <2>8
    <3>5. mb_data' \in 0 .. 1 /\ f_info' \in 0 .. 1
      BY <2>1, <2>5
    <3>6. DOMAIN blocks' = 0 .. 1 /\ DOMAIN infos' = 0 .. 1
      BY <2>1 DEF Sets
    <3> QED  BY <2>5, <3>1, <3>2, <3>3, <3>4, <3>5, <3>6 DEF Sets
  <2>13. JobData'
    <3>1. blocks[mb_data] = [row |-> mb_y, count |-> MBWidth]
          /\ infos[f_info] = [row |-> mb_y, count |-> MBWidth]
      BY <2>3, <2>4 DEF HeldTo
    <3>2. Whole(blocks[ctx.mb_data], ctx.mb_y)' /\ (ctx'.filter_row => Whole(infos[ctx.f_info], ctx.mb_y)')
      BY <2>1, <2>8, <3>1 DEF Whole
    <3>3. ctx'.filter_row = FiltersRow(ctx.mb_y)'
      BY <2>1, <2>8, FrameKept
    <3> QED  BY <2>1, <2>4, <2>8, <3>2, <3>3 DEF JobData
  <2>14. Rows'
    <3>1. /\ LastPart' = LastPart /\ EndRow' = EndRow
          /\ \A q, y, x : ReaderAt(q, y, x)' = ReaderAt(q, y, x)
      BY <1>1, <2>1, FileKept
    <3>2. \A q \in 0 .. LastPart' : parts'[q].at = ReaderAt(q, mb_y + 1, 0)'
      BY <1>1, <2>1, <2>3, <3>1
    <3>3. /\ mb_y' \in 0 .. EndRow' /\ mb_x' = 0 /\ 0 \in 0 .. MBWidth /\ ctx'.mb_y = mb_y'
          /\ part0'.rows = last_mb_y' + 1 /\ last_mb_y' = mb_y' /\ mb_y' < EndRow'
          /\ state' = "VP8_DATA" /\ pc' = "launch"
      BY <1>1, <2>1, <2>3, <2>4, <2>8, <3>1
    <3> HIDE DEF RowsInv
    <3> QED  BY <3>2, <3>3 DEF Rows, BeforeData
  <2> QED  BY <2>9, <2>10, <2>11, <2>12, <2>13, <2>14
<1> QED  BY <1>2, <1>3

LEMMA NextRowRows ==
    ASSUME RowsInv, InputInv, JobsInv, NextRow PROVE RowsInv'
<1> USE DEF RowsInv
<1>1. /\ file \in Files /\ pc = "launch" /\ state = "VP8_DATA" /\ call = Out /\ InRows
      /\ mb_y \in Nat /\ mb_y' = mb_y + 1 /\ pc' = "decode"
      /\ UNCHANGED <<worker, frame, mb_x, mb_data, f_info, blocks, infos, ctx, cache_id,
                     cache, alpha, picture, file, entry, state, parts, part0, last_mb_y>>
  BY DEF InputInv, InputTyping, NextRow, InRows, JobsInv, Launching
<1>2. /\ mb_y < EndRow /\ mb_y \in 0 .. EndRow /\ mb_x = 0 /\ last_mb_y = mb_y
      /\ ctx.mb_y = mb_y /\ part0.rows = last_mb_y + 1
      /\ \A q \in 0 .. LastPart : parts[q].at = ReaderAt(q, mb_y + 1, 0)
  BY <1>1 DEF Rows
<1>3. EndRow \in Nat /\ MBWidth \in Nat
  BY LastRow, Constants
<1>4. InRows' /\ state' = "VP8_DATA"
  BY <1>1 DEF InRows
<1>5. FrameFits'
  BY <1>1, FrameKept
<1>6. Lines'
  BY <1>1, LinesKept DEF Emitted, NextSlot
<1>7. NoLines'
  BY <1>1, FrameKept DEF NoLines, EmptyLine, Garbage, worker
<1>8. Sets' /\ JobData'
  BY <1>1, <1>4, OwnSet DEF worker
<1>9. Rows'
  <2>1. /\ LastPart' = LastPart /\ EndRow' = EndRow
        /\ \A q, y, x : ReaderAt(q, y, x)' = ReaderAt(q, y, x)
    BY <1>1, FileKept
  <2>2. \A q \in 0 .. LastPart' : parts'[q].at = ReaderAt(q, mb_y, mb_x)'
    BY <1>1, <1>2, <2>1
  <2>3. /\ mb_y' \in 0 .. EndRow' /\ mb_x' = 0 /\ 0 \in 0 .. MBWidth /\ ctx'.mb_y = mb_y' - 1
        /\ part0'.rows = last_mb_y' + 1 /\ last_mb_y' = mb_y' - 1 /\ last_mb_y' # mb_y'
    BY <1>1, <1>2, <1>3, <2>1
  <2> HIDE DEF RowsInv
  <2> QED  BY <1>1, <1>4, <2>2, <2>3 DEF Rows, BeforeData
<1> QED  BY <1>5, <1>6, <1>7, <1>8, <1>9

\* After the last row the decoder waits for the job, and no job has failed.
LEMMA EndRows ==
    ASSUME RowsInv, InputInv, JobsInv, Exited \/ Free \/ (pc # "client" /\ (ExitCritical \/ Clear))
    PROVE  RowsInv'
<1>1. file \in Files
  BY DEF InputInv, InputTyping
<1>2. ctx.at # "none" => status = "WORK" \/ call.op = "Launch"
  BY DEF RowsInv, JobData
<1>3. CASE Exited
  <2>1. /\ pc \in {"exit", "delete"} /\ call = Out /\ pc' \in {"client", "clear"}
        /\ state' = (IF pc = "delete" THEN state
                     ELSE IF had_error \/ state = "ERROR" THEN "ERROR" ELSE "DONE")
        /\ pc' = (IF pc = "exit" /\ entry # "decode" THEN "client" ELSE "clear")
        /\ UNCHANGED <<worker, rows, file, entry, parts, part0, last_mb_y>>
    BY <1>3 DEF Exited
  <2>2. ctx.at = "none"
    BY <1>2, <2>1 DEF JobsInv, Waited, Out
  <2>3. ASSUME state' = "DONE" PROVE state = "DONE" \/ AllOut
    <3>1. CASE pc = "delete"
      BY <2>1, <2>3, <3>1
    <3>2. CASE pc = "exit"
      <4>1. state = "VP8_DATA" /\ ~had_error
        BY <2>1, <2>3, <3>2 DEF RowsInv, Rows
      <4>2. mb_y = EndRow /\ ctx.mb_y = EndRow - 1
        BY <3>2, <4>1 DEF RowsInv, Rows, InRows
      <4>3. EndRow \in Nat \ {0}
        BY LastRow DEF RowsInv
      <4>4. frame.alpha # "bad"
        <5> SUFFICES ASSUME frame.alpha = "bad" PROVE FALSE
          OBVIOUS
        <5>1. ctx.mb_y = 0
          BY <4>2, <4>3 DEF RowsInv, NoLines
        <5> QED  BY <2>2, <4>1, <5>1 DEF RowsInv, NoLines
      <4> QED  BY <2>2, <4>2, <4>4 DEF AllOut
    <3> QED  BY <2>1, <3>1, <3>2
  <2>4. impl' = impl /\ had_error' = had_error
    BY <2>1 DEF worker
  <2>5. ~InRows'
    BY <2>1 DEF InRows, JobsInv, Launching
  <2>6. /\ state' \in BeforeData => FALSE
        /\ pc' # "exit" /\ pc' # "exit critical"
    BY <2>1 DEF JobsInv, Launching, BeforeData
  <2>7. state \in {"ERROR", "DELETED"} => state' \in {"ERROR", "DELETED"}
    <3>1. pc = "exit" => state \in {"VP8_DATA", "ERROR"}
      BY DEF RowsInv, Rows
    <3> QED  BY <2>1, <3>1
  <2> QED  BY <1>1, <2>1, <2>2, <2>3, <2>4, <2>5, <2>6, <2>7, Quiet
<1>4. CASE Free
  <2>1. /\ pc' = "client" /\ state' = "DELETED"
        /\ UNCHANGED <<worker, rows, file, entry, part0, last_mb_y>>
    BY <1>4 DEF Free
  <2>2. impl' = impl /\ had_error' = had_error
    BY <2>1 DEF worker
  <2>3. ctx.at # "none" => status' = "WORK" \/ call'.op = "Launch"
    BY <1>2, <2>1 DEF worker
  <2>4. ~InRows' /\ state' \notin BeforeData /\ state' # "DONE"
    BY <2>1 DEF InRows, BeforeData
  <2> QED  BY <1>1, <2>1, <2>2, <2>3, <2>4, Quiet
<1>5. CASE pc # "client" /\ ExitCritical
  <2>1. /\ pc' = "exit"
        /\ UNCHANGED <<rows, file, entry, state, parts, part0, last_mb_y, had_error, impl, status>>
        /\ \/ pc = "decode" /\ state = "VP8_DATA" /\ mb_y = EndRow
           \/ pc = "exit critical"
    BY <1>5 DEF ExitCritical, BeginExit, Begin, worker
  <2>2. ctx.at # "none" => status' = "WORK" \/ call'.op = "Launch"
    <3>1. UNCHANGED status /\ (UNCHANGED call \/ call = Out)
      BY <1>5 DEF ExitCritical, BeginExit, Begin, worker
    <3> QED  BY <1>2, <3>1 DEF Out
  <2>3. pc = "exit critical" => state = "ERROR"
    BY DEF RowsInv, Rows
  <2>4. InRows' =>
           /\ InRows
           /\ \A q \in 0 .. LastPart : parts'[q].at = parts[q].at
           /\ pc = "decode" /\ pc' = "exit" /\ mb_y = EndRow
    BY <2>1, <2>3 DEF InRows
  <2>5. /\ state' \in {"VP8_DATA", "ERROR"} /\ state' \notin BeforeData /\ state' # "DONE"
        /\ pc' # "exit critical" /\ state' = state
    BY <2>1, <2>3 DEF BeforeData
  <2> QED  BY <1>1, <2>1, <2>2, <2>4, <2>5, Quiet
<1>6. CASE pc # "client" /\ Clear
  <2>1. /\ pc' = "freeing"
        /\ UNCHANGED <<rows, file, entry, state, parts, part0, last_mb_y, had_error, impl, status>>
        /\ UNCHANGED call \/ call = Out
    BY <1>6 DEF Clear, Begin, worker
  <2>2. ctx.at # "none" => status' = "WORK" \/ call'.op = "Launch"
    BY <1>2, <2>1 DEF Out
  <2>3. ~InRows'
    BY <2>1 DEF InRows
  <2> QED  BY <1>1, <2>1, <2>2, <2>3, Quiet
<1> QED  BY <1>3, <1>4, <1>5, <1>6

LEMMA DecodeRows == JobsInv /\ InputInv /\ RowsInv /\ Decode => RowsInv'
<1> SUFFICES ASSUME JobsInv, InputInv, RowsInv, Decode PROVE RowsInv'
  OBVIOUS
<1>1. CASE DecodeHeaders \/ DecodeVP8FrameHeader
  BY <1>1, HeaderRows
<1>2. CASE DecodePartition0
  BY <1>2, PartitionRows
<1>3. CASE ParseModes
  BY <1>3, ModesRows
<1>4. CASE DecodeMB
  BY <1>4, MacroblockRows
<1>5. CASE ProcessRow
  BY <1>5, RowFinishedHere
<1>6. CASE ProcessRowSync
  BY <1>6, SyncRows
<1>7. CASE ProcessRowLaunch
  BY <1>7, LaunchRows
<1>8. CASE NextRow
  BY <1>8, NextRowRows
<1>9. CASE Exited \/ Free \/ (pc # "client" /\ (ExitCritical \/ Clear))
  BY <1>9, EndRows
<1> QED  BY <1>1, <1>2, <1>3, <1>4, <1>5, <1>6, <1>7, <1>8, <1>9 DEF Decode

--------------------------------------------------------------------------------
\* The rows as the decoder keeps them, for every frame, file and way to decode
\* it: the readers are where the tokens are, the job has the data of its row and
\* none that parsing writes, the cache has what the next row's filter needs, and
\* just the lines of the rows done are in the output.
THEOREM RowsInvariant == DSpec => []RowsInv
<1>1. DInit => RowsInv
  BY RowsInitially
<1>2. JobsInv /\ InputInv /\ RowsInv /\ [DNext]_decoder => RowsInv'
  BY ClientRows, DecodeRows, CallsRows, JobRows DEF DNext, Work
<1> QED  BY <1>1, <1>2, JobsInvariant, InputInvariant, PTL DEF DSpec

LEMMA RowsAreRight == RowsInv => PictureRight
<1> SUFFICES ASSUME RowsInv PROVE LinesRightInOrder /\ (state = "DONE" => \A y \in CropLines : RightLine(y))
  BY DEF PictureRight
<1>1. \A y \in CropLines : y \in Int /\ frame.crop_top <= y /\ y < frame.crop_bottom
  BY Geometry DEF RowsInv, CropLines
<1>2. frame.crop_top \in Nat /\ frame.crop_bottom \in Nat /\ MBHeight \in Nat \ {0}
  BY Geometry DEF RowsInv
<1>3. CASE frame.alpha = "bad"
  BY <1>3 DEF RowsInv, NoLines, LinesRightInOrder, Rows, AllOut
<1>4. CASE frame.alpha # "bad"
  <2>1. \A y \in CropLines : IF y < OutputEnd(Emitted) THEN RightLine(y) ELSE EmptyLine(y)
    BY <1>4 DEF RowsInv, Lines, PutOut
  <2>2. Emitted \in Nat
    <3>1. ctx.mb_y \in Nat \union {-1} /\ (ctx.at # "none" => ctx.mb_y \in Nat)
      BY <1>2 DEF RowsInv, Sets, JobData
    <3> QED  BY <3>1 DEF Emitted
  <2>3. OutputEnd(Emitted) \in Nat
    <3>1. ExtraRows \in {0, 2, 8}
      BY Geometry DEF RowsInv
    <3>2. CASE Emitted # 0
      <4>1. PICK r \in Nat : r = Emitted - 1
        BY <2>2, <3>2
      <4>2. OutputEnd(Emitted) = EndLine(r)
        BY <3>2, <4>1 DEF OutputEnd
      <4> QED  BY <1>2, <3>1, <4>1, <4>2 DEF EndLine, LeastOf
    <3> QED  BY <3>2 DEF OutputEnd
  <2>4. LinesRightInOrder
    <3> SUFFICES ASSUME NEW y \in CropLines, y < OutputEnd(Emitted), y > frame.crop_top
                 PROVE  RightLine(y - 1)
      BY <2>1 DEF LinesRightInOrder
    <3>1. y - 1 \in CropLines /\ y - 1 < OutputEnd(Emitted)
      BY <1>1, <1>2, <2>3 DEF CropLines
    <3> QED  BY <2>1, <3>1
  <2>5. ASSUME state = "DONE" PROVE \A y \in CropLines : RightLine(y)
    <3>1. AllOut
      BY <2>5 DEF RowsInv, Rows
    <3>2. EndRow \in 1 .. MBHeight /\ BottomRow <= EndRow
      BY LastRow DEF RowsInv
    <3>3. PICK r \in 0 .. MBHeight - 1 : r = EndRow - 1
      BY <1>2, <3>2
    <3>4. OutputEnd(Emitted) = EndLine(r)
      BY <1>2, <3>1, <3>2, <3>3 DEF AllOut, Emitted, OutputEnd
    <3>5. EndLine(r) = frame.crop_bottom
      <4>1. r + 1 >= BottomRow
        BY <3>2, <3>3
      <4> QED  BY <4>1, OutputGoesOn DEF RowsInv
    <3> QED  BY <1>1, <2>1, <3>4, <3>5
  <2> QED  BY <2>4, <2>5
<1> QED  BY <1>3, <1>4

\* PictureRight: whatever the size, the cropping, the filter, the threads, the
\* partitions and the pieces the data come in, each line put out is the one the
\* format defines, lines come in order, and success means all of them
\* (ReconstructRow, FinishRow, VP8ProcessRow, DecodeRemaining).
THEOREM PictureIsRight == DSpec => []PictureRight
<1>1. RowsInv => PictureRight
  BY RowsAreRight
<1> QED  BY <1>1, RowsInvariant, PTL
================================================================================
