----------------------------- MODULE NativeContexts ----------------------------
(***************************************************************************)
(* The memory of a WebP animation.  A WebPImage and each WebPFrame taken   *)
(* from it are Java objects that point to a native context; the contexts   *)
(* count the native calls inside them, and share the demuxer, which owns   *)
(* the bytes of the file (webp_jni.cpp, webp_wrapper.h, WebPImage,         *)
(* WebPFrame, WebPNewFrameSequence, WebPOldFrameSequence).                 *)
(*                                                                         *)
(* Threads draw frames and ask the image for its properties, one of them   *)
(* releases the sequence, and the finalizer's thread disposes of objects   *)
(* nobody refers to.  All of them change a context's count only inside the *)
(* monitor of its Java object; what they do with the context they do       *)
(* outside.  Each step here is one access to shared memory inside a        *)
(* monitor, or one use of a context outside.                               *)
(***************************************************************************)
EXTENDS Integers, FiniteSets

CONSTANTS
    Threads,        \* threads that call the sequence
    Owner,          \* the one of them that releases it: the UI thread
    Finalizer,      \* the virtual machine's finalizer thread
    Image,          \* the WebPImage
    Frames,         \* places for WebPFrame objects; a collected one is reused
    Nothing         \* no object, no thread

ASSUME NamesAssumption ==
    /\ Owner \in Threads
    /\ Finalizer \notin Threads
    /\ Image \notin Frames
    /\ Nothing \notin Threads \union Frames \union {Finalizer, Image}
    /\ IsFiniteSet(Threads) /\ IsFiniteSet(Frames)

VARIABLES
    creation,       \* how the sequence's constructor ended
    reachable,      \* the Java objects the program can still refer to
    finalized,      \* the objects whose finalize() has been called
    field,          \* per object: mNativeContext is not 0
    refCount,       \* of each native context
    context,        \* per object: the state of its native context
    owner,          \* who is in the monitor of each object
    shares,         \* use count of the shared pointers to the demuxer
    demuxer,        \* the state of the demuxer and the file's bytes
    thread,         \* per thread: where it is in a call
    released,       \* the sequence's flag
    usage           \* FrameSequenceMemoryUsage.count

contextVars == <<creation, reachable, finalized, field, refCount, context,
                 owner, shares, demuxer, thread, released, usage>>

Actors == Threads \union {Finalizer}
Objects == {Image} \union Frames
Memory == {"none", "live", "freed"}
Sequence == Nothing         \* the frame sequence itself has no context
Collectables == Objects \union {Sequence}

\* Where a thread is: about to take an object's monitor for a call, inside to
\* count itself in, past it and using the context, about to count itself out,
\* inside to see whether it was the last, or inside to dispose of the object.
Places == {"idle", "enter", "count", "use", "leave", "last", "clear"}

\* Image's getters; image.getFrame; frame.renderFrame; the sequence's release(),
\* which disposes of the image; and the objects' own finalize().
Calls == {"get", "frame", "render", "release", "dispose"}

Idle == [at |-> "idle", call |-> "get", object |-> Image, frame |-> Nothing]

Calling(call, o) == [at |-> "enter", call |-> call, object |-> o, frame |-> Nothing]

At(t, place) == thread[t].at = place

ContextsTypeOK ==
    /\ creation \in {"none", "done", "failed"}
    /\ reachable \subseteq Collectables
    /\ finalized \subseteq Collectables
    /\ field \in [Objects -> BOOLEAN]
    /\ refCount \in [Objects -> Nat]
    /\ context \in [Objects -> Memory]
    /\ owner \in [Objects -> Actors \union {Nothing}]
    /\ shares \in Nat
    /\ demuxer \in Memory
    /\ thread \in [Actors -> [at : Places, call : Calls, object : Objects,
                              frame : Frames \union {Nothing}]]
    /\ released \in BOOLEAN
    /\ usage \in {0, 1}

ContextsInit ==
    /\ creation = "none"
    /\ reachable = {}
    /\ finalized = {}
    /\ field = [o \in Objects |-> FALSE]
    /\ refCount = [o \in Objects |-> 0]
    /\ context = [o \in Objects |-> "none"]
    /\ owner = [o \in Objects |-> Nothing]
    /\ shares = 0
    /\ demuxer = "none"
    /\ thread = [t \in Actors |-> Idle]
    /\ released = FALSE
    /\ usage = 0

--------------------------------------------------------------------------------
(* The sequence's constructor: the usage is counted first, then the image's  *)
(* context and its demuxer are made.                                         *)

Create ==
    /\ creation = "none"
    /\ creation' = "done"
    /\ usage' = 1
    /\ reachable' = {Image, Sequence}
    /\ field' = [field EXCEPT ![Image] = TRUE]
    /\ refCount' = [refCount EXCEPT ![Image] = 1]
    /\ context' = [context EXCEPT ![Image] = "live"]
    /\ shares' = 1
    /\ demuxer' = "live"
    /\ UNCHANGED <<finalized, owner, thread, released>>

\* The bytes are refused: the constructor throws, and what it made is freed
\* again, but not the usage it counted.
CreationFails ==
    /\ creation = "none"
    /\ creation' = "failed"
    /\ usage' = 1
    /\ UNCHANGED <<reachable, finalized, field, refCount, context, owner,
                   shares, demuxer, thread, released>>

--------------------------------------------------------------------------------
(* The native glue *)

\* A monitor nobody is in (the mutant: no monitor at all).
MonitorIgnored(o) == TRUE
MonitorFree(o) == owner[o] = Nothing

Goto(t, place) == thread' = [thread EXCEPT ![t].at = place]

\* The end of a call, for what the thread was about: a frame that was taken is
\* rendered next, one that was rendered is dropped, a release is recorded.
CallEnds(t) ==
    LET me == thread[t] IN
    /\ thread' = [thread EXCEPT ![t] =
          IF me.call = "frame" /\ me.frame # Nothing
          THEN Calling("render", me.frame) ELSE Idle]
    /\ reachable' = IF me.call = "render" THEN reachable \ {me.object} ELSE reachable
    /\ released' = (released \/ me.call = "release")
    /\ usage' = IF me.call = "release" THEN 0 ELSE usage

\* Inside the monitor: the context, if the object still has one; else a call
\* throws, and a disposal has nothing to do.
Enter(t) ==
    LET o == thread[t].object IN
    /\ At(t, "enter")
    /\ MonitorFree(o)
    /\ \/ /\ field[o]
          /\ owner' = [owner EXCEPT ![o] = t]
          /\ Goto(t, IF thread[t].call \in {"release", "dispose"} THEN "clear" ELSE "count")
          /\ UNCHANGED <<reachable, released, usage>>
       \/ ~ field[o] /\ CallEnds(t) /\ UNCHANGED owner
    /\ UNCHANGED <<creation, finalized, field, refCount, context, shares, demuxer>>

\* The call counts itself in, and leaves the monitor.
Count(t) ==
    LET o == thread[t].object IN
    /\ At(t, "count")
    /\ refCount' = [refCount EXCEPT ![o] = @ + 1]
    /\ owner' = [owner EXCEPT ![o] = Nothing]
    /\ Goto(t, "use")
    /\ UNCHANGED <<creation, reachable, finalized, field, context, shares,
                   demuxer, released, usage>>

\* A place for a WebPFrame: none has been there, or its context is deleted and
\* the object collected.
Vacant(f) ==
    /\ f \notin reachable
    /\ context[f] # "live"
    /\ f \in finalized \/ context[f] = "none"
    /\ thread[Finalizer].object # f

\* image.getFrame, inside: a context of its own for the frame, which shares the
\* demuxer; there may be no memory for it.
TakeFrame(t) ==
    /\ At(t, "use")
    /\ thread[t].call = "frame"
    /\ \/ \E f \in Frames :
             /\ Vacant(f)
             /\ reachable' = reachable \union {f}
             /\ finalized' = finalized \ {f}
             /\ field' = [field EXCEPT ![f] = TRUE]
             /\ refCount' = [refCount EXCEPT ![f] = 1]
             /\ context' = [context EXCEPT ![f] = "live"]
             /\ shares' = shares + 1
             /\ thread' = [thread EXCEPT ![t] =
                    [at |-> "leave", call |-> "frame", object |-> @.object, frame |-> f]]
       \/ /\ Goto(t, "leave")
          /\ UNCHANGED <<reachable, finalized, field, refCount, context, shares>>
    /\ UNCHANGED <<creation, owner, demuxer, released, usage>>

\* A getter reads the context or, through it, the demuxer; renderFrame reads the
\* frame's bytes, which the demuxer owns.
Use(t) ==
    /\ At(t, "use")
    /\ thread[t].call \in {"get", "render"}
    /\ Goto(t, "leave")
    /\ UNCHANGED <<creation, reachable, finalized, field, refCount, context,
                   owner, shares, demuxer, released, usage>>

\* releaseRef: the call counts itself out.
Leave(t) ==
    LET o == thread[t].object IN
    /\ At(t, "leave")
    /\ MonitorFree(o)
    /\ owner' = [owner EXCEPT ![o] = t]
    /\ refCount' = [refCount EXCEPT ![o] = @ - 1]
    /\ Goto(t, "last")
    /\ UNCHANGED <<creation, reachable, finalized, field, context, shares,
                   demuxer, released, usage>>

\* dispose: the object forgets its context, and the count it held for itself is
\* given up.
ClearContext(t) ==
    LET o == thread[t].object IN
    /\ At(t, "clear")
    /\ field' = [field EXCEPT ![o] = FALSE]
    /\ refCount' = [refCount EXCEPT ![o] = @ - 1]
    /\ Goto(t, "last")
    /\ UNCHANGED <<creation, reachable, finalized, context, owner, shares,
                   demuxer, released, usage>>

\* releaseRef deletes the context when the count is 0 (the mutant: only the one
\* who disposes does).
UnusedAtDisposal(t) ==
    refCount[thread[t].object] = 0 /\ thread[t].call \in {"release", "dispose"}
Unused(t) == refCount[thread[t].object] = 0

\* With the last context, the demuxer and the file's bytes go.
Last(t) ==
    LET o == thread[t].object IN
    /\ At(t, "last")
    /\ owner' = [owner EXCEPT ![o] = Nothing]
    /\ \/ /\ Unused(t)
          /\ context' = [context EXCEPT ![o] = "freed"]
          /\ shares' = shares - 1
          /\ demuxer' = IF shares = 1 THEN "freed" ELSE demuxer
       \/ ~ Unused(t) /\ UNCHANGED <<context, shares, demuxer>>
    /\ CallEnds(t)
    /\ UNCHANGED <<creation, finalized, field, refCount>>

InCall(t) ==
    \/ Enter(t) \/ Count(t) \/ TakeFrame(t) \/ Use(t)
    \/ Leave(t) \/ ClearContext(t) \/ Last(t)

--------------------------------------------------------------------------------
(* The program and the virtual machine *)

\* A thread draws a frame or asks for a property; the owner releases the
\* sequence, once.
StartCall(t) ==
    /\ At(t, "idle")
    /\ Image \in reachable
    /\ \/ \E call \in {"get", "frame"} :
             thread' = [thread EXCEPT ![t] = Calling(call, Image)]
       \/ /\ t = Owner
          /\ ~ released
          /\ thread' = [thread EXCEPT ![t] = Calling("release", Image)]
    /\ UNCHANGED <<creation, reachable, finalized, field, refCount, context,
                   owner, shares, demuxer, released, usage>>

\* The last reference to the sequence goes, whether it was released or not.
Forget ==
    /\ Image \in reachable
    /\ \A t \in Threads : At(t, "idle")
    /\ reachable' = reachable \ {Image, Sequence}
    /\ UNCHANGED <<creation, finalized, field, refCount, context, owner,
                   shares, demuxer, thread, released, usage>>

\* What can be finalized: an object that was made, and cannot be reached.
Garbage ==
    {o \in Collectables \ (reachable \union finalized) :
        creation = "done" /\ (o \in Frames => context[o] # "none")}

\* finalize(), of objects in any order: the sequence releases itself, unless it
\* was released; the others are disposed of.
Finalize(o) ==
    /\ At(Finalizer, "idle")
    /\ o \in Garbage
    /\ finalized' = finalized \union {o}
    /\ thread' = [thread EXCEPT ![Finalizer] =
          IF o # Sequence THEN Calling("dispose", o)
          ELSE IF released THEN Idle ELSE Calling("release", Image)]
    /\ UNCHANGED <<creation, reachable, field, refCount, context, owner,
                   shares, demuxer, released, usage>>

ContextsNext ==
    \/ Create \/ CreationFails \/ Forget
    \/ \E t \in Threads : StartCall(t)
    \/ \E t \in Actors : InCall(t)
    \/ \E o \in Collectables : Finalize(o)

\* Calls that began go on; what cannot be reached is finalized in the end, and
\* the finalizer finishes what it began.  Nobody is obliged to call anything.
ContextsFairness ==
    /\ \A t \in Threads : WF_contextVars(InCall(t))
    /\ WF_contextVars(InCall(Finalizer) \/ \E o \in Collectables : Finalize(o))

ContextsSpec == ContextsInit /\ [][ContextsNext]_contextVars /\ ContextsFairness

--------------------------------------------------------------------------------

\* A thread that found a context, and has not let go of it.
Holds(t) == thread[t].at \in {"count", "use", "leave", "last", "clear"}

\* What a thread works with is there: neither a disposal by the program nor one
\* by the finalizer, in whatever order with the calls of others, deletes a
\* context, or the demuxer and the bytes of the file, under a native call.
NoUseAfterFree ==
    \A t \in Actors :
        Holds(t) => context[thread[t].object] = "live" /\ demuxer = "live"

\* Once the sequence is released, or forgotten, all its native memory is freed
\* in the end, whoever was inside at the time, and though frames are never
\* disposed of but by the finalizer.
MemoryFreed ==
    (creation = "done" /\ (released \/ Image \notin reachable)) ~> (demuxer = "freed")

================================================================================
