-------------------------------- MODULE WebPProofs -----------------------------
(***************************************************************************)
(* What the player's native code rests on.                                 *)
(*                                                                         *)
(* The glue: no native call ever finds its context, or the demuxer,        *)
(* deleted, for any number of threads and frames, and any order of         *)
(* disposals, releases and finalizers.  The invariant says what a          *)
(* context's count stands for: while the context lives, one for the object *)
(* that points to it, and one for each call that has counted itself in and *)
(* not yet out.  A thread in an object's monitor is alone there, so that   *)
(* the one that finds 0 knows that nobody is left, and that nobody can     *)
(* come, as the object has forgotten the context.                          *)
(*                                                                         *)
(* The demuxer: from any bytes of any file it makes a demuxer of usable    *)
(* frames, or none.  Its two loops over the chunks keep an invariant: a    *)
(* frame's alpha and image are there and apart (FrameInv), and a loop that *)
(* goes on stands before a chunk whose header has arrived (Ready).  Of     *)
(* what they leave, the validation makes the rest.  Run side by side on    *)
(* fewer bytes and on more, they agree until the fewer give out            *)
(* (PassGrows), so that more bytes take no complete frame back.            *)
(*                                                                         *)
(* libwebp's decoder of animations: for any canvas and any animations it   *)
(* shows the canvas that the format defines.  Its key frames, its disposed *)
(* copy of the canvas and its partial blending change the work, never the  *)
(* picture.                                                                *)
(***************************************************************************)
EXTENDS WebPSequence, AnimDecoder, FiniteSetTheorems, SequenceTheorems, TLAPS

(* Contexts *)

Inside == {"count", "last", "clear"}

\* The calls that are counted in a context's count.
Holders(o) == {t \in Actors : thread[t].object = o /\ thread[t].at \in {"use", "leave"}}

Live == {o \in Objects : context[o] = "live"}

Monitors ==
    \A o \in Objects, t \in Actors :
        owner[o] = t <=> thread[t].object = o /\ thread[t].at \in Inside

FieldInside ==
    \A t \in Actors : thread[t].at \in {"count", "clear"} => field[thread[t].object]

FieldLive == \A o \in Objects : field[o] => context[o] = "live"

HeldLive == \A t \in Actors : Holds(t) => context[thread[t].object] = "live"

Own(o) == IF field[o] THEN 1 ELSE 0

Counts == \A o \in Live : refCount[o] = Cardinality(Holders(o)) + Own(o)

Shares == shares = Cardinality(Live) /\ (Live # {} => demuxer = "live")

NotYet == creation # "done" => Live = {}

CInv == /\ ContextsTypeOK /\ Monitors /\ FieldInside /\ FieldLive /\ HeldLive
        /\ Counts /\ Shares /\ NotYet

--------------------------------------------------------------------------------

\* Actors, and the sets counted here, are finite.
LEMMA Finite ==
    /\ IsFiniteSet(Actors) /\ IsFiniteSet(Objects)
    /\ \A o \in Objects : IsFiniteSet(Holders(o)) /\ Cardinality(Holders(o)) \in Nat
    /\ IsFiniteSet(Live) /\ Cardinality(Live) \in Nat
<1>1. IsFiniteSet(Threads \union {Finalizer}) /\ IsFiniteSet(Frames \union {Image})
  BY NamesAssumption, FS_AddElement
<1>2. IsFiniteSet(Actors) /\ IsFiniteSet(Objects)
  <2>1. Actors = Threads \union {Finalizer} /\ Objects = Frames \union {Image}
    BY DEF Actors, Objects
  <2> QED  BY <1>1, <2>1
<1>3. Live \in SUBSET Objects /\ \A o \in Objects : Holders(o) \in SUBSET Actors
  BY DEF Live, Holders
<1> QED  BY <1>2, <1>3, FS_Subset, FS_CardinalityType

\* Nothing is counted at first.
LEMMA InitInvariant == ContextsInit => CInv
<1> SUFFICES ASSUME ContextsInit PROVE CInv
  OBVIOUS
<1>1. ContextsTypeOK /\ Monitors /\ FieldInside /\ FieldLive /\ HeldLive
  BY NamesAssumption
     DEF ContextsInit, ContextsTypeOK, Monitors, FieldInside, FieldLive, HeldLive,
         Holds, Idle, Inside, Places, Calls, Memory, Actors, Objects
<1>2. Live = {}
  BY DEF ContextsInit, Live
<1>3. Counts /\ Shares /\ NotYet
  BY <1>2, FS_EmptySet DEF ContextsInit, Counts, Shares, NotYet
<1> QED  BY <1>1, <1>3 DEF CInv

\* The constructor is the first to make a context.
LEMMA CreateInvariant == CInv /\ (Create \/ CreationFails) => CInv'
<1> SUFFICES ASSUME CInv, Create \/ CreationFails PROVE CInv'
  OBVIOUS
<1> USE DEF CInv
<1>1. CASE CreationFails
  BY <1>1 DEF CreationFails, ContextsTypeOK, Monitors, FieldInside, FieldLive, HeldLive,
      Holds, Counts, Own, Holders, Shares, NotYet, Live
<1>2. CASE Create
  <2>1. Live = {} /\ Image \in Objects
    BY <1>2 DEF Create, NotYet, Objects
  <2>2. Live' = {Image}
    BY <1>2, <2>1 DEF Create, Live, ContextsTypeOK
  <2>3. Holders(Image) = {} /\ Holders(Image)' = {}
    BY <1>2, <2>1 DEF Create, Live, HeldLive, Holds, Holders
  <2>4. ContextsTypeOK'
    BY <1>2, <2>1 DEF Create, ContextsTypeOK, Collectables, Memory, Objects
  <2>5. (Monitors /\ FieldInside /\ FieldLive /\ HeldLive)'
    BY <1>2, <2>1
       DEF Create, Monitors, FieldInside, FieldLive, HeldLive, Holds, ContextsTypeOK
  <2>6. Counts'
    <3>1. refCount'[Image] = 1 /\ field'[Image]
      BY <1>2, <2>1 DEF Create, ContextsTypeOK
    <3> QED  BY <2>2, <2>3, <3>1, FS_EmptySet DEF Counts, Own
  <2>7. Shares'
    BY <1>2, <2>2, FS_Singleton DEF Create, Shares
  <2>8. NotYet'
    BY <1>2 DEF Create, NotYet
  <2> QED  BY <2>4, <2>5, <2>6, <2>7, <2>8
<1> QED  BY <1>1, <1>2

\* Steps that touch nothing of the memory: calls begin, or end where they found
\* no context, or use the one they hold.
Calm ==
    /\ UNCHANGED <<creation, field, refCount, context, owner, shares, demuxer>>
    /\ \A t \in Actors :
          \/ thread'[t] = thread[t]
          \/ /\ thread[t].at = "use" /\ thread'[t].at = "leave"
             /\ thread'[t].object = thread[t].object
          \/ thread[t].at \in {"idle", "enter"} /\ thread'[t].at \in {"idle", "enter"}

LEMMA CalmInvariant == CInv /\ ContextsTypeOK' /\ Calm => CInv'
<1> SUFFICES ASSUME CInv, ContextsTypeOK', Calm PROVE CInv'
  OBVIOUS
<1> USE DEF CInv, Calm
<1>1. (Monitors /\ FieldInside /\ FieldLive /\ HeldLive)'
  BY DEF Monitors, FieldInside, FieldLive, HeldLive, Holds, Inside
<1>2. Live' = Live /\ \A o \in Objects : Holders(o)' = Holders(o)
  BY DEF Live, Holders
<1>3. (Counts /\ Shares /\ NotYet)'
  BY <1>2 DEF Counts, Own, Shares, NotYet, Live
<1> QED  BY <1>1, <1>3

\* The calls begin, the program drops its references, and objects are finalized.
LEMMA CallsInvariant ==
    ASSUME CInv,
           \/ Forget
           \/ \E t \in Threads : StartCall(t)
           \/ \E o \in Collectables : Finalize(o)
    PROVE  CInv'
<1> USE DEF CInv, At, Idle, Calling
<1>1. CASE Forget
  BY <1>1, CalmInvariant DEF Forget, ContextsTypeOK, Calm
<1>2. ASSUME NEW t \in Threads, StartCall(t) PROVE CInv'
  <2>1. t \in Actors /\ Image \in Objects
    BY DEF Actors, Objects
  <2>2. PICK call \in {"get", "frame", "release"} :
           thread' = [thread EXCEPT ![t] = Calling(call, Image)]
    BY <1>2 DEF StartCall
  <2>3. ContextsTypeOK'
    BY <1>2, <2>1, <2>2 DEF StartCall, ContextsTypeOK, Places, Calls
  <2>4. Calm
    BY <1>2, <2>1, <2>2 DEF StartCall, Calm, ContextsTypeOK
  <2> QED  BY <2>3, <2>4, CalmInvariant
<1>3. ASSUME NEW o \in Collectables, Finalize(o) PROVE CInv'
  <2>1. Finalizer \in Actors /\ Image \in Objects /\ (o # Sequence => o \in Objects)
    BY DEF Actors, Objects, Collectables
  <2>2. PICK next \in {Idle, Calling("release", Image), Calling("dispose", o)} :
           /\ thread' = [thread EXCEPT ![Finalizer] = next]
           /\ next = Calling("dispose", o) => o \in Objects
    BY <1>3, <2>1 DEF Finalize
  <2>3. ContextsTypeOK'
    BY <1>3, <2>1, <2>2 DEF Finalize, ContextsTypeOK, Places, Calls
  <2>4. Calm
    BY <1>3, <2>1, <2>2 DEF Finalize, Calm, ContextsTypeOK
  <2> QED  BY <2>3, <2>4, CalmInvariant
<1> QED  BY <1>1, <1>2, <1>3

\* What the end of a call leaves of the thread: it waits for nothing, or is
\* about to render.
LEMMA EndOfCall ==
    ASSUME ContextsTypeOK, NEW t \in Actors, CallEnds(t)
    PROVE  /\ thread' \in [Actors -> [at : Places, call : Calls, object : Objects,
                                      frame : Frames \union {Nothing}]]
           /\ thread'[t].at \in {"idle", "enter"}
           /\ \A u \in Actors \ {t} : thread'[u] = thread[u]
           /\ reachable' \subseteq Collectables /\ released' \in BOOLEAN /\ usage' \in {0, 1}
<1>1. PICK next \in {Idle} \union {Calling("render", f) : f \in Frames} :
         thread' = [thread EXCEPT ![t] = next]
  <2>1. thread[t].frame \in Frames \union {Nothing}
    BY DEF ContextsTypeOK
  <2> QED  BY <2>1 DEF CallEnds
<1>2. /\ next \in [at : Places, call : Calls, object : Objects,
                   frame : Frames \union {Nothing}]
      /\ next.at \in {"idle", "enter"}
  BY DEF Idle, Calling, Places, Calls, Objects
<1>3. reachable' \subseteq Collectables /\ released' \in BOOLEAN /\ usage' \in {0, 1}
  <2>1. reachable' \subseteq Collectables
    BY DEF CallEnds, ContextsTypeOK
  <2>2. released' \in BOOLEAN
    BY DEF CallEnds
  <2>3. usage' \in {0, 1}
    BY DEF CallEnds, ContextsTypeOK
  <2> QED  BY <2>1, <2>2, <2>3
<1> QED  BY <1>1, <1>2, <1>3 DEF ContextsTypeOK

\* A thread enters the monitor of an object, alone.
LEMMA EnterInvariant == ASSUME CInv, NEW t \in Actors, Enter(t) PROVE CInv'
<1> DEFINE o == thread[t].object
<1> USE DEF CInv
<1>1. o \in Objects /\ thread[t].at = "enter"
  BY DEF Enter, At, ContextsTypeOK
<1>2. CASE ~ field[o]
  <2>1. CallEnds(t) /\ UNCHANGED <<creation, finalized, field, refCount, context, owner,
                                  shares, demuxer>>
    BY <1>2 DEF Enter
  <2>2. ContextsTypeOK' /\ Calm
    BY <1>1, <2>1, EndOfCall DEF ContextsTypeOK, Calm
  <2> QED  BY <2>2, CalmInvariant
<1>3. CASE field[o]
  <2>1. PICK place \in {"clear", "count"} : thread' = [thread EXCEPT ![t].at = place]
    BY <1>3 DEF Enter, Goto
  <2>2. /\ owner[o] = Nothing /\ owner' = [owner EXCEPT ![o] = t]
        /\ UNCHANGED <<creation, reachable, finalized, field, refCount, context,
                       shares, demuxer, released, usage>>
    BY <1>3 DEF Enter, MonitorFree
  <2>3. ContextsTypeOK'
    BY <1>1, <2>1, <2>2 DEF ContextsTypeOK, Places
  <2>4. Monitors'
    BY <1>1, <2>1, <2>2, NamesAssumption DEF Monitors, ContextsTypeOK, Inside, Actors
  <2>5. (FieldInside /\ FieldLive /\ HeldLive)'
    BY <1>1, <1>3, <2>1, <2>2 DEF FieldInside, FieldLive, HeldLive, Holds, ContextsTypeOK
  <2>6. Live' = Live /\ \A p \in Objects : Holders(p)' = Holders(p)
    BY <1>1, <2>1, <2>2 DEF Live, Holders, ContextsTypeOK
  <2>7. (Counts /\ Shares /\ NotYet)'
    BY <2>2, <2>6 DEF Counts, Own, Shares, NotYet, Live
  <2> QED  BY <2>3, <2>4, <2>5, <2>7
<1> QED  BY <1>2, <1>3

\* It counts itself in.
LEMMA CountInvariant == ASSUME CInv, NEW t \in Actors, Count(t) PROVE CInv'
<1> DEFINE o == thread[t].object
<1> USE DEF CInv
<1>1. /\ o \in Objects /\ thread[t].at = "count" /\ owner[o] = t
      /\ thread' = [thread EXCEPT ![t].at = "use"]
      /\ owner' = [owner EXCEPT ![o] = Nothing]
      /\ refCount' = [refCount EXCEPT ![o] = @ + 1]
      /\ UNCHANGED <<creation, reachable, finalized, field, context, shares, demuxer,
                     released, usage>>
  BY DEF Count, At, Goto, ContextsTypeOK, Monitors, Inside
<1>2. ContextsTypeOK'
  BY <1>1 DEF ContextsTypeOK, Places
<1>3. (Monitors /\ FieldInside /\ FieldLive /\ HeldLive)'
  BY <1>1, NamesAssumption
     DEF Monitors, FieldInside, FieldLive, HeldLive, Holds, ContextsTypeOK, Inside, Actors
<1>4. Live' = Live
  BY <1>1 DEF Live
<1>5. /\ t \notin Holders(o) /\ Holders(o)' = Holders(o) \union {t}
      /\ \A p \in Objects \ {o} : Holders(p)' = Holders(p)
  BY <1>1 DEF Holders, ContextsTypeOK
<1>6. Cardinality(Holders(o)') = Cardinality(Holders(o)) + 1
  BY <1>1, <1>5, Finite, FS_AddElement
<1>7. Counts'
  <2> SUFFICES ASSUME NEW p \in Live
               PROVE  refCount'[p] = Cardinality(Holders(p)') + Own(p)'
    BY <1>4 DEF Counts
  <2>1. p \in Objects /\ Own(p)' = Own(p) /\ Own(p) \in Nat
    BY <1>1 DEF Live, Own
  <2> QED  BY <1>1, <1>5, <1>6, <2>1, Finite DEF Counts, ContextsTypeOK
<1>8. (Shares /\ NotYet)'
  BY <1>1, <1>4 DEF Shares, NotYet
<1> QED  BY <1>2, <1>3, <1>7, <1>8

\* It uses what it holds, and may take a frame.
LEMMA UseInvariant ==
    ASSUME CInv, NEW t \in Actors, Use(t) \/ TakeFrame(t) PROVE CInv'
<1> USE DEF CInv
<1>1. thread[t].object \in Objects /\ thread[t].at = "use"
  BY DEF Use, TakeFrame, At, ContextsTypeOK
<1>2. ASSUME thread' = [thread EXCEPT ![t].at = "leave"],
             UNCHANGED <<creation, reachable, finalized, field, refCount, context,
                         owner, shares, demuxer, released, usage>>
      PROVE  CInv'
  <2>1. ContextsTypeOK' /\ Calm
    BY <1>1, <1>2 DEF ContextsTypeOK, Places, Calm
  <2> QED  BY <2>1, CalmInvariant
<1>3. ASSUME NEW f \in Frames, TakeFrame(t), Vacant(f),
             field' = [field EXCEPT ![f] = TRUE],
             refCount' = [refCount EXCEPT ![f] = 1],
             context' = [context EXCEPT ![f] = "live"],
             shares' = shares + 1,
             reachable' = reachable \union {f},
             finalized' = finalized \ {f},
             thread' = [thread EXCEPT ![t] = [at |-> "leave", call |-> "frame",
                                              object |-> @.object, frame |-> f]]
      PROVE  CInv'
  <2>1. /\ f \in Objects /\ context[f] # "live" /\ f \notin Live
        /\ UNCHANGED <<creation, owner, demuxer, released, usage>>
    BY <1>3 DEF TakeFrame, Vacant, Objects, Live
  <2>2. thread[t].object \in Live
    BY <1>1 DEF Live, HeldLive, Holds
  <2>3. Live' = Live \union {f}
    BY <1>3, <2>1 DEF Live, ContextsTypeOK
  <2>4. \A p \in Objects : Holders(p)' = Holders(p)
    BY <1>1, <1>3 DEF Holders, ContextsTypeOK
  <2>5. Holders(f) = {}
    BY <2>1 DEF Holders, HeldLive, Holds
  <2>6. ContextsTypeOK'
    <3>1. thread' \in [Actors -> [at : Places, call : Calls, object : Objects,
                                 frame : Frames \union {Nothing}]]
      BY <1>1, <1>3 DEF ContextsTypeOK, Places, Calls
    <3>2. /\ reachable' \subseteq Collectables /\ finalized' \subseteq Collectables
          /\ field' \in [Objects -> BOOLEAN] /\ refCount' \in [Objects -> Nat]
          /\ context' \in [Objects -> Memory] /\ shares' \in Nat
      <4>1. /\ reachable \subseteq Collectables /\ finalized \subseteq Collectables
            /\ field \in [Objects -> BOOLEAN] /\ refCount \in [Objects -> Nat]
            /\ context \in [Objects -> Memory] /\ shares \in Nat
        BY DEF ContextsTypeOK
      <4>2. f \in Collectables /\ "live" \in Memory
        BY <2>1 DEF Collectables, Memory
      <4>3. reachable' \subseteq Collectables /\ finalized' \subseteq Collectables
        BY <1>3, <4>1, <4>2
      <4>4. field' \in [Objects -> BOOLEAN] /\ refCount' \in [Objects -> Nat]
        <5>1. field' \in [Objects -> BOOLEAN]
          BY <1>3, <4>1
        <5>2. refCount' = [refCount EXCEPT ![f] = 1]
          BY <1>3
        <5>3. refCount' \in [Objects -> Nat]
          BY <4>1, <5>2
        <5> QED  BY <5>1, <5>3
      <4>5. context' \in [Objects -> Memory] /\ shares' \in Nat
        <5>1. context' = [context EXCEPT ![f] = "live"] /\ shares' = shares + 1
          BY <1>3
        <5>2. context' \in [Objects -> Memory]
          BY <4>1, <4>2, <5>1
        <5>3. shares' \in Nat
          BY <4>1, <5>1
        <5> QED  BY <5>2, <5>3
      <4> QED  BY <4>3, <4>4, <4>5
    <3> QED  BY <2>1, <3>1, <3>2 DEF ContextsTypeOK
  <2>7. Monitors'
    BY <1>1, <1>3, <2>1 DEF Monitors, ContextsTypeOK, Inside
  <2>8. (FieldInside /\ FieldLive /\ HeldLive)'
    BY <1>1, <1>3, <2>1 DEF FieldInside, FieldLive, HeldLive, Holds, ContextsTypeOK
  <2>9. Counts'
    <3> SUFFICES ASSUME NEW p \in Live'
                 PROVE  refCount'[p] = Cardinality(Holders(p)') + Own(p)'
      BY DEF Counts
    <3>1. CASE p = f
      <4>1. refCount'[f] = 1 /\ field'[f]
        BY <1>3, <2>1 DEF ContextsTypeOK
      <4> QED  BY <2>1, <2>4, <2>5, <3>1, <4>1, FS_EmptySet DEF Own
    <3>2. CASE p # f
      <4>1. p \in Live /\ p \in Objects
        BY <2>3, <3>2 DEF Live
      <4>2. refCount'[p] = refCount[p] /\ Own(p)' = Own(p)
        BY <1>3, <3>2, <4>1 DEF Own, ContextsTypeOK
      <4> QED  BY <2>4, <4>1, <4>2 DEF Counts
    <3> QED  BY <3>1, <3>2
  <2>10. Shares'
    <3>1. Cardinality(Live') = Cardinality(Live) + 1
      BY <2>1, <2>3, Finite, FS_AddElement
    <3> QED  BY <1>3, <2>1, <2>2, <3>1 DEF Shares
  <2>11. NotYet'
    BY <2>1, <2>2 DEF NotYet
  <2> QED  BY <2>6, <2>7, <2>8, <2>9, <2>10, <2>11
<1>4. CASE Use(t)
  BY <1>2, <1>4 DEF Use, Goto
<1>5. CASE TakeFrame(t)
  BY <1>2, <1>3, <1>5 DEF TakeFrame, Goto
<1> QED  BY <1>4, <1>5

\* It counts itself out, inside the monitor.
LEMMA LeaveInvariant == ASSUME CInv, NEW t \in Actors, Leave(t) PROVE CInv'
<1> DEFINE o == thread[t].object
<1> USE DEF CInv
<1>1. /\ o \in Objects /\ thread[t].at = "leave" /\ owner[o] = Nothing
      /\ thread' = [thread EXCEPT ![t].at = "last"]
      /\ owner' = [owner EXCEPT ![o] = t]
      /\ refCount' = [refCount EXCEPT ![o] = @ - 1]
      /\ UNCHANGED <<creation, reachable, finalized, field, context, shares, demuxer,
                     released, usage>>
  BY DEF Leave, MonitorFree, At, Goto, ContextsTypeOK
<1>2. o \in Live /\ Live' = Live
  BY <1>1 DEF Live, HeldLive, Holds
<1>3. /\ t \in Holders(o) /\ Holders(o)' = Holders(o) \ {t}
      /\ \A p \in Objects \ {o} : Holders(p)' = Holders(p)
  BY <1>1 DEF Holders, ContextsTypeOK
<1>4. Cardinality(Holders(o)') = Cardinality(Holders(o)) - 1 /\ Cardinality(Holders(o)) # 0
  BY <1>1, <1>3, Finite, FS_RemoveElement, FS_EmptySet
<1>5. \A p \in Objects : Own(p)' = Own(p) /\ Own(p) \in Nat
  BY <1>1 DEF Own
<1>6. refCount[o] - 1 \in Nat
  BY <1>1, <1>2, <1>4, <1>5, Finite DEF Counts
<1>7. ContextsTypeOK'
  BY <1>1, <1>6 DEF ContextsTypeOK, Places
<1>8. (Monitors /\ FieldInside /\ FieldLive /\ HeldLive)'
  BY <1>1, NamesAssumption
     DEF Monitors, FieldInside, FieldLive, HeldLive, Holds, ContextsTypeOK, Inside, Actors
<1>9. Counts'
  <2> SUFFICES ASSUME NEW p \in Live
               PROVE  refCount'[p] = Cardinality(Holders(p)') + Own(p)'
    BY <1>2 DEF Counts
  <2>1. p \in Objects
    BY DEF Live
  <2> QED  BY <1>1, <1>3, <1>4, <1>5, <2>1, Finite DEF Counts, ContextsTypeOK
<1>10. (Shares /\ NotYet)'
  BY <1>1, <1>2 DEF Shares, NotYet
<1> QED  BY <1>7, <1>8, <1>9, <1>10

\* A disposal: the object's own count is given up with its pointer.
LEMMA ClearContextInvariant == ASSUME CInv, NEW t \in Actors, ClearContext(t) PROVE CInv'
<1> DEFINE o == thread[t].object
<1> USE DEF CInv
<1>1. /\ o \in Objects /\ thread[t].at = "clear" /\ owner[o] = t /\ field[o]
      /\ thread' = [thread EXCEPT ![t].at = "last"]
      /\ field' = [field EXCEPT ![o] = FALSE]
      /\ refCount' = [refCount EXCEPT ![o] = @ - 1]
      /\ UNCHANGED <<creation, reachable, finalized, owner, context, shares, demuxer,
                     released, usage>>
  BY DEF ClearContext, At, Goto, ContextsTypeOK, Monitors, Inside, FieldInside
<1>2. o \in Live /\ Live' = Live
  BY <1>1 DEF Live, FieldLive
<1>3. \A p \in Objects : Holders(p)' = Holders(p)
  BY <1>1 DEF Holders, ContextsTypeOK
<1>4. refCount[o] = Cardinality(Holders(o)) + 1
  BY <1>1, <1>2 DEF Counts, Own
<1>5. refCount[o] - 1 \in Nat
  BY <1>1, <1>4, Finite
<1>6. ContextsTypeOK'
  BY <1>1, <1>5 DEF ContextsTypeOK, Places
<1>7. (Monitors /\ FieldInside /\ FieldLive /\ HeldLive)'
  BY <1>1 DEF Monitors, FieldInside, FieldLive, HeldLive, Holds, ContextsTypeOK, Inside
<1>8. Counts'
  <2> SUFFICES ASSUME NEW p \in Live
               PROVE  refCount'[p] = Cardinality(Holders(p)') + Own(p)'
    BY <1>2 DEF Counts
  <2>1. p \in Objects
    BY DEF Live
  <2>2. CASE p = o
    <3>1. Own(o)' = 0 /\ refCount'[o] = refCount[o] - 1
      BY <1>1 DEF Own, ContextsTypeOK
    <3> QED  BY <1>1, <1>3, <1>4, <2>2, <3>1, Finite
  <2>3. CASE p # o
    <3>1. Own(p)' = Own(p) /\ refCount'[p] = refCount[p]
      BY <1>1, <2>1, <2>3 DEF Own, ContextsTypeOK
    <3> QED  BY <1>3, <2>1, <3>1 DEF Counts
  <2> QED  BY <2>2, <2>3
<1>9. (Shares /\ NotYet)'
  BY <1>1, <1>2 DEF Shares, NotYet
<1> QED  BY <1>6, <1>7, <1>8, <1>9

\* The one that finds the count at 0 deletes the context; nobody else is at it,
\* and nobody can come.
LEMMA LastInvariant == ASSUME CInv, NEW t \in Actors, Last(t) PROVE CInv'
<1> DEFINE o == thread[t].object
<1> USE DEF CInv
<1>1. /\ o \in Objects /\ thread[t].at = "last" /\ owner[o] = t
      /\ owner' = [owner EXCEPT ![o] = Nothing]
      /\ CallEnds(t)
      /\ UNCHANGED <<creation, finalized, field, refCount>>
  BY DEF Last, At, ContextsTypeOK, Monitors, Inside
<1>2. /\ thread' \in [Actors -> [at : Places, call : Calls, object : Objects,
                                 frame : Frames \union {Nothing}]]
      /\ thread'[t].at \in {"idle", "enter"}
      /\ \A u \in Actors \ {t} : thread'[u] = thread[u]
      /\ reachable' \subseteq Collectables /\ released' \in BOOLEAN /\ usage' \in {0, 1}
  BY <1>1, EndOfCall
<1>3. owner' \in [Objects -> Actors \union {Nothing}]
  BY <1>1 DEF ContextsTypeOK
<1>4. Monitors' /\ FieldInside'
  BY <1>1, <1>2, NamesAssumption
     DEF Monitors, FieldInside, ContextsTypeOK, Inside, Actors
<1>5. \A p \in Objects : Holders(p)' = Holders(p) /\ Own(p)' = Own(p)
  BY <1>1, <1>2 DEF Holders, Own
<1>6. o \in Live
  BY <1>1 DEF Live, HeldLive, Holds
<1>7. CASE ~ Unused(t)
  <2>1. UNCHANGED <<context, shares, demuxer>>
    BY <1>7 DEF Last
  <2>2. Live' = Live
    BY <2>1 DEF Live
  <2>3. ContextsTypeOK'
    BY <1>1, <1>2, <1>3, <2>1 DEF ContextsTypeOK
  <2>4. FieldLive' /\ HeldLive'
    BY <1>1, <1>2, <2>1 DEF FieldLive, HeldLive, Holds
  <2>5. Counts'
    BY <1>1, <1>5, <2>2 DEF Counts, Live
  <2>6. Shares' /\ NotYet'
    BY <1>1, <2>1, <2>2 DEF Shares, NotYet
  <2> QED  BY <1>4, <2>3, <2>4, <2>5, <2>6
<1>8. CASE Unused(t)
  <2>1. /\ refCount[o] = 0
        /\ context' = [context EXCEPT ![o] = "freed"]
        /\ shares' = shares - 1
        /\ demuxer' = IF shares = 1 THEN "freed" ELSE demuxer
    BY <1>8 DEF Last, Unused
  <2>2. ~ field[o] /\ Holders(o) = {}
    <3>1. Cardinality(Holders(o)) + Own(o) = 0
      BY <1>6, <2>1 DEF Counts
    <3>2. Own(o) = 0 /\ Cardinality(Holders(o)) = 0
      BY <1>1, <3>1, Finite DEF Own
    <3> QED  BY <1>1, <3>2, Finite, FS_EmptySet DEF Own
  <2>3. \A u \in Actors \ {t} : Holds(u) => thread[u].object # o
    <3> SUFFICES ASSUME NEW u \in Actors \ {t}, Holds(u), thread[u].object = o
                 PROVE  FALSE
      OBVIOUS
    <3>1. thread[u].at \notin {"use", "leave"}
      BY <2>2 DEF Holders
    <3>2. thread[u].at \notin Inside
      BY <1>1 DEF Monitors
    <3>3. thread[u].at \notin {"count", "clear"}
      BY <2>2 DEF FieldInside
    <3> QED  BY <3>1, <3>2, <3>3 DEF Holds, Inside
  <2>4. Live' = Live \ {o}
    BY <1>1, <2>1 DEF Live, ContextsTypeOK
  <2>5. Cardinality(Live') = Cardinality(Live) - 1 /\ Cardinality(Live) # 0
    BY <1>6, <2>4, Finite, FS_RemoveElement, FS_EmptySet
  <2>6. ContextsTypeOK'
    <3>1. shares' \in Nat
      BY <2>1, <2>5, Finite DEF Shares
    <3>2. context' \in [Objects -> Memory] /\ demuxer' \in Memory
      BY <2>1 DEF ContextsTypeOK, Memory
    <3> QED  BY <1>1, <1>2, <1>3, <3>1, <3>2 DEF ContextsTypeOK
  <2>7. FieldLive'
    BY <1>1, <2>1, <2>2 DEF FieldLive, ContextsTypeOK
  <2>8. HeldLive'
    <3>1. \A p \in Objects \ {o} : context'[p] = context[p]
      BY <2>1 DEF ContextsTypeOK
    <3> SUFFICES ASSUME NEW u \in Actors, Holds(u)'
                 PROVE  context'[thread'[u].object] = "live"
      BY DEF HeldLive
    <3>2. u # t
      BY <1>2 DEF Holds
    <3>3. thread'[u] = thread[u] /\ Holds(u) /\ thread[u].object \in Objects
      BY <1>2, <3>2 DEF Holds, ContextsTypeOK
    <3> QED  BY <2>3, <3>1, <3>2, <3>3 DEF HeldLive
  <2>9. Counts'
    BY <1>1, <1>5, <2>4 DEF Counts, Live
  <2>10. Shares'
    <3>1. shares = Cardinality(Live) /\ demuxer = "live"
      BY <1>6 DEF Shares
    <3>2. CASE shares = 1
      <4>1. Live' = {}
        <5>1. IsFiniteSet(Live \ {o})
          BY Finite, FS_RemoveElement
        <5>2. Cardinality(Live \ {o}) = 0
          BY <2>4, <2>5, <3>1, <3>2
        <5> QED  BY <2>4, <5>1, <5>2, FS_EmptySet
      <4> QED  BY <2>1, <2>5, <3>1, <4>1 DEF Shares
    <3>3. CASE shares # 1
      BY <2>1, <2>5, <3>1, <3>3 DEF Shares
    <3> QED  BY <3>2, <3>3
  <2>11. NotYet'
    BY <1>1, <1>6 DEF NotYet
  <2> QED  BY <1>4, <2>6, <2>7, <2>8, <2>9, <2>10, <2>11
<1> QED  BY <1>7, <1>8

--------------------------------------------------------------------------------

\* No step of the program or the virtual machine disturbs the counts.
LEMMA ContextsStep == CInv /\ [ContextsNext]_contextVars => CInv'
<1> SUFFICES ASSUME CInv, [ContextsNext]_contextVars PROVE CInv'
  OBVIOUS
<1>1. CASE Create \/ CreationFails
  BY <1>1, CreateInvariant
<1>2. CASE Forget \/ (\E t \in Threads : StartCall(t)) \/ \E o \in Collectables : Finalize(o)
  BY <1>2, CallsInvariant
<1>3. ASSUME NEW t \in Actors, InCall(t) PROVE CInv'
  BY <1>3, EnterInvariant, CountInvariant, UseInvariant, LeaveInvariant,
     ClearContextInvariant, LastInvariant DEF InCall
<1>4. CASE UNCHANGED contextVars
  <2>1. ContextsTypeOK' /\ Calm
    BY <1>4 DEF contextVars, CInv, ContextsTypeOK, Calm
  <2> QED  BY <2>1, CalmInvariant
<1> QED  BY <1>1, <1>2, <1>3, <1>4 DEF ContextsNext

\* What the counts stand for, in every reachable state.
THEOREM CountsExact == ContextsSpec => []CInv
BY InitInvariant, ContextsStep, PTL DEF ContextsSpec

\* No native call finds its context deleted, nor the demuxer and the bytes of the
\* file: whatever is disposed of, by whom, and when.
THEOREM NothingFreedInUse == ContextsSpec => []NoUseAfterFree
<1>1. CInv => NoUseAfterFree
  BY DEF CInv, NoUseAfterFree, HeldLive, Shares, Live, ContextsTypeOK
<1> QED  BY <1>1, CountsExact, PTL

--------------------------------------------------------------------------------
(* Induction.  The library states its principle for operators; here it is  *)
(* needed for sets.                                                        *)

Below == {p \in Nat \X Nat : p[1] < p[2]}

\* The natural numbers do not descend for ever.
LEMMA NoDescent == IsWellFoundedOn(Below, Nat)
<1>1. OpToRel(<, Nat) = Below
  BY DEF OpToRel, Below
<1> QED BY <1>1, NatLessThanWellFounded

\* A set that has 0, and with a number the next one, has all.
LEMMA Induction ==
    ASSUME NEW P \in SUBSET Nat, 0 \in P, \A n \in P : n + 1 \in P
    PROVE  P = Nat
<1> DEFINE C == Nat \ P
<1> SUFFICES ASSUME C # {} PROVE FALSE
  OBVIOUS
<1>1. PICK x \in C : \A y \in C : <<y, x>> \notin Below
  BY NoDescent, WFMin
<1>2. x # 0 /\ x - 1 \in Nat /\ x - 1 < x
  BY <1>1
<1>3. <<x - 1, x>> \in Below
  BY <1>1, <1>2 DEF Below
<1>4. x - 1 \in P
  BY <1>1, <1>2, <1>3
<1> QED BY <1>1, <1>2, <1>4

--------------------------------------------------------------------------------
(* Where the chunks lie *)

PastAll == Len(file.chunks) + 1

Origin == IF file.raw THEN 0 ELSE RIFF_HEADER_SIZE

NextStart(start, i) ==
    IF i = 1 THEN Origin ELSE start[i - 1] + LengthOf(file.chunks[i - 1])

Starts(start, n) == start = [i \in 1 .. n + 1 |-> NextStart(start, i)]

\* The recursion over the chunks has a solution.
LEMMA StartsExist ==
    ASSUME NEW n \in Nat PROVE \E start : Starts(start, n)
<1> DEFINE P == {m \in Nat : \E start : Starts(start, m)}
<1>1. 0 \in P
  <2>1. Starts([i \in 1 .. 0 + 1 |-> Origin], 0)
    BY DEF Starts, NextStart
  <2> QED BY <2>1
<1>2. ASSUME NEW m \in Nat, NEW start, Starts(start, m)
      PROVE  \E more : Starts(more, m + 1)
  <2> DEFINE more == [i \in 1 .. (m + 1) + 1 |->
                         IF i = (m + 1) + 1 THEN NextStart(start, i) ELSE start[i]]
  <2>1. ASSUME NEW i \in 1 .. (m + 1) + 1 PROVE more[i] = NextStart(more, i)
    <3>1. i # 1 => more[i - 1] = start[i - 1]
      OBVIOUS
    <3>2. NextStart(more, i) = NextStart(start, i)
      BY <3>1 DEF NextStart
    <3>3. i # (m + 1) + 1 => start[i] = NextStart(start, i)
      BY <1>2 DEF Starts
    <3> QED BY <3>2, <3>3
  <2>2. Starts(more, m + 1)
    BY <2>1 DEF Starts
  <2> QED BY <2>2
<1>3. \A m \in P : m + 1 \in P
  BY <1>2
<1> HIDE DEF P
<1>4. P = Nat
  BY <1>1, <1>3, Induction DEF P
<1> QED BY <1>4 DEF P

\* What the parser reads of a chunk, and how far it reaches.
LEMMA ChunkFacts ==
    ASSUME file \in FilesToParse, NEW k \in 1 .. Len(file.chunks)
    PROVE  LET chunk == file.chunks[k] IN
           /\ Padded(chunk.size) \in Nat
           /\ LengthOf(chunk) \in Nat /\ LengthOf(chunk) >= CHUNK_HEADER_SIZE
           /\ chunk.id # "ANMF" => LengthOf(chunk) = CHUNK_HEADER_SIZE + Padded(chunk.size)
           /\ chunk.id = "ANMF" => LengthOf(chunk) = CHUNK_HEADER_SIZE + ANMF_CHUNK_SIZE
<1>1. file.chunks[k].size \in Nat
  BY FilesAssumption
<1>2. Padded(file.chunks[k].size) \in Nat
  BY <1>1 DEF Padded
<1> QED BY <1>2 DEF LengthOf, CHUNK_HEADER_SIZE, ANMF_CHUNK_SIZE

\* Chunk follows chunk.
LEMMA Offsets ==
    ASSUME file \in FilesToParse
    PROVE  /\ Len(file.chunks) \in Nat /\ Len(file.chunks) >= 1
           /\ StartOf(1) = Origin
           /\ \A k \in 1 .. PastAll : StartOf(k) \in Nat
           /\ \A k \in 1 .. Len(file.chunks) :
                 StartOf(k + 1) = StartOf(k) + LengthOf(file.chunks[k])
<1> DEFINE L == Len(file.chunks)
           start == CHOOSE s : Starts(s, L)
<1>1. L \in Nat /\ L >= 1
  BY FilesAssumption
<1>2. Starts(start, L)
  BY <1>1, StartsExist
<1>3. \A k : StartOf(k) = start[k]
  BY DEF StartOf, Starts, NextStart, Origin
<1> HIDE DEF start
<1>4. start[1] = Origin
  BY <1>1, <1>2 DEF Starts, NextStart
<1>5. \A k \in 1 .. L : start[k + 1] = start[k] + LengthOf(file.chunks[k])
  BY <1>1, <1>2 DEF Starts, NextStart
<1> DEFINE P == {n \in Nat : n <= L => start[n + 1] \in Nat}
<1>6. 0 \in P
  BY <1>4 DEF Origin, RIFF_HEADER_SIZE
<1>7. ASSUME NEW n \in P PROVE n + 1 \in P
  <2>1. CASE n + 1 <= L
    <3>1. n + 1 \in 1 .. L /\ start[n + 1] \in Nat
      BY <1>1, <2>1
    <3>2. start[(n + 1) + 1] = start[n + 1] + LengthOf(file.chunks[n + 1])
      BY <1>5, <3>1
    <3> QED BY <3>1, <3>2, ChunkFacts
  <2> QED BY <1>1, <2>1
<1> HIDE DEF P
<1>8. P = Nat
  BY <1>6, <1>7, Induction DEF P
<1>9. ASSUME NEW k \in 1 .. PastAll PROVE start[k] \in Nat
  <2>1. k - 1 \in P /\ k - 1 <= L
    BY <1>1, <1>8 DEF PastAll
  <2> QED BY <2>1 DEF P
<1> QED BY <1>1, <1>3, <1>4, <1>5, <1>9

--------------------------------------------------------------------------------
(* Frames *)

Extent == [offset : Nat, size : Nat]

FrameFields ==
    [x : Nat, y : Nat, width : Nat, height : Nat, has_alpha : BOOLEAN, frame_num : Nat,
     complete : BOOLEAN, image : Extent, alpha : Extent]

Statuses == {"ok", "more", "error"}

Reach(e) == e.offset + e.size

\* What is stored of a frame is there, and apart.
FrameInv(num, f, end) ==
    /\ f \in FrameFields
    /\ f.image # NoSize => /\ f.frame_num = num
                           /\ f.image.size > 0
                           /\ Reach(f.image) <= end
    /\ f.alpha # NoSize => f.alpha.size > 0 /\ Reach(f.alpha) <= end
    /\ f.image # NoSize /\ f.alpha # NoSize =>
          Reach(f.alpha) <= f.image.offset \/ Reach(f.image) <= f.alpha.offset
    /\ f.complete => f.image # NoSize

\* A loop that goes on stands before a chunk whose header has arrived.
Ready(n, s) ==
    ~ s.over => s.status = "ok" /\ Available(n, StartOf(s.next)) >= CHUNK_HEADER_SIZE

StoreInv(n, num, first, s) ==
    /\ s \in [status : Statuses, frame : FrameFields, next : 1 .. PastAll, over : BOOLEAN]
    /\ Ready(n, s)
    /\ FrameInv(num, s.frame, End(n))
    /\ FrameInv(num, s.frame, StartOf(s.next))
    /\ s.status = "ok" /\ s.frame.image # NoSize => s.frame.complete
    /\ s.frame.x = first.x /\ s.frame.y = first.y
    /\ s.frame.image = NoSize => s.frame.width = first.width /\ s.frame.height = first.height

\* A file and what has arrived of it.
Given(n) == file \in FilesToParse /\ n \in Nat /\ n <= FileSize

\* Before a chunk whose header has arrived, there is a chunk.
LEMMA HeaderIsThere ==
    ASSUME NEW n, Given(n), NEW k \in 1 .. PastAll,
           Available(n, StartOf(k)) >= CHUNK_HEADER_SIZE
    PROVE  /\ k \in 1 .. Len(file.chunks) /\ End(n) \in Int /\ RiffEnd \in Int
           /\ StartOf(k) \in Nat
           /\ StartOf(k) + CHUNK_HEADER_SIZE <= End(n)
<1>1. RiffEnd \in Int /\ End(n) \in Int /\ End(n) <= n
  BY FilesAssumption DEF Given, RiffEnd, End, LeastOf, CHUNK_HEADER_SIZE
<1>2. StartOf(k) \in Nat /\ StartOf(PastAll) \in Nat /\ PastAll \in Nat /\ PastAll >= 1
  BY Offsets DEF Given, PastAll
<1>3. StartOf(k) + CHUNK_HEADER_SIZE <= End(n)
  BY <1>1, <1>2 DEF Available, CHUNK_HEADER_SIZE
<1>4. k # PastAll
  BY <1>1, <1>2, <1>3 DEF Given, FileSize, PastAll, CHUNK_HEADER_SIZE
<1> QED BY <1>1, <1>2, <1>3, <1>4, Offsets DEF PastAll, Given

\* What lies before one place lies before a later one.
LEMMA EndsLater ==
    ASSUME NEW num, NEW f, NEW a \in Int, NEW b \in Int, a <= b, FrameInv(num, f, a)
    PROVE  FrameInv(num, f, b)
<1>1. f \in FrameFields /\ Reach(f.image) \in Int /\ Reach(f.alpha) \in Int
  BY DEF FrameInv, FrameFields, Extent, Reach
<1> QED BY <1>1 DEF FrameInv

\* What one pass over a chunk that is stored leaves.
LEMMA StorePass ==
    ASSUME NEW n, Given(n), NEW num \in Nat, NEW first, NEW s, StoreInv(n, num, first, s)
    PROVE  StoreInv(n, num, first, StoreFrameChunk(n, num, s))
<1> DEFINE k == s.next
           f == s.frame
           chunk == file.chunks[k]
           begin == StartOf(k) + CHUNK_HEADER_SIZE
           padded == Padded(chunk.size)
           got == LeastOf(padded, Available(n, begin))
           whole == got = padded
           size == CHUNK_HEADER_SIZE + got
           features == Features(chunk, got)
           Stop(status) == [s EXCEPT !.status = status, !.over = TRUE]
           after == AfterChunk(n, begin + got, IF whole THEN "ok" ELSE "more")
           over == after # "ok" \/ begin + got = RiffEnd
           Continue(g) == [status |-> after, frame |-> g, next |-> k + 1, over |-> over]
           withAlpha == [f EXCEPT !.alpha = [offset |-> StartOf(k), size |-> size],
                                  !.has_alpha = TRUE, !.frame_num = num]
           withImage == SetFrameInfo(f, num, chunk, StartOf(k), size, whole)
<1>1. \/ StoreFrameChunk(n, num, s) = s
      \/ ~ s.over /\ \E status \in Statuses : StoreFrameChunk(n, num, s) = Stop(status)
      \/ /\ ~ s.over /\ chunk.id = "ALPH" /\ f.alpha = NoSize
         /\ StoreFrameChunk(n, num, s) = Continue(withAlpha)
      \/ /\ ~ s.over /\ chunk.id \in {"VP8", "VP8L"} /\ f.image = NoSize
         /\ StoreFrameChunk(n, num, s) = Continue(withImage)
  BY DEF StoreFrameChunk, Statuses
<1>2. CASE StoreFrameChunk(n, num, s) = s
  BY <1>2
<1>3. ASSUME ~ s.over, NEW status \in Statuses, StoreFrameChunk(n, num, s) = Stop(status)
      PROVE  StoreInv(n, num, first, Stop(status))
  BY <1>3 DEF StoreInv, Ready
<1>4. ASSUME ~ s.over
      PROVE  /\ k \in 1 .. Len(file.chunks) /\ k + 1 \in 1 .. PastAll
             /\ StartOf(k) \in Nat /\ padded \in Nat /\ got \in Nat /\ got <= padded
             /\ begin + got <= End(n) /\ End(n) \in Int
             /\ chunk.id # "ANMF" => begin + got <= StartOf(k + 1)
             /\ StartOf(k + 1) \in Nat
             /\ StartOf(k) + size = begin + got
             /\ RiffEnd \in Int
  <2>1. k \in 1 .. PastAll /\ Available(n, StartOf(k)) >= CHUNK_HEADER_SIZE
    BY <1>4 DEF StoreInv, Ready
  <2>2. /\ k \in 1 .. Len(file.chunks) /\ End(n) \in Int /\ RiffEnd \in Int
        /\ StartOf(k) \in Nat /\ begin <= End(n)
    BY <2>1, HeaderIsThere
  <2>3. /\ Len(file.chunks) \in Nat
        /\ StartOf(k + 1) = StartOf(k) + LengthOf(chunk)
    BY <2>2, Offsets DEF Given
  <2>4. k + 1 \in 1 .. PastAll
    BY <2>2, <2>3 DEF PastAll
  <2>5. StartOf(k + 1) \in Nat
    BY <2>4, Offsets DEF Given
  <2>6. padded \in Nat /\ (chunk.id # "ANMF" => LengthOf(chunk) = CHUNK_HEADER_SIZE + padded)
    BY <2>2, ChunkFacts DEF Given
  <2>7. begin \in Nat
    BY <2>2 DEF CHUNK_HEADER_SIZE
  <2> HIDE DEF padded
  <2>8. got \in Nat /\ got <= padded /\ begin + got <= End(n)
    BY <2>2, <2>6, <2>7 DEF LeastOf, Available
  <2>9. StartOf(k) + size = begin + got /\ CHUNK_HEADER_SIZE \in Nat
    BY <2>2, <2>8 DEF CHUNK_HEADER_SIZE
  <2>10. chunk.id # "ANMF" => begin + got <= StartOf(k + 1)
    BY <2>2, <2>3, <2>6, <2>8, <2>9
  <2> QED BY <2>2, <2>4, <2>5, <2>6, <2>8, <2>9, <2>10
<1>5. ASSUME ~ s.over, NEW g \in FrameFields, chunk.id # "ANMF",
             FrameInv(num, g, begin + got), g.x = f.x, g.y = f.y,
             g.image # NoSize /\ whole => g.complete,
             g.image = NoSize => /\ f.image = NoSize
                                 /\ g.width = f.width /\ g.height = f.height
      PROVE  StoreInv(n, num, first, Continue(g))
  <2> HIDE DEF got, begin, whole, size, padded
  <2>1. after \in Statuses /\ (after = "ok" => whole) /\ over \in BOOLEAN
    BY DEF AfterChunk, Statuses
  <2>2. begin + got \in Int
    BY <1>4, <1>5 DEF begin, CHUNK_HEADER_SIZE
  <2>3. ASSUME ~ over PROVE after = "ok" /\ Available(n, StartOf(k + 1)) >= CHUNK_HEADER_SIZE
    <3>1. after = "ok" /\ begin + got # RiffEnd
      BY <2>3
    <3>2. Available(n, begin + got) >= CHUNK_HEADER_SIZE
      BY <1>4, <1>5, <2>2, <3>1 DEF AfterChunk, Available, CHUNK_HEADER_SIZE
    <3>3. begin + got = StartOf(k + 1)
      <4>1. StartOf(k + 1) = StartOf(k) + LengthOf(chunk)
        BY <1>4, <1>5, Offsets DEF Given
      <4>2. LengthOf(chunk) = CHUNK_HEADER_SIZE + padded
        BY <1>4, <1>5, ChunkFacts DEF Given, padded
      <4> QED BY <1>4, <1>5, <2>1, <3>1, <4>1, <4>2 DEF whole, begin, CHUNK_HEADER_SIZE
    <3> QED BY <3>1, <3>2, <3>3
  <2> HIDE DEF after, over
  <2>4. /\ Continue(g) \in [status : Statuses, frame : FrameFields, next : 1 .. PastAll,
                            over : BOOLEAN]
        /\ Continue(g).next = k + 1 /\ Continue(g).status = after /\ Continue(g).over = over
        /\ Continue(g).frame = g
    BY <1>4, <1>5, <2>1
  <2> HIDE DEF Continue
  <2>7. Ready(n, Continue(g))
    BY <2>3, <2>4 DEF Ready
  <2>5. FrameInv(num, g, End(n)) /\ FrameInv(num, g, StartOf(k + 1))
    <3>1. begin + got <= End(n) /\ begin + got <= StartOf(k + 1)
      BY <1>4, <1>5
    <3>2. End(n) \in Int /\ StartOf(k + 1) \in Int
      BY <1>4, <1>5
    <3> QED BY <1>5, <2>2, <3>1, <3>2, EndsLater
  <2>6. /\ g.x = first.x /\ g.y = first.y
        /\ g.image = NoSize => g.width = first.width /\ g.height = first.height
        /\ after = "ok" /\ g.image # NoSize => g.complete
    BY <1>5, <2>1 DEF StoreInv
  <2> QED BY <2>4, <2>5, <2>6, <2>7 DEF StoreInv
<1>6. CASE /\ ~ s.over /\ chunk.id = "ALPH" /\ f.alpha = NoSize
           /\ StoreFrameChunk(n, num, s) = Continue(withAlpha)
  <2> DEFINE e == [offset |-> StartOf(k), size |-> size]
  <2>1. f \in FrameFields /\ FrameInv(num, f, StartOf(k)) /\ s.status = "ok"
    BY <1>6 DEF StoreInv, Ready
  <2>0. /\ StartOf(k) \in Nat /\ size \in Nat /\ size > 0 /\ begin + got \in Nat
        /\ StartOf(k) + size = begin + got
    <3>1. StartOf(k) \in Nat /\ got \in Nat /\ StartOf(k) + size = begin + got
      BY <1>4, <1>6
    <3> HIDE DEF got
    <3> QED BY <3>1 DEF CHUNK_HEADER_SIZE
  <2>2. e \in Extent /\ e # NoSize /\ e.size > 0 /\ Reach(e) = begin + got /\ e.offset = StartOf(k)
    BY <2>0 DEF Extent, NoSize, Reach
  <2>3. StartOf(k) <= begin + got /\ StartOf(k) \in Int /\ begin + got \in Int
    BY <2>0
  <2> HIDE DEF e, got, begin, size
  <2>4. /\ withAlpha \in FrameFields /\ withAlpha.alpha = e /\ withAlpha.image = f.image
        /\ withAlpha.frame_num = num /\ withAlpha.complete = f.complete
        /\ withAlpha.x = f.x /\ withAlpha.y = f.y /\ withAlpha.width = f.width
        /\ withAlpha.height = f.height
    BY <2>1, <2>2 DEF FrameFields, e
  <2>5. FrameInv(num, withAlpha, begin + got)
    BY <2>1, <2>2, <2>3, <2>4 DEF FrameInv, FrameFields, Extent, Reach
  <2>6. withAlpha.image # NoSize => withAlpha.complete
    BY <1>6, <2>1, <2>4 DEF StoreInv
  <2> HIDE DEF withAlpha
  <2> QED BY <1>5, <1>6, <2>4, <2>5, <2>6
<1>7. CASE /\ ~ s.over /\ chunk.id \in {"VP8", "VP8L"} /\ f.image = NoSize
           /\ StoreFrameChunk(n, num, s) = Continue(withImage)
  <2> DEFINE e == [offset |-> StartOf(k), size |-> size]
  <2>1. f \in FrameFields /\ FrameInv(num, f, StartOf(k)) /\ s.status = "ok"
    BY <1>7 DEF StoreInv, Ready
  <2>0. /\ StartOf(k) \in Nat /\ size \in Nat /\ size > 0 /\ begin + got \in Nat
        /\ StartOf(k) + size = begin + got
    <3>1. StartOf(k) \in Nat /\ got \in Nat /\ StartOf(k) + size = begin + got
      BY <1>4, <1>7
    <3> HIDE DEF got
    <3> QED BY <3>1 DEF CHUNK_HEADER_SIZE
  <2>2. e \in Extent /\ e # NoSize /\ e.size > 0 /\ Reach(e) = begin + got /\ e.offset = StartOf(k)
    BY <2>0 DEF Extent, NoSize, Reach
  <2>3. StartOf(k) <= begin + got /\ StartOf(k) \in Int /\ begin + got \in Int
    BY <2>0
  <2>4. /\ chunk.width \in Nat /\ chunk.height \in Nat
        /\ chunk.id = "VP8L" => chunk.alpha \in BOOLEAN
    BY <1>4, <1>7, FilesAssumption DEF Given
  <2> HIDE DEF e, got, begin, size, whole
  <2>5. /\ withImage \in FrameFields /\ withImage.image = e /\ withImage.alpha = f.alpha
        /\ withImage.frame_num = num /\ withImage.complete = whole
        /\ withImage.x = f.x /\ withImage.y = f.y
    BY <2>1, <2>2, <2>4 DEF FrameFields, e, SetFrameInfo, CompleteWhen, whole
  <2>6. FrameInv(num, withImage, begin + got)
    BY <2>1, <2>2, <2>3, <2>5 DEF FrameInv, FrameFields, Extent, Reach
  <2> HIDE DEF withImage
  <2> QED BY <1>5, <1>7, <2>2, <2>5, <2>6
<1> QED BY <1>1, <1>2, <1>3, <1>6, <1>7

\* StoreFrame's loop, as far as pass m.
StoreTo(n, num, k, f, loop, i) ==
    IF i = 0 THEN [status |-> "ok", frame |-> f, next |-> k, over |-> FALSE]
    ELSE StoreFrameChunk(n, num, loop[i - 1])

StoreLoop(n, num, k, f, loop, m) == loop = [i \in 0 .. m |-> StoreTo(n, num, k, f, loop, i)]

LEMMA StoreLoopExists ==
    ASSUME NEW n, NEW num, NEW k, NEW f, NEW m \in Nat
    PROVE  \E loop : StoreLoop(n, num, k, f, loop, m)
<1> DEFINE P == {j \in Nat : \E loop : StoreLoop(n, num, k, f, loop, j)}
<1>1. 0 \in P
  <2> DEFINE loop == [i \in 0 .. 0 |-> StoreTo(n, num, k, f, << >>, 0)]
  <2>1. \A i \in 0 .. 0 : StoreTo(n, num, k, f, loop, i) = StoreTo(n, num, k, f, << >>, 0)
    BY DEF StoreTo
  <2>2. loop = [i \in 0 .. 0 |-> StoreTo(n, num, k, f, loop, i)]
    BY <2>1
  <2> HIDE DEF loop
  <2> QED BY <2>2 DEF StoreLoop
<1>2. ASSUME NEW j \in Nat, NEW loop, StoreLoop(n, num, k, f, loop, j)
      PROVE  \E more : StoreLoop(n, num, k, f, more, j + 1)
  <2> DEFINE more == [i \in 0 .. (j + 1) |->
                         IF i = j + 1 THEN StoreTo(n, num, k, f, loop, i) ELSE loop[i]]
  <2>1. ASSUME NEW i \in 0 .. (j + 1) PROVE more[i] = StoreTo(n, num, k, f, more, i)
    <3>1. i # 0 => more[i - 1] = loop[i - 1]
      OBVIOUS
    <3>2. StoreTo(n, num, k, f, more, i) = StoreTo(n, num, k, f, loop, i)
      BY <3>1 DEF StoreTo
    <3>3. i # j + 1 => loop[i] = StoreTo(n, num, k, f, loop, i)
      BY <1>2 DEF StoreLoop
    <3> QED BY <3>2, <3>3
  <2>2. StoreLoop(n, num, k, f, more, j + 1)
    BY <2>1 DEF StoreLoop
  <2> QED BY <2>2
<1>3. \A j \in P : j + 1 \in P
  BY <1>2
<1> HIDE DEF P
<1>4. P = Nat
  BY <1>1, <1>3, Induction DEF P
<1> QED BY <1>4 DEF P

\* The loop of StoreFrame begins with a frame that has nothing yet.
StoreBegin(k, f) == [status |-> "ok", frame |-> f, next |-> k, over |-> FALSE]

LEMMA StoreBegins ==
    ASSUME NEW n, NEW num \in Nat, NEW k \in 1 .. PastAll,
           Available(n, StartOf(k)) >= CHUNK_HEADER_SIZE,
           NEW f \in FrameFields, f.image = NoSize, f.alpha = NoSize, ~ f.complete
    PROVE  StoreInv(n, num, f, StoreBegin(k, f))
<1> DEFINE s == StoreBegin(k, f)
<1>1. /\ s \in [status : Statuses, frame : FrameFields, next : 1 .. PastAll, over : BOOLEAN]
      /\ s.status = "ok" /\ s.frame = f /\ s.next = k
  BY DEF Statuses, StoreBegin
<1>2. \A end : FrameInv(num, f, end)
  BY DEF FrameInv
<1>3. Ready(n, s)
  BY DEF Ready, StoreBegin
<1> HIDE DEF s
<1>4. StoreInv(n, num, f, s)
  BY <1>1, <1>2, <1>3 DEF StoreInv
<1> QED BY <1>4 DEF s

\* StoreFrame is the last of a series of passes.
StorePasses(n, num, k, f, loop) ==
    /\ loop[0] = StoreBegin(k, f)
    /\ \A i \in Nat : i + 1 <= Len(file.chunks) =>
          loop[i + 1] = StoreFrameChunk(n, num, loop[i])
    /\ StoreFrame(n, num, k, f) = loop[Len(file.chunks)]

LEMMA StoreRun ==
    ASSUME file \in FilesToParse, NEW n, NEW num, NEW k, NEW f
    PROVE  \E loop : StorePasses(n, num, k, f, loop)
<1> DEFINE L == Len(file.chunks)
           loop == CHOOSE s : StoreLoop(n, num, k, f, s, L)
<1>1. L \in Nat
  BY Offsets
<1>2. StoreLoop(n, num, k, f, loop, L)
  BY <1>1, StoreLoopExists
<1>3. StoreFrame(n, num, k, f) = loop[L]
  BY DEF StoreFrame, StoreLoop, StoreTo
<1> HIDE DEF loop
<1>4. loop[0] = StoreBegin(k, f)
  BY <1>1, <1>2 DEF StoreLoop, StoreTo, StoreBegin
<1>5. \A i \in Nat : i + 1 <= L => loop[i + 1] = StoreFrameChunk(n, num, loop[i])
  <2> SUFFICES ASSUME NEW i \in Nat, i + 1 <= L
               PROVE  loop[i + 1] = StoreFrameChunk(n, num, loop[i])
    OBVIOUS
  <2>1. i + 1 \in 0 .. L /\ i + 1 # 0 /\ (i + 1) - 1 = i
    BY <1>1
  <2>2. loop[i + 1] = StoreTo(n, num, k, f, loop, i + 1)
    BY <1>2, <2>1 DEF StoreLoop
  <2> QED BY <2>1, <2>2 DEF StoreTo
<1>6. StorePasses(n, num, k, f, loop)
  BY <1>3, <1>4, <1>5 DEF StorePasses
<1> QED BY <1>6

\* What StoreFrame makes of a frame that has nothing yet.
LEMMA Stored ==
    ASSUME NEW n, Given(n), NEW num \in Nat, NEW k \in 1 .. PastAll,
           Available(n, StartOf(k)) >= CHUNK_HEADER_SIZE,
           NEW f \in FrameFields, f.image = NoSize, f.alpha = NoSize, ~ f.complete
    PROVE  StoreInv(n, num, f, StoreFrame(n, num, k, f))
<1> DEFINE L == Len(file.chunks)
<1>0. file \in FilesToParse
  BY DEF Given
<1>1. L \in Nat
  BY Offsets DEF Given
<1>2. PICK loop : StorePasses(n, num, k, f, loop)
  BY <1>0, StoreRun
<1> DEFINE P == {i \in Nat : i <= L => StoreInv(n, num, f, loop[i])}
<1>3. 0 \in P
  BY <1>2, StoreBegins DEF StorePasses
<1>4. ASSUME NEW i \in P PROVE i + 1 \in P
  <2>1. CASE i + 1 <= L
    <3>1. StoreInv(n, num, f, loop[i]) /\ loop[i + 1] = StoreFrameChunk(n, num, loop[i])
      BY <1>1, <1>2, <2>1 DEF StorePasses
    <3>2. StoreInv(n, num, f, loop[i + 1])
      BY <3>1, StorePass
    <3> QED BY <3>2
  <2> QED BY <1>1, <2>1
<1> HIDE DEF P
<1>5. P = Nat
  BY <1>3, <1>4, Induction DEF P
<1>6. StoreInv(n, num, f, loop[L])
  BY <1>1, <1>5 DEF P
<1> QED BY <1>2, <1>6 DEF StorePasses

--------------------------------------------------------------------------------
(* The demuxer *)

DmuxFields ==
    [state : {"parsing header", "parsed header", "done"}, extended : BOOLEAN,
     animation : BOOLEAN, alpha : BOOLEAN, width : Int, height : Int, num_frames : Nat,
     frames : Seq(FrameFields), chunks : Seq(STRING), broken : BOOLEAN,
     overread : BOOLEAN]

\* Frames are counted, numbered, and lie within what has arrived.
DmuxInv(n, d) ==
    /\ d \in DmuxFields
    /\ d.num_frames = Len(d.frames)
    /\ \A i \in 1 .. Len(d.frames) : FrameInv(i, d.frames[i], End(n))

OutcomeInv(n, o) == o.status \in Statuses /\ o.next \in 1 .. PastAll /\ DmuxInv(n, o.dmux)

\* Frames and demuxers begin with nothing.
LEMMA EmptyFrameTyped ==
    EmptyFrame \in FrameFields /\ EmptyFrame.image = NoSize /\ EmptyFrame.alpha = NoSize
      /\ ~ EmptyFrame.complete
BY DEF EmptyFrame, FrameFields, Extent, NoSize

LEMMA InitDemuxInv == \A n : DmuxInv(n, InitDemux)
<1>1. << >> \in Seq(FrameFields) /\ << >> \in Seq(STRING) /\ -1 \in Int /\ 0 \in Nat
  OBVIOUS
<1>2. InitDemux \in DmuxFields /\ InitDemux.frames = << >> /\ InitDemux.num_frames = 0
  BY <1>1 DEF InitDemux, DmuxFields
<1> QED BY <1>2 DEF DmuxInv

\* An image alone, with its alpha or without.
LEMMA SingleFrame ==
    ASSUME NEW n, NEW s, NEW d, DmuxInv(n, d), StoreInv(n, 1, EmptyFrame, s)
    PROVE  OutcomeInv(n, AddSingleImage(s, d))
<1> DEFINE frame == IF d.alpha THEN s.frame
                    ELSE [s.frame EXCEPT !.alpha = NoSize,
                             !.has_alpha = @ /\ s.frame.alpha = NoSize]
           added == [d EXCEPT !.frames = << frame >>, !.num_frames = 1]
           sized == [added EXCEPT !.state = "parsed header", !.width = frame.width,
                         !.height = frame.height, !.alpha = @ \/ frame.has_alpha]
<1>1. /\ s.status \in Statuses /\ s.next \in 1 .. PastAll
      /\ s.frame \in FrameFields /\ FrameInv(1, s.frame, End(n))
      /\ d \in DmuxFields
  BY DEF StoreInv, DmuxInv
<1>2. frame \in FrameFields /\ FrameInv(1, frame, End(n))
  <2>1. CASE d.alpha
    BY <1>1, <2>1
  <2>2. CASE ~ d.alpha
    <3>1. /\ frame \in FrameFields /\ frame.alpha = NoSize /\ frame.image = s.frame.image
          /\ frame.frame_num = s.frame.frame_num /\ frame.complete = s.frame.complete
      BY <1>1, <2>2 DEF FrameFields, Extent, NoSize
    <3> QED BY <1>1, <3>1 DEF FrameInv
  <2> QED BY <2>1, <2>2
<1> HIDE DEF frame
<1>3. \A e : e \in DmuxFields /\ e.frames = << frame >> /\ e.num_frames = 1 => DmuxInv(n, e)
  <2>1. Len(<< frame >>) = 1 /\ << frame >>[1] = frame
    OBVIOUS
  <2> QED BY <1>2, <2>1 DEF DmuxInv
<1>4. added \in DmuxFields /\ added.frames = << frame >> /\ added.num_frames = 1
  <2>1. << frame >> \in Seq(FrameFields) /\ 1 \in Nat
    BY <1>2
  <2> QED BY <1>1, <2>1 DEF DmuxFields
<1>5. sized \in DmuxFields /\ sized.frames = << frame >> /\ sized.num_frames = 1
  <2>1. frame.width \in Int /\ frame.height \in Int /\ (added.alpha \/ frame.has_alpha) \in BOOLEAN
    BY <1>2 DEF FrameFields
  <2> HIDE DEF added
  <2> QED BY <1>4, <2>1 DEF DmuxFields
<1>6. DmuxInv(n, added) /\ DmuxInv(n, sized)
  BY <1>3, <1>4, <1>5
<1>7. /\ AddSingleImage(s, d).dmux \in {d, added, sized}
      /\ AddSingleImage(s, d).status \in Statuses
      /\ AddSingleImage(s, d).next = s.next
  <2> HIDE DEF added, sized
  <2> QED BY <1>1 DEF AddSingleImage, Outcome, Statuses, frame, added, sized
<1> QED BY <1>1, <1>6, <1>7 DEF OutcomeInv

\* The same from the chunks that make it.
LEMMA SingleImage ==
    ASSUME NEW n, Given(n), NEW k \in 1 .. PastAll, NEW d, DmuxInv(n, d)
    PROVE  OutcomeInv(n, ParseSingleImage(n, k, d))
<1>1. CASE SizeIsInvalid(StartOf(k), CHUNK_HEADER_SIZE)
  BY <1>1 DEF ParseSingleImage, Outcome, OutcomeInv, Statuses
<1>2. CASE /\ ~ SizeIsInvalid(StartOf(k), CHUNK_HEADER_SIZE)
           /\ Available(n, StartOf(k)) < CHUNK_HEADER_SIZE
  BY <1>2 DEF ParseSingleImage, Outcome, OutcomeInv, Statuses
<1>3. CASE /\ ~ SizeIsInvalid(StartOf(k), CHUNK_HEADER_SIZE)
           /\ ~ (Available(n, StartOf(k)) < CHUNK_HEADER_SIZE)
  <2>1. Available(n, StartOf(k)) >= CHUNK_HEADER_SIZE
    <3>1. StartOf(k) \in Int /\ End(n) \in Int
      BY Offsets, FilesAssumption DEF Given, End, LeastOf, RiffEnd, CHUNK_HEADER_SIZE
    <3> QED BY <1>3, <3>1 DEF Available, CHUNK_HEADER_SIZE
  <2>2. StoreInv(n, 1, EmptyFrame, StoreFrame(n, 1, k, EmptyFrame))
    BY <2>1, Stored, EmptyFrameTyped
  <2> QED BY <1>3, <2>2, SingleFrame DEF ParseSingleImage
<1> QED BY <1>1, <1>2, <1>3

\* A frame of an animation comes behind those that are there, under its number.
LEMMA AnimationFrame ==
    ASSUME NEW n, Given(n), NEW k \in 1 .. Len(file.chunks), file.chunks[k].id = "ANMF",
           Available(n, StartOf(k)) >= CHUNK_HEADER_SIZE, NEW d, DmuxInv(n, d)
    PROVE  OutcomeInv(n, ParseAnimationFrame(n, k, d))
<1> DEFINE chunk == file.chunks[k]
           begin == StartOf(k) + CHUNK_HEADER_SIZE
           payload == Padded(chunk.size) - ANMF_CHUNK_SIZE
           frame == [EmptyFrame EXCEPT !.x = chunk.x, !.y = chunk.y,
                                       !.width = chunk.width, !.height = chunk.height]
           num == d.num_frames + 1
           stored == StoreFrame(n, num, k + 1, frame)
<1>1. /\ Len(file.chunks) \in Nat /\ k \in 1 .. PastAll /\ k + 1 \in 1 .. PastAll
      /\ StartOf(k) \in Nat /\ StartOf(k + 1) \in Nat
      /\ StartOf(k + 1) = begin + ANMF_CHUNK_SIZE
      /\ End(n) \in Int
  <2>1. /\ Len(file.chunks) \in Nat /\ k \in 1 .. PastAll /\ k + 1 \in 1 .. PastAll
        /\ StartOf(k + 1) = StartOf(k) + LengthOf(chunk)
    BY Offsets DEF Given, PastAll
  <2>2. LengthOf(chunk) = CHUNK_HEADER_SIZE + ANMF_CHUNK_SIZE
    BY ChunkFacts DEF Given
  <2>3. StartOf(k) \in Nat /\ StartOf(k + 1) \in Nat
    BY <2>1, Offsets DEF Given
  <2>4. End(n) \in Int
    BY <2>1, HeaderIsThere
  <2> QED BY <2>1, <2>2, <2>3, <2>4 DEF CHUNK_HEADER_SIZE, ANMF_CHUNK_SIZE
<1>2. d \in DmuxFields /\ num \in Nat
  <2>1. d \in DmuxFields /\ d.num_frames = Len(d.frames)
    BY DEF DmuxInv
  <2>2. d.frames \in Seq(FrameFields)
    BY <2>1 DEF DmuxFields
  <2>3. Len(d.frames) \in Nat
    BY <2>2
  <2> QED BY <2>1, <2>3
<1> DEFINE unread == Available(n, StartOf(k + 1)) < CHUNK_HEADER_SIZE
           marked == [d EXCEPT !.overread = TRUE]
<1>3. DmuxInv(n, marked)
  <2>1. /\ marked \in DmuxFields /\ marked.frames = d.frames
        /\ marked.num_frames = d.num_frames
    BY <1>2 DEF DmuxFields
  <2> HIDE DEF marked
  <2> QED BY <2>1 DEF DmuxInv
<1>4. CASE SizeIsInvalid(begin, ANMF_CHUNK_SIZE) \/ payload < 0
  BY <1>1, <1>4 DEF ParseAnimationFrame, Outcome, OutcomeInv, Statuses
<1>5. CASE /\ ~ (SizeIsInvalid(begin, ANMF_CHUNK_SIZE) \/ payload < 0)
           /\ Available(n, begin) < ANMF_CHUNK_SIZE + payload
  BY <1>1, <1>5 DEF ParseAnimationFrame, Outcome, OutcomeInv, Statuses
<1>6. CASE /\ ~ (SizeIsInvalid(begin, ANMF_CHUNK_SIZE) \/ payload < 0)
           /\ ~ (Available(n, begin) < ANMF_CHUNK_SIZE + payload)
           /\ unread
  <2>1. ParseAnimationFrame(n, k, d) = Outcome("more", marked, k)
    <3> HIDE DEF payload
    <3> QED BY <1>6 DEF ParseAnimationFrame, payload
  <2> HIDE DEF marked
  <2> QED BY <1>1, <1>3, <2>1 DEF Outcome, OutcomeInv, Statuses
<1>7. CASE /\ ~ (SizeIsInvalid(begin, ANMF_CHUNK_SIZE) \/ payload < 0)
           /\ ~ (Available(n, begin) < ANMF_CHUNK_SIZE + payload)
           /\ ~ unread
  <2>1. Available(n, StartOf(k + 1)) >= CHUNK_HEADER_SIZE
    <3> HIDE DEF payload
    <3> QED BY <1>1, <1>7 DEF Available, CHUNK_HEADER_SIZE
  <2>2. /\ frame \in FrameFields /\ frame.image = NoSize /\ frame.alpha = NoSize
        /\ ~ frame.complete
    <3>1. chunk.x \in Nat /\ chunk.y \in Nat /\ chunk.width \in Nat /\ chunk.height \in Nat
      BY FilesAssumption DEF Given
    <3> QED BY <3>1 DEF EmptyFrame, FrameFields, Extent, NoSize
  <2> HIDE DEF frame, num
  <2>3. StoreInv(n, num, frame, stored)
    BY <1>1, <1>2, <2>1, <2>2, Stored
  <2>4. ParseAnimationFrame(n, k, d) = AddAnimationFrame(stored, d)
    BY <1>7 DEF ParseAnimationFrame, frame, num
  <2> HIDE DEF stored
  <2> DEFINE more == [d EXCEPT !.frames = Append(@, stored.frame), !.num_frames = @ + 1]
  <2>5. DmuxInv(n, more)
    <3>1. stored.frame \in FrameFields /\ FrameInv(num, stored.frame, End(n))
      BY <2>3 DEF StoreInv
    <3>2. d.frames \in Seq(FrameFields) /\ d.num_frames = Len(d.frames)
      BY <1>2 DEF DmuxInv, DmuxFields
    <3>3. /\ Append(d.frames, stored.frame) \in Seq(FrameFields)
          /\ Len(Append(d.frames, stored.frame)) = Len(d.frames) + 1
          /\ Append(d.frames, stored.frame)[Len(d.frames) + 1] = stored.frame
          /\ \A i \in 1 .. Len(d.frames) : Append(d.frames, stored.frame)[i] = d.frames[i]
          /\ Len(d.frames) \in Nat
      BY <3>1, <3>2
    <3>4. /\ more \in DmuxFields /\ more.frames = Append(d.frames, stored.frame)
          /\ more.num_frames = Len(d.frames) + 1
      <4>1. d.num_frames + 1 \in Nat
        BY <3>2, <3>3
      <4> QED BY <1>2, <3>2, <3>3, <4>1 DEF DmuxFields
    <3>5. ASSUME NEW i \in 1 .. Len(d.frames) + 1
          PROVE  FrameInv(i, Append(d.frames, stored.frame)[i], End(n))
      <4>1. CASE i = Len(d.frames) + 1
        BY <3>1, <3>2, <3>3, <4>1 DEF num
      <4>2. CASE i # Len(d.frames) + 1
        <5>1. i \in 1 .. Len(d.frames)
          BY <3>3, <4>2
        <5> QED BY <3>3, <5>1 DEF DmuxInv
      <4> QED BY <4>1, <4>2
    <3> HIDE DEF more
    <3> QED BY <3>3, <3>4, <3>5 DEF DmuxInv
  <2>6. /\ AddAnimationFrame(stored, d).dmux \in {d, more}
        /\ AddAnimationFrame(stored, d).status \in Statuses
        /\ AddAnimationFrame(stored, d).next = stored.next
    <3>1. stored.status \in Statuses
      BY <2>3 DEF StoreInv
    <3> HIDE DEF more
    <3> QED BY <3>1 DEF AddAnimationFrame, Outcome, Statuses, more
  <2>7. stored.next \in 1 .. PastAll
    BY <2>3 DEF StoreInv
  <2> QED BY <2>4, <2>5, <2>6, <2>7 DEF OutcomeInv
<1> QED BY <1>4, <1>5, <1>6, <1>7

\* One chunk behind VP8X, of any kind.
LEMMA OneChunk ==
    ASSUME NEW n, Given(n), NEW k \in 1 .. PastAll,
           Available(n, StartOf(k)) >= CHUNK_HEADER_SIZE, NEW d, DmuxInv(n, d)
    PROVE  OutcomeInv(n, ParseChunk(n, k, d))
<1> DEFINE chunk == file.chunks[k]
<1>1. k \in 1 .. Len(file.chunks) /\ k + 1 \in 1 .. PastAll
  BY HeaderIsThere, Offsets DEF Given, PastAll
<1>2. CASE chunk.id \in {"ALPH", "VP8", "VP8L"}
  BY <1>2, SingleImage DEF ParseChunk
<1>3. CASE chunk.id = "ANMF"
  BY <1>1, <1>3, AnimationFrame DEF ParseChunk
<1>4. CASE chunk.id \notin {"ALPH", "VP8", "VP8L", "ANMF"}
  <2> DEFINE store == chunk.id # "ANIM" /\ chunk.announced
             kept == [d EXCEPT !.chunks = Append(@, chunk.id)]
  <2>1. DmuxInv(n, kept)
    <3>1. d \in DmuxFields /\ d.chunks \in Seq(STRING) /\ chunk.id \in STRING
      BY <1>1, FilesAssumption DEF Given, DmuxInv, DmuxFields
    <3>2. Append(d.chunks, chunk.id) \in Seq(STRING)
      BY <3>1
    <3>3. kept \in DmuxFields /\ kept.frames = d.frames /\ kept.num_frames = d.num_frames
      BY <3>1, <3>2 DEF DmuxFields
    <3> QED BY <3>3 DEF DmuxInv
  <2>2. ParseChunk(n, k, d) = PassChunk(n, k, d, store)
    BY <1>4 DEF ParseChunk
  <2> HIDE DEF store, kept
  <2>3. /\ PassChunk(n, k, d, store).dmux \in {d, kept}
        /\ PassChunk(n, k, d, store).status \in Statuses
        /\ PassChunk(n, k, d, store).next \in {k, k + 1}
    BY DEF PassChunk, Outcome, Statuses, kept
  <2> QED BY <1>1, <2>1, <2>2, <2>3 DEF OutcomeInv
<1> QED BY <1>2, <1>3, <1>4

\* The state of the loop over the chunks behind VP8X.
ParseInv(n, s) ==
    /\ s \in [status : Statuses, dmux : DmuxFields, next : 1 .. PastAll, anims : Nat,
              over : BOOLEAN]
    /\ Ready(n, s)
    /\ DmuxInv(n, s.dmux)

\* One pass keeps the demuxer's frames as they are, or adds to them.
LEMMA ParsePass ==
    ASSUME NEW n, Given(n), NEW s, ParseInv(n, s)
    PROVE  ParseInv(n, ParseNextChunk(n, s))
<1> DEFINE one == ParseChunk(n, s.next, s.dmux)
           at == StartOf(one.next) + (IF one.status = "error" THEN CHUNK_HEADER_SIZE ELSE 0)
           status == IF one.status = "more" THEN "more" ELSE AfterChunk(n, at, one.status)
           dmux == [one.dmux EXCEPT !.broken = one.status = "error"]
           anims == s.anims + (IF file.chunks[s.next].id = "ANIM" THEN 1 ELSE 0)
           over == status # "ok" \/ at = RiffEnd
           refused == [s EXCEPT !.status = "error", !.over = TRUE]
           parsed == [status |-> status, next |-> one.next, dmux |-> dmux,
                      anims |-> anims, over |-> over]
<1>1. \/ ParseNextChunk(n, s) = s
      \/ ParseNextChunk(n, s) = refused
      \/ ~ s.over /\ ParseNextChunk(n, s) = parsed
  BY DEF ParseNextChunk
<1>2. ParseInv(n, refused)
  BY DEF ParseInv, Ready, Statuses
<1>3. ASSUME ~ s.over PROVE ParseInv(n, parsed)
  <2>1. /\ s.next \in 1 .. PastAll /\ Available(n, StartOf(s.next)) >= CHUNK_HEADER_SIZE
        /\ DmuxInv(n, s.dmux) /\ s.anims \in Nat
    BY <1>3 DEF ParseInv, Ready
  <2>2. one.status \in Statuses /\ one.next \in 1 .. PastAll /\ DmuxInv(n, one.dmux)
    BY <2>1, OneChunk DEF OutcomeInv
  <2>3. anims \in Nat
    BY <2>1
  <2> HIDE DEF one, anims
  <2>4. status \in Statuses /\ over \in BOOLEAN
    BY <2>2 DEF AfterChunk, Statuses
  <2>5. dmux \in DmuxFields /\ DmuxInv(n, dmux)
    <3>1. one.dmux \in DmuxFields /\ (one.status = "error") \in BOOLEAN
      BY <2>2 DEF DmuxInv
    <3>2. /\ dmux \in DmuxFields /\ dmux.frames = one.dmux.frames
          /\ dmux.num_frames = one.dmux.num_frames
      BY <3>1 DEF DmuxFields
    <3> HIDE DEF dmux
    <3> QED BY <2>2, <3>2 DEF DmuxInv
  <2>6. ASSUME ~ over
        PROVE  status = "ok" /\ Available(n, StartOf(one.next)) >= CHUNK_HEADER_SIZE
    <3>1. StartOf(one.next) \in Nat /\ End(n) \in Int
      BY <2>1, <2>2, HeaderIsThere, Offsets DEF Given
    <3>2. one.status = "ok" /\ status = "ok" /\ at # RiffEnd
      BY <2>2, <2>6 DEF AfterChunk, Statuses
    <3>3. at = StartOf(one.next)
      BY <3>1, <3>2
    <3> QED BY <3>1, <3>2, <3>3 DEF AfterChunk, Available, CHUNK_HEADER_SIZE
  <2> HIDE DEF status, over, dmux
  <2>7. /\ parsed \in [status : Statuses, dmux : DmuxFields, next : 1 .. PastAll, anims : Nat,
                       over : BOOLEAN]
        /\ parsed.next = one.next /\ parsed.status = status /\ parsed.over = over
        /\ parsed.dmux = dmux
    BY <2>2, <2>3, <2>4, <2>5
  <2> HIDE DEF parsed
  <2>8. Ready(n, parsed)
    BY <2>6, <2>7 DEF Ready
  <2> QED BY <2>5, <2>7, <2>8 DEF ParseInv
<1> QED BY <1>1, <1>2, <1>3

\* The loop of ParseVP8XChunks, as far as pass m.
ParseTo(n, k, d, loop, i) ==
    IF i = 0 THEN [status |-> "ok", dmux |-> d, next |-> k, anims |-> 0, over |-> FALSE]
    ELSE ParseNextChunk(n, loop[i - 1])

ParseLoop(n, k, d, loop, m) == loop = [i \in 0 .. m |-> ParseTo(n, k, d, loop, i)]

LEMMA ParseLoopExists ==
    ASSUME NEW n, NEW k, NEW d, NEW m \in Nat
    PROVE  \E loop : ParseLoop(n, k, d, loop, m)
<1> DEFINE P == {j \in Nat : \E loop : ParseLoop(n, k, d, loop, j)}
<1>1. 0 \in P
  <2> DEFINE loop == [i \in 0 .. 0 |-> ParseTo(n, k, d, << >>, 0)]
  <2>1. \A i \in 0 .. 0 : ParseTo(n, k, d, loop, i) = ParseTo(n, k, d, << >>, 0)
    BY DEF ParseTo
  <2>2. loop = [i \in 0 .. 0 |-> ParseTo(n, k, d, loop, i)]
    BY <2>1
  <2> HIDE DEF loop
  <2> QED BY <2>2 DEF ParseLoop
<1>2. ASSUME NEW j \in Nat, NEW loop, ParseLoop(n, k, d, loop, j)
      PROVE  \E more : ParseLoop(n, k, d, more, j + 1)
  <2> DEFINE more == [i \in 0 .. (j + 1) |->
                         IF i = j + 1 THEN ParseTo(n, k, d, loop, i) ELSE loop[i]]
  <2>1. ASSUME NEW i \in 0 .. (j + 1) PROVE more[i] = ParseTo(n, k, d, more, i)
    <3>1. i # 0 => more[i - 1] = loop[i - 1]
      OBVIOUS
    <3>2. ParseTo(n, k, d, more, i) = ParseTo(n, k, d, loop, i)
      BY <3>1 DEF ParseTo
    <3>3. i # j + 1 => loop[i] = ParseTo(n, k, d, loop, i)
      BY <1>2 DEF ParseLoop
    <3> QED BY <3>2, <3>3
  <2>2. ParseLoop(n, k, d, more, j + 1)
    BY <2>1 DEF ParseLoop
  <2> QED BY <2>2
<1>3. \A j \in P : j + 1 \in P
  BY <1>2
<1> HIDE DEF P
<1>4. P = Nat
  BY <1>1, <1>3, Induction DEF P
<1> QED BY <1>4 DEF P

\* The loop over the chunks behind VP8X begins with what the header said.
ParseBegin(k, d) == [status |-> "ok", dmux |-> d, next |-> k, anims |-> 0, over |-> FALSE]

LEMMA ParseBegins ==
    ASSUME NEW n, NEW k \in 1 .. PastAll, Available(n, StartOf(k)) >= CHUNK_HEADER_SIZE,
           NEW d, DmuxInv(n, d)
    PROVE  ParseInv(n, ParseBegin(k, d))
<1> DEFINE s == ParseBegin(k, d)
<1>1. d \in DmuxFields
  BY DEF DmuxInv
<1>2. /\ s \in [status : Statuses, dmux : DmuxFields, next : 1 .. PastAll, anims : Nat,
                over : BOOLEAN]
      /\ s.status = "ok" /\ s.dmux = d /\ s.next = k
  BY <1>1 DEF Statuses, ParseBegin
<1> HIDE DEF s
<1>3. ParseInv(n, s)
  BY <1>2 DEF ParseInv, Ready
<1> QED BY <1>3 DEF s

\* ParseVP8XChunks is the last of a series of passes.
ParsePasses(n, k, d, loop) ==
    /\ loop[0] = ParseBegin(k, d)
    /\ \A i \in Nat : i + 1 <= Len(file.chunks) => loop[i + 1] = ParseNextChunk(n, loop[i])
    /\ ParseVP8XChunks(n, k, d) = loop[Len(file.chunks)]

LEMMA ParseRun ==
    ASSUME file \in FilesToParse, NEW n, NEW k, NEW d
    PROVE  \E loop : ParsePasses(n, k, d, loop)
<1> DEFINE L == Len(file.chunks)
           loop == CHOOSE s : ParseLoop(n, k, d, s, L)
<1>1. L \in Nat
  BY Offsets
<1>2. ParseLoop(n, k, d, loop, L)
  BY <1>1, ParseLoopExists
<1>3. ParseVP8XChunks(n, k, d) = loop[L]
  BY DEF ParseVP8XChunks, ParseLoop, ParseTo
<1> HIDE DEF loop
<1>4. loop[0] = ParseBegin(k, d)
  BY <1>1, <1>2 DEF ParseLoop, ParseTo, ParseBegin
<1>5. \A i \in Nat : i + 1 <= L => loop[i + 1] = ParseNextChunk(n, loop[i])
  <2> SUFFICES ASSUME NEW i \in Nat, i + 1 <= L
               PROVE  loop[i + 1] = ParseNextChunk(n, loop[i])
    OBVIOUS
  <2>1. i + 1 \in 0 .. L /\ i + 1 # 0 /\ (i + 1) - 1 = i
    BY <1>1
  <2>2. loop[i + 1] = ParseTo(n, k, d, loop, i + 1)
    BY <1>2, <2>1 DEF ParseLoop
  <2> QED BY <2>1, <2>2 DEF ParseTo
<1>6. ParsePasses(n, k, d, loop)
  BY <1>3, <1>4, <1>5 DEF ParsePasses
<1> QED BY <1>6

\* All the chunks behind VP8X.
LEMMA AllChunks ==
    ASSUME NEW n, Given(n), NEW k \in 1 .. PastAll,
           Available(n, StartOf(k)) >= CHUNK_HEADER_SIZE, NEW d, DmuxInv(n, d)
    PROVE  ParseInv(n, ParseVP8XChunks(n, k, d))
<1> DEFINE L == Len(file.chunks)
<1>0. file \in FilesToParse
  BY DEF Given
<1>1. L \in Nat
  BY Offsets DEF Given
<1>2. PICK loop : ParsePasses(n, k, d, loop)
  BY <1>0, ParseRun
<1> DEFINE P == {i \in Nat : i <= L => ParseInv(n, loop[i])}
<1>3. 0 \in P
  BY <1>2, ParseBegins DEF ParsePasses
<1>4. ASSUME NEW i \in P PROVE i + 1 \in P
  <2>1. CASE i + 1 <= L
    <3>1. ParseInv(n, loop[i]) /\ loop[i + 1] = ParseNextChunk(n, loop[i])
      BY <1>1, <1>2, <2>1 DEF ParsePasses
    <3>2. ParseInv(n, loop[i + 1])
      BY <3>1, ParsePass
    <3> QED BY <3>2
  <2> QED BY <1>1, <2>1
<1> HIDE DEF P
<1>5. P = Nat
  BY <1>3, <1>4, Induction DEF P
<1>6. ParseInv(n, loop[L])
  BY <1>1, <1>5 DEF P
<1> QED BY <1>2, <1>6 DEF ParsePasses

\* A file with a VP8X header, whatever follows it.
LEMMA Extended ==
    ASSUME NEW n, Given(n), ~ file.raw, file.chunks[1].id = "VP8X"
    PROVE  LET o == ParseVP8X(n, InitDemux) IN o.status \in Statuses /\ DmuxInv(n, o.dmux)
<1> DEFINE chunk == file.chunks[1]
           begin == RIFF_HEADER_SIZE + CHUNK_HEADER_SIZE
           begun == [InitDemux EXCEPT !.extended = TRUE]
           read == [InitDemux EXCEPT !.extended = TRUE, !.state = "parsed header",
                          !.animation = chunk.animation, !.alpha = chunk.alpha,
                          !.width = chunk.width, !.height = chunk.height]
<1>1. DmuxInv(n, InitDemux) /\ InitDemux \in DmuxFields
  BY InitDemuxInv DEF DmuxInv
<1>2. DmuxInv(n, begun)
  <2>1. /\ begun \in DmuxFields /\ begun.frames = InitDemux.frames
        /\ begun.num_frames = InitDemux.num_frames
    BY <1>1 DEF DmuxFields
  <2> HIDE DEF begun
  <2> QED BY <1>1, <2>1 DEF DmuxInv
<1>3. DmuxInv(n, read)
  <2>1. /\ chunk.animation \in BOOLEAN /\ chunk.alpha \in BOOLEAN
        /\ chunk.width \in Int /\ chunk.height \in Int
    BY FilesAssumption, Offsets DEF Given
  <2>2. /\ read \in DmuxFields /\ read.frames = InitDemux.frames
        /\ read.num_frames = InitDemux.num_frames
    BY <1>1, <2>1 DEF DmuxFields
  <2> HIDE DEF read
  <2> QED BY <1>1, <2>2 DEF DmuxInv
<1>4. 2 \in 1 .. PastAll /\ StartOf(2) \in Nat /\ End(n) \in Int
  BY Offsets, FilesAssumption DEF Given, PastAll, End, LeastOf, RiffEnd, CHUNK_HEADER_SIZE
<1> DEFINE parsed == ParseVP8X(n, InitDemux)
           ready == ~ (Available(n, StartOf(2)) < CHUNK_HEADER_SIZE)
<1> HIDE DEF begun, read
<1>5. \/ parsed.status \in Statuses /\ parsed.dmux \in {InitDemux, begun, read}
      \/ ready /\ parsed = ParseVP8XChunks(n, 2, read)
  BY DEF ParseVP8X, Outcome, Statuses, begun, read
<1>6. ASSUME ready PROVE ParseInv(n, ParseVP8XChunks(n, 2, read))
  <2>1. Available(n, StartOf(2)) >= CHUNK_HEADER_SIZE
    BY <1>4, <1>6 DEF Available, CHUNK_HEADER_SIZE
  <2> QED BY <1>3, <1>4, <2>1, AllChunks
<1> HIDE DEF ready, parsed
<1>7. parsed.status \in Statuses /\ DmuxInv(n, parsed.dmux)
  BY <1>1, <1>2, <1>3, <1>5, <1>6 DEF ParseInv
<1> QED BY <1>7 DEF parsed

\* A sequence of one.
LEMMA Alone ==
    ASSUME NEW f
    PROVE  << f >>[1] = f /\ DOMAIN << f >> = {1} /\ Len(<< f >>) = 1 /\ << f >> # << >>
<1>1. << f >>[1] = f /\ Len(<< f >>) = 1 /\ DOMAIN << f >> = 1 .. 1
  OBVIOUS
<1> QED BY <1>1

\* A frame alone fills its canvas, and is all there.
LEMMA SimpleUsable ==
    ASSUME NEW n, Given(n), ~ file.raw,
           NEW o, o = ParseSingleImage(n, 1, InitDemux), o.status = "ok",
           NEW d, d = [o.dmux EXCEPT !.state = "done"], IsValidSimpleFormat(d)
    PROVE  d.frames # << >> /\ Usable(d, End(n))
<1> DEFINE s == StoreFrame(n, 1, 1, EmptyFrame)
           frame == [s.frame EXCEPT !.alpha = NoSize,
                             !.has_alpha = @ /\ s.frame.alpha = NoSize]
           added == [InitDemux EXCEPT !.frames = << frame >>, !.num_frames = 1]
           sized == [added EXCEPT !.state = "parsed header", !.width = frame.width,
                         !.height = frame.height, !.alpha = @ \/ frame.has_alpha]
<1>1. 1 \in 1 .. PastAll /\ StartOf(1) \in Int /\ End(n) \in Int
  BY Offsets, FilesAssumption DEF Given, PastAll, End, LeastOf, RiffEnd, CHUNK_HEADER_SIZE
<1>2. /\ ~ (Available(n, StartOf(1)) < CHUNK_HEADER_SIZE)
      /\ o = AddSingleImage(s, InitDemux)
  BY DEF ParseSingleImage, Outcome
<1>3. Available(n, StartOf(1)) >= CHUNK_HEADER_SIZE
  BY <1>1, <1>2 DEF Available, CHUNK_HEADER_SIZE
<1>4. StoreInv(n, 1, EmptyFrame, s)
  BY <1>1, <1>3, Stored, EmptyFrameTyped
<1> HIDE DEF s
<1>5. /\ s.frame \in FrameFields /\ FrameInv(1, s.frame, End(n))
      /\ s.status = "ok" /\ s.frame.image # NoSize => s.frame.complete
      /\ s.frame.x = 0 /\ s.frame.y = 0
      /\ s.frame.image = NoSize => s.frame.width = 0
  BY <1>4 DEF StoreInv, EmptyFrame
<1>6. /\ frame \in FrameFields /\ frame.alpha = NoSize
      /\ frame.image = s.frame.image /\ frame.frame_num = s.frame.frame_num
      /\ frame.complete = s.frame.complete /\ frame.x = 0 /\ frame.y = 0
      /\ frame.width = s.frame.width /\ frame.height = s.frame.height
  BY <1>5 DEF FrameFields, Extent, NoSize
<1>7. InitDemux.alpha = FALSE /\ InitDemux.extended = FALSE
  BY DEF InitDemux
<1>8. \/ o.status = "ok" /\ s.status = "ok" /\ o.dmux = sized
         /\ frame.width > 0 /\ frame.height > 0
      \/ s.status = "ok" /\ o.dmux = added /\ ~ (frame.width > 0 /\ frame.height > 0)
  <2> DEFINE f == IF InitDemux.alpha THEN s.frame ELSE frame
             a == [InitDemux EXCEPT !.frames = << f >>, !.num_frames = 1]
             b == [a EXCEPT !.state = "parsed header", !.width = f.width,
                       !.height = f.height, !.alpha = @ \/ f.has_alpha]
  <2>1. o = IF s.status = "error" THEN Outcome("error", InitDemux, s.next)
            ELSE IF ~ InitDemux.extended /\ f.width > 0 /\ f.height > 0
            THEN Outcome(s.status, b, s.next)
            ELSE Outcome(s.status, a, s.next)
    BY <1>2 DEF AddSingleImage
  <2>2. f = frame
    BY <1>7
  <2>3. a = added /\ b = sized
    BY <2>2
  <2> HIDE DEF added, sized, frame, f, a, b
  <2>4. s.status # "error" /\ o.status = "ok"
    BY <2>1 DEF Outcome
  <2> QED BY <1>7, <2>1, <2>2, <2>3, <2>4 DEF Outcome
<1> HIDE DEF frame
<1>9. /\ d.frames = << frame >> /\ d.num_frames = 1
      /\ d.state = "done"
      /\ o.dmux = sized => d.width = frame.width /\ d.height = frame.height
  BY <1>8 DEF InitDemux
<1>10. d.frames[1] = frame /\ DOMAIN d.frames = {1} /\ Len(d.frames) = 1 /\ d.frames # << >>
  BY <1>9, Alone
<1>11. frame.width > 0 /\ frame.height > 0
  BY <1>9, <1>10 DEF IsValidSimpleFormat
<1>12. s.status = "ok" /\ d.width = frame.width /\ d.height = frame.height
  BY <1>8, <1>9, <1>11
<1>13. frame.image # NoSize /\ frame.complete
  BY <1>5, <1>6, <1>11, <1>12
<1>14. frame.frame_num = 1 /\ Reach(frame.image) <= End(n)
  BY <1>5, <1>6, <1>13 DEF FrameInv
<1>15. FitsCanvas(frame, d)
  BY <1>6, <1>12 DEF FitsCanvas, FrameFields
<1> QED BY <1>6, <1>9, <1>10, <1>13, <1>14, <1>15 DEF Usable, Reach

\* What the validation of an extended file that is all there leaves.
LEMMA ExtendedUsable ==
    ASSUME NEW n, Given(n), NEW o, DmuxInv(n, o),
           NEW d, d = [o EXCEPT !.state = "done"], IsValidExtendedFormat(d)
    PROVE  d.frames # << >> /\ Usable(d, End(n))
<1>1. /\ d \in DmuxFields /\ d.frames = o.frames /\ d.num_frames = o.num_frames
      /\ d.state = "done"
  <2>1. o \in DmuxFields
    BY DEF DmuxInv
  <2> QED BY <2>1 DEF DmuxFields
<1>2. /\ d.frames \in Seq(FrameFields) /\ d.num_frames = Len(d.frames)
      /\ DOMAIN d.frames = 1 .. Len(d.frames)
      /\ d.width \in Int /\ d.height \in Int
  <2>1. o.num_frames = Len(o.frames)
    BY DEF DmuxInv
  <2>2. d.frames \in Seq(FrameFields) /\ d.width \in Int /\ d.height \in Int
    BY <1>1 DEF DmuxFields
  <2> QED BY <1>1, <2>1, <2>2
<1>3. d.frames # << >> /\ \A i \in DOMAIN d.frames : ValidFrame(d, i)
  BY <1>1 DEF IsValidExtendedFormat
<1>4. ASSUME NEW i \in DOMAIN d.frames
      PROVE  LET f == d.frames[i] IN
             /\ f.frame_num = i /\ f.complete /\ FitsCanvas(f, d)
             /\ f.image.offset + f.image.size <= End(n)
             /\ f.alpha # NoSize => f.alpha.offset + f.alpha.size <= f.image.offset
  <2> DEFINE f == d.frames[i]
  <2>1. FrameInv(i, f, End(n)) /\ f \in FrameFields
    BY <1>1, <1>2, <1>4 DEF DmuxInv, FrameInv
  <2>2. /\ f.complete /\ f.width > 0 /\ f.height > 0
        /\ f.alpha = NoSize \/ f.alpha.offset <= f.image.offset
        /\ CheckFrameBounds(f, d)
    BY <1>1, <1>3 DEF ValidFrame
  <2> HIDE DEF f
  <2>3. f.image # NoSize
    BY <2>1, <2>2 DEF FrameInv
  <2>4. f.frame_num = i /\ Reach(f.image) <= End(n)
    BY <2>1, <2>3 DEF FrameInv
  <2>5. f.alpha # NoSize => Reach(f.alpha) <= f.image.offset
    BY <2>1, <2>2, <2>3 DEF FrameInv, FrameFields, Extent, Reach
  <2>6. FitsCanvas(f, d)
    <3>1. CASE d.animation
      BY <2>2, <3>1 DEF CheckFrameBounds
    <3>2. CASE ~ d.animation
      <4>1. f.x = 0 /\ f.y = 0 /\ f.width = d.width /\ f.height = d.height
        BY <2>2, <3>2 DEF CheckFrameBounds, FillsCanvas
      <4> QED BY <1>2, <4>1 DEF FitsCanvas
    <3> QED BY <3>1, <3>2
  <2> QED BY <2>2, <2>4, <2>5, <2>6 DEF f, Reach
<1> QED BY <1>1, <1>2, <1>3, <1>4 DEF Usable

\* A bitstream without a header is its only frame.
LEMMA RawUsable ==
    ASSUME NEW n, Given(n), file.raw, NEW d, d = CreateRawImageDemuxer(n).dmux, d # None
    PROVE  d.frames # << >> /\ Usable(d, End(n))
<1> DEFINE chunk == file.chunks[1]
           set == SetFrameInfo(EmptyFrame, 1, chunk, 0, n, TRUE)
           frame == [set EXCEPT !.complete = TRUE]
<1>1. /\ chunk.width \in Nat /\ chunk.height \in Nat
      /\ chunk.id = "VP8L" => chunk.alpha \in BOOLEAN
  BY FilesAssumption, Offsets DEF Given
<1>2. set \in FrameFields /\ set.x = 0 /\ set.y = 0 /\ set.width = chunk.width
      /\ set.height = chunk.height /\ set.frame_num = 1 /\ set.alpha = NoSize
      /\ set.image = [offset |-> 0, size |-> n]
  BY <1>1 DEF SetFrameInfo, EmptyFrame, FrameFields, Extent, NoSize, CompleteWhen, Given
<1> HIDE DEF set
<1>3. frame \in FrameFields /\ frame.x = 0 /\ frame.y = 0 /\ frame.width = chunk.width
      /\ frame.height = chunk.height /\ frame.frame_num = 1 /\ frame.alpha = NoSize
      /\ frame.image = [offset |-> 0, size |-> n] /\ frame.complete
  BY <1>2 DEF FrameFields
<1>4. d = [InitDemux EXCEPT !.state = "done", !.width = frame.width,
              !.height = frame.height, !.alpha = frame.has_alpha,
              !.num_frames = 1, !.frames = << frame >>]
  BY DEF CreateRawImageDemuxer, set
<1> HIDE DEF frame
<1>5. /\ d.frames = << frame >> /\ d.num_frames = 1
      /\ d.width = frame.width /\ d.height = frame.height
  BY <1>4 DEF InitDemux
<1>6. d.frames[1] = frame /\ DOMAIN d.frames = {1} /\ Len(d.frames) = 1 /\ d.frames # << >>
  BY <1>5, Alone
<1>7. End(n) = n /\ n \in Nat
  BY DEF End, Given
<1>8. FitsCanvas(frame, d)
  BY <1>1, <1>3, <1>5 DEF FitsCanvas
<1> QED BY <1>3, <1>5, <1>6, <1>7, <1>8 DEF Usable

\* A demuxer of bytes that were given as a whole file.
LEMMA WholeUsable ==
    ASSUME NEW n, Given(n), NEW d, d = WebPDemuxInternal(n, FALSE).dmux, Known(d)
    PROVE  d.frames # << >> /\ Usable(d, End(n))
<1> DEFINE master == file.chunks[1].id
           parsed == IF master = "VP8X" THEN ParseVP8X(n, InitDemux)
                     ELSE IF master \in {"VP8", "VP8L"} THEN ParseSingleImage(n, 1, InitDemux)
                     ELSE Outcome("error", InitDemux, 1)
           e == [parsed.dmux EXCEPT !.state = IF parsed.status = "ok" THEN "done" ELSE @]
<1>1. CASE file.raw
  <2>1. d = CreateRawImageDemuxer(n).dmux
    BY <1>1 DEF WebPDemuxInternal, Known
  <2> QED BY <1>1, <2>1, RawUsable DEF Known
<1>2. CASE ~ file.raw
  <2>1. ~ (n < RiffEnd) /\ d = Demuxed(n, master, parsed).dmux
    <3> HIDE DEF parsed, master
    <3> QED BY <1>2 DEF WebPDemuxInternal, Known, master, parsed
  <2>2. /\ parsed.status = "ok" /\ d = e
        /\ IF master = "VP8X" THEN IsValidExtendedFormat(d) ELSE IsValidSimpleFormat(d)
    <3> HIDE DEF parsed, master
    <3>1. ~ parsed.dmux.overread
      BY <2>1 DEF Demuxed, Unknown, Known, InitDemux
    <3> QED BY <2>1, <3>1 DEF Demuxed, Known
  <2>3. d = [parsed.dmux EXCEPT !.state = "done"]
    <3> HIDE DEF parsed
    <3> QED BY <2>2
  <2>4. CASE master = "VP8X"
    <3>1. parsed = ParseVP8X(n, InitDemux)
      BY <2>4
    <3> HIDE DEF parsed
    <3>2. DmuxInv(n, parsed.dmux)
      BY <1>2, <2>4, <3>1, Extended
    <3> QED BY <2>2, <2>3, <2>4, <3>2, ExtendedUsable
  <2>5. CASE master \in {"VP8", "VP8L"}
    <3>1. parsed = ParseSingleImage(n, 1, InitDemux) /\ master # "VP8X"
      BY <2>5
    <3> HIDE DEF parsed, master
    <3> QED BY <1>2, <2>2, <2>3, <3>1, SimpleUsable
  <2>6. CASE master \notin {"VP8", "VP8L", "VP8X"}
    <3>1. parsed = Outcome("error", InitDemux, 1)
      BY <2>6
    <3> QED BY <2>2, <3>1 DEF Outcome
  <2> QED BY <2>4, <2>5, <2>6
<1> QED BY <1>1, <1>2

--------------------------------------------------------------------------------
(* The same file with fewer bytes and with more: a frame *)

\* More bytes reach further, and never beyond what the header claims.
LEMMA MoreIsThere ==
    ASSUME NEW n, Given(n), NEW m, Given(m), n <= m, ~ file.raw
    PROVE  /\ End(n) \in Int /\ End(m) \in Int /\ RiffEnd \in Int
           /\ End(n) <= End(m) /\ End(m) <= RiffEnd
BY FilesAssumption DEF Given, RiffEnd, End, LeastOf, CHUNK_HEADER_SIZE

LateAlpha(g) == g.alpha # NoSize /\ g.alpha.offset > g.image.offset

\* What a frame f that was cut short, or seemed to be, has become.
Grown(f, g) ==
    /\ f.image # NoSize => g.image # NoSize /\ g.width = f.width /\ g.height = f.height
    /\ f.complete =>
          /\ g.complete
          /\ \/ g = f
             \/ /\ LateAlpha(g)
                /\ \E a, h : g = [f EXCEPT !.alpha = a, !.has_alpha = h]

SameOrMore(s, t) == s = t \/ (s.over /\ s.status = "more" /\ Grown(s.frame, t.frame))

\* A frame that goes on growing.
LEMMA GrowsOn ==
    ASSUME NEW m, Given(m), NEW num \in Nat, NEW first, NEW t, StoreInv(m, num, first, t),
           NEW f \in FrameFields, Grown(f, t.frame), NEW end, FrameInv(num, f, end)
    PROVE  Grown(f, StoreFrameChunk(m, num, t).frame)
<1> DEFINE k == t.next
           g == t.frame
           chunk == file.chunks[k]
           begin == StartOf(k) + CHUNK_HEADER_SIZE
           padded == Padded(chunk.size)
           got == LeastOf(padded, Available(m, begin))
           whole == got = padded
           size == CHUNK_HEADER_SIZE + got
           withAlpha == [g EXCEPT !.alpha = [offset |-> StartOf(k), size |-> size],
                                  !.has_alpha = TRUE, !.frame_num = num]
           withImage == SetFrameInfo(g, num, chunk, StartOf(k), size, whole)
           next == StoreFrameChunk(m, num, t).frame
<1>1. /\ g \in FrameFields /\ FrameInv(num, g, StartOf(k))
      /\ k \in 1 .. PastAll
      /\ StartOf(k) \in Nat
  BY Offsets DEF StoreInv, Given
<1>2. \/ next = g
      \/ g.alpha = NoSize /\ next = withAlpha
      \/ g.image = NoSize /\ next = withImage
  <2> HIDE DEF withAlpha, withImage
  <2> QED BY DEF StoreFrameChunk, withAlpha, withImage
<1>3. f.complete => f.image # NoSize /\ f.frame_num = num
  BY DEF FrameInv
<1>4. CASE next = g
  BY <1>4
<1>5. CASE g.alpha = NoSize /\ next = withAlpha
  <2> DEFINE e == [offset |-> StartOf(k), size |-> size]
  <2>1. /\ withAlpha.image = g.image /\ withAlpha.width = g.width
        /\ withAlpha.height = g.height /\ withAlpha.complete = g.complete
        /\ withAlpha.alpha = e
    BY <1>1 DEF FrameFields
  <2>2. ASSUME f.complete
        PROVE  LateAlpha(next) /\ \E a, h : next = [f EXCEPT !.alpha = a, !.has_alpha = h]
    <3>1. g = f
      BY <1>5, <2>2 DEF Grown, LateAlpha
    <3>2. withAlpha = [f EXCEPT !.alpha = e, !.has_alpha = TRUE]
      BY <1>3, <2>2, <3>1 DEF FrameFields
    <3>3. f.image.offset < StartOf(k)
      <4>1. f.image.size > 0 /\ Reach(f.image) <= StartOf(k)
        BY <1>1, <1>3, <2>2, <3>1 DEF FrameInv
      <4> QED BY <1>1, <4>1 DEF Reach, FrameFields, Extent
    <3>4. LateAlpha(next)
      <4>1. e # NoSize /\ e.offset = StartOf(k)
        <5>1. f.image.offset \in Nat
          BY DEF FrameFields, Extent
        <5> QED BY <1>1, <3>3, <5>1 DEF NoSize
      <4> HIDE DEF e, withAlpha
      <4> QED BY <1>1, <1>5, <2>1, <3>1, <3>3, <4>1 DEF LateAlpha, FrameFields, Extent
    <3> QED BY <1>5, <3>2, <3>4
  <2>3. f.image # NoSize => next.image # NoSize /\ next.width = f.width /\ next.height = f.height
    BY <1>5, <2>1 DEF Grown
  <2>4. f.complete => next.complete
    BY <1>5, <2>1 DEF Grown
  <2> QED BY <2>2, <2>3, <2>4 DEF Grown
<1>6. CASE g.image = NoSize /\ next = withImage
  <2>1. f.image = NoSize /\ ~ f.complete
    BY <1>3, <1>6 DEF Grown
  <2> QED BY <2>1 DEF Grown
<1> QED BY <1>2, <1>4, <1>5, <1>6

\* A frame is what it is.
LEMMA GrownAsItIs == \A f : Grown(f, f)
BY DEF Grown

\* The features of a bitstream, once known, stay.
LEMMA FeaturesStay ==
    ASSUME NEW chunk, NEW a \in Nat, NEW b \in Nat, a <= b
    PROVE  Features(chunk, a) # "not enough" => Features(chunk, b) = Features(chunk, a)
<1> DEFINE least == IF chunk.id = "VP8L" THEN VP8L_FRAME_HEADER_SIZE ELSE VP8_FRAME_HEADER_SIZE
<1>1. least \in Nat
  BY DEF VP8L_FRAME_HEADER_SIZE, VP8_FRAME_HEADER_SIZE
<1>2. \A size : Features(chunk, size) = IF size < least THEN "not enough"
                                        ELSE IF chunk.broken THEN "error" ELSE "ok"
  BY DEF Features
<1> HIDE DEF least
<1>3. ~ (a < least) => ~ (b < least)
  BY <1>1
<1> QED BY <1>2, <1>3

\* One pass over the same chunk, with fewer bytes and with more.
LEMMA SameChunkStored ==
    ASSUME NEW n, Given(n), NEW m, Given(m), n <= m, ~ file.raw, NEW num \in Nat, NEW first,
           NEW s, StoreInv(n, num, first, s), StoreInv(m, num, first, s)
    PROVE  SameOrMore(StoreFrameChunk(n, num, s), StoreFrameChunk(m, num, s))
<1> DEFINE k == s.next
           f == s.frame
           chunk == file.chunks[k]
           begin == StartOf(k) + CHUNK_HEADER_SIZE
           padded == Padded(chunk.size)
           Got(l) == LeastOf(padded, Available(l, begin))
           Whole(l) == Got(l) = padded
           features(l) == Features(chunk, Got(l))
           Stop(status) == [s EXCEPT !.status = status, !.over = TRUE]
           After(l) == AfterChunk(l, begin + Got(l), IF Whole(l) THEN "ok" ELSE "more")
           Continue(l, g) == [status |-> After(l), frame |-> g, next |-> k + 1,
                              over |-> After(l) # "ok" \/ begin + Got(l) = RiffEnd]
           WithAlpha(l) == [f EXCEPT !.alpha = [offset |-> StartOf(k),
                                                size |-> CHUNK_HEADER_SIZE + Got(l)],
                                     !.has_alpha = TRUE, !.frame_num = num]
           WithImage(l) == SetFrameInfo(f, num, chunk, StartOf(k),
                                        CHUNK_HEADER_SIZE + Got(l), Whole(l))
           Pass(l) == StoreFrameChunk(l, num, s)
<1>1. CASE s.over
  BY <1>1 DEF StoreFrameChunk, SameOrMore
<1>2. CASE ~ s.over
  <2>1. /\ k \in 1 .. Len(file.chunks) /\ StartOf(k) \in Nat /\ padded \in Nat
        /\ begin <= End(n) /\ begin \in Nat
    <3>1. k \in 1 .. PastAll /\ Available(n, StartOf(k)) >= CHUNK_HEADER_SIZE
      BY <1>2 DEF StoreInv, Ready
    <3>2. /\ k \in 1 .. Len(file.chunks) /\ StartOf(k) \in Nat /\ begin <= End(n)
      BY <3>1, HeaderIsThere
    <3>3. padded \in Nat
      BY <3>2, ChunkFacts DEF Given
    <3> QED BY <3>2, <3>3 DEF CHUNK_HEADER_SIZE
  <2>2. /\ End(n) \in Int /\ End(m) \in Int /\ RiffEnd \in Int
        /\ End(n) <= End(m) /\ End(m) <= RiffEnd
    BY MoreIsThere
  <2> HIDE DEF padded, begin
  <2>3. /\ Got(n) \in Nat /\ Got(m) \in Nat /\ Got(n) <= Got(m) /\ Got(m) <= padded
        /\ Whole(n) => Whole(m)
        /\ ~ Whole(n) => begin + Got(n) = End(n) /\ Got(n) < padded
    BY <2>1, <2>2 DEF LeastOf, Available
  <2>4. ASSUME ~ SizeIsInvalid(begin, padded)
        PROVE  /\ ~ Whole(n) => After(n) = "more"
               /\ Whole(n) => \/ After(n) = "more"
                              \/ After(n) = After(m)
    <3>1. padded <= RiffEnd - begin
      BY <2>1, <2>2, <2>4 DEF SizeIsInvalid
    <3>2. ASSUME ~ Whole(n) PROVE After(n) = "more"
      <4>1. begin + Got(n) = End(n) /\ Got(n) < padded
        BY <2>3, <3>2
      <4>2. Available(n, begin + Got(n)) < CHUNK_HEADER_SIZE
        BY <2>2, <4>1 DEF Available, CHUNK_HEADER_SIZE
      <4> HIDE DEF Got
      <4> QED BY <3>2, <4>2 DEF AfterChunk
    <3>3. ASSUME Whole(n) PROVE After(n) = "more" \/ After(n) = After(m)
      <4>1. Whole(m) /\ Got(n) = Got(m)
        BY <2>3, <3>3
      <4> HIDE DEF Got
      <4>2. begin + Got(n) \in Int
        BY <2>1, <2>3
      <4>3. Available(n, begin + Got(n)) >= CHUNK_HEADER_SIZE
               => Available(m, begin + Got(n)) >= CHUNK_HEADER_SIZE
        BY <2>2, <4>2 DEF Available, CHUNK_HEADER_SIZE
      <4> QED BY <2>2, <3>3, <4>1, <4>2, <4>3 DEF AfterChunk, Available, CHUNK_HEADER_SIZE
    <3> QED BY <3>2, <3>3
  <2> HIDE DEF Got
  <2>5. ASSUME SizeIsInvalid(begin, padded) PROVE Pass(n) = Pass(m)
    BY <1>2, <2>5 DEF StoreFrameChunk, begin, padded
  <2>6. ASSUME ~ SizeIsInvalid(begin, padded), NEW l \in {n, m}
        PROVE  /\ chunk.id = "ALPH" /\ f.alpha = NoSize => Pass(l) = Continue(l, WithAlpha(l))
               /\ chunk.id = "VP8L" /\ f.alpha # NoSize => Pass(l) = Stop("error")
               /\ /\ chunk.id \in {"VP8", "VP8L"} /\ f.image = NoSize
                  /\ ~ (chunk.id = "VP8L" /\ f.alpha # NoSize)
                  => Pass(l) = IF features(l) = "ok" THEN Continue(l, WithImage(l))
                               ELSE Stop(IF features(l) = "not enough" /\ ~ Whole(l)
                                         THEN "more" ELSE "error")
               /\ /\ ~ (chunk.id = "ALPH" /\ f.alpha = NoSize)
                  /\ ~ (chunk.id = "VP8L" /\ f.alpha # NoSize)
                  /\ ~ (chunk.id \in {"VP8", "VP8L"} /\ f.image = NoSize)
                  => Pass(l) = Stop(IF Whole(l) THEN "ok" ELSE "more")
    BY <1>2, <2>6 DEF StoreFrameChunk, begin, padded, Got
  <2>7. ASSUME ~ SizeIsInvalid(begin, padded), NEW g, NEW h, Grown(g, h),
               Whole(n) => g = h,
               Pass(n) = Continue(n, g), Pass(m) = Continue(m, h)
        PROVE  SameOrMore(Pass(n), Pass(m))
    <3>1. CASE After(n) = "more"
      <4>1. /\ Pass(n).status = "more" /\ Pass(n).frame = g /\ Pass(m).frame = h
            /\ Pass(n).over = (After(n) # "ok" \/ begin + Got(n) = RiffEnd)
        BY <2>7, <3>1
      <4>2. Pass(n).over
        BY <3>1, <4>1
      <4> QED BY <2>7, <4>1, <4>2 DEF SameOrMore
    <3>2. CASE After(n) # "more"
      <4>1. Whole(n) /\ After(n) = After(m) /\ Got(n) = Got(m)
        <5>1. Whole(n) /\ After(n) = After(m)
          BY <2>4, <2>7, <3>2
        <5> QED BY <2>3, <5>1
      <4>2. Continue(n, g) = Continue(m, h)
        BY <2>7, <4>1
      <4> QED BY <2>7, <4>2 DEF SameOrMore
    <3> QED BY <3>1, <3>2
  <2>8. CASE SizeIsInvalid(begin, padded)
    BY <2>5, <2>8 DEF SameOrMore
  <2>9. CASE ~ SizeIsInvalid(begin, padded) /\ chunk.id = "ALPH" /\ f.alpha = NoSize
    <3>1. Pass(n) = Continue(n, WithAlpha(n)) /\ Pass(m) = Continue(m, WithAlpha(m))
      BY <2>6, <2>9
    <3>2. Whole(n) => WithAlpha(n) = WithAlpha(m)
      BY <2>3
    <3>3. Grown(WithAlpha(n), WithAlpha(m))
      <4> DEFINE e(l) == [offset |-> StartOf(k), size |-> CHUNK_HEADER_SIZE + Got(l)]
      <4>1. f \in FrameFields /\ FrameInv(num, f, StartOf(k))
        BY DEF StoreInv
      <4>2. \A l \in {n, m} :
               /\ WithAlpha(l) = [f EXCEPT !.alpha = e(l), !.has_alpha = TRUE, !.frame_num = num]
               /\ WithAlpha(l).image = f.image /\ WithAlpha(l).alpha = e(l)
               /\ WithAlpha(l).width = f.width /\ WithAlpha(l).height = f.height
               /\ WithAlpha(l).complete = f.complete
        BY <4>1 DEF FrameFields
      <4>3. ASSUME f.complete
            PROVE  /\ LateAlpha(WithAlpha(m))
                   /\ WithAlpha(m) = [WithAlpha(n) EXCEPT !.alpha = e(m), !.has_alpha = TRUE]
        <5>1. WithAlpha(m) = [WithAlpha(n) EXCEPT !.alpha = e(m), !.has_alpha = TRUE]
          BY <4>1, <4>2 DEF FrameFields
        <5>2. f.image.offset \in Nat /\ f.image.offset < StartOf(k)
          <6>1. f.image # NoSize /\ f.image.size > 0 /\ Reach(f.image) <= StartOf(k)
            BY <4>1, <4>3 DEF FrameInv
          <6> QED BY <2>1, <4>1, <6>1 DEF Reach, FrameFields, Extent
        <5>3. e(m) # NoSize /\ e(m).offset = StartOf(k)
          BY <2>1, <5>2 DEF NoSize
        <5> HIDE DEF e, WithAlpha
        <5>4. LateAlpha(WithAlpha(m))
          BY <2>1, <4>2, <5>2, <5>3 DEF LateAlpha
        <5> QED BY <5>1, <5>4
      <4> HIDE DEF WithAlpha, e
      <4> QED BY <4>2, <4>3 DEF Grown
    <3> QED BY <2>7, <2>9, <3>1, <3>2, <3>3
  <2>10. CASE ~ SizeIsInvalid(begin, padded) /\ chunk.id = "VP8L" /\ f.alpha # NoSize
    BY <2>6, <2>10 DEF SameOrMore
  <2>11. CASE /\ ~ SizeIsInvalid(begin, padded)
              /\ chunk.id \in {"VP8", "VP8L"} /\ f.image = NoSize
              /\ ~ (chunk.id = "VP8L" /\ f.alpha # NoSize)
    <3>1. \A l \in {n, m} :
             Pass(l) = IF features(l) = "ok" THEN Continue(l, WithImage(l))
                       ELSE Stop(IF features(l) = "not enough" /\ ~ Whole(l)
                                 THEN "more" ELSE "error")
      BY <2>6, <2>11
    <3>2. features(n) # "not enough" => features(m) = features(n)
      BY <2>3, FeaturesStay
    <3>3. s \in [status : Statuses, frame : FrameFields, next : 1 .. PastAll, over : BOOLEAN]
      BY DEF StoreInv
    <3>4. f.image = NoSize /\ ~ f.complete
      BY <2>11 DEF StoreInv, FrameInv
    <3> HIDE DEF features
    <3>5. CASE features(n) = "ok"
      <4>1. Pass(n) = Continue(n, WithImage(n)) /\ Pass(m) = Continue(m, WithImage(m))
        BY <3>1, <3>2, <3>5
      <4>2. Whole(n) => WithImage(n) = WithImage(m)
        BY <2>3
      <4>3. Grown(WithImage(n), WithImage(m))
        <5>1. CASE Whole(n)
          BY <4>2, <5>1, GrownAsItIs
        <5>2. CASE ~ Whole(n)
          <6> DEFINE e(l) == [offset |-> StartOf(k), size |-> CHUNK_HEADER_SIZE + Got(l)]
          <6>1. \A l \in {n, m} :
                   /\ WithImage(l).image = e(l)
                   /\ WithImage(l).width = chunk.width /\ WithImage(l).height = chunk.height
                   /\ WithImage(l).complete = Whole(l)
            BY <3>3 DEF SetFrameInfo, CompleteWhen, FrameFields
          <6>2. e(m) # NoSize
            <7>1. e(m).size # 0
              BY <2>3 DEF CHUNK_HEADER_SIZE
            <7> QED BY <7>1 DEF NoSize
          <6> HIDE DEF WithImage, e
          <6> QED BY <5>2, <6>1, <6>2 DEF Grown
        <5> QED BY <5>1, <5>2
      <4> QED BY <2>7, <2>11, <4>1, <4>2, <4>3
    <3>6. CASE features(n) = "not enough" /\ ~ Whole(n)
      <4>1. Pass(n) = Stop("more")
        BY <3>1, <3>6
      <4>2. Pass(n).over /\ Pass(n).status = "more" /\ Pass(n).frame = f
        BY <3>3, <4>1
      <4>3. \A g : Grown(f, g)
        BY <3>4 DEF Grown
      <4> QED BY <4>2, <4>3 DEF SameOrMore
    <3>7. CASE features(n) # "ok" /\ ~ (features(n) = "not enough" /\ ~ Whole(n))
      <4>1. Pass(n) = Stop("error") /\ Pass(m) = Stop("error")
        <5>1. Whole(n) => features(m) = features(n)
          BY <2>3 DEF features
        <5> QED BY <2>3, <3>1, <3>2, <3>7, <5>1
      <4> QED BY <4>1 DEF SameOrMore
    <3> QED BY <3>5, <3>6, <3>7
  <2>12. CASE /\ ~ SizeIsInvalid(begin, padded)
              /\ ~ (chunk.id = "ALPH" /\ f.alpha = NoSize)
              /\ ~ (chunk.id = "VP8L" /\ f.alpha # NoSize)
              /\ ~ (chunk.id \in {"VP8", "VP8L"} /\ f.image = NoSize)
    <3>1. \A l \in {n, m} : Pass(l) = Stop(IF Whole(l) THEN "ok" ELSE "more")
      BY <2>6, <2>12
    <3>2. CASE Whole(n)
      BY <2>3, <3>1, <3>2 DEF SameOrMore
    <3>3. CASE ~ Whole(n)
      <4>1. s \in [status : Statuses, frame : FrameFields, next : 1 .. PastAll, over : BOOLEAN]
        BY DEF StoreInv
      <4>2. Pass(n) = Stop("more") /\ \E status : Pass(m) = Stop(status)
        BY <3>1, <3>3
      <4>3. Pass(n).over /\ Pass(n).status = "more" /\ Pass(n).frame = f /\ Pass(m).frame = f
        BY <4>1, <4>2
      <4> QED BY <4>3, GrownAsItIs DEF SameOrMore
    <3> QED BY <3>2, <3>3
  <2> QED BY <2>8, <2>9, <2>10, <2>11, <2>12
<1> QED BY <1>1, <1>2

\* More bytes make the same of the frame, or more.
LEMMA StoredGrows ==
    ASSUME NEW n, Given(n), NEW m, Given(m), n <= m, ~ file.raw, NEW num \in Nat,
           NEW k \in 1 .. PastAll, Available(n, StartOf(k)) >= CHUNK_HEADER_SIZE,
           Available(m, StartOf(k)) >= CHUNK_HEADER_SIZE,
           NEW f \in FrameFields, f.image = NoSize, f.alpha = NoSize, ~ f.complete
    PROVE  SameOrMore(StoreFrame(n, num, k, f), StoreFrame(m, num, k, f))
<1> DEFINE L == Len(file.chunks)
<1>1. L \in Nat
  BY Offsets DEF Given
<1>0. file \in FilesToParse
  BY DEF Given
<1>2. PICK a : StorePasses(n, num, k, f, a)
  BY <1>0, StoreRun
<1>3. PICK b : StorePasses(m, num, k, f, b)
  BY <1>0, StoreRun
<1> DEFINE Both(i) == /\ StoreInv(n, num, f, a[i]) /\ StoreInv(m, num, f, b[i])
                      /\ SameOrMore(a[i], b[i])
           P == {i \in Nat : i <= L => Both(i)}
<1>4. 0 \in P
  <2>1. /\ StoreInv(n, num, f, StoreBegin(k, f)) /\ StoreInv(m, num, f, StoreBegin(k, f))
    BY StoreBegins
  <2> QED BY <1>2, <1>3, <2>1 DEF SameOrMore, StorePasses
<1>5. ASSUME NEW i \in Nat, i + 1 <= L, Both(i) PROVE Both(i + 1)
  <2> DEFINE s == a[i]
             t == b[i]
             s1 == StoreFrameChunk(n, num, s)
             t1 == StoreFrameChunk(m, num, t)
  <2>1. a[i + 1] = s1 /\ b[i + 1] = t1
    BY <1>2, <1>3, <1>5 DEF StorePasses
  <2>2. StoreInv(n, num, f, s) /\ StoreInv(m, num, f, t) /\ SameOrMore(s, t)
    BY <1>5
  <2> HIDE DEF s, t
  <2>3. StoreInv(n, num, f, s1) /\ StoreInv(m, num, f, t1)
    BY <2>2, StorePass
  <2>4. ASSUME s = t PROVE SameOrMore(s1, t1)
    <3>1. StoreInv(m, num, f, s)
      BY <2>2, <2>4
    <3>2. SameOrMore(StoreFrameChunk(n, num, s), StoreFrameChunk(m, num, s))
      BY <2>2, <3>1, SameChunkStored
    <3> QED BY <2>4, <3>2
  <2>5. ASSUME s.over, s.status = "more", Grown(s.frame, t.frame) PROVE SameOrMore(s1, t1)
    <3>1. s1 = s
      BY <2>5 DEF StoreFrameChunk
    <3>2. s.frame \in FrameFields /\ FrameInv(num, s.frame, End(n))
      BY <2>2 DEF StoreInv
    <3>3. Grown(s.frame, t1.frame)
      BY <2>2, <2>5, <3>2, GrowsOn
    <3> HIDE DEF s1, t1
    <3> QED BY <2>5, <3>1, <3>3 DEF SameOrMore
  <2> HIDE DEF s1, t1
  <2>6. SameOrMore(s1, t1)
    BY <2>2, <2>4, <2>5 DEF SameOrMore
  <2> QED BY <2>1, <2>3, <2>6
<1>6. \A i \in P : i + 1 \in P
  <2> SUFFICES ASSUME NEW i \in P, i + 1 <= L PROVE Both(i + 1)
    OBVIOUS
  <2>1. i \in Nat /\ Both(i)
    BY <1>1
  <2> HIDE DEF P, Both
  <2> QED BY <1>5, <2>1
<1> HIDE DEF P
<1>7. P = Nat
  BY <1>4, <1>6, Induction DEF P
<1>8. Both(L)
  BY <1>1, <1>7 DEF P
<1> QED BY <1>2, <1>3, <1>8 DEF StorePasses

--------------------------------------------------------------------------------
(* The same file with fewer bytes and with more: the demuxer *)

\* Every frame complete in d is complete in e, where alpha may have come too late.
KeptBy(d, e) ==
    \A i \in DOMAIN d.frames : d.frames[i].complete =>
        \/ StillThere(d.frames[i], i, e)
        \/ i \in DOMAIN e.frames /\ e.frames[i].complete /\ LateAlpha(e.frames[i])

\* What two parses of one chunk give.
OutcomeGrows(o, p) ==
    o = p \/ (o.status = "more" /\ (p.status = "error" \/ KeptBy(o.dmux, p.dmux)))

\* The frame of an image alone, as AddSingleImage leaves it.
Adjusted(f, d) ==
    IF d.alpha THEN f
    ELSE [f EXCEPT !.alpha = NoSize, !.has_alpha = @ /\ f.alpha = NoSize]

LEMMA ImageAdded ==
    ASSUME NEW s, s.frame \in FrameFields, s.status # "error", NEW d \in DmuxFields
    PROVE  LET added == AddSingleImage(s, d)
               frame == Adjusted(s.frame, d)
           IN  /\ added.status = s.status
               /\ added.dmux.frames = << frame >>
               /\ added.dmux.animation = d.animation /\ added.dmux.extended = d.extended
               /\ IF ~ d.extended /\ frame.width > 0 /\ frame.height > 0
                  THEN /\ added.dmux.state = "parsed header"
                       /\ added.dmux.alpha = (d.alpha \/ frame.has_alpha)
                  ELSE added.dmux.state = d.state /\ added.dmux.alpha = d.alpha
<1> DEFINE frame == Adjusted(s.frame, d)
           a == [d EXCEPT !.frames = << frame >>, !.num_frames = 1]
           b == [a EXCEPT !.state = "parsed header", !.width = frame.width,
                       !.height = frame.height, !.alpha = @ \/ frame.has_alpha]
<1>1. AddSingleImage(s, d) = Outcome(s.status,
                                     IF ~ d.extended /\ frame.width > 0 /\ frame.height > 0
                                     THEN b ELSE a, s.next)
  BY DEF AddSingleImage, Adjusted
<1> HIDE DEF frame
<1>2. /\ a.frames = << frame >> /\ a.animation = d.animation /\ a.extended = d.extended
      /\ a.state = d.state /\ a.alpha = d.alpha
      /\ b.frames = << frame >> /\ b.animation = d.animation /\ b.extended = d.extended
      /\ b.state = "parsed header" /\ b.alpha = (d.alpha \/ frame.has_alpha)
  BY DEF DmuxFields
<1> HIDE DEF a, b
<1> DEFINE added == AddSingleImage(s, d)
<1>3. /\ added.status = s.status
      /\ added.dmux = IF ~ d.extended /\ frame.width > 0 /\ frame.height > 0 THEN b ELSE a
  BY <1>1 DEF Outcome
<1> HIDE DEF added
<1>4. /\ added.dmux.frames = << frame >>
      /\ added.dmux.animation = d.animation /\ added.dmux.extended = d.extended
      /\ IF ~ d.extended /\ frame.width > 0 /\ frame.height > 0
         THEN /\ added.dmux.state = "parsed header"
              /\ added.dmux.alpha = (d.alpha \/ frame.has_alpha)
         ELSE added.dmux.state = d.state /\ added.dmux.alpha = d.alpha
  BY <1>2, <1>3
<1> QED BY <1>3, <1>4 DEF added, frame

\* A still image, with fewer bytes and with more.
LEMMA ImageGrows ==
    ASSUME NEW n, NEW m, NEW s, NEW t, StoreInv(n, 1, EmptyFrame, s), StoreInv(m, 1, EmptyFrame, t),
           s.status = "more", Grown(s.frame, t.frame), t.status # "error",
           NEW d \in DmuxFields, ~ d.animation
    PROVE  LET o == AddSingleImage(s, d).dmux
               p == AddSingleImage(t, d).dmux
           IN  KeptBy(o, p) /\ p.state \in {o.state, "parsed header"}
<1> DEFINE o == AddSingleImage(s, d).dmux
           p == AddSingleImage(t, d).dmux
           f == s.frame
           g == t.frame
           F == Adjusted(f, d)
           G == Adjusted(g, d)
<1>1. f \in FrameFields /\ g \in FrameFields
  BY DEF StoreInv
<1>2. /\ F.complete = f.complete /\ G.complete = g.complete
      /\ F.width = f.width /\ F.height = f.height /\ G.width = g.width /\ G.height = g.height
  BY <1>1 DEF Adjusted, FrameFields
<1>3. /\ o.frames = << F >> /\ p.frames = << G >> /\ ~ p.animation
      /\ IF ~ d.extended /\ F.width > 0 /\ F.height > 0
         THEN o.state = "parsed header"
         ELSE o.state = d.state
      /\ IF ~ d.extended /\ G.width > 0 /\ G.height > 0
         THEN p.state = "parsed header" /\ p.alpha = (d.alpha \/ G.has_alpha)
         ELSE p.state = d.state /\ p.alpha = d.alpha
  BY <1>1, ImageAdded
<1>4. f.image = NoSize => ~ (f.width > 0)
  BY DEF StoreInv, EmptyFrame
<1> HIDE DEF o, p, f, g
<1>5. p.state \in {o.state, "parsed header"}
  <2>1. CASE f.image = NoSize
    BY <1>2, <1>3, <1>4, <2>1
  <2>2. CASE f.image # NoSize
    <3>1. g.width = f.width /\ g.height = f.height
      BY <2>2 DEF Grown, f, g
    <3> HIDE DEF F, G
    <3> QED BY <1>2, <1>3, <3>1
  <2> QED BY <2>1, <2>2
<1>6. ASSUME F.complete
      PROVE  StillThere(F, 1, p) \/ (G.complete /\ LateAlpha(G))
  <2>1. 1 \in DOMAIN p.frames /\ p.frames[1] = G
    BY <1>3, Alone
  <2>2. f.complete /\ g.complete
    BY <1>2, <1>6 DEF Grown, f, g
  <2>3. CASE g = f
    BY <2>1, <2>3 DEF StillThere
  <2>4. ASSUME LateAlpha(g), NEW a, NEW h, g = [f EXCEPT !.alpha = a, !.has_alpha = h]
        PROVE  StillThere(F, 1, p) \/ (G.complete /\ LateAlpha(G))
    <3>1. CASE d.alpha
      <4>1. G = g
        BY <3>1 DEF Adjusted
      <4> QED BY <2>2, <2>4, <4>1
    <3>2. CASE ~ d.alpha
      <4>1. G = [F EXCEPT !.has_alpha = FALSE] /\ G.has_alpha = FALSE
        <5>1. g.alpha # NoSize
          BY <2>4 DEF LateAlpha
        <5> QED BY <1>1, <2>4, <3>2, <5>1 DEF Adjusted, FrameFields
      <4> HIDE DEF F, G
      <4>2. ~ p.alpha
        BY <1>3, <3>2, <4>1
      <4> QED BY <1>3, <2>1, <4>1, <4>2 DEF StillThere
    <3> QED BY <3>1, <3>2
  <2>5. \/ g = f
        \/ LateAlpha(g) /\ \E a, h : g = [f EXCEPT !.alpha = a, !.has_alpha = h]
    BY <2>2 DEF Grown, f, g
  <2> HIDE DEF F, G
  <2> QED BY <2>3, <2>4, <2>5
<1>7. KeptBy(o, p)
  <2>1. DOMAIN o.frames = {1} /\ o.frames[1] = F /\ 1 \in DOMAIN p.frames /\ p.frames[1] = G
    BY <1>3, Alone
  <2> HIDE DEF F, G
  <2> QED BY <1>6, <2>1 DEF KeptBy
<1> QED BY <1>5, <1>7 DEF o, p

LEMMA SingleGrows ==
    ASSUME NEW n, Given(n), NEW m, Given(m), n <= m, ~ file.raw, NEW k \in 1 .. PastAll,
           Available(n, StartOf(k)) >= CHUNK_HEADER_SIZE,
           Available(m, StartOf(k)) >= CHUNK_HEADER_SIZE,
           NEW d \in DmuxFields, ~ d.animation
    PROVE  LET o == ParseSingleImage(n, k, d)
               p == ParseSingleImage(m, k, d)
           IN  \/ o = p
               \/ o.status = "more" /\ p.status = "error"
               \/ /\ o.status = "more" /\ KeptBy(o.dmux, p.dmux)
                  /\ p.dmux.state \in {o.dmux.state, "parsed header"}
<1> DEFINE o == ParseSingleImage(n, k, d)
           p == ParseSingleImage(m, k, d)
           s == StoreFrame(n, 1, k, EmptyFrame)
           t == StoreFrame(m, 1, k, EmptyFrame)
<1>1. CASE SizeIsInvalid(StartOf(k), CHUNK_HEADER_SIZE)
  BY <1>1 DEF ParseSingleImage
<1>2. CASE ~ SizeIsInvalid(StartOf(k), CHUNK_HEADER_SIZE)
  <2>1. /\ StoreInv(n, 1, EmptyFrame, s) /\ StoreInv(m, 1, EmptyFrame, t)
        /\ SameOrMore(s, t)
    BY Stored, StoredGrows, EmptyFrameTyped
  <2>2. o = AddSingleImage(s, d) /\ p = AddSingleImage(t, d)
    <3>1. /\ ~ (Available(n, StartOf(k)) < CHUNK_HEADER_SIZE)
          /\ ~ (Available(m, StartOf(k)) < CHUNK_HEADER_SIZE)
      <4>1. StartOf(k) \in Int /\ End(n) \in Int /\ End(m) \in Int
        BY Offsets, MoreIsThere DEF Given
      <4> QED BY <4>1 DEF Available, CHUNK_HEADER_SIZE
    <3> HIDE DEF s, t
    <3> QED BY <1>2, <3>1 DEF ParseSingleImage, s, t
  <2> HIDE DEF s, t, o, p
  <2>3. CASE s = t
    BY <2>2, <2>3 DEF o, p
  <2>4. CASE t.status = "error" /\ s.status = "more"
    <3>1. s.frame \in FrameFields /\ s.status # "error"
      BY <2>1, <2>4 DEF StoreInv
    <3>2. o.status = "more"
      BY <2>2, <2>4, <3>1, ImageAdded
    <3>3. p.status = "error"
      BY <2>2, <2>4 DEF AddSingleImage, Outcome
    <3> QED BY <3>2, <3>3 DEF o, p
  <2>5. CASE t.status # "error" /\ s.status = "more" /\ Grown(s.frame, t.frame)
    <3>1. s.frame \in FrameFields /\ s.status # "error"
      BY <2>1, <2>5 DEF StoreInv
    <3>2. o.status = "more"
      BY <2>2, <2>5, <3>1, ImageAdded
    <3>3. KeptBy(o.dmux, p.dmux) /\ p.dmux.state \in {o.dmux.state, "parsed header"}
      BY <2>1, <2>2, <2>5, ImageGrows
    <3> QED BY <3>2, <3>3 DEF o, p
  <2> QED BY <2>1, <2>3, <2>4, <2>5 DEF SameOrMore
<1> QED BY <1>1, <1>2

\* What the header said does not change, and frames are added behind those there.
SameHeader(d, e) ==
    /\ e.extended = d.extended /\ e.animation = d.animation
    /\ e.alpha = d.alpha /\ e.state = d.state

Longer(d, e) ==
    \A i \in 1 .. Len(d.frames) : i \in 1 .. Len(e.frames) /\ e.frames[i] = d.frames[i]

\* A demuxer keeps its own frames, and one that has them and others keeps them too.
LEMMA KeptByLonger ==
    ASSUME NEW d \in DmuxFields, NEW e \in DmuxFields,
           \A i \in 1 .. Len(d.frames) : i \in 1 .. Len(e.frames) /\ e.frames[i] = d.frames[i]
    PROVE  KeptBy(d, e)
<1>1. d.frames \in Seq(FrameFields) /\ e.frames \in Seq(FrameFields)
  BY DEF DmuxFields
<1>2. DOMAIN d.frames = 1 .. Len(d.frames) /\ DOMAIN e.frames = 1 .. Len(e.frames)
  BY <1>1
<1> QED BY <1>2 DEF KeptBy, StillThere

WithFrame(d, f) == [d EXCEPT !.frames = Append(@, f), !.num_frames = @ + 1]

LEMMA FrameAppended ==
    ASSUME NEW d \in DmuxFields, d.num_frames = Len(d.frames), NEW f \in FrameFields
    PROVE  LET e == WithFrame(d, f) IN
           /\ e \in DmuxFields /\ Len(d.frames) \in Nat
           /\ Len(e.frames) = Len(d.frames) + 1
           /\ e.frames[Len(d.frames) + 1] = f
           /\ \A i \in 1 .. Len(d.frames) : e.frames[i] = d.frames[i]
           /\ e.extended = d.extended /\ e.animation = d.animation /\ e.alpha = d.alpha
           /\ e.state = d.state /\ e.broken = d.broken
<1> DEFINE e == WithFrame(d, f)
<1>1. d.frames \in Seq(FrameFields) /\ d.num_frames = Len(d.frames)
  BY DEF DmuxFields
<1>2. /\ Append(d.frames, f) \in Seq(FrameFields)
      /\ Len(Append(d.frames, f)) = Len(d.frames) + 1
      /\ Append(d.frames, f)[Len(d.frames) + 1] = f
      /\ \A i \in 1 .. Len(d.frames) : Append(d.frames, f)[i] = d.frames[i]
      /\ Len(d.frames) \in Nat
  BY <1>1
<1>3. d.num_frames + 1 \in Nat
  BY <1>1, <1>2
<1>4. /\ e \in DmuxFields /\ e.frames = Append(d.frames, f)
      /\ e.extended = d.extended /\ e.animation = d.animation /\ e.alpha = d.alpha
      /\ e.state = d.state /\ e.broken = d.broken
  BY <1>1, <1>2, <1>3 DEF DmuxFields, WithFrame
<1> HIDE DEF e
<1> QED BY <1>2, <1>4 DEF e

\* A frame of an animation, with fewer bytes and with more.
LEMMA FrameGrows ==
    ASSUME NEW s, NEW t, SameOrMore(s, t), s.status \in Statuses, t.status \in Statuses,
           s.frame \in FrameFields, t.frame \in FrameFields,
           NEW d \in DmuxFields, d.num_frames = Len(d.frames)
    PROVE  OutcomeGrows(AddAnimationFrame(s, d), AddAnimationFrame(t, d))
<1> DEFINE o == AddAnimationFrame(s, d)
           p == AddAnimationFrame(t, d)
           With(h) == WithFrame(d, h)
           f == s.frame
           g == t.frame
<1>1. CASE s = t
  BY <1>1 DEF OutcomeGrows
<1>2. CASE s.status = "more" /\ t.status = "error"
  BY <1>2 DEF AddAnimationFrame, Outcome, OutcomeGrows
<1>3. CASE s.status = "more" /\ t.status # "error" /\ Grown(s.frame, t.frame)
  <2>1. /\ o.status = "more"
        /\ o.dmux = IF d.animation /\ f.frame_num > 0 THEN With(f) ELSE d
        /\ p.dmux = IF d.animation /\ g.frame_num > 0 THEN With(g) ELSE d
    BY <1>3 DEF AddAnimationFrame, Outcome, WithFrame
  <2>2. \A h \in FrameFields :
           /\ With(h) \in DmuxFields /\ Len(d.frames) \in Nat
           /\ Len(With(h).frames) = Len(d.frames) + 1
           /\ With(h).frames[Len(d.frames) + 1] = h
           /\ \A i \in 1 .. Len(d.frames) : With(h).frames[i] = d.frames[i]
    BY FrameAppended
  <2> HIDE DEF o, p, With
  <2>3. p.dmux \in DmuxFields /\ \A i \in 1 .. Len(d.frames) :
           i \in 1 .. Len(p.dmux.frames) /\ p.dmux.frames[i] = d.frames[i]
    BY <2>1, <2>2
  <2>4. CASE ~ (d.animation /\ f.frame_num > 0)
    <3>1. KeptBy(d, p.dmux)
      BY <2>3, KeptByLonger
    <3> QED BY <2>1, <2>4, <3>1 DEF OutcomeGrows, o, p
  <2>5. CASE d.animation /\ f.frame_num > 0
    <3> DEFINE last == Len(d.frames) + 1
    <3>1. /\ o.dmux = With(f) /\ last \in Nat
          /\ DOMAIN o.dmux.frames = 1 .. last
      <4>1. o.dmux = With(f)
        BY <2>1, <2>5
      <4>2. With(f) \in DmuxFields /\ Len(With(f).frames) = last /\ last \in Nat
        BY <2>2
      <4>0. With(f).frames \in Seq(FrameFields)
        BY <4>2 DEF DmuxFields
      <4>3. DOMAIN With(f).frames = 1 .. last
        BY <4>0, <4>2
      <4> QED BY <4>1, <4>2, <4>3
    <3>2. DOMAIN p.dmux.frames = 1 .. Len(p.dmux.frames)
      <4>1. p.dmux.frames \in Seq(FrameFields)
        BY <2>3 DEF DmuxFields
      <4> QED BY <4>1
    <3>3. ASSUME NEW i \in 1 .. Len(d.frames) PROVE StillThere(o.dmux.frames[i], i, p.dmux)
      BY <2>2, <2>3, <3>1, <3>2 DEF StillThere
    <3>4. ASSUME o.dmux.frames[last].complete
          PROVE  \/ StillThere(o.dmux.frames[last], last, p.dmux)
                 \/ /\ last \in DOMAIN p.dmux.frames
                    /\ p.dmux.frames[last].complete /\ LateAlpha(p.dmux.frames[last])
      <4>1. o.dmux.frames[last] = f /\ f.complete
        BY <2>2, <3>1, <3>4
      <4>2. /\ g.complete /\ g.frame_num = f.frame_num
            /\ g = f \/ LateAlpha(g)
        BY <1>3, <4>1 DEF Grown, FrameFields
      <4>3. p.dmux = With(g)
        BY <2>1, <2>5, <4>2
      <4>4. last \in DOMAIN p.dmux.frames /\ p.dmux.frames[last] = g
        BY <2>2, <3>1, <3>2, <4>3
      <4> QED BY <4>1, <4>2, <4>4 DEF StillThere
    <3>5. KeptBy(o.dmux, p.dmux)
      <4>1. \A i \in 1 .. last : i \in 1 .. Len(d.frames) \/ i = last
        BY <2>2
      <4> HIDE DEF last
      <4> QED BY <3>1, <3>3, <3>4, <4>1 DEF KeptBy
    <3> QED BY <2>1, <3>5 DEF OutcomeGrows, o, p
  <2> QED BY <2>4, <2>5
<1> QED BY <1>1, <1>2, <1>3 DEF SameOrMore

LEMMA AnimationGrows ==
    ASSUME NEW n, Given(n), NEW m, Given(m), n <= m, ~ file.raw,
           NEW k \in 1 .. Len(file.chunks), file.chunks[k].id = "ANMF",
           Available(n, StartOf(k)) >= CHUNK_HEADER_SIZE,
           NEW d, DmuxInv(n, d), DmuxInv(m, d)
    PROVE  OutcomeGrows(ParseAnimationFrame(n, k, d), ParseAnimationFrame(m, k, d))
<1> DEFINE chunk == file.chunks[k]
           begin == StartOf(k) + CHUNK_HEADER_SIZE
           payload == Padded(chunk.size) - ANMF_CHUNK_SIZE
           frame == [EmptyFrame EXCEPT !.x = chunk.x, !.y = chunk.y,
                                       !.width = chunk.width, !.height = chunk.height]
           num == d.num_frames + 1
           s == StoreFrame(n, num, k + 1, frame)
           t == StoreFrame(m, num, k + 1, frame)
           invalid == SizeIsInvalid(begin, ANMF_CHUNK_SIZE) \/ payload < 0
           Waits(l) == Available(l, begin) < ANMF_CHUNK_SIZE + payload
           Unread(l) == Available(l, StartOf(k + 1)) < CHUNK_HEADER_SIZE
           Reads(l) == ~ Waits(l) /\ ~ Unread(l)
           marked == [d EXCEPT !.overread = TRUE]
<1>1. /\ Len(file.chunks) \in Nat /\ k + 1 \in 1 .. PastAll
      /\ StartOf(k) \in Nat /\ StartOf(k + 1) \in Nat
      /\ StartOf(k + 1) = begin + ANMF_CHUNK_SIZE
  <2>1. /\ Len(file.chunks) \in Nat /\ k \in 1 .. PastAll /\ k + 1 \in 1 .. PastAll
        /\ StartOf(k + 1) = StartOf(k) + LengthOf(chunk)
    BY Offsets DEF Given, PastAll
  <2>2. LengthOf(chunk) = CHUNK_HEADER_SIZE + ANMF_CHUNK_SIZE
    BY ChunkFacts DEF Given
  <2>3. StartOf(k) \in Nat /\ StartOf(k + 1) \in Nat
    BY <2>1, Offsets DEF Given
  <2> QED BY <2>1, <2>2, <2>3 DEF CHUNK_HEADER_SIZE, ANMF_CHUNK_SIZE
<1>2. d \in DmuxFields /\ d.num_frames = Len(d.frames) /\ num \in Nat
  <2>1. d \in DmuxFields /\ d.num_frames = Len(d.frames)
    BY DEF DmuxInv
  <2>2. d.frames \in Seq(FrameFields)
    BY <2>1 DEF DmuxFields
  <2>3. Len(d.frames) \in Nat
    BY <2>2
  <2> QED BY <2>1, <2>3
<1>3. payload \in Int /\ marked \in DmuxFields /\ marked.frames = d.frames
  <2>1. Padded(chunk.size) \in Nat
    BY ChunkFacts DEF Given
  <2>2. payload \in Int
    BY <2>1 DEF ANMF_CHUNK_SIZE
  <2>3. marked \in DmuxFields /\ marked.frames = d.frames
    BY <1>2 DEF DmuxFields
  <2> QED BY <2>2, <2>3
<1>4. End(n) \in Int /\ End(m) \in Int /\ End(n) <= End(m)
  BY MoreIsThere
<1>5. /\ frame \in FrameFields /\ frame.image = NoSize /\ frame.alpha = NoSize
      /\ ~ frame.complete
  <2>1. chunk.x \in Nat /\ chunk.y \in Nat /\ chunk.width \in Nat /\ chunk.height \in Nat
    BY FilesAssumption DEF Given
  <2> QED BY <2>1 DEF EmptyFrame, FrameFields, Extent, NoSize
<1>6. ASSUME NEW l \in {n, m}
      PROVE  ParseAnimationFrame(l, k, d) =
                IF invalid THEN Outcome("error", d, k)
                ELSE IF Waits(l) THEN Outcome("more", d, k)
                ELSE IF Unread(l) THEN Outcome("more", marked, k)
                ELSE AddAnimationFrame(StoreFrame(l, num, k + 1, frame), d)
  BY DEF ParseAnimationFrame
<1>7. ASSUME NEW l \in {n, m}, Reads(l)
      PROVE  Available(l, StartOf(k + 1)) >= CHUNK_HEADER_SIZE
  BY <1>1, <1>4, <1>7 DEF Available, CHUNK_HEADER_SIZE
<1>8. (~ Waits(n) => ~ Waits(m)) /\ (Reads(n) => Reads(m))
  <2> HIDE DEF payload
  <2> QED BY <1>1, <1>3, <1>4 DEF Available, ANMF_CHUNK_SIZE, CHUNK_HEADER_SIZE
<1> DEFINE Stops(l) == IF Waits(l) THEN d ELSE marked
<1>14. ASSUME NEW l \in {n, m}, ~ invalid, ~ Reads(l)
       PROVE  ParseAnimationFrame(l, k, d) = Outcome("more", Stops(l), k)
  <2> HIDE DEF invalid, payload, marked, begin, frame, num
  <2> QED BY <1>6, <1>14
<1>15. ASSUME NEW l \in {n, m}, ~ invalid, Reads(l)
       PROVE  ParseAnimationFrame(l, k, d) =
                 AddAnimationFrame(StoreFrame(l, num, k + 1, frame), d)
  BY <1>6, <1>15
<1>16. ASSUME NEW l \in {n, m} PROVE Stops(l) \in DmuxFields /\ Stops(l).frames = d.frames
  <2> HIDE DEF marked, payload
  <2> QED BY <1>2, <1>3
<1> HIDE DEF frame, num, payload, begin, invalid, Waits, Unread, marked, Stops, Reads
<1>9. ASSUME NEW l \in {n, m}, Reads(l)
      PROVE  LET stored == StoreFrame(l, num, k + 1, frame) IN
             stored.status \in Statuses /\ stored.frame \in FrameFields
  <2>1. StoreInv(l, num, frame, StoreFrame(l, num, k + 1, frame))
    BY <1>1, <1>2, <1>5, <1>7, <1>9, Stored
  <2> QED BY <2>1 DEF StoreInv
<1>10. CASE invalid
  BY <1>6, <1>10 DEF OutcomeGrows
<1>11. CASE ~ invalid /\ ~ Reads(n)
  <2>1. ParseAnimationFrame(n, k, d) = Outcome("more", Stops(n), k)
    BY <1>11, <1>14
  <2>2. ASSUME NEW e \in DmuxFields, Longer(d, e) PROVE KeptBy(Stops(n), e)
    BY <1>16, <2>2, KeptByLonger DEF Longer
  <2>3. CASE ~ Reads(m)
    <3>1. ParseAnimationFrame(m, k, d) = Outcome("more", Stops(m), k)
      BY <1>11, <1>14, <2>3
    <3>2. Stops(m) \in DmuxFields /\ Longer(d, Stops(m))
      BY <1>16 DEF Longer
    <3> QED BY <2>1, <2>2, <3>1, <3>2 DEF OutcomeGrows, Outcome
  <2>4. CASE Reads(m)
    <3> DEFINE p == AddAnimationFrame(t, d)
    <3>1. ParseAnimationFrame(m, k, d) = p
      BY <1>11, <1>15, <2>4
    <3>2. t.status \in Statuses /\ t.frame \in FrameFields
      BY <1>9, <2>4
    <3> HIDE DEF t
    <3>3. p.status = "error" \/ p.dmux \in {d, WithFrame(d, t.frame)}
      BY DEF AddAnimationFrame, Outcome, WithFrame
    <3>4. d \in DmuxFields /\ Longer(d, d)
      BY <1>2 DEF Longer
    <3>5. WithFrame(d, t.frame) \in DmuxFields /\ Longer(d, WithFrame(d, t.frame))
      <4>1. /\ WithFrame(d, t.frame) \in DmuxFields /\ Len(d.frames) \in Nat
            /\ Len(WithFrame(d, t.frame).frames) = Len(d.frames) + 1
            /\ \A i \in 1 .. Len(d.frames) : WithFrame(d, t.frame).frames[i] = d.frames[i]
        BY <1>2, <3>2, FrameAppended
      <4>2. \A i \in 1 .. Len(d.frames) : i \in 1 .. Len(WithFrame(d, t.frame).frames)
        BY <4>1
      <4> QED BY <4>1, <4>2 DEF Longer
    <3> HIDE DEF p
    <3> QED BY <2>1, <2>2, <3>1, <3>3, <3>4, <3>5 DEF OutcomeGrows, Outcome
  <2> QED BY <2>3, <2>4
<1>12. CASE ~ invalid /\ Reads(n)
  <2>1. Reads(m)
    BY <1>8, <1>12
  <2>2. /\ ParseAnimationFrame(n, k, d) = AddAnimationFrame(s, d)
        /\ ParseAnimationFrame(m, k, d) = AddAnimationFrame(t, d)
    BY <1>12, <1>15, <2>1
  <2>3. /\ s.status \in Statuses /\ s.frame \in FrameFields
        /\ t.status \in Statuses /\ t.frame \in FrameFields
    BY <1>9, <1>12, <2>1
  <2>4. /\ Available(n, StartOf(k + 1)) >= CHUNK_HEADER_SIZE
        /\ Available(m, StartOf(k + 1)) >= CHUNK_HEADER_SIZE
    BY <1>7, <1>12, <2>1
  <2>5. SameOrMore(s, t)
    BY <1>1, <1>2, <1>5, <2>4, StoredGrows
  <2> HIDE DEF s, t
  <2> QED BY <1>2, <2>2, <2>3, <2>5, FrameGrows
<1> QED BY <1>10, <1>11, <1>12

\* A chunk behind VP8X, with fewer bytes and with more.
LEMMA ChunkGrows ==
    ASSUME NEW n, Given(n), NEW m, Given(m), n <= m, ~ file.raw, NEW k \in 1 .. PastAll,
           Available(n, StartOf(k)) >= CHUNK_HEADER_SIZE,
           Available(m, StartOf(k)) >= CHUNK_HEADER_SIZE,
           NEW d, DmuxInv(n, d), DmuxInv(m, d), NEW anims, ~ Refused(k, d, anims)
    PROVE  OutcomeGrows(ParseChunk(n, k, d), ParseChunk(m, k, d))
<1> DEFINE chunk == file.chunks[k]
<1>1. k \in 1 .. Len(file.chunks)
  BY HeaderIsThere
<1>2. d \in DmuxFields
  BY DEF DmuxInv
<1>3. CASE chunk.id \in {"ALPH", "VP8", "VP8L"}
  <2>1. ~ d.animation
    BY <1>3 DEF Refused
  <2> DEFINE o == ParseSingleImage(n, k, d)
             p == ParseSingleImage(m, k, d)
  <2>2. \/ o = p
        \/ o.status = "more" /\ p.status = "error"
        \/ o.status = "more" /\ KeptBy(o.dmux, p.dmux)
    BY <1>2, <2>1, SingleGrows
  <2>3. ParseChunk(n, k, d) = o /\ ParseChunk(m, k, d) = p
    BY <1>3 DEF ParseChunk
  <2> HIDE DEF o, p
  <2> QED BY <2>2, <2>3 DEF OutcomeGrows
<1>4. CASE chunk.id = "ANMF"
  <2>1. OutcomeGrows(ParseAnimationFrame(n, k, d), ParseAnimationFrame(m, k, d))
    BY <1>1, <1>4, AnimationGrows
  <2> QED BY <1>4, <2>1 DEF ParseChunk
<1>5. CASE chunk.id \notin {"ALPH", "VP8", "VP8L", "ANMF"}
  <2> DEFINE store == chunk.id # "ANIM" /\ chunk.announced
             kept == IF store THEN [d EXCEPT !.chunks = Append(@, chunk.id)] ELSE d
             Waits(l) == Padded(chunk.size) > Available(l, StartOf(k) + CHUNK_HEADER_SIZE)
  <2>1. \A l \in {n, m} : ParseChunk(l, k, d) = IF Waits(l) THEN Outcome("more", d, k)
                                                ELSE Outcome("ok", kept, k + 1)
    BY <1>5 DEF ParseChunk, PassChunk
  <2>2. ~ Waits(n) => ~ Waits(m)
    <3>1. /\ Padded(chunk.size) \in Nat /\ StartOf(k) \in Nat
          /\ End(n) \in Int /\ End(m) \in Int /\ End(n) <= End(m)
      BY <1>1, ChunkFacts, Offsets, MoreIsThere DEF Given
    <3> QED BY <3>1 DEF Available, CHUNK_HEADER_SIZE
  <2>3. KeptBy(d, d) /\ KeptBy(d, kept)
    <3>1. kept \in DmuxFields /\ kept.frames = d.frames
      <4>1. d.chunks \in Seq(STRING) /\ chunk.id \in STRING
        BY <1>1, <1>2, FilesAssumption DEF Given, DmuxFields
      <4>2. Append(d.chunks, chunk.id) \in Seq(STRING)
        BY <4>1
      <4> QED BY <1>2, <4>2 DEF DmuxFields
    <3> HIDE DEF kept
    <3> QED BY <1>2, <3>1, KeptByLonger
  <2> HIDE DEF Waits, kept
  <2> QED BY <2>1, <2>2, <2>3 DEF Outcome, OutcomeGrows
<1> QED BY <1>3, <1>4, <1>5

\* A chunk changes nothing of what was there.
LEMMA ChunkKeeps ==
    ASSUME NEW n, Given(n), NEW k \in 1 .. PastAll,
           Available(n, StartOf(k)) >= CHUNK_HEADER_SIZE,
           NEW d, DmuxInv(n, d), d.extended, NEW anims, ~ Refused(k, d, anims)
    PROVE  LET e == ParseChunk(n, k, d).dmux IN SameHeader(d, e) /\ Longer(d, e)
<1> DEFINE chunk == file.chunks[k]
           e == ParseChunk(n, k, d).dmux
<1>1. d \in DmuxFields /\ d.num_frames = Len(d.frames)
  BY DEF DmuxInv
<1>2. SameHeader(d, d) /\ Longer(d, d)
  BY DEF SameHeader, Longer
<1>3. CASE chunk.id \in {"ALPH", "VP8", "VP8L"}
  <2> DEFINE s == StoreFrame(n, 1, k, EmptyFrame)
             add == AddSingleImage(s, d)
  <2>1. d.frames = << >>
    BY <1>3 DEF Refused
  <2>2. \A l : Longer(d, l)
    BY <2>1 DEF Longer
  <2>3. e = d \/ (e = add.dmux /\ Available(n, StartOf(k)) >= CHUNK_HEADER_SIZE)
    <3> HIDE DEF add
    <3> QED BY <1>3 DEF ParseChunk, ParseSingleImage, Outcome, add
  <2>4. CASE e = add.dmux /\ s.status = "error"
    <3>1. add.dmux = d
      <4> HIDE DEF s
      <4> QED BY <2>4 DEF AddSingleImage, Outcome
    <3> QED BY <1>2, <2>4, <3>1
  <2>5. CASE e = add.dmux /\ s.status # "error"
    <3>1. s.frame \in FrameFields
      BY Stored, EmptyFrameTyped DEF StoreInv
    <3> HIDE DEF s
    <3>2. SameHeader(d, add.dmux)
      BY <1>1, <2>5, <3>1, ImageAdded DEF SameHeader
    <3> QED BY <2>2, <2>5, <3>2
  <2> QED BY <1>2, <2>3, <2>4, <2>5
<1>4. CASE chunk.id = "ANMF"
  <2> DEFINE marked == [d EXCEPT !.overread = TRUE]
  <2>1. \/ e \in {d, marked}
        \/ \E num, frame : e = AddAnimationFrame(StoreFrame(n, num, k + 1, frame), d).dmux
    BY <1>4 DEF ParseChunk, ParseAnimationFrame, Outcome
  <2>2. ASSUME NEW s PROVE AddAnimationFrame(s, d).dmux \in {d, WithFrame(d, s.frame)}
    BY DEF AddAnimationFrame, Outcome, WithFrame
  <2>3. e \in {d, marked} \/ \E f : e = WithFrame(d, f)
    <3> HIDE DEF marked, e
    <3> QED BY <2>1, <2>2
  <2>4. ASSUME NEW f PROVE SameHeader(d, WithFrame(d, f)) /\ Longer(d, WithFrame(d, f))
    <3> DEFINE w == WithFrame(d, f)
    <3>1. /\ w.frames = Append(d.frames, f) /\ w.extended = d.extended /\ w.alpha = d.alpha
          /\ w.animation = d.animation /\ w.state = d.state
      BY <1>1 DEF WithFrame, DmuxFields
    <3>2. d.frames \in Seq(FrameFields)
      BY <1>1 DEF DmuxFields
    <3>3. /\ Len(d.frames) \in Nat /\ Len(Append(d.frames, f)) = Len(d.frames) + 1
          /\ \A i \in 1 .. Len(d.frames) : Append(d.frames, f)[i] = d.frames[i]
      BY <3>2
    <3> HIDE DEF w
    <3>4. SameHeader(d, w)
      BY <3>1 DEF SameHeader
    <3>5. Longer(d, w)
      BY <3>1, <3>3 DEF Longer
    <3> QED BY <3>4, <3>5 DEF w
  <2>5. SameHeader(d, marked) /\ Longer(d, marked)
    <3>1. /\ marked.frames = d.frames /\ marked.extended = d.extended
          /\ marked.animation = d.animation /\ marked.alpha = d.alpha
          /\ marked.state = d.state
      BY <1>1 DEF DmuxFields
    <3> HIDE DEF marked
    <3> QED BY <1>2, <3>1 DEF SameHeader, Longer
  <2> HIDE DEF e, marked
  <2>6. SameHeader(d, e) /\ Longer(d, e)
    BY <1>2, <2>3, <2>4, <2>5
  <2> QED BY <2>6 DEF e
<1>5. CASE chunk.id \notin {"ALPH", "VP8", "VP8L", "ANMF"}
  <2> DEFINE kept == [d EXCEPT !.chunks = Append(@, chunk.id)]
  <2>1. e \in {d, kept}
    <3> HIDE DEF kept
    <3> QED BY <1>5 DEF ParseChunk, PassChunk, Outcome, kept
  <2>2. /\ kept.frames = d.frames /\ kept.extended = d.extended /\ kept.alpha = d.alpha
        /\ kept.animation = d.animation /\ kept.state = d.state
    BY <1>1 DEF DmuxFields
  <2> HIDE DEF kept
  <2> QED BY <1>2, <2>1, <2>2 DEF SameHeader, Longer
<1> QED BY <1>3, <1>4, <1>5

\* Frames that were kept are kept when others come behind them.
LEMMA StaysKept ==
    ASSUME NEW c \in DmuxFields, NEW d \in DmuxFields, NEW e \in DmuxFields,
           KeptBy(c, d), SameHeader(d, e), Longer(d, e)
    PROVE  KeptBy(c, e)
<1>1. d.frames \in Seq(FrameFields) /\ e.frames \in Seq(FrameFields)
  BY DEF DmuxFields
<1>2. DOMAIN d.frames = 1 .. Len(d.frames) /\ DOMAIN e.frames = 1 .. Len(e.frames)
  BY <1>1
<1>3. \A i \in DOMAIN d.frames : i \in DOMAIN e.frames /\ e.frames[i] = d.frames[i]
  BY <1>2 DEF Longer
<1>4. ASSUME NEW f, NEW i, StillThere(f, i, d) PROVE StillThere(f, i, e)
  BY <1>3, <1>4 DEF StillThere, SameHeader
<1> QED BY <1>3, <1>4 DEF KeptBy

\* The loop over the chunks behind VP8X, with what the header said.
PassInv(n, d, s) ==
    ParseInv(n, s) /\ SameHeader(d, s.dmux) /\ (s.dmux.broken => s.over)

LEMMA PassKeeps ==
    ASSUME NEW n, Given(n), NEW d, d.extended, NEW s, PassInv(n, d, s)
    PROVE  LET t == ParseNextChunk(n, s) IN
           /\ PassInv(n, d, t)
           /\ t.status = "error" \/ t.dmux.broken \/ Longer(s.dmux, t.dmux)
<1> DEFINE one == ParseChunk(n, s.next, s.dmux)
           at == StartOf(one.next) + (IF one.status = "error" THEN CHUNK_HEADER_SIZE ELSE 0)
           status == IF one.status = "more" THEN "more" ELSE AfterChunk(n, at, one.status)
           dmux == [one.dmux EXCEPT !.broken = one.status = "error"]
           anims == s.anims + (IF file.chunks[s.next].id = "ANIM" THEN 1 ELSE 0)
           over == status # "ok" \/ at = RiffEnd
           refused == [s EXCEPT !.status = "error", !.over = TRUE]
           parsed == [status |-> status, next |-> one.next, dmux |-> dmux,
                      anims |-> anims, over |-> over]
           t == ParseNextChunk(n, s)
<1>1. ParseInv(n, s) /\ ParseInv(n, t)
  BY ParsePass DEF PassInv
<1>2. \/ t = s
      \/ t = refused
      \/ ~ s.over /\ ~ Refused(s.next, s.dmux, s.anims) /\ t = parsed
  BY DEF ParseNextChunk
<1>3. CASE t = s
  BY <1>3 DEF PassInv, Longer
<1>4. CASE t = refused
  <2>1. t.status = "error" /\ t.over /\ t.dmux = s.dmux
    BY <1>1, <1>4 DEF ParseInv
  <2> QED BY <1>1, <2>1 DEF PassInv
<1>5. CASE ~ s.over /\ ~ Refused(s.next, s.dmux, s.anims) /\ t = parsed
  <2>1. /\ s.next \in 1 .. PastAll /\ Available(n, StartOf(s.next)) >= CHUNK_HEADER_SIZE
        /\ DmuxInv(n, s.dmux) /\ SameHeader(d, s.dmux)
    BY <1>1, <1>5 DEF ParseInv, Ready, PassInv
  <2>2. s.dmux.extended
    BY <2>1 DEF SameHeader
  <2>3. SameHeader(s.dmux, one.dmux) /\ Longer(s.dmux, one.dmux)
    BY <1>5, <2>1, <2>2, ChunkKeeps
  <2>4. one.dmux \in DmuxFields
    BY <2>1, OneChunk DEF OutcomeInv, DmuxInv
  <2> HIDE DEF one
  <2>5. /\ dmux.frames = one.dmux.frames /\ dmux.extended = one.dmux.extended
        /\ dmux.animation = one.dmux.animation /\ dmux.alpha = one.dmux.alpha
        /\ dmux.state = one.dmux.state /\ dmux.broken = (one.status = "error")
    BY <2>4 DEF DmuxFields
  <2>6. one.status = "error" => over
    BY DEF AfterChunk
  <2>7. t.dmux = dmux /\ t.over = over
    BY <1>5
  <2> HIDE DEF dmux, over, t
  <2>8. SameHeader(d, t.dmux) /\ Longer(s.dmux, t.dmux)
    BY <2>1, <2>3, <2>5, <2>7 DEF SameHeader, Longer
  <2>9. t.dmux.broken => t.over
    BY <2>5, <2>6, <2>7
  <2>10. PassInv(n, d, t)
    BY <1>1, <2>8, <2>9 DEF PassInv
  <2> QED BY <2>8, <2>10 DEF t
<1> QED BY <1>2, <1>3, <1>4, <1>5

\* What the loop has made of fewer bytes, and of more.
ParsedMore(c, o) == o.status = "error" \/ o.dmux.broken \/ KeptBy(c, o.dmux)

PassGrows(s, t) == s = t \/ (s.over /\ s.status = "more" /\ ParsedMore(s.dmux, t))

\* One pass over the same chunk.
LEMMA SameChunkParsed ==
    ASSUME NEW n, Given(n), NEW m, Given(m), n <= m, ~ file.raw,
           NEW s, ParseInv(n, s), ParseInv(m, s)
    PROVE  PassGrows(ParseNextChunk(n, s), ParseNextChunk(m, s))
<1> DEFINE one(l) == ParseChunk(l, s.next, s.dmux)
           at(l) == StartOf(one(l).next)
                      + (IF one(l).status = "error" THEN CHUNK_HEADER_SIZE ELSE 0)
           status(l) == IF one(l).status = "more" THEN "more"
                        ELSE AfterChunk(l, at(l), one(l).status)
           dmux(l) == [one(l).dmux EXCEPT !.broken = one(l).status = "error"]
           anims == s.anims + (IF file.chunks[s.next].id = "ANIM" THEN 1 ELSE 0)
           over(l) == status(l) # "ok" \/ at(l) = RiffEnd
           parsed(l) == [status |-> status(l), next |-> one(l).next, dmux |-> dmux(l),
                         anims |-> anims, over |-> over(l)]
<1>1. CASE s.over \/ Refused(s.next, s.dmux, s.anims)
  <2>1. ParseNextChunk(n, s) = ParseNextChunk(m, s)
    BY <1>1 DEF ParseNextChunk
  <2> QED BY <2>1 DEF PassGrows
<1>2. CASE ~ s.over /\ ~ Refused(s.next, s.dmux, s.anims)
  <2>1. ParseNextChunk(n, s) = parsed(n) /\ ParseNextChunk(m, s) = parsed(m)
    BY <1>2 DEF ParseNextChunk
  <2>2. /\ s.next \in 1 .. PastAll
        /\ Available(n, StartOf(s.next)) >= CHUNK_HEADER_SIZE
        /\ Available(m, StartOf(s.next)) >= CHUNK_HEADER_SIZE
        /\ DmuxInv(n, s.dmux) /\ DmuxInv(m, s.dmux)
    BY <1>2 DEF ParseInv, Ready
  <2>3. OutcomeGrows(one(n), one(m))
    BY <1>2, <2>2, ChunkGrows
  <2>4. \A l \in {n, m} : /\ one(l).status \in Statuses /\ one(l).next \in 1 .. PastAll
                          /\ one(l).dmux \in DmuxFields
    BY <2>2, OneChunk DEF OutcomeInv, DmuxInv
  <2> HIDE DEF one
  <2>5. \A l \in {n, m} : /\ dmux(l) \in DmuxFields /\ dmux(l).frames = one(l).dmux.frames
                          /\ dmux(l).animation = one(l).dmux.animation
                          /\ dmux(l).alpha = one(l).dmux.alpha
                          /\ dmux(l).broken = (one(l).status = "error")
    BY <2>4 DEF DmuxFields
  <2>6. ASSUME status(n) = "more", ParsedMore(dmux(n), parsed(m))
        PROVE  PassGrows(parsed(n), parsed(m))
    BY <2>6 DEF PassGrows
  <2>7. \A l \in {n, m} : parsed(l).dmux = dmux(l)
    OBVIOUS
  <2>8. CASE one(n).status = "more" /\ one(m).status = "error"
    <3>1. parsed(m).dmux.broken
      BY <2>5, <2>7, <2>8
    <3>2. status(n) = "more"
      BY <2>8
    <3> QED BY <2>1, <2>6, <3>1, <3>2 DEF ParsedMore
  <2>9. CASE one(n).status = "more" /\ KeptBy(one(n).dmux, one(m).dmux)
    <3> HIDE DEF dmux
    <3>1. KeptBy(dmux(n), dmux(m))
      BY <2>5, <2>9 DEF KeptBy, StillThere
    <3>2. status(n) = "more"
      BY <2>9
    <3> QED BY <2>1, <2>6, <2>7, <3>1, <3>2 DEF ParsedMore
  <2>10. CASE one(n) = one(m)
    <3>1. at(n) = at(m) /\ dmux(n) = dmux(m)
      BY <2>10
    <3>2. status(n) = "more" \/ status(n) = status(m)
      <4>1. CASE one(n).status = "more"
        BY <4>1
      <4>2. CASE one(n).status # "more"
        <5>1. /\ status(n) = AfterChunk(n, at(n), one(n).status)
              /\ status(m) = AfterChunk(m, at(n), one(n).status)
          BY <2>10, <4>2
        <5>2. at(n) \in Int /\ End(n) \in Int /\ End(m) \in Int /\ End(n) <= End(m)
          <6>1. StartOf(one(n).next) \in Nat
            BY <2>4, Offsets DEF Given
          <6>2. End(n) \in Int /\ End(m) \in Int /\ End(n) <= End(m)
            BY MoreIsThere
          <6> QED BY <6>1, <6>2 DEF CHUNK_HEADER_SIZE
        <5> HIDE DEF at, status
        <5> DEFINE a == at(n)
        <5> HIDE DEF a
        <5>3. Available(n, a) >= CHUNK_HEADER_SIZE => Available(m, a) >= CHUNK_HEADER_SIZE
          BY <5>2 DEF Available, CHUNK_HEADER_SIZE, a
        <5>4. Available(n, a) \in Int /\ Available(m, a) \in Int /\ CHUNK_HEADER_SIZE \in Int
          BY <5>2 DEF Available, CHUNK_HEADER_SIZE, a
        <5>5. ~ (Available(n, a) < CHUNK_HEADER_SIZE) => ~ (Available(m, a) < CHUNK_HEADER_SIZE)
          BY <5>3, <5>4
        <5> QED BY <5>1, <5>5 DEF AfterChunk, a
      <4> QED BY <4>1, <4>2
    <3>3. CASE status(n) = status(m)
      <4>1. parsed(n) = parsed(m)
        BY <2>10, <3>1, <3>3
      <4> QED BY <2>1, <4>1 DEF PassGrows
    <3>4. CASE status(n) = "more"
      <4>1. dmux(n) \in DmuxFields
        BY <2>5
      <4> HIDE DEF dmux
      <4>2. KeptBy(dmux(n), dmux(m))
        <5>1. \A i \in 1 .. Len(dmux(n).frames) :
                 i \in 1 .. Len(dmux(m).frames) /\ dmux(m).frames[i] = dmux(n).frames[i]
          BY <3>1
        <5> QED BY <3>1, <4>1, <5>1, KeptByLonger
      <4> QED BY <2>1, <2>6, <2>7, <3>4, <4>2 DEF ParsedMore
    <3> QED BY <3>2, <3>3, <3>4
  <2> QED BY <2>3, <2>8, <2>9, <2>10 DEF OutcomeGrows
<1> QED BY <1>1, <1>2

\* One pass more.
LEMMA PassGrowsOn ==
    ASSUME NEW n, Given(n), NEW m, Given(m), n <= m, ~ file.raw, NEW d, d.extended,
           NEW s, PassInv(n, d, s), NEW t, PassInv(m, d, t), PassGrows(s, t)
    PROVE  PassGrows(ParseNextChunk(n, s), ParseNextChunk(m, t))
<1> DEFINE u == ParseNextChunk(m, t)
<1>1. CASE s = t
  BY <1>1, SameChunkParsed DEF PassInv
<1>2. CASE s.over /\ s.status = "more" /\ ParsedMore(s.dmux, t)
  <2>1. ParseNextChunk(n, s) = s
    BY <1>2 DEF ParseNextChunk
  <2>2. CASE t.over
    <3>1. u = t
      BY <2>2 DEF ParseNextChunk
    <3> QED BY <1>2, <2>1, <3>1 DEF PassGrows
  <2>3. CASE ~ t.over
    <3>1. t.status = "ok" /\ ~ t.dmux.broken
      BY <2>3 DEF PassInv, ParseInv, Ready
    <3>2. KeptBy(s.dmux, t.dmux)
      BY <1>2, <3>1 DEF ParsedMore
    <3>3. /\ PassInv(m, d, u)
          /\ u.status = "error" \/ u.dmux.broken \/ Longer(t.dmux, u.dmux)
      BY PassKeeps
    <3>4. s.dmux \in DmuxFields /\ t.dmux \in DmuxFields /\ u.dmux \in DmuxFields
      BY <3>3 DEF PassInv, ParseInv, DmuxInv
    <3>5. SameHeader(t.dmux, u.dmux)
      BY <3>3 DEF PassInv, SameHeader
    <3> HIDE DEF u
    <3>6. ParsedMore(s.dmux, u)
      BY <3>2, <3>3, <3>4, <3>5, StaysKept DEF ParsedMore
    <3> QED BY <1>2, <2>1, <3>6 DEF PassGrows, u
  <2> QED BY <2>2, <2>3
<1> QED BY <1>1, <1>2 DEF PassGrows

\* All the chunks behind VP8X, with fewer bytes and with more.
LEMMA ChunksGrow ==
    ASSUME NEW n, Given(n), NEW m, Given(m), n <= m, ~ file.raw, NEW k \in 1 .. PastAll,
           Available(n, StartOf(k)) >= CHUNK_HEADER_SIZE,
           Available(m, StartOf(k)) >= CHUNK_HEADER_SIZE,
           NEW d, DmuxInv(n, d), DmuxInv(m, d), d.extended, ~ d.broken
    PROVE  LET s == ParseVP8XChunks(n, k, d)
               t == ParseVP8XChunks(m, k, d)
           IN  PassInv(n, d, s) /\ PassInv(m, d, t) /\ PassGrows(s, t)
<1> DEFINE L == Len(file.chunks)
<1>1. L \in Nat
  BY Offsets DEF Given
<1>0. file \in FilesToParse
  BY DEF Given
<1>2. PICK a : ParsePasses(n, k, d, a)
  BY <1>0, ParseRun
<1>3. PICK b : ParsePasses(m, k, d, b)
  BY <1>0, ParseRun
<1> DEFINE Both(i) == PassInv(n, d, a[i]) /\ PassInv(m, d, b[i]) /\ PassGrows(a[i], b[i])
           P == {i \in Nat : i <= L => Both(i)}
<1>4. Both(0)
  <2> DEFINE s == ParseBegin(k, d)
  <2>1. ParseInv(n, s) /\ ParseInv(m, s)
    BY ParseBegins
  <2>2. s.dmux = d
    BY DEF ParseBegin
  <2> HIDE DEF s
  <2>3. SameHeader(d, s.dmux) /\ ~ s.dmux.broken
    BY <2>2 DEF SameHeader
  <2>4. PassInv(n, d, s) /\ PassInv(m, d, s) /\ PassGrows(s, s)
    BY <2>1, <2>3 DEF PassInv, PassGrows
  <2> QED BY <1>2, <1>3, <2>4 DEF s, ParsePasses
<1>5. ASSUME NEW i \in Nat, i + 1 <= L, Both(i) PROVE Both(i + 1)
  <2>1. a[i + 1] = ParseNextChunk(n, a[i]) /\ b[i + 1] = ParseNextChunk(m, b[i])
    BY <1>2, <1>3, <1>5 DEF ParsePasses
  <2>2. PassInv(n, d, a[i]) /\ PassInv(m, d, b[i]) /\ PassGrows(a[i], b[i])
    BY <1>5
  <2>3. PassInv(n, d, ParseNextChunk(n, a[i])) /\ PassInv(m, d, ParseNextChunk(m, b[i]))
    BY <2>2, PassKeeps
  <2>4. PassGrows(ParseNextChunk(n, a[i]), ParseNextChunk(m, b[i]))
    BY <2>2, PassGrowsOn
  <2> QED BY <2>1, <2>3, <2>4
<1> HIDE DEF Both
<1>6. 0 \in P
  BY <1>4
<1>7. \A i \in P : i + 1 \in P
  BY <1>1, <1>5
<1> HIDE DEF P
<1>8. P = Nat
  BY <1>6, <1>7, Induction DEF P
<1>9. Both(L)
  BY <1>1, <1>8 DEF P
<1> QED BY <1>2, <1>3, <1>9 DEF Both, ParsePasses

\* Two parses of a file, the second of more bytes.
ParseGrows(o, p) ==
    \/ o = p
    \/ /\ o.status = "more"
       /\ o.dmux.state \in {"parsing header", "parsed header"}
       /\ p.dmux.state \in {o.dmux.state, "parsed header"}
       /\ p.dmux.broken \/ KeptBy(o.dmux, p.dmux)

\* A file with a simple header has no alpha chunk to show.
LEMMA SimpleGrows ==
    ASSUME NEW n, Given(n), NEW m, Given(m), n <= m, ~ file.raw
    PROVE  LET o == ParseSingleImage(n, 1, InitDemux)
               p == ParseSingleImage(m, 1, InitDemux)
           IN  o.status # "error" /\ p.status # "error" =>
                  /\ ParseGrows(o, p)
                  /\ \A i \in DOMAIN p.dmux.frames : p.dmux.frames[i].alpha = NoSize
<1> DEFINE o == ParseSingleImage(n, 1, InitDemux)
           p == ParseSingleImage(m, 1, InitDemux)
           invalid == SizeIsInvalid(StartOf(1), CHUNK_HEADER_SIZE)
           Waits(l) == Available(l, StartOf(1)) < CHUNK_HEADER_SIZE
           s(l) == StoreFrame(l, 1, 1, EmptyFrame)
<1> SUFFICES ASSUME o.status # "error", p.status # "error"
             PROVE  /\ ParseGrows(o, p)
                    /\ \A i \in DOMAIN p.dmux.frames : p.dmux.frames[i].alpha = NoSize
  OBVIOUS
<1>1. /\ 1 \in 1 .. PastAll /\ StartOf(1) \in Nat /\ End(n) \in Int /\ End(m) \in Int
      /\ End(n) <= End(m)
  <2>1. 1 \in 1 .. PastAll /\ StartOf(1) \in Nat
    BY Offsets DEF Given, PastAll
  <2>2. End(n) \in Int /\ End(m) \in Int /\ End(n) <= End(m)
    BY MoreIsThere
  <2> QED BY <2>1, <2>2
<1>2. \A l \in {n, m} : ParseSingleImage(l, 1, InitDemux) =
                           IF invalid THEN Outcome("error", InitDemux, 1)
                           ELSE IF Waits(l) THEN Outcome("more", InitDemux, 1)
                           ELSE AddSingleImage(s(l), InitDemux)
  BY DEF ParseSingleImage
<1>3. ~ invalid
  BY <1>2 DEF Outcome
<1>4. \A l \in {n, m} : ~ Waits(l) => Available(l, StartOf(1)) >= CHUNK_HEADER_SIZE
  BY <1>1 DEF Available, CHUNK_HEADER_SIZE
<1>5. InitDemux \in DmuxFields /\ InitDemux.frames = << >> /\ InitDemux.state = "parsing header"
      /\ ~ InitDemux.animation /\ ~ InitDemux.alpha /\ ~ InitDemux.extended
  BY InitDemuxInv DEF DmuxInv, InitDemux
<1>9. DOMAIN << >> = {}
  OBVIOUS
<1>6. ASSUME NEW l \in {n, m}, ~ Waits(l)
      PROVE  LET q == ParseSingleImage(l, 1, InitDemux) IN
             q.status # "error" =>
                /\ q.dmux.state \in {"parsing header", "parsed header"}
                /\ \E f : q.dmux.frames = << f >> /\ f.alpha = NoSize
  <2>1. StoreInv(l, 1, EmptyFrame, s(l))
    BY <1>1, <1>4, <1>6, Stored, EmptyFrameTyped
  <2>2. s(l).frame \in FrameFields
    BY <2>1 DEF StoreInv
  <2> DEFINE q == AddSingleImage(s(l), InitDemux)
  <2>3. ParseSingleImage(l, 1, InitDemux) = q
    BY <1>2, <1>3, <1>6
  <2> HIDE DEF s
  <2>4. s(l).status = "error" => q.status = "error"
    BY DEF AddSingleImage, Outcome
  <2>5. s(l).status # "error" =>
           /\ q.dmux.frames = << Adjusted(s(l).frame, InitDemux) >>
           /\ q.dmux.state \in {"parsed header", InitDemux.state}
    BY <1>5, <2>2, ImageAdded
  <2>6. Adjusted(s(l).frame, InitDemux).alpha = NoSize
    BY <1>5, <2>2 DEF Adjusted, FrameFields
  <2> HIDE DEF q
  <2> QED BY <1>5, <2>3, <2>4, <2>5, <2>6
<1>7. ParseGrows(o, p)
  <2>1. CASE Waits(n)
    <3>1. o.status = "more" /\ o.dmux = InitDemux
      BY <1>2, <1>3, <2>1 DEF Outcome
    <3>2. KeptBy(InitDemux, p.dmux)
      BY <1>5, <1>9 DEF KeptBy
    <3>3. p.dmux.state \in {"parsing header", "parsed header"}
      <4>1. CASE Waits(m)
        <5>1. p.dmux = InitDemux
          BY <1>2, <1>3, <4>1 DEF Outcome
        <5> QED BY <1>5, <5>1
      <4>2. CASE ~ Waits(m)
        BY <1>6, <4>2
      <4> QED BY <4>1, <4>2
    <3> HIDE DEF o, p
    <3> QED BY <1>5, <3>1, <3>2, <3>3 DEF ParseGrows
  <2>2. CASE ~ Waits(n)
    <3>1. ~ Waits(m)
      BY <1>1, <2>2 DEF Available, CHUNK_HEADER_SIZE
    <3>2. \/ o = p
          \/ o.status = "more" /\ p.status = "error"
          \/ /\ o.status = "more" /\ KeptBy(o.dmux, p.dmux)
             /\ p.dmux.state \in {o.dmux.state, "parsed header"}
      BY <1>1, <1>4, <1>5, <2>2, <3>1, SingleGrows
    <3>3. o.dmux.state \in {"parsing header", "parsed header"}
      BY <1>6, <2>2
    <3> HIDE DEF o, p
    <3> QED BY <3>2, <3>3 DEF ParseGrows
  <2> QED BY <2>1, <2>2
<1>8. \A i \in DOMAIN p.dmux.frames : p.dmux.frames[i].alpha = NoSize
  <2>1. CASE Waits(m)
    <3>1. p.dmux = InitDemux
      BY <1>2, <1>3, <2>1 DEF Outcome
    <3> QED BY <1>5, <1>9, <3>1
  <2>2. CASE ~ Waits(m)
    <3>1. \E f : p.dmux.frames = << f >> /\ f.alpha = NoSize
      BY <1>6, <2>2
    <3> QED BY <3>1, Alone
  <2> QED BY <2>1, <2>2
<1> QED BY <1>7, <1>8

\* A demuxer without frames.
LEMMA NoFrames ==
    ASSUME NEW d \in DmuxFields, d.frames = << >>, d.num_frames = 0
    PROVE  /\ \A n : DmuxInv(n, d)
           /\ \A e : KeptBy(d, e)
<1>1. DOMAIN << >> = {} /\ Len(<< >>) = 0
  OBVIOUS
<1>2. \A i : i \notin 1 .. 0
  OBVIOUS
<1> QED BY <1>1, <1>2 DEF DmuxInv, KeptBy

\* A file with a VP8X header.
LEMMA ExtendedGrows ==
    ASSUME NEW n, Given(n), NEW m, Given(m), n <= m, ~ file.raw, file.chunks[1].id = "VP8X"
    PROVE  LET o == ParseVP8X(n, InitDemux)
               p == ParseVP8X(m, InitDemux)
           IN  o.status # "error" /\ p.status # "error" =>
                  /\ ParseGrows(o, p)
                  /\ p.dmux.state = "parsing header" => p.status = "more" /\ p.dmux.frames = << >>
<1> DEFINE o == ParseVP8X(n, InitDemux)
           p == ParseVP8X(m, InitDemux)
           chunk == file.chunks[1]
           begin == RIFF_HEADER_SIZE + CHUNK_HEADER_SIZE
           begun == [InitDemux EXCEPT !.extended = TRUE]
           read == [InitDemux EXCEPT !.extended = TRUE, !.state = "parsed header",
                          !.animation = chunk.animation, !.alpha = chunk.alpha,
                          !.width = chunk.width, !.height = chunk.height]
           invalid == chunk.size < VP8X_CHUNK_SIZE \/ SizeIsInvalid(begin, Padded(chunk.size))
           alone == SizeIsInvalid(StartOf(2), CHUNK_HEADER_SIZE)
           NoHeader(l) == Available(l, RIFF_HEADER_SIZE) < CHUNK_HEADER_SIZE
           NoPayload(l) == Available(l, begin) < Padded(chunk.size)
           NoMore(l) == Available(l, StartOf(2)) < CHUNK_HEADER_SIZE
<1> SUFFICES ASSUME o.status # "error", p.status # "error"
             PROVE  /\ ParseGrows(o, p)
                    /\ p.dmux.state = "parsing header" =>
                          p.status = "more" /\ p.dmux.frames = << >>
  OBVIOUS
<1>1. /\ InitDemux \in DmuxFields /\ InitDemux.frames = << >>
      /\ InitDemux.state = "parsing header" /\ ~ InitDemux.broken
  BY InitDemuxInv DEF DmuxInv, InitDemux
<1>2. begun.frames = << >> /\ begun.state = "parsing header"
  BY <1>1 DEF DmuxFields
<1>3. /\ read \in DmuxFields /\ read.frames = << >> /\ read.num_frames = 0
      /\ read.state = "parsed header" /\ read.extended /\ ~ read.broken
  <2>1. /\ chunk.animation \in BOOLEAN /\ chunk.alpha \in BOOLEAN
        /\ chunk.width \in Int /\ chunk.height \in Int
    BY FilesAssumption, Offsets DEF Given
  <2>2. InitDemux.num_frames = 0
    BY DEF InitDemux
  <2> QED BY <1>1, <2>1, <2>2 DEF DmuxFields
<1>4. /\ 2 \in 1 .. PastAll /\ StartOf(2) \in Nat /\ Padded(chunk.size) \in Nat
      /\ End(n) \in Int /\ End(m) \in Int /\ End(n) <= End(m)
  <2>1. 1 \in 1 .. Len(file.chunks) /\ 2 \in 1 .. PastAll
    BY Offsets, FilesAssumption DEF Given, PastAll
  <2> QED BY <2>1, Offsets, ChunkFacts, MoreIsThere DEF Given
<1> HIDE DEF begun, read
<1>5. ASSUME NEW l \in {n, m}
      PROVE  ParseVP8X(l, InitDemux) =
                IF NoHeader(l) THEN Outcome("more", InitDemux, 1)
                ELSE IF invalid THEN Outcome("error", InitDemux, 1)
                ELSE IF NoPayload(l) THEN Outcome("more", begun, 1)
                ELSE IF alone THEN Outcome("error", read, 2)
                ELSE IF NoMore(l) THEN Outcome("more", read, 2)
                ELSE ParseVP8XChunks(l, 2, read)
  BY DEF ParseVP8X, begun, read
<1>6. /\ ~ NoHeader(n) => ~ NoHeader(m)
      /\ ~ NoPayload(n) => ~ NoPayload(m)
      /\ ~ NoMore(n) => ~ NoMore(m)
  <2> DEFINE size == Padded(chunk.size)
  <2>1. size \in Nat
    BY <1>4
  <2> HIDE DEF size
  <2>2. Available(n, begin) < size \/ ~ (Available(m, begin) < size)
    BY <1>4, <2>1 DEF Available, RIFF_HEADER_SIZE, CHUNK_HEADER_SIZE
  <2>3. /\ ~ NoHeader(n) => ~ NoHeader(m)
        /\ ~ NoMore(n) => ~ NoMore(m)
    BY <1>4 DEF Available, RIFF_HEADER_SIZE, CHUNK_HEADER_SIZE
  <2> QED BY <2>2, <2>3 DEF size
<1>7. DOMAIN << >> = {} /\ Len(<< >>) = 0
  OBVIOUS
<1>8. DmuxInv(n, read) /\ DmuxInv(m, read)
  BY <1>3, NoFrames
<1>9. \A e : KeptBy(InitDemux, e) /\ KeptBy(begun, e) /\ KeptBy(read, e)
  BY <1>1, <1>2, <1>3, <1>7 DEF KeptBy
<1>10. ASSUME NEW l \in {n, m}, ~ NoMore(l)
       PROVE  Available(l, StartOf(2)) >= CHUNK_HEADER_SIZE
  BY <1>4, <1>10 DEF Available, CHUNK_HEADER_SIZE
<1> HIDE DEF invalid, alone, NoHeader, NoPayload, NoMore
<1>11. ASSUME NEW l \in {n, m}, ~ NoMore(l)
       PROVE  LET q == ParseVP8XChunks(l, 2, read) IN q.dmux.state = "parsed header"
  <2>1. PassInv(l, read, ParseVP8XChunks(l, 2, read))
    <3>1. Available(l, StartOf(2)) >= CHUNK_HEADER_SIZE /\ DmuxInv(l, read) /\ Given(l) /\ l <= l
      BY <1>8, <1>10, <1>11 DEF Given
    <3> QED BY <1>3, <1>4, <3>1, ChunksGrow
  <2> QED BY <1>3, <2>1 DEF PassInv, SameHeader
<1>12. ASSUME NEW l \in {n, m}, ParseVP8X(l, InitDemux).status # "error"
       PROVE  LET q == ParseVP8X(l, InitDemux) IN
              \/ q.status = "more" /\ q.dmux.state = "parsing header" /\ q.dmux.frames = << >>
              \/ q.dmux.state = "parsed header"
  <2> DEFINE q == ParseVP8X(l, InitDemux)
  <2>1. \/ q = Outcome("more", InitDemux, 1) \/ q = Outcome("more", begun, 1)
        \/ q = Outcome("more", read, 2)
        \/ ~ NoMore(l) /\ q = ParseVP8XChunks(l, 2, read)
    BY <1>5, <1>12 DEF Outcome
  <2> HIDE DEF q
  <2>4. ASSUME ~ NoMore(l), q = ParseVP8XChunks(l, 2, read) PROVE q.dmux.state = "parsed header"
    BY <1>11, <2>4
  <2>2. \/ q.status = "more" /\ q.dmux \in {InitDemux, begun}
        \/ q.dmux = read
        \/ q.dmux.state = "parsed header"
    <3>1. /\ Outcome("more", InitDemux, 1).status = "more"
          /\ Outcome("more", InitDemux, 1).dmux = InitDemux
          /\ Outcome("more", begun, 1).status = "more"
          /\ Outcome("more", begun, 1).dmux = begun
          /\ Outcome("more", read, 2).dmux = read
      BY DEF Outcome
    <3> QED BY <2>1, <2>4, <3>1
  <2>3. \/ q.status = "more" /\ q.dmux.state = "parsing header" /\ q.dmux.frames = << >>
        \/ q.dmux.state = "parsed header"
    BY <1>1, <1>2, <1>3, <2>2
  <2> QED BY <2>3 DEF q
<1>13. p.dmux.state \in {"parsing header", "parsed header"}
  BY <1>12
<1>14. CASE NoHeader(n) \/ NoPayload(n)
  <2>1. o = Outcome("more", InitDemux, 1) \/ o = Outcome("more", begun, 1)
    BY <1>5, <1>14 DEF Outcome
  <2> HIDE DEF o, p
  <2>4. o.status = "more" /\ o.dmux \in {InitDemux, begun}
    BY <2>1 DEF Outcome
  <2>2. /\ o.status = "more" /\ o.dmux.state = "parsing header"
        /\ KeptBy(o.dmux, p.dmux)
    BY <1>1, <1>2, <1>9, <2>4
  <2>3. ParseGrows(o, p)
    BY <1>13, <2>2 DEF ParseGrows
  <2> QED BY <1>12, <2>3 DEF o, p
<1>15. CASE ~ NoHeader(n) /\ ~ NoPayload(n)
  <2>1. ~ invalid /\ ~ alone
    BY <1>5, <1>15 DEF Outcome
  <2>2. ASSUME NEW l \in {n, m}
        PROVE  ParseVP8X(l, InitDemux) = IF NoMore(l) THEN Outcome("more", read, 2)
                                         ELSE ParseVP8XChunks(l, 2, read)
    BY <1>5, <1>6, <1>15, <2>1
  <2>3. ParseGrows(o, p) /\ p.dmux.state = "parsed header"
    <3>1. CASE NoMore(n) /\ NoMore(m)
      <4>1. o = Outcome("more", read, 2) /\ p = Outcome("more", read, 2)
        BY <2>2, <3>1
      <4> HIDE DEF o, p
      <4>2. o = p /\ p.dmux = read
        BY <4>1 DEF Outcome
      <4> QED BY <1>3, <4>2 DEF ParseGrows
    <3>2. CASE NoMore(n) /\ ~ NoMore(m)
      <4>1. o = Outcome("more", read, 2) /\ p = ParseVP8XChunks(m, 2, read)
        BY <2>2, <3>2
      <4>2. p.dmux.state = "parsed header"
        BY <1>11, <3>2, <4>1
      <4> HIDE DEF o, p
      <4>3. o.status = "more" /\ o.dmux = read
        BY <4>1 DEF Outcome
      <4> QED BY <1>3, <1>9, <4>2, <4>3 DEF ParseGrows
    <3>3. CASE ~ NoMore(n)
      <4>1. o = ParseVP8XChunks(n, 2, read) /\ p = ParseVP8XChunks(m, 2, read) /\ ~ NoMore(m)
        BY <1>6, <2>2, <3>3
      <4>2. PassInv(n, read, o) /\ PassInv(m, read, p) /\ PassGrows(o, p)
        <5>1. /\ Available(n, StartOf(2)) >= CHUNK_HEADER_SIZE
              /\ Available(m, StartOf(2)) >= CHUNK_HEADER_SIZE
          BY <1>10, <3>3, <4>1
        <5> HIDE DEF o, p
        <5> QED BY <1>3, <1>4, <1>8, <4>1, <5>1, ChunksGrow
      <4> HIDE DEF o, p
      <4>3. o.dmux.state = "parsed header" /\ p.dmux.state = "parsed header"
        BY <1>3, <4>2 DEF PassInv, SameHeader
      <4> QED BY <4>2, <4>3 DEF PassGrows, ParsedMore, ParseGrows
    <3> QED BY <3>1, <3>2, <3>3
  <2> QED BY <2>3
<1> QED BY <1>14, <1>15

\* What FramesKept says of two demuxers.
NotBefore(x, y) == \E i, j \in DOMAIN States : i <= j /\ States[i] = x /\ States[j] = y

Kept(d, e) ==
    /\ ~ e.broken => \A i \in DOMAIN d.frames :
                        d.frames[i].complete => StillThere(d.frames[i], i, e)
    /\ NotBefore(d.state, e.state)

\* The demuxer that WebPDemuxInternal makes of a parse.
Reported(o) == [o.dmux EXCEPT !.state = IF o.status = "ok" THEN "done" ELSE @]

LEMMA StatesOrdered ==
    /\ \A x \in {"parsing header", "parsed header", "done"} : NotBefore(x, x)
    /\ \A x \in {"parsing header", "parsed header"}, y \in {"parsed header", "done"} :
          NotBefore(x, y)
<1>1. DOMAIN States = 1 .. 3
  BY DEF States
<1>2. States[1] = "parsing header" /\ States[2] = "parsed header" /\ States[3] = "done"
  BY DEF States
<1>3. \A i, j \in 1 .. 3 : i <= j =>
         \E k, l \in DOMAIN States : k <= l /\ States[k] = States[i] /\ States[l] = States[j]
  BY <1>1
<1>4. 1 \in 1 .. 3 /\ 2 \in 1 .. 3 /\ 3 \in 1 .. 3 /\ 1 <= 2 /\ 2 <= 3 /\ 1 <= 3
      /\ 1 <= 1 /\ 2 <= 2 /\ 3 <= 3
  OBVIOUS
<1>5. \A i, j \in 1 .. 3 : i <= j => NotBefore(States[i], States[j])
  BY <1>3 DEF NotBefore
<1>6. /\ NotBefore("parsing header", "parsing header") /\ NotBefore("parsed header", "parsed header")
      /\ NotBefore("done", "done") /\ NotBefore("parsing header", "parsed header")
      /\ NotBefore("parsing header", "done") /\ NotBefore("parsed header", "done")
  BY <1>2, <1>4, <1>5
<1> QED BY <1>6

LEMMA ParsedKept ==
    ASSUME NEW o, NEW p, o.dmux \in DmuxFields, p.dmux \in DmuxFields, ParseGrows(o, p),
           \A i \in DOMAIN p.dmux.frames :
              p.dmux.frames[i].complete => ~ LateAlpha(p.dmux.frames[i])
    PROVE  Kept(Reported(o), Reported(p))
<1> DEFINE d == Reported(o)
           e == Reported(p)
<1>1. /\ d.frames = o.dmux.frames /\ d.state = (IF o.status = "ok" THEN "done" ELSE o.dmux.state)
      /\ e.frames = p.dmux.frames /\ e.state = (IF p.status = "ok" THEN "done" ELSE p.dmux.state)
      /\ e.broken = p.dmux.broken /\ e.animation = p.dmux.animation /\ e.alpha = p.dmux.alpha
  BY DEF Reported, DmuxFields
<1>2. o.dmux.state \in {"parsing header", "parsed header", "done"}
  BY DEF DmuxFields
<1>3. CASE o = p
  <2>1. d = e
    BY <1>3
  <2> HIDE DEF d, e
  <2>2. d.state \in {"parsing header", "parsed header", "done"}
    BY <1>1, <1>2
  <2>3. \A i \in DOMAIN d.frames : StillThere(d.frames[i], i, d)
    BY DEF StillThere
  <2>4. NotBefore(d.state, e.state)
    BY <2>1, <2>2, StatesOrdered
  <2>5. Kept(d, e)
    BY <2>1, <2>3, <2>4 DEF Kept
  <2> QED BY <2>5 DEF d, e
<1>4. CASE o # p
  <2> HIDE DEF d, e
  <2>1. /\ o.status = "more"
        /\ o.dmux.state \in {"parsing header", "parsed header"}
        /\ p.dmux.state \in {o.dmux.state, "parsed header"}
        /\ p.dmux.broken \/ KeptBy(o.dmux, p.dmux)
    BY <1>4 DEF ParseGrows
  <2>2. \/ d.state = e.state /\ d.state \in {"parsing header", "parsed header", "done"}
        \/ d.state \in {"parsing header", "parsed header"} /\ e.state \in {"parsed header", "done"}
    BY <1>1, <2>1
  <2>3. NotBefore(d.state, e.state)
    BY <2>2, StatesOrdered
  <2>4. ASSUME ~ e.broken, NEW i \in DOMAIN d.frames, d.frames[i].complete
        PROVE  StillThere(d.frames[i], i, e)
    <3>1. \/ StillThere(d.frames[i], i, p.dmux)
          \/ /\ i \in DOMAIN p.dmux.frames /\ p.dmux.frames[i].complete
             /\ LateAlpha(p.dmux.frames[i])
      BY <1>1, <2>1, <2>4 DEF KeptBy
    <3>2. StillThere(d.frames[i], i, p.dmux)
      BY <3>1
    <3> QED BY <1>1, <3>2 DEF StillThere
  <2>5. Kept(d, e)
    BY <2>3, <2>4 DEF Kept
  <2> QED BY <2>5 DEF d, e
<1> QED BY <1>3, <1>4

\* The demuxers of one file, of its first n bytes and of its first m.
LEMMA DemuxersKept ==
    ASSUME NEW n, Given(n), NEW m, Given(m), n <= m, ~ file.raw,
           NEW c, c = WebPDemuxInternal(n, TRUE), Known(c.dmux),
           NEW g, g = WebPDemuxInternal(m, TRUE), Known(g.dmux)
    PROVE  Kept(c.dmux, g.dmux)
<1> DEFINE master == file.chunks[1].id
           Parsed(l) == IF master = "VP8X" THEN ParseVP8X(l, InitDemux)
                        ELSE IF master \in {"VP8", "VP8L"} THEN ParseSingleImage(l, 1, InitDemux)
                        ELSE Outcome("error", InitDemux, 1)
           o == Parsed(n)
           p == Parsed(m)
           valid(l) == IF master = "VP8X" THEN IsValidExtendedFormat(Reported(Parsed(l)))
                       ELSE IsValidSimpleFormat(Reported(Parsed(l)))
<1>1. 1 \in 1 .. PastAll
  BY Offsets DEF Given, PastAll
<1>2. ASSUME NEW l \in {n, m}, Known(WebPDemuxInternal(l, TRUE).dmux)
      PROVE  /\ WebPDemuxInternal(l, TRUE).dmux = Reported(Parsed(l))
             /\ Parsed(l).status \in {"ok", "more"} /\ valid(l)
  <2> DEFINE early == [state |-> "parsing header", dmux |-> None]
             x == Parsed(l)
             accepted == /\ ~ x.dmux.overread
                         /\ x.status = "ok" \/ (x.status = "more" /\ l < RiffEnd)
                         /\ IF master = "VP8X" THEN IsValidExtendedFormat(Reported(x))
                            ELSE IsValidSimpleFormat(Reported(x))
  <2>1. WebPDemuxInternal(l, TRUE) = IF l < RIFF_HEADER_SIZE + CHUNK_HEADER_SIZE THEN early
                                     ELSE Demuxed(l, master, x)
    BY DEF WebPDemuxInternal
  <2> HIDE DEF x, early
  <2>2. /\ accepted => Demuxed(l, master, x).dmux = Reported(x)
        /\ ~ accepted => ~ Known(Demuxed(l, master, x).dmux)
    BY DEF Demuxed, Reported, Unknown, Known, InitDemux
  <2>3. ~ Known(early.dmux)
    BY DEF early, Known
  <2> HIDE DEF accepted
  <2>4. accepted /\ WebPDemuxInternal(l, TRUE).dmux = Reported(x)
    BY <1>2, <2>1, <2>2, <2>3
  <2>5. /\ WebPDemuxInternal(l, TRUE).dmux = Reported(x)
        /\ x.status \in {"ok", "more"}
        /\ IF master = "VP8X" THEN IsValidExtendedFormat(Reported(x))
           ELSE IsValidSimpleFormat(Reported(x))
    <3>1. /\ x.status = "ok" \/ (x.status = "more" /\ l < RiffEnd)
          /\ IF master = "VP8X" THEN IsValidExtendedFormat(Reported(x))
             ELSE IsValidSimpleFormat(Reported(x))
      BY <2>4 DEF accepted
    <3>2. WebPDemuxInternal(l, TRUE).dmux = Reported(x)
      BY <2>4
    <3> QED BY <3>1, <3>2
  <2> QED BY <2>5 DEF x
<1>3. /\ c.dmux = Reported(o) /\ o.status # "error"
      /\ g.dmux = Reported(p) /\ p.status # "error" /\ valid(m)
  BY <1>2
<1> HIDE DEF o, p
<1>4. /\ o.dmux \in DmuxFields /\ p.dmux \in DmuxFields /\ ParseGrows(o, p)
      /\ \A i \in DOMAIN p.dmux.frames :
            p.dmux.frames[i].complete => ~ LateAlpha(p.dmux.frames[i])
  <2>1. CASE master = "VP8X"
    <3>1. o = ParseVP8X(n, InitDemux) /\ p = ParseVP8X(m, InitDemux)
      BY <2>1 DEF o, p
    <3>2. o.dmux \in DmuxFields /\ p.dmux \in DmuxFields
      <4>1. DmuxInv(n, o.dmux) /\ DmuxInv(m, p.dmux)
        BY <2>1, <3>1, Extended
      <4> QED BY <4>1 DEF DmuxInv
    <3>3. /\ ParseGrows(o, p)
          /\ p.dmux.state = "parsing header" => p.status = "more" /\ p.dmux.frames = << >>
      BY <1>3, <2>1, <3>1, ExtendedGrows
    <3>4. ASSUME NEW i \in DOMAIN p.dmux.frames, p.dmux.frames[i].complete
          PROVE  ~ LateAlpha(p.dmux.frames[i])
      <4> DEFINE e == Reported(p)
      <4>1. /\ e.frames = p.dmux.frames
            /\ e.state = IF p.status = "ok" THEN "done" ELSE p.dmux.state
        BY <3>2 DEF Reported, DmuxFields
      <4>2. IsValidExtendedFormat(e)
        BY <1>3, <2>1 DEF p
      <4> HIDE DEF e
      <4>3. e.state # "parsing header"
        <5>1. DOMAIN << >> = {}
          OBVIOUS
        <5> QED BY <3>3, <3>4, <4>1, <5>1
      <4>4. ValidFrame(e, i)
        BY <3>4, <4>1, <4>2, <4>3 DEF IsValidExtendedFormat
      <4>5. \/ p.dmux.frames[i].alpha = NoSize
            \/ p.dmux.frames[i].alpha.offset <= p.dmux.frames[i].image.offset
        BY <3>4, <4>1, <4>4 DEF ValidFrame
      <4>6. p.dmux.frames[i] \in FrameFields
        <5>1. p.dmux.frames \in Seq(FrameFields)
          BY <3>2 DEF DmuxFields
        <5> QED BY <3>4, <5>1
      <4>7. /\ p.dmux.frames[i].alpha.offset \in Int /\ p.dmux.frames[i].image.offset \in Int
        BY <4>6 DEF FrameFields, Extent
      <4> QED BY <4>5, <4>7 DEF LateAlpha
    <3> QED BY <3>2, <3>3, <3>4
  <2>2. CASE master # "VP8X" /\ master \in {"VP8", "VP8L"}
    <3>1. o = ParseSingleImage(n, 1, InitDemux) /\ p = ParseSingleImage(m, 1, InitDemux)
      BY <2>2 DEF o, p
    <3>2. o.dmux \in DmuxFields /\ p.dmux \in DmuxFields
      <4>1. DmuxInv(n, o.dmux) /\ DmuxInv(m, p.dmux)
        BY <1>1, <3>1, SingleImage, InitDemuxInv DEF OutcomeInv
      <4> QED BY <4>1 DEF DmuxInv
    <3>3. /\ ParseGrows(o, p)
          /\ \A i \in DOMAIN p.dmux.frames : p.dmux.frames[i].alpha = NoSize
      BY <1>3, <3>1, SimpleGrows
    <3> QED BY <3>2, <3>3 DEF LateAlpha
  <2>3. CASE master # "VP8X" /\ master \notin {"VP8", "VP8L"}
    <3>1. o = Outcome("error", InitDemux, 1)
      BY <2>3 DEF o
    <3> QED BY <1>3, <3>1 DEF Outcome
  <2> QED BY <2>1, <2>2, <2>3
<1> QED BY <1>3, <1>4, ParsedKept

--------------------------------------------------------------------------------
(* What the parser makes of a file is the file's alone: it stays while the file does *)

\* A file that stays parses the same.
LEMMA SameStart == ASSUME file' = file, NEW k PROVE StartOf(k)' = StartOf(k)
BY DEF StartOf, LengthOf

LEMMA SameStore ==
    ASSUME file' = file, NEW k, NEW n, NEW num, NEW f
    PROVE  StoreFrame(n, num, k, f)' = StoreFrame(n, num, k, f)
BY DEF StartOf, LengthOf, StoreFrame, StoreFrameChunk, AfterChunk, Available, SizeIsInvalid,
       End, RiffEnd

LEMMA SameSingle ==
    ASSUME file' = file, NEW k, NEW n, NEW d
    PROVE  ParseSingleImage(n, k, d)' = ParseSingleImage(n, k, d)
<1>1. StoreFrame(n, 1, k, EmptyFrame)' = StoreFrame(n, 1, k, EmptyFrame)
  BY SameStore
<1>2. StartOf(k)' = StartOf(k)
  BY SameStart
<1> QED BY <1>1, <1>2 DEF ParseSingleImage, SizeIsInvalid, Available, End, RiffEnd

LEMMA SameAnimation ==
    ASSUME file' = file, NEW k, NEW n, NEW d
    PROVE  ParseAnimationFrame(n, k, d)' = ParseAnimationFrame(n, k, d)
<1>1. \A num, j, f : StoreFrame(n, num, j, f)' = StoreFrame(n, num, j, f)
  BY SameStore
<1>2. StartOf(k)' = StartOf(k) /\ StartOf(k + 1)' = StartOf(k + 1)
  BY SameStart
<1> QED BY <1>1, <1>2 DEF ParseAnimationFrame, SizeIsInvalid, Available, End, RiffEnd

LEMMA SameChunk ==
    ASSUME file' = file, NEW k, NEW n, NEW d
    PROVE  ParseChunk(n, k, d)' = ParseChunk(n, k, d)
BY SameSingle, SameAnimation, SameStart DEF ParseChunk, PassChunk, Available, End, RiffEnd

LEMMA SamePass ==
    ASSUME file' = file, NEW n, NEW s
    PROVE  ParseNextChunk(n, s)' = ParseNextChunk(n, s)
<1> DEFINE one == ParseChunk(n, s.next, s.dmux)
<1>1. one' = one
  BY SameChunk
<1>2. \A k : StartOf(k)' = StartOf(k)
  BY SameStart
<1>3. (StartOf(one.next))' = StartOf(one.next)
  <2> HIDE DEF one
  <2> QED BY <1>1, <1>2
<1>4. (Refused(s.next, s.dmux, s.anims))' = Refused(s.next, s.dmux, s.anims)
  BY <1>2 DEF Refused, SizeIsInvalid, RiffEnd
<1>5. \A l, at, status : AfterChunk(l, at, status)' = AfterChunk(l, at, status)
  BY DEF AfterChunk, Available, End, RiffEnd
<1>6. RiffEnd' = RiffEnd
  BY DEF RiffEnd
<1> QED BY <1>1, <1>3, <1>4, <1>5, <1>6 DEF ParseNextChunk

\* There is one loop over the chunks behind VP8X.
LEMMA OneLoop ==
    ASSUME NEW n, NEW k, NEW d, NEW m \in Nat, NEW a, ParseLoop(n, k, d, a, m),
           NEW b, ParseLoop(n, k, d, b, m)
    PROVE  a[m] = b[m]
<1> DEFINE P == {i \in Nat : i <= m => a[i] = b[i]}
<1>1. 0 \in P
  BY DEF ParseLoop, ParseTo
<1>2. ASSUME NEW i \in P PROVE i + 1 \in P
  <2>1. CASE i + 1 <= m
    <3>1. i + 1 \in 0 .. m /\ i + 1 # 0 /\ (i + 1) - 1 = i /\ i <= m
      BY <2>1
    <3>2. a[i + 1] = ParseTo(n, k, d, a, i + 1) /\ b[i + 1] = ParseTo(n, k, d, b, i + 1)
      BY <3>1 DEF ParseLoop
    <3>3. a[i + 1] = b[i + 1]
      BY <3>1, <3>2 DEF ParseTo
    <3> QED BY <3>3
  <2> QED BY <2>1
<1> HIDE DEF P
<1>3. P = Nat
  BY <1>1, <1>2, Induction DEF P
<1> QED BY <1>3 DEF P

LEMMA SameChunks ==
    ASSUME file \in FilesToParse, file' = file, NEW n, NEW k, NEW d
    PROVE  ParseVP8XChunks(n, k, d)' = ParseVP8XChunks(n, k, d)
<1> DEFINE L == Len(file.chunks)
           a == CHOOSE loop : ParseLoop(n, k, d, loop, L)
<1>1. L \in Nat /\ L' = L
  BY Offsets
<1>2. ParseVP8XChunks(n, k, d) = a[L]
  BY DEF ParseVP8XChunks, ParseLoop, ParseTo
<1>3. ParseVP8XChunks(n, k, d)' = (a[L])'
  BY DEF ParseVP8XChunks, ParseLoop, ParseTo
<1>4. ParseLoop(n, k, d, a, L)
  BY <1>1, ParseLoopExists
<1>5. \A loop : ParseLoop(n, k, d, loop, L)' <=> ParseLoop(n, k, d, loop, L)
  <2> SUFFICES ASSUME NEW loop
               PROVE  ParseLoop(n, k, d, loop, L)' <=> ParseLoop(n, k, d, loop, L)
    OBVIOUS
  <2>1. \A s : ParseNextChunk(n, s)' = ParseNextChunk(n, s)
    BY SamePass
  <2>2. \A i : ParseTo(n, k, d, loop, i)' = ParseTo(n, k, d, loop, i)
    BY <2>1 DEF ParseTo
  <2> QED BY <1>1, <2>2 DEF ParseLoop
<1>6. (ParseLoop(n, k, d, a, L))'
  BY <1>1, <1>5, ParseLoopExists
<1> HIDE DEF a
<1>7. ParseLoop(n, k, d, a', L)
  BY <1>1, <1>5, <1>6
<1>8. a[L] = a'[L]
  BY <1>1, <1>4, <1>7, OneLoop
<1> QED BY <1>1, <1>2, <1>3, <1>8

LEMMA SameDemuxer ==
    ASSUME file \in FilesToParse, file' = file, NEW n
    PROVE  WebPDemuxInternal(n, TRUE)' = WebPDemuxInternal(n, TRUE)
<1>1. \A k : StartOf(k)' = StartOf(k)
  BY SameStart
<1>2. \A k, d : ParseSingleImage(n, k, d)' = ParseSingleImage(n, k, d)
  BY SameSingle
<1>3. \A k, d : ParseVP8XChunks(n, k, d)' = ParseVP8XChunks(n, k, d)
  BY SameChunks
<1>4. RiffEnd' = RiffEnd /\ \A at : Available(n, at)' = Available(n, at)
  BY DEF RiffEnd, Available, End
<1>5. \A d : ParseVP8X(n, d)' = ParseVP8X(n, d)
  BY <1>1, <1>3, <1>4 DEF ParseVP8X, SizeIsInvalid
<1>6. CreateRawImageDemuxer(n)' = CreateRawImageDemuxer(n)
  BY DEF CreateRawImageDemuxer
<1>7. \A master, parsed : Demuxed(n, master, parsed)' = Demuxed(n, master, parsed)
  BY <1>4 DEF Demuxed
<1> QED BY <1>2, <1>4, <1>5, <1>6, <1>7 DEF WebPDemuxInternal

--------------------------------------------------------------------------------
(* The player *)

\* What arrives is one of the files considered, until a sequence is made of it.
Arriving ==
    /\ received \in Nat
    /\ creation = "none" => file \in FilesToParse /\ received <= FileSize

PlayerInv == CInv /\ Arriving /\ EveryFrameDrawable

\* Nothing has arrived at first.
LEMMA PlayerInitInv == PlayerInit => PlayerInv
<1> SUFFICES ASSUME PlayerInit PROVE PlayerInv
  OBVIOUS
<1>1. CInv
  BY InitInvariant DEF PlayerInit
<1>2. /\ file \in FilesToParse /\ received = 0 /\ creation = "none"
  BY DEF PlayerInit, DemuxInit, ContextsInit
<1>3. FileSize \in Nat
  BY <1>2, Offsets DEF FileSize, PastAll
<1>4. Arriving /\ EveryFrameDrawable
  BY <1>2, <1>3 DEF Arriving, EveryFrameDrawable
<1> QED BY <1>1, <1>4 DEF PlayerInv

\* A byte arrives.
LEMMA PlayerArrives == PlayerInv /\ Arrive => PlayerInv'
<1> SUFFICES ASSUME PlayerInv, Arrive PROVE PlayerInv'
  OBVIOUS
<1>1. /\ creation = "none" /\ UNCHANGED contextVars /\ received < FileSize
      /\ received' = received + 1 /\ UNCHANGED <<file, image>>
  BY DEF Arrive, Receive
<1>2. creation' = "none"
  BY <1>1 DEF contextVars
<1>3. CInv'
  BY <1>1, ContextsStep DEF PlayerInv
<1>4. FileSize' = FileSize /\ FileSize \in Nat
  <2>1. FileSize' = FileSize
    BY <1>1 DEF FileSize, StartOf, LengthOf
  <2>2. FileSize \in Nat
    BY <1>1, Offsets DEF FileSize, PastAll, PlayerInv, Arriving
  <2> QED BY <2>1, <2>2
<1>5. received \in Nat /\ file \in FilesToParse
  BY <1>1 DEF PlayerInv, Arriving
<1>6. Arriving' /\ EveryFrameDrawable'
  BY <1>1, <1>2, <1>4, <1>5 DEF Arriving, EveryFrameDrawable
<1> QED BY <1>3, <1>6 DEF PlayerInv

\* A demuxer that is known is what the parser made.
LEMMA KnownIsParsed ==
    ASSUME NEW q, NEW r \in Possible(q), Known(r.dmux) PROVE r = q
BY DEF Possible, Known

\* The constructor parses what is there, or throws.
LEMMA PlayerConstructs == PlayerInv /\ Construct => PlayerInv'
<1> SUFFICES ASSUME PlayerInv, Construct PROVE PlayerInv'
  OBVIOUS
<1>0. PICK r \in Possible(WebPDemuxInternal(received, FALSE)) :
         IF r.dmux = None
         THEN CreationFails /\ image' = NoImage
         ELSE Create /\ image' = [dmux |-> r.dmux, size |-> End(received)]
  BY DEF Construct
<1> DEFINE parsed == r.dmux
<1>1. /\ received > 0 /\ received' = 0
      /\ IF parsed = None
         THEN CreationFails /\ image' = NoImage
         ELSE Create /\ image' = [dmux |-> parsed, size |-> End(received)]
  BY <1>0 DEF Construct
<1>8. Known(parsed) => parsed = WebPDemuxInternal(received, FALSE).dmux
  BY KnownIsParsed
<1> HIDE DEF parsed
<1>2. Create \/ CreationFails
  BY <1>1
<1>3. creation = "none" /\ creation' \in {"done", "failed"}
  BY <1>2 DEF Create, CreationFails
<1>4. CInv'
  BY <1>2, CreateInvariant DEF PlayerInv
<1>5. Arriving'
  BY <1>1, <1>3 DEF Arriving
<1>6. Given(received)
  BY <1>3 DEF PlayerInv, Arriving, Given
<1>7. EveryFrameDrawable'
  <2>1. CASE parsed = None
    BY <1>1, <2>1 DEF CreationFails, EveryFrameDrawable
  <2>2. CASE parsed # None
    <3>1. Known(parsed) => parsed.frames # << >> /\ Usable(parsed, End(received))
      BY <1>6, <1>8, WholeUsable
    <3>2. image'.dmux = parsed /\ image'.size = End(received)
      BY <1>1, <2>2
    <3>3. \/ ~ Known(image'.dmux)
          \/ Usable(image'.dmux, image'.size) /\ image'.dmux.frames # << >>
      BY <3>1, <3>2
    <3> QED BY <3>3 DEF EveryFrameDrawable, Usable, FitsCanvas, Known
  <2> QED BY <2>1, <2>2
<1> QED BY <1>4, <1>5, <1>7 DEF PlayerInv

\* Playing changes neither the file nor what was made of it.
LEMMA PlayerPlays == PlayerInv /\ Play => PlayerInv'
<1> SUFFICES ASSUME PlayerInv, Play PROVE PlayerInv'
  OBVIOUS
<1>1. UNCHANGED <<file, received, image>>
  BY DEF Play, demuxVars
<1>2. ContextsNext
  BY DEF Play, ContextsNext
<1>3. CInv'
  BY <1>2, ContextsStep DEF PlayerInv
<1>4. creation' = creation
  BY DEF Play, Forget, StartCall, InCall, Enter, Count, TakeFrame, Use, Leave, ClearContext,
         Last, Finalize
<1>5. FileSize' = FileSize
  BY <1>1 DEF FileSize, StartOf, LengthOf
<1>6. Arriving' /\ EveryFrameDrawable'
  BY <1>1, <1>4, <1>5 DEF PlayerInv, Arriving, EveryFrameDrawable
<1> QED BY <1>3, <1>6 DEF PlayerInv

\* The player's invariant: counts are exact, and what it draws from is usable.
THEOREM PlayerInvariant == PlayerSpec => []PlayerInv
<1>1. PlayerInv /\ [PlayerNext]_playerVars => PlayerInv'
  <2> SUFFICES ASSUME PlayerInv, [PlayerNext]_playerVars PROVE PlayerInv'
    OBVIOUS
  <2>1. CASE UNCHANGED playerVars
    <3>1. UNCHANGED contextVars /\ UNCHANGED <<file, received, image, creation>>
      BY <2>1 DEF playerVars, contextVars
    <3>2. CInv'
      BY <3>1, ContextsStep DEF PlayerInv
    <3>3. FileSize' = FileSize
      BY <3>1 DEF FileSize, StartOf, LengthOf
    <3> QED BY <3>1, <3>2, <3>3 DEF PlayerInv, Arriving, EveryFrameDrawable
  <2> QED BY <2>1, PlayerArrives, PlayerConstructs, PlayerPlays DEF PlayerNext
<1> QED BY <1>1, PlayerInitInv, PTL DEF PlayerSpec

\* Every frame that a sequence counts can be drawn, whatever sizes the bytes claim
\* it was made of, as long as the parser read no chunk's header that was not there:
\* the constructor has refused the others.
THEOREM FramesDrawable == PlayerSpec => []EveryFrameDrawable
BY PlayerInvariant, PTL DEF PlayerInv

\* Nor does the player, whose sequence begins with a parsed file, free anything
\* in use.
THEOREM PlayerFreesNothingInUse == PlayerSpec => []NoUseAfterFree
<1>1. PlayerInv => NoUseAfterFree
  BY DEF PlayerInv, CInv, NoUseAfterFree, HeldLive, Shares, Live, ContextsTypeOK
<1> QED BY <1>1, PlayerInvariant, PTL

\* While the file arrives, demuxed is what the parser makes of the bytes there.
ParsedSoFar == creation = "none" => demuxed \in Possible(WebPDemuxInternal(received, TRUE))

\* What a byte more makes of it.
LEMMA ArriveParses ==
    ASSUME PlayerInv, Arrive
    PROVE  /\ creation = "none" /\ creation' = "none" /\ file' = file
           /\ Given(received) /\ Given(received + 1) /\ received <= received + 1
           /\ demuxed' \in Possible(WebPDemuxInternal(received + 1, TRUE))
           /\ ParsedSoFar'
<1>1. /\ creation = "none" /\ creation' = "none" /\ received < FileSize
      /\ received' = received + 1 /\ file' = file
      /\ demuxed' \in Possible(WebPDemuxInternal(received + 1, TRUE))
  BY DEF Arrive, Receive, contextVars
<1>2. file \in FilesToParse /\ received \in Nat
  BY <1>1 DEF PlayerInv, Arriving
<1>3. FileSize \in Nat
  BY <1>2, Offsets DEF FileSize, PastAll
<1>4. Given(received) /\ Given(received + 1) /\ received <= received + 1
  BY <1>1, <1>2, <1>3 DEF Given
<1>5. (WebPDemuxInternal(received, TRUE))' = WebPDemuxInternal(received + 1, TRUE)
  <2>1. \A n : WebPDemuxInternal(n, TRUE)' = WebPDemuxInternal(n, TRUE)
    BY <1>1, <1>2, SameDemuxer
  <2> QED BY <1>1, <2>1
<1>6. ParsedSoFar'
  BY <1>1, <1>5 DEF ParsedSoFar, Possible
<1> QED BY <1>1, <1>4, <1>6

\* No step of the player takes a frame back.
LEMMA StepKeeps ==
    ASSUME PlayerInv, ParsedSoFar, [PlayerNext]_playerVars
    PROVE  /\ ParsedSoFar'
           /\ \/ UNCHANGED demuxVars
              \/ ~ Known(demuxed'.dmux)
              \/ ~ file.raw /\ Known(demuxed.dmux) /\ Known(demuxed'.dmux)
                    => Kept(demuxed.dmux, demuxed'.dmux)
<1>1. CASE Arrive
  <2>1. /\ creation = "none" /\ file' = file /\ ParsedSoFar'
        /\ Given(received) /\ Given(received + 1) /\ received <= received + 1
        /\ demuxed' \in Possible(WebPDemuxInternal(received + 1, TRUE))
    BY <1>1, ArriveParses
  <2>2. demuxed \in Possible(WebPDemuxInternal(received, TRUE))
    BY <2>1 DEF ParsedSoFar
  <2>3. ASSUME ~ file.raw, Known(demuxed.dmux), Known(demuxed'.dmux)
        PROVE  Kept(demuxed.dmux, demuxed'.dmux)
    <3>1. /\ demuxed = WebPDemuxInternal(received, TRUE)
          /\ demuxed' = WebPDemuxInternal(received + 1, TRUE)
      BY <2>1, <2>2, <2>3, KnownIsParsed
    <3> QED BY <2>1, <2>3, <3>1, DemuxersKept
  <2> QED BY <2>1, <2>3
<1>2. CASE Construct
  <2>1. demuxed' = [state |-> "parsing header", dmux |-> None]
    BY <1>2 DEF Construct
  <2>2. creation' # "none"
    BY <1>2 DEF Construct, Create, CreationFails
  <2> QED BY <2>1, <2>2 DEF ParsedSoFar, Known
<1>3. CASE Play \/ UNCHANGED playerVars
  <2>1. UNCHANGED demuxVars /\ creation' = creation
    BY <1>3 DEF Play, playerVars, demuxVars, Forget, StartCall, InCall, Enter, Count, TakeFrame,
           Use, Leave, ClearContext, Last, Finalize
  <2>2. creation = "none" => file \in FilesToParse
    BY DEF PlayerInv, Arriving
  <2>3. ASSUME creation = "none"
        PROVE  (WebPDemuxInternal(received, TRUE))' = WebPDemuxInternal(received, TRUE)
    <3>1. \A n : WebPDemuxInternal(n, TRUE)' = WebPDemuxInternal(n, TRUE)
      BY <2>1, <2>2, <2>3, SameDemuxer DEF demuxVars
    <3> QED BY <2>1, <3>1 DEF demuxVars
  <2>4. ParsedSoFar'
    BY <2>1, <2>3 DEF ParsedSoFar, Possible, demuxVars
  <2> QED BY <2>1, <2>4
<1> QED BY <1>1, <1>2, <1>3 DEF PlayerNext

\* Parsing again with more bytes takes nothing back: a frame that was complete
\* stays, and the state of the parser does not go backwards, between two parses of
\* which neither read a chunk's header that was not there.
THEOREM FramesStay == PlayerSpec => FramesKept
<1>1. PlayerInit => ParsedSoFar
  <2> SUFFICES ASSUME PlayerInit PROVE ParsedSoFar
    OBVIOUS
  <2>1. received = 0 /\ demuxed = [state |-> "parsing header", dmux |-> None]
    BY DEF PlayerInit, DemuxInit
  <2>2. 0 < RIFF_HEADER_SIZE + CHUNK_HEADER_SIZE
    BY DEF RIFF_HEADER_SIZE, CHUNK_HEADER_SIZE
  <2>3. WebPDemuxInternal(0, TRUE) = [state |-> "parsing header", dmux |-> None]
    BY <2>2 DEF WebPDemuxInternal
  <2> QED BY <2>1, <2>3 DEF ParsedSoFar, Possible, Unknown
<1>2. PlayerInv /\ ParsedSoFar /\ [PlayerNext]_playerVars => ParsedSoFar'
  BY StepKeeps
<1>3. PlayerInv /\ ParsedSoFar /\ [PlayerNext]_playerVars =>
         [ ~ file.raw /\ Known(demuxed.dmux) /\ Known(demuxed'.dmux) =>
              LET d == demuxed.dmux e == demuxed'.dmux IN
              /\ ~ e.broken => \A i \in DOMAIN d.frames :
                                  d.frames[i].complete => StillThere(d.frames[i], i, e)
              /\ \E i, j \in DOMAIN States : /\ i <= j
                                             /\ States[i] = d.state
                                             /\ States[j] = e.state ]_demuxVars
  BY StepKeeps DEF Kept, NotBefore
<1> QED BY <1>1, <1>2, <1>3, PlayerInvariant, PTL DEF PlayerSpec, FramesKept

--------------------------------------------------------------------------------
(* The decoder of animations *)

Pictures == [Positions -> Pixels]

TypeOK ==
    /\ animation \in Animations
    /\ curr_frame_ \in Pictures
    /\ prev_frame_disposed_ \in Pictures
    /\ prev_frame_was_keyframe_ \in BOOLEAN
    /\ next_frame_ \in 1 .. Len(animation) + 1
    /\ shown \in Pictures

\* What the decoder remembers of the previous frame is that frame's, and the
\* disposed canvas is what the previous frame leaves of the one it was shown on.
PreviousKept ==
    next_frame_ > 1 =>
        /\ prev_iter_ = next_frame_ - 1
        /\ prev_frame_disposed_ = Disposed(animation[next_frame_ - 1], shown)

\* Outside its rectangle, a key frame shows nothing.
KeyFrameAlone ==
    next_frame_ > 1 /\ prev_frame_was_keyframe_ =>
        \A p \in Positions \ Covered(animation[next_frame_ - 1]) : shown[p] = Clear

IInv == TypeOK /\ PreviousKept /\ KeyFrameAlone

--------------------------------------------------------------------------------
(* Frames and pixels *)

LEMMA FrameType ==
  ASSUME NEW a \in Animations, NEW n \in 1 .. Len(a)
  PROVE  a[n] \in Frame
BY AnimationsAssumption

LEMMA PixelType ==
  ASSUME NEW f \in Frame, NEW n \in Nat, NEW p \in Positions
  PROVE  /\ PixelOf(f, n, p) \in Pixels
         /\ f.alpha[p] = "full" => IsOpaque(PixelOf(f, n, p))
<1>1. CASE f.alpha[p] = "clear"
  BY <1>1, EmptySeq DEF PixelOf, Pixels, Clear
<1>2. CASE f.alpha[p] # "clear"
  <2> DEFINE layer == [frame |-> n, kind |-> f.alpha[p]]
  <2>1. f.alpha[p] \in Opacities
    BY DEF Frame
  <2>2. layer \in Layers
    BY <1>2, <2>1 DEF Layers, Opacities
  <2>3. PixelOf(f, n, p) = << layer >>
    BY <1>2 DEF PixelOf
  <2> HIDE DEF layer
  <2>4. << layer >> \in Pixels /\ << layer >> # Clear /\ Len(<< layer >>) = 1
        /\ << layer >>[1] = layer
    BY <2>2 DEF Pixels, Clear
  <2>5. layer.kind = f.alpha[p]
    BY DEF layer
  <2> QED
    BY <2>3, <2>4, <2>5 DEF IsOpaque
<1> QED
  BY <1>1, <1>2

\* Drawing over a transparent pixel shows the pixel itself.
LEMMA OverClear ==
  ASSUME NEW pixel \in Pixels
  PROVE  Over(pixel, Clear) = pixel
BY ConcatEmptySeq DEF Over, Clear, Pixels

LEMMA OverType ==
  ASSUME NEW above \in Pixels, NEW below \in Pixels
  PROVE  Over(above, below) \in Pixels
BY ConcatProperties DEF Over, Pixels

\* A frame as wide and as high as the canvas covers it.
LEMMA FullFrameCovers ==
  ASSUME NEW f \in Frame, IsFullFrame(f)
  PROVE  Covered(f) = Positions
BY CanvasAssumption DEF Frame, IsFullFrame, Covered, Positions

\* What is left out of the blending is what the previous frame cleared.
LEMMA UnblendedIsErased ==
  ASSUME NEW f \in Frame, NEW g \in Frame, NEW p \in Covered(f),
         p \notin BlendArea(f, g)
  PROVE  g.background /\ p \in Covered(g)
<1>1. p \in Positions
  BY DEF Covered
<1> QED
  BY <1>1, CanvasAssumption
  DEF BlendArea, FindBlendRangeAtRow, InRange, Covered, Frame, Positions

LEMMA BlankType == Blank \in Pictures
BY EmptySeq DEF Blank, Pictures, Pixels, Clear

LEMMA DisposedType ==
  ASSUME NEW f \in Frame, NEW c \in Pictures
  PROVE  Disposed(f, c) \in Pictures
BY EmptySeq DEF Disposed, Erased, Pictures, Pixels, Clear

--------------------------------------------------------------------------------
(* What GetNext decodes is the frame drawn over what its predecessor left *)

\* The canvas the next frame is to be drawn over.
Ground ==
    IF next_frame_ = 1 THEN Blank ELSE Disposed(animation[next_frame_ - 1], shown)

\* A key frame's ground cannot be seen: the frame hides it or it is blank.
LEMMA KeyFrameGround ==
  ASSUME IInv, next_frame_ <= Len(animation), IsKeyFrame(next_frame_)
  PROVE  \/ Ground = Blank
         \/ /\ Covered(animation[next_frame_]) = Positions
            /\ \/ ~animation[next_frame_].blend
               \/ \A p \in Positions : animation[next_frame_].alpha[p] = "full"
<1> DEFINE n == next_frame_
           f == animation[n]
<1>0. n \in 1 .. Len(animation) /\ f \in Frame
  BY FrameType, AnimationsAssumption DEF IInv, TypeOK
<1>1. CASE n = 1
  BY <1>1 DEF Ground
<1>2. CASE ReplacesAll(n)
  BY <1>0, <1>2, FullFrameCovers DEF ReplacesAll, Frame
<1>3. CASE n > 1 /\ LeavesNothing(prev_iter_, prev_frame_was_keyframe_)
  <2> DEFINE g == animation[n - 1]
  <2>1. g \in Frame
    BY <1>0, <1>3, FrameType, AnimationsAssumption DEF IInv, TypeOK
  <2>2. /\ prev_iter_ = n - 1
        /\ g.background
        /\ IsFullFrame(g) \/ prev_frame_was_keyframe_
    BY <1>3 DEF IInv, PreviousKept, LeavesNothing
  <2>3. \A p \in Positions \ Covered(g) : shown[p] = Clear
    BY <1>3, <2>1, <2>2, FullFrameCovers DEF IInv, KeyFrameAlone
  <2>4. Ground = Erased(g, shown)
    BY <1>3, <2>2 DEF Ground, Disposed
  <2>5. Erased(g, shown) = Blank
    BY <2>3 DEF Erased, Blank
  <2> QED BY <2>4, <2>5
<1> QED
  BY <1>0, <1>1, <1>2, <1>3 DEF IsKeyFrame

LEMMA DecodedIsDrawn ==
  ASSUME IInv, next_frame_ <= Len(animation)
  PROVE  Decoded(next_frame_) = Drawn(animation[next_frame_], next_frame_, Ground)
<1> DEFINE n == next_frame_
           f == animation[n]
           dec(p) == IF p \notin Covered(f) THEN Prepared(n)[p]
                     ELSE IF p \in (IF f.blend /\ ~IsKeyFrame(n)
                                    THEN BlendArea(f, animation[prev_iter_]) ELSE {})
                          THEN Over(PixelOf(f, n, p), prev_frame_disposed_[p])
                          ELSE PixelOf(f, n, p)
           drw(p) == IF p \notin Covered(f) THEN Ground[p]
                     ELSE IF f.blend THEN Over(PixelOf(f, n, p), Ground[p])
                     ELSE PixelOf(f, n, p)
<1>0. n \in 1 .. Len(animation) /\ n \in Nat /\ f \in Frame
  BY FrameType, AnimationsAssumption DEF IInv, TypeOK
<1>1. Decoded(n) = [p \in Positions |-> dec(p)]
  BY DEF Decoded
<1>2. Drawn(f, n, Ground) = [p \in Positions |-> drw(p)]
  BY DEF Drawn
<1>3. ASSUME NEW p \in Positions PROVE dec(p) = drw(p)
  <2>1. PixelOf(f, n, p) \in Pixels
    BY <1>0, PixelType
  <2>2. Over(PixelOf(f, n, p), Clear) = PixelOf(f, n, p)
    BY <2>1, OverClear
  <2>3. CASE IsKeyFrame(n)
    <3>1. Prepared(n)[p] = Clear
      BY <2>3 DEF Prepared, Blank
    <3>2. CASE Ground = Blank
      BY <2>2, <2>3, <3>1, <3>2 DEF Blank
    <3>3. CASE /\ p \in Covered(f)
               /\ ~f.blend \/ f.alpha[p] = "full"
      <4>1. f.alpha[p] = "full" => Over(PixelOf(f, n, p), Ground[p]) = PixelOf(f, n, p)
        BY <1>0, PixelType DEF Over
      <4> QED BY <2>3, <3>3, <4>1
    <3> QED BY <2>3, <3>2, <3>3, KeyFrameGround
  <2>4. CASE ~IsKeyFrame(n)
    <3>1. n > 1 /\ n - 1 \in 1 .. Len(animation)
      BY <1>0, <2>4 DEF IsKeyFrame
    <3>2. /\ prev_iter_ = n - 1
          /\ prev_frame_disposed_ = Ground
          /\ Prepared(n) = Ground
      BY <2>4, <3>1 DEF IInv, PreviousKept, Prepared, Ground
    <3>3. animation[n - 1] \in Frame
      BY <3>1, FrameType DEF IInv, TypeOK
    <3>4. ASSUME p \in Covered(f), p \notin BlendArea(f, animation[n - 1])
          PROVE  Ground[p] = Clear
      <4>1. animation[n - 1].background /\ p \in Covered(animation[n - 1])
        BY <1>0, <3>3, <3>4, UnblendedIsErased
      <4> QED BY <3>1, <4>1 DEF Ground, Disposed, Erased
    <3> QED BY <2>2, <2>4, <3>2, <3>4
  <2> QED BY <2>3, <2>4
<1> HIDE DEF dec, drw
<1> QED
  BY <1>1, <1>2, <1>3

LEMMA DecodedType ==
  ASSUME IInv, next_frame_ <= Len(animation)
  PROVE  Decoded(next_frame_) \in Pictures
<1> DEFINE n == next_frame_
           f == animation[n]
<1>0. n \in 1 .. Len(animation) /\ n \in Nat /\ f \in Frame
  BY FrameType, AnimationsAssumption DEF IInv, TypeOK
<1>1. Prepared(n) \in Pictures
  BY BlankType DEF Prepared, IInv, TypeOK
<1>2. ASSUME NEW p \in Positions
      PROVE  /\ Prepared(n)[p] \in Pixels
             /\ PixelOf(f, n, p) \in Pixels
             /\ Over(PixelOf(f, n, p), prev_frame_disposed_[p]) \in Pixels
  BY <1>0, <1>1, PixelType, OverType DEF Pictures, IInv, TypeOK
<1> QED
  BY <1>2 DEF Decoded, Pictures

--------------------------------------------------------------------------------
(* The invariant *)

\* A frame decoded as a key frame shows nothing outside its rectangle.
LEMMA KeyFrameDecoded ==
  ASSUME IInv, next_frame_ <= Len(animation), IsKeyFrame(next_frame_),
         NEW p \in Positions \ Covered(animation[next_frame_])
  PROVE  Decoded(next_frame_)[p] = Clear
BY DEF Decoded, Prepared, Blank

LEMMA InitIInv == Init => IInv
<1> SUFFICES ASSUME Init PROVE IInv
  OBVIOUS
<1>1. animation \in Seq(Frame) /\ animation # << >>
  BY AnimationsAssumption DEF Init
<1>2. 1 \in 1 .. Len(animation) + 1
  BY <1>1, LenProperties
<1>3. TypeOK
  BY <1>2, BlankType DEF Init, TypeOK
<1> QED
  BY <1>3 DEF Init, IInv, PreviousKept, KeyFrameAlone

LEMMA GetNextIInv == IInv /\ GetNext => IInv'
<1> SUFFICES ASSUME IInv, GetNext PROVE IInv'
  OBVIOUS
<1> DEFINE n == next_frame_
<1>0. /\ n \in 1 .. Len(animation)
      /\ animation[n] \in Frame
      /\ n <= Len(animation)
  BY FrameType, AnimationsAssumption DEF IInv, TypeOK, GetNext
<1>1. /\ curr_frame_' = Decoded(n)
      /\ shown' = Decoded(n)
      /\ prev_frame_disposed_' = Disposed(animation[n], shown')
      /\ next_frame_' = n + 1
      /\ prev_iter_' = n
      /\ prev_frame_was_keyframe_' = IsKeyFrame(n)
      /\ animation' = animation
  BY DEF GetNext
<1>2. Decoded(n) \in Pictures
  BY <1>0, DecodedType
<1>3. Disposed(animation[n], shown') \in Pictures
  BY <1>0, <1>1, <1>2, DisposedType
<1>4. IsKeyFrame(n) \in BOOLEAN
  BY DEF IsKeyFrame
<1>5. Len(animation) \in Nat /\ animation \in Animations
  BY AnimationsAssumption DEF IInv, TypeOK
<1>6. next_frame_' - 1 = n
  BY <1>0, <1>1, <1>5
<1>7. TypeOK'
  BY <1>0, <1>1, <1>2, <1>3, <1>4, <1>5 DEF TypeOK, Pictures, Positions, Pixels, Layers
<1>8. PreviousKept'
  BY <1>1, <1>6 DEF PreviousKept, Disposed, Erased, Covered, Positions, Clear
<1>9. KeyFrameAlone'
  <2> SUFFICES ASSUME prev_frame_was_keyframe_',
                      NEW p \in Positions \ Covered(animation[n])
               PROVE  shown'[p] = Clear
    BY <1>1, <1>6 DEF KeyFrameAlone, Positions, Covered, Clear
  <2> QED BY <1>0, <1>1, KeyFrameDecoded
<1> QED BY <1>7, <1>8, <1>9 DEF IInv

\* A failure touches nothing the next attempt depends on.
LEMMA GetNextFailsIInv == IInv /\ GetNextFails => IInv'
<1> SUFFICES ASSUME IInv, GetNextFails PROVE IInv'
  OBVIOUS
<1> DEFINE n == next_frame_
           broken == << [frame |-> n, kind |-> "broken"] >>
<1>0. n \in Nat
  BY AnimationsAssumption DEF IInv, TypeOK
<1>1. broken \in Pixels
  BY <1>0 DEF Pixels, Layers
<1>2. Prepared(n) \in Pictures
  BY BlankType DEF Prepared, IInv, TypeOK
<1> HIDE DEF broken
<1>3. PICK written \in {{}, Covered(animation[n])} :
        curr_frame_' = [p \in Positions |-> IF p \in written THEN broken ELSE Prepared(n)[p]]
  BY DEF GetNextFails, broken
<1>4. curr_frame_' \in Pictures
  BY <1>1, <1>2, <1>3 DEF Pictures
<1>5. UNCHANGED <<animation, prev_frame_disposed_, prev_iter_, prev_frame_was_keyframe_,
                  next_frame_, shown>>
  BY DEF GetNextFails
<1>6. TypeOK'
  BY <1>4, <1>5 DEF IInv, TypeOK, Pictures, Pixels, Positions, Layers
<1>7. PreviousKept' /\ KeyFrameAlone'
  BY <1>5 DEF IInv, PreviousKept, KeyFrameAlone, Disposed, Erased, Covered, Positions, Clear
<1> QED BY <1>6, <1>7 DEF IInv

LEMMA ResetIInv == IInv /\ Reset => IInv'
<1> SUFFICES ASSUME IInv, Reset PROVE IInv'
  OBVIOUS
<1>1. animation \in Seq(Frame)
  BY AnimationsAssumption DEF IInv, TypeOK
<1>2. 1 \in 1 .. Len(animation) + 1
  BY <1>1, LenProperties
<1>3. TypeOK'
  BY <1>2 DEF IInv, TypeOK, Reset, Pictures, Pixels, Positions, Layers
<1>4. next_frame_' = 1
  BY DEF Reset
<1> QED BY <1>3, <1>4 DEF IInv, PreviousKept, KeyFrameAlone

LEMMA StutterIInv == IInv /\ UNCHANGED vars => IInv'
BY DEF IInv, TypeOK, PreviousKept, KeyFrameAlone, vars, decoder, Pictures, Pixels,
       Positions, Layers, Disposed, Erased, Covered, Clear

LEMMA Invariance == Spec => []IInv
<1>1. IInv /\ [Next]_vars => IInv'
  BY GetNextIInv, GetNextFailsIInv, ResetIInv, StutterIInv DEF Next
<1> QED BY <1>1, InitIInv, PTL DEF Spec

--------------------------------------------------------------------------------
(* The refinement *)

\* The abstract module's operators are this module's.
LEMMA SameFormat ==
  /\ Canvas!Blank = Blank
  /\ \A f, n, c : Canvas!Drawn(f, n, c) = Drawn(f, n, c)
  /\ \A f, c : Canvas!Disposed(f, c) = Disposed(f, c)
BY DEF Canvas!Blank, Blank, Canvas!Drawn, Drawn, Canvas!Disposed, Disposed,
       Canvas!Erased, Erased, Canvas!Covered, Covered, Canvas!Positions, Positions,
       Canvas!Over, Over, Canvas!PixelOf, PixelOf, Canvas!Clear, Clear,
       Canvas!IsOpaque, IsOpaque

LEMMA InitRefines == Init => Canvas!Init
BY SameFormat DEF Init, Canvas!Init

LEMMA GetNextRefines == IInv /\ GetNext => Canvas!Advance
<1> SUFFICES ASSUME IInv, GetNext PROVE Canvas!Advance
  OBVIOUS
<1>0. next_frame_ \in 1 .. Len(animation)
  BY AnimationsAssumption DEF IInv, TypeOK, GetNext
<1>1. shown' = Drawn(animation[next_frame_], next_frame_, Ground)
  BY DecodedIsDrawn DEF GetNext
<1>2. next_frame_' = next_frame_ + 1 /\ animation' = animation /\ next_frame_' # 1
  BY <1>0 DEF GetNext
<1>3. next_frame_ - 1 + 1 = next_frame_ /\ (next_frame_ - 1 = 0 <=> next_frame_ = 1)
      /\ next_frame_ - 1 < Len(animation)
      /\ next_frame_' - 1 = next_frame_ - 1 + 1
  BY <1>0, <1>2
<1>4. Ground = IF next_frame_ - 1 = 0 THEN Canvas!Blank
               ELSE Canvas!Disposed(animation[next_frame_ - 1],
                                    IF next_frame_ = 1 THEN Blank ELSE shown)
  BY <1>3, SameFormat DEF Ground
<1> QED BY <1>1, <1>2, <1>3, <1>4, SameFormat DEF Canvas!Advance

\* Whatever is decoded, fails, or begins again, the caller is shown the
\* animation's canvas (anim_decode.c, WebPAnimDecoderGetNext and Reset).
THEOREM Refinement == Spec => ImplementsCanvas
<1>1. IInv /\ [Next]_vars => [Canvas!Next]_(Canvas!vars)
  <2>1. IInv /\ GetNext => Canvas!Next
    BY GetNextRefines DEF Canvas!Next
  <2>2. GetNextFails => UNCHANGED Canvas!vars
    BY DEF GetNextFails, Canvas!vars
  <2>3. Reset => Canvas!Next
    BY SameFormat DEF Reset, Canvas!Next, Canvas!Restart
  <2>4. UNCHANGED vars => UNCHANGED Canvas!vars
    BY DEF vars, decoder, Canvas!vars
  <2> QED BY <2>1, <2>2, <2>3, <2>4 DEF Next
<1> QED
  BY <1>1, InitRefines, Invariance, PTL DEF Spec, Canvas!Spec, ImplementsCanvas

\* What the decoder keeps between two calls is exactly what the next frame
\* needs: the previous frame, and the canvas it leaves.
THEOREM DisposedCanvasKept == Spec => []PreviousKept
<1>1. IInv => PreviousKept
  BY DEF IInv
<1> QED BY <1>1, Invariance, PTL
================================================================================
