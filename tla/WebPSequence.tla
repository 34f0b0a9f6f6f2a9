------------------------------ MODULE WebPSequence -----------------------------
(***************************************************************************)
(* The player's sequence over the demuxer: a file arrives, and whatever of *)
(* it is there when the sequence is constructed is parsed as a whole file  *)
(* (WebPImageNativeCreateFromByteVector); the sequence lives as long as    *)
(* the demuxer accepts the bytes, and its frames are drawn straight into a *)
(* bitmap of the canvas's size.                                            *)
(***************************************************************************)
EXTENDS Demux, NativeContexts

VARIABLE image          \* the sequence's demuxer and the size of its buffer

playerVars == <<file, received, demuxed, image, creation, reachable, finalized,
                field, refCount, context, owner, shares, demuxer, thread,
                released, usage>>

NoImage == [dmux |-> None, size |-> 0]
NoFile == [raw |-> FALSE, riff |-> 0, chunks |-> << >>]

PlayerInit == DemuxInit /\ ContextsInit /\ image = NoImage

\* The file arrives; nobody parses it further once the sequence is made.
Arrive ==
    /\ creation = "none"
    /\ Receive
    /\ UNCHANGED <<image, contextVars>>

\* WebPImage.create: WebPDemux, of the bytes at hand.  The image copies those it
\* needs, and the caller's are garbage.
Construct ==
    /\ received > 0
    /\ \E parsed \in Possible(WebPDemuxInternal(received, FALSE)) :
       IF parsed.dmux = None
       THEN CreationFails /\ image' = NoImage
       ELSE Create /\ image' = [dmux |-> parsed.dmux, size |-> End(received)]
    /\ file' = NoFile
    /\ received' = 0
    /\ demuxed' = [state |-> "parsing header", dmux |-> None]

Play ==
    /\ \/ Forget
       \/ \E t \in Threads : StartCall(t)
       \/ \E t \in Actors : InCall(t)
       \/ \E o \in Collectables : Finalize(o)
    /\ UNCHANGED <<demuxVars, image>>

PlayerNext == Arrive \/ Construct \/ Play

PlayerSpec == PlayerInit /\ [][PlayerNext]_playerVars /\ ContextsFairness

--------------------------------------------------------------------------------

\* However much of a file arrived, the constructor refuses the bytes or every
\* frame the sequence counts can be drawn: getFrame finds it, its pixels are
\* written within the bitmap, and its bytes are read within the file.  This is so
\* for every file but one kind: where an ANMF claims less than the header of a
\* chunk and less than that is left behind its parameters, the parser reads a
\* header that is not there (demux.c:213-221), and no frame is known to be right.
EveryFrameDrawable ==
    creation = "done" =>
        \/ ~ Known(image.dmux)
        \/ image.dmux.frames # << >> /\ Usable(image.dmux, image.size)

================================================================================
