---------------------------- MODULE MediaFilesManager ----------------------------
(***************************************************************************)
(* CachedMediaFilesManager: loads of media files share a disk cache and a  *)
(* map of downloads under way.  A load that misses the cache registers a   *)
(* BehaviorSubject for its key, or finds the one another load registered;  *)
(* it subscribes to it outside the lock, and the one who registered it     *)
(* downloads the file, on its own thread.                                  *)
(*                                                                         *)
(* Entries are removed from the map without the lock, from a HashMap that  *)
(* others change meanwhile.  Where a removal overlaps another change the   *)
(* removed entry may stay, or the other key's entry be lost; damaged tells *)
(* that this came to pass.  The disk cache is DiskLruCache as its clients  *)
(* see it: one edit per key, values published whole, evicted at any time.  *)
(***************************************************************************)
EXTENDS Naturals, FiniteSets

CONSTANTS
    Loads,              \* calls of loadAsFile and loadAsByteArray, each on a thread
    Keys,
    Requests,           \* what the loads may be for: see request
    None

ASSUME LoadsAssumption == IsFiniteSet(Loads) /\ None \notin Loads
ASSUME RequestsAssumption == Requests \subseteq [Loads -> [key: Keys, bytes: BOOLEAN]]

VARIABLES
    valid,              \* the disk cache could be constructed
    cached,             \* keys with a file in the cache
    editing,            \* per key: the load that has its editor
    ongoingDownloads,   \* per key: the load whose subject is registered
    damaged,            \* the map lost a change
    pc,                 \* per load: where its caller's Single stands
    request,            \* the file it is for, and if its bytes are wanted
    on,                 \* the load whose subject it subscribes to
    download,           \* where the download it is in charge of stands
    failure,            \* how its download failed
    subject,            \* state of the subject it registered
    overlap             \* keys whose entries changed while it removes its own

vars == <<valid, cached, editing, ongoingDownloads, damaged, pc, request, on,
          download, failure, subject, overlap>>

Failures == {"failed", "interrupted"}

TypeOK ==
    /\ valid \in BOOLEAN /\ damaged \in BOOLEAN
    /\ cached \subseteq Keys
    /\ editing \in [Keys -> Loads \union {None}]
    /\ ongoingDownloads \in [Keys -> Loads \union {None}]
    /\ pc \in [Loads -> {"idle", "lookup", "register", "subscribe", "waiting",
                         "reading", "network", "answered"}]
    /\ request \in [Loads -> [key: Keys, bytes: BOOLEAN]]
    /\ on \in [Loads -> Loads \union {None}]
    /\ \A l \in Loads : pc[l] \in {"subscribe", "waiting"} => on[l] # None
    /\ download \in [Loads -> {"none", "fetch", "put", "write", "get", "remove",
                               "removing", "publish", "complete"}]
    /\ failure \in [Loads -> Failures \union {None}]
    /\ subject \in [Loads -> {"open", "value", "completed"} \union Failures]
    /\ overlap \in [Loads -> SUBSET Keys]

Init ==
    /\ valid \in BOOLEAN
    /\ cached = {}
    /\ editing = [k \in Keys |-> None]
    /\ ongoingDownloads = [k \in Keys |-> None]
    /\ damaged = FALSE
    /\ pc = [l \in Loads |-> "idle"]
    /\ request \in Requests
    /\ on = [l \in Loads |-> None]
    /\ download = [l \in Loads |-> "none"]
    /\ failure = [l \in Loads |-> None]
    /\ subject = [l \in Loads |-> "open"]
    /\ overlap = [l \in Loads |-> {}]

Key(l) == request[l].key

storage == <<valid, cached, editing>>
map == <<ongoingDownloads, damaged, overlap>>
work == <<download, failure, subject>>

--------------------------------------------------------------------------------
(* A load, up to its subscription *)

\* What a file, or an error, means for the caller: bytes are read from the
\* file, and after an error other than an interruption from the network.
AfterFile(l) == IF request[l].bytes THEN "reading" ELSE "answered"
AfterError(l, e) == IF request[l].bytes /\ e # "interrupted" THEN "network" ELSE "answered"

Load(l) ==
    /\ pc[l] = "idle"
    /\ pc' = [pc EXCEPT ![l] = "lookup"]
    /\ UNCHANGED <<request, storage, map, work, on>>

\* findFileInCacheObservable
Lookup(l) ==
    /\ pc[l] = "lookup"
    /\ pc' = [pc EXCEPT ![l] = IF Key(l) \in cached THEN AfterFile(l) ELSE "register"]
    /\ UNCHANGED <<request, storage, map, work, on>>

\* Those at work on the map while the entry of k changes learn of it.
Overlapping(k) ==
    [l \in Loads |-> IF download[l] = "removing" THEN overlap[l] \union {k} ELSE overlap[l]]

\* No download is registered for the key.  (The mutant: it is not looked for.)
NoneRegisteredUnchecked(k) == TRUE
NoneRegistered(k) == ongoingDownloads[k] = None

\* The synchronized section of findFileInPendingDownloadsOrDownload.
Register(l) ==
    /\ pc[l] = "register"
    /\ pc' = [pc EXCEPT ![l] = "subscribe"]
    /\ IF NoneRegistered(Key(l))
       THEN /\ on' = [on EXCEPT ![l] = l]
            /\ ongoingDownloads' = [ongoingDownloads EXCEPT ![Key(l)] = l]
            /\ overlap' = Overlapping(Key(l))
       ELSE /\ on' = [on EXCEPT ![l] = ongoingDownloads[Key(l)]]
            /\ UNCHANGED <<ongoingDownloads, overlap>>
    /\ UNCHANGED <<request, storage, damaged, work>>

\* BehaviorSubject.subscribe: the value or the error it has is delivered, a
\* subject that completed only completes; then the download begins.
Subscribe(l) ==
    /\ pc[l] = "subscribe"
    /\ LET s == subject[on[l]] IN
       pc' = [pc EXCEPT ![l] = CASE s = "value" -> AfterFile(l)
                                 [] s \in Failures -> AfterError(l, s)
                                 [] OTHER -> "waiting"]
    /\ download' = IF on[l] = l THEN [download EXCEPT ![l] = "fetch"] ELSE download
    /\ UNCHANGED <<request, storage, map, on, failure, subject>>

\* loadFileInMemory: the file may have been evicted.
Read(l) ==
    /\ pc[l] = "reading"
    /\ pc' = [pc EXCEPT ![l] = IF Key(l) \in cached THEN "answered" ELSE "network"]
    /\ UNCHANGED <<request, storage, map, work, on>>

\* loadFromNetworkAsByteArray: bytes or an error, either is an answer.
FromNetwork(l) ==
    /\ pc[l] = "network"
    /\ pc' = [pc EXCEPT ![l] = "answered"]
    /\ UNCHANGED <<request, storage, map, work, on>>

--------------------------------------------------------------------------------
(* The download, by the load that registered it *)

DownloadGoesTo(l, place) == download' = [download EXCEPT ![l] = place]

Fail(l, e) ==
    /\ failure' = [failure EXCEPT ![l] = e]
    /\ DownloadGoesTo(l, "remove")

\* mediaApi.load; processErrors tells interruptions from the rest.
Fetch(l) ==
    /\ download[l] = "fetch"
    /\ \/ DownloadGoesTo(l, "put") /\ UNCHANGED failure
       \/ \E e \in Failures : Fail(l, e)
    /\ UNCHANGED <<request, storage, map, pc, on, subject>>

\* put: NotValidCacheException, OtherEditInProgressException, or an editor.
BeginPut(l) ==
    /\ download[l] = "put"
    /\ IF valid /\ editing[Key(l)] = None
       THEN /\ editing' = [editing EXCEPT ![Key(l)] = l]
            /\ DownloadGoesTo(l, "write")
            /\ UNCHANGED failure
       ELSE Fail(l, "failed") /\ UNCHANGED editing
    /\ UNCHANGED <<request, valid, cached, map, pc, on, subject>>

\* put ends: the file is published, or a write failed silently and the entry is
\* removed, or the response could not be read and the edit is aborted.
EndPut(l) ==
    /\ download[l] = "write"
    /\ editing' = [editing EXCEPT ![Key(l)] = None]
    /\ \/ /\ cached' \in {cached \union {Key(l)}, cached \ {Key(l)}}
          /\ DownloadGoesTo(l, "get")
          /\ UNCHANGED failure
       \/ /\ \E e \in Failures : Fail(l, e)
          /\ UNCHANGED cached
    /\ UNCHANGED <<request, valid, map, pc, on, subject>>

\* diskCache.get: the file may be gone again.
GetBack(l) ==
    /\ download[l] = "get"
    /\ IF Key(l) \in cached THEN DownloadGoesTo(l, "remove") /\ UNCHANGED failure
       ELSE Fail(l, "failed")
    /\ UNCHANGED <<request, storage, map, pc, on, subject>>

\* ongoingDownloads.remove, without the lock.
BeginRemove(l) ==
    /\ download[l] = "remove"
    /\ DownloadGoesTo(l, "removing")
    /\ overlap' = [Overlapping(Key(l)) EXCEPT
          ![l] = {Key(o) : o \in {m \in Loads : download[m] = "removing"}}]
    /\ UNCHANGED <<request, storage, ongoingDownloads, damaged, pc, on, failure,
                   subject>>

\* The map once the entry is removed.  (The mutant: a failed download stays.)
RemovedUnlessFailed(l) ==
    IF failure[l] # None THEN ongoingDownloads
    ELSE [ongoingDownloads EXCEPT ![Key(l)] = None]
Removed(l) == [ongoingDownloads EXCEPT ![Key(l)] = None]

EndRemove(l) ==
    /\ download[l] = "removing"
    /\ DownloadGoesTo(l, "publish")
    /\ \/ /\ ongoingDownloads' = Removed(l)
          /\ UNCHANGED damaged
       \/ /\ overlap[l] # {}
          /\ damaged' = TRUE
          /\ \/ UNCHANGED ongoingDownloads
             \/ \E k \in overlap[l] :
                   ongoingDownloads' = [Removed(l) EXCEPT ![k] = None]
    /\ overlap' = [Overlapping(Key(l)) EXCEPT ![l] = {}]
    /\ UNCHANGED <<request, storage, pc, on, failure, subject>>

Subscribers(l) == {m \in Loads : pc[m] = "waiting" /\ on[m] = l}

\* onNext(file), or onError: whoever subscribed is called.
\* (The mutant: an error is not passed on.)
AfterErrorDropped(m, e) == "waiting"
AfterPublishedError(m, e) == AfterError(m, e)

Publish(l) ==
    /\ download[l] = "publish"
    /\ LET e == failure[l] IN
       IF e = None
       THEN /\ subject' = [subject EXCEPT ![l] = "value"]
            /\ pc' = [m \in Loads |-> IF m \in Subscribers(l) THEN AfterFile(m) ELSE pc[m]]
            /\ DownloadGoesTo(l, "complete")
       ELSE /\ subject' = [subject EXCEPT ![l] = e]
            /\ pc' = [m \in Loads |->
                  IF m \in Subscribers(l) THEN AfterPublishedError(m, e) ELSE pc[m]]
            /\ DownloadGoesTo(l, "none")
    /\ UNCHANGED <<request, storage, map, on, failure>>

\* onComplete: nobody listens to it.
Complete(l) ==
    /\ download[l] = "complete"
    /\ subject' = [subject EXCEPT ![l] = "completed"]
    /\ DownloadGoesTo(l, "none")
    /\ UNCHANGED <<request, storage, map, pc, on, failure>>

\* The disk cache trims itself.
Evict(k) ==
    /\ k \in cached
    /\ editing[k] = None
    /\ cached' = cached \ {k}
    /\ UNCHANGED <<request, valid, editing, map, work, pc, on>>

--------------------------------------------------------------------------------

Call(l) == Lookup(l) \/ Register(l) \/ Subscribe(l) \/ Read(l) \/ FromNetwork(l)

Download(l) ==
    \/ Fetch(l) \/ BeginPut(l) \/ EndPut(l) \/ GetBack(l)
    \/ BeginRemove(l) \/ EndRemove(l) \/ Publish(l) \/ Complete(l)

Next ==
    \/ \E l \in Loads : Load(l) \/ Call(l) \/ Download(l)
    \/ \E k \in Keys : Evict(k)

\* Threads go on, and requests end: the http client has timeouts.
Fairness == \A l \in Loads : WF_vars(Call(l)) /\ WF_vars(Download(l))

Spec == Init /\ [][Next]_vars /\ Fairness

--------------------------------------------------------------------------------

\* In charge of a download that is, or is about to be, registered.
InCharge(l) ==
    \/ pc[l] = "subscribe" /\ on[l] = l
    \/ download[l] \in {"fetch", "put", "write", "get", "remove", "removing"}

\* As long as the map keeps what it is told, a key is downloaded by one load
\* at a time, and that is the one the map names.
OneDownloadPerKey ==
    ~ damaged =>
        \A l \in Loads : InCharge(l) <=> ongoingDownloads[Key(l)] = l

\* The assertion in processErrors: the cache is never asked for a second
\* editor of a key while the first is out.
NoOtherEditInProgress ==
    ~ damaged =>
        \A l \in Loads : download[l] = "put" => editing[Key(l)] = None

\* A load that came after the subject completed: it is never answered.
MissedIt(l) == pc[l] = "waiting" /\ subject[on[l]] = "completed"

\* Whatever fails or is evicted, each load is answered that did not subscribe too
\* late; an error of the download reaches all who wait for it.
AnsweredUnlessMissed ==
    \A l \in Loads : (pc[l] = "lookup") ~> (pc[l] = "answered" \/ MissedIt(l))
================================================================================
