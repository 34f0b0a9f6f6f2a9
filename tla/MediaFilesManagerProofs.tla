------------------------ MODULE MediaFilesManagerProofs ------------------------
(***************************************************************************)
(* For any loads and keys: as long as the map keeps what it is told, a key *)
(* is downloaded by one load at a time, which never finds the cache's      *)
(* editor taken; and, also when the map loses changes, whoever waits for a *)
(* download is going to be called, or came after it was completed.         *)
(*                                                                         *)
(* The first follow from who is in charge: each key's entry names the load *)
(* between its registration and the removal of the entry.  The last from   *)
(* the life of a subject, which is open until its download publishes.      *)
(***************************************************************************)
EXTENDS MediaFilesManager, TLAPS

\* A download begins after its load has subscribed.
DownloadsAfter ==
    \A l \in Loads :
        download[l] # "none" => pc[l] \notin {"idle", "lookup", "register", "subscribe"}

\* The editor of a key is out to the load that writes the key's file.
EditorsOut ==
    /\ \A k \in Keys : editing[k] # None =>
          download[editing[k]] = "write" /\ Key(editing[k]) = k
    /\ \A l \in Loads : download[l] = "write" => editing[Key(l)] = l

\* Subjects that are subscribed to, or found in the map, were registered by
\* their load.
Registered(m) == on[m] = m
SubjectsRegistered ==
    /\ \A l \in Loads :
          /\ pc[l] \in {"idle", "lookup", "register"} => on[l] = None
          /\ on[l] # None => Registered(on[l])
    /\ \A k \in Keys : ongoingDownloads[k] # None => Registered(ongoingDownloads[k])

\* A registered subject that is open belongs to a load that is about to start
\* its download, or to a download that has yet to publish.
ToPublish == {"fetch", "put", "write", "get", "remove", "removing", "publish"}
AboutTo(m) == pc[m] = "subscribe" \/ download[m] \in ToPublish

OpenOnesPublished ==
    \A m \in Loads : Registered(m) => AboutTo(m) \/ subject[m] # "open"

WaitsFor ==
    \A l \in Loads : pc[l] = "waiting" => subject[on[l]] \in {"open", "completed"}

\* Nobody waits for a call that nobody is going to make.
AnswerComes ==
    \A l \in Loads : pc[l] = "waiting" => MissedIt(l) \/ AboutTo(on[l])

IInv == /\ TypeOK /\ DownloadsAfter /\ EditorsOut
        /\ SubjectsRegistered /\ OpenOnesPublished /\ WaitsFor
        /\ OneDownloadPerKey

--------------------------------------------------------------------------------
(* Facts about the data *)

LEMMA KeyIsKey == ASSUME TypeOK, NEW l \in Loads PROVE Key(l) \in Keys
BY DEF TypeOK, Key

LEMMA Answers ==
    ASSUME NEW l \in Loads, NEW e
    PROVE  /\ AfterFile(l) \in {"reading", "answered"}
           /\ AfterError(l, e) \in {"network", "answered"}
BY DEF AfterFile, AfterError

LEMMA OverlapGrows ==
    ASSUME TypeOK, NEW k \in Keys
    PROVE  Overlapping(k) \in [Loads -> SUBSET Keys]
BY DEF TypeOK, Overlapping

--------------------------------------------------------------------------------
(* The invariant, step by step *)

LEMMA Initially == Init => IInv
<1> SUFFICES ASSUME Init PROVE IInv
  OBVIOUS
<1> USE DEF Init
<1>1. TypeOK
  BY RequestsAssumption DEF TypeOK, Failures
<1>2. DownloadsAfter /\ EditorsOut /\ SubjectsRegistered
  BY LoadsAssumption DEF DownloadsAfter, EditorsOut, SubjectsRegistered, Registered
<1>3. OpenOnesPublished /\ WaitsFor
  BY LoadsAssumption DEF OpenOnesPublished, WaitsFor, Registered
<1>4. OneDownloadPerKey
  <2>1. ASSUME NEW l \in Loads PROVE ~ InCharge(l) /\ ongoingDownloads[Key(l)] # l
    <3>1. Key(l) \in Keys
      BY <1>1, KeyIsKey
    <3> QED BY <3>1, LoadsAssumption DEF InCharge
  <2> QED BY <2>1 DEF OneDownloadPerKey
<1> QED BY <1>1, <1>2, <1>3, <1>4 DEF IInv

\* A caller goes on without the map or a subject.
LEMMA CallerStep ==
    ASSUME IInv, NEW l \in Loads, Load(l) \/ Lookup(l) \/ Read(l) \/ FromNetwork(l)
    PROVE  IInv'
<1> DEFINE Early == {"idle", "lookup", "register"}
<1>1. PICK p \in {"lookup", "register", "reading", "network", "answered"} :
          /\ pc' = [pc EXCEPT ![l] = p]
          /\ p \in Early => pc[l] \in Early
          /\ pc[l] \notin {"subscribe", "waiting"}
  BY Answers DEF Load, Lookup, Read, FromNetwork
<1>2. UNCHANGED <<request, storage, map, work, on>>
  BY DEF Load, Lookup, Read, FromNetwork
<1> USE <1>1, <1>2 DEF IInv, storage, map, work
<1>3. TypeOK'
  BY DEF TypeOK
<1>4. DownloadsAfter' /\ EditorsOut' /\ SubjectsRegistered'
  BY DEF TypeOK, DownloadsAfter, EditorsOut, SubjectsRegistered, Registered, Key
<1>5. OpenOnesPublished' /\ WaitsFor'
  BY DEF TypeOK, OpenOnesPublished, WaitsFor, Registered, AboutTo
<1>6. OneDownloadPerKey'
  BY DEF TypeOK, OneDownloadPerKey, InCharge, Key
<1> QED BY <1>3, <1>4, <1>5, <1>6

\* One that finds no subject for its key registers its own; the others take the
\* one they find, which is not theirs.
LEMMA RegisterStep ==
    ASSUME IInv, NEW l \in Loads, Register(l)
    PROVE  IInv'
<1> USE DEF IInv, storage, map, work
<1> DEFINE k == Key(l)
<1>1. /\ k \in Keys /\ pc[l] = "register"
      /\ pc' = [pc EXCEPT ![l] = "subscribe"]
      /\ UNCHANGED <<request, storage, damaged, work>>
  BY KeyIsKey DEF Register
<1>2. on[l] = None /\ download[l] = "none" /\ l # None
  BY <1>1, LoadsAssumption DEF SubjectsRegistered, DownloadsAfter
<1>3. \A x \in Loads : on[x] # None => on[x] \in Loads /\ on[x] # l
  BY <1>2 DEF SubjectsRegistered, Registered, TypeOK
<1>4. CASE NoneRegistered(k)
  <2>1. /\ ongoingDownloads[k] = None
        /\ on' = [on EXCEPT ![l] = l]
        /\ ongoingDownloads' = [ongoingDownloads EXCEPT ![k] = l]
        /\ overlap' = Overlapping(k)
    BY <1>4 DEF Register, NoneRegistered
  <2> USE <1>1, <1>2, <2>1
  <2>2. TypeOK'
    BY OverlapGrows DEF TypeOK
  <2>3. DownloadsAfter' /\ EditorsOut'
    BY DEF TypeOK, DownloadsAfter, EditorsOut, Key
  <2>4. SubjectsRegistered'
    BY <1>3 DEF TypeOK, SubjectsRegistered, Registered
  <2>5. OpenOnesPublished' /\ WaitsFor'
    BY DEF TypeOK, OpenOnesPublished, WaitsFor, Registered, AboutTo
  <2>6. ASSUME ~ damaged, NEW x \in Loads
        PROVE  (InCharge(x) <=> ongoingDownloads[Key(x)] = x)'
    <3>1. InCharge(x) <=> ongoingDownloads[Key(x)] = x
      BY <2>6 DEF OneDownloadPerKey
    <3>2. Key(x) \in Keys /\ Key(x)' = Key(x)
      BY KeyIsKey DEF Key
    <3>3. CASE x = l
      BY <3>2, <3>3 DEF TypeOK, InCharge
    <3>4. CASE x # l
      BY <3>1, <3>2, <3>4, LoadsAssumption DEF TypeOK, InCharge
    <3> QED BY <3>3, <3>4
  <2>7. OneDownloadPerKey'
    BY <2>6 DEF OneDownloadPerKey
  <2> QED BY <2>2, <2>3, <2>4, <2>5, <2>7
<1>5. CASE ~ NoneRegistered(k)
  <2> DEFINE o == ongoingDownloads[k]
  <2>1. /\ o # None /\ on' = [on EXCEPT ![l] = o]
        /\ UNCHANGED <<ongoingDownloads, overlap>>
    BY <1>5 DEF Register, NoneRegistered
  <2>2. o \in Loads /\ on[o] = o /\ o # l
    BY <1>1, <1>2, <2>1 DEF TypeOK, SubjectsRegistered, Registered
  <2> USE <1>1, <1>2, <2>1, <2>2
  <2>3. TypeOK'
    BY DEF TypeOK
  <2>4. DownloadsAfter' /\ EditorsOut'
    BY DEF TypeOK, DownloadsAfter, EditorsOut, Key
  <2>5. SubjectsRegistered'
    BY <1>3 DEF TypeOK, SubjectsRegistered, Registered
  <2>6. OpenOnesPublished' /\ WaitsFor'
    BY DEF TypeOK, OpenOnesPublished, WaitsFor, Registered, AboutTo
  <2>7. OneDownloadPerKey'
    BY DEF TypeOK, OneDownloadPerKey, InCharge, Key
  <2> QED BY <2>3, <2>4, <2>5, <2>6, <2>7
<1> QED BY <1>4, <1>5

\* Who subscribes to its own subject starts the download; who waits has
\* found the subject open, or completed.
LEMMA SubscribeStep ==
    ASSUME IInv, NEW l \in Loads, Subscribe(l)
    PROVE  IInv'
<1> USE DEF IInv, storage, map, work
<1>1. PICK p \in {"waiting", "reading", "network", "answered"} :
          /\ pc' = [pc EXCEPT ![l] = p]
          /\ p = "waiting" => subject[on[l]] \notin {"value"} \union Failures
  <2> DEFINE s == subject[on[l]]
  <2>1. CASE s = "value"
    <3>1. pc' = [pc EXCEPT ![l] = AfterFile(l)]
      BY <2>1 DEF Subscribe, Failures
    <3> QED BY <2>1, <3>1, Answers
  <2>2. CASE s # "value" /\ s \in Failures
    <3>1. pc' = [pc EXCEPT ![l] = AfterError(l, s)]
      BY <2>2 DEF Subscribe
    <3> QED BY <3>1, Answers
  <2>3. CASE s # "value" /\ s \notin Failures
    <3>1. pc' = [pc EXCEPT ![l] = "waiting"]
      BY <2>3 DEF Subscribe
    <3> QED BY <2>3, <3>1
  <2> QED BY <2>1, <2>2, <2>3
<1>2. /\ pc[l] = "subscribe" /\ on[l] \in Loads
      /\ download' = IF on[l] = l THEN [download EXCEPT ![l] = "fetch"] ELSE download
      /\ UNCHANGED <<request, storage, map, on, failure, subject>>
  BY DEF Subscribe, TypeOK
<1>3. download[l] = "none"
  BY <1>2 DEF DownloadsAfter
<1> USE <1>1, <1>2, <1>3
<1>4. TypeOK'
  BY DEF TypeOK
<1>5. DownloadsAfter' /\ EditorsOut'
  BY DEF TypeOK, DownloadsAfter, EditorsOut, Key
<1>6. SubjectsRegistered'
  BY DEF TypeOK, SubjectsRegistered, Registered
<1>7. OpenOnesPublished'
  BY DEF TypeOK, OpenOnesPublished, Registered, AboutTo, ToPublish
<1>8. WaitsFor'
  BY DEF TypeOK, WaitsFor
<1>9. OneDownloadPerKey'
  BY DEF TypeOK, OneDownloadPerKey, InCharge, Key
<1> QED BY <1>4, <1>5, <1>6, <1>7, <1>8, <1>9

\* A download under way that leaves the map alone, and the subjects.
LEMMA DownloadStep ==
    ASSUME IInv, NEW l \in Loads,
           Fetch(l) \/ BeginPut(l) \/ EndPut(l) \/ GetBack(l) \/ BeginRemove(l)
    PROVE  IInv'
<1> USE DEF IInv, storage, map
<1> DEFINE InTheMap == {"fetch", "put", "write", "get", "remove", "removing"}
<1>1. PICK p \in InTheMap : download' = [download EXCEPT ![l] = p]
  BY DEF Fetch, BeginPut, EndPut, GetBack, BeginRemove, Fail, DownloadGoesTo
<1>2. /\ download[l] \in InTheMap
      /\ UNCHANGED <<request, valid, ongoingDownloads, damaged, pc, on, subject>>
  BY DEF Fetch, BeginPut, EndPut, GetBack, BeginRemove, Fail, DownloadGoesTo
<1>3. Key(l) \in Keys /\ None \notin Loads
  BY KeyIsKey, LoadsAssumption
<1> USE <1>1, <1>2, <1>3
<1>4. cached' \subseteq Keys /\ failure' \in [Loads -> Failures \union {None}]
  <2>1. cached' \subseteq Keys
    BY DEF TypeOK, Fetch, BeginPut, EndPut, GetBack, BeginRemove
  <2>2. \/ failure' = failure
        \/ \E e \in Failures : failure' = [failure EXCEPT ![l] = e]
    BY DEF Fetch, BeginPut, EndPut, GetBack, BeginRemove, Fail, Failures
  <2>3. failure \in [Loads -> Failures \union {None}]
    BY DEF TypeOK
  <2> QED BY <2>1, <2>2, <2>3
<1>5. overlap' \in [Loads -> SUBSET Keys]
  <2>1. \A o \in Loads : Key(o) \in Keys
    BY KeyIsKey
  <2>2. CASE BeginRemove(l)
    <3> DEFINE mine == {Key(o) : o \in {m \in Loads : download[m] = "removing"}}
    <3>1. mine \subseteq Keys
      BY <2>1
    <3>2. overlap' = [Overlapping(Key(l)) EXCEPT ![l] = mine]
      BY <2>2 DEF BeginRemove
    <3> HIDE DEF mine
    <3> QED BY <3>1, <3>2, OverlapGrows
  <2>3. CASE ~ BeginRemove(l)
    BY <2>3 DEF TypeOK, Fetch, BeginPut, EndPut, GetBack
  <2> QED BY <2>2, <2>3
<1>6. editing' \in [Keys -> Loads \union {None}]
  BY DEF TypeOK, Fetch, BeginPut, EndPut, GetBack, BeginRemove
<1>7. TypeOK'
  BY <1>4, <1>5, <1>6 DEF TypeOK
<1>8. DownloadsAfter' /\ SubjectsRegistered' /\ OpenOnesPublished' /\ WaitsFor'
  BY DEF TypeOK, DownloadsAfter, SubjectsRegistered, Registered, OpenOnesPublished,
         AboutTo, ToPublish, WaitsFor
<1>9. EditorsOut'
  <2>1. CASE BeginPut(l) /\ valid /\ editing[Key(l)] = None
    <3>1. /\ download' = [download EXCEPT ![l] = "write"]
          /\ editing' = [editing EXCEPT ![Key(l)] = l]
          /\ download[l] = "put"
      BY <2>1 DEF BeginPut, DownloadGoesTo
    <3> QED BY <2>1, <3>1 DEF TypeOK, EditorsOut, Key
  <2>2. CASE EndPut(l)
    <3>1. /\ p # "write" /\ download[l] = "write"
          /\ editing' = [editing EXCEPT ![Key(l)] = None]
      BY <2>2 DEF EndPut, DownloadGoesTo, Fail, TypeOK
    <3>2. editing[Key(l)] = l
      BY <3>1 DEF EditorsOut
    <3> QED BY <3>1, <3>2 DEF TypeOK, EditorsOut, Key
  <2>3. CASE ~ EndPut(l) /\ ~ (BeginPut(l) /\ valid /\ editing[Key(l)] = None)
    <3>1. p # "write" /\ download[l] # "write" /\ editing' = editing
      BY <2>3 DEF Fetch, BeginPut, GetBack, BeginRemove, DownloadGoesTo, Fail, TypeOK
    <3> QED BY <3>1 DEF TypeOK, EditorsOut, Key
  <2> QED BY <2>1, <2>2, <2>3
<1>10. OneDownloadPerKey'
  BY DEF TypeOK, OneDownloadPerKey, InCharge, Key
<1> QED BY <1>7, <1>8, <1>9, <1>10

\* The entry that goes is the load's own, unless the map lost a change.
LEMMA EndRemoveStep ==
    ASSUME IInv, NEW l \in Loads, EndRemove(l)
    PROVE  IInv'
<1> USE DEF IInv, storage, map
<1>1. /\ download[l] = "removing" /\ download' = [download EXCEPT ![l] = "publish"]
      /\ UNCHANGED <<request, valid, cached, editing, pc, on, failure, subject>>
      /\ Key(l) \in Keys /\ None \notin Loads
  BY KeyIsKey, LoadsAssumption DEF EndRemove, DownloadGoesTo
<1> USE <1>1
<1>2. /\ ongoingDownloads' \in [Keys -> Loads \union {None}]
      /\ \A k \in Keys : ongoingDownloads'[k] \in {None, ongoingDownloads[k]}
  <2>1. ongoingDownloads \in [Keys -> Loads \union {None}] /\ overlap[l] \subseteq Keys
    BY DEF TypeOK
  <2>2. \/ ongoingDownloads' = ongoingDownloads
        \/ ongoingDownloads' = Removed(l)
        \/ \E k \in overlap[l] : ongoingDownloads' = [Removed(l) EXCEPT ![k] = None]
    BY DEF EndRemove
  <2> QED BY <2>1, <2>2 DEF Removed
<1>3. damaged' \in BOOLEAN /\ (~ damaged' => ~ damaged /\ ongoingDownloads' = Removed(l))
  <2>1. \/ ongoingDownloads' = Removed(l) /\ damaged' = damaged
        \/ damaged' = TRUE
    BY DEF EndRemove
  <2>2. damaged \in BOOLEAN
    BY DEF TypeOK
  <2>3. CASE ongoingDownloads' = Removed(l) /\ damaged' = damaged
    BY <2>2, <2>3
  <2>4. CASE damaged' = TRUE
    BY <2>4
  <2> QED BY <2>1, <2>3, <2>4
<1>4. overlap' \in [Loads -> SUBSET Keys]
  BY OverlapGrows DEF EndRemove
<1>5. TypeOK'
  BY <1>2, <1>3, <1>4 DEF TypeOK
<1>6. DownloadsAfter' /\ EditorsOut'
  BY DEF TypeOK, DownloadsAfter, EditorsOut, Key
<1>7. SubjectsRegistered'
  BY <1>2 DEF TypeOK, SubjectsRegistered, Registered
<1>8. OpenOnesPublished' /\ WaitsFor'
  BY DEF TypeOK, OpenOnesPublished, Registered, AboutTo, ToPublish, WaitsFor
<1>9. ASSUME ~ damaged', NEW x \in Loads
      PROVE  (InCharge(x) <=> ongoingDownloads[Key(x)] = x)'
  <2>1. ~ damaged /\ ongoingDownloads' = [ongoingDownloads EXCEPT ![Key(l)] = None]
    BY <1>3, <1>9 DEF Removed
  <2>2. /\ InCharge(x) <=> ongoingDownloads[Key(x)] = x
        /\ ongoingDownloads[Key(l)] = l
    BY <2>1 DEF OneDownloadPerKey, InCharge
  <2>3. Key(x) \in Keys /\ Key(x)' = Key(x)
    BY KeyIsKey DEF Key
  <2>4. CASE x = l
    <3>1. pc[l] # "subscribe"
      BY DEF DownloadsAfter
    <3> QED BY <2>1, <2>3, <2>4, <3>1 DEF TypeOK, InCharge
  <2>5. CASE x # l
    BY <2>1, <2>2, <2>3, <2>5 DEF TypeOK, InCharge
  <2> QED BY <2>4, <2>5
<1>10. OneDownloadPerKey'
  BY <1>9 DEF OneDownloadPerKey
<1> QED BY <1>5, <1>6, <1>7, <1>8, <1>10

\* All who wait for the subject are called.
LEMMA PublishStep ==
    ASSUME IInv, NEW l \in Loads, Publish(l)
    PROVE  IInv'
<1> USE DEF IInv, storage, map
<1>1. PICK p \in {"complete", "none"}, s \in {"value"} \union Failures :
          /\ download' = [download EXCEPT ![l] = p]
          /\ subject' = [subject EXCEPT ![l] = s]
  BY DEF Publish, DownloadGoesTo, TypeOK
<1>2. /\ download[l] = "publish"
      /\ UNCHANGED <<request, storage, map, on, failure>>
  BY DEF Publish
<1>3. /\ pc' \in [Loads -> {"idle", "lookup", "register", "subscribe", "waiting",
                           "reading", "network", "answered"}]
      /\ \A m \in Loads :
            \/ pc[m] = "waiting" /\ on[m] = l /\ pc'[m] \in {"reading", "network", "answered"}
            \/ ~ (pc[m] = "waiting" /\ on[m] = l) /\ pc'[m] = pc[m]
  <2> DEFINE e == failure[l]
             next(m) == IF e = None THEN AfterFile(m) ELSE AfterPublishedError(m, e)
  <2>1. pc' = [m \in Loads |-> IF m \in Subscribers(l) THEN next(m) ELSE pc[m]]
    BY DEF Publish
  <2>2. \A m \in Loads : next(m) \in {"reading", "network", "answered"}
    BY Answers DEF AfterPublishedError
  <2> HIDE DEF next
  <2> QED BY <2>1, <2>2 DEF Subscribers, TypeOK
<1> USE <1>1, <1>2, <1>3
<1>4. TypeOK'
  BY DEF TypeOK
<1>5. DownloadsAfter'
  BY DEF TypeOK, DownloadsAfter
<1>10. EditorsOut'
  BY DEF TypeOK, EditorsOut, Key
<1>6. SubjectsRegistered'
  BY DEF TypeOK, SubjectsRegistered, Registered
<1>7. OpenOnesPublished'
  BY DEF TypeOK, OpenOnesPublished, Registered, AboutTo, ToPublish, Failures
<1>8. WaitsFor'
  BY DEF TypeOK, WaitsFor
<1>9. OneDownloadPerKey'
  BY DEF TypeOK, OneDownloadPerKey, InCharge, Key
<1> QED BY <1>4, <1>5, <1>6, <1>7, <1>8, <1>9, <1>10

LEMMA CompleteStep ==
    ASSUME IInv, NEW l \in Loads, Complete(l)
    PROVE  IInv'
<1> USE DEF IInv, storage, map
<1>1. /\ download[l] = "complete"
      /\ download' = [download EXCEPT ![l] = "none"]
      /\ subject' = [subject EXCEPT ![l] = "completed"]
      /\ UNCHANGED <<request, valid, cached, editing, ongoingDownloads, damaged,
                     overlap, pc, on, failure>>
  BY DEF Complete, DownloadGoesTo
<1> USE <1>1
<1>2. TypeOK'
  BY DEF TypeOK
<1>3. DownloadsAfter' /\ EditorsOut' /\ SubjectsRegistered'
  BY DEF TypeOK, DownloadsAfter, EditorsOut, SubjectsRegistered, Registered, Key
<1>4. OpenOnesPublished' /\ WaitsFor'
  BY DEF TypeOK, OpenOnesPublished, WaitsFor, Registered, AboutTo, ToPublish
<1>5. OneDownloadPerKey'
  BY DEF TypeOK, OneDownloadPerKey, InCharge, Key
<1> QED BY <1>2, <1>3, <1>4, <1>5

LEMMA EvictStep ==
    ASSUME IInv, NEW k \in Keys, Evict(k)
    PROVE  IInv'
BY DEF IInv, Evict, map, work, TypeOK, DownloadsAfter, EditorsOut, SubjectsRegistered,
       Registered, OpenOnesPublished, AboutTo, WaitsFor, OneDownloadPerKey, InCharge, Key

LEMMA Step == IInv /\ [Next]_vars => IInv'
<1> SUFFICES ASSUME IInv, [Next]_vars PROVE IInv'
  OBVIOUS
<1>1. ASSUME NEW l \in Loads, Load(l) PROVE IInv'
  BY <1>1, CallerStep
<1>2. ASSUME NEW l \in Loads, Call(l) PROVE IInv'
  BY <1>2, CallerStep, RegisterStep, SubscribeStep DEF Call
<1>3. ASSUME NEW l \in Loads, Download(l) PROVE IInv'
  BY <1>3, DownloadStep, EndRemoveStep, PublishStep, CompleteStep DEF Download
<1>4. ASSUME NEW k \in Keys, Evict(k) PROVE IInv'
  BY <1>4, EvictStep
<1>5. CASE UNCHANGED vars
  BY <1>5 DEF vars, IInv, TypeOK, DownloadsAfter, EditorsOut, SubjectsRegistered,
       Registered, OpenOnesPublished, AboutTo, WaitsFor, OneDownloadPerKey, InCharge, Key
<1> QED BY <1>1, <1>2, <1>3, <1>4, <1>5 DEF Next

LEMMA Invariant == Spec => []IInv
BY Initially, Step, PTL DEF Spec

--------------------------------------------------------------------------------

\* Type correctness of CachedMediaFilesManager's map, subjects and loads.
THEOREM TypeCorrect == Spec => []TypeOK
<1>1. IInv => TypeOK
  BY DEF IInv
<1> QED BY <1>1, Invariant, PTL

\* While the map of ongoing downloads keeps what it is told, a key is
\* downloaded by one load at a time: by the load the map names for it.
THEOREM DownloadedOnce == Spec => []OneDownloadPerKey
<1>1. IInv => OneDownloadPerKey
  BY DEF IInv
<1> QED BY <1>1, Invariant, PTL

\* The assertion in processErrors: whoever asks the disk cache for an editor
\* is in charge of the key, and so would be the one who had it already.
THEOREM EditorIsFree == Spec => []NoOtherEditInProgress
<1>1. IInv => NoOtherEditInProgress
  <2> SUFFICES ASSUME IInv, ~ damaged, NEW l \in Loads, download[l] = "put",
                      editing[Key(l)] # None
               PROVE  FALSE
    BY DEF NoOtherEditInProgress
  <2> DEFINE o == editing[Key(l)]
  <2>1. Key(l) \in Keys
    BY KeyIsKey DEF IInv
  <2>2. o \in Loads /\ download[o] = "write" /\ Key(o) = Key(l)
    BY <2>1 DEF IInv, TypeOK, EditorsOut
  <2>3. InCharge(o) /\ InCharge(l)
    BY <2>2 DEF InCharge
  <2>4. o = l
    BY <2>2, <2>3 DEF IInv, OneDownloadPerKey
  <2> QED BY <2>2, <2>4
<1> QED BY <1>1, Invariant, PTL

\* Also when the map lost a change: a caller that subscribed in time waits for
\* a download that has yet to call it, and not for one that is over.
THEOREM SomeoneWillAnswer == Spec => []AnswerComes
<1>1. IInv => AnswerComes
  <2> SUFFICES ASSUME IInv, NEW l \in Loads, pc[l] = "waiting", ~ MissedIt(l)
               PROVE  AboutTo(on[l])
    BY DEF AnswerComes
  <2>1. on[l] # None /\ on[l] \in Loads
    BY DEF IInv, TypeOK
  <2>2. Registered(on[l])
    BY <2>1 DEF IInv, SubjectsRegistered
  <2>3. subject[on[l]] = "open"
    BY DEF IInv, WaitsFor, MissedIt
  <2> QED BY <2>1, <2>2, <2>3 DEF IInv, OpenOnesPublished
<1> QED BY <1>1, Invariant, PTL
================================================================================
