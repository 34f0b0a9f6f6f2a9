------------------------------ MODULE DiskLruCache ------------------------------
(***************************************************************************)
(* DiskLruCache: files in a directory, an access-ordered map of entries in *)
(* memory, and a journal from which the map is rebuilt when the cache is   *)
(* opened again.  Every operation is synchronized; what falls in between   *)
(* is the caller's writing of a value (a client here is a thread in        *)
(* DefaultDiskCache.put, or with the Editor that DiskCache.edit hands out),*)
(* the background cleanup, and the death of the process, which may come at *)
(* any step, also between two renames.                                     *)
(*                                                                         *)
(* A journal is abstracted to what replaying its lines yields, an image:   *)
(* writing a line applies readJournalLine to the image.  A file is its     *)
(* length, or Partial where it is not one value written to its end.        *)
(***************************************************************************)
EXTENDS Integers, FiniteSets, Sequences, SequencesExt, FiniteSetsExt

CONSTANTS
    Keys, Clients,
    Lengths,            \* lengths of values
    MaxSize,            \* maxSize
    NoClient,           \* no editor
    Replayed,           \* the editor readJournalLine makes from a DIRTY line
    NoFile, Partial,
    PartialLength,      \* how long a file is that is Partial
    MaxEdits,           \* bound: how many edits are begun
    MaxOpens            \* bound: how often the cache is opened

ASSUME LengthsAssumption == Lengths \subseteq Nat /\ PartialLength \in Nat
ASSUME MaxSizeAssumption == MaxSize \in Nat \ {0}
ASSUME ModelValuesAssumption ==
    /\ NoClient \notin Clients \union {Replayed} /\ Replayed \notin Clients
    /\ NoFile \notin Lengths \union {Partial} /\ Partial \notin Lengths
ASSUME BoundsAssumption == MaxEdits \in Nat /\ MaxOpens \in Nat

VARIABLES
    lru,                \* keys of lruEntries, least recently used first
    entry,              \* the entries, Absent for keys not in lru
    size,
    open,               \* journalWriter # null
    cleanupSubmitted,   \* cleanupCallable waits in the executor
    monitor,            \* the long synchronized section under way, or "free"
    client,             \* per thread: its place in put, and its editor
    clean, dirty,       \* the files <key> and <key>.tmp
    journal, backup,    \* images of the files journal and journal.bkp
    written,            \* the journal's image, lines still buffered included
    fresh,              \* this open() found no journal
    edits, opens        \* counted for their bounds

memory == <<lru, entry, size, open, cleanupSubmitted>>
journals == <<journal, backup, written>>
vars == <<memory, monitor, client, clean, dirty, journals, fresh, edits, opens>>

Absent == [length |-> 0, readable |-> FALSE, editor |-> NoClient]
Empty == [order |-> << >>, entry |-> [k \in Keys |-> Absent]]
Idle == [pc |-> "idle"]

\* Where an editor's stream writes to: a file it created or truncated, whatever
\* bytes the .tmp file had before, or nowhere.
Streams == {"file", "random", "nowhere"}
Editors == [pc: {"edit", "write", "commit", "remove"}, key: Keys, hasErrors: BOOLEAN,
            stream: Streams]

Entries == [length: Int, readable: BOOLEAN, editor: Clients \union {NoClient, Replayed}]
Images == [order: Seq(Keys), entry: [Keys -> Entries]]
Files == Lengths \union {NoFile, Partial}

\* A missing journal is not mistaken for one.
ASSUME JournalAssumption == NoFile \notin Images

TypeOK ==
    /\ lru \in Seq(Keys) /\ IsInjective(lru)
    /\ entry \in [Keys -> Entries]
    /\ \A k \in Keys : k \notin ToSet(lru) => entry[k] = Absent
    /\ size \in Int
    /\ open \in BOOLEAN /\ fresh \in BOOLEAN /\ cleanupSubmitted \in BOOLEAN
    /\ monitor \in {"free", "cleanup", "flush", "abort", "close", "backup", "rename", "delete"}
    /\ client \in [Clients -> {Idle} \union Editors]
    /\ clean \in [Keys -> Files] /\ dirty \in [Keys -> Files]
    /\ {journal, backup} \subseteq Images \union {NoFile}
    /\ written \in Images
    /\ edits \in 0..MaxEdits /\ opens \in 0..MaxOpens

Init ==
    /\ lru = << >> /\ entry = Empty.entry /\ size = 0 /\ open = FALSE
    /\ cleanupSubmitted = FALSE /\ monitor = "free"
    /\ client = [c \in Clients |-> Idle]
    /\ clean = [k \in Keys |-> NoFile] /\ dirty = [k \in Keys |-> NoFile]
    /\ journal = NoFile /\ backup = NoFile /\ written = Empty
    /\ fresh = FALSE /\ edits = 0 /\ opens = 0

--------------------------------------------------------------------------------
(* The entries in their order *)

\* The keys of a map that are in S, in the map's order: what an iteration over it
\* takes, or leaves.
Selected(order, S) ==
    LET sel[n \in 0..Len(order)] ==
            IF n = 0 THEN << >>
            ELSE IF order[n] \in S THEN Append(sel[n - 1], order[n])
            ELSE sel[n - 1]
    IN  sel[Len(order)]

Without(order, k) == Selected(order, Keys \ {k})

\* LinkedHashMap.get and put: the key becomes the most recently used.
\* (The mutant: a map in insertion order.)
TouchedInInsertionOrder(order, k) == IF Contains(order, k) THEN order ELSE Append(order, k)
Touched(order, k) == Append(Without(order, k), k)

--------------------------------------------------------------------------------
(* The journal *)

\* readJournalLine, one operator for each kind of line.
ReplayDirty(image, k) ==
    [order |-> Touched(image.order, k),
     entry |-> [image.entry EXCEPT ![k].editor = Replayed]]

ReplayClean(image, k, n) ==
    [order |-> Touched(image.order, k),
     entry |-> [image.entry EXCEPT ![k] =
                   [length |-> n, readable |-> TRUE, editor |-> NoClient]]]

ReplayRead(image, k) == [image EXCEPT !.order = Touched(@, k)]

ReplayRemove(image, k) ==
    [order |-> Without(image.order, k), entry |-> [image.entry EXCEPT ![k] = Absent]]

\* A line is written and flushed, with what was buffered before it.  Once the
\* journal file is deleted under the writer, lines go nowhere.
Flushed(image) ==
    IF journal = NoFile THEN UNCHANGED <<journal, written>>
    ELSE journal' = image /\ written' = image

\* A line is appended to the buffer, which may happen to spill.
Buffered(image) ==
    IF journal = NoFile THEN UNCHANGED <<journal, written>>
    ELSE written' = image /\ journal' \in {journal, image}

\* What open() would replay.
Recorded == IF journal # NoFile THEN journal ELSE backup

\* What rebuildJournal writes: a CLEAN line carries the size of the cache.
MemoryImage ==
    [order |-> lru,
     entry |-> [k \in Keys |->
        IF k \notin ToSet(lru) THEN Absent
        ELSE IF entry[k].editor # NoClient
             THEN [length |-> 0, readable |-> FALSE, editor |-> Replayed]
             ELSE [length |-> size, readable |-> TRUE, editor |-> NoClient]]]

\* journalRebuildRequired: 2000 redundant operations are not counted here, any
\* operation may be the one that completes them.
RebuildRequired == BOOLEAN

\* One more redundant operation is counted; the job is submitted if the limit
\* or the journal now calls for it.
CountOp(overLimit) ==
    \E required \in RebuildRequired :
        cleanupSubmitted' = (cleanupSubmitted \/ overLimit \/ required)

--------------------------------------------------------------------------------
(* Opening, and the death of the process *)

\* What cleanupDirectory spares of the value files: it looks for a file name
\* among Entry objects, which never are equal to one.
Spared(image, files) == [k \in Keys |-> NoFile]

\* readJournal and processJournal: entries being edited are dropped.  Without a
\* journal the cache starts empty, over whatever files there are.
Open ==
    /\ ~ open /\ opens < MaxOpens
    /\ open' = TRUE
    /\ opens' = opens + 1
    /\ IF Recorded = NoFile
       THEN /\ fresh' = TRUE
            /\ lru' = << >> /\ entry' = Empty.entry /\ size' = 0
            /\ journal' = Empty
            /\ UNCHANGED <<clean, dirty>>
       ELSE LET kept == Selected(Recorded.order,
                           {k \in Keys : Recorded.entry[k].editor = NoClient}) IN
            /\ fresh' = FALSE
            /\ lru' = kept
            /\ entry' = [k \in Keys |->
                  IF Contains(kept, k) THEN Recorded.entry[k] ELSE Absent]
            /\ size' = IF kept = << >> THEN 0 ELSE Recorded.entry[Last(kept)].length
            /\ journal' = NoFile
            /\ clean' = Spared(Recorded, clean)
            /\ dirty' = [k \in Keys |-> NoFile]
    /\ written' = Empty
    /\ backup' = NoFile
    /\ cleanupSubmitted' = FALSE
    /\ UNCHANGED <<monitor, client, edits>>

\* What memory holds once the cache is closed or its process is gone.
Forget ==
    /\ lru' = << >> /\ entry' = Empty.entry /\ size' = 0 /\ open' = FALSE
    /\ cleanupSubmitted' = FALSE /\ monitor' = "free"
    /\ written' = Empty /\ fresh' = FALSE

Kill ==
    /\ open
    /\ Forget
    /\ client' = [c \in Clients |-> Idle]
    /\ UNCHANGED <<clean, dirty, journal, backup, edits, opens>>

--------------------------------------------------------------------------------
(* Synchronized operations *)

Ready == open /\ monitor = "free"

\* get: null for an entry never published, or whose file is missing.
Get(k) ==
    /\ Ready
    /\ Contains(lru, k)
    /\ lru' = Touched(lru, k)
    /\ IF entry[k].readable /\ clean[k] # NoFile
       THEN Buffered(ReplayRead(written, k)) /\ CountOp(FALSE)
       ELSE UNCHANGED <<journal, written, cleanupSubmitted>>
    /\ UNCHANGED <<entry, size, open, monitor, client, clean, dirty, backup,
                   fresh, edits, opens>>

\* The locked part of remove: nothing happens to an entry being edited, except
\* that looking it up makes it the most recently used.
RemoveEntry(k) ==
    IF ~ Contains(lru, k) THEN UNCHANGED <<memory, clean, journal, written>>
    ELSE IF entry[k].editor # NoClient
    THEN /\ lru' = Touched(lru, k)
         /\ UNCHANGED <<entry, size, open, cleanupSubmitted, clean, journal,
                        written>>
    ELSE /\ lru' = Without(lru, k)
         /\ entry' = [entry EXCEPT ![k] = Absent]
         /\ size' = size - entry[k].length
         /\ clean' = [clean EXCEPT ![k] = NoFile]
         /\ Buffered(ReplayRemove(written, k))
         /\ CountOp(FALSE)
         /\ UNCHANGED open

RemoveKey(k) ==
    /\ Ready
    /\ RemoveEntry(k)
    /\ UNCHANGED <<monitor, client, dirty, backup, fresh, edits, opens>>

\* edit: one editor per entry.  (The mutant: a second one is handed out.)
EditableAlways(k) == TRUE
Editable(k) == entry[k].editor = NoClient

Edit(c, k) ==
    /\ Ready
    /\ client[c] = Idle
    /\ edits < MaxEdits
    /\ edits' = edits + 1
    /\ lru' = Touched(lru, k)
    /\ IF Editable(k)
       THEN /\ entry' = [entry EXCEPT ![k].editor = c]
            /\ client' = [client EXCEPT ![c] =
                  [pc |-> "edit", key |-> k, hasErrors |-> FALSE, stream |-> "file"]]
            /\ Flushed(ReplayDirty(written, k))
       ELSE UNCHANGED <<entry, client, journal, written>>
    /\ UNCHANGED <<size, open, cleanupSubmitted, monitor, clean, dirty, backup,
                   fresh, opens>>

\* The editor of c is the current one: the cache was not closed meanwhile.
Current(c) == entry[client[c].key].editor = c

\* The editor of c is asked for a stream.
OpenStream(c, kind) ==
    /\ Ready
    /\ client[c].pc = "edit"
    /\ Current(c)
    /\ client' = [client EXCEPT ![c].pc = "write", ![c].stream = kind]
    /\ UNCHANGED <<memory, monitor, clean, journals, fresh, edits, opens>>

\* newOutputStream: the file is truncated.  If it cannot be opened, twice, the
\* stream eats what is written, whatever .tmp file there is.
NewOutputStream(c) ==
    \/ OpenStream(c, "file") /\ dirty' = [dirty EXCEPT ![client[c].key] = Partial]
    \/ OpenStream(c, "nowhere") /\ UNCHANGED dirty

\* copyCleanToDirty: what the .tmp file then holds.  An IOException before or
\* during the copy is dropped.
CopiedCleanToDirty(k) ==
    IF clean[k] = NoFile THEN {dirty[k]} ELSE {dirty[k], Partial, clean[k]}

\* updateRandomAccessOutput: the file is opened for writing as it is, and created
\* if there is none.
UpdateRandomAccessOutput(c) ==
    \E kind \in {"random", "nowhere"} :
        /\ OpenStream(c, kind)
        /\ LET k == client[c].key IN
           \E copied \in IF entry[k].readable THEN CopiedCleanToDirty(k) ELSE {dirty[k]} :
               dirty' = [dirty EXCEPT ![k] =
                            IF copied = NoFile /\ kind = "random" THEN Partial ELSE copied]

\* What a .tmp file may be after writes of which none failed.  A random access
\* stream's write(byte[]) is the inherited one, which drops the bytes, and what it
\* does write may cover only a part of what the file had.
Written(c) ==
    CASE client[c].stream = "file" -> Lengths
      [] client[c].stream = "random" -> Lengths \union {Partial, dirty[client[c].key]}
      [] client[c].stream = "nowhere" -> {dirty[client[c].key]}

\* The value is written and the stream closed, without the lock; a failure of
\* the stream is remembered in hasErrors.  The file of an editor that close()
\* aborted has been deleted under it.
Write(c) ==
    /\ client[c].pc = "write"
    /\ \E failed \in IF client[c].stream = "nowhere" THEN {FALSE} ELSE BOOLEAN :
          /\ client' = [client EXCEPT ![c].pc = "commit", ![c].hasErrors = failed]
          /\ IF Current(c)
             THEN \E file \in IF failed THEN {Partial} ELSE Written(c) :
                     dirty' = [dirty EXCEPT ![client[c].key] = file]
             ELSE UNCHANGED dirty
    /\ UNCHANGED <<memory, monitor, clean, journals, fresh, edits, opens>>

\* File.length.
LengthOf(file) ==
    CASE file = NoFile -> 0 [] file = Partial -> PartialLength [] OTHER -> file

\* completeEdit(editor, true), where there is a value to publish.  Nobody looks
\* whether renameTo succeeded.
\* (The mutant: the length it replaces is not given back.)
SizeAfterCommitForgetsOld(k, n) == size + n
SizeAfterCommit(k, n) == size - entry[k].length + n

Rename(k) ==
    /\ clean' = [clean EXCEPT ![k] = dirty[k]]
    /\ dirty' = [dirty EXCEPT ![k] = NoFile]

PublishEdit(k) ==
    /\ IF dirty[k] = NoFile
       THEN UNCHANGED <<clean, dirty, size>>
            /\ entry' = [entry EXCEPT ![k].editor = NoClient, ![k].readable = TRUE]
       ELSE /\ Rename(k) \/ UNCHANGED <<clean, dirty>>
            /\ size' = SizeAfterCommit(k, LengthOf(clean'[k]))
            /\ entry' = [entry EXCEPT ![k] =
                  [length |-> LengthOf(clean'[k]), readable |-> TRUE, editor |-> NoClient]]
    /\ UNCHANGED lru
    /\ Flushed(ReplayClean(written, k, size'))
    /\ CountOp(size' > MaxSize)

\* completeEdit(editor, false): the entry is as it was before the edit, or gone.
AbandonEdit(k) ==
    /\ dirty' = [dirty EXCEPT ![k] = NoFile]
    /\ IF entry[k].readable
       THEN /\ entry' = [entry EXCEPT ![k].editor = NoClient]
            /\ Flushed(ReplayClean(written, k, size))
            /\ UNCHANGED lru
       ELSE /\ entry' = [entry EXCEPT ![k] = Absent]
            /\ Flushed(ReplayRemove(written, k))
            /\ lru' = Without(lru, k)
    /\ CountOp(size > MaxSize)
    /\ UNCHANGED <<size, clean>>

\* A failed write must not be published.  (The mutant: it is.)
SucceededAlways(c) == TRUE
Succeeded(c) == ~ client[c].hasErrors

\* commit: after errors the edit is abandoned and, in a second synchronized
\* section, the previous value removed.  An editor that close() aborted throws.
Commit(c) ==
    /\ client[c].pc = "commit"
    /\ monitor = "free"
    /\ LET k == client[c].key IN
       IF ~ Current(c)
       THEN /\ client' = [client EXCEPT ![c] = Idle]
            /\ UNCHANGED <<memory, clean, dirty, journal, written>>
       ELSE /\ IF Succeeded(c) /\ (entry[k].readable \/ dirty[k] # NoFile)
               THEN PublishEdit(k) ELSE AbandonEdit(k)
            /\ client' = IF Succeeded(c) THEN [client EXCEPT ![c] = Idle]
                         ELSE [client EXCEPT ![c].pc = "remove"]
            /\ UNCHANGED open
    /\ UNCHANGED <<monitor, backup, fresh, edits, opens>>

RemoveStale(c) ==
    /\ client[c].pc = "remove"
    /\ monitor = "free"
    /\ IF open THEN RemoveEntry(client[c].key)
       ELSE UNCHANGED <<memory, clean, journal, written>>
    /\ client' = [client EXCEPT ![c] = Idle]
    /\ UNCHANGED <<monitor, dirty, backup, fresh, edits, opens>>

\* put gives up: the source failed, or the stream could not be had.
Abort(c) ==
    /\ client[c].pc \in {"edit", "write"}
    /\ monitor = "free"
    /\ client' = [client EXCEPT ![c] = Idle]
    /\ IF Current(c) THEN AbandonEdit(client[c].key) /\ UNCHANGED open
       ELSE UNCHANGED <<memory, clean, dirty, journal, written>>
    /\ UNCHANGED <<monitor, backup, fresh, edits, opens>>

--------------------------------------------------------------------------------
(* Trimming and rebuilding, under one lock *)

\* The cleanup job, flush() and close() begin by trimming.
BeginCleanup ==
    /\ cleanupSubmitted /\ Ready
    /\ cleanupSubmitted' = FALSE
    /\ monitor' = "cleanup"
    /\ UNCHANGED <<lru, entry, size, open, client, clean, dirty, journals,
                   fresh, edits, opens>>

BeginFlush ==
    /\ Ready
    /\ monitor' = "flush"
    /\ UNCHANGED <<memory, client, clean, dirty, journals, fresh, edits, opens>>

BeginClose ==
    /\ Ready
    /\ monitor' = "abort"
    /\ UNCHANGED <<memory, client, clean, dirty, journals, fresh, edits, opens>>

\* close() first aborts the edits under way, one after the other.
AbortNext ==
    LET edited == Selected(lru, {k \in Keys : entry[k].editor # NoClient}) IN
    /\ monitor = "abort"
    /\ IF edited = << >>
       THEN monitor' = "close" /\ UNCHANGED <<memory, clean, dirty, journal,
                                              written>>
       ELSE AbandonEdit(Head(edited)) /\ UNCHANGED <<open, monitor>>
    /\ UNCHANGED <<client, backup, fresh, edits, opens>>

Trimming == monitor \in {"cleanup", "flush", "close"}

\* One turn of trimToSize; from an empty map it throws.
Trim ==
    /\ Trimming
    /\ size > MaxSize
    /\ IF lru = << >>
       THEN monitor' = "free" /\ UNCHANGED <<memory, clean, journal, written>>
       ELSE RemoveEntry(Head(lru)) /\ UNCHANGED monitor
    /\ UNCHANGED <<client, dirty, backup, fresh, edits, opens>>

Trimmed ==
    /\ size <= MaxSize
    /\ \/ /\ monitor = "close"
          /\ Forget
          /\ journal' = IF journal = NoFile THEN NoFile ELSE written
          /\ UNCHANGED backup
       \/ /\ monitor = "flush"
          /\ monitor' = "free"
          /\ Flushed(written)
          /\ UNCHANGED <<memory, backup, fresh>>
       \/ /\ monitor = "cleanup"
          /\ \E required \in RebuildRequired : monitor' = IF required THEN "backup" ELSE "free"
          /\ UNCHANGED <<memory, journals, fresh>>
    /\ UNCHANGED <<client, clean, dirty, edits, opens>>

\* The old journal, its buffer written out, becomes the backup.
\* (The mutant: it is deleted.)
BackupWithoutJournal == backup
BackupOfJournal == IF journal = NoFile THEN backup ELSE written

\* rebuildJournal: journal to journal.bkp, journal.tmp to journal, delete the
\* backup; the process may die in between.
Rebuild ==
    /\ \/ /\ monitor = "backup"
          /\ monitor' = "rename"
          /\ journal' = NoFile /\ backup' = BackupOfJournal
          /\ UNCHANGED written
       \/ /\ monitor = "rename"
          /\ monitor' = "delete"
          /\ journal' = MemoryImage /\ written' = MemoryImage
          /\ UNCHANGED backup
       \/ /\ monitor = "delete"
          /\ monitor' = "free"
          /\ backup' = NoFile
          /\ UNCHANGED <<journal, written>>
    /\ UNCHANGED <<lru, entry, size, open, cleanupSubmitted, client, clean,
                   dirty, fresh, edits, opens>>

--------------------------------------------------------------------------------

Maintenance == BeginCleanup \/ AbortNext \/ Trim \/ Trimmed \/ Rebuild

Put(c) ==
    \/ \E k \in Keys : Edit(c, k)
    \/ NewOutputStream(c) \/ UpdateRandomAccessOutput(c) \/ Write(c)
    \/ Commit(c) \/ RemoveStale(c) \/ Abort(c)

Next ==
    \/ Open \/ Kill \/ BeginFlush \/ BeginClose
    \/ \E k \in Keys : Get(k) \/ RemoveKey(k)
    \/ \E c \in Clients : Put(c)
    \/ Maintenance

\* The executor runs the job; a put that has its editor goes on to the end
\* ("Every edit call must be matched by a call to commit or abort").
Fairness ==
    /\ WF_vars(Maintenance)
    /\ \A c \in Clients : SF_vars(client[c] # Idle /\ Put(c))

Spec == Init /\ [][Next]_vars /\ Fairness

--------------------------------------------------------------------------------

\* "Committing is atomic", and an edit whose writes failed "will be aborted when
\* commit is called": where there was none, a value that is not whole appears only
\* by the commit of an editor that had no file of its own.  Its stream was given
\* up silently, over a .tmp file left behind, or was the random access one, whose
\* copy and whose write(byte[]) fail silently; of everything else, whatever failed,
\* was abandoned or overlapped, the readers never see a part.
PublishesUnheard(c, k) ==
    /\ client[c].pc = "commit" /\ client[c].key = k /\ Current(c)
    /\ client[c].stream # "file"

NoPartialValue ==
    [][\A k \in Keys : clean'[k] = Partial /\ clean[k] # Partial =>
          \E c \in Clients : PublishesUnheard(c, k)]_vars

TotalLength(e, S) == MapThenSumSet(LAMBDA k : e[k].length, S)

\* In a cache that began empty, size is the sum of the lengths of the entries,
\* each the length of the entry's file: what trimming relies on to come to an end.
SizeAccounting ==
    open /\ fresh =>
        /\ size = TotalLength(entry, ToSet(lru))
        /\ \A k \in Keys : entry[k].readable => entry[k].length = LengthOf(clean[k])

\* Wherever the process dies, a journal is found that knows every published
\* value, and marks as dirty exactly the entries being edited ("Flush the
\* journal before creating files to prevent file leaks").
JournalComplete ==
    open /\ fresh =>
        /\ Recorded # NoFile
        /\ \A k \in Keys :
              /\ entry[k].editor # NoClient <=> Recorded.entry[k].editor # NoClient
              /\ entry[k].readable /\ entry[k].editor = NoClient
                    => Recorded.entry[k].readable

\* "An entry may have only one editor at one time": no other edit, removal or
\* eviction takes an entry from the one who edits it; only close() does.
Editing(c) == client[c].pc \in {"edit", "write", "commit"} /\ Current(c)

EditorNotDisplaced ==
    [][\A c \in Clients :
          Editing(c) /\ client'[c].pc \in {"edit", "write", "commit"} /\ monitor # "abort"
              => Editing(c)']_vars

\* "The cache will remove entries in the background until the limit is
\* satisfied", provided that not every entry left is being edited: then
\* trimToSize goes round for good, with the lock its editors need.
AllEdited == \A k \in ToSet(lru) : entry[k].editor # NoClient

CleanupTrims == cleanupSubmitted ~> (size <= MaxSize \/ AllEdited \/ ~ open)

\* "Stored values will remain on the filesystem", and open() is to "pick up
\* where we left off": values the journal knows survive the opening.
Stored(k) ==
    /\ Recorded # NoFile
    /\ Recorded.entry[k].readable /\ Recorded.entry[k].editor = NoClient
    /\ clean[k] # NoFile

ReopenKeepsValues ==
    [][~ open /\ open' => \A k \in Keys : Stored(k) => clean'[k] = clean[k]]_vars
================================================================================
