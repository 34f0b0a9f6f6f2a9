# A verification project for the Gfycat Android SDK

TLA+ modules of the SDK's concurrent and stateful parts, TLC configurations
that check them on small instances, and TLAPS proofs about them. Paths below
are relative to the repository (`src/`); short names stand for

- `FS` = `gfycat-frame-sequence/src/main/java/com/gfycat/framesequence`
- `CORE` = `gfycat-core/src/main/java/com/gfycat/core`
- `LRU` = `gfycat-core/src/main/java/com/gfycat/disklrucache`
- `WEBP` = `gfycat-webp-player/src/main`, `LIB` = `WEBP/jni/libwebp/src`
- `PICK` = `gfycat-picker/src/main/java/com/gfycat/picker`

`PROJECT.json` maps every definition that models code to its lines, lists the
runs, a mutation of the code for every property, the hazards and the theorems.

## 1. Inventory

| component | state it keeps | operations | what is hard |
|---|---|---|---|
| Constrained executors (`FS/ConstrainedExecutorService`, `SerialExecutorService`) | bounded queue, atomic worker count | `execute`, `Worker.run` | no lock: queue and counter are read and changed apart by callers and workers |
| `FS/FrameSequenceDrawable` | front and back bitmap, decode state, next frame | `start`, `stop`, `draw`, `setVisible`, `destroy`, decode task | decodes draw without the lock; every UI call may come in between |
| `FS/view/FrameSequenceView` | current drawable, source, disposable, play flag | `play`, `pause`, `release`, `setupGfycat` | asynchronous loads answered after a release |
| `LRU/DiskLruCache` | entries in LRU order, size, journal, files | `open`, `get`, `edit`, `commit`, `abort`, `remove`, `flush`, `close`, cleanup job | process death between any two file operations; edits that fail; cleanup against edits |
| `CORE/storage/DefaultDiskCache` | the one `DiskLruCache`, or none | `put`, `get`, `edit`; choice of folder and size | failures at each step of `put` |
| `CORE/storage/CachedMediaFilesManager` | map of downloads under way | `loadAsFile`, `loadAsByteArray` | sharing one download; subscribing late; map changed without its lock |
| `CORE/authentication/TokenAuthenticator` | last token in memory, token in preferences, renew flag | `authenticate`, `intercept`, sign in, `signOut` | many request threads renew at once; sign-out races |
| `CORE/authentication/UserAccountManagerImpl` | user info, ghost account | sign up, sign in, sign out, profile refresh, avatar | late answers for a user who left |
| `CORE/creation/DefaultUploadManager` | none but per-call progress | key request, upload, wait until ready | polling, retries on 404, timeouts |
| `CORE/db/GfycatFeedDatabaseCache` | feeds, items, relations, digests | `insertFeed`, `updateFeed`, `closeFeed`, `blockItem`, `removeFromRecent`, ... | pages that arrive late or twice; reads outside transactions |
| `CORE/downloading/FeedManagerImpl` | ongoing category request | `getGfycats`, `getMoreGfycats`, recent feed | loads overlapping refreshes |
| `PICK/feed/FeedLoadingDelegate` | current feed, loading flag, lifecycle | `loadMore`, `changeFeed`, loader callbacks | results of a feed that was left |
| Content management, initialization, ads | see `PROJECT.json` | | a server call followed by a local update |
| WebP player and its native glue (`WEBP/java`, `WEBP/jni/webp_jni.cpp`, `webp_wrapper.cpp`) | native contexts and their counts, the shared demuxer, the bitmap's last picture | construct, `getFrame`, `renderFrame`, `dispose`, `finalize` | disposal and finalization during native calls; frames drawn over what the bitmap holds |
| libwebp's demuxer (`LIB/demux/demux.c`) | frames and chunks found | `WebPDemux`, `WebPDemuxPartial` | files cut anywhere, headers that lie |
| libwebp's animation decoder (`LIB/demux/anim_decode.c`) | two canvases, the previous frame | `GetNext`, `Reset` | key frame shortcuts across failures |
| libwebp's worker threads (`LIB/utils/thread_utils.c`) | status, mutex, condition | `Reset`, `Launch`, `Sync`, `End` | two waiters on one condition variable |
| libwebp's lossy decoder (`LIB/dec/idec_dec.c`, `vp8_dec.c`, `frame_dec.c`, `alpha_dec.c`) | input buffer, partitions, row cache, job | `WebPIAppend`, `WebPIUpdate`, `WebPDecode`, `WebPIDelete` | input in pieces in moving buffers; output a few lines behind; a job on another thread |
| The rest of libwebp: lossless and entropy decoding, sample arithmetic, encoder, muxer, bindings, examples | | | see section 4 |
| Common utilities, samples, analytics, notifications | | | not this system's core logic |

Interactions: the view owns a drawable; the drawable submits decode tasks to a
serial executor, an instance of the constrained one; the media files manager
stores downloads through `DefaultDiskCache`, a client of `DiskLruCache`; feed
loading calls the feed manager, which fills the feed cache, whose changes come
back through a bus; all requests pass through the token authenticator. The
drawable's frames come from a WebP sequence: bytes loaded by the media files
manager, parsed by libwebp's demuxer, each frame decoded by `WebPDecode` and
blended by the native glue, over memory that Java objects own.

Each module's type invariant states the shape of its state; the run `executor`
and the proofs check theirs, the others serve the reader.

What makes each part correct is stated below for the parts that are modelled,
and as hazards in `PROJECT.json` for the rest.

## 2. Modules

### Constrained executors: `BoundedPool`, `ConstrainedExecutor`

`BoundedPool` is the promise: accepted tasks wait in a queue of limited length,
are started in order, at most `MaxConcurrency` run at once, each runs once and
in the end. `ConstrainedExecutor` has one action per atomic operation of the
code: `Offer`/`Reject` (`execute`), `GetCount`, `CompareAndSet`, `StartWorker`
(the loop of `startWorkerIfNeeded`, for callers and workers), `Begin` (the
delegate), `Poll`, `Run`, `Decrement`, `CheckQueue` (`Worker.run`). `Serial`
adds the `synchronized` of `SerialExecutorService.execute`. The property
`ImplementsPool` is the refinement: the queue is the abstract one, the tasks at
`run` are those running.

Run `executor`: 2 callers, 3 tasks, 3 delegate threads, 2 worker slots, a queue
of 2. It reaches the full queue, the limit, lost compare-and-sets, and a
worker that leaves while a caller relies on it. Threads are weakly fair (the
scheduler runs them); nobody is obliged to call `execute`.

### The drawable: `FrameSequenceDrawable`

The two bitmaps have a content (a frame, or `Torn` while a decode draws), so
that the properties speak of what is seen. A decode is `DecodeBegin` (first
locked section), `DecodeDraw` (without the lock), `DecodeEnd` (second locked
section), then `DecodeInvalidate` or `DecodeRelease`. UI actions are whole
methods, except `destroy`, whose releases come after its lock. When a swap is
due, and which frames are dropped, is left to chance: no property depends on
the time. `mayHaveBlending` is fixed per behaviour.

Run `drawable`: 3 frames, 2 decoding threads (one works, for want of a turn, and
the mutant that lets both work shows why that matters), up to 3 queued decodes,
2 pending invalidations. Three frames are the least for which "the next frame"
and "the frame before" differ; more queued decodes than 3 would need more
restarts than the state tells apart. Fairness: executor, message queue and view
drawing after an invalidation; not `start`, `stop`, `destroy`.

Run `drawable_release` (expected violation, `ReleasedNotDrawn`): `stop()` while
a decode draws sets the state back, and `destroy()` then releases the bitmap
the decoder is writing to, which `BitmapProvider` promises not to happen. The
view's release path is exactly `stop(); destroy()`.

### The disk cache: `DiskLruCache`

Memory is the access-ordered list `lru` and the entries; the files are
`<key>`, `<key>.tmp`, `journal`, `journal.bkp`. A journal is abstracted to the
*image* that replaying it yields; writing a line applies `readJournalLine`
(`ReplayClean`, `ReplayDirty`, `ReplayRead`, `ReplayRemove`). `written` includes
lines still in the writer's buffer. A value is its length, or `Partial`. When a
reopened cache has deleted the journal under its writer, lines go nowhere
(`journal = NoFile`).

A client is a thread in `DefaultDiskCache.put`, or another user of an editor:
`Edit`, `NewOutputStream` or `UpdateRandomAccessOutput`, `Write` (outside the
lock; may fail), `Commit`, after errors `RemoveStale` as a second
synchronized section, or `Abort`. `trimToSize` and `rebuildJournal` are loops
and sequences of file operations under one lock (`monitor`), so that the
process may die (`Kill`) between two of them. That 2000 redundant operations
have accumulated is a free choice after any operation.

What fails without a word fails in the model too. A stream that cannot be opened
swallows what is written, over whatever `.tmp` file an earlier edit left
(`stream = "nowhere"`); `copyCleanToDirty` drops the exception that cut its copy
short (`CopiedCleanToDirty`); the random access stream does not override
`write(byte[])`, whose bytes are lost, and may cover a part of the file only
(`Written`); and the result of `renameTo` is not looked at (`Rename` may not
happen). None of these sets `hasErrors`. Assumed not to fail are the journal's own
reads and writes, and the deletion of files.

Run `disklru`: 2 keys, 2 clients, lengths 1 and 3, limit 2, 2 edits, 3 openings
(each but the first one of what the last left). One value can exceed the limit,
two entries can be edited at once and be evicted in either order; the later
openings replay every journal the first can leave. Checked: a part of a value is
published only by the commit of an editor without a file stream of its own
(`PublishesUnheard`: one whose stream was given up silently, or the random access
one), never by an edit that failed, was abandoned or overlapped another; in a
cache begun empty the size is exact; the journal knows every published
value and every edit at every instant; nothing but `close()` takes an entry
from its editor; the cleanup job brings the size below the limit unless every
entry left is being edited. That last one depends on the lookup in `remove`
moving an edited entry to the end of the list; the mutant with an
insertion-ordered map loops. Fairness: the executor's thread (weak), clients
that hold an editor (strong: they wait for a lock others take and release).

Run `disklru_reopen` (expected violation, `ReopenKeepsValues`): `cleanupDirectory`
compares file names with `Entry` objects and so deletes everything.

Not claimed, and false in the code: that the cleanup job always ends. A value
larger than the limit, edited again before cleanup, makes `trimToSize` spin for
good with the lock the editor needs: `Trim` is then the only step, and changes
nothing. `CleanupTrims` excepts the states where all entries left are edited.

### Media files: `MediaFilesManager`

Each load is a thread: `Lookup`, `Register` (the synchronized section),
`Subscribe`, and for the load that registered the subject `Fetch`, `BeginPut`,
`EndPut`, `GetBack`, `BeginRemove`/`EndRemove`, `Publish`, `Complete`. Loads of
bytes go on to read the file or to the network. The disk cache is what its
clients see of `DiskLruCache`: one editor per key, whole values, eviction at any
time. Removals from the `HashMap` take no lock; where one overlaps another
change, the outcomes a `HashMap` can produce are all allowed, and `damaged`
records it.

Run `media`: 3 loads, of one file or of two. Three are needed for one that
downloads, one that waits, and one that comes after the removal. Checked: one
download per key and no second edit of it (the assertion at
`CachedMediaFilesManager.java:140`) as long as the map is intact; every load is
answered whatever fails, if it did not subscribe after the completion. Fairness:
threads go on, and the http client has timeouts.

In that last case the subject was taken from the map before the download ended,
the subscription comes after `onComplete`, and the Single never ends: the model
has it, and `AnsweredUnlessMissed` excepts it.

### Tokens and the account: `TokenAuthenticator`, `UserAccountManager`

`TokenAuthenticator` has the steps of an API call on one thread: `Intercept`
and `Attach` (the interceptor), `Authenticate` (a 401), `Retry`, and for a
renewal `RequestRenewal` (the flag, outside the monitor), `EnterRenewal`,
`TokenRenewed` or `RenewalRefused` (the answer, and the token in memory),
`LeaveRenewal` (the preferences, the flag, the monitor). `ChangeToken` and
`StoreToken` are a sign-in's `changeToken`; `SignOut` and `SignOutStored` the two
unguarded writes of `dropToken`. Tokens are known by whose they are: a user's,
the application's, or none. Steps that only touch a thread's own state are
joined with the next one that is visible to others.

`UserAccountManager` composes it with the account layer, whose threads are the
callers: the io thread of `RefreshAction` (`RefreshTake`, `RefreshShow`,
`RefreshLoaded`), a profile update (`UpdateProfile`, `ProfileSent`,
`ProfileLoaded`), and sign-ins and sign-ups (`SignIn` ... `MarkGhost`), of which
the sign-up and the transfer of a ghost's gfycats are API calls themselves.
`Notify` is the main thread delivering a change of the preference: it reads the
token of that moment. `Restart` ends the process anywhere. History variables:
`diverged` (an unguarded write met a guarded one, or a call was given up, which
clears the preferences only) and `overtaken` (a profile answer changed the user
that is shown, because the token had changed before the request was signed or
the user had left before the answer came). Both things happen in the code; the
properties say what holds as long as they do not.

Run `account`: two users, the three threads, one retry per call instead of
three, and a `Budget` of four: an operation (sign-in, sign-up, sign-out, profile
update, restart) costs two and a 401 one. That gives each pair of operations in
every interleaving, and a call that is given up next to one operation. Checked:
memory and preferences agree; no renewal replaces another user's token; once
all is done the user of the token is shown and no other user's content is
cached; all comes to rest, so that the monitor is always left. Fairness: threads
run, calls end (the http client has timeouts), the main thread delivers; nobody
has to sign in or out.

`NO_USER` is compared by identity, and is another object after a restart
(`FailsOn`). If a sign-in was stored before the restart but not yet shown,
`RefreshAction` throws, and its subscription, asserted never to fail, ends; it
takes two sign-ins and a restart, more than this budget. Three more outcomes of
the model are claimed by nothing, as no document says otherwise: a renewal that
ends after a sign-out stores its token; a thread that waited for a renewal that
failed repeats its request without a token; and the ghost mark is set by a
sign-out delivered after the next sign-in.

### Feeds: `FeedCache`, `FeedManager`

`FeedCache` is the database: rows of feeds with their SQLite ids (used again
after a deletion), the relation of gfycats to feeds with its indexes, the
deleted and blocked. Each transaction is an operator (`InsertFeed`,
`UpdateFeed`, `CloseFeed`, `DeleteFeed`, ...); it is one step because it holds
the one connection. `SaveFeedData` is the loop of inserts with the two
`FeedIndexer`s. A digest is where the server's list is to be continued; `Null`
is SQL's null, equal to nothing, `Blank` the empty text of `closeFeed`. That a
feed is outdated after two hours is a free choice.

`FeedManager` has the threads and the readers: `GetGfycats`, `CheckFeed`,
`CheckItems`, `Insert` (the comparison with the database comes before the
transaction), `GetMoreGfycats`, `Update`, `Close`, `Abandon` (another digest, or
a transaction that failed), `AddRecentGfycat`, `DropFeed`, `MarkDeleted`,
`Block`, and `Notify`. A screen is one `observeGfycats`: `Enter`, `Register`,
the three reads `ReadFeed`, `ReadId`, `ReadList` of `getFeedData`, `Leave`,
`Unregister`. The bus has no lock, so that a tour of the observers may end early
while one of them comes or goes; `missed` records whom it did not tell, and who
was told during registration. Pages asked for go by what a screen shows, which
may be pieced together from two states, or from two feeds.

Run `feeds`: one paged feed whose server list is first one gfycat and then two
others, the recent feed, a feed of a single gfycat, two calling threads, two
screens, and four calls or screens entered. Four are what the hardest cases
take: two refreshes answered in the wrong order around a page asked for in
between, or a feed that is closed and begins again. Threads and screens are
interchangeable (symmetry; no liveness is checked here). Checked: the order of a
feed is defined and no gfycat is in it twice; its gfycats reach up to its digest
without a gap, and in the server's order as long as it has not ended; a screen
that was told of every change, and has read, shows its feed as it is.

The empty page that is to close a feed leaves it open, with an empty digest
(`FeedCache`'s `CloseFeed`), so that a feed that ended begins again;
`PagesInOrder` excepts it.

### The player's memory: `NativeContexts`, `Demux`, `WebPSequence`

`NativeContexts` is the native glue: a `WebPImage` and the `WebPFrame`s taken
from it are Java objects whose `mNativeContext` points to a counted context, and
all contexts share the demuxer, which owns the file's bytes. A thread's call is
`Enter` and `Count` (`getWebPImageNativeContext`, inside the object's monitor),
`Use` or `TakeFrame` (outside), `Leave` and `Last` (`releaseRef`); a disposal is
`Enter`, `ClearContext`, `Last`. `StartCall` and `CallEnds` are the sequence: `drawFrame`
takes a frame, renders it and drops it without disposing of it; `release`
disposes of the image once. `Finalize` is the virtual machine's finalizer
thread, which takes unreachable objects in any order, one at a time. A getter
and the rendering of a frame are one step outside the monitor: everything that
could free the memory under it may come just before, while the call holds the
context, which is what `NoUseAfterFree` speaks of.

`Demux` is the demuxer over bytes: chunks have the sizes of the format, and a
parse of the first `n` bytes is the operator `WebPDemuxInternal`, with the
parser's functions as operators of their own (`StoreFrame`, `ParseVP8XChunks`,
the validation); its two loops are functions of the number of passes, with one
pass each as an operator (`StoreFrameChunk`, `ParseNextChunk`). `WebPSequence`
composes the two (`PlayerSpec`): a file arrives byte by byte
(`Arrive`, each prefix parsed as `WebPDemuxPartial` would), is cut off anywhere
and made into a sequence (`Construct`, `WebPDemux` of what is there), which lives
as long as `NativeContexts` says. In the player the bytes are loaded whole; that
they may be cut stands for files that are.

Run `player`: files of up to two blocks of chunks (frames of an animation with
and without alpha, lossless, larger or smaller than declared, outside the
canvas, without an image; stills; metadata), RIFF sizes that fit, claim more,
end a chunk early, or are as small as the parser accepts, all on a canvas of 4
by 4; two threads, one of them the UI thread, and two frames at a time. Two
blocks are the least for a frame cut short with one before it; two threads and
the finalizer the least for a disposal between a count and its use. An ANMF may claim any size, also
less than a chunk's header behind its parameters: `NewFrame` accepts it, and
`StoreFrame` then reads a header without looking whether it is there
(`demux.c:213-221`, `295-297`). When it is not, the sizes that are left wrap
around, and a frame may be stored outside of the bytes: from there on the model
leaves open what the demuxer is (`overread`, `Unknown`, `Possible`), and the two
properties about frames say nothing of it. Checked: frames found complete stay, to the byte,
as more of the file arrives (whether a still image has alpha is open while an
ALPH chunk may follow it in a file without the alpha flag: the parser ignores
the chunk, and with it the alpha of a lossless image, `demux.c:411`); a sequence
whose constructor accepted the bytes can draw each frame it counts, within the bitmap
and within the bytes; nothing is freed under a native call; all is freed in the
end. The latter under fairness of calls that have begun and of the finalizer
(the virtual machine finalizes what is unreachable in the end); nobody has to
call or release anything. Excepted from the first is a broken chunk with less
than a chunk's header after it: `ParseVP8XChunks` turns the error into a request
for more data (`demux.c:519`), and the frame the chunk would belong to, complete
or not, is gone from the demuxer that the client of `WebPDemuxPartial` is given.
The memory usage that the sequence reports is not
taken back when its constructor throws (`CreationFails`); nothing is claimed of
it.

### Pictures: `AnimationFormat`, `AnimationCanvas`, `AnimDecoder`, `WebPPlayback`

`AnimationFormat` has frames and pixels. A pixel is the sequence of layers that
can be seen through it, so that two canvases are equal exactly if no shortcut
shows. `AnimationCanvas` is the abstract specification: a canvas on which frames
are drawn over what their predecessor, disposed of, left.

`AnimDecoder` is `anim_decode.c`: `GetNext` with key frames, the two canvases and
`FindBlendRangeAtRow`; `GetNextFails` when the bitstream is broken, with some of
the pixels written; `Reset`. Run `anim` checks the refinement `ImplementsCanvas`
on all animations of three frames on 3 by 2 pixels, where a frame has one of four
rectangles, blends or not, disposes of itself or not, and is opaque, translucent
or has a hole: wide enough for a frame to stick out of its predecessor on both
sides, or on neither. Colour arithmetic is not modelled.

`WebPPlayback` is the drawable with the pictures in its bitmaps, and the native
renderer of `webp_wrapper.cpp`: `RenderFrame` clears the area of the frame
before, or all of it, decodes, and blends. Its actions are the drawable's, each
with what it does to the pictures; a frame may be corrupt. Run `playback`: three
frames on a canvas of 2 by 1. Checked: a sequence with transparency, which draws
every frame over its bitmap, always shows the canvas (`AnimationCanvas`'s
definition), after any stops and failures; one without, which drops late frames
and clears, shows it at key frames. Excepted are animations with translucent
pixels: the decoder multiplies colours by their opacity (`MODE_rgbA`), and
`webp_wrapper.cpp:278` multiplies again, so that they come out too dark
(`Blended`).

### Decoding: `JobSlot`, `Worker`, `RowDecoder`, `IncrementalDecoder`

`Worker` is `WebPWorker` on POSIX threads: sections under the mutex are single
steps, except that a job holds the mutex while it runs, as the code does; waits
may end without a signal. `JobSlot` is its promise, a place for one job at a time.

`RowDecoder` is the second half of the lossy decoder, as a job or inline. The
cache's lines are known by the line of the picture they hold and how far it has
come (`raw`, `filtered`, `final` once the row below has filtered it), so that a
line put out too early, moved wrongly or filtered from the wrong neighbours
differs from `Finished`. `IncrementalDecoder` is the first half: the bytes, in the
decoder's buffer or the caller's, the token partitions, macroblocks that are
parsed again when the data end within them, rows handed over, and every way a
call ends. Units of data are abstract (`MBSize` per macroblock); offsets and the
moves of the buffers are as in the code.

Run `decoder`: pictures of 2 by 4 macroblocks, with and without the thread. Data
given at once, cut short anywhere, come with each of the three filters and of
four croppings, which begin and end inside and at the edges of rows. Data in
pieces, appended or in the caller's growing buffer, come in one partition with
alpha and in two, filtered. Files broken in the header, the modes, the tokens or
the alpha come at once and appended. Four rows make the cache of
three wrap around. The mutant of `kFilterExtraRows` that forgets chroma shows
that the croppings are enough to see it. Checked: the lines are right and in
order, and all are there on success; readers stay within the buffer; nobody
sleeps through a condition; no job outlives the output; calls return. Fairness:
a call goes on, and so does the worker's thread.

Two things are excepted, recorded by `raced`: the input buffer is replaced, by
`WebPIAppend` or by the caller of `WebPIUpdate`, while the worker decompresses
alpha from it without a `Sync` (`idec_dec.c:140`, `180`); and an error tears the
output down while a job runs (`IDecError`; the orderly end waits). The player
itself decodes whole frames, without threads, by `WebPDecode`, and is exposed to
neither.

## 3. Proofs

`UserAccountManagerProofs` proves for any set of users, any bounds and any
number of tries, of the whole specification:

- `TokenCopiesAgree`: `MemoryMatchesStorage`;
- `SignInsKept`: `RenewalKeepsUser`;
- `SignedInUserShown`: `ShowsSignedInUser`.

The first two rest on `IInv`. It says who is inside the monitor (`Monitor`), how
far memory is ahead of the preferences at each half-done change (`Writes`), and
that a token being renewed changes only by a sign-out (`Renewing`). `QuietStep`
covers every step that leaves the token alone; `HolderAlone` is mutual
exclusion. The third adds `ShowInv`: unless an answer changed the user shown,
the last notification delivered carries the token of now, or more are to come
(`Following`), and another user's content is dropped before a user is shown
(`Dropping`). The assumptions are that the names of tokens and users differ and
that the account layer's threads are three.

`ConstrainedExecutorProofs` proves, for any finite sets of callers and threads,
any set of tasks, any positive limit and queue length:

- `TypeCorrect`, `CounterExact`, `ConcurrencyLimit`, `NothingStranded`: the four
  invariants that the run `executor` checks;
- `Refinement`: `Safety => Pool!Safety`, the safety part of `ImplementsPool`.

The inductive invariant is `IInv`: type correctness, the exact count of workers,
`SnapshotBelowLimit` (a thread that is going to compare-and-set read a count
below the limit, without which the new count could pass it) and
`NoStrandedTask`. The count argument rests on lemmas `TakePlace`, `LeavePlace`
and `KeepPlace`: a step moves one thread into or out of the set of holders. That
no task is stranded needs the counter: a caller only leaves when the count is at
the limit, hence positive, hence some worker has yet to look at the queue.
The refinement also needs that each task is in one place (`OnePlaceStep`).

Assumptions used are the ones named in the module: finite and disjoint sets of
threads, positive limits, `NoTask` not a task.

`WebPProofs` proves of `NativeContexts`, for any finite sets of threads and frames:

- `CountsExact`: the invariant `CInv`. A context's count is the number of threads
  that hold it (`Holders`), one more while its Java object points to it (`Own`);
  a context that an object points to, or a thread holds, is live (`FieldLive`,
  `HeldLive`); the demuxer's shares are the live contexts (`Shares`).
- `NothingFreedInUse`: `NoUseAfterFree`, which follows.

Counting is by cardinalities of finite sets, one lemma per step of a call
(`EnterInvariant` ... `LastInvariant`), and rests on mutual exclusion by the
objects' monitors.

`WorkerProofs` proves `WakeupsArrive` (`NoLostWakeup`) and `SlotRefined`, the
safety part of `ImplementsSlot`, of any client that keeps to the interface
(`WorkerNext`; `IncrementalDecoder` is one). The invariant `WInv` relates the
status to the places of the two threads (`Phases`: the worker can only be
executing while the status is `WORK`, and is joined after it became `NOT_OK`) and
to the job's data (`Ownership`: the client has them only while the worker is
idle).

The lossy decoder is such a client: each of its steps is one of `WorkerNext` or
leaves the worker alone (`KeepsToInterface`). Hence `DecoderWakes` and
`DecoderUsesSlot`, the same two facts of `DSpec`, and, for any picture, layout
of the file and pieces of data:

- `NoJobOutlives` (`OutputOutlivesJobs`). The invariant `JobsInv` says at which
  place of a call the main thread has waited for the last row's job (`Waited`),
  and that where it is about to launch one (`Launching`) it had. Alpha data
  taken away and errors found while the worker is busy are excluded by the
  property, as the code lets a job run on in both.
- `ReadersFollow` (`ReadersCurrent`). The invariant `InputInv` follows the
  parsing (`Progress`) and every pointer into the buffer, whether it was grown
  or moved (`Pointers`). That the partitions lie behind each other and in the
  file (`Layout`) is a fact about cardinalities, since the model's partitions are
  sets of bytes.

- `PictureIsRight` (`PictureRight`). The invariant `RowsInv` follows each row of
  the picture from its partition to the output. `Rows`: where parsing is in the
  row and in the partitions that take turns (`ReaderAt`). `Sets` and `JobData`:
  blocks and filter strengths come in two sets, which the hand-over swaps, so
  that a job has the whole of its row while the next is parsed into the other.
  `Lines`: exactly the lines of the rows put out are there, and right (`PutOut`),
  and the lines a row leaves in the cache for the next row's filter are there,
  filtered, where the next row looks for them (`KeptAbove`), around the cache's
  end too. `NoLines`: with broken alpha data nothing is put out.

The assumptions are the modules' `SizeAssumption`, `LayoutAssumption` and
`CropAssumption` (a cropping lies within the picture).

`WebPProofs` proves of `WebPSequence`, for any files, however much has arrived:

- `FramesDrawable` (`EveryFrameDrawable`): what the constructor accepted can be
  drawn, frame by frame;
- `PlayerFreesNothingInUse` (`NoUseAfterFree`), of the composition;
- `FramesStay` (`FramesKept`): parsing again with more bytes takes no complete
  frame back, and the parser's state does not go backwards.

The parser is followed loop by loop, each with what one pass keeps and, by
induction over the passes, the whole loop: a frame's chunks lie behind each other
and within the bytes (`StorePass`, `Stored`), the frames are numbered in their
order (`ParsePass`, `AllChunks`), and what validation then accepts is usable
(`SimpleUsable`, `ExtendedUsable`, `RawUsable`). `FilesAssumption` says that what
is read of a chunk is unsigned, and nothing more of its size. Both theorems on
frames except the demuxer of a parse that read a header behind the bytes
(`Known`), which takes an ANMF that claims less than a chunk's header; all other
parses, of such files too, are covered.

`FramesStay` compares two parses of one file, of its first `n` bytes and of its
first `m`, for any `n <= m` (`DemuxersKept`). The two loops run side by side: as
long as the bytes suffice both are in the same state; where they do not, the one
with fewer is over and asks for more, and what it leaves is what the other still
has and goes on adding to (`SameOrMore` with `StoredGrows` for the chunks of a
frame, `PassGrows` with `ChunksGrow` for those behind VP8X). A frame that was
complete can change in two ways only. Of a still image without the alpha flag a
late ALPH clears `has_alpha`, which `FramesKept` allows. Otherwise ALPH comes
behind an image that is complete (`LateAlpha`), and the validation refuses that
file. That `demuxed` is what the parser makes of the bytes there (`ParsedSoFar`)
needs that the parser reads nothing that changes but the file (`SameDemuxer`); as
its loops are defined by `CHOOSE`, that takes their uniqueness (`OneLoop`).

`WebPProofs` proves of `AnimDecoder`, for any canvas and any set of animations:

- `DisposedCanvasKept`: `prev_frame_disposed_` always is the last canvas shown,
  disposed of (`PreviousKept`), of which the invariant `IInv` also knows that a
  key frame shows nothing outside of its rectangle (`KeyFrameAlone`);
- `Refinement`: `ImplementsCanvas`. The two hard facts are that a key frame's
  canvas does not depend on what was below it (`IsKeyFrame`), and that outside of
  the blend ranges the canvas below is clear (`BlendArea`).

`FrameSequenceDrawableProofs` proves, for any number of frames and any bounds on
queued decodes and posted invalidations:

- `FrontIsWhole` (`NoTornFrame`), `OfferIsWhole` (`OfferedFrameComplete`),
  `NeverReleasedTwice` (`ReleasedOnce`) and `TypeCorrect`.

The invariant says whose each bitmap is: the front one the UI thread's, the back
one the decoder's from its first locked section to its second. What makes it
inductive is that no stop and restart in between brings the state to one that
`draw` swaps in, and that once destroyed each bitmap is where one party will
release it from, or released.

The same module proves of the playback (`PSpec`), for any animation:

- `NewIsCanvas` (`NewShowsCanvas`) and `OldKeyIsCanvas` (`OldShowsKeyFrames`).

The invariant `PicturesInv` adds what the bitmaps hold: a bitmap that carries a
frame's number shows what the renderer is expected to have drawn for it
(`ShowsContent`), and the back bitmap always is ground for the next frame
(`GroundReady`): it shows the frame before, or the frame itself, or the frame is
corrupt and can never be drawn (`Fits`). So a failed or repeated decode does no
harm. What is expected is the format's canvas when no pixel is translucent
(`RenderedIsCanvas`), and at a key frame always (`KeyFrameIsCanvas`). The format
defines its canvases by recursion over the frames; that such a function exists,
and is the one `CanvasAt` chooses, is proved first (`CanvasAtIs`).

`MediaFilesManagerProofs` proves, for any loads and keys, `DownloadedOnce`
(`OneDownloadPerKey`), `EditorIsFree` (`NoOtherEditInProgress`), `TypeCorrect`,
and `SomeoneWillAnswer`: a load that waits for a download waits for one that has
yet to publish, or came after it completed, which is the safety behind the
liveness property of the run. The invariant follows each key's entry in the map
from the registration to the removal, by the one load in charge, and each
subject from its creation to its publication.

`DiskLruCacheProofs` proves, for any clients, keys, lengths and bounds, with the
process dying at any step:

- `CommittingIsAtomic` (`NoPartialValue`), an action property: whoever is about to
  commit a file stream without an error wrote its file to the end (`CommitsWhole`),
  and nobody else edits it, so that only an editor whose stream was given up or
  was the random access one can publish a part;
- `SizeIsTotal` (`SizeAccounting`): a sum over any set of keys, for which the
  module proves that the order of adding does not matter (`TotalWithout`), that
  it depends on the lengths only (`TotalSame`), and that an entry without a value
  has no length (`UnpublishedEmpty`);
- `JournalIsComplete` (`JournalComplete`): the journal's file, and its image with
  the lines still buffered, both cover what memory holds (`Covers`), except
  between the two renames of a rebuild, when the backup does;
- `OneEditorPerEntry` (`EditorNotDisplaced`), an action property, from
  `ClosedUnedited`: a closed cache, or one past the aborts of `close`, has no
  editors;
- `TypeCorrect` (`TypeOK`).

Its assumptions are the module's: lengths are natural numbers, the model values
are distinct, a missing journal is not an image. The order of the map is kept by
iterating over it; what an iteration selects (`SelectedFacts`) and the sums are
proved by induction: a set of natural numbers that contains 0 and the successor
of each of its members is all of them (`Induction`, from the library's theorem
on well-founded relations, which is stated for sets and not for operators).

`FeedManagerProofs` proves, for any screens, gfycats and bounds and any list of
the server:

- `OrderIsDefined` (`OrderDefined`), `NothingLeftOut` (`NoGap`) and
  `OrderIsServers` (`PagesInOrder`), of the tables;
- `ScreensAreCurrent` (`ShownIsCurrent`), of what the screens show.

The invariant `IInv` has four parts. `DatabaseInv`: no feed has two relations of
one gfycat or at one index, and the indexes have a least and a greatest
(`Sound`); ids are distinct and every relation belongs to a feed in use
(`IdsDistinct`, `Owned`), without which an id used again after a deletion would
bring old rows back; and what the digest has passed is there, in order
(`Promised`). `CallsInv`: the page that a call carries continues the digest
it was asked with (`Carries`), which is what makes the comparison before the
insertion sufficient. `ScreensTyping` and `ScreensInv`: a screen has read what
is in the tables (`UpToDate`) or a notification is on its way (`Pending`), also
between two of the three statements of a read. A page is saved by a fold over
its list: that it is a chain of single insertions is proved first
(`SavingIsChain`, from `FoldExists`), then what one insertion at either end
keeps (`AppendStep`, `PrependStep`), then what the whole page does (`SaveFacts`).
Assumed are the named assumptions of `FeedCache` and `FeedManager`.

Only model-checked: liveness everywhere (out of the prover's reach), and the type
invariants that no theorem above names (that of the feeds needs the type of a
sorted sequence, `Listed`, which the library defines by `CHOOSE`).

## 4. Not modelled

Of the repository's 83,719 lines of C and C++, the most are vendored code that
the player's library does not contain: libwebp's encoder and muxer
(`LIB/enc`, `LIB/mux`, the `_enc` files of `LIB/dsp`), generated language
bindings (`jni/libwebp/swig`), image readers and example programs. Of what it
does contain, most is sample arithmetic, once in C and again for each
instruction set (`LIB/dsp`), colour conversion, and the entropy decoders
(`vp8l_dec.c`, `tree_dec.c`, the coefficients of `vp8_dec.c`): functions of bits
and samples, with neither interleavings nor states that TLC would explore, which
comparison with the reference decoder tests well. The modules take of libwebp
what has state, order and threads. The SDK's own logic is in Java.

See also the components with status `not_modelled` in `PROJECT.json`. Hazards
met in code that is not modelled: `waitUntilReady` of the upload manager has the
wrong sign in its time left (`DefaultUploadManager.java:157`); the categories'
request is shared by threads without a lock (`FeedManagerImpl.java:105`); a feed
changed during a load (`FeedLoadingDelegate.java:125`).

In modelled parts: of the lossy decoder, columns and sample values, dithering,
an output that aborts, allocation failures other than the thread's, the copy out
of slow memory, lossless images in pieces; of the renderer, scaling to a bitmap
of another size; of the demuxer, the 32-bit limits; the executor's statistics and `isIdle`; loop counting and times of the
drawable; `Snapshot.edit`, `setMaxSize`, `delete` and
corrupt journals of the disk cache, which nothing in the repository uses or
produces, and failures of its journal's reads and writes (`DiskLruCache.java:478`,
`550-558`) and of deletions; the folder and size choice of `DefaultDiskCache`. Of the account: the
avatar's upload and polling, the search for a free ghost name, the moment
between the first read and the registration of the token's observer, and a
ghost mark lost by a process that dies before `apply` has written it. Of the
feeds: marks that hide nothing (published, nsfw), the categories, gfycats asked
for by id, and the trimming of the recent feed, to which nothing subscribes:
`ambWith` has its winner before it comes to `ensureRecentFitLimit`. Until the
screens' own reactions are modelled, a screen may ask for a page at any time.

## 5. Plan

In order of importance:

1. The order of a deletion and its undo (content management) over `FeedCache`,
   and an abstract feed as its specification.
2. `UploadManager` (retries and timeouts).
3. `FeedLoading` and `FrameSequenceView` (lifecycle against late answers).
4. Lossless images in pieces (`vp8l_dec.c`), in `IncrementalDecoder`.
5. Proofs: the type of what a screen lists.
