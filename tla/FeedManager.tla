------------------------------ MODULE FeedManager ------------------------------
(***************************************************************************)
(* FeedManagerImpl and the readers of the feed cache.  Calls for a feed's  *)
(* first page, for a next page, for the recent gfycats and to hide gfycats *)
(* run on threads of their own, each a few statements and transactions of  *)
(* the cache with others in between, and then tell the event bus.  Screens *)
(* observe one feed each: observeGfycats reads the feed once at the start  *)
(* and again on each event, in three statements that no transaction holds  *)
(* together.                                                               *)
(***************************************************************************)
EXTENDS FeedCache

CONSTANTS
    Threads,
    Screens,
    FeedOf,             \* the feed each screen observes
    PageSize,           \* DEFAULT_GET_ITEMS_VALUE
    None,
    Budget              \* bound: calls made and screens entered

ASSUME ScreensAssumption == FeedOf \in [Screens -> Feeds]
ASSUME SizesAssumption == PageSize \in Nat \ {0} /\ Budget \in Nat

VARIABLES
    current,            \* the server's present snapshot
    pc,                 \* per thread: what it does next
    job,                \* per thread: the call it makes
    screen,             \* per screen: its subscription and what it shows
    budget              \* what is left of Budget

managerVars == <<current, pc, job, screen, budget>>
vars == <<databaseVars, managerVars>>

Lists ==
    [items : Seq(Items), new : Seq(Items), next : Digests]
Shown == [digest : Digests, closed : BOOLEAN, gfycats : Seq(Items)]

EmptyList == [items |-> <<>>, new |-> <<>>, next |-> Null]

\* feed is None in an event to the observers of all feeds
NoJob == [feed |-> None, list |-> EmptyList, mode |-> "Auto", append |-> FALSE,
          previous |-> Null, id |-> 0, gfycat |-> None, deleted |-> FALSE,
          events |-> 0]

\* signal: an event waits to be read; missed is history: an event came after the
\* first read and found the observer not registered, or broke off before it
Off == [phase |-> "off", signal |-> FALSE, reading |-> "no", digest |-> Null,
        closed |-> FALSE, id |-> 0, shown |-> None, missed |-> FALSE]

MInit ==
    /\ Init
    /\ current = 1
    /\ pc = [t \in Threads |-> "idle"]
    /\ job = [t \in Threads |-> NoJob]
    /\ screen = [s \in Screens |-> Off]
    /\ budget = Budget

Spend == budget > 0 /\ budget' = budget - 1

Goto(t, place, call) ==
    /\ pc' = [pc EXCEPT ![t] = place]
    /\ job' = [job EXCEPT ![t] = call]

Finish(t) == Goto(t, "idle", NoJob)

\* a call for one feed, or with None for all feeds, is done but for its events
Announce(t, feed, events) ==
    Goto(t, "notify", [NoJob EXCEPT !.feed = feed, !.events = events])

-----------------------------------------------------------------------------
(* The server *)

Page(v, n) ==
    LET last == IF n + PageSize < Len(Server[v]) THEN n + PageSize ELSE Len(Server[v])
    IN  SubSeq(Server[v], n + 1, last)

\* a last page may come without a digest
NextDigests(v, n) ==
    {[snapshot |-> v, count |-> n]} \union (IF n = Len(Server[v]) THEN {Null} ELSE {})

\* the gfycats the server may add as new ones since snapshot v
News(v) ==
    {<<>>} \union (IF v # current /\ Server[current] # <<>>
                   THEN {<<Server[current][1]>>} ELSE {})

PageAt(v, n, news) ==
    {[items |-> Page(v, n), new |-> new, next |-> next] :
        new \in news, next \in NextDigests(v, n + Len(Page(v, n)))}

FirstPages == PageAt(current, 0, {<<>>})

\* without a digest the answer is a first page; with the blank one it may be
\* that, or an empty page; an ended search is answered by an empty page, too
MorePages(previous) ==
    CASE previous = Null -> FirstPages
      [] previous = Blank -> FirstPages \union {EmptyList}
      [] OTHER -> PageAt(previous.snapshot, previous.count, News(previous.snapshot))

ServerMoves ==
    /\ current < Len(Server)
    /\ current' = current + 1
    /\ UNCHANGED <<databaseVars, pc, job, screen, budget>>

-----------------------------------------------------------------------------
(* Calls.  The answer is fixed when the call is made, and comes later.     *)

GetGfycats(t) ==
    /\ pc[t] = "idle" /\ Spend
    /\ \E f \in PagedFeeds \union SingleFeeds :
           \E list \in IF f \in PagedFeeds THEN FirstPages
                       ELSE {[EmptyList EXCEPT !.items = <<f>>]} :
               Goto(t, "checkFeed", [NoJob EXCEPT !.feed = f, !.list = list])
    /\ UNCHANGED <<databaseVars, current, screen>>

\* UpdateFeedAction; loadMore asks for a page unless the feed shows as closed
GetMoreGfycats(t) ==
    /\ pc[t] = "idle" /\ Spend
    /\ \E s \in Screens :
           /\ FeedOf[s] \in PagedFeeds
           /\ screen[s].shown # None /\ ~screen[s].shown.closed
           /\ \E list \in MorePages(screen[s].shown.digest) :
                  Goto(t, IF list.items = <<>> /\ list.new = <<>> THEN "close" ELSE "update",
                       [NoJob EXCEPT !.feed = FeedOf[s], !.list = list,
                                     !.previous = screen[s].shown.digest])
    /\ UNCHANGED <<databaseVars, current, screen>>

\* a list of new gfycats is never the same as the database; of the trimming that
\* would follow, ambWith does not even subscribe to it: the insertion has won
AddRecentGfycat(t) ==
    /\ pc[t] = "idle" /\ Spend
    /\ \E g \in Items :
           Goto(t, "insert", [NoJob EXCEPT !.feed = Recent, !.mode = "Close", !.append = TRUE,
                                           !.list = [EmptyList EXCEPT !.new = <<g>>]])
    /\ UNCHANGED <<databaseVars, current, screen>>

\* internalDelete and then delete notify
DropFeed(t) ==
    /\ pc[t] = "idle" /\ Spend
    /\ \E f \in Feeds : DeleteFeed(f) /\ Announce(t, f, 2)
    /\ UNCHANGED <<current, screen>>

\* to delete is also to delete the gfycat's own feed, without an event
MarkDeleted(t) ==
    /\ pc[t] = "idle" /\ Spend
    /\ \E g \in Items, deleted \in BOOLEAN :
           /\ gfycats[g] # "none"
           /\ IF deleted /\ g \in SingleFeeds THEN DeleteFeed(g) ELSE UNCHANGED databaseVars
           /\ Goto(t, "mark", [NoJob EXCEPT !.gfycat = g, !.deleted = deleted])
    /\ UNCHANGED <<current, screen>>

UpdateGfycatAndNotify(t) ==
    /\ pc[t] = "mark"
    /\ MarkGfycat(job[t].gfycat, job[t].deleted)
    /\ Announce(t, None, 1)
    /\ UNCHANGED <<current, screen, budget>>

Block(t) ==
    /\ pc[t] = "idle" /\ Spend
    /\ \E block \in BOOLEAN :
           \/ \E g \in Items : BlockItem(g, block)
           \/ \E u \in Users : BlockUser(u, block)
    /\ Announce(t, None, 1)
    /\ UNCHANGED <<current, screen>>

-----------------------------------------------------------------------------
(* insertFeed: isSameAsInDB reads the feed's row and then its list; the    *)
(* transaction comes after.  A feed may be outdated at any time.           *)

CheckFeed(t) ==
    /\ pc[t] = "checkFeed"
    /\ \/ Goto(t, "insert", job[t])
       \/ /\ feeds[job[t].feed] # Absent
          /\ Goto(t, "checkItems", [job[t] EXCEPT !.id = IdOf(job[t].feed)])
    /\ UNCHANGED <<databaseVars, current, screen, budget>>

CheckItems(t) ==
    /\ pc[t] = "checkItems"
    /\ IF SameStart(job[t].list.items, Listed(job[t].id))
       THEN Finish(t) ELSE Goto(t, "insert", job[t])
    /\ UNCHANGED <<databaseVars, current, screen, budget>>

\* mutant: a closed feed is not announced
CommittedQuietly(t) ==
    IF pc[t] = "close" THEN Finish(t) ELSE Announce(t, job[t].feed, 1)

\* the event follows the commit, and is for the feed only
Committed(t) == Announce(t, job[t].feed, 1)

Insert(t) ==
    /\ pc[t] = "insert"
    /\ InsertFeed(job[t].feed, job[t].list, job[t].mode, job[t].append)
    /\ Committed(t)
    /\ UNCHANGED <<current, screen, budget>>

Update(t) ==
    /\ pc[t] = "update"
    /\ UpdateFeed(job[t].feed, job[t].previous, job[t].list)
    /\ Committed(t)
    /\ UNCHANGED <<current, screen, budget>>

Close(t) ==
    /\ pc[t] = "close"
    /\ CloseFeed(job[t].feed, job[t].previous)
    /\ Committed(t)
    /\ UNCHANGED <<current, screen, budget>>

\* the digest is another one by now
WrongDigest(t) == pc[t] \in {"update", "close"} /\ ~HasDigest(job[t].feed, job[t].previous)

\* a transaction that fails, or finds another digest, is rolled back; no event
Abandon(t) ==
    /\ pc[t] \in {"insert", "update"} \/ WrongDigest(t)
    /\ Finish(t)
    /\ UNCHANGED <<databaseVars, current, screen, budget>>

-----------------------------------------------------------------------------
(* Events and screens.  The bus is a map of lists without a lock: a list   *)
(* that changes while a thread goes through it ends that thread's tour.    *)

ObserversOf(feed) ==
    {s \in Screens : /\ screen[s].phase \in {"on", "leaving"}
                     /\ feed \in {None, FeedOf[s]}}

\* observers being registered or taken off during a tour
Moving(feed) ==
    {s \in Screens : /\ screen[s].phase \in {"entering", "leaving"}
                     /\ feed \in {None, FeedOf[s]}}

\* an observer without a signal has had its first read, or is at it
Told(s, feed, told) ==
    IF s \in told THEN [screen[s] EXCEPT !.signal = TRUE]
    ELSE IF screen[s].phase # "off" /\ ~screen[s].signal /\ feed \in {None, FeedOf[s]}
         THEN [screen[s] EXCEPT !.missed = TRUE]
         ELSE screen[s]

Notify(t) ==
    /\ pc[t] = "notify"
    /\ \E told \in SUBSET ObserversOf(job[t].feed) :
           /\ told # ObserversOf(job[t].feed) => Moving(job[t].feed) # {}
           /\ screen' = [s \in Screens |-> Told(s, job[t].feed, told)]
           /\ IF told = ObserversOf(job[t].feed) /\ job[t].events > 1
              THEN Announce(t, job[t].feed, job[t].events - 1) ELSE Finish(t)
    /\ UNCHANGED <<databaseVars, current, budget>>

\* observeGfycats emits the feed itself first and registers its observer then
Enter(s) ==
    /\ screen[s].phase = "off" /\ Spend
    /\ screen' = [screen EXCEPT ![s] = [Off EXCEPT !.phase = "entering", !.signal = TRUE]]
    /\ UNCHANGED <<databaseVars, current, pc, job>>

Register(s) ==
    /\ screen[s].phase = "entering"
    /\ screen' = [screen EXCEPT ![s].phase = "on"]
    /\ UNCHANGED <<databaseVars, current, pc, job, budget>>

Leave(s) ==
    /\ screen[s].phase = "on"
    /\ screen' = [screen EXCEPT ![s] = [Off EXCEPT !.phase = "leaving"]]
    /\ UNCHANGED <<databaseVars, current, pc, job, budget>>

Unregister(s) ==
    /\ screen[s].phase = "leaving"
    /\ screen' = [screen EXCEPT ![s] = Off]
    /\ UNCHANGED <<databaseVars, current, pc, job, budget>>

\* getFeedData: the row, its id by another query, the list by a third
Show(s, digest, closed, list) ==
    screen' = [screen EXCEPT
        ![s].signal = IF screen[s].reading = "no" THEN FALSE ELSE @, ![s].reading = "no",
        ![s].digest = Null, ![s].closed = FALSE, ![s].id = 0,
        ![s].shown = [digest |-> digest, closed |-> closed, gfycats |-> list]]

ReadFeed(s) ==
    /\ screen[s].signal /\ screen[s].reading = "no"
    /\ screen[s].phase \in {"entering", "on"}
    /\ LET row == feeds[FeedOf[s]]
       IN  IF row = Absent THEN Show(s, Null, FALSE, <<>>)
           ELSE screen' = [screen EXCEPT ![s].signal = FALSE, ![s].reading = "id",
                                         ![s].digest = row.digest, ![s].closed = row.closed]
    /\ UNCHANGED <<databaseVars, current, pc, job, budget>>

ReadId(s) ==
    /\ screen[s].reading = "id"
    /\ screen' = [screen EXCEPT ![s].reading = "list", ![s].id = IdOf(FeedOf[s])]
    /\ UNCHANGED <<databaseVars, current, pc, job, budget>>

ReadList(s) ==
    /\ screen[s].reading = "list"
    /\ Show(s, screen[s].digest, screen[s].closed, Listed(screen[s].id))
    /\ UNCHANGED <<databaseVars, current, pc, job, budget>>

Call(t) ==
    GetGfycats(t) \/ GetMoreGfycats(t) \/ AddRecentGfycat(t) \/ DropFeed(t)
        \/ MarkDeleted(t) \/ Block(t)

Proceed(t) ==
    CheckFeed(t) \/ CheckItems(t) \/ Insert(t) \/ Update(t) \/ Close(t) \/ Abandon(t)
        \/ UpdateGfycatAndNotify(t) \/ Notify(t)

Observe(s) ==
    Enter(s) \/ Register(s) \/ Leave(s) \/ Unregister(s)
        \/ ReadFeed(s) \/ ReadId(s) \/ ReadList(s)

Next ==
    \/ ServerMoves
    \/ \E t \in Threads : Call(t) \/ Proceed(t)
    \/ \E s \in Screens : Observe(s)

Spec == MInit /\ [][Next]_vars
-----------------------------------------------------------------------------
(* Properties *)

\* The type invariant.
TypeOK ==
    /\ DatabaseTypeOK
    /\ current \in Snapshots
    /\ pc \in [Threads -> {"idle", "checkFeed", "checkItems", "insert", "update",
                           "close", "mark", "notify"}]
    /\ \A t \in Threads :
           /\ job[t].feed \in Feeds \union {None}
           /\ job[t].list \in Lists
           /\ job[t].previous \in Digests
           /\ job[t].id \in Nat
           /\ job[t].events \in 0..2
    /\ \A s \in Screens :
           /\ screen[s].phase \in {"off", "entering", "on", "leaving"}
           /\ screen[s].reading \in {"no", "id", "list"}
           /\ screen[s].shown \in Shown \union {None}
    /\ budget \in 0..Budget

\* what getFeedData would give if nothing could come between its reads
FeedDataOf(f) ==
    IF feeds[f] = Absent THEN [digest |-> Null, closed |-> FALSE, gfycats |-> <<>>]
    ELSE [digest |-> feeds[f].digest, closed |-> feeds[f].closed,
          gfycats |-> Listed(feeds[f].id)]

\* A registered screen with no event on its way and no read under way shows its
\* feed as it is: every change, to the feed or to what is hidden, is followed by
\* an event that is read after it, and what three reads pieced together is
\* replaced.  Excepted are the screens the bus is known to fail: an event during
\* the registration, or one cut off by another observer's coming or going.
ShownIsCurrent ==
    (\A t \in Threads : pc[t] \notin {"mark", "notify"}) =>
        \A s \in Screens :
            /\ screen[s].phase = "on" /\ ~screen[s].missed
            /\ ~screen[s].signal /\ screen[s].reading = "no"
            => screen[s].shown = FeedDataOf(FeedOf[s])
===============================================================================
