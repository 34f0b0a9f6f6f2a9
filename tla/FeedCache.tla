------------------------------- MODULE FeedCache -------------------------------
(***************************************************************************)
(* GfycatFeedDatabaseCache keeps feeds in an SQLite database: a table of   *)
(* feeds, a table of gfycats, the relation that puts a gfycat into a feed  *)
(* at an index, and the gfycats and users that are blocked.  A feed knows  *)
(* its digest, the place where its next page begins, and whether it is     *)
(* closed.                                                                 *)
(*                                                                         *)
(* Each transaction, and each statement that runs outside of one, is an    *)
(* operator here; the module that extends this one says which threads run  *)
(* them in which order.  A transaction holds the database's one connection *)
(* from its first statement to its commit, so it is one step.  Of a gfycat *)
(* only what decides whether it is listed is kept.                         *)
(***************************************************************************)
EXTENDS Integers, Sequences, FiniteSets, FiniteSetsExt, SequencesExt

CONSTANTS
    Items,              \* gfycats
    Users,
    Owner,              \* whose each gfycat is
    PagedFeeds,         \* feeds that are loaded page by page
    Recent,             \* the feed of the gfycats used last
    SingleFeeds,        \* gfycats that have a feed of their own, named by them
    Server,             \* the lists a paged feed has at the server, one after another
    Absent,             \* no row
    Null,               \* the digest of a feed that has no next page
    Blank               \* the empty digest closeFeed writes

Feeds == PagedFeeds \union SingleFeeds \union {Recent}
Snapshots == DOMAIN Server

ASSUME FeedsAssumption ==
    /\ SingleFeeds \subseteq Items
    /\ PagedFeeds \cap SingleFeeds = {}
    /\ Recent \notin PagedFeeds \union SingleFeeds
ASSUME ServerAssumption == Server \in Seq(Seq(Items)) \ {<<>>} /\ Owner \in [Items -> Users]

VARIABLES
    feeds,              \* per feed: its row, or Absent
    relations,          \* which gfycat is in which feed, at which index
    gfycats,            \* per gfycat: "none" (no row), "live" or "deleted"
    blockedGfycats,
    blockedUsers

databaseVars == <<feeds, relations, gfycats, blockedGfycats, blockedUsers>>

\* "after the first count gfycats of this snapshot"
Digests == [snapshot : Snapshots, count : Nat] \union {Null, Blank}
Rows == [id : Nat \ {0}, digest : Digests, closed : BOOLEAN, ended : BOOLEAN]
Relations == [feed : Nat \ {0}, gfycat : Items, index : Int]

ASSUME ValuesAssumption ==
    /\ Absent \notin Rows
    /\ Null # Blank /\ {Null, Blank} \cap [snapshot : Snapshots, count : Nat] = {}

\* "ended" is history: whether an empty page has told that the feed is over
Init ==
    /\ feeds = [f \in Feeds |-> Absent]
    /\ relations = {}
    /\ gfycats = [g \in Items |-> "none"]
    /\ blockedGfycats = {}
    /\ blockedUsers = {}

-----------------------------------------------------------------------------
(* Reading *)

IdOf(f) == IF feeds[f] = Absent THEN 0 ELSE feeds[f].id

Visible(g) ==
    /\ gfycats[g] # "deleted"
    /\ g \notin blockedGfycats
    /\ Owner[g] \notin blockedUsers

InOrder(rels) == SetToSortSeq(rels, LAMBDA r, s: r.index < s.index)

\* what the query for the feed with this id lists; id 0 stands for no feed
Listed(id) ==
    LET rows == InOrder({r \in relations : r.feed = id /\ Visible(r.gfycat)})
    IN  [i \in DOMAIN rows |-> rows[i].gfycat]

SameStart(list, cached) ==
    Len(list) <= Len(cached) /\ \A i \in DOMAIN list : list[i] = cached[i]

-----------------------------------------------------------------------------
(* A page of gfycats goes behind the ones the feed has, the new gfycats    *)
(* that come with it go before them.                                       *)

IndexesOf(rels, id) == {r.index : r \in {r \in rels : r.feed = id}}
MaxIndex(rels, id) == IF IndexesOf(rels, id) = {} THEN 0 ELSE Max(IndexesOf(rels, id))
MinIndex(rels, id) == IF IndexesOf(rels, id) = {} THEN 0 ELSE Min(IndexesOf(rels, id))

\* mutant: the gfycat is not looked up in the feed first
InsertRelationBlind(at, id, g, step, replace) ==
    [rels |-> at.rels \union {[feed |-> id, gfycat |-> g, index |-> at.last + step]},
     last |-> at.last + step]

\* at: the relations and the index given last; a gfycat the feed has already
\* takes a new place only when it is to be replaced
InsertRelation(at, id, g, step, replace) ==
    LET old == {r \in at.rels : r.feed = id /\ r.gfycat = g}
    IN  IF old # {} /\ ~replace THEN at
        ELSE [rels |-> (at.rels \ old)
                       \union {[feed |-> id, gfycat |-> g, index |-> at.last + step]},
              last |-> at.last + step]

SaveGfycats(rels, id, list, start, step, replace) ==
    FoldLeft(LAMBDA at, g: InsertRelation(at, id, g, step, replace),
             [rels |-> rels, last |-> start], list).rels

SaveFeedData(rels, id, list) ==
    SaveGfycats(SaveGfycats(rels, id, list.items, MaxIndex(rels, id), 1, FALSE),
                id, list.new, MinIndex(rels, id), -1, TRUE)

\* a gfycat that has a row keeps what the row says of its deletion
KnownWith(list) ==
    [g \in Items |-> IF gfycats[g] = "none" /\ g \in Range(list.items \o list.new)
                     THEN "live" ELSE gfycats[g]]

-----------------------------------------------------------------------------
(* Transactions *)

\* SQLite gives a new row the id after the largest in use
NewId(others) ==
    LET ids == {feeds[f].id : f \in {f \in others : feeds[f] # Absent}}
    IN  IF ids = {} THEN 1 ELSE Max(ids) + 1

\* CloseMode
IsOpen(mode, digest) ==
    \/ mode = "Open"
    \/ mode = "Auto" /\ digest \notin {Null, Blank}

\* mutant: the deletion of a feed does not cascade to its relations
ClearedNot(f) == relations

Cleared(f) ==
    IF feeds[f] = Absent THEN relations ELSE {r \in relations : r.feed # feeds[f].id}

FeedRow(id, list, mode) ==
    [id |-> id, digest |-> list.next, closed |-> ~IsOpen(mode, list.next),
     ended |-> FALSE]

InsertOrReplaceFeed(f, list, mode) ==
    LET id == NewId(Feeds \ {f})
    IN  /\ feeds' = [feeds EXCEPT ![f] = FeedRow(id, list, mode)]
        /\ relations' = SaveFeedData(Cleared(f), id, list)

InsertIfNotExistFeed(f, list, mode) ==
    LET id == IF feeds[f] = Absent THEN NewId(Feeds) ELSE feeds[f].id
    IN  /\ feeds' = IF feeds[f] = Absent
                    THEN [feeds EXCEPT ![f] = FeedRow(id, list, mode)] ELSE feeds
        /\ relations' = SaveFeedData(relations, id, list)

InsertFeed(f, list, mode, append) ==
    /\ IF append THEN InsertIfNotExistFeed(f, list, mode)
                 ELSE InsertOrReplaceFeed(f, list, mode)
    /\ gfycats' = KnownWith(list)
    /\ UNCHANGED <<blockedGfycats, blockedUsers>>

\* mutant: the previous digest is not compared
HasAnyDigest(f, previous) == feeds[f] # Absent

\* the row whose digest is to change: a null digest is equal to none
HasDigest(f, previous) ==
    feeds[f] # Absent /\ previous # Null /\ feeds[f].digest = previous

UpdateFeed(f, previous, list) ==
    /\ HasDigest(f, previous)
    /\ feeds' = [feeds EXCEPT ![f].digest = list.next, ![f].closed = FALSE]
    /\ relations' = SaveFeedData(relations, feeds[f].id, list)
    /\ gfycats' = KnownWith(list)
    /\ UNCHANGED <<blockedGfycats, blockedUsers>>

CloseFeed(f, previous) ==
    /\ HasDigest(f, previous)
    /\ feeds' = [feeds EXCEPT ![f].digest = Blank, ![f].closed = FALSE,
                              ![f].ended = TRUE]
    /\ UNCHANGED <<relations, gfycats, blockedGfycats, blockedUsers>>

DeleteFeed(f) ==
    /\ feeds' = [feeds EXCEPT ![f] = Absent]
    /\ relations' = Cleared(f)
    /\ UNCHANGED <<gfycats, blockedGfycats, blockedUsers>>

\* marks the row of a gfycat, when there is one
MarkGfycat(g, deleted) ==
    /\ gfycats' = IF gfycats[g] = "none" THEN gfycats
                  ELSE [gfycats EXCEPT ![g] = IF deleted THEN "deleted" ELSE "live"]
    /\ UNCHANGED <<feeds, relations, blockedGfycats, blockedUsers>>

BlockItem(g, block) ==
    /\ blockedGfycats' = IF block THEN blockedGfycats \union {g} ELSE blockedGfycats \ {g}
    /\ UNCHANGED <<feeds, relations, gfycats, blockedUsers>>

BlockUser(u, block) ==
    /\ blockedUsers' = IF block THEN blockedUsers \union {u} ELSE blockedUsers \ {u}
    /\ UNCHANGED <<feeds, relations, gfycats, blockedGfycats>>

-----------------------------------------------------------------------------
(* What the database promises *)

DatabaseTypeOK ==
    /\ feeds \in [Feeds -> Rows \union {Absent}]
    /\ relations \subseteq Relations
    /\ gfycats \in [Items -> {"none", "live", "deleted"}]
    /\ blockedGfycats \subseteq Items
    /\ blockedUsers \subseteq Users

\* The tables have no constraint for it, but the order of a feed is always
\* defined and no gfycat is in it twice: saveFeedData gives each relation an
\* index of its own, whatever pages and new gfycats come, and in which order,
\* and a feed that is replaced leaves nothing to the one that gets its id.
OrderDefined ==
    \A r, s \in relations :
        r.feed = s.feed /\ (r.gfycat = s.gfycat \/ r.index = s.index) => r = s

\* No gap: all gfycats of the server's list that a feed's digest has passed are
\* in the feed, so that the page after the digest continues what is there.
\* Pages that are late, for a feed that was replaced, extended or closed
\* meanwhile, must not be added.
NoGap ==
    \A f \in PagedFeeds :
        feeds[f] # Absent /\ feeds[f].digest \notin {Null, Blank} =>
            \A i \in 1..feeds[f].digest.count :
                \E r \in relations :
                    /\ r.feed = feeds[f].id
                    /\ r.gfycat = Server[feeds[f].digest.snapshot][i]

\* the gfycat at position i of the list is not in it before
FirstIn(list, i) == \A k \in 1..(i - 1) : list[k] # list[i]

\* The gfycats a feed got by pages are in the order of the one server list its
\* digest goes through, until the list is at its end: each stands in what the
\* digest has passed of it, first behind all those before it.  Gfycats that came
\* as new ones stand before them, at indexes that are not positive.
PagesInOrder ==
    \A f \in PagedFeeds :
        feeds[f] # Absent /\ feeds[f].digest \notin {Null, Blank} /\ ~feeds[f].ended =>
            LET paged == {r \in relations : r.feed = feeds[f].id /\ r.index > 0}
                list == Server[feeds[f].digest.snapshot]
            IN  \A r \in paged : \E i \in 1..feeds[f].digest.count :
                    /\ list[i] = r.gfycat /\ FirstIn(list, i)
                    /\ \A s \in paged :
                           s.index < r.index => \E k \in 1..(i - 1) : list[k] = s.gfycat

===============================================================================
