------------------------------ MODULE MCFeedManager ------------------------------
(***************************************************************************)
(* One paged feed, seen on two screens, the recent feed and a single feed; *)
(* a server list that ends after a page, and then begins with another      *)
(* gfycat; two threads that make calls.                                    *)
(***************************************************************************)
EXTENDS FeedManager

CONSTANTS a, b, ann, bob, trending, t1, t2, s1, s2

MCItems == {a, b}
MCUsers == {ann, bob}
MCOwner == (a :> ann) @@ (b :> bob)
MCPagedFeeds == {trending}
MCSingleFeeds == {a}
MCServer == << <<a>>, <<b, a>> >>
MCThreads == {t1, t2}
MCScreens == {s1, s2}
MCFeedOf == (s1 :> trending) @@ (s2 :> trending)
Symmetry == Permutations(MCThreads) \union Permutations(MCScreens)
==================================================================================
