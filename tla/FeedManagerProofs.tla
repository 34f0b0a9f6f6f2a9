--------------------------- MODULE FeedManagerProofs ---------------------------
(***************************************************************************)
(* For any gfycats, feeds, server lists, threads and screens: the order of *)
(* a feed is defined, it has all that its digest has passed, in the order  *)
(* of the server, and what a screen shows that was told is current.        *)
(*                                                                         *)
(* What a page does to a feed is a fold over its gfycats; the first half   *)
(* says what the relations are after each of them.                         *)
(***************************************************************************)
EXTENDS FeedManager, SequenceTheorems, WellFoundedInduction, TLAPS

(* Induction and extremes, from the well-foundedness of the natural numbers. *)

Below == {p \in Nat \X Nat : p[1] < p[2]}

LEMMA NoDescent == IsWellFoundedOn(Below, Nat)
<1>1. OpToRel(<, Nat) = Below
  BY DEF OpToRel, Below
<1> QED BY <1>1, NatLessThanWellFounded

LEMMA LeastOf ==
    ASSUME NEW S \in SUBSET Nat, S # {}
    PROVE  \E x \in S : \A y \in S : x <= y
<1>1. PICK x \in S : \A y \in S : <<y, x>> \notin Below
  BY NoDescent, WFMin
<1>2. ASSUME NEW y \in S PROVE x <= y
  <2>1. y < x => <<y, x>> \in Below
    BY DEF Below
  <2>2. ~ (y < x)
    BY <1>1, <2>1
  <2> QED BY <2>2
<1> QED BY <1>2

LEMMA Induction ==
    ASSUME NEW P \in SUBSET Nat, 0 \in P, \A n \in P : n + 1 \in P
    PROVE  P = Nat
<1> DEFINE C == Nat \ P
<1> SUFFICES ASSUME C # {} PROVE FALSE
  OBVIOUS
<1>1. PICK x \in C : \A y \in C : x <= y
  BY LeastOf
<1>2. x # 0 /\ x - 1 \in Nat /\ x - 1 < x
  BY <1>1
<1>3. x - 1 \in P
  BY <1>1, <1>2
<1> QED BY <1>1, <1>2, <1>3

LEMMA MaxIs ==
    ASSUME NEW S \in SUBSET Int, S # {}, NEW b \in Int, \A x \in S : x <= b
    PROVE  Max(S) \in S /\ \A x \in S : x <= Max(S)
<1> DEFINE D == {n \in Nat : b - n \in S}
<1>1. D # {}
  <2>1. PICK x \in S : TRUE
    OBVIOUS
  <2>2. b - x \in Nat /\ b - (b - x) = x
    OBVIOUS
  <2> QED BY <2>1, <2>2
<1>2. PICK n \in D : \A m \in D : n <= m
  BY <1>1, LeastOf
<1>3. ASSUME NEW x \in S PROVE b - n >= x
  <2>1. b - x \in Nat /\ b - (b - x) = x
    OBVIOUS
  <2> QED BY <1>2, <2>1
<1>4. b - n \in S
  BY <1>2
<1>5. \E x \in S : \A y \in S : x >= y
  BY <1>3, <1>4
<1>6. Max(S) \in S /\ \A y \in S : Max(S) >= y
  BY <1>5 DEF Max
<1> QED BY <1>6

LEMMA MinIs ==
    ASSUME NEW S \in SUBSET Int, S # {}, NEW b \in Int, \A x \in S : b <= x
    PROVE  Min(S) \in S /\ \A x \in S : Min(S) <= x
<1> DEFINE D == {n \in Nat : b + n \in S}
<1>1. D # {}
  <2>1. PICK x \in S : TRUE
    OBVIOUS
  <2>2. x - b \in Nat /\ b + (x - b) = x
    OBVIOUS
  <2> QED BY <2>1, <2>2
<1>2. PICK n \in D : \A m \in D : n <= m
  BY <1>1, LeastOf
<1>3. ASSUME NEW x \in S PROVE b + n <= x
  <2>1. x - b \in Nat /\ b + (x - b) = x
    OBVIOUS
  <2> QED BY <1>2, <2>1
<1>4. b + n \in S
  BY <1>2
<1>5. \E x \in S : \A y \in S : x <= y
  BY <1>3, <1>4
<1>6. Min(S) \in S /\ \A y \in S : Min(S) <= y
  BY <1>5 DEF Min
<1> QED BY <1>6

--------------------------------------------------------------------------------
(* The fold *)

\* The fold over the gfycats whose positions are in s, it being known for smaller s.
FoldedTo(id, list, base, step, replace, iter, s) ==
    IF s = {} THEN base
    ELSE InsertRelation(iter[s \ {Max(s)}], id, list[Max(s)], step, replace)

Folding(id, list, base, step, replace, iter, n) ==
    iter = [s \in SUBSET (1..n) |-> FoldedTo(id, list, base, step, replace, iter, s)]

LEMMA FoldExists ==
    ASSUME NEW id, NEW list, NEW base, NEW step, NEW replace, NEW n \in Nat
    PROVE  \E iter : Folding(id, list, base, step, replace, iter, n)
<1> DEFINE To(iter, s) == FoldedTo(id, list, base, step, replace, iter, s)
           Is(iter, m) == Folding(id, list, base, step, replace, iter, m)
           P == {m \in Nat : \E iter : Is(iter, m)}
<1>1. 0 \in P
  <2>1. Is([s \in SUBSET (1..0) |-> base], 0)
    BY DEF Folding, FoldedTo
  <2> QED BY <2>1
<1>2. ASSUME NEW m \in Nat, NEW iter, Is(iter, m)
      PROVE  \E more : Is(more, m + 1)
  <2> DEFINE more == [s \in SUBSET (1..(m + 1)) |->
                         IF m + 1 \in s THEN To(iter, s) ELSE iter[s]]
  <2>1. ASSUME NEW s \in SUBSET (1..(m + 1)) PROVE more[s] = To(more, s)
    <3>1. CASE s = {}
      <4>1. s \in SUBSET (1..m) /\ m + 1 \notin s
        BY <3>1
      <4>2. iter[s] = base
        BY <1>2, <3>1, <4>1 DEF Folding, FoldedTo
      <4> QED BY <3>1, <4>1, <4>2 DEF FoldedTo
    <3>2. CASE s # {}
      <4>1. s \in SUBSET Int /\ \A x \in s : x <= m + 1
        OBVIOUS
      <4>2. Max(s) \in s /\ \A x \in s : x <= Max(s)
        BY <3>2, <4>1, MaxIs
      <4> DEFINE rest == s \ {Max(s)}
      <4>3. rest \in SUBSET (1..m)
        <5>1. ASSUME NEW x \in rest PROVE x \in 1..m
          <6>1. x \in 1..(m + 1) /\ Max(s) \in 1..(m + 1) /\ x <= Max(s) /\ x # Max(s)
            BY <4>2
          <6> HIDE DEF rest
          <6> QED BY <6>1
        <5> QED BY <5>1
      <4>4. rest \in SUBSET (1..(m + 1)) /\ m + 1 \notin rest
        BY <4>3
      <4>5. more[rest] = iter[rest]
        BY <4>4
      <4>6. To(more, s) = To(iter, s)
        BY <4>5 DEF FoldedTo
      <4>7. m + 1 \notin s => s \in SUBSET (1..m)
        OBVIOUS
      <4>8. m + 1 \notin s => iter[s] = To(iter, s)
        BY <1>2, <4>7 DEF Folding
      <4> QED BY <4>6, <4>8
    <3> QED BY <3>1, <3>2
  <2>2. Is(more, m + 1)
    BY <2>1 DEF Folding
  <2> QED BY <2>2
<1>3. \A m \in P : m + 1 \in P
  BY <1>2
<1> HIDE DEF P
<1>4. P = Nat
  BY <1>1, <1>3, Induction DEF P
<1> QED BY <1>4 DEF P

\* The relations, and the index given last, after each of the first gfycats.
Chain(c, rels, id, list, start, step, replace) ==
    /\ c[0] = [rels |-> rels, last |-> start]
    /\ \A n \in 0..(Len(list) - 1) :
           c[n + 1] = InsertRelation(c[n], id, list[n + 1], step, replace)

LEMMA SavingIsChain ==
    ASSUME NEW rels, NEW id, NEW list \in Seq(Items), NEW start, NEW step, NEW replace \in BOOLEAN
    PROVE  \E c : /\ Chain(c, rels, id, list, start, step, replace)
                  /\ SaveGfycats(rels, id, list, start, step, replace) = c[Len(list)].rels
<1> DEFINE base == [rels |-> rels, last |-> start]
           iter == CHOOSE f : Folding(id, list, base, step, replace, f, Len(list))
           c == [n \in 0..Len(list) |-> iter[1..n]]
<1>1. DOMAIN list = 1..Len(list) /\ Len(list) \in Nat
  OBVIOUS
<1>2. Folding(id, list, base, step, replace, iter, Len(list))
  <2> HIDE DEF base
  <2>1. \E f : Folding(id, list, base, step, replace, f, Len(list))
    BY <1>1, FoldExists
  <2> QED BY <2>1
<1>3. SaveGfycats(rels, id, list, start, step, replace) = iter[1..Len(list)].rels
  BY <1>1 DEF SaveGfycats, FoldLeft, MapThenFoldSet, Folding, FoldedTo
<1> HIDE DEF iter, base
<1>4. c[0] = base
  <2>1. 1..0 = {} /\ 1..0 \in SUBSET (1..Len(list)) /\ 0 \in 0..Len(list)
    BY <1>1
  <2>2. iter[1..0] = base
    BY <1>2, <2>1 DEF Folding, FoldedTo
  <2> QED BY <2>1, <2>2
<1>5. ASSUME NEW n \in 0..(Len(list) - 1)
      PROVE  c[n + 1] = InsertRelation(c[n], id, list[n + 1], step, replace)
  <2>1. /\ n \in 0..Len(list) /\ n + 1 \in 0..Len(list) /\ n + 1 \in Int
        /\ 1..(n + 1) \in SUBSET (1..Len(list)) /\ n + 1 \in 1..(n + 1)
    BY <1>1
  <2>2. Max(1..(n + 1)) = n + 1
    <3> DEFINE s == 1..(n + 1)
    <3>1. s \in SUBSET Int /\ s # {} /\ \A x \in s : x <= n + 1
      <4>1. n \in Nat
        OBVIOUS
      <4>2. \A x \in s : x \in Int /\ x <= n + 1
        BY <4>1
      <4>3. n + 1 \in s
        BY <2>1
      <4> HIDE DEF s
      <4> QED BY <4>2, <4>3
    <3> HIDE DEF s
    <3>2. Max(s) \in s /\ \A x \in s : x <= Max(s)
      BY <2>1, <3>1, MaxIs
    <3> QED BY <2>1, <3>1, <3>2 DEF s
  <2>3. (1..(n + 1)) \ {n + 1} = 1..n
    OBVIOUS
  <2>4. 1..(n + 1) # {}
    BY <2>1
  <2>5. iter[1..(n + 1)] = InsertRelation(iter[1..n], id, list[n + 1], step, replace)
    BY <1>2, <2>1, <2>2, <2>3, <2>4 DEF Folding, FoldedTo
  <2> QED BY <2>1, <2>5
<1>6. c[Len(list)] = iter[1..Len(list)]
  BY <1>1
<1>7. Chain(c, rels, id, list, start, step, replace)
  BY <1>4, <1>5 DEF Chain, base
<1> QED BY <1>3, <1>6, <1>7

--------------------------------------------------------------------------------
(* Relations *)

\* The feed with this id has this gfycat.
Has(rels, id, g) == \E r \in rels : r.feed = id /\ r.gfycat = g

Ordered(rels) ==
    \A r, s \in rels : r.feed = s.feed /\ (r.gfycat = s.gfycat \/ r.index = s.index) => r = s

Bounded(rels) == \E b \in Nat : \A r \in rels : -b <= r.index /\ r.index <= b

\* No feed begins behind index 1, so that what is put before it has none that is positive.
Low(rels) == \A r \in rels : \E q \in rels : q.feed = r.feed /\ q.index <= 1

Sound(rels) == rels \subseteq Relations /\ Ordered(rels) /\ Bounded(rels) /\ Low(rels)

\* The relations at, after the first n gfycats of a page went behind rels.
Appended(at, rels, id, list, n) ==
    /\ at.last \in Int /\ MaxIndex(rels, id) <= at.last
    /\ rels \subseteq at.rels
    /\ Sound(at.rels)
    /\ \A r \in at.rels : r.feed = id => r.index <= at.last
    /\ (\A r \in at.rels : r.feed # id) => at.last = 0
    /\ \A i \in 1..n : Has(at.rels, id, list[i])
    /\ \A r \in at.rels \ rels :
           /\ r.feed = id /\ MaxIndex(rels, id) < r.index /\ ~ Has(rels, id, r.gfycat)
           /\ \E i \in 1..n :
                  /\ list[i] = r.gfycat /\ FirstIn(list, i)
                  /\ \A s \in at.rels :
                         s.feed = id /\ s.index < r.index
                             => s \in rels \/ \E k \in 1..(i - 1) : list[k] = s.gfycat

\* The relations at, after new gfycats went before rels.
Prepended(at, rels, id) ==
    /\ at.last \in Int /\ at.last <= 1
    /\ Sound(at.rels)
    /\ \A r \in at.rels : r.feed = id => at.last <= r.index
    /\ \A r \in at.rels \ rels : r.feed = id /\ r.index <= 0
    /\ \A r \in rels : r.feed # id => r \in at.rels
    /\ \A g \in Items : Has(rels, id, g) => Has(at.rels, id, g)

LEMMA MaxIndexIs ==
    ASSUME NEW rels, NEW id, Sound(rels)
    PROVE  /\ MaxIndex(rels, id) \in Int
           /\ \A r \in rels : r.feed = id => r.index <= MaxIndex(rels, id)
           /\ (\A r \in rels : r.feed # id) => MaxIndex(rels, id) = 0
<1> DEFINE S == IndexesOf(rels, id)
<1>1. PICK b \in Nat : \A r \in rels : -b <= r.index /\ r.index <= b
  BY DEF Sound, Bounded
<1>2. S \in SUBSET Int /\ b \in Int /\ \A x \in S : x <= b
  BY <1>1 DEF IndexesOf, Sound, Relations
<1>3. \A r \in rels : r.feed = id => r.index \in S
  BY DEF IndexesOf
<1>4. (\A r \in rels : r.feed # id) => S = {}
  BY DEF IndexesOf
<1> HIDE DEF S
<1>5. CASE S = {}
  BY <1>3, <1>5 DEF MaxIndex, S
<1>6. CASE S # {}
  <2>1. Max(S) \in S /\ \A x \in S : x <= Max(S)
    BY <1>2, <1>6, MaxIs
  <2>2. MaxIndex(rels, id) = Max(S)
    BY <1>6 DEF MaxIndex, S
  <2> QED BY <1>2, <1>3, <1>4, <1>6, <2>1, <2>2
<1> QED BY <1>5, <1>6

LEMMA MinIndexIs ==
    ASSUME NEW rels, NEW id, Sound(rels)
    PROVE  /\ MinIndex(rels, id) \in Int /\ MinIndex(rels, id) <= 1
           /\ \A r \in rels : r.feed = id => MinIndex(rels, id) <= r.index
<1> DEFINE S == IndexesOf(rels, id)
<1>1. PICK b \in Nat : \A r \in rels : -b <= r.index /\ r.index <= b
  BY DEF Sound, Bounded
<1>2. S \in SUBSET Int /\ -b \in Int /\ \A x \in S : -b <= x
  BY <1>1 DEF IndexesOf, Sound, Relations
<1>3. \A r \in rels : r.feed = id => r.index \in S
  BY DEF IndexesOf
<1>4. S # {} => \E x \in S : x <= 1
  <2>1. ASSUME S # {} PROVE \E x \in S : x <= 1
    <3>1. PICK r \in rels : r.feed = id
      BY <2>1 DEF IndexesOf
    <3>2. PICK q \in rels : q.feed = id /\ q.index <= 1
      BY <3>1 DEF Sound, Low
    <3> QED BY <1>3, <3>2
  <2> QED BY <2>1
<1> HIDE DEF S
<1>5. CASE S = {}
  BY <1>3, <1>5 DEF MinIndex, S
<1>6. CASE S # {}
  <2>1. Min(S) \in S /\ \A x \in S : Min(S) <= x
    BY <1>2, <1>6, MinIs
  <2>2. MinIndex(rels, id) = Min(S)
    BY <1>6 DEF MinIndex, S
  <2>3. PICK x \in S : x <= 1
    BY <1>4, <1>6
  <2>4. Min(S) \in Int /\ x \in Int /\ Min(S) <= x
    BY <1>2, <2>1
  <2>5. Min(S) <= 1
    BY <2>3, <2>4
  <2> QED BY <1>3, <2>1, <2>2, <2>4, <2>5
<1> QED BY <1>5, <1>6

\* An index at either end of those of its feed keeps the relations sound.
LEMMA WithEntry ==
    ASSUME NEW rels, Sound(rels), NEW id \in Nat \ {0}, NEW g \in Items, NEW x \in Int,
           ~ Has(rels, id, g), \A r \in rels : r.feed = id => r.index # x,
           x <= 1 \/ \E r \in rels : r.feed = id
    PROVE  Sound(rels \union {[feed |-> id, gfycat |-> g, index |-> x]})
<1> DEFINE e == [feed |-> id, gfycat |-> g, index |-> x]
           more == rels \union {e}
<1>1. e \in Relations /\ e.feed = id /\ e.gfycat = g /\ e.index = x
  BY DEF Relations
<1> HIDE DEF e
<1>2. more \subseteq Relations
  BY <1>1 DEF Sound
<1>3. Ordered(more)
  BY <1>1 DEF Sound, Ordered, Has
<1>4. Bounded(more)
  <2>1. PICK b \in Nat : \A r \in rels : -b <= r.index /\ r.index <= b
    BY DEF Sound, Bounded
  <2>2. PICK d \in Nat : -d <= x /\ x <= d
    <3>1. CASE x >= 0
      BY <3>1
    <3>2. CASE x < 0
      <4>1. -x \in Nat /\ -(-x) = x /\ x <= -x
        BY <3>2
      <4> QED BY <4>1
    <3> QED BY <3>1, <3>2
  <2>3. ASSUME NEW r \in more PROVE -(b + d) <= r.index /\ r.index <= b + d
    <3>1. CASE r = e
      BY <1>1, <2>2, <3>1
    <3>2. CASE r \in rels
      <4>1. r.index \in Int
        BY <3>2 DEF Sound, Relations
      <4>2. -b <= r.index /\ r.index <= b
        BY <2>1, <3>2
      <4> QED BY <4>1, <4>2
    <3> QED BY <3>1, <3>2
  <2>4. b + d \in Nat
    OBVIOUS
  <2> QED BY <2>3, <2>4 DEF Bounded
<1>5. Low(more)
  <2>1. ASSUME NEW r \in rels PROVE \E q \in more : q.feed = r.feed /\ q.index <= 1
    BY DEF Sound, Low
  <2>2. \E q \in more : q.feed = e.feed /\ q.index <= 1
    BY <1>1, <2>1
  <2> QED BY <2>1, <2>2 DEF Low
<1> QED BY <1>2, <1>3, <1>4, <1>5 DEF Sound, e

LEMMA AppendStep ==
    ASSUME NEW rels, NEW id \in Nat \ {0}, NEW list \in Seq(Items), Sound(rels),
           NEW n \in 0..(Len(list) - 1), NEW at, Appended(at, rels, id, list, n)
    PROVE  Appended(InsertRelation(at, id, list[n + 1], 1, FALSE), rels, id, list, n + 1)
<1> DEFINE g == list[n + 1]
           next == InsertRelation(at, id, g, 1, FALSE)
           x == at.last + 1
           e == [feed |-> id, gfycat |-> g, index |-> x]
           Placed(r, all, m) ==
               \E i \in 1..m :
                   /\ list[i] = r.gfycat /\ FirstIn(list, i)
                   /\ \A s \in all :
                          s.feed = id /\ s.index < r.index
                              => s \in rels \/ \E k \in 1..(i - 1) : list[k] = s.gfycat
<1>1. n \in Nat /\ n + 1 \in 1..Len(list) /\ g \in Items
  OBVIOUS
<1>2. \A i \in 1..(n + 1) : i = n + 1 \/ i \in 1..n
  BY <1>1
<1>3. CASE Has(at.rels, id, g)
  <2>1. next = at
    BY <1>3 DEF InsertRelation, Has
  <2>2. \A i \in 1..(n + 1) : Has(at.rels, id, list[i])
    BY <1>2, <1>3 DEF Appended
  <2>3. \A i \in 1..n : i \in 1..(n + 1)
    BY <1>1
  <2>4. ASSUME NEW r \in at.rels \ rels
        PROVE  /\ r.feed = id /\ MaxIndex(rels, id) < r.index /\ ~ Has(rels, id, r.gfycat)
               /\ Placed(r, at.rels, n + 1)
    <3>1. /\ r.feed = id /\ MaxIndex(rels, id) < r.index /\ ~ Has(rels, id, r.gfycat)
          /\ Placed(r, at.rels, n)
      BY DEF Appended
    <3> QED BY <2>3, <3>1
  <2>5. Appended(at, rels, id, list, n + 1)
    BY <2>2, <2>4 DEF Appended
  <2> QED BY <2>1, <2>5
<1>4. CASE ~ Has(at.rels, id, g)
  <2>1. next = [rels |-> at.rels \union {e}, last |-> x]
    BY <1>4 DEF InsertRelation, Has
  <2>2. x \in Int /\ MaxIndex(rels, id) \in Int /\ at.last \in Int /\ x = at.last + 1
    BY MaxIndexIs DEF Appended
  <2>3. \A r \in at.rels : r.index \in Int
    BY DEF Appended, Sound, Relations
  <2>4. e.feed = id /\ e.gfycat = g /\ e.index = x
    OBVIOUS
  <2> DEFINE more == at.rels \union {e}
  <2> HIDE DEF x, e
  <2>5. Sound(more)
    <3>1. \A r \in at.rels : r.feed = id => r.index # x
      BY <2>2, <2>3 DEF Appended
    <3>2. x <= 1 \/ \E r \in at.rels : r.feed = id
      BY <2>2 DEF Appended
    <3> QED BY <1>1, <1>4, <2>2, <3>1, <3>2, WithEntry DEF Appended, e
  <2>6. /\ MaxIndex(rels, id) <= x /\ rels \subseteq more
        /\ \A r \in more : r.feed = id => r.index <= x
        /\ ~ \A r \in more : r.feed # id
    BY <2>2, <2>3, <2>4 DEF Appended
  <2>7. \A i \in 1..(n + 1) : Has(more, id, list[i])
    BY <1>2, <2>4 DEF Appended, Has
  <2>8. ASSUME NEW r \in more \ rels
        PROVE  /\ r.feed = id /\ MaxIndex(rels, id) < r.index /\ ~ Has(rels, id, r.gfycat)
               /\ Placed(r, more, n + 1)
    <3>1. CASE r = e
      <4>1. r.feed = id /\ MaxIndex(rels, id) < r.index /\ ~ Has(rels, id, r.gfycat)
        BY <1>4, <2>2, <2>4, <3>1 DEF Appended, Has
      <4>2. FirstIn(list, n + 1)
        <5>1. \A k \in 1..n : list[k] # g
          BY <1>4 DEF Appended
        <5>2. (n + 1) - 1 = n
          BY <1>1
        <5> QED BY <5>1, <5>2 DEF FirstIn
      <4>3. ASSUME NEW s \in more, s.feed = id, s.index < r.index, s \notin rels
            PROVE  \E k \in 1..((n + 1) - 1) : list[k] = s.gfycat
        <5>1. s \in at.rels
          BY <2>2, <2>4, <3>1, <4>3
        <5>2. \E k \in 1..n : list[k] = s.gfycat
          BY <4>3, <5>1 DEF Appended
        <5>3. (n + 1) - 1 = n
          BY <1>1
        <5> QED BY <5>2, <5>3
      <4>4. n + 1 \in 1..(n + 1) /\ list[n + 1] = r.gfycat
        BY <1>1, <2>4, <3>1
      <4> QED BY <4>1, <4>2, <4>3, <4>4
    <3>2. CASE r \in at.rels
      <4>1. /\ r.feed = id /\ MaxIndex(rels, id) < r.index /\ ~ Has(rels, id, r.gfycat)
            /\ Placed(r, at.rels, n)
        BY <3>2 DEF Appended
      <4>2. ~ (e.index < r.index)
        BY <2>2, <2>3, <2>4, <3>2, <4>1 DEF Appended
      <4>3. \A i \in 1..n : i \in 1..(n + 1)
        BY <1>1
      <4> QED BY <4>1, <4>2, <4>3
    <3> QED BY <3>1, <3>2
  <2>9. Appended([rels |-> more, last |-> x], rels, id, list, n + 1)
    <3> DEFINE to == [rels |-> more, last |-> x]
    <3>1. to.rels = more /\ to.last = x
      OBVIOUS
    <3> HIDE DEF to, more
    <3>2. Appended(to, rels, id, list, n + 1)
      BY <2>2, <2>5, <2>6, <2>7, <2>8, <3>1 DEF Appended
    <3> QED BY <3>2 DEF to
  <2> QED BY <2>1, <2>9
<1> QED BY <1>3, <1>4

LEMMA PrependStep ==
    ASSUME NEW rels, NEW id \in Nat \ {0}, NEW g \in Items,
           NEW at, Prepended(at, rels, id)
    PROVE  Prepended(InsertRelation(at, id, g, -1, TRUE), rels, id)
<1> DEFINE old == {r \in at.rels : r.feed = id /\ r.gfycat = g}
           rest == at.rels \ old
           x == at.last + -1
           e == [feed |-> id, gfycat |-> g, index |-> x]
           more == rest \union {e}
<1>1. InsertRelation(at, id, g, -1, TRUE) = [rels |-> more, last |-> x]
  BY DEF InsertRelation
<1>2. x \in Int /\ at.last \in Int /\ x < at.last /\ x <= 0
  BY DEF Prepended
<1>3. e \in Relations /\ e.feed = id /\ e.gfycat = g /\ e.index = x
  BY <1>2 DEF Relations
<1>4. /\ \A r \in at.rels : r \in rest \/ (r.feed = id /\ r.gfycat = g)
      /\ rest \subseteq at.rels /\ ~ Has(rest, id, g)
  BY DEF Has
<1>5. \A r \in at.rels : r.index \in Int
  BY DEF Prepended, Sound, Relations
<1> HIDE DEF rest, x, e
<1>6. Sound(more)
  <2>1. more \subseteq Relations
    BY <1>3, <1>4 DEF Prepended, Sound
  <2>2. Ordered(more)
    <3>1. \A r \in rest : r.feed = id => r.index # x
      BY <1>2, <1>4, <1>5 DEF Prepended
    <3> QED BY <1>3, <1>4, <3>1 DEF Prepended, Sound, Ordered, Has
  <2>3. Bounded(more)
    <3>1. PICK b \in Nat : \A r \in at.rels : -b <= r.index /\ r.index <= b
      BY DEF Prepended, Sound, Bounded
    <3>2. -x \in Nat /\ -(-x) = x /\ x <= -x
      BY <1>2
    <3> DEFINE d == -x
    <3>3. d \in Nat /\ -d <= x /\ x <= d
      BY <1>2, <3>2
    <3> HIDE DEF d
    <3>4. ASSUME NEW r \in more PROVE -(b + d) <= r.index /\ r.index <= b + d
      <4>1. CASE r = e
        BY <1>2, <1>3, <3>3, <4>1
      <4>2. CASE r \in rest
        <5>1. r.index \in Int /\ -b <= r.index /\ r.index <= b
          BY <1>4, <1>5, <3>1, <4>2
        <5> QED BY <3>3, <5>1
      <4> QED BY <4>1, <4>2
    <3>5. b + d \in Nat
      BY <3>3
    <3> QED BY <3>4, <3>5 DEF Bounded
  <2>4. Low(more)
    <3>1. ASSUME NEW r \in more PROVE \E q \in more : q.feed = r.feed /\ q.index <= 1
      <4>1. CASE r.feed = id
        BY <1>2, <1>3, <4>1
      <4>2. CASE r.feed # id
        <5>1. r \in at.rels
          BY <1>3, <1>4, <4>2
        <5>2. PICK q \in at.rels : q.feed = r.feed /\ q.index <= 1
          BY <5>1 DEF Prepended, Sound, Low
        <5>3. q \in rest
          BY <1>4, <4>2, <5>2
        <5> QED BY <5>2, <5>3
      <4> QED BY <4>1, <4>2
    <3> QED BY <3>1 DEF Low
  <2> QED BY <2>1, <2>2, <2>3, <2>4 DEF Sound
<1>7. \A r \in more : r.feed = id => x <= r.index
  BY <1>2, <1>3, <1>4, <1>5 DEF Prepended
<1>8. \A r \in more \ rels : r.feed = id /\ r.index <= 0
  BY <1>2, <1>3, <1>4 DEF Prepended
<1>9. \A r \in rels : r.feed # id => r \in more
  BY <1>4 DEF Prepended
<1>10. \A k \in Items : Has(rels, id, k) => Has(more, id, k)
  BY <1>3, <1>4 DEF Prepended, Has
<1>11. x <= 1
  BY <1>2
<1>12. Prepended([rels |-> more, last |-> x], rels, id)
  BY <1>2, <1>6, <1>7, <1>8, <1>9, <1>10, <1>11 DEF Prepended
<1> QED BY <1>1, <1>12

LEMMA AppendAll ==
    ASSUME NEW rels, NEW id \in Nat \ {0}, NEW list \in Seq(Items), Sound(rels)
    PROVE  \E at : /\ Appended(at, rels, id, list, Len(list))
                   /\ SaveGfycats(rels, id, list, MaxIndex(rels, id), 1, FALSE) = at.rels
<1> DEFINE start == MaxIndex(rels, id)
<1>1. PICK c : /\ Chain(c, rels, id, list, start, 1, FALSE)
               /\ SaveGfycats(rels, id, list, start, 1, FALSE) = c[Len(list)].rels
  <2>1. PICK replace \in BOOLEAN : replace = FALSE
    OBVIOUS
  <2>2. PICK step : step = 1
    OBVIOUS
  <2>3. \E c : /\ Chain(c, rels, id, list, start, step, replace)
               /\ SaveGfycats(rels, id, list, start, step, replace) = c[Len(list)].rels
    BY SavingIsChain
  <2> QED BY <2>1, <2>2, <2>3
<1> DEFINE P == {n \in Nat : n <= Len(list) => Appended(c[n], rels, id, list, n)}
<1>2. 0 \in P
  <2>1. c[0] = [rels |-> rels, last |-> start]
    BY <1>1 DEF Chain
  <2>2. c[0].rels = rels /\ c[0].last = start
    BY <2>1
  <2>3. Appended(c[0], rels, id, list, 0)
    BY <2>2, MaxIndexIs DEF Appended
  <2> QED BY <2>3
<1>3. ASSUME NEW n \in P PROVE n + 1 \in P
  <2>1. ASSUME n + 1 <= Len(list) PROVE Appended(c[n + 1], rels, id, list, n + 1)
    <3>1. n \in 0..(Len(list) - 1) /\ n <= Len(list)
      BY <2>1
    <3>2. c[n + 1] = InsertRelation(c[n], id, list[n + 1], 1, FALSE)
      BY <1>1, <3>1 DEF Chain
    <3>3. Appended(c[n], rels, id, list, n)
      BY <3>1
    <3> HIDE DEF P
    <3> QED BY <3>1, <3>2, <3>3, AppendStep
  <2> QED BY <2>1
<1> HIDE DEF P
<1>4. P \in SUBSET Nat
  BY DEF P
<1>5. P = Nat
  BY <1>2, <1>3, <1>4, Induction
<1>6. Appended(c[Len(list)], rels, id, list, Len(list))
  <2>1. Len(list) \in P /\ Len(list) <= Len(list)
    BY <1>5
  <2> QED BY <2>1 DEF P
<1> QED BY <1>1, <1>6

LEMMA SavingDown ==
    ASSUME NEW rels, NEW id, NEW list \in Seq(Items), NEW start
    PROVE  \E c : /\ Chain(c, rels, id, list, start, -1, TRUE)
                  /\ SaveGfycats(rels, id, list, start, -1, TRUE) = c[Len(list)].rels
<1>1. PICK replace \in BOOLEAN : replace = TRUE
  OBVIOUS
<1>2. PICK step : step = -1
  OBVIOUS
<1>3. \E c : /\ Chain(c, rels, id, list, start, step, replace)
             /\ SaveGfycats(rels, id, list, start, step, replace) = c[Len(list)].rels
  BY SavingIsChain
<1> QED BY <1>1, <1>2, <1>3

LEMMA PrependAll ==
    ASSUME NEW rels, NEW id \in Nat \ {0}, NEW list \in Seq(Items), Sound(rels),
           NEW start \in Int, start <= 1, \A r \in rels : r.feed = id => start <= r.index
    PROVE  \E at : /\ Prepended(at, rels, id)
                   /\ SaveGfycats(rels, id, list, start, -1, TRUE) = at.rels
<1>1. PICK c : /\ Chain(c, rels, id, list, start, -1, TRUE)
               /\ SaveGfycats(rels, id, list, start, -1, TRUE) = c[Len(list)].rels
  BY SavingDown
<1> DEFINE P == {n \in Nat : n <= Len(list) => Prepended(c[n], rels, id)}
<1>2. 0 \in P
  <2>1. c[0] = [rels |-> rels, last |-> start]
    BY <1>1 DEF Chain
  <2>2. c[0].rels = rels /\ c[0].last = start
    BY <2>1
  <2>3. Prepended(c[0], rels, id)
    BY <2>2 DEF Prepended
  <2> QED BY <2>3
<1>3. ASSUME NEW n \in P PROVE n + 1 \in P
  <2>1. ASSUME n + 1 <= Len(list) PROVE Prepended(c[n + 1], rels, id)
    <3>1. n \in 0..(Len(list) - 1) /\ n <= Len(list) /\ list[n + 1] \in Items
      BY <2>1
    <3>2. c[n + 1] = InsertRelation(c[n], id, list[n + 1], -1, TRUE)
      BY <1>1, <3>1 DEF Chain
    <3>3. Prepended(c[n], rels, id)
      BY <3>1
    <3> HIDE DEF P
    <3> QED BY <3>1, <3>2, <3>3, PrependStep
  <2> QED BY <2>1
<1> HIDE DEF P
<1>4. P \in SUBSET Nat
  BY DEF P
<1>5. P = Nat
  BY <1>2, <1>3, <1>4, Induction
<1>6. Prepended(c[Len(list)], rels, id)
  <2>1. Len(list) \in P /\ Len(list) <= Len(list)
    BY <1>5
  <2> QED BY <2>1 DEF P
<1> QED BY <1>1, <1>6

\* What saving a page and new gfycats does to the relations of a feed: the order
\* stays defined, no gfycat is lost, and what is new at a positive index is of
\* the page, in its order, behind all there was.
Saves(saved, rels, id, items) ==
    /\ Sound(saved)
    /\ \A r \in rels : r.feed # id => r \in saved
    /\ \A r \in saved : r.feed # id => r \in rels
    /\ \A g \in Items : Has(rels, id, g) => Has(saved, id, g)
    /\ \A i \in 1..Len(items) : Has(saved, id, items[i])
    /\ \A r \in saved :
           r.feed = id /\ r.index > 0 /\ r \notin rels =>
               /\ ~ Has(rels, id, r.gfycat)
               /\ \A s \in rels : s.feed = id => s.index < r.index
               /\ \E i \in 1..Len(items) :
                      /\ items[i] = r.gfycat /\ FirstIn(items, i)
                      /\ \A s \in saved :
                             s.feed = id /\ s.index > 0 /\ s.index < r.index
                                 => s \in rels \/ \E k \in 1..(i - 1) : items[k] = s.gfycat

LEMMA SaveFacts ==
    ASSUME NEW rels, NEW id \in Nat \ {0}, NEW list,
           list.items \in Seq(Items), list.new \in Seq(Items), Sound(rels)
    PROVE  Saves(SaveFeedData(rels, id, list), rels, id, list.items)
<1> DEFINE start == MinIndex(rels, id)
           saved == SaveFeedData(rels, id, list)
<1>1. PICK mid : /\ Appended(mid, rels, id, list.items, Len(list.items))
                 /\ SaveGfycats(rels, id, list.items, MaxIndex(rels, id), 1, FALSE) = mid.rels
  BY AppendAll
<1>2. /\ start \in Int /\ start <= 1
      /\ \A r \in rels : r.feed = id => start <= r.index
  BY MinIndexIs
<1>3. /\ MaxIndex(rels, id) \in Int
      /\ \A r \in rels : r.feed = id => r.index <= MaxIndex(rels, id)
      /\ (\A r \in rels : r.feed # id) => MaxIndex(rels, id) = 0
  BY MaxIndexIs
<1>4. \A r \in rels \union mid.rels : r.index \in Int
  BY <1>1 DEF Appended, Sound, Relations
<1>5. \A r \in mid.rels : r.feed = id => start <= r.index
  <2>1. ASSUME NEW r \in mid.rels, r.feed = id, r \notin rels PROVE start <= r.index
    <3>1. MaxIndex(rels, id) < r.index /\ r.index \in Int
      BY <1>1, <1>4, <2>1 DEF Appended
    <3>2. CASE \A s \in rels : s.feed # id
      <4>1. IndexesOf(rels, id) = {}
        BY <3>2 DEF IndexesOf
      <4>2. start = 0
        BY <4>1 DEF MinIndex
      <4> QED BY <1>3, <3>1, <3>2, <4>2
    <3>3. CASE ~ \A s \in rels : s.feed # id
      <4>1. PICK s \in rels : s.feed = id
        BY <3>3
      <4>2. start <= s.index /\ s.index <= MaxIndex(rels, id) /\ s.index \in Int
        BY <1>2, <1>3, <1>4, <4>1
      <4> HIDE DEF start
      <4> QED BY <1>2, <1>3, <3>1, <4>2
    <3> QED BY <3>2, <3>3
  <2> QED BY <1>2, <2>1
<1>6. Sound(mid.rels)
  BY <1>1 DEF Appended
<1> HIDE DEF start
<1>7. PICK at : /\ Prepended(at, mid.rels, id)
                /\ SaveGfycats(mid.rels, id, list.new, start, -1, TRUE) = at.rels
  BY <1>2, <1>5, <1>6, PrependAll
<1>8. saved = at.rels
  BY <1>1, <1>7 DEF SaveFeedData, start
<1> HIDE DEF saved
<1>9. rels \subseteq mid.rels /\ \A r \in mid.rels \ rels : r.feed = id
  BY <1>1 DEF Appended
<1>10. Sound(saved) /\ \A r \in saved : r.index \in Int
  BY <1>7, <1>8 DEF Prepended, Sound, Relations
<1>11. /\ \A r \in rels : r.feed # id => r \in saved
       /\ \A r \in saved : r.feed # id => r \in rels
  BY <1>7, <1>8, <1>9 DEF Prepended
<1>12. \A g \in Items : Has(rels, id, g) => Has(saved, id, g)
  BY <1>7, <1>8, <1>9 DEF Prepended, Has
<1>13. ASSUME NEW i \in 1..Len(list.items) PROVE Has(saved, id, list.items[i])
  <2>1. list.items[i] \in Items /\ Has(mid.rels, id, list.items[i])
    BY <1>1 DEF Appended
  <2> QED BY <1>7, <1>8, <2>1 DEF Prepended
<1>14. \A r \in saved : r.feed = id /\ r.index > 0 => r \in mid.rels
  BY <1>7, <1>8, <1>10 DEF Prepended
<1>15. ASSUME NEW r \in saved, r.feed = id, r.index > 0, r \notin rels
       PROVE  /\ ~ Has(rels, id, r.gfycat)
              /\ \A s \in rels : s.feed = id => s.index < r.index
              /\ \E i \in 1..Len(list.items) :
                     /\ list.items[i] = r.gfycat /\ FirstIn(list.items, i)
                     /\ \A s \in saved :
                            s.feed = id /\ s.index > 0 /\ s.index < r.index
                                => s \in rels \/ \E k \in 1..(i - 1) : list.items[k] = s.gfycat
  <2>1. r \in mid.rels \ rels
    BY <1>14, <1>15
  <2>2. /\ ~ Has(rels, id, r.gfycat) /\ MaxIndex(rels, id) < r.index
        /\ \E i \in 1..Len(list.items) :
               /\ list.items[i] = r.gfycat /\ FirstIn(list.items, i)
               /\ \A s \in mid.rels :
                      s.feed = id /\ s.index < r.index
                          => s \in rels \/ \E k \in 1..(i - 1) : list.items[k] = s.gfycat
    BY <1>1, <2>1 DEF Appended
  <2>3. \A s \in rels : s.feed = id => s.index < r.index
    BY <1>3, <1>4, <2>1, <2>2
  <2> QED BY <1>14, <2>2, <2>3
<1>16. Saves(saved, rels, id, list.items)
  BY <1>10, <1>11, <1>12, <1>13, <1>15 DEF Saves
<1> QED BY <1>16 DEF saved

--------------------------------------------------------------------------------
(* The database *)

\* The places in the server's lists that a digest stands for.
Places == {d \in [snapshot : Snapshots, count : Nat] : d.count <= Len(Server[d.snapshot])}

Known == Places \union {Null, Blank}
FeedRows == {row \in Rows : row.digest \in Known}

InUse(f) == feeds[f] # Absent

DatabaseTyping ==
    /\ feeds \in [Feeds -> FeedRows \union {Absent}]
    /\ gfycats \in [Items -> {"none", "live", "deleted"}]
    /\ blockedGfycats \subseteq Items /\ blockedUsers \subseteq Users

IdsBounded == \E b \in Nat : \A f \in Feeds : InUse(f) => feeds[f].id <= b

IdsDistinct == \A f, g \in Feeds : InUse(f) /\ InUse(g) /\ feeds[f].id = feeds[g].id => f = g

\* No relation is left of a feed that is gone, for a later one to inherit.
Owned == \A r \in relations : \E f \in Feeds : InUse(f) /\ feeds[f].id = r.feed

\* Only closeFeed writes the blank digest.
BlankEnded == \A f \in Feeds : InUse(f) /\ feeds[f].digest = Blank => feeds[f].ended

\* What PagesInOrder says of the feed with this id, up to this place of a list.
AllTo(rels, id, list, n) == \A i \in 1..n : Has(rels, id, list[i])

InOrderTo(rels, id, list, n) ==
    \A r \in rels :
        r.feed = id /\ r.index > 0 =>
            \E i \in 1..n :
                /\ list[i] = r.gfycat /\ FirstIn(list, i)
                /\ \A s \in rels :
                       s.feed = id /\ s.index > 0 /\ s.index < r.index
                           => \E k \in 1..(i - 1) : list[k] = s.gfycat

\* What a row of a paged feed promises of its relations.
Promised(row, rels) ==
    row.digest \notin {Null, Blank} =>
        LET list == Server[row.digest.snapshot]
        IN  /\ AllTo(rels, row.id, list, row.digest.count)
            /\ row.ended \/ InOrderTo(rels, row.id, list, row.digest.count)

DatabaseInv ==
    /\ DatabaseTyping /\ Sound(relations)
    /\ IdsBounded /\ IdsDistinct /\ Owned /\ BlankEnded
    /\ \A f \in PagedFeeds : InUse(f) => Promised(feeds[f], relations)

LEMMA PromisesMean ==
    ASSUME DatabaseInv
    PROVE  OrderDefined /\ NoGap /\ PagesInOrder
<1>1. OrderDefined
  BY DEF DatabaseInv, Sound, Ordered, OrderDefined
<1>2. NoGap
  BY DEF DatabaseInv, Promised, AllTo, Has, InUse, NoGap
<1>3. PagesInOrder
  <2> SUFFICES ASSUME NEW f \in PagedFeeds, feeds[f] # Absent,
                      feeds[f].digest \notin {Null, Blank}, ~ feeds[f].ended
               PROVE  InOrderTo(relations, feeds[f].id, Server[feeds[f].digest.snapshot],
                                feeds[f].digest.count)
    BY DEF PagesInOrder, InOrderTo
  <2> QED BY DEF DatabaseInv, Promised, InUse
<1> QED BY <1>1, <1>2, <1>3

LEMMA PageFacts ==
    ASSUME NEW v \in Snapshots, NEW n \in 0..Len(Server[v])
    PROVE  /\ Page(v, n) \in Seq(Items)
           /\ n + Len(Page(v, n)) \in 0..Len(Server[v])
           /\ \A i \in 1..Len(Page(v, n)) : Page(v, n)[i] = Server[v][n + i]
<1> DEFINE list == Server[v]
           last == IF n + PageSize < Len(list) THEN n + PageSize ELSE Len(list)
<1>1. list \in Seq(Items) /\ Len(list) \in Nat /\ PageSize \in Nat
  BY ServerAssumption, SizesAssumption DEF Snapshots
<1>2. n \in Nat /\ last \in Nat /\ n <= last /\ last <= Len(list)
  BY <1>1
<1>3. Page(v, n) = SubSeq(list, n + 1, last)
  BY DEF Page
<1> HIDE DEF last, list
<1>4. /\ SubSeq(list, n + 1, last) = [i \in 1..(last - n) |-> list[n + i]]
      /\ \A i \in 1..(last - n) : n + i \in 1..Len(list) /\ list[n + i] \in Items
  <2>1. last - n \in Nat
    BY <1>2
  <2>2. \A i \in 1..(last - n) : n + i \in 1..Len(list)
    BY <1>2, <2>1
  <2>3. \A i \in 1..Len(list) : list[i] \in Items
    BY <1>1
  <2>4. SubSeq(list, n + 1, last) = [i \in 1..(1 + last - (n + 1)) |-> list[i + (n + 1) - 1]]
    BY <1>1, <1>2
  <2>5. 1 + last - (n + 1) = last - n /\ \A i \in 1..(last - n) : i + (n + 1) - 1 = n + i
    BY <1>2
  <2> QED BY <2>2, <2>3, <2>4, <2>5
<1>5. Len([i \in 1..(last - n) |-> list[n + i]]) = last - n
  BY <1>2
<1>6. [i \in 1..(last - n) |-> list[n + i]] \in Seq(Items)
  BY <1>2, <1>4
<1> DEFINE page == [i \in 1..(last - n) |-> list[n + i]]
<1>7. page \in Seq(Items) /\ Len(page) = last - n /\ \A i \in 1..(last - n) : page[i] = list[n + i]
  BY <1>5, <1>6
<1>8. Page(v, n) = page
  BY <1>3, <1>4
<1>9. n + (last - n) = last /\ last \in 0..Len(list)
  BY <1>1, <1>2
<1> HIDE DEF page
<1> QED BY <1>7, <1>8, <1>9 DEF list

\* A page that continues what a feed has passed keeps the order and leaves no gap.
LEMMA PageFits ==
    ASSUME NEW rels, Sound(rels), NEW id \in Nat \ {0},
           NEW v \in Snapshots, NEW n \in 0..Len(Server[v]), NEW page,
           page.items = Page(v, n), page.new \in Seq(Items),
           AllTo(rels, id, Server[v], n),
           NEW saved, saved = SaveFeedData(rels, id, page)
    PROVE  /\ AllTo(saved, id, Server[v], n + Len(page.items))
           /\ InOrderTo(rels, id, Server[v], n)
                  => InOrderTo(saved, id, Server[v], n + Len(page.items))
<1> DEFINE list == Server[v]
           items == page.items
<1>1. /\ items \in Seq(Items) /\ n \in Nat /\ Len(items) \in Nat
      /\ \A i \in 1..Len(items) : items[i] = list[n + i] /\ items[i] \in Items
  <2>1. /\ Page(v, n) \in Seq(Items)
        /\ \A i \in 1..Len(Page(v, n)) : Page(v, n)[i] = Server[v][n + i]
    BY PageFacts
  <2>2. n \in Nat
    BY ServerAssumption DEF Snapshots
  <2>3. items = Page(v, n)
    OBVIOUS
  <2> HIDE DEF items, list
  <2>4. items \in Seq(Items) /\ \A i \in 1..Len(items) : items[i] = list[n + i]
    BY <2>1, <2>3 DEF list
  <2> QED BY <2>2, <2>4
<1>2. list \in Seq(Items) /\ \A i \in 1..n : list[i] \in Items
  BY ServerAssumption DEF Snapshots
<1> HIDE DEF list, items
<1>3. /\ Sound(saved)
      /\ \A g \in Items : Has(rels, id, g) => Has(saved, id, g)
      /\ \A i \in 1..Len(items) : Has(saved, id, items[i])
      /\ \A r \in saved :
             r.feed = id /\ r.index > 0 /\ r \notin rels =>
                 /\ ~ Has(rels, id, r.gfycat)
                 /\ \A s \in rels : s.feed = id => s.index < r.index
                 /\ \E i \in 1..Len(items) :
                        /\ items[i] = r.gfycat /\ FirstIn(items, i)
                        /\ \A s \in saved :
                               s.feed = id /\ s.index > 0 /\ s.index < r.index
                                   => s \in rels \/ \E k \in 1..(i - 1) : items[k] = s.gfycat
  <2>1. page.items \in Seq(Items)
    BY <1>1 DEF items
  <2>2. Saves(saved, rels, id, page.items)
    BY <2>1, SaveFacts
  <2> QED BY <2>2 DEF items, Saves
<1>4. \A r \in rels \union saved : r.index \in Int
  BY <1>3 DEF Sound, Relations
<1>5. \A i \in 1..(n + Len(items)) : i \in 1..n \/ (i - n \in 1..Len(items) /\ n + (i - n) = i)
  BY <1>1
<1>6. AllTo(saved, id, list, n + Len(items))
  <2>1. ASSUME NEW i \in 1..n PROVE Has(saved, id, list[i])
    BY <1>2, <1>3 DEF AllTo, list
  <2>2. ASSUME NEW i \in 1..Len(items) PROVE Has(saved, id, list[n + i])
    BY <1>1, <1>3
  <2> QED BY <1>5, <2>1, <2>2 DEF AllTo
<1>7. ASSUME InOrderTo(rels, id, list, n)
      PROVE  InOrderTo(saved, id, list, n + Len(items))
  <2> SUFFICES ASSUME NEW r \in saved, r.feed = id, r.index > 0
               PROVE  \E i \in 1..(n + Len(items)) :
                          /\ list[i] = r.gfycat /\ FirstIn(list, i)
                          /\ \A s \in saved :
                                 s.feed = id /\ s.index > 0 /\ s.index < r.index
                                     => \E k \in 1..(i - 1) : list[k] = s.gfycat
    BY DEF InOrderTo
  <2>1. CASE r \in rels
    <3>1. PICK i \in 1..n : /\ list[i] = r.gfycat /\ FirstIn(list, i)
                            /\ \A s \in rels :
                                   s.feed = id /\ s.index > 0 /\ s.index < r.index
                                       => \E k \in 1..(i - 1) : list[k] = s.gfycat
      BY <1>7, <2>1 DEF InOrderTo
    <3>2. \A s \in saved : s.feed = id /\ s.index > 0 /\ s.index < r.index => s \in rels
      BY <1>3, <1>4, <2>1
    <3>3. i \in 1..(n + Len(items))
      BY <1>1
    <3> QED BY <3>1, <3>2, <3>3
  <2>2. CASE r \notin rels
    <3>1. PICK i \in 1..Len(items) :
              /\ items[i] = r.gfycat /\ FirstIn(items, i)
              /\ \A s \in saved :
                     s.feed = id /\ s.index > 0 /\ s.index < r.index
                         => s \in rels \/ \E k \in 1..(i - 1) : items[k] = s.gfycat
      BY <1>3, <2>2
    <3>2. ~ Has(rels, id, r.gfycat)
      BY <1>3, <2>2
    <3>3. /\ i \in Nat /\ n + i \in 1..(n + Len(items))
          /\ list[n + i] = r.gfycat /\ (n + i) - 1 = n + (i - 1)
      BY <1>1, <3>1
    <3>4. \A k \in 1..(n + (i - 1)) : k \in 1..n \/ (k - n \in 1..(i - 1) /\ n + (k - n) = k)
      BY <1>1
    <3>5. \A k \in 1..(i - 1) : k \in 1..Len(items) /\ n + k \in 1..(n + (i - 1))
      BY <1>1
    <3>6. \A k \in 1..n : k \in 1..(n + (i - 1))
      BY <1>1
    <3>7. FirstIn(list, n + i)
      <4>1. ASSUME NEW k \in 1..n PROVE list[k] # r.gfycat
        BY <3>2 DEF AllTo, list
      <4>2. ASSUME NEW k \in 1..(i - 1) PROVE list[n + k] # r.gfycat
        BY <1>1, <3>1, <3>5 DEF FirstIn
      <4>3. \A k \in 1..(n + (i - 1)) : list[k] # r.gfycat
        BY <3>4, <4>1, <4>2
      <4> QED BY <3>3, <4>3 DEF FirstIn
    <3>8. ASSUME NEW s \in saved, s.feed = id, s.index > 0, s.index < r.index
          PROVE  \E k \in 1..((n + i) - 1) : list[k] = s.gfycat
      <4>1. CASE s \in rels
        <5>1. PICK k \in 1..n : list[k] = s.gfycat
          BY <1>7, <3>8, <4>1 DEF InOrderTo
        <5> QED BY <3>3, <3>6, <5>1
      <4>2. CASE s \notin rels
        <5>1. PICK k \in 1..(i - 1) : items[k] = s.gfycat
          BY <3>1, <3>8, <4>2
        <5>2. list[n + k] = s.gfycat /\ n + k \in 1..(n + (i - 1))
          BY <1>1, <3>5, <5>1
        <5> QED BY <3>3, <5>2
      <4> QED BY <4>1, <4>2
    <3> QED BY <3>3, <3>7, <3>8
  <2> QED BY <2>1, <2>2
<1> QED BY <1>6, <1>7 DEF list, items

--------------------------------------------------------------------------------
(* Transactions *)

\* The relations of the other feeds are as they were.
OthersKept(f) ==
    \A g \in Feeds \ {f} : InUse(g) =>
        \A r : r.feed = feeds[g].id => (r \in relations <=> r \in relations')

\* A transaction changes one feed, and keeps what the database promises of it.
LEMMA OneFeedChanges ==
    ASSUME DatabaseInv, NEW f \in Feeds, NEW row \in FeedRows \union {Absent},
           feeds' = [feeds EXCEPT ![f] = row],
           gfycats' \in [Items -> {"none", "live", "deleted"}],
           UNCHANGED <<blockedGfycats, blockedUsers>>,
           row # Absent =>
               /\ \A g \in Feeds \ {f} : InUse(g) => feeds[g].id # row.id
               /\ row.digest = Blank => row.ended
               /\ f \in PagedFeeds => Promised(row, relations'),
           Sound(relations'), OthersKept(f),
           \A r \in relations' :
               \/ row # Absent /\ r.feed = row.id
               \/ \E g \in Feeds \ {f} : InUse(g) /\ feeds[g].id = r.feed
    PROVE  DatabaseInv'
<1>1. /\ feeds \in [Feeds -> FeedRows \union {Absent}]
      /\ feeds' \in [Feeds -> FeedRows \union {Absent}]
      /\ feeds'[f] = row /\ \A g \in Feeds \ {f} : feeds'[g] = feeds[g]
  BY DEF DatabaseInv, DatabaseTyping
<1>2. DatabaseTyping'
  BY <1>1 DEF DatabaseInv, DatabaseTyping
<1>3. \A g \in Feeds : InUse(g) <=> feeds[g] \in FeedRows
  BY <1>1, ValuesAssumption DEF InUse, FeedRows
<1>4. \A g \in Feeds : InUse(g) => feeds[g].id \in Nat \ {0}
  BY <1>1, <1>3 DEF FeedRows, Rows
<1>5. \A g \in Feeds \ {f} : InUse(g)' <=> InUse(g)
  BY <1>1 DEF InUse
<1>6. InUse(f)' <=> row # Absent
  BY <1>1 DEF InUse
<1>7. IdsBounded'
  <2>1. PICK b \in Nat : \A g \in Feeds : InUse(g) => feeds[g].id <= b
    BY DEF DatabaseInv, IdsBounded
  <2>2. CASE row = Absent
    BY <1>1, <1>5, <1>6, <2>1, <2>2 DEF IdsBounded
  <2>3. CASE row # Absent
    <3>1. row.id \in Nat
      BY <2>3 DEF FeedRows, Rows
    <3>2. b + row.id \in Nat /\ row.id <= b + row.id
      BY <3>1
    <3>3. \A g \in Feeds \ {f} : InUse(g) => feeds[g].id <= b + row.id
      BY <1>4, <2>1, <3>1
    <3> QED BY <1>1, <1>5, <3>2, <3>3 DEF IdsBounded
  <2> QED BY <2>2, <2>3
<1>8. IdsDistinct'
  BY <1>1, <1>5, <1>6 DEF DatabaseInv, IdsDistinct
<1>9. Owned'
  BY <1>1, <1>5, <1>6 DEF Owned
<1>10. BlankEnded'
  BY <1>1, <1>5, <1>6 DEF DatabaseInv, BlankEnded
<1>11. ASSUME NEW g \in PagedFeeds, InUse(g)' PROVE Promised(feeds[g], relations)'
  <2>1. CASE g = f
    BY <1>1, <1>6, <1>11, <2>1 DEF Promised
  <2>2. CASE g # f
    <3>1. g \in Feeds \ {f} /\ InUse(g) /\ feeds'[g] = feeds[g]
      BY <1>1, <1>5, <1>11, <2>2 DEF Feeds
    <3>2. \A r : r.feed = feeds[g].id => (r \in relations <=> r \in relations')
      BY <3>1 DEF OthersKept
    <3>3. Promised(feeds[g], relations)
      BY <1>11, <3>1 DEF DatabaseInv
    <3>4. ASSUME NEW list, NEW n, AllTo(relations, feeds[g].id, list, n)
          PROVE  AllTo(relations', feeds[g].id, list, n)
      BY <3>2, <3>4 DEF AllTo, Has
    <3>5. ASSUME NEW list, NEW n, InOrderTo(relations, feeds[g].id, list, n)
          PROVE  InOrderTo(relations', feeds[g].id, list, n)
      BY <3>2, <3>5 DEF InOrderTo
    <3>6. Promised(feeds[g], relations')
      BY <3>3, <3>4, <3>5 DEF Promised
    <3> QED BY <3>1, <3>6 DEF Promised
  <2> QED BY <2>1, <2>2
<1> QED BY <1>2, <1>7, <1>8, <1>9, <1>10, <1>11 DEF DatabaseInv

\* What stays of sound relations when a feed goes is sound.
LEMMA WithoutFeed ==
    ASSUME NEW rels, Sound(rels), NEW id
    PROVE  Sound({r \in rels : r.feed # id})
<1> DEFINE rest == {r \in rels : r.feed # id}
<1>1. Bounded(rest)
  BY DEF Sound, Bounded
<1>2. Low(rest)
  BY DEF Sound, Low
<1>3. rest \subseteq Relations /\ Ordered(rest)
  BY DEF Sound, Ordered
<1> QED BY <1>1, <1>2, <1>3 DEF Sound

LEMMA RowFacts ==
    ASSUME DatabaseInv, NEW f \in Feeds, InUse(f)
    PROVE  /\ feeds[f] \in FeedRows /\ feeds[f].id \in Nat \ {0}
           /\ feeds[f].digest \in Known
BY ValuesAssumption DEF DatabaseInv, DatabaseTyping, InUse, FeedRows, Rows

\* A new id is not that of another feed.
LEMMA NewIdIsNew ==
    ASSUME DatabaseInv, NEW others \in SUBSET Feeds
    PROVE  /\ NewId(others) \in Nat \ {0}
           /\ \A g \in others : InUse(g) => feeds[g].id # NewId(others)
<1> DEFINE ids == {feeds[g].id : g \in {g \in others : feeds[g] # Absent}}
<1>1. PICK b \in Nat : \A g \in Feeds : InUse(g) => feeds[g].id <= b
  BY DEF DatabaseInv, IdsBounded
<1>2. ids \in SUBSET Int /\ b \in Int /\ \A x \in ids : x <= b /\ x > 0
  BY <1>1, RowFacts DEF InUse
<1>3. \A g \in others : InUse(g) => feeds[g].id \in ids
  BY DEF InUse
<1>4. NewId(others) = IF ids = {} THEN 1 ELSE Max(ids) + 1
  BY DEF NewId
<1> HIDE DEF ids
<1>5. CASE ids = {}
  BY <1>3, <1>4, <1>5
<1>6. CASE ids # {}
  <2>1. Max(ids) \in ids /\ \A x \in ids : x <= Max(ids)
    BY <1>2, <1>6, MaxIs
  <2>2. NewId(others) = Max(ids) + 1 /\ Max(ids) \in Nat
    <3>1. Max(ids) \in Int /\ Max(ids) > 0
      BY <1>2, <2>1
    <3> QED BY <1>4, <1>6, <3>1
  <2>3. \A x \in ids : x \in Int /\ x # NewId(others)
    BY <1>2, <2>1, <2>2
  <2> QED BY <1>3, <2>2, <2>3
<1> QED BY <1>5, <1>6

LEMMA GfycatsTyped ==
    ASSUME DatabaseInv, NEW list
    PROVE  KnownWith(list) \in [Items -> {"none", "live", "deleted"}]
BY DEF DatabaseInv, DatabaseTyping, KnownWith

\* Of a feed that is cleared nothing is left, of the others all.
LEMMA ClearedFacts ==
    ASSUME DatabaseInv, NEW f \in Feeds
    PROVE  /\ Sound(Cleared(f)) /\ Cleared(f) \subseteq relations
           /\ \A r \in Cleared(f) : \E g \in Feeds \ {f} : InUse(g) /\ feeds[g].id = r.feed
           /\ \A r \in relations :
                  (\E g \in Feeds \ {f} : InUse(g) /\ feeds[g].id = r.feed) => r \in Cleared(f)
<1>1. CASE InUse(f)
  <2>1. Cleared(f) = {r \in relations : r.feed # feeds[f].id}
    BY <1>1 DEF Cleared, InUse
  <2>2. Sound(Cleared(f))
    BY <2>1, WithoutFeed DEF DatabaseInv
  <2>3. \A g \in Feeds \ {f} : InUse(g) => feeds[g].id # feeds[f].id
    BY <1>1 DEF DatabaseInv, IdsDistinct
  <2>4. \A r \in Cleared(f) : \E g \in Feeds \ {f} : InUse(g) /\ feeds[g].id = r.feed
    BY <2>1 DEF DatabaseInv, Owned
  <2> QED BY <2>1, <2>2, <2>3, <2>4
<1>2. CASE ~ InUse(f)
  <2>1. Cleared(f) = relations
    BY <1>2 DEF Cleared, InUse
  <2>2. \A r \in relations : \E g \in Feeds \ {f} : InUse(g) /\ feeds[g].id = r.feed
    BY <1>2 DEF DatabaseInv, Owned
  <2> QED BY <2>1, <2>2 DEF DatabaseInv
<1> QED BY <1>1, <1>2

LEMMA DeleteFeedKeeps ==
    ASSUME DatabaseInv, NEW f \in Feeds, DeleteFeed(f)
    PROVE  DatabaseInv' /\ OthersKept(f)
<1>1. OthersKept(f)
  <2> SUFFICES ASSUME NEW g \in Feeds \ {f}, InUse(g), NEW r, r.feed = feeds[g].id
               PROVE  r \in relations <=> r \in relations'
    BY DEF OthersKept
  <2> QED BY ClearedFacts DEF DeleteFeed
<1>2. \A r \in relations' : \E g \in Feeds \ {f} : InUse(g) /\ feeds[g].id = r.feed
  BY ClearedFacts DEF DeleteFeed
<1>3. Sound(relations') /\ gfycats' \in [Items -> {"none", "live", "deleted"}]
  BY ClearedFacts DEF DeleteFeed, DatabaseInv, DatabaseTyping
<1> QED BY <1>1, <1>2, <1>3, OneFeedChanges DEF DeleteFeed

LEMMA CloseFeedKeeps ==
    ASSUME DatabaseInv, NEW f \in Feeds, NEW previous, CloseFeed(f, previous)
    PROVE  DatabaseInv' /\ OthersKept(f)
<1> DEFINE row == [feeds[f] EXCEPT !.digest = Blank, !.closed = FALSE, !.ended = TRUE]
<1>1. InUse(f) /\ relations' = relations /\ gfycats' = gfycats
  BY DEF CloseFeed, HasDigest, InUse
<1>2. feeds[f] \in Rows
  BY <1>1, RowFacts DEF FeedRows
<1>3. feeds' = [feeds EXCEPT ![f] = row]
  BY DEF CloseFeed
<1>4. row \in FeedRows /\ row.id = feeds[f].id /\ row.digest = Blank /\ row.ended
  BY <1>2 DEF Rows, FeedRows, Known, Digests
<1> HIDE DEF row
<1>5. OthersKept(f)
  BY <1>1 DEF OthersKept
<1>6. \A g \in Feeds \ {f} : InUse(g) => feeds[g].id # row.id
  BY <1>1, <1>4 DEF DatabaseInv, IdsDistinct
<1>7. Promised(row, relations')
  BY <1>4 DEF Promised
<1>8. \A r \in relations' : \/ r.feed = row.id
                           \/ \E g \in Feeds \ {f} : InUse(g) /\ feeds[g].id = r.feed
  BY <1>1, <1>4 DEF DatabaseInv, Owned
<1>9. row # Absent
  BY <1>4, ValuesAssumption DEF FeedRows
<1>10. /\ Sound(relations') /\ gfycats' \in [Items -> {"none", "live", "deleted"}]
       /\ UNCHANGED <<blockedGfycats, blockedUsers>>
  BY <1>1 DEF DatabaseInv, DatabaseTyping, CloseFeed
<1> QED BY <1>3, <1>4, <1>5, <1>6, <1>7, <1>8, <1>9, <1>10, OneFeedChanges

\* Saving into one feed, whose row becomes this one, over what stays of the relations.
LEMMA SaveKeeps ==
    ASSUME DatabaseInv, NEW f \in Feeds, NEW row \in FeedRows, NEW base, NEW list,
           list.items \in Seq(Items), list.new \in Seq(Items),
           feeds' = [feeds EXCEPT ![f] = row],
           relations' = SaveFeedData(base, row.id, list),
           gfycats' = KnownWith(list), UNCHANGED <<blockedGfycats, blockedUsers>>,
           Sound(base), base \subseteq relations,
           \A g \in Feeds \ {f} : InUse(g) => feeds[g].id # row.id,
           \A r \in base :
               r.feed = row.id \/ \E g \in Feeds \ {f} : InUse(g) /\ feeds[g].id = r.feed,
           \A r \in relations :
               (\E g \in Feeds \ {f} : InUse(g) /\ feeds[g].id = r.feed) => r \in base,
           row.digest = Blank => row.ended,
           f \in PagedFeeds => Promised(row, relations')
    PROVE  DatabaseInv' /\ OthersKept(f)
<1>1. row.id \in Nat \ {0} /\ row # Absent
  BY ValuesAssumption DEF FeedRows, Rows
<1>2. Saves(relations', base, row.id, list.items)
  BY <1>1, SaveFacts
<1>3. /\ Sound(relations')
      /\ \A r \in base : r.feed # row.id => r \in relations'
      /\ \A r \in relations' : r.feed # row.id => r \in base
  BY <1>2 DEF Saves
<1>4. OthersKept(f)
  <2> SUFFICES ASSUME NEW g \in Feeds \ {f}, InUse(g), NEW r, r.feed = feeds[g].id
               PROVE  r \in relations <=> r \in relations'
    BY DEF OthersKept
  <2>1. r.feed # row.id
    OBVIOUS
  <2>2. r \in relations => r \in base
    OBVIOUS
  <2> QED BY <1>3, <2>1, <2>2
<1>5. \A r \in relations' : \/ r.feed = row.id
                           \/ \E g \in Feeds \ {f} : InUse(g) /\ feeds[g].id = r.feed
  BY <1>3
<1>6. gfycats' \in [Items -> {"none", "live", "deleted"}]
  BY GfycatsTyped
<1>7. DatabaseInv'
  BY <1>1, <1>3, <1>4, <1>5, <1>6, OneFeedChanges
<1> QED BY <1>4, <1>7

LEMMA FeedRowIs ==
    ASSUME NEW id \in Nat \ {0}, NEW list, NEW mode, list.next \in Known
    PROVE  /\ FeedRow(id, list, mode) \in FeedRows
           /\ FeedRow(id, list, mode).id = id
           /\ FeedRow(id, list, mode).digest = list.next
           /\ ~ FeedRow(id, list, mode).ended
<1>1. (~ IsOpen(mode, list.next)) \in BOOLEAN
  BY DEF IsOpen
<1>2. list.next \in Digests
  BY DEF Known, Places, Digests
<1> QED BY <1>1, <1>2 DEF FeedRow, FeedRows, Rows

\* A page of a server's list, from this place on.
IsPage(list, v, n) ==
    list.items = Page(v, n) /\ list.next \in NextDigests(v, n + Len(list.items))

LEMMA NextIsKnown ==
    ASSUME NEW v \in Snapshots, NEW n \in 0..Len(Server[v]), NEW list, IsPage(list, v, n)
    PROVE  /\ list.items \in Seq(Items) /\ list.next \in Known /\ list.next # Blank
           /\ list.next # Null =>
                  list.next = [snapshot |-> v, count |-> n + Len(list.items)]
<1>1. /\ list.items \in Seq(Items) /\ n + Len(list.items) \in 0..Len(Server[v])
      /\ Len(Server[v]) \in Nat
  BY PageFacts, ServerAssumption DEF IsPage, Snapshots
<1> DEFINE d == [snapshot |-> v, count |-> n + Len(list.items)]
<1>2. d \in [snapshot : Snapshots, count : Nat] /\ d.snapshot = v /\ d.count = n + Len(list.items)
  BY <1>1
<1>3. d \in Places
  BY <1>1, <1>2 DEF Places
<1>4. list.next = d \/ list.next = Null
  BY DEF IsPage, NextDigests
<1> HIDE DEF d
<1>5. d # Blank /\ Null # Blank
  BY <1>2, ValuesAssumption
<1> QED BY <1>1, <1>3, <1>4, <1>5 DEF Known, d

\* A row whose digest follows a page promises what the page's saving gives.
LEMMA PagePromises ==
    ASSUME NEW rels, Sound(rels), NEW v \in Snapshots, NEW n \in 0..Len(Server[v]),
           NEW list, IsPage(list, v, n), list.new \in Seq(Items),
           NEW row \in FeedRows, row.digest = list.next,
           AllTo(rels, row.id, Server[v], n),
           row.ended \/ InOrderTo(rels, row.id, Server[v], n)
    PROVE  Promised(row, SaveFeedData(rels, row.id, list))
<1>1. row.id \in Nat \ {0} /\ list.items = Page(v, n)
  BY DEF FeedRows, Rows, IsPage
<1> DEFINE saved == SaveFeedData(rels, row.id, list)
<1>2. /\ AllTo(saved, row.id, Server[v], n + Len(list.items))
      /\ InOrderTo(rels, row.id, Server[v], n)
             => InOrderTo(saved, row.id, Server[v], n + Len(list.items))
  BY <1>1, PageFits
<1>3. row.digest # Null =>
          row.digest.snapshot = v /\ row.digest.count = n + Len(list.items)
  <2>1. list.next # Null => list.next = [snapshot |-> v, count |-> n + Len(list.items)]
    BY NextIsKnown
  <2> QED BY <2>1
<1> HIDE DEF saved
<1>4. Promised(row, saved)
  BY <1>2, <1>3 DEF Promised
<1> QED BY <1>4 DEF saved

LEMMA NothingPassed ==
    ASSUME NEW rels, NEW id, NEW list
    PROVE  /\ AllTo(rels, id, list, 0)
           /\ (\A r \in rels : r.feed # id) => InOrderTo(rels, id, list, 0)
BY DEF AllTo, InOrderTo

FirstPage(list) == \E v \in Snapshots : IsPage(list, v, 0)

LEMMA LengthsNatural == \A v \in Snapshots : Len(Server[v]) \in Nat /\ 0 \in 0..Len(Server[v])
BY ServerAssumption DEF Snapshots

\* Only a page that is a first one replaces what a paged feed has.
LEMMA InsertFeedKeeps ==
    ASSUME DatabaseInv, NEW f \in Feeds, NEW list, NEW mode, NEW append \in BOOLEAN,
           list.items \in Seq(Items), list.new \in Seq(Items),
           list.next \in Known, list.next # Blank,
           f \in PagedFeeds => ~ append /\ FirstPage(list),
           InsertFeed(f, list, mode, append)
    PROVE  DatabaseInv' /\ OthersKept(f)
<1>1. gfycats' = KnownWith(list) /\ UNCHANGED <<blockedGfycats, blockedUsers>>
  BY DEF InsertFeed
<1>2. CASE ~ append
  <2> DEFINE id == NewId(Feeds \ {f})
             row == FeedRow(id, list, mode)
  <2>1. feeds' = [feeds EXCEPT ![f] = row] /\ relations' = SaveFeedData(Cleared(f), id, list)
    BY <1>2 DEF InsertFeed, InsertOrReplaceFeed
  <2>2. id \in Nat \ {0} /\ \A g \in Feeds \ {f} : InUse(g) => feeds[g].id # id
    BY NewIdIsNew
  <2> HIDE DEF id
  <2>3. row \in FeedRows /\ row.id = id /\ row.digest = list.next /\ ~ row.ended
    BY <2>2, FeedRowIs
  <2> HIDE DEF row
  <2>4. \A r \in Cleared(f) : r.feed # id
    BY <2>2, ClearedFacts
  <2>5. f \in PagedFeeds => Promised(row, relations')
    <3>1. ASSUME f \in PagedFeeds PROVE Promised(row, relations')
      <4>1. PICK v \in Snapshots : IsPage(list, v, 0)
        BY <3>1 DEF FirstPage
      <4>2. /\ AllTo(Cleared(f), row.id, Server[v], 0)
            /\ InOrderTo(Cleared(f), row.id, Server[v], 0)
        BY <2>3, <2>4, NothingPassed
      <4>3. 0 \in 0..Len(Server[v]) /\ Sound(Cleared(f))
        BY LengthsNatural, ClearedFacts
      <4>4. Promised(row, SaveFeedData(Cleared(f), row.id, list))
        BY <2>3, <4>1, <4>2, <4>3, PagePromises
      <4> QED BY <2>1, <2>3, <4>4
    <3> QED BY <3>1
  <2> QED BY <1>1, <2>1, <2>2, <2>3, <2>4, <2>5, ClearedFacts, SaveKeeps
<1>3. CASE append /\ InUse(f)
  <2>1. feeds' = feeds /\ relations' = SaveFeedData(relations, feeds[f].id, list)
    BY <1>3 DEF InsertFeed, InsertIfNotExistFeed, InUse
  <2>2. feeds' = [feeds EXCEPT ![f] = feeds[f]]
    BY <2>1 DEF DatabaseInv, DatabaseTyping
  <2>3. feeds[f] \in FeedRows /\ feeds[f].id \in Nat \ {0}
    BY <1>3, RowFacts
  <2>4. \A g \in Feeds \ {f} : InUse(g) => feeds[g].id # feeds[f].id
    BY <1>3 DEF DatabaseInv, IdsDistinct
  <2>5. \A r \in relations :
            r.feed = feeds[f].id \/ \E g \in Feeds \ {f} : InUse(g) /\ feeds[g].id = r.feed
    BY DEF DatabaseInv, Owned
  <2>6. feeds[f].digest = Blank => feeds[f].ended
    BY <1>3 DEF DatabaseInv, BlankEnded
  <2>7. f \notin PagedFeeds /\ Sound(relations)
    BY <1>3 DEF DatabaseInv
  <2> QED BY <1>1, <2>1, <2>2, <2>3, <2>4, <2>5, <2>6, <2>7, SaveKeeps
<1>4. CASE append /\ ~ InUse(f)
  <2> DEFINE id == NewId(Feeds)
             row == FeedRow(id, list, mode)
  <2>1. feeds' = [feeds EXCEPT ![f] = row] /\ relations' = SaveFeedData(relations, id, list)
    BY <1>4 DEF InsertFeed, InsertIfNotExistFeed, InUse
  <2>2. id \in Nat \ {0} /\ \A g \in Feeds : InUse(g) => feeds[g].id # id
    BY NewIdIsNew
  <2> HIDE DEF id
  <2>3. row \in FeedRows /\ row.id = id /\ row.digest = list.next /\ ~ row.ended
    BY <2>2, FeedRowIs
  <2> HIDE DEF row
  <2>4. \A r \in relations : \E g \in Feeds \ {f} : InUse(g) /\ feeds[g].id = r.feed
    BY <1>4 DEF DatabaseInv, Owned
  <2>5. f \notin PagedFeeds /\ Sound(relations)
    BY <1>4 DEF DatabaseInv
  <2> QED BY <1>1, <2>1, <2>2, <2>3, <2>4, <2>5, SaveKeeps
<1> QED BY <1>2, <1>3, <1>4

\* A page extends a feed from the very digest the feed has.
LEMMA UpdateFeedKeeps ==
    ASSUME DatabaseInv, NEW f \in PagedFeeds, NEW previous \in Known, NEW list,
           list.new \in Seq(Items),
           previous = Blank => FirstPage(list),
           previous \notin {Null, Blank} =>
               IsPage(list, previous.snapshot, previous.count),
           UpdateFeed(f, previous, list)
    PROVE  DatabaseInv' /\ OthersKept(f)
<1>1. f \in Feeds /\ InUse(f) /\ previous # Null /\ feeds[f].digest = previous
  BY DEF UpdateFeed, HasDigest, InUse, Feeds
<1>2. feeds[f] \in FeedRows /\ feeds[f].id \in Nat \ {0}
  BY <1>1, RowFacts
<1> DEFINE Continues(v, n) ==
               /\ IsPage(list, v, n) /\ AllTo(relations, feeds[f].id, Server[v], n)
               /\ feeds[f].ended \/ InOrderTo(relations, feeds[f].id, Server[v], n)
<1>3. \E v \in Snapshots : \E n \in 0..Len(Server[v]) : Continues(v, n)
  <2>1. CASE previous = Blank
    <3>1. PICK v \in Snapshots : IsPage(list, v, 0)
      BY <2>1 DEF FirstPage
    <3>2. feeds[f].ended
      BY <1>1, <2>1 DEF DatabaseInv, BlankEnded
    <3> QED BY <3>1, <3>2, NothingPassed, LengthsNatural
  <2>2. CASE previous # Blank
    <3>1. previous \in Places
      BY <1>1, <2>2 DEF Known
    <3>2. /\ previous.snapshot \in Snapshots
          /\ previous.count \in 0..Len(Server[previous.snapshot])
      BY <3>1, LengthsNatural DEF Places
    <3>3. Promised(feeds[f], relations)
      BY <1>1 DEF DatabaseInv
    <3>4. /\ AllTo(relations, feeds[f].id, Server[previous.snapshot], previous.count)
          /\ \/ feeds[f].ended
             \/ InOrderTo(relations, feeds[f].id, Server[previous.snapshot], previous.count)
      BY <1>1, <2>2, <3>3 DEF Promised
    <3> QED BY <1>1, <2>2, <3>2, <3>4
  <2> QED BY <2>1, <2>2
<1>4. PICK v \in Snapshots : \E n \in 0..Len(Server[v]) : Continues(v, n)
  BY <1>3
<1>5. PICK n \in 0..Len(Server[v]) : Continues(v, n)
  BY <1>4
<1>6. list.items \in Seq(Items) /\ list.next \in Known /\ list.next # Blank
  BY <1>5, NextIsKnown
<1> DEFINE row == [feeds[f] EXCEPT !.digest = list.next, !.closed = FALSE]
<1>7. /\ feeds' = [feeds EXCEPT ![f] = row]
      /\ relations' = SaveFeedData(relations, feeds[f].id, list)
      /\ gfycats' = KnownWith(list) /\ UNCHANGED <<blockedGfycats, blockedUsers>>
  BY DEF UpdateFeed
<1>8. /\ row \in FeedRows /\ row.id = feeds[f].id /\ row.digest = list.next
      /\ row.ended = feeds[f].ended
  BY <1>2, <1>6 DEF FeedRows, Rows, Known, Places, Digests
<1> HIDE DEF row
<1>9. Sound(relations)
  BY DEF DatabaseInv
<1>10. Promised(row, relations')
  <2>1. AllTo(relations, row.id, Server[v], n)
    BY <1>5, <1>8
  <2>2. row.ended \/ InOrderTo(relations, row.id, Server[v], n)
    BY <1>5, <1>8
  <2>3. Promised(row, SaveFeedData(relations, row.id, list))
    BY <1>5, <1>8, <1>9, <2>1, <2>2, PagePromises
  <2> QED BY <1>7, <1>8, <2>3
<1>11. \A g \in Feeds \ {f} : InUse(g) => feeds[g].id # row.id
  BY <1>1, <1>8 DEF DatabaseInv, IdsDistinct
<1>12. \A r \in relations :
           r.feed = row.id \/ \E g \in Feeds \ {f} : InUse(g) /\ feeds[g].id = r.feed
  BY <1>8 DEF DatabaseInv, Owned
<1>13. relations' = SaveFeedData(relations, row.id, list)
  BY <1>7, <1>8
<1> QED BY <1>1, <1>6, <1>7, <1>8, <1>9, <1>10, <1>11, <1>12, <1>13, SaveKeeps

--------------------------------------------------------------------------------
(* The manager.  A call carries a page that continues the digest it was      *)
(* asked for with, so that nothing but that digest has to be compared.       *)

Jobs ==
    [feed : Feeds \union {None},
     list : [items : Seq(Items), new : Seq(Items), next : Known],
     mode : {"Open", "Auto", "Close"}, append : BOOLEAN, previous : Known, id : Nat,
     gfycat : Items \union {None}, deleted : BOOLEAN, events : 0..2]

\* What a call that is at this place has brought along.
Carries(place, call) ==
    /\ place \in {"checkFeed", "checkItems", "insert"} =>
           /\ call.feed \in Feeds /\ call.list.next # Blank
           /\ call.feed \in PagedFeeds => ~ call.append /\ FirstPage(call.list)
    /\ place = "update" =>
           /\ call.feed \in PagedFeeds
           /\ call.previous = Blank => FirstPage(call.list)
           /\ call.previous \notin {Null, Blank} =>
                  IsPage(call.list, call.previous.snapshot, call.previous.count)
    /\ place = "close" => call.feed \in PagedFeeds
    /\ place = "mark" => call.feed = None

CallPlaces == {"idle", "checkFeed", "checkItems", "insert", "update", "close", "mark", "notify"}

CallsInv ==
    /\ pc \in [Threads -> CallPlaces]
    /\ job \in [Threads -> Jobs]
    /\ \A t \in Threads : Carries(pc[t], job[t])

\* A screen, showing lists of these.
ScreenStates(lists) ==
    [phase : {"off", "entering", "on", "leaving"}, signal : BOOLEAN,
     reading : {"no", "id", "list"}, digest : Known, closed : BOOLEAN, id : Nat,
     shown : [digest : Known, closed : BOOLEAN, gfycats : lists] \union {None},
     missed : BOOLEAN]

ScreensTyping == \E lists : screen \in [Screens -> ScreenStates(lists)]

\* An event that concerns the screen is on its way, or will be.
Pending(s) ==
    \E t \in Threads : pc[t] \in {"mark", "notify"} /\ job[t].feed \in {None, FeedOf[s]}

\* If nothing is to come, what the screen has read is what there is to be read.
UpToDate(s) ==
    /\ screen[s].phase \in {"entering", "on"}
    /\ ~ screen[s].missed /\ ~ screen[s].signal /\ ~ Pending(s)
    => LET row == feeds[FeedOf[s]]
       IN  /\ screen[s].reading = "no" => screen[s].shown = FeedDataOf(FeedOf[s])
           /\ screen[s].reading \in {"id", "list"} =>
                  /\ InUse(FeedOf[s])
                  /\ screen[s].digest = row.digest /\ screen[s].closed = row.closed
           /\ screen[s].reading = "list" => screen[s].id = row.id

ScreensInv ==
    \A s \in Screens :
        /\ screen[s].phase \notin {"entering", "on"} => screen[s].reading = "no"
        /\ UpToDate(s)

IInv == DatabaseInv /\ current \in Snapshots /\ CallsInv /\ ScreensTyping /\ ScreensInv

LEMMA NoJobIsJob == NoJob \in Jobs
BY EmptySeq DEF NoJob, EmptyList, Jobs, Known

LEMMA Initially == MInit => IInv
<1> SUFFICES ASSUME MInit PROVE IInv
  OBVIOUS
<1> USE DEF MInit, Init
<1>1. Absent \notin FeedRows /\ \A f \in Feeds : ~ InUse(f)
  BY ValuesAssumption DEF FeedRows, InUse
<1>2. DatabaseTyping /\ IdsBounded /\ IdsDistinct /\ Owned /\ BlankEnded
  BY <1>1 DEF DatabaseTyping, IdsBounded, IdsDistinct, Owned, BlankEnded
<1>3. Sound(relations)
  BY DEF Sound, Ordered, Bounded, Low
<1>4. DatabaseInv
  <2>1. \A f \in PagedFeeds : f \in Feeds
    BY DEF Feeds
  <2> QED BY <1>1, <1>2, <1>3, <2>1 DEF DatabaseInv
<1>5. current \in Snapshots
  BY ServerAssumption DEF Snapshots
<1>6. CallsInv
  BY NoJobIsJob DEF CallsInv, CallPlaces, Carries
<1>7. Off \in ScreenStates({})
  BY DEF Off, ScreenStates, Known
<1>8. ScreensTyping
  BY <1>7 DEF ScreensTyping
<1>9. ScreensInv
  BY DEF ScreensInv, UpToDate, Off
<1> QED BY <1>4, <1>5, <1>6, <1>8, <1>9 DEF IInv

SameFeed(f) == feeds'[f] = feeds[f] /\ FeedDataOf(f)' = FeedDataOf(f)

\* What a thread does is pending for a screen, or does not concern it.
LEMMA ScreensStay ==
    ASSUME ScreensInv, screen' = screen,
           \A s \in Screens : \/ Pending(s)'
                              \/ SameFeed(FeedOf[s]) /\ (Pending(s) => Pending(s)')
    PROVE  ScreensInv'
<1> SUFFICES ASSUME NEW s \in Screens, UpToDate(s) PROVE UpToDate(s)'
  BY DEF ScreensInv
<1>1. CASE Pending(s)'
  BY <1>1 DEF UpToDate
<1>2. CASE ~ Pending(s)'
  <2>1. SameFeed(FeedOf[s]) /\ ~ Pending(s)
    BY <1>2
  <2> QED BY <1>2, <2>1 DEF UpToDate, SameFeed, InUse
<1> QED BY <1>1, <1>2

LEMMA GotoKeeps ==
    ASSUME CallsInv, NEW t \in Threads, NEW place \in CallPlaces, NEW call \in Jobs,
           Carries(place, call), Goto(t, place, call)
    PROVE  /\ CallsInv' /\ pc'[t] = place /\ job'[t] = call
           /\ \A u \in Threads \ {t} : pc'[u] = pc[u] /\ job'[u] = job[u]
BY DEF CallsInv, Goto

LEMMA PendingStays ==
    ASSUME NEW t \in Threads, pc[t] \notin {"mark", "notify"},
           \A u \in Threads \ {t} : pc'[u] = pc[u] /\ job'[u] = job[u], NEW s
    PROVE  Pending(s) => Pending(s)'
BY DEF Pending

LEMMA DatabaseSame ==
    ASSUME DatabaseInv, UNCHANGED databaseVars
    PROVE  DatabaseInv' /\ \A f : SameFeed(f)
<1>1. DatabaseInv'
  BY DEF databaseVars, DatabaseInv, DatabaseTyping, IdsBounded, IdsDistinct, Owned, BlankEnded,
         InUse
<1>2. ASSUME NEW f PROVE SameFeed(f)
  BY DEF databaseVars, SameFeed, FeedDataOf, Listed, Visible
<1> QED BY <1>1, <1>2

\* A call goes on, and the database is as it was.
LEMMA QuietStep ==
    ASSUME IInv, NEW t \in Threads, pc[t] \notin {"mark", "notify"},
           NEW place \in CallPlaces, NEW call \in Jobs, Carries(place, call),
           Goto(t, place, call), UNCHANGED <<databaseVars, current, screen>>
    PROVE  IInv'
<1>1. /\ CallsInv' /\ \A u \in Threads \ {t} : pc'[u] = pc[u] /\ job'[u] = job[u]
  BY GotoKeeps DEF IInv
<1>2. DatabaseInv' /\ \A f : SameFeed(f)
  BY DatabaseSame DEF IInv
<1>3. ScreensInv'
  BY <1>1, <1>2, PendingStays, ScreensStay DEF IInv
<1> QED BY <1>1, <1>2, <1>3 DEF IInv, ScreensTyping

\* A feed was changed, and its screens are going to be told.
LEMMA AnnouncedStep ==
    ASSUME IInv, NEW t \in Threads, pc[t] \notin {"mark", "notify"},
           NEW f \in Feeds, NEW n \in 1..2, Announce(t, f, n),
           UNCHANGED <<current, screen>>,
           DatabaseInv', OthersKept(f), \A g \in Feeds \ {f} : feeds'[g] = feeds[g],
           \A i \in Items : gfycats'[i] = "deleted" <=> gfycats[i] = "deleted",
           UNCHANGED <<blockedGfycats, blockedUsers>>
    PROVE  IInv'
<1> DEFINE call == [NoJob EXCEPT !.feed = f, !.events = n]
<1>1. call \in Jobs /\ call.feed = f
  <2>1. n \in 0..2
    OBVIOUS
  <2> QED BY <2>1, NoJobIsJob DEF Jobs
<1>2. Goto(t, "notify", call)
  BY DEF Announce
<1> HIDE DEF call
<1>3. /\ CallsInv' /\ pc'[t] = "notify" /\ job'[t].feed = f
      /\ \A u \in Threads \ {t} : pc'[u] = pc[u] /\ job'[u] = job[u]
  BY <1>1, <1>2, GotoKeeps DEF IInv, CallPlaces, Carries
<1>4. ASSUME NEW g \in Feeds \ {f} PROVE SameFeed(g)
  <2>1. feeds'[g] = feeds[g]
    OBVIOUS
  <2>2. CASE ~ InUse(g)
    BY <2>1, <2>2 DEF InUse, SameFeed, FeedDataOf
  <2>3. CASE InUse(g)
    <3>1. \A r : r.feed = feeds[g].id => (r \in relations <=> r \in relations')
      BY <2>3 DEF OthersKept
    <3>2. \A r \in relations : r.gfycat \in Items
      BY DEF IInv, DatabaseInv, Sound, Relations
    <3>3. \A i \in Items : Visible(i)' <=> Visible(i)
      BY DEF Visible
    <3>4. {r \in relations : r.feed = feeds[g].id /\ Visible(r.gfycat)}
              = {r \in relations' : r.feed = feeds[g].id /\ Visible(r.gfycat)'}
      BY <3>1, <3>2, <3>3
    <3>5. Listed(feeds[g].id)' = Listed(feeds[g].id)
      BY <2>1, <3>4 DEF Listed
    <3> QED BY <2>1, <3>5 DEF SameFeed, FeedDataOf
  <2> QED BY <2>2, <2>3
<1>5. ASSUME NEW s \in Screens
      PROVE  Pending(s)' \/ (SameFeed(FeedOf[s]) /\ (Pending(s) => Pending(s)'))
  <2>1. FeedOf[s] \in Feeds
    BY ScreensAssumption
  <2>2. CASE FeedOf[s] = f
    BY <1>3, <2>2 DEF Pending
  <2>3. CASE FeedOf[s] # f
    BY <1>3, <1>4, <2>1, <2>3, PendingStays
  <2> QED BY <2>2, <2>3
<1>6. ScreensInv'
  BY <1>5, ScreensStay DEF IInv
<1> QED BY <1>3, <1>6 DEF IInv, ScreensTyping

\* All screens are going to be told.
LEMMA AllAnnouncedStep ==
    ASSUME IInv, NEW t \in Threads, NEW place \in {"mark", "notify"}, NEW call \in Jobs,
           call.feed = None, Goto(t, place, call), UNCHANGED <<current, screen>>, DatabaseInv'
    PROVE  IInv'
<1>1. CallsInv' /\ pc'[t] = place /\ job'[t] = call
  BY GotoKeeps DEF IInv, CallPlaces, Carries
<1>2. \A s \in Screens : Pending(s)'
  BY <1>1 DEF Pending
<1>3. ScreensInv'
  BY <1>2, ScreensStay DEF IInv
<1> QED BY <1>1, <1>3 DEF IInv, ScreensTyping

\* What hides gfycats changes no feed.
LEMMA MarksKeep ==
    ASSUME DatabaseInv, UNCHANGED <<feeds, relations>>,
           gfycats' \in [Items -> {"none", "live", "deleted"}],
           blockedGfycats' \subseteq Items, blockedUsers' \subseteq Users
    PROVE  DatabaseInv'
BY DEF DatabaseInv, DatabaseTyping, IdsBounded, IdsDistinct, Owned, BlankEnded, InUse

--------------------------------------------------------------------------------
(* The steps *)

LEMMA GetGfycatsStep == ASSUME IInv, NEW t \in Threads, GetGfycats(t) PROVE IInv'
<1>1. PICK f \in PagedFeeds \union SingleFeeds :
          \E list \in IF f \in PagedFeeds THEN FirstPages
                      ELSE {[EmptyList EXCEPT !.items = <<f>>]} :
              Goto(t, "checkFeed", [NoJob EXCEPT !.feed = f, !.list = list])
  BY DEF GetGfycats
<1>2. PICK list \in IF f \in PagedFeeds THEN FirstPages
                    ELSE {[EmptyList EXCEPT !.items = <<f>>]} :
          Goto(t, "checkFeed", [NoJob EXCEPT !.feed = f, !.list = list])
  BY <1>1
<1> DEFINE call == [NoJob EXCEPT !.feed = f, !.list = list]
<1>3. f \in Feeds
  BY DEF Feeds
<1>4. /\ list \in [items : Seq(Items), new : Seq(Items), next : Known]
      /\ list.next # Blank /\ (f \in PagedFeeds => FirstPage(list))
  <2>1. CASE f \in PagedFeeds
    <3>1. list \in FirstPages
      BY <2>1
    <3>2. PICK next \in NextDigests(current, 0 + Len(Page(current, 0))) :
              list = [items |-> Page(current, 0), new |-> <<>>, next |-> next]
      BY <3>1 DEF FirstPages, PageAt
    <3>3. current \in Snapshots /\ IsPage(list, current, 0)
      BY <3>2 DEF IInv, IsPage
    <3>4. list.items \in Seq(Items) /\ list.next \in Known /\ list.next # Blank
      BY <3>3, LengthsNatural, NextIsKnown
    <3> QED BY <3>2, <3>3, <3>4, EmptySeq DEF FirstPage
  <2>2. CASE f \notin PagedFeeds
    <3>1. list = [EmptyList EXCEPT !.items = <<f>>] /\ f \in Items
      BY <2>2, FeedsAssumption
    <3>2. <<f>> \in Seq(Items)
      BY <3>1
    <3> QED BY <2>2, <3>1, <3>2, EmptySeq, ValuesAssumption DEF EmptyList, Known
  <2> QED BY <2>1, <2>2
<1>5. call \in Jobs /\ call.feed = f /\ call.list = list /\ ~ call.append
  BY <1>3, <1>4, NoJobIsJob DEF Jobs, NoJob
<1> HIDE DEF call
<1>6. Carries("checkFeed", call)
  BY <1>3, <1>4, <1>5 DEF Carries
<1>7. Goto(t, "checkFeed", call)
  BY <1>2 DEF call
<1> QED BY <1>5, <1>6, <1>7, QuietStep DEF GetGfycats, CallPlaces

LEMMA GetMoreGfycatsStep == ASSUME IInv, NEW t \in Threads, GetMoreGfycats(t) PROVE IInv'
<1>1. PICK s \in Screens :
          /\ FeedOf[s] \in PagedFeeds
          /\ screen[s].shown # None
          /\ \E list \in MorePages(screen[s].shown.digest) :
                 Goto(t, IF list.items = <<>> /\ list.new = <<>> THEN "close" ELSE "update",
                      [NoJob EXCEPT !.feed = FeedOf[s], !.list = list,
                                    !.previous = screen[s].shown.digest])
  BY DEF GetMoreGfycats
<1> DEFINE previous == screen[s].shown.digest
<1>2. PICK list \in MorePages(previous) :
          Goto(t, IF list.items = <<>> /\ list.new = <<>> THEN "close" ELSE "update",
               [NoJob EXCEPT !.feed = FeedOf[s], !.list = list, !.previous = previous])
  BY <1>1
<1>3. previous \in Known
  <2>1. PICK lists : screen \in [Screens -> ScreenStates(lists)]
    BY DEF IInv, ScreensTyping
  <2> QED BY <1>1, <2>1 DEF ScreenStates
<1> HIDE DEF previous
<1>4. FeedOf[s] \in Feeds
  BY ScreensAssumption
<1>5. ASSUME list \in FirstPages
      PROVE  /\ list \in [items : Seq(Items), new : Seq(Items), next : Known]
             /\ FirstPage(list)
  <2>1. PICK next \in NextDigests(current, 0 + Len(Page(current, 0))) :
            list = [items |-> Page(current, 0), new |-> <<>>, next |-> next]
    BY <1>5 DEF FirstPages, PageAt
  <2>2. current \in Snapshots /\ IsPage(list, current, 0)
    BY <2>1 DEF IInv, IsPage
  <2>3. list.items \in Seq(Items) /\ list.next \in Known
    BY <2>2, LengthsNatural, NextIsKnown
  <2> QED BY <2>1, <2>2, <2>3, EmptySeq DEF FirstPage
<1>6. ASSUME previous \notin {Null, Blank}
      PROVE  /\ list \in [items : Seq(Items), new : Seq(Items), next : Known]
             /\ IsPage(list, previous.snapshot, previous.count)
  <2> DEFINE v == previous.snapshot
             n == previous.count
  <2>1. v \in Snapshots /\ n \in 0..Len(Server[v])
    BY <1>3, <1>6, LengthsNatural DEF Known, Places
  <2>2. list \in PageAt(v, n, News(v))
    BY <1>2, <1>6 DEF MorePages
  <2> HIDE DEF v, n
  <2>3. PICK new \in News(v), next \in NextDigests(v, n + Len(Page(v, n))) :
            list = [items |-> Page(v, n), new |-> new, next |-> next]
    BY <2>2 DEF PageAt
  <2>4. IsPage(list, v, n)
    BY <2>3 DEF IsPage
  <2>5. list.items \in Seq(Items) /\ list.next \in Known
    BY <2>1, <2>4, NextIsKnown
  <2>6. new \in Seq(Items)
    <3>1. Server[current] \in Seq(Items)
      BY ServerAssumption DEF IInv, Snapshots
    <3>2. Server[current] # <<>> => Server[current][1] \in Items
      BY <3>1
    <3>3. new = <<>> \/ (Server[current] # <<>> /\ new = <<Server[current][1]>>)
      BY <2>3 DEF News
    <3>4. Server[current] # <<>> => <<Server[current][1]>> \in Seq(Items)
      BY <3>2
    <3> QED BY <3>3, <3>4, EmptySeq
  <2> QED BY <2>3, <2>4, <2>5, <2>6 DEF v, n
<1>7. EmptyList \in [items : Seq(Items), new : Seq(Items), next : Known]
  BY EmptySeq DEF EmptyList, Known
<1>8. previous = Null => list \in FirstPages
  BY <1>2, ValuesAssumption DEF MorePages
<1>9. previous = Blank => list \in FirstPages \/ list = EmptyList
  BY <1>2, ValuesAssumption DEF MorePages
<1>10. list \in [items : Seq(Items), new : Seq(Items), next : Known]
  BY <1>5, <1>6, <1>7, <1>8, <1>9
<1> DEFINE call == [NoJob EXCEPT !.feed = FeedOf[s], !.list = list, !.previous = previous]
           place == IF list.items = <<>> /\ list.new = <<>> THEN "close" ELSE "update"
<1>11. /\ call \in Jobs /\ call.feed = FeedOf[s] /\ call.list = list
       /\ call.previous = previous
  BY <1>3, <1>4, <1>10, NoJobIsJob DEF Jobs, NoJob
<1>12. place \in {"close", "update"}
  OBVIOUS
<1>13. place = "update" /\ previous = Blank => FirstPage(list)
  <2>1. list = EmptyList => place = "close"
    BY DEF EmptyList
  <2> QED BY <1>5, <1>9, <2>1
<1>14. Goto(t, place, call)
  BY <1>2
<1> HIDE DEF call, place
<1>15. Carries(place, call)
  BY <1>1, <1>6, <1>11, <1>12, <1>13 DEF Carries
<1> QED BY <1>11, <1>12, <1>14, <1>15, QuietStep DEF GetMoreGfycats, CallPlaces

LEMMA AddRecentGfycatStep == ASSUME IInv, NEW t \in Threads, AddRecentGfycat(t) PROVE IInv'
<1>1. PICK g \in Items :
          Goto(t, "insert", [NoJob EXCEPT !.feed = Recent, !.mode = "Close", !.append = TRUE,
                                          !.list = [EmptyList EXCEPT !.new = <<g>>]])
  BY DEF AddRecentGfycat
<1> DEFINE list == [EmptyList EXCEPT !.new = <<g>>]
           call == [NoJob EXCEPT !.feed = Recent, !.mode = "Close", !.append = TRUE,
                                 !.list = list]
<1>2. Recent \in Feeds /\ Recent \notin PagedFeeds /\ <<g>> \in Seq(Items)
  BY FeedsAssumption DEF Feeds
<1>3. list \in [items : Seq(Items), new : Seq(Items), next : Known] /\ list.next # Blank
  BY <1>2, EmptySeq, ValuesAssumption DEF EmptyList, Known
<1> HIDE DEF list
<1>4. call \in Jobs /\ call.feed = Recent /\ call.list = list
  BY <1>2, <1>3, NoJobIsJob DEF Jobs, NoJob
<1>5. Goto(t, "insert", call)
  BY <1>1 DEF list
<1> HIDE DEF call
<1>6. Carries("insert", call)
  BY <1>2, <1>3, <1>4 DEF Carries
<1> QED BY <1>4, <1>5, <1>6, QuietStep DEF AddRecentGfycat, CallPlaces

LEMMA DropFeedStep == ASSUME IInv, NEW t \in Threads, DropFeed(t) PROVE IInv'
<1>1. PICK f \in Feeds : DeleteFeed(f) /\ Announce(t, f, 2)
  BY DEF DropFeed
<1>2. DatabaseInv' /\ OthersKept(f)
  BY <1>1, DeleteFeedKeeps DEF IInv
<1>3. \A g \in Feeds \ {f} : feeds'[g] = feeds[g]
  BY <1>1 DEF DeleteFeed, IInv, DatabaseInv, DatabaseTyping
<1> QED BY <1>1, <1>2, <1>3, AnnouncedStep DEF DropFeed, DeleteFeed

LEMMA MarkDeletedStep == ASSUME IInv, NEW t \in Threads, MarkDeleted(t) PROVE IInv'
<1>1. PICK g \in Items, deleted \in BOOLEAN :
          /\ IF deleted /\ g \in SingleFeeds THEN DeleteFeed(g) ELSE UNCHANGED databaseVars
          /\ Goto(t, "mark", [NoJob EXCEPT !.gfycat = g, !.deleted = deleted])
  BY DEF MarkDeleted
<1>2. DatabaseInv'
  <2>1. CASE deleted /\ g \in SingleFeeds
    BY <1>1, <2>1, DeleteFeedKeeps DEF IInv, Feeds
  <2>2. CASE ~ (deleted /\ g \in SingleFeeds)
    BY <1>1, <2>2, DatabaseSame DEF IInv
  <2> QED BY <2>1, <2>2
<1> DEFINE call == [NoJob EXCEPT !.gfycat = g, !.deleted = deleted]
<1>3. call \in Jobs /\ call.feed = None
  BY NoJobIsJob DEF Jobs, NoJob
<1> HIDE DEF call
<1>4. Goto(t, "mark", call)
  BY <1>1 DEF call
<1> QED BY <1>2, <1>3, <1>4, AllAnnouncedStep DEF MarkDeleted

LEMMA NotifyAll ==
    ASSUME IInv, NEW t \in Threads, Announce(t, None, 1), UNCHANGED <<current, screen>>,
           DatabaseInv'
    PROVE  IInv'
<1> DEFINE call == [NoJob EXCEPT !.feed = None, !.events = 1]
<1>1. call \in Jobs /\ call.feed = None
  <2>1. 1 \in 0..2
    OBVIOUS
  <2> QED BY <2>1, NoJobIsJob DEF Jobs
<1> HIDE DEF call
<1>2. Goto(t, "notify", call)
  BY DEF Announce, call
<1> QED BY <1>1, <1>2, AllAnnouncedStep

LEMMA UpdateGfycatStep == ASSUME IInv, NEW t \in Threads, UpdateGfycatAndNotify(t) PROVE IInv'
<1>1. MarkGfycat(job[t].gfycat, job[t].deleted) /\ Announce(t, None, 1)
  BY DEF UpdateGfycatAndNotify
<1>2. gfycats' \in [Items -> {"none", "live", "deleted"}]
  BY <1>1 DEF MarkGfycat, IInv, DatabaseInv, DatabaseTyping
<1>3. DatabaseInv'
  BY <1>1, <1>2, MarksKeep DEF MarkGfycat, IInv, DatabaseInv, DatabaseTyping
<1> QED BY <1>1, <1>3, NotifyAll DEF UpdateGfycatAndNotify

LEMMA BlockStep == ASSUME IInv, NEW t \in Threads, Block(t) PROVE IInv'
<1>1. PICK block \in BOOLEAN :
          \/ \E g \in Items : BlockItem(g, block)
          \/ \E u \in Users : BlockUser(u, block)
  BY DEF Block
<1>2. DatabaseInv'
  <2>1. ASSUME NEW g \in Items, BlockItem(g, block) PROVE DatabaseInv'
    <3>1. blockedGfycats' \subseteq Items
      BY <2>1 DEF BlockItem, IInv, DatabaseInv, DatabaseTyping
    <3> QED BY <2>1, <3>1, MarksKeep DEF BlockItem, IInv, DatabaseInv, DatabaseTyping
  <2>2. ASSUME NEW u \in Users, BlockUser(u, block) PROVE DatabaseInv'
    <3>1. blockedUsers' \subseteq Users
      BY <2>2 DEF BlockUser, IInv, DatabaseInv, DatabaseTyping
    <3> QED BY <2>2, <3>1, MarksKeep DEF BlockUser, IInv, DatabaseInv, DatabaseTyping
  <2> QED BY <1>1, <2>1, <2>2
<1> QED BY <1>2, NotifyAll DEF Block

LEMMA ThreadFacts ==
    ASSUME IInv, NEW t \in Threads
    PROVE  job[t] \in Jobs /\ Carries(pc[t], job[t])
BY DEF IInv, CallsInv

LEMMA FinishStep ==
    ASSUME IInv, NEW t \in Threads, pc[t] \notin {"mark", "notify"}, Finish(t),
           UNCHANGED <<databaseVars, current, screen>>
    PROVE  IInv'
<1>1. Carries("idle", NoJob) /\ "idle" \in CallPlaces
  BY DEF Carries, CallPlaces
<1> QED BY <1>1, NoJobIsJob, QuietStep DEF Finish

LEMMA CheckFeedStep == ASSUME IInv, NEW t \in Threads, CheckFeed(t) PROVE IInv'
<1>1. /\ pc[t] = "checkFeed" /\ job[t] \in Jobs /\ Carries("checkFeed", job[t])
      /\ UNCHANGED <<databaseVars, current, screen>>
  BY ThreadFacts DEF CheckFeed
<1>2. CASE Goto(t, "insert", job[t])
  <2>1. Carries("insert", job[t]) /\ "insert" \in CallPlaces
    BY <1>1 DEF Carries, CallPlaces
  <2> QED BY <1>1, <1>2, <2>1, QuietStep
<1> DEFINE call == [job[t] EXCEPT !.id = IdOf(job[t].feed)]
<1>3. CASE feeds[job[t].feed] # Absent /\ Goto(t, "checkItems", call)
  <2>1. job[t].feed \in Feeds
    BY <1>1 DEF Carries
  <2>2. IdOf(job[t].feed) \in Nat
    BY <1>3, <2>1, RowFacts DEF IInv, IdOf, InUse
  <2>3. /\ call \in Jobs /\ call.feed = job[t].feed /\ call.list = job[t].list
        /\ call.append = job[t].append
    BY <1>1, <2>2 DEF Jobs
  <2> HIDE DEF call
  <2>4. Carries("checkItems", call) /\ "checkItems" \in CallPlaces
    BY <1>1, <2>3 DEF Carries, CallPlaces
  <2> QED BY <1>1, <1>3, <2>3, <2>4, QuietStep
<1> QED BY <1>2, <1>3 DEF CheckFeed

LEMMA CheckItemsStep == ASSUME IInv, NEW t \in Threads, CheckItems(t) PROVE IInv'
<1>1. /\ pc[t] = "checkItems" /\ job[t] \in Jobs /\ Carries("checkItems", job[t])
      /\ UNCHANGED <<databaseVars, current, screen>>
  BY ThreadFacts DEF CheckItems
<1>2. CASE Goto(t, "insert", job[t])
  <2>1. Carries("insert", job[t]) /\ "insert" \in CallPlaces
    BY <1>1 DEF Carries, CallPlaces
  <2> QED BY <1>1, <1>2, <2>1, QuietStep
<1>3. CASE Finish(t)
  BY <1>1, <1>3, FinishStep
<1> QED BY <1>2, <1>3 DEF CheckItems

LEMMA AbandonStep == ASSUME IInv, NEW t \in Threads, Abandon(t) PROVE IInv'
<1>1. pc[t] \notin {"mark", "notify"}
  BY DEF Abandon, WrongDigest
<1> QED BY <1>1, FinishStep DEF Abandon

LEMMA HiddenSame ==
    ASSUME DatabaseInv, NEW list, gfycats' = KnownWith(list)
    PROVE  \A i \in Items : gfycats'[i] = "deleted" <=> gfycats[i] = "deleted"
BY DEF KnownWith

LEMMA InsertStep == ASSUME IInv, NEW t \in Threads, Insert(t) PROVE IInv'
<1> DEFINE f == job[t].feed
           list == job[t].list
<1>1. /\ pc[t] = "insert" /\ InsertFeed(f, list, job[t].mode, job[t].append)
      /\ Announce(t, f, 1) /\ UNCHANGED <<current, screen>>
  BY DEF Insert, Committed
<1>2. /\ f \in Feeds /\ list.items \in Seq(Items) /\ list.new \in Seq(Items)
      /\ list.next \in Known /\ list.next # Blank /\ job[t].append \in BOOLEAN
      /\ f \in PagedFeeds => ~ job[t].append /\ FirstPage(list)
  BY <1>1, ThreadFacts DEF Jobs, Carries
<1> HIDE DEF f, list
<1>3. DatabaseInv' /\ OthersKept(f)
  BY <1>1, <1>2, InsertFeedKeeps DEF IInv
<1>4. \A g \in Feeds \ {f} : feeds'[g] = feeds[g]
  BY <1>1 DEF InsertFeed, InsertIfNotExistFeed, InsertOrReplaceFeed, IInv, DatabaseInv,
              DatabaseTyping
<1>5. /\ \A i \in Items : gfycats'[i] = "deleted" <=> gfycats[i] = "deleted"
      /\ UNCHANGED <<blockedGfycats, blockedUsers>>
  BY <1>1, HiddenSame DEF InsertFeed, IInv
<1> QED BY <1>1, <1>2, <1>3, <1>4, <1>5, AnnouncedStep

LEMMA UpdateStep == ASSUME IInv, NEW t \in Threads, Update(t) PROVE IInv'
<1> DEFINE f == job[t].feed
           list == job[t].list
           previous == job[t].previous
<1>1. /\ pc[t] = "update" /\ UpdateFeed(f, previous, list)
      /\ Announce(t, f, 1) /\ UNCHANGED <<current, screen>>
  BY DEF Update, Committed
<1>2. /\ f \in PagedFeeds /\ list.new \in Seq(Items) /\ previous \in Known
      /\ previous = Blank => FirstPage(list)
      /\ previous \notin {Null, Blank} => IsPage(list, previous.snapshot, previous.count)
  BY <1>1, ThreadFacts DEF Jobs, Carries
<1> HIDE DEF f, list, previous
<1>3. DatabaseInv' /\ OthersKept(f) /\ f \in Feeds
  BY <1>1, <1>2, UpdateFeedKeeps DEF IInv, Feeds
<1>4. \A g \in Feeds \ {f} : feeds'[g] = feeds[g]
  BY <1>1 DEF UpdateFeed, IInv, DatabaseInv, DatabaseTyping
<1>5. /\ \A i \in Items : gfycats'[i] = "deleted" <=> gfycats[i] = "deleted"
      /\ UNCHANGED <<blockedGfycats, blockedUsers>>
  BY <1>1, HiddenSame DEF UpdateFeed, IInv
<1> QED BY <1>1, <1>3, <1>4, <1>5, AnnouncedStep

LEMMA CloseStep == ASSUME IInv, NEW t \in Threads, Close(t) PROVE IInv'
<1> DEFINE f == job[t].feed
<1>1. /\ pc[t] = "close" /\ CloseFeed(f, job[t].previous)
      /\ Announce(t, f, 1) /\ UNCHANGED <<current, screen>>
  BY DEF Close, Committed
<1>2. f \in Feeds
  BY <1>1, ThreadFacts DEF Carries, Feeds
<1> HIDE DEF f
<1>3. DatabaseInv' /\ OthersKept(f)
  BY <1>1, <1>2, CloseFeedKeeps DEF IInv
<1>4. /\ \A g \in Feeds \ {f} : feeds'[g] = feeds[g]
      /\ UNCHANGED <<gfycats, blockedGfycats, blockedUsers>>
  BY <1>1 DEF CloseFeed, IInv, DatabaseInv, DatabaseTyping
<1> QED BY <1>1, <1>2, <1>3, <1>4, AnnouncedStep

\* A tour of the bus tells each screen it concerns, or is known to have failed it.
LEMMA NotifyStep == ASSUME IInv, NEW t \in Threads, Notify(t) PROVE IInv'
<1> DEFINE feed == job[t].feed
           again == [NoJob EXCEPT !.feed = feed, !.events = job[t].events - 1]
<1>1. /\ pc[t] = "notify" /\ UNCHANGED <<databaseVars, current>>
      /\ job[t] \in Jobs
  BY ThreadFacts DEF Notify
<1>2. PICK told \in SUBSET ObserversOf(feed) :
          /\ screen' = [s \in Screens |-> Told(s, feed, told)]
          /\ IF told = ObserversOf(feed) /\ job[t].events > 1
             THEN Announce(t, feed, job[t].events - 1) ELSE Finish(t)
  BY DEF Notify
<1>3. feed \in Feeds \union {None} /\ job[t].events \in 0..2
  BY <1>1 DEF Jobs
<1> HIDE DEF feed
<1>4. /\ CallsInv' /\ \A u \in Threads \ {t} : pc'[u] = pc[u] /\ job'[u] = job[u]
  <2>1. CASE Finish(t)
    <3>1. Carries("idle", NoJob) /\ "idle" \in CallPlaces
      BY DEF Carries, CallPlaces
    <3> QED BY <2>1, <3>1, NoJobIsJob, GotoKeeps DEF Finish, IInv
  <2>2. CASE job[t].events > 1 /\ Announce(t, feed, job[t].events - 1)
    <3>1. job[t].events - 1 \in 0..2
      BY <1>3, <2>2
    <3>2. again \in Jobs
      BY <1>3, <3>1, NoJobIsJob DEF Jobs
    <3>3. Goto(t, "notify", again)
      BY <2>2 DEF Announce
    <3> HIDE DEF again
    <3>4. Carries("notify", again) /\ "notify" \in CallPlaces
      BY DEF Carries, CallPlaces
    <3> QED BY <3>2, <3>3, <3>4, GotoKeeps DEF IInv
  <2> QED BY <1>2, <2>1, <2>2
<1>5. DatabaseInv' /\ \A f : SameFeed(f)
  BY <1>1, DatabaseSame DEF IInv
<1>6. PICK lists : screen \in [Screens -> ScreenStates(lists)]
  BY DEF IInv, ScreensTyping
<1>7. ASSUME NEW s \in Screens
      PROVE  /\ screen'[s] \in ScreenStates(lists)
             /\ screen'[s].phase = screen[s].phase /\ screen'[s].reading = screen[s].reading
             /\ screen'[s].digest = screen[s].digest /\ screen'[s].closed = screen[s].closed
             /\ screen'[s].id = screen[s].id /\ screen'[s].shown = screen[s].shown
             /\ screen[s].signal => screen'[s].signal
             /\ screen[s].missed => screen'[s].missed
             /\ feed \in {None, FeedOf[s]} /\ screen[s].phase # "off" =>
                    screen'[s].signal \/ screen'[s].missed
  <2>1. screen'[s] = Told(s, feed, told) /\ screen[s] \in ScreenStates(lists)
    BY <1>2, <1>6
  <2> DEFINE x == screen[s]
             concerned == x.phase # "off" /\ ~ x.signal /\ feed \in {None, FeedOf[s]}
  <2>2. \/ screen'[s] = [x EXCEPT !.signal = TRUE]
        \/ concerned /\ screen'[s] = [x EXCEPT !.missed = TRUE]
        \/ ~ concerned /\ screen'[s] = x
    BY <2>1 DEF Told
  <2>3. /\ [x EXCEPT !.signal = TRUE] \in ScreenStates(lists)
        /\ [x EXCEPT !.missed = TRUE] \in ScreenStates(lists)
    BY <2>1 DEF ScreenStates
  <2>4. x \in ScreenStates(lists)
    BY <2>1
  <2> HIDE DEF x
  <2>5. CASE screen'[s] = [x EXCEPT !.signal = TRUE]
    BY <2>3, <2>4, <2>5 DEF ScreenStates, x
  <2>6. CASE concerned /\ screen'[s] = [x EXCEPT !.missed = TRUE]
    BY <2>3, <2>4, <2>6 DEF ScreenStates, x
  <2>7. CASE ~ concerned /\ screen'[s] = x
    BY <2>4, <2>7 DEF x
  <2> QED BY <2>2, <2>5, <2>6, <2>7
<1>8. ScreensTyping'
  <2>1. screen' \in [Screens -> ScreenStates(lists)]
    BY <1>2, <1>7
  <2> QED BY <2>1 DEF ScreensTyping
<1>9. ASSUME NEW s \in Screens PROVE UpToDate(s)'
  <2>1. SUFFICES ASSUME screen'[s].phase \in {"entering", "on"}, ~ screen'[s].missed,
                        ~ screen'[s].signal, ~ Pending(s)'
                 PROVE  UpToDate(s)'
    BY DEF UpToDate
  <2>2. feed \notin {None, FeedOf[s]}
    BY <1>7, <2>1
  <2>3. ~ Pending(s)
    BY <1>4, <2>1, <2>2 DEF Pending, feed
  <2>4. UpToDate(s)
    BY DEF IInv, ScreensInv
  <2> QED BY <1>5, <1>7, <2>1, <2>3, <2>4 DEF UpToDate, SameFeed, InUse
<1>10. ScreensInv'
  BY <1>7, <1>9 DEF IInv, ScreensInv
<1> QED BY <1>1, <1>4, <1>5, <1>8, <1>10 DEF IInv

LEMMA ServerStep == ASSUME IInv, ServerMoves PROVE IInv'
<1>1. current + 1 \in Snapshots
  BY ServerAssumption DEF ServerMoves, IInv, Snapshots
<1>2. DatabaseInv' /\ \A f : SameFeed(f)
  BY DatabaseSame DEF IInv, ServerMoves
<1>3. CallsInv' /\ \A s : Pending(s) => Pending(s)'
  BY DEF IInv, ServerMoves, CallsInv, Pending
<1>4. ScreensInv'
  BY <1>2, <1>3, ScreensStay DEF IInv, ServerMoves
<1> QED BY <1>1, <1>2, <1>3, <1>4 DEF IInv, ServerMoves, ScreensTyping

--------------------------------------------------------------------------------
(* Screens *)

\* Only this screen moves, to a state that is as up to date as it has to be.
LEMMA OneScreen ==
    ASSUME IInv, NEW s \in Screens, NEW lists, NEW more,
           screen \in [Screens -> ScreenStates(lists)], lists \subseteq more,
           NEW x \in ScreenStates(more), screen' = [screen EXCEPT ![s] = x],
           UNCHANGED <<databaseVars, current, pc, job>>,
           x.phase \notin {"entering", "on"} => x.reading = "no",
           UpToDate(s)'
    PROVE  IInv'
<1>1. DatabaseInv' /\ \A f : SameFeed(f)
  BY DatabaseSame DEF IInv
<1>2. CallsInv' /\ \A u : Pending(u)' <=> Pending(u)
  BY DEF IInv, CallsInv, Pending
<1>3. \A u \in Screens \ {s} : screen'[u] = screen[u]
  OBVIOUS
<1>4. screen'[s] = x
  OBVIOUS
<1>5. ScreensTyping'
  <2>1. \A u \in Screens : screen[u] \in ScreenStates(more)
    BY DEF ScreenStates
  <2>2. screen' \in [Screens -> ScreenStates(more)]
    BY <2>1
  <2> QED BY <2>2 DEF ScreensTyping
<1>6. ASSUME NEW u \in Screens \ {s} PROVE UpToDate(u)'
  <2>1. UpToDate(u)
    BY DEF IInv, ScreensInv
  <2> QED BY <1>1, <1>2, <1>3, <2>1 DEF UpToDate, SameFeed, InUse
<1>7. ScreensInv'
  BY <1>3, <1>4, <1>6 DEF IInv, ScreensInv
<1> QED BY <1>1, <1>2, <1>5, <1>7 DEF IInv

LEMMA EnterStep == ASSUME IInv, NEW s \in Screens, Enter(s) PROVE IInv'
<1> DEFINE x == [Off EXCEPT !.phase = "entering", !.signal = TRUE]
<1>1. PICK lists : screen \in [Screens -> ScreenStates(lists)]
  BY DEF IInv, ScreensTyping
<1>2. x \in ScreenStates(lists) /\ x.phase = "entering" /\ x.signal
  BY DEF Off, ScreenStates, Known
<1> HIDE DEF x
<1>3. screen' = [screen EXCEPT ![s] = x] /\ UNCHANGED <<databaseVars, current, pc, job>>
  BY DEF Enter, x
<1>4. UpToDate(s)'
  BY <1>1, <1>2, <1>3 DEF UpToDate
<1> QED BY <1>1, <1>2, <1>3, <1>4, OneScreen

LEMMA LeavesStep == ASSUME IInv, NEW s \in Screens, Leave(s) \/ Unregister(s) PROVE IInv'
<1>1. PICK x \in {Off, [Off EXCEPT !.phase = "leaving"]} :
          screen' = [screen EXCEPT ![s] = x] /\ UNCHANGED <<databaseVars, current, pc, job>>
  BY DEF Leave, Unregister
<1>2. PICK lists : screen \in [Screens -> ScreenStates(lists)]
  BY DEF IInv, ScreensTyping
<1>3. /\ x \in ScreenStates(lists) /\ x.phase \notin {"entering", "on"}
      /\ x.reading = "no"
  <2>1. CASE x = Off
    BY <2>1 DEF Off, ScreenStates, Known
  <2>2. CASE x = [Off EXCEPT !.phase = "leaving"]
    BY <2>2 DEF Off, ScreenStates, Known
  <2> QED BY <2>1, <2>2
<1>4. UpToDate(s)'
  BY <1>1, <1>2, <1>3 DEF UpToDate
<1> QED BY <1>1, <1>2, <1>3, <1>4, OneScreen

LEMMA RegisterStep == ASSUME IInv, NEW s \in Screens, Register(s) PROVE IInv'
<1> DEFINE x == [screen[s] EXCEPT !.phase = "on"]
<1>1. PICK lists : screen \in [Screens -> ScreenStates(lists)]
  BY DEF IInv, ScreensTyping
<1>2. x \in ScreenStates(lists) /\ x.phase = "on"
  BY <1>1 DEF ScreenStates
<1>3. /\ x.missed = screen[s].missed /\ x.signal = screen[s].signal
      /\ x.reading = screen[s].reading /\ x.digest = screen[s].digest
      /\ x.closed = screen[s].closed /\ x.id = screen[s].id /\ x.shown = screen[s].shown
  BY <1>1 DEF ScreenStates
<1>4. /\ screen' = [screen EXCEPT ![s] = x] /\ UNCHANGED <<databaseVars, current, pc, job>>
      /\ screen[s].phase = "entering"
  BY DEF Register
<1> HIDE DEF x
<1>5. screen'[s] = x
  BY <1>1, <1>4
<1>6. UpToDate(s) /\ SameFeed(FeedOf[s]) /\ (Pending(s)' <=> Pending(s))
  BY <1>4, DatabaseSame DEF IInv, ScreensInv, Pending
<1>7. UpToDate(s)'
  BY <1>2, <1>3, <1>4, <1>5, <1>6 DEF UpToDate, SameFeed, InUse
<1> QED BY <1>1, <1>2, <1>4, <1>7, OneScreen

\* A screen that shows what its reads gave.
Showing(x, digest, closed, list) ==
    [x EXCEPT !.signal = IF x.reading = "no" THEN FALSE ELSE @, !.reading = "no",
              !.digest = Null, !.closed = FALSE, !.id = 0,
              !.shown = [digest |-> digest, closed |-> closed, gfycats |-> list]]

LEMMA ShowStep ==
    ASSUME IInv, NEW s \in Screens, NEW digest \in Known, NEW closed \in BOOLEAN, NEW list,
           Show(s, digest, closed, list), UNCHANGED <<databaseVars, current, pc, job>>,
           /\ screen[s].phase \in {"entering", "on"} /\ ~ screen[s].missed /\ ~ Pending(s)
           /\ screen[s].reading # "no" => ~ screen[s].signal
           => FeedDataOf(FeedOf[s]) = [digest |-> digest, closed |-> closed, gfycats |-> list]
    PROVE  IInv'
<1> DEFINE now == [digest |-> digest, closed |-> closed, gfycats |-> list]
           x == Showing(screen[s], digest, closed, list)
<1>1. PICK lists : screen \in [Screens -> ScreenStates(lists)]
  BY DEF IInv, ScreensTyping
<1> DEFINE more == lists \union {list}
<1>2. now \in [digest : Known, closed : BOOLEAN, gfycats : more]
  OBVIOUS
<1>3. screen[s] \in ScreenStates(more)
  BY <1>1 DEF ScreenStates
<1> HIDE DEF now, more
<1>4. /\ x \in ScreenStates(more) /\ x.shown = now /\ x.reading = "no"
      /\ x.phase = screen[s].phase /\ x.missed = screen[s].missed
      /\ x.signal = IF screen[s].reading = "no" THEN FALSE ELSE screen[s].signal
  BY <1>2, <1>3 DEF Showing, ScreenStates, Known, now
<1>5. screen' = [screen EXCEPT ![s] = x]
  BY DEF Show, Showing
<1> HIDE DEF x
<1>6. screen'[s] = x
  BY <1>1, <1>5
<1>7. SameFeed(FeedOf[s]) /\ (Pending(s)' <=> Pending(s))
  BY DatabaseSame DEF IInv, Pending
<1>8. UpToDate(s)'
  BY <1>4, <1>6, <1>7 DEF UpToDate, SameFeed, now
<1>9. lists \subseteq more
  BY DEF more
<1> QED BY <1>1, <1>4, <1>5, <1>8, <1>9, OneScreen

LEMMA ReadFeedStep == ASSUME IInv, NEW s \in Screens, ReadFeed(s) PROVE IInv'
<1> DEFINE row == feeds[FeedOf[s]]
           x == [screen[s] EXCEPT !.signal = FALSE, !.reading = "id",
                                  !.digest = row.digest, !.closed = row.closed]
<1>1. /\ screen[s].signal /\ screen[s].reading = "no"
      /\ screen[s].phase \in {"entering", "on"}
      /\ UNCHANGED <<databaseVars, current, pc, job>> /\ FeedOf[s] \in Feeds
  BY ScreensAssumption DEF ReadFeed
<1>2. CASE row = Absent
  <2>1. Show(s, Null, FALSE, <<>>)
    BY <1>2 DEF ReadFeed
  <2>2. FeedDataOf(FeedOf[s]) = [digest |-> Null, closed |-> FALSE, gfycats |-> <<>>]
    BY <1>2 DEF FeedDataOf
  <2>3. Null \in Known
    BY DEF Known
  <2> QED BY <1>1, <2>1, <2>2, <2>3, ShowStep
<1>3. CASE row # Absent
  <2>1. PICK lists : screen \in [Screens -> ScreenStates(lists)]
    BY DEF IInv, ScreensTyping
  <2>2. row.digest \in Known /\ row.closed \in BOOLEAN
    BY <1>1, <1>3, RowFacts DEF IInv, InUse, FeedRows, Rows
  <2>3. screen' = [screen EXCEPT ![s] = x]
    BY <1>3 DEF ReadFeed
  <2> HIDE DEF row
  <2>4. /\ x \in ScreenStates(lists) /\ x.phase = screen[s].phase /\ x.reading = "id"
        /\ x.digest = row.digest /\ x.closed = row.closed
    BY <2>1, <2>2 DEF ScreenStates
  <2> HIDE DEF x
  <2>5. screen'[s] = x
    BY <2>1, <2>3
  <2>6. SameFeed(FeedOf[s])
    BY <1>1, DatabaseSame DEF IInv
  <2>7. UpToDate(s)'
    BY <1>3, <2>4, <2>5, <2>6 DEF UpToDate, SameFeed, InUse, row
  <2> QED BY <1>1, <2>1, <2>3, <2>4, <2>7, OneScreen
<1> QED BY <1>2, <1>3

LEMMA ReadIdStep == ASSUME IInv, NEW s \in Screens, ReadId(s) PROVE IInv'
<1> DEFINE x == [screen[s] EXCEPT !.reading = "list", !.id = IdOf(FeedOf[s])]
<1>1. /\ screen[s].reading = "id" /\ UNCHANGED <<databaseVars, current, pc, job>>
      /\ screen' = [screen EXCEPT ![s] = x] /\ FeedOf[s] \in Feeds
  BY ScreensAssumption DEF ReadId
<1>2. PICK lists : screen \in [Screens -> ScreenStates(lists)]
  BY DEF IInv, ScreensTyping
<1>3. IdOf(FeedOf[s]) \in Nat
  BY <1>1, RowFacts DEF IInv, IdOf, InUse
<1>4. /\ x \in ScreenStates(lists) /\ x.phase = screen[s].phase /\ x.reading = "list"
      /\ x.signal = screen[s].signal /\ x.missed = screen[s].missed
      /\ x.digest = screen[s].digest /\ x.closed = screen[s].closed /\ x.id = IdOf(FeedOf[s])
  BY <1>2, <1>3 DEF ScreenStates
<1> HIDE DEF x
<1>5. screen'[s] = x
  BY <1>1, <1>2
<1>6. /\ UpToDate(s) /\ SameFeed(FeedOf[s]) /\ (Pending(s)' <=> Pending(s))
      /\ screen[s].phase \in {"entering", "on"}
  BY <1>1, DatabaseSame DEF IInv, ScreensInv, Pending
<1>7. UpToDate(s)'
  BY <1>1, <1>4, <1>5, <1>6 DEF UpToDate, SameFeed, InUse, IdOf
<1> QED BY <1>1, <1>2, <1>4, <1>6, <1>7, OneScreen

LEMMA ReadListStep == ASSUME IInv, NEW s \in Screens, ReadList(s) PROVE IInv'
<1>1. /\ screen[s].reading = "list" /\ UNCHANGED <<databaseVars, current, pc, job>>
      /\ Show(s, screen[s].digest, screen[s].closed, Listed(screen[s].id))
  BY DEF ReadList
<1>2. PICK lists : screen \in [Screens -> ScreenStates(lists)]
  BY DEF IInv, ScreensTyping
<1>3. screen[s].digest \in Known /\ screen[s].closed \in BOOLEAN
  BY <1>2 DEF ScreenStates
<1>4. UpToDate(s)
  BY DEF IInv, ScreensInv
<1>5. ASSUME screen[s].phase \in {"entering", "on"}, ~ screen[s].missed, ~ Pending(s),
             ~ screen[s].signal
      PROVE  FeedDataOf(FeedOf[s]) = [digest |-> screen[s].digest, closed |-> screen[s].closed,
                                      gfycats |-> Listed(screen[s].id)]
  BY <1>1, <1>4, <1>5 DEF UpToDate, FeedDataOf, InUse
<1> QED BY <1>1, <1>3, <1>5, ShowStep

LEMMA Step == IInv /\ [Next]_vars => IInv'
<1> SUFFICES ASSUME IInv, [Next]_vars PROVE IInv'
  OBVIOUS
<1>1. CASE ServerMoves
  BY <1>1, ServerStep
<1>2. ASSUME NEW t \in Threads, Call(t) PROVE IInv'
  BY <1>2, GetGfycatsStep, GetMoreGfycatsStep, AddRecentGfycatStep, DropFeedStep,
     MarkDeletedStep, BlockStep DEF Call
<1>3. ASSUME NEW t \in Threads, Proceed(t) PROVE IInv'
  BY <1>3, CheckFeedStep, CheckItemsStep, InsertStep, UpdateStep, CloseStep, AbandonStep,
     UpdateGfycatStep, NotifyStep DEF Proceed
<1>4. ASSUME NEW s \in Screens, Observe(s) PROVE IInv'
  BY <1>4, EnterStep, RegisterStep, LeavesStep, ReadFeedStep, ReadIdStep, ReadListStep
     DEF Observe
<1>5. CASE UNCHANGED vars
  <2>1. /\ UNCHANGED <<databaseVars, current, pc, job, screen>>
    BY <1>5 DEF vars, managerVars
  <2>2. DatabaseInv' /\ \A f : SameFeed(f)
    BY <2>1, DatabaseSame DEF IInv
  <2>3. CallsInv' /\ \A s : Pending(s) => Pending(s)'
    BY <2>1 DEF IInv, CallsInv, Pending
  <2>4. ScreensInv'
    BY <2>1, <2>2, <2>3, ScreensStay DEF IInv
  <2> QED BY <2>1, <2>2, <2>3, <2>4 DEF IInv, ScreensTyping
<1> QED BY <1>1, <1>2, <1>3, <1>4, <1>5 DEF Next

--------------------------------------------------------------------------------
(* Theorems *)

LEMMA Invariance == Spec => []IInv
<1>1. MInit => IInv
  BY Initially
<1>2. IInv /\ [Next]_vars => IInv'
  BY Step
<1> QED BY <1>1, <1>2, PTL DEF Spec

\* No gfycat is in a feed twice, nor two at one index, whatever pages overlap and
\* whatever ids are used again.
THEOREM OrderIsDefined == Spec => []OrderDefined
<1>1. IInv => OrderDefined
  BY PromisesMean DEF IInv
<1> QED BY <1>1, Invariance, PTL

\* All that the digest of a feed has passed is in the feed: a page that comes
\* after a refresh, a deletion or another page of the feed is not added.
THEOREM NothingLeftOut == Spec => []NoGap
<1>1. IInv => NoGap
  BY PromisesMean DEF IInv
<1> QED BY <1>1, Invariance, PTL

\* Pages stand in the order of the one server list that the digest goes through.
THEOREM OrderIsServers == Spec => []PagesInOrder
<1>1. IInv => PagesInOrder
  BY PromisesMean DEF IInv
<1> QED BY <1>1, Invariance, PTL

\* A screen that was told of every change, and has read, shows its feed as it is,
\* although it reads it in three statements.
THEOREM ScreensAreCurrent == Spec => []ShownIsCurrent
<1>1. IInv => ShownIsCurrent
  BY DEF IInv, ScreensInv, UpToDate, Pending, ShownIsCurrent
<1> QED BY <1>1, Invariance, PTL

================================================================================
