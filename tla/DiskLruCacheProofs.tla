---------------------------- MODULE DiskLruCacheProofs ----------------------------
(***************************************************************************)
(* For any clients, keys and lengths, however often the cache is opened:   *)
(* values are published whole, editors are not displaced, the size of a    *)
(* cache that began empty is the sum of its entries' lengths, and its      *)
(* journal is complete at every instant.                                   *)
(***************************************************************************)
EXTENDS DiskLruCache, FiniteSetTheorems, TLAPS

(* Induction.  The library states its principles for operators; here they   *)
(* are needed for sets, of which the least natural number not in one is     *)
(* the counterexample.                                                     *)

Below == {p \in Nat \X Nat : p[1] < p[2]}

LEMMA NoDescent == IsWellFoundedOn(Below, Nat)
<1>1. OpToRel(<, Nat) = Below
  BY DEF OpToRel, Below
<1> QED BY <1>1, NatLessThanWellFounded

LEMMA Induction ==
    ASSUME NEW P \in SUBSET Nat, 0 \in P, \A n \in P : n + 1 \in P
    PROVE  P = Nat
<1> DEFINE C == Nat \ P
<1> SUFFICES ASSUME C # {} PROVE FALSE
  OBVIOUS
<1>1. PICK x \in C : \A y \in C : <<y, x>> \notin Below
  BY NoDescent, WFMin
<1>2. x # 0 /\ x - 1 \in Nat /\ x - 1 < x
  BY <1>1
<1>3. <<x - 1, x>> \in Below
  BY <1>1, <1>2 DEF Below
<1>4. x - 1 \in P
  BY <1>1, <1>2, <1>3
<1> QED BY <1>1, <1>2, <1>4

--------------------------------------------------------------------------------
(* Iterating over the map *)

\* The iteration, as far as position n.
SelectedTo(order, S, sel, n) ==
    IF n = 0 THEN << >>
    ELSE IF order[n] \in S THEN Append(sel[n - 1], order[n])
    ELSE sel[n - 1]

Iteration(order, S, sel, n) == sel = [i \in 0..n |-> SelectedTo(order, S, sel, i)]

LEMMA IterationExists ==
    ASSUME NEW order \in Seq(Keys), NEW S
    PROVE  \E sel : Iteration(order, S, sel, Len(order))
<1> DEFINE P == {n \in Nat : \E sel : Iteration(order, S, sel, n)}
<1>1. 0 \in P
  <2>1. Iteration(order, S, [i \in 0..0 |-> << >>], 0)
    BY DEF Iteration, SelectedTo
  <2> QED BY <2>1
<1>2. ASSUME NEW n \in Nat, NEW sel, Iteration(order, S, sel, n)
      PROVE  \E more : Iteration(order, S, more, n + 1)
  <2> DEFINE more == [i \in 0..(n + 1) |->
                         IF i = n + 1 THEN SelectedTo(order, S, sel, n + 1) ELSE sel[i]]
  <2>1. ASSUME NEW i \in 0..(n + 1) PROVE more[i] = SelectedTo(order, S, more, i)
    <3>1. i # 0 => more[i - 1] = sel[i - 1]
      OBVIOUS
    <3>2. SelectedTo(order, S, more, i) = SelectedTo(order, S, sel, i)
      BY <3>1 DEF SelectedTo
    <3>3. i # n + 1 => sel[i] = SelectedTo(order, S, sel, i)
      BY <1>2 DEF Iteration
    <3> QED BY <3>2, <3>3
  <2>2. Iteration(order, S, more, n + 1)
    BY <2>1 DEF Iteration
  <2> QED BY <2>2
<1>3. \A n \in P : n + 1 \in P
  BY <1>2
<1> HIDE DEF P
<1>4. P = Nat
  BY <1>1, <1>3, Induction DEF P
<1>5. Len(order) \in P
  BY <1>4
<1> QED BY <1>5 DEF P

LEMMA SelectedIsIteration ==
    ASSUME NEW order \in Seq(Keys), NEW S
    PROVE  \E sel : Iteration(order, S, sel, Len(order)) /\ Selected(order, S) = sel[Len(order)]
<1> DEFINE sel == CHOOSE f : Iteration(order, S, f, Len(order))
<1>1. Iteration(order, S, sel, Len(order))
  BY IterationExists
<1>2. Selected(order, S) = sel[Len(order)]
  BY DEF Selected, Iteration, SelectedTo
<1> HIDE DEF sel
<1> QED BY <1>1, <1>2

LEMMA AppendFacts ==
    ASSUME NEW s \in Seq(Keys), NEW k \in Keys
    PROVE  /\ Append(s, k) \in Seq(Keys)
           /\ ToSet(Append(s, k)) = ToSet(s) \union {k}
           /\ IsInjective(s) /\ k \notin ToSet(s) => IsInjective(Append(s, k))
<1>1. /\ DOMAIN Append(s, k) = DOMAIN s \union {Len(s) + 1}
      /\ \A i \in DOMAIN s : Append(s, k)[i] = s[i]
      /\ Append(s, k)[Len(s) + 1] = k
  OBVIOUS
<1>2. ToSet(Append(s, k)) = ToSet(s) \union {k}
  BY <1>1 DEF ToSet
<1>3. IsInjective(s) /\ k \notin ToSet(s) => IsInjective(Append(s, k))
  BY <1>1 DEF ToSet, IsInjective
<1> QED BY <1>2, <1>3

\* What an iteration selects: the keys in S, each once if the map has it once.
LEMMA SelectedFacts ==
    ASSUME NEW order \in Seq(Keys), NEW S
    PROVE  /\ Selected(order, S) \in Seq(Keys)
           /\ ToSet(Selected(order, S)) = ToSet(order) \cap S
           /\ IsInjective(order) => IsInjective(Selected(order, S))
<1>1. PICK sel : Iteration(order, S, sel, Len(order)) /\ Selected(order, S) = sel[Len(order)]
  BY SelectedIsIteration
<1>2. \A n \in 0..Len(order) : sel[n] = SelectedTo(order, S, sel, n)
  BY <1>1 DEF Iteration
<1> DEFINE first(n) == {order[i] : i \in 1..n}
           Right(n) == /\ sel[n] \in Seq(Keys)
                       /\ ToSet(sel[n]) = first(n) \cap S
                       /\ IsInjective(order) => IsInjective(sel[n])
           P == {n \in Nat : n <= Len(order) => Right(n)}
<1>3. 0 \in P
  <2>1. sel[0] = << >>
    BY <1>2 DEF SelectedTo
  <2>2. ToSet(<< >>) = {} /\ first(0) = {} /\ IsInjective(<< >>)
    BY DEF ToSet, IsInjective
  <2>3. << >> \in Seq(Keys) /\ 0 <= Len(order)
    OBVIOUS
  <2> HIDE DEF first
  <2>4. Right(0)
    BY <2>1, <2>2, <2>3
  <2> QED BY <2>4
<1>4. ASSUME NEW n \in Nat, n + 1 <= Len(order), Right(n) PROVE Right(n + 1)
  <2> DEFINE k == order[n + 1]
  <2>1. /\ n \in 0..Len(order) /\ n + 1 \in 0..Len(order)
        /\ n + 1 # 0 /\ (n + 1) - 1 = n /\ k \in Keys
    BY <1>4
  <2>2. first(n + 1) = first(n) \union {k}
    BY <1>4
  <2>3. CASE k \in S
    <3>1. sel[n + 1] = Append(sel[n], k)
      BY <1>2, <2>1, <2>3 DEF SelectedTo
    <3>2. IsInjective(order) => k \notin first(n)
      BY <1>4 DEF IsInjective
    <3> HIDE DEF first, k
    <3>3. sel[n] \in Seq(Keys) /\ k \in Keys
      BY <1>4, <2>1
    <3>4. ToSet(sel[n + 1]) = first(n + 1) \cap S
      BY <1>4, <2>2, <2>3, <3>1, <3>3, AppendFacts
    <3>5. IsInjective(order) => IsInjective(sel[n + 1])
      BY <1>4, <3>1, <3>2, <3>3, AppendFacts
    <3> QED BY <3>1, <3>3, <3>4, <3>5, AppendFacts
  <2>4. CASE k \notin S
    <3>1. sel[n + 1] = sel[n]
      BY <1>2, <2>1, <2>4 DEF SelectedTo
    <3> HIDE DEF first
    <3> QED BY <1>4, <2>2, <2>4, <3>1
  <2> QED BY <2>3, <2>4
<1>5. \A n \in P : n + 1 \in P
  <2> HIDE DEF Right
  <2> QED BY <1>4
<1>6. Right(Len(order))
  <2> HIDE DEF Right
  <2>1. P \in SUBSET Nat
    OBVIOUS
  <2> HIDE DEF P
  <2>2. P = Nat
    BY <1>3, <1>5, <2>1, Induction
  <2>3. Len(order) \in P /\ Len(order) \in Nat
    BY <2>2
  <2> QED BY <2>3 DEF P
<1>7. ToSet(order) = first(Len(order))
  BY DEF ToSet
<1> QED BY <1>1, <1>6, <1>7

LEMMA WithoutFacts ==
    ASSUME NEW order \in Seq(Keys), IsInjective(order), NEW k \in Keys
    PROVE  /\ Without(order, k) \in Seq(Keys) /\ IsInjective(Without(order, k))
           /\ ToSet(Without(order, k)) = ToSet(order) \ {k}
<1>1. ToSet(order) \cap (Keys \ {k}) = ToSet(order) \ {k}
  BY DEF ToSet
<1> QED BY <1>1, SelectedFacts DEF Without

LEMMA TouchedFacts ==
    ASSUME NEW order \in Seq(Keys), IsInjective(order), NEW k \in Keys
    PROVE  /\ Touched(order, k) \in Seq(Keys) /\ IsInjective(Touched(order, k))
           /\ ToSet(Touched(order, k)) = ToSet(order) \union {k}
<1>1. /\ Without(order, k) \in Seq(Keys) /\ IsInjective(Without(order, k))
      /\ ToSet(Without(order, k)) = ToSet(order) \ {k}
  BY WithoutFacts
<1> QED BY <1>1, AppendFacts DEF Touched

LEMMA ContainedIsInSet ==
    ASSUME NEW order \in Seq(Keys), NEW k
    PROVE  Contains(order, k) <=> k \in ToSet(order)
BY DEF Contains, ToSet

LEMMA OrderIsFinite ==
    ASSUME NEW order \in Seq(Keys)
    PROVE  IsFiniteSet(ToSet(order)) /\ ToSet(order) \subseteq Keys
<1>1. order \in Surjection(1..Len(order), ToSet(order))
  BY DEF Surjection, ToSet
<1>2. IsFiniteSet(1..Len(order))
  BY FS_Interval
<1> QED BY <1>1, <1>2, FS_Surjection DEF ToSet

--------------------------------------------------------------------------------
(* Adding lengths up *)

\* The sum over U takes one key after the other from it.
Taken(S) == CHOOSE k \in S : TRUE

Summing(e, U, sum) ==
    sum = [S \in SUBSET U |->
              IF S = {} THEN 0 ELSE e[Taken(S)].length + sum[S \ {Taken(S)}]]

\* The sets of at most n keys are summed up.
SummedTo(e, U, sum, n) ==
    \A S \in SUBSET U : Cardinality(S) <= n =>
        sum[S] = IF S = {} THEN 0 ELSE e[Taken(S)].length + sum[S \ {Taken(S)}]

LEMMA Subsets ==
    ASSUME NEW U, IsFiniteSet(U), NEW S \in SUBSET U
    PROVE  /\ IsFiniteSet(S) /\ Cardinality(S) \in Nat
           /\ Cardinality(S) <= Cardinality(U)
           /\ Cardinality(S) <= 0 <=> S = {}
<1>1. IsFiniteSet(S) /\ Cardinality(S) <= Cardinality(U)
  BY FS_Subset
<1>2. Cardinality(S) \in Nat /\ (Cardinality(S) = 0 <=> S = {})
  BY <1>1, FS_CardinalityType, FS_EmptySet
<1> QED BY <1>1, <1>2

LEMMA SubsetsWithout ==
    ASSUME NEW U, IsFiniteSet(U), NEW S \in SUBSET U, NEW k \in S
    PROVE  /\ S \ {k} \in SUBSET U
           /\ Cardinality(S \ {k}) \in Nat
           /\ Cardinality(S \ {k}) + 1 = Cardinality(S)
<1>1. IsFiniteSet(S) /\ Cardinality(S) \in Nat /\ Cardinality(S \ {k}) \in Nat
  BY Subsets
<1>2. Cardinality(S \ {k}) = Cardinality(S) - 1
  BY <1>1, FS_RemoveElement
<1> QED BY <1>1, <1>2

LEMMA TakenIsIn == ASSUME NEW S, S # {} PROVE Taken(S) \in S
BY DEF Taken

LEMMA SummingExists ==
    ASSUME NEW e, NEW U, IsFiniteSet(U)
    PROVE  \E sum : Summing(e, U, sum)
<1> DEFINE P == {n \in Nat : \E sum : SummedTo(e, U, sum, n)}
<1>1. 0 \in P
  <2> DEFINE zero == [S \in SUBSET U |-> 0]
  <2>1. ASSUME NEW S \in SUBSET U, Cardinality(S) <= 0
        PROVE  zero[S] = IF S = {} THEN 0 ELSE e[Taken(S)].length + zero[S \ {Taken(S)}]
    BY <2>1, Subsets
  <2> HIDE DEF zero
  <2>2. SummedTo(e, U, zero, 0)
    BY <2>1 DEF SummedTo
  <2> QED BY <2>2
<1>2. ASSUME NEW n \in Nat, NEW sum, SummedTo(e, U, sum, n)
      PROVE  \E more : SummedTo(e, U, more, n + 1)
  <2> DEFINE more == [S \in SUBSET U |->
                IF Cardinality(S) <= n THEN sum[S]
                ELSE e[Taken(S)].length + sum[S \ {Taken(S)}]]
  <2>1. ASSUME NEW S \in SUBSET U, Cardinality(S) <= n + 1
        PROVE  more[S] = IF S = {} THEN 0 ELSE e[Taken(S)].length + more[S \ {Taken(S)}]
    <3>0. Cardinality(S) \in Nat
      BY Subsets
    <3>1. CASE S = {}
      <4>1. Cardinality(S) <= n
        BY <3>0, <3>1, Subsets
      <4> QED BY <4>1, <3>1, <1>2 DEF SummedTo
    <3>2. CASE S # {}
      <4> DEFINE T == S \ {Taken(S)}
      <4>1. T \in SUBSET U /\ Cardinality(T) \in Nat /\ Cardinality(T) + 1 = Cardinality(S)
        BY <3>2, TakenIsIn, SubsetsWithout
      <4> HIDE DEF T
      <4>2. Cardinality(T) <= n
        BY <4>1, <3>0, <2>1
      <4>3. more[T] = sum[T]
        BY <4>1, <4>2
      <4>4. more[S] = e[Taken(S)].length + sum[T]
        BY <1>2, <3>2 DEF SummedTo, T
      <4> QED BY <3>2, <4>3, <4>4 DEF T
    <3> QED BY <3>1, <3>2
  <2> HIDE DEF more
  <2>2. SummedTo(e, U, more, n + 1)
    BY <2>1 DEF SummedTo
  <2> QED BY <2>2
<1>3. \A n \in P : n + 1 \in P
  BY <1>2
<1> HIDE DEF P
<1>4. P = Nat
  BY <1>1, <1>3, Induction DEF P
<1>5. Cardinality(U) \in P
  BY <1>4, Subsets
<1>6. PICK sum : SummedTo(e, U, sum, Cardinality(U))
  BY <1>5 DEF P
<1> DEFINE all == [S \in SUBSET U |-> sum[S]]
<1>7. ASSUME NEW S \in SUBSET U
      PROVE  all[S] = IF S = {} THEN 0 ELSE e[Taken(S)].length + all[S \ {Taken(S)}]
  <2>1. Cardinality(S) <= Cardinality(U)
    BY Subsets
  <2>2. S \ {Taken(S)} \in SUBSET U
    OBVIOUS
  <2> QED BY <1>6, <2>1, <2>2 DEF SummedTo
<1>8. Summing(e, U, all)
  BY <1>7 DEF Summing
<1> QED BY <1>8

LEMMA TotalIsSum ==
    ASSUME NEW e, NEW U, IsFiniteSet(U)
    PROVE  \E sum : Summing(e, U, sum) /\ TotalLength(e, U) = sum[U]
<1> DEFINE sum == CHOOSE f : Summing(e, U, f)
<1>1. Summing(e, U, sum)
  BY SummingExists
<1>2. TotalLength(e, U) = sum[U]
  BY DEF TotalLength, MapThenSumSet, MapThenFoldSet, Summing, Taken
<1> HIDE DEF sum
<1> QED BY <1>1, <1>2

\* What is summed up does not depend on the set it is part of, nor on how the
\* entries outside it are.
LEMMA SumsAgree ==
    ASSUME NEW e, NEW d, NEW U, IsFiniteSet(U), NEW V, IsFiniteSet(V),
           NEW s, Summing(e, U, s), NEW t, Summing(d, V, t),
           \A k \in U \cap V : e[k].length = d[k].length,
           NEW S \in SUBSET (U \cap V)
    PROVE  s[S] = t[S]
<1> DEFINE P == {n \in Nat : \A T \in SUBSET (U \cap V) :
                    Cardinality(T) <= n => s[T] = t[T]}
<1>0. IsFiniteSet(U \cap V)
  <2>1. U \cap V \in SUBSET U
    OBVIOUS
  <2> QED BY <2>1, FS_Subset
<1>1. ASSUME NEW T \in SUBSET (U \cap V)
      PROVE  /\ s[T] = IF T = {} THEN 0 ELSE e[Taken(T)].length + s[T \ {Taken(T)}]
             /\ t[T] = IF T = {} THEN 0 ELSE d[Taken(T)].length + t[T \ {Taken(T)}]
  BY DEF Summing
<1>2. 0 \in P
  <2>1. ASSUME NEW T \in SUBSET (U \cap V), Cardinality(T) <= 0 PROVE s[T] = t[T]
    <3>1. T = {}
      BY <1>0, <2>1, Subsets
    <3> QED BY <1>1, <3>1
  <2> QED BY <2>1
<1>3. ASSUME NEW n \in P, NEW T \in SUBSET (U \cap V), Cardinality(T) <= n + 1
      PROVE  s[T] = t[T]
  <2>1. CASE T = {}
    BY <1>1, <2>1
  <2>2. CASE T # {}
    <3> DEFINE R == T \ {Taken(T)}
    <3>1. /\ R \in SUBSET (U \cap V) /\ Taken(T) \in U \cap V
          /\ Cardinality(R) \in Nat /\ Cardinality(R) + 1 = Cardinality(T)
      BY <1>0, <2>2, TakenIsIn, SubsetsWithout
    <3>2. Cardinality(R) <= n /\ n \in Nat
      BY <1>3, <3>1
    <3>3. s[R] = t[R]
      BY <3>1, <3>2
    <3> QED BY <1>1, <2>2, <3>1, <3>3
  <2> QED BY <2>1, <2>2
<1>4. \A n \in P : n + 1 \in P
  BY <1>3
<1> HIDE DEF P
<1>5. P = Nat
  BY <1>2, <1>4, Induction DEF P
<1>6. Cardinality(S) \in P /\ Cardinality(S) <= Cardinality(S)
  BY <1>0, <1>5, Subsets
<1> QED BY <1>6 DEF P

LEMMA TotalSame ==
    ASSUME NEW e, NEW d, NEW S, IsFiniteSet(S), \A k \in S : e[k].length = d[k].length
    PROVE  TotalLength(e, S) = TotalLength(d, S)
<1>1. PICK s : Summing(e, S, s) /\ TotalLength(e, S) = s[S]
  BY TotalIsSum
<1>2. PICK t : Summing(d, S, t) /\ TotalLength(d, S) = t[S]
  BY TotalIsSum
<1>3. S \in SUBSET (S \cap S)
  OBVIOUS
<1>4. s[S] = t[S]
  BY <1>1, <1>2, <1>3, SumsAgree
<1> QED BY <1>1, <1>2, <1>4

LEMMA TotalUnfolds ==
    ASSUME NEW e, NEW S, IsFiniteSet(S)
    PROVE  TotalLength(e, S) =
               IF S = {} THEN 0 ELSE e[Taken(S)].length + TotalLength(e, S \ {Taken(S)})
<1> DEFINE R == S \ {Taken(S)}
<1>1. PICK s : Summing(e, S, s) /\ TotalLength(e, S) = s[S]
  BY TotalIsSum
<1>2. IsFiniteSet(R)
  BY FS_Subset
<1>3. PICK t : Summing(e, R, t) /\ TotalLength(e, R) = t[R]
  BY <1>2, TotalIsSum
<1>4. R \in SUBSET (S \cap R)
  OBVIOUS
<1>5. s[R] = t[R]
  BY <1>1, <1>2, <1>3, <1>4, SumsAgree
<1>6. s[S] = IF S = {} THEN 0 ELSE e[Taken(S)].length + s[R]
  BY <1>1 DEF Summing
<1> QED BY <1>1, <1>3, <1>5, <1>6

\* The order in which lengths are added does not matter.
LEMMA TotalWithout ==
    ASSUME NEW e \in [Keys -> Entries], NEW U \in SUBSET Keys, IsFiniteSet(U)
    PROVE  /\ TotalLength(e, U) \in Int
           /\ \A k \in U : TotalLength(e, U) = TotalLength(e, U \ {k}) + e[k].length
<1> DEFINE Right(S) == /\ TotalLength(e, S) \in Int
                       /\ \A k \in S : TotalLength(e, S)
                                         = TotalLength(e, S \ {k}) + e[k].length
           P == {n \in Nat : \A S \in SUBSET U : Cardinality(S) <= n => Right(S)}
<1>0. \A k \in U : e[k].length \in Int
  BY DEF Entries
<1>1. 0 \in P
  <2>1. ASSUME NEW S \in SUBSET U, Cardinality(S) <= 0 PROVE Right(S)
    <3>1. S = {} /\ IsFiniteSet(S)
      BY <2>1, Subsets
    <3>2. TotalLength(e, S) = 0
      BY <3>1, TotalUnfolds
    <3> QED BY <3>1, <3>2
  <2> HIDE DEF Right
  <2> QED BY <2>1
<1>2. ASSUME NEW n \in P, NEW S \in SUBSET U, Cardinality(S) <= n + 1 PROVE Right(S)
  <2>0. n \in Nat /\ \A T \in SUBSET U : Cardinality(T) <= n => Right(T)
    <3> HIDE DEF Right
    <3> QED BY <1>2
  <2>1. CASE S = {}
    <3>1. IsFiniteSet(S)
      BY Subsets
    <3>2. TotalLength(e, S) = 0
      BY <2>1, <3>1, TotalUnfolds
    <3> QED BY <2>1, <3>2
  <2>2. CASE S # {}
    <3> DEFINE j == Taken(S)
    <3>1. j \in S
      BY <2>2, TakenIsIn
    <3> HIDE DEF j
    <3>2. ASSUME NEW k \in S PROVE S \ {k} \in SUBSET U /\ Right(S \ {k})
      <4>1. /\ S \ {k} \in SUBSET U /\ Cardinality(S \ {k}) \in Nat
            /\ Cardinality(S \ {k}) + 1 = Cardinality(S)
        BY SubsetsWithout
      <4>2. Cardinality(S \ {k}) <= n
        BY <1>2, <2>0, <4>1
      <4> HIDE DEF Right
      <4> QED BY <2>0, <4>1, <4>2
    <3>3. TotalLength(e, S) = e[j].length + TotalLength(e, S \ {j})
      <4>1. IsFiniteSet(S)
        BY Subsets
      <4> QED BY <2>2, <4>1, TotalUnfolds DEF j
    <3>4. TotalLength(e, S) \in Int
      BY <1>0, <3>1, <3>2, <3>3
    <3>5. ASSUME NEW k \in S, k # j
          PROVE  TotalLength(e, S) = TotalLength(e, S \ {k}) + e[k].length
      <4> DEFINE R == (S \ {j}) \ {k}
      <4>1. R = (S \ {k}) \ {j} /\ k \in S \ {j} /\ j \in S \ {k}
        BY <3>1, <3>5
      <4>2. /\ TotalLength(e, S \ {j}) = TotalLength(e, R) + e[k].length
            /\ TotalLength(e, S \ {k}) = TotalLength(e, R) + e[j].length
        <5> HIDE DEF R
        <5>1. Right(S \ {j}) /\ Right(S \ {k})
          BY <3>1, <3>2, <3>5
        <5> QED BY <4>1, <5>1 DEF R
      <4>3. TotalLength(e, S \ {j}) \in Int /\ TotalLength(e, S \ {k}) \in Int
        BY <3>1, <3>2, <3>5
      <4>4. TotalLength(e, R) \in Int
        <5>1. S \ {j} \in SUBSET U /\ k \in S \ {j}
          BY <3>1, <3>2, <4>1
        <5>2. /\ R \in SUBSET U /\ Cardinality(R) \in Nat
              /\ Cardinality(R) + 1 = Cardinality(S \ {j})
          <6> DEFINE T == S \ {j}
          <6>1. T \in SUBSET U /\ k \in T
            BY <5>1
          <6> HIDE DEF T
          <6>2. /\ T \ {k} \in SUBSET U /\ Cardinality(T \ {k}) \in Nat
                /\ Cardinality(T \ {k}) + 1 = Cardinality(T)
            BY <6>1, SubsetsWithout
          <6> QED BY <6>2 DEF T
        <5>3. Cardinality(S \ {j}) \in Nat /\ Cardinality(S \ {j}) + 1 = Cardinality(S)
          BY <3>1, SubsetsWithout
        <5> HIDE DEF R
        <5>4. Cardinality(R) <= n
          BY <1>2, <2>0, <5>2, <5>3
        <5>5. Right(R)
          <6> HIDE DEF Right
          <6> QED BY <2>0, <5>2, <5>4
        <5> QED BY <5>5
      <4> HIDE DEF R
      <4> QED BY <1>0, <3>1, <3>3, <3>5, <4>2, <4>3, <4>4
    <3>6. TotalLength(e, S) = TotalLength(e, S \ {j}) + e[j].length
      BY <1>0, <3>1, <3>2, <3>3
    <3> QED BY <3>4, <3>5, <3>6
  <2> QED BY <2>1, <2>2
<1>3. \A n \in P : n + 1 \in P
  <2> HIDE DEF Right
  <2> QED BY <1>2
<1>4. Right(U)
  <2> HIDE DEF Right
  <2>1. P \in SUBSET Nat
    OBVIOUS
  <2> HIDE DEF P
  <2>2. P = Nat
    BY <1>1, <1>3, <2>1, Induction
  <2>3. Cardinality(U) \in P /\ Cardinality(U) <= Cardinality(U) /\ U \in SUBSET U
    BY <2>2, Subsets
  <2> QED BY <2>3 DEF P
<1> QED BY <1>4

--------------------------------------------------------------------------------
(* The invariant *)

Bounds == edits \in 0..MaxEdits /\ opens \in 0..MaxOpens

ClientsOK == client \in [Clients -> {Idle} \union Editors]

MemoryOK ==
    /\ lru \in Seq(Keys) /\ IsInjective(lru)
    /\ entry \in [Keys -> Entries]
    /\ \A k \in Keys : k \notin ToSet(lru) => entry[k] = Absent
    /\ size \in Int
    /\ open \in BOOLEAN /\ cleanupSubmitted \in BOOLEAN

\* The images that are replayed to a map.
Replays == {image \in Images : IsInjective(image.order)}

FilesOK ==
    /\ clean \in [Keys -> Files] /\ dirty \in [Keys -> Files]
    /\ journal \in Replays \union {NoFile} /\ backup \in Replays \union {NoFile}
    /\ written \in Replays

MonitorOK ==
    /\ monitor \in {"free", "cleanup", "flush", "abort", "close", "backup", "rename", "delete"}
    /\ fresh \in BOOLEAN

\* What the one who edits an entry may commit from a file of his own was written
\* to its end.
CommitsWhole ==
    \A c \in Clients :
        client[c].pc = "commit" /\ Current(c) /\ Succeeded(c) /\ client[c].stream = "file"
            => dirty[client[c].key] # Partial

\* In a cache that began empty, an entry has a length once it is published.
UnpublishedEmpty ==
    open /\ fresh => \A k \in Keys : ~ entry[k].readable => entry[k].length = 0

\* Nothing is being edited once close() has aborted the edits.
NothingEdited == \A k \in Keys : entry[k].editor = NoClient
ClosedUnedited ==
    /\ ~ open => monitor = "free"
    /\ ~ open \/ monitor = "close" => NothingEdited

\* An image, replayed, would mark the entries being edited and know the others.
Covers(e, image) ==
    \A k \in Keys :
        /\ e[k].editor # NoClient <=> image.entry[k].editor # NoClient
        /\ e[k].readable /\ e[k].editor = NoClient => image.entry[k].readable

JournalCovers == journal # NoFile /\ Covers(entry, journal) /\ Covers(entry, written)
BackupCovers == journal = NoFile /\ backup # NoFile /\ Covers(entry, backup)

\* There is a journal that covers memory, in its file and with the buffer, or
\* while the two files are exchanged the backup does.
Journaled ==
    open /\ fresh => IF monitor = "rename" THEN BackupCovers ELSE JournalCovers

\* What an operation on an entry changes, whoever calls it.
Core ==
    /\ MemoryOK /\ FilesOK /\ SizeAccounting /\ UnpublishedEmpty
    /\ (open /\ fresh => JournalCovers)

IInv ==
    /\ Bounds /\ ClientsOK /\ MemoryOK /\ FilesOK /\ MonitorOK
    /\ CommitsWhole
    /\ SizeAccounting /\ UnpublishedEmpty
    /\ ClosedUnedited /\ Journaled

--------------------------------------------------------------------------------
(* What lines do to the journal and its image *)

LEMMA NoClientIsNone ==
    /\ \A c \in Clients : c # NoClient
    /\ Replayed # NoClient /\ Partial # NoFile
    /\ Partial \notin Lengths /\ NoFile \notin Lengths
    /\ \A image \in Replays : image # NoFile
BY ModelValuesAssumption, JournalAssumption DEF Replays

LEMMA LengthFacts == \A file \in Files : LengthOf(file) \in Int
<1> SUFFICES ASSUME NEW file \in Files PROVE LengthOf(file) \in Int
  OBVIOUS
<1>1. CASE file \in Lengths
  BY <1>1, NoClientIsNone, LengthsAssumption DEF LengthOf
<1>2. CASE file = NoFile \/ file = Partial
  BY <1>2, NoClientIsNone, LengthsAssumption DEF LengthOf
<1> QED BY <1>1, <1>2 DEF Files

LEMMA AbsentIsEntry == Absent \in Entries
BY DEF Absent, Entries

LEMMA ReplayTypes ==
    ASSUME NEW image \in Replays, NEW k \in Keys, NEW n \in Int
    PROVE  /\ ReplayDirty(image, k) \in Replays /\ ReplayClean(image, k, n) \in Replays
           /\ ReplayRead(image, k) \in Replays /\ ReplayRemove(image, k) \in Replays
<1>1. /\ image.order \in Seq(Keys) /\ image.entry \in [Keys -> Entries]
      /\ IsInjective(image.order)
  BY DEF Images, Replays
<1>2. /\ Without(image.order, k) \in Seq(Keys) /\ IsInjective(Without(image.order, k))
      /\ Touched(image.order, k) \in Seq(Keys) /\ IsInjective(Touched(image.order, k))
  BY <1>1, WithoutFacts, TouchedFacts
<1>3. [image.entry EXCEPT ![k].editor = Replayed] \in [Keys -> Entries]
  BY <1>1 DEF Entries
<1>4. [image.entry EXCEPT ![k] = [length |-> n, readable |-> TRUE, editor |-> NoClient]]
          \in [Keys -> Entries]
  BY <1>1 DEF Entries
<1>5. [image.entry EXCEPT ![k] = Absent] \in [Keys -> Entries]
  BY <1>1, AbsentIsEntry
<1>6. ReplayDirty(image, k) \in Replays
  BY <1>2, <1>3 DEF ReplayDirty, Images, Replays
<1>7. ReplayClean(image, k, n) \in Replays
  BY <1>2, <1>4 DEF ReplayClean, Images, Replays
<1>8. ReplayRead(image, k) \in Replays
  BY <1>1, <1>2 DEF ReplayRead, Images, Replays
<1>9. ReplayRemove(image, k) \in Replays
  BY <1>2, <1>5 DEF ReplayRemove, Images, Replays
<1> QED BY <1>6, <1>7, <1>8, <1>9

LEMMA ReplayEffects ==
    ASSUME NEW image \in Replays, NEW k \in Keys, NEW n \in Int
    PROVE  /\ ReplayDirty(image, k).entry[k].editor = Replayed
           /\ ReplayClean(image, k, n).entry[k].editor = NoClient
           /\ ReplayClean(image, k, n).entry[k].readable
           /\ ReplayRemove(image, k).entry[k].editor = NoClient
           /\ ReplayRead(image, k).entry = image.entry
           /\ \A j \in Keys \ {k} :
                 /\ ReplayDirty(image, k).entry[j] = image.entry[j]
                 /\ ReplayClean(image, k, n).entry[j] = image.entry[j]
                 /\ ReplayRemove(image, k).entry[j] = image.entry[j]
<1>1. image.entry \in [Keys -> Entries]
  BY DEF Images, Replays
<1>2. image.entry[k] \in Entries
  BY <1>1
<1>3. ReplayRead(image, k).entry = image.entry
  BY DEF ReplayRead, Images, Replays
<1> QED BY <1>1, <1>2, <1>3 DEF ReplayDirty, ReplayClean, ReplayRemove, Absent, Entries

LEMMA FlushedFacts ==
    ASSUME FilesOK, NEW image \in Replays, Flushed(image)
    PROVE  /\ journal' \in Replays \union {NoFile} /\ written' \in Replays
           /\ journal # NoFile => journal' = image /\ written' = image /\ journal' # NoFile
BY NoClientIsNone DEF FilesOK, Flushed

LEMMA BufferedFacts ==
    ASSUME FilesOK, NEW image \in Replays, Buffered(image)
    PROVE  /\ journal' \in Replays \union {NoFile} /\ written' \in Replays
           /\ journal # NoFile => /\ journal' \in {journal, image} /\ written' = image
                                 /\ journal' # NoFile
BY NoClientIsNone DEF FilesOK, Buffered

--------------------------------------------------------------------------------
(* Operations on an entry *)

LEMMA EntryFacts ==
    ASSUME MemoryOK
    PROVE  /\ \A k \in Keys : /\ entry[k] \in Entries
                              /\ entry[k].length \in Int /\ entry[k].readable \in BOOLEAN
                              /\ entry[k].editor \in Clients \union {NoClient, Replayed}
           /\ \A k \in Keys : entry[k].editor # NoClient \/ entry[k].readable
                                => k \in ToSet(lru)
           /\ IsFiniteSet(ToSet(lru)) /\ ToSet(lru) \subseteq Keys
<1>1. \A k \in Keys : entry[k] \in Entries
  BY DEF MemoryOK
<1>2. \A k \in Keys : k \notin ToSet(lru) => entry[k].editor = NoClient /\ ~ entry[k].readable
  BY DEF MemoryOK, Absent
<1> QED BY <1>1, <1>2, OrderIsFinite DEF MemoryOK, Entries

\* A removal leaves every editor its entry.
LEMMA RemoveEntryKeeps ==
    ASSUME Core, NEW k \in Keys, RemoveEntry(k), UNCHANGED <<dirty, backup, fresh>>
    PROVE  /\ Core' /\ open' = open
           /\ \A j \in Keys : entry'[j].editor = entry[j].editor
<1> USE DEF Core
<1>0. Contains(lru, k) <=> k \in ToSet(lru)
  BY ContainedIsInSet DEF MemoryOK
<1>1. CASE ~ Contains(lru, k)
  <2>1. UNCHANGED <<memory, clean, journal, written>>
    BY <1>1 DEF RemoveEntry
  <2> QED BY <2>1 DEF memory, MemoryOK, FilesOK, SizeAccounting, UnpublishedEmpty,
                      JournalCovers, Covers
<1>2. CASE Contains(lru, k) /\ entry[k].editor # NoClient
  <2>1. /\ lru' = Touched(lru, k)
        /\ UNCHANGED <<entry, size, open, cleanupSubmitted, clean, journal, written>>
    BY <1>2 DEF RemoveEntry
  <2>2. lru' \in Seq(Keys) /\ IsInjective(lru') /\ ToSet(lru') = ToSet(lru)
    <3>1. ToSet(lru) \union {k} = ToSet(lru)
      BY <1>0, <1>2
    <3> QED BY <2>1, <3>1, TouchedFacts DEF MemoryOK
  <2> QED BY <2>1, <2>2 DEF MemoryOK, FilesOK, SizeAccounting, UnpublishedEmpty,
                             JournalCovers, Covers
<1>3. CASE Contains(lru, k) /\ entry[k].editor = NoClient
  <2>1. /\ lru' = Without(lru, k)
        /\ entry' = [entry EXCEPT ![k] = Absent]
        /\ size' = size - entry[k].length
        /\ clean' = [clean EXCEPT ![k] = NoFile]
        /\ Buffered(ReplayRemove(written, k))
        /\ CountOp(FALSE)
        /\ open' = open
    BY <1>3 DEF RemoveEntry
  <2>2. lru' \in Seq(Keys) /\ IsInjective(lru') /\ ToSet(lru') = ToSet(lru) \ {k}
    BY <2>1, WithoutFacts DEF MemoryOK
  <2>3. /\ entry' \in [Keys -> Entries] /\ entry'[k] = Absent
        /\ \A j \in Keys \ {k} : entry'[j] = entry[j]
    BY <2>1, AbsentIsEntry DEF MemoryOK
  <2>4. /\ Absent.editor = NoClient /\ Absent.length = 0 /\ ~ Absent.readable
    BY DEF Absent
  <2>5. \A j \in Keys : entry'[j].editor = entry[j].editor
    BY <1>3, <2>3, <2>4
  <2>6. MemoryOK'
    <3>1. cleanupSubmitted' \in BOOLEAN
      BY <2>1 DEF CountOp, MemoryOK
    <3>2. size' \in Int
      BY <2>1, EntryFacts DEF MemoryOK
    <3> QED BY <2>1, <2>2, <2>3, <3>1, <3>2 DEF MemoryOK
  <2>7. /\ journal' \in Replays \union {NoFile} /\ written' \in Replays
        /\ journal # NoFile => /\ journal' \in {journal, ReplayRemove(written, k)}
                              /\ written' = ReplayRemove(written, k) /\ journal' # NoFile
    <3>1. written \in Replays
      BY DEF FilesOK
    <3>2. ReplayRemove(written, k) \in Replays
      BY <3>1, ReplayTypes
    <3> QED BY <2>1, <3>2, BufferedFacts
  <2>8. FilesOK'
    BY <2>1, <2>7, NoClientIsNone DEF FilesOK, Files
  <2>9. SizeAccounting'
    <3> SUFFICES ASSUME open, fresh
                 PROVE  /\ size' = TotalLength(entry', ToSet(lru'))
                        /\ \A j \in Keys : entry'[j].readable => entry'[j].length = LengthOf(clean'[j])
      BY <2>1 DEF SizeAccounting
    <3>1. size = TotalLength(entry, ToSet(lru))
      BY DEF SizeAccounting
    <3>2. /\ IsFiniteSet(ToSet(lru)) /\ ToSet(lru) \in SUBSET Keys /\ k \in ToSet(lru)
          /\ entry \in [Keys -> Entries]
      BY <1>0, <1>3, EntryFacts DEF MemoryOK
    <3>3. /\ TotalLength(entry, ToSet(lru)) = TotalLength(entry, ToSet(lru) \ {k}) + entry[k].length
      BY <3>2, TotalWithout
    <3>4. IsFiniteSet(ToSet(lru) \ {k}) /\ ToSet(lru) \ {k} \in SUBSET Keys
      BY <3>2, FS_RemoveElement
    <3>5. TotalLength(entry, ToSet(lru) \ {k}) \in Int
      BY <3>2, <3>4, TotalWithout
    <3>6. TotalLength(entry', ToSet(lru) \ {k}) = TotalLength(entry, ToSet(lru) \ {k})
      <4>1. \A j \in ToSet(lru) \ {k} : entry'[j].length = entry[j].length
        BY <2>3, <3>2
      <4> QED BY <3>4, <4>1, TotalSame
    <3>7. entry[k].length \in Int
      BY EntryFacts
    <3>8. size' = TotalLength(entry', ToSet(lru'))
      BY <2>1, <2>2, <3>1, <3>3, <3>5, <3>6, <3>7
    <3>9. \A j \in Keys : entry'[j].readable => entry'[j].length = LengthOf(clean'[j])
      BY <2>1, <2>3, <2>4 DEF SizeAccounting, FilesOK
    <3> QED BY <3>8, <3>9
  <2>10. UnpublishedEmpty'
    BY <2>1, <2>3, <2>4 DEF UnpublishedEmpty
  <2>11. ASSUME open, fresh PROVE JournalCovers'
    <3>1. JournalCovers /\ written \in Replays
      BY <2>11 DEF FilesOK
    <3>2. Covers(entry', journal)
      BY <2>3, <2>4, <2>5, <3>1 DEF JournalCovers, Covers
    <3>3. Covers(entry', ReplayRemove(written, k))
      <4> DEFINE image == ReplayRemove(written, k)
      <4>1. /\ image.entry[k].editor = NoClient
            /\ \A j \in Keys \ {k} : image.entry[j] = written.entry[j]
        BY <3>1, ReplayEffects
      <4> HIDE DEF image
      <4>2. Covers(entry', image)
        BY <2>3, <2>4, <3>1, <4>1 DEF JournalCovers, Covers
      <4> QED BY <4>2 DEF image
    <3> QED BY <2>7, <3>1, <3>2, <3>3 DEF JournalCovers
  <2> QED BY <2>1, <2>5, <2>6, <2>8, <2>9, <2>10, <2>11
<1> QED BY <1>1, <1>2, <1>3

\* The journal after a line for an entry that is then not edited.
LEMMA LineCovers ==
    ASSUME Core, NEW k \in Keys, NEW image \in Replays, Flushed(image),
           NEW e, \A j \in Keys \ {k} : e[j] = entry[j],
           \A j \in Keys \ {k} : image.entry[j] = written.entry[j],
           e[k].editor = NoClient, image.entry[k].editor = NoClient,
           e[k].readable => image.entry[k].readable
    PROVE  /\ journal' \in Replays \union {NoFile} /\ written' \in Replays
           /\ open /\ fresh => /\ journal' # NoFile
                             /\ Covers(e, journal') /\ Covers(e, written')
<1>1. /\ journal' \in Replays \union {NoFile} /\ written' \in Replays
      /\ journal # NoFile => journal' = image /\ written' = image /\ journal' # NoFile
  BY FlushedFacts DEF Core
<1>2. ASSUME open, fresh PROVE Covers(e, image)
  BY <1>2 DEF Core, JournalCovers, Covers
<1>3. open /\ fresh => journal # NoFile
  BY DEF Core, JournalCovers
<1> QED BY <1>1, <1>2, <1>3

\* The entry is as it was before the edit, or goes.
LEMMA AbandonKeeps ==
    ASSUME Core, NEW k \in Keys, AbandonEdit(k), UNCHANGED <<open, backup, fresh>>
    PROVE  /\ Core'
           /\ entry'[k].editor = NoClient
           /\ \A j \in Keys \ {k} : entry'[j] = entry[j] /\ dirty'[j] = dirty[j]
<1> USE DEF Core
<1>1. /\ dirty' \in [Keys -> Files] /\ \A j \in Keys \ {k} : dirty'[j] = dirty[j]
      /\ CountOp(size > MaxSize)
      /\ UNCHANGED <<size, clean>>
  BY DEF AbandonEdit, FilesOK, Files
<1>2. cleanupSubmitted' \in BOOLEAN
  BY <1>1 DEF CountOp, MemoryOK
<1>3. written \in Replays /\ size \in Int
  BY DEF FilesOK, MemoryOK
<1>5. CASE entry[k].readable
  <2>1. /\ entry' = [entry EXCEPT ![k].editor = NoClient] /\ lru' = lru
        /\ Flushed(ReplayClean(written, k, size))
    BY <1>5 DEF AbandonEdit
  <2>2. /\ entry' \in [Keys -> Entries]
        /\ entry'[k].editor = NoClient /\ entry'[k].readable = entry[k].readable
        /\ entry'[k].length = entry[k].length
        /\ \A j \in Keys \ {k} : entry'[j] = entry[j]
    BY <2>1, EntryFacts DEF MemoryOK, Entries
  <2>3. k \in ToSet(lru)
    BY <1>5, EntryFacts
  <2>4. MemoryOK'
    BY <1>1, <1>2, <2>1, <2>2, <2>3 DEF MemoryOK
  <2>5. SizeAccounting'
    <3>1. TotalLength(entry', ToSet(lru)) = TotalLength(entry, ToSet(lru))
      <4>1. IsFiniteSet(ToSet(lru)) /\ \A j \in ToSet(lru) : entry'[j].length = entry[j].length
        BY <2>2, EntryFacts
      <4> QED BY <4>1, TotalSame
    <3>2. \A j \in Keys : entry'[j].readable = entry[j].readable /\ entry'[j].length = entry[j].length
      BY <2>2
    <3> QED BY <1>1, <2>1, <3>1, <3>2 DEF SizeAccounting
  <2>6. UnpublishedEmpty'
    BY <2>2 DEF UnpublishedEmpty
  <2>7. /\ journal' \in Replays \union {NoFile} /\ written' \in Replays
        /\ open /\ fresh => /\ journal' # NoFile
                          /\ Covers(entry', journal') /\ Covers(entry', written')
    <3> DEFINE image == ReplayClean(written, k, size)
    <3>1. /\ image \in Replays /\ image.entry[k].editor = NoClient /\ image.entry[k].readable
          /\ \A j \in Keys \ {k} : image.entry[j] = written.entry[j]
      BY <1>3, ReplayTypes, ReplayEffects
    <3>2. Flushed(image)
      BY <2>1
    <3> HIDE DEF image
    <3> QED BY <2>2, <3>1, <3>2, LineCovers
  <2>8. FilesOK'
    BY <1>1, <2>7 DEF FilesOK, Files
  <2> QED BY <1>1, <2>2, <2>4, <2>5, <2>6, <2>7, <2>8 DEF JournalCovers
<1>6. CASE ~ entry[k].readable
  <2>1. /\ entry' = [entry EXCEPT ![k] = Absent] /\ lru' = Without(lru, k)
        /\ Flushed(ReplayRemove(written, k))
    BY <1>6 DEF AbandonEdit
  <2>2. /\ entry' \in [Keys -> Entries]
        /\ entry'[k].editor = NoClient /\ ~ entry'[k].readable /\ entry'[k].length = 0
        /\ entry'[k] = Absent
        /\ \A j \in Keys \ {k} : entry'[j] = entry[j]
    BY <2>1, AbsentIsEntry DEF MemoryOK, Absent
  <2>3. lru' \in Seq(Keys) /\ IsInjective(lru') /\ ToSet(lru') = ToSet(lru) \ {k}
    BY <2>1, WithoutFacts DEF MemoryOK
  <2>4. MemoryOK'
    BY <1>1, <1>2, <2>2, <2>3 DEF MemoryOK
  <2>5. SizeAccounting'
    <3> SUFFICES ASSUME open, fresh
                 PROVE  /\ size = TotalLength(entry', ToSet(lru) \ {k})
                        /\ \A j \in Keys : entry'[j].readable => entry'[j].length = LengthOf(clean[j])
      BY <1>1, <2>3 DEF SizeAccounting
    <3>1. /\ IsFiniteSet(ToSet(lru)) /\ ToSet(lru) \in SUBSET Keys
          /\ entry \in [Keys -> Entries] /\ IsFiniteSet(ToSet(lru) \ {k})
      BY EntryFacts, FS_RemoveElement DEF MemoryOK
    <3>2. entry[k].length = 0 /\ size = TotalLength(entry, ToSet(lru)) /\ size \in Int
      BY <1>6, <1>3 DEF UnpublishedEmpty, SizeAccounting
    <3>3. TotalLength(entry, ToSet(lru)) = TotalLength(entry, ToSet(lru) \ {k})
      <4>1. CASE k \in ToSet(lru)
        <5>1. TotalLength(entry, ToSet(lru)) = TotalLength(entry, ToSet(lru) \ {k}) + entry[k].length
          BY <3>1, <4>1, TotalWithout
        <5>2. ToSet(lru) \ {k} \in SUBSET Keys
          BY <3>1
        <5>3. TotalLength(entry, ToSet(lru) \ {k}) \in Int
          BY <3>1, <5>2, TotalWithout
        <5> QED BY <3>2, <5>1, <5>3
      <4>2. CASE k \notin ToSet(lru)
        <5>1. ToSet(lru) \ {k} = ToSet(lru)
          BY <4>2
        <5> QED BY <5>1
      <4> QED BY <4>1, <4>2
    <3>4. TotalLength(entry', ToSet(lru) \ {k}) = TotalLength(entry, ToSet(lru) \ {k})
      <4>1. \A j \in ToSet(lru) \ {k} : entry'[j].length = entry[j].length
        BY <2>2, <3>1
      <4> QED BY <3>1, <4>1, TotalSame
    <3>5. \A j \in Keys : entry'[j].readable => entry'[j].length = LengthOf(clean[j])
      BY <2>2 DEF SizeAccounting
    <3> QED BY <3>2, <3>3, <3>4, <3>5
  <2>6. UnpublishedEmpty'
    BY <2>2 DEF UnpublishedEmpty
  <2>7. /\ journal' \in Replays \union {NoFile} /\ written' \in Replays
        /\ open /\ fresh => /\ journal' # NoFile
                          /\ Covers(entry', journal') /\ Covers(entry', written')
    <3> DEFINE image == ReplayRemove(written, k)
    <3>1. /\ image \in Replays /\ image.entry[k].editor = NoClient
          /\ \A j \in Keys \ {k} : image.entry[j] = written.entry[j]
      BY <1>3, ReplayTypes, ReplayEffects
    <3>2. Flushed(image)
      BY <2>1
    <3> HIDE DEF image
    <3> QED BY <2>2, <3>1, <3>2, LineCovers
  <2>8. FilesOK'
    BY <1>1, <2>7 DEF FilesOK, Files
  <2> QED BY <1>1, <2>2, <2>4, <2>5, <2>6, <2>7, <2>8 DEF JournalCovers
<1> QED BY <1>5, <1>6

\* What is published becomes the entry's, and its length the entry's length, also
\* where the file could not be renamed.
LEMMA PublishKeeps ==
    ASSUME Core, NEW k \in Keys, PublishEdit(k), UNCHANGED <<open, backup, fresh>>,
           k \in ToSet(lru), entry[k].readable \/ dirty[k] # NoFile
    PROVE  /\ Core'
           /\ entry'[k].editor = NoClient
           /\ \A j \in Keys \ {k} : entry'[j] = entry[j] /\ dirty'[j] = dirty[j]
<1> USE DEF Core
<1>1. /\ lru' = lru
      /\ Flushed(ReplayClean(written, k, size'))
      /\ CountOp(size' > MaxSize)
  BY DEF PublishEdit
<1>2. cleanupSubmitted' \in BOOLEAN
  BY <1>1 DEF CountOp, MemoryOK
<1>3. /\ written \in Replays /\ size \in Int /\ entry[k].length \in Int
      /\ dirty \in [Keys -> Files] /\ clean \in [Keys -> Files]
      /\ entry \in [Keys -> Entries]
  BY EntryFacts DEF FilesOK, MemoryOK
<1>4. /\ IsFiniteSet(ToSet(lru)) /\ ToSet(lru) \in SUBSET Keys
  BY EntryFacts
<1> DEFINE n == entry'[k].length
           file == clean'[k]
<1>5. /\ size' = size - entry[k].length + n
      /\ clean' = [clean EXCEPT ![k] = file] /\ file \in Files
      /\ dirty' \in [Keys -> Files] /\ \A j \in Keys \ {k} : dirty'[j] = dirty[j]
      /\ n = LengthOf(file) \/ (file = clean[k] /\ n = entry[k].length /\ entry[k].readable)
      /\ entry' \in [Keys -> Entries] /\ n \in Int
      /\ entry'[k].editor = NoClient /\ entry'[k].readable
      /\ \A j \in Keys \ {k} : entry'[j] = entry[j]
  <2>1. CASE dirty[k] = NoFile
    <3>1. /\ clean' = clean /\ dirty' = dirty /\ size' = size
          /\ entry' = [entry EXCEPT ![k].editor = NoClient, ![k].readable = TRUE]
      BY <2>1 DEF PublishEdit
    <3>2. /\ entry' \in [Keys -> Entries] /\ n = entry[k].length
          /\ entry'[k].editor = NoClient /\ entry'[k].readable
          /\ \A j \in Keys \ {k} : entry'[j] = entry[j]
      BY <1>3, <3>1 DEF Entries
    <3>3. clean = [clean EXCEPT ![k] = clean[k]] /\ clean[k] \in Files
      BY <1>3
    <3>4. size' = size - entry[k].length + entry[k].length
      BY <1>3, <3>1
    <3> QED BY <1>3, <2>1, <3>1, <3>2, <3>3, <3>4
  <2>2. CASE dirty[k] # NoFile
    <3>1. /\ Rename(k) \/ UNCHANGED <<clean, dirty>>
          /\ size' = size - entry[k].length + LengthOf(file)
          /\ entry' = [entry EXCEPT ![k] =
                           [length |-> LengthOf(file), readable |-> TRUE, editor |-> NoClient]]
      BY <2>2 DEF PublishEdit, SizeAfterCommit
    <3>2. /\ clean' = [clean EXCEPT ![k] = file] /\ file \in Files
          /\ dirty' \in [Keys -> Files] /\ \A j \in Keys \ {k} : dirty'[j] = dirty[j]
      <4>1. CASE Rename(k)
        BY <1>3, <4>1 DEF Rename, Files
      <4>2. CASE UNCHANGED <<clean, dirty>>
        BY <1>3, <4>2
      <4> QED BY <3>1, <4>1, <4>2
    <3> HIDE DEF file
    <3>3. LengthOf(file) \in Int
      BY <3>2, LengthFacts
    <3>4. /\ entry' \in [Keys -> Entries] /\ n = LengthOf(file)
          /\ entry'[k].editor = NoClient /\ entry'[k].readable
          /\ \A j \in Keys \ {k} : entry'[j] = entry[j]
      BY <1>3, <3>1, <3>3 DEF Entries
    <3> HIDE DEF n
    <3> QED BY <3>1, <3>2, <3>3, <3>4
  <2> QED BY <2>1, <2>2
<1>6. /\ entry' \in [Keys -> Entries]
      /\ entry'[k].editor = NoClient /\ entry'[k].readable
      /\ \A j \in Keys \ {k} : entry'[j] = entry[j]
  BY <1>5
<1>7. size' \in Int
  BY <1>3, <1>5
<1>8. MemoryOK'
  BY <1>1, <1>2, <1>6, <1>7 DEF MemoryOK
<1>10. SizeAccounting'
  <2> SUFFICES ASSUME open, fresh
               PROVE  /\ size' = TotalLength(entry', ToSet(lru))
                      /\ \A j \in Keys : entry'[j].readable => entry'[j].length = LengthOf(clean'[j])
    BY <1>1 DEF SizeAccounting
  <2> DEFINE R == ToSet(lru) \ {k}
  <2>1. IsFiniteSet(R) /\ R \in SUBSET Keys
    BY <1>4, FS_RemoveElement
  <2>2. TotalLength(entry, ToSet(lru)) = TotalLength(entry, R) + entry[k].length
    BY <1>3, <1>4, TotalWithout
  <2>3. TotalLength(entry', ToSet(lru)) = TotalLength(entry', R) + entry'[k].length
    BY <1>4, <1>6, TotalWithout
  <2>4. TotalLength(entry', R) = TotalLength(entry, R)
    <3>1. \A j \in R : entry'[j].length = entry[j].length
      BY <1>6, <2>1
    <3> HIDE DEF R
    <3> QED BY <2>1, <3>1, TotalSame
  <2>5. TotalLength(entry, R) \in Int
    BY <1>3, <2>1, TotalWithout
  <2>6. size = TotalLength(entry, ToSet(lru))
    BY DEF SizeAccounting
  <2> HIDE DEF R
  <2>7. size' = TotalLength(entry', ToSet(lru))
    BY <1>3, <1>5, <1>6, <2>2, <2>3, <2>4, <2>5, <2>6
  <2>8. \A j \in Keys : entry'[j].readable => entry'[j].length = LengthOf(clean'[j])
    BY <1>3, <1>5, <1>6 DEF SizeAccounting
  <2> QED BY <2>7, <2>8
<1>11. UnpublishedEmpty'
  BY <1>6 DEF UnpublishedEmpty
<1>12. /\ journal' \in Replays \union {NoFile} /\ written' \in Replays
       /\ open /\ fresh => /\ journal' # NoFile
                         /\ Covers(entry', journal') /\ Covers(entry', written')
  <2> DEFINE image == ReplayClean(written, k, size')
  <2>1. /\ image \in Replays /\ image.entry[k].editor = NoClient /\ image.entry[k].readable
        /\ \A j \in Keys \ {k} : image.entry[j] = written.entry[j]
    BY <1>3, <1>7, ReplayTypes, ReplayEffects
  <2>2. Flushed(image)
    BY <1>1
  <2> HIDE DEF image
  <2> QED BY <1>6, <2>1, <2>2, LineCovers
<1>13. FilesOK'
  BY <1>3, <1>5, <1>12 DEF FilesOK, Files
<1> QED BY <1>5, <1>6, <1>8, <1>10, <1>11, <1>12, <1>13 DEF JournalCovers

--------------------------------------------------------------------------------
(* The invariant, step by step *)

LEMMA HasCore == ASSUME IInv, monitor # "rename" PROVE Core
BY DEF IInv, Core, Journaled

LEMMA Assembled ==
    ASSUME Bounds', ClientsOK', Core', MonitorOK', CommitsWhole', ClosedUnedited',
           monitor' # "rename"
    PROVE  IInv'
BY DEF IInv, Core, Journaled

\* Core, where no operation is under way.
LEMMA CoreStays ==
    ASSUME Core, UNCHANGED <<memory, clean, journals, fresh>>, dirty' \in [Keys -> Files]
    PROVE  Core'
BY DEF Core, memory, journals, MemoryOK, FilesOK, SizeAccounting,
       UnpublishedEmpty, JournalCovers

LEMMA ClientFacts ==
    ASSUME ClientsOK, NEW c \in Clients
    PROVE  \/ client[c] = Idle /\ client[c].pc = "idle"
           \/ /\ client[c].pc \in {"edit", "write", "commit", "remove"}
              /\ client[c].key \in Keys /\ client[c].hasErrors \in BOOLEAN
              /\ client[c].stream \in Streams /\ client[c] \in Editors
<1>1. client[c] \in {Idle} \union Editors
  BY DEF ClientsOK
<1>2. CASE client[c] = Idle
  BY <1>2 DEF Idle
<1>3. CASE client[c] \in Editors
  BY <1>3 DEF Editors
<1> QED BY <1>1, <1>2, <1>3

\* Who may commit what it writes still may when the entry of k is given up, and
\* others' edits are left alone.
LEMMA CommitsStay ==
    ASSUME CommitsWhole, ClientsOK, NEW k \in Keys,
           \A c \in Clients : client'[c].pc = "commit" => client'[c] = client[c],
           \A j \in Keys \ {k} : entry'[j].editor = entry[j].editor /\ dirty'[j] = dirty[j],
           \/ entry'[k].editor = NoClient
           \/ entry'[k].editor = entry[k].editor /\ dirty'[k] = dirty[k]
    PROVE  CommitsWhole'
<1> SUFFICES ASSUME NEW c \in Clients, client'[c].pc = "commit", Current(c)', Succeeded(c)',
                    client'[c].stream = "file"
             PROVE  dirty'[client'[c].key] # Partial
  BY DEF CommitsWhole
<1>1. client'[c] = client[c] /\ client[c].pc = "commit" /\ client[c].key \in Keys
  BY ClientFacts
<1>2. c # NoClient
  BY NoClientIsNone
<1>3. Succeeded(c)
  BY <1>1 DEF Succeeded
<1>4. entry'[client[c].key].editor = c
  BY <1>1 DEF Current
<1>5. Current(c) /\ dirty'[client[c].key] = dirty[client[c].key]
  BY <1>1, <1>2, <1>4 DEF Current
<1> QED BY <1>1, <1>3, <1>5 DEF CommitsWhole

LEMMA NobodyCommits ==
    ASSUME ClientsOK', NothingEdited'
    PROVE  CommitsWhole'
<1> SUFFICES ASSUME NEW c \in Clients, client'[c].pc = "commit", Current(c)'
             PROVE  FALSE
  BY DEF CommitsWhole
<1>1. client'[c] # Idle
  BY DEF Idle
<1>2. client'[c].key \in Keys
  BY <1>1 DEF ClientsOK, Editors
<1> QED BY <1>2, NoClientIsNone DEF NothingEdited, Current

LEMMA EmptyFacts ==
    /\ Empty \in Replays /\ Empty.entry \in [Keys -> Entries]
    /\ << >> \in Seq(Keys) /\ IsInjective(<< >>) /\ ToSet(<< >>) = {}
    /\ \A k \in Keys : /\ Empty.entry[k] = Absent /\ Empty.entry[k].editor = NoClient
                       /\ ~ Empty.entry[k].readable /\ Empty.entry[k].length = 0
<1>1. << >> \in Seq(Keys) /\ IsInjective(<< >>) /\ ToSet(<< >>) = {}
  BY DEF IsInjective, ToSet
<1>2. Empty.entry = [k \in Keys |-> Absent] /\ Empty.order = << >>
  BY DEF Empty
<1>3. Empty.entry \in [Keys -> Entries]
  BY <1>2, AbsentIsEntry
<1>4. Empty \in Replays
  BY <1>1, <1>3, <1>2 DEF Images, Replays, Empty
<1>5. \A k \in Keys : /\ Empty.entry[k] = Absent /\ Empty.entry[k].editor = NoClient
                      /\ ~ Empty.entry[k].readable /\ Empty.entry[k].length = 0
  BY <1>2 DEF Absent
<1> QED BY <1>1, <1>3, <1>4, <1>5

LEMMA Initially == Init => IInv
<1> SUFFICES ASSUME Init PROVE IInv
  OBVIOUS
<1> USE DEF Init
<1>1. MemoryOK
  <2>1. lru = << >> /\ entry = Empty.entry /\ size \in Int
    OBVIOUS
  <2>2. open \in BOOLEAN /\ cleanupSubmitted \in BOOLEAN
    OBVIOUS
  <2>3. lru \in Seq(Keys) /\ IsInjective(lru)
    BY <2>1, EmptyFacts
  <2>4. entry \in [Keys -> Entries]
    BY <2>1, EmptyFacts
  <2>5. \A k \in Keys : entry[k] = Absent
    BY <2>1, EmptyFacts
  <2> QED BY <2>2, <2>1, <2>3, <2>4, <2>5 DEF MemoryOK
<1>2. FilesOK
  BY EmptyFacts, NoClientIsNone DEF FilesOK, Files
<1>3. Bounds /\ ClientsOK /\ MonitorOK
  <2>1. Bounds
    BY BoundsAssumption DEF Bounds
  <2>2. ClientsOK
    BY DEF ClientsOK
  <2>3. MonitorOK
    BY DEF MonitorOK
  <2> QED BY <2>1, <2>2, <2>3
<1>4. CommitsWhole
  BY DEF CommitsWhole, Idle
<1>5. SizeAccounting /\ UnpublishedEmpty /\ Journaled
  BY DEF SizeAccounting, UnpublishedEmpty, Journaled
<1>6. ClosedUnedited
  BY EmptyFacts DEF ClosedUnedited, NothingEdited
<1> QED BY <1>1, <1>2, <1>3, <1>4, <1>5, <1>6 DEF IInv

\* What memory is after Forget.
LEMMA Forgotten ==
    ASSUME Forget, FilesOK'
    PROVE  Core' /\ MonitorOK' /\ ClosedUnedited' /\ NothingEdited' /\ monitor' # "rename"
<1>0. lru' = << >> /\ entry' = Empty.entry /\ size' = 0 /\ open' = FALSE
  BY DEF Forget
<1>1. MemoryOK'
  <2>1. lru' \in Seq(Keys) /\ IsInjective(lru') /\ entry' \in [Keys -> Entries]
    BY <1>0, EmptyFacts
  <2>2. \A k \in Keys : entry'[k] = Absent
    BY <1>0, EmptyFacts
  <2>3. size' \in Int /\ open' \in BOOLEAN /\ cleanupSubmitted' \in BOOLEAN
    <3>1. size' = 0
      BY Zenon DEF Forget
    <3>2. size' \in Int
      BY <3>1, SMT
    <3>3. open' \in BOOLEAN /\ cleanupSubmitted' \in BOOLEAN
      BY Zenon DEF Forget
    <3> QED BY <3>2, <3>3, Zenon
  <2> QED BY <2>1, <2>2, <2>3 DEF MemoryOK
<1>2. NothingEdited'
  BY <1>0, EmptyFacts DEF NothingEdited
<1> QED BY <1>1, <1>2 DEF Forget, Core, SizeAccounting, UnpublishedEmpty, MonitorOK,
                          ClosedUnedited

LEMMA KillStep == ASSUME IInv, Kill PROVE IInv'
<1> USE DEF IInv, Kill
<1>1. FilesOK'
  BY EmptyFacts DEF Forget, FilesOK
<1>2. Core' /\ MonitorOK' /\ ClosedUnedited' /\ NothingEdited' /\ monitor' # "rename"
  BY <1>1, Forgotten
<1>3. Bounds' /\ ClientsOK'
  BY DEF Bounds, ClientsOK
<1>4. CommitsWhole'
  BY <1>2, <1>3, NobodyCommits
<1> QED BY <1>2, <1>3, <1>4, Assembled

\* A journal that is replayed leaves no entry that is being edited; without one
\* the cache begins empty.
LEMMA OpenStep == ASSUME IInv, Open PROVE IInv'
<1> USE DEF IInv
<1>1. /\ ~ open /\ open' = TRUE /\ opens < MaxOpens /\ opens' = opens + 1
      /\ written' = Empty /\ backup' = NoFile /\ cleanupSubmitted' = FALSE
      /\ UNCHANGED <<monitor, client, edits>>
  BY DEF Open
<1>2. Bounds' /\ ClientsOK'
  BY <1>1, BoundsAssumption DEF Bounds, ClientsOK
<1>3. monitor' = "free" /\ monitor = "free"
  BY <1>1 DEF ClosedUnedited
<1>4. CASE Recorded = NoFile
  <2>1. /\ fresh' = TRUE
        /\ lru' = << >> /\ entry' = Empty.entry /\ size' = 0
        /\ journal' = Empty
        /\ UNCHANGED <<clean, dirty>>
    BY <1>4 DEF Open
  <2>2. MemoryOK'
    <3>1. lru' \in Seq(Keys) /\ IsInjective(lru') /\ entry' \in [Keys -> Entries]
      BY <2>1, EmptyFacts
    <3>2. \A k \in Keys : entry'[k] = Absent
      BY <2>1, EmptyFacts
    <3>3. size' \in Int /\ open' \in BOOLEAN /\ cleanupSubmitted' \in BOOLEAN
      <4>1. size' = 0
        BY <2>1, Zenon
      <4>2. size' \in Int
        BY <4>1, SMT
      <4>3. open' \in BOOLEAN /\ cleanupSubmitted' \in BOOLEAN
        BY <1>1, Zenon
      <4> QED BY <4>2, <4>3, Zenon
    <3> QED BY <3>1, <3>2, <3>3 DEF MemoryOK
  <2>3. FilesOK'
    BY <1>1, <2>1, EmptyFacts DEF FilesOK
  <2>4. SizeAccounting'
    <3>1. TotalLength(Empty.entry, {}) = 0
      BY FS_EmptySet, TotalUnfolds
    <3> QED BY <2>1, <3>1, EmptyFacts DEF SizeAccounting
  <2>5. UnpublishedEmpty'
    BY <2>1, EmptyFacts DEF UnpublishedEmpty
  <2>6. JournalCovers'
    <3>1. Covers(Empty.entry, Empty)
      BY DEF Covers
    <3> QED BY <1>1, <2>1, <3>1, EmptyFacts, NoClientIsNone DEF JournalCovers
  <2>7. Core'
    BY <2>2, <2>3, <2>4, <2>5, <2>6 DEF Core
  <2>8. NothingEdited'
    BY <2>1, EmptyFacts DEF NothingEdited
  <2>9. MonitorOK' /\ ClosedUnedited' /\ monitor' # "rename"
    BY <1>3, <2>1, <2>8 DEF MonitorOK, ClosedUnedited
  <2> QED BY <1>2, <2>7, <2>8, <2>9, NobodyCommits, Assembled
<1>5. CASE Recorded # NoFile
  <2> DEFINE still == {k \in Keys : Recorded.entry[k].editor = NoClient}
             kept == Selected(Recorded.order, still)
  <2>1. /\ fresh' = FALSE
        /\ lru' = kept
        /\ entry' = [k \in Keys |->
              IF Contains(kept, k) THEN Recorded.entry[k] ELSE Absent]
        /\ size' = IF kept = << >> THEN 0 ELSE Recorded.entry[Last(kept)].length
        /\ journal' = NoFile
        /\ clean' = [k \in Keys |-> NoFile]
        /\ dirty' = [k \in Keys |-> NoFile]
    BY <1>5 DEF Open, Spared
  <2>2. Recorded \in Replays
    BY <1>5 DEF Recorded, FilesOK
  <2>3. /\ Recorded.order \in Seq(Keys) /\ IsInjective(Recorded.order)
        /\ Recorded.entry \in [Keys -> Entries]
    BY <2>2 DEF Images, Replays
  <2>4. /\ kept \in Seq(Keys) /\ IsInjective(kept)
        /\ ToSet(kept) = ToSet(Recorded.order) \cap still
    BY <2>3, SelectedFacts
  <2>5. \A k \in Keys : Contains(kept, k) <=> k \in ToSet(kept)
    BY <2>4, ContainedIsInSet
  <2>6. /\ entry' \in [Keys -> Entries]
        /\ \A k \in Keys : /\ entry'[k].editor = NoClient
                           /\ k \notin ToSet(kept) => entry'[k] = Absent
    <3>1. Absent.editor = NoClient
      BY DEF Absent
    <3>2. \A k \in ToSet(kept) : Recorded.entry[k].editor = NoClient
      BY <2>4
    <3> HIDE DEF kept
    <3> QED BY <2>1, <2>3, <2>5, <3>1, <3>2, AbsentIsEntry
  <2>7. size' \in Int
    <3>1. kept # << >> => Last(kept) \in Keys
      BY <2>4 DEF Last
    <3>2. \A k \in Keys : Recorded.entry[k].length \in Int
      BY <2>3 DEF Entries
    <3> HIDE DEF kept
    <3> QED BY <2>1, <3>1, <3>2
  <2>8. MemoryOK'
    <3> HIDE DEF kept
    <3> QED BY <1>1, <2>1, <2>4, <2>6, <2>7 DEF MemoryOK
  <2>9. FilesOK'
    BY <1>1, <2>1, EmptyFacts, NoClientIsNone DEF FilesOK, Files
  <2>10. Core'
    BY <2>1, <2>8, <2>9 DEF Core, SizeAccounting, UnpublishedEmpty
  <2>11. NothingEdited'
    BY <2>6 DEF NothingEdited
  <2>12. MonitorOK' /\ ClosedUnedited' /\ monitor' # "rename"
    BY <1>3, <2>1, <2>11 DEF MonitorOK, ClosedUnedited
  <2> QED BY <1>2, <2>10, <2>11, <2>12, NobodyCommits, Assembled
<1> QED BY <1>4, <1>5

\* An operation that leaves every editor its entry and what it writes.
LEMMA RestStays ==
    ASSUME IInv, Core', ClientsOK', monitor # "rename",
           UNCHANGED <<open, fresh, monitor, dirty, edits, opens>>,
           \A c \in Clients : client'[c].pc = "commit" => client'[c] = client[c],
           \A j \in Keys : entry'[j].editor = entry[j].editor
    PROVE  IInv'
<1> USE DEF IInv
<1>1. CommitsWhole'
  <2> SUFFICES ASSUME NEW c \in Clients, client'[c].pc = "commit", Current(c)', Succeeded(c)',
                      client'[c].stream = "file"
               PROVE  dirty[client'[c].key] # Partial
    BY DEF CommitsWhole
  <2>1. client'[c] = client[c] /\ client[c].pc = "commit" /\ client[c].key \in Keys
    BY ClientFacts
  <2>2. Succeeded(c) /\ Current(c)
    BY <2>1 DEF Succeeded, Current
  <2> QED BY <2>1, <2>2 DEF CommitsWhole
<1>2. Bounds' /\ MonitorOK' /\ monitor' # "rename"
  BY DEF Bounds, MonitorOK
<1>3. ClosedUnedited'
  BY DEF ClosedUnedited, NothingEdited
<1> QED BY <1>1, <1>2, <1>3, Assembled

\* A look-up only changes the order.
LEMMA OnlyTouched ==
    ASSUME Core, NEW k \in Keys, Contains(lru, k), lru' = Touched(lru, k),
           UNCHANGED <<entry, size, open, clean, dirty, backup, fresh>>,
           cleanupSubmitted' \in BOOLEAN,
           journal' \in Replays \union {NoFile}, written' \in Replays,
           JournalCovers => JournalCovers'
    PROVE  Core'
<1> USE DEF Core
<1>1. lru' \in Seq(Keys) /\ IsInjective(lru') /\ ToSet(lru') = ToSet(lru)
  <2>1. ToSet(lru) \union {k} = ToSet(lru)
    BY ContainedIsInSet DEF MemoryOK
  <2> QED BY <2>1, TouchedFacts DEF MemoryOK
<1> QED BY <1>1 DEF MemoryOK, FilesOK, SizeAccounting, UnpublishedEmpty

LEMMA GetStep == ASSUME IInv, NEW k \in Keys, Get(k) PROVE IInv'
<1>1. /\ open /\ monitor = "free" /\ Contains(lru, k) /\ lru' = Touched(lru, k)
      /\ UNCHANGED <<entry, size, open, monitor, client, clean, dirty, backup, fresh,
                     edits, opens>>
  BY DEF Get, Ready
<1>2. Core
  BY <1>1, HasCore
<1>3. /\ cleanupSubmitted' \in BOOLEAN
      /\ journal' \in Replays \union {NoFile} /\ written' \in Replays
      /\ JournalCovers => JournalCovers'
  <2>1. CASE entry[k].readable /\ clean[k] # NoFile
    <3>1. Buffered(ReplayRead(written, k)) /\ CountOp(FALSE)
      BY <2>1 DEF Get
    <3>2. cleanupSubmitted' \in BOOLEAN
      BY <1>2, <3>1 DEF CountOp, Core, MemoryOK
    <3> DEFINE image == ReplayRead(written, k)
    <3>3. image \in Replays /\ image.entry = written.entry
      <4>1. written \in Replays
        BY <1>2 DEF Core, FilesOK
      <4> QED BY <4>1, ReplayTypes, ReplayEffects
    <3>4. Buffered(image) /\ FilesOK
      BY <1>2, <3>1 DEF Core
    <3> HIDE DEF image
    <3>5. /\ journal' \in Replays \union {NoFile} /\ written' \in Replays
          /\ journal # NoFile => /\ journal' \in {journal, image} /\ written' = image
                                /\ journal' # NoFile
      BY <3>3, <3>4, BufferedFacts
    <3>6. JournalCovers => JournalCovers'
      BY <1>1, <3>3, <3>5 DEF JournalCovers, Covers
    <3> QED BY <3>2, <3>5, <3>6
  <2>2. CASE ~ (entry[k].readable /\ clean[k] # NoFile)
    <3>1. UNCHANGED <<journal, written, cleanupSubmitted>>
      BY <2>2 DEF Get
    <3> QED BY <1>1, <1>2, <3>1 DEF Core, MemoryOK, FilesOK, JournalCovers, Covers
  <2> QED BY <2>1, <2>2
<1>4. Core'
  BY <1>1, <1>2, <1>3, OnlyTouched
<1>5. ClientsOK'
  BY <1>1 DEF IInv, ClientsOK
<1> QED BY <1>1, <1>4, <1>5, RestStays

LEMMA RemoveKeyStep == ASSUME IInv, NEW k \in Keys, RemoveKey(k) PROVE IInv'
<1>1. /\ monitor = "free" /\ RemoveEntry(k)
      /\ UNCHANGED <<monitor, client, dirty, backup, fresh, edits, opens>>
  BY DEF RemoveKey, Ready
<1>2. Core
  BY <1>1, HasCore
<1>3. Core' /\ open' = open /\ \A j \in Keys : entry'[j].editor = entry[j].editor
  BY <1>1, <1>2, RemoveEntryKeeps
<1>4. ClientsOK'
  BY <1>1 DEF IInv, ClientsOK
<1> QED BY <1>1, <1>3, <1>4, RestStays

LEMMA RemoveStaleStep == ASSUME IInv, NEW c \in Clients, RemoveStale(c) PROVE IInv'
<1>1. /\ monitor = "free" /\ client[c].pc = "remove"
      /\ client' = [client EXCEPT ![c] = Idle]
      /\ UNCHANGED <<monitor, dirty, backup, fresh, edits, opens>>
  BY DEF RemoveStale
<1>2. Core /\ ClientsOK
  BY <1>1, HasCore DEF IInv
<1>3. client[c].key \in Keys
  BY <1>1, <1>2, ClientFacts
<1>4. Core' /\ open' = open /\ \A j \in Keys : entry'[j].editor = entry[j].editor
  <2>1. CASE open
    <3>1. RemoveEntry(client[c].key)
      BY <2>1 DEF RemoveStale
    <3> QED BY <1>1, <1>2, <1>3, <3>1, RemoveEntryKeeps
  <2>2. CASE ~ open
    <3>1. UNCHANGED <<memory, clean, journal, written>>
      BY <2>2 DEF RemoveStale
    <3>2. dirty' \in [Keys -> Files] /\ UNCHANGED journals /\ UNCHANGED fresh
      BY <1>1, <1>2, <3>1 DEF Core, FilesOK, journals
    <3>3. Core'
      BY <1>2, <3>1, <3>2, CoreStays
    <3> QED BY <3>1, <3>3 DEF memory
  <2> QED BY <2>1, <2>2
<1>5. ClientsOK' /\ \A d \in Clients : client'[d].pc = "commit" => client'[d] = client[d]
  BY <1>1, <1>2 DEF ClientsOK, Idle
<1> QED BY <1>1, <1>4, <1>5, RestStays

\* What one client does with the entry it edits does not disturb the others.
LEMMA OthersCommit ==
    ASSUME CommitsWhole, ClientsOK, NEW c \in Clients,
           \A d \in Clients \ {c} : client'[d] = client[d],
           \A j \in Keys : \/ entry'[j].editor = entry[j].editor /\ dirty'[j] = dirty[j]
                           \/ entry'[j].editor = c,
           client'[c].pc = "commit" /\ Current(c)' /\ Succeeded(c)' /\ client'[c].stream = "file"
               => dirty'[client'[c].key] # Partial
    PROVE  CommitsWhole'
<1> SUFFICES ASSUME NEW d \in Clients, client'[d].pc = "commit", Current(d)', Succeeded(d)',
                    client'[d].stream = "file"
             PROVE  dirty'[client'[d].key] # Partial
  BY DEF CommitsWhole
<1>1. CASE d = c
  BY <1>1
<1>2. CASE d # c
  <2>1. client'[d] = client[d] /\ client[d].pc = "commit" /\ client[d].key \in Keys
    BY <1>2, ClientFacts
  <2>2. Succeeded(d) /\ entry'[client[d].key].editor = d
    BY <2>1 DEF Succeeded, Current
  <2>3. /\ entry[client[d].key].editor = d
        /\ dirty'[client[d].key] = dirty[client[d].key]
    BY <1>2, <2>1, <2>2
  <2> QED BY <2>1, <2>2, <2>3 DEF CommitsWhole, Current
<1> QED BY <1>1, <1>2

\* The DIRTY line is in the journal's file before the editor is handed out.
LEMMA EditStep == ASSUME IInv, NEW c \in Clients, NEW k \in Keys, Edit(c, k) PROVE IInv'
<1>1. /\ open /\ monitor = "free" /\ client[c] = Idle /\ lru' = Touched(lru, k)
      /\ edits < MaxEdits /\ edits' = edits + 1
      /\ UNCHANGED <<size, open, cleanupSubmitted, monitor, clean, dirty, backup, fresh, opens>>
  BY DEF Edit, Ready
<1>2. Core /\ ClientsOK /\ CommitsWhole
  BY <1>1, HasCore DEF IInv
<1>3. Bounds' /\ MonitorOK' /\ monitor' # "rename"
  BY <1>1, BoundsAssumption DEF IInv, Bounds, MonitorOK
<1>4. ClosedUnedited'
  BY <1>1 DEF ClosedUnedited
<1>5. CASE ~ Editable(k)
  <2>1. UNCHANGED <<entry, client, journal, written>>
    BY <1>5 DEF Edit
  <2>2. Contains(lru, k)
    <3>1. k \in ToSet(lru) /\ lru \in Seq(Keys)
      BY <1>2, <1>5, EntryFacts DEF Editable, Core, MemoryOK
    <3> QED BY <3>1, ContainedIsInSet
  <2>3. /\ cleanupSubmitted' \in BOOLEAN
        /\ journal' \in Replays \union {NoFile} /\ written' \in Replays
        /\ JournalCovers => JournalCovers'
    BY <1>1, <1>2, <2>1 DEF Core, MemoryOK, FilesOK, JournalCovers, Covers
  <2>4. Core'
    BY <1>1, <1>2, <2>1, <2>2, <2>3, OnlyTouched
  <2>5. ClientsOK' /\ CommitsWhole'
    BY <1>1, <1>2, <2>1 DEF ClientsOK, CommitsWhole, Current, Succeeded
  <2> QED BY <1>3, <1>4, <2>4, <2>5, Assembled
<1>6. CASE Editable(k)
  <2> USE <1>2 DEF Core
  <2>1. /\ entry' = [entry EXCEPT ![k].editor = c]
        /\ client' = [client EXCEPT ![c] =
                          [pc |-> "edit", key |-> k, hasErrors |-> FALSE, stream |-> "file"]]
        /\ Flushed(ReplayDirty(written, k))
    BY <1>6 DEF Edit
  <2>2. /\ entry' \in [Keys -> Entries]
        /\ entry'[k].editor = c /\ entry'[k].readable = entry[k].readable
        /\ entry'[k].length = entry[k].length
        /\ \A j \in Keys \ {k} : entry'[j] = entry[j]
    BY <2>1, EntryFacts DEF MemoryOK, Entries
  <2>3. lru' \in Seq(Keys) /\ IsInjective(lru') /\ ToSet(lru') = ToSet(lru) \union {k}
    BY <1>1, TouchedFacts DEF MemoryOK
  <2>4. MemoryOK'
    BY <1>1, <2>2, <2>3 DEF MemoryOK
  <2>5. SizeAccounting'
    <3>1. \A j \in Keys : entry'[j].length = entry[j].length /\ entry'[j].readable = entry[j].readable
      BY <2>2
    <3>2. IsFiniteSet(ToSet(lru)) /\ ToSet(lru) \subseteq Keys
      BY EntryFacts
    <3>3. TotalLength(entry', ToSet(lru)) = TotalLength(entry, ToSet(lru))
      BY <3>1, <3>2, TotalSame
    <3>4. TotalLength(entry', ToSet(lru')) = TotalLength(entry', ToSet(lru))
      <4>1. CASE k \in ToSet(lru)
        <5>1. ToSet(lru') = ToSet(lru)
          BY <2>3, <4>1
        <5> QED BY <5>1
      <4>2. CASE k \notin ToSet(lru)
        <5>1. entry'[k].length = 0
          BY <2>2, <4>2 DEF MemoryOK, Absent
        <5> DEFINE U == ToSet(lru) \union {k}
        <5>2. IsFiniteSet(U) /\ U \in SUBSET Keys /\ k \in U
          BY <3>2, FS_AddElement
        <5>3. U \ {k} = ToSet(lru)
          BY <4>2
        <5> HIDE DEF U
        <5>4. TotalLength(entry', U) = TotalLength(entry', ToSet(lru)) + entry'[k].length
          BY <2>2, <5>2, <5>3, TotalWithout
        <5>5. TotalLength(entry', ToSet(lru)) \in Int
          BY <2>2, <3>2, TotalWithout
        <5>6. TotalLength(entry', U) = TotalLength(entry', ToSet(lru))
          BY <5>1, <5>4, <5>5
        <5> QED BY <2>3, <5>6 DEF U
      <4> QED BY <4>1, <4>2
    <3> QED BY <1>1, <3>1, <3>3, <3>4 DEF SizeAccounting
  <2>6. UnpublishedEmpty'
    BY <1>1, <2>2 DEF UnpublishedEmpty
  <2> DEFINE image == ReplayDirty(written, k)
  <2>7. /\ image \in Replays /\ image.entry[k].editor = Replayed
        /\ \A j \in Keys \ {k} : image.entry[j] = written.entry[j]
    <3>1. written \in Replays
      BY DEF FilesOK
    <3> QED BY <3>1, ReplayTypes, ReplayEffects
  <2>8. Flushed(image)
    BY <2>1
  <2> HIDE DEF image
  <2>9. /\ journal' \in Replays \union {NoFile} /\ written' \in Replays
        /\ journal # NoFile => journal' = image /\ written' = image /\ journal' # NoFile
    BY <2>7, <2>8, FlushedFacts
  <2>10. JournalCovers => Covers(entry', image)
    BY <2>2, <2>7, NoClientIsNone DEF JournalCovers, Covers
  <2>11. open /\ fresh => JournalCovers'
    BY <2>9, <2>10 DEF JournalCovers
  <2>12. FilesOK'
    BY <1>1, <2>9 DEF FilesOK
  <2>13. Core'
    BY <1>1, <2>4, <2>5, <2>6, <2>11, <2>12
  <2>14. ClientsOK' /\ client'[c].pc = "edit" /\ \A d \in Clients \ {c} : client'[d] = client[d]
    BY <2>1 DEF ClientsOK, Editors, Streams
  <2>15. CommitsWhole'
    BY <1>1, <2>2, <2>14, OthersCommit
  <2> QED BY <1>3, <1>4, <2>13, <2>14, <2>15, Assembled
<1> QED BY <1>5, <1>6

\* Opening a stream may leave any file behind, of which nothing is asked yet.
LEMMA StreamFacts ==
    ASSUME NEW c \in Clients, NewOutputStream(c) \/ UpdateRandomAccessOutput(c),
           ClientsOK, FilesOK
    PROVE  /\ \E kind \in Streams : OpenStream(c, kind)
           /\ dirty' \in [Keys -> Files]
           /\ \A j \in Keys \ {client[c].key} : dirty'[j] = dirty[j]
<1> DEFINE k == client[c].key
<1>1. /\ dirty \in [Keys -> Files] /\ clean \in [Keys -> Files]
      /\ Partial \in Files
  BY DEF FilesOK, Files
<1>2. CASE NewOutputStream(c)
  <2>1. \E kind \in Streams : OpenStream(c, kind)
    BY <1>2 DEF NewOutputStream, Streams
  <2>2. dirty' = [dirty EXCEPT ![k] = Partial] \/ UNCHANGED dirty
    BY <1>2 DEF NewOutputStream
  <2> HIDE DEF k
  <2>3. dirty' \in [Keys -> Files] /\ \A j \in Keys \ {k} : dirty'[j] = dirty[j]
    BY <1>1, <2>2
  <2> QED BY <2>1, <2>3 DEF k
<1>3. CASE UpdateRandomAccessOutput(c)
  <2>1. PICK kind \in {"random", "nowhere"} :
            /\ OpenStream(c, kind)
            /\ \E copied \in IF entry[k].readable THEN CopiedCleanToDirty(k) ELSE {dirty[k]} :
                  dirty' = [dirty EXCEPT ![k] =
                              IF copied = NoFile /\ kind = "random" THEN Partial ELSE copied]
    BY <1>3 DEF UpdateRandomAccessOutput
  <2>2. kind \in Streams
    BY DEF Streams
  <2>3. k \in Keys
    BY <2>1, ClientFacts DEF OpenStream
  <2> HIDE DEF k
  <2>4. PICK copied \in IF entry[k].readable THEN CopiedCleanToDirty(k) ELSE {dirty[k]} :
            dirty' = [dirty EXCEPT ![k] =
                         IF copied = NoFile /\ kind = "random" THEN Partial ELSE copied]
    BY <2>1
  <2>5. copied \in Files
    BY <1>1, <2>3, <2>4 DEF CopiedCleanToDirty
  <2>6. dirty' \in [Keys -> Files] /\ \A j \in Keys \ {k} : dirty'[j] = dirty[j]
    BY <1>1, <2>4, <2>5
  <2> QED BY <2>1, <2>2, <2>6 DEF k
<1> QED BY <1>2, <1>3

LEMMA StreamStep ==
    ASSUME IInv, NEW c \in Clients, NewOutputStream(c) \/ UpdateRandomAccessOutput(c)
    PROVE  IInv'
<1>1. ClientsOK /\ FilesOK
  BY DEF IInv
<1>2. PICK kind \in Streams : OpenStream(c, kind)
  BY <1>1, StreamFacts
<1>3. /\ dirty' \in [Keys -> Files]
      /\ \A j \in Keys \ {client[c].key} : dirty'[j] = dirty[j]
  BY <1>1, StreamFacts
<1>4. /\ monitor = "free" /\ client[c].pc = "edit" /\ Current(c)
      /\ client' = [client EXCEPT ![c].pc = "write", ![c].stream = kind]
      /\ UNCHANGED <<memory, monitor, clean, journals, fresh, edits, opens>>
  BY <1>2 DEF OpenStream, Ready
<1>5. Core /\ CommitsWhole
  BY <1>4, HasCore DEF IInv
<1>6. client[c].key \in Keys /\ client[c] \in Editors
  BY <1>1, <1>4, ClientFacts
<1>7. Core'
  BY <1>3, <1>4, <1>5, CoreStays
<1>8. /\ ClientsOK' /\ client'[c].pc = "write"
      /\ \A d \in Clients \ {c} : client'[d] = client[d]
  BY <1>1, <1>4, <1>6 DEF ClientsOK, Editors
<1>9. CommitsWhole'
  BY <1>1, <1>3, <1>4, <1>5, <1>6, <1>8, OthersCommit DEF Current, memory
<1>10. Bounds' /\ MonitorOK' /\ ClosedUnedited' /\ monitor' # "rename"
  BY <1>4 DEF IInv, Bounds, MonitorOK, ClosedUnedited, NothingEdited, memory
<1> QED BY <1>7, <1>8, <1>9, <1>10, Assembled

\* Values are written without the lock, whatever else is under way.
LEMMA WriteFacts ==
    ASSUME ClientsOK, FilesOK, NEW c \in Clients, Write(c)
    PROVE  /\ client[c].key \in Keys /\ client[c].pc = "write"
           /\ ClientsOK' /\ client'[c].key = client[c].key
           /\ \A d \in Clients \ {c} : client'[d] = client[d]
           /\ dirty' \in [Keys -> Files]
           /\ \A j \in Keys : dirty'[j] = dirty[j] \/ (j = client[c].key /\ Current(c))
           /\ Succeeded(c)' /\ Current(c) /\ client'[c].stream = "file"
                 => dirty'[client[c].key] # Partial
<1> DEFINE k == client[c].key
<1>1. PICK failed \in BOOLEAN :
          /\ client' = [client EXCEPT ![c].pc = "commit", ![c].hasErrors = failed]
          /\ IF Current(c)
             THEN \E file \in IF failed THEN {Partial} ELSE Written(c) :
                     dirty' = [dirty EXCEPT ![k] = file]
             ELSE UNCHANGED dirty
  BY DEF Write
<1>2. client[c].pc = "write"
  BY DEF Write
<1>3. k \in Keys /\ client[c] \in Editors /\ client[c].stream \in Streams
  BY <1>2, ClientFacts
<1>4. /\ ClientsOK' /\ client'[c].key = k /\ client'[c].stream = client[c].stream
      /\ client'[c].hasErrors = failed
      /\ \A d \in Clients \ {c} : client'[d] = client[d]
  BY <1>1, <1>3 DEF ClientsOK, Editors
<1>5. dirty \in [Keys -> Files] /\ Partial \in Files /\ Lengths \subseteq Files
  BY DEF FilesOK, Files
<1>6. Written(c) \subseteq Files /\ (client[c].stream = "file" => Partial \notin Written(c))
  <2>1. CASE client[c].stream = "file"
    BY <1>5, <2>1, NoClientIsNone DEF Written
  <2>2. CASE client[c].stream = "random"
    BY <1>3, <1>5, <2>2 DEF Written
  <2>3. CASE client[c].stream = "nowhere"
    BY <1>3, <1>5, <2>3 DEF Written
  <2> QED BY <1>3, <2>1, <2>2, <2>3 DEF Streams
<1>7. CASE Current(c)
  <2> HIDE DEF k
  <2>1. PICK file \in IF failed THEN {Partial} ELSE Written(c) :
            dirty' = [dirty EXCEPT ![k] = file]
    BY <1>1, <1>7
  <2>2. file \in Files
    BY <1>5, <1>6, <2>1
  <2>3. /\ dirty' \in [Keys -> Files] /\ dirty'[k] = file
        /\ \A j \in Keys : dirty'[j] = dirty[j] \/ j = k
    BY <1>3, <1>5, <2>1, <2>2
  <2>4. Succeeded(c)' => ~ failed
    BY <1>4 DEF Succeeded
  <2>5. Succeeded(c)' /\ client'[c].stream = "file" => dirty'[k] # Partial
    BY <1>4, <1>6, <2>1, <2>3, <2>4
  <2> QED BY <1>2, <1>3, <1>4, <1>7, <2>3, <2>5 DEF k
<1>8. CASE ~ Current(c)
  BY <1>1, <1>2, <1>3, <1>4, <1>5, <1>8
<1> QED BY <1>7, <1>8

LEMMA WriteStep == ASSUME IInv, NEW c \in Clients, Write(c) PROVE IInv'
<1> USE DEF IInv
<1> DEFINE k == client[c].key
<1>1. UNCHANGED <<memory, monitor, clean, journals, fresh, edits, opens>>
  BY DEF Write
<1>2. /\ k \in Keys /\ client[c].pc = "write"
      /\ ClientsOK' /\ client'[c].key = k
      /\ \A d \in Clients \ {c} : client'[d] = client[d]
  BY WriteFacts
<1>3. /\ dirty' \in [Keys -> Files]
      /\ \A j \in Keys : dirty'[j] = dirty[j] \/ (j = k /\ Current(c))
      /\ Succeeded(c)' /\ Current(c) /\ client'[c].stream = "file" => dirty'[k] # Partial
  BY WriteFacts
<1>4. CommitsWhole'
  <2>1. Current(c)' <=> Current(c)
    BY <1>1, <1>2 DEF Current, memory
  <2>2. \A j \in Keys : \/ entry'[j].editor = entry[j].editor /\ dirty'[j] = dirty[j]
                        \/ entry'[j].editor = c
    BY <1>1, <1>3 DEF Current, memory
  <2>3. client'[c].pc = "commit" /\ Current(c)' /\ Succeeded(c)' /\ client'[c].stream = "file"
            => dirty'[client'[c].key] # Partial
    BY <1>2, <1>3, <2>1
  <2> HIDE DEF k
  <2> QED BY <1>2, <2>2, <2>3, OthersCommit
<1> HIDE DEF k
<1>5. Bounds' /\ MonitorOK' /\ ClosedUnedited'
  BY <1>1 DEF Bounds, MonitorOK, ClosedUnedited, NothingEdited, memory
<1>6. MemoryOK' /\ FilesOK'
  BY <1>1, <1>3 DEF MemoryOK, FilesOK, memory, journals
<1>7. SizeAccounting' /\ UnpublishedEmpty'
  BY <1>1 DEF SizeAccounting, UnpublishedEmpty, memory
<1>8. Journaled'
  BY <1>1 DEF Journaled, JournalCovers, BackupCovers, Covers, memory, journals
<1> QED BY <1>2, <1>4, <1>5, <1>6, <1>7, <1>8

\* An edit that ends, whether it is published or given up.
LEMMA EditEnds ==
    ASSUME IInv, NEW k \in Keys, Core', ClientsOK', monitor \notin {"rename", "close"},
           UNCHANGED <<monitor, open, fresh, edits, opens>>,
           entry'[k].editor = NoClient,
           \A j \in Keys \ {k} : entry'[j] = entry[j] /\ dirty'[j] = dirty[j],
           \A c \in Clients : client'[c].pc = "commit" => client'[c] = client[c]
    PROVE  IInv'
<1> USE DEF IInv
<1>1. \A j \in Keys \ {k} : entry'[j].editor = entry[j].editor /\ dirty'[j] = dirty[j]
  BY DEF FilesOK
<1>2. CommitsWhole'
  BY <1>1, CommitsStay
<1>3. ClosedUnedited'
  BY DEF ClosedUnedited, NothingEdited
<1>4. Bounds' /\ MonitorOK' /\ monitor' # "rename"
  BY DEF Bounds, MonitorOK
<1> QED BY <1>2, <1>3, <1>4, Assembled

\* An editor that close() aborted has nothing to publish or to give up.
LEMMA TooLate ==
    ASSUME IInv, monitor = "free", NEW c \in Clients, client' = [client EXCEPT ![c] = Idle],
           UNCHANGED <<memory, clean, dirty, journal, written, monitor, backup, fresh, edits, opens>>
    PROVE  IInv'
<1> USE DEF IInv
<1>1. /\ ClientsOK' /\ client'[c].pc # "commit"
      /\ \A d \in Clients \ {c} : client'[d] = client[d]
  BY DEF ClientsOK, Idle
<1>2. Core
  BY HasCore
<1>3. Core'
  <2>1. dirty' \in [Keys -> Files] /\ UNCHANGED journals
    BY DEF FilesOK, journals
  <2> QED BY <1>2, <2>1, CoreStays
<1>4. CommitsWhole'
  BY <1>1, OthersCommit DEF memory
<1>5. Bounds' /\ MonitorOK' /\ ClosedUnedited' /\ monitor' # "rename"
  BY DEF Bounds, MonitorOK, ClosedUnedited, NothingEdited, memory
<1> QED BY <1>1, <1>3, <1>4, <1>5, Assembled

LEMMA CommitStep == ASSUME IInv, NEW c \in Clients, Commit(c) PROVE IInv'
<1> DEFINE k == client[c].key
<1>1. /\ client[c].pc = "commit" /\ monitor = "free"
      /\ UNCHANGED <<monitor, backup, fresh, edits, opens>>
  BY DEF Commit
<1>2. Core /\ ClientsOK /\ CommitsWhole
  BY <1>1, HasCore DEF IInv
<1>3. /\ k \in Keys
      /\ client[c] \in Editors
  BY <1>1, <1>2, ClientFacts
<1>4. CASE ~ Current(c)
  BY <1>1, <1>4, TooLate DEF Commit
<1>5. CASE Current(c)
  <2>1. /\ IF Succeeded(c) /\ (entry[k].readable \/ dirty[k] # NoFile)
           THEN PublishEdit(k) ELSE AbandonEdit(k)
        /\ client' = IF Succeeded(c) THEN [client EXCEPT ![c] = Idle]
                     ELSE [client EXCEPT ![c].pc = "remove"]
        /\ UNCHANGED open
    BY <1>5 DEF Commit
  <2>2. /\ Core' /\ entry'[k].editor = NoClient
        /\ \A j \in Keys \ {k} : entry'[j] = entry[j] /\ dirty'[j] = dirty[j]
    <3>1. CASE Succeeded(c) /\ (entry[k].readable \/ dirty[k] # NoFile)
      <4>1. PublishEdit(k)
        BY <2>1, <3>1
      <4>2. k \in ToSet(lru)
        BY <1>2, <1>3, <1>5, EntryFacts, NoClientIsNone DEF Core, Current
      <4> HIDE DEF k
      <4> QED BY <1>1, <1>2, <1>3, <2>1, <3>1, <4>1, <4>2, PublishKeeps
    <3>2. CASE ~ (Succeeded(c) /\ (entry[k].readable \/ dirty[k] # NoFile))
      <4>1. AbandonEdit(k)
        BY <2>1, <3>2
      <4> HIDE DEF k
      <4> QED BY <1>1, <1>2, <1>3, <2>1, <4>1, AbandonKeeps
    <3> QED BY <3>1, <3>2
  <2>3. /\ ClientsOK'
        /\ \A d \in Clients : client'[d].pc = "commit" => client'[d] = client[d]
    <3>1. CASE client' = [client EXCEPT ![c] = Idle]
      BY <1>2, <3>1 DEF ClientsOK, Idle
    <3>2. CASE client' = [client EXCEPT ![c].pc = "remove"]
      <4>1. client'[c].pc = "remove" /\ client'[c] \in Editors
        BY <1>2, <1>3, <3>2 DEF ClientsOK, Editors
      <4>2. \A d \in Clients \ {c} : client'[d] = client[d]
        BY <1>2, <3>2 DEF ClientsOK
      <4>3. ClientsOK'
        BY <1>2, <3>2, <4>1, <4>2 DEF ClientsOK
      <4> QED BY <4>1, <4>2, <4>3
    <3> QED BY <2>1, <3>1, <3>2
  <2> HIDE DEF k
  <2> QED BY <1>1, <1>3, <2>1, <2>2, <2>3, EditEnds
<1> QED BY <1>4, <1>5

LEMMA AbortStep == ASSUME IInv, NEW c \in Clients, Abort(c) PROVE IInv'
<1> DEFINE k == client[c].key
<1>1. /\ client[c].pc \in {"edit", "write"} /\ monitor = "free"
      /\ client' = [client EXCEPT ![c] = Idle]
      /\ UNCHANGED <<monitor, backup, fresh, edits, opens>>
  BY DEF Abort
<1>2. Core /\ ClientsOK
  BY <1>1, HasCore DEF IInv
<1>3. CASE ~ Current(c)
  BY <1>1, <1>3, TooLate DEF Abort
<1>4. CASE Current(c)
  <2>1. AbandonEdit(k) /\ UNCHANGED open
    BY <1>4 DEF Abort
  <2>2. k \in Keys
    BY <1>1, <1>2, ClientFacts
  <2>3. ClientsOK' /\ \A d \in Clients : client'[d].pc = "commit" => client'[d] = client[d]
    BY <1>1, <1>2 DEF ClientsOK, Idle
  <2> HIDE DEF k
  <2>4. /\ Core' /\ entry'[k].editor = NoClient
        /\ \A j \in Keys \ {k} : entry'[j] = entry[j] /\ dirty'[j] = dirty[j]
    BY <1>1, <1>2, <2>1, <2>2, AbandonKeeps
  <2> QED BY <1>1, <2>1, <2>2, <2>3, <2>4, EditEnds
<1> QED BY <1>3, <1>4

\* The long sections go from one part to the next.
LEMMA OnlyMonitor ==
    ASSUME IInv, Core', UNCHANGED <<entry, open, client, dirty, fresh, edits, opens>>,
           monitor' \in {"free", "cleanup", "flush", "abort", "close", "backup", "delete"},
           open \/ monitor' = "free",
           monitor' = "close" => NothingEdited
    PROVE  IInv'
<1> USE DEF IInv
<1>1. Bounds' /\ ClientsOK' /\ MonitorOK' /\ monitor' # "rename"
  BY DEF Bounds, ClientsOK, MonitorOK
<1>2. CommitsWhole'
  BY DEF CommitsWhole, Current, Succeeded
<1>3. ClosedUnedited'
  BY DEF ClosedUnedited, NothingEdited
<1> QED BY <1>1, <1>2, <1>3, Assembled

LEMMA BeginStep == ASSUME IInv, BeginCleanup \/ BeginFlush \/ BeginClose PROVE IInv'
<1>1. /\ open /\ monitor = "free" /\ monitor' \in {"cleanup", "flush", "abort"}
      /\ UNCHANGED <<lru, entry, size, open, client, clean, dirty, journal, backup, written,
                     fresh, edits, opens>>
  BY DEF BeginCleanup, BeginFlush, BeginClose, Ready, memory, journals
<1>2. Core
  BY <1>1, HasCore
<1>3. Core'
  <2>1. MemoryOK'
    <3>1. cleanupSubmitted' \in BOOLEAN
      <4>1. cleanupSubmitted \in BOOLEAN
        BY <1>2 DEF Core, MemoryOK
      <4>2. cleanupSubmitted' = FALSE \/ UNCHANGED cleanupSubmitted
        BY Zenon DEF BeginCleanup, BeginFlush, BeginClose, memory
      <4> QED BY <4>1, <4>2, Zenon
    <3> QED BY <1>1, <1>2, <3>1 DEF Core, MemoryOK
  <2> QED BY <1>1, <1>2, <2>1 DEF Core, FilesOK, SizeAccounting, UnpublishedEmpty,
                                  JournalCovers, Covers
<1> QED BY <1>1, <1>3, OnlyMonitor

LEMMA AbortNextStep == ASSUME IInv, AbortNext PROVE IInv'
<1> USE DEF IInv
<1> DEFINE still == {k \in Keys : entry[k].editor # NoClient}
           edited == Selected(lru, still)
<1>1. /\ monitor = "abort" /\ UNCHANGED <<client, backup, fresh, edits, opens>>
      /\ IF edited = << >>
         THEN monitor' = "close" /\ UNCHANGED <<memory, clean, dirty, journal, written>>
         ELSE AbandonEdit(Head(edited)) /\ UNCHANGED <<open, monitor>>
  BY DEF AbortNext
<1>2. open /\ Core
  BY <1>1, HasCore DEF ClosedUnedited
<1>3. edited \in Seq(Keys) /\ ToSet(edited) = ToSet(lru) \cap still
  BY SelectedFacts DEF MemoryOK
<1>4. CASE edited = << >>
  <2>1. ToSet(lru) \cap still = {}
    BY <1>3, <1>4, EmptyFacts
  <2>2. NothingEdited
    BY <2>1, EntryFacts DEF NothingEdited
  <2> HIDE DEF edited, still
  <2>3. monitor' = "close" /\ UNCHANGED <<memory, clean, dirty, journal, written>>
    BY <1>1, <1>4
  <2>4. Core'
    <3>1. dirty' \in [Keys -> Files] /\ UNCHANGED journals
      BY <1>1, <2>3 DEF FilesOK, journals
    <3> QED BY <1>1, <1>2, <2>3, <3>1, CoreStays
  <2> QED BY <1>1, <1>2, <2>2, <2>3, <2>4, OnlyMonitor DEF memory
<1>5. CASE edited # << >>
  <2> DEFINE k == Head(edited)
  <2>1. k \in Keys /\ AbandonEdit(k) /\ UNCHANGED <<open, monitor>>
    BY <1>1, <1>3, <1>5
  <2> HIDE DEF k
  <2>2. /\ Core' /\ entry'[k].editor = NoClient
        /\ \A j \in Keys \ {k} : entry'[j] = entry[j] /\ dirty'[j] = dirty[j]
    BY <1>1, <1>2, <2>1, AbandonKeeps
  <2>3. ClientsOK'
    BY <1>1 DEF ClientsOK
  <2> QED BY <1>1, <2>1, <2>2, <2>3, EditEnds
<1> QED BY <1>4, <1>5

LEMMA TrimStep == ASSUME IInv, Trim PROVE IInv'
<1>1. /\ monitor \in {"cleanup", "flush", "close"}
      /\ UNCHANGED <<client, dirty, backup, fresh, edits, opens>>
  BY DEF Trim, Trimming
<1>2. open /\ Core /\ lru \in Seq(Keys) /\ ClientsOK /\ FilesOK
  BY <1>1, HasCore DEF IInv, ClosedUnedited, MemoryOK
<1>3. CASE lru = << >>
  <2>1. monitor' = "free" /\ UNCHANGED <<memory, clean, journal, written>>
    BY <1>3 DEF Trim
  <2>2. Core'
    <3>1. dirty' \in [Keys -> Files] /\ UNCHANGED journals
      BY <1>1, <1>2, <2>1 DEF FilesOK, journals
    <3> QED BY <1>1, <1>2, <2>1, <3>1, CoreStays
  <2> QED BY <1>1, <1>2, <2>1, <2>2, OnlyMonitor DEF memory
<1>4. CASE lru # << >>
  <2> DEFINE k == Head(lru)
  <2>1. k \in Keys /\ RemoveEntry(k) /\ UNCHANGED monitor
    BY <1>2, <1>4 DEF Trim
  <2> HIDE DEF k
  <2>2. Core' /\ open' = open /\ \A j \in Keys : entry'[j].editor = entry[j].editor
    BY <1>1, <1>2, <2>1, RemoveEntryKeeps
  <2>3. ClientsOK'
    BY <1>1, <1>2 DEF ClientsOK
  <2> QED BY <1>1, <2>1, <2>2, <2>3, RestStays
<1> QED BY <1>3, <1>4

LEMMA TrimmedStep == ASSUME IInv, Trimmed PROVE IInv'
<1> USE DEF IInv
<1>1. UNCHANGED <<client, clean, dirty, edits, opens>>
  BY DEF Trimmed
<1>2. Bounds' /\ ClientsOK'
  BY <1>1 DEF Bounds, ClientsOK
<1>3. CASE monitor = "close" /\ Forget /\ UNCHANGED backup
           /\ journal' = IF journal = NoFile THEN NoFile ELSE written
  <2>1. written' = Empty
    BY <1>3 DEF Forget
  <2>2. FilesOK'
    BY <1>1, <1>3, <2>1, EmptyFacts DEF FilesOK
  <2>3. Core' /\ MonitorOK' /\ ClosedUnedited' /\ NothingEdited' /\ monitor' # "rename"
    BY <1>3, <2>2, Forgotten
  <2> QED BY <1>2, <2>3, NobodyCommits, Assembled
<1>4. CASE /\ monitor = "flush" /\ monitor' = "free" /\ Flushed(written)
           /\ UNCHANGED <<memory, backup, fresh>>
  <2>1. Core
    BY <1>4, HasCore
  <2>2. /\ journal' \in Replays \union {NoFile} /\ written' \in Replays
        /\ journal # NoFile => journal' = written /\ written' = written /\ journal' # NoFile
    <3>1. written \in Replays
      BY DEF FilesOK
    <3> QED BY <1>4, <3>1, FlushedFacts
  <2>3. Core'
    BY <1>1, <1>4, <2>1, <2>2 DEF Core, memory, MemoryOK, FilesOK, SizeAccounting,
                                  UnpublishedEmpty, JournalCovers, Covers
  <2> QED BY <1>1, <1>4, <2>3, OnlyMonitor DEF memory
<1>5. CASE /\ monitor = "cleanup" /\ monitor' \in {"backup", "free"}
           /\ UNCHANGED <<memory, journals, fresh>>
  <2>1. Core /\ open
    BY <1>5, HasCore DEF ClosedUnedited
  <2>2. dirty' \in [Keys -> Files]
    BY <1>1 DEF FilesOK
  <2>3. Core'
    BY <1>1, <1>5, <2>1, <2>2, CoreStays
  <2> QED BY <1>1, <1>5, <2>1, <2>3, OnlyMonitor DEF memory
<1> QED BY <1>3, <1>4, <1>5 DEF Trimmed

\* The journal that is written anew covers memory.
LEMMA MemoryImageFacts ==
    ASSUME MemoryOK
    PROVE  MemoryImage \in Replays /\ Covers(entry, MemoryImage)
<1> DEFINE imaged == [k \in Keys |->
        IF k \notin ToSet(lru) THEN Absent
        ELSE IF entry[k].editor # NoClient
             THEN [length |-> 0, readable |-> FALSE, editor |-> Replayed]
             ELSE [length |-> size, readable |-> TRUE, editor |-> NoClient]]
<1>1. MemoryImage = [order |-> lru, entry |-> imaged]
  BY DEF MemoryImage
<1>2. imaged \in [Keys -> Entries]
  <2>1. /\ [length |-> 0, readable |-> FALSE, editor |-> Replayed] \in Entries
        /\ [length |-> size, readable |-> TRUE, editor |-> NoClient] \in Entries
    BY DEF Entries, MemoryOK
  <2> QED BY <2>1, AbsentIsEntry
<1>3. \A k \in Keys :
         /\ entry[k].editor # NoClient <=> imaged[k].editor # NoClient
         /\ entry[k].readable /\ entry[k].editor = NoClient => imaged[k].readable
  <2> SUFFICES ASSUME NEW k \in Keys
               PROVE  /\ entry[k].editor # NoClient <=> imaged[k].editor # NoClient
                      /\ entry[k].readable /\ entry[k].editor = NoClient => imaged[k].readable
    OBVIOUS
  <2>1. CASE k \notin ToSet(lru)
    BY <2>1 DEF MemoryOK, Absent
  <2>2. CASE k \in ToSet(lru) /\ entry[k].editor # NoClient
    BY <2>2, NoClientIsNone
  <2>3. CASE k \in ToSet(lru) /\ entry[k].editor = NoClient
    BY <2>3
  <2> QED BY <2>1, <2>2, <2>3
<1> HIDE DEF imaged
<1>4. MemoryImage \in Replays
  BY <1>1, <1>2 DEF Images, Replays, MemoryOK
<1>5. Covers(entry, MemoryImage)
  BY <1>1, <1>3 DEF Covers
<1> QED BY <1>4, <1>5

\* While the journal is exchanged, one of the two files always covers memory.
LEMMA RebuildStep == ASSUME IInv, Rebuild PROVE IInv'
<1> USE DEF IInv
<1>1. UNCHANGED <<lru, entry, size, open, cleanupSubmitted, client, clean, dirty, fresh,
                  edits, opens>>
  BY DEF Rebuild
<1>2. /\ Bounds' /\ ClientsOK' /\ MemoryOK' /\ CommitsWhole'
      /\ SizeAccounting' /\ UnpublishedEmpty'
  BY <1>1 DEF Bounds, ClientsOK, MemoryOK, CommitsWhole, Current, Succeeded,
              SizeAccounting, UnpublishedEmpty
<1>3. open /\ monitor' # "close" /\ MonitorOK'
  BY <1>1 DEF Rebuild, ClosedUnedited, MonitorOK
<1>4. ClosedUnedited'
  BY <1>1, <1>3 DEF ClosedUnedited
<1>5. CASE /\ monitor = "backup" /\ monitor' = "rename"
           /\ journal' = NoFile /\ backup' = BackupOfJournal /\ UNCHANGED written
  <2>1. FilesOK'
    BY <1>1, <1>5 DEF FilesOK, BackupOfJournal
  <2>2. Journaled'
    BY <1>1, <1>5, NoClientIsNone DEF Journaled, JournalCovers, BackupCovers, Covers,
                                      BackupOfJournal, FilesOK
  <2> QED BY <1>2, <1>3, <1>4, <2>1, <2>2
<1>6. CASE /\ monitor = "rename" /\ monitor' = "delete"
           /\ journal' = MemoryImage /\ written' = MemoryImage /\ UNCHANGED backup
  <2>1. MemoryImage \in Replays /\ Covers(entry, MemoryImage)
    BY MemoryImageFacts
  <2>2. FilesOK'
    BY <1>1, <1>6, <2>1 DEF FilesOK
  <2>3. JournalCovers'
    BY <1>1, <1>6, <2>1, NoClientIsNone DEF JournalCovers
  <2>4. Journaled'
    BY <1>6, <2>3 DEF Journaled
  <2> QED BY <1>2, <1>3, <1>4, <2>2, <2>4
<1>7. CASE /\ monitor = "delete" /\ monitor' = "free" /\ backup' = NoFile
           /\ UNCHANGED <<journal, written>>
  <2>1. FilesOK'
    BY <1>1, <1>7 DEF FilesOK
  <2>2. Journaled'
    BY <1>1, <1>7 DEF Journaled, JournalCovers, Covers
  <2> QED BY <1>2, <1>3, <1>4, <2>1, <2>2
<1> QED BY <1>5, <1>6, <1>7 DEF Rebuild

LEMMA Step == IInv /\ [Next]_vars => IInv'
<1> SUFFICES ASSUME IInv, [Next]_vars PROVE IInv'
  OBVIOUS
<1>1. CASE Open
  BY <1>1, OpenStep
<1>2. CASE Kill
  BY <1>2, KillStep
<1>3. CASE BeginCleanup \/ BeginFlush \/ BeginClose
  BY <1>3, BeginStep
<1>4. ASSUME NEW k \in Keys, Get(k) \/ RemoveKey(k) PROVE IInv'
  BY <1>4, GetStep, RemoveKeyStep
<1>5. ASSUME NEW c \in Clients, Put(c) PROVE IInv'
  <2>1. ASSUME NEW k \in Keys, Edit(c, k) PROVE IInv'
    BY <2>1, EditStep
  <2>2. CASE NewOutputStream(c) \/ UpdateRandomAccessOutput(c)
    BY <2>2, StreamStep
  <2>3. CASE Write(c)
    BY <2>3, WriteStep
  <2>4. CASE Commit(c)
    BY <2>4, CommitStep
  <2>5. CASE RemoveStale(c)
    BY <2>5, RemoveStaleStep
  <2>6. CASE Abort(c)
    BY <2>6, AbortStep
  <2> QED BY <1>5, <2>1, <2>2, <2>3, <2>4, <2>5, <2>6 DEF Put
<1>6. CASE AbortNext
  BY <1>6, AbortNextStep
<1>7. CASE Trim
  BY <1>7, TrimStep
<1>8. CASE Trimmed
  BY <1>8, TrimmedStep
<1>9. CASE Rebuild
  BY <1>9, RebuildStep
<1>10. CASE UNCHANGED vars
  <2>1. /\ UNCHANGED <<lru, entry, size, open, cleanupSubmitted, monitor, client, clean, dirty>>
        /\ UNCHANGED <<journal, backup, written, fresh, edits, opens>>
    BY <1>10 DEF vars, memory, journals
  <2>2. Bounds' /\ ClientsOK' /\ MemoryOK' /\ FilesOK' /\ MonitorOK'
    BY <2>1 DEF IInv, Bounds, ClientsOK, MemoryOK, FilesOK, MonitorOK
  <2>3. CommitsWhole' /\ SizeAccounting' /\ UnpublishedEmpty'
    BY <2>1 DEF IInv, CommitsWhole, Current, Succeeded, SizeAccounting,
                UnpublishedEmpty
  <2>4. ClosedUnedited'
    BY <2>1 DEF IInv, ClosedUnedited, NothingEdited
  <2>5. Journaled'
    BY <2>1 DEF IInv, Journaled, JournalCovers, BackupCovers, Covers
  <2> QED BY <2>2, <2>3, <2>4, <2>5 DEF IInv
<1> QED BY <1>1, <1>2, <1>3, <1>4, <1>5, <1>6, <1>7, <1>8, <1>9, <1>10 DEF Next, Maintenance

\* The invariant holds in every state of every behaviour of the cache's operations,
\* its cleanup job and the deaths of its process.
THEOREM Invariant == Spec => []IInv
<1>1. Init => IInv
  BY Initially
<1>2. IInv /\ [Next]_vars => IInv'
  BY Step
<1> QED BY <1>1, <1>2, PTL DEF Spec

--------------------------------------------------------------------------------
(* What follows from it *)

\* Everything has the type the model gives it; in particular no key is in the map
\* twice, and one that is not in it has no entry.
THEOREM TypeCorrect == Spec => []TypeOK
<1>1. IInv => TypeOK
  BY DEF IInv, TypeOK, Bounds, ClientsOK, MemoryOK, FilesOK, MonitorOK, Replays
<1> QED BY <1>1, Invariant, PTL

\* The size that trimToSize compares with maxSize is the sum over the entries, and
\* each entry's length is that of its file, in a cache that began empty.
THEOREM SizeIsTotal == Spec => []SizeAccounting
<1>1. IInv => SizeAccounting
  BY DEF IInv
<1> QED BY <1>1, Invariant, PTL

\* Wherever the process dies, between two renames too, there is a journal that
\* knows the published values and which entries were being edited.
THEOREM JournalIsComplete == Spec => []JournalComplete
<1>1. IInv => JournalComplete
  <2> SUFFICES ASSUME IInv, open, fresh
               PROVE  Recorded # NoFile /\ Covers(entry, Recorded)
    BY DEF JournalComplete, Covers
  <2>1. CASE monitor = "rename"
    BY <2>1 DEF IInv, Journaled, BackupCovers, Recorded
  <2>2. CASE monitor # "rename"
    BY <2>2 DEF IInv, Journaled, JournalCovers, Recorded
  <2> QED BY <2>1, <2>2
<1> QED BY <1>1, Invariant, PTL

--------------------------------------------------------------------------------
(* What is not whole is published only by editors without a file of their own *)

\* A removal, an eviction, an abort: a file stays as it is, or goes.
LEMMA OnlyRemoved ==
    ASSUME NEW k \in Keys, NEW j \in Keys, RemoveEntry(j) \/ AbandonEdit(j),
           clean \in [Keys -> Files]
    PROVE  clean'[k] \in {clean[k], NoFile}
BY DEF RemoveEntry, AbandonEdit, memory

LEMMA CommittedUnheard ==
    ASSUME IInv, NEW c \in Clients, Commit(c), NEW k \in Keys,
           clean'[k] = Partial, clean[k] # Partial
    PROVE  PublishesUnheard(c, k)
<1> DEFINE j == client[c].key
<1>0. clean \in [Keys -> Files] /\ ClientsOK /\ CommitsWhole
  BY DEF IInv, FilesOK
<1>1. client[c].pc = "commit" /\ j \in Keys
  BY <1>0, ClientFacts DEF Commit
<1>2. CASE ~ Current(c)
  BY <1>2 DEF Commit
<1>3. CASE Current(c) /\ ~ (Succeeded(c) /\ (entry[j].readable \/ dirty[j] # NoFile))
  <2>1. AbandonEdit(j)
    BY <1>3 DEF Commit
  <2> HIDE DEF j
  <2> QED BY <1>0, <1>1, <2>1, OnlyRemoved, NoClientIsNone
<1>4. CASE Current(c) /\ Succeeded(c) /\ (entry[j].readable \/ dirty[j] # NoFile)
  <2>1. PublishEdit(j)
    BY <1>4 DEF Commit
  <2>2. client[c].stream = "file" => dirty[j] # Partial
    BY <1>0, <1>1, <1>4 DEF CommitsWhole
  <2>3. clean' = [clean EXCEPT ![j] = dirty[j]]
    BY <2>1 DEF PublishEdit, Rename
  <2>4. j = k /\ dirty[j] = Partial
    <3> HIDE DEF j
    <3> QED BY <1>0, <1>1, <2>3
  <2> QED BY <1>1, <1>4, <2>2, <2>4 DEF PublishesUnheard
<1> QED BY <1>2, <1>3, <1>4

LEMMA Unheard ==
    ASSUME IInv, Next, NEW k \in Keys, clean'[k] = Partial, clean[k] # Partial
    PROVE  \E c \in Clients : PublishesUnheard(c, k)
<1>0. /\ clean \in [Keys -> Files] /\ Partial # NoFile /\ ClientsOK /\ FilesOK
      /\ clean' # clean
  BY NoClientIsNone DEF IInv, FilesOK
<1>1. ~ Open
  BY <1>0 DEF Open, Spared
<1>2. ~ (Kill \/ BeginCleanup \/ BeginFlush \/ BeginClose \/ Rebuild \/ Trimmed)
  BY <1>0 DEF Kill, BeginCleanup, BeginFlush, BeginClose, Rebuild, Trimmed
<1>3. \A j \in Keys : ~ Get(j) /\ ~ RemoveKey(j)
  <2>1. \A j \in Keys : ~ Get(j)
    BY <1>0 DEF Get
  <2> QED BY <1>0, <2>1, OnlyRemoved DEF RemoveKey
<1>4. ~ Trim
  <2>1. lru # << >> => Head(lru) \in Keys
    BY DEF IInv, MemoryOK
  <2> QED BY <1>0, <2>1, OnlyRemoved DEF Trim
<1>5. ~ AbortNext
  <2> DEFINE edited == Selected(lru, {j \in Keys : entry[j].editor # NoClient})
  <2>1. edited \in Seq(Keys)
    BY SelectedFacts DEF IInv, MemoryOK
  <2>2. edited # << >> => Head(edited) \in Keys
    BY <2>1
  <2>3. AbortNext => UNCHANGED clean \/ (edited # << >> /\ AbandonEdit(Head(edited)))
    BY DEF AbortNext
  <2> HIDE DEF edited
  <2> QED BY <1>0, <2>2, <2>3, OnlyRemoved
<1>6. ASSUME NEW c \in Clients, Put(c) PROVE PublishesUnheard(c, k)
  <2>1. \A j \in Keys : ~ Edit(c, j)
    BY <1>0 DEF Edit
  <2>2. ~ (NewOutputStream(c) \/ UpdateRandomAccessOutput(c))
    BY <1>0 DEF NewOutputStream, UpdateRandomAccessOutput, OpenStream
  <2>3. ~ Write(c)
    BY <1>0 DEF Write
  <2>4. ~ RemoveStale(c)
    <3>1. RemoveStale(c) => client[c].key \in Keys
      BY <1>0, ClientFacts DEF RemoveStale
    <3> QED BY <1>0, <3>1, OnlyRemoved DEF RemoveStale
  <2>5. ~ Abort(c)
    <3>1. Abort(c) => client[c].key \in Keys
      BY <1>0, ClientFacts DEF Abort
    <3> QED BY <1>0, <3>1, OnlyRemoved DEF Abort
  <2>6. Commit(c)
    BY <1>6, <2>1, <2>2, <2>3, <2>4, <2>5 DEF Put
  <2> QED BY <2>6, CommittedUnheard
<1> QED BY <1>1, <1>2, <1>3, <1>4, <1>5, <1>6 DEF Next, Maintenance

\* "Committing is atomic": a value that is not whole appears only by a commit whose
\* editor had no file of its own: its stream was given up silently, or was the
\* random access one.  Whatever else failed, was aborted or came too late, commit
\* renames over the value only a file that was written to its end.
THEOREM CommittingIsAtomic == Spec => NoPartialValue
<1> DEFINE Whole == \A k \in Keys : clean'[k] = Partial /\ clean[k] # Partial =>
                        \E c \in Clients : PublishesUnheard(c, k)
<1>1. IInv /\ [Next]_vars => [Whole]_vars
  <2> SUFFICES ASSUME IInv, Next PROVE Whole
    OBVIOUS
  <2> QED BY Unheard
<1>2. Spec => [][Whole]_vars
  BY <1>1, Invariant, PTL DEF Spec
<1> QED BY <1>2 DEF NoPartialValue

--------------------------------------------------------------------------------
(* Nobody takes an entry from its editor *)

\* A step that leaves the editor's thread and its entry alone.
LEMMA Undisturbed ==
    ASSUME NEW c \in Clients, Editing(c), client'[c] = client[c],
           entry'[client[c].key].editor = entry[client[c].key].editor
    PROVE  Editing(c)'
BY DEF Editing, Current

\* An edit that another thread ends is of another entry.
LEMMA OtherEditEnds ==
    ASSUME MemoryOK, NEW c \in Clients, NEW d \in Clients, c # d,
           ClientsOK, client[d].pc # "idle", Commit(d) \/ Abort(d), Editing(c)
    PROVE  entry'[client[c].key].editor = entry[client[c].key].editor
<1> DEFINE k == client[d].key
<1>1. k \in Keys /\ client[c].key \in Keys /\ entry[client[c].key].editor = c
  BY ClientFacts DEF Editing, Current
<1>2. CASE ~ Current(d)
  BY <1>2 DEF Commit, Abort, memory
<1>3. CASE Current(d)
  <2>1. client[c].key # k
    BY <1>1, <1>3 DEF Current
  <2>2. PublishEdit(k) \/ AbandonEdit(k)
    BY <1>3 DEF Commit, Abort
  <2> HIDE DEF k
  <2>3. \A j \in Keys \ {k} : entry'[j] = entry[j]
    BY <1>1, <2>2 DEF PublishEdit, AbandonEdit, MemoryOK
  <2> QED BY <1>1, <2>1, <2>3
<1> QED BY <1>2, <1>3

LEMMA EditorKept ==
    ASSUME IInv, Next, NEW c \in Clients, Editing(c),
           client'[c].pc \in {"edit", "write", "commit"}, monitor # "abort"
    PROVE  Editing(c)'
<1> DEFINE k == client[c].key
<1> USE DEF IInv
<1>0. /\ k \in Keys /\ entry[k].editor = c /\ c # NoClient
      /\ client[c].pc \in {"edit", "write", "commit"}
      /\ client[c] # Idle
  BY ClientFacts, NoClientIsNone DEF Editing, Current, Idle
<1>1. open /\ monitor # "close"
  BY <1>0 DEF ClosedUnedited, NothingEdited
<1>2. CASE Open
  BY <1>1, <1>2 DEF Open
<1>3. CASE Kill
  BY <1>3 DEF Kill, Idle
<1>4. CASE BeginCleanup \/ BeginFlush \/ BeginClose \/ Rebuild \/ \E j \in Keys : Get(j)
  <2>1. UNCHANGED <<entry, client>>
    BY <1>4 DEF BeginCleanup, BeginFlush, BeginClose, Rebuild, Get, memory
  <2> QED BY <2>1, Undisturbed
<1>5. CASE (\E j \in Keys : RemoveKey(j)) \/ Trim
  <2>1. monitor # "rename" /\ UNCHANGED <<client, dirty, backup, fresh>>
    BY <1>5 DEF RemoveKey, Ready, Trim, Trimming
  <2>2. \A i \in Keys : entry'[i].editor = entry[i].editor
    <3>1. CASE \E j \in Keys : RemoveEntry(j)
      BY <2>1, <3>1, HasCore, RemoveEntryKeeps
    <3>2. CASE UNCHANGED entry
      BY <3>2
    <3>3. lru # << >> => Head(lru) \in Keys
      BY DEF MemoryOK
    <3> QED BY <1>5, <3>1, <3>2, <3>3 DEF RemoveKey, Trim, memory
  <2> QED BY <1>0, <2>1, <2>2, Undisturbed
<1>6. CASE Trimmed
  <2>1. UNCHANGED <<entry, client>>
    BY <1>1, <1>6 DEF Trimmed, memory
  <2> QED BY <2>1, Undisturbed
<1>7. ASSUME NEW d \in Clients, Put(d) PROVE Editing(c)'
  <2>1. CASE d = c
    <3>1. NewOutputStream(c) \/ UpdateRandomAccessOutput(c) \/ Write(c)
      <4>1. ~ \E j \in Keys : Edit(c, j)
        BY <1>0 DEF Edit
      <4>2. ~ RemoveStale(c)
        BY <1>0 DEF RemoveStale
      <4>3. ~ Abort(c)
        <5>1. Abort(c) => client'[c] = Idle
          BY DEF Abort, ClientsOK
        <5> QED BY <5>1 DEF Idle
      <4>4. ~ Commit(c)
        <5>1. client[c] \in Editors
          BY <1>0, ClientFacts
        <5>2. CASE client' = [client EXCEPT ![c] = Idle]
          <6>1. client'[c].pc = "idle"
            BY <5>2 DEF ClientsOK, Idle
          <6> QED BY <6>1
        <5>3. CASE client' = [client EXCEPT ![c].pc = "remove"]
          <6>1. client'[c].pc = "remove"
            BY <5>1, <5>3 DEF ClientsOK, Editors
          <6> QED BY <6>1
        <5> QED BY <5>2, <5>3 DEF Commit
      <4> QED BY <1>7, <2>1, <4>1, <4>2, <4>3, <4>4 DEF Put
    <3>2. client'[c].key = k /\ UNCHANGED entry
      <4>1. client[c] \in Editors
        BY <1>0, ClientFacts
      <4>2. CASE Write(c)
        BY <4>2, WriteFacts DEF Write, memory
      <4>3. CASE NewOutputStream(c) \/ UpdateRandomAccessOutput(c)
        <5>1. PICK kind \in Streams : OpenStream(c, kind)
          BY <4>3, StreamFacts
        <5> QED BY <4>1, <5>1 DEF OpenStream, memory, ClientsOK, Editors
      <4> QED BY <3>1, <4>2, <4>3
    <3> QED BY <1>0, <3>2 DEF Editing, Current
  <2>2. CASE d # c
    <3>1. client'[c] = client[c]
      <4>1. CASE NewOutputStream(d) \/ UpdateRandomAccessOutput(d)
        <5>1. PICK kind \in Streams : OpenStream(d, kind)
          BY <4>1, StreamFacts
        <5> QED BY <2>2, <5>1 DEF OpenStream, ClientsOK
      <4>2. CASE Write(d)
        BY <2>2, <4>2, WriteFacts
      <4>3. CASE ~ (NewOutputStream(d) \/ UpdateRandomAccessOutput(d)) /\ ~ Write(d)
        BY <1>7, <2>2, <4>3 DEF Put, Edit, Commit, RemoveStale, Abort, ClientsOK
      <4> QED BY <4>1, <4>2, <4>3
    <3>2. entry'[k].editor = entry[k].editor
      <4>1. ASSUME NEW j \in Keys, Edit(d, j) PROVE entry'[k].editor = entry[k].editor
        BY <1>0, <4>1 DEF Edit, Editable, MemoryOK
      <4>2. CASE NewOutputStream(d) \/ UpdateRandomAccessOutput(d) \/ Write(d)
        <5>1. CASE Write(d)
          BY <5>1 DEF Write, memory
        <5>2. CASE NewOutputStream(d) \/ UpdateRandomAccessOutput(d)
          <6>1. PICK kind \in Streams : OpenStream(d, kind)
            BY <5>2, StreamFacts
          <6> QED BY <6>1 DEF OpenStream, memory
        <5> QED BY <4>2, <5>1, <5>2
      <4>3. CASE Commit(d) \/ Abort(d)
        BY <2>2, <4>3, OtherEditEnds DEF Commit, Abort
      <4>4. CASE RemoveStale(d)
        <5>1. monitor = "free" /\ client[d].pc = "remove" /\ UNCHANGED <<dirty, backup, fresh>>
              /\ RemoveEntry(client[d].key)
          BY <1>1, <4>4 DEF RemoveStale
        <5>2. client[d].key \in Keys
          BY <5>1, ClientFacts
        <5> QED BY <1>0, <5>1, <5>2, HasCore, RemoveEntryKeeps
      <4> QED BY <1>7, <4>1, <4>2, <4>3, <4>4 DEF Put
    <3> QED BY <3>1, <3>2, Undisturbed
  <2> QED BY <2>1, <2>2
<1>8. ~ AbortNext
  BY DEF AbortNext
<1> QED BY <1>2, <1>3, <1>4, <1>5, <1>6, <1>7, <1>8 DEF Next, Maintenance

\* "An entry may have only one editor at one time": until it commits or aborts, an
\* editor keeps its entry, except from close().
THEOREM OneEditorPerEntry == Spec => EditorNotDisplaced
<1> DEFINE Kept == \A c \in Clients :
                      Editing(c) /\ client'[c].pc \in {"edit", "write", "commit"}
                        /\ monitor # "abort" => Editing(c)'
<1>1. IInv /\ [Next]_vars => [Kept]_vars
  <2> SUFFICES ASSUME IInv, Next PROVE Kept
    OBVIOUS
  <2> QED BY EditorKept
<1>2. Spec => [][Kept]_vars
  BY <1>1, Invariant, PTL DEF Spec
<1> QED BY <1>2 DEF EditorNotDisplaced

================================================================================
