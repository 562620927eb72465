---------------------------------- MODULE Lists ----------------------------------
(***************************************************************************)
(* Lemmas about lists that the proofs about the proxies share: what is in  *)
(* a list, and how it changes when an element is put at its end, taken     *)
(* from its front, or taken out of it.                                     *)
(***************************************************************************)
EXTENDS Integers, FiniteSets, SequencesExt, SequenceTheorems, FiniteSetTheorems, WellFoundedInduction, TLAPS

\* The elements of a sequence, one by one, are what its type says.
LEMMA ElementType ==
  ASSUME NEW S, NEW s \in Seq(S), NEW i \in 1..Len(s)
  PROVE  s[i] \in S
  OBVIOUS

\* A sequence is a function of its indices.
LEMMA IndexedBy ==
  ASSUME NEW S, NEW s \in Seq(S)
  PROVE  Len(s) \in Nat /\ s \in [1..Len(s) -> S] /\ DOMAIN s = 1..Len(s)
  OBVIOUS

\* A sequence that is not empty has a first element and a rest.
LEMMA HeadAndTail ==
  ASSUME NEW S, NEW s \in Seq(S), s # <<>>
  PROVE  /\ Head(s) \in S /\ Head(s) = s[1] /\ Tail(s) \in Seq(S)
         /\ Len(s) \in Nat \ {0} /\ Len(Tail(s)) = Len(s) - 1
         /\ \A i \in 1..Len(s) - 1 : Tail(s)[i] = s[i + 1]
  OBVIOUS

\* Taking one element out of a list, as qlist_remove() does, leaves a list of
\* elements it had.
LEMMA RemoveAtType ==
  ASSUME NEW S, NEW s \in Seq(S), NEW i \in 1..Len(s)
  PROVE  RemoveAt(s, i) \in Seq(S)
<1>1. SubSeq(s, 1, i - 1) \in Seq(S)
  OBVIOUS
<1>2. SubSeq(s, i + 1, Len(s)) \in Seq(S)
  OBVIOUS
<1>3. QED
  BY <1>1, <1>2 DEF RemoveAt

\* A set of indices has a smallest one: among the intervals that begin at 0 and
\* end at one of them there is one without a smaller one.
LEMMA SmallestIndex ==
  ASSUME NEW T \in SUBSET Nat, T # {}
  PROVE  Min(T) \in T /\ \A i \in T : Min(T) <= i
<1> DEFINE Upto == {0..i : i \in T}
<1>1. Upto \subseteq FiniteSubsetsOf(Nat) /\ Upto # {}
  <2>1. \A i \in T : 0..i \in SUBSET Nat /\ IsFiniteSet(0..i)
    BY FS_Interval
  <2>2. QED
    BY <2>1 DEF FiniteSubsetsOf
<1>2. IsWellFoundedOn(StrictSubsetOrdering(Nat), FiniteSubsetsOf(Nat))
  BY FS_StrictSubsetOrderingWellFounded
<1>3. PICK A \in Upto : \A B \in Upto : ~(<<B, A>> \in StrictSubsetOrdering(Nat))
  BY <1>1, <1>2, WFMin
<1>4. PICK x \in T : A = 0..x
  BY <1>3
<1>5. ASSUME NEW y \in T, ~(x <= y)
      PROVE  FALSE
  <2>1. 0..y \in Upto /\ 0..y \subseteq 0..x /\ x \in 0..x /\ x \notin 0..y
    BY <1>5
  <2>2. <<0..y, 0..x>> \in StrictSubsetOrdering(Nat)
    BY <2>1 DEF StrictSubsetOrdering
  <2>3. QED
    BY <2>1, <2>2, <1>3, <1>4
<1>6. QED
  BY <1>5 DEF Min

-----------------------------------------------------------------------------
(* What is in a list.                                                      *)

\* At most one element of s is in M, and none is.
AtMostOne(s, M) == \A i, j \in 1..Len(s) : s[i] \in M /\ s[j] \in M => i = j
NoneOf(s, M) == \A x \in ToSet(s) : x \notin M

\* No element is twice in s.
Distinct(s) == \A i, j \in 1..Len(s) : s[i] = s[j] => i = j

\* The elements of a list are those at its indices.
LEMMA ElementsAreIndexed ==
  ASSUME NEW S, NEW s \in Seq(S)
  PROVE  /\ \A i \in 1..Len(s) : s[i] \in ToSet(s)
         /\ \A x \in ToSet(s) : x \in S /\ \E i \in 1..Len(s) : x = s[i]
  BY DEF ToSet

\* A list is distinct if it has each element at most once.
LEMMA DistinctOnce ==
  ASSUME NEW S, NEW s \in Seq(S)
  PROVE  Distinct(s) <=> \A y \in S : AtMostOne(s, {y})
<1>1. \A i \in 1..Len(s) : s[i] \in S
  OBVIOUS
<1>2. QED
  BY <1>1 DEF Distinct, AtMostOne

\* An empty list has none, and a list that has none is empty.
LEMMA EmptyHasNone ==
  /\ ToSet(<<>>) = {} /\ \A M : AtMostOne(<<>>, M) /\ NoneOf(<<>>, M)
  /\ \A S : \A s \in Seq(S) : ToSet(s) = {} => s = <<>>
<1>1. ToSet(<<>>) = {}
  BY DEF ToSet
<1>2. ASSUME NEW S, NEW s \in Seq(S), ToSet(s) = {} PROVE s = <<>>
  <2>1. Len(s) \in Nat /\ ~(1 \in 1..Len(s))
    BY <1>2, ElementsAreIndexed
  <2>2. QED
    BY <2>1
<1>3. QED
  BY <1>1, <1>2 DEF AtMostOne, NoneOf

\* Append() adds one element, at the end.
LEMMA AppendElements ==
  ASSUME NEW S, NEW s \in Seq(S), NEW x \in S
  PROVE  /\ ToSet(Append(s, x)) = ToSet(s) \cup {x}
         /\ Append(s, x) \in Seq(S) /\ Append(s, x) # <<>>
         /\ s # <<>> => Append(s, x)[1] = s[1]
         /\ s = <<>> => Append(s, x)[1] = x
         /\ \A M : AtMostOne(s, M) /\ (x \in M => NoneOf(s, M)) => AtMostOne(Append(s, x), M)
         /\ \A M : NoneOf(s, M) /\ x \notin M => NoneOf(Append(s, x), M)
<1> DEFINE t == Append(s, x)
<1>1. /\ t \in Seq(S) /\ t # <<>> /\ Len(s) \in Nat /\ Len(t) = Len(s) + 1 /\ t[Len(s) + 1] = x
      /\ \A i \in 1..Len(s) : t[i] = s[i]
      /\ (s # <<>> => t[1] = s[1]) /\ (s = <<>> => t[1] = x)
  OBVIOUS
<1> HIDE DEF t
<1>2. ToSet(t) = ToSet(s) \cup {x}
  <2>1. \A i \in 1..Len(t) : i \in 1..Len(s) \/ i = Len(s) + 1
    BY <1>1
  <2>2. ToSet(t) \subseteq ToSet(s) \cup {x}
    BY <1>1, <2>1, ElementsAreIndexed
  <2>3. \A i \in 1..Len(s) : i \in 1..Len(t)
    BY <1>1
  <2>4. ToSet(s) \cup {x} \subseteq ToSet(t)
    <3>1. x \in ToSet(t)
      BY <1>1, ElementsAreIndexed
    <3>2. ASSUME NEW y \in ToSet(s) PROVE y \in ToSet(t)
      <4>1. PICK i \in 1..Len(s) : y = s[i]
        BY ElementsAreIndexed
      <4>2. QED
        BY <1>1, <2>3, <4>1, ElementsAreIndexed
    <3>3. QED
      BY <3>1, <3>2
  <2>5. QED
    BY <2>2, <2>4
<1>4. ASSUME NEW M, AtMostOne(s, M), x \in M => NoneOf(s, M) PROVE AtMostOne(t, M)
  <2> SUFFICES ASSUME NEW i \in 1..Len(t), NEW j \in 1..Len(t), t[i] \in M, t[j] \in M, i # j
               PROVE  FALSE
    BY DEF AtMostOne
  <2>1. CASE i \in 1..Len(s) /\ j \in 1..Len(s)
    BY <1>1, <1>4, <2>1 DEF AtMostOne
  <2>2. ASSUME NEW k \in 1..Len(s), t[k] \in M, x \in M PROVE FALSE
    BY <1>1, <1>4, <2>2, ElementsAreIndexed DEF NoneOf
  <2>3. CASE i = Len(s) + 1
    BY <1>1, <2>2, <2>3
  <2>4. CASE j = Len(s) + 1
    BY <1>1, <2>2, <2>4
  <2>5. QED
    BY <1>1, <2>1, <2>3, <2>4
<1>5. QED
  BY <1>1, <1>2, <1>4 DEF NoneOf, t

\* Tail() takes the first element out.
LEMMA TailElements ==
  ASSUME NEW S, NEW s \in Seq(S), s # <<>>
  PROVE  /\ Head(s) = s[1] /\ Head(s) \in S /\ Head(s) \in ToSet(s) /\ Tail(s) \in Seq(S)
         /\ ToSet(s) = {Head(s)} \cup ToSet(Tail(s))
         /\ Len(s) > 1 <=> Tail(s) # <<>>
         /\ Len(s) > 1 => Tail(s)[1] = s[2] /\ s[2] \in ToSet(s)
         /\ \A M : AtMostOne(s, M) => AtMostOne(Tail(s), M) /\ (Head(s) \in M => NoneOf(Tail(s), M))
         /\ \A M : NoneOf(s, M) => NoneOf(Tail(s), M)
<1> DEFINE t == Tail(s)
<1>1. /\ Head(s) \in S /\ Head(s) = s[1] /\ t \in Seq(S) /\ Len(s) \in Nat \ {0} /\ Len(t) = Len(s) - 1
      /\ \A i \in 1..Len(t) : t[i] = s[i + 1] /\ i + 1 \in 1..Len(s)
      /\ \A i \in 1..Len(s) : i = 1 \/ (i - 1 \in 1..Len(t) /\ t[i - 1] = s[i])
  BY HeadAndTail
<1> HIDE DEF t
<1>2. ToSet(s) = {Head(s)} \cup ToSet(t)
  <2>2. ASSUME NEW y \in ToSet(s) PROVE y \in {Head(s)} \cup ToSet(t)
    <3>1. PICK i \in 1..Len(s) : y = s[i]
      BY ElementsAreIndexed
    <3>2. QED
      BY <1>1, <3>1, ElementsAreIndexed
  <2>3. ASSUME NEW y \in ToSet(t) PROVE y \in ToSet(s)
    <3>1. PICK i \in 1..Len(t) : y = t[i]
      BY <1>1, ElementsAreIndexed
    <3>2. QED
      BY <1>1, <3>1, ElementsAreIndexed
  <2>4. s[1] \in ToSet(s)
    BY <1>1, ElementsAreIndexed
  <2>5. QED
    BY <1>1, <2>2, <2>3, <2>4
<1>3. Len(s) > 1 <=> t # <<>>
  BY <1>1 DEF t
<1>4. Len(s) > 1 => t[1] = s[2] /\ s[2] \in ToSet(s)
  BY <1>1, ElementsAreIndexed
<1>5. ASSUME NEW M, AtMostOne(s, M) PROVE AtMostOne(t, M)
  <2> SUFFICES ASSUME NEW i \in 1..Len(t), NEW j \in 1..Len(t), t[i] \in M, t[j] \in M
               PROVE  i = j
    BY DEF AtMostOne
  <2>1. i + 1 = j + 1
    BY <1>1, <1>5 DEF AtMostOne
  <2>2. QED
    BY <2>1
<1>6. ASSUME NEW M, AtMostOne(s, M), Head(s) \in M PROVE NoneOf(t, M)
  <2> SUFFICES ASSUME NEW x \in ToSet(t), x \in M PROVE FALSE
    BY DEF NoneOf
  <2>1. PICK i \in 1..Len(t) : x = t[i]
    BY <1>1, ElementsAreIndexed
  <2>2. i + 1 = 1
    BY <1>1, <1>6, <2>1 DEF AtMostOne
  <2>3. QED
    BY <2>2
<1>7. QED
  BY <1>1, <1>2, <1>3, <1>4, <1>5, <1>6 DEF NoneOf, t

\* Two lists, one after the other.
LEMMA ConcatElements ==
  ASSUME NEW S, NEW s \in Seq(S), NEW t \in Seq(S)
  PROVE  /\ ToSet(s \o t) = ToSet(s) \cup ToSet(t)
         /\ s # <<>> => s \o t # <<>> /\ (s \o t)[1] = s[1]
         /\ s = <<>> => s \o t = t
         /\ \A M : /\ AtMostOne(s, M) /\ AtMostOne(t, M) /\ (NoneOf(s, M) \/ NoneOf(t, M))
                   => AtMostOne(s \o t, M)
<1> DEFINE r == s \o t
<1>1. /\ r \in Seq(S) /\ Len(s) \in Nat /\ Len(t) \in Nat /\ Len(r) = Len(s) + Len(t)
      /\ \A i \in 1..Len(s) : r[i] = s[i] /\ i \in 1..Len(r)
      /\ \A i \in 1..Len(t) : r[Len(s) + i] = t[i] /\ Len(s) + i \in 1..Len(r)
      /\ \A i \in 1..Len(r) : i \in 1..Len(s) \/ (i - Len(s) \in 1..Len(t) /\ r[i] = t[i - Len(s)])
      /\ (s # <<>> => r # <<>> /\ r[1] = s[1]) /\ (s = <<>> => r = t)
  OBVIOUS
<1> HIDE DEF r
<1>2. ToSet(r) = ToSet(s) \cup ToSet(t)
  <2>1. ASSUME NEW y \in ToSet(r) PROVE y \in ToSet(s) \cup ToSet(t)
    <3>1. PICK i \in 1..Len(r) : y = r[i]
      BY <1>1, ElementsAreIndexed
    <3>2. CASE i \in 1..Len(s)
      BY <1>1, <3>1, <3>2, ElementsAreIndexed
    <3>3. CASE i - Len(s) \in 1..Len(t) /\ r[i] = t[i - Len(s)]
      BY <3>1, <3>3, ElementsAreIndexed
    <3>4. QED
      BY <1>1, <3>2, <3>3
  <2>2. ASSUME NEW y \in ToSet(s) PROVE y \in ToSet(r)
    <3>1. PICK i \in 1..Len(s) : y = s[i]
      BY ElementsAreIndexed
    <3>2. QED
      BY <1>1, <3>1, ElementsAreIndexed
  <2>3. ASSUME NEW y \in ToSet(t) PROVE y \in ToSet(r)
    <3>1. PICK i \in 1..Len(t) : y = t[i]
      BY ElementsAreIndexed
    <3>2. QED
      BY <1>1, <3>1, ElementsAreIndexed
  <2>4. QED
    BY <2>1, <2>2, <2>3
<1>4. ASSUME NEW M, AtMostOne(s, M), AtMostOne(t, M), NoneOf(s, M) \/ NoneOf(t, M)
      PROVE  AtMostOne(r, M)
  <2> SUFFICES ASSUME NEW i \in 1..Len(r), NEW j \in 1..Len(r), r[i] \in M, r[j] \in M
               PROVE  i = j
    BY DEF AtMostOne
  <2>1. CASE i \in 1..Len(s) /\ j \in 1..Len(s)
    BY <1>1, <1>4, <2>1 DEF AtMostOne
  <2>2. CASE i \notin 1..Len(s) /\ j \notin 1..Len(s)
    <3>1. PICK k \in 1..Len(t) : k = i - Len(s) /\ r[i] = t[k]
      BY <1>1, <2>2
    <3>2. PICK l \in 1..Len(t) : l = j - Len(s) /\ r[j] = t[l]
      BY <1>1, <2>2
    <3>3. k = l
      BY <1>4, <3>1, <3>2 DEF AtMostOne
    <3>4. QED
      BY <1>1, <3>1, <3>2, <3>3
  <2>3. ASSUME NEW k \in 1..Len(s), NEW l \in 1..Len(r), l \notin 1..Len(s), r[k] \in M, r[l] \in M
        PROVE  FALSE
    <3>1. s[k] \in ToSet(s) /\ r[l] \in ToSet(t) /\ s[k] = r[k]
      BY <1>1, <2>3, ElementsAreIndexed
    <3>2. QED
      BY <1>4, <2>3, <3>1 DEF NoneOf
  <2>4. QED
    BY <2>1, <2>2, <2>3
<1>5. QED
  BY <1>1, <1>2, <1>4 DEF r

\* Where the elements of two lists are when one is put after the other.
LEMMA ConcatIndices ==
  ASSUME NEW S, NEW s \in Seq(S), NEW t \in Seq(S)
  PROVE  /\ s \o t \in Seq(S) /\ Len(s \o t) = Len(s) + Len(t)
         /\ \A i \in 1..Len(s) : (s \o t)[i] = s[i]
         /\ \A i \in 1..Len(t) : (s \o t)[Len(s) + i] = t[i]
  OBVIOUS

\* RemoveAt() takes out the element at an index; those behind it move up.
LEMMA RemovedAt ==
  ASSUME NEW S, NEW s \in Seq(S), NEW k \in 1..Len(s)
  PROVE  \E t \in Seq(S) :
           /\ t = RemoveAt(s, k) /\ Len(t) = Len(s) - 1
           /\ \A i \in 1..Len(t) : t[i] = IF i < k THEN s[i] ELSE s[i + 1]
<1>0. Len(s) \in Nat
  OBVIOUS
<1>1. PICK front : front = SubSeq(s, 1, k - 1)
  OBVIOUS
<1>2. PICK rest : rest = SubSeq(s, k + 1, Len(s))
  OBVIOUS
<1>3. front \in Seq(S) /\ Len(front) = k - 1 /\ \A i \in 1..k - 1 : front[i] = s[i]
  BY <1>0, <1>1
<1>4. rest \in Seq(S) /\ Len(rest) = Len(s) - k /\ \A i \in 1..Len(s) - k : rest[i] = s[k + i]
  BY <1>0, <1>2
<1>5. PICK t \in Seq(S) : /\ t = front \o rest /\ Len(t) = Len(front) + Len(rest)
                          /\ \A i \in 1..Len(front) : t[i] = front[i]
                          /\ \A i \in 1..Len(rest) : t[Len(front) + i] = rest[i]
  <2>1. front \in Seq(S) /\ rest \in Seq(S)
    BY <1>3, <1>4
  <2>2. /\ front \o rest \in Seq(S) /\ Len(front \o rest) = Len(front) + Len(rest)
        /\ \A i \in 1..Len(front) : (front \o rest)[i] = front[i]
        /\ \A i \in 1..Len(rest) : (front \o rest)[Len(front) + i] = rest[i]
    BY <2>1, ConcatIndices
  <2>3. QED
    BY <2>2, Zenon
<1>6. /\ Len(t) = Len(s) - 1
      /\ \A i \in 1..k - 1 : t[i] = front[i]
      /\ \A i \in 1..Len(s) - k : t[k - 1 + i] = rest[i]
  <2>1. Len(front) = k - 1 /\ Len(rest) = Len(s) - k /\ k \in Nat
    BY <1>3, <1>4
  <2>2. QED
    BY <1>0, <1>5, <2>1
<1>7. ASSUME NEW i \in 1..Len(t), ~(i < k) PROVE t[i] = s[i + 1]
  <2>1. PICK j \in 1..Len(s) - k : j = i - (k - 1)
    BY <1>0, <1>6, <1>7
  <2>2. k + j = i + 1 /\ k - 1 + j = i
    BY <1>0, <2>1
  <2>3. QED
    BY <1>4, <1>6, <2>2
<1>8. t = RemoveAt(s, k)
  BY <1>1, <1>2, <1>5 DEF RemoveAt
<1>9. QED
  BY <1>0, <1>3, <1>6, <1>7, <1>8

\* Without the one at index k a list has the other elements, when it has each
\* of them once.
LEMMA OthersAreLeft ==
  ASSUME NEW S, NEW s \in Seq(S), NEW t \in Seq(S), NEW k \in 1..Len(s),
         Len(t) = Len(s) - 1,
         \A i \in 1..Len(t) : t[i] = IF i < k THEN s[i] ELSE s[i + 1],
         \A y \in S : AtMostOne(s, {y})
  PROVE  /\ ToSet(t) = ToSet(s) \ {s[k]} /\ \A y \in S : AtMostOne(t, {y})
<1>0. Len(s) \in Nat
  OBVIOUS
<1>1. ASSUME NEW i \in 1..Len(s), NEW j \in 1..Len(s), s[i] = s[j] PROVE i = j
  <2>1. s[i] \in S
    OBVIOUS
  <2>2. QED
    BY <1>1, <2>1 DEF AtMostOne
<1>2. ASSUME NEW y \in ToSet(t) PROVE y \in ToSet(s) \ {s[k]}
  <2>1. PICK i \in 1..Len(t) : y = t[i]
    BY ElementsAreIndexed
  <2>2. PICK j \in 1..Len(s) : y = s[j] /\ j # k
    <3>1. CASE i < k
      BY <1>0, <2>1, <3>1
    <3>2. CASE ~(i < k)
      <4>1. i + 1 \in 1..Len(s) /\ i + 1 # k
        BY <1>0, <3>2
      <4>2. QED
        BY <2>1, <3>2, <4>1
    <3>3. QED
      BY <3>1, <3>2
  <2>3. QED
    BY <1>1, <2>2, ElementsAreIndexed
<1>3. ASSUME NEW y \in ToSet(s), y # s[k] PROVE y \in ToSet(t)
  <2>1. PICK j \in 1..Len(s) : y = s[j]
    BY ElementsAreIndexed
  <2>2. PICK i \in 1..Len(t) : y = t[i]
    <3>1. CASE j < k
      BY <1>0, <2>1, <3>1
    <3>2. CASE j > k
      <4>1. PICK i \in 1..Len(t) : i = j - 1
        BY <1>0, <3>2
      <4>2. ~(i < k) /\ i + 1 = j
        BY <1>0, <3>2, <4>1
      <4>3. QED
        BY <2>1, <4>2
    <3>3. QED
      BY <1>3, <2>1, <3>1, <3>2
  <2>3. QED
    BY <2>2, ElementsAreIndexed
<1>4. ASSUME NEW y \in S PROVE AtMostOne(t, {y})
  <2> SUFFICES ASSUME NEW i \in 1..Len(t), NEW j \in 1..Len(t), t[i] = y, t[j] = y
               PROVE  i = j
    BY DEF AtMostOne
  <2> DEFINE At(n) == IF n < k THEN n ELSE n + 1
  <2>1. At(i) \in 1..Len(s) /\ At(j) \in 1..Len(s) /\ s[At(i)] = y /\ s[At(j)] = y
    BY <1>0
  <2>2. At(i) = At(j)
    BY <1>1, <2>1
  <2>3. QED
    BY <1>0, <2>2
<1>5. QED
  BY <1>2, <1>3, <1>4

\* RemoveFirst() of what is at most once in a list leaves the other elements,
\* each once.
LEMMA RemovedFirst ==
  ASSUME NEW S, NEW s \in Seq(S), NEW x \in S, IsInjective(s)
  PROVE  /\ RemoveFirst(s, x) \in Seq(S) /\ IsInjective(RemoveFirst(s, x))
         /\ ToSet(RemoveFirst(s, x)) = ToSet(s) \ {x}
<1>1. DOMAIN s = 1..Len(s) /\ Len(s) \in Nat
  BY IndexedBy
<1>2. \A y \in S : AtMostOne(s, {y})
  BY <1>1 DEF IsInjective, AtMostOne
<1>3. CASE ~\E i \in 1..Len(s) : s[i] = x
  <2>1. RemoveFirst(s, x) = s
    BY <1>3 DEF RemoveFirst
  <2>2. x \notin ToSet(s)
    BY <1>3, ElementsAreIndexed
  <2>3. QED
    BY <2>1, <2>2
<1>4. CASE \E i \in 1..Len(s) : s[i] = x
  <2> DEFINE I == {i \in 1..Len(s) : s[i] = x}
  <2>1. I \in SUBSET Nat /\ I # {}
    BY <1>1, <1>4
  <2>2. RemoveFirst(s, x) = RemoveAt(s, Min(I))
    BY <1>4, <2>1, Zenon DEF RemoveFirst, SelectInSeq
  <2>3. PICK k \in 1..Len(s) : k = Min(I) /\ s[k] = x
    BY <2>1, SmallestIndex
  <2>4. PICK t \in Seq(S) : /\ t = RemoveAt(s, k) /\ Len(t) = Len(s) - 1
                            /\ \A i \in 1..Len(t) : t[i] = IF i < k THEN s[i] ELSE s[i + 1]
    BY RemovedAt
  <2>5. ToSet(t) = ToSet(s) \ {x} /\ \A y \in S : AtMostOne(t, {y})
    <3>1. /\ Len(t) = Len(s) - 1
          /\ \A i \in 1..Len(t) : t[i] = IF i < k THEN s[i] ELSE s[i + 1]
      BY <2>4
    <3>2. ToSet(t) = ToSet(s) \ {s[k]} /\ \A y \in S : AtMostOne(t, {y})
      BY <1>2, <3>1, OthersAreLeft
    <3>3. QED
      BY <2>3, <3>2
  <2>6. IsInjective(t)
    <3>1. Distinct(t) /\ DOMAIN t = 1..Len(t)
      BY <2>5, DistinctOnce, IndexedBy
    <3>2. QED
      BY <3>1 DEF Distinct, IsInjective
  <2>7. QED
    BY <2>2, <2>3, <2>4, <2>5, <2>6
<1>5. QED
  BY <1>3, <1>4

\* Taking out an element that is once in a list: it is not there any more, and
\* the others are, at different places if they were.
LEMMA RemovedOnce ==
  ASSUME NEW S, NEW s \in Seq(S), NEW k \in 1..Len(s), \A i \in 1..Len(s) : s[i] = s[k] => i = k
  PROVE  \E t \in Seq(S) :
           /\ t = RemoveAt(s, k) /\ ToSet(t) = ToSet(s) \ {s[k]}
           /\ \A i, j \in 1..Len(t) : i # j =>
                \E a, b \in 1..Len(s) : a # b /\ t[i] = s[a] /\ t[j] = s[b]
<1>1. PICK t \in Seq(S) : /\ t = RemoveAt(s, k) /\ Len(t) = Len(s) - 1
                          /\ \A i \in 1..Len(t) : t[i] = IF i < k THEN s[i] ELSE s[i + 1]
  BY RemovedAt
<1>2. PICK r \in Seq(S) : r = t
  OBVIOUS
<1>3. /\ r = RemoveAt(s, k) /\ Len(r) = Len(s) - 1 /\ Len(s) \in Nat
      /\ \A i \in 1..Len(r) : r[i] = IF i < k THEN s[i] ELSE s[i + 1]
  BY <1>1, <1>2
<1> DEFINE At(i) == IF i < k THEN i ELSE i + 1
<1>4. \A i \in 1..Len(r) : At(i) \in 1..Len(s) /\ At(i) # k /\ r[i] = s[At(i)]
  BY <1>3
<1>5. \A i, j \in 1..Len(r) : i # j => At(i) # At(j)
  BY <1>3
<1>6. \A a \in 1..Len(s) : a # k => \E i \in 1..Len(r) : At(i) = a
  <2>1. ASSUME NEW a \in 1..Len(s), a < k PROVE \E i \in 1..Len(r) : At(i) = a
    <3>1. a \in 1..Len(r) /\ At(a) = a
      BY <1>3, <2>1
    <3>2. QED
      BY <3>1
  <2>2. ASSUME NEW a \in 1..Len(s), a > k PROVE \E i \in 1..Len(r) : At(i) = a
    <3>1. a - 1 \in 1..Len(r) /\ At(a - 1) = a
      BY <1>3, <2>2
    <3>2. QED
      BY <3>1
  <2>3. QED
    BY <1>3, <2>1, <2>2
<1> HIDE DEF At
<1>7. ASSUME NEW x \in ToSet(r) PROVE x \in ToSet(s) \ {s[k]}
  <2>1. PICK i \in 1..Len(r) : x = r[i]
    BY <1>7, ElementsAreIndexed
  <2>2. x = s[At(i)] /\ At(i) \in 1..Len(s) /\ At(i) # k
    BY <1>4, <2>1
  <2>3. x # s[k] /\ x \in ToSet(s)
    BY <2>2, ElementsAreIndexed
  <2>4. QED
    BY <2>3
<1>8. ASSUME NEW x \in ToSet(s) \ {s[k]} PROVE x \in ToSet(r)
  <2>1. PICK a \in 1..Len(s) : x = s[a]
    BY <1>8, ElementsAreIndexed
  <2>2. PICK i \in 1..Len(r) : At(i) = a
    BY <1>6, <1>8, <2>1
  <2>3. QED
    BY <1>4, <2>1, <2>2, ElementsAreIndexed
<1>9. \A i, j \in 1..Len(r) : i # j => \E a, b \in 1..Len(s) : a # b /\ r[i] = s[a] /\ r[j] = s[b]
  BY <1>4, <1>5
<1>10. ToSet(r) = ToSet(s) \ {s[k]}
  BY <1>7, <1>8
<1>11. QED
  BY <1>3, <1>9, <1>10

\* A finite set as a list.
LEMMA SetAsList ==
  ASSUME NEW T, IsFiniteSet(T)
  PROVE  SetToSeq(T) \in Seq(T)
<1>1. Cardinality(T) \in Nat /\ ExistsBijection(1..Cardinality(T), T)
  BY FS_CardinalityType
<1>2. \E f \in [1..Cardinality(T) -> T] : IsInjective(f)
  BY <1>1 DEF ExistsBijection, Bijection, Injection
<1>3. SetToSeq(T) \in [1..Cardinality(T) -> T]
  BY <1>2, Zenon DEF SetToSeq
<1>4. QED
  BY <1>1, <1>3
=============================================================================
