--------------------------- MODULE Selection_proofs ---------------------------
(***************************************************************************)
(* What Select and Ascending return: the chosen elements, all of them, in  *)
(* order; and what the proofs about sequences keep needing.                *)
(***************************************************************************)
EXTENDS Selection, Integers, Sequences, SequencesExt, FiniteSetTheorems, WellFoundedInduction, TLAPS

\* A nonempty set of naturals has a least element.
LEMMA LeastIn ==
  ASSUME NEW S, S \subseteq Nat, S # {}
  PROVE  \E m \in S : \A k \in S : m <= k
<1>1. PICK m \in S : \A k \in S : ~ (<<k, m>> \in OpToRel(<, Nat))
  BY NatLessThanWellFounded, WFMin
<1>2. \A k \in S : ~ (k < m)
  BY <1>1 DEF OpToRel
<1> QED
  BY <1>2

\* The positions below one.
Below(positions, i) == {j \in positions : j < i}

\* How many positions lie below another.
LEMMA BelowCounts ==
  ASSUME NEW positions, positions \subseteq Nat, IsFiniteSet(positions), NEW i \in Nat
  PROVE  /\ Cardinality(Below(positions, i)) \in Nat
         /\ Cardinality(Below(positions, i)) <= Cardinality(positions)
         /\ i \in positions =>
              Cardinality(Below(positions, i)) < Cardinality(positions)
<1>1. Below(positions, i) \subseteq positions
  BY DEF Below
<1>2. i \in positions => Below(positions, i) # positions
  BY DEF Below
<1> QED
  BY <1>1, <1>2, FS_Subset, FS_CardinalityType

\* Fewer positions lie below the lower of two.
LEMMA BelowGrows ==
  ASSUME NEW positions, positions \subseteq Nat, IsFiniteSet(positions),
         NEW i \in positions, NEW j \in positions, i < j
  PROVE  Cardinality(Below(positions, i)) < Cardinality(Below(positions, j))
<1>1. /\ Below(positions, i) \subseteq Below(positions, j)
      /\ i \in Below(positions, j) /\ i \notin Below(positions, i)
  <2>1. \A x \in positions : x \in Nat /\ (x < i => x < j) /\ ~ (i < i)
    OBVIOUS
  <2> QED
    BY <2>1 DEF Below
<1>2. IsFiniteSet(Below(positions, j))
  BY FS_Subset DEF Below
<1>3. Below(positions, i) # Below(positions, j)
  BY <1>1
<1> QED
  BY <1>1, <1>2, <1>3, FS_Subset, FS_CardinalityType

\* Every number of positions below is the number below one of them.
LEMMA EveryRankIsTaken ==
  ASSUME NEW positions, positions \subseteq Nat, IsFiniteSet(positions),
         NEW k \in Nat, k < Cardinality(positions)
  PROVE  \E i \in positions : Cardinality(Below(positions, i)) = k
<1> DEFINE card == Cardinality(positions)
           Missing == {r \in Nat : r < card /\ \A i \in positions :
                                      Cardinality(Below(positions, i)) # r}
<1>0. card \in Nat
  BY FS_CardinalityType
<1>1. SUFFICES ASSUME Missing # {} PROVE FALSE
  OBVIOUS
<1>2. PICK r \in Missing : \A q \in Missing : r <= q
  BY <1>1, LeastIn
<1>3. r \in Nat /\ r < card /\ \A i \in positions : Cardinality(Below(positions, i)) # r
  BY <1>2
\* The positions up to the one before are r in number, so one is left.
<1>4. \E B \in SUBSET positions :
         /\ Cardinality(B) = r
         /\ \A i \in B : \A j \in positions \ B : i < j
  <2>1. CASE r = 0
    BY <2>1, FS_EmptySet
  <2>2. CASE r # 0
    <3>1. r - 1 \in Nat /\ r - 1 \notin Missing /\ r - 1 < card
      BY <1>0, <1>2, <1>3, <2>2
    <3>2. PICK i \in positions : Cardinality(Below(positions, i)) = r - 1
      BY <3>1
    <3> DEFINE B == Below(positions, i) \cup {i}
    <3>3. IsFiniteSet(Below(positions, i)) /\ i \notin Below(positions, i)
      BY FS_Subset DEF Below
    <3>4. Cardinality(B) = r
      <4>1. Cardinality(B) = Cardinality(Below(positions, i)) + 1
        BY <3>3, FS_AddElement
      <4> HIDE DEF B, Missing
      <4> QED
        BY <1>3, <3>2, <4>1
    <3>5. B \in SUBSET positions
      BY DEF Below
    <3>6. \A x \in B : \A y \in positions \ B : x < y
      BY DEF Below
    <3> HIDE DEF B
    <3> QED
      BY <3>4, <3>5, <3>6
  <2> QED
    BY <2>1, <2>2
<1>5. PICK B \in SUBSET positions :
         /\ Cardinality(B) = r
         /\ \A i \in B : \A j \in positions \ B : i < j
  BY <1>4
<1> HIDE DEF Missing
<1>6. positions \ B # {} /\ positions \ B \subseteq Nat
  <2>1. ASSUME positions \ B = {} PROVE FALSE
    <3>1. B = positions
      BY <2>1
    <3> QED
      BY <1>0, <1>3, <1>5, <3>1
  <2> QED
    BY <2>1
<1>7. PICK m \in positions \ B : \A j \in positions \ B : m <= j
  BY <1>6, LeastIn
<1>8. Below(positions, m) = B
  <2>1. \A j \in positions : j \in Nat
    OBVIOUS
  <2>2. \A j \in positions : j < m <=> j \in B
    BY <1>5, <1>7, <2>1
  <2> QED
    BY <1>5, <2>2 DEF Below
<1> QED
  BY <1>3, <1>5, <1>7, <1>8

\* The k-th position has k - 1 positions below it.
LEMMA NthIs ==
  ASSUME NEW positions, positions \subseteq Nat, IsFiniteSet(positions),
         NEW k \in 1 .. Cardinality(positions)
  PROVE  /\ Nth(positions, k) \in positions
         /\ Cardinality(Below(positions, Nth(positions, k))) = k - 1
<1>0. Cardinality(positions) \in Nat
  BY FS_CardinalityType
<1>1. k - 1 \in Nat /\ k - 1 < Cardinality(positions)
  BY <1>0
<1>2. \E i \in positions : Cardinality(Below(positions, i)) = k - 1
  BY <1>1, EveryRankIsTaken
<1> QED
  BY <1>2 DEF Nth, Below

\* Positions are enumerated in order.
LEMMA NthGrows ==
  ASSUME NEW positions, positions \subseteq Nat, IsFiniteSet(positions),
         NEW k \in 1 .. Cardinality(positions), NEW l \in 1 .. Cardinality(positions),
         k < l
  PROVE  Nth(positions, k) < Nth(positions, l)
<1> DEFINE i == Nth(positions, k)
           j == Nth(positions, l)
<1>1. /\ i \in positions /\ Cardinality(Below(positions, i)) = k - 1
      /\ j \in positions /\ Cardinality(Below(positions, j)) = l - 1
  BY NthIs
<1> HIDE DEF i, j
<1>2. i \in Nat /\ j \in Nat
  BY <1>1
<1>3. i # j
  BY <1>1
<1>4. ~ (j < i)
  <2> SUFFICES ASSUME j < i PROVE FALSE
    OBVIOUS
  <2>1. Cardinality(Below(positions, j)) < Cardinality(Below(positions, i))
    BY <1>1, BelowGrows
  <2> QED
    BY <1>1, <2>1
<1>5. i < j
  BY <1>2, <1>3, <1>4
<1> QED
  BY <1>5 DEF i, j

\* Every position is one of them.
LEMMA NthReaches ==
  ASSUME NEW positions, positions \subseteq Nat, IsFiniteSet(positions),
         NEW i \in positions
  PROVE  \E k \in 1 .. Cardinality(positions) : Nth(positions, k) = i
<1> DEFINE k == Cardinality(Below(positions, i)) + 1
<1>1. /\ i \in Nat /\ Cardinality(positions) \in Nat
      /\ Cardinality(Below(positions, i)) \in Nat
      /\ Cardinality(Below(positions, i)) < Cardinality(positions)
  BY FS_CardinalityType, BelowCounts
<1>2. k \in 1 .. Cardinality(positions)
  BY <1>1
<1>3. /\ Nth(positions, k) \in positions
      /\ Cardinality(Below(positions, Nth(positions, k))) = k - 1
  BY <1>2, NthIs
<1>4. k - 1 = Cardinality(Below(positions, i))
  BY <1>1
<1> DEFINE n == Nth(positions, k)
<1> HIDE DEF k
<1>5. n \in positions /\ Cardinality(Below(positions, n)) = Cardinality(Below(positions, i))
  BY <1>3, <1>4
<1> HIDE DEF n
<1>6. n \in Nat
  BY <1>5
<1>7. ~ (n < i) /\ ~ (i < n)
  <2>1. ASSUME n < i PROVE FALSE
    <3>1. Cardinality(Below(positions, n)) < Cardinality(Below(positions, i))
      BY <1>5, <2>1, BelowGrows
    <3> QED
      BY <1>1, <1>5, <3>1
  <2>2. ASSUME i < n PROVE FALSE
    <3>1. Cardinality(Below(positions, i)) < Cardinality(Below(positions, n))
      BY <1>5, <2>2, BelowGrows
    <3> QED
      BY <1>1, <1>5, <3>1
  <2> QED
    BY <2>1, <2>2
<1>8. n = i
  BY <1>1, <1>6, <1>7
<1> QED
  BY <1>2, <1>8 DEF n

\* Select returns a sequence of the elements at the positions, all of them, and
\* in the order they have in s.
THEOREM SelectIs ==
  ASSUME NEW T, NEW s \in Seq(T), NEW positions, positions \subseteq DOMAIN s
  PROVE  /\ Select(s, positions) \in Seq(T)
         /\ IsFiniteSet(positions)
         /\ Len(Select(s, positions)) = Cardinality(positions)
         /\ \A k \in 1 .. Len(Select(s, positions)) :
              /\ Nth(positions, k) \in positions
              /\ Select(s, positions)[k] = s[Nth(positions, k)]
         /\ \A k, l \in 1 .. Len(Select(s, positions)) :
              k < l => Nth(positions, k) < Nth(positions, l)
         /\ \A i \in positions : \E k \in 1 .. Len(Select(s, positions)) :
              Nth(positions, k) = i
<1> DEFINE card == Cardinality(positions)
<1>1. positions \subseteq Nat /\ IsFiniteSet(positions)
  <2>1. Len(s) \in Nat /\ DOMAIN s = 1 .. Len(s)
    OBVIOUS
  <2>2. IsFiniteSet(1 .. Len(s))
    BY <2>1, FS_Interval
  <2> QED
    BY <2>1, <2>2, FS_Subset
<1>2. card \in Nat
  BY <1>1, FS_CardinalityType
<1>3. \A k \in 1 .. card : Nth(positions, k) \in positions
  BY <1>1, NthIs
<1>4. \A k \in 1 .. card : s[Nth(positions, k)] \in T
  BY <1>3
<1>5. Select(s, positions) = [k \in 1 .. card |-> s[Nth(positions, k)]]
  BY DEF Select
<1> HIDE DEF card
<1>6. Select(s, positions) \in Seq(T) /\ Len(Select(s, positions)) = card
  BY <1>2, <1>4, <1>5
<1>7. \A k, l \in 1 .. card : k < l => Nth(positions, k) < Nth(positions, l)
  BY <1>1, NthGrows DEF card
<1>8. \A i \in positions : \E k \in 1 .. card : Nth(positions, k) = i
  BY <1>1, NthReaches DEF card
<1> QED
  BY <1>1, <1>3, <1>5, <1>6, <1>7, <1>8 DEF card

\* The ascending order of a set holds all of it, and nothing twice.
LEMMA AscendingIs ==
  ASSUME NEW positions, positions \subseteq Nat, IsFiniteSet(positions)
  PROVE  /\ Ascending(positions) \in Seq(positions)
         /\ \A k, l \in DOMAIN Ascending(positions) :
              k < l => Ascending(positions)[k] < Ascending(positions)[l]
         /\ \A i \in positions : \E k \in DOMAIN Ascending(positions) :
              Ascending(positions)[k] = i
<1> DEFINE card == Cardinality(positions)
<1>1. card \in Nat
  BY FS_CardinalityType
<1>2. \A k \in 1 .. card : Nth(positions, k) \in positions
  BY NthIs
<1> HIDE DEF card
<1>3. Ascending(positions) = [k \in 1 .. card |-> Nth(positions, k)]
  BY DEF Ascending, card
<1>4. Ascending(positions) \in Seq(positions) /\ DOMAIN Ascending(positions) = 1 .. card
  BY <1>1, <1>2, <1>3
<1>5. \A k, l \in 1 .. card : k < l => Nth(positions, k) < Nth(positions, l)
  BY NthGrows DEF card
<1>6. \A i \in positions : \E k \in 1 .. card : Nth(positions, k) = i
  BY NthReaches DEF card
<1> QED
  BY <1>3, <1>4, <1>5, <1>6

-----------------------------------------------------------------------------
(* Sequences.                                                               *)

\* The elements of a sequence.
LEMMA ElementOf ==
  ASSUME NEW T, NEW s \in Seq(T)
  PROVE  \A i \in DOMAIN s : s[i] \in T
OBVIOUS

\* Contains, as the provers read it.
LEMMA ContainsIs ==
  ASSUME NEW s, NEW e
  PROVE  Contains(s, e) <=> \E i \in 1 .. Len(s) : s[i] = e
BY DEF Contains

\* A sequence with one element replaced.
LEMMA SeqExcept ==
  ASSUME NEW T, NEW s \in Seq(T), NEW i, NEW e \in T
  PROVE  /\ [s EXCEPT ![i] = e] \in Seq(T)
         /\ Len([s EXCEPT ![i] = e]) = Len(s)
         /\ DOMAIN [s EXCEPT ![i] = e] = DOMAIN s
<1> DEFINE t == [j \in 1 .. Len(s) |-> IF j = i THEN e ELSE s[j]]
<1>1. Len(s) \in Nat /\ DOMAIN s = 1 .. Len(s)
  OBVIOUS
<1>2. \A j \in 1 .. Len(s) : (IF j = i THEN e ELSE s[j]) \in T
  BY <1>1
<1>3. t \in Seq(T) /\ Len(t) = Len(s) /\ DOMAIN t = 1 .. Len(s)
  BY <1>1, <1>2
<1>4. [s EXCEPT ![i] = e] = t
  BY <1>1
<1> QED
  BY <1>1, <1>3, <1>4

\* A sequence with one element more.
LEMMA AppendIs ==
  ASSUME NEW T, NEW s \in Seq(T), NEW e \in T
  PROVE  /\ Append(s, e) \in Seq(T) /\ Len(Append(s, e)) = Len(s) + 1 /\ Len(s) \in Nat
         /\ DOMAIN Append(s, e) = 1 .. Len(s) + 1 /\ DOMAIN s = 1 .. Len(s)
         /\ DOMAIN s \subseteq DOMAIN Append(s, e)
         /\ \A i \in 1 .. Len(s) : Append(s, e)[i] = s[i]
         /\ Append(s, e)[Len(s) + 1] = e
         /\ \A i \in DOMAIN Append(s, e) : i \in DOMAIN s \/ i = Len(s) + 1
OBVIOUS

\* A sequence without its first element.
LEMMA TailIs ==
  ASSUME NEW T, NEW s \in Seq(T), s # <<>>
  PROVE  /\ Tail(s) \in Seq(T) /\ 1 \in DOMAIN s /\ Head(s) = s[1] /\ Head(s) \in T
         /\ DOMAIN s \subseteq Nat /\ DOMAIN Tail(s) \subseteq Nat
         /\ \A k \in DOMAIN Tail(s) : k + 1 \in DOMAIN s /\ Tail(s)[k] = s[k + 1]
         /\ \A k \in DOMAIN s : k = 1 \/ (k - 1 \in DOMAIN Tail(s) /\ Tail(s)[k - 1] = s[k])
<1>1. Len(s) \in Nat \ {0} /\ DOMAIN s = 1 .. Len(s)
  OBVIOUS
<1>2. Tail(s) \in Seq(T) /\ Len(Tail(s)) = Len(s) - 1 /\ DOMAIN Tail(s) = 1 .. Len(s) - 1
  BY <1>1
<1>3. \A k \in 1 .. Len(s) - 1 : Tail(s)[k] = s[k + 1]
  BY <1>1
<1>4. \A k \in 1 .. Len(s) : k = 1 \/ (k - 1 \in 1 .. Len(s) - 1 /\ (k - 1) + 1 = k)
  BY <1>1
<1> QED
  BY <1>1, <1>2, <1>3, <1>4

\* Two sequences, one after the other.
LEMMA ConcatIs ==
  ASSUME NEW T, NEW s \in Seq(T), NEW t \in Seq(T)
  PROVE  /\ s \o t \in Seq(T) /\ DOMAIN (s \o t) = 1 .. Len(s) + Len(t)
         /\ Len(s) \in Nat /\ Len(t) \in Nat
         /\ \A k \in 1 .. Len(s) : (s \o t)[k] = s[k]
         /\ \A k \in 1 .. Len(t) : (s \o t)[Len(s) + k] = t[k]
OBVIOUS

\* The same, by the places in the concatenation.
LEMMA ConcatAt ==
  ASSUME NEW T, NEW s \in Seq(T), NEW t \in Seq(T)
  PROVE  /\ s \o t \in Seq(T)
         /\ Len(s \o t) = Len(s) + Len(t) /\ DOMAIN (s \o t) = 1 .. Len(s) + Len(t)
         /\ \A i \in 1 .. Len(s) : (s \o t)[i] = s[i]
         /\ \A i \in Len(s) + 1 .. Len(s) + Len(t) :
              i - Len(s) \in 1 .. Len(t) /\ (s \o t)[i] = t[i - Len(s)]
OBVIOUS

\* A part of a sequence, which is empty if it ends before it begins.
LEMMA SubSeqIs ==
  ASSUME NEW T, NEW s \in Seq(T), NEW m \in Nat, NEW n \in Nat, n <= Len(s)
  PROVE  /\ SubSeq(s, m + 1, n) \in Seq(T) /\ DOMAIN SubSeq(s, m + 1, n) = 1 .. n - m
         /\ \A i \in 1 .. n - m : SubSeq(s, m + 1, n)[i] = s[m + i]
<1> DEFINE part == SubSeq(s, m + 1, n)
           size == IF m <= n THEN n - m ELSE 0
<1>1. part = [i \in 1 .. (1 + n - (m + 1)) |-> s[i + (m + 1) - 1]]
  OBVIOUS
<1>2. size \in Nat /\ 1 .. (1 + n - (m + 1)) = 1 .. size /\ 1 .. n - m = 1 .. size
  OBVIOUS
<1>3. \A i \in 1 .. size : i + (m + 1) - 1 = m + i /\ s[m + i] \in T
  OBVIOUS
<1> HIDE DEF part, size
<1>4. part = [i \in 1 .. size |-> s[m + i]]
  BY <1>1, <1>2, <1>3
<1>5. part \in Seq(T) /\ DOMAIN part = 1 .. size
  BY <1>2, <1>3, <1>4
<1> QED
  BY <1>2, <1>4, <1>5 DEF part
=============================================================================
