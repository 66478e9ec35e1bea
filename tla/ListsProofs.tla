------------------------------ MODULE ListsProofs ------------------------------
(***************************************************************************)
(* What the operations on lists keep: the elements, their order, and that  *)
(* none is there twice; for lists of any length over any set.              *)
(***************************************************************************)
EXTENDS Lists, SequencesExt, FiniteSetTheorems, SequenceTheorems, TLAPS

\* A set of numbers has a least one: the initial segments they end are finite
\* sets, and inclusion is well-founded on those.
LEMMA Least ==
  ASSUME NEW T \in SUBSET Nat, T # {}
  PROVE  \E i \in T : \A j \in T : i <= j
<1> DEFINE segments == {0..i : i \in T}
<1>1. \A i \in T : IsFiniteSet(0..i) /\ 0..i \in SUBSET Nat
  BY FS_Interval
<1>2. segments \subseteq FiniteSubsetsOf(Nat) /\ segments # {}
  BY <1>1 DEF FiniteSubsetsOf
<1>3. PICK least \in segments :
        \A other \in segments : ~ (<<other, least>> \in StrictSubsetOrdering(Nat))
  BY <1>2, FS_StrictSubsetOrderingWellFounded, WFMin
<1>4. PICK i \in T : least = 0..i
  OBVIOUS
<1>5. ASSUME NEW j \in T, ~(i <= j)
      PROVE  FALSE
  <2>1. 0..j \subseteq 0..i /\ i \in 0..i /\ i \notin 0..j
    BY <1>5
  <2>2. <<0..j, 0..i>> \in StrictSubsetOrdering(Nat)
    BY <1>1, <2>1 DEF StrictSubsetOrdering
  <2>3. QED
    BY <1>3, <1>4, <2>2
<1>6. QED
  BY <1>5

-----------------------------------------------------------------------------
(* Elements that go *)

\* Without keeps what is not gone, and its order: where selects the places of
\* what is left, in increasing order.
LEMMA WithoutProperties ==
  ASSUME NEW S, NEW seq \in Seq(S), NEW gone
  PROVE  LET w == Without(seq, gone)
         IN  /\ w \in Seq(S)
             /\ Range(w) = Range(seq) \ gone
             /\ \E where \in [DOMAIN w -> DOMAIN seq] :
                  /\ \A k \in DOMAIN w : w[k] = seq[where[k]] /\ w[k] \notin gone
                  /\ \A k, l \in DOMAIN w : k < l => where[k] < where[l]
<1> DEFINE left == {i \in DOMAIN seq : seq[i] \notin gone}
           before(i) == {j \in left : j < i}
           n == Cardinality(left)
           rank == [i \in left |-> Cardinality(before(i))]
           place(k) == CHOOSE i \in left : Cardinality(before(i)) = k - 1
           w == Without(seq, gone)
<1>1. /\ DOMAIN seq = 1..Len(seq) /\ Len(seq) \in Nat
      /\ \A i \in DOMAIN seq : seq[i] \in S
      /\ left \subseteq 1..Len(seq) /\ left \subseteq Nat
  OBVIOUS
<1>2. IsFiniteSet(left) /\ n \in Nat
  <2>1. IsFiniteSet(1..Len(seq))
    BY <1>1, FS_Interval
  <2>2. left \in SUBSET (1..Len(seq))
    BY <1>1
  <2> HIDE DEF left
  <2>3. QED
    BY <2>1, <2>2, FS_Subset, FS_CardinalityType
<1>3. w = [k \in 1..n |-> seq[place(k)]]
  BY DEF Without
<1> HIDE DEF w
<1>4. ASSUME NEW i \in left
      PROVE  /\ before(i) \subseteq left /\ i \notin before(i)
             /\ IsFiniteSet(before(i))
             /\ Cardinality(before(i)) \in Nat /\ Cardinality(before(i)) \in 0..(n - 1)
  <2>1. before(i) \in SUBSET left /\ i \notin before(i) /\ before(i) # left
    BY <1>1
  <2> HIDE DEF before, left
  <2>2. IsFiniteSet(before(i)) /\ Cardinality(before(i)) \in Nat
    BY <1>2, <2>1, FS_Subset, FS_CardinalityType
  <2>3. Cardinality(before(i)) <= n /\ Cardinality(before(i)) # n
    BY <1>2, <2>1, FS_Subset
  <2> HIDE DEF n
  <2>4. QED
    BY <1>2, <2>1, <2>2, <2>3
<1>5. ASSUME NEW i \in left, NEW j \in left, i < j
      PROVE  rank[i] < rank[j]
  <2>1. before(i) \in SUBSET before(j) /\ i \in before(j) /\ i \notin before(i)
    BY <1>1, <1>5
  <2> HIDE DEF before, left, n
  <2>2. IsFiniteSet(before(j)) /\ Cardinality(before(i)) \in Nat /\ Cardinality(before(j)) \in Nat
    BY <1>4
  <2>3. Cardinality(before(i)) <= Cardinality(before(j))
        /\ Cardinality(before(i)) # Cardinality(before(j))
    BY <2>1, <2>2, FS_Subset
  <2>4. QED
    BY <2>2, <2>3
<1>6. rank \in [left -> 0..(n - 1)] /\ \A i \in left : rank[i] \in Nat
  BY <1>4
<1> HIDE DEF before, rank
<1>7. \A i, j \in left : rank[i] = rank[j] => i = j
  <2>1. \A i, j \in left : i = j \/ i < j \/ j < i
    BY <1>1
  <2>2. \A i \in left : rank[i] \in Int
    BY <1>6
  <2>3. QED
    BY <1>5, <2>1, <2>2
<1> HIDE DEF left
<1>8. IsFiniteSet(0..(n - 1)) /\ Cardinality(0..(n - 1)) = n
  <2> HIDE DEF n
  <2>1. QED
    BY <1>2, FS_Interval
<1>9. \A m \in 0..(n - 1) : \E i \in left : rank[i] = m
  <2>1. rank \in Injection(left, 0..(n - 1))
    BY <1>6, <1>7 DEF Injection, IsInjective
  <2>2. rank \in Surjection(left, 0..(n - 1))
    BY <1>8, <2>1, FS_Injection
  <2>3. QED
    BY <2>2 DEF Surjection
<1>10. ASSUME NEW k \in 1..n
       PROVE  place(k) \in left /\ rank[place(k)] = k - 1
  <2>1. \E i \in left : Cardinality(before(i)) = k - 1
    BY <1>2, <1>9 DEF rank
  <2>2. place(k) \in left /\ Cardinality(before(place(k))) = k - 1
    BY <2>1
  <2>3. QED
    BY <2>2 DEF rank
<1> HIDE DEF place
<1>11. left \subseteq DOMAIN seq /\ \A i \in left : seq[i] \notin gone
  BY DEF left
<1>12. DOMAIN w = 1..n /\ \A k \in 1..n : w[k] = seq[place(k)]
  BY <1>3
<1>13. w \in Seq(S)
  <2>1. \A k \in 1..n : seq[place(k)] \in S
    BY <1>1, <1>10, <1>11
  <2> HIDE DEF n
  <2>2. w \in [1..n -> S]
    BY <1>3, <2>1
  <2>3. QED
    BY <1>2, <2>2
<1>14. Range(w) = Range(seq) \ gone
  <2>1. Range(w) \subseteq Range(seq) \ gone
    BY <1>10, <1>11, <1>12 DEF Range
  <2>2. ASSUME NEW x \in Range(seq) \ gone
        PROVE  x \in Range(w)
    <3>1. PICK i \in left : seq[i] = x
      BY DEF Range, left
    <3>2. rank[i] + 1 \in 1..n /\ (rank[i] + 1) - 1 = rank[i]
      BY <1>2, <1>6
    <3>3. place(rank[i] + 1) = i
      BY <1>7, <1>10, <3>2
    <3>4. QED
      BY <1>12, <3>1, <3>2, <3>3 DEF Range
  <2>3. QED
    BY <2>1, <2>2
<1>15. \A k, l \in DOMAIN w : k < l => place(k) < place(l)
  <2> SUFFICES ASSUME NEW k \in 1..n, NEW l \in 1..n, k < l
               PROVE  place(k) < place(l)
    BY <1>12
  <2>1. place(k) \in left /\ place(l) \in left /\ rank[place(k)] < rank[place(l)]
    BY <1>2, <1>10
  <2>2. /\ place(k) \in Nat /\ place(l) \in Nat
        /\ rank[place(k)] \in Int /\ rank[place(l)] \in Int
    BY <1>1, <1>6, <2>1
  <2>3. ~(place(l) < place(k)) /\ place(l) # place(k)
    BY <1>5, <2>1, <2>2
  <2>4. QED
    BY <2>2, <2>3
<1>16. [k \in DOMAIN w |-> place(k)] \in [DOMAIN w -> DOMAIN seq]
  BY <1>10, <1>11, <1>12
<1>17. \E where \in [DOMAIN w -> DOMAIN seq] :
         /\ \A k \in DOMAIN w : w[k] = seq[where[k]] /\ w[k] \notin gone
         /\ \A k, l \in DOMAIN w : k < l => where[k] < where[l]
  <2> DEFINE where == [k \in DOMAIN w |-> place(k)]
  <2>1. \A k \in DOMAIN w : w[k] = seq[where[k]] /\ w[k] \notin gone
    BY <1>10, <1>11, <1>12
  <2>2. QED
    BY <1>15, <1>16, <2>1
<1>18. QED
  BY <1>13, <1>14, <1>17 DEF w

\* A list stays a list, of what is not gone.
LEMMA WithoutIsSeq ==
  ASSUME NEW S, NEW seq \in Seq(S), NEW gone
  PROVE  Without(seq, gone) \in Seq(S) /\ Range(Without(seq, gone)) = Range(seq) \ gone
BY WithoutProperties

LEMMA WithoutKeepsOrder ==
  ASSUME NEW S, NEW seq \in Seq(S), NEW gone, NEW w, w = Without(seq, gone),
         NEW i \in DOMAIN w, NEW j \in DOMAIN w, i < j
  PROVE  \E k, l \in DOMAIN seq : k < l /\ w[i] = seq[k] /\ w[j] = seq[l] /\ w[i] \notin gone
<1>1. PICK where \in [DOMAIN w -> DOMAIN seq] :
        /\ \A k \in DOMAIN w : w[k] = seq[where[k]] /\ w[k] \notin gone
        /\ \A k, l \in DOMAIN w : k < l => where[k] < where[l]
  BY WithoutProperties
<1>2. where[i] \in DOMAIN seq /\ where[j] \in DOMAIN seq
  BY <1>1
<1>3. QED
  BY <1>1, <1>2

\* No element is there twice if none was.
LEMMA WithoutKeepsDistinct ==
  ASSUME NEW S, NEW seq \in Seq(S), NEW gone, IsInjective(seq)
  PROVE  IsInjective(Without(seq, gone))
<1> DEFINE w == Without(seq, gone)
<1>1. w \in Seq(S)
  BY WithoutProperties
<1>2. PICK where \in [DOMAIN w -> DOMAIN seq] :
        /\ \A k \in DOMAIN w : w[k] = seq[where[k]] /\ w[k] \notin gone
        /\ \A k, l \in DOMAIN w : k < l => where[k] < where[l]
  BY WithoutProperties
<1> HIDE DEF w
<1>3. DOMAIN w \subseteq Nat /\ DOMAIN seq \subseteq Nat
  BY <1>1
<1>4. ASSUME NEW k \in DOMAIN w, NEW l \in DOMAIN w, w[k] = w[l]
      PROVE  k = l
  <2>1. where[k] = where[l] /\ where[k] \in Nat
    BY <1>2, <1>3, <1>4 DEF IsInjective
  <2>2. ~(k < l) /\ ~(l < k)
    BY <1>2, <2>1
  <2>3. QED
    BY <1>3, <2>2
<1>5. QED
  BY <1>4 DEF IsInjective, w

\* What is left, when it is nothing or one element.
LEMMA WithoutLeavesNone ==
  ASSUME NEW S, NEW seq \in Seq(S), NEW gone, Range(seq) \ gone = {}
  PROVE  Without(seq, gone) = <<>>
<1> DEFINE w == Without(seq, gone)
<1>1. w \in Seq(S) /\ Range(w) = {}
  BY WithoutIsSeq
<1> HIDE DEF w
<1>2. Len(w) \in Nat /\ \A i \in 1..Len(w) : w[i] \in Range(w)
  BY <1>1 DEF Range
<1>3. Len(w) = 0
  BY <1>1, <1>2
<1>4. QED
  BY <1>1, <1>3 DEF w

LEMMA WithoutLeavesOne ==
  ASSUME NEW S, NEW seq \in Seq(S), IsInjective(seq), NEW gone, NEW x, Range(seq) \ gone = {x}
  PROVE  Without(seq, gone) = <<x>>
<1> DEFINE w == Without(seq, gone)
<1>1. w \in Seq(S) /\ Range(w) = {x}
  BY WithoutIsSeq
<1>2. IsInjective(w)
  BY WithoutKeepsDistinct
<1> HIDE DEF w
<1>3. Len(w) \in Nat /\ DOMAIN w = 1..Len(w) /\ \A i \in 1..Len(w) : w[i] = x
  BY <1>1 DEF Range
<1>4. ASSUME Len(w) > 1
      PROVE  FALSE
  <2>1. 1 \in DOMAIN w /\ 2 \in DOMAIN w /\ 1 # 2
    BY <1>3, <1>4
  <2>2. QED
    BY <1>2, <1>3, <2>1 DEF IsInjective
<1>5. Len(w) # 0
  BY <1>1, <1>3 DEF Range
<1>6. Len(w) = 1 /\ w[1] = x
  BY <1>3, <1>4, <1>5
<1>7. QED
  BY <1>1, <1>6 DEF w

\* The removal of the one entry that holds k.
LEMMA RemoveAtProperties ==
  ASSUME NEW S, NEW seq \in Seq(S), IsInjective(seq), NEW k \in Range(seq)
  PROVE  LET w == RemoveAt(seq, CHOOSE i \in DOMAIN seq : seq[i] = k)
         IN  w \in Seq(S) /\ IsInjective(w) /\ Range(w) = Range(seq) \ {k}
<1> DEFINE at == CHOOSE i \in DOMAIN seq : seq[i] = k
           left == SubSeq(seq, 1, at - 1)
           right == SubSeq(seq, at + 1, Len(seq))
           w == left \o right
<1>1. at \in 1..Len(seq) /\ seq[at] = k
  BY DEF Range
<1> HIDE DEF at
<1>2. /\ left \in Seq(S) /\ Len(left) = at - 1
      /\ \A i \in 1..(at - 1) : left[i] = seq[i]
  BY <1>1, SubSeqProperties
<1>3. /\ right \in Seq(S) /\ Len(right) = Len(seq) - at
      /\ \A i \in 1..(Len(seq) - at) : right[i] = seq[at + i]
  BY <1>1, SubSeqProperties
<1> HIDE DEF left, right
<1>4. /\ w \in Seq(S) /\ Len(w) = Len(left) + Len(right)
      /\ \A i \in 1..(Len(left) + Len(right)) :
           w[i] = IF i <= Len(left) THEN left[i] ELSE right[i - Len(left)]
  BY <1>2, <1>3, ConcatProperties
<1> HIDE DEF w
<1>5. DOMAIN w = 1..(Len(seq) - 1) /\ DOMAIN seq = 1..Len(seq) /\ Len(seq) \in Nat
  BY <1>1, <1>2, <1>3, <1>4
<1>6. ASSUME NEW i \in 1..(Len(seq) - 1)
      PROVE  w[i] = IF i < at THEN seq[i] ELSE seq[i + 1]
  <2>1. i \in 1..(Len(left) + Len(right)) /\ i \in Int /\ at \in Int
    BY <1>1, <1>2, <1>3
  <2>2. w[i] = IF i <= Len(left) THEN left[i] ELSE right[i - Len(left)]
    BY <1>4, <2>1
  <2>3. CASE i < at
    BY <1>1, <1>2, <2>1, <2>2, <2>3
  <2>4. CASE i >= at
    <3>1. i - (at - 1) \in 1..(Len(seq) - at) /\ at + (i - (at - 1)) = i + 1
      BY <1>1, <2>1, <2>4
    <3>2. w[i] = right[i - (at - 1)]
      BY <1>2, <2>1, <2>2, <2>4
    <3>3. QED
      BY <1>3, <2>1, <2>4, <3>1, <3>2
  <2>5. QED
    BY <2>1, <2>3, <2>4
<1>7. IsInjective(w)
  BY <1>1, <1>5, <1>6 DEF IsInjective
<1>8. Range(w) \subseteq Range(seq) \ {k}
  <2>1. ASSUME NEW i \in 1..(Len(seq) - 1)
        PROVE  w[i] \in Range(seq) \ {k}
    <3>1. PICK j \in 1..Len(seq) : j # at /\ w[i] = seq[j]
      BY <1>1, <1>5, <1>6
    <3>2. QED
      BY <1>1, <1>5, <3>1 DEF Range, IsInjective
  <2>2. QED
    BY <1>5, <2>1 DEF Range
<1>9. ASSUME NEW x \in Range(seq) \ {k}
      PROVE  x \in Range(w)
  <2>1. PICK j \in 1..Len(seq) : seq[j] = x
    BY <1>5 DEF Range
  <2>2. CASE j < at
    BY <1>1, <1>5, <1>6, <2>1, <2>2 DEF Range
  <2>3. CASE j > at
    <3>1. j - 1 \in 1..(Len(seq) - 1) /\ w[j - 1] = seq[j]
      BY <1>1, <1>6, <2>1, <2>3
    <3>2. QED
      BY <1>5, <2>1, <3>1 DEF Range
  <2>4. QED
    BY <1>1, <2>1, <2>2, <2>3
<1>10. QED
  BY <1>4, <1>7, <1>8, <1>9 DEF RemoveAt, w, left, right, at

-----------------------------------------------------------------------------
(* Elements that come *)

LEMMA RangeOfAppend ==
  ASSUME NEW S, NEW seq \in Seq(S), NEW v \in S
  PROVE  Range(Append(seq, v)) = Range(seq) \cup {v}
<1> DEFINE w == Append(seq, v)
<1>1. /\ DOMAIN w = 1 .. (Len(seq) + 1) /\ DOMAIN seq = 1 .. Len(seq) /\ Len(seq) \in Nat
      /\ w[Len(seq) + 1] = v /\ \A i \in 1 .. Len(seq) : w[i] = seq[i]
  OBVIOUS
<1> HIDE DEF w
<1>2. v \in Range(w)
  BY <1>1 DEF Range
<1>3. Range(w) = Range(seq) \cup {v}
  BY <1>1, <1>2 DEF Range
<1>4. QED
  BY <1>3 DEF w

LEMMA RangeOfConcat ==
  ASSUME NEW S, NEW left \in Seq(S), NEW right \in Seq(S)
  PROVE  Range(left \o right) = Range(left) \cup Range(right)
<1> DEFINE w == left \o right
<1>1. /\ DOMAIN left = 1 .. Len(left) /\ DOMAIN right = 1 .. Len(right)
      /\ Len(left) \in Nat /\ Len(right) \in Nat
      /\ DOMAIN w = 1 .. (Len(left) + Len(right))
      /\ \A i \in DOMAIN w : w[i] = IF i <= Len(left) THEN left[i] ELSE right[i - Len(left)]
  OBVIOUS
<1> HIDE DEF w
<1>2. \A i \in DOMAIN left : i \in DOMAIN w /\ w[i] = left[i]
  BY <1>1
<1>3. \A i \in DOMAIN right :
        i + Len(left) \in DOMAIN w /\ w[i + Len(left)] = right[i]
  BY <1>1
<1>4. \A i \in DOMAIN w :
        \/ i \in DOMAIN left /\ w[i] = left[i]
        \/ i - Len(left) \in DOMAIN right /\ w[i] = right[i - Len(left)]
  BY <1>1
<1>5. Range(w) = Range(left) \cup Range(right)
  BY <1>2, <1>3, <1>4 DEF Range
<1>6. QED
  BY <1>5 DEF w

LEMMA AppendAdds ==
  ASSUME NEW S, NEW seq \in Seq(S), IsInjective(seq), NEW v \in S, v \notin Range(seq)
  PROVE  /\ Range(Append(seq, v)) = Range(seq) \cup {v}
         /\ IsInjective(Append(seq, v))
<1> DEFINE w == Append(seq, v)
<1>1. /\ DOMAIN w = 1 .. (Len(seq) + 1) /\ DOMAIN seq = 1 .. Len(seq) /\ Len(seq) \in Nat
      /\ w[Len(seq) + 1] = v /\ \A i \in 1 .. Len(seq) : w[i] = seq[i]
  BY AppendProperties
<1> HIDE DEF w
<1>2. Range(w) = Range(seq) \cup {v}
  <2>1. v \in Range(w)
    BY <1>1 DEF Range
  <2>2. QED
    BY <1>1, <2>1 DEF Range
<1>3. IsInjective(w)
  BY <1>1 DEF Range, IsInjective
<1>4. QED
  BY <1>2, <1>3 DEF w

LEMMA PrependProperties ==
  ASSUME NEW S, NEW seq \in Seq(S), IsInjective(seq), NEW k \in S, k \notin Range(seq)
  PROVE  /\ <<k>> \o seq \in Seq(S) /\ IsInjective(<<k>> \o seq)
         /\ Range(<<k>> \o seq) = Range(seq) \cup {k}
<1> DEFINE w == <<k>> \o seq
<1>1. /\ w \in Seq(S) /\ DOMAIN w = 1..(Len(seq) + 1) /\ DOMAIN seq = 1..Len(seq)
      /\ Len(seq) \in Nat /\ w[1] = k /\ \A i \in 1..Len(seq) : w[i + 1] = seq[i]
  OBVIOUS
<1> HIDE DEF w
<1>2. \A i \in DOMAIN w : i = 1 \/ (i - 1 \in DOMAIN seq /\ w[i] = seq[i - 1])
  BY <1>1
<1>3. IsInjective(w)
  BY <1>1, <1>2 DEF IsInjective, Range
<1>4. k \in Range(w) /\ \A i \in DOMAIN seq : seq[i] \in Range(w)
  BY <1>1 DEF Range
<1>5. Range(w) = Range(seq) \cup {k}
  BY <1>1, <1>2, <1>4 DEF Range
<1>6. QED
  BY <1>1, <1>3, <1>5 DEF w

-----------------------------------------------------------------------------
(* Lengths *)

\* A list without duplicates is as long as the set of what it holds.
LEMMA LengthOfDistinct ==
  ASSUME NEW S, NEW seq \in Seq(S), IsInjective(seq)
  PROVE  Cardinality(Range(seq)) = Len(seq)
<1>1. DOMAIN seq = 1 .. Len(seq) /\ Len(seq) \in Nat
  OBVIOUS
<1>2. seq \in Bijection(1 .. Len(seq), Range(seq))
  BY <1>1 DEF Bijection, Injection, Surjection, IsInjective, Range
<1>3. ExistsBijection(1 .. Len(seq), Range(seq))
  BY <1>2 DEF ExistsBijection
<1>4. QED
  BY <1>1, <1>3, FS_CountingElements
-----------------------------------------------------------------------------
(* Queues *)

NoneOfKind(seq, kind) == \A i \in 1..Len(seq) : seq[i] \notin kind
LastOfKind(seq, kind, wanted) ==
  \A i \in 1..Len(seq) :
    seq[i] \in kind /\ (\A j \in (i + 1)..Len(seq) : seq[j] \notin kind) => seq[i] \in wanted
CountOf(seq, kind) == Cardinality({i \in 1..Len(seq) : seq[i] \in kind})

LEMMA Received ==
  ASSUME NEW S, NEW seq \in Seq(S), seq # <<>>
  PROVE  /\ Head(seq) = seq[1] /\ Head(seq) \in S
         /\ Tail(seq) \in Seq(S) /\ Len(seq) \in Nat /\ Len(seq) > 0
         /\ Len(Tail(seq)) = Len(seq) - 1
         /\ \A i \in 1..(Len(seq) - 1) : Tail(seq)[i] = seq[i + 1]
OBVIOUS

LEMMA Sent ==
  ASSUME NEW S, NEW seq \in Seq(S), NEW new \in Seq(S)
  PROVE  /\ seq \o new \in Seq(S) /\ Len(seq) \in Nat /\ Len(new) \in Nat
         /\ Len(seq \o new) = Len(seq) + Len(new)
         /\ \A i \in 1..Len(seq) : (seq \o new)[i] = seq[i]
         /\ \A i \in 1..Len(new) : (seq \o new)[Len(seq) + i] = new[i]
         /\ \A i \in 1..(Len(seq) + Len(new)) :
              \/ i \in 1..Len(seq) /\ (seq \o new)[i] = seq[i]
              \/ i - Len(seq) \in 1..Len(new) /\ (seq \o new)[i] = new[i - Len(seq)]
OBVIOUS

LEMMA SentTwice ==
  ASSUME NEW S, NEW a \in Seq(S), NEW b \in Seq(S), NEW c \in Seq(S)
  PROVE  (a \o b) \o c = a \o (b \o c) /\ b \o c \in Seq(S)
<1> DEFINE v == (a \o b) \o c
           w == a \o (b \o c)
<1>1. Len(a) \in Nat /\ Len(b) \in Nat /\ Len(c) \in Nat
  OBVIOUS
<1>2. /\ a \o b \in Seq(S) /\ b \o c \in Seq(S) /\ v \in Seq(S) /\ w \in Seq(S)
      /\ Len(v) = Len(a) + Len(b) + Len(c) /\ Len(w) = Len(a) + Len(b) + Len(c)
  OBVIOUS
<1>3. ASSUME NEW i \in 1..(Len(a) + Len(b) + Len(c))
      PROVE  v[i] = w[i]
  <2>1. CASE i <= Len(a)
    BY <1>1, <1>2, <2>1
  <2>2. CASE Len(a) < i /\ i <= Len(a) + Len(b)
    BY <1>1, <1>2, <2>2
  <2>3. CASE Len(a) + Len(b) < i
    BY <1>1, <1>2, <2>3
  <2>4. QED
    BY <1>1, <2>1, <2>2, <2>3
<1> HIDE DEF v, w
<1>4. v = w
  BY <1>1, <1>2, <1>3
<1>5. QED
  BY <1>2, <1>4 DEF v, w

\* What is left when the head is taken: the last of a kind stays the last.
LEMMA KindsReceived ==
  ASSUME NEW S, NEW seq \in Seq(S), seq # <<>>, NEW kind, NEW wanted
  PROVE  /\ NoneOfKind(seq, kind) <=> NoneOfKind(Tail(seq), kind) /\ Head(seq) \notin kind
         /\ LastOfKind(seq, kind, wanted) => LastOfKind(Tail(seq), kind, wanted)
         /\ LastOfKind(seq, kind, wanted) /\ NoneOfKind(Tail(seq), kind) /\ Head(seq) \in kind
              => Head(seq) \in wanted
<1> DEFINE w == Tail(seq)
<1>1. /\ Head(seq) = seq[1] /\ Len(seq) \in Nat /\ Len(seq) > 0 /\ Len(w) = Len(seq) - 1
      /\ \A i \in 1..(Len(seq) - 1) : w[i] = seq[i + 1]
  BY Received
<1> HIDE DEF w
<1>2. \A i \in 1..Len(seq) : i = 1 \/ (i - 1 \in 1..Len(w) /\ w[i - 1] = seq[i])
  BY <1>1
<1>3. \A i \in 1..Len(w) : i + 1 \in 1..Len(seq) /\ 1 \in 1..Len(seq) /\ w[i] = seq[i + 1]
  BY <1>1
<1>4. NoneOfKind(seq, kind) <=> NoneOfKind(w, kind) /\ Head(seq) \notin kind
  <2>1. 1 \in 1..Len(seq)
    BY <1>1
  <2>2. QED
    BY <1>1, <1>2, <1>3, <2>1 DEF NoneOfKind
<1>5. ASSUME LastOfKind(seq, kind, wanted)
      PROVE  LastOfKind(w, kind, wanted)
  <2> SUFFICES ASSUME NEW i \in 1..Len(w), w[i] \in kind,
                      \A j \in (i + 1)..Len(w) : w[j] \notin kind
               PROVE  w[i] \in wanted
    BY DEF LastOfKind
  <2>1. i + 1 \in 1..Len(seq) /\ w[i] = seq[i + 1]
    BY <1>3
  <2>2. \A j \in ((i + 1) + 1)..Len(seq) : j - 1 \in (i + 1)..Len(w) /\ seq[j] = w[j - 1]
    BY <1>1, <1>2
  <2>3. QED
    BY <1>5, <2>1, <2>2 DEF LastOfKind
<1>6. ASSUME LastOfKind(seq, kind, wanted), NoneOfKind(w, kind), Head(seq) \in kind
      PROVE  Head(seq) \in wanted
  <2>1. 1 \in 1..Len(seq) /\ \A j \in (1 + 1)..Len(seq) : j - 1 \in 1..Len(w) /\ seq[j] = w[j - 1]
    BY <1>1, <1>2
  <2>2. QED
    BY <1>1, <1>6, <2>1 DEF LastOfKind, NoneOfKind
<1>7. QED
  BY <1>4, <1>5, <1>6 DEF w

\* What is sent comes last.
LEMMA KindsSent ==
  ASSUME NEW S, NEW seq \in Seq(S), NEW new \in Seq(S), NEW kind, NEW wanted
  PROVE  /\ NoneOfKind(seq \o new, kind) <=> NoneOfKind(seq, kind) /\ NoneOfKind(new, kind)
         /\ LastOfKind(new, kind, wanted) /\ ~NoneOfKind(new, kind)
              => LastOfKind(seq \o new, kind, wanted)
         /\ NoneOfKind(new, kind) /\ LastOfKind(seq, kind, wanted)
              => LastOfKind(seq \o new, kind, wanted)
<1> DEFINE w == seq \o new
<1>1. /\ Len(seq) \in Nat /\ Len(new) \in Nat /\ Len(w) = Len(seq) + Len(new)
      /\ \A i \in 1..Len(seq) : w[i] = seq[i]
      /\ \A i \in 1..Len(new) : w[Len(seq) + i] = new[i]
      /\ \A i \in 1..(Len(seq) + Len(new)) :
           \/ i \in 1..Len(seq) /\ w[i] = seq[i]
           \/ i - Len(seq) \in 1..Len(new) /\ w[i] = new[i - Len(seq)]
  BY Sent
<1> HIDE DEF w
<1>2. /\ \A i \in 1..Len(seq) : i \in 1..Len(w)
      /\ \A i \in 1..Len(new) : Len(seq) + i \in 1..Len(w)
  BY <1>1
<1>3. NoneOfKind(w, kind) <=> NoneOfKind(seq, kind) /\ NoneOfKind(new, kind)
  BY <1>1, <1>2 DEF NoneOfKind
<1>4. ASSUME NEW i \in 1..Len(w), \A j \in (i + 1)..Len(w) : w[j] \notin kind,
             i - Len(seq) \in 1..Len(new)
      PROVE  \A j \in ((i - Len(seq)) + 1)..Len(new) : new[j] \notin kind
  <2>1. \A j \in ((i - Len(seq)) + 1)..Len(new) :
          Len(seq) + j \in (i + 1)..Len(w) /\ j \in 1..Len(new)
    BY <1>1, <1>4
  <2>2. QED
    BY <1>1, <1>4, <2>1
<1>5. ASSUME LastOfKind(new, kind, wanted), ~NoneOfKind(new, kind)
      PROVE  LastOfKind(w, kind, wanted)
  <2> SUFFICES ASSUME NEW i \in 1..Len(w), w[i] \in kind,
                      \A j \in (i + 1)..Len(w) : w[j] \notin kind
               PROVE  w[i] \in wanted
    BY DEF LastOfKind
  <2>1. PICK k \in 1..Len(new) : new[k] \in kind
    BY <1>5 DEF NoneOfKind
  <2>2. ~(i \in 1..Len(seq))
    <3>1. ASSUME i \in 1..Len(seq)
          PROVE  Len(seq) + k \in (i + 1)..Len(w)
      BY <1>1, <3>1
    <3>2. QED
      BY <1>1, <2>1, <3>1
  <2>3. i - Len(seq) \in 1..Len(new) /\ w[i] = new[i - Len(seq)]
    BY <1>1, <2>2
  <2>4. QED
    BY <1>4, <1>5, <2>3 DEF LastOfKind
<1>6. ASSUME NoneOfKind(new, kind), LastOfKind(seq, kind, wanted)
      PROVE  LastOfKind(w, kind, wanted)
  <2> SUFFICES ASSUME NEW i \in 1..Len(w), w[i] \in kind,
                      \A j \in (i + 1)..Len(w) : w[j] \notin kind
               PROVE  w[i] \in wanted
    BY DEF LastOfKind
  <2>1. i \in 1..Len(seq) /\ w[i] = seq[i]
    BY <1>1, <1>6 DEF NoneOfKind
  <2>2. \A j \in (i + 1)..Len(seq) : j \in (i + 1)..Len(w) /\ w[j] = seq[j]
    BY <1>1, <2>1
  <2>3. QED
    BY <1>6, <2>1, <2>2 DEF LastOfKind
<1>7. QED
  BY <1>3, <1>5, <1>6 DEF w

\* A kind that is there has a last one.
LEMMA LastPlace ==
  ASSUME NEW S, NEW seq \in Seq(S), NEW kind, ~NoneOfKind(seq, kind)
  PROVE  \E i \in 1..Len(seq) : seq[i] \in kind /\ \A j \in (i + 1)..Len(seq) : seq[j] \notin kind
<1> DEFINE places == {i \in 1..Len(seq) : seq[i] \in kind}
           T == {Len(seq) - i : i \in places}
<1>1. Len(seq) \in Nat
  OBVIOUS
<1>2. T \in SUBSET Nat /\ T # {}
  BY <1>1 DEF NoneOfKind
<1>3. PICK m \in T : \A k \in T : m <= k
  BY <1>2, Least
<1>4. PICK i \in places : m = Len(seq) - i
  OBVIOUS
<1>5. ASSUME NEW j \in (i + 1)..Len(seq), seq[j] \in kind
      PROVE  FALSE
  <2>1. Len(seq) - j \in T
    BY <1>1, <1>5
  <2>2. Len(seq) - i <= Len(seq) - j
    BY <1>3, <1>4, <2>1
  <2>3. QED
    BY <1>1, <1>5, <2>2
<1>6. QED
  BY <1>5

LEMMA CountType ==
  ASSUME NEW S, NEW seq \in Seq(S), NEW kind
  PROVE  /\ CountOf(seq, kind) \in Nat /\ IsFiniteSet({i \in 1..Len(seq) : seq[i] \in kind})
<1> DEFINE places == {i \in 1..Len(seq) : seq[i] \in kind}
<1>1. IsFiniteSet(1..Len(seq)) /\ places \in SUBSET (1..Len(seq))
  BY FS_Interval
<1> HIDE DEF places
<1>2. IsFiniteSet(places) /\ Cardinality(places) \in Nat
  BY <1>1, FS_Subset, FS_CardinalityType
<1>3. QED
  BY <1>2 DEF CountOf, places

LEMMA CountReceived ==
  ASSUME NEW S, NEW seq \in Seq(S), seq # <<>>, NEW kind
  PROVE  CountOf(seq, kind) = CountOf(Tail(seq), kind) + (IF Head(seq) \in kind THEN 1 ELSE 0)
<1> DEFINE w == Tail(seq)
           old == {i \in 1..Len(seq) : seq[i] \in kind}
           rest == old \ {1}
           new == {i \in 1..Len(w) : w[i] \in kind}
           shift == [i \in new |-> i + 1]
<1>1. /\ Head(seq) = seq[1] /\ Len(seq) \in Nat /\ Len(seq) > 0 /\ Len(w) = Len(seq) - 1
      /\ \A i \in 1..(Len(seq) - 1) : w[i] = seq[i + 1] /\ w \in Seq(S)
  BY Received
<1> HIDE DEF w
<1>2. IsFiniteSet(old) /\ IsFiniteSet(new) /\ Cardinality(new) \in Nat
  <2>1. w \in Seq(S)
    BY Received DEF w
  <2>2. QED
    BY <2>1, CountType DEF CountOf
<1>3. shift \in [new -> rest] /\ \A i, j \in new : shift[i] = shift[j] => i = j
  BY <1>1
<1>4. ASSUME NEW j \in rest
      PROVE  \E i \in new : shift[i] = j
  <2>1. j - 1 \in 1..Len(w) /\ w[j - 1] = seq[j] /\ (j - 1) + 1 = j
    BY <1>1
  <2>2. j - 1 \in new
    BY <2>1
  <2>3. QED
    BY <2>1, <2>2
<1>5. shift \in Bijection(new, rest)
  BY <1>3, <1>4 DEF Bijection, Injection, Surjection, IsInjective
<1> HIDE DEF shift, new, old
<1>6. Cardinality(rest) = Cardinality(new)
  BY <1>2, <1>5, FS_Bijection DEF ExistsBijection
<1>7. 1 \in old <=> Head(seq) \in kind
  BY <1>1 DEF old
<1>8. CASE Head(seq) \in kind
  <2>1. Cardinality(rest) = Cardinality(old) - 1 /\ Cardinality(old) \in Nat
    BY <1>2, <1>7, <1>8, FS_RemoveElement, FS_CardinalityType
  <2>2. Cardinality(old) = Cardinality(new) + 1
    BY <1>2, <1>6, <2>1
  <2>3. QED
    BY <1>8, <2>2 DEF CountOf, old, new, w
<1>9. CASE Head(seq) \notin kind
  <2>1. rest = old
    BY <1>7, <1>9
  <2> HIDE DEF rest
  <2>2. Cardinality(old) = Cardinality(new) + 0
    BY <1>2, <1>6, <2>1
  <2>3. QED
    BY <1>9, <2>2 DEF CountOf, old, new, w
<1>10. QED
  BY <1>8, <1>9

LEMMA CountSent ==
  ASSUME NEW S, NEW seq \in Seq(S), NEW new \in Seq(S), NEW kind
  PROVE  /\ NoneOfKind(new, kind) => CountOf(seq \o new, kind) = CountOf(seq, kind)
         /\ Len(new) = 1 /\ ~NoneOfKind(new, kind)
              => CountOf(seq \o new, kind) = CountOf(seq, kind) + 1
<1> DEFINE w == seq \o new
           old == {i \in 1..Len(seq) : seq[i] \in kind}
           all == {i \in 1..Len(w) : w[i] \in kind}
<1>1. /\ Len(seq) \in Nat /\ Len(new) \in Nat /\ Len(w) = Len(seq) + Len(new)
      /\ \A i \in 1..Len(seq) : w[i] = seq[i]
      /\ \A i \in 1..Len(new) : w[Len(seq) + i] = new[i]
      /\ \A i \in 1..(Len(seq) + Len(new)) :
           \/ i \in 1..Len(seq) /\ w[i] = seq[i]
           \/ i - Len(seq) \in 1..Len(new) /\ w[i] = new[i - Len(seq)]
  BY Sent
<1> HIDE DEF w
<1>2. IsFiniteSet(old) /\ Len(seq) + 1 \notin old
  <2>1. Len(seq) + 1 \notin old
    BY <1>1
  <2>2. IsFiniteSet(old)
    BY CountType
  <2>3. QED
    BY <2>1, <2>2
<1>3. ASSUME NoneOfKind(new, kind)
      PROVE  all = old
  BY <1>1, <1>3 DEF NoneOfKind
<1>4. ASSUME Len(new) = 1, ~NoneOfKind(new, kind)
      PROVE  all = old \cup {Len(seq) + 1}
  <2>1. new[1] \in kind
    BY <1>4 DEF NoneOfKind
  <2>2. Len(seq) + 1 \in 1..Len(w) /\ w[Len(seq) + 1] = new[1]
    BY <1>1, <1>4
  <2>3. \A i \in all : i \in 1..Len(seq) \/ i = Len(seq) + 1
    BY <1>1, <1>4
  <2>4. QED
    BY <1>1, <2>1, <2>2, <2>3
<1> HIDE DEF old, all
<1>5. ASSUME Len(new) = 1, ~NoneOfKind(new, kind)
      PROVE  Cardinality(all) = Cardinality(old) + 1
  BY <1>2, <1>4, <1>5, FS_AddElement
<1>6. QED
  BY <1>3, <1>5 DEF CountOf, old, all, w
=============================================================================
