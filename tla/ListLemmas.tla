----------------------------- MODULE ListLemmas -----------------------------
(***************************************************************************)
(* What the two operations on a HevList do to a list without repetitions:  *)
(* hev_list_add_tail is Append, hev_list_del is RemoveFirst.               *)
(***************************************************************************)
EXTENDS SequencesExt, SequenceTheorems, FiniteSetTheorems, TLAPS

\* Every element of list occurs in it once.
NoRepeat(list) ==
    \A i, j \in 1 .. Len(list) : list[i] = list[j] => i = j

InList(list, e) == \E i \in 1 .. Len(list) : list[i] = e

\* The list with its element at k left out: those after k move up by one.
LEMMA RemoveAtProperties ==
    ASSUME NEW S, NEW list \in Seq(S), NEW k \in 1 .. Len(list)
    PROVE  /\ RemoveAt(list, k) \in Seq(S)
           /\ Len(RemoveAt(list, k)) = Len(list) - 1
           /\ \A i \in 1 .. Len(list) - 1 :
                 RemoveAt(list, k)[i] = IF i < k THEN list[i] ELSE list[i + 1]
<1> DEFINE before == SubSeq(list, 1, k - 1)
           after == SubSeq(list, k + 1, Len(list))
<1>1. Len(list) \in Nat /\ list \in [1 .. Len(list) -> S]
  BY LenProperties
<1>2. /\ before \in Seq(S)
      /\ Len(before) = k - 1
      /\ \A i \in 1 .. k - 1 : before[i] = list[i]
  <2>1. \A i \in 1 .. k - 1 : list[i] \in S
    BY <1>1
  <2>2. /\ before \in Seq(S)
        /\ Len(before) = IF 1 <= k - 1 THEN k - 1 - 1 + 1 ELSE 0
        /\ \A i \in 1 .. k - 1 - 1 + 1 : before[i] = list[1 + i - 1]
    BY <2>1, <1>1, SubSeqProperties
  <2> HIDE DEF before
  <2> QED
    BY <2>2, <1>1
<1>3. /\ after \in Seq(S)
      /\ Len(after) = Len(list) - k
      /\ \A i \in 1 .. Len(list) - k : after[i] = list[k + i]
  <2>1. \A i \in k + 1 .. Len(list) : list[i] \in S
    BY <1>1
  <2>2. /\ after \in Seq(S)
        /\ Len(after) = IF k + 1 <= Len(list) THEN Len(list) - (k + 1) + 1 ELSE 0
        /\ \A i \in 1 .. Len(list) - (k + 1) + 1 : after[i] = list[k + 1 + i - 1]
    BY <2>1, <1>1, SubSeqProperties
  <2> HIDE DEF after
  <2>3. Len(after) = Len(list) - k
    <3>1. Len(list) \in Nat /\ k \in Nat /\ k <= Len(list)
      BY <1>1
    <3>2. CASE k + 1 <= Len(list)
      BY <3>1, <3>2, <2>2
    <3>3. CASE k = Len(list)
      BY <3>1, <3>3, <2>2
    <3> QED
      BY <3>1, <3>2, <3>3
  <2>4. ASSUME NEW i \in 1 .. Len(list) - k PROVE after[i] = list[k + i]
    <3>1. i \in 1 .. Len(list) - (k + 1) + 1 /\ k + 1 + i - 1 = k + i
      BY <1>1
    <3> QED
      BY <3>1, <2>2
  <2> QED
    BY <2>2, <2>3, <2>4
<1>4. /\ before \o after \in Seq(S)
      /\ Len(before \o after) = Len(before) + Len(after)
      /\ \A i \in 1 .. Len(before) + Len(after) :
            (before \o after)[i] = IF i <= Len(before) THEN before[i]
                                   ELSE after[i - Len(before)]
  BY <1>2, <1>3, ConcatProperties
<1>5. RemoveAt(list, k) = before \o after
  BY DEF RemoveAt
<1> HIDE DEF before, after
<1>6. ASSUME NEW i \in 1 .. Len(list) - 1
      PROVE  (before \o after)[i] = IF i < k THEN list[i] ELSE list[i + 1]
  <2>1. CASE i < k
    BY <2>1, <1>1, <1>2, <1>3, <1>4
  <2>2. CASE i >= k
    <3>1. (before \o after)[i] = after[i - (k - 1)]
      BY <2>2, <1>1, <1>2, <1>3, <1>4
    <3>2. after[i - (k - 1)] = list[k + (i - (k - 1))]
      BY <2>2, <1>1, <1>3
    <3>3. k + (i - (k - 1)) = i + 1
      BY <1>1
    <3> QED
      BY <2>2, <3>1, <3>2, <3>3
  <2>3. i < k \/ i >= k
    BY <1>1
  <2> QED
    BY <2>1, <2>2, <2>3
<1>7. Len(before \o after) = Len(list) - 1
  BY <1>1, <1>2, <1>3, <1>4
<1> QED
  BY <1>4, <1>5, <1>6, <1>7

\* In a list without repetitions RemoveFirst takes out the element's place.
LEMMA RemoveFirstPlace ==
    ASSUME NEW S, NEW list \in Seq(S), NoRepeat(list),
           NEW k \in 1 .. Len(list)
    PROVE  RemoveFirst(list, list[k]) = RemoveAt(list, k)
<1>1. {i \in 1 .. Len(list) : list[i] = list[k]} = {k}
  BY DEF NoRepeat
<1>2. Min({k}) = k
  BY DEF Min
<1>3. RemoveFirst(list, list[k]) =
        RemoveAt(list, Min({i \in 1 .. Len(list) : list[i] = list[k]}))
  BY <1>1 DEF RemoveFirst, SelectInSeq
<1> QED
  BY <1>1, <1>2, <1>3

\* hev_list_del: the element is gone, the others stay, still without repeats.
LEMMA RemoveFirstProperties ==
    ASSUME NEW S, NEW list \in Seq(S), NoRepeat(list), NEW e, InList(list, e)
    PROVE  /\ RemoveFirst(list, e) \in Seq(S)
           /\ Len(RemoveFirst(list, e)) = Len(list) - 1
           /\ NoRepeat(RemoveFirst(list, e))
           /\ \A x : InList(RemoveFirst(list, e), x) <=> InList(list, x) /\ x # e
<1>1. PICK k \in 1 .. Len(list) : list[k] = e
  BY DEF InList
<1> DEFINE rest == RemoveAt(list, k)
<1>2. RemoveFirst(list, e) = rest
  BY <1>1, RemoveFirstPlace
<1>3. Len(list) \in Nat
  BY LenProperties
<1>4. /\ rest \in Seq(S)
      /\ Len(rest) = Len(list) - 1
      /\ \A i \in 1 .. Len(list) - 1 : rest[i] = IF i < k THEN list[i] ELSE list[i + 1]
  BY RemoveAtProperties
<1> HIDE DEF rest
<1>5. NoRepeat(rest)
  BY <1>3, <1>4 DEF NoRepeat
<1>6. ASSUME NEW x, InList(rest, x)
      PROVE  InList(list, x) /\ x # e
  <2>1. PICK i \in 1 .. Len(list) - 1 : rest[i] = x
    BY <1>6, <1>4 DEF InList
  <2>2. CASE i < k
    BY <2>1, <2>2, <1>1, <1>3, <1>4 DEF InList, NoRepeat
  <2>3. CASE i >= k
    <3>1. i + 1 \in 1 .. Len(list) /\ list[i + 1] = x /\ i + 1 # k
      BY <2>1, <2>3, <1>3, <1>4
    <3> QED
      BY <3>1, <1>1 DEF InList, NoRepeat
  <2> QED
    BY <2>2, <2>3, <1>3
<1>7. ASSUME NEW x, InList(list, x), x # e
      PROVE  InList(rest, x)
  <2>1. PICK i \in 1 .. Len(list) : list[i] = x
    BY <1>7 DEF InList
  <2>2. CASE i < k
    BY <2>1, <2>2, <1>3, <1>4 DEF InList
  <2>3. CASE i > k
    <3>1. i - 1 \in 1 .. Len(list) - 1 /\ rest[i - 1] = x
      BY <2>1, <2>3, <1>3, <1>4
    <3> QED
      BY <3>1, <1>4 DEF InList
  <2> QED
    BY <2>1, <2>2, <2>3, <1>1, <1>3, <1>7
<1> QED
  BY <1>2, <1>4, <1>5, <1>6, <1>7

\* hev_list_add_tail of a node that is in no list.
LEMMA AppendList ==
    ASSUME NEW S, NEW list \in Seq(S), NoRepeat(list), NEW e \in S, ~InList(list, e)
    PROVE  /\ Append(list, e) \in Seq(S)
           /\ Len(Append(list, e)) = Len(list) + 1
           /\ NoRepeat(Append(list, e))
           /\ \A x : InList(Append(list, e), x) <=> InList(list, x) \/ x = e
<1>1. Len(list) \in Nat
  BY LenProperties
<1>2. /\ Append(list, e) \in Seq(S)
      /\ Len(Append(list, e)) = Len(list) + 1
      /\ \A i \in 1 .. Len(list) : Append(list, e)[i] = list[i]
      /\ Append(list, e)[Len(list) + 1] = e
  BY AppendProperties
<1>3. NoRepeat(Append(list, e))
  BY <1>1, <1>2 DEF NoRepeat, InList
<1>4. \A x : InList(Append(list, e), x) <=> InList(list, x) \/ x = e
  BY <1>1, <1>2 DEF InList
<1> QED
  BY <1>2, <1>3, <1>4

\* A list without repetitions is as long as the set of its elements.
LEMMA NoRepeatCardinality ==
    ASSUME NEW S, NEW list \in Seq(S), NoRepeat(list)
    PROVE  /\ IsFiniteSet(ToSet(list))
           /\ Cardinality(ToSet(list)) = Len(list)
<1>1. Len(list) \in Nat /\ DOMAIN list = 1 .. Len(list) /\ list \in [1 .. Len(list) -> S]
  BY LenProperties
<1>2. list \in Bijection(1 .. Len(list), ToSet(list))
  BY <1>1 DEF Bijection, Injection, Surjection, ToSet, NoRepeat, IsInjective
<1>3. ExistsBijection(1 .. Len(list), ToSet(list))
  BY <1>2 DEF ExistsBijection
<1>4. IsFiniteSet(1 .. Len(list)) /\ Cardinality(1 .. Len(list)) = Len(list)
  BY <1>1, FS_Interval
<1> QED
  BY <1>3, <1>4, FS_Bijection

\* Whoever comes after an element of D is in D as well.
Closed(list, D) ==
    \A p, q \in 1 .. Len(list) : p < q /\ list[p] \in D => list[q] \in D

LEMMA RemoveFirstClosed ==
    ASSUME NEW S, NEW list \in Seq(S), NoRepeat(list), NEW e, InList(list, e),
           NEW D, Closed(list, D)
    PROVE  Closed(RemoveFirst(list, e), D)
<1>1. PICK k \in 1 .. Len(list) : list[k] = e
  BY DEF InList
<1> DEFINE rest == RemoveAt(list, k)
<1>2. RemoveFirst(list, e) = rest
  BY <1>1, RemoveFirstPlace
<1>3. Len(list) \in Nat
  BY LenProperties
<1>4. /\ Len(rest) = Len(list) - 1
      /\ \A i \in 1 .. Len(list) - 1 : rest[i] = IF i < k THEN list[i] ELSE list[i + 1]
  BY RemoveAtProperties
<1> HIDE DEF rest
<1>5. ASSUME NEW p \in 1 .. Len(rest), NEW q \in 1 .. Len(rest), p < q, rest[p] \in D
      PROVE  rest[q] \in D
  <2> DEFINE at(i) == IF i < k THEN i ELSE i + 1
  <2>1. /\ at(p) \in 1 .. Len(list) /\ at(q) \in 1 .. Len(list) /\ at(p) < at(q)
    BY <1>3, <1>4, <1>5
  <2>2. rest[p] = list[at(p)] /\ rest[q] = list[at(q)]
    BY <1>3, <1>4
  <2> HIDE DEF at
  <2> QED
    BY <1>5, <2>1, <2>2 DEF Closed
<1> QED
  BY <1>2, <1>5 DEF Closed

LEMMA AppendClosed ==
    ASSUME NEW S, NEW list \in Seq(S), NEW e \in S, ~InList(list, e),
           NEW D, Closed(list, D)
    PROVE  Closed(Append(list, e), D \cup {e})
<1>1. Len(list) \in Nat
  BY LenProperties
<1>2. /\ Len(Append(list, e)) = Len(list) + 1
      /\ \A i \in 1 .. Len(list) : Append(list, e)[i] = list[i]
      /\ Append(list, e)[Len(list) + 1] = e
  BY AppendProperties
<1> DEFINE longer == Append(list, e)
<1> HIDE DEF longer
<1>3. ASSUME NEW p \in 1 .. Len(longer), NEW q \in 1 .. Len(longer), p < q,
             longer[p] \in D \cup {e}
      PROVE  longer[q] \in D \cup {e}
  <2>1. CASE q = Len(list) + 1
    BY <1>2, <2>1 DEF longer
  <2>2. CASE q # Len(list) + 1
    <3>1. p \in 1 .. Len(list) /\ q \in 1 .. Len(list)
      BY <1>1, <1>2, <1>3, <2>2 DEF longer
    <3>2. list[p] \in D \cup {e} /\ list[p] # e /\ longer[q] = list[q]
      BY <1>2, <1>3, <3>1 DEF longer, InList
    <3> QED
      BY <1>3, <3>1, <3>2 DEF Closed
  <2> QED
    BY <2>1, <2>2
<1> QED
  BY <1>3 DEF Closed, longer

\* The elements that come after e.
Behind(list, e) ==
    {list[j] : j \in {k \in 1 .. Len(list) : \E i \in 1 .. k - 1 : list[i] = e}}

LEMMA BehindPlaces ==
    ASSUME NEW S, NEW list \in Seq(S), NEW e, NEW x
    PROVE  x \in Behind(list, e) <=>
             \E i, j \in 1 .. Len(list) : i < j /\ list[i] = e /\ list[j] = x
<1>1. Len(list) \in Nat
  BY LenProperties
<1>2. ASSUME x \in Behind(list, e)
      PROVE  \E i, j \in 1 .. Len(list) : i < j /\ list[i] = e /\ list[j] = x
  <2>1. PICK j \in 1 .. Len(list) : (\E i \in 1 .. j - 1 : list[i] = e) /\ list[j] = x
    BY <1>2 DEF Behind
  <2>2. PICK i \in 1 .. j - 1 : list[i] = e
    BY <2>1
  <2>3. i \in 1 .. Len(list) /\ i < j
    BY <1>1
  <2> QED
    BY <2>1, <2>2, <2>3
<1>3. ASSUME NEW i \in 1 .. Len(list), NEW j \in 1 .. Len(list),
             i < j, list[i] = e, list[j] = x
      PROVE  x \in Behind(list, e)
  <2>1. i \in 1 .. j - 1
    BY <1>1, <1>3
  <2> QED
    BY <1>3, <2>1 DEF Behind
<1> QED
  BY <1>2, <1>3

\* A node at the tail comes after all others, and none after it.
LEMMA AppendBehind ==
    ASSUME NEW S, NEW list \in Seq(S), NEW e \in S, ~InList(list, e)
    PROVE  /\ Behind(Append(list, e), e) = {}
           /\ \A m : InList(list, m) =>
                 Behind(Append(list, e), m) = Behind(list, m) \cup {e}
<1> DEFINE longer == Append(list, e)
<1>1. Len(list) \in Nat
  BY LenProperties
<1>2. /\ longer \in Seq(S) /\ Len(longer) = Len(list) + 1
      /\ \A i \in 1 .. Len(list) : longer[i] = list[i]
      /\ longer[Len(list) + 1] = e
  BY AppendProperties
<1> HIDE DEF longer
<1>3. \A i \in 1 .. Len(longer) : longer[i] = e => i = Len(list) + 1
  BY <1>1, <1>2 DEF InList
<1>4. Behind(longer, e) = {}
  <2> SUFFICES ASSUME NEW x \in Behind(longer, e) PROVE FALSE
    OBVIOUS
  <2>1. PICK i, j \in 1 .. Len(longer) : i < j /\ longer[i] = e
    BY <1>2, BehindPlaces
  <2> QED
    BY <1>1, <1>2, <1>3, <2>1
<1>5. ASSUME NEW m, InList(list, m)
      PROVE  Behind(longer, m) = Behind(list, m) \cup {e}
  <2>1. PICK k \in 1 .. Len(list) : list[k] = m
    BY <1>5 DEF InList
  <2>2. e \in Behind(longer, m)
    <3>1. /\ k \in 1 .. Len(longer) /\ Len(list) + 1 \in 1 .. Len(longer)
          /\ k < Len(list) + 1 /\ longer[k] = m
      BY <1>1, <1>2, <2>1
    <3> QED
      BY <1>2, <3>1, BehindPlaces
  <2>3. ASSUME NEW x \in Behind(list, m) PROVE x \in Behind(longer, m)
    <3>1. PICK i, j \in 1 .. Len(list) : i < j /\ list[i] = m /\ list[j] = x
      BY <2>3, BehindPlaces
    <3>2. i \in 1 .. Len(longer) /\ j \in 1 .. Len(longer)
      BY <1>1, <1>2
    <3> QED
      BY <1>2, <3>1, <3>2, BehindPlaces
  <2>4. ASSUME NEW x \in Behind(longer, m), x # e PROVE x \in Behind(list, m)
    <3>1. PICK i, j \in 1 .. Len(longer) : i < j /\ longer[i] = m /\ longer[j] = x
      BY <1>2, <2>4, BehindPlaces
    <3>2. j \in 1 .. Len(list) /\ i \in 1 .. Len(list)
      BY <1>1, <1>2, <2>4, <3>1
    <3> QED
      BY <1>2, <3>1, <3>2, BehindPlaces
  <2> QED
    BY <2>2, <2>3, <2>4
<1> QED
  BY <1>4, <1>5 DEF longer

\* An element that is taken out comes after no other, the rest is as before.
LEMMA RemoveFirstBehind ==
    ASSUME NEW S, NEW list \in Seq(S), NoRepeat(list), NEW e, InList(list, e),
           NEW m, m # e
    PROVE  Behind(RemoveFirst(list, e), m) = Behind(list, m) \ {e}
<1>1. PICK k \in 1 .. Len(list) : list[k] = e
  BY DEF InList
<1> DEFINE rest == RemoveAt(list, k)
           up(i) == IF i < k THEN i ELSE i + 1
           down(i) == IF i < k THEN i ELSE i - 1
<1>2. RemoveFirst(list, e) = rest
  BY <1>1, RemoveFirstPlace
<1>3. Len(list) \in Nat
  BY LenProperties
<1>4. /\ rest \in Seq(S)
      /\ Len(rest) = Len(list) - 1
      /\ \A i \in 1 .. Len(list) - 1 : rest[i] = IF i < k THEN list[i] ELSE list[i + 1]
  BY RemoveAtProperties
<1> HIDE DEF rest
<1>5. ASSUME NEW x \in Behind(rest, m)
      PROVE  x \in Behind(list, m) /\ x # e
  <2>1. PICK i, j \in 1 .. Len(rest) : i < j /\ rest[i] = m /\ rest[j] = x
    BY <1>4, <1>5, BehindPlaces
  <2>2. /\ up(i) \in 1 .. Len(list) /\ up(j) \in 1 .. Len(list)
        /\ up(i) < up(j) /\ up(j) # k
    BY <1>3, <1>4, <2>1
  <2>3. list[up(i)] = m /\ list[up(j)] = x
    BY <1>3, <1>4, <2>1
  <2> HIDE DEF up
  <2> QED
    BY <1>1, <2>2, <2>3, BehindPlaces DEF NoRepeat
<1>6. ASSUME NEW x \in Behind(list, m), x # e
      PROVE  x \in Behind(rest, m)
  <2>1. PICK i, j \in 1 .. Len(list) : i < j /\ list[i] = m /\ list[j] = x
    BY <1>6, BehindPlaces
  <2>2. i # k /\ j # k
    BY <1>1, <1>6, <2>1
  <2>3. /\ down(i) \in 1 .. Len(rest) /\ down(j) \in 1 .. Len(rest)
        /\ down(i) < down(j)
    BY <1>3, <1>4, <2>1, <2>2
  <2>4. rest[down(i)] = m /\ rest[down(j)] = x
    BY <1>3, <1>4, <2>1, <2>2
  <2> HIDE DEF down
  <2> QED
    BY <1>4, <2>3, <2>4, BehindPlaces
<1> QED
  BY <1>2, <1>5, <1>6

\* How many come after an element: all but the first after the first, fewer
\* after any other.
LEMMA BehindSize ==
    ASSUME NEW S, NEW list \in Seq(S), NoRepeat(list), NEW e, InList(list, e)
    PROVE  /\ IsFiniteSet(Behind(list, e))
           /\ Cardinality(Behind(list, e)) \in Nat
           /\ e \notin Behind(list, e)
           /\ list[1] \notin Behind(list, e)
           /\ e = list[1] =>
                /\ Behind(list, e) = ToSet(list) \ {e}
                /\ Cardinality(Behind(list, e)) = Len(list) - 1
           /\ e # list[1] => Cardinality(Behind(list, e)) < Len(list) - 1
<1>1. Len(list) \in Nat /\ 1 \in 1 .. Len(list) /\ DOMAIN list = 1 .. Len(list)
  BY LenProperties DEF InList
<1>2. IsFiniteSet(ToSet(list)) /\ Cardinality(ToSet(list)) = Len(list)
  BY NoRepeatCardinality
<1>3. list[1] \in ToSet(list) /\ e \in ToSet(list)
  BY <1>1 DEF ToSet, InList
<1>4. Behind(list, e) \subseteq ToSet(list)
  BY <1>1, BehindPlaces DEF ToSet
<1>5. e \notin Behind(list, e)
  BY BehindPlaces DEF NoRepeat
<1>6. list[1] \notin Behind(list, e)
  <2> SUFFICES ASSUME list[1] \in Behind(list, e) PROVE FALSE
    OBVIOUS
  <2>1. PICK i, j \in 1 .. Len(list) : i < j /\ list[j] = list[1]
    BY BehindPlaces
  <2> QED
    BY <1>1, <2>1 DEF NoRepeat
<1>7. IsFiniteSet(Behind(list, e)) /\ Cardinality(Behind(list, e)) \in Nat
  BY <1>2, <1>4, FS_Subset, FS_CardinalityType
<1>8. /\ IsFiniteSet(ToSet(list) \ {list[1]})
      /\ Cardinality(ToSet(list) \ {list[1]}) = Len(list) - 1
  BY <1>2, <1>3, FS_RemoveElement
<1>9. CASE e = list[1]
  <2>1. ASSUME NEW x \in ToSet(list), x # e PROVE x \in Behind(list, e)
    <3>1. PICK j \in 1 .. Len(list) : list[j] = x
      BY <1>1 DEF ToSet
    <3>2. 1 < j
      BY <1>9, <2>1, <3>1
    <3> QED
      BY <1>1, <1>9, <3>1, <3>2, BehindPlaces
  <2>2. Behind(list, e) = ToSet(list) \ {list[1]}
    BY <1>4, <1>5, <1>9, <2>1
  <2> QED
    BY <1>5, <1>6, <1>7, <1>8, <1>9, <2>2
<1>10. CASE e # list[1]
  <2> DEFINE few == (ToSet(list) \ {list[1]}) \ {e}
  <2>1. IsFiniteSet(few) /\ Cardinality(few) = Len(list) - 1 - 1
    BY <1>3, <1>8, <1>10, FS_RemoveElement
  <2>2. Behind(list, e) \in SUBSET few
    BY <1>4, <1>5, <1>6
  <2> HIDE DEF few
  <2>3. Cardinality(Behind(list, e)) <= Len(list) - 1 - 1
    BY <2>1, <2>2, FS_Subset
  <2> QED
    BY <1>1, <1>5, <1>6, <1>7, <1>10, <2>3
<1> QED
  BY <1>9, <1>10
=============================================================================
