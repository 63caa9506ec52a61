--------------------------- MODULE SequenceFacts ---------------------------
(***************************************************************************)
(* Lemmas about sequences that the proofs of several components need:      *)
(* smallest index, removal of one element, stacks of calls, and sums of    *)
(* lengths.                                                                *)
(***************************************************************************)
EXTENDS Sums, SequencesExt, FiniteSetsExt, SequenceTheorems,
        WellFoundedInduction, TLAPS

-----------------------------------------------------------------------------
(* The library's Min and RemoveFirst *)

\* A set of naturals has a smallest element.
LEMMA MinOfNats ==
    ASSUME NEW I \in SUBSET Nat, I # {}
    PROVE  Min(I) \in I /\ \A i \in I : Min(I) <= i
<1>1. PICK x \in I : \A y \in I : ~(<<y, x>> \in OpToRel(<, Nat))
  BY WFMin, NatLessThanWellFounded
<1>2. ASSUME NEW y \in Nat, NEW z \in Nat, y < z PROVE <<y, z>> \in OpToRel(<, Nat)
  BY <1>2, Zenon DEF OpToRel
<1>3. \A y \in I : x <= y
  <2> SUFFICES ASSUME NEW y \in I, ~(x <= y) PROVE FALSE
    OBVIOUS
  <2>1. y < x /\ x \in Nat /\ y \in Nat
    OBVIOUS
  <2> QED BY <1>1, <1>2, <2>1, Zenon
<1> QED BY <1>3 DEF Min

\* Induction over the numbers up to N, with a set in place of a predicate.
LEMMA UpTo ==
    ASSUME NEW N \in Nat, NEW G, 0 \in G, \A n \in 1..N : n - 1 \in G => n \in G
    PROVE  \A n \in 0..N : n \in G
<1> DEFINE Bad == (0..N) \ G
<1> SUFFICES ASSUME Bad # {} PROVE FALSE
  OBVIOUS
<1>1. Bad \in SUBSET Nat
  OBVIOUS
<1>2. PICK m \in Bad : \A i \in Bad : m <= i
  BY <1>1, MinOfNats
<1>3. m \in 1..N /\ m - 1 \in 0..N /\ ~(m <= m - 1)
  BY <1>2
<1>4. m - 1 \in G
  BY <1>2, <1>3
<1> QED BY <1>3, <1>4

\* The sequence without its k-th element.
LEMMA RemoveAtFacts ==
    ASSUME NEW S, NEW s \in Seq(S), NEW k \in 1..Len(s)
    PROVE  /\ RemoveAt(s, k) \in Seq(S) /\ Len(RemoveAt(s, k)) = Len(s) - 1
           /\ \A i \in 1..Len(s) - 1 : RemoveAt(s, k)[i] = IF i < k THEN s[i] ELSE s[i + 1]
<1> DEFINE a == SubSeq(s, 1, k - 1)
           b == SubSeq(s, k + 1, Len(s))
           r == a \o b
<1>5. a \in Seq(S) /\ Len(a) = k - 1 /\ \A i \in 1..k - 1 : a[i] = s[i]
  OBVIOUS
<1>6. b \in Seq(S) /\ Len(b) = Len(s) - k /\ \A i \in 1..Len(s) - k : b[i] = s[k + i]
  OBVIOUS
<1> HIDE DEF a, b
<1>7. /\ r \in Seq(S) /\ Len(r) = Len(s) - 1
      /\ \A i \in 1..Len(s) - 1 : r[i] = IF i < k THEN s[i] ELSE s[i + 1]
  <2>1. /\ r \in Seq(S) /\ Len(r) = Len(a) + Len(b)
        /\ \A i \in 1..Len(a) + Len(b) : r[i] = IF i <= Len(a) THEN a[i] ELSE b[i - Len(a)]
    BY <1>5, <1>6, ConcatProperties
  <2> DEFINE m == k - 1
             n == Len(s) - k
  <2>2. /\ m \in Nat /\ n \in Nat /\ m = k - 1 /\ m + n = Len(s) - 1
        /\ m = Len(a) /\ n = Len(b)
    BY <1>5, <1>6
  <2> HIDE DEF m, n, r
  <2>3. \A i \in 1..m + n : r[i] = IF i <= m THEN a[i] ELSE b[i - m]
    BY <2>1, <2>2
  <2>4. Len(r) = Len(s) - 1
    BY <2>1, <2>2
  <2>5. ASSUME NEW i \in 1..m + n, i <= m PROVE r[i] = s[i]
    <3>1. a[i] = s[i]
      BY <1>5, <2>2, <2>5
    <3> QED BY <2>3, <2>5, <3>1
  <2>6. ASSUME NEW i \in 1..m + n, i > m PROVE r[i] = s[i + 1]
    <3> DEFINE j == i - m
    <3>1. j \in 1..Len(s) - k /\ k + j = i + 1
      BY <2>2, <2>6
    <3>2. r[i] = b[j]
      <4>1. ~(i <= m)
        BY <2>2, <2>6
      <4> QED BY <2>3, <4>1, Zenon
    <3> HIDE DEF j
    <3>3. b[j] = s[k + j]
      BY <1>6, <3>1
    <3> QED BY <3>1, <3>2, <3>3
  <2>7. ASSUME NEW i \in 1..Len(s) - 1 PROVE r[i] = IF i < k THEN s[i] ELSE s[i + 1]
    <3>1. i \in 1..m + n /\ (i < k <=> i <= m)
      BY <2>2
    <3> QED BY <2>2, <2>5, <2>6, <3>1
  <2> QED BY <2>1, <2>4, <2>7
<1> QED BY <1>7 DEF RemoveAt, r, a, b

\* LinkedList.remove: the list loses the first l, and l itself when it was
\* there once.
Once(s) == \A i, j \in 1..Len(s) : s[i] = s[j] => i = j

\* An element that occurs once is gone once it is removed.
LEMMA RemoveFirstFacts ==
    ASSUME NEW S, NEW s \in Seq(S), NEW l, Once(s)
    PROVE  /\ RemoveFirst(s, l) \in Seq(S)
           /\ Once(RemoveFirst(s, l))
           /\ \A i \in 1..Len(RemoveFirst(s, l)) : RemoveFirst(s, l)[i] # l
           /\ \A i \in 1..Len(s) :
                s[i] # l => \E j \in 1..Len(RemoveFirst(s, l)) : RemoveFirst(s, l)[j] = s[i]
<1>1. CASE ~\E i \in 1..Len(s) : s[i] = l
  BY <1>1 DEF RemoveFirst
<1>2. CASE \E i \in 1..Len(s) : s[i] = l
  <2> DEFINE I == {i \in 1..Len(s) : s[i] = l}
  <2>1. I # {} /\ I \in SUBSET Nat
    BY <1>2
  <2>2. PICK k \in 1..Len(s) : k = Min(I) /\ s[k] = l
    BY <2>1, MinOfNats
  <2>3. SelectInSeq(s, LAMBDA v : v = l) = k
    BY <2>1, <2>2 DEF SelectInSeq
  <2> DEFINE r == RemoveAt(s, k)
  <2>4. RemoveFirst(s, l) = r
    BY <1>2, <2>3 DEF RemoveFirst
  <2>7. /\ r \in Seq(S) /\ Len(r) = Len(s) - 1
        /\ \A i \in 1..Len(s) - 1 : r[i] = IF i < k THEN s[i] ELSE s[i + 1]
    BY RemoveAtFacts
  <2> HIDE DEF r
  <2>8. Once(r)
    BY <2>7 DEF Once
  <2>9. \A i \in 1..Len(r) : r[i] # l
    BY <2>2, <2>7 DEF Once
  <2>10. ASSUME NEW i \in 1..Len(s), s[i] # l PROVE \E j \in 1..Len(r) : r[j] = s[i]
    <3>1. Len(s) \in Nat /\ i # k
      BY <2>2, <2>10
    <3>2. CASE i < k
      <4>1. i \in 1..Len(s) - 1
        BY <3>1, <3>2
      <4> QED BY <2>7, <3>2, <4>1
    <3>3. CASE i > k
      <4>1. i - 1 \in 1..Len(s) - 1 /\ ~(i - 1 < k) /\ (i - 1) + 1 = i
        BY <3>1, <3>3
      <4> QED BY <2>7, <4>1
    <3> QED BY <3>1, <3>2, <3>3
  <2> QED BY <2>4, <2>7, <2>8, <2>9, <2>10
<1> QED BY <1>1, <1>2

-----------------------------------------------------------------------------
(* Stacks, whose last frame is the top *)

\* The last frame is replaced.
LEMMA SetTopFacts ==
    ASSUME NEW F, NEW s \in Seq(F), s # << >>, NEW f \in F
    PROVE  LET s2 == [s EXCEPT ![Len(s)] = f]
           IN  /\ s2 \in Seq(F) /\ Len(s2) = Len(s) /\ s2 # << >>
               /\ s2[Len(s)] = f
               /\ \A i \in 1..Len(s) : i < Len(s) => s2[i] = s[i]
<1> DEFINE s2 == [s EXCEPT ![Len(s)] = f]
<1>1. Len(s) \in Nat /\ Len(s) >= 1 /\ DOMAIN s = 1..Len(s)
  OBVIOUS
<1>2. s2 \in Seq(F) /\ Len(s2) = Len(s)
  BY <1>1, ExceptSeq
<1>3. s2 # << >>
  BY <1>1, <1>2
<1>4. Len(s) \in DOMAIN s
  BY <1>1
<1>5. s2[Len(s)] = f
  BY <1>4
<1>6. ASSUME NEW i \in 1..Len(s), i < Len(s) PROVE s2[i] = s[i]
  <2>1. i \in DOMAIN s
    BY <1>1
  <2>2. i # Len(s)
    BY <1>6
  <2> QED BY <2>1, <2>2
<1> QED BY <1>2, <1>3, <1>5, <1>6

\* A frame is pushed.
LEMMA PushFacts ==
    ASSUME NEW F, NEW s \in Seq(F), NEW f \in F
    PROVE  /\ Append(s, f) \in Seq(F) /\ Len(Append(s, f)) = Len(s) + 1
           /\ Append(s, f) # << >> /\ Append(s, f)[Len(s) + 1] = f
           /\ \A i \in 1..Len(s) : Append(s, f)[i] = s[i]
BY AppendProperties

\* The last frame is dropped.
LEMMA FrontFacts ==
    ASSUME NEW F, NEW s \in Seq(F), s # << >>
    PROVE  /\ Front(s) \in Seq(F) /\ Len(Front(s)) = Len(s) - 1
           /\ Front(s) = << >> <=> Len(s) = 1
           /\ \A i \in 1..Len(s) - 1 : Front(s)[i] = s[i]
<1>1. Len(s) \in Nat /\ Len(s) >= 1
  OBVIOUS
<1>2. /\ Front(s) \in Seq(F) /\ Len(Front(s)) = Len(s) - 1
      /\ \A i \in 1..Len(s) - 1 : Front(s)[i] = s[i]
  <2> DEFINE n == Len(s) - 1
  <2>1. n \in Nat /\ n \in Int /\ 1 \in Int /\ \A i \in 1..n : s[i] \in F
    BY <1>1
  <2>2. Front(s) = SubSeq(s, 1, n)
    BY DEF Front
  <2> HIDE DEF n
  <2>3. /\ SubSeq(s, 1, n) \in Seq(F)
        /\ Len(SubSeq(s, 1, n)) = IF 1 <= n THEN n - 1 + 1 ELSE 0
        /\ \A i \in 1..n - 1 + 1 : SubSeq(s, 1, n)[i] = s[1 + i - 1]
    BY <2>1, SubSeqProperties
  <2>4. Len(Front(s)) = n
    BY <2>1, <2>2, <2>3
  <2>5. ASSUME NEW i \in 1..n PROVE Front(s)[i] = s[i]
    <3>1. i \in 1..n - 1 + 1 /\ 1 + i - 1 = i
      BY <2>1
    <3> QED BY <2>2, <2>3, <3>1
  <2> QED BY <2>2, <2>3, <2>4, <2>5 DEF n
<1> QED BY <1>1, <1>2

\* The elements of a concatenation.
LEMMA ConcatFacts ==
    ASSUME NEW S, NEW s \in Seq(S), NEW t \in Seq(S)
    PROVE  /\ s \o t \in Seq(S) /\ Len(s \o t) = Len(s) + Len(t)
           /\ \A i \in 1..Len(s) : (s \o t)[i] = s[i]
           /\ \A i \in 1..Len(t) : (s \o t)[Len(s) + i] = t[i]
<1> DEFINE m == Len(s)
           n == Len(t)
           c == s \o t
<1>1. m \in Nat /\ n \in Nat
  OBVIOUS
<1>2. /\ c \in Seq(S) /\ Len(c) = m + n
      /\ \A i \in 1..m + n : c[i] = IF i <= m THEN s[i] ELSE t[i - m]
  BY ConcatProperties
<1> HIDE DEF m, n, c
<1>3. \A i \in 1..m : c[i] = s[i]
  <2>1. \A i \in 1..m : i \in 1..m + n /\ i <= m
    BY <1>1
  <2> QED BY <1>2, <2>1
<1>4. ASSUME NEW i \in 1..n PROVE c[m + i] = t[i]
  <2>1. m + i \in 1..m + n /\ ~(m + i <= m) /\ (m + i) - m = i
    BY <1>1
  <2> QED BY <1>2, <2>1
<1> QED BY <1>2, <1>3, <1>4 DEF m, n, c


-----------------------------------------------------------------------------
(* The elements of a list *)

\* Appending adds one element.
LEMMA AppendedSet ==
    ASSUME NEW S, NEW s \in Seq(S), NEW e \in S
    PROVE  ToSet(Append(s, e)) = ToSet(s) \cup {e}
<1> DEFINE q == Append(s, e)
           n == Len(s)
<1>1. n \in Nat /\ DOMAIN s = 1..n
  OBVIOUS
<1>2. DOMAIN q = 1..n + 1 /\ q[n + 1] = e /\ \A i \in 1..n : q[i] = s[i]
  BY AppendProperties, LenProperties
<1>3. 1..n + 1 = (1..n) \cup {n + 1}
  BY <1>1
<1> HIDE DEF q, n
<1>4. e \in ToSet(q) /\ \A i \in 1..n : q[i] \in ToSet(s) /\ s[i] \in ToSet(q)
  BY <1>1, <1>2, <1>3 DEF ToSet
<1>5. ASSUME NEW x \in ToSet(q) PROVE x \in ToSet(s) \cup {e}
  <2>1. PICK i \in 1..n + 1 : x = q[i]
    BY <1>2, <1>5 DEF ToSet
  <2> QED BY <1>2, <1>3, <1>4, <2>1
<1>6. ASSUME NEW x \in ToSet(s) PROVE x \in ToSet(q)
  <2>1. PICK i \in 1..n : x = s[i]
    BY <1>1, <1>6 DEF ToSet
  <2> QED BY <1>4, <2>1
<1> QED BY <1>4, <1>5, <1>6 DEF q

\* A list is its head and its tail.
LEMMA HeadTailSet ==
    ASSUME NEW S, NEW s \in Seq(S), s # << >>
    PROVE  ToSet(s) = {Head(s)} \cup ToSet(Tail(s))
<1> DEFINE q == Tail(s)
           n == Len(q)
<1>1. /\ q \in Seq(S) /\ n \in Nat /\ DOMAIN q = 1..n /\ DOMAIN s = 1..n + 1 /\ Head(s) = s[1]
      /\ \A i \in 1..n : q[i] = s[i + 1]
  BY HeadTailProperties, LenProperties
<1> HIDE DEF q, n
<1>2. 1 \in 1..n + 1 /\ \A i \in 1..n : i + 1 \in 1..n + 1
  BY <1>1
<1>3. Head(s) \in ToSet(s) /\ \A i \in 1..n : q[i] \in ToSet(s)
  BY <1>1, <1>2 DEF ToSet
<1>4. ASSUME NEW x \in ToSet(s) PROVE x = Head(s) \/ x \in ToSet(q)
  <2>1. PICK i \in 1..n + 1 : x = s[i]
    BY <1>1, <1>4 DEF ToSet
  <2>2. CASE i = 1
    BY <1>1, <2>1, <2>2
  <2>3. CASE i # 1
    <3>1. i - 1 \in 1..n /\ (i - 1) + 1 = i
      BY <1>1, <2>1, <2>3
    <3>2. q[i - 1] = x
      BY <1>1, <2>1, <3>1
    <3> QED BY <1>1, <3>1, <3>2 DEF ToSet
  <2> QED BY <2>2, <2>3
<1>5. ASSUME NEW x \in ToSet(q) PROVE x \in ToSet(s)
  <2>1. PICK i \in 1..n : x = q[i]
    BY <1>1, <1>5 DEF ToSet
  <2> QED BY <1>3, <2>1
<1> QED BY <1>3, <1>4, <1>5 DEF q

\* A concatenation holds what its parts hold.
LEMMA ConcatSet ==
    ASSUME NEW S, NEW s \in Seq(S), NEW t \in Seq(S)
    PROVE  s \o t \in Seq(S) /\ ToSet(s \o t) = ToSet(s) \cup ToSet(t)
<1> DEFINE m == Len(s)
           n == Len(t)
           c == s \o t
<1>1. m \in Nat /\ n \in Nat /\ DOMAIN s = 1..m /\ DOMAIN t = 1..n
  OBVIOUS
<1>2. c \in Seq(S) /\ Len(c) = m + n
  BY ConcatFacts
<1>3. (\A i \in 1..m : c[i] = s[i]) /\ \A i \in 1..n : c[m + i] = t[i]
  BY ConcatFacts
<1>4. DOMAIN c = 1..m + n
  BY <1>2, LenProperties
<1> HIDE DEF m, n, c
<1>5. ASSUME NEW x \in ToSet(c) PROVE x \in ToSet(s) \/ x \in ToSet(t)
  <2>1. PICK i \in 1..m + n : x = c[i]
    BY <1>4 DEF ToSet
  <2>2. CASE i <= m
    BY <1>1, <1>3, <2>1, <2>2 DEF ToSet
  <2>3. CASE ~(i <= m)
    <3>1. i - m \in 1..n /\ m + (i - m) = i
      BY <1>1, <2>3
    <3>2. x = t[i - m]
      BY <1>3, <2>1, <3>1
    <3> QED BY <1>1, <3>1, <3>2 DEF ToSet
  <2> QED BY <2>2, <2>3
<1>6. ASSUME NEW i \in 1..m PROVE s[i] \in ToSet(c)
  <2>1. i \in 1..m + n
    BY <1>1
  <2> QED BY <1>3, <1>4, <2>1 DEF ToSet
<1>7. ASSUME NEW i \in 1..n PROVE t[i] \in ToSet(c)
  <2>1. m + i \in 1..m + n
    BY <1>1
  <2> QED BY <1>3, <1>4, <2>1 DEF ToSet
<1>8. ToSet(s) \subseteq ToSet(c) /\ ToSet(t) \subseteq ToSet(c)
  BY <1>1, <1>6, <1>7 DEF ToSet
<1>9. ToSet(c) = ToSet(s) \cup ToSet(t)
  BY <1>5, <1>8
<1> QED BY <1>2, <1>9 DEF c

-----------------------------------------------------------------------------
(* Sums *)

\* The offsets of a list of lengths begin with 0, and each adds one length.
LEMMA OffsetsFacts ==
    ASSUME NEW lens \in Seq(Int)
    PROVE  /\ Offsets(lens) \in [0..Len(lens) -> Int]
           /\ Offsets(lens)[0] = 0
           /\ \A n \in 1..Len(lens) : Offsets(lens)[n] = Offsets(lens)[n - 1] + lens[n]
<1> DEFINE N == Len(lens)
           Is(s, n) == /\ s = [k \in 0..n |-> IF k = 0 THEN 0 ELSE s[k - 1] + lens[k]]
                       /\ s \in [0..n -> Int]
           G == {n \in 0..N : \E s : Is(s, n)}
<1>1. N \in Nat /\ \A k \in 1..N : lens[k] \in Int
  OBVIOUS
<1>2. 0 \in G
  <2> DEFINE z == [k \in 0..0 |-> 0]
  <2>1. \A k \in 0..0 : k = 0
    OBVIOUS
  <2>2. DOMAIN z = 0..0 /\ \A k \in 0..0 : z[k] = IF k = 0 THEN 0 ELSE z[k - 1] + lens[k]
    BY <2>1
  <2>3. z \in [0..0 -> Int]
    OBVIOUS
  <2> HIDE DEF z
  <2>4. z = [k \in 0..0 |-> IF k = 0 THEN 0 ELSE z[k - 1] + lens[k]]
    BY <2>2, <2>3
  <2> QED BY <1>1, <2>3, <2>4
<1>3. ASSUME NEW n \in 1..N, n - 1 \in G PROVE n \in G
  <2>1. PICK s : Is(s, n - 1)
    BY <1>3
  <2> DEFINE z == [k \in 0..n |-> IF k = n THEN s[n - 1] + lens[n] ELSE s[k]]
  <2>2. n \in 0..N /\ n - 1 \in Nat /\ n - 1 \in 0..n - 1 /\ lens[n] \in Int
    BY <1>1
  <2>3. z \in [0..n -> Int]
    BY <2>1, <2>2
  <2>4. ASSUME NEW k \in 0..n PROVE z[k] = IF k = 0 THEN 0 ELSE z[k - 1] + lens[k]
    <3>1. CASE k = n
      <4>1. n - 1 \in 0..n /\ n - 1 # n /\ n # 0
        BY <2>2
      <4> QED BY <3>1, <4>1
    <3>2. CASE k # n
      <4>1. k \in 0..n - 1 /\ (k # 0 => k - 1 \in 0..n /\ k - 1 # n)
        BY <2>2, <3>2
      <4>2. z[k] = s[k] /\ (k # 0 => z[k - 1] = s[k - 1])
        BY <3>2, <4>1
      <4>3. s[k] = IF k = 0 THEN 0 ELSE s[k - 1] + lens[k]
        BY <2>1, <4>1
      <4> QED BY <4>2, <4>3
    <3> QED BY <3>1, <3>2
  <2> HIDE DEF z
  <2>5. Is(z, n)
    BY <2>3, <2>4
  <2> QED BY <2>2, <2>5
<1>4. PICK s : Is(s, N)
  <2> HIDE DEF G
  <2>1. \A n \in 0..N : n \in G
    BY <1>1, <1>2, <1>3, UpTo
  <2>2. N \in G
    BY <1>1, <2>1
  <2> QED BY <2>2 DEF G
<1> DEFINE o == Offsets(lens)
<1>5. o = [k \in 0..N |-> IF k = 0 THEN 0 ELSE o[k - 1] + lens[k]]
  BY <1>4 DEF Offsets
<1> HIDE DEF o, N
<1>6. DOMAIN o = 0..N /\ \A k \in 0..N : o[k] = IF k = 0 THEN 0 ELSE o[k - 1] + lens[k]
  BY <1>5, Zenon
<1>7. o[0] = 0 /\ \A n \in 1..N : o[n] = o[n - 1] + lens[n]
  BY <1>1, <1>6
<1>8. \A n \in 0..N : o[n] \in Int
  <2> DEFINE H == {n \in 0..N : o[n] \in Int}
  <2>1. 0 \in H
    BY <1>1, <1>7
  <2>2. ASSUME NEW n \in 1..N, n - 1 \in H PROVE n \in H
    BY <1>1, <1>7, <2>2
  <2> HIDE DEF H
  <2>3. \A n \in 0..N : n \in H
    BY <1>1, <2>1, <2>2, UpTo
  <2> QED BY <2>3 DEF H
<1>9. o \in [0..N -> Int]
  BY <1>5, <1>6, <1>8
<1> QED BY <1>7, <1>9 DEF o, N

\* Lengths that are not negative have offsets that are not.
LEMMA OffsetsNat ==
    ASSUME NEW lens \in Seq(Nat)
    PROVE  Offsets(lens) \in [0..Len(lens) -> Nat]
<1> DEFINE N == Len(lens)
           o == Offsets(lens)
           G == {n \in 0..N : o[n] \in Nat}
<1>1. N \in Nat /\ lens \in Seq(Int) /\ \A n \in 1..N : lens[n] \in Nat
  OBVIOUS
<1>2. o \in [0..N -> Int] /\ o[0] = 0 /\ \A n \in 1..N : o[n] = o[n - 1] + lens[n]
  BY <1>1, OffsetsFacts
<1> HIDE DEF N, o
<1>3. 0 \in G
  BY <1>1, <1>2
<1>4. ASSUME NEW n \in 1..N, n - 1 \in G PROVE n \in G
  <2>1. o[n - 1] \in Nat /\ lens[n] \in Nat /\ o[n] = o[n - 1] + lens[n] /\ n \in 0..N
    BY <1>1, <1>2, <1>4
  <2> QED BY <2>1
<1> HIDE DEF G
<1>5. \A n \in 0..N : n \in G
  BY <1>1, <1>3, <1>4, UpTo
<1>6. \A n \in 0..N : o[n] \in Nat
  BY <1>5 DEF G
<1> QED BY <1>2, <1>6 DEF N, o

\* Two lists that agree up to n have the same offsets up to n.
LEMMA SameOffsets ==
    ASSUME NEW a \in Seq(Int), NEW b \in Seq(Int), NEW n \in Nat, n <= Len(a), n <= Len(b),
           \A i \in 1..n : a[i] = b[i]
    PROVE  \A i \in 0..n : Offsets(a)[i] = Offsets(b)[i]
<1> DEFINE o == Offsets(a)
           p == Offsets(b)
           G == {i \in 0..n : o[i] = p[i]}
<1>1. o[0] = 0 /\ p[0] = 0 /\ \A i \in 1..n : o[i] = o[i - 1] + a[i] /\ p[i] = p[i - 1] + b[i]
  <2>1. \A i \in 1..n : i \in 1..Len(a) /\ i \in 1..Len(b)
    OBVIOUS
  <2> QED BY <2>1, OffsetsFacts
<1> HIDE DEF o, p
<1>2. 0 \in G
  BY <1>1
<1>3. ASSUME NEW i \in 1..n, i - 1 \in G PROVE i \in G
  BY <1>1, <1>3
<1> HIDE DEF G
<1>4. \A i \in 0..n : i \in G
  BY <1>2, <1>3, UpTo
<1> QED BY <1>4 DEF G, o, p

\* The first n of a list.
LEMMA FirstN ==
    ASSUME NEW S, NEW s \in Seq(S), NEW n \in 0..Len(s)
    PROVE  /\ SubSeq(s, 1, n) \in Seq(S) /\ Len(SubSeq(s, 1, n)) = n
           /\ DOMAIN SubSeq(s, 1, n) = 1..n /\ \A i \in 1..n : SubSeq(s, 1, n)[i] = s[i]
<1>1. n \in Nat /\ n \in Int /\ 1 \in Int /\ \A i \in 1..n : s[i] \in S
  OBVIOUS
<1>2. /\ SubSeq(s, 1, n) \in Seq(S) /\ Len(SubSeq(s, 1, n)) = (IF 1 <= n THEN n - 1 + 1 ELSE 0)
      /\ \A i \in 1..(n - 1 + 1) : SubSeq(s, 1, n)[i] = s[1 + i - 1]
  BY <1>1, SubSeqProperties
<1>3. Len(SubSeq(s, 1, n)) = n
  BY <1>1, <1>2
<1>4. \A i \in 1..n : i \in 1..(n - 1 + 1) /\ 1 + i - 1 = i
  BY <1>1
<1> QED BY <1>2, <1>3, <1>4, LenProperties
=============================================================================
