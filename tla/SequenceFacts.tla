----------------------------- MODULE SequenceFacts -----------------------------
(***************************************************************************)
(* Facts about naturals and sequences the proofs about the engine rest on, *)
(* that the library's theorem modules do not state: the least element of a *)
(* set of naturals, the Max of FiniteSetsExt and the RemoveAt of           *)
(* SequencesExt.                                                           *)
(***************************************************************************)
EXTENDS SequencesExt, Integers, TLAPS, SequenceTheorems, WellFoundedInduction

\* A non-empty set of naturals has a least element: it stands in for induction, a
\* smallest counterexample being refuted instead.
LEMMA LeastElement ==
  ASSUME NEW T \in SUBSET Nat, T # {}
  PROVE  \E n \in T : \A m \in T : n <= m
<1> DEFINE R == {p \in Nat \X Nat : p[1] < p[2]}
<1>1. IsWellFoundedOn(R, Nat)
  BY NatLessThanWellFounded DEF OpToRel
<1>2. PICK n \in T : \A m \in T : <<m, n>> \notin R
  <2> HIDE DEF R
  <2> QED BY <1>1, WFMin
<1>3. ASSUME NEW m \in T PROVE n <= m
  <2>1. <<m, n>> \notin R
    BY <1>2
  <2>2. m \in Nat /\ n \in Nat
    OBVIOUS
  <2>3. ~ (m < n)
    BY <2>1, <2>2
  <2> QED BY <2>2, <2>3
<1> QED BY <1>3

\* Finitely many naturals have an upper bound.
LEMMA Bounded ==
  ASSUME NEW n \in Nat, NEW f \in [1..n -> Nat]
  PROVE  \E b \in Nat : \A i \in 1..n : f[i] <= b
<1> DEFINE Bounds(k, b) == \A i \in 1..k : f[i] <= b
           Unbounded == {k \in 0..n : \A b \in Nat : ~ Bounds(k, b)}
<1>1. ASSUME Unbounded # {} PROVE FALSE
  <2>0. Unbounded \in SUBSET Nat
    OBVIOUS
  <2>1. PICK k \in Unbounded : \A j \in Unbounded : k <= j
    <3> HIDE DEF Unbounded
    <3> QED BY <1>1, <2>0, LeastElement
  <2>2. k # 0
    <3>1. Bounds(0, 0)
      OBVIOUS
    <3> QED BY <3>1, <2>1
  <2>3. k - 1 \in 0..n /\ k \in 1..n
    BY <2>2
  <2>4. PICK b \in Nat : Bounds(k - 1, b)
    <3>1. k - 1 \notin Unbounded
      <4> HIDE DEF Unbounded
      <4> QED BY <2>0, <2>1, <2>3
    <3> QED BY <3>1, <2>3
  <2>5. f[k] \in Nat /\ b + f[k] \in Nat
    BY <2>3
  <2>6. Bounds(k, b + f[k])
    <3> SUFFICES ASSUME NEW i \in 1..k PROVE f[i] <= b + f[k]
      OBVIOUS
    <3>1. f[i] \in Nat
      BY <2>3
    <3>2. CASE i = k
      BY <3>2, <2>5
    <3>3. CASE i # k
      <4>1. i \in 1..(k-1)
        BY <3>3, <2>3
      <4>2. f[i] <= b
        BY <4>1, <2>4
      <4> QED BY <4>2, <2>5, <3>1
    <3> QED BY <3>2, <3>3
  <2> QED BY <2>5, <2>6
<1>2. n \notin Unbounded
  BY <1>1
<1> QED BY <1>2

\* Max of the ids a task holds, and 0, is one of them and none is larger: the
\* max_by of durable_mutation is well defined.
LEMMA Maximum ==
  ASSUME NEW n \in Nat, NEW f \in [1..n -> Nat],
         NEW S, S = {0} \cup {f[i] : i \in 1..n}
  PROVE  Max(S) \in Nat /\ Max(S) \in S /\ \A x \in S : x <= Max(S)
<1> DEFINE U == {b \in Nat : \A x \in S : x <= b}
<1>1. U # {} /\ S \subseteq Nat /\ 0 \in S
  <2>1. S \subseteq Nat /\ 0 \in S
    OBVIOUS
  <2>2. PICK b \in Nat : \A i \in 1..n : f[i] <= b
    BY Bounded
  <2>3. \A x \in S : x <= b
    BY <2>2
  <2> QED BY <2>1, <2>3
<1>2. PICK u \in U : \A b \in U : u <= b
  <2>1. U \in SUBSET Nat
    OBVIOUS
  <2> HIDE DEF U
  <2> QED BY <1>1, <2>1, LeastElement
<1>3. u \in S
  <2>1. CASE u = 0
    BY <1>1, <2>1
  <2>2. CASE u # 0
    <3>1. u - 1 \in Nat /\ ~ (u <= u - 1)
      BY <2>2
    <3>2. u - 1 \notin U
      <4> HIDE DEF U
      <4> QED BY <1>2, <3>1
    <3>3. PICK x \in S : ~ (x <= u - 1)
      BY <3>1, <3>2
    <3>4. x \in Nat /\ u \in Nat /\ x <= u
      <4>1. u \in Nat /\ \A y \in S : y <= u
        OBVIOUS
      <4> QED BY <1>1, <3>3, <4>1
    <3>5. x = u
      BY <3>1, <3>3, <3>4
    <3> QED BY <3>5
  <2> QED BY <2>1, <2>2
<1>4. u \in S /\ \A y \in S : u >= y
  BY <1>1, <1>2, <1>3
<1>5. Max(S) \in S /\ \A y \in S : Max(S) >= y
  BY <1>4 DEF Max
<1> QED BY <1>1, <1>5

\* Vec::remove(i): the entries before i stay, those after it move up by one.
LEMMA RemoveAtProperties ==
  ASSUME NEW S, NEW s \in Seq(S), NEW i \in 1..Len(s)
  PROVE  /\ RemoveAt(s, i) \in Seq(S)
         /\ Len(RemoveAt(s, i)) = Len(s) - 1
         /\ \A j \in 1..(Len(s) - 1) :
              RemoveAt(s, i)[j] = IF j < i THEN s[j] ELSE s[j + 1]
<1> DEFINE a == SubSeq(s, 1, i - 1)
           b == SubSeq(s, i + 1, Len(s))
<1>1. Len(s) \in Nat /\ i \in Nat /\ i >= 1 /\ i <= Len(s)
  BY LenProperties
<1>2. /\ a \in Seq(S) /\ Len(a) = i - 1
      /\ \A j \in 1..(i - 1) : a[j] = s[j]
  <2>1. \A j \in 1..(i - 1) : s[j] \in S
    BY <1>1, ElementOfSeq
  <2> QED BY <1>1, <2>1, SubSeqProperties
<1>3. /\ b \in Seq(S) /\ Len(b) = Len(s) - i
      /\ \A j \in 1..(Len(s) - i) : b[j] = s[i + j]
  <2>1. \A j \in (i + 1)..Len(s) : s[j] \in S
    BY <1>1, ElementOfSeq
  <2>2. i + 1 \in Int /\ Len(s) \in Int
    BY <1>1
  <2>3. /\ b \in Seq(S)
        /\ Len(b) = IF i + 1 <= Len(s) THEN Len(s) - (i + 1) + 1 ELSE 0
        /\ \A j \in 1..(Len(s) - (i + 1) + 1) : b[j] = s[i + 1 + j - 1]
    BY <2>1, <2>2, SubSeqProperties
  <2> QED BY <1>1, <2>3
<1> HIDE DEF a, b
<1>4. RemoveAt(s, i) = a \o b
  BY DEF RemoveAt, a, b
<1>5. /\ a \o b \in Seq(S)
      /\ Len(a \o b) = Len(s) - 1
      /\ \A j \in 1..(Len(s) - 1) :
           (a \o b)[j] = IF j <= i - 1 THEN a[j] ELSE b[j - (i - 1)]
  BY <1>1, <1>2, <1>3, ConcatProperties
<1>6. ASSUME NEW j \in 1..(Len(s) - 1)
      PROVE  (a \o b)[j] = IF j < i THEN s[j] ELSE s[j + 1]
  <2>1. CASE j < i
    BY <1>1, <1>2, <1>5, <2>1
  <2>2. CASE ~ (j < i)
    <3>1. j - (i - 1) \in 1..(Len(s) - i) /\ i + (j - (i - 1)) = j + 1
      BY <1>1, <2>2
    <3> QED BY <1>1, <1>3, <1>5, <2>2, <3>1
  <2> QED BY <2>1, <2>2
<1> QED BY <1>4, <1>5, <1>6

\* A sequence of one entry.
LEMMA Singleton ==
  ASSUME NEW S, NEW m \in S
  PROVE  /\ <<m>> \in Seq(S) /\ <<m>> # <<>> /\ Append(<<>>, m) = <<m>>
         /\ Head(<<m>>) = m /\ Tail(<<m>>) = <<>>
<1>1. /\ <<m>> \in Seq(S) /\ Len(<<m>>) = 1 /\ <<m>>[1] = m
  OBVIOUS
<1>2. <<>> \in Seq(S) /\ Len(<<>>) = 0
  BY EmptySeq
<1>3. /\ Append(<<>>, m) \in Seq(S) /\ Len(Append(<<>>, m)) = 1
      /\ Append(<<>>, m)[1] = m
  BY <1>2, AppendProperties
<1>4. Append(<<>>, m) = <<m>>
  BY <1>1, <1>3, SeqEqual
<1>5. <<m>> # <<>>
  BY <1>1, <1>2
<1>6. Head(<<m>>) = m /\ Tail(<<m>>) \in Seq(S) /\ Len(Tail(<<m>>)) = 0
  BY <1>1, <1>5, HeadTailProperties
<1>7. Tail(<<m>>) = <<>>
  BY <1>6, EmptySeq
<1> QED BY <1>1, <1>4, <1>5, <1>6, <1>7
=============================================================================
