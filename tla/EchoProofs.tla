----------------------------- MODULE EchoProofs -----------------------------
(***************************************************************************)
(* The echoes of the task's own writes (EchoesMet), and that a task that   *)
(* has heard all there is to hear has the database's state (Converged),    *)
(* for every set of calls, every configuration and any number of faults of *)
(* the process, the store, the callers and the other clients.              *)
(*                                                                         *)
(* Neither holds of every behaviour: a request that fails may take an      *)
(* equal, earlier entry out of `pending` instead of its own, and the echo  *)
(* of that one is then taken for news.  Both hold as long as the database  *)
(* answers each request and the stream is not cut (Unbroken): a write that *)
(* is refused is told apart from all whose echo is waited for (NoneRefused *)
(* below), so that what its failure takes out of `pending` is its own      *)
(* entry, the last.                                                        *)
(***************************************************************************)
EXTENDS JournalProofs

-----------------------------------------------------------------------------
(* Entries and their echoes. *)

\* The entries that have echoes are entries.
LEMMA HeardEntries ==
  ASSUME NEW p \in Seq(Event)
  PROVE  /\ Len(p) \in Nat /\ DOMAIN p = 1..Len(p)
         /\ Heard(p) \subseteq 1..Len(p)
         /\ \A i \in 1..Len(p) : p[i] \in Event
BY LenProperties, ElementOfSeq DEF Heard

\* What a way to find the echoes is.
LEMMA EchoesProperties ==
  ASSUME NEW p \in Seq(Event), NEW s \in Seq(Event), NEW f \in Echoes(p, s)
  PROVE  /\ f \in [Heard(p) -> 1..Len(s)] /\ DOMAIN f = Heard(p)
         /\ \A i \in Heard(p) : f[i] \in 1..Len(s) /\ s[f[i]] = p[i]
         /\ \A i, j \in Heard(p) : i < j => f[i] < f[j]
<1>1. DOMAIN s = 1..Len(s)
  BY LenProperties
<1> QED BY <1>1 DEF Echoes

\* An event sent after the echoes leaves them where they are.
LEMMA EchoesExtend ==
  ASSUME NEW p \in Seq(Event), NEW s \in Seq(Event), NEW x \in Event,
         NEW f \in Echoes(p, s)
  PROVE  f \in Echoes(p, Append(s, x))
<1> DEFINE t == Append(s, x)
<1>1. /\ Len(s) \in Nat /\ DOMAIN t = 1..(Len(s) + 1)
      /\ \A n \in 1..Len(s) : t[n] = s[n]
  BY AppendProperties, LenProperties
<1>2. /\ f \in [Heard(p) -> 1..Len(s)]
      /\ \A i \in Heard(p) : f[i] \in 1..Len(s) /\ s[f[i]] = p[i]
      /\ \A i, j \in Heard(p) : i < j => f[i] < f[j]
  BY EchoesProperties
<1> HIDE DEF t
<1>3. f \in [Heard(p) -> DOMAIN t]
  BY <1>1, <1>2
<1>4. \A i \in Heard(p) : t[f[i]] = p[i]
  BY <1>1, <1>2
<1>5. f \in Echoes(p, t)
  BY <1>2, <1>3, <1>4 DEF Echoes
<1> QED BY <1>5 DEF t

\* A new entry whose echo is sent last.
LEMMA EchoesBoth ==
  ASSUME NEW p \in Seq(Event), NEW s \in Seq(Event), NEW e \in Event,
         Echoes(p, s) # {}
  PROVE  Echoes(Append(p, e), Append(s, Spelled(e, "stream"))) # {}
<1> DEFINE x == Spelled(e, "stream")
           q == Append(p, e)
           t == Append(s, x)
<1>0. x \in Event
  BY SpelledType
<1>1. PICK f : f \in Echoes(p, s)
  OBVIOUS
<1>2. /\ \A i \in Heard(p) : f[i] \in 1..Len(s) /\ s[f[i]] = p[i]
      /\ \A i, j \in Heard(p) : i < j => f[i] < f[j]
  BY <1>1, EchoesProperties
<1>3. /\ Len(p) \in Nat /\ DOMAIN p = 1..Len(p) /\ Heard(p) \subseteq 1..Len(p)
  BY HeardEntries
<1>4. /\ Len(s) \in Nat /\ DOMAIN t = 1..(Len(s) + 1)
      /\ \A n \in 1..Len(s) : t[n] = s[n]
      /\ t[Len(s) + 1] = x
  BY <1>0, AppendProperties, LenProperties
<1>5. /\ DOMAIN q = 1..(Len(p) + 1)
      /\ \A n \in 1..Len(p) : q[n] = p[n]
      /\ q[Len(p) + 1] = e
  BY AppendProperties, LenProperties
<1>6. e.spelling = "stream" => x = e
  BY DEF Spelled, Event
<1> HIDE DEF x, q, t
<1>7. ASSUME NEW i \in Heard(q)
      PROVE  \/ i \in Heard(p) /\ q[i] = p[i] /\ i <= Len(p)
             \/ i = Len(p) + 1 /\ i \notin Heard(p) /\ q[i] = x
  BY <1>3, <1>5, <1>6, <1>7 DEF Heard
<1> DEFINE g == [i \in Heard(q) |-> IF i \in Heard(p) THEN f[i] ELSE Len(s) + 1]
<1>8. g \in [Heard(q) -> DOMAIN t]
  BY <1>2, <1>4
<1>9. ASSUME NEW i \in Heard(q) PROVE t[g[i]] = q[i]
  BY <1>2, <1>4, <1>7
<1>10. ASSUME NEW i \in Heard(q), NEW j \in Heard(q), i < j PROVE g[i] < g[j]
  <2>1. i \in 1..(Len(p) + 1) /\ j \in 1..(Len(p) + 1)
    BY <1>5 DEF Heard
  <2>2. i \in Heard(p) /\ g[i] = f[i] /\ f[i] \in 1..Len(s)
    BY <1>2, <1>3, <1>7, <1>10, <2>1
  <2>3. CASE j \in Heard(p)
    BY <1>2, <1>10, <2>2, <2>3
  <2>4. CASE j \notin Heard(p)
    BY <1>4, <2>2, <2>4
  <2> QED BY <2>3, <2>4
<1>11. g \in Echoes(q, t)
  BY <1>8, <1>9, <1>10 DEF Echoes
<1> QED BY <1>11 DEF x, q, t

\* The first event goes, and with it the entry whose echo it is, if any.
LEMMA EchoesShift ==
  ASSUME NEW p \in Seq(Event), NEW q \in Seq(Event), NEW s \in Seq(Event), s # <<>>,
         NEW f \in Echoes(p, s), NEW h \in [Heard(q) -> Heard(p)],
         \A i \in Heard(q) : q[i] = p[h[i]] /\ f[h[i]] # 1,
         \A i, j \in Heard(q) : i < j => h[i] < h[j]
  PROVE  [i \in Heard(q) |-> f[h[i]] - 1] \in Echoes(q, Tail(s))
<1> DEFINE g == [i \in Heard(q) |-> f[h[i]] - 1]
           t == Tail(s)
<1>1. /\ \A i \in Heard(p) : f[i] \in 1..Len(s) /\ s[f[i]] = p[i]
      /\ \A i, j \in Heard(p) : i < j => f[i] < f[j]
  BY EchoesProperties
<1>2. /\ Len(s) \in Nat /\ Len(s) > 0 /\ DOMAIN t = 1..(Len(s) - 1)
      /\ \A n \in 1..(Len(s) - 1) : t[n] = s[n + 1]
  BY HeadTailProperties, LenProperties, EmptySeq
<1> HIDE DEF t
<1>3. ASSUME NEW i \in Heard(q)
      PROVE  g[i] \in 1..(Len(s) - 1) /\ g[i] + 1 = f[h[i]] /\ t[g[i]] = q[i]
  <2>1. h[i] \in Heard(p) /\ f[h[i]] \in 1..Len(s) /\ f[h[i]] # 1
    BY <1>1
  <2>2. g[i] = f[h[i]] - 1
    OBVIOUS
  <2>3. g[i] \in 1..(Len(s) - 1) /\ g[i] + 1 = f[h[i]]
    BY <1>2, <2>1, <2>2
  <2> QED BY <1>1, <1>2, <2>1, <2>3
<1>4. ASSUME NEW i \in Heard(q), NEW j \in Heard(q), i < j PROVE g[i] < g[j]
  <2>1. f[h[i]] < f[h[j]] /\ f[h[i]] \in 1..Len(s) /\ f[h[j]] \in 1..Len(s)
    BY <1>1, <1>4
  <2> QED BY <1>2, <2>1
<1>5. g \in [Heard(q) -> DOMAIN t]
  <2>1. \A i \in Heard(q) : g[i] \in DOMAIN t
    BY <1>2, <1>3
  <2> QED BY <2>1
<1>6. g \in Echoes(q, t)
  BY <1>3, <1>4, <1>5 DEF Echoes
<1> QED BY <1>6 DEF t

\* The entry reconcile_event looks at is the first on the event's path.
LEMMA FirstOnPathFirst ==
  ASSUME TypeOK, NEW e, OnPath(e) # {}
  PROVE  /\ FirstOnPath(e) \in OnPath(e) /\ FirstOnPath(e) \in 1..Len(pending)
         /\ \A j \in OnPath(e) : FirstOnPath(e) <= j
<1>1. DOMAIN pending = 1..Len(pending) /\ Len(pending) \in Nat
  BY LenProperties DEF TypeOK
<1>2. OnPath(e) \in SUBSET Nat /\ OnPath(e) \subseteq 1..Len(pending)
  BY <1>1 DEF OnPath
<1>3. \E i \in OnPath(e) : \A j \in OnPath(e) : i <= j
  BY <1>2, LeastElement
<1>4. FirstOnPath(e) \in OnPath(e) /\ \A j \in OnPath(e) : FirstOnPath(e) <= j
  BY <1>3 DEF FirstOnPath
<1> QED BY <1>2, <1>4

\* The entry whose echo is the first event is the one reconcile_event looks at:
\* an earlier one on the path would have had its own echo before.
LEMMA EchoAtHead ==
  ASSUME TypeOK, stream # <<>>, NEW f \in Echoes(pending, stream),
         NEW m \in Heard(pending), f[m] = 1
  PROVE  /\ OnPath(Head(stream)) # {} /\ FirstOnPath(Head(stream)) = m
         /\ pending[m] = Head(stream)
<1> DEFINE e == Head(stream)
           k == FirstOnPath(e)
<1>0. pending \in Seq(Event) /\ stream \in Seq(Event)
  BY DEF TypeOK
<1>1. e = stream[1]
  BY <1>0, HeadTailProperties
<1>2. /\ \A i \in Heard(pending) : f[i] \in 1..Len(stream) /\ stream[f[i]] = pending[i]
      /\ \A i, j \in Heard(pending) : i < j => f[i] < f[j]
  BY <1>0, EchoesProperties
<1>3. Heard(pending) \subseteq 1..Len(pending) /\ DOMAIN pending = 1..Len(pending)
      /\ Len(pending) \in Nat
  BY <1>0, HeardEntries
<1>4. pending[m] = e /\ e.spelling = "stream" /\ m \in OnPath(e)
  BY <1>1, <1>2, <1>3 DEF Heard, OnPath
<1>5. k \in OnPath(e) /\ k \in 1..Len(pending) /\ k <= m
  BY <1>4, FirstOnPathFirst
<1>6. k \in Heard(pending)
  BY <1>3, <1>4, <1>5 DEF OnPath, Heard
<1>7. ~ (k < m)
  <2>1. k < m => f[k] < 1
    BY <1>2, <1>6
  <2>2. f[k] \in 1..Len(stream)
    BY <1>2, <1>6
  <2> QED BY <2>1, <2>2
<1>8. k = m
  BY <1>3, <1>5, <1>7
<1> QED BY <1>4, <1>8

\* The first event leaves `pending` alone and is no echo.
LEMMA EchoesKept ==
  ASSUME TypeOK, stream # <<>>, NEW f \in Echoes(pending, stream),
         OnPath(Head(stream)) = {} \/ pending[FirstOnPath(Head(stream))] # Head(stream)
  PROVE  \E g \in Echoes(pending, Tail(stream)) :
            \A i \in DOMAIN g : i \in DOMAIN f /\ g[i] = f[i] - 1
<1>0. pending \in Seq(Event) /\ stream \in Seq(Event)
  BY DEF TypeOK
<1> DEFINE h == [i \in Heard(pending) |-> i]
           g == [i \in Heard(pending) |-> f[h[i]] - 1]
<1>1. \A i \in Heard(pending) : f[i] # 1
  BY EchoAtHead
<1>2. g \in Echoes(pending, Tail(stream))
  <2>1. h \in [Heard(pending) -> Heard(pending)]
    OBVIOUS
  <2>2. \A i \in Heard(pending) : h[i] = i
    OBVIOUS
  <2> HIDE DEF h
  <2> QED BY <1>0, <1>1, <2>1, <2>2, EchoesShift
<1>3. DOMAIN g = Heard(pending) /\ DOMAIN f = Heard(pending)
  BY <1>0, EchoesProperties
<1>4. \A i \in DOMAIN g : i \in DOMAIN f /\ g[i] = f[i] - 1
  BY <1>3
<1> HIDE DEF g
<1> QED BY <1>2, <1>4

\* The entry it is about goes with it.
LEMMA EchoesRemoved ==
  ASSUME TypeOK, stream # <<>>, NEW f \in Echoes(pending, stream),
         OnPath(Head(stream)) # {},
         NEW k, k = FirstOnPath(Head(stream))
  PROVE  \E g \in Echoes(RemoveAt(pending, k), Tail(stream)) :
            \A i \in DOMAIN g : \E j \in DOMAIN f : j # k /\ g[i] = f[j] - 1
<1> DEFINE q == RemoveAt(pending, k)
           h == [i \in Heard(q) |-> IF i < k THEN i ELSE i + 1]
           g == [i \in Heard(q) |-> f[h[i]] - 1]
<1>0. pending \in Seq(Event) /\ stream \in Seq(Event)
  BY DEF TypeOK
<1>1. k \in 1..Len(pending) /\ Len(pending) \in Nat /\ DOMAIN pending = 1..Len(pending)
  BY <1>0, FirstOnPathFirst, LenProperties
<1>2. /\ q \in Seq(Event) /\ Len(q) = Len(pending) - 1
      /\ \A j \in 1..(Len(pending) - 1) : q[j] = IF j < k THEN pending[j] ELSE pending[j + 1]
  BY <1>0, <1>1, RemoveAtProperties
<1> HIDE DEF q
<1>3. DOMAIN q = 1..(Len(pending) - 1)
  BY <1>2, LenProperties
<1>4. ASSUME NEW i \in Heard(q)
      PROVE  h[i] \in Heard(pending) /\ h[i] # k /\ q[i] = pending[h[i]] /\ i \in Nat
  <2>1. i \in 1..(Len(pending) - 1) /\ q[i].spelling = "stream"
    BY <1>3 DEF Heard
  <2>2. h[i] = IF i < k THEN i ELSE i + 1
    OBVIOUS
  <2> QED BY <1>1, <1>2, <2>1, <2>2 DEF Heard
<1>5. ASSUME NEW i \in Heard(q), NEW j \in Heard(q), i < j PROVE h[i] < h[j]
  <2>1. i \in Nat /\ j \in Nat /\ k \in Nat
    BY <1>1, <1>4
  <2> QED BY <1>5, <2>1
<1>6. h \in [Heard(q) -> Heard(pending)]
  <2>1. \A i \in Heard(q) : h[i] \in Heard(pending)
    BY <1>4
  <2> QED BY <2>1
<1> HIDE DEF h
<1>7. \A i \in Heard(q) : f[h[i]] # 1
  BY <1>4, EchoAtHead
<1>8. g \in Echoes(q, Tail(stream))
  BY <1>0, <1>2, <1>4, <1>5, <1>6, <1>7, EchoesShift
<1>9. \A i \in Heard(q) : h[i] \in DOMAIN f /\ h[i] # k /\ g[i] = f[h[i]] - 1
  BY <1>0, <1>4, EchoesProperties
<1>10. DOMAIN g = Heard(q)
  OBVIOUS
<1> HIDE DEF g
<1>11. \A i \in DOMAIN g : \E j \in DOMAIN f : j # k /\ g[i] = f[j] - 1
  BY <1>9, <1>10
<1> QED BY <1>8, <1>11 DEF q

-----------------------------------------------------------------------------
(* How often an event is in a list. *)

\* Where an event is in a list is a finite set.
LEMMA CountType ==
  ASSUME NEW s \in Seq(Event), NEW e
  PROVE  IsFiniteSet({i \in DOMAIN s : s[i] = e}) /\ Count(s, e) \in Nat
<1>1. DOMAIN s = 1..Len(s) /\ Len(s) \in Int
  BY LenProperties
<1>2. IsFiniteSet(DOMAIN s)
  BY <1>1, FS_Interval
<1>3. IsFiniteSet({i \in DOMAIN s : s[i] = e})
  BY <1>2, FS_Subset
<1> QED BY <1>3, FS_CardinalityType DEF Count

\* A list in which no event is has no entry.
LEMMA NothingCounted ==
  ASSUME NEW s \in Seq(Event), \A e \in Event : Count(s, e) = 0
  PROVE  s = <<>>
<1>1. DOMAIN s = 1..Len(s) /\ Len(s) \in Nat
  BY LenProperties
<1>2. ASSUME Len(s) # 0 PROVE FALSE
  <2>1. 1 \in DOMAIN s /\ s[1] \in Event
    BY <1>1, <1>2, ElementOfSeq
  <2>2. IsFiniteSet({i \in DOMAIN s : s[i] = s[1]})
    BY CountType
  <2>3. {i \in DOMAIN s : s[i] = s[1]} = {}
    BY <2>1, <2>2, FS_EmptySet DEF Count
  <2> QED BY <2>1, <2>3
<1> QED BY <1>2, EmptySeq

\* The empty list has none.
LEMMA CountEmpty == \A e : Count(<<>>, e) = 0
<1>1. \A e : {i \in DOMAIN (<<>>) : (<<>>)[i] = e} = {}
  OBVIOUS
<1> QED BY <1>1, FS_EmptySet DEF Count

\* A push adds one.
LEMMA CountAppend ==
  ASSUME NEW s \in Seq(Event), NEW x \in Event, NEW e
  PROVE  Count(Append(s, x), e) = Count(s, e) + IF x = e THEN 1 ELSE 0
<1> DEFINE t == Append(s, x)
           A == {i \in DOMAIN s : s[i] = e}
           B == {i \in DOMAIN t : t[i] = e}
<1>1. /\ Len(s) \in Nat /\ DOMAIN s = 1..Len(s) /\ DOMAIN t = 1..(Len(s) + 1)
      /\ \A i \in 1..Len(s) : t[i] = s[i]
      /\ t[Len(s) + 1] = x
  BY AppendProperties, LenProperties
<1>2. IsFiniteSet(A) /\ Cardinality(A) \in Nat
  BY CountType DEF Count
<1> HIDE DEF t
<1>3. B = IF x = e THEN A \cup {Len(s) + 1} ELSE A
  BY <1>1
<1>4. Len(s) + 1 \notin A
  BY <1>1
<1> HIDE DEF A, B
<1>5. x = e => Cardinality(B) = Cardinality(A) + 1
  BY <1>2, <1>3, <1>4, FS_AddElement
<1>6. x # e => Cardinality(B) = Cardinality(A) + 0
  BY <1>2, <1>3
<1> QED BY <1>5, <1>6 DEF Count, A, B, t

\* A removal takes one.
LEMMA CountRemove ==
  ASSUME NEW s \in Seq(Event), NEW k \in 1..Len(s), NEW e
  PROVE  Count(RemoveAt(s, k), e) = Count(s, e) - IF s[k] = e THEN 1 ELSE 0
<1> DEFINE r == RemoveAt(s, k)
           A == {i \in DOMAIN s : s[i] = e}
           B == {i \in DOMAIN r : r[i] = e}
           h == [i \in B |-> IF i < k THEN i ELSE i + 1]
<1>1. DOMAIN s = 1..Len(s) /\ Len(s) \in Nat
  BY LenProperties
<1>2. /\ r \in Seq(Event) /\ Len(r) = Len(s) - 1
      /\ \A j \in 1..(Len(s) - 1) : r[j] = IF j < k THEN s[j] ELSE s[j + 1]
  BY RemoveAtProperties
<1> HIDE DEF r
<1>3. DOMAIN r = 1..(Len(s) - 1)
  BY <1>2, LenProperties
<1>4. IsFiniteSet(A) /\ IsFiniteSet(B)
  BY <1>2, CountType
<1>5. \A i \in B : h[i] \in A \ {k} /\ h[i] = IF i < k THEN i ELSE i + 1
  BY <1>1, <1>2, <1>3
<1>6. \A i, j \in B : h[i] = h[j] => i = j
  BY <1>1, <1>3
<1>7. ASSUME NEW j \in A \ {k} PROVE \E i \in B : h[i] = j
  <2>1. j \in 1..Len(s) /\ s[j] = e /\ j # k
    BY <1>1
  <2>2. CASE j < k
    <3>1. j \in B
      BY <1>1, <1>2, <1>3, <2>1, <2>2
    <3> QED BY <2>2, <3>1
  <2>3. CASE ~ (j < k)
    <3>1. j - 1 \in 1..(Len(s) - 1) /\ ~ (j - 1 < k) /\ j - 1 + 1 = j
      BY <1>1, <2>1, <2>3
    <3>2. j - 1 \in B
      BY <1>2, <1>3, <2>1, <3>1
    <3> QED BY <3>1, <3>2
  <2> QED BY <2>2, <2>3
<1>8. h \in [B -> A \ {k}]
  <2>1. \A i \in B : (IF i < k THEN i ELSE i + 1) \in A \ {k}
    BY <1>5
  <2> HIDE DEF A, B
  <2> QED BY <2>1
<1> HIDE DEF h
<1>9. h \in Bijection(B, A \ {k})
  <2> HIDE DEF A, B
  <2> QED BY <1>6, <1>7, <1>8 DEF Bijection, Injection, Surjection, IsInjective
<1>10. Cardinality(A \ {k}) = Cardinality(B)
  <2> HIDE DEF A, B
  <2> QED BY <1>4, <1>9, FS_Bijection DEF ExistsBijection
<1>11. Cardinality(A \ {k}) = IF s[k] = e THEN Cardinality(A) - 1 ELSE Cardinality(A)
  <2>1. k \in A <=> s[k] = e
    BY <1>1
  <2> HIDE DEF A
  <2> QED BY <1>4, <2>1, FS_RemoveElement
<1>12. Cardinality(A) \in Nat
  BY <1>4, FS_CardinalityType
<1> HIDE DEF A, B
<1>13. Cardinality(B) = Cardinality(A) - IF s[k] = e THEN 1 ELSE 0
  BY <1>10, <1>11, <1>12
<1> QED BY <1>13 DEF Count, A, B, r

\* The events of a list of mutations.
LEMMA EventsType ==
  ASSUME NEW s \in Seq(Mutation)
  PROVE  /\ EventsOf(s) \in Seq(Event) /\ Len(EventsOf(s)) = Len(s)
         /\ DOMAIN EventsOf(s) = 1..Len(s) /\ DOMAIN s = 1..Len(s) /\ Len(s) \in Nat
         /\ \A i \in 1..Len(s) : EventsOf(s)[i] = s[i].ev
<1>1. DOMAIN s = 1..Len(s) /\ Len(s) \in Nat
  BY LenProperties
<1>2. \A i \in 1..Len(s) : s[i].ev \in Event
  <2>1. \A i \in 1..Len(s) : s[i] \in Mutation
    BY ElementOfSeq
  <2> QED BY <2>1 DEF Mutation
<1>3. EventsOf(s) \in [1..Len(s) -> Event]
  BY <1>1, <1>2 DEF EventsOf
<1>4. EventsOf(s) \in Seq(Event) /\ Len(EventsOf(s)) = Len(s)
  <2>1. EventsOf(s) \in Seq(Event)
    BY <1>1, <1>3, SeqDef
  <2> QED BY <1>1, <1>3, <2>1, LenProperties
<1> QED BY <1>1, <1>3, <1>4 DEF EventsOf

\* Those of a list with one more, and with one less.
LEMMA EventsAppend ==
  ASSUME NEW s \in Seq(Mutation), NEW m \in Mutation
  PROVE  EventsOf(Append(s, m)) = Append(EventsOf(s), m.ev)
<1> DEFINE t == Append(s, m)
           u == Append(EventsOf(s), m.ev)
<1>0. m.ev \in Event
  BY DEF Mutation
<1>1. /\ t \in Seq(Mutation) /\ Len(t) = Len(s) + 1 /\ Len(s) \in Nat
      /\ \A i \in 1..Len(s) : t[i] = s[i]
      /\ t[Len(s) + 1] = m
  BY AppendProperties, LenProperties
<1>2. /\ EventsOf(s) \in Seq(Event) /\ Len(EventsOf(s)) = Len(s)
      /\ \A i \in 1..Len(s) : EventsOf(s)[i] = s[i].ev
  BY EventsType
<1>3. /\ u \in Seq(Event) /\ Len(u) = Len(s) + 1
      /\ \A i \in 1..Len(s) : u[i] = s[i].ev
      /\ u[Len(s) + 1] = m.ev
  BY <1>0, <1>1, <1>2, AppendProperties
<1> HIDE DEF t, u
<1>4. /\ EventsOf(t) \in Seq(Event) /\ Len(EventsOf(t)) = Len(s) + 1
      /\ \A i \in 1..(Len(s) + 1) : EventsOf(t)[i] = t[i].ev
  BY <1>1, EventsType
<1>5. ASSUME NEW i \in 1..(Len(s) + 1) PROVE EventsOf(t)[i] = u[i]
  <2>1. EventsOf(t)[i] = t[i].ev
    BY <1>4
  <2>2. CASE i \in 1..Len(s)
    BY <1>1, <1>3, <2>1, <2>2
  <2>3. CASE i = Len(s) + 1
    BY <1>1, <1>3, <2>1, <2>3
  <2> QED BY <1>1, <2>2, <2>3
<1>6. EventsOf(t) = u
  BY <1>3, <1>4, <1>5, SeqEqual
<1> QED BY <1>6 DEF t, u

LEMMA EventsRemove ==
  ASSUME NEW s \in Seq(Mutation), NEW k \in 1..Len(s)
  PROVE  EventsOf(RemoveAt(s, k)) = RemoveAt(EventsOf(s), k)
<1> DEFINE t == RemoveAt(s, k)
           u == RemoveAt(EventsOf(s), k)
<1>1. t \in Seq(Mutation) /\ Len(t) = Len(s) - 1
      /\ \A i \in 1..(Len(s) - 1) : t[i] = IF i < k THEN s[i] ELSE s[i + 1]
  BY RemoveAtProperties
<1>2. /\ EventsOf(s) \in Seq(Event) /\ Len(EventsOf(s)) = Len(s) /\ Len(s) \in Nat
      /\ \A i \in 1..Len(s) : EventsOf(s)[i] = s[i].ev
  BY EventsType
<1>3. u \in Seq(Event) /\ Len(u) = Len(s) - 1
      /\ \A i \in 1..(Len(s) - 1) : u[i] = IF i < k THEN EventsOf(s)[i] ELSE EventsOf(s)[i + 1]
  BY <1>2, RemoveAtProperties
<1> HIDE DEF t, u
<1>4. /\ EventsOf(t) \in Seq(Event) /\ Len(EventsOf(t)) = Len(s) - 1
      /\ \A i \in 1..(Len(s) - 1) : EventsOf(t)[i] = t[i].ev
  BY <1>1, EventsType
<1>5. ASSUME NEW i \in 1..(Len(s) - 1) PROVE EventsOf(t)[i] = u[i]
  <2>1. i \in 1..Len(s) /\ i + 1 \in 1..Len(s)
    BY <1>2
  <2> QED BY <1>1, <1>2, <1>3, <1>4, <2>1
<1>6. EventsOf(t) = u
  BY <1>3, <1>4, <1>5, SeqEqual
<1> QED BY <1>6 DEF t, u

-----------------------------------------------------------------------------
(* The two lists of a task that is not online. *)

USE DEF fixed, client, store, world, replica, restore, history, task, outside,
        PCs, WritePCs, OfflinePCs, ReplayPCs

\* pending.remove of an event that is there removes one entry with it.
LEMMA WithoutEventAt ==
  ASSUME NEW s \in Seq(Event), NEW e, \E i \in DOMAIN s : s[i] = e
  PROVE  \E k \in 1..Len(s) : s[k] = e /\ WithoutEvent(s, e) = RemoveAt(s, k)
<1> DEFINE First(i) == s[i] = e /\ \A j \in DOMAIN s : j < i => s[j] # e
           T == {i \in DOMAIN s : s[i] = e}
           k == CHOOSE i \in DOMAIN s : First(i)
<1>1. DOMAIN s = 1..Len(s) /\ Len(s) \in Nat
  BY LenProperties
<1>2. PICK i \in T : \A j \in T : i <= j
  <2>1. T \in SUBSET Nat /\ T # {}
    BY <1>1
  <2> HIDE DEF T
  <2> QED BY <2>1, LeastElement
<1>3. i \in DOMAIN s /\ First(i)
  <2>1. ASSUME NEW j \in DOMAIN s, j < i PROVE s[j] # e
    <3>1. ~ (i <= j)
      BY <1>1, <2>1
    <3> QED BY <1>2, <3>1
  <2> QED BY <1>2, <2>1
<1>4. k \in DOMAIN s /\ First(k)
  BY <1>3
<1>5. WithoutEvent(s, e) = RemoveAt(s, k)
  BY DEF WithoutEvent
<1> HIDE DEF k
<1> QED BY <1>1, <1>4, <1>5

\* The two lists are of the same writes.
SameWrites == \A e \in Event : Count(pending, e) = Count(EventsOf(durable), e)

\* They stay so when a write goes at the end of both,
LEMMA SameAppended ==
  ASSUME TypeOK, SameWrites, NEW m \in Mutation,
         pending' = Append(pending, m.ev), durable' = Append(durable, m)
  PROVE  SameWrites'
<1>1. pending \in Seq(Event) /\ EventsOf(durable) \in Seq(Event) /\ m.ev \in Event
  BY EventsType DEF TypeOK, Mutation
<1>2. EventsOf(durable') = Append(EventsOf(durable), m.ev)
  BY EventsAppend DEF TypeOK
<1>3. ASSUME NEW e \in Event PROVE Count(pending', e) = Count(EventsOf(durable'), e)
  <2>1. Count(pending', e) = Count(pending, e) + IF m.ev = e THEN 1 ELSE 0
    BY <1>1, CountAppend
  <2>2. Count(EventsOf(durable'), e) = Count(EventsOf(durable), e) + IF m.ev = e THEN 1 ELSE 0
    BY <1>1, <1>2, CountAppend
  <2> QED BY <2>1, <2>2 DEF SameWrites
<1> QED BY <1>3 DEF SameWrites

\* and when one is taken from both.
LEMMA SameRemoved ==
  ASSUME TypeOK, SameWrites, Increasing(durable), NEW m, Holds(m),
         pending' = WithoutEvent(pending, m.ev), durable' = Without(durable, m.id)
  PROVE  SameWrites'
<1> DEFINE D == EventsOf(durable)
<1>0. /\ pending \in Seq(Event) /\ durable \in Seq(Mutation)
      /\ D \in Seq(Event) /\ Len(D) = Len(durable) /\ Len(durable) \in Nat
      /\ DOMAIN D = 1..Len(durable) /\ DOMAIN durable = 1..Len(durable)
      /\ \A i \in 1..Len(durable) : D[i] = durable[i].ev
  BY EventsType DEF TypeOK
<1>1. PICK l \in DOMAIN durable : durable[l] = m
  BY DEF Holds
<1> DEFINE k == CHOOSE i \in DOMAIN durable : durable[i].id = m.id
<1>2. k \in DOMAIN durable /\ durable[k].id = m.id
  BY <1>1
<1>3. durable' = RemoveAt(durable, k)
  BY <1>1 DEF Without
<1> HIDE DEF k
<1>4. k = l /\ D[k] = m.ev /\ k \in 1..Len(D)
  BY <1>0, <1>1, <1>2, IdsNameEntries
<1>5. EventsOf(durable') = RemoveAt(D, k)
  BY <1>0, <1>2, <1>3, EventsRemove
<1> HIDE DEF D
<1>6. \A e : Count(EventsOf(durable'), e) = Count(D, e) - IF m.ev = e THEN 1 ELSE 0
  BY <1>0, <1>4, <1>5, CountRemove
<1>7. m.ev \in Event
  BY <1>0, <1>4, ElementOfSeq
<1>8. \E i \in DOMAIN pending : pending[i] = m.ev
  <2>1. Count(D, m.ev) \in Nat /\ IsFiniteSet({i \in DOMAIN D : D[i] = m.ev})
    BY <1>0, CountType
  <2>2. {i \in DOMAIN D : D[i] = m.ev} # {}
    BY <1>0, <1>4
  <2>3. Count(D, m.ev) # 0
    BY <2>1, <2>2, FS_EmptySet DEF Count
  <2>4. Count(pending, m.ev) # 0
    BY <1>7, <2>3 DEF SameWrites, D
  <2>5. {i \in DOMAIN pending : pending[i] = m.ev} # {}
    BY <2>4, FS_EmptySet DEF Count
  <2> QED BY <2>5
<1>9. PICK j \in 1..Len(pending) : pending[j] = m.ev /\ pending' = RemoveAt(pending, j)
  BY <1>0, <1>8, WithoutEventAt
<1>10. \A e : Count(pending', e) = Count(pending, e) - IF m.ev = e THEN 1 ELSE 0
  BY <1>0, <1>9, CountRemove
<1>11. ASSUME NEW e \in Event PROVE Count(pending', e) = Count(EventsOf(durable'), e)
  BY <1>6, <1>10 DEF SameWrites, D
<1> QED BY <1>11 DEF SameWrites

\* Without a task `pending` is empty, and the entry of a write whose request is
\* under way is its last.
OwnEntryLast ==
  /\ ~ Running => pending = <<>>
  /\ pc = "wput" => pending # <<>> /\ pending[Len(pending)] = cur.ev

\* What a step does to the two lists of a task that stays or goes offline.
ListStep ==
  \/ ~ Running' \/ Online'
  \/ /\ Running /\ ~ Online /\ UNCHANGED <<pending, durable>>
     /\ pc' = "sub" => pc = "sub" \/ durable = <<>>
  \/ pc' = "get" /\ durable' \in Seq(Mutation) /\ pending' = EventsOf(durable')
  \/ /\ pc = "oappend" /\ pc' = "osnap"
     /\ pending' = Append(pending, CurMut.ev) /\ durable' = Append(durable, CurMut)
  \/ /\ pc \in {"resolve", "rack"} /\ pc' \in {"resolve", "rput", "rcomp"}
     /\ \E m : /\ Holds(m) /\ pending' = WithoutEvent(pending, m.ev)
               /\ durable' = Without(durable, m.id)

\* A task that is not online and leaves its lists alone.
LEMMA ListsAlone ==
  ASSUME UNCHANGED <<pending, durable>>, Running, ~ Online, pc' # "sub" \/ durable = <<>>
  PROVE  ListStep
BY DEF ListStep

\* retry and reconnect_or_queue, of a task whose stream is open or that has none.
LEMMA ReconnectLists ==
  ASSUME Running, ~ Online, NEW v, Retry(v) \/ Reconnect(v) PROVE ListStep
<1>1. CASE pc' \in {"backoff", "queue"} /\ UNCHANGED replica
  BY <1>1, ListsAlone
<1>2. CASE Terminate(v)
  BY <1>2 DEF Terminate, ListStep, Running
<1> QED BY <1>1, <1>2 DEF Retry, Reconnect, QueueWrites

\* Every step touches the lists in one of these ways.
LEMMA StepLists ==
  ASSUME IndInv, NothingHeld, OwnEntryLast, pc = "stream" => open, [Next]_vars
  PROVE  ListStep
<1>t. ASSUME NEW st, Terminate(st) PROVE ListStep
  BY <1>t DEF Terminate, ListStep, Running
<1>o. ASSUME pc' \in {"stream", "evsnap"} \cup WritePCs PROVE ListStep
  BY <1>o DEF ListStep, Online
<1>1. CASE Load
  <2>1. CASE Misconfigured \/ RestoreFails
    BY <2>1, <1>t DEF Misconfigured, RestoreFails, Fail
  <2>2. CASE StartUnstored
    <3>1. pc' = "get" /\ durable' = <<>> /\ pending' = <<>>
      BY <2>2 DEF StartUnstored, OwnEntryLast, NothingHeld, Running
    <3>2. EventsOf(<<>>) = <<>> /\ <<>> \in Seq(Mutation)
      <4>1. <<>> \in Seq(Mutation) /\ Len(<<>>) = 0
        BY EmptySeq
      <4> QED BY <4>1, EventsType, EmptySeq
    <3> QED BY <3>1, <3>2 DEF ListStep
  <2>3. CASE Restore
    <3>1. PICK s \in [1..Cardinality(journal) -> journal] :
            /\ durable' = s /\ pending' = [i \in DOMAIN s |-> s[i].ev]
      BY <2>3 DEF Restore
    <3>2. Cardinality(journal) \in Nat /\ journal \subseteq Mutation
      BY FS_CardinalityType DEF IndInv, TypeOK
    <3>3. s \in [1..Cardinality(journal) -> Mutation]
      BY <3>2
    <3>4. s \in Seq(Mutation)
      BY <3>2, <3>3, SeqDef
    <3> QED BY <2>3, <3>1, <3>4 DEF Restore, EventsOf, ListStep
  <2> QED BY <1>1, <2>1, <2>2, <2>3 DEF Load
<1>2. CASE Waiting
  <2>1. CASE Stop
    BY <2>1, <1>t DEF Stop
  <2>2. CASE BackedOff \/ OfflineDelayOver \/ QueueDelayOver
    BY <2>2, ListsAlone DEF BackedOff, OfflineDelayOver, QueueDelayOver, Running, Online
  <2> QED BY <1>2, <2>1, <2>2 DEF Waiting
<1>3. CASE Hydrate
  <2>1. CASE Get
    BY <2>1, ListsAlone DEF Get, NothingHeld, Running, Online
  <2>2. CASE GetFails
    BY <2>2, ListsAlone, ReconnectLists DEF GetFails, Running, Online
  <2>3. CASE ResolveKeep \/ Resolved
    BY <2>3, ListsAlone DEF ResolveKeep, Resolved, Running, Online
  <2>4. CASE ResolveDrop
    <3>1. Holds(Head(todo))
      BY <2>4, LoopHead DEF ResolveDrop
    <3> QED BY <2>4, <3>1 DEF ResolveDrop, ListStep
  <2>5. CASE ResolveDropFails \/ ResolveReject \/ HydratedFails
    BY <2>5, <1>t DEF ResolveDropFails, ResolveReject, HydratedFails, Fail
  <2>6. CASE ResolveCompact
    BY <2>6, <1>t, ListsAlone DEF ResolveCompact, Fail, Running, Online
  <2>7. CASE Hydrated
    BY <2>7, ListsAlone DEF Hydrated, Running, Online
  <2> QED BY <1>3, <2>1, <2>2, <2>3, <2>4, <2>5, <2>6, <2>7 DEF Hydrate
<1>4. CASE Replay
  <2>1. CASE ReplayAck
    <3>1. Holds(Head(todo))
      BY <2>1, LoopHead DEF ReplayAck
    <3> QED BY <2>1, <3>1 DEF ReplayAck, ListStep
  <2>2. CASE ReplayCompact
    <3>1. durable = <<>>
      BY <2>2 DEF ReplayCompact, IndInv, LoopsFollow
    <3> QED BY <2>2, <3>1, ListsAlone DEF ReplayCompact, AbortReplay, Running, Online
  <2>3. CASE ReplayPut \/ ReplayPutFails \/ ReplaySnapshot \/ ReplaySnapshotFails
             \/ ReplayAckFails
    BY <2>3, ListsAlone
       DEF ReplayPut, ReplayPutFails, ReplaySnapshot, ReplaySnapshotFails, ReplayAckFails,
           AbortReplay, Running, Online
  <2> QED BY <1>4, <2>1, <2>2, <2>3 DEF Replay
<1>5. CASE Listen
  <2>1. CASE SubscribeFails
    BY <2>1, ReconnectLists DEF SubscribeFails, Running, Online
  <2>2. CASE StreamEnds
    BY <2>2 DEF StreamEnds
  <2>3. CASE ConflictRejected \/ SaveEventFails
    BY <2>3, <1>t DEF ConflictRejected, SaveEventFails, Fail
  <2>4. CASE Subscribe \/ SaveEvent
    BY <2>4, <1>o DEF Subscribe, SaveEvent
  <2>5. CASE NewsFromOthers \/ EchoSuppressed \/ ConflictRemoteWins \/ ConflictLocalWins
    BY <2>5, <1>o DEF NewsFromOthers, EchoSuppressed, ConflictRemoteWins,
                      ConflictLocalWins, EventApplies, EventIgnored, AfterEvent
  <2> QED BY <1>5, <2>1, <2>2, <2>3, <2>4, <2>5 DEF Listen
<1>6. CASE WriteOnline
  <2>1. pc \in WritePCs => cur.home = "stream"
    BY DEF IndInv, UnderWay
  <2>2. CASE WriteBadPath \/ WriteStored \/ WriteUnstored
    BY <2>2, <1>o DEF WriteBadPath, WriteStored, WriteUnstored
  <2>3. CASE WriteAppend \/ WriteAppendFails \/ WriteSnapshot \/ WriteSnapshotFails
    BY <2>1, <2>3, <1>o DEF WriteAppend, WriteAppendFails, WriteSnapshot,
                            WriteSnapshotFails, FinishOnline, Finish
  <2>4. CASE WritePut \/ WritePutFails \/ WriteAck \/ WriteCompact
    BY <2>1, <2>4, <1>o DEF WritePut, WritePutFails, WriteAck, WriteCompact,
                            FinishOnline, Finish
  <2> QED BY <1>6, <2>2, <2>3, <2>4 DEF WriteOnline
<1>7. CASE WriteOffline
  <2>1. CASE OfflineRefused \/ OfflineAccept
    BY <2>1, ListsAlone
       DEF OfflineRefused, OfflineAccept, Finish, Received, Home, Running, Online
  <2>2. CASE OfflineAppend
    BY <2>2 DEF OfflineAppend, ListStep, CurMut
  <2>3. CASE OfflineAppendFails \/ OfflineSnapshot
    <3>1. cur.home \in {"get", "queue"}
      BY <2>3 DEF OfflineAppendFails, OfflineSnapshot, IndInv, UnderWay
    <3> QED BY <2>3, <3>1, ListsAlone
            DEF OfflineAppendFails, OfflineSnapshot, FinishOffline, Finish, Running, Online
  <2> QED BY <1>7, <2>1, <2>2, <2>3 DEF WriteOffline
<1>8. ASSUME UNCHANGED <<pc, pending, durable>> PROVE ListStep
  BY <1>8 DEF ListStep, Running, Online
<1>9. CASE Environment
  <2>1. CASE Crash \/ Restart
    BY <2>1 DEF Crash, Restart, ListStep, Running
  <2> QED BY <1>8, <1>9, <2>1 DEF Environment, Submit, Abandon, Shutdown, Cut, OtherWrite
<1>10. CASE UNCHANGED vars
  BY <1>8, <1>10 DEF vars
<1> QED BY <1>1, <1>2, <1>3, <1>4, <1>5, <1>6, <1>7, <1>9, <1>10 DEF Next, Task

-----------------------------------------------------------------------------
(* What a step does to the entries and the stream of a task that is online. *)

\* What the channel and the task hold are writes of the callers; an optimistic
\* write has been applied to the state that was there when it was taken.
WriteLocals ==
  /\ \A i \in DOMAIN queue : queue[i].ev \in Writes
  /\ pc \in WritePCs => cur.ev \in Writes \ BadPath
  /\ Optimistic =>
       /\ pc = "wappend" => cur.old = tree
       /\ pc \in {"wsnap", "wput"} =>
            cur.ev \notin BadKey /\ tree = ApplyEvent(cur.old, cur.ev)

\* Nothing: a write is taken, journaled, pushed or given up.
Calm ==
  /\ Online /\ UNCHANGED world /\ Outstanding' = Outstanding
  /\ Optimistic /\ WriteLocals /\ ~ Fault("io") => Shown' = Shown

\* The database accepts a write that has no entry: another client's, or one whose
\* request fails.
Others ==
  /\ Online /\ Outstanding' = Outstanding
  /\ \E e \in Event : Remote!Accept(e) /\ (WriteLocals => e \in Reaching)

\* It accepts the write under way, whose entry now waits for its echo.
Own ==
  /\ pc = "wput" /\ pc' \in {"wack", "stream"}
  /\ Remote!Accept(cur.ev) /\ cur.ev \notin Denied
  /\ Outstanding' = Append(Outstanding, cur.ev) /\ UNCHANGED tree

\* An event is received.
Hears == NewsFromOthers \/ EchoSuppressed \/ ConflictRemoteWins \/ ConflictLocalWins

EchoStep == ~ Online' \/ Calm \/ Others \/ Own \/ Hears \/ Subscribe

\* A push, and what is left without the last entry.
LEMMA FrontAppend ==
  ASSUME NEW S, NEW s \in Seq(S), NEW x \in S PROVE Front(Append(s, x)) = s
<1> DEFINE t == Append(s, x)
<1>1. /\ t \in Seq(S) /\ Len(t) = Len(s) + 1 /\ Len(s) \in Nat
      /\ \A i \in 1..Len(s) : t[i] = s[i]
  BY AppendProperties, LenProperties
<1> HIDE DEF t
<1>2. \A i \in 1..Len(s) : t[i] \in S
  BY <1>1, ElementOfSeq
<1>3. /\ SubSeq(t, 1, Len(s)) \in Seq(S) /\ Len(SubSeq(t, 1, Len(s))) = Len(s)
      /\ \A i \in 1..Len(s) : SubSeq(t, 1, Len(s))[i] = t[i]
  BY <1>1, <1>2, SubSeqProperties
<1>4. SubSeq(t, 1, Len(s)) = s
  BY <1>1, <1>3, SeqEqual
<1>5. Len(t) - 1 = Len(s)
  BY <1>1
<1> QED BY <1>4, <1>5 DEF Front, t

LEMMA FrontLast ==
  ASSUME NEW S, NEW s \in Seq(S), s # <<>>
  PROVE  Front(s) \in Seq(S) /\ Append(Front(s), s[Len(s)]) = s
<1>1. PICK n \in Nat : Len(s) = n + 1
  <2>1. Len(s) \in Nat /\ Len(s) # 0
    BY LenProperties, EmptySeq
  <2> QED BY <2>1
<1>2. \A i \in 1..(n + 1) : s[i] \in S
  BY <1>1, ElementOfSeq
<1> DEFINE u == SubSeq(s, 1, n)
           t == Append(u, s[n + 1])
<1>3. /\ u \in Seq(S) /\ Len(u) = n
      /\ \A i \in 1..n : u[i] = s[i]
  BY <1>2, SubSeqProperties
<1>4. Front(s) = u
  BY <1>1 DEF Front
<1> HIDE DEF u
<1>5. s[n + 1] \in S
  BY <1>2
<1>6. /\ t \in Seq(S) /\ Len(t) = n + 1
      /\ \A i \in 1..n : t[i] = u[i]
      /\ t[n + 1] = s[n + 1]
  BY <1>3, <1>5, AppendProperties
<1> HIDE DEF t
<1>7. \A i \in 1..Len(s) : t[i] = s[i]
  BY <1>1, <1>3, <1>6
<1>8. t = s
  BY <1>1, <1>6, <1>7, SeqEqual
<1> QED BY <1>1, <1>3, <1>4, <1>8 DEF t

\* A step that leaves the task's await, its entries and the database alone.
LEMMA Unnoticed ==
  ASSUME UNCHANGED <<pc, pending, tree, cur, world>> PROVE EchoStep
BY DEF EchoStep, Calm, Online, Outstanding, Shown

\* Every step of a task whose stream is not cut does one of these.
LEMMA StepEcho ==
  ASSUME IndInv, OwnEntryLast, ~ Fault("cut"), [Next]_vars,
         WritePutFails => pending' = Front(pending)
  PROVE  EchoStep
<1>0. pending \in Seq(Event) /\ TypeOK
  BY DEF IndInv, TypeOK
<1>t. ASSUME NEW st, Terminate(st) PROVE EchoStep
  BY <1>t DEF Terminate, EchoStep, Online
<1>a. ASSUME pc' \notin {"stream", "evsnap"} \cup WritePCs PROVE EchoStep
  BY <1>a DEF EchoStep, Online
<1>r. ASSUME NEW v, Retry(v) \/ Reconnect(v) PROVE EchoStep
  BY <1>r, <1>t, <1>a DEF Retry, Reconnect, QueueWrites
<1>1. CASE Load
  BY <1>1, <1>a, <1>t DEF Load, Misconfigured, RestoreFails, StartUnstored, Restore, Fail
<1>2. CASE Waiting
  BY <1>2, <1>a, <1>t DEF Waiting, BackedOff, OfflineDelayOver, QueueDelayOver, Stop
<1>3. CASE Hydrate
  <2>1. CASE GetFails
    BY <2>1, <1>a, <1>r DEF GetFails
  <2>2. CASE Get \/ ResolveKeep \/ ResolveDrop \/ Resolved \/ Hydrated
    BY <2>2, <1>a DEF Get, ResolveKeep, ResolveDrop, Resolved, Hydrated
  <2>3. CASE ResolveDropFails \/ ResolveReject \/ ResolveCompact \/ HydratedFails
    BY <2>3, <1>a, <1>t
       DEF ResolveDropFails, ResolveReject, ResolveCompact, HydratedFails, Fail
  <2> QED BY <1>3, <2>1, <2>2, <2>3 DEF Hydrate
<1>4. CASE Replay
  BY <1>4, <1>a DEF Replay, ReplayPut, ReplayPutFails, ReplaySnapshot,
                    ReplaySnapshotFails, ReplayAck, ReplayAckFails, ReplayCompact,
                    AbortReplay
<1>5. CASE Listen
  <2>1. CASE SubscribeFails \/ StreamEnds
    BY <2>1, <1>r DEF SubscribeFails, StreamEnds
  <2>2. CASE ConflictRejected \/ SaveEventFails
    BY <2>2, <1>t DEF ConflictRejected, SaveEventFails, Fail
  <2>3. CASE SaveEvent
    BY <2>3 DEF SaveEvent, EchoStep, Calm, Online, Outstanding, Shown
  <2> QED BY <1>5, <2>1, <2>2, <2>3 DEF Listen, EchoStep, Hears
<1>6. CASE WriteOnline
  <2>h. pc \in WritePCs => cur.home = "stream" /\ cur.ev \in Event /\ Online
    BY <1>0, CurrentType DEF IndInv, UnderWay, Online
  <2>1. CASE WriteBadPath
    BY <2>1, Unnoticed DEF WriteBadPath
  <2>2. CASE WriteStored
    BY <2>2 DEF WriteStored, Received, EchoStep, Calm, Online, Outstanding, Shown
  <2>3. CASE WriteUnstored
    <3>1. CASE UNCHANGED <<pc, cur, tree, pending>>
      BY <2>3, <3>1, Unnoticed DEF WriteUnstored
    <3>2. CASE pc' = "wput"
      <4>1. queue # <<>> /\ pending' = Append(pending, Head(queue).ev)
        BY <2>3, <3>2 DEF WriteUnstored
      <4>2. Head(queue).ev \in Event
        BY <1>0, <4>1, QueueHead
      <4>3. Front(pending') = pending
        BY <1>0, <4>1, <4>2, FrontAppend
      <4> QED BY <2>3, <3>2, <4>3
              DEF WriteUnstored, Received, EchoStep, Calm, Online, Outstanding, Shown
    <3> QED BY <2>3, <3>1, <3>2 DEF WriteUnstored
  <2>4. CASE WriteAppend
    <3>1. CASE pc' = "wput"
      <4>1. pending' = Append(pending, cur.ev) /\ ~ Optimistic /\ pc = "wappend"
        BY <2>4, <3>1, <2>h DEF WriteAppend, FinishOnline, Finish
      <4>2. Front(pending') = pending
        BY <1>0, <2>h, <4>1, FrontAppend
      <4> QED BY <2>4, <3>1, <4>1, <4>2
              DEF WriteAppend, EchoStep, Calm, Online, Outstanding, Shown
    <3>2. CASE pc' # "wput"
      BY <2>4, <3>2, <2>h DEF WriteAppend, FinishOnline, Finish, EchoStep, Calm, Online,
                              Outstanding, Shown, WriteLocals
    <3> QED BY <3>1, <3>2
  <2>5. CASE WriteAppendFails \/ WriteSnapshotFails
    BY <2>5, <2>h DEF WriteAppendFails, WriteSnapshotFails, FinishOnline, Finish, EchoStep,
                      Calm, Online, Outstanding, Shown
  <2>6. CASE WriteSnapshot
    <3>1. Front(pending') = pending
      BY <1>0, <2>6, <2>h, FrontAppend DEF WriteSnapshot
    <3> QED BY <2>6, <3>1 DEF WriteSnapshot, EchoStep, Calm, Online, Outstanding, Shown
  <2>7. CASE WritePut
    <3>1. pending = Append(Front(pending), cur.ev)
      BY <1>0, <2>7, FrontLast DEF WritePut, OwnEntryLast
    <3>2. pc' \in {"wack", "stream"}
      BY <2>7, <2>h DEF WritePut, FinishOnline, Finish
    <3>3. Outstanding' = Append(Outstanding, cur.ev)
      BY <2>7, <3>1, <3>2 DEF WritePut, Outstanding
    <3> QED BY <2>7, <3>2, <3>3 DEF WritePut, Deliver, EchoStep, Own, Online
  <2>8. CASE WritePutFails
    <3>1. pc = "wput" /\ pc' = "stream" /\ pending' = Front(pending) /\ Online
      BY <2>8, <2>h DEF WritePutFails, FinishOnline, Finish
    <3>2. Outstanding' = Outstanding
      BY <3>1 DEF Outstanding
    <3>3. CASE UNCHANGED world
      BY <2>8, <3>1, <3>2, <3>3 DEF WritePutFails, EchoStep, Calm, Shown
    <3>4. CASE Remote!Accept(cur.ev) /\ cur.ev \notin Denied
      <4>1. WriteLocals => cur.ev \in Reaching
        BY <3>1, <3>4, EngineAssumption DEF WriteLocals, Reaching, Inapplicable
      <4> QED BY <2>h, <3>1, <3>2, <3>4, <4>1 DEF EchoStep, Others
    <3> QED BY <2>8, <3>3, <3>4 DEF WritePutFails, Deliver, Remote!Keep
  <2>9. CASE WriteAck \/ WriteCompact
    BY <2>9, <2>h DEF WriteAck, WriteCompact, FinishOnline, Finish, EchoStep, Calm, Online,
                      Outstanding, Shown
  <2> QED BY <1>6, <2>1, <2>2, <2>3, <2>4, <2>5, <2>6, <2>7, <2>8, <2>9 DEF WriteOnline
<1>7. CASE WriteOffline
  <2>1. pc \in OfflinePCs => cur.home \in {"get", "queue"}
    BY DEF IndInv, UnderWay
  <2> QED BY <1>7, <1>a, <2>1
          DEF WriteOffline, OfflineRefused, OfflineAccept, OfflineAppend,
              OfflineAppendFails, OfflineSnapshot, FinishOffline, Finish, Received, Home
<1>8. CASE Environment
  <2>1. CASE Crash \/ Restart
    BY <2>1, <1>a DEF Crash, Restart
  <2>2. ASSUME NEW e \in RemoteWrites, OtherWrite(e) PROVE EchoStep
    <3>1. e \in Event /\ e \in Reaching
      BY EngineAssumption DEF Reaching
    <3>2. Outstanding' = Outstanding /\ (Online' <=> Online) /\ Remote!Accept(e)
      BY <2>2 DEF OtherWrite, Outstanding, Online
    <3> QED BY <3>1, <3>2 DEF EchoStep, Others
  <2>3. CASE Cut
    BY <2>3 DEF Cut
  <2>4. ASSUME NEW c \in Calls, NEW e \in Writes, Submit(c, e) PROVE EchoStep
    BY <2>4, Unnoticed DEF Submit
  <2>5. ASSUME NEW c \in Calls, Abandon(c) PROVE EchoStep
    BY <2>5, Unnoticed DEF Abandon
  <2>6. CASE Shutdown
    BY <2>6, Unnoticed DEF Shutdown
  <2> QED BY <1>8, <2>1, <2>2, <2>3, <2>4, <2>5, <2>6 DEF Environment
<1>9. CASE UNCHANGED vars
  BY <1>9, Unnoticed DEF vars
<1> QED BY <1>1, <1>2, <1>3, <1>4, <1>5, <1>6, <1>7, <1>8, <1>9 DEF Next, Task

-----------------------------------------------------------------------------
(* The echoes follow. *)

\* OwnEntryLast is an invariant by itself.
LEMMA StepOwnEntryLast ==
  ASSUME IndInv, OwnEntryLast, [Next]_vars PROVE OwnEntryLast'
<1>0. pending \in Seq(Event) /\ TypeOK
  BY DEF IndInv, TypeOK
<1>t. ASSUME NEW st, Terminate(st) PROVE OwnEntryLast'
  BY <1>t DEF Terminate, Release, OwnEntryLast, Running
<1>a. ASSUME pc' \notin {"load", "done", "wput"} PROVE OwnEntryLast'
  BY <1>a DEF OwnEntryLast, Running
<1>p. ASSUME NEW e \in Event, pending' = Append(pending, e), cur'.ev = e, pc' = "wput"
      PROVE  OwnEntryLast'
  <2>1. /\ pending' \in Seq(Event) /\ Len(pending') = Len(pending) + 1
        /\ pending'[Len(pending) + 1] = e /\ Len(pending) \in Nat
    BY <1>0, <1>p, AppendProperties, LenProperties
  <2>2. pending' # <<>>
    BY <2>1, EmptySeq
  <2> QED BY <1>p, <2>1, <2>2 DEF OwnEntryLast, Running
<1>r. ASSUME NEW v, Retry(v) \/ Reconnect(v) PROVE OwnEntryLast'
  BY <1>r, <1>t, <1>a DEF Retry, Reconnect, QueueWrites
<1>1. CASE Load
  BY <1>1, <1>a, <1>t DEF Load, Misconfigured, RestoreFails, StartUnstored, Restore, Fail
<1>2. CASE Waiting
  BY <1>2, <1>a, <1>t DEF Waiting, BackedOff, OfflineDelayOver, QueueDelayOver, Stop
<1>3. CASE Hydrate
  <2>1. CASE GetFails
    BY <2>1, <1>a, <1>r DEF GetFails
  <2>2. CASE Get \/ ResolveKeep \/ ResolveDrop \/ Resolved \/ Hydrated
    BY <2>2, <1>a DEF Get, ResolveKeep, ResolveDrop, Resolved, Hydrated
  <2>3. CASE ResolveDropFails \/ ResolveReject \/ ResolveCompact \/ HydratedFails
    BY <2>3, <1>a, <1>t
       DEF ResolveDropFails, ResolveReject, ResolveCompact, HydratedFails, Fail
  <2> QED BY <1>3, <2>1, <2>2, <2>3 DEF Hydrate
<1>4. CASE Replay
  BY <1>4, <1>a DEF Replay, ReplayPut, ReplayPutFails, ReplaySnapshot,
                    ReplaySnapshotFails, ReplayAck, ReplayAckFails, ReplayCompact,
                    AbortReplay
<1>5. CASE Listen
  <2>1. CASE SubscribeFails \/ StreamEnds
    BY <2>1, <1>r DEF SubscribeFails, StreamEnds
  <2>2. CASE ConflictRejected \/ SaveEventFails
    BY <2>2, <1>t DEF ConflictRejected, SaveEventFails, Fail
  <2>3. CASE Subscribe \/ SaveEvent
    BY <2>3, <1>a DEF Subscribe, SaveEvent
  <2>4. CASE NewsFromOthers \/ EchoSuppressed \/ ConflictRemoteWins \/ ConflictLocalWins
    BY <2>4, <1>a DEF NewsFromOthers, EchoSuppressed, ConflictRemoteWins,
                      ConflictLocalWins, EventApplies, EventIgnored, AfterEvent
  <2> QED BY <1>5, <2>1, <2>2, <2>3, <2>4 DEF Listen
<1>6. CASE WriteOnline
  <2>h. pc \in WritePCs => cur.home = "stream" /\ cur.ev \in Event
    BY <1>0, CurrentType DEF IndInv, UnderWay
  <2>1. CASE WriteBadPath \/ WriteStored
    BY <2>1, <1>a DEF WriteBadPath, WriteStored
  <2>2. CASE WriteUnstored
    <3>1. CASE pc' = "stream"
      BY <3>1, <1>a
    <3>2. CASE pc' # "stream"
      <4>1. /\ pc' = "wput" /\ pending' = Append(pending, Head(queue).ev)
            /\ cur'.ev = Head(queue).ev /\ queue # <<>>
        BY <2>2, <3>2 DEF WriteUnstored, Received
      <4> QED BY <1>0, <4>1, <1>p, QueueHead
    <3> QED BY <3>1, <3>2
  <2>3. CASE WriteAppend \/ WriteSnapshot
    <3>1. CASE pc' = "wput"
      <4>1. pending' = Append(pending, cur.ev) /\ cur' = cur /\ pc \in WritePCs
        BY <2>3, <3>1, <2>h DEF WriteAppend, WriteSnapshot, FinishOnline, Finish
      <4> QED BY <2>h, <3>1, <4>1, <1>p
    <3>2. CASE pc' # "wput"
      BY <2>3, <3>2, <2>h, <1>a DEF WriteAppend, WriteSnapshot, FinishOnline, Finish
    <3> QED BY <3>1, <3>2
  <2>4. CASE WriteAppendFails \/ WriteSnapshotFails
    BY <2>4, <2>h, <1>a DEF WriteAppendFails, WriteSnapshotFails, FinishOnline, Finish
  <2>5. CASE WritePut \/ WritePutFails \/ WriteAck \/ WriteCompact
    BY <2>5, <2>h, <1>a DEF WritePut, WritePutFails, WriteAck, WriteCompact, FinishOnline,
                            Finish
  <2> QED BY <1>6, <2>1, <2>2, <2>3, <2>4, <2>5 DEF WriteOnline
<1>7. CASE WriteOffline
  <2>1. pc \in OfflinePCs => cur.home \in {"get", "queue"}
    BY DEF IndInv, UnderWay
  <2> QED BY <1>7, <1>a, <2>1
          DEF WriteOffline, OfflineRefused, OfflineAccept, OfflineAppend,
              OfflineAppendFails, OfflineSnapshot, FinishOffline, Finish, Received, Home
<1>8. ASSUME UNCHANGED <<pc, pending, cur>> PROVE OwnEntryLast'
  BY <1>8 DEF OwnEntryLast, Running
<1>9. CASE Environment
  <2>1. CASE Crash \/ Restart
    BY <2>1 DEF Crash, Restart, Release, OwnEntryLast
  <2> QED BY <1>8, <1>9, <2>1 DEF Environment, Submit, Abandon, Shutdown, Cut, OtherWrite
<1>10. CASE UNCHANGED vars
  BY <1>8, <1>10 DEF vars
<1> QED BY <1>1, <1>2, <1>3, <1>4, <1>5, <1>6, <1>7, <1>9, <1>10 DEF Next, Task

\* A step after which no stream has been cut and no request left unanswered is not
\* one that does either.
LEMMA UnbrokenBefore ==
  ASSUME TypeOK, FaultsLeft, [Next]_vars, Unbroken'
  PROVE  Unbroken /\ ~ Fault("cut") /\ ~ Fault("put")
<1>1. OneFault /\ "cut" \in FaultKinds /\ "put" \in FaultKinds
  BY StepFaults DEF FaultKinds
<1>2. /\ Used("cut") \in Nat /\ Used("cut")' \in Nat /\ Used("cut") <= Used("cut")'
      /\ Used("put") \in Nat /\ Used("put")' \in Nat /\ Used("put") <= Used("put")'
  BY <1>1, FaultsFall
<1>3. Used("cut")' + Used("put")' = 0
  BY DEF Unbroken
<1>4. Used("cut") = 0 /\ Used("put") = 0 /\ Used("cut")' = 0 /\ Used("put")' = 0
  BY <1>2, <1>3
<1>5. /\ Fault("cut") => Used("cut")' = Used("cut") + 1
      /\ Fault("put") => Used("put")' = Used("put") + 1
  BY <1>1, FaultCounted
<1> QED BY <1>4, <1>5 DEF Unbroken

\* No entry whose echo is waited for is of a write the database refuses.
NoneRefused ==
  Online /\ Unbroken => \A i \in DOMAIN Outstanding : Outstanding[i] \notin Denied

\* The list without its last entry.
LEMMA FrontRemoved ==
  ASSUME NEW S, NEW s \in Seq(S), s # <<>> PROVE RemoveAt(s, Len(s)) = Front(s)
<1> DEFINE u == RemoveAt(s, Len(s))
           t == Append(Front(s), s[Len(s)])
<1>1. Len(s) \in Nat /\ Len(s) \in 1..Len(s)
  <2>1. Len(s) \in Nat /\ Len(s) # 0
    BY LenProperties, EmptySeq
  <2> QED BY <2>1
<1>2. /\ u \in Seq(S) /\ Len(u) = Len(s) - 1
      /\ \A i \in 1..(Len(s) - 1) :
           u[i] = IF i < Len(s) THEN s[i] ELSE s[i + 1]
  BY <1>1, RemoveAtProperties
<1>3. Front(s) \in Seq(S) /\ t = s
  BY FrontLast
<1>4. s[Len(s)] \in S
  BY <1>1, ElementOfSeq
<1>5. /\ Len(t) = Len(Front(s)) + 1 /\ Len(Front(s)) \in Nat
      /\ \A i \in 1..Len(Front(s)) : t[i] = Front(s)[i]
  BY <1>3, <1>4, AppendProperties, LenProperties
<1> HIDE DEF t, u
<1>6. Len(Front(s)) = Len(s) - 1
  BY <1>1, <1>3, <1>5
<1>7. \A i \in 1..Len(u) : u[i] = Front(s)[i]
  <2> SUFFICES ASSUME NEW i \in 1..Len(u) PROVE u[i] = Front(s)[i]
    OBVIOUS
  <2>1. i < Len(s) /\ i \in 1..Len(Front(s))
    BY <1>1, <1>2, <1>6
  <2> QED BY <1>2, <1>3, <1>5, <2>1
<1>8. u = Front(s)
  BY <1>2, <1>3, <1>6, <1>7, SeqEqual
<1> QED BY <1>8 DEF u

\* A refused write takes its own entry out of `pending`, the last, and leaves the
\* others in their order.
LEMMA RefusedTakesOwn ==
  ASSUME IndInv, OwnEntryLast, NoneRefused, Unbroken, ~ Fault("put")
  PROVE  WritePutFails => pending' = Front(pending)
<1> SUFFICES ASSUME WritePutFails PROVE pending' = Front(pending)
  OBVIOUS
<1>1. /\ pc = "wput" /\ cur.ev \in Denied /\ pending' = WithoutEvent(pending, cur.ev)
  BY DEF WritePutFails
<1>2. pending \in Seq(Event) /\ pending # <<>> /\ pending[Len(pending)] = cur.ev
  BY <1>1 DEF IndInv, TypeOK, OwnEntryLast
<1>3. DOMAIN pending = 1..Len(pending) /\ Len(pending) \in 1..Len(pending)
  <2>1. DOMAIN pending = 1..Len(pending) /\ Len(pending) \in Nat /\ Len(pending) # 0
    BY <1>2, LenProperties, EmptySeq
  <2> QED BY <2>1
<1>4. PICK k \in 1..Len(pending) :
        pending[k] = cur.ev /\ pending' = RemoveAt(pending, k)
  BY <1>1, <1>2, <1>3, WithoutEventAt
<1>5. \A i \in DOMAIN Front(pending) : Front(pending)[i] \notin Denied
  BY <1>1 DEF NoneRefused, Online, Outstanding
<1>6. /\ DOMAIN Front(pending) = 1..(Len(pending) - 1)
      /\ \A i \in 1..(Len(pending) - 1) : Front(pending)[i] = pending[i]
  <2>1. Front(pending) \in Seq(Event) /\ Append(Front(pending), cur.ev) = pending
    BY <1>2, FrontLast
  <2>2. cur.ev \in Event
    BY <1>2, <1>3, ElementOfSeq
  <2> DEFINE t == Append(Front(pending), cur.ev)
  <2>3. /\ Len(t) = Len(Front(pending)) + 1 /\ Len(Front(pending)) \in Nat
        /\ DOMAIN Front(pending) = 1..Len(Front(pending))
        /\ \A i \in 1..Len(Front(pending)) : t[i] = Front(pending)[i]
    BY <2>1, <2>2, AppendProperties, LenProperties
  <2>4. t = pending
    BY <2>1
  <2> HIDE DEF t
  <2>5. Len(Front(pending)) = Len(pending) - 1
    BY <2>3, <2>4
  <2> QED BY <2>3, <2>4, <2>5
<1>7. k = Len(pending)
  <2>1. k \notin 1..(Len(pending) - 1)
    BY <1>1, <1>4, <1>5, <1>6
  <2>2. Len(pending) \in Nat /\ k \in 1..Len(pending)
    BY <1>2, LenProperties
  <2> QED BY <2>1, <2>2
<1> QED BY <1>2, <1>4, <1>7, FrontRemoved

\* Until a task is online its lists agree.
LEMMA StepListsAgree ==
  ASSUME IndInv, JournalOrder, OwnEntryLast, EchoesFollow, [Next]_vars
  PROVE  ListsAgree'
<1> SUFFICES ASSUME Running', ~ Online', Unbroken'
             PROVE  SameWrites' /\ (pc' = "sub" => durable' = <<>>)
  BY DEF ListsAgree, SameWrites
<1>0. TypeOK /\ Increasing(durable) /\ Unbroken
  BY UnbrokenBefore DEF IndInv, IdsIncrease, JournalOrder
<1>1. Running /\ ~ Online => SameWrites /\ (pc = "sub" => durable = <<>>)
  BY <1>0 DEF EchoesFollow, ListsAgree, SameWrites
<1>2. ListStep
  BY <1>0, StepLists DEF JournalOrder, EchoesFollow, EchoesUnderWay, Online
<1>3. CASE Running /\ ~ Online /\ UNCHANGED <<pending, durable>>
           /\ (pc' = "sub" => pc = "sub" \/ durable = <<>>)
  BY <1>1, <1>3 DEF SameWrites
<1>4. CASE pc' = "get" /\ durable' \in Seq(Mutation) /\ pending' = EventsOf(durable')
  BY <1>4 DEF SameWrites
<1>5. CASE /\ pc = "oappend" /\ pc' = "osnap"
           /\ pending' = Append(pending, CurMut.ev) /\ durable' = Append(durable, CurMut)
  <2>1. CurMut \in Mutation /\ SameWrites
    BY <1>0, <1>1, <1>5, CurrentType DEF Running, Online
  <2> QED BY <1>0, <1>5, <2>1, SameAppended
<1>6. CASE /\ pc \in {"resolve", "rack"} /\ pc' \in {"resolve", "rput", "rcomp"}
           /\ \E m : /\ Holds(m) /\ pending' = WithoutEvent(pending, m.ev)
                     /\ durable' = Without(durable, m.id)
  <2>1. SameWrites
    BY <1>1, <1>6 DEF Running, Online
  <2> QED BY <1>0, <1>6, <2>1, SameRemoved
<1> QED BY <1>2, <1>3, <1>4, <1>5, <1>6 DEF ListStep

\* What the database does with a write while the stream is open.
LEMMA AcceptStream ==
  ASSUME NEW e, Remote!Accept(e), open
  PROVE  /\ stream' = Append(stream, Spelled(e, "stream")) /\ open'
         /\ remote' = ApplyEvent(remote, e)
BY DEF Remote!Accept, Remote!Spelled, Spelled, Remote!ApplyEvent, Remote!Touches,
       ApplyEvent, Touches

\* What a received event does to the stream.
LEMMA ReceiveStream ==
  ASSUME Hears
  PROVE  /\ pc = "stream" /\ pc' \in {"stream", "evsnap"} /\ stream # <<>>
         /\ stream' = Tail(stream) /\ UNCHANGED <<remote, open>>
BY DEF Hears, NewsFromOthers, EchoSuppressed, ConflictRemoteWins, ConflictLocalWins,
       EventApplies, EventIgnored, AfterEvent, Remote!Receive

\* The two ways an event leaves the entries.
LEMMA HeardOrRemoved ==
  ASSUME Hears, NEW e, e = Head(stream)
  PROVE  \/ /\ OnPath(e) = {} \/ pending[FirstOnPath(e)] # e
            /\ pending' = pending
         \/ OnPath(e) # {} /\ pending' = RemoveAt(pending, FirstOnPath(e))
BY DEF Hears, NewsFromOthers, EchoSuppressed, ConflictRemoteWins, ConflictLocalWins,
       EventApplies, EventIgnored

\* A task that subscribes waits for no echo.
LEMMA SubscribedEmpty ==
  ASSUME TypeOK, ListsAgree, pc = "sub", Unbroken PROVE pending = <<>>
<1>1. durable = <<>> /\ SameWrites
  BY DEF ListsAgree, SameWrites, Running, Online
<1>2. EventsOf(durable) = <<>>
  <2>1. durable \in Seq(Mutation) /\ Len(durable) = 0
    BY <1>1, EmptySeq DEF TypeOK
  <2> QED BY <2>1, EventsType, EmptySeq
<1>3. \A e \in Event : Count(pending, e) = 0
  BY <1>1, <1>2, CountEmpty DEF SameWrites
<1> QED BY <1>3, NothingCounted DEF TypeOK

\* Nothing to wait for is found on any stream.
LEMMA NoEchoes == ASSUME NEW s PROVE \E f \in Echoes(<<>>, s) : DOMAIN f = {}
<1>1. Heard(<<>>) = {}
  BY DEF Heard
<1>2. [i \in {} |-> i] \in Echoes(<<>>, s)
  BY <1>1 DEF Echoes
<1> QED BY <1>2

\* Outstanding is a list of events.
LEMMA OutstandingType ==
  ASSUME TypeOK, OwnEntryLast PROVE Outstanding \in Seq(Event) /\ stream \in Seq(Event)
BY FrontLast DEF TypeOK, OwnEntryLast, Outstanding

\* What a step does as long as no stream has been cut and each request answered.
LEMMA StepEchoAnswered ==
  ASSUME IndInv, JournalOrder, OwnEntryLast, NoneRefused, [Next]_vars, Unbroken'
  PROVE  Unbroken /\ EchoStep
<1>1. Unbroken /\ ~ Fault("cut") /\ ~ Fault("put")
  BY UnbrokenBefore DEF IndInv, JournalOrder
<1> QED BY <1>1, RefusedTakesOwn, StepEcho

\* A task that is online finds the echo of each write the database has accepted, in
\* the order of the entries.
LEMMA StepEchoesUnderWay ==
  ASSUME IndInv, JournalOrder, OwnEntryLast, NoneRefused, EchoesFollow, [Next]_vars
  PROVE  EchoesUnderWay'
<1> SUFFICES ASSUME Online', Unbroken'
             PROVE  open' /\ Echoes(Outstanding', stream') # {}
  BY DEF EchoesUnderWay
<1>0. TypeOK /\ Unbroken /\ EchoStep
  BY StepEchoAnswered DEF IndInv
<1>1. Outstanding \in Seq(Event) /\ stream \in Seq(Event)
  BY <1>0, OutstandingType
<1>2. Online => open /\ Echoes(Outstanding, stream) # {}
  BY <1>0 DEF EchoesFollow, EchoesUnderWay
<1>3. CASE Calm
  BY <1>2, <1>3 DEF Calm
<1>4. CASE Others
  <2>1. PICK e \in Event : Remote!Accept(e)
    BY <1>4 DEF Others
  <2>2. PICK f : f \in Echoes(Outstanding, stream)
    BY <1>2, <1>4 DEF Others
  <2>3. /\ open' /\ stream' = Append(stream, Spelled(e, "stream"))
        /\ Outstanding' = Outstanding
    BY <1>2, <1>4, <2>1, AcceptStream DEF Others
  <2>4. f \in Echoes(Outstanding, stream')
    BY <1>1, <2>2, <2>3, SpelledType, EchoesExtend
  <2> QED BY <2>3, <2>4
<1>5. CASE Own
  <2>1. cur.ev \in Event /\ Online
    BY <1>0, <1>5, CurrentType DEF Own, Online
  <2>2. open' /\ stream' = Append(stream, Spelled(cur.ev, "stream"))
    BY <1>2, <1>5, <2>1, AcceptStream DEF Own
  <2> QED BY <1>1, <1>2, <1>5, <2>1, <2>2, EchoesBoth DEF Own
<1>6. CASE Hears
  <2>1. /\ pc = "stream" /\ pc' \in {"stream", "evsnap"} /\ stream # <<>>
        /\ stream' = Tail(stream) /\ open' = open
    BY <1>6, ReceiveStream
  <2>2. Outstanding = pending /\ Outstanding' = pending' /\ Online
    BY <2>1 DEF Outstanding, Online
  <2>3. PICK f \in Echoes(pending, stream) : TRUE
    BY <1>2, <2>2
  <2>4. Echoes(pending', Tail(stream)) # {}
    BY <1>0, <1>6, <2>1, <2>3, HeardOrRemoved, EchoesKept, EchoesRemoved
  <2> QED BY <1>2, <2>1, <2>2, <2>4
<1>7. CASE Subscribe
  <2>1. pc = "sub" /\ pc' = "stream" /\ pending' = pending /\ open'
    BY <1>7 DEF Subscribe, Remote!Open
  <2>2. Outstanding' = <<>>
    BY <1>0, <2>1, SubscribedEmpty DEF EchoesFollow, Outstanding
  <2> QED BY <2>1, <2>2, NoEchoes
<1> QED BY <1>0, <1>3, <1>4, <1>5, <1>6, <1>7 DEF EchoStep

\* A refused write leaves the entries as they were, any other the database has
\* accepted.
LEMMA StepNoneRefused ==
  ASSUME IndInv, JournalOrder, OwnEntryLast, NoneRefused, EchoesFollow, [Next]_vars
  PROVE  NoneRefused'
<1> SUFFICES ASSUME Online', Unbroken'
             PROVE  \A i \in DOMAIN Outstanding' : Outstanding'[i] \notin Denied
  BY DEF NoneRefused
<1>0. TypeOK /\ Unbroken /\ EchoStep
  BY StepEchoAnswered DEF IndInv
<1>1. Outstanding \in Seq(Event) /\ stream \in Seq(Event)
  BY <1>0, OutstandingType
<1>2. Online => \A i \in DOMAIN Outstanding : Outstanding[i] \notin Denied
  BY <1>0 DEF NoneRefused
<1>3. CASE Calm \/ Others
  BY <1>2, <1>3 DEF Calm, Others
<1>4. CASE Own
  <2>1. cur.ev \in Event /\ Online /\ cur.ev \notin Denied
    BY <1>0, <1>4, CurrentType DEF Own, Online
  <2>2. /\ Len(Outstanding) \in Nat /\ DOMAIN Outstanding = 1..Len(Outstanding)
        /\ DOMAIN Outstanding' = 1..(Len(Outstanding) + 1)
        /\ \A i \in 1..Len(Outstanding) : Outstanding'[i] = Outstanding[i]
        /\ Outstanding'[Len(Outstanding) + 1] = cur.ev
    BY <1>1, <1>4, <2>1, AppendProperties, LenProperties DEF Own
  <2>3. ASSUME NEW i \in DOMAIN Outstanding' PROVE Outstanding'[i] \notin Denied
    <3>1. i \in 1..Len(Outstanding) \/ i = Len(Outstanding) + 1
      BY <2>2
    <3> QED BY <1>2, <2>1, <2>2, <3>1
  <2> QED BY <2>3
<1>5. CASE Hears
  <2>1. pc = "stream" /\ pc' \in {"stream", "evsnap"}
    BY <1>5, ReceiveStream
  <2>2. Outstanding = pending /\ Outstanding' = pending' /\ Online
    BY <2>1 DEF Outstanding, Online
  <2>3. ASSUME pending' = RemoveAt(pending, FirstOnPath(Head(stream))),
               OnPath(Head(stream)) # {}, NEW i \in DOMAIN pending'
        PROVE  pending'[i] \notin Denied
    <3> DEFINE k == FirstOnPath(Head(stream))
    <3>1. pending \in Seq(Event) /\ k \in OnPath(Head(stream))
      BY <1>0, <2>3, FirstOnPathFirst DEF TypeOK
    <3>2. Len(pending) \in Nat /\ DOMAIN pending = 1..Len(pending) /\ k \in 1..Len(pending)
      BY <3>1, LenProperties DEF OnPath
    <3> HIDE DEF k
    <3>3. pending' = RemoveAt(pending, k)
      BY <2>3 DEF k
    <3>4. /\ DOMAIN pending' = 1..(Len(pending) - 1)
          /\ \A j \in 1..(Len(pending) - 1) :
               pending'[j] = IF j < k THEN pending[j] ELSE pending[j + 1]
      <4>1. /\ pending' \in Seq(Event) /\ Len(pending') = Len(pending) - 1
            /\ \A j \in 1..(Len(pending) - 1) :
                 pending'[j] = IF j < k THEN pending[j] ELSE pending[j + 1]
        BY <3>1, <3>2, <3>3, RemoveAtProperties
      <4> QED BY <4>1, LenProperties
    <3>5. \E j \in 1..Len(pending) : pending'[i] = pending[j]
      <4>1. i \in 1..Len(pending) /\ i + 1 \in 1..Len(pending)
        BY <2>3, <3>2, <3>4
      <4> QED BY <2>3, <3>4, <4>1
    <3> QED BY <1>2, <2>2, <3>2, <3>5
  <2> QED BY <1>2, <1>5, <2>2, <2>3, HeardOrRemoved
<1>6. CASE Subscribe
  <2>1. pc = "sub" /\ pc' = "stream" /\ pending' = pending
    BY <1>6 DEF Subscribe
  <2>2. Outstanding' = <<>>
    BY <1>0, <2>1, SubscribedEmpty DEF EchoesFollow, Outstanding
  <2> QED BY <2>2
<1> QED BY <1>0, <1>3, <1>4, <1>5, <1>6 DEF EchoStep

\* The inductive invariant of EchoesFollow.
Following == OwnEntryLast /\ NoneRefused /\ EchoesFollow

LEMMA StepFollowing ==
  ASSUME IndInv, JournalOrder, Following, [Next]_vars PROVE Following'
BY StepOwnEntryLast, StepNoneRefused, StepListsAgree, StepEchoesUnderWay
   DEF Following, EchoesFollow

\* Initially.
LEMMA InitFollowing ==
  ASSUME Init PROVE Following
BY DEF Init, Following, OwnEntryLast, NoneRefused, EchoesFollow, ListsAgree,
       EchoesUnderWay, Running, Online

\* As long as no stream is cut and no request left unanswered, each entry the task
\* waits for has its echo on the stream, and they are in the same order: refused
\* writes, crashes and failed store operations do not disturb it.
THEOREM EchoesInOrder == Spec => []EchoesFollow
<1>1. Following => EchoesFollow
  BY DEF Following
<1> QED BY <1>1, StepFollowing, InitFollowing, Inductive, JournalIsOrdered, PTL DEF Spec

\* Entries that have their echoes on an empty stream are none.
LEMMA FollowingMeets ==
  ASSUME TypeOK, EchoesFollow PROVE EchoesMet
<1> SUFFICES ASSUME Quiescent, Unbroken, NEW i \in DOMAIN pending,
                    pending[i].spelling = "stream"
             PROVE  FALSE
  BY DEF EchoesMet
<1>1. Outstanding = pending /\ stream = <<>> /\ Online
  BY DEF Quiescent, Outstanding, Online
<1>2. PICK f : f \in Echoes(pending, <<>>)
  BY <1>1 DEF EchoesFollow, EchoesUnderWay
<1>3. i \in Heard(pending)
  BY DEF Heard
<1>4. f[i] \in DOMAIN (<<>>)
  BY <1>2, <1>3 DEF Echoes
<1> QED BY <1>4

\* There, a task at rest waits for no echo that will not come.
THEOREM EchoesAllMet == Spec => []EchoesMet
BY FollowingMeets, EchoesInOrder, TypeCorrect, PTL

-----------------------------------------------------------------------------
(* The state follows. *)

\* A step at an await of handle_write that was one before.
WriteGoesOn ==
  /\ pc \in WritePCs /\ cur' = cur
  /\ pc' = "wappend" => pc = "wappend" /\ tree' = tree
  /\ Optimistic /\ pc' \in {"wsnap", "wput"} =>
       \/ pc = "wappend" /\ cur.ev \notin BadKey /\ tree' = ApplyEvent(tree, cur.ev)
       \/ pc \in {"wsnap", "wput"} /\ tree' = tree

\* A step that takes a write from the channel.
WriteTaken ==
  /\ pc = "stream" /\ queue # <<>>
  /\ cur'.ev = Head(queue).ev /\ cur'.ev \notin BadPath /\ cur'.old = tree
  /\ pc' = "wappend" => tree' = tree
  /\ pc' # "wsnap"
  /\ Optimistic /\ pc' = "wput" =>
       cur'.ev \notin BadKey /\ tree' = ApplyEvent(tree, cur'.ev)

LocalsStep == pc' \notin WritePCs \/ WriteGoesOn \/ WriteTaken

\* Every step touches the locals of handle_write in one of these ways.
LEMMA StepLocals ==
  ASSUME IndInv, [Next]_vars PROVE LocalsStep
<1>t. ASSUME NEW st, Terminate(st) PROVE LocalsStep
  BY <1>t DEF Terminate, LocalsStep
<1>a. ASSUME pc' \notin WritePCs PROVE LocalsStep
  BY <1>a DEF LocalsStep
<1>r. ASSUME NEW v, Retry(v) \/ Reconnect(v) PROVE LocalsStep
  BY <1>r, <1>t, <1>a DEF Retry, Reconnect, QueueWrites
<1>1. CASE Load
  BY <1>1, <1>a, <1>t DEF Load, Misconfigured, RestoreFails, StartUnstored, Restore, Fail
<1>2. CASE Waiting
  BY <1>2, <1>a, <1>t DEF Waiting, BackedOff, OfflineDelayOver, QueueDelayOver, Stop
<1>3. CASE Hydrate
  <2>1. CASE GetFails
    BY <2>1, <1>a, <1>r DEF GetFails
  <2>2. CASE Get \/ ResolveKeep \/ ResolveDrop \/ Resolved \/ Hydrated
    BY <2>2, <1>a DEF Get, ResolveKeep, ResolveDrop, Resolved, Hydrated
  <2>3. CASE ResolveDropFails \/ ResolveReject \/ ResolveCompact \/ HydratedFails
    BY <2>3, <1>a, <1>t
       DEF ResolveDropFails, ResolveReject, ResolveCompact, HydratedFails, Fail
  <2> QED BY <1>3, <2>1, <2>2, <2>3 DEF Hydrate
<1>4. CASE Replay
  BY <1>4, <1>a DEF Replay, ReplayPut, ReplayPutFails, ReplaySnapshot,
                    ReplaySnapshotFails, ReplayAck, ReplayAckFails, ReplayCompact,
                    AbortReplay
<1>5. CASE Listen
  <2>1. CASE SubscribeFails \/ StreamEnds
    BY <2>1, <1>r DEF SubscribeFails, StreamEnds
  <2>2. CASE ConflictRejected \/ SaveEventFails
    BY <2>2, <1>t DEF ConflictRejected, SaveEventFails, Fail
  <2>3. CASE Subscribe \/ SaveEvent
    BY <2>3, <1>a DEF Subscribe, SaveEvent
  <2>4. CASE NewsFromOthers \/ EchoSuppressed \/ ConflictRemoteWins \/ ConflictLocalWins
    BY <2>4, <1>a DEF NewsFromOthers, EchoSuppressed, ConflictRemoteWins,
                      ConflictLocalWins, EventApplies, EventIgnored, AfterEvent
  <2> QED BY <1>5, <2>1, <2>2, <2>3, <2>4 DEF Listen
<1>6. CASE WriteOnline
  <2>h. pc \in WritePCs => cur.home = "stream"
    BY DEF IndInv, UnderWay
  <2>1. CASE WriteBadPath
    BY <2>1, <1>a DEF WriteBadPath
  <2>2. CASE WriteStored \/ WriteUnstored
    BY <2>2, <1>a DEF WriteStored, WriteUnstored, Received, LocalsStep, WriteTaken
  <2>3. CASE WriteAppend \/ WriteAppendFails \/ WriteSnapshot \/ WriteSnapshotFails
    BY <2>3, <2>h DEF WriteAppend, WriteAppendFails, WriteSnapshot, WriteSnapshotFails,
                      FinishOnline, Finish, LocalsStep, WriteGoesOn
  <2>4. CASE WritePut \/ WritePutFails \/ WriteAck \/ WriteCompact
    BY <2>4, <2>h DEF WritePut, WritePutFails, WriteAck, WriteCompact, FinishOnline,
                      Finish, LocalsStep, WriteGoesOn
  <2> QED BY <1>6, <2>1, <2>2, <2>3, <2>4 DEF WriteOnline
<1>7. CASE WriteOffline
  <2>1. pc \in OfflinePCs => cur.home \in {"get", "queue"}
    BY DEF IndInv, UnderWay
  <2> QED BY <1>7, <1>a, <2>1
          DEF WriteOffline, OfflineRefused, OfflineAccept, OfflineAppend,
              OfflineAppendFails, OfflineSnapshot, FinishOffline, Finish, Received, Home
<1>8. ASSUME UNCHANGED <<pc, tree, cur>> PROVE LocalsStep
  BY <1>8 DEF LocalsStep, WriteGoesOn
<1>9. CASE Environment
  <2>1. CASE Crash \/ Restart
    BY <2>1, <1>a DEF Crash, Restart
  <2> QED BY <1>8, <1>9, <2>1 DEF Environment, Submit, Abandon, Shutdown, Cut, OtherWrite
<1>10. CASE UNCHANGED vars
  BY <1>8, <1>10 DEF vars
<1> QED BY <1>1, <1>2, <1>3, <1>4, <1>5, <1>6, <1>7, <1>9, <1>10 DEF Next, Task

\* The channel holds writes of the callers only.
LEMMA StepQueued ==
  ASSUME IndInv, \A i \in DOMAIN queue : queue[i].ev \in Writes, [Next]_vars
  PROVE  \A i \in DOMAIN queue' : queue'[i].ev \in Writes
<1>0. TypeOK
  BY DEF IndInv
<1>1. /\ queue \in Seq([call : Calls, ev : Event])
      /\ Len(queue) \in Nat /\ DOMAIN queue = 1..Len(queue)
  BY <1>0, QueueFacts
<1>2. CASE queue' = queue
  BY <1>2
<1>3. CASE queue' = <<>>
  BY <1>3
<1>4. CASE queue # <<>> /\ queue' = Tail(queue)
  BY <1>0, <1>4, TakenQueue
<1>5. ASSUME NEW c \in Calls, NEW e \in Writes,
             queue' = Append(queue, [call |-> c, ev |-> e])
      PROVE  \A i \in DOMAIN queue' : queue'[i].ev \in Writes
  <2> DEFINE w == [call |-> c, ev |-> e]
  <2>1. w \in [call : Calls, ev : Event] /\ w.ev = e
    BY EngineAssumption
  <2> HIDE DEF w
  <2>2. /\ DOMAIN queue' = 1..(Len(queue) + 1)
        /\ \A i \in 1..Len(queue) : queue'[i] = queue[i]
        /\ queue'[Len(queue) + 1] = w
    BY <1>1, <1>5, <2>1, AppendProperties, LenProperties DEF w
  <2>3. ASSUME NEW i \in 1..(Len(queue) + 1) PROVE queue'[i].ev \in Writes
    <3>1. CASE i \in 1..Len(queue)
      BY <1>1, <2>2, <3>1
    <3>2. CASE i = Len(queue) + 1
      BY <2>1, <2>2, <3>2
    <3> QED BY <1>1, <3>1, <3>2
  <2> QED BY <2>2, <2>3
<1> QED BY <1>2, <1>3, <1>4, <1>5, StepQueue DEF QueueStep, Untouched, Takes, Submits

LEMMA StepWriteLocals ==
  ASSUME IndInv, WriteLocals, [Next]_vars PROVE WriteLocals'
<1>1. \A i \in DOMAIN queue' : queue'[i].ev \in Writes
  BY StepQueued DEF WriteLocals
<1>2. Optimistic' <=> Optimistic
  BY StepFaults DEF Optimistic
<1>3. CASE pc' \notin WritePCs
  BY <1>1, <1>3 DEF WriteLocals
<1>4. CASE WriteGoesOn
  BY <1>1, <1>2, <1>4 DEF WriteLocals, WriteGoesOn
<1>5. CASE WriteTaken
  <2>1. Head(queue).ev \in Writes
    <3>1. Len(queue) \in Nat /\ DOMAIN queue = 1..Len(queue) /\ Len(queue) # 0
          /\ Head(queue) = queue[1]
      BY <1>5, QueueFacts, EmptySeq, HeadTailProperties DEF IndInv, WriteTaken
    <3> QED BY <3>1 DEF WriteLocals
  <2> QED BY <1>1, <1>2, <1>5, <2>1 DEF WriteLocals, WriteTaken
<1> QED BY <1>3, <1>4, <1>5, StepLocals DEF LocalsStep

\* An event of the whole tree sets the state.
LEMMA WholeApplied ==
  ASSUME NEW v \in Tree, NEW e \in Event, DOMAIN e.data = Keys
  PROVE  ApplyEvent(v, e) = e.data
<1>1. e.data \in Data
  BY DEF Event
<1>2. PICK S \in SUBSET Keys : e.data \in [S -> Vals]
  BY <1>1 DEF Data
<1>3. e.data \in [Keys -> Vals]
  BY <1>2
<1>4. ApplyEvent(v, e) = [k \in Keys |-> e.data[k]]
  BY DEF ApplyEvent, Touches
<1> QED BY <1>3, <1>4

\* As long as the stream has not been cut, what it holds are whole trees, the last
\* of them the database's value.
StreamWhole ==
  Online /\ Unbroken =>
    /\ \A n \in DOMAIN stream : stream[n].spelling = "stream" /\ Whole(stream[n])
    /\ stream # <<>> => stream[Len(stream)].data = remote

\* What the database accepts goes on the stream as such.
LEMMA WholeSent ==
  ASSUME WholeTrees, TypeOK, StreamWhole, Online, Unbroken, open,
         NEW e \in Event, e \in Reaching, Remote!Accept(e)
  PROVE  /\ stream' = Append(stream, Spelled(e, "stream")) /\ remote' = e.data
         /\ \A n \in DOMAIN stream' : stream'[n].spelling = "stream" /\ Whole(stream'[n])
         /\ stream'[Len(stream')].data = remote'
<1> DEFINE x == Spelled(e, "stream")
<1>1. stream \in Seq(Event) /\ remote \in Tree
  BY DEF TypeOK
<1>2. DOMAIN e.data = Keys /\ e.path = Root
  BY DEF WholeTrees, Whole
<1>3. stream' = Append(stream, x) /\ remote' = ApplyEvent(remote, e)
  BY AcceptStream
<1>4. remote' = e.data
  BY <1>1, <1>2, <1>3, WholeApplied
<1>5. x \in Event /\ x.spelling = "stream" /\ Whole(x) /\ x.data = e.data
  BY <1>2, SpelledType DEF Spelled, Whole, Event
<1> HIDE DEF x
<1>6. /\ Len(stream) \in Nat /\ DOMAIN stream = 1..Len(stream)
      /\ DOMAIN stream' = 1..(Len(stream) + 1) /\ Len(stream') = Len(stream) + 1
      /\ \A n \in 1..Len(stream) : stream'[n] = stream[n]
      /\ stream'[Len(stream) + 1] = x
  BY <1>1, <1>3, <1>5, AppendProperties, LenProperties
<1>7. ASSUME NEW n \in DOMAIN stream'
      PROVE  stream'[n].spelling = "stream" /\ Whole(stream'[n])
  <2>1. n \in 1..Len(stream) \/ n = Len(stream) + 1
    BY <1>6
  <2> QED BY <1>5, <1>6, <2>1 DEF StreamWhole
<1> QED BY <1>3, <1>4, <1>5, <1>6, <1>7 DEF x

LEMMA StepStreamWhole ==
  ASSUME WholeTrees, IndInv, JournalOrder, Following, WriteLocals, StreamWhole,
         [Next]_vars
  PROVE  StreamWhole'
<1> SUFFICES ASSUME Online', Unbroken'
             PROVE  /\ \A n \in DOMAIN stream' :
                         stream'[n].spelling = "stream" /\ Whole(stream'[n])
                    /\ stream' # <<>> => stream'[Len(stream')].data = remote'
  BY DEF StreamWhole, Whole
<1>0. TypeOK /\ Unbroken /\ EchoStep
  BY StepEchoAnswered DEF IndInv, Following
<1>1. Online => open
  BY <1>0 DEF Following, EchoesFollow, EchoesUnderWay
<1>2. stream \in Seq(Event) /\ remote \in Tree
  BY <1>0 DEF TypeOK
<1>3. CASE Calm
  BY <1>0, <1>3 DEF Calm, StreamWhole
<1>4. CASE Others
  BY <1>0, <1>1, <1>4, WholeSent DEF Others
<1>5. CASE Own
  <2>1. cur.ev \in Event /\ Online
    BY <1>0, <1>5, CurrentType DEF Own, Online
  <2>2. cur.ev \in Reaching
    BY <1>5, EngineAssumption DEF Own, WriteLocals, Reaching, Inapplicable
  <2> QED BY <1>0, <1>1, <1>5, <2>1, <2>2, WholeSent DEF Own
<1>6. CASE Hears
  <2>1. pc = "stream" /\ stream # <<>> /\ stream' = Tail(stream) /\ remote' = remote
    BY <1>6, ReceiveStream
  <2>2. /\ Len(stream) \in Nat /\ Len(stream) # 0 /\ DOMAIN stream = 1..Len(stream)
        /\ DOMAIN stream' = 1..(Len(stream) - 1) /\ Len(stream') = Len(stream) - 1
        /\ \A n \in 1..(Len(stream) - 1) : stream'[n] = stream[n + 1]
        /\ stream' \in Seq(Event)
    BY <1>2, <2>1, HeadTailProperties, LenProperties, EmptySeq
  <2>3. ASSUME NEW n \in DOMAIN stream'
        PROVE  stream'[n].spelling = "stream" /\ Whole(stream'[n])
    <3>1. n + 1 \in DOMAIN stream /\ stream'[n] = stream[n + 1]
      BY <2>2
    <3> QED BY <1>0, <2>1, <3>1 DEF StreamWhole, Online
  <2>4. ASSUME stream' # <<>> PROVE stream'[Len(stream')] = stream[Len(stream)]
    <3>1. Len(stream') # 0
      BY <2>2, <2>4, EmptySeq
    <3>2. Len(stream') \in 1..(Len(stream) - 1) /\ Len(stream') + 1 = Len(stream)
      BY <2>2, <3>1
    <3> QED BY <2>2, <3>2
  <2> QED BY <1>0, <2>1, <2>3, <2>4 DEF StreamWhole, Online
<1>7. CASE Subscribe
  <2> DEFINE x == PutRoot(remote)
  <2>1. stream' = <<x>> /\ remote' = remote
    BY <1>7 DEF Subscribe, Remote!Open, Remote!PutRoot, PutRoot
  <2>2. x.spelling = "stream" /\ Whole(x) /\ x.data = remote
    BY <1>2 DEF PutRoot, Whole, Tree
  <2> HIDE DEF x
  <2>3. DOMAIN stream' = {1} /\ Len(stream') = 1 /\ stream'[1] = x
    BY <2>1
  <2> QED BY <2>1, <2>2, <2>3
<1> QED BY <1>0, <1>3, <1>4, <1>5, <1>6, <1>7 DEF EchoStep

\* An event that no entry waits for and that is still on the stream.
Missed(p, s) ==
  \E f \in Echoes(p, s), n \in DOMAIN s :
    /\ \A i \in DOMAIN f : f[i] # n
    /\ config.conflict = "LocalWins" => n = Len(s)

\* The entry an event is about goes with it: no entry waits any more for what that
\* one waited for, nor for what none waited for.
LEMMA MissedAfterRemoval ==
  ASSUME TypeOK, stream # <<>>, NEW f \in Echoes(pending, stream),
         OnPath(Head(stream)) # {}, NEW k, k = FirstOnPath(Head(stream)),
         NEW n \in 2..Len(stream),
         (k \in Heard(pending) /\ f[k] = n) \/ \A i \in DOMAIN f : f[i] # n
  PROVE  \E g \in Echoes(RemoveAt(pending, k), Tail(stream)) :
           n - 1 \in DOMAIN Tail(stream) /\ \A i \in DOMAIN g : g[i] # n - 1
<1>0. pending \in Seq(Event) /\ stream \in Seq(Event)
  BY DEF TypeOK
<1>1. PICK g \in Echoes(RemoveAt(pending, k), Tail(stream)) :
        \A i \in DOMAIN g : \E j \in DOMAIN f : j # k /\ g[i] = f[j] - 1
  BY EchoesRemoved
<1>2. /\ DOMAIN f = Heard(pending) /\ Heard(pending) \subseteq 1..Len(pending)
      /\ \A i \in Heard(pending) : f[i] \in 1..Len(stream)
      /\ \A i, j \in Heard(pending) : i < j => f[i] < f[j]
      /\ Len(pending) \in Nat
  BY <1>0, EchoesProperties, HeardEntries
<1>3. ASSUME NEW j \in DOMAIN f, j # k PROVE f[j] \in Nat /\ f[j] # n
  <2>1. CASE k \in Heard(pending) /\ f[k] = n
    <3>1. j \in Nat /\ k \in Nat /\ f[j] \in Nat /\ f[k] \in Nat
      BY <1>2, <2>1
    <3>2. j < k \/ k < j
      BY <1>3, <3>1
    <3>3. f[j] < f[k] \/ f[k] < f[j]
      BY <1>2, <2>1, <3>2
    <3> QED BY <2>1, <3>1, <3>3
  <2>2. CASE \A i \in DOMAIN f : f[i] # n
    BY <1>2, <2>2
  <2> QED BY <2>1, <2>2
<1>4. \A i \in DOMAIN g : g[i] # n - 1
  BY <1>1, <1>3
<1>5. DOMAIN Tail(stream) = 1..(Len(stream) - 1) /\ Len(stream) \in Nat
  BY <1>0, HeadTailProperties, LenProperties
<1>6. n - 1 \in DOMAIN Tail(stream)
  BY <1>5
<1> QED BY <1>1, <1>4, <1>6

\* An event that is received, where all are of the whole tree.
LEMMA HearsCaughtUp ==
  ASSUME TypeOK, pc = "stream", open, Echoes(pending, stream) # {}, Hears,
         \A n \in DOMAIN stream : stream[n].spelling = "stream" /\ Whole(stream[n]),
         stream[Len(stream)].data = remote,
         tree = remote \/ Missed(pending, stream)
  PROVE  tree' = remote \/ Missed(pending', Tail(stream))
<1> DEFINE e == Head(stream)
           k == FirstOnPath(e)
<1>0. pending \in Seq(Event) /\ stream \in Seq(Event) /\ tree \in Tree /\ stream # <<>>
  BY ReceiveStream DEF TypeOK
<1>1. /\ Len(stream) \in Nat /\ Len(stream) # 0 /\ DOMAIN stream = 1..Len(stream)
      /\ e = stream[1] /\ e \in Event
      /\ DOMAIN Tail(stream) = 1..(Len(stream) - 1) /\ Len(Tail(stream)) = Len(stream) - 1
  BY <1>0, HeadTailProperties, LenProperties, EmptySeq
<1>2. e.spelling = "stream" /\ e.path = Root /\ DOMAIN e.data = Keys
  BY <1>1 DEF Whole
<1>3. /\ DOMAIN pending = 1..Len(pending)
      /\ Heard(pending) \subseteq 1..Len(pending)
  BY <1>0, HeardEntries
<1>4. ASSUME NEW f \in Echoes(pending, stream)
      PROVE  /\ DOMAIN f = Heard(pending)
             /\ \A i \in Heard(pending) : /\ f[i] \in 1..Len(stream)
                                          /\ stream[f[i]] = pending[i]
  BY <1>0, EchoesProperties
<1>5. PICK f0 : f0 \in Echoes(pending, stream)
  OBVIOUS
<1>k. ASSUME OnPath(e) # {}
      PROVE  k \in Heard(pending) /\ \A f \in Echoes(pending, stream) :
                                       pending[k] # e => f[k] \in 2..Len(stream)
  <2>1. k \in OnPath(e)
    BY <1>k, FirstOnPathFirst
  <2>2. k \in Heard(pending)
    BY <1>2, <2>1 DEF OnPath, Heard
  <2>3. ASSUME NEW f \in Echoes(pending, stream), pending[k] # e PROVE f[k] # 1
    BY <1>0, <2>2, <2>3, EchoAtHead
  <2>4. ASSUME NEW f \in Echoes(pending, stream), pending[k] # e
        PROVE  f[k] \in 2..Len(stream)
    <3>1. f[k] # 1 /\ f[k] \in 1..Len(stream)
      BY <1>4, <2>2, <2>3, <2>4
    <3> QED BY <1>1, <3>1
  <2> QED BY <2>2, <2>4
<1> HIDE DEF k, e
<1>6. CASE NewsFromOthers
  <2>1. OnPath(e) = {} /\ tree' = ApplyEvent(tree, e) /\ pending' = pending
    BY <1>6 DEF NewsFromOthers, EventApplies, e
  <2>2. Heard(pending) = {}
    <3> SUFFICES ASSUME NEW i \in Heard(pending) PROVE FALSE
      OBVIOUS
    <3>1. f0[i] \in DOMAIN stream /\ pending[i] = stream[f0[i]]
      BY <1>1, <1>4, <1>5
    <3>2. pending[i].path = Root /\ pending[i].spelling = "stream"
      BY <3>1 DEF Whole
    <3> QED BY <1>2, <1>3, <2>1, <3>2 DEF OnPath
  <2>3. CASE Len(stream) = 1
    <3>1. tree' = e.data
      BY <1>0, <1>1, <1>2, <2>1, WholeApplied
    <3> QED BY <1>1, <2>3, <3>1
  <2>4. CASE Len(stream) # 1
    <3>1. PICK g \in Echoes(pending, Tail(stream)) : \A i \in DOMAIN g : i \in DOMAIN f0
      BY <1>0, <1>5, <2>1, EchoesKept DEF e
    <3>2. DOMAIN g = {}
      BY <1>4, <1>5, <2>2, <3>1
    <3>3. Len(Tail(stream)) \in DOMAIN Tail(stream)
      BY <1>1, <2>4
    <3> QED BY <2>1, <3>2, <3>3 DEF Missed
  <2> QED BY <2>3, <2>4
<1>7. CASE EchoSuppressed
  <2>1. /\ OnPath(e) # {} /\ pending[k] = e /\ pending' = RemoveAt(pending, k)
        /\ tree' = tree
    BY <1>7 DEF EchoSuppressed, EventIgnored, e, k
  <2>2. CASE tree = remote
    BY <2>1, <2>2
  <2>3. CASE Missed(pending, stream)
    <3>1. PICK f \in Echoes(pending, stream), n \in DOMAIN stream :
            /\ \A i \in DOMAIN f : f[i] # n
            /\ config.conflict = "LocalWins" => n = Len(stream)
      BY <2>3 DEF Missed
    <3>2. k \in Heard(pending) /\ f[k] \in 1..Len(stream) /\ f[k] # n
      BY <1>4, <1>k, <2>1, <3>1
    <3>3. CASE n # 1
      <4>1. n \in 2..Len(stream)
        BY <1>1, <3>3
      <4>2. PICK g \in Echoes(pending', Tail(stream)) :
              n - 1 \in DOMAIN Tail(stream) /\ \A i \in DOMAIN g : g[i] # n - 1
        BY <1>0, <2>1, <3>1, <4>1, MissedAfterRemoval DEF e, k
      <4>3. config.conflict = "LocalWins" => n - 1 = Len(Tail(stream))
        BY <1>1, <3>1
      <4> QED BY <4>2, <4>3 DEF Missed
    <3>4. CASE n = 1
      <4>1. f[k] \in 2..Len(stream) /\ config.conflict # "LocalWins"
        BY <1>1, <3>1, <3>2, <3>4
      <4>2. \E g \in Echoes(pending', Tail(stream)) :
              /\ f[k] - 1 \in DOMAIN Tail(stream)
              /\ \A i \in DOMAIN g : g[i] # f[k] - 1
        BY <1>0, <2>1, <3>2, <4>1, MissedAfterRemoval DEF e, k
      <4> QED BY <4>1, <4>2 DEF Missed
    <3> QED BY <3>3, <3>4
  <2> QED BY <2>2, <2>3
<1>8. CASE ConflictRemoteWins
  <2>1. /\ OnPath(e) # {} /\ pending[k] # e /\ pending' = RemoveAt(pending, k)
        /\ config.conflict = "RemoteWins"
    BY <1>8 DEF ConflictRemoteWins, e, k
  <2>2. k \in Heard(pending) /\ f0[k] \in 2..Len(stream)
    BY <1>5, <1>k, <2>1
  <2>3. \E g \in Echoes(pending', Tail(stream)) :
          /\ f0[k] - 1 \in DOMAIN Tail(stream)
          /\ \A i \in DOMAIN g : g[i] # f0[k] - 1
    BY <1>0, <1>5, <2>1, <2>2, MissedAfterRemoval DEF e, k
  <2> QED BY <2>1, <2>3 DEF Missed
<1>9. CASE ConflictLocalWins
  <2>1. /\ OnPath(e) # {} /\ pending[k] # e /\ pending' = pending /\ tree' = tree
        /\ config.conflict = "LocalWins"
    BY <1>9 DEF ConflictLocalWins, EventIgnored, e, k
  <2>2. CASE tree = remote
    BY <2>1, <2>2
  <2>3. CASE Missed(pending, stream)
    <3>1. PICK f \in Echoes(pending, stream) : \A i \in DOMAIN f : f[i] # Len(stream)
      BY <2>1, <2>3 DEF Missed
    <3>2. Len(stream) - 1 \in DOMAIN Tail(stream)
      <4>1. f[k] \in 2..Len(stream)
        BY <1>k, <2>1
      <4> QED BY <1>1, <4>1
    <3>3. PICK g \in Echoes(pending, Tail(stream)) :
            \A i \in DOMAIN g : i \in DOMAIN f /\ g[i] = f[i] - 1
      BY <1>0, <2>1, EchoesKept DEF e, k
    <3>4. ASSUME NEW i \in DOMAIN g PROVE g[i] # Len(stream) - 1
      <4>1. g[i] = f[i] - 1 /\ f[i] \in 1..Len(stream) /\ f[i] # Len(stream)
        BY <1>4, <3>1, <3>3
      <4> QED BY <1>1, <4>1
    <3> QED BY <1>1, <2>1, <3>2, <3>4 DEF Missed
  <2> QED BY <2>2, <2>3
<1> QED BY <1>6, <1>7, <1>8, <1>9 DEF Hears

\* The state follows the database's, or an event will make it.
LEMMA StepCaughtUp ==
  ASSUME WholeTrees, IndInv, JournalOrder, Following, WriteLocals, StreamWhole,
         CaughtUp, [Next]_vars
  PROVE  CaughtUp'
<1> SUFFICES ASSUME Optimistic, Online', Unbroken', Used("io")' = 0
             PROVE  Shown' = remote' \/ Missed(Outstanding', stream')
  <2>1. config' = config
    BY StepFaults
  <2>2. Optimistic' => Optimistic
    BY <2>1 DEF Optimistic
  <2> QED BY <2>1, <2>2 DEF CaughtUp, Missed
<1>0. TypeOK /\ Unbroken /\ EchoStep /\ Used("io") = 0 /\ ~ Fault("io")
  <2>1. TypeOK /\ FaultsLeft /\ OneFault /\ "io" \in FaultKinds
    BY StepFaults DEF IndInv, JournalOrder, FaultKinds
  <2>2. /\ Used("io") \in Nat /\ Used("io") <= Used("io")'
        /\ Fault("io") => Used("io")' = Used("io") + 1
    BY <2>1, FaultsFall, FaultCounted
  <2> QED BY <2>1, <2>2, StepEchoAnswered DEF Following
<1>1. Online => /\ open /\ Echoes(Outstanding, stream) # {}
                /\ Shown = remote \/ Missed(Outstanding, stream)
  BY <1>0 DEF Following, EchoesFollow, EchoesUnderWay, CaughtUp, Missed
<1>2. Outstanding \in Seq(Event) /\ stream \in Seq(Event) /\ remote \in Tree
  BY <1>0, OutstandingType DEF TypeOK, Following
<1>3. CASE Calm
  BY <1>0, <1>1, <1>3 DEF Calm
<1>4. CASE Others
  <2>1. PICK e \in Event : Remote!Accept(e) /\ Outstanding' = Outstanding /\ Online
    BY <1>4 DEF Others
  <2>2. PICK f : f \in Echoes(Outstanding, stream)
    BY <1>1, <2>1
  <2>3. stream' = Append(stream, Spelled(e, "stream")) /\ Spelled(e, "stream") \in Event
    BY <1>1, <2>1, AcceptStream, SpelledType
  <2>4. f \in Echoes(Outstanding, stream')
    BY <1>2, <2>2, <2>3, EchoesExtend
  <2>5. /\ Len(stream) \in Nat /\ DOMAIN stream' = 1..(Len(stream) + 1)
        /\ Len(stream') = Len(stream) + 1
    BY <1>2, <2>3, AppendProperties, LenProperties
  <2>6. \A i \in DOMAIN f : f[i] \in 1..Len(stream)
    BY <1>2, <2>2, EchoesProperties
  <2>7. \A i \in DOMAIN f : f[i] # Len(stream')
    BY <2>5, <2>6
  <2>8. Len(stream') \in DOMAIN stream'
    BY <2>5
  <2>9. Missed(Outstanding, stream')
    BY <2>4, <2>7, <2>8 DEF Missed
  <2> QED BY <2>1, <2>9
<1>5. CASE Own
  <2>1. cur.ev \in Event /\ cur.old \in Tree /\ Online
    BY <1>0, <1>5, CurrentType DEF Own, Online
  <2>2. cur.ev \in Reaching
    BY <1>5, EngineAssumption DEF Own, WriteLocals, Reaching, Inapplicable
  <2>3. remote' = cur.ev.data
    BY <1>0, <1>1, <1>5, <2>1, <2>2, WholeSent DEF Own
  <2>4. tree = cur.ev.data
    BY <1>0, <1>5, <2>1, <2>2, WholeApplied DEF Own, WriteLocals, WholeTrees, Whole
  <2> QED BY <1>5, <2>3, <2>4 DEF Own, Shown
<1>6. CASE Hears
  <2>1. /\ pc = "stream" /\ pc' \in {"stream", "evsnap"} /\ stream # <<>>
        /\ stream' = Tail(stream) /\ remote' = remote
    BY <1>6, ReceiveStream
  <2>2. /\ Outstanding = pending /\ Outstanding' = pending' /\ Online
        /\ Shown = tree /\ Shown' = tree'
    BY <2>1 DEF Outstanding, Online, Shown
  <2>3. /\ \A n \in DOMAIN stream : stream[n].spelling = "stream" /\ Whole(stream[n])
        /\ stream[Len(stream)].data = remote
    BY <1>0, <2>1, <2>2 DEF StreamWhole
  <2> QED BY <1>0, <1>1, <1>6, <2>1, <2>2, <2>3, HearsCaughtUp
<1>7. CASE Subscribe
  <2>1. pc = "sub" /\ pc' = "stream" /\ pending' = pending /\ stream' = <<Remote!PutRoot(remote)>>
    BY <1>7 DEF Subscribe, Remote!Open
  <2>2. Outstanding' = <<>>
    BY <1>0, <2>1, SubscribedEmpty DEF Following, EchoesFollow, Outstanding
  <2>3. PICK f \in Echoes(<<>>, stream') : DOMAIN f = {}
    BY NoEchoes
  <2>4. 1 \in DOMAIN stream' /\ Len(stream') = 1
    BY <2>1
  <2> QED BY <2>2, <2>3, <2>4 DEF Missed
<1> QED BY <1>0, <1>3, <1>4, <1>5, <1>6, <1>7 DEF EchoStep

\* What the task and its stream hold is known at every moment.
Heeding == Following /\ WriteLocals /\ StreamWhole /\ CaughtUp

LEMMA StepHeeding ==
  ASSUME WholeTrees, IndInv, JournalOrder, Heeding, [Next]_vars PROVE Heeding'
BY StepFollowing, StepWriteLocals, StepStreamWhole, StepCaughtUp DEF Heeding

LEMMA InitHeeding == ASSUME Init PROVE Heeding
<1>1. queue = <<>> /\ pc = "load"
  BY DEF Init
<1>2. WriteLocals
  BY <1>1 DEF WriteLocals
<1> QED BY <1>1, <1>2, InitFollowing DEF Heeding, StreamWhole, CaughtUp, Online

\* On an empty stream there is no event to come.
LEMMA CaughtUpConverges ==
  ASSUME CaughtUp, TypeOK PROVE Converged
<1> SUFFICES ASSUME Optimistic, Unbroken, Used("io") = 0, Quiescent PROVE tree = remote
  BY DEF Converged, FinalConvergence
<1>1. Online /\ Shown = tree /\ stream = <<>>
  BY DEF Quiescent, Online, Shown
<1>2. DOMAIN stream = {}
  BY <1>1
<1> QED BY <1>1, <1>2 DEF CaughtUp

\* Where all writes are of the whole tree, the state of a connected task that
\* applies them at once is the database's or an event still to come makes it so,
\* as long as no stream is cut, no request left unanswered and the store works: no
\* echo is taken for another client's write or hides one for good.
THEOREM AlwaysCaughtUp ==
  ASSUME WholeTrees PROVE Spec => []CaughtUp
<1>1. Heeding => CaughtUp
  BY DEF Heeding
<1> QED BY <1>1, StepHeeding, InitHeeding, Inductive, JournalIsOrdered, PTL DEF Spec

\* There, with nothing under way, the task has the database's state.
THEOREM Converges ==
  ASSUME WholeTrees PROVE Spec => []Converged
BY CaughtUpConverges, AlwaysCaughtUp, TypeCorrect, PTL
=============================================================================
