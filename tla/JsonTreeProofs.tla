--------------------------- MODULE JsonTreeProofs ---------------------------
(***************************************************************************)
(* That apply_event keeps a state a JSON value (TypeOK), and that its      *)
(* scalars are those the database has (Agrees), for any keys and scalars,  *)
(* values of any depth and patches of any length.                          *)
(***************************************************************************)
EXTENDS JsonTree, SequenceFacts

-----------------------------------------------------------------------------
(* Paths. *)

Path == Seq(Keys)

\* A prefix, position by position.
LEMMA PrefixByIndex ==
  ASSUME NEW p \in Path, NEW q \in Path
  PROVE  IsPrefix(p, q) <=> /\ Len(p) <= Len(q)
                            /\ \A i \in 1..Len(p) : p[i] = q[i]
<1>1. Len(p) \in Nat /\ Len(q) \in Nat
  BY LenProperties DEF Path
<1>2. (\A i \in 1..Len(p) : p[i] \in Keys) /\ (\A i \in 1..Len(q) : q[i] \in Keys)
  BY ElementOfSeq DEF Path
<1>3. CASE Len(p) <= Len(q)
  <2> DEFINE a == SubSeq(p, 1, Len(p))
             b == SubSeq(q, 1, Len(p))
  <2>1. /\ a \in Path /\ Len(a) = Len(p) /\ \A i \in 1..Len(p) : a[i] = p[i]
    BY <1>1, <1>2, SubSeqProperties DEF Path
  <2>2. /\ b \in Path /\ Len(b) = Len(p) /\ \A i \in 1..Len(p) : b[i] = q[i]
    <3>1. \A i \in 1..Len(p) : q[i] \in Keys
      BY <1>1, <1>2, <1>3
    <3> QED BY <1>1, <3>1, SubSeqProperties DEF Path
  <2> HIDE DEF a, b
  <2>3. a = b <=> \A i \in 1..Len(p) : p[i] = q[i]
    <3>1. ASSUME \A i \in 1..Len(p) : p[i] = q[i] PROVE a = b
      <4>1. \A i \in 1..Len(a) : a[i] = b[i]
        BY <2>1, <2>2, <3>1
      <4> QED BY <2>1, <2>2, <4>1, SeqEqual DEF Path
    <3> QED BY <2>1, <2>2, <3>1
  <2> QED BY <1>3, <2>3 DEF IsPrefix, a, b
<1> QED BY <1>3 DEF IsPrefix

\* A part of a path.
LEMMA Part ==
  ASSUME NEW q \in Path, NEW m \in Nat, m <= Len(q), NEW n \in Nat, m <= n, n <= Len(q)
  PROVE  /\ SubSeq(q, m + 1, n) \in Path /\ Len(SubSeq(q, m + 1, n)) = n - m
         /\ \A i \in 1..(n - m) : SubSeq(q, m + 1, n)[i] = q[m + i]
<1>1. Len(q) \in Nat /\ \A i \in 1..Len(q) : q[i] \in Keys
  BY LenProperties, ElementOfSeq DEF Path
<1>2. /\ \A i \in (m + 1)..n : q[i] \in Keys
      /\ m + 1 \in Int /\ n \in Int
  BY <1>1
<1>3. /\ SubSeq(q, m + 1, n) \in Path
      /\ Len(SubSeq(q, m + 1, n)) = IF m + 1 <= n THEN n - (m + 1) + 1 ELSE 0
      /\ \A i \in 1..(n - (m + 1) + 1) : SubSeq(q, m + 1, n)[i] = q[m + 1 + i - 1]
  BY <1>2, SubSeqProperties DEF Path
<1>4. /\ (IF m + 1 <= n THEN n - (m + 1) + 1 ELSE 0) = n - m
      /\ n - (m + 1) + 1 = n - m
  OBVIOUS
<1>5. \A i \in 1..(n - m) : m + 1 + i - 1 = m + i
  OBVIOUS
<1> QED BY <1>3, <1>4, <1>5

\* Its beginning.
LEMMA Beginning ==
  ASSUME NEW q \in Path, NEW n \in Nat, n <= Len(q)
  PROVE  /\ SubSeq(q, 1, n) \in Path /\ Len(SubSeq(q, 1, n)) = n
         /\ \A i \in 1..n : SubSeq(q, 1, n)[i] = q[i]
<1>1. Len(q) \in Nat /\ 0 \in Nat /\ 0 <= Len(q) /\ 0 <= n
  BY LenProperties DEF Path
<1>2. /\ SubSeq(q, 0 + 1, n) \in Path /\ Len(SubSeq(q, 0 + 1, n)) = n - 0
      /\ \A i \in 1..(n - 0) : SubSeq(q, 0 + 1, n)[i] = q[0 + i]
  BY <1>1, Part
<1>3. 0 + 1 = 1 /\ n - 0 = n /\ \A i \in 1..n : 0 + i = i
  OBVIOUS
<1> QED BY <1>2, <1>3

\* Two paths that agree everywhere are one.
LEMMA SamePath ==
  ASSUME NEW p \in Path, NEW q \in Path, Len(p) = Len(q),
         \A i \in 1..Len(p) : p[i] = q[i]
  PROVE  p = q
BY SeqEqual DEF Path

\* The order of paths: what is above a path is a chain.
LEMMA Order ==
  /\ <<>> \in Path
  /\ \A p \in Path : /\ IsPrefix(p, p) /\ IsPrefix(<<>>, p)
                     /\ IsPrefix(p, <<>>) => p = <<>>
  /\ \A p, q \in Path : IsPrefix(p, q) /\ IsPrefix(q, p) => p = q
  /\ \A p, q, r \in Path : IsPrefix(p, q) /\ IsPrefix(q, r) => IsPrefix(p, r)
  /\ \A p, q, r \in Path :
       IsPrefix(p, r) /\ IsPrefix(q, r) => IsPrefix(p, q) \/ IsPrefix(q, p)
<1>0. \A p \in Path : Len(p) \in Nat
  BY LenProperties DEF Path
<1>1. <<>> \in Path /\ Len(<<>>) = 0
  BY EmptySeq DEF Path
<1>2. ASSUME NEW p \in Path, NEW q \in Path, IsPrefix(p, q), IsPrefix(q, p) PROVE p = q
  <2>1. Len(p) = Len(q) /\ \A i \in 1..Len(p) : p[i] = q[i]
    BY <1>0, <1>2, PrefixByIndex
  <2> QED BY <2>1, SamePath
<1>3. ASSUME NEW p \in Path
      PROVE  IsPrefix(p, p) /\ IsPrefix(<<>>, p) /\ (IsPrefix(p, <<>>) => p = <<>>)
  BY <1>0, <1>1, <1>2, PrefixByIndex
<1>4. ASSUME NEW p \in Path, NEW q \in Path, NEW r \in Path, IsPrefix(p, q), IsPrefix(q, r)
      PROVE  IsPrefix(p, r)
  BY <1>0, <1>4, PrefixByIndex
<1>5. ASSUME NEW p \in Path, NEW q \in Path, NEW r \in Path, IsPrefix(p, r), IsPrefix(q, r)
      PROVE  IsPrefix(p, q) \/ IsPrefix(q, p)
  <2>1. /\ \A i \in 1..Len(p) : p[i] = r[i]
        /\ \A i \in 1..Len(q) : q[i] = r[i]
    BY <1>5, PrefixByIndex
  <2>2. Len(p) <= Len(q) \/ Len(q) <= Len(p)
    BY <1>0
  <2> QED BY <1>0, <2>1, <2>2, PrefixByIndex
<1> QED BY <1>1, <1>2, <1>3, <1>4, <1>5

\* A path below another is that one and the rest.
LEMMA Joined ==
  ASSUME NEW p \in Path, NEW r \in Path
  PROVE  /\ p \o r \in Path /\ IsPrefix(p, p \o r) /\ Below(p, p \o r) = r
         /\ p \o <<>> = p /\ (p \o r = p => r = <<>>)
<1>1. /\ Len(p) \in Nat /\ Len(r) \in Nat
      /\ p \o r \in Path /\ Len(p \o r) = Len(p) + Len(r)
      /\ \A i \in 1..(Len(p) + Len(r)) :
           (p \o r)[i] = IF i <= Len(p) THEN p[i] ELSE r[i - Len(p)]
  BY LenProperties, ConcatProperties DEF Path
<1>2. IsPrefix(p, p \o r)
  <2>1. Len(p) <= Len(p \o r) /\ \A i \in 1..Len(p) : p[i] = (p \o r)[i]
    BY <1>1
  <2>2. p \o r \in Path
    BY <1>1
  <2> QED BY <2>1, <2>2, PrefixByIndex
<1> DEFINE b == Below(p, p \o r)
<1>3. b = r
  <2>1. /\ Len(p) \in Nat /\ Len(p) <= Len(p \o r) /\ Len(p \o r) \in Nat
        /\ p \o r \in Path /\ Len(p \o r) <= Len(p \o r)
    BY <1>1
  <2>2. /\ b \in Path /\ Len(b) = Len(p \o r) - Len(p)
        /\ \A i \in 1..(Len(p \o r) - Len(p)) : b[i] = (p \o r)[Len(p) + i]
    BY <2>1, Part DEF Below
  <2> HIDE DEF b
  <2>3. Len(b) = Len(r)
    BY <1>1, <2>2
  <2>4. ASSUME NEW i \in 1..Len(b) PROVE b[i] = r[i]
    <3>1. /\ Len(p) + i \in 1..(Len(p) + Len(r)) /\ ~ (Len(p) + i <= Len(p))
          /\ Len(p) + i - Len(p) = i /\ i \in 1..(Len(p \o r) - Len(p))
      BY <1>1, <2>3
    <3> QED BY <1>1, <2>2, <3>1
  <2> QED BY <2>2, <2>3, <2>4, SamePath
<1>4. p \o <<>> = p
  BY ConcatEmptySeq DEF Path
<1>5. ASSUME p \o r = p PROVE r = <<>>
  BY <1>1, <1>5, EmptySeq DEF Path
<1> QED BY <1>1, <1>2, <1>3, <1>4, <1>5

LEMMA Split ==
  ASSUME NEW p \in Path, NEW q \in Path, IsPrefix(p, q)
  PROVE  Below(p, q) \in Path /\ q = p \o Below(p, q)
<1>1. /\ Len(p) \in Nat /\ Len(q) \in Nat /\ Len(p) <= Len(q)
      /\ \A i \in 1..Len(p) : p[i] = q[i]
      /\ \A i \in 1..Len(q) : q[i] \in Keys
  BY PrefixByIndex, LenProperties, ElementOfSeq DEF Path
<1> DEFINE b == Below(p, q)
<1>2. /\ b \in Path /\ Len(b) = Len(q) - Len(p)
      /\ \A i \in 1..(Len(q) - Len(p)) : b[i] = q[Len(p) + i]
  BY <1>1, Part DEF Below
<1> HIDE DEF b
<1>3. /\ p \o b \in Path /\ Len(p \o b) = Len(q)
      /\ \A i \in 1..Len(q) : (p \o b)[i] = IF i <= Len(p) THEN p[i] ELSE b[i - Len(p)]
  <2>1. /\ p \o b \in Path /\ Len(p \o b) = Len(p) + Len(b)
        /\ \A i \in 1..(Len(p) + Len(b)) :
             (p \o b)[i] = IF i <= Len(p) THEN p[i] ELSE b[i - Len(p)]
    BY <1>2, ConcatProperties DEF Path
  <2> QED BY <1>1, <1>2, <2>1
<1>4. ASSUME NEW i \in 1..Len(q) PROVE q[i] = (p \o b)[i]
  <2>1. CASE i <= Len(p)
    BY <1>1, <1>3, <2>1
  <2>2. CASE ~ (i <= Len(p))
    <3>1. i - Len(p) \in 1..(Len(q) - Len(p)) /\ Len(p) + (i - Len(p)) = i
      BY <1>1, <2>2
    <3> QED BY <1>2, <1>3, <2>2, <3>1
  <2> QED BY <2>1, <2>2
<1>5. q = p \o b
  BY <1>3, <1>4, SamePath
<1> QED BY <1>2, <1>5 DEF b

LEMMA JoinedOrder ==
  ASSUME NEW p \in Path, NEW r \in Path, NEW s \in Path
  PROVE  /\ IsPrefix(p \o r, p \o s) <=> IsPrefix(r, s)
         /\ p \o r = p \o s => r = s
<1>1. \A x \in {r, s} : /\ Len(p) \in Nat /\ Len(x) \in Nat
                        /\ p \o x \in Path /\ Len(p \o x) = Len(p) + Len(x)
                        /\ \A i \in 1..(Len(p) + Len(x)) :
                             (p \o x)[i] = IF i <= Len(p) THEN p[i] ELSE x[i - Len(p)]
  BY LenProperties, ConcatProperties DEF Path
<1>2. ASSUME IsPrefix(p \o r, p \o s) PROVE IsPrefix(r, s)
  <2>1. Len(r) <= Len(s) /\ \A i \in 1..(Len(p) + Len(r)) : (p \o r)[i] = (p \o s)[i]
    <3>1. /\ Len(p \o r) <= Len(p \o s)
          /\ \A i \in 1..Len(p \o r) : (p \o r)[i] = (p \o s)[i]
      <4>1. p \o r \in Path /\ p \o s \in Path
        BY <1>1
      <4> QED BY <1>2, <4>1, PrefixByIndex
    <3> QED BY <1>1, <3>1
  <2>2. ASSUME NEW i \in 1..Len(r) PROVE r[i] = s[i]
    <3>1. /\ Len(p) + i \in 1..(Len(p) + Len(r)) /\ Len(p) + i \in 1..(Len(p) + Len(s))
          /\ ~ (Len(p) + i <= Len(p)) /\ Len(p) + i - Len(p) = i
      BY <1>1, <2>1
    <3>2. (p \o r)[Len(p) + i] = r[i] /\ (p \o s)[Len(p) + i] = s[i]
      BY <1>1, <3>1
    <3> QED BY <2>1, <3>1, <3>2
  <2> QED BY <2>1, <2>2, PrefixByIndex
<1>3. ASSUME IsPrefix(r, s) PROVE IsPrefix(p \o r, p \o s)
  <2>1. Len(r) <= Len(s) /\ \A i \in 1..Len(r) : r[i] = s[i]
    BY <1>3, PrefixByIndex
  <2>2. ASSUME NEW i \in 1..(Len(p) + Len(r)) PROVE (p \o r)[i] = (p \o s)[i]
    <3>1. i \in 1..(Len(p) + Len(s)) /\ (i <= Len(p) \/ i - Len(p) \in 1..Len(r))
      BY <1>1, <2>1
    <3> QED BY <1>1, <2>1, <3>1
  <2>3. /\ Len(p \o r) <= Len(p \o s)
        /\ \A i \in 1..Len(p \o r) : (p \o r)[i] = (p \o s)[i]
    BY <1>1, <2>1, <2>2
  <2>4. p \o r \in Path /\ p \o s \in Path
    BY <1>1
  <2> QED BY <2>3, <2>4, PrefixByIndex
<1>4. ASSUME p \o r = p \o s PROVE r = s
  <2>1. Below(p, p \o r) = r /\ Below(p, p \o s) = s
    BY Joined
  <2> QED BY <1>4, <2>1
<1> QED BY <1>2, <1>3, <1>4

\* The parent of a path.
LEMMA Fronts ==
  ASSUME NEW q \in Path, q # <<>>
  PROVE  /\ Front(q) \in Path /\ IsPrefix(Front(q), q) /\ Front(q) # q
         /\ Len(Front(q)) = Len(q) - 1 /\ Len(q) \in Nat
         /\ \A r \in Path : IsPrefix(r, q) /\ r # q => IsPrefix(r, Front(q))
<1>1. Len(q) \in Nat /\ Len(q) # 0 /\ \A i \in 1..Len(q) : q[i] \in Keys
  BY LenProperties, ElementOfSeq, EmptySeq DEF Path
<1>2. /\ Front(q) \in Path /\ Len(Front(q)) = Len(q) - 1
      /\ \A i \in 1..(Len(q) - 1) : Front(q)[i] = q[i]
  <2>1. Len(q) - 1 \in Nat /\ Len(q) - 1 <= Len(q)
    BY <1>1
  <2> QED BY <2>1, Beginning DEF Front
<1>3. IsPrefix(Front(q), q) /\ Front(q) # q
  BY <1>1, <1>2, PrefixByIndex
<1>4. ASSUME NEW r \in Path, IsPrefix(r, q), r # q PROVE IsPrefix(r, Front(q))
  <2>1. /\ Len(r) \in Nat /\ Len(r) <= Len(q) /\ \A i \in 1..Len(r) : r[i] = q[i]
    BY <1>4, PrefixByIndex, LenProperties DEF Path
  <2>2. Len(r) # Len(q)
    BY <1>4, <2>1, SamePath
  <2> QED BY <1>1, <1>2, <2>1, <2>2, PrefixByIndex
<1> QED BY <1>1, <1>2, <1>3, <1>4

\* The beginnings of a path are what is above it, and itself.
LEMMA Beginnings ==
  ASSUME NEW p \in Path
  PROVE  {SubSeq(p, 1, n) : n \in 0..Len(p)} = {r \in Path : IsPrefix(r, p)}
<1>1. Len(p) \in Nat
  BY LenProperties DEF Path
<1>2. ASSUME NEW n \in 0..Len(p)
      PROVE  SubSeq(p, 1, n) \in Path /\ IsPrefix(SubSeq(p, 1, n), p)
  <2>1. n \in Nat /\ n <= Len(p)
    BY <1>1
  <2>2. /\ SubSeq(p, 1, n) \in Path /\ Len(SubSeq(p, 1, n)) = n
        /\ \A i \in 1..n : SubSeq(p, 1, n)[i] = p[i]
    BY <2>1, Beginning
  <2> QED BY <2>1, <2>2, PrefixByIndex
<1>3. ASSUME NEW r \in Path, IsPrefix(r, p)
      PROVE  Len(r) \in 0..Len(p) /\ r = SubSeq(p, 1, Len(r))
  <2>1. /\ Len(r) \in Nat /\ Len(r) <= Len(p) /\ \A i \in 1..Len(r) : r[i] = p[i]
    BY <1>3, PrefixByIndex, LenProperties DEF Path
  <2>2. Len(r) \in 0..Len(p)
    BY <1>1, <2>1
  <2>3. /\ SubSeq(p, 1, Len(r)) \in Path /\ Len(SubSeq(p, 1, Len(r))) = Len(r)
        /\ \A i \in 1..Len(r) : SubSeq(p, 1, Len(r))[i] = p[i]
    BY <2>1, Beginning
  <2>4. r = SubSeq(p, 1, Len(r))
    BY <2>1, <2>3, SamePath
  <2> QED BY <2>2, <2>4
<1> QED BY <1>2, <1>3

-----------------------------------------------------------------------------
(* Values. *)

\* All that is above a path of a value is an object.
Closed(t) ==
  /\ t \in [DOMAIN t -> Node] /\ <<>> \in DOMAIN t /\ DOMAIN t \subseteq Path
  /\ \A p \in DOMAIN t, q \in Path :
       IsPrefix(q, p) /\ q # p => q \in DOMAIN t /\ t[q] = Obj

\* A value is well formed if parents are objects, since then all that is above is.
LEMMA Ancestors ==
  ASSUME NEW t, WellFormed(t) PROVE Closed(t)
<1>0. /\ t \in [DOMAIN t -> Node] /\ <<>> \in DOMAIN t /\ DOMAIN t \subseteq Path
      /\ \A p \in DOMAIN t : p # <<>> => Front(p) \in DOMAIN t /\ t[Front(p)] = Obj
  BY DEF WellFormed, Path
<1> DEFINE Wrong(p) == \E q \in Path : /\ IsPrefix(q, p) /\ q # p
                                       /\ ~ (q \in DOMAIN t /\ t[q] = Obj)
           T == {Len(p) : p \in {r \in DOMAIN t : Wrong(r)}}
<1>1. ASSUME T # {} PROVE FALSE
  <2>1. T \in SUBSET Nat
    BY <1>0, LenProperties DEF Path
  <2>2. PICK n \in T : \A m \in T : n <= m
    <3> HIDE DEF T
    <3> QED BY <1>1, <2>1, LeastElement
  <2>3. PICK p \in DOMAIN t : Len(p) = n /\ Wrong(p)
    BY <2>2
  <2>4. PICK q \in Path : IsPrefix(q, p) /\ q # p /\ ~ (q \in DOMAIN t /\ t[q] = Obj)
    BY <2>3
  <2>5. p \in Path /\ p # <<>>
    BY <1>0, <2>4, Order
  <2>6. /\ Front(p) \in Path /\ Len(Front(p)) = Len(p) - 1 /\ Len(p) \in Nat
        /\ IsPrefix(q, Front(p)) /\ Front(p) \in DOMAIN t /\ t[Front(p)] = Obj
    BY <1>0, <2>4, <2>5, Fronts
  <2>7. Wrong(Front(p))
    BY <2>4, <2>6
  <2>8. Len(Front(p)) \in T
    BY <2>6, <2>7
  <2> HIDE DEF T, Wrong
  <2> QED BY <2>2, <2>3, <2>6, <2>8
<1>2. \A p \in DOMAIN t : ~ Wrong(p)
  BY <1>1
<1> QED BY <1>0, <1>2 DEF Closed

LEMMA Parents ==
  ASSUME NEW t, Closed(t) PROVE WellFormed(t)
<1>1. ASSUME NEW p \in DOMAIN t, p # <<>> PROVE Front(p) \in DOMAIN t /\ t[Front(p)] = Obj
  <2>1. p \in Path
    BY DEF Closed
  <2>2. Front(p) \in Path /\ IsPrefix(Front(p), p) /\ Front(p) # p
    BY <1>1, <2>1, Fronts
  <2> QED BY <2>2 DEF Closed
<1> QED BY <1>1 DEF Closed, WellFormed, Path

\* Where the scalars of a value are.
Scal(t) == {q \in DOMAIN t : t[q] \in Scalars}

\* get_or_create makes objects of all that is above, so scalars there go.
LEMMA GetOrCreateFacts ==
  ASSUME NEW t, Closed(t), NEW p \in Path, NEW g, g = GetOrCreate(t, p)
  PROVE  /\ Closed(g) /\ p \in DOMAIN g
         /\ g[p] = IF p \in DOMAIN t THEN t[p] ELSE Null
         /\ Scal(g) = {q \in Scal(t) : ~ (IsPrefix(q, p) /\ q # p)}
         /\ \A q \in Scal(g) : g[q] = t[q]
<1> DEFINE D == DOMAIN t \cup {r \in Path : IsPrefix(r, p)}
<1>1. g = [q \in D |-> IF IsPrefix(q, p) /\ q # p THEN Obj
                       ELSE IF q \in DOMAIN t THEN t[q] ELSE Null]
  BY Beginnings DEF GetOrCreate, IsStrictPrefix
<1>2. DOMAIN g = D /\ g = [q \in D |-> g[q]]
  BY <1>1
<1>3. ASSUME NEW q \in D
      PROVE  g[q] = IF IsPrefix(q, p) /\ q # p THEN Obj
                    ELSE IF q \in DOMAIN t THEN t[q] ELSE Null
  BY <1>1
<1>4. \A q \in DOMAIN t : t[q] \in Node /\ q \in Path
  BY DEF Closed
<1>5. Obj \in Node /\ Null \in Node /\ Null \notin Scalars /\ Obj \notin Scalars
  BY JsonAssumption DEF Node
<1>6. \A q \in D : g[q] \in Node /\ q \in Path
  BY <1>3, <1>4, <1>5
<1>7. g \in [DOMAIN g -> Node]
  BY <1>2, <1>6
<1>8. ASSUME NEW q \in D, NEW r \in Path, IsPrefix(r, q), r # q PROVE r \in D /\ g[r] = Obj
  <2>1. CASE IsPrefix(q, p)
    <3>1. IsPrefix(r, p) /\ r # p
      BY <1>6, <1>8, <2>1, Order
    <3> QED BY <1>3, <3>1
  <2>2. CASE q \in DOMAIN t
    <3>1. r \in DOMAIN t /\ t[r] = Obj
      BY <1>8, <2>2 DEF Closed
    <3> QED BY <1>3, <3>1
  <2> QED BY <2>1, <2>2
<1>9. Closed(g)
  BY <1>2, <1>6, <1>7, <1>8 DEF Closed
<1>10. p \in D /\ g[p] = IF p \in DOMAIN t THEN t[p] ELSE Null
  BY <1>3, Order
<1>11. Scal(g) = {q \in Scal(t) : ~ (IsPrefix(q, p) /\ q # p)}
  <2>1. ASSUME NEW q \in Scal(g) PROVE q \in Scal(t) /\ ~ (IsPrefix(q, p) /\ q # p)
    BY <1>2, <1>3, <1>5, <2>1 DEF Scal
  <2>2. ASSUME NEW q \in Scal(t), ~ (IsPrefix(q, p) /\ q # p) PROVE q \in Scal(g)
    BY <1>2, <1>3, <2>2 DEF Scal
  <2> QED BY <2>1, <2>2
<1>12. \A q \in Scal(g) : g[q] = t[q]
  BY <1>2, <1>3, <1>11 DEF Scal
<1> QED BY <1>2, <1>9, <1>10, <1>11, <1>12

\* remove_at takes what is at the path and below it.
LEMMA RemoveFacts ==
  ASSUME NEW t, Closed(t), NEW p \in Path, NEW g, g = RemoveAtPath(t, p)
  PROVE  /\ Closed(g) /\ Scal(g) = {q \in Scal(t) : ~ IsPrefix(p, q)}
         /\ \A q \in Scal(g) : g[q] = t[q]
<1>0. /\ Null \in Node /\ Null \notin Scalars /\ <<>> \in Path
      /\ \A q \in Path : IsPrefix(<<>>, q) /\ (IsPrefix(q, <<>>) => q = <<>>)
  BY JsonAssumption, Order DEF Node
<1>1. CASE p = <<>>
  <2>1. g = [q \in {<<>>} |-> Null]
    BY <1>1 DEF RemoveAtPath, Single
  <2>2. DOMAIN g = {<<>>} /\ g[<<>>] = Null
    BY <2>1
  <2>3. g \in [{<<>>} -> Node]
    BY <1>0, <2>1
  <2>4. Closed(g)
    BY <1>0, <2>2, <2>3 DEF Closed
  <2>5. Scal(g) = {}
    BY <1>0, <2>2 DEF Scal
  <2>6. \A q \in Scal(t) : IsPrefix(p, q)
    BY <1>0, <1>1 DEF Scal, Closed
  <2> QED BY <2>4, <2>5, <2>6
<1>2. CASE p # <<>>
  <2> DEFINE D == {r \in DOMAIN t : ~ IsPrefix(p, r)}
  <2>1. g = [q \in D |-> t[q]]
    BY <1>2 DEF RemoveAtPath
  <2>2. DOMAIN g = D /\ \A q \in D : g[q] = t[q]
    BY <2>1
  <2>3. g \in [D -> Node]
    BY <2>1 DEF Closed
  <2>4. ASSUME NEW q \in D, NEW r \in Path, IsPrefix(r, q), r # q
        PROVE  r \in D /\ g[r] = Obj
    <3>1. r \in DOMAIN t /\ t[r] = Obj /\ q \in Path
      BY <2>4 DEF Closed
    <3>2. ~ IsPrefix(p, r)
      BY <2>4, <3>1, Order
    <3> QED BY <2>2, <3>1, <3>2
  <2>5. <<>> \in D /\ D \subseteq Path
    BY <1>0, <1>2 DEF Closed
  <2>6. Closed(g)
    BY <2>2, <2>3, <2>4, <2>5 DEF Closed
  <2>7. Scal(g) = {q \in Scal(t) : ~ IsPrefix(p, q)}
    BY <2>2 DEF Scal
  <2> QED BY <2>2, <2>6, <2>7 DEF Scal
<1> QED BY <1>1, <1>2

\* Paths moved below another.
Moved(p, S) == {p \o r : r \in S}

\* *target = v leaves v's scalars at the path, and no other there or below.
LEMMA AssignFacts ==
  ASSUME NEW t, Closed(t), NEW v, Closed(v), NEW p \in DOMAIN t, NEW g, g = Assign(t, p, v)
  PROVE  /\ Closed(g)
         /\ Scal(g) = {q \in Scal(t) : ~ IsPrefix(p, q)} \cup Moved(p, Scal(v))
         /\ \A q \in Scal(t) : ~ IsPrefix(p, q) => g[q] = t[q]
         /\ \A r \in Scal(v) : g[p \o r] = v[r]
<1> DEFINE D1 == {r \in DOMAIN t : ~ IsPrefix(p, r)}
           D2 == {p \o r : r \in DOMAIN v}
<1>0. /\ p \in Path /\ DOMAIN t \subseteq Path /\ DOMAIN v \subseteq Path
      /\ \A q \in DOMAIN t : t[q] \in Node
      /\ \A q \in DOMAIN v : v[q] \in Node
  BY DEF Closed
<1>1. /\ g = [q \in D1 \cup D2 |-> IF IsPrefix(p, q) THEN v[Below(p, q)] ELSE t[q]]
      /\ DOMAIN g = D1 \cup D2
  BY DEF Assign
<1>2. \A q \in D1 : g[q] = t[q]
  BY <1>1
<1>3. ASSUME NEW r \in DOMAIN v
      PROVE  p \o r \in D2 /\ p \o r \in Path /\ IsPrefix(p, p \o r) /\ g[p \o r] = v[r]
  <2>1. p \o r \in D2
    OBVIOUS
  <2>2. p \o r \in Path /\ IsPrefix(p, p \o r) /\ Below(p, p \o r) = r
    BY <1>0, Joined
  <2> QED BY <1>1, <2>1, <2>2
<1>4. g \in [DOMAIN g -> Node] /\ DOMAIN g \subseteq Path
  <2>1. ASSUME NEW q \in D1 \cup D2 PROVE g[q] \in Node /\ q \in Path
    BY <1>0, <1>2, <1>3
  <2> QED BY <1>1, <2>1
<1>5. <<>> \in DOMAIN g
  <2>1. CASE p = <<>>
    <3>1. <<>> \in DOMAIN v /\ p \o <<>> = <<>>
      BY <1>0, <2>1, Joined DEF Closed
    <3> QED BY <1>1, <3>1
  <2>2. CASE p # <<>>
    BY <1>0, <1>1, <2>2, Order DEF Closed
  <2> QED BY <2>1, <2>2
<1>6. ASSUME NEW q \in D1 \cup D2, NEW r \in Path, IsPrefix(r, q), r # q
      PROVE  r \in DOMAIN g /\ g[r] = Obj
  <2>1. CASE q \in D1
    <3>1. r \in DOMAIN t /\ t[r] = Obj
      BY <1>6, <2>1 DEF Closed
    <3>2. ~ IsPrefix(p, r)
      BY <1>0, <1>6, <2>1, Order
    <3> QED BY <1>1, <1>2, <3>1, <3>2
  <2>2. CASE q \in D2
    <3>1. PICK s \in DOMAIN v : q = p \o s
      BY <2>2
    <3>2. s \in Path /\ q \in Path /\ IsPrefix(p, q)
      BY <1>0, <1>3, <3>1
    <3>3. CASE IsPrefix(p, r)
      <4> DEFINE b == Below(p, r)
      <4>1. b \in Path /\ r = p \o b
        BY <1>0, <3>3, Split
      <4> HIDE DEF b
      <4>2. IsPrefix(b, s) /\ b # s
        BY <1>0, <1>6, <3>1, <3>2, <4>1, JoinedOrder
      <4>3. b \in DOMAIN v /\ v[b] = Obj
        BY <4>1, <4>2 DEF Closed
      <4> QED BY <1>1, <1>3, <4>1, <4>3
    <3>4. CASE ~ IsPrefix(p, r)
      <4>1. IsPrefix(r, p) /\ r # p
        BY <1>0, <1>6, <3>2, <3>4, Order
      <4>2. r \in DOMAIN t /\ t[r] = Obj
        BY <4>1 DEF Closed
      <4> QED BY <1>1, <1>2, <3>4, <4>2
    <3> QED BY <3>3, <3>4
  <2> QED BY <2>1, <2>2
<1>7. Closed(g)
  BY <1>1, <1>4, <1>5, <1>6 DEF Closed
<1>8. Scal(g) = {q \in Scal(t) : ~ IsPrefix(p, q)} \cup Moved(p, Scal(v))
  <2>1. ASSUME NEW q \in Scal(g)
        PROVE  q \in {x \in Scal(t) : ~ IsPrefix(p, x)} \cup Moved(p, Scal(v))
    <3>1. CASE q \in D1
      BY <1>2, <2>1, <3>1 DEF Scal
    <3>2. CASE q \in D2
      <4>1. PICK r \in DOMAIN v : q = p \o r
        BY <3>2
      <4>2. r \in Scal(v)
        BY <1>3, <2>1, <4>1 DEF Scal
      <4> QED BY <4>1, <4>2 DEF Moved
    <3> QED BY <1>1, <2>1, <3>1, <3>2 DEF Scal
  <2>2. ASSUME NEW q \in Scal(t), ~ IsPrefix(p, q) PROVE q \in Scal(g)
    BY <1>1, <1>2, <2>2 DEF Scal
  <2>3. ASSUME NEW r \in Scal(v) PROVE p \o r \in Scal(g)
    BY <1>1, <1>3 DEF Scal
  <2>4. \A q \in Moved(p, Scal(v)) : q \in Scal(g)
    BY <2>3 DEF Moved
  <2> QED BY <2>1, <2>2, <2>4
<1> QED BY <1>2, <1>3, <1>7, <1>8 DEF Scal

-----------------------------------------------------------------------------
(* Scalars. *)

\* The scalars l with what is at P and below it, and above it, gone, and n there.
Aside(l, P) == {q \in DOMAIN l : ~ IsPrefix(q, P) /\ ~ IsPrefix(P, q)}

Place(l, P, n) ==
  [q \in Aside(l, P) \cup Moved(P, DOMAIN n) |->
     IF IsPrefix(P, q) THEN n[Below(P, q)] ELSE l[q]]

LEMMA LeavesFacts ==
  ASSUME NEW t
  PROVE  /\ DOMAIN LeavesOf(t) = Scal(t)
         /\ LeavesOf(t) = [q \in Scal(t) |-> t[q]]
         /\ \A q \in Scal(t) : LeavesOf(t)[q] = t[q]
BY DEF LeavesOf, Scal

LEMMA LeavesScattered ==
  ASSUME NEW t, Closed(t) PROVE Scattered(LeavesOf(t))
<1>1. \A q \in Scal(t) : t[q] \in Scalars /\ q \in Path /\ q \in DOMAIN t
  BY DEF Scal, Closed
<1>2. LeavesOf(t) \in [DOMAIN LeavesOf(t) -> Scalars]
  BY <1>1, LeavesFacts
<1>3. ASSUME NEW p \in Scal(t), NEW q \in Scal(t) PROVE ~ IsStrictPrefix(p, q)
  <2>1. Obj \notin Scalars
    BY JsonAssumption
  <2>2. IsPrefix(p, q) /\ p # q => t[p] = Obj
    BY <1>1 DEF Closed
  <2> QED BY <1>1, <2>1, <2>2 DEF IsStrictPrefix
<1> QED BY <1>1, <1>2, <1>3, LeavesFacts DEF Scattered, Path

IsFunction(k) == k = [q \in DOMAIN k |-> k[q]]

\* What says that some scalars are the ones Place makes.
LEMMA PlaceIs ==
  ASSUME NEW l, NEW n, DOMAIN n \subseteq Path, NEW P \in Path,
         NEW k, IsFunction(k),
         DOMAIN k = Aside(l, P) \cup Moved(P, DOMAIN n),
         \A q \in Aside(l, P) : k[q] = l[q],
         \A r \in DOMAIN n : k[P \o r] = n[r]
  PROVE  k = Place(l, P, n)
<1>1. ASSUME NEW q \in DOMAIN k PROVE k[q] = IF IsPrefix(P, q) THEN n[Below(P, q)] ELSE l[q]
  <2>1. CASE q \in Aside(l, P)
    BY <2>1 DEF Aside
  <2>2. CASE q \in Moved(P, DOMAIN n)
    <3>1. PICK r \in DOMAIN n : q = P \o r
      BY <2>2 DEF Moved
    <3>2. r \in Path
      OBVIOUS
    <3>3. IsPrefix(P, q) /\ Below(P, q) = r
      BY <3>1, <3>2, Joined
    <3> QED BY <3>1, <3>3
  <2> QED BY <2>1, <2>2
<1>2. k = [q \in DOMAIN k |-> IF IsPrefix(P, q) THEN n[Below(P, q)] ELSE l[q]]
  BY <1>1 DEF IsFunction
<1> QED BY <1>2 DEF Place

\* Removing or assigning at the end of a path get_or_create has made.
LEMMA MadeFacts ==
  ASSUME NEW t, Closed(t), NEW P \in Path, NEW v, Closed(v), NEW g, g = GetOrCreate(t, P),
         NEW h, h = Assign(g, P, v) \/ (v = Single(Null) /\ h = RemoveAtPath(g, P))
  PROVE  Closed(h) /\ LeavesOf(h) = Place(LeavesOf(t), P, LeavesOf(v))
<1>1. /\ Closed(g) /\ P \in DOMAIN g
      /\ Scal(g) = {q \in Scal(t) : ~ (IsPrefix(q, P) /\ q # P)}
      /\ \A q \in Scal(g) : g[q] = t[q]
  BY GetOrCreateFacts
<1>2. Scal(Single(Null)) = {}
  BY JsonAssumption DEF Scal, Single
<1>3. /\ Closed(h)
      /\ Scal(h) = {q \in Scal(g) : ~ IsPrefix(P, q)} \cup Moved(P, Scal(v))
      /\ \A q \in Scal(g) : ~ IsPrefix(P, q) => h[q] = g[q]
      /\ \A r \in Scal(v) : h[P \o r] = v[r]
  <2>1. CASE h = Assign(g, P, v)
    BY <1>1, <2>1, AssignFacts
  <2>2. CASE v = Single(Null) /\ h = RemoveAtPath(g, P)
    <3>1. /\ Closed(h) /\ Scal(h) = {q \in Scal(g) : ~ IsPrefix(P, q)}
          /\ \A q \in Scal(h) : h[q] = g[q]
      BY <1>1, <2>2, RemoveFacts
    <3>2. Scal(v) = {} /\ Moved(P, Scal(v)) = {}
      BY <1>2, <2>2 DEF Moved
    <3> QED BY <3>1, <3>2
  <2> QED BY <2>1, <2>2
<1> DEFINE l == LeavesOf(t)
           n == LeavesOf(v)
           k == LeavesOf(h)
<1>4. /\ DOMAIN l = Scal(t) /\ \A q \in Scal(t) : l[q] = t[q]
      /\ DOMAIN n = Scal(v) /\ \A q \in Scal(v) : n[q] = v[q]
      /\ DOMAIN k = Scal(h) /\ \A q \in Scal(h) : k[q] = h[q]
      /\ IsFunction(k)
  BY LeavesFacts DEF IsFunction
<1>5. DOMAIN n \subseteq Path /\ DOMAIN l \subseteq Path
  BY <1>4 DEF Scal, Closed
<1> HIDE DEF l, n, k
<1>6. {q \in Scal(g) : ~ IsPrefix(P, q)} = Aside(l, P)
  <2>1. IsPrefix(P, P)
    BY Order
  <2> QED BY <1>1, <1>4, <2>1 DEF Aside
<1>7. DOMAIN k = Aside(l, P) \cup Moved(P, DOMAIN n)
  BY <1>3, <1>4, <1>6
<1>8. \A q \in Aside(l, P) : k[q] = l[q]
  BY <1>1, <1>3, <1>4, <1>6, <1>7
<1>9. \A r \in DOMAIN n : k[P \o r] = n[r]
  BY <1>3, <1>4, <1>7 DEF Moved
<1>10. k = Place(l, P, n)
  <2>1. IsFunction(k) /\ DOMAIN n \subseteq Path
    BY <1>4, <1>5
  <2> QED BY <1>7, <1>8, <1>9, <2>1, PlaceIs
<1> QED BY <1>3, <1>10 DEF l, n, k

\* A put leaves the scalars it brings, and none above them.
LEMMA PutFacts ==
  ASSUME NEW t, Closed(t), NEW p \in Path, NEW v, Closed(v)
  PROVE  /\ Closed(ApplyPut(t, p, v))
         /\ LeavesOf(ApplyPut(t, p, v)) = Place(LeavesOf(t), p, LeavesOf(v))
<1> DEFINE g == GetOrCreate(t, p)
           h == ApplyPut(t, p, v)
<1>1. h = Assign(g, p, v) \/ (v = Single(Null) /\ h = RemoveAtPath(g, p))
  BY DEF ApplyPut
<1> HIDE DEF h
<1>2. Closed(h) /\ LeavesOf(h) = Place(LeavesOf(t), p, LeavesOf(v))
  BY <1>1, MadeFacts
<1> QED BY <1>2 DEF h

\* So does an entry of a patch, at its own path.
LEMMA SetAtFacts ==
  ASSUME NEW t, Closed(t), NEW p \in Path, NEW keys \in Path, keys # <<>>, NEW v, Closed(v)
  PROVE  /\ Closed(SetAt(t, p, keys, v))
         /\ LeavesOf(SetAt(t, p, keys, v)) = Place(LeavesOf(t), p \o keys, LeavesOf(v))
<1> DEFINE P == p \o keys
           g == GetOrCreate(t, P)
           h == SetAt(t, p, keys, v)
<1>1. h = Assign(g, P, v) \/ (v = Single(Null) /\ h = RemoveAtPath(g, P))
  BY DEF SetAt
<1>2. P \in Path
  BY Joined
<1> HIDE DEF h, P
<1>3. Closed(h) /\ LeavesOf(h) = Place(LeavesOf(t), P, LeavesOf(v))
  BY <1>1, <1>2, MadeFacts
<1> QED BY <1>3 DEF h, P

\* The database's write is the same, where nothing is deleted below a scalar.
LEMMA WriteIsPlace ==
  ASSUME NEW l, DOMAIN l \subseteq Path, NEW P \in Path, NEW v, Closed(v),
         DOMAIN LeavesOf(v) = {} => \A q \in DOMAIN l : ~ IsStrictPrefix(q, P)
  PROVE  Write(l, P, v) = Place(l, P, LeavesOf(v))
<1> DEFINE n == LeavesOf(v)
           kept == {q \in DOMAIN l : ~ IsPrefix(P, q) /\ (IsPrefix(q, P) => DOMAIN n = {})}
           k == Write(l, P, v)
           D == kept \cup Moved(P, DOMAIN n)
<1>1. k = [q \in D |-> IF q \in kept THEN l[q] ELSE n[Below(P, q)]]
  BY DEF Write, Moved
<1>2. DOMAIN n \subseteq Path
  BY LeavesFacts DEF Scal, Closed
<1>3. IsPrefix(P, P)
  BY Order
<1>4. DOMAIN n = {} => \A q \in DOMAIN l : ~ (IsPrefix(q, P) /\ q # P)
  BY DEF IsStrictPrefix
<1> HIDE DEF n, k
<1>5. kept = Aside(l, P)
  <2>1. ASSUME NEW q \in kept PROVE q \in Aside(l, P)
    BY <1>3, <1>4 DEF Aside
  <2>2. ASSUME NEW q \in Aside(l, P) PROVE q \in kept
    BY DEF Aside
  <2> QED BY <2>1, <2>2
<1>6. IsFunction(k)
  BY <1>1 DEF IsFunction
<1>7. \A q \in Aside(l, P) : k[q] = l[q]
  BY <1>1, <1>5
<1>8. ASSUME NEW r \in DOMAIN n PROVE k[P \o r] = n[r]
  <2>1. r \in Path
    BY <1>2
  <2>2. P \o r \in D /\ IsPrefix(P, P \o r) /\ Below(P, P \o r) = r
    BY <2>1, Joined DEF Moved
  <2> QED BY <1>1, <2>2
<1>9. DOMAIN k = Aside(l, P) \cup Moved(P, DOMAIN n)
  BY <1>1, <1>5
<1> HIDE DEF D, kept
<1>10. k = Place(l, P, n)
  BY <1>2, <1>6, <1>7, <1>8, <1>9, PlaceIs
<1> QED BY <1>10 DEF k, n

\* After a write of the database no scalar is below another.
LEMMA WriteScattered ==
  ASSUME NEW l, Scattered(l), NEW P \in Path, NEW v, Closed(v)
  PROVE  Scattered(Write(l, P, v))
<1> DEFINE n == LeavesOf(v)
           kept == {q \in DOMAIN l : ~ IsPrefix(P, q) /\ (IsPrefix(q, P) => DOMAIN n = {})}
           new == Moved(P, DOMAIN n)
           k == Write(l, P, v)
<1>1. k = [q \in kept \cup new |-> IF q \in kept THEN l[q] ELSE n[Below(P, q)]]
  BY DEF Write, Moved
<1>2. Scattered(n)
  BY LeavesScattered
<1> HIDE DEF n, k
<1>3. /\ DOMAIN n \subseteq Path /\ DOMAIN l \subseteq Path
      /\ \A q \in DOMAIN n : n[q] \in Scalars
      /\ \A q \in DOMAIN l : l[q] \in Scalars
  BY <1>2 DEF Scattered, Path
<1>4. ASSUME NEW r \in DOMAIN n
      PROVE  P \o r \in Path /\ IsPrefix(P, P \o r) /\ Below(P, P \o r) = r
  BY <1>3, Joined
<1>5. ASSUME NEW q \in kept \cup new PROVE k[q] \in Scalars /\ q \in Path
  <2>1. CASE q \in kept
    BY <1>1, <1>3, <2>1
  <2>2. CASE q \notin kept
    <3>1. PICK r \in DOMAIN n : q = P \o r
      BY <2>2 DEF Moved
    <3> HIDE DEF kept
    <3> QED BY <1>1, <1>3, <1>4, <2>2, <3>1
  <2> QED BY <2>1, <2>2
<1>6. DOMAIN k = kept \cup new /\ k \in [kept \cup new -> Scalars]
  BY <1>1, <1>5
<1>7. ASSUME NEW p \in kept \cup new, NEW q \in kept \cup new, IsPrefix(p, q), p # q
      PROVE  FALSE
  <2>1. CASE p \in kept /\ q \in kept
    BY <1>7, <2>1 DEF Scattered, IsStrictPrefix
  <2>2. CASE p \in new /\ q \in new
    <3>1. PICK r \in DOMAIN n : p = P \o r
      BY <2>2 DEF Moved
    <3>2. PICK s \in DOMAIN n : q = P \o s
      BY <2>2 DEF Moved
    <3>3. r \in Path /\ s \in Path
      BY <1>3
    <3>4. IsPrefix(r, s) /\ r # s
      BY <1>7, <3>1, <3>2, <3>3, JoinedOrder
    <3> QED BY <1>2, <3>4 DEF Scattered, IsStrictPrefix
  <2>3. CASE p \in kept /\ q \in new
    <3>1. PICK r \in DOMAIN n : q = P \o r
      BY <2>3 DEF Moved
    <3>2. q \in Path /\ p \in Path /\ IsPrefix(P, q) /\ DOMAIN n # {}
      BY <1>3, <1>4, <2>3, <3>1
    <3>3. IsPrefix(p, P) \/ IsPrefix(P, p)
      BY <1>7, <3>2, Order
    <3> QED BY <2>3, <3>2, <3>3
  <2>4. CASE p \in new /\ q \in kept
    <3>1. PICK r \in DOMAIN n : p = P \o r
      BY <2>4 DEF Moved
    <3>2. p \in Path /\ q \in Path /\ IsPrefix(P, p)
      BY <1>3, <1>4, <2>4, <3>1
    <3>3. IsPrefix(P, q)
      BY <1>7, <3>2, Order
    <3> QED BY <2>4, <3>3
  <2> QED BY <2>1, <2>2, <2>3, <2>4
<1>8. Scattered(k)
  <2> HIDE DEF kept, new
  <2> QED BY <1>5, <1>6, <1>7 DEF Scattered, IsStrictPrefix, Path
<1> QED BY <1>8 DEF k

\* A get: the value with some scalars is one, and those are its scalars.
LEMMA ValueFacts ==
  ASSUME NEW l, Scattered(l)
  PROVE  Closed(ValueOf(l)) /\ LeavesOf(ValueOf(l)) = l
<1>0. /\ Null \in Node /\ Obj \in Node /\ Null \notin Scalars /\ Obj \notin Scalars
      /\ Scalars \subseteq Node
  BY JsonAssumption DEF Node
<1>1. /\ l = [q \in DOMAIN l |-> l[q]] /\ DOMAIN l \subseteq Path
      /\ \A q \in DOMAIN l : l[q] \in Scalars
      /\ \A p, q \in DOMAIN l : ~ (IsPrefix(p, q) /\ p # q)
  BY DEF Scattered, Path, IsStrictPrefix
<1>2. CASE DOMAIN l = {}
  <2> DEFINE g == Single(Null)
  <2>1. g = [q \in {<<>>} |-> Null] /\ DOMAIN g = {<<>>} /\ g[<<>>] = Null
    BY DEF Single
  <2>2. g \in [{<<>>} -> Node]
    BY <1>0, <2>1
  <2> HIDE DEF g
  <2>3. Closed(g)
    BY <1>0, <2>1, <2>2, Order DEF Closed
  <2>4. Scal(g) = {}
    BY <1>0, <2>1 DEF Scal
  <2>5. LeavesOf(g) = l
    BY <1>1, <1>2, <2>4, LeavesFacts
  <2> QED BY <1>2, <2>3, <2>5 DEF ValueOf, g
<1>3. CASE DOMAIN l # {}
  <2> DEFINE D == UNION {{SubSeq(q, 1, n) : n \in 0..Len(q)} : q \in DOMAIN l}
             g == ValueOf(l)
  <2>1. D = {r \in Path : \E q \in DOMAIN l : IsPrefix(r, q)}
    <3>1. \A q \in DOMAIN l : {SubSeq(q, 1, n) : n \in 0..Len(q)} = {r \in Path : IsPrefix(r, q)}
      BY <1>1, Beginnings
    <3>2. D = UNION {{r \in Path : IsPrefix(r, q)} : q \in DOMAIN l}
      BY <3>1
    <3> QED BY <3>2
  <2>2. g = [p \in D |-> IF p \in DOMAIN l THEN l[p] ELSE Obj]
    BY <1>3 DEF ValueOf
  <2> HIDE DEF D, g
  <2>3. DOMAIN g = D /\ \A p \in D : g[p] = IF p \in DOMAIN l THEN l[p] ELSE Obj
    BY <2>2
  <2>4. DOMAIN l \subseteq D
    BY <1>1, <2>1, Order
  <2>5. g \in [D -> Node]
    BY <1>0, <1>1, <2>2
  <2>6. <<>> \in D
    BY <1>1, <1>3, <2>1, Order
  <2>7. ASSUME NEW p \in D, NEW r \in Path, IsPrefix(r, p), r # p
        PROVE  r \in D /\ g[r] = Obj
    <3>1. p \in Path
      BY <2>1
    <3>2. PICK q \in DOMAIN l : IsPrefix(p, q)
      BY <2>1
    <3>3. q \in Path
      BY <1>1
    <3>4. IsPrefix(r, q) /\ r # q
      BY <2>7, <3>1, <3>2, <3>3, Order
    <3>5. r \notin DOMAIN l
      BY <1>1, <3>4
    <3>6. r \in D
      BY <2>1, <3>4
    <3> QED BY <2>3, <3>5, <3>6
  <2>8. Closed(g)
    BY <2>1, <2>3, <2>5, <2>6, <2>7 DEF Closed
  <2>9. Scal(g) = DOMAIN l /\ \A q \in DOMAIN l : g[q] = l[q]
    BY <1>0, <1>1, <2>3, <2>4 DEF Scal
  <2>10. LeavesOf(g) = l
    BY <1>1, <2>9, LeavesFacts
  <2> QED BY <2>8, <2>10 DEF g
<1> QED BY <1>2, <1>3

-----------------------------------------------------------------------------
(* Patches. *)

\* What is known of the entries of a patch.
LEMMA EntryFacts ==
  ASSUME NEW s \in Patches
  PROVE  /\ Len(s) \in Nat /\ DOMAIN s = 1..Len(s) /\ (s = <<>> <=> Len(s) = 0)
         /\ \A i \in 1..Len(s) : /\ s[i].key \in Path \cup {Bad}
                                 /\ Closed(s[i].value)
                                 /\ s[i].key # Bad => s[i].key # <<>>
         /\ \A i, j \in 1..Len(s) :
              s[i].key # Bad /\ s[j].key # Bad /\ i # j => ~ IsPrefix(s[i].key, s[j].key)
<1>1. s \in Seq(Range(s))
  BY JsonAssumption
<1>2. Len(s) \in Nat /\ DOMAIN s = 1..Len(s) /\ (s = <<>> <=> Len(s) = 0)
  BY <1>1, LenProperties, EmptySeq
<1>3. \A i \in 1..Len(s) : s[i].key \in Path \cup {Bad} /\ WellFormed(s[i].value)
  BY <1>2, JsonAssumption DEF Path
<1>4. \A i \in 1..Len(s) : Closed(s[i].value)
  BY <1>3, Ancestors
<1>5. \A i, j \in 1..Len(s) :
        s[i].key # Bad /\ s[j].key # Bad =>
          s[i].key # <<>> /\ (i # j => ~ IsPrefix(s[i].key, s[j].key))
  BY <1>2, PatchAssumption
<1> QED BY <1>2, <1>3, <1>4, <1>5

\* segments fails at the first key it refuses, the entries before it applied.
LEMMA ParsedFacts ==
  ASSUME NEW s \in Patches
  PROVE  /\ Parsed(s) \in 0..Len(s)
         /\ \A i \in 1..Parsed(s) : s[i].key # Bad
         /\ Parsed(s) < Len(s) => s[Parsed(s) + 1].key = Bad
<1> DEFINE B == {i \in 1..Len(s) : s[i].key = Bad}
           Fit(n) == /\ \A i \in 1..n : s[i].key # Bad
                     /\ n < Len(s) => s[n + 1].key = Bad
<1>1. Len(s) \in Nat
  BY EntryFacts
<1>2. \E n \in 0..Len(s) : Fit(n)
  <2>1. CASE B = {}
    <3>1. Fit(Len(s)) /\ Len(s) \in 0..Len(s)
      BY <1>1, <2>1
    <3> QED BY <3>1
  <2>2. CASE B # {}
    <3>1. B \in SUBSET Nat
      BY <1>1
    <3>2. PICK m \in B : \A i \in B : m <= i
      <4> HIDE DEF B
      <4> QED BY <2>2, <3>1, LeastElement
    <3>3. m \in 1..Len(s) /\ s[m].key = Bad
      BY <3>2
    <3>4. m - 1 \in 0..Len(s) /\ (m - 1) + 1 = m
      BY <1>1, <3>3
    <3>5. ASSUME NEW i \in 1..(m - 1) PROVE s[i].key # Bad
      <4>1. i \in 1..Len(s) /\ ~ (m <= i)
        BY <1>1, <3>3
      <4> QED BY <3>2, <4>1
    <3>6. Fit(m - 1)
      BY <3>3, <3>4, <3>5
    <3> QED BY <3>4, <3>6
  <2> QED BY <2>1, <2>2
<1>3. Parsed(s) = CHOOSE n \in 0..Len(s) : Fit(n)
  BY DEF Parsed
<1> HIDE DEF Fit
<1>4. Parsed(s) \in 0..Len(s) /\ Fit(Parsed(s))
  BY <1>2, <1>3
<1> QED BY <1>4 DEF Fit

\* The object after each entry is the one before it with the entry in.
LEMMA PatchedSteps ==
  ASSUME NEW t, NEW p, NEW s, Len(s) \in Nat
  PROVE  /\ Patched(t, p, s)[0] = t
         /\ \A i \in 1..Len(s) :
              Patched(t, p, s)[i] = SetAt(Patched(t, p, s)[i - 1], p, s[i].key, s[i].value)
<1> DEFINE Fits(h, N) ==
             h = [n \in 0..N |->
                    IF n = 0 THEN t ELSE SetAt(h[n - 1], p, s[n].key, s[n].value)]
           None == {N \in Nat : ~ \E h : Fits(h, N)}
<1>1. ASSUME None # {} PROVE FALSE
  <2>1. PICK N \in None : \A M \in None : N <= M
    <3>1. None \in SUBSET Nat
      OBVIOUS
    <3> HIDE DEF None
    <3> QED BY <1>1, <3>1, LeastElement
  <2>2. CASE N = 0
    <3> DEFINE h == [n \in 0..0 |-> t]
    <3>1. h = [n \in 0..0 |->
                 IF n = 0 THEN t ELSE SetAt(h[n - 1], p, s[n].key, s[n].value)]
      <4>1. \A n \in 0..0 : n = 0
        OBVIOUS
      <4> QED BY <4>1
    <3> QED BY <2>1, <2>2, <3>1
  <2>3. CASE N # 0
    <3>1. N - 1 \in Nat /\ ~ (N <= N - 1)
      BY <2>3
    <3>2. N - 1 \notin None
      <4> HIDE DEF None
      <4> QED BY <2>1, <3>1
    <3>3. PICK g : Fits(g, N - 1)
      BY <3>1, <3>2
    <3>4. \A n \in 0..(N - 1) :
            g[n] = IF n = 0 THEN t ELSE SetAt(g[n - 1], p, s[n].key, s[n].value)
      BY <3>3
    <3> DEFINE h == [n \in 0..N |->
                       IF n = N THEN SetAt(g[N - 1], p, s[N].key, s[N].value) ELSE g[n]]
    <3>5. ASSUME NEW n \in 0..N
          PROVE  h[n] = IF n = 0 THEN t ELSE SetAt(h[n - 1], p, s[n].key, s[n].value)
      <4>1. CASE n = N
        <5>1. N - 1 \in 0..N /\ N - 1 # N
          BY <3>1
        <5>2. h[n - 1] = g[N - 1]
          BY <4>1, <5>1
        <5> QED BY <2>3, <4>1, <5>2
      <4>2. CASE n # N
        <5>1. n \in 0..(N - 1) /\ h[n] = g[n]
          BY <4>2
        <5>2. n # 0 => n - 1 \in 0..N /\ n - 1 # N
          BY <4>2
        <5>3. n # 0 => h[n - 1] = g[n - 1]
          BY <5>2
        <5> HIDE DEF h
        <5> QED BY <3>4, <5>1, <5>3
      <4> QED BY <4>1, <4>2
    <3>6. h = [n \in 0..N |-> h[n]]
      OBVIOUS
    <3>7. Fits(h, N)
      <4> HIDE DEF h
      <4> QED BY <3>5, <3>6
    <3> QED BY <2>1, <3>7
  <2> QED BY <2>2, <2>3
<1>2. \E h : Fits(h, Len(s))
  BY <1>1
<1>3. Patched(t, p, s) = CHOOSE h : Fits(h, Len(s))
  BY DEF Patched
<1>4. Fits(Patched(t, p, s), Len(s))
  <2> HIDE DEF Fits
  <2> QED BY <1>2, <1>3
<1> DEFINE u == Patched(t, p, s)
<1>5. u = [n \in 0..Len(s) |->
             IF n = 0 THEN t ELSE SetAt(u[n - 1], p, s[n].key, s[n].value)]
  BY <1>4
<1> HIDE DEF u
<1>6. \A n \in 0..Len(s) :
        u[n] = IF n = 0 THEN t ELSE SetAt(u[n - 1], p, s[n].key, s[n].value)
  BY <1>5
<1>7. 0 \in 0..Len(s) /\ \A i \in 1..Len(s) : i \in 0..Len(s) /\ i # 0
  OBVIOUS
<1>8. u[0] = t /\ \A i \in 1..Len(s) : u[i] = SetAt(u[i - 1], p, s[i].key, s[i].value)
  BY <1>6, <1>7
<1> QED BY <1>8 DEF u

\* The same of the database's scalars.
LEMMA WrittenSteps ==
  ASSUME NEW l, NEW p, NEW s, Len(s) \in Nat
  PROVE  /\ Written(l, p, s)[0] = l
         /\ \A i \in 1..Len(s) :
              Written(l, p, s)[i] = Write(Written(l, p, s)[i - 1], p \o s[i].key, s[i].value)
<1> DEFINE Fits(h, N) ==
             h = [n \in 0..N |->
                    IF n = 0 THEN l ELSE Write(h[n - 1], p \o s[n].key, s[n].value)]
           None == {N \in Nat : ~ \E h : Fits(h, N)}
<1>1. ASSUME None # {} PROVE FALSE
  <2>1. PICK N \in None : \A M \in None : N <= M
    <3>1. None \in SUBSET Nat
      OBVIOUS
    <3> HIDE DEF None
    <3> QED BY <1>1, <3>1, LeastElement
  <2>2. CASE N = 0
    <3> DEFINE h == [n \in 0..0 |-> l]
    <3>1. h = [n \in 0..0 |->
                 IF n = 0 THEN l ELSE Write(h[n - 1], p \o s[n].key, s[n].value)]
      <4>1. \A n \in 0..0 : n = 0
        OBVIOUS
      <4> QED BY <4>1
    <3> QED BY <2>1, <2>2, <3>1
  <2>3. CASE N # 0
    <3>1. N - 1 \in Nat /\ ~ (N <= N - 1)
      BY <2>3
    <3>2. N - 1 \notin None
      <4> HIDE DEF None
      <4> QED BY <2>1, <3>1
    <3>3. PICK g : Fits(g, N - 1)
      BY <3>1, <3>2
    <3>4. \A n \in 0..(N - 1) :
            g[n] = IF n = 0 THEN l ELSE Write(g[n - 1], p \o s[n].key, s[n].value)
      BY <3>3
    <3> DEFINE h == [n \in 0..N |->
                       IF n = N THEN Write(g[N - 1], p \o s[N].key, s[N].value) ELSE g[n]]
    <3>5. ASSUME NEW n \in 0..N
          PROVE  h[n] = IF n = 0 THEN l ELSE Write(h[n - 1], p \o s[n].key, s[n].value)
      <4>1. CASE n = N
        <5>1. N - 1 \in 0..N /\ N - 1 # N
          BY <3>1
        <5>2. h[n - 1] = g[N - 1]
          BY <4>1, <5>1
        <5> QED BY <2>3, <4>1, <5>2
      <4>2. CASE n # N
        <5>1. n \in 0..(N - 1) /\ h[n] = g[n]
          BY <4>2
        <5>2. n # 0 => n - 1 \in 0..N /\ n - 1 # N
          BY <4>2
        <5>3. n # 0 => h[n - 1] = g[n - 1]
          BY <5>2
        <5> HIDE DEF h
        <5> QED BY <3>4, <5>1, <5>3
      <4> QED BY <4>1, <4>2
    <3>6. h = [n \in 0..N |-> h[n]]
      OBVIOUS
    <3>7. Fits(h, N)
      <4> HIDE DEF h
      <4> QED BY <3>5, <3>6
    <3> QED BY <2>1, <3>7
  <2> QED BY <2>2, <2>3
<1>2. \E h : Fits(h, Len(s))
  BY <1>1
<1>3. Written(l, p, s) = CHOOSE h : Fits(h, Len(s))
  BY DEF Written
<1>4. Fits(Written(l, p, s), Len(s))
  <2> HIDE DEF Fits
  <2> QED BY <1>2, <1>3
<1> DEFINE u == Written(l, p, s)
<1>5. u = [n \in 0..Len(s) |->
             IF n = 0 THEN l ELSE Write(u[n - 1], p \o s[n].key, s[n].value)]
  BY <1>4
<1> HIDE DEF u
<1>6. \A n \in 0..Len(s) :
        u[n] = IF n = 0 THEN l ELSE Write(u[n - 1], p \o s[n].key, s[n].value)
  BY <1>5
<1>7. 0 \in 0..Len(s) /\ \A i \in 1..Len(s) : i \in 0..Len(s) /\ i # 0
  OBVIOUS
<1>8. u[0] = l /\ \A i \in 1..Len(s) : u[i] = Write(u[i - 1], p \o s[i].key, s[i].value)
  BY <1>6, <1>7
<1> QED BY <1>8 DEF u

\* The scalars of l that are not at p nor above it.
Off(l, p) == [q \in {r \in DOMAIN l : ~ IsPrefix(r, p)} |-> l[q]]

LEMMA OffFacts ==
  ASSUME NEW l, DOMAIN l \subseteq Path, NEW p \in Path
  PROVE  /\ DOMAIN Off(l, p) \subseteq Path /\ Off(Off(l, p), p) = Off(l, p)
         /\ \A k \in Path : \A n : DOMAIN n \subseteq Path =>
              Place(Off(l, p), p \o k, n) = Place(l, p \o k, n)
<1> DEFINE o == Off(l, p)
           D == {r \in DOMAIN l : ~ IsPrefix(r, p)}
<1>1. o = [q \in D |-> l[q]] /\ DOMAIN o = D /\ \A q \in D : o[q] = l[q]
  BY DEF Off
<1>2. Off(o, p) = o
  <2>1. {r \in DOMAIN o : ~ IsPrefix(r, p)} = D
    BY <1>1
  <2>2. Off(o, p) = [q \in D |-> o[q]]
    BY <2>1 DEF Off
  <2> HIDE DEF D, o
  <2> QED BY <1>1, <2>2
<1>3. ASSUME NEW k \in Path, NEW n, DOMAIN n \subseteq Path
      PROVE  Place(o, p \o k, n) = Place(l, p \o k, n)
  <2> DEFINE P == p \o k
             new == Moved(P, DOMAIN n)
  <2>1. P \in Path /\ IsPrefix(p, P)
    BY Joined
  <2>2. Aside(o, P) = Aside(l, P)
    <3>1. \A q \in DOMAIN l : IsPrefix(q, p) => IsPrefix(q, P)
      BY <2>1, Order
    <3> HIDE DEF P
    <3>2. \A q : q \in Aside(o, P) <=> q \in Aside(l, P)
      BY <1>1, <3>1 DEF Aside
    <3> QED BY <3>2
  <2>3. \A q \in Aside(o, P) : o[q] = l[q]
    BY <1>1 DEF Aside
  <2>4. ASSUME NEW q \in new PROVE IsPrefix(P, q)
    <3>1. PICK r \in DOMAIN n : q = P \o r
      BY <2>4 DEF Moved
    <3>2. r \in Path
      BY <1>3
    <3> QED BY <2>1, <3>1, <3>2, Joined
  <2> HIDE DEF P
  <2>5. \A q \in Aside(o, P) \cup new :
          (IF IsPrefix(P, q) THEN n[Below(P, q)] ELSE o[q])
            = (IF IsPrefix(P, q) THEN n[Below(P, q)] ELSE l[q])
    BY <2>3, <2>4
  <2>6. Place(o, P, n) = Place(l, P, n)
    <3> HIDE DEF o
    <3> QED BY <2>2, <2>5 DEF Place
  <2> QED BY <2>6 DEF P
<1> QED BY <1>1, <1>2, <1>3 DEF o

\* The object a patch is merged into.
Target(t, p) ==
  LET made == GetOrCreate(t, p)
  IN IF made[p] = Obj THEN made ELSE Assign(made, p, Single(Obj))

LEMMA TargetFacts ==
  ASSUME NEW t, Closed(t), NEW p \in Path
  PROVE  Closed(Target(t, p)) /\ LeavesOf(Target(t, p)) = Off(LeavesOf(t), p)
<1> DEFINE g == GetOrCreate(t, p)
           h == Target(t, p)
<1>1. /\ Closed(g) /\ p \in DOMAIN g
      /\ g[p] = IF p \in DOMAIN t THEN t[p] ELSE Null
      /\ Scal(g) = {q \in Scal(t) : ~ (IsPrefix(q, p) /\ q # p)}
      /\ \A q \in Scal(g) : g[q] = t[q]
  BY GetOrCreateFacts
<1>2. h = IF g[p] = Obj THEN g ELSE Assign(g, p, Single(Obj))
  BY DEF Target
<1>3. /\ Null \notin Scalars /\ Obj \notin Scalars /\ Obj \in Node
      /\ <<>> \in Path /\ IsPrefix(p, p)
      /\ \A q \in Path : IsPrefix(q, <<>>) => q = <<>>
  BY JsonAssumption, Order DEF Node
<1> DEFINE D == {q \in Scal(t) : ~ IsPrefix(q, p)}
<1> HIDE DEF g, h
<1>4. Closed(h) /\ Scal(h) = D /\ \A q \in D : h[q] = t[q]
  <2>1. CASE g[p] = Obj
    <3>1. p \notin Scal(g)
      BY <1>3, <2>1 DEF Scal
    <3>2. Scal(g) = D
      BY <1>1, <1>3, <3>1
    <3> QED BY <1>1, <1>2, <2>1, <3>2
  <2>2. CASE g[p] # Obj
    <3> DEFINE v == Single(Obj)
    <3>1. v = [q \in {<<>>} |-> Obj] /\ DOMAIN v = {<<>>} /\ v[<<>>] = Obj
      BY DEF Single
    <3>2. v \in [{<<>>} -> Node]
      BY <1>3, <3>1
    <3> HIDE DEF v
    <3>3. Closed(v) /\ Scal(v) = {} /\ Moved(p, Scal(v)) = {}
      BY <1>3, <3>1, <3>2 DEF Closed, Scal, Moved
    <3>4. h = Assign(g, p, v)
      BY <1>2, <2>2 DEF v
    <3>5. /\ Closed(h)
          /\ Scal(h) = {q \in Scal(g) : ~ IsPrefix(p, q)} \cup Moved(p, Scal(v))
          /\ \A q \in Scal(g) : ~ IsPrefix(p, q) => h[q] = g[q]
      <4>1. Closed(g) /\ Closed(v) /\ p \in DOMAIN g
        BY <1>1, <3>3
      <4> HIDE DEF D
      <4> QED BY <3>4, <4>1, AssignFacts
    <3>6. ASSUME NEW q \in Scal(g), IsPrefix(p, q) PROVE q = p
      <4>1. q \in DOMAIN g
        BY DEF Scal
      <4> QED BY <1>1, <2>2, <3>6, <4>1 DEF Closed
    <3>7. {q \in Scal(g) : ~ IsPrefix(p, q)} = D
      <4>1. ASSUME NEW q \in D PROVE q \in Scal(g) /\ ~ IsPrefix(p, q)
        <5>1. q \in Scal(g)
          BY <1>1
        <5>2. q # p
          BY <1>3
        <5> QED BY <3>6, <5>1, <5>2
      <4>2. ASSUME NEW q \in Scal(g), ~ IsPrefix(p, q) PROVE q \in D
        BY <1>1, <1>3, <4>2
      <4> QED BY <4>1, <4>2
    <3> QED BY <1>1, <3>3, <3>5, <3>7
  <2> QED BY <2>1, <2>2
<1>5. LeavesOf(h) = Off(LeavesOf(t), p)
  <2>1. LeavesOf(h) = [q \in D |-> h[q]]
    BY <1>4, LeavesFacts
  <2>2. Off(LeavesOf(t), p) = [q \in D |-> LeavesOf(t)[q]]
    BY LeavesFacts DEF Off
  <2>3. \A q \in D : h[q] = LeavesOf(t)[q]
    BY <1>4, LeavesFacts
  <2> QED BY <2>1, <2>2, <2>3
<1> QED BY <1>4, <1>5 DEF h

\* apply_patch, as far as it gets, makes a JSON value of one.
LEMMA PatchClosed ==
  ASSUME NEW t, Closed(t), NEW p \in Path, NEW s \in Patches
  PROVE  /\ \A i \in 0..Parsed(s) : Closed(Patched(t, p, s)[i])
         /\ \A i \in 1..Parsed(s) : 
              LeavesOf(Patched(t, p, s)[i])
                = Place(LeavesOf(Patched(t, p, s)[i - 1]), p \o s[i].key, LeavesOf(s[i].value))
<1> DEFINE u == Patched(t, p, s)
           W == {i \in 0..Parsed(s) : ~ Closed(u[i])}
<1>1. /\ Len(s) \in Nat /\ Parsed(s) \in Nat /\ Parsed(s) <= Len(s)
      /\ \A i \in 1..Parsed(s) : s[i].key # Bad
  BY EntryFacts, ParsedFacts
<1>2. u[0] = t /\ \A i \in 1..Len(s) : u[i] = SetAt(u[i - 1], p, s[i].key, s[i].value)
  BY <1>1, PatchedSteps
<1> HIDE DEF u
<1>3. ASSUME NEW i \in 1..Parsed(s), Closed(u[i - 1])
      PROVE  /\ Closed(u[i])
             /\ LeavesOf(u[i])
                  = Place(LeavesOf(u[i - 1]), p \o s[i].key, LeavesOf(s[i].value))
  <2>1. i \in 1..Len(s) /\ s[i].key # Bad
    BY <1>1
  <2>2. s[i].key \in Path /\ s[i].key # <<>> /\ Closed(s[i].value)
    BY <2>1, EntryFacts
  <2>3. u[i] = SetAt(u[i - 1], p, s[i].key, s[i].value)
    BY <1>2, <2>1
  <2> QED BY <1>3, <2>2, <2>3, SetAtFacts
<1>4. ASSUME W # {} PROVE FALSE
  <2>1. PICK i \in W : \A j \in W : i <= j
    <3>1. W \in SUBSET Nat
      OBVIOUS
    <3> HIDE DEF W
    <3> QED BY <1>4, <3>1, LeastElement
  <2>2. i # 0
    BY <1>2, <2>1
  <2>3. i \in 1..Parsed(s) /\ i - 1 \in 0..Parsed(s) /\ ~ (i <= i - 1)
    BY <1>1, <2>1, <2>2
  <2>4. i - 1 \notin W
    <3> HIDE DEF W
    <3> QED BY <2>1, <2>3
  <2>5. Closed(u[i - 1]) /\ ~ Closed(u[i])
    BY <2>1, <2>3, <2>4
  <2> QED BY <1>3, <2>3, <2>5
<1>5. \A i \in 0..Parsed(s) : Closed(u[i])
  BY <1>4
<1>6. \A i \in 1..Parsed(s) : i - 1 \in 0..Parsed(s)
  BY <1>1
<1>7. \A i \in 1..Parsed(s) :
        LeavesOf(u[i]) = Place(LeavesOf(u[i - 1]), p \o s[i].key, LeavesOf(s[i].value))
  BY <1>3, <1>5, <1>6
<1> QED BY <1>5, <1>7 DEF u

\* The database's scalars stay apart through a patch.
LEMMA PatchScattered ==
  ASSUME NEW l, Scattered(l), NEW p \in Path, NEW s \in Patches, Parsed(s) = Len(s)
  PROVE  \A i \in 0..Len(s) : Scattered(Written(l, p, s)[i])
<1> DEFINE w == Written(l, p, s)
           W == {i \in 0..Len(s) : ~ Scattered(w[i])}
<1>1. Len(s) \in Nat /\ \A i \in 1..Len(s) : s[i].key # Bad
  BY EntryFacts, ParsedFacts
<1>2. w[0] = l /\ \A i \in 1..Len(s) : w[i] = Write(w[i - 1], p \o s[i].key, s[i].value)
  BY <1>1, WrittenSteps
<1> HIDE DEF w
<1>3. ASSUME NEW i \in 1..Len(s), Scattered(w[i - 1]) PROVE Scattered(w[i])
  <2>1. s[i].key \in Path /\ Closed(s[i].value)
    BY <1>1, EntryFacts
  <2>2. p \o s[i].key \in Path
    BY <2>1, Joined
  <2>3. w[i] = Write(w[i - 1], p \o s[i].key, s[i].value)
    BY <1>2
  <2> QED BY <1>3, <2>1, <2>2, <2>3, WriteScattered
<1>4. ASSUME W # {} PROVE FALSE
  <2>1. PICK i \in W : \A j \in W : i <= j
    <3>1. W \in SUBSET Nat
      OBVIOUS
    <3> HIDE DEF W
    <3> QED BY <1>4, <3>1, LeastElement
  <2>2. i # 0
    BY <1>2, <2>1
  <2>3. i \in 1..Len(s) /\ i - 1 \in 0..Len(s) /\ ~ (i <= i - 1)
    BY <1>1, <2>1, <2>2
  <2>4. i - 1 \notin W
    <3> HIDE DEF W
    <3> QED BY <2>1, <2>3
  <2>5. Scattered(w[i - 1]) /\ ~ Scattered(w[i])
    BY <2>1, <2>3, <2>4
  <2> QED BY <1>3, <2>3, <2>5
<1>5. \A i \in 0..Len(s) : Scattered(w[i])
  BY <1>4
<1> QED BY <1>5 DEF w

\* While nothing is deleted below a scalar, no later entry deletes below one that
\* an earlier entry has put: the keys of a patch are apart.
Spared(l, P, v) ==
  DOMAIN LeavesOf(v) = {} => \A q \in DOMAIN l : ~ IsStrictPrefix(q, P)

LEMMA PatchSpared ==
  ASSUME NEW l, Scattered(l), NEW p \in Path, NEW s \in Patches, Parsed(s) = Len(s),
         \A j \in 1..Len(s) : Spared(l, p \o s[j].key, s[j].value)
  PROVE  \A i \in 0..Len(s) : \A j \in 1..Len(s) :
           i < j => Spared(Written(l, p, s)[i], p \o s[j].key, s[j].value)
<1> DEFINE w == Written(l, p, s)
           Ok(i) == \A j \in 1..Len(s) : i < j => Spared(w[i], p \o s[j].key, s[j].value)
           W == {i \in 0..Len(s) : ~ Ok(i)}
<1>1. /\ Len(s) \in Nat /\ \A i \in 1..Len(s) : s[i].key # Bad
      /\ \A i \in 0..Len(s) : Scattered(w[i])
  BY EntryFacts, ParsedFacts, PatchScattered
<1>2. w[0] = l /\ \A i \in 1..Len(s) : w[i] = Write(w[i - 1], p \o s[i].key, s[i].value)
  BY <1>1, WrittenSteps
<1> HIDE DEF w
<1>3. ASSUME NEW i \in 1..Len(s), Ok(i - 1) PROVE Ok(i)
  <2> DEFINE P == p \o s[i].key
             v == s[i].value
  <2>1. s[i].key \in Path /\ Closed(v)
    BY <1>1, EntryFacts
  <2>2. P \in Path /\ w[i] = Write(w[i - 1], P, v)
    BY <1>2, <2>1, Joined
  <2>3. i - 1 \in 0..Len(s) /\ i - 1 < i
    BY <1>1
  <2>4. DOMAIN w[i - 1] \subseteq Path
    BY <1>1, <2>3 DEF Scattered, Path
  <2>5. Spared(w[i - 1], P, v)
    BY <1>3, <2>3
  <2> DEFINE n == LeavesOf(v)
  <2>6. w[i] = Place(w[i - 1], P, n)
    <3> HIDE DEF P, v
    <3> QED BY <2>1, <2>2, <2>4, <2>5, WriteIsPlace DEF Spared
  <2>7. DOMAIN n \subseteq Path
    BY <2>1, LeavesFacts DEF Scal, Closed
  <2> HIDE DEF n
  <2>8. DOMAIN w[i] = Aside(w[i - 1], P) \cup Moved(P, DOMAIN n)
    BY <2>6 DEF Place
  <2>9. ASSUME NEW j \in 1..Len(s), i < j, DOMAIN LeavesOf(s[j].value) = {},
               NEW q \in DOMAIN w[i]
        PROVE  ~ IsStrictPrefix(q, p \o s[j].key)
    <3>1. s[j].key \in Path /\ s[j].key # Bad /\ s[i].key # Bad /\ i # j
      BY <1>1, <2>9, EntryFacts
    <3>2. CASE q \in Aside(w[i - 1], P)
      <4>1. q \in DOMAIN w[i - 1]
        BY <3>2 DEF Aside
      <4>2. i - 1 < j
        BY <1>1, <2>9
      <4>3. Spared(w[i - 1], p \o s[j].key, s[j].value)
        BY <1>3, <4>2
      <4> QED BY <2>9, <4>1, <4>3 DEF Spared
    <3>3. CASE q \in Moved(P, DOMAIN n)
      <4>1. PICK r \in DOMAIN n : q = P \o r
        BY <3>3 DEF Moved
      <4>2. r \in Path
        BY <2>7
      <4>3. IsPrefix(P, q) /\ q \in Path
        BY <2>2, <4>1, <4>2, Joined
      <4>4. p \o s[j].key \in Path
        BY <3>1, Joined
      <4>5. ASSUME IsPrefix(q, p \o s[j].key) PROVE FALSE
        <5>1. IsPrefix(P, p \o s[j].key)
          BY <2>2, <4>3, <4>4, <4>5, Order
        <5>2. IsPrefix(s[i].key, s[j].key)
          BY <2>1, <3>1, <5>1, JoinedOrder
        <5> QED BY <3>1, <5>2, EntryFacts
      <4> QED BY <4>5 DEF IsStrictPrefix
    <3> QED BY <2>8, <3>2, <3>3
  <2> QED BY <2>9 DEF Spared
<1>4. ASSUME W # {} PROVE FALSE
  <2>1. PICK i \in W : \A j \in W : i <= j
    <3>1. W \in SUBSET Nat
      OBVIOUS
    <3> HIDE DEF W
    <3> QED BY <1>4, <3>1, LeastElement
  <2>2. i # 0
    <3>1. Ok(0)
      BY <1>2
    <3> QED BY <2>1, <3>1
  <2>3. i \in 1..Len(s) /\ i - 1 \in 0..Len(s) /\ ~ (i <= i - 1)
    BY <1>1, <2>1, <2>2
  <2>4. i - 1 \notin W
    <3> HIDE DEF W
    <3> QED BY <2>1, <2>3
  <2> HIDE DEF Ok
  <2>5. Ok(i - 1) /\ ~ Ok(i)
    BY <2>1, <2>3, <2>4
  <2> QED BY <1>3, <2>3, <2>5
<1>5. \A i \in 0..Len(s) : Ok(i)
  <2> HIDE DEF Ok
  <2> QED BY <1>4
<1> QED BY <1>5 DEF w

\* A patch merges into the object at p what the database writes entry by entry.
LEMMA PatchFacts ==
  ASSUME NEW t, Closed(t), NEW p \in Path, NEW s \in Patches
  PROVE  /\ Closed(ApplyPatch(t, p, s))
         /\ /\ Parsed(s) = Len(s)
            /\ s = <<>> => \A q \in Scal(t) : ~ IsStrictPrefix(q, p)
            /\ \A j \in 1..Len(s) : Spared(LeavesOf(t), p \o s[j].key, s[j].value)
            => LeavesOf(ApplyPatch(t, p, s)) = Written(LeavesOf(t), p, s)[Len(s)]
<1> DEFINE u == Patched(Target(t, p), p, s)
           l == LeavesOf(t)
           w == Written(l, p, s)
           g == GetOrCreate(t, p)
<1>1. Closed(Target(t, p)) /\ LeavesOf(Target(t, p)) = Off(l, p)
  BY TargetFacts
<1>2. ApplyPatch(t, p, s) = IF s = <<>> THEN g ELSE u[Parsed(s)]
  BY DEF ApplyPatch, Target
<1>3. Len(s) \in Nat /\ Parsed(s) \in 0..Len(s) /\ (s = <<>> <=> Len(s) = 0)
  BY EntryFacts, ParsedFacts
<1>4. /\ \A i \in 0..Parsed(s) : Closed(u[i])
      /\ \A i \in 1..Parsed(s) :
           LeavesOf(u[i]) = Place(LeavesOf(u[i - 1]), p \o s[i].key, LeavesOf(s[i].value))
  BY <1>1, PatchClosed
<1>5. /\ Closed(g) /\ Scal(g) = {q \in Scal(t) : ~ (IsPrefix(q, p) /\ q # p)}
      /\ \A q \in Scal(g) : g[q] = t[q]
  BY GetOrCreateFacts
<1>6. u[0] = Target(t, p) /\ w[0] = l
  BY <1>3, PatchedSteps, WrittenSteps
<1>7. Scattered(l) /\ DOMAIN l \subseteq Path /\ DOMAIN l = Scal(t)
  BY LeavesScattered, LeavesFacts DEF Scattered, Path
<1>8. Closed(ApplyPatch(t, p, s))
  BY <1>2, <1>3, <1>4, <1>5
<1>9. ASSUME Parsed(s) = Len(s), s = <<>>, \A q \in Scal(t) : ~ IsStrictPrefix(q, p)
      PROVE  LeavesOf(ApplyPatch(t, p, s)) = w[Len(s)]
  <2>1. Scal(g) = Scal(t)
    BY <1>5, <1>9 DEF IsStrictPrefix
  <2>2. LeavesOf(g) = l
    <3>1. LeavesOf(g) = [q \in Scal(t) |-> g[q]] /\ l = [q \in Scal(t) |-> t[q]]
      BY <2>1, LeavesFacts
    <3>2. \A q \in Scal(t) : g[q] = t[q]
      BY <1>5, <2>1
    <3> HIDE DEF g, l
    <3> QED BY <3>1, <3>2
  <2> QED BY <1>2, <1>3, <1>6, <1>9, <2>2
<1>10. ASSUME Parsed(s) = Len(s), s # <<>>,
              \A j \in 1..Len(s) : Spared(l, p \o s[j].key, s[j].value)
       PROVE  LeavesOf(u[Len(s)]) = w[Len(s)]
  <2> DEFINE Same(i) == Off(LeavesOf(u[i]), p) = Off(w[i], p)
             W == {i \in 0..Len(s) : ~ Same(i)}
  <2> HIDE DEF u, l, w, g
  <2>1. /\ \A i \in 0..Len(s) : \A j \in 1..Len(s) :
             i < j => Spared(w[i], p \o s[j].key, s[j].value)
        /\ \A i \in 0..Len(s) : Scattered(w[i])
        /\ \A i \in 1..Len(s) : w[i] = Write(w[i - 1], p \o s[i].key, s[i].value)
    <3>1. \A i \in 0..Len(s) : \A j \in 1..Len(s) :
            i < j => Spared(w[i], p \o s[j].key, s[j].value)
      BY <1>7, <1>10, PatchSpared DEF w
    <3>2. \A i \in 0..Len(s) : Scattered(w[i])
      BY <1>7, <1>10, PatchScattered DEF w
    <3>3. \A i \in 1..Len(s) : w[i] = Write(w[i - 1], p \o s[i].key, s[i].value)
      BY <1>3, WrittenSteps DEF w
    <3> QED BY <3>1, <3>2, <3>3
  <2>2. ASSUME NEW i \in 1..Len(s), Same(i - 1) PROVE LeavesOf(u[i]) = w[i]
    <3> DEFINE k == s[i].key
               v == s[i].value
               n == LeavesOf(v)
               a == LeavesOf(u[i - 1])
               b == w[i - 1]
    <3>1. k \in Path /\ Closed(v)
      BY <1>3, <1>10, EntryFacts, ParsedFacts
    <3>2. i - 1 \in 0..Len(s) /\ i - 1 \in 0..Parsed(s) /\ i \in 1..Parsed(s) /\ i - 1 < i
      BY <1>3, <1>10
    <3>3. DOMAIN n \subseteq Path
      BY <3>1, LeavesFacts DEF Scal, Closed
    <3>4. DOMAIN a \subseteq Path
      BY <1>4, <3>2, LeavesFacts DEF Scal, Closed
    <3>5. DOMAIN b \subseteq Path
      BY <2>1, <3>2 DEF Scattered, Path
    <3>6. p \o k \in Path
      BY <3>1, Joined
    <3>7. LeavesOf(u[i]) = Place(a, p \o k, n)
      BY <1>4, <3>2
    <3>8. Off(a, p) = Off(b, p)
      BY <2>2
    <3>9. Spared(b, p \o k, v) /\ w[i] = Write(b, p \o k, v)
      BY <2>1, <3>2
    <3> HIDE DEF a, b, k, v
    <3>10. w[i] = Place(b, p \o k, n)
      BY <3>1, <3>5, <3>6, <3>9, WriteIsPlace DEF Spared
    <3> HIDE DEF n
    <3>11. Place(a, p \o k, n) = Place(Off(a, p), p \o k, n)
      BY <3>1, <3>3, <3>4, OffFacts
    <3>12. Place(b, p \o k, n) = Place(Off(b, p), p \o k, n)
      BY <3>1, <3>3, <3>5, OffFacts
    <3> QED BY <3>7, <3>8, <3>10, <3>11, <3>12
  <2>3. Same(0)
    <3>1. LeavesOf(u[0]) = Off(l, p) /\ w[0] = l
      BY <1>1, <1>6 DEF u, w
    <3> QED BY <1>7, <3>1, OffFacts
  <2>4. ASSUME W # {} PROVE FALSE
    <3>1. PICK i \in W : \A j \in W : i <= j
      <4>1. W \in SUBSET Nat
        OBVIOUS
      <4> HIDE DEF W
      <4> QED BY <2>4, <4>1, LeastElement
    <3>2. i # 0
      BY <2>3, <3>1
    <3>3. i \in 1..Len(s) /\ i - 1 \in 0..Len(s) /\ ~ (i <= i - 1)
      BY <1>3, <3>1, <3>2
    <3>4. i - 1 \notin W
      <4> HIDE DEF W
      <4> QED BY <3>1, <3>3
    <3>5. Same(i - 1) /\ ~ Same(i)
      BY <3>1, <3>3, <3>4
    <3>6. LeavesOf(u[i]) = w[i]
      BY <2>2, <3>3, <3>5
    <3> QED BY <3>5, <3>6
  <2>5. Len(s) \in 1..Len(s) /\ Len(s) - 1 \in 0..Len(s)
    BY <1>3, <1>10
  <2>6. Same(Len(s) - 1)
    BY <2>4, <2>5
  <2> HIDE DEF Same
  <2> QED BY <2>2, <2>5, <2>6
<1> HIDE DEF u, l, w, g
<1>11. ASSUME Parsed(s) = Len(s), s = <<>> => \A q \in Scal(t) : ~ IsStrictPrefix(q, p),
              \A j \in 1..Len(s) : Spared(l, p \o s[j].key, s[j].value)
       PROVE  LeavesOf(ApplyPatch(t, p, s)) = w[Len(s)]
  BY <1>2, <1>9, <1>10, <1>11
<1> QED BY <1>8, <1>11 DEF l, w

-----------------------------------------------------------------------------
(* The handle. *)

\* What an event is made of.
LEMMA EventFacts ==
  ASSUME NEW e \in Events, e.path # Bad
  PROVE  /\ e.path \in Path
         /\ \/ e.kind = "Put" /\ Closed(e.data)
            \/ e.kind = "Patch" /\ e.entries \in Patches
<1>1. e.path \in Paths /\ \/ e.kind = "Put" /\ e.data \in Values
                          \/ e.kind = "Patch" /\ e.entries \in Patches
  BY DEF Events
<1>2. e.path \in Path
  BY <1>1, JsonAssumption DEF Path
<1>3. \A v \in Values : Closed(v)
  BY JsonAssumption, Ancestors
<1> QED BY <1>1, <1>2, <1>3

\* Whatever the event, and if it fails half way, apply_event leaves a JSON value.
LEMMA EventTyped ==
  ASSUME NEW e \in Events, NEW t, WellFormed(t), NEW l, Scattered(l)
  PROVE  WellFormed(ApplyEvent(t, e)) /\ Scattered(DatabaseApply(l, e))
<1>1. Closed(t)
  BY Ancestors
<1>2. Closed(ApplyEvent(t, e))
  <2>1. CASE e.path = Bad
    BY <1>1, <2>1 DEF ApplyEvent
  <2>2. CASE e.path # Bad /\ e.kind = "Put"
    <3>1. e.path \in Path /\ Closed(e.data)
      BY <2>2, EventFacts
    <3>2. Closed(ApplyPut(t, e.path, e.data))
      BY <1>1, <3>1, PutFacts
    <3> QED BY <2>2, <3>2 DEF ApplyEvent
  <2>3. CASE e.path # Bad /\ e.kind = "Patch"
    <3>1. e.path \in Path /\ e.entries \in Patches
      BY <2>3, EventFacts
    <3>2. Closed(ApplyPatch(t, e.path, e.entries))
      BY <1>1, <3>1, PatchFacts
    <3> QED BY <2>3, <3>2 DEF ApplyEvent
  <2> QED BY <2>1, <2>2, <2>3, EventFacts
<1>3. Scattered(DatabaseApply(l, e))
  <2>1. CASE Fails(e)
    BY <2>1 DEF DatabaseApply
  <2>2. CASE ~ Fails(e) /\ e.kind = "Put"
    <3>1. e.path \in Path /\ Closed(e.data)
      BY <2>2, EventFacts DEF Fails
    <3>2. Scattered(Write(l, e.path, e.data))
      BY <3>1, WriteScattered
    <3> QED BY <2>2, <3>2 DEF DatabaseApply
  <2>3. CASE ~ Fails(e) /\ e.kind = "Patch"
    <3> DEFINE s == e.entries
    <3>1. e.path \in Path /\ s \in Patches /\ ~ (Parsed(s) < Len(s))
      BY <2>3, EventFacts DEF Fails
    <3> HIDE DEF s
    <3>2. Parsed(s) = Len(s) /\ Len(s) \in 0..Len(s)
      BY <3>1, EntryFacts, ParsedFacts
    <3>3. Scattered(Written(l, e.path, s)[Len(s)])
      BY <3>1, <3>2, PatchScattered
    <3> QED BY <2>3, <3>3 DEF DatabaseApply, s
  <2> QED BY <2>1, <2>2, <2>3, EventFacts DEF Fails
<1> QED BY <1>2, <1>3, Parents

\* An event that is applied, and deletes nothing below a scalar, does to the state
\* what it does to the database.
LEMMA EventAgrees ==
  ASSUME NEW e \in Events, TypeOK, LeavesOf(tree) = leaves,
         ~ Fails(e), ~ EmptiesBelowScalar(e)
  PROVE  LeavesOf(ApplyEvent(tree, e)) = DatabaseApply(leaves, e)
<1>1. Closed(tree) /\ Scattered(leaves) /\ DOMAIN leaves \subseteq Path
  BY Ancestors DEF TypeOK, Scattered, Path
<1>2. e.path # Bad /\ e.path \in Path
  BY EventFacts DEF Fails
<1>3. \A p \in Emptied(e), q \in DOMAIN leaves : ~ IsStrictPrefix(q, p)
  BY DEF EmptiesBelowScalar
<1>4. CASE e.kind = "Put"
  <2>1. Closed(e.data)
    BY <1>2, <1>4, EventFacts
  <2>2. DOMAIN LeavesOf(e.data) = {} => e.path \in Emptied(e)
    BY <1>4 DEF Emptied
  <2>3. Write(leaves, e.path, e.data) = Place(leaves, e.path, LeavesOf(e.data))
    BY <1>1, <1>2, <1>3, <2>1, <2>2, WriteIsPlace
  <2>4. LeavesOf(ApplyPut(tree, e.path, e.data)) = Place(leaves, e.path, LeavesOf(e.data))
    BY <1>1, <1>2, <2>1, PutFacts
  <2>5. /\ ApplyEvent(tree, e) = ApplyPut(tree, e.path, e.data)
        /\ DatabaseApply(leaves, e) = Write(leaves, e.path, e.data)
    BY <1>2, <1>4 DEF ApplyEvent, DatabaseApply
  <2> QED BY <2>3, <2>4, <2>5
<1>5. CASE e.kind = "Patch"
  <2> DEFINE s == e.entries
             p == e.path
  <2>1. s \in Patches /\ ~ (Parsed(s) < Len(s)) /\ p \in Path
    BY <1>2, <1>5, EventFacts DEF Fails
  <2>2. Parsed(s) = Len(s) /\ DOMAIN s = 1..Len(s)
    <3> HIDE DEF s
    <3> QED BY <2>1, EntryFacts, ParsedFacts
  <2>3. s = <<>> => p \in Emptied(e)
    BY <1>5 DEF Emptied
  <2>4. ASSUME NEW j \in 1..Len(s), DOMAIN LeavesOf(s[j].value) = {}
        PROVE  p \o s[j].key \in Emptied(e)
    BY <1>5, <2>2, <2>4 DEF Emptied
  <2>5. \A j \in 1..Len(s) : Spared(leaves, p \o s[j].key, s[j].value)
    BY <1>3, <2>4 DEF Spared
  <2>6. s = <<>> => \A q \in Scal(tree) : ~ IsStrictPrefix(q, p)
    <3>1. Scal(tree) = DOMAIN leaves
      BY LeavesFacts
    <3> QED BY <1>3, <2>3, <3>1
  <2>7. /\ ApplyEvent(tree, e) = ApplyPatch(tree, p, s)
        /\ DatabaseApply(leaves, e) = Written(leaves, p, s)[Len(s)]
    BY <1>2, <1>5 DEF ApplyEvent, DatabaseApply
  <2> HIDE DEF s, p
  <2>8. LeavesOf(ApplyPatch(tree, p, s)) = Written(leaves, p, s)[Len(s)]
    BY <1>1, <2>1, <2>2, <2>5, <2>6, PatchFacts
  <2> QED BY <2>7, <2>8
<1> QED BY <1>2, <1>4, <1>5, EventFacts

LEMMA InitTyped == Init => TypeOK /\ Agrees
<1> SUFFICES ASSUME Init PROVE TypeOK /\ Agrees
  OBVIOUS
<1>1. tree = Single(Null) /\ leaves = <<>> /\ failed = FALSE
  BY DEF Init
<1> DEFINE l == [q \in {} |-> Null]
<1>2. l \in [DOMAIN l -> Scalars] /\ DOMAIN l = {}
  OBVIOUS
<1>3. leaves = l
  BY <1>1
<1> HIDE DEF l
<1>4. Scattered(l)
  BY <1>2 DEF Scattered
<1>5. ValueOf(l) = Single(Null)
  BY <1>2 DEF ValueOf
<1>6. Closed(tree) /\ LeavesOf(tree) = leaves
  BY <1>1, <1>3, <1>4, <1>5, ValueFacts
<1>7. WellFormed(tree)
  BY <1>6, Parents
<1> QED BY <1>1, <1>3, <1>4, <1>6, <1>7 DEF TypeOK, Agrees

LEMMA NextTyped == TypeOK /\ [Next]_vars => TypeOK'
<1> SUFFICES ASSUME TypeOK, [Next]_vars PROVE TypeOK'
  OBVIOUS
<1>1. CASE Hydrate
  <2>1. Closed(ValueOf(leaves))
    BY ValueFacts DEF TypeOK
  <2>2. WellFormed(ValueOf(leaves))
    BY <2>1, Parents
  <2> QED BY <1>1, <2>2 DEF Hydrate, TypeOK
<1>2. ASSUME NEW e \in Events, LocalWrite(e) \/ StreamEvent(e) PROVE TypeOK'
  <2>1. /\ WellFormed(tree) /\ WellFormed(ApplyEvent(tree, e))
        /\ Scattered(DatabaseApply(leaves, e)) /\ failed \in BOOLEAN
    BY EventTyped DEF TypeOK
  <2>2. CASE LocalWrite(e)
    BY <2>1, <2>2 DEF LocalWrite, TypeOK
  <2>3. CASE StreamEvent(e)
    <3>1. Fails(e) \in BOOLEAN
      BY DEF Fails
    <3> QED BY <2>1, <2>3, <3>1 DEF StreamEvent, TypeOK
  <2> QED BY <1>2, <2>2, <2>3
<1>3. CASE UNCHANGED vars
  BY <1>3 DEF vars, TypeOK
<1> QED BY <1>1, <1>2, <1>3 DEF Next

\* The state stays a JSON value, an event that fails half way included, and of the
\* database's scalars none is below another (apply_event).
THEOREM JsonTyped == Spec => []TypeOK
<1>1. Init => TypeOK
  BY InitTyped
<1> QED BY <1>1, NextTyped, PTL DEF Spec

\* Unless somebody deletes below a scalar, the state has the scalars of the
\* database until the stream fails, whatever is written by whom and however deep
\* (apply_event).
THEOREM StateFollows == ASSUME Careful PROVE Spec => []Agrees
<1>1. Init => TypeOK /\ Agrees
  BY InitTyped
<1>2. TypeOK /\ Agrees /\ [Next]_vars => (TypeOK /\ Agrees)'
  <2> SUFFICES ASSUME TypeOK, Agrees, [Next]_vars PROVE Agrees'
    BY NextTyped
  <2>1. CASE Hydrate
    BY <2>1, ValueFacts DEF Hydrate, TypeOK, Agrees
  <2>2. ASSUME NEW e \in Events, ~ EmptiesBelowScalar(e), LocalWrite(e) \/ StreamEvent(e)
        PROVE  Agrees'
    <3>1. ~ failed /\ LeavesOf(tree) = leaves
      BY <2>2 DEF LocalWrite, StreamEvent, Agrees
    <3>2. CASE Fails(e)
      BY <2>2, <3>1, <3>2 DEF LocalWrite, StreamEvent, Agrees, DatabaseApply
    <3>3. CASE ~ Fails(e)
      <4>1. LeavesOf(ApplyEvent(tree, e)) = DatabaseApply(leaves, e)
        BY <2>2, <3>1, <3>3, EventAgrees
      <4>2. tree' = ApplyEvent(tree, e) /\ leaves' = DatabaseApply(leaves, e)
        BY <2>2, <3>3 DEF LocalWrite, StreamEvent
      <4> QED BY <4>1, <4>2 DEF Agrees
    <3> QED BY <3>2, <3>3
  <2>3. CASE UNCHANGED vars
    BY <2>3 DEF vars, Agrees
  <2> QED BY <2>1, <2>2, <2>3 DEF Next
<1> QED BY <1>1, <1>2, PTL DEF Spec
=============================================================================
