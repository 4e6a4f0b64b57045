-------------------------- MODULE FileStoreProofs --------------------------
(***************************************************************************)
(* What FileStore keeps through errors, deaths and losses of power, for    *)
(* every set of snapshots and of mutations and any number of faults, and   *)
(* that it implements StoreSpec as long as no fault splits a line and no   *)
(* power is lost.                                                          *)
(***************************************************************************)
EXTENDS FileStore, SequenceFacts, FiniteSetTheorems

USE DEF disk, call, history, Records

-----------------------------------------------------------------------------
(* Operations, lines and what is pending after them. *)

\* What each operation carries.
LEMMA OpKinds ==
  ASSUME NEW o \in Abstract!Ops
  PROVE  /\ o.kind \in DOMAIN FirstCall
         /\ o.kind = "load" => o = Abstract!LoadOp
         /\ o.kind = "clear" => o = Abstract!ClearOp
         /\ o.kind = "append" => o.mutation \in Mutations
         /\ o.kind = "ack" => o.id \in Ids
         /\ o.kind \in Records => o.value \in Values
<1>1. DOMAIN FirstCall = {"load", "compact", "clear", "snapshot", "metadata", "append", "ack"}
  BY DEF FirstCall
<1> QED BY <1>1 DEF Abstract!Ops, Abstract!LoadOp, Abstract!CompactOp, Abstract!ClearOp,
                Abstract!SnapshotOp, Abstract!MetadataOp, Abstract!AppendOp,
                Abstract!AckOp, Ids

\* The line of an id concerns that id and no other, and a torn line none.
LEMMA ConcernFacts ==
  /\ \A m, k \in Mutations : Concerns(AppendLine(m), k.id) <=> m.id = k.id
  /\ \A i \in Ids, k \in Mutations : Concerns(AckLine(i), k.id) <=> i = k.id
  /\ \A k \in Mutations : ~ Concerns(Torn, k.id) /\ Torn # AppendLine(k)
  /\ \A m, k \in Mutations : AppendLine(m) = AppendLine(k) => m = k
  /\ \A i \in Ids : Torn # AckLine(i) /\ \A m \in Mutations : AppendLine(m) # AckLine(i)
<1>1. \A m, k \in Mutations : AppendLine(m) = AppendLine(k) => m = k
  BY DEF AppendLine
<1>2. \A i, j : AckLine(i) = AckLine(j) => i = j
  BY DEF AckLine
<1>3. \A i : \A m \in Mutations : AppendLine(m) # AckLine(i)
  BY DEF AppendLine, AckLine
<1>4. \A i \in Ids : Torn # AckLine(i)
  BY TornAssumption DEF Ids
<1> QED BY <1>1, <1>2, <1>3, <1>4, TornAssumption DEF Concerns

\* The parts of a sequence of lines.
LEMMA LinesFacts ==
  ASSUME NEW L \in Seq(Lines)
  PROVE  /\ Len(L) \in Nat /\ DOMAIN L = 1..Len(L)
         /\ \A i \in 1..Len(L) : L[i] \in Lines
         /\ L # <<>> <=> Len(L) > 0
BY LenProperties, ElementOfSeq, EmptySeq

\* A journal with one line more, or with another last line in the place of a torn
\* one: what was pending still is unless the last line concerns it.
LEMMA PendingLast ==
  ASSUME NEW L \in Seq(Lines), NEW M \in Seq(Lines), NEW n \in Nat, n > 0,
         Len(M) = n, \A i \in 1..(n - 1) : M[i] = L[i],
         Len(L) = n - 1 \/ (Len(L) = n /\ L[n] = Torn)
  PROVE  \A k \in Mutations :
           k \in Pending(M) <=>
             M[n] = AppendLine(k) \/ (k \in Pending(L) /\ ~ Concerns(M[n], k.id))
<1> SUFFICES ASSUME NEW k \in Mutations
             PROVE  k \in Pending(M) <=>
                      M[n] = AppendLine(k) \/ (k \in Pending(L) /\ ~ Concerns(M[n], k.id))
  OBVIOUS
<1> DEFINE Latest(S, i) == S[i] = AppendLine(k)
                           /\ \A j \in 1..(n - 1) : j > i => ~ Concerns(S[j], k.id)
<1>0. DOMAIN M = 1..n /\ DOMAIN L = 1..Len(L)
  BY LenProperties
<1>1. ~ Concerns(Torn, k.id) /\ Torn # AppendLine(k)
  BY ConcernFacts
<1>2. k \in Pending(L) <=> \E i \in 1..(n - 1) : Latest(L, i)
  <2>1. CASE Len(L) = n - 1
    BY <1>0, <2>1 DEF Pending
  <2>2. CASE Len(L) = n /\ L[n] = Torn
    BY <1>0, <1>1, <2>2 DEF Pending
  <2> QED BY <2>1, <2>2
<1>3. k \in Pending(M) <=>
        M[n] = AppendLine(k) \/ (~ Concerns(M[n], k.id) /\ \E i \in 1..(n - 1) : Latest(M, i))
  <2>1. 1..n = (1..(n - 1)) \cup {n} /\ n \in 1..n /\ \A i \in 1..(n - 1) : i < n
    OBVIOUS
  <2>2. ASSUME M[n] = AppendLine(k) PROVE k \in Pending(M)
    <3>1. n \in DOMAIN M /\ \A j \in DOMAIN M : ~ (j > n)
      BY <1>0
    <3> QED BY <2>2, <3>1 DEF Pending
  <2>3. ASSUME ~ Concerns(M[n], k.id), NEW i \in 1..(n - 1), Latest(M, i)
        PROVE  k \in Pending(M)
    <3>1. \A j \in 1..n : j > i => ~ Concerns(M[j], k.id)
      BY <2>1, <2>3
    <3> QED BY <1>0, <2>1, <2>3, <3>1 DEF Pending
  <2>4. ASSUME k \in Pending(M), M[n] # AppendLine(k)
        PROVE  ~ Concerns(M[n], k.id) /\ \E i \in 1..(n - 1) : Latest(M, i)
    <3>1. PICK i \in 1..n : M[i] = AppendLine(k) /\ \A j \in 1..n : j > i => ~ Concerns(M[j], k.id)
      BY <1>0, <2>4 DEF Pending
    <3>2. i \in 1..(n - 1) /\ i < n
      BY <2>1, <2>4, <3>1
    <3>3. ~ Concerns(M[n], k.id) /\ Latest(M, i)
      BY <2>1, <3>1, <3>2
    <3> QED BY <3>2, <3>3
  <2> QED BY <2>2, <2>3, <2>4
<1>4. \A i \in 1..(n - 1) : Latest(M, i) <=> Latest(L, i)
  OBVIOUS
<1> QED BY <1>2, <1>3, <1>4

\* What an append, an acknowledgement and a torn line make of it.
LEMMA PendingLines ==
  ASSUME NEW L \in Seq(Lines), NEW M \in Seq(Lines), NEW n \in Nat, n > 0,
         Len(M) = n, \A i \in 1..(n - 1) : M[i] = L[i],
         Len(L) = n - 1 \/ (Len(L) = n /\ L[n] = Torn)
  PROVE  /\ M[n] = Torn => Pending(M) = Pending(L)
         /\ \A m \in Mutations : M[n] = AppendLine(m) =>
              Pending(M) = {k \in Pending(L) : k.id # m.id} \cup {m}
         /\ \A i \in Ids : M[n] = AckLine(i) =>
              Pending(M) = {k \in Pending(L) : k.id # i}
<1>1. \A k \in Mutations :
        k \in Pending(M) <=>
          M[n] = AppendLine(k) \/ (k \in Pending(L) /\ ~ Concerns(M[n], k.id))
  BY PendingLast
<1>2. Pending(M) \subseteq Mutations /\ Pending(L) \subseteq Mutations
  BY DEF Pending
<1>3. M[n] = Torn => Pending(M) = Pending(L)
  BY <1>1, <1>2, ConcernFacts
<1>4. ASSUME NEW m \in Mutations, M[n] = AppendLine(m)
      PROVE  Pending(M) = {k \in Pending(L) : k.id # m.id} \cup {m}
  <2>1. \A k \in Mutations : k \in Pending(M) <=> k = m \/ (k \in Pending(L) /\ k.id # m.id)
    BY <1>1, <1>4, ConcernFacts
  <2> QED BY <1>2, <2>1
<1>5. ASSUME NEW i \in Ids, M[n] = AckLine(i)
      PROVE  Pending(M) = {k \in Pending(L) : k.id # i}
  <2>1. \A k \in Mutations : k \in Pending(M) <=> k \in Pending(L) /\ k.id # i
    BY <1>1, <1>5, ConcernFacts
  <2> QED BY <1>2, <2>1
<1> QED BY <1>3, <1>4, <1>5

\* What is pending is finite.
LEMMA PendingFinite ==
  ASSUME NEW L \in Seq(Lines)
  PROVE  /\ IsFiniteSet(Pending(L)) /\ Cardinality(Pending(L)) \in Nat
         /\ Pending(L) \subseteq Mutations
<1> DEFINE g == [i \in 1..Len(L) |-> L[i].mutation]
           T == {g[i] : i \in 1..Len(L)}
<1>1. Len(L) \in Nat /\ DOMAIN L = 1..Len(L)
  BY LinesFacts
<1>2. IsFiniteSet(1..Len(L))
  <2>1. 1 \in Int /\ Len(L) \in Int
    BY <1>1
  <2> QED BY <2>1, FS_Interval
<1>3. g \in Surjection(1..Len(L), T)
  BY DEF Surjection
<1>4. IsFiniteSet(T)
  BY <1>2, <1>3, FS_Surjection
<1>5. Pending(L) \subseteq T
  <2>1. \A m : AppendLine(m).mutation = m
    BY DEF AppendLine
  <2> QED BY <1>1, <2>1 DEF Pending
<1>6. IsFiniteSet(Pending(L))
  BY <1>4, <1>5, FS_Subset
<1> QED BY <1>6, FS_CardinalityType DEF Pending

\* compact writes one line for each pending mutation.
LEMMA CompactedLines ==
  ASSUME NEW J \in SUBSET Mutations, NEW n \in Nat, NEW s \in [1..n -> J],
         \A m \in J : \E i \in DOMAIN s : s[i] = m,
         \A i, j \in DOMAIN s : i < j => s[i].id < s[j].id
  PROVE  \A b : b = [i \in DOMAIN s |-> AppendLine(s[i])] =>
                  b \in Seq(Lines) /\ Pending(b) = J /\ ~ HasTornLine(b)
<1> SUFFICES ASSUME NEW b, b = [i \in DOMAIN s |-> AppendLine(s[i])]
             PROVE  b \in Seq(Lines) /\ Pending(b) = J /\ ~ HasTornLine(b)
  OBVIOUS
<1>1. DOMAIN b = 1..n /\ DOMAIN s = 1..n /\ \A i \in 1..n : s[i] \in Mutations
  OBVIOUS
<1>2. b \in [1..n -> Lines]
  BY <1>1 DEF Lines
<1>3. b \in Seq(Lines)
  BY <1>2, SeqDef
<1>4. ~ HasTornLine(b)
  BY <1>1, ConcernFacts DEF HasTornLine
<1>5. \A i, j \in 1..n : i < j => s[j].id # s[i].id
  <2>1. \A i \in 1..n : s[i].id \in Nat
    BY <1>1, FileAssumption
  <2> QED BY <1>1, <2>1
<1>6. ASSUME NEW m \in J PROVE m \in Pending(b)
  <2>1. PICK i \in 1..n : s[i] = m
    BY <1>1
  <2>2. \A j \in 1..n : j > i => ~ Concerns(b[j], m.id)
    BY <1>1, <1>5, <2>1, ConcernFacts
  <2> QED BY <1>1, <2>1, <2>2 DEF Pending
<1>7. Pending(b) \subseteq J
  BY <1>1, ConcernFacts DEF Pending
<1> QED BY <1>3, <1>4, <1>6, <1>7

-----------------------------------------------------------------------------
(* The journals a loss of power may leave: the prefixes of its lines. *)

\* A prefix of some lines.
LEMMA PrefixFacts ==
  ASSUME NEW L \in Seq(Lines), NEW n \in 0..Len(L)
  PROVE  /\ SubSeq(L, 1, n) \in Seq(Lines) /\ Len(SubSeq(L, 1, n)) = n
         /\ \A i \in 1..n : SubSeq(L, 1, n)[i] = L[i]
         /\ HasTornLine(SubSeq(L, 1, n)) => HasTornLine(L)
<1>1. Len(L) \in Nat /\ n \in Int /\ 1 \in Int /\ \A i \in 1..n : L[i] \in Lines
  BY LinesFacts
<1>2. /\ SubSeq(L, 1, n) \in Seq(Lines)
      /\ Len(SubSeq(L, 1, n)) = (IF 1 <= n THEN n - 1 + 1 ELSE 0)
      /\ \A i \in 1..(n - 1 + 1) : SubSeq(L, 1, n)[i] = L[1 + i - 1]
  BY <1>1, SubSeqProperties
<1>3. /\ SubSeq(L, 1, n) \in Seq(Lines) /\ Len(SubSeq(L, 1, n)) = n
      /\ \A i \in 1..n : SubSeq(L, 1, n)[i] = L[i]
  BY <1>1, <1>2
<1>4. DOMAIN SubSeq(L, 1, n) = 1..n /\ 1..n \subseteq DOMAIN L
  BY <1>3, LinesFacts
<1> QED BY <1>3, <1>4 DEF HasTornLine

\* Equal lines have equal prefixes.
LEMMA PrefixEqual ==
  ASSUME NEW L \in Seq(Lines), NEW M \in Seq(Lines), NEW n \in 0..Len(L), n <= Len(M),
         \A i \in 1..n : L[i] = M[i]
  PROVE  SubSeq(L, 1, n) = SubSeq(M, 1, n)
<1>1. n \in 0..Len(M)
  BY LinesFacts
<1> QED BY <1>1, PrefixFacts, SeqEqual

\* The whole of the lines is a prefix, and so is a prefix of a prefix.
LEMMA PrefixWhole ==
  ASSUME NEW L \in Seq(Lines)
  PROVE  /\ SubSeq(L, 1, Len(L)) = L
         /\ \A n \in 0..Len(L) : SubSeq(SubSeq(L, 1, n), 1, n) = SubSeq(L, 1, n)
BY SubSeqFull, PrefixFacts

\* Lines are complete for a history K of mutations and G of ids.
CompleteFor(K, G, lines) ==
  HasTornLine(lines) \/ /\ K \subseteq Pending(lines)
                        /\ \A m \in Pending(lines) : m.id \notin G

\* And so is every prefix from length s on.
PrefixesComplete(K, G, lines, s) ==
  \A n \in s..Len(lines) : CompleteFor(K, G, SubSeq(lines, 1, n))

\* The invariant of the journal in these terms.
LEMMA SoundMeans ==
  JournalSound <=> /\ PrefixesComplete(kept, gone, file.lines, sure)
                   /\ \A f \in staleFile : CompleteFor(kept, gone, f.lines)
BY DEF JournalSound, Complete, CompleteFor, PrefixesComplete

\* Less history, and more that is synced, asks less of the journal.
LEMMA LessHistory ==
  ASSUME NEW K, NEW G, NEW J, J \subseteq K, NEW H, H \subseteq G
  PROVE  /\ \A L : CompleteFor(K, G, L) => CompleteFor(J, H, L)
         /\ \A L, s : PrefixesComplete(K, G, L, s) => PrefixesComplete(J, H, L, s)
<1>1. \A L : CompleteFor(K, G, L) => CompleteFor(J, H, L)
  BY DEF CompleteFor
<1> QED BY <1>1 DEF PrefixesComplete

\* Synced lines have the journal as their one prefix.
LEMMA OnePrefix ==
  ASSUME NEW K, NEW G, NEW L \in Seq(Lines)
  PROVE  PrefixesComplete(K, G, L, Len(L)) <=> CompleteFor(K, G, L)
<1>1. Len(L) \in Nat /\ (Len(L))..Len(L) = {Len(L)}
  BY LinesFacts
<1> QED BY <1>1, PrefixWhole DEF PrefixesComplete

\* If the prefixes are complete from some length on, so are the lines.
LEMMA LongestPrefix ==
  ASSUME NEW K, NEW G, NEW L \in Seq(Lines), NEW s \in 0..Len(L),
         PrefixesComplete(K, G, L, s)
  PROVE  CompleteFor(K, G, L)
<1>1. Len(L) \in s..Len(L)
  BY LinesFacts
<1> QED BY <1>1, PrefixWhole DEF PrefixesComplete

\* A line written behind complete prefixes leaves them complete if the whole is.
LEMMA ChangedLast ==
  ASSUME NEW K, NEW G, NEW L \in Seq(Lines), NEW M \in Seq(Lines), NEW s \in Nat,
         PrefixesComplete(K, G, L, s), Len(L) <= Len(M), Len(M) > 0,
         Len(M) <= Len(L) + 1, \A i \in 1..(Len(M) - 1) : M[i] = L[i],
         CompleteFor(K, G, M)
  PROVE  PrefixesComplete(K, G, M, s)
<1> SUFFICES ASSUME NEW n \in s..Len(M) PROVE CompleteFor(K, G, SubSeq(M, 1, n))
  BY DEF PrefixesComplete
<1>1. Len(L) \in Nat /\ Len(M) \in Nat /\ n \in Nat
  BY LinesFacts
<1>2. CASE n = Len(M)
  BY <1>2, PrefixWhole
<1>3. CASE n # Len(M)
  <2>1. n \in 0..Len(L) /\ n <= Len(M) /\ n \in s..Len(L) /\ n <= Len(M) - 1
    BY <1>1, <1>3
  <2>2. \A i \in 1..n : L[i] = M[i]
    BY <1>1, <2>1
  <2>3. SubSeq(L, 1, n) = SubSeq(M, 1, n)
    BY <2>1, <2>2, PrefixEqual
  <2> QED BY <2>1, <2>3 DEF PrefixesComplete
<1> QED BY <1>2, <1>3

\* Lines with a torn one are complete for any history: no load succeeds.
LEMMA TornLast ==
  ASSUME NEW K, NEW G, NEW L \in Seq(Lines), Len(L) > 0, L[Len(L)] = Torn
  PROVE  CompleteFor(K, G, L)
<1>1. Len(L) \in DOMAIN L
  BY LinesFacts
<1> QED BY <1>1 DEF CompleteFor, HasTornLine

\* The line of an append in the place of a torn one: complete, if its id is not in
\* the history.
LEMMA AppendedLast ==
  ASSUME NEW K, NEW G, NEW L \in Seq(Lines), NEW M \in Seq(Lines), NEW n \in Nat, n > 0,
         Len(M) = n, \A i \in 1..(n - 1) : M[i] = L[i], Len(L) = n - 1,
         CompleteFor(K, G, L), K \subseteq Mutations,
         NEW m \in Mutations, M[n] = AppendLine(m), m.id \notin G, \A k \in K : k.id # m.id
  PROVE  CompleteFor(K \cup {m}, G, M)
<1>1. Pending(M) = {k \in Pending(L) : k.id # m.id} \cup {m}
  BY PendingLines
<1>2. HasTornLine(L) => HasTornLine(M)
  <2>1. \A i \in DOMAIN L : i \in DOMAIN M /\ M[i] = L[i]
    BY LinesFacts
  <2> QED BY <2>1 DEF HasTornLine
<1>3. CASE HasTornLine(L)
  BY <1>2, <1>3 DEF CompleteFor
<1>4. CASE K \subseteq Pending(L) /\ \A k \in Pending(L) : k.id \notin G
  BY <1>1, <1>4 DEF CompleteFor
<1> QED BY <1>3, <1>4 DEF CompleteFor

\* The same of the line of an acknowledgement.
LEMMA AckedLast ==
  ASSUME NEW K, NEW G, NEW L \in Seq(Lines), NEW M \in Seq(Lines), NEW n \in Nat, n > 0,
         Len(M) = n, \A i \in 1..(n - 1) : M[i] = L[i], Len(L) = n - 1,
         CompleteFor(K, G, L), K \subseteq Mutations,
         NEW id \in Ids, M[n] = AckLine(id), \A k \in K : k.id # id
  PROVE  CompleteFor(K, G \cup {id}, M)
<1>1. Pending(M) = {k \in Pending(L) : k.id # id}
  BY PendingLines
<1>2. HasTornLine(L) => HasTornLine(M)
  <2>1. \A i \in DOMAIN L : i \in DOMAIN M /\ M[i] = L[i]
    BY LinesFacts
  <2> QED BY <2>1 DEF HasTornLine
<1>3. CASE HasTornLine(L)
  BY <1>2, <1>3 DEF CompleteFor
<1>4. CASE K \subseteq Pending(L) /\ \A k \in Pending(L) : k.id \notin G
  BY <1>1, <1>4 DEF CompleteFor
<1> QED BY <1>3, <1>4 DEF CompleteFor

\* A line that has been answered with Ok joins the history.
LEMMA AnsweredLast ==
  ASSUME NEW K, NEW G, NEW L \in Seq(Lines), NEW n \in Nat, n > 0, Len(L) = n,
         CompleteFor(K, G, L)
  PROVE  /\ \A m \in Mutations : L[n] = AppendLine(m) => CompleteFor(K \cup {m}, G, L)
         /\ \A id \in Ids : L[n] = AckLine(id) => CompleteFor(K, G \cup {id}, L)
<1>1. /\ \A m \in Mutations : L[n] = AppendLine(m) => m \in Pending(L)
      /\ \A id \in Ids : L[n] = AckLine(id) => \A k \in Pending(L) : k.id # id
  <2> DEFINE P == SubSeq(L, 1, n - 1)
  <2>1. n - 1 \in 0..Len(L)
    OBVIOUS
  <2>2. P \in Seq(Lines) /\ Len(P) = n - 1 /\ \A i \in 1..(n - 1) : P[i] = L[i]
    BY <2>1, PrefixFacts
  <2> HIDE DEF P
  <2>3. /\ \A m \in Mutations : L[n] = AppendLine(m) =>
             Pending(L) = {k \in Pending(P) : k.id # m.id} \cup {m}
        /\ \A i \in Ids : L[n] = AckLine(i) =>
             Pending(L) = {k \in Pending(P) : k.id # i}
    BY <2>2, PendingLines
  <2> QED BY <2>3
<1> QED BY <1>1 DEF CompleteFor

\* The lines of the journal as the actions change it.
LEMMA ChangedLines ==
  ASSUME NEW L \in Seq(Lines), NEW l \in Lines
  PROVE  /\ Append(L, l) \in Seq(Lines) /\ Len(Append(L, l)) = Len(L) + 1
         /\ Append(L, l)[Len(L) + 1] = l
         /\ \A i \in 1..Len(L) : Append(L, l)[i] = L[i]
         /\ L # <<>> =>
              /\ [L EXCEPT ![Len(L)] = l] \in Seq(Lines)
              /\ Len([L EXCEPT ![Len(L)] = l]) = Len(L)
              /\ [L EXCEPT ![Len(L)] = l][Len(L)] = l
              /\ \A i \in 1..(Len(L) - 1) : [L EXCEPT ![Len(L)] = l][i] = L[i]
<1>1. L # <<>> => Len(L) \in 1..Len(L)
  BY LinesFacts
<1> QED BY <1>1, AppendProperties, ExceptSeq, LinesFacts

\* The first system call of each operation.
LEMMA FirstCallFacts ==
  ASSUME NEW o \in Abstract!Ops
  PROVE  /\ FirstCall[o.kind] \in Steps \ {"idle"}
         /\ FirstCall[o.kind] = "load" <=> o.kind \in {"load", "compact"}
         /\ FirstCall[o.kind] = "write" <=> o.kind \in {"append", "ack"}
         /\ FirstCall[o.kind] = "create" <=> o.kind \in Records
         /\ FirstCall[o.kind] = "unlink" <=> o.kind = "clear"
         /\ FirstCall[o.kind] \in {"load", "write", "create", "unlink"}
BY OpKinds DEF FirstCall, Steps
-----------------------------------------------------------------------------
(* The inductive invariant. *)

Sound == TypeOK /\ FilesSound

\* It holds of the empty directory.
LEMMA SoundInit == Init => Sound
<1> SUFFICES ASSUME Init PROVE Sound
  OBVIOUS
<1>1. <<>> \in Seq(Lines) /\ Len(<<>>) = 0 /\ DOMAIN <<>> = {}
  BY EmptySeq
<1>2. Pending(<<>>) = {}
  BY <1>1 DEF Pending
<1>3. TypeOK
  <2>1. file \in Files /\ sure \in 0..Len(file.lines)
    BY <1>1 DEF Init, EmptyFile, Files
  <2>2. record \in [Records -> Content] /\ staleRecord \in [Records -> SUBSET Content]
    BY DEF Init, Content
  <2>3. tmp \in [content : Content \cup Seq(Lines), synced : BOOLEAN]
    BY DEF Init, NoTmp, Content
  <2>4. left \in [FaultKinds -> Nat] /\ \A f \in FaultKinds : left[f] <= Faults[f]
    BY FileAssumption DEF Init
  <2> QED BY <2>1, <2>2, <2>3, <2>4 DEF Init, TypeOK, Steps
<1>4. CallsFollow /\ HistoryFollows
  BY DEF Init, CallsFollow, HistoryFollows
<1>5. WritesFollow
  BY DEF Init, WritesFollow, EmptyFile
<1>6. JournalSound
  <2>1. CompleteFor({}, {}, <<>>)
    BY <1>2 DEF CompleteFor
  <2>2. PrefixesComplete({}, {}, <<>>, 0)
    BY <1>1, <2>1, OnePrefix
  <2> QED BY <2>2, SoundMeans DEF Init, EmptyFile
<1>7. JournalWhole
  BY <1>1 DEF Init, JournalWhole, EmptyFile
<1>8. RecordsSound
  BY FileAssumption DEF Init, RecordsSound, RecordsSurvive, SurvivingRecords
<1> QED BY <1>3, <1>4, <1>5, <1>6, <1>7, <1>8 DEF Sound, FilesSound

\* The line that append_line writes.
LEMMA LineFacts ==
  ASSUME TypeOK, op # None, op.kind \in {"append", "ack"}
  PROVE  /\ Line \in Lines /\ Line # Torn /\ Torn \in Lines
         /\ op.kind = "append" => op.mutation \in Mutations /\ Line = AppendLine(op.mutation)
         /\ op.kind = "ack" => op.id \in Ids /\ Line = AckLine(op.id)
<1>1. op \in Abstract!Ops
  BY DEF TypeOK
<1>2. /\ op.kind = "append" => op.mutation \in Mutations /\ Line = AppendLine(op.mutation)
      /\ op.kind = "ack" => op.id \in Ids /\ Line = AckLine(op.id)
  BY <1>1, OpKinds DEF Line
<1> QED BY <1>2, ConcernFacts DEF Lines

\* What may survive a loss of power are journals, and the records' contents.
LEMMA SurvivorFacts ==
  ASSUME TypeOK
  PROVE  /\ Survivors \cup {file} \cup CutsInLine \subseteq Files
         /\ \A r \in Records : SurvivingRecords(r) \subseteq Content
<1>1. file.lines \in Seq(Lines) /\ file.ended \in BOOLEAN /\ sure \in Nat
      /\ Len(file.lines) \in Nat /\ Torn \in Lines
  BY LinesFacts DEF TypeOK, Files, Lines
<1>2. ASSUME NEW n \in 0..Len(file.lines)
      PROVE  /\ SubSeq(file.lines, 1, n) \in Seq(Lines)
             /\ Append(SubSeq(file.lines, 1, n), Torn) \in Seq(Lines)
  BY <1>1, <1>2, PrefixFacts, AppendProperties
<1>3. Cuts \subseteq Files
  <2>1. ASSUME NEW n \in sure..(IF file.ended THEN Len(file.lines) ELSE Len(file.lines) - 1)
        PROVE  n \in 0..Len(file.lines)
    BY <1>1
  <2>2. ASSUME NEW f \in Cuts PROVE f \in Files
    <3>1. PICK n \in 0..Len(file.lines) : f = [lines |-> SubSeq(file.lines, 1, n), ended |-> TRUE]
      BY <2>1 DEF Cuts
    <3>2. SubSeq(file.lines, 1, n) \in Seq(Lines)
      BY <1>2
    <3> QED BY <3>1, <3>2 DEF Files
  <2> QED BY <2>2
<1>4. CutsInLine \subseteq Files
  <2>1. /\ \A n \in sure..(Len(file.lines) - 1) : n \in 0..Len(file.lines)
        /\ \A n \in (sure + 1)..Len(file.lines) : n \in 0..Len(file.lines)
    BY <1>1
  <2>2. ASSUME NEW f \in CutsInLine PROVE f \in Files
    <3>1. CASE \E n \in sure..(Len(file.lines) - 1) :
                 f = [lines |-> Append(SubSeq(file.lines, 1, n), Torn), ended |-> FALSE]
      <4>1. PICK n \in 0..Len(file.lines) :
              f = [lines |-> Append(SubSeq(file.lines, 1, n), Torn), ended |-> FALSE]
        BY <2>1, <3>1
      <4>2. Append(SubSeq(file.lines, 1, n), Torn) \in Seq(Lines)
        BY <1>2
      <4> QED BY <4>1, <4>2 DEF Files
    <3>2. CASE \E n \in (sure + 1)..Len(file.lines) :
                 f = [lines |-> SubSeq(file.lines, 1, n), ended |-> FALSE]
      <4>1. PICK n \in 0..Len(file.lines) : f = [lines |-> SubSeq(file.lines, 1, n), ended |-> FALSE]
        BY <2>1, <3>2
      <4>2. SubSeq(file.lines, 1, n) \in Seq(Lines)
        BY <1>2
      <4> QED BY <4>1, <4>2 DEF Files
    <3> QED BY <3>1, <3>2 DEF CutsInLine
  <2> QED BY <2>2
<1> QED BY <1>3, <1>4 DEF Survivors, SurvivingRecords, TypeOK

\* What an operation leaves behind when it returns, and a fault when it happens.
LEMMA TypeOfReturn ==
  ASSUME TypeOK
  PROVE  /\ \A a : Return(a) =>
              /\ op' = None /\ at' = "idle" /\ fresh' = FALSE /\ buffer' = None /\ tmp' = NoTmp
              /\ tmp' \in [content : Content \cup Seq(Lines), synced : BOOLEAN]
         /\ ReturnOk /\ op # None =>
              /\ kept' \subseteq Mutations /\ gone' \subseteq Ids
              /\ snaps' \subseteq Values \cup {None} /\ opened' = opened
         /\ NoFault \/ (\E f \in FaultKinds : Fault(f)) =>
              left' \in [FaultKinds -> Nat] /\ \A f \in FaultKinds : left'[f] <= Faults[f]
<1>1. \A a : Return(a) => tmp' \in [content : Content \cup Seq(Lines), synced : BOOLEAN]
  BY DEF Return, NoTmp, Content
<1>2. ASSUME ReturnOk, op # None
      PROVE  /\ kept' \subseteq Mutations /\ gone' \subseteq Ids
             /\ snaps' \subseteq Values \cup {None} /\ opened' = opened
  <2>1. op \in Abstract!Ops
    BY <1>2 DEF TypeOK
  <2> QED BY <1>2, <2>1, OpKinds DEF ReturnOk, TypeOK
<1>3. ASSUME NoFault \/ (\E f \in FaultKinds : Fault(f))
      PROVE  left' \in [FaultKinds -> Nat] /\ \A f \in FaultKinds : left'[f] <= Faults[f]
  <2>1. left \in [FaultKinds -> Nat] /\ \A f \in FaultKinds : left[f] <= Faults[f]
    BY DEF TypeOK
  <2>2. CASE NoFault
    BY <2>1, <2>2 DEF NoFault
  <2>3. ASSUME NEW f \in FaultKinds, Fault(f)
        PROVE  left' \in [FaultKinds -> Nat] /\ \A g \in FaultKinds : left'[g] <= Faults[g]
    <3>1. "any" \in FaultKinds /\ left["any"] > 0 /\ left[f] > 0
      BY <2>3 DEF Fault, FaultKinds
    <3>2. \A g \in FaultKinds : left'[g] \in {left[g], left[g] - 1} /\ (left'[g] = left[g] - 1 => left[g] > 0)
      BY <2>1, <2>3, <3>1 DEF Fault
    <3>3. \A g \in FaultKinds : left'[g] \in Nat /\ left'[g] <= left[g] /\ Faults[g] \in Nat
      BY <2>1, <3>2, FileAssumption
    <3>4. \A g \in FaultKinds : left[g] \in Nat /\ left[g] <= Faults[g]
      BY <2>1
    <3>5. left' = [g \in FaultKinds |-> left'[g]]
      BY <2>1, <2>3 DEF Fault
    <3>6. \A g \in FaultKinds : left'[g] <= Faults[g]
      BY <3>3, <3>4
    <3> QED BY <3>3, <3>5, <3>6
  <2> QED BY <1>3, <2>2, <2>3
<1> QED BY <1>1, <1>2, <1>3 DEF Return

\* Each step leaves the variables in their types.
LEMMA TypeStep ==
  ASSUME TypeOK, CallsFollow, WritesFollow, Next
  PROVE  TypeOK'
<1> USE DEF TypeOK, Steps
<1>1. ASSUME NEW o \in Abstract!Ops, Call(o) PROVE TypeOK'
  <2>1. o # None /\ FirstCall[o.kind] \in Steps \ {"idle"}
    BY NoneAssumption, FirstCallFacts
  <2>2. kept' \subseteq Mutations /\ gone' \subseteq Ids
    BY <1>1 DEF Call
  <2>3. snaps' \subseteq Values \cup {None}
    BY <1>1, OpKinds DEF Call
  <2> QED BY <1>1, <2>1, <2>2, <2>3 DEF Call
<1>2. ASSUME Load PROVE TypeOK'
  <2>1. op # None /\ at = "load" /\ left' \in [FaultKinds -> Nat]
        /\ \A f \in FaultKinds : left'[f] <= Faults[f]
    BY <1>2, TypeOfReturn DEF Load
  <2>2. CASE ReturnError
    BY <1>2, <2>1, <2>2, TypeOfReturn DEF Load, ReturnError
  <2>3. CASE \E s : Return(Abstract!Loaded(record["snapshot"], s)) /\ opened' = TRUE /\ UNCHANGED history
    BY <1>2, <2>1, <2>3, TypeOfReturn DEF Load
  <2>4. CASE at' = "create" /\ UNCHANGED <<op, tmp, fresh, answer, opened, history>>
    BY <1>2, <2>1, <2>4 DEF Load
  <2> QED BY <1>2, <2>2, <2>3, <2>4 DEF Load
<1>3. ASSUME WritePiece PROVE TypeOK'
  <2>1. op # None /\ Torn \in Lines
    BY <1>3, LineFacts DEF WritePiece, CallsFollow
  <2>2. file' \in Files /\ Len(file'.lines) \in Nat /\ Len(file.lines) <= Len(file'.lines)
    BY <1>3, <2>1, ChangedLines, LinesFacts DEF WritePiece, LastLine, WritesFollow, Files
  <2>3. sure' \in 0..Len(file'.lines)
    BY <1>3, <2>2, LinesFacts DEF WritePiece, Files
  <2> QED BY <1>3, <2>1, <2>2, <2>3, TypeOfReturn DEF WritePiece, Proceed, Files
<1>4. ASSUME WriteRest PROVE TypeOK'
  <2>1. op # None /\ Line \in Lines /\ file.lines # <<>>
    BY <1>4, LineFacts DEF WriteRest, CallsFollow, WritesFollow
  <2>2. file' \in Files /\ Len(file.lines) = Len(file'.lines)
    BY <1>4, <2>1, ChangedLines, LinesFacts DEF WriteRest, LastLine, Files
  <2> QED BY <1>4, <2>1, <2>2, TypeOfReturn DEF WriteRest, Proceed
<1>5. ASSUME WriteLineFeed \/ SyncLine PROVE TypeOK'
  <2>1. op # None /\ Len(file.lines) \in Nat
    BY <1>5, LinesFacts DEF WriteLineFeed, SyncLine, Files
  <2>2. file' \in Files /\ Len(file'.lines) = Len(file.lines)
    BY <1>5 DEF WriteLineFeed, SyncLine, Files
  <2>3. sure' \in 0..Len(file'.lines) /\ staleFile' \subseteq Files
    BY <1>5, <2>1, <2>2 DEF WriteLineFeed, SyncLine
  <2> QED BY <1>5, <2>1, <2>2, <2>3, TypeOfReturn DEF WriteLineFeed, SyncLine, Proceed
<1>6. ASSUME Appended \/ Cleared PROVE TypeOK'
  <2>1. op # None
    BY <1>6 DEF Appended, Cleared
  <2> QED BY <1>6, <2>1, TypeOfReturn DEF Appended, Cleared, ReturnOk
<1>7. ASSUME CreateTmp \/ FillTmp \/ SyncTmp PROVE TypeOK'
  <2>1. op # None /\ (at = "fill" => buffer \in Content \cup Seq(Lines))
    BY <1>7, OpKinds DEF CreateTmp, FillTmp, SyncTmp, WritesFollow, CallsFollow, Content
  <2>2. tmp' \in [content : Content \cup Seq(Lines), synced : BOOLEAN]
    <3>1. CASE CreateTmp
      BY <3>1 DEF CreateTmp, Content
    <3>2. CASE FillTmp
      BY <2>1, <3>2 DEF FillTmp
    <3>3. CASE SyncTmp
      BY <3>3 DEF SyncTmp
    <3> QED BY <1>7, <3>1, <3>2, <3>3
  <2> QED BY <1>7, <2>1, <2>2, TypeOfReturn DEF CreateTmp, FillTmp, SyncTmp, Proceed
<1>8. ASSUME Rename PROVE TypeOK'
  <2>1. op # None /\ op \in Abstract!Ops /\ op.kind \in Records \cup {"compact"}
    BY <1>8 DEF Rename, CallsFollow
  <2>2. tmp.content = buffer /\ tmp.synced
    BY <1>8 DEF Rename, WritesFollow
  <2>3. tmp' \in [content : Content \cup Seq(Lines), synced : BOOLEAN]
    BY <1>8 DEF Rename, NoTmp, Content
  <2>4. CASE op.kind = "compact" /\ RenameJournal
    <3>1. buffer \in Seq(Lines) /\ Len(buffer) \in Nat
      BY <1>8, <2>4, LinesFacts DEF Rename, WritesFollow
    <3>2. file' \in Files /\ sure' \in 0..Len(file'.lines)
      BY <2>2, <2>4, <3>1 DEF RenameJournal, Files
    <3>3. staleFile' \subseteq Files
      BY <2>4, SurvivorFacts DEF RenameJournal
    <3> QED BY <1>8, <2>1, <2>3, <2>4, <3>2, <3>3, TypeOfReturn DEF Rename, RenameJournal, Proceed
  <2>5. CASE op.kind # "compact" /\ RenameRecord(op.kind)
    <3>1. op.kind \in Records /\ tmp.content \in Content
      BY <1>8, <2>1, <2>2, <2>5, OpKinds DEF Rename, WritesFollow, Content
    <3>2. record' \in [Records -> Content]
      BY <2>5, <3>1 DEF RenameRecord
    <3>3. SurvivingRecords(op.kind) \cup (IF tmp.synced THEN {} ELSE {Torn}) \subseteq Content
      BY <3>1, SurvivorFacts DEF Content
    <3>4. staleRecord' \in [Records -> SUBSET Content]
      BY <2>5, <3>1, <3>3 DEF RenameRecord
    <3> QED BY <1>8, <2>1, <2>3, <2>5, <3>2, <3>4, TypeOfReturn DEF Rename, RenameRecord, Proceed
  <2> QED BY <1>8, <2>4, <2>5 DEF Rename
<1>9. ASSUME SyncDirectory PROVE TypeOK'
  <2>1. op # None /\ "syncdir" \in FaultKinds
    BY <1>9 DEF SyncDirectory, FaultKinds
  <2>2. staleFile' \subseteq Files /\ staleRecord' \in [Records -> SUBSET Content]
    BY <1>9 DEF SyncDirectory
  <2> QED BY <1>9, <2>1, <2>2, TypeOfReturn DEF SyncDirectory, ReturnOk
<1>10. ASSUME NEW r \in Records, UnlinkRecord(r) PROVE TypeOK'
  <2>1. op # None
    BY <1>10 DEF UnlinkRecord
  <2>2. record' \in [Records -> Content]
    BY <1>10 DEF UnlinkRecord, Content
  <2>3. staleRecord' \in [Records -> SUBSET Content]
    BY <1>10, SurvivorFacts DEF UnlinkRecord
  <2> QED BY <1>10, <2>1, <2>2, <2>3, TypeOfReturn DEF UnlinkRecord, Proceed
<1>11. ASSUME UnlinkJournal PROVE TypeOK'
  <2>1. op # None
    BY <1>11 DEF UnlinkJournal
  <2>2. <<>> \in Seq(Lines) /\ Len(<<>>) = 0
    BY EmptySeq
  <2>3. file' \in Files /\ sure' \in 0..Len(file'.lines) /\ staleFile' \subseteq Files
    BY <1>11, <2>2, SurvivorFacts DEF UnlinkJournal, EmptyFile, Files
  <2> QED BY <1>11, <2>1, <2>3, TypeOfReturn DEF UnlinkJournal, Proceed
<1>12. ASSUME IoError PROVE TypeOK'
  <2>1. "io" \in FaultKinds /\ "io_in_line" \in FaultKinds
    BY DEF FaultKinds
  <2> QED BY <1>12, <2>1, TypeOfReturn DEF IoError, ReturnError
<1>13. ASSUME Die PROVE TypeOK'
  <2>1. "die" \in FaultKinds /\ "die_in_line" \in FaultKinds
    BY DEF FaultKinds
  <2> QED BY <1>13, <2>1, TypeOfReturn DEF Die, Restarted
<1>14. ASSUME LosePower PROVE TypeOK'
  <2>1. "power" \in FaultKinds /\ "power_in_line" \in FaultKinds
    BY DEF FaultKinds
  <2>2. file' \in Files /\ Len(file'.lines) \in Nat
    BY <1>14, SurvivorFacts, LinesFacts DEF LosePower, Files
  <2>3. sure' \in 0..Len(file'.lines) /\ record' \in [Records -> Content]
    BY <1>14, <2>2 DEF LosePower, Content
  <2>4. staleRecord' \in [Records -> SUBSET Content]
    BY <1>14 DEF LosePower
  <2> QED BY <1>14, <2>1, <2>2, <2>3, <2>4, TypeOfReturn DEF LosePower, Restarted
<1> QED BY <1>1, <1>2, <1>3, <1>4, <1>5, <1>6, <1>7, <1>8, <1>9, <1>10, <1>11, <1>12,
           <1>13, <1>14 DEF Next, AppendLineCalls, WriteAtomicCalls, Clear

\* Each step keeps which operation makes which call.
LEMMA CallsStep ==
  ASSUME TypeOK, CallsFollow, Next
  PROVE  CallsFollow'
<1> USE DEF CallsFollow
<1>1. ASSUME NEW o \in Abstract!Ops, Call(o) PROVE CallsFollow'
  BY <1>1, FirstCallFacts DEF Call
<1>2. ASSUME Load PROVE CallsFollow'
  BY <1>2 DEF Load, Return, ReturnError
<1>3. ASSUME AppendLineCalls PROVE CallsFollow'
  BY <1>3 DEF AppendLineCalls, WritePiece, WriteRest, WriteLineFeed, SyncLine, Appended,
              Proceed, ReturnOk, Return
<1>4. ASSUME WriteAtomicCalls PROVE CallsFollow'
  BY <1>4 DEF WriteAtomicCalls, CreateTmp, FillTmp, SyncTmp, Rename, SyncDirectory,
              Proceed, ReturnOk, Return
<1>5. ASSUME Clear PROVE CallsFollow'
  BY <1>5 DEF Clear, UnlinkRecord, UnlinkJournal, Cleared, Proceed, ReturnOk, Return
<1>6. ASSUME IoError \/ Die \/ LosePower PROVE CallsFollow'
  BY <1>6 DEF IoError, Die, LosePower, Restarted, ReturnError, Return
<1> QED BY <1>1, <1>2, <1>3, <1>4, <1>5, <1>6 DEF Next

\* Each step keeps what the history has of the operation under way.
LEMMA HistoryStep ==
  ASSUME TypeOK, HistoryFollows, Next
  PROVE  HistoryFollows'
<1>1. ASSUME NEW o \in Abstract!Ops, Call(o) PROVE HistoryFollows'
  <2>1. o.kind = "append" =>
          o.mutation.id \notin gone' /\ \A m \in kept' : m.id # o.mutation.id
    BY <1>1 DEF Call
  <2>2. o.kind = "ack" => \A m \in kept' : m.id # o.id
    BY <1>1 DEF Call
  <2>3. /\ o.kind = "clear" => kept' = {} /\ None \in snaps'
        /\ o.kind = "snapshot" => o.value \in snaps'
    BY <1>1 DEF Call
  <2> QED BY <1>1, <2>1, <2>2, <2>3 DEF Call, HistoryFollows
<1>2. ASSUME UNCHANGED <<op, history>> PROVE HistoryFollows'
  BY <1>2 DEF HistoryFollows
<1>3. ASSUME op' = None PROVE HistoryFollows'
  BY <1>3 DEF HistoryFollows
<1>4. ASSUME Load PROVE op' = None \/ UNCHANGED <<op, history>>
  BY <1>4 DEF Load, Return, ReturnError
<1>5. ASSUME AppendLineCalls \/ WriteAtomicCalls \/ Clear
      PROVE  op' = None \/ UNCHANGED <<op, history>>
  BY <1>5 DEF AppendLineCalls, WritePiece, WriteRest, WriteLineFeed, SyncLine, Appended,
              WriteAtomicCalls, CreateTmp, FillTmp, SyncTmp, Rename, SyncDirectory,
              Clear, UnlinkRecord, UnlinkJournal, Cleared, Proceed, ReturnOk, Return
<1>6. ASSUME IoError \/ Die \/ LosePower PROVE op' = None
  BY <1>6 DEF IoError, Die, LosePower, Restarted, ReturnError, Return
<1> QED BY <1>1, <1>2, <1>3, <1>4, <1>5, <1>6 DEF Next

\* What may survive a loss of power has no line without line feed that is not there.
LEMMA SurvivorsUnended ==
  ASSUME TypeOK, WritesFollow
  PROVE  \A f \in Survivors \cup {file} \cup CutsInLine : ~ f.ended => f.lines # <<>>
<1>1. Len(file.lines) \in Nat /\ sure \in Nat /\ file.lines \in Seq(Lines) /\ Torn \in Lines
  BY LinesFacts DEF TypeOK, Files, Lines
<1>2. \A f \in Cuts : f.ended
  BY DEF Cuts
<1>3. /\ \A n \in sure..(Len(file.lines) - 1) : n \in 0..Len(file.lines)
      /\ \A n \in (sure + 1)..Len(file.lines) : n \in 1..Len(file.lines)
  BY <1>1
<1>4. ASSUME NEW f \in CutsInLine PROVE f.lines # <<>>
  <2>1. CASE \E n \in sure..(Len(file.lines) - 1) :
               f = [lines |-> Append(SubSeq(file.lines, 1, n), Torn), ended |-> FALSE]
    <3>1. PICK n \in 0..Len(file.lines) :
            f = [lines |-> Append(SubSeq(file.lines, 1, n), Torn), ended |-> FALSE]
      BY <1>3, <2>1
    <3>2. SubSeq(file.lines, 1, n) \in Seq(Lines)
      BY <1>1, PrefixFacts
    <3>3. Append(SubSeq(file.lines, 1, n), Torn) # <<>>
      BY <1>1, <3>2, AppendProperties
    <3> QED BY <3>1, <3>3
  <2>2. CASE \E n \in (sure + 1)..Len(file.lines) :
               f = [lines |-> SubSeq(file.lines, 1, n), ended |-> FALSE]
    <3>1. PICK n \in 1..Len(file.lines) : f = [lines |-> SubSeq(file.lines, 1, n), ended |-> FALSE]
      BY <1>3, <2>2
    <3>2. n \in 0..Len(file.lines) /\ n > 0
      BY <1>1
    <3>3. SubSeq(file.lines, 1, n) \in Seq(Lines) /\ Len(SubSeq(file.lines, 1, n)) = n
      BY <1>1, <3>2, PrefixFacts
    <3>4. SubSeq(file.lines, 1, n) # <<>>
      BY <3>2, <3>3, LinesFacts
    <3> QED BY <3>1, <3>4
  <2> QED BY <2>1, <2>2 DEF CutsInLine
<1> QED BY <1>2, <1>4 DEF Survivors, WritesFollow

\* Each step keeps what the calls of append_line and of write_atomic have written.
LEMMA WritesStep ==
  ASSUME TypeOK, CallsFollow, WritesFollow, Next
  PROVE  WritesFollow'
<1> USE DEF WritesFollow
<1>0. /\ file.lines \in Seq(Lines) /\ Len(file.lines) \in Nat /\ sure \in 0..Len(file.lines)
      /\ file.ended \in BOOLEAN /\ Torn \in Lines
      /\ file.lines # <<>> <=> Len(file.lines) > 0
  BY LinesFacts DEF TypeOK, Files, Lines
<1>1. ASSUME NEW o \in Abstract!Ops, Call(o) PROVE WritesFollow'
  <2>1. /\ o.kind \in Records => o.value \in Values
        /\ at' = FirstCall[o.kind] /\ op' = o /\ (o.kind \in Records => buffer' = o.value)
        /\ UNCHANGED disk
    BY <1>1, OpKinds DEF Call
  <2>2. at' \in {"load", "write", "create", "unlink"} /\ (at' = "create" => o.kind \in Records)
    BY <2>1, FirstCallFacts
  <2> QED BY <2>1, <2>2
<1>2. ASSUME at' = "idle", \A f \in {file'} \cup staleFile' : ~ f.ended => f.lines # <<>>
      PROVE  WritesFollow'
  BY <1>2
<1>3. ASSUME Load PROVE WritesFollow'
  <2>1. CASE at' = "idle"
    BY <1>3, <2>1, <1>2 DEF Load
  <2>2. CASE at' # "idle"
    <3>1. PICK s \in [1..Cardinality(Pending(file.lines)) -> Pending(file.lines)] :
            /\ ~ Unreadable /\ Abstract!Store!IsLoaded(s) /\ op.kind = "compact"
            /\ buffer' = [i \in DOMAIN s |-> AppendLine(s[i])]
            /\ at' = "create" /\ UNCHANGED <<op, disk>>
      BY <1>3, <2>2 DEF Load, ReturnError, Return
    <3>2. /\ \A m \in Pending(file.lines) : \E i \in DOMAIN s : s[i] = m
          /\ \A i, j \in DOMAIN s : i < j => s[i].id < s[j].id
      BY <3>1 DEF Abstract!Store!IsLoaded, Abstract!Store!IsLoadedUnordered
    <3>3. buffer' \in Seq(Lines) /\ Pending(buffer') = Pending(file.lines) /\ ~ HasTornLine(buffer')
      <4>1. /\ Pending(file.lines) \in SUBSET Mutations
            /\ Cardinality(Pending(file.lines)) \in Nat
        BY <1>0, PendingFinite
      <4>2. ASSUME NEW J \in SUBSET Mutations, NEW n \in Nat, s \in [1..n -> J],
                   \A m \in J : \E i \in DOMAIN s : s[i] = m
            PROVE  \A b : b = [i \in DOMAIN s |-> AppendLine(s[i])] =>
                            b \in Seq(Lines) /\ Pending(b) = J /\ ~ HasTornLine(b)
        BY <3>2, <4>2, CompactedLines
      <4>3. \A b : b = [i \in DOMAIN s |-> AppendLine(s[i])] =>
              b \in Seq(Lines) /\ Pending(b) = Pending(file.lines) /\ ~ HasTornLine(b)
        BY <3>1, <3>2, <4>1, <4>2
      <4>4. buffer' = [i \in DOMAIN s |-> AppendLine(s[i])]
        BY <3>1
      <4> QED BY <4>3, <4>4, Zenon
    <3>4. ~ HasTornLine(file.lines)
      BY <3>1 DEF Unreadable
    <3> QED BY <3>1, <3>3, <3>4
  <2> QED BY <2>1, <2>2
<1>4. ASSUME WritePiece PROVE WritesFollow'
  <2>1. CASE file.ended
    <3>1. file' = [lines |-> Append(file.lines, Torn), ended |-> FALSE] /\ fresh' = file.ended
          /\ at' = "rest" /\ UNCHANGED <<sure, staleFile>>
      BY <1>4, <2>1 DEF WritePiece, Proceed
    <3>2. /\ Append(file.lines, Torn) \in Seq(Lines)
          /\ Len(Append(file.lines, Torn)) = Len(file.lines) + 1
          /\ Append(file.lines, Torn)[Len(file.lines) + 1] = Torn
      BY <1>0, ChangedLines
    <3>3. Append(file.lines, Torn) # <<>> /\ sure < Len(Append(file.lines, Torn))
      BY <1>0, <3>2, LinesFacts
    <3> QED BY <3>1, <3>2, <3>3
  <2>2. CASE ~ file.ended
    <3>1. file' = [lines |-> LastLine(Torn), ended |-> FALSE] /\ fresh' = FALSE
          /\ at' = "rest" /\ UNCHANGED <<sure, staleFile>>
      BY <1>0, <1>4, <2>2 DEF WritePiece, Proceed
    <3>2. /\ LastLine(Torn) \in Seq(Lines) /\ Len(LastLine(Torn)) = Len(file.lines)
          /\ LastLine(Torn)[Len(file.lines)] = Torn
      BY <1>0, <2>2, ChangedLines DEF LastLine
    <3>3. LastLine(Torn) # <<>>
      BY <1>0, <2>2, <3>2, LinesFacts
    <3> QED BY <3>1, <3>2, <3>3
  <2> QED BY <2>1, <2>2
<1>5. ASSUME WriteRest PROVE WritesFollow'
  <2>1. /\ op # None /\ op.kind \in {"append", "ack"} /\ Line \in Lines
        /\ file.lines # <<>> /\ file.lines[Len(file.lines)] = Torn
    BY <1>5, LineFacts DEF WriteRest, CallsFollow, TypeOK
  <2>2. /\ LastLine(Line) \in Seq(Lines) /\ Len(LastLine(Line)) = Len(file.lines)
        /\ LastLine(Line)[Len(file.lines)] = Line
    BY <1>0, <2>1, ChangedLines DEF LastLine
  <2>3. LastLine(Line) # <<>>
    BY <1>0, <2>1, <2>2, LinesFacts
  <2>4. Line' = Line /\ at' = "newline" /\ UNCHANGED <<sure, staleFile>>
    BY <1>5 DEF WriteRest, Proceed, Line
  <2>5. file' \in {file, [lines |-> LastLine(Line), ended |-> file.ended]}
    BY <1>5 DEF WriteRest, TypeOK, Files
  <2> QED BY <2>1, <2>2, <2>3, <2>4, <2>5
<1>6. ASSUME WriteLineFeed PROVE WritesFollow'
  <2>1. Line' = Line /\ at' = "sync" /\ file'.lines = file.lines /\ file'.ended
        /\ UNCHANGED <<sure, staleFile>>
    BY <1>6 DEF WriteLineFeed, Proceed, Line, TypeOK, Files
  <2> QED BY <1>6, <2>1 DEF WriteLineFeed
<1>7. ASSUME SyncLine PROVE WritesFollow'
  <2>1. Line' = Line /\ at' = "chmod" /\ file' = file /\ sure' = Len(file.lines) /\ staleFile' = {}
    BY <1>7 DEF SyncLine, Proceed, Line
  <2> QED BY <1>7, <2>1 DEF SyncLine
<1>8. ASSUME Appended \/ Cleared \/ IoError \/ Die PROVE WritesFollow'
  BY <1>8, <1>2 DEF Appended, Cleared, IoError, Die, Restarted, ReturnOk, ReturnError, Return
<1>9. ASSUME CreateTmp \/ FillTmp \/ SyncTmp PROVE WritesFollow'
  <2>1. CASE CreateTmp
    BY <2>1 DEF CreateTmp, Proceed
  <2>2. CASE FillTmp
    <3>1. tmp'.content = buffer /\ at' = "flush" /\ UNCHANGED <<disk, buffer, op>>
      BY <2>2 DEF FillTmp, Proceed, TypeOK
    <3> QED BY <2>2, <3>1 DEF FillTmp
  <2>3. CASE SyncTmp
    <3>1. tmp'.content = tmp.content /\ tmp'.synced /\ at' = "rename" /\ UNCHANGED <<disk, buffer, op>>
      BY <2>3 DEF SyncTmp, Proceed, TypeOK
    <3> QED BY <2>3, <3>1 DEF SyncTmp
  <2> QED BY <1>9, <2>1, <2>2, <2>3
<1>10. ASSUME Rename PROVE WritesFollow'
  <2>1. \A f \in {file'} \cup staleFile' : ~ f.ended => f.lines # <<>>
    BY <1>10, SurvivorsUnended DEF Rename, RenameJournal, RenameRecord
  <2> QED BY <1>10, <2>1 DEF Rename, Proceed
<1>11. ASSUME SyncDirectory PROVE WritesFollow'
  BY <1>11, <1>2 DEF SyncDirectory, ReturnOk, Return
<1>12. ASSUME NEW r \in Records, UnlinkRecord(r) PROVE WritesFollow'
  BY <1>12 DEF UnlinkRecord, Proceed
<1>13. ASSUME UnlinkJournal PROVE WritesFollow'
  <2>1. \A f \in {file'} \cup staleFile' : ~ f.ended => f.lines # <<>>
    BY <1>13, SurvivorsUnended DEF UnlinkJournal, EmptyFile
  <2> QED BY <1>13, <2>1 DEF UnlinkJournal, Proceed
<1>14. ASSUME LosePower PROVE WritesFollow'
  <2>1. \A f \in {file'} \cup staleFile' : ~ f.ended => f.lines # <<>>
    BY <1>14, SurvivorsUnended DEF LosePower
  <2> QED BY <1>14, <2>1, <1>2 DEF LosePower, Restarted, Return
<1> QED BY <1>1, <1>3, <1>4, <1>5, <1>6, <1>7, <1>8, <1>9, <1>10, <1>11, <1>12, <1>13,
           <1>14 DEF Next, AppendLineCalls, WriteAtomicCalls, Clear

\* What may survive a loss of power is complete.
LEMMA SurvivorsComplete ==
  ASSUME TypeOK, JournalSound
  PROVE  \A f \in Survivors \cup {file} \cup CutsInLine : CompleteFor(kept, gone, f.lines)
<1>1. /\ file.lines \in Seq(Lines) /\ sure \in 0..Len(file.lines)
      /\ Len(file.lines) \in Nat /\ Torn \in Lines
  BY LinesFacts DEF TypeOK, Files, Lines
<1>2. /\ PrefixesComplete(kept, gone, file.lines, sure)
      /\ \A f \in staleFile : CompleteFor(kept, gone, f.lines)
  BY SoundMeans
<1>3. CompleteFor(kept, gone, file.lines)
  BY <1>1, <1>2, LongestPrefix
<1>4. \A n \in sure..Len(file.lines) : CompleteFor(kept, gone, SubSeq(file.lines, 1, n))
  BY <1>2 DEF PrefixesComplete
<1>5. ASSUME NEW f \in Cuts PROVE CompleteFor(kept, gone, f.lines)
  <2>1. \A n \in sure..(IF file.ended THEN Len(file.lines) ELSE Len(file.lines) - 1) :
          n \in sure..Len(file.lines)
    BY <1>1
  <2>2. PICK n \in sure..Len(file.lines) : f = [lines |-> SubSeq(file.lines, 1, n), ended |-> TRUE]
    BY <2>1 DEF Cuts
  <2> QED BY <1>4, <2>2
<1>6. ASSUME NEW f \in CutsInLine PROVE CompleteFor(kept, gone, f.lines)
  <2>1. /\ \A n \in sure..(Len(file.lines) - 1) : n \in 0..Len(file.lines)
        /\ \A n \in (sure + 1)..Len(file.lines) : n \in sure..Len(file.lines)
    BY <1>1
  <2>2. CASE \E n \in sure..(Len(file.lines) - 1) :
               f = [lines |-> Append(SubSeq(file.lines, 1, n), Torn), ended |-> FALSE]
    <3>1. PICK n \in 0..Len(file.lines) :
            f = [lines |-> Append(SubSeq(file.lines, 1, n), Torn), ended |-> FALSE]
      BY <2>1, <2>2
    <3> DEFINE L == SubSeq(file.lines, 1, n)
    <3>2. L \in Seq(Lines)
      BY <1>1, PrefixFacts
    <3> HIDE DEF L
    <3>3. /\ Append(L, Torn) \in Seq(Lines) /\ Len(Append(L, Torn)) = Len(L) + 1 /\ Len(L) \in Nat
          /\ Append(L, Torn)[Len(L) + 1] = Torn
      BY <1>1, <3>2, ChangedLines, LinesFacts
    <3>4. CompleteFor(kept, gone, Append(L, Torn))
      <4> DEFINE M == Append(L, Torn)
      <4>1. M \in Seq(Lines) /\ Len(M) > 0 /\ M[Len(M)] = Torn
        BY <3>3
      <4> HIDE DEF M
      <4> QED BY <4>1, TornLast DEF M
    <3> QED BY <3>1, <3>4 DEF L
  <2>3. CASE \E n \in (sure + 1)..Len(file.lines) :
               f = [lines |-> SubSeq(file.lines, 1, n), ended |-> FALSE]
    BY <1>4, <2>1, <2>3
  <2> QED BY <2>2, <2>3 DEF CutsInLine
<1> QED BY <1>2, <1>3, <1>5, <1>6 DEF Survivors

\* Each step leaves every journal that may survive a loss of power complete.
LEMMA JournalStep ==
  ASSUME TypeOK, CallsFollow, WritesFollow, HistoryFollows, JournalSound, Next
  PROVE  JournalSound'
<1>0. /\ file.lines \in Seq(Lines) /\ Len(file.lines) \in Nat /\ sure \in 0..Len(file.lines)
      /\ file.ended \in BOOLEAN /\ Torn \in Lines
      /\ file.lines # <<>> <=> Len(file.lines) > 0
  BY LinesFacts DEF TypeOK, Files, Lines
<1>1. /\ PrefixesComplete(kept, gone, file.lines, sure)
      /\ \A f \in staleFile : CompleteFor(kept, gone, f.lines)
  BY SoundMeans
<1>2. \A f \in Survivors \cup {file} \cup CutsInLine : CompleteFor(kept, gone, f.lines)
  BY SurvivorsComplete
<1>3. JournalSound' <=> /\ PrefixesComplete(kept', gone', file'.lines, sure')
                        /\ \A f \in staleFile' : CompleteFor(kept', gone', f.lines)
  BY DEF JournalSound, Complete, CompleteFor, PrefixesComplete
\* Less history and the same files, or all of the journal synced.
<1>4. ASSUME UNCHANGED disk, kept' \subseteq kept, gone' \subseteq gone
      PROVE  JournalSound'
  BY <1>1, <1>3, <1>4, LessHistory
<1>5. ASSUME UNCHANGED <<kept, gone>>, file' \in Files, sure' = Len(file'.lines),
             CompleteFor(kept, gone, file'.lines),
             \A f \in staleFile' : CompleteFor(kept, gone, f.lines)
      PROVE  JournalSound'
  <2>1. file'.lines \in Seq(Lines)
    BY <1>5 DEF Files
  <2>2. PrefixesComplete(kept, gone, file'.lines, Len(file'.lines))
    BY <1>5, <2>1, OnePrefix
  <2> QED BY <1>3, <1>5, <2>2
<1>6. ASSUME NEW o \in Abstract!Ops, Call(o) PROVE JournalSound'
  <2>1. kept' \subseteq kept /\ gone' \subseteq gone /\ UNCHANGED disk
    BY <1>6 DEF Call
  <2> QED BY <1>4, <2>1
<1>7. ASSUME Load \/ IoError \/ Die \/ CreateTmp \/ FillTmp \/ SyncTmp PROVE JournalSound'
  <2>1. UNCHANGED <<disk, kept, gone>>
    BY <1>7 DEF Load, IoError, Die, CreateTmp, FillTmp, SyncTmp, Restarted, ReturnError, Proceed
  <2> QED BY <1>4, <2>1
<1>8. ASSUME WritePiece PROVE JournalSound'
  <2>1. /\ file'.lines = IF file.ended THEN Append(file.lines, Torn) ELSE LastLine(Torn)
        /\ UNCHANGED <<sure, staleFile, kept, gone>>
    BY <1>8 DEF WritePiece, Proceed
  <2>2. ~ file.ended => file.lines # <<>>
    BY DEF WritesFollow
  <2> DEFINE M == file'.lines
             n == Len(M)
  <2>3. /\ M \in Seq(Lines) /\ n > 0 /\ n \in Nat /\ M[n] = Torn
        /\ Len(file.lines) <= n /\ n <= Len(file.lines) + 1
        /\ \A i \in 1..(n - 1) : M[i] = file.lines[i]
    <3>1. CASE file.ended
      BY <1>0, <2>1, <3>1, ChangedLines
    <3>2. CASE ~ file.ended
      BY <1>0, <2>1, <2>2, <3>2, ChangedLines DEF LastLine
    <3> QED BY <3>1, <3>2
  <2> HIDE DEF M
  <2>4. CompleteFor(kept, gone, M)
    BY <2>3, TornLast
  <2>5. PrefixesComplete(kept, gone, M, sure)
    BY <1>0, <1>1, <2>3, <2>4, ChangedLast
  <2> QED BY <1>1, <1>3, <2>1, <2>5 DEF M
<1>9. ASSUME WriteRest PROVE JournalSound'
  <2>1. /\ op # None /\ op.kind \in {"append", "ack"} /\ Line \in Lines
        /\ file.lines # <<>> /\ UNCHANGED <<sure, staleFile, kept, gone>>
        /\ fresh => sure < Len(file.lines)
        /\ file' = IF fresh THEN [file EXCEPT !.lines = LastLine(Line)] ELSE file
    BY <1>9, LineFacts DEF WriteRest, Proceed, CallsFollow, WritesFollow, TypeOK
  <2>2. CASE ~ fresh
    <3>1. UNCHANGED file
      BY <2>1, <2>2
    <3> QED BY <1>1, <1>3, <2>1, <3>1
  <2>3. CASE fresh
    <3> DEFINE n == Len(file.lines)
               L == SubSeq(file.lines, 1, n - 1)
               M == LastLine(Line)
    <3>1. file'.lines = M
      BY <2>1, <2>3 DEF TypeOK, Files
    <3>2. /\ M \in Seq(Lines) /\ Len(M) = n /\ M[n] = Line /\ n > 0 /\ n \in Nat
          /\ \A i \in 1..(n - 1) : M[i] = file.lines[i]
      BY <1>0, <2>1, ChangedLines DEF LastLine
    <3>3. n - 1 \in 0..n /\ n - 1 \in sure..n
      BY <1>0, <2>1, <2>3
    <3>4. /\ L \in Seq(Lines) /\ Len(L) = n - 1 /\ \A i \in 1..(n - 1) : L[i] = file.lines[i]
      BY <1>0, <3>3, PrefixFacts
    <3>5. CompleteFor(kept, gone, L)
      BY <1>1, <3>3 DEF PrefixesComplete
    <3>6. kept \subseteq Mutations
      BY DEF TypeOK
    <3> HIDE DEF L, M, n
    <3>7. \A i \in 1..(n - 1) : M[i] = L[i]
      BY <3>2, <3>4
    <3>8. CompleteFor(kept, gone, M)
      <4>1. CASE op.kind = "append"
        <5>1. /\ op.mutation \in Mutations /\ Line = AppendLine(op.mutation)
              /\ op.mutation.id \notin gone /\ \A m \in kept : m.id # op.mutation.id
          BY <2>1, <4>1, LineFacts DEF HistoryFollows
        <5>2. CompleteFor(kept \cup {op.mutation}, gone, M)
          BY <3>2, <3>4, <3>5, <3>6, <3>7, <5>1, AppendedLast
        <5> QED BY <5>2 DEF CompleteFor
      <4>2. CASE op.kind = "ack"
        <5>1. op.id \in Ids /\ Line = AckLine(op.id) /\ \A m \in kept : m.id # op.id
          BY <2>1, <4>2, LineFacts DEF HistoryFollows
        <5>2. CompleteFor(kept, gone \cup {op.id}, M)
          BY <3>2, <3>4, <3>5, <3>6, <3>7, <5>1, AckedLast
        <5> QED BY <5>2 DEF CompleteFor
      <4> QED BY <2>1, <4>1, <4>2
    <3>9. PrefixesComplete(kept, gone, M, sure)
      <4>1. Len(file.lines) <= Len(M) /\ Len(M) > 0 /\ Len(M) <= Len(file.lines) + 1 /\ sure \in Nat
            /\ \A i \in 1..(Len(M) - 1) : M[i] = file.lines[i]
        BY <1>0, <3>2 DEF n
      <4> QED BY <1>0, <1>1, <3>2, <3>8, <4>1, ChangedLast
    <3> QED BY <1>1, <1>3, <2>1, <3>1, <3>9
  <2> QED BY <2>2, <2>3 DEF TypeOK
<1>10. ASSUME WriteLineFeed PROVE JournalSound'
  <2>1. file'.lines = file.lines /\ UNCHANGED <<sure, staleFile, kept, gone>>
    BY <1>10 DEF WriteLineFeed, Proceed, TypeOK, Files
  <2> QED BY <1>1, <1>3, <2>1
<1>11. ASSUME SyncLine PROVE JournalSound'
  <2>1. file' = file /\ sure' = Len(file.lines) /\ staleFile' = {} /\ UNCHANGED <<kept, gone>>
    BY <1>11 DEF SyncLine, Proceed
  <2> QED BY <1>2, <1>5, <2>1 DEF TypeOK
<1>12. ASSUME Appended PROVE JournalSound'
  <2> DEFINE n == Len(file.lines)
  <2>1. /\ op # None /\ op.kind \in {"append", "ack"} /\ UNCHANGED disk /\ sure = n
        /\ staleFile = {} /\ n > 0 /\ n \in Nat /\ file.lines[n] \in {Line, Torn}
    BY <1>0, <1>12 DEF Appended, CallsFollow, WritesFollow, TypeOK
  <2>2. /\ kept' = IF op.kind = "append" THEN kept \cup {op.mutation} ELSE kept
        /\ gone' = IF op.kind = "ack" THEN gone \cup {op.id} ELSE gone
    BY <1>12 DEF Appended, ReturnOk
  <2>3. CompleteFor(kept, gone, file.lines)
    BY <1>2
  <2>4. CompleteFor(kept', gone', file.lines)
    <3>1. CASE file.lines[n] = Torn
      BY <1>0, <2>1, <3>1, TornLast
    <3>2. CASE file.lines[n] = Line /\ op.kind = "append"
      BY <1>0, <2>1, <2>2, <2>3, <3>2, LineFacts, AnsweredLast
    <3>3. CASE file.lines[n] = Line /\ op.kind = "ack"
      BY <1>0, <2>1, <2>2, <2>3, <3>3, LineFacts, AnsweredLast
    <3> QED BY <2>1, <3>1, <3>2, <3>3
  <2>5. PrefixesComplete(kept', gone', file.lines, Len(file.lines))
    BY <1>0, <2>4, OnePrefix
  <2> QED BY <1>3, <2>1, <2>5
<1>13. ASSUME Rename PROVE JournalSound'
  <2>1. CASE op.kind # "compact"
    <3>1. UNCHANGED <<file, sure, staleFile, kept, gone>>
      BY <1>13, <2>1 DEF Rename, RenameRecord, Proceed
    <3> QED BY <1>1, <1>3, <3>1
  <2>2. CASE op.kind = "compact"
    <3>1. /\ file' = [lines |-> tmp.content, ended |-> TRUE] /\ sure' = Len(file'.lines)
          /\ staleFile' = Survivors \cup {file} /\ UNCHANGED <<kept, gone>>
      BY <1>13, <2>2 DEF Rename, RenameJournal, Proceed, WritesFollow
    <3>2. /\ tmp.content \in Seq(Lines) /\ ~ HasTornLine(file.lines)
          /\ Pending(tmp.content) = Pending(file.lines)
      BY <1>13, <2>2 DEF Rename, WritesFollow
    <3>3. CompleteFor(kept, gone, tmp.content)
      BY <1>2, <3>2 DEF CompleteFor
    <3>4. file' \in Files
      BY <3>1, <3>2 DEF Files
    <3>5. \A f \in staleFile' : CompleteFor(kept, gone, f.lines)
      BY <1>2, <3>1
    <3>6. file'.lines = tmp.content
      BY <3>1
    <3> QED BY <1>5, <3>1, <3>3, <3>4, <3>5, <3>6
  <2> QED BY <2>1, <2>2
<1>14. ASSUME SyncDirectory PROVE JournalSound'
  <2>1. op.kind \notin {"append", "ack"}
    BY <1>14 DEF SyncDirectory, CallsFollow
  <2>2. staleFile' \subseteq staleFile /\ UNCHANGED <<file, sure, kept, gone>>
    BY <1>14, <2>1 DEF SyncDirectory, ReturnOk
  <2> QED BY <1>1, <1>3, <2>2
<1>15. ASSUME NEW r \in Records, UnlinkRecord(r) PROVE JournalSound'
  <2>1. UNCHANGED <<file, sure, staleFile, kept, gone>>
    BY <1>15 DEF UnlinkRecord, Proceed
  <2> QED BY <1>1, <1>3, <2>1
<1>16. ASSUME UnlinkJournal PROVE JournalSound'
  <2>1. op # None /\ op.kind = "clear" /\ kept = {}
    BY <1>16 DEF UnlinkJournal, CallsFollow, HistoryFollows, TypeOK
  <2>2. /\ file' = EmptyFile /\ sure' = 0 /\ staleFile' = Survivors \cup {file}
        /\ UNCHANGED <<kept, gone>>
    BY <1>16 DEF UnlinkJournal, Proceed
  <2>3. <<>> \in Seq(Lines) /\ Len(<<>>) = 0 /\ Pending(<<>>) = {}
    <3>1. <<>> \in Seq(Lines) /\ Len(<<>>) = 0 /\ DOMAIN <<>> = {}
      BY EmptySeq
    <3> QED BY <3>1 DEF Pending
  <2>4. CompleteFor(kept, gone, <<>>)
    BY <2>1, <2>3 DEF CompleteFor
  <2> QED BY <1>2, <1>5, <2>2, <2>3, <2>4 DEF EmptyFile, Files
<1>17. ASSUME Cleared PROVE JournalSound'
  <2>1. op.kind = "clear"
    BY <1>17 DEF Cleared, CallsFollow
  <2>2. UNCHANGED <<disk, kept, gone>>
    BY <1>17, <2>1 DEF Cleared, ReturnOk
  <2> QED BY <1>4, <2>2
<1>18. ASSUME LosePower PROVE JournalSound'
  <2>1. /\ file' \in Survivors \cup CutsInLine /\ sure' = Len(file'.lines) /\ staleFile' = {}
        /\ UNCHANGED <<kept, gone>>
    BY <1>18 DEF LosePower, Restarted
  <2> QED BY <1>2, <1>5, <2>1, SurvivorFacts
<1> QED BY <1>6, <1>7, <1>8, <1>9, <1>10, <1>11, <1>12, <1>13, <1>14, <1>15, <1>16, <1>17,
           <1>18 DEF Next, AppendLineCalls, WriteAtomicCalls, Clear

\* A fault that has happened has happened.
LEMMA FaultsUsed ==
  ASSUME TypeOK, Next, TypeOK'
  PROVE  \A f \in FaultKinds : Used(f) => Used(f)'
<1>1. \A f \in FaultKinds : left'[f] <= left[f]
  <2>1. left \in [FaultKinds -> Nat] /\ {"any", "io", "die", "power", "io_in_line", "die_in_line",
           "power_in_line", "syncdir"} = FaultKinds
    BY DEF TypeOK, FaultKinds
  <2>2. NoFault => \A f \in FaultKinds : left'[f] <= left[f]
    BY <2>1 DEF NoFault
  <2>3. \A g \in FaultKinds : Fault(g) => \A f \in FaultKinds : left'[f] <= left[f]
    BY <2>1 DEF Fault
  <2>4. NoFault \/ \E g \in FaultKinds : Fault(g)
    <3>1. ASSUME NEW o \in Abstract!Ops, Call(o) PROVE NoFault
      BY <3>1 DEF Call, NoFault
    <3>2. Load \/ AppendLineCalls \/ Clear => NoFault
      BY DEF Load, AppendLineCalls, WritePiece, WriteRest, WriteLineFeed, SyncLine, Appended,
             Clear, UnlinkRecord, UnlinkJournal, Cleared, Proceed
    <3>3. WriteAtomicCalls => NoFault \/ Fault("syncdir")
      BY DEF WriteAtomicCalls, CreateTmp, FillTmp, SyncTmp, Rename, SyncDirectory, Proceed
    <3>4. IoError => Fault("io") \/ Fault("io_in_line")
      BY DEF IoError
    <3>5. Die => Fault("die") \/ Fault("die_in_line")
      BY DEF Die
    <3>6. LosePower => Fault("power") \/ Fault("power_in_line")
      BY DEF LosePower
    <3> QED BY <2>1, <3>1, <3>2, <3>3, <3>4, <3>5, <3>6 DEF Next
  <2> QED BY <2>2, <2>3, <2>4
<1>2. \A f \in FaultKinds : left[f] \in Nat /\ left'[f] \in Nat /\ Faults[f] \in Nat
  BY FileAssumption DEF TypeOK
<1> QED BY <1>1, <1>2 DEF Used

\* When no fault has come within a line, what may survive a loss of power has no torn
\* line.
LEMMA SurvivorsWhole ==
  ASSUME TypeOK, JournalWhole,
         ~ Used("io_in_line"), ~ Used("die_in_line"), ~ Used("power_in_line")
  PROVE  \A f \in Survivors : f.ended /\ ~ HasTornLine(f.lines)
<1>1. /\ file.lines \in Seq(Lines) /\ Len(file.lines) \in Nat /\ sure \in 0..Len(file.lines)
      /\ file.ended \in BOOLEAN /\ DOMAIN file.lines = 1..Len(file.lines)
  BY LinesFacts DEF TypeOK, Files
<1>2. /\ file.ended <=> at \notin {"rest", "newline"}
      /\ \A i \in DOMAIN file.lines : file.lines[i] = Torn => at = "rest" /\ i = Len(file.lines)
      /\ \A f \in staleFile : f.ended /\ ~ HasTornLine(f.lines)
  BY DEF JournalWhole
<1>3. ASSUME NEW f \in Cuts PROVE f.ended /\ ~ HasTornLine(f.lines)
  <2>1. /\ \A n \in sure..(IF file.ended THEN Len(file.lines) ELSE Len(file.lines) - 1) :
             n \in 0..Len(file.lines) /\ (~ file.ended => n < Len(file.lines))
    BY <1>1
  <2>2. PICK n \in 0..Len(file.lines) :
          /\ f = [lines |-> SubSeq(file.lines, 1, n), ended |-> TRUE]
          /\ ~ file.ended => n < Len(file.lines)
    BY <2>1 DEF Cuts
  <2> DEFINE L == SubSeq(file.lines, 1, n)
  <2>3. L \in Seq(Lines) /\ Len(L) = n /\ \A i \in 1..n : L[i] = file.lines[i]
    BY <1>1, PrefixFacts
  <2> HIDE DEF L
  <2>4. DOMAIN L = 1..n
    BY <2>3, LinesFacts
  <2>5. \A i \in 1..n : i \in DOMAIN file.lines /\ (~ file.ended => i # Len(file.lines))
    BY <1>1, <2>2
  <2>6. \A i \in 1..n : file.lines[i] # Torn
    BY <1>2, <2>5
  <2>7. ~ HasTornLine(L)
    BY <2>3, <2>4, <2>6 DEF HasTornLine
  <2> QED BY <2>2, <2>7 DEF L
<1> QED BY <1>2, <1>3 DEF Survivors

\* No step leaves half of a line that may survive, unless a fault has come within
\* a line.
LEMMA WholeStep ==
  ASSUME TypeOK, CallsFollow, WritesFollow, JournalWhole, Next, TypeOK'
  PROVE  JournalWhole'
<1> DEFINE Split == Used("io_in_line") \/ Used("die_in_line") \/ Used("power_in_line")
           InPlace == /\ file.ended <=> at \notin {"rest", "newline"}
                      /\ at = "rest" => fresh
                      /\ \A i \in DOMAIN file.lines :
                           file.lines[i] = Torn => at = "rest" /\ i = Len(file.lines)
                      /\ \A f \in staleFile : f.ended /\ ~ HasTornLine(f.lines)
<1>0. /\ file.lines \in Seq(Lines) /\ Len(file.lines) \in Nat /\ sure \in 0..Len(file.lines)
      /\ file.ended \in BOOLEAN /\ Torn \in Lines /\ DOMAIN file.lines = 1..Len(file.lines)
      /\ file.lines # <<>> <=> Len(file.lines) > 0
  BY LinesFacts DEF TypeOK, Files, Lines
<1>1. JournalWhole <=> Split \/ InPlace
  BY DEF JournalWhole
<1>2. JournalWhole' <=> Split' \/ InPlace'
  BY DEF JournalWhole
<1>3. CASE Split
  <2>1. \A f \in FaultKinds : Used(f) => Used(f)'
    BY FaultsUsed
  <2>2. Split'
    BY <1>3, <2>1 DEF FaultKinds
  <2> QED BY <1>2, <2>2
<1>4. CASE InPlace /\ ~ Split
  <2>1. ASSUME NEW f \in {"io_in_line", "die_in_line", "power_in_line"}, Fault(f)
        PROVE  JournalWhole'
    <3>1. left'[f] = left[f] - 1 /\ left[f] \in Nat /\ left[f] <= Faults[f] /\ Faults[f] \in Nat
      BY <2>1, FileAssumption DEF Fault, TypeOK, FaultKinds
    <3>2. Used(f)'
      BY <3>1 DEF Used
    <3> QED BY <1>2, <2>1, <3>2
  <2>2. ASSUME UNCHANGED <<file, staleFile>>, at \notin {"rest", "newline"}, at' \notin {"rest", "newline"}
        PROVE  JournalWhole'
    BY <1>2, <1>4, <2>2
  <2>3. ASSUME NEW o \in Abstract!Ops, Call(o) PROVE JournalWhole'
    <3>1. UNCHANGED <<file, staleFile>> /\ at = "idle" /\ at' = FirstCall[o.kind]
      BY <2>3 DEF Call, TypeOK
    <3>2. at' \notin {"rest", "newline"}
      BY <3>1, FirstCallFacts
    <3> QED BY <2>2, <3>1, <3>2
  <2>4. ASSUME Load \/ Appended \/ CreateTmp \/ FillTmp \/ SyncTmp \/ Cleared PROVE JournalWhole'
    BY <2>2, <2>4 DEF Load, Appended, CreateTmp, FillTmp, SyncTmp, Cleared, ReturnOk, ReturnError,
                      Return, Proceed
  <2>5. ASSUME WritePiece PROVE JournalWhole'
    <3>1. /\ file.ended /\ file' = [lines |-> Append(file.lines, Torn), ended |-> FALSE]
          /\ fresh' /\ at' = "rest" /\ UNCHANGED staleFile
          /\ \A i \in 1..Len(file.lines) : file.lines[i] # Torn
      BY <1>0, <1>4, <2>5 DEF WritePiece, Proceed
    <3> DEFINE M == Append(file.lines, Torn)
    <3>2. /\ M \in Seq(Lines) /\ Len(M) = Len(file.lines) + 1
          /\ \A i \in 1..Len(file.lines) : M[i] = file.lines[i]
      BY <1>0, ChangedLines
    <3> HIDE DEF M
    <3>3. DOMAIN M = 1..Len(M)
      BY <3>2, LinesFacts
    <3>4. \A i \in DOMAIN M : M[i] = Torn => i = Len(M)
      BY <1>0, <3>1, <3>2, <3>3
    <3>5. file' = [lines |-> M, ended |-> FALSE]
      BY <3>1 DEF M
    <3> QED BY <1>2, <1>4, <3>1, <3>4, <3>5
  <2>6. ASSUME WriteRest PROVE JournalWhole'
    <3>1. /\ op # None /\ op.kind \in {"append", "ack"} /\ file.lines # <<>> /\ ~ file.ended
          /\ file' = [file EXCEPT !.lines = LastLine(Line)]
          /\ at' = "newline" /\ UNCHANGED <<staleFile>>
          /\ \A i \in 1..(Len(file.lines) - 1) : file.lines[i] # Torn
      BY <1>0, <1>4, <2>6 DEF WriteRest, Proceed, CallsFollow, WritesFollow, TypeOK
    <3> DEFINE M == LastLine(Line)
    <3>2. /\ M \in Seq(Lines) /\ Len(M) = Len(file.lines) /\ M[Len(file.lines)] = Line
          /\ Line # Torn
          /\ \A i \in 1..(Len(file.lines) - 1) : M[i] = file.lines[i]
      BY <1>0, <3>1, ChangedLines, LineFacts DEF LastLine
    <3>3. file'.lines = M /\ ~ file'.ended
      BY <3>1 DEF TypeOK, Files
    <3> HIDE DEF M
    <3>4. DOMAIN M = 1..Len(M)
      BY <3>2, LinesFacts
    <3>5. \A i \in DOMAIN M : M[i] # Torn
      BY <1>0, <3>1, <3>2, <3>4
    <3> QED BY <1>2, <1>4, <3>1, <3>3, <3>5
  <2>7. ASSUME WriteLineFeed PROVE JournalWhole'
    <3>1. file'.lines = file.lines /\ file'.ended /\ at = "newline" /\ at' = "sync" /\ UNCHANGED staleFile
      BY <2>7 DEF WriteLineFeed, Proceed, TypeOK, Files
    <3> QED BY <1>2, <1>4, <3>1
  <2>8. ASSUME SyncLine PROVE JournalWhole'
    <3>1. file' = file /\ at = "sync" /\ at' = "chmod" /\ staleFile' = {}
      BY <2>8 DEF SyncLine, Proceed
    <3> QED BY <1>2, <1>4, <3>1
  <2>9. \A f \in Survivors : f.ended /\ ~ HasTornLine(f.lines)
    BY <1>4, SurvivorsWhole
  <2>10. at # "rest" => ~ HasTornLine(file.lines)
    BY <1>4 DEF HasTornLine
  <2>11. ASSUME Rename PROVE JournalWhole'
    <3>1. CASE op.kind # "compact"
      BY <2>2, <2>11, <3>1 DEF Rename, RenameRecord, Proceed
    <3>2. CASE op.kind = "compact"
      <4>1. /\ file' = [lines |-> tmp.content, ended |-> TRUE] /\ at = "rename" /\ at' = "syncdir"
            /\ staleFile' = Survivors \cup {file} /\ ~ HasTornLine(tmp.content)
        BY <2>11, <3>2 DEF Rename, RenameJournal, Proceed, WritesFollow
      <4>2. \A f \in staleFile' : f.ended /\ ~ HasTornLine(f.lines)
        BY <1>4, <2>9, <2>10, <4>1
      <4>3. \A i \in DOMAIN file'.lines : file'.lines[i] # Torn
        BY <4>1 DEF HasTornLine
      <4>4. file'.ended
        BY <4>1
      <4> QED BY <1>2, <4>1, <4>2, <4>3, <4>4
    <3> QED BY <3>1, <3>2
  <2>12. ASSUME SyncDirectory PROVE JournalWhole'
    <3>1. /\ file' = file /\ staleFile' \subseteq staleFile /\ at = "syncdir" /\ at' = "idle"
      BY <2>12 DEF SyncDirectory, ReturnOk, Return
    <3> QED BY <1>2, <1>4, <3>1
  <2>13. ASSUME NEW r \in Records, UnlinkRecord(r) PROVE JournalWhole'
    BY <2>2, <2>13 DEF UnlinkRecord, Proceed
  <2>14. ASSUME UnlinkJournal PROVE JournalWhole'
    <3>1. /\ file' = [lines |-> <<>>, ended |-> TRUE] /\ at = "unlink" /\ at' = "unlink"
          /\ staleFile' = Survivors \cup {file}
      BY <2>14 DEF UnlinkJournal, EmptyFile, Proceed
    <3>2. \A f \in staleFile' : f.ended /\ ~ HasTornLine(f.lines)
      BY <1>4, <2>9, <2>10, <3>1
    <3>3. file'.lines = <<>> /\ DOMAIN <<>> = {} /\ file'.ended
      BY <3>1
    <3> QED BY <1>2, <3>1, <3>2, <3>3
  <2>15. ASSUME IoError PROVE JournalWhole'
    <3>1. CASE InLine
      BY <2>1, <2>15, <3>1 DEF IoError
    <3>2. CASE ~ InLine
      BY <2>2, <2>15, <3>2 DEF IoError, InLine, ReturnError, Return
    <3> QED BY <3>1, <3>2
  <2>16. ASSUME Die PROVE JournalWhole'
    <3>1. CASE InLine
      BY <2>1, <2>16, <3>1 DEF Die
    <3>2. CASE ~ InLine
      BY <2>2, <2>16, <3>2 DEF Die, InLine, Restarted, Return
    <3> QED BY <3>1, <3>2
  <2>17. ASSUME LosePower PROVE JournalWhole'
    <3>1. CASE Fault("power_in_line")
      BY <2>1, <3>1
    <3>2. CASE file' \in Survivors
      <4>1. at' = "idle" /\ staleFile' = {} /\ file'.ended /\ ~ HasTornLine(file'.lines)
        BY <2>9, <2>17, <3>2 DEF LosePower, Restarted, Return
      <4> QED BY <1>2, <4>1 DEF HasTornLine
    <3> QED BY <2>17, <3>1, <3>2 DEF LosePower
  <2> QED BY <2>3, <2>4, <2>5, <2>6, <2>7, <2>8, <2>11, <2>12, <2>13, <2>14, <2>15, <2>16, <2>17
          DEF Next, AppendLineCalls, WriteAtomicCalls, Clear
<1> QED BY <1>1, <1>3, <1>4

\* Each step leaves a reader whole records, and a snapshot of the history.
LEMMA RecordsStep ==
  ASSUME TypeOK, CallsFollow, WritesFollow, HistoryFollows, RecordsSound, Next, TypeOK'
  PROVE  RecordsSound'
<1> DEFINE Whole == /\ SurvivingRecords("snapshot") \subseteq snaps
                    /\ \A r \in Records : Torn \notin SurvivingRecords(r)
           Renamed == at = "syncdir" /\ op.kind = "snapshot" => record["snapshot"] = op.value
<1>1. RecordsSound <=> (Used("syncdir") \/ Whole) /\ Renamed
  BY DEF RecordsSound, RecordsSurvive
<1>2. RecordsSound' <=> (Used("syncdir")' \/ Whole') /\ Renamed'
  BY DEF RecordsSound, RecordsSurvive
<1>3. Used("syncdir") => Used("syncdir")'
  BY FaultsUsed DEF FaultKinds
<1>4. record \in [Records -> Content] /\ staleRecord \in [Records -> SUBSET Content]
  BY DEF TypeOK
<1>5. ASSUME UNCHANGED <<record, staleRecord>>, snaps \subseteq snaps', at' # "syncdir"
      PROVE  RecordsSound'
  <2>1. Whole => Whole'
    BY <1>5 DEF SurvivingRecords
  <2> QED BY <1>1, <1>2, <1>3, <1>5, <2>1
<1>6. ASSUME NEW o \in Abstract!Ops, Call(o) PROVE RecordsSound'
  <2>1. UNCHANGED <<record, staleRecord>> /\ at' = FirstCall[o.kind] /\ at' # "syncdir"
    BY <1>6, FirstCallFacts DEF Call
  <2>2. snaps \subseteq snaps'
    BY <1>6 DEF Call
  <2> QED BY <1>5, <2>1, <2>2
<1>7. ASSUME Load \/ IoError \/ Die \/ CreateTmp \/ FillTmp \/ SyncTmp PROVE RecordsSound'
  BY <1>5, <1>7 DEF Load, IoError, Die, Restarted, Return, ReturnError, CreateTmp, FillTmp, SyncTmp,
                    Proceed
<1>8. ASSUME AppendLineCalls PROVE RecordsSound'
  <2>1. op.kind \in {"append", "ack"}
    BY <1>8 DEF AppendLineCalls, WritePiece, WriteRest, WriteLineFeed, SyncLine, Appended, CallsFollow
  <2> QED BY <1>5, <1>8, <2>1 DEF AppendLineCalls, WritePiece, WriteRest, WriteLineFeed, SyncLine,
                                  Appended, ReturnOk, Return, Proceed
<1>9. ASSUME Rename PROVE RecordsSound'
  <2>1. CASE op.kind = "compact"
    <3>1. UNCHANGED <<record, staleRecord, snaps, op>>
      BY <1>9, <2>1 DEF Rename, RenameJournal, Proceed
    <3>2. Whole => Whole'
      BY <3>1 DEF SurvivingRecords
    <3> QED BY <1>1, <1>2, <1>3, <2>1, <3>1, <3>2
  <2>2. CASE op.kind # "compact"
    <3>1. /\ op \in Abstract!Ops /\ op # None /\ op.kind \in Records /\ tmp.content = op.value
          /\ op.value \in Values /\ tmp.synced
      BY <1>9, <2>2, OpKinds DEF Rename, CallsFollow, WritesFollow, TypeOK
    <3>2. /\ record' = [record EXCEPT ![op.kind] = op.value]
          /\ staleRecord' = [staleRecord EXCEPT ![op.kind] = SurvivingRecords(op.kind)]
          /\ UNCHANGED <<snaps, op>>
      BY <1>9, <2>2, <3>1 DEF Rename, RenameRecord, Proceed
    <3>3. op.kind = "snapshot" => op.value \in snaps
      BY <3>1 DEF HistoryFollows
    <3>4. \A r \in Records : SurvivingRecords(r)' =
            IF r = op.kind THEN {op.value} \cup SurvivingRecords(r) ELSE SurvivingRecords(r)
      BY <1>4, <3>1, <3>2 DEF SurvivingRecords
    <3>5. op.value # Torn
      BY <3>1, FileAssumption
    <3>6. Whole => Whole'
      BY <3>2, <3>3, <3>4, <3>5
    <3>7. Renamed'
      BY <1>4, <3>1, <3>2
    <3> QED BY <1>1, <1>2, <1>3, <3>6, <3>7
  <2> QED BY <2>1, <2>2
<1>10. ASSUME SyncDirectory PROVE RecordsSound'
  <2>1. at = "syncdir" /\ at' = "idle" /\ op # None /\ UNCHANGED record
        /\ snaps' = IF op.kind = "snapshot" THEN {op.value} ELSE snaps
    BY <1>10 DEF SyncDirectory, ReturnOk, Return, TypeOK
  <2>2. CASE Fault("syncdir")
    <3>1. left'["syncdir"] = left["syncdir"] - 1 /\ left["syncdir"] \in Nat
          /\ left["syncdir"] <= Faults["syncdir"] /\ Faults["syncdir"] \in Nat
      BY <2>2, FileAssumption DEF Fault, TypeOK, FaultKinds
    <3>2. Used("syncdir")'
      BY <3>1 DEF Used
    <3> QED BY <1>2, <2>1, <3>2
  <2>3. CASE staleRecord' = [r \in Records |-> {}]
    <3>1. \A r \in Records : SurvivingRecords(r)' = {record[r]}
      BY <2>1, <2>3 DEF SurvivingRecords
    <3>2. Whole => Whole'
      BY <1>1, <2>1, <3>1 DEF SurvivingRecords
    <3> QED BY <1>1, <1>2, <1>3, <2>1, <3>2
  <2> QED BY <1>10, <2>2, <2>3 DEF SyncDirectory
<1>11. ASSUME NEW r \in Records, UnlinkRecord(r) PROVE RecordsSound'
  <2>1. /\ op # None /\ op.kind = "clear" /\ None \in snaps
    BY <1>11 DEF UnlinkRecord, CallsFollow, HistoryFollows, TypeOK
  <2>2. /\ record' = [record EXCEPT ![r] = None]
        /\ staleRecord' = [staleRecord EXCEPT ![r] = SurvivingRecords(r)]
        /\ UNCHANGED <<snaps, op>> /\ at' = "unlink"
    BY <1>11 DEF UnlinkRecord, Proceed
  <2>3. \A q \in Records : SurvivingRecords(q)' \subseteq {None} \cup SurvivingRecords(q)
    BY <1>4, <2>2 DEF SurvivingRecords
  <2>4. Whole => Whole'
    BY <2>1, <2>2, <2>3, FileAssumption
  <2> QED BY <1>1, <1>2, <1>3, <2>2, <2>4
<1>12. ASSUME UnlinkJournal \/ Cleared PROVE RecordsSound'
  <2>1. op.kind = "clear"
    BY <1>12 DEF UnlinkJournal, Cleared, CallsFollow
  <2> QED BY <1>5, <1>12, <2>1 DEF UnlinkJournal, Cleared, ReturnOk, Return, Proceed
<1>13. ASSUME LosePower PROVE RecordsSound'
  <2>1. /\ \A r \in Records : record'[r] \in SurvivingRecords(r)
        /\ staleRecord' = [r \in Records |-> {}] /\ at' = "idle" /\ UNCHANGED snaps
    BY <1>13 DEF LosePower, Restarted, Return
  <2>2. \A r \in Records : SurvivingRecords(r)' \subseteq SurvivingRecords(r)
    BY <2>1 DEF SurvivingRecords
  <2>3. Whole => Whole'
    BY <2>1, <2>2
  <2> QED BY <1>1, <1>2, <1>3, <2>1, <2>3
<1> QED BY <1>6, <1>7, <1>8, <1>9, <1>10, <1>11, <1>12, <1>13 DEF Next, WriteAtomicCalls, Clear

\* The invariant is inductive.
LEMMA SoundStep == Sound /\ [Next]_vars => Sound'
<1> SUFFICES ASSUME Sound, [Next]_vars PROVE Sound'
  OBVIOUS
<1>1. CASE Next
  <2>1. TypeOK'
    BY <1>1, TypeStep DEF Sound, FilesSound
  <2> QED BY <1>1, <2>1, CallsStep, WritesStep, HistoryStep, JournalStep, WholeStep, RecordsStep
          DEF Sound, FilesSound
<1>2. CASE UNCHANGED vars
  BY <1>2 DEF vars, call, Sound, TypeOK, FilesSound, CallsFollow, WritesFollow, Line, HistoryFollows,
              JournalSound, Complete, JournalWhole, RecordsSound, RecordsSurvive, SurvivingRecords, Used
<1> QED BY <1>1, <1>2

\* So it always holds.
LEMMA AlwaysSound == Spec => []Sound
<1> QED BY SoundInit, SoundStep, PTL DEF Spec

\* Every variable keeps its type.
THEOREM FilesTyped == Spec => []TypeOK
<1>1. Sound => TypeOK
  BY DEF Sound
<1> QED BY <1>1, AlwaysSound, PTL

\* The inductive invariant of the files: what each system call has written when the
\* next one is due, and that every journal and every record a loss of power may leave
\* is complete and whole.
THEOREM FilesAreSound == Spec => []FilesSound
<1>1. Sound => FilesSound
  BY DEF Sound
<1> QED BY <1>1, AlwaysSound, PTL

\* A load that succeeds misses no mutation whose append was answered with Ok and
\* returns none whose acknowledgement was, whatever failed, died or lost its power
\* in the middle of a line.
THEOREM CompleteOrRefused == Spec => []LoadsAreComplete
<1>1. Sound => LoadsAreComplete
  <2> SUFFICES ASSUME Sound PROVE LoadsAreComplete
    OBVIOUS
  <2>1. CompleteFor(kept, gone, file.lines)
    BY SurvivorsComplete DEF Sound, FilesSound
  <2> QED BY <2>1 DEF CompleteFor, LoadsAreComplete, Unreadable
<1> QED BY <1>1, AlwaysSound, PTL

\* A loss of power takes no mutation whose append was answered with Ok, and brings
\* none back whose acknowledgement was, during a compaction or not.
THEOREM PowerTakesNothing == Spec => []SurvivesPowerLoss
<1>1. Sound => SurvivesPowerLoss
  <2> SUFFICES ASSUME Sound,
                      ~ Used("io_in_line"), ~ Used("die_in_line"), ~ Used("power_in_line"),
                      NEW f \in Survivors
               PROVE  kept \subseteq Pending(f.lines) /\ \A m \in Pending(f.lines) : m.id \notin gone
    BY DEF SurvivesPowerLoss
  <2>1. CompleteFor(kept, gone, f.lines)
    BY SurvivorsComplete DEF Sound, FilesSound
  <2>2. ~ HasTornLine(f.lines)
    BY SurvivorsWhole DEF Sound, FilesSound
  <2> QED BY <2>1, <2>2 DEF CompleteFor
<1> QED BY <1>1, AlwaysSound, PTL

\* A reader of snapshot.json finds the last snapshot stored with Ok or one that was
\* begun since, and never half of a file, as long as the directory is synced.
THEOREM SnapshotsSurvive == Spec => []RecordsSurvive
<1>1. Sound => RecordsSurvive
  BY DEF Sound, FilesSound, RecordsSound
<1> QED BY <1>1, AlwaysSound, PTL

-----------------------------------------------------------------------------
(* The files implement StoreSpec. *)

\* The operation under way has taken effect.
Done == /\ at \in {"newline", "sync", "chmod", "syncdir"}
        /\ op.kind \notin {"compact", "metadata"}

\* No fault within a line, and no loss of power.
Splits == {"io_in_line", "die_in_line", "power_in_line", "power"}

\* Without a fault within a line the journal's lines are whole between two operations,
\* and the system calls of append_line write one new line.
LEMMA NothingSplit ==
  ASSUME Sound, \A f \in Splits : Faults[f] = 0
  PROVE  /\ \A f \in Splits : left[f] = 0
         /\ file.ended <=> at \notin {"rest", "newline"}
         /\ at = "rest" => fresh
<1>1. \A f \in Splits : left[f] = 0
  <2>1. \A f \in Splits : f \in FaultKinds
    BY DEF Splits, FaultKinds
  <2>2. \A f \in Splits : left[f] \in Nat /\ left[f] <= 0
    BY <2>1 DEF Sound, TypeOK
  <2> QED BY <2>2
<1>2. ~ Used("io_in_line") /\ ~ Used("die_in_line") /\ ~ Used("power_in_line")
  BY <1>1 DEF Used, Splits
<1> QED BY <1>1, <1>2 DEF Sound, FilesSound, JournalWhole

\* The empty directory is the empty store.
LEMMA InitImplements == Init => Abstract!Init
<1>1. Pending(<<>>) = {}
  BY EmptySeq DEF Pending
<1> QED BY <1>1 DEF Init, EmptyFile, Abstract!Init, Abstract!Store!Empty

\* Each step of the files is a step of the store, or none.
LEMMA StepImplements ==
  ASSUME Sound, [Next]_vars, \A f \in Splits : Faults[f] = 0
  PROVE  [Abstract!Next]_(Abstract!vars)
<1> DEFINE saved == record["snapshot"]
           journal == Pending(file.lines)
<1>0. /\ TypeOK /\ CallsFollow /\ WritesFollow
      /\ file.lines \in Seq(Lines) /\ Len(file.lines) \in Nat /\ Torn \in Lines
      /\ file.lines # <<>> <=> Len(file.lines) > 0
      /\ record \in [Records -> Content]
      /\ op # None => op \in Abstract!Ops
      /\ op = None <=> at = "idle"
  BY LinesFacts DEF Sound, FilesSound, TypeOK, Files, Lines
<1>1. /\ \A f \in Splits : left[f] = 0
      /\ file.ended <=> at \notin {"rest", "newline"}
      /\ at = "rest" => fresh
  BY NothingSplit
<1>2. ASSUME UNCHANGED <<saved, journal, op, Done, answer>>
      PROVE  [Abstract!Next]_(Abstract!vars)
  BY <1>2 DEF Abstract!vars, Done
<1>3. ASSUME NEW a, Return(a), UNCHANGED <<record, file>>
      PROVE  Abstract!Return(a)
  BY <1>3 DEF Return, Abstract!Return, Abstract!Store!Keep
<1>4. ASSUME NEW o \in Abstract!Ops, Call(o) PROVE Abstract!Next
  <2>1. /\ op = None /\ op' = o /\ answer' = Abstract!Nothing /\ UNCHANGED <<record, file>>
        /\ at' = FirstCall[o.kind]
    BY <1>4 DEF Call
  <2>2. ~ Done'
    BY <2>1, FirstCallFacts DEF Done
  <2>3. Abstract!Call(o)
    BY <2>1, <2>2 DEF Done, Abstract!Call, Abstract!Store!Keep
  <2> QED BY <2>3 DEF Abstract!Next
<1>5. ASSUME Load PROVE [Abstract!Next]_(Abstract!vars)
  <2>1. UNCHANGED disk /\ at = "load" /\ op # None
    BY <1>0, <1>5 DEF Load
  <2>2. CASE ReturnError
    <3>1. Abstract!Fail
      BY <1>3, <2>1, <2>2 DEF ReturnError, Abstract!Fail
    <3> QED BY <3>1 DEF Abstract!Next
  <2>3. CASE \E s \in [1..Cardinality(Pending(file.lines)) -> Pending(file.lines)] :
               Abstract!Store!IsLoaded(s) /\ op.kind = "load"
                 /\ Return(Abstract!Loaded(record["snapshot"], s))
    <3>1. PICK s \in [1..Cardinality(Pending(file.lines)) -> Pending(file.lines)] :
            Abstract!Store!IsLoaded(s) /\ op.kind = "load"
              /\ Return(Abstract!Loaded(record["snapshot"], s))
      BY <2>3
    <3>2. op = Abstract!LoadOp
      BY <1>0, <2>1, <3>1, OpKinds
    <3>3. Abstract!Return(Abstract!Loaded(record["snapshot"], s))
      BY <1>3, <2>1, <3>1
    <3>4. \E t \in [1..Cardinality(Pending(file.lines)) -> Pending(file.lines)] :
            Abstract!Store!IsLoaded(t) /\ Abstract!Return(Abstract!Loaded(record["snapshot"], t))
      BY <3>1, <3>3, Zenon
    <3>5. Abstract!Succeed
      <4>1. \A S : Abstract!Cardinality(S) = Cardinality(S)
        BY Zenon DEF Cardinality, Abstract!Cardinality
      <4> QED BY <2>1, <3>2, <3>4, <4>1 DEF Abstract!Succeed
    <3> QED BY <3>5 DEF Abstract!Next
  <2>4. CASE at' = "create" /\ UNCHANGED <<op, answer>>
    BY <1>2, <2>1, <2>4 DEF Done
  <2> QED BY <1>5, <2>2, <2>3, <2>4 DEF Load
<1>6. ASSUME WritePiece PROVE [Abstract!Next]_(Abstract!vars)
  <2>1. /\ at = "write" /\ file.ended /\ file'.lines = Append(file.lines, Torn)
        /\ at' = "rest" /\ UNCHANGED <<record, op, answer>>
    BY <1>1, <1>6 DEF WritePiece, Proceed
  <2> DEFINE M == Append(file.lines, Torn)
             n == Len(file.lines) + 1
  <2>2. /\ M \in Seq(Lines) /\ Len(M) = n /\ n \in Nat /\ n > 0 /\ M[n] = Torn
        /\ \A i \in 1..(n - 1) : M[i] = file.lines[i]
        /\ Len(file.lines) = n - 1
    BY <1>0, ChangedLines
  <2> HIDE DEF M, n
  <2>3. Pending(M) = Pending(file.lines)
    BY <1>0, <2>2, PendingLines
  <2>4. file'.lines = M
    BY <2>1 DEF M
  <2> QED BY <1>2, <2>1, <2>3, <2>4 DEF Done
<1>7. ASSUME WriteRest PROVE [Abstract!Next]_(Abstract!vars)
  <2>1. /\ op # None /\ op.kind \in {"append", "ack"} /\ file.lines # <<>>
        /\ file.lines[Len(file.lines)] = Torn /\ Line \in Lines
        /\ at = "rest" /\ fresh /\ file' = [file EXCEPT !.lines = LastLine(Line)]
        /\ at' = "newline" /\ UNCHANGED <<record, op, answer>>
    BY <1>0, <1>1, <1>7, LineFacts DEF WriteRest, Proceed, CallsFollow, WritesFollow
  <2> DEFINE M == LastLine(Line)
             n == Len(file.lines)
  <2>2. /\ M \in Seq(Lines) /\ Len(M) = n /\ n \in Nat /\ n > 0 /\ M[n] = Line
        /\ \A i \in 1..(n - 1) : M[i] = file.lines[i] /\ file.lines[n] = Torn
    BY <1>0, <2>1, ChangedLines DEF LastLine
  <2>3. file'.lines = M
    BY <1>0, <2>1 DEF TypeOK, Files
  <2>4. n = Len(file.lines) /\ file.lines[n] = Torn
    BY <2>1
  <2> HIDE DEF M, n
  <2>5. /\ \A m \in Mutations : M[n] = AppendLine(m) =>
             Pending(M) = {k \in journal : k.id # m.id} \cup {m}
        /\ \A i \in Ids : M[n] = AckLine(i) => Pending(M) = {k \in journal : k.id # i}
    BY <1>0, <2>2, <2>4, PendingLines
  <2>6. /\ op.kind = "append" => Abstract!Store!AppendMutation(op.mutation)
        /\ op.kind = "ack" => Abstract!Store!AcknowledgeMutation(op.id)
    BY <1>0, <2>1, <2>2, <2>3, <2>5, LineFacts
       DEF Abstract!Store!AppendMutation, Abstract!Store!AcknowledgeMutation
  <2>7. Abstract!Effect
    BY <2>1, <2>6 DEF Abstract!Effect
  <2> QED BY <2>7 DEF Abstract!Next
<1>8. ASSUME WriteLineFeed \/ SyncLine PROVE [Abstract!Next]_(Abstract!vars)
  <2>1. /\ at \in {"newline", "sync"} /\ at' \in {"sync", "chmod"} /\ file'.lines = file.lines
        /\ UNCHANGED <<record, op, answer>>
    BY <1>0, <1>8 DEF WriteLineFeed, SyncLine, Proceed, TypeOK, Files
  <2> QED BY <1>2, <2>1 DEF Done
<1>9. ASSUME Appended PROVE Abstract!Next
  <2>1. /\ op # None /\ op.kind \in {"append", "ack"} /\ at = "chmod" /\ UNCHANGED disk
        /\ Return(Abstract!Ok)
    BY <1>0, <1>9 DEF Appended, CallsFollow, ReturnOk
  <2>2. Abstract!Succeed
    BY <1>3, <2>1 DEF Abstract!Succeed
  <2> QED BY <2>2 DEF Abstract!Next
<1>10. ASSUME CreateTmp \/ FillTmp \/ SyncTmp PROVE [Abstract!Next]_(Abstract!vars)
  <2>1. /\ at \in {"create", "fill", "flush"} /\ at' \in {"fill", "flush", "rename"}
        /\ UNCHANGED <<record, file, op, answer>>
    BY <1>10 DEF CreateTmp, FillTmp, SyncTmp, Proceed
  <2> QED BY <1>2, <2>1 DEF Done
<1>11. ASSUME Rename PROVE [Abstract!Next]_(Abstract!vars)
  <2>1. /\ op # None /\ op.kind \in Records \cup {"compact"} /\ at = "rename" /\ at' = "syncdir"
        /\ UNCHANGED <<op, answer>>
    BY <1>0, <1>11 DEF Rename, Proceed, CallsFollow
  <2>2. CASE op.kind = "compact"
    <3>1. file'.lines = tmp.content /\ UNCHANGED record
      BY <1>11, <2>2 DEF Rename, RenameJournal
    <3>2. Pending(tmp.content) = Pending(file.lines)
      BY <1>0, <2>1, <2>2 DEF WritesFollow
    <3> QED BY <1>2, <2>1, <2>2, <3>1, <3>2 DEF Done
  <2>3. CASE op.kind \in Records
    <3>1. record' = [record EXCEPT ![op.kind] = op.value] /\ UNCHANGED file
      BY <1>0, <1>11, <2>1, <2>3 DEF Rename, RenameRecord, WritesFollow
    <3>2. CASE op.kind = "snapshot"
      <4>1. record'["snapshot"] = op.value
        BY <1>0, <3>1, <3>2
      <4>2. Abstract!Store!StoreSnapshot(op.value)
        BY <3>1, <4>1 DEF Abstract!Store!StoreSnapshot
      <4>3. Abstract!Effect
        BY <2>1, <3>2, <4>2 DEF Abstract!Effect
      <4> QED BY <4>3 DEF Abstract!Next
    <3>3. CASE op.kind = "metadata"
      <4>1. record'["snapshot"] = record["snapshot"]
        BY <1>0, <3>1, <3>3
      <4> QED BY <1>2, <2>1, <3>1, <3>3, <4>1 DEF Done
    <3> QED BY <2>3, <3>2, <3>3
  <2> QED BY <2>1, <2>2, <2>3
<1>12. ASSUME SyncDirectory PROVE Abstract!Next
  <2>1. /\ op # None /\ op.kind \in Records \cup {"compact"} /\ at = "syncdir"
        /\ UNCHANGED <<record, file>> /\ Return(Abstract!Ok)
    BY <1>0, <1>12 DEF SyncDirectory, CallsFollow, ReturnOk
  <2>2. Abstract!Return(Abstract!Ok)
    BY <1>3, <2>1
  <2>3. Abstract!Succeed
    BY <2>1, <2>2 DEF Abstract!Succeed, Abstract!Unseen
  <2> QED BY <2>3 DEF Abstract!Next
<1>13. ASSUME NEW r \in Records, UnlinkRecord(r) PROVE [Abstract!Next]_(Abstract!vars)
  <2>1. /\ op = Abstract!ClearOp /\ at = "unlink" /\ at' = "unlink"
        /\ record' = [record EXCEPT ![r] = None] /\ UNCHANGED <<file, op, answer>>
    BY <1>0, <1>13, OpKinds DEF UnlinkRecord, Proceed, CallsFollow
  <2>2. record'["snapshot"] \in {record["snapshot"], None}
    BY <1>0, <2>1
  <2>3. Abstract!ClearEffect
    BY <2>1, <2>2 DEF Abstract!ClearEffect
  <2> QED BY <2>3 DEF Abstract!Next
<1>14. ASSUME UnlinkJournal PROVE [Abstract!Next]_(Abstract!vars)
  <2>1. /\ op = Abstract!ClearOp /\ at = "unlink" /\ at' = "unlink"
        /\ file'.lines = <<>> /\ UNCHANGED <<record, op, answer>>
    BY <1>0, <1>14, OpKinds DEF UnlinkJournal, EmptyFile, Proceed, CallsFollow
  <2>2. Pending(file'.lines) = {}
    BY <2>1, EmptySeq DEF Pending
  <2>3. Abstract!ClearEffect
    BY <2>1, <2>2 DEF Abstract!ClearEffect
  <2> QED BY <2>3 DEF Abstract!Next
<1>15. ASSUME Cleared PROVE Abstract!Next
  <2>1. /\ op # None /\ op = Abstract!ClearOp /\ at = "unlink" /\ UNCHANGED disk
        /\ record["snapshot"] = None /\ file.lines = <<>> /\ Return(Abstract!Ok)
    BY <1>0, <1>15, OpKinds DEF Cleared, EmptyFile, CallsFollow, ReturnOk
  <2>2. Pending(file.lines) = {}
    BY <2>1, EmptySeq DEF Pending
  <2>3. Abstract!Succeed
    BY <1>3, <2>1, <2>2 DEF Abstract!Succeed
  <2> QED BY <2>3 DEF Abstract!Next
<1>16. ASSUME IoError PROVE Abstract!Next
  <2>1. op # None /\ UNCHANGED disk /\ Return(Abstract!Error)
    BY <1>16 DEF IoError, ReturnError
  <2>2. Abstract!Fail
    BY <1>3, <2>1 DEF Abstract!Fail
  <2> QED BY <2>2 DEF Abstract!Next
<1>17. ASSUME Die PROVE Abstract!Next
  <2>1. UNCHANGED disk /\ Return(Abstract!Nothing)
    BY <1>17 DEF Die, Restarted
  <2>2. Abstract!Die
    BY <1>3, <2>1 DEF Abstract!Die
  <2> QED BY <2>2 DEF Abstract!Next
<1>18. ~ LosePower
  BY <1>1 DEF LosePower, Fault, Splits
<1>19. CASE UNCHANGED vars
  BY <1>2, <1>19 DEF vars, call, Done
<1> QED BY <1>4, <1>5, <1>6, <1>7, <1>8, <1>9, <1>10, <1>11, <1>12, <1>13, <1>14, <1>15, <1>16,
           <1>17, <1>18, <1>19 DEF Next, AppendLineCalls, WriteAtomicCalls, Clear

\* The journal's and the snapshot's files implement the atomic store the engine is
\* composed with: through errors and deaths between two system calls, and whatever the
\* number of operations, each takes effect at one instant or not at all.
THEOREM FilesImplementStore ==
  ASSUME \A f \in Splits : Faults[f] = 0
  PROVE  Spec => Implements
<1>1. Sound /\ [Next]_vars => [Abstract!Next]_(Abstract!vars)
  BY StepImplements
<1> QED BY <1>1, InitImplements, AlwaysSound, PTL DEF Spec, Implements, Abstract!Spec

=============================================================================
