--------------------------- MODULE SyncEngineProofs ---------------------------
(***************************************************************************)
(* What the operators of RtdbValue and the helpers of SyncEngine return,   *)
(* the type invariant of the engine, that no accepted write is lost        *)
(* (AcceptedNotLost) and that a connected task has settled them all        *)
(* (ConnectedIsSettled): for every set of calls and of writes, every       *)
(* configuration and any number of faults.                                 *)
(***************************************************************************)
EXTENDS SyncEngine, SequenceFacts, FiniteSetTheorems

-----------------------------------------------------------------------------
(* apply_event, the removals from the two pending lists, the next id. *)

\* What an event carries are values of children of the handle's path.
LEMMA EventData ==
  ASSUME NEW e \in Event
  PROVE  DOMAIN e.data \subseteq Keys /\ \A k \in DOMAIN e.data : e.data[k] \in Vals
BY DEF Event, Data

\* apply_event maps a tree to a tree.
LEMMA ApplyEventType ==
  ASSUME NEW t \in Tree, NEW e \in Event
  PROVE  ApplyEvent(t, e) \in Tree
BY EventData DEF ApplyEvent, Touches, Tree

\* Value::Null is a tree.
LEMMA NullTreeType == NullTree \in Tree
BY ValueAssumption DEF NullTree, Tree

\* An event is still one when the stream spells its path.
LEMMA SpelledType ==
  ASSUME NEW e \in Event
  PROVE  Spelled(e, "stream") \in Event
BY DEF Spelled, Event, Spellings

\* The initial event of a stream is an event.
LEMMA PutRootType ==
  ASSUME NEW t \in Tree
  PROVE  PutRoot(t) \in Event
<1>1. t \in Data
  BY DEF Tree, Data
<1> QED BY <1>1 DEF PutRoot, Event, Paths, Spellings

\* Removing a mutation by its id leaves a list of mutations.
LEMMA WithoutType ==
  ASSUME NEW s \in Seq(Mutation), NEW id
  PROVE  Without(s, id) \in Seq(Mutation)
<1>1. CASE \E i \in DOMAIN s : s[i].id = id
  <2> DEFINE k == CHOOSE i \in DOMAIN s : s[i].id = id
  <2>1. k \in DOMAIN s
    BY <1>1
  <2>2. k \in 1..Len(s)
    BY <2>1, LenProperties
  <2>3. Without(s, id) = RemoveAt(s, k)
    BY <1>1 DEF Without
  <2> HIDE DEF k
  <2> QED BY <2>2, <2>3, RemoveAtProperties
<1>2. CASE ~ \E i \in DOMAIN s : s[i].id = id
  BY <1>2 DEF Without
<1> QED BY <1>1, <1>2

\* Removing the first entry equivalent to an event leaves a list of events.
LEMMA WithoutEventType ==
  ASSUME NEW s \in Seq(Event), NEW e
  PROVE  WithoutEvent(s, e) \in Seq(Event)
<1>1. CASE \E i \in DOMAIN s : s[i] = e
  <2> DEFINE First(i) == s[i] = e /\ \A j \in DOMAIN s : j < i => s[j] # e
             T == {i \in DOMAIN s : s[i] = e}
             k == CHOOSE i \in DOMAIN s : First(i)
  <2>1. DOMAIN s = 1..Len(s) /\ Len(s) \in Nat
    BY LenProperties
  <2>2. PICK i \in T : \A j \in T : i <= j
    <3>1. T \in SUBSET Nat /\ T # {}
      BY <1>1, <2>1
    <3> HIDE DEF T
    <3> QED BY <3>1, LeastElement
  <2>3. i \in DOMAIN s /\ First(i)
    <3>1. ASSUME NEW j \in DOMAIN s, j < i PROVE s[j] # e
      <4>1. ~ (i <= j)
        BY <2>1, <3>1
      <4> QED BY <2>2, <4>1
    <3> QED BY <2>2, <3>1
  <2>4. k \in DOMAIN s
    BY <2>3
  <2>5. WithoutEvent(s, e) = RemoveAt(s, k)
    BY <1>1 DEF WithoutEvent
  <2> HIDE DEF k
  <2> QED BY <2>1, <2>4, <2>5, RemoveAtProperties
<1>2. CASE ~ \E i \in DOMAIN s : s[i] = e
  BY <1>2 DEF WithoutEvent
<1> QED BY <1>1, <1>2

\* The id of a new mutation is the least that exceeds every id the task holds.
LEMMA NextIdProperties ==
  ASSUME durable \in Seq(Mutation)
  PROVE  /\ NextId \in Nat /\ NextId > 0
         /\ \A i \in DOMAIN durable : durable[i].id < NextId
         /\ \A n \in Nat :
              n > 0 /\ (\A i \in DOMAIN durable : durable[i].id < n) => NextId <= n
<1> DEFINE f == [i \in 1..Len(durable) |-> durable[i].id]
           M == Max({0} \cup Ids(durable))
<1>1. Len(durable) \in Nat /\ DOMAIN durable = 1..Len(durable)
  BY LenProperties
<1>6. ASSUME NEW i \in DOMAIN durable PROVE durable[i].id \in Nat
  <2>1. durable[i] \in Mutation
    BY <1>1, ElementOfSeq
  <2> QED BY <2>1 DEF Mutation
<1>2. f \in [1..Len(durable) -> Nat]
  BY <1>1, <1>6
<1>3. {0} \cup Ids(durable) = {0} \cup {f[i] : i \in 1..Len(durable)}
  BY <1>1 DEF Ids
<1>4. M \in Nat /\ M \in {0} \cup Ids(durable) /\ \A x \in {0} \cup Ids(durable) : x <= M
  <2> HIDE DEF f
  <2> QED BY <1>1, <1>2, <1>3, Maximum
<1>5. \A i \in DOMAIN durable : durable[i].id \in {0} \cup Ids(durable)
  BY DEF Ids
<1>8. M = 0 \/ \E i \in DOMAIN durable : M = durable[i].id
  BY <1>4 DEF Ids
<1> HIDE DEF M
<1>7. NextId = M + 1
  BY DEF NextId, M
<1>9. ASSUME NEW n \in Nat, n > 0, \A i \in DOMAIN durable : durable[i].id < n
      PROVE  NextId <= n
  BY <1>4, <1>7, <1>8, <1>9
<1> QED BY <1>4, <1>5, <1>6, <1>7, <1>9
-----------------------------------------------------------------------------
(* Lists of mutations in the order of their ids. *)

\* The id of an entry of durable_pending names it.
LEMMA IdsNameEntries ==
  ASSUME NEW s \in Seq(Mutation), Increasing(s),
         NEW i \in DOMAIN s, NEW j \in DOMAIN s, s[i].id = s[j].id
  PROVE  i = j
<1>1. DOMAIN s = 1..Len(s) /\ Len(s) \in Nat
  BY LenProperties
<1>2. s[i].id \in Nat /\ s[j].id \in Nat
  <2>1. s[i] \in Mutation /\ s[j] \in Mutation
    BY <1>1, ElementOfSeq
  <2> QED BY <2>1 DEF Mutation
<1>3. ~ (i < j) /\ ~ (j < i)
  BY <1>2 DEF Increasing
<1> QED BY <1>1, <1>3

\* durable_pending.remove of the entry with an id keeps the order and every
\* other entry, and nothing else.
LEMMA WithoutProperties ==
  ASSUME NEW s \in Seq(Mutation), Increasing(s), NEW id
  PROVE  /\ Increasing(Without(s, id))
         /\ \A i \in DOMAIN s : s[i].id # id =>
              \E j \in DOMAIN Without(s, id) : Without(s, id)[j] = s[i]
         /\ \A j \in DOMAIN Without(s, id) :
              \E i \in DOMAIN s : Without(s, id)[j] = s[i] /\ s[i].id # id
         /\ Len(Without(s, id)) <= Len(s)
<1>0. DOMAIN s = 1..Len(s) /\ Len(s) \in Nat
  BY LenProperties
<1>1. CASE \E i \in DOMAIN s : s[i].id = id
  <2> DEFINE k == CHOOSE i \in DOMAIN s : s[i].id = id
             r == RemoveAt(s, k)
  <2>1. k \in 1..Len(s) /\ s[k].id = id
    BY <1>0, <1>1
  <2>2. Without(s, id) = r
    BY <1>1 DEF Without
  <2> HIDE DEF k
  <2>3. /\ r \in Seq(Mutation) /\ Len(r) = Len(s) - 1
        /\ \A j \in 1..(Len(s) - 1) : r[j] = IF j < k THEN s[j] ELSE s[j + 1]
    BY <2>1, RemoveAtProperties
  <2> HIDE DEF r
  <2> DEFINE p(n) == IF n < k THEN n ELSE n + 1
  <2>4. DOMAIN r = 1..(Len(s) - 1)
    BY <2>3, LenProperties
  <2>5. ASSUME NEW j \in DOMAIN r PROVE p(j) \in DOMAIN s /\ p(j) # k /\ r[j] = s[p(j)]
    BY <1>0, <2>1, <2>3, <2>4
  <2>6. ASSUME NEW i \in DOMAIN r, NEW j \in DOMAIN r, i < j PROVE r[i].id < r[j].id
    <3>1. p(i) < p(j)
      BY <1>0, <2>1, <2>4, <2>6
    <3> HIDE DEF p
    <3> QED BY <2>5, <3>1 DEF Increasing
  <2>7. ASSUME NEW i \in DOMAIN s, s[i].id # id PROVE \E j \in DOMAIN r : r[j] = s[i]
    <3>1. i # k /\ i \in 1..Len(s)
      BY <1>0, <2>1, <2>7
    <3>2. CASE i < k
      BY <1>0, <2>1, <2>3, <2>4, <3>1, <3>2
    <3>3. CASE i > k
      <4>1. i - 1 \in 1..(Len(s) - 1) /\ ~ (i - 1 < k) /\ i - 1 + 1 = i
        BY <1>0, <2>1, <3>1, <3>3
      <4> QED BY <2>3, <2>4, <4>1
    <3> QED BY <1>0, <2>1, <3>1, <3>2, <3>3
  <2>8. ASSUME NEW j \in DOMAIN r PROVE s[p(j)].id # id
    <3> HIDE DEF p
    <3> QED BY <1>0, <2>1, <2>5, IdsNameEntries
  <2>9. Len(r) <= Len(s)
    BY <1>0, <2>3
  <2> HIDE DEF p
  <2> QED BY <2>2, <2>5, <2>6, <2>7, <2>8, <2>9 DEF Increasing
<1>2. CASE ~ \E i \in DOMAIN s : s[i].id = id
  BY <1>0, <1>2 DEF Without
<1> QED BY <1>1, <1>2

\* The mutations that stay are those with another id.
LEMMA WithoutSet ==
  ASSUME NEW s \in Seq(Mutation), Increasing(s), NEW id
  PROVE  ToSet(Without(s, id)) = {m \in ToSet(s) : m.id # id}
<1> DEFINE r == Without(s, id)
<1>1. /\ \A i \in DOMAIN s : s[i].id # id => \E j \in DOMAIN r : r[j] = s[i]
      /\ \A j \in DOMAIN r : \E i \in DOMAIN s : r[j] = s[i] /\ s[i].id # id
  BY WithoutProperties
<1> HIDE DEF r
<1>2. ToSet(r) = {m \in ToSet(s) : m.id # id}
  BY <1>1 DEF ToSet
<1> QED BY <1>2 DEF r

\* The loop of replay_pending removes the entry it has just sent.
LEMMA WithoutHead ==
  ASSUME NEW s \in Seq(Mutation), Increasing(s), s # <<>>
  PROVE  Without(s, Head(s).id) = Tail(s)
<1>0. DOMAIN s = 1..Len(s) /\ Len(s) \in Nat /\ Len(s) > 0 /\ Head(s) = s[1]
  BY LenProperties, EmptySeq, HeadTailProperties
<1> DEFINE k == CHOOSE i \in DOMAIN s : s[i].id = s[1].id
<1>1. k \in DOMAIN s /\ s[k].id = s[1].id
  <2>1. 1 \in DOMAIN s
    BY <1>0
  <2> QED BY <2>1
<1>2. Without(s, Head(s).id) = RemoveAt(s, k)
  BY <1>0, <1>1 DEF Without
<1> HIDE DEF k
<1>3. k = 1
  BY <1>0, <1>1, IdsNameEntries
<1>4. /\ RemoveAt(s, 1) \in Seq(Mutation) /\ Len(RemoveAt(s, 1)) = Len(s) - 1
      /\ \A j \in 1..(Len(s) - 1) : RemoveAt(s, 1)[j] = s[j + 1]
  <2>1. 1 \in 1..Len(s)
    BY <1>0
  <2> QED BY <2>1, RemoveAtProperties
<1>5. /\ Tail(s) \in Seq(Mutation) /\ Len(Tail(s)) = Len(s) - 1
      /\ \A j \in 1..(Len(s) - 1) : Tail(s)[j] = s[j + 1]
  BY <1>0, HeadTailProperties
<1>6. RemoveAt(s, 1) = Tail(s)
  BY <1>4, <1>5, SeqEqual
<1> QED BY <1>2, <1>3, <1>6

\* So does what is left of a list without its first entry.
LEMMA TailProperties ==
  ASSUME NEW s \in Seq(Mutation), Increasing(s), s # <<>>
  PROVE  /\ Increasing(Tail(s))
         /\ \A i \in DOMAIN Tail(s) : /\ Tail(s)[i].id # Head(s).id
                                      /\ \E j \in DOMAIN s : s[j] = Tail(s)[i]
<1>0. DOMAIN s = 1..Len(s) /\ Len(s) \in Nat /\ Len(s) > 0 /\ Head(s) = s[1]
  BY LenProperties, EmptySeq, HeadTailProperties
<1>1. /\ DOMAIN Tail(s) = 1..(Len(s) - 1)
      /\ \A j \in 1..(Len(s) - 1) : Tail(s)[j] = s[j + 1]
  BY <1>0, HeadTailProperties, LenProperties
<1>2. ASSUME NEW i \in DOMAIN Tail(s)
      PROVE  /\ i + 1 \in DOMAIN s /\ Tail(s)[i] = s[i + 1]
             /\ s[i + 1].id # s[1].id
  <2>1. i + 1 \in DOMAIN s /\ 1 \in DOMAIN s /\ i + 1 # 1
    BY <1>0, <1>1
  <2>2. s[i + 1].id # s[1].id
    BY <2>1, IdsNameEntries
  <2> QED BY <1>1, <2>1, <2>2
<1>3. ASSUME NEW i \in DOMAIN Tail(s), NEW j \in DOMAIN Tail(s), i < j
      PROVE  Tail(s)[i].id < Tail(s)[j].id
  <2>1. i + 1 < j + 1
    BY <1>1, <1>3
  <2> QED BY <1>2, <2>1 DEF Increasing
<1> QED BY <1>0, <1>2, <1>3 DEF Increasing

\* A mutation with a new id goes at the end of the list.
LEMMA AppendIncreasing ==
  ASSUME NEW s \in Seq(Mutation), Increasing(s), NEW m \in Mutation,
         \A i \in DOMAIN s : s[i].id < m.id
  PROVE  /\ Increasing(Append(s, m))
         /\ \A i \in DOMAIN s : \E j \in DOMAIN Append(s, m) : Append(s, m)[j] = s[i]
         /\ \E j \in DOMAIN Append(s, m) : Append(s, m)[j] = m
<1> DEFINE a == Append(s, m)
<1>0. DOMAIN s = 1..Len(s) /\ Len(s) \in Nat
  BY LenProperties
<1>1. /\ DOMAIN a = 1..(Len(s) + 1)
      /\ \A i \in 1..Len(s) : a[i] = s[i]
      /\ a[Len(s) + 1] = m
  BY <1>0, AppendProperties, LenProperties
<1> HIDE DEF a
<1>2. ASSUME NEW i \in DOMAIN a, NEW j \in DOMAIN a, i < j PROVE a[i].id < a[j].id
  <2>1. i \in DOMAIN s /\ (j \in DOMAIN s \/ j = Len(s) + 1)
    BY <1>0, <1>1, <1>2
  <2> QED BY <1>0, <1>1, <1>2, <2>1 DEF Increasing
<1>3. Increasing(a)
  BY <1>2 DEF Increasing
<1>4. \A i \in DOMAIN s : i \in DOMAIN a /\ a[i] = s[i]
  BY <1>0, <1>1
<1>5. Len(s) + 1 \in DOMAIN a
  BY <1>0, <1>1
<1> QED BY <1>1, <1>3, <1>4, <1>5 DEF a
-----------------------------------------------------------------------------
(* The type invariant: one lemma per group of actions of SyncEngine.       *)
(* Beyond types it says that a replay always has a mutation to send and    *)
(* that a write always has its locals.                                     *)

USE DEF fixed, client, store, world, replica, restore, history, task, outside,
        PCs, WritePCs, OfflinePCs, ReplayPCs, Status

\* The store's share of TypeOK.
StoreOK == /\ saved \in Tree \cup {None}
           /\ journal \subseteq Mutation /\ IsFiniteSet(journal)

\* Storing a snapshot leaves a well-typed store.
LEMMA SnapshotType ==
  ASSUME TypeOK, NEW t \in Tree, Store!StoreSnapshot(t) PROVE StoreOK'
BY DEF TypeOK, StoreOK, Store!StoreSnapshot

\* Appending a mutation leaves a finite journal of mutations.
LEMMA AppendType ==
  ASSUME TypeOK, NEW m \in Mutation, Store!AppendMutation(m) PROVE StoreOK'
<1>1. {n \in journal : n.id # m.id} \in SUBSET journal
  OBVIOUS
<1>2. IsFiniteSet({n \in journal : n.id # m.id})
  BY <1>1, FS_Subset DEF TypeOK
<1>3. IsFiniteSet(journal')
  BY <1>2, FS_AddElement DEF Store!AppendMutation
<1> QED BY <1>1, <1>3 DEF TypeOK, StoreOK, Store!AppendMutation

\* So does acknowledging one.
LEMMA AckType ==
  ASSUME TypeOK, NEW id, Store!AcknowledgeMutation(id) PROVE StoreOK'
<1>1. {n \in journal : n.id # id} \in SUBSET journal
  OBVIOUS
<1>2. IsFiniteSet(journal')
  BY <1>1, FS_Subset DEF TypeOK, Store!AcknowledgeMutation
<1> QED BY <1>1, <1>2 DEF TypeOK, StoreOK, Store!AcknowledgeMutation

\* So does an operation that fails without effect.
LEMMA KeepType ==
  ASSUME TypeOK, UNCHANGED <<saved, journal>> PROVE StoreOK'
BY DEF TypeOK, StoreOK

\* A fault leaves a count for every kind of fault.
LEMMA FaultType ==
  ASSUME TypeOK, NEW f \in FaultKinds, Fault(f) PROVE left' \in [FaultKinds -> Nat]
BY DEF TypeOK, Fault

\* The database accepts a write, and its stream carries the echo.
LEMMA AcceptType ==
  ASSUME TypeOK, NEW e \in Event, Remote!Accept(e)
  PROVE  remote' \in Tree /\ open' = open /\ stream' \in Seq(Event)
<1>1. ApplyEvent(remote, e) \in Tree /\ Spelled(e, "stream") \in Event
  BY ApplyEventType, SpelledType DEF TypeOK
<1>2. remote' = ApplyEvent(remote, e)
  BY DEF Remote!Accept, Remote!ApplyEvent, Remote!Touches, ApplyEvent, Touches
<1>3. stream' = IF open THEN Append(stream, Spelled(e, "stream")) ELSE stream
  BY DEF Remote!Accept, Remote!Spelled, Spelled
<1>4. stream' \in Seq(Event)
  BY <1>1, <1>3, AppendProperties DEF TypeOK
<1> QED BY <1>1, <1>2, <1>4 DEF Remote!Accept

\* Likewise for a write of this handle, which the history counts.
LEMMA DeliverType ==
  ASSUME TypeOK, NEW c \in Calls, NEW e \in Event, Deliver(c, e)
  PROVE  /\ remote' \in Tree /\ open' \in BOOLEAN /\ stream' \in Seq(Event)
         /\ delivered' \in [Calls -> Nat] /\ dropped' \subseteq Calls
BY AcceptType DEF TypeOK, Deliver

\* The task returns: its locals are gone, the callers are answered.
LEMMA TerminateType ==
  ASSUME TypeOK, NEW st \in Status, Terminate(st),
         StoreOK', dropped' \subseteq Calls, left' \in [FaultKinds -> Nat]
  PROVE  TypeOK'
<1>1. call' \in [Calls -> CallState]
  BY DEF TypeOK, Terminate, CallState, Answers
<1>2. /\ pending' = <<>> /\ durable' = <<>> /\ todo' = <<>> /\ queue' = <<>>
      /\ base' = None /\ conflicted' = FALSE /\ cur' = None
      /\ verdict' = "Stopped" /\ attempt' = 0 /\ config' = config
      /\ open' = FALSE /\ stream' = <<>> /\ remote' = remote
  BY DEF Terminate, Release, Remote!Close
<1>3. /\ pc' = "done" /\ status' = st /\ tree' = tree /\ cancelled' = cancelled
      /\ delivered' = delivered
  BY DEF Terminate
<1>4. /\ pending' \in Seq(Event) /\ durable' \in Seq(Mutation)
      /\ todo' \in Seq(Mutation) /\ stream' \in Seq(Event)
      /\ queue' \in Seq([call : Calls, ev : Event])
  BY <1>2
<1>5. attempt' \in 0..AttemptCap
  BY <1>2, EngineAssumption
<1>6. pc' \in PCs /\ pc' \notin ReplayPCs /\ pc' \notin WritePCs \cup OfflinePCs
  BY <1>3
<1> QED BY <1>1, <1>2, <1>3, <1>4, <1>5, <1>6 DEF TypeOK, StoreOK

\* It returns with an error that leaves the store alone.
LEMMA FailType ==
  ASSUME TypeOK, Fail, left' \in [FaultKinds -> Nat] PROVE TypeOK'
<1>1. StoreOK' /\ dropped' \subseteq Calls
  BY KeepType DEF Fail, TypeOK
<1> QED BY <1>1, TerminateType DEF Fail

-----------------------------------------------------------------------------

\* The attempt counter saturates at its bound.
LEMMA NextAttemptType ==
  ASSUME TypeOK PROVE NextAttempt \in 0..AttemptCap /\ 0 \in 0..AttemptCap
BY EngineAssumption DEF TypeOK, NextAttempt

\* An answer is one of a call's states.
LEMMA ReplyType ==
  ASSUME TypeOK, NEW c \in Calls, NEW a \in Answers, Reply(c, a)
  PROVE  call' \in [Calls -> CallState]
BY DEF TypeOK, Reply, CallState

\* Starting, with or without a store.
LEMMA LoadType ==
  ASSUME TypeOK, Load PROVE TypeOK'
<1>1. CASE Misconfigured
  BY <1>1, FailType DEF Misconfigured, NoFault, TypeOK
<1>2. CASE StartUnstored
  BY <1>2 DEF StartUnstored, TypeOK
<1>3. CASE Restore
  <2>1. PICK s \in [1..Cardinality(journal) -> journal] :
          /\ durable' = s
          /\ pending' = [i \in DOMAIN s |-> s[i].ev]
    BY <1>3 DEF Restore
  <2>2. Cardinality(journal) \in Nat /\ journal \subseteq Mutation
    BY FS_CardinalityType DEF TypeOK
  <2>3. s \in Seq(Mutation)
    BY <2>2
  <2>4. pending' \in Seq(Event)
    <3>1. \A i \in 1..Cardinality(journal) : s[i].ev \in Event
      BY <2>2 DEF Mutation
    <3>2. pending' \in [1..Cardinality(journal) -> Event]
      BY <2>1, <3>1
    <3> QED BY <2>2, <3>2
  <2>5. tree' \in Tree /\ base' \in Tree \cup {None}
    BY <1>3, NullTreeType DEF Restore, TypeOK
  <2> QED BY <1>3, <2>1, <2>3, <2>4, <2>5 DEF Restore, TypeOK
<1>4. CASE RestoreFails
  BY <1>4, FailType, FaultType DEF RestoreFails, FaultKinds
<1> QED BY <1>1, <1>2, <1>3, <1>4 DEF Load

\* retry: another attempt, or the end of the task.
LEMMA RetryType ==
  ASSUME TypeOK, NEW v \in {"Failed", "Stopped"}, Retry(v) PROVE TypeOK'
<1>1. CASE /\ ~Exhausted
           /\ pc' = "backoff" /\ status' = "Reconnecting"
           /\ attempt' = NextAttempt /\ verdict' = v
           /\ NoFault
           /\ UNCHANGED <<config, replica, restore, cur, cancelled, outside>>
  BY <1>1, NextAttemptType DEF NoFault, TypeOK
<1>2. CASE Terminate(v) /\ NoFault /\ UNCHANGED <<store, dropped>>
  BY <1>2, TerminateType, KeepType DEF NoFault, TypeOK
<1>3. CASE Terminate(v) /\ Fault("auth") /\ UNCHANGED <<store, dropped>>
  <2>1. left' \in [FaultKinds -> Nat]
    BY <1>3, FaultType DEF FaultKinds
  <2> QED BY <1>3, <2>1, TerminateType, KeepType DEF TypeOK
<1> QED BY <1>1, <1>2, <1>3 DEF Retry

\* reconnect_or_queue: likewise, or serving writes offline.
LEMMA ReconnectType ==
  ASSUME TypeOK, NEW v \in {"Failed", "Stopped"}, Reconnect(v) PROVE TypeOK'
<1>1. CASE QueueWrites(v)
  BY <1>1, NextAttemptType DEF QueueWrites, NoFault, TypeOK
<1> QED BY <1>1, RetryType DEF Reconnect

\* The end of a delay, and the cancellation branches.
LEMMA WaitingType ==
  ASSUME TypeOK, Waiting PROVE TypeOK'
<1>1. CASE BackedOff
  BY <1>1 DEF BackedOff, TypeOK
<1>2. CASE OfflineDelayOver
  BY <1>2, NextAttemptType DEF OfflineDelayOver, TypeOK
<1>3. CASE QueueDelayOver
  <2>1. left' \in [FaultKinds -> Nat]
    BY <1>3, FaultType DEF QueueDelayOver, NoFault, FaultKinds, TypeOK
  <2> QED BY <1>3, <2>1, NextAttemptType DEF QueueDelayOver, TypeOK
<1>4. CASE Stop
  <2>1. verdict \in Status
    BY DEF TypeOK
  <2> QED BY <1>4, <2>1, TerminateType, KeepType DEF Stop, TypeOK
<1> QED BY <1>1, <1>2, <1>3, <1>4 DEF Waiting

\* get, and the conflicts of a restored journal.
LEMMA HydrateType ==
  ASSUME TypeOK, Hydrate PROVE TypeOK'
<1>0. ASSUME pc = "resolve", todo # <<>>
      PROVE  Head(todo) \in Mutation /\ Tail(todo) \in Seq(Mutation)
  BY <1>0, HeadTailProperties DEF TypeOK
<1>1. CASE Get
  BY <1>1, NextAttemptType DEF Get, TypeOK
<1>2. CASE GetFails
  <2>1. CASE pc' = "offline" /\ status' = "Offline" /\ UNCHANGED <<fixed, task, outside, left>>
    BY <2>1 DEF TypeOK
  <2> QED BY <1>2, <2>1, RetryType DEF GetFails
<1>3. CASE ResolveKeep
  BY <1>0, <1>3 DEF ResolveKeep, TypeOK
<1>4. CASE ResolveDrop
  <2>1. StoreOK'
    BY <1>4, AckType DEF ResolveDrop
  <2>2. durable' \in Seq(Mutation) /\ pending' \in Seq(Event)
    BY <1>4, WithoutType, WithoutEventType DEF ResolveDrop, TypeOK
  <2>3. dropped' \subseteq Calls
    BY <1>0, <1>4 DEF ResolveDrop, Mutation, TypeOK
  <2> QED BY <1>0, <1>4, <2>1, <2>2, <2>3 DEF ResolveDrop, StoreOK, TypeOK
<1>5. CASE ResolveDropFails
  <2>1. StoreOK'
    BY <1>5, AckType, KeepType DEF ResolveDropFails, Store!Keep
  <2>2. dropped' \subseteq Calls
    BY <1>0, <1>5 DEF ResolveDropFails, Mutation, TypeOK
  <2>3. left' \in [FaultKinds -> Nat]
    BY <1>5, FaultType DEF ResolveDropFails, FaultKinds
  <2> QED BY <1>5, <2>1, <2>2, <2>3, TerminateType DEF ResolveDropFails
<1>6. CASE ResolveReject
  <2>1. StoreOK' /\ dropped' \subseteq Calls /\ left' \in [FaultKinds -> Nat]
    BY <1>6, KeepType DEF ResolveReject, NoFault, Fail, TypeOK
  <2> QED BY <1>6, <2>1, TerminateType DEF ResolveReject, Fail
<1>7. CASE Resolved
  BY <1>7 DEF Resolved, TypeOK
<1>8. CASE ResolveCompact
  <2>1. CASE Fail /\ Fault("io")
    BY <2>1, FailType, FaultType DEF FaultKinds
  <2>2. CASE ~ Fail
    BY <1>8, <2>2 DEF ResolveCompact, Store!Compact, Store!Keep, TypeOK
  <2> QED BY <1>8, <2>1, <2>2 DEF ResolveCompact, Store!Compact, Store!Keep, TypeOK
<1>9. CASE Hydrated
  <2>1. StoreOK'
    BY <1>9, SnapshotType DEF Hydrated, TypeOK
  <2> QED BY <1>9, <2>1, NextAttemptType DEF Hydrated, StoreOK, TypeOK
<1>10. CASE HydratedFails
  <2>1. StoreOK' /\ dropped' \subseteq Calls
    BY <1>10, SnapshotType, KeepType DEF HydratedFails, Store!Keep, TypeOK
  <2>2. left' \in [FaultKinds -> Nat]
    BY <1>10, FaultType DEF HydratedFails, FaultKinds
  <2> QED BY <1>10, <2>1, <2>2, TerminateType DEF HydratedFails
<1> QED
  BY <1>1, <1>2, <1>3, <1>4, <1>5, <1>6, <1>7, <1>8, <1>9, <1>10 DEF Hydrate

\* The database's and the history's share of TypeOK.
WorldOK == /\ remote \in Tree /\ open \in BOOLEAN /\ stream \in Seq(Event)
           /\ delivered \in [Calls -> Nat] /\ dropped \subseteq Calls

\* A replay that fails goes back to get with no loop under way.
LEMMA AbortReplayType ==
  ASSUME TypeOK, AbortReplay, StoreOK', WorldOK', left' \in [FaultKinds -> Nat]
  PROVE  TypeOK'
<1>1. todo' \in Seq(Mutation) /\ pc' = "get"
  BY DEF AbortReplay
<1> QED BY <1>1 DEF AbortReplay, StoreOK, WorldOK, TypeOK

\* replay_pending: a replay always has a mutation to send.
LEMMA ReplayType ==
  ASSUME TypeOK, Replay PROVE TypeOK'
<1>0. ASSUME pc \in ReplayPCs
      PROVE  /\ todo # <<>> /\ Head(todo) \in Mutation
             /\ Head(todo).call \in Calls /\ Head(todo).ev \in Event
             /\ Tail(todo) \in Seq(Mutation)
  <2>1. Head(todo) \in Mutation /\ todo # <<>> /\ Tail(todo) \in Seq(Mutation)
    BY <1>0, HeadTailProperties DEF TypeOK
  <2> QED BY <2>1 DEF Mutation
<1>a. UNCHANGED <<world, history>> => WorldOK'
  BY DEF WorldOK, TypeOK
<1>1. CASE ReplayPut
  <2>1. WorldOK'
    BY <1>0, <1>1, DeliverType DEF ReplayPut, WorldOK
  <2>2. tree' \in Tree
    BY <1>0, <1>1, ApplyEventType DEF ReplayPut, TypeOK
  <2> QED BY <1>0, <1>1, <2>1, <2>2 DEF ReplayPut, WorldOK, TypeOK
<1>2. CASE ReplayPutFails
  <2>1. WorldOK'
    BY <1>0, <1>2, <1>a, DeliverType DEF ReplayPutFails, Remote!Keep, WorldOK
  <2>2. left' \in [FaultKinds -> Nat]
    BY <1>2, FaultType DEF ReplayPutFails, NoFault, FaultKinds, TypeOK
  <2> QED BY <1>2, <2>1, <2>2, KeepType, AbortReplayType DEF ReplayPutFails
<1>3. CASE ReplaySnapshot
  <2>1. StoreOK'
    BY <1>3, SnapshotType DEF ReplaySnapshot, TypeOK
  <2> QED BY <1>3, <2>1 DEF ReplaySnapshot, StoreOK, TypeOK
<1>4. CASE ReplaySnapshotFails
  <2>1. StoreOK'
    BY <1>4, SnapshotType, KeepType DEF ReplaySnapshotFails, Store!Keep, TypeOK
  <2>2. left' \in [FaultKinds -> Nat]
    BY <1>4, FaultType DEF ReplaySnapshotFails, FaultKinds
  <2> QED BY <1>4, <1>a, <2>1, <2>2, AbortReplayType DEF ReplaySnapshotFails
<1>5. CASE ReplayAck
  <2>1. StoreOK'
    BY <1>5, AckType DEF ReplayAck
  <2>2. durable' \in Seq(Mutation) /\ pending' \in Seq(Event)
    BY <1>5, WithoutType, WithoutEventType DEF ReplayAck, TypeOK
  <2> QED BY <1>0, <1>5, <2>1, <2>2 DEF ReplayAck, StoreOK, TypeOK
<1>6. CASE ReplayAckFails
  <2>1. StoreOK'
    BY <1>6, AckType, KeepType DEF ReplayAckFails, Store!Keep
  <2>2. left' \in [FaultKinds -> Nat]
    BY <1>6, FaultType DEF ReplayAckFails, FaultKinds
  <2> QED BY <1>6, <1>a, <2>1, <2>2, AbortReplayType DEF ReplayAckFails
<1>7. CASE ReplayCompact
  <2>1. StoreOK'
    BY <1>7, KeepType DEF ReplayCompact, Store!Compact, Store!Keep
  <2>2. CASE AbortReplay /\ Fault("io") /\ UNCHANGED <<world, history>>
    <3>1. left' \in [FaultKinds -> Nat]
      BY <2>2, FaultType DEF FaultKinds
    <3> QED BY <1>a, <2>1, <2>2, <3>1, AbortReplayType
  <2>3. CASE pc' = "sub"
    BY <1>7, <2>1, <2>3, NextAttemptType DEF ReplayCompact, AbortReplay, StoreOK, TypeOK
  <2> QED BY <1>7, <2>2, <2>3 DEF ReplayCompact
<1> QED BY <1>1, <1>2, <1>3, <1>4, <1>5, <1>6, <1>7 DEF Replay

\* The pending entry an event is compared with exists.
LEMMA FirstOnPathProperties ==
  ASSUME TypeOK, NEW e, OnPath(e) # {}
  PROVE  FirstOnPath(e) \in 1..Len(pending)
<1>1. DOMAIN pending = 1..Len(pending) /\ Len(pending) \in Nat
  BY LenProperties DEF TypeOK
<1>2. OnPath(e) \in SUBSET Nat /\ OnPath(e) \subseteq 1..Len(pending)
  BY <1>1 DEF OnPath
<1>3. \E i \in OnPath(e) : \A j \in OnPath(e) : i <= j
  BY <1>2, LeastElement
<1>4. FirstOnPath(e) \in OnPath(e)
  BY <1>3 DEF FirstOnPath
<1> QED BY <1>2, <1>4

\* An event taken from the stream is an event.
LEMMA ReceiveType ==
  ASSUME TypeOK, Remote!Receive
  PROVE  /\ Head(stream) \in Event /\ stream' \in Seq(Event)
         /\ remote' = remote /\ open' = open
BY HeadTailProperties DEF TypeOK, Remote!Receive

\* An event that leaves the state alone.
LEMMA EventIgnoredType ==
  ASSUME TypeOK, pc = "stream", Remote!Receive, pending' \in Seq(Event), EventIgnored
  PROVE  TypeOK'
BY ReceiveType DEF EventIgnored, AfterEvent, TypeOK

\* An event that changes it.
LEMMA EventAppliesType ==
  ASSUME TypeOK, pc = "stream", Remote!Receive, pending' \in Seq(Event),
         EventApplies(Head(stream))
  PROVE  TypeOK'
<1>1. tree' \in Tree
  BY ReceiveType, ApplyEventType DEF EventApplies, TypeOK
<1> QED BY <1>1, ReceiveType DEF EventApplies, AfterEvent, TypeOK

\* The connected loop: subscribing, reconcile_event and the snapshot after it.
LEMMA ListenType ==
  ASSUME TypeOK, Listen PROVE TypeOK'
<1>1. CASE Subscribe
  <2>1. stream' \in Seq(Event) /\ open' = TRUE /\ remote' = remote
    <3>1. PutRoot(remote) \in Event
      BY PutRootType DEF TypeOK
    <3>2. stream' = <<PutRoot(remote)>>
      BY <1>1 DEF Subscribe, Remote!Open, Remote!PutRoot, PutRoot
    <3> QED BY <1>1, <3>1, <3>2 DEF Subscribe, Remote!Open
  <2> QED BY <1>1, <2>1 DEF Subscribe, TypeOK
<1>2. CASE SubscribeFails
  BY <1>2, ReconnectType DEF SubscribeFails
<1>3. CASE StreamEnds
  BY <1>3, ReconnectType DEF StreamEnds
<1>4. CASE NewsFromOthers
  <2>1. pending' \in Seq(Event)
    BY <1>4 DEF NewsFromOthers, TypeOK
  <2> QED BY <1>4, <2>1, EventAppliesType DEF NewsFromOthers
<1>5. CASE EchoSuppressed
  <2>1. pending' \in Seq(Event)
    BY <1>5, FirstOnPathProperties, RemoveAtProperties DEF EchoSuppressed, TypeOK
  <2> QED BY <1>5, <2>1, EventIgnoredType DEF EchoSuppressed
<1>6. CASE ConflictRemoteWins
  <2>1. pending' \in Seq(Event)
    BY <1>6, FirstOnPathProperties, RemoveAtProperties DEF ConflictRemoteWins, TypeOK
  <2> QED BY <1>6, <2>1, EventAppliesType DEF ConflictRemoteWins
<1>7. CASE ConflictLocalWins
  <2>1. pending' \in Seq(Event)
    BY <1>7 DEF ConflictLocalWins, TypeOK
  <2> QED BY <1>7, <2>1, EventIgnoredType DEF ConflictLocalWins
<1>8. CASE ConflictRejected
  BY <1>8, FailType DEF ConflictRejected, NoFault, TypeOK
<1>9. CASE SaveEvent
  <2>1. StoreOK'
    BY <1>9, SnapshotType DEF SaveEvent, TypeOK
  <2> QED BY <1>9, <2>1 DEF SaveEvent, StoreOK, TypeOK
<1>10. CASE SaveEventFails
  <2>1. StoreOK' /\ dropped' \subseteq Calls
    BY <1>10, SnapshotType, KeepType DEF SaveEventFails, Store!Keep, TypeOK
  <2>2. left' \in [FaultKinds -> Nat]
    BY <1>10, FaultType DEF SaveEventFails, FaultKinds
  <2> QED BY <1>10, <2>1, <2>2, TerminateType DEF SaveEventFails
<1> QED
  BY <1>1, <1>2, <1>3, <1>4, <1>5, <1>6, <1>7, <1>8, <1>9, <1>10 DEF Listen

-----------------------------------------------------------------------------

\* A write taken from the channel is a request.
LEMMA QueueHead ==
  ASSUME TypeOK, queue # <<>>
  PROVE  /\ Head(queue).call \in Calls /\ Head(queue).ev \in Event
         /\ Tail(queue) \in Seq([call : Calls, ev : Event])
<1>1. Head(queue) \in [call : Calls, ev : Event]
  BY HeadTailProperties DEF TypeOK
<1> QED BY <1>1, HeadTailProperties DEF TypeOK

\* Its locals in handle_write and handle_offline_write.
LEMMA ReceivedType ==
  ASSUME TypeOK, queue # <<>>, NEW home \in {"stream", "get", "queue"}
  PROVE  /\ Received(home) \in Current
         /\ Received(home).call = Head(queue).call /\ Received(home).home = home
<1>1. NextId \in Nat /\ tree \in Tree
  BY NextIdProperties DEF TypeOK
<1> HIDE DEF replica
<1> QED BY <1>1, QueueHead DEF Received, Current

\* While a write is handled its locals exist, and name a mutation.
LEMMA CurrentType ==
  ASSUME TypeOK, pc \in WritePCs \cup OfflinePCs
  PROVE  /\ cur \in Current /\ CurMut \in Mutation
         /\ cur.call \in Calls /\ cur.ev \in Event /\ cur.old \in Tree
         /\ cur.home \in {"stream", "get", "queue"}
<1>1. cur \in Current
  BY DEF TypeOK
<1> QED BY <1>1 DEF Current, CurMut, Mutation

\* What Finish leaves is well typed, whatever else the action changes.
LEMMA FinishType ==
  ASSUME TypeOK, NEW w \in Current, NEW answer \in Answers, Finish(w, answer)
  PROVE  /\ call' \in [Calls -> CallState]
         /\ pc' \in PCs /\ pc' \notin ReplayPCs /\ pc' \notin WritePCs \cup OfflinePCs
         /\ attempt' \in 0..AttemptCap
         /\ cur' = None
<1>1. w.call \in Calls /\ w.home \in {"stream", "get", "queue"}
  BY DEF Current
<1>2. call' \in [Calls -> CallState]
  BY <1>1, ReplyType DEF Finish
<1>3. attempt' \in 0..AttemptCap
  BY NextAttemptType DEF Finish, TypeOK
<1> QED BY <1>1, <1>2, <1>3 DEF Finish

\* The share of TypeOK of the lists and the state a write changes.
ReplicaOK == tree \in Tree /\ pending \in Seq(Event) /\ durable \in Seq(Mutation)

\* handle_write answers.
LEMMA FinishOnlineType ==
  ASSUME TypeOK, pc \in WritePCs, NEW answer \in Answers, FinishOnline(answer),
         ReplicaOK', StoreOK', WorldOK', left' \in [FaultKinds -> Nat]
  PROVE  TypeOK'
<1>1. Finish(cur, answer)
  BY DEF FinishOnline
<1>2. /\ call' \in [Calls -> CallState]
      /\ pc' \in PCs /\ pc' \notin ReplayPCs /\ pc' \notin WritePCs \cup OfflinePCs
      /\ attempt' \in 0..AttemptCap
      /\ cur' = None
  BY <1>1, CurrentType, FinishType
<1>3. UNCHANGED <<fixed, restore, queue>> /\ status' \in Status
  BY DEF FinishOnline, TypeOK
<1> QED BY <1>2, <1>3 DEF ReplicaOK, StoreOK, WorldOK, TypeOK

\* handle_offline_write answers.
LEMMA FinishOfflineType ==
  ASSUME TypeOK, pc \in OfflinePCs, NEW answer \in Answers, FinishOffline(answer),
         ReplicaOK', StoreOK', WorldOK', left' \in [FaultKinds -> Nat]
  PROVE  TypeOK'
<1>1. Finish(cur, answer)
  BY DEF FinishOffline
<1>2. /\ call' \in [Calls -> CallState]
      /\ pc' \in PCs /\ pc' \notin ReplayPCs /\ pc' \notin WritePCs \cup OfflinePCs
      /\ attempt' \in 0..AttemptCap
      /\ cur' = None
  BY <1>1, CurrentType, FinishType
<1>3. UNCHANGED <<fixed, status, restore, queue>>
  BY DEF FinishOffline
<1> QED BY <1>2, <1>3 DEF ReplicaOK, StoreOK, WorldOK, TypeOK

\* What an action leaves alone keeps its type.
LEMMA FramesType ==
  ASSUME TypeOK
  PROVE  /\ UNCHANGED <<world, history>> => WorldOK'
         /\ UNCHANGED replica => ReplicaOK'
BY DEF WorldOK, ReplicaOK, TypeOK

\* The connected loop takes a write from the channel.
LEMMA TakeOnlineType ==
  ASSUME TypeOK, WriteBadPath \/ WriteStored \/ WriteUnstored PROVE TypeOK'
<1>1. CASE WriteBadPath
  <2>1. call' \in [Calls -> CallState]
    BY <1>1, QueueHead, ReplyType DEF WriteBadPath, Answers
  <2> QED BY <1>1, <2>1, QueueHead DEF WriteBadPath, TypeOK
<1>2. CASE WriteStored
  <2>1. cur' \in Current
    BY <1>2, ReceivedType DEF WriteStored
  <2> QED BY <1>2, <2>1, QueueHead DEF WriteStored, TypeOK
<1>3. CASE WriteUnstored
  <2>1. queue # <<>>
    BY <1>3 DEF WriteUnstored
  <2>2. Head(queue).ev \in Event /\ Head(queue).call \in Calls
        /\ queue' \in Seq([call : Calls, ev : Event])
    BY <1>3, <2>1, QueueHead DEF WriteUnstored
  <2>3. ApplyEvent(tree, Head(queue).ev) \in Tree
    BY <2>2, ApplyEventType DEF TypeOK
  <2>4. Append(pending, Head(queue).ev) \in Seq(Event)
    BY <2>2, AppendProperties DEF TypeOK
  <2>5. Received("stream") \in Current
    BY <2>1, ReceivedType
  <2>6. CASE cur' = Received("stream") /\ pc' = "wput"
    BY <1>3, <2>2, <2>3, <2>4, <2>5, <2>6 DEF WriteUnstored, TypeOK
  <2>7. CASE /\ Reply(Head(queue).call, "cancelled") /\ status' = "Failed"
             /\ UNCHANGED <<pc, cur, tree, pending>>
    <3>1. call' \in [Calls -> CallState]
      BY <2>2, <2>7, ReplyType DEF Answers
    <3> QED BY <1>3, <2>2, <2>7, <3>1 DEF WriteUnstored, TypeOK
  <2> QED BY <1>3, <2>6, <2>7 DEF WriteUnstored
<1> QED BY <1>1, <1>2, <1>3

\* handle_write.
LEMMA WriteOnlineType ==
  ASSUME TypeOK, WriteOnline PROVE TypeOK'
<1>1. CASE WriteAppend
  <2>1. pc = "wappend" /\ CurMut \in Mutation /\ cur.ev \in Event /\ cur \in Current
    BY <1>1, CurrentType DEF WriteAppend
  <2>2. StoreOK'
    BY <1>1, <2>1, AppendType DEF WriteAppend
  <2>3. durable' \in Seq(Mutation)
    BY <1>1, <2>1, AppendProperties DEF WriteAppend, TypeOK
  <2>4. WorldOK' /\ left' \in [FaultKinds -> Nat]
    BY <1>1, FramesType DEF WriteAppend, TypeOK
  <2>5. CASE FinishOnline("cancelled") /\ UNCHANGED <<tree, pending>>
    <3>1. ReplicaOK'
      BY <2>3, <2>5 DEF ReplicaOK, TypeOK
    <3> QED BY <2>1, <2>2, <2>4, <2>5, <3>1, FinishOnlineType DEF Answers
  <2>6. CASE /\ tree' = ApplyEvent(tree, cur.ev)
             /\ pc' = "wsnap"
             /\ UNCHANGED <<fixed, status, pending, restore, cur, attempt, client>>
    <3>1. tree' \in Tree
      BY <2>1, <2>6, ApplyEventType DEF TypeOK
    <3> QED BY <2>1, <2>2, <2>3, <2>4, <2>6, <3>1 DEF StoreOK, WorldOK, TypeOK
  <2>7. CASE /\ pending' = Append(pending, cur.ev)
             /\ pc' = "wput"
             /\ UNCHANGED <<fixed, status, tree, restore, cur, attempt, client>>
    <3>1. pending' \in Seq(Event)
      BY <2>1, <2>7, AppendProperties DEF TypeOK
    <3> QED BY <2>1, <2>2, <2>3, <2>4, <2>7, <3>1 DEF StoreOK, WorldOK, TypeOK
  <2> QED BY <1>1, <2>5, <2>6, <2>7 DEF WriteAppend
<1>2. CASE WriteAppendFails
  <2>1. pc = "wappend" /\ CurMut \in Mutation
    BY <1>2, CurrentType DEF WriteAppendFails
  <2>2. StoreOK'
    BY <1>2, <2>1, AppendType, KeepType DEF WriteAppendFails, Store!Keep
  <2>3. left' \in [FaultKinds -> Nat]
    BY <1>2, FaultType DEF WriteAppendFails, FaultKinds
  <2> QED BY <1>2, <2>1, <2>2, <2>3, FramesType, FinishOnlineType
          DEF WriteAppendFails, Answers
<1>3. CASE WriteSnapshot
  <2>1. pc = "wsnap" /\ cur.ev \in Event /\ cur \in Current
    BY <1>3, CurrentType DEF WriteSnapshot
  <2>2. StoreOK'
    BY <1>3, SnapshotType DEF WriteSnapshot, TypeOK
  <2>3. pending' \in Seq(Event)
    BY <1>3, <2>1, AppendProperties DEF WriteSnapshot, TypeOK
  <2> QED BY <1>3, <2>1, <2>2, <2>3 DEF WriteSnapshot, StoreOK, TypeOK
<1>4. CASE WriteSnapshotFails
  <2>1. StoreOK'
    BY <1>4, SnapshotType, KeepType DEF WriteSnapshotFails, Store!Keep, TypeOK
  <2>2. left' \in [FaultKinds -> Nat]
    BY <1>4, FaultType DEF WriteSnapshotFails, FaultKinds
  <2> QED BY <1>4, <2>1, <2>2, FramesType, FinishOnlineType
          DEF WriteSnapshotFails, Answers
<1>5. CASE WritePut
  <2>1. pc = "wput" /\ cur.ev \in Event /\ cur.call \in Calls /\ cur \in Current
    BY <1>5, CurrentType DEF WritePut
  <2>2. WorldOK'
    BY <1>5, <2>1, DeliverType DEF WritePut, WorldOK
  <2>3. StoreOK' /\ ReplicaOK' /\ left' \in [FaultKinds -> Nat]
    BY <1>5, KeepType, FramesType DEF WritePut, TypeOK
  <2>4. CASE FinishOnline("ok")
    BY <2>1, <2>2, <2>3, <2>4, FinishOnlineType DEF Answers
  <2>5. CASE pc' = "wack" /\ UNCHANGED <<fixed, status, restore, cur, attempt, client>>
    BY <2>1, <2>2, <2>3, <2>5 DEF StoreOK, ReplicaOK, WorldOK, TypeOK
  <2> QED BY <1>5, <2>4, <2>5 DEF WritePut
<1>6. CASE WritePutFails
  <2>1. /\ pc = "wput" /\ cur.ev \in Event /\ cur.call \in Calls /\ cur.old \in Tree
    BY <1>6, CurrentType DEF WritePutFails
  <2>2. WorldOK'
    BY <1>6, <2>1, DeliverType, FramesType DEF WritePutFails, Remote!Keep, WorldOK
  <2>3. StoreOK' /\ left' \in [FaultKinds -> Nat]
    BY <1>6, KeepType, FaultType DEF WritePutFails, NoFault, FaultKinds, TypeOK
  <2>4. ReplicaOK'
    BY <1>6, <2>1, WithoutEventType DEF WritePutFails, ReplicaOK, TypeOK
  <2> QED BY <1>6, <2>1, <2>2, <2>3, <2>4, FinishOnlineType DEF WritePutFails, Answers
<1>7. CASE WriteAck
  <2>1. pc = "wack" /\ cur \in Current
    BY <1>7, CurrentType DEF WriteAck
  <2>2. StoreOK'
    BY <1>7, AckType, KeepType DEF WriteAck, Store!Keep
  <2>3. ReplicaOK' /\ WorldOK' /\ left' \in [FaultKinds -> Nat]
    BY <1>7, FramesType, FaultType DEF WriteAck, NoFault, FaultKinds, TypeOK
  <2>4. CASE pc' = "wcomp" /\ UNCHANGED <<fixed, status, restore, cur, attempt, client>>
    BY <2>1, <2>2, <2>3, <2>4 DEF StoreOK, ReplicaOK, WorldOK, TypeOK
  <2>5. CASE FinishOnline("err")
    BY <2>1, <2>2, <2>3, <2>5, FinishOnlineType DEF Answers
  <2> QED BY <1>7, <2>4, <2>5 DEF WriteAck
<1>8. CASE WriteCompact
  <2>1. pc = "wcomp"
    BY <1>8 DEF WriteCompact
  <2>2. StoreOK' /\ WorldOK'
    BY <1>8, KeepType, FramesType DEF WriteCompact, Store!Compact, Store!Keep
  <2>3. left' \in [FaultKinds -> Nat]
    BY <1>8, FaultType DEF WriteCompact, NoFault, FaultKinds, TypeOK
  <2>4. ReplicaOK'
    BY <1>8, WithoutType DEF WriteCompact, ReplicaOK, TypeOK
  <2> QED BY <1>8, <2>1, <2>2, <2>3, <2>4, FinishOnlineType DEF WriteCompact, Answers
<1> QED
  BY <1>1, <1>2, <1>3, <1>4, <1>5, <1>6, <1>7, <1>8, TakeOnlineType DEF WriteOnline

\* handle_offline_write.
LEMMA WriteOfflineType ==
  ASSUME TypeOK, WriteOffline PROVE TypeOK'
<1>0. Home \in {"stream", "get", "queue"}
  BY DEF Home
<1>1. CASE OfflineRefused
  <2>1. queue # <<>> /\ Received(Home) \in Current
    BY <1>0, <1>1, ReceivedType DEF OfflineRefused
  <2>2. \E answer \in Answers : Finish(Received(Home), answer)
    BY <1>1 DEF OfflineRefused, Answers
  <2>3. /\ call' \in [Calls -> CallState]
        /\ pc' \in PCs /\ pc' \notin ReplayPCs /\ pc' \notin WritePCs \cup OfflinePCs
        /\ attempt' \in 0..AttemptCap
        /\ cur' = None
    BY <2>1, <2>2, FinishType
  <2>4. /\ queue' \in Seq([call : Calls, ev : Event])
        /\ UNCHANGED <<fixed, status, replica, restore, store, world, history, left>>
    BY <1>1, <2>1, QueueHead DEF OfflineRefused
  <2> QED BY <2>3, <2>4 DEF TypeOK
<1>2. CASE OfflineAccept
  <2>1. queue # <<>> /\ cur' \in Current
    BY <1>0, <1>2, ReceivedType DEF OfflineAccept
  <2> QED BY <1>2, <2>1, QueueHead DEF OfflineAccept, TypeOK
<1>3. CASE OfflineAppend
  <2>1. pc = "oappend" /\ CurMut \in Mutation /\ cur.ev \in Event /\ cur \in Current
    BY <1>3, CurrentType DEF OfflineAppend
  <2>2. StoreOK'
    BY <1>3, <2>1, AppendType DEF OfflineAppend
  <2>3. durable' \in Seq(Mutation) /\ pending' \in Seq(Event)
    BY <1>3, <2>1, AppendProperties DEF OfflineAppend, TypeOK
  <2>4. tree' \in Tree
    BY <1>3, <2>1, ApplyEventType DEF OfflineAppend, TypeOK
  <2> QED BY <1>3, <2>1, <2>2, <2>3, <2>4 DEF OfflineAppend, StoreOK, TypeOK
<1>4. CASE OfflineAppendFails
  <2>1. pc = "oappend" /\ CurMut \in Mutation
    BY <1>4, CurrentType DEF OfflineAppendFails
  <2>2. StoreOK'
    BY <1>4, <2>1, AppendType, KeepType DEF OfflineAppendFails, Store!Keep
  <2>3. left' \in [FaultKinds -> Nat]
    BY <1>4, FaultType DEF OfflineAppendFails, FaultKinds
  <2> QED BY <1>4, <2>1, <2>2, <2>3, FramesType, FinishOfflineType
          DEF OfflineAppendFails, Answers
<1>5. CASE OfflineSnapshot
  <2>1. StoreOK'
    BY <1>5, SnapshotType, KeepType DEF OfflineSnapshot, Store!Keep, TypeOK
  <2>2. left' \in [FaultKinds -> Nat]
    BY <1>5, FaultType DEF OfflineSnapshot, NoFault, FaultKinds, TypeOK
  <2> QED BY <1>5, <2>1, <2>2, FramesType, FinishOfflineType
          DEF OfflineSnapshot, Answers
<1> QED BY <1>1, <1>2, <1>3, <1>4, <1>5 DEF WriteOffline

\* The locals of a task that ends.
LEMMA ReleaseType ==
  ASSUME TypeOK, Release
  PROVE  /\ pending' \in Seq(Event) /\ durable' \in Seq(Mutation)
         /\ todo' \in Seq(Mutation) /\ stream' \in Seq(Event)
         /\ queue' \in Seq([call : Calls, ev : Event])
         /\ base' = None /\ conflicted' = FALSE /\ cur' = None
         /\ verdict' = "Stopped" /\ attempt' \in 0..AttemptCap /\ config' = config
         /\ open' = FALSE /\ remote' = remote
<1>1. /\ pending' = <<>> /\ durable' = <<>> /\ todo' = <<>> /\ queue' = <<>>
      /\ base' = None /\ conflicted' = FALSE /\ cur' = None
      /\ verdict' = "Stopped" /\ attempt' = 0 /\ config' = config
      /\ open' = FALSE /\ stream' = <<>> /\ remote' = remote
  BY DEF Release, Remote!Close
<1> QED BY <1>1, NextAttemptType

\* The callers, the process, the network and the other clients.
LEMMA EnvironmentType ==
  ASSUME TypeOK, Environment PROVE TypeOK'
<1>1. CASE \E c \in Calls, e \in Writes : Submit(c, e)
  <2>1. PICK c \in Calls, e \in Writes : Submit(c, e)
    BY <1>1
  <2> DEFINE Request == [call : Calls, ev : Event]
             r == [call |-> c, ev |-> e]
  <2>2. r \in Request
    BY EngineAssumption
  <2>3. queue' \in Seq(Request)
    <3>1. queue' = queue \/ queue' = Append(queue, r)
      BY <2>1 DEF Submit
    <3>2. queue \in Seq(Request)
      BY DEF TypeOK
    <3> HIDE DEF Request, r
    <3> QED BY <2>2, <3>1, <3>2, AppendProperties
  <2>4. call' \in [Calls -> CallState]
    BY <2>1 DEF Submit, CallState, Answers, TypeOK
  <2> QED BY <2>1, <2>3, <2>4 DEF Submit, TypeOK
<1>2. CASE \E c \in Calls : Abandon(c)
  <2>1. PICK c \in Calls : Abandon(c)
    BY <1>2
  <2>2. call' \in [Calls -> CallState] /\ left' \in [FaultKinds -> Nat]
    BY <2>1, FaultType DEF Abandon, CallState, FaultKinds, TypeOK
  <2> QED BY <2>1, <2>2 DEF Abandon, TypeOK
<1>3. CASE Shutdown
  BY <1>3 DEF Shutdown, TypeOK
<1>4. CASE Crash
  <2>1. call' \in [Calls -> CallState]
    BY <1>4 DEF Crash, CallState, TypeOK
  <2>2. left' \in [FaultKinds -> Nat]
    BY <1>4, FaultType DEF Crash, FaultKinds
  <2> QED BY <1>4, <2>1, <2>2, ReleaseType, NullTreeType DEF Crash, TypeOK
<1>5. CASE Restart
  BY <1>5, ReleaseType, NullTreeType DEF Restart, TypeOK
<1>6. CASE Cut
  <2>1. PICK n \in 0..Len(stream) : stream' = SubSeq(stream, 1, n)
    BY <1>6 DEF Cut, Remote!Cut
  <2>2. stream' \in Seq(Event)
    <3>1. Len(stream) \in Nat /\ \A i \in 1..n : stream[i] \in Event
      BY LenProperties, ElementOfSeq DEF TypeOK
    <3> QED BY <2>1, <3>1, SubSeqProperties
  <2>3. left' \in [FaultKinds -> Nat]
    BY <1>6, FaultType DEF Cut, FaultKinds
  <2>4. /\ open' = FALSE /\ open' \in BOOLEAN /\ remote' = remote
        /\ UNCHANGED <<fixed, pc, status, task, client, store, history>>
    BY <1>6 DEF Cut, Remote!Cut
  <2> QED BY <2>2, <2>3, <2>4 DEF TypeOK
<1>7. CASE \E e \in RemoteWrites : OtherWrite(e)
  <2>1. PICK e \in RemoteWrites : OtherWrite(e)
    BY <1>7
  <2>2. e \in Event
    BY EngineAssumption
  <2>3. remote' \in Tree /\ open' = open /\ stream' \in Seq(Event)
    BY <2>1, <2>2, AcceptType DEF OtherWrite
  <2>4. left' \in [FaultKinds -> Nat]
    BY <2>1, FaultType DEF OtherWrite, FaultKinds
  <2> QED BY <2>1, <2>3, <2>4 DEF OtherWrite, TypeOK
<1> QED
  BY <1>1, <1>2, <1>3, <1>4, <1>5, <1>6, <1>7 DEF Environment

\* The initial states are well typed.
LEMMA InitType ==
  ASSUME Init PROVE TypeOK
<1>1. pending = <<>> /\ durable = <<>> /\ todo = <<>> /\ queue = <<>> /\ stream = <<>>
  BY DEF Init, Remote!Disconnected
<1>2. /\ pending \in Seq(Event) /\ durable \in Seq(Mutation) /\ todo \in Seq(Mutation)
      /\ queue \in Seq([call : Calls, ev : Event]) /\ stream \in Seq(Event)
  BY <1>1
<1>3. journal \subseteq Mutation /\ IsFiniteSet(journal)
  BY FS_EmptySet DEF Init, Store!Empty
<1>4. delivered \in [Calls -> Nat] /\ call \in [Calls -> CallState]
  BY DEF Init, CallState
<1>5. /\ attempt \in 0..AttemptCap /\ left \in [FaultKinds -> Nat]
      /\ tree \in Tree /\ remote \in Tree
  BY NullTreeType, EngineAssumption DEF Init
<1>6. /\ config \in Configs /\ pc \in PCs /\ status \in Status
      /\ pc \notin ReplayPCs /\ pc \notin WritePCs \cup OfflinePCs
      /\ base \in Tree \cup {None} /\ conflicted \in BOOLEAN
      /\ cur \in Current \cup {None} /\ verdict \in {"Failed", "Stopped"}
      /\ cancelled \in BOOLEAN /\ saved \in Tree \cup {None}
      /\ open \in BOOLEAN /\ dropped \subseteq Calls
  BY DEF Init, Store!Empty, Remote!Disconnected
<1> QED BY <1>2, <1>3, <1>4, <1>5, <1>6 DEF TypeOK

\* Every step keeps every type.
LEMMA StepType ==
  ASSUME TypeOK, [Next]_vars PROVE TypeOK'
<1>1. CASE Task
  BY <1>1, LoadType, WaitingType, HydrateType, ReplayType, ListenType,
     WriteOnlineType, WriteOfflineType DEF Task
<1>2. CASE Environment
  BY <1>2, EnvironmentType
<1>3. CASE UNCHANGED vars
  BY <1>3 DEF vars, TypeOK
<1> QED BY <1>1, <1>2, <1>3 DEF Next

\* Every variable keeps its type, whatever the configuration, the calls and
\* the faults; a replay always has a mutation and a write its locals.
THEOREM TypeCorrect == Spec => []TypeOK
<1>1. TypeOK /\ [Next]_vars => TypeOK'
  BY StepType
<1> QED BY InitType, <1>1, PTL DEF Spec
-----------------------------------------------------------------------------
(* No accepted write is lost.                                              *)
(*                                                                         *)
(* Neither property is inductive.  An acknowledgement goes by id, so       *)
(* keeping the other mutations needs the ids of durable_pending to         *)
(* increase (IdsIncrease); a loop over durable_pending.clone() must be     *)
(* where the list is (LoopsFollow); the entry being acknowledged must be   *)
(* one the database has (UnderWay); an accepted write must be in the       *)
(* journal and in durable_pending (AcceptedHeld), for the store is only    *)
(* read when the task starts; and only a task with a store accepts writes  *)
(* offline (QueueingIsStored).  IndInv is their conjunction with TypeOK.   *)

USE DEF ConnectedPCs

\* What the inductive invariant adds to TypeOK.
Strengthening ==
  IdsIncrease /\ LoopsFollow /\ UnderWay /\ QueueingIsStored /\ AcceptedHeld

\* No call is answered with Ok by this step.
NoNewOk == \A c \in Calls : call'[c] = "ok" => call[c] = "ok"

\* Nothing is taken back by this step.
HistoryKept ==
  /\ \A c \in Calls : delivered[c] > 0 => delivered'[c] > 0
  /\ dropped \subseteq dropped'

\* Every write answered with Ok is settled.
AllSettled == \A c \in Calls : call[c] = "ok" => Settled(c)

\* What is settled stays so.
LEMMA SettledStays ==
  ASSUME HistoryKept, NEW c \in Calls, Settled(c) PROVE Settled(c)'
BY DEF HistoryKept, Settled

\* A write the database accepts is settled.
LEMMA DeliverHistory ==
  ASSUME TypeOK, NEW c \in Calls, NEW e, Deliver(c, e)
  PROVE  HistoryKept /\ delivered'[c] > 0
BY DEF TypeOK, Deliver, HistoryKept

\* An answer other than Ok accepts no write.
LEMMA ReplyHistory ==
  ASSUME TypeOK, NEW c \in Calls, NEW a \in {"err", "cancelled"}, Reply(c, a)
  PROVE  NoNewOk
BY DEF TypeOK, Reply, NoNewOk

\* A connected task has settled every accepted write; so has one whose journal
\* is empty or that has none.
LEMMA ConnectedSettled ==
  ASSUME IndInv, pc \in ConnectedPCs \/ ~config.store \/ (Running /\ durable = <<>>)
  PROVE  AllSettled
<1>1. DOMAIN (<<>>) = {}
  OBVIOUS
<1>2. durable = <<>> => ~ \E m \in journal : Holds(m)
  BY <1>1 DEF Holds
<1> QED BY <1>2 DEF IndInv, AcceptedHeld, AllSettled

\* Once every accepted write is settled, a step that accepts none keeps it so.
LEMMA SettledSuffices ==
  ASSUME AllSettled, NoNewOk, HistoryKept PROVE AcceptedHeld'
BY SettledStays DEF AllSettled, NoNewOk, AcceptedHeld

\* The task goes on with its lists, the journal and the history as they were.
LEMMA HeldStays ==
  ASSUME IndInv, NoNewOk, HistoryKept, UNCHANGED <<config, durable, journal>>,
         Running' => Running, pc' \in ConnectedPCs => AllSettled
  PROVE  AcceptedHeld'
<1> SUFFICES ASSUME NEW c \in Calls, call'[c] = "ok", ~ Settled(c)'
             PROVE  /\ config'.store /\ pc' \notin ConnectedPCs
                    /\ \E m \in journal' : m.call = c /\ (Running' => Holds(m)')
  BY DEF AcceptedHeld
<1>1. call[c] = "ok" /\ ~ Settled(c)
  BY SettledStays DEF NoNewOk
<1>2. config.store /\ \E m \in journal : m.call = c /\ (Running => Holds(m))
  BY <1>1 DEF IndInv, AcceptedHeld
<1>3. pc' \notin ConnectedPCs
  BY <1>1 DEF AllSettled
<1> QED BY <1>2, <1>3 DEF Holds

\* The task returns.
LEMMA TerminateHeld ==
  ASSUME IndInv, NEW st, Terminate(st),
         \A c \in Calls : call[c] = "ok" => Settled(c)' \/ (config.store /\ Journaled(c)')
  PROVE  Strengthening'
<1>1. /\ pc' = "done" /\ durable' = <<>> /\ config' = config
      /\ call' = [c \in Calls |-> IF call[c] = "waiting" THEN "cancelled" ELSE call[c]]
  BY DEF Terminate, Release
<1>2. DOMAIN durable' = {}
  BY <1>1
<1>3. AcceptedHeld'
  <2> SUFFICES ASSUME NEW c \in Calls, call'[c] = "ok", ~ Settled(c)'
               PROVE  /\ config'.store /\ pc' \notin ConnectedPCs
                      /\ \E m \in journal' : m.call = c /\ (Running' => Holds(m)')
    BY DEF AcceptedHeld
  <2>1. call[c] = "ok"
    BY <1>1
  <2>2. config.store /\ Journaled(c)'
    BY <2>1
  <2> QED BY <1>1, <2>2 DEF Journaled, Running, ConnectedPCs, Holds
<1>4. IdsIncrease' /\ LoopsFollow' /\ UnderWay' /\ QueueingIsStored'
  BY <1>1, <1>2
     DEF IdsIncrease, Increasing, LoopsFollow, UnderWay, QueueingIsStored, Running,
         Holds
<1> QED BY <1>3, <1>4 DEF Strengthening

\* It returns with the journal as it was.
LEMMA FailHeld ==
  ASSUME IndInv, NEW st, Terminate(st), UNCHANGED <<journal, dropped>>
  PROVE  Strengthening'
<1>1. ASSUME NEW c \in Calls, call[c] = "ok"
      PROVE  Settled(c)' \/ (config.store /\ Journaled(c)')
  <2>1. UNCHANGED delivered
    BY DEF Terminate
  <2>2. Settled(c) \/ (config.store /\ \E m \in journal : m.call = c)
    BY <1>1 DEF IndInv, AcceptedHeld
  <2>3. Settled(c) => Settled(c)'
    BY <2>1 DEF Settled
  <2>4. (\E m \in journal : m.call = c) => Journaled(c)'
    BY DEF Journaled
  <2> QED BY <2>2, <2>3, <2>4
<1> QED BY <1>1, TerminateHeld

-----------------------------------------------------------------------------

\* A step that leaves the history alone unsettles nothing.
LEMMA HistorySame ==
  ASSUME TypeOK, UNCHANGED history PROVE HistoryKept
BY DEF HistoryKept

\* Starting: what is restored is what the journal has, in the order of its ids.
LEMMA LoadHeld ==
  ASSUME IndInv, Load PROVE Strengthening'
<1>0. TypeOK
  BY DEF IndInv
<1>1. CASE Misconfigured
  BY <1>1, FailHeld DEF Misconfigured, Fail
<1>2. CASE RestoreFails
  BY <1>2, FailHeld DEF RestoreFails, Fail
<1>3. CASE StartUnstored
  <2>1. AllSettled /\ NoNewOk /\ HistoryKept
    BY <1>0, <1>3, ConnectedSettled, HistorySame DEF StartUnstored, NoNewOk
  <2>2. AcceptedHeld'
    BY <2>1, SettledSuffices
  <2>3. IdsIncrease'
    BY <1>3 DEF StartUnstored, IndInv, IdsIncrease, Increasing
  <2>4. LoopsFollow' /\ UnderWay' /\ QueueingIsStored'
    BY <1>3 DEF StartUnstored, LoopsFollow, UnderWay, QueueingIsStored, Running
  <2> QED BY <2>2, <2>3, <2>4 DEF Strengthening
<1>4. CASE Restore
  <2>1. PICK s \in [1..Cardinality(journal) -> journal] :
          Store!IsLoaded(s) /\ durable' = s
    BY <1>4 DEF Restore
  <2>2. IdsIncrease'
    BY <1>4, <2>1 DEF Restore, IdsIncrease, Increasing, Store!IsLoaded
  <2>3. LoopsFollow' /\ UnderWay' /\ QueueingIsStored'
    BY <1>4 DEF Restore, LoopsFollow, UnderWay, QueueingIsStored, Running
  <2>4. AcceptedHeld'
    <3> SUFFICES ASSUME NEW c \in Calls, call'[c] = "ok", ~ Settled(c)'
                 PROVE  /\ config'.store /\ pc' \notin ConnectedPCs
                        /\ \E m \in journal' : m.call = c /\ Holds(m)'
      BY DEF AcceptedHeld
    <3>1. call[c] = "ok" /\ ~ Settled(c)
      BY <1>4 DEF Restore, Settled
    <3>2. PICK m \in journal : m.call = c
      BY <3>1 DEF IndInv, AcceptedHeld
    <3>3. \E i \in DOMAIN s : s[i] = m
      BY <2>1 DEF Store!IsLoaded, Store!IsLoadedUnordered
    <3>4. Holds(m)'
      BY <2>1, <3>3 DEF Holds
    <3> QED BY <1>4, <3>2, <3>4 DEF Restore
  <2> QED BY <2>2, <2>3, <2>4 DEF Strengthening
<1> QED BY <1>1, <1>2, <1>3, <1>4 DEF Load

\* No loop, write or offline service is under way at these awaits.
IdlePCs == {"get", "backoff", "rescomp", "hsnap", "sub", "stream", "evsnap"}

\* Steps to such an await, with the lists, the journal and the history kept.
LEMMA IdleHeld ==
  ASSUME IndInv, pc' \in IdlePCs, Running, NoNewOk, HistoryKept,
         UNCHANGED <<config, durable, journal>>,
         pc' \in ConnectedPCs => AllSettled
  PROVE  Strengthening'
<1>1. AcceptedHeld'
  BY HeldStays
<1>2. IdsIncrease'
  BY DEF IndInv, IdsIncrease, Increasing, IdlePCs
<1>3. LoopsFollow' /\ UnderWay'
  BY DEF LoopsFollow, UnderWay, IdlePCs
<1>4. QueueingIsStored'
  BY DEF IndInv, QueueingIsStored, Running, IdlePCs
<1> QED BY <1>1, <1>2, <1>3, <1>4 DEF Strengthening

\* retry: another attempt, or the end of the task.
LEMMA RetryHeld ==
  ASSUME IndInv, Running, NEW v, Retry(v) PROVE Strengthening'
<1>0. TypeOK
  BY DEF IndInv
<1>1. CASE /\ pc' = "backoff"
           /\ UNCHANGED <<config, replica, restore, cur, cancelled, outside>>
  <2>1. HistoryKept /\ NoNewOk
    BY <1>0, <1>1, HistorySame DEF NoNewOk
  <2> QED BY <1>1, <2>1, IdleHeld DEF IdlePCs
<1>2. CASE Terminate(v) /\ UNCHANGED <<store, dropped>>
  BY <1>2, FailHeld
<1> QED BY <1>1, <1>2 DEF Retry

\* Serving writes offline needs a store.
LEMMA QueueHeld ==
  ASSUME IndInv, Running, config.queueing, NoNewOk, HistoryKept,
         UNCHANGED <<config, durable, journal>>, pc' \in {"offline", "queue"}
  PROVE  Strengthening'
<1>1. AcceptedHeld'
  BY HeldStays
<1>2. IdsIncrease'
  BY DEF IndInv, IdsIncrease, Increasing
<1>3. LoopsFollow' /\ UnderWay'
  BY DEF LoopsFollow, UnderWay
<1>4. QueueingIsStored'
  BY DEF IndInv, QueueingIsStored, Running
<1> QED BY <1>1, <1>2, <1>3, <1>4 DEF Strengthening

\* reconnect_or_queue: likewise, or serving writes offline.
LEMMA ReconnectHeld ==
  ASSUME IndInv, Running, NEW v, Reconnect(v) PROVE Strengthening'
<1>0. TypeOK
  BY DEF IndInv
<1>1. CASE config.queueing /\ QueueWrites(v)
  <2>1. HistoryKept /\ NoNewOk
    BY <1>0, <1>1, HistorySame DEF QueueWrites, NoNewOk
  <2> QED BY <1>1, <2>1, QueueHeld DEF QueueWrites
<1> QED BY <1>1, RetryHeld DEF Reconnect

\* The end of a delay, and the cancellation branches.
LEMMA WaitingHeld ==
  ASSUME IndInv, Waiting PROVE Strengthening'
<1>0. TypeOK
  BY DEF IndInv
<1>1. CASE Stop
  BY <1>1, FailHeld DEF Stop
<1>2. CASE /\ BackedOff \/ OfflineDelayOver \/ QueueDelayOver
           /\ pc' = "get"
  <2>1. HistoryKept /\ NoNewOk
    BY <1>0, <1>2, HistorySame DEF BackedOff, OfflineDelayOver, QueueDelayOver, NoNewOk
  <2> QED BY <1>2, <2>1, IdleHeld
          DEF BackedOff, OfflineDelayOver, QueueDelayOver, Running, IdlePCs
<1>3. CASE QueueDelayOver /\ UNCHANGED pc
  <2>1. HistoryKept /\ NoNewOk /\ pc = "queue"
    BY <1>0, <1>3, HistorySame DEF QueueDelayOver, NoNewOk
  <2>2. AcceptedHeld'
    BY <1>3, <2>1, HeldStays DEF QueueDelayOver, Running
  <2>3. IdsIncrease'
    BY <1>3, <2>1 DEF QueueDelayOver, IndInv, IdsIncrease, Increasing
  <2>4. LoopsFollow' /\ UnderWay' /\ QueueingIsStored'
    BY <1>3, <2>1
       DEF QueueDelayOver, IndInv, LoopsFollow, UnderWay, QueueingIsStored, Running
  <2> QED BY <2>2, <2>3, <2>4 DEF Strengthening
<1> QED
  BY <1>1, <1>2, <1>3 DEF Waiting, BackedOff, OfflineDelayOver, QueueDelayOver

-----------------------------------------------------------------------------

\* An acknowledgement by id removes one mutation only: another one the task
\* holds stays in the journal.
LEMMA AckKeepsOthers ==
  ASSUME IndInv, NEW m, NEW n, Holds(m), Holds(n), m # n,
         Store!AcknowledgeMutation(n.id), m \in journal
  PROVE  m \in journal' /\ m.id # n.id
<1>1. PICK i \in DOMAIN durable, j \in DOMAIN durable : durable[i] = m /\ durable[j] = n
  BY DEF Holds
<1>2. durable \in Seq(Mutation) /\ Increasing(durable)
  BY DEF IndInv, TypeOK, IdsIncrease
<1>3. m.id # n.id
  BY <1>1, <1>2, IdsNameEntries
<1> QED BY <1>3 DEF Store!AcknowledgeMutation

\* The entry of durable_pending a loop has reached.
LEMMA LoopHead ==
  ASSUME IndInv, pc \in ReplayPCs \/ (pc = "resolve" /\ todo # <<>>)
  PROVE  /\ todo \in Seq(Mutation) /\ todo # <<>> /\ Increasing(todo)
         /\ Holds(Head(todo)) /\ Head(todo).call \in Calls
<1>1. todo \in Seq(Mutation) /\ todo # <<>>
  BY DEF IndInv, TypeOK
<1>2. 1 \in DOMAIN todo /\ Head(todo) = todo[1] /\ Head(todo) \in Mutation
  BY <1>1, HeadTailProperties, LenProperties, EmptySeq
<1>3. Increasing(todo) /\ Holds(todo[1])
  BY <1>2 DEF IndInv, IdsIncrease, LoopsFollow, Holds
<1>4. Head(todo).call \in Calls
  BY <1>2 DEF Mutation
<1> QED BY <1>1, <1>2, <1>3, <1>4

\* What a write answered with Ok and not settled has in the journal.
LEMMA HeldMutation ==
  ASSUME IndInv, NEW c \in Calls, call[c] = "ok", ~ Settled(c)
  PROVE  /\ config.store /\ pc \notin ConnectedPCs
         /\ \E m \in journal : m.call = c /\ (Running => Holds(m))
BY DEF IndInv, AcceptedHeld

\* Hydration, with a journal to check for conflicts or without.
LEMMA GetHeld ==
  ASSUME IndInv, Get PROVE Strengthening'
<1>0. TypeOK /\ Running
  BY DEF IndInv, Get, Running
<1>1. HistoryKept /\ NoNewOk /\ UNCHANGED <<config, durable, journal>>
  BY <1>0, HistorySame DEF Get, NoNewOk
<1>2. CASE pc' = "resolve"
  <2>1. todo' = durable
    BY <1>2 DEF Get
  <2>2. AcceptedHeld'
    BY <1>0, <1>1, <1>2, HeldStays
  <2>3. IdsIncrease'
    BY <1>1, <1>2 DEF IndInv, IdsIncrease, Increasing
  <2>4. LoopsFollow'
    BY <1>1, <1>2, <2>1 DEF IndInv, IdsIncrease, Increasing, LoopsFollow, Holds
  <2>5. UnderWay' /\ QueueingIsStored'
    BY <1>0, <1>1, <1>2 DEF IndInv, UnderWay, QueueingIsStored
  <2> QED BY <2>2, <2>3, <2>4, <2>5 DEF Strengthening
<1>3. CASE pc' = "hsnap"
  BY <1>0, <1>1, <1>3, IdleHeld DEF IdlePCs
<1>4. CASE ~config.store /\ pc' = "sub"
  <2>1. AllSettled
    BY <1>4, ConnectedSettled
  <2> QED BY <1>0, <1>1, <1>4, <2>1, IdleHeld DEF IdlePCs
<1> QED BY <1>2, <1>3, <1>4 DEF Get

\* The loop of resolve_restored_conflicts goes on after an entry it keeps, or
\* after one it has discarded.
LEMMA ResolveHeld ==
  ASSUME IndInv, ResolveKeep \/ ResolveDrop PROVE Strengthening'
<1> DEFINE h == Head(todo)
<1>0. /\ TypeOK /\ Running /\ pc = "resolve" /\ pc' = pc
      /\ todo # <<>> /\ todo' = Tail(todo)
      /\ UNCHANGED <<config, call, delivered>>
      /\ durable \in Seq(Mutation) /\ Increasing(durable)
  BY DEF IndInv, IdsIncrease, ResolveKeep, ResolveDrop, Running, TypeOK
<1>1. todo \in Seq(Mutation) /\ Increasing(todo) /\ Holds(h)
  BY <1>0, LoopHead
<1>2. Increasing(todo')
  BY <1>0, <1>1, TailProperties
<1>3. ASSUME NEW i \in DOMAIN todo'
      PROVE  todo'[i].id # h.id /\ Holds(todo'[i])
  <2>1. todo'[i].id # h.id /\ \E j \in DOMAIN todo : todo[j] = todo'[i]
    BY <1>0, <1>1, TailProperties
  <2>2. \A j \in DOMAIN todo : Holds(todo[j])
    BY <1>0 DEF IndInv, LoopsFollow
  <2> QED BY <2>1, <2>2
<1>4. UnderWay' /\ QueueingIsStored'
  BY <1>0 DEF IndInv, UnderWay, QueueingIsStored
<1> HIDE DEF h
<1>5. CASE ResolveKeep
  <2>1. UNCHANGED <<durable, journal>> /\ HistoryKept /\ NoNewOk
    BY <1>0, <1>5, HistorySame DEF ResolveKeep, NoNewOk
  <2>2. AcceptedHeld'
    BY <1>0, <2>1, HeldStays
  <2>3. IdsIncrease'
    BY <1>0, <2>1 DEF IdsIncrease, Increasing
  <2>4. LoopsFollow'
    BY <1>0, <1>2, <1>3, <2>1 DEF LoopsFollow, Increasing, Holds
  <2> QED BY <1>4, <2>2, <2>3, <2>4 DEF Strengthening
<1>6. CASE ResolveDrop
  <2>1. /\ Store!AcknowledgeMutation(h.id) /\ durable' = Without(durable, h.id)
        /\ dropped' = dropped \cup {h.call}
    BY <1>6 DEF ResolveDrop, h
  <2>2. Increasing(durable')
    BY <1>0, <2>1, WithoutProperties
  <2>3. ASSUME NEW m, Holds(m), m.id # h.id PROVE Holds(m)'
    <3>1. PICK i \in DOMAIN durable : durable[i] = m
      BY <2>3 DEF Holds
    <3>2. \E j \in DOMAIN durable' : durable'[j] = durable[i]
      BY <1>0, <2>1, <2>3, <3>1, WithoutProperties
    <3> QED BY <3>1, <3>2 DEF Holds
  <2>4. AcceptedHeld'
    <3> SUFFICES ASSUME NEW c \in Calls, call'[c] = "ok", ~ Settled(c)'
                 PROVE  /\ config'.store /\ pc' \notin ConnectedPCs
                        /\ \E m \in journal' : m.call = c /\ (Running' => Holds(m)')
      BY DEF AcceptedHeld
    <3>1. call[c] = "ok" /\ ~ Settled(c) /\ c # h.call
      BY <1>0, <2>1 DEF Settled
    <3>2. config.store /\ pc \notin ConnectedPCs
      BY <3>1, HeldMutation
    <3>3. PICK m \in journal : m.call = c /\ Holds(m)
      BY <1>0, <3>1, HeldMutation
    <3>4. m \in journal' /\ m.id # h.id
      BY <1>1, <2>1, <3>1, <3>3, AckKeepsOthers
    <3> QED BY <1>0, <2>3, <3>2, <3>3, <3>4
  <2>5. IdsIncrease'
    BY <1>0, <2>2 DEF IdsIncrease, Increasing
  <2>6. LoopsFollow'
    BY <1>0, <1>2, <1>3, <2>3 DEF LoopsFollow, Increasing, Holds
  <2> QED BY <1>4, <2>4, <2>5, <2>6 DEF Strengthening
<1> QED BY <1>5, <1>6

\* Acknowledging an entry of a loop that then ends, the task with it: the rest
\* of what is held stays in the journal.
LEMMA AckJournaled ==
  ASSUME IndInv, pc \in ReplayPCs \/ (pc = "resolve" /\ todo # <<>>),
         Store!AcknowledgeMutation(Head(todo).id),
         NEW c \in Calls, call[c] = "ok", ~ Settled(c), c # Head(todo).call
  PROVE  config.store /\ \E m \in journal' : m.call = c /\ Holds(m)
<1>1. Running
  BY DEF Running
<1>2. config.store
  BY HeldMutation
<1>3. PICK m \in journal : m.call = c /\ Holds(m)
  BY <1>1, HeldMutation
<1>4. Holds(Head(todo)) /\ m # Head(todo)
  BY <1>3, LoopHead
<1>5. m \in journal'
  BY <1>3, <1>4, AckKeepsOthers
<1> QED BY <1>2, <1>3, <1>5

\* All of hydration: a conflict policy discards what it drops and nothing else.
LEMMA HydrateHeld ==
  ASSUME IndInv, Hydrate PROVE Strengthening'
<1>0. TypeOK
  BY DEF IndInv
<1>1. CASE Get
  BY <1>1, GetHeld
<1>2. CASE GetFails
  <2>1. Running
    BY <1>2 DEF GetFails, Running
  <2>2. CASE /\ config.queueing /\ pc' = "offline"
             /\ UNCHANGED <<fixed, task, outside, left>>
    <3>1. HistoryKept /\ NoNewOk
      BY <1>0, <2>2, HistorySame DEF NoNewOk
    <3> QED BY <2>1, <2>2, <3>1, QueueHeld
  <2> QED BY <1>2, <2>1, <2>2, RetryHeld DEF GetFails
<1>3. CASE ResolveKeep \/ ResolveDrop
  BY <1>3, ResolveHeld
<1>4. CASE ResolveDropFails
  <2> DEFINE h == Head(todo)
  <2>1. /\ pc = "resolve" /\ todo # <<>> /\ Terminate("Failed")
        /\ \/ Store!AcknowledgeMutation(h.id) /\ dropped' = dropped \cup {h.call}
           \/ UNCHANGED <<journal, dropped>>
    BY <1>4 DEF ResolveDropFails, Store!Keep
  <2>2. CASE UNCHANGED <<journal, dropped>>
    BY <2>1, <2>2, FailHeld
  <2>3. CASE Store!AcknowledgeMutation(h.id) /\ dropped' = dropped \cup {h.call}
    <3>1. ASSUME NEW c \in Calls, call[c] = "ok"
          PROVE  Settled(c)' \/ (config.store /\ Journaled(c)')
      <4>1. UNCHANGED delivered
        BY <2>1 DEF Terminate
      <4>2. CASE Settled(c) \/ c = h.call
        BY <2>3, <4>1, <4>2 DEF Settled
      <4>3. CASE ~ Settled(c) /\ c # h.call
        <5>1. config.store /\ \E m \in journal' : m.call = c
          BY <2>1, <2>3, <3>1, <4>3, AckJournaled
        <5> QED BY <5>1 DEF Journaled
      <4> QED BY <4>2, <4>3
    <3> QED BY <2>1, <3>1, TerminateHeld
  <2> QED BY <2>1, <2>2, <2>3
<1>5. CASE ResolveReject
  <2>1. \E st \in Status : Terminate(st) /\ UNCHANGED <<journal, dropped>>
    BY <1>5 DEF ResolveReject, Fail, Status
  <2> QED BY <2>1, FailHeld
<1>6. CASE Resolved
  <2>1. HistoryKept /\ NoNewOk
    BY <1>0, <1>6, HistorySame DEF Resolved, NoNewOk
  <2> QED BY <1>6, <2>1, IdleHeld DEF Resolved, Running, IdlePCs
<1>7. CASE ResolveCompact
  <2>1. CASE Fail
    BY <2>1, FailHeld DEF Fail
  <2>2. CASE /\ Store!Compact /\ pc' = "hsnap"
             /\ UNCHANGED <<fixed, status, task, client, world, history, left>>
    <3>1. HistoryKept /\ NoNewOk
      BY <1>0, <2>2, HistorySame DEF NoNewOk
    <3> QED BY <1>7, <2>2, <3>1, IdleHeld
            DEF ResolveCompact, Store!Compact, Store!Keep, Running, IdlePCs
  <2> QED BY <1>7, <2>1, <2>2 DEF ResolveCompact
<1>8. CASE Hydrated
  <2>1. /\ HistoryKept /\ NoNewOk /\ Running
        /\ UNCHANGED <<config, durable, journal>>
    BY <1>0, <1>8, HistorySame DEF Hydrated, NoNewOk, Running, Store!StoreSnapshot
  <2>2. CASE durable = <<>> /\ pc' = "sub"
    <3>1. AllSettled
      BY <2>1, <2>2, ConnectedSettled
    <3> QED BY <2>1, <2>2, <3>1, IdleHeld DEF IdlePCs
  <2>3. CASE pc' = "rput" /\ todo' = durable
    <3>1. AcceptedHeld'
      BY <2>1, <2>3, HeldStays
    <3>2. IdsIncrease'
      BY <2>1, <2>3 DEF IndInv, IdsIncrease, Increasing
    <3>3. LoopsFollow' /\ UnderWay' /\ QueueingIsStored'
      BY <2>1, <2>3 DEF IndInv, LoopsFollow, UnderWay, QueueingIsStored
    <3> QED BY <3>1, <3>2, <3>3 DEF Strengthening
  <2> QED BY <1>8, <2>2, <2>3 DEF Hydrated
<1>9. CASE HydratedFails
  <2>1. UNCHANGED <<journal, dropped>>
    BY <1>9 DEF HydratedFails, Store!StoreSnapshot, Store!Keep
  <2> QED BY <1>9, <2>1, FailHeld DEF HydratedFails
<1> QED
  BY <1>1, <1>2, <1>3, <1>4, <1>5, <1>6, <1>7, <1>8, <1>9 DEF Hydrate

-----------------------------------------------------------------------------

\* A replay that fails keeps everything it has not yet settled.
LEMMA AbortHeld ==
  ASSUME IndInv, pc \in ReplayPCs \cup {"rcomp"}, AbortReplay, HistoryKept,
         UNCHANGED journal
  PROVE  Strengthening'
BY IdleHeld DEF AbortReplay, NoNewOk, Running, IdlePCs

\* replay_pending: what it sends is settled before its entry is acknowledged.
LEMMA ReplayHeld ==
  ASSUME IndInv, Replay PROVE Strengthening'
<1> DEFINE h == Head(todo)
<1>0. TypeOK
  BY DEF IndInv
<1>1. CASE ReplayPut
  <2>1. /\ pc = "rput" /\ pc' = "rsnap" /\ Deliver(h.call, h.ev)
        /\ UNCHANGED <<config, call, durable, todo, journal>>
    BY <1>1 DEF ReplayPut
  <2>2. HistoryKept /\ NoNewOk /\ delivered'[h.call] > 0
    BY <1>0, <2>1, LoopHead, DeliverHistory DEF NoNewOk
  <2>3. AcceptedHeld'
    BY <2>1, <2>2, HeldStays DEF Running
  <2>4. IdsIncrease'
    BY <2>1 DEF IndInv, IdsIncrease, Increasing
  <2>5. LoopsFollow' /\ UnderWay' /\ QueueingIsStored'
    BY <2>1, <2>2 DEF IndInv, LoopsFollow, UnderWay, QueueingIsStored, Running
  <2> QED BY <2>3, <2>4, <2>5 DEF Strengthening
<1>2. CASE ReplayPutFails
  <2>1. pc = "rput" /\ AbortReplay /\ UNCHANGED journal
    BY <1>2 DEF ReplayPutFails
  <2>2. Deliver(h.call, h.ev) \/ UNCHANGED history
    BY <1>2 DEF ReplayPutFails
  <2>3. HistoryKept
    BY <1>0, <2>1, <2>2, LoopHead, DeliverHistory, HistorySame
  <2> QED BY <2>1, <2>3, AbortHeld
<1>3. CASE ReplaySnapshot
  <2>1. /\ pc = "rsnap" /\ pc' = "rack"
        /\ UNCHANGED <<config, call, durable, todo, journal, history>>
    BY <1>3 DEF ReplaySnapshot, Store!StoreSnapshot
  <2>2. HistoryKept /\ NoNewOk
    BY <1>0, <2>1, HistorySame DEF NoNewOk
  <2>3. AcceptedHeld'
    BY <2>1, <2>2, HeldStays DEF Running
  <2>4. IdsIncrease'
    BY <2>1 DEF IndInv, IdsIncrease, Increasing
  <2>5. LoopsFollow' /\ UnderWay' /\ QueueingIsStored'
    BY <2>1 DEF IndInv, LoopsFollow, UnderWay, QueueingIsStored, Running
  <2> QED BY <2>3, <2>4, <2>5 DEF Strengthening
<1>4. CASE ReplaySnapshotFails
  <2>1. pc = "rsnap" /\ AbortReplay /\ UNCHANGED <<journal, history>>
    BY <1>4 DEF ReplaySnapshotFails, Store!StoreSnapshot, Store!Keep
  <2> QED BY <1>0, <2>1, HistorySame, AbortHeld
<1>5. CASE ReplayAck
  <2>1. /\ pc = "rack" /\ Store!AcknowledgeMutation(h.id)
        /\ durable' = Without(durable, h.id) /\ todo' = Tail(todo)
        /\ pc' = (IF Tail(todo) = <<>> THEN "rcomp" ELSE "rput")
        /\ UNCHANGED <<config, call, history>>
    BY <1>5 DEF ReplayAck
  <2>2. /\ todo = durable /\ durable \in Seq(Mutation) /\ durable # <<>>
        /\ Increasing(durable) /\ delivered[h.call] > 0
    BY <2>1, LoopHead DEF IndInv, LoopsFollow, UnderWay
  <2>3. durable' = Tail(durable) /\ todo' = durable'
    BY <2>1, <2>2, WithoutHead
  <2>4. Increasing(durable')
    BY <2>2, <2>3, TailProperties
  <2>5. ASSUME NEW m, Holds(m), m.id # h.id PROVE Holds(m)'
    <3>1. PICK i \in DOMAIN durable : durable[i] = m
      BY <2>5 DEF Holds
    <3>2. \E j \in DOMAIN durable' : durable'[j] = durable[i]
      BY <2>1, <2>2, <2>5, <3>1, WithoutProperties
    <3> QED BY <3>1, <3>2 DEF Holds
  <2>6. AcceptedHeld'
    <3> SUFFICES ASSUME NEW c \in Calls, call'[c] = "ok", ~ Settled(c)'
                 PROVE  /\ config'.store /\ pc' \notin ConnectedPCs
                        /\ \E m \in journal' : m.call = c /\ (Running' => Holds(m)')
      BY DEF AcceptedHeld
    <3>1. call[c] = "ok" /\ ~ Settled(c) /\ c # h.call
      BY <2>1, <2>2 DEF Settled
    <3>2. config.store
      BY <3>1, HeldMutation
    <3>3. PICK m \in journal : m.call = c /\ Holds(m)
      BY <2>1, <3>1, HeldMutation DEF Running
    <3>4. m \in journal' /\ m.id # h.id
      BY <2>1, <3>1, <3>3, LoopHead, AckKeepsOthers
    <3> QED BY <2>1, <2>5, <3>2, <3>3, <3>4
  <2>7. IdsIncrease'
    BY <2>1, <2>4 DEF IdsIncrease, Increasing
  <2>8. LoopsFollow'
    BY <2>1, <2>2, <2>3 DEF LoopsFollow
  <2>9. UnderWay' /\ QueueingIsStored'
    BY <2>1 DEF IndInv, UnderWay, QueueingIsStored, Running
  <2> QED BY <2>6, <2>7, <2>8, <2>9 DEF Strengthening
<1>6. CASE ReplayAckFails
  <2>1. /\ pc = "rack" /\ AbortReplay /\ UNCHANGED history
        /\ Store!AcknowledgeMutation(h.id) \/ UNCHANGED journal
    BY <1>6 DEF ReplayAckFails, Store!Keep
  <2>2. CASE UNCHANGED journal
    BY <1>0, <2>1, <2>2, HistorySame, AbortHeld
  <2>3. CASE Store!AcknowledgeMutation(h.id)
    <3>1. pc' = "get" /\ UNCHANGED <<config, call, durable>>
      BY <2>1 DEF AbortReplay
    <3>2. delivered[h.call] > 0
      BY <2>1 DEF IndInv, UnderWay
    <3>3. AcceptedHeld'
      <4> SUFFICES ASSUME NEW c \in Calls, call'[c] = "ok", ~ Settled(c)'
                   PROVE  /\ config'.store /\ pc' \notin ConnectedPCs
                          /\ \E m \in journal' : m.call = c /\ (Running' => Holds(m)')
        BY DEF AcceptedHeld
      <4>1. call[c] = "ok" /\ ~ Settled(c) /\ c # h.call
        BY <2>1, <3>1, <3>2 DEF Settled
      <4>2. config.store /\ \E m \in journal' : m.call = c /\ Holds(m)
        BY <2>1, <2>3, <4>1, AckJournaled
      <4> QED BY <3>1, <4>2 DEF Holds
    <3>4. IdsIncrease'
      BY <3>1 DEF IndInv, IdsIncrease, Increasing
    <3>5. LoopsFollow' /\ UnderWay' /\ QueueingIsStored'
      BY <2>1, <3>1 DEF IndInv, LoopsFollow, UnderWay, QueueingIsStored, Running
    <3> QED BY <3>3, <3>4, <3>5 DEF Strengthening
  <2> QED BY <2>1, <2>2, <2>3
<1>7. CASE ReplayCompact
  <2>1. pc = "rcomp" /\ UNCHANGED <<journal, history>>
    BY <1>7 DEF ReplayCompact, AbortReplay, Store!Compact, Store!Keep
  <2>2. HistoryKept
    BY <1>0, <2>1, HistorySame
  <2>3. CASE AbortReplay
    BY <2>1, <2>2, <2>3, AbortHeld
  <2>4. CASE pc' = "sub" /\ UNCHANGED <<fixed, replica, client>>
    <3>1. AllSettled
      BY <2>1, ConnectedSettled DEF IndInv, LoopsFollow, Running
    <3> QED BY <2>1, <2>2, <2>4, <3>1, IdleHeld DEF NoNewOk, Running, IdlePCs
  <2> QED BY <1>7, <2>3, <2>4 DEF ReplayCompact
<1> QED BY <1>1, <1>2, <1>3, <1>4, <1>5, <1>6, <1>7 DEF Replay

-----------------------------------------------------------------------------

\* The connected loop: events change neither list of accepted writes.
LEMMA ListenHeld ==
  ASSUME IndInv, Listen PROVE Strengthening'
<1>0. TypeOK
  BY DEF IndInv
<1>1. CASE \/ Subscribe \/ NewsFromOthers \/ EchoSuppressed
           \/ ConflictRemoteWins \/ ConflictLocalWins \/ SaveEvent
  <2>1. /\ pc \in {"sub", "stream", "evsnap"} /\ pc' \in {"stream", "evsnap"}
        /\ UNCHANGED <<config, call, durable, journal, history>>
    BY <1>1 DEF Subscribe, NewsFromOthers, EchoSuppressed, ConflictRemoteWins,
                ConflictLocalWins, SaveEvent, EventApplies, EventIgnored, AfterEvent,
                Store!StoreSnapshot
  <2>2. HistoryKept /\ NoNewOk /\ AllSettled
    BY <1>0, <2>1, HistorySame, ConnectedSettled DEF NoNewOk
  <2> QED BY <2>1, <2>2, IdleHeld DEF Running, IdlePCs
<1>2. CASE SubscribeFails \/ StreamEnds
  BY <1>2, ReconnectHeld DEF SubscribeFails, StreamEnds, Running
<1>3. CASE ConflictRejected
  BY <1>3, FailHeld DEF ConflictRejected, Fail
<1>4. CASE SaveEventFails
  <2>1. UNCHANGED <<journal, dropped>>
    BY <1>4 DEF SaveEventFails, Store!StoreSnapshot, Store!Keep
  <2> QED BY <1>4, <2>1, FailHeld DEF SaveEventFails
<1> QED BY <1>1, <1>2, <1>3, <1>4 DEF Listen

-----------------------------------------------------------------------------
(* handle_write: the task is connected, so every accepted write is settled  *)
(* already, and the one under way is once the database has it.              *)

\* A step of handle_write to its answer.
LEMMA AnswerOnlineHeld ==
  ASSUME IndInv, pc \in WritePCs, NEW answer \in Answers, FinishOnline(answer),
         HistoryKept, answer = "ok" => delivered'[cur.call] > 0, Increasing(durable')
  PROVE  Strengthening'
<1>0. TypeOK /\ AllSettled /\ cur.home = "stream" /\ cur.call \in Calls
  BY CurrentType, ConnectedSettled DEF IndInv, UnderWay
<1>1. /\ pc' = "stream" /\ config' = config
      /\ \A c \in Calls : call'[c] = "ok" => call[c] = "ok" \/ (c = cur.call /\ answer = "ok")
  BY <1>0 DEF FinishOnline, Finish, Reply, TypeOK
<1>2. AcceptedHeld'
  <2>1. ASSUME NEW c \in Calls, call'[c] = "ok" PROVE Settled(c)'
    <3>1. CASE call[c] = "ok"
      BY <1>0, <3>1, SettledStays DEF AllSettled
    <3>2. CASE c = cur.call /\ answer = "ok"
      BY <3>2 DEF Settled
    <3> QED BY <1>1, <2>1, <3>1, <3>2
  <2> QED BY <2>1 DEF AcceptedHeld
<1>3. IdsIncrease' /\ LoopsFollow' /\ UnderWay' /\ QueueingIsStored'
  BY <1>1 DEF IndInv, IdsIncrease, Increasing, LoopsFollow, UnderWay,
              QueueingIsStored, Running
<1> QED BY <1>2, <1>3 DEF Strengthening

\* A step of handle_write to its next await.
LEMMA OnlineHeld ==
  ASSUME IndInv, pc \in WritePCs, pc' \in {"wsnap", "wput", "wack", "wcomp"},
         UNCHANGED <<config, cur, call>>, HistoryKept,
         Increasing(durable'), pc' # "wput" \/ config.store => Holds(CurMut)',
         pc' \in {"wack", "wcomp"} => delivered'[cur.call] > 0
  PROVE  Strengthening'
<1>1. AllSettled /\ NoNewOk
  BY ConnectedSettled DEF NoNewOk
<1>2. AcceptedHeld'
  BY <1>1, SettledSuffices
<1>3. IdsIncrease' /\ LoopsFollow' /\ QueueingIsStored'
  BY DEF IndInv, IdsIncrease, Increasing, LoopsFollow, QueueingIsStored, Running
<1>4. UnderWay'
  BY DEF IndInv, UnderWay, Holds, CurMut
<1> QED BY <1>2, <1>3, <1>4 DEF Strengthening

\* The mutation of the write under way, once appended, is the last and newest.
LEMMA AppendHeld ==
  ASSUME IndInv, pc \in {"wappend", "oappend"}, durable' = Append(durable, CurMut)
  PROVE  /\ Increasing(durable')
         /\ \A m : Holds(m) => Holds(m)'
         /\ \E i \in DOMAIN durable' : durable'[i] = CurMut
<1>1. /\ durable \in Seq(Mutation) /\ Increasing(durable) /\ CurMut \in Mutation
      /\ \A i \in DOMAIN durable : durable[i].id < CurMut.id
  BY CurrentType DEF IndInv, TypeOK, IdsIncrease, CurMut
<1> QED BY <1>1, AppendIncreasing DEF Holds

\* The connected loop takes a write.
LEMMA TakeOnlineHeld ==
  ASSUME IndInv, WriteBadPath \/ WriteStored \/ WriteUnstored PROVE Strengthening'
<1>0. /\ TypeOK /\ Running /\ AllSettled /\ pc = "stream" /\ queue # <<>>
      /\ durable \in Seq(Mutation) /\ Increasing(durable)
      /\ UNCHANGED <<config, durable, journal, history>>
  BY ConnectedSettled
     DEF IndInv, TypeOK, IdsIncrease, WriteBadPath, WriteStored, WriteUnstored, Running
<1>1. HistoryKept
  BY <1>0, HistorySame
<1>2. CASE pc' = pc /\ Reply(Head(queue).call, "cancelled")
  <2>1. NoNewOk
    BY <1>0, <1>2, QueueHead, ReplyHistory
  <2> QED BY <1>0, <1>1, <1>2, <2>1, IdleHeld DEF IdlePCs
<1>3. CASE /\ cur' = Received("stream") /\ call' = call
           /\ pc' = (IF config.store THEN "wappend" ELSE "wput")
  <2>1. cur'.home = "stream" /\ cur'.id = NextId
    BY <1>3 DEF Received
  <2>2. \A i \in DOMAIN durable : durable[i].id < NextId
    BY <1>0, NextIdProperties
  <2>3. AcceptedHeld'
    BY <1>0, <1>1, <1>3, SettledSuffices DEF NoNewOk
  <2>4. IdsIncrease'
    BY <1>0, <1>3, <2>1, <2>2 DEF IdsIncrease, Increasing
  <2>5. LoopsFollow' /\ UnderWay' /\ QueueingIsStored'
    BY <1>0, <1>3, <2>1 DEF IndInv, LoopsFollow, UnderWay, QueueingIsStored, Running
  <2> QED BY <2>3, <2>4, <2>5 DEF Strengthening
<1> QED BY <1>2, <1>3 DEF WriteBadPath, WriteStored, WriteUnstored

\* handle_write.
LEMMA WriteOnlineHeld ==
  ASSUME IndInv, WriteOnline PROVE Strengthening'
<1>0. TypeOK /\ durable \in Seq(Mutation) /\ Increasing(durable)
  BY DEF IndInv, TypeOK, IdsIncrease
<1>1. CASE WriteAppend
  <2>1. /\ pc = "wappend" /\ durable' = Append(durable, CurMut)
        /\ UNCHANGED history
    BY <1>1 DEF WriteAppend
  <2>2. Increasing(durable') /\ \E i \in DOMAIN durable' : durable'[i] = CurMut
    BY <2>1, AppendHeld
  <2>3. HistoryKept
    BY <1>0, <2>1, HistorySame
  <2>4. CASE FinishOnline("cancelled")
    BY <2>1, <2>2, <2>3, <2>4, AnswerOnlineHeld DEF Answers
  <2>5. CASE pc' \in {"wsnap", "wput"} /\ UNCHANGED <<fixed, cur, client>>
    <3>1. Holds(CurMut)'
      BY <2>2, <2>5 DEF Holds, CurMut
    <3> QED BY <2>1, <2>2, <2>3, <2>5, <3>1, OnlineHeld
  <2> QED BY <1>1, <2>4, <2>5 DEF WriteAppend
<1>2. CASE WriteAppendFails \/ WriteSnapshotFails
  <2>1. /\ pc \in {"wappend", "wsnap"} /\ FinishOnline("err")
        /\ UNCHANGED <<durable, history>>
    BY <1>2 DEF WriteAppendFails, WriteSnapshotFails
  <2>2. HistoryKept /\ Increasing(durable')
    BY <1>0, <2>1, HistorySame
  <2> QED BY <2>1, <2>2, AnswerOnlineHeld DEF Answers
<1>3. CASE WriteSnapshot
  <2>1. /\ pc = "wsnap" /\ pc' = "wput"
        /\ UNCHANGED <<config, cur, call, durable, history>>
    BY <1>3 DEF WriteSnapshot
  <2>2. HistoryKept /\ Increasing(durable')
    BY <1>0, <2>1, HistorySame
  <2>3. Holds(CurMut)'
    BY <2>1 DEF IndInv, UnderWay, Holds, CurMut
  <2> QED BY <2>1, <2>2, <2>3, OnlineHeld
<1>4. CASE WritePut
  <2>1. /\ pc = "wput" /\ Deliver(cur.call, cur.ev) /\ UNCHANGED durable
    BY <1>4 DEF WritePut
  <2>2. HistoryKept /\ delivered'[cur.call] > 0 /\ Increasing(durable')
    BY <1>0, <2>1, CurrentType, DeliverHistory
  <2>3. CASE config.store /\ pc' = "wack" /\ UNCHANGED <<fixed, cur, client>>
    <3>1. Holds(CurMut)'
      BY <2>1, <2>3 DEF IndInv, UnderWay, Holds, CurMut
    <3> QED BY <2>1, <2>2, <2>3, <3>1, OnlineHeld
  <2>4. CASE FinishOnline("ok")
    BY <2>1, <2>2, <2>4, AnswerOnlineHeld DEF Answers
  <2> QED BY <1>4, <2>3, <2>4 DEF WritePut
<1>5. CASE WritePutFails
  <2>1. /\ pc = "wput" /\ FinishOnline("err") /\ UNCHANGED durable
        /\ Deliver(cur.call, cur.ev) \/ UNCHANGED history
    BY <1>5 DEF WritePutFails
  <2>2. HistoryKept /\ Increasing(durable')
    BY <1>0, <2>1, CurrentType, DeliverHistory, HistorySame
  <2> QED BY <2>1, <2>2, AnswerOnlineHeld DEF Answers
<1>6. CASE WriteAck
  <2>1. pc = "wack" /\ UNCHANGED <<durable, history>>
    BY <1>6 DEF WriteAck
  <2>2. HistoryKept /\ Increasing(durable')
    BY <1>0, <2>1, HistorySame
  <2>3. CASE pc' = "wcomp" /\ UNCHANGED <<fixed, cur, client>>
    <3>1. Holds(CurMut)' /\ delivered'[cur.call] > 0
      BY <2>1, <2>3 DEF IndInv, UnderWay, Holds, CurMut
    <3> QED BY <2>1, <2>2, <2>3, <3>1, OnlineHeld
  <2>4. CASE FinishOnline("err")
    BY <2>1, <2>2, <2>4, AnswerOnlineHeld DEF Answers
  <2> QED BY <1>6, <2>3, <2>4 DEF WriteAck
<1>7. CASE WriteCompact
  <2>1. /\ pc = "wcomp" /\ UNCHANGED history
        /\ durable' = Without(durable, cur.id) \/ UNCHANGED durable
        /\ \E answer \in {"ok", "err"} : FinishOnline(answer)
    BY <1>7 DEF WriteCompact
  <2>2. HistoryKept /\ Increasing(durable')
    BY <1>0, <2>1, HistorySame, WithoutProperties
  <2>3. delivered'[cur.call] > 0
    BY <2>1 DEF IndInv, UnderWay
  <2> QED BY <2>1, <2>2, <2>3, AnswerOnlineHeld DEF Answers
<1> QED
  BY <1>1, <1>2, <1>3, <1>4, <1>5, <1>6, <1>7, TakeOnlineHeld DEF WriteOnline

-----------------------------------------------------------------------------
(* handle_offline_write. *)

\* A step of handle_offline_write to its answer: a write answered with Ok has
\* its mutation in the journal and in durable_pending.
LEMMA AnswerOfflineHeld ==
  ASSUME IndInv, pc \in OfflinePCs, NEW answer \in Answers, FinishOffline(answer),
         UNCHANGED <<durable, history>>,
         \A m \in journal : Holds(m) => m \in journal',
         answer = "ok" => CurMut \in journal' /\ Holds(CurMut)
  PROVE  Strengthening'
<1>0. TypeOK /\ cur.home \in {"get", "queue"} /\ cur.call \in Calls /\ config.store
  BY CurrentType DEF IndInv, UnderWay, QueueingIsStored
<1>1. /\ pc' \in {"get", "queue"} /\ config' = config
      /\ \A c \in Calls : call'[c] = "ok" => call[c] = "ok" \/ (c = cur.call /\ answer = "ok")
  BY <1>0 DEF FinishOffline, Finish, Reply, TypeOK
<1>2. AcceptedHeld'
  <2> SUFFICES ASSUME NEW c \in Calls, call'[c] = "ok", ~ Settled(c)'
               PROVE  \E m \in journal' : m.call = c /\ Holds(m)'
    BY <1>0, <1>1 DEF AcceptedHeld
  <2>1. CASE c = cur.call /\ answer = "ok"
    BY <2>1 DEF Holds, CurMut
  <2>2. CASE call[c] = "ok"
    <3>1. ~ Settled(c) /\ Running
      BY DEF Settled, Running
    <3>2. PICK m \in journal : m.call = c /\ Holds(m)
      BY <2>2, <3>1, HeldMutation
    <3> QED BY <3>2 DEF Holds
  <2> QED BY <1>1, <2>1, <2>2
<1>3. IdsIncrease' /\ LoopsFollow' /\ UnderWay' /\ QueueingIsStored'
  BY <1>0, <1>1 DEF IndInv, IdsIncrease, Increasing, LoopsFollow, UnderWay,
                    QueueingIsStored, Running
<1> QED BY <1>2, <1>3 DEF Strengthening

\* The new id replaces no mutation of the journal that the task holds.
LEMMA AppendKeepsHeld ==
  ASSUME IndInv, pc = "oappend", Store!AppendMutation(CurMut),
         NEW m \in journal, Holds(m)
  PROVE  m \in journal'
<1>1. PICK i \in DOMAIN durable : durable[i] = m
  BY DEF Holds
<1>2. durable[i].id < cur.id
  BY DEF IndInv, IdsIncrease
<1>3. durable[i] \in Mutation /\ CurMut \in Mutation
  BY CurrentType, ElementOfSeq, LenProperties DEF IndInv, TypeOK
<1>4. m.id # CurMut.id
  BY <1>1, <1>2, <1>3 DEF Mutation, CurMut
<1> QED BY <1>4 DEF Store!AppendMutation

\* handle_offline_write: the journal has the mutation before the caller has its Ok.
LEMMA WriteOfflineHeld ==
  ASSUME IndInv, WriteOffline PROVE Strengthening'
<1>0. /\ TypeOK /\ durable \in Seq(Mutation) /\ Increasing(durable)
      /\ pc \in {"offline", "queue"} \cup OfflinePCs => config.store /\ Running
  BY DEF IndInv, TypeOK, IdsIncrease, QueueingIsStored, Running
<1>1. CASE OfflineRefused
  <2>1. /\ pc \in {"offline", "queue"} /\ queue # <<>>
        /\ \E a \in {"err", "cancelled"} : Finish(Received(Home), a)
        /\ UNCHANGED <<config, durable, journal, history>>
    BY <1>1 DEF OfflineRefused
  <2>2. /\ Received(Home).call \in Calls
        /\ Received(Home).home = Home
    BY <1>0, <2>1, QueueHead DEF Received
  <2>3. HistoryKept /\ NoNewOk /\ pc' = Home
    BY <1>0, <2>1, <2>2, HistorySame, ReplyHistory DEF Finish
  <2>4. CASE pc' = "get"
    BY <1>0, <2>1, <2>3, <2>4, IdleHeld DEF IdlePCs
  <2>5. CASE pc' = "queue" /\ pc = "queue"
    <3>1. AcceptedHeld'
      BY <1>0, <2>1, <2>3, <2>5, HeldStays
    <3>2. IdsIncrease' /\ LoopsFollow' /\ UnderWay' /\ QueueingIsStored'
      BY <2>1, <2>5 DEF IndInv, IdsIncrease, Increasing, LoopsFollow, UnderWay,
                        QueueingIsStored, Running
    <3> QED BY <3>1, <3>2 DEF Strengthening
  <2> QED BY <2>3, <2>4, <2>5 DEF Home
<1>2. CASE OfflineAccept
  <2>1. /\ pc \in {"offline", "queue"} /\ pc' = "oappend" /\ cur' = Received(Home)
        /\ UNCHANGED <<config, call, durable, journal, history>>
    BY <1>2 DEF OfflineAccept
  <2>2. cur'.home \in {"get", "queue"} /\ cur'.id = NextId
    BY <2>1 DEF Received, Home
  <2>3. \A i \in DOMAIN durable : durable[i].id < NextId
    BY <1>0, NextIdProperties
  <2>4. HistoryKept /\ NoNewOk
    BY <1>0, <2>1, HistorySame DEF NoNewOk
  <2>5. AcceptedHeld'
    BY <1>0, <2>1, <2>4, HeldStays
  <2>6. IdsIncrease'
    BY <1>0, <2>1, <2>2, <2>3 DEF IdsIncrease, Increasing
  <2>7. LoopsFollow' /\ UnderWay' /\ QueueingIsStored'
    BY <2>1, <2>2 DEF IndInv, LoopsFollow, UnderWay, QueueingIsStored, Running
  <2> QED BY <2>5, <2>6, <2>7 DEF Strengthening
<1>3. CASE OfflineAppend
  <2>1. /\ pc = "oappend" /\ pc' = "osnap" /\ Store!AppendMutation(CurMut)
        /\ durable' = Append(durable, CurMut)
        /\ UNCHANGED <<config, cur, call, history>>
    BY <1>3 DEF OfflineAppend
  <2>2. /\ Increasing(durable') /\ \A m : Holds(m) => Holds(m)'
        /\ CurMut' = CurMut /\ Holds(CurMut)'
    BY <2>1, AppendHeld DEF Holds, CurMut
  <2>3. CurMut \in journal'
    BY <2>1 DEF Store!AppendMutation
  <2>4. \A m \in journal : Holds(m) => m \in journal'
    BY <2>1, AppendKeepsHeld
  <2>5. AcceptedHeld'
    <3> SUFFICES ASSUME NEW c \in Calls, call'[c] = "ok", ~ Settled(c)'
                 PROVE  /\ config'.store /\ pc' \notin ConnectedPCs
                        /\ \E m \in journal' : m.call = c /\ (Running' => Holds(m)')
      BY DEF AcceptedHeld
    <3>1. call[c] = "ok" /\ ~ Settled(c)
      BY <2>1 DEF Settled
    <3>2. PICK m \in journal : m.call = c /\ Holds(m)
      BY <1>0, <2>1, <3>1, HeldMutation
    <3>3. m \in journal' /\ Holds(m)'
      BY <2>2, <2>4, <3>2
    <3> QED BY <1>0, <2>1, <3>2, <3>3
  <2>6. IdsIncrease' /\ LoopsFollow' /\ QueueingIsStored'
    BY <2>1, <2>2 DEF IndInv, IdsIncrease, Increasing, LoopsFollow, QueueingIsStored,
                      Running
  <2>7. UnderWay'
    BY <2>1, <2>2, <2>3 DEF IndInv, UnderWay
  <2> QED BY <2>5, <2>6, <2>7 DEF Strengthening
<1>4. CASE OfflineAppendFails
  <2>1. /\ pc = "oappend" /\ FinishOffline("err") /\ UNCHANGED <<durable, history>>
        /\ Store!AppendMutation(CurMut) \/ UNCHANGED journal
    BY <1>4 DEF OfflineAppendFails, Store!Keep
  <2>2. \A m \in journal : Holds(m) => m \in journal'
    BY <2>1, AppendKeepsHeld
  <2> QED BY <2>1, <2>2, AnswerOfflineHeld DEF Answers
<1>5. CASE OfflineSnapshot
  <2>1. /\ pc = "osnap" /\ UNCHANGED <<durable, history, journal>>
        /\ \E answer \in {"ok", "err"} : FinishOffline(answer)
    BY <1>5 DEF OfflineSnapshot, Store!StoreSnapshot, Store!Keep
  <2>2. CurMut \in journal' /\ Holds(CurMut)
    BY <2>1 DEF IndInv, UnderWay
  <2> QED BY <2>1, <2>2, AnswerOfflineHeld DEF Answers
<1> QED BY <1>1, <1>2, <1>3, <1>4, <1>5 DEF WriteOffline

-----------------------------------------------------------------------------

\* Steps of the environment the task does not notice.
LEMMA UnnoticedHeld ==
  ASSUME IndInv, UNCHANGED <<fixed, pc, task, journal, history>>, NoNewOk
  PROVE  Strengthening'
<1>0. TypeOK /\ HistoryKept
  BY HistorySame DEF IndInv
<1>1. AcceptedHeld'
  <2>1. pc \in ConnectedPCs => AllSettled
    BY ConnectedSettled
  <2> QED BY <1>0, <2>1, HeldStays DEF Running
<1>2. IdsIncrease' /\ LoopsFollow'
  BY DEF IndInv, IdsIncrease, Increasing, LoopsFollow, Holds
<1>3. UnderWay' /\ QueueingIsStored'
  BY DEF IndInv, UnderWay, QueueingIsStored, Holds, CurMut, Running
<1> QED BY <1>1, <1>2, <1>3 DEF Strengthening

\* The callers, the process, the network and the other clients.
LEMMA EnvironmentHeld ==
  ASSUME IndInv, Environment PROVE Strengthening'
<1>0. TypeOK
  BY DEF IndInv
<1>1. CASE \E c \in Calls, e \in Writes : Submit(c, e)
  <2>1. NoNewOk /\ UNCHANGED <<fixed, pc, task, journal, history>>
    BY <1>0, <1>1 DEF Submit, NoNewOk, TypeOK
  <2> QED BY <2>1, UnnoticedHeld
<1>2. CASE \E c \in Calls : Abandon(c)
  <2>1. NoNewOk /\ UNCHANGED <<fixed, pc, task, journal, history>>
    BY <1>0, <1>2 DEF Abandon, NoNewOk, TypeOK
  <2> QED BY <2>1, UnnoticedHeld
<1>3. CASE Shutdown
  <2>1. /\ UNCHANGED <<config, call, pc, task, journal, history>>
    BY <1>3 DEF Shutdown
  <2>2. NoNewOk /\ HistoryKept
    BY <1>0, <2>1, HistorySame DEF NoNewOk
  <2>3. AcceptedHeld'
    <3>1. pc \in ConnectedPCs => AllSettled
      BY ConnectedSettled
    <3> QED BY <2>1, <2>2, <3>1, HeldStays DEF Running
  <2>4. IdsIncrease' /\ LoopsFollow'
    BY <2>1 DEF IndInv, IdsIncrease, Increasing, LoopsFollow, Holds
  <2>5. UnderWay' /\ QueueingIsStored'
    BY <2>1 DEF IndInv, UnderWay, QueueingIsStored, Holds, CurMut, Running
  <2> QED BY <2>3, <2>4, <2>5 DEF Strengthening
<1>4. CASE Crash \/ Restart
  <2>1. /\ pc' = "load" /\ durable' = <<>> /\ UNCHANGED <<config, journal, history>>
        /\ NoNewOk
    BY <1>0, <1>4 DEF Crash, Restart, Release, NoNewOk, TypeOK
  <2>2. HistoryKept
    BY <1>0, <2>1, HistorySame
  <2>3. AcceptedHeld'
    <3> SUFFICES ASSUME NEW c \in Calls, call'[c] = "ok", ~ Settled(c)'
                 PROVE  config.store /\ \E m \in journal : m.call = c
      BY <2>1 DEF AcceptedHeld, Running
    <3>1. call[c] = "ok" /\ ~ Settled(c)
      BY <2>1, <2>2, SettledStays DEF NoNewOk
    <3> QED BY <3>1, HeldMutation
  <2>4. DOMAIN durable' = {}
    BY <2>1
  <2>5. IdsIncrease' /\ LoopsFollow' /\ UnderWay' /\ QueueingIsStored'
    BY <2>1, <2>4
       DEF IdsIncrease, Increasing, LoopsFollow, UnderWay, QueueingIsStored, Running
  <2> QED BY <2>3, <2>5 DEF Strengthening
<1>5. CASE Cut
  <2>1. NoNewOk /\ UNCHANGED <<fixed, pc, task, journal, history>>
    BY <1>5 DEF Cut, NoNewOk
  <2> QED BY <2>1, UnnoticedHeld
<1>6. CASE \E e \in RemoteWrites : OtherWrite(e)
  <2>1. NoNewOk /\ UNCHANGED <<fixed, pc, task, journal, history>>
    BY <1>6 DEF OtherWrite, NoNewOk
  <2> QED BY <2>1, UnnoticedHeld
<1> QED BY <1>1, <1>2, <1>3, <1>4, <1>5, <1>6 DEF Environment

\* The inductive invariant holds initially.
LEMMA InitHeld ==
  ASSUME Init PROVE IndInv
<1>1. DOMAIN durable = {}
  BY DEF Init
<1>2. TypeOK
  BY InitType
<1>3. IdsIncrease /\ LoopsFollow /\ UnderWay /\ QueueingIsStored /\ AcceptedHeld
  BY <1>1 DEF Init, IdsIncrease, Increasing, LoopsFollow, UnderWay, QueueingIsStored,
              AcceptedHeld, Running
<1> QED BY <1>2, <1>3 DEF IndInv

\* Every step keeps it.
LEMMA StepHeld ==
  ASSUME IndInv, [Next]_vars PROVE IndInv'
<1>1. TypeOK'
  BY StepType DEF IndInv
<1>2. Strengthening'
  <2>1. CASE Task
    BY <2>1, LoadHeld, WaitingHeld, HydrateHeld, ReplayHeld, ListenHeld,
       WriteOnlineHeld, WriteOfflineHeld DEF Task
  <2>2. CASE Environment
    BY <2>2, EnvironmentHeld
  <2>3. CASE UNCHANGED vars
    BY <2>3, UnnoticedHeld DEF vars, NoNewOk
  <2> QED BY <2>1, <2>2, <2>3 DEF Next
<1> QED BY <1>1, <1>2 DEF IndInv, Strengthening

\* The engine keeps the inductive invariant, for every set of calls and of
\* writes, every configuration and any number of faults.
THEOREM Inductive == Spec => []IndInv
<1>1. IndInv /\ [Next]_vars => IndInv'
  BY StepHeld
<1> QED BY InitHeld, <1>1, PTL DEF Spec

\* No write answered with Ok is lost: it has reached the database, a conflict
\* policy has discarded it, or the journal has it.
THEOREM AcceptedWritesSurvive == Spec => []AcceptedNotLost
<1>1. IndInv => AcceptedNotLost
  BY DEF IndInv, AcceptedHeld, AcceptedNotLost, Journaled
<1> QED BY <1>1, Inductive, PTL

\* A task that is connected has settled every write it ever answered with Ok:
\* replay comes first, and a replay that fails leads back to hydration.
THEOREM ConnectedWritesSettled == Spec => []ConnectedIsSettled
<1>1. IndInv => ConnectedIsSettled
  BY DEF IndInv, AcceptedHeld, ConnectedIsSettled
<1> QED BY <1>1, Inductive, PTL
=============================================================================
