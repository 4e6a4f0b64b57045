---------------------------- MODULE JournalProofs ----------------------------
(***************************************************************************)
(* What the journal has of the task's list, in which order a replay sends  *)
(* it and how often a write is sent, for every set of calls and of writes, *)
(* every configuration and any number of faults.                           *)
(*                                                                         *)
(* The step lemmas of the first part say once how an action touches the    *)
(* journal and the list (JournalStep); the invariants of SyncEngine follow *)
(* from that and from IndInv without looking at the actions again.         *)
(***************************************************************************)
EXTENDS SyncEngineProofs, SyncObserver

USE DEF fixed, client, store, world, replica, restore, history, task, outside,
        PCs, WritePCs, OfflinePCs, ReplayPCs, ConnectedPCs

-----------------------------------------------------------------------------
(* Faults. *)

\* A step uses at most one fault, and no other handle takes over.
OneFault == UNCHANGED left \/ \E f \in FaultKinds : Fault(f)

\* A configuration stays with its handle, and a step meets at most one fault.
LEMMA StepFaults ==
  ASSUME [Next]_vars PROVE config' = config /\ OneFault
<1> USE DEF OneFault, FaultKinds, NoFault
<1>1. CASE Load
  BY <1>1 DEF Load, Misconfigured, StartUnstored, Restore, RestoreFails, Fail, Terminate,
              Release
<1>2. CASE Waiting
  BY <1>2 DEF Waiting, BackedOff, OfflineDelayOver, QueueDelayOver, Stop, Terminate,
              Release
<1>3. ASSUME NEW v, Retry(v) PROVE config' = config /\ OneFault
  BY <1>3 DEF Retry, Terminate, Release
<1>4. ASSUME NEW v, Reconnect(v) PROVE config' = config /\ OneFault
  BY <1>3, <1>4 DEF Reconnect, QueueWrites
<1>5. CASE Hydrate
  <2>1. CASE Get \/ GetFails
    BY <1>3, <2>1 DEF Get, GetFails
  <2>2. CASE ResolveKeep \/ ResolveDrop \/ ResolveDropFails \/ ResolveReject
    BY <2>2 DEF ResolveKeep, ResolveDrop, ResolveDropFails, ResolveReject, Fail,
                Terminate, Release
  <2>3. CASE Resolved \/ ResolveCompact \/ Hydrated \/ HydratedFails
    BY <2>3 DEF Resolved, ResolveCompact, Hydrated, HydratedFails, Fail, Terminate,
                Release
  <2> QED BY <1>5, <2>1, <2>2, <2>3 DEF Hydrate
<1>6. CASE Replay
  BY <1>6 DEF Replay, ReplayPut, ReplayPutFails, ReplaySnapshot, ReplaySnapshotFails,
              ReplayAck, ReplayAckFails, ReplayCompact, AbortReplay
<1>7. CASE Listen
  <2>1. CASE Subscribe \/ SubscribeFails \/ StreamEnds
    BY <1>4, <2>1 DEF Subscribe, SubscribeFails, StreamEnds
  <2>2. CASE NewsFromOthers \/ EchoSuppressed \/ ConflictRemoteWins \/ ConflictLocalWins
    BY <2>2 DEF NewsFromOthers, EchoSuppressed, ConflictRemoteWins, ConflictLocalWins,
                EventApplies, EventIgnored
  <2>3. CASE ConflictRejected \/ SaveEvent \/ SaveEventFails
    BY <2>3 DEF ConflictRejected, SaveEvent, SaveEventFails, Fail, Terminate, Release
  <2> QED BY <1>7, <2>1, <2>2, <2>3 DEF Listen
<1>8. CASE WriteOnline
  <2>1. CASE WriteBadPath \/ WriteStored \/ WriteUnstored
    BY <2>1 DEF WriteBadPath, WriteStored, WriteUnstored
  <2>2. CASE WriteAppend \/ WriteAppendFails \/ WriteSnapshot \/ WriteSnapshotFails
    BY <2>2 DEF WriteAppend, WriteAppendFails, WriteSnapshot, WriteSnapshotFails,
                FinishOnline
  <2>3. CASE WritePut \/ WritePutFails \/ WriteAck \/ WriteCompact
    BY <2>3 DEF WritePut, WritePutFails, WriteAck, WriteCompact, FinishOnline
  <2> QED BY <1>8, <2>1, <2>2, <2>3 DEF WriteOnline
<1>9. CASE WriteOffline
  BY <1>9 DEF WriteOffline, OfflineRefused, OfflineAccept, OfflineAppend,
              OfflineAppendFails, OfflineSnapshot, FinishOffline
<1>10. CASE Environment
  BY <1>10 DEF Environment, Submit, Abandon, Shutdown, Crash, Restart, Cut, OtherWrite,
               Release
<1>11. CASE UNCHANGED vars
  BY <1>11 DEF vars
<1> QED
  BY <1>1, <1>2, <1>5, <1>6, <1>7, <1>8, <1>9, <1>10, <1>11 DEF Next, Task

\* A step only uses faults up.
LEMMA FaultsFall ==
  ASSUME TypeOK, FaultsLeft, OneFault
  PROVE  /\ FaultsLeft'
         /\ \A f \in FaultKinds : /\ Used(f) \in Nat /\ Used(f)' \in Nat
                                  /\ Used(f) <= Used(f)'
<1>1. \A f \in FaultKinds : left[f] \in Nat /\ Faults[f] \in Nat
  BY EngineAssumption DEF TypeOK
<1>2. \A f \in FaultKinds : left'[f] \in Nat /\ left'[f] <= left[f]
  <2>1. CASE UNCHANGED left
    BY <1>1, <2>1
  <2>2. ASSUME NEW g \in FaultKinds, Fault(g)
        PROVE  \A f \in FaultKinds : left'[f] \in Nat /\ left'[f] <= left[f]
    BY <1>1, <2>2 DEF Fault, TypeOK
  <2> QED BY <2>1, <2>2 DEF OneFault
<1> QED BY <1>1, <1>2 DEF FaultsLeft, Used

\* A fault that happens is counted.
LEMMA FaultCounted ==
  ASSUME TypeOK, FaultsLeft, NEW f \in FaultKinds, Fault(f)
  PROVE  Used(f)' = Used(f) + 1 /\ Used(f) \in Nat
<1>1. \A g \in FaultKinds : left[g] \in Nat /\ Faults[g] \in Nat
  BY EngineAssumption DEF TypeOK
<1>2. left'[f] = left[f] - 1 /\ left[f] > 0
  BY DEF Fault, TypeOK
<1> QED BY <1>1, <1>2 DEF FaultsLeft, Used

\* Nothing has failed after a step only if nothing had before, and no store
\* operation or request fails in it.
LEMMA UnfailedBefore ==
  ASSUME TypeOK, FaultsLeft, OneFault
  PROVE  /\ Unfailed' => Unfailed /\ ~ Fault("io") /\ ~ Fault("put")
         /\ Used("io")' = 0 => Used("io") = 0 /\ ~ Fault("io")
<1>1. "io" \in FaultKinds /\ "put" \in FaultKinds
  BY DEF FaultKinds
<1>2. /\ Used("io") \in Nat /\ Used("io")' \in Nat /\ Used("io") <= Used("io")'
      /\ Used("put") \in Nat /\ Used("put")' \in Nat /\ Used("put") <= Used("put")'
  BY <1>1, FaultsFall
<1>3. Fault("io") => Used("io")' = Used("io") + 1
  BY <1>1, FaultCounted
<1>4. Fault("put") => Used("put")' = Used("put") + 1
  BY <1>1, FaultCounted
<1>5. ASSUME Unfailed'
      PROVE  Denied = {} /\ Used("io")' = 0 /\ Used("put")' = 0
  BY <1>2, <1>5 DEF Unfailed
<1> HIDE DEF Used
<1>6. Unfailed' => Unfailed /\ ~ Fault("io") /\ ~ Fault("put")
  <2> SUFFICES ASSUME Unfailed' PROVE Unfailed /\ ~ Fault("io") /\ ~ Fault("put")
    OBVIOUS
  <2>1. Denied = {} /\ Used("io")' = 0 /\ Used("put")' = 0
    BY <1>5
  <2>2. Used("io") = 0 /\ Used("put") = 0
    BY <1>2, <2>1
  <2> QED BY <1>3, <1>4, <2>1, <2>2 DEF Unfailed
<1> QED BY <1>2, <1>3, <1>6

-----------------------------------------------------------------------------
(* The ways a step touches the journal and the list of the task. *)

\* Where a connected task holds nothing, and where it holds the write under way.
ClearPCs == {"sub", "stream", "evsnap", "wappend"}
HoldingPCs == {"wsnap", "wput", "wack", "wcomp"}
AppendPCs == {"wappend", "oappend"}

\* The task ends: its list goes, the journal is kept or a mutation is discarded.
Ends == pc' \in {"load", "done"} /\ durable' = <<>> /\ journal' \subseteq journal

\* A task starts: its list is what the journal holds, if it has a store.
Loads ==
  /\ pc = "load" /\ pc' = "get" /\ UNCHANGED journal
  /\ \/ ~config.store /\ UNCHANGED durable
     \/ config.store /\ durable' \in [1..Cardinality(journal) -> journal]
        /\ Store!IsLoaded(durable')

\* Neither changes.
Stays ==
  /\ UNCHANGED <<durable, journal>> /\ (Running' <=> Running)
  /\ pc' \in ClearPCs =>
       pc \in ClearPCs \/ durable = <<>> \/ ~config.store \/ ~ Unfailed'
  /\ pc' \in HoldingPCs => ~config.store \/ (pc \in HoldingPCs /\ cur' = cur)
  /\ pc = "wcomp" => pc' = "wcomp" \/ Used("io")' # 0
  /\ pc' = "wcomp" => pc = "wcomp" /\ cur' = cur
  /\ pc' = "wappend" => pc = "wappend" \/ config.store
  /\ pc' \in AppendPCs => cur'.id = NextId \/ (pc' = pc /\ cur' = cur)
  /\ pc' = "oappend" => pc = "oappend" \/ Len(durable) < config.limit

\* The mutation of the write under way goes into both.
Appends ==
  /\ pc \in AppendPCs /\ Running'
  /\ Store!AppendMutation(CurMut) /\ durable' = Append(durable, CurMut)
  /\ pc' \notin AppendPCs \cup {"wcomp"}
  /\ pc' \in ClearPCs => ~ Unfailed'
  /\ pc' \in HoldingPCs => pc = "wappend" /\ cur' = cur

\* The append fails after its line was written.
LineLeft ==
  /\ pc \in AppendPCs /\ Running' /\ pc' \notin AppendPCs \cup HoldingPCs
  /\ Store!AppendMutation(CurMut) /\ UNCHANGED durable
  /\ Used("io")' # 0 /\ ~ Unfailed'

\* A mutation goes from both.
Settles ==
  /\ pc \in {"resolve", "rack"} /\ pc' \in {"resolve", "rput", "rcomp"}
  /\ \E m : /\ Holds(m) /\ Store!AcknowledgeMutation(m.id)
            /\ durable' = Without(durable, m.id)

\* A mutation goes from the journal only: the acknowledgement fails after its line
\* was written, or the list follows with the compaction.
Acknowledges ==
  /\ Running /\ UNCHANGED durable
  /\ \E m : Holds(m) /\ Store!AcknowledgeMutation(m.id)
  /\ \/ pc' \in {"get", "stream"} /\ Used("io")' # 0 /\ ~ Unfailed'
     \/ /\ pc = "wack" /\ pc' = "wcomp" /\ cur' = cur
        /\ Store!AcknowledgeMutation(cur.id)

\* The list follows.
Compacts ==
  /\ pc = "wcomp" /\ pc' = "stream"
  /\ UNCHANGED journal /\ durable' = Without(durable, cur.id)

JournalStep ==
  Ends \/ Loads \/ Stays \/ Appends \/ LineLeft \/ Settles \/ Acknowledges \/ Compacts

\* A task that returns with its journal, or without a mutation it has discarded.
LEMMA TerminateEnds ==
  ASSUME NEW st, Terminate(st), journal' \subseteq journal PROVE Ends
BY DEF Terminate, Release, Ends

\* An acknowledgement adds nothing to the journal.
LEMMA AckShrinks ==
  ASSUME NEW id, Store!AcknowledgeMutation(id) PROVE journal' \subseteq journal
BY DEF Store!AcknowledgeMutation

\* Starting.
LEMMA LoadStep ==
  ASSUME IndInv, Load PROVE JournalStep
<1>1. CASE Misconfigured \/ RestoreFails
  BY <1>1, TerminateEnds DEF Misconfigured, RestoreFails, Fail, JournalStep
<1>2. CASE StartUnstored
  BY <1>2 DEF StartUnstored, Loads, JournalStep
<1>3. CASE Restore
  BY <1>3 DEF Restore, Loads, JournalStep
<1> QED BY <1>1, <1>2, <1>3 DEF Load

\* A step to an await at which nothing is written, with both as they were.
LEMMA IdleStays ==
  ASSUME UNCHANGED <<durable, journal>>, Running, pc # "wcomp",
         pc' \in PCs \ ({"load", "done", "oappend"} \cup ClearPCs \cup HoldingPCs)
  PROVE  JournalStep
BY DEF Stays, Running, ClearPCs, HoldingPCs, AppendPCs, JournalStep

\* retry, reconnect_or_queue and their delays.
LEMMA ReconnectStep ==
  ASSUME IndInv, Running, pc # "wcomp", NEW v, Retry(v) \/ Reconnect(v)
  PROVE  JournalStep
<1>1. CASE \/ QueueWrites(v)
           \/ pc' = "backoff" /\ UNCHANGED <<replica, outside>>
  BY <1>1, IdleStays DEF QueueWrites, ClearPCs, HoldingPCs
<1>2. CASE Terminate(v) /\ UNCHANGED <<store, dropped>>
  BY <1>2, TerminateEnds DEF JournalStep
<1> QED BY <1>1, <1>2 DEF Reconnect, Retry

\* The end of a delay, and the cancellation branches.
LEMMA WaitingStep ==
  ASSUME IndInv, Waiting PROVE JournalStep
<1>1. CASE BackedOff \/ OfflineDelayOver \/ QueueDelayOver
  <2>1. pc' \in {"get", "queue"} /\ UNCHANGED <<durable, journal>>
        /\ pc \in {"backoff", "offline", "queue"}
    BY <1>1 DEF BackedOff, OfflineDelayOver, QueueDelayOver
  <2> QED BY <2>1, IdleStays DEF ClearPCs, HoldingPCs, Running
<1>2. CASE Stop
  BY <1>2, TerminateEnds DEF Stop, JournalStep
<1> QED BY <1>1, <1>2 DEF Waiting

\* Hydration.
LEMMA HydrateStep ==
  ASSUME IndInv, Hydrate PROVE JournalStep
<1>1. CASE Get
  <2>1. UNCHANGED <<durable, journal>> /\ pc = "get"
    BY <1>1 DEF Get
  <2>2. CASE pc' \in {"resolve", "hsnap"}
    BY <2>1, <2>2, IdleStays DEF ClearPCs, HoldingPCs, Running
  <2>3. CASE pc' = "sub" /\ ~config.store
    BY <2>1, <2>3 DEF Stays, Running, ClearPCs, HoldingPCs, AppendPCs, JournalStep
  <2> QED BY <1>1, <2>2, <2>3 DEF Get
<1>2. CASE GetFails
  <2>1. CASE pc' = "offline" /\ UNCHANGED <<task, outside>>
    BY <1>2, <2>1, IdleStays DEF GetFails, ClearPCs, HoldingPCs, Running
  <2>2. CASE Retry("Failed")
    BY <1>2, <2>2, ReconnectStep DEF GetFails, Running
  <2> QED BY <1>2, <2>1, <2>2 DEF GetFails
<1>3. CASE ResolveKeep \/ Resolved
  <2>1. /\ pc = "resolve" /\ pc' \in {"resolve", "rescomp", "hsnap"}
        /\ UNCHANGED <<durable, journal>>
    BY <1>3 DEF ResolveKeep, Resolved
  <2> QED BY <2>1, IdleStays DEF ClearPCs, HoldingPCs, Running
<1>4. CASE ResolveDrop
  <2>1. /\ pc = "resolve" /\ pc' = "resolve" /\ todo # <<>>
        /\ Store!AcknowledgeMutation(Head(todo).id)
        /\ durable' = Without(durable, Head(todo).id)
    BY <1>4 DEF ResolveDrop
  <2>2. Holds(Head(todo))
    BY <2>1, LoopHead
  <2> QED BY <2>1, <2>2 DEF Settles, Running, JournalStep
<1>5. CASE ResolveDropFails \/ ResolveReject \/ HydratedFails
  <2>1. \E st : Terminate(st)
    BY <1>5 DEF ResolveDropFails, ResolveReject, HydratedFails, Fail
  <2>2. journal' \subseteq journal
    BY <1>5, AckShrinks DEF ResolveDropFails, ResolveReject, HydratedFails, Fail, Store!Keep,
       Store!StoreSnapshot
  <2> QED BY <2>1, <2>2, TerminateEnds DEF JournalStep
<1>6. CASE ResolveCompact
  <2>1. CASE Fail
    BY <2>1, TerminateEnds DEF Fail, JournalStep
  <2>2. CASE pc' = "hsnap" /\ UNCHANGED <<task, journal>>
    BY <1>6, <2>2, IdleStays DEF ResolveCompact, ClearPCs, HoldingPCs, Running
  <2> QED BY <1>6, <2>1, <2>2 DEF ResolveCompact, Store!Compact, Store!Keep
<1>7. CASE Hydrated
  <2>1. UNCHANGED <<durable, journal>> /\ pc = "hsnap"
    BY <1>7 DEF Hydrated, Store!StoreSnapshot
  <2>2. CASE pc' = "rput"
    BY <2>1, <2>2, IdleStays DEF ClearPCs, HoldingPCs, Running
  <2>3. CASE pc' = "sub" /\ durable = <<>>
    BY <2>1, <2>3 DEF Stays, Running, ClearPCs, HoldingPCs, AppendPCs, JournalStep
  <2> QED BY <1>7, <2>2, <2>3 DEF Hydrated
<1> QED BY <1>1, <1>2, <1>3, <1>4, <1>5, <1>6, <1>7 DEF Hydrate

\* A store operation that fails is counted.
LEMMA IoFails ==
  ASSUME IndInv, FaultsLeft, OneFault, Fault("io")
  PROVE  Used("io")' # 0 /\ ~ Unfailed'
BY UnfailedBefore DEF IndInv

\* Nor has everything gone well once a request has failed.
LEMMA PutFails ==
  ASSUME IndInv, FaultsLeft, OneFault, Fault("put") PROVE ~ Unfailed'
BY UnfailedBefore DEF IndInv

\* replay_pending.
LEMMA ReplayStep ==
  ASSUME IndInv, FaultsLeft, OneFault, Replay PROVE JournalStep
<1>1. CASE ReplayPut \/ ReplayPutFails \/ ReplaySnapshot \/ ReplaySnapshotFails
  <2>1. /\ pc \in {"rput", "rsnap"} /\ pc' \in {"rsnap", "rack", "get"}
        /\ UNCHANGED <<durable, journal>>
    BY <1>1 DEF ReplayPut, ReplayPutFails, ReplaySnapshot, ReplaySnapshotFails,
                AbortReplay, Store!StoreSnapshot, Store!Keep
  <2> QED BY <2>1, IdleStays DEF ClearPCs, HoldingPCs, Running
<1>2. CASE ReplayAck
  <2>1. /\ pc = "rack" /\ pc' \in {"rcomp", "rput"}
        /\ Store!AcknowledgeMutation(Head(todo).id)
        /\ durable' = Without(durable, Head(todo).id)
    BY <1>2 DEF ReplayAck
  <2>2. Holds(Head(todo))
    BY <2>1, LoopHead
  <2> QED BY <2>1, <2>2 DEF Settles, Running, JournalStep
<1>3. CASE ReplayAckFails
  <2>1. pc = "rack" /\ pc' = "get" /\ UNCHANGED durable /\ Fault("io")
    BY <1>3 DEF ReplayAckFails, AbortReplay
  <2>2. CASE Store!AcknowledgeMutation(Head(todo).id)
    <3>1. Holds(Head(todo))
      BY <2>1, LoopHead
    <3> QED BY <2>1, <2>2, <3>1, IoFails DEF Acknowledges, Running, JournalStep
  <2>3. CASE Store!Keep
    BY <2>1, <2>3, IdleStays DEF ClearPCs, HoldingPCs, Running, Store!Keep
  <2> QED BY <1>3, <2>2, <2>3 DEF ReplayAckFails
<1>4. CASE ReplayCompact
  <2>1. pc = "rcomp" /\ UNCHANGED <<durable, journal>> /\ durable = <<>>
    BY <1>4 DEF ReplayCompact, AbortReplay, Store!Compact, Store!Keep, IndInv,
                LoopsFollow
  <2>2. pc' \in {"sub", "get"}
    BY <1>4 DEF ReplayCompact, AbortReplay
  <2> QED BY <2>1, <2>2
          DEF Stays, Running, ClearPCs, HoldingPCs, AppendPCs, JournalStep
<1> QED BY <1>1, <1>2, <1>3, <1>4 DEF Replay

\* Between two awaits of the connected loop, with both as they were.
LEMMA ClearStays ==
  ASSUME UNCHANGED <<durable, journal>>, pc \in {"sub", "stream", "evsnap"},
         pc' \in {"sub", "stream", "evsnap"}
  PROVE  JournalStep
BY DEF Stays, Running, ClearPCs, HoldingPCs, AppendPCs, JournalStep

\* The connected loop.
LEMMA ListenStep ==
  ASSUME IndInv, Listen PROVE JournalStep
<1>1. CASE Subscribe
  BY <1>1, ClearStays DEF Subscribe
<1>2. CASE SubscribeFails \/ StreamEnds
  BY <1>2, ReconnectStep DEF SubscribeFails, StreamEnds, Running
<1>3. CASE NewsFromOthers \/ EchoSuppressed \/ ConflictRemoteWins \/ ConflictLocalWins
  <2>1. pc = "stream" /\ pc' \in {"stream", "evsnap"} /\ UNCHANGED <<durable, journal>>
    BY <1>3 DEF NewsFromOthers, EchoSuppressed, ConflictRemoteWins, ConflictLocalWins,
                EventApplies, EventIgnored, AfterEvent
  <2> QED BY <2>1, ClearStays
<1>4. CASE ConflictRejected \/ SaveEventFails
  <2>1. (\E st : Terminate(st)) /\ journal' \subseteq journal
    BY <1>4 DEF ConflictRejected, SaveEventFails, Fail, Store!Keep, Store!StoreSnapshot
  <2> QED BY <2>1, TerminateEnds DEF JournalStep
<1>5. CASE SaveEvent
  <2>1. pc = "evsnap" /\ pc' = "stream" /\ UNCHANGED <<durable, journal>>
    BY <1>5 DEF SaveEvent, Store!StoreSnapshot
  <2> QED BY <2>1, ClearStays
<1> QED BY <1>1, <1>2, <1>3, <1>4, <1>5 DEF Listen

\* An answer of handle_write leads back to the connected loop.
LEMMA OnlineHome ==
  ASSUME IndInv, pc \in WritePCs, NEW answer, FinishOnline(answer) PROVE pc' = "stream"
BY DEF IndInv, UnderWay, FinishOnline, Finish

\* handle_write.
LEMMA WriteOnlineStep ==
  ASSUME IndInv, FaultsLeft, OneFault, WriteOnline PROVE JournalStep
<1>1. CASE WriteBadPath
  BY <1>1, ClearStays DEF WriteBadPath
<1>2. CASE WriteStored
  <2>1. /\ pc = "stream" /\ pc' = "wappend" /\ UNCHANGED <<durable, journal>>
        /\ cur'.id = NextId /\ config.store
    BY <1>2 DEF WriteStored, Received
  <2> QED BY <2>1 DEF Stays, Running, ClearPCs, HoldingPCs, AppendPCs, JournalStep
<1>3. CASE WriteUnstored
  <2>1. /\ pc = "stream" /\ pc' \in {"stream", "wput"} /\ ~config.store
        /\ UNCHANGED <<durable, journal>>
    BY <1>3 DEF WriteUnstored
  <2> QED BY <2>1 DEF Stays, Running, ClearPCs, HoldingPCs, AppendPCs, JournalStep
<1>4. CASE WriteAppend
  <2>1. /\ pc = "wappend" /\ Store!AppendMutation(CurMut)
        /\ durable' = Append(durable, CurMut)
    BY <1>4 DEF WriteAppend
  <2>2. CASE cur.ev \in BadKey /\ FinishOnline("cancelled")
    <3>1. pc' = "stream" /\ ~ Unfailed'
      BY <2>1, <2>2, OnlineHome, EngineAssumption DEF Unfailed
    <3> QED BY <2>1, <3>1
            DEF Appends, Running, ClearPCs, HoldingPCs, AppendPCs, JournalStep
  <2>3. CASE pc' \in {"wsnap", "wput"} /\ UNCHANGED cur
    BY <2>1, <2>3 DEF Appends, Running, ClearPCs, HoldingPCs, AppendPCs, JournalStep
  <2> QED BY <1>4, <2>2, <2>3 DEF WriteAppend
<1>5. CASE WriteAppendFails
  <2>1. /\ pc = "wappend" /\ pc' = "stream" /\ UNCHANGED durable /\ Fault("io")
    BY <1>5, OnlineHome DEF WriteAppendFails
  <2>2. CASE Store!AppendMutation(CurMut)
    BY <2>1, <2>2, IoFails
       DEF LineLeft, Running, HoldingPCs, AppendPCs, JournalStep
  <2>3. CASE Store!Keep
    BY <2>1, <2>3 DEF Stays, Running, ClearPCs, HoldingPCs, AppendPCs, JournalStep,
                      Store!Keep
  <2> QED BY <1>5, <2>2, <2>3 DEF WriteAppendFails
<1>6. CASE WriteSnapshot
  <2>1. /\ pc = "wsnap" /\ pc' = "wput" /\ UNCHANGED <<cur, durable, journal>>
    BY <1>6 DEF WriteSnapshot, Store!StoreSnapshot
  <2> QED BY <2>1 DEF Stays, Running, ClearPCs, HoldingPCs, AppendPCs, JournalStep
<1>7. CASE WriteSnapshotFails
  <2>1. /\ pc = "wsnap" /\ pc' = "stream" /\ UNCHANGED <<durable, journal>>
        /\ ~ Unfailed'
    BY <1>7, OnlineHome, IoFails
       DEF WriteSnapshotFails, Store!StoreSnapshot, Store!Keep
  <2> QED BY <2>1 DEF Stays, Running, ClearPCs, HoldingPCs, AppendPCs, JournalStep
<1>8. CASE WritePut
  <2>1. pc = "wput" /\ UNCHANGED <<durable, journal>>
    BY <1>8 DEF WritePut
  <2>2. CASE config.store /\ pc' = "wack" /\ UNCHANGED cur
    BY <2>1, <2>2 DEF Stays, Running, ClearPCs, HoldingPCs, AppendPCs, JournalStep
  <2>3. CASE ~config.store /\ pc' = "stream"
    BY <2>1, <2>3 DEF Stays, Running, ClearPCs, HoldingPCs, AppendPCs, JournalStep
  <2> QED BY <1>8, <2>2, <2>3, OnlineHome DEF WritePut
<1>9. CASE WritePutFails
  <2>1. pc = "wput" /\ pc' = "stream" /\ UNCHANGED <<durable, journal>>
    BY <1>9, OnlineHome DEF WritePutFails
  <2>2. Denied # {} \/ Fault("put")
    BY <1>9 DEF WritePutFails
  <2>3. ~ Unfailed'
    BY <2>2, PutFails DEF Unfailed
  <2> QED BY <2>1, <2>3 DEF Stays, Running, ClearPCs, HoldingPCs, AppendPCs, JournalStep
<1>10. CASE WriteAck
  <2>1. pc = "wack" /\ UNCHANGED durable /\ Holds(CurMut) /\ CurMut.id = cur.id
    BY <1>10 DEF WriteAck, IndInv, UnderWay, CurMut
  <2>2. CASE /\ Store!AcknowledgeMutation(cur.id) /\ pc' = "wcomp"
             /\ UNCHANGED cur
    <3>1. \E m : Holds(m) /\ Store!AcknowledgeMutation(m.id)
      <4> HIDE DEF CurMut
      <4> QED BY <2>1, <2>2
    <3> QED BY <2>1, <2>2, <3>1 DEF Acknowledges, Running, JournalStep
  <2>3. CASE /\ Store!AcknowledgeMutation(cur.id) \/ Store!Keep
             /\ FinishOnline("err") /\ Fault("io")
    <3>1. pc' = "stream" /\ Used("io")' # 0 /\ ~ Unfailed'
      BY <2>1, <2>3, OnlineHome, IoFails
    <3>2. CASE Store!AcknowledgeMutation(cur.id)
      <4>1. \E m : Holds(m) /\ Store!AcknowledgeMutation(m.id)
        <5> HIDE DEF CurMut
        <5> QED BY <2>1, <3>2
      <4> QED BY <2>1, <3>1, <4>1 DEF Acknowledges, Running, JournalStep
    <3>3. CASE Store!Keep
      BY <2>1, <3>1, <3>3 DEF Stays, Running, ClearPCs, HoldingPCs, AppendPCs,
                              JournalStep, Store!Keep
    <3> QED BY <2>3, <3>2, <3>3
  <2> QED BY <1>10, <2>2, <2>3 DEF WriteAck
<1>11. CASE WriteCompact
  <2>1. pc = "wcomp" /\ pc' = "stream" /\ UNCHANGED journal
    BY <1>11, OnlineHome DEF WriteCompact, Store!Compact, Store!Keep
  <2>2. CASE durable' = Without(durable, cur.id)
    BY <2>1, <2>2 DEF Compacts, JournalStep
  <2>3. CASE Fault("io") /\ UNCHANGED durable
    BY <2>1, <2>3, IoFails DEF Stays, Running, ClearPCs, HoldingPCs, AppendPCs,
                               JournalStep
  <2> QED BY <1>11, <2>2, <2>3 DEF WriteCompact
<1> QED
  BY <1>1, <1>2, <1>3, <1>4, <1>5, <1>6, <1>7, <1>8, <1>9, <1>10, <1>11
     DEF WriteOnline

\* handle_offline_write.
LEMMA WriteOfflineStep ==
  ASSUME IndInv, FaultsLeft, OneFault, WriteOffline PROVE JournalStep
<1>1. CASE OfflineRefused
  <2>1. /\ pc \in {"offline", "queue"} /\ pc' \in {"get", "queue"}
        /\ UNCHANGED <<durable, journal>>
    BY <1>1 DEF OfflineRefused, Finish, Received, Home
  <2> QED BY <2>1, IdleStays DEF ClearPCs, HoldingPCs, Running
<1>2. CASE OfflineAccept
  <2>1. /\ pc \in {"offline", "queue"} /\ pc' = "oappend" /\ cur'.id = NextId
        /\ Len(durable) < config.limit /\ UNCHANGED <<durable, journal>>
    BY <1>2 DEF OfflineAccept, Received
  <2> QED BY <2>1 DEF Stays, Running, ClearPCs, HoldingPCs, AppendPCs, JournalStep
<1>3. CASE OfflineAppend
  <2>1. /\ pc = "oappend" /\ pc' = "osnap" /\ Store!AppendMutation(CurMut)
        /\ durable' = Append(durable, CurMut)
    BY <1>3 DEF OfflineAppend
  <2> QED BY <2>1 DEF Appends, Running, ClearPCs, HoldingPCs, AppendPCs, JournalStep
<1>4. CASE OfflineAppendFails
  <2>1. /\ pc = "oappend" /\ pc' \in {"get", "queue"} /\ UNCHANGED durable
        /\ Fault("io")
    BY <1>4 DEF OfflineAppendFails, FinishOffline, Finish, IndInv, UnderWay
  <2>2. CASE Store!AppendMutation(CurMut)
    BY <2>1, <2>2, IoFails
       DEF LineLeft, Running, HoldingPCs, AppendPCs, JournalStep
  <2>3. CASE Store!Keep
    BY <2>1, <2>3, IdleStays DEF ClearPCs, HoldingPCs, Running, Store!Keep
  <2> QED BY <1>4, <2>2, <2>3 DEF OfflineAppendFails
<1>5. CASE OfflineSnapshot
  <2>1. /\ pc = "osnap" /\ pc' \in {"get", "queue"}
        /\ UNCHANGED <<durable, journal>>
    BY <1>5 DEF OfflineSnapshot, FinishOffline, Finish, IndInv, UnderWay,
                Store!StoreSnapshot, Store!Keep
  <2> QED BY <2>1, IdleStays DEF ClearPCs, HoldingPCs, Running
<1> QED BY <1>1, <1>2, <1>3, <1>4, <1>5 DEF WriteOffline

\* A step of the environment the task does not notice.
LEMMA UnnoticedStays ==
  ASSUME UNCHANGED <<pc, cur, durable, journal>> PROVE JournalStep
BY DEF Stays, Running, ClearPCs, HoldingPCs, AppendPCs, JournalStep

\* The callers, the process, the network and the other clients.
LEMMA EnvironmentStep ==
  ASSUME Environment PROVE JournalStep
<1>1. CASE Crash \/ Restart
  BY <1>1 DEF Crash, Restart, Release, Ends, JournalStep
<1>2. CASE ~ (Crash \/ Restart)
  BY <1>2, UnnoticedStays DEF Environment, Submit, Abandon, Shutdown, Cut, OtherWrite
<1> QED BY <1>1, <1>2

\* Every step touches the journal and the list in one of these ways.
LEMMA StepJournal ==
  ASSUME IndInv, FaultsLeft, [Next]_vars PROVE JournalStep
<1>1. OneFault
  BY StepFaults
<1>2. CASE Task
  BY <1>1, <1>2, LoadStep, WaitingStep, HydrateStep, ReplayStep, ListenStep,
     WriteOnlineStep, WriteOfflineStep DEF Task
<1>3. CASE Environment
  BY <1>3, EnvironmentStep
<1>4. CASE UNCHANGED vars
  BY <1>4, UnnoticedStays DEF vars
<1> QED BY <1>2, <1>3, <1>4 DEF Next

-----------------------------------------------------------------------------
(* The order of the journal. *)

\* What the inductive invariant of the engine says of the list.
LEMMA ListFacts ==
  ASSUME IndInv
  PROVE  /\ durable \in Seq(Mutation) /\ Increasing(durable)
         /\ DOMAIN durable = 1..Len(durable) /\ Len(durable) \in Nat
         /\ \A i \in DOMAIN durable : durable[i] \in Mutation /\ durable[i].id \in Nat
         /\ journal \subseteq Mutation /\ \A m \in journal : m.id \in Nat
<1>1. durable \in Seq(Mutation) /\ Increasing(durable) /\ journal \subseteq Mutation
  BY DEF IndInv, TypeOK, IdsIncrease
<1>2. \A i \in DOMAIN durable : durable[i] \in Mutation
  BY <1>1, ElementOfSeq, LenProperties
<1> QED BY <1>1, <1>2, LenProperties DEF Mutation

\* The write under way has a mutation of the list's kind.
LEMMA CurMutType ==
  ASSUME IndInv, pc \in WritePCs \cup OfflinePCs
  PROVE  CurMut \in Mutation /\ CurMut.id = cur.id /\ cur.id \in Nat
<1>1. CurMut \in Mutation
  BY CurrentType DEF IndInv
<1> QED BY <1>1 DEF CurMut, Mutation

\* Without a store nothing is held, and a task starts with nothing.
LEMMA StepNothingHeld ==
  ASSUME IndInv, NothingHeld, JournalStep, config' = config PROVE NothingHeld'
<1>1. pc \in OfflinePCs => config.store
  BY DEF IndInv, QueueingIsStored
<1>2. DOMAIN (<<>>) = {}
  OBVIOUS
<1>3. durable = <<>> => ~ \E m : Holds(m)
  BY <1>2 DEF Holds
<1>4. CASE Ends
  BY <1>4 DEF Ends, NothingHeld, Running
<1>5. CASE Loads
  BY <1>5 DEF Loads, NothingHeld, Running
<1>6. CASE Stays
  BY <1>6 DEF Stays, NothingHeld
<1>7. CASE Appends \/ LineLeft
  <2>1. config.store /\ Running' /\ pc' # "wappend"
    BY <1>1, <1>7 DEF Appends, LineLeft, AppendPCs, NothingHeld
  <2> QED BY <2>1 DEF NothingHeld
<1>8. CASE Settles \/ Acknowledges
  <2>1. config.store /\ Running' /\ pc' # "wappend"
    BY <1>3, <1>8 DEF Settles, Acknowledges, NothingHeld, Running
  <2> QED BY <2>1 DEF NothingHeld
<1>9. CASE Compacts
  <2>1. Holds(CurMut)
    BY <1>9 DEF Compacts, IndInv, UnderWay
  <2>2. config.store /\ Running' /\ pc' # "wappend"
    BY <1>3, <1>9, <2>1 DEF Compacts, NothingHeld, Running
  <2> QED BY <2>2 DEF NothingHeld
<1> QED BY <1>4, <1>5, <1>6, <1>7, <1>8, <1>9 DEF JournalStep

\* What the task does not hold comes after what it holds: it is left by an append
\* that failed, with the id the next append takes again.
LEMMA StepOrphans ==
  ASSUME IndInv, NothingHeld, OrphansLast, JournalStep PROVE OrphansLast'
<1> DEFINE After(n, s) == \A i \in DOMAIN s : s[i].id < n
<1>0. /\ durable \in Seq(Mutation) /\ Increasing(durable)
      /\ \A i \in DOMAIN durable : durable[i].id \in Nat
      /\ \A m \in journal : m.id \in Nat /\ m.id > 0
  BY ListFacts DEF OrphansLast
<1>n. /\ NextId \in Nat /\ NextId > 0 /\ After(NextId, durable)
      /\ \A n \in Nat : n > 0 /\ After(n, durable) => NextId <= n
  BY <1>0, NextIdProperties
<1>o. Running => \A m \in journal : Holds(m) \/ After(m.id, durable)
  BY DEF OrphansLast
<1>1. CASE Ends
  BY <1>0, <1>1 DEF Ends, OrphansLast, Running
<1>2. CASE Loads
  <2>1. CASE config.store
    <3>1. \A m \in journal : Holds(m)'
      BY <1>2, <2>1 DEF Loads, Store!IsLoaded, Store!IsLoadedUnordered, Holds
    <3> QED BY <1>0, <1>2, <3>1 DEF Loads, OrphansLast
  <2>2. CASE ~config.store
    BY <1>2, <2>2 DEF Loads, OrphansLast, NothingHeld
  <2> QED BY <2>1, <2>2
<1>3. CASE Stays
  <2>1. NextId' = NextId /\ \A m : Holds(m)' <=> Holds(m)
    BY <1>3 DEF Stays, NextId, Ids, Holds
  <2>2. pc' \in AppendPCs => cur'.id = NextId'
    BY <1>3, <2>1 DEF Stays, AppendPCs, OrphansLast
  <2>3. pc' = "wcomp" => \A m \in journal' : m.id # cur'.id
    BY <1>3 DEF Stays, OrphansLast
  <2> QED BY <1>0, <1>3, <2>1, <2>2, <2>3 DEF Stays, AppendPCs, OrphansLast
<1>4. ASSUME pc \in AppendPCs, Store!AppendMutation(CurMut)
      PROVE  /\ CurMut.id = NextId /\ CurMut \in Mutation
             /\ journal' = {n \in journal : n.id # NextId} \cup {CurMut}
             /\ \A m \in journal : m.id # NextId /\ ~ Holds(m) => NextId < m.id
  <2>1. CurMut.id = cur.id /\ CurMut \in Mutation /\ cur.id = NextId /\ Running
    BY <1>4, CurMutType DEF AppendPCs, OrphansLast, Running
  <2>2. ASSUME NEW m \in journal, m.id # NextId, ~ Holds(m) PROVE NextId < m.id
    BY <1>0, <1>n, <1>o, <2>1, <2>2
  <2>3. journal' = {n \in journal : n.id # CurMut.id} \cup {CurMut}
    BY <1>4 DEF Store!AppendMutation
  <2> QED BY <2>1, <2>2, <2>3
<1>5. CASE Appends
  <2>1. /\ durable' = Append(durable, CurMut) /\ pc' \notin AppendPCs \cup {"wcomp"}
        /\ CurMut.id = NextId /\ CurMut \in Mutation
        /\ journal' = {n \in journal : n.id # NextId} \cup {CurMut}
    BY <1>4, <1>5 DEF Appends
  <2>2. /\ DOMAIN durable' = 1..(Len(durable) + 1) /\ DOMAIN durable = 1..Len(durable)
        /\ \A i \in 1..Len(durable) : durable'[i] = durable[i]
        /\ durable'[Len(durable) + 1] = CurMut /\ Len(durable) \in Nat
    BY <1>0, <2>1, AppendProperties, LenProperties
  <2>3. /\ \E i \in DOMAIN durable' : durable'[i] = CurMut
        /\ \A m : Holds(m) => Holds(m)'
    BY <2>2 DEF Holds
  <2>4. ASSUME NEW m \in journal', ~ Holds(m)' PROVE After(m.id, durable')
    <3>1. m \in journal /\ m.id # NextId /\ ~ Holds(m)
      <4>1. m # CurMut
        BY <2>3, <2>4 DEF Holds
      <4> QED BY <2>1, <2>3, <2>4, <4>1
    <3>2. NextId < m.id
      BY <1>4, <1>5, <3>1 DEF Appends
    <3> QED BY <1>0, <1>n, <2>1, <2>2, <3>1, <3>2
  <2>5. \A m \in journal' : m.id > 0
    BY <1>0, <1>n, <2>1
  <2> QED BY <2>1, <2>3, <2>4, <2>5 DEF OrphansLast, AppendPCs
<1>6. CASE LineLeft
  <2>1. /\ UNCHANGED durable /\ pc' \notin AppendPCs \cup HoldingPCs
        /\ CurMut.id = NextId
        /\ journal' = {n \in journal : n.id # NextId} \cup {CurMut}
    BY <1>4, <1>6 DEF LineLeft
  <2>2. ASSUME NEW m \in journal', ~ Holds(m)' PROVE After(m.id, durable')
    <3>1. CASE m = CurMut
      BY <1>n, <2>1, <3>1
    <3>2. CASE m \in journal
      <4>1. ~ Holds(m)
        BY <2>1, <2>2 DEF Holds
      <4> QED BY <1>6, <1>o, <2>1, <3>2, <4>1 DEF LineLeft, AppendPCs, Running
    <3> QED BY <2>1, <3>1, <3>2
  <2>3. \A m \in journal' : m.id > 0
    BY <1>0, <1>n, <2>1
  <2> QED BY <2>1, <2>2, <2>3 DEF OrphansLast, AppendPCs, HoldingPCs
<1>7. ASSUME NEW id, durable' = Without(durable, id), Running,
             journal' \subseteq {n \in journal : n.id # id}, pc' \notin AppendPCs \cup {"wcomp"}
      PROVE  OrphansLast'
  <2>1. /\ \A i \in DOMAIN durable : durable[i].id # id =>
             \E j \in DOMAIN durable' : durable'[j] = durable[i]
        /\ \A j \in DOMAIN durable' : \E i \in DOMAIN durable : durable'[j] = durable[i]
    BY <1>0, <1>7, WithoutProperties
  <2>2. \A m : Holds(m) /\ m.id # id => Holds(m)'
    BY <2>1 DEF Holds
  <2>3. \A n : After(n, durable) => After(n, durable')
    BY <2>1
  <2> HIDE DEF After
  <2>4. \A m \in journal' : Holds(m)' \/ After(m.id, durable')
    BY <1>7, <1>o, <2>2, <2>3
  <2>5. \A m \in journal' : m.id > 0
    BY <1>0, <1>7
  <2> QED BY <1>7, <2>4, <2>5 DEF OrphansLast, AppendPCs, After
<1>8. CASE Settles
  <2>1. PICK m : Store!AcknowledgeMutation(m.id) /\ durable' = Without(durable, m.id)
    BY <1>8 DEF Settles
  <2> QED BY <1>7, <1>8, <2>1 DEF Settles, Store!AcknowledgeMutation, AppendPCs, Running
<1>9. CASE Acknowledges
  <2>1. journal' \subseteq journal /\ UNCHANGED durable /\ Running
    BY <1>9, AckShrinks DEF Acknowledges
  <2>2. \A m \in journal' : Holds(m)' \/ After(m.id, durable')
    BY <1>o, <2>1 DEF Holds
  <2>3. pc' = "wcomp" => \A m \in journal' : m.id # cur'.id
    BY <1>9 DEF Acknowledges, Store!AcknowledgeMutation
  <2> QED BY <1>0, <1>9, <2>1, <2>2, <2>3 DEF Acknowledges, OrphansLast, AppendPCs
<1>10. CASE Compacts
  <2>1. \A m \in journal : m.id # cur.id
    BY <1>10 DEF Compacts, OrphansLast
  <2> QED BY <1>7, <1>10, <2>1 DEF Compacts, AppendPCs, Running
<1> QED BY <1>1, <1>2, <1>3, <1>5, <1>6, <1>8, <1>9, <1>10 DEF JournalStep

\* It holds initially: there is no journal, and no fault has been used.
LEMMA InitJournalOrder ==
  ASSUME Init PROVE JournalOrder
<1>1. FaultsLeft
  BY EngineAssumption DEF Init, FaultsLeft
<1>2. NothingHeld /\ OrphansLast
  BY DEF Init, NothingHeld, OrphansLast, Running, Store!Empty
<1> QED BY <1>1, <1>2 DEF JournalOrder

\* Every step keeps it.
LEMMA StepJournalOrder ==
  ASSUME IndInv, JournalOrder, [Next]_vars PROVE JournalOrder'
<1>1. config' = config /\ OneFault
  BY StepFaults
<1>2. JournalStep
  BY StepJournal DEF JournalOrder
<1>3. FaultsLeft'
  BY <1>1, FaultsFall DEF IndInv, JournalOrder
<1> QED BY <1>1, <1>2, <1>3, StepNothingHeld, StepOrphans DEF JournalOrder

\* The journal is in order, whatever fails: what a failed append has left comes
\* after what the task holds.
THEOREM JournalIsOrdered == Spec => []JournalOrder
<1>1. IndInv /\ JournalOrder /\ [Next]_vars => JournalOrder'
  BY StepJournalOrder
<1> QED BY <1>1, InitJournalOrder, Inductive, PTL DEF Spec

\* Replay sends the oldest mutation of the journal first.
THEOREM ReplayedInOrder == Spec => ReplayInOrder
<1>1. ASSUME IndInv, JournalOrder, pc = "rput", NEW m \in journal
      PROVE  Head(todo).id <= m.id
  <2>1. /\ durable \in Seq(Mutation) /\ Increasing(durable) /\ todo = durable
        /\ todo # <<>> /\ Running
    BY <1>1, ListFacts DEF IndInv, TypeOK, LoopsFollow, Running
  <2>2. /\ DOMAIN durable = 1..Len(durable) /\ 1 \in DOMAIN durable
        /\ Head(todo) = durable[1]
    BY <2>1, HeadTailProperties, LenProperties, EmptySeq
  <2>3. durable[1].id \in Nat /\ m.id \in Nat
    BY <1>1, <2>2, ListFacts
  <2>4. CASE Holds(m)
    <3>1. PICK i \in DOMAIN durable : durable[i] = m
      BY <2>4 DEF Holds
    <3>2. i = 1 \/ 1 < i
      BY <2>2
    <3>3. 1 < i => durable[1].id < m.id
      BY <2>1, <2>2, <3>1 DEF Increasing
    <3> QED BY <2>2, <2>3, <3>1, <3>2, <3>3
  <2>5. CASE ~ Holds(m)
    BY <1>1, <2>1, <2>2, <2>3, <2>5 DEF JournalOrder, OrphansLast
  <2> QED BY <2>4, <2>5
<1>2. IndInv /\ JournalOrder /\ [Next]_vars =>
        [pc = "rput" /\ delivered' # delivered
           => \A m \in journal : Head(todo).id <= m.id]_vars
  BY <1>1
<1> QED BY <1>2, Inductive, JournalIsOrdered, PTL DEF Spec, ReplayInOrder

-----------------------------------------------------------------------------
(* The journal while nothing fails. *)

\* The engine keeps the mutations of the list in a set, as the journal does.
LEMMA AppendedSet ==
  ASSUME IndInv, NEW m \in Mutation
  PROVE  /\ ToSet(Append(durable, m)) = ToSet(durable) \cup {m}
         /\ Len(Append(durable, m)) = Len(durable) + 1
<1> DEFINE a == Append(durable, m)
<1>0. durable \in Seq(Mutation) /\ DOMAIN durable = 1..Len(durable) /\ Len(durable) \in Nat
  BY ListFacts
<1>1. /\ DOMAIN a = 1..(Len(durable) + 1)
      /\ \A i \in 1..Len(durable) : a[i] = durable[i]
      /\ a[Len(durable) + 1] = m /\ Len(a) = Len(durable) + 1
  BY <1>0, AppendProperties, LenProperties
<1> HIDE DEF a
<1>2. ToSet(a) = {a[i] : i \in 1..(Len(durable) + 1)}
  BY <1>1 DEF ToSet
<1>3. \A i \in 1..(Len(durable) + 1) : i \in 1..Len(durable) \/ i = Len(durable) + 1
  BY <1>0
<1>4. \A i \in 1..Len(durable) : i \in 1..(Len(durable) + 1)
  BY <1>0
<1>5. Len(durable) + 1 \in 1..(Len(durable) + 1)
  BY <1>0
<1>6. ToSet(a) = ToSet(durable) \cup {m}
  BY <1>0, <1>1, <1>2, <1>3, <1>4, <1>5 DEF ToSet
<1> QED BY <1>1, <1>6 DEF a

\* What the task holds, as a set.
LEMMA HeldSet ==
  ASSUME NEW m PROVE Holds(m) <=> m \in ToSet(durable)
BY DEF Holds, ToSet

\* As long as no store operation has failed, the journal has what the list has.
LEMMA StepMirrored ==
  ASSUME IndInv, JournalOrder, Mirrored, JournalStep, config' = config, OneFault
  PROVE  Mirrored'
<1> SUFFICES ASSUME config.store, Used("io")' = 0, Running'
             PROVE  journal' = IF pc' = "wcomp" THEN ToSet(durable') \ {CurMut'}
                               ELSE ToSet(durable')
  BY DEF Mirrored
<1>0. /\ Used("io") = 0
      /\ durable \in Seq(Mutation) /\ Increasing(durable)
      /\ \A i \in DOMAIN durable : durable[i].id \in Nat
  BY UnfailedBefore, ListFacts DEF JournalOrder, IndInv
<1>m. Running => journal = IF pc = "wcomp" THEN ToSet(durable) \ {CurMut} ELSE ToSet(durable)
  BY <1>0 DEF Mirrored
<1>1. ~ Ends
  BY DEF Ends, Running
<1>2. CASE Loads
  <2>1. /\ \A m \in journal : \E i \in DOMAIN durable' : durable'[i] = m
        /\ \A i \in DOMAIN durable' : durable'[i] \in journal
        /\ UNCHANGED journal /\ pc' = "get"
    BY <1>2 DEF Loads, Store!IsLoaded, Store!IsLoadedUnordered
  <2> QED BY <2>1 DEF ToSet
<1>3. CASE Stays
  BY <1>3, <1>m DEF Stays, CurMut
<1>4. CASE Appends
  <2>1. /\ CurMut \in Mutation /\ CurMut.id = cur.id /\ cur.id = NextId
        /\ Running /\ pc # "wcomp"
    BY <1>4, CurMutType DEF Appends, AppendPCs, JournalOrder, OrphansLast, Running
  <2>2. \A i \in DOMAIN durable : durable[i].id < NextId /\ NextId \in Nat
    BY <1>0, NextIdProperties
  <2>3. \A m \in ToSet(durable) : m.id # CurMut.id
    BY <1>0, <2>1, <2>2 DEF ToSet
  <2>4. /\ journal' = {n \in journal : n.id # CurMut.id} \cup {CurMut}
        /\ durable' = Append(durable, CurMut) /\ pc' # "wcomp"
    BY <1>4 DEF Appends, Store!AppendMutation
  <2>5. ToSet(durable') = ToSet(durable) \cup {CurMut}
    BY <2>1, <2>4, AppendedSet
  <2> QED BY <1>m, <2>1, <2>3, <2>4, <2>5
<1>5. ~ LineLeft
  BY DEF LineLeft
<1>6. CASE Settles
  <2>1. PICK m : /\ Store!AcknowledgeMutation(m.id)
                 /\ durable' = Without(durable, m.id)
    BY <1>6 DEF Settles
  <2>2. ToSet(durable') = {n \in ToSet(durable) : n.id # m.id}
    BY <1>0, <2>1, WithoutSet
  <2>3. journal = ToSet(durable) /\ pc' # "wcomp"
    BY <1>6, <1>m DEF Settles, Running
  <2> QED BY <2>1, <2>2, <2>3 DEF Store!AcknowledgeMutation
<1>7. CASE Acknowledges
  <2>1. /\ pc = "wack" /\ pc' = "wcomp" /\ cur' = cur /\ durable' = durable
        /\ journal' = {n \in journal : n.id # cur.id}
    BY <1>7 DEF Acknowledges, Store!AcknowledgeMutation
  <2>2. CurMut \in ToSet(durable) /\ CurMut.id = cur.id
    BY <2>1, CurMutType, HeldSet DEF IndInv, UnderWay
  <2>3. \A n \in ToSet(durable) : n.id = cur.id => n = CurMut
    <3>1. PICK j \in DOMAIN durable : durable[j] = CurMut
      BY <2>2 DEF ToSet
    <3> QED BY <1>0, <2>2, <3>1, IdsNameEntries DEF ToSet
  <2>4. journal = ToSet(durable)
    BY <1>m, <2>1 DEF Running
  <2> QED BY <2>1, <2>2, <2>3, <2>4 DEF CurMut
<1>8. CASE Compacts
  <2>1. /\ pc = "wcomp" /\ pc' = "stream" /\ journal' = journal
        /\ durable' = Without(durable, cur.id)
    BY <1>8 DEF Compacts
  <2>2. CurMut \in ToSet(durable) /\ CurMut.id = cur.id
    BY <2>1, CurMutType, HeldSet DEF IndInv, UnderWay
  <2>3. \A n \in ToSet(durable) : n.id = cur.id => n = CurMut
    <3>1. PICK j \in DOMAIN durable : durable[j] = CurMut
      BY <2>2 DEF ToSet
    <3> QED BY <1>0, <2>2, <3>1, IdsNameEntries DEF ToSet
  <2>4. journal = ToSet(durable) \ {CurMut}
    BY <1>m, <2>1 DEF Running
  <2>5. ToSet(durable') = {n \in ToSet(durable) : n.id # cur.id}
    BY <1>0, <2>1, WithoutSet
  <2> QED BY <2>1, <2>2, <2>3, <2>4, <2>5
<1> QED BY <1>1, <1>2, <1>3, <1>4, <1>5, <1>6, <1>7, <1>8 DEF JournalStep

\* Unless something has failed, a connected task holds the write under way only.
LEMMA StepOneOnline ==
  ASSUME IndInv, JournalOrder, OneOnline, JournalStep, config' = config, OneFault
  PROVE  OneOnline'
<1> SUFFICES ASSUME config.store, Unfailed'
             PROVE  /\ pc' \in ClearPCs => durable' = <<>>
                    /\ pc' \in HoldingPCs => durable' = <<CurMut'>>
  BY DEF OneOnline, ClearPCs, HoldingPCs
<1>0. /\ Unfailed
      /\ pc \in ClearPCs => durable = <<>>
      /\ pc \in HoldingPCs => durable = <<CurMut>>
  BY UnfailedBefore DEF JournalOrder, IndInv, OneOnline, ClearPCs, HoldingPCs
<1>1. CASE Ends \/ Loads
  BY <1>1 DEF Ends, Loads, ClearPCs, HoldingPCs
<1>2. CASE Stays
  BY <1>0, <1>2 DEF Stays, CurMut
<1>3. CASE Appends
  <2>1. pc' \notin ClearPCs /\ durable' = Append(durable, CurMut)
    BY <1>3 DEF Appends
  <2>2. pc' \in HoldingPCs => durable = <<>> /\ CurMut' = CurMut
    BY <1>0, <1>3 DEF Appends, ClearPCs, CurMut
  <2>3. CurMut \in Mutation
    BY <1>3, CurMutType DEF Appends, AppendPCs
  <2>4. Append(<<>>, CurMut) = <<CurMut>>
    <3> HIDE DEF CurMut
    <3> QED BY <2>3, Singleton
  <2>5. CASE pc' \in HoldingPCs
    BY <2>1, <2>2, <2>4, <2>5
  <2> QED BY <2>1, <2>5
<1>4. ~ LineLeft
  BY DEF LineLeft
<1>5. CASE Settles
  BY <1>5 DEF Settles, ClearPCs, HoldingPCs
<1>6. CASE Acknowledges
  BY <1>0, <1>6 DEF Acknowledges, ClearPCs, HoldingPCs, CurMut
<1>7. CASE Compacts
  <2>1. /\ pc = "wcomp" /\ pc' = "stream" /\ durable = <<CurMut>>
        /\ durable' = Without(durable, CurMut.id)
    BY <1>0, <1>7 DEF Compacts, HoldingPCs, CurMut
  <2>2. durable \in Seq(Mutation) /\ Increasing(durable) /\ CurMut \in Mutation
    BY <2>1, ListFacts, CurMutType
  <2> HIDE DEF CurMut
  <2>3. durable # <<>> /\ Head(durable) = CurMut /\ Tail(durable) = <<>>
    BY <2>1, <2>2, Singleton
  <2>4. durable' = <<>>
    BY <2>1, <2>2, <2>3, WithoutHead
  <2> QED BY <2>1, <2>4 DEF HoldingPCs
<1> QED BY <1>1, <1>2, <1>3, <1>4, <1>5, <1>6, <1>7 DEF JournalStep

\* A journal that is part of a list has no more mutations than it.
LEMMA JournalShorter ==
  ASSUME NEW s \in Seq(Mutation), NEW J, J \subseteq ToSet(s)
  PROVE  Cardinality(J) \in Nat /\ Cardinality(J) <= Len(s)
<1>1. s \in [1..Len(s) -> Mutation] /\ Len(s) \in Nat
  BY LenProperties
<1>2. IsFiniteSet(1..Len(s)) /\ Cardinality(1..Len(s)) = Len(s)
  <2>1. 1 \in Int /\ Len(s) \in Int /\ Len(s) >= 0
    BY <1>1
  <2>2. /\ IsFiniteSet(1..Len(s))
        /\ Cardinality(1..Len(s)) = IF 1 > Len(s) THEN 0 ELSE Len(s) - 1 + 1
    BY <2>1, FS_Interval
  <2> QED BY <2>1, <2>2
<1>3. s \in Surjection(1..Len(s), ToSet(s))
  <2>1. DOMAIN s = 1..Len(s)
    BY <1>1
  <2>2. ToSet(s) = {s[i] : i \in 1..Len(s)}
    BY <2>1 DEF ToSet
  <2> QED BY <1>1, <2>2 DEF Surjection
<1>4. IsFiniteSet(ToSet(s)) /\ Cardinality(ToSet(s)) <= Len(s)
  BY <1>2, <1>3, FS_Surjection
<1>5. /\ IsFiniteSet(J) /\ Cardinality(J) \in Nat
      /\ Cardinality(J) <= Cardinality(ToSet(s))
      /\ Cardinality(ToSet(s)) \in Nat
  BY <1>4, FS_Subset, FS_CardinalityType
<1> QED BY <1>1, <1>4, <1>5

\* A shorter journal fits as well.
LEMMA ShorterFits ==
  ASSUME TypeOK, NEW n \in Nat, NEW k \in Nat, Fits(n), k <= n
  PROVE  Fits(k)
<1>1. config.limit \in Nat
  BY EngineAssumption DEF TypeOK, Config
<1> QED BY <1>1 DEF Fits

\* The journal of a queueing handle fits its limit, now and when it is restored.
LEMMA StepQueueFits ==
  ASSUME IndInv, JournalOrder, Mirrored, OneOnline, QueueFits, JournalStep,
         config' = config, OneFault, IndInv', JournalOrder', Mirrored'
  PROVE  QueueFits'
<1> SUFFICES ASSUME config.queueing, Unfailed'
             PROVE  /\ Fits(Len(durable')) /\ (config.store => Fits(Cardinality(journal')))
                    /\ pc' = "oappend" => Len(durable') < config.limit
  BY DEF QueueFits, Fits
<1>0. /\ Unfailed /\ TypeOK /\ TypeOK' /\ Used("io") \in Nat /\ Used("put") \in Nat
      /\ Used("io")' \in Nat /\ Used("put")' \in Nat
      /\ durable \in Seq(Mutation) /\ Increasing(durable) /\ Len(durable) \in Nat
  BY UnfailedBefore, FaultsFall, ListFacts DEF JournalOrder, IndInv, FaultKinds
<1>f. /\ Fits(Len(durable)) /\ (config.store => Fits(Cardinality(journal)))
      /\ pc = "oappend" => Len(durable) < config.limit
  BY <1>0 DEF QueueFits
<1>i. Used("io")' = 0
  BY <1>0 DEF Unfailed
<1>c. Cardinality(journal) \in Nat /\ Cardinality(journal') \in Nat
  BY <1>0, FS_CardinalityType DEF TypeOK
<1>1. CASE ~ config.store
  <2>1. durable' = <<>> /\ Len(<<>>) = 0
    BY <1>1 DEF JournalOrder, NothingHeld
  <2>2. pc' # "oappend"
    BY <1>1 DEF IndInv, QueueingIsStored
  <2> QED BY <1>1, <2>1, <2>2 DEF Fits
<1>2. ASSUME config.store, Running', Len(durable') \in Nat, Fits(Len(durable'))
      PROVE  Fits(Cardinality(journal'))
  <2>1. journal' \subseteq ToSet(durable')
    BY <1>2, <1>i DEF Mirrored
  <2>2. Cardinality(journal') <= Len(durable')
    BY <1>0, <2>1, JournalShorter DEF TypeOK
  <2>3. config'.limit \in Nat
    BY <1>0, EngineAssumption DEF TypeOK, Config
  <2> QED BY <1>2, <1>c, <2>2, <2>3 DEF Fits
<1>3. CASE config.store /\ ~ Running'
  <2>1. durable' = <<>> /\ Len(<<>>) = 0 /\ pc' # "oappend"
    BY <1>3 DEF JournalOrder, NothingHeld, Running
  <2>2. journal' \subseteq journal
    BY <1>3 DEF JournalStep, Ends, Loads, Stays, Appends, LineLeft, Settles,
                Acknowledges, Compacts, Running
  <2>3. Cardinality(journal') <= Cardinality(journal)
    BY <1>0, <2>2, FS_Subset DEF TypeOK
  <2>4. Fits(Cardinality(journal'))
    BY <1>0, <1>3, <1>c, <1>f, <2>3, ShorterFits
  <2> QED BY <2>1, <2>4 DEF Fits
<1>4. CASE config.store /\ Running'
  <2>0. Len(durable') \in Nat
    BY <1>0 DEF TypeOK
  <2> SUFFICES /\ Fits(Len(durable'))
               /\ pc' = "oappend" => Len(durable') < config.limit
    BY <1>2, <1>4, <2>0
  <2>1. ~ Ends
    BY <1>4 DEF Ends, Running
  <2>2. CASE Loads
    <3>1. Len(durable') = Cardinality(journal) /\ pc' = "get"
      BY <1>4, <1>c, <2>2 DEF Loads
    <3> QED BY <1>4, <1>f, <3>1
  <2>3. CASE Stays
    BY <1>f, <2>3 DEF Stays
  <2>4. CASE Appends
    <3>1. /\ durable' = Append(durable, CurMut) /\ pc' # "oappend"
          /\ pc \in {"wappend", "oappend"}
      BY <2>4 DEF Appends, AppendPCs
    <3>2. Len(durable') = Len(durable) + 1
      BY <1>0, <3>1, CurMutType, AppendedSet
    <3>3. pc = "wappend" => Len(durable) = 0
      BY <1>0, <1>4 DEF OneOnline
    <3>4. config.limit \in Nat
      BY <1>0, EngineAssumption DEF TypeOK, Config
    <3> QED BY <1>0, <1>f, <3>1, <3>2, <3>3, <3>4 DEF Fits
  <2>5. ~ LineLeft
    BY DEF LineLeft
  <2>6. CASE Settles \/ Compacts
    <3>1. PICK id : durable' = Without(durable, id)
      BY <2>6 DEF Settles, Compacts
    <3>2. Len(durable') <= Len(durable) /\ pc' # "oappend"
      BY <1>0, <2>6, <3>1, WithoutProperties DEF Settles, Compacts
    <3> QED BY <1>0, <1>f, <2>0, <3>2, ShorterFits
  <2>7. CASE Acknowledges
    BY <1>f, <2>7 DEF Acknowledges
  <2> QED BY <2>1, <2>2, <2>3, <2>4, <2>5, <2>6, <2>7 DEF JournalStep
<1> QED BY <1>1, <1>3, <1>4

\* Where the state is the one saved, unless something has failed.
SavedAt ==
  \/ pc \in {"rput", "rack", "rcomp", "sub", "stream", "queue", "wappend", "wput",
            "wack", "wcomp"}
  \/ pc = "oappend" /\ cur.home = "queue"

\* A step to such an await saves the state or leaves both alone.
SnapshotStep ==
  config.store /\ Unfailed' /\ SavedAt' =>
    saved' = tree' \/ (SavedAt /\ UNCHANGED <<saved, tree>>)

\* A loss of the connection touches neither.
LEMMA ReconnectSnapshot ==
  ASSUME SavedAt, NEW v, Retry(v) \/ Reconnect(v) PROVE SnapshotStep
BY DEF Retry, Reconnect, QueueWrites, Terminate, SnapshotStep, SavedAt

\* The actions one by one: the state is saved after every change of it.
LEMMA StepSnapshot ==
  ASSUME IndInv, JournalOrder, [Next]_vars PROVE SnapshotStep
<1>0. OneFault
  BY StepFaults
<1>1. CASE Load
  BY <1>1 DEF Load, Misconfigured, StartUnstored, Restore, RestoreFails, Fail, Terminate,
              SnapshotStep, SavedAt
<1>2. CASE Waiting
  BY <1>2 DEF Waiting, BackedOff, OfflineDelayOver, QueueDelayOver, Stop, Terminate,
              SnapshotStep, SavedAt
<1>3. CASE Hydrate
  <2>1. CASE Get
    BY <2>1 DEF Get, SnapshotStep, SavedAt
  <2>2. CASE GetFails
    BY <2>2 DEF GetFails, Retry, Terminate, SnapshotStep, SavedAt
  <2>3. CASE ResolveKeep \/ ResolveDrop \/ ResolveDropFails \/ ResolveReject
    BY <2>3 DEF ResolveKeep, ResolveDrop, ResolveDropFails, ResolveReject, Fail,
                Terminate, SnapshotStep, SavedAt
  <2>4. CASE Resolved \/ ResolveCompact \/ Hydrated \/ HydratedFails
    BY <2>4 DEF Resolved, ResolveCompact, Hydrated, HydratedFails, Fail, Terminate,
                Store!StoreSnapshot, SnapshotStep, SavedAt
  <2> QED BY <1>3, <2>1, <2>2, <2>3, <2>4 DEF Hydrate
<1>4. CASE Replay
  BY <1>4 DEF Replay, ReplayPut, ReplayPutFails, ReplaySnapshot, ReplaySnapshotFails,
              ReplayAck, ReplayAckFails, ReplayCompact, AbortReplay, Store!StoreSnapshot,
              Store!AcknowledgeMutation, Store!Compact, Store!Keep, SnapshotStep, SavedAt
<1>5. CASE Listen
  <2>1. CASE Subscribe
    BY <2>1 DEF Subscribe, SnapshotStep, SavedAt
  <2>2. CASE SubscribeFails \/ StreamEnds
    BY <2>2, ReconnectSnapshot DEF SubscribeFails, StreamEnds, SavedAt
  <2>3. CASE NewsFromOthers \/ EchoSuppressed \/ ConflictRemoteWins \/ ConflictLocalWins
    BY <2>3 DEF NewsFromOthers, EchoSuppressed, ConflictRemoteWins, ConflictLocalWins,
                EventApplies, EventIgnored, AfterEvent, SnapshotStep, SavedAt
  <2>4. CASE ConflictRejected \/ SaveEvent \/ SaveEventFails
    BY <2>4 DEF ConflictRejected, SaveEvent, SaveEventFails, Fail, Terminate,
                Store!StoreSnapshot, SnapshotStep, SavedAt
  <2> QED BY <1>5, <2>1, <2>2, <2>3, <2>4 DEF Listen
<1>6. CASE WriteOnline
  <2>1. CASE WriteBadPath \/ WriteStored \/ WriteUnstored
    BY <2>1 DEF WriteBadPath, WriteStored, WriteUnstored, SnapshotStep, SavedAt
  <2>2. CASE WriteAppend
    <3>1. BadKey # {} => ~ Unfailed'
      BY EngineAssumption DEF Unfailed
    <3> QED BY <2>2, <3>1 DEF WriteAppend, Store!AppendMutation, SnapshotStep, SavedAt
  <2>3. CASE WriteAppendFails \/ WriteSnapshotFails \/ WritePutFails
    <3>1. Denied # {} \/ Fault("put") \/ Fault("io")
      BY <2>3 DEF WriteAppendFails, WriteSnapshotFails, WritePutFails
    <3>2. ~ Unfailed'
      BY <1>0, <3>1, IoFails, PutFails DEF JournalOrder, Unfailed
    <3> QED BY <3>2 DEF SnapshotStep
  <2>4. CASE WriteSnapshot
    BY <2>4 DEF WriteSnapshot, Store!StoreSnapshot, SnapshotStep, SavedAt
  <2>5. CASE WritePut \/ WriteAck \/ WriteCompact
    BY <2>5 DEF WritePut, WriteAck, WriteCompact, Store!AcknowledgeMutation,
                Store!Compact, Store!Keep, SnapshotStep, SavedAt
  <2> QED BY <1>6, <2>1, <2>2, <2>3, <2>4, <2>5 DEF WriteOnline
<1>7. CASE WriteOffline
  <2>1. CASE OfflineRefused
    BY <2>1 DEF OfflineRefused, Finish, Received, Home, SnapshotStep, SavedAt
  <2>2. CASE OfflineAccept
    BY <2>2 DEF OfflineAccept, Received, Home, SnapshotStep, SavedAt
  <2>3. CASE OfflineAppend
    BY <2>3 DEF OfflineAppend, SnapshotStep, SavedAt
  <2>4. CASE Fault("io")
    BY <1>0, <2>4, IoFails DEF JournalOrder, SnapshotStep
  <2>5. CASE OfflineSnapshot /\ Store!StoreSnapshot(tree)
    BY <2>5 DEF OfflineSnapshot, Store!StoreSnapshot, SnapshotStep
  <2> QED BY <1>7, <2>1, <2>2, <2>3, <2>4, <2>5
          DEF WriteOffline, OfflineAppendFails, OfflineSnapshot
<1>8. CASE Environment
  BY <1>8 DEF Environment, Submit, Abandon, Shutdown, Crash, Restart, Cut, OtherWrite,
              SnapshotStep, SavedAt
<1>9. CASE UNCHANGED vars
  BY <1>9 DEF vars, SnapshotStep, SavedAt
<1> QED BY <1>1, <1>2, <1>3, <1>4, <1>5, <1>6, <1>7, <1>8, <1>9 DEF Next, Task

\* The invariants of a run in which nothing fails hold initially.
LEMMA InitFaultless ==
  ASSUME Init PROVE Faultless
<1>1. /\ journal = {} /\ durable = <<>> /\ pc = "load" /\ Cardinality({}) = 0
      /\ Len(<<>>) = 0
  BY FS_EmptySet DEF Init, Store!Empty
<1> QED BY <1>1 DEF Faultless, Mirrored, OneOnline, QueueFits, SnapshotFollows, Running,
                    Fits

\* Every step keeps them.
LEMMA StepFaultless ==
  ASSUME IndInv, JournalOrder, Faultless, [Next]_vars, IndInv', JournalOrder'
  PROVE  Faultless'
<1>1. config' = config /\ OneFault /\ JournalStep /\ SnapshotStep
  BY StepFaults, StepJournal, StepSnapshot DEF JournalOrder
<1>2. Mirrored'
  BY <1>1, StepMirrored DEF Faultless
<1>3. OneOnline' /\ QueueFits'
  BY <1>1, <1>2, StepOneOnline, StepQueueFits DEF Faultless
<1>4. SnapshotFollows'
  <2>1. Unfailed' => Unfailed
    BY <1>1, UnfailedBefore DEF JournalOrder, IndInv
  <2>2. config.store /\ Unfailed /\ SavedAt => saved = tree
    BY DEF Faultless, SnapshotFollows, SavedAt
  <2>3. config'.store /\ Unfailed' /\ SavedAt' => saved' = tree'
    BY <1>1, <2>1, <2>2 DEF SnapshotStep
  <2> QED BY <2>3 DEF SnapshotFollows, SavedAt
<1> QED BY <1>2, <1>3, <1>4 DEF Faultless

\* As long as nothing fails the journal mirrors the list, a connected task holds
\* the write under way only, the journal fits its limit, and the state is saved.
THEOREM FaultlessRuns == Spec => []Faultless
<1>1. /\ IndInv /\ JournalOrder /\ Faultless /\ [Next]_vars /\ IndInv' /\ JournalOrder'
      => Faultless'
  BY StepFaultless
<1> QED BY <1>1, InitFaultless, Inductive, JournalIsOrdered, PTL DEF Spec

\* As long as no store operation has failed, the task's list and the journal have
\* the same mutations.
THEOREM JournalMirrorsList == Spec => []JournalMirrored
<1>1. Faultless => JournalMirrored
  BY DEF Faultless, Mirrored, JournalMirrored, Running
<1> QED BY <1>1, FaultlessRuns, PTL

\* What a crash would restore is what readers see, while the task waits.
THEOREM SnapshotIsDurable == Spec => []DurableSnapshot
<1>1. Faultless => DurableSnapshot
  BY DEF Faultless, SnapshotFollows, DurableSnapshot
<1> QED BY <1>1, FaultlessRuns, PTL

\* The queue of a handle never outgrows its limit.
THEOREM QueueIsBounded == Spec => []QueueBounded
<1>1. Faultless => QueueBounded
  BY DEF Faultless, QueueFits, Fits, QueueBounded
<1> QED BY <1>1, FaultlessRuns, PTL

-----------------------------------------------------------------------------
(* How often a write is sent. *)

\* Awaits at which a write is under way, and those after it was accepted.
BusyPCs == WritePCs \cup OfflinePCs
SentPCs == {"rsnap", "rack", "wack", "wcomp"}

\* Every caller has made its call or has not, as before.
CallsKept == \A c \in Calls : call'[c] = "idle" <=> call[c] = "idle"

\* The write under way, if any, was under way before.
NoTake == pc' \in BusyPCs => pc \in BusyPCs /\ cur' = cur

\* What a step does to the channel: nothing or its end, a write taken from it, one
\* sent on it.
Untouched == CallsKept /\ queue' \in {queue, <<>>} /\ NoTake
Takes ==
  /\ CallsKept /\ queue # <<>> /\ queue' = Tail(queue)
  /\ NoTake \/ (cur'.call = Head(queue).call /\ UNCHANGED delivered)
Submits ==
  /\ \E c \in Calls, e \in Writes :
       /\ call[c] = "idle" /\ call'[c] # "idle"
       /\ \A d \in Calls : d # c => call'[d] = call[d]
       /\ queue' \in {queue, Append(queue, [call |-> c, ev |-> e])}
  /\ NoTake

QueueStep == Untouched \/ Takes \/ Submits

\* An answer makes no call.
LEMMA ReplyCalls ==
  ASSUME TypeOK, NEW c, NEW a \in Answers, Reply(c, a) PROVE CallsKept
BY DEF TypeOK, Reply, CallsKept, Answers

\* Nor does the end of a task, which leaves nothing under way.
LEMMA TerminateQueue ==
  ASSUME TypeOK, NEW st, Terminate(st) PROVE QueueStep
BY DEF TypeOK, Terminate, Release, QueueStep, Untouched, CallsKept, NoTake, BusyPCs

\* A step that leaves the callers and the channel alone, and takes nothing.
LEMMA QuietQueue ==
  ASSUME UNCHANGED client, pc' \notin BusyPCs \/ (pc \in BusyPCs /\ cur' = cur)
  PROVE  QueueStep
BY DEF QueueStep, Untouched, CallsKept, NoTake

\* An answer of a write that was under way, one of a write just taken.
LEMMA FinishQueue ==
  ASSUME TypeOK, NEW w, NEW a \in Answers, Finish(w, a), w.home \in {"stream", "get", "queue"},
         queue' = queue \/ (queue # <<>> /\ queue' = Tail(queue))
  PROVE  QueueStep
<1>1. CallsKept
  BY ReplyCalls DEF Finish
<1>2. NoTake
  BY DEF Finish, NoTake, BusyPCs
<1> QED BY <1>1, <1>2 DEF QueueStep, Untouched, Takes

\* Every step does one of these to the channel.
LEMMA StepQueue ==
  ASSUME IndInv, [Next]_vars PROVE QueueStep
<1>0. TypeOK
  BY DEF IndInv
<1>r. ASSUME NEW v, Retry(v) \/ Reconnect(v) PROVE QueueStep
  BY <1>0, <1>r, QuietQueue, TerminateQueue DEF Retry, Reconnect, QueueWrites, BusyPCs
<1>1. CASE Load
  BY <1>0, <1>1, QuietQueue, TerminateQueue
     DEF Load, Misconfigured, StartUnstored, Restore, RestoreFails, Fail, BusyPCs
<1>2. CASE Waiting
  BY <1>0, <1>2, QuietQueue, TerminateQueue
     DEF Waiting, BackedOff, OfflineDelayOver, QueueDelayOver, Stop, BusyPCs
<1>3. CASE Hydrate
  <2>1. CASE Get \/ GetFails
    BY <1>r, <2>1, QuietQueue DEF Get, GetFails, BusyPCs
  <2>2. CASE ResolveKeep \/ ResolveDrop \/ Resolved \/ Hydrated
    BY <2>2, QuietQueue DEF ResolveKeep, ResolveDrop, Resolved, Hydrated, BusyPCs
  <2>3. CASE ResolveDropFails \/ ResolveReject \/ ResolveCompact \/ HydratedFails
    BY <1>0, <2>3, QuietQueue, TerminateQueue
       DEF ResolveDropFails, ResolveReject, ResolveCompact, HydratedFails, Fail, BusyPCs
  <2> QED BY <1>3, <2>1, <2>2, <2>3 DEF Hydrate
<1>4. CASE Replay
  BY <1>4, QuietQueue
     DEF Replay, ReplayPut, ReplayPutFails, ReplaySnapshot, ReplaySnapshotFails,
         ReplayAck, ReplayAckFails, ReplayCompact, AbortReplay, BusyPCs
<1>5. CASE Listen
  <2>1. CASE Subscribe \/ SubscribeFails \/ StreamEnds
    BY <1>r, <2>1, QuietQueue DEF Subscribe, SubscribeFails, StreamEnds, BusyPCs
  <2>2. CASE NewsFromOthers \/ EchoSuppressed \/ ConflictRemoteWins \/ ConflictLocalWins
    BY <2>2, QuietQueue
       DEF NewsFromOthers, EchoSuppressed, ConflictRemoteWins, ConflictLocalWins,
           EventApplies, EventIgnored, AfterEvent, BusyPCs
  <2>3. CASE ConflictRejected \/ SaveEvent \/ SaveEventFails
    BY <1>0, <2>3, QuietQueue, TerminateQueue
       DEF ConflictRejected, SaveEvent, SaveEventFails, Fail, BusyPCs
  <2> QED BY <1>5, <2>1, <2>2, <2>3 DEF Listen
<1>a. ASSUME NEW a \in Answers, FinishOnline(a), pc \in WritePCs PROVE QueueStep
  BY <1>0, <1>a, FinishQueue DEF FinishOnline, IndInv, UnderWay
<1>6. CASE WriteOnline
  <2>1. CASE WriteBadPath
    <3>1. CallsKept
      BY <1>0, <2>1, ReplyCalls DEF WriteBadPath, Answers
    <3> QED BY <2>1, <3>1 DEF WriteBadPath, QueueStep, Takes, NoTake, BusyPCs
  <2>2. CASE WriteStored
    BY <2>2 DEF WriteStored, Received, QueueStep, Takes, CallsKept
  <2>3. CASE WriteUnstored
    <3>1. CASE Reply(Head(queue).call, "cancelled") /\ UNCHANGED pc
      <4>1. CallsKept
        BY <1>0, <3>1, ReplyCalls DEF Answers
      <4> QED BY <2>3, <3>1, <4>1 DEF WriteUnstored, QueueStep, Takes, NoTake, BusyPCs
    <3>2. CASE cur' = Received("stream") /\ UNCHANGED call
      BY <2>3, <3>2 DEF WriteUnstored, Received, QueueStep, Takes, CallsKept
    <3> QED BY <2>3, <3>1, <3>2 DEF WriteUnstored
  <2>4. CASE WriteAppend \/ WriteAppendFails
    BY <1>a, <2>4, QuietQueue DEF WriteAppend, WriteAppendFails, BusyPCs, Answers
  <2>5. CASE WriteSnapshot \/ WriteSnapshotFails
    BY <1>a, <2>5, QuietQueue DEF WriteSnapshot, WriteSnapshotFails, BusyPCs, Answers
  <2>6. CASE WritePut \/ WritePutFails
    BY <1>a, <2>6, QuietQueue DEF WritePut, WritePutFails, BusyPCs, Answers
  <2>7. CASE WriteAck \/ WriteCompact
    BY <1>a, <2>7, QuietQueue DEF WriteAck, WriteCompact, BusyPCs, Answers
  <2> QED BY <1>6, <2>1, <2>2, <2>3, <2>4, <2>5, <2>6, <2>7 DEF WriteOnline
<1>7. CASE WriteOffline
  <2>1. CASE OfflineRefused
    <3>1. PICK a \in Answers : Finish(Received(Home), a)
      BY <2>1 DEF OfflineRefused, Answers
    <3> QED BY <1>0, <2>1, <3>1, FinishQueue DEF OfflineRefused, Received, Home
  <2>2. CASE OfflineAccept
    BY <2>2 DEF OfflineAccept, Received, QueueStep, Takes, CallsKept
  <2>3. CASE OfflineAppend
    BY <2>3, QuietQueue DEF OfflineAppend, BusyPCs
  <2>4. CASE OfflineAppendFails \/ OfflineSnapshot
    <3>1. PICK a \in Answers : FinishOffline(a)
      BY <2>4 DEF OfflineAppendFails, OfflineSnapshot, Answers
    <3> QED BY <1>0, <2>4, <3>1, FinishQueue
            DEF OfflineAppendFails, OfflineSnapshot, FinishOffline, IndInv, UnderWay
  <2> QED BY <1>7, <2>1, <2>2, <2>3, <2>4 DEF WriteOffline
<1>8. CASE Environment
  <2>1. ASSUME NEW c \in Calls, NEW e \in Writes, Submit(c, e) PROVE QueueStep
    BY <1>0, <2>1 DEF Submit, TypeOK, QueueStep, Submits, NoTake, BusyPCs
  <2>2. ASSUME NEW c \in Calls, Abandon(c) PROVE QueueStep
    BY <1>0, <2>2 DEF Abandon, TypeOK, QueueStep, Untouched, CallsKept, NoTake
  <2>3. CASE Shutdown \/ Cut
    BY <2>3, QuietQueue DEF Shutdown, Cut
  <2>4. CASE Crash \/ Restart
    BY <1>0, <2>4 DEF Crash, Restart, Release, TypeOK, QueueStep, Untouched, CallsKept,
                      NoTake, BusyPCs
  <2>5. CASE \E e \in RemoteWrites : OtherWrite(e)
    BY <2>5, QuietQueue DEF OtherWrite
  <2> QED BY <1>8, <2>1, <2>2, <2>3, <2>4, <2>5 DEF Environment
<1>9. CASE UNCHANGED vars
  BY <1>9, QuietQueue DEF vars
<1> QED BY <1>1, <1>2, <1>3, <1>4, <1>5, <1>6, <1>7, <1>8, <1>9 DEF Next, Task

\* A fault that may have a write sent again.
Mishap == Fault("crash") \/ Fault("io") \/ Fault("put")

\* What a step does to the deliveries: none, or one of a mutation not accepted yet.
\* Unless something fails, one that has been accepted is not carried on but to its
\* acknowledgement.
Delivers(m) ==
  /\ m \in Carried /\ Sent = {}
  /\ delivered' = [delivered EXCEPT ![m.call] = @ + 1]
  /\ m \in Carried' => m \in Sent' \/ Mishap

DeliveryStep ==
  \/ UNCHANGED delivered /\ \A m \in Sent : m \in Carried' => m \in Sent' \/ Mishap
  \/ \E m : Delivers(m)

\* What the task and its store carry comes from what they carried, or is the write
\* just taken from the channel.
LEMMA CarriedStep ==
  ASSUME IndInv, JournalStep, NEW m \in Carried'
  PROVE  m \in Carried \/ (pc' \in BusyPCs /\ m = CurMut' /\ ~ NoTake)
<1>0. durable \in Seq(Mutation) /\ Increasing(durable)
  BY ListFacts
<1>1. ToSet(<<>>) = {}
  BY DEF ToSet
<1>2. ASSUME pc \in AppendPCs
      PROVE  CurMut \in Carried /\ CurMut \in Mutation
  BY <1>2, CurMutType DEF Carried, AppendPCs
<1>3. CASE m \in journal' \cup ToSet(durable')
  <2>1. CASE Ends
    BY <1>1, <1>3, <2>1 DEF Ends, Carried
  <2>2. CASE Loads
    <3>1. \A i \in DOMAIN durable' : durable'[i] \in journal \cup ToSet(durable)
      BY <2>2 DEF Loads, ToSet
    <3> QED BY <1>3, <2>2, <3>1 DEF Loads, ToSet, Carried
  <2>3. CASE Stays
    BY <1>3, <2>3 DEF Stays, Carried
  <2>4. CASE Appends \/ LineLeft
    <3>1. ToSet(durable') \subseteq ToSet(durable) \cup {CurMut}
      BY <1>2, <2>4, AppendedSet DEF Appends, LineLeft
    <3>2. journal' \subseteq journal \cup {CurMut}
      BY <2>4 DEF Appends, LineLeft, Store!AppendMutation
    <3>3. journal \cup ToSet(durable) \subseteq Carried
      BY DEF Carried
    <3> QED BY <1>2, <1>3, <2>4, <3>1, <3>2, <3>3 DEF Appends, LineLeft
  <2>5. CASE Settles \/ Acknowledges \/ Compacts
    <3>1. journal' \subseteq journal
      BY <2>5, AckShrinks DEF Settles, Acknowledges, Compacts
    <3>2. ToSet(durable') \subseteq ToSet(durable)
      BY <1>0, <2>5, WithoutSet DEF Settles, Acknowledges, Compacts
    <3> QED BY <1>3, <3>1, <3>2 DEF Carried
  <2> QED BY <2>1, <2>2, <2>3, <2>4, <2>5 DEF JournalStep
<1>4. CASE pc' \in BusyPCs /\ m = CurMut'
  BY <1>4 DEF NoTake, BusyPCs, Carried, CurMut
<1> QED BY <1>3, <1>4 DEF Carried, BusyPCs

\* The task waits, or works on something that has not been sent.
LEMMA Unsent ==
  ASSUME pc \notin SentPCs, UNCHANGED delivered PROVE DeliveryStep
BY DEF DeliveryStep, Sent, SentPCs

\* Something fails, and no write has been accepted in the step.
LEMMA Mischance ==
  ASSUME Mishap, UNCHANGED delivered PROVE DeliveryStep
BY DEF DeliveryStep

\* What has been accepted is still on its way to the acknowledgement.
LEMMA StillSent ==
  ASSUME Sent' = Sent, UNCHANGED delivered PROVE DeliveryStep
BY DEF DeliveryStep

\* A mutation that goes from the journal and from the list is carried no more.
LEMMA NotCarried ==
  ASSUME IndInv, NEW m \in Mutation, durable' = Without(durable, m.id),
         \A n \in journal' : n.id # m.id, pc' \notin BusyPCs
  PROVE  m \notin Carried'
<1>1. durable \in Seq(Mutation) /\ Increasing(durable)
  BY ListFacts
<1>2. m \notin ToSet(durable')
  BY <1>1, WithoutSet
<1> QED BY <1>2 DEF Carried, BusyPCs

\* replay_pending: what has been sent is acknowledged, or something has failed.
LEMMA ReplayDelivery ==
  ASSUME IndInv, Replay PROVE DeliveryStep
<1>1. ASSUME pc = "rput", Deliver(Head(todo).call, Head(todo).ev),
             Mishap \/ (pc' = "rsnap" /\ UNCHANGED todo)
      PROVE  DeliveryStep
  <2>1. Head(todo) \in Carried
    BY <1>1, LoopHead, HeldSet DEF Carried
  <2>2. Sent = {} /\ (Head(todo) \in Sent' \/ Mishap)
    BY <1>1 DEF Sent
  <2> QED BY <1>1, <2>1, <2>2 DEF Deliver, Delivers, DeliveryStep
<1>2. CASE ReplayPut
  BY <1>1, <1>2 DEF ReplayPut
<1>3. CASE ReplayPutFails
  <2>1. CASE UNCHANGED history
    BY <1>3, <2>1, Unsent DEF ReplayPutFails, SentPCs
  <2> QED BY <1>1, <1>3, <2>1 DEF ReplayPutFails, Mishap
<1>4. CASE ReplaySnapshot
  BY <1>4, StillSent DEF ReplaySnapshot, Sent
<1>5. CASE ReplaySnapshotFails \/ ReplayAckFails
  BY <1>5, Mischance DEF ReplaySnapshotFails, ReplayAckFails, Mishap
<1>6. CASE ReplayAck
  <2>1. /\ Head(todo) \in Mutation /\ Sent = {Head(todo)}
        /\ durable' = Without(durable, Head(todo).id)
        /\ \A n \in journal' : n.id # Head(todo).id
        /\ pc' \notin BusyPCs /\ UNCHANGED delivered
    BY <1>6, LoopHead, HeadTailProperties
       DEF ReplayAck, Store!AcknowledgeMutation, Sent, BusyPCs
  <2> QED BY <2>1, NotCarried DEF DeliveryStep
<1>7. CASE ReplayCompact
  BY <1>7, Unsent DEF ReplayCompact, AbortReplay, SentPCs
<1> QED BY <1>2, <1>3, <1>4, <1>5, <1>6, <1>7 DEF Replay

\* handle_write: so is the write under way.
LEMMA WriteDelivery ==
  ASSUME IndInv, JournalOrder, WriteOnline PROVE DeliveryStep
<1>1. CASE WriteBadPath \/ WriteStored \/ WriteUnstored
  BY <1>1, Unsent DEF WriteBadPath, WriteStored, WriteUnstored, SentPCs
<1>2. CASE WriteAppend \/ WriteAppendFails \/ WriteSnapshot \/ WriteSnapshotFails
  BY <1>2, Unsent
     DEF WriteAppend, WriteAppendFails, WriteSnapshot, WriteSnapshotFails, SentPCs
<1>3. ASSUME pc = "wput", Deliver(cur.call, cur.ev), CurMut \in Carried' =>
               CurMut \in Sent' \/ Mishap
      PROVE  DeliveryStep
  <2>1. CurMut \in Carried /\ Sent = {} /\ CurMut.call = cur.call
    BY <1>3 DEF Carried, Sent, CurMut
  <2>2. delivered' = [delivered EXCEPT ![CurMut.call] = @ + 1]
    BY <1>3, <2>1 DEF Deliver
  <2> QED BY <1>3, <2>1, <2>2 DEF Delivers, DeliveryStep
<1>4. CASE WritePut
  <2>1. CASE config.store
    <3>1. pc' = "wack" /\ UNCHANGED cur
      BY <1>4, <2>1 DEF WritePut
    <3> QED BY <1>3, <1>4, <3>1 DEF WritePut, Sent, CurMut
  <2>2. CASE ~ config.store
    <3>1. /\ pc' = "stream" /\ journal' = {} /\ durable' = <<>>
      BY <1>4, <2>2, OnlineHome DEF WritePut, JournalOrder, NothingHeld
    <3>2. Carried' = {}
      BY <3>1 DEF Carried, ToSet
    <3> QED BY <1>3, <1>4, <3>2 DEF WritePut
  <2> QED BY <2>1, <2>2
<1>5. CASE WritePutFails
  <2>1. CASE UNCHANGED history
    BY <1>5, <2>1, Unsent DEF WritePutFails, SentPCs
  <2> QED BY <1>3, <1>5, <2>1 DEF WritePutFails, Mishap
<1>6. CASE WriteAck
  <2>1. CASE pc' = "wcomp" /\ UNCHANGED cur
    BY <1>6, <2>1, StillSent DEF WriteAck, Sent, CurMut
  <2> QED BY <1>6, <2>1, Mischance DEF WriteAck, Mishap
<1>7. CASE WriteCompact
  <2>1. CASE durable' = Without(durable, cur.id)
    <3>1. /\ CurMut \in Mutation /\ CurMut.id = cur.id /\ Sent = {CurMut}
          /\ pc' = "stream" /\ UNCHANGED <<delivered, journal>>
      BY <1>7, CurMutType, OnlineHome
         DEF WriteCompact, Store!Compact, Store!Keep, Sent
    <3>2. \A n \in journal' : n.id # CurMut.id
      BY <1>7, <3>1 DEF WriteCompact, JournalOrder, OrphansLast
    <3>3. CurMut \notin Carried'
      <4> HIDE DEF CurMut
      <4> QED BY <2>1, <3>1, <3>2, NotCarried DEF BusyPCs
    <3> QED BY <3>1, <3>3 DEF DeliveryStep
  <2> QED BY <1>7, <2>1, Mischance DEF WriteCompact, Mishap
<1> QED BY <1>1, <1>2, <1>4, <1>5, <1>6, <1>7 DEF WriteOnline

\* Every step delivers at most one write, and no other step takes one that has been
\* accepted back into the journal unless something fails.
LEMMA StepDelivery ==
  ASSUME IndInv, JournalOrder, [Next]_vars PROVE DeliveryStep
<1>r. ASSUME NEW v, Retry(v) \/ Reconnect(v) PROVE UNCHANGED delivered
  BY <1>r DEF Retry, Reconnect, QueueWrites, Terminate
<1>1. CASE Load
  BY <1>1, Unsent DEF Load, Misconfigured, StartUnstored, Restore, RestoreFails, Fail,
                      Terminate, SentPCs
<1>2. CASE Waiting
  BY <1>2, Unsent DEF Waiting, BackedOff, OfflineDelayOver, QueueDelayOver, Stop,
                      Terminate, SentPCs
<1>3. CASE Hydrate
  <2>1. CASE Get \/ GetFails
    BY <1>r, <2>1, Unsent DEF Get, GetFails, SentPCs
  <2>2. CASE ResolveKeep \/ ResolveDrop \/ Resolved \/ Hydrated
    BY <2>2, Unsent DEF ResolveKeep, ResolveDrop, Resolved, Hydrated, SentPCs
  <2>3. CASE ResolveDropFails \/ ResolveReject \/ ResolveCompact \/ HydratedFails
    BY <2>3, Unsent DEF ResolveDropFails, ResolveReject, ResolveCompact, HydratedFails,
                        Fail, Terminate, SentPCs
  <2> QED BY <1>3, <2>1, <2>2, <2>3 DEF Hydrate
<1>4. CASE Listen
  <2>1. CASE Subscribe \/ SubscribeFails \/ StreamEnds
    BY <1>r, <2>1, Unsent DEF Subscribe, SubscribeFails, StreamEnds, SentPCs
  <2>2. CASE NewsFromOthers \/ EchoSuppressed \/ ConflictRemoteWins \/ ConflictLocalWins
    BY <2>2, Unsent
       DEF NewsFromOthers, EchoSuppressed, ConflictRemoteWins, ConflictLocalWins,
           EventApplies, EventIgnored, SentPCs
  <2>3. CASE ConflictRejected \/ SaveEvent \/ SaveEventFails
    BY <2>3, Unsent DEF ConflictRejected, SaveEvent, SaveEventFails, Fail, Terminate,
                        SentPCs
  <2> QED BY <1>4, <2>1, <2>2, <2>3 DEF Listen
<1>5. CASE WriteOffline
  BY <1>5, Unsent DEF WriteOffline, OfflineRefused, OfflineAccept, OfflineAppend,
                      OfflineAppendFails, OfflineSnapshot, SentPCs
<1>6. CASE Environment
  <2>1. CASE Crash
    BY <2>1, Mischance DEF Crash, Mishap
  <2>2. CASE Restart
    BY <2>2, Unsent DEF Restart, SentPCs
  <2>3. CASE ~ (Crash \/ Restart)
    <3>1. UNCHANGED <<pc, cur, todo, delivered>>
      BY <1>6, <2>3 DEF Environment, Submit, Abandon, Shutdown, Cut, OtherWrite
    <3> QED BY <3>1, StillSent DEF Sent, CurMut
  <2> QED BY <2>1, <2>2, <2>3
<1>7. CASE UNCHANGED vars
  BY <1>7, StillSent DEF vars, Sent, CurMut
<1> QED
  BY <1>1, <1>2, <1>3, <1>4, <1>5, <1>6, <1>7, ReplayDelivery, WriteDelivery DEF Next, Task

\* The writes on the channel are of calls.
LEMMA QueueFacts ==
  ASSUME TypeOK
  PROVE  /\ queue \in Seq([call : Calls, ev : Event])
         /\ Len(queue) \in Nat /\ DOMAIN queue = 1..Len(queue)
         /\ \A i \in DOMAIN queue : queue[i].call \in Calls
<1>1. queue \in Seq([call : Calls, ev : Event])
  BY DEF TypeOK
<1>2. Len(queue) \in Nat /\ DOMAIN queue = 1..Len(queue)
  BY <1>1, LenProperties
<1>3. \A i \in DOMAIN queue : queue[i] \in [call : Calls, ev : Event]
  BY <1>1, <1>2, ElementOfSeq
<1> QED BY <1>1, <1>2, <1>3

\* What is left of the channel when its first write is taken.
LEMMA TakenQueue ==
  ASSUME TypeOK, queue # <<>>, queue' = Tail(queue)
  PROVE  /\ 1 \in DOMAIN queue /\ Head(queue) = queue[1]
         /\ \A i \in DOMAIN queue' : /\ i + 1 \in DOMAIN queue /\ i + 1 # 1
                                     /\ queue'[i] = queue[i + 1]
<1>1. /\ queue \in Seq([call : Calls, ev : Event])
      /\ Len(queue) \in Nat /\ DOMAIN queue = 1..Len(queue)
  BY QueueFacts
<1>2. Len(queue) # 0
  BY <1>1, EmptySeq
<1>3. /\ Head(queue) = queue[1] /\ DOMAIN Tail(queue) = 1..(Len(queue) - 1)
      /\ \A i \in 1..(Len(queue) - 1) : Tail(queue)[i] = queue[i + 1]
  BY <1>1, HeadTailProperties, LenProperties
<1> QED BY <1>1, <1>2, <1>3

\* A call whose write the task has not received had made none before, or it is the
\* same.
LEMMA StillUntaken ==
  ASSUME TypeOK, QueueStep, NEW c \in Calls, Untaken(c)' PROVE Untaken(c)
<1>1. /\ queue \in Seq([call : Calls, ev : Event])
      /\ Len(queue) \in Nat /\ DOMAIN queue = 1..Len(queue)
  BY QueueFacts
<1>2. DOMAIN (<<>>) = {}
  OBVIOUS
<1>3. CASE Untouched
  BY <1>2, <1>3 DEF Untouched, CallsKept, Untaken
<1>4. CASE Takes
  <2>1. call'[c] = "idle" => call[c] = "idle"
    BY <1>4 DEF Takes, CallsKept
  <2>2. \A i \in DOMAIN queue' : i + 1 \in DOMAIN queue /\ queue'[i] = queue[i + 1]
    BY <1>4, TakenQueue DEF Takes
  <2> QED BY <2>1, <2>2 DEF Untaken
<1>5. CASE Submits
  <2>1. PICK d \in Calls, e \in Writes :
          /\ call[d] = "idle"
          /\ \A b \in Calls : b # d => call'[b] = call[b]
          /\ queue' \in {queue, Append(queue, [call |-> d, ev |-> e])}
    BY <1>5 DEF Submits
  <2>2. CASE c = d
    BY <2>1, <2>2 DEF Untaken
  <2>3. CASE c # d /\ queue' = queue
    BY <2>1, <2>3 DEF Untaken
  <2>4. CASE c # d /\ queue' = Append(queue, [call |-> d, ev |-> e])
    <3>1. e \in Event
      BY EngineAssumption
    <3>2. /\ DOMAIN queue' = 1..(Len(queue) + 1)
          /\ \A i \in 1..Len(queue) : queue'[i] = queue[i]
          /\ queue'[Len(queue) + 1] = [call |-> d, ev |-> e]
      BY <1>1, <2>4, <3>1, AppendProperties, LenProperties
    <3>3. \A i \in DOMAIN queue' : queue'[i].call = c => i \in DOMAIN queue /\ queue[i].call = c
      BY <1>1, <2>4, <3>2
    <3> QED BY <2>1, <2>4, <3>3 DEF Untaken
  <2> QED BY <2>1, <2>2, <2>3, <2>4
<1> QED BY <1>3, <1>4, <1>5 DEF QueueStep

\* A write the task takes from the channel is one it has not received.
LEMMA TakenUntaken ==
  ASSUME TypeOK, OneWritePerCall, QueueStep, ~ NoTake
  PROVE  /\ \E c \in Calls : cur'.call = c /\ Untaken(c) /\ ~ Untaken(c)'
         /\ UNCHANGED delivered
<1>1. Takes /\ cur'.call = Head(queue).call /\ UNCHANGED delivered
  BY DEF QueueStep, Untouched, Takes, Submits
<1>2. /\ 1 \in DOMAIN queue /\ Head(queue) = queue[1]
      /\ \A i \in DOMAIN queue' : /\ i + 1 \in DOMAIN queue /\ i + 1 # 1
                                  /\ queue'[i] = queue[i + 1]
  BY <1>1, TakenQueue DEF Takes
<1>3. queue[1].call \in Calls
  BY <1>2, QueueFacts
<1>4. Untaken(queue[1].call)
  BY <1>2 DEF Untaken
<1>5. call'[queue[1].call] # "idle"
  BY <1>1, <1>2, <1>3 DEF Takes, CallsKept, OneWritePerCall
<1>6. \A i \in DOMAIN queue' : queue'[i].call # queue[1].call
  BY <1>2 DEF OneWritePerCall
<1>7. PICK c \in Calls : c = queue[1].call
  BY <1>3
<1>8. Untaken(c) /\ ~ Untaken(c)'
  BY <1>4, <1>5, <1>6, <1>7 DEF Untaken
<1> QED BY <1>1, <1>2, <1>7, <1>8

\* The mutations the task and its store carry are of calls.
LEMMA CarriedType ==
  ASSUME IndInv, NEW m \in Carried PROVE m \in Mutation /\ m.call \in Calls
<1>1. durable \in Seq(Mutation) /\ journal \subseteq Mutation
  BY ListFacts
<1>2. ToSet(durable) \subseteq Mutation
  <2>1. \A i \in DOMAIN durable : durable[i] \in Mutation
    BY ListFacts
  <2> QED BY <2>1 DEF ToSet
<1>3. m \in Mutation
  BY <1>1, <1>2, CurMutType DEF Carried
<1> QED BY <1>3 DEF Mutation

\* A call stays one write.
LEMMA StepOneWrite ==
  ASSUME IndInv, OneWritePerCall, JournalStep, QueueStep, DeliveryStep
  PROVE  OneWritePerCall'
<1>0. TypeOK
  BY DEF IndInv
<1>q. /\ queue \in Seq([call : Calls, ev : Event])
      /\ Len(queue) \in Nat /\ DOMAIN queue = 1..Len(queue)
      /\ \A i \in DOMAIN queue : queue[i].call \in Calls
  BY <1>0, QueueFacts
<1>e. DOMAIN (<<>>) = {}
  OBVIOUS
<1>1. \A m, n \in Carried' : m.call = n.call => m = n
  <2> SUFFICES ASSUME NEW m \in Carried', NEW n \in Carried', m.call = n.call
               PROVE  m = n
    OBVIOUS
  <2>1. CASE m \in Carried /\ n \in Carried
    BY <2>1 DEF OneWritePerCall
  <2>2. ASSUME NEW k \in Carried, k.call = cur'.call, ~ NoTake PROVE FALSE
    BY <1>0, <2>2, TakenUntaken DEF OneWritePerCall
  <2>3. CurMut'.call = cur'.call
    BY DEF CurMut
  <2>4. /\ m \in Carried \/ (m = CurMut' /\ ~ NoTake)
        /\ n \in Carried \/ (n = CurMut' /\ ~ NoTake)
    BY CarriedStep
  <2> HIDE DEF CurMut
  <2> QED BY <2>1, <2>2, <2>3, <2>4
<1>2. /\ \A i, j \in DOMAIN queue' : queue'[i].call = queue'[j].call => i = j
      /\ \A i \in DOMAIN queue' : call'[queue'[i].call] # "idle"
  <2>1. CASE Untouched
    BY <1>e, <1>q, <2>1 DEF Untouched, CallsKept, OneWritePerCall
  <2>2. CASE Takes
    <3>1. \A i \in DOMAIN queue' : /\ i + 1 \in DOMAIN queue /\ queue'[i] = queue[i + 1]
      BY <1>0, <2>2, TakenQueue DEF Takes
    <3>2. DOMAIN queue' \subseteq Nat
      BY <1>q, <2>2, HeadTailProperties, LenProperties DEF Takes
    <3>3. \A i, j \in DOMAIN queue' : queue'[i].call = queue'[j].call => i = j
      <4>1. ASSUME NEW i \in DOMAIN queue', NEW j \in DOMAIN queue',
                   queue'[i].call = queue'[j].call
            PROVE  i = j
        <5>1. i + 1 = j + 1
          BY <3>1, <4>1 DEF OneWritePerCall
        <5> QED BY <3>2, <5>1
      <4> QED BY <4>1
    <3> QED BY <1>q, <2>2, <3>1, <3>3 DEF Takes, CallsKept, OneWritePerCall
  <2>3. CASE Submits
    <3>1. PICK d \in Calls, e \in Writes :
            /\ call[d] = "idle" /\ call'[d] # "idle"
            /\ \A b \in Calls : b # d => call'[b] = call[b]
            /\ queue' \in {queue, Append(queue, [call |-> d, ev |-> e])}
      BY <2>3 DEF Submits
    <3>2. \A i \in DOMAIN queue : queue[i].call # d /\ call'[queue[i].call] # "idle"
      BY <1>q, <3>1 DEF OneWritePerCall
    <3>3. CASE queue' = queue
      BY <3>2, <3>3 DEF OneWritePerCall
    <3>4. CASE queue' = Append(queue, [call |-> d, ev |-> e])
      <4>1. e \in Event
        BY EngineAssumption
      <4>2. /\ DOMAIN queue' = 1..(Len(queue) + 1)
            /\ \A i \in 1..Len(queue) : queue'[i] = queue[i]
            /\ queue'[Len(queue) + 1].call = d
        BY <1>q, <3>4, <4>1, AppendProperties, LenProperties
      <4>3. \A i \in DOMAIN queue' : i \in DOMAIN queue \/ i = Len(queue) + 1
        BY <1>q, <4>2
      <4> QED BY <1>q, <3>1, <3>2, <4>2, <4>3 DEF OneWritePerCall
    <3> QED BY <3>1, <3>3, <3>4
  <2> QED BY <2>1, <2>2, <2>3 DEF QueueStep
<1>3. ASSUME NEW c \in Calls, Untaken(c)'
      PROVE  delivered'[c] = 0 /\ \A m \in Carried' : m.call # c
  <2>1. /\ Untaken(c) /\ delivered[c] = 0 /\ \A m \in Carried : m.call # c
    BY <1>0, <1>3, StillUntaken DEF OneWritePerCall
  <2>2. delivered'[c] = 0
    <3>1. CASE UNCHANGED delivered
      BY <2>1, <3>1
    <3>2. ASSUME NEW m, Delivers(m) PROVE delivered'[c] = 0
      BY <1>0, <2>1, <3>2 DEF Delivers, TypeOK
    <3> QED BY <3>1, <3>2 DEF DeliveryStep
  <2>3. ASSUME NEW m \in Carried', m.call = c PROVE FALSE
    <3>1. m = CurMut' /\ ~ NoTake
      BY <2>1, <2>3, CarriedStep
    <3>2. m.call = cur'.call
      BY <3>1 DEF CurMut
    <3> QED BY <1>0, <1>3, <2>3, <3>1, <3>2, TakenUntaken
  <2> QED BY <2>2, <2>3
<1> QED BY <1>1, <1>2, <1>3 DEF OneWritePerCall

\* What has failed is not undone, and what fails counts.
LEMMA MishapsGrow ==
  ASSUME TypeOK, FaultsLeft, OneFault
  PROVE  /\ Mishaps \in Nat /\ Mishaps' \in Nat /\ Mishaps <= Mishaps'
         /\ Mishap => Mishaps + 1 <= Mishaps'
<1>1. "io" \in FaultKinds /\ "put" \in FaultKinds /\ "crash" \in FaultKinds
  BY DEF FaultKinds
<1>2. \A f \in {"io", "put", "crash"} :
        /\ Used(f) \in Nat /\ Used(f)' \in Nat /\ Used(f) <= Used(f)'
        /\ Fault(f) => Used(f)' = Used(f) + 1
  BY <1>1, FaultsFall, FaultCounted
<1> HIDE DEF Used
<1> QED BY <1>2 DEF Mishaps, Mishap

\* A write is delivered once, and once more for each thing that fails.
LEMMA StepDeliveries ==
  ASSUME IndInv, FaultsLeft, OneFault, OncePerFault, JournalStep, QueueStep, DeliveryStep
  PROVE  DeliveriesBounded'
<1>0. TypeOK /\ OneWritePerCall /\ DeliveriesBounded
  BY DEF IndInv, OncePerFault
<1>m. /\ Mishaps \in Nat /\ Mishaps' \in Nat /\ Mishaps <= Mishaps'
      /\ Mishap => Mishaps + 1 <= Mishaps'
  BY <1>0, MishapsGrow
<1> DEFINE More(c) == \E m \in Carried \ Sent : m.call = c
<1> SUFFICES ASSUME NEW c \in Calls
             PROVE  delivered'[c] <= Mishaps' + IF More(c)' THEN 0 ELSE 1
  BY DEF DeliveriesBounded
<1>d. /\ delivered[c] \in Nat /\ delivered[c] <= Mishaps + IF More(c) THEN 0 ELSE 1
  BY <1>0 DEF TypeOK, DeliveriesBounded
<1>t. \A m \in Carried' : m.call = c /\ m \notin Carried =>
        delivered'[c] = 0
  <2>1. ASSUME NEW m \in Carried', m.call = c, m \notin Carried PROVE delivered'[c] = 0
    <3>1. m = CurMut' /\ ~ NoTake
      BY <2>1, CarriedStep
    <3>2. m.call = cur'.call
      BY <3>1 DEF CurMut
    <3> QED BY <1>0, <2>1, <3>1, <3>2, TakenUntaken DEF OneWritePerCall
  <2> QED BY <2>1
<1> HIDE DEF Mishaps
<1>1. CASE UNCHANGED delivered /\ \A m \in Sent : m \in Carried' => m \in Sent' \/ Mishap
  <2>1. CASE ~ More(c)'
    <3> HIDE DEF More
    <3> QED BY <1>1, <1>d, <1>m, <2>1
  <2>2. CASE More(c)'
    <3>1. PICK m \in Carried' \ Sent' : m.call = c
      BY <2>2
    <3>2. CASE m \notin Carried
      <4>1. delivered'[c] = 0
        BY <1>t, <3>1, <3>2
      <4> HIDE DEF More
      <4>2. (IF More(c)' THEN 0 ELSE 1) \in Nat
        OBVIOUS
      <4>3. \A a, b \in Nat : 0 <= a + b
        OBVIOUS
      <4> QED BY <1>m, <4>1, <4>2, <4>3
    <3>3. CASE m \in Carried \ Sent
      <4>1. More(c)
        BY <3>1, <3>3
      <4> HIDE DEF More
      <4> QED BY <1>1, <1>d, <1>m, <2>2, <4>1
    <3>4. CASE m \in Sent
      <4>1. Mishap
        BY <1>1, <3>1, <3>4
      <4> HIDE DEF More
      <4> QED BY <1>1, <1>d, <1>m, <2>2, <4>1
    <3> QED BY <3>2, <3>3, <3>4
  <2> QED BY <2>1, <2>2
<1>2. ASSUME NEW m, Delivers(m)
      PROVE  delivered'[c] <= Mishaps' + IF More(c)' THEN 0 ELSE 1
  <2>1. /\ m \in Carried /\ Sent = {} /\ m.call \in Calls
        /\ delivered'[m.call] = delivered[m.call] + 1
        /\ \A d \in Calls : d # m.call => delivered'[d] = delivered[d]
        /\ m \in Carried' => m \in Sent' \/ Mishap
    BY <1>0, <1>2, CarriedType DEF Delivers, TypeOK
  <2>2. CASE c = m.call
    <3>1. More(c)
      BY <2>1, <2>2
    <3>2. More(c)' => Mishap
      <4>1. ASSUME NEW n \in Carried' \ Sent', n.call = c PROVE Mishap
        <5>1. n \in Carried
          BY <1>t, <1>d, <2>1, <2>2, <4>1
        <5>2. n = m
          BY <1>0, <2>1, <2>2, <4>1, <5>1 DEF OneWritePerCall
        <5> QED BY <2>1, <4>1, <5>2
      <4> QED BY <4>1
    <3> HIDE DEF More
    <3> QED BY <1>d, <1>m, <2>1, <2>2, <3>1, <3>2
  <2>3. CASE c # m.call
    <3>1. ASSUME NEW n \in Carried' \ Sent', n.call = c PROVE More(c) \/ delivered'[c] = 0
      BY <1>t, <2>1, <3>1
    <3>2. More(c)' => More(c) \/ delivered'[c] = 0
      BY <3>1
    <3> HIDE DEF More
    <3> QED BY <1>d, <1>m, <2>1, <2>3, <3>2
  <2> QED BY <2>2, <2>3
<1> QED BY <1>1, <1>2 DEF DeliveryStep

\* Initially nothing has been sent.
LEMMA InitOncePerFault ==
  ASSUME Init PROVE OncePerFault
<1>1. /\ queue = <<>> /\ DOMAIN queue = {} /\ Carried = {}
      /\ \A c \in Calls : delivered[c] = 0
  BY DEF Init, Carried, Store!Empty, ToSet
<1>2. Mishaps \in Nat
  <2>1. \A f \in FaultKinds : Faults[f] \in Nat /\ left[f] = Faults[f]
    BY EngineAssumption DEF Init
  <2> QED BY <2>1 DEF Mishaps, Used, FaultKinds
<1> HIDE DEF Mishaps
<1> QED BY <1>1, <1>2 DEF OncePerFault, OneWritePerCall, DeliveriesBounded

\* Every call is one write, and that is sent once, and once more for each crash,
\* store operation or request that fails: by induction.
THEOREM SentOncePerFault == Spec => []OncePerFault
<1>1. IndInv /\ JournalOrder /\ OncePerFault /\ [Next]_vars => OncePerFault'
  BY StepFaults, StepJournal, StepQueue, StepDelivery, StepOneWrite, StepDeliveries
     DEF JournalOrder, OncePerFault
<1> QED BY <1>1, InitOncePerFault, Inductive, JournalIsOrdered, PTL DEF Spec

\* A write reaches the database twice only when something has failed.
THEOREM RepeatedOnlyOnFaults == Spec => []DuplicatesNeedAFault
<1>1. ASSUME TypeOK, FaultsLeft, OncePerFault PROVE DuplicatesNeedAFault
  <2>1. /\ Mishaps \in Nat /\ \A c \in Calls : delivered[c] \in Nat
    <3>1. \A f \in FaultKinds : left[f] \in Nat /\ Faults[f] \in Nat /\ left[f] <= Faults[f]
      BY <1>1, EngineAssumption DEF TypeOK, FaultsLeft
    <3>2. \A f \in FaultKinds : Used(f) \in Nat
      BY <3>1 DEF Used
    <3>3. \A c \in Calls : delivered[c] \in Nat
      BY <1>1 DEF TypeOK
    <3>4. Used("crash") \in Nat /\ Used("io") \in Nat /\ Used("put") \in Nat
      BY <3>2 DEF FaultKinds
    <3> HIDE DEF Used
    <3> QED BY <3>3, <3>4 DEF Mishaps
  <2>2. \A c \in Calls : delivered[c] <= Mishaps + 1
    <3> HIDE DEF Mishaps
    <3> QED BY <1>1, <2>1 DEF OncePerFault, DeliveriesBounded
  <2>3. Mishaps + 1 = 1 + Used("crash") + Used("io") + Used("put")
    <3>1. \A f \in FaultKinds : Used(f) \in Int
      BY <1>1, EngineAssumption DEF TypeOK, Used
    <3> HIDE DEF Used
    <3> QED BY <3>1 DEF Mishaps, FaultKinds
  <2> QED BY <2>2, <2>3 DEF DuplicatesNeedAFault
<1>2. IndInv /\ JournalOrder /\ OncePerFault => DuplicatesNeedAFault
  BY <1>1 DEF IndInv, JournalOrder
<1> QED BY <1>2, Inductive, JournalIsOrdered, SentOncePerFault, PTL

-----------------------------------------------------------------------------
(* What an observer counts: the gauge and the attempts. *)

OfflineAwaits == {"offline", "queue"} \cup OfflinePCs

\* What a step does to the attempt counter of a task that does not queue: nothing,
\* a start from zero after a hydration, one more for a loss it survives.
Counts ==
  \/ pc' = "done"
  \/ UNCHANGED attempt /\ ~ Lost /\ (pc' \in HydratingPCs => pc \in HydratingPCs \/ Fetched)
  \/ attempt' = 0 /\ pc' = "sub" /\ pc \in HydratingPCs \cup {"get"}
  \/ ~ Exhausted /\ attempt' = NextAttempt /\ pc' = "backoff"

AttemptStep ==
  /\ pc' \in OfflineAwaits => pc \in OfflineAwaits \/ config.queueing
  /\ ~ config.queueing /\ pc \notin OfflineAwaits => Counts

\* A step within hydration, or to an await outside it, that counts nothing.
LEMMA SameAttempt ==
  ASSUME UNCHANGED attempt, pc \notin {"get", "sub", "stream"} \/ pc' \in HydratingPCs,
         pc' \in HydratingPCs => pc \in HydratingPCs,
         pc' \notin OfflineAwaits
  PROVE  AttemptStep
BY DEF AttemptStep, Counts, Lost, HydratingPCs, OfflineAwaits

\* A task that has ended counts no more.
LEMMA EndedAttempt ==
  ASSUME NEW st, Terminate(st) PROVE AttemptStep
<1>1. pc' = "done"
  BY DEF Terminate
<1> QED BY <1>1 DEF AttemptStep, Counts, OfflineAwaits

\* retry and reconnect_or_queue.
LEMMA ReconnectAttempt ==
  ASSUME NEW v, Retry(v) \/ Reconnect(v) PROVE AttemptStep
BY EndedAttempt DEF Retry, Reconnect, QueueWrites, AttemptStep, Counts, OfflineAwaits

\* An answer of handle_write leaves the counter alone.
LEMMA OnlineAttempt ==
  ASSUME IndInv, pc \in WritePCs, NEW a, FinishOnline(a) PROVE AttemptStep
BY DEF IndInv, UnderWay, FinishOnline, Finish, AttemptStep, Counts, OfflineAwaits, Lost,
       HydratingPCs

\* Every step of the task counts in one of these ways.
LEMMA TaskAttempt ==
  ASSUME IndInv, Task PROVE AttemptStep
<1> USE DEF OfflineAwaits, HydratingPCs
<1>1. CASE Load
  BY <1>1, SameAttempt, EndedAttempt
     DEF Load, Misconfigured, StartUnstored, Restore, RestoreFails, Fail
<1>2. CASE Waiting
  BY <1>2, EndedAttempt
     DEF Waiting, BackedOff, OfflineDelayOver, QueueDelayOver, Stop, AttemptStep, Counts,
         Lost
<1>3. CASE Hydrate
  <2>1. CASE Get
    BY <2>1 DEF Get, AttemptStep, Counts, Lost, Fetched
  <2>2. CASE GetFails
    BY <2>2, ReconnectAttempt DEF GetFails, AttemptStep
  <2>3. CASE ResolveKeep \/ ResolveDrop \/ Resolved
    BY <2>3, SameAttempt DEF ResolveKeep, ResolveDrop, Resolved
  <2>4. CASE ResolveDropFails \/ ResolveReject \/ HydratedFails
    BY <2>4, EndedAttempt DEF ResolveDropFails, ResolveReject, HydratedFails, Fail
  <2>5. CASE ResolveCompact \/ Hydrated
    BY <2>5, EndedAttempt DEF ResolveCompact, Hydrated, Fail, AttemptStep, Counts, Lost
  <2> QED BY <1>3, <2>1, <2>2, <2>3, <2>4, <2>5 DEF Hydrate
<1>4. CASE Replay
  BY <1>4 DEF Replay, ReplayPut, ReplayPutFails, ReplaySnapshot, ReplaySnapshotFails,
              ReplayAck, ReplayAckFails, ReplayCompact, AbortReplay, AttemptStep,
              Counts, Lost
<1>5. CASE Listen
  <2>1. CASE Subscribe \/ SaveEvent
    BY <2>1 DEF Subscribe, SaveEvent, AttemptStep, Counts, Lost
  <2>2. CASE SubscribeFails \/ StreamEnds
    BY <2>2, ReconnectAttempt DEF SubscribeFails, StreamEnds
  <2>3. CASE NewsFromOthers \/ EchoSuppressed \/ ConflictRemoteWins \/ ConflictLocalWins
    BY <2>3 DEF NewsFromOthers, EchoSuppressed, ConflictRemoteWins, ConflictLocalWins,
                EventApplies, EventIgnored, AfterEvent, AttemptStep, Counts, Lost
  <2>4. CASE ConflictRejected \/ SaveEventFails
    BY <2>4, EndedAttempt DEF ConflictRejected, SaveEventFails, Fail
  <2> QED BY <1>5, <2>1, <2>2, <2>3, <2>4 DEF Listen
<1>6. CASE WriteOnline
  <2>1. CASE WriteBadPath \/ WriteStored \/ WriteUnstored
    BY <2>1 DEF WriteBadPath, WriteStored, WriteUnstored, AttemptStep, Counts, Lost
  <2>2. CASE WriteAppend \/ WriteAppendFails \/ WriteSnapshot \/ WriteSnapshotFails
    BY <2>2, OnlineAttempt
       DEF WriteAppend, WriteAppendFails, WriteSnapshot, WriteSnapshotFails, AttemptStep,
           Counts, Lost
  <2>3. CASE WritePut \/ WritePutFails \/ WriteAck \/ WriteCompact
    BY <2>3, OnlineAttempt
       DEF WritePut, WritePutFails, WriteAck, WriteCompact, AttemptStep, Counts, Lost
  <2> QED BY <1>6, <2>1, <2>2, <2>3 DEF WriteOnline
<1>7. CASE WriteOffline
  BY <1>7 DEF WriteOffline, OfflineRefused, OfflineAccept, OfflineAppend,
              OfflineAppendFails, OfflineSnapshot, AttemptStep
<1> QED BY <1>1, <1>2, <1>3, <1>4, <1>5, <1>6, <1>7 DEF Task

\* Where the gauge is the length of the list, while nothing fails.
GaugePCs == {"get", "hsnap", "sub", "stream", "evsnap", "offline", "queue", "backoff",
             "wappend", "oappend"}

\* A step to such an await stores the length, or leaves the list alone.
GaugeStep ==
  Unfailed' /\ pc' \in GaugePCs => Counted \/ (pc \in GaugePCs /\ UNCHANGED durable)

\* Something has failed.
LEMMA FailedGauge ==
  ASSUME IndInv, JournalOrder, OneFault, Denied # {} \/ Fault("io") \/ Fault("put")
  PROVE  GaugeStep
BY IoFails, PutFails DEF JournalOrder, Unfailed, GaugeStep

\* The task ends.
LEMMA EndedGauge ==
  ASSUME NEW st, Terminate(st) PROVE GaugeStep
BY DEF Terminate, GaugeStep, GaugePCs

\* A write that was under way is answered.
LEMMA FinishedGauge ==
  ASSUME IndInv, pc \in WritePCs \cup OfflinePCs, NEW a, Finish(cur, a) PROVE Counted
<1>1. cur # None
  BY NoneAssumption DEF IndInv, TypeOK
<1>2. pc' # "done" /\ cur' = None
  BY DEF IndInv, UnderWay, Finish
<1> QED BY <1>1, <1>2 DEF Counted, Handled

\* The actions one by one.
LEMMA StepGauge ==
  ASSUME IndInv, JournalOrder, [Next]_vars PROVE GaugeStep
<1>0. OneFault
  BY StepFaults
<1> USE DEF GaugePCs
<1>r. ASSUME NEW v, pc \in GaugePCs, Retry(v) \/ Reconnect(v) PROVE GaugeStep
  BY <1>r, EndedGauge DEF Retry, Reconnect, QueueWrites, GaugeStep
<1>1. CASE Load
  BY <1>1, EndedGauge
     DEF Load, Misconfigured, StartUnstored, Restore, RestoreFails, Fail, GaugeStep, Counted
<1>2. CASE Waiting
  BY <1>2, EndedGauge
     DEF Waiting, BackedOff, OfflineDelayOver, QueueDelayOver, Stop, GaugeStep
<1>3. CASE Hydrate
  <2>1. CASE Get
    BY <2>1 DEF Get, GaugeStep
  <2>2. CASE GetFails
    BY <1>r, <2>2 DEF GetFails, GaugeStep
  <2>3. CASE ResolveKeep \/ ResolveDrop \/ Resolved
    BY <2>3 DEF ResolveKeep, ResolveDrop, Resolved, GaugeStep, Counted
  <2>4. CASE ResolveDropFails \/ ResolveReject \/ HydratedFails
    BY <2>4, EndedGauge DEF ResolveDropFails, ResolveReject, HydratedFails, Fail
  <2>5. CASE ResolveCompact \/ Hydrated
    BY <2>5, EndedGauge DEF ResolveCompact, Hydrated, Fail, GaugeStep, Counted
  <2> QED BY <1>3, <2>1, <2>2, <2>3, <2>4, <2>5 DEF Hydrate
<1>4. CASE Replay
  <2>1. CASE ReplayPutFails \/ ReplaySnapshotFails \/ ReplayAckFails
    BY <1>0, <2>1, FailedGauge DEF ReplayPutFails, ReplaySnapshotFails, ReplayAckFails
  <2>2. CASE ReplayPut \/ ReplaySnapshot \/ ReplayAck
    BY <2>2 DEF ReplayPut, ReplaySnapshot, ReplayAck, GaugeStep
  <2>3. CASE ReplayCompact
    BY <1>0, <2>3, FailedGauge DEF ReplayCompact, GaugeStep, Counted
  <2> QED BY <1>4, <2>1, <2>2, <2>3 DEF Replay
<1>5. CASE Listen
  <2>1. CASE Subscribe \/ SaveEvent
    BY <2>1 DEF Subscribe, SaveEvent, GaugeStep
  <2>2. CASE SubscribeFails \/ StreamEnds
    BY <1>r, <2>2 DEF SubscribeFails, StreamEnds
  <2>3. CASE NewsFromOthers \/ EchoSuppressed \/ ConflictRemoteWins \/ ConflictLocalWins
    BY <2>3 DEF NewsFromOthers, EchoSuppressed, ConflictRemoteWins, ConflictLocalWins,
                EventApplies, EventIgnored, AfterEvent, GaugeStep
  <2>4. CASE ConflictRejected \/ SaveEventFails
    BY <2>4, EndedGauge DEF ConflictRejected, SaveEventFails, Fail
  <2> QED BY <1>5, <2>1, <2>2, <2>3, <2>4 DEF Listen
<1>6. CASE WriteOnline
  <2>1. CASE WriteBadPath \/ WriteStored \/ WriteUnstored
    BY <2>1 DEF WriteBadPath, WriteStored, WriteUnstored, GaugeStep
  <2>2. CASE WriteAppendFails \/ WriteSnapshotFails \/ WritePutFails
    BY <1>0, <2>2, FailedGauge DEF WriteAppendFails, WriteSnapshotFails, WritePutFails
  <2>3. CASE WriteAppend \/ WriteSnapshot
    <3>1. BadKey # {} => Denied # {}
      BY EngineAssumption
    <3> QED BY <1>0, <2>3, <3>1, FailedGauge DEF WriteAppend, WriteSnapshot, GaugeStep
  <2>4. CASE WritePut \/ WriteAck \/ WriteCompact
    BY <2>4, FinishedGauge
       DEF WritePut, WriteAck, WriteCompact, FinishOnline, GaugeStep
  <2> QED BY <1>6, <2>1, <2>2, <2>3, <2>4 DEF WriteOnline
<1>7. CASE WriteOffline
  <2>1. CASE OfflineRefused \/ OfflineAccept
    BY <2>1 DEF OfflineRefused, OfflineAccept, GaugeStep
  <2>2. CASE OfflineAppend
    BY <2>2 DEF OfflineAppend, GaugeStep
  <2>3. CASE OfflineAppendFails \/ OfflineSnapshot
    BY <2>3, FinishedGauge DEF OfflineAppendFails, OfflineSnapshot, FinishOffline, GaugeStep
  <2> QED BY <1>7, <2>1, <2>2, <2>3 DEF WriteOffline
<1>8. CASE Environment
  BY <1>8 DEF Environment, Submit, Abandon, Shutdown, Crash, Restart, Cut, OtherWrite,
              GaugeStep
<1>9. CASE UNCHANGED vars
  BY <1>9 DEF vars, GaugeStep
<1> QED BY <1>1, <1>2, <1>3, <1>4, <1>5, <1>6, <1>7, <1>8, <1>9 DEF Next, Task

\* The observed engine is the engine.
LEMMA ObservedStep ==
  ASSUME [ObserverNext]_ovars PROVE [Next]_vars
BY DEF ObserverNext, ovars, Caller, Next, Environment

\* Once the task has returned only a new handle goes on.
LEMMA EndedTask ==
  ASSUME [ObserverNext]_ovars, pc = "done", pc' # "done"
  PROVE  failures' = 0 /\ attempt' = 0 /\ pc' = "load"
<1>1. ~ Load /\ ~ Waiting /\ ~ Replay
  BY DEF Load, Misconfigured, StartUnstored, Restore, RestoreFails, Waiting, BackedOff,
         OfflineDelayOver, QueueDelayOver, Stop, Replay, ReplayPut, ReplayPutFails,
         ReplaySnapshot, ReplaySnapshotFails, ReplayAck, ReplayAckFails, ReplayCompact
<1>2. ~ Hydrate /\ ~ Listen
  BY DEF Hydrate, Get, GetFails, ResolveKeep, ResolveDrop, ResolveDropFails,
         ResolveReject, Resolved, ResolveCompact, Hydrated, HydratedFails, Listen,
         Subscribe, SubscribeFails, StreamEnds, NewsFromOthers, EchoSuppressed,
         ConflictRemoteWins, ConflictLocalWins, ConflictRejected, SaveEvent,
         SaveEventFails
<1>3. ~ WriteOnline /\ ~ WriteOffline
  BY DEF WriteOnline, WriteBadPath, WriteStored, WriteUnstored, WriteAppend,
         WriteAppendFails, WriteSnapshot, WriteSnapshotFails, WritePut, WritePutFails,
         WriteAck, WriteCompact, WriteOffline, OfflineRefused, OfflineAccept,
         OfflineAppend, OfflineAppendFails, OfflineSnapshot
<1>4. ~ Caller /\ ~ Cut /\ ~ UNCHANGED ovars /\ ~ \E e \in RemoteWrites : OtherWrite(e)
  BY DEF Caller, Submit, Abandon, Shutdown, Cut, OtherWrite, ovars, vars
<1>5. (Crash \/ Restart) /\ ObserveStart
  BY <1>1, <1>2, <1>3, <1>4 DEF ObserverNext, Task
<1> QED BY <1>5 DEF Crash, Restart, Release, ObserveStart

\* What the observer notes in a step: an event of the task, a new handle, or nothing.
LEMMA ObserverSteps ==
  ASSUME [ObserverNext]_ovars
  PROVE  \/ Task /\ ObserveTask
         \/ gauge' = 0 /\ failures' = 0 /\ attempt' = 0 /\ pc' = "load"
         \/ UNCHANGED <<gauge, failures, pc, attempt, durable>>
<1>1. CASE Task /\ ObserveTask
  BY <1>1
<1>2. CASE (Crash \/ Restart) /\ ObserveStart
  BY <1>2 DEF Crash, Restart, Release, ObserveStart
<1>3. CASE (Caller \/ Cut) /\ UNCHANGED observed
  BY <1>3 DEF Caller, Submit, Abandon, Shutdown, Cut, observed
<1>4. CASE \E e \in RemoteWrites : OtherWrite(e) /\ ObserveOther(e)
  BY <1>4 DEF OtherWrite, ObserveOther
<1>5. CASE UNCHANGED ovars
  BY <1>5 DEF ovars, vars, observed
<1> QED BY <1>1, <1>2, <1>3, <1>4, <1>5 DEF ObserverNext

\* The counter of the task counts at least what the observer counts.
LEMMA StepFailures ==
  ASSUME IndInv, FailuresCounted, [ObserverNext]_ovars PROVE FailuresCounted'
<1>1. config' = config /\ (Task => AttemptStep)
  BY ObservedStep, StepFaults, TaskAttempt
<1>2. /\ config.retries \in Nat /\ AttemptCap \in Nat /\ attempt \in Nat
      /\ failures \in Nat
  BY EngineAssumption DEF IndInv, TypeOK, Config, FailuresCounted
<1>3. failures' \in Nat
  BY <1>2, ObserverSteps DEF ObserveTask
<1>4. pc' \in OfflineAwaits => config'.queueing
  BY <1>1, ObserverSteps DEF AttemptStep, FailuresCounted, OfflineAwaits
<1>5. ASSUME ~ config.queueing, config.retries < AttemptCap, pc' # "done"
      PROVE  /\ failures' <= attempt' /\ attempt' <= config.retries
             /\ pc' \in HydratingPCs => failures' = 0
  <2>1. Task => Counts
    BY <1>1, <1>5 DEF AttemptStep, FailuresCounted, OfflineAwaits
  <2>2. CASE failures' = 0 /\ attempt' = 0 /\ pc' = "load"
    <3>1. 0 <= config.retries /\ 0 <= 0
      BY <1>2
    <3> QED BY <2>2, <3>1 DEF HydratingPCs
  <2>3. CASE pc # "done" /\ ~ (failures' = 0 /\ attempt' = 0 /\ pc' = "load")
    <3>1. /\ failures <= attempt /\ attempt <= config.retries
          /\ pc \in HydratingPCs => failures = 0
      BY <1>5, <2>3 DEF FailuresCounted
    <3>2. CASE Task /\ ObserveTask
      <4>1. CASE UNCHANGED attempt /\ ~ Lost /\ (pc' \in HydratingPCs => pc \in HydratingPCs \/ Fetched)
        <5>1. failures' = failures \/ failures' = 0
          BY <3>2, <4>1 DEF ObserveTask
        <5>2. pc' \in HydratingPCs => failures' = 0
          BY <3>1, <3>2, <4>1 DEF ObserveTask, Fetched, HydratingPCs
        <5>3. 0 <= attempt
          BY <1>2
        <5> QED BY <3>1, <4>1, <5>1, <5>2, <5>3
      <4>2. CASE attempt' = 0 /\ pc' = "sub" /\ pc \in HydratingPCs \cup {"get"}
        <5>1. failures' = 0
          BY <3>1, <3>2, <4>2 DEF ObserveTask, Fetched, Lost, HydratingPCs
        <5>2. 0 <= config.retries /\ 0 <= 0
          BY <1>2
        <5> QED BY <4>2, <5>1, <5>2
      <4>3. CASE ~ Exhausted /\ attempt' = NextAttempt /\ pc' = "backoff"
        <5>1. attempt' = attempt + 1 /\ attempt < config.retries
          BY <1>2, <1>5, <4>3 DEF Exhausted, NextAttempt
        <5>2. failures' <= failures + 1
          BY <1>2, <3>2 DEF ObserveTask
        <5> QED BY <1>2, <1>3, <3>1, <4>3, <5>1, <5>2 DEF HydratingPCs
      <4> QED BY <1>5, <2>1, <3>2, <4>1, <4>2, <4>3 DEF Counts
    <3>3. CASE UNCHANGED <<gauge, failures, pc, attempt, durable>>
      BY <3>1, <3>3
    <3> QED BY <2>3, <3>2, <3>3, ObserverSteps
  <2> QED BY <1>5, <2>2, <2>3, EndedTask
<1> QED BY <1>1, <1>3, <1>4, <1>5 DEF FailuresCounted, OfflineAwaits

\* The gauge is the length of the list at every await but those of a replay, of the
\* conflict check and of a write that is journaled, unless something has failed.
LEMMA StepGaugeFollows ==
  ASSUME IndInv, JournalOrder, GaugeFollows, [ObserverNext]_ovars
  PROVE  GaugeFollows'
<1>1. OneFault /\ GaugeStep
  BY ObservedStep, StepFaults, StepGauge
<1>2. Unfailed' => Unfailed
  BY <1>1, UnfailedBefore DEF JournalOrder, IndInv
<1>3. Unfailed /\ pc \in GaugePCs => gauge = Len(durable)
  BY DEF GaugeFollows, GaugePCs
<1>4. Unfailed' /\ pc' \in GaugePCs => gauge' = Len(durable')
  BY <1>1, <1>2, <1>3, ObserverSteps DEF GaugeStep, GaugePCs, ObserveTask
<1> QED BY <1>4 DEF GaugeFollows, GaugePCs

\* Nothing has been counted initially.
LEMMA InitObserved ==
  ASSUME ObserverInit PROVE Observed
<1>1. /\ pc = "load" /\ attempt = 0 /\ failures = 0 /\ config \in Configs
  BY DEF ObserverInit, Init
<1>2. config.retries \in Nat
  BY <1>1, EngineAssumption DEF Config
<1>3. 0 <= config.retries /\ 0 <= 0
  BY <1>2
<1> QED BY <1>1, <1>3 DEF Observed, FailuresCounted, GaugeFollows, HydratingPCs

\* The observed engine is the engine, whose theorems hold of it.
LEMMA ObserverRefines == ObserverSpec => Spec
<1>1. ObserverInit => Init
  BY DEF ObserverInit
<1> QED BY <1>1, ObservedStep, PTL DEF ObserverSpec, Spec

\* What the observer counts is what the task does, always.
THEOREM AlwaysObserved == ObserverSpec => []Observed
<1>1. IndInv /\ JournalOrder /\ Observed /\ [ObserverNext]_ovars => Observed'
  BY StepFailures, StepGaugeFollows DEF Observed
<1>2. ObserverSpec => []IndInv /\ []JournalOrder
  BY ObserverRefines, Inductive, JournalIsOrdered, PTL
<1> QED BY <1>1, <1>2, InitObserved, PTL DEF ObserverSpec

\* The gauge tells how many mutations are queued.
THEOREM GaugeTells == ObserverSpec => []GaugeExact
<1>1. Observed => GaugeExact
  BY DEF Observed, GaugeFollows, GaugeExact
<1> QED BY <1>1, AlwaysObserved, PTL

\* A handle gives up after max_attempts failures in a row.
THEOREM RetriesEnd == ObserverSpec => []RetryCeiling
<1>1. ASSUME IndInv, Observed PROVE RetryCeiling
  <2>1. /\ config.retries \in Nat /\ attempt \in Nat /\ failures \in Nat
    BY <1>1, EngineAssumption DEF IndInv, TypeOK, Config, Observed, FailuresCounted
  <2> QED BY <1>1, <2>1 DEF Observed, FailuresCounted, RetryCeiling
<1>2. ObserverSpec => []IndInv
  BY ObserverRefines, Inductive, PTL
<1> QED BY <1>1, <1>2, AlwaysObserved, PTL
=============================================================================
