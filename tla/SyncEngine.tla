----------------------------- MODULE SyncEngine -----------------------------
(***************************************************************************)
(* The synchronization task rtdb_sync::start spawns (src/src/lib.rs), the  *)
(* clients of its SyncHandle, its store and its database.                  *)
(*                                                                         *)
(* The task is one Tokio task: between two awaits nothing else of the      *)
(* handle runs, so one step is what the task does from one await to the    *)
(* next, and `pc` names the await it is suspended in:                      *)
(*                                                                         *)
(*   load      persistence_load             get      backend.get           *)
(*   resolve   ack of a conflicting entry   rescomp  compact after it      *)
(*   hsnap     snapshot after hydration     sub      backend.subscribe     *)
(*   rput, rsnap, rack, rcomp               replay_pending                 *)
(*   stream    select of the connected loop evsnap   snapshot of an event  *)
(*   wappend, wsnap, wput, wack, wcomp      handle_write                   *)
(*   offline   select after a failed get    queue    reconnect_or_queue    *)
(*   oappend, osnap                         handle_offline_write           *)
(*   backoff   select of retry              done     the task has returned *)
(*                                                                         *)
(* The generation counter, timestamps, metrics and the published copies of *)
(* state and status are left out: each is sent right after the assignment  *)
(* it publishes.                                                           *)
(***************************************************************************)
EXTENDS RtdbValue, Integers, Sequences, SequencesExt, FiniteSets

CONSTANTS Calls,        \* the calls of SyncHandle::put and ::patch
          Writes,       \* the events those calls may ask for
          RemoteWrites, \* the events other clients of the database write
          Denied,       \* events the database refuses for good (its rules)
          Configs,      \* the configurations of the handle
          Capacity,     \* Config.write_queue_capacity
          AttemptCap,   \* bound on the attempt counter
          Faults,       \* how often each fault may happen
          None

(* A configuration: a persistence backend or none, the three policies, and *)
(* RetryPolicy's max_attempts; AttemptCap stands for "no maximum" and Never *)
(* is 0.  `limit` is QueueWithLimit's, Cardinality(Calls)+1 is without one. *)
Config == [store : BOOLEAN,
           write : {"Confirmed", "Optimistic"},
           conflict : {"RemoteWins", "LocalWins", "Reject"},
           queueing : BOOLEAN,
           limit : Nat,
           retries : Nat]

FaultKinds ==
  {"crash",    \* the process dies
   "io",       \* a store operation returns an error
   "put",      \* a write to the database fails, its effect unknown
   "cut",      \* the event stream ends
   "auth",     \* before_reconnect (a token refresh) fails
   "drop",     \* a caller drops the future of its put
   "rw"}       \* another client writes

ASSUME EngineAssumption ==
  /\ Writes \subseteq Event
  /\ RemoteWrites \subseteq Event
  /\ BadKey \subseteq Denied
  /\ Configs \subseteq Config
  /\ Capacity \in Nat \ {0}
  /\ AttemptCap \in Nat
  /\ Faults \in [FaultKinds -> Nat]
  /\ None \notin Tree

VARIABLES
  config,      \* this handle's configuration
  pc, status,  \* where the task is suspended, and the SyncStatus it last sent
  tree,        \* state
  pending,     \* events sent and not yet echoed (PendingMutation)
  durable,     \* durable_pending, the task's copy of the journal
  base,        \* restored_base
  todo,        \* what a loop over durable_pending.clone() has left
  conflicted,  \* the flag of resolve_restored_conflicts
  cur,         \* the write being handled
  verdict,     \* status to report if retry or reconnect_or_queue returns false
  attempt,
  cancelled,   \* the CancellationToken
  call,        \* what each caller knows of its call
  queue,       \* the mpsc channel of writes
  saved, journal,          \* the store
  remote, open, stream,    \* the database
  delivered,   \* history: how often the database has accepted each call's write
  dropped,     \* history: calls whose mutation a conflict policy discarded
  left         \* faults that may still happen

fixed == <<config, cancelled, verdict>>  \* few actions touch these
client == <<call, queue>>
store == <<saved, journal>>
world == <<remote, open, stream>>
replica == <<tree, pending, durable>>
restore == <<base, todo, conflicted>>
history == <<delivered, dropped>>
task == <<replica, restore, cur, attempt>>
outside == <<client, store, world, history>>
vars == <<fixed, pc, status, task, outside, left>>

Store == INSTANCE SyncStore
Remote == INSTANCE SyncRemote
-----------------------------------------------------------------------------
(* Types. *)

Mutation == [id : Nat, ev : Event, call : Calls]

\* A write being handled: the state before it and its mutation's id; `home` is
\* the await the task goes back to.
Current == [call : Calls, ev : Event, old : Tree, id : Nat,
            home : {"stream", "get", "queue"}]

ASSUME NoneAssumption == None \notin Current

Answers == {"ok", "err", "cancelled"}

(* "abandoned": the caller has dropped its future, the write goes on;      *)
(* "unknown": the process died before it answered.                         *)
CallState == {"idle", "waiting", "abandoned", "unknown"} \cup Answers

Status == {"Idle", "Hydrating", "Connected", "Reconnecting", "Offline",
           "Replaying", "Stopped", "Failed", "Conflict"}

WritePCs == {"wappend", "wsnap", "wput", "wack", "wcomp"}
OfflinePCs == {"oappend", "osnap"}
ReplayPCs == {"rput", "rsnap", "rack"}
PCs == {"load", "get", "resolve", "rescomp", "hsnap", "rcomp", "sub", "stream",
        "evsnap", "offline", "queue", "backoff", "done"}
       \cup WritePCs \cup OfflinePCs \cup ReplayPCs

TypeOK ==
  /\ config \in Configs
  /\ pc \in PCs
  /\ status \in Status
  /\ tree \in Tree
  /\ pending \in Seq(Event)
  /\ durable \in Seq(Mutation)
  /\ base \in Tree \cup {None}
  /\ todo \in Seq(Mutation)
  /\ pc \in ReplayPCs => todo # <<>>
  /\ conflicted \in BOOLEAN
  /\ cur \in Current \cup {None}
  /\ pc \in WritePCs \cup OfflinePCs => cur \in Current
  /\ verdict \in {"Failed", "Stopped"}
  /\ attempt \in 0..AttemptCap
  /\ cancelled \in BOOLEAN
  /\ call \in [Calls -> CallState]
  /\ queue \in Seq([call : Calls, ev : Event])
  /\ saved \in Tree \cup {None}
  /\ journal \subseteq Mutation /\ IsFiniteSet(journal)
  /\ remote \in Tree
  /\ open \in BOOLEAN
  /\ stream \in Seq(Event)
  /\ delivered \in [Calls -> Nat]
  /\ dropped \subseteq Calls
  /\ left \in [FaultKinds -> Nat]
-----------------------------------------------------------------------------
(* Helpers. *)

NoFault == UNCHANGED left
Fault(f) == left[f] > 0 /\ left' = [left EXCEPT ![f] = @ - 1]

Ids(s) == {s[i].id : i \in DOMAIN s}

\* Mutant: the largest id the task holds, itself.
NextIdReused == Max({0} \cup Ids(durable))

\* durable_mutation and handle_offline_write: one more than the largest id the
\* task holds.
NextId == Max({0} \cup Ids(durable)) + 1

\* durable_pending.remove(position(|entry| entry.id == id))
Without(s, id) ==
  IF \E i \in DOMAIN s : s[i].id = id
  THEN RemoveAt(s, CHOOSE i \in DOMAIN s : s[i].id = id)
  ELSE s

\* pending.remove(position(|entry| equivalent_event(entry, e)))
WithoutEvent(s, e) ==
  IF \E i \in DOMAIN s : s[i] = e
  THEN RemoveAt(s, CHOOSE i \in DOMAIN s :
                     s[i] = e /\ \A j \in DOMAIN s : j < i => s[j] # e)
  ELSE s

\* pending.position(|mutation| mutation.path == event_path(e)): where `pending`
\* first has an entry for an event's path, spelled the same.
OnPath(e) == {i \in DOMAIN pending : /\ pending[i].path = e.path
                                     /\ pending[i].spelling = e.spelling}
FirstOnPath(e) == CHOOSE i \in OnPath(e) : \A j \in OnPath(e) : i <= j

Optimistic == config.write = "Optimistic"

\* Mutant: attempt + 1, not saturating.
NextAttemptUnbounded == attempt + 1
NextAttempt == IF attempt < AttemptCap THEN attempt + 1 ELSE attempt

\* Mutant: the attempt that failed is compared, not the one to come.
ExhaustedLate == config.retries < AttemptCap /\ attempt > config.retries

\* retry.delay(attempt) is None.
Exhausted == config.retries < AttemptCap /\ attempt >= config.retries

\* Mutant: an error is not reported.
ReplyOnlyOk(c, answer) ==
  call' = [call EXCEPT ![c] = IF @ = "waiting" /\ answer = "ok" THEN answer ELSE @]

\* done.send(result): a caller that has gone away does not hear it.
Reply(c, answer) ==
  call' = [call EXCEPT ![c] = IF @ = "waiting" THEN answer ELSE @]

\* The database accepts a write of this handle.
Deliver(c, e) ==
  /\ Remote!Accept(e)
  /\ delivered' = [delivered EXCEPT ![c] = @ + 1]
  /\ UNCHANGED dropped

CurMut == [id |-> cur.id, ev |-> cur.ev, call |-> cur.call]
-----------------------------------------------------------------------------
(* Starting and returning. *)

Init ==
  /\ config \in Configs
  /\ pc = "load" /\ status = "Idle"
  /\ tree = NullTree /\ pending = <<>> /\ durable = <<>>
  /\ base = None /\ todo = <<>> /\ conflicted = FALSE
  /\ cur = None /\ verdict = "Stopped" /\ attempt = 0
  /\ cancelled = FALSE
  /\ call = [c \in Calls |-> "idle"] /\ queue = <<>>
  /\ Store!Empty
  /\ remote = NullTree /\ Remote!Disconnected
  /\ delivered = [c \in Calls |-> 0] /\ dropped = {}
  /\ left = Faults

\* The task's locals, the channel and the stream go with the task.
Release ==
  /\ pending' = <<>> /\ durable' = <<>>
  /\ base' = None /\ todo' = <<>> /\ conflicted' = FALSE
  /\ cur' = None /\ verdict' = "Stopped" /\ attempt' = 0
  /\ queue' = <<>>
  /\ Remote!Close
  /\ UNCHANGED config

\* The task returns; the reply channel of every write it holds or has not
\* received is dropped, which SyncHandle::put reports as Cancelled.
Terminate(st) ==
  /\ pc' = "done" /\ status' = st
  /\ call' = [c \in Calls |-> IF call[c] = "waiting" THEN "cancelled" ELSE call[c]]
  /\ Release
  /\ UNCHANGED <<tree, cancelled, delivered>>

Fail == Terminate("Failed") /\ UNCHANGED <<store, dropped>>

\* An offline policy that queues and no store.
Misconfigured ==
  /\ pc = "load" /\ config.queueing /\ ~config.store
  /\ Fail /\ NoFault

StartUnstored ==
  /\ pc = "load" /\ ~config.queueing /\ ~config.store
  /\ pc' = "get" /\ status' = "Hydrating"
  /\ UNCHANGED <<fixed, task, outside, left>>

\* persistence_load: the snapshot becomes the state and the base of the
\* conflict check; the journal refills both pending lists.
Restore ==
  /\ pc = "load" /\ config.store
  /\ \E s \in [1..Cardinality(journal) -> journal] :
       /\ Store!IsLoaded(s)
       /\ durable' = s
       /\ pending' = [i \in DOMAIN s |-> s[i].ev]
  /\ tree' = IF saved = None THEN NullTree ELSE saved
  /\ base' = saved
  /\ pc' = "get" /\ status' = "Hydrating"
  /\ UNCHANGED <<fixed, todo, conflicted, cur, attempt, outside, left>>

RestoreFails == pc = "load" /\ config.store /\ Fail /\ Fault("io")

Load == Misconfigured \/ StartUnstored \/ Restore \/ RestoreFails
-----------------------------------------------------------------------------
(* Losing the database: retry and reconnect_or_queue. *)

\* retry: another attempt after a delay, or the end of the task.
Retry(v) ==
  \/ /\ ~Exhausted
     /\ pc' = "backoff" /\ status' = "Reconnecting"
     /\ attempt' = NextAttempt /\ verdict' = v
     /\ NoFault
     /\ UNCHANGED <<config, replica, restore, cur, cancelled, outside>>
  \/ Exhausted /\ Terminate(v) /\ NoFault /\ UNCHANGED <<store, dropped>>
  \/ ~Exhausted /\ Terminate(v) /\ Fault("auth") /\ UNCHANGED <<store, dropped>>

\* reconnect_or_queue: serve writes offline until the delay is over.
QueueWrites(v) ==
  /\ pc' = "queue" /\ status' = "Offline"
  /\ attempt' = NextAttempt /\ verdict' = v
  /\ NoFault
  /\ UNCHANGED <<config, replica, restore, cur, cancelled, outside>>

Reconnect(v) ==
  \/ config.queueing /\ QueueWrites(v)
  \/ ~config.queueing /\ Retry(v)

BackedOff ==
  /\ pc = "backoff"
  /\ pc' = "get"
  /\ UNCHANGED <<fixed, status, task, outside, left>>

\* The delay of the offline select of a failed get is over; the result of
\* before_reconnect is not looked at.
OfflineDelayOver ==
  /\ pc = "offline"
  /\ pc' = "get" /\ attempt' = NextAttempt
  /\ UNCHANGED <<fixed, status, replica, restore, cur, outside, left>>

QueueDelayOver ==
  /\ pc = "queue"
  /\ \/ pc' = "get" /\ NoFault /\ UNCHANGED attempt
     \/ Fault("auth") /\ attempt' = NextAttempt /\ UNCHANGED pc
  /\ UNCHANGED <<fixed, status, replica, restore, cur, outside>>

\* Mutant: the connected loop does not poll the token.
StopUnlessConnected ==
  /\ cancelled
  /\ \/ pc \in {"get", "offline"} /\ Terminate("Stopped")
     \/ pc \in {"queue", "backoff"} /\ Terminate(verdict)
  /\ UNCHANGED <<store, dropped, left>>

\* The cancellation branch of the selects; nothing else polls the token.
Stop ==
  /\ cancelled
  /\ \/ pc \in {"get", "offline", "stream"} /\ Terminate("Stopped")
     \/ pc \in {"queue", "backoff"} /\ Terminate(verdict)
  /\ UNCHANGED <<store, dropped, left>>

Waiting == BackedOff \/ OfflineDelayOver \/ QueueDelayOver \/ Stop
-----------------------------------------------------------------------------
(* Hydration, and the conflicts of a restored journal. *)

Get ==
  /\ pc = "get"
  /\ tree' = remote
  /\ \/ /\ base # None
        /\ pc' = "resolve" /\ todo' = durable
        /\ UNCHANGED attempt
     \/ /\ base = None /\ config.store
        /\ pc' = "hsnap"
        /\ UNCHANGED <<todo, attempt>>
     \/ /\ ~config.store
        /\ pc' = "sub" /\ attempt' = 0
        /\ UNCHANGED todo
  /\ UNCHANGED <<fixed, status, pending, durable, base, conflicted, cur, outside,
                 left>>

GetFails ==
  /\ pc = "get"
  /\ \/ /\ config.queueing
        /\ pc' = "offline" /\ status' = "Offline"
        /\ UNCHANGED <<fixed, task, outside, left>>
     \/ ~config.queueing /\ Retry("Failed")

\* resolve_restored_conflicts asks of each restored mutation whether it would
\* have changed the restored snapshot.
Conflicting(m) == base # tree /\ WouldChange(base, m.ev)

ResolveKeep ==
  /\ pc = "resolve" /\ todo # <<>>
  /\ LET m == Head(todo) IN
       /\ base # tree => m.ev \notin Inapplicable
       /\ Conflicting(m) => config.conflict = "LocalWins"
       /\ conflicted' = (conflicted \/ Conflicting(m))
  /\ todo' = Tail(todo)
  /\ UNCHANGED <<fixed, pc, status, replica, base, cur, attempt, outside, left>>

ResolveDrop ==
  /\ pc = "resolve" /\ todo # <<>>
  /\ LET m == Head(todo) IN
       /\ m.ev \notin Inapplicable
       /\ Conflicting(m) /\ config.conflict = "RemoteWins"
       /\ Store!AcknowledgeMutation(m.id)
       /\ durable' = Without(durable, m.id)
       /\ pending' = WithoutEvent(pending, m.ev)
       /\ dropped' = dropped \cup {m.call}
  /\ conflicted' = TRUE
  /\ todo' = Tail(todo)
  /\ UNCHANGED <<fixed, pc, status, tree, base, cur, attempt, client, world,
                 delivered, left>>

ResolveDropFails ==
  /\ pc = "resolve" /\ todo # <<>>
  /\ LET m == Head(todo) IN
       /\ m.ev \notin Inapplicable
       /\ Conflicting(m) /\ config.conflict = "RemoteWins"
       /\ \/ Store!AcknowledgeMutation(m.id) /\ dropped' = dropped \cup {m.call}
          \/ Store!Keep /\ UNCHANGED dropped
  /\ Terminate("Failed") /\ Fault("io")

ResolveReject ==
  /\ pc = "resolve" /\ todo # <<>>
  /\ LET m == Head(todo) IN
       \/ /\ base # tree /\ m.ev \in Inapplicable
          /\ Fail
       \/ /\ m.ev \notin Inapplicable
          /\ Conflicting(m) /\ config.conflict = "Reject"
          /\ Terminate("Conflict") /\ UNCHANGED <<store, dropped>>
  /\ NoFault

Resolved ==
  /\ pc = "resolve" /\ todo = <<>>
  /\ pc' = IF conflicted THEN "rescomp" ELSE "hsnap"
  /\ base' = None /\ conflicted' = FALSE
  /\ UNCHANGED <<fixed, status, replica, todo, cur, attempt, outside, left>>

ResolveCompact ==
  /\ pc = "rescomp"
  /\ \/ /\ Store!Compact
        /\ pc' = "hsnap"
        /\ UNCHANGED <<fixed, status, task, client, world, history, left>>
     \/ Fail /\ Fault("io")

\* Mutant: what the journal holds is not replayed after hydration.
HydratedWithoutReplay ==
  /\ pc = "hsnap"
  /\ Store!StoreSnapshot(tree)
  /\ pc' = "sub" /\ attempt' = 0
  /\ UNCHANGED <<fixed, status, replica, restore, cur, client, world, history,
                 left>>

\* The hydrated value is saved, and the metadata after it: an error of the
\* second finds the first done.
Hydrated ==
  /\ pc = "hsnap"
  /\ Store!StoreSnapshot(tree)
  /\ \/ /\ durable # <<>>
        /\ pc' = "rput" /\ status' = "Replaying" /\ todo' = durable
        /\ UNCHANGED attempt
     \/ /\ durable = <<>>
        /\ pc' = "sub" /\ attempt' = 0
        /\ UNCHANGED <<status, todo>>
  /\ UNCHANGED <<fixed, replica, base, conflicted, cur, client, world, history,
                 left>>

HydratedFails ==
  /\ pc = "hsnap"
  /\ Store!StoreSnapshot(tree) \/ Store!Keep
  /\ Terminate("Failed") /\ Fault("io") /\ UNCHANGED dropped

Hydrate ==
  \/ Get \/ GetFails
  \/ ResolveKeep \/ ResolveDrop \/ ResolveDropFails \/ ResolveReject
  \/ Resolved \/ ResolveCompact
  \/ Hydrated \/ HydratedFails
-----------------------------------------------------------------------------
(* replay_pending. *)

\* Any error ends the replay; the task hydrates again at once.
AbortReplay ==
  /\ pc' = "get" /\ status' = "Offline"
  /\ todo' = <<>>
  /\ UNCHANGED <<fixed, replica, base, conflicted, cur, attempt, client>>

ReplayPut ==
  /\ pc = "rput"
  /\ LET m == Head(todo) IN
       /\ m.ev \notin Denied
       /\ Deliver(m.call, m.ev)
       /\ tree' = ApplyEvent(tree, m.ev)
  /\ pc' = "rsnap"
  /\ UNCHANGED <<fixed, status, pending, durable, restore, cur, attempt, client,
                 store, left>>

ReplayPutFails ==
  /\ pc = "rput"
  /\ LET m == Head(todo) IN
       \/ /\ m.ev \in Denied
          /\ NoFault /\ UNCHANGED <<world, history>>
       \/ /\ m.ev \notin Denied
          /\ Fault("put")
          /\ \/ Deliver(m.call, m.ev)
             \/ Remote!Keep /\ UNCHANGED history
  /\ AbortReplay /\ UNCHANGED store

ReplaySnapshot ==
  /\ pc = "rsnap"
  /\ Store!StoreSnapshot(tree)
  /\ pc' = "rack"
  /\ UNCHANGED <<fixed, status, task, client, world, history, left>>

ReplaySnapshotFails ==
  /\ pc = "rsnap"
  /\ Store!StoreSnapshot(tree) \/ Store!Keep
  /\ AbortReplay /\ Fault("io") /\ UNCHANGED <<world, history>>

ReplayAck ==
  /\ pc = "rack"
  /\ LET m == Head(todo) IN
       /\ Store!AcknowledgeMutation(m.id)
       /\ durable' = Without(durable, m.id)
       /\ pending' = WithoutEvent(pending, m.ev)
  /\ todo' = Tail(todo)
  /\ pc' = IF Tail(todo) = <<>> THEN "rcomp" ELSE "rput"
  /\ UNCHANGED <<fixed, status, tree, base, conflicted, cur, attempt, client, world,
                 history, left>>

ReplayAckFails ==
  /\ pc = "rack"
  /\ Store!AcknowledgeMutation(Head(todo).id) \/ Store!Keep
  /\ AbortReplay /\ Fault("io") /\ UNCHANGED <<world, history>>

ReplayCompact ==
  /\ pc = "rcomp"
  /\ Store!Compact
  /\ \/ /\ pc' = "sub" /\ attempt' = 0
        /\ UNCHANGED <<fixed, status, replica, restore, cur, client, world, history,
                       left>>
     \/ AbortReplay /\ Fault("io") /\ UNCHANGED <<world, history>>

Replay ==
  \/ ReplayPut \/ ReplayPutFails
  \/ ReplaySnapshot \/ ReplaySnapshotFails
  \/ ReplayAck \/ ReplayAckFails
  \/ ReplayCompact
-----------------------------------------------------------------------------
(* The connected loop. *)

Subscribe ==
  /\ pc = "sub"
  /\ Remote!Open
  /\ pc' = "stream" /\ status' = "Connected"
  /\ UNCHANGED <<fixed, task, client, store, history, left>>

SubscribeFails == pc = "sub" /\ Reconnect("Failed")

StreamEnds ==
  /\ pc = "stream" /\ ~open /\ stream = <<>>
  /\ Reconnect("Stopped")

\* Mutant: an event's effect is not saved.
AfterEventUnsaved == pc' = "stream"

\* What follows an event reconcile_event accepts: the state is saved, whether
\* or not the event changed it.
AfterEvent == pc' = IF config.store THEN "evsnap" ELSE "stream"

EventApplies(e) ==
  /\ tree' = ApplyEvent(tree, e)
  /\ AfterEvent
  /\ UNCHANGED <<fixed, status, durable, restore, cur, attempt, client, store,
                 history, left>>

EventIgnored ==
  /\ AfterEvent
  /\ UNCHANGED <<fixed, status, tree, durable, restore, cur, attempt, client, store,
                 history, left>>

\* reconcile_event: the first pending entry on the event's path decides.
NewsFromOthers ==
  /\ pc = "stream" /\ Remote!Receive
  /\ OnPath(Head(stream)) = {}
  /\ EventApplies(Head(stream)) /\ UNCHANGED pending

\* Mutant: the entry an echo has met stays in `pending`.
EchoSuppressedKeeping ==
  /\ pc = "stream" /\ Remote!Receive
  /\ LET e == Head(stream)
         i == FirstOnPath(e)
     IN OnPath(e) # {} /\ pending[i] = e
  /\ UNCHANGED pending
  /\ EventIgnored

EchoSuppressed ==
  /\ pc = "stream" /\ Remote!Receive
  /\ LET e == Head(stream)
         i == FirstOnPath(e)
     IN /\ OnPath(e) # {}
        /\ pending[i] = e
        /\ pending' = RemoveAt(pending, i)
  /\ EventIgnored

ConflictRemoteWins ==
  /\ pc = "stream" /\ Remote!Receive
  /\ config.conflict = "RemoteWins"
  /\ LET e == Head(stream)
         i == FirstOnPath(e)
     IN /\ OnPath(e) # {}
        /\ pending[i] # e
        /\ pending' = RemoveAt(pending, i)
        /\ EventApplies(e)

ConflictLocalWins ==
  /\ pc = "stream" /\ Remote!Receive
  /\ config.conflict = "LocalWins"
  /\ OnPath(Head(stream)) # {}
  /\ pending[FirstOnPath(Head(stream))] # Head(stream)
  /\ EventIgnored /\ UNCHANGED pending

ConflictRejected ==
  /\ pc = "stream" /\ stream # <<>>
  /\ config.conflict = "Reject"
  /\ OnPath(Head(stream)) # {}
  /\ pending[FirstOnPath(Head(stream))] # Head(stream)
  /\ Fail /\ NoFault

SaveEvent ==
  /\ pc = "evsnap"
  /\ Store!StoreSnapshot(tree)
  /\ pc' = "stream"
  /\ UNCHANGED <<fixed, status, task, client, world, history, left>>

SaveEventFails ==
  /\ pc = "evsnap"
  /\ Store!StoreSnapshot(tree) \/ Store!Keep
  /\ Terminate("Failed") /\ Fault("io") /\ UNCHANGED dropped

Listen ==
  \/ Subscribe \/ SubscribeFails \/ StreamEnds
  \/ NewsFromOthers \/ EchoSuppressed
  \/ ConflictRemoteWins \/ ConflictLocalWins \/ ConflictRejected
  \/ SaveEvent \/ SaveEventFails
-----------------------------------------------------------------------------
(* handle_write. *)

\* The write is answered and the task is back in the select it came from.
\* reconnect_or_queue counts one more attempt each time around its loop.
Finish(w, answer) ==
  /\ Reply(w.call, answer)
  /\ pc' = w.home
  /\ attempt' = IF w.home = "queue" THEN NextAttempt ELSE attempt
  /\ cur' = None

\* An error of handle_write: the select sends Failed and goes on.
FinishOnline(answer) ==
  /\ Finish(cur, answer)
  /\ status' = IF answer = "ok" THEN status ELSE "Failed"
  /\ UNCHANGED <<fixed, restore, queue>>

Received(home) ==
  [call |-> Head(queue).call, ev |-> Head(queue).ev, old |-> tree,
   id |-> NextId, home |-> home]

\* A path that does not parse: `?` drops the reply channel.
WriteBadPath ==
  /\ pc = "stream" /\ queue # <<>>
  /\ Head(queue).ev \in BadPath
  /\ queue' = Tail(queue)
  /\ Reply(Head(queue).call, "cancelled")
  /\ status' = "Failed"
  /\ UNCHANGED <<fixed, pc, task, store, world, history, left>>

\* With a store the mutation is journaled first.
WriteStored ==
  /\ pc = "stream" /\ queue # <<>> /\ config.store
  /\ Head(queue).ev \notin BadPath
  /\ queue' = Tail(queue)
  /\ cur' = Received("stream")
  /\ pc' = "wappend"
  /\ UNCHANGED <<fixed, status, replica, restore, attempt, call, store, world,
                 history, left>>

\* Without one the state is updated, if optimistic, and the request is sent.
WriteUnstored ==
  /\ pc = "stream" /\ queue # <<>> /\ ~config.store
  /\ queue' = Tail(queue)
  /\ LET e == Head(queue).ev IN
       \/ /\ e \notin BadPath
          /\ e \in BadKey => ~Optimistic
          /\ cur' = Received("stream")
          /\ tree' = IF Optimistic THEN ApplyEvent(tree, e) ELSE tree
          /\ pending' = Append(pending, e)
          /\ pc' = "wput"
          /\ UNCHANGED <<call, status>>
       \/ /\ e \in BadKey \ BadPath /\ Optimistic
          /\ Reply(Head(queue).call, "cancelled")
          /\ status' = "Failed"
          /\ UNCHANGED <<pc, cur, tree, pending>>
  /\ UNCHANGED <<fixed, durable, restore, attempt, store, world, history, left>>

WriteAppend ==
  /\ pc = "wappend"
  /\ Store!AppendMutation(CurMut)
  /\ durable' = Append(durable, CurMut)
  /\ \/ /\ Optimistic /\ cur.ev \in BadKey
        /\ FinishOnline("cancelled")
        /\ UNCHANGED <<tree, pending>>
     \/ /\ Optimistic /\ cur.ev \notin BadKey
        /\ tree' = ApplyEvent(tree, cur.ev)
        /\ pc' = "wsnap"
        /\ UNCHANGED <<fixed, status, pending, restore, cur, attempt, client>>
     \/ /\ ~Optimistic
        /\ pending' = Append(pending, cur.ev)
        /\ pc' = "wput"
        /\ UNCHANGED <<fixed, status, tree, restore, cur, attempt, client>>
  /\ UNCHANGED <<world, history, left>>

WriteAppendFails ==
  /\ pc = "wappend"
  /\ Store!AppendMutation(CurMut) \/ Store!Keep
  /\ FinishOnline("err") /\ Fault("io")
  /\ UNCHANGED <<replica, world, history>>

WriteSnapshot ==
  /\ pc = "wsnap"
  /\ Store!StoreSnapshot(tree)
  /\ pending' = Append(pending, cur.ev)
  /\ pc' = "wput"
  /\ UNCHANGED <<fixed, status, tree, durable, restore, cur, attempt, client, world,
                 history, left>>

WriteSnapshotFails ==
  /\ pc = "wsnap"
  /\ Store!StoreSnapshot(tree) \/ Store!Keep
  /\ FinishOnline("err") /\ Fault("io")
  /\ UNCHANGED <<replica, world, history>>

WritePut ==
  /\ pc = "wput"
  /\ cur.ev \notin Denied
  /\ Deliver(cur.call, cur.ev)
  /\ \/ /\ config.store
        /\ pc' = "wack"
        /\ UNCHANGED <<fixed, status, restore, cur, attempt, client>>
     \/ ~config.store /\ FinishOnline("ok")
  /\ UNCHANGED <<replica, store, left>>

\* Mutant: the optimistic state is not rolled back.
WritePutFailsKeeping ==
  /\ pc = "wput"
  /\ \/ /\ cur.ev \in Denied
        /\ NoFault /\ UNCHANGED <<world, history>>
     \/ /\ cur.ev \notin Denied
        /\ Fault("put")
        /\ \/ Deliver(cur.call, cur.ev)
           \/ Remote!Keep /\ UNCHANGED history
  /\ pending' = WithoutEvent(pending, cur.ev)
  /\ FinishOnline("err")
  /\ UNCHANGED <<tree, durable, store>>

\* The optimistic state is rolled back; the journal entry stays.
WritePutFails ==
  /\ pc = "wput"
  /\ \/ /\ cur.ev \in Denied
        /\ NoFault /\ UNCHANGED <<world, history>>
     \/ /\ cur.ev \notin Denied
        /\ Fault("put")
        /\ \/ Deliver(cur.call, cur.ev)
           \/ Remote!Keep /\ UNCHANGED history
  /\ tree' = IF Optimistic THEN cur.old ELSE tree
  /\ pending' = WithoutEvent(pending, cur.ev)
  /\ FinishOnline("err")
  /\ UNCHANGED <<durable, store>>

WriteAck ==
  /\ pc = "wack"
  /\ \/ /\ Store!AcknowledgeMutation(cur.id)
        /\ pc' = "wcomp" /\ NoFault
        /\ UNCHANGED <<fixed, status, restore, cur, attempt, client>>
     \/ /\ Store!AcknowledgeMutation(cur.id) \/ Store!Keep
        /\ FinishOnline("err") /\ Fault("io")
  /\ UNCHANGED <<replica, world, history>>

\* Mutant: the acknowledged mutation stays in durable_pending.
WriteCompactKeeping ==
  /\ pc = "wcomp"
  /\ Store!Compact
  /\ \/ FinishOnline("ok") /\ NoFault
     \/ FinishOnline("err") /\ Fault("io")
  /\ UNCHANGED <<replica, world, history>>

WriteCompact ==
  /\ pc = "wcomp"
  /\ Store!Compact
  /\ \/ /\ durable' = Without(durable, cur.id)
        /\ FinishOnline("ok") /\ NoFault
     \/ FinishOnline("err") /\ Fault("io") /\ UNCHANGED durable
  /\ UNCHANGED <<tree, pending, world, history>>

WriteOnline ==
  \/ WriteBadPath \/ WriteStored \/ WriteUnstored
  \/ WriteAppend \/ WriteAppendFails
  \/ WriteSnapshot \/ WriteSnapshotFails
  \/ WritePut \/ WritePutFails
  \/ WriteAck \/ WriteCompact
-----------------------------------------------------------------------------
(* handle_offline_write, from the select of a failed get and from          *)
(* reconnect_or_queue.                                                     *)

Home == IF pc = "queue" THEN "queue" ELSE "get"

\* The queue is full, or the write does not apply: nothing is journaled.
OfflineRefused ==
  /\ pc \in {"offline", "queue"} /\ queue # <<>>
  /\ LET full == Len(durable) >= config.limit IN
       /\ full \/ Head(queue).ev \in Inapplicable
       /\ Finish(Received(Home), IF full THEN "err" ELSE "cancelled")
  /\ queue' = Tail(queue)
  /\ UNCHANGED <<fixed, status, replica, restore, store, world, history, left>>

\* Mutant: the limit is off by one.
OfflineAcceptOneMore ==
  /\ pc \in {"offline", "queue"} /\ queue # <<>>
  /\ Len(durable) <= config.limit
  /\ Head(queue).ev \notin Inapplicable
  /\ queue' = Tail(queue)
  /\ cur' = Received(Home)
  /\ pc' = "oappend"
  /\ UNCHANGED <<fixed, status, replica, restore, attempt, call, store, world,
                 history, left>>

OfflineAccept ==
  /\ pc \in {"offline", "queue"} /\ queue # <<>>
  /\ Len(durable) < config.limit
  /\ Head(queue).ev \notin Inapplicable
  /\ queue' = Tail(queue)
  /\ cur' = Received(Home)
  /\ pc' = "oappend"
  /\ UNCHANGED <<fixed, status, replica, restore, attempt, call, store, world,
                 history, left>>

FinishOffline(answer) ==
  /\ Finish(cur, answer)
  /\ UNCHANGED <<fixed, status, restore, queue>>

OfflineAppend ==
  /\ pc = "oappend"
  /\ Store!AppendMutation(CurMut)
  /\ tree' = ApplyEvent(tree, cur.ev)
  /\ pending' = Append(pending, cur.ev)
  /\ durable' = Append(durable, CurMut)
  /\ pc' = "osnap"
  /\ UNCHANGED <<fixed, status, restore, cur, attempt, client, world, history,
                 left>>

OfflineAppendFails ==
  /\ pc = "oappend"
  /\ Store!AppendMutation(CurMut) \/ Store!Keep
  /\ FinishOffline("err") /\ Fault("io")
  /\ UNCHANGED <<replica, world, history>>

OfflineSnapshot ==
  /\ pc = "osnap"
  /\ \/ Store!StoreSnapshot(tree) /\ FinishOffline("ok") /\ NoFault
     \/ /\ Store!StoreSnapshot(tree) \/ Store!Keep
        /\ FinishOffline("err") /\ Fault("io")
  /\ UNCHANGED <<replica, world, history>>

WriteOffline ==
  \/ OfflineRefused \/ OfflineAccept
  \/ OfflineAppend \/ OfflineAppendFails \/ OfflineSnapshot

TakeWrite ==
  \/ WriteBadPath \/ WriteStored \/ WriteUnstored
  \/ OfflineRefused \/ OfflineAccept
-----------------------------------------------------------------------------
(* The callers, the process and the other clients of the database. *)

\* put or patch sends on the channel, waiting for room; once the task has
\* returned the channel is closed.
Submit(c, e) ==
  /\ call[c] = "idle" /\ ~cancelled
  /\ \/ /\ pc # "done" /\ Len(queue) < Capacity
        /\ queue' = Append(queue, [call |-> c, ev |-> e])
        /\ call' = [call EXCEPT ![c] = "waiting"]
     \/ /\ pc = "done"
        /\ call' = [call EXCEPT ![c] = "cancelled"]
        /\ UNCHANGED queue
  /\ UNCHANGED <<fixed, pc, status, task, store, world, history, left>>

Abandon(c) ==
  /\ call[c] = "waiting" /\ Fault("drop")
  /\ call' = [call EXCEPT ![c] = "abandoned"]
  /\ UNCHANGED <<fixed, pc, status, task, queue, store, world, history>>

\* shutdown consumes the handle, which every pending put borrows.
Shutdown ==
  /\ ~cancelled /\ pc # "done"
  /\ \A c \in Calls : call[c] # "waiting"
  /\ cancelled' = TRUE
  /\ UNCHANGED <<config, pc, status, task, verdict, outside, left>>

Crash ==
  /\ pc # "done" /\ Fault("crash")
  /\ pc' = "load" /\ status' = "Idle" /\ cancelled' = FALSE
  /\ tree' = NullTree
  /\ call' = [c \in Calls |-> IF call[c] = "waiting" THEN "unknown" ELSE call[c]]
  /\ Release
  /\ UNCHANGED <<store, history>>

\* A new handle over the same store, after the task of the last has returned.
Restart ==
  /\ pc = "done"
  /\ pc' = "load" /\ status' = "Idle" /\ cancelled' = FALSE
  /\ tree' = NullTree
  /\ Release
  /\ UNCHANGED <<call, store, history, left>>

Cut ==
  /\ Remote!Cut /\ Fault("cut")
  /\ UNCHANGED <<fixed, pc, status, task, client, store, history>>

OtherWrite(e) ==
  /\ Remote!Accept(e) /\ Fault("rw")
  /\ UNCHANGED <<fixed, pc, status, task, client, store, history>>

Task == Load \/ Waiting \/ Hydrate \/ Replay \/ Listen \/ WriteOnline \/ WriteOffline

Environment ==
  \/ \E c \in Calls, e \in Writes : Submit(c, e)
  \/ \E c \in Calls : Abandon(c)
  \/ Shutdown \/ Crash \/ Restart \/ Cut
  \/ \E e \in RemoteWrites : OtherWrite(e)

Next == Task \/ Environment

Spec == Init /\ [][Next]_vars
-----------------------------------------------------------------------------
(* Fairness.  The task is scheduled as long as it can run (WF).  Each       *)
(* select! polls its ready branches in a random order, so one that is ready *)
(* again and again is taken (SF): the token, a queued write.  A database    *)
(* that is asked again and again answers at last (SF of Get and Subscribe). *)

Fairness ==
  /\ WF_vars(Task)
  /\ SF_vars(Stop) /\ SF_vars(TakeWrite)
  /\ SF_vars(Get) /\ SF_vars(Subscribe)

FairSpec == Spec /\ Fairness
-----------------------------------------------------------------------------
(* Properties. *)

Settled(c) == delivered[c] > 0 \/ c \in dropped
Journaled(c) == \E m \in journal : m.call = c
Used(f) == Faults[f] - left[f]

\* No stream has been cut, and no request left without the database's answer (a
\* refusal is one).
Unbroken == Used("cut") + Used("put") = 0

\* A write answered with Ok has been accepted by the database, has been
\* discarded by the conflict policy, or is in the durable journal: no crash,
\* failed store operation or failed replay loses it.
AcceptedNotLost ==
  \A c \in Calls : call[c] = "ok" => Settled(c) \/ Journaled(c)

ConnectedPCs == {"sub", "stream", "evsnap"} \cup WritePCs

\* The status is Connected only when every write accepted offline has reached
\* the database: replay comes before the stream, and a failed one prevents it.
ConnectedIsSettled ==
  pc \in ConnectedPCs => \A c \in Calls : call[c] = "ok" => Settled(c)

\* Why AcceptedNotLost holds at every await (the induction of SyncEngineProofs).
Running == pc \notin {"load", "done"}

Holds(m) == \E i \in DOMAIN durable : durable[i] = m

Increasing(s) == \A i, j \in DOMAIN s : i < j => s[i].id < s[j].id

\* A new id is larger than any the task holds.
IdsIncrease ==
  /\ Increasing(durable)
  /\ pc \in {"wappend", "oappend"} =>
       \A i \in DOMAIN durable : durable[i].id < cur.id

\* Where each loop over durable_pending.clone() is with respect to it.
LoopsFollow ==
  /\ pc \in ReplayPCs => todo = durable
  /\ pc = "resolve" => Increasing(todo) /\ \A i \in DOMAIN todo : Holds(todo[i])
  /\ pc = "rcomp" => durable = <<>>

\* What the write or the replayed mutation under way has reached.
UnderWay ==
  /\ pc \in WritePCs => cur.home = "stream"
  /\ pc \in {"wack", "wcomp"} => Holds(CurMut) /\ delivered[cur.call] > 0
  /\ pc = "wput" /\ config.store => Holds(CurMut)
  /\ pc = "wsnap" => Holds(CurMut)
  /\ pc \in OfflinePCs => cur.home \in {"get", "queue"}
  /\ pc = "osnap" => CurMut \in journal /\ Holds(CurMut)
  /\ pc \in {"rsnap", "rack"} => delivered[Head(todo).call] > 0

\* Only a handle with a store queues writes.
QueueingIsStored ==
  /\ Running /\ config.queueing => config.store
  /\ pc \in {"offline", "queue"} \cup OfflinePCs => config.store

\* A write answered with Ok and not yet settled is in the journal and, while
\* the task runs, in durable_pending, so that no id and no clone misses it.
AcceptedHeld ==
  \A c \in Calls : call[c] = "ok" =>
    \/ Settled(c)
    \/ /\ config.store /\ pc \notin ConnectedPCs
       /\ \E m \in journal : m.call = c /\ (Running => Holds(m))

IndInv ==
  TypeOK /\ IdsIncrease /\ LoopsFollow /\ UnderWay /\ QueueingIsStored /\ AcceptedHeld

\* Delivery is at least once, and a write is repeated only across a crash, a
\* failed store operation or a request whose answer was lost.
DuplicatesNeedAFault ==
  \A c \in Calls :
    delivered[c] <= 1 + Used("crash") + Used("io") + Used("put")

\* Replay delivers the oldest mutation of the journal first, also after the
\* journal has been read back.
ReplayInOrder ==
  [][pc = "rput" /\ delivered' # delivered
       => \A m \in journal : Head(todo).id <= m.id]_vars

\* As long as the store has not failed, the task's durable_pending and the
\* journal have the same mutations, but for the instant between the
\* acknowledgement and the compaction of an online write.
JournalMirrored ==
  config.store /\ Used("io") = 0 /\ pc \notin {"load", "done", "wcomp"}
    => ToSet(durable) = journal

\* No store operation and no request has failed, and the database refuses none.
Unfailed == Denied = {} /\ Used("io") + Used("put") = 0

\* While the task waits for events or for the database, a crash would restore
\* the state its readers see, unless an operation has failed.
DurableSnapshot ==
  config.store /\ pc \in {"stream", "queue"} /\ Unfailed => saved = tree

\* The journal of a queueing handle never outgrows the limit, or the one write
\* a connected task journals whatever the limit, unless an operation has failed.
QueueBounded ==
  config.queueing /\ Unfailed => Len(durable) <= config.limit \/ Len(durable) <= 1

\* What the journal has and the task does not hold, the line of an append that
\* failed, comes after what it holds; and a new id is the least that does.
OrphansLast ==
  /\ Running => \A m \in journal :
       Holds(m) \/ \A i \in DOMAIN durable : durable[i].id < m.id
  /\ \A m \in journal : m.id > 0
  /\ pc \in {"wappend", "oappend"} => cur.id = NextId
  /\ pc = "wcomp" => \A m \in journal : m.id # cur.id

\* Without a store there is no journal, and without a task nothing is held.
NothingHeld ==
  /\ ~config.store => journal = {} /\ durable = <<>> /\ pc # "wappend"
  /\ ~Running => durable = <<>>

\* What faults are left is what the bounds allow less what was used.
FaultsLeft == \A f \in FaultKinds : left[f] <= Faults[f]

\* The inductive invariant of ReplayInOrder (JournalProofs).
JournalOrder == FaultsLeft /\ NothingHeld /\ OrphansLast

\* What the journal has of the task's list while the store has not failed.
Mirrored ==
  config.store /\ Used("io") = 0 /\ Running =>
    journal = IF pc = "wcomp" THEN ToSet(durable) \ {CurMut} ELSE ToSet(durable)

\* Unless something has failed, a connected task holds the write under way only.
OneOnline ==
  config.store /\ Unfailed =>
    /\ pc \in {"sub", "stream", "evsnap", "wappend"} => durable = <<>>
    /\ pc \in {"wsnap", "wput", "wack", "wcomp"} => durable = <<CurMut>>

\* The length the journal may have, now and in the next process.
Fits(n) == n <= config.limit \/ n <= 1

QueueFits ==
  config.queueing /\ Unfailed =>
    /\ Fits(Len(durable)) /\ (config.store => Fits(Cardinality(journal)))
    /\ pc = "oappend" => Len(durable) < config.limit

\* Where the state is the one saved.
SnapshotFollows ==
  /\ config.store /\ Unfailed
  /\ \/ pc \in {"rput", "rack", "rcomp", "sub", "stream", "queue", "wappend", "wput",
                "wack", "wcomp"}
     \/ pc = "oappend" /\ cur.home = "queue"
  => saved = tree

\* The inductive invariant of JournalMirrored, QueueBounded and DurableSnapshot.
Faultless == Mirrored /\ OneOnline /\ QueueFits /\ SnapshotFollows

\* The mutations that may still be sent: the journal's, the list's, and that of
\* the write under way.
Carried ==
  journal \cup ToSet(durable)
          \cup (IF pc \in WritePCs \cup OfflinePCs THEN {CurMut} ELSE {})

\* Of these, the one the database has just accepted.
Sent == IF pc \in {"rsnap", "rack"} THEN {Head(todo)}
        ELSE IF pc \in {"wack", "wcomp"} THEN {CurMut} ELSE {}

\* The task has not yet received this call's write.
Untaken(c) == call[c] = "idle" \/ \E i \in DOMAIN queue : queue[i].call = c

\* A call is one write, and that is in one place: with its caller, in the channel
\* or one mutation of the task and its store.
OneWritePerCall ==
  /\ \A m, n \in Carried : m.call = n.call => m = n
  /\ \A i, j \in DOMAIN queue : queue[i].call = queue[j].call => i = j
  /\ \A i \in DOMAIN queue : call[queue[i].call] # "idle"
  /\ \A c \in Calls :
       Untaken(c) => delivered[c] = 0 /\ \A m \in Carried : m.call # c

Mishaps == Used("crash") + Used("io") + Used("put")

\* A call that may still be sent has been accepted only as often as something
\* has failed, any other at most once more.
DeliveriesBounded ==
  \A c \in Calls :
    delivered[c] <= Mishaps + IF \E m \in Carried \ Sent : m.call = c THEN 0 ELSE 1

\* The inductive invariant of DuplicatesNeedAFault.
OncePerFault == OneWritePerCall /\ DeliveriesBounded

Quiescent == pc = "stream" /\ open /\ stream = <<>> /\ queue = <<>>

\* Connected, with no write and no event under way, the local state is the
\* database's.  The code does not give this under every configuration and fault.
FinalConvergence == Quiescent => tree = remote

\* It does where writes are applied at once, across refused writes and crashes, as
\* long as no stream is cut, no request is left unanswered and the store works.
Converged == Optimistic /\ Unbroken /\ Used("io") = 0 => FinalConvergence

\* Once shutdown is asked for the task ends, if each request and store operation
\* it waits for returns: only the five selects poll the token, so a write or a
\* replay of the whole queue that is under way is finished first.
StopsWhenCancelled == cancelled ~> (pc = "done" \/ ~cancelled)

\* Every put gets an answer or loses its handle, if the database refuses none.
EveryCallAnswered == \A c \in Calls : call[c] = "waiting" ~> call[c] # "waiting"

\* A write accepted offline is replayed when the database returns, unless it is
\* refused: such a write is sent again for ever.
QueuedIsReplayed ==
  \A c \in Calls : call[c] = "ok" ~> (Settled(c) \/ pc = "done")

\* A write answered with an error, and rolled back, has not happened and will
\* not happen later.
FailedStaysFailed ==
  [][\A c \in Calls : call[c] = "err" /\ delivered[c] = 0 => delivered'[c] = 0]_vars

\* When nothing is under way, no echo is waited for: each entry of `pending` that
\* the stream may spell so has met its echo or been refused, and no later event is
\* taken for one, unless an echo was lost with its stream or a request failed.
EchoesMet ==
  Quiescent /\ Unbroken => \A i \in DOMAIN pending : pending[i].spelling # "stream"

Online == pc \in {"stream", "evsnap"} \cup WritePCs

\* Until a task is online its two lists are of the same writes, and both are empty
\* when it subscribes.
Count(s, e) == Cardinality({i \in DOMAIN s : s[i] = e})
EventsOf(s) == [i \in DOMAIN s |-> s[i].ev]
ListsAgree ==
  Running /\ ~Online /\ Unbroken =>
    /\ \A e \in Event : Count(pending, e) = Count(EventsOf(durable), e)
    /\ pc = "sub" => durable = <<>>

\* The entries of `pending` the database has accepted, those the stream spells
\* alike, and the ways to find the echo of each on it, in their order.
Outstanding == IF pc = "wput" THEN Front(pending) ELSE pending
Heard(p) == {i \in DOMAIN p : p[i].spelling = "stream"}
Echoes(p, s) ==
  {f \in [Heard(p) -> DOMAIN s] :
     \A i, j \in Heard(p) : s[f[i]] = p[i] /\ (i < j => f[i] < f[j])}

EchoesUnderWay ==
  Online /\ Unbroken => open /\ Echoes(Outstanding, stream) # {}

\* The inductive invariant of EchoesMet (EchoProofs).
EchoesFollow == ListsAgree /\ EchoesUnderWay

\* The state without the write under way: what its failure leaves.
Shown == IF pc \in {"wappend", "wsnap", "wput"} THEN cur.old ELSE tree

\* The events that may reach the database; and that all of these write the whole
\* tree at the handle's own path.
Reaching == (Writes \ Inapplicable) \cup RemoteWrites
Whole(e) == e.path = Root /\ DOMAIN e.data = Keys
WholeTrees == \A e \in Reaching : Whole(e)

\* Where Converged says so when all is quiet, the state is at any time the
\* database's or an event that is no echo is still to come: under LocalWins the
\* last one, which no entry of `pending` keeps out.
CaughtUp ==
  Optimistic /\ Online /\ Unbroken /\ Used("io") = 0 =>
    \/ Shown = remote
    \/ \E f \in Echoes(Outstanding, stream), n \in DOMAIN stream :
         /\ \A i \in DOMAIN f : f[i] # n
         /\ config.conflict = "LocalWins" => n = Len(stream)
=============================================================================
