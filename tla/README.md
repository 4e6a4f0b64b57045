# A TLA+ model of rtdb-sync

`rtdb-sync` keeps a local copy of a path of a Firebase Realtime Database: it
fetches the value, follows the event stream, sends local writes, and, given a
persistence backend, journals writes so that they survive a lost connection or
a dead process. This directory holds TLA+ modules of that engine, TLC
configurations that check them on small instances, and proofs for TLAPS.
Line numbers are those of `src/src/lib.rs`.

## The system

| Component | State | Operations | Model |
|---|---|---|---|
| Synchronization task (`start`, 802-1723) | `state`, `pending` (sent, echo not seen), `durable_pending` (the journal as the task knows it), `restored_base`, `attempt` | hydrate, resolve restored conflicts, replay, subscribe, reconcile an event, write online, write offline, back off | `SyncEngine` |
| `SyncHandle` (723-800) | the write channel, the cancellation token, a reply channel per call | `put`, `patch`, `shutdown` | `SyncEngine` (Submit, Abandon, Shutdown) |
| `PersistenceBackend` (104-112) | a snapshot and a journal per key | load, store_snapshot, append_mutation, acknowledge_mutation, compact, clear | `StoreSpec` (the contract), `SyncStore` (its effects) |
| `MemoryPersistence` (114-181) | the same, in a map under a mutex | the same | `SyncStore`: each operation is one of its effects |
| `FilePersistence` (183-419) | `snapshot.json`, `metadata.json`, `journal.jsonl`, a `.tmp` file | the same, in system calls | `FileStore` |
| Events, `apply_event` (32-42, 1725-1882) | a JSON tree | put, patch | `JsonTree`; one level of it in `RtdbValue` |
| `Backend` and the database (476-485) | the value, an event stream | get, put, patch, subscribe | `SyncRemote` (external) |
| `RetryPolicy` (583-623) | - | `delay` | `RetryDelay`; the attempt counter in `SyncEngine` |
| `TypedSyncHandle`, `start_typed` (505-581) | a decoded copy of the snapshot | one conversion task | `TypedView` |
| `Metrics` (676-721) | relaxed counters and one gauge | - | the gauge `pending_mutations`: `SyncObserver` |
| `RtdbBackend`, `TypedBackend` (1911-2088) | - | one library call each | not modelled |

The task owns everything but the channels. Callers reach it through a bounded
`mpsc` channel and get their answer on a `oneshot`; the token of `shutdown` is
polled by some of its `select!`s; the store is called through
`spawn_blocking`, one call at a time; the database answers requests and feeds
the event stream, on which the handle's own writes come back as echoes. The
typed handle reads the snapshots of an untyped one from its watch channel.

What is hard here: the task is a single Tokio task, so its races are between
*what it read before an await and what is true after it*. The journal exists
three times (on disk, in `durable_pending`, in the clone a loop walks), and
every store call may fail before or after its effect. A write may be accepted
by the database and its answer lost; the process may die at any await; the
stream may be cut with events under way; other clients write all the time; and
an event that equals a pending write is taken for its echo. PROJECT.json lists
each hazard at its line with the properties that would catch it.

## The modules

`RtdbValue` - values and events. A tree is a function from a fixed set of
children to scalars, `Null` for absent; an event is a put or a patch at the
handle's path (`Root`) or at a child. This tells apart what the engine's
behaviour depends on: same path, overlapping children through different paths,
equal events. The code compares paths as strings while it applies `/x` and `x`
to the same place; `spelling` keeps that difference. `BadPath` and `BadKey`
name the events that `join` and `segments` refuse.

`SyncStore` - the persistence contract, atomic operations. An operation that
returns an error may have had its effect or not (`append_line` writes before
`sync_all` and `set_permissions`): the engine composes both forms.

`SyncRemote` - the database: a value and one ordered event stream, which
starts with a put of the current value and carries every accepted write, echoes
included. Requests take effect at one instant; the request of an engine action
may take effect and still return an error.

`SyncEngine` - instantiates the two and adds the task, the callers and the
faults. `pc` names the await the task is suspended in; one action runs from an
await to the next. The correspondence:

| `pc` | the await | code |
|---|---|---|
| `load` | `persistence_load` | 837-880 |
| `get` | `backend.get` in its select | 883-886 |
| `resolve`, `rescomp` | ack and compact of `resolve_restored_conflicts` | 1431-1476 |
| `hsnap` | snapshot and metadata after hydration | 925-961 |
| `rput`, `rsnap`, `rack`, `rcomp` | `replay_pending` | 1366-1423 |
| `sub`, `stream`, `evsnap` | subscribe, the connected select, the save of an event | 1045-1121 |
| `wappend`, `wsnap`, `wput`, `wack`, `wcomp` | `handle_write` | 1548-1721 |
| `offline`, `queue` | the select after a failed get, the loop of `reconnect_or_queue` | 1003-1026, 1495-1530 |
| `oappend`, `osnap` | `handle_offline_write` | 1322-1348 |
| `backoff` | `retry` | 1195-1198 |
| `done` | the task has returned | |

A crash releases the task's locals and the channel and keeps the store;
`Restart` is a new handle on the same store. `delivered` (how often the
database accepted each call's write) and `dropped` (calls whose mutation a
policy discarded) are history variables.

Left out of the engine: the generation counter and the timestamps, the
published copies of state and status (each is sent right after the assignment
it publishes), metrics, the status `RestoredStale` (overwritten by `Hydrating`
without an await between), the length of delays. The metadata record is saved
with the snapshot in one action: nothing reads it, and its failure is the
failing form that has stored the snapshot. `before_reconnect` and the sleep of
`retry` are one await.

`SyncObserver` - the engine with what an observer would keep count of, each step
of the task adding its effect on: the gauge `pending_mutations`, stored where
the code stores it; the queued mutations another client has since written over,
and which of them the last hydration could have noticed; the attempts that
failed since that hydration. The engine does not read any of it.

`StoreSpec` - the abstract store: an operation is called, takes effect once, and
is answered; an error and a death leave open whether it took effect; `clear`
may forget the journal and the snapshot one after the other.

`FileStore` - `FilePersistence` in system calls. The journal is a sequence of
lines; a line is written in three parts, so that a fault may leave a piece of
it, and text written behind a piece makes one unreadable line of both.
`write_atomic` creates, fills and syncs the `.tmp` file, renames it and syncs
the directory, whose error it ignores. A dead process loses nothing it has
written; a loss of power (`LosePower`) may take every line, rename and removal
that has not been synced. One assumption is not in the code: `fsync` of a file
makes its name durable, as on journaling file systems. It implements
`StoreSpec` under the mapping

    saved   <- record["snapshot"]
    journal <- Pending(file.lines)     the BTreeMap after the last line
    done    <- the operation is past the call that took effect

where no line is torn and no power is lost: `append_mutation` takes effect with
the last byte of its JSON, before the line feed and the sync, `store_snapshot`
with the rename. `Implements` is what lets `SyncEngine` use atomic
operations that fail before or after their effect.

`JsonTree` - `apply_event` on nested values. A value is a function from its paths
to scalars, `Null` or `Obj`; the database is a function from the paths of the
scalars alone, as it has neither nulls nor empty objects. `get_or_create`,
`set_at` and `remove_at`, recursive in the code, are each one expression on that
function. A patch is a recursive function of its entries (`Patched`; `Written` for
the database), applied up to the first key that does not parse. `Careful`
leaves out deletions below a scalar, where the two differ (below).

`RetryDelay` - `RetryPolicy::delay` in widths that are constants: the truncation
of the attempt to a `u32`, the saturating power (a recursive function) and product, the jitter's
modulus in `u64`, the clamp, and what the three loops do with `None`.

`TypedView` - the watch channel (a value under a lock, a mark per receiver), the
two borrows of `start_typed`, the second inside the first, and the conversion
task: `changed`, `borrow`, decode, `send`. tokio does not promise whether a
waiting writer keeps readers out; `WritersFirst` is that choice.

`MCEngine`, `MCObserver`, `MCFileStore`, `MCJsonTree`, `MCRetryDelay`,
`MCTypedView` - the small sets of values, configurations and faults.

`SequenceFacts` - lemmas about sequences. `SyncEngineProofs` - the helpers of the
engine, its type invariant, its inductive invariant, and that accepted writes
survive. `JournalProofs` - the order of the journal and of a replay, the runs in
which nothing fails, how often a write is sent, the gauge. `EchoProofs` - the echoes
of the task's own writes, and that its state follows the database's.
`FileStoreProofs` - what the files keep through any faults, and
that they implement `StoreSpec`. `JsonTreeProofs` - that `apply_event` does to a
JSON value what the database does. `RetryDelayProofs`, `TypedViewProofs` - the
safety properties of those modules.

## The runs

Runs of the engine have two calls. Faults are a budget per kind (`Faults`): a
process death, a store error, an unanswered request (an error with the effect
unknown, or without one), a cut of the stream, a failed token refresh, a dropped
future, a write of another client. What the database refuses, it refuses for good
(`Denied`); a write that it refuses once and takes later is an unanswered request.
`AttemptCap` stands for "no maximum": the attempt counter saturates there and
matters only against `max_attempts`, which is 1. A restart after `done` is free.

| Run | Question | Bounds |
|---|---|---|
| `durability` | no accepted write is lost; Connected means all of them are settled; duplicates need a fault, and a call is sent once per fault (`OncePerFault`); replay is in order; when all is quiet the local state is the database's (`Converged`); the inductive invariants of these | one crash, one store error, one unanswered request, one foreign write; writes of the whole tree, one accepted and one refused, a patch and a put that do not parse; Confirmed with RemoteWins and optimistic with Reject, not queueing; optimistic with LocalWins and a limit of 3, with RemoteWins and a limit of 1; optimistic without a store; a channel of one |
| `agreement` | journal, `durable_pending`, snapshot and gauge agree; the queue limit and the retry limit hold; each accepted write of `pending` has its echo on the stream (`EchoesFollow`) and at rest none is waited for (`EchoesMet`); the local state is the database's, or an event that will make it so is under way (`CaughtUp`); their inductive invariants | a limit of 1 for optimistic writes under all conflict policies and for confirmed ones, with queueing or not, and of 2 under LocalWins, two handles without a store; puts of the whole tree in two spellings; one crash, one cut, one foreign write of the same value or of another |
| `liveness` | every variable keeps its type; shutdown ends the task, calls are answered, queued writes arrive | a channel of one, an unanswered request, a cut, a failed refresh, a dropped future, any number of failed `get`s; nothing is refused |
| `files_refine` | the files implement the atomic store | all seven operations, three mutations of which two share an id, two lines, one error and one death between system calls |
| `files_faults` | what loads after any two faults is complete, and is what was answered; the inductive invariant | three lines, two ids; errors and losses of power between and within lines, unsynced directories |
| `json_tree` | `apply_event` leaves the scalars the database has | two keys, two levels, scalars, nulls, objects with and without a null, five patches; any sequence of events |
| `retry_delay` | every delay is in range, none is shorter than the one before; what ends the task is an exhausted limit or a jitter whose modulus is zero | `u32` of 3 bits, `u64` of 4, ten attempts; bases, maxima and jitters at and around every boundary, the zero modulus among them |
| `typed_view` | a typed snapshot is of one publication; the last one is shown; the conversion task ends | four generations, two decodable values and one that is not |

Two calls are what the engine's safety properties need: one mutation queued or under
way while another is accepted, acknowledged or replayed. More of them meet in `pending`
only while their echoes are on the way, which `EchoesFollow` and `CaughtUp` are proved
for with any number; the one behaviour that takes four has its own run
(`misplaced_entry`). A limit of 1 and of 2
has the queue full and not full. The faults are one of each, in any order and
at any await: a mutation that survives one crash in every state of the task
survives the next from the state the first left, which is again one of these.
Three journal lines are an append, its acknowledgement and one more, so that a
fault may spoil a line that matters before, at and behind another. Two levels
of keys are a parent, a child and what a path through either meets. In
`retry_delay` the attempt passes its width, which in the real widths takes
2^32 failures.

`Converged` and `CaughtUp` are stated for optimistic writes of the whole tree and until
a stream is cut, a request goes unanswered or a store operation fails; refused writes,
crashes, restarts and other clients leave them true. `EchoesMet` and `EchoesFollow` are
stated until a cut or an unanswered request, of the entries spelled as the stream spells
them. `DurableSnapshot`, `QueueBounded` and `GaugeExact` are stated for databases that
refuse nothing and until a request or a store operation fails; `Agrees` leaves out
deletions below a scalar. What the code does in the other cases is below.

### Disagreements

Four runs each check one statement of the repository that the code does not
meet; TLC prints the behaviour.

- `confirmed_echo`: with `WritePolicy::Confirmed`, the default, the echo of a
  write is suppressed as if the write had been applied; it never was.
- `misplaced_entry`: a request that fails takes the *first* equal entry out of
  `pending` (1623), which may be that of an earlier write whose echo is still to come.
  One optimistic handle under RemoteWins, alone, puts a, b, a and a again, and the last
  put (or the third) fails. Its failure removes the first entry, and b, a, a are left
  where the echoes come as a, b, a: the first two are taken for other clients' conflicts
  and applied, the third is suppressed, and the state stays b while the database has a.
  `docs/ECOSYSTEM_PRODUCTION_STRESS_PLAN.md` asserts for writers of one path that
  "independent pending mutations are retained correctly" (411) and "final convergence
  succeeds" (414).
- `failed_write_returns`: a failed and rolled back put stays in the journal and
  is sent by the next replay.
- `overlooked_conflict`: a queued mutation is sent over another client's write
  that the hydration has just fetched. The restored snapshot already contains
  the mutation, so the check (1444) finds that it changes nothing; after a
  reconnection there is no check (890).

Behaviours of the same models that no run keeps, each found by TLC with the
condition named above removed or read off the module. The first two contradict a
document; of the others none says what should happen:

- A queued write that the database refuses is replayed for ever, without a delay and
  without a status that reports it (979). The stress plan asserts that "backoff does not
  spin" (514), `docs/ROADMAP_0.4.0_OFFLINE_SYNC.md` that "permanent write failures become
  visible terminal/policy events" (245).
- Replay, subscribe and a write under way do not look at the token (1366, 1045, 1370,
  1595), and a replay goes on to send the whole queue. The roadmap requires that
  "cancellation interrupts replay cleanly" (243), the plan that "cancellation remains
  responsive" (512).
- Each write taken while the task waits to reconnect begins the delay anew (1504):
  callers that never pause for a whole delay keep the task offline.
- The initial put of the stream overwrites an optimistic write of a child, and
  the echo that would repair it is suppressed (1734).
- The base of the conflict check holds the handle's own offline writes:
  RemoteWins discards a mutation with no other writer (1445).
- An entry of `pending` whose event the stream spells otherwise, or whose echo
  was lost with a cut stream, stays: under LocalWins later events on its path
  are ignored, under Reject one ends the task (1736, 1744).
- Under Reject the handle's own write conflicts with the initial put of a stream
  that was opened before it (1745).
- A rolled back state is not saved: a crash restores the refused write (1613).
- The status is `Failed` after the error of one write although the task goes on
  (1098); `RestoredStale` is overwritten without an await in between (848).
- The gauge is stale after a replay that was given up (1423).
- `attempt` is reset by each hydration, so that `max_attempts` does not bound a
  series of failing subscriptions (983).
- A torn line makes every later load of the journal fail (412), and so does an
  append behind a line that an error left half written (410); an error of the
  directory's sync is ignored (400).
- Deleting below a scalar replaces it by an object (1840); a deletion leaves
  empty objects, which the database does not have (1877).
- `jitter_max` of `Duration::MAX` makes `delay` panic: by the overflow of the `+ 1`,
  or, in a build without overflow checks, by the modulus of zero (613).
- The borrow inside the borrow of `start_typed` waits for ever if the lock lets
  a waiting publication go first (559).

## Fairness

`FairSpec` has weak fairness of the task as a whole (Tokio runs a ready task),
strong fairness of the token's branch and of a queued write (`select!` polls
its ready branches in random order, so one that is ready again and again is
taken), and strong fairness of a successful `get` and `subscribe` (the database
is back at last). Nothing is assumed of callers, crashes or other clients. The fairness
of the task has a premise that the code does not secure: that each `put`, `patch`, `get`,
`subscribe` and store operation it awaits returns. None of them has a timeout, and
outside the five selects nothing polls the token (1045, 1370, 1595), so
`StopsWhenCancelled` says only that the task ends *once what is under way has
returned*, a replay of the whole queue included, not that it ends soon. `TypedView` has weak
fairness of the conversion task, of the thread in `start_typed` and of a
publication that waits for the lock; the synchronization task need not publish
or end. The other modules have no liveness properties.

## What is proved

Each theorem holds for every value of the constants that meets the named
assumptions: `ValueAssumption`, `EngineAssumption` and `NoneAssumption` (the sets
of events and of configurations are such sets, `None` is not a write under way), `FileAssumption`, `TornAssumption` and `NoneAssumption` of
`FileStore` (ids are numbers; a torn line, a line of the journal, an operation
and no operation are different things), `JsonAssumption` and `PatchAssumption` of
`JsonTree` (values are JSON values, `Null` and `Obj` are no scalars; the database
refuses a patch with an empty key or with one that leads through another, so no
such patch stands in both), `DelayAssumption` (widths are positive, a
`u32` has at least one bit), `ViewAssumption`. So: any number of calls, writes,
failures, crashes, restarts, lines, losses of power, keys and levels of a value,
entries of a patch, and any widths.

### The engine

| Theorem | Property | What it says |
|---|---|---|
| `SyncEngineProofs!TypeCorrect` | `TypeOK` | every variable keeps its type; a replay always has a mutation to send, a write under way always has its locals |
| `SyncEngineProofs!Inductive` | `IndInv` | the inductive invariant |
| `SyncEngineProofs!AcceptedWritesSurvive` | `AcceptedNotLost` | a write answered with `Ok` has reached the database, or a conflict policy has discarded it, or the journal has it |
| `SyncEngineProofs!ConnectedWritesSettled` | `ConnectedIsSettled` | a connected task has settled every write it ever answered with `Ok` |
| `JournalProofs!JournalIsOrdered` | `JournalOrder` | what the journal has and the task does not hold comes behind what it holds |
| `JournalProofs!ReplayedInOrder` | `ReplayInOrder` | a replay sends the oldest mutation of the journal first |
| `JournalProofs!FaultlessRuns` | `Faultless` | list, journal, snapshot and local state agree at each step while nothing fails |
| `JournalProofs!JournalMirrorsList` | `JournalMirrored` | the task's list is the journal until a store operation fails |
| `JournalProofs!SnapshotIsDurable` | `DurableSnapshot` | a waiting task has saved its state, until something fails |
| `JournalProofs!QueueIsBounded` | `QueueBounded` | the queue keeps its limit, until something fails |
| `JournalProofs!SentOncePerFault` | `OncePerFault` | the deliveries of each call, by the faults so far and by whether it may still be sent |
| `JournalProofs!RepeatedOnlyOnFaults` | `DuplicatesNeedAFault` | nothing is delivered twice but across a crash, a store error or a lost answer |
| `JournalProofs!AlwaysObserved` | `Observed` | the invariant of the gauge and of the attempts |
| `JournalProofs!GaugeTells` | `GaugeExact` | the gauge is the length of the queue |
| `JournalProofs!RetriesEnd` | `RetryCeiling` | no more failures in a row than `max_attempts` allows |

`AcceptedNotLost` is not inductive. An acknowledgement removes a mutation *by
id*, so the others survive it only because the ids in `durable_pending`
increase (`IdsIncrease`; a new id is one more than the largest, and the journal
is restored in the order of its ids). A loop over `durable_pending.clone()`
must be where the list itself is, so that the entry it acknowledges is the one
it has just sent (`LoopsFollow`, `UnderWay`). And the journal is read only when
the task starts, so an accepted write must be in the journal *and* in the
task's list until it is settled (`AcceptedHeld`): otherwise a later mutation
could reuse its id, or a replay could miss it. `QueueingIsStored` says why a
write accepted offline has a journal at all. Their conjunction with `TypeOK` is
`IndInv`, which the run `durability` checks too.

The proof that a step keeps `IndInv` has one lemma per group of actions, which
rest on a few lemmas by the shape of a step: it ends the task
(`TerminateHeld`), it leaves the lists and the journal alone (`HeldStays`,
`IdleHeld`), it acknowledges one held mutation (`AckKeepsOthers`), it appends
one (`AppendHeld`, `AppendKeepsHeld`).

`ReplayInOrder` is about the whole journal, and the journal may have entries the
task does not hold: an append that failed after its effect. `OrphansLast` says
that these come behind everything held and that at most the next id is taken by
one, which the next append replaces. The three properties of `Faultless` need
each other: the snapshot follows the tree only if no rollback happens, a connected
task holds at most one mutation only if every write under way ends with its
acknowledgement (`OneOnline`), and the queue fits its limit after a restart only
because the journal mirrors the list (`Mirrored`, `QueueFits`). For
`DuplicatesNeedAFault`, a mutation that may still be sent must have been sent only
as often as something has failed (`DeliveriesBounded`), and no two mutations of a
journal may be of one call (`OneWritePerCall`). The gauge needs the number of
queued mutations at every await, and which of the five stores comes next
(`Observed`). Each of these invariants is checked by a run (`durability`,
`agreement`) too.

### Echoes and convergence

| Theorem | Property | What it says |
|---|---|---|
| `EchoProofs!EchoesInOrder` | `EchoesFollow` | until a cut or an unanswered request, each accepted write in `pending` has its echo on the stream, in the same order |
| `EchoProofs!EchoesAllMet` | `EchoesMet` | until then a task at rest waits for no echo |
| `EchoProofs!AlwaysCaughtUp` | `CaughtUp` | with `WholeTrees`: until then, or until a store operation fails, the state of an optimistic handle is the database's, or an event that is no echo is still to come |
| `EchoProofs!Converges` | `Converged` | with `WholeTrees`: until then the state of an optimistic handle at rest is the database's |

`Unbroken` says that no stream was cut and no request went unanswered. After a cut an
echo may be lost, and an unanswered request whose entry has an equal one before it breaks
the order (`misplaced_entry`), so nothing weaker will do. Refusals are answers and do not
break it, which needs an argument, since their failure too removes the first equal
entry (1623): the database has refused every write equal to a refused one, so no entry
that is waited for is equal to it (`NoneRefused`), and the one removed is the refused
write's own, the last (`RefusedTakesOwn`).

`EchoesMet` looks at the end of the stream, so its invariant must look along it:
`EchoesFollow` says that there is a way to find, for each entry the database has
accepted, its echo on the stream, later entries' echoes later. The entry under way
has none yet (`Outstanding`). An event that is received meets the first entry on its
path: either it is that entry's echo, and both go, or the entry's echo is
elsewhere and stays (`EchoesKept`, `EchoesRemoved`). The offline queue puts entries
into `pending` that never have an echo, for the stream opens after the replay has
taken them out again: `ListsAgree` counts them.

`Converged` needs to know what is still to come. `CaughtUp` says that if the state,
less the write under way (`Shown`), is not the database's, some event on the stream is
no entry's echo. Under RemoteWins and Reject one is enough: either it is applied when
it comes, or an event before it was taken for a conflict and removed the entry of a
later echo, which then is no echo any more (`MissedAfterRemoval`). Under LocalWins,
where a conflict leaves the entry, it must be the last one.

`WholeTrees` says that every event that may reach the database is a put, or a patch of
every child, of the handle's own path: the constants of `durability` and `agreement`
have it. It is what the code needs: with a write of a child the initial put of a stream
overwrites it for good (see above). The properties name optimistic handles because under
`Confirmed` the echo of the handle's own write is never applied (`confirmed_echo`).
Calls, writes, refusals, deaths of the process and other clients are arbitrary.

### The files

| Theorem | Property | What it says |
|---|---|---|
| `FileStoreProofs!FilesTyped` | `TypeOK` | the files and the operation under way keep their types |
| `FileStoreProofs!FilesAreSound` | `FilesSound` | the inductive invariant |
| `FileStoreProofs!CompleteOrRefused` | `LoadsAreComplete` | a load that succeeds is complete, whatever has happened |
| `FileStoreProofs!PowerTakesNothing` | `SurvivesPowerLoss` | what a loss of power leaves has all that was answered with `Ok`, unless a fault has split a line |
| `FileStoreProofs!SnapshotsSurvive` | `RecordsSurvive` | a reader finds the last stored snapshot or a begun one, never half of one, unless a sync of the directory has failed |
| `FileStoreProofs!FilesImplementStore` | `Implements` | every step of the files is a step of `StoreSpec` or a stutter, if no fault splits a line and no power is lost |

The properties speak of the journals a loss of power may leave, so the invariant
must: every prefix of the journal from the last synced line on, and every journal
a rename or removal may bring back, is *complete* (it has all of `kept` and none
of `gone`) or does not load (`JournalSound`). A new line keeps that since its id
is in neither history while it is written (`HistoryFollows`), and its `Ok` may add
it to the history since it is synced by then (`WritesFollow`). A compaction keeps
it since the new journal has the old one's pending mutations, one line each
(`CompactedLines`), and is synced before the rename. `PendingLines` is what all of
this rests on: what one more line, or another in the place of a torn one, makes of
the pending mutations. `JournalWhole` adds that no survivor is torn unless a fault
came within a line, `RecordsSound` is the same of `snapshot.json`. The type
invariant is not inductive alone: what is renamed is what was written. The step
that a write takes effect in is `WriteRest` or `Rename`, or an `Unlink`; every
other system call is a stutter, a call or an answer of `StoreSpec`.

### JSON values

| Theorem | Property | What it says |
|---|---|---|
| `JsonTreeProofs!JsonTyped` | `TypeOK` | what `apply_event` leaves is a JSON value, also of a patch that fails half way; of the database's scalars none is below another |
| `JsonTreeProofs!StateFollows` | `Agrees` | if nobody deletes below a scalar, the state has the scalars of the database until the stream fails |

The code walks down a value; `WellFormed` speaks of a path and its parent. The proof
uses instead that *all* that is above a path is an object (`Closed`, equivalent by
`Ancestors` and `Parents`), and only the order of paths, in which what is above a path
is a chain (`Order`). `Place` says what a put should do to the scalars: take away what
is at its path, below it and above it, and put the new ones there. `get_or_create`
takes away what is above, the removal or the assignment the rest
(`GetOrCreateFacts`, `RemoveFacts`, `AssignFacts`, together `MadeFacts`). The
database's write does the same, except that a deletion leaves the scalars above it
alone (`WriteIsPlace`): hence `Careful`.

A patch makes its target an object before the first entry, so during the patch the
state lacks scalars at and above the target that the database still has: the
invariant of the fold compares them without these (`Off`), and the first entry ends
the difference (`OffFacts`). That no entry deletes below a scalar an earlier entry has
put (`PatchSpared`) is where `PatchAssumption` is needed. The equations of the two
folds are those of `saturating_pow` below (`PatchedSteps`, `WrittenSteps`).

### Delays and the typed view

| Theorem | Property | What it says |
|---|---|---|
| `RetryDelayProofs!DelaysStayInRange` | `DelayInRange` | no overflow makes a delay shorter than `base` or longer than `max` and the jitter |
| `RetryDelayProofs!DelaysGrow` | `BackoffGrows` | without jitter the delays grow until the attempt passes its width |
| `RetryDelayProofs!EndsExplained` | `EndsOnlyAtLimits` | what ends the task is an exhausted limit or a `jitter_max` with a modulus of zero; no other arithmetic does |
| `TypedViewProofs!AlwaysKeepsUp` | `KeepsUp` | the inductive invariant of the typed view |
| `TypedViewProofs!ShowsOnePublication` | `OfOnePublication` | a typed snapshot never mixes two publications |
| `TypedViewProofs!ShowsTheLast` | `EndsUpToDate` | an ended conversion task shows the last one |

`saturating_pow` is a recursive function; that TLA+'s choice of one has its
equation needs a function that does (`PowerFacts`), built from the functions that
do up to some exponent. `BackoffGrows` needs to know which attempt the last delay
was of (`DelayFollows`).

The provers cannot instantiate an induction theorem, so each induction takes the
least counterexample instead (`LeastElement` of `SequenceFacts`).

## What stays with TLC

- Liveness (`StopsWhenCancelled`, `EveryCallAnswered`, `QueuedIsReplayed`,
  `CatchesUp`, `Ends`), which the provers cannot reach.
- `Converged` and `EchoesMet` after an unanswered request or a cut of the stream: there
  they do not hold (`misplaced_entry`).
- `Agrees` where somebody deletes below a scalar: there it does not hold.
- The refinement of `StoreSpec` *with* losses of power: a lost rename or line takes
  back an effect, which `StoreSpec` does not have; `FilesSound` says what
  does survive.

## Not modelled

- `RtdbBackend` and `TypedBackend`: one library call each and a translation of
  errors, without state. What a typed stream makes of an event that is not a
  whole model is decided in `rtdb-typed`, which is not in this repository.
- Two handles, or two processes, on one key of a store: a roadmap asks a store to
  document whether that is allowed, and no document says that it is. An append
  between the load and the rename of another's `compact` (314) would be lost.
- A handle dropped without `shutdown`: its task goes on (723); no document says
  what it should do.
- The directory names of `FilePersistence` (199), which come from a hash that
  another Rust release may change; a poisoned mutex; the format version.
- The metrics but for the gauge: counters next to the events they count.
- The generation counter and time stamps of the engine's snapshots.

## Plan

1. Done: the modules, runs and theorems above.
2. Open: the events of the engine are one level of a tree (`RtdbValue`); to take them
   from `JsonTree` would let `Converged` speak of children, once the code applies a
   stream's initial put together with the writes it does not have.
