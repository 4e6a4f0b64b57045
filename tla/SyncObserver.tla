---------------------------- MODULE SyncObserver ----------------------------
(***************************************************************************)
(* SyncEngine with what an observer keeps count of: the gauge              *)
(* Metrics.pending_mutations as the task stores it, and three histories,   *)
(* of the queued mutations other clients have written over, of what the    *)
(* last hydration could have noticed of that, and of the attempts that     *)
(* failed since that hydration.                                            *)
(***************************************************************************)
EXTENDS SyncEngine

VARIABLES
  gauge,        \* Metrics.pending_mutations
  overwritten,  \* calls another client wrote over while they were journaled
  noticed,      \* those the value of the last hydration already showed
  failures      \* attempts that failed since the last hydration

observed == <<gauge, overwritten, noticed, failures>>
ovars == <<vars, observed>>
-----------------------------------------------------------------------------
ObserverInit ==
  /\ Init
  /\ gauge = 0
  /\ overwritten = {} /\ noticed = {}
  /\ failures = 0

\* The task has dealt with a write: accepted, refused or failed.
Handled == cur' = None /\ pc' # "done" /\ (cur # None \/ queue' # queue)

\* Mutant: the end of a replay does not store the gauge.
CountedUnlessReplayed ==
  \/ pc = "load" /\ pc' = "get"
  \/ pc \in {"resolve", "rescomp"} /\ pc' = "hsnap"
  \/ Handled

\* Where the task stores the length of durable_pending: after the restore,
\* after the conflict check, after a replay that has sent everything, after
\* each write.
Counted ==
  \/ pc = "load" /\ pc' = "get"
  \/ pc \in {"resolve", "rescomp"} /\ pc' = "hsnap"
  \/ pc = "rcomp" /\ pc' = "sub"
  \/ Handled

Fetched == pc = "get" /\ pc' \in {"resolve", "hsnap", "sub"}

\* get, subscribe or the stream has failed and the task goes on.
Lost == pc \in {"get", "sub", "stream"} /\ pc' \in {"backoff", "queue", "offline"}

ObserveTask ==
  /\ gauge' = IF Counted THEN Len(durable') ELSE gauge
  /\ noticed' = IF Fetched THEN overwritten ELSE noticed
  /\ failures' = IF Fetched THEN 0
                 ELSE IF Lost /\ failures <= config.retries THEN failures + 1
                 ELSE failures
  /\ UNCHANGED overwritten

\* Metrics::default of a new handle.
ObserveStart ==
  /\ gauge' = 0 /\ failures' = 0
  /\ UNCHANGED <<overwritten, noticed>>

\* e writes something else over what the event f writes.
WritesOver(e, f) ==
  \E k \in DOMAIN e.data \cap DOMAIN f.data : e.data[k] # f.data[k]

ObserveOther(e) ==
  /\ overwritten' = overwritten \cup {m.call : m \in {n \in journal : WritesOver(e, n.ev)}}
  /\ UNCHANGED <<gauge, noticed, failures>>

Caller ==
  \/ \E c \in Calls, e \in Writes : Submit(c, e)
  \/ \E c \in Calls : Abandon(c)
  \/ Shutdown

ObserverNext ==
  \/ Task /\ ObserveTask
  \/ (Crash \/ Restart) /\ ObserveStart
  \/ (Caller \/ Cut) /\ UNCHANGED observed
  \/ \E e \in RemoteWrites : OtherWrite(e) /\ ObserveOther(e)

ObserverSpec == ObserverInit /\ [][ObserverNext]_ovars
-----------------------------------------------------------------------------
(* Properties. *)

\* Whenever the task waits for the network or for its callers, the gauge tells
\* how many mutations are queued (line 1423 and the four other stores), unless a
\* request or a store operation has failed: a replay that is given up does not
\* store it.
GaugeExact ==
  /\ Unfailed
  /\ pc \in {"stream", "offline", "queue", "backoff"}
  => gauge = Len(durable)

Sends(m) == pc = "rput" /\ Head(todo) = m /\ delivered'[m.call] > delivered[m.call]

\* A replay under RemoteWins or Reject sends no mutation over what another client
\* has written since it was queued and the last hydration has fetched, after a
\* restart (resolve_restored_conflicts) or a reconnection of a running handle.
ConflictsHonoured ==
  [][config.conflict # "LocalWins"
       => \A m \in journal : Sends(m) => m.call \notin noticed]_ovars

\* A handle that does not queue ends after max_attempts failed attempts, those
\* of get, of subscribe and of streams that ended counted together from the last
\* hydration on, if there is a maximum.
RetryCeiling ==
  ~config.queueing /\ config.retries < AttemptCap /\ pc # "done"
    => failures <= config.retries

\* The awaits between a hydration and the subscription that follows it.
HydratingPCs == {"resolve", "rescomp", "hsnap", "rput", "rsnap", "rack", "rcomp"}

\* The attempt counter of the task counts at least the failures since the last
\* hydration, and only a task that queues serves writes offline.
FailuresCounted ==
  /\ failures \in Nat
  /\ pc \in {"offline", "queue"} \cup OfflinePCs => config.queueing
  /\ ~config.queueing /\ config.retries < AttemptCap /\ pc # "done" =>
       /\ failures <= attempt /\ attempt <= config.retries
       /\ pc \in HydratingPCs => failures = 0

\* Where the gauge is the length of the list.
GaugeFollows ==
  /\ Unfailed
  /\ pc \in {"get", "hsnap", "sub", "stream", "evsnap", "offline", "queue", "backoff",
             "wappend", "oappend"}
  => gauge = Len(durable)

\* The inductive invariant of RetryCeiling and GaugeExact (JournalProofs).
Observed == FailuresCounted /\ GaugeFollows
=============================================================================
