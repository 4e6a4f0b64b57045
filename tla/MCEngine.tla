------------------------------ MODULE MCEngine ------------------------------
(***************************************************************************)
(* SyncEngine on small instances: the sets of events, configurations and   *)
(* faults the .cfg files choose from.                                      *)
(***************************************************************************)
EXTENDS SyncEngine

OneKey == {"x"}
TwoVals == {"null", "a"}
ThreeVals == {"null", "a", "b"}
NoEvents == {}

PutA == {PutAt("x", "a")}
PutNull == {PutAt("x", "null")}

NoFaults == [f \in FaultKinds |-> 0]
With(f, n, faults) == [faults EXCEPT ![f] = n]

Configured(stores, writes, conflicts, queueings) ==
  {c \in [store : stores, write : writes, conflict : conflicts,
          queueing : queueings, limit : {Cardinality(Calls) + 1}, retries : {1}] :
     c.queueing => c.store}

Writing == {"Confirmed", "Optimistic"}
Resolving == {"RemoteWins", "LocalWins", "Reject"}

CallSymmetry == Permutations(Calls)

PutTree(v) == PutRoot([k \in Keys |-> v])
TreeA == {PutTree("a")}
TreeNull == {PutTree("null")}

(* durability: the store fails once, the process dies once, a request fails *)
(* once, another client writes once.  Two of the handles queue, one of them *)
(* a single mutation; one has no store.  Of the writes one is accepted, one *)
(* refused by the database's rules, one a patch with a key and one a put    *)
(* with a path that do not parse.                                           *)
DurableConfigs ==
  Configured({TRUE}, {"Confirmed"}, {"RemoteWins"}, {FALSE})
    \cup Configured({TRUE}, {"Optimistic"}, {"LocalWins"}, {TRUE})
    \cup {[c EXCEPT !.limit = 1] :
            c \in Configured({TRUE}, {"Optimistic"}, {"RemoteWins"}, {TRUE})}
    \cup Configured({TRUE}, {"Optimistic"}, {"Reject"}, {FALSE})
    \cup Configured({FALSE}, {"Optimistic"}, {"LocalWins"}, {FALSE})
BadPaths == {Spelled(PutAt("x", "b"), "caller")}
BadKeys == {PatchRoot([k \in Keys |-> "b"])}
Refused == BadKeys \cup {PutTree("b")}
MixedWrites == TreeA \cup Refused \cup BadPaths
CrashAndError ==
  With("crash", 1, With("io", 1, With("put", 1, With("rw", 1, NoFaults))))

(* agreement: nothing fails but the process and the connection; a limit of  *)
(* one mutation, and of two where writes are queued unsent.  The handle     *)
(* spells its path as the stream does, or otherwise; another client writes  *)
(* the same value as the handle, or another.                                *)
LimitedConfigs ==
  {[c EXCEPT !.limit = 1] :
     c \in Configured({TRUE}, {"Optimistic"}, Resolving, {TRUE})
             \cup Configured({TRUE}, {"Confirmed"}, {"RemoteWins"}, {TRUE})
             \cup Configured({TRUE}, Writing, {"RemoteWins"}, {FALSE})}
    \cup {[c EXCEPT !.limit = 2] :
            c \in Configured({TRUE}, {"Optimistic"}, {"LocalWins"}, {TRUE})}
SpelledWrites == {PutTree("a"), Spelled(PutTree("a"), "caller")}
OtherTrees == TreeA \cup TreeNull
CrashAndCut == With("crash", 1, With("cut", 1, With("rw", 1, NoFaults)))

(* liveness: the database may be away for any time, a request fails, the    *)
(* connection is cut, a caller goes away; the channel holds one write.      *)
LiveConfigs ==
  Configured({TRUE}, {"Optimistic"}, {"RemoteWins"}, {TRUE})
    \cup Configured({FALSE}, {"Optimistic"}, {"RemoteWins"}, {FALSE})
    \cup {[c EXCEPT !.store = FALSE] : c \in Configured({TRUE}, {"Optimistic"}, {"RemoteWins"}, {TRUE})}
PutFailsAndCut ==
  With("put", 1, With("cut", 1, With("auth", 1, With("drop", 1, NoFaults))))

(* The findings: each a configuration in which one statement of the         *)
(* repository does not hold.                                                *)
ConfirmedConfigs == Configured({FALSE}, {"Confirmed"}, {"RemoteWins"}, {FALSE})
OptimisticConfigs == Configured({FALSE}, {"Optimistic"}, {"RemoteWins"}, {FALSE})
QueueingConfigs == Configured({TRUE}, {"Optimistic"}, {"RemoteWins"}, {TRUE})
TreeB == {PutTree("b")}
EitherTree == TreeA \cup TreeB
OnePutFails == With("put", 1, NoFaults)
CrashAndOther == With("crash", 1, With("rw", 1, NoFaults))
=============================================================================
