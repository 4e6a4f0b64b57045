----------------------------- MODULE StoreSpec -----------------------------
(***************************************************************************)
(* What a PersistenceBackend (src/src/lib.rs) promises the one task that   *)
(* calls it: an operation takes effect at one instant between its call and *)
(* its answer; Ok means that it has; an error, and the death of the        *)
(* process, leave open whether it has.  load returns the snapshot and the  *)
(* pending mutations that are there, or an error.  clear forgets the       *)
(* snapshot and the journal, together or one after the other.              *)
(*                                                                         *)
(* FileStore implements it.                                                *)
(***************************************************************************)
EXTENDS Naturals, FiniteSets

CONSTANTS Values,     \* snapshots
          Mutations,  \* a set of records with a field id
          None

VARIABLES saved, journal,  \* as in SyncStore
          op,              \* the operation under way
          done,            \* it has taken effect
          answer           \* the last answer

Store == INSTANCE SyncStore

vars == <<saved, journal, op, done, answer>>

LoadOp == [kind |-> "load"]
CompactOp == [kind |-> "compact"]
ClearOp == [kind |-> "clear"]
SnapshotOp(v) == [kind |-> "snapshot", value |-> v]
MetadataOp(v) == [kind |-> "metadata", value |-> v]
AppendOp(m) == [kind |-> "append", mutation |-> m]
AckOp(id) == [kind |-> "ack", id |-> id]

Ops == {LoadOp, CompactOp, ClearOp}
         \cup {SnapshotOp(v) : v \in Values} \cup {MetadataOp(v) : v \in Values}
         \cup {AppendOp(m) : m \in Mutations} \cup {AckOp(m.id) : m \in Mutations}

Nothing == [outcome |-> "none"]
Ok == [outcome |-> "ok"]
Error == [outcome |-> "err"]
Loaded(v, s) == [outcome |-> "ok", saved |-> v, pending |-> s]

Init == Store!Empty /\ op = None /\ done = FALSE /\ answer = Nothing

Call(o) ==
  /\ op = None
  /\ op' = o /\ done' = FALSE /\ answer' = Nothing
  /\ Store!Keep

Effect ==
  /\ op # None /\ ~done
  /\ \/ op.kind = "snapshot" /\ Store!StoreSnapshot(op.value)
     \/ op.kind = "append" /\ Store!AppendMutation(op.mutation)
     \/ op.kind = "ack" /\ Store!AcknowledgeMutation(op.id)
  /\ done' = TRUE
  /\ UNCHANGED <<op, answer>>

ClearEffect ==
  /\ op = ClearOp
  /\ saved' \in {saved, None} /\ journal' \in {journal, {}}
  /\ UNCHANGED <<op, done, answer>>

Return(a) == op' = None /\ done' = FALSE /\ answer' = a /\ Store!Keep

\* The operations whose effect a reader of the store does not see.
Unseen == {"compact", "metadata"}

Succeed ==
  /\ op # None
  /\ \/ /\ op = LoadOp
        /\ \E s \in [1..Cardinality(journal) -> journal] :
             Store!IsLoaded(s) /\ Return(Loaded(saved, s))
     \/ op.kind \in Unseen /\ Return(Ok)
     \/ op = ClearOp /\ saved = None /\ journal = {} /\ Return(Ok)
     \/ done /\ Return(Ok)

Fail == op # None /\ Return(Error)

Die == Return(Nothing)

Next == (\E o \in Ops : Call(o)) \/ Effect \/ ClearEffect \/ Succeed \/ Fail \/ Die

Spec == Init /\ [][Next]_vars
=============================================================================
