----------------------------- MODULE SyncStore -----------------------------
(***************************************************************************)
(* What the engine relies on of a PersistenceBackend (src/src/lib.rs): one *)
(* durable snapshot, and a journal of mutations keyed by id.  Every        *)
(* operation is atomic here.  FilePersistence::load collects the journal   *)
(* in a BTreeMap: a second append of an id replaces the first, and the     *)
(* journal is restored in the order of the ids.                            *)
(*                                                                         *)
(* An operation that returns an error may have taken effect (append_line   *)
(* writes the line before sync_all and set_permissions, write_atomic       *)
(* renames before it returns) or not: the engine composes each operation   *)
(* with a failing form that does one or the other.                         *)
(***************************************************************************)
EXTENDS Naturals, FiniteSets

CONSTANT None

VARIABLES saved,    \* the durable snapshot, None before the first one
          journal   \* the set of mutations appended and not acknowledged

Empty == saved = None /\ journal = {}

Keep == UNCHANGED <<saved, journal>>

StoreSnapshot(t) == saved' = t /\ UNCHANGED journal

\* Mutant: the journal is opened with truncate instead of append.
AppendTruncating(m) == journal' = {m} /\ UNCHANGED saved

AppendMutation(m) ==
  /\ journal' = {n \in journal : n.id # m.id} \cup {m}
  /\ UNCHANGED saved

\* Mutant: the acknowledgement is never written.
AcknowledgeNothing(id) == Keep

AcknowledgeMutation(id) ==
  /\ journal' = {n \in journal : n.id # id}
  /\ UNCHANGED saved

\* compact rewrites the journal without its acknowledged entries.
Compact == Keep

\* Mutant: a HashMap instead of the BTreeMap.
IsLoadedUnordered(s) ==
  /\ s \in [1..Cardinality(journal) -> journal]
  /\ \A m \in journal : \E i \in DOMAIN s : s[i] = m

\* load returns all pending mutations, in the order of their ids.
IsLoaded(s) ==
  /\ IsLoadedUnordered(s)
  /\ \A i, j \in DOMAIN s : i < j => s[i].id < s[j].id
=============================================================================
