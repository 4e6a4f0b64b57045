----------------------------- MODULE RtdbValue -----------------------------
(***************************************************************************)
(* The values rtdb-sync moves around, and the one function that changes    *)
(* them: apply_event (src/src/lib.rs).                                     *)
(*                                                                         *)
(* A JSON tree is abstracted to a function from a fixed set of child keys  *)
(* to scalars, Null standing for "absent" (Firebase stores no nulls).  An  *)
(* event is a put or a patch at a path; a path is Root (the handle's own   *)
(* path, "" in the code) or one child.  `data` is the set of children the  *)
(* event writes: all of them for a put at Root, one for a put at a child,  *)
(* any subset for a patch.  That is enough to tell apart what the engine's *)
(* properties are about: whether two events touch the same path, overlap   *)
(* on a child through different paths, or are equivalent.                  *)
(*                                                                         *)
(* The code compares paths as strings, and applies "/x" and "x" to the     *)
(* same place (segments trims slashes): `spelling` says whether an event   *)
(* spells its path as the event stream does or some other way.             *)
(*                                                                         *)
(* Two classes of events the code treats apart are named by constants:     *)
(*   BadPath - the path does not parse (join fails before any effect);     *)
(*   BadKey  - a patch whose path parses and one of whose keys does not    *)
(*             (apply_event fails; the server refuses the request too).    *)
(***************************************************************************)
EXTENDS Naturals

CONSTANTS Keys, Vals, Null, Root, BadPath, BadKey

Paths == Keys \cup {Root}

Tree == [Keys -> Vals]

\* Value::Null, the state of a handle that has restored and fetched nothing.
NullTree == [k \in Keys |-> Null]

Data == UNION {[S -> Vals] : S \in SUBSET Keys}

Spellings == {"stream", "caller"}

Event == [kind : {"Put", "Patch"}, path : Paths, spelling : Spellings, data : Data]

ASSUME ValueAssumption ==
  /\ Null \in Vals
  /\ Root \notin Keys
  /\ BadPath \subseteq Event
  /\ BadKey \subseteq Event

PutAt(k, v) ==
  [kind |-> "Put", path |-> k, spelling |-> "stream", data |-> [j \in {k} |-> v]]
PutRoot(t) == [kind |-> "Put", path |-> Root, spelling |-> "stream", data |-> t]
PatchRoot(d) == [kind |-> "Patch", path |-> Root, spelling |-> "stream", data |-> d]

\* The same event as another client, or the event stream, may spell its path.
Spelled(e, spelling) == [e EXCEPT !.spelling = spelling]

Touches(e, k) == k \in DOMAIN e.data

\* A null child of a put or of a patch removes it: data[k] = Null.
ApplyEvent(t, e) == [k \in Keys |-> IF Touches(e, k) THEN e.data[k] ELSE t[k]]

WouldChange(t, e) == ApplyEvent(t, e) # t

\* apply_event returns an error, and handle_write or handle_offline_write with it.
Inapplicable == BadPath \cup BadKey
=============================================================================
