------------------------------ MODULE JsonTree ------------------------------
(***************************************************************************)
(* apply_event (src/src/lib.rs) on nested JSON values, and the database's  *)
(* own idea of the same writes.                                            *)
(*                                                                         *)
(* A value is the function from the paths it has to what is there: a       *)
(* scalar, Null, or Obj for an object; <<>> is the value itself.  The      *)
(* database (external) knows neither nulls nor empty objects: its value is *)
(* the function from the paths of the scalars to the scalars.              *)
(*                                                                         *)
(* The task applies an event it is asked to write to a copy of the state,  *)
(* and an event of the stream to the state itself; an error of the second  *)
(* ends the task.                                                          *)
(***************************************************************************)
EXTENDS Naturals, Sequences, SequencesExt

CONSTANTS Keys, Scalars, Null, Obj,
          Bad,       \* a path or a key that segments refuses
          Paths,     \* where events may be, Bad among them
          Values,    \* what they may put there
          Patches,   \* sequences of a patch's entries, in the order of its keys
          Careful    \* nobody deletes below a scalar

VARIABLES tree,     \* state
          leaves,   \* the database
          failed    \* an event of the stream could not be applied

vars == <<tree, leaves, failed>>

Node == Scalars \cup {Null, Obj}

\* The paths of an object's children are below it, and nothing is below others.
WellFormed(t) ==
  /\ t \in [DOMAIN t -> Node]
  /\ <<>> \in DOMAIN t
  /\ \A p \in DOMAIN t :
       /\ p \in Seq(Keys)
       /\ p # <<>> => Front(p) \in DOMAIN t /\ t[Front(p)] = Obj

ASSUME JsonAssumption ==
  /\ Null # Obj /\ {Null, Obj} \cap Scalars = {}
  /\ Paths \subseteq Seq(Keys) \cup {Bad}
  /\ \A v \in Values : WellFormed(v)
  /\ \A s \in Patches :
       /\ s \in Seq(Range(s))
       /\ \A i \in DOMAIN s :
            s[i].key \in Seq(Keys) \cup {Bad} /\ WellFormed(s[i].value)
  /\ Careful \in BOOLEAN

\* The database refuses a patch with an empty key, or with one that leads through
\* another.
ASSUME PatchAssumption ==
  \A s \in Patches : \A i, j \in DOMAIN s :
    s[i].key # Bad /\ s[j].key # Bad =>
      s[i].key # <<>> /\ (i # j => ~ IsPrefix(s[i].key, s[j].key))

Single(n) == [p \in {<<>>} |-> n]

Events ==
  {[kind |-> "Put", path |-> p, data |-> v] : p \in Paths, v \in Values}
    \cup {[kind |-> "Patch", path |-> p, entries |-> s] : p \in Paths, s \in Patches}
-----------------------------------------------------------------------------
(* The code. *)

Below(p, q) == SubSeq(q, Len(p) + 1, Len(q))

\* Every step of the path becomes an object; what is missing at its end is null.
GetOrCreate(t, p) ==
  [q \in DOMAIN t \cup {SubSeq(p, 1, n) : n \in 0..Len(p)} |->
     IF IsStrictPrefix(q, p) THEN Obj ELSE IF q \in DOMAIN t THEN t[q] ELSE Null]

RemoveAtPath(t, p) ==
  IF p = <<>> THEN Single(Null)
  ELSE [q \in {r \in DOMAIN t : ~IsPrefix(p, r)} |-> t[q]]

\* Mutant: what was below the target stays.
AssignOver(t, p, v) ==
  [q \in DOMAIN t \cup {p \o r : r \in DOMAIN v} |->
     IF IsPrefix(p, q) /\ Below(p, q) \in DOMAIN v THEN v[Below(p, q)] ELSE t[q]]

\* *target = v
Assign(t, p, v) ==
  [q \in {r \in DOMAIN t : ~IsPrefix(p, r)} \cup {p \o r : r \in DOMAIN v} |->
     IF IsPrefix(p, q) THEN v[Below(p, q)] ELSE t[q]]

\* set_at on the object at p.
SetAt(t, p, keys, v) ==
  IF keys = <<>> THEN t
  ELSE LET made == GetOrCreate(t, p \o keys) IN
       IF v = Single(Null) THEN RemoveAtPath(made, p \o keys)
       ELSE Assign(made, p \o keys, v)

ApplyPut(t, p, v) ==
  IF v = Single(Null) /\ p # <<>> THEN RemoveAtPath(GetOrCreate(t, p), p)
  ELSE Assign(GetOrCreate(t, p), p, v)

\* How many entries come before the first whose key does not parse.
Parsed(s) ==
  CHOOSE n \in 0..Len(s) :
    /\ \A i \in 1..n : s[i].key # Bad
    /\ n < Len(s) => s[n + 1].key = Bad

\* The object at p of t after each of the entries.
Patched(t, p, s) ==
  LET after[n \in 0..Len(s)] ==
        IF n = 0 THEN t ELSE SetAt(after[n - 1], p, s[n].key, s[n].value)
  IN after

\* Mutant: a patch replaces the object instead of merging into it.
ApplyPatchReplacing(t, p, s) ==
  Patched(Assign(GetOrCreate(t, p), p, Single(Obj)), p, s)[Parsed(s)]

ApplyPatch(t, p, s) ==
  LET made == GetOrCreate(t, p)
      target == IF made[p] = Obj THEN made ELSE Assign(made, p, Single(Obj))
  IN IF s = <<>> THEN made ELSE Patched(target, p, s)[Parsed(s)]

Fails(e) ==
  \/ e.path = Bad
  \/ e.kind = "Patch" /\ Parsed(e.entries) < Len(e.entries)

ApplyEvent(t, e) ==
  CASE e.path = Bad -> t
    [] e.path # Bad /\ e.kind = "Put" -> ApplyPut(t, e.path, e.data)
    [] e.path # Bad /\ e.kind = "Patch" -> ApplyPatch(t, e.path, e.entries)
-----------------------------------------------------------------------------
(* The database. *)

LeavesOf(t) == [p \in {q \in DOMAIN t : t[q] \in Scalars} |-> t[p]]

\* The value with the leaves l: objects where a leaf is below, and nothing else.
ValueOf(l) ==
  IF DOMAIN l = {} THEN Single(Null)
  ELSE [p \in UNION {{SubSeq(q, 1, n) : n \in 0..Len(q)} : q \in DOMAIN l} |->
          IF p \in DOMAIN l THEN l[p] ELSE Obj]

\* v replaces what is at p and below it, and, unless it is empty, the scalars above.
Write(l, p, v) ==
  LET new == LeavesOf(v)
      kept == {q \in DOMAIN l : ~IsPrefix(p, q) /\ (IsPrefix(q, p) => DOMAIN new = {})}
  IN [q \in kept \cup {p \o r : r \in DOMAIN new} |->
        IF q \in kept THEN l[q] ELSE new[Below(p, q)]]

Written(l, p, s) ==
  LET after[n \in 0..Len(s)] ==
        IF n = 0 THEN l ELSE Write(after[n - 1], p \o s[n].key, s[n].value)
  IN after

DatabaseApply(l, e) ==
  IF Fails(e) THEN l
  ELSE IF e.kind = "Put" THEN Write(l, e.path, e.data)
  ELSE Written(l, e.path, e.entries)[Len(e.entries)]

\* The paths an event removes, or only visits.
Emptied(e) ==
  CASE e.kind = "Put" -> IF DOMAIN LeavesOf(e.data) = {} THEN {e.path} ELSE {}
    [] e.kind = "Patch" ->
         {e.path \o e.entries[i].key :
            i \in {j \in DOMAIN e.entries : DOMAIN LeavesOf(e.entries[j].value) = {}}}
         \cup (IF e.entries = <<>> THEN {e.path} ELSE {})

EmptiesBelowScalar(e) ==
  ~Fails(e) /\ \E p \in Emptied(e), q \in DOMAIN leaves : IsStrictPrefix(q, p)
-----------------------------------------------------------------------------
(* The handle. *)

Init == tree = Single(Null) /\ leaves = <<>> /\ failed = FALSE

\* Mutant: a write is applied to the state itself.
LocalWriteInPlace(e) ==
  /\ ~failed
  /\ tree' = ApplyEvent(tree, e)
  /\ leaves' = DatabaseApply(leaves, e)
  /\ UNCHANGED failed

\* handle_write, handle_offline_write: the state becomes the copy the event has
\* been applied to, or stays as it is.
LocalWrite(e) ==
  /\ ~failed
  /\ tree' = IF Fails(e) THEN tree ELSE ApplyEvent(tree, e)
  /\ leaves' = DatabaseApply(leaves, e)
  /\ UNCHANGED failed

\* reconcile_event of what another client has written, or of a malformed event.
StreamEvent(e) ==
  /\ ~failed
  /\ tree' = ApplyEvent(tree, e)
  /\ leaves' = DatabaseApply(leaves, e)
  /\ failed' = Fails(e)

\* A get, by this handle or, after a failure, by the next one.
Hydrate == tree' = ValueOf(leaves) /\ failed' = FALSE /\ UNCHANGED leaves

Next ==
  \/ Hydrate
  \/ \E e \in Events :
       /\ Careful => ~EmptiesBelowScalar(e)
       /\ LocalWrite(e) \/ StreamEvent(e)

Spec == Init /\ [][Next]_vars
-----------------------------------------------------------------------------
(* Properties. *)

\* The scalars of a value: none is below another.
Scattered(l) ==
  /\ l \in [DOMAIN l -> Scalars] /\ DOMAIN l \subseteq Seq(Keys)
  /\ \A p, q \in DOMAIN l : ~ IsStrictPrefix(p, q)

\* The state is a JSON value, and the database's scalars are those of one.
TypeOK == WellFormed(tree) /\ Scattered(leaves) /\ failed \in BOOLEAN

\* Until the stream fails, every scalar of the database is where the state has
\* it and there is no other: nested puts, patches with paths for keys, deletions
\* and writes that are refused all leave the two the same (apply_event).
Agrees == failed \/ LeavesOf(tree) = leaves
=============================================================================
