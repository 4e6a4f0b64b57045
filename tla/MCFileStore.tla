---------------------------- MODULE MCFileStore ----------------------------
(* FileStore on small instances. *)
EXTENDS FileStore

\* Two ids, and two mutations that get the same id.
TwoIds == {[id |-> 1, body |-> "a"], [id |-> 2, body |-> "a"]}
ReusedId == TwoIds \cup {[id |-> 1, body |-> "b"]}

All == DOMAIN FirstCall
NoMetadata == All \ {"metadata"}

NoFaults == [f \in FaultKinds |-> 0]
With(f, n, faults) == [faults EXCEPT ![f] = n]

\* files_refine
ErrorAndDeath == With("any", 2, With("io", 1, With("die", 1, NoFaults)))

\* files_faults: any two of an error, an error within a line, a loss of power,
\* one within a line, and a directory that is not synced.  Its invariants do
\* not speak of the answer.
AnyTwo ==
  With("die", 0, With("die_in_line", 0, With("any", 2, [f \in FaultKinds |-> 1])))
Unanswered == <<disk, call, opened, history, left>>
=============================================================================
