----------------------------- MODULE MCJsonTree -----------------------------
(* JsonTree with two keys, two levels and one scalar more than needed.      *)
EXTENDS JsonTree

CONSTANTS a, b, one, two

Two == {a, b}
OneTwo == {one, two}

AllPaths == {Bad, <<>>, <<a>>, <<a, b>>}

Object(k, v) == [p \in {<<>>, <<k>>} |-> IF p = <<>> THEN Obj ELSE v]

\* A scalar, null, an object with a scalar, with a null, and without anything.
AllValues ==
  {Single(one), Single(Null), Object(b, two), Object(b, Null), Single(Obj)}

Entry(k, v) == [key |-> k, value |-> v]

AllPatches ==
  {<<>>,
   <<Entry(<<a>>, Single(one)), Entry(<<b>>, Single(Null))>>,
   <<Entry(<<a, b>>, Single(two))>>,
   <<Entry(<<a, b>>, Single(Null)), Entry(<<b>>, Object(a, one))>>,
   <<Entry(<<a>>, Single(two)), Entry(Bad, Single(one))>>}
=============================================================================
