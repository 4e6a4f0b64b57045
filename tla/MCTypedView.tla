---------------------------- MODULE MCTypedView ----------------------------
(* TypedView with values of which some do not decode. *)
EXTENDS TypedView

SomeValues == {"record", "other record", "not a record"}
Records == SomeValues \ {"not a record"}
=============================================================================
