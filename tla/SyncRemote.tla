----------------------------- MODULE SyncRemote -----------------------------
(***************************************************************************)
(* The Firebase database behind a Backend, as the engine uses it: a tree   *)
(* that get reads and put/patch write, and the event stream subscribe      *)
(* opens.  While the stream is open every accepted write, the handle's own *)
(* ones included (the echo), is delivered on it once, in order; a write    *)
(* accepted while no stream is open is only seen by the next get or by the *)
(* initial event of the next stream.  External to src/.                    *)
(***************************************************************************)
EXTENDS RtdbValue, Sequences

VARIABLES remote,   \* the database's value at the handle's path
          open,     \* an event stream is open
          stream    \* events sent on it and not yet received

Disconnected == open = FALSE /\ stream = <<>>

Accept(e) ==
  /\ remote' = ApplyEvent(remote, e)
  /\ stream' = IF open THEN Append(stream, Spelled(e, "stream")) ELSE stream
  /\ UNCHANGED open

\* Firebase's stream starts with a put of the current value at the path.
Open ==
  /\ open' = TRUE
  /\ stream' = <<PutRoot(remote)>>
  /\ UNCHANGED remote

Receive ==
  /\ stream # <<>>
  /\ stream' = Tail(stream)
  /\ UNCHANGED <<remote, open>>

\* The connection is lost, with the last of the events under way.
Cut ==
  /\ open
  /\ open' = FALSE
  /\ \E n \in 0..Len(stream) : stream' = SubSeq(stream, 1, n)
  /\ UNCHANGED remote

Close ==
  /\ open' = FALSE
  /\ stream' = <<>>
  /\ UNCHANGED remote

Keep == UNCHANGED <<remote, open, stream>>
=============================================================================
