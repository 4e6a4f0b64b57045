----------------------------- MODULE TypedView -----------------------------
(***************************************************************************)
(* start_typed (src/src/lib.rs): the caller's thread takes the first       *)
(* snapshot from the watch channel of the synchronization task, then a     *)
(* conversion task waits for each later one and shows it decoded.  Several *)
(* publications between two looks are seen as one.                         *)
(*                                                                         *)
(* A watch channel is a value under a read-write lock, and for each        *)
(* receiver whether it has a publication it was not told of.  `changed`    *)
(* clears that mark, `borrow` does not.                                    *)
(***************************************************************************)
EXTENDS Naturals

CONSTANTS Values,        \* values of a snapshot
          Decodable,     \* those that decode as the handle's type
          MaxGeneration, \* bound on the snapshots published
          WritersFirst,  \* a waiting writer keeps new readers out
          None, Error

ASSUME ViewAssumption ==
  Decodable \subseteq Values /\ MaxGeneration \in Nat /\ WritersFirst \in BOOLEAN

VARIABLES latest,     \* the channel's value
          published,  \* the snapshots it has held
          unseen,     \* of the conversion task's receiver
          publisher,  \* "idle", "waiting" for the lock, "closed"
          pc,         \* what start_typed or the conversion task is about to do
          held,       \* the value decoded by start_typed's first borrow
          copy,       \* current: the snapshot the conversion task decodes
          shown       \* the typed channel's value

vars == <<latest, published, unseen, publisher, pc, held, copy, shown>>
channel == <<latest, published, unseen, publisher>>

Snapshots == [generation : 0..MaxGeneration, value : Values]

Init ==
  /\ latest \in [generation : {0}, value : Values] /\ published = {latest}
  /\ unseen = FALSE /\ publisher = "idle"
  /\ pc = "first" /\ held = None /\ copy = None /\ shown = None

Converted(s) == IF s.value \in Decodable THEN s ELSE Error
-----------------------------------------------------------------------------
(* The synchronization task: its snapshot channel. *)

Publish ==
  /\ publisher = "idle" /\ latest.generation < MaxGeneration
  /\ publisher' = "waiting"
  /\ UNCHANGED <<latest, published, unseen, pc, held, copy, shown>>

\* Mutant: the first borrow is over before the second begins.
LockedNever == FALSE

\* The guard of raw.borrow() lives to the end of the statement that holds it.
Locked == pc = "second"

Write ==
  /\ publisher = "waiting" /\ ~Locked
  /\ \E s \in Snapshots :
       /\ s.generation > latest.generation
       /\ latest' = s /\ published' = published \cup {s}
  /\ unseen' = TRUE /\ publisher' = "idle"
  /\ UNCHANGED <<pc, held, copy, shown>>

\* The task returns and drops its sender.
Finish ==
  /\ publisher = "idle"
  /\ publisher' = "closed"
  /\ UNCHANGED <<latest, published, unseen, pc, held, copy, shown>>
-----------------------------------------------------------------------------
(* start_typed. *)

\* tokio promises nothing of the lock: with WritersFirst a publication between the
\* two borrows below leaves both tasks waiting for each other.
CanRead == ~(WritersFirst /\ publisher = "waiting")

FirstBorrow ==
  /\ pc = "first" /\ CanRead
  /\ \/ /\ latest.value \in Decodable
        /\ held' = latest.value /\ pc' = "second" /\ UNCHANGED shown
     \/ /\ latest.value \notin Decodable
        /\ shown' = Error /\ pc' = "wait" /\ UNCHANGED held
  /\ UNCHANGED <<channel, copy>>

\* The borrow inside map: the generation that goes with the decoded value.
SecondBorrow ==
  /\ pc = "second" /\ CanRead
  /\ shown' = [generation |-> latest.generation, value |-> held]
  /\ held' = None /\ pc' = "wait"
  /\ UNCHANGED <<channel, copy>>
-----------------------------------------------------------------------------
(* The conversion task. *)

\* Mutant: has_changed, which only asks.
ToldOfNever == UNCHANGED unseen

\* `changed` marks the publication as seen, before its value is looked at.
ToldOf == unseen' = FALSE

Changed ==
  /\ pc = "wait" /\ unseen
  /\ ToldOf /\ pc' = "borrow"
  /\ UNCHANGED <<latest, published, publisher, held, copy, shown>>

Borrow ==
  /\ pc = "borrow" /\ CanRead
  /\ copy' = latest /\ pc' = "send"
  /\ UNCHANGED <<channel, held, shown>>

\* Mutant: what is published while the task decodes counts as seen.
SendMarkingSeen ==
  /\ pc = "send"
  /\ shown' = Converted(copy) /\ unseen' = FALSE
  /\ copy' = None /\ pc' = "wait"
  /\ UNCHANGED <<latest, published, publisher, held>>

Send ==
  /\ pc = "send"
  /\ shown' = Converted(copy)
  /\ copy' = None /\ pc' = "wait"
  /\ UNCHANGED <<channel, held>>

\* Mutant: a closed channel ends the task whatever it has not seen.
ClosedAtOnce ==
  /\ pc = "wait" /\ publisher = "closed"
  /\ pc' = "ended"
  /\ UNCHANGED <<channel, held, copy, shown>>

\* `changed` fails only when there is nothing it has not told of.
Closed ==
  /\ pc = "wait" /\ publisher = "closed" /\ ~unseen
  /\ pc' = "ended"
  /\ UNCHANGED <<channel, held, copy, shown>>
-----------------------------------------------------------------------------
StartTyped == FirstBorrow \/ SecondBorrow
Convert == Changed \/ Borrow \/ Send \/ Closed

Next == Publish \/ Write \/ Finish \/ StartTyped \/ Convert

Fairness == WF_vars(Write) /\ WF_vars(StartTyped) /\ WF_vars(Convert)

Spec == Init /\ [][Next]_vars /\ Fairness
-----------------------------------------------------------------------------
(* Properties. *)

\* Every variable keeps its type.
TypeOK ==
  /\ latest \in Snapshots /\ published \subseteq Snapshots
  /\ unseen \in BOOLEAN /\ publisher \in {"idle", "waiting", "closed"}
  /\ pc \in {"first", "second", "wait", "borrow", "send", "ended"}
  /\ held \in Decodable \cup {None} /\ copy \in Snapshots \cup {None}
  /\ shown \in Snapshots \cup {None, Error}

\* Between the two borrows the channel stands still, so that the value decoded is
\* still the channel's value.
LockedValue == pc = "second" => held \in Decodable /\ held = latest.value

\* What the conversion task decodes was published, and is the latest snapshot
\* unless a later one waits for it.
CopyFollows ==
  pc = "send" => copy \in published /\ (~unseen => copy = latest)

\* What is shown is the latest snapshot, unless a later one waits for the task or
\* the task is on its way to show it; and the task ends only when none can come.
ShownFollows ==
  /\ pc \in {"wait", "ended"} /\ ~unseen => shown = Converted(latest)
  /\ pc = "ended" => publisher = "closed" /\ ~unseen

\* The inductive invariant: the typed channel keeps up with the snapshot channel
\* through the mark of what was not seen and the copy under way.
KeepsUp ==
  /\ TypeOK /\ latest \in published
  /\ LockedValue /\ CopyFollows /\ ShownFollows
  /\ shown \in {None} \cup {Converted(s) : s \in published}

\* A typed snapshot pairs the value and the generation of one publication, or
\* is the error of one that does not decode: start_typed takes the two in two
\* borrows.
OfOnePublication == shown # None => shown \in {Converted(s) : s \in published}

\* When the conversion task has ended, which shutdown waits for, the typed
\* channel shows the last snapshot of all.
EndsUpToDate == pc = "ended" => shown = Converted(latest)

\* Once start_typed has returned, what is published last comes to be shown: no
\* publication is missed while another is decoded.
CatchesUp ==
  \A s \in Snapshots :
    (latest = s /\ pc \notin {"first", "second"})
      ~> (latest # s \/ shown = Converted(s))

\* Once the synchronization task is gone the conversion task ends: shutdown of
\* a typed handle returns.
Ends == (publisher = "closed") ~> (pc = "ended")
=============================================================================
