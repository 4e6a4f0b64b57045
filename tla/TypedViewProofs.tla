-------------------------- MODULE TypedViewProofs --------------------------
(***************************************************************************)
(* The typed channel of start_typed shows one publication at a time and    *)
(* ends up to date, for every set of values, every number of publications  *)
(* and whatever order the lock serves its readers and writers in.          *)
(***************************************************************************)
EXTENDS TypedView, TLAPS

\* Nothing is shown and nothing is on its way before start_typed looks.
LEMMA InitKeepsUp == Init => KeepsUp
<1> SUFFICES ASSUME Init PROVE KeepsUp
  OBVIOUS
<1>1. latest \in Snapshots
  BY ViewAssumption DEF Init, Snapshots
<1> QED BY <1>1 DEF Init, KeepsUp, TypeOK, LockedValue, CopyFollows, ShownFollows

\* A snapshot is shown as itself or as the error of one that does not decode.
LEMMA ConvertedType ==
  ASSUME NEW s \in Snapshots
  PROVE  Converted(s) \in Snapshots \cup {Error}
BY DEF Converted

\* The three parts of the invariant that follow the channel, for a step that leaves
\* the channel and the two tasks' progress alone.
LEMMA PublisherKeepsUp ==
  KeepsUp /\ (Publish \/ Finish) => KeepsUp'
<1> SUFFICES ASSUME KeepsUp, Publish \/ Finish PROVE KeepsUp'
  OBVIOUS
<1>1. UNCHANGED <<latest, published, unseen, pc, held, copy, shown>>
  BY DEF Publish, Finish
<1>2. publisher' \in {"waiting", "closed"}
  BY DEF Publish, Finish
<1>3. pc = "ended" => publisher = "closed"
  BY DEF KeepsUp, ShownFollows
<1>4. pc # "ended"
  BY <1>3 DEF Publish, Finish
<1> QED BY <1>1, <1>2, <1>4
       DEF KeepsUp, TypeOK, LockedValue, CopyFollows, ShownFollows, Converted

\* A publication: not between the two borrows, and it marks the receiver.
LEMMA WriteKeepsUp == KeepsUp /\ Write => KeepsUp'
<1> SUFFICES ASSUME KeepsUp, Write PROVE KeepsUp'
  OBVIOUS
<1>1. PICK s \in Snapshots : latest' = s /\ published' = published \cup {s}
  BY DEF Write
<1>2. /\ unseen' = TRUE /\ publisher = "waiting" /\ publisher' = "idle"
      /\ pc # "second" /\ UNCHANGED <<pc, held, copy, shown>>
  BY DEF Write, Locked
<1>3. TypeOK' /\ latest' \in published'
  BY <1>1, <1>2 DEF KeepsUp, TypeOK
<1>4. LockedValue' /\ CopyFollows'
  BY <1>1, <1>2 DEF KeepsUp, LockedValue, CopyFollows
<1>5. ShownFollows'
  BY <1>2 DEF KeepsUp, ShownFollows
<1>6. shown' \in {None} \cup {Converted(x) : x \in published'}
  BY <1>1, <1>2 DEF KeepsUp
<1> QED BY <1>3, <1>4, <1>5, <1>6 DEF KeepsUp

\* start_typed: the value of its first borrow and the generation of its second are
\* of one snapshot.
LEMMA StartTypedKeepsUp == KeepsUp /\ StartTyped => KeepsUp'
<1> SUFFICES ASSUME KeepsUp, StartTyped PROVE KeepsUp'
  OBVIOUS
<1>1. UNCHANGED <<latest, published, unseen, publisher, copy>>
  BY DEF StartTyped, FirstBorrow, SecondBorrow, channel
<1>2. latest \in Snapshots /\ latest \in published
  BY DEF KeepsUp, TypeOK
<1>3. CASE FirstBorrow /\ latest.value \in Decodable
  <2>1. pc = "first" /\ pc' = "second" /\ held' = latest.value /\ shown' = shown
    BY <1>3 DEF FirstBorrow
  <2> QED BY <1>1, <1>3, <2>1
         DEF KeepsUp, TypeOK, LockedValue, CopyFollows, ShownFollows
<1>4. CASE FirstBorrow /\ latest.value \notin Decodable
  <2>1. pc = "first" /\ pc' = "wait" /\ held' = held /\ shown' = Error
    BY <1>4 DEF FirstBorrow
  <2>2. shown' = Converted(latest)
    BY <1>4, <2>1 DEF Converted
  <2> QED BY <1>1, <1>2, <2>1, <2>2
         DEF KeepsUp, TypeOK, LockedValue, CopyFollows, ShownFollows, Converted
<1>5. CASE SecondBorrow
  <2>1. /\ pc = "second" /\ pc' = "wait" /\ held' = None
        /\ shown' = [generation |-> latest.generation, value |-> held]
    BY <1>5 DEF SecondBorrow
  <2>2. held \in Decodable /\ held = latest.value
    BY <2>1 DEF KeepsUp, LockedValue
  <2>3. shown' = latest
    BY <1>2, <2>1, <2>2 DEF Snapshots
  <2>4. shown' = Converted(latest)
    BY <2>2, <2>3 DEF Converted
  <2> QED BY <1>1, <1>2, <2>1, <2>3, <2>4
         DEF KeepsUp, TypeOK, LockedValue, CopyFollows, ShownFollows, Converted
<1> QED BY <1>3, <1>4, <1>5 DEF StartTyped, FirstBorrow

\* The conversion task: the mark is cleared before the value is looked at.
LEMMA ConvertKeepsUp == KeepsUp /\ Convert => KeepsUp'
<1> SUFFICES ASSUME KeepsUp, Convert PROVE KeepsUp'
  OBVIOUS
<1>1. UNCHANGED <<latest, published, publisher, held>>
  BY DEF Convert, Changed, Borrow, Send, Closed, channel
<1>2. latest \in Snapshots /\ latest \in published /\ published \subseteq Snapshots
  BY DEF KeepsUp, TypeOK
<1>3. CASE Changed
  <2>1. pc = "wait" /\ pc' = "borrow" /\ unseen' = FALSE /\ UNCHANGED <<copy, shown>>
    BY <1>3 DEF Changed, ToldOf
  <2> QED BY <1>1, <2>1
         DEF KeepsUp, TypeOK, LockedValue, CopyFollows, ShownFollows
<1>4. CASE Borrow
  <2>1. /\ pc = "borrow" /\ pc' = "send" /\ copy' = latest
        /\ UNCHANGED <<unseen, shown>>
    BY <1>4 DEF Borrow, channel
  <2> QED BY <1>1, <1>2, <2>1
         DEF KeepsUp, TypeOK, LockedValue, CopyFollows, ShownFollows
<1>5. CASE Send
  <2>1. /\ pc = "send" /\ pc' = "wait" /\ copy' = None /\ unseen' = unseen
        /\ shown' = Converted(copy)
    BY <1>5 DEF Send, channel
  <2>2. copy \in published /\ (~unseen => copy = latest)
    BY <2>1 DEF KeepsUp, CopyFollows
  <2>3. shown' \in Snapshots \cup {Error}
    BY <1>2, <2>1, <2>2, ConvertedType
  <2>4. TypeOK'
    BY <1>1, <2>1, <2>3 DEF KeepsUp, TypeOK
  <2>5. ShownFollows'
    BY <1>1, <2>1, <2>2 DEF ShownFollows, Converted
  <2> QED BY <1>1, <1>2, <2>1, <2>2, <2>4, <2>5
         DEF KeepsUp, LockedValue, CopyFollows
<1>6. CASE Closed
  <2>1. /\ pc = "wait" /\ pc' = "ended" /\ publisher = "closed" /\ ~unseen
        /\ UNCHANGED <<unseen, copy, shown>>
    BY <1>6 DEF Closed, channel
  <2> QED BY <1>1, <2>1
         DEF KeepsUp, TypeOK, LockedValue, CopyFollows, ShownFollows, Converted
<1> QED BY <1>3, <1>4, <1>5, <1>6 DEF Convert

\* The typed channel keeps up with the snapshot channel, whatever the tasks do
\* between two looks.
THEOREM AlwaysKeepsUp == Spec => []KeepsUp
<1>1. KeepsUp /\ [Next]_vars => KeepsUp'
  <2> SUFFICES ASSUME KeepsUp, [Next]_vars PROVE KeepsUp'
    OBVIOUS
  <2>1. CASE UNCHANGED vars
    BY <2>1 DEF vars, KeepsUp, TypeOK, LockedValue, CopyFollows, ShownFollows, Converted
  <2>2. CASE Next
    BY <2>2, PublisherKeepsUp, WriteKeepsUp, StartTypedKeepsUp, ConvertKeepsUp
       DEF Next
  <2> QED BY <2>1, <2>2
<1> QED BY <1>1, InitKeepsUp, PTL DEF Spec

\* What is shown is one publication or the error of one: the value and the
\* generation start_typed takes in two borrows belong together.
THEOREM ShowsOnePublication == Spec => []OfOnePublication
<1>1. KeepsUp => OfOnePublication
  BY DEF KeepsUp, OfOnePublication
<1> QED BY <1>1, AlwaysKeepsUp, PTL

\* A conversion task that has ended shows the last snapshot of all, so that
\* shutdown of a typed handle returns with nothing left to show.
THEOREM ShowsTheLast == Spec => []EndsUpToDate
<1>1. KeepsUp => EndsUpToDate
  BY DEF KeepsUp, ShownFollows, EndsUpToDate
<1> QED BY <1>1, AlwaysKeepsUp, PTL
=============================================================================
