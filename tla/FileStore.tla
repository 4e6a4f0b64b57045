----------------------------- MODULE FileStore -----------------------------
(***************************************************************************)
(* FilePersistence (src/src/lib.rs): snapshot.json, metadata.json and      *)
(* journal.jsonl of one key, written by the system calls of write_atomic   *)
(* and append_line, with an error, the death of the process or a loss of   *)
(* power between any two of them.  One task calls the store, one operation *)
(* at a time, and nothing but load before a load has succeeded (start      *)
(* returns when persistence_load fails).                                   *)
(*                                                                         *)
(* A line is written in three parts: a first piece (serde_json writes      *)
(* straight to the file), the rest of the JSON, the line feed.  A line     *)
(* that does not parse is Torn.  Text written behind a line without line   *)
(* feed makes one line of both, which does not parse.                      *)
(*                                                                         *)
(* A dead process loses nothing it has written.  A loss of power leaves    *)
(* what has been synced and may take the rest: the unsynced end of the     *)
(* journal, and a rename or a removal whose directory has not been synced  *)
(* (`stale` holds what the name may stand for instead).  fsync of a file   *)
(* is assumed to make its name durable too, as journaling file systems do. *)
(***************************************************************************)
EXTENDS Integers, Sequences, FiniteSets

CONSTANTS Values,     \* contents of snapshot.json and of metadata.json
          Mutations,  \* what append_mutation is given: records with a field id
          None,
          Torn,       \* content that does not parse
          Kinds,      \* the operations that are called
          MaxLines,   \* bound on the lines of the journal
          Faults      \* how often each fault may happen

\* The first system call of each operation.
FirstCall ==
  [load |-> "load", compact |-> "load", clear |-> "unlink", snapshot |-> "create",
   metadata |-> "create", append |-> "write", ack |-> "write"]

FaultKinds ==
  {"io", "die", "power",                         \* between two lines
   "io_in_line", "die_in_line", "power_in_line", \* within a line
   "syncdir",                                    \* the directory is not synced
   "any"}                                        \* all of them together

ASSUME FileAssumption ==
  /\ {None, Torn} \cap Values = {} /\ None # Torn
  /\ \A m \in Mutations : m.id \in Nat
  /\ Kinds \subseteq DOMAIN FirstCall
  /\ MaxLines \in Nat
  /\ Faults \in [FaultKinds -> Nat]

Records == {"snapshot", "metadata"}

VARIABLES
  record,      \* snapshot.json and metadata.json as a process reads them
  file,        \* journal.jsonl: its lines, and whether the last has a line feed
  tmp,         \* the .tmp file: content and whether it has been synced; what an
               \* operation leaves of it is truncated before it is used again
  sure,        \* how many lines of the journal have been synced
  staleFile,   \* journals, and records, that a loss of power may bring back
  staleRecord,
  op, at,      \* the operation under way and its next system call
  buffer,      \* what write_atomic is to write
  fresh,       \* append_line has begun on a line of its own
  answer, opened,
  kept, gone,  \* history: mutations appended with Ok, ids acknowledged with Ok
  snaps,       \* history: the snapshots a reader may find
  left

disk == <<record, file, sure, staleFile, staleRecord>>
call == <<op, at, buffer, tmp, fresh>>
history == <<kept, gone, snaps>>
vars == <<disk, call, answer, opened, history, left>>
-----------------------------------------------------------------------------
(* Reading the files. *)

AppendLine(m) == [entry |-> "Append", mutation |-> m]
AckLine(id) == [entry |-> "Acknowledge", id |-> id]

ASSUME TornAssumption ==
  \A m \in Mutations : Torn # AppendLine(m) /\ Torn # AckLine(m.id)

Concerns(line, id) ==
  \/ line = AckLine(id)
  \/ \E m \in Mutations : m.id = id /\ line = AppendLine(m)

\* The journal's BTreeMap after its last line: the last line of an id counts.
Pending(lines) ==
  {m \in Mutations :
     \E i \in DOMAIN lines :
       /\ lines[i] = AppendLine(m)
       /\ \A j \in DOMAIN lines : j > i => ~Concerns(lines[j], m.id)}

EmptyFile == [lines |-> <<>>, ended |-> TRUE]

HasTornLine(lines) == \E i \in DOMAIN lines : lines[i] = Torn

\* Mutant: a line that does not parse is skipped.
UnreadableRecordsOnly == \E r \in Records : record[r] = Torn

\* load returns an error.
Unreadable == UnreadableRecordsOnly \/ HasTornLine(file.lines)

NoTmp == [content |-> None, synced |-> FALSE]

Abstract == INSTANCE StoreSpec WITH
  saved <- record["snapshot"],
  journal <- Pending(file.lines),
  done <- /\ at \in {"newline", "sync", "chmod", "syncdir"}
          /\ op.kind \notin {"compact", "metadata"}

ASSUME NoneAssumption == None \notin Abstract!Ops

NoFault == UNCHANGED left
Fault(f) ==
  /\ left[f] > 0 /\ left["any"] > 0
  /\ left' = [left EXCEPT ![f] = @ - 1, !["any"] = @ - 1]
-----------------------------------------------------------------------------
(* Calls and answers. *)

Line == IF op.kind = "append" THEN AppendLine(op.mutation) ELSE AckLine(op.id)

Call(o) ==
  /\ op = None
  /\ o = Abstract!LoadOp \/ opened
  /\ o.kind \in {"append", "ack"} => Len(file.lines) < MaxLines
  /\ op' = o /\ at' = FirstCall[o.kind]
  /\ buffer' = IF o.kind \in Records THEN o.value ELSE None
  /\ answer' = Abstract!Nothing
  /\ kept' = CASE o.kind = "append" -> {m \in kept : m.id # o.mutation.id}
               [] o.kind = "ack" -> {m \in kept : m.id # o.id}
               [] o.kind = "clear" -> {}
               [] OTHER -> kept
  /\ gone' = IF o.kind = "append" THEN gone \ {o.mutation.id} ELSE gone
  /\ snaps' = CASE o.kind = "snapshot" -> snaps \cup {o.value}
                [] o.kind = "clear" -> snaps \cup {None}
                [] OTHER -> snaps
  /\ UNCHANGED <<disk, tmp, fresh, opened, left>>

Return(a) ==
  /\ op' = None /\ at' = "idle" /\ buffer' = None /\ fresh' = FALSE
  /\ tmp' = NoTmp /\ answer' = a

ReturnOk ==
  /\ Return(Abstract!Ok)
  /\ kept' = IF op.kind = "append" THEN kept \cup {op.mutation} ELSE kept
  /\ gone' = IF op.kind = "ack" THEN gone \cup {op.id} ELSE gone
  /\ snaps' = IF op.kind = "snapshot" THEN {op.value} ELSE snaps
  /\ UNCHANGED opened

ReturnError == Return(Abstract!Error) /\ UNCHANGED <<opened, history>>

Load ==
  /\ at = "load"
  /\ \/ Unreadable /\ ReturnError
     \/ /\ ~Unreadable
        /\ \E s \in [1..Cardinality(Pending(file.lines)) -> Pending(file.lines)] :
             /\ Abstract!Store!IsLoaded(s)
             /\ \/ /\ op.kind = "load"
                   /\ Return(Abstract!Loaded(record["snapshot"], s))
                   /\ opened' = TRUE
                \/ /\ op.kind = "compact"
                   /\ buffer' = [i \in DOMAIN s |-> AppendLine(s[i])]
                   /\ at' = "create"
                   /\ UNCHANGED <<op, tmp, fresh, answer, opened>>
        /\ UNCHANGED history
  /\ NoFault /\ UNCHANGED disk
-----------------------------------------------------------------------------
(* append_line. *)

Proceed(next) ==
  /\ at' = next
  /\ NoFault
  /\ UNCHANGED <<op, buffer, answer, opened, history>>

\* The last line of the journal becomes l.
LastLine(l) == [file.lines EXCEPT ![Len(file.lines)] = l]

WritePiece ==
  /\ at = "write"
  /\ file' = [lines |-> IF file.ended THEN Append(file.lines, Torn) ELSE LastLine(Torn),
              ended |-> FALSE]
  /\ fresh' = file.ended
  /\ Proceed("rest")
  /\ UNCHANGED <<record, tmp, sure, staleFile, staleRecord>>

WriteRest ==
  /\ at = "rest"
  /\ file' = IF fresh THEN [file EXCEPT !.lines = LastLine(Line)] ELSE file
  /\ Proceed("newline")
  /\ UNCHANGED <<record, tmp, sure, staleFile, staleRecord, fresh>>

WriteLineFeed ==
  /\ at = "newline"
  /\ file' = [file EXCEPT !.ended = TRUE]
  /\ Proceed("sync")
  /\ UNCHANGED <<record, tmp, sure, staleFile, staleRecord, fresh>>

\* Mutant: append_line does not sync.
SyncNothing ==
  /\ at = "sync"
  /\ Proceed("chmod")
  /\ UNCHANGED <<disk, tmp, fresh>>

SyncLine ==
  /\ at = "sync"
  /\ sure' = Len(file.lines) /\ staleFile' = {}
  /\ Proceed("chmod")
  /\ UNCHANGED <<record, file, tmp, staleRecord, fresh>>

Appended == at = "chmod" /\ ReturnOk /\ NoFault /\ UNCHANGED disk

AppendLineCalls == WritePiece \/ WriteRest \/ WriteLineFeed \/ SyncLine \/ Appended
-----------------------------------------------------------------------------
(* What a loss of power may leave of the journal, whole lines or not. *)

Cuts == {[lines |-> SubSeq(file.lines, 1, n), ended |-> TRUE] :
           n \in sure..(IF file.ended THEN Len(file.lines) ELSE Len(file.lines) - 1)}

CutsInLine ==
  {[lines |-> Append(SubSeq(file.lines, 1, n), l), ended |-> FALSE] :
     n \in sure..(Len(file.lines) - 1), l \in {Torn}}
  \cup {[lines |-> SubSeq(file.lines, 1, n), ended |-> FALSE] :
          n \in (sure + 1)..Len(file.lines)}

Survivors == Cuts \cup staleFile

SurvivingRecords(r) == {record[r]} \cup staleRecord[r]
-----------------------------------------------------------------------------
(* write_atomic. *)

\* Mutant: the journal is written in place.
CreateInPlace ==
  /\ at = "create"
  /\ tmp' = [content |-> Torn, synced |-> FALSE]
  /\ IF op.kind = "compact"
     THEN file' = EmptyFile /\ sure' = 0 /\ UNCHANGED <<record, staleFile, staleRecord>>
     ELSE UNCHANGED disk
  /\ Proceed("fill")
  /\ UNCHANGED fresh

CreateTmp ==
  /\ at = "create"
  /\ tmp' = [content |-> Torn, synced |-> FALSE]
  /\ Proceed("fill")
  /\ UNCHANGED <<disk, fresh>>

FillTmp ==
  /\ at = "fill"
  /\ tmp' = [tmp EXCEPT !.content = buffer]
  /\ Proceed("flush")
  /\ UNCHANGED <<disk, fresh>>

\* Mutant: the .tmp file is renamed unsynced.
LeaveTmp ==
  /\ at = "flush"
  /\ Proceed("rename")
  /\ UNCHANGED <<disk, tmp, fresh>>

SyncTmp ==
  /\ at = "flush"
  /\ tmp' = [tmp EXCEPT !.synced = TRUE]
  /\ Proceed("rename")
  /\ UNCHANGED <<disk, fresh>>

RenameRecord(r) ==
  /\ record' = [record EXCEPT ![r] = tmp.content]
  /\ staleRecord' = [staleRecord EXCEPT
       ![r] = SurvivingRecords(r) \cup (IF tmp.synced THEN {} ELSE {Torn})]
  /\ UNCHANGED <<file, sure, staleFile>>

\* Mutant: what was synced of the old journal counts for the new one.
RenameBlindly ==
  /\ file' = [lines |-> tmp.content, ended |-> TRUE]
  /\ UNCHANGED <<record, sure, staleFile, staleRecord>>

RenameJournal ==
  /\ file' = [lines |-> tmp.content, ended |-> TRUE]
  /\ sure' = IF tmp.synced THEN Len(file'.lines) ELSE 0
  /\ staleFile' = Survivors \cup {file}
  /\ UNCHANGED <<record, staleRecord>>

Rename ==
  /\ at = "rename"
  /\ \/ op.kind = "compact" /\ RenameJournal
     \/ op.kind # "compact" /\ RenameRecord(op.kind)
  /\ tmp' = NoTmp
  /\ Proceed("syncdir")
  /\ UNCHANGED fresh

\* The error of the directory's sync_all is not looked at.
SyncDirectory ==
  /\ at = "syncdir"
  /\ \/ /\ NoFault
        /\ staleFile' = {}
        /\ staleRecord' = [r \in Records |-> {}]
     \/ Fault("syncdir") /\ UNCHANGED <<staleFile, staleRecord>>
  /\ ReturnOk
  /\ UNCHANGED <<record, file, sure>>

WriteAtomicCalls == CreateTmp \/ FillTmp \/ SyncTmp \/ Rename \/ SyncDirectory
-----------------------------------------------------------------------------
(* clear: remove_dir_all unlinks the files one by one, and syncs nothing. *)

UnlinkRecord(r) ==
  /\ at = "unlink" /\ record[r] # None
  /\ record' = [record EXCEPT ![r] = None]
  /\ staleRecord' = [staleRecord EXCEPT ![r] = SurvivingRecords(r)]
  /\ Proceed("unlink")
  /\ UNCHANGED <<file, tmp, sure, staleFile, fresh>>

UnlinkJournal ==
  /\ at = "unlink" /\ file # EmptyFile
  /\ file' = EmptyFile
  /\ sure' = 0 /\ staleFile' = Survivors \cup {file}
  /\ Proceed("unlink")
  /\ UNCHANGED <<record, tmp, staleRecord, fresh>>

Cleared ==
  /\ at = "unlink" /\ file = EmptyFile /\ \A r \in Records : record[r] = None
  /\ ReturnOk /\ NoFault
  /\ UNCHANGED disk

Clear == (\E r \in Records : UnlinkRecord(r)) \/ UnlinkJournal \/ Cleared
-----------------------------------------------------------------------------
(* Faults. *)

InLine == at \in {"rest", "newline"}

\* A system call of an operation fails: the operation stops where it is.
IoError ==
  /\ op # None /\ at # "syncdir"
  /\ Fault(IF InLine THEN "io_in_line" ELSE "io")
  /\ ReturnError
  /\ UNCHANGED disk

Restarted ==
  /\ Return(Abstract!Nothing) /\ opened' = FALSE
  /\ UNCHANGED history

Die ==
  /\ Fault(IF InLine THEN "die_in_line" ELSE "die")
  /\ Restarted
  /\ UNCHANGED disk

LosePower ==
  /\ \/ Fault("power") /\ file' \in Survivors
     \/ Fault("power_in_line") /\ file' \in CutsInLine
  /\ record' \in {r \in [Records -> Values \cup {None, Torn}] :
                    \A n \in Records : r[n] \in SurvivingRecords(n)}
  /\ sure' = Len(file'.lines) /\ staleFile' = {}
  /\ staleRecord' = [r \in Records |-> {}]
  /\ Restarted
-----------------------------------------------------------------------------
Init ==
  /\ record = [r \in Records |-> None] /\ file = EmptyFile
  /\ tmp = NoTmp
  /\ sure = 0 /\ staleFile = {} /\ staleRecord = [r \in Records |-> {}]
  /\ op = None /\ at = "idle" /\ buffer = None /\ fresh = FALSE
  /\ answer = Abstract!Nothing /\ opened = FALSE
  /\ kept = {} /\ gone = {} /\ snaps = {None}
  /\ left = Faults

Next ==
  \/ \E o \in Abstract!Ops : o.kind \in Kinds /\ Call(o)
  \/ Load \/ AppendLineCalls \/ WriteAtomicCalls \/ Clear
  \/ IoError \/ Die \/ LosePower

Spec == Init /\ [][Next]_vars
-----------------------------------------------------------------------------
(* Properties. *)

Ids == {m.id : m \in Mutations}
Lines == {AppendLine(m) : m \in Mutations} \cup {AckLine(id) : id \in Ids} \cup {Torn}
Files == [lines : Seq(Lines), ended : BOOLEAN]
Used(f) == left[f] < Faults[f]
Content == Values \cup {None, Torn}

Steps == {"idle", "load", "write", "rest", "newline", "sync", "chmod",
          "create", "fill", "flush", "rename", "syncdir", "unlink"}

TypeOK ==
  /\ record \in [Records -> Content]
  /\ file \in Files
  /\ tmp \in [content : Content \cup Seq(Lines), synced : BOOLEAN]
  /\ sure \in 0..Len(file.lines)
  /\ staleFile \subseteq Files
  /\ staleRecord \in [Records -> SUBSET Content]
  /\ op \in Abstract!Ops \cup {None} /\ at \in Steps
  /\ (op = None) = (at = "idle")
  /\ fresh \in BOOLEAN /\ opened \in BOOLEAN
  /\ kept \subseteq Mutations /\ gone \subseteq Ids
  /\ snaps \subseteq Values \cup {None}
  /\ left \in [FaultKinds -> Nat] /\ \A f \in FaultKinds : left[f] <= Faults[f]

\* Whatever a loss of power leaves of the journal, a mutation whose append was
\* answered with Ok is pending until it is acknowledged, and an id whose
\* acknowledgement was answered with Ok is not, with a compaction under way or
\* not (append_line syncs before it answers, write_atomic before it renames),
\* unless a fault has left half of a line.
SurvivesPowerLoss ==
  \/ Used("io_in_line") \/ Used("die_in_line") \/ Used("power_in_line")
  \/ \A f \in Survivors :
       /\ kept \subseteq Pending(f.lines)
       /\ \A m \in Pending(f.lines) : m.id \notin gone

\* A load finds the snapshot that was last stored with Ok or one a store_snapshot
\* since then has begun to write, and never half of a file, provided that no
\* sync of the directory has failed.
RecordsSurvive ==
  \/ Used("syncdir")
  \/ /\ SurvivingRecords("snapshot") \subseteq snaps
     /\ \A r \in Records : Torn \notin SurvivingRecords(r)

\* A load that succeeds is complete, whatever has failed, died or lost its power
\* in the middle of a line: every mutation whose append was answered with Ok is
\* pending, and none whose acknowledgement was (a line the faults have spoiled
\* makes every load fail, it is never skipped).
LoadsAreComplete ==
  Unreadable \/ /\ kept \subseteq Pending(file.lines)
                /\ \A m \in Pending(file.lines) : m.id \notin gone

\* Which operation makes which system call.
CallsFollow ==
  /\ at = "load" => op.kind \in {"load", "compact"}
  /\ at \in {"write", "rest", "newline", "sync", "chmod"} => op.kind \in {"append", "ack"}
  /\ at \in {"create", "fill", "flush", "rename", "syncdir"} => op.kind \in Records \cup {"compact"}
  /\ at = "unlink" => op.kind = "clear"

\* What append_line has written of its line, and write_atomic of its file.
WritesFollow ==
  /\ \A f \in {file} \cup staleFile : ~f.ended => f.lines # <<>>
  /\ at = "rest" => /\ file.lines # <<>> /\ file.lines[Len(file.lines)] = Torn
                    /\ fresh => sure < Len(file.lines)
  /\ at \in {"newline", "sync", "chmod"} =>
       file.lines # <<>> /\ file.lines[Len(file.lines)] \in {Line, Torn}
  /\ at = "chmod" => sure = Len(file.lines) /\ staleFile = {}
  /\ at \in {"create", "fill", "flush", "rename"} =>
       IF op.kind = "compact"
       THEN /\ buffer \in Seq(Lines) /\ ~HasTornLine(buffer) /\ ~HasTornLine(file.lines)
            /\ Pending(buffer) = Pending(file.lines)
       ELSE buffer = op.value
  /\ at \in {"flush", "rename"} => tmp.content = buffer
  /\ at = "rename" => tmp.synced

\* What the history has of the operation under way.
HistoryFollows ==
  op # None =>
    /\ op.kind = "append" => op.mutation.id \notin gone /\ \A m \in kept : m.id # op.mutation.id
    /\ op.kind = "ack" => \A m \in kept : m.id # op.id
    /\ op.kind = "clear" => kept = {} /\ None \in snaps
    /\ op.kind = "snapshot" => op.value \in snaps

Complete(lines) ==
  HasTornLine(lines) \/ /\ kept \subseteq Pending(lines)
                        /\ \A m \in Pending(lines) : m.id \notin gone

\* Whatever a loss of power may leave of the journal is complete or unreadable.
JournalSound ==
  /\ \A n \in sure..Len(file.lines) : Complete(SubSeq(file.lines, 1, n))
  /\ \A f \in staleFile : Complete(f.lines)

\* And readable, unless a fault has left half of a line.
JournalWhole ==
  \/ Used("io_in_line") \/ Used("die_in_line") \/ Used("power_in_line")
  \/ /\ file.ended <=> at \notin {"rest", "newline"}
     /\ at = "rest" => fresh
     /\ \A i \in DOMAIN file.lines :
          file.lines[i] = Torn => at = "rest" /\ i = Len(file.lines)
     /\ \A f \in staleFile : f.ended /\ ~HasTornLine(f.lines)

RecordsSound ==
  /\ RecordsSurvive
  /\ at = "syncdir" /\ op.kind = "snapshot" => record["snapshot"] = op.value

\* The inductive invariant of the properties above (FileStoreProofs).
FilesSound ==
  /\ CallsFollow /\ WritesFollow /\ HistoryFollows
  /\ JournalSound /\ JournalWhole /\ RecordsSound

\* The files implement the atomic store SyncEngine is composed with.
Implements == Abstract!Spec
=============================================================================
