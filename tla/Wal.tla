-------------------------------- MODULE Wal --------------------------------
(***************************************************************************)
(* The write-ahead log of the replication design                           *)
(* (db/alpha/replication/wal.go): callers of Write put their records into  *)
(* a queue, one goroutine (WriteLoop) numbers them and appends them to the *)
(* file under rwlock, and a later Wal on the same files reads the last     *)
(* number back.                                                            *)
(*                                                                         *)
(* There is one file (the code does not rotate) of index 1, so a Position  *)
(* is its second number.  A record is its number and the Write it is of; a *)
(* record that the file has only the beginning of is not whole.            *)
(***************************************************************************)
EXTENDS Naturals, Sequences, SequencesExt

CONSTANTS
    Call,       \* calls of Write
    QueueSize,  \* the capacity of writeQueue, 128 in the code
    MaxOpens,   \* bound: how often the files are opened
    Faults      \* "error": writes fail; "torn": they leave part of the record;
                \* "reopen": a Wal is opened while another one's write is under way

ASSUME QueueAssumption == QueueSize \in Nat \ {0} /\ MaxOpens \in Nat \ {0}
ASSUME FaultAssumption == Faults \subseteq {"error", "torn", "reopen"}

VARIABLES
    file,       \* the file's records
    status,     \* of the Wal: "new", "open", "shut", or "refused" by Startup
    current,    \* currentPosition
    queue,      \* writeQueue
    loop,       \* WriteLoop holds rwlock when it is not "idle"
    writing,    \* the Write it serves, and the number for it
    orphan,     \* what WriteLoops of earlier Wals still have to append
    call,       \* where each Write is
    ack,        \* the position it returned
    opens,
    damaged     \* history: a write left part of a record, or a Wal was opened
                \* while another one wrote

vars == <<file, status, current, queue, loop, writing, orphan, call, ack, opens, damaged>>

None == "none"
\* Bound: what is read after a torn record is at most the number of calls, each
\* of which adds one.
Position == 0 .. 2 * Cardinality(Call)
Misread == 0 .. Cardinality(Call)
Record == [pos : Position, of : Call, whole : BOOLEAN]

TypeOK ==
    /\ file \in Seq(Record)
    /\ status \in {"new", "open", "shut", "refused"}
    /\ current \in Position
    /\ queue \in Seq(Call) /\ Len(queue) <= QueueSize
    /\ loop \in {"idle", "begun", "written", "failed"}
    /\ writing \in [pos : Position, of : Call \cup {None}]
    /\ orphan \subseteq Record
    /\ call \in [Call -> {"new", "waiting", "ok", "error", "lost"}]
    /\ ack \in [Call -> Position]
    /\ opens \in 0 .. MaxOpens
    /\ damaged \in BOOLEAN

Nothing == [pos |-> 0, of |-> None]

\* The calls are told from "no call".
ASSUME CallAssumption == None \notin Call

Init ==
    /\ file = <<>>
    /\ status = "new" /\ current = 0 /\ queue = <<>>
    /\ loop = "idle" /\ writing = Nothing /\ orphan = {}
    /\ call = [c \in Call |-> "new"] /\ ack = [c \in Call |-> 0]
    /\ opens = 0
    /\ damaged = FALSE

-----------------------------------------------------------------------------
(* Startup reads the number of the last record.  It checks neither the     *)
(* checksum nor the lengths: after a torn record it reads lengths and      *)
(* numbers from where there are none, and it may give up.                  *)

\* Mutant: the number of the last but one record.
ReadLastPosLate(f) ==
    IF \A i \in DOMAIN f : f[i].whole
      THEN {IF Len(f) < 2 THEN 0 ELSE f[Len(f) - 1].pos}
      ELSE Misread

ReadLastPos(f) ==
    IF \A i \in DOMAIN f : f[i].whole
      THEN {IF f = <<>> THEN 0 ELSE f[Len(f)].pos}
      ELSE Misread

Startup ==
    /\ status = "new" /\ opens < MaxOpens
    /\ opens' = opens + 1
    /\ \/ /\ status' = "open" /\ current' \in ReadLastPos(file)
       \/ /\ \E i \in DOMAIN file : ~file[i].whole
          /\ status' = "refused" /\ UNCHANGED current
    /\ UNCHANGED <<file, queue, loop, writing, orphan, call, ack, damaged>>

\* Mutant: Shutdown also ends WriteLoop and drops its queue.
ShutdownDrops ==
    /\ status = "open"
    /\ status' = "shut" /\ queue' = <<>>
    /\ UNCHANGED <<file, current, loop, writing, orphan, call, ack, opens, damaged>>

\* Shutdown closes the file; WriteLoop goes on, and every write of it fails.
Shutdown ==
    /\ status = "open"
    /\ status' = "shut"
    /\ UNCHANGED <<file, current, queue, loop, writing, orphan, call, ack, opens, damaged>>

\* A new Wal on the files after Shutdown.  Nothing waits for the old WriteLoop:
\* what it has begun to append may reach the file later, all the rest fails.
Reopen ==
    /\ status = "shut"
    /\ loop = "idle" \/ (loop = "begun" /\ "reopen" \in Faults)
    /\ status' = "new" /\ current' = 0 /\ queue' = <<>>
    /\ loop' = "idle" /\ writing' = Nothing
    /\ damaged' = (damaged \/ loop = "begun")
    /\ orphan' = orphan \cup {[pos |-> writing.pos, of |-> c, whole |-> TRUE] : c \in {writing.of} \cap Call}
    /\ call' = [c \in Call |-> IF c \in Range(queue) THEN "error" ELSE call[c]]
    /\ UNCHANGED <<file, ack, opens>>

\* The write of an earlier Wal's WriteLoop ends, in the file or not.
OrphanWrite(r) ==
    /\ orphan' = orphan \ {r}
    /\ \/ /\ file' = Append(file, r)
          /\ call' = [call EXCEPT ![r.of] = "ok"]
          /\ ack' = [ack EXCEPT ![r.of] = r.pos]
       \/ /\ call' = [call EXCEPT ![r.of] = "error"]
          /\ UNCHANGED <<file, ack>>
    /\ UNCHANGED <<status, current, queue, loop, writing, opens, damaged>>

\* Part of the record that WriteLoop is writing.
Torn ==
    /\ "torn" \in Faults /\ loop = "begun"
    /\ file' = Append(file, [pos |-> writing.pos, of |-> writing.of, whole |-> FALSE])
    /\ damaged' = TRUE

\* The process ends and its callers with it; a new one starts.
Crash ==
    /\ Torn \/ UNCHANGED <<file, damaged>>
    /\ status' = "new" /\ current' = 0 /\ queue' = <<>>
    /\ loop' = "idle" /\ writing' = Nothing /\ orphan' = {}
    /\ call' = [c \in Call |-> IF call[c] = "waiting" THEN "lost" ELSE call[c]]
    /\ UNCHANGED <<ack, opens>>

-----------------------------------------------------------------------------

\* The send blocks while the queue is full.
Write(c) ==
    /\ status \in {"open", "shut"}
    /\ call[c] = "new"
    /\ Len(queue) < QueueSize
    /\ queue' = Append(queue, c)
    /\ call' = [call EXCEPT ![c] = "waiting"]
    /\ UNCHANGED <<file, status, current, loop, writing, orphan, ack, opens, damaged>>

\* WriteLoop takes a record, takes rwlock and numbers it.
NextPos == current + 1

Begin ==
    /\ loop = "idle" /\ queue # <<>>
    /\ queue' = Tail(queue)
    /\ writing' = [pos |-> NextPos, of |-> Head(queue)]
    /\ loop' = IF status = "open" THEN "begun" ELSE "failed"
    /\ UNCHANGED <<file, status, current, orphan, call, ack, opens, damaged>>

\* The file's Write.
WriteFile ==
    /\ loop = "begun"
    /\ loop' = "written"
    /\ file' = Append(file, [pos |-> writing.pos, of |-> writing.of, whole |-> TRUE])
    /\ UNCHANGED <<status, current, queue, writing, orphan, call, ack, opens, damaged>>

WriteFileFails ==
    /\ loop = "begun"
    /\ loop' = "failed"
    /\ \/ (status = "shut" \/ "error" \in Faults) /\ UNCHANGED <<file, damaged>>
       \/ Torn
    /\ UNCHANGED <<status, current, queue, writing, orphan, call, ack, opens>>

\* Mutant: the answer without commitPos.
CommitNothing ==
    /\ loop = "written"
    /\ call' = [call EXCEPT ![writing.of] = "ok"]
    /\ ack' = [ack EXCEPT ![writing.of] = writing.pos]
    /\ loop' = "idle" /\ writing' = Nothing
    /\ UNCHANGED <<file, status, current, queue, orphan, opens, damaged>>

\* commitPos, and the answer.
Commit ==
    /\ loop = "written"
    /\ current' = writing.pos
    /\ call' = [call EXCEPT ![writing.of] = "ok"]
    /\ ack' = [ack EXCEPT ![writing.of] = writing.pos]
    /\ loop' = "idle" /\ writing' = Nothing
    /\ UNCHANGED <<file, status, queue, orphan, opens, damaged>>

\* Mutant: a failed write is answered as a written one.
AnswerErrorOk ==
    /\ loop = "failed"
    /\ call' = [call EXCEPT ![writing.of] = "ok"]
    /\ ack' = [ack EXCEPT ![writing.of] = writing.pos]
    /\ loop' = "idle" /\ writing' = Nothing
    /\ UNCHANGED <<file, status, current, queue, orphan, opens, damaged>>

AnswerError ==
    /\ loop = "failed"
    /\ call' = [call EXCEPT ![writing.of] = "error"]
    /\ loop' = "idle" /\ writing' = Nothing
    /\ UNCHANGED <<file, status, current, queue, orphan, ack, opens, damaged>>

WriteLoop == Begin \/ WriteFile \/ WriteFileFails \/ Commit \/ AnswerError

Next ==
    \/ Startup \/ Shutdown \/ Reopen \/ Crash
    \/ \E r \in orphan : OrphanWrite(r)
    \/ \E c \in Call : Write(c)
    \/ WriteLoop

Spec == Init /\ [][Next]_vars

\* WriteLoop runs on, earlier ones' last writes included.
FairSpec ==
    /\ Spec
    /\ WF_vars(WriteLoop)
    /\ WF_vars(\E r \in orphan : OrphanWrite(r))

-----------------------------------------------------------------------------
(***************************************************************************)
(* Properties.                                                             *)
(***************************************************************************)

\* The records are in the file in the order of their positions and no position
\* is given twice: over restarts, and with writes that fail.  (Not once a write
\* has left part of a record, or a Wal was opened while another one wrote.)
LogInOrder ==
    ~damaged =>
    \A i, j \in DOMAIN file : i < j => file[i].pos < file[j].pos

\* CurrentPosition, from which a database decides what to replay, is never less
\* than a position that a Write has returned, after a restart either; under the
\* same condition.
CurrentCoversAcks ==
    status \in {"open", "shut"} /\ ~damaged =>
        \A c \in Call : call[c] = "ok" => ack[c] <= current

\* Whatever fails, a Write that returned a position has its record in the file,
\* whole, at that position.
AckedIsLogged ==
    \A c \in Call :
        call[c] = "ok" =>
            \E i \in DOMAIN file : file[i] = [pos |-> ack[c], of |-> c, whole |-> TRUE]

\* Every Write that was queued returns, after Shutdown too, unless the process
\* ends.
WritesReturn == \A c \in Call : call[c] = "waiting" ~> call[c] # "waiting"
=============================================================================
