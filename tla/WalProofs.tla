------------------------------ MODULE WalProofs ------------------------------
(***************************************************************************)
(* Theorems about Wal, for any number of calls and of restarts and any     *)
(* length of the queue, under all its faults.                              *)
(***************************************************************************)
EXTENDS Wal, SequenceTheorems, TLAPS

Numbered == [pos : Nat, of : Call, whole : BOOLEAN]

\* The record of the Write that WriteLoop serves.
Served == [pos |-> writing.pos, of |-> writing.of, whole |-> TRUE]

\* Types, but for the bound of the positions.
LogTypeOK ==
    /\ file \in Seq(Numbered)
    /\ status \in {"new", "open", "shut", "refused"}
    /\ current \in Nat
    /\ queue \in Seq(Call) /\ Len(queue) <= QueueSize
    /\ loop \in {"idle", "begun", "written", "failed"}
    /\ writing \in [pos : Nat, of : Call \cup {None}]
    /\ orphan \subseteq Numbered
    /\ call \in [Call -> {"new", "waiting", "ok", "error", "lost"}]
    /\ ack \in [Call -> Nat]
    /\ damaged \in BOOLEAN

\* What WriteLoop serves, and that only an opened Wal is written to.
LoopInv ==
    /\ loop = "idle" => writing = Nothing
    /\ loop # "idle" => writing.of \in Call /\ writing.pos = current + 1
                        /\ status \in {"open", "shut"}
    /\ status \in {"new", "refused"} => queue = <<>>
    /\ loop = "written" => \E i \in DOMAIN file : file[i] = Served
    /\ \A r \in orphan : r.whole

\* The files as they are when no write has been torn or overtaken: nothing in them
\* is beyond the current position, but the record not committed yet.
Top == IF loop = "written" THEN writing.pos ELSE current

IntactInv ==
    ~damaged =>
        /\ orphan = {}
        /\ \A i \in DOMAIN file : file[i].whole
        /\ status \in {"open", "shut"} => \A i \in DOMAIN file : file[i].pos <= Top

WalInv ==
    /\ LogTypeOK /\ LoopInv /\ IntactInv
    /\ LogInOrder /\ CurrentCoversAcks /\ AckedIsLogged

-----------------------------------------------------------------------------
\* Append, index by index.
LEMMA AppendFacts ==
    ASSUME NEW f, NEW R, f \in Seq(R), NEW r \in R
    PROVE  /\ Append(f, r) \in Seq(R)
           /\ DOMAIN Append(f, r) = DOMAIN f \cup {Len(f) + 1}
           /\ DOMAIN f \subseteq Nat /\ Len(f) + 1 \in Nat
           /\ \A i \in DOMAIN f : i < Len(f) + 1 /\ Append(f, r)[i] = f[i]
           /\ Append(f, r)[Len(f) + 1] = r
<1>1. Len(f) \in Nat /\ DOMAIN f = 1 .. Len(f)
  OBVIOUS
<1>2. Append(f, r) \in Seq(R) /\ Len(Append(f, r)) = Len(f) + 1
  OBVIOUS
<1>3. DOMAIN Append(f, r) = 1 .. (Len(f) + 1)
  BY <1>2
<1>4. DOMAIN Append(f, r) = DOMAIN f \cup {Len(f) + 1}
  BY <1>1, <1>3
<1> QED
  BY <1>1, <1>2, <1>4

LEMMA WalInitInv == Init => WalInv
<1> SUFFICES ASSUME Init PROVE WalInv
  OBVIOUS
<1>1. LogTypeOK
  <2>1. file \in Seq(Numbered) /\ queue \in Seq(Call) /\ Len(queue) <= QueueSize
    BY QueueAssumption DEF Init
  <2> QED
    BY <2>1 DEF Init, LogTypeOK, Nothing
<1>2. LoopInv /\ IntactInv
  BY DEF Init, LoopInv, IntactInv
<1>3. LogInOrder /\ CurrentCoversAcks /\ AckedIsLogged
  BY DEF Init, LogInOrder, CurrentCoversAcks, AckedIsLogged
<1> QED
  BY <1>1, <1>2, <1>3 DEF WalInv

\* What Startup reads covers all records, if they are whole.
LEMMA StartupKeeps == WalInv /\ Startup => WalInv'
<1> SUFFICES ASSUME WalInv, Startup PROVE WalInv'
  OBVIOUS
<1>0. /\ status = "new" /\ loop = "idle"
      /\ UNCHANGED <<file, queue, loop, writing, orphan, call, ack, damaged>>
      /\ \/ status' = "open" /\ current' \in ReadLastPos(file)
         \/ status' = "refused" /\ current' = current /\ \E i \in DOMAIN file : ~file[i].whole
  BY DEF WalInv, LoopInv, Startup
<1>1. /\ file \in Seq(Numbered) /\ Len(file) \in Nat /\ DOMAIN file = 1 .. Len(file)
      /\ \A i \in DOMAIN file : file[i] \in Numbered /\ file[i].pos \in Nat
  <2>1. file \in Seq(Numbered)
    BY DEF WalInv, LogTypeOK
  <2>2. \A i \in DOMAIN file : file[i] \in Numbered
    BY <2>1
  <2> QED
    BY <2>1, <2>2 DEF Numbered
<1>2. current' \in Nat
  <2>1. CASE current' \in Misread
    BY <2>1 DEF Misread
  <2>2. CASE current' \in {IF file = <<>> THEN 0 ELSE file[Len(file)].pos}
    <3>1. file # <<>> => Len(file) \in DOMAIN file
      BY <1>1
    <3> QED
      BY <1>1, <2>2, <3>1
  <2>3. CASE current' = current
    BY <2>3 DEF WalInv, LogTypeOK
  <2> QED
    BY <1>0, <2>1, <2>2, <2>3 DEF ReadLastPos
<1>3. ASSUME ~damaged
      PROVE  status' = "open" /\ \A i \in DOMAIN file : file[i].pos <= current'
  <2>1. /\ \A i \in DOMAIN file : file[i].whole
        /\ \A i, j \in DOMAIN file : i < j => file[i].pos < file[j].pos
    BY <1>3 DEF WalInv, IntactInv, LogInOrder
  <2>2. status' = "open" /\ current' = IF file = <<>> THEN 0 ELSE file[Len(file)].pos
    BY <1>0, <2>1 DEF ReadLastPos
  <2> SUFFICES ASSUME NEW i \in DOMAIN file PROVE file[i].pos <= current'
    BY <2>2
  <2>3. Len(file) \in DOMAIN file /\ current' = file[Len(file)].pos
    BY <1>1, <2>2
  <2>4. i = Len(file) \/ i < Len(file)
    BY <1>1
  <2> QED
    BY <1>1, <2>1, <2>3, <2>4
<1>4. LogTypeOK' /\ LoopInv' /\ LogInOrder' /\ AckedIsLogged'
  BY <1>0, <1>2 DEF WalInv, LogTypeOK, LoopInv, LogInOrder, AckedIsLogged, Served
<1>5. IntactInv'
  BY <1>0, <1>3 DEF WalInv, IntactInv, Top
<1>6. CurrentCoversAcks'
  <2> SUFFICES ASSUME ~damaged, NEW c \in Call, call[c] = "ok" PROVE ack[c] <= current'
    BY <1>0 DEF CurrentCoversAcks
  <2>1. PICK i \in DOMAIN file : file[i] = [pos |-> ack[c], of |-> c, whole |-> TRUE]
    BY DEF WalInv, AckedIsLogged
  <2>2. file[i].pos <= current'
    BY <1>3
  <2> QED
    BY <2>1, <2>2
<1> QED
  BY <1>4, <1>5, <1>6 DEF WalInv

\* The steps that leave the files alone and what is known of them.
LEMMA QuietKeeps ==
    ASSUME WalInv,
           \/ Shutdown
           \/ \E c \in Call : Write(c)
           \/ Begin
           \/ AnswerError
           \/ UNCHANGED vars
    PROVE  WalInv'
<1>0. UNCHANGED <<file, current, orphan, ack, damaged>>
  BY DEF Shutdown, Write, Begin, AnswerError, vars
<1>1. \A c \in Call : call'[c] = "ok" => call[c] = "ok"
  BY DEF WalInv, LogTypeOK, Shutdown, Write, Begin, AnswerError, vars
<1>2. LogTypeOK' /\ LoopInv'
  <2>1. CASE Shutdown \/ UNCHANGED vars
    BY <2>1 DEF WalInv, LogTypeOK, LoopInv, Served, Shutdown, vars
  <2>2. ASSUME NEW c \in Call, Write(c) PROVE LogTypeOK' /\ LoopInv'
    <3>1. queue' \in Seq(Call) /\ Len(queue') <= QueueSize
      BY <2>2, QueueAssumption DEF WalInv, LogTypeOK, Write
    <3> QED
      BY <2>2, <3>1 DEF WalInv, LogTypeOK, LoopInv, Served, Write
  <2>3. CASE Begin
    <3>1. /\ queue' \in Seq(Call) /\ Len(queue') <= QueueSize
          /\ Head(queue) \in Call /\ current + 1 \in Nat /\ queue # <<>>
      BY <2>3, QueueAssumption DEF WalInv, LogTypeOK, Begin
    <3>2. writing' = [pos |-> current + 1, of |-> Head(queue)]
      BY <2>3 DEF Begin, NextPos
    <3>3. loop' \in {"begun", "failed"} /\ status' = status /\ status \in {"open", "shut"}
      BY <2>3, <3>1 DEF Begin, WalInv, LogTypeOK, LoopInv
    <3>4. LogTypeOK'
      BY <1>0, <2>3, <3>1, <3>2, <3>3 DEF WalInv, LogTypeOK, Begin
    <3>5. LoopInv'
      BY <1>0, <3>1, <3>2, <3>3 DEF WalInv, LoopInv
    <3> QED
      BY <3>4, <3>5
  <2>4. CASE AnswerError
    BY <2>4 DEF WalInv, LogTypeOK, LoopInv, AnswerError, Nothing
  <2> QED
    BY <2>1, <2>2, <2>3, <2>4
<1>3. IntactInv'
  <2>1. Top' = Top /\ (status' \in {"open", "shut"} => status \in {"open", "shut"})
    BY <1>0 DEF WalInv, LoopInv, Top, Shutdown, Write, Begin, AnswerError, vars
  <2> QED
    BY <1>0, <2>1 DEF WalInv, IntactInv
<1>4. LogInOrder'
  BY <1>0 DEF WalInv, LogInOrder
<1>5. CurrentCoversAcks'
  <2>1. status' \in {"open", "shut"} => status \in {"open", "shut"}
    BY DEF Shutdown, Write, Begin, AnswerError, vars
  <2> QED
    BY <1>0, <1>1, <2>1 DEF WalInv, CurrentCoversAcks
<1>6. AckedIsLogged'
  BY <1>0, <1>1 DEF WalInv, AckedIsLogged
<1> QED
  BY <1>2, <1>3, <1>4, <1>5, <1>6 DEF WalInv

\* The file grows at its end: what was in it stays.
LEMMA FileGrows ==
    ASSUME WalInv, NEW r \in Numbered, file' = Append(file, r)
    PROVE  /\ file' \in Seq(Numbered)
           /\ DOMAIN file' = DOMAIN file \cup {Len(file) + 1}
           /\ \A i \in DOMAIN file : i \in Nat /\ i < Len(file) + 1 /\ file'[i] = file[i]
           /\ Len(file) + 1 \in Nat /\ file'[Len(file) + 1] = r
           /\ \A x : (\E i \in DOMAIN file : file[i] = x) => \E i \in DOMAIN file' : file'[i] = x
<1>1. file \in Seq(Numbered)
  BY DEF WalInv, LogTypeOK
<1>2. /\ file' \in Seq(Numbered)
      /\ DOMAIN file' = DOMAIN file \cup {Len(file) + 1}
      /\ DOMAIN file \subseteq Nat /\ Len(file) + 1 \in Nat
      /\ \A i \in DOMAIN file : i < Len(file) + 1 /\ file'[i] = file[i]
      /\ file'[Len(file) + 1] = r
  BY <1>1, AppendFacts
<1>3. \A i \in DOMAIN file : i \in Nat /\ i \in DOMAIN file'
  BY <1>2
<1> QED
  BY <1>2, <1>3

\* A record torn or appended by an earlier Wal's WriteLoop: nothing else is said of
\* the files any more.
LEMMA DamageKeeps ==
    ASSUME WalInv, NEW r \in Numbered, file' = Append(file, r), damaged', LogTypeOK', LoopInv',
           \A c \in Call : call'[c] = "ok" =>
              \/ call[c] = "ok" /\ ack'[c] = ack[c]
              \/ r = [pos |-> ack'[c], of |-> c, whole |-> TRUE]
    PROVE  WalInv'
<1>1. IntactInv' /\ LogInOrder' /\ CurrentCoversAcks'
  BY DEF IntactInv, LogInOrder, CurrentCoversAcks
<1>2. AckedIsLogged'
  <2> SUFFICES ASSUME NEW c \in Call, call'[c] = "ok"
               PROVE  \E i \in DOMAIN file' : file'[i] = [pos |-> ack'[c], of |-> c, whole |-> TRUE]
    BY DEF AckedIsLogged
  <2>1. CASE call[c] = "ok" /\ ack'[c] = ack[c]
    <3>1. \E i \in DOMAIN file : file[i] = [pos |-> ack[c], of |-> c, whole |-> TRUE]
      BY <2>1 DEF WalInv, AckedIsLogged
    <3> QED
      BY <2>1, <3>1, FileGrows
  <2>2. CASE r = [pos |-> ack'[c], of |-> c, whole |-> TRUE]
    BY <2>2, FileGrows
  <2> QED
    BY <2>1, <2>2
<1> QED
  BY <1>1, <1>2 DEF WalInv

LEMMA TornFacts ==
    ASSUME WalInv, Torn
    PROVE  \E r \in Numbered : file' = Append(file, r) /\ damaged' = TRUE
<1>1. loop = "begun" /\ writing.of \in Call /\ writing.pos \in Nat
  BY DEF WalInv, LogTypeOK, LoopInv, Torn
<1>2. [pos |-> writing.pos, of |-> writing.of, whole |-> FALSE] \in Numbered
  BY <1>1 DEF Numbered
<1> QED
  BY <1>2 DEF Torn

\* The process ends, with or without part of a record.
LEMMA CrashKeeps == WalInv /\ Crash => WalInv'
<1> SUFFICES ASSUME WalInv, Crash PROVE WalInv'
  OBVIOUS
<1>0. /\ status' = "new" /\ current' = 0 /\ queue' = <<>> /\ loop' = "idle"
      /\ writing' = Nothing /\ orphan' = {} /\ ack' = ack
      /\ \A c \in Call : call'[c] = "ok" <=> call[c] = "ok"
      /\ call' \in [Call -> {"new", "waiting", "ok", "error", "lost"}]
  BY DEF Crash, WalInv, LogTypeOK
<1>1. LoopInv'
  BY <1>0 DEF LoopInv
<1>2. ASSUME file' \in Seq(Numbered), damaged' \in BOOLEAN PROVE LogTypeOK'
  <2>1. queue' \in Seq(Call) /\ Len(queue') <= QueueSize
    BY <1>0, QueueAssumption
  <2>2. writing' \in [pos : Nat, of : Call \cup {None}]
    BY <1>0 DEF Nothing
  <2> QED
    BY <1>0, <1>2, <2>1, <2>2 DEF WalInv, LogTypeOK
<1>3. CASE Torn
  <2> PICK r \in Numbered : file' = Append(file, r) /\ damaged' = TRUE
    BY <1>3, TornFacts
  <2>1. LogTypeOK'
    BY <1>2, FileGrows
  <2> QED
    BY <1>0, <1>1, <2>1, DamageKeeps
<1>4. CASE UNCHANGED <<file, damaged>>
  <2>1. LogTypeOK'
    BY <1>2, <1>4 DEF WalInv, LogTypeOK
  <2>2. IntactInv' /\ LogInOrder' /\ CurrentCoversAcks'
    BY <1>0, <1>4 DEF WalInv, IntactInv, LogInOrder, CurrentCoversAcks
  <2>3. AckedIsLogged'
    BY <1>0, <1>4 DEF WalInv, AckedIsLogged
  <2> QED
    BY <1>1, <2>1, <2>2, <2>3 DEF WalInv
<1> QED
  BY <1>3, <1>4 DEF Crash

\* A Wal opened on files that an earlier one may still write to.
LEMMA ReopenKeeps == WalInv /\ Reopen => WalInv'
<1> SUFFICES ASSUME WalInv, Reopen PROVE WalInv'
  OBVIOUS
<1>0. /\ status' = "new" /\ current' = 0 /\ queue' = <<>> /\ loop' = "idle"
      /\ writing' = Nothing /\ UNCHANGED <<file, ack>>
      /\ \A c \in Call : call'[c] = "ok" => call[c] = "ok"
      /\ call' \in [Call -> {"new", "waiting", "ok", "error", "lost"}]
      /\ damaged' = (damaged \/ loop = "begun") /\ loop \in {"idle", "begun"}
      /\ orphan' = orphan \cup {[pos |-> writing.pos, of |-> c, whole |-> TRUE] : c \in {writing.of} \cap Call}
  BY DEF Reopen, WalInv, LogTypeOK
<1>1. /\ orphan' \subseteq Numbered /\ \A r \in orphan' : r.whole
      /\ loop = "idle" => orphan' = orphan
  <2>1. /\ orphan \subseteq Numbered /\ \A r \in orphan : r.whole
        /\ writing.pos \in Nat
        /\ loop = "idle" => writing.of = None
    BY DEF WalInv, LogTypeOK, LoopInv, Nothing
  <2>2. \A c \in Call : [pos |-> writing.pos, of |-> c, whole |-> TRUE] \in Numbered
    BY <2>1 DEF Numbered
  <2>3. loop = "idle" => {writing.of} \cap Call = {}
    BY <2>1, CallAssumption
  <2> QED
    BY <1>0, <2>1, <2>2, <2>3
<1>2. LogTypeOK'
  <2>1. queue' \in Seq(Call) /\ Len(queue') <= QueueSize
    BY <1>0, QueueAssumption
  <2>2. writing' \in [pos : Nat, of : Call \cup {None}]
    BY <1>0 DEF Nothing
  <2>3. damaged' \in BOOLEAN
    BY <1>0
  <2>4. file' \in Seq(Numbered) /\ ack' \in [Call -> Nat]
    BY <1>0 DEF WalInv, LogTypeOK
  <2> QED
    BY <1>0, <1>1, <2>1, <2>2, <2>3, <2>4 DEF LogTypeOK
<1>3. LoopInv'
  BY <1>0, <1>1 DEF LoopInv
<1>4. ~damaged' => ~damaged /\ loop = "idle"
  BY <1>0
<1>5. IntactInv' /\ LogInOrder' /\ CurrentCoversAcks'
  BY <1>0, <1>1, <1>4 DEF WalInv, IntactInv, LogInOrder, CurrentCoversAcks
<1>6. AckedIsLogged'
  BY <1>0 DEF WalInv, AckedIsLogged
<1> QED
  BY <1>2, <1>3, <1>5, <1>6 DEF WalInv

\* A write of an earlier Wal that comes to nothing.
LEMMA OrphanFails ==
    ASSUME WalInv, NEW r \in orphan, OrphanWrite(r), UNCHANGED <<file, ack>>,
           call' = [call EXCEPT ![r.of] = "error"]
    PROVE  WalInv'
<1>1. r \in Numbered /\ r.of \in Call /\ damaged
  BY DEF WalInv, LogTypeOK, IntactInv, Numbered
<1>2. /\ UNCHANGED <<file, ack, damaged, status, current, queue, loop, writing>>
      /\ orphan' = orphan \ {r}
  BY DEF OrphanWrite
<1>3. \A c \in Call : call'[c] = "ok" => call[c] = "ok"
  BY DEF WalInv, LogTypeOK
<1>4. LogTypeOK' /\ LoopInv'
  BY <1>2 DEF WalInv, LogTypeOK, LoopInv, Served
<1>5. IntactInv' /\ LogInOrder' /\ CurrentCoversAcks'
  BY <1>1, <1>2 DEF IntactInv, LogInOrder, CurrentCoversAcks
<1>6. AckedIsLogged'
  BY <1>2, <1>3 DEF WalInv, AckedIsLogged
<1> QED
  BY <1>4, <1>5, <1>6 DEF WalInv

LEMMA OrphanKeeps == WalInv /\ (\E r \in orphan : OrphanWrite(r)) => WalInv'
<1> SUFFICES ASSUME WalInv, NEW r \in orphan, OrphanWrite(r) PROVE WalInv'
  OBVIOUS
<1>1. /\ r \in Numbered /\ r.whole = TRUE /\ r.of \in Call /\ r.pos \in Nat
      /\ r = [pos |-> r.pos, of |-> r.of, whole |-> TRUE]
  BY DEF WalInv, LogTypeOK, LoopInv, Numbered
<1>2. damaged' = damaged /\ damaged
  BY DEF WalInv, IntactInv, OrphanWrite
<1>3. UNCHANGED <<status, current, queue, loop, writing>> /\ orphan' = orphan \ {r}
  BY DEF OrphanWrite
<1>4. CASE UNCHANGED <<file, ack>> /\ call' = [call EXCEPT ![r.of] = "error"]
  BY <1>4, OrphanFails
<1>5. CASE /\ file' = Append(file, r)
           /\ call' = [call EXCEPT ![r.of] = "ok"]
           /\ ack' = [ack EXCEPT ![r.of] = r.pos]
  <2>1. LogTypeOK'
    <3>1. file' \in Seq(Numbered)
      BY <1>1, <1>5, FileGrows
    <3>2. /\ call' \in [Call -> {"new", "waiting", "ok", "error", "lost"}]
          /\ ack' \in [Call -> Nat]
      BY <1>1, <1>5 DEF WalInv, LogTypeOK
    <3> QED
      BY <1>2, <1>3, <3>1, <3>2 DEF WalInv, LogTypeOK
  <2>2. LoopInv'
    <3>1. loop = "written" => \E i \in DOMAIN file' : file'[i] = Served
      BY <1>1, <1>5, FileGrows DEF WalInv, LoopInv
    <3> QED
      BY <1>3, <3>1 DEF WalInv, LoopInv, Served
  <2>3. ASSUME NEW c \in Call, call'[c] = "ok"
        PROVE  \/ call[c] = "ok" /\ ack'[c] = ack[c]
               \/ r = [pos |-> ack'[c], of |-> c, whole |-> TRUE]
    BY <1>1, <1>5, <2>3 DEF WalInv, LogTypeOK
  <2> QED
    BY <1>1, <1>2, <1>5, <2>1, <2>2, <2>3, DamageKeeps
<1> QED
  BY <1>4, <1>5 DEF OrphanWrite

LEMMA FailKeeps == WalInv /\ WriteFileFails => WalInv'
<1> SUFFICES ASSUME WalInv, WriteFileFails PROVE WalInv'
  OBVIOUS
<1>0. /\ loop = "begun" /\ loop' = "failed"
      /\ UNCHANGED <<status, current, queue, writing, orphan, call, ack>>
  BY DEF WriteFileFails
<1>1. CASE UNCHANGED <<file, damaged>>
  <2>1. LogTypeOK' /\ LoopInv' /\ IntactInv'
    BY <1>0, <1>1 DEF WalInv, LogTypeOK, LoopInv, IntactInv, Top
  <2> QED
    BY <1>0, <1>1, <2>1 DEF WalInv, LogInOrder, CurrentCoversAcks, AckedIsLogged
<1>2. CASE Torn
  <2> PICK r \in Numbered : file' = Append(file, r) /\ damaged' = TRUE
    BY <1>2, TornFacts
  <2>1. LogTypeOK'
    BY <1>0, FileGrows DEF WalInv, LogTypeOK
  <2>2. LoopInv'
    BY <1>0 DEF WalInv, LoopInv
  <2> QED
    BY <1>0, <2>1, <2>2, DamageKeeps
<1> QED
  BY <1>1, <1>2 DEF WriteFileFails

LEMMA WriteFileKeeps == WalInv /\ WriteFile => WalInv'
<1> SUFFICES ASSUME WalInv, WriteFile PROVE WalInv'
  OBVIOUS
<1>0. /\ loop = "begun" /\ loop' = "written" /\ file' = Append(file, Served)
      /\ UNCHANGED <<status, current, queue, writing, orphan, call, ack, damaged>>
  BY DEF WriteFile, Served
<1>1. /\ writing.of \in Call /\ writing.pos = current + 1 /\ current \in Nat
      /\ status \in {"open", "shut"} /\ Served \in Numbered
      /\ Served.pos = current + 1 /\ Served.whole = TRUE
  BY <1>0 DEF WalInv, LogTypeOK, LoopInv, Served, Numbered
<1>2. /\ file' \in Seq(Numbered)
      /\ DOMAIN file' = DOMAIN file \cup {Len(file) + 1}
      /\ \A i \in DOMAIN file : i \in Nat /\ i < Len(file) + 1 /\ file'[i] = file[i]
      /\ Len(file) + 1 \in Nat /\ file'[Len(file) + 1] = Served
      /\ \A x : (\E i \in DOMAIN file : file[i] = x) => \E i \in DOMAIN file' : file'[i] = x
  BY <1>0, <1>1, FileGrows
<1>3. \A i \in DOMAIN file : file[i].pos \in Nat
  <2>1. file \in Seq(Numbered)
    BY DEF WalInv, LogTypeOK
  <2>2. \A i \in DOMAIN file : file[i] \in Numbered
    BY <2>1
  <2> QED
    BY <2>2 DEF Numbered
<1>4. ~damaged => /\ \A i \in DOMAIN file : file[i].pos <= current /\ file[i].whole
                  /\ \A i, j \in DOMAIN file : i < j => file[i].pos < file[j].pos
                  /\ orphan = {}
  BY <1>0, <1>1 DEF WalInv, IntactInv, Top, LogInOrder
<1>5. LogTypeOK'
  BY <1>0, <1>2 DEF WalInv, LogTypeOK
<1>6. LoopInv'
  <2>1. Served' = Served
    BY <1>0 DEF Served
  <2> QED
    BY <1>0, <1>1, <1>2, <2>1 DEF WalInv, LoopInv
<1>7. IntactInv'
  BY <1>0, <1>1, <1>2, <1>3, <1>4 DEF IntactInv, Top
<1>8. LogInOrder'
  <2> SUFFICES ASSUME ~damaged, NEW i \in DOMAIN file', NEW j \in DOMAIN file', i < j
               PROVE  file'[i].pos < file'[j].pos
    BY <1>0 DEF LogInOrder
  <2>1. i \in DOMAIN file
    BY <1>2
  <2> QED
    BY <1>1, <1>2, <1>3, <1>4, <2>1
<1>9. CurrentCoversAcks' /\ AckedIsLogged'
  BY <1>0, <1>2 DEF WalInv, CurrentCoversAcks, AckedIsLogged
<1> QED
  BY <1>5, <1>6, <1>7, <1>8, <1>9 DEF WalInv

LEMMA CommitKeeps == WalInv /\ Commit => WalInv'
<1> SUFFICES ASSUME WalInv, Commit PROVE WalInv'
  OBVIOUS
<1>0. /\ loop = "written" /\ loop' = "idle" /\ current' = writing.pos /\ writing' = Nothing
      /\ call' = [call EXCEPT ![writing.of] = "ok"]
      /\ ack' = [ack EXCEPT ![writing.of] = writing.pos]
      /\ UNCHANGED <<file, status, queue, orphan, damaged>>
  BY DEF Commit
<1>1. /\ writing.of \in Call /\ writing.pos = current + 1 /\ current \in Nat
      /\ status \in {"open", "shut"} /\ \E i \in DOMAIN file : file[i] = Served
      /\ call \in [Call -> {"new", "waiting", "ok", "error", "lost"}] /\ ack \in [Call -> Nat]
  BY <1>0 DEF WalInv, LogTypeOK, LoopInv
<1>2. LogTypeOK' /\ LoopInv'
  BY <1>0, <1>1 DEF WalInv, LogTypeOK, LoopInv, Nothing
<1>3. IntactInv' /\ LogInOrder'
  BY <1>0 DEF WalInv, IntactInv, Top, LogInOrder
<1>4. CurrentCoversAcks'
  <2>1. ~damaged => \A c \in Call : call[c] = "ok" => ack[c] <= current
    BY <1>1 DEF WalInv, CurrentCoversAcks
  <2>2. ~damaged => \A c \in Call : call'[c] = "ok" => ack'[c] <= current + 1
    BY <1>0, <1>1, <2>1
  <2> QED
    BY <1>0, <1>1, <2>2 DEF CurrentCoversAcks
<1>5. AckedIsLogged'
  <2> SUFFICES ASSUME NEW c \in Call, call'[c] = "ok"
               PROVE  \E i \in DOMAIN file : file[i] = [pos |-> ack'[c], of |-> c, whole |-> TRUE]
    BY <1>0 DEF AckedIsLogged
  <2>1. CASE c = writing.of
    BY <1>0, <1>1, <2>1 DEF Served
  <2>2. CASE c # writing.of
    BY <1>0, <1>1, <2>2 DEF WalInv, AckedIsLogged
  <2> QED
    BY <2>1, <2>2
<1> QED
  BY <1>2, <1>3, <1>4, <1>5 DEF WalInv

\* Types and the bookkeeping of WriteLoop and the files, through restarts, torn writes
\* and Wals opened while another one writes.
THEOREM WalInvariant == Spec => []WalInv
<1>1. WalInv /\ [Next]_vars => WalInv'
  BY StartupKeeps, QuietKeeps, CrashKeeps, ReopenKeeps, OrphanKeeps, FailKeeps, WriteFileKeeps,
     CommitKeeps DEF Next, WriteLoop
<1> QED
  BY <1>1, WalInitInv, PTL DEF Spec

\* WriteLoop numbers the records in the order of the file, over restarts too, as long as
\* no write is torn and no Wal is opened while another one writes.
THEOREM RecordsAreInOrder == Spec => []LogInOrder
<1>1. WalInv => LogInOrder
  BY DEF WalInv
<1> QED
  BY <1>1, WalInvariant, PTL

\* CurrentPosition covers every position a Write has returned, before and after Startup
\* has read it back, under the same condition.
THEOREM PositionCovers == Spec => []CurrentCoversAcks
<1>1. WalInv => CurrentCoversAcks
  BY DEF WalInv
<1> QED
  BY <1>1, WalInvariant, PTL

\* A Write that returned a position has its record at it, whatever fails.
THEOREM AckedIsDurable == Spec => []AckedIsLogged
<1>1. WalInv => AckedIsLogged
  BY DEF WalInv
<1> QED
  BY <1>1, WalInvariant, PTL

-----------------------------------------------------------------------------
(* Where each call of Write is.                                             *)

\* The calls in writeQueue, and those that earlier Wals still serve.
Queued == Range(queue)
Orphaned == {r.of : r \in orphan}

\* A call waits in one place only.
PlaceInv ==
    /\ \A i, j \in DOMAIN queue : queue[i] = queue[j] => i = j
    /\ \A r, q \in orphan : r.of = q.of => r = q
    /\ Queued \cap Orphaned = {} /\ writing.of \notin Queued \cup Orphaned
    /\ \A c \in Call : call[c] = "waiting" <=> c \in Queued \cup Orphaned \cup {writing.of}

\* What is in the file is of a call that was made, and of one that still waits only
\* if WriteLoop is about to answer it.
AnsweredInv ==
    \A i \in DOMAIN file :
        /\ call[file[i].of] # "new"
        /\ call[file[i].of] = "waiting" => /\ file[i].of = writing.of
                                           /\ loop \in {"written", "failed"}

\* No Write is in the file twice, in part or as a whole, after errors and restarts.
WrittenOnce == \A i, j \in DOMAIN file : file[i].of = file[j].of => i = j

OnceInv == PlaceInv /\ AnsweredInv /\ WrittenOnce

LEMMA QueueAppended ==
    ASSUME NEW q \in Seq(Call), NEW c \in Call, c \notin Range(q),
           \A i, j \in DOMAIN q : q[i] = q[j] => i = j
    PROVE  /\ Range(Append(q, c)) = Range(q) \cup {c}
           /\ \A i, j \in DOMAIN Append(q, c) : Append(q, c)[i] = Append(q, c)[j] => i = j
<1>1. /\ DOMAIN Append(q, c) = DOMAIN q \cup {Len(q) + 1}
      /\ \A i \in DOMAIN q : i < Len(q) + 1 /\ Append(q, c)[i] = q[i]
      /\ Append(q, c)[Len(q) + 1] = c
  BY AppendFacts
<1>2. \A i \in DOMAIN q : q[i] # c
  BY DEF Range
<1> QED
  BY <1>1, <1>2 DEF Range

LEMMA QueueTaken ==
    ASSUME NEW q \in Seq(Call), q # <<>>, \A i, j \in DOMAIN q : q[i] = q[j] => i = j
    PROVE  /\ Range(q) = Range(Tail(q)) \cup {Head(q)} /\ Head(q) \notin Range(Tail(q))
           /\ \A i, j \in DOMAIN Tail(q) : Tail(q)[i] = Tail(q)[j] => i = j
<1>1. /\ Len(q) \in Nat \ {0} /\ DOMAIN q = 1 .. Len(q) /\ Head(q) = q[1]
      /\ DOMAIN Tail(q) = 1 .. (Len(q) - 1)
      /\ \A i \in 1 .. (Len(q) - 1) : Tail(q)[i] = q[i + 1]
  BY EmptySeq
<1>2. \A i \in DOMAIN Tail(q) : i \in Nat /\ i + 1 \in DOMAIN q /\ i + 1 # 1 /\ Tail(q)[i] = q[i + 1]
  BY <1>1
<1>3. \A i \in DOMAIN q : i = 1 \/ (i - 1 \in DOMAIN Tail(q) /\ (i - 1) + 1 = i)
  BY <1>1
<1>4. \A i \in DOMAIN q : i = 1 \/ (i - 1 \in DOMAIN Tail(q) /\ Tail(q)[i - 1] = q[i])
  BY <1>2, <1>3
<1>5. 1 \in DOMAIN q
  BY <1>1
<1>6. Range(q) \subseteq Range(Tail(q)) \cup {Head(q)}
  BY <1>1, <1>4 DEF Range
<1>7. Range(Tail(q)) \cup {Head(q)} \subseteq Range(q)
  BY <1>1, <1>2, <1>5 DEF Range
<1>8. Head(q) \notin Range(Tail(q))
  BY <1>1, <1>2, <1>5 DEF Range
<1>9. ASSUME NEW i \in DOMAIN Tail(q), NEW j \in DOMAIN Tail(q), Tail(q)[i] = Tail(q)[j]
      PROVE  i = j
  <2>1. i + 1 = j + 1
    BY <1>2, <1>9
  <2> QED
    BY <1>2, <2>1
<1> QED
  BY <1>6, <1>7, <1>8, <1>9

LEMMA OnceInit == Init => OnceInv
<1> SUFFICES ASSUME Init PROVE OnceInv
  OBVIOUS
<1>1. Range(<<>>) = {} /\ DOMAIN <<>> = {}
  BY DEF Range
<1>2. None \notin Call
  BY CallAssumption
<1> QED
  BY <1>1, <1>2 DEF Init, Nothing, OnceInv, PlaceInv, AnsweredInv, WrittenOnce, Queued, Orphaned

\* The file gets the record of a call that waited and had none.
LEMMA GrowsOnce ==
    ASSUME WalInv, AnsweredInv, WrittenOnce, NEW r \in Numbered, file' = Append(file, r),
           \A i \in DOMAIN file : file[i].of # r.of,
           call'[r.of] # "new",
           call'[r.of] = "waiting" => r.of = writing'.of /\ loop' \in {"written", "failed"},
           \A c \in Call : c # r.of =>
              \/ call'[c] = call[c] /\ (call[c] = "waiting" /\ c = writing.of =>
                                            writing' = writing /\ loop' \in {"written", "failed"})
              \/ call[c] = "waiting" /\ call'[c] \notin {"new", "waiting"}
    PROVE  AnsweredInv' /\ WrittenOnce'
<1>1. /\ DOMAIN file' = DOMAIN file \cup {Len(file) + 1}
      /\ \A i \in DOMAIN file : file'[i] = file[i]
      /\ file'[Len(file) + 1] = r
  BY FileGrows
<1>2. \A i \in DOMAIN file : file[i].of \in Call
  <2>1. file \in Seq(Numbered)
    BY DEF WalInv, LogTypeOK
  <2>2. \A i \in DOMAIN file : file[i] \in Numbered
    BY <2>1
  <2> QED
    BY <2>2 DEF Numbered
<1>3. WrittenOnce'
  BY <1>1 DEF WrittenOnce
<1>4. AnsweredInv'
  BY <1>1, <1>2 DEF AnsweredInv
<1> QED
  BY <1>3, <1>4

\* The steps that leave the file alone: its records' calls are answered or go on
\* waiting where they were.
LEMMA StaysOnce ==
    ASSUME WalInv, AnsweredInv, WrittenOnce, UNCHANGED file,
           \A c \in Call :
              \/ call'[c] = call[c] /\ (call[c] = "waiting" /\ c = writing.of /\ loop \in {"written", "failed"}
                                            => writing' = writing /\ loop' \in {"written", "failed"})
              \/ call'[c] \notin {"new", "waiting"}
              \/ call[c] = "new"
    PROVE  AnsweredInv' /\ WrittenOnce'
<1>1. \A i \in DOMAIN file : file[i].of \in Call
  <2>1. file \in Seq(Numbered)
    BY DEF WalInv, LogTypeOK
  <2>2. \A i \in DOMAIN file : file[i] \in Numbered
    BY <2>1
  <2> QED
    BY <2>2 DEF Numbered
<1> QED
  BY <1>1 DEF AnsweredInv, WrittenOnce

\* A call that is begun, or that an earlier Wal serves, has nothing in the file yet.
LEMMA NotYet ==
    ASSUME AnsweredInv, NEW c, call[c] = "waiting", c # writing.of \/ loop = "begun"
    PROVE  \A i \in DOMAIN file : file[i].of # c
  BY DEF AnsweredInv

LEMMA WriteOnce == ASSUME WalInv, OnceInv, NEW c \in Call, Write(c) PROVE OnceInv'
<1> USE DEF OnceInv, PlaceInv
<1>1. /\ call[c] = "new" /\ queue' = Append(queue, c) /\ call' = [call EXCEPT ![c] = "waiting"]
      /\ UNCHANGED <<file, loop, writing, orphan>>
  BY DEF Write
<1>2. queue \in Seq(Call) /\ call \in [Call -> {"new", "waiting", "ok", "error", "lost"}]
  BY DEF WalInv, LogTypeOK
<1>3. c \notin Queued \cup Orphaned \cup {writing.of}
  BY <1>1
<1>4. Queued' = Queued \cup {c} /\ \A i, j \in DOMAIN queue' : queue'[i] = queue'[j] => i = j
  BY <1>1, <1>2, <1>3, QueueAppended DEF Queued
<1>5. Orphaned' = Orphaned
  BY <1>1 DEF Orphaned
<1>6. PlaceInv'
  BY <1>1, <1>2, <1>3, <1>4, <1>5
<1>7. AnsweredInv' /\ WrittenOnce'
  BY <1>1, <1>2, StaysOnce
<1> QED
  BY <1>6, <1>7

LEMMA BeginOnce == WalInv /\ OnceInv /\ Begin => OnceInv'
<1> SUFFICES ASSUME WalInv, OnceInv, Begin PROVE OnceInv'
  OBVIOUS
<1> USE DEF OnceInv, PlaceInv
<1>1. /\ loop = "idle" /\ queue # <<>> /\ queue' = Tail(queue) /\ writing'.of = Head(queue)
      /\ UNCHANGED <<file, orphan, call>>
  BY DEF Begin
<1>2. queue \in Seq(Call) /\ writing = Nothing
  BY <1>1 DEF WalInv, LogTypeOK, LoopInv
<1>3. /\ Queued = Queued' \cup {Head(queue)} /\ Head(queue) \notin Queued'
      /\ \A i, j \in DOMAIN queue' : queue'[i] = queue'[j] => i = j
  BY <1>1, <1>2, QueueTaken DEF Queued
<1>4. Orphaned' = Orphaned
  BY <1>1 DEF Orphaned
<1>5. \A c \in Call : c # writing.of
  BY <1>2, CallAssumption DEF Nothing
<1>6. PlaceInv'
  BY <1>1, <1>3, <1>4, <1>5
<1>7. AnsweredInv' /\ WrittenOnce'
  BY <1>1, <1>5, StaysOnce
<1> QED
  BY <1>6, <1>7

LEMMA AnswerOnce == WalInv /\ OnceInv /\ (Commit \/ AnswerError) => OnceInv'
<1> SUFFICES ASSUME WalInv, OnceInv, Commit \/ AnswerError PROVE OnceInv'
  OBVIOUS
<1> USE DEF OnceInv, PlaceInv
<1>1. /\ loop # "idle" /\ writing' = Nothing /\ UNCHANGED <<file, queue, orphan>>
      /\ \E answer \in {"ok", "error"} : call' = [call EXCEPT ![writing.of] = answer]
  BY DEF Commit, AnswerError
<1>2. writing.of \in Call /\ call \in [Call -> {"new", "waiting", "ok", "error", "lost"}]
  BY <1>1 DEF WalInv, LogTypeOK, LoopInv
<1>3. \A c \in Call : c # writing'.of
  BY <1>1, CallAssumption DEF Nothing
<1>4. Queued' = Queued /\ Orphaned' = Orphaned /\ Queued \subseteq Call /\ Orphaned \subseteq Call
  BY <1>1 DEF Queued, Orphaned, Range, WalInv, LogTypeOK, Numbered
<1>5. PlaceInv'
  BY <1>1, <1>2, <1>3, <1>4, CallAssumption DEF Nothing
<1>6. AnsweredInv' /\ WrittenOnce'
  BY <1>1, <1>2, StaysOnce
<1> QED
  BY <1>5, <1>6

\* The file's Write, whatever comes of it.
LEMMA FileOnce == WalInv /\ OnceInv /\ (WriteFile \/ WriteFileFails) => OnceInv'
<1> SUFFICES ASSUME WalInv, OnceInv, WriteFile \/ WriteFileFails PROVE OnceInv'
  OBVIOUS
<1> USE DEF OnceInv, PlaceInv
<1>1. /\ loop = "begun" /\ loop' \in {"written", "failed"}
      /\ UNCHANGED <<queue, writing, orphan, call>>
  BY DEF WriteFile, WriteFileFails
<1>2. writing.of \in Call /\ writing.pos \in Nat /\ call[writing.of] = "waiting"
  BY <1>1 DEF WalInv, LogTypeOK, LoopInv
<1>3. PlaceInv'
  BY <1>1 DEF Queued, Orphaned
<1>4. CASE UNCHANGED file
  <2>1. AnsweredInv' /\ WrittenOnce'
    BY <1>1, <1>4, StaysOnce
  <2> QED
    BY <1>3, <2>1
<1>5. CASE \E whole \in BOOLEAN :
              file' = Append(file, [pos |-> writing.pos, of |-> writing.of, whole |-> whole])
  <2>1. PICK r \in Numbered : file' = Append(file, r) /\ r.of = writing.of
    <3> PICK whole \in BOOLEAN :
              file' = Append(file, [pos |-> writing.pos, of |-> writing.of, whole |-> whole])
      BY <1>5
    <3>1. [pos |-> writing.pos, of |-> writing.of, whole |-> whole] \in Numbered
      BY <1>2 DEF Numbered
    <3> QED
      BY <3>1
  <2>2. \A i \in DOMAIN file : file[i].of # r.of
    BY <1>1, <1>2, <2>1, NotYet
  <2>3. AnsweredInv' /\ WrittenOnce'
    BY <1>1, <1>2, <2>1, <2>2, GrowsOnce
  <2> QED
    BY <1>3, <2>3
<1> QED
  BY <1>4, <1>5 DEF WriteFile, WriteFileFails, Torn

LEMMA OrphanOnce == WalInv /\ OnceInv /\ (\E r \in orphan : OrphanWrite(r)) => OnceInv'
<1> SUFFICES ASSUME WalInv, OnceInv, NEW r \in orphan, OrphanWrite(r) PROVE OnceInv'
  OBVIOUS
<1> USE DEF OnceInv, PlaceInv
<1>1. orphan' = orphan \ {r} /\ UNCHANGED <<queue, loop, writing>>
  BY DEF OrphanWrite
<1>2. /\ r \in Numbered /\ r.of \in Call /\ call[r.of] = "waiting" /\ r.of # writing.of
      /\ call \in [Call -> {"new", "waiting", "ok", "error", "lost"}]
  BY DEF WalInv, LogTypeOK, Numbered, Orphaned
<1>3. PICK answer \in {"ok", "error"} : call' = [call EXCEPT ![r.of] = answer]
  BY DEF OrphanWrite
<1>4. Queued' = Queued /\ Orphaned' = Orphaned \ {r.of}
  BY <1>1 DEF Queued, Orphaned
<1>5. PlaceInv'
  BY <1>1, <1>2, <1>3, <1>4 DEF Orphaned
<1>6. CASE UNCHANGED file
  <2>1. AnsweredInv' /\ WrittenOnce'
    BY <1>1, <1>2, <1>3, <1>6, StaysOnce
  <2> QED
    BY <1>5, <2>1
<1>7. CASE file' = Append(file, r)
  <2>1. \A i \in DOMAIN file : file[i].of # r.of
    BY <1>2, NotYet
  <2>2. AnsweredInv' /\ WrittenOnce'
    <3>1. \A i \in DOMAIN file : file[i].of \in Call
      <4>1. file \in Seq(Numbered)
        BY DEF WalInv, LogTypeOK
      <4>2. \A i \in DOMAIN file : file[i] \in Numbered
        BY <4>1
      <4> QED
        BY <4>2 DEF Numbered
    <3>2. /\ DOMAIN file' = DOMAIN file \cup {Len(file) + 1}
          /\ \A i \in DOMAIN file : file'[i] = file[i]
          /\ file'[Len(file) + 1] = r
      BY <1>2, <1>7, FileGrows
    <3>3. WrittenOnce'
      BY <2>1, <3>2 DEF WrittenOnce
    <3>4. AnsweredInv'
      BY <1>1, <1>2, <1>3, <2>1, <3>1, <3>2 DEF AnsweredInv
    <3> QED
      BY <3>3, <3>4
  <2> QED
    BY <1>5, <2>2
<1> QED
  BY <1>6, <1>7 DEF OrphanWrite

LEMMA ReopenOnce == WalInv /\ OnceInv /\ Reopen => OnceInv'
<1> SUFFICES ASSUME WalInv, OnceInv, Reopen PROVE OnceInv'
  OBVIOUS
<1> USE DEF OnceInv, PlaceInv
<1>1. /\ queue' = <<>> /\ writing' = Nothing /\ loop \in {"idle", "begun"} /\ UNCHANGED file
      /\ orphan' = orphan \cup {[pos |-> writing.pos, of |-> c, whole |-> TRUE] : c \in {writing.of} \cap Call}
      /\ call' = [c \in Call |-> IF c \in Queued THEN "error" ELSE call[c]]
  BY DEF Reopen, Queued
<1>2. Queued' = {}
  BY <1>1 DEF Queued, Range
<1> DEFINE last == [pos |-> writing.pos, of |-> writing.of, whole |-> TRUE]
<1>3. last.of = writing.of
  OBVIOUS
<1>4. orphan' = orphan \cup (IF writing.of \in Call THEN {last} ELSE {})
  BY <1>1
<1> HIDE DEF last
<1>5. Orphaned' = Orphaned \cup ({writing.of} \cap Call)
  BY <1>3, <1>4 DEF Orphaned
<1>6. \A r, q \in orphan' : r.of = q.of => r = q
  BY <1>3, <1>4 DEF Orphaned
<1>7. Orphaned' \subseteq Call /\ None \notin Call
  <2>1. \A r \in orphan : r.of \in Call
    BY DEF WalInv, LogTypeOK, Numbered
  <2>2. Orphaned \subseteq Call
    BY <2>1 DEF Orphaned
  <2> HIDE DEF OnceInv, PlaceInv
  <2> QED
    BY <1>5, <2>2, CallAssumption
<1>8. \A c \in Call : call'[c] = "waiting" <=> c \in Orphaned'
  BY <1>1, <1>5
<1>9. PlaceInv'
  BY <1>1, <1>2, <1>6, <1>7, <1>8 DEF Nothing
<1>10. AnsweredInv' /\ WrittenOnce'
  BY <1>1, StaysOnce
<1> QED
  BY <1>9, <1>10

LEMMA CrashOnce == WalInv /\ OnceInv /\ Crash => OnceInv'
<1> SUFFICES ASSUME WalInv, OnceInv, Crash PROVE OnceInv'
  OBVIOUS
<1> USE DEF OnceInv, PlaceInv
<1>1. /\ queue' = <<>> /\ writing' = Nothing /\ orphan' = {}
      /\ call' = [c \in Call |-> IF call[c] = "waiting" THEN "lost" ELSE call[c]]
  BY DEF Crash
<1>2. Queued' = {} /\ Orphaned' = {}
  BY <1>1 DEF Queued, Orphaned, Range
<1>3. PlaceInv'
  BY <1>1, <1>2, CallAssumption DEF Nothing
<1>4. CASE UNCHANGED file
  <2>1. AnsweredInv' /\ WrittenOnce'
    BY <1>1, <1>4, StaysOnce
  <2> QED
    BY <1>3, <2>1
<1>5. CASE Torn
  <2>1. loop = "begun" /\ writing.of \in Call /\ writing.pos \in Nat
    BY <1>5 DEF Torn, WalInv, LogTypeOK, LoopInv
  <2>2. PICK r \in Numbered : file' = Append(file, r) /\ r.of = writing.of
    <3>1. [pos |-> writing.pos, of |-> writing.of, whole |-> FALSE] \in Numbered
      BY <2>1 DEF Numbered
    <3> QED
      BY <1>5, <3>1 DEF Torn
  <2>3. call[writing.of] = "waiting"
    BY <2>1
  <2>4. \A i \in DOMAIN file : file[i].of # r.of
    BY <2>1, <2>2, <2>3, NotYet
  <2>5. call'[r.of] = "lost"
    BY <1>1, <2>1, <2>2, <2>3
  <2>6. \A c \in Call : \/ call'[c] = call[c] /\ call[c] # "waiting"
                        \/ call[c] = "waiting" /\ call'[c] = "lost"
    BY <1>1
  <2>7. AnsweredInv' /\ WrittenOnce'
    BY <2>2, <2>4, <2>5, <2>6, GrowsOnce
  <2> QED
    BY <1>3, <2>7
<1> QED
  BY <1>4, <1>5 DEF Crash

LEMMA StillOnce == WalInv /\ OnceInv /\ (Startup \/ Shutdown \/ UNCHANGED vars) => OnceInv'
<1> SUFFICES ASSUME WalInv, OnceInv, Startup \/ Shutdown \/ UNCHANGED vars PROVE OnceInv'
  OBVIOUS
<1>1. UNCHANGED <<file, queue, loop, writing, orphan, call>>
  BY DEF Startup, Shutdown, vars
<1> QED
  BY <1>1 DEF OnceInv, PlaceInv, AnsweredInv, WrittenOnce, Queued, Orphaned

\* A call of Write is in one place at a time, in the queue, with WriteLoop or with an
\* earlier Wal's, and each Write reaches the file at most once: nothing that fails, is
\* torn or restarted makes the code append a record again.
THEOREM NothingTwice == Spec => []WrittenOnce
<1>1. WalInv /\ OnceInv /\ [Next]_vars => OnceInv'
  BY WriteOnce, BeginOnce, AnswerOnce, FileOnce, OrphanOnce, ReopenOnce, CrashOnce, StillOnce
     DEF Next, WriteLoop
<1>2. OnceInv => WrittenOnce
  BY DEF OnceInv
<1> QED
  BY <1>1, <1>2, OnceInit, WalInvariant, PTL DEF Spec
=============================================================================
