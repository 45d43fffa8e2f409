------------------------ MODULE ConfigReplicaProofs ------------------------
(***************************************************************************)
(* Theorems about a server of the configurations: ConfigStore (the table   *)
(* and its writers), DataPump (the goroutines that follow it) and          *)
(* ConfigReplica (the process that serves what they deliver), each on what *)
(* is proved of the one before.  They hold for any number of rows, writers *)
(* and starts, any sizes of pages and batches, and any interleaving, with  *)
(* all the faults of the models.                                           *)
(***************************************************************************)
EXTENDS ConfigReplica, FiniteSetTheorems, TLAPS

-----------------------------------------------------------------------------
(* Part 1.  ConfigStore.                                                   *)
-----------------------------------------------------------------------------
\* The transaction about to commit holds the advisory lock and the last number
\* drawn; nobody else can hold the lock.
HolderInv ==
    /\ \A w \in Writer : tx[w].pc = "commit" => lock = w /\ tx[w].row.seq = cfgSeq
    /\ lock # Nobody => tx[lock].pc = "commit"

\* The numbers drawn so far; the last one is not committed while the lock is held.
CeilingInv ==
    \A k \in Key :
        /\ table[k].seq <= cfgSeq
        /\ lock # Nobody => table[k].seq < cfgSeq

\* An update or commit is about a row that exists or that the call inserted.
RowInv ==
    \A w \in Writer :
        /\ tx[w].fresh => tx[w].pc \in {"update", "commit"}
        /\ tx[w].pc \in {"update", "commit"} => tx[w].fresh \/ Exists(tx[w].key)
        /\ tx[w].pc \in {"insert", "update"} => tx[w].op = "save"
        /\ tx[w].pc = "commit" => tx[w].row.seq > 0

StoreInv ==
    /\ StoreTypeOK
    /\ HolderInv
    /\ CeilingInv
    /\ RowInv
    /\ SequencesDistinct
    /\ OneFreshInsert

LEMMA StoreInitInv == StoreInit => StoreInv
<1> SUFFICES ASSUME StoreInit PROVE StoreInv
  OBVIOUS
<1>1. PICK k \in Key : tx = [w \in Writer |-> Ended(k, "none")]
  BY DEF StoreInit
<1>2. NoRow \in Row /\ NoRow.seq = 0
  BY DEF NoRow, Row, Valid, Deleted
<1>3. Ended(k, "none") \in Call
  BY <1>2 DEF Ended, Call
<1>4. \A w \in Writer : tx[w].pc = "idle" /\ ~tx[w].fresh
  BY <1>1 DEF Ended
<1>5. \A j \in Key : table[j].seq = 0
  BY <1>2 DEF StoreInit
<1>6. StoreTypeOK
  BY <1>1, <1>2, <1>3 DEF StoreInit, StoreTypeOK
<1> QED
  BY <1>4, <1>5, <1>6
     DEF StoreInit, StoreInv, HolderInv, CeilingInv, RowInv, SequencesDistinct,
         OneFreshInsert, Exists

-----------------------------------------------------------------------------
\* One lemma per conjunct that needs an argument: type correctness first.
LEMMA StoreTypeStep == StoreInv /\ [StoreNext]_storeVars => StoreTypeOK'
<1> SUFFICES ASSUME StoreInv, [StoreNext]_storeVars PROVE StoreTypeOK'
  OBVIOUS
<1> USE DEF StoreInv
<1>0. NoRow \in Row
  BY DEF NoRow, Row, Valid, Deleted
<1>1. \A k \in Key, a \in {"none", "ok", "notFound", "error"} : Ended(k, a) \in Call
  BY <1>0 DEF Ended, Call
<1>2. \A w \in Writer, a \in {"ok", "notFound", "error"} :
        Return(w, a) => /\ tx' \in [Writer -> Call]
                        /\ lock' \in Writer \cup {Nobody}
  <2> SUFFICES ASSUME NEW w \in Writer, NEW a \in {"ok", "notFound", "error"}, Return(w, a)
               PROVE  tx' \in [Writer -> Call] /\ lock' \in Writer \cup {Nobody}
    OBVIOUS
  <2>1. tx[w].key \in Key
    BY DEF StoreTypeOK, Call
  <2> QED
    BY <1>1, <2>1 DEF Return, StoreTypeOK
<1>3. CASE UNCHANGED storeVars
  BY <1>3 DEF storeVars, StoreTypeOK
<1>4. ASSUME NEW w \in Writer, WriterStep(w) PROVE StoreTypeOK'
  <2>1. CASE \E k \in Key, v \in Version : SaveLookup(w, k, v)
    BY <2>1, <1>0 DEF SaveLookup, StoreTypeOK, Call
  <2>2. CASE SaveInsert(w)
    <3>1. CASE Exists(tx[w].key)
      BY <2>2, <3>1, <1>2 DEF SaveInsert, StoreTypeOK
    <3>2. CASE ~Exists(tx[w].key)
      BY <2>2, <3>2 DEF SaveInsert, StoreTypeOK, Call
    <3> QED
      BY <3>1, <3>2
  <2>3. CASE SaveUpdate(w)
    <3>1. tx[w].key \in Key /\ tx[w].ver \in Version \cup {NoVersion}
      BY DEF StoreTypeOK, Call
    <3>2. UpdatedRow(w) \in Row
      BY <3>1 DEF UpdatedRow, StoreTypeOK, Row, Valid, Deleted
    <3>3. [tx[w] EXCEPT !.pc = "commit", !.row = UpdatedRow(w)] \in Call
      BY <3>2 DEF StoreTypeOK, Call
    <3>4. tx' \in [Writer -> Call]
      BY <2>3, <3>3 DEF SaveUpdate, StoreTypeOK
    <3> QED
      BY <2>3, <3>4 DEF SaveUpdate, StoreTypeOK
  <2>4. CASE SaveBusy(w)
    <3>1. CASE tx[w].tries + 1 < NRetry
      BY <2>4, <3>1 DEF SaveBusy, StoreTypeOK, Call
    <3>2. CASE ~(tx[w].tries + 1 < NRetry)
      BY <2>4, <3>2, <1>2 DEF SaveBusy, StoreTypeOK
    <3> QED
      BY <3>1, <3>2
  <2>5. CASE \E k \in Key : Delete(w, k)
    <3> PICK k \in Key : Delete(w, k)
      BY <2>5
    <3> DEFINE r == [ver |-> table[k].ver, status |-> Deleted, seq |-> cfgSeq + 1]
    <3>1. r \in Row /\ table[k].ver \in Version \cup {NoVersion}
      BY DEF StoreTypeOK, Row, Valid, Deleted
    <3>2. tx' = [tx EXCEPT ![w] = [pc |-> "commit", op |-> "delete", key |-> k,
                                   ver |-> table[k].ver, fresh |-> FALSE, tries |-> 0,
                                   row |-> r, out |-> "none"]]
      BY DEF Delete
    <3> HIDE DEF r
    <3>3. tx' \in [Writer -> Call]
      BY <3>1, <3>2 DEF StoreTypeOK, Call
    <3> QED
      BY <3>3 DEF Delete, StoreTypeOK
  <2>6. CASE \E k \in Key : DeleteNothing(w, k)
    BY <2>6, <1>1 DEF DeleteNothing, StoreTypeOK
  <2>7. CASE Commit(w)
    <3>1. tx[w].row \in Row
      BY DEF StoreTypeOK, Call
    <3> QED
      BY <2>7, <3>1, <1>2 DEF Commit, StoreTypeOK
  <2>8. CASE Abort(w)
    BY <2>8, <1>2 DEF Abort, StoreTypeOK
  <2> QED
    BY <1>4, <2>1, <2>2, <2>3, <2>4, <2>5, <2>6, <2>7, <2>8 DEF WriterStep, saveConfiguration,
       deleteConfiguration
<1> QED
  BY <1>3, <1>4 DEF StoreNext
-----------------------------------------------------------------------------
\* The rest of the invariant.
Rest == HolderInv /\ CeilingInv /\ RowInv /\ SequencesDistinct /\ OneFreshInsert

\* The step of call w leaves the other calls alone.
OthersKept(w) == \A x \in Writer \ {w} : tx'[x] = tx[x]

\* A call that ends without a commit gives its placeholder and its lock back.
LEMMA EndKeepsRest ==
    ASSUME StoreInv, NEW w \in Writer, OthersKept(w), tx'[w].pc = "idle", ~tx'[w].fresh,
           UNCHANGED <<table, cfgSeq>>, lock' = IF lock = w THEN Nobody ELSE lock
    PROVE  Rest'
<1> USE DEF StoreInv, OthersKept
<1>1. HolderInv'
  BY NobodyAssumption DEF HolderInv, StoreTypeOK
<1>2. CeilingInv'
  BY DEF CeilingInv
<1>3. RowInv'
  BY DEF RowInv, Exists
<1>4. SequencesDistinct'
  BY DEF SequencesDistinct, Exists
<1>5. OneFreshInsert'
  BY DEF OneFreshInsert, Exists
<1> QED
  BY <1>1, <1>2, <1>3, <1>4, <1>5 DEF Rest

LEMMA ReturnEnds ==
    ASSUME StoreInv, NEW w \in Writer, NEW a, Return(w, a)
    PROVE  /\ OthersKept(w) /\ tx'[w].pc = "idle" /\ ~tx'[w].fresh /\ tx'[w].out = a
           /\ lock' = IF lock = w THEN Nobody ELSE lock
  BY DEF StoreInv, StoreTypeOK, Return, Ended, OthersKept

LEMMA StoreInvStep == StoreInv /\ [StoreNext]_storeVars => StoreInv'
<1> SUFFICES ASSUME StoreInv, [StoreNext]_storeVars PROVE StoreInv'
  OBVIOUS
<1>t. StoreTypeOK'
  BY StoreTypeStep
<1> USE DEF StoreInv
<1>1. CASE UNCHANGED storeVars
  <2> Rest'
    BY <1>1 DEF Rest, storeVars, HolderInv, CeilingInv, RowInv, SequencesDistinct,
                OneFreshInsert, Exists
  <2> QED
    BY <1>t DEF Rest
<1>2. ASSUME NEW w \in Writer, WriterStep(w) PROVE Rest'
  <2>0. /\ \A k \in Key : table[k].seq \in Nat
        /\ cfgSeq \in Nat
        /\ \A x \in Writer : tx[x].key \in Key
    BY DEF StoreTypeOK, Row, Call
  <2>1. CASE \E k \in Key, v \in Version : SaveLookup(w, k, v)
    <3> PICK k \in Key, v \in Version : SaveLookup(w, k, v)
      BY <2>1
    <3>1. /\ tx'[w].pc = IF Exists(k) THEN "update" ELSE "insert"
          /\ tx'[w].op = "save" /\ tx'[w].key = k /\ ~tx'[w].fresh
          /\ OthersKept(w)
          /\ UNCHANGED <<table, cfgSeq, lock>> /\ tx[w].pc = "idle"
      BY DEF SaveLookup, StoreTypeOK, OthersKept
    <3> USE <3>1 DEF OthersKept
    <3>2. HolderInv'
      BY NobodyAssumption DEF HolderInv, StoreTypeOK
    <3>3. CeilingInv' /\ SequencesDistinct'
      BY DEF CeilingInv, SequencesDistinct, Exists
    <3>4. RowInv'
      BY DEF RowInv, Exists
    <3>5. OneFreshInsert'
      BY DEF OneFreshInsert, Exists
    <3> QED
      BY <3>2, <3>3, <3>4, <3>5 DEF Rest
  <2>2. CASE SaveInsert(w)
    <3>1. CASE Exists(tx[w].key)
      BY <2>2, <3>1, ReturnEnds, EndKeepsRest DEF SaveInsert
    <3>2. CASE ~Exists(tx[w].key)
      <4>0. /\ tx[w].pc = "insert" /\ \A x \in Writer : ~tx[x].fresh
            /\ tx' = [tx EXCEPT ![w].pc = "update", ![w].fresh = TRUE]
            /\ UNCHANGED <<table, cfgSeq, lock>>
        BY <2>2, <3>2 DEF SaveInsert
      <4>1. /\ tx'[w].pc = "update" /\ tx'[w].fresh
            /\ tx'[w].key = tx[w].key /\ tx'[w].op = tx[w].op
            /\ OthersKept(w)
            /\ UNCHANGED <<table, cfgSeq, lock>> /\ tx[w].pc = "insert"
            /\ \A x \in Writer : ~tx[x].fresh
        BY <4>0 DEF StoreTypeOK, Call, OthersKept
      <4> USE <4>1 DEF OthersKept
      <4>2. HolderInv'
        BY NobodyAssumption DEF HolderInv, StoreTypeOK
      <4>3. CeilingInv' /\ SequencesDistinct'
        BY DEF CeilingInv, SequencesDistinct, Exists
      <4>4. RowInv'
        BY DEF RowInv, Exists
      <4>5. OneFreshInsert'
        BY <3>2 DEF OneFreshInsert, Exists
      <4> QED
        BY <4>2, <4>3, <4>4, <4>5 DEF Rest
    <3> QED
      BY <3>1, <3>2
  <2>3. CASE SaveUpdate(w)
    <3>1. /\ tx'[w].pc = "commit" /\ tx'[w].fresh = tx[w].fresh
          /\ tx'[w].key = tx[w].key
          /\ tx'[w].row.seq = cfgSeq + 1
          /\ OthersKept(w)
          /\ UNCHANGED table /\ cfgSeq' = cfgSeq + 1 /\ lock' = w
          /\ tx[w].pc = "update" /\ lock = Nobody
      BY <2>3 DEF SaveUpdate, UpdatedRow, StoreTypeOK, OthersKept
    <3> USE <3>1, <2>0 DEF OthersKept
    <3>2. HolderInv'
      BY NobodyAssumption DEF HolderInv, StoreTypeOK
    <3>3. CeilingInv' /\ SequencesDistinct'
      BY DEF CeilingInv, SequencesDistinct, Exists
    <3>4. RowInv'
      BY DEF RowInv, Exists
    <3>5. OneFreshInsert'
      BY DEF OneFreshInsert, Exists
    <3> QED
      BY <3>2, <3>3, <3>4, <3>5 DEF Rest
  <2>4. CASE SaveBusy(w)
    <3>1. CASE tx[w].tries + 1 < NRetry
      <4>0. /\ tx[w].pc = "update"
            /\ tx' = [tx EXCEPT ![w].tries = tx[w].tries + 1]
            /\ UNCHANGED <<table, cfgSeq, lock>>
        BY <2>4, <3>1 DEF SaveBusy
      <4>1. /\ tx'[w].pc = tx[w].pc /\ tx'[w].fresh = tx[w].fresh
            /\ tx'[w].key = tx[w].key /\ tx'[w].op = tx[w].op
            /\ tx[w].pc = "update"
            /\ OthersKept(w)
            /\ UNCHANGED <<table, cfgSeq, lock>>
        BY <4>0 DEF StoreTypeOK, Call, OthersKept
      <4> USE <4>1 DEF OthersKept
      <4>2. HolderInv'
        BY NobodyAssumption DEF HolderInv, StoreTypeOK
      <4>3. CeilingInv' /\ SequencesDistinct'
        BY DEF CeilingInv, SequencesDistinct, Exists
      <4>4. RowInv'
        BY DEF RowInv, Exists
      <4>5. OneFreshInsert'
        BY DEF OneFreshInsert, Exists
      <4> QED
        BY <4>2, <4>3, <4>4, <4>5 DEF Rest
    <3>2. CASE ~(tx[w].tries + 1 < NRetry)
      BY <2>4, <3>2, ReturnEnds, EndKeepsRest DEF SaveBusy
    <3> QED
      BY <3>1, <3>2
  <2>5. CASE \E k \in Key : Delete(w, k)
    <3> PICK k \in Key : Delete(w, k)
      BY <2>5
    <3>1. /\ tx'[w].pc = "commit" /\ ~tx'[w].fresh
          /\ tx'[w].key = k /\ Exists(k)
          /\ tx'[w].row.seq = cfgSeq + 1
          /\ OthersKept(w)
          /\ UNCHANGED table /\ cfgSeq' = cfgSeq + 1 /\ lock' = w
          /\ tx[w].pc = "idle" /\ lock = Nobody
      BY DEF Delete, StoreTypeOK, OthersKept
    <3> USE <3>1, <2>0 DEF OthersKept
    <3>2. HolderInv'
      BY NobodyAssumption DEF HolderInv, StoreTypeOK
    <3>3. CeilingInv' /\ SequencesDistinct'
      BY DEF CeilingInv, SequencesDistinct, Exists
    <3>4. RowInv'
      BY DEF RowInv, Exists
    <3>5. OneFreshInsert'
      BY DEF OneFreshInsert, Exists
    <3> QED
      BY <3>2, <3>3, <3>4, <3>5 DEF Rest
  <2>6. CASE \E k \in Key : DeleteNothing(w, k)
    <3>1. /\ tx'[w].pc = "idle" /\ ~tx'[w].fresh /\ OthersKept(w)
          /\ UNCHANGED <<table, cfgSeq, lock>> /\ tx[w].pc = "idle"
      BY <2>6 DEF DeleteNothing, Ended, StoreTypeOK, OthersKept
    <3>2. lock # w
      BY <3>1, NobodyAssumption DEF HolderInv
    <3> QED
      BY <3>1, <3>2, EndKeepsRest
  <2>7. CASE Commit(w)
    <3>1. PICK answer \in {"ok", "error"} : Return(w, answer)
      BY <2>7 DEF Commit
    <3>2. /\ tx'[w].pc = "idle" /\ ~tx'[w].fresh /\ OthersKept(w)
          /\ lock' = IF lock = w THEN Nobody ELSE lock
          /\ tx[w].pc = "commit" /\ cfgSeq' = cfgSeq
          /\ \A k \in Key : table'[k] = IF k = tx[w].key THEN tx[w].row ELSE table[k]
      BY <2>7, <3>1, ReturnEnds DEF Commit, StoreTypeOK
    <3>3. lock = w /\ lock' = Nobody /\ tx[w].row.seq = cfgSeq /\ tx[w].row.seq > 0
      BY <3>2 DEF HolderInv, RowInv
    <3> USE <3>2, <3>3, <2>0 DEF OthersKept
    <3>4. HolderInv'
      BY NobodyAssumption DEF HolderInv, StoreTypeOK
    <3>5. CeilingInv'
      BY DEF CeilingInv
    <3>6. RowInv'
      BY DEF RowInv, Exists
    <3>7. SequencesDistinct'
      BY NobodyAssumption DEF SequencesDistinct, CeilingInv, Exists
    <3>8. OneFreshInsert'
      BY DEF OneFreshInsert, RowInv, Exists
    <3> QED
      BY <3>4, <3>5, <3>6, <3>7, <3>8 DEF Rest
  <2>8. CASE Abort(w)
    BY <2>8, ReturnEnds, EndKeepsRest DEF Abort
  <2> QED
    BY <1>2, <2>1, <2>2, <2>3, <2>4, <2>5, <2>6, <2>7, <2>8 DEF WriterStep, saveConfiguration,
       deleteConfiguration
<1> QED
  BY <1>t, <1>1, <1>2 DEF StoreNext, Rest

-----------------------------------------------------------------------------
\* Every number that a reader of the table can have seen is below those that
\* are still to be committed.
Visible(n) == n <= cfgSeq /\ (lock # Nobody => n < cfgSeq)

LEMMA OnlyCommitsChangeRows ==
    ASSUME StoreNext, table' # table
    PROVE  \E w \in Writer : Commit(w)
  BY DEF StoreNext, WriterStep, saveConfiguration, deleteConfiguration, SaveLookup,
         SaveInsert, SaveUpdate, SaveBusy, Delete, DeleteNothing, Abort

\* What the pump needs of a step of the writers: it leaves a row alone or gives it
\* a number above all those seen before; what has been seen stays seen.
TableMoves ==
    /\ \A n \in Nat : Visible(n) => Visible(n)'
    /\ \A k \in Key : table'[k] # table[k] =>
          \A n \in Nat : Visible(n) => n < table'[k].seq

LEMMA VisibleStep == StoreInv /\ [StoreNext]_storeVars => TableMoves
<1> SUFFICES ASSUME StoreInv, [StoreNext]_storeVars PROVE TableMoves
  OBVIOUS
<1> USE DEF StoreInv
<1>0. cfgSeq \in Nat
  BY DEF StoreTypeOK
<1>1. \A n \in Nat : Visible(n) => Visible(n)'
  <2>1. CASE UNCHANGED storeVars
    BY <2>1 DEF Visible, storeVars
  <2>2. ASSUME NEW w \in Writer, WriterStep(w) PROVE \A n \in Nat : Visible(n) => Visible(n)'
    <3>1. \/ cfgSeq' = cfgSeq + 1 /\ lock = Nobody
          \/ cfgSeq' = cfgSeq /\ (lock' = lock \/ lock' = Nobody)
      BY <2>2 DEF WriterStep, saveConfiguration, deleteConfiguration, SaveLookup, SaveInsert,
                  SaveUpdate, SaveBusy, Delete, DeleteNothing, Commit, Abort, Return
    <3> QED
      BY <1>0, <3>1 DEF Visible
  <2> QED
    BY <2>1, <2>2 DEF StoreNext
<1>2. ASSUME NEW k \in Key, table'[k] # table[k], NEW n \in Nat, Visible(n)
      PROVE  n < table'[k].seq
  <2>1. PICK w \in Writer : Commit(w)
    BY <1>2, OnlyCommitsChangeRows DEF storeVars
  <2>2. lock = w /\ tx[w].row.seq = cfgSeq
    BY <2>1 DEF Commit, HolderInv
  <2>3. table'[k] = tx[w].row
    BY <1>2, <2>1 DEF Commit, StoreTypeOK
  <2> QED
    BY <1>2, <2>2, <2>3, NobodyAssumption DEF Visible
<1> QED
  BY <1>1, <1>2 DEF TableMoves

-----------------------------------------------------------------------------
\* The invariant of the table and its writers, type correctness included.
THEOREM StoreInvariant == StoreSpec => []StoreInv
  BY StoreInitInv, StoreInvStep, PTL DEF StoreSpec

\* A number that a transaction is about to commit is above every committed one,
\* and its transaction alone holds the advisory lock.
THEOREM PendingIsAbove == StoreSpec => []PendingAboveCommitted
<1>1. StoreInv => PendingAboveCommitted
  BY NobodyAssumption DEF StoreInv, HolderInv, CeilingInv, StoreTypeOK, PendingAboveCommitted
<1> QED
  BY <1>1, StoreInvariant, PTL

\* No two committed rows carry the same sequence number, whatever the inserts and
\* updates of datawriter.go interleave with.
THEOREM SequencesAreDistinct == StoreSpec => []SequencesDistinct
<1>1. StoreInv => SequencesDistinct
  BY DEF StoreInv
<1> QED
  BY <1>1, StoreInvariant, PTL

\* Two transactions never both insert the same configuration for the first time.
THEOREM OneInsertAtATime == StoreSpec => []OneFreshInsert
<1>1. StoreInv => OneFreshInsert
  BY DEF StoreInv
<1> QED
  BY <1>1, StoreInvariant, PTL

-----------------------------------------------------------------------------
\* The row that a call is about to commit, compared with the row as it stands.
Image(w) ==
    \/ /\ tx[w].row.ver \in Version
       /\ tx[w].row.status = table[tx[w].key].status
    \/ /\ Exists(tx[w].key)
       /\ tx[w].row.ver = table[tx[w].key].ver
       /\ tx[w].row.status = Deleted

\* A row cannot change while another call holds the lock for it, and a call that
\* is still to update its row brings a version of its own.
ImageInv ==
    /\ \A k \in Key : ~Exists(k) => table[k].status = Valid
    /\ \A w \in Writer :
          /\ tx[w].pc \in {"insert", "update"} => tx[w].ver \in Version
          /\ tx[w].pc = "commit" => Image(w)

LEMMA ImageInit == StoreInit => ImageInv
  BY DEF StoreInit, ImageInv, Ended, NoRow, Exists

LEMMA ImageStep == StoreInv /\ ImageInv /\ [StoreNext]_storeVars => ImageInv'
<1> SUFFICES ASSUME StoreInv, ImageInv, [StoreNext]_storeVars PROVE ImageInv'
  OBVIOUS
<1> USE DEF StoreInv
<1>1. CASE UNCHANGED storeVars
  BY <1>1 DEF storeVars, ImageInv, Image, Exists
<1>2. ASSUME NEW w \in Writer, WriterStep(w) PROVE ImageInv'
  \* A step that leaves the table alone only has to do with the call it belongs to.
  <2>0. ASSUME UNCHANGED table, OthersKept(w),
               tx'[w].pc \in {"insert", "update"} => tx'[w].ver \in Version,
               tx'[w].pc = "commit" => Image(w)'
        PROVE  ImageInv'
    BY <2>0 DEF ImageInv, Image, OthersKept, Exists
  <2>1. CASE \E k \in Key, v \in Version : SaveLookup(w, k, v)
    <3> PICK k \in Key, v \in Version : SaveLookup(w, k, v)
      BY <2>1
    <3>1. tx'[w].ver = v /\ tx'[w].pc # "commit" /\ OthersKept(w) /\ UNCHANGED table
      BY DEF SaveLookup, StoreTypeOK, OthersKept
    <3> QED
      BY <2>0, <3>1
  <2>2. CASE SaveInsert(w)
    <3>1. CASE Exists(tx[w].key)
      BY <2>0, <2>2, <3>1, ReturnEnds DEF SaveInsert
    <3>2. CASE ~Exists(tx[w].key)
      <4>0. /\ tx[w].pc = "insert"
            /\ tx' = [tx EXCEPT ![w].pc = "update", ![w].fresh = TRUE]
            /\ UNCHANGED table
        BY <2>2, <3>2 DEF SaveInsert
      <4>1. /\ tx'[w].ver = tx[w].ver /\ tx'[w].pc = "update" /\ tx[w].pc = "insert"
            /\ OthersKept(w) /\ UNCHANGED table
        BY <4>0 DEF StoreTypeOK, Call, OthersKept
      <4> QED
        BY <2>0, <4>1 DEF ImageInv
    <3> QED
      BY <3>1, <3>2
  <2>3. CASE SaveUpdate(w)
    <3>1. /\ tx[w].pc = "update" /\ tx'[w].key = tx[w].key /\ tx[w].key \in Key
          /\ tx'[w].row = UpdatedRow(w) /\ tx'[w].pc = "commit"
          /\ OthersKept(w) /\ UNCHANGED table
      BY <2>3 DEF SaveUpdate, StoreTypeOK, Call, OthersKept
    <3>2. tx[w].fresh => table[tx[w].key].status = Valid
      BY <3>1 DEF OneFreshInsert, ImageInv
    <3>3. /\ tx'[w].row.ver \in Version
          /\ tx'[w].row.status = table[tx[w].key].status
      BY <3>1, <3>2 DEF UpdatedRow, ImageInv
    <3> QED
      BY <2>0, <3>1, <3>3 DEF Image
  <2>4. CASE SaveBusy(w)
    <3>1. CASE tx[w].tries + 1 < NRetry
      <4>0. /\ tx[w].pc = "update"
            /\ tx' = [tx EXCEPT ![w].tries = tx[w].tries + 1]
            /\ UNCHANGED table
        BY <2>4, <3>1 DEF SaveBusy
      <4>1. /\ tx'[w].ver = tx[w].ver /\ tx'[w].pc = "update"
            /\ OthersKept(w) /\ UNCHANGED table
        BY <4>0 DEF StoreTypeOK, Call, OthersKept
      <4> QED
        BY <2>0, <4>0, <4>1 DEF ImageInv
    <3>2. CASE ~(tx[w].tries + 1 < NRetry)
      BY <2>0, <2>4, <3>2, ReturnEnds DEF SaveBusy
    <3> QED
      BY <3>1, <3>2
  <2>5. CASE \E k \in Key : Delete(w, k)
    <3> PICK k \in Key : Delete(w, k)
      BY <2>5
    <3>1. /\ Exists(k) /\ tx'[w].key = k /\ tx'[w].pc = "commit"
          /\ tx'[w].row.ver = table[k].ver /\ tx'[w].row.status = Deleted
          /\ OthersKept(w) /\ UNCHANGED table
      BY DEF Delete, StoreTypeOK, OthersKept
    <3> QED
      BY <2>0, <3>1 DEF Image, Exists
  <2>6. CASE \E k \in Key : DeleteNothing(w, k)
    <3>1. tx'[w].pc = "idle" /\ OthersKept(w) /\ UNCHANGED table
      BY <2>6 DEF DeleteNothing, Ended, StoreTypeOK, OthersKept
    <3> QED
      BY <2>0, <3>1
  <2>7. CASE Commit(w)
    <3>1. PICK answer \in {"ok", "error"} : Return(w, answer)
      BY <2>7 DEF Commit
    <3>2. /\ tx'[w].pc = "idle" /\ OthersKept(w)
          /\ tx[w].pc = "commit" /\ lock = w
          /\ \A k \in Key : table'[k] = IF k = tx[w].key THEN tx[w].row ELSE table[k]
      BY <2>7, <3>1, ReturnEnds DEF Commit, StoreTypeOK, HolderInv
    <3>3. \A x \in Writer : tx'[x].pc # "commit"
      BY <3>2 DEF HolderInv, OthersKept
    <3>4. tx[w].row.seq > 0
      BY <3>2 DEF RowInv
    <3>5. \A k \in Key : ~Exists(k)' => table'[k].status = Valid
      BY <3>2, <3>4 DEF ImageInv, Exists
    <3>6. \A x \in Writer : tx'[x].pc \in {"insert", "update"} => tx'[x].ver \in Version
      BY <3>2 DEF ImageInv, OthersKept
    <3> QED
      BY <3>3, <3>5, <3>6 DEF ImageInv
  <2>8. CASE Abort(w)
    BY <2>0, <2>8, ReturnEnds DEF Abort
  <2> QED
    BY <1>2, <2>1, <2>2, <2>3, <2>4, <2>5, <2>6, <2>7, <2>8 DEF WriterStep, saveConfiguration,
       deleteConfiguration
<1> QED
  BY <1>1, <1>2 DEF StoreNext

\* The write API is atomic: whatever the calls interleave with, each commit is one
\* save or one delete, and the commits come in the order of their numbers.
THEOREM WritesAreAtomic == StoreSpec => CommitsAreWrites
<1> DEFINE Write == \E k \in Key : AtomicWrite(k, table'[k].seq)
<1>1. StoreInv /\ ImageInv /\ [StoreNext]_storeVars => [Write]_table
  <2> SUFFICES ASSUME StoreInv, ImageInv, StoreNext, table' # table PROVE Write
    BY DEF storeVars
  <2>1. PICK w \in Writer : Commit(w)
    BY OnlyCommitsChangeRows
  <2> DEFINE k == tx[w].key
             r == tx[w].row
  <2>2. /\ k \in Key /\ r \in Row /\ table \in [Key -> Row]
        /\ lock = w /\ r.seq = cfgSeq
        /\ table' = [table EXCEPT ![k] = r]
    BY <2>1 DEF Commit, StoreInv, HolderInv, StoreTypeOK, Call
  <2>3. table'[k] = r
    BY <2>2
  <2>4. \A j \in Key : table[j].seq < table'[k].seq
    BY <2>2, <2>3, NobodyAssumption DEF StoreInv, CeilingInv
  <2>5. Image(w)
    BY <2>1 DEF Commit, ImageInv
  <2>6. table[k] \in Row
    BY <2>2
  <2> HIDE DEF k, r
  <2>7. CASE r.ver \in Version /\ r.status = table[k].status
    <3>1. r = [table[k] EXCEPT !.ver = r.ver, !.seq = r.seq]
      BY <2>2, <2>6, <2>7 DEF Row
    <3>2. table' = [table EXCEPT ![k].ver = r.ver, ![k].seq = table'[k].seq]
      BY <2>2, <2>3, <3>1
    <3> QED
      BY <2>2, <2>4, <2>7, <3>2 DEF AtomicWrite
  <2>8. CASE Exists(k) /\ r.ver = table[k].ver /\ r.status = Deleted
    <3>1. r = [table[k] EXCEPT !.status = Deleted, !.seq = r.seq]
      BY <2>2, <2>6, <2>8 DEF Row
    <3>2. table' = [table EXCEPT ![k].status = Deleted, ![k].seq = table'[k].seq]
      BY <2>2, <2>3, <3>1
    <3> QED
      BY <2>2, <2>4, <2>8, <3>2 DEF AtomicWrite
  <2> QED
    BY <2>5, <2>7, <2>8 DEF Image, k, r
<1>2. StoreSpec => []ImageInv
  BY ImageInit, ImageStep, StoreInvariant, PTL DEF StoreSpec
<1> QED
  BY <1>1, <1>2, StoreInvariant, PTL DEF StoreSpec, CommitsAreWrites

-----------------------------------------------------------------------------
(* Part 2.  DataPump.                                                      *)
-----------------------------------------------------------------------------
\* How far the pump has been: everything below was read from the table.
Marks == {dumpMax, start, scanFrom, updateScanId, pageEnd}

\* What the loops' local variables say at each point of the two goroutines.
ControlInv ==
    /\ scanner # "wait" => dumper = "done"
    /\ page # {} => dumper = "send" \/ scanner = "send"
    /\ dumper = "send" => pageEnd = start
    /\ dumper # "done" => updateScanId = 0
    /\ dumper \in {"acquire", "maxId"} => start = 0
    /\ dumper \in {"query", "send", "close", "store"} => start <= dumpMax
    /\ scanner \in {"acquire", "query", "send"} => scanFrom = updateScanId
    /\ scanner = "send" => updateScanId <= pageEnd

\* What the pump remembers was visible in the table; a row of the page is the
\* table's, or the table has moved on beyond the page, and a scan's row is new.
PageInv ==
    /\ \A n \in Marks : Visible(n)
    /\ \A r \in page :
          /\ 0 < r.row.seq /\ r.row.seq <= pageEnd
          /\ table[r.key] = r.row \/ pageEnd < table[r.key].seq
          /\ scanner = "send" => updateScanId < r.row.seq
    /\ \A r, q \in page : r.row.seq = q.row.seq => r = q

\* The rows delivered so far are behind the loop that is sending.
OrderInv ==
    /\ \A k \in Key :
          /\ dumper # "done" => delivered[k].seq <= start
          /\ dumper = "done" /\ scanner # "send" => delivered[k].seq <= updateScanId
          /\ scanner = "send" => delivered[k].seq <= pageEnd
    /\ \A r \in page, k \in Key : delivered[k].seq < r.row.seq

PumpInv == PumpTypeOK /\ ControlInv /\ PageInv /\ OrderInv

\* A pump that starts, on any table.
LEMMA PumpInitInv == StoreInv /\ PumpInit => PumpInv
<1> SUFFICES ASSUME StoreInv, PumpInit PROVE PumpInv
  OBVIOUS
<1>1. NoRow \in Row /\ NoRow.seq = 0
  BY DEF NoRow, Row, Valid, Deleted
<1>2. PumpTypeOK
  BY <1>1 DEF PumpInit, PumpTypeOK
<1>3. ControlInv
  BY DEF PumpInit, ControlInv
<1>4. PageInv
  <2>1. Visible(0)
    BY DEF StoreInv, StoreTypeOK, HolderInv, RowInv, Visible
  <2> QED
    BY <2>1 DEF PumpInit, PageInv, Marks
<1>5. OrderInv
  BY <1>1 DEF PumpInit, OrderInv
<1> QED
  BY <1>2, <1>3, <1>4, <1>5 DEF PumpInv

LEMMA NextIsStoreNext == [Next]_vars => [StoreNext]_storeVars
  BY DEF Next, vars, DumpNext, ScanNext, DumpAcquire, DumpMaxId, DumpQuery, DumpSend,
         DumpConnBreaks, DumpClose, DumpStartScan, ScanStart, ScanTop, ScanAcquire,
         ScanQuery, ScanSend, ScanMark, StopBegin, StopEnd

THEOREM TableInvariant == Spec => []StoreInv
<1>1. Init => StoreInv
  BY StoreInitInv DEF Init
<1>2. StoreInv /\ [Next]_vars => StoreInv'
  BY NextIsStoreNext, StoreInvStep
<1> QED
  BY <1>1, <1>2, PTL DEF Spec

-----------------------------------------------------------------------------
\* The pages that a query can return.
LEMMA PageFacts ==
    ASSUME StoreInv, NEW from \in Nat, NEW to \in Nat, NEW P \in Pages(Window(from, to))
    PROVE  /\ P \subseteq PageRow
           /\ \A r \in P : /\ from < r.row.seq /\ r.row.seq <= to
                           /\ r.row = table[r.key]
           /\ \A r, q \in P : r.row.seq = q.row.seq => r = q
           /\ \A last \in P : IsLast(last, P) =>
                \A k \in Key : from < table[k].seq /\ table[k].seq <= last.row.seq =>
                    [key |-> k, row |-> table[k]] \in P
           /\ Window(from, to) = {} =>
                \A k \in Key : ~(from < table[k].seq /\ table[k].seq <= to)
<1> DEFINE W == Window(from, to)
<1>0. \A k \in Key : table[k] \in Row /\ table[k].seq \in Nat
  BY DEF StoreInv, StoreTypeOK, Row
<1>1. \A r \in W : /\ r \in PageRow /\ r.row = table[r.key]
                   /\ from < r.row.seq /\ r.row.seq <= to
  BY <1>0 DEF Window, PageRow
<1>2. \A k \in Key : from < table[k].seq /\ table[k].seq <= to => [key |-> k, row |-> table[k]] \in W
  BY DEF Window
<1>3. P \in Prefixes(W)
  BY DEF Pages
<1>4. P \subseteq W
  BY <1>3 DEF Prefixes
<1>5. \A r, q \in W : r.row.seq = q.row.seq => r = q
  <2> SUFFICES ASSUME NEW j \in Key, NEW k \in Key, from < table[j].seq, from < table[k].seq,
                      table[j].seq = table[k].seq
               PROVE  j = k
    BY DEF Window
  <2> QED
    BY <1>0 DEF StoreInv, SequencesDistinct, Exists
<1>6. ASSUME NEW last \in P, IsLast(last, P), NEW k \in Key,
             from < table[k].seq, table[k].seq <= last.row.seq
      PROVE  [key |-> k, row |-> table[k]] \in P
  <2>1. PICK end \in W : P = {r \in W : r.row.seq <= end.row.seq}
    BY <1>3, <1>6 DEF Prefixes
  <2>2. last.row.seq <= end.row.seq /\ last.row.seq <= to
    BY <1>1, <1>4, <2>1
  <2>3. table[k].seq <= to /\ table[k].seq <= end.row.seq
    BY <1>0, <1>1, <1>4, <1>6, <2>1, <2>2 DEF PageRow, Row
  <2> QED
    BY <1>2, <1>6, <2>1, <2>3
<1>7. ASSUME W = {}, NEW k \in Key PROVE ~(from < table[k].seq /\ table[k].seq <= to)
  BY <1>2, <1>7
<1> QED
  BY <1>1, <1>2, <1>4, <1>5, <1>6, <1>7

-----------------------------------------------------------------------------
\* A step of a writer: a row changes only to a number beyond every mark.
LEMMA WriterKeepsPump ==
    ASSUME PumpInv, TableMoves, UNCHANGED pumpVars
    PROVE  PumpInv'
<1> USE DEF PumpInv, pumpVars
<1>1. PumpTypeOK' /\ ControlInv' /\ OrderInv'
  BY DEF PumpTypeOK, ControlInv, OrderInv
<1>2. PageInv'
  <2>1. \A n \in Marks : n \in Nat
    BY DEF Marks, PumpTypeOK
  <2>2. Marks' = Marks /\ pageEnd \in Marks
    BY DEF Marks
  <2>3. \A n \in Marks' : Visible(n)'
    BY <2>1, <2>2 DEF TableMoves, PageInv
  <2>4. \A r \in page : table'[r.key] = r.row \/ pageEnd < table'[r.key].seq
    BY <2>1, <2>2 DEF TableMoves, PageInv, PumpTypeOK, PageRow
  <2> QED
    BY <2>3, <2>4 DEF PageInv
<1> QED
  BY <1>1, <1>2

\* The steps of the dumper.
LEMMA DumpKeepsPump ==
    ASSUME StoreInv, PumpInv, DumpNext \/ DumpConnBreaks
    PROVE  PumpInv'
<1> USE DEF PumpInv
<1>0. /\ storeVars' = storeVars
      /\ table' = table /\ \A n \in Nat : Visible(n)' <=> Visible(n)
      /\ \A k \in Key : table[k] \in Row /\ table[k].seq \in Nat /\ Visible(table[k].seq)
      /\ \A k \in Key : delivered[k].seq \in Nat
  <2>1. storeVars' = storeVars
    BY DEF DumpNext, DumpAcquire, DumpMaxId, DumpQuery, DumpSend, DumpConnBreaks, DumpClose,
           DumpStartScan
  <2>2. \A k \in Key : table[k] \in Row /\ table[k].seq \in Nat /\ delivered[k].seq \in Nat
    BY DEF StoreInv, StoreTypeOK, PumpTypeOK, Row
  <2> QED
    BY <2>1, <2>2 DEF storeVars, Visible, StoreInv, CeilingInv
<1>1. CASE DumpAcquire \/ DumpConnBreaks \/ DumpClose
  BY <1>0, <1>1 DEF DumpAcquire, DumpConnBreaks, DumpClose, PumpTypeOK, ControlInv, PageInv,
                    OrderInv, Marks
<1>2. CASE DumpMaxId
  <2>1. dumpMax' \in Nat /\ Visible(dumpMax')
    <3>1. dumpMax' = 0 \/ \E k \in Key : dumpMax' = table[k].seq
      BY <1>2 DEF DumpMaxId
    <3>2. start = 0 /\ Visible(start)
      BY <1>2 DEF DumpMaxId, ControlInv, PageInv, Marks
    <3> QED
      BY <1>0, <3>1, <3>2
  <2>2. PumpTypeOK'
    BY <1>2, <2>1 DEF DumpMaxId, PumpTypeOK
  <2>3. ControlInv'
    BY <1>2, <2>1 DEF DumpMaxId, ControlInv, PumpTypeOK
  <2>4. PageInv'
    BY <1>0, <1>2, <2>1 DEF DumpMaxId, PageInv, ControlInv, Marks, PumpTypeOK
  <2>5. OrderInv'
    BY <1>2 DEF DumpMaxId, OrderInv, ControlInv
  <2> QED
    BY <2>2, <2>3, <2>4, <2>5
<1>3. CASE DumpQuery
  <2> PICK P \in Pages(Window(start, dumpMax)) :
         \/ P = {} /\ dumper' = "close" /\ UNCHANGED <<page, pageEnd, start>>
         \/ \E last \in P : /\ IsLast(last, P)
                            /\ page' = P
                            /\ pageEnd' = last.row.seq
                            /\ start' = last.row.seq
                            /\ dumper' = "send"
    BY <1>3 DEF DumpQuery
  <2>0. /\ start \in Nat /\ dumpMax \in Nat
        /\ UNCHANGED <<dumpConn, dumpMax, scanner, scanFrom, updateScanId, pool, closed, delivered>>
        /\ dumper = "query" /\ scanner = "wait" /\ page = {} /\ cut' \in BOOLEAN
    BY <1>3 DEF DumpQuery, PumpTypeOK, ControlInv
  <2>1. CASE P = {} /\ dumper' = "close" /\ UNCHANGED <<page, pageEnd, start>>
    BY <1>0, <2>0, <2>1 DEF PumpTypeOK, ControlInv, PageInv, OrderInv, Marks
  <2>2. ASSUME NEW last \in P, IsLast(last, P), page' = P, pageEnd' = last.row.seq,
               start' = last.row.seq, dumper' = "send"
        PROVE  PumpInv'
    <3>1. /\ P \subseteq PageRow
          /\ \A r \in P : start < r.row.seq /\ r.row.seq <= dumpMax /\ r.row = table[r.key]
          /\ \A r, q \in P : r.row.seq = q.row.seq => r = q
      BY <2>0, PageFacts
    <3>2. last \in PageRow /\ last.row.seq \in Nat /\ last.row.seq = table[last.key].seq
      BY <2>2, <3>1 DEF PageRow, Row
    <3>3. Visible(last.row.seq) /\ start < last.row.seq /\ last.row.seq <= dumpMax
      BY <1>0, <2>2, <3>1, <3>2 DEF PageRow
    <3>4. PumpTypeOK'
      BY <2>0, <2>2, <3>1, <3>2 DEF PumpTypeOK
    <3>5. ControlInv'
      BY <2>0, <2>2, <3>3 DEF ControlInv
    <3>6. PageInv'
      <4>1. \A n \in Marks' : Visible(n)'
        BY <1>0, <2>0, <2>2, <3>2, <3>3 DEF PageInv, Marks, PumpTypeOK
      <4>2. \A r \in P : r.key \in Key /\ r.row.seq \in Nat /\ 0 < r.row.seq /\ r.row.seq <= last.row.seq
        BY <2>0, <2>2, <3>1 DEF IsLast, PageRow, Row
      <4> QED
        BY <1>0, <2>0, <2>2, <3>1, <4>1, <4>2 DEF PageInv
    <3>7. OrderInv'
      <4>1. \A k \in Key : delivered[k].seq <= start
        BY <2>0 DEF OrderInv
      <4>2. \A r \in P : r.row.seq \in Nat
        BY <3>1 DEF PageRow, Row
      <4> QED
        BY <1>0, <2>0, <2>2, <3>1, <3>2, <3>3, <4>1, <4>2 DEF OrderInv
    <3> QED
      BY <3>4, <3>5, <3>6, <3>7
  <2> QED
    BY <2>1, <2>2
<1>4. CASE DumpSend
  <2> PICK r \in page : /\ IsNext(r)
                        /\ Send(r)
                        /\ dumper' = IF page = {r} THEN "query" ELSE "send"
    BY <1>4 DEF DumpSend
  <2>0. /\ UNCHANGED <<dumpConn, dumpMax, start, scanner, scanFrom, updateScanId, pageEnd, pool, closed>>
        /\ dumper = "send" /\ scanner = "wait" /\ pageEnd = start /\ cut' \in BOOLEAN
    BY <1>4 DEF DumpSend, ControlInv, PumpTypeOK
  <2>1. /\ r.key \in Key /\ r.row \in Row /\ r.row.seq \in Nat /\ r.row.seq <= pageEnd
        /\ page' = page \ {r}
        /\ \A k \in Key : delivered'[k] = IF k = r.key THEN r.row ELSE delivered[k]
        /\ delivered' \in [Key -> Row]
    BY DEF PumpTypeOK, PageRow, Row, PageInv, Send
  <2>2. PumpTypeOK'
    BY <2>0, <2>1 DEF PumpTypeOK
  <2>3. ControlInv'
    BY <2>0, <2>1 DEF ControlInv
  <2>4. PageInv'
    BY <1>0, <2>0, <2>1 DEF PageInv, Marks, PumpTypeOK
  <2>5. \A q \in page' : r.row.seq < q.row.seq
    <3> SUFFICES ASSUME NEW q \in page, q # r PROVE r.row.seq < q.row.seq
      BY <2>1
    <3>1. q.row.seq \in Nat
      BY DEF PumpTypeOK, PageRow, Row
    <3>2. r.row.seq # q.row.seq
      BY DEF PageInv
    <3> QED
      BY <2>1, <3>1, <3>2 DEF IsNext
  <2>6. OrderInv'
    BY <2>0, <2>1, <2>5 DEF OrderInv
  <2> QED
    BY <2>2, <2>3, <2>4, <2>6
<1>5. CASE DumpStartScan
  <2>1. PumpTypeOK' /\ ControlInv'
    BY <1>5 DEF DumpStartScan, PumpTypeOK, ControlInv
  <2>2. PageInv'
    BY <1>0, <1>5 DEF DumpStartScan, PumpTypeOK, ControlInv, PageInv, Marks
  <2>3. OrderInv'
    BY <1>0, <1>5 DEF DumpStartScan, PumpTypeOK, ControlInv, OrderInv
  <2> QED
    BY <2>1, <2>2, <2>3
<1> QED
  BY <1>1, <1>2, <1>3, <1>4, <1>5 DEF DumpNext

\* The steps of scanLoop and of Stop.
LEMMA ScanKeepsPump ==
    ASSUME StoreInv, PumpInv, ScanNext \/ StopBegin \/ StopEnd
    PROVE  PumpInv'
<1> USE DEF PumpInv
<1>0. /\ storeVars' = storeVars
      /\ table' = table /\ \A n \in Nat : Visible(n)' <=> Visible(n)
      /\ \A k \in Key : table[k] \in Row /\ table[k].seq \in Nat /\ Visible(table[k].seq)
      /\ \A k \in Key : delivered[k].seq \in Nat
  <2>1. storeVars' = storeVars
    BY DEF ScanNext, ScanStart, ScanTop, ScanAcquire, ScanQuery, ScanSend, ScanMark,
           StopBegin, StopEnd
  <2>2. \A k \in Key : table[k] \in Row /\ table[k].seq \in Nat /\ delivered[k].seq \in Nat
    BY DEF StoreInv, StoreTypeOK, PumpTypeOK, Row
  <2> QED
    BY <2>1, <2>2 DEF storeVars, Visible, StoreInv, CeilingInv
<1>1. CASE ScanStart \/ ScanTop \/ ScanAcquire \/ StopBegin \/ StopEnd
  <2>1. PumpTypeOK' /\ ControlInv'
    BY <1>1 DEF ScanStart, ScanTop, ScanAcquire, StopBegin, StopEnd, PumpTypeOK, ControlInv
  <2>2. PageInv'
    BY <1>0, <1>1 DEF ScanStart, ScanTop, ScanAcquire, StopBegin, StopEnd, PumpTypeOK,
                      PageInv, Marks
  <2>3. OrderInv'
    BY <1>0, <1>1 DEF ScanStart, ScanTop, ScanAcquire, StopBegin, StopEnd, OrderInv
  <2> QED
    BY <2>1, <2>2, <2>3
<1>2. CASE ScanQuery
  <2>0. /\ scanFrom \in Nat /\ cfgSeq \in Nat /\ scanFrom = updateScanId
        /\ UNCHANGED <<dumper, dumpConn, dumpMax, start, scanFrom, updateScanId, pool, closed, delivered>>
        /\ cut' = cut /\ dumper = "done" /\ scanner = "query" /\ page = {}
    BY <1>2 DEF ScanQuery, PumpTypeOK, ControlInv, StoreInv, StoreTypeOK
  <2>1. CASE scanner' = "loop" /\ UNCHANGED <<page, pageEnd>>
    BY <1>0, <2>0, <2>1 DEF PumpTypeOK, ControlInv, PageInv, OrderInv, Marks
  <2>2. ASSUME NEW P \in Pages(Window(scanFrom, cfgSeq)), NEW last \in P, IsLast(last, P),
               page' = P, pageEnd' = last.row.seq, scanner' = "send"
        PROVE  PumpInv'
    <3>1. /\ P \subseteq PageRow
          /\ \A r \in P : scanFrom < r.row.seq /\ r.row = table[r.key]
          /\ \A r, q \in P : r.row.seq = q.row.seq => r = q
      BY <2>0, PageFacts
    <3>2. last \in PageRow /\ last.row.seq \in Nat /\ last.row.seq = table[last.key].seq
      BY <2>2, <3>1 DEF PageRow, Row
    <3>3. Visible(last.row.seq) /\ updateScanId < last.row.seq
      BY <1>0, <2>0, <2>2, <3>1, <3>2 DEF PageRow
    <3>4. PumpTypeOK'
      BY <2>0, <2>2, <3>1, <3>2 DEF PumpTypeOK
    <3>5. ControlInv'
      BY <2>0, <2>2, <3>2, <3>3 DEF ControlInv
    <3>6. PageInv'
      <4>1. \A n \in Marks' : Visible(n)'
        BY <1>0, <2>0, <2>2, <3>2, <3>3 DEF PageInv, Marks, PumpTypeOK
      <4>2. \A r \in P : r.key \in Key /\ r.row.seq \in Nat /\ 0 < r.row.seq /\ r.row.seq <= last.row.seq
        BY <2>0, <2>2, <3>1 DEF IsLast, PageRow, Row
      <4> QED
        BY <1>0, <2>0, <2>2, <3>1, <4>1, <4>2 DEF PageInv
    <3>7. OrderInv'
      <4>1. \A k \in Key : delivered[k].seq <= scanFrom
        BY <2>0 DEF OrderInv
      <4>2. \A r \in P : r.row.seq \in Nat
        BY <3>1 DEF PageRow, Row
      <4> QED
        BY <1>0, <2>0, <2>2, <3>1, <3>2, <3>3, <4>1, <4>2 DEF OrderInv
    <3> QED
      BY <3>4, <3>5, <3>6, <3>7
  <2> QED
    BY <1>2, <2>1, <2>2 DEF ScanQuery
<1>3. CASE ScanSend
  <2> PICK r \in page : IsNext(r) /\ Send(r)
    BY <1>3 DEF ScanSend
  <2>0. /\ UNCHANGED <<dumper, dumpConn, dumpMax, start, cut, scanner, scanFrom, updateScanId, pageEnd, pool, closed>>
        /\ dumper = "done" /\ scanner = "send"
    BY <1>3 DEF ScanSend, ControlInv
  <2>1. /\ r.key \in Key /\ r.row \in Row /\ r.row.seq \in Nat /\ r.row.seq <= pageEnd
        /\ page' = page \ {r}
        /\ \A k \in Key : delivered'[k] = IF k = r.key THEN r.row ELSE delivered[k]
        /\ delivered' \in [Key -> Row]
    BY DEF PumpTypeOK, PageRow, Row, PageInv, Send
  <2>2. PumpTypeOK'
    BY <2>0, <2>1 DEF PumpTypeOK
  <2>3. ControlInv'
    BY <2>0, <2>1 DEF ControlInv
  <2>4. PageInv'
    BY <1>0, <2>0, <2>1 DEF PageInv, Marks, PumpTypeOK
  <2>5. \A q \in page' : r.row.seq < q.row.seq
    <3> SUFFICES ASSUME NEW q \in page, q # r PROVE r.row.seq < q.row.seq
      BY <2>1
    <3>1. q.row.seq \in Nat
      BY DEF PumpTypeOK, PageRow, Row
    <3>2. r.row.seq # q.row.seq
      BY DEF PageInv
    <3> QED
      BY <2>1, <3>1, <3>2 DEF IsNext
  <2>6. OrderInv'
    BY <2>0, <2>1, <2>5 DEF OrderInv
  <2> QED
    BY <2>2, <2>3, <2>4, <2>6
<1>4. CASE ScanMark
  <2>1. PumpTypeOK' /\ ControlInv'
    BY <1>4 DEF ScanMark, PumpTypeOK, ControlInv
  <2>2. PageInv'
    BY <1>0, <1>4 DEF ScanMark, PumpTypeOK, PageInv, Marks
  <2>3. OrderInv'
    BY <1>0, <1>4 DEF ScanMark, ControlInv, OrderInv
  <2> QED
    BY <2>1, <2>2, <2>3
<1> QED
  BY <1>1, <1>2, <1>3, <1>4 DEF ScanNext

\* Type correctness and the bookkeeping of the two loops, under every fault.
THEOREM PumpInvariant == Spec => [](StoreInv /\ PumpInv)
<1>1. Init => PumpInv
  BY StoreInitInv, PumpInitInv DEF Init
<1>2. StoreInv /\ PumpInv /\ [Next]_vars => PumpInv'
  <2> SUFFICES ASSUME StoreInv, PumpInv, [Next]_vars PROVE PumpInv'
    OBVIOUS
  <2>1. CASE [StoreNext]_storeVars /\ UNCHANGED pumpVars
    BY <2>1, VisibleStep, WriterKeepsPump
  <2>2. CASE DumpNext \/ DumpConnBreaks
    BY <2>2, DumpKeepsPump
  <2>3. CASE ScanNext \/ StopBegin \/ StopEnd
    BY <2>3, ScanKeepsPump
  <2> QED
    BY <2>1, <2>2, <2>3 DEF Next, vars
<1> QED
  BY <1>1, <1>2, TableInvariant, PTL DEF Spec

-----------------------------------------------------------------------------
\* Row k as the table has it was handed over, or is in the page being sent.
Sent(k) == delivered[k] = table[k]
Paged(k) == [key |-> k, row |-> table[k]] \in page

\* Up to where each loop has been, every row has been handed over.
CoverInv ==
    \A k \in Key : ~cut /\ Exists(k) =>
        /\ dumper \in {"acquire", "maxId", "query"} /\ table[k].seq <= start => Sent(k)
        /\ dumper = "send" /\ table[k].seq <= start => Sent(k) \/ Paged(k)
        /\ dumper \in {"close", "store"} /\ table[k].seq <= dumpMax => Sent(k)
        /\ dumper = "done" /\ table[k].seq <= updateScanId => Sent(k)
        /\ scanner = "send" /\ table[k].seq <= pageEnd => Sent(k) \/ Paged(k)

LEMMA CoverInitInv == StoreInv /\ PumpInit => CoverInv
  BY DEF PumpInit, CoverInv, Exists, StoreInv, StoreTypeOK, Row

\* A writer moves its row beyond all the places where a loop has been.
LEMMA CoverWriter ==
    ASSUME StoreInv, StoreTypeOK', PumpInv, CoverInv, TableMoves, UNCHANGED pumpVars
    PROVE  CoverInv'
<1> SUFFICES ASSUME NEW k \in Key, Exists(k)', ~cut'
             PROVE  /\ dumper' \in {"acquire", "maxId", "query"} /\ table'[k].seq <= start' => Sent(k)'
                    /\ dumper' = "send" /\ table'[k].seq <= start' => Sent(k)' \/ Paged(k)'
                    /\ dumper' \in {"close", "store"} /\ table'[k].seq <= dumpMax' => Sent(k)'
                    /\ dumper' = "done" /\ table'[k].seq <= updateScanId' => Sent(k)'
                    /\ scanner' = "send" /\ table'[k].seq <= pageEnd' => Sent(k)' \/ Paged(k)'
  BY DEF CoverInv
<1>0. /\ start \in Nat /\ dumpMax \in Nat /\ updateScanId \in Nat /\ pageEnd \in Nat
  BY DEF PumpInv, PumpTypeOK
<1>1. CASE table'[k] = table[k]
  BY <1>1 DEF CoverInv, Exists, Sent, Paged, pumpVars
<1>2. CASE table'[k] # table[k]
  <2>1. \A n \in Marks : n \in Nat /\ n < table'[k].seq
    BY <1>2 DEF TableMoves, PumpInv, PageInv, Marks, PumpTypeOK
  <2>2. table'[k].seq \in Nat
    BY DEF StoreTypeOK, Row
  <2>3. start < table'[k].seq /\ dumpMax < table'[k].seq /\ updateScanId < table'[k].seq /\ pageEnd < table'[k].seq
    BY <2>1 DEF Marks
  <2> QED
    BY <1>0, <2>2, <2>3 DEF pumpVars
<1> QED
  BY <1>1, <1>2

LEMMA CoverStep ==
    ASSUME StoreInv, PumpInv, CoverInv,
           DumpNext \/ DumpConnBreaks \/ ScanNext \/ StopBegin \/ StopEnd
    PROVE  CoverInv'
<1> SUFFICES ASSUME NEW k \in Key, Exists(k)', ~cut'
             PROVE  /\ dumper' \in {"acquire", "maxId", "query"} /\ table'[k].seq <= start' => Sent(k)'
                    /\ dumper' = "send" /\ table'[k].seq <= start' => Sent(k)' \/ Paged(k)'
                    /\ dumper' \in {"close", "store"} /\ table'[k].seq <= dumpMax' => Sent(k)'
                    /\ dumper' = "done" /\ table'[k].seq <= updateScanId' => Sent(k)'
                    /\ scanner' = "send" /\ table'[k].seq <= pageEnd' => Sent(k)' \/ Paged(k)'
  BY DEF CoverInv
<1> USE DEF PumpInv
<1>0. /\ table[k].seq \in Nat /\ delivered[k] \in Row
      /\ start \in Nat /\ dumpMax \in Nat /\ updateScanId \in Nat /\ pageEnd \in Nat
  BY DEF StoreInv, StoreTypeOK, PumpTypeOK, Row
<1>2. CASE DumpAcquire \/ DumpConnBreaks \/ DumpClose \/ DumpStartScan
           \/ ScanStart \/ ScanTop \/ ScanAcquire \/ StopBegin \/ StopEnd
  BY <1>2 DEF DumpAcquire, DumpConnBreaks, DumpClose, DumpStartScan, ScanStart, ScanTop,
              ScanAcquire, StopBegin, StopEnd, storeVars, CoverInv, Exists, Sent, Paged, ControlInv
<1>3. CASE DumpMaxId
  BY <1>3 DEF DumpMaxId, ControlInv, storeVars, CoverInv, Exists, Sent, Paged
<1>4. CASE DumpQuery
  <2> PICK P \in Pages(Window(start, dumpMax)) :
         \/ P = {} /\ dumper' = "close" /\ Window(start, dumpMax) = {} /\ UNCHANGED <<page, pageEnd, start>>
         \/ \E last \in P : /\ IsLast(last, P)
                            /\ page' = P
                            /\ pageEnd' = last.row.seq
                            /\ start' = last.row.seq
                            /\ dumper' = "send"
    BY <1>4 DEF DumpQuery
  <2>0. /\ UNCHANGED <<storeVars, dumpMax, scanner, updateScanId, delivered>> /\ ~cut
        /\ dumper = "query" /\ scanner = "wait" /\ table' = table
    BY <1>4 DEF DumpQuery, ControlInv, PumpTypeOK, storeVars
  <2>1. table[k].seq <= start => Sent(k)
    BY <2>0 DEF CoverInv, Exists
  <2>2. CASE P = {} /\ dumper' = "close" /\ Window(start, dumpMax) = {} /\ UNCHANGED <<page, pageEnd, start>>
    <3>1. ~(start < table[k].seq /\ table[k].seq <= dumpMax)
      BY <1>0, <2>2, PageFacts
    <3> QED
      BY <1>0, <2>0, <2>1, <2>2, <3>1 DEF Sent
  <2>3. ASSUME NEW last \in P, IsLast(last, P), page' = P, start' = last.row.seq, dumper' = "send"
        PROVE  table[k].seq <= start' => Sent(k) \/ [key |-> k, row |-> table[k]] \in P
    <3>1. start < table[k].seq /\ table[k].seq <= last.row.seq => [key |-> k, row |-> table[k]] \in P
      BY <1>0, <2>3, PageFacts
    <3> QED
      BY <1>0, <2>1, <2>3, <3>1
  <2> QED
    BY <2>0, <2>2, <2>3 DEF Sent, Paged
<1>5. ASSUME NEW r \in page, Send(r), UNCHANGED storeVars, table[k].seq <= pageEnd
      PROVE  /\ Sent(k) \/ Paged(k) => Sent(k)' \/ Paged(k)'
             /\ Sent(k) => Sent(k)'
             /\ page = {r} => ~Paged(k)'
  <2>1. /\ table' = table /\ page' = page \ {r} /\ r.key \in Key
        /\ delivered'[k] = IF k = r.key THEN r.row ELSE delivered[k]
    BY <1>5 DEF Send, PumpTypeOK, PageRow, storeVars
  <2>2. r.key = k => table[k] = r.row
    BY <1>0, <1>5 DEF PageInv, PumpTypeOK, PageRow
  <2>3. Paged(k) /\ ~Paged(k)' => r.key = k
    BY <2>1 DEF Paged
  <2>4. Sent(k) => Sent(k)'
    BY <2>1, <2>2 DEF Sent
  <2>5. r.key = k => Sent(k)'
    BY <2>1, <2>2 DEF Sent
  <2>6. page = {r} => ~Paged(k)'
    BY <2>1 DEF Paged
  <2> QED
    BY <2>3, <2>4, <2>5, <2>6
<1>6. CASE DumpSend
  <2> PICK r \in page : Send(r) /\ dumper' = IF page = {r} THEN "query" ELSE "send"
    BY <1>6 DEF DumpSend
  <2>1. /\ UNCHANGED storeVars /\ table' = table /\ start' = start /\ ~cut
        /\ dumper = "send" /\ start = pageEnd /\ scanner = "wait" /\ scanner' = "wait"
    BY <1>6 DEF DumpSend, storeVars, ControlInv
  <2>2. Exists(k) /\ (table[k].seq <= start => Sent(k) \/ Paged(k))
    BY <2>1 DEF CoverInv, Exists
  <2>3. table[k].seq <= start => Sent(k)' \/ Paged(k)'
    BY <1>5, <2>1, <2>2
  <2>4. page = {r} /\ table[k].seq <= start => ~Paged(k)'
    BY <1>5, <2>1
  <2>5. CASE page = {r}
    BY <2>1, <2>3, <2>4, <2>5
  <2>6. CASE page # {r}
    BY <2>1, <2>3, <2>6
  <2> QED
    BY <2>5, <2>6
<1>7. CASE ScanSend
  <2> PICK r \in page : Send(r)
    BY <1>7 DEF ScanSend
  <2>1. /\ UNCHANGED storeVars /\ table' = table /\ ~cut /\ UNCHANGED <<pageEnd, updateScanId, dumper, scanner>>
        /\ dumper = "done" /\ scanner = "send" /\ updateScanId <= pageEnd
    BY <1>7 DEF ScanSend, storeVars, ControlInv
  <2>2. /\ table[k].seq <= updateScanId => Sent(k)
        /\ table[k].seq <= pageEnd => Sent(k) \/ Paged(k)
    BY <2>1 DEF CoverInv, Exists
  <2>3. table[k].seq <= pageEnd => Sent(k)' \/ Paged(k)'
    BY <1>5, <2>1, <2>2
  <2>4. table[k].seq <= updateScanId => table[k].seq <= pageEnd
    BY <1>0, <2>1
  <2>5. table[k].seq <= updateScanId => Sent(k)'
    BY <1>5, <2>1, <2>2, <2>4
  <2> QED
    BY <2>1, <2>3, <2>5
<1>8. CASE ScanQuery
  <2>0. /\ UNCHANGED <<storeVars, dumper, dumpMax, start, updateScanId, delivered>> /\ ~cut
        /\ dumper = "done" /\ table' = table /\ scanFrom = updateScanId
        /\ scanFrom \in Nat /\ cfgSeq \in Nat /\ table[k].seq <= cfgSeq
    BY <1>8 DEF ScanQuery, ControlInv, PumpTypeOK, storeVars, StoreInv, StoreTypeOK, CeilingInv
  <2>1. table[k].seq <= updateScanId => Sent(k)
    BY <2>0 DEF CoverInv, Exists
  <2>2. CASE scanner' = "loop"
    BY <2>0, <2>1, <2>2 DEF Sent
  <2>3. ASSUME NEW P \in Pages(Window(scanFrom, cfgSeq)), NEW last \in P, IsLast(last, P),
               page' = P, pageEnd' = last.row.seq, scanner' = "send"
        PROVE  table[k].seq <= pageEnd' => Sent(k) \/ [key |-> k, row |-> table[k]] \in P
    <3>1. scanFrom < table[k].seq /\ table[k].seq <= last.row.seq => [key |-> k, row |-> table[k]] \in P
      BY <2>0, <2>3, PageFacts
    <3> QED
      BY <1>0, <2>0, <2>1, <2>3, <3>1
  <2> QED
    BY <1>8, <2>0, <2>1, <2>2, <2>3 DEF ScanQuery, Sent, Paged
<1>9. CASE ScanMark
  BY <1>9 DEF ScanMark, storeVars, ControlInv, CoverInv, Exists, Sent, Paged
<1> QED
  BY <1>2, <1>3, <1>4, <1>6, <1>7, <1>8, <1>9 DEF DumpNext, ScanNext

\* No committed change is skipped, whatever faults the queries meet, as long as
\* the dump does not take a silently failed one for the end of the records.
THEOREM NothingMissed == Spec => []NoMissedChange
<1>1. Init => CoverInv
  BY StoreInitInv, CoverInitInv DEF Init
<1>2. StoreInv /\ PumpInv /\ CoverInv /\ [Next]_vars => CoverInv'
  <2> SUFFICES ASSUME StoreInv, PumpInv, CoverInv, [Next]_vars PROVE CoverInv'
    OBVIOUS
  <2>1. CASE [StoreNext]_storeVars /\ UNCHANGED pumpVars
    BY <2>1, StoreTypeStep, VisibleStep, CoverWriter
  <2> QED
    BY <2>1, CoverStep DEF Next, vars
<1>3. StoreInv /\ PumpInv /\ CoverInv => NoMissedChange
  BY DEF StoreInv, StoreTypeOK, Row, PumpInv, ControlInv, CoverInv, NoMissedChange, Exists, Sent
<1> QED
  BY <1>1, <1>2, <1>3, PumpInvariant, PTL DEF Spec

\* The server receives the rows in the order of the commits, whatever faults
\* the dump and the scans meet.
THEOREM InOrder == Spec => DeliveredInOrder
<1>1. PumpInv /\ [Next]_vars =>
        [\A k \in Key : delivered'[k] # delivered[k] =>
            \A j \in Key : delivered[j].seq < delivered'[k].seq]_delivered
  <2> SUFFICES ASSUME PumpInv, Next, NEW k \in Key, delivered'[k] # delivered[k], NEW j \in Key
               PROVE  delivered[j].seq < delivered'[k].seq
    BY DEF vars, pumpVars
  <2>1. DumpSend \/ ScanSend
    BY DEF Next, DumpNext, ScanNext, DumpAcquire, DumpMaxId, DumpQuery, DumpConnBreaks,
           DumpClose, DumpStartScan, ScanStart, ScanTop, ScanAcquire, ScanQuery, ScanMark,
           StopBegin, StopEnd, pumpVars
  <2>2. PICK r \in page : Send(r)
    BY <2>1 DEF DumpSend, ScanSend
  <2>3. delivered'[k] = r.row
    BY <2>2 DEF Send, PumpInv, PumpTypeOK, PageRow
  <2>4. delivered[j].seq < r.row.seq
    BY DEF PumpInv, OrderInv
  <2> QED
    BY <2>3, <2>4
<1> QED
  BY <1>1, PumpInvariant, PTL DEF Spec, DeliveredInOrder

-----------------------------------------------------------------------------
\* Stop closes the channels last: nobody gets a connection afterwards.
StopInv == closed => pool = "closed" /\ scanner \notin {"query", "send"}

\* scanLoop never sends on the channel that Stop has closed.
THEOREM ScanStopsInTime == Spec => []NoSendAfterStop
<1>1. Init => StopInv
  BY DEF Init, PumpInit, StopInv
<1>2. StopInv /\ [Next]_vars => StopInv'
  BY DEF StopInv, Next, vars, pumpVars, DumpNext, ScanNext, DumpAcquire, DumpMaxId, DumpQuery,
         DumpSend, DumpConnBreaks, DumpClose, DumpStartScan, ScanStart, ScanTop, ScanAcquire,
         ScanQuery, ScanSend, ScanMark, StopBegin, StopEnd, ConnectionsHeld
<1>3. StopInv => NoSendAfterStop
  BY DEF StopInv, NoSendAfterStop
<1> QED
  BY <1>1, <1>2, <1>3, PTL DEF Spec

-----------------------------------------------------------------------------
(* Part 3.  ConfigReplica.                                                 *)
-----------------------------------------------------------------------------
\* server.Startup may return: the dump has been drained.
Started == dumper \in {"store", "done"}

\* Nobody asks and nothing is batched before the dump is over.
ProcInv ==
    /\ proc \in {"down", "core"} => open = {} /\ held = {} /\ loop = "off"
    /\ proc \in {"write", "read", "serving"} => Started
    /\ ~pumpPool => dumper = "acquire"
    /\ Readable \/ loop # "off" => Started
    /\ loop = "off" => events = <<>>

\* The endpoints that listen although ConfigureServer has no server of them.
Orphans == {e \in open : e[1] \notin held}

OpenInv ==
    /\ Orphans = {} \/ \E api \in Tls \ held : Orphans = {<<api, "http">>}
    /\ proc \in {"down", "core", "write", "read", "serving"} => Orphans = {}
    /\ proc \in {"down", "core", "write"} => open = {} /\ held = {}
    /\ proc = "read" => "read" \notin held
    /\ proc \in {"stopRead", "stopPump", "stopWait", "stopped"} =>
          \A e \in open : e[1] = "write" => e \in Orphans
    /\ proc \in {"stopPump", "stopWait", "stopped"} =>
          \A e \in open : e[1] = "read" => e \in Orphans

\* The last event of the batch about k.
Decides(i, k) ==
    /\ i \in DOMAIN events /\ events[i].key = k
    /\ \A j \in DOMAIN events : i < j => events[j].key # k

\* What has been received is in the stores or in the batch, the newest last.
BatchInv ==
    /\ \A k \in Key :
          /\ (\A i \in DOMAIN events : events[i].key # k) => served[k].row = delivered[k]
          /\ \A i \in DOMAIN events : Decides(i, k) => events[i].row = delivered[k]
    /\ \A i \in DOMAIN events : dumpMax < events[i].row.seq
    /\ dumper # "done" => events = <<>>

\* Nothing is newer than the table, and the stores are behind what was received.
BelowInv ==
    \A k \in Key :
        /\ delivered[k].seq <= table[k].seq
        /\ served[k].row.seq <= delivered[k].seq

\* What the stores show: the rows of the dump, and the valid ones since.
ShownInv ==
    /\ \A k \in Key :
          served[k].shown <=> /\ served[k].row.seq > 0
                              /\ served[k].row.status = Valid \/ FromDump(k)
    /\ dumper = "done" => dumpMax <= updateScanId

\* What readers see has no gaps, and has all the dump found.
ViewInv ==
    Started /\ ~cut =>
        /\ \A j, k \in Key :
              table[k].seq <= served[j].row.seq => served[k].row.seq = table[k].seq
        /\ \A k \in Key : Exists(k) /\ table[k].seq <= dumpMax => served[k].row = table[k]

\* Writes are whole: nobody holds the lock or a row.
IdleInv == lock = Nobody /\ \A w \in Writer : tx[w].pc = "idle" /\ ~tx[w].fresh

ReplicaInv ==
    /\ StoreInv /\ IdleInv /\ PumpInv /\ CoverInv
    /\ ReplicaTypeOK
    /\ ProcInv /\ OpenInv
    /\ BatchInv /\ BelowInv /\ ShownInv /\ ViewInv

-----------------------------------------------------------------------------
\* A set of natural numbers with an upper bound has a maximum: otherwise the least
\* of its bounds would not be the least.
LEMMA LeastNatural ==
    ASSUME NEW T, T \subseteq Nat, T # {}
    PROVE  \E x \in T : \A y \in T : x <= y
<1> DEFINE R == {ss \in Nat \X Nat : ss[1] < ss[2]}
<1>1. IsWellFoundedOn(R, Nat)
  BY NatLessThanWellFounded DEF OpToRel
<1> HIDE DEF R
<1>2. PICK x \in T : \A y \in T : <<y, x>> \notin R
  BY <1>1, WFMin
<1>3. \A y \in T : ~(y < x)
  BY <1>2 DEF R
<1> QED
  BY <1>3

LEMMA MaxOfBounded ==
    ASSUME NEW S, S \subseteq Nat, S # {}, NEW n \in Nat, \A i \in S : i <= n
    PROVE  Max(S) \in S /\ \A i \in S : i <= Max(S)
<1> DEFINE T == {m \in Nat : \A i \in S : i <= m}
<1>1. PICK m \in T : \A b \in T : m <= b
  <2>1. T \subseteq Nat /\ n \in T
    OBVIOUS
  <2> HIDE DEF T
  <2> QED
    BY <2>1, LeastNatural
<1>2. m \in S
  <2> SUFFICES ASSUME m \notin S PROVE FALSE
    OBVIOUS
  <2>1. m \in Nat /\ \A i \in S : i < m
    BY <1>1
  <2>2. m # 0
    <3>1. PICK s \in S : TRUE
      OBVIOUS
    <3>2. s \in Nat /\ s < m
      BY <2>1
    <3> QED
      BY <3>2
  <2>3. m - 1 \in Nat /\ \A i \in S : i <= m - 1
    BY <2>1, <2>2
  <2>4. m - 1 \in T
    BY <2>3
  <2> QED
    BY <1>1, <2>2, <2>4
<1>3. \A i \in S : m >= i
  BY <1>1
<1> QED
  BY <1>2, <1>3 DEF Max

\* The row that ApplyBatch takes for a configuration decides in the batch.
LEMMA LastDecides ==
    ASSUME events \in Seq(PageRow), NEW k, \E i \in DOMAIN events : events[i].key = k
    PROVE  \E i \in DOMAIN events : Decides(i, k) /\ LastOf(k) = events[i].row
<1> DEFINE S == {i \in DOMAIN events : events[i].key = k}
<1>1. /\ S \subseteq Nat /\ S # {} /\ Len(events) \in Nat
      /\ \A i \in S : i <= Len(events)
  <2>1. DOMAIN events = 1 .. Len(events) /\ Len(events) \in Nat
    OBVIOUS
  <2> QED
    BY <2>1
<1>2. Max(S) \in S /\ \A i \in S : i <= Max(S)
  BY <1>1, MaxOfBounded
<1>3. Decides(Max(S), k)
  <2>1. PICK m \in S : m = Max(S) /\ \A i \in S : i <= m
    BY <1>2
  <2>2. \A j \in DOMAIN events : m < j => j \notin S
    <3> HIDE DEF S
    <3> SUFFICES ASSUME NEW j \in DOMAIN events, m < j, j \in S PROVE FALSE
      OBVIOUS
    <3> QED
      BY <1>1, <2>1
  <2>3. \A j \in DOMAIN events : m < j => events[j].key # k
    BY <2>2
  <2> QED
    BY <2>1, <2>3 DEF Decides
<1> QED
  BY <1>2, <1>3 DEF LastOf

-----------------------------------------------------------------------------
LEMMA RowFacts ==
    ASSUME ReplicaInv, NEW k \in Key
    PROVE  /\ table[k] \in Row /\ table[k].seq \in Nat
           /\ delivered[k] \in Row /\ delivered[k].seq \in Nat
           /\ served[k] \in Entry /\ served[k].row \in Row /\ served[k].row.seq \in Nat
           /\ served[k].shown \in BOOLEAN
           /\ served[k] = [row |-> served[k].row, shown |-> served[k].shown]
  BY DEF ReplicaInv, ReplicaTypeOK, StoreInv, StoreTypeOK, PumpInv, PumpTypeOK, Row, Entry

LEMMA InitGood == ReplicaInit => ReplicaInv
<1> SUFFICES ASSUME ReplicaInit PROVE ReplicaInv
  OBVIOUS
<1>1. NoRow \in Row /\ NoRow.seq = 0
  BY DEF NoRow, Row, Valid, Deleted
<1>2. StoreInv
  <2> PICK k \in Key : tx = [w \in Writer |-> Ended(k, "none")]
    BY DEF ReplicaInit
  <2>1. Ended(k, "none") \in Call
    BY <1>1 DEF Ended, Call
  <2>2. table \in [Key -> Row] /\ cfgSeq \in Nat /\ \A j \in Key : table[j].seq <= cfgSeq
    BY <1>1, ReplicaAssumption DEF ReplicaInit, Row, Valid, Deleted
  <2>3. \A w \in Writer : tx[w].pc = "idle" /\ ~tx[w].fresh
    BY DEF Ended
  <2>4. lock = Nobody /\ SequencesDistinct
    BY DEF ReplicaInit
  <2> QED
    BY <2>1, <2>2, <2>3, <2>4, NobodyAssumption
    DEF StoreInv, StoreTypeOK, HolderInv, CeilingInv, RowInv, OneFreshInsert
<1>3. PumpInv /\ CoverInv
  BY <1>2, PumpInitInv, CoverInitInv DEF ReplicaInit
<1>4. NoEntry \in Entry
  BY <1>1 DEF NoEntry, Entry
<1>5. ReplicaTypeOK
  <2>1. TypeOK
    BY <1>2, <1>3 DEF TypeOK, StoreInv, PumpInv
  <2>2. BatchSize \in Nat /\ MaxBoots \in Nat
    BY ReplicaAssumption
  <2>3. events \in Seq(PageRow) /\ Len(events) <= BatchSize
    BY <2>2 DEF ReplicaInit
  <2>4. served \in [Key -> Entry]
    BY <1>4 DEF ReplicaInit
  <2>5. /\ proc = "down" /\ boots = 0 /\ pumpPool = FALSE /\ writePool = "none"
        /\ open = {} /\ held = {} /\ loop = "off"
    BY DEF ReplicaInit
  <2>6. /\ boots \in 0 .. MaxBoots
        /\ open \subseteq Apis \X {"http", "https"} /\ held \subseteq Apis
    BY <2>2, <2>5
  <2> QED
    BY <2>1, <2>2, <2>3, <2>4, <2>5, <2>6 DEF ReplicaTypeOK
<1>6. ProcInv /\ OpenInv
  BY DEF ReplicaInit, PumpInit, ProcInv, OpenInv, Orphans, Readable
<1>7. BatchInv /\ BelowInv /\ ShownInv /\ ViewInv
  BY <1>1, <1>2 DEF ReplicaInit, PumpInit, BatchInv, BelowInv, ShownInv, ViewInv, Started,
                    NoEntry, Decides, StoreInv, StoreTypeOK, Row
<1>8. IdleInv
  BY DEF ReplicaInit, IdleInv, Ended
<1> QED
  BY <1>2, <1>3, <1>5, <1>6, <1>7, <1>8 DEF ReplicaInv

-----------------------------------------------------------------------------
LEMMA RowChanges ==
    ASSUME NEW r \in Row, NEW n \in Nat
    PROVE  /\ \A v \in Version : /\ [[r EXCEPT !.ver = v] EXCEPT !.seq = n] \in Row
                               /\ [[r EXCEPT !.ver = v] EXCEPT !.seq = n].seq = n
           /\ [[r EXCEPT !.status = Deleted] EXCEPT !.seq = n] \in Row
           /\ [[r EXCEPT !.status = Deleted] EXCEPT !.seq = n].seq = n
<1>1. PICK v0 \in Version \cup {NoVersion}, st \in {Valid, Deleted}, q \in Nat :
         r = [ver |-> v0, status |-> st, seq |-> q]
  BY DEF Row
<1>2. \A v \in Version : [[r EXCEPT !.ver = v] EXCEPT !.seq = n] = [ver |-> v, status |-> st, seq |-> n]
  <2> SUFFICES ASSUME NEW v \in Version
               PROVE  [[r EXCEPT !.ver = v] EXCEPT !.seq = n] = [ver |-> v, status |-> st, seq |-> n]
    OBVIOUS
  <2> DEFINE a == [r EXCEPT !.ver = v]
  <2>1. a = [ver |-> v, status |-> st, seq |-> q]
    BY <1>1
  <2> HIDE DEF a
  <2>2. [a EXCEPT !.seq = n] = [ver |-> v, status |-> st, seq |-> n]
    BY <2>1
  <2> QED
    BY <2>2 DEF a
<1>3. [[r EXCEPT !.status = Deleted] EXCEPT !.seq = n] = [ver |-> v0, status |-> Deleted, seq |-> n]
  <2> DEFINE a == [r EXCEPT !.status = Deleted]
  <2>1. a = [ver |-> v0, status |-> Deleted, seq |-> q]
    BY <1>1
  <2> HIDE DEF a
  <2>2. [a EXCEPT !.seq = n] = [ver |-> v0, status |-> Deleted, seq |-> n]
    BY <2>1
  <2> QED
    BY <2>2 DEF a
<1> QED
  BY <1>1, <1>2, <1>3 DEF Row

\* A whole write is to the pump what the steps of a writer are.
LEMMA WriteMoves ==
    ASSUME ReplicaInv, WriteStep
    PROVE  /\ StoreInv' /\ TableMoves
           /\ \E k \in Key : /\ \A j \in Key : table[j].seq < table'[k].seq
                             /\ \A j \in Key \ {k} : table'[j] = table[j]
<1> PICK k \in Key : AtomicWrite(k, cfgSeq')
  BY DEF WriteStep
<1>. StoreTypeOK /\ CeilingInv /\ SequencesDistinct /\ IdleInv
  BY DEF ReplicaInv, StoreInv
<1>0. /\ cfgSeq \in Nat /\ cfgSeq' = cfgSeq + 1 /\ UNCHANGED <<lock, tx>>
      /\ table \in [Key -> Row] /\ table[k] \in Row
  BY DEF WriteStep, StoreTypeOK
<1>2. /\ table' \in [Key -> Row]
      /\ table'[k].seq = cfgSeq + 1
      /\ \A j \in Key \ {k} : table'[j] = table[j]
  <2>0. \A row \in Row : table' = [table EXCEPT ![k] = row] =>
          table' \in [Key -> Row] /\ table'[k] = row /\ \A j \in Key \ {k} : table'[j] = table[j]
    BY <1>0
  <2>1. CASE \E ver \in Version : table' = [table EXCEPT ![k].ver = ver, ![k].seq = cfgSeq']
    <3> PICK ver \in Version : table' = [table EXCEPT ![k].ver = ver, ![k].seq = cfgSeq']
      BY <2>1
    <3> DEFINE row == [[table[k] EXCEPT !.ver = ver] EXCEPT !.seq = cfgSeq + 1]
    <3>0. table[k] \in Row /\ cfgSeq + 1 \in Nat
      BY <1>0
    <3>1. table' = [table EXCEPT ![k] = row]
      BY <1>0
    <3>2. row \in Row /\ row.seq = cfgSeq + 1
      BY <3>0, RowChanges, Zenon
    <3> HIDE DEF row
    <3> QED
      BY <2>0, <3>1, <3>2
  <2>2. CASE table' = [table EXCEPT ![k].status = Deleted, ![k].seq = cfgSeq']
    <3> DEFINE row == [[table[k] EXCEPT !.status = Deleted] EXCEPT !.seq = cfgSeq + 1]
    <3>0. table[k] \in Row /\ cfgSeq + 1 \in Nat
      BY <1>0
    <3>1. table' = [table EXCEPT ![k] = row]
      BY <1>0, <2>2
    <3>2. row \in Row /\ row.seq = cfgSeq + 1
      BY <3>0, RowChanges, Zenon
    <3> HIDE DEF row
    <3> QED
      BY <2>0, <3>1, <3>2
  <2> QED
    BY <2>1, <2>2 DEF AtomicWrite
<1>3. \A j \in Key : table[j].seq \in Nat /\ table[j].seq <= cfgSeq
  BY <1>0 DEF CeilingInv, Row
<1>4. StoreTypeOK'
  BY <1>0, <1>2 DEF StoreTypeOK
<1>5. \A w \in Writer : tx'[w] = tx[w] /\ lock' = Nobody
  BY <1>0 DEF IdleInv
<1>6. SequencesDistinct'
  <2>1. \A i, j \in Key : table[i].seq > 0 /\ table[j].seq > 0 /\ i # j => table[i].seq # table[j].seq
    BY DEF SequencesDistinct, Exists
  <2>2. \A i, j \in Key : table'[i].seq > 0 /\ table'[j].seq > 0 /\ i # j => table'[i].seq # table'[j].seq
    BY <1>0, <1>2, <1>3, <2>1
  <2> QED
    BY <2>2 DEF SequencesDistinct, Exists
<1>7. StoreInv'
  BY <1>0, <1>2, <1>3, <1>4, <1>5, <1>6, NobodyAssumption
  DEF IdleInv, StoreInv, HolderInv, CeilingInv, RowInv, OneFreshInsert, Exists, Row
<1>8. TableMoves
  BY <1>0, <1>2 DEF TableMoves, Visible, IdleInv
<1>9. \A j \in Key : table[j].seq < table'[k].seq
  BY <1>0, <1>2, <1>3
<1> QED
  BY <1>2, <1>7, <1>8, <1>9

LEMMA WriteKeeps == ReplicaInv /\ WriteStep => ReplicaInv'
<1> SUFFICES ASSUME ReplicaInv, WriteStep PROVE ReplicaInv'
  OBVIOUS
<1>0. UNCHANGED <<lock, tx, pumpVars, lifeVars, coreVars>>
  BY DEF WriteStep
<1>1. StoreInv' /\ TableMoves
  BY WriteMoves
<1>2. PICK k \in Key : /\ \A j \in Key : table[j].seq < table'[k].seq
                       /\ \A j \in Key \ {k} : table'[j] = table[j]
  BY WriteMoves
<1>3. StoreTypeOK' /\ table'[k].seq \in Nat
  BY <1>1 DEF StoreInv, StoreTypeOK, Row
<1>4. PumpInv' /\ CoverInv'
  BY <1>0, <1>1, <1>3, WriterKeepsPump, CoverWriter DEF ReplicaInv
<1>5. IdleInv'
  BY <1>0 DEF ReplicaInv, IdleInv
<1>6. ReplicaTypeOK'
  BY <1>0, <1>3, <1>4 DEF ReplicaInv, ReplicaTypeOK, TypeOK, PumpInv, lifeVars, coreVars
<1>7. ProcInv' /\ OpenInv' /\ BatchInv' /\ ShownInv'
  BY <1>0 DEF ReplicaInv, ProcInv, OpenInv, BatchInv, ShownInv, Started, Readable, Orphans,
              Decides, FromDump, pumpVars, lifeVars, coreVars
<1>8. BelowInv'
  <2> SUFFICES ASSUME NEW j \in Key
               PROVE  delivered'[j].seq <= table'[j].seq /\ served'[j].row.seq <= delivered'[j].seq
    BY DEF BelowInv
  <2>1. delivered[j].seq <= table[j].seq /\ served[j].row.seq <= delivered[j].seq
    BY DEF ReplicaInv, BelowInv
  <2>2. delivered' = delivered /\ served' = served
    BY <1>0 DEF pumpVars, coreVars
  <2>3. table'[j] = table[j] \/ table[j].seq < table'[j].seq
    BY <1>2
  <2>4. table[j].seq \in Nat /\ delivered[j].seq \in Nat /\ table'[j].seq \in Nat
    BY <1>3, RowFacts DEF StoreTypeOK, Row
  <2> QED
    BY <2>1, <2>2, <2>3, <2>4
<1>9. ViewInv'
  <2> SUFFICES ASSUME Started, ~cut
               PROVE  /\ \A i, j \in Key :
                            table'[j].seq <= served[i].row.seq => served[j].row.seq = table'[j].seq
                      /\ \A j \in Key : table'[j].seq > 0 /\ table'[j].seq <= dumpMax =>
                            served[j].row = table'[j]
    BY <1>0 DEF ViewInv, Started, Exists, pumpVars, coreVars
  <2>1. /\ \A i, j \in Key : table[j].seq <= served[i].row.seq => served[j].row.seq = table[j].seq
        /\ \A j \in Key : table[j].seq > 0 /\ table[j].seq <= dumpMax => served[j].row = table[j]
    BY DEF ReplicaInv, ViewInv, Exists
  <2>2. \A i \in Key : /\ served[i].row.seq \in Nat /\ table[i].seq \in Nat
                       /\ served[i].row.seq <= table[i].seq
    <3> TAKE i \in Key
    <3>1. served[i].row.seq <= delivered[i].seq /\ delivered[i].seq <= table[i].seq
      BY DEF ReplicaInv, BelowInv
    <3>2. served[i].row.seq \in Nat /\ table[i].seq \in Nat /\ delivered[i].seq \in Nat
      BY RowFacts
    <3> QED
      BY <3>1, <3>2
  <2>3. \A i \in Key : served[i].row.seq < table'[k].seq
    BY <1>2, <1>3, <2>2
  <2>4. dumpMax \in Nat /\ dumpMax < table'[k].seq
    <3>1. dumpMax \in Nat /\ Visible(dumpMax)
      BY DEF ReplicaInv, PumpInv, PumpTypeOK, PageInv, Marks
    <3>2. table'[k] # table[k]
      BY <1>2, <2>2
    <3> QED
      BY <1>1, <3>1, <3>2 DEF TableMoves
  <2> QED
    BY <1>2, <1>3, <2>1, <2>2, <2>3, <2>4
<1> QED
  BY <1>1, <1>4, <1>5, <1>6, <1>7, <1>8, <1>9 DEF ReplicaInv

-----------------------------------------------------------------------------
\* A process that starts again: what it knew is gone, the table is not.
LEMMA PumpInitNext == StoreInv' /\ PumpInit' => PumpInv' /\ CoverInv'
  BY PumpInitInv, CoverInitInv, PTL

LEMMA StoreStays ==
    ASSUME ReplicaInv, UNCHANGED storeVars
    PROVE  StoreInv' /\ IdleInv'
<1>1. StoreInv'
  BY StoreInvStep DEF ReplicaInv
<1>2. IdleInv'
  BY DEF ReplicaInv, IdleInv, storeVars
<1> QED
  BY <1>1, <1>2

LEMMA DieKeeps == ReplicaInv /\ Die => ReplicaInv'
<1> SUFFICES ASSUME ReplicaInv, Die PROVE ReplicaInv'
  OBVIOUS
<1>0. UNCHANGED storeVars /\ PumpInit' /\ boots' = boots
  BY DEF Die, PumpInit
<1>1. StoreInv' /\ IdleInv'
  BY <1>0, StoreStays
<1>2. PumpInv' /\ CoverInv'
  BY <1>0, <1>1, PumpInitNext
<1>3. NoRow \in Row /\ NoRow.seq = 0 /\ NoEntry \in Entry
  BY DEF NoRow, Row, Valid, Deleted, NoEntry, Entry
<1>4. ReplicaTypeOK'
  <2>1. TypeOK'
    BY <1>1, <1>2 DEF TypeOK, StoreInv, PumpInv
  <2>2. events' \in Seq(PageRow) /\ Len(events') <= BatchSize
    BY ReplicaAssumption DEF Die
  <2>3. /\ proc' = "down" /\ boots' = boots /\ pumpPool' = FALSE /\ writePool' = "none"
        /\ open' = {} /\ held' = {} /\ loop' = "off"
    BY <1>0 DEF Die
  <2>4. served' \in [Key -> Entry]
    BY <1>3 DEF Die
  <2>5. boots' \in 0 .. MaxBoots /\ open' \subseteq Apis \X {"http", "https"} /\ held' \subseteq Apis
    BY <2>3 DEF ReplicaInv, ReplicaTypeOK
  <2> QED
    BY <2>1, <2>2, <2>3, <2>4, <2>5 DEF ReplicaTypeOK
<1>5. ProcInv' /\ OpenInv'
  BY DEF Die, ProcInv, OpenInv, Orphans, Readable
<1>6. \A k \in Key : table'[k].seq \in Nat
  BY <1>1 DEF StoreInv, StoreTypeOK, Row
<1>7. BatchInv' /\ BelowInv' /\ ShownInv' /\ ViewInv'
  BY <1>3, <1>6 DEF Die, BatchInv, BelowInv, ShownInv, ViewInv, Started, NoEntry, Decides
<1> QED
  BY <1>1, <1>2, <1>4, <1>5, <1>7 DEF ReplicaInv

-----------------------------------------------------------------------------
\* The steps of the pump.
PumpStep == DumpNext \/ DumpConnBreaks \/ ScanNext \/ StopBegin \/ StopEnd

LEMMA PumpKeeps ==
    ASSUME ReplicaInv, PumpStep
    PROVE  UNCHANGED storeVars /\ StoreInv' /\ IdleInv' /\ PumpInv' /\ CoverInv' /\ TypeOK'
<1>1. UNCHANGED storeVars
  BY DEF PumpStep, DumpNext, ScanNext, DumpAcquire, DumpMaxId, DumpQuery, DumpSend,
         DumpConnBreaks, DumpClose, DumpStartScan, ScanStart, ScanTop, ScanAcquire,
         ScanQuery, ScanSend, ScanMark, StopBegin, StopEnd
<1>2. StoreInv' /\ IdleInv'
  BY <1>1, StoreStays
<1>3. PumpInv' /\ CoverInv'
  BY DumpKeepsPump, ScanKeepsPump, CoverStep DEF ReplicaInv, PumpStep
<1> QED
  BY <1>1, <1>2, <1>3 DEF TypeOK, StoreInv, PumpInv

\* A step that moves neither the table nor the pump nor what the stores know.
LEMMA Unmoved ==
    ASSUME ReplicaInv, UNCHANGED <<vars, events, served>>
    PROVE  /\ StoreInv' /\ IdleInv' /\ PumpInv' /\ CoverInv' /\ TypeOK'
           /\ BatchInv' /\ BelowInv' /\ ShownInv' /\ ViewInv'
<1>1. StoreInv' /\ IdleInv'
  BY StoreStays DEF vars
<1>2. TableMoves
  BY VisibleStep DEF ReplicaInv, vars
<1>3. PumpInv' /\ CoverInv'
  BY <1>1, <1>2, WriterKeepsPump, CoverWriter DEF ReplicaInv, vars, StoreInv
<1>4. TypeOK'
  BY <1>1, <1>3 DEF TypeOK, StoreInv, PumpInv
<1>5. BatchInv' /\ BelowInv' /\ ShownInv' /\ ViewInv'
  BY DEF ReplicaInv, BatchInv, BelowInv, ShownInv, ViewInv, Started, FromDump, Decides, Exists,
         vars, storeVars, pumpVars
<1> QED
  BY <1>1, <1>3, <1>4, <1>5

\* What has been received has no gaps once the dump is over, and is all of the dump.
LEMMA DeliveredPrefix ==
    ASSUME ReplicaInv, Started, ~cut
    PROVE  /\ \A j, k \in Key : table[k].seq <= delivered[j].seq => delivered[k].seq = table[k].seq
           /\ \A k \in Key : Exists(k) /\ table[k].seq <= dumpMax => delivered[k] = table[k]
<1>0. /\ start \in Nat /\ dumpMax \in Nat /\ updateScanId \in Nat /\ pageEnd \in Nat
      /\ \A k \in Key : table[k].seq \in Nat /\ delivered[k].seq \in Nat
                        /\ delivered[k].seq <= table[k].seq
  <2>1. start \in Nat /\ dumpMax \in Nat /\ updateScanId \in Nat /\ pageEnd \in Nat
    BY DEF ReplicaInv, PumpInv, PumpTypeOK
  <2>2. \A k \in Key : table[k].seq \in Nat /\ delivered[k].seq \in Nat
    BY RowFacts
  <2> QED
    BY <2>1, <2>2 DEF ReplicaInv, BelowInv
<1>1. /\ dumper = "store" => start <= dumpMax
      /\ dumper = "done" => dumpMax <= updateScanId
  BY DEF ReplicaInv, PumpInv, ControlInv, ShownInv
<1>2. ASSUME NEW j \in Key, NEW k \in Key, table[k].seq <= delivered[j].seq
      PROVE  delivered[k].seq = table[k].seq
  <2>1. CASE ~Exists(k)
    BY <1>0, <2>1 DEF Exists
  <2>2. CASE Exists(k) /\ dumper = "store"
    <3>1. delivered[j].seq <= start
      BY <2>2 DEF ReplicaInv, PumpInv, OrderInv
    <3>2. table[k].seq <= dumpMax
      BY <1>0, <1>1, <1>2, <2>2, <3>1
    <3> QED
      BY <2>2, <3>2 DEF ReplicaInv, CoverInv, Sent
  <2>3. CASE Exists(k) /\ dumper = "done" /\ scanner # "send"
    <3>1. delivered[j].seq <= updateScanId
      BY <2>3 DEF ReplicaInv, PumpInv, OrderInv
    <3>2. table[k].seq <= updateScanId
      BY <1>0, <1>2, <3>1
    <3> QED
      BY <2>3, <3>2 DEF ReplicaInv, CoverInv, Sent
  <2>4. CASE Exists(k) /\ scanner = "send"
    <3>1. delivered[j].seq <= pageEnd
      BY <2>4 DEF ReplicaInv, PumpInv, OrderInv
    <3>2. table[k].seq <= pageEnd
      BY <1>0, <1>2, <3>1
    <3>3. Sent(k) \/ Paged(k)
      BY <2>4, <3>2 DEF ReplicaInv, CoverInv
    <3>4. Paged(k) => delivered[j].seq < table[k].seq
      BY DEF ReplicaInv, PumpInv, OrderInv, Paged
    <3> QED
      BY <1>0, <1>2, <3>3, <3>4 DEF Sent
  <2> QED
    BY <2>1, <2>2, <2>3, <2>4 DEF Started
<1>3. ASSUME NEW k \in Key, Exists(k), table[k].seq <= dumpMax
      PROVE  delivered[k] = table[k]
  <2>1. CASE dumper = "store"
    BY <1>3, <2>1 DEF ReplicaInv, CoverInv, Sent
  <2>2. CASE dumper = "done"
    <3>1. table[k].seq <= updateScanId
      BY <1>0, <1>1, <1>3, <2>2
    <3> QED
      BY <1>3, <2>2, <3>1 DEF ReplicaInv, CoverInv, Sent
  <2> QED
    BY <2>1, <2>2 DEF Started
<1> QED
  BY <1>2, <1>3

\* The steps of the pump that hand nothing over.
QuietStep ==
    \/ DumpAcquire \/ DumpMaxId \/ DumpQuery \/ DumpClose \/ DumpStartScan \/ DumpConnBreaks
    \/ ScanStart \/ ScanTop \/ ScanAcquire \/ ScanQuery \/ ScanMark \/ StopBegin \/ StopEnd

LEMMA QuietKeeps ==
    ASSUME ReplicaInv, QuietStep, UNCHANGED <<events, served>>
    PROVE  BatchInv' /\ BelowInv' /\ ShownInv' /\ ViewInv'
<1>0. UNCHANGED <<table, delivered>> /\ (Started /\ dumper = "done" => dumper' = "done")
  BY DEF QuietStep, DumpAcquire, DumpMaxId, DumpQuery, DumpConnBreaks, DumpClose, DumpStartScan,
         ScanStart, ScanTop, ScanAcquire, ScanQuery, ScanMark, StopBegin, StopEnd, storeVars
<1>1. BelowInv'
  BY <1>0 DEF ReplicaInv, BelowInv
<1>2. CASE DumpMaxId
  <2>1. dumper = "maxId" /\ dumper' = "query" /\ events = <<>> /\ start = 0 /\ dumpMax' \in Nat
    <3>1. \A k \in Key : table[k].seq \in Nat
      BY RowFacts
    <3> QED
      BY <1>2, <3>1 DEF DumpMaxId, ReplicaInv, BatchInv, PumpInv, ControlInv
  <2>2. \A k \in Key : served[k].row.seq = 0
    <3> TAKE k \in Key
    <3>1. delivered[k].seq <= start /\ served[k].row.seq <= delivered[k].seq
      BY <2>1 DEF ReplicaInv, PumpInv, OrderInv, BelowInv
    <3>2. delivered[k].seq \in Nat /\ served[k].row.seq \in Nat
      BY RowFacts
    <3> QED
      BY <2>1, <3>1, <3>2
  <2>3. BatchInv'
    BY <1>0, <2>1 DEF ReplicaInv, BatchInv, Decides
  <2>4. ShownInv'
    BY <2>1, <2>2 DEF ReplicaInv, ShownInv, FromDump
  <2>5. ViewInv'
    BY <2>1 DEF ViewInv, Started
  <2> QED
    BY <1>1, <2>3, <2>4, <2>5
<1>3. CASE ~DumpMaxId
  <2>0. UNCHANGED dumpMax
    BY <1>3 DEF QuietStep, DumpAcquire, DumpQuery, DumpConnBreaks, DumpClose, DumpStartScan,
           ScanStart, ScanTop, ScanAcquire, ScanQuery, ScanMark, StopBegin, StopEnd
  <2>1. dumper' # "done" => dumper # "done"
    BY <1>0 DEF Started
  <2>2. BatchInv'
    BY <1>0, <2>0, <2>1 DEF ReplicaInv, BatchInv, Decides
  <2>3. dumper' = "done" => dumpMax' <= updateScanId'
    <3>1. CASE DumpStartScan
      BY <3>1 DEF DumpStartScan, ReplicaInv, PumpInv, PumpTypeOK
    <3>2. CASE ScanMark
      <4>1. dumper = "done" /\ updateScanId <= pageEnd
        BY <3>2 DEF ScanMark, ReplicaInv, PumpInv, ControlInv
      <4>2. dumpMax <= updateScanId /\ dumpMax \in Nat /\ updateScanId \in Nat /\ pageEnd \in Nat
        BY <4>1 DEF ReplicaInv, ShownInv, PumpInv, PumpTypeOK
      <4> QED
        BY <3>2, <4>1, <4>2 DEF ScanMark
    <3>3. CASE ~DumpStartScan /\ ~ScanMark
      <4>1. UNCHANGED <<dumpMax, updateScanId>> /\ (dumper' = "done" => dumper = "done")
        BY <1>3, <3>3 DEF QuietStep, DumpAcquire, DumpQuery, DumpConnBreaks, DumpClose,
               ScanStart, ScanTop, ScanAcquire, ScanQuery, StopBegin, StopEnd
      <4> QED
        BY <4>1 DEF ReplicaInv, ShownInv
    <3> QED
      BY <3>1, <3>2, <3>3
  <2>4. ShownInv'
    BY <2>0, <2>3 DEF ReplicaInv, ShownInv, FromDump
  <2>5. ViewInv'
    <3>1. CASE DumpClose
      <4>1. dumper = "close" /\ UNCHANGED <<table, served, cut, dumpMax>> /\ events = <<>>
        BY <1>0, <2>0, <3>1 DEF DumpClose, ReplicaInv, BatchInv
      <4>2. \A k \in Key : served[k].row = delivered[k]
        BY <4>1 DEF ReplicaInv, BatchInv
      <4>3. /\ start \in Nat /\ dumpMax \in Nat /\ start <= dumpMax
            /\ \A k \in Key : delivered[k].seq <= start
        BY <4>1 DEF ReplicaInv, PumpInv, PumpTypeOK, ControlInv, OrderInv
      <4>4. \A k \in Key : /\ table[k].seq \in Nat /\ delivered[k].seq \in Nat
                           /\ delivered[k].seq <= table[k].seq
        <5>1. \A k \in Key : table[k].seq \in Nat /\ delivered[k].seq \in Nat
          BY RowFacts
        <5> QED
          BY <5>1 DEF ReplicaInv, BelowInv
      <4>5. ~cut => \A k \in Key : Exists(k) /\ table[k].seq <= dumpMax => delivered[k] = table[k]
        BY <4>1 DEF ReplicaInv, CoverInv, Sent
      <4>6. ~cut => \A j, k \in Key :
               table[k].seq <= delivered[j].seq => delivered[k].seq = table[k].seq
        <5> SUFFICES ASSUME ~cut, NEW j \in Key, NEW k \in Key, table[k].seq <= delivered[j].seq
                     PROVE  delivered[k].seq = table[k].seq
          OBVIOUS
        <5>1. delivered[j].seq <= start /\ table[k].seq <= dumpMax
          BY <4>3, <4>4
        <5>2. CASE Exists(k)
          BY <4>5, <5>1, <5>2
        <5>3. CASE ~Exists(k)
          BY <4>4, <5>3 DEF Exists
        <5> QED
          BY <5>2, <5>3
      <4> QED
        BY <4>1, <4>2, <4>5, <4>6 DEF ViewInv, Exists
    <3>2. CASE ~DumpClose
      <4>1. Started' => Started /\ cut' = cut
        BY <1>3, <3>2 DEF QuietStep, DumpAcquire, DumpQuery, DumpConnBreaks, DumpStartScan,
               ScanStart, ScanTop, ScanAcquire, ScanQuery, ScanMark, StopBegin, StopEnd, Started
      <4> QED
        BY <1>0, <2>0, <4>1 DEF ReplicaInv, ViewInv, Exists
    <3> QED
      BY <3>1, <3>2
  <2> QED
    BY <1>1, <2>2, <2>4, <2>5
<1> QED
  BY <1>2, <1>3

\* A row of the page is no newer than the table, and newer than all received.
LEMMA PageRowFacts ==
    ASSUME ReplicaInv, NEW r \in page
    PROVE  /\ r.key \in Key /\ r.row \in Row /\ r.row.seq \in Nat
           /\ 0 < r.row.seq /\ r.row.seq <= pageEnd /\ r.row.seq <= table[r.key].seq
           /\ delivered[r.key].seq < r.row.seq
<1>1. r.key \in Key /\ r.row \in Row /\ r.row.seq \in Nat /\ pageEnd \in Nat
  BY DEF ReplicaInv, PumpInv, PumpTypeOK, PageRow, Row
<1>2. table[r.key].seq \in Nat
  BY <1>1, RowFacts
<1>3. /\ 0 < r.row.seq /\ r.row.seq <= pageEnd
      /\ table[r.key] = r.row \/ pageEnd < table[r.key].seq
      /\ delivered[r.key].seq < r.row.seq
  BY <1>1 DEF ReplicaInv, PumpInv, PageInv, OrderInv
<1> QED
  BY <1>1, <1>2, <1>3

LEMMA DumpFromPumpKeeps == ReplicaInv /\ pumpPool /\ DumpFromPump => ReplicaInv'
<1> SUFFICES ASSUME ReplicaInv, pumpPool, DumpFromPump PROVE ReplicaInv'
  OBVIOUS
<1>0. /\ dumper = "send" /\ dumper' \in {"query", "send"}
      /\ UNCHANGED <<lifeVars, loop, events, dumpMax, cut>> /\ DumpSend
  BY DEF DumpFromPump, DumpSend
<1>1. StoreInv' /\ IdleInv' /\ PumpInv' /\ CoverInv' /\ TypeOK' /\ table' = table
  BY <1>0, PumpKeeps DEF PumpStep, DumpNext, storeVars
<1>2. PICK r \in page : Send(r)
  BY <1>0 DEF DumpSend
<1>3. PICK q \in page : /\ page' = page \ {q}
                        /\ served' = [served EXCEPT ![q.key] = [row |-> q.row, shown |-> TRUE]]
  BY DEF DumpFromPump
<1>4. q = r
  BY <1>2, <1>3 DEF Send
<1>5. /\ r.key \in Key /\ r.row \in Row /\ r.row.seq \in Nat /\ 0 < r.row.seq
      /\ r.row.seq <= pageEnd /\ r.row.seq <= table[r.key].seq
  BY PageRowFacts
<1>6. delivered' = [delivered EXCEPT ![r.key] = r.row]
  BY <1>2 DEF Send
<1>7. delivered \in [Key -> Row] /\ served \in [Key -> Entry]
  BY DEF ReplicaInv, PumpInv, PumpTypeOK, ReplicaTypeOK
<1>8. /\ delivered'[r.key] = r.row /\ served'[r.key] = [row |-> r.row, shown |-> TRUE]
      /\ \A k \in Key \ {r.key} : delivered'[k] = delivered[k] /\ served'[k] = served[k]
  BY <1>3, <1>4, <1>5, <1>6, <1>7
<1>9. events = <<>> /\ pageEnd = start /\ start <= dumpMax /\ start \in Nat /\ dumpMax \in Nat
  BY <1>0 DEF ReplicaInv, BatchInv, PumpInv, PumpTypeOK, ControlInv
<1>10. ReplicaTypeOK'
  <2>1. [row |-> r.row, shown |-> TRUE] \in Entry
    BY <1>5 DEF Entry
  <2>2. served' \in [Key -> Entry]
    BY <1>3, <1>4, <1>7, <2>1
  <2> QED
    BY <1>0, <1>1, <2>2 DEF ReplicaInv, ReplicaTypeOK, lifeVars
<1>11. ProcInv' /\ OpenInv'
  BY <1>0 DEF ReplicaInv, ProcInv, OpenInv, Orphans, Readable, Started, lifeVars
<1>12. BatchInv'
  <2>1. \A k \in Key : served[k].row = delivered[k]
    BY <1>9 DEF ReplicaInv, BatchInv
  <2>2. \A k \in Key : served'[k].row = delivered'[k]
    BY <1>8, <2>1
  <2> QED
    BY <1>0, <1>9, <2>2 DEF BatchInv, Decides
<1>13. BelowInv'
  <2>1. \A k \in Key : delivered[k].seq <= table[k].seq /\ served[k].row.seq <= delivered[k].seq
    BY DEF ReplicaInv, BelowInv
  <2> QED
    BY <1>1, <1>5, <1>8, <2>1 DEF BelowInv
<1>14. ShownInv'
  <2>1. r.row.seq <= dumpMax
    BY <1>5, <1>9
  <2>2. \A k \in Key :
          served[k].shown <=> /\ served[k].row.seq > 0
                              /\ served[k].row.status = Valid \/ served[k].row.seq <= dumpMax
    BY DEF ReplicaInv, ShownInv, FromDump
  <2>3. \A k \in Key :
          served'[k].shown <=> /\ served'[k].row.seq > 0
                               /\ served'[k].row.status = Valid \/ served'[k].row.seq <= dumpMax
    <3> TAKE k \in Key
    <3>1. CASE k = r.key
      BY <1>5, <1>8, <2>1, <3>1
    <3>2. CASE k # r.key
      BY <1>8, <2>2, <3>2
    <3> QED
      BY <3>1, <3>2
  <2> QED
    BY <1>0, <2>3 DEF ShownInv, FromDump
<1>15. ViewInv'
  BY <1>0 DEF ViewInv, Started
<1> QED
  BY <1>1, <1>10, <1>11, <1>12, <1>13, <1>14, <1>15 DEF ReplicaInv

LEMMA DeliverKeeps == ReplicaInv /\ pumpPool /\ Deliver => ReplicaInv'
<1> SUFFICES ASSUME ReplicaInv, pumpPool, Deliver PROVE ReplicaInv'
  OBVIOUS
<1>0. /\ dumper = "done" /\ scanner = "send" /\ Len(events) < BatchSize
      /\ UNCHANGED <<lifeVars, loop, served, dumper, dumpMax, updateScanId, cut>> /\ ScanSend
      /\ loop = "collect"
  BY DEF Deliver, ScanSend, ReplicaInv, PumpInv, ControlInv
<1>1. StoreInv' /\ IdleInv' /\ PumpInv' /\ CoverInv' /\ TypeOK' /\ table' = table
  BY <1>0, PumpKeeps DEF PumpStep, ScanNext, storeVars
<1>2. PICK r \in page : Send(r)
  BY <1>0 DEF ScanSend
<1>3. PICK q \in page : page' = page \ {q} /\ events' = Append(events, q)
  BY DEF Deliver
<1>4. q = r
  BY <1>2, <1>3 DEF Send
<1>5. /\ r.key \in Key /\ r.row \in Row /\ r.row.seq \in Nat /\ r \in PageRow
      /\ r.row.seq <= table[r.key].seq /\ delivered[r.key].seq < r.row.seq
  BY PageRowFacts DEF ReplicaInv, PumpInv, PumpTypeOK
<1>6. dumpMax < r.row.seq
  <2>1. updateScanId < r.row.seq /\ dumpMax \in Nat /\ updateScanId \in Nat
    BY <1>0 DEF ReplicaInv, PumpInv, PumpTypeOK, PageInv
  <2>2. dumpMax <= updateScanId
    BY <1>0 DEF ReplicaInv, ShownInv
  <2> QED
    BY <1>5, <2>1, <2>2
<1>7. /\ delivered'[r.key] = r.row
      /\ \A k \in Key \ {r.key} : delivered'[k] = delivered[k]
  BY <1>2, <1>5 DEF ReplicaInv, PumpInv, PumpTypeOK, Send
<1>8. /\ events \in Seq(PageRow) /\ events' \in Seq(PageRow)
      /\ Len(events) \in Nat /\ Len(events') = Len(events) + 1
      /\ DOMAIN events = 1 .. Len(events) /\ DOMAIN events' = 1 .. Len(events) + 1
      /\ events'[Len(events) + 1] = r
      /\ \A i \in DOMAIN events : events'[i] = events[i]
  BY <1>3, <1>4, <1>5 DEF ReplicaInv, ReplicaTypeOK
<1>9. ReplicaTypeOK'
  <2>1. Len(events') <= BatchSize
    BY <1>0, <1>8, ReplicaAssumption
  <2> QED
    BY <1>0, <1>1, <1>8, <2>1 DEF ReplicaInv, ReplicaTypeOK, lifeVars
<1>10. ProcInv' /\ OpenInv'
  BY <1>0 DEF ReplicaInv, ProcInv, OpenInv, Orphans, Readable, Started, lifeVars
<1>11. BatchInv'
  <2> DEFINE n == Len(events) + 1
  <2>1. ASSUME NEW k \in Key, \A i \in DOMAIN events' : events'[i].key # k
        PROVE  served'[k].row = delivered'[k]
    <3>1. r.key # k
      BY <1>8, <2>1
    <3>2. \A i \in DOMAIN events : events[i].key # k
      BY <1>8, <2>1
    <3> QED
      BY <1>0, <1>7, <3>1, <3>2 DEF ReplicaInv, BatchInv
  <2>2. ASSUME NEW k \in Key, NEW i \in DOMAIN events', Decides(i, k)'
        PROVE  events'[i].row = delivered'[k]
    <3>1. CASE k = r.key
      <4>1. i = n
        BY <1>8, <2>2, <3>1 DEF Decides
      <4> QED
        BY <1>7, <1>8, <3>1, <4>1
    <3>2. CASE k # r.key
      <4>1. i \in DOMAIN events
        BY <1>8, <2>2, <3>2 DEF Decides
      <4>2. Decides(i, k)
        BY <1>8, <2>2, <4>1 DEF Decides
      <4> QED
        BY <1>7, <1>8, <3>2, <4>1, <4>2 DEF ReplicaInv, BatchInv
    <3> QED
      BY <3>1, <3>2
  <2>3. \A i \in DOMAIN events' : dumpMax < events'[i].row.seq
    <3>1. \A i \in DOMAIN events : dumpMax < events[i].row.seq
      BY DEF ReplicaInv, BatchInv
    <3> QED
      BY <1>6, <1>8, <3>1
  <2> QED
    BY <1>0, <2>1, <2>2, <2>3 DEF BatchInv
<1>12. BelowInv'
  <2> SUFFICES ASSUME NEW k \in Key
               PROVE  delivered'[k].seq <= table[k].seq /\ served[k].row.seq <= delivered'[k].seq
    BY <1>0, <1>1 DEF BelowInv
  <2>1. delivered[k].seq <= table[k].seq /\ served[k].row.seq <= delivered[k].seq
    BY DEF ReplicaInv, BelowInv
  <2>2. delivered[k].seq \in Nat /\ served[k].row.seq \in Nat /\ table[k].seq \in Nat
    BY RowFacts
  <2> QED
    BY <1>5, <1>7, <2>1, <2>2
<1>13. ShownInv' /\ ViewInv'
  BY <1>0, <1>1 DEF ReplicaInv, ShownInv, FromDump, ViewInv, Started, Exists
<1> QED
  BY <1>1, <1>9, <1>10, <1>11, <1>12, <1>13 DEF ReplicaInv

\* After a batch the stores have all that was received.
LEMMA ApplyKeeps ==
    ReplicaInv /\ ApplyBatch =>
        ReplicaInv' /\ \A k \in Key : served'[k].row = delivered[k]
<1> SUFFICES ASSUME ReplicaInv, ApplyBatch
             PROVE  ReplicaInv' /\ \A k \in Key : served'[k].row = delivered[k]
  OBVIOUS
<1>0. /\ UNCHANGED <<vars, lifeVars>> /\ loop = "collect" /\ loop' = "top" /\ events' = <<>>
      /\ UNCHANGED <<table, delivered, dumper, dumpMax, updateScanId, cut>>
      /\ Started
  BY DEF ApplyBatch, ReplicaInv, ProcInv, vars, storeVars, pumpVars
<1>1. StoreInv' /\ IdleInv' /\ PumpInv' /\ CoverInv' /\ TypeOK'
  <2>1. StoreInv' /\ IdleInv'
    BY <1>0, StoreStays DEF vars
  <2>2. TableMoves
    BY <1>0, VisibleStep DEF ReplicaInv, vars
  <2>3. PumpInv' /\ CoverInv'
    BY <1>0, <2>1, <2>2, WriterKeepsPump, CoverWriter DEF ReplicaInv, vars, StoreInv
  <2> QED
    BY <2>1, <2>3 DEF TypeOK, StoreInv, PumpInv
<1>2. events \in Seq(PageRow) /\ dumpMax \in Nat
  BY DEF ReplicaInv, ReplicaTypeOK, PumpInv, PumpTypeOK
<1>3. ASSUME NEW k \in Key, \E i \in DOMAIN events : events[i].key = k
      PROVE  /\ dumpMax < delivered[k].seq
             /\ served'[k].row = delivered[k] /\ served'[k] \in Entry
             /\ served'[k].shown <=> delivered[k].status = Valid
  <2>1. PICK i \in DOMAIN events : Decides(i, k) /\ LastOf(k) = events[i].row
    BY <1>2, <1>3, LastDecides
  <2>2. events[i].row = delivered[k] /\ dumpMax < events[i].row.seq /\ delivered[k] \in Row
    BY <2>1, RowFacts DEF ReplicaInv, BatchInv
  <2>3. served'[k] = [row |-> LastOf(k), shown |-> LastOf(k).status = Valid]
    BY <1>3 DEF ApplyBatch
  <2>4. served'[k] = [row |-> delivered[k], shown |-> delivered[k].status = Valid]
    BY <2>1, <2>2, <2>3
  <2>5. PICK b \in BOOLEAN : served'[k] = [row |-> delivered[k], shown |-> b]
                             /\ (b <=> delivered[k].status = Valid)
    BY <2>4, Zenon
  <2> QED
    BY <2>2, <2>5 DEF Entry
<1>4. ASSUME NEW k \in Key, ~\E i \in DOMAIN events : events[i].key = k
      PROVE  served'[k] = served[k] /\ served'[k].row = delivered[k] /\ served'[k] \in Entry
  <2>1. served'[k] = served[k] /\ served[k].row = delivered[k]
    BY <1>4 DEF ApplyBatch, ReplicaInv, BatchInv
  <2> QED
    BY <2>1, RowFacts
<1>5. \A k \in Key : served'[k].row = delivered[k] /\ served'[k] \in Entry
  <2> TAKE k \in Key
  <2>1. CASE \E i \in DOMAIN events : events[i].key = k
    BY <1>3, <2>1
  <2> QED
    BY <1>4, <2>1
<1>6. ReplicaTypeOK'
  <2>1. served' \in [Key -> Entry]
    BY <1>5 DEF ApplyBatch
  <2>2. events' \in Seq(PageRow) /\ Len(events') <= BatchSize
    BY <1>0, ReplicaAssumption
  <2> QED
    BY <1>0, <1>1, <2>1, <2>2 DEF ReplicaInv, ReplicaTypeOK, lifeVars
<1>7. ProcInv' /\ OpenInv'
  <2>1. proc \notin {"down", "core"}
    BY <1>0 DEF ReplicaInv, ProcInv
  <2> QED
    BY <1>0, <2>1 DEF ReplicaInv, ProcInv, OpenInv, Orphans, Readable, Started, lifeVars
<1>8. BatchInv'
  BY <1>0, <1>5 DEF BatchInv, Decides
<1>9. BelowInv'
  <2>1. \A k \in Key : delivered[k].seq <= table[k].seq /\ delivered[k].seq \in Nat
    BY RowFacts DEF ReplicaInv, BelowInv
  <2> QED
    BY <1>0, <1>5, <2>1 DEF BelowInv
<1>10. ShownInv'
  <2> SUFFICES ASSUME NEW k \in Key
               PROVE  served'[k].shown <=>
                        /\ served'[k].row.seq > 0
                        /\ served'[k].row.status = Valid \/ served'[k].row.seq <= dumpMax
    BY <1>0 DEF ReplicaInv, ShownInv, FromDump
  <2>1. CASE \E i \in DOMAIN events : events[i].key = k
    <3>1. delivered[k].seq \in Nat
      BY RowFacts
    <3> QED
      BY <1>2, <1>3, <2>1, <3>1
  <2>2. CASE ~\E i \in DOMAIN events : events[i].key = k
    BY <1>4, <2>2 DEF ReplicaInv, ShownInv, FromDump
  <2> QED
    BY <2>1, <2>2
<1>11. ViewInv'
  <2> SUFFICES ASSUME ~cut
               PROVE  /\ \A j, k \in Key :
                            table[k].seq <= delivered[j].seq => delivered[k].seq = table[k].seq
                      /\ \A k \in Key : Exists(k) /\ table[k].seq <= dumpMax => delivered[k] = table[k]
    BY <1>0, <1>5 DEF ViewInv, Exists
  <2> QED
    BY <1>0, DeliveredPrefix
<1> QED
  BY <1>1, <1>5, <1>6, <1>7, <1>8, <1>9, <1>10, <1>11 DEF ReplicaInv

-----------------------------------------------------------------------------
\* The servers of an API: both listen and are kept, or none is kept and one of
\* two may listen.
LEMMA StartCombinedFacts ==
    ASSUME NEW api \in Apis, NEW next, StartCombined(api, next),
           open \subseteq Apis \X {"http", "https"}, held \subseteq Apis,
           Orphans = {}, api \notin held
    PROVE  /\ open' \subseteq Apis \X {"http", "https"} /\ held' \subseteq Apis
           /\ \/ proc' = next /\ Orphans' = {} /\ held' = held \cup {api}
              \/ /\ proc' = "failed" /\ held' = held
                 /\ Orphans' = {} \/ (api \in Tls /\ Orphans' = {<<api, "http">>})
<1>0. \A e \in open : e[1] \in held
  BY DEF Orphans
<1>1. CASE /\ open' = open \cup {<<api, "http">>} \cup
                         (IF api \in Tls THEN {<<api, "https">>} ELSE {})
           /\ held' = held \cup {api}
           /\ proc' = next
  <2>1. \A e \in open' : e[1] \in held'
    BY <1>0, <1>1
  <2> QED
    BY <1>1, <2>1 DEF Orphans
<1>2. CASE /\ open' \in {open} \cup (IF api \in Tls THEN {open \cup {<<api, "http">>}} ELSE {})
           /\ proc' = "failed"
           /\ held' = held
  <2>1. CASE open' = open
    BY <1>0, <1>2, <2>1 DEF Orphans
  <2>2. CASE api \in Tls /\ open' = open \cup {<<api, "http">>}
    <3>1. Orphans' = {<<api, "http">>}
      BY <1>0, <1>2, <2>2 DEF Orphans
    <3> QED
      BY <1>2, <2>2, <3>1
  <2> QED
    BY <1>2, <2>1, <2>2
<1> QED
  BY <1>1, <1>2 DEF StartCombined

\* The steps of Startup and Shutdown, and the top of pumpLoop, leave the table, the
\* pump and the stores alone.
ProcessStep ==
    \/ LoopTop \/ Boot \/ CoreStarted \/ StartWriteApi \/ StartReadApi \/ Shutdown
    \/ StopWriteApi /\ ~Die
    \/ StopReadApi

LEMMA ProcessStill == ReplicaInv /\ ProcessStep => UNCHANGED <<vars, events, served>>
  BY DEF ProcessStep, LoopTop, Boot, CoreStarted, StartWriteApi, StartReadApi, Shutdown,
         StopWriteApi, StopReadApi, coreVars

LEMMA ProcessKeeps == ReplicaInv /\ ProcessStep => ReplicaInv'
<1> SUFFICES ASSUME ReplicaInv, ProcessStep PROVE ReplicaInv'
  OBVIOUS
<1>0. UNCHANGED <<vars, events, served>> /\ UNCHANGED <<dumper, dumpMax>>
  BY ProcessStill DEF vars, pumpVars
<1>1. /\ StoreInv' /\ IdleInv' /\ PumpInv' /\ CoverInv' /\ TypeOK'
      /\ BatchInv' /\ BelowInv' /\ ShownInv' /\ ViewInv'
  BY <1>0, Unmoved
<1>2. /\ ReplicaTypeOK /\ ProcInv /\ OpenInv
  BY DEF ReplicaInv
<1>3. events' \in Seq(PageRow) /\ Len(events') <= BatchSize /\ served' \in [Key -> Entry]
  BY <1>0, <1>2 DEF ReplicaTypeOK
<1> SUFFICES ReplicaTypeOK' /\ ProcInv' /\ OpenInv'
  BY <1>1 DEF ReplicaInv
<1>4. CASE LoopTop
  <2>1. /\ UNCHANGED lifeVars /\ loop = "top" /\ loop' \in {"collect", "exit"}
    BY <1>4 DEF LoopTop
  <2>2. proc \notin {"down", "core"}
    BY <1>2, <2>1 DEF ProcInv
  <2> QED
    BY <1>0, <1>1, <1>2, <1>3, <2>1, <2>2 DEF ReplicaTypeOK, ProcInv, OpenInv, Started, Readable,
       Orphans, lifeVars
<1>5. CASE Boot
  <2>0. /\ proc = "down" /\ proc' \in {"core", "failed"} /\ UNCHANGED <<writePool, open, held, loop>>
        /\ loop = "off" /\ open = {} /\ held = {}
    BY <1>2, <1>5 DEF Boot, coreVars, ProcInv
  <2>1. pumpPool' = TRUE \/ pumpPool' = pumpPool
    BY <1>5 DEF Boot
  <2>2. boots' \in 0 .. MaxBoots
    BY <1>2, <1>5, ReplicaAssumption DEF Boot, ReplicaTypeOK
  <2>3. ReplicaTypeOK'
    BY <1>1, <1>2, <1>3, <2>0, <2>1, <2>2 DEF ReplicaTypeOK
  <2>4. ~pumpPool' => dumper' = "acquire"
    BY <1>0, <1>2, <2>1 DEF ProcInv
  <2>5. ProcInv'
    BY <1>0, <1>2, <2>0, <2>4 DEF ProcInv, Started, Readable
  <2>6. OpenInv'
    BY <2>0 DEF OpenInv, Orphans
  <2> QED
    BY <2>3, <2>5, <2>6
<1>6. CASE CoreStarted
  BY <1>0, <1>1, <1>2, <1>3, <1>6 DEF CoreStarted, ReplicaTypeOK, ProcInv, OpenInv, Started,
     Readable, Orphans
<1>7. CASE Shutdown
  BY <1>0, <1>1, <1>2, <1>3, <1>7 DEF Shutdown, ReplicaTypeOK, ProcInv, OpenInv, Started,
     Readable, Orphans, coreVars
<1>8. CASE StartWriteApi
  <2>0. /\ proc = "write" /\ open = {} /\ held = {} /\ Orphans = {} /\ Started
        /\ UNCHANGED <<boots, pumpPool, loop>>
    BY <1>2, <1>8 DEF StartWriteApi, OpenInv, ProcInv, coreVars
  <2>1. CASE proc' \in {"read", "failed"} /\ UNCHANGED <<writePool, open, held>>
    BY <1>0, <1>1, <1>2, <1>3, <2>0, <2>1 DEF ReplicaTypeOK, ProcInv, OpenInv, Started, Readable,
       Orphans
  <2>2. CASE "write" \in Apis /\ writePool' = "open" /\ StartCombined("write", "read")
    <3>1. /\ open' \subseteq Apis \X {"http", "https"} /\ held' \subseteq Apis
          /\ \/ proc' = "read" /\ Orphans' = {} /\ held' = held \cup {"write"}
             \/ /\ proc' = "failed" /\ held' = held
                /\ Orphans' = {} \/ ("write" \in Tls /\ Orphans' = {<<"write", "http">>})
      BY <1>2, <2>0, <2>2, StartCombinedFacts DEF ReplicaTypeOK
    <3>2. ReplicaTypeOK'
      BY <1>1, <1>2, <1>3, <2>0, <2>2, <3>1 DEF ReplicaTypeOK
    <3>3. ProcInv'
      BY <1>0, <1>2, <2>0, <3>1 DEF ProcInv, Started
    <3>4. OpenInv'
      BY <2>0, <3>1 DEF OpenInv
    <3> QED
      BY <3>2, <3>3, <3>4
  <2> QED
    BY <1>8, <2>1, <2>2 DEF StartWriteApi
<1>9. CASE StartReadApi
  <2>0. /\ proc = "read" /\ Orphans = {} /\ Started /\ "read" \notin held /\ "read" \in Apis
        /\ UNCHANGED <<boots, pumpPool, writePool, loop>> /\ StartCombined("read", "serving")
    BY <1>2, <1>9, ApisAssumption DEF StartReadApi, OpenInv, ProcInv, coreVars
  <2>1. /\ open' \subseteq Apis \X {"http", "https"} /\ held' \subseteq Apis
        /\ \/ proc' = "serving" /\ Orphans' = {} /\ held' = held \cup {"read"}
           \/ /\ proc' = "failed" /\ held' = held
              /\ Orphans' = {} \/ ("read" \in Tls /\ Orphans' = {<<"read", "http">>})
    BY <1>2, <2>0, StartCombinedFacts DEF ReplicaTypeOK
  <2>2. ReplicaTypeOK'
    BY <1>1, <1>2, <1>3, <2>0, <2>1 DEF ReplicaTypeOK
  <2>3. ProcInv'
    BY <1>0, <1>2, <2>0, <2>1 DEF ProcInv, Started
  <2>4. OpenInv'
    BY <2>0, <2>1 DEF OpenInv
  <2> QED
    BY <2>2, <2>3, <2>4
<1>10. ASSUME NEW api \in {"write", "read"}, open' = open \ Closed(api), held' = held
       PROVE  /\ open' \subseteq open /\ Orphans' = Orphans
              /\ \A e \in open' : e[1] = api => e \in Orphans'
  <2>1. Orphans' = Orphans
    BY <1>10 DEF Orphans, Closed
  <2>2. \A e \in open' : e[1] = api => e[1] \notin held'
    BY <1>10 DEF Closed
  <2> QED
    BY <1>10, <2>1, <2>2 DEF Orphans
<1>11. CASE StopWriteApi /\ ~Die
  <2>0. /\ proc = "stopWrite" /\ proc' = "stopRead" /\ open' = open \ Closed("write")
        /\ writePool' \in {writePool, "closed"} /\ UNCHANGED <<boots, pumpPool, held, loop>>
    BY <1>11 DEF StopWriteApi, coreVars
  <2>1. /\ open' \subseteq open /\ Orphans' = Orphans
        /\ \A e \in open' : e[1] = "write" => e \in Orphans'
    BY <1>10, <2>0
  <2> QED
    BY <1>0, <1>1, <1>2, <1>3, <2>0, <2>1 DEF ReplicaTypeOK, ProcInv, OpenInv, Started, Readable
<1>12. CASE StopReadApi
  <2>0. /\ proc = "stopRead" /\ proc' = "stopPump" /\ open' = open \ Closed("read")
        /\ UNCHANGED <<boots, pumpPool, writePool, held, loop>>
    BY <1>12 DEF StopReadApi, coreVars
  <2>1. /\ open' \subseteq open /\ Orphans' = Orphans
        /\ \A e \in open' : e[1] = "read" => e \in Orphans'
    BY <1>10, <2>0
  <2> QED
    BY <1>0, <1>1, <1>2, <1>3, <2>0, <2>1 DEF ReplicaTypeOK, ProcInv, OpenInv, Started, Readable
<1> QED
  BY <1>4, <1>5, <1>6, <1>7, <1>8, <1>9, <1>11, <1>12 DEF ProcessStep

\* The pump on its own, and the end of Shutdown, which waits for it.
LoopQuiet ==
    \/ DumpAcquire \/ DumpMaxId \/ DumpQuery \/ DumpClose \/ DumpStartScan \/ DumpConnBreaks
    \/ ScanStart \/ ScanTop \/ ScanAcquire \/ ScanQuery \/ ScanMark

PumpAlone ==
    \/ pumpPool /\ LoopQuiet /\ UNCHANGED <<lifeVars, coreVars>>
    \/ StopPump /\ ~Die
    \/ CoreStopped

LEMMA PumpAloneFacts ==
    ReplicaInv /\ PumpAlone =>
        /\ QuietStep /\ PumpStep
        /\ UNCHANGED <<boots, pumpPool, writePool, open, held, coreVars>>
        /\ Started => Started'
        /\ pumpPool \/ dumper' = dumper
        /\ \/ proc' = proc
           \/ proc = "stopPump" /\ proc' = "stopWait"
           \/ proc = "stopWait" /\ proc' = "stopped"
<1> SUFFICES ASSUME ReplicaInv, PumpAlone
             PROVE  /\ QuietStep /\ PumpStep
                    /\ UNCHANGED <<boots, pumpPool, writePool, open, held, coreVars>>
                    /\ Started => Started'
                    /\ pumpPool \/ dumper' = dumper
                    /\ \/ proc' = proc
                       \/ proc = "stopPump" /\ proc' = "stopWait"
                       \/ proc = "stopWait" /\ proc' = "stopped"
  OBVIOUS
<1>1. CASE pumpPool /\ LoopQuiet /\ UNCHANGED <<lifeVars, coreVars>>
  <2>1. QuietStep /\ PumpStep
    BY <1>1 DEF LoopQuiet, QuietStep, PumpStep, DumpNext, ScanNext
  <2>2. Started => Started'
    BY <1>1 DEF LoopQuiet, DumpAcquire, DumpMaxId, DumpQuery, DumpConnBreaks, DumpClose,
           DumpStartScan, ScanStart, ScanTop, ScanAcquire, ScanQuery, ScanMark, Started
  <2> QED
    BY <1>1, <2>1, <2>2 DEF lifeVars
<1>2. CASE StopPump /\ ~Die
  BY <1>2 DEF StopPump, QuietStep, PumpStep, StopBegin, Started
<1>3. CASE CoreStopped
  BY <1>3 DEF CoreStopped, QuietStep, PumpStep, StopEnd, Started
<1> QED
  BY <1>1, <1>2, <1>3 DEF PumpAlone

LEMMA PumpAloneKeeps == ReplicaInv /\ PumpAlone => ReplicaInv'
<1> SUFFICES ASSUME ReplicaInv, PumpAlone PROVE ReplicaInv'
  OBVIOUS
<1>0. /\ QuietStep /\ PumpStep /\ UNCHANGED <<boots, pumpPool, writePool, open, held>>
      /\ UNCHANGED <<loop, events, served>>
      /\ Started => Started'
      /\ pumpPool \/ dumper' = dumper
      /\ \/ proc' = proc
         \/ proc = "stopPump" /\ proc' = "stopWait"
         \/ proc = "stopWait" /\ proc' = "stopped"
  BY PumpAloneFacts DEF coreVars
<1>1. StoreInv' /\ IdleInv' /\ PumpInv' /\ CoverInv' /\ TypeOK'
  BY <1>0, PumpKeeps
<1>2. BatchInv' /\ BelowInv' /\ ShownInv' /\ ViewInv'
  BY <1>0, QuietKeeps
<1>3. ReplicaTypeOK'
  BY <1>0, <1>1 DEF ReplicaInv, ReplicaTypeOK
<1>4. ProcInv'
  BY <1>0 DEF ReplicaInv, ProcInv, Readable
<1>5. OpenInv'
  BY <1>0 DEF ReplicaInv, OpenInv, Orphans
<1> QED
  BY <1>1, <1>2, <1>3, <1>4, <1>5 DEF ReplicaInv

LEMMA StutterKeeps == ReplicaInv /\ UNCHANGED replicaVars => ReplicaInv'
<1> SUFFICES ASSUME ReplicaInv, UNCHANGED replicaVars PROVE ReplicaInv'
  OBVIOUS
<1>1. UNCHANGED <<vars, lifeVars, coreVars>> /\ UNCHANGED <<vars, events, served>> /\ dumper' = dumper
  BY DEF replicaVars, coreVars, vars, pumpVars
<1>2. /\ StoreInv' /\ IdleInv' /\ PumpInv' /\ CoverInv' /\ TypeOK'
      /\ BatchInv' /\ BelowInv' /\ ShownInv' /\ ViewInv'
  BY <1>1, Unmoved
<1>3. ReplicaTypeOK' /\ ProcInv' /\ OpenInv'
  BY <1>1, <1>2 DEF ReplicaInv, ReplicaTypeOK, ProcInv, OpenInv, Started, Readable, Orphans,
     lifeVars, coreVars
<1> QED
  BY <1>2, <1>3 DEF ReplicaInv

\* Every step is one of these.
LEMMA ReplicaCases ==
    ReplicaNext =>
        \/ WriteStep \/ Die \/ ApplyBatch \/ ProcessStep \/ PumpAlone
        \/ pumpPool /\ DumpFromPump
        \/ pumpPool /\ Deliver
  BY DEF ReplicaNext, DumpStep, ConnBreaks, ScanStep, LoopStep, StartStep, StopStep, Exit, Crash,
         ProcessStep, PumpAlone, LoopQuiet

LEMMA ReplicaStep == ReplicaInv /\ [ReplicaNext]_replicaVars => ReplicaInv'
  BY ReplicaCases, WriteKeeps, DieKeeps, ApplyKeeps, ProcessKeeps, PumpAloneKeeps,
     DumpFromPumpKeeps, DeliverKeeps, StutterKeeps

\* Type correctness and the bookkeeping of the process, its endpoints, its batch and its
\* stores, through starts, shutdowns, crashes and every fault.
THEOREM ReplicaInvariant == ReplicaSpec => []ReplicaInv
  BY InitGood, ReplicaStep, PTL DEF ReplicaSpec

\* A server answers only when it has all that its dump found and has not changed since,
\* and shows of what it has learned what the statuses say (dumpFromPump, pumpLoop).
THEOREM AnswersComplete == ReplicaSpec => []StartsComplete
<1>1. ReplicaInv => StartsComplete
  BY DEF ReplicaInv, ProcInv, ShownInv, ViewInv, StartsComplete
<1> QED
  BY <1>1, ReplicaInvariant, PTL

\* ConfigureServer.Shutdown closes all that Startup opened, but for the HTTP server of an
\* API whose HTTPS server could not be started.
THEOREM ShutdownSilences == ReplicaSpec => []SilentAfterShutdown
<1>1. ReplicaInv => SilentAfterShutdown
  <2> SUFFICES ASSUME ReplicaInv, proc = "stopped"
               PROVE  open = {} \/ \E api \in Tls \ held : open = {<<api, "http">>}
    BY DEF SilentAfterShutdown
  <2>1. \A e \in open : e[1] = "read" \/ e[1] = "write"
    BY ApisAssumption DEF ReplicaInv, ReplicaTypeOK
  <2>2. open = Orphans
    BY <2>1 DEF ReplicaInv, OpenInv, Orphans
  <2> QED
    BY <2>2 DEF ReplicaInv, OpenInv
<1> QED
  BY <1>1, ReplicaInvariant, PTL

-----------------------------------------------------------------------------
\* The server as its readers see it.
Seen == [k \in Key |-> served[k].row.seq]
Truth == [k \in Key |-> table[k].seq]

LEMMA SeenFacts ==
    ASSUME ReplicaInv
    PROVE  /\ Truth \in [Key -> Nat] /\ Seen \in [Key -> Nat]
           /\ \A k \in Key : Seen[k] <= Truth[k]
           /\ Readable /\ ~cut => \A j, k \in Key : Truth[k] <= Seen[j] => Seen[k] = Truth[k]
<1>1. \A k \in Key : table[k].seq \in Nat /\ delivered[k].seq \in Nat /\ served[k].row.seq \in Nat
  BY RowFacts
<1>2. \A k \in Key : served[k].row.seq <= delivered[k].seq /\ delivered[k].seq <= table[k].seq
  BY DEF ReplicaInv, BelowInv
<1>3. \A k \in Key : Seen[k] <= Truth[k]
  BY <1>1, <1>2 DEF Seen, Truth
<1>4. Readable /\ ~cut => \A j, k \in Key : Truth[k] <= Seen[j] => Seen[k] = Truth[k]
  BY DEF ReplicaInv, ProcInv, ViewInv, Seen, Truth
<1> QED
  BY <1>1, <1>3, <1>4 DEF Seen, Truth

\* A step that changes neither the table nor what is answered: nobody notices, or the
\* read API closes, or it opens on something whole.
LEMMA QuietMaps ==
    ASSUME ReplicaInv, ReplicaInv', UNCHANGED <<table, served, cut>>
    PROVE  Promise!FollowerNext \/ UNCHANGED <<Truth, Seen, ~cut, Readable>>
<1>1. Truth' = Truth /\ Seen' = Seen
  BY DEF Truth, Seen
<1>2. CASE Readable' <=> Readable
  BY <1>1, <1>2 DEF Readable
<1>3. CASE ~Readable'
  <2>1. Promise!Reload
    BY <1>1, <1>3, SeenFacts DEF Promise!Reload, Truth, Seen
  <2> QED
    BY <2>1 DEF Promise!FollowerNext
<1>4. CASE ~Readable /\ Readable'
  <2>1. ~cut => \A j, k \in Key : Truth[k] <= Seen[j] => Seen[k] = Truth[k]
    BY <1>4 DEF ReplicaInv, ProcInv, ViewInv, Seen, Truth
  <2>2. Promise!Open
    BY <1>1, <1>4, <2>1 DEF Promise!Open, Promise!Prefix, Truth, Seen
  <2> QED
    BY <2>2 DEF Promise!FollowerNext
<1> QED
  BY <1>2, <1>3, <1>4

LEMMA WriteMaps == ReplicaInv /\ WriteStep => \E k \in Key : Promise!Publish(k)
<1> SUFFICES ASSUME ReplicaInv, WriteStep PROVE \E k \in Key : Promise!Publish(k)
  OBVIOUS
<1>1. PICK k \in Key : /\ \A j \in Key : table[j].seq < table'[k].seq
                       /\ \A j \in Key \ {k} : table'[j] = table[j]
  BY WriteMoves
<1>2. Truth' \in [Key -> Nat]
  <2>1. ReplicaInv'
    BY WriteKeeps
  <2>2. \A j \in Key : table'[j].seq \in Nat
    BY <2>1 DEF ReplicaInv, StoreInv, StoreTypeOK, Row
  <2> QED
    BY <2>2 DEF Truth
<1>3. /\ \A j \in Key : Truth[j] < Truth'[k]
      /\ \A j \in Key \ {k} : Truth'[j] = Truth[j]
  BY <1>1 DEF Truth
<1>4. UNCHANGED <<served, cut, open>>
  BY DEF WriteStep, pumpVars, lifeVars, coreVars
<1>5. Promise!Publish(k)
  BY <1>2, <1>3, <1>4 DEF Promise!Publish, Truth, Readable
<1> QED
  BY <1>5

LEMMA ApplyMaps == ReplicaInv /\ ApplyBatch => Promise!Follow
<1> SUFFICES ASSUME ReplicaInv, ApplyBatch PROVE Promise!Follow
  OBVIOUS
<1>1. ReplicaInv' /\ \A k \in Key : served'[k].row = delivered[k]
  BY ApplyKeeps
<1>2. UNCHANGED <<table, cut, open>> /\ Truth' = Truth /\ (Readable' <=> Readable)
  BY DEF ApplyBatch, vars, storeVars, pumpVars, lifeVars, Truth, Readable
<1>3. /\ \A k \in Key : table[k].seq \in Nat
      /\ \A k \in Key : served'[k].row.seq \in Nat
      /\ \A k \in Key : served[k].row.seq <= served'[k].row.seq
      /\ \A k \in Key : served'[k].row.seq <= table[k].seq
  <2>1. \A k \in Key : table[k].seq \in Nat /\ delivered[k].seq \in Nat
    BY RowFacts
  <2>2. \A k \in Key : served[k].row.seq <= delivered[k].seq /\ delivered[k].seq <= table[k].seq
    BY DEF ReplicaInv, BelowInv
  <2> QED
    BY <1>1, <2>1, <2>2
<1>4. Readable /\ ~cut => \A j, k \in Key :
        table[k].seq <= served'[j].row.seq => served'[k].row.seq = table[k].seq
  BY <1>1, <1>2 DEF ReplicaInv, ProcInv, ViewInv
<1> QED
  BY <1>2, <1>3, <1>4 DEF Promise!Follow, Promise!Prefix

LEMMA DumpMaps == ReplicaInv /\ pumpPool /\ DumpFromPump => Promise!Reload
<1> SUFFICES ASSUME ReplicaInv, pumpPool, DumpFromPump PROVE Promise!Reload
  OBVIOUS
<1>1. ReplicaInv'
  BY DumpFromPumpKeeps
<1>2. table' = table /\ cut' \in BOOLEAN /\ ~Started'
  BY <1>1 DEF DumpFromPump, DumpSend, storeVars, Started, ReplicaInv, PumpInv, PumpTypeOK
<1>3. ~Readable'
  BY <1>1, <1>2 DEF ReplicaInv, ProcInv
<1>4. \A k \in Key : served'[k].row.seq \in Nat /\ served'[k].row.seq <= table[k].seq
  <2>1. \A k \in Key : /\ table'[k].seq \in Nat /\ delivered'[k].seq \in Nat
                       /\ served'[k].row.seq \in Nat
    BY <1>1 DEF ReplicaInv, ReplicaTypeOK, StoreInv, StoreTypeOK, PumpInv, PumpTypeOK, Row, Entry
  <2>2. \A k \in Key : served'[k].row.seq <= delivered'[k].seq /\ delivered'[k].seq <= table'[k].seq
    BY <1>1 DEF ReplicaInv, BelowInv
  <2> QED
    BY <1>2, <2>1, <2>2
<1> QED
  BY <1>2, <1>3, <1>4 DEF Promise!Reload

\* The dump takes rows that stopped coming for the last ones: nobody asks yet.
LEMMA CutMaps ==
    ASSUME ReplicaInv, ReplicaInv', UNCHANGED <<table, served>>, ~Started'
    PROVE  Promise!Reload
<1>1. ~Readable' /\ cut' \in BOOLEAN
  BY DEF ReplicaInv, ProcInv, PumpInv, PumpTypeOK
<1>2. Seen \in [Key -> Nat] /\ \A k \in Key : Seen[k] <= Truth[k]
  BY SeenFacts
<1> QED
  BY <1>1, <1>2 DEF Promise!Reload, Seen, Truth

LEMMA DieMaps == ReplicaInv /\ Die => Promise!Reload
<1> SUFFICES ASSUME ReplicaInv, Die PROVE Promise!Reload
  OBVIOUS
<1>1. table' = table /\ ~Readable' /\ cut' = FALSE
  BY DEF Die, storeVars, Readable
<1>2. \A k \in Key : served'[k].row.seq = 0
  BY DEF Die, NoEntry, NoRow
<1>3. \A k \in Key : table[k].seq \in Nat
  BY RowFacts
<1> QED
  BY <1>1, <1>2, <1>3 DEF Promise!Reload

\* The process of the server is the Follower that ConfigClient takes each of its servers
\* for: through dumps, scans, batches, crashes and restarts, what a listening server
\* answers with moves forward through the committed changes and has no gaps.
THEOREM ServerFollows == ReplicaSpec => Follows
<1>1. ReplicaInit => Promise!FollowerInit
  <2> SUFFICES ASSUME ReplicaInit PROVE Promise!FollowerInit
    OBVIOUS
  <2>1. Truth \in [Key -> Nat]
    BY InitGood, SeenFacts
  <2>2. Seen = [k \in Key |-> 0]
    BY DEF ReplicaInit, Seen, NoEntry, NoRow
  <2>3. ~Readable /\ ~cut
    BY DEF ReplicaInit, PumpInit, Readable
  <2> QED
    BY <2>1, <2>2, <2>3 DEF Promise!FollowerInit, Truth, Seen
<1>2. ReplicaInv /\ ReplicaInv' /\ [ReplicaNext]_replicaVars => [Promise!FollowerNext]_(Promise!vars)
  <2> SUFFICES ASSUME ReplicaInv, ReplicaInv', [ReplicaNext]_replicaVars
               PROVE  Promise!FollowerNext \/ UNCHANGED <<Truth, Seen, ~cut, Readable>>
    BY DEF Promise!vars, Truth, Seen
  <2>1. CASE WriteStep
    BY <2>1, WriteMaps DEF Promise!FollowerNext
  <2>2. CASE ApplyBatch
    BY <2>2, ApplyMaps DEF Promise!FollowerNext
  <2>3. CASE pumpPool /\ DumpFromPump
    BY <2>3, DumpMaps DEF Promise!FollowerNext
  <2>4. CASE Die
    BY <2>4, DieMaps DEF Promise!FollowerNext
  <2>5. CASE ProcessStep \/ UNCHANGED replicaVars
    <3>1. UNCHANGED <<table, served, cut>>
      BY <2>5, ProcessStill DEF replicaVars, vars, storeVars, pumpVars, coreVars
    <3> QED
      BY <3>1, QuietMaps
  <2>6. CASE pumpPool /\ Deliver
    <3>1. UNCHANGED <<table, served, cut>>
      BY <2>6 DEF Deliver, ScanSend, storeVars
    <3> QED
      BY <3>1, QuietMaps
  <2>7. CASE PumpAlone
    <3>1. QuietStep /\ UNCHANGED <<table, served>>
      BY <2>7, PumpAloneFacts, PumpKeeps DEF coreVars, storeVars
    <3>2. CASE DumpQuery
      <4>1. ~Started'
        BY <3>2 DEF DumpQuery, Started
      <4> QED
        BY <3>1, <4>1, CutMaps DEF Promise!FollowerNext
    <3>3. CASE ~DumpQuery
      <4>1. cut' = cut
        BY <3>1, <3>3 DEF QuietStep, DumpAcquire, DumpMaxId, DumpConnBreaks, DumpClose,
           DumpStartScan, ScanStart, ScanTop, ScanAcquire, ScanQuery, ScanMark, StopBegin, StopEnd
      <4> QED
        BY <3>1, <4>1, QuietMaps
    <3> QED
      BY <3>2, <3>3
  <2> QED
    BY <2>1, <2>2, <2>3, <2>4, <2>5, <2>6, <2>7, ReplicaCases
<1> QED
  BY <1>1, <1>2, ReplicaInvariant, PTL DEF ReplicaSpec, Follows, Promise!FollowerSpec
=============================================================================
