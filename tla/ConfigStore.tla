---------------------------- MODULE ConfigStore ----------------------------
(***************************************************************************)
(* The `configuration` table (configure/cfgimpl/ddl_pg.sql) and the        *)
(* transactions of DatabaseDataWriter (configure/cfgimpl/datawriter.go).   *)
(*                                                                         *)
(* A writer is one call of SaveConfiguration or DeleteConfiguration on one *)
(* server of the cluster: each statement is a step, and the table changes  *)
(* for the others when the transaction commits (READ COMMITTED).  The      *)
(* columns that nothing here tells apart (raw value, group, times) are     *)
(* abstracted into the key of the unique index and the version.            *)
(***************************************************************************)
EXTENDS Naturals, FiniteSets

CONSTANTS
    Key,        \* rows of the unique index (selectors, optional_selectors, group, key)
    Version,    \* configuration versions that may be saved
    NoVersion,  \* the version of a row that does not exist
    Writer,     \* concurrent calls of the write API, over all the servers
    Nobody,     \* the holder of the advisory lock when it is free
    NRetry,     \* SaveConfiguration's bound on update attempts
    MaxSeq      \* bound of the model: how many values of cfg_seq are drawn

ASSUME NobodyAssumption == Nobody \notin Writer
ASSUME BoundAssumption == NRetry \in Nat \ {0} /\ MaxSeq \in Nat

VARIABLES
    table,      \* committed rows
    cfgSeq,     \* the last value drawn from the sequence cfg_seq
    lock,       \* who holds pg_advisory_xact_lock(-1000)
    tx          \* the call each writer is executing

storeVars == <<table, cfgSeq, lock, tx>>

Valid   == 0        \* cfg_status
Deleted == 1

Row == [ver : Version \cup {NoVersion}, status : {Valid, Deleted}, seq : Nat]

\* No committed row has sequence 0: the insert's 0 is replaced before the commit.
NoRow == [ver |-> NoVersion, status |-> Valid, seq |-> 0]

Exists(k) == table[k].seq > 0

\* tx[w].fresh: the transaction holds an uncommitted insert (sequence 0);
\* tx[w].row: the new row image, invisible to the others until the commit.
Call == [pc    : {"idle", "insert", "update", "commit"},
         op    : {"save", "delete"},
         key   : Key,
         ver   : Version \cup {NoVersion},
         fresh : BOOLEAN,
         tries : Nat,
         row   : Row,
         out   : {"none", "ok", "notFound", "error"}]

\* No call in progress: the last one was about key k and got this answer.
Ended(k, answer) ==
    [pc |-> "idle", op |-> "save", key |-> k, ver |-> NoVersion, fresh |-> FALSE,
     tries |-> 0, row |-> NoRow, out |-> answer]

StoreTypeOK ==
    /\ table \in [Key -> Row]
    /\ cfgSeq \in Nat
    /\ lock \in Writer \cup {Nobody}
    /\ tx \in [Writer -> Call]

StoreInit ==
    /\ table = [k \in Key |-> NoRow]
    /\ cfgSeq = 0
    /\ lock = Nobody
    /\ \E k \in Key : tx = [w \in Writer |-> Ended(k, "none")]

-----------------------------------------------------------------------------
\* The bound of the model: a call starts only while there is a sequence number
\* left for it and for every call in progress.
MayStart == cfgSeq + Cardinality({w \in Writer : tx[w].pc # "idle"}) < MaxSeq

\* Mutant of Return: the transaction is never rolled back, its rows stay.
ReturnKeepsRows(w, answer) ==
    /\ tx' = [tx EXCEPT ![w] = [Ended(tx[w].key, answer) EXCEPT !.fresh = tx[w].fresh]]
    /\ lock' = IF lock = w THEN Nobody ELSE lock

\* The end of a call: the transaction is over, its answer goes to the caller.
Return(w, answer) ==
    /\ tx' = [tx EXCEPT ![w] = Ended(tx[w].key, answer)]
    /\ lock' = IF lock = w THEN Nobody ELSE lock

\* BeginTx and getExistingConfiguration.
SaveLookup(w, k, v) ==
    /\ tx[w].pc = "idle"
    /\ MayStart
    /\ tx' = [tx EXCEPT ![w] = [pc |-> IF Exists(k) THEN "update" ELSE "insert",
                                op |-> "save", key |-> k, ver |-> v, fresh |-> FALSE,
                                tries |-> 0, row |-> NoRow, out |-> "none"]]
    /\ UNCHANGED <<table, cfgSeq, lock>>

\* Mutant of SaveInsert: no unique index on the sequence.
SaveInsertAtOnce(w) ==
    /\ tx[w].pc = "insert"
    /\ tx' = [tx EXCEPT ![w].pc = "update", ![w].fresh = TRUE]
    /\ UNCHANGED <<lock, table, cfgSeq>>

\* insertConfiguration: sequence 0 is in a unique index, so an insert waits for
\* every transaction that holds one; a row that has appeared meanwhile is a
\* unique violation and the transaction is rolled back.
SaveInsert(w) ==
    /\ tx[w].pc = "insert"
    /\ \A x \in Writer : ~tx[x].fresh
    /\ IF Exists(tx[w].key)
         THEN Return(w, "error")
         ELSE /\ tx' = [tx EXCEPT ![w].pc = "update", ![w].fresh = TRUE]
              /\ UNCHANGED lock
    /\ UNCHANGED <<table, cfgSeq>>

\* The columns updateConfiguration sets: not cfg_status, which stays.
UpdatedRow(w) ==
    [ver    |-> tx[w].ver,
     status |-> IF tx[w].fresh THEN Valid ELSE table[tx[w].key].status,
     seq    |-> cfgSeq + 1]

\* Mutant of SaveUpdate: the advisory lock is not asked for.
SaveUpdateUnlocked(w) ==
    /\ tx[w].pc = "update" /\ tx[w].op = "save"
    /\ lock' = w
    /\ cfgSeq' = cfgSeq + 1
    /\ tx' = [tx EXCEPT ![w].pc = "commit", ![w].row = UpdatedRow(w)]
    /\ UNCHANGED table

\* updateConfiguration, when pg_try_advisory_xact_lock succeeds.
SaveUpdate(w) ==
    /\ tx[w].pc = "update" /\ tx[w].op = "save"
    /\ lock = Nobody
    /\ lock' = w
    /\ cfgSeq' = cfgSeq + 1
    /\ tx' = [tx EXCEPT ![w].pc = "commit", ![w].row = UpdatedRow(w)]
    /\ UNCHANGED table

\* updateConfiguration, when another transaction holds the lock: no row is
\* updated and the statement is tried again, NRetry times in all.
SaveBusy(w) ==
    /\ tx[w].pc = "update" /\ tx[w].op = "save"
    /\ lock # Nobody
    /\ IF tx[w].tries + 1 < NRetry
         THEN /\ tx' = [tx EXCEPT ![w].tries = @ + 1]
              /\ UNCHANGED lock
         ELSE Return(w, "error")
    /\ UNCHANGED <<table, cfgSeq>>

\* DeleteConfiguration is one statement in its own transaction, tried once.
Delete(w, k) ==
    /\ tx[w].pc = "idle"
    /\ Exists(k) /\ lock = Nobody
    /\ MayStart
    /\ lock' = w
    /\ cfgSeq' = cfgSeq + 1
    /\ tx' = [tx EXCEPT ![w] = [pc |-> "commit", op |-> "delete", key |-> k,
                                ver |-> table[k].ver, fresh |-> FALSE, tries |-> 0,
                                row |-> [ver |-> table[k].ver, status |-> Deleted,
                                         seq |-> cfgSeq + 1],
                                out |-> "none"]]
    /\ UNCHANGED table

\* No row affected: the row is absent, or the lock is busy.  The handler
\* answers 404 to both.
DeleteNothing(w, k) ==
    /\ tx[w].pc = "idle"
    /\ ~Exists(k) \/ lock # Nobody
    /\ tx' = [tx EXCEPT ![w] = Ended(k, "notFound")]
    /\ UNCHANGED <<table, cfgSeq, lock>>

\* The commit makes the row visible, then releases the advisory lock.  The
\* connection may fail after the commit: the caller then sees an error.
Commit(w) ==
    /\ tx[w].pc = "commit"
    /\ table' = [table EXCEPT ![tx[w].key] = tx[w].row]
    /\ \E answer \in {"ok", "error"} : Return(w, answer)
    /\ UNCHANGED cfgSeq

\* A statement fails or the connection is lost: the transaction rolls back.
Abort(w) ==
    /\ tx[w].pc # "idle"
    /\ Return(w, "error")
    /\ UNCHANGED <<table, cfgSeq>>

\* The handlers of POST and DELETE /configure begin a call; its answer is the
\* status they write: 200 for "ok", 404 for "notFound", 500 for "error".
saveConfiguration(w) == \E k \in Key, v \in Version : SaveLookup(w, k, v)

deleteConfiguration(w) == \E k \in Key : Delete(w, k) \/ DeleteNothing(w, k)

WriterStep(w) ==
    \/ saveConfiguration(w)
    \/ deleteConfiguration(w)
    \/ SaveInsert(w)
    \/ SaveUpdate(w)
    \/ SaveBusy(w)
    \/ Commit(w)
    \/ Abort(w)

StoreNext == \E w \in Writer : WriterStep(w)

StoreSpec == StoreInit /\ [][StoreNext]_storeVars

\* Every statement that is not blocked returns.  A blocked insert waits in the
\* database's queue of the transaction that blocks it, so it is not overtaken
\* for ever: strong fairness.  SaveUpdate and SaveBusy are one statement.
StoreFairness ==
    \A w \in Writer :
        /\ SF_storeVars(SaveInsert(w))
        /\ WF_storeVars(SaveUpdate(w) \/ SaveBusy(w))
        /\ WF_storeVars(Commit(w))

StoreFairSpec == StoreSpec /\ StoreFairness

-----------------------------------------------------------------------------
(***************************************************************************)
(* Properties.                                                             *)
(***************************************************************************)

\* A transaction that holds a drawn sequence number holds the advisory lock,
\* and its number is above every committed one: what makes the pump's
\* incremental query `sequence > last` complete (ddl_pg.sql, Note 2).
PendingAboveCommitted ==
    \A w \in Writer : tx[w].pc = "commit" =>
        /\ lock = w
        /\ \A k \in Key : table[k].seq < tx[w].row.seq

\* What a committed transaction is to everybody else: one row changes, at once,
\* and carries a sequence number above all the others.  A save makes the row, or
\* gives it another version and leaves its status; a delete sets the status.
AtomicWrite(k, seq) ==
    /\ \A j \in Key : table[j].seq < seq
    /\ \/ \E ver \in Version : table' = [table EXCEPT ![k].ver = ver, ![k].seq = seq]
       \/ Exists(k) /\ table' = [table EXCEPT ![k].status = Deleted, ![k].seq = seq]

\* The concurrent calls of the write API are, to whoever reads the table, atomic
\* writes in the order of the numbers they draw: none is overtaken by a call that
\* drew a later number, none brings back what it read of a row that another one
\* has changed since, and two first saves of a row never both insert it.
CommitsAreWrites == [][\E k \in Key : AtomicWrite(k, table'[k].seq)]_table

\* The unique index on `sequence` never refuses a commit, and an insert's
\* placeholder 0 never becomes visible.
SequencesDistinct ==
    \A j, k \in Key : Exists(j) /\ Exists(k) /\ j # k => table[j].seq # table[k].seq

\* At most one transaction holds the placeholder 0, so two first saves of a
\* key never both reach the commit.
OneFreshInsert ==
    /\ \A w, x \in Writer : tx[w].fresh /\ tx[x].fresh => w = x
    /\ \A w \in Writer : tx[w].fresh => ~Exists(tx[w].key)

\* Every call of the write API returns.
CallsReturn ==
    \A w \in Writer : tx[w].pc # "idle" ~> tx[w].pc = "idle"

\* ConfigureDesign.md: POST /configure is "Save or update configuration", with
\* "200 = success"; ddl_pg.sql: cfg_status is "0-valid, 1-deleted".
SavedIsValid ==
    [][\A w \in Writer : (tx[w].pc = "commit" /\ tx[w].op = "save" /\ tx'[w].out = "ok") =>
            table'[tx[w].key].status = Valid]_storeVars
=============================================================================
