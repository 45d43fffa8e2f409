------------------------------ MODULE DataPump ------------------------------
(***************************************************************************)
(* DatabaseDataPump (configure/cfgimpl/datapump.go) of one server, beside  *)
(* the table and the writers of ConfigStore.                               *)
(*                                                                         *)
(* Three goroutines: the dumper started by TriggerDumpToChannel, scanLoop, *)
(* and the caller of Stop.  Every query is a step on the committed table,  *)
(* every row handed over is a step.  The channels are modelled by what the *)
(* server has received: `delivered` is the last row of each key that was   *)
(* taken from the dump channel or from EventChannel, in the order sent.    *)
(***************************************************************************)
EXTENDS ConfigStore

CONSTANTS
    PageSize,   \* maxRowPerQuery
    Faults      \* the faults of the database connection that may occur

ASSUME PageAssumption == PageSize \in Nat \ {0}

\* "error": a query returns an error.  "truncate": the connection fails while
\* rows are read; rows.Next() just stops and nothing asks rows.Err().
\* "break": the dumper's connection is lost for good; it is never replaced.
ASSUME FaultsAssumption == Faults \subseteq {"error", "truncate", "break"}

VARIABLES
    dumper,     \* program counter of the goroutine of TriggerDumpToChannel
    dumpConn,   \* the dumper's connection: "good" or "broken"
    dumpMax,    \* lastUpdateScanId of the dump
    start,      \* where the dump's next page starts (excluded)
    cut,        \* history: the dump took rows that stopped coming for the last ones
    scanner,    \* program counter of scanLoop
    scanFrom,   \* scanLoop's local lastUpdateScanId
    updateScanId,
    page,       \* rows queried and not yet sent, by whichever loop is querying
    pageEnd,    \* sequence of the last row of the page
    pool,       \* pgxpool: "open", "closing" (Close waits), "closed"
    closed,     \* Stop has closed closeCh and eventPumpChannel
    delivered   \* the last row of each key that the server received

pumpVars == <<dumper, dumpConn, dumpMax, start, cut, scanner, scanFrom, updateScanId,
              page, pageEnd, pool, closed, delivered>>

vars == <<storeVars, pumpVars>>

PageRow == [key : Key, row : Row]

PumpTypeOK ==
    /\ dumper \in {"acquire", "maxId", "query", "send", "close", "store", "done"}
    /\ dumpConn \in {"good", "broken"}
    /\ scanner \in {"wait", "loop", "acquire", "query", "send", "exit"}
    /\ dumpMax \in Nat /\ start \in Nat
    /\ scanFrom \in Nat /\ updateScanId \in Nat /\ pageEnd \in Nat
    /\ page \subseteq PageRow
    /\ pool \in {"open", "closing", "closed"}
    /\ closed \in BOOLEAN /\ cut \in BOOLEAN
    /\ delivered \in [Key -> Row]

TypeOK == StoreTypeOK /\ PumpTypeOK

\* Startup, then TriggerDumpToChannel: server.Startup calls both in a row.
PumpInit ==
    /\ dumper = "acquire" /\ dumpConn = "good"
    /\ scanner = "wait"
    /\ dumpMax = 0 /\ start = 0 /\ scanFrom = 0 /\ updateScanId = 0 /\ pageEnd = 0
    /\ page = {}
    /\ pool = "open" /\ closed = FALSE /\ cut = FALSE
    /\ delivered = [k \in Key |-> NoRow]

Init == StoreInit /\ PumpInit

-----------------------------------------------------------------------------
(***************************************************************************)
(* queryConfigurations: the rows of the window (from, to] in ascending     *)
(* order of sequence, at most PageSize of them.                            *)
(***************************************************************************)
Window(from, to) ==
    {[key |-> k, row |-> table[k]] : k \in {j \in Key : from < table[j].seq /\ table[j].seq <= to}}

\* Mutant of Prefixes: no "order by sequence asc".
PrefixesUnordered(W) == SUBSET W

\* The first rows of the window: all those up to some row of it.
Prefixes(W) == {{}} \cup {{r \in W : r.row.seq <= last.row.seq} : last \in W}

\* What the query returns without an error: a full page, the whole of a shorter
\* window, or, when the rows stop coming, fewer.
Pages(W) ==
    {P \in Prefixes(W) :
        /\ Cardinality(P) <= PageSize
        /\ Cardinality(P) = PageSize \/ P = W \/ "truncate" \in Faults}

IsLast(r, P) == r \in P /\ \A q \in P : q.row.seq <= r.row.seq

\* Mutant of IsNext: no "order by sequence".
IsNextUnordered(r) == r \in page

\* The row to send next: the one with the smallest sequence.
IsNext(r) == r \in page /\ \A q \in page : r.row.seq <= q.row.seq

Send(r) ==
    /\ delivered' = [delivered EXCEPT ![r.key] = r.row]
    /\ page' = page \ {r}

-----------------------------------------------------------------------------
(* TriggerDumpToChannel.                                                   *)
DumpAcquire ==
    /\ dumper = "acquire" /\ pool = "open"
    /\ dumper' = "maxId"
    /\ UNCHANGED <<storeVars, cut, dumpConn, dumpMax, start, scanner, scanFrom, updateScanId,
                   page, pageEnd, pool, closed, delivered>>

\* queryMaxSequence: 0 for an empty table, and also when no row comes.
DumpMaxId ==
    /\ dumper = "maxId" /\ dumpConn = "good"
    /\ \/ /\ dumpMax' \in {0} \cup {table[k].seq : k \in Key}
          /\ \A k \in Key : table[k].seq <= dumpMax'
       \/ "truncate" \in Faults /\ dumpMax' = 0
    /\ start' = 0
    /\ dumper' = "query"
    /\ UNCHANGED <<storeVars, cut, dumpConn, scanner, scanFrom, updateScanId, page, pageEnd,
                   pool, closed, delivered>>

\* One page; an empty one is taken for the end of the records.
DumpQuery ==
    /\ dumper = "query" /\ dumpConn = "good"
    /\ \E P \in Pages(Window(start, dumpMax)) :
          \/ /\ P = {}
             /\ dumper' = "close"
             /\ cut' = (cut \/ Window(start, dumpMax) # {})
             /\ UNCHANGED <<page, pageEnd, start>>
          \/ \E last \in P :
                /\ IsLast(last, P)
                /\ page' = P
                /\ pageEnd' = last.row.seq
                /\ start' = last.row.seq
                /\ dumper' = "send"
                /\ UNCHANGED cut
    /\ UNCHANGED <<storeVars, dumpConn, dumpMax, scanner, scanFrom, updateScanId, pool,
                   closed, delivered>>

DumpSend ==
    /\ dumper = "send"
    /\ \E r \in page :
          /\ IsNext(r)
          /\ Send(r)
          /\ dumper' = IF page = {r} THEN "query" ELSE "send"
    /\ UNCHANGED <<storeVars, cut, dumpConn, dumpMax, start, scanner, scanFrom, updateScanId,
                   pageEnd, pool, closed>>

\* The dumper's connection dies: every later query on it fails and is retried
\* on the same connection.
DumpConnBreaks ==
    /\ "break" \in Faults
    /\ dumper \in {"maxId", "query", "send"}
    /\ dumpConn' = "broken"
    /\ UNCHANGED <<storeVars, cut, dumper, dumpMax, start, scanner, scanFrom, updateScanId,
                   page, pageEnd, pool, closed, delivered>>

\* Release the connection, close(ch): the server has received the whole dump.
DumpClose ==
    /\ dumper = "close"
    /\ dumper' = "store"
    /\ UNCHANGED <<storeVars, cut, dumpConn, dumpMax, start, scanner, scanFrom, updateScanId,
                   page, pageEnd, pool, closed, delivered>>

\* updateScanId.Store, then close(startScan).
DumpStartScan ==
    /\ dumper = "store"
    /\ updateScanId' = dumpMax
    /\ dumper' = "done"
    /\ UNCHANGED <<storeVars, cut, dumpConn, dumpMax, start, scanner, scanFrom, page, pageEnd,
                   pool, closed, delivered>>

-----------------------------------------------------------------------------
(* scanLoop.                                                               *)
ScanStart ==
    /\ scanner = "wait" /\ dumper = "done"
    /\ scanner' = "loop"
    /\ UNCHANGED <<storeVars, cut, dumper, dumpConn, dumpMax, start, scanFrom, updateScanId,
                   page, pageEnd, pool, closed, delivered>>

\* Mutant of ScanTop: closeCh is not looked at.
ScanTopForEver ==
    /\ scanner = "loop"
    /\ scanner' = "acquire" /\ scanFrom' = updateScanId
    /\ UNCHANGED <<storeVars, cut, dumper, dumpConn, dumpMax, start, updateScanId, page,
                   pageEnd, pool, closed, delivered>>

\* The top of the loop: leave if closeCh is closed, load updateScanId if not.
ScanTop ==
    /\ scanner = "loop"
    /\ IF closed
         THEN scanner' = "exit" /\ UNCHANGED scanFrom
         ELSE scanner' = "acquire" /\ scanFrom' = updateScanId
    /\ UNCHANGED <<storeVars, cut, dumper, dumpConn, dumpMax, start, updateScanId, page,
                   pageEnd, pool, closed, delivered>>

\* A pool that is being closed refuses: back to the top of the loop.
ScanAcquire ==
    /\ scanner = "acquire"
    /\ scanner' = IF pool = "open" THEN "query" ELSE "loop"
    /\ UNCHANGED <<storeVars, cut, dumper, dumpConn, dumpMax, start, scanFrom, updateScanId,
                   page, pageEnd, pool, closed, delivered>>

\* Mutant of ScanQuery: an error ends the loop.
ScanQueryGivesUp ==
    /\ scanner = "query"
    /\ \/ \E P \in Pages(Window(scanFrom, cfgSeq)) :
             /\ scanner' = IF P = {} THEN "loop" ELSE "send"
             /\ page' = P
             /\ P # {} => \E last \in P : IsLast(last, P) /\ pageEnd' = last.row.seq
             /\ P = {} => UNCHANGED pageEnd
       \/ "error" \in Faults /\ scanner' = "exit" /\ UNCHANGED <<page, pageEnd>>
    /\ UNCHANGED <<storeVars, cut, dumper, dumpConn, dumpMax, start, scanFrom, updateScanId,
                   pool, closed, delivered>>

\* An empty page, or an error, releases the connection and goes round.
ScanQuery ==
    /\ scanner = "query"
    /\ \/ \E P \in Pages(Window(scanFrom, cfgSeq)) :
             \/ P = {} /\ scanner' = "loop" /\ UNCHANGED <<page, pageEnd>>
             \/ \E last \in P :
                   /\ IsLast(last, P)
                   /\ page' = P
                   /\ pageEnd' = last.row.seq
                   /\ scanner' = "send"
       \/ /\ "error" \in Faults
          /\ scanner' = "loop"
          /\ UNCHANGED <<page, pageEnd>>
    /\ UNCHANGED <<storeVars, cut, dumper, dumpConn, dumpMax, start, scanFrom, updateScanId,
                   pool, closed, delivered>>

\* The send on the unbuffered eventPumpChannel: pumpLoop has received the row.
ScanSend ==
    /\ scanner = "send"
    /\ \E r \in page : IsNext(r) /\ Send(r)
    /\ UNCHANGED <<storeVars, cut, dumper, dumpConn, dumpMax, start, scanner, scanFrom,
                   updateScanId, pageEnd, pool, closed>>

\* Mutant of ScanMark: everything up to the newest sequence counts as read.
ScanMarkAll ==
    /\ scanner = "send" /\ page = {}
    /\ updateScanId' = cfgSeq
    /\ scanner' = "loop"
    /\ UNCHANGED <<storeVars, cut, dumper, dumpConn, dumpMax, start, scanFrom, page, pageEnd,
                   pool, closed, delivered>>

\* The page is sent: mark it as read and release the connection.
ScanMark ==
    /\ scanner = "send" /\ page = {}
    /\ updateScanId' = pageEnd
    /\ scanner' = "loop"
    /\ UNCHANGED <<storeVars, cut, dumper, dumpConn, dumpMax, start, scanFrom, page, pageEnd,
                   pool, closed, delivered>>

-----------------------------------------------------------------------------
(* Stop, called by server.Shutdown once Startup has returned.              *)
ConnectionsHeld ==
    \/ dumper \in {"maxId", "query", "send", "close"}
    \/ scanner \in {"query", "send"}

\* pool.Close refuses new acquisitions and waits for the connections out.
StopBegin ==
    /\ pool = "open" /\ dumper \in {"store", "done"}
    /\ pool' = "closing"
    /\ UNCHANGED <<storeVars, cut, dumper, dumpConn, dumpMax, start, scanner, scanFrom,
                   updateScanId, page, pageEnd, closed, delivered>>

\* Mutant of StopEnd: pool.Close does not wait.
StopEndAtOnce ==
    /\ pool = "closing"
    /\ pool' = "closed" /\ closed' = TRUE
    /\ UNCHANGED <<storeVars, cut, dumper, dumpConn, dumpMax, start, scanner, scanFrom,
                   updateScanId, page, pageEnd, delivered>>

StopEnd ==
    /\ pool = "closing" /\ ~ConnectionsHeld
    /\ pool' = "closed"
    /\ closed' = TRUE
    /\ UNCHANGED <<storeVars, cut, dumper, dumpConn, dumpMax, start, scanner, scanFrom,
                   updateScanId, page, pageEnd, delivered>>

DumpNext == DumpAcquire \/ DumpMaxId \/ DumpQuery \/ DumpSend \/ DumpClose \/ DumpStartScan
ScanNext == ScanStart \/ ScanTop \/ ScanAcquire \/ ScanQuery \/ ScanSend \/ ScanMark

Next ==
    \/ StoreNext /\ UNCHANGED pumpVars
    \/ DumpNext
    \/ DumpConnBreaks
    \/ ScanNext
    \/ StopBegin
    \/ StopEnd

Spec == Init /\ [][Next]_vars

\* The writers' statements return; the pump may stop anywhere.
FairSpec == Spec /\ StoreFairness

-----------------------------------------------------------------------------
(***************************************************************************)
(* Properties.                                                             *)
(***************************************************************************)

\* No committed change is skipped: a row whose sequence the pump has marked as
\* read was handed to the server as it stands.  scanLoop never looks below
\* updateScanId again, so a row missed here would stay unknown to the server.
\* The one way to miss a row is the dump taking a query whose rows stopped
\* coming at the first for the end of the records: nothing asks rows.Err().
NoMissedChange ==
    ~cut => \A k \in Key :
        Exists(k) /\ table[k].seq <= updateScanId => delivered[k] = table[k]

\* The server receives the rows in the order of their sequence numbers across
\* the pages, the dump and the scans: it never goes back to an older state.
DeliveredInOrder ==
    [][\A k \in Key : delivered'[k] # delivered[k] =>
            \A j \in Key : delivered[j].seq < delivered'[k].seq]_delivered

\* scanLoop never has a row to send on a channel that Stop has closed (a Go
\* panic): pool.Close waits for the connection that scanLoop holds.
NoSendAfterStop == closed => scanner # "send"
=============================================================================
