--------------------------- MODULE ConfigReplica ----------------------------
(***************************************************************************)
(* The process of one configuration server, from ConfigureServer.Startup   *)
(* to Shutdown, over and over, beside the table and all its writers.       *)
(*                                                                         *)
(* It composes DataPump with what server.go and server.core.go do with it: *)
(* dumpFromPump applies the dump, pumpLoop collects batches of events and  *)
(* applies each while it holds rwlock, the write API and the read API      *)
(* (each an HTTP server and perhaps an HTTPS server,                       *)
(* http/stdserver/server.go) listen one after the other.  Startup may fail *)
(* at each of these; the process may end anywhere.                         *)
(***************************************************************************)
EXTENDS DataPump, Sequences, FiniteSetsExt

CONSTANTS
    Apis,       \* the APIs served: "read", and "write" if there is a DataWriter
    Tls,        \* those that are served over TLS too
    BatchSize,  \* maxCnt
    OldSeq,     \* bound of the model: how many changes there were before the first start
    MaxBoots,   \* bound of the model: how often the process starts
    LifeFaults  \* what may go wrong with the process itself

ASSUME ApisAssumption == "read" \in Apis /\ Apis \subseteq {"read", "write"} /\ Tls \subseteq Apis
ASSUME ReplicaAssumption == BatchSize \in Nat \ {0} /\ {OldSeq, MaxBoots} \subseteq Nat

\* "pool": a connection pool cannot be made.  "listen": an address cannot be
\* listened to.  "crash": the process ends without a Shutdown.
ASSUME LifeFaultsAssumption == LifeFaults \subseteq {"pool", "listen", "crash"}

VARIABLES
    proc,       \* where the process is in Startup, between the two, or in Shutdown
    boots,      \* how often it has started
    pumpPool,   \* d.p of the data pump is made, and its goroutines run
    writePool,  \* d.p of the data writer: "none" (nil), "open" or "closed"
    open,       \* the endpoints that listen: an API, and whether over TLS
    held,       \* the APIs whose combined server ConfigureServer has kept
    loop,       \* program counter of pumpLoop
    events,     \* the batch that pumpLoop has collected
    served      \* what the stores have been told of each configuration

lifeVars    == <<proc, boots, pumpPool, writePool, open, held>>
coreVars    == <<loop, events, served>>
replicaVars == <<vars, lifeVars, coreVars>>

\* row: the last row applied.  shown: the store has the configuration.
Entry == [row : Row, shown : BOOLEAN]
NoEntry == [row |-> NoRow, shown |-> FALSE]

ReplicaTypeOK ==
    /\ TypeOK
    /\ proc \in {"down", "core", "write", "read", "serving", "failed",
                 "stopWrite", "stopRead", "stopPump", "stopWait", "stopped"}
    /\ boots \in 0 .. MaxBoots
    /\ pumpPool \in BOOLEAN
    /\ writePool \in {"none", "open", "closed"}
    /\ open \subseteq Apis \X {"http", "https"}
    /\ held \subseteq Apis
    /\ loop \in {"off", "top", "collect", "exit"}
    /\ events \in Seq(PageRow) /\ Len(events) <= BatchSize
    /\ served \in [Key -> Entry]

\* The server starts on a table that has been written to before.
ReplicaInit ==
    /\ PumpInit
    /\ cfgSeq = OldSeq /\ lock = Nobody
    /\ \E k \in Key : tx = [w \in Writer |-> Ended(k, "none")]
    /\ table \in [Key -> {NoRow} \cup [ver : Version, status : {Valid, Deleted}, seq : 1 .. OldSeq]]
    /\ SequencesDistinct
    /\ proc = "down" /\ boots = 0
    /\ pumpPool = FALSE /\ writePool = "none"
    /\ open = {} /\ held = {}
    /\ loop = "off" /\ events = <<>>
    /\ served = [k \in Key |-> NoEntry]

-----------------------------------------------------------------------------
(* The goroutines of the pump, once DatabaseDataPump.Startup has returned.  *)

\* dumpFromPump: every event of the dump is saved, whatever it says.  Nobody
\* reads yet, so that the channel between the two does not show.
DumpFromPump ==
    /\ DumpSend
    /\ \E r \in page :
          /\ page' = page \ {r}
          /\ served' = [served EXCEPT ![r.key] = [row |-> r.row, shown |-> TRUE]]
    /\ UNCHANGED <<lifeVars, loop, events>>

DumpStep ==
    /\ pumpPool
    /\ \/ DumpFromPump
       \/ /\ DumpAcquire \/ DumpMaxId \/ DumpQuery \/ DumpClose \/ DumpStartScan
          /\ UNCHANGED <<lifeVars, coreVars>>

\* scanLoop and pumpLoop meet on the unbuffered eventPumpChannel.
Deliver ==
    /\ loop = "collect" /\ Len(events) < BatchSize
    /\ ScanSend
    /\ \E r \in page : page' = page \ {r} /\ events' = Append(events, r)
    /\ UNCHANGED <<lifeVars, loop, served>>

ScanStep ==
    /\ pumpPool
    /\ \/ Deliver
       \/ /\ ScanStart \/ ScanTop \/ ScanAcquire \/ ScanQuery \/ ScanMark
          /\ UNCHANGED <<lifeVars, coreVars>>

-----------------------------------------------------------------------------
(* pumpLoop.                                                               *)

\* server.Shutdown closes closeCh once the pump has stopped.
CoreClosed == proc = "stopped"

LoopTop ==
    /\ loop = "top"
    /\ loop' = IF CoreClosed THEN "exit" ELSE "collect"
    /\ UNCHANGED <<vars, lifeVars, events, served>>

\* The row of the batch that decides about k: the last one.
LastOf(k) == events[Max({i \in DOMAIN events : events[i].key = k})].row

\* Nothing more to receive, which scanLoop may be about to change, or maxCnt
\* events: apply them all under rwlock.  A row of status Valid is saved, one of
\* status Deleted is deleted.
ApplyBatch ==
    /\ loop = "collect"
    /\ events # <<>> \/ scanner # "send" \/ page = {}
    /\ served' = [k \in Key |->
          IF \E i \in DOMAIN events : events[i].key = k
            THEN [row |-> LastOf(k), shown |-> LastOf(k).status = Valid]
            ELSE served[k]]
    /\ events' = <<>>
    /\ loop' = "top"
    /\ UNCHANGED <<vars, lifeVars>>

-----------------------------------------------------------------------------
(* ConfigureServer.Startup.                                                *)
Boot ==
    /\ proc = "down" /\ boots < MaxBoots
    /\ boots' = boots + 1
    /\ \/ proc' = "core" /\ pumpPool' = TRUE
       \/ "pool" \in LifeFaults /\ proc' = "failed" /\ UNCHANGED pumpPool
    /\ UNCHANGED <<vars, writePool, open, held, coreVars>>

\* server.Startup returns when the dump has been drained; pumpLoop runs.
CoreStarted ==
    /\ proc = "core" /\ dumper \in {"store", "done"}
    /\ proc' = "write"
    /\ loop' = "top"
    /\ UNCHANGED <<vars, boots, pumpPool, writePool, open, held, events, served>>

\* StartCombinedStdHttpServer: the HTTP server first, then the HTTPS server if
\* there is to be one.  When that fails the first one goes on listening, and
\* the caller, who gets an error, does not keep the result.
StartCombined(api, next) ==
    \/ /\ open' = open \cup {<<api, "http">>} \cup
                     (IF api \in Tls THEN {<<api, "https">>} ELSE {})
       /\ held' = held \cup {api}
       /\ proc' = next
    \/ /\ "listen" \in LifeFaults
       /\ open' \in {open} \cup (IF api \in Tls THEN {open \cup {<<api, "http">>}} ELSE {})
       /\ proc' = "failed"
       /\ UNCHANGED held

\* startWriteApi: the data writer's pool, then its HTTP servers.
StartWriteApi ==
    /\ proc = "write"
    /\ \/ /\ "write" \notin Apis
          /\ proc' = "read"
          /\ UNCHANGED <<writePool, open, held>>
       \/ /\ "write" \in Apis /\ "pool" \in LifeFaults
          /\ proc' = "failed"
          /\ UNCHANGED <<writePool, open, held>>
       \/ /\ "write" \in Apis
          /\ writePool' = "open"
          /\ StartCombined("write", "read")
    /\ UNCHANGED <<vars, boots, pumpPool, coreVars>>

\* Mutant of StartReadApi: the read API listens while the dump is under way.
StartReadApiEarly ==
    /\ proc \in {"core", "read"}
    /\ <<"read", "http">> \notin open
    /\ StartCombined("read", IF proc = "core" THEN "core" ELSE "serving")
    /\ UNCHANGED <<vars, boots, pumpPool, writePool, coreVars>>

StartReadApi ==
    /\ proc = "read"
    /\ StartCombined("read", "serving")
    /\ UNCHANGED <<vars, boots, pumpPool, writePool, coreVars>>

-----------------------------------------------------------------------------
(* ConfigureServer.Shutdown, after a Startup that succeeded or failed.      *)
Shutdown ==
    /\ proc \in {"serving", "failed"}
    /\ proc' = "stopWrite"
    /\ UNCHANGED <<vars, boots, pumpPool, writePool, open, held, coreVars>>

\* CombinedStdHttpServer.Shutdown, if the server has been kept.
Closed(api) == IF api \in held THEN {e \in open : e[1] = api} ELSE {}

\* The process is gone: with a panic, after main has returned, or killed.
\* The next one starts with nothing of it.
Die ==
    /\ dumper' = "acquire" /\ dumpConn' = "good" /\ scanner' = "wait"
    /\ dumpMax' = 0 /\ start' = 0 /\ scanFrom' = 0 /\ updateScanId' = 0 /\ pageEnd' = 0
    /\ page' = {} /\ pool' = "open" /\ closed' = FALSE /\ cut' = FALSE
    /\ delivered' = [k \in Key |-> NoRow]
    /\ proc' = "down" /\ pumpPool' = FALSE /\ writePool' = "none"
    /\ open' = {} /\ held' = {}
    /\ loop' = "off" /\ events' = <<>>
    /\ served' = [k \in Key |-> NoEntry]
    /\ UNCHANGED <<storeVars, boots>>

\* stopWriteApi: DatabaseDataWriter.Stop panics if its pool was never made.
StopWriteApi ==
    /\ proc = "stopWrite"
    /\ IF "write" \in Apis /\ writePool = "none"
         THEN Die
         ELSE /\ open' = open \ Closed("write")
              /\ writePool' = IF "write" \in Apis THEN "closed" ELSE writePool
              /\ proc' = "stopRead"
              /\ UNCHANGED <<vars, boots, pumpPool, held, coreVars>>

\* Mutant of StopReadApi: only the HTTP server is shut down.
StopReadApiPlain ==
    /\ proc = "stopRead"
    /\ open' = open \ {<<"read", "http">>}
    /\ proc' = "stopPump"
    /\ UNCHANGED <<vars, boots, pumpPool, writePool, held, coreVars>>

StopReadApi ==
    /\ proc = "stopRead"
    /\ open' = open \ Closed("read")
    /\ proc' = "stopPump"
    /\ UNCHANGED <<vars, boots, pumpPool, writePool, held, coreVars>>

\* server.Shutdown: pump.Stop, which panics too without a pool, then closeCh.
StopPump ==
    /\ proc = "stopPump"
    /\ IF pumpPool
         THEN /\ StopBegin
              /\ proc' = "stopWait"
              /\ UNCHANGED <<boots, pumpPool, writePool, open, held, coreVars>>
         ELSE Die

CoreStopped ==
    /\ proc = "stopWait"
    /\ StopEnd
    /\ proc' = "stopped"
    /\ UNCHANGED <<boots, pumpPool, writePool, open, held, coreVars>>

\* main returns, or log.Fatal after a failed Startup.
Exit == proc \in {"stopped", "failed"} /\ Die

Crash == "crash" \in LifeFaults /\ proc # "down" /\ Die

StopStep == StopWriteApi \/ StopReadApi \/ StopPump \/ CoreStopped
StartStep == CoreStarted \/ StartWriteApi \/ StartReadApi
LoopStep == LoopTop \/ ApplyBatch

\* The write APIs of all the servers of the cluster.  Nothing here sees what is
\* not committed, so a transaction of ConfigStore is one step (CommitsAreWrites).
WriteStep ==
    /\ cfgSeq < MaxSeq
    /\ cfgSeq' = cfgSeq + 1
    /\ \E k \in Key : AtomicWrite(k, cfgSeq')
    /\ UNCHANGED <<lock, tx, pumpVars, lifeVars, coreVars>>

ConnBreaks == pumpPool /\ DumpConnBreaks /\ UNCHANGED <<lifeVars, coreVars>>

ReplicaNext ==
    \/ WriteStep
    \/ Boot
    \/ DumpStep
    \/ ConnBreaks
    \/ ScanStep
    \/ LoopStep
    \/ StartStep
    \/ Shutdown
    \/ StopStep
    \/ Exit
    \/ Crash

ReplicaSpec == ReplicaInit /\ [][ReplicaNext]_replicaVars

\* The goroutines run: pumpLoop polls for ever, so a parked sender is received.
\* A scan that finds rows succeeds now and then: strong fairness.
ScanFindsRows == ScanStep /\ scanner = "query" /\ page' # {}

ReplicaFairness ==
    /\ WF_replicaVars(DumpStep)
    /\ WF_replicaVars(ScanStep)
    /\ SF_replicaVars(ScanFindsRows)
    /\ WF_replicaVars(LoopStep)
    /\ WF_replicaVars(StartStep)
    /\ WF_replicaVars(StopStep)

ReplicaFairSpec == ReplicaSpec /\ ReplicaFairness

-----------------------------------------------------------------------------
(***************************************************************************)
(* Properties.                                                             *)
(***************************************************************************)

Readable == \E e \in open : e[1] = "read"

\* The server is the Follower that clients take it for: while its read API
\* listens, what it answers with moves forward through the committed changes,
\* and whoever sees a change of one configuration sees what was committed before
\* it of all the others, whatever crashes and restarts there have been before.
Promise == INSTANCE Follower WITH
    truth     <- [k \in Key |-> table[k].seq],
    view      <- [k \in Key |-> served[k].row.seq],
    whole     <- ~cut,
    listening <- Readable

Follows == Promise!FollowerSpec

\* A deleted configuration is answered only if the dump of this start brought it,
\* for dumpFromPump saves what pumpLoop would delete.
FromDump(k) == served[k].row.seq <= dumpMax

\* From the first answer after a start on, readers see every row that the dump
\* found, unless it has changed again since; and of what the server has learned
\* they see what its status says, but for the deleted rows of the dump.
StartsComplete ==
    Readable /\ ~cut => \A k \in Key :
        /\ Exists(k) /\ table[k].seq <= dumpMax => served[k].row = table[k]
        /\ served[k].shown <=> /\ served[k].row.seq > 0
                               /\ served[k].row.status = Valid \/ FromDump(k)

\* Once Shutdown has returned nothing listens any more, except the HTTP server
\* of the one API whose HTTPS server could not be started.
SilentAfterShutdown ==
    proc = "stopped" => \/ open = {}
                        \/ \E api \in Tls \ held : open = {<<api, "http">>}

Running == proc \in {"core", "write", "read", "serving"}

\* Every committed change, or a later one, becomes visible on a server that goes
\* on running: its Startup ends although writers go on, and its scans go on after
\* errors.  The exception is a dump that lost its connection or was cut short.
Shows(n) == Readable /\ \A k \in Key : table[k].seq >= n => served[k].row.seq >= n

ReplicaCatchesUp ==
    \A n \in 1 .. MaxSeq : []<>(Shows(n) \/ ~Running \/ dumpConn = "broken" \/ cut)

\* Shutdown returns, or the process dies of it, and leaves no goroutine behind:
\* neither scanLoop nor pumpLoop waits for ever for the other or for Stop.
ShutdownReturns ==
    proc = "stopWrite" ~> \/ proc = "down"
                          \/ proc = "stopped" /\ scanner = "exit" /\ loop = "exit"

\* ConfigureDesign.md: DELETE /configure is "delete existing configuration";
\* ddl_pg.sql: cfg_status is "0-valid, 1-deleted".  A server that has the deletion
\* of a configuration does not answer with the configuration.
NoDeletedServed ==
    Readable => \A k \in Key : served[k].shown => served[k].row.status = Valid
=============================================================================
