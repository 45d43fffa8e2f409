---------------------------- MODULE ConfigServer ----------------------------
(***************************************************************************)
(* The read side of one configuration server: the in-memory stores and     *)
(* pumpLoop of configure/configserver/server.core.go, and the handler of   *)
(* POST /retrieving in configure/configserver/server.go.                   *)
(*                                                                         *)
(* Every request is a goroutine with a program counter; pumpLoop holds     *)
(* rwlock while it applies a batch of events, one event a step.  Where the *)
(* events come from is the business of DataPump: here any event may come.  *)
(***************************************************************************)
EXTENDS Naturals, FiniteSets

CONSTANTS
    Cfg,            \* configurations of a store: a group and a key
    Sel,            \* selector combinations
    Opt,            \* optional selector combinations that are not empty
    NoOpt,          \* the empty optional selectors
    Request,        \* concurrent requests
    MaxVersion,     \* versions are 1 .. MaxVersion, ordered as strings.Compare does
    MaxKeys,        \* how many configurations a request asks for at most
    BatchSize,      \* maxCnt: how many events pumpLoop merges into a batch
    Kinds           \* the kinds of events that may come

ASSUME NoOptAssumption == NoOpt \notin Opt
ASSUME BatchAssumption == /\ MaxVersion \in Nat \ {0} /\ MaxKeys \in Nat \ {0}
                          /\ BatchSize \in Nat \ {0}
ASSUME KindsAssumption == Kinds \subseteq {"save", "delete"}

VARIABLES
    stores,     \* the selectorsStores that have been created
    data,       \* their configurations: the version, 0 when there is none
    listeners,  \* the requests registered for a configuration of a store
    pc,         \* where the goroutine of a request is
    ask,        \* the store a request asks for
    keys,       \* the configurations it asks for
    have,       \* the versions it has of them, 0 for none
    at,         \* the stores in which it registered listeners: one, or none
    sent,       \* what was sent to its notify channel
    closed,     \* whether the channel is closed
    pump,       \* where pumpLoop is
    applied,    \* how many events of the batch it has applied
    notified,   \* chMap: the requests the batch has notified
    phase       \* the life of the server

handlerVars == <<pc, ask, keys, have, at>>
chanVars    == <<sent, closed>>
storeVars   == <<stores, data, listeners>>
pumpVars    == <<pump, applied, notified>>
vars == <<storeVars, handlerVars, chanVars, pumpVars, phase>>

Store   == Sel \X (Opt \cup {NoOpt})
Version == 1 .. MaxVersion

TypeOK ==
    /\ stores \subseteq Store
    /\ data \in [Store -> [Cfg -> Version \cup {0}]]
    /\ listeners \in [Store -> [Cfg -> SUBSET Request]]
    /\ pc \in [Request -> {"idle", "f1", "f2", "select", "drain", "cancel"}]
    /\ ask \in [Request -> Store]
    /\ keys \in [Request -> SUBSET Cfg]
    /\ have \in [Request -> [Cfg -> Version \cup {0}]]
    /\ at \in [Request -> SUBSET Store]
    /\ sent \in [Request -> SUBSET (Cfg \X Version)]
    /\ closed \in [Request -> BOOLEAN]
    /\ pump \in {"sleep", "apply", "exit", "crashed"}
    /\ applied \in 0 .. BatchSize
    /\ notified \subseteq Request
    /\ phase \in {"serving", "stopping", "stopped"}

-----------------------------------------------------------------------------
(* selectorsMap.                                                           *)
Default(s) == <<s[1], NoOpt>>

\* GetSelectorsGeneral: the store to read, once the selectors are known at all.
Found(s)  == Default(s) \in stores
Lookup(s) == IF s \in stores THEN s ELSE Default(s)

\* GetOrCreateSelectorsGeneral: the default store comes with the first one.
Created(s) == stores \cup {s, Default(s)}

\* DefaultVersionComparator.
HasUpdate(requestVersion, dataVersion) == requestVersion < dataVersion

\* GetConfigurationViaPlainRequest (GET /configure/{group}/{key}); 0 is its 404.
PlainGet(s, k) == IF Found(s) THEN data[Lookup(s)][k] ELSE 0

\* What f1 and f2 find out about a request.
Unknown(r) == \E k \in keys[r] : PlainGet(ask[r], k) = 0
Updates(r) == {k \in keys[r] : HasUpdate(have[r][k], PlainGet(ask[r], k))}

Nothing == [k \in Cfg |-> 0]

\* The stores after dumpFromPump: the events of the dump are all saves.
Init ==
    /\ data \in [Store -> [Cfg -> {0, 1}]]
    /\ stores = UNION {{s, Default(s)} : s \in {t \in Store : data[t] # Nothing}}
    /\ listeners = [s \in Store |-> [k \in Cfg |-> {}]]
    /\ pc = [r \in Request |-> "idle"]
    /\ \E s \in Store : ask = [r \in Request |-> s]
    /\ keys = [r \in Request |-> {}]
    /\ have = [r \in Request |-> Nothing]
    /\ at = [r \in Request |-> {}]
    /\ sent = [r \in Request |-> {}]
    /\ closed = [r \in Request |-> FALSE]
    /\ pump = "sleep" /\ applied = 0 /\ notified = {}
    /\ phase = "serving"

-----------------------------------------------------------------------------
(* handleRetrieveAndListen and RetrieveOrWait.                             *)

\* rwlock: f1, f2 and the cancel function run when pumpLoop does not hold it.
Unlocked == pump # "apply"

\* The end of a request: its goroutine is gone.
Return(r) ==
    /\ pc' = [pc EXCEPT ![r] = "idle"]
    /\ keys' = [keys EXCEPT ![r] = {}]
    /\ have' = [have EXCEPT ![r] = Nothing]
    /\ at' = [at EXCEPT ![r] = {}]
    /\ sent' = [sent EXCEPT ![r] = {}]
    /\ closed' = [closed EXCEPT ![r] = FALSE]

\* Requests are taken once Startup has let the dump into the stores.
Serving == phase = "serving"

Arrive(r, s, K) ==
    /\ Serving
    /\ pc[r] = "idle"
    /\ K # {} /\ Cardinality(K) <= MaxKeys
    /\ \E h \in [Cfg -> Version \cup {0}] :
          /\ \A k \in Cfg \ K : h[k] = 0
          /\ have' = [have EXCEPT ![r] = h]
    /\ pc' = [pc EXCEPT ![r] = "f1"]
    /\ ask' = [ask EXCEPT ![r] = s]
    /\ keys' = [keys EXCEPT ![r] = K]
    /\ UNCHANGED <<storeVars, at, chanVars, pumpVars, phase>>

\* ErrHasUnknownConfiguration: the answer is 404.
NotFound(r) ==
    /\ pc[r] \in {"f1", "f2"} /\ Unlocked
    /\ Unknown(r)
    /\ Return(r)
    /\ UNCHANGED <<storeVars, ask, pumpVars, phase>>

\* f1 or f2 has updates: a channel that holds them all and is closed already.
ReplyNow(r) ==
    /\ pc[r] \in {"f1", "f2"} /\ Unlocked
    /\ ~Unknown(r) /\ Updates(r) # {}
    /\ sent' = [sent EXCEPT ![r] = {<<k, PlainGet(ask[r], k)>> : k \in Updates(r)}]
    /\ closed' = [closed EXCEPT ![r] = TRUE]
    /\ pc' = [pc EXCEPT ![r] = "select"]
    /\ UNCHANGED <<storeVars, ask, keys, have, at, pumpVars, phase>>

\* f1 has none: the read lock is released before f2 takes the lock.
NoUpdateYet(r) ==
    /\ pc[r] = "f1" /\ Unlocked
    /\ ~Unknown(r) /\ Updates(r) = {}
    /\ pc' = [pc EXCEPT ![r] = "f2"]
    /\ UNCHANGED <<storeVars, ask, keys, have, at, chanVars, pumpVars, phase>>

\* Mutant of Register: f2 registers without looking for updates again.
RegisterUnchecked(r) ==
    /\ pc[r] = "f2" /\ Unlocked
    /\ ~Unknown(r)
    /\ LET s == Lookup(ask[r]) IN
          /\ listeners' = [listeners EXCEPT ![s] =
                              [k \in Cfg |-> IF k \in keys[r] THEN @[k] \cup {r} ELSE @[k]]]
          /\ at' = [at EXCEPT ![r] = {s}]
    /\ pc' = [pc EXCEPT ![r] = "select"]
    /\ UNCHANGED <<stores, data, ask, keys, have, chanVars, pumpVars, phase>>

\* f2 has none either: register a listener for every configuration asked for.
Register(r) ==
    /\ pc[r] = "f2" /\ Unlocked
    /\ ~Unknown(r) /\ Updates(r) = {}
    /\ LET s == Lookup(ask[r]) IN
          /\ listeners' = [listeners EXCEPT ![s] =
                              [k \in Cfg |-> IF k \in keys[r] THEN @[k] \cup {r} ELSE @[k]]]
          /\ at' = [at EXCEPT ![r] = {s}]
    /\ pc' = [pc EXCEPT ![r] = "select"]
    /\ UNCHANGED <<stores, data, ask, keys, have, chanVars, pumpVars, phase>>

\* The handler's select finds something in the channel.
Receive(r) ==
    /\ pc[r] = "select"
    /\ sent[r] # {}
    /\ pc' = [pc EXCEPT ![r] = "drain"]
    /\ UNCHANGED <<storeVars, ask, keys, have, at, chanVars, pumpVars, phase>>

\* The timer wins the select, whatever the channel holds: the answer is 304.
TimeOut(r) ==
    /\ pc[r] = "select"
    /\ pc' = [pc EXCEPT ![r] = "cancel"]
    /\ UNCHANGED <<storeVars, ask, keys, have, at, chanVars, pumpVars, phase>>

\* The channel is read to its close, however long that takes: the answer is
\* 200 with all that was sent.
Respond(r) ==
    /\ pc[r] = "drain"
    /\ closed[r]
    /\ pc' = [pc EXCEPT ![r] = "cancel"]
    /\ UNCHANGED <<storeVars, ask, keys, have, at, chanVars, pumpVars, phase>>

\* Mutant of Cancel: the store is looked up again instead of captured by f2.
CancelByLookup(r) ==
    /\ pc[r] = "cancel"
    /\ at[r] = {} \/ Unlocked
    /\ LET s == Lookup(ask[r]) IN
          listeners' = [listeners EXCEPT ![s] = [k \in Cfg |-> @[k] \ {r}]]
    /\ Return(r)
    /\ UNCHANGED <<stores, data, ask, pumpVars, phase>>

\* The deferred cancel function: CancelWait in the store f2 has found.  That
\* of an immediate reply does nothing.
Cancel(r) ==
    /\ pc[r] = "cancel"
    /\ at[r] = {} \/ Unlocked
    /\ listeners' = [s \in Store |->
                        IF s \in at[r]
                          THEN [k \in Cfg |-> IF k \in keys[r] THEN listeners[s][k] \ {r}
                                                               ELSE listeners[s][k]]
                          ELSE listeners[s]]
    /\ Return(r)
    /\ UNCHANGED <<stores, data, ask, pumpVars, phase>>

-----------------------------------------------------------------------------
(* pumpLoop.                                                               *)
\* Mutant of PumpLock: closeCh is not looked at.
PumpLockForEver ==
    /\ pump = "sleep"
    /\ pump' = "apply" /\ applied' = 0 /\ notified' = {}
    /\ UNCHANGED <<storeVars, handlerVars, chanVars, phase>>

PumpLock ==
    /\ pump = "sleep" /\ phase # "stopped"
    /\ pump' = "apply" /\ applied' = 0 /\ notified' = {}
    /\ UNCHANGED <<storeVars, handlerVars, chanVars, phase>>

MayApply(kind) ==
    /\ pump = "apply" /\ applied < BatchSize
    /\ kind \in Kinds

\* Mutant of ApplySave: the listeners stay.
ApplySaveKeepsListeners(s, k, v) ==
    /\ MayApply("save")
    /\ \A r \in listeners[s][k] : ~closed[r]
    /\ stores' = Created(s)
    /\ data' = [data EXCEPT ![s][k] = v]
    /\ sent' = [r \in Request |->
                   IF r \in listeners[s][k] THEN sent[r] \cup {<<k, v>>} ELSE sent[r]]
    /\ notified' = notified \cup listeners[s][k]
    /\ applied' = applied + 1
    /\ UNCHANGED <<listeners, handlerVars, closed, pump, phase>>

\* SaveConfigurationWithNotification: every listener of the configuration is
\* sent the new one, then they are all dropped.
ApplySave(s, k, v) ==
    /\ MayApply("save")
    /\ \A r \in listeners[s][k] : ~closed[r]
    /\ stores' = Created(s)
    /\ data' = [data EXCEPT ![s][k] = v]
    /\ sent' = [r \in Request |->
                   IF r \in listeners[s][k] THEN sent[r] \cup {<<k, v>>} ELSE sent[r]]
    /\ notified' = notified \cup listeners[s][k]
    /\ listeners' = [listeners EXCEPT ![s][k] = {}]
    /\ applied' = applied + 1
    /\ UNCHANGED <<handlerVars, closed, pump, phase>>

\* A send on a closed channel panics, and nothing recovers in this goroutine:
\* the process dies.
ApplyPanics(s, k, v) ==
    /\ MayApply("save")
    /\ \E r \in listeners[s][k] : closed[r]
    /\ pump' = "crashed"
    /\ UNCHANGED <<storeVars, handlerVars, chanVars, applied, notified, phase>>

\* DeleteConfiguration: the listeners are dropped, and nobody tells them.
ApplyDelete(s, k) ==
    /\ MayApply("delete")
    /\ stores' = Created(s)
    /\ data' = [data EXCEPT ![s][k] = 0]
    /\ listeners' = [listeners EXCEPT ![s][k] = {}]
    /\ applied' = applied + 1
    /\ UNCHANGED <<handlerVars, chanVars, pump, notified, phase>>

\* Mutant of PumpUnlock: the channels are not closed.
PumpUnlockOnly ==
    /\ pump = "apply"
    /\ pump' = "sleep" /\ applied' = 0 /\ notified' = {}
    /\ UNCHANGED <<storeVars, handlerVars, chanVars, phase>>

\* The end of the batch: close the channels of chMap and release the lock.
PumpUnlock ==
    /\ pump = "apply"
    /\ closed' = [r \in Request |-> closed[r] \/ r \in notified]
    /\ pump' = "sleep" /\ applied' = 0 /\ notified' = {}
    /\ UNCHANGED <<storeVars, handlerVars, sent, phase>>

PumpExit ==
    /\ pump = "sleep" /\ phase = "stopped"
    /\ pump' = "exit"
    /\ UNCHANGED <<storeVars, handlerVars, chanVars, applied, notified, phase>>

-----------------------------------------------------------------------------
(* ConfigureServer.Shutdown: the HTTP server takes no new request and waits *)
(* for those in progress, then the pump is stopped and closeCh closed.      *)
StopHttp ==
    /\ phase = "serving"
    /\ phase' = "stopping"
    /\ UNCHANGED <<storeVars, handlerVars, chanVars, pumpVars>>

\* The HTTP servers' Shutdown returns when no handler runs.
Drained == \A r \in Request : pc[r] = "idle"

StopPump ==
    /\ phase = "stopping"
    /\ Drained
    /\ phase' = "stopped"
    /\ UNCHANGED <<storeVars, handlerVars, chanVars, pumpVars>>

RequestStep(r) ==
    \/ \E s \in Store, K \in SUBSET Cfg : Arrive(r, s, K)
    \/ NotFound(r)
    \/ ReplyNow(r)
    \/ NoUpdateYet(r)
    \/ Register(r)
    \/ Receive(r)
    \/ TimeOut(r)
    \/ Respond(r)
    \/ Cancel(r)

ApplyStep ==
    \E s \in Store, k \in Cfg :
        \/ \E v \in Version : ApplySave(s, k, v) \/ ApplyPanics(s, k, v)
        \/ ApplyDelete(s, k)

Next ==
    /\ pump # "crashed"
    /\ \/ \E r \in Request : RequestStep(r)
       \/ PumpLock
       \/ ApplyStep
       \/ PumpUnlock
       \/ PumpExit
       \/ StopHttp
       \/ StopPump

Spec == Init /\ [][Next]_vars

\* The goroutines run.  Go's RWMutex starves nobody, though pumpLoop takes it
\* again and again: strong fairness for what needs the lock.
HandlerFairness(r) ==
    /\ SF_vars(NotFound(r) \/ ReplyNow(r) \/ NoUpdateYet(r) \/ Register(r))
    /\ WF_vars(Receive(r) \/ Respond(r))
    /\ SF_vars(Cancel(r))

\* Batches are finite, and closeCh is looked at between them.
PumpFairness == WF_vars(PumpUnlock) /\ WF_vars(PumpExit) /\ WF_vars(StopPump)

FairSpec == Spec /\ PumpFairness /\ \A r \in Request : HandlerFairness(r)

\* The timer of the handler (MaxWaitTimeForUpdate).
TimersFire == \A r \in Request : WF_vars(TimeOut(r))

-----------------------------------------------------------------------------
(***************************************************************************)
(* Properties.                                                             *)
(***************************************************************************)

\* A listener belongs to a request that is still there and that will cancel
\* it: nothing is ever sent for a request that has returned.
NoStaleListener ==
    \A s \in Store, k \in Cfg : \A r \in listeners[s][k] :
        /\ pc[r] \in {"select", "drain", "cancel"}
        /\ s \in at[r] /\ k \in keys[r]

\* No wakeup is lost between f1 and f2: a request that listens has no update
\* waiting for it already in the store it listens to.
ListenerUpToDate ==
    \A s \in Store, k \in Cfg : \A r \in listeners[s][k] :
        data[s][k] # 0 /\ ~HasUpdate(have[r][k], data[s][k])

\* A notify channel, made for len(Requested) events, takes every event without
\* blocking pumpLoop, which holds the lock; and it is never closed empty, which
\* the handler would answer with 500.
ChannelSuffices ==
    \A r \in Request :
        /\ \A e, f \in sent[r] : e[1] \in keys[r] /\ (e[1] = f[1] => e = f)
        /\ closed[r] => sent[r] # {}

\* server.go: "any update will cause the channel to be closed", so whoever has
\* been notified is done with.  pumpLoop never sends on a closed channel.
NoPanic == pump # "crashed"

\* A request that has been sent an update answers and leaves with no help of
\* its timer: its channel is closed by the batch that notified it.
UpdatesWake ==
    \A r \in Request :
        (pc[r] = "select" /\ sent[r] # {}) ~> (pc[r] = "idle" \/ pump = "crashed")

\* Shutdown comes to its end, for every request in progress is answered and
\* leaves: at the latest when its timer fires, whatever the pump does.
ShutdownEnds ==
    TimersFire => (phase = "stopping" ~> (pump = "exit" \/ pump = "crashed"))
=============================================================================
