------------------------- MODULE ConfigServerProofs -------------------------
(***************************************************************************)
(* Theorems about ConfigServer, for any number of requests, stores and     *)
(* configurations and any size of the batches.                             *)
(***************************************************************************)
EXTENDS ConfigServer, FiniteSetTheorems, TLAPS

\* What the program counter of a request says about its channel and listeners.
HandlerInv ==
    \A r \in Request :
        /\ pc[r] \in {"idle", "f1", "f2"} => sent[r] = {} /\ ~closed[r] /\ at[r] = {}
        /\ pc[r] = "idle" => keys[r] = {}
        /\ \A s, t \in at[r] : s = t

\* chMap holds requests that have been sent something and that cannot cancel
\* before the batch ends.
BatchInv ==
    /\ pump \in {"sleep", "exit"} => notified = {}
    /\ \A r \in notified :
          at[r] # {} /\ sent[r] # {} /\ pc[r] \in {"select", "drain", "cancel"}

\* A configuration that was sent is not listened to any more.
SentInv ==
    \A r \in Request :
        /\ \A e \in sent[r], s \in Store : r \notin listeners[s][e[1]]
        /\ \A e, f \in sent[r] : e[1] \in keys[r] /\ (e[1] = f[1] => e = f)
        /\ closed[r] => sent[r] # {}

ServerInv == TypeOK /\ HandlerInv /\ BatchInv /\ NoStaleListener /\ ListenerUpToDate /\ SentInv

LEMMA StoreFacts ==
    ASSUME NEW s \in Store
    PROVE  Default(s) \in Store /\ Lookup(s) \in Store
  BY DEF Store, Default, Lookup

LEMMA ServerInitInv == Init => ServerInv
<1> SUFFICES ASSUME Init PROVE ServerInv
  OBVIOUS
<1>1. TypeOK
  <2>1. stores \subseteq Store
    BY StoreFacts DEF Init
  <2>2. data \in [Store -> [Cfg -> Version \cup {0}]]
    BY BatchAssumption DEF Init, Version
  <2> QED
    BY <2>1, <2>2, BatchAssumption DEF Init, TypeOK, Nothing
<1>2. HandlerInv /\ BatchInv /\ NoStaleListener /\ ListenerUpToDate /\ SentInv
  BY DEF Init, HandlerInv, BatchInv, NoStaleListener, ListenerUpToDate, SentInv
<1> QED
  BY <1>1, <1>2 DEF ServerInv

-----------------------------------------------------------------------------
\* The steps of a request before it has registered anything.
LEMMA EarlySteps ==
    ASSUME ServerInv, NEW r \in Request,
           (\E s \in Store, K \in SUBSET Cfg : Arrive(r, s, K)) \/ NotFound(r) \/ ReplyNow(r) \/ NoUpdateYet(r)
    PROVE  ServerInv'
<1> USE DEF ServerInv
<1>0. pc[r] \in {"idle", "f1", "f2"} /\ \A s \in Store, k \in Cfg : r \notin listeners[s][k]
  BY DEF Arrive, NotFound, ReplyNow, NoUpdateYet, NoStaleListener
<1>1. CASE \E s \in Store, K \in SUBSET Cfg : Arrive(r, s, K)
  <2> PICK s \in Store, K \in SUBSET Cfg : Arrive(r, s, K)
    BY <1>1
  <2>1. TypeOK'
    BY DEF TypeOK, Arrive, storeVars, chanVars, pumpVars
  <2>2. pc[r] = "idle"
    BY DEF Arrive
  <2>3. HandlerInv' /\ BatchInv'
    BY <2>2 DEF TypeOK, Arrive, storeVars, chanVars, pumpVars, HandlerInv, BatchInv
  <2>4. NoStaleListener' /\ ListenerUpToDate'
    BY <1>0, <2>2 DEF TypeOK, Arrive, storeVars, chanVars, pumpVars, NoStaleListener, ListenerUpToDate
  <2>5. SentInv'
    BY <2>2 DEF TypeOK, Arrive, storeVars, chanVars, HandlerInv, SentInv
  <2> QED
    BY <2>1, <2>3, <2>4, <2>5
<1>2. CASE NotFound(r)
  <2>1. TypeOK'
    BY <1>2 DEF TypeOK, NotFound, Return, Nothing, storeVars, pumpVars
  <2>2. HandlerInv' /\ BatchInv'
    BY <1>2 DEF TypeOK, NotFound, Return, storeVars, pumpVars, HandlerInv, BatchInv
  <2>3. NoStaleListener' /\ ListenerUpToDate'
    BY <1>0, <1>2 DEF TypeOK, NotFound, Return, storeVars, NoStaleListener, ListenerUpToDate
  <2>4. SentInv'
    BY <1>2 DEF TypeOK, NotFound, Return, storeVars, SentInv
  <2> QED
    BY <2>1, <2>2, <2>3, <2>4
<1>3. CASE ReplyNow(r)
  <2> DEFINE new == {<<k, PlainGet(ask[r], k)>> : k \in Updates(r)}
  <2>1. Updates(r) \subseteq keys[r] /\ keys[r] \subseteq Cfg
    BY DEF Updates, TypeOK
  <2>2. \A k \in keys[r] : PlainGet(ask[r], k) \in Version
    <3> SUFFICES ASSUME NEW k \in keys[r] PROVE PlainGet(ask[r], k) \in Version
      OBVIOUS
    <3>1. PlainGet(ask[r], k) # 0
      BY <1>3 DEF ReplyNow, Unknown
    <3>2. Lookup(ask[r]) \in Store /\ k \in Cfg
      BY <2>1, StoreFacts DEF TypeOK
    <3> QED
      BY <3>1, <3>2 DEF PlainGet, TypeOK
  <2>3. new \in SUBSET (Cfg \X Version) /\ new # {}
    <3>1. \A e \in new : e \in Cfg \X Version
      BY <2>1, <2>2
    <3>2. PICK k \in Updates(r) : TRUE
      BY <1>3 DEF ReplyNow
    <3>3. <<k, PlainGet(ask[r], k)>> \in new
      BY <3>2
    <3> QED
      BY <3>1, <3>3
  <2>4. \A e \in new : e[1] \in keys[r]
    BY <2>1
  <2>5. \A e, f \in new : e[1] = f[1] => e = f
    OBVIOUS
  <2>6. /\ sent' = [sent EXCEPT ![r] = new] /\ closed' = [closed EXCEPT ![r] = TRUE]
        /\ pc' = [pc EXCEPT ![r] = "select"]
        /\ UNCHANGED <<storeVars, ask, keys, have, at, pumpVars, phase>>
    BY <1>3 DEF ReplyNow
  <2> HIDE DEF new
  <2>7. TypeOK'
    BY <2>3, <2>6 DEF TypeOK, storeVars, pumpVars
  <2>8. HandlerInv' /\ BatchInv'
    BY <1>0, <2>3, <2>6 DEF TypeOK, storeVars, pumpVars, HandlerInv, BatchInv
  <2>9. NoStaleListener' /\ ListenerUpToDate'
    BY <1>0, <2>6 DEF TypeOK, storeVars, NoStaleListener, ListenerUpToDate
  <2>10. SentInv'
    BY <1>0, <2>1, <2>3, <2>4, <2>5, <2>6 DEF TypeOK, storeVars, SentInv
  <2> QED
    BY <2>7, <2>8, <2>9, <2>10
<1>4. CASE NoUpdateYet(r)
  BY <1>4 DEF NoUpdateYet, TypeOK, HandlerInv, BatchInv, NoStaleListener, ListenerUpToDate, SentInv,
              storeVars, chanVars, pumpVars
<1> QED
  BY <1>1, <1>2, <1>3, <1>4

-----------------------------------------------------------------------------
\* The steps of a request that registers, waits and cancels.
LEMMA LateSteps ==
    ASSUME ServerInv, pump # "crashed", NEW r \in Request,
           Register(r) \/ Receive(r) \/ TimeOut(r) \/ Respond(r) \/ Cancel(r)
    PROVE  ServerInv'
<1> USE DEF ServerInv
<1>1. CASE Register(r)
  <2> DEFINE s == Lookup(ask[r])
  <2>1. s \in Store /\ keys[r] \subseteq Cfg
    BY StoreFacts DEF TypeOK
  <2>2. \A k \in keys[r] : data[s][k] # 0 /\ ~HasUpdate(have[r][k], data[s][k])
    <3> SUFFICES ASSUME NEW k \in keys[r] PROVE data[s][k] # 0 /\ ~HasUpdate(have[r][k], data[s][k])
      OBVIOUS
    <3>1. PlainGet(ask[r], k) # 0 /\ ~HasUpdate(have[r][k], PlainGet(ask[r], k))
      BY <1>1 DEF Register, Unknown, Updates
    <3> QED
      BY <3>1 DEF PlainGet
  <2>3. /\ listeners' = [listeners EXCEPT ![s] =
                            [k \in Cfg |-> IF k \in keys[r] THEN @[k] \cup {r} ELSE @[k]]]
        /\ at' = [at EXCEPT ![r] = {s}] /\ pc' = [pc EXCEPT ![r] = "select"] /\ pc[r] = "f2"
        /\ UNCHANGED <<stores, data, ask, keys, have, chanVars, pumpVars, phase>>
    BY <1>1 DEF Register
  <2> HIDE DEF s
  <2>4. \A t \in Store, k \in Cfg :
           listeners'[t][k] = IF t = s /\ k \in keys[r] THEN listeners[t][k] \cup {r} ELSE listeners[t][k]
    BY <2>1, <2>3 DEF TypeOK
  <2>5. TypeOK'
    <3>1. [k \in Cfg |-> IF k \in keys[r] THEN listeners[s][k] \cup {r} ELSE listeners[s][k]]
             \in [Cfg -> SUBSET Request]
      BY <2>1 DEF TypeOK
    <3>2. listeners' \in [Store -> [Cfg -> SUBSET Request]]
      BY <2>1, <2>3, <3>1 DEF TypeOK
    <3> QED
      BY <2>1, <2>3, <3>2 DEF TypeOK, chanVars, pumpVars
  <2>6. HandlerInv' /\ BatchInv'
    BY <2>3 DEF TypeOK, chanVars, pumpVars, HandlerInv, BatchInv
  <2>7. NoStaleListener'
    BY <2>3, <2>4 DEF TypeOK, NoStaleListener
  <2>8. ListenerUpToDate'
    BY <2>2, <2>3, <2>4 DEF TypeOK, ListenerUpToDate
  <2>9. SentInv'
    <3>1. sent[r] = {}
      BY <2>3 DEF HandlerInv
    <3> QED
      BY <2>3, <2>4, <3>1 DEF TypeOK, chanVars, SentInv
  <2> QED
    BY <2>5, <2>6, <2>7, <2>8, <2>9
<1>2. CASE Receive(r) \/ TimeOut(r) \/ Respond(r)
  <2>1. PICK p \in {"drain", "cancel"} : pc' = [pc EXCEPT ![r] = p]
    BY <1>2 DEF Receive, TimeOut, Respond
  <2>2. pc[r] \in {"select", "drain"} /\ UNCHANGED <<storeVars, ask, keys, have, at, chanVars, pumpVars, phase>>
    BY <1>2 DEF Receive, TimeOut, Respond
  <2>3. TypeOK' /\ HandlerInv' /\ BatchInv'
    BY <2>1, <2>2 DEF TypeOK, HandlerInv, BatchInv, storeVars, chanVars, pumpVars
  <2>4. NoStaleListener' /\ ListenerUpToDate' /\ SentInv'
    BY <2>1, <2>2 DEF TypeOK, NoStaleListener, ListenerUpToDate, SentInv, storeVars, chanVars
  <2> QED
    BY <2>3, <2>4
<1>3. CASE Cancel(r)
  <2>1. \A s \in Store, k \in Cfg : listeners'[s][k] = listeners[s][k] \ {r}
    BY <1>3 DEF Cancel, NoStaleListener, TypeOK
  <2>2. r \notin notified
    <3>1. at[r] # {} => pump \in {"sleep", "exit"}
      BY <1>3 DEF Cancel, Unlocked, TypeOK
    <3> QED
      BY <3>1 DEF BatchInv
  <2>3. TypeOK'
    <3>1. listeners' \in [Store -> [Cfg -> SUBSET Request]]
      BY <1>3 DEF Cancel, TypeOK
    <3> QED
      BY <1>3, <3>1 DEF Cancel, Return, Nothing, TypeOK, pumpVars
  <2>4. HandlerInv' /\ BatchInv'
    BY <1>3, <2>2 DEF Cancel, Return, TypeOK, pumpVars, HandlerInv, BatchInv
  <2>5. NoStaleListener' /\ ListenerUpToDate'
    BY <1>3, <2>1 DEF Cancel, Return, TypeOK, NoStaleListener, ListenerUpToDate
  <2>6. SentInv'
    BY <1>3, <2>1 DEF Cancel, Return, TypeOK, SentInv
  <2> QED
    BY <2>3, <2>4, <2>5, <2>6
<1> QED
  BY <1>1, <1>2, <1>3

-----------------------------------------------------------------------------
\* The steps of pumpLoop and of the shutdown.
LEMMA PumpSteps ==
    ASSUME ServerInv, PumpLock \/ ApplyStep \/ PumpUnlock \/ PumpExit \/ StopHttp \/ StopPump
    PROVE  ServerInv'
<1> USE DEF ServerInv
<1>1. CASE PumpLock \/ PumpExit \/ StopHttp \/ StopPump
  BY <1>1, BatchAssumption DEF PumpLock, PumpExit, StopHttp, StopPump, TypeOK, HandlerInv, BatchInv,
       NoStaleListener, ListenerUpToDate, SentInv, storeVars, handlerVars, chanVars, pumpVars
<1>2. CASE PumpUnlock
  BY <1>2, BatchAssumption DEF PumpUnlock, TypeOK, HandlerInv, BatchInv,
       NoStaleListener, ListenerUpToDate, SentInv, storeVars, handlerVars
<1>3. ASSUME NEW s \in Store, NEW k \in Cfg, NEW v \in Version, ApplySave(s, k, v)
      PROVE  ServerInv'
  <2>0. /\ stores' = Created(s) /\ data' = [data EXCEPT ![s][k] = v]
        /\ sent' = [r \in Request |->
                       IF r \in listeners[s][k] THEN sent[r] \cup {<<k, v>>} ELSE sent[r]]
        /\ notified' = notified \cup listeners[s][k]
        /\ listeners' = [listeners EXCEPT ![s][k] = {}]
        /\ applied' = applied + 1 /\ applied < BatchSize /\ pump = "apply"
        /\ UNCHANGED <<handlerVars, closed, pump, phase>>
    BY <1>3 DEF ApplySave, MayApply
  <2>1. \A t \in Store, j \in Cfg :
           /\ listeners'[t][j] = IF t = s /\ j = k THEN {} ELSE listeners[t][j]
           /\ data'[t][j] = IF t = s /\ j = k THEN v ELSE data[t][j]
    BY <2>0 DEF TypeOK
  <2>2. \A r \in listeners[s][k] : r \in Request /\ s \in at[r] /\ k \in keys[r]
                                   /\ pc[r] \in {"select", "drain", "cancel"}
    BY DEF NoStaleListener, TypeOK
  <2>3. TypeOK'
    <3>1. stores' \subseteq Store
      BY <2>0, StoreFacts DEF Created, TypeOK
    <3>2. data' \in [Store -> [Cfg -> Version \cup {0}]]
      BY <2>0 DEF TypeOK
    <3>3. listeners' \in [Store -> [Cfg -> SUBSET Request]]
      BY <2>0 DEF TypeOK
    <3>4. sent' \in [Request -> SUBSET (Cfg \X Version)]
      <4>1. \A r \in Request :
               (IF r \in listeners[s][k] THEN sent[r] \cup {<<k, v>>} ELSE sent[r]) \in SUBSET (Cfg \X Version)
        BY DEF TypeOK
      <4> QED
        BY <2>0, <4>1
    <3>5. notified' \subseteq Request /\ applied' \in 0 .. BatchSize
      BY <2>0, BatchAssumption DEF TypeOK
    <3> QED
      BY <2>0, <3>1, <3>2, <3>3, <3>4, <3>5 DEF TypeOK, handlerVars
  <2>4. HandlerInv'
    BY <2>0, <2>2 DEF handlerVars, HandlerInv
  <2>5. BatchInv'
    BY <2>0, <2>2 DEF handlerVars, BatchInv, TypeOK
  <2>6. NoStaleListener'
    BY <2>0, <2>1 DEF handlerVars, NoStaleListener
  <2>7. ListenerUpToDate'
    BY <2>0, <2>1 DEF handlerVars, ListenerUpToDate, TypeOK
  <2>8. SentInv'
    <3> SUFFICES ASSUME NEW r \in Request
                 PROVE  /\ \A e \in sent'[r], t \in Store : r \notin listeners'[t][e[1]]
                        /\ \A e, f \in sent'[r] : e[1] \in keys'[r] /\ (e[1] = f[1] => e = f)
                        /\ closed'[r] => sent'[r] # {}
      BY DEF SentInv
    <3>1. CASE r \notin listeners[s][k]
      <4>1. sent'[r] = sent[r] /\ keys'[r] = keys[r] /\ closed'[r] = closed[r]
        BY <2>0, <3>1 DEF handlerVars
      <4>2. \A e \in sent[r] : e[1] \in Cfg
        BY DEF TypeOK
      <4> QED
        BY <2>1, <4>1, <4>2 DEF SentInv
    <3>2. CASE r \in listeners[s][k]
      <4>1. sent'[r] = sent[r] \cup {<<k, v>>} /\ keys'[r] = keys[r] /\ k \in keys[r]
        BY <2>0, <2>2, <3>2 DEF handlerVars
      <4>2. \A e \in sent[r] : e[1] \in Cfg /\ e[1] # k
        BY <3>2 DEF TypeOK, SentInv
      <4>3. \A t \in Store : r \notin listeners'[t][k]
        <5> SUFFICES ASSUME NEW t \in Store, t # s PROVE r \notin listeners[t][k]
          BY <2>1
        <5> QED
          BY <2>2, <3>2 DEF NoStaleListener, HandlerInv
      <4>4. \A e \in sent[r], t \in Store : r \notin listeners'[t][e[1]]
        BY <2>1, <4>2 DEF SentInv
      <4>5. \A e, f \in sent[r] : e[1] \in keys[r] /\ (e[1] = f[1] => e = f)
        BY DEF SentInv
      <4>6. <<k, v>>[1] = k
        OBVIOUS
      <4>7. \A e \in sent'[r] : e \in sent[r] \/ e = <<k, v>>
        BY <4>1
      <4>8. \A e \in sent'[r], t \in Store : r \notin listeners'[t][e[1]]
        BY <4>3, <4>4, <4>6, <4>7
      <4>9. \A e, f \in sent'[r] : e[1] \in keys[r] /\ (e[1] = f[1] => e = f)
        BY <4>1, <4>2, <4>5, <4>6, <4>7
      <4> QED
        BY <4>1, <4>8, <4>9
    <3> QED
      BY <3>1, <3>2
  <2> QED
    BY <2>3, <2>4, <2>5, <2>6, <2>7, <2>8
<1>4. ASSUME NEW s \in Store, NEW k \in Cfg, NEW v \in Version, ApplyPanics(s, k, v)
      PROVE  ServerInv'
  BY <1>4 DEF ApplyPanics, MayApply, TypeOK, HandlerInv, BatchInv, NoStaleListener, ListenerUpToDate,
              SentInv, storeVars, handlerVars, chanVars
<1>5. ASSUME NEW s \in Store, NEW k \in Cfg, ApplyDelete(s, k)
      PROVE  ServerInv'
  <2>0. /\ stores' = Created(s) /\ data' = [data EXCEPT ![s][k] = 0]
        /\ listeners' = [listeners EXCEPT ![s][k] = {}]
        /\ applied' = applied + 1 /\ applied < BatchSize
        /\ UNCHANGED <<handlerVars, chanVars, pump, notified, phase>>
    BY <1>5 DEF ApplyDelete, MayApply
  <2>1. \A t \in Store, j \in Cfg :
           /\ listeners'[t][j] = IF t = s /\ j = k THEN {} ELSE listeners[t][j]
           /\ data'[t][j] = IF t = s /\ j = k THEN 0 ELSE data[t][j]
    BY <2>0 DEF TypeOK
  <2>2. TypeOK'
    <3>1. stores' \subseteq Store
      BY <2>0, StoreFacts DEF Created, TypeOK
    <3>2. data' \in [Store -> [Cfg -> Version \cup {0}]]
      BY <2>0 DEF TypeOK
    <3>3. listeners' \in [Store -> [Cfg -> SUBSET Request]]
      BY <2>0 DEF TypeOK
    <3>4. applied' \in 0 .. BatchSize
      BY <2>0, BatchAssumption DEF TypeOK
    <3> QED
      BY <2>0, <3>1, <3>2, <3>3, <3>4 DEF TypeOK, handlerVars, chanVars
  <2>3. HandlerInv' /\ BatchInv'
    BY <2>0 DEF handlerVars, chanVars, HandlerInv, BatchInv
  <2>4. NoStaleListener' /\ ListenerUpToDate'
    BY <2>0, <2>1 DEF handlerVars, NoStaleListener, ListenerUpToDate
  <2>5. SentInv'
    <3>1. \A r \in Request : \A e \in sent[r] : e[1] \in Cfg
      BY DEF TypeOK
    <3> QED
      BY <2>0, <2>1, <3>1 DEF handlerVars, chanVars, SentInv
  <2> QED
    BY <2>2, <2>3, <2>4, <2>5
<1> QED
  BY <1>1, <1>2, <1>3, <1>4, <1>5 DEF ApplyStep

LEMMA ServerStep == ASSUME ServerInv, [Next]_vars PROVE ServerInv'
<1>1. CASE Next
  BY <1>1, EarlySteps, LateSteps, PumpSteps DEF Next, RequestStep
<1>2. CASE UNCHANGED vars
  BY <1>2 DEF vars, storeVars, handlerVars, chanVars, pumpVars, ServerInv, TypeOK, HandlerInv,
              BatchInv, NoStaleListener, ListenerUpToDate, SentInv
<1> QED
  BY <1>1, <1>2

\* The bookkeeping of the listeners and of the notify channels.
THEOREM ServerInvariant == Spec => []ServerInv
<1> QED
  BY ServerInitInv, ServerStep, PTL DEF Spec

\* No request leaves a listener behind.
THEOREM ListenersAreCancelled == Spec => []NoStaleListener
<1>1. ServerInv => NoStaleListener
  BY DEF ServerInv
<1> QED
  BY <1>1, ServerInvariant, PTL

\* No update slips in between f1, f2 and the registration of the listeners.
THEOREM NoLostWakeup == Spec => []ListenerUpToDate
<1>1. ServerInv => ListenerUpToDate
  BY DEF ServerInv
<1> QED
  BY <1>1, ServerInvariant, PTL

\* pumpLoop, which holds the lock, never blocks on a notify channel.
THEOREM ChannelsHoldAll == Spec => []ChannelSuffices
<1>1. ServerInv => ChannelSuffices
  BY DEF ServerInv, SentInv, ChannelSuffices
<1> QED
  BY <1>1, ServerInvariant, PTL

-----------------------------------------------------------------------------
\* Requests for a single configuration.
OneKey == \A r \in Request : \A j, k \in keys[r] : j = k

\* The server cannot panic while every request asks for one configuration.
THEOREM SingleKeysAreSafe ==
    ASSUME MaxKeys = 1, IsFiniteSet(Cfg)
    PROVE  Spec => []NoPanic
<1>1. Init => OneKey /\ NoPanic
  BY DEF Init, OneKey, NoPanic
<1>2. ServerInv /\ OneKey /\ [Next]_vars => OneKey'
  <2> SUFFICES ASSUME ServerInv, OneKey, [Next]_vars PROVE OneKey'
    OBVIOUS
  <2>1. ASSUME NEW r \in Request, NEW s \in Store, NEW K \in SUBSET Cfg, Arrive(r, s, K)
        PROVE  OneKey'
    <3>1. IsFiniteSet(K) /\ Cardinality(K) \in Nat /\ Cardinality(K) <= 1 /\ K # {}
      BY <2>1, FS_Subset, FS_CardinalityType DEF Arrive
    <3>2. Cardinality(K) = 1
      BY <3>1, FS_EmptySet
    <3>3. \E x : K = {x}
      BY <3>1, <3>2, FS_Singleton
    <3> QED
      BY <2>1, <3>3 DEF Arrive, OneKey, ServerInv, TypeOK
  <2>2. ASSUME NEW r \in Request, NotFound(r) \/ Cancel(r)
        PROVE  OneKey'
    BY <2>2 DEF NotFound, Cancel, Return, OneKey, ServerInv, TypeOK
  <2>3. ASSUME NEW r \in Request,
               ReplyNow(r) \/ NoUpdateYet(r) \/ Register(r) \/ Receive(r) \/ TimeOut(r) \/ Respond(r)
        PROVE  keys' = keys
    BY <2>3 DEF ReplyNow, NoUpdateYet, Register, Receive, TimeOut, Respond
  <2>4. CASE PumpLock \/ ApplyStep \/ PumpUnlock \/ PumpExit \/ StopHttp \/ StopPump \/ UNCHANGED vars
    BY <2>4 DEF PumpLock, ApplyStep, ApplySave, ApplyPanics, ApplyDelete, PumpUnlock, PumpExit,
                StopHttp, StopPump, vars, handlerVars, OneKey
  <2> QED
    BY <2>1, <2>2, <2>3, <2>4 DEF Next, RequestStep, OneKey
<1>3. ServerInv /\ OneKey /\ NoPanic /\ [Next]_vars => NoPanic'
  <2> SUFFICES ASSUME ServerInv, OneKey, pump # "crashed", [Next]_vars, pump' = "crashed" PROVE FALSE
    BY DEF NoPanic
  <2>1. PICK s \in Store, k \in Cfg, v \in Version : ApplyPanics(s, k, v)
    BY DEF Next, RequestStep, Arrive, NotFound, ReplyNow, NoUpdateYet, Register, Receive, TimeOut,
           Respond, Cancel, PumpLock, ApplyStep, ApplySave, ApplyDelete, PumpUnlock, PumpExit,
           StopHttp, StopPump, vars, pumpVars
  <2>2. PICK r \in listeners[s][k] : closed[r]
    BY <2>1 DEF ApplyPanics
  <2>3. r \in Request /\ k \in keys[r]
    BY <2>2 DEF ServerInv, TypeOK, NoStaleListener
  <2>4. PICK e \in sent[r] : e[1] \in keys[r]
    BY <2>2, <2>3 DEF ServerInv, SentInv
  <2>5. e[1] = k
    BY <2>3, <2>4 DEF OneKey
  <2> QED
    BY <2>2, <2>3, <2>4, <2>5 DEF ServerInv, SentInv
<1> QED
  BY <1>1, <1>2, <1>3, ServerInvariant, PTL DEF Spec
=============================================================================
