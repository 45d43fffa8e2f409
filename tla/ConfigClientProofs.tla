------------------------- MODULE ConfigClientProofs -------------------------
(***************************************************************************)
(* Theorems about ConfigClient, for any configurations, servers, versions, *)
(* callers of Register and values that cannot be unmarshaled.              *)
(***************************************************************************)
EXTENDS ConfigClient, FiniteSetTheorems, TLAPS

\* What the loop is about to apply: one version of a configuration, and none that
\* was asked for is left without one.  It holds c.lock, so that nothing is asked
\* for meanwhile.
Retrieved(k) == version[k] # 0 \/ \E v \in Version : <<k, v>> \in response

RoundInv ==
    /\ Early \subseteq requested
    /\ loop # "wait" => target = {}
    /\ loop = "wait" => \A k \in requested : version[k] # 0
    /\ loop = "apply" =>
          /\ \A k \in requested : Retrieved(k)
          /\ \A e, f \in response : e[1] = f[1] => e = f

ClientInv == TypeOK /\ RoundInv /\ LoadedIsComplete /\ ContainersCurrent

-----------------------------------------------------------------------------
\* What a configuration has after an answer with the versions in S.
LEMMA NewestFact ==
    ASSUME NEW S, S \subseteq Cfg \X Version, NEW old, NEW k \in Cfg
    PROVE  \/ <<k, Newest(S, old)[k]>> \in S /\ Newest(S, old)[k] \in Version
           \/ (\A v \in Version : <<k, v>> \notin S) /\ Newest(S, old)[k] = old[k]
<1>1. CASE \E v \in Version : <<k, v>> \in S
  <2>1. Newest(S, old)[k] = CHOOSE v \in Version : <<k, v>> \in S
    BY <1>1 DEF Newest
  <2>2. (CHOOSE v \in Version : <<k, v>> \in S) \in Version
    BY <1>1
  <2>3. <<k, CHOOSE v \in Version : <<k, v>> \in S>> \in S
    BY <1>1
  <2> QED
    BY <2>1, <2>2, <2>3
<1>2. CASE \A v \in Version : <<k, v>> \notin S
  BY <1>2 DEF Newest
<1> QED
  BY <1>1, <1>2

LEMMA NewestType ==
    ASSUME NEW S, S \subseteq Cfg \X Version, NEW old \in [Cfg -> Version \cup {0}]
    PROVE  Newest(S, old) \in [Cfg -> Version \cup {0}]
<1>1. Newest(S, old) = [k \in Cfg |-> Newest(S, old)[k]]
  BY DEF Newest
<1>2. ASSUME NEW k \in Cfg PROVE Newest(S, old)[k] \in Version \cup {0}
  <2>1. \/ <<k, Newest(S, old)[k]>> \in S /\ Newest(S, old)[k] \in Version
        \/ (\A v \in Version : <<k, v>> \notin S) /\ Newest(S, old)[k] = old[k]
    BY NewestFact
  <2> QED
    BY <2>1
<1> QED
  BY <1>1, <1>2

LEMMA InitGood == Init => ClientInv
<1> SUFFICES ASSUME Init PROVE ClientInv
  OBVIOUS
<1> USE CfgAssumption
<1>1. 1 \in Version /\ 0 \notin Version
  BY DEF Version
<1>2. TypeOK
  <2>1. known \in [Server -> [Cfg -> Version \cup {0}]]
    <3>1. [Cfg -> {0, 1}] \subseteq [Cfg -> Version \cup {0}]
      BY <1>1
    <3> QED
      BY <3>1 DEF Init
  <2>2. Cardinality(target) <= 1
    BY FS_EmptySet DEF Init
  <2> QED
    BY <2>1, <2>2 DEF Init, TypeOK
<1>3. RoundInv
  BY DEF Init, RoundInv
<1>4. LoadedIsComplete /\ ContainersCurrent
  BY DEF Init, LoadedIsComplete, ContainersCurrent
<1> QED
  BY <1>2, <1>3, <1>4 DEF ClientInv

\* A server learns of something.
LEMMA SaveGood ==
    ASSUME ClientInv, NEW s \in Server, NEW k \in Cfg, NEW v \in Version, ServerSave(s, k, v)
    PROVE  ClientInv'
<1> USE DEF ClientInv
<1>1. /\ UNCHANGED <<lockRequests, requested, version, loaded, stopped, caller, container>>
      /\ known' \in [Server -> [Cfg -> Version \cup {0}]]
      /\ highest' \in [Server -> [Cfg -> Version \cup {0}]]
  BY DEF ServerSave, clientVars, TypeOK
<1>2. CASE UNCHANGED loopVars
  BY <1>1, <1>2 DEF loopVars, TypeOK, RoundInv, Retrieved, LoadedIsComplete, ContainersCurrent
<1>3. CASE ~UNCHANGED loopVars
  <2>1. /\ loop = "wait" /\ loop' = "apply" /\ response' = {<<k, v>>} /\ target' = {}
    BY <1>3 DEF ServerSave
  <2>2. TypeOK'
    BY <1>1, <2>1, FS_EmptySet DEF TypeOK
  <2>3. RoundInv'
    BY <1>1, <2>1 DEF RoundInv, Retrieved
  <2> QED
    BY <1>1, <2>2, <2>3 DEF LoadedIsComplete, ContainersCurrent
<1> QED
  BY <1>2, <1>3

\* An answer is applied.
LEMMA ApplyGood ==
    ASSUME ClientInv, Apply
    PROVE  ClientInv'
<1> USE DEF ClientInv
<1>1. /\ response \subseteq Cfg \X Version /\ response \ Bad \subseteq Cfg \X Version
      /\ version \in [Cfg -> Version \cup {0}] /\ container \in [Cfg -> Version \cup {0}]
  BY DEF TypeOK
<1>2. /\ container' = Newest(response \ Bad, container) /\ version' = Newest(response, version)
      /\ loop = "apply" /\ loop' = "top" /\ response' = {} /\ loaded' = TRUE
      /\ UNCHANGED <<known, highest, lockRequests, requested, stopped, target, caller>>
  BY DEF Apply, markStartupConfigureLoaded
<1>3. version' \in [Cfg -> Version \cup {0}] /\ container' \in [Cfg -> Version \cup {0}]
  BY <1>1, <1>2, NewestType
<1>8. ASSUME NEW k \in Cfg
      PROVE  \/ <<k, version'[k]>> \in response /\ version'[k] \in Version
             \/ (\A v \in Version : <<k, v>> \notin response) /\ version'[k] = version[k]
  <2> DEFINE S == response
             old == version
  <2>1. S \subseteq Cfg \X Version /\ old \in [Cfg -> Version \cup {0}]
    BY <1>1
  <2> HIDE DEF S, old
  <2>2. \/ <<k, Newest(S, old)[k]>> \in S /\ Newest(S, old)[k] \in Version
        \/ (\A v \in Version : <<k, v>> \notin S) /\ Newest(S, old)[k] = old[k]
    BY <2>1, NewestFact
  <2> QED
    BY <1>2, <2>2 DEF S, old
<1>4. TypeOK'
  BY <1>2, <1>3 DEF TypeOK
<1>5. RoundInv'
  BY <1>2 DEF RoundInv
<1>6. LoadedIsComplete'
  <2> SUFFICES ASSUME NEW k \in Early PROVE version'[k] # 0
    BY DEF LoadedIsComplete
  <2>1. k \in Cfg /\ Retrieved(k) /\ 0 \notin Version
    BY <1>2, CfgAssumption DEF RoundInv, Version
  <2>2. \/ <<k, version'[k]>> \in response /\ version'[k] \in Version
        \/ (\A v \in Version : <<k, v>> \notin response) /\ version'[k] = version[k]
    BY <1>8, <2>1
  <2> QED
    BY <2>1, <2>2 DEF Retrieved
<1>7. ContainersCurrent'
  <2> SUFFICES ASSUME NEW k \in Cfg
               PROVE  container'[k] = version'[k] \/ <<k, version'[k]>> \in Bad
    BY DEF ContainersCurrent
  <2>1. \/ <<k, version'[k]>> \in response /\ version'[k] \in Version
        \/ (\A v \in Version : <<k, v>> \notin response) /\ version'[k] = version[k]
    BY <1>8
  <2>2. \/ <<k, container'[k]>> \in response \ Bad /\ container'[k] \in Version
        \/ (\A v \in Version : <<k, v>> \notin response \ Bad) /\ container'[k] = container[k]
    <3> DEFINE S == response \ Bad
    <3>1. \/ <<k, Newest(S, container)[k]>> \in S /\ Newest(S, container)[k] \in Version
          \/ (\A v \in Version : <<k, v>> \notin S) /\ Newest(S, container)[k] = container[k]
      BY <1>1, NewestFact
    <3> QED
      BY <1>2, <3>1
  <2>3. CASE <<k, version'[k]>> \in response /\ version'[k] \in Version
    <3>1. CASE <<k, version'[k]>> \in Bad
      BY <3>1
    <3>2. CASE <<k, version'[k]>> \notin Bad
      <4>1. <<k, container'[k]>> \in response
        BY <2>2, <2>3, <3>2
      <4>2. <<k, container'[k]>> = <<k, version'[k]>>
        BY <1>2, <2>3, <4>1 DEF RoundInv
      <4> QED
        BY <4>2
    <3> QED
      BY <3>1, <3>2
  <2>4. CASE (\A v \in Version : <<k, v>> \notin response) /\ version'[k] = version[k]
    BY <2>2, <2>4 DEF ContainersCurrent
  <2> QED
    BY <2>1, <2>3, <2>4
<1> QED
  BY <1>4, <1>5, <1>6, <1>7

\* A request is sent; the server answers at once or waits.
LEMMA AskGood ==
    ASSUME ClientInv, NEW s \in Server, AskAndGet(s) \/ AskAndWait(s)
    PROVE  ClientInv'
<1> USE DEF ClientInv
<1>1. /\ loop = "send" /\ target = {} /\ requested \subseteq Cfg
      /\ UNCHANGED <<known, highest, lockRequests, requested, version, loaded, stopped,
                     caller, container>>
  BY DEF AskAndGet, AskAndWait, clientVars, RoundInv, TypeOK
<1>2. \A k \in Cfg : known[s][k] \in Version \cup {0} /\ version[k] \in Version \cup {0}
  BY DEF TypeOK
<1>3. Version \subseteq Nat \ {0}
  BY DEF Version
<1>4. LoadedIsComplete' /\ ContainersCurrent'
  BY <1>1 DEF LoadedIsComplete, ContainersCurrent
<1>5. CASE AskAndGet(s)
  <2> DEFINE new == {k \in requested : version[k] < known[s][k]}
  <2>1. UNCHANGED target
    BY <1>5 DEF AskAndGet
  <2>2. CASE loop' = "sleep" /\ UNCHANGED response
    BY <1>1, <1>4, <2>1, <2>2 DEF TypeOK, RoundInv
  <2>3. CASE /\ \A k \in requested : known[s][k] # 0
             /\ loop' = "apply" /\ response' = {<<k, known[s][k]>> : k \in new}
    <3>1. ASSUME NEW k \in requested PROVE known[s][k] \in Version
      BY <1>1, <1>2, <2>3
    <3>2. response' \subseteq Cfg \X Version
      BY <1>1, <2>3, <3>1
    <3>3. \A k \in requested : Retrieved(k)'
      <4> SUFFICES ASSUME NEW k \in requested, version[k] = 0
                   PROVE  \E v \in Version : <<k, v>> \in response'
        BY <1>1 DEF Retrieved
      <4>1. PICK v \in Version : v = known[s][k]
        BY <3>1
      <4>2. 0 < v
        BY <1>3
      <4>3. k \in new
        BY <4>1, <4>2
      <4> QED
        BY <2>3, <4>1, <4>3
    <3>4. \A e, f \in response' : e[1] = f[1] => e = f
      BY <2>3
    <3>5. TypeOK'
      BY <1>1, <2>1, <2>3, <3>2 DEF TypeOK
    <3>6. RoundInv'
      BY <1>1, <2>1, <2>3, <3>3, <3>4 DEF RoundInv
    <3> QED
      BY <1>4, <3>5, <3>6
  <2> QED
    BY <1>5, <2>2, <2>3 DEF AskAndGet
<1>6. CASE AskAndWait(s)
  <2>1. loop' = "wait" /\ target' = {s} /\ UNCHANGED response
    BY <1>1, <1>6 DEF AskAndWait
  <2>2. \A k \in requested : version[k] # 0
    <3> SUFFICES ASSUME NEW k \in requested PROVE version[k] # 0
      OBVIOUS
    <3>1. known[s][k] # 0 /\ known[s][k] <= version[k] /\ k \in Cfg
      BY <1>1, <1>6 DEF AskAndWait
    <3>2. PICK v \in Version : v = known[s][k]
      BY <1>2, <3>1
    <3>3. 0 < v /\ v <= version[k] /\ v \in Nat
      BY <1>3, <3>1, <3>2
    <3> QED
      BY <3>3
  <2>3. Cardinality({s}) = 1
    BY FS_Singleton
  <2>4. TypeOK'
    BY <1>1, <2>1, <2>3 DEF TypeOK
  <2>5. RoundInv'
    BY <1>1, <2>1, <2>2 DEF RoundInv
  <2> QED
    BY <1>4, <2>4, <2>5
<1> QED
  BY <1>5, <1>6

LEMMA NextGood == ClientInv /\ [Next]_vars => ClientInv'
<1> SUFFICES ASSUME ClientInv, [Next]_vars PROVE ClientInv'
  OBVIOUS
<1> USE DEF ClientInv
<1>1. ASSUME NEW s \in Server, NEW k \in Cfg, ServerDelete(s, k) PROVE ClientInv'
  <2>1. /\ UNCHANGED <<highest, lockRequests, requested, version, loaded, stopped, loop, target,
                       response, caller, container>>
        /\ known' \in [Server -> [Cfg -> Version \cup {0}]]
    BY <1>1 DEF ServerDelete, clientVars, loopVars, TypeOK
  <2> QED
    BY <2>1 DEF TypeOK, RoundInv, Retrieved, LoadedIsComplete, ContainersCurrent
<1>2. CASE LoopTop \/ CannotAsk \/ Wake
  BY <1>2 DEF LoopTop, CannotAsk, Wake, clientVars,
              TypeOK, RoundInv, LoadedIsComplete, ContainersCurrent
<1>3. CASE RequestFails
  BY <1>3, FS_EmptySet DEF RequestFails, clientVars,
                           TypeOK, RoundInv, LoadedIsComplete, ContainersCurrent
<1>4. CASE NotModified
  BY <1>4, FS_EmptySet DEF NotModified, markStartupConfigureLoaded,
                           TypeOK, RoundInv, LoadedIsComplete, ContainersCurrent
<1>5. ASSUME NEW k \in Late, CallerStep(k) PROVE ClientInv'
  <2>1. CASE Suspend(k) \/ Resume(k)
    <3>1. /\ lockRequests' \in BOOLEAN
          /\ caller' \in [Late -> {"idle", "add", "resume", "done", "panic"}]
          /\ UNCHANGED <<known, highest, requested, version, loaded, stopped, loop, target,
                         response, container>>
      BY <2>1 DEF Suspend, Resume, loopVars, TypeOK
    <3> QED
      BY <3>1 DEF TypeOK, RoundInv, Retrieved, LoadedIsComplete, ContainersCurrent
  <2>2. CASE AddConfigurationRequirement(k)
    <3>1. /\ loop \notin {"wait", "apply"} /\ k \in Cfg
          /\ requested \subseteq requested' /\ requested' \subseteq Cfg
          /\ caller' \in [Late -> {"idle", "add", "resume", "done", "panic"}]
          /\ UNCHANGED <<known, highest, lockRequests, version, loaded, stopped, loop, target,
                         response, container>>
      BY <2>2 DEF AddConfigurationRequirement, loopVars, TypeOK, Late
    <3> QED
      BY <3>1 DEF TypeOK, RoundInv, LoadedIsComplete, ContainersCurrent
  <2> QED
    BY <1>5, <2>1, <2>2 DEF CallerStep
<1>6. CASE StopClient
  BY <1>6 DEF StopClient, loopVars,
              TypeOK, RoundInv, Retrieved, LoadedIsComplete, ContainersCurrent
<1>7. CASE UNCHANGED vars
  BY <1>7 DEF vars, clientVars, loopVars,
              TypeOK, RoundInv, Retrieved, LoadedIsComplete, ContainersCurrent
<1> QED
  BY <1>1, <1>2, <1>3, <1>4, <1>5, <1>6, <1>7, SaveGood, ApplyGood, AskGood DEF Next, LoopStep

\* What was asked for cannot change while an answer is awaited and applied: the
\* inductive invariant of the client.
THEOREM ClientInvariant == Spec => []ClientInv
<1> QED
  BY InitGood, NextGood, PTL DEF Spec

\* Once WaitStartupConfigureLoaded returns, every configuration required before
\* StartClient is there, whatever Register, StopClient and the servers do.
THEOREM StartupIsComplete == Spec => []LoadedIsComplete
<1>1. ClientInv => LoadedIsComplete
  BY DEF ClientInv
<1> QED
  BY <1>1, ClientInvariant, PTL

\* A container holds the version that the client reports, or that version cannot
\* be unmarshaled: no answer is applied in part.
THEOREM ContainersFollow == Spec => []ContainersCurrent
<1>1. ClientInv => ContainersCurrent
  BY DEF ClientInv
<1> QED
  BY <1>1, ClientInvariant, PTL

-----------------------------------------------------------------------------
\* The client is suspended only while a call of Register is under way, or for good
\* by StopClient: of Registers that overlap, one may panic, but the last one resumes.
Suspended == ~lockRequests => stopped \/ \E k \in Late : caller[k] \in {"add", "resume"}

LEMMA SuspendedStep == TypeOK /\ Suspended /\ [Next]_vars => Suspended'
<1> SUFFICES ASSUME TypeOK, Suspended, [Next]_vars PROVE Suspended'
  OBVIOUS
<1>0. caller \in [Late -> {"idle", "add", "resume", "done", "panic"}]
  BY DEF TypeOK
<1>1. CASE UNCHANGED <<lockRequests, stopped, caller>>
  BY <1>1 DEF Suspended
<1>2. ASSUME NEW k \in Late, Suspend(k) PROVE Suspended'
  <2>1. caller'[k] = "add"
    BY <1>0, <1>2 DEF Suspend
  <2> QED
    BY <2>1 DEF Suspended
<1>3. ASSUME NEW k \in Late, AddConfigurationRequirement(k) PROVE Suspended'
  <2>1. CASE lockRequests
    BY <1>3, <2>1 DEF AddConfigurationRequirement, Suspended
  <2>2. CASE ~lockRequests
    <3>1. caller'[k] = "resume"
      BY <1>0, <1>3, <2>2 DEF AddConfigurationRequirement
    <3> QED
      BY <3>1 DEF Suspended
  <2> QED
    BY <2>1, <2>2
<1>4. ASSUME NEW k \in Late, Resume(k) PROVE Suspended'
  BY <1>4 DEF Resume, Suspended
<1>5. CASE StopClient
  BY <1>5 DEF StopClient, Suspended
<1>6. CASE LoopStep \/ RequestFails
  BY <1>1, <1>6 DEF LoopStep, RequestFails, LoopTop, CannotAsk, AskAndGet, AskAndWait, NotModified,
                    Apply, Wake, clientVars
<1>7. ASSUME NEW s \in Server, NEW k \in Cfg,
             (\E v \in Version : ServerSave(s, k, v)) \/ ServerDelete(s, k)
      PROVE  Suspended'
  BY <1>1, <1>7 DEF ServerSave, ServerDelete, clientVars
<1>8. CASE UNCHANGED vars
  BY <1>1, <1>8 DEF vars, clientVars
<1> QED
  BY <1>2, <1>3, <1>4, <1>5, <1>6, <1>7, <1>8 DEF Next, CallerStep

\* No interleaving of calls of Register leaves processLoop without requests.
THEOREM RegistersResume == Spec => []Suspended
<1>1. Init => Suspended
  BY DEF Init, Suspended
<1>2. ClientInv => TypeOK
  BY DEF ClientInv
<1> QED
  BY <1>1, <1>2, SuspendedStep, ClientInvariant, PTL DEF Spec
=============================================================================
