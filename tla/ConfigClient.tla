---------------------------- MODULE ConfigClient ----------------------------
(***************************************************************************)
(* The configuration client (configure/configclient/client.go) and the     *)
(* containers registered with it (client.adv.go), against several          *)
(* configuration servers that learn of the changes at their own pace.      *)
(*                                                                         *)
(* Goroutines: processLoop, which holds c.lock from before a request is    *)
(* sent until its answer is applied, and one caller of Register for every  *)
(* configuration that is required after StartClient.  A server answers as  *)
(* ConfigServer does; of the waiting request it is told the first change.  *)
(***************************************************************************)
EXTENDS Naturals, FiniteSets

CONSTANTS
    Cfg,        \* configurations: a group and a key
    Early,      \* those required before StartClient, the others by Register later
    Server,     \* serverLists
    MaxVersion, \* versions are 1 .. MaxVersion; a server knows higher and higher ones
    Bad,        \* the values (a configuration, a version) that cannot be unmarshaled
    Faults      \* "network": requests fail; "delete": configurations disappear

ASSUME CfgAssumption == Early \subseteq Cfg /\ MaxVersion \in Nat \ {0}
ASSUME FaultAssumption == Faults \subseteq {"network", "delete"}

VARIABLES
    known,          \* what each server has of each configuration, 0 for nothing
    highest,        \* the highest version each server has had of it
    lockRequests,
    requested,      \* c.requests.Requested: the configurations required so far
    version,        \* their versions in c.requests, 0 for none
    loop,           \* where processLoop is: it holds c.lock in "wait" and "apply"
    target,         \* the servers its requests are at: one at most
    response,       \* the configurations in the answer
    loaded,         \* startupLoadCh is closed
    stopped,        \* closeCh is closed
    caller,         \* where each caller of Register is
    container       \* the version that is in each container

clientVars == <<lockRequests, requested, version, loaded, stopped>>
loopVars   == <<loop, target, response>>
vars == <<known, highest, clientVars, loopVars, caller, container>>

Version == 1 .. MaxVersion
Late == Cfg \ Early

TypeOK ==
    /\ known \in [Server -> [Cfg -> Version \cup {0}]]
    /\ highest \in [Server -> [Cfg -> Version \cup {0}]]
    /\ lockRequests \in BOOLEAN /\ loaded \in BOOLEAN /\ stopped \in BOOLEAN
    /\ requested \subseteq Cfg
    /\ version \in [Cfg -> Version \cup {0}]
    /\ loop \in {"top", "send", "wait", "apply", "sleep", "exit"}
    /\ target \subseteq Server /\ Cardinality(target) <= 1
    /\ response \subseteq Cfg \X Version
    /\ caller \in [Late -> {"idle", "add", "resume", "done", "panic"}]
    /\ container \in [Cfg -> Version \cup {0}]

Init ==
    /\ known \in [Server -> [Cfg -> {0, 1}]]
    /\ highest = known
    /\ lockRequests = TRUE          \* StartClient
    /\ requested = Early
    /\ version = [k \in Cfg |-> 0]
    /\ loop = "top" /\ target = {} /\ response = {}
    /\ loaded = FALSE /\ stopped = FALSE
    /\ caller = [k \in Late |-> "idle"]
    /\ container = [k \in Cfg |-> 0]

-----------------------------------------------------------------------------
(* The servers.                                                            *)

\* A server learns of a new version; it answers a request that waits for it.
ServerSave(s, k, v) ==
    /\ highest[s][k] < v
    /\ known' = [known EXCEPT ![s][k] = v]
    /\ highest' = [highest EXCEPT ![s][k] = v]
    /\ IF loop = "wait" /\ s \in target /\ k \in requested /\ known[s][k] # 0
         THEN loop' = "apply" /\ response' = {<<k, v>>} /\ target' = {}
         ELSE UNCHANGED loopVars
    /\ UNCHANGED <<clientVars, caller, container>>

ServerDelete(s, k) ==
    /\ "delete" \in Faults
    /\ known[s][k] # 0
    /\ known' = [known EXCEPT ![s][k] = 0]
    /\ UNCHANGED <<highest, clientVars, loopVars, caller, container>>

-----------------------------------------------------------------------------
(* processLoop.                                                            *)

\* Mutant: the loop does not look at closeCh.
LoopTopGoesOn ==
    /\ loop = "top"
    /\ loop' = "send"
    /\ UNCHANGED <<known, highest, clientVars, target, response, caller, container>>

LoopTop ==
    /\ loop = "top"
    /\ loop' = IF stopped THEN "exit" ELSE "send"
    /\ UNCHANGED <<known, highest, clientVars, target, response, caller, container>>

\* f cannot ask: the requests are being changed, or there are none.
CannotAsk ==
    /\ loop = "send"
    /\ ~lockRequests \/ requested = {}
    /\ loop' = "sleep"
    /\ UNCHANGED <<known, highest, clientVars, target, response, caller, container>>

\* sendRetrieveRequest, to any server, when the server answers at once: 404 for
\* a configuration it does not know, 200 with all that is newer than requested.
AskAndGet(s) ==
    /\ loop = "send"
    /\ lockRequests /\ requested # {}
    /\ LET new == {k \in requested : version[k] < known[s][k]} IN
          \/ /\ \E k \in requested : known[s][k] = 0
             /\ loop' = "sleep" /\ UNCHANGED response
          \/ /\ \A k \in requested : known[s][k] # 0
             /\ new # {}
             /\ loop' = "apply" /\ response' = {<<k, known[s][k]>> : k \in new}
    /\ UNCHANGED <<known, highest, clientVars, target, caller, container>>

AskAndWait(s) ==
    /\ loop = "send"
    /\ lockRequests /\ requested # {}
    /\ \A k \in requested : known[s][k] # 0 /\ known[s][k] <= version[k]
    /\ loop' = "wait" /\ target' = target \cup {s}
    /\ UNCHANGED <<known, highest, clientVars, response, caller, container>>

\* Mutant: a failed round counts as the first one.
RequestFailsReady ==
    /\ "network" \in Faults
    /\ (loop = "send" /\ lockRequests /\ requested # {}) \/ loop = "wait"
    /\ loop' = "sleep" /\ target' = {} /\ loaded' = TRUE
    /\ UNCHANGED <<known, highest, lockRequests, requested, version, stopped, response,
                   caller, container>>

\* A pending request may fail whatever lockRequests is by then.
RequestFails ==
    /\ "network" \in Faults
    /\ (loop = "send" /\ lockRequests /\ requested # {}) \/ loop = "wait"
    /\ loop' = "sleep" /\ target' = {}
    /\ UNCHANGED <<known, highest, clientVars, response, caller, container>>

\* startupLoadCh is closed, once.
markStartupConfigureLoaded == loaded' = TRUE

\* 304: nothing to apply, but the round counts as a success.
NotModified ==
    /\ loop = "wait"
    /\ loop' = "top" /\ target' = {}
    /\ markStartupConfigureLoaded
    /\ UNCHANGED <<known, highest, lockRequests, requested, version, stopped, response,
                   caller, container>>

\* The callbacks, then the versions of the next request, then the end of f.  A
\* container keeps its value when the new one cannot be unmarshaled.
Newest(S, old) == [k \in Cfg |-> IF \E v \in Version : <<k, v>> \in S
                                   THEN CHOOSE v \in Version : <<k, v>> \in S
                                   ELSE old[k]]

\* Mutant: only one callback of the answer is called.
ApplyOne ==
    /\ loop = "apply"
    /\ \E e \in response : container' = Newest({e} \ Bad, container)
    /\ version' = Newest(response, version)
    /\ loop' = "top" /\ response' = {}
    /\ markStartupConfigureLoaded
    /\ UNCHANGED <<known, highest, lockRequests, requested, stopped, target, caller>>

Apply ==
    /\ loop = "apply"
    /\ container' = Newest(response \ Bad, container)
    /\ version' = Newest(response, version)
    /\ loop' = "top" /\ response' = {}
    /\ markStartupConfigureLoaded
    /\ UNCHANGED <<known, highest, lockRequests, requested, stopped, target, caller>>

Wake ==
    /\ loop = "sleep"
    /\ loop' = "top"
    /\ UNCHANGED <<known, highest, clientVars, target, response, caller, container>>

-----------------------------------------------------------------------------
(* ClientAdv.Register, in a goroutine of its own.                          *)
Suspend(k) ==
    /\ caller[k] = "idle"
    /\ caller' = [caller EXCEPT ![k] = "add"]
    /\ lockRequests' = FALSE
    /\ UNCHANGED <<known, highest, requested, version, loaded, stopped, loopVars, container>>

\* AddConfigurationRequirement waits for c.lock, then looks at lockRequests.
AddConfigurationRequirement(k) ==
    /\ caller[k] = "add"
    /\ loop \notin {"wait", "apply"}
    /\ IF lockRequests
         THEN /\ caller' = [caller EXCEPT ![k] = "panic"]
              /\ UNCHANGED requested
         ELSE /\ caller' = [caller EXCEPT ![k] = "resume"]
              /\ requested' = requested \cup {k}
    /\ UNCHANGED <<known, highest, lockRequests, version, loaded, stopped, loopVars, container>>

\* Mutant: Register does not resume the client.
ResumeForgotten(k) ==
    /\ caller[k] = "resume"
    /\ caller' = [caller EXCEPT ![k] = "done"]
    /\ UNCHANGED <<known, highest, clientVars, loopVars, container>>

\* Deferred.  After a panic it runs too, and changes nothing: that is what the
\* panic was about.
Resume(k) ==
    /\ caller[k] = "resume"
    /\ caller' = [caller EXCEPT ![k] = "done"]
    /\ lockRequests' = TRUE
    /\ UNCHANGED <<known, highest, requested, version, loaded, stopped, loopVars, container>>

StopClient ==
    /\ ~stopped
    /\ stopped' = TRUE /\ lockRequests' = FALSE
    /\ UNCHANGED <<known, highest, requested, version, loaded, loopVars, caller, container>>

LoopStep ==
    \/ LoopTop
    \/ CannotAsk
    \/ \E s \in Server : AskAndGet(s) \/ AskAndWait(s)
    \/ NotModified
    \/ Apply
    \/ Wake

CallerStep(k) == Suspend(k) \/ AddConfigurationRequirement(k) \/ Resume(k)

Next ==
    \/ \E s \in Server, k \in Cfg :
          (\E v \in Version : ServerSave(s, k, v)) \/ ServerDelete(s, k)
    \/ LoopStep
    \/ RequestFails
    \/ \E k \in Late : CallerStep(k)
    \/ StopClient

Spec == Init /\ [][Next]_vars

\* A round of the loop comes to its end, a server's timer included; a caller of
\* Register gets c.lock, since Go's mutex is fair; requests get through.
FairSpec ==
    /\ Spec
    /\ WF_vars(LoopStep)
    /\ SF_vars(\E s \in Server : AskAndGet(s) \/ AskAndWait(s))
    /\ \A k \in Late : SF_vars(AddConfigurationRequirement(k)) /\ WF_vars(Resume(k))

-----------------------------------------------------------------------------
(***************************************************************************)
(* Properties.                                                             *)
(***************************************************************************)

\* Once WaitStartupConfigureLoaded returns, every configuration required before
\* StartClient has been retrieved.
LoadedIsComplete == loaded => \A k \in Early : version[k] # 0

\* The version that the client tells the servers, so as not to get it again, is
\* the one in the container, unless that value cannot be unmarshaled.
ContainersCurrent ==
    \A k \in Cfg : container[k] = version[k] \/ <<k, version[k]>> \in Bad

\* Servers of different progress may take the client back to an older version,
\* but not for ever: once they all have the newest one, the client ends up with
\* it, of what is registered while it runs too.
Settled == \A s \in Server, k \in Cfg : known[s][k] = MaxVersion

Converges ==
    <>[]Settled => <>[](stopped \/ \A k \in requested : version[k] = MaxVersion)

\* The loop ends after StopClient, wherever it is.
StopEndsLoop == stopped ~> loop = "exit"
=============================================================================
