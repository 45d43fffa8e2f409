----------------------------- MODULE EtcdClient -----------------------------
(***************************************************************************)
(* EtcdClient (db/consistent/etcd/etcd.go): nodes that try to become the   *)
(* leader of a key with Acquire, other clients that write keys, and one    *)
(* caller of WatchFolder, whose folder is all the keys.                    *)
(*                                                                         *)
(* Each call of etcd is a step.  etcd itself is modelled by what the code  *)
(* relies on: one revision of the keys at a time, a key bound to a lease   *)
(* goes when the lease does, and a watch sends the changes in order.       *)
(***************************************************************************)
EXTENDS Naturals, Sequences, FiniteSets

CONSTANTS
    Node,
    LockKey,        \* the keys that nodes acquire; nobody else writes them
    DataKey,        \* the keys that other clients write
    Other,          \* the value of those
    NoValue,        \* of a key that is not there
    MaxLease,       \* bound of the model: leases that are ever granted
    WatchBufferSize,
    MaxBehind,      \* bound of the model: others write while the watch is no further behind
    Faults          \* subset of {"error", "crash", "close"}

Key   == LockKey \cup DataKey
Value == Node \cup {Other, NoValue}
Lease == 1 .. MaxLease
NoLease == 0

ASSUME LeaseAssumption == MaxLease \in Nat
ASSUME ValuesAssumption == Other \notin Node /\ NoValue \notin Node \cup {Other}
ASSUME KeysAssumption == LockKey \cap DataKey = {}
ASSUME BufferAssumption == WatchBufferSize \in Nat \ {0}

VARIABLES
    kv,         \* kv[k]: the value of a key and the lease it is bound to
    granted,    \* the leases 1 .. granted have been granted
    ended,      \* those that have expired
    call,       \* call[n]: the Acquire that n executes
    keeps,      \* keeps[n]: the leases that n's process keeps alive
    leads,      \* leads[n]: the keys that n's last Acquire of them answered n to
    secure,     \* secure[n]: those of them bound to a lease n kept when it answered
    watch,      \* where WatchFolder and its goroutine are
    stream,     \* watchChan: changes that the goroutine has not received
    ch,         \* the channel that WatchFolder returns
    mirror      \* the keys that are there, as the receiver of ch knows

lockVars  == <<granted, ended, call, keeps, leads, secure>>
watchVars == <<watch, stream, ch, mirror>>
vars      == <<kv, lockVars, watchVars>>

Entry == [val : Value, lease : Lease \cup {NoLease}]
Absent == [val |-> NoValue, lease |-> NoLease]
Call == [pc : {"idle", "grant", "txn", "read", "keep"},
         key : LockKey, lease : Lease \cup {NoLease}]
\* A WatchEvent: its EventType and the keys of Ev.
Event == [type : {"fresh", "created", "modified", "delete"}, keys : SUBSET Key]

LockTypeOK ==
    /\ kv \in [Key -> Entry]
    /\ granted \in 0 .. MaxLease /\ ended \subseteq Lease
    /\ call \in [Node -> Call]
    /\ keeps \in [Node -> SUBSET Lease]
    /\ leads \in [Node -> SUBSET LockKey] /\ secure \in [Node -> SUBSET LockKey]

WatchTypeOK ==
    /\ watch \in {"none", "get", "run", "spin"}
    /\ stream \in Seq(Event) /\ ch \in Seq(Event)
    /\ mirror \subseteq Key

TypeOK == LockTypeOK /\ WatchTypeOK

Init ==
    /\ kv = [k \in Key |-> Absent]
    /\ granted = 0 /\ ended = {}
    /\ \E k \in LockKey : call = [n \in Node |-> [pc |-> "idle", key |-> k, lease |-> NoLease]]
    /\ keeps = [n \in Node |-> {}]
    /\ leads = [n \in Node |-> {}] /\ secure = [n \in Node |-> {}]
    /\ watch = "none" /\ stream = <<>> /\ ch = <<>> /\ mirror = {}

-----------------------------------------------------------------------------
Present(k) == kv[k].val # NoValue
Folder == {k \in Key : Present(k)}
Live(l) == l \in (1 .. granted) \ ended

\* etcd tells a watch of every change.
Tell(type, keys) ==
    stream' = IF watch \in {"get", "run"} /\ keys # {}
                THEN Append(stream, [type |-> type, keys |-> keys])
                ELSE stream

Put(k, v, l) ==
    /\ kv' = [kv EXCEPT ![k] = [val |-> v, lease |-> l]]
    /\ Tell(IF Present(k) THEN "modified" ELSE "created", {k})

Remove(keys) ==
    /\ kv' = [k \in Key |-> IF k \in keys THEN Absent ELSE kv[k]]
    /\ Tell("delete", keys)

\* A lease that nobody keeps alive expires, and its keys with it.
Expire(l) ==
    /\ Live(l) /\ \A n \in Node : l \notin keeps[n]
    /\ ended' = ended \cup {l}
    /\ Remove({k \in Key : kv[k].lease = l})
    /\ UNCHANGED <<granted, call, keeps, leads, secure, watch, ch, mirror>>

-----------------------------------------------------------------------------
\* Set, SetIfNotExists and Del of other clients.
MayWrite == Len(stream) <= MaxBehind

Set(k) ==
    /\ MayWrite
    /\ Put(k, Other, NoLease)
    /\ UNCHANGED <<lockVars, watch, ch, mirror>>

SetIfNotExists(k) ==
    /\ MayWrite
    /\ ~Present(k)
    /\ Put(k, Other, NoLease)
    /\ UNCHANGED <<lockVars, watch, ch, mirror>>

Del(k) ==
    /\ MayWrite
    /\ Present(k)
    /\ Remove({k})
    /\ UNCHANGED <<lockVars, watch, ch, mirror>>

-----------------------------------------------------------------------------
\* Acquire returns: the answer is n itself, another node or an error.
Return(n) ==
    call' = [call EXCEPT ![n] = [pc |-> "idle", key |-> @.key, lease |-> NoLease]]

Led(n, k) ==
    /\ leads' = [leads EXCEPT ![n] = @ \ {k}]
    /\ secure' = [secure EXCEPT ![n] = @ \ {k}]

\* Step 0 of Acquire finds another node, and answers it.
SeesLeader(n, k) ==
    /\ call[n].pc = "idle"
    /\ kv[k].val \notin {n, NoValue}
    /\ Led(n, k)
    /\ UNCHANGED <<kv, granted, ended, call, keeps, watchVars>>

\* Step 0 finds no leader, or n itself.
SeesNone(n, k) ==
    /\ call[n].pc = "idle"
    /\ kv[k].val \in {n, NoValue}
    /\ call' = [call EXCEPT ![n] = [pc |-> "grant", key |-> k, lease |-> NoLease]]
    /\ UNCHANGED <<kv, granted, ended, keeps, leads, secure, watchVars>>

\* Step 1: a new lease, also for a node that leads already.
Grant(n) ==
    /\ call[n].pc = "grant"
    /\ granted < MaxLease
    /\ granted' = granted + 1
    /\ call' = [call EXCEPT ![n] = [pc |-> "txn", key |-> @.key, lease |-> granted + 1]]
    /\ UNCHANGED <<kv, ended, keeps, leads, secure, watchVars>>

\* Mutant of PutIfAbsent: without the comparison of the CreateRevision.
PutAnyway(n) ==
    /\ call[n].pc = "txn"
    /\ IF Live(call[n].lease)
         THEN /\ Put(call[n].key, n, call[n].lease)
              /\ call' = [call EXCEPT ![n].pc = "read"]
         ELSE Return(n) /\ UNCHANGED <<kv, stream>>
    /\ UNCHANGED <<granted, ended, keeps, leads, secure, watch, ch, mirror>>

\* Mutant of PutIfAbsent: the key is not bound to the lease.
PutIfAbsentForEver(n) ==
    /\ call[n].pc = "txn"
    /\ call' = [call EXCEPT ![n].pc = "read"]
    /\ IF Present(call[n].key)
         THEN UNCHANGED <<kv, stream>>
         ELSE Put(call[n].key, n, NoLease)
    /\ UNCHANGED <<granted, ended, keeps, leads, secure, watch, ch, mirror>>

\* Steps 2 and 3: one transaction.  To put with a lease that has expired is an error.
PutIfAbsent(n) ==
    /\ call[n].pc = "txn"
    /\ IF Present(call[n].key)
         THEN /\ call' = [call EXCEPT ![n].pc = "read"]
              /\ UNCHANGED <<kv, stream>>
         ELSE IF Live(call[n].lease)
         THEN /\ Put(call[n].key, n, call[n].lease)
              /\ call' = [call EXCEPT ![n].pc = "read"]
         ELSE Return(n) /\ UNCHANGED <<kv, stream>>
    /\ UNCHANGED <<granted, ended, keeps, leads, secure, watch, ch, mirror>>

\* The second read: the answer, unless it is n.
ReadsOther(n) ==
    /\ call[n].pc = "read"
    /\ kv[call[n].key].val # n
    /\ Led(n, call[n].key)
    /\ Return(n)
    /\ UNCHANGED <<kv, granted, ended, keeps, watchVars>>

ReadsItself(n) ==
    /\ call[n].pc = "read"
    /\ kv[call[n].key].val = n
    /\ call' = [call EXCEPT ![n].pc = "keep"]
    /\ UNCHANGED <<kv, granted, ended, keeps, leads, secure, watchVars>>

\* Step 4: the lease of this call is kept alive, if it is still there, whether
\* the key is bound to it or not.
KeepAlive(n) ==
    LET k == call[n].key IN
    /\ call[n].pc = "keep"
    /\ keeps' = [keeps EXCEPT ![n] = @ \cup {l \in {call[n].lease} : Live(l)}]
    /\ leads' = [leads EXCEPT ![n] = @ \cup {k}]
    /\ secure' = [secure EXCEPT ![n] = IF kv[k].lease \in keeps'[n] THEN @ \cup {k} ELSE @ \ {k}]
    /\ Return(n)
    /\ UNCHANGED <<kv, granted, ended, watchVars>>

\* A call of etcd fails, or its answer is lost.
Fails(n) ==
    /\ "error" \in Faults
    /\ call[n].pc # "idle"
    /\ Return(n)
    /\ UNCHANGED <<kv, granted, ended, keeps, leads, secure, watchVars>>

\* The process of n ends and starts anew.
Crash(n) ==
    /\ "crash" \in Faults
    /\ Return(n)
    /\ keeps' = [keeps EXCEPT ![n] = {}]
    /\ leads' = [leads EXCEPT ![n] = {}] /\ secure' = [secure EXCEPT ![n] = {}]
    /\ UNCHANGED <<kv, granted, ended, watchVars>>

-----------------------------------------------------------------------------
\* WatchFolder: the watch is there before the keys are read.
StartWatch ==
    /\ watch = "none"
    /\ watch' = "get"
    /\ UNCHANGED <<kv, lockVars, stream, ch, mirror>>

\* The keys of the folder are the first event.
Fresh ==
    /\ watch = "get"
    /\ watch' = "run"
    /\ ch' = Append(ch, [type |-> "fresh", keys |-> Folder])
    /\ UNCHANGED <<kv, lockVars, stream, mirror>>

FreshFails ==
    /\ "error" \in Faults
    /\ watch = "get"
    /\ watch' = "none" /\ stream' = <<>>
    /\ UNCHANGED <<kv, lockVars, ch, mirror>>

\* Mutant of Forward: an event is dropped when the channel is full.
ForwardOrDrop ==
    /\ watch = "run" /\ stream # <<>>
    /\ ch' = IF Len(ch) < WatchBufferSize THEN Append(ch, Head(stream)) ELSE ch
    /\ stream' = Tail(stream)
    /\ UNCHANGED <<kv, lockVars, watch, mirror>>

\* The goroutine passes an event on; it waits while ch is full.
Forward ==
    /\ watch = "run" /\ stream # <<>> /\ Len(ch) < WatchBufferSize
    /\ ch' = Append(ch, Head(stream))
    /\ stream' = Tail(stream)
    /\ UNCHANGED <<kv, lockVars, watch, mirror>>

\* The caller of WatchFolder keeps the set of keys.
Receive ==
    LET ev == Head(ch) IN
    /\ ch # <<>>
    /\ ch' = Tail(ch)
    /\ mirror' = CASE ev.type = "fresh"  -> ev.keys
                   [] ev.type = "delete" -> mirror \ ev.keys
                   [] OTHER              -> mirror \cup ev.keys
    /\ UNCHANGED <<kv, lockVars, watch, stream>>

\* Cancel, or etcd closes the watch: break leaves only the select, and the
\* goroutine goes round its loop for ever.
WatchEnds ==
    /\ watch = "run" /\ "close" \in Faults
    /\ watch' = "spin" /\ stream' = <<>>
    /\ UNCHANGED <<kv, lockVars, ch, mirror>>

-----------------------------------------------------------------------------
AcquireStep(n) ==
    \/ \E k \in LockKey : SeesLeader(n, k) \/ SeesNone(n, k)
    \/ Grant(n)
    \/ PutIfAbsent(n)
    \/ ReadsOther(n)
    \/ ReadsItself(n)
    \/ KeepAlive(n)
    \/ Fails(n)
    \/ Crash(n)

WatchStep == StartWatch \/ Fresh \/ FreshFails \/ Forward \/ Receive \/ WatchEnds

Next ==
    \/ \E n \in Node : AcquireStep(n)
    \/ \E k \in DataKey : Set(k) \/ SetIfNotExists(k) \/ Del(k)
    \/ \E l \in Lease : Expire(l)
    \/ WatchStep

Spec == Init /\ [][Next]_vars

\* etcd ends the leases that nobody keeps.
FairSpec == Spec /\ \A l \in Lease : WF_vars(Expire(l))

-----------------------------------------------------------------------------
\* The process of n is doing nothing for its leadership.
Down(n) == call[n].pc = "idle" /\ keeps[n] = {}

\* A node whose last Acquire was answered with itself, the key being bound to a
\* lease that it keeps alive, is the leader, and so no other node is: through
\* further Acquires of its own and of others, errors, and the restarts of others.
\* The others among `leads` are those whose key may go at any moment.
SecureLeads == \A n \in Node : \A k \in secure[n] : kv[k].val = n

\* A leader that is gone does not block the key for ever.
LeaderFreed ==
    \A n \in Node, k \in LockKey : kv[k].val = n /\ Down(n) ~> kv[k].val # n \/ ~Down(n)

\* What the receiver of a watch knows is what is there, once it has received
\* all there is, although keys change between the watch and the reading of the
\* folder, leases expire and the channel is full.
MirrorFollows == watch = "run" /\ stream = <<>> /\ ch = <<>> => mirror = Folder
=============================================================================
