-------------------------- MODULE EtcdClientProofs --------------------------
(***************************************************************************)
(* Theorems about EtcdClient, for any nodes, keys and leases.              *)
(***************************************************************************)
EXTENDS EtcdClient, TLAPS, SequenceTheorems

\* The leases that n keeps alive or is about to.
Holds(n) == keeps[n] \cup {l \in {call[n].lease} : l # NoLease}

\* Leases in use have been granted; each is held by one node, which alone puts
\* with it.
LeaseInv ==
    /\ \A n \in Node : \A l \in Holds(n) : l <= granted
    /\ \A k \in Key : kv[k].lease <= granted
    /\ \A n, m \in Node : n # m => Holds(n) \cap Holds(m) = {}
    /\ \A n \in Node, k \in LockKey : kv[k].lease \in Holds(n) => kv[k].val = n

\* A call that is about to put or to keep a lease has one.
CallInv == \A n \in Node : call[n].pc \in {"txn", "read", "keep"} => call[n].lease # NoLease

\* A secure leader's key is bound to a lease that it keeps.
SecureInv == \A n \in Node : \A k \in secure[n] : kv[k].lease \in keeps[n]

LockInv == LockTypeOK /\ LeaseInv /\ CallInv /\ SecureInv

-----------------------------------------------------------------------------
LEMMA InitGood == Init => LockInv
<1> USE LeaseAssumption, ValuesAssumption, KeysAssumption
<1> SUFFICES ASSUME Init PROVE LockInv
  OBVIOUS
<1>1. LockTypeOK
  BY DEF Init, LockTypeOK, Entry, Absent, Call, Key, Value, Lease, NoLease
<1>2. LeaseInv
  BY DEF Init, LeaseInv, Holds, Absent, NoLease
<1>3. CallInv /\ SecureInv
  BY DEF Init, CallInv, SecureInv
<1> QED
  BY <1>1, <1>2, <1>3 DEF LockInv

\* A put of another client leaves the keys to lead as they are.
LEMMA WriteGood ==
    ASSUME LockInv, NEW k \in DataKey, Set(k) \/ SetIfNotExists(k) \/ Del(k)
    PROVE  LockInv'
<1> USE LeaseAssumption, ValuesAssumption, KeysAssumption
<1> USE DEF LockInv
<1>1. /\ kv' \in [Key -> Entry]
      /\ kv'[k].lease = NoLease
      /\ \A j \in Key \ {k} : kv'[j] = kv[j]
  <2>1. CASE Set(k) \/ SetIfNotExists(k)
    <3>1. kv' = [kv EXCEPT ![k] = [val |-> Other, lease |-> NoLease]]
      BY <2>1 DEF Set, SetIfNotExists, Put
    <3>2. [val |-> Other, lease |-> NoLease] \in Entry
      BY DEF Entry, Value
    <3> QED
      BY <3>1, <3>2 DEF LockTypeOK, Key
  <2>2. CASE Del(k)
    <3>1. kv' = [j \in Key |-> IF j \in {k} THEN Absent ELSE kv[j]]
      BY <2>2 DEF Del, Remove
    <3>2. Absent \in Entry /\ Absent.lease = NoLease
      BY DEF Entry, Value, Absent
    <3> QED
      BY <3>1, <3>2 DEF LockTypeOK, Key
  <2> QED
    BY <2>1, <2>2
<1>2. UNCHANGED lockVars
  BY DEF Set, SetIfNotExists, Del
<1>3. LockTypeOK'
  BY <1>1, <1>2 DEF LockTypeOK, lockVars
<1>4. \A j \in LockKey : kv'[j] = kv[j]
  BY <1>1 DEF Key
<1>5. LeaseInv'
  <2>1. \A j \in Key : kv'[j].lease <= granted
    BY <1>1 DEF LeaseInv, LockTypeOK, NoLease
  <2>2. \A n \in Node : Holds(n)' = Holds(n)
    BY <1>2 DEF Holds, lockVars
  <2> QED
    BY <1>2, <1>4, <2>1, <2>2 DEF LeaseInv, lockVars
<1>6. (CallInv /\ SecureInv)'
  BY <1>2, <1>4 DEF CallInv, SecureInv, lockVars, LockTypeOK
<1> QED
  BY <1>3, <1>5, <1>6

\* A lease that is kept does not expire.
LEMMA ExpireGood ==
    ASSUME LockInv, NEW l \in Lease, Expire(l)
    PROVE  LockInv'
<1> USE LeaseAssumption, ValuesAssumption, KeysAssumption
<1> USE DEF LockInv
<1>1. UNCHANGED <<granted, call, keeps, leads, secure>>
  BY DEF Expire
<1>2. \A k \in Key : kv'[k] = IF kv[k].lease = l THEN Absent ELSE kv[k]
  BY DEF Expire, Remove
<1>3. LockTypeOK'
  BY <1>1 DEF Expire, Remove, LockTypeOK, Entry, Absent, Value
<1>4. LeaseInv'
  BY <1>1, <1>2 DEF LeaseInv, Holds, Absent, LockTypeOK, NoLease, Lease, Key
<1>5. CallInv'
  BY <1>1 DEF CallInv
<1>6. SecureInv'
  <2> SUFFICES ASSUME NEW n \in Node, NEW k \in secure[n] PROVE kv'[k].lease \in keeps[n]
    BY <1>1 DEF SecureInv
  <2>1. kv[k].lease \in keeps[n] /\ k \in Key
    BY DEF SecureInv, LockTypeOK, Key
  <2>2. kv[k].lease # l
    BY <2>1 DEF Expire
  <2> QED
    BY <1>2, <2>1, <2>2
<1> QED
  BY <1>3, <1>4, <1>5, <1>6

\* What an update of n's call does.
LEMMA CallFact ==
    ASSUME LockTypeOK, NEW n \in Node,
           NEW pc \in {"idle", "grant", "txn", "read", "keep"},
           NEW k \in LockKey, NEW l \in Lease \cup {NoLease},
           call' = [call EXCEPT ![n] = [pc |-> pc, key |-> k, lease |-> l]]
    PROVE  /\ call' \in [Node -> Call]
           /\ call'[n].pc = pc /\ call'[n].key = k /\ call'[n].lease = l
           /\ \A m \in Node \ {n} : call'[m] = call[m]
<1>1. [pc |-> pc, key |-> k, lease |-> l] \in Call
  BY DEF Call
<1>2. call \in [Node -> Call]
  BY DEF LockTypeOK
<1> QED
  BY <1>1, <1>2

\* The ways in which Acquire writes its call.
LEMMA CallForms ==
    ASSUME LockTypeOK, NEW n \in Node
    PROVE  /\ call[n].pc \in {"idle", "grant", "txn", "read", "keep"}
           /\ call[n].key \in LockKey /\ call[n].lease \in Lease \cup {NoLease}
           /\ \A pc \in {"idle", "grant", "txn", "read", "keep"} :
                [call[n] EXCEPT !.pc = pc] =
                    [pc |-> pc, key |-> call[n].key, lease |-> call[n].lease]
<1>1. call[n] \in Call
  BY DEF LockTypeOK
<1>2. PICK p \in {"idle", "grant", "txn", "read", "keep"}, k \in LockKey,
           l \in Lease \cup {NoLease} : call[n] = [pc |-> p, key |-> k, lease |-> l]
  BY <1>1 DEF Call
<1>3. call[n].pc = p /\ call[n].key = k /\ call[n].lease = l
  BY <1>2
<1>4. \A pc \in {"idle", "grant", "txn", "read", "keep"} :
        [call[n] EXCEPT !.pc = pc] = [pc |-> pc, key |-> k, lease |-> l]
  BY <1>2
<1> QED
  BY <1>3, <1>4

\* A step that leaves the keys alone and takes no lease.
LEMMA QuietGood ==
    ASSUME LockInv, NEW n \in Node,
           NEW pc \in {"idle", "grant", "txn", "read", "keep"},
           NEW k \in LockKey, NEW l \in {call[n].lease, NoLease},
           call' = [call EXCEPT ![n] = [pc |-> pc, key |-> k, lease |-> l]],
           pc \in {"txn", "read", "keep"} => l # NoLease,
           UNCHANGED <<kv, granted, ended>>,
           keeps' \in [Node -> SUBSET Lease],
           leads' \in [Node -> SUBSET LockKey], secure' \in [Node -> SUBSET LockKey],
           \A m \in Node : keeps'[m] \subseteq Holds(m),
           SecureInv'
    PROVE  LockInv'
<1> USE DEF LockInv
<1>1. l \in Lease \cup {NoLease}
  BY CallForms
<1>2. /\ call' \in [Node -> Call]
      /\ call'[n].pc = pc /\ call'[n].lease = l
      /\ \A m \in Node \ {n} : call'[m] = call[m]
  BY <1>1, CallFact
<1>3. LockTypeOK'
  BY <1>2 DEF LockTypeOK
<1>4. \A m \in Node : Holds(m)' \subseteq Holds(m)
  BY <1>2 DEF Holds
<1>5. LeaseInv'
  BY <1>4 DEF LeaseInv
<1>6. CallInv'
  <2> SUFFICES ASSUME NEW m \in Node, call'[m].pc \in {"txn", "read", "keep"}
               PROVE  call'[m].lease # NoLease
    BY DEF CallInv
  <2>1. CASE m = n
    BY <1>2, <2>1
  <2>2. CASE m # n
    BY <1>2, <2>2 DEF CallInv
  <2> QED
    BY <2>1, <2>2
<1> QED
  BY <1>3, <1>5, <1>6

\* A transaction puts only where nobody leads, with a lease of its own.
LEMMA PutGood ==
    ASSUME LockInv, NEW n \in Node, PutIfAbsent(n)
    PROVE  LockInv'
<1> USE LeaseAssumption, ValuesAssumption, KeysAssumption
<1> USE DEF LockInv
<1> DEFINE k == call[n].key  l == call[n].lease
<1>1. /\ UNCHANGED <<granted, ended, keeps, leads, secure>>
      /\ n \in Node /\ k \in LockKey /\ k \in Key /\ l \in Lease /\ l \in Holds(n)
  BY DEF PutIfAbsent, LockTypeOK, Call, Key, CallInv, Holds
<1>2. \/ kv' = kv
      \/ ~Present(k) /\ kv' = [kv EXCEPT ![k] = [val |-> n, lease |-> l]]
  BY DEF PutIfAbsent, Put
<1>3. \E pc \in {"read", "idle"}, j \in {l, NoLease} :
        /\ call' = [call EXCEPT ![n] = [pc |-> pc, key |-> k, lease |-> j]]
        /\ pc = "read" => j = l
  BY CallForms DEF PutIfAbsent, Return
<1>4. /\ call' \in [Node -> Call]
      /\ call'[n].lease \in {l, NoLease}
      /\ (call'[n].pc = "read" /\ call'[n].lease = l) \/ call'[n].pc = "idle"
      /\ \A m \in Node \ {n} : call'[m] = call[m]
  <2>1. PICK pc \in {"read", "idle"}, j \in {l, NoLease} :
          /\ call' = [call EXCEPT ![n] = [pc |-> pc, key |-> k, lease |-> j]]
          /\ pc = "read" => j = l
    BY <1>3
  <2>2. j \in Lease \cup {NoLease}
    BY <1>1
  <2>3. /\ call' \in [Node -> Call]
        /\ call'[n].pc = pc /\ call'[n].lease = j
        /\ \A m \in Node \ {n} : call'[m] = call[m]
    BY <1>1, <2>1, <2>2, CallFact
  <2> QED
    BY <2>1, <2>3
<1>10. kv' \in [Key -> Entry]
  BY <1>1, <1>2 DEF LockTypeOK, Entry, Value
<1>9. LockTypeOK'
  BY <1>1, <1>4, <1>10 DEF LockTypeOK
<1>5. \A m \in Node : Holds(m)' \subseteq Holds(m)
  BY <1>1, <1>4 DEF Holds
<1>6. LeaseInv'
  BY <1>1, <1>2, <1>5 DEF LeaseInv, LockTypeOK, Entry, Key
<1>7. CallInv'
  <2> SUFFICES ASSUME NEW m \in Node, call'[m].pc \in {"txn", "read", "keep"}
               PROVE  call'[m].lease # NoLease
    BY DEF CallInv
  <2>1. l # NoLease
    BY <1>1 DEF Lease, NoLease
  <2>2. CASE m = n
    BY <1>4, <2>1, <2>2
  <2>3. CASE m # n
    BY <1>4, <2>3 DEF CallInv
  <2> QED
    BY <2>2, <2>3
<1>8. SecureInv'
  <2> SUFFICES ASSUME NEW m \in Node, NEW j \in secure[m] PROVE kv'[j].lease \in keeps[m]
    BY <1>1 DEF SecureInv
  <2>1. kv[j].lease \in keeps[m] /\ j \in LockKey
    BY DEF SecureInv, LockTypeOK
  <2>2. kv[j].val = m
    BY <2>1 DEF LeaseInv, Holds
  <2>3. Present(j)
    BY <2>2, ValuesAssumption DEF Present
  <2>4. kv'[j] = kv[j]
    BY <1>1, <1>2, <2>1, <2>3 DEF LockTypeOK, Key
  <2> QED
    BY <2>1, <2>4
<1> QED
  BY <1>9, <1>6, <1>7, <1>8

\* The other steps of Acquire leave the keys as they are.
LEMMA AcquireGood ==
    ASSUME LockInv, NEW n \in Node, AcquireStep(n), ~PutIfAbsent(n)
    PROVE  LockInv'
<1> USE LeaseAssumption, ValuesAssumption, KeysAssumption
<1> USE DEF LockInv
<1>1. CASE \E k \in LockKey : SeesLeader(n, k)
  BY <1>1 DEF SeesLeader, Led, LockTypeOK, LeaseInv, CallInv, SecureInv, Holds
<1>2. CASE \E k \in LockKey : SeesNone(n, k)
  <2>1. PICK k \in LockKey :
          call' = [call EXCEPT ![n] = [pc |-> "grant", key |-> k, lease |-> NoLease]]
    BY <1>2 DEF SeesNone
  <2>2. UNCHANGED <<kv, granted, ended, keeps, leads, secure>>
    BY <1>2 DEF SeesNone
  <2>3. SecureInv' /\ \A m \in Node : keeps'[m] \subseteq Holds(m)
    BY <2>2 DEF SecureInv, Holds
  <2> QED
    BY <2>1, <2>2, <2>3, QuietGood DEF LockTypeOK
<1>3. CASE Grant(n)
  <2> DEFINE new == granted + 1
  <2>1. /\ granted' = new /\ new \in Lease /\ granted \in Nat
        /\ call' = [call EXCEPT ![n] = [pc |-> "txn", key |-> call[n].key, lease |-> new]]
        /\ call[n].key \in LockKey
        /\ UNCHANGED <<kv, ended, keeps, leads, secure>>
    <3>1. new \in Lease /\ granted \in Nat
      BY <1>3 DEF Grant, LockTypeOK, Lease
    <3> QED
      BY <1>3, <3>1, CallForms DEF Grant
  <2>11. /\ call' \in [Node -> Call]
         /\ call'[n].lease = new
         /\ \A m \in Node \ {n} : call'[m] = call[m]
    BY <2>1, CallFact
  <2>2. LockTypeOK'
    BY <2>1, <2>11 DEF LockTypeOK, Lease
  <2>3. \A m \in Node : Holds(m)' \subseteq Holds(m) \cup (IF m = n THEN {new} ELSE {})
    BY <2>1, <2>11 DEF Holds
  <2>4. \A m \in Node : new \notin Holds(m)
    BY <2>1 DEF LeaseInv
  <2>5. \A k \in Key : kv[k].lease # new /\ kv[k].lease <= new
    BY <2>1 DEF LeaseInv, LockTypeOK, Entry, Lease, NoLease
  <2>6. \A m \in Node : \A l \in Holds(m)' : l <= new
    <3> SUFFICES ASSUME NEW m \in Node, NEW l \in Holds(m)' PROVE l <= new
      OBVIOUS
    <3>1. l = new \/ (l \in Holds(m) /\ l \in Nat)
      BY <2>3 DEF Holds, LockTypeOK, Call, Lease, NoLease
    <3> QED
      BY <2>1, <3>1 DEF LeaseInv
  <2>7. LeaseInv'
    BY <2>1, <2>3, <2>4, <2>5, <2>6 DEF LeaseInv, Key
  <2>8. CallInv'
    <3> SUFFICES ASSUME NEW m \in Node, call'[m].pc \in {"txn", "read", "keep"}
                 PROVE  call'[m].lease # NoLease
      BY DEF CallInv
    <3>1. new # NoLease
      BY <2>1 DEF NoLease
    <3>2. CASE m = n
      BY <2>11, <3>1, <3>2
    <3>3. CASE m # n
      BY <2>11, <3>3 DEF CallInv
    <3> QED
      BY <3>2, <3>3
  <2>9. SecureInv'
    BY <2>1 DEF SecureInv
  <2> QED
    BY <2>2, <2>7, <2>8, <2>9
<1>4. CASE ReadsOther(n)
  <2>1. /\ call' = [call EXCEPT ![n] = [pc |-> "idle", key |-> call[n].key, lease |-> NoLease]]
        /\ call[n].key \in LockKey
        /\ UNCHANGED <<kv, granted, ended, keeps>>
    BY <1>4, CallForms DEF ReadsOther, Return
  <2>2. /\ leads' \in [Node -> SUBSET LockKey] /\ secure' \in [Node -> SUBSET LockKey]
        /\ SecureInv'
    BY <1>4, <2>1 DEF ReadsOther, Led, LockTypeOK, SecureInv
  <2>3. \A m \in Node : keeps'[m] \subseteq Holds(m)
    BY <2>1 DEF Holds
  <2> QED
    BY <2>1, <2>2, <2>3, QuietGood DEF LockTypeOK
<1>5. CASE ReadsItself(n)
  <2>1. /\ call' = [call EXCEPT ![n] = [pc |-> "keep", key |-> call[n].key,
                                         lease |-> call[n].lease]]
        /\ call[n].key \in LockKey /\ call[n].lease # NoLease
        /\ UNCHANGED <<kv, granted, ended, keeps, leads, secure>>
    BY <1>5, CallForms DEF ReadsItself, CallInv
  <2>2. SecureInv' /\ \A m \in Node : keeps'[m] \subseteq Holds(m)
    BY <2>1 DEF SecureInv, Holds
  <2> QED
    BY <2>1, <2>2, QuietGood DEF LockTypeOK
<1>6. CASE KeepAlive(n)
  <2> DEFINE l == call[n].lease  k == call[n].key
  <2>1. /\ keeps' = [keeps EXCEPT ![n] = @ \cup {j \in {l} : Live(j)}]
        /\ leads' = [leads EXCEPT ![n] = @ \cup {k}]
        /\ secure' = [secure EXCEPT ![n] = IF kv[k].lease \in keeps'[n] THEN @ \cup {k} ELSE @ \ {k}]
        /\ call' = [call EXCEPT ![n] = [pc |-> "idle", key |-> k, lease |-> NoLease]]
        /\ UNCHANGED <<kv, granted, ended>>
        /\ l \in Lease /\ l # NoLease /\ k \in LockKey
    BY <1>6, CallForms DEF KeepAlive, Return, CallInv
  <2>2. /\ keeps' \in [Node -> SUBSET Lease]
        /\ leads' \in [Node -> SUBSET LockKey] /\ secure' \in [Node -> SUBSET LockKey]
    BY <2>1 DEF LockTypeOK
  <2>3. \A m \in Node : keeps'[m] \subseteq Holds(m)
    BY <2>1 DEF Holds, LockTypeOK
  <2>4. SecureInv'
    BY <2>1 DEF SecureInv, LockTypeOK
  <2> QED
    BY <2>1, <2>2, <2>3, <2>4, QuietGood
<1>7. CASE Fails(n)
  <2>1. /\ call' = [call EXCEPT ![n] = [pc |-> "idle", key |-> call[n].key, lease |-> NoLease]]
        /\ call[n].key \in LockKey
        /\ UNCHANGED <<kv, granted, ended, keeps, leads, secure>>
    BY <1>7, CallForms DEF Fails, Return
  <2>2. SecureInv' /\ \A m \in Node : keeps'[m] \subseteq Holds(m)
    BY <2>1 DEF SecureInv, Holds
  <2> QED
    BY <2>1, <2>2, QuietGood DEF LockTypeOK
<1>8. CASE Crash(n)
  <2>1. /\ call' = [call EXCEPT ![n] = [pc |-> "idle", key |-> call[n].key, lease |-> NoLease]]
        /\ call[n].key \in LockKey
        /\ UNCHANGED <<kv, granted, ended>>
    BY <1>8, CallForms DEF Crash, Return
  <2>2. /\ keeps' \in [Node -> SUBSET Lease]
        /\ leads' \in [Node -> SUBSET LockKey] /\ secure' \in [Node -> SUBSET LockKey]
        /\ SecureInv'
        /\ \A m \in Node : keeps'[m] \subseteq Holds(m)
    BY <1>8, <2>1 DEF Crash, SecureInv, Holds, LockTypeOK
  <2> QED
    BY <2>1, <2>2, QuietGood
<1> QED
  BY <1>1, <1>2, <1>3, <1>4, <1>5, <1>6, <1>7, <1>8 DEF AcquireStep

LEMMA NextGood == LockInv /\ [Next]_vars => LockInv'
<1> SUFFICES ASSUME LockInv, [Next]_vars PROVE LockInv'
  OBVIOUS
<1>1. ASSUME NEW n \in Node, AcquireStep(n) PROVE LockInv'
  BY <1>1, PutGood, AcquireGood
<1>2. ASSUME NEW k \in DataKey, Set(k) \/ SetIfNotExists(k) \/ Del(k) PROVE LockInv'
  BY <1>2, WriteGood
<1>3. ASSUME NEW l \in Lease, Expire(l) PROVE LockInv'
  BY <1>3, ExpireGood
<1>4. ASSUME UNCHANGED <<kv, lockVars>> PROVE LockInv'
  BY <1>4 DEF lockVars, LockInv, LockTypeOK, LeaseInv, CallInv, SecureInv, Holds
<1>5. CASE WatchStep
  BY <1>5, <1>4 DEF WatchStep, StartWatch, Fresh, FreshFails, Forward, Receive, WatchEnds
<1>6. CASE UNCHANGED vars
  BY <1>6, <1>4 DEF vars
<1> QED
  BY <1>1, <1>2, <1>3, <1>5, <1>6 DEF Next

\* Acquire keeps the leases of different nodes apart: the inductive invariant.
THEOREM LockInvariant == Spec => []LockInv
<1> QED
  BY InitGood, NextGood, PTL DEF Spec

\* A node that keeps the lease of its key alive leads it, through further
\* Acquires, errors and restarts of others: SecureLeads for any nodes and leases.
THEOREM SecureNodesLead == Spec => []SecureLeads
<1>1. LockInv => SecureLeads
  BY DEF LockInv, LockTypeOK, LeaseInv, SecureInv, SecureLeads, Holds
<1> QED
  BY <1>1, LockInvariant, PTL

-----------------------------------------------------------------------------
\* What the events on their way say of a key: the latest that mentions it.
Mentions(ev, k) == ev.type = "fresh" \/ k \in ev.keys
Puts(ev, k) == ev.type # "delete" /\ k \in ev.keys

Latest(s, i, k) ==
    /\ i \in DOMAIN s /\ Mentions(s[i], k)
    /\ \A j \in DOMAIN s : i < j => ~Mentions(s[j], k)

\* It says what is so, the keys in P being there.
Agrees(s, P) ==
    \A k \in Key, i \in DOMAIN s : Latest(s, i, k) => (Puts(s[i], k) <=> k \in P)

\* Of the other keys the receiver, who has those in M, knows already.
Knows(s, M, P) ==
    \A k \in Key : (\A i \in DOMAIN s : ~Mentions(s[i], k)) => (k \in M <=> k \in P)

\* All that the receiver has still to receive.
Pending == ch \o stream

MirrorInv ==
    /\ WatchTypeOK
    /\ watch = "none" => stream = <<>> /\ ch = <<>>
    /\ watch = "get" => ch = <<>> /\ Agrees(stream, Folder)
    /\ watch = "run" => Agrees(Pending, Folder) /\ Knows(Pending, mirror, Folder)

\* The event that tells of a change from the keys P to the keys Q.
Tells(ev, P, Q) ==
    /\ ev.type # "fresh"
    /\ \A k \in Key : IF k \in ev.keys THEN k \in Q <=> ev.type # "delete" ELSE k \in Q <=> k \in P

LEMMA AppendAgrees ==
    ASSUME NEW s \in Seq(Event), NEW ev \in Event, NEW P, NEW Q, NEW M,
           Tells(ev, P, Q), Agrees(s, P)
    PROVE  Agrees(Append(s, ev), Q) /\ (Knows(s, M, P) => Knows(Append(s, ev), M, Q))
<1> DEFINE t == Append(s, ev)  n == Len(s) + 1
<1>1. /\ DOMAIN s = 1 .. Len(s) /\ Len(s) \in Nat /\ DOMAIN t = 1 .. n
      /\ t[n] = ev /\ \A i \in 1 .. Len(s) : t[i] = s[i]
  BY AppendProperties
<1> HIDE DEF t
<1>2. ASSUME NEW k \in Key, NEW i \in DOMAIN t, Latest(t, i, k)
      PROVE  Puts(t[i], k) <=> k \in Q
  <2>1. CASE k \in ev.keys
    <3>1. i = n
      BY <1>1, <1>2, <2>1 DEF Latest, Mentions
    <3> QED
      BY <1>1, <2>1, <3>1 DEF Puts, Tells
  <2>2. CASE k \notin ev.keys
    <3>1. i \in DOMAIN s
      BY <1>1, <1>2, <2>2 DEF Latest, Mentions, Tells
    <3>2. Latest(s, i, k)
      BY <1>1, <1>2, <3>1 DEF Latest
    <3>3. Puts(s[i], k) <=> k \in P
      BY <3>1, <3>2 DEF Agrees
    <3> QED
      BY <1>1, <2>2, <3>1, <3>3 DEF Tells
  <2> QED
    BY <2>1, <2>2
<1>3. ASSUME Knows(s, M, P), NEW k \in Key, \A i \in DOMAIN t : ~Mentions(t[i], k)
      PROVE  k \in M <=> k \in Q
  <2>1. k \notin ev.keys
    BY <1>1, <1>3 DEF Mentions
  <2>2. \A i \in DOMAIN s : ~Mentions(s[i], k)
    BY <1>1, <1>3
  <2> QED
    BY <1>3, <2>1, <2>2 DEF Knows, Tells
<1> QED
  BY <1>2, <1>3 DEF Agrees, Knows, t

\* The first event is received.
LEMMA TailAgrees ==
    ASSUME NEW s \in Seq(Event), s # <<>>, NEW P, NEW M, NEW N,
           Agrees(s, P), Knows(s, M, P),
           \A k \in Key : k \in N <=> IF Mentions(s[1], k) THEN Puts(s[1], k) ELSE k \in M
    PROVE  Agrees(Tail(s), P) /\ Knows(Tail(s), N, P)
<1> DEFINE t == Tail(s)  n == Len(s) - 1
<1>1. /\ DOMAIN s = 1 .. Len(s) /\ Len(s) \in Nat /\ Len(s) >= 1 /\ DOMAIN t = 1 .. n /\ n \in Nat
      /\ \A i \in 1 .. n : t[i] = s[i + 1]
  BY HeadTailProperties, EmptySeq
<1> HIDE DEF t
<1>2. ASSUME NEW k \in Key, NEW i \in DOMAIN t, Latest(t, i, k)
      PROVE  Puts(t[i], k) <=> k \in P
  <2>1. i + 1 \in DOMAIN s /\ t[i] = s[i + 1]
    BY <1>1
  <2>2. ASSUME NEW j \in DOMAIN s, i + 1 < j PROVE ~Mentions(s[j], k)
    <3>1. j - 1 \in DOMAIN t /\ i < j - 1 /\ t[j - 1] = s[j]
      BY <1>1, <2>2
    <3> QED
      BY <1>2, <3>1 DEF Latest
  <2>3. Latest(s, i + 1, k)
    BY <1>2, <2>1, <2>2 DEF Latest
  <2> QED
    BY <2>1, <2>3 DEF Agrees
<1>3. ASSUME NEW k \in Key, \A i \in DOMAIN t : ~Mentions(t[i], k)
      PROVE  k \in N <=> k \in P
  <2>1. \A j \in DOMAIN s : j # 1 => ~Mentions(s[j], k)
    <3> SUFFICES ASSUME NEW j \in DOMAIN s, j # 1 PROVE ~Mentions(s[j], k)
      OBVIOUS
    <3>1. j - 1 \in DOMAIN t /\ t[j - 1] = s[j]
      BY <1>1
    <3> QED
      BY <1>3, <3>1
  <2>2. CASE Mentions(s[1], k)
    <3>1. Latest(s, 1, k) /\ 1 \in DOMAIN s
      BY <1>1, <2>1, <2>2 DEF Latest
    <3> QED
      BY <2>2, <3>1 DEF Agrees
  <2>3. CASE ~Mentions(s[1], k)
    BY <2>1, <2>3 DEF Knows
  <2> QED
    BY <2>2, <2>3
<1> QED
  BY <1>2, <1>3 DEF Agrees, Knows, t

\* The reading of the folder, before the changes told of since the watch began.
LEMMA FreshAgrees ==
    ASSUME NEW s \in Seq(Event), NEW ev \in Event, ev.type = "fresh", NEW P, NEW M,
           ev.keys = P, Agrees(s, P)
    PROVE  Agrees(<<ev>> \o s, P) /\ Knows(<<ev>> \o s, M, P)
<1> DEFINE t == <<ev>> \o s  n == Len(s) + 1
<1>1. /\ DOMAIN s = 1 .. Len(s) /\ Len(s) \in Nat /\ DOMAIN t = 1 .. n
      /\ t[1] = ev /\ \A i \in 2 .. n : t[i] = s[i - 1]
  <2>1. <<ev>> \in Seq(Event) /\ Len(<<ev>>) = 1 /\ <<ev>>[1] = ev
    OBVIOUS
  <2>2. /\ t \in Seq(Event) /\ Len(t) = 1 + Len(s)
        /\ \A i \in 1 .. 1 + Len(s) : t[i] = IF i <= 1 THEN <<ev>>[i] ELSE s[i - 1]
    BY <2>1, ConcatProperties
  <2> QED
    BY <2>1, <2>2
<1> HIDE DEF t
<1>2. ASSUME NEW k \in Key, NEW i \in DOMAIN t, Latest(t, i, k)
      PROVE  Puts(t[i], k) <=> k \in P
  <2>1. CASE i = 1
    BY <1>1, <2>1 DEF Puts
  <2>2. CASE i # 1
    <3>1. i - 1 \in DOMAIN s /\ t[i] = s[i - 1]
      BY <1>1, <2>2
    <3>2. ASSUME NEW j \in DOMAIN s, i - 1 < j PROVE ~Mentions(s[j], k)
      <4>1. j + 1 \in DOMAIN t /\ i < j + 1 /\ t[j + 1] = s[j]
        BY <1>1, <3>2
      <4> QED
        BY <1>2, <4>1 DEF Latest
    <3>3. Latest(s, i - 1, k)
      BY <1>2, <3>1, <3>2 DEF Latest
    <3> QED
      BY <3>1, <3>3 DEF Agrees
  <2> QED
    BY <2>1, <2>2
<1>3. \A k \in Key : Mentions(t[1], k) /\ 1 \in DOMAIN t
  BY <1>1 DEF Mentions
<1> QED
  BY <1>2, <1>3 DEF Agrees, Knows, t

\* What passes from one sequence to the other, or is received, stays in order.
LEMMA Joins ==
    ASSUME NEW c \in Seq(Event), NEW s \in Seq(Event)
    PROVE  /\ c \o s \in Seq(Event)
           /\ \A ev \in Event : c \o Append(s, ev) = Append(c \o s, ev)
           /\ s # <<>> => /\ Append(c, Head(s)) \o Tail(s) = c \o s
                          /\ Append(c, Head(s)) \in Seq(Event) /\ Tail(s) \in Seq(Event)
           /\ c # <<>> => /\ Tail(c) \in Seq(Event) /\ Head(c) \in Event
                          /\ Tail(c \o s) = Tail(c) \o s
                          /\ c \o s # <<>> /\ (c \o s)[1] = Head(c)
<1>1. c \o s \in Seq(Event)
  BY ConcatProperties
<1>2. ASSUME NEW ev \in Event PROVE c \o Append(s, ev) = Append(c \o s, ev)
  <2>1. <<ev>> \in Seq(Event)
    OBVIOUS
  <2>2. Append(s, ev) = s \o <<ev>> /\ Append(c \o s, ev) = (c \o s) \o <<ev>>
    BY <1>1, AppendIsConcat
  <2> QED
    BY <2>1, <2>2, ConcatAssociative
<1>3. ASSUME s # <<>>
      PROVE  /\ Append(c, Head(s)) \o Tail(s) = c \o s
             /\ Append(c, Head(s)) \in Seq(Event) /\ Tail(s) \in Seq(Event)
  <2> DEFINE a == Append(c, Head(s))  t == Tail(s)
  <2>1. /\ Head(s) \in Event /\ Head(s) = s[1] /\ t \in Seq(Event) /\ Len(t) = Len(s) - 1
        /\ \A i \in 1 .. Len(t) : t[i] = s[i + 1]
    BY <1>3, HeadTailProperties
  <2>2. /\ a \in Seq(Event) /\ Len(a) = Len(c) + 1
        /\ \A i \in 1 .. Len(c) : a[i] = c[i]
        /\ a[Len(c) + 1] = s[1]
    BY <2>1, AppendProperties
  <2>3. Len(s) \in Nat \ {0} /\ Len(c) \in Nat
    BY <1>3, EmptySeq, LenProperties
  <2>4. /\ a \o t \in Seq(Event) /\ Len(a \o t) = Len(c) + Len(s)
        /\ \A i \in 1 .. Len(c) + Len(s) :
             (a \o t)[i] = IF i <= Len(c) + 1 THEN a[i] ELSE t[i - (Len(c) + 1)]
    <3> HIDE DEF a, t
    <3>1. /\ a \o t \in Seq(Event) /\ Len(a \o t) = Len(a) + Len(t)
          /\ \A i \in 1 .. Len(a) + Len(t) :
               (a \o t)[i] = IF i <= Len(a) THEN a[i] ELSE t[i - Len(a)]
      BY <2>1, <2>2, ConcatProperties
    <3>2. Len(a) = Len(c) + 1 /\ Len(a) + Len(t) = Len(c) + Len(s)
      BY <2>1, <2>2, <2>3
    <3> QED
      BY <3>1, <3>2
  <2>5. /\ Len(c \o s) = Len(c) + Len(s)
        /\ \A i \in 1 .. Len(c) + Len(s) :
             (c \o s)[i] = IF i <= Len(c) THEN c[i] ELSE s[i - Len(c)]
    BY ConcatProperties
  <2>6. \A i \in 1 .. Len(c) + Len(s) : (a \o t)[i] = (c \o s)[i]
    <3> HIDE DEF a, t
    <3> SUFFICES ASSUME NEW i \in 1 .. Len(c) + Len(s) PROVE (a \o t)[i] = (c \o s)[i]
      OBVIOUS
    <3>1. CASE i <= Len(c)
      BY <2>2, <2>3, <2>4, <2>5, <3>1
    <3>2. CASE i = Len(c) + 1
      BY <2>2, <2>3, <2>4, <2>5, <3>2
    <3>3. CASE i > Len(c) + 1
      <4>1. i - (Len(c) + 1) \in 1 .. Len(t) /\ i - (Len(c) + 1) + 1 = i - Len(c)
        BY <2>1, <2>3, <3>3
      <4>2. t[i - (Len(c) + 1)] = s[i - (Len(c) + 1) + 1]
        BY <2>1, <4>1
      <4> QED
        BY <2>3, <2>4, <2>5, <3>3, <4>1, <4>2
    <3>4. i <= Len(c) \/ i = Len(c) + 1 \/ i > Len(c) + 1
      BY <2>3
    <3> QED
      BY <3>1, <3>2, <3>3, <3>4
  <2>7. a \o t = c \o s
    <3> HIDE DEF a, t
    <3> QED
      BY <1>1, <2>4, <2>5, <2>6, SeqEqual
  <2> QED
    BY <2>1, <2>2, <2>7
<1>4. ASSUME c # <<>>
      PROVE  /\ Tail(c) \in Seq(Event) /\ Head(c) \in Event
             /\ Tail(c \o s) = Tail(c) \o s
             /\ c \o s # <<>> /\ (c \o s)[1] = Head(c)
  <2> DEFINE a == c \o s  t == Tail(c)
  <2>1. /\ Head(c) \in Event /\ Head(c) = c[1] /\ t \in Seq(Event) /\ Len(t) = Len(c) - 1
        /\ \A i \in 1 .. Len(t) : t[i] = c[i + 1]
    BY <1>4, HeadTailProperties
  <2>2. Len(c) \in Nat \ {0} /\ Len(s) \in Nat
    BY <1>4, EmptySeq, LenProperties
  <2>3. /\ Len(a) = Len(c) + Len(s)
        /\ \A i \in 1 .. Len(c) + Len(s) : a[i] = IF i <= Len(c) THEN c[i] ELSE s[i - Len(c)]
    BY ConcatProperties
  <2>4. a # <<>> /\ a[1] = Head(c)
    BY <1>4, <2>1, <2>2, <2>3, ConcatEqualIffEmpty
  <2>5. /\ Tail(a) \in Seq(Event) /\ Len(Tail(a)) = Len(a) - 1
        /\ \A i \in 1 .. Len(Tail(a)) : Tail(a)[i] = a[i + 1]
    <3> HIDE DEF a
    <3> QED
      BY <1>1, <2>4, HeadTailProperties DEF a
  <2>6. /\ t \o s \in Seq(Event) /\ Len(t \o s) = Len(t) + Len(s)
        /\ \A i \in 1 .. Len(t) + Len(s) : (t \o s)[i] = IF i <= Len(t) THEN t[i] ELSE s[i - Len(t)]
    <3> HIDE DEF t
    <3> QED
      BY <2>1, ConcatProperties
  <2>7. \A i \in 1 .. Len(Tail(a)) : Tail(a)[i] = (t \o s)[i]
    <3> HIDE DEF a, t
    <3> SUFFICES ASSUME NEW i \in 1 .. Len(Tail(a)) PROVE Tail(a)[i] = (t \o s)[i]
      OBVIOUS
    <3>1. /\ i \in 1 .. Len(t) + Len(s) /\ i + 1 \in 1 .. Len(c) + Len(s)
          /\ Tail(a)[i] = a[i + 1]
      BY <2>1, <2>2, <2>3, <2>5
    <3>2. CASE i <= Len(t)
      BY <2>1, <2>2, <2>3, <2>6, <3>1, <3>2
    <3>3. CASE i > Len(t)
      <4>1. i - Len(t) = i + 1 - Len(c) /\ ~(i + 1 <= Len(c))
        BY <2>1, <2>2, <3>1, <3>3
      <4> QED
        BY <2>1, <2>2, <2>3, <2>6, <3>1, <3>3, <4>1
    <3> QED
      BY <2>1, <2>2, <3>1, <3>2, <3>3
  <2>8. Tail(a) = t \o s
    <3> HIDE DEF a, t
    <3> QED
      BY <2>1, <2>2, <2>3, <2>5, <2>6, <2>7, SeqEqual
  <2> QED
    BY <2>1, <2>4, <2>8
<1> QED
  BY <1>1, <1>2, <1>3, <1>4

\* A step of a client of etcd, or of etcd itself: a watch is told of every change.
KeysMove ==
    /\ UNCHANGED <<watch, ch, mirror>>
    /\ \/ stream' = stream /\ (Folder' = Folder \/ watch \notin {"get", "run"})
       \/ /\ watch \in {"get", "run"}
          /\ \E ev \in Event : Tells(ev, Folder, Folder') /\ stream' = Append(stream, ev)

LEMMA PutMoves ==
    ASSUME kv \in [Key -> Entry], NEW k \in Key, NEW v \in Value \ {NoValue}, NEW l,
           Put(k, v, l), UNCHANGED <<watch, ch, mirror>>
    PROVE  KeysMove
<1> DEFINE entry == [val |-> v, lease |-> l]
           type == IF Present(k) THEN "modified" ELSE "created"
           ev == [type |-> type, keys |-> {k}]
<1>1. kv' = [kv EXCEPT ![k] = entry] /\ entry.val # NoValue
  BY DEF Put
<1>2. \A j \in Key : j \in Folder' <=> j = k \/ j \in Folder
  <2> HIDE DEF entry
  <2> QED
    BY <1>1 DEF Folder, Present
<1>3. ev \in Event /\ Tells(ev, Folder, Folder')
  <2>1. type \in {"created", "modified"}
    OBVIOUS
  <2> HIDE DEF type
  <2>2. ev \in Event
    BY <2>1 DEF Event
  <2>3. ev.type = type /\ ev.keys = {k} /\ type # "fresh" /\ type # "delete"
    BY <2>1
  <2> QED
    BY <1>2, <2>2, <2>3 DEF Tells
<1>4. stream' = IF watch \in {"get", "run"} THEN Append(stream, ev) ELSE stream
  BY DEF Put, Tell
<1> HIDE DEF ev
<1> QED
  BY <1>3, <1>4 DEF KeysMove

LEMMA RemoveMoves ==
    ASSUME NEW keys \in SUBSET Key, Remove(keys), UNCHANGED <<watch, ch, mirror>>
    PROVE  KeysMove
<1> DEFINE ev == [type |-> "delete", keys |-> keys]
<1>1. \A j \in Key : j \in Folder' <=> j \in Folder /\ j \notin keys
  BY DEF Remove, Folder, Present, Absent
<1>2. ev \in Event /\ Tells(ev, Folder, Folder')
  <2>1. ev \in Event /\ ev.type = "delete" /\ ev.keys = keys
    BY DEF Event
  <2> QED
    BY <1>1, <2>1 DEF Tells
<1>3. stream' = IF watch \in {"get", "run"} /\ keys # {} THEN Append(stream, ev) ELSE stream
  BY DEF Remove, Tell
<1>4. keys = {} => Folder' = Folder
  BY <1>1 DEF Folder
<1> HIDE DEF ev
<1> QED
  BY <1>2, <1>3, <1>4 DEF KeysMove

LEMMA StillMoves ==
    ASSUME UNCHANGED <<kv, stream, watch, ch, mirror>>
    PROVE  KeysMove
BY DEF KeysMove, Folder, Present

LEMMA StepMoves ==
    ASSUME LockInv,
           \/ \E n \in Node : AcquireStep(n)
           \/ \E k \in DataKey : Set(k) \/ SetIfNotExists(k) \/ Del(k)
           \/ \E l \in Lease : Expire(l)
    PROVE  KeysMove
<1> USE ValuesAssumption
<1>1. kv \in [Key -> Entry]
  BY DEF LockInv, LockTypeOK
<1>2. ASSUME NEW n \in Node, AcquireStep(n) PROVE KeysMove
  <2>1. CASE PutIfAbsent(n)
    <3>1. CASE UNCHANGED <<kv, stream>>
      BY <2>1, <3>1, StillMoves DEF PutIfAbsent
    <3>2. CASE ~UNCHANGED <<kv, stream>>
      <4>1. Put(call[n].key, n, call[n].lease) /\ UNCHANGED <<watch, ch, mirror>>
        BY <2>1, <3>2 DEF PutIfAbsent
      <4>2. call[n].key \in Key /\ n \in Value \ {NoValue}
        BY CallForms DEF LockInv, Key, Value
      <4> QED
        BY <1>1, <4>1, <4>2, PutMoves
    <3> QED
      BY <3>1, <3>2
  <2>2. CASE ~PutIfAbsent(n)
    <3>1. UNCHANGED <<kv, stream, watch, ch, mirror>>
      BY <1>2, <2>2
      DEF AcquireStep, SeesLeader, SeesNone, Grant, ReadsOther, ReadsItself, KeepAlive,
          Fails, Crash, watchVars
    <3> QED
      BY <3>1, StillMoves
  <2> QED
    BY <2>1, <2>2
<1>3. ASSUME NEW k \in DataKey, Set(k) \/ SetIfNotExists(k) \/ Del(k) PROVE KeysMove
  <2>1. UNCHANGED <<watch, ch, mirror>> /\ k \in Key /\ Other \in Value \ {NoValue}
    BY <1>3 DEF Set, SetIfNotExists, Del, Key, Value
  <2>2. Put(k, Other, NoLease) \/ Remove({k})
    BY <1>3 DEF Set, SetIfNotExists, Del
  <2> QED
    BY <1>1, <2>1, <2>2, PutMoves, RemoveMoves
<1>4. ASSUME NEW l \in Lease, Expire(l) PROVE KeysMove
  <2> DEFINE keys == {k \in Key : kv[k].lease = l}
  <2>1. keys \in SUBSET Key /\ Remove(keys) /\ UNCHANGED <<watch, ch, mirror>>
    BY <1>4 DEF Expire
  <2> QED
    BY <2>1, RemoveMoves
<1> QED
  BY <1>2, <1>3, <1>4

-----------------------------------------------------------------------------
\* Nothing has been told yet, or nothing counts any more.
LEMMA Empty ==
    ASSUME NEW P
    PROVE  Agrees(<<>>, P) /\ (<<>> \o <<>> = <<>>)
<1>1. DOMAIN <<>> = {}
  OBVIOUS
<1>2. <<>> \in Seq(Event)
  OBVIOUS
<1> QED
  BY <1>1, <1>2, ConcatEmptySeq DEF Agrees

LEMMA MoveMirrors ==
    ASSUME MirrorInv, KeysMove
    PROVE  MirrorInv'
<1> USE DEF MirrorInv
<1>1. UNCHANGED <<watch, ch, mirror>> /\ stream \in Seq(Event) /\ ch \in Seq(Event)
  BY DEF KeysMove, WatchTypeOK
<1>2. CASE stream' = stream /\ (Folder' = Folder \/ watch \notin {"get", "run"})
  <2>1. WatchTypeOK' /\ Pending' = Pending
    BY <1>1, <1>2 DEF WatchTypeOK, Pending
  <2> QED
    BY <1>1, <1>2, <2>1
<1>3. CASE /\ watch \in {"get", "run"}
           /\ \E ev \in Event : Tells(ev, Folder, Folder') /\ stream' = Append(stream, ev)
  <2>1. PICK ev \in Event : Tells(ev, Folder, Folder') /\ stream' = Append(stream, ev)
    BY <1>3
  <2>2. WatchTypeOK'
    BY <1>1, <2>1, AppendProperties DEF WatchTypeOK
  <2>3. CASE watch = "get"
    <3>1. Agrees(stream, Folder) /\ ch = <<>>
      BY <2>3
    <3>2. Agrees(stream', Folder')
      BY <1>1, <2>1, <3>1, AppendAgrees
    <3> QED
      BY <1>1, <2>2, <2>3, <3>1, <3>2
  <2>4. CASE watch = "run"
    <3>1. Agrees(Pending, Folder) /\ Knows(Pending, mirror, Folder)
      BY <2>4
    <3>2. Pending \in Seq(Event) /\ Pending' = Append(Pending, ev)
      BY <1>1, <2>1, Joins DEF Pending
    <3>3. Agrees(Pending', Folder') /\ Knows(Pending', mirror, Folder')
      BY <2>1, <3>1, <3>2, AppendAgrees
    <3> QED
      BY <1>1, <2>2, <2>4, <3>3
  <2> QED
    BY <1>3, <2>3, <2>4
<1> QED
  BY <1>2, <1>3 DEF KeysMove

LEMMA WatchMirrors ==
    ASSUME MirrorInv, WatchStep
    PROVE  MirrorInv'
<1> USE DEF MirrorInv
<1>1. /\ stream \in Seq(Event) /\ ch \in Seq(Event) /\ mirror \subseteq Key
      /\ watch \in {"none", "get", "run", "spin"}
  BY DEF WatchTypeOK
<1>2. UNCHANGED kv /\ Folder' = Folder /\ Folder \subseteq Key
  BY DEF WatchStep, StartWatch, Fresh, FreshFails, Forward, Receive, WatchEnds, Folder, Present
<1>3. CASE StartWatch
  <2>1. watch' = "get" /\ stream' = <<>> /\ ch' = <<>> /\ mirror' = mirror
    BY <1>3 DEF StartWatch
  <2>2. WatchTypeOK' /\ Agrees(stream', Folder')
    BY <1>1, <2>1, Empty DEF WatchTypeOK
  <2> QED
    BY <2>1, <2>2
<1>4. CASE Fresh
  <2> DEFINE ev == [type |-> "fresh", keys |-> Folder]
  <2>1. /\ watch' = "run" /\ stream' = stream /\ mirror' = mirror
        /\ ch = <<>> /\ ch' = Append(<<>>, ev) /\ Agrees(stream, Folder)
    BY <1>4 DEF Fresh
  <2>2. ev \in Event /\ ev.type = "fresh" /\ ev.keys = Folder
    BY <1>2 DEF Event
  <2> HIDE DEF ev
  <2>3. ch' = <<ev>> /\ ch' \in Seq(Event)
    BY <2>1, <2>2
  <2>4. WatchTypeOK'
    BY <1>1, <2>1, <2>3 DEF WatchTypeOK
  <2>5. Pending' = <<ev>> \o stream
    BY <2>1, <2>3 DEF Pending
  <2>6. Agrees(<<ev>> \o stream, Folder) /\ Knows(<<ev>> \o stream, mirror, Folder)
    BY <1>1, <2>1, <2>2, FreshAgrees
  <2> QED
    BY <1>2, <2>1, <2>4, <2>5, <2>6
<1>5. CASE FreshFails
  BY <1>1, <1>5 DEF FreshFails, WatchTypeOK
<1>6. CASE Forward
  <2>1. /\ watch = "run" /\ watch' = "run" /\ stream # <<>>
        /\ ch' = Append(ch, Head(stream)) /\ stream' = Tail(stream) /\ mirror' = mirror
    BY <1>6 DEF Forward
  <2>2. ch' \in Seq(Event) /\ stream' \in Seq(Event) /\ Pending' = Pending
    BY <1>1, <2>1, Joins DEF Pending
  <2>3. WatchTypeOK'
    BY <1>1, <2>1, <2>2 DEF WatchTypeOK
  <2> QED
    BY <1>2, <2>1, <2>2, <2>3
<1>7. CASE Receive
  <2> DEFINE ev == Head(ch)
  <2>1. /\ ch # <<>> /\ ch' = Tail(ch) /\ UNCHANGED <<watch, stream>>
        /\ mirror' = CASE ev.type = "fresh"  -> ev.keys
                       [] ev.type = "delete" -> mirror \ ev.keys
                       [] OTHER              -> mirror \cup ev.keys
    BY <1>7 DEF Receive
  <2>2. /\ ch' \in Seq(Event) /\ ev \in Event
        /\ Pending \in Seq(Event) /\ Pending # <<>>
        /\ Pending' = Tail(Pending) /\ Pending[1] = ev
    BY <1>1, <2>1, Joins DEF Pending
  <2> HIDE DEF ev
  <2>3. ev.type \in {"fresh", "created", "modified", "delete"} /\ ev.keys \subseteq Key
    BY <2>2 DEF Event
  <2>4. mirror' \subseteq Key
    BY <1>1, <2>1, <2>3
  <2>5. \A k \in Key : k \in mirror' <=> IF Mentions(ev, k) THEN Puts(ev, k) ELSE k \in mirror
    BY <2>1, <2>3 DEF Mentions, Puts
  <2>6. WatchTypeOK'
    BY <1>1, <2>1, <2>2, <2>4 DEF WatchTypeOK
  <2>7. watch # "none" /\ watch # "get"
    BY <2>1
  <2>8. watch = "run" => Agrees(Pending', Folder) /\ Knows(Pending', mirror', Folder)
    BY <2>2, <2>5, TailAgrees
  <2> QED
    BY <1>2, <2>1, <2>6, <2>7, <2>8
<1>8. CASE WatchEnds
  BY <1>1, <1>8 DEF WatchEnds, WatchTypeOK
<1> QED
  BY <1>3, <1>4, <1>5, <1>6, <1>7, <1>8 DEF WatchStep

LEMMA MirrorInit == Init => MirrorInv
BY DEF Init, MirrorInv, WatchTypeOK

LEMMA MirrorNext == LockInv /\ MirrorInv /\ [Next]_vars => MirrorInv'
<1> SUFFICES ASSUME LockInv, MirrorInv, [Next]_vars PROVE MirrorInv'
  OBVIOUS
<1>1. CASE WatchStep
  BY <1>1, WatchMirrors
<1>2. CASE UNCHANGED vars
  BY <1>2, StillMoves, MoveMirrors DEF vars, watchVars
<1> QED
  BY <1>1, <1>2, StepMoves, MoveMirrors DEF Next

\* What a watch has told of and not yet handed over always completes what its
\* receiver knows, wherever the folder was read between the changes: the
\* inductive invariant.
THEOREM MirrorInvariant == Spec => []MirrorInv
<1> QED
  BY MirrorInit, MirrorNext, LockInvariant, PTL DEF Spec

\* A receiver of WatchFolder that has received everything knows the keys that
\* are there: MirrorFollows for any keys, buffer and distance between them.
THEOREM MirrorIsFaithful == Spec => []MirrorFollows
<1>1. MirrorInv => MirrorFollows
  <2> SUFFICES ASSUME MirrorInv, watch = "run", stream = <<>>, ch = <<>> PROVE mirror = Folder
    BY DEF MirrorFollows
  <2>1. Pending = <<>> /\ DOMAIN <<>> = {}
    BY Empty DEF Pending
  <2>2. \A k \in Key : k \in mirror <=> k \in Folder
    BY <2>1 DEF MirrorInv, Knows
  <2>3. mirror \subseteq Key /\ Folder \subseteq Key
    BY DEF MirrorInv, WatchTypeOK, Folder
  <2> QED
    BY <2>2, <2>3
<1> QED
  BY <1>1, MirrorInvariant, PTL
=============================================================================
