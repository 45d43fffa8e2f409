------------------------- MODULE SecretStoreProofs -------------------------
(***************************************************************************)
(* Theorems about SecretStore, for any names, callers, unseal keys and     *)
(* numbers of versions.                                                    *)
(***************************************************************************)
EXTENDS SecretStore, Sequences, TLAPS

\* The versions of a name are 1, 2, ... without gaps; the last one alone is valid.
VersionsInv ==
    \A n \in Name :
        /\ LastVersion(n) \in Nat
        /\ \A r \in rows[n] : r.version \in 1..LastVersion(n)
        /\ \A v \in 1..LastVersion(n) : \E r \in rows[n] : r.version = v
        /\ \A r, s \in rows[n] : r.version = s.version => r = s
        /\ \A r \in rows[n] : r.valid <=> r.version = LastVersion(n)

\* The rows of a name have one type; that of level 1 keys and certificates is fixed.
TypesInv ==
    \A n \in Name :
        /\ \A r, s \in rows[n] : r.type = s.type
        /\ n \in Level1Name => \A r \in rows[n] : r.type = KeySetType
        /\ n \in Cert => \A r \in rows[n] : r.type = None

\* A reference to a level 1 or level 2 key that is in the store.
IsKey(names, ref) == ref # None /\ ref[1] \in names /\ Exists(ref)

\* A certificate's issuer is in the store and has the key that signed.
Issued(parent, by) ==
    /\ IsKey(CAName, parent)
    /\ \A r \in rows[parent[1]] : r.version = parent[2] => r.key = by

KeyRowsInv ==
    \A n \in Level2Name : \A r \in rows[n] : r.parent = r.by /\ IsKey(Level1Name, r.parent)

CertRowsInv ==
    /\ \A n \in CAName : \A r \in rows[n] : IsKey(Level2Name, r.key)
    /\ \A n \in CertName : \A r \in rows[n] :
          Issued(r.parent, r.by) /\ IsKey(Level2Name, r.by)

RowsInv == VersionsInv /\ TypesInv /\ KeyRowsInv /\ CertRowsInv

-----------------------------------------------------------------------------
\* The calls whose version is known.
Numbered(c) == call[c].pc \in {"level1", "insert", "archive", "commit"}

\* What a caller is about is a name that clients can use.
NameInv(c) ==
    /\ call[c].name = TokenName <=> call[c].pc \in {"sealed", "token", "idle"}
    /\ call[c].pc \in {"key", "open", "read"} => IsCert(c)
    /\ call[c].pc \in {"version", "level1"} => call[c].name \in Level2Name

\* A version read is stale or the next one, and a pending row has the next one.
\* The update has retired all the versions below the one that is inserted.
NumberInv(c) ==
    /\ Numbered(c) => call[c].next \in 1..(LastVersion(call[c].name) + 1)
    /\ Pending(c) => call[c].next = LastVersion(call[c].name) + 1
    /\ call[c].pc = "commit" \/ (call[c].pc = "insert" /\ IsCert(c)) =>
          \A v \in 1..(call[c].next - 1) : v \in call[c].old

\* The type of a call is that of the rows of its name.
KindInv(c) ==
    /\ call[c].name \in Level1Name => call[c].type = KeySetType
    /\ call[c].name \in Cert => call[c].type = None
    /\ call[c].name \in Level2Name => call[c].type \in KeyType
    /\ Numbered(c) /\ call[c].next > 1 =>
          \A r \in rows[call[c].name] : r.type = call[c].type

\* What a call will commit refers to rows that are committed.
ReferenceInv(c) ==
    /\ call[c].name \in Level2Name =>
          /\ call[c].level1 \in Level1Name
          /\ call[c].pc # "level1" =>
                call[c].parent = call[c].by /\ IsKey(Level1Name, call[c].parent)
    /\ call[c].name \in CAName => IsKey(Level2Name, call[c].key)
    /\ call[c].name \in CertName =>
          Issued(call[c].parent, call[c].by) /\ IsKey(Level2Name, call[c].by)

CallInv(c) == NameInv(c) /\ NumberInv(c) /\ KindInv(c) /\ ReferenceInv(c)

\* Two transactions never hold uncommitted rows of one name.
PendingApart ==
    \A c, d \in Caller : c # d /\ Pending(c) /\ Pending(d) => call[c].name # call[d].name

SecretInv ==
    /\ SecretTypeOK /\ RowsInv /\ PendingApart /\ UnsealedOpensToken
    /\ \A c \in Caller : CallInv(c)

-----------------------------------------------------------------------------
\* The newest row is there and has the last version.
LEMMA NewestFact ==
    ASSUME VersionsInv, NEW n \in Name, rows[n] # {}
    PROVE  Newest(rows[n]) \in rows[n] /\ Newest(rows[n]).version = LastVersion(n)
<1>1. LastVersion(n) = Newest(rows[n]).version
  BY DEF LastVersion
<1>2. PICK q \in rows[n] : q.version \in 1..LastVersion(n)
  BY DEF VersionsInv
<1>3. LastVersion(n) \in 1..LastVersion(n)
  BY <1>2 DEF VersionsInv
<1>4. \E r \in rows[n] : \A s \in rows[n] : s.version <= r.version
  BY <1>3 DEF VersionsInv
<1> QED
  BY <1>1, <1>4 DEF Newest

\* The newest valid row is the newest row.
LEMMA ActiveFact ==
    ASSUME VersionsInv, NEW n \in Name, Active(n) # {}
    PROVE  Newest(Active(n)) \in rows[n]
<1>1. \A r \in Active(n) : r.version = LastVersion(n) /\ LastVersion(n) \in Nat
  BY DEF VersionsInv, Active
<1>2. \E r \in Active(n) : \A s \in Active(n) : s.version <= r.version
  BY <1>1
<1>3. Newest(Active(n)) \in Active(n)
  BY <1>2 DEF Newest
<1> QED
  BY <1>3 DEF Active

\* A set of rows with the versions 1 to k has k as its last version.
LEMMA LastFact ==
    ASSUME NEW S, NEW k \in Nat,
           \A r \in S : r.version \in 1..k,
           \A v \in 1..k : \E r \in S : r.version = v
    PROVE  (IF S = {} THEN 0 ELSE Newest(S).version) = k
<1>1. CASE S = {}
  BY <1>1
<1>2. CASE S # {}
  <2>1. k \in 1..k
    BY <1>2
  <2>2. PICK r \in S : r.version = k
    BY <2>1
  <2>3. \A s \in S : s.version <= r.version
    BY <2>2
  <2>4. Newest(S) \in S /\ \A s \in S : s.version <= Newest(S).version
    BY <2>3 DEF Newest
  <2> QED
    BY <1>2, <2>2, <2>4
<1> QED
  BY <1>1, <1>2

\* The provider's latest key is one of its keys.
LEMMA SealerFact ==
    ASSUME NEW c \in Caller
    PROVE  \E k \in Provider[c] : k \in Nat /\ Sealer(c) = <<UnsealName, k>>
<1>1. \E k \in Provider[c] : \A j \in Provider[c] : j <= k
  BY ProviderAssumption
<1> QED
  BY <1>1, ProviderAssumption DEF Sealer

\* A reference made from a row of a name.
LEMMA RefFact ==
    ASSUME SecretTypeOK, NEW n \in Name, NEW r \in rows[n]
    PROVE  RefOf(n, r) \in Ref /\ RefOf(n, r)[1] = n /\ RefOf(n, r)[2] = r.version
  BY DEF SecretTypeOK, Row, RefOf, Ref

\* The newest valid key of a name, when there is one.
LEMMA ActiveRefFact ==
    ASSUME SecretTypeOK, VersionsInv, NEW names \in SUBSET Name, NEW n \in names,
           Active(n) # {}
    PROVE  /\ RefOf(n, Newest(Active(n))) \in Ref
           /\ IsKey(names, RefOf(n, Newest(Active(n))))
<1>1. Newest(Active(n)) \in rows[n] /\ n \in Name
  BY ActiveFact
<1>2. RefOf(n, Newest(Active(n))) \in Ref
  BY <1>1, RefFact
<1> QED
  BY <1>1, <1>2, RefFact, NamesAssumption DEF IsKey, Exists, Ref

-----------------------------------------------------------------------------
LEMMA SecretInitInv == SecretInit => SecretInv
<1> SUFFICES ASSUME SecretInit PROVE SecretInv
  OBVIOUS
<1>1. Sealed \in Call
  BY DEF Sealed, Idle, Call, Name
<1>2. \A c \in Caller : call[c].pc = "sealed" /\ call[c].name = TokenName
  BY DEF SecretInit, Sealed, Idle
<1>3. SecretTypeOK
  BY <1>1 DEF SecretInit, SecretTypeOK
<1>4. \A n \in Name : rows[n] = {} /\ LastVersion(n) = 0
  BY DEF SecretInit, LastVersion
<1>5. RowsInv
  BY <1>4 DEF RowsInv, VersionsInv, TypesInv, KeyRowsInv, CertRowsInv, Name, Secret, Cert
<1>6. \A c \in Caller : CallInv(c) /\ ~Pending(c) /\ ~Unsealed(c)
  BY <1>2, NamesAssumption
     DEF CallInv, NameInv, NumberInv, KindInv, ReferenceInv, Numbered, Pending, Unsealed,
         Secret, Cert
<1> QED
  BY <1>3, <1>5, <1>6 DEF SecretInv, PendingApart, UnsealedOpensToken

-----------------------------------------------------------------------------
\* The steps that only read: they change the call of their caller.
Reading(c) ==
    \/ ReadToken(c) \/ Begin(c) \/ ReadVersion(c) \/ LoadLevel1(c) \/ LoadCAKey(c)
    \/ OpenKey(c) \/ ReadCertVersion(c) \/ Insert(c) \/ Archive(c) \/ Abort(c) \/ Crash(c)

\* A call that is over satisfies its invariant whatever the rows are.
LEMMA OverFact ==
    ASSUME NEW c \in Caller, SecretTypeOK,
           Return(c) \/ call' = [call EXCEPT ![c] = Sealed]
    PROVE  /\ call'[c] \in Call /\ CallInv(c)' /\ ~Pending(c)'
           /\ Unsealed(c)' => Unsealed(c)
<1>. Sealed.pc = "sealed" /\ Idle.pc = "idle"
  BY DEF Sealed, Idle
<1>1. call'[c] \in {Idle, Sealed} /\ (call'[c] = Idle => Unsealed(c))
  BY DEF Return, SecretTypeOK
<1>2. call'[c] \in Call /\ call'[c].pc \in {"idle", "sealed"} /\ call'[c].name = TokenName
  BY <1>1 DEF Idle, Sealed, Call, Name
<1>3. Unsealed(c)' => Unsealed(c)
  BY <1>1 DEF Unsealed, Sealed, Idle
<1> QED
  BY <1>2, <1>3, NamesAssumption
     DEF CallInv, NameInv, NumberInv, KindInv, ReferenceInv, Numbered, Pending, Secret, Cert

\* What a step that only reads must establish.
Good(c) ==
    /\ rows' = rows
    /\ \E x \in Call : call' = [call EXCEPT ![c] = x]
    /\ CallInv(c)'
    /\ Pending(c)' => \A d \in Caller \ {c} : Pending(d) => call[d].name # call'[c].name
    /\ Unsealed(c)' => Unsealed(c) \/ \E r \in rows[TokenName] : Opens(c, r)

LEMMA OverGood ==
    ASSUME NEW c \in Caller, SecretTypeOK, UNCHANGED rows,
           Return(c) \/ call' = [call EXCEPT ![c] = Sealed]
    PROVE  Good(c)
<1>1. \E x : call' = [call EXCEPT ![c] = x]
  BY DEF Return
<1>2. \E x \in Call : call' = [call EXCEPT ![c] = x]
  BY <1>1, OverFact DEF SecretTypeOK
<1> QED
  BY <1>2, OverFact DEF Good

\* A step that changes some fields of c's call.
LEMMA FieldsGood ==
    ASSUME NEW c \in Caller, SecretTypeOK, NEW x \in Call,
           UNCHANGED rows, call' = [call EXCEPT ![c] = x],
           NameInv(c)', NumberInv(c)', KindInv(c)', ReferenceInv(c)', ~Pending(c)',
           x.pc = "idle" => Unsealed(c) \/ \E r \in rows[TokenName] : Opens(c, r),
           x.pc # "token" /\ x.pc # "idle" => Unsealed(c)
    PROVE  Good(c)
<1>1. call'[c] = x
  BY DEF SecretTypeOK
<1>2. Unsealed(c)' => Unsealed(c) \/ \E r \in rows[TokenName] : Opens(c, r)
  BY <1>1 DEF Unsealed
<1> QED
  BY <1>2 DEF Good, CallInv

LEMMA BeginGood ==
    ASSUME SecretInv, NEW c \in Caller, Begin(c)
    PROVE  Good(c)
<1>. SecretTypeOK /\ VersionsInv /\ TypesInv
  BY DEF SecretInv, RowsInv
<1>0. /\ call[c].pc = "idle" /\ Unsealed(c)
      /\ \A n \in Name : LastVersion(n) \in Nat
  BY DEF Begin, StoreLevel1KeySet, StoreLevel2KeySet, KeyManageGenerateNewKey,
         StoreL2DataKey, SaveCA, CreateCert, Unsealed, VersionsInv
<1>1. ASSUME NEW n \in Level1Name, StoreLevel1KeySet(c, n) PROVE Good(c)
  <2>1. PICK last \in {0, LastVersion(n)} :
          call' = [call EXCEPT ![c] = [Idle EXCEPT !.pc = "insert", !.name = n,
                                         !.next = last + 1, !.type = KeySetType,
                                         !.parent = Sealer(c), !.by = Sealer(c)]]
    BY <1>1 DEF StoreLevel1KeySet
  <2>2. n \in Name /\ n # TokenName /\ n \notin Cert /\ n \notin Level2Name
    BY NamesAssumption DEF Name, Secret, Cert
  <2>3. Sealer(c) \in Ref
    BY SealerFact DEF Ref
  <2>. DEFINE x == [Idle EXCEPT !.pc = "insert", !.name = n, !.next = last + 1,
                                !.type = KeySetType, !.parent = Sealer(c), !.by = Sealer(c)]
  <2>4. x \in Call
    <3>1. last + 1 \in Nat
      BY <1>0, <2>2
    <3> QED
      BY <2>2, <2>3, <3>1, TypesAssumption DEF Call, Idle, Name
  <2>5. call'[c] = x /\ rows' = rows
    BY <1>1, <2>1 DEF SecretTypeOK, StoreLevel1KeySet
  <2>6. x.pc = "insert" /\ x.name = n /\ x.next = last + 1 /\ x.type = KeySetType
    BY DEF Idle
  <2>. HIDE DEF x
  <2>7. NameInv(c)' /\ ~Pending(c)'
    BY <2>2, <2>5, <2>6 DEF NameInv, IsCert, Pending
  <2>8. KindInv(c)'
    BY <2>2, <2>5, <2>6 DEF KindInv, TypesInv
  <2>9. ReferenceInv(c)'
    BY <2>2, <2>5, <2>6 DEF ReferenceInv, Cert
  <2>10. NumberInv(c)'
    BY <1>0, <2>2, <2>5, <2>6
       DEF NumberInv, Numbered, Pending, IsCert, LastVersion
  <2> QED
    BY <1>0, <2>1, <2>4, <2>5, <2>7, <2>8, <2>9, <2>10 DEF Good, CallInv, x
<1>2. ASSUME NEW l \in Level1Name, NEW n \in Level2Name, StoreLevel2KeySet(c, l, n)
      PROVE  Good(c)
  <2>. DEFINE ref == Level1Ref(l)
              x == [Idle EXCEPT !.pc = "version", !.name = n, !.type = KeySetType,
                                !.level1 = l, !.parent = ref, !.by = ref]
  <2>1. /\ n \in Name /\ n # TokenName /\ n \notin Cert /\ n \notin Level1Name
        /\ l \in Name /\ Level1Name \subseteq Name
    BY NamesAssumption DEF Name, Secret, Cert
  <2>2. Active(l) # {}
    BY <1>2 DEF StoreLevel2KeySet, Loads1
  <2>3. ref \in Ref /\ IsKey(Level1Name, ref)
    BY <2>1, <2>2, ActiveRefFact DEF Level1Ref
  <2>4. x \in Call
    BY <2>1, <2>3, TypesAssumption DEF Call, Idle, Name
  <2>5. call'[c] = x /\ rows' = rows /\ call' = [call EXCEPT ![c] = x]
    BY <1>2 DEF SecretTypeOK, StoreLevel2KeySet
  <2>6. /\ x.pc = "version" /\ x.name = n /\ x.type = KeySetType /\ x.level1 = l
        /\ x.parent = ref /\ x.by = ref
    BY DEF Idle
  <2>. HIDE DEF x, ref
  <2>7. NameInv(c)' /\ ~Pending(c)' /\ NumberInv(c)'
    BY <2>1, <2>5, <2>6 DEF NameInv, IsCert, Pending, NumberInv, Numbered
  <2>8. KindInv(c)'
    BY <2>1, <2>5, <2>6, TypesAssumption DEF KindInv, Numbered
  <2>9. ReferenceInv(c)'
    BY <2>1, <2>3, <2>5, <2>6 DEF ReferenceInv, Cert, IsKey, Exists
  <2> QED
    BY <1>0, <2>4, <2>5, <2>7, <2>8, <2>9 DEF Good, CallInv
<1>3. ASSUME NEW l \in Level1Name, NEW n \in Level2Name, NEW type \in KeyType,
             StoreL2DataKey(c, l, n, type)
      PROVE  Good(c)
  <2>. DEFINE x == [Idle EXCEPT !.pc = "level1", !.name = n, !.next = LastVersion(n) + 1,
                                !.type = type, !.level1 = l]
  <2>1. /\ n \in Name /\ n # TokenName /\ n \notin Cert /\ n \notin Level1Name /\ l \in Name
    BY NamesAssumption DEF Name, Secret, Cert
  <2>2. LastVersion(n) + 1 \in Nat
    BY <1>0, <2>1
  <2>4. x \in Call
    BY <2>1, <2>2 DEF Call, Idle, Name
  <2>5. call'[c] = x /\ rows' = rows /\ call' = [call EXCEPT ![c] = x]
    BY <1>3 DEF SecretTypeOK, StoreL2DataKey
  <2>6. /\ x.pc = "level1" /\ x.name = n /\ x.next = LastVersion(n) + 1 /\ x.type = type
        /\ x.level1 = l
    BY DEF Idle
  <2>7. \A r \in rows[n] : r.type = type
    <3>1. CASE rows[n] = {}
      BY <3>1
    <3>2. CASE rows[n] # {}
      <4>1. Newest(rows[n]) \in rows[n] /\ Newest(rows[n]).type = type
        BY <1>3, <2>1, <3>2, NewestFact DEF StoreL2DataKey, Rotatable
      <4> QED
        BY <2>1, <4>1 DEF TypesInv
    <3> QED
      BY <3>1, <3>2
  <2>. HIDE DEF x
  <2>8. NameInv(c)' /\ ~Pending(c)'
    BY <2>1, <2>5, <2>6 DEF NameInv, IsCert, Pending
  <2>9. NumberInv(c)'
    BY <1>0, <2>1, <2>5, <2>6 DEF NumberInv, Numbered, Pending, LastVersion, IsCert
  <2>10. KindInv(c)'
    BY <2>1, <2>5, <2>6, <2>7 DEF KindInv
  <2>11. ReferenceInv(c)'
    BY <2>1, <2>5, <2>6 DEF ReferenceInv, Cert
  <2> QED
    BY <1>0, <2>4, <2>5, <2>8, <2>9, <2>10, <2>11 DEF Good, CallInv
<1>4. ASSUME NEW n \in CAName, NEW k \in Level2Name, SaveCA(c, n, k)
      PROVE  Good(c)
  <2>. DEFINE ref == RefOf(k, Newest(Active(k)))
              x == [Idle EXCEPT !.pc = "open", !.name = n, !.key = ref]
  <2>1. /\ n \in Name /\ n # TokenName /\ n \in Cert
        /\ n \notin Level1Name /\ n \notin Level2Name /\ n \notin CertName
        /\ k \in Name /\ Level2Name \subseteq Name
    BY NamesAssumption DEF Name, Secret, Cert
  <2>2. Active(k) # {}
    BY <1>4 DEF SaveCA
  <2>3. ref \in Ref /\ IsKey(Level2Name, ref)
    BY <2>1, <2>2, ActiveRefFact
  <2>4. x \in Call
    BY <2>1, <2>3 DEF Call, Idle, Name
  <2>5. call'[c] = x /\ rows' = rows /\ call' = [call EXCEPT ![c] = x]
    BY <1>4 DEF SecretTypeOK, SaveCA, Fetched
  <2>6. x.pc = "open" /\ x.name = n /\ x.key = ref /\ x.type = None
    BY DEF Idle
  <2>. HIDE DEF x, ref
  <2>7. NameInv(c)' /\ ~Pending(c)' /\ NumberInv(c)'
    BY <2>1, <2>5, <2>6 DEF NameInv, IsCert, Pending, NumberInv, Numbered
  <2>8. KindInv(c)'
    BY <2>1, <2>5, <2>6 DEF KindInv, Numbered
  <2>9. ReferenceInv(c)'
    BY <2>1, <2>3, <2>5, <2>6 DEF ReferenceInv, IsKey, Exists
  <2> QED
    BY <1>0, <2>4, <2>5, <2>7, <2>8, <2>9 DEF Good, CallInv
<1>5. ASSUME NEW n \in CertName, NEW a \in CAName, CreateCert(c, n, a)
      PROVE  Good(c)
  <2>. DEFINE ca == Newest(rows[a])
              x == [Idle EXCEPT !.pc = "key", !.name = n, !.parent = RefOf(a, ca), !.by = ca.key]
  <2>1. /\ n \in Name /\ n # TokenName /\ n \in Cert
        /\ n \notin Level1Name /\ n \notin Level2Name /\ n \notin CAName /\ a \in Name
    BY NamesAssumption DEF Name, Secret, Cert
  <2>2. ca \in rows[a]
    BY <1>5, <2>1, NewestFact DEF CreateCert
  <2>3. /\ RefOf(a, ca) \in Ref /\ RefOf(a, ca)[1] = a /\ RefOf(a, ca)[2] = ca.version
        /\ ca.key \in Ref \cup {None} /\ IsKey(Level2Name, ca.key)
    BY <2>1, <2>2, RefFact DEF SecretInv, RowsInv, CertRowsInv, SecretTypeOK, Row
  <2>4. Issued(RefOf(a, ca), ca.key)
    <3>1. RefOf(a, ca) # None
      BY <2>3, NamesAssumption DEF Ref
    <3> QED
      BY <2>1, <2>2, <2>3, <3>1 DEF Issued, IsKey, Exists, VersionsInv
  <2>5. x \in Call
    BY <2>1, <2>3 DEF Call, Idle, Name
  <2>6. call'[c] = x /\ rows' = rows /\ call' = [call EXCEPT ![c] = x]
    BY <1>5 DEF SecretTypeOK, CreateCert
  <2>7. /\ x.pc = "key" /\ x.name = n /\ x.parent = RefOf(a, ca) /\ x.by = ca.key
        /\ x.type = None
    BY DEF Idle
  <2>. HIDE DEF x, ca
  <2>8. NameInv(c)' /\ ~Pending(c)' /\ NumberInv(c)'
    BY <2>1, <2>6, <2>7 DEF NameInv, IsCert, Pending, NumberInv, Numbered
  <2>9. KindInv(c)'
    BY <2>1, <2>6, <2>7 DEF KindInv, Numbered
  <2>10. ReferenceInv(c)'
    BY <2>1, <2>3, <2>4, <2>6, <2>7 DEF ReferenceInv, Issued, IsKey, Exists
  <2> QED
    BY <1>0, <2>5, <2>6, <2>8, <2>9, <2>10 DEF Good, CallInv
<1> QED
  BY <1>1, <1>2, <1>3, <1>4, <1>5 DEF Begin, KeyManageGenerateNewKey

\* A certificate call that goes on to the key or to the version.
LEMMA EarlyGood ==
    ASSUME SecretTypeOK, NEW c \in Caller, CallInv(c), NEW pc \in {"open", "read"},
           call[c].pc \in {"key", "open"}, UNCHANGED rows,
           call' = [call EXCEPT ![c] = [call[c] EXCEPT !.pc = pc]]
    PROVE  Good(c)
<1>. DEFINE x == [call[c] EXCEPT !.pc = pc]
<1>1. x \in Call /\ call'[c] = x /\ x.pc = pc
  BY DEF SecretTypeOK, Call
<1>2. /\ x.name = call[c].name /\ x.next = call[c].next /\ x.type = call[c].type
      /\ x.level1 = call[c].level1 /\ x.parent = call[c].parent
      /\ x.by = call[c].by /\ x.key = call[c].key
  BY DEF SecretTypeOK, Call
<1>3. call' = [call EXCEPT ![c] = x]
  OBVIOUS
<1>. HIDE DEF x
<1>4. NameInv(c)' /\ NumberInv(c)' /\ ~Pending(c)'
  BY <1>1, <1>2 DEF CallInv, NameInv, NumberInv, Numbered, Pending, IsCert
<1>5. KindInv(c)'
  BY <1>1, <1>2 DEF CallInv, KindInv, Numbered
<1>6. ReferenceInv(c)'
  BY <1>1, <1>2, NamesAssumption
     DEF CallInv, NameInv, IsCert, ReferenceInv, Issued, IsKey, Exists, Secret, Cert
<1> QED
  BY <1>1, <1>3, <1>4, <1>5, <1>6, FieldsGood DEF Unsealed

\* A step of a writing transaction that keeps what the new row will hold.
LEMMA TransactionFact ==
    ASSUME SecretTypeOK, NEW c \in Caller, CallInv(c),
           call[c].pc \in {"insert", "archive"}, UNCHANGED rows,
           NEW pc \in {"insert", "archive", "commit"}, NEW old \in SUBSET Nat,
           call' = [call EXCEPT ![c] = [call[c] EXCEPT !.pc = pc, !.old = old]]
    PROVE  /\ [call[c] EXCEPT !.pc = pc, !.old = old] \in Call
           /\ call'[c].pc = pc /\ call'[c].old = old
           /\ call'[c].name = call[c].name /\ call'[c].next = call[c].next
           /\ NameInv(c)' /\ KindInv(c)' /\ ReferenceInv(c)'
<1>. DEFINE x == [call[c] EXCEPT !.pc = pc, !.old = old]
<1>1. x \in Call /\ call'[c] = x /\ x.pc = pc /\ x.old = old
  BY DEF SecretTypeOK, Call
<1>2. /\ x.name = call[c].name /\ x.next = call[c].next /\ x.type = call[c].type
      /\ x.level1 = call[c].level1 /\ x.parent = call[c].parent
      /\ x.by = call[c].by /\ x.key = call[c].key
  BY DEF SecretTypeOK, Call
<1>. HIDE DEF x
<1>3. NameInv(c)'
  BY <1>1, <1>2 DEF CallInv, NameInv, IsCert
<1>4. KindInv(c)'
  BY <1>1, <1>2 DEF CallInv, KindInv, Numbered
<1>5. ReferenceInv(c)'
  BY <1>1, <1>2 DEF CallInv, ReferenceInv, Issued, IsKey, Exists
<1> QED
  BY <1>1, <1>2, <1>3, <1>4, <1>5 DEF x

\* A new row enters the unique index only if its version is the next one.
LEMMA InsertGood ==
    ASSUME SecretInv, NEW c \in Caller, Insert(c)
    PROVE  Good(c)
<1>. DEFINE n == call[c].name
            next == call[c].next
            pc == IF IsCert(c) THEN "commit" ELSE "archive"
<1>1. /\ SecretTypeOK /\ VersionsInv /\ CallInv(c) /\ n \in Name /\ call[c].pc = "insert"
      /\ next \in Nat /\ call[c] \in Call /\ LastVersion(n) \in Nat
  BY DEF SecretInv, RowsInv, SecretTypeOK, Call, Insert, VersionsInv
<1>2. CASE Return(c)
  BY <1>1, <1>2, OverGood DEF Insert
<1>3. CASE ~Return(c)
  <2>1. /\ ~Refused(c) /\ rows' = rows /\ call' = [call EXCEPT ![c].pc = pc]
        /\ \A d \in Caller : Pending(d) /\ call[d].name = n => call[d].next # next
    BY <1>3 DEF Insert
  <2>2. next = LastVersion(n) + 1
    <3>1. next \in 1..(LastVersion(n) + 1)
      BY <1>1 DEF CallInv, NumberInv, Numbered
    <3>2. next \notin 1..LastVersion(n)
      BY <1>1, <2>1 DEF Refused, VersionsInv
    <3> QED
      BY <1>1, <3>1, <3>2
  <2>3. /\ call' = [call EXCEPT ![c] = [call[c] EXCEPT !.pc = pc, !.old = call[c].old]]
        /\ call[c].old \in SUBSET Nat
    <3>1. [call[c] EXCEPT !.pc = pc, !.old = call[c].old] = [call[c] EXCEPT !.pc = pc]
      BY <1>1 DEF Call
    <3> QED
      BY <1>1, <2>1, <3>1 DEF Call
  <2>4. /\ [call[c] EXCEPT !.pc = pc, !.old = call[c].old] \in Call
        /\ call'[c].pc = pc /\ call'[c].old = call[c].old
        /\ call'[c].name = n /\ call'[c].next = next
        /\ NameInv(c)' /\ KindInv(c)' /\ ReferenceInv(c)'
    BY <1>1, <2>1, <2>3, TransactionFact
  <2>5. NumberInv(c)'
    BY <1>1, <2>1, <2>2, <2>4
       DEF NumberInv, Numbered, Pending, IsCert, LastVersion, CallInv
  <2>6. \A d \in Caller \ {c} : Pending(d) => call[d].name # call'[c].name
    BY <2>1, <2>2, <2>4 DEF SecretInv, CallInv, NumberInv
  <2> QED
    BY <1>1, <2>1, <2>3, <2>4, <2>5, <2>6 DEF Good, CallInv, Unsealed
<1> QED
  BY <1>2, <1>3

\* The update finds every version below the one that is inserted.
LEMMA ArchiveGood ==
    ASSUME SecretInv, NEW c \in Caller, Archive(c)
    PROVE  Good(c)
<1>. DEFINE n == call[c].name
            next == call[c].next
            pc == IF IsCert(c) THEN "insert" ELSE "commit"
<1>1. /\ SecretTypeOK /\ VersionsInv /\ CallInv(c) /\ n \in Name /\ call[c].pc = "archive"
      /\ next \in Nat /\ call[c] \in Call /\ LastVersion(n) \in Nat
  BY DEF SecretInv, RowsInv, SecretTypeOK, Call, Archive, VersionsInv
<1>2. /\ rows' = rows
      /\ call' = [call EXCEPT ![c] = [call[c] EXCEPT !.pc = pc, !.old = Old(c)]]
  BY DEF Archive
<1>3. Old(c) \in SUBSET Nat
  BY <1>1 DEF Old, VersionsInv
<1>4. /\ [call[c] EXCEPT !.pc = pc, !.old = Old(c)] \in Call
      /\ call'[c].pc = pc /\ call'[c].old = Old(c)
      /\ call'[c].name = n /\ call'[c].next = next
      /\ NameInv(c)' /\ KindInv(c)' /\ ReferenceInv(c)'
  BY <1>1, <1>2, <1>3, TransactionFact
<1>5. next \in 1..(LastVersion(n) + 1) /\ (~IsCert(c) => next = LastVersion(n) + 1)
  BY <1>1 DEF CallInv, NumberInv, Numbered, Pending
<1>6. \A v \in 1..(next - 1) : v \in Old(c)
  <2>1. \A v \in 1..(next - 1) : v \in 1..LastVersion(n) /\ v < next
    BY <1>1, <1>5
  <2>2. \A v \in 1..(next - 1) : \E r \in rows[n] : r.version = v /\ r.version < next
    BY <1>1, <2>1 DEF VersionsInv
  <2> QED
    BY <2>2 DEF Old
<1>7. NumberInv(c)'
  BY <1>1, <1>2, <1>4, <1>5, <1>6 DEF NumberInv, Numbered, Pending, IsCert, LastVersion
<1>8. Pending(c)' => Pending(c)
  BY <1>1, <1>4 DEF Pending, IsCert
<1>9. Pending(c)' => \A d \in Caller \ {c} : Pending(d) => call[d].name # call'[c].name
  BY <1>4, <1>8 DEF SecretInv, PendingApart
<1> QED
  BY <1>1, <1>2, <1>4, <1>7, <1>9 DEF Good, CallInv, Unsealed

LEMMA ReadingGood ==
    ASSUME SecretInv, NEW c \in Caller, Reading(c)
    PROVE  Good(c)
<1>. DEFINE n == call[c].name
<1>. SecretTypeOK /\ VersionsInv /\ TypesInv /\ call[c] \in Call /\ n \in Name /\ CallInv(c)
  BY DEF SecretInv, RowsInv, SecretTypeOK, Call
<1>0. \A m \in Name : LastVersion(m) \in Nat
  BY DEF VersionsInv
<1>1. CASE Begin(c)
  BY <1>1, BeginGood
<1>2. CASE Abort(c) \/ Crash(c)
  BY <1>2, OverGood DEF Abort, Crash
<1>3. CASE ReadToken(c)
  <2>1. PICK p \in {"token", "idle"} : call' = [call EXCEPT ![c].pc = p]
    BY <1>3 DEF ReadToken
  <2>. DEFINE x == [call[c] EXCEPT !.pc = p]
  <2>2. x \in Call /\ call'[c] = x /\ x.pc = p /\ x.name = n
    BY <2>1 DEF SecretTypeOK, Call
  <2>3. n = TokenName
    BY <1>3 DEF CallInv, NameInv, ReadToken
  <2>4. p \in {"token", "idle"} /\ call[c].pc = "sealed"
    BY <1>3 DEF ReadToken
  <2>5. NameInv(c)' /\ ~Pending(c)' /\ NumberInv(c)'
    BY <2>2, <2>3, <2>4 DEF NameInv, NumberInv, Numbered, Pending
  <2>6. KindInv(c)' /\ ReferenceInv(c)'
    BY <2>2, <2>3, <2>4, NamesAssumption DEF KindInv, ReferenceInv, Numbered, Secret, Cert
  <2>7. rows' = rows /\ (p = "idle" => \E r \in rows[TokenName] : Opens(c, r))
    BY <1>3, <2>2 DEF ReadToken, SecretTypeOK, Call
  <2>8. call' = [call EXCEPT ![c] = x]
    BY <2>1
  <2>. HIDE DEF x
  <2> QED
    BY <2>2, <2>4, <2>5, <2>6, <2>7, <2>8, FieldsGood
<1>4. CASE ReadVersion(c)
  <2>1. CASE Return(c)
    BY <1>4, <2>1, OverGood DEF ReadVersion
  <2>2. CASE ~Return(c)
    <3>. DEFINE x == [call[c] EXCEPT !.pc = "insert", !.next = LastVersion(n) + 1]
    <3>0. /\ call[c].pc = "version" /\ rows' = rows /\ Rotatable(n, call[c].type)
          /\ call' = [call EXCEPT ![c] = x]
      BY <1>4, <2>2 DEF ReadVersion
    <3>1. call'[c] = x
      BY <3>0 DEF SecretTypeOK
    <3>2. x \in Call
      <4>1. LastVersion(n) + 1 \in Nat
        BY <1>0
      <4> QED
        BY <4>1 DEF Call
    <3>3. /\ x.pc = "insert" /\ x.next = LastVersion(n) + 1 /\ x.name = n
          /\ x.type = call[c].type /\ x.level1 = call[c].level1
          /\ x.parent = call[c].parent /\ x.by = call[c].by
      BY DEF Call
    <3>4. n \in Level2Name /\ n \notin Cert /\ n \notin Level1Name /\ n # TokenName
      BY <3>0, <3>1, NamesAssumption DEF CallInv, NameInv, Secret
    <3>5. \A r \in rows[n] : r.type = call[c].type
      <4>1. CASE rows[n] # {}
        BY <3>0, <3>1, <4>1, NewestFact DEF Rotatable, TypesInv
      <4> QED
        BY <4>1
    <3>. HIDE DEF x
    <3>6. NameInv(c)' /\ ~Pending(c)'
      BY <3>0, <3>1, <3>3, <3>4 DEF NameInv, Pending, IsCert
    <3>7. NumberInv(c)'
      BY <1>0, <3>0, <3>1, <3>3, <3>4 DEF NumberInv, Pending, IsCert, Numbered, LastVersion
    <3>8. KindInv(c)'
      BY <3>0, <3>1, <3>3, <3>4, <3>5 DEF KindInv, CallInv
    <3>9. ReferenceInv(c)'
      BY <3>0, <3>1, <3>3, <3>4 DEF ReferenceInv, CallInv, IsKey, Exists, Cert
    <3> QED
      BY <3>0, <3>2, <3>6, <3>7, <3>8, <3>9, FieldsGood DEF Unsealed
  <2> QED
    BY <2>1, <2>2
<1>5. CASE LoadLevel1(c)
  <2>1. CASE Return(c)
    BY <1>5, <2>1, OverGood DEF LoadLevel1
  <2>2. CASE ~Return(c)
    <3>. DEFINE l == call[c].level1
                ref == Level1Ref(l)
                x == [call[c] EXCEPT !.pc = "insert", !.parent = ref, !.by = ref]
    <3>1. /\ call[c].pc = "level1" /\ rows' = rows /\ Active(l) # {}
          /\ call' = [call EXCEPT ![c] = x] /\ call'[c] = x
      BY <1>5, <2>2 DEF LoadLevel1, SecretTypeOK, Loads1
    <3>2. n \in Level2Name /\ n \notin Cert /\ n \notin Level1Name /\ n # TokenName
      BY <3>1, NamesAssumption DEF CallInv, NameInv, Secret
    <3>3. l \in Level1Name /\ Level1Name \subseteq Name
      BY <3>2 DEF CallInv, ReferenceInv, Name, Secret
    <3>4. ref \in Ref /\ IsKey(Level1Name, ref)
      BY <3>1, <3>3, ActiveRefFact DEF Level1Ref
    <3>5. x \in Call
      BY <3>4 DEF Call
    <3>6. /\ x.pc = "insert" /\ x.next = call[c].next /\ x.name = n
          /\ x.type = call[c].type /\ x.level1 = l /\ x.parent = ref /\ x.by = ref
      BY DEF Call
    <3>. HIDE DEF x, ref
    <3>7. NameInv(c)' /\ ~Pending(c)'
      BY <3>1, <3>2, <3>6 DEF NameInv, Pending, IsCert
    <3>8. NumberInv(c)'
      BY <3>1, <3>2, <3>6 DEF NumberInv, Pending, IsCert, Numbered, LastVersion, CallInv
    <3>9. KindInv(c)'
      BY <3>1, <3>2, <3>6 DEF KindInv, CallInv, Numbered
    <3>10. ReferenceInv(c)'
      BY <3>1, <3>2, <3>3, <3>4, <3>6 DEF ReferenceInv, CallInv, IsKey, Exists, Cert
    <3> QED
      BY <3>1, <3>5, <3>7, <3>8, <3>9, <3>10, FieldsGood DEF Unsealed
  <2> QED
    BY <2>1, <2>2
<1>6. CASE LoadCAKey(c)
  <2>1. CASE Return(c)
    BY <1>6, <2>1, OverGood DEF LoadCAKey
  <2>2. CASE ~Return(c)
    <3>. DEFINE x == [call[c] EXCEPT !.pc = "open", !.by = call[c].by]
    <3>1. /\ call[c].pc = "key" /\ rows' = rows /\ call' = [call EXCEPT ![c] = x]
      BY <1>6, <2>2 DEF LoadCAKey, KeyById
    <3>2. x \in Call /\ x.pc = "open" /\ x = [call[c] EXCEPT !.pc = "open"]
      BY DEF Call
    <3>. HIDE DEF x
    <3> QED
      BY <3>1, <3>2, EarlyGood
  <2> QED
    BY <2>1, <2>2
<1>7. CASE OpenKey(c)
  <2>1. CASE Return(c)
    BY <1>7, <2>1, OverGood DEF OpenKey
  <2>2. CASE ~Return(c)
    <3>1. /\ call[c].pc = "open" /\ rows' = rows
          /\ call' = [call EXCEPT ![c] = [call[c] EXCEPT !.pc = "read"]]
      BY <1>7, <2>2 DEF OpenKey
    <3> QED
      BY <3>1, EarlyGood
  <2> QED
    BY <2>1, <2>2
<1>8. CASE ReadCertVersion(c)
  <2>. DEFINE x == [call[c] EXCEPT !.pc = "archive", !.next = LastVersion(n) + 1]
  <2>1. /\ call[c].pc = "read" /\ rows' = rows /\ call' = [call EXCEPT ![c] = x]
    BY <1>8 DEF ReadCertVersion
  <2>2. LastVersion(n) + 1 \in Nat
    BY <1>0
  <2>3. x \in Call /\ call'[c] = x
    BY <2>1, <2>2 DEF Call, SecretTypeOK
  <2>4. /\ x.pc = "archive" /\ x.next = LastVersion(n) + 1 /\ x.name = n
        /\ x.type = call[c].type /\ x.parent = call[c].parent
        /\ x.by = call[c].by /\ x.key = call[c].key
    BY DEF Call
  <2>5. /\ n \in Cert /\ n # TokenName /\ n \notin Level1Name /\ n \notin Level2Name
        /\ \A r \in rows[n] : r.type = None
        /\ call[c].type = None
    BY <2>1, NamesAssumption DEF CallInv, NameInv, KindInv, IsCert, TypesInv, Secret, Cert
  <2>. HIDE DEF x
  <2>6. NameInv(c)' /\ ~Pending(c)'
    BY <2>3, <2>4, <2>5 DEF NameInv, Pending, IsCert
  <2>7. NumberInv(c)'
    BY <1>0, <2>1, <2>3, <2>4, <2>5
       DEF NumberInv, Pending, IsCert, Numbered, LastVersion
  <2>8. KindInv(c)'
    BY <2>1, <2>3, <2>4, <2>5 DEF KindInv, CallInv
  <2>9. ReferenceInv(c)'
    BY <2>1, <2>3, <2>4, <2>5 DEF ReferenceInv, CallInv, Issued, IsKey, Exists
  <2> QED
    BY <2>1, <2>3, <2>4, <2>6, <2>7, <2>8, <2>9, FieldsGood DEF Unsealed
<1>9. CASE Insert(c)
  BY <1>9, InsertGood
<1>10. CASE Archive(c)
  BY <1>10, ArchiveGood
<1> QED
  BY <1>1, <1>2, <1>3, <1>4, <1>5, <1>6, <1>7, <1>8, <1>9, <1>10 DEF Reading

-----------------------------------------------------------------------------
\* The rows of a name that are there, and the next one: what a commit writes.
Grow(n, new) ==
    /\ new \in Row /\ new.valid /\ new.version = LastVersion(n) + 1
    /\ rows' = [rows EXCEPT ![n] = {[r EXCEPT !.valid = FALSE] : r \in rows[n]} \cup {new}]

\* A new row is of the name's type.
Typed(n, new) ==
    /\ \A r \in rows[n] : r.type = new.type
    /\ n \in Level1Name => new.type = KeySetType
    /\ n \in Cert => new.type = None

\* The rows of a name after the next one is added.
LEMMA GrowRows ==
    ASSUME SecretTypeOK, VersionsInv, NEW n \in Name, NEW new, Grow(n, new)
    PROVE  /\ rows' \in [Name -> SUBSET Row]
           /\ \A m \in Name \ {n} : rows'[m] = rows[m]
           /\ \A r \in rows[n] : \E s \in rows'[n] :
                 /\ s.version = r.version /\ s.type = r.type /\ ~s.valid
                 /\ s.parent = r.parent /\ s.by = r.by /\ s.key = r.key
           /\ new \in rows'[n]
           /\ \A s \in rows'[n] \ {new} : \E r \in rows[n] :
                 /\ s = [r EXCEPT !.valid = FALSE]
                 /\ s.version = r.version /\ s.type = r.type /\ ~s.valid
                 /\ s.parent = r.parent /\ s.by = r.by /\ s.key = r.key
<1>. DEFINE S == {[r EXCEPT !.valid = FALSE] : r \in rows[n]}
<1>1. rows[n] \in SUBSET Row /\ rows' = [rows EXCEPT ![n] = S \cup {new}] /\ new \in Row
  BY DEF SecretTypeOK, Grow
<1>2. \A r \in rows[n] :
        LET s == [r EXCEPT !.valid = FALSE] IN
        /\ s \in Row
        /\ s.version = r.version /\ s.type = r.type /\ ~s.valid
        /\ s.parent = r.parent /\ s.by = r.by /\ s.key = r.key
  BY <1>1 DEF Row
<1>3. S \in SUBSET Row
  BY <1>2
<1>. HIDE DEF S
<1>4. rows'[n] = S \cup {new} /\ \A m \in Name \ {n} : rows'[m] = rows[m]
  BY <1>1 DEF SecretTypeOK
<1>5. rows' \in [Name -> SUBSET Row]
  BY <1>1, <1>3 DEF SecretTypeOK
<1>6. ASSUME NEW r \in rows[n]
      PROVE  \E s \in rows'[n] :
                 /\ s.version = r.version /\ s.type = r.type /\ ~s.valid
                 /\ s.parent = r.parent /\ s.by = r.by /\ s.key = r.key
  <2>1. [r EXCEPT !.valid = FALSE] \in rows'[n]
    BY <1>4 DEF S
  <2> QED
    BY <1>2, <2>1
<1>7. ASSUME NEW s \in rows'[n] \ {new}
      PROVE  \E r \in rows[n] :
                 /\ s = [r EXCEPT !.valid = FALSE]
                 /\ s.version = r.version /\ s.type = r.type /\ ~s.valid
                 /\ s.parent = r.parent /\ s.by = r.by /\ s.key = r.key
  <2>1. PICK r \in rows[n] : s = [r EXCEPT !.valid = FALSE]
    BY <1>4 DEF S
  <2> QED
    BY <1>2, <2>1
<1>8. new \in rows'[n]
  BY <1>4
<1> QED
  BY <1>4, <1>5, <1>6, <1>7, <1>8

LEMMA GrowVersions ==
    ASSUME SecretTypeOK, VersionsInv, NEW n \in Name, NEW new, Grow(n, new)
    PROVE  /\ VersionsInv'
           /\ LastVersion(n)' = LastVersion(n) + 1
           /\ \A m \in Name \ {n} : LastVersion(m)' = LastVersion(m)
<1>1. new.version = LastVersion(n) + 1 /\ new.valid /\ LastVersion(n) \in Nat
  BY DEF Grow, VersionsInv
<1>2. \A r \in rows'[n] : r.version \in 1..(LastVersion(n) + 1)
  BY <1>1, GrowRows DEF VersionsInv
<1>3. \A v \in 1..(LastVersion(n) + 1) : \E r \in rows'[n] : r.version = v
  <2>1. \A v \in 1..LastVersion(n) : \E r \in rows[n] : r.version = v
    BY DEF VersionsInv
  <2>2. \A v \in 1..(LastVersion(n) + 1) : v \in 1..LastVersion(n) \/ v = new.version
    BY <1>1
  <2> QED
    BY <2>1, <2>2, GrowRows
<1>4. LastVersion(n)' = LastVersion(n) + 1
  <2>1. LastVersion(n) + 1 \in Nat
    BY <1>1
  <2> QED
    BY <1>2, <1>3, <2>1, LastFact DEF LastVersion
<1>5. \A m \in Name \ {n} : LastVersion(m)' = LastVersion(m)
  BY GrowRows DEF LastVersion
<1>6. \A r, s \in rows'[n] : r.version = s.version => r = s
  <2>1. \A s \in rows'[n] \ {new} : s.version # new.version
    BY <1>1, GrowRows DEF VersionsInv
  <2>2. ASSUME NEW r \in rows'[n] \ {new}, NEW s \in rows'[n] \ {new}, r.version = s.version
        PROVE  r = s
    <3>1. PICK q \in rows[n] : r = [q EXCEPT !.valid = FALSE] /\ r.version = q.version
      BY GrowRows
    <3>2. PICK t \in rows[n] : s = [t EXCEPT !.valid = FALSE] /\ s.version = t.version
      BY GrowRows
    <3>3. q = t
      BY <2>2, <3>1, <3>2 DEF VersionsInv
    <3> QED
      BY <3>1, <3>2, <3>3
  <2> QED
    BY <2>1, <2>2
<1>7. \A r \in rows'[n] : r.valid <=> r.version = LastVersion(n) + 1
  <2>1. \A r \in rows'[n] \ {new} : ~r.valid /\ r.version # LastVersion(n) + 1
    BY <1>1, GrowRows DEF VersionsInv
  <2> QED
    BY <1>1, <2>1
<1>8. \A m \in Name :
        /\ LastVersion(m)' \in Nat
        /\ \A r \in rows'[m] : r.version \in 1..LastVersion(m)'
        /\ \A v \in 1..LastVersion(m)' : \E r \in rows'[m] : r.version = v
        /\ \A r, s \in rows'[m] : r.version = s.version => r = s
        /\ \A r \in rows'[m] : r.valid <=> r.version = LastVersion(m)'
  <2>1. TAKE m \in Name
  <2>2. CASE m = n
    BY <1>1, <1>2, <1>3, <1>4, <1>6, <1>7, <2>2
  <2>3. CASE m # n
    BY <1>5, <2>3, GrowRows DEF VersionsInv
  <2> QED
    BY <2>2, <2>3
<1> QED
  BY <1>4, <1>5, <1>8 DEF VersionsInv

\* References to rows that are there stay good.
LEMMA GrowReferences ==
    ASSUME SecretTypeOK, VersionsInv, NEW n \in Name, NEW new, Grow(n, new)
    PROVE  /\ \A names \in SUBSET Name : \A ref : IsKey(names, ref) => IsKey(names, ref)'
           /\ \A p, b : Issued(p, b) => Issued(p, b)'
<1>1. \A ref : ref[1] \in Name /\ Exists(ref) => Exists(ref)'
  BY GrowRows DEF Exists
<1>2. \A names \in SUBSET Name : \A ref : IsKey(names, ref) => IsKey(names, ref)'
  BY <1>1 DEF IsKey
<1>3. ASSUME NEW p, NEW b, Issued(p, b)
      PROVE  Issued(p, b)'
  <2>1. IsKey(CAName, p)' /\ p[1] \in Name /\ Exists(p)
    BY <1>2, <1>3 DEF Issued, IsKey, Name, Cert
  <2>2. p[2] # LastVersion(p[1]) + 1
    BY <2>1 DEF Exists, VersionsInv
  <2>3. ASSUME NEW s \in rows'[p[1]], s.version = p[2] PROVE s.key = b
    <3>1. CASE p[1] # n
      BY <1>3, <2>1, <2>3, <3>1, GrowRows DEF Issued
    <3>2. CASE p[1] = n
      <4>1. s # new
        BY <2>2, <2>3, <3>2 DEF Grow
      <4> QED
        BY <1>3, <2>3, <3>2, <4>1, GrowRows DEF Issued
    <3> QED
      BY <3>1, <3>2
  <2> QED
    BY <2>1, <2>3 DEF Issued
<1> QED
  BY <1>2, <1>3

\* What a new row refers to.
Referring(n, new) ==
    /\ n \in Level2Name => new.parent = new.by /\ IsKey(Level1Name, new.parent)
    /\ n \in CAName => IsKey(Level2Name, new.key)
    /\ n \in CertName => Issued(new.parent, new.by) /\ IsKey(Level2Name, new.by)

LEMMA GrowRowsInv ==
    ASSUME SecretTypeOK, RowsInv, NEW n \in Name, NEW new,
           Grow(n, new), Typed(n, new), Referring(n, new)
    PROVE  RowsInv'
<1>. SecretTypeOK /\ VersionsInv /\ TypesInv /\ KeyRowsInv /\ CertRowsInv
  BY DEF RowsInv
<1>0. /\ Level1Name \in SUBSET Name /\ Level2Name \in SUBSET Name
      /\ CAName \in SUBSET Name /\ CertName \in SUBSET Name
  BY DEF Name, Secret, Cert
<1>1. VersionsInv'
  BY GrowVersions
<1>2. TypesInv'
  <2>1. \A r \in rows'[n] : r.type = new.type
    BY GrowRows DEF Typed
  <2>2. \A m \in Name \ {n} : rows'[m] = rows[m]
    BY GrowRows
  <2> QED
    BY <2>1, <2>2 DEF TypesInv, Typed
<1>3. ASSUME NEW m \in Level2Name, NEW s \in rows'[m]
      PROVE  s.parent = s.by /\ IsKey(Level1Name, s.parent)'
  <2>1. \E r \in rows[m] \cup {new} :
          /\ s.parent = r.parent /\ s.by = r.by
          /\ r.parent = r.by /\ IsKey(Level1Name, r.parent)
    <3>1. CASE m = n /\ s = new
      BY <3>1 DEF Referring
    <3>2. CASE m = n /\ s # new
      BY <3>2, GrowRows DEF KeyRowsInv
    <3>3. CASE m # n
      BY <1>0, <3>3, GrowRows DEF KeyRowsInv
    <3> QED
      BY <3>1, <3>2, <3>3
  <2> QED
    BY <1>0, <2>1, GrowReferences
<1>4. ASSUME NEW m \in CAName, NEW s \in rows'[m]
      PROVE  IsKey(Level2Name, s.key)'
  <2>1. IsKey(Level2Name, s.key)
    <3>1. CASE m = n /\ s = new
      BY <3>1 DEF Referring
    <3>2. CASE m = n /\ s # new
      BY <3>2, GrowRows DEF CertRowsInv
    <3>3. CASE m # n
      BY <1>0, <3>3, GrowRows DEF CertRowsInv
    <3> QED
      BY <3>1, <3>2, <3>3
  <2> QED
    BY <1>0, <2>1, GrowReferences
<1>5. ASSUME NEW m \in CertName, NEW s \in rows'[m]
      PROVE  Issued(s.parent, s.by)' /\ IsKey(Level2Name, s.by)'
  <2>1. Issued(s.parent, s.by) /\ IsKey(Level2Name, s.by)
    <3>1. CASE m = n /\ s = new
      BY <3>1 DEF Referring
    <3>2. CASE m = n /\ s # new
      <4>1. PICK r \in rows[m] : s.parent = r.parent /\ s.by = r.by
        BY <3>2, GrowRows
      <4> QED
        BY <4>1 DEF CertRowsInv
    <3>3. CASE m # n
      BY <1>0, <3>3, GrowRows DEF CertRowsInv
    <3> QED
      BY <3>1, <3>2, <3>3
  <2> QED
    BY <1>0, <2>1, GrowReferences
<1>6. KeyRowsInv' /\ CertRowsInv'
  BY <1>3, <1>4, <1>5 DEF KeyRowsInv, CertRowsInv
<1> QED
  BY <1>1, <1>2, <1>6 DEF RowsInv

\* The next version of a name does not disturb the calls that are under way,
\* unless one of them holds a row of the name that is not yet committed.
LEMMA GrowCall ==
    ASSUME SecretInv, NEW n \in Name, NEW new, Grow(n, new), Typed(n, new),
           NEW d \in Caller, call'[d] = call[d], ~(Pending(d) /\ call[d].name = n)
    PROVE  CallInv(d)'
<1>. DEFINE m == call[d].name
<1>1. /\ SecretTypeOK /\ VersionsInv /\ TypesInv /\ CallInv(d)
      /\ m \in Name /\ call[d].next \in Nat
      /\ LastVersion(m) \in Nat
  BY DEF SecretInv, RowsInv, SecretTypeOK, Call, VersionsInv
<1>2. LastVersion(m)' = IF m = n THEN LastVersion(m) + 1 ELSE LastVersion(m)
  BY <1>1, GrowVersions
<1>3. NameInv(d)'
  BY <1>1 DEF CallInv, NameInv, IsCert
<1>4. NumberInv(d)'
  <2>1. LastVersion(m) <= LastVersion(m)' /\ LastVersion(m)' \in Nat
    BY <1>1, <1>2
  <2>2. Pending(d) => LastVersion(m)' = LastVersion(m)
    BY <1>2
  <2>. HIDE DEF m
  <2>3. call'[d].name = m
    BY DEF m
  <2> QED
    BY <1>1, <2>1, <2>2, <2>3 DEF CallInv, NumberInv, Numbered, Pending, IsCert, m
<1>5. ASSUME Numbered(d), call[d].next > 1, NEW s \in rows'[m]
      PROVE  s.type = call[d].type
  <2>1. \A r \in rows[m] : r.type = call[d].type
    BY <1>1, <1>5 DEF CallInv, KindInv
  <2>2. CASE m # n
    BY <1>1, <2>1, <2>2, GrowRows
  <2>3. CASE m = n
    <3>1. 1 \in 1..LastVersion(m)
      BY <1>1, <1>5 DEF CallInv, NumberInv
    <3>2. PICK r \in rows[n] : r.type = call[d].type
      BY <1>1, <2>1, <2>3, <3>1 DEF VersionsInv
    <3>3. new.type = call[d].type
      BY <3>2 DEF Typed
    <3> QED
      BY <1>1, <2>1, <2>3, <3>3, GrowRows
  <2> QED
    BY <2>2, <2>3
<1>6. KindInv(d)'
  BY <1>1, <1>5 DEF CallInv, KindInv, Numbered
<1>7. /\ Level1Name \in SUBSET Name /\ Level2Name \in SUBSET Name
  BY DEF Name, Secret
<1>8. ReferenceInv(d)'
  <2>1. /\ \A ref : IsKey(Level1Name, ref) => IsKey(Level1Name, ref)'
        /\ \A ref : IsKey(Level2Name, ref) => IsKey(Level2Name, ref)'
        /\ \A p, b : Issued(p, b) => Issued(p, b)'
    BY <1>1, <1>7, GrowReferences
  <2> QED
    BY <1>1, <2>1 DEF CallInv, ReferenceInv
<1> QED
  BY <1>3, <1>4, <1>6, <1>8 DEF CallInv

\* A call that adds the next version of a name and ends.
LEMMA GrowInv ==
    ASSUME SecretInv, NEW c \in Caller, NEW n \in Name, NEW new,
           Grow(n, new), Typed(n, new), Referring(n, new),
           n = TokenName => rows[n] = {},
           \A d \in Caller \ {c} : ~(Pending(d) /\ call[d].name = n),
           NEW x \in Call, call' = [call EXCEPT ![c] = x], CallInv(c)', ~Pending(c)',
           Unsealed(c)' => Unsealed(c) \/ \E r \in rows'[TokenName] : Opens(c, r)
    PROVE  SecretInv'
<1>1. SecretTypeOK /\ RowsInv /\ VersionsInv
  BY DEF SecretInv, RowsInv
<1>2. \A d \in Caller \ {c} : call'[d] = call[d]
  BY <1>1 DEF SecretTypeOK
<1>3. SecretTypeOK'
  BY <1>1, GrowRows DEF SecretTypeOK
<1>4. RowsInv'
  BY <1>1, GrowRowsInv
<1>5. \A d \in Caller : CallInv(d)'
  BY <1>2, GrowCall
<1>6. PendingApart'
  BY <1>2 DEF SecretInv, PendingApart, Pending, IsCert
<1>7. UnsealedOpensToken'
  <2>1. rows[TokenName] # {} => rows'[TokenName] = rows[TokenName]
    BY <1>1, GrowRows DEF Name
  <2>2. \A d \in Caller : Unsealed(d) => \E r \in rows'[TokenName] : Opens(d, r)
    BY <2>1 DEF SecretInv, UnsealedOpensToken
  <2>3. \A d \in Caller \ {c} : Unsealed(d)' => Unsealed(d)
    BY <1>2 DEF Unsealed
  <2> QED
    BY <2>2, <2>3 DEF UnsealedOpensToken
<1> QED
  BY <1>3, <1>4, <1>5, <1>6, <1>7 DEF SecretInv

-----------------------------------------------------------------------------
LEMMA GoodInv ==
    ASSUME SecretInv, NEW c \in Caller, Good(c)
    PROVE  SecretInv'
<1>1. SecretTypeOK
  BY DEF SecretInv
<1>2. rows' = rows /\ \A d \in Caller \ {c} : call'[d] = call[d]
  BY <1>1 DEF Good, SecretTypeOK
<1>3. SecretTypeOK'
  BY <1>1 DEF Good, SecretTypeOK
<1>4. RowsInv'
  BY <1>2 DEF SecretInv, RowsInv, VersionsInv, TypesInv, KeyRowsInv, CertRowsInv, Issued,
              IsKey, Exists, LastVersion
<1>5. ASSUME NEW d \in Caller \ {c} PROVE CallInv(d)'
  <2>1. CallInv(d) /\ call'[d] = call[d]
    BY <1>2 DEF SecretInv
  <2>2. NameInv(d)' /\ NumberInv(d)' /\ KindInv(d)'
    BY <1>2, <2>1 DEF CallInv, NameInv, NumberInv, KindInv, Numbered, Pending, IsCert,
                      LastVersion
  <2>3. ReferenceInv(d)'
    BY <1>2, <2>1 DEF CallInv, ReferenceInv, Issued, IsKey, Exists
  <2> QED
    BY <2>2, <2>3 DEF CallInv
<1>6. PendingApart'
  <2>1. \A d \in Caller \ {c} : Pending(d)' => Pending(d)
    BY <1>2 DEF Pending, IsCert
  <2> QED
    BY <1>1, <1>2, <2>1 DEF Good, SecretInv, PendingApart
<1>7. UnsealedOpensToken'
  <2>1. \A d \in Caller \ {c} : Unsealed(d)' => Unsealed(d)
    BY <1>2 DEF Unsealed
  <2> QED
    BY <1>1, <1>2, <2>1 DEF Good, SecretInv, UnsealedOpensToken
<1> QED
  BY <1>1, <1>3, <1>4, <1>5, <1>6, <1>7 DEF Good, SecretInv

\* The token is the first version of its name.
LEMMA TokenGrows ==
    ASSUME SecretInv, NEW c \in Caller, WriteToken(c), rows[TokenName] = {}
    PROVE  /\ Grow(TokenName, TokenRow(c)) /\ Typed(TokenName, TokenRow(c))
           /\ Referring(TokenName, TokenRow(c)) /\ TokenName \in Name
           /\ call' = [call EXCEPT ![c] = Idle] /\ Opens(c, TokenRow(c))
<1>1. PICK k \in Provider[c] : k \in Nat /\ Sealer(c) = <<UnsealName, k>>
  BY SealerFact
<1>2. TokenRow(c) \in Row /\ Opens(c, TokenRow(c))
  BY <1>1 DEF TokenRow, Row, Ref, Opens
<1>3. LastVersion(TokenName) = 0
  BY DEF LastVersion
<1>4. /\ rows' = [rows EXCEPT ![TokenName] = {TokenRow(c)}]
      /\ call' = [call EXCEPT ![c] = Idle]
  BY DEF WriteToken
<1>5. Grow(TokenName, TokenRow(c))
  <2>1. {[r EXCEPT !.valid = FALSE] : r \in rows[TokenName]} \cup {TokenRow(c)} = {TokenRow(c)}
    OBVIOUS
  <2>2. TokenRow(c).valid /\ TokenRow(c).version = LastVersion(TokenName) + 1
    BY <1>3 DEF TokenRow
  <2> QED
    BY <1>2, <1>4, <2>1, <2>2 DEF Grow
<1> QED
  BY <1>2, <1>4, <1>5, NamesAssumption DEF Typed, Referring, Secret, Cert, Name

\* A committed transaction adds the next version and retires every other one.
LEMMA CommitGrows ==
    ASSUME SecretInv, NEW c \in Caller, Commit(c)
    PROVE  LET n == call[c].name IN
           /\ Grow(n, NewRow(c)) /\ Typed(n, NewRow(c)) /\ Referring(n, NewRow(c))
           /\ n \in Name \ {TokenName} /\ Pending(c)
<1>. DEFINE n == call[c].name
            next == call[c].next
<1>1. /\ SecretTypeOK /\ VersionsInv /\ TypesInv /\ CallInv(c) /\ call[c] \in Call
      /\ n \in Name /\ next \in Nat /\ LastVersion(n) \in Nat
      /\ call[c].pc = "commit" /\ Pending(c)
  BY DEF SecretInv, RowsInv, SecretTypeOK, Call, Commit, VersionsInv, Pending
<1>2. /\ next = LastVersion(n) + 1
      /\ \A v \in 1..(next - 1) : v \in call[c].old
  BY <1>1 DEF CallInv, NumberInv
<1>3. \A r \in rows[n] : r.version \in call[c].old
  BY <1>1, <1>2 DEF VersionsInv
<1>4. \A r \in rows[n] : Kept(c, r) = [r EXCEPT !.valid = FALSE]
  BY <1>3 DEF Kept
<1>5. /\ NewRow(c) \in Row /\ NewRow(c).valid /\ NewRow(c).version = next
      /\ NewRow(c).type = call[c].type /\ NewRow(c).parent = call[c].parent
      /\ NewRow(c).by = call[c].by /\ NewRow(c).key = call[c].key
  BY <1>1 DEF NewRow, Row, Call
<1>6. Grow(n, NewRow(c))
  <2>1. {Kept(c, r) : r \in rows[n]} = {[r EXCEPT !.valid = FALSE] : r \in rows[n]}
    BY <1>4
  <2>2. rows' = [rows EXCEPT ![n] = {Kept(c, r) : r \in rows[n]} \cup {NewRow(c)}]
    BY DEF Commit
  <2> QED
    BY <1>2, <1>5, <2>1, <2>2 DEF Grow
<1>7. Typed(n, NewRow(c))
  <2>1. CASE next > 1
    BY <1>1, <1>5, <2>1 DEF CallInv, KindInv, Numbered, Typed
  <2>2. CASE ~(next > 1)
    <3>1. rows[n] = {}
      BY <1>1, <1>2, <2>2 DEF VersionsInv
    <3> QED
      BY <1>1, <1>5, <3>1 DEF CallInv, KindInv, Typed
  <2> QED
    BY <2>1, <2>2
<1>8. Referring(n, NewRow(c))
  BY <1>1, <1>5 DEF CallInv, ReferenceInv, Referring
<1>9. n # TokenName
  BY <1>1 DEF CallInv, NameInv
<1> QED
  BY <1>1, <1>6, <1>7, <1>8, <1>9

LEMMA WritingInv ==
    ASSUME SecretInv, NEW c \in Caller, WriteToken(c) \/ Commit(c)
    PROVE  SecretInv'
<1>1. SecretTypeOK
  BY DEF SecretInv
<1>2. CASE WriteToken(c) /\ rows[TokenName] = {}
  <2>1. Idle \in Call /\ call' = [call EXCEPT ![c] = Idle] /\ call'[c] = Idle
    BY <1>1, <1>2, TokenGrows DEF Idle, Call, Name, SecretTypeOK
  <2>2. Idle.pc = "idle" /\ Idle.name = TokenName
    BY DEF Idle
  <2>3. CallInv(c)' /\ ~Pending(c)'
    BY <2>1, <2>2, NamesAssumption
       DEF CallInv, NameInv, NumberInv, KindInv, ReferenceInv, Numbered, Pending, Secret, Cert
  <2>4. TokenRow(c) \in rows'[TokenName] /\ Opens(c, TokenRow(c))
    BY <1>1, <1>2, TokenGrows DEF WriteToken, SecretTypeOK
  <2>5. \A d \in Caller : ~(Pending(d) /\ call[d].name = TokenName)
    BY DEF SecretInv, CallInv, NameInv, Pending
  <2> QED
    BY <1>2, <2>1, <2>3, <2>4, <2>5, TokenGrows, GrowInv
<1>3. CASE WriteToken(c) /\ rows[TokenName] # {}
  <2>1. Return(c) /\ UNCHANGED rows
    BY <1>3 DEF WriteToken
  <2> QED
    BY <1>1, <2>1, OverGood, GoodInv
<1>4. CASE Commit(c)
  <2>1. Return(c)
    BY <1>4 DEF Commit
  <2>2. PICK x \in Call : call' = [call EXCEPT ![c] = x]
    BY <1>1, <2>1, OverFact DEF Return, SecretTypeOK
  <2>3. \A d \in Caller \ {c} : ~(Pending(d) /\ call[d].name = call[c].name)
    BY <1>4, CommitGrows DEF SecretInv, PendingApart
  <2> QED
    BY <1>1, <1>4, <2>1, <2>2, <2>3, OverFact, CommitGrows, GrowInv
<1> QED
  BY <1>2, <1>3, <1>4

-----------------------------------------------------------------------------
LEMMA SecretStepInv == SecretInv /\ [SecretNext]_secretVars => SecretInv'
<1> SUFFICES ASSUME SecretInv, [SecretNext]_secretVars PROVE SecretInv'
  OBVIOUS
<1>1. ASSUME NEW c \in Caller, ReadToken(c) \/ Begin(c) \/ Proceed(c) \/ Abort(c) \/ Crash(c)
      PROVE  SecretInv'
  <2>1. CASE WriteToken(c) \/ Commit(c)
    BY <2>1, WritingInv
  <2>2. CASE Reading(c)
    BY <2>2, ReadingGood, GoodInv
  <2> QED
    BY <1>1, <2>1, <2>2 DEF Proceed, Reading
<1>2. CASE UNCHANGED secretVars
  <2>1. rows' = rows /\ call' = call
    BY <1>2 DEF secretVars
  <2>2. SecretTypeOK' /\ UnsealedOpensToken' /\ PendingApart'
    BY <2>1 DEF SecretInv, SecretTypeOK, UnsealedOpensToken, PendingApart, Pending, IsCert,
                Unsealed
  <2>3. RowsInv'
    BY <2>1 DEF SecretInv, RowsInv, VersionsInv, TypesInv, KeyRowsInv, CertRowsInv, Issued,
                IsKey, Exists, LastVersion
  <2>4. ASSUME NEW c \in Caller PROVE CallInv(c)'
    BY <2>1 DEF SecretInv, CallInv, NameInv, NumberInv, KindInv, ReferenceInv, Numbered,
                Pending, IsCert, LastVersion, Issued, IsKey, Exists
  <2> QED
    BY <2>2, <2>3, <2>4 DEF SecretInv
<1> QED
  BY <1>1, <1>2 DEF SecretNext

\* The inductive invariant of the secret store.
THEOREM SecretInvariant == SecretSpec => []SecretInv
<1> QED
  BY SecretInitInv, SecretStepInv, PTL DEF SecretSpec

\* The rows and the calls keep their types.
THEOREM SecretTypes == SecretSpec => []SecretTypeOK
<1>1. SecretInv => SecretTypeOK
  BY DEF SecretInv
<1> QED
  BY <1>1, SecretInvariant, PTL

\* The row of a reference is the only one of its version.
LEMMA AtFact ==
    ASSUME VersionsInv, NEW ref, ref[1] \in Name, Exists(ref)
    PROVE  /\ At(ref) \in rows[ref[1]] /\ At(ref).version = ref[2]
           /\ \A r \in rows[ref[1]] : r.version = ref[2] => At(ref) = r
  BY DEF Exists, At, VersionsInv

\* Every level 2 key can be decrypted with the level 1 key that it names.
THEOREM KeysOpen == SecretSpec => []EveryKeyOpens
<1>1. SecretInv => EveryKeyOpens
  BY DEF SecretInv, RowsInv, KeyRowsInv, IsKey, EveryKeyOpens
<1> QED
  BY <1>1, SecretInvariant, PTL

\* Every certificate is signed with the key of the issuer that it names, and
\* both are in the store, also when either is rotated at the same time.
THEOREM CertificatesIssued == SecretSpec => []IssuedByCA
<1>1. ASSUME SecretInv, NEW n \in CertName, NEW r \in rows[n]
      PROVE  Exists(r.parent) /\ At(r.parent).key = r.by /\ Exists(r.by)
  <2>1. Issued(r.parent, r.by) /\ IsKey(Level2Name, r.by) /\ VersionsInv
    BY <1>1 DEF SecretInv, RowsInv, CertRowsInv
  <2>2. r.parent[1] \in Name /\ Exists(r.parent)
    BY <2>1 DEF Issued, IsKey, Name, Cert
  <2> QED
    BY <2>1, <2>2, AtFact DEF Issued, IsKey
<1>2. SecretInv => IssuedByCA
  BY <1>1 DEF IssuedByCA
<1> QED
  BY <1>2, SecretInvariant, PTL

\* However many processes initialize a store, one that goes on to serve can
\* decrypt the token that is in it.
THEOREM UnsealedProcesses == SecretSpec => []UnsealedOpensToken
<1>1. SecretInv => UnsealedOpensToken
  BY DEF SecretInv
<1> QED
  BY <1>1, SecretInvariant, PTL

-----------------------------------------------------------------------------
Element == [kind : KeyType \cup {None}, valid : BOOLEAN]

\* The ring of a name holds its rows.
VersionsRead ==
    \A n \in Name :
        /\ Versions(n) \in Seq(Element) /\ Len(Versions(n)) = LastVersion(n)
        /\ \A r \in rows[n] : Versions(n)[r.version] = [kind |-> r.type, valid |-> r.valid]

ReadInv == rows \in [Name -> SUBSET Row] /\ VersionsInv

LEMMA VersionsFact == ReadInv => VersionsRead
<1> SUFFICES ASSUME ReadInv, NEW n \in Name
             PROVE  /\ Versions(n) \in Seq(Element) /\ Len(Versions(n)) = LastVersion(n)
                    /\ \A r \in rows[n] :
                          Versions(n)[r.version] = [kind |-> r.type, valid |-> r.valid]
  BY DEF VersionsRead
<1>. rows \in [Name -> SUBSET Row] /\ VersionsInv
  BY DEF ReadInv
<1>1. LastVersion(n) \in Nat
  BY DEF VersionsInv
<1>2. ASSUME NEW v \in 1..LastVersion(n)
      PROVE  At(<<n, v>>) \in Row /\ \A r \in rows[n] : r.version = v => At(<<n, v>>) = r
  <2>1. Exists(<<n, v>>) /\ <<n, v>>[1] = n /\ <<n, v>>[2] = v
    BY DEF Exists, VersionsInv
  <2> QED
    BY <2>1, AtFact
<1>3. \A v \in 1..LastVersion(n) :
        [kind |-> At(<<n, v>>).type, valid |-> At(<<n, v>>).valid] \in Element
  BY <1>2 DEF Row, Element
<1>4. Versions(n) \in [1..LastVersion(n) -> Element]
  BY <1>3 DEF Versions
<1>5. Versions(n) \in Seq(Element) /\ Len(Versions(n)) = LastVersion(n)
  BY <1>1, <1>4
<1>6. ASSUME NEW r \in rows[n]
      PROVE  Versions(n)[r.version] = [kind |-> r.type, valid |-> r.valid]
  <2>1. r.version \in 1..LastVersion(n)
    BY DEF VersionsInv
  <2>2. At(<<n, r.version>>) = r
    BY <1>2, <2>1
  <2> QED
    BY <2>1, <2>2 DEF Versions
<1> QED
  BY <1>5, <1>6

\* An element of a ring that is retired.
LEMMA RetiredFact ==
    ASSUME NEW e \in Element
    PROVE  [e EXCEPT !.valid = FALSE] = [kind |-> e.kind, valid |-> FALSE]
<1>. DEFINE f == [e EXCEPT !.valid = FALSE]
<1>1. f \in Element /\ f.kind = e.kind /\ f.valid = FALSE
  BY DEF Element
<1>. HIDE DEF f
<1>2. f = [kind |-> e.kind, valid |-> FALSE]
  BY <1>1 DEF Element
<1> QED
  BY <1>2 DEF f

\* The rows that a commit leaves are the ring of the abstract specification, rotated.
LEMMA GrowRotates ==
    ASSUME SecretTypeOK, VersionsInv, NEW n \in Name, NEW new,
           Grow(n, new), Typed(n, new)
    PROVE  Ring!Rotate(n, new.type) /\ new.type \in KeyType \cup {None}
<1>. DEFINE ring == [m \in Name |-> Versions(m)]
            last == LastVersion(n)
            element == [kind |-> new.type, valid |-> TRUE]
            retired == [v \in 1..last |-> [kind |-> new.type, valid |-> FALSE]]
<1>1. /\ new \in Row /\ new.version = last + 1 /\ new.valid = TRUE /\ last \in Nat
      /\ new.type \in KeyType \cup {None}
  BY DEF Grow, Row, VersionsInv
<1>2. LastVersion(n)' = last + 1 /\ \A m \in Name \ {n} : LastVersion(m)' = LastVersion(m)
  BY GrowVersions
<1>3. \A m \in Name \ {n} : rows'[m] = rows[m]
  BY GrowRows
<1>4. VersionsRead
  BY VersionsFact DEF ReadInv, SecretTypeOK
<1>5. VersionsRead'
  <2>1. ReadInv' => VersionsRead'
    BY VersionsFact, PTL
  <2>2. rows' \in [Name -> SUBSET Row]
    BY GrowRows
  <2>3. VersionsInv'
    BY GrowVersions
  <2> QED
    BY <2>1, <2>2, <2>3 DEF ReadInv
<1>6. /\ Versions(n) \in Seq(Element) /\ Len(Versions(n)) = last
      /\ \A r \in rows[n] : Versions(n)[r.version] = [kind |-> r.type, valid |-> r.valid]
  BY <1>4 DEF VersionsRead
<1>7. /\ Versions(n)' \in Seq(Element) /\ Len(Versions(n)') = last + 1
      /\ \A r \in rows'[n] : Versions(n)'[r.version] = [kind |-> r.type, valid |-> r.valid]
  BY <1>2, <1>5 DEF VersionsRead
<1>8. ASSUME NEW v \in 1..last
      PROVE  /\ Versions(n)[v] \in Element /\ Versions(n)[v].kind = new.type
             /\ Versions(n)'[v] = [kind |-> new.type, valid |-> FALSE]
  <2>1. PICK r \in rows[n] : r.version = v
    BY DEF VersionsInv
  <2>2. r.type = new.type /\ r.valid \in BOOLEAN
    BY DEF Typed, SecretTypeOK, Row
  <2>3. PICK s \in rows'[n] : s.version = v /\ s.type = new.type /\ ~s.valid
    BY <2>1, <2>2, GrowRows
  <2>4. s.valid = FALSE
    <3>1. s \in Row
      BY GrowRows
    <3> QED
      BY <2>3, <3>1 DEF Row
  <2>5. Versions(n)[v] \in Element /\ Versions(n)[v].kind = new.type
    <3>1. Versions(n)[v] = [kind |-> new.type, valid |-> r.valid]
      BY <1>6, <2>1, <2>2
    <3> QED
      BY <1>1, <2>2, <3>1 DEF Element
  <2>6. Versions(n)'[v] = [kind |-> new.type, valid |-> FALSE]
    BY <1>7, <2>3, <2>4
  <2> QED
    BY <2>2, <2>5, <2>6
<1>9. Versions(n)'[last + 1] = element
  <2>1. new \in rows'[n]
    BY GrowRows
  <2> QED
    BY <1>1, <1>7, <2>1
<1>10. Versions(n)' = Append(Ring!Retired(Versions(n)), element)
  <2>1. Ring!Retired(Versions(n)) = retired
    <3>1. DOMAIN Versions(n) = 1..last
      BY <1>6
    <3>2. \A v \in 1..last : [Versions(n)[v] EXCEPT !.valid = FALSE]
                             = [kind |-> new.type, valid |-> FALSE]
      BY <1>8, RetiredFact
    <3> QED
      BY <3>1, <3>2 DEF Ring!Retired
  <2>2. retired \in Seq(Element) /\ Len(retired) = last
    <3>1. [kind |-> new.type, valid |-> FALSE] \in Element
      BY <1>1 DEF Element
    <3>2. retired \in [1..last -> Element]
      BY <3>1
    <3>. HIDE DEF retired
    <3> QED
      BY <1>1, <3>2
  <2>3. element \in Element
    BY <1>1 DEF Element
  <2>. HIDE DEF retired, element, last
  <2>4. \A v \in 1..last : Versions(n)'[v] = retired[v]
    BY <1>8 DEF retired
  <2> QED
    BY <1>1, <1>7, <1>9, <2>1, <2>2, <2>3, <2>4
<1>11. \A m \in Name \ {n} : Versions(m)' = Versions(m)
  <2>1. ASSUME NEW m \in Name \ {n} PROVE Versions(m)' = Versions(m)
    <3>1. rows'[m] = rows[m] /\ LastVersion(m)' = LastVersion(m)
      BY <1>2, <1>3
    <3>2. \A v : At(<<m, v>>)' = At(<<m, v>>)
      BY <3>1 DEF At
    <3> QED
      BY <3>1, <3>2 DEF Versions
  <2> QED
    BY <2>1
<1>12. ring' = [ring EXCEPT ![n] = Append(Ring!Retired(@), element)]
  BY <1>10, <1>11
<1>13. ring[n] # <<>> => ring[n][1].kind = new.type
  <2>1. Versions(n) # <<>> => 1 \in 1..last
    BY <1>1, <1>6
  <2>2. 1 \in 1..last => Versions(n)[1].kind = new.type
    BY <1>8
  <2>. HIDE DEF last
  <2> QED
    BY <2>1, <2>2
<1> QED
  BY <1>1, <1>12, <1>13 DEF Ring!Rotate

LEMMA RotationStart == SecretInit => Ring!RotationInit
<1> SUFFICES ASSUME SecretInit, NEW n \in Name PROVE Versions(n) = <<>>
  BY DEF Ring!RotationInit
<1>1. LastVersion(n) = 0
  BY DEF SecretInit, LastVersion
<1> QED
  BY <1>1 DEF Versions

LEMMA RotationStep ==
    SecretInv /\ [SecretNext]_secretVars =>
        [Ring!RotationNext]_([n \in Name |-> Versions(n)])
<1> SUFFICES ASSUME SecretInv, [SecretNext]_secretVars
             PROVE  [Ring!RotationNext]_([n \in Name |-> Versions(n)])
  OBVIOUS
<1>. SecretTypeOK /\ VersionsInv
  BY DEF SecretInv, RowsInv
<1>1. ASSUME rows' = rows
      PROVE  UNCHANGED [n \in Name |-> Versions(n)]
  BY <1>1 DEF Versions, LastVersion, At
<1>2. ASSUME NEW n \in Name, NEW new, Grow(n, new), Typed(n, new)
      PROVE  Ring!RotationNext
  BY <1>2, GrowRotates DEF Ring!RotationNext
<1>3. ASSUME NEW c \in Caller, ReadToken(c) \/ Begin(c) \/ Proceed(c) \/ Abort(c) \/ Crash(c)
      PROVE  rows' = rows \/ Ring!RotationNext
  <2>1. CASE WriteToken(c)
    BY <1>2, <2>1, TokenGrows DEF WriteToken
  <2>2. CASE Commit(c)
    BY <1>2, <2>2, CommitGrows
  <2>3. CASE Reading(c)
    BY <2>3, ReadingGood DEF Good
  <2> QED
    BY <1>3, <2>1, <2>2, <2>3 DEF Proceed, Reading
<1>4. CASE UNCHANGED secretVars
  BY <1>1, <1>4 DEF secretVars
<1> QED
  BY <1>1, <1>3, <1>4 DEF SecretNext

\* The statements of a transaction, interleaved with those of others, rotate
\* each name as if a rotation were one step.
THEOREM StoreRotates == SecretSpec => Rotations
<1> QED
  BY SecretInvariant, RotationStart, RotationStep, PTL
     DEF SecretSpec, Rotations, Ring!RotationSpec

-----------------------------------------------------------------------------
(* Waits in the database.                                                   *)

\* c's statement cannot go on before d's transaction has ended: for an entry of the
\* unique index, or for the lock of a row that d has retired.
WaitsFor(c, d) ==
    /\ call[d].name = call[c].name
    /\ \/ call[c].pc = "insert" /\ Pending(d) /\ call[d].next = call[c].next
       \/ call[c].pc = "archive" /\ c # d /\ call[d].old \cap Old(c) # {}

\* Transactions that rotate one name never wait in a circle, though keys take the
\* index entry first and certificates the row locks: whoever is waited for can go on,
\* or waits for one that can.
NoCircle ==
    \A c, d, e \in Caller : WaitsFor(c, d) /\ WaitsFor(d, e) => \A f \in Caller : ~WaitsFor(e, f)

\* Row locks are held after the update.
LocksInv ==
    \A c \in Caller : call[c].old # {} =>
        call[c].pc = "commit" \/ (call[c].pc = "insert" /\ IsCert(c))

LEMMA LocksInit == SecretInit => LocksInv
  BY DEF SecretInit, LocksInv, Sealed, Idle

\* The call that a step is about is new or over, goes on with what it holds, or holds
\* what its update has retired.
Holds(c) ==
    \/ call'[c].old = {}
    \/ /\ call'[c].old = call[c].old /\ call'[c].name = call[c].name
       /\ \/ call[c].pc \notin {"insert", "commit"}
          \/ call[c].pc = "insert" /\ call'[c].pc = IF IsCert(c) THEN "commit" ELSE "archive"
    \/ /\ call'[c].name = call[c].name
       /\ call'[c].pc = IF IsCert(c) THEN "insert" ELSE "commit"

LEMMA StepHolds ==
    ASSUME SecretTypeOK, NEW c \in Caller,
           ReadToken(c) \/ Begin(c) \/ Proceed(c) \/ Abort(c) \/ Crash(c)
    PROVE  Holds(c) /\ \A d \in Caller : d # c => call'[d] = call[d]
<1> DEFINE Goal == Holds(c) /\ \A d \in Caller : d # c => call'[d] = call[d]
<1>1. call \in [Caller -> Call]
  BY DEF SecretTypeOK
<1>2. Idle.old = {} /\ Sealed.old = {}
  BY DEF Idle, Sealed
<1>3. CASE Return(c) \/ Crash(c)
  BY <1>1, <1>2, <1>3 DEF Return, Crash, Holds
<1>4. ASSUME NEW q, call' = [call EXCEPT ![c] = q], q.old = call[c].old, q.name = call[c].name,
             call[c].pc \notin {"insert", "commit"}
      PROVE  Goal
  BY <1>1, <1>4 DEF Holds
<1>5. \A pc : /\ [call[c] EXCEPT !.pc = pc].old = call[c].old
              /\ [call[c] EXCEPT !.pc = pc].name = call[c].name
              /\ [call[c] EXCEPT !.pc = pc].pc = pc
  BY <1>1 DEF Call
<1>6. CASE ReadToken(c) \/ OpenKey(c)
  <2>1. CASE Return(c)
    BY <1>3, <2>1
  <2>2. CASE /\ call[c].pc \notin {"insert", "commit"}
             /\ \E pc : call' = [call EXCEPT ![c] = [call[c] EXCEPT !.pc = pc]]
    BY <1>4, <1>5, <2>2
  <2> QED
    BY <1>6, <2>1, <2>2 DEF ReadToken, OpenKey
<1>7. CASE WriteToken(c)
  BY <1>1, <1>2, <1>3, <1>7 DEF WriteToken, Holds
<1>8. CASE ReadVersion(c) \/ LoadLevel1(c) \/ LoadCAKey(c) \/ ReadCertVersion(c)
  <2>1. CASE Return(c)
    BY <1>3, <2>1
  <2>2. CASE call[c].pc = "version" /\
             \E n : call' = [call EXCEPT ![c] = [call[c] EXCEPT !.pc = "insert", !.next = n]]
    <3> PICK n : call' = [call EXCEPT ![c] = [call[c] EXCEPT !.pc = "insert", !.next = n]]
      BY <2>2
    <3> DEFINE q == [call[c] EXCEPT !.pc = "insert", !.next = n]
    <3>1. q.old = call[c].old /\ q.name = call[c].name
      BY <1>1 DEF Call
    <3> QED
      BY <1>4, <2>2, <3>1
  <2>3. CASE call[c].pc = "level1" /\
             \E r : call' = [call EXCEPT ![c] = [call[c] EXCEPT !.pc = "insert", !.parent = r, !.by = r]]
    <3> PICK r : call' = [call EXCEPT ![c] = [call[c] EXCEPT !.pc = "insert", !.parent = r, !.by = r]]
      BY <2>3
    <3> DEFINE q == [call[c] EXCEPT !.pc = "insert", !.parent = r, !.by = r]
    <3>1. q.old = call[c].old /\ q.name = call[c].name
      BY <1>1 DEF Call
    <3> QED
      BY <1>4, <2>3, <3>1
  <2>4. CASE call[c].pc = "key" /\
             \E r : call' = [call EXCEPT ![c] = [call[c] EXCEPT !.pc = "open", !.by = r]]
    <3> PICK r : call' = [call EXCEPT ![c] = [call[c] EXCEPT !.pc = "open", !.by = r]]
      BY <2>4
    <3> DEFINE q == [call[c] EXCEPT !.pc = "open", !.by = r]
    <3>1. q.old = call[c].old /\ q.name = call[c].name
      BY <1>1 DEF Call
    <3> QED
      BY <1>4, <2>4, <3>1
  <2>5. CASE call[c].pc = "read" /\
             \E n : call' = [call EXCEPT ![c] = [call[c] EXCEPT !.pc = "archive", !.next = n]]
    <3> PICK n : call' = [call EXCEPT ![c] = [call[c] EXCEPT !.pc = "archive", !.next = n]]
      BY <2>5
    <3> DEFINE q == [call[c] EXCEPT !.pc = "archive", !.next = n]
    <3>1. q.old = call[c].old /\ q.name = call[c].name
      BY <1>1 DEF Call
    <3> QED
      BY <1>4, <2>5, <3>1
  <2>6. CASE ReadVersion(c)
    BY <2>1, <2>2, <2>6 DEF ReadVersion
  <2>7. CASE LoadLevel1(c)
    BY <2>1, <2>3, <2>7 DEF LoadLevel1
  <2>8. CASE LoadCAKey(c)
    BY <2>1, <2>4, <2>8 DEF LoadCAKey
  <2>9. CASE ReadCertVersion(c)
    BY <2>5, <2>9 DEF ReadCertVersion
  <2> QED
    BY <1>8, <2>6, <2>7, <2>8, <2>9
<1>9. CASE Insert(c)
  <2>1. CASE Return(c)
    BY <1>3, <2>1
  <2>2. CASE call[c].pc = "insert" /\
             call' = [call EXCEPT ![c] = [call[c] EXCEPT !.pc = IF IsCert(c) THEN "commit" ELSE "archive"]]
    BY <1>1, <1>5, <2>2 DEF Holds
  <2> QED
    BY <1>9, <2>1, <2>2 DEF Insert
<1>10. CASE Archive(c)
  BY <1>1, <1>10 DEF Archive, Holds
<1>11. CASE Commit(c) \/ Abort(c)
  BY <1>3, <1>11 DEF Commit, Abort
<1>12. CASE Begin(c)
  <2>1. \A n \in Level1Name : StoreLevel1KeySet(c, n) => Holds(c) /\ \A d \in Caller : d # c => call'[d] = call[d]
    BY <1>1 DEF StoreLevel1KeySet, Holds, Idle
  <2>2. \A l \in Level1Name, n \in Level2Name :
          StoreLevel2KeySet(c, l, n) => Holds(c) /\ \A d \in Caller : d # c => call'[d] = call[d]
    BY <1>1 DEF StoreLevel2KeySet, Holds, Idle
  <2>3. \A l \in Level1Name, n \in Level2Name :
          KeyManageGenerateNewKey(c, l, n) => Holds(c) /\ \A d \in Caller : d # c => call'[d] = call[d]
    BY <1>1 DEF KeyManageGenerateNewKey, StoreL2DataKey, Holds, Idle
  <2>4. \A n \in CAName, k \in Level2Name :
          SaveCA(c, n, k) => Holds(c) /\ \A d \in Caller : d # c => call'[d] = call[d]
    BY <1>1 DEF SaveCA, Holds, Idle
  <2>5. \A n \in CertName, a \in CAName :
          CreateCert(c, n, a) => Holds(c) /\ \A d \in Caller : d # c => call'[d] = call[d]
    BY <1>1 DEF CreateCert, Holds, Idle
  <2> QED
    BY <1>12, <2>1, <2>2, <2>3, <2>4, <2>5 DEF Begin
<1> QED
  BY <1>3, <1>6, <1>7, <1>8, <1>9, <1>10, <1>11, <1>12 DEF Proceed

LEMMA LocksStep == SecretTypeOK /\ LocksInv /\ [SecretNext]_secretVars => LocksInv'
<1> SUFFICES ASSUME SecretTypeOK, LocksInv, [SecretNext]_secretVars PROVE LocksInv'
  OBVIOUS
<1>1. CASE UNCHANGED secretVars
  BY <1>1 DEF secretVars, LocksInv, IsCert
<1>2. CASE SecretNext
  <2>1. PICK c \in Caller : Holds(c) /\ \A d \in Caller : d # c => call'[d] = call[d]
    BY <1>2, StepHolds DEF SecretNext
  <2>2. \A d \in Caller : d # c /\ call'[d].old # {} =>
            call'[d].pc = "commit" \/ (call'[d].pc = "insert" /\ call'[d].name \in Cert)
    BY <2>1 DEF LocksInv, IsCert
  <2>3. call'[c].old # {} =>
            call'[c].pc = "commit" \/ (call'[c].pc = "insert" /\ call'[c].name \in Cert)
    BY <2>1 DEF LocksInv, IsCert, Holds
  <2> QED
    BY <2>2, <2>3 DEF LocksInv, IsCert
<1> QED
  BY <1>1, <1>2

\* Rotations of one name never wait for one another in a circle, for any number of
\* concurrent calls: what keeps SecretCallsReturn from failing by a deadlock.
THEOREM NoDeadlock == SecretSpec => []NoCircle
<1>1. LocksInv => NoCircle
  <2> SUFFICES ASSUME LocksInv, NEW c \in Caller, NEW d \in Caller, NEW e \in Caller,
                      NEW f \in Caller, WaitsFor(c, d), WaitsFor(d, e), WaitsFor(e, f)
               PROVE  FALSE
    BY DEF NoCircle
  <2>1. /\ call[c].pc \in {"insert", "archive"} /\ call[d].pc \in {"insert", "archive"}
        /\ call[e].pc \in {"insert", "archive"}
        /\ (IsCert(c) <=> IsCert(d)) /\ (IsCert(d) <=> IsCert(e))
    BY DEF WaitsFor, IsCert
  <2>2. \A x, y \in Caller : WaitsFor(x, y) =>
            Pending(y) \/ call[y].pc = "commit" \/ (call[y].pc = "insert" /\ IsCert(y))
    BY DEF WaitsFor, LocksInv
  <2>3. CASE IsCert(c)
    BY <2>1, <2>2, <2>3 DEF Pending, WaitsFor
  <2>4. CASE ~IsCert(c)
    BY <2>1, <2>2, <2>4 DEF Pending, WaitsFor, LocksInv
  <2> QED
    BY <2>3, <2>4
<1>2. SecretInv => SecretTypeOK
  BY DEF SecretInv
<1> QED
  BY <1>1, <1>2, LocksInit, LocksStep, SecretInvariant, PTL DEF SecretSpec
=============================================================================
