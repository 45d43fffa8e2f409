---------------------------- MODULE SecretStore ----------------------------
(***************************************************************************)
(* PostgresKeyStorage (configure/secretimpl): unsealing, the rotation of   *)
(* level 1 and level 2 keys and of certificates, and the handler that      *)
(* issues a certificate (secretserver/controller.cert.manage.go).          *)
(*                                                                         *)
(* A caller is a request of one server process; each SQL statement is a    *)
(* step and a transaction's rows appear to the others when it commits      *)
(* (READ COMMITTED).  The tables are one function of the name: the unique  *)
(* index makes a name and a version stand for the key_id or cert_id.       *)
(***************************************************************************)
EXTENDS Naturals, FiniteSets

CONSTANTS
    Level1Name, Level2Name,     \* key_name of secret_level1 and secret_level2
    CAName, CertName,           \* cert_name of authorities and of end users in secret_cert
    TokenName,                  \* the name of secret_level1 that clients cannot use
    UnsealName,                 \* the keys of the unseal providers, outside the database
    KeyType, KeySetType,        \* key_type; KeySetType is KeyKeySet
    SigningType,                \* the types of key that can sign a certificate
    None,
    Caller,
    Provider,                   \* Provider[c]: the unseal keys that c's process was given
    MaxVersion                  \* bound of the model: no rotation of n begins at MaxVersion[n]

Secret == Level1Name \cup Level2Name
Cert   == CAName \cup CertName
Name   == Secret \cup Cert \cup {TokenName}

ASSUME NamesAssumption ==
    /\ TokenName \notin Secret \cup Cert
    /\ Level1Name \cap Level2Name = {} /\ CAName \cap CertName = {} /\ Secret \cap Cert = {}
    /\ None \notin KeyType \cup (Name \cup {UnsealName}) \X Nat
ASSUME TypesAssumption == KeySetType \in KeyType /\ SigningType \subseteq KeyType
ASSUME ProviderAssumption ==
    /\ Provider \in [Caller -> (SUBSET Nat) \ {{}}]
    /\ \A c \in Caller : \E k \in Provider[c] : \A j \in Provider[c] : j <= k
ASSUME VersionAssumption == MaxVersion \in [Name -> Nat]

VARIABLES
    rows,   \* rows[n]: the committed rows of the name n
    call    \* call[c]: the request that c executes

secretVars == <<rows, call>>

\* A row or an unseal key, by its name and version.
Ref == (Name \cup {UnsealName}) \X Nat

\* valid: status 0.  parent: use_key_id, or parent_ca_cert_id of a certificate.
\* by: the key that in fact encrypted or signed the content.  key: cert_key_name.
Row == [version : Nat, valid : BOOLEAN, type : KeyType \cup {None},
        parent : Ref \cup {None}, by : Ref \cup {None}, key : Ref \cup {None}]

\* next: the version to insert.  old: the versions this transaction has retired.
Call == [pc : {"sealed", "token", "idle", "version", "level1", "key", "open",
               "read", "insert", "archive", "commit"},
         name : Name, next : Nat, type : KeyType \cup {None}, level1 : Name,
         parent : Ref \cup {None}, by : Ref \cup {None}, key : Ref \cup {None},
         old : SUBSET Nat]

Idle == [pc |-> "idle", name |-> TokenName, next |-> 0, type |-> None,
         level1 |-> TokenName, parent |-> None, by |-> None, key |-> None, old |-> {}]

Sealed == [Idle EXCEPT !.pc = "sealed"]

SecretTypeOK ==
    /\ rows \in [Name -> SUBSET Row]
    /\ call \in [Caller -> Call]

SecretInit ==
    /\ rows = [n \in Name |-> {}]
    /\ call = [c \in Caller |-> Sealed]

-----------------------------------------------------------------------------
\* The newest row of a set: order by version desc limit 1.
Newest(S) == CHOOSE r \in S : \A s \in S : s.version <= r.version

LastVersion(n) == IF rows[n] = {} THEN 0 ELSE Newest(rows[n]).version

\* The rows with status 0, of which the queries take the newest.
Active(n) == {r \in rows[n] : r.valid}

RefOf(n, r) == <<n, r.version>>

Exists(ref) == \E r \in rows[ref[1]] : r.version = ref[2]

At(ref) == CHOOSE r \in rows[ref[1]] : r.version = ref[2]

\* LocalFileUnsealProvider: it decrypts with any of its keys and encrypts with the latest.
Sealer(c) ==
    <<UnsealName, CHOOSE k \in Provider[c] : \A j \in Provider[c] : j <= k>>

Opens(c, r) == \E k \in Provider[c] : r.by = <<UnsealName, k>>

\* The bound of the model; calls begun beside this one may still exceed it.
MayRotate(n) == LastVersion(n) < MaxVersion[n]

Unsealed(c) == call[c].pc \notin {"sealed", "token"}

\* The call is over: its transaction is committed or rolled back.
Return(c) ==
    call' = [call EXCEPT ![c] = IF Unsealed(c) THEN Idle ELSE Sealed]

-----------------------------------------------------------------------------
\* SetupUnsealProviderAndWait: an empty store is to be initialized, otherwise
\* the provider must decrypt the token.
ReadToken(c) ==
    /\ call[c].pc = "sealed"
    /\ \/ rows[TokenName] = {} /\ call' = [call EXCEPT ![c].pc = "token"]
       \/ /\ \E r \in rows[TokenName] : Opens(c, r)
          /\ call' = [call EXCEPT ![c].pc = "idle"]
    /\ UNCHANGED rows

TokenRow(c) == [version |-> 1, valid |-> TRUE, type |-> None,
                parent |-> Sealer(c), by |-> Sealer(c), key |-> None]

\* Mutant of WriteToken: another process's token is taken for one's own.
WriteTokenOnce(c) ==
    /\ call[c].pc = "token"
    /\ rows' = IF rows[TokenName] = {}
                 THEN [rows EXCEPT ![TokenName] = {TokenRow(c)}]
                 ELSE rows
    /\ call' = [call EXCEPT ![c] = Idle]

\* The token is inserted, unless another process has done so: an error then.
WriteToken(c) ==
    /\ call[c].pc = "token"
    /\ IF rows[TokenName] = {}
         THEN /\ rows' = [rows EXCEPT ![TokenName] = {TokenRow(c)}]
              /\ call' = [call EXCEPT ![c] = Idle]
         ELSE /\ Return(c)
              /\ UNCHANGED rows

\* StoreLevel1KeySet up to its transaction.  A query that fails is taken for
\* one that finds nothing.
StoreLevel1KeySet(c, n) ==
    /\ call[c].pc = "idle"
    /\ MayRotate(n)
    /\ \E last \in {0, LastVersion(n)} :
         call' = [call EXCEPT ![c] = [Idle EXCEPT !.pc = "insert", !.name = n,
                                        !.next = last + 1, !.type = KeySetType,
                                        !.parent = Sealer(c), !.by = Sealer(c)]]
    /\ UNCHANGED rows

\* loadLevel1KeySetInternal finds the newest valid key set and decrypts it.
Loads1(c, l) == Active(l) # {} /\ Opens(c, Newest(Active(l)))

Level1Ref(l) == RefOf(l, Newest(Active(l)))

\* StoreLevel2KeySet up to LoadLevel1KeySet; without it the call fails.
StoreLevel2KeySet(c, l, n) ==
    /\ call[c].pc = "idle"
    /\ MayRotate(n)
    /\ Loads1(c, l)
    /\ call' = [call EXCEPT ![c] = [Idle EXCEPT !.pc = "version", !.name = n,
                                      !.type = KeySetType, !.level1 = l,
                                      !.parent = Level1Ref(l), !.by = Level1Ref(l)]]
    /\ UNCHANGED rows

\* checkRotateLevel2Key: a name keeps the type of its newest key.
Rotatable(n, type) == rows[n] # {} => Newest(rows[n]).type = type

\* StoreLevel2KeySet reads the newest version, outside its transaction.
ReadVersion(c) ==
    LET n == call[c].name IN
    /\ call[c].pc = "version"
    /\ IF Rotatable(n, call[c].type)
         THEN call' = [call EXCEPT ![c] = [@ EXCEPT !.pc = "insert", !.next = LastVersion(n) + 1]]
         ELSE Return(c)
    /\ UNCHANGED rows

\* StoreL2DataKey up to its query of the newest version.
StoreL2DataKey(c, l, n, type) ==
    /\ call[c].pc = "idle"
    /\ MayRotate(n)
    /\ Rotatable(n, type)
    /\ call' = [call EXCEPT ![c] = [Idle EXCEPT !.pc = "level1", !.name = n,
                                      !.next = LastVersion(n) + 1, !.type = type,
                                      !.level1 = l]]
    /\ UNCHANGED rows

\* The handler that makes a key: of any type but a key set.
KeyManageGenerateNewKey(c, l, n) ==
    \E type \in KeyType \ {KeySetType} : StoreL2DataKey(c, l, n, type)

\* StoreL2DataKey loads the level 1 key within its transaction.
LoadLevel1(c) ==
    LET l == call[c].level1 IN
    /\ call[c].pc = "level1"
    /\ IF Loads1(c, l)
         THEN call' = [call EXCEPT ![c] = [@ EXCEPT !.pc = "insert", !.parent = Level1Ref(l),
                                                    !.by = Level1Ref(l)]]
         ELSE Return(c)
    /\ UNCHANGED rows

-----------------------------------------------------------------------------
\* FetchL2DataKey, FetchLevel2KeySet: the newest valid key of a name.
Fetched(k) == Newest(Active(k))

\* An authority is made with the key that is fetched for it (SaveRootCA,
\* SaveIntermediateCA).
SaveCA(c, n, k) ==
    /\ call[c].pc = "idle"
    /\ MayRotate(n)
    /\ Active(k) # {} /\ Fetched(k).type \in SigningType
    /\ call' = [call EXCEPT ![c] = [Idle EXCEPT !.pc = "open", !.name = n,
                                      !.key = RefOf(k, Fetched(k))]]
    /\ UNCHANGED rows

\* CertManageCreateCert, LoadCertByName: the newest certificate of the authority.
CreateCert(c, n, a) ==
    /\ call[c].pc = "idle"
    /\ MayRotate(n)
    /\ rows[a] # {}
    /\ call' = [call EXCEPT ![c] = [Idle EXCEPT !.pc = "key", !.name = n,
                                      !.parent = RefOf(a, Newest(rows[a])),
                                      !.by = Newest(rows[a]).key]]
    /\ UNCHANGED rows

\* Mutant of KeyById: the newest key of the name.
KeyByName(ref) == RefOf(ref[1], Newest(rows[ref[1]]))

\* LoadL2DataKeyById, LoadLevel2KeySetById: the key of that id, whatever its status.
KeyById(ref) == ref

\* The authority's key is loaded.
LoadCAKey(c) ==
    LET ref == KeyById(call[c].by) IN
    /\ call[c].pc = "key"
    /\ IF Exists(ref)
         THEN call' = [call EXCEPT ![c] = [@ EXCEPT !.pc = "open", !.by = ref]]
         ELSE Return(c)
    /\ UNCHANGED rows

\* The level 2 key that a certificate call works with.
Level2Ref(c) == IF call[c].by # None THEN call[c].by ELSE call[c].key

\* LoadLevel1KeySetById: the key that opens the level 2 key just read.
OpenKey(c) ==
    LET key == At(Level2Ref(c))
        ref == key.parent
    IN
    /\ call[c].pc = "open"
    /\ IF Exists(ref) /\ Opens(c, At(ref)) /\ key.by = ref
         THEN call' = [call EXCEPT ![c].pc = "read"]
         ELSE Return(c)
    /\ UNCHANGED rows

\* saveInternal begins its transaction and reads the newest version.
ReadCertVersion(c) ==
    /\ call[c].pc = "read"
    /\ call' = [call EXCEPT ![c] = [@ EXCEPT !.pc = "archive",
                                             !.next = LastVersion(call[c].name) + 1]]
    /\ UNCHANGED rows

-----------------------------------------------------------------------------
IsCert(c) == call[c].name \in Cert

\* c's transaction holds an uncommitted row.
Pending(c) == call[c].pc = "commit" \/ (call[c].pc = "archive" /\ ~IsCert(c))

Refused(c) == \E r \in rows[call[c].name] : r.version = call[c].next

\* Mutant of Insert: a duplicate is waited for, not reported.
InsertPatiently(c) ==
    /\ call[c].pc = "insert"
    /\ \A d \in Caller : Pending(d) /\ call[d].name = call[c].name => call[d].next # call[c].next
    /\ ~Refused(c)
    /\ call' = [call EXCEPT ![c].pc = IF IsCert(c) THEN "commit" ELSE "archive"]
    /\ UNCHANGED rows

\* The insert waits for a transaction that holds the same entry of the unique
\* index, and is refused if the entry is there.
Insert(c) ==
    /\ call[c].pc = "insert"
    /\ \A d \in Caller : Pending(d) /\ call[d].name = call[c].name => call[d].next # call[c].next
    /\ IF Refused(c)
         THEN Return(c)
         ELSE call' = [call EXCEPT ![c].pc = IF IsCert(c) THEN "commit" ELSE "archive"]
    /\ UNCHANGED rows

\* Mutant of Old: one version too few.
OldButLast(c) ==
    {r.version : r \in {s \in rows[call[c].name] : s.version + 1 < call[c].next}}

\* What the update finds: the keys of lower versions, or the certificates of the name.
Old(c) ==
    {r.version : r \in {s \in rows[call[c].name] : IsCert(c) \/ s.version < call[c].next}}

\* The update that retires the older rows waits for their locks.  Keys are
\* inserted first, certificates retired first.
Archive(c) ==
    /\ call[c].pc = "archive"
    /\ \A d \in Caller \ {c} : call[d].name = call[c].name => call[d].old \cap Old(c) = {}
    /\ call' = [call EXCEPT ![c] = [@ EXCEPT !.pc = IF IsCert(c) THEN "insert" ELSE "commit",
                                             !.old = Old(c)]]
    /\ UNCHANGED rows

\* Mutant of NewRow: use_key_id is asked for again.
NewRowOfNewest(c) ==
    [version |-> call[c].next, valid |-> TRUE, type |-> call[c].type,
     parent |-> IF call[c].name \in Level2Name THEN Level1Ref(call[c].level1)
                                               ELSE call[c].parent,
     by |-> call[c].by, key |-> call[c].key]

NewRow(c) == [version |-> call[c].next, valid |-> TRUE, type |-> call[c].type,
              parent |-> call[c].parent, by |-> call[c].by, key |-> call[c].key]

\* An older row as the transaction leaves it.
Kept(c, r) == [r EXCEPT !.valid = r.valid /\ r.version \notin call[c].old]

Commit(c) ==
    LET n == call[c].name IN
    /\ call[c].pc = "commit"
    /\ rows' = [rows EXCEPT ![n] = {Kept(c, r) : r \in rows[n]} \cup {NewRow(c)}]
    /\ Return(c)

\* A statement, a decryption or the commit fails: the call returns an error.
Abort(c) ==
    /\ call[c].pc \notin {"sealed", "idle"}
    /\ Return(c)
    /\ UNCHANGED rows

\* The process ends and starts anew; the database rolls back.
Crash(c) ==
    /\ call[c].pc # "sealed"
    /\ call' = [call EXCEPT ![c] = Sealed]
    /\ UNCHANGED rows

-----------------------------------------------------------------------------
Begin(c) ==
    \/ \E n \in Level1Name : StoreLevel1KeySet(c, n)
    \/ \E l \in Level1Name, n \in Level2Name :
          \/ StoreLevel2KeySet(c, l, n)
          \/ KeyManageGenerateNewKey(c, l, n)
    \/ \E n \in CAName, k \in Level2Name : SaveCA(c, n, k)
    \/ \E n \in CertName, a \in CAName : CreateCert(c, n, a)

\* What a call does once it has begun, unless it fails.
Proceed(c) ==
    \/ WriteToken(c)
    \/ ReadVersion(c)
    \/ LoadLevel1(c)
    \/ LoadCAKey(c)
    \/ OpenKey(c)
    \/ ReadCertVersion(c)
    \/ Insert(c)
    \/ Archive(c)
    \/ Commit(c)

SecretNext ==
    \E c \in Caller : ReadToken(c) \/ Begin(c) \/ Proceed(c) \/ Abort(c) \/ Crash(c)

SecretSpec == SecretInit /\ [][SecretNext]_secretVars

\* Statements return.  One that waits for a row or an index entry queues in the
\* database and is not overtaken for ever: strong fairness.
SecretFairSpec == SecretSpec /\ \A c \in Caller : SF_secretVars(Proceed(c))

-----------------------------------------------------------------------------
\* The committed rows of a name as a sequence of versions.
Versions(n) ==
    [v \in 1..LastVersion(n) |-> [kind |-> At(<<n, v>>).type, valid |-> At(<<n, v>>).valid]]

Ring == INSTANCE Rotation WITH
            Kind <- KeyType \cup {None},
            ring <- [n \in Name |-> Versions(n)]

\* Each commit adds one version to one name, retires all the older ones and
\* keeps the type, however the statements of concurrent rotations interleave.
Rotations == Ring!RotationSpec

\* Every level 2 key names, in use_key_id, the level 1 key that encrypted it,
\* and that key is in the store: no foreign key of ddl_pg.sql says so.
EveryKeyOpens ==
    \A n \in Level2Name : \A r \in rows[n] : r.parent = r.by /\ Exists(r.parent)

\* A certificate is signed with the key of the certificate that it names as its
\* issuer, though authority and key may be rotated while it is being issued.
IssuedByCA ==
    \A n \in CertName : \A r \in rows[n] :
        Exists(r.parent) /\ At(r.parent).key = r.by /\ Exists(r.by)

\* A process that has been unsealed can decrypt the token, also when several
\* processes initialize an empty store at once.
UnsealedOpensToken ==
    \A c \in Caller : Unsealed(c) => \E r \in rows[TokenName] : Opens(c, r)

\* Every call of the store returns: none waits for ever for another's rows.
SecretCallsReturn ==
    \A c \in Caller : call[c].pc \notin {"idle", "sealed"} ~> call[c].pc \in {"idle", "sealed"}
=============================================================================
