---------------------------- MODULE SecretServer ----------------------------
(***************************************************************************)
(* The HTTP handlers of the secret server (configure/secretserver) over    *)
(* its storage: tokens that are signed with data keys and ask for more     *)
(* tokens, and certificates that are requested, issued and fetched, while  *)
(* keys are handed out and keys and authorities are rotated.               *)
(*                                                                         *)
(* A storage call is a step.  That the ones which rotate are atomic is     *)
(* what SecretStore shows with Rotations; its names keep the type of their *)
(* key, so that TypeOf is a constant and a key is a name and a version.    *)
(***************************************************************************)
EXTENDS Naturals, Sequences, FiniteSets, SequencesExt

CONSTANTS
    KeyName,    \* names of data keys
    TypeOf,     \* the type of each
    Alg,        \* the algorithms that requests for a token name
    Asked,      \* the lists of permissions that requests for a token name, and tokens claim
    RootName,   \* names of root authorities
    CAName,     \* names of the authorities below
    CertName,   \* names of certificates of end users
    Caller,     \* concurrent requests for certificates, and their clients
    None,
    MaxLevels,  \* how far LoadCertChainByName climbs
    MaxKey, MaxTokens, MaxSerial    \* bounds of the model: versions, tokens, serial numbers

Rsa   == {"rsa1024", "rsa2048", "rsa3072", "rsa4096"}
Ecdsa == {"ecdsa224", "ecdsa256", "ecdsa384", "ecdsa521"}
KeyTypes == Rsa \cup Ecdsa \cup
    {"keyset", "aes128", "aes192", "aes256", "ed25519", "general64B", "general128B"}

Algorithms == {"HS256", "HS384", "HS512", "RS256", "RS384", "RS512", "PS256", "PS384",
               "PS512", "ES256", "ES384", "ES512"}

ASSUME KeysAssumption == TypeOf \in [KeyName -> KeyTypes] /\ Alg \subseteq Algorithms
\* Names are what administrators and clients choose: there always are some.
ASSUME NamesAssumption == RootName # {} /\ CertName # {}
ASSUME BoundsAssumption == {MaxLevels, MaxKey, MaxTokens, MaxSerial} \subseteq Nat \ {0}

VARIABLES
    keys,       \* keys[k]: the versions of the data key k
    tokens,     \* the tokens that were answered and have not expired
    handed,     \* a history: the keys that were answered, private part and all
    certs,      \* the rows of secret_cert
    serial,     \* the sequence cert_id_seq
    call        \* call[c]: the request that c makes, and what it knows

secretVars == <<keys, tokens, handed, certs, serial, call>>
certVars   == <<certs, serial, call>>

KeyRef == KeyName \X (Nat \ {0})

SecretJwtAdmin == "manage:jwt.admin"
SecretJwtNew   == "write:jwt.new"
SecretCertAdmin == "manage:cert.admin"
SecretKeyAdmin == "manage:key.admin"

allPermissions == {SecretCertAdmin, "read:cert.list", SecretJwtAdmin, SecretJwtNew,
                   "read:jwt.verify", SecretKeyAdmin}

MaxPermissionsInSingleToken == 10

\* by: the key it is signed with.  A history of the tokens that asked for it, back
\* to one that no handler answered: line, whether they all carry jwt.admin; from,
\* the kid of that first one, None for the bootstrap token.
Token == [kid : KeyRef, by : KeyRef, alg : Alg, permissions : SUBSET allPermissions,
          line : BOOLEAN, from : KeyRef \cup {None}]

\* parent: parent_ca_cert_id, 0 for none.  key: cert_key_name, None for one that is
\* kept elsewhere; of an authority, the key that it certifies.  by: the key that
\* signed it.  told: a history, the ca_list that was answered with it.
Row == [id : Nat, level : {"root", "intermediate", "cert"},
        name : RootName \cup CAName \cup CertName, version : Nat,
        parent : Nat, key : KeyRef \cup {None}, by : KeyRef, told : Seq(Nat)]

Call == [pc : {"idle", "ca", "key", "chain", "serial", "save", "walk", "load", "got", "tooLong"},
         name : CertName, key : KeyRef \cup {None}, by : KeyRef \cup {None},
         chain : Seq(Nat), id : Nat]

SecretServerTypeOK ==
    /\ keys \in [KeyName -> Nat]
    /\ tokens \subseteq Token /\ handed \subseteq KeyRef
    /\ certs \subseteq Row /\ serial \in Nat
    /\ call \in [Caller -> Call]

Idle == [pc |-> "idle", name |-> CHOOSE n \in CertName : TRUE, key |-> None, by |-> None,
         chain |-> <<>>, id |-> 0]

-----------------------------------------------------------------------------
(* The storage: FetchL2DataKey, LoadL2DataKeyById, LoadCertByName and the   *)
(* queries by identifier.                                                   *)
Fetched(k) == <<k, keys[k]>>

Stored == UNION {{k} \X (1 .. keys[k]) : k \in KeyName}

\* Mutant of KeyById: the newest key of that name.
KeyByIdNewest(ref) == Fetched(ref[1])

KeyById(ref) == ref

CanSign(k) == TypeOf[k] \in Rsa \cup Ecdsa

Versions(level, n) == {r \in certs : r.level = level /\ r.name = n}

NewestOf(level, n) ==
    CHOOSE r \in Versions(level, n) : \A s \in Versions(level, n) : s.version <= r.version

At(id) == CHOOSE r \in certs : r.id = id

Parent(id) == At(id).parent

\* saveInternal.
Save(level, n, row) ==
    certs' = certs \cup {[row EXCEPT !.level = level, !.name = n,
                                     !.version = Cardinality(Versions(level, n)) + 1]}

-----------------------------------------------------------------------------
(* Tokens.                                                                  *)

\* jwtSigningKeyMapping.
Signs(type, alg) ==
    \/ type = "general64B" /\ alg = "HS256"
    \/ type = "general128B" /\ alg \in {"HS384", "HS512"}
    \/ type \in Rsa /\ alg \in {"RS256", "RS384", "RS512", "PS256", "PS384"}
    \/ type \in Rsa \ {"rsa1024"} /\ alg = "PS512"
    \/ <<type, alg>> \in {<<"ecdsa256", "ES256">>, <<"ecdsa384", "ES384">>,
                          <<"ecdsa521", "ES512">>}

\* jwtVerificationKeyMapping: a table of its own in the code too.
Checks(type, alg) ==
    CASE type = "general64B"  -> alg = "HS256"
      [] type = "general128B" -> alg \in {"HS384", "HS512"}
      [] type \in Rsa         -> \/ alg \in {"RS256", "RS384", "RS512", "PS256", "PS384"}
                                 \/ alg = "PS512" /\ type # "rsa1024"
      [] type = "ecdsa256"    -> alg = "ES256"
      [] type = "ecdsa384"    -> alg = "ES384"
      [] type = "ecdsa521"    -> alg = "ES512"
      [] OTHER                -> FALSE

\* VerifyJwtToken: the key of the id that the token names, whatever its status.
VerifyJwt(t) == KeyById(t.kid) = t.by /\ Checks(TypeOf[t.kid[1]], t.alg)

\* VerifyPermissions splits what is allowed and what the token has.
AnyPermissionOperator(matched, nonMatched, additional) == matched # {}

VerifyPermissions(t, allowed) ==
    AnyPermissionOperator(t.permissions \cap allowed, allowed \ t.permissions,
                          t.permissions \ allowed)

\* Tokens that clients sign, with keys that were handed out or that are their own
\* (None): they claim what they like and name any key.
SignedOutside ==
    {[kid |-> kid, by |-> by, alg |-> alg, permissions |-> p \cap allPermissions,
      line |-> TRUE, from |-> kid] :
        kid \in Stored, by \in handed \cup {None}, alg \in Alg, p \in Asked}

\* What requests carry.
Presented == tokens \cup SignedOutside

\* The tokens that ValidateJwtToken lets through to the handlers which need the
\* permission (TokenStep, KeyStep and CertBegin say which).  A refused request changes nothing.
ValidateJwtToken(permission) ==
    {t \in Presented : VerifyJwt(t) /\ VerifyPermissions(t, {permission})}

\* SignJwt, for the bearer of t.  A key that cannot sign with alg makes an error
\* that SignJwt drops: the answer is an empty token then.
SignJwt(k, alg, permissions, t) ==
    /\ Signs(TypeOf[k], alg)
    /\ tokens' = tokens \cup
         {[kid |-> Fetched(k), by |-> Fetched(k), alg |-> alg, permissions |-> permissions,
           line |-> t.line /\ SecretJwtAdmin \in t.permissions, from |-> t.from]}
    /\ Cardinality(tokens') <= MaxTokens
    /\ UNCHANGED <<keys, handed, certVars>>

JwtManageCreateAdminJwt(t, k, alg) ==
    SignJwt(k, alg, {SecretJwtAdmin, SecretJwtNew}, t)

\* Mutant of JwtManageCreateNewJwt: any known permission is granted.
JwtManageCreateNewJwtAny(t, k, alg, permissions) ==
    /\ permissions # {} /\ Cardinality(permissions) <= MaxPermissionsInSingleToken
    /\ permissions \subseteq allPermissions
    /\ SignJwt(k, alg, permissions, t)

\* 400 for no or too many permissions, or an unknown one; 401 for jwt.admin.
\* (The list of the request is a set.)
JwtManageCreateNewJwt(t, k, alg, permissions) ==
    /\ permissions # {} /\ Cardinality(permissions) <= MaxPermissionsInSingleToken
    /\ permissions \subseteq allPermissions
    /\ SecretJwtAdmin \notin permissions
    /\ SignJwt(k, alg, permissions, t)

\* The time to live of a token is over.
Expire(t) ==
    /\ tokens' = tokens \ {t}
    /\ UNCHANGED <<keys, handed, certVars>>

\* KeyManageGenerateNewKey: another version of a key of one of the types it takes.
KeyManageGenerateNewKey(k) ==
    /\ TypeOf[k] \in Rsa \cup Ecdsa \cup {"aes128", "aes192", "aes256"}
    /\ keys[k] < MaxKey
    /\ keys' = [keys EXCEPT ![k] = @ + 1]
    /\ UNCHANGED <<tokens, handed, certVars>>

\* KeyManageGetKeyById: any version of any key is answered.
KeyManageGetKeyById(ref) ==
    /\ handed' = handed \cup {KeyById(ref)}
    /\ UNCHANGED <<keys, tokens, certVars>>

\* KeyManageGetKeyByName: the newest version.
KeyManageGetKeyByName(k) ==
    /\ handed' = handed \cup {Fetched(k)}
    /\ UNCHANGED <<keys, tokens, certVars>>

-----------------------------------------------------------------------------
(* Authorities: made by the administrator's program, which no handler is.   *)
CARow(k) ==
    [id |-> serial + 1, level |-> "root", name |-> CHOOSE n \in RootName : TRUE, version |-> 0,
     parent |-> 0, key |-> Fetched(k), by |-> Fetched(k), told |-> <<>>]

SaveRootCA(n, k) ==
    /\ serial < MaxSerial /\ serial' = serial + 1
    /\ CanSign(k)
    /\ Save("root", n, CARow(k))
    /\ UNCHANGED <<keys, tokens, handed, call>>

\* Issued by the newest version of the root or of another authority.
SaveIntermediateCA(n, issuer, k) ==
    /\ serial < MaxSerial /\ serial' = serial + 1
    /\ CanSign(k)
    /\ Save("intermediate", n, [CARow(k) EXCEPT !.parent = issuer.id, !.by = issuer.key])
    /\ UNCHANGED <<keys, tokens, handed, call>>

MakeAuthority ==
    \E k \in KeyName :
        \/ \E n \in RootName : SaveRootCA(n, k)
        \/ \E n \in CAName, a \in RootName :
              /\ Versions("root", a) # {}
              /\ SaveIntermediateCA(n, NewestOf("root", a), k)
        \/ \E n, a \in CAName :
              /\ n # a /\ Versions("intermediate", a) # {}
              /\ SaveIntermediateCA(n, NewestOf("intermediate", a), k)

-----------------------------------------------------------------------------
(* Certificates: c goes on with its request.                                *)
Goes(c, from, next) ==
    /\ call[c].pc = from
    /\ call' = [call EXCEPT ![c] = next]

\* CertManageCreateCert up to the parsing of the request.  Requests are made by
\* clients, or by CertManageCreateCertReq, which changes nothing.  key_id is that of
\* any key that can sign, or left out (None): whether it is the key that the request
\* is made with is not looked at, and so the model leaves that key out.
CertManageCreateCert(c, n, key) ==
    /\ Goes(c, "idle", [Idle EXCEPT !.pc = "ca", !.name = n, !.key = key])
    /\ UNCHANGED <<keys, tokens, handed, certs, serial>>

LoadCertByName(c, a) ==
    /\ Versions("intermediate", a) # {}
    /\ LET ca == NewestOf("intermediate", a)
       IN  Goes(c, "ca", [call[c] EXCEPT !.pc = "key", !.by = ca.key, !.chain = <<ca.id>>])
    /\ UNCHANGED <<keys, tokens, handed, certs, serial>>

LoadCAKey(c) ==
    /\ Goes(c, "key", [call[c] EXCEPT !.pc = "chain", !.by = KeyById(call[c].by)])
    /\ UNCHANGED <<keys, tokens, handed, certs, serial>>

\* recursiveRetrieveCerts: the chain of the authority, its root first.
RetrieveCerts(c) ==
    LET parent == Parent(Head(call[c].chain)) IN
    /\ Goes(c, "chain", IF parent = 0
                          THEN [call[c] EXCEPT !.pc = "serial"]
                          ELSE [call[c] EXCEPT !.chain = <<parent>> \o @])
    /\ UNCHANGED <<keys, tokens, handed, certs, serial>>

NextCertSerialNumber(c) ==
    /\ serial < MaxSerial /\ serial' = serial + 1
    /\ Goes(c, "serial", [call[c] EXCEPT !.pc = "save", !.id = serial + 1])
    /\ UNCHANGED <<keys, tokens, handed, certs>>

\* Mutant of SaveCert: the issuer is looked up again.
SaveCertOfNewest(c) ==
    LET q == call[c] IN
    /\ Goes(c, "save", Idle)
    /\ Save("cert", q.name, [id |-> q.id, level |-> "cert", name |-> q.name, version |-> 0,
                             parent |-> NewestOf("intermediate", At(Last(q.chain)).name).id,
                             key |-> q.key, by |-> q.by, told |-> q.chain])
    /\ UNCHANGED <<keys, tokens, handed, serial>>

\* The certificate is signed and saved; the answer is sent.
SaveCert(c) ==
    LET q == call[c] IN
    /\ Goes(c, "save", Idle)
    /\ Save("cert", q.name, [id |-> q.id, level |-> "cert", name |-> q.name, version |-> 0,
                             parent |-> Last(q.chain), key |-> q.key, by |-> q.by,
                             told |-> q.chain])
    /\ UNCHANGED <<keys, tokens, handed, serial>>

\* CertManageGetCert: the newest certificate of the name.
CertManageGetCert(c, n) ==
    /\ Versions("cert", n) # {}
    /\ LET r == NewestOf("cert", n)
       IN  Goes(c, "idle", [Idle EXCEPT !.pc = "walk", !.name = n, !.key = r.key,
                                        !.chain = <<r.id>>, !.id = r.id])
    /\ UNCHANGED <<keys, tokens, handed, certs, serial>>

\* Mutant of Levels: one level too few.
LevelsShort == MaxLevels - 1

Levels == MaxLevels

\* LoadCertChainByName: MaxLevels times it asks for the parent of the last one.
LoadCertChainByName(c) ==
    LET q == call[c]
        parent == Parent(Last(q.chain))
    IN
    /\ Goes(c, "walk", IF Len(q.chain) > Levels
                         THEN [q EXCEPT !.pc = "tooLong"]
                         ELSE IF parent = 0
                           THEN [q EXCEPT !.pc = "load"]
                           ELSE [q EXCEPT !.chain = Append(@, parent)])
    /\ UNCHANGED <<keys, tokens, handed, certs, serial>>

\* A certificate whose key is kept elsewhere has no id to parse: an error.
LoadCertKey(c) ==
    LET q == call[c] IN
    /\ Goes(c, "load", IF q.key = None THEN Idle
                       ELSE [q EXCEPT !.pc = "got", !.key = KeyById(q.key)])
    /\ UNCHANGED <<keys, tokens, handed, certs, serial>>

\* The answer is sent, with the key.
AnswerCert(c) ==
    /\ Goes(c, "got", Idle)
    /\ handed' = handed \cup {call[c].key}
    /\ UNCHANGED <<keys, tokens, certs, serial>>

\* A storage call has failed: an error is answered.
Return(c) ==
    /\ call[c].pc \notin {"idle", "got"}
    /\ Goes(c, call[c].pc, Idle)
    /\ UNCHANGED <<keys, tokens, handed, certs, serial>>

-----------------------------------------------------------------------------
TokenStep ==
    \/ \E t \in ValidateJwtToken(SecretJwtAdmin), k \in KeyName, alg \in Alg :
          JwtManageCreateAdminJwt(t, k, alg)
    \/ \E t \in ValidateJwtToken(SecretJwtNew), k \in KeyName, alg \in Alg, permissions \in Asked :
          JwtManageCreateNewJwt(t, k, alg, permissions)
    \/ \E t \in tokens : Expire(t)

KeyStep ==
    /\ ValidateJwtToken(SecretKeyAdmin) # {}
    /\ \/ \E k \in KeyName : KeyManageGenerateNewKey(k) \/ KeyManageGetKeyByName(k)
       \/ \E ref \in Stored : KeyManageGetKeyById(ref)

CertBegin(c) ==
    /\ ValidateJwtToken(SecretCertAdmin) # {}
    /\ \E n \in CertName :
          \/ \E key \in {ref \in Stored : CanSign(ref[1])} \cup {None} :
                CertManageCreateCert(c, n, key)
          \/ CertManageGetCert(c, n)

CertStep(c) ==
    \/ \E a \in CAName : LoadCertByName(c, a)
    \/ LoadCAKey(c)
    \/ RetrieveCerts(c)
    \/ NextCertSerialNumber(c)
    \/ SaveCert(c)
    \/ LoadCertChainByName(c)
    \/ LoadCertKey(c)
    \/ AnswerCert(c)
    \/ Return(c)

\* The keys have been made, and the bootstrap tool has signed one token.
SecretServerInit ==
    /\ keys = [k \in KeyName |-> 1]
    /\ \E k \in KeyName, alg \in Alg :
          /\ Signs(TypeOf[k], alg)
          /\ tokens = {[kid |-> <<k, 1>>, by |-> <<k, 1>>, alg |-> alg,
                        permissions |-> {SecretJwtAdmin}, line |-> TRUE, from |-> None]}
    /\ handed = {} /\ certs = {} /\ serial = 0
    /\ call = [c \in Caller |-> Idle]

SecretServerNext ==
    \/ TokenStep
    \/ KeyStep
    \/ MakeAuthority
    \/ \E c \in Caller : CertBegin(c) \/ CertStep(c)

SecretServerSpec == SecretServerInit /\ [][SecretServerNext]_secretVars

-----------------------------------------------------------------------------
(***************************************************************************)
(* Properties.                                                             *)
(***************************************************************************)

\* What one table of algorithms in addontool.go lets sign, the other verifies.
TablesAgree == \A type \in KeyTypes, alg \in Algorithms : Signs(type, alg) => Checks(type, alg)

\* A token that was answered is accepted until it expires, though its key is
\* rotated: VerifyJwt finds the key by kid.  And it would be with keys of any other
\* type.
TokensVerify == TablesAgree /\ \A t \in tokens : VerifyJwt(t)

\* controller.jwt.manage.go: jwt/new gives permissions "except JwtAdmin".  A token
\* with jwt.admin that is answered comes from tokens with jwt.admin only, back to
\* the bootstrap token or to one that a client signed itself.  The latter is
\* believed only if it names a key that was handed out (whoever has key.admin or
\* cert.admin may be answered keys, the ones that sign tokens too): without such
\* answers, no series of requests leads from jwt.new to jwt.admin.
AdminDescends ==
    \A t \in tokens : SecretJwtAdmin \in t.permissions => t.line /\ t.from \in handed \cup {None}

\* Each of the chain is issued by the one before it, from a root on.
Chain(s) ==
    /\ At(s[1]).level = "root"
    /\ \A i \in 2 .. Len(s) : At(s[i]).parent = s[i - 1] /\ At(s[i]).by = At(s[i - 1]).key

\* The ca_list that comes with a new certificate is the chain of its issuer, and
\* the issuer signed it, though authorities and keys are rotated meanwhile.
ChainsComplete ==
    \A r \in certs : r.level = "cert" => Chain(Append(r.told, r.id))

\* Whoever fetches a certificate gets the ca_list that was answered with it, the
\* other way round, and the key that its request named by key_id, though keys and
\* authorities are rotated meanwhile; and it can be fetched if there are fewer than
\* MaxLevels certificates above it.  (Not that the certificate certifies that key.)
FetchedFits ==
    \A c \in Caller :
        LET q == call[c] IN
        /\ q.pc = "got" => /\ q.chain = Reverse(Append(At(q.id).told, q.id))
                           /\ q.key = At(q.id).key
        /\ q.pc = "tooLong" => Len(At(q.id).told) >= MaxLevels
=============================================================================
