------------------------- MODULE SecretServerProofs -------------------------
(***************************************************************************)
(* Theorems about SecretServer, for any keys, names, callers, permissions  *)
(* and levels of authorities.                                              *)
(***************************************************************************)
EXTENDS SecretServer, FiniteSetTheorems, SequenceTheorems, TLAPS

\* A token descends from the bootstrap token or from one that names a key that was
\* handed out, and with jwt.admin from tokens that have it.
Descends(t) ==
    /\ t.line \in BOOLEAN /\ t.from \in handed \cup {None}
    /\ SecretJwtAdmin \in t.permissions => t.line

\* A token that was answered names the key that signed it, of a type that signs
\* with its algorithm.
TokenInv ==
    /\ tokens \subseteq Token /\ handed \subseteq KeyRef
    /\ \A t \in tokens :
          t.kid = t.by /\ Signs(TypeOf[t.kid[1]], t.alg) /\ Descends(t)

Ids == {r.id : r \in certs}

\* Each of s is a row that was issued by the one before it.
Linked(s) ==
    /\ \A i \in DOMAIN s : s[i] \in Ids
    /\ \A i \in 2 .. Len(s) : At(s[i]).parent = s[i - 1] /\ At(s[i]).by = At(s[i - 1]).key

\* s leads from a root to an authority.
Issuers(s) == s # <<>> /\ Linked(s) /\ At(s[1]).level = "root"

OneRowEach == \A r, s \in certs : r.id = s.id => r = s

\* Numbers name one row each, and what a row refers to is there.
RowInv ==
    /\ certs \subseteq Row /\ serial \in Nat
    /\ \A r \in certs : r.id \in 1 .. serial
    /\ OneRowEach
    /\ \A r \in certs : r.level # "cert" => r.key \in KeyRef
    /\ \A r \in certs : r.level = "root" <=> r.parent = 0
    /\ \A r \in certs : r.parent # 0 => /\ r.parent \in Ids /\ At(r.parent).level # "cert"
                                        /\ r.by = At(r.parent).key
    /\ \A r \in certs : r.level = "cert" => Issuers(r.told) /\ Linked(Append(r.told, r.id))

\* The newest version of a name is the number of its versions.
VersionInv ==
    /\ IsFiniteSet(certs)
    /\ \A r \in certs :
          LET V == Versions(r.level, r.name) IN
          r.version <= Cardinality(V) /\ \E s \in V : s.version = Cardinality(V)

\* What the request for a certificate knows of its authority.
Asks(q) ==
    /\ q.pc \in {"key", "chain", "serial", "save"} =>
          /\ q.chain # <<>> /\ Linked(q.chain)
          /\ At(Last(q.chain)).level # "cert" /\ q.by = At(Last(q.chain)).key
    /\ q.pc \in {"serial", "save"} => At(q.chain[1]).level = "root"
    /\ q.pc = "save" => q.id \in 1 .. serial \ Ids

\* What it fetched so far: the ca_list from its end.
Fetches(q) ==
    LET list == Append(At(q.id).told, q.id) IN
    q.pc \in {"walk", "load", "got", "tooLong"} =>
        /\ q.id \in Ids /\ At(q.id).level = "cert" /\ q.key = At(q.id).key
        /\ q.chain # <<>> /\ Len(q.chain) <= Len(list)
        /\ \A i \in DOMAIN q.chain : q.chain[i] = list[Len(list) + 1 - i]
        /\ q.pc \in {"load", "got"} => Len(q.chain) = Len(list)
        /\ q.pc = "tooLong" => Len(q.chain) > Levels
        /\ q.pc = "got" => q.key \in KeyRef

CallInv ==
    /\ call \in [Caller -> Call]
    /\ \A c \in Caller : Asks(call[c]) /\ Fetches(call[c])
    /\ \A c, d \in Caller :
          c # d /\ call[c].pc = "save" /\ call[d].pc = "save" => call[c].id # call[d].id

ServerInv ==
    /\ keys \in [KeyName -> Nat \ {0}]
    /\ TokenInv /\ RowInv /\ VersionInv /\ CallInv

-----------------------------------------------------------------------------
(* Tokens.                                                                  *)

\* The two tables of addontool.go agree.
LEMMA SignedIsChecked ==
    ASSUME NEW type \in KeyTypes, NEW alg \in Algorithms, Signs(type, alg)
    PROVE  Checks(type, alg)
<1>1. CASE type \in Rsa
  BY <1>1 DEF Signs, Checks, Rsa
<1>2. CASE type \notin Rsa
  BY <1>2 DEF Signs, Checks, Rsa
<1> QED
  BY <1>1, <1>2

LEMMA TokensAreChecked ==
    ASSUME TokenInv
    PROVE  \A t \in tokens : VerifyJwt(t)
<1> SUFFICES ASSUME NEW t \in tokens PROVE VerifyJwt(t)
  OBVIOUS
<1>1. t \in Token
  BY DEF TokenInv
<1>2. t.kid \in KeyName \X (Nat \ {0}) /\ t.alg \in Alg
  BY <1>1 DEF Token, KeyRef
<1>3. TypeOf[t.kid[1]] \in KeyTypes /\ t.alg \in Algorithms
  BY <1>2, KeysAssumption
<1>4. t.kid = t.by /\ Signs(TypeOf[t.kid[1]], t.alg)
  BY DEF TokenInv
<1> QED
  BY <1>3, <1>4, SignedIsChecked DEF VerifyJwt, KeyById

LEMMA StoredKeys ==
    ASSUME keys \in [KeyName -> Nat \ {0}]
    PROVE  Stored \subseteq KeyRef
<1> SUFFICES ASSUME NEW ref \in Stored PROVE ref \in KeyRef
  OBVIOUS
<1>1. PICK k \in KeyName : ref \in {k} \X (1 .. keys[k])
  BY DEF Stored
<1>2. 1 .. keys[k] \subseteq Nat \ {0}
  OBVIOUS
<1> QED
  BY <1>1, <1>2 DEF KeyRef

\* A token that is let in has the permission, and it descends as the answered ones:
\* it names a key that was handed out if it was signed elsewhere.
LEMMA LetIn ==
    ASSUME TokenInv, NEW p, NEW t \in ValidateJwtToken(p)
    PROVE  p \in t.permissions /\ Descends(t)
<1>1. t \in Presented /\ VerifyJwt(t) /\ p \in t.permissions
  BY DEF ValidateJwtToken, VerifyPermissions, AnyPermissionOperator
<1>2. CASE t \in tokens
  BY <1>1, <1>2 DEF TokenInv
<1>3. CASE t \in SignedOutside
  <2>1. PICK kid \in Stored, by \in handed \cup {None}, alg \in Alg, q \in Asked :
          t = [kid |-> kid, by |-> by, alg |-> alg, permissions |-> q \cap allPermissions,
               line |-> TRUE, from |-> kid]
    BY <1>3 DEF SignedOutside
  <2>2. t.line /\ t.from = t.kid /\ t.by \in handed \cup {None}
    BY <2>1
  <2>3. t.kid = t.by
    BY <1>1 DEF VerifyJwt, KeyById
  <2>4. t.line \in BOOLEAN
    BY <2>1
  <2> QED
    BY <1>1, <2>2, <2>3, <2>4 DEF Descends
<1> QED
  BY <1>1, <1>2, <1>3 DEF Presented

LEMMA SignedToken ==
    ASSUME TokenInv, keys \in [KeyName -> Nat \ {0}],
           NEW k \in KeyName, NEW alg \in Alg, NEW p \in SUBSET allPermissions, NEW t,
           Descends(t), SignJwt(k, alg, p, t),
           SecretJwtAdmin \in p => SecretJwtAdmin \in t.permissions
    PROVE  TokenInv'
<1>1. PICK line \in BOOLEAN : line = (t.line /\ SecretJwtAdmin \in t.permissions)
  BY Zenon
<1> DEFINE new == [kid |-> Fetched(k), by |-> Fetched(k), alg |-> alg, permissions |-> p,
                   line |-> line, from |-> t.from]
<1>2. tokens' = tokens \cup {new} /\ Signs(TypeOf[k], alg) /\ UNCHANGED handed
  BY <1>1 DEF SignJwt
<1>3. Fetched(k) \in KeyRef /\ Fetched(k)[1] = k
  BY DEF Fetched, KeyRef
<1>4. new \in Token
  <2>1. t.from \in KeyRef \cup {None}
    BY DEF Descends, TokenInv
  <2> QED
    BY <1>3, <2>1 DEF Token
<1>5. new.kid = new.by /\ Signs(TypeOf[new.kid[1]], new.alg) /\ Descends(new)
  <2>1. /\ new.kid = Fetched(k) /\ new.by = Fetched(k) /\ new.alg = alg /\ new.permissions = p
        /\ new.line = line /\ new.from = t.from
    OBVIOUS
  <2>2. SecretJwtAdmin \in p => line
    BY <1>1 DEF Descends
  <2>3. t.from \in handed \cup {None}
    BY DEF Descends
  <2> HIDE DEF new
  <2> QED
    BY <1>2, <1>3, <2>1, <2>2, <2>3 DEF Descends
<1>6. \A s : Descends(s) => Descends(s)'
  BY <1>2 DEF Descends
<1> HIDE DEF new
<1> QED
  BY <1>2, <1>4, <1>5, <1>6 DEF TokenInv

LEMMA TokenStepGood ==
    ASSUME TokenInv, keys \in [KeyName -> Nat \ {0}], TokenStep
    PROVE  TokenInv' /\ UNCHANGED keys /\ UNCHANGED certVars
<1>1. ASSUME NEW t \in ValidateJwtToken(SecretJwtAdmin), NEW k \in KeyName, NEW alg \in Alg,
             JwtManageCreateAdminJwt(t, k, alg)
      PROVE  TokenInv' /\ UNCHANGED keys /\ UNCHANGED certVars
  <2>1. SecretJwtAdmin \in t.permissions /\ Descends(t)
    BY LetIn
  <2>2. SignJwt(k, alg, {SecretJwtAdmin, SecretJwtNew}, t)
    BY <1>1 DEF JwtManageCreateAdminJwt
  <2>3. {SecretJwtAdmin, SecretJwtNew} \in SUBSET allPermissions
    BY DEF allPermissions
  <2>4. TokenInv'
    BY <2>1, <2>2, <2>3, SignedToken
  <2> QED
    BY <2>2, <2>4 DEF SignJwt
<1>2. ASSUME NEW t \in ValidateJwtToken(SecretJwtNew), NEW k \in KeyName, NEW alg \in Alg, NEW p,
             JwtManageCreateNewJwt(t, k, alg, p)
      PROVE  TokenInv' /\ UNCHANGED keys /\ UNCHANGED certVars
  <2>1. SignJwt(k, alg, p, t) /\ p \in SUBSET allPermissions /\ SecretJwtAdmin \notin p
    BY <1>2 DEF JwtManageCreateNewJwt
  <2>2. Descends(t)
    BY LetIn
  <2>3. TokenInv'
    BY <2>1, <2>2, SignedToken
  <2> QED
    BY <2>1, <2>3 DEF SignJwt
<1>3. ASSUME NEW t \in tokens, Expire(t)
      PROVE  TokenInv' /\ UNCHANGED keys /\ UNCHANGED certVars
  BY <1>3 DEF Expire, TokenInv, Descends
<1> QED
  BY <1>1, <1>2, <1>3 DEF TokenStep

\* More keys are handed out.
LEMMA HandedGood ==
    ASSUME TokenInv, UNCHANGED tokens, handed' \subseteq KeyRef, handed \subseteq handed'
    PROVE  TokenInv'
<1>1. \A t : Descends(t) => Descends(t)'
  BY DEF Descends
<1> QED
  BY <1>1 DEF TokenInv

LEMMA KeyStepGood ==
    ASSUME TokenInv, keys \in [KeyName -> Nat \ {0}], KeyStep
    PROVE  TokenInv' /\ keys' \in [KeyName -> Nat \ {0}] /\ UNCHANGED certVars
<1>1. ASSUME NEW k \in KeyName, KeyManageGenerateNewKey(k)
      PROVE  TokenInv' /\ keys' \in [KeyName -> Nat \ {0}] /\ UNCHANGED certVars
  <2>1. TokenInv'
    BY <1>1, HandedGood DEF KeyManageGenerateNewKey, TokenInv
  <2> QED
    BY <1>1, <2>1 DEF KeyManageGenerateNewKey
<1>2. ASSUME NEW ref \in KeyRef, handed' = handed \cup {ref}, UNCHANGED <<keys, tokens, certVars>>
      PROVE  TokenInv' /\ keys' \in [KeyName -> Nat \ {0}] /\ UNCHANGED certVars
  <2>1. TokenInv'
    BY <1>2, HandedGood DEF TokenInv
  <2> QED
    BY <1>2, <2>1
<1>3. \A k \in KeyName : Fetched(k) \in KeyRef
  BY DEF Fetched, KeyRef
<1> QED
  BY <1>1, <1>2, <1>3, StoredKeys DEF KeyStep, KeyManageGetKeyByName, KeyManageGetKeyById, KeyById

-----------------------------------------------------------------------------
(* The rows of secret_cert.                                                 *)

AtFinds ==
    /\ \A r \in certs : At(r.id) = r
    /\ \A i \in Ids : At(i) \in certs /\ At(i).id = i

LEMMA AtFact == OneRowEach => AtFinds
<1> SUFFICES ASSUME OneRowEach PROVE AtFinds
  OBVIOUS
<1>1. ASSUME NEW r \in certs PROVE At(r.id) = r
  <2>1. \E s \in certs : s.id = r.id
    OBVIOUS
  <2>2. At(r.id) \in certs /\ At(r.id).id = r.id
    BY <2>1 DEF At
  <2> QED
    BY <2>2 DEF OneRowEach
<1> QED
  BY <1>1 DEF AtFinds, Ids

\* Rows are neither changed nor removed.
Stays == Ids \subseteq Ids' /\ \A i \in Ids : At(i)' = At(i)

LEMMA LinkedStays ==
    ASSUME Stays, NEW s \in Seq(Nat), Linked(s)
    PROVE  Linked(s)'
<1>1. \A i \in DOMAIN s : s[i] \in Ids
  BY DEF Linked
<1>2. \A i \in DOMAIN s : s[i] \in Ids' /\ At(s[i])' = At(s[i])
  BY <1>1 DEF Stays
<1>3. DOMAIN s = 1 .. Len(s) /\ Len(s) \in Nat
  BY LenProperties
<1>4. ASSUME NEW i \in 2 .. Len(s)
      PROVE  At(s[i])'.parent = s[i - 1] /\ At(s[i])'.by = At(s[i - 1])'.key
  <2>1. i \in DOMAIN s /\ i - 1 \in DOMAIN s
    BY <1>3
  <2>2. At(s[i]).parent = s[i - 1] /\ At(s[i]).by = At(s[i - 1]).key
    BY DEF Linked
  <2> QED
    BY <1>2, <2>1, <2>2
<1> QED
  BY <1>2, <1>4 DEF Linked

LEMMA IssuersStay ==
    ASSUME Stays, NEW s \in Seq(Nat), Issuers(s)
    PROVE  Issuers(s)'
<1>1. s # <<>> /\ Linked(s)
  BY DEF Issuers
<1>2. Linked(s)'
  BY <1>1, LinkedStays
<1>3. 1 \in DOMAIN s
  BY <1>1, EmptySeq, LenProperties
<1>4. At(s[1])' = At(s[1])
  BY <1>1, <1>3 DEF Linked, Stays
<1> QED
  BY <1>1, <1>2, <1>4 DEF Issuers

\* A row below the last one of a list.
AppendLinks ==
    \A s \in Seq(Nat), i \in Nat :
        /\ s # <<>> /\ Linked(s) /\ i \in Ids
        /\ At(i).parent = Last(s) /\ At(i).by = At(Last(s)).key
        => Linked(Append(s, i))

LEMMA LinkedAppend == AppendLinks
<1> SUFFICES ASSUME NEW s \in Seq(Nat), s # <<>>, Linked(s), NEW i \in Nat, i \in Ids,
                    At(i).parent = Last(s), At(i).by = At(Last(s)).key
             PROVE  Linked(Append(s, i))
  BY DEF AppendLinks
<1> DEFINE t == Append(s, i)  n == Len(s)
<1>1. /\ n \in Nat \ {0} /\ DOMAIN s = 1 .. n /\ DOMAIN t = 1 .. n + 1
      /\ \A j \in 1 .. n : t[j] = s[j]
      /\ t[n + 1] = i /\ Last(s) = s[n]
  <2>1. t \in Seq(Nat) /\ Len(t) = n + 1 /\ \A j \in 1 .. n : t[j] = s[j]
    BY AppendProperties
  <2> QED
    BY <2>1, EmptySeq, LenProperties, AppendProperties DEF Last
<1> HIDE DEF t, n
<1>2. \A j \in DOMAIN t : t[j] \in Ids
  BY <1>1 DEF Linked
<1>3. Len(t) = n + 1
  BY <1>1, AppendProperties DEF t, n
<1>4. ASSUME NEW j \in 2 .. n + 1
      PROVE  At(t[j]).parent = t[j - 1] /\ At(t[j]).by = At(t[j - 1]).key
  <2>1. CASE j = n + 1
    BY <1>1, <2>1
  <2>2. CASE j # n + 1
    <3>1. j \in 2 .. n /\ j \in 1 .. n /\ j - 1 \in 1 .. n
      BY <1>1, <2>2
    <3>2. At(s[j]).parent = s[j - 1] /\ At(s[j]).by = At(s[j - 1]).key
      BY <3>1 DEF Linked, n
    <3> QED
      BY <1>1, <3>1, <3>2
  <2> QED
    BY <2>1, <2>2
<1> QED
  BY <1>2, <1>3, <1>4 DEF Linked, t

\* A row above the first one.
LEMMA LinkedPrepend ==
    ASSUME NEW s \in Seq(Nat), s # <<>>, Linked(s), NEW i \in Nat, i \in Ids,
           At(s[1]).parent = i, At(s[1]).by = At(i).key
    PROVE  /\ <<i>> \o s \in Seq(Nat) /\ <<i>> \o s # <<>> /\ Linked(<<i>> \o s)
           /\ (<<i>> \o s)[1] = i /\ Last(<<i>> \o s) = Last(s)
<1> DEFINE t == <<i>> \o s  n == Len(s)
<1>1. n \in Nat \ {0} /\ DOMAIN s = 1 .. n
  BY EmptySeq, LenProperties
<1>2. <<i>> \in Seq(Nat) /\ Len(<<i>>) = 1 /\ <<i>>[1] = i
  OBVIOUS
<1>3. /\ t \in Seq(Nat) /\ Len(t) = n + 1 /\ DOMAIN t = 1 .. n + 1
      /\ t[1] = i /\ \A j \in 2 .. n + 1 : t[j] = s[j - 1]
  <2>1. /\ t \in Seq(Nat) /\ Len(t) = 1 + n
        /\ \A j \in 1 .. 1 + n : t[j] = IF j <= 1 THEN <<i>>[j] ELSE s[j - 1]
    BY <1>2, ConcatProperties
  <2>2. DOMAIN t = 1 .. Len(t)
    BY <2>1, LenProperties
  <2> HIDE DEF t, n
  <2> QED
    BY <1>1, <1>2, <2>1, <2>2
<1> HIDE DEF t, n
<1>4. \A j \in DOMAIN t : t[j] \in Ids
  <2> SUFFICES ASSUME NEW j \in 1 .. n + 1 PROVE t[j] \in Ids
    BY <1>3
  <2>1. CASE j = 1
    BY <1>3, <2>1
  <2>2. CASE j # 1
    <3>1. j - 1 \in DOMAIN s /\ t[j] = s[j - 1]
      BY <1>1, <1>3, <2>2
    <3> QED
      BY <3>1 DEF Linked
  <2> QED
    BY <2>1, <2>2
<1>5. ASSUME NEW j \in 2 .. n + 1
      PROVE  At(t[j]).parent = t[j - 1] /\ At(t[j]).by = At(t[j - 1]).key
  <2>1. CASE j = 2
    <3>1. t[j] = s[1] /\ t[j - 1] = i
      BY <1>1, <1>3, <2>1
    <3> QED
      BY <3>1
  <2>2. CASE j # 2
    <3>1. j - 1 \in 2 .. n /\ j - 1 \in 2 .. n + 1
      BY <1>1, <2>2
    <3>2. t[j] = s[j - 1] /\ t[j - 1] = s[j - 1 - 1]
      BY <1>3, <3>1
    <3> QED
      BY <3>1, <3>2 DEF Linked, n
  <2> QED
    BY <2>1, <2>2
<1>6. Linked(t)
  BY <1>3, <1>4, <1>5 DEF Linked
<1>7. t # <<>> /\ Last(t) = Last(s)
  <2>1. t[n + 1] = s[n]
    <3>1. PICK j \in 2 .. n + 1 : j = n + 1 /\ j - 1 = n
      BY <1>1
    <3>2. t[j] = s[j - 1]
      BY <1>3
    <3> QED
      BY <3>1, <3>2
  <2>2. t # <<>>
    BY <1>1, <1>3, EmptySeq
  <2> QED
    BY <1>3, <2>1, <2>2 DEF Last, n
<1> QED
  BY <1>3, <1>6, <1>7 DEF t

LEMMA RowFields ==
    ASSUME NEW r \in Row
    PROVE  /\ r.id \in Nat /\ r.level \in {"root", "intermediate", "cert"}
           /\ r.name \in RootName \cup CAName \cup CertName
           /\ r.version \in Nat /\ r.parent \in Nat
           /\ r.key \in KeyRef \cup {None}
           /\ r.by \in KeyRef /\ r.told \in Seq(Nat)
BY DEF Row

\* saveInternal, of a certificate that is issued by what is there.
LEMMA SaveGood ==
    ASSUME RowInv, VersionInv,
           NEW level \in {"root", "intermediate", "cert"},
           NEW n \in RootName \cup CAName \cup CertName, NEW row \in Row,
           Save(level, n, row),
           serial' \in Nat, serial <= serial', row.id \in 1 .. serial', row.id \notin Ids,
           level # "cert" => row.key \in KeyRef,
           level = "root" <=> row.parent = 0,
           row.parent # 0 => /\ row.parent \in Ids /\ At(row.parent).level # "cert"
                             /\ row.by = At(row.parent).key,
           level = "cert" => Issuers(row.told) /\ row.parent = Last(row.told)
    PROVE  RowInv' /\ VersionInv' /\ Stays /\ Ids' = Ids \cup {row.id}
<1> DEFINE V == Versions(level, n)
           new == [row EXCEPT !.level = level, !.name = n, !.version = Cardinality(V) + 1]
<1>1. IsFiniteSet(V) /\ Cardinality(V) \in Nat
  <2>1. IsFiniteSet(certs) /\ V \subseteq certs
    BY DEF VersionInv, Versions
  <2>2. IsFiniteSet(V)
    BY <2>1, FS_Subset
  <2> QED
    BY <2>2, FS_CardinalityType
<1>2. PICK v \in Nat : v = Cardinality(V) + 1
  BY <1>1
<1>3. /\ new \in Row /\ new.id = row.id /\ new.level = level /\ new.name = n /\ new.version = v
      /\ new.parent = row.parent /\ new.key = row.key /\ new.by = row.by
      /\ new.told = row.told
  <2> HIDE DEF V
  <2>1. new = [row EXCEPT !.level = level, !.name = n, !.version = v]
    BY <1>2
  <2> QED
    BY <2>1 DEF Row
<1>4. certs' = certs \cup {new}
  BY DEF Save
<1> HIDE DEF V, new
<1>5. Ids' = Ids \cup {row.id} /\ new \notin certs
  BY <1>3, <1>4 DEF Ids
<1>6. OneRowEach'
  BY <1>3, <1>4 DEF OneRowEach, RowInv, Ids
<1>7. Stays
  <2>1. ASSUME NEW i \in Ids PROVE At(i)' = At(i)
    <3>1. At(i) \in certs /\ At(i).id = i
      BY AtFact DEF RowInv, AtFinds
    <3>2. i \in Ids' /\ At(i) \in certs'
      BY <1>4, <1>5, <3>1
    <3>3. At(i)' \in certs' /\ At(i)'.id = i
      <4>1. OneRowEach' => AtFinds'
        BY AtFact, PTL
      <4> QED
        BY <1>6, <3>2, <4>1 DEF AtFinds
    <3> QED
      BY <1>6, <3>1, <3>2, <3>3 DEF OneRowEach
  <2> QED
    BY <1>5, <2>1 DEF Stays
<1>8. At(row.id)' = new
  <2>1. OneRowEach' => AtFinds'
    BY AtFact, PTL
  <2> QED
    BY <1>3, <1>4, <1>6, <2>1 DEF AtFinds
<1>9. ASSUME NEW i \in Ids PROVE i \in Ids' /\ At(i)' = At(i)
  BY <1>7 DEF Stays
<1>10. \A r \in certs' : r.parent # 0 => /\ r.parent \in Ids' /\ At(r.parent)'.level # "cert"
                                         /\ r.by = At(r.parent)'.key
  <2> SUFFICES ASSUME NEW r \in certs', r.parent # 0
               PROVE  /\ r.parent \in Ids /\ At(r.parent).level # "cert"
                      /\ r.by = At(r.parent).key
    BY <1>9
  <2>1. CASE r \in certs
    BY <2>1 DEF RowInv
  <2>2. CASE r = new
    BY <1>3, <2>2
  <2> QED
    BY <1>4, <2>1, <2>2
<1>11. ASSUME NEW r \in certs', r.level = "cert"
       PROVE  Issuers(r.told)' /\ Linked(Append(r.told, r.id))'
  <2>1. CASE r \in certs
    <3>0. r.told \in Seq(Nat) /\ r.id \in Nat
      BY <2>1, RowFields DEF RowInv
    <3>1. PICK told \in Seq(Nat), list \in Seq(Nat) : told = r.told /\ list = Append(r.told, r.id)
      BY <3>0, AppendProperties
    <3>2. Issuers(told) /\ Linked(list)
      BY <1>11, <2>1, <3>1 DEF RowInv
    <3>3. Issuers(told)' /\ Linked(list)'
      BY <1>7, <3>2, IssuersStay, LinkedStays
    <3> QED
      BY <3>1, <3>3
  <2>2. CASE r = new
    <3>1. PICK told \in Seq(Nat) : told = row.told
      BY RowFields
    <3>2. Issuers(told) /\ row.parent = Last(told) /\ told # <<>>
      BY <1>3, <1>11, <2>2, <3>1 DEF Issuers
    <3>3. Issuers(told)' /\ Linked(told)'
      BY <1>7, <3>2, IssuersStay DEF Issuers
    <3>4. Last(told) # 0
      BY <1>3, <1>11, <2>2, <3>2
    <3>5. Last(told) \in Ids /\ row.by = At(Last(told)).key
      BY <3>2, <3>4
    <3>6. At(row.id)'.parent = Last(told) /\ At(row.id)'.by = At(Last(told))'.key
      BY <1>3, <1>8, <1>9, <3>2, <3>5
    <3>7. row.id \in Nat /\ row.id \in Ids'
      BY <1>5
    <3>8. AppendLinks'
      BY LinkedAppend, PTL
    <3>9. Linked(Append(told, row.id))'
      BY <3>2, <3>3, <3>6, <3>7, <3>8 DEF AppendLinks
    <3> QED
      BY <1>3, <2>2, <3>1, <3>3, <3>9
  <2> QED
    BY <1>4, <2>1, <2>2
<1>12. RowInv'
  <2>1. certs' \subseteq Row /\ serial' \in Nat
    BY <1>3, <1>4 DEF RowInv
  <2>2. \A r \in certs' : r.id \in 1 .. serial'
    BY <1>3, <1>4, RowFields DEF RowInv
  <2>3. \A r \in certs' : r.level # "cert" => r.key \in KeyRef
    BY <1>3, <1>4 DEF RowInv
  <2>4. \A r \in certs' : r.level = "root" <=> r.parent = 0
    BY <1>3, <1>4 DEF RowInv
  <2> QED
    BY <1>6, <1>10, <1>11, <2>1, <2>2, <2>3, <2>4 DEF RowInv
<1>13. VersionInv'
  <2>1. IsFiniteSet(certs')
    BY <1>4, FS_AddElement DEF VersionInv
  <2>2. Versions(level, n)' = V \cup {new} /\ new \notin V
    BY <1>3, <1>4, <1>5 DEF Versions, V
  <2>3. Cardinality(V \cup {new}) = v
    BY <1>1, <1>2, <2>2, FS_AddElement
  <2> SUFFICES ASSUME NEW r \in certs'
               PROVE  /\ r.version <= Cardinality(Versions(r.level, r.name)')
                      /\ \E s \in Versions(r.level, r.name)' :
                            s.version = Cardinality(Versions(r.level, r.name)')
    BY <2>1 DEF VersionInv
  <2>4. CASE r.level = level /\ r.name = n
    <3>1. Versions(r.level, r.name)' = V \cup {new}
      BY <2>2, <2>4
    <3>2. r.version <= v
      <4>1. CASE r = new
        BY <1>2, <1>3, <4>1
      <4>2. CASE r # new
        <5>1. r \in certs /\ r.version \in Nat
          BY <1>4, <4>2, RowFields DEF RowInv
        <5>2. r.version <= Cardinality(V)
          BY <2>4, <5>1 DEF VersionInv, V
        <5> QED
          BY <1>1, <1>2, <5>1, <5>2
      <4> QED
        BY <4>1, <4>2
    <3> QED
      BY <1>3, <2>3, <3>1, <3>2
  <2>5. CASE ~(r.level = level /\ r.name = n)
    <3>1. r \in certs
      BY <1>3, <1>4, <2>5
    <3>2. Versions(r.level, r.name)' = Versions(r.level, r.name)
      BY <1>3, <1>4, <2>5 DEF Versions
    <3> QED
      BY <3>1, <3>2 DEF VersionInv
  <2> QED
    BY <2>4, <2>5
<1> QED
  BY <1>5, <1>7, <1>12, <1>13

\* There is a newest version of a name that has any.
LEMMA NewestIsOne ==
    ASSUME RowInv, VersionInv, NEW level, NEW n, Versions(level, n) # {}
    PROVE  /\ NewestOf(level, n) \in certs
           /\ NewestOf(level, n).level = level /\ NewestOf(level, n).name = n
<1> DEFINE V == Versions(level, n)
<1>1. PICK r \in V : TRUE
  OBVIOUS
<1>2. r \in certs /\ r.level = level /\ r.name = n
  BY DEF Versions
<1>3. PICK s \in V : s.version = Cardinality(V)
  BY <1>2 DEF VersionInv
<1>4. \A t \in V : t.version <= s.version
  <2> SUFFICES ASSUME NEW t \in V PROVE t.version <= Cardinality(V)
    BY <1>3
  <2>1. t \in certs /\ t.level = level /\ t.name = n
    BY DEF Versions
  <2> QED
    BY <2>1 DEF VersionInv
<1>5. NewestOf(level, n) \in V
  BY <1>4 DEF NewestOf
<1> QED
  BY <1>5 DEF Versions

-----------------------------------------------------------------------------
(* The requests.                                                            *)

LEMMA CallFields ==
    ASSUME NEW q \in Call
    PROVE  /\ q.name \in CertName
           /\ q.key \in KeyRef \cup {None}
           /\ q.by \in KeyRef \cup {None} /\ q.chain \in Seq(Nat) /\ q.id \in Nat
BY DEF Call

LEMMA IdleFact == Idle \in Call /\ Idle.pc = "idle" /\ Idle.key = None
<1>1. (CHOOSE n \in CertName : TRUE) \in CertName
  BY NamesAssumption
<1>2. <<>> \in Seq(Nat)
  OBVIOUS
<1> QED
  BY <1>1, <1>2 DEF Idle, Call

\* The ends of a list of rows.
LEMMA Ends ==
    ASSUME NEW s \in Seq(Nat), s # <<>>
    PROVE  /\ Len(s) \in Nat \ {0} /\ DOMAIN s = 1 .. Len(s)
           /\ 1 \in DOMAIN s /\ Len(s) \in DOMAIN s /\ Last(s) = s[Len(s)]
           /\ Head(s) = s[1] /\ s[1] \in Nat /\ Last(s) \in Nat
<1>1. Len(s) \in Nat \ {0} /\ DOMAIN s = 1 .. Len(s)
  BY EmptySeq, LenProperties
<1>2. s[1] \in Nat /\ s[Len(s)] \in Nat
  BY <1>1, ElementOfSeq
<1> QED
  BY <1>1, <1>2 DEF Last

\* What a request knows stays true while rows are added.
LEMMA KnowledgeStays ==
    ASSUME RowInv, Stays, serial' \in Nat, serial <= serial',
           NEW q \in Call, Asks(q), Fetches(q), q.pc = "save" => q.id \notin Ids'
    PROVE  Asks(q)' /\ Fetches(q)'
<1>1. q.chain \in Seq(Nat)
  BY CallFields
<1>2. Asks(q)'
  <2>1. CASE q.pc \in {"key", "chain", "serial", "save"}
    <3>1. /\ q.chain # <<>> /\ Linked(q.chain)
          /\ At(Last(q.chain)).level # "cert" /\ q.by = At(Last(q.chain)).key
      BY <2>1 DEF Asks
    <3>2. Linked(q.chain)'
      BY <1>1, <3>1, LinkedStays
    <3>3. q.chain[1] \in Ids /\ Last(q.chain) \in Ids
      BY <1>1, <3>1, Ends DEF Linked
    <3>4. At(q.chain[1])' = At(q.chain[1]) /\ At(Last(q.chain))' = At(Last(q.chain))
      BY <3>3 DEF Stays
    <3>5. q.pc = "save" => q.id \in 1 .. serial' \ Ids'
      BY DEF Asks, RowInv
    <3> QED
      BY <3>1, <3>2, <3>4, <3>5 DEF Asks
  <2>2. CASE q.pc \notin {"key", "chain", "serial", "save"}
    BY <2>2 DEF Asks
  <2> QED
    BY <2>1, <2>2
<1>3. Fetches(q)'
  <2>1. CASE q.pc \in {"walk", "load", "got", "tooLong"}
    <3>1. q.id \in Ids
      BY <2>1 DEF Fetches
    <3>2. q.id \in Ids' /\ At(q.id)' = At(q.id)
      BY <3>1 DEF Stays
    <3> QED
      BY <3>2 DEF Fetches, Levels
  <2>2. CASE q.pc \notin {"walk", "load", "got", "tooLong"}
    BY <2>2 DEF Fetches
  <2> QED
    BY <2>1, <2>2
<1> QED
  BY <1>2, <1>3

LEMMA RowsSame ==
    ASSUME RowInv, VersionInv, UNCHANGED certs, serial' \in Nat, serial <= serial'
    PROVE  RowInv' /\ VersionInv' /\ Stays /\ Ids' = Ids
<1>1. Ids' = Ids /\ Stays
  BY DEF Stays, Ids, At
<1>2. VersionInv'
  BY DEF VersionInv, Versions
<1>3. \A r \in certs : r.id \in 1 .. serial'
  BY DEF RowInv
<1>4. OneRowEach'
  BY DEF RowInv, OneRowEach
<1>5. \A r \in certs : r.parent # 0 => /\ r.parent \in Ids' /\ At(r.parent)'.level # "cert"
                                       /\ r.by = At(r.parent)'.key
  BY <1>1 DEF RowInv, Stays
<1>6. ASSUME NEW r \in certs, r.level = "cert"
      PROVE  Issuers(r.told)' /\ Linked(Append(r.told, r.id))'
  <2>1. r.told \in Seq(Nat) /\ r.id \in Nat
    BY RowFields DEF RowInv
  <2>2. PICK told \in Seq(Nat), list \in Seq(Nat) : told = r.told /\ list = Append(r.told, r.id)
    BY <2>1, AppendProperties
  <2>3. Issuers(told) /\ Linked(list)
    BY <1>6, <2>2 DEF RowInv
  <2>4. Issuers(told)' /\ Linked(list)'
    BY <1>1, <2>3, IssuersStay, LinkedStays
  <2> QED
    BY <2>2, <2>4
<1>7. RowInv'
  BY <1>3, <1>4, <1>5, <1>6 DEF RowInv
<1> QED
  BY <1>1, <1>2, <1>7

\* A request goes on to q.
LEMMA CallGood ==
    ASSUME RowInv, CallInv, Stays, serial' \in Nat, serial <= serial',
           NEW c \in Caller, NEW q \in Call, call' = [call EXCEPT ![c] = q],
           Asks(q)', Fetches(q)',
           \A d \in Caller : d # c /\ call[d].pc = "save" =>
               call[d].id \notin Ids' /\ (q.pc = "save" => call[d].id # q.id)
    PROVE  CallInv'
<1>1. call' \in [Caller -> Call] /\ call'[c] = q /\ \A d \in Caller : d # c => call'[d] = call[d]
  BY DEF CallInv
<1>2. ASSUME NEW d \in Caller PROVE Asks(call[d])' /\ Fetches(call[d])'
  <2>1. CASE d = c
    <3>1. call'[d] = q
      BY <1>1, <2>1
    <3> QED
      BY <3>1 DEF Asks, Fetches
  <2>2. CASE d # c
    <3>1. PICK p \in Call : p = call[d]
      BY DEF CallInv
    <3>2. Asks(p) /\ Fetches(p) /\ (p.pc = "save" => p.id \notin Ids')
      BY <2>2, <3>1 DEF CallInv
    <3>3. Asks(p)' /\ Fetches(p)'
      BY <3>2, KnowledgeStays
    <3>4. call'[d] = p
      BY <1>1, <2>2, <3>1
    <3> QED
      BY <3>3, <3>4 DEF Asks, Fetches
  <2> QED
    BY <2>1, <2>2
<1>3. ASSUME NEW d \in Caller, NEW e \in Caller,
             d # e, call'[d].pc = "save", call'[e].pc = "save"
      PROVE  call'[d].id # call'[e].id
  BY <1>1, <1>3 DEF CallInv
<1> QED
  BY <1>1, <1>2, <1>3 DEF CallInv

\* The same, for a step that only loads.
LEMMA LoadGood ==
    ASSUME RowInv, VersionInv, CallInv, UNCHANGED <<certs, serial>>,
           NEW c \in Caller, NEW q \in Call, call' = [call EXCEPT ![c] = q],
           q.pc # "save", Asks(q), Fetches(q)
    PROVE  RowInv' /\ VersionInv' /\ CallInv'
<1>1. serial' \in Nat /\ serial <= serial'
  BY DEF RowInv
<1>2. RowInv' /\ VersionInv' /\ Stays /\ Ids' = Ids
  BY <1>1, RowsSame
<1>3. Asks(q)' /\ Fetches(q)'
  BY <1>1, <1>2, KnowledgeStays
<1>4. \A d \in Caller : call[d].pc = "save" => call[d].id \notin Ids'
  BY <1>2 DEF CallInv, Asks
<1> QED
  BY <1>1, <1>2, <1>3, <1>4, CallGood

LEMMA OneLinked ==
    ASSUME NEW i \in Nat, i \in Ids
    PROVE  <<i>> \in Seq(Nat) /\ <<i>> # <<>> /\ Linked(<<i>>) /\ <<i>>[1] = i /\ Last(<<i>>) = i
<1>1. Len(<<i>>) = 1 /\ DOMAIN <<i>> = 1 .. 1 /\ <<i>>[1] = i /\ <<i>> \in Seq(Nat)
  OBVIOUS
<1> QED
  BY <1>1 DEF Linked, Last

\* What goes before the storage of a certificate.
LEMMA AskGood ==
    ASSUME RowInv, VersionInv, CallInv, NEW c \in Caller,
           \/ \E n \in CertName, key \in KeyRef \cup {None} : CertManageCreateCert(c, n, key)
           \/ AnswerCert(c)
           \/ Return(c)
    PROVE  RowInv' /\ VersionInv' /\ CallInv'
<1>1. call[c] \in Call /\ Asks(call[c]) /\ Idle \in Call
  BY IdleFact DEF CallInv
<1>3. ASSUME NEW n \in CertName, NEW key \in KeyRef \cup {None}, CertManageCreateCert(c, n, key)
      PROVE  RowInv' /\ VersionInv' /\ CallInv'
  <2>1. PICK q : q = [Idle EXCEPT !.pc = "ca", !.name = n, !.key = key]
    OBVIOUS
  <2>2. q \in Call /\ q.pc = "ca"
    BY <1>1, <2>1 DEF Call
  <2>3. Asks(q) /\ Fetches(q)
    BY <2>2 DEF Asks, Fetches
  <2>4. call' = [call EXCEPT ![c] = q] /\ UNCHANGED <<certs, serial>>
    BY <1>3, <2>1 DEF CertManageCreateCert, Goes
  <2> QED
    BY <2>2, <2>3, <2>4, LoadGood
<1>4. CASE AnswerCert(c) \/ Return(c)
  <2>1. call' = [call EXCEPT ![c] = Idle] /\ UNCHANGED <<certs, serial>>
    BY <1>4 DEF AnswerCert, Return, Goes
  <2>2. Asks(Idle) /\ Fetches(Idle)
    BY IdleFact DEF Asks, Fetches
  <2>3. PICK q \in Call : q = Idle
    BY <1>1
  <2>4. Asks(q) /\ Fetches(q) /\ q.pc # "save" /\ call' = [call EXCEPT ![c] = q]
    BY <2>1, <2>2, <2>3, IdleFact
  <2> QED
    BY <2>1, <2>4, LoadGood
<1> QED
  BY <1>3, <1>4

LEMMA AnsweredKey ==
    ASSUME CallInv, NEW c \in Caller, call[c].pc = "got"
    PROVE  call[c].key \in KeyRef
BY DEF CallInv, Fetches

\* The authority is found, and its chain climbed.
LEMMA IssuerGood ==
    ASSUME RowInv, VersionInv, CallInv, NEW c \in Caller,
           (\E a \in CAName : LoadCertByName(c, a)) \/ LoadCAKey(c) \/ RetrieveCerts(c)
    PROVE  RowInv' /\ VersionInv' /\ CallInv'
<1>1. PICK p \in Call : p = call[c] /\ Asks(p)
  BY DEF CallInv
<1>2. /\ p.key \in KeyRef \cup {None}
      /\ p.by \in KeyRef \cup {None} /\ p.chain \in Seq(Nat)
  BY CallFields
<1>3. ASSUME NEW a \in CAName, LoadCertByName(c, a)
      PROVE  RowInv' /\ VersionInv' /\ CallInv'
  <2>1. PICK ca : ca = NewestOf("intermediate", a)
    OBVIOUS
  <2>2. ca \in certs /\ ca.level = "intermediate"
    BY <1>3, <2>1, NewestIsOne DEF LoadCertByName
  <2>3. ca.key \in KeyRef /\ ca.id \in Nat
    BY <2>2, RowFields DEF RowInv
  <2>4. ca.id \in Ids /\ At(ca.id) = ca
    BY <2>2, AtFact DEF RowInv, AtFinds, Ids
  <2>9. PICK s \in Seq(Nat) : s = <<ca.id>> /\ s # <<>> /\ Linked(s) /\ Last(s) = ca.id
    BY <2>3, <2>4, OneLinked
  <2>5. PICK q : q = [p EXCEPT !.pc = "key", !.by = ca.key, !.chain = s]
    OBVIOUS
  <2>6. /\ q \in Call /\ q.pc = "key" /\ q.key = p.key /\ q.by = ca.key
        /\ q.chain = s
    BY <2>3, <2>5 DEF Call
  <2>7. /\ call[c].pc = "ca" /\ UNCHANGED <<certs, serial>>
        /\ call' = [call EXCEPT ![c] = q]
    BY <1>1, <1>3, <2>1, <2>5, <2>9 DEF LoadCertByName, Goes
  <2>8. Asks(q) /\ Fetches(q)
    <3>2. q.chain # <<>> /\ Linked(q.chain) /\ Last(q.chain) = ca.id
      BY <2>9, <2>6
    <3> QED
      BY <2>2, <2>4, <2>6, <3>2 DEF Asks, Fetches
  <2> QED
    BY <2>6, <2>7, <2>8, LoadGood
<1>4. CASE LoadCAKey(c)
  <2>1. PICK q : q = [p EXCEPT !.pc = "chain", !.by = KeyById(p.by)]
    OBVIOUS
  <2>2. /\ q \in Call /\ q.pc = "chain" /\ q.key = p.key /\ q.by = p.by
        /\ q.chain = p.chain
    BY <1>2, <2>1 DEF Call, KeyById
  <2>3. /\ p.pc = "key" /\ UNCHANGED <<certs, serial>> /\ call' = [call EXCEPT ![c] = q]
    BY <1>1, <1>4, <2>1 DEF LoadCAKey, Goes
  <2>4. Asks(q) /\ Fetches(q)
    BY <1>1, <2>2, <2>3 DEF Asks, Fetches
  <2> QED
    BY <2>2, <2>3, <2>4, LoadGood
<1>5. CASE RetrieveCerts(c)
  <2>1. PICK parent : parent = Parent(Head(p.chain))
    OBVIOUS
  <2>2. /\ p.pc = "chain" /\ UNCHANGED <<certs, serial>>
        /\ call' = [call EXCEPT ![c] = IF parent = 0
                                         THEN [p EXCEPT !.pc = "serial"]
                                         ELSE [p EXCEPT !.chain = <<parent>> \o p.chain]]
    BY <1>1, <1>5, <2>1 DEF RetrieveCerts, Goes
  <2>3. /\ p.chain # <<>> /\ Linked(p.chain)
        /\ At(Last(p.chain)).level # "cert" /\ p.by = At(Last(p.chain)).key
    BY <1>1, <2>2 DEF Asks
  <2>4. PICK top \in Nat : top = p.chain[1] /\ Head(p.chain) = top
    BY <1>2, <2>3, Ends
  <2>5. top \in Ids
    BY <1>2, <2>3, <2>4, Ends DEF Linked
  <2>6. At(top) \in certs /\ parent = At(top).parent
    BY <2>1, <2>4, <2>5, AtFact DEF Parent, RowInv, AtFinds
  <2>7. CASE parent = 0
    <3>1. At(top).level = "root"
      BY <2>6, <2>7 DEF RowInv
    <3>2. PICK q : q = [p EXCEPT !.pc = "serial"]
      OBVIOUS
    <3>3. /\ q \in Call /\ q.pc = "serial" /\ q.key = p.key /\ q.by = p.by
          /\ q.chain = p.chain
      BY <3>2 DEF Call
    <3>4. Asks(q) /\ Fetches(q)
      BY <2>3, <2>4, <3>1, <3>3 DEF Asks, Fetches
    <3> QED
      BY <2>2, <2>7, <3>2, <3>3, <3>4, LoadGood
  <2>8. CASE parent # 0
    <3>1. parent \in Ids /\ parent \in Nat /\ At(top).by = At(parent).key
      BY <2>6, <2>8, RowFields DEF RowInv
    <3>2. PICK s : s = <<parent>> \o p.chain
      OBVIOUS
    <3>3. s \in Seq(Nat) /\ s # <<>> /\ Linked(s) /\ Last(s) = Last(p.chain)
      BY <1>2, <2>3, <2>4, <2>6, <3>1, <3>2, LinkedPrepend
    <3>4. PICK q : q = [p EXCEPT !.chain = s]
      OBVIOUS
    <3>5. /\ q \in Call /\ q.pc = "chain" /\ q.key = p.key /\ q.by = p.by
          /\ q.chain = s
      BY <2>2, <3>3, <3>4 DEF Call
    <3>6. Asks(q) /\ Fetches(q)
      BY <2>3, <3>3, <3>5 DEF Asks, Fetches
    <3> QED
      BY <2>2, <2>8, <3>2, <3>4, <3>5, <3>6, LoadGood
  <2> QED
    BY <2>7, <2>8
<1> QED
  BY <1>3, <1>4, <1>5

LEMMA Single ==
    ASSUME NEW i \in Nat
    PROVE  \E s \in Seq(Nat) :
               s = <<i>> /\ s # <<>> /\ Len(s) = 1 /\ DOMAIN s = 1 .. 1 /\ s[1] = i
<1>1. <<i>> \in Seq(Nat) /\ <<i>> # <<>> /\ Len(<<i>>) = 1 /\ DOMAIN <<i>> = 1 .. 1 /\ <<i>>[1] = i
  OBVIOUS
<1> WITNESS <<i>> \in Seq(Nat)
<1> QED
  BY <1>1

LEMMA Appended ==
    ASSUME NEW s \in Seq(Nat), NEW i \in Nat
    PROVE  \E t \in Seq(Nat) :
               /\ t = Append(s, i) /\ t # <<>>
               /\ Len(s) \in Nat /\ Len(t) = Len(s) + 1 /\ DOMAIN t = 1 .. Len(s) + 1
               /\ \A j \in 1 .. Len(s) : t[j] = s[j]
               /\ t[Len(s) + 1] = i
<1>1. /\ Append(s, i) \in Seq(Nat) /\ Append(s, i) # <<>> /\ Len(Append(s, i)) = Len(s) + 1
      /\ \A j \in 1 .. Len(s) : Append(s, i)[j] = s[j]
      /\ Append(s, i)[Len(s) + 1] = i
  BY AppendProperties
<1>2. Len(s) \in Nat /\ DOMAIN Append(s, i) = 1 .. Len(s) + 1
  BY <1>1, LenProperties
<1> WITNESS Append(s, i) \in Seq(Nat)
<1> QED
  BY <1>1, <1>2

\* A certificate is fetched, from its end up to the root.
LEMMA FetchGood ==
    ASSUME RowInv, VersionInv, CallInv, NEW c \in Caller,
           \/ \E n \in CertName : CertManageGetCert(c, n)
           \/ LoadCertChainByName(c)
           \/ LoadCertKey(c)
    PROVE  RowInv' /\ VersionInv' /\ CallInv'
<1>1. PICK p \in Call : p = call[c] /\ Fetches(p)
  BY DEF CallInv
<1>2. /\ p.key \in KeyRef \cup {None}
      /\ p.by \in KeyRef \cup {None} /\ p.chain \in Seq(Nat)
  BY CallFields
<1>3. ASSUME NEW n \in CertName, CertManageGetCert(c, n)
      PROVE  RowInv' /\ VersionInv' /\ CallInv'
  <2>1. PICK r : r = NewestOf("cert", n)
    OBVIOUS
  <2>2. r \in certs /\ r.level = "cert"
    BY <1>3, <2>1, NewestIsOne DEF CertManageGetCert
  <2>3. r.key \in KeyRef \cup {None} /\ r.id \in Nat /\ r.told \in Seq(Nat)
    BY <2>2, RowFields DEF RowInv
  <2>4. r.id \in Ids /\ At(r.id) = r
    BY <2>2, AtFact DEF RowInv, AtFinds, Ids
  <2>5. PICK s \in Seq(Nat) : s = <<r.id>> /\ s # <<>> /\ Len(s) = 1 /\ DOMAIN s = 1 .. 1 /\ s[1] = r.id
    BY <2>3, Single
  <2>6. PICK q : q = [Idle EXCEPT !.pc = "walk", !.name = n, !.key = r.key, !.chain = s, !.id = r.id]
    OBVIOUS
  <2>7. q \in Call /\ q.pc = "walk" /\ q.key = r.key /\ q.chain = s /\ q.id = r.id
    BY <2>3, <2>6, IdleFact DEF Call
  <2>8. UNCHANGED <<certs, serial>> /\ call' = [call EXCEPT ![c] = q]
    BY <1>3, <2>1, <2>5, <2>6 DEF CertManageGetCert, Goes
  <2>13. PICK list \in Seq(Nat) :
             /\ list = Append(r.told, r.id) /\ Len(r.told) \in Nat /\ Len(list) = Len(r.told) + 1
             /\ list[Len(r.told) + 1] = r.id
    BY <2>3, Appended
  <2>9. Len(list) \in Nat \ {0} /\ list[Len(list)] = r.id
    BY <2>13
  <2>10. \A i \in DOMAIN s : s[i] = list[Len(list) + 1 - i]
    <3>1. Len(list) + 1 - 1 = Len(list)
      BY <2>9
    <3> QED
      BY <2>5, <2>9, <3>1
  <2>11. Asks(q)
    BY <2>7 DEF Asks
  <2>12. Fetches(q)
    BY <2>2, <2>4, <2>5, <2>7, <2>9, <2>10, <2>13 DEF Fetches
  <2> QED
    BY <2>7, <2>8, <2>11, <2>12, LoadGood
<1>4. CASE LoadCertChainByName(c)
  <2>1. PICK parent : parent = Parent(Last(p.chain))
    OBVIOUS
  <2>2. /\ p.pc = "walk" /\ UNCHANGED <<certs, serial>>
        /\ call' = [call EXCEPT ![c] = IF Len(p.chain) > Levels
                                         THEN [p EXCEPT !.pc = "tooLong"]
                                         ELSE IF parent = 0
                                           THEN [p EXCEPT !.pc = "load"]
                                           ELSE [p EXCEPT !.chain = Append(p.chain, parent)]]
    BY <1>1, <1>4, <2>1 DEF LoadCertChainByName, Goes
  <2>3. PICK row : row = At(p.id)
    OBVIOUS
  <2>4. row \in certs /\ row.id = p.id /\ row.level = "cert" /\ p.id \in Ids /\ p.key = row.key
    BY <1>1, <2>2, <2>3, AtFact DEF Fetches, RowInv, AtFinds
  <2>5. row.told \in Seq(Nat) /\ row.id \in Nat
    BY <2>4, RowFields DEF RowInv
  <2>6. PICK list \in Seq(Nat) : list = Append(row.told, p.id) /\ list # <<>>
    BY <2>4, <2>5, AppendProperties
  <2>7. Linked(list) /\ At(list[1]).level = "root"
    <3>1. Issuers(row.told) /\ Linked(list)
      BY <2>4, <2>6 DEF RowInv
    <3>2. list[1] = row.told[1]
      <4>1. row.told # <<>>
        BY <3>1 DEF Issuers
      <4>2. 1 \in 1 .. Len(row.told)
        BY <2>5, <4>1, Ends
      <4> QED
        BY <2>4, <2>5, <2>6, <4>2, AppendProperties
    <3> QED
      BY <3>1, <3>2 DEF Issuers
  <2>8. /\ p.chain # <<>> /\ Len(p.chain) <= Len(list)
        /\ \A i \in DOMAIN p.chain : p.chain[i] = list[Len(list) + 1 - i]
    BY <1>1, <2>2, <2>3, <2>6 DEF Fetches
  <2>9. /\ Len(list) \in Nat \ {0} /\ DOMAIN list = 1 .. Len(list)
        /\ Len(p.chain) \in Nat \ {0} /\ DOMAIN p.chain = 1 .. Len(p.chain)
        /\ Last(p.chain) = p.chain[Len(p.chain)]
    BY <1>2, <2>6, <2>8, Ends
  <2>10. PICK j \in 1 .. Len(list) : j = Len(list) + 1 - Len(p.chain)
    <3>1. Len(list) + 1 - Len(p.chain) \in 1 .. Len(list)
      BY <2>8, <2>9
    <3> QED
      BY <3>1
  <2>11. Last(p.chain) = list[j]
    <3>1. Len(p.chain) \in DOMAIN p.chain
      BY <2>9
    <3> QED
      BY <2>8, <2>9, <2>10, <3>1
  <2>12. list[j] \in Ids /\ At(list[j]) \in certs /\ parent = At(list[j]).parent
    BY <2>1, <2>7, <2>9, <2>11, AtFact DEF Linked, Parent, RowInv, AtFinds
  <2>13. j # 1 => parent = list[j - 1] /\ parent \in Ids /\ parent # 0 /\ parent \in Nat
    <3> SUFFICES ASSUME j # 1
                 PROVE  parent = list[j - 1] /\ parent \in Ids /\ parent # 0 /\ parent \in Nat
      OBVIOUS
    <3>1. j \in 2 .. Len(list) /\ j - 1 \in DOMAIN list
      BY <2>9
    <3>2. parent = list[j - 1] /\ list[j - 1] \in Ids
      BY <2>7, <2>12, <3>1 DEF Linked
    <3>3. \A i \in Ids : i \in Nat \ {0}
      BY DEF Ids, RowInv
    <3> QED
      BY <3>2, <3>3
  <2>14. j = 1 => parent = 0
    BY <2>7, <2>12 DEF RowInv
  <2>15. CASE Len(p.chain) > Levels
    <3>1. PICK q : q = [p EXCEPT !.pc = "tooLong"]
      OBVIOUS
    <3>2. q \in Call /\ q.pc = "tooLong" /\ q.key = p.key /\ q.chain = p.chain /\ q.id = p.id
      BY <3>1 DEF Call
    <3>3. Asks(q)
      BY <3>2 DEF Asks
    <3>4. Fetches(q)
      BY <2>3, <2>4, <2>6, <2>8, <2>15, <3>2 DEF Fetches
    <3> QED
      BY <2>2, <2>15, <3>1, <3>2, <3>3, <3>4, LoadGood
  <2>16. CASE ~(Len(p.chain) > Levels) /\ parent = 0
    <3>1. PICK q : q = [p EXCEPT !.pc = "load"]
      OBVIOUS
    <3>2. q \in Call /\ q.pc = "load" /\ q.key = p.key /\ q.chain = p.chain /\ q.id = p.id
      BY <3>1 DEF Call
    <3>3. Len(p.chain) = Len(list)
      BY <2>9, <2>10, <2>13, <2>16
    <3>4. Asks(q)
      BY <3>2 DEF Asks
    <3>5. Fetches(q)
      BY <2>3, <2>4, <2>6, <2>8, <3>2, <3>3 DEF Fetches
    <3> QED
      BY <2>2, <2>16, <3>1, <3>2, <3>4, <3>5, LoadGood
  <2>17. CASE ~(Len(p.chain) > Levels) /\ parent # 0
    <3>1. j # 1 /\ parent \in Nat /\ parent = list[j - 1]
      BY <2>13, <2>14, <2>17
    <3>2. PICK s \in Seq(Nat) :
             /\ s = Append(p.chain, parent) /\ s # <<>> /\ Len(s) = Len(p.chain) + 1
             /\ DOMAIN s = 1 .. Len(p.chain) + 1
             /\ \A i \in 1 .. Len(p.chain) : s[i] = p.chain[i]
             /\ s[Len(p.chain) + 1] = parent
      BY <1>2, <3>1, Appended
    <3>3. PICK q : q = [p EXCEPT !.chain = s]
      OBVIOUS
    <3>4. q \in Call /\ q.pc = "walk" /\ q.key = p.key /\ q.chain = s /\ q.id = p.id
      BY <2>2, <3>3 DEF Call
    <3>5. Len(s) <= Len(list)
      BY <2>9, <2>10, <3>1, <3>2
    <3>6. \A i \in DOMAIN s : s[i] = list[Len(list) + 1 - i]
      <4> SUFFICES ASSUME NEW i \in DOMAIN s PROVE s[i] = list[Len(list) + 1 - i]
        OBVIOUS
      <4>1. CASE i \in 1 .. Len(p.chain)
        BY <2>8, <2>9, <3>2, <4>1
      <4>2. CASE i = Len(p.chain) + 1
        <5>1. Len(list) + 1 - i = j - 1
          BY <2>9, <2>10, <4>2
        <5> QED
          BY <3>1, <3>2, <4>2, <5>1
      <4> QED
        BY <2>9, <3>2, <4>1, <4>2
    <3>7. Asks(q)
      BY <3>4 DEF Asks
    <3>8. Fetches(q)
      BY <2>3, <2>4, <2>6, <3>2, <3>4, <3>5, <3>6 DEF Fetches
    <3> QED
      BY <2>2, <2>17, <3>2, <3>3, <3>4, <3>7, <3>8, LoadGood
  <2> QED
    BY <2>15, <2>16, <2>17
<1>5. CASE LoadCertKey(c)
  <2>1. /\ p.pc = "load" /\ UNCHANGED <<certs, serial>>
        /\ call' = [call EXCEPT ![c] = IF p.key = None THEN Idle
                                       ELSE [p EXCEPT !.pc = "got", !.key = KeyById(p.key)]]
    BY <1>1, <1>5 DEF LoadCertKey, Goes
  <2>2. CASE p.key = None
    <3>1. PICK q \in Call : q = Idle /\ Asks(q) /\ Fetches(q) /\ q.pc # "save"
      BY IdleFact DEF Asks, Fetches
    <3> QED
      BY <2>1, <2>2, <3>1, LoadGood
  <2>3. CASE p.key # None
    <3>1. PICK q : q = [p EXCEPT !.pc = "got", !.key = KeyById(p.key)]
      OBVIOUS
    <3>2. q \in Call /\ q.pc = "got" /\ q.key = p.key /\ q.chain = p.chain /\ q.id = p.id
      BY <1>2, <3>1 DEF Call, KeyById
    <3>3. Asks(q)
      BY <3>2 DEF Asks
    <3>4. q.key \in KeyRef
      BY <1>2, <2>3, <3>2
    <3>5. Fetches(q)
      BY <1>1, <2>1, <3>2, <3>4 DEF Fetches
    <3> QED
      BY <2>1, <2>3, <3>1, <3>2, <3>3, <3>5, LoadGood
  <2> QED
    BY <2>2, <2>3
<1> QED
  BY <1>3, <1>4, <1>5

LEMMA SerialGood ==
    ASSUME RowInv, VersionInv, CallInv, NEW c \in Caller, NextCertSerialNumber(c)
    PROVE  RowInv' /\ VersionInv' /\ CallInv'
<1>1. PICK p \in Call : p = call[c] /\ Asks(p) /\ Fetches(p)
  BY DEF CallInv
<1>12. PICK id \in Nat : id = serial + 1
  BY DEF RowInv
<1>2. PICK q : q = [p EXCEPT !.pc = "save", !.id = id]
  OBVIOUS
<1>3. /\ p.pc = "serial" /\ call' = [call EXCEPT ![c] = q]
      /\ serial' = id /\ serial \in Nat /\ serial' \in Nat /\ serial < serial'
      /\ UNCHANGED certs
  BY <1>1, <1>2, <1>12 DEF NextCertSerialNumber, Goes, RowInv
<1>4. /\ q \in Call /\ q.pc = "save" /\ q.key = p.key /\ q.by = p.by
      /\ q.chain = p.chain /\ q.id = serial'
  BY <1>2, <1>3 DEF Call
<1>5. RowInv' /\ VersionInv' /\ Stays /\ Ids' = Ids
  BY <1>3, RowsSame
<1>6. Asks(p)'
  BY <1>1, <1>3, <1>5, KnowledgeStays
<1>7. \A i \in Ids : i \in 1 .. serial
  BY DEF RowInv, Ids
<1>8. q.id \in 1 .. serial' \ Ids'
  BY <1>3, <1>4, <1>5, <1>7
<1>9. Asks(q)' /\ Fetches(q)'
  BY <1>3, <1>4, <1>6, <1>8 DEF Asks, Fetches
<1>10. \A d \in Caller : d # c /\ call[d].pc = "save" =>
          call[d].id \notin Ids' /\ (q.pc = "save" => call[d].id # q.id)
  BY <1>3, <1>4, <1>5 DEF CallInv, Asks
<1>11. CallInv'
  <2>1. serial' \in Nat /\ serial <= serial' /\ q \in Call /\ call' = [call EXCEPT ![c] = q]
    BY <1>3, <1>4
  <2> QED
    BY <1>5, <1>9, <1>10, <2>1, CallGood
<1> QED
  BY <1>5, <1>11

LEMMA SaveCertGood ==
    ASSUME RowInv, VersionInv, CallInv, NEW c \in Caller, SaveCert(c)
    PROVE  RowInv' /\ VersionInv' /\ CallInv'
<1>1. PICK p \in Call : p = call[c] /\ Asks(p)
  BY DEF CallInv
<1>2. PICK row : row = [id |-> p.id, level |-> "cert", name |-> p.name, version |-> 0,
                        parent |-> Last(p.chain), key |-> p.key, by |-> p.by,
                        told |-> p.chain]
  OBVIOUS
<1>3. /\ p.pc = "save" /\ call' = [call EXCEPT ![c] = Idle]
      /\ Save("cert", p.name, row) /\ UNCHANGED serial
  BY <1>1, <1>2 DEF SaveCert, Goes
<1>4. /\ p.name \in CertName /\ p.chain \in Seq(Nat) /\ p.id \in Nat
      /\ p.key \in KeyRef \cup {None}
  BY CallFields
<1>5. /\ p.chain # <<>> /\ Linked(p.chain) /\ At(p.chain[1]).level = "root"
      /\ At(Last(p.chain)).level # "cert" /\ p.by = At(Last(p.chain)).key
      /\ p.id \in 1 .. serial \ Ids
  BY <1>1, <1>3 DEF Asks
<1>6. Last(p.chain) \in Ids /\ Last(p.chain) \in Nat
  BY <1>4, <1>5, Ends DEF Linked
<1>7. p.by \in KeyRef /\ Last(p.chain) # 0
  BY <1>5, <1>6, AtFact DEF RowInv, AtFinds, Ids
<1>8. /\ row \in Row /\ row.id = p.id /\ row.parent = Last(p.chain) /\ row.key = p.key
      /\ row.by = p.by /\ row.told = p.chain
  BY <1>2, <1>4, <1>6, <1>7 DEF Row
<1>9. serial' \in Nat /\ serial <= serial' /\ row.id \in 1 .. serial' /\ row.id \notin Ids
  BY <1>3, <1>5, <1>8 DEF RowInv
<1>10. Issuers(row.told) /\ row.parent = Last(row.told)
  BY <1>5, <1>8 DEF Issuers
<1>11. RowInv' /\ VersionInv' /\ Stays /\ Ids' = Ids \cup {p.id}
  BY <1>3, <1>4, <1>5, <1>6, <1>7, <1>8, <1>9, <1>10, SaveGood
<1>12. PICK q \in Call : q = Idle /\ Asks(q)' /\ Fetches(q)' /\ q.pc # "save"
  BY IdleFact DEF Asks, Fetches
<1>13. \A d \in Caller : d # c /\ call[d].pc = "save" =>
           call[d].id \notin Ids' /\ (q.pc = "save" => call[d].id # q.id)
  BY <1>1, <1>3, <1>11, <1>12 DEF CallInv, Asks
<1>14. CallInv'
  BY <1>3, <1>9, <1>11, <1>12, <1>13, CallGood
<1> QED
  BY <1>11, <1>14

LEMMA CallsStay ==
    ASSUME RowInv, CallInv, Stays, serial' \in Nat, serial <= serial', UNCHANGED call,
           \A d \in Caller : call[d].pc = "save" => call[d].id \notin Ids'
    PROVE  CallInv'
<1>1. ASSUME NEW d \in Caller PROVE Asks(call[d])' /\ Fetches(call[d])'
  <2>1. PICK p \in Call : p = call[d]
    BY DEF CallInv
  <2>2. Asks(p) /\ Fetches(p) /\ (p.pc = "save" => p.id \notin Ids')
    BY <2>1 DEF CallInv
  <2>3. Asks(p)' /\ Fetches(p)'
    BY <2>2, KnowledgeStays
  <2>4. call'[d] = p
    BY <2>1
  <2> QED
    BY <2>3, <2>4 DEF Asks, Fetches
<1> QED
  BY <1>1 DEF CallInv

\* The administrator's program.
LEMMA AuthorityGood ==
    ASSUME RowInv, VersionInv, CallInv, keys \in [KeyName -> Nat \ {0}], MakeAuthority
    PROVE  RowInv' /\ VersionInv' /\ CallInv' /\ UNCHANGED <<keys, tokens, handed>>
<1>1. serial \in Nat
  BY DEF RowInv
<1>2. ASSUME NEW k \in KeyName
      PROVE  /\ CARow(k) \in Row /\ CARow(k).id = serial + 1 /\ CARow(k).parent = 0
             /\ CARow(k).key \in KeyRef /\ CARow(k).told = <<>>
  <2>1. Fetched(k) \in KeyRef
    BY DEF Fetched, KeyRef
  <2>2. (CHOOSE n \in RootName : TRUE) \in RootName /\ <<>> \in Seq(Nat)
    BY NamesAssumption
  <2> QED
    BY <1>1, <2>1, <2>2 DEF CARow, Row
<1>3. ASSUME NEW level \in {"root", "intermediate"},
             NEW n \in RootName \cup CAName \cup CertName, NEW row \in Row,
             row.id = serial + 1, row.key \in KeyRef,
             level = "root" <=> row.parent = 0,
             row.parent # 0 => /\ row.parent \in Ids /\ At(row.parent).level # "cert"
                               /\ row.by = At(row.parent).key,
             Save(level, n, row), serial' = serial + 1, UNCHANGED <<keys, tokens, handed, call>>
      PROVE  RowInv' /\ VersionInv' /\ CallInv' /\ UNCHANGED <<keys, tokens, handed>>
  <2>1. \A i \in Ids : i \in 1 .. serial
    BY DEF RowInv, Ids
  <2>2. /\ serial' \in Nat /\ serial <= serial' /\ row.id \in 1 .. serial' /\ row.id \notin Ids
        /\ level \in {"root", "intermediate", "cert"} /\ level # "cert"
    BY <1>1, <1>3, <2>1
  <2>3. RowInv' /\ VersionInv' /\ Stays /\ Ids' = Ids \cup {row.id}
    BY <1>3, <2>2, SaveGood
  <2>4. \A d \in Caller : call[d].pc = "save" => call[d].id \notin Ids'
    BY <1>1, <1>3, <2>3 DEF CallInv, Asks
  <2> QED
    BY <1>3, <2>2, <2>3, <2>4, CallsStay
<1>4. ASSUME NEW n \in RootName, NEW k \in KeyName, SaveRootCA(n, k)
      PROVE  RowInv' /\ VersionInv' /\ CallInv' /\ UNCHANGED <<keys, tokens, handed>>
  <2>1. PICK row \in Row : row = CARow(k)
    BY <1>2
  <2>2. Save("root", n, row) /\ serial' = serial + 1 /\ UNCHANGED <<keys, tokens, handed, call>>
    BY <1>4, <2>1 DEF SaveRootCA
  <2>3. /\ row.id = serial + 1 /\ row.key \in KeyRef
        /\ row.parent = 0
    BY <1>2, <2>1
  <2> QED
    BY <1>3, <2>2, <2>3
<1>5. ASSUME NEW n \in CAName, NEW k \in KeyName, NEW issuer \in certs, issuer.level # "cert",
             SaveIntermediateCA(n, issuer, k)
      PROVE  RowInv' /\ VersionInv' /\ CallInv' /\ UNCHANGED <<keys, tokens, handed>>
  <2>1. /\ issuer.id \in Ids /\ At(issuer.id) = issuer /\ issuer.id \in Nat \ {0}
        /\ issuer.key \in KeyRef
    BY <1>5, AtFact DEF RowInv, AtFinds, Ids
  <2>2. PICK base \in Row : base = CARow(k)
    BY <1>2
  <2>3. PICK row : row = [base EXCEPT !.parent = issuer.id, !.by = issuer.key]
    OBVIOUS
  <2>4. /\ row \in Row /\ row.id = base.id /\ row.key = base.key /\ row.key = base.key
        /\ row.parent = issuer.id /\ row.by = issuer.key
    BY <2>1, <2>3 DEF Row
  <2>5. Save("intermediate", n, row) /\ serial' = serial + 1 /\ UNCHANGED <<keys, tokens, handed, call>>
    BY <1>5, <2>2, <2>3 DEF SaveIntermediateCA
  <2>6. row.id = serial + 1 /\ row.key \in KeyRef
    BY <1>2, <2>2, <2>4
  <2> QED
    BY <1>3, <1>5, <2>1, <2>4, <2>5, <2>6
<1>6. ASSUME NEW level \in {"root", "intermediate"}, NEW a, Versions(level, a) # {}
      PROVE  NewestOf(level, a) \in certs /\ NewestOf(level, a).level # "cert"
  BY <1>6, NewestIsOne
<1> QED
  BY <1>4, <1>5, <1>6 DEF MakeAuthority

-----------------------------------------------------------------------------
LEMMA InitGood == SecretServerInit => ServerInv
<1> SUFFICES ASSUME SecretServerInit PROVE ServerInv
  OBVIOUS
<1>1. keys \in [KeyName -> Nat \ {0}]
  BY DEF SecretServerInit
<1>2. TokenInv
  <2>1. PICK k \in KeyName, alg \in Alg :
          /\ Signs(TypeOf[k], alg)
          /\ tokens = {[kid |-> <<k, 1>>, by |-> <<k, 1>>, alg |-> alg,
                        permissions |-> {SecretJwtAdmin}, line |-> TRUE, from |-> None]}
    BY DEF SecretServerInit
  <2>2. <<k, 1>> \in KeyRef /\ <<k, 1>>[1] = k /\ {SecretJwtAdmin} \in SUBSET allPermissions
    BY DEF KeyRef, allPermissions
  <2>3. handed = {}
    BY DEF SecretServerInit
  <2> QED
    BY <2>1, <2>2, <2>3 DEF TokenInv, Token, Descends
<1>3. certs = {} /\ serial = 0 /\ call = [c \in Caller |-> Idle]
  BY DEF SecretServerInit
<1>4. RowInv
  BY <1>3 DEF RowInv, OneRowEach
<1>5. VersionInv
  BY <1>3, FS_EmptySet DEF VersionInv
<1>6. CallInv
  BY <1>3, IdleFact DEF CallInv, Asks, Fetches
<1> QED
  BY <1>1, <1>2, <1>4, <1>5, <1>6 DEF ServerInv

LEMMA NextGood == ServerInv /\ [SecretServerNext]_secretVars => ServerInv'
<1> SUFFICES ASSUME ServerInv, [SecretServerNext]_secretVars PROVE ServerInv'
  OBVIOUS
<1> USE DEF ServerInv
<1>1. ASSUME UNCHANGED certVars PROVE RowInv' /\ VersionInv' /\ CallInv'
  <2>1. UNCHANGED certs /\ UNCHANGED serial /\ UNCHANGED call
    BY <1>1 DEF certVars
  <2>2. serial' \in Nat /\ serial <= serial'
    BY <2>1 DEF RowInv
  <2>3. RowInv' /\ VersionInv' /\ Stays /\ Ids' = Ids
    BY <2>1, <2>2, RowsSame
  <2>4. \A d \in Caller : call[d].pc = "save" => call[d].id \notin Ids'
    BY <2>3 DEF CallInv, Asks
  <2> QED
    BY <2>1, <2>2, <2>3, <2>4, CallsStay
<1>2. ASSUME UNCHANGED <<keys, tokens, handed>>
      PROVE  keys' \in [KeyName -> Nat \ {0}] /\ TokenInv'
  BY <1>2 DEF TokenInv, Descends
<1>3. CASE TokenStep
  BY <1>1, <1>3, TokenStepGood
<1>4. CASE MakeAuthority
  BY <1>2, <1>4, AuthorityGood
<1>5. ASSUME NEW c \in Caller, CertBegin(c) PROVE ServerInv'
  <2>1. UNCHANGED <<keys, tokens, handed>>
    BY <1>5 DEF CertBegin, CertManageCreateCert, CertManageGetCert
  <2>2. RowInv' /\ VersionInv' /\ CallInv'
    BY <1>5, AskGood, FetchGood, StoredKeys DEF CertBegin
  <2> QED
    BY <1>2, <2>1, <2>2
<1>6. ASSUME NEW c \in Caller, CertStep(c) PROVE ServerInv'
  <2>1. keys' \in [KeyName -> Nat \ {0}] /\ TokenInv'
    <3>1. CASE AnswerCert(c)
      <4>1. call[c].key \in KeyRef
        BY <3>1, AnsweredKey DEF AnswerCert, Goes
      <4>2. handed' = handed \cup {call[c].key} /\ UNCHANGED <<keys, tokens>>
        BY <3>1 DEF AnswerCert
      <4> QED
        BY <4>1, <4>2, HandedGood DEF TokenInv
    <3>2. CASE UNCHANGED <<keys, tokens, handed>>
      BY <1>2, <3>2
    <3> QED
      BY <1>6, <3>1, <3>2 DEF CertStep, LoadCertByName, LoadCAKey, RetrieveCerts,
            NextCertSerialNumber, SaveCert, LoadCertChainByName, LoadCertKey, Return
  <2>2. RowInv' /\ VersionInv' /\ CallInv'
    BY <1>6, AskGood, IssuerGood, SerialGood, SaveCertGood, FetchGood DEF CertStep
  <2> QED
    BY <2>1, <2>2
<1>7. CASE UNCHANGED secretVars
  BY <1>1, <1>2, <1>7 DEF secretVars, certVars
<1>8. CASE KeyStep
  BY <1>1, <1>8, KeyStepGood
<1> QED
  BY <1>3, <1>4, <1>5, <1>6, <1>7, <1>8 DEF SecretServerNext

\* Tokens, rows and requests fit together at every call of the storage: the
\* inductive invariant.
THEOREM SecretServerInvariant == SecretServerSpec => []ServerInv
<1> QED
  BY InitGood, NextGood, PTL DEF SecretServerSpec

\* VerifyJwtToken accepts every token that was answered, over any rotations of
\* its key, and the two tables of algorithms agree.
THEOREM TokensAreVerified == SecretServerSpec => []TokensVerify
<1>1. ServerInv => TokensVerify
  BY TokensAreChecked, SignedIsChecked DEF ServerInv, TokensVerify, TablesAgree
<1> QED
  BY <1>1, SecretServerInvariant, PTL

\* jwt/new never makes a token with jwt.admin out of one without, through any
\* number of requests.
THEOREM AdminIsInherited == SecretServerSpec => []AdminDescends
<1>1. ServerInv => AdminDescends
  BY DEF ServerInv, TokenInv, Descends, AdminDescends
<1> QED
  BY <1>1, SecretServerInvariant, PTL

\* The ca_list answered with a certificate is a complete chain of signatures from
\* a root to it, however keys and authorities are rotated during the request.
THEOREM ChainsAreComplete == SecretServerSpec => []ChainsComplete
<1>1. ServerInv => ChainsComplete
  <2> SUFFICES ASSUME ServerInv, NEW r \in certs, r.level = "cert"
               PROVE  Chain(Append(r.told, r.id))
    BY DEF ChainsComplete
  <2>1. r.told \in Seq(Nat) /\ r.id \in Nat
    BY RowFields DEF ServerInv, RowInv
  <2>2. Issuers(r.told) /\ Linked(Append(r.told, r.id))
    BY DEF ServerInv, RowInv
  <2>3. 1 \in 1 .. Len(r.told)
    BY <2>1, <2>2, Ends DEF Issuers
  <2>4. Append(r.told, r.id)[1] = r.told[1]
    BY <2>1, <2>3, AppendProperties
  <2> QED
    BY <2>2, <2>4 DEF Chain, Issuers, Linked
<1> QED
  BY <1>1, SecretServerInvariant, PTL

\* Whoever fetches a certificate gets the ca_list that was answered with it, and
\* is refused only where the chain is longer than LoadCertChainByName climbs.
THEOREM FetchesFit == SecretServerSpec => []FetchedFits
<1>1. ServerInv => FetchedFits
  <2> SUFFICES ASSUME ServerInv, NEW c \in Caller,
                      call[c].pc \in {"got", "tooLong"}
               PROVE  LET q == call[c] IN
                      /\ q.pc = "got" => /\ q.chain = Reverse(Append(At(q.id).told, q.id))
                                         /\ q.key = At(q.id).key
                      /\ q.pc = "tooLong" => Len(At(q.id).told) >= MaxLevels
    BY DEF FetchedFits
  <2>1. PICK q \in Call : q = call[c] /\ Fetches(q)
    BY DEF ServerInv, CallInv
  <2>2. PICK row : row = At(q.id)
    OBVIOUS
  <2>3. row \in certs /\ row.level = "cert" /\ q.key = row.key
    BY <2>1, <2>2, AtFact DEF Fetches, ServerInv, RowInv, AtFinds
  <2>4. row.told \in Seq(Nat) /\ q.id \in Nat /\ q.chain \in Seq(Nat)
    BY <2>3, RowFields, CallFields DEF ServerInv, RowInv
  <2>5. PICK list \in Seq(Nat) :
          /\ list = Append(row.told, q.id) /\ list # <<>>
          /\ Len(row.told) \in Nat /\ Len(list) = Len(row.told) + 1
          /\ DOMAIN list = 1 .. Len(row.told) + 1
          /\ \A j \in 1 .. Len(row.told) : list[j] = row.told[j]
          /\ list[Len(row.told) + 1] = q.id
    BY <2>4, Appended
  <2>6. /\ Len(q.chain) <= Len(list)
        /\ \A i \in DOMAIN q.chain : q.chain[i] = list[Len(list) + 1 - i]
        /\ q.pc = "got" => Len(q.chain) = Len(list)
        /\ q.pc = "tooLong" => Len(q.chain) > Levels
    BY <2>1, <2>2, <2>5 DEF Fetches
  <2>7. ASSUME q.pc = "got" PROVE q.chain = Reverse(list)
    <3>1. Len(q.chain) = Len(list) /\ DOMAIN q.chain = 1 .. Len(list)
      BY <2>4, <2>6, <2>7, LenProperties
    <3>2. \A i \in 1 .. Len(list) : q.chain[i] = list[(Len(list) - i) + 1]
      <4> SUFFICES ASSUME NEW i \in 1 .. Len(list)
                   PROVE  q.chain[i] = list[(Len(list) - i) + 1]
        OBVIOUS
      <4>1. (Len(list) - i) + 1 = Len(list) + 1 - i
        BY <2>5
      <4> QED
        BY <2>6, <3>1, <4>1
    <3>3. q.chain = [i \in 1 .. Len(list) |-> q.chain[i]]
      BY <2>4, <3>1, LenProperties
    <3> QED
      BY <3>2, <3>3 DEF Reverse
  <2>8. q.pc = "tooLong" => Len(row.told) >= MaxLevels
    BY <2>4, <2>5, <2>6, LenProperties, BoundsAssumption DEF Levels
  <2> QED
    BY <2>1, <2>2, <2>3, <2>5, <2>7, <2>8
<1> QED
  BY <1>1, SecretServerInvariant, PTL
=============================================================================
