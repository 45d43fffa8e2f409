--------------------------- MODULE MCSecretServer ---------------------------
(* Small instance of SecretServer: one key that signs both tokens and        *)
(* certificates, and chains that are longer than LoadCertChainByName climbs. *)
EXTENDS SecretServer, TLC

OneKey == {"key"}
OneKeyType == [k \in OneKey |-> "rsa1024"]

Requests == {{SecretJwtAdmin, SecretCertAdmin}, {SecretJwtNew, SecretCertAdmin},
             {SecretCertAdmin, SecretKeyAdmin}, {"read:unknown"}, {}}

\* Tokens and certificates only meet in the permission to ask for certificates and
\* keys, and in the keys handed out: with certificates, one token that has the
\* permissions is all that is explored, until a key is handed out.
TokensOrCerts ==
    \/ serial = 0
    \/ /\ handed = {}
       /\ \E t \in tokens :
             tokens = {t} /\ {SecretCertAdmin, SecretKeyAdmin} \subseteq t.permissions

SecretServerSymmetry == Permutations(Caller) \cup Permutations(CAName)
=============================================================================
