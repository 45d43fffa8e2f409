--------------------------- MODULE MCSecretStore ---------------------------
(* Small instance of SecretStore: two processes whose providers differ.    *)
EXTENDS SecretStore, TLC

CONSTANTS c1, c2

\* The second process was given a second unseal key.
TwoProviders == (c1 :> {1}) @@ (c2 :> {1, 2})

\* A name that others refer to is rotated under a call that has read it.
Bounds == [n \in Name |-> IF n \in CertName THEN 1 ELSE 2]
=============================================================================
