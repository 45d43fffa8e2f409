------------------------------ MODULE Rotation ------------------------------
(***************************************************************************)
(* What the secret store promises of a name: a sequence of versions that   *)
(* only grows at its end, whose last one alone is valid and whose kind     *)
(* never changes.  The three tables of configure/secretimpl/ddl_pg.sql     *)
(* keep it with a transaction of several statements and a unique index.    *)
(***************************************************************************)
EXTENDS Naturals, Sequences

CONSTANTS
    Name,   \* what is rotated
    Kind    \* what never changes about a name: the type of its key

VARIABLE ring   \* ring[n]: the versions of n, oldest first

Retired(s) == [i \in DOMAIN s |-> [s[i] EXCEPT !.valid = FALSE]]

RotationInit == ring = [n \in Name |-> <<>>]

Rotate(n, k) ==
    /\ ring[n] # <<>> => ring[n][1].kind = k
    /\ ring' = [ring EXCEPT ![n] = Append(Retired(@), [kind |-> k, valid |-> TRUE])]

RotationNext == \E n \in Name, k \in Kind : Rotate(n, k)

RotationSpec == RotationInit /\ [][RotationNext]_ring
=============================================================================
