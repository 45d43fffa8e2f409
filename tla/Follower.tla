------------------------------ MODULE Follower ------------------------------
(***************************************************************************)
(* What one configuration server promises to whoever reads from it, and    *)
(* what ConfigClient assumes of each of its servers: while the server      *)
(* listens, the state it answers with moves forward through the changes    *)
(* that have been committed, never back, and whoever sees a change sees    *)
(* all that was committed before it.  A server that does not listen may    *)
(* have lost all of it.                                                    *)
(***************************************************************************)
EXTENDS Naturals

CONSTANT Key

VARIABLES
    truth,      \* the number of the last change committed to each configuration
    view,       \* the number of the change the server answers with, 0 for none
    whole,      \* whether the server read all there was when it started
    listening   \* whether readers can ask

vars == <<truth, view, whole, listening>>

\* As far as v goes there are no gaps in it.
Prefix(v) == \A j, k \in Key : truth[k] <= v[j] => v[k] = truth[k]

FollowerInit ==
    /\ truth \in [Key -> Nat]
    /\ view = [k \in Key |-> 0]
    /\ listening = FALSE
    /\ whole = TRUE

\* A change is committed: its number is above all the numbers before it.
Publish(k) ==
    /\ truth' \in [Key -> Nat]
    /\ \A j \in Key : truth[j] < truth'[k]
    /\ \A j \in Key \ {k} : truth'[j] = truth[j]
    /\ UNCHANGED <<view, whole, listening>>

\* The server learns of changes; readers see all of them at once.
Follow ==
    /\ view' \in [Key -> Nat]
    /\ \A k \in Key : view[k] <= view'[k] /\ view'[k] <= truth[k]
    /\ listening /\ whole => Prefix(view')
    /\ UNCHANGED <<truth, whole, listening>>

\* Nobody can ask: the process is starting, or gone with all it knew.
Reload ==
    /\ ~listening'
    /\ view' \in [Key -> Nat]
    /\ \A k \in Key : view'[k] <= truth[k]
    /\ whole' \in BOOLEAN
    /\ UNCHANGED truth

Open ==
    /\ ~listening /\ listening'
    /\ whole => Prefix(view)
    /\ UNCHANGED <<truth, view, whole>>

FollowerNext == (\E k \in Key : Publish(k)) \/ Follow \/ Reload \/ Open

FollowerSpec == FollowerInit /\ [][FollowerNext]_vars
=============================================================================
