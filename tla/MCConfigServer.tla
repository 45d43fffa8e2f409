--------------------------- MODULE MCConfigServer ---------------------------
(* Small instances of ConfigServer.  The configurations and the requests   *)
(* are few; every kind of event may come in any order.                     *)
EXTENDS ConfigServer, TLC

\* Requests are interchangeable, and so are the configurations of a store.
ServerSymmetry == Permutations(Request) \cup Permutations(Cfg)
=============================================================================
