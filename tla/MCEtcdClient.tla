---------------------------- MODULE MCEtcdClient ----------------------------
(* Small instance of EtcdClient: two nodes, a key to lead and another one. *)
EXTENDS EtcdClient, TLC
=============================================================================
