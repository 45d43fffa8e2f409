----------------------------- MODULE MCDataPump -----------------------------
(* Small instance of DataPump and ConfigStore: the pump of one server, with *)
(* pages of two rows, beside two concurrent calls of the write API.         *)
EXTENDS DataPump
=============================================================================
