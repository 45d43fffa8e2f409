------------------------------- MODULE MCWal -------------------------------
(* Small instance of Wal: three calls of Write, a queue that two of them    *)
(* fill, and the files opened twice; everything may go wrong.               *)
EXTENDS Wal
=============================================================================
