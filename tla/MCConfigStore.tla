--------------------------- MODULE MCConfigStore ---------------------------
(* Small instance of ConfigStore: concurrent calls on a few rows.          *)
EXTENDS ConfigStore, TLC

\* The rows of the table, and the calls, are interchangeable.
StoreSymmetry == Permutations(Key) \cup Permutations(Writer)
=============================================================================
