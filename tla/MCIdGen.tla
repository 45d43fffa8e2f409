------------------------------ MODULE MCIdGen ------------------------------
EXTENDS IdGen, FiniteSets, TLC

\* The goroutines are interchangeable.
ThreadSymmetry == Permutations(Thread)

\* Bound of the model: the identifiers handed out.
FewIssued == Cardinality(issued) <= 4
=============================================================================
