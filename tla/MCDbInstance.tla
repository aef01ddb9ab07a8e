---------------------------- MODULE MCDbInstance ----------------------------
EXTENDS DbInstance, TLC

\* Rows are interchangeable, and so are request slots.
Symmetry == Permutations(Instances) \cup Permutations(Workers)
=============================================================================
