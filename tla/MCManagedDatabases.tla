------------------------- MODULE MCManagedDatabases -------------------------
EXTENDS ManagedDatabases, TLC

Symmetry == Permutations(Clients) \cup Permutations(Databases) \cup Permutations(Names)
              \cup Permutations(Workers)
=============================================================================
