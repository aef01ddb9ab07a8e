---------------------------- MODULE MCRegistries ----------------------------
EXTENDS Registries, TLC

CONSTANTS api, Api

\* Docker Hub lowers what is asked for as Api.
MCSlug == [n \in Names |-> IF n = Api THEN api ELSE n]

\* Clients and rows are interchangeable.
Symmetry == Permutations(Clients) \cup Permutations(Registries)
=============================================================================
