--------------------------- MODULE MCRepositories ---------------------------
EXTENDS Repositories, TLC

CONSTANTS acme, alice, api, web

\* acme is the account of the token; what alice asks for is created under it.
MCLogin == [o \in Owners |-> acme]

\* GitHub gives what is asked for as web the name api.
MCSlug == [n \in Names |-> api]

Symmetry == Permutations(Clients) \cup Permutations(Repos)
=============================================================================
