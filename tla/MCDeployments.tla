--------------------------- MODULE MCDeployments ---------------------------
EXTENDS Deployments, TLC

CONSTANT web

\* web is deployed to the default namespace, the other keys share one namespace.
MCNamespace == [k \in Keys |-> IF k = web THEN "default" ELSE "apps"]

\* Clients and rows are interchangeable, and so are the names in a namespace.
Symmetry ==
    Permutations(Clients) \cup Permutations(Deployments) \cup Permutations(Keys \ {web})
=============================================================================
