-------------------------- MODULE MCNamespaceRead --------------------------
EXTENDS NamespaceRead, TLC

CONSTANTS d1, d2, m1, m2

NamespaceSymmetry == Permutations({d1, d2}) \cup Permutations({m1, m2})
=============================================================================
