----------------------------- MODULE MCStackRoutes -----------------------------
EXTENDS StackRoutes, TLC
Symmetry == Permutations(Service)
================================================================================
