------------------------------ MODULE MCIngress ------------------------------
EXTENDS Ingress, TLC
Symmetries == Permutations(Flows) \cup Permutations(Targets) \cup Permutations(Jobs)
=============================================================================
