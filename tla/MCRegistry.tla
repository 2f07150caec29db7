------------------------------ MODULE MCRegistry ------------------------------
\* Instances of DistributedRegistry for TLC.
EXTENDS DistributedRegistry, TLC

Symmetry == Permutations(Thread) \cup Permutations(ST) \cup Permutations(TGT)
=============================================================================
