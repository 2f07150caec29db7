------------------------------ MODULE MCClearPass ------------------------------
\* Instances of ClearPass for TLC.
EXTENDS ClearPass, TLC

Symmetry == Permutations(TGT) \cup Permutations(User) \cup Permutations(Thread)
=============================================================================
