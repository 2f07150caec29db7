------------------------------- MODULE MCLogin -------------------------------
\* Instances of LoginFlow for TLC.
EXTENDS LoginFlow, TLC

Symmetry == Permutations(TGT) \cup Permutations(LT) \cup Permutations(Window)
=============================================================================
