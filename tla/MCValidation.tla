----------------------------- MODULE MCValidation -----------------------------
\* Instances of ServiceValidation for TLC.
EXTENDS ServiceValidation, TLC

Symmetry == Permutations(ST) \cup Permutations(Request)
=============================================================================
