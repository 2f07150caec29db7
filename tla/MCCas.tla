------------------------------- MODULE MCCas -------------------------------
(* Small instances of CentralAuthenticationService for TLC. *)
EXTENDS CasImplementsSso, TLC

\* Ids are interchangeable, and so are request threads.
Symmetry == Permutations(TGT) \cup Permutations(ST) \cup Permutations(Thread)
=============================================================================
