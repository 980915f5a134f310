------------------------------- MODULE MCAccess -------------------------------
(* Access for TLC: goroutines and users are interchangeable. *)
EXTENDS Access, TLC

Symmetry == Permutations(Users) \cup Permutations(Workers)

=============================================================================
