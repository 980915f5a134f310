------------------------------ MODULE MCHistory ------------------------------
(* History for TLC: nodes, goroutines and tracks are interchangeable. *)
EXTENDS History, TLC

Symmetry == Permutations(Nodes) \cup Permutations(Workers) \cup Permutations(Tracks)

=============================================================================
