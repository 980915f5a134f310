----------------------------- MODULE MCPresence -----------------------------
(* Presence for TLC: interchangeable goroutines are permuted. *)
EXTENDS Presence, TLC

Symmetry == Permutations(Clients) \cup Permutations(Workers)
            \cup Permutations(Fetchers)
=============================================================================
