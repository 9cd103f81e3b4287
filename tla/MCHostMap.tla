------------------------------ MODULE MCHostMap ------------------------------
(* HostMap for TLC: values are interchangeable within each set. *)
EXTENDS HostMap, TLC

Symmetry == Permutations(Threads) \cup Permutations(Handles)
              \cup Permutations(Keys) \cup Permutations(Conns)
=============================================================================
