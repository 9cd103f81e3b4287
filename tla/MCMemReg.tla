------------------------------ MODULE MCMemReg ------------------------------
(* MemReg for TLC: values are interchangeable within each set. *)
EXTENDS MemReg, TLC

Symmetry == Permutations(Threads) \cup Permutations(Pids \ LegacyPids)
              \cup Permutations(Buffers) \cup Permutations(Addrs) \cup Permutations(Lkeys)
=============================================================================
