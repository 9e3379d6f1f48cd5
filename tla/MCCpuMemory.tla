---------------------------- MODULE MCCpuMemory ----------------------------
(* Small instances of CpuMemory for TLC; the cfg files give the constants. *)
EXTENDS CpuMemory, TLC
CONSTANTS b1, b2, f1, f2, v1, v2
Symmetry == Permutations({b1, b2}) \cup Permutations({f1, f2})
            \cup Permutations({v1, v2})
=============================================================================
