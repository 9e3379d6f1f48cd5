--------------------------- MODULE MCAmpAllocator ---------------------------
(* Small instances of AmpAllocator for TLC. *)
EXTENDS AmpAllocator, TLC

CONSTANTS u, a,        \* a user buffer and a buffer of the runtime
          c1, c2, v1, v2

\* The safe client, and others that between them use every unsafe operation.
SomeClients == {{}, {"touchRunning", "touchSyncing"},
                {"rank1ToArray", "constViewData", "arraySubscript"},
                {"storeDiscarded", "sectionCopyIn"}}

\* Bound: only the safe client has more than one view at a time.
FewViews == unsafe # {} => rwq[u].ref + rwq[a].ref < 2

Symmetry == Permutations(Cell) \cup Permutations(Val)
=============================================================================
