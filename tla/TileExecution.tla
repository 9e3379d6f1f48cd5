--------------------------- MODULE TileExecution ---------------------------
(***************************************************************************)
(* What parallel_for_each promises about a compute domain cut into tiles:  *)
(* each item of each tile runs its kernel once, in segments that the       *)
(* kernel's barriers separate; no item is past a barrier before all items  *)
(* of its tile have reached it; the call returns when everything has run.  *)
(***************************************************************************)
EXTENDS Naturals

CONSTANTS Tile,      \* the tiles of the compute domain
          Item,      \* the items of a tile
          Barriers   \* barriers that the kernel passes

VARIABLES runs,      \* runs[w]: how often the piece of work w was executed
          returned   \* parallel_for_each has returned

vars == <<runs, returned>>

\* A tile, an item of it, and one of its segments.
Work == Tile \X Item \X (0 .. Barriers)

Init == runs = [w \in Work |-> 0] /\ returned = FALSE

Run(t, i, s) == /\ ~returned
                /\ runs[<<t, i, s>>] = 0
                /\ \A j \in Item, q \in 0 .. Barriers : q < s => runs[<<t, j, q>>] = 1
                /\ runs' = [runs EXCEPT ![<<t, i, s>>] = 1]
                /\ UNCHANGED returned

Return == /\ ~returned
          /\ \A w \in Work : runs[w] = 1
          /\ returned' = TRUE
          /\ UNCHANGED runs

Next == Return \/ \E t \in Tile, i \in Item, s \in 0 .. Barriers : Run(t, i, s)

Spec == Init /\ [][Next]_vars /\ WF_vars(Next)
=============================================================================
