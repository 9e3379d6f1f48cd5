---------------------------- MODULE CpuExecutor ----------------------------
(***************************************************************************)
(* How parallel_for_each runs a kernel on the CPU: NThread threads, each   *)
(* with a slice of the first dimension of the compute domain, work through *)
(* their tiles one by one.  The items of a tile are fibers, ucontexts that *)
(* a barrier chains into a ring: item TileSize runs first and hands over   *)
(* to the item below it, item 1 hands over to the thread's own context.    *)
(*                                                                         *)
(* An untiled domain is the case of tiles of one item without barriers.    *)
(***************************************************************************)
EXTENDS Naturals

CONSTANTS
    NThread,   \* std::thread::hardware_concurrency()
    Cols,      \* tiles in dimension 0, the one that is cut into slices
    Rows,      \* tiles in the other dimensions together
    TileSize,  \* items of a tile
    Barriers,  \* barriers each item passes, the same number for all items
    Wrap       \* number of values of an unsigned int; an int has half of them

\* hardware_concurrency() may return 0, and then nothing would run at all.
ASSUME SizeAssumption == /\ NThread \in Nat \ {0} /\ Cols \in Nat \ {0}
                         /\ Rows \in Nat \ {0} /\ TileSize \in Nat \ {0}
                         /\ Barriers \in Nat
ASSUME WrapAssumption == Wrap \in Nat /\ 2 * Cols <= Wrap /\ 2 * NThread <= Wrap

VARIABLES
    made, joined,  \* threads created, and joined, by the launching thread
    inKernel,      \* the flag of enter_kernel and leave_kernel
    returned,      \* parallel_for_each has returned
    pc,            \* pc[t]: "unborn", "new", "tile" (between tiles), "ring"
                   \* (in the loop around swap(0, id)), "fiber" or "done"
    row, col,      \* the tile that t works on
    idx,           \* barrier_t::idx
    ctx,           \* ctx[t][x], x > 0: what a switch to context x resumes
    cur,           \* the item that runs when pc[t] = "fiber"
    runs           \* executions of each piece of work, as in TileExecution

launcher == <<made, joined, inKernel, returned>>
threads == <<pc, row, col, idx, ctx, cur>>
vars == <<launcher, threads, runs>>

Thread == 0 .. (NThread - 1)
Item == 1 .. TileSize
Tile == (0 .. (Rows - 1)) \X (0 .. (Cols - 1))
Work == Tile \X Item \X (0 .. Barriers)

\* An item that will continue with segment seg.
Fiber == [item : Item, seg : 0 .. Barriers]

\* The slice of part is Bound(part) .. Bound(part + 1) - 1: a product of ints,
\* which wraps, divided as unsigned.  (Definitions named Mut_ are slips that the
\* properties must notice; no action uses them.  Here: the product is not
\* divided.)
Mut_Bound(part) == (Cols * part) % Wrap
Bound(part) == ((Cols * part) % Wrap) \div NThread

Init == /\ made = 0 /\ joined = 0 /\ inKernel = FALSE /\ returned = FALSE
        /\ pc = [t \in Thread |-> "unborn"]
        /\ row = [t \in Thread |-> 0] /\ col = [t \in Thread |-> 0]
        /\ idx = [t \in Thread |-> 0]
        /\ ctx = [t \in Thread |-> [x \in Item |-> [item |-> x, seg |-> 0]]]
        /\ cur = [t \in Thread |-> [item |-> 1, seg |-> 0]]
        /\ runs = [w \in Work |-> 0]

-----------------------------------------------------------------------------
(* The launching thread.                                                   *)

Create == /\ made < NThread
          /\ inKernel' = TRUE
          /\ made' = made + 1
          /\ pc' = [pc EXCEPT ![made] = "new"]
          /\ UNCHANGED <<joined, returned, row, col, idx, ctx, cur, runs>>

\* (Mut_: a thread is taken for joined whatever it does.)
Mut_Joinable(t) == TRUE
Joinable(t) == pc[t] = "done"

Join == /\ made = NThread /\ joined < NThread
        /\ Joinable(joined)
        /\ joined' = joined + 1
        /\ UNCHANGED <<made, inKernel, returned, threads, runs>>

Return == /\ joined = NThread /\ ~returned
          /\ inKernel' = FALSE
          /\ returned' = TRUE
          /\ UNCHANGED <<made, joined, threads, runs>>

-----------------------------------------------------------------------------
(* Thread t.                                                               *)

Begin(t) ==
    /\ pc[t] = "new"
    /\ IF Bound(t) = Bound(t + 1)
       THEN pc' = [pc EXCEPT ![t] = "done"] /\ UNCHANGED col
       ELSE /\ pc' = [pc EXCEPT ![t] = "tile"]
            /\ col' = [col EXCEPT ![t] = Bound(t)]
    /\ UNCHANGED <<launcher, row, idx, ctx, cur, runs>>

\* The loops over the tiles: columns of the slice inside, rows outside.
NextRow(t) ==
    /\ pc[t] = "tile" /\ row[t] < Rows /\ col[t] >= Bound(t + 1)
    /\ row' = [row EXCEPT ![t] = @ + 1]
    /\ col' = [col EXCEPT ![t] = Bound(t)]
    /\ pc' = IF row[t] + 1 = Rows THEN [pc EXCEPT ![t] = "done"] ELSE pc
    /\ UNCHANGED <<launcher, idx, ctx, cur, runs>>

\* setctx for every item; the ring starts as if all had just arrived.
SetContexts(t) ==
    /\ pc[t] = "tile" /\ row[t] < Rows /\ col[t] < Bound(t + 1)
    /\ ctx' = [ctx EXCEPT ![t] = [x \in Item |-> [item |-> x, seg |-> 0]]]
    /\ idx' = [idx EXCEPT ![t] = 0]
    /\ pc' = [pc EXCEPT ![t] = "ring"]
    /\ UNCHANGED <<launcher, row, col, cur, runs>>

\* while (idx == 0) { idx = id; swap(0, id); }
Round(t) ==
    /\ pc[t] = "ring" /\ idx[t] = 0
    /\ idx' = [idx EXCEPT ![t] = TileSize]
    /\ cur' = [cur EXCEPT ![t] = ctx[t][TileSize]]
    /\ pc' = [pc EXCEPT ![t] = "fiber"]
    /\ UNCHANGED <<launcher, row, col, ctx, runs>>

TileDone(t) ==
    /\ pc[t] = "ring" /\ idx[t] # 0
    /\ col' = [col EXCEPT ![t] = @ + 1]
    /\ pc' = [pc EXCEPT ![t] = "tile"]
    /\ UNCHANGED <<launcher, row, idx, ctx, cur, runs>>

\* Switch to context x: 0 is the thread's own.
Resume(t, x) ==
    IF x = 0 THEN pc' = [pc EXCEPT ![t] = "ring"] /\ UNCHANGED cur
    ELSE cur' = [cur EXCEPT ![t] = ctx[t][x]] /\ UNCHANGED pc

\* The running item executes its segment.
Execute(t) ==
    runs' = [runs EXCEPT ![<<<<row[t], col[t]>>, cur[t].item, cur[t].seg>>] = @ + 1]

\* The context that the running item is saved in when it waits.  (Mut_: the
\* item below is overwritten.)
Mut_SaveAt(t) == idx[t] - 1
SaveAt(t) == idx[t]

\* tile_barrier::wait, up to which the segment ran.
Wait(t) ==
    /\ pc[t] = "fiber" /\ cur[t].seg < Barriers
    /\ Execute(t)
    /\ idx' = [idx EXCEPT ![t] = @ - 1]
    /\ ctx' = [ctx EXCEPT ![t] = [x \in Item |->
                  IF x = SaveAt(t) THEN [cur[t] EXCEPT !.seg = @ + 1] ELSE @[x]]]
    /\ Resume(t, idx[t] - 1)
    /\ UNCHANGED <<launcher, row, col>>

\* The last segment ends, and uc_link names the next context.
Finish(t) ==
    /\ pc[t] = "fiber" /\ cur[t].seg = Barriers
    /\ Execute(t)
    /\ Resume(t, cur[t].item - 1)
    /\ UNCHANGED <<launcher, row, col, idx, ctx>>

-----------------------------------------------------------------------------
Step(t) == \/ Begin(t) \/ NextRow(t) \/ SetContexts(t) \/ Round(t) \/ TileDone(t)
           \/ Wait(t) \/ Finish(t)

Next == Create \/ Join \/ Return \/ \E t \in Thread : Step(t)

\* The operating system runs every thread that can run.
Fairness == /\ WF_vars(Create \/ Join \/ Return)
            /\ \A t \in Thread : WF_vars(Step(t))

Spec == Init /\ [][Next]_vars /\ Fairness

-----------------------------------------------------------------------------
\* Types: no slice reaches outside the domain, and the index of barrier_t never
\* leaves the array of contexts.
TypeOK == /\ made \in 0 .. NThread /\ joined \in 0 .. made
          /\ inKernel \in BOOLEAN /\ returned \in BOOLEAN
          /\ pc \in [Thread -> {"unborn", "new", "tile", "ring", "fiber", "done"}]
          /\ row \in [Thread -> 0 .. Rows] /\ col \in [Thread -> 0 .. Cols]
          /\ idx \in [Thread -> 0 .. TileSize]
          /\ ctx \in [Thread -> [Item -> Fiber]] /\ cur \in [Thread -> Fiber]
          /\ runs \in [Work -> Nat]

\* Slices, ring and contexts together run every segment of every item once,
\* with no item past a barrier its tile has not reached, and the call returns
\* after that, and does return: partitioned_task_tile with barrier_t and
\* tile_barrier implements TileExecution.
Execution == INSTANCE TileExecution
BarriersHold == Execution!Spec

\* parallel_for_each does not return before every index was executed.
AllRanOnReturn == returned => \A w \in Work : runs[w] = 1

\* The items still to be resumed in a round stand at the barrier that the
\* running one left, each in its own context, although wait names contexts by
\* the shared index and the end of an item by uc_link.
RingInStep ==
    \A t \in Thread : pc[t] = "fiber" =>
        \A x \in Item : x < cur[t].item =>
            ctx[t][x] = [item |-> x, seg |-> cur[t].seg]
=============================================================================
