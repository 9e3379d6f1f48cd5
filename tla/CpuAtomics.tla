----------------------------- MODULE CpuAtomics -----------------------------
(***************************************************************************)
(* The atomic operations of a kernel on the CPU, mcwamp_atomic.cpp, called *)
(* by the fibers that CpuExecutor runs: atomic_fetch_add, _max and _inc    *)
(* each with a mutex of its own, one for unsigned and one for int cells,   *)
(* whatever cell they are used on.                                         *)
(*                                                                         *)
(* An item calls at most one operation between two barriers.               *)
(***************************************************************************)
EXTENDS CpuExecutor, FiniteSets, FiniteSetsExt, Bags

CONSTANTS
    Cell,      \* cells that a kernel's atomic operations work on
    CellType,  \* CellType[c]: "unsigned" or "int"
    NoCall,    \* for a segment without an atomic operation, and for a free mutex
    Kernels    \* the kernels: what each item calls in each segment

Function == {"add", "max", "inc"}
Operation == [fn : Function, cell : Cell, val : Nat]
Mutex == Function \X {"unsigned", "int"}
Segment == Item \X (0 .. Barriers)

ASSUME CellAssumption == CellType \in [Cell -> {"unsigned", "int"}]
ASSUME NoCallAssumption == NoCall \notin Operation \cup Thread \cup Nat
ASSUME KernelAssumption == Kernels \subseteq [Segment -> Operation \cup {NoCall}]

VARIABLES
    kernel,  \* the kernel that is run
    cell,    \* the contents of the cells
    holder,  \* the thread that has a mutex locked, or NoCall
    at,      \* at[t], in the operation of a segment: "before", "loaded", "stored",
             \* "after"
    reg,     \* reg[t]: what t loaded and has not stored, or 0
    got      \* got[c]: the values that operations on c have returned, a bag

atomics == <<cell, holder, at, reg, got>>
avars == <<vars, kernel, atomics>>

AtomicInit ==
    /\ Init
    /\ kernel \in Kernels
    /\ cell = [c \in Cell |-> 0]
    /\ holder = [m \in Mutex |-> NoCall]
    /\ at = [t \in Thread |-> "before"] /\ reg = [t \in Thread |-> 0]
    /\ got = [c \in Cell |-> EmptyBag]

\* What t calls in the segment it runs, or NoCall.
Op(t) == kernel[<<cur[t].item, cur[t].seg>>]
Calling(t) == pc[t] = "fiber" /\ Op(t) # NoCall /\ at[t] # "after"

\* The mutex of an operation, and whether it can be locked.  (Mut_: the mutex is
\* a local variable of the call.)
MutexOf(op) == <<op.fn, CellType[op.cell]>>
Mut_Free(op) == TRUE
Free(op) == holder[MutexOf(op)] = NoCall

\* std::lock_guard's constructor, and the load of *x, which as the first step under
\* the mutex needs no step of its own.
Lock(t) ==
    /\ Calling(t) /\ at[t] = "before" /\ Free(Op(t))
    /\ holder' = [holder EXCEPT ![MutexOf(Op(t))] = t]
    /\ reg' = [reg EXCEPT ![t] = cell[Op(t).cell]]
    /\ at' = [at EXCEPT ![t] = "loaded"]
    /\ UNCHANGED <<cell, got>>

Updated(op, x) == CASE op.fn = "add" -> x + op.val
                    [] op.fn = "inc" -> x + 1
                    [] op.fn = "max" -> IF op.val > x THEN op.val ELSE x

\* What the store leaves of the mutexes.  (Mut_: the guard ends here already.)
Mut_AfterStore(t) == [holder EXCEPT ![MutexOf(Op(t))] = NoCall]
AfterStore(t) == holder

Store(t) ==
    /\ Calling(t) /\ at[t] = "loaded"
    /\ cell' = [cell EXCEPT ![Op(t).cell] = Updated(Op(t), reg[t])]
    /\ holder' = AfterStore(t)
    /\ at' = [at EXCEPT ![t] = "stored"] /\ reg' = [reg EXCEPT ![t] = 0]
    /\ UNCHANGED got

\* return *x, and the end of the guard.
Unlock(t) ==
    /\ Calling(t) /\ at[t] = "stored"
    /\ LET c == Op(t).cell
       IN  got' = [got EXCEPT ![c] = @ (+) SetToBag({cell[c]})]
    /\ holder' = [holder EXCEPT ![MutexOf(Op(t))] = NoCall]
    /\ at' = [at EXCEPT ![t] = "after"]
    /\ UNCHANGED <<cell, reg>>

\* A step of CpuExecutor, which for an item in a segment comes after its call.
Proceed(t) ==
    /\ Step(t) /\ ~Calling(t)
    /\ at' = [at EXCEPT ![t] = "before"]
    /\ UNCHANGED <<cell, holder, reg, got>>

AtomicStep(t) == \/ Proceed(t)
                 \/ UNCHANGED vars /\ (Lock(t) \/ Store(t) \/ Unlock(t))

Launcher == (Create \/ Join \/ Return) /\ UNCHANGED atomics

AtomicNext == /\ Launcher \/ \E t \in Thread : AtomicStep(t)
              /\ UNCHANGED kernel

\* As in CpuExecutor.  A kernel's calls are finitely many, so that a thread is
\* not kept from a mutex for ever.
AtomicSpec == /\ AtomicInit /\ [][AtomicNext]_avars
              /\ WF_avars(Launcher /\ UNCHANGED kernel)
              /\ \A t \in Thread : WF_avars(AtomicStep(t) /\ UNCHANGED kernel)

-----------------------------------------------------------------------------
OpOf(w) == kernel[<<w[2], w[3]>>]
On(c) == {w \in Work : OpOf(w) # NoCall /\ OpOf(w).cell = c}

\* Different operations on one cell do not exclude each other.
Mixed(c) == Cardinality({OpOf(w).fn : w \in On(c)}) > 1

Counted(c) == \A w \in On(c) : OpOf(w).fn \in {"add", "inc"}

\* What the operations of a kernel make of a cell, in any order.
Total(c) == IF Counted(c) THEN MapThenSumSet(LAMBDA w : Updated(OpOf(w), 0), On(c))
            ELSE Max({OpOf(w).val : w \in On(c)})

\* When parallel_for_each returns no update is lost, on cells that one operation
\* is used on; add with inc, or inc with max, on one cell can lose updates.
UpdatesKept == returned => \A c \in Cell : ~Mixed(c) => cell[c] = Total(c)

\* Two items that count in a cell by the same operation are told different
\* values, so that each can take a place of its own, as Bolt's sort does.
OwnPlace ==
    \A c \in Cell : ~Mixed(c) /\ Counted(c) =>
        \A v \in BagToSet(got[c]) : got[c][v] = 1
=============================================================================
