----------------------------- MODULE DeviceNew -----------------------------
(***************************************************************************)
(* operator new and delete in a kernel (hsa_new.h, new_delete.hsail).  The *)
(* device cannot allocate: a work item leaves a request in a slot of a     *)
(* table and spins until a thread of the host has answered it there.       *)
(* There are two tables with a thread each: "X" for Xmalloc, where the     *)
(* first item of a tile asks for one block for the whole tile, and "M" for *)
(* the malloc of one item and for delete.  A counter in front of a block   *)
(* says how many items still have a part of it.                            *)
(*                                                                         *)
(* One of the kernels in Kernel runs, of one dimension: the slots are      *)
(* numbered by work items and tiles of dimension 0 only, so in a kernel of *)
(* more dimensions items would share them.  Each item calls new, in the    *)
(* version that MallocSelect has chosen for the kernel, and delete; with   *)
(* malloc it may also skip new and delete a null pointer.                  *)
(***************************************************************************)
EXTENDS Integers, FiniteSets

CONSTANTS
    Kernel,    \* kernels: the version of new, the number of tiles, the work
               \* items of a tile, and whether an item may delete as soon as
               \* its new returns or waits at a barrier of its tile first
    Block,     \* addresses that malloc may return
    Garbage,   \* what a counter may hold before it is stored
    Unset      \* what a service thread's result may hold before it is stored

\* The blocks that a kernel needs at once.
Needs(k) == IF k.version = "Xmalloc" THEN k.tiles ELSE k.tiles * k.size

ASSUME KernelAssumption ==
    Kernel \subseteq [version : {"Xmalloc", "malloc"}, tiles : Nat \ {0},
                      size : Nat \ {0}, deleteAtOnce : BOOLEAN]
\* The heap is large enough: malloc never returns NULL, which is no block.
ASSUME HeapAssumption == /\ IsFiniteSet(Block) /\ 0 \notin Block
                         /\ Garbage \subseteq Int
                         /\ Unset \subseteq Block \cup {0} /\ Unset # {}
                         /\ \A k \in Kernel : Cardinality(Block) >= Needs(k)

Service == {"X", "M"}
Halt == 0
Exit == -1

VARIABLES
    kernel,     \* the kernel that runs
    pc,         \* where item p is in new, then in delete
    ptr,        \* the block that p was given, from "took" on
    signal,     \* XmallocFlag and mallocFlag
    call, arg,  \* call[th][i], arg[th][i]: system call number (1 malloc, 2
                \* free) and parameter or result in slot i of table th
    svc,        \* svc[th]: "wait", "scan", "reply", "reset" or "left"
    at, result, \* the slot th looks at and the result for it
    live,       \* blocks in use
    counter,    \* the first word of a block
    main        \* "run", "exitX", "exitM", "joinX", "joinM" or "gone"

device == <<pc, ptr, signal>>
tables == <<call, arg>>
threads == <<svc, at, result>>
heap == <<live, counter>>
vars == <<kernel, device, tables, threads, heap, main>>

Shared == kernel.version = "Xmalloc"
Item == 1 .. kernel.tiles * kernel.size
Tile == 1 .. kernel.tiles
TileOf(p) == (p - 1) \div kernel.size + 1
Leader(t) == (t - 1) * kernel.size + 1
Members(t) == {p \in Item : TileOf(p) = t}

\* The slots of a table.
Slot == [th \in Service |-> IF th = "X" THEN Tile ELSE Item]

Init ==
    /\ kernel \in Kernel
    /\ pc = [p \in Item |-> "new"] /\ ptr = [p \in Item |-> 0]
    /\ signal = [th \in Service |-> Halt]
    /\ call = [th \in Service |-> [i \in Slot[th] |-> 0]]
    /\ arg = [th \in Service |-> [i \in Slot[th] |-> 0]]
    /\ svc = [th \in Service |-> "wait"]
    /\ at = [th \in Service |-> 1] /\ result = [th \in Service |-> 0]
    /\ live = {} /\ counter \in [Block -> Garbage]
    /\ main = "run"

-----------------------------------------------------------------------------
(* Work items.                                                             *)

Goto(p, l) == pc' = [pc EXCEPT ![p] = l]
Past(q, labels) == pc[q] \notin labels

\* The thread that serves new, and the slot of p there.  (Definitions named
\* Mut_ are slips that the properties must notice; no action uses them.  Here:
\* the slot is that of the item's number in its tile.)
NewService == IF Shared THEN "X" ELSE "M"
Mut_ItemSlot(p) == ((p - 1) % kernel.size) + 1
ItemSlot(p) == p
NewSlot(p) == IF Shared THEN TileOf(p) ELSE ItemSlot(p)

\* On entry the signal counts one more item that may want service, and on
\* return one less.  (Mut_: never less; and: a store instead of the sum.)
Mut_Climb(th, n) == signal' = [signal EXCEPT ![th] = @ + 1]
Mut_Store(th, n) == signal' = [signal EXCEPT ![th] = IF n > 0 THEN n ELSE 0]
Count(th, n) == signal' = [signal EXCEPT ![th] = @ + n]

Request(th, i, number, parameter) ==
    /\ arg' = [arg EXCEPT ![th][i] = parameter]
    /\ call' = [call EXCEPT ![th][i] = number]

EnterNew(p) ==
    /\ pc[p] = "new"
    /\ Count(NewService, 1) /\ Goto(p, "in")
    /\ UNCHANGED <<kernel, ptr, tables, threads, heap, main>>

\* An item that does not need memory has a null pointer.  (With Xmalloc the
\* whole tile calls new, which has barriers.)
SkipNew(p) ==
    /\ pc[p] = "new" /\ ~Shared
    /\ ptr' = [ptr EXCEPT ![p] = 0]
    /\ Goto(p, "owner")
    /\ UNCHANGED <<kernel, signal, tables, threads, heap, main>>

\* malloc: every item asks.  Xmalloc: the leader asks, after the barriers of
\* the prefix sum, that is, when the whole tile has entered.
AskNew(p) ==
    /\ pc[p] = "in"
    /\ Shared => /\ p = Leader(TileOf(p))
                 /\ \A q \in Members(TileOf(p)) : Past(q, {"new"})
    /\ Request(NewService, NewSlot(p), 1, 0)
    /\ Goto(p, "asked")
    /\ UNCHANGED <<kernel, ptr, signal, threads, heap, main>>

\* The end of the spinning; with Xmalloc it releases the tile's barrier.
Answered(p) ==
    /\ pc[p] = "asked" /\ call[NewService][NewSlot(p)] = 0
    /\ Goto(p, "answered")
    /\ UNCHANGED <<kernel, ptr, signal, tables, threads, heap, main>>

\* Load the address of the block.
TakeBlock(p) ==
    /\ \/ pc[p] = "answered"
       \/ /\ Shared /\ pc[p] = "in" /\ p # Leader(TileOf(p))
          /\ Past(Leader(TileOf(p)), {"new", "in", "asked"})
    /\ ptr' = [ptr EXCEPT ![p] = arg[NewService][NewSlot(p)]]
    /\ Goto(p, "took")
    /\ UNCHANGED <<kernel, signal, tables, threads, heap, main>>

\* Who has a part of a new block: one item, or the tile.  (Mut_: the leader is
\* counted twice.)
Mut_Shares == IF Shared THEN kernel.size + 1 ELSE 1
Shares == IF Shared THEN kernel.size ELSE 1

\* The leader, or the only item, stores the counter; the header is each item's
\* own.  No barrier follows.
StoreHeader(p) ==
    /\ pc[p] = "took"
    /\ counter' = IF ~Shared \/ p = Leader(TileOf(p))
                  THEN [counter EXCEPT ![ptr[p]] = Shares] ELSE counter
    /\ Goto(p, "stored")
    /\ UNCHANGED <<kernel, ptr, signal, tables, threads, live, main>>

LeaveNew(p) ==
    /\ pc[p] = "stored"
    /\ Count(NewService, -1) /\ Goto(p, "owner")
    /\ UNCHANGED <<kernel, ptr, tables, threads, heap, main>>

InNew == {"new", "in", "asked", "answered", "took", "stored"}

EnterDelete(p) ==
    /\ pc[p] = "owner"
    /\ kernel.deleteAtOnce \/ \A q \in Members(TileOf(p)) : Past(q, InNew)
    /\ Count("M", 1) /\ Goto(p, "delete")
    /\ UNCHANGED <<kernel, ptr, tables, threads, heap, main>>

AskDelete(p) ==
    /\ pc[p] = "delete"
    /\ Request("M", ItemSlot(p), 2, ptr[p]) /\ Goto(p, "deleting")
    /\ UNCHANGED <<kernel, ptr, signal, threads, heap, main>>

LeaveDelete(p) ==
    /\ pc[p] = "deleting" /\ call["M"][ItemSlot(p)] = 0
    /\ Count("M", -1) /\ Goto(p, "end")
    /\ UNCHANGED <<kernel, ptr, tables, threads, heap, main>>

-----------------------------------------------------------------------------
(* The service threads of NewInit.                                         *)

Serving(th, l) == svc' = [svc EXCEPT ![th] = l]

\* hsa_signal_wait_acquire with HSA_NE.  (Mut_: with HSA_GTE.)
Mut_Awake(th) == signal[th] > Halt
Awake(th) == signal[th] # Halt

Wake(th) == /\ svc[th] = "wait" /\ Awake(th)
            /\ Serving(th, IF signal[th] = Exit THEN "left" ELSE "scan")
            /\ at' = [at EXCEPT ![th] = 1]
            /\ UNCHANGED <<kernel, device, tables, result, heap, main>>

Slots(th) == Cardinality(Slot[th])
Finding(th, number) == /\ svc[th] = "scan" /\ at[th] <= Slots(th)
                       /\ call[th][at[th]] = number

Skip(th) == /\ Finding(th, 0)
            /\ at' = [at EXCEPT ![th] = @ + 1]
            /\ UNCHANGED <<kernel, device, tables, svc, result, heap, main>>

Malloc(th) == /\ Finding(th, 1)
              /\ \E b \in Block \ live, g \in Garbage :
                    /\ live' = live \cup {b}
                    /\ counter' = [counter EXCEPT ![b] = g]
                    /\ result' = [result EXCEPT ![th] = b]
              /\ Serving(th, "reply")
              /\ UNCHANGED <<kernel, device, tables, at, main>>

\* (Mut_: the block goes one share too early.)
Mut_Unused(n) == n <= 1
Unused(n) == n = 0

\* A null pointer is left alone; else the counter in front of the block that
\* the parameter leads to.  Only the path that keeps the block stores a
\* result, the others reply with what an uninitialized variable holds.
Free == /\ Finding("M", 2)
        /\ LET b == arg["M"][at["M"]]
               last == Unused(counter[b] - 1)
           IN  /\ counter' = IF b = 0 THEN counter ELSE [counter EXCEPT ![b] = @ - 1]
               /\ live' = IF b # 0 /\ last THEN live \ {b} ELSE live
               /\ \E r \in IF b # 0 /\ ~last THEN {0} ELSE Unset :
                     result' = [result EXCEPT !["M"] = r]
        /\ Serving("M", "reply")
        /\ UNCHANGED <<kernel, device, tables, at, main>>

Reply(th) == /\ svc[th] = "reply"
             /\ arg' = [arg EXCEPT ![th][at[th]] = result[th]]
             /\ Serving(th, "reset")
             /\ UNCHANGED <<kernel, device, call, at, result, heap, main>>

Reset(th) == /\ svc[th] = "reset"
             /\ call' = [call EXCEPT ![th][at[th]] = 0]
             /\ at' = [at EXCEPT ![th] = @ + 1]
             /\ Serving(th, "scan")
             /\ UNCHANGED <<kernel, device, arg, result, heap, main>>

Sleep(th) == /\ svc[th] = "scan" /\ at[th] > Slots(th)
             /\ Serving(th, "wait")
             /\ UNCHANGED <<kernel, device, tables, at, result, heap, main>>

-----------------------------------------------------------------------------
(* ~NewInit, when main returns: the kernel has been waited for.            *)

StopX == /\ main = "run" /\ \A p \in Item : pc[p] = "end"
         /\ signal' = [signal EXCEPT !["X"] = Exit]
         /\ main' = "exitM"
         /\ UNCHANGED <<kernel, pc, ptr, tables, threads, heap>>

StopM == /\ main = "exitM"
         /\ signal' = [signal EXCEPT !["M"] = Exit]
         /\ main' = "joinX"
         /\ UNCHANGED <<kernel, pc, ptr, tables, threads, heap>>

JoinThread(th, from, to) == /\ main = from /\ svc[th] = "left"
                            /\ main' = to
                            /\ UNCHANGED <<kernel, device, tables, threads, heap>>

-----------------------------------------------------------------------------
ItemStep(p) == \/ SkipNew(p) \/ EnterNew(p) \/ AskNew(p) \/ Answered(p) \/ TakeBlock(p)
               \/ StoreHeader(p) \/ LeaveNew(p)
               \/ EnterDelete(p) \/ AskDelete(p) \/ LeaveDelete(p)

ServiceStep(th) == \/ Wake(th) \/ Skip(th) \/ Malloc(th) \/ (th = "M" /\ Free)
                   \/ Reply(th) \/ Reset(th) \/ Sleep(th)

MainStep == \/ StopX \/ StopM
            \/ JoinThread("X", "joinX", "joinM") \/ JoinThread("M", "joinM", "gone")

Next == \/ MainStep
        \/ \E p \in Item : ItemStep(p)
        \/ \E th \in Service : ServiceStep(th)

\* The operating system runs every thread; the device runs every work item of
\* a kernel (spinning is no step here, so that needs no more than that).
Fairness == /\ WF_vars(MainStep)
            /\ \A p \in UNION {1 .. k.tiles * k.size : k \in Kernel} :
                  WF_vars(p \in Item /\ ItemStep(p))
            /\ \A th \in Service : WF_vars(ServiceStep(th))

Spec == Init /\ [][Next]_vars /\ Fairness

-----------------------------------------------------------------------------
Labels == InNew \cup {"owner", "delete", "deleting", "end"}

\* Types: the signals count the items, and the threads stay in their tables.
TypeOK ==
    /\ kernel \in Kernel
    /\ pc \in [Item -> Labels] /\ ptr \in [Item -> Block \cup {0}]
    /\ signal \in [Service -> Exit .. Cardinality(Item)]
    /\ \A th \in Service : /\ call[th] \in [Slot[th] -> 0 .. 2]
                           /\ arg[th] \in [Slot[th] -> Block \cup {0}]
                           /\ at[th] \in 1 .. Slots(th) + 1
    /\ svc \in [Service -> {"wait", "scan", "reply", "reset", "left"}]
    /\ result \in [Service -> Block \cup {0}]
    /\ live \subseteq Block /\ counter \in [Block -> Int]
    /\ main \in {"run", "exitM", "joinX", "joinM", "gone"}

\* p has been given a part of a block and its delete has not been served.
Holds(p) ==
    /\ ptr[p] # 0
    /\ \/ pc[p] \in {"took", "stored", "owner", "delete"}
       \/ /\ pc[p] = "deleting" /\ call["M"][ItemSlot(p)] = 2
          /\ ~(svc["M"] \in {"reply", "reset"} /\ at["M"] = ItemSlot(p))

\* Nobody deletes before the tile's counter is stored.  With a shared block
\* that takes a barrier between new and delete, or items that run in step.
CounterFirst == Shared => ~kernel.deleteAtOnce

\* What new returned stays allocated until its own delete, although a whole
\* tile shares one block and one counter that the host counts down.
HeldIsLive == CounterFirst => \A p \in Item : Holds(p) => ptr[p] \in live

\* Two items are given the same block only as a tile that Xmalloc serves, and
\* then always: answers in the shared tables reach the item that asked.
OwnAnswer ==
    CounterFirst => \A p, q \in Item : Holds(p) /\ Holds(q) =>
        (ptr[p] = ptr[q]
         <=> p = q \/ (Shared /\ TileOf(p) = TileOf(q)))

\* When every item has deleted what it got, every block has been freed (the
\* counts of mallocs and frees that NewInit keeps agree).
NothingLeaks ==
    CounterFirst /\ (\A p \in Item : pc[p] = "end") => live = {}

\* A request is never left to a thread that sleeps: while one is pending the
\* signal keeps the thread from waiting.
PendingKeepsAwake ==
    \A th \in Service : (\E i \in Slot[th] : call[th][i] # 0) =>
        signal[th] # Halt /\ svc[th] # "left"

\* Every kernel ends, and so does the program: each request is answered and
\* both threads see Exit.
Finishes == <>(main = "gone")
=============================================================================
