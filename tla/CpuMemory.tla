----------------------------- MODULE CpuMemory -----------------------------
(***************************************************************************)
(* Memory on the CPU runtime: CPUAMPAllocator keeps a shadow of the user   *)
(* memory behind an array_view, and a launch makes the kernel's functor    *)
(* work on it by exchanging the shared_ptr in each of the functor's views. *)
(* Each view of a functor is serialized, that is, goes through append and  *)
(* PushArg, once before the kernel and once after it.                      *)
(*                                                                         *)
(* The views on a pointer are copies of one shared_ptr, as views copied    *)
(* from each other are.  Memory that the runtime allocates itself has no   *)
(* shadow and takes no part.  AmpAllocator has the other operations.       *)
(*                                                                         *)
(* Clients may do all of this in any order; the ghost variable careful     *)
(* becomes FALSE with the first operation of UnsafeOps.                    *)
(***************************************************************************)
EXTENDS Naturals, FiniteSets

CONSTANTS
    Buf,       \* pieces of user memory
    Functor,   \* function objects
    NSlot,     \* array_views that each of them captures
    Val,       \* contents
    Unsafe     \* the client operations, among UnsafeOps, that are used

UnsafeOps == {
    "reuse",       \* launch a functor again, or use its own views on the
                   \* host after a launch
    "soleOwner",   \* launch a functor that holds the only views of a pointer
    "otherThread"} \* use or give up a view on another thread during a kernel

ASSUME SlotAssumption == NSlot \in Nat \ {0}
ASSUME ClientAssumption == Unsafe \subseteq UnsafeOps

VARIABLES
    view,     \* view[b]: the host program has a view of b
    entry,    \* entry[b]: b has its entries in rwq and mem_info (free leaves
              \* the latter behind when it deletes b)
    dirty,    \* rwq[b].dirty: the shadow is the good copy
    user,     \* user[b]: the content of user memory
    shadow,   \* shadow[b]: the content of mem_info[b].data
    temp,     \* ref of the entry that a launch puts in mem_info for the
              \* shadow of b; the entry keeps a shared_ptr to b
    freed,    \* the runtime deleted b, which is not its own
    cap,      \* cap[f][n]: buffer and pointer of view n of functor f; pointer
              \* "lost" is a shadow whose entry is gone; <<>> if f does not exist
    phase,    \* "host", "before", "kernel" or "after"
    cur, next,  \* the functor that is launched, its next view to serialize
    io,       \* the access of the last step, as in CoherentArray
    careful   \* no unsafe operation until now

memory == <<user, shadow>>
table == <<entry, dirty, temp, freed>>
launch == <<phase, cur, next>>
vars == <<view, cap, table, memory, launch, io, careful>>

Slot == 1 .. NSlot
Capture == [buf : Buf, ptr : {"user", "shadow", "lost"}]
Made(f) == cap[f] # <<>>

Silent == [op |-> "silent"]
Access(op, b, v) == [op |-> op, buf |-> b, elems |-> <<v>>]

Uses(op) == op \in Unsafe /\ careful' = FALSE

Init == /\ view = [b \in Buf |-> FALSE]
        /\ entry = [b \in Buf |-> FALSE] /\ dirty = [b \in Buf |-> FALSE]
        /\ user \in [Buf -> Val] /\ shadow \in [Buf -> Val]
        /\ temp = [b \in Buf |-> 0] /\ freed = [b \in Buf |-> FALSE]
        /\ cap = [f \in Functor |-> <<>>]
        /\ phase = "host" /\ cur \in Functor /\ next = 1
        /\ io = Silent /\ careful = TRUE

-----------------------------------------------------------------------------
(* The deleter of the shared_ptr, AMPAllocator::free, on the host thread.  *)

\* Owners of the pointer besides temporary entries: the host's view and the
\* views of functors, given the two variables' values.
Owned(b, views, caps) ==
    views[b] \/ \E f \in Functor : \E n \in DOMAIN caps[f] :
                                       caps[f][n] = [buf |-> b, ptr |-> "user"]

\* sync: the shadow goes to user memory if it is the good copy.
SyncedUser(b) == IF dirty[b] THEN shadow[b] ELSE user[b]

\* The views become views and the functors caps; buffers without an owner are
\* synchronized and unregistered, and a shadow that a functor still holds is
\* nobody's.
Release(views, caps) ==
    LET gone == {b \in Buf : entry[b] /\ ~Owned(b, views, caps)} IN
    /\ view' = views
    /\ user' = [b \in Buf |-> IF b \in gone THEN SyncedUser(b) ELSE user[b]]
    /\ dirty' = [b \in Buf |-> dirty[b] /\ b \notin gone]
    /\ entry' = [b \in Buf |-> entry[b] /\ b \notin gone]
    /\ cap' = [f \in Functor |-> [n \in DOMAIN caps[f] |->
                  IF caps[f][n].ptr = "shadow" /\ caps[f][n].buf \in gone
                  THEN [caps[f][n] EXCEPT !.ptr = "lost"] ELSE caps[f][n]]]
    /\ io' = Silent
    /\ UNCHANGED <<shadow, temp, freed, launch, careful>>

-----------------------------------------------------------------------------
(* The host program between launches.                                      *)

Host == phase = "host"

\* A view is made on user memory: init and regist.  The shadow is unset.
Open(b) == /\ Host /\ ~entry[b] /\ ~freed[b]
           /\ view' = [view EXCEPT ![b] = TRUE]
           /\ entry' = [entry EXCEPT ![b] = TRUE]
           /\ \E v \in Val : shadow' = [shadow EXCEPT ![b] = v]
           /\ io' = Silent
           /\ UNCHANGED <<user, dirty, temp, freed, cap, launch, careful>>

Close(b) == /\ Host /\ view[b]
            /\ Release([view EXCEPT ![b] = FALSE], cap)

\* A functor is made with copies of the host's views.
Make(f, bufs) == /\ Host /\ ~Made(f) /\ \A n \in Slot : view[bufs[n]]
                 /\ cap' = [cap EXCEPT ![f] =
                       [n \in Slot |-> [buf |-> bufs[n], ptr |-> "user"]]]
                 /\ io' = Silent
                 /\ UNCHANGED <<view, table, memory, launch, careful>>

Drop(f) == /\ Host /\ Made(f)
           /\ Release(view, [cap EXCEPT ![f] = <<>>])

\* Access through the view: sync, then the user memory.
HostAccess(b, op, v) ==
    /\ Host /\ view[b] /\ entry[b] /\ (op = "read" => v = SyncedUser(b))
    /\ user' = [user EXCEPT ![b] = v]
    /\ dirty' = [dirty EXCEPT ![b] = FALSE]
    /\ io' = Access(op, b, v)
    /\ UNCHANGED <<view, entry, shadow, temp, freed, cap, launch, careful>>

\* User memory without a view on it.
PlainAccess(b, op, v) ==
    /\ Host /\ ~entry[b] /\ ~freed[b] /\ (op = "read" => v = user[b])
    /\ user' = [user EXCEPT ![b] = v]
    /\ io' = Access(op, b, v)
    /\ UNCHANGED <<view, table, shadow, cap, launch, careful>>

\* synchronize on a functor's own view, then a read of the user memory.  rwq
\* does not know a shadow.
OwnSync(f, n) ==
    /\ Host /\ Made(f) /\ cap[f][n].ptr # "lost"
    /\ IF cap[f][n].ptr = "shadow" THEN Uses("reuse") ELSE UNCHANGED careful
    /\ LET b == cap[f][n].buf
           v == IF cap[f][n].ptr = "user" THEN SyncedUser(b) ELSE user[b]
       IN  /\ user' = [user EXCEPT ![b] = v]
           /\ dirty' = [dirty EXCEPT ![b] = @ /\ cap[f][n].ptr = "shadow"]
           /\ io' = Access("read", b, v)
    /\ UNCHANGED <<view, entry, shadow, temp, freed, cap, launch>>

-----------------------------------------------------------------------------
(* A launch.                                                               *)

Begin(f) ==
    /\ Host /\ Made(f)
    /\ LET Kept(n) == Owned(cap[f][n].buf, view, [cap EXCEPT ![f] = <<>>])
           Fresh(n) == cap[f][n].ptr = "user"
       IN  \/ /\ \A n \in Slot : Fresh(n) /\ Kept(n)
              /\ UNCHANGED careful
           \/ /\ \E n \in Slot : ~Fresh(n)
              /\ \A n \in Slot : Kept(n) \/ "soleOwner" \in Unsafe
              /\ Uses("reuse")
           \/ /\ \A n \in Slot : Fresh(n)
              /\ \E n \in Slot : ~Kept(n)
              /\ Uses("soleOwner")
    /\ phase' = "before" /\ cur' = f /\ next' = 1
    /\ io' = Silent
    /\ UNCHANGED <<view, cap, table, memory>>

\* After the last view: enter_kernel, or leave_kernel and return.
Advance(then) == /\ phase' = IF next = NSlot THEN then ELSE phase
                 /\ next' = IF next = NSlot THEN 1 ELSE next + 1
                 /\ UNCHANGED cur

Repoint(p) == cap' = [cap EXCEPT ![cur][next].ptr = p]

\* AMPAllocator::append: upload unless the shadow is good.  (Definitions named
\* Mut_ are slips that the properties must notice; no action uses them.  Here:
\* no upload.)
Mut_Upload(b) == dirty' = [dirty EXCEPT ![b] = TRUE] /\ UNCHANGED shadow
Upload(b) == /\ dirty' = [dirty EXCEPT ![b] = TRUE]
             /\ shadow' = [shadow EXCEPT ![b] = IF dirty[b] THEN @ ELSE user[b]]

\* (Mut_: the entry, once made, counts no further view.)
Mut_Counted(b) == IF temp[b] = 0 THEN 1 ELSE temp[b]
Counted(b) == temp[b] + 1

\* A view with the user's pointer, before the kernel: append, then PushArg
\* exchanges it for the shadow and counts that in the shadow's entry.
PushUser ==
    LET b == cap[cur][next].buf IN
    /\ phase = "before" /\ cap[cur][next].ptr = "user"
    /\ Upload(b)
    /\ temp' = [temp EXCEPT ![b] = Counted(b)]
    /\ Repoint("shadow")
    /\ Advance("kernel")
    /\ io' = Silent
    /\ UNCHANGED <<view, entry, user, freed, careful>>

\* A pointer that neither table has: append and PushArg leave it.
Unknown == \/ cap[cur][next].ptr = "lost"
           \/ cap[cur][next].ptr = "shadow" /\ temp[cap[cur][next].buf] = 0

PushUnknown(from, then) ==
    /\ phase = from /\ Unknown
    /\ Advance(then)
    /\ io' = Silent
    /\ UNCHANGED <<view, cap, table, memory, careful>>

\* The kernel, on the memory that its views point to.
KernelAccess(n, op, v) ==
    LET b == cap[cur][n].buf IN
    /\ phase = "kernel" /\ cap[cur][n].ptr = "shadow"
    /\ op = "read" => v = shadow[b]
    /\ shadow' = [shadow EXCEPT ![b] = v]
    /\ io' = Access(op, b, v)
    /\ UNCHANGED <<view, cap, table, user, launch, careful>>

KernelDone == /\ phase = "kernel"
              /\ phase' = "after"
              /\ io' = Silent
              /\ UNCHANGED <<view, cap, table, memory, cur, next, careful>>

\* What --ref leaves.  (Mut_: the counter is compared before it is counted
\* down, and the entry stays.)
Mut_TempAfter(b) == IF temp[b] = 1 THEN 1 ELSE temp[b] - 1
TempAfter(b) == temp[b] - 1

\* The entry goes, and with it a shared_ptr to b: was it the last?  (Mut_: the
\* deleter runs for any owner.)
Mut_LastOwner(b) == TempAfter(b) = 0
LastOwner(b) == TempAfter(b) = 0 /\ ~Owned(b, view, cap)

\* A view with the shadow's pointer, after the kernel: PushArg assigns it
\* mem_info[b].data, the shadow again.  free, called in a kernel, deletes the
\* memory and its entry in rwq.
PushShadow ==
    LET b == cap[cur][next].buf IN
    /\ phase = "after" /\ cap[cur][next].ptr = "shadow" /\ temp[b] > 0
    /\ temp' = [temp EXCEPT ![b] = TempAfter(b)]
    /\ freed' = [freed EXCEPT ![b] = LastOwner(b)]
    /\ entry' = [entry EXCEPT ![b] = @ /\ ~LastOwner(b)]
    /\ dirty' = [dirty EXCEPT ![b] = @ /\ ~LastOwner(b)]
    /\ Advance("host")
    /\ io' = Silent
    /\ UNCHANGED <<view, cap, memory, careful>>

-----------------------------------------------------------------------------
(* Another thread of the program, while in_kernel says that a kernel runs:  *)
(* the flag is the process's, so its calls take the branches meant for the  *)
(* kernel.                                                                  *)

InKernel == phase \in {"kernel", "after"}

\* sync returns at once, so the access is to user memory as it is.
OtherAccess(b, op, v) ==
    /\ InKernel /\ view[b] /\ entry[b] /\ (op = "read" => v = user[b])
    /\ Uses("otherThread")
    /\ user' = [user EXCEPT ![b] = v]
    /\ io' = Access(op, b, v)
    /\ UNCHANGED <<view, entry, dirty, shadow, temp, freed, cap, launch>>

\* free deletes the memory of the last view instead of writing it back.
OtherClose(b) ==
    /\ InKernel /\ view[b]
    /\ Uses("otherThread")
    /\ view' = [view EXCEPT ![b] = FALSE]
    /\ LET last == entry[b] /\ temp[b] = 0 /\ ~Owned(b, view', cap)
       IN  /\ freed' = [freed EXCEPT ![b] = @ \/ last]
           /\ entry' = [entry EXCEPT ![b] = @ /\ ~last]
           /\ dirty' = [dirty EXCEPT ![b] = @ /\ ~last]
    /\ io' = Silent
    /\ UNCHANGED <<temp, memory, cap, launch>>

-----------------------------------------------------------------------------
HostStep ==
    \/ \E b \in Buf : \/ Open(b) \/ Close(b)
                      \/ \E op \in {"read", "write"}, v \in Val :
                            HostAccess(b, op, v) \/ PlainAccess(b, op, v)
    \/ \E f \in Functor : \/ Drop(f) \/ Begin(f)
                          \/ \E bufs \in [Slot -> Buf] : Make(f, bufs)
                          \/ \E n \in Slot : OwnSync(f, n)

LaunchStep ==
    \/ PushUser \/ PushShadow \/ KernelDone
    \/ PushUnknown("before", "kernel") \/ PushUnknown("after", "host")
    \/ \E n \in Slot, op \in {"read", "write"}, v \in Val : KernelAccess(n, op, v)

OtherStep ==
    \E b \in Buf : \/ OtherClose(b)
                   \/ \E op \in {"read", "write"}, v \in Val : OtherAccess(b, op, v)

Next == HostStep \/ LaunchStep \/ OtherStep

Spec == Init /\ [][Next]_vars

-----------------------------------------------------------------------------
\* Types: functors hold what they were made with, and the temporary entry of a
\* shadow counts at most the views of one functor.
TypeOK == /\ view \in [Buf -> BOOLEAN] /\ entry \in [Buf -> BOOLEAN]
          /\ dirty \in [Buf -> BOOLEAN] /\ freed \in [Buf -> BOOLEAN]
          /\ user \in [Buf -> Val] /\ shadow \in [Buf -> Val]
          /\ temp \in [Buf -> 0 .. NSlot]
          /\ \A f \in Functor : Made(f) => cap[f] \in [Slot -> Capture]
          /\ phase \in {"host", "before", "kernel", "after"}
          /\ cur \in Functor /\ next \in Slot /\ careful \in BOOLEAN

\* For a client that launches every functor once and keeps its own views,
\* user memory and its shadow act as one memory, in kernels and between them:
\* the exchange of pointers loses no store and shows no stale content.
Coherent == INSTANCE CoherentArray WITH
                Cell <- {1},
                mem <- [b \in Buf |-> <<SyncedUser(b)>>],
                lost <- [b \in Buf |-> FALSE]
OneMemory == Coherent!Init /\ [][careful' => Coherent!Next]_(Coherent!vars)

\* A kernel never runs on a shadow that no entry keeps: the entry made for it
\* counts every view that was given the shadow.
ShadowsKept ==
    careful /\ phase = "kernel" =>
        \A b \in Buf : temp[b] = Cardinality(
            {n \in Slot : cap[cur][n] = [buf |-> b, ptr |-> "shadow"]})

\* Whatever the client does, a launch takes back every entry that it put into
\* mem_info, and erasing the entries of a pointer leaves no flag behind.
TablesClean ==
    \A b \in Buf : /\ phase = "host" => temp[b] = 0
                   /\ ~entry[b] => ~dirty[b] /\ temp[b] = 0

\* The runtime does not delete memory that is the user's, which free does when
\* it is called for the last owner while a kernel is said to run.
UserMemoryKept == careful => \A b \in Buf : ~freed[b]

\* What a program reads, in user memory after synchronize or through a view,
\* is what was written last, by the host or a kernel (synchronize on the views
\* of the function object that was launched included).
ReadsCurrent ==
    [][io' # io /\ io'.op = "read" => io'.elems = <<SyncedUser(io'.buf)>>]_vars
=============================================================================
