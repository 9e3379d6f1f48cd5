---------------------------- MODULE AmpAllocator ----------------------------
(***************************************************************************)
(* The runtime's memory manager: class AMPAllocator with its table rwq of  *)
(* rw_info flags, driven by array, array_view and the copy functions, over *)
(* the transfers of a backend.  A buffer is identified by its host pointer *)
(* and may have a second copy in device memory; the flags say which of the *)
(* two copies is the good one.                                             *)
(*                                                                         *)
(* One host thread issues the operations.  Kernels run beside it, and so   *)
(* do the threads of synchronize_async.                                    *)
(***************************************************************************)
EXTENDS Naturals, FiniteSets

CONSTANTS
    Buf,     \* host pointers
    SrcBuf,  \* those that are user memory given to array_view; the runtime
             \* allocates the others (data == nullptr in AMPAllocator::init)
    DevBuf,  \* those with a device copy of their own: all under OpenCL; only
             \* SrcBuf under HSA and on the CPU
    Cell,    \* elements of a buffer
    Val,     \* values of an element
    MaxRef,  \* bound: views of one pointer that exist at a time
    InOrderQueue,  \* TRUE: one in-order command queue, a transfer waits for
                   \* the kernels before it and a launch returns at once
                   \* (OpenCL).  FALSE: transfers do not wait, host code
                   \* waits for the kernel (HSA, CPU)
    Clients  \* the clients: each a set of the operations in UnsafeOps that it
             \* uses besides the others

\* Operations that lose or miss data when a client uses them as named:
UnsafeOps == {
    "touchRunning",    \* access a buffer while a kernel that captured it
                       \* runs and no queue orders the two
    "touchSyncing",    \* access a buffer whose synchronize_async is pending
    "storeDiscarded",  \* host stores between discard_data and a launch
    "sectionCopyIn",   \* copy from iterators into a section of a buffer
    "rank1ToArray",    \* copy from a rank 1 array_view to an array
    "constViewData",   \* data() of an array_view<const T, 1>, also as the
                       \* source of a copy
    "arraySubscript"}  \* a[i] with an int on a rank 1 array, on the host

ASSUME BufAssumption == SrcBuf \subseteq Buf /\ SrcBuf \subseteq DevBuf /\ DevBuf \subseteq Buf
ASSUME MaxRefAssumption == MaxRef \in Nat \ {0}
ASSUME ModeAssumption == InOrderQueue \in BOOLEAN /\ Clients \subseteq SUBSET UnsafeOps
\* Only OpenCL has the queue, and there every buffer has a cl_mem of its own.
ASSUME QueueAssumption == InOrderQueue => DevBuf = Buf

VARIABLES
    rwq,      \* rwq[b]: the flags of b; ref = 0 when the map has no entry
    host,     \* host[b]: the content of host memory
    dev,      \* dev[b]: the content of the device copy, if b \in DevBuf
    running,  \* buffers that an unfinished kernel may still write
    bound,    \* those of them whose pending results the program still wants
    syncing,  \* buffers a synchronize_async thread has read back, but not
              \* yet marked clean
    dangling, \* those of them whose entry has been erased meanwhile: the
              \* thread will store to a freed map node
    unsafe,   \* the client of this run, a member of Clients
    io        \* the last access to a content, as in CoherentArray

vars == <<rwq, host, dev, running, bound, syncing, dangling, unsafe, io>>

Content == [Cell -> Val]
Elems == UNION {[S -> Val] : S \in (SUBSET Cell) \ {{}}}
RwInfo == [ref : 0 .. MaxRef, discard : BOOLEAN, dirty : BOOLEAN]
NoEntry == [ref |-> 0, discard |-> FALSE, dirty |-> FALSE]

Silent == [op |-> "silent"]
Access(op, b, e) == [op |-> op, buf |-> b, elems |-> e]
Overlay(f, e) == [c \in Cell |-> IF c \in DOMAIN e THEN e[c] ELSE f[c]]
Element(f, c) == [x \in {c} |-> f[x]]

Live(b) == rwq[b].ref > 0

Init == /\ rwq = [b \in Buf |-> NoEntry]
        /\ host \in [Buf -> Content]
        /\ dev \in [Buf -> Content]
        /\ running = {} /\ bound = {} /\ syncing = {} /\ dangling = {}
        /\ unsafe \in Clients
        /\ io = Silent

-----------------------------------------------------------------------------
(* The two conditions under which the host thread may act on b: the client *)
(* keeps away from what a kernel or another thread is using, and a         *)
(* transfer on an in-order queue waits until the kernels are done.         *)

Free(b) == /\ InOrderQueue \/ b \notin running \/ "touchRunning" \in unsafe
           /\ b \notin syncing \/ "touchSyncing" \in unsafe

Drained == InOrderQueue => running = {}

\* AMPAllocator::sync: read the device copy back if it is the good one.
\* (Definitions named Mut_ are slips the properties must notice; no action
\* uses them.  Here: only the last view of a pointer reads back.)
Mut_NeedsRead(b) == rwq[b].dirty /\ ~rwq[b].discard /\ rwq[b].ref = 1
NeedsRead(b) == rwq[b].dirty /\ ~rwq[b].discard

\* (Mut_: the flag is cleared and nothing is transferred.)
Mut_SyncedHost(b) == host[b]
SyncedHost(b) == IF NeedsRead(b) /\ b \in DevBuf THEN dev[b] ELSE host[b]
Synced(b) == [rwq[b] EXCEPT !.dirty = @ /\ ~NeedsRead(b)]

CanSync(b) == Live(b) /\ Free(b) /\ (NeedsRead(b) => Drained)

\* AMPAllocator::discard and AMPAllocator::stash.  (Mut_: discard leaves the
\* dirty flag alone.)
Mut_Discarded(b) == [rwq[b] EXCEPT !.discard = TRUE]
Discarded(b) == [rwq[b] EXCEPT !.discard = TRUE, !.dirty = FALSE]
Stashed(b) == [rwq[b] EXCEPT !.dirty = FALSE]

-----------------------------------------------------------------------------
(* A view or array is made: AMPAllocator::init.                            *)

\* A pointer the map already holds: one more reference, nothing else.
OpenAgain(b) ==
    /\ Live(b) /\ rwq[b].ref < MaxRef
    /\ rwq' = [rwq EXCEPT ![b].ref = @ + 1]
    /\ io' = Silent
    /\ UNCHANGED <<host, dev, running, bound, syncing, dangling, unsafe>>

\* A new pointer: the backend makes a device copy with unset content; host
\* memory that the runtime allocates is unset too.
OpenNew(b) ==
    /\ ~Live(b)
    /\ rwq' = [rwq EXCEPT ![b] = [NoEntry EXCEPT !.ref = 1]]
    /\ \E f \in Content :
          host' = IF b \in SrcBuf THEN host ELSE [host EXCEPT ![b] = f]
    /\ \E f \in Content :
          dev' = IF b \in DevBuf THEN [dev EXCEPT ![b] = f] ELSE dev
    /\ io' = Silent
    /\ UNCHANGED <<running, bound, syncing, dangling, unsafe>>

\* The entry after --ref: erased with the last reference.
Released(b, entry) == IF rwq[b].ref = 1 THEN NoEntry
                      ELSE [entry EXCEPT !.ref = @ - 1]

\* AMPAllocator::free, the deleter of a view's shared_ptr.  User memory gets
\* its content back with every view that goes; the last view takes the entry
\* and the device copy with it.
Close(b) ==
    /\ Live(b) /\ Free(b)
    /\ b \in SrcBuf => (NeedsRead(b) => Drained)
    /\ rwq' = [rwq EXCEPT
                  ![b] = Released(b, IF b \in SrcBuf THEN Synced(b) ELSE @)]
    /\ host' = IF b \in SrcBuf THEN [host EXCEPT ![b] = SyncedHost(b)]
               ELSE host
    /\ LET gone == IF rwq[b].ref = 1 THEN {b} ELSE {}
       IN  /\ running' = running \ gone /\ bound' = bound \ gone
           /\ syncing' = syncing \ gone
           /\ dangling' = dangling \cup (gone \cap syncing)
    /\ io' = Silent
    /\ UNCHANGED <<dev, unsafe>>

-----------------------------------------------------------------------------
(* Host accesses.                                                          *)

\* array_view::synchronize.
Synchronize(b) ==
    /\ CanSync(b)
    /\ rwq' = [rwq EXCEPT ![b] = Synced(b)]
    /\ host' = [host EXCEPT ![b] = SyncedHost(b)]
    /\ io' = Silent
    /\ UNCHANGED <<dev, running, bound, syncing, dangling, unsafe>>

\* operator[](index), data(), or a projection of rank 1: synchronize, then
\* use the host reference.
HostRead(b, c) ==
    /\ CanSync(b)
    /\ rwq' = [rwq EXCEPT ![b] = Synced(b)]
    /\ host' = [host EXCEPT ![b] = SyncedHost(b)]
    /\ io' = Access("read", b, Element(SyncedHost(b), c))
    /\ UNCHANGED <<dev, running, bound, syncing, dangling, unsafe>>

HostWrite(b, c, v) ==
    /\ CanSync(b)
    /\ rwq[b].discard => "storeDiscarded" \in unsafe
    /\ rwq' = [rwq EXCEPT ![b] = Synced(b)]
    /\ host' = [host EXCEPT ![b] = Overlay(SyncedHost(b), [x \in {c} |-> v])]
    /\ io' = Access("write", b, [x \in {c} |-> v])
    /\ UNCHANGED <<dev, running, bound, syncing, dangling, unsafe>>

\* User memory without any view on it is the user's own.
PlainRead(b, c) ==
    /\ b \in SrcBuf /\ ~Live(b)
    /\ io' = Access("read", b, Element(host[b], c))
    /\ UNCHANGED <<rwq, host, dev, running, bound, syncing, dangling, unsafe>>

PlainWrite(b, c, v) ==
    /\ b \in SrcBuf /\ ~Live(b)
    /\ host' = [host EXCEPT ![b] = Overlay(@, [x \in {c} |-> v])]
    /\ io' = Access("write", b, [x \in {c} |-> v])
    /\ UNCHANGED <<rwq, dev, running, bound, syncing, dangling, unsafe>>

\* copy(array_view, iterator): the current elements go to other host memory,
\* from the device copy directly when that is the good one.
CopyOut(b, c) ==
    /\ Live(b) /\ Free(b) /\ (rwq[b].dirty => Drained)
    /\ io' = Access("read", b,
                    Element(IF rwq[b].dirty /\ b \in DevBuf THEN dev[b]
                            ELSE host[b], c))
    /\ UNCHANGED <<rwq, host, dev, running, bound, syncing, dangling, unsafe>>

\* copy(iterators, array_view or array): amp_stash, then plain stores to host
\* memory.  The elements e are all of b unless the view is a section.
CopyIn(b, e) ==
    /\ Live(b) /\ Free(b)
    /\ DOMAIN e = Cell \/ "sectionCopyIn" \in unsafe
    /\ rwq[b].discard => "storeDiscarded" \in unsafe
    /\ rwq' = [rwq EXCEPT ![b] = Stashed(b)]
    /\ host' = [host EXCEPT ![b] = Overlay(@, e)]
    /\ bound' = bound \ {b}
    /\ io' = Access("write", b, e)
    /\ UNCHANGED <<dev, running, syncing, dangling, unsafe>>

\* Two ways to the host copy that do not synchronize: the get_data() that
\* do_copy(array_view<T, 1>, array<T, 1>) takes of its source, and the data()
\* of an array_view<const T, 1>, which copy from such a view takes too.
UnsyncedRead(b, c) ==
    /\ Live(b) /\ Free(b)
    /\ io' = Access("read", b, Element(host[b], c))
    /\ UNCHANGED <<rwq, host, dev, running, bound, syncing, dangling, unsafe>>

Rank1CopyToArray(b, c) == "rank1ToArray" \in unsafe /\ UnsyncedRead(b, c)
ConstViewData(b, c) == "constViewData" \in unsafe /\ UnsyncedRead(b, c)

\* array<T, 1>::operator[](int) on the host: AMPAllocator::discard, then the
\* host reference is read or stored to.
SubscriptRead(b, c) ==
    /\ "arraySubscript" \in unsafe
    /\ b \notin SrcBuf /\ Live(b) /\ Free(b)
    /\ rwq' = [rwq EXCEPT ![b] = Discarded(b)]
    /\ io' = Access("read", b, Element(host[b], c))
    /\ UNCHANGED <<host, dev, running, bound, syncing, dangling, unsafe>>

SubscriptWrite(b, c, v) ==
    /\ "arraySubscript" \in unsafe
    /\ b \notin SrcBuf /\ Live(b) /\ Free(b)
    /\ rwq' = [rwq EXCEPT ![b] = Discarded(b)]
    /\ host' = [host EXCEPT ![b] = Overlay(@, [x \in {c} |-> v])]
    /\ io' = Access("write", b, [x \in {c} |-> v])
    /\ UNCHANGED <<dev, running, bound, syncing, dangling, unsafe>>

\* array_view::discard_data.
DiscardData(b) ==
    /\ Live(b) /\ Free(b)
    /\ rwq' = [rwq EXCEPT ![b] = Discarded(b)]
    /\ bound' = bound \ {b}
    /\ io' = Silent
    /\ UNCHANGED <<host, dev, running, syncing, dangling, unsafe>>

\* array_view::synchronize_async: AMPAllocator::sync on a thread of its own,
\* amp_read first and the flag later.  Bound: one such thread of a pointer.
SyncAsyncRead(b) ==
    /\ CanSync(b) /\ b \notin syncing \cup dangling /\ NeedsRead(b)
    /\ host' = [host EXCEPT ![b] = SyncedHost(b)]
    /\ syncing' = syncing \cup {b}
    /\ io' = Silent
    /\ UNCHANGED <<rwq, dev, running, bound, dangling, unsafe>>

SyncAsyncClean(b) ==
    /\ b \in syncing
    /\ rwq' = [rwq EXCEPT ![b].dirty = FALSE]
    /\ syncing' = syncing \ {b}
    /\ io' = Silent
    /\ UNCHANGED <<host, dev, running, bound, dangling, unsafe>>

\* The same store when free has erased the entry that rw refers to: its node
\* belongs to nobody, or by now to another entry, which loses its flag.
SyncAsyncDangling(b) ==
    /\ b \in dangling
    /\ \/ UNCHANGED rwq
       \/ \E o \in Buf : Live(o) /\ rwq' = [rwq EXCEPT ![o].dirty = FALSE]
    /\ dangling' = dangling \ {b}
    /\ io' = Silent
    /\ UNCHANGED <<host, dev, running, bound, syncing, unsafe>>

-----------------------------------------------------------------------------
(* Kernels.                                                                *)

\* AMPAllocator::append uploads b for a kernel unless the device copy is the
\* good one already, or the content was discarded and no array asks for it.
\* (Mut_: only user data is uploaded; Mut_Appended: a discarded buffer is not
\* marked dirty.)
Mut_Uploads(b, arrays) ==
    ~rwq[b].dirty /\ ~rwq[b].discard /\ b \in SrcBuf
Uploads(b, arrays) ==
    ~rwq[b].dirty /\ (~rwq[b].discard \/ b \in arrays)

Mut_Appended(b) == IF rwq[b].discard THEN [rwq[b] EXCEPT !.discard = FALSE]
                   ELSE [rwq[b] EXCEPT !.dirty = TRUE]
Mut_CountedAppended(b) ==
    [rwq[b] EXCEPT !.ref = @ + 1, !.dirty = TRUE, !.discard = FALSE]
Appended(b) == IF rwq[b].dirty THEN rwq[b]
               ELSE [rwq[b] EXCEPT !.dirty = TRUE, !.discard = FALSE]

\* parallel_for_each: append every captured buffer, then start the kernel.
\* The buffers in arrays are captured as arrays, the others as views.
Launch(caps, arrays) ==
    /\ \A b \in caps : Live(b) /\ Free(b)
    /\ (\E b \in caps : Uploads(b, arrays)) => Drained
    /\ rwq' = [b \in Buf |-> IF b \in caps THEN Appended(b) ELSE rwq[b]]
    /\ dev' = [b \in Buf |-> IF b \in caps \cap DevBuf /\ Uploads(b, arrays)
                             THEN host[b] ELSE dev[b]]
    /\ running' = running \cup caps
    /\ bound' = bound \cup caps
    /\ io' = Silent
    /\ UNCHANGED <<host, syncing, dangling, unsafe>>

\* The kernel stores an element, in the copy it was given.
KernelWrite(b, c, v) ==
    /\ b \in running
    /\ LET e == [x \in {c} |-> v]
       IN  /\ IF b \in DevBuf
              THEN dev' = [dev EXCEPT ![b] = Overlay(@, e)] /\ UNCHANGED host
              ELSE host' = [host EXCEPT ![b] = Overlay(@, e)] /\ UNCHANGED dev
           /\ io' = IF b \in bound THEN Access("write", b, e) ELSE Silent
    /\ UNCHANGED <<rwq, running, bound, syncing, dangling, unsafe>>

KernelsDone ==
    /\ running # {}
    /\ running' = {} /\ bound' = {}
    /\ io' = Silent
    /\ UNCHANGED <<rwq, host, dev, syncing, dangling, unsafe>>

-----------------------------------------------------------------------------
Lifetime == \E b \in Buf : OpenAgain(b) \/ OpenNew(b) \/ Close(b)

HostAccess ==
    \E b \in Buf :
        \/ Synchronize(b) \/ DiscardData(b)
        \/ SyncAsyncRead(b) \/ SyncAsyncClean(b) \/ SyncAsyncDangling(b)
        \/ \E e \in Elems : CopyIn(b, e)
        \/ \E c \in Cell :
              \/ HostRead(b, c) \/ PlainRead(b, c) \/ CopyOut(b, c)
              \/ Rank1CopyToArray(b, c) \/ ConstViewData(b, c)
              \/ SubscriptRead(b, c)
              \/ \E v \in Val : \/ HostWrite(b, c, v) \/ PlainWrite(b, c, v)
                                \/ SubscriptWrite(b, c, v)

Kernels ==
    \/ \E caps \in (SUBSET Buf) \ {{}} :
          \E arrays \in SUBSET (caps \ SrcBuf) : Launch(caps, arrays)
    \/ \E b \in Buf, c \in Cell, v \in Val : KernelWrite(b, c, v)
    \/ KernelsDone

Next == Lifetime \/ HostAccess \/ Kernels

Spec == Init /\ [][Next]_vars

-----------------------------------------------------------------------------
\* Types: the reference count stays in its range, and pending kernel results
\* belong to buffers with a kernel (rw_info and the maps of the backends).
TypeOK == /\ rwq \in [Buf -> RwInfo]
          /\ host \in [Buf -> Content]
          /\ dev \in [Buf -> Content]
          /\ bound \subseteq running /\ running \subseteq Buf
          /\ syncing \subseteq Buf /\ dangling \subseteq Buf
          /\ unsafe \in Clients
          /\ \/ io = Silent
             \/ io \in [op : {"read", "write"}, buf : Buf, elems : Elems]

\* The clients that the runtime can be trusted with: those that use no unsafe
\* operation.  a[i] on an array is one only where arrays have a device copy of
\* their own, not under HSA and on the CPU.
SafeClient == /\ unsafe \subseteq {"arraySubscript"}
              /\ "arraySubscript" \in unsafe => DevBuf = SrcBuf

\* The content a client is promised for b, and whether it gave it up.
Current(b) == IF rwq[b].dirty /\ b \in DevBuf THEN dev[b] ELSE host[b]
Lost(b) == \/ rwq[b].discard /\ b \in DevBuf
           \/ b \notin SrcBuf /\ ~Live(b)

\* Two copies, the flags and the transfers between them behave, for a safe
\* client, as one memory per buffer: no store of the host or of a kernel is
\* lost or read late, over every interleaving of views, launches and read backs.
Coherent == INSTANCE CoherentArray WITH
                mem <- [b \in Buf |-> Current(b)],
                lost <- [b \in Buf |-> Lost(b)]

OneMemory == Coherent!Init /\ [][SafeClient => Coherent!Next]_(Coherent!vars)

\* A view that goes leaves the current content in user memory, unless it was
\* discarded, whatever other views still exist (free calls sync first).
CloseFlushes ==
    [][\A b \in SrcBuf : rwq'[b].ref < rwq[b].ref /\ ~rwq[b].discard
                         => host'[b] = Current(b)]_vars

\* Whatever the client does, an entry is never both dirty and discarded (sync
\* would then neither read it back nor clean it, for good), and erasing an
\* entry leaves no flag behind for the next owner of the address.
FlagsConsistent ==
    \A b \in Buf : /\ ~(rwq[b].dirty /\ rwq[b].discard)
                   /\ ~Live(b) => /\ ~rwq[b].dirty /\ ~rwq[b].discard
                                  /\ b \notin running

\* An element that host code of a safe client obtains is the current one: no
\* operation hands out the stale copy of the two.
ReadsCurrent ==
    [][SafeClient /\ io' # io /\ io'.op = "read"
       => \A c \in DOMAIN io'.elems : io'.elems[c] = Current(io'.buf)[c]]_vars

\* Host code that reads an element right after a store to it, by a kernel or by
\* the host, obtains what was stored (tests/Unit/Atomic/atomic_add_global.cpp:25
\* reads a kernel's results from an array so).
StoreIsRead ==
    [][io.op = "write" /\ io'.op = "read" /\ io'.buf = io.buf
       => \A c \in DOMAIN io.elems \cap DOMAIN io'.elems :
             io'.elems[c] = io.elems[c]]_vars

\* The results of a kernel that a safe client still wants will be read back:
\* nothing marked their buffer clean while the kernel runs.
PendingResultsKept ==
    SafeClient => \A b \in bound : b \in DevBuf => rwq[b].dirty

\* A kernel that still runs on a buffer whose results were given up (a copy
\* into it, discard_data) writes a copy that nothing will read; without the
\* queue there is no such kernel.
StrayStoresUnread ==
    SafeClient => \A b \in running \ bound : InOrderQueue /\ ~rwq[b].dirty

\* Between the two halves of a safe client's synchronize_async the flag is
\* late, but the copies agree and the entry is still there: cleaning its flag
\* loses nothing.
ReadBackAgrees ==
    SafeClient =>
        /\ dangling = {}
        /\ \A b \in syncing : /\ Live(b) /\ NeedsRead(b) /\ b \notin running
                              /\ b \in DevBuf => host[b] = dev[b]
=============================================================================
