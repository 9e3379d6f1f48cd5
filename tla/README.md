# Kalmar (CLAMP): a verification development of the C++AMP runtime

Kalmar compiles C++AMP programs and runs their kernels on OpenCL devices, on
HSA devices, or on the CPU.  This directory models the host side of it, the
part that keeps state: which copy of an array is current, how kernels are
launched and waited for, how work is split over threads, and what the backends
keep in their tables.  The modules are checked with TLC on small instances;
theorems about them are proved with TLAPS.

Contents: [the system](#the-system), [the modules](#the-modules),
[what the runs show](#what-the-runs-show), [bounds](#bounds-and-why-they-are-enough),
[fairness](#fairness), [proofs](#proofs), [not modelled](#what-is-not-modelled-and-why),
[plan](#plan), [how to run](#how-to-run).

## The system

Line numbers and paths are relative to the root of the repository.

| component | code | state | operations | what makes it right |
|---|---|---|---|---|
| memory manager | `include/amp_allocator.h`, `amp_manage.h`, `array`/`array_view` in `amp.h` | `rwq`: a reference count and the flags `discard`, `dirty`, `hasSrc` per host pointer; a host and a device copy per buffer | `init`, `append`, `discard`, `stash`, `copy`, `sync`, `free`, called from constructors, `operator[]`, `data`, `synchronize`, `copy`, `discard_data`, kernel launches | host and device copies behave as one memory |
| kernel launch | `include/parallel_for_each.h`, `serialize.h` | the argument index of a kernel | capture every buffer, push arguments, launch, wait | each index of the extent runs once; captured buffers are current |
| CPU executor | `parallel_for_each.h` 43-170, `tile_barrier` in `amp.h` | per thread: a slice of the tiles, a stack and a saved context per work item | partition, `swap`, `wait`, end of an item through `uc_link` | every item runs once and none passes a barrier before its tile has reached it |
| CPU memory | `lib/cpu/mcwamp_cpu.cpp` | `mem_info`: the shadow of each user buffer, and a temporary entry while a kernel runs | `PushArg` before and after the kernel, `regist`, `unregist` | every entry made for a launch is taken back, no owner is lost |
| HSA dispatch | `lib/hsa/HSAContextKaveri.cpp`, `mcwamp_hsa.cpp` | the ring of packets and its indices; per launch a completion signal and the memory of its arguments | create, push, dispatch, wait, dispose | kernels run in order and once, arguments stay as long as they are needed |
| OpenCL backend | `lib/opencl/mcwamp_opencl.cpp` | one queue, a program and its kernels, a file under `/tmp` that all processes share, `mem_info` | match names, compile or load, write the file, set arguments, launch, transfers | a process runs the whole program of its own source, each launch with its own arguments |
| device `new`/`delete` | `include/hsa_new.h`, `lib/new_delete.hsail` | two tables of requests and two signals in shared memory, two service threads, a counter in front of each block | request, serve, answer, stop | each request is answered once with its own block, each block is freed once |
| futures | `completion_future` in `amp.h` | a shared future and a raw pointer to a continuation thread | `get`, `wait`, `then`, copy, destroy | a continuation finds what it refers to, and its thread is joined once |
| atomics | `lib/mcwamp_atomic.cpp` | one mutex per operation and type | fetch-add, -inc, -max | concurrent updates are not lost |
| runtime selection | `lib/mcwamp.cpp` | the chosen runtime, the loaded kernels, the flag `in_kernel` | detect, load, create kernel | one runtime per process |
| divergence passes | `TileUniform/TileUniform.cpp`, `SPIRify/MallocSelect.cpp` | the map of control dependences, the list of calls to replace | reject a kernel, turn a `new` into a `malloc` | no barrier, and no `new` that contains one, is left where the items of a tile part |
| other passes, plugins, scripts, Bolt, tests | `CBackend`, `Promote`, ..., `lib/clang-plugins`, `Bolt`, `tests` | no state of the runtime | | |

How they interact.  `parallel_for_each` creates a kernel object, serializes the
functor (every captured `array` and `array_view` calls `append` on the memory
manager, which uploads a buffer unless the device copy is current and pushes it
as an argument), and launches through the runtime library chosen by
`mcwamp.cpp`.  The memory manager calls the backend through virtual functions
(`amp_read`, `amp_write`, `amp_copy`, `regist`, `unregist`, `PushArg`).  On the
CPU `PushArg` changes the captured pointers themselves, and the functor is
serialized a second time to change them back; a process-wide flag `in_kernel`
tells the deleter `free` on which side of this it runs.  On HSA a kernel may
call `new`, which is a conversation with service threads over shared memory
that lasts as long as `main`.  Asynchronous launches and `synchronize_async`
give a `completion_future`, whose thread works on the same tables without a lock.
Before all that, `clamp-device` has run the passes on the kernel: `tile-uniform`
rejects it when a barrier depends on an item's id, and `malloc-select` decides
which version of `new` each call gets.

What is hard.  *Staleness*: two copies and two flags, changed by operations
that each see only part of the history.  *Ordering against kernels in flight*:
nothing but the in-order queue of OpenCL orders a transfer after the kernel that
writes the buffer.  *Asynchrony without locks*: `synchronize_async`, the write
index of the HSA queue, the first launch of an OpenCL process, a continuation that
refers to its object from another thread.  *Processes*: the cached program is a file
written in place, by any number of them, of which some end in the middle.  *Hand-made scheduling*: the ring of contexts in
`tile_barrier`.  *Spinning over shared memory*: request, answer and wake-up of
device `new`.  *Limits*: the int product in the slice bounds, the ring that is
never checked for room, the tables of device `new`.

The hazards this gives rise to are listed in `PROJECT.json`, each at its line,
with the properties that would notice it; hazards without a property say why.

## The modules

| module | models | state and actions |
|---|---|---|
| `CoherentArray` | abstract: what an `array` or `array_view` promises | one memory per buffer, read and written; content is lost only where the program gives it up |
| `AmpAllocator` | `AMPAllocator` as the front end uses it, with the transfers of a backend | `rwq[b]` is the `rw_info` of a host pointer (no entry: `ref = 0`); `host`, `dev` the two contents.  `SrcBuf` are the entries with `hasSrc`.  `OpenNew`/`OpenAgain` are `init`, `Close` the deleter `free`, `Synchronize`, `HostRead`, `HostWrite`, `CopyOut`, `CopyIn`, `DiscardData`, `SubscriptRead/Write`, `Rank1CopyToArray`, `ConstViewData` the entry points of `amp.h`, each with the calls it makes on the allocator, `SyncAsyncRead` and `SyncAsyncClean` the two halves of `sync` on the thread of `synchronize_async` (`SyncAsyncDangling` is the second when the entry has been erased meanwhile), `Launch` is `append` of every captured buffer followed by the launch |
| `TileExecution` | abstract: what a kernel with barriers may rely on | pieces of work (tile, item, segment between barriers) and whether the call has returned |
| `CpuExecutor` | `launch_cpu_task` over `partitioned_task_tile`, `barrier_t`, `tile_barrier` | per thread the loops over its tiles (`row`, `col`), `idx` of the barrier and `ctx`, what a switch to each context resumes.  `Round` is one turn of `while (idx == 0)`, `Wait` is `tile_barrier::wait`, `Finish` the end of an item and its `uc_link` |
| `CpuAtomics` | `mcwamp_atomic.cpp` with the fibers of `CpuExecutor`, which it extends | the mutex of each operation and type, the contents of the cells; `Lock`, `Store`, `Unlock` are the steps of one call; every other step of a fiber (`Proceed`) comes after the call of its segment |
| `CpuMemory` | `CPUAMPAllocator` with the second serialization of a functor | `cap[f][n]` is the pointer in view `n` of functor `f`: the user's, the shadow, or a shadow that is gone; `temp` the reference count of the entry that `PushArg` adds for the shadow.  `PushUser`, `PushUnknown`, `PushShadow` are the branches of `PushArg` (with `append` and, at the end, `free`) |
| `DeviceNew` | `NewInit` and `new_delete.hsail` | per work item of a kernel of one dimension a program counter through `new` (in the version MallocSelect has chosen for the kernel, or not at all, to delete a null pointer) and `delete`; per service thread the loop over its table, in single loads and stores of shared memory; the two signals; `StopX`, `StopM`, `JoinThread` are the destructor |
| `CompletionFuture` | `completion_future` | per object the future and the raw pointer `__thread_then`, per thread where its function is and the references it has captured.  An object is made empty (`MakeEmpty`), by a call that leaves its operation to another thread (`Make`), or by `copy_async`, which waits for that thread first (`MakeCopied`).  `Then` starts a thread, `EnterWait` to `Return` are its function, `Destroy` and `Destroyed` the two ends of the destructor, `Transfer` all copies, moves and assignments; a use of something that is gone sets `fault` and ends the run |
| `OpenCLKernels` | `mcw_cxxamp_launch_kernel` down to `clEnqueueNDRangeKernel`, with the file of the compiled program | processes and their threads; the file in pieces, possibly with holes; `Open` empties it, `Write` adds a piece, `Load` takes whatever is there; a name is matched by edit distance (`Match`), with the flag (`SetFlag`) and the list of kernels (`Kernels`) in separate steps; a process may end anywhere, the driver may change, the disk may fail |
| `DivergencePasses` | `TileUniform` and `MallocSelect` with their common `ControlDependences` | the walk from an edge of the control flow graph up the post-dominator tree (`Edge`, `Up`), the verdict per call (`Judge`, `Select`), the replacement (`Replace`) |
| `KernelQueue` | abstract: what the launching side may rely on | a FIFO of kernels, run one at a time, reported after they have run |
| `HsaDispatch` | `CreateKernelImpl`, the launches, `DispatchImpl`, the end of the context | per launch how far it has come, the write index it loaded, its signal and the registrations of its arguments; the ring with its indices.  `LoadIndex`, `StorePacket`, `StoreIndex`, `RingDoorbell` are the unlocked steps of `dispatchKernel`, `Complete` is `waitComplete` with `dispose`.  The packet processor (`Take`, `Finish`) is hardware and is modelled as `HsaDispatch` relies on it |
| `MC...` | instances for TLC | model values and symmetry |
| `...Proofs` | theorems about the module of that name | see [proofs](#proofs) |

`CpuAtomics` is the composition of atomic operations with the threads and fibers that
call them; its steps implement those of `CpuExecutor`, which is proved.
`AmpAllocator` and `CpuMemory` both implement `CoherentArray` (`OneMemory`),
`CpuExecutor` implements `TileExecution` (`BarriersHold`), `HsaDispatch`
implements `KernelQueue` (`KernelsInOrder`), each by `INSTANCE` with a refinement
mapping written beside the property.

Conventions.  Definitions named `Mut_` stand beside the one they vary.  They are
plausible slips (a dropped guard, an index off by one) that no action uses; each
property of a passing run is broken by one of them.  A *view* in `AmpAllocator` is one `shared_ptr` owner of a
pointer: copies of an `array_view` share it, and `OpenAgain` is a second view made
from the same raw pointer.

### Clients

Much of what can go wrong here depends on what the program does, and C++AMP
forbids part of it.  The models do not hide that behind preconditions: the
operations in question are actions.  In `AmpAllocator` the variable `unsafe` says which of
`UnsafeOps` the client of a behaviour uses (one of the sets in the constant `Clients`; it never changes); in the
other modules a ghost (`careful`, `orderly`, `slips`) records that one has been used.  A property that holds
only without them says so in its statement.  A hazard that such a condition excludes is listed in `PROJECT.json` with no
property and with the condition.

`AmpAllocator`:
- `touchRunning`: access a buffer while a kernel that captured it runs and no queue orders the two;
- `touchSyncing`: access a buffer while its `synchronize_async` is pending.  If that erases the entry, the
  thread's reference `rw` dangles (`amp_allocator.h:87`) and its late store hits nothing or the flags of another entry;
- `storeDiscarded`: host stores between `discard_data` and a launch (the launch then does not upload them);
- `sectionCopyIn`: copy from iterators into a section (`stash` clears the flag of the whole buffer);
- `rank1ToArray`: copy from a rank 1 `array_view` to an `array`, which takes `get_data()` without
  synchronizing (`amp.h:2446`);
- `constViewData`: `data()` of an `array_view<const T, 1>`, which does not synchronize (`amp.h:2261`), also as the source
  of a `copy` to an iterator (`amp.h:2390`, `2432`);
- `arraySubscript`: `a[i]` with an int on a rank 1 `array` on the host (`amp.h:1387`).

The last three are legal C++AMP and the code is wrong about them; the hazards say so.

`CpuMemory`: any operation may come at any time; the ghost `careful` becomes FALSE with
the first of `reuse` (launch a functor twice or use its own views on the
host afterwards; legal, see the finding), `soleOwner` (launch a functor that holds the
only views of a pointer: `free`, called for the temporary entry inside a kernel
region, then deletes memory that is the user's) and `otherThread` (use or give up a view
on another thread while a kernel runs: `in_kernel` is one flag for the process, so
the thread takes the branches meant for the kernel).

`CompletionFuture`: `careful` becomes FALSE when an object that has a continuation is
copied, moved or assigned (the raw pointer goes along and is joined twice), and when a functor is given up
before its continuation has run (`then` captures it by reference).  The compiler accepts both.

`OpenCLKernels`: nothing takes a lock, so almost everything depends on what happens
together.  `slips` records what did, and each property names the slips it does not
survive: `killed` (a process ended while it wrote the file), `together` (a process used the
file while another wrote it), `threads` (two threads in a process's first launch, or one that matches a name between the flag, line 437, and the end of `getKernelNames`, 439, of another), `shared` (two threads launch the same kernel), `upgraded` (a new driver), `early` (a name that is no kernel's was used
before the kernels were known, so that it was not replaced, as in the first launch of a process), `far` (a name was used that no replacement
makes a kernel's: its distance is 5 or more, or it is longer than the kernel's and keeps its tail, since `memcpy` copies no zero byte, 651-652), `disk` (the
file could not be opened or written, which 421-423 do not notice).  A run of the checker has at most `NSlip` kinds of slips.

`HsaDispatch`: the code has no lock around the write index and never looks at
the read index.  `orderly` is TRUE until the client launches from two threads at
a time, has more launches in flight than the ring has slots, or leaves `main`
before its launches are reported.  All these behaviours are in the model; the
properties about order and progress are about orderly clients, `ArgumentsHeld`
is about all.

`DeviceNew`: a kernel says which version of `new` it has, its size, and whether an item may `delete` right
after its `new` (`deleteAtOnce`) or a barrier of the tile comes first.  With a shared block and no barrier the leader's
counter may be stored after another item's `delete` was served, which then is undone (`new_delete.hsail:546`); items of one
wavefront run in lockstep, so it takes a tile larger than a wavefront.  The properties about blocks
exclude such kernels (`CounterFirst`); the run has one, and the properties about requests cover it.  The slots of the tables and the
counters are numbered by dimension 0 only (`new_delete.hsail:99`, `104`, `138`), so in a kernel of two or three dimensions items share slots;
the model has kernels of one dimension, in which each item and each tile has a slot of its own.

## What the runs show

Passing runs:

| run | property | what it says |
|---|---|---|
| `allocator_opencl` | `OneMemory` | for the safe client: two copies, the flags and the transfers behave as one memory per buffer: no store of the host or of a kernel is lost or seen late |
| | `PendingResultsKept` | for the safe client: nothing marks a buffer clean while a kernel whose results are wanted still runs |
| | `StrayStoresUnread` | for the safe client: a kernel whose results were given up (copy into the buffer, `discard_data`) writes only a copy nobody will read |
| | `ReadBackAgrees` | for the safe client: between the two halves of an asynchronous read back the copies agree, so the late flag does no harm |
| | `CloseFlushes` | any view that goes leaves the current content in user memory |
| | `FlagsConsistent` | under every client, unsafe operations included, an entry is never dirty and discarded at once, and an erased entry leaves nothing behind |
| `cpu_tiles` | `BarriersHold` | the contexts implement tile-wide barriers, every item runs once, the call returns, and only then (with liveness) |
| | `RingInStep` | those still to be resumed in a round stand at the barrier the running item has left, each in its own context |
| | `UpdatesKept` | with atomic operations between the barriers: when the call returns, a cell that one operation is used on holds what all calls make of it |
| | `OwnPlace` | items that count in a cell by one operation are told different values |
| `cpu_memory` | `OneMemory` | the exchange of pointers around kernels loses no store, for careful clients |
| | `ShadowsKept` | a kernel never runs on a shadow that no entry keeps |
| | `UserMemoryKept` | the runtime does not delete the user's memory |
| | `TablesClean` | under every client, a launch takes back every entry it made |
| `device_new` | `HeldIsLive` | what `new` returned is allocated until its own `delete`, although a tile shares a block and a counter |
| | `OwnAnswer` | items share a block exactly when they are a tile served by Xmalloc |
| | `NothingLeaks` | when all items have deleted, all blocks are freed |
| | `PendingKeepsAwake` | no request is left to a thread that sleeps or has gone |
| | `Finishes` | every kernel ends and both service threads are joined |
| `completion_future` | `NoFault` | a careful client meets no undefined behaviour: continuations find their future and functor, no thread is joined twice |
| | `OneOwner` | a thread that is not joined belongs to one object, the one it refers to |
| | `Ends` | every continuation is called and every destructor ends |
| `opencl_kernels` | `CacheSettles` | when nobody writes a file it holds one whole program, also after several processes wrote it at once |
| | `StartsSucceed` | with names that are kernels' or near enough to one, one thread in a process's first launch, and whole files of the same driver, no launch ends its process |
| | `OwnKernels` | a process runs the program of its own source, unless the hashes of two sources are printed alike |
| | `OwnArguments` | a kernel is enqueued with the arguments of the thread that enqueues it, unless two threads launch the same kernel |
| `divergence_passes` | `Verdict` | a kernel is rejected, and a `new` replaced, only if a divergent branch leads to the call, directly or through other branches (`Leading`, defined by paths instead of the tree and closed transitively); and of the divergent branches that control the call itself only that of a block that repeats itself is overlooked |
| | `WalkStopsInTree` | the walk never asks the root for its parent, a null pointer |
| | `ReplacedOnce` | no call is replaced after it is gone, if one divergent branch controls it at most |
| `hsa_dispatch` | `KernelsInOrder` | for an orderly client the ring is a queue |
| | `ArgumentsHeld` | the arguments of a kernel that runs or may start are registered both times, under every client |
| | `AllReported` | for an orderly client every launch is reported |

Runs that find a disagreement between the code and what the repository says of it:

| run | property | what happens |
|---|---|---|
| `allocator_subscript` | `StoreIsRead` | the non-const `array` subscript with an int discards the buffer where it should synchronize it (`amp.h:1387`; the const overload at 1394 does): a kernel stores an element, and the subscript on the host obtains the value from before the launch; `tests/Unit/Atomic/atomic_add_global.cpp:25` reads results that way |
| `cpu_overflow` | `AllRanOnReturn` | `ext[0] * (part + 1) / NTHREAD` wraps although the extent passed the check of `parallel_for_each`; slices are lost and the call returns.  The conformance test `extent_max` asks for such domains |
| `cpu_memory_reuse` | `ReadsCurrent` | the second serialization assigns `mem_info[rw.data.get()].data`, the shadow again; the functor's own views never get the user's pointer back (`mcwamp_cpu.cpp:50`) |
| `divergence_uniform` | `UniformBarriers` | `TileUniform.cpp:10-11` says that all active control flow leading to a tile barrier is checked to be uniform; the pass looks only at the branches that control the barrier's block itself (245), and not at an edge from a block to itself (129), so a barrier in a block that repeats itself by a divergent branch, or below a uniform branch inside a divergent one, passes |

Every property has a mutant of the code, kept beside the definition it varies, that breaks it under the
same configuration.

Seen while modelling and not a run: `HSAAMPAllocator::append(...) override`
(`lib/hsa/mcwamp_hsa.cpp:89`) and `getQueue() override` in the OpenCL library
(`lib/opencl/mcwamp_opencl.cpp:165`) override functions that are not virtual in
the base class, so these files do not compile against this commit's header; the
models take them as they are evidently meant.  `DispatchImpl::isDispatched` is
TRUE exactly from the doorbell to `waitComplete`, so the wait in the destructor
never happens.  The CPU library defines no `LaunchKernelAsyncImpl` and no
`CreateKernelImpl`, so `async_parallel_for_each` on the CPU calls a null pointer.
The atomic operations of the CPU return the new value of the cell, those of
OpenCL the old one; and a mutex per operation lets `add` and `max` on one cell lose
updates (a kernel of `cpu_tiles` does it, and `UpdatesKept` leaves such cells out).  `computeLaunchAttr`
(`lib/hsa/HSAContextKaveri.cpp`) reduces a tile that is too large instead of refusing it.
Two divergent branches around a `new` make `malloc-select` replace it
twice.

## Bounds and why they are enough

- `AmpAllocator_opencl`: one user buffer, one buffer of the runtime, two elements,
  two values, two references (`MaxRef`).  Entries of different pointers touch each
  other only through a launch that captures several and through the queue; two buffers
  give both.  Two elements are what tells a partial store from a full copy, two
  references what tells the last view from another.  Four clients: the safe one, and three that between them use every
  unsafe operation; the constraint `FewViews` gives the unsafe ones one view at a time, since `FlagsConsistent` and `CloseFlushes`
  are all that is claimed for them.  The theorems remove these bounds.
- `AmpAllocator_subscript`: one element and one client, which suffices for its counterexample.
- `CpuExecutor_tiles`: three threads over two columns, so that one slice is empty
  and one thread ends at once; two rows, so that contexts are set up again on used
  stacks; three items and two barriers, so that there is an item in the middle of the
  ring and a barrier between barriers.  `Wrap = 16` is far from wrapping here;
  `CpuExecutor_overflow` has a domain for which it does (six columns, three threads).
  Three kernels: two items count in a cell, two raise one, and one raises a cell that another counts in.
- `CpuMemory_clients`: two buffers, two functors of two views: two views on one buffer, one
  view on each, and a second functor that outlives the first; every client.
- `DeviceNew_kernels`: two blocks and four kernels, with Xmalloc two tiles of two items and one tile that deletes at once, with malloc two
  tiles of one item that delete at once and one tile of two, in which items may also skip `new` and delete a null pointer; the first word of a
  fresh block is 1 (`Garbage`), a value that looks like a counter that ends with the next
  `delete`; the result that a service thread answers without having stored it (`hsa_new.h:283`) is a block (`Unset`), which the item does not look at.
- `CompletionFuture_clients`: two objects and two continuations, which one object can take over from another,
  one functor that both continuations may share, one operation.
- `OpenCLKernels_starts`: two processes, one with two threads; a source they share, and a second one that the other may be built with, with a byte below 16 in its hash;
  names that are a kernel's, near to one, near to none, and longer than the nearest; a file of two pieces, so that half of it can be there; one upgrade, one kind of slip.  `NSlip` stops a run before
  a second kind, which shows what each slip breaks by itself; the theorems have no such bound, and the colliding hashes, which no source here has, are in theirs.
- `DivergencePasses_functions`: every function of four blocks in which a block has at most two successors, and every set of
  divergent branches.  Four blocks give branches inside branches, a join, and a loop with an exit in its middle.  `DivergencePasses_uniform` is the same.
- `HsaDispatch_ring`: two threads, three launches, two slots: the ring wraps, is
  full, and is overrun by clients that are not orderly.  `NLaunch` bounds the run.

The runs of `CpuExecutor`, `DeviceNew`, `HsaDispatch`, `CompletionFuture` and `DivergencePasses` have `CHECK_DEADLOCK FALSE`
since their programs end: the call returns, `main` has joined its threads, the
context is gone, all objects are destroyed, the passes are done.  `CpuMemory_clients` has it because nothing is left to do once the
runtime has deleted the program's memory.

## Fairness

- `CpuExecutor`: weak fairness of the launching thread and of each worker.  They are
  operating system threads; no worker waits for another, and the launcher only for workers.
- `CpuAtomics`: the same, per thread over its atomic operations and its other steps; a thread that waits for a mutex is not starved, since
  a kernel's calls are finitely many.
- `CompletionFuture`: weak fairness of each continuation thread, of the operation (it
  ends), and of a destructor that can end.  What the client does next has none.
- `DeviceNew`: weak fairness of `main`, each service thread and each work item.
  Spinning on a slot is no step of the model, so this asks of the device only that an
  item whose answer is there goes on.  The code itself relies on
  that: a kernel whose items starve each other would never get its memory.
- `HsaDispatch`: weak fairness of each launch's next step (its thread runs), of the end of a
  kernel, and of the packet processor *when the last doorbell is at or past the next
  packet*.  The processor may look earlier, but nothing obliges it to, so a doorbell
  that falls short loses a packet, and `AllReported` notices.  Creating launches
  and leaving `main` is the client's choice and has no fairness.

`AmpAllocator`, `CpuMemory`, `OpenCLKernels` and `DivergencePasses` make no liveness claim.

## Proofs

The theorems hold for every value of the constants under the assumptions named in the modules.

`AmpAllocatorProofs`, for any buffers, elements and values.
- `Typing`: `Spec => []TypeOK`.
- `FlagsAlwaysConsistent`: `Spec => []FlagsConsistent`, for every client.  It is nearly
  inductive: besides itself it needs only types.
- `InFlightAlways`: `Spec => []InFlight`.  `InFlight` joins
  `PendingResultsKept`, `StrayStoresUnread` and `ReadBackAgrees`, each under the condition `SafeClient`, and none of them
  inductive alone (whether a read back keeps its two copies equal depends on no
  kernel writing the buffer, and that on who may launch on it); each is a corollary.  `SafeClient` is `unsafe \subseteq {"arraySubscript"}`, and `DevBuf = SrcBuf`
  if that operation is used: with no device copy of an `array` it is harmless.  It never changes (`ClientStays`).
- `TwoCopiesOneMemory`: `Spec => OneMemory`, in-order queue or not:
  the initial state maps to one of `CoherentArray`, and under the invariant every
  action of a safe client maps to a `Read`, `Write`, `Lose`, `Settle` or a stutter.
- `ReadsAreCurrent`: `Spec => ReadsCurrent`: a safe client never obtains the stale copy, from the same step lemma.  Run `allocator_subscript` shows
  on `StoreIsRead` what an unsafe one obtains.
- `ClosingFlushes`: `Spec => CloseFlushes`, for every client.

`HsaDispatchProofs`, for any number of threads, launches and slots and for
clients that race or overrun the ring:
- `PacketsFollowed`: `Spec => []Delivery`.  `Delivery` follows a packet: before it is
  stored it is nowhere and its signal is 1; it is in at most one slot, or running, and
  not both; while it is either its signal is 1; and the registrations of its arguments
  follow the progress of its launch.
- `ArgumentsAlwaysHeld`: `Spec => []ArgumentsHeld`.  `ArgumentsHeld` is not inductive: it is lost
  by `Complete` unless a signal below 1 excludes that the packet is still in the ring,
  which is what `Delivery` adds.  The proof shows why a lost packet (an overwritten
  slot) can hang its waiter but never frees arguments under a kernel.
- `TypesAlwaysOK`: `Spec => []TypeOK`.  Races set the write index back but never too far ahead: it is at most the number of
  launches that have moved it (`Counted`).
- `RingIsAQueue`: `Spec => KernelsInOrder`.  For an orderly client one launch at a time is on its way into the ring, with the
  current write index, and each slot between the indices holds a launch (`InOrder`); indices less than `QSize` apart have different
  slots, so that storing a packet and taking one are `Append` and `Tail`.

`CpuExecutorProofs`, for any number of threads, tiles, items and barriers:
- `Typing`: `Spec => []TypeOK`, also when bounds wrap: a wrapped product is smaller, so that slices are lost but none leaves the domain.
- `RoundsInStep`: `Spec => []RingInStep`.  The invariant `Fibers` says of a round what stands below the running item (the barrier it has
  left), what above (the next one), and that the shared index is the running item's until the last
  segment, in which it stays at the top; the end of an item goes by `uc_link` instead, and the two agree only because of that.
- `BarriersKept` and `AllRunBeforeReturn`: if `NoWrap` (`Cols * NThread < Wrap`), every step is a step of `TileExecution` or changes
  nothing there, so every segment runs once, after the barriers before it, and the call
  returns after all of them.  The slices do not overlap and cover the domain (`SlicesApart`, `SlicesCover`,
  about the integer division in the bounds); `Progress` says of every thread which of its pieces have run.
  `NoWrap` is what the finding of `cpu_overflow` violates.

and, in the second half of the same module, with atomic operations, for any kernel:
- `AtomicsRunInSteps`: a program with atomic operations takes only steps of `CpuExecutor`, so what is proved there holds.
- `OneAtATime`: two threads in the same operation for the same type are one.
- `PlacesAreOwn`: `AtomicSpec => []OwnPlace` if every `atomic_fetch_add` adds something.  The invariant: what was returned is below what the cell
  will hold after the store that is under way.
- `NoUpdateIsLost`: `AtomicSpec => []UpdatesKept` if `NoWrap`.  The invariant `Updates` holds at every moment, not only at the end: a cell contains
  the sum (or the maximum) over the pieces of work whose operation has stored, and the value that a thread has loaded and not yet stored is still the
  cell's.  A store must add a piece that was not counted, which is where `Progress` comes in (no piece runs twice), and no other thread may store in between
  (`OneAtATime`).  The sums of the model are defined by choosing an element; that the order does not matter (`SumsAgree`, `SumOfOneMore`) is proved by taking a
  minimal set on which two ways of adding differ.

`CompletionFutureProofs`, for any number of objects, functors and continuations: `Typing`, `CarefulClientsAreSafe`
(`NoFault`), `ThreadsHaveOneOwner` (`OneOwner`) and `CalledAfterOperation` (no continuation is called before its operation has
completed).  The invariant `Rules` says where the references of a thread lead while it may use them: owner and object agree, a
thread that is deleted has returned, a functor stays until then.

`OpenCLKernelsProofs`, for any number of processes, threads, sources, pieces and slips:
- `Typing`, for every client.
- `ConcurrentWritesSettle`: `Spec => []CacheSettles`.  The inductive invariant `Complete` says of every piece of a file that it is there or
  that someone will come to it: the process that empties a file has all of it before itself.
- `ProgramsAreOwn`: `Spec => []OwnKernels`, from the contents of files and programs being of a source with that name.
- `ArgumentsAreOwn`: `Spec => OwnArguments`.
- `LaunchesSucceed`: `Spec => []StartsSucceed`, for any distances and any effect of the copy of a name.  The invariant `QuietInv`: as long as no slip has happened but
  that threads share a kernel, a file has one writer at most and is whole unless it is being written, and
  only kernels that exist are on their way to `CreateKernel`: a name that is no kernel's is replaced, since the kernels are known (`early`), and becomes one (`far`).

`DivergencePassesProofs`, for functions with any number of blocks, any edges, branches and calls:
- `Typing`, and `WalksStop`: `Spec => []WalkStopsInTree`: the walk from an edge never asks for the parent of the root, since the block it starts in is
  a child of an ancestor of where the edge leads.
- `DependencesAreRight`: what the walks collect is control dependence, defined by paths (`Controls`): a branch controls a block if
  every path from one of the branch's successors passes it, and not every path from the branch itself comes to it.  The one difference, which the theorem
  states, is that the edge of a block to itself is skipped.
- `Verdicts`: `Spec => []Verdict`: a function is rejected, and a `new` replaced, only if a divergent branch leads to the call (`Leading`, the transitive closure of
  `Controls`) or the option says so; and if a function goes on, or a `new` stays, no divergent branch controls the call but that of its own block that
  repeats itself.  That no divergent branch *leads* to a barrier (`UniformBarriers`) does not hold; see the findings.
  `ReplacedAtMostOnce`: `Spec => []ReplacedOnce`.
- The first half is about graphs: `Reach` is the least set that contains its start and is closed under the edges; the post-dominators of a block form a chain, so
  the nearest of them exists (`ParentIs`); the tree's paths are those chains (`AncestorsAre`).  The second half is about steps: `WalkInv` says that the
  walk is on the path of its edge, that what it has collected is right, and that nothing it has passed is missing; `VerdictInv` and `OnceInv` carry this
  through the judgements and the replacements.

`DeviceNewProofs`, for any kernel, numbers of items and blocks, and contents of fresh blocks:
- `TypesAlwaysOK` and `PendingAlwaysAwake`, from the invariant `Waiting`: every request in a table has an item that waits for it,
  and until `main` stores `Exit` a signal counts the items that the thread may still have to serve.
- `HeldAlwaysLive`, `AnswersAlwaysOwn` and `NothingEverLeaks`, when the counter of a shared block is stored before a member deletes (`CounterFirst`), from the
  invariant `Blocks`.  It says that there is a function from the groups of items that share a block (a tile with Xmalloc, else an item)
  to blocks, such that each answer of `new`, on its way through the table and to the item, is the block of the item's group, different
  groups have different blocks, and the counter in front of a block is the number of members whose `delete` is still to be served.

`CpuMemoryProofs`, for any number of buffers, functors and views:
- `TypesAlwaysOK`, `TablesAlwaysClean` and `ShadowsAlwaysKept`, whatever the client does.  A functor's views go together (`Uniform`):
  if they have the user's pointers, the launch exchanges them in order and the entry of a shadow counts those that are on it and not yet
  serialized again (`Fresh`); if not, the launch finds nothing to exchange (`Relaunched`), which only careless clients meet.
- `UserMemoryAlwaysKept` and `ShadowsActAsOneMemory` (`Spec => OneMemory`) for a careful client: the invariant `Good` adds that every buffer of the
  launch has another owner, so that giving an entry back deletes nothing, and that its shadow is the good copy while the kernel runs.
- `ReadsAreCurrent`: `Spec => ReadsCurrent` if `Unsafe = {}`; run `cpu_memory_reuse` shows what launching a functor again does to it.

Where a proof needs induction over data (finite sums, paths of a graph, functions defined by recursion on a number) it takes a
minimal counterexample: the theorems of `WellFoundedInduction` and `FiniteSetTheorems` that say that a set of naturals has a least element, and a
family of subsets of a finite set a minimal one, can be cited, while those with an operator as parameter cannot.

Only model-checked: liveness (`Finishes`, `Ends`, `AllReported`, and that the call returns, in `BarriersHold`), since the prover has
neither liveness under fairness nor `ENABLED`.  What these rest on is proved: `PendingAlwaysAwake`, `RingIsAQueue` and `PacketsFollowed`,
`BarriersKept`.

## What is not modelled and why

- *Sizes*: buffers are copied as a whole.  Views of different extents on one pointer
  and `reinterpret_as` are hazards without a property.
- *Several host threads in the memory manager*: `rwq` has no lock; two threads inside
  `std::map` are undefined behaviour, and the models let one host thread operate.
  `synchronize_async` is modelled, with its effects on flags and contents.
- *Views of count 0*, and the CPU branches of `init`, `sync` and `free` in `AmpAllocator`
  (they are in `CpuMemory`).
- *Untiled domains on the CPU* are tiles of one item; the order of rows and columns
  within a slice is another there, and no property depends on it.
- *Barriers in divergent control flow*, which C++AMP forbids: every item passes the same number.
- *Device new*: one kernel at a time (asynchronous launches that use the same slots are a hazard without a property), one `new` and one `delete` per item,
  kernels of one dimension (those of more share slots, see above), a `malloc` that never returns NULL (`HeapAssumption`),
  no sizes inside a block (the prefix sum of Xmalloc is wrong for tiles that are no power of two).
- *HSA*: compiling and finalizing kernels, grid sizes, layout of arguments.
- *OpenCL*: how the edit distance is computed (it is a function `Distance` here), device queries, errors of the driver.
- *The heap after undefined behaviour*: of the store through a dangling `rw` the model has the outcomes that stay within the table.
- *Atomics*: `amp.h` and `mcwamp_atomic.cpp` have no atomic operations but add, max and inc.  Contents are natural numbers.
- *Runtime selection*: a static object chooses the runtime before `main`, from what can be loaded; nothing can interleave with it.
- *Divergence*: which values depend on an item's id (a walk over LLVM's def-use chains) is one bit of a branch; functions with a block
  that cannot leave are left out.
- *Other compiler passes* (`CBackend`, `Promote`, `PromotePrivate`, `CpuRename`, `EraseNonkernel`) rewrite LLVM code; a model would be one of LLVM's
  instructions and types.  *clang plugins, math functions, short vectors, scripts, md5, Bolt, gtest, tests* keep no state of
  the runtime, are generated or vendored, or are clients of it.  Together these are most of the
  repository's lines, so the share of lines that is modelled stays small; of the runtime itself it is the greater part.

`PROJECT.json` lists every component with its status.

## Plan

Done: every component with state of its own has a module and theorems.  All safety properties that the passing runs check are proved, and
those that the other runs violate are proved for the clients and sizes that avoid the finding.

What could follow, in this order:
1. Padding and checks of extents, and the edit distance, as functions against reference definitions.
2. Two kernels in flight in `DeviceNew`.
3. Several host threads in the memory manager, once `rwq` has a lock to model.

## How to run

    tlc -config AmpAllocator_opencl.cfg MCAmpAllocator     # and so on; about two minutes at most
    tlapm AmpAllocatorProofs.tla                           # and the other ...Proofs

Each `.cfg` names the module prefix it belongs to (`X_name.cfg` for `MCX`).
