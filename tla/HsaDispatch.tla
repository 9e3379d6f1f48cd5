---------------------------- MODULE HsaDispatch ----------------------------
(***************************************************************************)
(* Kernel launches on HSA (mcwamp_hsa.cpp, HSAContextKaveri.cpp).  A host  *)
(* thread makes a dispatch object, writes its packet into the ring of the  *)
(* user mode queue, moves the write index and rings the doorbell; then it, *)
(* or a detached thread if the launch is asynchronous, waits for the       *)
(* completion signal and gives the arguments back.  The packet processor   *)
(* takes the packets in order and runs one kernel at a time (the barrier   *)
(* bit is set in every packet).                                            *)
(*                                                                         *)
(* The code has no lock and never looks at the read index, so it serves a  *)
(* client that launches from one thread at a time and has at most a        *)
(* queue's size of launches in flight.  Other clients are modelled too:    *)
(* the ghost variable orderly becomes FALSE when one breaks these rules.   *)
(***************************************************************************)
EXTENDS Integers, Sequences, FiniteSets

CONSTANTS
    Host,      \* threads that launch
    NLaunch,   \* bound: launches of a run
    QSize      \* slots of the queue, a power of two

ASSUME HostAssumption == Host # {}
ASSUME NLaunchAssumption == NLaunch \in Nat \ {0}
ASSUME QSizeAssumption == QSize \in Nat \ {0}

Launch == 1 .. NLaunch
Empty == 0                    \* a slot whose packet header is invalid
Slots == 0 .. QSize - 1

VARIABLES
    pc,        \* pc[d]: how far launch d has come
    caller,    \* the thread that launches d
    async,     \* d was launched with LaunchKernelAsync
    regs,      \* registrations of the memory that holds d's arguments
    index,     \* the write index that d has loaded
    signal,    \* the completion signal of d
    ring,      \* the packets in the queue
    write, read, doorbell,    \* indices, which only grow
    running,   \* launches whose kernel runs
    up,        \* the HSA context exists
    orderly    \* the client has kept to the rules until now

dispatch == <<caller, async>>
queue == <<ring, write, doorbell>>
vars == <<pc, dispatch, regs, index, signal, queue, read, running, up, orderly>>

Init == /\ pc = [d \in Launch |-> "none"]
        /\ caller \in [Launch -> {CHOOSE h \in Host : TRUE}]
        /\ async = [d \in Launch |-> FALSE]
        /\ regs = [d \in Launch |-> 0] /\ index = [d \in Launch |-> 0]
        /\ signal = [d \in Launch |-> 1]
        /\ ring = [s \in Slots |-> Empty]
        /\ write = 0 /\ read = 0 /\ doorbell = -1
        /\ running = {} /\ up = TRUE /\ orderly = TRUE

-----------------------------------------------------------------------------
(* Host threads.                                                           *)

Goto(d, l) == pc' = [pc EXCEPT ![d] = l]

\* d is between the load of the write index and the doorbell.
Writing(d) == pc[d] \in {"loaded", "stored", "moved"}
InCall(d) == \/ pc[d] = "made" \/ Writing(d)
             \/ pc[d] \in {"waiting", "disposed"} /\ ~async[d]
Idle(h) == \A d \in Launch : caller[d] = h => ~InCall(d)

\* CreateKernelImpl: a new dispatch object, its argument memory reserved and
\* registered, and the arguments pushed: if they outgrow it, the vector moves
\* to memory that is not registered.
Create(h, d) ==
    /\ up /\ Idle(h) /\ pc[d] = "none" /\ \A e \in 1 .. d - 1 : pc[e] # "none"
    /\ caller' = [caller EXCEPT ![d] = h]
    /\ \E a \in BOOLEAN : async' = [async EXCEPT ![d] = a]
    /\ \E moved \in BOOLEAN : regs' = [regs EXCEPT ![d] = IF moved THEN 0 ELSE 1]
    /\ Goto(d, "made")
    /\ UNCHANGED <<index, signal, queue, read, running, up, orderly>>

\* Memory that has moved is registered again, and all of it once more with the
\* packet.  (Definitions named Mut_ are slips that the properties must notice;
\* no action uses them.  Here: moved memory is not registered.)
Mut_Registered(d) == regs[d] + 1
Registered(d) == (IF regs[d] = 0 THEN 1 ELSE regs[d]) + 1

\* dispatchKernel up to the load of the write index.
LoadIndex(d) ==
    /\ up /\ pc[d] = "made"
    /\ regs' = [regs EXCEPT ![d] = Registered(d)]
    /\ index' = [index EXCEPT ![d] = write]
    /\ Goto(d, "loaded")
    /\ orderly' = (orderly /\ (\A e \in Launch : ~Writing(e)) /\ write - read < QSize)
    /\ UNCHANGED <<dispatch, signal, queue, read, running, up>>

\* (Mut_: counted from one.)
Mut_SlotOf(i) == (i + 1) % QSize
SlotOf(i) == i % QSize

StorePacket(d) ==
    /\ up /\ pc[d] = "loaded"
    /\ ring' = [ring EXCEPT ![SlotOf(index[d])] = d]
    /\ Goto(d, "stored")
    /\ UNCHANGED <<dispatch, regs, index, signal, write, doorbell, read, running, up, orderly>>

StoreIndex(d) ==
    /\ up /\ pc[d] = "stored"
    /\ write' = index[d] + 1
    /\ Goto(d, "moved")
    /\ UNCHANGED <<dispatch, regs, index, signal, ring, doorbell, read, running, up, orderly>>

\* The doorbell gets the index of the packet.  (Mut_: of the packet before.)
Mut_Bell(i) == i - 1
Bell(i) == i

RingDoorbell(d) ==
    /\ up /\ pc[d] = "moved"
    /\ doorbell' = Bell(index[d])
    /\ Goto(d, "waiting")
    /\ UNCHANGED <<dispatch, regs, index, signal, ring, write, read, running, up, orderly>>

\* waitComplete and dispose, when the signal is less than 1: the memory is
\* deregistered twice and given back.  (Mut_: the wait is skipped.)
Mut_Completed(d) == TRUE
Completed(d) == signal[d] < 1

Complete(d) ==
    /\ up /\ pc[d] = "waiting" /\ Completed(d)
    /\ regs' = [regs EXCEPT ![d] = @ - 2]
    /\ Goto(d, "disposed")
    /\ UNCHANGED <<dispatch, index, signal, queue, read, running, up, orderly>>

\* The dispatch object is deleted; then the call returns, or the future of
\* the asynchronous launch becomes ready.
Report(d) ==
    /\ up /\ pc[d] = "disposed"
    /\ Goto(d, "gone")
    /\ UNCHANGED <<dispatch, regs, index, signal, queue, read, running, up, orderly>>

\* FinalizeHSAContext, when main returns: the queue is destroyed.  It does not
\* wait for launches; the client should.
Exit == /\ up /\ \A h \in Host : Idle(h)
        /\ up' = FALSE
        /\ orderly' = (orderly /\ \A d \in Launch : pc[d] \in {"none", "gone"})
        /\ UNCHANGED <<pc, dispatch, regs, index, signal, queue, read, running>>

-----------------------------------------------------------------------------
(* The packet processor, which is hardware.  It takes a packet as soon as  *)
(* the write index covers it, but need not look before the doorbell rang.  *)

Take == /\ up /\ running = {} /\ read < write
        /\ ring[read % QSize] # Empty
        /\ running' = {ring[read % QSize]}
        /\ ring' = [ring EXCEPT ![read % QSize] = Empty]
        /\ read' = read + 1
        /\ UNCHANGED <<pc, dispatch, regs, index, signal, write, doorbell, up, orderly>>

Finish(d) == /\ up /\ d \in running
             /\ running' = running \ {d}
             /\ signal' = [signal EXCEPT ![d] = @ - 1]
             /\ UNCHANGED <<pc, dispatch, regs, index, queue, read, up, orderly>>

-----------------------------------------------------------------------------
HostStep(d) == \/ LoadIndex(d) \/ StorePacket(d) \/ StoreIndex(d)
               \/ RingDoorbell(d) \/ Complete(d) \/ Report(d)

Next == \/ Exit \/ Take
        \/ \E d \in Launch : \/ HostStep(d) \/ Finish(d)
                             \/ \E h \in Host : Create(h, d)

\* Every thread runs, kernels end, and a doorbell at or past the next packet
\* wakes the processor.
Fairness == /\ WF_vars(doorbell >= read /\ Take)
            /\ \A d \in Launch : WF_vars(HostStep(d)) /\ WF_vars(Finish(d))

Spec == Init /\ [][Next]_vars /\ Fairness

-----------------------------------------------------------------------------
\* Types: the read index stays within the write index for orderly clients,
\* and no launch has more than the two registrations of its memory.
TypeOK ==
    /\ pc \in [Launch -> {"none", "made", "loaded", "stored", "moved", "waiting",
                          "disposed", "gone"}]
    /\ caller \in [Launch -> Host]
    /\ async \in [Launch -> BOOLEAN]
    /\ regs \in [Launch -> 0 .. 2] /\ index \in [Launch -> 0 .. NLaunch - 1]
    /\ signal \in [Launch -> {0, 1}]
    /\ ring \in [Slots -> Launch \cup {Empty}]
    /\ write \in 0 .. NLaunch /\ read \in 0 .. NLaunch
    /\ doorbell \in -1 .. NLaunch - 1
    /\ running \subseteq Launch /\ up \in BOOLEAN /\ orderly \in BOOLEAN
    /\ orderly => read <= write

\* While a kernel runs or may start, the memory with its arguments has not
\* been given back and is registered both times, whatever the client does.
ArgumentsHeld ==
    \A d \in Launch : (d \in running \/ \E s \in Slots : ring[s] = d) => regs[d] = 2

\* The ring is a queue: seen through the indices the launches of an orderly
\* client behave as KernelQueue says (order, once each, report after the run).
InRing == [i \in 1 .. write - read |-> ring[(read + i - 1) % QSize]]
Ran == {d \in Launch : signal[d] < 1}
Told == {d \in Launch : pc[d] = "gone"}
Queue == INSTANCE KernelQueue WITH
             waiting <- InRing, executing <- running, finished <- Ran, reported <- Told
KernelsInOrder == Queue!Init /\ [][orderly' => Queue!Next]_(Queue!vars)

\* No packet is lost: a launch of an orderly client is reported in the end.
AllReported ==
    []orderly => \A d \in Launch : (pc[d] = "made") ~> (pc[d] = "gone")
=============================================================================
