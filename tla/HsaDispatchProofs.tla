------------------------- MODULE HsaDispatchProofs -------------------------
(***************************************************************************)
(* HsaDispatch: whatever the client does, also when launches race for the  *)
(* write index or overrun the ring, a kernel's arguments stay registered   *)
(* until it has run.  The invariant follows a packet from the ring through *)
(* the processor: it is in at most one place, and its signal is still 1    *)
(* exactly as long as it may be somewhere.  Then: the indices of the queue *)
(* stay within the number of launches, and for a client that keeps to the  *)
(* rules the slots between them are a queue of launches, first in first    *)
(* out.                                                                    *)
(***************************************************************************)
EXTENDS HsaDispatch, TLAPS, FiniteSetTheorems, SequenceTheorems

Labels == {"none", "made", "loaded", "stored", "moved", "waiting", "disposed", "gone"}

\* What of TypeOK the argument needs; the counters are unbounded here.
Shapes ==
    /\ pc \in [Launch -> Labels]
    /\ regs \in [Launch -> Int] /\ signal \in [Launch -> Int]
    /\ index \in [Launch -> Nat] /\ write \in Nat /\ read \in Nat
    /\ ring \in [Slots -> Launch \cup {Empty}] /\ running \subseteq Launch

Ringed(d) == \E s \in Slots : ring[s] = d

Memory(d) ==
    /\ pc[d] = "made" => regs[d] \in {0, 1}
    /\ pc[d] \in {"loaded", "stored", "moved", "waiting"} => regs[d] = 2

Packet(d) ==
    /\ pc[d] \in {"none", "made", "loaded"} =>
           signal[d] = 1 /\ ~Ringed(d) /\ d \notin running
    /\ pc[d] \in {"disposed", "gone"} => signal[d] < 1
    /\ Ringed(d) \/ d \in running => signal[d] = 1
    /\ Ringed(d) => d \notin running
    /\ \A s, t \in Slots : ring[s] = d /\ ring[t] = d => s = t

Delivery == Shapes /\ \A d \in Launch : Memory(d) /\ Packet(d)

-----------------------------------------------------------------------------
\* An index taken modulo the size of the queue is a slot.
LEMMA IndexIsSlot ==
  ASSUME NEW i \in Nat
  PROVE  i % QSize \in Slots
BY QSizeAssumption DEF Slots

\* An empty slot holds no launch.
LEMMA EmptyIsNoLaunch == Empty \notin Launch
BY DEF Empty, Launch

\* A step that leaves a launch, the ring and the processor as they are keeps
\* what is said of that launch.
LEMMA Untouched ==
  ASSUME NEW d \in Launch, Memory(d), Packet(d),
         pc'[d] = pc[d], regs'[d] = regs[d], signal'[d] = signal[d],
         ring' = ring, running' = running
  PROVE  Memory(d)' /\ Packet(d)'
BY DEF Memory, Packet, Ringed

\* No packet is anywhere before the first launch.
LEMMA DeliveryInit == Init => Delivery
<1> SUFFICES ASSUME Init PROVE Delivery
  OBVIOUS
<1>1. Shapes
  BY DEF Init, Shapes, Labels, Slots
<1>2. ASSUME NEW d \in Launch PROVE Memory(d) /\ Packet(d)
  <2>1. pc[d] = "none" /\ signal[d] = 1 /\ d \notin running
    BY DEF Init
  <2>2. ~Ringed(d)
    BY EmptyIsNoLaunch DEF Init, Ringed
  <2> QED BY <2>1, <2>2 DEF Memory, Packet, Ringed
<1> QED BY <1>1, <1>2 DEF Delivery

\* The steps of the launching and waiting threads that touch neither the ring
\* nor the signal: the registrations follow the progress of the launch.
LEMMA ThreadStep ==
  ASSUME Delivery, NEW d \in Launch,
         \/ \E h \in Host : Create(h, d)
         \/ LoadIndex(d) \/ StoreIndex(d) \/ RingDoorbell(d)
         \/ Complete(d) \/ Report(d)
  PROVE  Delivery'
<1> USE DEF Delivery
<1>1. signal' = signal /\ ring' = ring /\ running' = running
  BY DEF Create, LoadIndex, StoreIndex, RingDoorbell, Complete, Report, queue
<1>2. ASSUME NEW e \in Launch, e # d
      PROVE  pc'[e] = pc[e] /\ regs'[e] = regs[e]
  BY <1>2 DEF Shapes, Create, LoadIndex, StoreIndex, RingDoorbell, Complete, Report, Goto
<1>3. ASSUME NEW e \in Launch, e # d PROVE Memory(e)' /\ Packet(e)'
  BY <1>1, <1>2, <1>3, Untouched
<1>4. ASSUME NEW h \in Host, Create(h, d) PROVE Shapes' /\ Memory(d)' /\ Packet(d)'
  <2>1. pc[d] = "none" /\ pc' = [pc EXCEPT ![d] = "made"]
        /\ index' = index /\ write' = write /\ read' = read
    BY <1>4 DEF Create, Goto, queue
  <2>2. PICK r \in {0, 1} : regs' = [regs EXCEPT ![d] = r]
    BY <1>4 DEF Create
  <2> QED BY <1>1, <2>1, <2>2 DEF Shapes, Labels, Memory, Packet, Ringed
<1>5. CASE LoadIndex(d)
  <2>1. pc[d] = "made" /\ pc' = [pc EXCEPT ![d] = "loaded"]
        /\ index' = [index EXCEPT ![d] = write] /\ write' = write /\ read' = read
    BY <1>5 DEF LoadIndex, Goto, queue
  <2>2. regs' = [regs EXCEPT ![d] = 2]
    <3>1. regs[d] \in {0, 1}
      BY <2>1 DEF Memory
    <3>2. Registered(d) = 2
      BY <3>1 DEF Registered
    <3> QED BY <1>5, <3>2 DEF LoadIndex
  <2> QED BY <1>1, <2>1, <2>2 DEF Shapes, Labels, Memory, Packet, Ringed
<1>6. CASE StoreIndex(d)
  <2>1. pc[d] = "stored" /\ pc' = [pc EXCEPT ![d] = "moved"]
        /\ write' = index[d] + 1 /\ index' = index /\ read' = read /\ regs' = regs
    BY <1>6 DEF StoreIndex, Goto
  <2> QED BY <1>1, <2>1 DEF Shapes, Labels, Memory, Packet, Ringed
<1>7. CASE RingDoorbell(d)
  <2>1. pc[d] = "moved" /\ pc' = [pc EXCEPT ![d] = "waiting"]
        /\ write' = write /\ index' = index /\ read' = read /\ regs' = regs
    BY <1>7 DEF RingDoorbell, Goto
  <2> QED BY <1>1, <2>1 DEF Shapes, Labels, Memory, Packet, Ringed
<1>8. CASE Complete(d)
  <2>1. pc[d] = "waiting" /\ pc' = [pc EXCEPT ![d] = "disposed"] /\ signal[d] < 1
        /\ regs' = [regs EXCEPT ![d] = @ - 2]
        /\ write' = write /\ index' = index /\ read' = read
    BY <1>8 DEF Complete, Completed, Goto, queue
  <2> QED BY <1>1, <2>1 DEF Shapes, Labels, Memory, Packet, Ringed
<1>9. CASE Report(d)
  <2>1. pc[d] = "disposed" /\ pc' = [pc EXCEPT ![d] = "gone"]
        /\ write' = write /\ index' = index /\ read' = read /\ regs' = regs
    BY <1>9 DEF Report, Goto, queue
  <2> QED BY <1>1, <2>1 DEF Shapes, Labels, Memory, Packet, Ringed
<1> QED BY <1>3, <1>4, <1>5, <1>6, <1>7, <1>8, <1>9

\* Storing a packet may overwrite another one, but makes no copy of any.
LEMMA PacketStep ==
  ASSUME Delivery, NEW d \in Launch, StorePacket(d)
  PROVE  Delivery'
<1> USE DEF Delivery
<1> DEFINE s == SlotOf(index[d])
<1>1. pc[d] = "loaded" /\ pc' = [pc EXCEPT ![d] = "stored"]
      /\ ring' = [ring EXCEPT ![s] = d] /\ index' = index /\ write' = write
      /\ read' = read /\ regs' = regs /\ signal' = signal /\ running' = running
  BY DEF StorePacket, Goto
<1>2. s \in Slots
  BY IndexIsSlot DEF Shapes, SlotOf
<1> HIDE DEF s
<1>3. Shapes'
  BY <1>1, <1>2 DEF Shapes, Labels
<1>4. signal[d] = 1 /\ ~Ringed(d) /\ d \notin running
  BY <1>1 DEF Packet
<1>5. \A t \in Slots : ring'[t] = IF t = s THEN d ELSE ring[t]
  BY <1>1, <1>2 DEF Shapes
<1>6. Memory(d)' /\ Packet(d)'
  <2>1. pc'[d] = "stored" /\ regs'[d] = 2 /\ signal'[d] = 1 /\ d \notin running'
    BY <1>1, <1>4 DEF Shapes, Memory
  <2>2. \A t \in Slots : ring'[t] = d => t = s
    BY <1>4, <1>5 DEF Ringed
  <2> QED BY <2>1, <2>2 DEF Memory, Packet, Ringed
<1>7. ASSUME NEW e \in Launch, e # d PROVE Memory(e)' /\ Packet(e)'
  <2>1. pc'[e] = pc[e] /\ regs'[e] = regs[e] /\ signal'[e] = signal[e]
    BY <1>1, <1>7 DEF Shapes
  <2>2. \A t \in Slots : ring'[t] = e => ring[t] = e
    BY <1>5, <1>7
  <2> QED BY <1>1, <2>1, <2>2 DEF Memory, Packet, Ringed
<1> QED BY <1>3, <1>6, <1>7

\* The processor moves a packet out of the ring.
LEMMA TakeStep ==
  ASSUME Delivery, Take
  PROVE  Delivery'
<1> USE DEF Delivery
<1> DEFINE s == read % QSize
           d == ring[s]
<1>1. running = {} /\ d # Empty /\ running' = {d}
      /\ ring' = [ring EXCEPT ![s] = Empty] /\ read' = read + 1
      /\ pc' = pc /\ regs' = regs /\ signal' = signal /\ index' = index /\ write' = write
  BY DEF Take
<1>2. s \in Slots
  BY IndexIsSlot DEF Shapes
<1> HIDE DEF s
<1>3. d \in Launch
  BY <1>1, <1>2 DEF Shapes
<1>4. Shapes'
  BY <1>1, <1>2, <1>3 DEF Shapes
<1>5. \A t \in Slots : ring'[t] = IF t = s THEN Empty ELSE ring[t]
  BY <1>1, <1>2 DEF Shapes
<1>6. ASSUME NEW e \in Launch PROVE Memory(e)' /\ Packet(e)'
  <2>1. Memory(e)'
    BY <1>1 DEF Memory
  <2>2. \A t \in Slots : ring'[t] = e => ring[t] = e /\ t # s
    BY <1>5, EmptyIsNoLaunch
  <2>3. CASE e = d
    <3>1. Ringed(e)
      BY <1>2, <2>3 DEF Ringed
    <3>2. ~Ringed(e)'
      BY <1>2, <2>2, <2>3 DEF Packet, Ringed
    <3> QED BY <1>1, <2>1, <3>1, <3>2 DEF Packet, Ringed
  <2>4. CASE e # d
    BY <1>1, <2>1, <2>2, <2>4 DEF Packet, Ringed
  <2> QED BY <2>1, <2>3, <2>4
<1> QED BY <1>4, <1>6

\* A kernel that ends was in no slot, and its signal falls once.
LEMMA FinishStep ==
  ASSUME Delivery, NEW d \in Launch, Finish(d)
  PROVE  Delivery'
<1> USE DEF Delivery
<1>1. d \in running /\ running' = running \ {d}
      /\ signal' = [signal EXCEPT ![d] = @ - 1] /\ ring' = ring /\ read' = read
      /\ pc' = pc /\ regs' = regs /\ index' = index /\ write' = write
  BY DEF Finish, queue
<1>2. Shapes'
  BY <1>1 DEF Shapes
<1>3. ASSUME NEW e \in Launch PROVE Memory(e)' /\ Packet(e)'
  <2>1. Memory(e)'
    BY <1>1 DEF Memory
  <2>2. CASE e = d
    <3>1. signal[d] = 1 /\ ~Ringed(d) /\ pc[d] \notin {"none", "made", "loaded"}
      BY <1>1 DEF Packet
    <3>2. signal'[d] = 0
      BY <1>1, <3>1 DEF Shapes
    <3> QED BY <1>1, <2>1, <2>2, <3>1, <3>2 DEF Packet, Ringed
  <2>3. CASE e # d
    <3>1. signal'[e] = signal[e]
      BY <1>1, <2>3 DEF Shapes
    <3> QED BY <1>1, <2>1, <2>3, <3>1 DEF Packet, Ringed
  <2> QED BY <2>1, <2>2, <2>3
<1> QED BY <1>2, <1>3

\* One step of anyone.
LEMMA DeliveryStep == Delivery /\ [Next]_vars => Delivery'
<1> SUFFICES ASSUME Delivery, [Next]_vars PROVE Delivery'
  OBVIOUS
<1>1. CASE Exit
  BY <1>1 DEF Exit, queue, Delivery, Shapes, Memory, Packet, Ringed
<1>2. CASE Take
  BY <1>2, TakeStep
<1>3. ASSUME NEW d \in Launch, HostStep(d) PROVE Delivery'
  BY <1>3, ThreadStep, PacketStep DEF HostStep
<1>4. ASSUME NEW d \in Launch, Finish(d) PROVE Delivery'
  BY <1>4, FinishStep
<1>5. ASSUME NEW d \in Launch, NEW h \in Host, Create(h, d) PROVE Delivery'
  BY <1>5, ThreadStep
<1>6. CASE UNCHANGED vars
  BY <1>6 DEF vars, queue, Delivery, Shapes, Memory, Packet, Ringed
<1> QED BY <1>1, <1>2, <1>3, <1>4, <1>5, <1>6 DEF Next

\* A packet is in one place at most, and its signal tells whether it has run:
\* for any number of threads, launches and slots, and for every client.
THEOREM PacketsFollowed == Spec => []Delivery
<1> QED BY DeliveryInit, DeliveryStep, PTL DEF Spec

\* The arguments of a kernel that runs or may yet start are registered both
\* times and not given back, whatever the client does.
THEOREM ArgumentsAlwaysHeld == Spec => []ArgumentsHeld
<1>1. Delivery => ArgumentsHeld
  <2> SUFFICES ASSUME Delivery, NEW d \in Launch, d \in running \/ Ringed(d)
               PROVE  regs[d] = 2
    BY DEF ArgumentsHeld, Ringed
  <2>1. signal[d] = 1
    BY DEF Delivery, Packet
  <2>2. pc[d] \in {"stored", "moved", "waiting"}
    BY <2>1 DEF Delivery, Shapes, Labels, Packet
  <2> QED BY <2>2 DEF Delivery, Memory
<1> QED BY <1>1, PacketsFollowed, PTL
-----------------------------------------------------------------------------
(* The indices.  A write index counts launches that have moved it: every   *)
(* launch adds one to an index that others have left behind.               *)

Moved == {d \in Launch : pc[d] \in {"moved", "waiting", "disposed", "gone"}}

Counted ==
    /\ write <= Cardinality(Moved)
    /\ \A d \in Launch : /\ pc[d] \in {"loaded", "stored"} => index[d] <= Cardinality(Moved)
                         /\ index[d] <= NLaunch - 1
    /\ read <= NLaunch
    /\ doorbell \in -1 .. NLaunch - 1

\* What of TypeOK neither Delivery nor Counted says.
Rest ==
    /\ caller \in [Launch -> Host] /\ async \in [Launch -> BOOLEAN]
    /\ up \in BOOLEAN /\ orderly \in BOOLEAN
    /\ \A d \in Launch : regs[d] \in 0 .. 2 /\ signal[d] \in {0, 1}

\* An orderly client: one launch at a time is on its way into the ring, with
\* the current write index, and every slot between the indices has a packet.
InOrder ==
    orderly =>
    /\ read <= write /\ write - read <= QSize
    /\ \A d, e \in Launch : Writing(d) /\ Writing(e) => d = e
    /\ \A d \in Launch :
           /\ pc[d] \in {"loaded", "stored"} => index[d] = write /\ write - read < QSize
           /\ pc[d] = "stored" => ring[SlotOf(write)] = d
    /\ \A k \in read .. write - 1 : ring[SlotOf(k)] \in Launch

\* The launches that have moved the index are finitely many, and fewer than
\* all while one has not.
LEMMA MovedBounds ==
  /\ IsFiniteSet(Moved) /\ Cardinality(Moved) \in Nat
  /\ \A d \in Launch : d \notin Moved => Cardinality(Moved) <= NLaunch - 1
<1>1. IsFiniteSet(Launch) /\ Cardinality(Launch) = NLaunch
  BY FS_Interval, NLaunchAssumption DEF Launch
<1>2. \A S \in SUBSET Launch : IsFiniteSet(S) /\ Cardinality(S) \in Nat /\ Cardinality(S) <= NLaunch
  BY <1>1, FS_Subset, FS_CardinalityType
<1>3. Moved \in SUBSET Launch
  BY DEF Moved
<1>4. ASSUME NEW d \in Launch, d \notin Moved PROVE Cardinality(Moved) <= NLaunch - 1
  <2>1. Moved \cup {d} \in SUBSET Launch
    BY <1>3
  <2>2. Cardinality(Moved \cup {d}) = Cardinality(Moved) + 1
    BY <1>2, <1>3, <1>4, FS_AddElement
  <2> QED BY <1>2, <1>3, <2>1, <2>2, NLaunchAssumption
<1> QED BY <1>2, <1>3, <1>4

\* A step that no launch enters or leaves this set by keeps its size.
LEMMA MovedKept ==
  ASSUME \A d \in Launch :
           pc'[d] \in {"moved", "waiting", "disposed", "gone"}
           <=> pc[d] \in {"moved", "waiting", "disposed", "gone"}
  PROVE  Moved' = Moved
BY DEF Moved

\* Nothing is counted before the first launch.
LEMMA CountedInit == Init => Counted /\ Rest
<1> SUFFICES ASSUME Init PROVE Counted /\ Rest
  OBVIOUS
<1>1. Cardinality(Moved) \in Nat
  BY MovedBounds
<1>2. (CHOOSE h \in Host : TRUE) \in Host
  BY HostAssumption
<1>3. Counted
  BY <1>1, NLaunchAssumption DEF Init, Counted
<1>4. Rest
  BY <1>2 DEF Init, Rest
<1> QED BY <1>3, <1>4

\* Moving the index counts one launch more, whoever else has moved it since
\* this launch has read it.
LEMMA CountedMove ==
  ASSUME Delivery, Counted, NEW d \in Launch, StoreIndex(d)
  PROVE  Counted'
<1>1. /\ pc[d] = "stored" /\ pc' = [pc EXCEPT ![d] = "moved"] /\ write' = index[d] + 1
      /\ index' = index /\ read' = read /\ doorbell' = doorbell
      /\ pc \in [Launch -> Labels] /\ index \in [Launch -> Nat]
  BY DEF StoreIndex, Goto, Delivery, Shapes
<1>2. \A e \in Launch : pc'[e] = IF e = d THEN "moved" ELSE pc[e]
  BY <1>1
<1>3. Moved' = Moved \cup {d} /\ d \notin Moved
  BY <1>1, <1>2 DEF Moved
<1>4. Cardinality(Moved') = Cardinality(Moved) + 1 /\ Cardinality(Moved) \in Nat
  BY <1>3, MovedBounds, FS_AddElement
<1>5. write' <= Cardinality(Moved')
  BY <1>1, <1>4 DEF Counted
<1>6. ASSUME NEW e \in Launch, pc'[e] \in {"loaded", "stored"}
      PROVE  index'[e] <= Cardinality(Moved')
  BY <1>1, <1>2, <1>4, <1>6 DEF Counted
<1> QED BY <1>1, <1>5, <1>6 DEF Counted

\* The other steps of a launch.
LEMMA CountedLaunch ==
  ASSUME Delivery, Counted, NEW d \in Launch,
         \/ \E h \in Host : Create(h, d)
         \/ LoadIndex(d) \/ StorePacket(d) \/ RingDoorbell(d) \/ Complete(d) \/ Report(d)
  PROVE  Counted'
<1>1. pc \in [Launch -> Labels] /\ index \in [Launch -> Nat] /\ write \in Nat
  BY DEF Delivery, Shapes
<1>2. Moved' = Moved /\ Cardinality(Moved) \in Nat
  <2>1. \A e \in Launch : e # d => pc'[e] = pc[e]
    BY <1>1 DEF Create, LoadIndex, StorePacket, RingDoorbell, Complete, Report, Goto
  <2>2. pc'[d] \in {"moved", "waiting", "disposed", "gone"}
        <=> pc[d] \in {"moved", "waiting", "disposed", "gone"}
    BY <1>1 DEF Create, LoadIndex, StorePacket, RingDoorbell, Complete, Report, Goto
  <2> QED BY <2>1, <2>2, MovedKept, MovedBounds
<1>3. CASE LoadIndex(d)
  <2>1. /\ pc[d] = "made" /\ index' = [index EXCEPT ![d] = write] /\ pc' = [pc EXCEPT ![d] = "loaded"]
        /\ write' = write /\ read' = read /\ doorbell' = doorbell
    BY <1>3 DEF LoadIndex, Goto, queue
  <2>2. write <= Cardinality(Moved) /\ Cardinality(Moved) <= NLaunch - 1
    BY <2>1, MovedBounds DEF Counted, Moved
  <2>3. \A e \in Launch : index'[e] = IF e = d THEN write ELSE index[e]
    BY <1>1, <2>1
  <2>4. \A e \in Launch : pc'[e] = IF e = d THEN "loaded" ELSE pc[e]
    BY <1>1, <2>1
  <2>5. \A e \in Launch : index'[e] <= NLaunch - 1
    BY <1>1, <1>2, <2>2, <2>3, NLaunchAssumption DEF Counted
  <2>6. \A e \in Launch : pc'[e] \in {"loaded", "stored"} => index'[e] <= Cardinality(Moved)
    BY <2>2, <2>3, <2>4 DEF Counted
  <2> QED BY <1>2, <2>1, <2>5, <2>6 DEF Counted
<1>4. CASE RingDoorbell(d)
  <2>1. /\ pc[d] = "moved" /\ doorbell' = index[d] /\ pc' = [pc EXCEPT ![d] = "waiting"]
        /\ write' = write /\ read' = read /\ index' = index
    BY <1>4 DEF RingDoorbell, Goto, Bell
  <2>2. doorbell' \in -1 .. NLaunch - 1
    BY <1>1, <2>1, NLaunchAssumption DEF Counted
  <2>3. \A e \in Launch : pc'[e] \in {"loaded", "stored"} => pc[e] \in {"loaded", "stored"}
    BY <1>1, <2>1
  <2> QED BY <1>2, <2>1, <2>2, <2>3 DEF Counted
<1>5. CASE (\E h \in Host : Create(h, d)) \/ StorePacket(d) \/ Complete(d) \/ Report(d)
  <2>1. write' = write /\ read' = read /\ index' = index /\ doorbell' = doorbell
    BY <1>5 DEF Create, StorePacket, Complete, Report, queue
  <2>2. \A e \in Launch : pc'[e] \in {"loaded", "stored"} => pc[e] \in {"loaded", "stored"}
    BY <1>1, <1>5 DEF Create, StorePacket, Complete, Report, Goto
  <2> QED BY <1>2, <2>1, <2>2 DEF Counted
<1> QED BY <1>3, <1>4, <1>5

\* One step of anyone.
LEMMA CountedStep == Delivery /\ Counted /\ [Next]_vars => Counted'
<1> SUFFICES ASSUME Delivery, Counted, [Next]_vars PROVE Counted'
  OBVIOUS
<1>1. CASE Exit
  BY <1>1, MovedKept DEF Exit, queue, Counted
<1>2. CASE Take
  <2>1. /\ read < write /\ read' = read + 1 /\ write' = write /\ doorbell' = doorbell
        /\ pc' = pc /\ index' = index
    BY <1>2 DEF Take
  <2>2. Moved' = Moved
    BY <2>1, MovedKept
  <2>3. Cardinality(Moved) \in Nat /\ Cardinality(Moved) <= NLaunch
    <3>1. Moved \in SUBSET Launch
      BY DEF Moved
    <3>2. IsFiniteSet(Launch) /\ Cardinality(Launch) = NLaunch
      BY FS_Interval, NLaunchAssumption DEF Launch
    <3> QED BY <3>1, <3>2, FS_Subset, MovedBounds
  <2>4. read' <= NLaunch
    BY <2>1, <2>3, NLaunchAssumption DEF Counted, Delivery, Shapes
  <2> QED BY <2>1, <2>2, <2>4 DEF Counted
<1>3. ASSUME NEW d \in Launch, HostStep(d) PROVE Counted'
  BY <1>3, CountedMove, CountedLaunch DEF HostStep
<1>4. ASSUME NEW d \in Launch, Finish(d) PROVE Counted'
  BY <1>4, MovedKept DEF Finish, queue, Counted
<1>5. ASSUME NEW d \in Launch, NEW h \in Host, Create(h, d) PROVE Counted'
  BY <1>5, CountedLaunch
<1>6. CASE UNCHANGED vars
  BY <1>6, MovedKept DEF vars, queue, Counted
<1> QED BY <1>1, <1>2, <1>3, <1>4, <1>5, <1>6 DEF Next

\* Registrations and signals stay small: a signal falls once, memory is
\* registered twice before it is given back.
LEMMA RestStep == Delivery /\ Rest /\ [Next]_vars => Rest'
<1> SUFFICES ASSUME Delivery, Rest, [Next]_vars PROVE Rest'
  OBVIOUS
<1> USE DEF Rest
<1>1. /\ pc \in [Launch -> Labels] /\ regs \in [Launch -> Int] /\ signal \in [Launch -> Int]
      /\ \A d \in Launch : Memory(d) /\ Packet(d)
  BY DEF Delivery, Shapes
<1>2. CASE Exit \/ Take
  BY <1>2 DEF Exit, Take, queue, dispatch
<1>3. ASSUME NEW d \in Launch, StorePacket(d) \/ StoreIndex(d) \/ RingDoorbell(d) \/ Report(d)
      PROVE  Rest'
  BY <1>3 DEF StorePacket, StoreIndex, RingDoorbell, Report, queue, dispatch
<1>4. ASSUME NEW d \in Launch, LoadIndex(d) PROVE Rest'
  <2>1. regs[d] \in {0, 1}
    BY <1>1, <1>4 DEF LoadIndex, Memory
  <2>2. regs' = [regs EXCEPT ![d] = Registered(d)] /\ Registered(d) \in 0 .. 2
    BY <1>4, <2>1 DEF LoadIndex, Registered
  <2>3. \A e \in Launch : regs'[e] \in 0 .. 2
    BY <1>1, <2>2
  <2>4. orderly' \in BOOLEAN
    BY <1>4 DEF LoadIndex
  <2> QED BY <1>4, <2>3, <2>4 DEF LoadIndex, dispatch
<1>5. ASSUME NEW d \in Launch, Complete(d) PROVE Rest'
  <2>1. regs[d] = 2 /\ regs' = [regs EXCEPT ![d] = @ - 2]
    BY <1>1, <1>5 DEF Complete, Memory
  <2>2. \A e \in Launch : regs'[e] \in 0 .. 2
    BY <1>1, <2>1
  <2> QED BY <1>5, <2>2 DEF Complete, dispatch
<1>6. ASSUME NEW d \in Launch, Finish(d) PROVE Rest'
  <2>1. signal[d] = 1 /\ signal' = [signal EXCEPT ![d] = @ - 1]
    BY <1>1, <1>6 DEF Finish, Packet
  <2>2. \A e \in Launch : signal'[e] \in {0, 1}
    BY <1>1, <2>1
  <2> QED BY <1>6, <2>2 DEF Finish, dispatch
<1>7. ASSUME NEW d \in Launch, NEW h \in Host, Create(h, d) PROVE Rest'
  <2>1. caller' \in [Launch -> Host]
    BY <1>7 DEF Create
  <2>2. PICK a \in BOOLEAN : async' = [async EXCEPT ![d] = a]
    BY <1>7 DEF Create
  <2>3. PICK moved \in BOOLEAN : regs' = [regs EXCEPT ![d] = IF moved THEN 0 ELSE 1]
    BY <1>7 DEF Create
  <2>4. \A e \in Launch : regs'[e] \in 0 .. 2
    BY <1>1, <2>3
  <2>5. signal' = signal /\ up' = up /\ orderly' = orderly
    BY <1>7 DEF Create
  <2> QED BY <2>1, <2>2, <2>4, <2>5
<1>8. CASE UNCHANGED vars
  BY <1>8 DEF vars, dispatch
<1> QED BY <1>2, <1>3, <1>4, <1>5, <1>6, <1>7, <1>8 DEF Next, HostStep

-----------------------------------------------------------------------------
(* The order of the ring, for a client that keeps to the rules.            *)

\* A multiple that is positive is at least the number itself.
LEMMA Multiple ==
  ASSUME NEW n \in Nat \ {0}, NEW q \in Int, q >= 1
  PROVE  n * q >= n /\ n * (-q) <= -n
<1>1. n * q = n + n * (q - 1) /\ n * (-q) = -(n * q)
  OBVIOUS
<1>2. n * (q - 1) \in Nat
  OBVIOUS
<1> QED BY <1>1, <1>2

\* Indices that are less than a queue's size apart have different slots.
LEMMA SlotsDiffer ==
  ASSUME NEW i \in Nat, NEW k \in Nat, i < k, k - i < QSize
  PROVE  SlotOf(i) # SlotOf(k)
<1> DEFINE p == i \div QSize
           q == k \div QSize
<1> SUFFICES ASSUME i % QSize = k % QSize PROVE FALSE
  BY DEF SlotOf
<1>1. /\ i = QSize * p + (i % QSize) /\ k = QSize * q + (k % QSize)
      /\ p \in Int /\ q \in Int /\ i % QSize \in Int
  BY QSizeAssumption
<1> HIDE DEF p, q
<1>2. k - i = QSize * q - QSize * p
  BY <1>1, QSizeAssumption
<1>3. QSize * q - QSize * p = QSize * (q - p)
  BY <1>1, QSizeAssumption
<1>4. CASE q - p >= 1
  BY <1>1, <1>2, <1>3, <1>4, Multiple, QSizeAssumption
<1>5. CASE q - p = 0
  <2>1. QSize * (q - p) = 0
    BY <1>5, QSizeAssumption
  <2> QED BY <1>2, <1>3, <2>1
<1>6. CASE p - q >= 1
  <2>1. QSize * (-(p - q)) <= -QSize
    BY <1>1, <1>6, Multiple, QSizeAssumption
  <2>2. -(p - q) = q - p
    BY <1>1
  <2> QED BY <1>2, <1>3, <2>1, <2>2, QSizeAssumption
<1> QED BY <1>1, <1>4, <1>5, <1>6

\* The queue is empty before the first launch.
LEMMA InOrderInit == Init => InOrder
BY QSizeAssumption DEF Init, InOrder, Writing

\* What InOrder says of an orderly client, without its premise.
LEMMA Between ==
  ASSUME Delivery, InOrder, orderly
  PROVE  /\ read <= write /\ write - read <= QSize /\ read \in Nat /\ write \in Nat
         /\ \A d, e \in Launch : Writing(d) /\ Writing(e) => d = e
         /\ \A d \in Launch :
                /\ pc[d] \in {"loaded", "stored"} => index[d] = write /\ write - read < QSize
                /\ pc[d] = "stored" => ring[SlotOf(write)] = d
         /\ \A k \in read .. write - 1 : ring[SlotOf(k)] \in Launch
BY DEF InOrder, Delivery, Shapes

\* The steps of one launch keep the order.
LEMMA InOrderLaunch ==
  ASSUME Delivery, InOrder, NEW d \in Launch, HostStep(d) \/ \E h \in Host : Create(h, d)
  PROVE  InOrder'
<1> SUFFICES ASSUME orderly'
             PROVE  /\ read' <= write' /\ write' - read' <= QSize
                    /\ \A a, e \in Launch : Writing(a)' /\ Writing(e)' => a = e
                    /\ \A e \in Launch :
                           /\ pc'[e] \in {"loaded", "stored"}
                              => index'[e] = write' /\ write' - read' < QSize
                           /\ pc'[e] = "stored" => ring'[SlotOf(write')] = e
                    /\ \A k \in read' .. write' - 1 : ring'[SlotOf(k)] \in Launch
  BY DEF InOrder, SlotOf
<1>1. orderly
  BY DEF HostStep, Create, LoadIndex, StorePacket, StoreIndex, RingDoorbell, Complete, Report
<1>2. /\ read <= write /\ write - read <= QSize /\ read \in Nat /\ write \in Nat
      /\ \A a, e \in Launch : Writing(a) /\ Writing(e) => a = e
      /\ \A e \in Launch :
             /\ pc[e] \in {"loaded", "stored"} => index[e] = write /\ write - read < QSize
             /\ pc[e] = "stored" => ring[SlotOf(write)] = e
      /\ \A k \in read .. write - 1 : ring[SlotOf(k)] \in Launch
  BY <1>1, Between
<1>3. /\ pc \in [Launch -> Labels] /\ index \in [Launch -> Nat]
      /\ ring \in [Slots -> Launch \cup {Empty}]
  BY DEF Delivery, Shapes
<1>4. CASE LoadIndex(d)
  <2>1. /\ pc[d] = "made" /\ pc' = [pc EXCEPT ![d] = "loaded"]
        /\ index' = [index EXCEPT ![d] = write] /\ ring' = ring /\ write' = write /\ read' = read
        /\ (\A e \in Launch : ~Writing(e)) /\ write - read < QSize
    BY <1>4 DEF LoadIndex, Goto, queue
  <2>2. \A e \in Launch : /\ pc'[e] = IF e = d THEN "loaded" ELSE pc[e]
                          /\ index'[e] = IF e = d THEN write ELSE index[e]
    BY <1>3, <2>1
  <2>3. \A e \in Launch : Writing(e)' => e = d
    BY <2>1, <2>2 DEF Writing
  <2>4. \A e \in Launch : pc'[e] # "stored"
    BY <2>1, <2>2 DEF Writing
  <2>5. \A e \in Launch : pc'[e] \in {"loaded", "stored"} => e = d
    BY <2>3 DEF Writing
  <2> QED BY <1>2, <2>1, <2>2, <2>3, <2>4, <2>5
<1>5. CASE StorePacket(d)
  <2>1. /\ pc[d] = "loaded" /\ pc' = [pc EXCEPT ![d] = "stored"] /\ index[d] = write
        /\ write - read < QSize /\ ring' = [ring EXCEPT ![SlotOf(write)] = d]
        /\ index' = index /\ write' = write /\ read' = read
    BY <1>2, <1>5 DEF StorePacket, Goto
  <2>2. \A e \in Launch : pc'[e] = IF e = d THEN "stored" ELSE pc[e]
    BY <1>3, <2>1
  <2>3. \A e \in Launch : Writing(e)' => e = d
    BY <1>2, <2>1, <2>2 DEF Writing
  <2>4. SlotOf(write) \in Slots
    BY <1>2, IndexIsSlot DEF SlotOf
  <2>5. ring'[SlotOf(write)] = d
    BY <1>3, <2>1, <2>4
  <2>6. ASSUME NEW k \in read .. write - 1 PROVE ring'[SlotOf(k)] \in Launch
    <3>1. k \in Nat /\ k < write /\ write - k < QSize
      BY <1>2, <2>1, QSizeAssumption
    <3>2. SlotOf(k) # SlotOf(write)
      BY <1>2, <3>1, SlotsDiffer
    <3>3. SlotOf(k) \in Slots
      BY <3>1, IndexIsSlot DEF SlotOf
    <3> QED BY <1>2, <1>3, <2>1, <3>2, <3>3
  <2>7. \A e \in Launch : pc'[e] \in {"loaded", "stored"} => e = d
    BY <2>3 DEF Writing
  <2> QED BY <1>2, <2>1, <2>3, <2>5, <2>6, <2>7
<1>6. CASE StoreIndex(d)
  <2>1. /\ pc[d] = "stored" /\ pc' = [pc EXCEPT ![d] = "moved"] /\ index[d] = write
        /\ write - read < QSize /\ write' = write + 1 /\ ring[SlotOf(write)] = d
        /\ index' = index /\ ring' = ring /\ read' = read
    BY <1>2, <1>6 DEF StoreIndex, Goto
  <2>2. \A e \in Launch : pc'[e] = IF e = d THEN "moved" ELSE pc[e]
    BY <1>3, <2>1
  <2>3. \A e \in Launch : Writing(e)' => e = d
    BY <1>2, <2>1, <2>2 DEF Writing
  <2>4. \A e \in Launch : pc'[e] \notin {"loaded", "stored"}
    BY <2>2, <2>3 DEF Writing
  <2>5. ASSUME NEW k \in read .. write' - 1 PROVE ring'[SlotOf(k)] \in Launch
    <3>1. k \in read .. write - 1 \/ k = write
      BY <1>2, <2>1
    <3> QED BY <1>2, <2>1, <3>1
  <2> QED BY <1>2, <2>1, <2>3, <2>4, <2>5, QSizeAssumption
<1>7. CASE RingDoorbell(d) \/ Complete(d) \/ Report(d) \/ \E h \in Host : Create(h, d)
  <2>1. write' = write /\ read' = read /\ index' = index /\ ring' = ring
    BY <1>7 DEF RingDoorbell, Complete, Report, Create, queue
  <2>2. \A e \in Launch : e # d => pc'[e] = pc[e]
    BY <1>3, <1>7 DEF RingDoorbell, Complete, Report, Create, Goto
  <2>3. pc'[d] \in {"made", "waiting", "disposed", "gone"}
    BY <1>3, <1>7 DEF RingDoorbell, Complete, Report, Create, Goto
  <2>4. \A e \in Launch : /\ Writing(e)' => Writing(e)
                          /\ pc'[e] \in {"loaded", "stored"} => pc'[e] = pc[e]
    BY <2>2, <2>3 DEF Writing
  <2> QED BY <1>2, <2>1, <2>4
<1> QED BY <1>4, <1>5, <1>6, <1>7 DEF HostStep

\* The processor takes the first packet; the others keep their slots.
LEMMA InOrderTake ==
  ASSUME Delivery, InOrder, Take
  PROVE  InOrder'
<1> SUFFICES ASSUME orderly'
             PROVE  /\ read' <= write' /\ write' - read' <= QSize
                    /\ \A a, e \in Launch : Writing(a)' /\ Writing(e)' => a = e
                    /\ \A e \in Launch :
                           /\ pc'[e] \in {"loaded", "stored"}
                              => index'[e] = write' /\ write' - read' < QSize
                           /\ pc'[e] = "stored" => ring'[SlotOf(write')] = e
                    /\ \A k \in read' .. write' - 1 : ring'[SlotOf(k)] \in Launch
  BY DEF InOrder, SlotOf
<1>1. /\ orderly /\ read < write /\ read' = read + 1 /\ write' = write /\ pc' = pc /\ index' = index
      /\ ring' = [ring EXCEPT ![SlotOf(read)] = Empty]
      /\ ring \in [Slots -> Launch \cup {Empty}]
  BY DEF Take, SlotOf, Delivery, Shapes
<1>2. /\ read <= write /\ write - read <= QSize /\ read \in Nat /\ write \in Nat
      /\ \A a, e \in Launch : Writing(a) /\ Writing(e) => a = e
      /\ \A e \in Launch :
             /\ pc[e] \in {"loaded", "stored"} => index[e] = write /\ write - read < QSize
             /\ pc[e] = "stored" => ring[SlotOf(write)] = e
      /\ \A k \in read .. write - 1 : ring[SlotOf(k)] \in Launch
  BY <1>1, Between
<1>3. ASSUME NEW k \in Nat, read < k, k - read < QSize
      PROVE  ring'[SlotOf(k)] = ring[SlotOf(k)]
  <2>1. SlotOf(k) # SlotOf(read)
    BY <1>2, <1>3, SlotsDiffer
  <2>2. SlotOf(k) \in Slots
    BY IndexIsSlot DEF SlotOf
  <2> QED BY <1>1, <2>1, <2>2
<1>4. ASSUME NEW e \in Launch, pc'[e] = "stored" PROVE ring'[SlotOf(write')] = e
  BY <1>1, <1>2, <1>3, <1>4
<1>5. ASSUME NEW k \in read' .. write' - 1 PROVE ring'[SlotOf(k)] \in Launch
  <2>1. k \in read .. write - 1 /\ k \in Nat /\ read < k /\ k - read < QSize
    BY <1>1, <1>2, QSizeAssumption
  <2> QED BY <1>2, <1>3, <2>1
<1>6. /\ read' <= write' /\ write' - read' <= QSize
      /\ \A e \in Launch : pc'[e] \in {"loaded", "stored"}
                           => index'[e] = write' /\ write' - read' < QSize
  BY <1>1, <1>2, QSizeAssumption
<1>7. \A a, e \in Launch : Writing(a)' /\ Writing(e)' => a = e
  BY <1>1, <1>2 DEF Writing
<1> QED BY <1>4, <1>5, <1>6, <1>7

\* One step of anyone.
LEMMA InOrderStep == Delivery /\ InOrder /\ [Next]_vars => InOrder'
<1> SUFFICES ASSUME Delivery, InOrder, [Next]_vars PROVE InOrder'
  OBVIOUS
<1>1. CASE Exit
  <2>1. orderly' => orderly
    BY <1>1 DEF Exit
  <2>2. UNCHANGED <<pc, index, ring, write, read>>
    BY <1>1 DEF Exit, queue
  <2> QED BY <2>1, <2>2 DEF InOrder, Writing, SlotOf
<1>2. CASE Take
  BY <1>2, InOrderTake
<1>3. ASSUME NEW d \in Launch, HostStep(d) PROVE InOrder'
  BY <1>3, InOrderLaunch
<1>4. ASSUME NEW d \in Launch, Finish(d) PROVE InOrder'
  BY <1>4 DEF Finish, queue, InOrder, Writing, SlotOf
<1>5. ASSUME NEW d \in Launch, NEW h \in Host, Create(h, d) PROVE InOrder'
  BY <1>5, InOrderLaunch
<1>6. CASE UNCHANGED vars
  BY <1>6 DEF vars, queue, InOrder, Writing, SlotOf
<1> QED BY <1>1, <1>2, <1>3, <1>4, <1>5, <1>6 DEF Next

-----------------------------------------------------------------------------
(* The ring, seen through its indices, as a queue.                         *)

\* Between the indices of an orderly client there is a sequence of launches.
LEMMA RingIsSequence ==
  ASSUME Delivery, InOrder, orderly
  PROVE  /\ InRing \in Seq(Launch) /\ Len(InRing) = write - read
         /\ \A i \in 1 .. write - read : InRing[i] = ring[SlotOf(read + i - 1)]
<1>1. /\ read \in Nat /\ write \in Nat /\ read <= write
      /\ \A k \in read .. write - 1 : ring[SlotOf(k)] \in Launch
  BY Between
<1> DEFINE n == write - read
<1>2. n \in Nat
  BY <1>1
<1>3. ASSUME NEW i \in 1 .. n PROVE ring[SlotOf(read + i - 1)] \in Launch
  <2>1. read + i - 1 \in read .. write - 1
    BY <1>1
  <2> QED BY <1>1, <2>1
<1>4. InRing = [i \in 1 .. n |-> ring[SlotOf(read + i - 1)]]
  BY DEF InRing, SlotOf
<1> HIDE DEF n
<1>5. InRing \in [1 .. n -> Launch]
  BY <1>3, <1>4
<1>6. InRing \in Seq(Launch)
  BY <1>2, <1>5, SeqDef
<1>7. Len(InRing) \in Nat /\ 1 .. Len(InRing) = 1 .. n
  BY <1>5, <1>6, LenProperties
<1>8. Len(InRing) = n
  BY <1>2, <1>7
<1> QED BY <1>4, <1>6, <1>8 DEF n

\* A step that moves neither index and writes no slot between them is not
\* seen in the queue.
LEMMA RingKept ==
  ASSUME read' = read, write' = write,
         \A i \in 1 .. write - read : ring'[SlotOf(read + i - 1)] = ring[SlotOf(read + i - 1)]
  PROVE  InRing' = InRing
<1>1. InRing' = [i \in 1 .. write' - read' |-> ring'[SlotOf(read' + i - 1)]]
  BY DEF InRing, SlotOf
<1>2. InRing = [i \in 1 .. write - read |-> ring[SlotOf(read + i - 1)]]
  BY DEF InRing, SlotOf
<1> QED BY <1>1, <1>2

\* Storing the packet writes the slot behind the queue.
LEMMA StoreUnseen ==
  ASSUME Delivery, InOrder, orderly, NEW d \in Launch, StorePacket(d)
  PROVE  UNCHANGED Queue!vars
<1>1. /\ pc[d] = "loaded" /\ pc' = [pc EXCEPT ![d] = "stored"]
      /\ ring' = [ring EXCEPT ![SlotOf(index[d])] = d] /\ write' = write /\ read' = read
      /\ running' = running /\ signal' = signal
      /\ pc \in [Launch -> Labels] /\ ring \in [Slots -> Launch \cup {Empty}]
  BY DEF StorePacket, Goto, Delivery, Shapes
<1>2. /\ read \in Nat /\ write \in Nat /\ index[d] = write /\ write - read < QSize
  BY <1>1, Between
<1>3. ASSUME NEW i \in 1 .. write - read
      PROVE  ring'[SlotOf(read + i - 1)] = ring[SlotOf(read + i - 1)]
  <2>1. read + i - 1 \in Nat /\ read + i - 1 < write /\ write - (read + i - 1) < QSize
    BY <1>2, QSizeAssumption
  <2>2. SlotOf(read + i - 1) # SlotOf(write)
    BY <1>2, <2>1, SlotsDiffer
  <2>3. SlotOf(read + i - 1) \in Slots
    BY <2>1, IndexIsSlot DEF SlotOf
  <2> QED BY <1>1, <1>2, <2>2, <2>3
<1>4. InRing' = InRing
  BY <1>1, <1>3, RingKept
<1>5. Ran' = Ran /\ Told' = Told
  BY <1>1 DEF Ran, Told
<1> QED BY <1>1, <1>4, <1>5 DEF Queue!vars

\* Moving the index submits the launch.
LEMMA MoveSubmits ==
  ASSUME Delivery, InOrder, orderly, InOrder', Delivery', orderly',
         NEW d \in Launch, StoreIndex(d)
  PROVE  Queue!Submit(d)
<1>1. /\ pc[d] = "stored" /\ pc' = [pc EXCEPT ![d] = "moved"] /\ write' = index[d] + 1
      /\ ring' = ring /\ read' = read /\ running' = running /\ signal' = signal
      /\ pc \in [Launch -> Labels] /\ ring \in [Slots -> Launch \cup {Empty}]
  BY DEF StoreIndex, Goto, Delivery, Shapes
<1>2. /\ read \in Nat /\ write \in Nat /\ read <= write /\ index[d] = write /\ write - read < QSize
      /\ ring[SlotOf(write)] = d
  BY <1>1, Between
<1>3. /\ InRing \in Seq(Launch) /\ Len(InRing) = write - read
      /\ \A i \in 1 .. write - read : InRing[i] = ring[SlotOf(read + i - 1)]
  BY RingIsSequence
<1>4. /\ InRing' \in Seq(Launch) /\ Len(InRing') = write - read + 1
      /\ \A i \in 1 .. write - read + 1 : InRing'[i] = ring[SlotOf(read + i - 1)]
  <2>1. /\ InRing' \in Seq(Launch) /\ Len(InRing') = write' - read'
        /\ \A i \in 1 .. write' - read' : InRing'[i] = ring'[SlotOf(read' + i - 1)]
    <3>1. Delivery' /\ InOrder' /\ orderly'
          => (/\ InRing \in Seq(Launch) /\ Len(InRing) = write - read
              /\ \A i \in 1 .. write - read : InRing[i] = ring[SlotOf(read + i - 1)])'
      BY RingIsSequence, PTL
    <3> QED BY <3>1 DEF SlotOf
  <2>2. write' - read' = write - read + 1
    BY <1>1, <1>2
  <2> QED BY <1>1, <2>1, <2>2
<1>5. InRing' = Append(InRing, d)
  <2>1. /\ Append(InRing, d) \in Seq(Launch) /\ Len(Append(InRing, d)) = write - read + 1
        /\ \A i \in 1 .. write - read : Append(InRing, d)[i] = InRing[i]
        /\ Append(InRing, d)[write - read + 1] = d
    BY <1>3, AppendProperties
  <2>2. ASSUME NEW i \in 1 .. write - read + 1 PROVE InRing'[i] = Append(InRing, d)[i]
    <3>1. CASE i \in 1 .. write - read
      BY <1>3, <1>4, <2>1, <3>1
    <3>2. CASE i = write - read + 1
      <4>1. read + i - 1 = write
        BY <1>2, <3>2
      <4> QED BY <1>2, <1>4, <2>1, <3>2, <4>1
    <3>3. i \in 1 .. write - read \/ i = write - read + 1
      BY <1>2
    <3> QED BY <3>1, <3>2, <3>3
  <2> QED BY <1>4, <2>1, <2>2, SeqEqual
<1>6. Packet(d) /\ SlotOf(write) \in Slots
  BY <1>2, IndexIsSlot DEF Delivery, SlotOf
<1>7. Ringed(d) /\ signal[d] = 1 /\ d \notin running
  BY <1>2, <1>6 DEF Packet, Ringed
<1>8. ASSUME NEW i \in 1 .. write - read PROVE InRing[i] # d
  <2>1. read + i - 1 \in Nat /\ read + i - 1 < write /\ write - (read + i - 1) < QSize
    BY <1>2, QSizeAssumption
  <2>2. SlotOf(read + i - 1) # SlotOf(write) /\ SlotOf(read + i - 1) \in Slots
    BY <1>2, <2>1, SlotsDiffer, IndexIsSlot DEF SlotOf
  <2> QED BY <1>2, <1>3, <1>6, <2>2 DEF Packet
<1>9. d \notin Queue!Known
  <2>1. DOMAIN InRing = 1 .. write - read
    BY <1>3, LenProperties
  <2>2. d \notin Ran
    BY <1>7 DEF Ran
  <2> QED BY <1>7, <1>8, <2>1, <2>2 DEF Queue!Known
<1>10. Ran' = Ran /\ Told' = Told
  <2>1. \A e \in Launch : pc'[e] = "gone" <=> pc[e] = "gone"
    BY <1>1
  <2> QED BY <1>1, <2>1 DEF Ran, Told
<1> QED BY <1>1, <1>5, <1>9, <1>10 DEF Queue!Submit

\* The processor takes the head of the queue.
LEMMA TakeStarts ==
  ASSUME Delivery, InOrder, orderly, InOrder', Delivery', orderly', Take
  PROVE  Queue!Start
<1>1. /\ running = {} /\ read < write /\ running' = {ring[SlotOf(read)]}
      /\ ring' = [ring EXCEPT ![SlotOf(read)] = Empty] /\ read' = read + 1 /\ write' = write
      /\ pc' = pc /\ signal' = signal /\ ring \in [Slots -> Launch \cup {Empty}]
  BY DEF Take, SlotOf, Delivery, Shapes
<1>2. /\ read \in Nat /\ write \in Nat /\ write - read <= QSize
  BY Between
<1>3. /\ InRing \in Seq(Launch) /\ Len(InRing) = write - read
      /\ \A i \in 1 .. write - read : InRing[i] = ring[SlotOf(read + i - 1)]
  BY RingIsSequence
<1>4. /\ InRing' \in Seq(Launch) /\ Len(InRing') = write - read - 1
      /\ \A i \in 1 .. write - read - 1 : InRing'[i] = ring'[SlotOf(read + 1 + i - 1)]
  <2>1. /\ InRing' \in Seq(Launch) /\ Len(InRing') = write' - read'
        /\ \A i \in 1 .. write' - read' : InRing'[i] = ring'[SlotOf(read' + i - 1)]
    <3>1. Delivery' /\ InOrder' /\ orderly'
          => (/\ InRing \in Seq(Launch) /\ Len(InRing) = write - read
              /\ \A i \in 1 .. write - read : InRing[i] = ring[SlotOf(read + i - 1)])'
      BY RingIsSequence, PTL
    <3> QED BY <3>1 DEF SlotOf
  <2>2. write' - read' = write - read - 1
    BY <1>1, <1>2
  <2> QED BY <1>1, <2>1, <2>2
<1>5. InRing # <<>>
  BY <1>1, <1>2, <1>3, EmptySeq
<1>6. Head(InRing) = ring[SlotOf(read)]
  <2>1. Head(InRing) = InRing[1]
    BY <1>3, <1>5
  <2>2. read + 1 - 1 = read /\ 1 \in 1 .. write - read
    BY <1>1, <1>2
  <2> QED BY <1>3, <2>1, <2>2
<1>7. InRing' = Tail(InRing)
  <2>1. /\ Tail(InRing) \in Seq(Launch) /\ Len(Tail(InRing)) = write - read - 1
        /\ \A i \in 1 .. write - read - 1 : Tail(InRing)[i] = InRing[i + 1]
    BY <1>3, <1>5, HeadTailProperties
  <2>2. ASSUME NEW i \in 1 .. write - read - 1 PROVE InRing'[i] = Tail(InRing)[i]
    <3>1. /\ read + 1 + i - 1 = read + i /\ read + (i + 1) - 1 = read + i
          /\ read + i \in Nat /\ read < read + i /\ (read + i) - read < QSize
          /\ i + 1 \in 1 .. write - read
      BY <1>1, <1>2, QSizeAssumption
    <3>2. SlotOf(read + i) # SlotOf(read) /\ SlotOf(read + i) \in Slots
      BY <1>2, <3>1, SlotsDiffer, IndexIsSlot DEF SlotOf
    <3>3. ring'[SlotOf(read + i)] = ring[SlotOf(read + i)]
      BY <1>1, <3>2
    <3> QED BY <1>3, <1>4, <2>1, <3>1, <3>3
  <2> QED BY <1>4, <2>1, <2>2, SeqEqual
<1>8. Ran' = Ran /\ Told' = Told
  BY <1>1 DEF Ran, Told
<1> QED BY <1>1, <1>5, <1>6, <1>7, <1>8 DEF Queue!Start

\* The end of a kernel moves it to those that have run.
LEMMA EndIsFinish ==
  ASSUME Delivery, NEW d \in Launch, Finish(d)
  PROVE  Queue!Finish(d)
<1>1. /\ d \in running /\ running' = running \ {d} /\ signal' = [signal EXCEPT ![d] = @ - 1]
      /\ read' = read /\ write' = write /\ ring' = ring /\ pc' = pc
      /\ signal \in [Launch -> Int] /\ signal[d] = 1
  BY DEF Finish, queue, Delivery, Shapes, Packet
<1>2. Ran' = Ran \cup {d}
  <2>1. \A e \in Launch : signal'[e] = IF e = d THEN 0 ELSE signal[e]
    BY <1>1
  <2> QED BY <2>1 DEF Ran
<1>3. InRing' = InRing
  BY <1>1, RingKept
<1>4. Told' = Told
  BY <1>1 DEF Told
<1> QED BY <1>1, <1>2, <1>3, <1>4 DEF Queue!Finish

\* A launch is reported after its kernel has run.
LEMMA ReportIsReport ==
  ASSUME Delivery, NEW d \in Launch, Report(d)
  PROVE  Queue!Report(d)
<1>1. /\ pc[d] = "disposed" /\ pc' = [pc EXCEPT ![d] = "gone"] /\ signal' = signal
      /\ read' = read /\ write' = write /\ ring' = ring /\ running' = running
      /\ pc \in [Launch -> Labels] /\ signal[d] < 1
  BY DEF Report, Goto, queue, Delivery, Shapes, Packet
<1>2. Told' = Told \cup {d} /\ d \notin Told
  <2>1. \A e \in Launch : pc'[e] = IF e = d THEN "gone" ELSE pc[e]
    BY <1>1
  <2> QED BY <1>1, <2>1 DEF Told
<1>3. InRing' = InRing
  BY <1>1, RingKept
<1>4. Ran' = Ran /\ d \in Ran
  BY <1>1 DEF Ran
<1> QED BY <1>1, <1>2, <1>3, <1>4 DEF Queue!Report

\* Steps that are not seen in the queue.
LEMMA Unseen ==
  ASSUME Delivery, NEW d \in Launch,
         \/ \E h \in Host : Create(h, d)
         \/ LoadIndex(d) \/ RingDoorbell(d) \/ Complete(d)
  PROVE  UNCHANGED Queue!vars
<1>1. /\ read' = read /\ write' = write /\ ring' = ring /\ running' = running /\ signal' = signal
      /\ pc \in [Launch -> Labels]
  BY DEF Create, LoadIndex, RingDoorbell, Complete, queue, Delivery, Shapes
<1>2. \A e \in Launch : pc'[e] = "gone" <=> pc[e] = "gone"
  BY <1>1 DEF Create, LoadIndex, RingDoorbell, Complete, Goto
<1>3. InRing' = InRing
  BY <1>1, RingKept
<1> QED BY <1>1, <1>2, <1>3 DEF Queue!vars, Ran, Told

\* One step of anyone.
LEMMA QueueStep ==
  ASSUME Delivery, InOrder, Delivery', InOrder', [Next]_vars, orderly'
  PROVE  Queue!Next \/ UNCHANGED Queue!vars
<1>1. orderly
  BY DEF Next, HostStep, vars, Exit, Take, Finish, Create, LoadIndex, StorePacket, StoreIndex,
         RingDoorbell, Complete, Report
<1>2. CASE Exit \/ UNCHANGED vars
  <2>1. UNCHANGED <<pc, signal, ring, write, read, running>>
    BY <1>2 DEF Exit, vars, queue
  <2> QED BY <2>1 DEF Queue!vars, InRing, Ran, Told
<1>3. CASE Take
  BY <1>1, <1>3, TakeStarts DEF Queue!Next
<1>4. ASSUME NEW d \in Launch, HostStep(d) PROVE Queue!Next \/ UNCHANGED Queue!vars
  <2>1. CASE StorePacket(d)
    BY <1>1, <2>1, StoreUnseen
  <2>2. CASE StoreIndex(d)
    BY <1>1, <2>2, MoveSubmits DEF Queue!Next
  <2>3. CASE Report(d)
    BY <2>3, ReportIsReport DEF Queue!Next
  <2>4. CASE LoadIndex(d) \/ RingDoorbell(d) \/ Complete(d)
    BY <2>4, Unseen
  <2> QED BY <1>4, <2>1, <2>2, <2>3, <2>4 DEF HostStep
<1>5. ASSUME NEW d \in Launch, Finish(d) PROVE Queue!Next
  BY <1>5, EndIsFinish DEF Queue!Next
<1>6. ASSUME NEW d \in Launch, NEW h \in Host, Create(h, d) PROVE UNCHANGED Queue!vars
  BY <1>6, Unseen
<1> QED BY <1>2, <1>3, <1>4, <1>5, <1>6 DEF Next

\* Nothing has been submitted before the first launch.
LEMMA QueueInit == Init => Queue!Init
<1> SUFFICES ASSUME Init PROVE Queue!Init
  OBVIOUS
<1>1. write = 0 /\ read = 0 /\ running = {} /\ Ran = {} /\ Told = {}
  BY DEF Init, Ran, Told
<1>2. 1 .. write - read = {}
  BY <1>1
<1>3. InRing = <<>>
  BY <1>2 DEF InRing
<1> QED BY <1>1, <1>3 DEF Queue!Init

-----------------------------------------------------------------------------
\* Types, with the bounds of all indices: a write index that others have
\* overtaken, or that is set back by a race, never counts more launches than
\* there are, and an orderly client's read index stays behind it.
THEOREM TypesAlwaysOK == Spec => []TypeOK
<1>1. Delivery /\ Counted /\ Rest /\ InOrder => TypeOK
  <2> SUFFICES ASSUME Delivery, Counted, Rest, InOrder PROVE TypeOK
    OBVIOUS
  <2>1. regs \in [Launch -> 0 .. 2] /\ signal \in [Launch -> {0, 1}]
        /\ index \in [Launch -> 0 .. NLaunch - 1]
    BY NLaunchAssumption DEF Delivery, Shapes, Counted, Rest
  <2>2. write \in 0 .. NLaunch /\ read \in 0 .. NLaunch
    <3>1. Cardinality(Moved) \in Nat /\ Cardinality(Moved) <= NLaunch
      <4>1. Moved \in SUBSET Launch
        BY DEF Moved
      <4>2. IsFiniteSet(Launch) /\ Cardinality(Launch) = NLaunch
        BY FS_Interval, NLaunchAssumption DEF Launch
      <4> QED BY <4>1, <4>2, FS_Subset, MovedBounds
    <3> QED BY <3>1, NLaunchAssumption DEF Delivery, Shapes, Counted
  <2> QED BY <2>1, <2>2 DEF TypeOK, Delivery, Shapes, Labels, Counted, Rest, InOrder
<1>2. Init => Delivery /\ Counted /\ Rest /\ InOrder
  BY DeliveryInit, CountedInit, InOrderInit
<1>3. Delivery /\ Counted /\ Rest /\ InOrder /\ [Next]_vars
      => (Delivery /\ Counted /\ Rest /\ InOrder)'
  BY DeliveryStep, CountedStep, RestStep, InOrderStep
<1> QED BY <1>1, <1>2, <1>3, PTL DEF Spec

\* The ring is a queue: the launches of a client that launches from one thread
\* at a time and leaves room in the ring run in the order in which they moved
\* the index, one at a time and once each, and are reported after they ran.
THEOREM RingIsAQueue == Spec => KernelsInOrder
<1>1. Delivery /\ InOrder /\ Delivery' /\ InOrder' /\ [Next]_vars
      => [orderly' => Queue!Next]_(Queue!vars)
  BY QueueStep
<1>2. Spec => [](Delivery /\ InOrder)
  <2>1. Init => Delivery /\ InOrder
    BY DeliveryInit, InOrderInit
  <2>2. Delivery /\ InOrder /\ [Next]_vars => (Delivery /\ InOrder)'
    BY DeliveryStep, InOrderStep
  <2> QED BY <2>1, <2>2, PTL DEF Spec
<1> QED BY <1>1, <1>2, QueueInit, PTL DEF Spec, KernelsInOrder
=============================================================================
