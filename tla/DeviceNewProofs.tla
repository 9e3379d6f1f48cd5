--------------------------- MODULE DeviceNewProofs ---------------------------
(***************************************************************************)
(* DeviceNew for any kernel, heap and contents of fresh blocks.  Three     *)
(* invariants, each resting on the one before: who waits for the request   *)
(* in a slot; what the signals count; and, for kernels in which no item    *)
(* deletes before its tile's counter is stored, which block a group of     *)
(* items shares and how many of them still have a part of it.              *)
(***************************************************************************)
EXTENDS DeviceNew, FiniteSetTheorems, TLAPS

\* The items that share a block, by the slot of their request: a tile with
\* Xmalloc, else one item.
Group == IF Shared THEN Tile ELSE Item
Owner(g) == IF Shared THEN Leader(g) ELSE g
Mem(g) == {p \in Item : NewSlot(p) = g}

-----------------------------------------------------------------------------
(* Items, tiles and slots.                                                 *)

\* A product grows with a factor.
LEMMA FactorGrows ==
  ASSUME NEW n \in Nat, NEW x \in Int, NEW y \in Int, x <= y
  PROVE  n * x <= n * y /\ x * n <= y * n
<1>1. PICK k \in Nat : y = x + k
  <2>1. y - x \in Nat /\ y = x + (y - x)
    OBVIOUS
  <2> QED BY <2>1
<1>2. n * y = n * x + n * k /\ n * k \in Nat /\ n * x \in Int
  BY <1>1
<1>3. n * x = x * n /\ n * y = y * n
  OBVIOUS
<1> QED BY <1>2, <1>3

\* Tile t of tiles of n items is that of the items (t - 1) * n + 1 to t * n.
LEMMA TileOfItem ==
  ASSUME NEW n \in Nat \ {0}, NEW p \in Nat \ {0}, NEW t \in Nat \ {0}
  PROVE  (p - 1) \div n + 1 = t <=> (t - 1) * n + 1 <= p /\ p <= t * n
<1> DEFINE a == p - 1
           q == a \div n
<1>1. a \in Nat
  OBVIOUS
<1>2. a = n * q + (a % n) /\ a % n \in 0 .. n - 1 /\ q \in Int
  <2> HIDE DEF a
  <2> QED BY <1>1
<1>3. a - n * q \in 0 .. n - 1
  BY <1>1, <1>2
<1> HIDE DEF q
<1>4. ASSUME NEW x \in Int, NEW y \in Int, x <= y PROVE n * x <= n * y
  BY <1>4, FactorGrows
<1>5. CASE q + 1 = t
  <2>1. n * q = (t - 1) * n /\ t * n = (t - 1) * n + n
    BY <1>2, <1>5
  <2> QED BY <1>2, <1>3, <1>5, <2>1
<1>6. CASE q + 1 < t
  <2>1. n * (q + 1) <= n * (t - 1) /\ n * (q + 1) = n * q + n
    BY <1>2, <1>4, <1>6
  <2>2. n * (t - 1) = (t - 1) * n /\ n * q \in Int
    BY <1>2
  <2> QED BY <1>2, <1>3, <1>6, <2>1, <2>2
<1>7. CASE t < q + 1
  <2>1. n * t <= n * q
    BY <1>2, <1>4, <1>7
  <2>2. n * t = t * n /\ n * q \in Int
    BY <1>2
  <2> QED BY <1>2, <1>3, <1>7, <2>1, <2>2
<1> QED BY <1>2, <1>5, <1>6, <1>7 DEF q

\* The sizes of a kernel are positive.
LEMMA KernelFacts ==
  ASSUME kernel \in Kernel
  PROVE  /\ kernel.tiles \in Nat \ {0} /\ kernel.size \in Nat \ {0}
         /\ kernel.tiles * kernel.size \in Nat \ {0}
         /\ Item \subseteq Nat \ {0} /\ Tile \subseteq Nat \ {0}
<1>1. kernel.tiles \in Nat \ {0} /\ kernel.size \in Nat \ {0}
  BY KernelAssumption
<1>2. kernel.tiles * kernel.size \in Nat \ {0}
  <2>1. \A m, n \in Nat \ {0} : m * n \in Nat \ {0}
    OBVIOUS
  <2> QED BY <1>1, <2>1
<1> QED BY <1>1, <1>2 DEF Item, Tile

\* With Xmalloc the group of an item is its tile, and the owner the leader.
LEMMA SharedGroups ==
  ASSUME kernel \in Kernel, Shared
  PROVE  /\ \A p \in Item : TileOf(p) \in Tile
         /\ \A t \in Tile : Leader(t) \in Item /\ TileOf(Leader(t)) = t
         /\ \A t \in Tile : Members(t) = Leader(t) .. t * kernel.size
         /\ \A t \in Tile : Cardinality(Members(t)) = kernel.size
<1> DEFINE n == kernel.size
           m == kernel.tiles
<1>1. n \in Nat \ {0} /\ m \in Nat \ {0} /\ Item = 1 .. m * n /\ Tile = 1 .. m
  BY KernelFacts DEF Item, Tile
<1> HIDE DEF n, m
<1>2. \A p : TileOf(p) = (p - 1) \div n + 1
  BY DEF TileOf, n
<1>3. \A t : Leader(t) = (t - 1) * n + 1
  BY DEF Leader, n
<1>7. ASSUME NEW p \in Nat \ {0}, NEW t \in Nat \ {0}
      PROVE  TileOf(p) = t <=> (t - 1) * n + 1 <= p /\ p <= t * n
  <2>1. (p - 1) \div n + 1 = t <=> (t - 1) * n + 1 <= p /\ p <= t * n
    BY <1>1, TileOfItem
  <2> QED BY <1>2, <2>1
<1>4. ASSUME NEW x \in Nat, NEW y \in Nat, x <= y PROVE x * n <= y * n
  BY <1>1, <1>4, FactorGrows
<1>5. ASSUME NEW p \in Item PROVE TileOf(p) \in Tile
  <2>1. PICK t \in Nat \ {0} : t = TileOf(p)
    <3>1. p - 1 \in Nat
      BY <1>1
    <3>2. \A a \in Nat : a \div n \in Nat
      <4> SUFFICES ASSUME NEW a \in Nat PROVE a \div n \in Nat
        OBVIOUS
      <4>1. a = n * (a \div n) + (a % n) /\ a % n \in 0 .. n - 1 /\ a \div n \in Int
        BY <1>1
      <4>2. ASSUME NEW q \in Int, q <= 0 - 1 PROVE n * q <= 0 - n
        <5>1. (0 - q) * n >= 1 * n
          BY <1>4, <4>2
        <5> QED BY <1>1, <5>1
      <4> QED BY <1>1, <4>1, <4>2
    <3>3. (p - 1) \div n \in Nat
      BY <3>1, <3>2
    <3> QED BY <1>2, <3>3
  <2>2. (t - 1) * n + 1 <= p /\ p <= m * n
    BY <1>1, <1>7, <2>1
  <2>3. t <= m
    <3> SUFFICES ASSUME m <= t - 1 PROVE FALSE
      BY <1>1
    <3>1. m * n <= (t - 1) * n
      BY <1>1, <1>4
    <3> QED BY <1>1, <2>2, <3>1
  <2> QED BY <1>1, <2>1, <2>3
<1>6. ASSUME NEW t \in Tile
      PROVE  /\ Leader(t) \in Item /\ TileOf(Leader(t)) = t
             /\ Members(t) = Leader(t) .. t * n /\ Cardinality(Members(t)) = n
  <2>1. t \in Nat \ {0} /\ t - 1 \in Nat /\ t * n <= m * n /\ 0 <= (t - 1) * n
        /\ (t - 1) * n \in Nat /\ t * n = (t - 1) * n + n
    <3>1. t \in Nat \ {0} /\ t - 1 \in Nat /\ t <= m
      BY <1>1
    <3>2. t * n <= m * n
      BY <1>1, <1>4, <3>1
    <3>3. \A x \in Nat : x * n \in Nat /\ (x + 1) * n = x * n + n
      BY <1>1
    <3>4. (t - 1) * n \in Nat /\ (t - 1 + 1) * n = (t - 1) * n + n
      BY <3>1, <3>3
    <3> QED BY <3>1, <3>2, <3>4
  <2>2. Leader(t) \in Item /\ Leader(t) \in Nat \ {0} /\ Leader(t) <= t * n
    <3> DEFINE a == (t - 1) * n
               b == t * n
               c == m * n
    <3>1. a \in Nat /\ b = a + n /\ b <= c /\ c \in Nat /\ Item = 1 .. c
      BY <1>1, <2>1
    <3>2. Leader(t) = a + 1
      BY <1>3
    <3> HIDE DEF a, b, c
    <3>3. Leader(t) \in Item /\ Leader(t) \in Nat \ {0} /\ Leader(t) <= b
      BY <1>1, <3>1, <3>2
    <3> QED BY <3>3 DEF b
  <2>3. TileOf(Leader(t)) = t
    <3>1. (t - 1) * n + 1 <= Leader(t)
      BY <1>3, <2>1
    <3> QED BY <1>7, <2>1, <2>2, <3>1
  <2>4. Members(t) = Leader(t) .. t * n
    <3>1. \A p \in Item : p \in Nat \ {0}
      BY <1>1
    <3>2. \A p \in Item : TileOf(p) = t <=> Leader(t) <= p /\ p <= t * n
      BY <1>3, <1>7, <2>1, <3>1
    <3> QED BY <1>1, <2>1, <2>2, <3>2 DEF Members
  <2>5. Cardinality(Leader(t) .. t * n) = n
    <3> DEFINE a == (t - 1) * n
               b == t * n
    <3>1. a \in Nat /\ b = a + n /\ Leader(t) = a + 1
      BY <1>3, <2>1
    <3> HIDE DEF a, b
    <3>2. Cardinality(a + 1 .. b) = n
      <4>1. a + 1 \in Int /\ b \in Int /\ a + 1 <= b /\ b - (a + 1) + 1 = n
        BY <1>1, <3>1
      <4> QED BY <4>1, FS_Interval
    <3> QED BY <3>1, <3>2 DEF b
  <2> QED BY <2>2, <2>3, <2>4, <2>5
<1> QED BY <1>5, <1>6 DEF n

\* What the rest needs to know of groups.
LEMMA Groups ==
  ASSUME kernel \in Kernel
  PROVE  /\ NewService \in Service /\ Slot[NewService] = Group /\ Slot["M"] = Item
         /\ \A th \in Service : Slot[th] = 1 .. Slots(th) /\ Slots(th) \in Nat
         /\ \A p \in Item : NewSlot(p) \in Group
         /\ \A g \in Group : Owner(g) \in Item /\ NewSlot(Owner(g)) = g
         /\ \A g \in Group : Cardinality(Mem(g)) = Shares
         /\ IsFiniteSet(Item) /\ \A g : IsFiniteSet(Mem(g))
         /\ Shared => \A p \in Item : /\ Mem(NewSlot(p)) = Members(TileOf(p))
                                      /\ Owner(NewSlot(p)) = Leader(TileOf(p))
                                      /\ NewSlot(p) = TileOf(p)
         /\ ~Shared => \A p \in Item : /\ Mem(p) = {p} /\ NewSlot(p) = p
                                       /\ Owner(p) = p /\ Group = Item
<1>1. NewService \in Service /\ Slot[NewService] = Group /\ Slot["M"] = Item
  BY DEF NewService, Service, Slot, Group
<1>7. \A n \in Nat : IsFiniteSet(1 .. n) /\ Cardinality(1 .. n) = n
  <2> SUFFICES ASSUME NEW n \in Nat PROVE IsFiniteSet(1 .. n) /\ Cardinality(1 .. n) = n
    OBVIOUS
  <2>1. IsFiniteSet(1 .. n) /\ Cardinality(1 .. n) = IF 1 > n THEN 0 ELSE n - 1 + 1
    BY FS_Interval
  <2> QED BY <2>1
<1>8. PICK n \in Nat : Item = 1 .. n
  BY KernelFacts DEF Item
<1>9. kernel.tiles \in Nat /\ Tile = 1 .. kernel.tiles
  BY KernelFacts DEF Tile
<1>2. IsFiniteSet(Item) /\ IsFiniteSet(Tile)
  BY <1>7, <1>8, <1>9
<1>3. \A th \in Service : Slot[th] = 1 .. Slots(th) /\ Slots(th) \in Nat
  <2>1. Cardinality(Item) = n /\ Cardinality(Tile) = kernel.tiles
    BY <1>7, <1>8, <1>9
  <2> QED BY <2>1, <1>8, <1>9 DEF Slots, Slot
<1>4. \A g : IsFiniteSet(Mem(g))
  BY <1>2, FS_Subset DEF Mem
<1>5. CASE Shared
  <2>1. \A p \in Item : NewSlot(p) = TileOf(p)
    BY <1>5 DEF NewSlot
  <2>2. \A g : Mem(g) = Members(g) /\ Owner(g) = Leader(g)
    BY <1>5, <2>1 DEF Mem, Members, Owner
  <2> QED BY <1>1, <1>2, <1>3, <1>4, <1>5, <2>1, <2>2, SharedGroups DEF Group, Shares
<1>6. CASE ~Shared
  <2>1. \A p \in Item : NewSlot(p) = p /\ Mem(p) = {p} /\ Owner(p) = p
    BY <1>6 DEF NewSlot, ItemSlot, Mem, Owner
  <2>2. \A p : Cardinality({p}) = 1
    BY FS_Singleton
  <2> QED BY <1>1, <1>2, <1>3, <1>4, <1>6, <2>1, <2>2 DEF Group, Shares
<1> QED BY <1>5, <1>6

\* No step changes the kernel, nor what is defined by it.
LEMMA SameKernel ==
  ASSUME kernel' = kernel
  PROVE  /\ Item' = Item /\ Slot' = Slot /\ NewService' = NewService /\ Group' = Group
         /\ Shared' = Shared /\ Shares' = Shares /\ CounterFirst' = CounterFirst
         /\ \A th : Slots(th)' = Slots(th)
         /\ \A p : NewSlot(p)' = NewSlot(p) /\ Owner(p)' = Owner(p) /\ Mem(p)' = Mem(p)
BY DEF Item, Slot, Tile, NewService, Group, Shared, Shares, CounterFirst, Slots,
       NewSlot, ItemSlot, TileOf, Owner, Leader, Mem

\* No step changes the kernel.
LEMMA KernelFixed ==
  ASSUME [Next]_vars
  PROVE  kernel' = kernel
BY DEF Next, MainStep, StopX, StopM, JoinThread, ItemStep, SkipNew, EnterNew, AskNew, Answered,
       TakeBlock, StoreHeader, LeaveNew, EnterDelete, AskDelete, LeaveDelete,
       ServiceStep, Wake, Skip, Malloc, Free, Reply, Reset, Sleep, vars

-----------------------------------------------------------------------------
(* The first invariant: every request has an item that waits for it.       *)

\* TypeOK, but for the range of the signals, and with the functions whose
\* ranges depend on their arguments.
Shapes ==
    /\ kernel \in Kernel
    /\ pc \in [Item -> Labels] /\ ptr \in [Item -> Block \cup {0}]
    /\ signal \in [Service -> Int] /\ at \in [Service -> Int]
    /\ call = [th \in Service |-> call[th]] /\ arg = [th \in Service |-> arg[th]]
    /\ \A th \in Service : /\ call[th] \in [Slot[th] -> 0 .. 2]
                           /\ arg[th] \in [Slot[th] -> Block \cup {0}]
                           /\ at[th] \in 1 .. Slots(th) + 1
    /\ svc \in [Service -> {"wait", "scan", "reply", "reset", "left"}]
    /\ result \in [Service -> Block \cup {0}]
    /\ live \subseteq Block /\ counter \in [Block -> Int]
    /\ main \in {"run", "exitM", "joinX", "joinM", "gone"}

Awaited == \A th \in Service : \A i \in Slot[th] :
              /\ call[th][i] = 1 => th = NewService /\ pc[Owner(i)] = "asked"
              /\ call[th][i] = 2 => th = "M" /\ pc[i] = "deleting"

Attended == \A th \in Service : svc[th] \in {"reply", "reset"} =>
               at[th] \in Slot[th] /\ call[th][at[th]] # 0

OwnersAsk == \A p \in Item : pc[p] \in {"asked", "answered"} => p = Owner(NewSlot(p))

Requests == Awaited /\ Attended /\ OwnersAsk

\* A function changed at one argument, to a value of its type.
LEMMA ExceptType ==
  ASSUME NEW S, NEW T, NEW f \in [S -> T], NEW i, NEW v \in T
  PROVE  [f EXCEPT ![i] = v] \in [S -> T]
OBVIOUS

\* Every step keeps the types.
LEMMA ShapesKept ==
  ASSUME Shapes, Requests, [Next]_vars
  PROVE  Shapes'
<1>1. /\ kernel' = kernel /\ Item' = Item /\ Slot' = Slot
      /\ \A th : Slots(th)' = Slots(th)
  BY KernelFixed, SameKernel
<1>2. /\ kernel \in Kernel /\ NewService \in Service /\ Service = {"X", "M"}
      /\ Slot[NewService] = Group /\ Slot["M"] = Item
      /\ \A th \in Service : Slot[th] = 1 .. Slots(th) /\ Slots(th) \in Nat
      /\ \A p \in Item : NewSlot(p) \in Group
  BY Groups DEF Shapes, Service
<1>3. ASSUME NEW p \in Item, ItemStep(p) PROVE Shapes'
  <2>1. CASE EnterNew(p)
    <3>1. signal' \in [Service -> Int]
      <4>1. signal' = [signal EXCEPT ![NewService] = @ + 1]
        BY <2>1 DEF EnterNew, Count
      <4>2. signal[NewService] + 1 \in Int
        BY <1>2 DEF Shapes
      <4> QED BY <4>1, <4>2, ExceptType DEF Shapes
    <3>2. pc' \in [Item -> Labels]
      BY <2>1 DEF Shapes, EnterNew, Goto, Labels, InNew
    <3> QED BY <1>1, <2>1, <3>1, <3>2 DEF Shapes, EnterNew, tables, threads, heap
  <2>10. CASE SkipNew(p)
    <3>1. pc' \in [Item -> Labels] /\ ptr' \in [Item -> Block \cup {0}]
      BY <2>10 DEF Shapes, SkipNew, Goto, Labels, InNew
    <3> QED BY <1>1, <2>10, <3>1 DEF Shapes, SkipNew, tables, threads, heap
  <2>2. CASE AskNew(p)
    <3>1. Request(NewService, NewSlot(p), 1, 0)
      BY <2>2 DEF AskNew
    <3>2. /\ call' = [t \in Service |-> call'[t]] /\ arg' = [t \in Service |-> arg'[t]]
          /\ \A t \in Service : /\ call'[t] \in [Slot[t] -> 0 .. 2]
                                /\ arg'[t] \in [Slot[t] -> Block \cup {0}]
      <4> DEFINE c == [call[NewService] EXCEPT ![NewSlot(p)] = 1]
                 a == [arg[NewService] EXCEPT ![NewSlot(p)] = 0]
      <4>1. /\ call' = [t \in Service |-> IF t = NewService THEN c ELSE call[t]]
            /\ arg' = [t \in Service |-> IF t = NewService THEN a ELSE arg[t]]
        BY <1>2, <3>1 DEF Shapes, Request
      <4>2. c \in [Slot[NewService] -> 0 .. 2] /\ a \in [Slot[NewService] -> Block \cup {0}]
        <5>1. /\ call[NewService] \in [Slot[NewService] -> 0 .. 2]
              /\ arg[NewService] \in [Slot[NewService] -> Block \cup {0}]
          BY <1>2 DEF Shapes
        <5>2. 1 \in 0 .. 2 /\ 0 \in Block \cup {0}
          OBVIOUS
        <5> QED BY <5>1, <5>2, ExceptType
      <4> QED BY <1>2, <4>1, <4>2 DEF Shapes
    <3> QED BY <1>1, <1>2, <2>2, <3>2 DEF Shapes, AskNew, Goto, threads, heap, Labels, InNew
  <2>3. CASE Answered(p)
    BY <1>1, <1>2, <2>3 DEF Shapes, Answered, Goto, tables, threads, heap, Labels, InNew
  <2>4. CASE TakeBlock(p)
    <3>1. arg[NewService][NewSlot(p)] \in Block \cup {0}
      BY <1>2 DEF Shapes
    <3> QED BY <1>1, <1>2, <2>4, <3>1
        DEF Shapes, TakeBlock, Goto, tables, threads, heap, Labels, InNew
  <2>5. CASE StoreHeader(p)
    <3>1. Shares \in Int
      BY <1>2, KernelFacts DEF Shares
    <3> QED BY <1>1, <1>2, <2>5, <3>1 DEF Shapes, StoreHeader, Goto, tables, threads, Labels, InNew
  <2>6. CASE LeaveNew(p)
    <3>1. signal' \in [Service -> Int]
      <4>1. signal' = [signal EXCEPT ![NewService] = @ + (-1)]
        BY <2>6 DEF LeaveNew, Count
      <4>2. signal[NewService] + (-1) \in Int
        BY <1>2 DEF Shapes
      <4> QED BY <4>1, <4>2, ExceptType DEF Shapes
    <3>2. pc' \in [Item -> Labels]
      BY <2>6 DEF Shapes, LeaveNew, Goto, Labels, InNew
    <3> QED BY <1>1, <2>6, <3>1, <3>2 DEF Shapes, LeaveNew, tables, threads, heap
  <2>7. CASE EnterDelete(p)
    <3>1. signal' \in [Service -> Int]
      <4>1. signal' = [signal EXCEPT !["M"] = @ + 1]
        BY <2>7 DEF EnterDelete, Count
      <4>2. signal["M"] + 1 \in Int
        BY <1>2 DEF Shapes
      <4> QED BY <4>1, <4>2, ExceptType DEF Shapes
    <3>2. pc' \in [Item -> Labels]
      BY <2>7 DEF Shapes, EnterDelete, Goto, Labels, InNew
    <3> QED BY <1>1, <2>7, <3>1, <3>2 DEF Shapes, EnterDelete, tables, threads, heap
  <2>8. CASE AskDelete(p)
    <3>1. Request("M", p, 2, ptr[p]) /\ ptr[p] \in Block \cup {0}
      BY <2>8 DEF AskDelete, ItemSlot, Shapes
    <3>2. /\ call' = [t \in Service |-> call'[t]] /\ arg' = [t \in Service |-> arg'[t]]
          /\ \A t \in Service : /\ call'[t] \in [Slot[t] -> 0 .. 2]
                                /\ arg'[t] \in [Slot[t] -> Block \cup {0}]
      <4> DEFINE c == [call["M"] EXCEPT ![p] = 2]
                 a == [arg["M"] EXCEPT ![p] = ptr[p]]
      <4>1. /\ call' = [t \in Service |-> IF t = "M" THEN c ELSE call[t]]
            /\ arg' = [t \in Service |-> IF t = "M" THEN a ELSE arg[t]]
        BY <1>2, <3>1 DEF Shapes, Request
      <4>2. c \in [Slot["M"] -> 0 .. 2] /\ a \in [Slot["M"] -> Block \cup {0}]
        <5>1. call["M"] \in [Slot["M"] -> 0 .. 2] /\ arg["M"] \in [Slot["M"] -> Block \cup {0}]
          BY <1>2 DEF Shapes
        <5>2. 2 \in 0 .. 2 /\ ptr[p] \in Block \cup {0}
          BY <3>1
        <5> QED BY <5>1, <5>2, ExceptType
      <4> QED BY <1>2, <4>1, <4>2 DEF Shapes
    <3> QED BY <1>1, <1>2, <2>8, <3>2 DEF Shapes, AskDelete, Goto, threads, heap, Labels
  <2>9. CASE LeaveDelete(p)
    <3>1. signal' \in [Service -> Int]
      <4>1. signal' = [signal EXCEPT !["M"] = @ + (-1)]
        BY <2>9 DEF LeaveDelete, Count
      <4>2. signal["M"] + (-1) \in Int
        BY <1>2 DEF Shapes
      <4> QED BY <4>1, <4>2, ExceptType DEF Shapes
    <3>2. pc' \in [Item -> Labels]
      BY <2>9 DEF Shapes, LeaveDelete, Goto, Labels, InNew
    <3> QED BY <1>1, <2>9, <3>1, <3>2 DEF Shapes, LeaveDelete, tables, threads, heap
  <2> QED BY <1>3, <2>1, <2>2, <2>3, <2>4, <2>5, <2>6, <2>7, <2>8, <2>9, <2>10 DEF ItemStep
<1>4. ASSUME NEW th \in Service, ServiceStep(th) PROVE Shapes'
  <2>1. CASE Wake(th)
    BY <1>1, <1>2, <1>4, <2>1 DEF Shapes, Wake, Serving, device, tables, heap
  <2>2. CASE Skip(th)
    <3>1. at' \in [Service -> Int] /\ \A t \in Service : at'[t] \in 1 .. Slots(t) + 1
      <4>1. at' = [at EXCEPT ![th] = at[th] + 1] /\ at[th] <= Slots(th)
        BY <2>2 DEF Skip, Finding
      <4>2. /\ at \in [Service -> Int] /\ \A t \in Service : at[t] \in 1 .. Slots(t) + 1
            /\ Slots(th) \in Nat
        BY <1>2, <1>4 DEF Shapes
      <4>3. at[th] + 1 \in Int /\ at[th] + 1 \in 1 .. Slots(th) + 1
        BY <1>4, <4>1, <4>2
      <4>4. at' \in [Service -> Int]
        BY <4>1, <4>2, <4>3, ExceptType
      <4>5. \A t \in Service : at'[t] = IF t = th THEN at[th] + 1 ELSE at[t]
        BY <4>1, <4>2
      <4> QED BY <4>2, <4>3, <4>4, <4>5
    <3> QED BY <1>1, <2>2, <3>1 DEF Shapes, Skip, device, tables, heap
  <2>3. CASE Malloc(th)
    BY <1>1, <1>2, <1>4, <2>3, HeapAssumption
    DEF Shapes, Malloc, Serving, device, tables
  <2>4. CASE th = "M" /\ Free
    <3>1. counter' \in [Block -> Int] /\ live' \subseteq Block
      <4> DEFINE b == arg["M"][at["M"]]
      <4>1. /\ counter' = IF b = 0 THEN counter ELSE [counter EXCEPT ![b] = @ - 1]
            /\ live' \subseteq live
        BY <2>4 DEF Free
      <4> HIDE DEF b
      <4>2. CASE b \in Block
        BY <4>1, <4>2 DEF Shapes
      <4>3. CASE b \notin Block
        BY <4>1, <4>3 DEF Shapes
      <4> QED BY <4>2, <4>3
    <3>2. result' \in [Service -> Block \cup {0}]
      <4>1. PICK r \in Block \cup {0} : result' = [result EXCEPT !["M"] = r]
        BY <2>4, HeapAssumption DEF Free
      <4> QED BY <4>1 DEF Shapes
    <3>3. svc' \in [Service -> {"wait", "scan", "reply", "reset", "left"}]
      BY <2>4 DEF Shapes, Free, Serving
    <3>4. UNCHANGED <<kernel, pc, ptr, signal, call, arg, at, main>>
      BY <2>4 DEF Free, device, tables
    <3> QED BY <1>1, <1>2, <3>1, <3>2, <3>3, <3>4 DEF Shapes
  <2>5. CASE Reply(th)
    BY <1>1, <1>2, <1>4, <2>5 DEF Shapes, Requests, Attended, Reply, Serving, device, heap
  <2>6. CASE Reset(th)
    <3>1. at' \in [Service -> Int] /\ \A t \in Service : at'[t] \in 1 .. Slots(t) + 1
      <4>1. at[th] \in 1 .. Slots(th) /\ Slots(th) \in Nat
        BY <1>2, <1>4, <2>6 DEF Requests, Attended, Reset
      <4> QED BY <1>4, <2>6, <4>1 DEF Shapes, Reset
    <3>2. /\ call' = [t \in Service |-> call'[t]]
          /\ \A t \in Service : call'[t] \in [Slot[t] -> 0 .. 2]
      <4> DEFINE c == [call[th] EXCEPT ![at[th]] = 0]
      <4>1. call' = [t \in Service |-> IF t = th THEN c ELSE call[t]]
        BY <1>4, <2>6 DEF Shapes, Reset
      <4>2. c \in [Slot[th] -> 0 .. 2]
        <5>1. call[th] \in [Slot[th] -> 0 .. 2]
          BY <1>4 DEF Shapes
        <5>2. 0 \in 0 .. 2
          OBVIOUS
        <5> QED BY <5>1, <5>2, ExceptType
      <4> QED BY <4>1, <4>2 DEF Shapes
    <3>3. svc' \in [Service -> {"wait", "scan", "reply", "reset", "left"}]
      BY <2>6 DEF Shapes, Reset, Serving
    <3> QED BY <1>1, <2>6, <3>1, <3>2, <3>3 DEF Shapes, Reset, device, heap
  <2>7. CASE Sleep(th)
    BY <1>1, <1>2, <1>4, <2>7 DEF Shapes, Sleep, Serving, device, tables, heap
  <2> QED BY <1>4, <2>1, <2>2, <2>3, <2>4, <2>5, <2>6, <2>7 DEF ServiceStep
<1>5. CASE MainStep
  BY <1>1, <1>2, <1>5
  DEF Shapes, MainStep, StopX, StopM, JoinThread, Exit, device, tables, threads, heap
<1>6. CASE UNCHANGED vars
  BY <1>1, <1>2, <1>6 DEF Shapes, vars, device, tables, threads, heap
<1> QED BY <1>3, <1>4, <1>5, <1>6 DEF Next

\* Every step keeps each request with its item.
LEMMA RequestsKept ==
  ASSUME Shapes, Requests, [Next]_vars
  PROVE  Requests'
<1>1. /\ kernel' = kernel /\ Item' = Item /\ Slot' = Slot /\ NewService' = NewService
      /\ \A p : NewSlot(p)' = NewSlot(p) /\ Owner(p)' = Owner(p)
  BY KernelFixed, SameKernel
<1>2. /\ kernel \in Kernel /\ NewService \in Service /\ "M" \in Service
      /\ Slot["M"] = Item
      /\ \A th \in Service : Slot[th] = 1 .. Slots(th) /\ Slots(th) \in Nat
      /\ \A p \in Item : NewSlot(p) \in Slot[NewService]
      /\ \A g \in Slot[NewService] : Owner(g) \in Item /\ NewSlot(Owner(g)) = g
  BY Groups DEF Shapes, Service
<1> DEFINE A == \A th \in Service : \A i \in Slot[th] :
                   /\ call'[th][i] = 1 => th = NewService /\ pc'[Owner(i)] = "asked"
                   /\ call'[th][i] = 2 => th = "M" /\ pc'[i] = "deleting"
           T == \A th \in Service : svc'[th] \in {"reply", "reset"} =>
                   at'[th] \in Slot[th] /\ call'[th][at'[th]] # 0
           O == \A p \in Item : pc'[p] \in {"asked", "answered"} => p = Owner(NewSlot(p))
<1>8. ASSUME NEW th \in Service, NEW i \in Slot[th]
      PROVE  /\ call[th][i] = 1 => /\ th = NewService /\ pc[Owner(i)] = "asked"
                                   /\ Owner(i) \in Item /\ NewSlot(Owner(i)) = i
             /\ call[th][i] = 2 => th = "M" /\ pc[i] = "deleting" /\ i \in Item
  BY <1>2 DEF Requests, Awaited
<1>9. A /\ T /\ O => Requests'
  BY <1>1 DEF Requests, Awaited, Attended, OwnersAsk
<1>3. ASSUME NEW p \in Item, NEW l \in Labels \ {"asked", "answered"},
             pc[p] \notin {"asked", "deleting"},
             pc' = [pc EXCEPT ![p] = l], UNCHANGED <<call, svc, at>>
      PROVE  Requests'
  <2>1. /\ \A q \in Item : pc'[q] = IF q = p THEN l ELSE pc[q]
        /\ pc[p] \notin {"asked", "deleting"} /\ l \notin {"asked", "answered"}
    BY <1>3 DEF Shapes
  <2>2. A
    BY <1>8, <1>3, <2>1
  <2>3. T
    BY <1>1, <1>3 DEF Requests, Attended
  <2>4. O
    BY <1>1, <2>1 DEF Requests, OwnersAsk
  <2> QED BY <1>9, <2>2, <2>3, <2>4
<1>4. ASSUME UNCHANGED <<call, pc>>,
             \A th \in Service : svc'[th] \in {"reply", "reset"} =>
                at'[th] \in Slot[th] /\ call[th][at'[th]] # 0
      PROVE  Requests'
  <2>1. A
    BY <1>4, <1>8
  <2>2. T
    BY <1>1, <1>4 DEF Attended
  <2>3. O
    BY <1>1, <1>4 DEF Requests, OwnersAsk
  <2> QED BY <1>9, <2>1, <2>2, <2>3
<1>5. ASSUME NEW p \in Item, ItemStep(p) PROVE Requests'
  <2>1. CASE \/ SkipNew(p) \/ EnterNew(p) \/ TakeBlock(p)
             \/ StoreHeader(p) \/ LeaveNew(p) \/ EnterDelete(p)
    <3>6. CASE SkipNew(p)
      BY <1>3, <3>6 DEF SkipNew, Goto, tables, threads, Labels, InNew
    <3>1. CASE EnterNew(p)
      BY <1>3, <3>1 DEF EnterNew, Goto, tables, threads, Labels, InNew
    <3>2. CASE TakeBlock(p)
      BY <1>3, <3>2 DEF TakeBlock, Goto, tables, threads, Labels, InNew
    <3>3. CASE StoreHeader(p)
      BY <1>3, <3>3 DEF StoreHeader, Goto, tables, threads, Labels, InNew
    <3>4. CASE LeaveNew(p)
      BY <1>3, <3>4 DEF LeaveNew, Goto, tables, threads, Labels, InNew
    <3>5. CASE EnterDelete(p)
      BY <1>3, <3>5 DEF EnterDelete, Goto, tables, threads, Labels, InNew
    <3> QED BY <2>1, <3>1, <3>2, <3>3, <3>4, <3>5, <3>6
  <2>2. CASE AskNew(p)
    <3>1. /\ pc[p] = "in" /\ Request(NewService, NewSlot(p), 1, 0) /\ UNCHANGED <<svc, at>>
          /\ \A q \in Item : pc'[q] = IF q = p THEN "asked" ELSE pc[q]
          /\ p = Owner(NewSlot(p))
      BY <2>2 DEF AskNew, Goto, Shapes, threads, Owner, NewSlot, ItemSlot
    <3>2. \A th \in Service : \A i \in Slot[th] :
             call'[th][i] = IF th = NewService /\ i = NewSlot(p) THEN 1 ELSE call[th][i]
      BY <1>2, <3>1 DEF Request, Shapes
    <3>4. A
      BY <1>8, <3>1, <3>2
    <3>5. T
      BY <1>1, <1>2, <3>1, <3>2 DEF Requests, Attended
    <3>6. O
      BY <1>1, <1>2, <3>1, <3>2 DEF Requests, OwnersAsk
    <3> QED BY <1>9, <3>4, <3>5, <3>6
  <2>3. CASE Answered(p)
    <3>1. /\ pc[p] = "asked" /\ call[NewService][NewSlot(p)] = 0 /\ UNCHANGED <<call, svc, at>>
          /\ \A q \in Item : pc'[q] = IF q = p THEN "answered" ELSE pc[q]
      BY <2>3 DEF Answered, Goto, Shapes, threads, tables
    <3>4. A
      BY <1>8, <3>1
    <3>5. T
      BY <1>1, <1>2, <3>1 DEF Requests, Attended
    <3>6. O
      BY <1>1, <1>2, <3>1 DEF Requests, OwnersAsk
    <3> QED BY <1>9, <3>4, <3>5, <3>6
  <2>4. CASE AskDelete(p)
    <3>1. /\ pc[p] = "delete" /\ Request("M", p, 2, ptr[p]) /\ UNCHANGED <<svc, at>>
          /\ \A q \in Item : pc'[q] = IF q = p THEN "deleting" ELSE pc[q]
      BY <2>4 DEF AskDelete, Goto, Shapes, threads, ItemSlot
    <3>2. \A th \in Service : \A i \in Slot[th] :
             call'[th][i] = IF th = "M" /\ i = p THEN 2 ELSE call[th][i]
      BY <1>2, <3>1 DEF Request, Shapes
    <3>4. A
      BY <1>8, <3>1, <3>2
    <3>5. T
      BY <1>1, <1>2, <3>1, <3>2 DEF Requests, Attended
    <3>6. O
      BY <1>1, <1>2, <3>1, <3>2 DEF Requests, OwnersAsk
    <3> QED BY <1>9, <3>4, <3>5, <3>6
  <2>5. CASE LeaveDelete(p)
    <3>1. /\ pc[p] = "deleting" /\ call["M"][p] = 0 /\ UNCHANGED <<call, svc, at>>
          /\ \A q \in Item : pc'[q] = IF q = p THEN "end" ELSE pc[q]
      BY <2>5 DEF LeaveDelete, Goto, Shapes, threads, tables, ItemSlot
    <3>4. A
      BY <1>8, <3>1
    <3>5. T
      BY <1>1, <1>2, <3>1 DEF Requests, Attended
    <3>6. O
      BY <1>1, <1>2, <3>1 DEF Requests, OwnersAsk
    <3> QED BY <1>9, <3>4, <3>5, <3>6
  <2> QED BY <1>5, <2>1, <2>2, <2>3, <2>4, <2>5 DEF ItemStep
<1>6. ASSUME NEW th \in Service, ServiceStep(th) PROVE Requests'
  <2>1. \A t \in Service : t # th => at'[t] = at[t] /\ svc'[t] = svc[t]
    BY <1>6 DEF ServiceStep, Wake, Skip, Malloc, Free, Reply, Reset, Sleep, Serving, Shapes
  <2>2. CASE Wake(th) \/ Skip(th) \/ Sleep(th)
    <3>1. svc'[th] \notin {"reply", "reset"} /\ UNCHANGED <<call, pc>>
      BY <1>6, <2>2 DEF Wake, Skip, Sleep, Finding, Serving, Shapes, tables, device
    <3> QED BY <1>4, <2>1, <3>1 DEF Requests, Attended
  <2>3. CASE Malloc(th) \/ (th = "M" /\ Free)
    <3>1. /\ UNCHANGED <<call, pc, at>> /\ call[th][at[th]] # 0
          /\ at[th] \in 1 .. Slots(th)
      <4>1. /\ UNCHANGED <<call, pc, at>> /\ call[th][at[th]] # 0 /\ at[th] <= Slots(th)
        BY <2>3 DEF Malloc, Free, Finding, tables, device
      <4> QED BY <1>2, <1>6, <4>1 DEF Shapes
    <3> QED BY <1>2, <1>4, <1>6, <2>1, <3>1 DEF Requests, Attended
  <2>4. CASE Reply(th)
    <3>1. UNCHANGED <<call, pc, at>> /\ svc[th] = "reply"
      BY <2>4 DEF Reply, device
    <3> QED BY <1>4, <1>6, <2>1, <3>1 DEF Requests, Attended
  <2>5. CASE Reset(th)
    <3>1. /\ svc'[th] = "scan" /\ pc' = pc
          /\ \A t \in Service : \A i \in Slot[t] :
                call'[t][i] = IF t = th /\ i = at[th] THEN 0 ELSE call[t][i]
      BY <1>6, <2>5 DEF Reset, Serving, Shapes, device
    <3>4. A
      BY <1>8, <1>6, <2>1, <3>1
    <3>5. T
      BY <1>1, <1>2, <1>6, <2>1, <3>1 DEF Requests, Attended
    <3>6. O
      BY <1>1, <1>2, <1>6, <2>1, <3>1 DEF Requests, OwnersAsk
    <3> QED BY <1>9, <3>4, <3>5, <3>6
  <2> QED BY <1>6, <2>2, <2>3, <2>4, <2>5 DEF ServiceStep
<1>7. CASE MainStep
  BY <1>4, <1>7
  DEF Requests, Attended, MainStep, StopX, StopM, JoinThread, device, tables, threads
<1>10. CASE UNCHANGED vars
  BY <1>4, <1>10 DEF Requests, Attended, vars, device, tables, threads
<1> QED BY <1>5, <1>6, <1>7, <1>10 DEF Next

-----------------------------------------------------------------------------
(* The second invariant: a signal counts the items that its thread may     *)
(* have to serve, until main stores Exit after the last item has ended.    *)

Served(th, l) == \/ th = NewService /\ l \in InNew \ {"new"}
                 \/ th = "M" /\ l \in {"delete", "deleting"}
Busy(th) == {p \in Item : Served(th, pc[p])}

Signals ==
    /\ \A th \in Service : \/ signal[th] = Cardinality(Busy(th))
                           \/ main # "run" /\ signal[th] = Exit
    /\ main # "run" => \A p \in Item : pc[p] = "end"
    /\ \A th \in Service : svc[th] = "left" => main # "run"

\* The same set when the kernel is the same.
LEMMA BusyNext ==
  ASSUME kernel' = kernel
  PROVE  \A th : Busy(th)' = {p \in Item : Served(th, pc'[p])}
<1>1. Item' = Item /\ NewService' = NewService
  BY SameKernel
<1> QED BY <1>1 DEF Busy, Served

\* An item that goes from one label to the next changes the signals by what
\* the labels differ in.
LEMMA SignalsOfMove ==
  ASSUME Shapes, Signals, kernel' = kernel, UNCHANGED <<main, svc>>,
         NEW p \in Item, NEW l \in Labels, pc[p] # "end", pc' = [pc EXCEPT ![p] = l],
         \A th \in Service : signal'[th] = signal[th] + (IF Served(th, l) THEN 1 ELSE 0)
                                                  - (IF Served(th, pc[p]) THEN 1 ELSE 0)
  PROVE  Signals'
<1>1. main = "run"
  BY DEF Signals
<1>2. \A q \in Item : pc'[q] = IF q = p THEN l ELSE pc[q]
  BY DEF Shapes
<1>3. IsFiniteSet(Item) /\ Item' = Item
  BY Groups, SameKernel DEF Shapes
<1>4. ASSUME NEW th \in Service PROVE signal'[th] = Cardinality(Busy(th)')
  <2> DEFINE B == Busy(th)
             C == {q \in Item : Served(th, pc'[q])}
  <2>1. Busy(th)' = C /\ IsFiniteSet(B) /\ signal[th] = Cardinality(B)
        /\ Cardinality(B) \in Nat
    BY <1>1, <1>3, BusyNext, FS_Subset, FS_CardinalityType DEF Signals, Busy
  <2>2. CASE Served(th, l) /\ ~Served(th, pc[p])
    <3>1. C = B \cup {p} /\ p \notin B
      BY <1>2, <2>2 DEF Busy
    <3>2. Cardinality(C) = Cardinality(B) + 1
      BY <2>1, <3>1, FS_AddElement
    <3> QED BY <2>1, <2>2, <3>2
  <2>3. CASE ~Served(th, l) /\ Served(th, pc[p])
    <3>1. C = B \ {p} /\ p \in B
      BY <1>2, <2>3 DEF Busy
    <3>2. Cardinality(C) = Cardinality(B) - 1
      BY <2>1, <3>1, FS_RemoveElement
    <3> QED BY <2>1, <2>3, <3>2
  <2>4. CASE Served(th, l) <=> Served(th, pc[p])
    <3>1. C = B
      BY <1>2, <2>4 DEF Busy
    <3>2. signal'[th] = signal[th]
      <4>1. signal[th] \in Int
        BY DEF Shapes
      <4>2. CASE Served(th, l)
        BY <2>4, <4>1, <4>2
      <4>3. CASE ~Served(th, l)
        BY <2>4, <4>1, <4>3
      <4> QED BY <4>2, <4>3
    <3> QED BY <2>1, <3>1, <3>2
  <2> QED BY <2>2, <2>3, <2>4
<1> QED BY <1>1, <1>3, <1>4 DEF Signals

\* Every step keeps the signals equal to the number of items they count.
LEMMA SignalsKept ==
  ASSUME Shapes, Signals, [Next]_vars
  PROVE  Signals'
<1>1. kernel' = kernel /\ Item' = Item
  BY KernelFixed, SameKernel
<1>2. /\ NewService \in Service /\ Service = {"X", "M"} /\ IsFiniteSet(Item)
      /\ \A th \in Service : signal[th] \in Int
  BY Groups DEF Shapes, Service
<1>3. ASSUME UNCHANGED <<pc, signal, main>>,
             \A th \in Service : svc'[th] = "left" => main # "run"
      PROVE  Signals'
  <2>1. \A th : Busy(th)' = Busy(th)
    BY <1>1, <1>3, BusyNext DEF Busy
  <2> QED BY <1>1, <1>3, <2>1 DEF Signals
<1>4. ASSUME NEW p \in Item, ItemStep(p) PROVE Signals'
  <2>1. ASSUME NEW l \in Labels, Goto(p, l), pc[p] # "end", UNCHANGED <<signal, main, svc>>,
               \A th \in Service : Served(th, l) <=> Served(th, pc[p])
        PROVE  Signals'
    <3>1. \A th \in Service : signal'[th] = signal[th] + (IF Served(th, l) THEN 1 ELSE 0)
                                                  - (IF Served(th, pc[p]) THEN 1 ELSE 0)
      BY <1>2, <2>1
    <3>2. pc' = [pc EXCEPT ![p] = l]
      BY <2>1 DEF Goto
    <3> QED BY <1>1, <2>1, <3>1, <3>2, SignalsOfMove
  <2>2. CASE EnterNew(p)
    <3>1. /\ pc[p] = "new" /\ pc' = [pc EXCEPT ![p] = "in"] /\ UNCHANGED <<main, svc>>
          /\ \A th \in Service : signal'[th] = signal[th] + (IF th = NewService THEN 1 ELSE 0)
      BY <1>2, <2>2 DEF EnterNew, Count, Goto, threads, Shapes
    <3>2. \A th \in Service : ~Served(th, "new") /\ (Served(th, "in") <=> th = NewService)
      BY DEF Served, InNew
    <3>3. "in" \in Labels
      BY DEF Labels, InNew
    <3>4. \A th \in Service : signal'[th] = signal[th] + (IF Served(th, "in") THEN 1 ELSE 0)
                                                  - (IF Served(th, pc[p]) THEN 1 ELSE 0)
      BY <1>2, <3>1, <3>2
    <3> QED BY <1>1, <3>1, <3>3, <3>4, SignalsOfMove
  <2>11. CASE SkipNew(p)
    BY <2>1, <2>11 DEF SkipNew, threads, Served, Labels, InNew
  <2>3. CASE AskNew(p)
    BY <2>1, <2>3 DEF AskNew, threads, Served, Labels, InNew
  <2>4. CASE Answered(p)
    BY <2>1, <2>4 DEF Answered, threads, Served, Labels, InNew
  <2>5. CASE TakeBlock(p)
    BY <2>1, <2>5 DEF TakeBlock, threads, Served, Labels, InNew
  <2>6. CASE StoreHeader(p)
    BY <2>1, <2>6 DEF StoreHeader, threads, Served, Labels, InNew
  <2>7. CASE LeaveNew(p)
    <3>1. /\ pc[p] = "stored" /\ pc' = [pc EXCEPT ![p] = "owner"] /\ UNCHANGED <<main, svc>>
          /\ \A th \in Service : signal'[th] = signal[th] + (IF th = NewService THEN -1 ELSE 0)
      BY <1>2, <2>7 DEF LeaveNew, Count, Goto, threads, Shapes
    <3>2. \A th \in Service : ~Served(th, "owner") /\ (Served(th, "stored") <=> th = NewService)
      BY DEF Served, InNew
    <3>3. "owner" \in Labels
      BY DEF Labels
    <3>4. \A th \in Service : signal'[th] = signal[th] + (IF Served(th, "owner") THEN 1 ELSE 0)
                                                  - (IF Served(th, pc[p]) THEN 1 ELSE 0)
      BY <1>2, <3>1, <3>2
    <3> QED BY <1>1, <3>1, <3>3, <3>4, SignalsOfMove
  <2>8. CASE EnterDelete(p)
    <3>1. /\ pc[p] = "owner" /\ pc' = [pc EXCEPT ![p] = "delete"] /\ UNCHANGED <<main, svc>>
          /\ \A th \in Service : signal'[th] = signal[th] + (IF th = "M" THEN 1 ELSE 0)
      BY <1>2, <2>8 DEF EnterDelete, Count, Goto, threads, Shapes
    <3>2. \A th \in Service : ~Served(th, "owner") /\ (Served(th, "delete") <=> th = "M")
      BY DEF Served, InNew
    <3>3. "delete" \in Labels
      BY DEF Labels
    <3>4. \A th \in Service : signal'[th] = signal[th] + (IF Served(th, "delete") THEN 1 ELSE 0)
                                                  - (IF Served(th, pc[p]) THEN 1 ELSE 0)
      BY <1>2, <3>1, <3>2
    <3> QED BY <1>1, <3>1, <3>3, <3>4, SignalsOfMove
  <2>9. CASE AskDelete(p)
    BY <2>1, <2>9 DEF AskDelete, threads, Served, Labels, InNew
  <2>10. CASE LeaveDelete(p)
    <3>1. /\ pc[p] = "deleting" /\ pc' = [pc EXCEPT ![p] = "end"] /\ UNCHANGED <<main, svc>>
          /\ \A th \in Service : signal'[th] = signal[th] + (IF th = "M" THEN -1 ELSE 0)
      BY <1>2, <2>10 DEF LeaveDelete, Count, Goto, threads, Shapes
    <3>2. \A th \in Service : ~Served(th, "end") /\ (Served(th, "deleting") <=> th = "M")
      BY DEF Served, InNew
    <3>3. "end" \in Labels
      BY DEF Labels
    <3>4. \A th \in Service : signal'[th] = signal[th] + (IF Served(th, "end") THEN 1 ELSE 0)
                                                  - (IF Served(th, pc[p]) THEN 1 ELSE 0)
      BY <1>2, <3>1, <3>2
    <3> QED BY <1>1, <3>1, <3>3, <3>4, SignalsOfMove
  <2> QED BY <1>4, <2>2, <2>3, <2>4, <2>5, <2>6, <2>7, <2>8, <2>9, <2>10, <2>11 DEF ItemStep
<1>5. ASSUME NEW th \in Service, ServiceStep(th) PROVE Signals'
  <2>1. UNCHANGED <<pc, signal, main>>
    BY <1>5 DEF ServiceStep, Wake, Skip, Malloc, Free, Reply, Reset, Sleep, device
  <2>2. \A t \in Service : svc'[t] = "left" => svc[t] = "left" \/ signal[t] = Exit
    BY <1>5 DEF ServiceStep, Wake, Skip, Malloc, Free, Reply, Reset, Sleep, Serving, Shapes
  <2>3. \A t \in Service : Cardinality(Busy(t)) # Exit
    BY <1>2, FS_Subset, FS_CardinalityType DEF Busy, Exit
  <2> QED BY <1>3, <2>1, <2>2, <2>3 DEF Signals
<1>6. CASE MainStep
  <2>1. pc' = pc /\ svc' = svc /\ \A p \in Item : pc[p] = "end"
    BY <1>6 DEF MainStep, StopX, StopM, JoinThread, Signals, device, threads
  <2>2. main' # "run"
    BY <1>6 DEF MainStep, StopX, StopM, JoinThread
  <2>3. \A t \in Service : \/ signal'[t] = signal[t] /\ (main # "run" => main' # "run")
                           \/ signal'[t] = Exit
    BY <1>6, <2>2 DEF MainStep, StopX, StopM, JoinThread, Shapes, device
  <2>4. \A t : Busy(t)' = Busy(t)
    BY <1>1, <2>1, BusyNext DEF Busy
  <2> QED BY <1>1, <2>1, <2>2, <2>3, <2>4 DEF Signals
<1>7. CASE UNCHANGED vars
  BY <1>3, <1>7 DEF Signals, vars, device, threads
<1> QED BY <1>4, <1>5, <1>6, <1>7 DEF Next

-----------------------------------------------------------------------------
(* What the two invariants say of DeviceNew.                               *)

Waiting == Shapes /\ Requests /\ Signals

\* At first no slot holds a request and nobody is counted.
LEMMA WaitingInit ==
  ASSUME Init
  PROVE  Waiting
<1>1. kernel \in Kernel /\ \A th \in Service : Slot[th] = 1 .. Slots(th) /\ Slots(th) \in Nat
  BY Groups DEF Init
<1>2. Shapes
  <2>1. counter \in [Block -> Int]
    BY HeapAssumption DEF Init
  <2>2. pc \in [Item -> Labels] /\ ptr \in [Item -> Block \cup {0}]
    BY DEF Init, Labels, InNew
  <2>3. /\ call = [th \in Service |-> [i \in Slot[th] |-> 0]]
        /\ arg = [th \in Service |-> [i \in Slot[th] |-> 0]]
    BY DEF Init
  <2>4. \A th \in Service : /\ call[th] = [i \in Slot[th] |-> 0]
                            /\ arg[th] = [i \in Slot[th] |-> 0]
    BY <2>3
  <2>5. /\ call = [th \in Service |-> call[th]] /\ arg = [th \in Service |-> arg[th]]
        /\ \A th \in Service : /\ call[th] \in [Slot[th] -> 0 .. 2]
                               /\ arg[th] \in [Slot[th] -> Block \cup {0}]
    BY <2>3, <2>4
  <2>6. /\ signal \in [Service -> Int] /\ at \in [Service -> Int]
        /\ \A th \in Service : at[th] \in 1 .. Slots(th) + 1
    BY <1>1 DEF Init, Halt
  <2> QED BY <1>1, <2>1, <2>2, <2>5, <2>6 DEF Init, Shapes
<1>3. Requests
  BY DEF Init, Requests, Awaited, Attended, OwnersAsk
<1>4. \A th : Busy(th) = {}
  BY DEF Init, Busy, Served, InNew
<1>5. Signals
  BY <1>4, FS_EmptySet DEF Init, Signals, Halt
<1> QED BY <1>2, <1>3, <1>5 DEF Waiting

\* Hence both invariants always hold.
LEMMA WaitingAlways == Spec => []Waiting
<1>1. Waiting /\ [Next]_vars => Waiting'
  BY ShapesKept, RequestsKept, SignalsKept DEF Waiting
<1> QED BY <1>1, WaitingInit, PTL DEF Spec

\* They bound the signals.
LEMMA WaitingTypes ==
  ASSUME Waiting
  PROVE  TypeOK
<1>1. \A th \in Service : signal[th] \in Exit .. Cardinality(Item)
  <2> SUFFICES ASSUME NEW th \in Service PROVE signal[th] \in Exit .. Cardinality(Item)
    OBVIOUS
  <2>1. IsFiniteSet(Item) /\ Busy(th) \subseteq Item
    BY Groups DEF Waiting, Shapes, Busy
  <2>2. /\ Cardinality(Busy(th)) \in Nat /\ Cardinality(Item) \in Nat
        /\ Cardinality(Busy(th)) <= Cardinality(Item)
    BY <2>1, FS_Subset, FS_CardinalityType
  <2> QED BY <2>2 DEF Waiting, Signals, Exit
<1>2. signal \in [Service -> Exit .. Cardinality(Item)]
  BY <1>1 DEF Waiting, Shapes
<1> QED BY <1>2 DEF Waiting, Shapes, TypeOK

\* They keep the thread of a request awake.
LEMMA WaitingKeepsAwake ==
  ASSUME Waiting
  PROVE  PendingKeepsAwake
<1> SUFFICES ASSUME NEW th \in Service, NEW i \in Slot[th], call[th][i] # 0
             PROVE  signal[th] # Halt /\ svc[th] # "left"
  BY DEF PendingKeepsAwake
<1>1. PICK p \in Item : Served(th, pc[p]) /\ pc[p] # "end"
  <2>1. call[th][i] \in {1, 2}
    BY DEF Waiting, Shapes
  <2>2. /\ Slot[NewService] = Group /\ Slot["M"] = Item
        /\ \A g \in Group : Owner(g) \in Item
    BY Groups DEF Waiting, Shapes
  <2>3. CASE call[th][i] = 1
    <3>1. th = NewService /\ pc[Owner(i)] = "asked"
      BY <2>3 DEF Waiting, Requests, Awaited
    <3>2. Owner(i) \in Item /\ Served(th, pc[Owner(i)])
      BY <2>2, <3>1 DEF Served, InNew
    <3> QED BY <3>1, <3>2
  <2>4. CASE call[th][i] = 2
    <3>1. th = "M" /\ pc[i] = "deleting"
      BY <2>4 DEF Waiting, Requests, Awaited
    <3> QED BY <2>2, <3>1 DEF Served
  <2> QED BY <2>1, <2>3, <2>4
<1>2. main = "run" /\ signal[th] = Cardinality(Busy(th))
  BY <1>1 DEF Waiting, Signals
<1>3. Cardinality(Busy(th)) # 0
  <2>1. IsFiniteSet(Busy(th)) /\ Busy(th) # {}
    BY <1>1, Groups, FS_Subset DEF Waiting, Shapes, Busy
  <2> QED BY <2>1, FS_EmptySet
<1> QED BY <1>2, <1>3 DEF Waiting, Signals, Halt

\* The values stay in their types; in particular a signal is never below Exit
\* nor above the number of items, and no thread looks past its table.
THEOREM TypesAlwaysOK == Spec => []TypeOK
BY WaitingAlways, WaitingTypes, PTL

\* No request is left to a thread that sleeps or has left: on the device the
\* signal is raised before a request is written and lowered after its answer.
THEOREM PendingAlwaysAwake == Spec => []PendingKeepsAwake
BY WaitingAlways, WaitingKeepsAwake, PTL

-----------------------------------------------------------------------------
(* The third invariant, for kernels in which no item deletes before the    *)
(* counter of its tile is stored: B says which block each group was given. *)

Answering(th, i) == svc[th] \in {"reply", "reset"} /\ at[th] = i
Replying(th, i) == svc[th] = "reply" /\ at[th] = i

\* An item at l with the pointer b has skipped new.
Void(l, b) == ~Shared /\ l \notin InNew /\ b = 0

\* The host has allocated for g.
Given(g) == /\ ~Void(pc[Owner(g)], ptr[Owner(g)])
            /\ \/ pc[Owner(g)] \notin {"new", "in", "asked"}
               \/ /\ pc[Owner(g)] = "asked"
                  /\ call[NewService][g] = 0 \/ Answering(NewService, g)

\* The delete of q has been served.
Gone(q) == \/ pc[q] = "end"
           \/ pc[q] = "deleting" /\ (call["M"][q] # 2 \/ Answering("M", q))
Rest(g) == {q \in Mem(g) : ~Gone(q)}
InUse(g) == Given(g) /\ Rest(g) # {}
Counted(g) == pc[Owner(g)] \notin {"new", "in", "asked", "answered", "took"}

\* The block of g is on its way to g's items: in the thread that allocated it,
\* then in the table.
OnItsWay(B) == \A g \in Group : Given(g) =>
    /\ B[g] \in Block
    /\ pc[Owner(g)] = "asked" /\ Replying(NewService, g) => result[NewService] = B[g]
    /\ (Shared \/ pc[Owner(g)] \in {"asked", "answered"}) /\ ~Replying(NewService, g) =>
          arg[NewService][g] = B[g]

TakenOnce(B) == \A p \in Item : pc[p] \notin {"new", "in", "asked", "answered"} =>
    Void(pc[p], ptr[p]) \/ (Given(NewSlot(p)) /\ ptr[p] = B[NewSlot(p)])

DeletedLast == \A p \in Item : pc[p] \in {"delete", "deleting", "end"} =>
    \A q \in Mem(NewSlot(p)) : pc[q] \notin InNew

Asked == \A p \in Item : call["M"][p] = 2 /\ ~Answering("M", p) => arg["M"][p] = ptr[p]

OneBlockEach(B) ==
    /\ live = {B[g] : g \in {h \in Group : InUse(h)}}
    /\ \A g, h \in Group : InUse(g) /\ InUse(h) /\ g # h => B[g] # B[h]
    /\ \A g \in Group : InUse(g) /\ Counted(g) => counter[B[g]] = Cardinality(Rest(g))

Placed(B) == OnItsWay(B) /\ TakenOnce(B) /\ OneBlockEach(B)

Blocks == /\ DeletedLast /\ Asked
          /\ \E B \in [Group -> Block \cup {0}] : Placed(B)

\* The parts in the next state, when the kernel is the same.
LEMMA NextParts ==
  ASSUME kernel' = kernel
  PROVE  /\ \A th, i : /\ Answering(th, i)' <=> svc'[th] \in {"reply", "reset"} /\ at'[th] = i
                       /\ Replying(th, i)' <=> svc'[th] = "reply" /\ at'[th] = i
         /\ \A g : Given(g)' <=>
               /\ ~Void(pc'[Owner(g)], ptr'[Owner(g)])
               /\ \/ pc'[Owner(g)] \notin {"new", "in", "asked"}
                  \/ /\ pc'[Owner(g)] = "asked"
                     /\ call'[NewService][g] = 0 \/ Answering(NewService, g)'
         /\ \A q : Gone(q)' <=> \/ pc'[q] = "end"
                                \/ pc'[q] = "deleting" /\ (call'["M"][q] # 2 \/ Answering("M", q)')
         /\ \A g : Rest(g)' = {q \in Mem(g) : ~(Gone(q)')}
         /\ \A g : InUse(g)' <=> Given(g)' /\ Rest(g)' # {}
         /\ \A g : Counted(g)' <=> pc'[Owner(g)] \notin {"new", "in", "asked", "answered", "took"}
<1>1. NewService' = NewService /\ Shared' = Shared
      /\ \A p : Owner(p)' = Owner(p) /\ Mem(p)' = Mem(p)
  BY SameKernel
<1>2. \A th, i : /\ Answering(th, i)' <=> svc'[th] \in {"reply", "reset"} /\ at'[th] = i
                 /\ Replying(th, i)' <=> svc'[th] = "reply" /\ at'[th] = i
  BY DEF Answering, Replying
<1>3. \A g : Given(g)' <=>
         /\ ~Void(pc'[Owner(g)], ptr'[Owner(g)])
         /\ \/ pc'[Owner(g)] \notin {"new", "in", "asked"}
            \/ /\ pc'[Owner(g)] = "asked"
               /\ call'[NewService][g] = 0 \/ Answering(NewService, g)'
  BY <1>1 DEF Given, Void
<1>4. \A q : Gone(q)' <=> \/ pc'[q] = "end"
                          \/ pc'[q] = "deleting" /\ (call'["M"][q] # 2 \/ Answering("M", q)')
  BY DEF Gone
<1>5. \A g : Rest(g)' = {q \in Mem(g) : ~(Gone(q)')}
  BY <1>1 DEF Rest
<1>6. \A g : InUse(g)' <=> Given(g)' /\ Rest(g)' # {}
  BY DEF InUse
<1>7. \A g : Counted(g)' <=> pc'[Owner(g)] \notin {"new", "in", "asked", "answered", "took"}
  BY <1>1 DEF Counted
<1> QED BY <1>2, <1>3, <1>4, <1>5, <1>6, <1>7

\* What the steps of this invariant use of the others, and of the groups.
LEMMA BlockFacts ==
  ASSUME Waiting
  PROVE  /\ NewService \in Service /\ "M" \in Service /\ Slot[NewService] = Group
         /\ Slot["M"] = Item /\ (NewService = "M" => ~Shared)
         /\ \A p \in Item : NewSlot(p) \in Group /\ p \in Mem(NewSlot(p))
         /\ \A g \in Group : /\ Owner(g) \in Item /\ NewSlot(Owner(g)) = g
                             /\ Owner(g) \in Mem(g)
                             /\ \A q \in Mem(g) : q \in Item /\ NewSlot(q) = g
         /\ ~Shared => Group = Item /\ \A p \in Item : NewSlot(p) = p /\ Owner(p) = p
         /\ \A g \in Group : Answering(NewService, g) /\ NewService # "M" =>
               pc[Owner(g)] = "asked"
         /\ \A g \in Group : Answering(NewService, g) => pc[Owner(g)] \in {"asked", "deleting"}
         /\ \A q \in Item : Answering("M", q) => pc[q] \in {"asked", "deleting"}
         /\ \A q \in Item : call["M"][q] = 2 => pc[q] = "deleting"
<1>1. /\ NewService \in Service /\ "M" \in Service /\ Slot[NewService] = Group
      /\ Slot["M"] = Item /\ (NewService = "M" => ~Shared) /\ (NewService # "M" => Shared)
  BY Groups DEF Waiting, Shapes, NewService, Service
<1>2. /\ \A p \in Item : NewSlot(p) \in Group /\ p \in Mem(NewSlot(p))
      /\ \A g \in Group : /\ Owner(g) \in Item /\ NewSlot(Owner(g)) = g
                          /\ Owner(g) \in Mem(g)
                          /\ \A q \in Mem(g) : q \in Item /\ NewSlot(q) = g
  BY Groups DEF Waiting, Shapes, Mem
<1>3. ~Shared => Group = Item /\ \A p \in Item : NewSlot(p) = p /\ Owner(p) = p
  BY Groups DEF Waiting, Shapes
<1>4. \A th \in Service : \A i \in Slot[th] :
         Answering(th, i) => call[th][i] \in {1, 2}
  <2> SUFFICES ASSUME NEW th \in Service, NEW i \in Slot[th], Answering(th, i)
               PROVE  call[th][i] \in {1, 2}
    OBVIOUS
  <2>1. call[th][i] # 0
    BY DEF Waiting, Requests, Attended, Answering
  <2>2. call[th] \in [Slot[th] -> 0 .. 2]
    BY DEF Waiting, Shapes
  <2> QED BY <2>1, <2>2
<1>5. \A th \in Service : \A i \in Slot[th] :
         /\ call[th][i] = 1 => th = NewService /\ pc[Owner(i)] = "asked"
         /\ call[th][i] = 2 => th = "M" /\ pc[i] = "deleting"
  BY DEF Waiting, Requests, Awaited
<1>6. \A g \in Group : Answering(NewService, g) =>
         \/ pc[Owner(g)] = "asked"
         \/ NewService = "M" /\ pc[g] = "deleting"
  BY <1>1, <1>4, <1>5
<1>7. \A g \in Group : Answering(NewService, g) /\ NewService # "M" => pc[Owner(g)] = "asked"
  BY <1>6
<1>8. \A g \in Group : Answering(NewService, g) => pc[Owner(g)] \in {"asked", "deleting"}
  BY <1>1, <1>3, <1>6
<1>9. \A q \in Item : Answering("M", q) => pc[q] \in {"asked", "deleting"}
  <2> SUFFICES ASSUME NEW q \in Item, Answering("M", q), pc[q] # "deleting"
               PROVE  pc[q] = "asked"
    OBVIOUS
  <2>1. call["M"][q] = 1
    BY <1>1, <1>4, <1>5
  <2>2. NewService = "M" /\ pc[Owner(q)] = "asked"
    BY <1>1, <1>5, <2>1
  <2> QED BY <1>1, <1>3, <2>2
<1>10. \A q \in Item : call["M"][q] = 2 => pc[q] = "deleting"
  BY <1>1, <1>5
<1> QED BY <1>1, <1>2, <1>3, <1>7, <1>8, <1>9, <1>10

\* While the owner of a group is in new, no delete of the group is served.
LEMMA RestIsAll ==
  ASSUME Waiting, DeletedLast, NEW g \in Group, pc[Owner(g)] \in InNew
  PROVE  Rest(g) = Mem(g) /\ Cardinality(Rest(g)) = Shares /\ Rest(g) # {}
<1>1. \A q \in Mem(g) : ~Gone(q)
  BY BlockFacts DEF DeletedLast, Gone
<1>2. Rest(g) = Mem(g)
  BY <1>1 DEF Rest
<1>3. Cardinality(Mem(g)) = Shares
  BY Groups DEF Waiting, Shapes
<1> QED BY <1>2, <1>3, BlockFacts

\* Blocks in the next state, in terms of its variables.
LEMMA NextBlocks ==
  ASSUME kernel' = kernel, NEW B \in [Group -> Block \cup {0}],
         \A g \in Group : Given(g)' =>
            /\ B[g] \in Block
            /\ pc'[Owner(g)] = "asked" /\ Replying(NewService, g)' => result'[NewService] = B[g]
            /\ (Shared \/ pc'[Owner(g)] \in {"asked", "answered"})
               /\ ~(Replying(NewService, g)') => arg'[NewService][g] = B[g],
         \A p \in Item : pc'[p] \notin {"new", "in", "asked", "answered"} =>
            Void(pc'[p], ptr'[p]) \/ (Given(NewSlot(p))' /\ ptr'[p] = B[NewSlot(p)]),
         \A p \in Item : pc'[p] \in {"delete", "deleting", "end"} =>
            \A q \in Mem(NewSlot(p)) : pc'[q] \notin InNew,
         \A p \in Item : call'["M"][p] = 2 /\ ~(Answering("M", p)') => arg'["M"][p] = ptr'[p],
         OneBlockEach(B)'
  PROVE  Blocks'
<1>1. /\ Item' = Item /\ NewService' = NewService /\ Group' = Group /\ Shared' = Shared
      /\ \A p : NewSlot(p)' = NewSlot(p) /\ Owner(p)' = Owner(p) /\ Mem(p)' = Mem(p)
  BY SameKernel
<1>2. \A g : Replying(NewService, g)' <=> svc'[NewService] = "reply" /\ at'[NewService] = g
  BY <1>1 DEF Replying
<1>3. OnItsWay(B)'
  BY <1>1 DEF OnItsWay
<1>4. TakenOnce(B)'
  <2>1. \A p : Void(pc[p], ptr[p])' <=> Void(pc'[p], ptr'[p])
    BY <1>1 DEF Void
  <2>2. \A p \in Item' : pc'[p] \notin {"new", "in", "asked", "answered"} =>
           Void(pc[p], ptr[p])' \/ (Given(NewSlot(p))' /\ ptr'[p] = B[NewSlot(p)'])
    BY <1>1, <2>1
  <2> QED BY <2>2 DEF TakenOnce
<1>5. DeletedLast' /\ Asked'
  BY <1>1 DEF DeletedLast, Asked
<1>6. Placed(B)'
  BY <1>3, <1>4 DEF Placed
<1>7. B \in [Group' -> Block \cup {0}]
  BY <1>1
<1> QED BY <1>5, <1>6, <1>7 DEF Blocks

\* The heap's part, when neither the heap nor who uses a block changes.
LEMMA HeapSame ==
  ASSUME kernel' = kernel, UNCHANGED heap, NEW B, OneBlockEach(B),
         \A g \in Group : Given(g)' <=> Given(g),
         \A g \in Group : Counted(g)' => Counted(g),
         \A q \in Item : Gone(q)' <=> Gone(q)
  PROVE  OneBlockEach(B)'
<1>1. Group' = Group /\ \A g : Rest(g)' = Rest(g)
  BY SameKernel, NextParts DEF Rest, Mem
<1>2. \A g \in Group : InUse(g)' <=> InUse(g)
  BY <1>1, NextParts DEF InUse
<1>3. live' = live /\ counter' = counter
  BY DEF heap
<1>4. {h \in Group' : InUse(h)'} = {h \in Group : InUse(h)}
  BY <1>1, <1>2
<1>5. live' = {B[g] : g \in {h \in Group' : InUse(h)'}}
  BY <1>3, <1>4 DEF OneBlockEach
<1>6. \A g, h \in Group' : InUse(g)' /\ InUse(h)' /\ g # h => B[g] # B[h]
  BY <1>1, <1>2 DEF OneBlockEach
<1>7. \A g \in Group' : InUse(g)' /\ Counted(g)' => counter'[B[g]] = Cardinality(Rest(g)')
  BY <1>1, <1>2, <1>3 DEF OneBlockEach
<1> QED BY <1>5, <1>6, <1>7 DEF OneBlockEach

\* An item goes on to another label, and neither the tables nor the service
\* threads change: what is left to show of Blocks.
LEMMA BlocksOfMove ==
  ASSUME Waiting, kernel' = kernel, UNCHANGED <<tables, threads>>, DeletedLast, Asked,
         NEW B \in [Group -> Block \cup {0}], Placed(B),
         NEW p \in Item, NEW l, pc' = [pc EXCEPT ![p] = l],
         \A q \in Item : q # p => ptr'[q] = ptr[q],
         ptr' = ptr \/ pc[p] # "deleting",
         \A g \in Group : Given(g)' <=> Given(g),
         l # "asked", l = "answered" => pc[p] = "asked",
         l \in InNew => pc[p] \in InNew,
         l \notin {"new", "in", "asked", "answered"} =>
            Void(l, ptr'[p]) \/ (Given(NewSlot(p)) /\ ptr'[p] = B[NewSlot(p)]),
         l \in {"delete", "deleting", "end"} =>
            \A q \in Mem(NewSlot(p)) : q = p \/ pc[q] \notin InNew,
         OneBlockEach(B)'
  PROVE  Blocks'
<1>1. \A q \in Item : pc'[q] = IF q = p THEN l ELSE pc[q]
  BY DEF Waiting, Shapes
<1>2. UNCHANGED <<call, arg, svc, at, result>>
  BY DEF tables, threads
<1>3. \A th, i : (Answering(th, i)' <=> Answering(th, i)) /\ (Replying(th, i)' <=> Replying(th, i))
  BY <1>2 DEF Answering, Replying
<1>4. \A g \in Group : Given(g)' =>
         /\ B[g] \in Block
         /\ pc'[Owner(g)] = "asked" /\ Replying(NewService, g)' => result'[NewService] = B[g]
         /\ (Shared \/ pc'[Owner(g)] \in {"asked", "answered"})
            /\ ~(Replying(NewService, g)') => arg'[NewService][g] = B[g]
  <2> SUFFICES ASSUME NEW g \in Group, Given(g)
               PROVE  /\ B[g] \in Block
                      /\ pc'[Owner(g)] = "asked" /\ Replying(NewService, g)' =>
                            result'[NewService] = B[g]
                      /\ (Shared \/ pc'[Owner(g)] \in {"asked", "answered"})
                         /\ ~(Replying(NewService, g)') => arg'[NewService][g] = B[g]
    OBVIOUS
  <2>1. /\ B[g] \in Block
        /\ pc[Owner(g)] = "asked" /\ Replying(NewService, g) => result[NewService] = B[g]
        /\ (Shared \/ pc[Owner(g)] \in {"asked", "answered"}) /\ ~Replying(NewService, g) =>
              arg[NewService][g] = B[g]
    BY DEF Placed, OnItsWay
  <2>2. /\ pc'[Owner(g)] \in {"asked", "answered"} => pc[Owner(g)] \in {"asked", "answered"}
        /\ pc'[Owner(g)] = "asked" => pc[Owner(g)] = "asked"
    BY <1>1, BlockFacts
  <2>3. Replying(NewService, g)' <=> Replying(NewService, g)
    BY <1>2, SameKernel DEF Replying
  <2> QED BY <1>2, <2>1, <2>2, <2>3
<1>5. \A q \in Item : pc'[q] \notin {"new", "in", "asked", "answered"} =>
         Void(pc'[q], ptr'[q]) \/ (Given(NewSlot(q))' /\ ptr'[q] = B[NewSlot(q)])
  <2> SUFFICES ASSUME NEW q \in Item, pc'[q] \notin {"new", "in", "asked", "answered"},
                      ~Void(pc'[q], ptr'[q])
               PROVE  Given(NewSlot(q))' /\ ptr'[q] = B[NewSlot(q)]
    OBVIOUS
  <2>1. Given(NewSlot(q)) /\ ptr'[q] = B[NewSlot(q)]
    <3>1. CASE q = p
      BY <1>1, <3>1
    <3>2. CASE q # p
      BY <1>1, <3>2 DEF Placed, TakenOnce
    <3> QED BY <3>1, <3>2
  <2>2. Given(NewSlot(q))' <=> Given(NewSlot(q))
    <3>1. PICK g \in Group : g = NewSlot(q)
      BY BlockFacts
    <3>2. NewSlot(q)' = g
      BY <3>1, SameKernel
    <3>3. Given(NewSlot(q))' <=> Given(g)'
      BY <3>2, SameKernel DEF Given
    <3> QED BY <3>1, <3>3
  <2> QED BY <2>1, <2>2
<1>6. \A x \in Item : pc'[x] \in {"delete", "deleting", "end"} =>
         \A q \in Mem(NewSlot(x)) : pc'[q] \notin InNew
  <2> SUFFICES ASSUME NEW x \in Item, pc'[x] \in {"delete", "deleting", "end"},
                      NEW q \in Mem(NewSlot(x))
               PROVE  pc'[q] \notin InNew
    OBVIOUS
  <2>1. q \in Item
    BY BlockFacts
  <2>2. CASE x = p
    <3>1. l \notin InNew
      BY <1>1, <2>2 DEF InNew
    <3> QED BY <1>1, <2>1, <2>2, <3>1
  <2>3. CASE x # p
    BY <1>1, <2>1, <2>3 DEF DeletedLast
  <2> QED BY <2>2, <2>3
<1>7. \A q \in Item : call'["M"][q] = 2 /\ ~(Answering("M", q)') => arg'["M"][q] = ptr'[q]
  <2> SUFFICES ASSUME NEW q \in Item, call["M"][q] = 2, ~Answering("M", q)
               PROVE  arg["M"][q] = ptr'[q]
    BY <1>2, <1>3
  <2>1. arg["M"][q] = ptr[q] /\ pc[q] = "deleting"
    BY BlockFacts DEF Asked
  <2> QED BY <2>1
<1> QED BY <1>4, <1>5, <1>6, <1>7, NextBlocks

\* What an item does to its label gives no group a block and takes none away.
LEMMA GivenSame ==
  ASSUME Waiting, kernel' = kernel, UNCHANGED <<tables, threads>>,
         NEW p \in Item, NEW l, pc' = [pc EXCEPT ![p] = l],
         \A q \in Item : q # p => ptr'[q] = ptr[q],
         \/ pc[p] \in {"new", "in"} /\ l \in {"new", "in"}
         \/ pc[p] \in {"new", "in"} /\ Void(l, ptr'[p])
         \/ /\ pc[p] \notin {"new", "in", "asked"} /\ l \notin {"new", "in", "asked"}
            /\ Void(l, ptr'[p]) <=> Void(pc[p], ptr[p])
         \/ pc[p] = "asked" /\ l = "answered" /\ call[NewService][NewSlot(p)] = 0
         \/ p # Owner(NewSlot(p))
  PROVE  \A g \in Group : Given(g)' <=> Given(g)
<1>1. \A q \in Item : pc'[q] = IF q = p THEN l ELSE pc[q]
  BY DEF Waiting, Shapes
<1>2. UNCHANGED <<call, svc, at>> /\ NewService' = NewService
  BY SameKernel DEF tables, threads
<1> SUFFICES ASSUME NEW g \in Group PROVE Given(g)' <=> Given(g)
  OBVIOUS
<1>3. /\ Given(g)' <=> /\ ~Void(pc'[Owner(g)], ptr'[Owner(g)])
                       /\ \/ pc'[Owner(g)] \notin {"new", "in", "asked"}
                          \/ /\ pc'[Owner(g)] = "asked"
                             /\ call[NewService][g] = 0 \/ Answering(NewService, g)
      /\ Owner(g) \in Item /\ NewSlot(Owner(g)) = g
  BY <1>2, NextParts, BlockFacts DEF Answering
<1>4. CASE Owner(g) = p
  <2>1. pc[p] \in InNew => ~Void(pc[p], ptr[p])
    BY DEF Void
  <2>2. l \in InNew => ~Void(l, ptr'[p])
    BY DEF Void
  <2> QED BY <1>1, <1>3, <1>4, <2>1, <2>2 DEF Given, InNew
<1>5. CASE Owner(g) # p
  BY <1>1, <1>3, <1>5 DEF Given
<1> QED BY <1>4, <1>5

\* A delete is served between "delete" and "end", and by the host.
LEMMA GoneSame ==
  ASSUME Waiting, kernel' = kernel, UNCHANGED <<tables, threads>>,
         NEW p \in Item, NEW l, pc' = [pc EXCEPT ![p] = l],
         \/ pc[p] \notin {"deleting", "end"} /\ l \notin {"deleting", "end"}
         \/ pc[p] = "deleting" /\ l = "end" /\ call["M"][p] = 0
  PROVE  \A q \in Item : Gone(q)' <=> Gone(q)
<1>1. \A q \in Item : pc'[q] = IF q = p THEN l ELSE pc[q]
  BY DEF Waiting, Shapes
<1>2. UNCHANGED <<call, svc, at>>
  BY DEF tables, threads
<1> SUFFICES ASSUME NEW q \in Item PROVE Gone(q)' <=> Gone(q)
  OBVIOUS
<1>3. Gone(q)' <=> \/ pc'[q] = "end"
                   \/ pc'[q] = "deleting" /\ (call["M"][q] # 2 \/ Answering("M", q))
  BY <1>2, NextParts DEF Answering
<1> QED BY <1>1, <1>3 DEF Gone

\* An item that stores no counter makes no group counted.
LEMMA CountedSame ==
  ASSUME Waiting, kernel' = kernel, NEW p \in Item, NEW l, pc' = [pc EXCEPT ![p] = l],
         \/ l \in {"new", "in", "asked", "answered", "took"}
         \/ pc[p] \notin {"new", "in", "asked", "answered", "took"}
         \/ p # Owner(NewSlot(p))
  PROVE  \A g \in Group : Counted(g)' => Counted(g)
<1>1. \A q \in Item : pc'[q] = IF q = p THEN l ELSE pc[q]
  BY DEF Waiting, Shapes
<1> SUFFICES ASSUME NEW g \in Group, Counted(g)' PROVE Counted(g)
  OBVIOUS
<1>2. /\ pc'[Owner(g)] \notin {"new", "in", "asked", "answered", "took"}
      /\ Owner(g) \in Item /\ NewSlot(Owner(g)) = g
  BY NextParts, BlockFacts
<1> QED BY <1>1, <1>2 DEF Counted

\* The steps of items that touch neither the tables nor a counter.
LEMMA BlocksItem ==
  ASSUME Waiting, CounterFirst, Blocks, NEW p \in Item, kernel' = kernel,
         \/ SkipNew(p) \/ EnterNew(p) \/ Answered(p) \/ TakeBlock(p) \/ LeaveNew(p)
         \/ EnterDelete(p) \/ LeaveDelete(p)
  PROVE  Blocks'
<1>1. PICK B \in [Group -> Block \cup {0}] : Placed(B)
  BY DEF Blocks
<1>2. DeletedLast /\ Asked /\ OneBlockEach(B) /\ TakenOnce(B) /\ OnItsWay(B)
  BY <1>1 DEF Blocks, Placed
<1>3. /\ NewSlot(p) \in Group /\ p \in Mem(NewSlot(p))
      /\ \A q \in Mem(NewSlot(p)) : q \in Item /\ NewSlot(q) = NewSlot(p)
      /\ Owner(NewSlot(p)) \in Item
  BY BlockFacts
<1>10. CASE SkipNew(p)
  <2>1. /\ pc[p] = "new" /\ pc' = [pc EXCEPT ![p] = "owner"] /\ ~Shared
        /\ ptr' = [ptr EXCEPT ![p] = 0]
        /\ UNCHANGED <<tables, threads, heap>>
    BY <1>10 DEF SkipNew, Goto
  <2>2. ptr'[p] = 0 /\ \A q \in Item : q # p => ptr'[q] = ptr[q]
    BY <2>1 DEF Waiting, Shapes
  <2>3. Void("owner", ptr'[p])
    BY <2>1, <2>2 DEF Void, InNew
  <2>4. \A g \in Group : Given(g)' <=> Given(g)
    BY <2>1, <2>2, <2>3, GivenSame
  <2>5. \A q \in Item : Gone(q)' <=> Gone(q)
    BY <2>1, GoneSame
  <2>6. OneBlockEach(B)'
    <3>1. Group' = Group /\ \A g : Rest(g)' = Rest(g)
      BY <2>5, SameKernel, NextParts DEF Rest, Mem
    <3>2. \A g \in Group : InUse(g)' <=> InUse(g)
      BY <2>4, <3>1, NextParts DEF InUse
    <3>3. \A g \in Group : InUse(g) => Owner(g) # p
      BY <2>1, BlockFacts DEF InUse, Given
    <3>4. \A g \in Group : InUse(g) /\ Counted(g)' => Counted(g)
      <4> SUFFICES ASSUME NEW g \in Group, InUse(g), Counted(g)' PROVE Counted(g)
        OBVIOUS
      <4>1. Owner(g) # p /\ Owner(g) \in Item
        BY <3>3, BlockFacts
      <4>2. pc'[Owner(g)] = pc[Owner(g)]
        BY <2>1, <4>1 DEF Waiting, Shapes
      <4> QED BY <4>2, NextParts DEF Counted
    <3>5. live' = live /\ counter' = counter
      BY <2>1 DEF heap
    <3>6. {h \in Group' : InUse(h)'} = {h \in Group : InUse(h)}
      BY <3>1, <3>2
    <3>7. live' = {B[g] : g \in {h \in Group' : InUse(h)'}}
      BY <1>2, <3>5, <3>6 DEF OneBlockEach
    <3>8. \A g, h \in Group' : InUse(g)' /\ InUse(h)' /\ g # h => B[g] # B[h]
      BY <1>2, <3>1, <3>2 DEF OneBlockEach
    <3>9. \A g \in Group' : InUse(g)' /\ Counted(g)' => counter'[B[g]] = Cardinality(Rest(g)')
      BY <1>2, <3>1, <3>2, <3>4, <3>5 DEF OneBlockEach
    <3> QED BY <3>7, <3>8, <3>9 DEF OneBlockEach
  <2> QED BY <1>1, <1>2, <2>1, <2>2, <2>3, <2>4, <2>6, BlocksOfMove DEF InNew
<1>4. CASE EnterNew(p)
  <2>1. /\ pc[p] = "new" /\ pc' = [pc EXCEPT ![p] = "in"]
        /\ UNCHANGED <<ptr, tables, threads, heap>>
    BY <1>4 DEF EnterNew, Goto
  <2>2. /\ \A g \in Group : Given(g)' <=> Given(g)
        /\ \A q \in Item : Gone(q)' <=> Gone(q)
        /\ \A g \in Group : Counted(g)' => Counted(g)
    BY <2>1, GivenSame, GoneSame, CountedSame DEF Void, InNew
  <2>3. OneBlockEach(B)'
    BY <1>2, <2>1, <2>2, HeapSame
  <2> QED BY <1>1, <1>2, <2>1, <2>2, <2>3, BlocksOfMove DEF InNew
<1>5. CASE Answered(p)
  <2>1. /\ pc[p] = "asked" /\ pc' = [pc EXCEPT ![p] = "answered"]
        /\ call[NewService][NewSlot(p)] = 0
        /\ UNCHANGED <<ptr, tables, threads, heap>>
    BY <1>5 DEF Answered, Goto
  <2>2. /\ \A g \in Group : Given(g)' <=> Given(g)
        /\ \A q \in Item : Gone(q)' <=> Gone(q)
        /\ \A g \in Group : Counted(g)' => Counted(g)
    BY <2>1, GivenSame, GoneSame, CountedSame DEF Void, InNew
  <2>3. OneBlockEach(B)'
    BY <1>2, <2>1, <2>2, HeapSame
  <2> QED BY <1>1, <1>2, <2>1, <2>2, <2>3, BlocksOfMove DEF InNew
<1>6. CASE TakeBlock(p)
  <2>1. /\ pc' = [pc EXCEPT ![p] = "took"]
        /\ ptr' = [ptr EXCEPT ![p] = arg[NewService][NewSlot(p)]]
        /\ UNCHANGED <<tables, threads, heap>>
    BY <1>6 DEF TakeBlock, Goto
  <2>2. \/ pc[p] = "answered"
        \/ /\ Shared /\ pc[p] = "in" /\ p # Owner(NewSlot(p))
           /\ pc[Owner(NewSlot(p))] \notin {"new", "in", "asked"}
    BY <1>6 DEF TakeBlock, Past, Owner, NewSlot
  <2>11. \A q \in Item : q # p => ptr'[q] = ptr[q]
    BY <2>1 DEF Waiting, Shapes
  <2>3. /\ \A g \in Group : Given(g)' <=> Given(g)
        /\ \A q \in Item : Gone(q)' <=> Gone(q)
        /\ \A g \in Group : Counted(g)' => Counted(g)
    BY <2>1, <2>2, <2>11, GivenSame, GoneSame, CountedSame DEF Void, InNew
  <2>4. OneBlockEach(B)'
    BY <1>2, <2>1, <2>3, HeapSame
  <2>5. pc[p] = "answered" => p = Owner(NewSlot(p))
    BY DEF Waiting, Requests, OwnersAsk
  <2>6. Given(NewSlot(p)) /\ (Shared \/ pc[Owner(NewSlot(p))] = "answered")
    <3>1. ~Void(pc[Owner(NewSlot(p))], ptr[Owner(NewSlot(p))])
      BY <2>2, <2>5 DEF Void, InNew
    <3> QED BY <2>2, <2>5, <3>1 DEF Given
  <2>7. ~Replying(NewService, NewSlot(p))
    BY <1>3, <2>2, <2>5, BlockFacts DEF Replying, Answering
  <2>8. arg[NewService][NewSlot(p)] = B[NewSlot(p)]
    BY <1>2, <1>3, <2>6, <2>7 DEF OnItsWay
  <2>9. ptr'[p] = B[NewSlot(p)] /\ \A q \in Item : q # p => ptr'[q] = ptr[q]
    BY <2>1, <2>8 DEF Waiting, Shapes
  <2>10. pc[p] # "deleting" /\ pc[p] \in InNew
    BY <2>2 DEF InNew
  <2> QED BY <1>1, <1>2, <2>1, <2>3, <2>4, <2>6, <2>9, <2>10, BlocksOfMove DEF InNew
<1>7. CASE LeaveNew(p)
  <2>1. /\ pc[p] = "stored" /\ pc' = [pc EXCEPT ![p] = "owner"]
        /\ UNCHANGED <<ptr, tables, threads, heap>>
    BY <1>7 DEF LeaveNew, Goto
  <2>5. Given(NewSlot(p)) /\ ptr[p] = B[NewSlot(p)]
    BY <1>2, <2>1 DEF TakenOnce, Void, InNew
  <2>6. ptr[p] # 0
    BY <1>2, <1>3, <2>5, HeapAssumption DEF OnItsWay
  <2>2. /\ \A g \in Group : Given(g)' <=> Given(g)
        /\ \A q \in Item : Gone(q)' <=> Gone(q)
        /\ \A g \in Group : Counted(g)' => Counted(g)
    <3>1. Void("owner", ptr'[p]) <=> Void(pc[p], ptr[p])
      BY <2>1, <2>6 DEF Void, InNew
    <3> QED BY <2>1, <3>1, GivenSame, GoneSame, CountedSame
  <2>3. OneBlockEach(B)'
    BY <1>2, <2>1, <2>2, HeapSame
  <2>4. \A l : l \notin InNew =>
           Void(l, ptr'[p]) \/ (Given(NewSlot(p)) /\ ptr'[p] = B[NewSlot(p)])
    BY <1>2, <2>1 DEF TakenOnce, Void
  <2> QED BY <1>1, <1>2, <2>1, <2>2, <2>3, <2>4, BlocksOfMove DEF InNew
<1>8. CASE EnterDelete(p)
  <2>1. /\ pc[p] = "owner" /\ pc' = [pc EXCEPT ![p] = "delete"]
        /\ UNCHANGED <<ptr, tables, threads, heap>>
    BY <1>8 DEF EnterDelete, Goto
  <2>2. /\ \A g \in Group : Given(g)' <=> Given(g)
        /\ \A q \in Item : Gone(q)' <=> Gone(q)
        /\ \A g \in Group : Counted(g)' => Counted(g)
    BY <2>1, GivenSame, GoneSame, CountedSame DEF Void, InNew
  <2>3. OneBlockEach(B)'
    BY <1>2, <2>1, <2>2, HeapSame
  <2>4. \A l : l \notin InNew =>
           Void(l, ptr'[p]) \/ (Given(NewSlot(p)) /\ ptr'[p] = B[NewSlot(p)])
    BY <1>2, <2>1 DEF TakenOnce, Void
  <2>5. \A q \in Mem(NewSlot(p)) : q = p \/ pc[q] \notin InNew
    <3>1. CASE Shared
      <4>1. \A q \in Members(TileOf(p)) : pc[q] \notin InNew
        BY <1>8, <3>1 DEF EnterDelete, CounterFirst, Past
      <4> QED BY <3>1, <4>1 DEF Mem, Members, NewSlot
    <3>2. CASE ~Shared
      BY <3>2 DEF Mem, NewSlot, ItemSlot
    <3> QED BY <3>1, <3>2
  <2> QED BY <1>1, <1>2, <2>1, <2>2, <2>3, <2>4, <2>5, BlocksOfMove DEF InNew
<1>9. CASE LeaveDelete(p)
  <2>1. /\ pc[p] = "deleting" /\ pc' = [pc EXCEPT ![p] = "end"] /\ call["M"][p] = 0
        /\ UNCHANGED <<ptr, tables, threads, heap>>
    BY <1>9 DEF LeaveDelete, Goto, ItemSlot
  <2>2. /\ \A g \in Group : Given(g)' <=> Given(g)
        /\ \A q \in Item : Gone(q)' <=> Gone(q)
        /\ \A g \in Group : Counted(g)' => Counted(g)
    BY <2>1, GivenSame, GoneSame, CountedSame DEF Void, InNew
  <2>3. OneBlockEach(B)'
    BY <1>2, <2>1, <2>2, HeapSame
  <2>4. \A l : l \notin InNew =>
           Void(l, ptr'[p]) \/ (Given(NewSlot(p)) /\ ptr'[p] = B[NewSlot(p)])
    BY <1>2, <2>1 DEF TakenOnce, Void
  <2>5. \A q \in Mem(NewSlot(p)) : q = p \/ pc[q] \notin InNew
    BY <1>2, <2>1 DEF DeletedLast
  <2> QED BY <1>1, <1>2, <2>1, <2>2, <2>3, <2>4, <2>5, BlocksOfMove DEF InNew
<1> QED BY <1>4, <1>5, <1>6, <1>7, <1>8, <1>9, <1>10

\* The owner's store of the counter is seen by nobody before its group deletes.
LEMMA BlocksStoreHeader ==
  ASSUME Waiting, Blocks, NEW p \in Item, kernel' = kernel, StoreHeader(p)
  PROVE  Blocks'
<1>1. PICK B \in [Group -> Block \cup {0}] : Placed(B)
  BY DEF Blocks
<1>2. DeletedLast /\ Asked /\ OneBlockEach(B) /\ TakenOnce(B) /\ OnItsWay(B)
  BY <1>1 DEF Blocks, Placed
<1>3. NewSlot(p) \in Group /\ p \in Mem(NewSlot(p))
  BY BlockFacts
<1>4. /\ pc[p] = "took" /\ pc' = [pc EXCEPT ![p] = "stored"]
      /\ UNCHANGED <<ptr, tables, threads, live>>
  BY DEF StoreHeader, Goto
<1>5. /\ \A g \in Group : Given(g)' <=> Given(g)
      /\ \A q \in Item : Gone(q)' <=> Gone(q)
  BY <1>4, GivenSame, GoneSame DEF Void, InNew
<1>6. Given(NewSlot(p)) /\ ptr'[p] = B[NewSlot(p)] /\ ptr[p] = B[NewSlot(p)]
  BY <1>2, <1>4 DEF TakenOnce, Void, InNew
<1>7. OneBlockEach(B)'
  <2>1. CASE p # Owner(NewSlot(p))
    <3>1. Shared /\ p # Leader(TileOf(p))
      BY <2>1 DEF Owner, NewSlot, ItemSlot
    <3>2. UNCHANGED heap
      BY <1>4, <3>1 DEF StoreHeader, heap
    <3>3. \A g \in Group : Counted(g)' => Counted(g)
      BY <1>4, <2>1, CountedSame
    <3> QED BY <1>2, <1>5, <3>2, <3>3, HeapSame
  <2>2. CASE p = Owner(NewSlot(p))
    <3>1. PICK g \in Group : g = NewSlot(p)
      BY <1>3
    <3>2. counter' = [counter EXCEPT ![B[g]] = Shares]
      <4>1. ~Shared \/ p = Leader(TileOf(p))
        BY <2>2 DEF Owner, NewSlot
      <4> QED BY <1>6, <3>1, <4>1 DEF StoreHeader
    <3>3. Rest(g) = Mem(g) /\ Cardinality(Rest(g)) = Shares /\ Rest(g) # {} /\ InUse(g)
      BY <1>2, <1>4, <1>6, <2>2, <3>1, RestIsAll DEF InNew, InUse
    <3>4. B[g] \in Block
      BY <1>2, <1>6, <3>1 DEF OnItsWay
    <3>5. Group' = Group /\ \A h : Rest(h)' = Rest(h)
      BY <1>5, SameKernel, NextParts DEF Rest, Mem
    <3>6. \A h \in Group : InUse(h)' <=> InUse(h)
      BY <1>5, <3>5, NextParts DEF InUse
    <3>7. \A h \in Group : Counted(h)' => Counted(h) \/ h = g
      <4> SUFFICES ASSUME NEW h \in Group, Counted(h)', h # g PROVE Counted(h)
        OBVIOUS
      <4>1. Owner(h) # p /\ Owner(h) \in Item
        BY <3>1, BlockFacts
      <4>2. pc'[Owner(h)] = pc[Owner(h)]
        BY <1>4, <4>1 DEF Waiting, Shapes
      <4> QED BY <4>2, NextParts DEF Counted
    <3>8. ASSUME NEW h \in Group', InUse(h)', Counted(h)'
          PROVE  counter'[B[h]] = Cardinality(Rest(h)')
      <4>1. CASE h = g
        BY <3>2, <3>3, <3>4, <3>5, <4>1 DEF Waiting, Shapes
      <4>2. CASE h # g
        <5>1. InUse(h) /\ Counted(h) /\ h \in Group
          BY <3>5, <3>6, <3>7, <3>8, <4>2
        <5>2. B[h] # B[g] /\ counter[B[h]] = Cardinality(Rest(h))
          BY <1>2, <3>3, <4>2, <5>1 DEF OneBlockEach
        <5>3. B[h] \in Block
          BY <1>2, <5>1 DEF OnItsWay, InUse
        <5> QED BY <3>2, <3>5, <5>2, <5>3 DEF Waiting, Shapes
      <4> QED BY <4>1, <4>2
    <3>9. live' = {B[h] : h \in {i \in Group' : InUse(i)'}}
      <4>1. {i \in Group' : InUse(i)'} = {i \in Group : InUse(i)}
        BY <3>5, <3>6
      <4> QED BY <1>2, <1>4, <4>1 DEF OneBlockEach
    <3>10. \A h, i \in Group' : InUse(h)' /\ InUse(i)' /\ h # i => B[h] # B[i]
      BY <1>2, <3>5, <3>6 DEF OneBlockEach
    <3> QED BY <3>8, <3>9, <3>10 DEF OneBlockEach
  <2> QED BY <2>1, <2>2
<1> QED BY <1>1, <1>2, <1>4, <1>5, <1>6, <1>7, BlocksOfMove DEF InNew

\* A request for a block changes nothing that a group already has.
LEMMA BlocksAskNew ==
  ASSUME Waiting, Blocks, NEW p \in Item, kernel' = kernel, AskNew(p)
  PROVE  Blocks'
<1>1. PICK B \in [Group -> Block \cup {0}] : Placed(B)
  BY DEF Blocks
<1>2. DeletedLast /\ Asked /\ OneBlockEach(B) /\ TakenOnce(B) /\ OnItsWay(B)
  BY <1>1 DEF Blocks, Placed
<1>3. PICK g \in Group : g = NewSlot(p) /\ p = Owner(g)
  BY BlockFacts DEF AskNew, Owner, NewSlot, ItemSlot
<1>4. /\ pc[p] = "in" /\ pc' = [pc EXCEPT ![p] = "asked"]
      /\ Request(NewService, g, 1, 0)
      /\ UNCHANGED <<ptr, threads, heap>>
  BY <1>3 DEF AskNew, Goto
<1>5. /\ \A q \in Item : pc'[q] = IF q = p THEN "asked" ELSE pc[q]
      /\ \A th \in Service : \A i \in Slot[th] :
            /\ call'[th][i] = IF th = NewService /\ i = g THEN 1 ELSE call[th][i]
            /\ arg'[th][i] = IF th = NewService /\ i = g THEN 0 ELSE arg[th][i]
  BY <1>3, <1>4 DEF Waiting, Shapes, Request
<1>6. \A th, i : (Answering(th, i)' <=> Answering(th, i)) /\ (Replying(th, i)' <=> Replying(th, i))
  BY <1>4 DEF Answering, Replying, threads
<1>7. ~Given(g) /\ ~Answering(NewService, g)
  BY <1>3, <1>4, BlockFacts DEF Given
<1>8. \A h \in Group : (Given(h)' <=> Given(h)) /\ (h # g => Owner(h) # p)
  <2> SUFFICES ASSUME NEW h \in Group
               PROVE  (Given(h)' <=> Given(h)) /\ (h # g => Owner(h) # p)
    OBVIOUS
  <2>1. Owner(h) \in Item /\ NewSlot(Owner(h)) = h
    BY BlockFacts
  <2>2. Given(h)' <=> /\ ~Void(pc'[Owner(h)], ptr[Owner(h)])
                      /\ \/ pc'[Owner(h)] \notin {"new", "in", "asked"}
                         \/ /\ pc'[Owner(h)] = "asked"
                            /\ call'[NewService][h] = 0 \/ Answering(NewService, h)'
    BY <1>4, NextParts
  <2>3. Answering(NewService, h)' <=> Answering(NewService, h)
    BY <1>6, SameKernel DEF Answering
  <2>4. NewService \in Service /\ h \in Slot[NewService]
    BY BlockFacts
  <2>5. CASE h = g
    <3>1. pc'[Owner(h)] = "asked" /\ call'[NewService][h] = 1
      BY <1>3, <1>5, <2>4, <2>5
    <3>2. ~(Given(h)')
      BY <1>7, <2>2, <2>3, <2>5, <3>1
    <3> QED BY <1>7, <2>5, <3>2
  <2>6. CASE h # g
    BY <1>3, <1>5, <2>1, <2>2, <2>3, <2>4, <2>6 DEF Given
  <2> QED BY <2>5, <2>6
<1>9. \A q \in Item : Gone(q)' <=> Gone(q)
  <2> SUFFICES ASSUME NEW q \in Item PROVE Gone(q)' <=> Gone(q)
    OBVIOUS
  <2>1. Gone(q)' <=> \/ pc'[q] = "end"
                     \/ pc'[q] = "deleting" /\ (call'["M"][q] # 2 \/ Answering("M", q))
    BY <1>6, NextParts
  <2>2. "M" \in Service /\ q \in Slot["M"] /\ (NewService = "M" => g = p)
    BY <1>3, BlockFacts
  <2> QED BY <1>4, <1>5, <2>1, <2>2 DEF Gone
<1>10. OneBlockEach(B)'
  <2>1. \A h \in Group : Counted(h)' => Counted(h)
    BY <1>4, CountedSame
  <2> QED BY <1>2, <1>4, <1>8, <1>9, <2>1, HeapSame
<1>11. \A h \in Group : Given(h)' =>
          /\ B[h] \in Block
          /\ pc'[Owner(h)] = "asked" /\ Replying(NewService, h)' => result'[NewService] = B[h]
          /\ (Shared \/ pc'[Owner(h)] \in {"asked", "answered"})
             /\ ~(Replying(NewService, h)') => arg'[NewService][h] = B[h]
  <2> SUFFICES ASSUME NEW h \in Group, Given(h)
               PROVE  /\ B[h] \in Block
                      /\ pc'[Owner(h)] = "asked" /\ Replying(NewService, h)' =>
                            result'[NewService] = B[h]
                      /\ (Shared \/ pc'[Owner(h)] \in {"asked", "answered"})
                         /\ ~(Replying(NewService, h)') => arg'[NewService][h] = B[h]
    BY <1>8
  <2>1. h # g /\ Owner(h) # p /\ Owner(h) \in Item
    BY <1>7, <1>8, BlockFacts
  <2>2. pc'[Owner(h)] = pc[Owner(h)] /\ arg'[NewService][h] = arg[NewService][h]
        /\ result' = result
    <3>1. NewService \in Service /\ h \in Slot[NewService]
      BY BlockFacts
    <3> QED BY <1>4, <1>5, <2>1, <3>1 DEF threads
  <2>3. Replying(NewService, h)' <=> Replying(NewService, h)
    BY <1>6, SameKernel DEF Replying
  <2> QED BY <1>2, <2>2, <2>3 DEF OnItsWay
<1>12. \A q \in Item : pc'[q] \notin {"new", "in", "asked", "answered"} =>
          Void(pc'[q], ptr'[q]) \/ (Given(NewSlot(q))' /\ ptr'[q] = B[NewSlot(q)])
  <2> SUFFICES ASSUME NEW q \in Item, pc'[q] \notin {"new", "in", "asked", "answered"},
                      ~Void(pc'[q], ptr'[q])
               PROVE  Given(NewSlot(q))' /\ ptr'[q] = B[NewSlot(q)]
    OBVIOUS
  <2>1. pc[q] \notin {"new", "in", "asked", "answered"} /\ ~Void(pc[q], ptr[q])
    BY <1>4, <1>5
  <2>2. Given(NewSlot(q)) /\ ptr'[q] = B[NewSlot(q)]
    BY <1>2, <1>4, <2>1 DEF TakenOnce
  <2>3. PICK h \in Group : h = NewSlot(q)
    BY BlockFacts
  <2>4. Given(NewSlot(q))' <=> Given(h)'
    <3>1. NewSlot(q)' = h
      BY <2>3, SameKernel
    <3> QED BY <3>1, SameKernel DEF Given
  <2> QED BY <1>8, <2>2, <2>3, <2>4
<1>13. \A x \in Item : pc'[x] \in {"delete", "deleting", "end"} =>
          \A q \in Mem(NewSlot(x)) : pc'[q] \notin InNew
  <2> SUFFICES ASSUME NEW x \in Item, pc'[x] \in {"delete", "deleting", "end"},
                      NEW q \in Mem(NewSlot(x))
               PROVE  pc'[q] \notin InNew
    OBVIOUS
  <2>1. pc[q] \notin InNew /\ q \in Item
    BY <1>2, <1>5, BlockFacts DEF DeletedLast
  <2> QED BY <1>4, <1>5, <2>1 DEF InNew
<1>14. \A q \in Item : call'["M"][q] = 2 /\ ~(Answering("M", q)') => arg'["M"][q] = ptr'[q]
  <2> SUFFICES ASSUME NEW q \in Item, call'["M"][q] = 2, ~Answering("M", q)
               PROVE  arg'["M"][q] = ptr'[q]
    BY <1>6
  <2>1. "M" \in Service /\ q \in Slot["M"]
    BY BlockFacts
  <2> QED BY <1>2, <1>4, <1>5, <2>1 DEF Asked
<1> QED BY <1>10, <1>11, <1>12, <1>13, <1>14, NextBlocks

\* A request to delete carries the block that the item was given.
LEMMA BlocksAskDelete ==
  ASSUME Waiting, Blocks, NEW p \in Item, kernel' = kernel, AskDelete(p)
  PROVE  Blocks'
<1>1. PICK B \in [Group -> Block \cup {0}] : Placed(B)
  BY DEF Blocks
<1>2. DeletedLast /\ Asked /\ OneBlockEach(B) /\ TakenOnce(B) /\ OnItsWay(B)
  BY <1>1 DEF Blocks, Placed
<1>3. "M" \in Service /\ p \in Slot["M"]
  BY BlockFacts
<1>4. /\ pc[p] = "delete" /\ pc' = [pc EXCEPT ![p] = "deleting"]
      /\ Request("M", p, 2, ptr[p])
      /\ UNCHANGED <<ptr, threads, heap>>
  BY DEF AskDelete, Goto, ItemSlot
<1>5. /\ \A q \in Item : pc'[q] = IF q = p THEN "deleting" ELSE pc[q]
      /\ \A th \in Service : \A i \in Slot[th] :
            /\ call'[th][i] = IF th = "M" /\ i = p THEN 2 ELSE call[th][i]
            /\ arg'[th][i] = IF th = "M" /\ i = p THEN ptr[p] ELSE arg[th][i]
  BY <1>3, <1>4 DEF Waiting, Shapes, Request
<1>6. \A th, i : (Answering(th, i)' <=> Answering(th, i)) /\ (Replying(th, i)' <=> Replying(th, i))
  BY <1>4 DEF Answering, Replying, threads
<1>7. ~Answering("M", p)
  BY <1>4, BlockFacts
<1>8. ASSUME NEW h \in Group, NewService # "M" \/ h # p
      PROVE  /\ call'[NewService][h] = call[NewService][h]
             /\ arg'[NewService][h] = arg[NewService][h]
  BY <1>5, <1>8, BlockFacts
<1>9. ASSUME NEW h \in Group, Owner(h) # p
      PROVE  h # p \/ NewService # "M"
  BY <1>9, BlockFacts
<1>10. \A h \in Group : Given(h)' <=> Given(h)
  <2> SUFFICES ASSUME NEW h \in Group PROVE Given(h)' <=> Given(h)
    OBVIOUS
  <2>1. Given(h)' <=> /\ ~Void(pc'[Owner(h)], ptr[Owner(h)])
                      /\ \/ pc'[Owner(h)] \notin {"new", "in", "asked"}
                         \/ /\ pc'[Owner(h)] = "asked"
                            /\ call'[NewService][h] = 0 \/ Answering(NewService, h)'
    BY <1>4, NextParts
  <2>2. Answering(NewService, h)' <=> Answering(NewService, h)
    BY <1>6, SameKernel DEF Answering
  <2>3. Owner(h) \in Item
    BY BlockFacts
  <2>4. CASE Owner(h) = p
    <3>1. Void("deleting", ptr[p]) <=> Void("delete", ptr[p])
      BY DEF Void, InNew
    <3> QED BY <1>4, <1>5, <2>1, <2>4, <3>1 DEF Given
  <2>5. CASE Owner(h) # p
    <3>1. pc'[Owner(h)] = pc[Owner(h)] /\ call'[NewService][h] = call[NewService][h]
      BY <1>5, <1>8, <1>9, <2>3, <2>5
    <3> QED BY <2>1, <2>2, <3>1 DEF Given
  <2> QED BY <2>4, <2>5
<1>11. \A q \in Item : Gone(q)' <=> Gone(q)
  <2> SUFFICES ASSUME NEW q \in Item PROVE Gone(q)' <=> Gone(q)
    OBVIOUS
  <2>1. Gone(q)' <=> \/ pc'[q] = "end"
                     \/ pc'[q] = "deleting" /\ (call'["M"][q] # 2 \/ Answering("M", q))
    BY <1>6, NextParts
  <2>2. "M" \in Service /\ q \in Slot["M"]
    BY BlockFacts
  <2> QED BY <1>4, <1>5, <1>7, <2>1, <2>2 DEF Gone
<1>12. OneBlockEach(B)'
  <2>1. \A h \in Group : Counted(h)' => Counted(h)
    BY <1>4, CountedSame
  <2> QED BY <1>2, <1>4, <1>10, <1>11, <2>1, HeapSame
<1>13. \A h \in Group : Given(h)' =>
          /\ B[h] \in Block
          /\ pc'[Owner(h)] = "asked" /\ Replying(NewService, h)' => result'[NewService] = B[h]
          /\ (Shared \/ pc'[Owner(h)] \in {"asked", "answered"})
             /\ ~(Replying(NewService, h)') => arg'[NewService][h] = B[h]
  <2> SUFFICES ASSUME NEW h \in Group, Given(h)
               PROVE  /\ B[h] \in Block
                      /\ pc'[Owner(h)] = "asked" /\ Replying(NewService, h)' =>
                            result'[NewService] = B[h]
                      /\ (Shared \/ pc'[Owner(h)] \in {"asked", "answered"})
                         /\ ~(Replying(NewService, h)') => arg'[NewService][h] = B[h]
    BY <1>10
  <2>1. Owner(h) \in Item /\ result' = result
    BY <1>4, BlockFacts DEF threads
  <2>2. Replying(NewService, h)' <=> Replying(NewService, h)
    BY <1>6, SameKernel DEF Replying
  <2>3. /\ B[h] \in Block
        /\ pc[Owner(h)] = "asked" /\ Replying(NewService, h) => result[NewService] = B[h]
        /\ (Shared \/ pc[Owner(h)] \in {"asked", "answered"}) /\ ~Replying(NewService, h) =>
              arg[NewService][h] = B[h]
    BY <1>2 DEF OnItsWay
  <2>4. /\ pc'[Owner(h)] \in {"asked", "answered"} =>
              Owner(h) # p /\ pc[Owner(h)] \in {"asked", "answered"}
        /\ pc'[Owner(h)] = "asked" => pc[Owner(h)] = "asked"
    BY <1>5, <2>1
  <2>5. Shared => NewService # "M"
    BY BlockFacts
  <2>6. Shared \/ pc'[Owner(h)] \in {"asked", "answered"} =>
           arg'[NewService][h] = arg[NewService][h]
    BY <1>8, <1>9, <2>4, <2>5
  <2> QED BY <2>1, <2>2, <2>3, <2>4, <2>6
<1>14. \A q \in Item : pc'[q] \notin {"new", "in", "asked", "answered"} =>
          Void(pc'[q], ptr'[q]) \/ (Given(NewSlot(q))' /\ ptr'[q] = B[NewSlot(q)])
  <2> SUFFICES ASSUME NEW q \in Item, pc'[q] \notin {"new", "in", "asked", "answered"},
                      ~Void(pc'[q], ptr'[q])
               PROVE  Given(NewSlot(q))' /\ ptr'[q] = B[NewSlot(q)]
    OBVIOUS
  <2>1. pc[q] \notin {"new", "in", "asked", "answered"} /\ ~Void(pc[q], ptr[q])
    BY <1>4, <1>5 DEF Void, InNew
  <2>2. Given(NewSlot(q)) /\ ptr'[q] = B[NewSlot(q)]
    BY <1>2, <1>4, <2>1 DEF TakenOnce
  <2>3. PICK h \in Group : h = NewSlot(q)
    BY BlockFacts
  <2>4. Given(NewSlot(q))' <=> Given(h)'
    <3>1. NewSlot(q)' = h
      BY <2>3, SameKernel
    <3> QED BY <3>1, SameKernel DEF Given
  <2> QED BY <1>10, <2>2, <2>3, <2>4
<1>15. \A x \in Item : pc'[x] \in {"delete", "deleting", "end"} =>
          \A q \in Mem(NewSlot(x)) : pc'[q] \notin InNew
  <2> SUFFICES ASSUME NEW x \in Item, pc'[x] \in {"delete", "deleting", "end"},
                      NEW q \in Mem(NewSlot(x))
               PROVE  pc'[q] \notin InNew
    OBVIOUS
  <2>1. pc[q] \notin InNew /\ q \in Item
    BY <1>2, <1>4, <1>5, BlockFacts DEF DeletedLast
  <2> QED BY <1>5, <2>1 DEF InNew
<1>16. \A q \in Item : call'["M"][q] = 2 /\ ~(Answering("M", q)') => arg'["M"][q] = ptr'[q]
  <2> SUFFICES ASSUME NEW q \in Item, call'["M"][q] = 2, ~Answering("M", q)
               PROVE  arg'["M"][q] = ptr'[q]
    BY <1>6
  <2>1. "M" \in Service /\ q \in Slot["M"]
    BY BlockFacts
  <2> QED BY <1>2, <1>4, <1>5, <2>1 DEF Asked
<1> QED BY <1>12, <1>13, <1>14, <1>15, <1>16, NextBlocks

\* Steps of the host: no item moves.  C gives the blocks afterwards.
LEMMA BlocksOfService ==
  ASSUME Waiting, kernel' = kernel, UNCHANGED <<pc, ptr>>, DeletedLast, Asked,
         NEW B \in [Group -> Block \cup {0}], Placed(B),
         NEW C \in [Group -> Block \cup {0}],
         \A g \in Group : Given(g) => Given(g)' /\ C[g] = B[g],
         \A g \in Group : Given(g)' =>
            /\ C[g] \in Block
            /\ pc'[Owner(g)] = "asked" /\ Replying(NewService, g)' => result'[NewService] = C[g]
            /\ (Shared \/ pc[Owner(g)] \in {"asked", "answered"})
               /\ ~(Replying(NewService, g)') => arg'[NewService][g] = C[g],
         \A q \in Item : call'["M"][q] = 2 /\ ~(Answering("M", q)') =>
            call["M"][q] = 2 /\ ~Answering("M", q) /\ arg'["M"][q] = arg["M"][q],
         OneBlockEach(C)'
  PROVE  Blocks'
<1>1. \A q \in Item : pc'[q] \notin {"new", "in", "asked", "answered"} =>
         Void(pc'[q], ptr'[q]) \/ (Given(NewSlot(q))' /\ ptr'[q] = C[NewSlot(q)])
  <2> SUFFICES ASSUME NEW q \in Item, pc[q] \notin {"new", "in", "asked", "answered"},
                      ~Void(pc[q], ptr[q])
               PROVE  Given(NewSlot(q))' /\ ptr[q] = C[NewSlot(q)]
    OBVIOUS
  <2>1. Given(NewSlot(q)) /\ ptr[q] = B[NewSlot(q)]
    BY DEF Placed, TakenOnce
  <2>2. PICK h \in Group : h = NewSlot(q)
    BY BlockFacts
  <2>3. Given(NewSlot(q))' <=> Given(h)'
    <3>1. NewSlot(q)' = h
      BY <2>2, SameKernel
    <3> QED BY <3>1, SameKernel DEF Given
  <2> QED BY <2>1, <2>2, <2>3
<1>2. \A x \in Item : pc'[x] \in {"delete", "deleting", "end"} =>
         \A q \in Mem(NewSlot(x)) : pc'[q] \notin InNew
  BY DEF DeletedLast
<1>3. \A q \in Item : call'["M"][q] = 2 /\ ~(Answering("M", q)') => arg'["M"][q] = ptr'[q]
  BY DEF Asked
<1> QED BY <1>1, <1>2, <1>3, NextBlocks

\* Steps that neither serve nor answer a request.
LEMMA BlocksQuiet ==
  ASSUME Waiting, Blocks, kernel' = kernel,
         UNCHANGED <<pc, ptr, call, arg, result, heap>>,
         \A th \in Service : \A i \in Slot[th] :
            (Answering(th, i)' <=> Answering(th, i)) /\ (Replying(th, i)' <=> Replying(th, i))
  PROVE  Blocks'
<1>1. PICK B \in [Group -> Block \cup {0}] : Placed(B)
  BY DEF Blocks
<1>2. DeletedLast /\ Asked /\ OneBlockEach(B) /\ TakenOnce(B) /\ OnItsWay(B)
  BY <1>1 DEF Blocks, Placed
<1>3. \A g \in Group : /\ Replying(NewService, g)' <=> Replying(NewService, g)
                       /\ Answering(NewService, g)' <=> Answering(NewService, g)
  <2> SUFFICES ASSUME NEW g \in Group
               PROVE  /\ Replying(NewService, g)' <=> Replying(NewService, g)
                      /\ Answering(NewService, g)' <=> Answering(NewService, g)
    OBVIOUS
  <2>1. NewService' = NewService /\ NewService \in Service /\ g \in Slot[NewService]
    BY SameKernel, BlockFacts
  <2>2. PICK th \in Service : th = NewService
    BY <2>1
  <2>3. (Replying(th, g)' <=> Replying(th, g)) /\ (Answering(th, g)' <=> Answering(th, g))
    BY <2>1, <2>2
  <2> QED BY <2>1, <2>2, <2>3 DEF Replying, Answering
<1>4. \A g \in Group : Given(g)' <=> Given(g)
  BY <1>3, NextParts DEF Given
<1>5. \A q \in Item : Answering("M", q)' <=> Answering("M", q)
  BY BlockFacts
<1>6. \A q \in Item : Gone(q)' <=> Gone(q)
  BY <1>5, NextParts DEF Gone
<1>7. \A g \in Group : Counted(g)' => Counted(g)
  BY NextParts DEF Counted
<1>8. OneBlockEach(B)'
  BY <1>2, <1>4, <1>6, <1>7, HeapSame
<1>9. \A g \in Group : Given(g)' =>
         /\ B[g] \in Block
         /\ pc'[Owner(g)] = "asked" /\ Replying(NewService, g)' => result'[NewService] = B[g]
         /\ (Shared \/ pc[Owner(g)] \in {"asked", "answered"})
            /\ ~(Replying(NewService, g)') => arg'[NewService][g] = B[g]
  <2>1. result'[NewService] = result[NewService] /\ arg' = arg
    OBVIOUS
  <2> QED BY <1>2, <1>3, <1>4, <2>1 DEF OnItsWay
<1> QED BY <1>1, <1>2, <1>4, <1>5, <1>8, <1>9, BlocksOfService

\* The thread writes its result into the slot and keeps the request there.
LEMMA BlocksReply ==
  ASSUME Waiting, Blocks, NEW th \in Service, kernel' = kernel, Reply(th)
  PROVE  Blocks'
<1>1. PICK B \in [Group -> Block \cup {0}] : Placed(B)
  BY DEF Blocks
<1>2. DeletedLast /\ Asked /\ OneBlockEach(B) /\ TakenOnce(B) /\ OnItsWay(B)
  BY <1>1 DEF Blocks, Placed
<1>3. /\ svc[th] = "reply" /\ svc' = [svc EXCEPT ![th] = "reset"]
      /\ arg' = [arg EXCEPT ![th][at[th]] = result[th]]
      /\ UNCHANGED <<pc, ptr, call, at, result, heap>>
  BY DEF Reply, Serving, device
<1>4. /\ \A t \in Service : svc'[t] = IF t = th THEN "reset" ELSE svc[t]
      /\ \A t \in Service : \A i \in Slot[t] :
            arg'[t][i] = IF t = th /\ i = at[th] THEN result[th] ELSE arg[t][i]
  BY <1>3 DEF Waiting, Shapes
<1>5. \A t \in Service : \A i : /\ Answering(t, i)' <=> Answering(t, i)
                                /\ Replying(t, i)' <=> Replying(t, i) /\ t # th
  BY <1>3, <1>4 DEF Answering, Replying
<1>6. NewService \in Service /\ "M" \in Service /\ NewService' = NewService
  BY BlockFacts, SameKernel
<1>7. \A g \in Group : /\ Answering(NewService, g)' <=> Answering(NewService, g)
                       /\ Replying(NewService, g)' <=> Replying(NewService, g) /\ NewService # th
  <2>1. PICK t \in Service : t = NewService
    BY <1>6
  <2>2. \A g : /\ Answering(t, g)' <=> Answering(t, g)
               /\ Replying(t, g)' <=> Replying(t, g) /\ t # th
    BY <1>5
  <2> QED BY <1>6, <2>1, <2>2 DEF Answering, Replying
<1>8. \A g \in Group : Given(g)' <=> Given(g)
  BY <1>3, <1>7, NextParts DEF Given
<1>9. \A q \in Item : Gone(q)' <=> Gone(q)
  BY <1>3, <1>5, <1>6, NextParts DEF Gone
<1>10. OneBlockEach(B)'
  <2>1. \A g \in Group : Counted(g)' => Counted(g)
    BY <1>3, NextParts DEF Counted
  <2> QED BY <1>2, <1>3, <1>8, <1>9, <2>1, HeapSame
<1>11. \A g \in Group : Given(g)' =>
          /\ B[g] \in Block
          /\ pc'[Owner(g)] = "asked" /\ Replying(NewService, g)' => result'[NewService] = B[g]
          /\ (Shared \/ pc[Owner(g)] \in {"asked", "answered"})
             /\ ~(Replying(NewService, g)') => arg'[NewService][g] = B[g]
  <2> SUFFICES ASSUME NEW g \in Group, Given(g)
               PROVE  /\ B[g] \in Block
                      /\ pc'[Owner(g)] = "asked" /\ Replying(NewService, g)' =>
                            result'[NewService] = B[g]
                      /\ (Shared \/ pc[Owner(g)] \in {"asked", "answered"})
                         /\ ~(Replying(NewService, g)') => arg'[NewService][g] = B[g]
    BY <1>8
  <2>1. /\ B[g] \in Block
        /\ pc[Owner(g)] = "asked" /\ Replying(NewService, g) => result[NewService] = B[g]
        /\ (Shared \/ pc[Owner(g)] \in {"asked", "answered"}) /\ ~Replying(NewService, g) =>
              arg[NewService][g] = B[g]
    BY <1>2 DEF OnItsWay
  <2>2. pc'[Owner(g)] = "asked" /\ Replying(NewService, g)' => result'[NewService] = B[g]
    BY <1>3, <1>7, <2>1
  <2>3. g \in Slot[NewService]
    BY BlockFacts
  <2>4. CASE NewService = th /\ at[th] = g
    <3>1. Replying(NewService, g) /\ Answering(NewService, g)
      BY <1>3, <2>4 DEF Replying, Answering
    <3>2. Shared \/ pc[Owner(g)] \in {"asked", "answered"} => pc[Owner(g)] = "asked"
      BY <3>1, BlockFacts
    <3>3. arg'[NewService][g] = result[NewService]
      BY <1>4, <1>6, <2>3, <2>4
    <3> QED BY <2>1, <2>2, <3>1, <3>2, <3>3
  <2>5. CASE ~(NewService = th /\ at[th] = g)
    <3>1. arg'[NewService][g] = arg[NewService][g]
      BY <1>4, <1>6, <2>3, <2>5
    <3>2. Replying(NewService, g) => Replying(NewService, g)'
      BY <1>7, <2>5 DEF Replying
    <3> QED BY <2>1, <2>2, <3>1, <3>2
  <2> QED BY <2>4, <2>5
<1>12. \A q \in Item : call'["M"][q] = 2 /\ ~(Answering("M", q)') =>
          call["M"][q] = 2 /\ ~Answering("M", q) /\ arg'["M"][q] = arg["M"][q]
  <2> SUFFICES ASSUME NEW q \in Item, call["M"][q] = 2, ~Answering("M", q)
               PROVE  arg'["M"][q] = arg["M"][q]
    BY <1>3, <1>5, <1>6
  <2>1. ~(th = "M" /\ at[th] = q) /\ q \in Slot["M"]
    BY <1>3, BlockFacts DEF Answering
  <2> QED BY <1>4, <1>6, <2>1
<1> QED BY <1>1, <1>2, <1>3, <1>8, <1>10, <1>11, <1>12, BlocksOfService

\* The thread takes the request away: the item may see that.
LEMMA BlocksReset ==
  ASSUME Waiting, Blocks, NEW th \in Service, kernel' = kernel, Reset(th)
  PROVE  Blocks'
<1>1. PICK B \in [Group -> Block \cup {0}] : Placed(B)
  BY DEF Blocks
<1>2. DeletedLast /\ Asked /\ OneBlockEach(B) /\ TakenOnce(B) /\ OnItsWay(B)
  BY <1>1 DEF Blocks, Placed
<1>3. /\ svc[th] = "reset" /\ svc' = [svc EXCEPT ![th] = "scan"]
      /\ call' = [call EXCEPT ![th][at[th]] = 0]
      /\ at' = [at EXCEPT ![th] = @ + 1]
      /\ UNCHANGED <<pc, ptr, arg, result, heap>>
  BY DEF Reset, Serving, device
<1>4. /\ \A t \in Service : svc'[t] = IF t = th THEN "scan" ELSE svc[t]
      /\ \A t \in Service : t # th => at'[t] = at[t]
      /\ \A t \in Service : \A i \in Slot[t] :
            call'[t][i] = IF t = th /\ i = at[th] THEN 0 ELSE call[t][i]
  BY <1>3 DEF Waiting, Shapes
<1>5. \A t \in Service : \A i : /\ Answering(t, i)' <=> Answering(t, i) /\ t # th
                                /\ Replying(t, i)' <=> Replying(t, i)
                                /\ Answering(t, i) /\ t = th => i = at[th]
  BY <1>3, <1>4 DEF Answering, Replying
<1>6. NewService \in Service /\ "M" \in Service /\ NewService' = NewService
      /\ Slot[NewService] = Group /\ Slot["M"] = Item
  BY BlockFacts, SameKernel
<1>7. \A g \in Group : /\ Answering(NewService, g)' <=> Answering(NewService, g) /\ NewService # th
                       /\ Replying(NewService, g)' <=> Replying(NewService, g)
  <2>1. PICK t \in Service : t = NewService
    BY <1>6
  <2>2. \A g : /\ Answering(t, g)' <=> Answering(t, g) /\ t # th
               /\ Replying(t, g)' <=> Replying(t, g)
    BY <1>5
  <2> QED BY <1>6, <2>1, <2>2 DEF Answering, Replying
<1>8. \A g \in Group : Given(g)' <=> Given(g)
  <2> SUFFICES ASSUME NEW g \in Group PROVE Given(g)' <=> Given(g)
    OBVIOUS
  <2>1. Given(g)' <=> /\ ~Void(pc[Owner(g)], ptr[Owner(g)])
                      /\ \/ pc[Owner(g)] \notin {"new", "in", "asked"}
                         \/ /\ pc[Owner(g)] = "asked"
                            /\ call'[NewService][g] = 0 \/ Answering(NewService, g)'
    BY <1>3, NextParts
  <2>2. CASE NewService = th /\ at[th] = g
    <3>1. call'[NewService][g] = 0 /\ Answering(NewService, g)
      BY <1>3, <1>4, <1>6, <2>2 DEF Answering
    <3> QED BY <2>1, <3>1 DEF Given
  <2>3. CASE ~(NewService = th /\ at[th] = g)
    <3>1. call'[NewService][g] = call[NewService][g]
      BY <1>4, <1>6, <2>3
    <3>2. Answering(NewService, g)' <=> Answering(NewService, g)
      BY <1>7, <2>3 DEF Answering
    <3> QED BY <2>1, <3>1, <3>2 DEF Given
  <2> QED BY <2>2, <2>3
<1>9. \A q \in Item : Gone(q)' <=> Gone(q)
  <2> SUFFICES ASSUME NEW q \in Item PROVE Gone(q)' <=> Gone(q)
    OBVIOUS
  <2>1. Gone(q)' <=> \/ pc[q] = "end"
                     \/ pc[q] = "deleting" /\ (call'["M"][q] # 2 \/ Answering("M", q)')
    BY <1>3, NextParts
  <2>2. CASE "M" = th /\ at[th] = q
    <3>1. call'["M"][q] = 0 /\ Answering("M", q)
      BY <1>3, <1>4, <1>6, <2>2 DEF Answering
    <3> QED BY <2>1, <3>1 DEF Gone
  <2>3. CASE ~("M" = th /\ at[th] = q)
    <3>1. call'["M"][q] = call["M"][q]
      BY <1>4, <1>6, <2>3
    <3>2. Answering("M", q)' <=> Answering("M", q)
      BY <1>5, <1>6, <2>3
    <3> QED BY <2>1, <3>1, <3>2 DEF Gone
  <2> QED BY <2>2, <2>3
<1>10. OneBlockEach(B)'
  <2>1. \A g \in Group : Counted(g)' => Counted(g)
    BY <1>3, NextParts DEF Counted
  <2> QED BY <1>2, <1>3, <1>8, <1>9, <2>1, HeapSame
<1>11. \A g \in Group : Given(g)' =>
          /\ B[g] \in Block
          /\ pc'[Owner(g)] = "asked" /\ Replying(NewService, g)' => result'[NewService] = B[g]
          /\ (Shared \/ pc[Owner(g)] \in {"asked", "answered"})
             /\ ~(Replying(NewService, g)') => arg'[NewService][g] = B[g]
  <2>1. result'[NewService] = result[NewService] /\ arg' = arg /\ pc' = pc
    BY <1>3
  <2> QED BY <1>2, <1>7, <1>8, <2>1 DEF OnItsWay
<1>12. \A q \in Item : call'["M"][q] = 2 /\ ~(Answering("M", q)') =>
          call["M"][q] = 2 /\ ~Answering("M", q) /\ arg'["M"][q] = arg["M"][q]
  <2> SUFFICES ASSUME NEW q \in Item, call'["M"][q] = 2, ~(Answering("M", q)')
               PROVE  call["M"][q] = 2 /\ ~Answering("M", q)
    BY <1>3
  <2>1. ~(th = "M" /\ at[th] = q)
    BY <1>4, <1>6
  <2> QED BY <1>4, <1>5, <1>6, <2>1
<1> QED BY <1>1, <1>2, <1>3, <1>8, <1>10, <1>11, <1>12, BlocksOfService

\* A block that is not in use becomes that of the group that has asked.
LEMMA BlocksMalloc ==
  ASSUME Waiting, Blocks, NEW th \in Service, kernel' = kernel, Malloc(th)
  PROVE  Blocks'
<1>1. PICK B \in [Group -> Block \cup {0}] : Placed(B)
  BY DEF Blocks
<1>2. DeletedLast /\ Asked /\ OneBlockEach(B) /\ TakenOnce(B) /\ OnItsWay(B)
  BY <1>1 DEF Blocks, Placed
<1>3. PICK b \in Block \ live, n \in Garbage :
         /\ live' = live \cup {b} /\ counter' = [counter EXCEPT ![b] = n]
         /\ result' = [result EXCEPT ![th] = b]
  BY DEF Malloc
<1>4. /\ svc[th] = "scan" /\ svc' = [svc EXCEPT ![th] = "reply"]
      /\ at[th] <= Slots(th) /\ call[th][at[th]] = 1
      /\ UNCHANGED <<pc, ptr, call, arg, at>>
  BY DEF Malloc, Finding, Serving, device, tables
<1>5. PICK g \in Group : g = at[th] /\ th = NewService /\ pc[Owner(g)] = "asked"
                         /\ call[NewService][g] = 1
  <2>1. at[th] \in Slot[th]
    BY <1>4, Groups DEF Waiting, Shapes
  <2>2. th = NewService /\ pc[Owner(at[th])] = "asked"
    BY <1>4, <2>1 DEF Waiting, Requests, Awaited
  <2> QED BY <1>4, <2>1, <2>2, BlockFacts
<1>6. /\ \A t \in Service : svc'[t] = IF t = th THEN "reply" ELSE svc[t]
      /\ result'[NewService] = b /\ NewService' = NewService
      /\ NewService \in Service /\ "M" \in Service
  BY <1>3, <1>4, <1>5, BlockFacts, SameKernel DEF Waiting, Shapes
<1>7. \A h : /\ Answering(NewService, h)' <=> h = g
             /\ Replying(NewService, h)' <=> h = g
             /\ ~Answering(NewService, h) /\ ~Replying(NewService, h)
  BY <1>4, <1>5, <1>6 DEF Answering, Replying
<1>8. ~Given(g) /\ Given(g)' /\ \A h \in Group : h # g => (Given(h)' <=> Given(h))
  <2>1. ~Void(pc[Owner(g)], ptr[Owner(g)])
    BY <1>5 DEF Void, InNew
  <2> QED BY <1>4, <1>5, <1>7, <2>1, NextParts DEF Given
<1>9. \A q \in Item : pc[q] = "deleting" => (Answering("M", q)' <=> Answering("M", q))
  <2> SUFFICES ASSUME NEW q \in Item, pc[q] = "deleting"
               PROVE  Answering("M", q)' <=> Answering("M", q)
    OBVIOUS
  <2>1. CASE NewService = "M"
    <3>1. Owner(g) = g
      BY <2>1, BlockFacts
    <3> QED BY <1>4, <1>5, <1>6, <2>1, <3>1 DEF Answering
  <2>2. CASE NewService # "M"
    BY <1>4, <1>5, <1>6, <2>2 DEF Answering
  <2> QED BY <2>1, <2>2
<1>10. \A q \in Item : Gone(q)' <=> Gone(q)
  BY <1>4, <1>9, NextParts DEF Gone
<1> DEFINE C == [B EXCEPT ![g] = b]
<1>11. C \in [Group -> Block \cup {0}] /\ C[g] = b /\ \A h \in Group : h # g => C[h] = B[h]
  OBVIOUS
<1> HIDE DEF C
<1>12. OneBlockEach(C)'
  <2>1. Group' = Group /\ \A h : Rest(h)' = Rest(h)
    BY <1>10, SameKernel, NextParts DEF Rest, Mem
  <2>2. Rest(g) # {}
    BY <1>2, <1>5, RestIsAll DEF InNew
  <2>3. ~InUse(g) /\ InUse(g)' /\ \A h \in Group : h # g => (InUse(h)' <=> InUse(h))
    BY <1>8, <2>1, <2>2, NextParts DEF InUse
  <2>4. \A h \in Group : InUse(h) => B[h] \in live /\ B[h] # b /\ h # g /\ B[h] \in Block
    BY <1>2, <1>3, <2>3 DEF OneBlockEach, Waiting, Shapes
  <2>5. live' = {C[h] : h \in {i \in Group' : InUse(i)'}}
    BY <1>2, <1>3, <1>11, <2>1, <2>3 DEF OneBlockEach
  <2>6. \A h, i \in Group' : InUse(h)' /\ InUse(i)' /\ h # i => C[h] # C[i]
    BY <1>2, <1>11, <2>1, <2>3, <2>4 DEF OneBlockEach
  <2>7. ASSUME NEW h \in Group', InUse(h)', Counted(h)'
        PROVE  counter'[C[h]] = Cardinality(Rest(h)')
    <3>1. Counted(h) /\ h # g
      BY <1>4, <1>5, <2>7, NextParts DEF Counted
    <3>2. InUse(h) /\ C[h] = B[h] /\ h \in Group
      BY <1>11, <2>1, <2>3, <2>7, <3>1
    <3>3. counter[B[h]] = Cardinality(Rest(h)) /\ B[h] # b /\ B[h] \in Block
      BY <1>2, <2>4, <3>1, <3>2 DEF OneBlockEach
    <3> QED BY <1>3, <2>1, <3>2, <3>3 DEF Waiting, Shapes
  <2> QED BY <2>5, <2>6, <2>7 DEF OneBlockEach
<1>13. \A h \in Group : Given(h)' =>
          /\ C[h] \in Block
          /\ pc'[Owner(h)] = "asked" /\ Replying(NewService, h)' => result'[NewService] = C[h]
          /\ (Shared \/ pc[Owner(h)] \in {"asked", "answered"})
             /\ ~(Replying(NewService, h)') => arg'[NewService][h] = C[h]
  <2> SUFFICES ASSUME NEW h \in Group, Given(h)'
               PROVE  /\ C[h] \in Block
                      /\ pc'[Owner(h)] = "asked" /\ Replying(NewService, h)' =>
                            result'[NewService] = C[h]
                      /\ (Shared \/ pc[Owner(h)] \in {"asked", "answered"})
                         /\ ~(Replying(NewService, h)') => arg'[NewService][h] = C[h]
    OBVIOUS
  <2>1. CASE h = g
    BY <1>6, <1>7, <1>11, <2>1
  <2>2. CASE h # g
    <3>1. Given(h) /\ C[h] = B[h] /\ ~Replying(NewService, h) /\ ~(Replying(NewService, h)')
      BY <1>7, <1>8, <1>11, <2>2
    <3>2. arg'[NewService][h] = arg[NewService][h]
      BY <1>4
    <3> QED BY <1>2, <3>1, <3>2 DEF OnItsWay
  <2> QED BY <2>1, <2>2
<1>14. \A q \in Item : call'["M"][q] = 2 /\ ~(Answering("M", q)') =>
          call["M"][q] = 2 /\ ~Answering("M", q) /\ arg'["M"][q] = arg["M"][q]
  <2> SUFFICES ASSUME NEW q \in Item, call["M"][q] = 2, ~(Answering("M", q)')
               PROVE  ~Answering("M", q)
    BY <1>4
  <2>1. pc[q] = "deleting"
    BY BlockFacts
  <2> QED BY <1>9, <2>1
<1>15. \A h \in Group : Given(h) => Given(h)' /\ C[h] = B[h]
  BY <1>8, <1>11
<1> QED BY <1>1, <1>2, <1>4, <1>11, <1>12, <1>13, <1>14, <1>15, BlocksOfService

\* The served delete counts one item less; the last one frees the block.
LEMMA BlocksFree ==
  ASSUME Waiting, Blocks, kernel' = kernel, Free
  PROVE  Blocks'
<1>1. PICK B \in [Group -> Block \cup {0}] : Placed(B)
  BY DEF Blocks
<1>2. DeletedLast /\ Asked /\ OneBlockEach(B) /\ TakenOnce(B) /\ OnItsWay(B)
  BY <1>1 DEF Blocks, Placed
<1>3. /\ svc["M"] = "scan" /\ svc' = [svc EXCEPT !["M"] = "reply"]
      /\ at["M"] <= Slots("M") /\ call["M"][at["M"]] = 2
      /\ \E r : result' = [result EXCEPT !["M"] = r]
      /\ UNCHANGED <<pc, ptr, call, arg, at>>
  BY DEF Free, Finding, Serving, device, tables
<1>4. PICK p \in Item : p = at["M"] /\ pc[p] = "deleting" /\ call["M"][p] = 2
  <2>1. at["M"] \in Slot["M"] /\ Slot["M"] = Item
    BY <1>3, Groups, BlockFacts DEF Waiting, Shapes
  <2> QED BY <1>3, <2>1, BlockFacts
<1>5. PICK g \in Group : g = NewSlot(p) /\ p \in Mem(g)
  BY BlockFacts
<1>6. /\ \A t \in Service : svc'[t] = IF t = "M" THEN "reply" ELSE svc[t]
      /\ \A t \in Service : t # "M" => result'[t] = result[t]
      /\ NewService' = NewService /\ NewService \in Service /\ "M" \in Service
  BY <1>3, BlockFacts, SameKernel DEF Waiting, Shapes
<1>7. \A q : /\ Answering("M", q)' <=> q = p
             /\ ~Answering("M", q) /\ ~Replying("M", q)
  BY <1>3, <1>4, <1>6 DEF Answering, Replying
<1>8. /\ arg["M"][p] = ptr[p]
      /\ ~Void(pc[p], ptr[p]) => Given(g) /\ ptr[p] = B[g] /\ B[g] \in Block /\ B[g] # 0
      /\ Void(pc[p], ptr[p]) => ~Given(g) /\ ptr[p] = 0
  <2>1. arg["M"][p] = ptr[p]
    BY <1>2, <1>4, <1>7 DEF Asked
  <2>2. ASSUME ~Void(pc[p], ptr[p])
        PROVE  Given(g) /\ ptr[p] = B[g] /\ B[g] \in Block /\ B[g] # 0
    BY <1>2, <1>4, <1>5, <2>2, HeapAssumption DEF TakenOnce, OnItsWay
  <2>3. ASSUME Void(pc[p], ptr[p])
        PROVE  ~Given(g) /\ ptr[p] = 0
    BY <1>5, <2>3, BlockFacts DEF Void, Given
  <2> QED BY <2>1, <2>2, <2>3
<1>9. \A h \in Group : NewService = "M" =>
         (pc[Owner(h)] = "asked" => h # p)
  BY <1>4, BlockFacts
<1>10. \A h \in Group : Given(h)' <=> Given(h)
  <2> SUFFICES ASSUME NEW h \in Group PROVE Given(h)' <=> Given(h)
    OBVIOUS
  <2>1. Given(h)' <=> /\ ~Void(pc[Owner(h)], ptr[Owner(h)])
                      /\ \/ pc[Owner(h)] \notin {"new", "in", "asked"}
                         \/ /\ pc[Owner(h)] = "asked"
                            /\ call[NewService][h] = 0 \/ Answering(NewService, h)'
    BY <1>3, <1>6, NextParts
  <2>2. CASE NewService = "M"
    <3>1. Answering(NewService, h)' <=> h = p
      BY <1>3, <1>4, <1>6, <2>2 DEF Answering
    <3>2. ~Answering(NewService, h)
      BY <1>7, <2>2
    <3> QED BY <1>9, <2>1, <2>2, <3>1, <3>2 DEF Given
  <2>3. CASE NewService # "M"
    <3>1. Answering(NewService, h)' <=> Answering(NewService, h)
      BY <1>3, <1>6, <2>3 DEF Answering
    <3> QED BY <2>1, <3>1 DEF Given
  <2> QED BY <2>2, <2>3
<1>11. ~Gone(p) /\ Gone(p)' /\ \A q \in Item : q # p => (Gone(q)' <=> Gone(q))
  BY <1>3, <1>4, <1>7, NextParts DEF Gone
<1>12. OneBlockEach(B)'
  <2>1. Group' = Group /\ \A h : Rest(h)' = {q \in Mem(h) : ~(Gone(q)')}
    BY SameKernel, NextParts
  <2>2. Rest(g)' = Rest(g) \ {p} /\ p \in Rest(g)
    BY <1>5, <1>11, <2>1, BlockFacts DEF Rest
  <2>3. \A h \in Group : h # g => Rest(h)' = Rest(h)
    BY <1>5, <1>11, <2>1, BlockFacts DEF Rest
  <2>4. /\ IsFiniteSet(Rest(g)) /\ Cardinality(Rest(g)) \in Nat
        /\ Cardinality(Rest(g)') = Cardinality(Rest(g)) - 1
    <3>1. IsFiniteSet(Rest(g))
      BY Groups, FS_Subset DEF Waiting, Shapes, Rest
    <3> QED BY <2>2, <3>1, FS_RemoveElement, FS_CardinalityType
  <2>5. Cardinality(Rest(g)') = 0 <=> Rest(g)' = {}
    <3>1. IsFiniteSet(Rest(g) \ {p})
      BY <2>4, FS_RemoveElement
    <3> QED BY <2>2, <3>1, FS_EmptySet
  <2>14. CASE Void(pc[p], ptr[p])
    <3>1. UNCHANGED heap
      BY <1>4, <1>8, <2>14 DEF Free, heap
    <3>2. \A h \in Group : InUse(h)' <=> InUse(h)
      BY <1>8, <1>10, <2>3, <2>14, NextParts DEF InUse
    <3>3. \A h \in Group : InUse(h) => Rest(h)' = Rest(h)
      BY <1>8, <2>3, <2>14 DEF InUse
    <3>4. live' = live /\ counter' = counter
      BY <3>1 DEF heap
    <3>5. {h \in Group' : InUse(h)'} = {h \in Group : InUse(h)}
      BY <2>1, <3>2
    <3>6. live' = {B[h] : h \in {i \in Group' : InUse(i)'}}
      BY <1>2, <3>4, <3>5 DEF OneBlockEach
    <3>7. \A h, i \in Group' : InUse(h)' /\ InUse(i)' /\ h # i => B[h] # B[i]
      BY <1>2, <2>1, <3>2 DEF OneBlockEach
    <3>8. \A h \in Group : Counted(h)' <=> Counted(h)
      BY <1>3, NextParts DEF Counted
    <3>9. \A h \in Group' : InUse(h)' /\ Counted(h)' => counter'[B[h]] = Cardinality(Rest(h)')
      BY <1>2, <2>1, <3>2, <3>3, <3>4, <3>8 DEF OneBlockEach
    <3> QED BY <3>6, <3>7, <3>9 DEF OneBlockEach
  <2> SUFFICES ASSUME ~Void(pc[p], ptr[p]) PROVE OneBlockEach(B)'
    BY <2>14
  <2>6. InUse(g) /\ Counted(g)
    <3>1. pc[Owner(g)] \notin InNew
      BY <1>2, <1>4, <1>5, BlockFacts DEF DeletedLast
    <3> QED BY <1>8, <2>2, <3>1 DEF InUse, Counted, InNew
  <2>7. counter[B[g]] = Cardinality(Rest(g))
    BY <1>2, <2>6 DEF OneBlockEach
  <2>8. /\ counter' = [counter EXCEPT ![B[g]] = @ - 1]
        /\ live' = IF Rest(g)' = {} THEN live \ {B[g]} ELSE live
    BY <1>4, <1>8, <2>4, <2>5, <2>7 DEF Free, Unused
  <2>9. \A h \in Group : h # g => (InUse(h)' <=> InUse(h)) /\ (InUse(h) => B[h] # B[g])
    BY <1>2, <1>10, <2>3, <2>6, NextParts DEF InUse, OneBlockEach
  <2>10. InUse(g)' <=> Rest(g)' # {}
    BY <1>8, <1>10, NextParts
  <2>11. live' = {B[h] : h \in {i \in Group' : InUse(i)'}}
    <3>1. live = {B[h] : h \in {i \in Group : InUse(i)}}
      BY <1>2 DEF OneBlockEach
    <3>2. CASE Rest(g)' = {}
      BY <2>1, <2>6, <2>8, <2>9, <2>10, <3>1, <3>2
    <3>3. CASE Rest(g)' # {}
      <4>1. {i \in Group' : InUse(i)'} = {i \in Group : InUse(i)}
        BY <2>1, <2>6, <2>9, <2>10, <3>3
      <4> QED BY <2>8, <3>1, <3>3, <4>1
    <3> QED BY <3>2, <3>3
  <2>12. \A h, i \in Group' : InUse(h)' /\ InUse(i)' /\ h # i => B[h] # B[i]
    BY <1>2, <2>1, <2>6, <2>9 DEF OneBlockEach
  <2>13. ASSUME NEW h \in Group', InUse(h)', Counted(h)'
         PROVE  counter'[B[h]] = Cardinality(Rest(h)')
    <3>1. CASE h = g
      BY <1>8, <2>4, <2>7, <2>8, <3>1 DEF Waiting, Shapes
    <3>2. CASE h # g
      <4>1. InUse(h) /\ B[h] # B[g] /\ h \in Group /\ Counted(h)
        BY <1>3, <2>1, <2>9, <2>13, <3>2, NextParts DEF Counted
      <4>2. counter[B[h]] = Cardinality(Rest(h)) /\ B[h] \in Block
        BY <1>2, <4>1 DEF OneBlockEach, OnItsWay, InUse
      <4> QED BY <2>3, <2>8, <3>2, <4>1, <4>2 DEF Waiting, Shapes
    <3> QED BY <3>1, <3>2
  <2> QED BY <2>11, <2>12, <2>13 DEF OneBlockEach
<1>13. \A h \in Group : Given(h)' =>
          /\ B[h] \in Block
          /\ pc'[Owner(h)] = "asked" /\ Replying(NewService, h)' => result'[NewService] = B[h]
          /\ (Shared \/ pc[Owner(h)] \in {"asked", "answered"})
             /\ ~(Replying(NewService, h)') => arg'[NewService][h] = B[h]
  <2> SUFFICES ASSUME NEW h \in Group, Given(h)
               PROVE  /\ B[h] \in Block
                      /\ pc'[Owner(h)] = "asked" /\ Replying(NewService, h)' =>
                            result'[NewService] = B[h]
                      /\ (Shared \/ pc[Owner(h)] \in {"asked", "answered"})
                         /\ ~(Replying(NewService, h)') => arg'[NewService][h] = B[h]
    BY <1>10
  <2>1. /\ B[h] \in Block
        /\ pc[Owner(h)] = "asked" /\ Replying(NewService, h) => result[NewService] = B[h]
        /\ (Shared \/ pc[Owner(h)] \in {"asked", "answered"}) /\ ~Replying(NewService, h) =>
              arg[NewService][h] = B[h]
    BY <1>2 DEF OnItsWay
  <2>2. arg' = arg /\ pc' = pc
    BY <1>3
  <2>3. CASE NewService = "M"
    <3>1. ~Replying(NewService, h) /\ (Replying(NewService, h)' <=> h = p)
      BY <1>3, <1>4, <1>6, <1>7, <2>3 DEF Replying
    <3> QED BY <1>9, <2>1, <2>2, <2>3, <3>1
  <2>4. CASE NewService # "M"
    <3>1. /\ Replying(NewService, h)' <=> Replying(NewService, h)
          /\ result'[NewService] = result[NewService]
      BY <1>3, <1>6, <2>4 DEF Replying
    <3> QED BY <2>1, <2>2, <3>1
  <2> QED BY <2>3, <2>4
<1>14. \A q \in Item : call'["M"][q] = 2 /\ ~(Answering("M", q)') =>
          call["M"][q] = 2 /\ ~Answering("M", q) /\ arg'["M"][q] = arg["M"][q]
  BY <1>3, <1>7
<1> QED BY <1>1, <1>2, <1>3, <1>10, <1>12, <1>13, <1>14, BlocksOfService

-----------------------------------------------------------------------------
(* What the three invariants say of the blocks.                            *)

Device == Waiting /\ (CounterFirst => Blocks)

\* At first no group has a block.
LEMMA BlocksInit ==
  ASSUME Init
  PROVE  Blocks
<1>1. Waiting
  BY WaitingInit
<1>2. \A g \in Group : ~Given(g)
  BY <1>1, BlockFacts DEF Init, Given
<1>3. DeletedLast /\ Asked
  BY <1>1, BlockFacts DEF Init, DeletedLast, Asked
<1> DEFINE B == [g \in Group |-> 0]
<1>4. B \in [Group -> Block \cup {0}]
  OBVIOUS
<1>5. OnItsWay(B) /\ TakenOnce(B)
  BY <1>2 DEF Init, OnItsWay, TakenOnce
<1>6. OneBlockEach(B)
  <2>1. \A g \in Group : ~InUse(g)
    BY <1>2 DEF InUse
  <2> QED BY <2>1 DEF Init, OneBlockEach
<1> QED BY <1>3, <1>4, <1>5, <1>6 DEF Blocks, Placed

\* Every step keeps the third invariant.
LEMMA BlocksKept ==
  ASSUME Waiting, CounterFirst, Blocks, [Next]_vars
  PROVE  Blocks'
<1>1. kernel' = kernel
  BY KernelFixed
<1>2. ASSUME NEW p \in Item, ItemStep(p) PROVE Blocks'
  BY <1>1, <1>2, BlocksItem, BlocksAskNew, BlocksStoreHeader, BlocksAskDelete DEF ItemStep
<1>3. ASSUME UNCHANGED <<pc, ptr, call, arg, result, heap, svc, at>> PROVE Blocks'
  BY <1>1, <1>3, BlocksQuiet DEF Answering, Replying
<1>4. ASSUME NEW th \in Service, ServiceStep(th) PROVE Blocks'
  <2>1. CASE Wake(th) \/ Skip(th) \/ Sleep(th)
    <3>1. /\ UNCHANGED <<pc, ptr, call, arg, result, heap>>
          /\ \A t \in Service : t # th => svc'[t] = svc[t] /\ at'[t] = at[t]
          /\ svc[th] \notin {"reply", "reset"} /\ svc'[th] \notin {"reply", "reset"}
      BY <1>4, <2>1 DEF Wake, Skip, Sleep, Finding, Serving, Waiting, Shapes, device, tables
    <3>2. \A t \in Service : \A i \in Slot[t] :
             (Answering(t, i)' <=> Answering(t, i)) /\ (Replying(t, i)' <=> Replying(t, i))
      BY <3>1 DEF Answering, Replying
    <3> QED BY <1>1, <3>1, <3>2, BlocksQuiet
  <2>2. CASE Malloc(th)
    BY <1>1, <2>2, BlocksMalloc
  <2>3. CASE Free
    BY <1>1, <2>3, BlocksFree
  <2>4. CASE Reply(th)
    BY <1>1, <2>4, BlocksReply
  <2>5. CASE Reset(th)
    BY <1>1, <2>5, BlocksReset
  <2> QED BY <1>4, <2>1, <2>2, <2>3, <2>4, <2>5 DEF ServiceStep
<1>5. CASE MainStep
  BY <1>3, <1>5 DEF MainStep, StopX, StopM, JoinThread, device, tables, threads
<1>6. CASE UNCHANGED vars
  BY <1>3, <1>6 DEF vars, device, tables, threads
<1> QED BY <1>2, <1>4, <1>5, <1>6 DEF Next

\* Hence all three always hold.
LEMMA DeviceAlways == Spec => []Device
<1>1. Init => Device
  BY WaitingInit, BlocksInit DEF Device
<1>2. Device /\ [Next]_vars => Device'
  <2> SUFFICES ASSUME Device, [Next]_vars PROVE Device'
    OBVIOUS
  <2>1. Waiting'
    BY ShapesKept, RequestsKept, SignalsKept DEF Device, Waiting
  <2>2. CounterFirst' = CounterFirst
    BY KernelFixed, SameKernel
  <2> QED BY <2>1, <2>2, BlocksKept DEF Device
<1> QED BY <1>1, <1>2, PTL DEF Spec

\* An item that holds a part has the block of its group, which is in use.
LEMMA HeldInUse ==
  ASSUME Waiting, NEW B, Placed(B), NEW p \in Item, Holds(p)
  PROVE  ptr[p] = B[NewSlot(p)] /\ InUse(NewSlot(p))
<1>1. /\ pc[p] \notin {"new", "in", "asked", "answered"} /\ ~Gone(p)
      /\ ~Void(pc[p], ptr[p])
  BY DEF Holds, Gone, Answering, ItemSlot, Void
<1>2. Given(NewSlot(p)) /\ ptr[p] = B[NewSlot(p)]
  BY <1>1 DEF Placed, TakenOnce
<1>3. p \in Rest(NewSlot(p))
  BY <1>1, BlockFacts DEF Rest
<1> QED BY <1>2, <1>3 DEF InUse

\* They say what new and delete promise.
LEMMA DeviceSafe ==
  ASSUME Device
  PROVE  HeldIsLive /\ OwnAnswer /\ NothingLeaks
<1> SUFFICES ASSUME CounterFirst
             PROVE  /\ \A p \in Item : Holds(p) => ptr[p] \in live
                    /\ \A p, q \in Item : Holds(p) /\ Holds(q) =>
                          (ptr[p] = ptr[q]
                           <=> p = q \/ (Shared /\ TileOf(p) = TileOf(q)))
                    /\ (\A p \in Item : pc[p] = "end") => live = {}
  BY DEF HeldIsLive, OwnAnswer, NothingLeaks
<1>1. Waiting /\ Blocks
  BY DEF Device
<1>2. PICK B \in [Group -> Block \cup {0}] : Placed(B)
  BY <1>1 DEF Blocks
<1>3. OneBlockEach(B)
  BY <1>2 DEF Placed
<1>4. ASSUME NEW p \in Item, Holds(p)
      PROVE  ptr[p] = B[NewSlot(p)] /\ InUse(NewSlot(p)) /\ NewSlot(p) \in Group
  BY <1>1, <1>2, <1>4, HeldInUse, BlockFacts
<1>5. \A p \in Item : Holds(p) => ptr[p] \in live
  BY <1>3, <1>4 DEF OneBlockEach
<1>6. ASSUME NEW p \in Item, NEW q \in Item, Holds(p), Holds(q)
      PROVE  ptr[p] = ptr[q] <=> p = q \/ (Shared /\ TileOf(p) = TileOf(q))
  <2>1. ptr[p] = ptr[q] <=> NewSlot(p) = NewSlot(q)
    BY <1>3, <1>4, <1>6 DEF OneBlockEach
  <2>2. NewSlot(p) = NewSlot(q) <=> p = q \/ (Shared /\ TileOf(p) = TileOf(q))
    BY DEF NewSlot, ItemSlot
  <2> QED BY <2>1, <2>2
<1>7. ASSUME \A p \in Item : pc[p] = "end" PROVE live = {}
  <2>1. \A g \in Group : Rest(g) = {}
    BY <1>1, <1>7, BlockFacts DEF Rest, Gone
  <2> QED BY <1>3, <2>1 DEF OneBlockEach, InUse
<1> QED BY <1>5, <1>6, <1>7

\* What new returned to an item is allocated until its own delete has been
\* served, whatever the kernel, the heap and the order of the threads.
THEOREM HeldAlwaysLive == Spec => []HeldIsLive
BY DeviceAlways, DeviceSafe, PTL

\* Two items hold the same block only, and always, as items of one tile.
THEOREM AnswersAlwaysOwn == Spec => []OwnAnswer
BY DeviceAlways, DeviceSafe, PTL

\* When all items have deleted what they got, the heap is empty.
THEOREM NothingEverLeaks == Spec => []NothingLeaks
BY DeviceAlways, DeviceSafe, PTL
=============================================================================
