-------------------------- MODULE CpuMemoryProofs --------------------------
(***************************************************************************)
(* CpuMemory: for any number of buffers, functors and views a launch takes *)
(* back every entry that it made, whatever the client does; and for a      *)
(* careful client there is one memory per buffer, which stays the user's.  *)
(*                                                                         *)
(* The argument is about a launch that is under way.  Its functor either   *)
(* came with the user's pointers: then the views are exchanged in their    *)
(* order, and an entry counts those that are on the shadow and have not    *)
(* been serialized again.  Or it has been launched before: then no view    *)
(* has the user's pointer, and the launch finds nothing to exchange.       *)
(***************************************************************************)
EXTENDS CpuMemory, TLAPS, FiniteSetTheorems

\* TypeOK, with the absent functors and without the bound of the counters.
Shapes ==
    /\ view \in [Buf -> BOOLEAN] /\ entry \in [Buf -> BOOLEAN]
    /\ dirty \in [Buf -> BOOLEAN] /\ freed \in [Buf -> BOOLEAN]
    /\ user \in [Buf -> Val] /\ shadow \in [Buf -> Val]
    /\ temp \in [Buf -> Nat]
    /\ cap \in [Functor -> {<<>>} \cup [Slot -> Capture]]
    /\ phase \in {"host", "before", "kernel", "after"}
    /\ cur \in Functor /\ next \in Slot /\ careful \in BOOLEAN

\* What has an owner, or a flag, is registered.
Registered ==
    \A b \in Buf : Owned(b, view, cap) \/ dirty[b] \/ temp[b] > 0 => entry[b]

\* A functor has been launched or has not: its views go together.
Whole(f) == \/ \A n \in Slot : cap[f][n].ptr = "user"
            \/ \A n \in Slot : cap[f][n].ptr # "user"
Uniform == \A f \in Functor : Made(f) /\ ~(phase = "before" /\ f = cur) => Whole(f)

\* View n of the launched functor is on the shadow, and the shadow's entry
\* counts it.
Counts(n) == \/ phase = "before" /\ n < next
             \/ phase = "kernel"
             \/ phase = "after" /\ n >= next
Pushed(b) == {n \in Slot : Counts(n) /\ cap[cur][n].buf = b}

Fresh ==
    /\ \A b \in Buf : temp[b] = Cardinality(Pushed(b))
    /\ phase = "kernel" => next = 1
    /\ phase # "host" =>
           /\ Made(cur)
           /\ \A n \in Slot : cap[cur][n].ptr =
                  IF phase = "before" /\ n >= next THEN "user" ELSE "shadow"

Relaunched ==
    /\ ~careful /\ phase # "host" /\ Made(cur)
    /\ \A b \in Buf : temp[b] = 0
    /\ \A n \in Slot : cap[cur][n].ptr # "user"

Tables == Shapes /\ Registered /\ Uniform /\ (Fresh \/ Relaunched)

\* Owners of b besides the functor that is launched.
Elsewhere(b) == \/ view[b]
                \/ \E f \in Functor \ {cur} : \E n \in DOMAIN cap[f] :
                       cap[f][n] = [buf |-> b, ptr |-> "user"]

\* A careful client's buffers outlive its launches, and what a kernel may
\* write is the good copy.
Good ==
    careful =>
    /\ \A b \in Buf : ~freed[b]
    /\ phase # "host" => \A n \in Slot : Elsewhere(cap[cur][n].buf)
    /\ \A n \in Slot : Counts(n) /\ phase # "after" => dirty[cap[cur][n].buf]

-----------------------------------------------------------------------------
\* Sets of views are finite, and no larger than a functor.
LEMMA ViewSets ==
  /\ \A b : IsFiniteSet(Pushed(b)) /\ Cardinality(Pushed(b)) \in 0 .. NSlot
  /\ Slot # {} /\ 1 \in Slot /\ NSlot \in Slot
<1>1. IsFiniteSet(Slot) /\ Cardinality(Slot) = NSlot
  BY FS_Interval, SlotAssumption DEF Slot
<1>2. \A S \in SUBSET Slot : IsFiniteSet(S) /\ Cardinality(S) \in 0 .. NSlot
  BY <1>1, FS_Subset, FS_CardinalityType, SlotAssumption
<1>3. \A b : Pushed(b) \in SUBSET Slot
  BY DEF Pushed
<1>4. 1 \in Slot /\ NSlot \in Slot
  BY SlotAssumption DEF Slot
<1> QED BY <1>2, <1>3, <1>4

\* A functor that exists has its views.
LEMMA MadeIsWhole ==
  ASSUME Shapes, NEW f \in Functor
  PROVE  /\ Made(f) <=> cap[f] \in [Slot -> Capture]
         /\ ~Made(f) => DOMAIN cap[f] = {}
         /\ Made(f) => DOMAIN cap[f] = Slot
         /\ <<>> \notin [Slot -> Capture]
<1>1. <<>> \notin [Slot -> Capture]
  <2> SUFFICES ASSUME <<>> \in [Slot -> Capture] PROVE FALSE
    OBVIOUS
  <2>1. DOMAIN <<>> = Slot
    OBVIOUS
  <2>2. DOMAIN <<>> = {}
    OBVIOUS
  <2> QED BY <2>1, <2>2, ViewSets
<1>2. cap[f] = <<>> \/ cap[f] \in [Slot -> Capture]
  BY DEF Shapes
<1>3. DOMAIN <<>> = {}
  OBVIOUS
<1> QED BY <1>1, <1>2, <1>3 DEF Made

\* The launched functor exists.
LEMMA LaunchedIsMade ==
  ASSUME Tables, phase # "host"
  PROVE  Made(cur) /\ cap[cur] \in [Slot -> Capture] /\ cur \in Functor /\ next \in Slot
<1>1. Made(cur) /\ cur \in Functor /\ next \in Slot
  BY DEF Tables, Fresh, Relaunched, Shapes
<1> QED BY <1>1, MadeIsWhole DEF Tables

\* Between launches nothing is counted.
LEMMA QuietHost ==
  ASSUME Tables, Host
  PROVE  Fresh /\ \A b \in Buf : temp[b] = 0
<1>1. Fresh
  BY DEF Tables, Relaunched, Host
<1>2. \A b \in Buf : Pushed(b) = {}
  BY DEF Pushed, Counts, Host
<1> QED BY <1>1, <1>2, FS_EmptySet DEF Fresh

\* A step between launches: what remains to show.
LEMMA HostFrame ==
  ASSUME Tables, Good, Host, phase' = phase, temp' = temp, freed' = freed, careful' = careful,
         Shapes', Registered', Uniform'
  PROVE  Tables' /\ Good'
<1>1. \A b \in Buf : temp[b] = 0
  BY QuietHost
<1>2. \A b \in Buf : Pushed(b)' = {}
  BY DEF Pushed, Counts, Host
<1>3. Fresh'
  BY <1>1, <1>2, FS_EmptySet DEF Fresh, Host
<1>4. Good'
  BY DEF Good, Host, Counts
<1> QED BY <1>3, <1>4 DEF Tables

\* A step that changes only contents, or makes user memory the good copy
\* between launches.
LEMMA MemoryFrame ==
  ASSUME Tables, Good, UNCHANGED <<view, entry, temp, freed, cap, phase, cur, next>>,
         Shapes', \A b \in Buf : dirty'[b] => dirty[b],
         careful' => careful /\ (dirty' = dirty \/ Host)
  PROVE  Tables' /\ Good'
<1>1. Registered'
  BY DEF Tables, Registered, Owned
<1>2. Uniform'
  BY DEF Tables, Uniform, Whole, Made
<1>3. (Fresh \/ Relaunched)'
  <2>1. CASE Fresh
    <3>1. \A b \in Buf : Pushed(b)' = Pushed(b)
      BY DEF Pushed, Counts
    <3> QED BY <2>1, <3>1 DEF Fresh, Made
  <2>2. CASE Relaunched
    BY <2>2 DEF Relaunched, Made
  <2> QED BY <2>1, <2>2 DEF Tables
<1>4. Good'
  BY DEF Good, Host, Elsewhere, Counts
<1> QED BY <1>1, <1>2, <1>3, <1>4 DEF Tables

\* Before the first step nothing has an owner.
LEMMA TablesInit == Init => Tables /\ Good
<1> SUFFICES ASSUME Init PROVE Tables /\ Good
  OBVIOUS
<1>1. Shapes
  BY ViewSets DEF Init, Shapes
<1>2. DOMAIN <<>> = {}
  OBVIOUS
<1>3. Registered
  BY <1>2 DEF Init, Registered, Owned
<1>4. Uniform
  BY DEF Init, Uniform, Made
<1>5. \A b \in Buf : Pushed(b) = {}
  BY DEF Init, Pushed, Counts
<1>6. Fresh
  BY <1>5, FS_EmptySet DEF Init, Fresh
<1>7. Good
  BY DEF Init, Good, Counts
<1> QED BY <1>1, <1>3, <1>4, <1>6, <1>7 DEF Tables

-----------------------------------------------------------------------------
(* The host between launches.                                              *)

\* The last owner's end leaves no flag, and no view is given a pointer of the
\* user by it.
LEMMA ReleaseStep ==
  ASSUME Tables, Good, Host, NEW views \in [Buf -> BOOLEAN],
         NEW caps \in [Functor -> {<<>>} \cup [Slot -> Capture]],
         \A b \in Buf : views[b] => view[b],
         \A f \in Functor : caps[f] = cap[f] \/ caps[f] = <<>>,
         Release(views, caps)
  PROVE  Tables' /\ Good'
<1> DEFINE gone == {b \in Buf : entry[b] /\ ~Owned(b, views, caps)}
           Left(f, n) == IF caps[f][n].ptr = "shadow" /\ caps[f][n].buf \in gone
                         THEN [caps[f][n] EXCEPT !.ptr = "lost"] ELSE caps[f][n]
<1>1. /\ view' = views
      /\ user' = [b \in Buf |-> IF b \in gone THEN SyncedUser(b) ELSE user[b]]
      /\ dirty' = [b \in Buf |-> dirty[b] /\ b \notin gone]
      /\ entry' = [b \in Buf |-> entry[b] /\ b \notin gone]
      /\ cap' = [f \in Functor |-> [n \in DOMAIN caps[f] |-> Left(f, n)]]
      /\ UNCHANGED <<shadow, temp, freed, phase, cur, next, careful>>
  BY DEF Release, launch
<1>2. Shapes
  BY DEF Tables
<1>3. \A b \in Buf : SyncedUser(b) \in Val
  BY <1>2 DEF Shapes, SyncedUser
<1>4. ASSUME NEW f \in Functor
      PROVE  /\ caps[f] = <<>> => cap'[f] = <<>>
             /\ caps[f] # <<>> => /\ caps[f] \in [Slot -> Capture] /\ cap'[f] \in [Slot -> Capture]
                                  /\ \A n \in Slot : cap'[f][n] = Left(f, n)
  <2>1. cap'[f] = [n \in DOMAIN caps[f] |-> Left(f, n)]
    BY <1>1
  <2>2. CASE caps[f] = <<>>
    BY <2>1, <2>2
  <2>3. CASE caps[f] # <<>>
    <3>1. caps[f] \in [Slot -> Capture]
      BY <2>3
    <3>2. \A n \in Slot : Left(f, n) \in Capture
      BY <3>1 DEF Capture
    <3> HIDE DEF Left
    <3> QED BY <2>1, <2>3, <3>1, <3>2
  <2> QED BY <2>2, <2>3
<1>5. ASSUME NEW f \in Functor, caps[f] # <<>>, NEW n \in Slot
      PROVE  /\ Left(f, n).ptr = "user" <=> cap[f][n].ptr = "user"
             /\ Left(f, n).ptr = "user" => Left(f, n) = cap[f][n]
  <2>1. caps[f] = cap[f] /\ caps[f][n] \in Capture
    BY <1>4, <1>5
  <2> QED BY <2>1 DEF Capture
<1> HIDE DEF Left
<1>6. ASSUME NEW b \in Buf, Owned(b, view', cap') PROVE Owned(b, views, caps) /\ Owned(b, view, cap)
  <2>1. CASE view'[b]
    BY <1>1, <2>1 DEF Owned
  <2>2. CASE ~view'[b]
    <3>0. PICK f \in Functor : \E n \in DOMAIN cap'[f] : cap'[f][n] = [buf |-> b, ptr |-> "user"]
      BY <1>6, <2>2 DEF Owned
    <3>1. PICK n \in DOMAIN cap'[f] : cap'[f][n] = [buf |-> b, ptr |-> "user"]
      BY <3>0
    <3>2. caps[f] # <<>> /\ n \in Slot /\ cap'[f][n] = Left(f, n)
      BY <1>4, <3>1
    <3>3. Left(f, n) = cap[f][n] /\ caps[f] = cap[f]
      BY <1>5, <3>1, <3>2
    <3>4. n \in DOMAIN caps[f] /\ caps[f][n] = [buf |-> b, ptr |-> "user"]
      BY <1>4, <3>1, <3>2, <3>3
    <3> QED BY <3>3, <3>4 DEF Owned
  <2> QED BY <2>1, <2>2
<1>7. Registered'
  <2> SUFFICES ASSUME NEW b \in Buf, Owned(b, view', cap') \/ dirty'[b] \/ temp'[b] > 0
               PROVE  entry'[b]
    BY DEF Registered, Owned
  <2>1. temp'[b] = 0
    BY <1>1, QuietHost
  <2>2. CASE Owned(b, view', cap')
    BY <1>1, <1>6, <2>2 DEF Tables, Registered
  <2>3. CASE dirty'[b]
    BY <1>1, <2>3 DEF Tables, Registered
  <2> QED BY <2>1, <2>2, <2>3
<1>8. Uniform'
  <2> SUFFICES ASSUME NEW f \in Functor, Made(f)' PROVE Whole(f)'
    BY DEF Uniform
  <2>1. caps[f] # <<>> /\ caps[f] = cap[f]
    BY <1>4 DEF Made
  <2>2. Whole(f)
    BY <2>1 DEF Tables, Uniform, Made, Host
  <2>3. \A n \in Slot : cap'[f][n].ptr = "user" <=> cap[f][n].ptr = "user"
    BY <1>4, <1>5, <2>1
  <2> QED BY <2>2, <2>3 DEF Whole
<1>9. Shapes'
  <2>1. cap' \in [Functor -> {<<>>} \cup [Slot -> Capture]]
    <3>1. \A f \in Functor : cap'[f] \in {<<>>} \cup [Slot -> Capture]
      BY <1>4
    <3>2. cap' = [f \in Functor |-> cap'[f]]
      BY <1>1
    <3> QED BY <3>1, <3>2
  <2>2. user' \in [Buf -> Val]
    BY <1>1, <1>2, <1>3 DEF Shapes
  <2> QED BY <1>1, <1>2, <2>1, <2>2 DEF Shapes
<1> QED BY <1>1, <1>7, <1>8, <1>9, HostFrame DEF Tables

\* Views and functors that begin or end.
LEMMA LifeStep ==
  ASSUME Tables, Good,
         \/ \E b \in Buf : Open(b) \/ Close(b)
         \/ \E f \in Functor : Drop(f) \/ \E bufs \in [Slot -> Buf] : Make(f, bufs)
  PROVE  Tables' /\ Good'
<1>1. Shapes
  BY DEF Tables
<1>2. ASSUME NEW b \in Buf, Open(b) PROVE Tables' /\ Good'
  <2>1. PICK v \in Val : shadow' = [shadow EXCEPT ![b] = v]
    BY <1>2 DEF Open
  <2>2. /\ Host /\ view' = [view EXCEPT ![b] = TRUE] /\ entry' = [entry EXCEPT ![b] = TRUE]
        /\ UNCHANGED <<user, dirty, temp, freed, cap, phase, cur, next, careful>>
    BY <1>2 DEF Open, launch
  <2>3. Shapes'
    BY <1>1, <2>1, <2>2 DEF Shapes
  <2>4. \A c \in Buf : /\ entry'[c] = (c = b \/ entry[c])
                       /\ view'[c] = (c = b \/ view[c])
    BY <1>1, <2>2 DEF Shapes
  <2>5. Registered'
    BY <2>2, <2>4 DEF Tables, Registered, Owned
  <2>6. Uniform'
    BY <2>2 DEF Tables, Uniform, Whole, Made
  <2> QED BY <2>2, <2>3, <2>5, <2>6, HostFrame
<1>3. ASSUME NEW b \in Buf, Close(b) PROVE Tables' /\ Good'
  <2> DEFINE views == [view EXCEPT ![b] = FALSE]
  <2>1. views \in [Buf -> BOOLEAN] /\ \A c \in Buf : views[c] => view[c]
    BY <1>1 DEF Shapes
  <2>2. Host /\ Release(views, cap)
    BY <1>3 DEF Close
  <2> HIDE DEF views
  <2> QED BY <1>1, <2>1, <2>2, ReleaseStep DEF Shapes
<1>4. ASSUME NEW f \in Functor, Drop(f) PROVE Tables' /\ Good'
  <2> DEFINE caps == [cap EXCEPT ![f] = <<>>]
  <2>1. /\ caps \in [Functor -> {<<>>} \cup [Slot -> Capture]]
        /\ \A g \in Functor : caps[g] = cap[g] \/ caps[g] = <<>>
    BY <1>1 DEF Shapes
  <2>2. Host /\ Release(view, caps)
    BY <1>4 DEF Drop
  <2> HIDE DEF caps
  <2> QED BY <1>1, <2>1, <2>2, ReleaseStep DEF Shapes
<1>5. ASSUME NEW f \in Functor, NEW bufs \in [Slot -> Buf], Make(f, bufs) PROVE Tables' /\ Good'
  <2> DEFINE views == [n \in Slot |-> [buf |-> bufs[n], ptr |-> "user"]]
  <2>1. /\ Host /\ ~Made(f) /\ \A n \in Slot : view[bufs[n]]
        /\ cap' = [cap EXCEPT ![f] = views]
        /\ UNCHANGED <<view, entry, dirty, temp, freed, user, shadow, phase, cur, next, careful>>
    BY <1>5 DEF Make, table, memory, launch
  <2>2. views \in [Slot -> Capture]
    BY DEF Capture
  <2>3. \A n \in Slot : views[n] = [buf |-> bufs[n], ptr |-> "user"]
    OBVIOUS
  <2> HIDE DEF views
  <2>4. Shapes'
    BY <1>1, <2>1, <2>2 DEF Shapes
  <2>5. \A g \in Functor : cap'[g] = IF g = f THEN views ELSE cap[g]
    BY <1>1, <2>1 DEF Shapes
  <2>6. \A b \in Buf : Owned(b, view', cap') => Owned(b, view, cap)
    <3> SUFFICES ASSUME NEW b \in Buf, ~view[b], NEW g \in Functor, NEW n \in DOMAIN cap'[g],
                        cap'[g][n] = [buf |-> b, ptr |-> "user"]
                 PROVE  Owned(b, view, cap)
      BY <2>1 DEF Owned
    <3>1. CASE g = f
      <4>1. n \in Slot /\ views[n] = [buf |-> b, ptr |-> "user"]
        BY <2>2, <2>5, <3>1
      <4>2. views[n].buf = bufs[n] /\ views[n].buf = b
        <5>1. views[n] = [buf |-> bufs[n], ptr |-> "user"]
          BY <2>3, <4>1
        <5> QED BY <4>1, <5>1
      <4> QED BY <2>1, <4>1, <4>2
    <3>2. CASE g # f
      BY <2>5, <3>2 DEF Owned
    <3> QED BY <3>1, <3>2
  <2>7. Registered'
    BY <2>1, <2>6 DEF Tables, Registered, Owned
  <2>8. Uniform'
    <3> SUFFICES ASSUME NEW g \in Functor, Made(g)' PROVE Whole(g)'
      BY DEF Uniform
    <3>1. CASE g = f
      <4>1. cap'[g] = views
        BY <2>5, <3>1
      <4>2. ASSUME NEW n \in Slot PROVE views[n].ptr = "user"
        <5>1. views[n] = [buf |-> bufs[n], ptr |-> "user"]
          BY <2>3
        <5> QED BY <5>1
      <4> QED BY <4>1, <4>2 DEF Whole
    <3>2. CASE g # f
      BY <2>1, <2>5, <3>2 DEF Tables, Uniform, Whole, Made, Host
    <3> QED BY <3>1, <3>2
  <2> QED BY <2>1, <2>4, <2>7, <2>8, HostFrame
<1> QED BY <1>2, <1>3, <1>4, <1>5

\* Accesses of the host, of another thread, and of a kernel.
LEMMA AccessStep ==
  ASSUME Tables, Good,
         \/ \E b \in Buf, op \in {"read", "write"}, v \in Val :
                HostAccess(b, op, v) \/ PlainAccess(b, op, v) \/ OtherAccess(b, op, v)
         \/ \E f \in Functor, n \in Slot : OwnSync(f, n)
         \/ \E n \in Slot, op \in {"read", "write"}, v \in Val : KernelAccess(n, op, v)
         \/ UNCHANGED vars
  PROVE  Tables' /\ Good'
<1>1. Shapes
  BY DEF Tables
<1>2. ASSUME NEW b \in Buf, NEW op \in {"read", "write"}, NEW v \in Val, HostAccess(b, op, v)
      PROVE  Tables' /\ Good'
  <2>1. /\ Host /\ user' = [user EXCEPT ![b] = v] /\ dirty' = [dirty EXCEPT ![b] = FALSE]
        /\ UNCHANGED <<view, entry, shadow, temp, freed, cap, phase, cur, next, careful>>
    BY <1>2 DEF HostAccess, launch
  <2>2. Shapes' /\ \A c \in Buf : dirty'[c] => dirty[c]
    BY <1>1, <2>1 DEF Shapes
  <2> QED BY <2>1, <2>2, MemoryFrame
<1>3. ASSUME NEW b \in Buf, NEW op \in {"read", "write"}, NEW v \in Val, PlainAccess(b, op, v)
      PROVE  Tables' /\ Good'
  <2>1. /\ user' = [user EXCEPT ![b] = v]
        /\ UNCHANGED <<view, entry, dirty, shadow, temp, freed, cap, phase, cur, next, careful>>
    BY <1>3 DEF PlainAccess, launch, table
  <2>2. Shapes'
    BY <1>1, <2>1 DEF Shapes
  <2> QED BY <2>1, <2>2, MemoryFrame
<1>4. ASSUME NEW b \in Buf, NEW op \in {"read", "write"}, NEW v \in Val, OtherAccess(b, op, v)
      PROVE  Tables' /\ Good'
  <2>1. /\ user' = [user EXCEPT ![b] = v] /\ careful' = FALSE
        /\ UNCHANGED <<view, entry, dirty, shadow, temp, freed, cap, phase, cur, next>>
    BY <1>4 DEF OtherAccess, launch, Uses
  <2>2. Shapes'
    BY <1>1, <2>1 DEF Shapes
  <2> QED BY <2>1, <2>2, MemoryFrame
<1>5. ASSUME NEW f \in Functor, NEW n \in Slot, OwnSync(f, n) PROVE Tables' /\ Good'
  <2> DEFINE b == cap[f][n].buf
             v == IF cap[f][n].ptr = "user" THEN SyncedUser(b) ELSE user[b]
  <2>1. /\ Host /\ Made(f) /\ user' = [user EXCEPT ![b] = v]
        /\ dirty' = [dirty EXCEPT ![b] = @ /\ cap[f][n].ptr = "shadow"]
        /\ careful' = FALSE \/ careful' = careful
        /\ UNCHANGED <<view, entry, shadow, temp, freed, cap, phase, cur, next>>
    BY <1>5 DEF OwnSync, launch, Uses
  <2>2. b \in Buf
    <3>1. cap[f] \in [Slot -> Capture]
      BY <1>1, <2>1, MadeIsWhole
    <3> QED BY <3>1 DEF Capture
  <2>3. v \in Val
    BY <1>1, <2>2 DEF Shapes, SyncedUser
  <2> HIDE DEF b, v
  <2>4. Shapes' /\ \A c \in Buf : dirty'[c] => dirty[c]
    BY <1>1, <2>1, <2>2, <2>3 DEF Shapes
  <2> QED BY <1>1, <2>1, <2>4, MemoryFrame DEF Shapes
<1>6. ASSUME NEW n \in Slot, NEW op \in {"read", "write"}, NEW v \in Val, KernelAccess(n, op, v)
      PROVE  Tables' /\ Good'
  <2>1. /\ shadow' = [shadow EXCEPT ![cap[cur][n].buf] = v]
        /\ UNCHANGED <<view, entry, dirty, user, temp, freed, cap, phase, cur, next, careful>>
    BY <1>6 DEF KernelAccess, launch, table
  <2>2. Shapes'
    BY <1>1, <2>1 DEF Shapes
  <2> QED BY <2>1, <2>2, MemoryFrame
<1>7. CASE UNCHANGED vars
  <2>1. UNCHANGED <<view, entry, dirty, user, shadow, temp, freed, cap, phase, cur, next, careful>>
    BY <1>7 DEF vars, table, memory, launch
  <2>2. Shapes'
    BY <1>1, <2>1 DEF Shapes
  <2> QED BY <2>1, <2>2, MemoryFrame
<1> QED BY <1>2, <1>3, <1>4, <1>5, <1>6, <1>7

-----------------------------------------------------------------------------
(* The views of a launch, one at a time.                                   *)

\* An exchanged pointer: the view stays on its buffer, the others as they are.
LEMMA Repointed ==
  ASSUME Tables, phase # "host", NEW p \in {"user", "shadow", "lost"}, Repoint(p)
  PROVE  /\ cap' \in [Functor -> {<<>>} \cup [Slot -> Capture]]
         /\ \A f \in Functor \ {cur} : cap'[f] = cap[f]
         /\ cap'[cur] \in [Slot -> Capture]
         /\ \A n \in Slot : /\ cap'[cur][n].buf = cap[cur][n].buf
                            /\ n # next => cap'[cur][n] = cap[cur][n]
         /\ cap'[cur][next].ptr = p
<1>1. /\ cur \in Functor /\ next \in Slot /\ cap[cur] \in [Slot -> Capture]
      /\ cap \in [Functor -> {<<>>} \cup [Slot -> Capture]]
  BY LaunchedIsMade DEF Tables, Shapes
<1>2. cap' = [cap EXCEPT ![cur] = [cap[cur] EXCEPT ![next] = [cap[cur][next] EXCEPT !.ptr = p]]]
  BY DEF Repoint
<1> DEFINE w == [cap[cur][next] EXCEPT !.ptr = p]
           c == [cap[cur] EXCEPT ![next] = w]
<1>3. w \in Capture /\ w.buf = cap[cur][next].buf /\ w.ptr = p
  <2>1. cap[cur][next] \in Capture
    BY <1>1
  <2> QED BY <2>1 DEF Capture
<1>4. cap' = [cap EXCEPT ![cur] = c]
  BY <1>2
<1>5. c = [cap[cur] EXCEPT ![next] = w]
  OBVIOUS
<1> HIDE DEF w, c
<1>6. c \in [Slot -> Capture] /\ \A n \in Slot : c[n] = IF n = next THEN w ELSE cap[cur][n]
  BY <1>1, <1>3, <1>5
<1>7. cap'[cur] = c /\ cap' \in [Functor -> {<<>>} \cup [Slot -> Capture]]
      /\ \A f \in Functor \ {cur} : cap'[f] = cap[f]
  BY <1>1, <1>4, <1>6
<1> QED BY <1>1, <1>3, <1>6, <1>7

\* A view whose pointer is not the user's owns nothing.
LEMMA OwnersFall ==
  ASSUME Tables, phase # "host", NEW p \in {"shadow", "lost"}, Repoint(p), NEW b \in Buf,
         NEW views, Owned(b, views, cap')
  PROVE  Owned(b, views, cap)
<1>1. /\ \A f \in Functor \ {cur} : cap'[f] = cap[f]
      /\ cap'[cur] \in [Slot -> Capture] /\ cap[cur] \in [Slot -> Capture] /\ next \in Slot
      /\ \A n \in Slot : n # next => cap'[cur][n] = cap[cur][n]
      /\ cap'[cur][next].ptr = p
  BY Repointed, LaunchedIsMade
<1> SUFFICES ASSUME NEW f \in Functor, NEW n \in DOMAIN cap'[f],
                    cap'[f][n] = [buf |-> b, ptr |-> "user"]
             PROVE  Owned(b, views, cap)
  BY DEF Owned
<1>2. CASE f # cur
  BY <1>1, <1>2 DEF Owned
<1>3. CASE f = cur
  <2>1. n \in Slot /\ n # next
    BY <1>1, <1>3
  <2> QED BY <1>1, <1>3, <2>1 DEF Owned
<1> QED BY <1>2, <1>3

\* Between the views of a launch, one that is passed begins or ends to count.
LEMMA CountsMove ==
  ASSUME Tables
  PROVE  /\ phase = "before" /\ Advance("kernel")
            => /\ phase' \in {"before", "kernel"} /\ next' \in Slot
               /\ phase' = "kernel" => next' = 1
               /\ \A n \in Slot : Counts(n)' <=> Counts(n) \/ n = next
               /\ \A n \in Slot : phase' = "before" /\ n >= next' <=> n >= next /\ n # next
         /\ phase = "after" /\ Advance("host")
            => /\ phase' \in {"after", "host"} /\ next' \in Slot
               /\ \A n \in Slot : Counts(n)' <=> Counts(n) /\ n # next
<1>1. next \in 1 .. NSlot /\ NSlot \in Nat \ {0} /\ Slot = 1 .. NSlot
  BY SlotAssumption DEF Tables, Shapes, Slot
<1>2. ASSUME phase = "before", Advance("kernel")
      PROVE  /\ phase' \in {"before", "kernel"} /\ next' \in Slot
             /\ phase' = "kernel" => next' = 1
             /\ \A n \in Slot : Counts(n)' <=> Counts(n) \/ n = next
             /\ \A n \in Slot : phase' = "before" /\ n >= next' <=> n >= next /\ n # next
  <2>1. CASE next = NSlot
    <3>1. phase' = "kernel" /\ next' = 1
      BY <1>2, <2>1 DEF Advance
    <3> QED BY <1>1, <1>2, <2>1, <3>1 DEF Counts
  <2>2. CASE next # NSlot
    <3>1. phase' = "before" /\ next' = next + 1
      BY <1>2, <2>2 DEF Advance
    <3> QED BY <1>1, <1>2, <2>2, <3>1 DEF Counts
  <2> QED BY <2>1, <2>2
<1>3. ASSUME phase = "after", Advance("host")
      PROVE  /\ phase' \in {"after", "host"} /\ next' \in Slot
             /\ \A n \in Slot : Counts(n)' <=> Counts(n) /\ n # next
  <2>1. CASE next = NSlot
    <3>1. phase' = "host" /\ next' = 1
      BY <1>3, <2>1 DEF Advance
    <3> QED BY <1>1, <1>3, <2>1, <3>1 DEF Counts
  <2>2. CASE next # NSlot
    <3>1. phase' = "after" /\ next' = next + 1
      BY <1>3, <2>2 DEF Advance
    <3> QED BY <1>1, <1>3, <2>2, <3>1 DEF Counts
  <2> QED BY <2>1, <2>2
<1> QED BY <1>2, <1>3

\* A launch begins: the functor's views are the user's, all of them, or none.
LEMMA BeginStep ==
  ASSUME Tables, Good, NEW f \in Functor, Begin(f)
  PROVE  Tables' /\ Good'
<1>1. /\ Host /\ Made(f) /\ phase' = "before" /\ cur' = f /\ next' = 1
      /\ UNCHANGED <<view, entry, dirty, temp, freed, user, shadow, cap>>
  BY DEF Begin, table, memory
<1>0. careful' = careful \/ careful' = FALSE
  BY DEF Begin, Uses
<1>2. Shapes' /\ Slot = 1 .. NSlot
  BY <1>0, <1>1, ViewSets DEF Tables, Shapes, Slot
<1>3. Registered'
  BY <1>1 DEF Tables, Registered, Owned
<1>4. Uniform'
  BY <1>1 DEF Tables, Uniform, Whole, Made, Host
<1>5. \A n \in Slot : ~Counts(n)'
  BY <1>1, <1>2 DEF Counts
<1>6. \A b \in Buf : temp'[b] = 0 /\ Pushed(b)' = {}
  BY <1>1, <1>5, QuietHost DEF Pushed
<1>7. Whole(f)
  BY <1>1 DEF Tables, Uniform, Host
<1>8. (Fresh \/ Relaunched)'
  <2>1. CASE \A n \in Slot : cap[f][n].ptr = "user"
    <3>1. \A n \in Slot : n >= next'
      BY <1>1, <1>2
    <3>2. \A b \in Buf : temp'[b] = Cardinality(Pushed(b)')
      BY <1>6, FS_EmptySet
    <3>3. \A n \in Slot : cap'[cur'][n].ptr = "user"
      BY <1>1, <2>1
    <3> QED BY <1>1, <3>1, <3>2, <3>3 DEF Fresh, Made
  <2>2. CASE ~\A n \in Slot : cap[f][n].ptr = "user"
    <3>1. careful' = FALSE
      BY <2>2 DEF Begin, Uses
    <3>2. \A n \in Slot : cap[f][n].ptr # "user"
      BY <1>7, <2>2 DEF Whole
    <3> QED BY <1>1, <1>6, <3>1, <3>2 DEF Relaunched, Made
  <2> QED BY <2>1, <2>2
<1>9. Good'
  <2> SUFFICES ASSUME careful'
               PROVE  \A n \in Slot : Elsewhere(cap[cur][n].buf)'
    BY <1>0, <1>1, <1>5 DEF Good
  <2>1. \A n \in Slot : Owned(cap[f][n].buf, view, [cap EXCEPT ![f] = <<>>])
    BY DEF Begin, Uses
  <2>2. /\ DOMAIN <<>> = {} /\ cap \in [Functor -> {<<>>} \cup [Slot -> Capture]]
    BY DEF Tables, Shapes
  <2>3. ASSUME NEW n \in Slot PROVE Elsewhere(cap[cur][n].buf)'
    <3> DEFINE b == cap[f][n].buf
    <3>1. CASE view[b]
      BY <1>1, <3>1 DEF Elsewhere
    <3>2. CASE ~view[b]
      <4>1. PICK g \in Functor : \E m \in DOMAIN [cap EXCEPT ![f] = <<>>][g] :
                [cap EXCEPT ![f] = <<>>][g][m] = [buf |-> b, ptr |-> "user"]
        BY <2>1, <3>2 DEF Owned
      <4>2. g # f /\ [cap EXCEPT ![f] = <<>>][g] = cap[g]
        BY <2>2, <4>1
      <4> QED BY <1>1, <4>1, <4>2 DEF Elsewhere
    <3> QED BY <3>1, <3>2
  <2> QED BY <2>3
<1> QED BY <1>2, <1>3, <1>4, <1>8, <1>9 DEF Tables

\* A view is exchanged for the shadow's, and the entry counts one more.
LEMMA PushUserStep ==
  ASSUME Tables, Good, PushUser
  PROVE  Tables' /\ Good'
<1> DEFINE b == cap[cur][next].buf
<1>1. /\ phase = "before" /\ cap[cur][next].ptr = "user"
      /\ dirty' = [dirty EXCEPT ![b] = TRUE]
      /\ shadow' = [shadow EXCEPT ![b] = IF dirty[b] THEN @ ELSE user[b]]
      /\ temp' = [temp EXCEPT ![b] = temp[b] + 1]
      /\ Repoint("shadow") /\ Advance("kernel") /\ cur' = cur
      /\ UNCHANGED <<view, entry, user, freed, careful>>
  BY DEF PushUser, Upload, Counted, Advance
<1>2. Shapes /\ Registered /\ Uniform
  BY DEF Tables
<1>3. /\ Made(cur) /\ cap[cur] \in [Slot -> Capture] /\ cur \in Functor /\ next \in Slot
      /\ b \in Buf
  BY <1>1, LaunchedIsMade DEF Capture
<1>4. /\ cap' \in [Functor -> {<<>>} \cup [Slot -> Capture]]
      /\ \A f \in Functor \ {cur} : cap'[f] = cap[f]
      /\ cap'[cur] \in [Slot -> Capture]
      /\ \A n \in Slot : /\ cap'[cur][n].buf = cap[cur][n].buf
                         /\ n # next => cap'[cur][n] = cap[cur][n]
      /\ cap'[cur][next].ptr = "shadow"
  BY <1>1, Repointed
<1>5. /\ phase' \in {"before", "kernel"} /\ next' \in Slot
      /\ phase' = "kernel" => next' = 1
      /\ \A n \in Slot : Counts(n)' <=> Counts(n) \/ n = next
      /\ \A n \in Slot : phase' = "before" /\ n >= next' <=> n >= next /\ n # next
  BY <1>1, CountsMove
<1>6. Fresh /\ ~Counts(next)
  <2>1. next \in Nat
    BY <1>3, SlotAssumption DEF Slot
  <2> QED BY <1>1, <1>3, <2>1 DEF Tables, Relaunched, Counts
<1>7. ASSUME NEW c \in Buf
      PROVE  /\ temp'[c] = IF c = b THEN temp[c] + 1 ELSE temp[c]
             /\ dirty'[c] = (c = b \/ dirty[c])
             /\ Pushed(c)' = IF c = b THEN Pushed(c) \cup {next} ELSE Pushed(c)
  <2>1. /\ temp'[c] = IF c = b THEN temp[c] + 1 ELSE temp[c]
        /\ dirty'[c] = (c = b \/ dirty[c])
    BY <1>1, <1>2 DEF Shapes
  <2>2. Pushed(c)' = {n \in Slot : (Counts(n) \/ n = next) /\ cap[cur][n].buf = c}
    BY <1>1, <1>4, <1>5 DEF Pushed
  <2> QED BY <1>3, <2>1, <2>2 DEF Pushed
<1>8. entry[b]
  <2>1. cap[cur][next] = [buf |-> b, ptr |-> "user"]
    <3>1. cap[cur][next] \in Capture
      BY <1>3
    <3> QED BY <1>1, <3>1 DEF Capture
  <2>2. Owned(b, view, cap)
    BY <1>3, <2>1 DEF Owned
  <2> QED BY <1>2, <1>3, <2>2 DEF Registered
<1> HIDE DEF b
<1>9. Shapes'
  BY <1>1, <1>2, <1>3, <1>4, <1>5 DEF Shapes
<1>10. Registered'
  <2> SUFFICES ASSUME NEW c \in Buf, Owned(c, view', cap') \/ dirty'[c] \/ temp'[c] > 0
               PROVE  entry[c]
    BY <1>1 DEF Registered
  <2>1. CASE Owned(c, view', cap')
    <3>1. Owned(c, view, cap)
      BY <1>1, <2>1, OwnersFall
    <3> QED BY <1>2, <3>1 DEF Registered
  <2>2. CASE c = b
    BY <1>8, <2>2
  <2>3. CASE c # b /\ (dirty'[c] \/ temp'[c] > 0)
    BY <1>2, <1>7, <2>3 DEF Registered
  <2> QED BY <2>1, <2>2, <2>3
<1>11. \A n \in Slot : cap'[cur][n].ptr =
           IF phase' = "before" /\ n >= next' THEN "user" ELSE "shadow"
  BY <1>1, <1>4, <1>5, <1>6 DEF Fresh
<1>12. Uniform'
  <2> SUFFICES ASSUME NEW f \in Functor, Made(f)', ~(phase' = "before" /\ f = cur)
               PROVE  Whole(f)'
    BY <1>1 DEF Uniform
  <2>1. CASE f = cur
    BY <1>1, <1>5, <1>11, <2>1 DEF Whole
  <2>2. CASE f # cur
    BY <1>2, <1>4, <2>2 DEF Uniform, Whole, Made
  <2> QED BY <2>1, <2>2
<1>13. Fresh'
  <2>1. Made(cur)'
    BY <1>1, <1>3, <1>4, <1>9, ViewSets DEF Made
  <2>2. ASSUME NEW c \in Buf PROVE temp'[c] = Cardinality(Pushed(c)')
    <3>1. IsFiniteSet(Pushed(c)) /\ next \notin Pushed(c)
      BY <1>6, ViewSets DEF Pushed
    <3>2. Cardinality(Pushed(c) \cup {next}) = Cardinality(Pushed(c)) + 1
      BY <3>1, FS_AddElement
    <3> QED BY <1>6, <1>7, <3>2 DEF Fresh
  <2> QED BY <1>1, <1>5, <1>11, <2>1, <2>2 DEF Fresh
<1>14. Good'
  <2> SUFFICES ASSUME careful
               PROVE  /\ \A c \in Buf : ~freed[c]
                      /\ \A n \in Slot : Elsewhere(cap[cur][n].buf)'
                      /\ \A n \in Slot : Counts(n)' => dirty'[cap'[cur][n].buf]
    BY <1>1 DEF Good
  <2>1. /\ \A c \in Buf : ~freed[c]
        /\ \A n \in Slot : Elsewhere(cap[cur][n].buf)
        /\ \A n \in Slot : Counts(n) => dirty[cap[cur][n].buf]
    BY <1>1 DEF Good
  <2>2. \A n \in Slot : Elsewhere(cap[cur][n].buf)'
    <3> SUFFICES ASSUME NEW n \in Slot
                 PROVE  \/ view'[cap'[cur'][n].buf]
                        \/ \E f \in Functor \ {cur'} : \E m \in DOMAIN cap'[f] :
                               cap'[f][m] = [buf |-> cap'[cur'][n].buf, ptr |-> "user"]
      BY DEF Elsewhere
    <3> QED BY <1>1, <1>4, <2>1 DEF Elsewhere
  <2>3. ASSUME NEW n \in Slot, Counts(n)' PROVE dirty'[cap'[cur][n].buf]
    <3>1. cap[cur][n].buf \in Buf
      BY <1>3 DEF Capture
    <3>2. CASE n = next
      BY <1>3, <1>4, <1>7, <3>2 DEF b
    <3>3. CASE n # next
      BY <1>4, <1>5, <1>7, <2>1, <2>3, <3>1, <3>3
    <3> QED BY <3>2, <3>3
  <2> QED BY <2>1, <2>2, <2>3
<1> QED BY <1>9, <1>10, <1>12, <1>13, <1>14 DEF Tables

\* After the kernel a view gives its count back; a careful client's buffer has
\* another owner then, so it is not deleted.
LEMMA PushShadowStep ==
  ASSUME Tables, Good, PushShadow
  PROVE  Tables' /\ Good'
<1> DEFINE b == cap[cur][next].buf
           last == LastOwner(b)
<1>1. /\ phase = "after" /\ cap[cur][next].ptr = "shadow" /\ temp[b] > 0
      /\ temp' = [temp EXCEPT ![b] = temp[b] - 1]
      /\ freed' = [freed EXCEPT ![b] = last]
      /\ entry' = [entry EXCEPT ![b] = entry[b] /\ ~last]
      /\ dirty' = [dirty EXCEPT ![b] = dirty[b] /\ ~last]
      /\ Advance("host") /\ cur' = cur
      /\ UNCHANGED <<view, cap, user, shadow, careful>>
  BY DEF PushShadow, TempAfter, Advance, memory, Tables, Shapes
<1>2. Shapes /\ Registered /\ Uniform
  BY DEF Tables
<1>3. /\ Made(cur) /\ cap[cur] \in [Slot -> Capture] /\ cur \in Functor /\ next \in Slot
      /\ b \in Buf
  BY <1>1, LaunchedIsMade DEF Capture
<1>4. last \in BOOLEAN /\ (last => temp[b] = 1 /\ ~Owned(b, view, cap))
  BY <1>2, <1>3 DEF LastOwner, TempAfter, Owned, Shapes
<1>5. /\ phase' \in {"after", "host"} /\ next' \in Slot
      /\ \A n \in Slot : Counts(n)' <=> Counts(n) /\ n # next
  BY <1>1, CountsMove
<1>6. Fresh /\ Counts(next)
  <2>1. next \in Nat
    BY <1>3, SlotAssumption DEF Slot
  <2> QED BY <1>1, <1>3, <2>1 DEF Tables, Relaunched, Counts
<1> HIDE DEF last
<1>7. ASSUME NEW c \in Buf
      PROVE  /\ temp'[c] = IF c = b THEN temp[c] - 1 ELSE temp[c]
             /\ Pushed(c)' = IF c = b THEN Pushed(c) \ {next} ELSE Pushed(c)
  <2>1. temp'[c] = IF c = b THEN temp[c] - 1 ELSE temp[c]
    BY <1>1, <1>2 DEF Shapes
  <2>2. Pushed(c)' = {n \in Slot : (Counts(n) /\ n # next) /\ cap[cur][n].buf = c}
    BY <1>1, <1>5 DEF Pushed
  <2> QED BY <1>3, <2>1, <2>2 DEF Pushed
<1>8. ASSUME NEW c \in Buf
      PROVE  /\ entry'[c] = (entry[c] /\ ~(c = b /\ last))
             /\ dirty'[c] = (dirty[c] /\ ~(c = b /\ last))
             /\ freed'[c] = IF c = b THEN last ELSE freed[c]
  BY <1>1, <1>2, <1>4 DEF Shapes
<1>9. Shapes'
  <2>1. temp[b] - 1 \in Nat
    BY <1>1, <1>2, <1>3 DEF Shapes
  <2> QED BY <1>1, <1>2, <1>4, <1>5, <2>1 DEF Shapes
<1>10. Registered'
  <2> SUFFICES ASSUME NEW c \in Buf, Owned(c, view, cap) \/ dirty'[c] \/ temp'[c] > 0
               PROVE  entry'[c]
    BY <1>1 DEF Registered, Owned
  <2>1. CASE c = b /\ last
    <3>1. temp'[c] = 0
      BY <1>4, <1>7, <2>1
    <3>2. ~dirty'[c]
      BY <1>8, <2>1
    <3>3. ~Owned(c, view, cap)
      BY <1>4, <2>1
    <3> QED BY <3>1, <3>2, <3>3
  <2>2. CASE ~(c = b /\ last)
    <3>1. Owned(c, view, cap) \/ dirty[c] \/ temp[c] > 0
      BY <1>1, <1>7, <1>8
    <3>2. entry[c]
      BY <1>2, <3>1 DEF Registered
    <3> QED BY <1>8, <2>2, <3>2
  <2> QED BY <2>1, <2>2
<1>11. Uniform'
  BY <1>1, <1>2, <1>5 DEF Uniform, Whole, Made
<1>12. Fresh'
  <2>1. ASSUME NEW c \in Buf PROVE temp'[c] = Cardinality(Pushed(c)')
    <3>1. IsFiniteSet(Pushed(c)) /\ (c = b => next \in Pushed(c))
      BY <1>3, <1>6, ViewSets DEF Pushed
    <3>2. c = b => Cardinality(Pushed(c) \ {next}) = Cardinality(Pushed(c)) - 1
      BY <3>1, FS_RemoveElement
    <3> QED BY <1>6, <1>7, <3>2 DEF Fresh
  <2>2. \A n \in Slot : cap[cur][n].ptr = "shadow"
    BY <1>1, <1>6 DEF Fresh
  <2> QED BY <1>1, <1>3, <1>5, <2>1, <2>2 DEF Fresh, Made
<1>13. Good'
  <2> SUFFICES ASSUME careful
               PROVE  /\ \A c \in Buf : ~freed'[c]
                      /\ \A n \in Slot : Elsewhere(cap[cur][n].buf)'
    BY <1>1, <1>5 DEF Good, Counts
  <2>1. /\ \A c \in Buf : ~freed[c]
        /\ \A n \in Slot : Elsewhere(cap[cur][n].buf)
    BY <1>1 DEF Good
  <2>2. Owned(b, view, cap)
    BY <1>3, <2>1 DEF Elsewhere, Owned
  <2>3. \A n \in Slot : Elsewhere(cap[cur][n].buf)'
    BY <1>1, <2>1 DEF Elsewhere
  <2> QED BY <1>4, <1>8, <2>1, <2>2, <2>3
<1> QED BY <1>9, <1>10, <1>11, <1>12, <1>13 DEF Tables

\* A pointer that neither table has is met only by a launch of a functor that
\* was launched before, which leaves everything as it is.
LEMMA PushUnknownStep ==
  ASSUME Tables, Good, PushUnknown("before", "kernel") \/ PushUnknown("after", "host")
  PROVE  Tables' /\ Good'
<1>1. /\ phase \in {"before", "after"} /\ Unknown /\ cur' = cur
      /\ phase' \in {phase, "kernel", "host"} /\ (phase = "after" => phase' # "kernel")
      /\ (phase = "before" => phase' # "host")
      /\ UNCHANGED <<view, entry, dirty, temp, freed, user, shadow, cap, careful>>
  BY DEF PushUnknown, Advance, table, memory
<1>2. next' \in Slot
  BY CountsMove DEF PushUnknown
<1>3. /\ Shapes /\ Registered /\ Uniform /\ cap[cur] \in [Slot -> Capture] /\ next \in Slot
  BY <1>1, LaunchedIsMade DEF Tables
<1>4. Relaunched
  <2> SUFFICES ASSUME Fresh PROVE FALSE
    BY DEF Tables
  <2>1. next \in Nat /\ cap[cur][next].buf \in Buf
    BY <1>3, SlotAssumption DEF Slot, Capture
  <2>2. CASE phase = "before"
    BY <1>1, <1>3, <2>1, <2>2 DEF Fresh, Unknown
  <2>3. CASE phase = "after"
    <3>1. next \in Pushed(cap[cur][next].buf)
      BY <1>3, <2>1, <2>3 DEF Pushed, Counts
    <3>2. Cardinality(Pushed(cap[cur][next].buf)) # 0
      BY <3>1, ViewSets, FS_EmptySet
    <3>3. cap[cur][next].ptr = "shadow"
      BY <1>3, <2>3 DEF Fresh
    <3> QED BY <1>1, <2>1, <3>2, <3>3 DEF Fresh, Unknown
  <2> QED BY <1>1, <2>2, <2>3
<1>5. Shapes' /\ Registered'
  BY <1>1, <1>2, <1>3 DEF Shapes, Registered, Owned
<1>6. Uniform'
  <2>1. Whole(cur)
    BY <1>4 DEF Relaunched, Whole
  <2>2. \A f \in Functor : Made(f) => Whole(f)
    BY <1>3, <2>1 DEF Uniform
  <2> QED BY <1>1, <2>2 DEF Uniform, Whole, Made
<1>7. (Fresh \/ Relaunched)'
  <2>1. CASE phase' = "host"
    <3>1. \A b \in Buf : Pushed(b)' = {} /\ temp'[b] = 0
      BY <1>1, <1>4, <2>1 DEF Pushed, Counts, Relaunched
    <3> QED BY <2>1, <3>1, FS_EmptySet DEF Fresh
  <2>2. CASE phase' # "host"
    BY <1>1, <1>4, <2>2 DEF Relaunched, Made
  <2> QED BY <2>1, <2>2
<1>8. Good'
  BY <1>1, <1>4 DEF Good, Relaunched
<1> QED BY <1>5, <1>6, <1>7, <1>8 DEF Tables

\* After the kernel the entries count the views that are still to come: all.
LEMMA KernelDoneStep ==
  ASSUME Tables, Good, KernelDone
  PROVE  Tables' /\ Good'
<1>1. /\ phase = "kernel" /\ phase' = "after"
      /\ UNCHANGED <<view, entry, dirty, temp, freed, user, shadow, cap, cur, next, careful>>
  BY DEF KernelDone, table, memory
<1>2. Shapes' /\ Registered' /\ Uniform'
  BY <1>1 DEF Tables, Shapes, Registered, Owned, Uniform, Whole, Made
<1>3. (Fresh \/ Relaunched)'
  <2>1. CASE Fresh
    <3>1. next = 1 /\ \A n \in Slot : n >= 1
      BY <1>1, <2>1, SlotAssumption DEF Fresh, Slot
    <3>2. \A b \in Buf : Pushed(b)' = Pushed(b)
      BY <1>1, <3>1 DEF Pushed, Counts
    <3> QED BY <1>1, <2>1, <3>2 DEF Fresh, Made
  <2>2. CASE Relaunched
    BY <1>1, <2>2 DEF Relaunched, Made
  <2> QED BY <2>1, <2>2 DEF Tables
<1>4. Good'
  BY <1>1 DEF Good, Elsewhere
<1> QED BY <1>2, <1>3, <1>4 DEF Tables

\* Another thread gives up a view: the client is not careful, but the tables
\* stay in order.
LEMMA OtherCloseStep ==
  ASSUME Tables, Good, NEW b \in Buf, OtherClose(b)
  PROVE  Tables' /\ Good'
<1> DEFINE last == entry[b] /\ temp[b] = 0 /\ ~Owned(b, view', cap)
<1>1. /\ careful' = FALSE /\ view' = [view EXCEPT ![b] = FALSE]
      /\ freed' = [freed EXCEPT ![b] = freed[b] \/ last]
      /\ entry' = [entry EXCEPT ![b] = entry[b] /\ ~last]
      /\ dirty' = [dirty EXCEPT ![b] = dirty[b] /\ ~last]
      /\ UNCHANGED <<temp, user, shadow, cap, phase, cur, next>>
  BY DEF OtherClose, Uses, memory, launch, Tables, Shapes
<1>2. Shapes /\ Registered
  BY DEF Tables
<1>3. last \in BOOLEAN /\ (last => temp[b] = 0 /\ ~Owned(b, view', cap))
  <2>1. Owned(b, view', cap) \in BOOLEAN
    BY <1>1, <1>2 DEF Owned, Shapes
  <2> QED BY <1>2, <2>1 DEF Shapes
<1> HIDE DEF last
<1>4. Shapes'
  BY <1>1, <1>2, <1>3 DEF Shapes
<1>5. \A c \in Buf : Owned(c, view', cap) => Owned(c, view, cap)
  BY <1>1, <1>2 DEF Owned, Shapes
<1>6. ASSUME NEW c \in Buf
      PROVE  /\ entry'[c] = (entry[c] /\ ~(c = b /\ last))
             /\ dirty'[c] = (dirty[c] /\ ~(c = b /\ last))
  BY <1>1, <1>2, <1>3 DEF Shapes
<1>7. Registered'
  <2> SUFFICES ASSUME NEW c \in Buf, Owned(c, view', cap) \/ dirty'[c] \/ temp[c] > 0
               PROVE  entry'[c]
    BY <1>1 DEF Registered, Owned
  <2>1. CASE c = b /\ last
    BY <1>2, <1>3, <1>6, <2>1
  <2>2. CASE ~(c = b /\ last)
    <3>1. Owned(c, view, cap) \/ dirty[c] \/ temp[c] > 0
      BY <1>5, <1>6
    <3>2. entry[c]
      BY <1>2, <3>1 DEF Registered
    <3> QED BY <1>6, <2>2, <3>2
  <2> QED BY <2>1, <2>2
<1>8. Uniform'
  BY <1>1 DEF Tables, Uniform, Whole, Made
<1>9. (Fresh \/ Relaunched)'
  <2>1. CASE Fresh
    <3>1. \A c \in Buf : Pushed(c)' = Pushed(c)
      BY <1>1 DEF Pushed, Counts
    <3> QED BY <1>1, <2>1, <3>1 DEF Fresh, Made
  <2>2. CASE Relaunched
    BY <1>1, <2>2 DEF Relaunched, Made
  <2> QED BY <2>1, <2>2 DEF Tables
<1>10. Good'
  BY <1>1 DEF Good
<1> QED BY <1>4, <1>7, <1>8, <1>9, <1>10 DEF Tables

\* One step of anyone.
LEMMA TablesStep == Tables /\ Good /\ [Next]_vars => Tables' /\ Good'
<1> SUFFICES ASSUME Tables, Good, [Next]_vars PROVE Tables' /\ Good'
  OBVIOUS
<1>1. CASE HostStep
  <2>1. ASSUME NEW b \in Buf, Open(b) \/ Close(b) PROVE Tables' /\ Good'
    BY <2>1, LifeStep
  <2>2. ASSUME NEW f \in Functor, Drop(f) \/ \E bufs \in [Slot -> Buf] : Make(f, bufs)
        PROVE  Tables' /\ Good'
    BY <2>2, LifeStep
  <2>3. ASSUME NEW f \in Functor, Begin(f) PROVE Tables' /\ Good'
    BY <2>3, BeginStep
  <2>4. ASSUME NEW f \in Functor, NEW n \in Slot, OwnSync(f, n) PROVE Tables' /\ Good'
    BY <2>4, AccessStep
  <2>5. ASSUME NEW b \in Buf, NEW op \in {"read", "write"}, NEW v \in Val,
               HostAccess(b, op, v) \/ PlainAccess(b, op, v)
        PROVE  Tables' /\ Good'
    BY <2>5, AccessStep
  <2> QED BY <1>1, <2>1, <2>2, <2>3, <2>4, <2>5 DEF HostStep
<1>2. CASE LaunchStep
  BY <1>2, PushUserStep, PushShadowStep, KernelDoneStep, PushUnknownStep, AccessStep
  DEF LaunchStep
<1>3. CASE OtherStep
  BY <1>3, OtherCloseStep, AccessStep DEF OtherStep
<1>4. CASE UNCHANGED vars
  BY <1>4, AccessStep
<1> QED BY <1>1, <1>2, <1>3, <1>4 DEF Next

\* The tables are in order in every state.
THEOREM TablesAlways == Spec => [](Tables /\ Good)
<1> QED BY TablesInit, TablesStep, PTL DEF Spec

-----------------------------------------------------------------------------
(* What the runs check.                                                    *)

\* Types; an entry counts at most the views of one functor.
THEOREM TypesAlwaysOK == Spec => []TypeOK
<1>1. Tables => TypeOK
  <2> SUFFICES ASSUME Tables PROVE TypeOK
    OBVIOUS
  <2>1. \A b \in Buf : temp[b] \in 0 .. NSlot
    <3>1. 0 \in 0 .. NSlot
      BY SlotAssumption
    <3> QED BY <3>1, ViewSets DEF Tables, Fresh, Relaunched
  <2>2. temp \in [Buf -> 0 .. NSlot]
    BY <2>1 DEF Tables, Shapes
  <2>3. \A f \in Functor : Made(f) => cap[f] \in [Slot -> Capture]
    BY MadeIsWhole DEF Tables
  <2> QED BY <2>2, <2>3 DEF Tables, Shapes, TypeOK
<1> QED BY <1>1, TablesAlways, PTL

\* A launch takes back every entry that it made, and what is not registered
\* has no flag, whatever the client does.
THEOREM TablesAlwaysClean == Spec => []TablesClean
<1>1. Tables => TablesClean
  <2> SUFFICES ASSUME Tables, NEW b \in Buf
               PROVE  /\ phase = "host" => temp[b] = 0
                      /\ ~entry[b] => ~dirty[b] /\ temp[b] = 0
    BY DEF TablesClean
  <2>1. phase = "host" => temp[b] = 0
    BY QuietHost DEF Host
  <2>2. temp[b] \in Nat
    BY DEF Tables, Shapes
  <2>3. ~entry[b] => ~dirty[b] /\ ~(temp[b] > 0)
    BY DEF Tables, Registered
  <2> QED BY <2>1, <2>2, <2>3
<1> QED BY <1>1, TablesAlways, PTL

\* A kernel never runs on a shadow that no entry keeps.
THEOREM ShadowsAlwaysKept == Spec => []ShadowsKept
<1>1. Tables => ShadowsKept
  <2> SUFFICES ASSUME Tables, careful, phase = "kernel", NEW b \in Buf
               PROVE  temp[b] = Cardinality({n \in Slot : cap[cur][n] = [buf |-> b, ptr |-> "shadow"]})
    BY DEF ShadowsKept
  <2>1. Fresh
    BY DEF Tables, Relaunched
  <2>2. cap[cur] \in [Slot -> Capture] /\ \A n \in Slot : cap[cur][n].ptr = "shadow"
    BY <2>1, LaunchedIsMade DEF Fresh
  <2>3. ASSUME NEW n \in Slot
        PROVE  cap[cur][n] = [buf |-> b, ptr |-> "shadow"] <=> cap[cur][n].buf = b
    <3>1. cap[cur][n] \in Capture /\ cap[cur][n].ptr = "shadow"
      BY <2>2
    <3> QED BY <3>1 DEF Capture
  <2>4. Pushed(b) = {n \in Slot : cap[cur][n] = [buf |-> b, ptr |-> "shadow"]}
    BY <2>3 DEF Pushed, Counts
  <2> QED BY <2>1, <2>4 DEF Fresh
<1> QED BY <1>1, TablesAlways, PTL

\* The runtime does not delete the user's memory under a careful client.
THEOREM UserMemoryAlwaysKept == Spec => []UserMemoryKept
<1>1. Good => UserMemoryKept
  BY DEF Good, UserMemoryKept
<1> QED BY <1>1, TablesAlways, PTL

-----------------------------------------------------------------------------
(* One memory.                                                             *)

\* A step that is no access and keeps every current content.
LEMMA MapsToNothing ==
  ASSUME io' = Silent, \A b \in Buf : SyncedUser(b)' = SyncedUser(b)
  PROVE  Coherent!Next
<1> DEFINE g == [b \in {} |-> <<>>]
<1>1. g \in [{} -> Coherent!Content] /\ {} \in SUBSET Buf
  OBVIOUS
<1>2. [b \in Buf |-> <<SyncedUser(b)>>]'
        = [b \in Buf |-> IF b \in {} THEN g[b] ELSE [x \in Buf |-> <<SyncedUser(x)>>][b]]
  OBVIOUS
<1>3. [b \in Buf |-> FALSE] = [b \in Buf |-> [x \in Buf |-> FALSE][b] /\ b \notin {}]
  OBVIOUS
<1>4. Coherent!Settle({})
  BY <1>1, <1>2, <1>3 DEF Coherent!Settle, Coherent!Silent, Silent
<1> QED BY <1>1, <1>4 DEF Coherent!Next

\* An access to the content that counts.
LEMMA MapsToAccess ==
  ASSUME NEW b \in Buf, NEW op \in {"read", "write"}, NEW v \in Val, io' = Access(op, b, v),
         op = "read" => v = SyncedUser(b),
         SyncedUser(b)' = v, \A c \in Buf \ {b} : SyncedUser(c)' = SyncedUser(c)
  PROVE  Coherent!Next
<1> DEFINE mem == [c \in Buf |-> <<SyncedUser(c)>>]
           never == [c \in Buf |-> FALSE]
<1>1. <<v>> \in Coherent!Elems
  <2>1. {1} \in (SUBSET {1}) \ {{}} /\ <<v>> \in [{1} -> Val]
    <3>1. DOMAIN <<v>> = {1} /\ <<v>>[1] = v
      OBVIOUS
    <3>2. <<v>> = [i \in {1} |-> v]
      <4>1. 1 .. 1 = {1}
        OBVIOUS
      <4> QED BY <4>1
    <3> QED BY <3>2
  <2> QED BY <2>1 DEF Coherent!Elems
<1>2. io' = Coherent!Access(op, b, <<v>>)
  BY DEF Access, Coherent!Access
<1>3. CASE op = "read"
  <2>1. \A c \in DOMAIN <<v>> : <<v>>[c] = mem[b][c]
    BY <1>3
  <2>2. [c \in Buf |-> <<SyncedUser(c)>>]' = mem
    <3>1. \A c \in Buf : SyncedUser(c)' = SyncedUser(c)
      BY <1>3
    <3> QED BY <3>1
  <2>3. Coherent!Read(b, <<v>>)
    BY <1>2, <1>3, <2>1, <2>2 DEF Coherent!Read
  <2> QED BY <1>1, <2>3 DEF Coherent!Next
<1>4. CASE op = "write"
  <2>1. Coherent!Overlay(mem[b], <<v>>) = <<v>>
    <3>1. DOMAIN <<v>> = {1} /\ <<v>>[1] = v /\ 1 .. 1 = {1}
      OBVIOUS
    <3>2. [c \in {1} |-> IF c \in DOMAIN <<v>> THEN <<v>>[c] ELSE mem[b][c]] = [c \in {1} |-> v]
      BY <3>1
    <3>3. <<v>> = [c \in {1} |-> v]
      BY <3>1
    <3> QED BY <3>2, <3>3 DEF Coherent!Overlay
  <2>2. [c \in Buf |-> <<SyncedUser(c)>>]' = [mem EXCEPT ![b] = <<v>>]
    <3>1. \A c \in Buf : <<SyncedUser(c)>>' = IF c = b THEN <<v>> ELSE <<SyncedUser(c)>>
      OBVIOUS
    <3> QED BY <3>1
  <2>3. never = [never EXCEPT ![b] = FALSE]
    OBVIOUS
  <2>4. Coherent!Write(b, <<v>>)
    BY <1>2, <1>4, <2>1, <2>2, <2>3 DEF Coherent!Write
  <2> QED BY <1>1, <2>4 DEF Coherent!Next
<1> QED BY <1>3, <1>4

\* The host's steps: a buffer that is not registered has no good shadow, and
\* an access first brings the good copy to user memory.
LEMMA HostRefines ==
  ASSUME Tables, HostStep, careful'
  PROVE  Coherent!Next
<1>1. Shapes /\ \A b \in Buf : ~entry[b] => ~dirty[b]
  BY DEF Tables, Registered
<1>2. \A b \in Buf : SyncedUser(b) \in Val
  BY <1>1 DEF Shapes, SyncedUser
<1>3. ASSUME NEW b \in Buf, Open(b) PROVE Coherent!Next
  <2>1. PICK v \in Val : shadow' = [shadow EXCEPT ![b] = v]
    BY <1>3 DEF Open
  <2>2. ~entry[b] /\ io' = Silent /\ user' = user /\ dirty' = dirty
    BY <1>3 DEF Open
  <2>3. \A c \in Buf : SyncedUser(c)' = SyncedUser(c)
    BY <1>1, <2>1, <2>2 DEF Shapes, SyncedUser
  <2> QED BY <2>2, <2>3, MapsToNothing
<1>4. ASSUME NEW views, NEW caps, Release(views, caps) PROVE Coherent!Next
  <2> DEFINE gone == {b \in Buf : entry[b] /\ ~Owned(b, views, caps)}
  <2>1. /\ user' = [b \in Buf |-> IF b \in gone THEN SyncedUser(b) ELSE user[b]]
        /\ dirty' = [b \in Buf |-> dirty[b] /\ b \notin gone]
        /\ shadow' = shadow /\ io' = Silent
    BY <1>4 DEF Release
  <2> HIDE DEF gone
  <2>2. \A c \in Buf : SyncedUser(c)' = SyncedUser(c)
    BY <1>1, <2>1 DEF Shapes, SyncedUser
  <2> QED BY <2>1, <2>2, MapsToNothing
<1>5. ASSUME NEW f \in Functor, Begin(f) \/ \E bufs \in [Slot -> Buf] : Make(f, bufs)
      PROVE  Coherent!Next
  <2>1. UNCHANGED <<user, shadow, dirty>> /\ io' = Silent
    BY <1>5 DEF Begin, Make, table, memory
  <2> QED BY <2>1, MapsToNothing DEF SyncedUser
<1>6. ASSUME NEW b \in Buf, NEW op \in {"read", "write"}, NEW v \in Val, HostAccess(b, op, v)
      PROVE  Coherent!Next
  <2>1. /\ op = "read" => v = SyncedUser(b)
        /\ user' = [user EXCEPT ![b] = v] /\ dirty' = [dirty EXCEPT ![b] = FALSE]
        /\ shadow' = shadow /\ io' = Access(op, b, v)
    BY <1>6 DEF HostAccess
  <2>2. SyncedUser(b)' = v /\ \A c \in Buf \ {b} : SyncedUser(c)' = SyncedUser(c)
    BY <1>1, <2>1 DEF Shapes, SyncedUser
  <2> QED BY <2>1, <2>2, MapsToAccess
<1>7. ASSUME NEW b \in Buf, NEW op \in {"read", "write"}, NEW v \in Val, PlainAccess(b, op, v)
      PROVE  Coherent!Next
  <2>1. /\ ~entry[b] /\ (op = "read" => v = user[b])
        /\ user' = [user EXCEPT ![b] = v] /\ dirty' = dirty
        /\ shadow' = shadow /\ io' = Access(op, b, v)
    BY <1>7 DEF PlainAccess, table
  <2>2. /\ SyncedUser(b) = user[b]
        /\ SyncedUser(b)' = v /\ \A c \in Buf \ {b} : SyncedUser(c)' = SyncedUser(c)
    BY <1>1, <2>1 DEF Shapes, SyncedUser
  <2> QED BY <2>1, <2>2, MapsToAccess
<1>8. ASSUME NEW f \in Functor, NEW n \in Slot, OwnSync(f, n) PROVE Coherent!Next
  <2>1. Made(f) /\ cap[f][n].ptr # "lost" /\ cap[f][n].ptr # "shadow"
    BY <1>8 DEF OwnSync, Uses
  <2>2. cap[f][n].buf \in Buf /\ cap[f][n].ptr = "user"
    <3>1. cap[f] \in [Slot -> Capture]
      BY <1>1, <2>1, MadeIsWhole
    <3> QED BY <2>1, <3>1 DEF Capture
  <2>3. PICK b \in Buf : b = cap[f][n].buf
    BY <2>2
  <2>4. PICK v \in Val : v = SyncedUser(b)
    BY <1>2, <2>3
  <2>5. /\ user' = [user EXCEPT ![b] = v] /\ dirty' = [dirty EXCEPT ![b] = FALSE]
        /\ shadow' = shadow /\ io' = Access("read", b, v)
    <3>1. user' = [user EXCEPT ![b] = v] /\ shadow' = shadow /\ io' = Access("read", b, v)
      BY <1>8, <2>2, <2>3, <2>4 DEF OwnSync
    <3>2. dirty' = [dirty EXCEPT ![b] = dirty[b] /\ cap[f][n].ptr = "shadow"]
      BY <1>1, <1>8, <2>3 DEF OwnSync, Shapes
    <3>3. (dirty[b] /\ cap[f][n].ptr = "shadow") = FALSE
      BY <2>2
    <3> QED BY <3>1, <3>2, <3>3
  <2>6. SyncedUser(b)' = v /\ \A c \in Buf \ {b} : SyncedUser(c)' = SyncedUser(c)
    BY <1>1, <2>5 DEF Shapes, SyncedUser
  <2> QED BY <2>4, <2>5, <2>6, MapsToAccess
<1>9. ASSUME NEW b \in Buf, Close(b) PROVE Coherent!Next
  BY <1>4, <1>9 DEF Close
<1>10. ASSUME NEW f \in Functor, Drop(f) PROVE Coherent!Next
  BY <1>4, <1>10 DEF Drop
<1> QED BY <1>3, <1>5, <1>6, <1>7, <1>8, <1>9, <1>10 DEF HostStep

\* The launch's steps: the shadow is the good copy before a kernel writes it,
\* and giving the entries back discards none.
LEMMA LaunchRefines ==
  ASSUME Tables, Good, LaunchStep, careful'
  PROVE  Coherent!Next
<1>1. Shapes
  BY DEF Tables
<1>2. CASE PushUser
  <2> DEFINE b == cap[cur][next].buf
  <2>1. /\ dirty' = [dirty EXCEPT ![b] = TRUE]
        /\ shadow' = [shadow EXCEPT ![b] = IF dirty[b] THEN shadow[b] ELSE user[b]]
        /\ user' = user /\ io' = Silent
    BY <1>2 DEF PushUser, Upload
  <2> HIDE DEF b
  <2>2. \A c \in Buf : SyncedUser(c)' = SyncedUser(c)
    BY <1>1, <2>1 DEF Shapes, SyncedUser
  <2> QED BY <2>1, <2>2, MapsToNothing
<1>3. CASE PushShadow
  <2> DEFINE b == cap[cur][next].buf
  <2>1. /\ phase = "after" /\ careful' = careful
        /\ dirty' = [dirty EXCEPT ![b] = @ /\ ~LastOwner(b)]
        /\ UNCHANGED <<user, shadow>> /\ io' = Silent
    BY <1>3 DEF PushShadow, memory
  <2>2. Elsewhere(b) /\ cur \in Functor
    BY <2>1, LaunchedIsMade DEF Good
  <2>3. ~LastOwner(b)
    BY <2>2 DEF LastOwner, Elsewhere, Owned
  <2>4. \A c \in Buf : dirty'[c] = dirty[c]
    BY <1>1, <2>1, <2>3 DEF Shapes
  <2> QED BY <2>1, <2>4, MapsToNothing DEF SyncedUser
<1>4. CASE KernelDone \/ PushUnknown("before", "kernel") \/ PushUnknown("after", "host")
  <2>1. UNCHANGED <<user, shadow, dirty>> /\ io' = Silent
    BY <1>4 DEF KernelDone, PushUnknown, table, memory
  <2> QED BY <2>1, MapsToNothing DEF SyncedUser
<1>5. ASSUME NEW n \in Slot, NEW op \in {"read", "write"}, NEW v \in Val, KernelAccess(n, op, v)
      PROVE  Coherent!Next
  <2>1. /\ phase = "kernel" /\ UNCHANGED <<user, dirty, careful>>
    BY <1>5 DEF KernelAccess, table
  <2>2. cap[cur][n].buf \in Buf /\ dirty[cap[cur][n].buf]
    <3>1. cap[cur] \in [Slot -> Capture]
      BY <2>1, LaunchedIsMade
    <3>2. dirty[cap[cur][n].buf]
      BY <2>1 DEF Good, Counts
    <3> QED BY <3>1, <3>2 DEF Capture
  <2>3. PICK b \in Buf : b = cap[cur][n].buf
    BY <2>2
  <2>4. /\ op = "read" => v = shadow[b]
        /\ shadow' = [shadow EXCEPT ![b] = v] /\ io' = Access(op, b, v)
    BY <1>5, <2>3 DEF KernelAccess
  <2>5. /\ SyncedUser(b) = shadow[b]
        /\ SyncedUser(b)' = v /\ \A c \in Buf \ {b} : SyncedUser(c)' = SyncedUser(c)
    BY <1>1, <2>1, <2>2, <2>3, <2>4 DEF Shapes, SyncedUser
  <2> QED BY <2>4, <2>5, MapsToAccess
<1> QED BY <1>2, <1>3, <1>4, <1>5 DEF LaunchStep

\* A step of a careful client is one of CoherentArray, or none.
LEMMA CarefulStep ==
  ASSUME Tables, Good, [Next]_vars, careful'
  PROVE  Coherent!Next \/ UNCHANGED Coherent!vars
<1>1. CASE HostStep
  BY <1>1, HostRefines
<1>2. CASE LaunchStep
  BY <1>2, LaunchRefines
<1>3. CASE OtherStep
  BY <1>3 DEF OtherStep, OtherAccess, OtherClose, Uses
<1>4. CASE UNCHANGED vars
  BY <1>4 DEF vars, table, memory, Coherent!vars, SyncedUser
<1> QED BY <1>1, <1>2, <1>3, <1>4 DEF Next

\* One memory per buffer, for any number of buffers, functors and views, as
\* long as the client is careful: the exchange of pointers and the entries for
\* shadows do not show.
THEOREM ShadowsActAsOneMemory == Spec => OneMemory
<1>1. Init => Coherent!Init
  <2> SUFFICES ASSUME Init PROVE Coherent!Init
    OBVIOUS
  <2>1. ASSUME NEW b \in Buf PROVE <<SyncedUser(b)>> \in Coherent!Content
    <3>1. SyncedUser(b) \in Val
      BY DEF Init, SyncedUser
    <3>2. <<SyncedUser(b)>> = [i \in {1} |-> SyncedUser(b)]
      <4>1. 1 .. 1 = {1}
        OBVIOUS
      <4> QED BY <4>1
    <3> QED BY <3>1, <3>2 DEF Coherent!Content
  <2>2. [b \in Buf |-> <<SyncedUser(b)>>] \in [Buf -> Coherent!Content]
    BY <2>1
  <2> QED BY <2>2 DEF Init, Coherent!Init, Coherent!Silent, Silent
<1>2. Tables /\ Good /\ [Next]_vars => [careful' => Coherent!Next]_(Coherent!vars)
  BY CarefulStep
<1> QED BY <1>1, <1>2, TablesAlways, PTL DEF Spec, OneMemory

\* What a careful program reads is what was written last.
LEMMA CarefulRead ==
  ASSUME Tables, Good, [Next]_vars, careful', io' # io, io'.op = "read"
  PROVE  io'.elems = <<SyncedUser(io'.buf)>>
<1>1. Coherent!Next
  BY CarefulStep DEF Coherent!vars
<1>2. PICK b \in Buf, e \in Coherent!Elems : Coherent!Read(b, e)
  <2>1. ASSUME NEW b \in Buf, NEW e \in Coherent!Elems PROVE ~Coherent!Write(b, e)
    BY DEF Coherent!Write, Coherent!Access
  <2>2. ASSUME NEW b \in Buf PROVE ~Coherent!Lose(b)
    BY DEF Coherent!Lose, Coherent!Silent
  <2>3. ASSUME NEW S \in SUBSET Buf, Coherent!Settle(S) PROVE FALSE
    <3>1. io' = Coherent!Silent
      BY <2>3, Zenon DEF Coherent!Settle
    <3> QED BY <3>1 DEF Coherent!Silent
  <2> QED BY <1>1, <2>1, <2>2, <2>3 DEF Coherent!Next
<1>3. io'.buf = b /\ io'.elems = e
  BY <1>2 DEF Coherent!Read, Coherent!Access
<1>4. e \in [{1} -> Val]
  BY DEF Coherent!Elems
<1>5. e[1] = SyncedUser(b)
  <2>1. e[1] = [c \in Buf |-> <<SyncedUser(c)>>][b][1]
    BY <1>2, <1>4 DEF Coherent!Read
  <2> QED BY <2>1
<1>6. <<SyncedUser(b)>> = [i \in {1} |-> SyncedUser(b)]
  <2>1. 1 .. 1 = {1}
    OBVIOUS
  <2> QED BY <2>1
<1> QED BY <1>3, <1>4, <1>5, <1>6

\* A client that performs no unsafe operation stays careful.
LEMMA StaysCareful == ASSUME Unsafe = {} PROVE Spec => []careful
<1>1. ASSUME Unsafe = {}, careful, [Next]_vars PROVE careful'
  <2>1. \A op : ~Uses(op)
    BY <1>1 DEF Uses
  <2>2. CASE HostStep
    <3>1. ASSUME NEW b \in Buf, Open(b) \/ Close(b) PROVE careful'
      BY <1>1, <3>1 DEF Open, Close, Release
    <3>2. ASSUME NEW b \in Buf, NEW op, NEW v, HostAccess(b, op, v) \/ PlainAccess(b, op, v)
          PROVE  careful'
      BY <1>1, <3>2 DEF HostAccess, PlainAccess
    <3>3. ASSUME NEW f \in Functor, Drop(f) PROVE careful'
      BY <1>1, <3>3 DEF Drop, Release
    <3>4. ASSUME NEW f \in Functor, Begin(f) PROVE careful'
      BY <1>1, <2>1, <3>4 DEF Begin
    <3>5. ASSUME NEW f \in Functor, NEW bufs, Make(f, bufs) PROVE careful'
      BY <1>1, <3>5 DEF Make
    <3>6. ASSUME NEW f \in Functor, NEW n \in Slot, OwnSync(f, n) PROVE careful'
      BY <1>1, <2>1, <3>6 DEF OwnSync
    <3> QED BY <2>2, <3>1, <3>2, <3>3, <3>4, <3>5, <3>6 DEF HostStep
  <2>3. CASE LaunchStep
    BY <1>1, <2>1, <2>3
    DEF LaunchStep, PushUser, PushShadow, PushUnknown, KernelDone, KernelAccess,
        table, memory, launch
  <2>4. CASE OtherStep
    BY <2>1, <2>4 DEF OtherStep, OtherAccess, OtherClose
  <2>5. CASE UNCHANGED vars
    BY <1>1, <2>5 DEF vars
  <2> QED BY <1>1, <2>2, <2>3, <2>4, <2>5 DEF Next
<1>2. Init => careful
  BY DEF Init
<1> QED BY <1>1, <1>2, PTL DEF Spec

\* A program that launches no functor twice, keeps a view of its own on what it
\* launches, and leaves its views alone while a kernel runs, reads through views
\* and after synchronize what was written last, by the host or by a kernel.
THEOREM ReadsAreCurrent == ASSUME Unsafe = {} PROVE Spec => ReadsCurrent
<1>1. Tables /\ Good /\ careful' /\ [Next]_vars
        => [io' # io /\ io'.op = "read" => io'.elems = <<SyncedUser(io'.buf)>>]_vars
  BY CarefulRead
<1> QED BY <1>1, StaysCareful, TablesAlways, PTL DEF Spec, ReadsCurrent
=============================================================================
