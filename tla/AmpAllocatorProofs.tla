------------------------- MODULE AmpAllocatorProofs -------------------------
(***************************************************************************)
(* Theorems about AmpAllocator, for every set of buffers, elements and     *)
(* values and every bound on the views.                                    *)
(***************************************************************************)
EXTENDS AmpAllocator, TLAPS

(***************************************************************************)
(* Typing.                                                                 *)
(***************************************************************************)

\* Reading b back yields a content and a well-formed entry.
LEMMA SyncedType ==
  ASSUME TypeOK, NEW b \in Buf
  PROVE  SyncedHost(b) \in Content /\ Synced(b) \in RwInfo
BY DEF TypeOK, SyncedHost, Synced, NeedsRead, RwInfo

\* Storing elements into a content yields a content.
LEMMA OverlayType ==
  ASSUME NEW f \in Content, NEW e \in Elems
  PROVE  Overlay(f, e) \in Content
BY DEF Overlay, Content, Elems

\* One element with its value is a set of elements.
LEMMA ElementType ==
  ASSUME NEW c \in Cell, NEW v \in Val
  PROVE  /\ [x \in {c} |-> v] \in Elems
         /\ \A f \in Content : Element(f, c) \in Elems /\ f[c] \in Val
<1>1. {c} \in (SUBSET Cell) \ {{}}
  OBVIOUS
<1>2. ASSUME NEW w \in Val PROVE [x \in {c} |-> w] \in Elems
  <2>1. [x \in {c} |-> w] \in [{c} -> Val]
    OBVIOUS
  <2> QED BY <1>1, <2>1 DEF Elems
<1>3. ASSUME NEW f \in Content PROVE Element(f, c) \in Elems /\ f[c] \in Val
  <2>1. Element(f, c) \in [{c} -> Val] /\ f[c] \in Val
    BY DEF Element, Content
  <2> QED BY <1>1, <2>1 DEF Elems
<1> QED BY <1>2, <1>3

\* An access with its elements is a value of io.
LEMMA AccessType ==
  ASSUME NEW op \in {"read", "write"}, NEW b \in Buf, NEW e \in Elems
  PROVE  Access(op, b, e) \in [op : {"read", "write"}, buf : Buf, elems : Elems]
BY DEF Access

\* Types are kept by every step, so they hold throughout (rw_info's fields,
\* the maps of the backends).
LEMMA TypeStep == TypeOK /\ [Next]_vars => TypeOK'
<1> SUFFICES ASSUME TypeOK, [Next]_vars PROVE TypeOK'
  OBVIOUS
<1>1. ASSUME NEW b \in Buf, OpenAgain(b) PROVE TypeOK'
  <2>1. rwq[b] \in RwInfo /\ rwq[b].ref \in 0 .. MaxRef
    BY DEF TypeOK, RwInfo
  <2>2. rwq[b].ref + 1 \in 0 .. MaxRef
    BY <1>1, <2>1, MaxRefAssumption DEF OpenAgain
  <2>3. [rwq[b] EXCEPT !.ref = @ + 1] \in RwInfo
    BY <2>1, <2>2 DEF RwInfo
  <2> QED BY <1>1, <2>3 DEF TypeOK, OpenAgain
<1>2. ASSUME NEW b \in Buf, OpenNew(b) PROVE TypeOK'
  <2>1. [NoEntry EXCEPT !.ref = 1] \in RwInfo
    <3>1. 1 \in 0 .. MaxRef
      BY MaxRefAssumption
    <3> QED BY <3>1 DEF NoEntry, RwInfo
  <2>2. host' \in [Buf -> Content] /\ dev' \in [Buf -> Content]
    BY <1>2 DEF TypeOK, OpenNew
  <2> QED BY <1>2, <2>1, <2>2 DEF TypeOK, OpenNew
<1>3. ASSUME NEW b \in Buf, Close(b) PROVE TypeOK'
  <2>1. SyncedHost(b) \in Content /\ Synced(b) \in RwInfo
    BY SyncedType
  <2>2. Synced(b).ref = rwq[b].ref
    BY DEF Synced, TypeOK, RwInfo
  <2>3. rwq[b].ref \in 1 .. MaxRef
    BY <1>3, MaxRefAssumption DEF Close, Live, TypeOK, RwInfo
  <2>4. \A entry \in RwInfo : entry.ref = rwq[b].ref => Released(b, entry) \in RwInfo
    BY <2>3, MaxRefAssumption DEF Released, NoEntry, RwInfo
  <2>5. rwq' \in [Buf -> RwInfo]
    BY <1>3, <2>1, <2>2, <2>4 DEF Close, TypeOK
  <2> QED BY <1>3, <2>1, <2>5 DEF Close, TypeOK
<1>4. ASSUME NEW b \in Buf, Synchronize(b) \/ DiscardData(b) \/ SyncAsyncRead(b)
                             \/ SyncAsyncClean(b) \/ SyncAsyncDangling(b)
      PROVE  TypeOK'
  <2>1. SyncedHost(b) \in Content /\ Synced(b) \in RwInfo
    BY SyncedType
  <2>2. /\ Discarded(b) \in RwInfo
        /\ \A o \in Buf : [rwq[o] EXCEPT !.dirty = FALSE] \in RwInfo
    BY DEF TypeOK, Discarded, RwInfo
  <2>3. CASE SyncAsyncDangling(b)
    BY <2>2, <2>3 DEF TypeOK, SyncAsyncDangling
  <2> QED BY <1>4, <2>1, <2>2, <2>3
          DEF TypeOK, Synchronize, DiscardData, SyncAsyncRead, SyncAsyncClean
<1>5. ASSUME NEW b \in Buf, NEW e \in Elems, CopyIn(b, e) PROVE TypeOK'
  <2>1. Stashed(b) \in RwInfo
    BY DEF TypeOK, Stashed, RwInfo
  <2>2. Overlay(host[b], e) \in Content
    BY OverlayType DEF TypeOK
  <2>3. io' \in [op : {"read", "write"}, buf : Buf, elems : Elems]
    BY <1>5, AccessType DEF CopyIn
  <2> QED BY <1>5, <2>1, <2>2, <2>3 DEF TypeOK, CopyIn
<1>6. ASSUME NEW b \in Buf, NEW c \in Cell,
             HostRead(b, c) \/ PlainRead(b, c) \/ CopyOut(b, c)
             \/ Rank1CopyToArray(b, c) \/ ConstViewData(b, c)
             \/ SubscriptRead(b, c)
      PROVE  TypeOK'
  <2>1. SyncedHost(b) \in Content /\ Synced(b) \in RwInfo
    BY SyncedType
  <2>2. Discarded(b) \in RwInfo
    BY DEF TypeOK, Discarded, RwInfo
  <2>3. \A f \in Content : Access("read", b, Element(f, c))
              \in [op : {"read", "write"}, buf : Buf, elems : Elems]
    <3> SUFFICES ASSUME NEW f \in Content
                 PROVE  Access("read", b, Element(f, c))
                          \in [op : {"read", "write"}, buf : Buf, elems : Elems]
      OBVIOUS
    <3>1. f[c] \in Val
      BY DEF Content
    <3>2. Element(f, c) \in Elems
      BY <3>1, ElementType
    <3> QED BY <3>2, AccessType
  <2>4. host[b] \in Content /\ dev[b] \in Content
    BY DEF TypeOK
  <2>5. CASE HostRead(b, c)
    BY <2>5, <2>1, <2>3 DEF TypeOK, HostRead
  <2>6. CASE PlainRead(b, c)
    BY <2>6, <2>3, <2>4 DEF TypeOK, PlainRead
  <2>7. CASE CopyOut(b, c)
    BY <2>7, <2>3, <2>4 DEF TypeOK, CopyOut
  <2>8. CASE Rank1CopyToArray(b, c) \/ ConstViewData(b, c)
    BY <2>8, <2>3, <2>4 DEF TypeOK, Rank1CopyToArray, ConstViewData, UnsyncedRead
  <2>9. CASE SubscriptRead(b, c)
    BY <2>9, <2>2, <2>3, <2>4 DEF TypeOK, SubscriptRead
  <2> QED BY <1>6, <2>5, <2>6, <2>7, <2>8, <2>9
<1>7. ASSUME NEW b \in Buf, NEW c \in Cell, NEW v \in Val,
             HostWrite(b, c, v) \/ PlainWrite(b, c, v)
             \/ SubscriptWrite(b, c, v) \/ KernelWrite(b, c, v)
      PROVE  TypeOK'
  <2> DEFINE e == [x \in {c} |-> v]
  <2>1. SyncedHost(b) \in Content /\ Synced(b) \in RwInfo
    BY SyncedType
  <2>2. Discarded(b) \in RwInfo
    BY DEF TypeOK, Discarded, RwInfo
  <2>3. e \in Elems
    BY ElementType
  <2>4. Access("write", b, e) \in [op : {"read", "write"}, buf : Buf, elems : Elems]
    BY <2>3, AccessType
  <2>5. \A f \in Content : Overlay(f, e) \in Content
    BY <2>3, OverlayType
  <2> HIDE DEF e
  <2>6. CASE HostWrite(b, c, v)
    BY <2>6, <2>1, <2>4, <2>5 DEF TypeOK, HostWrite, e
  <2>7. CASE PlainWrite(b, c, v)
    BY <2>7, <2>4, <2>5 DEF TypeOK, PlainWrite, e
  <2>8. CASE SubscriptWrite(b, c, v)
    BY <2>8, <2>2, <2>4, <2>5 DEF TypeOK, SubscriptWrite, e
  <2>9. CASE KernelWrite(b, c, v)
    BY <2>9, <2>4, <2>5 DEF TypeOK, KernelWrite, e
  <2> QED BY <1>7, <2>6, <2>7, <2>8, <2>9
<1>8. ASSUME NEW caps \in SUBSET Buf, NEW arrays \in SUBSET Buf, Launch(caps, arrays)
      PROVE  TypeOK'
  <2>1. \A b \in Buf : Appended(b) \in RwInfo
    BY DEF TypeOK, Appended, RwInfo
  <2> QED BY <1>8, <2>1 DEF TypeOK, Launch
<1>9. CASE KernelsDone
  BY <1>9 DEF TypeOK, KernelsDone
<1>10. CASE UNCHANGED vars
  BY <1>10 DEF TypeOK, vars
<1> QED
  BY <1>1, <1>2, <1>3, <1>4, <1>5, <1>6, <1>7, <1>8, <1>9, <1>10
  DEF Next, Lifetime, HostAccess, Kernels

\* The initial tables have their types.
LEMMA TypeInit == Init => TypeOK
BY MaxRefAssumption DEF Init, TypeOK, NoEntry, RwInfo

\* Every table keeps its type and no reference count leaves its bounds: no call
\* of the manager puts an entry where the code does not expect one.
THEOREM Typing == Spec => []TypeOK
BY TypeInit, TypeStep, PTL DEF Spec

(***************************************************************************)
(* The flags, whatever the client does.                                    *)
(***************************************************************************)

\* The flags of an entry after each operation on it.
LEMMA EntryFlags ==
  ASSUME TypeOK, NEW b \in Buf
  PROVE  /\ Synced(b).ref = rwq[b].ref /\ Synced(b).discard = rwq[b].discard
         /\ Synced(b).dirty <=> rwq[b].dirty /\ rwq[b].discard
         /\ Discarded(b).ref = rwq[b].ref
         /\ Discarded(b).discard /\ ~Discarded(b).dirty
         /\ Stashed(b).ref = rwq[b].ref /\ Stashed(b).discard = rwq[b].discard
         /\ ~Stashed(b).dirty
         /\ Appended(b).ref = rwq[b].ref /\ Appended(b).dirty
         /\ Appended(b).discard <=> rwq[b].discard /\ rwq[b].dirty
<1>1. rwq[b] \in RwInfo
  BY DEF TypeOK
<1>2. /\ Synced(b).ref = rwq[b].ref /\ Synced(b).discard = rwq[b].discard
      /\ Synced(b).dirty = (rwq[b].dirty /\ ~NeedsRead(b))
  BY <1>1 DEF Synced, RwInfo
<1>3. /\ Discarded(b).ref = rwq[b].ref
      /\ Discarded(b).discard = TRUE /\ Discarded(b).dirty = FALSE
  BY <1>1 DEF Discarded, RwInfo
<1>4. /\ Stashed(b).ref = rwq[b].ref /\ Stashed(b).discard = rwq[b].discard
      /\ Stashed(b).dirty = FALSE
  BY <1>1 DEF Stashed, RwInfo
<1>5. CASE rwq[b].dirty
  BY <1>1, <1>2, <1>3, <1>4, <1>5 DEF Appended, NeedsRead, RwInfo
<1>6. CASE ~rwq[b].dirty
  <2>1. /\ Appended(b).ref = rwq[b].ref /\ Appended(b).dirty = TRUE
        /\ Appended(b).discard = FALSE
    BY <1>1, <1>6 DEF Appended, RwInfo
  <2> QED BY <1>1, <1>2, <1>3, <1>4, <1>6, <2>1 DEF NeedsRead, RwInfo
<1> QED BY <1>5, <1>6

\* No operation leaves an entry both dirty and discarded, and an erased entry
\* leaves nothing behind (AMPAllocator's discard, append, stash, sync, free).
LEMMA FlagsStep == TypeOK /\ FlagsConsistent /\ [Next]_vars => FlagsConsistent'
<1> SUFFICES ASSUME TypeOK, FlagsConsistent, [Next]_vars PROVE FlagsConsistent'
  OBVIOUS
<1> USE DEF FlagsConsistent, Live
<1>0. rwq \in [Buf -> RwInfo] /\ \A b \in Buf : rwq[b].ref \in Nat
  BY DEF TypeOK, RwInfo
<1>a. ASSUME NEW b \in Buf, NEW r, rwq' = [rwq EXCEPT ![b] = r],
             ~(r.dirty /\ r.discard), r.ref > 0, running' = running
      PROVE  FlagsConsistent'
  BY <1>0, <1>a
<1>b. ASSUME UNCHANGED rwq, running' \subseteq running PROVE FlagsConsistent'
  BY <1>b
<1>1. ASSUME NEW b \in Buf, OpenAgain(b) PROVE FlagsConsistent'
  <2> DEFINE r == [rwq[b] EXCEPT !.ref = @ + 1]
  <2>1. r.ref = rwq[b].ref + 1 /\ r.dirty = rwq[b].dirty /\ r.discard = rwq[b].discard
    BY <1>0 DEF RwInfo
  <2>2. rwq' = [rwq EXCEPT ![b] = r] /\ r.ref > 0
    BY <1>0, <1>1, <2>1 DEF OpenAgain
  <2> QED BY <1>1, <1>a, <2>1, <2>2 DEF OpenAgain
<1>2. ASSUME NEW b \in Buf, OpenNew(b) PROVE FlagsConsistent'
  <2> DEFINE r == [NoEntry EXCEPT !.ref = 1]
  <2>1. r.ref > 0 /\ r.dirty = FALSE
    BY DEF NoEntry
  <2> QED BY <1>2, <1>a, <2>1 DEF OpenNew
<1>3. ASSUME NEW b \in Buf, Close(b) PROVE FlagsConsistent'
  <2> DEFINE entry == IF b \in SrcBuf THEN Synced(b) ELSE rwq[b]
  <2>1. rwq' = [rwq EXCEPT ![b] = Released(b, entry)]
    BY <1>3 DEF Close
  <2>2. CASE rwq[b].ref = 1
    BY <1>0, <1>3, <2>1, <2>2 DEF Close, Released, NoEntry
  <2>3. CASE rwq[b].ref # 1
    <3>1. /\ entry \in RwInfo /\ entry.ref = rwq[b].ref
          /\ ~(entry.dirty /\ entry.discard)
      BY <1>0, EntryFlags, SyncedType
    <3>2. /\ Released(b, entry).ref = entry.ref - 1
          /\ Released(b, entry).dirty = entry.dirty
          /\ Released(b, entry).discard = entry.discard
      BY <2>3, <3>1 DEF Released, RwInfo
    <3>3. Released(b, entry).ref > 0
      BY <1>0, <1>3, <2>3, <3>1, <3>2 DEF Close
    <3>4. running' = running
      BY <1>3, <2>3 DEF Close
    <3> QED BY <1>a, <2>1, <3>1, <3>2, <3>3, <3>4
  <2> QED BY <2>2, <2>3
<1>4. ASSUME NEW b \in Buf, SyncAsyncClean(b) PROVE FlagsConsistent'
  <2> DEFINE r == [rwq[b] EXCEPT !.dirty = FALSE]
  <2>1. r.ref = rwq[b].ref /\ r.dirty = FALSE /\ r.discard = rwq[b].discard
    BY <1>0 DEF RwInfo
  <2>2. rwq' = [rwq EXCEPT ![b] = r] /\ UNCHANGED running
    BY <1>4 DEF SyncAsyncClean
  <2> QED BY <1>0, <2>1, <2>2
<1>12. ASSUME NEW b \in Buf, SyncAsyncDangling(b) PROVE FlagsConsistent'
  <2>1. CASE UNCHANGED rwq
    BY <1>12, <1>b, <2>1 DEF SyncAsyncDangling
  <2>2. ASSUME NEW o \in Buf, rwq' = [rwq EXCEPT ![o].dirty = FALSE]
        PROVE  FlagsConsistent'
    <3> DEFINE r == [rwq[o] EXCEPT !.dirty = FALSE]
    <3>1. r.ref = rwq[o].ref /\ r.dirty = FALSE /\ r.discard = rwq[o].discard
      BY <1>0 DEF RwInfo
    <3>2. rwq' = [rwq EXCEPT ![o] = r] /\ UNCHANGED running
      BY <1>12, <2>2 DEF SyncAsyncDangling
    <3> QED BY <1>0, <3>1, <3>2
  <2> QED BY <1>12, <2>1, <2>2 DEF SyncAsyncDangling
<1>5. ASSUME NEW b \in Buf, Live(b), UNCHANGED running,
             \E r \in {rwq[b], Synced(b), Discarded(b), Stashed(b)} :
                 rwq' = [rwq EXCEPT ![b] = r]
      PROVE  FlagsConsistent'
  BY <1>0, <1>5, <1>a, EntryFlags
<1>6. ASSUME NEW b \in Buf, \/ Synchronize(b) \/ DiscardData(b)
                            \/ SyncAsyncRead(b) \/ \E e \in Elems : CopyIn(b, e)
      PROVE  FlagsConsistent'
  BY <1>6, <1>5, <1>b DEF Synchronize, DiscardData, SyncAsyncRead, CopyIn, CanSync
<1>7. ASSUME NEW b \in Buf, NEW c \in Cell,
             HostRead(b, c) \/ PlainRead(b, c) \/ CopyOut(b, c)
             \/ Rank1CopyToArray(b, c) \/ ConstViewData(b, c)
             \/ SubscriptRead(b, c)
      PROVE  FlagsConsistent'
  BY <1>7, <1>5, <1>b DEF HostRead, PlainRead, CopyOut, Rank1CopyToArray,
              ConstViewData, UnsyncedRead, SubscriptRead, CanSync
<1>8. ASSUME NEW b \in Buf, NEW c \in Cell, NEW v \in Val,
             HostWrite(b, c, v) \/ PlainWrite(b, c, v)
             \/ SubscriptWrite(b, c, v) \/ KernelWrite(b, c, v)
      PROVE  FlagsConsistent'
  BY <1>8, <1>5, <1>b DEF HostWrite, PlainWrite, SubscriptWrite, KernelWrite, CanSync
<1>9. ASSUME NEW caps \in SUBSET Buf, NEW arrays \in SUBSET Buf, Launch(caps, arrays)
      PROVE  FlagsConsistent'
  BY <1>9, EntryFlags DEF Launch
<1>10. CASE KernelsDone
  BY <1>10, <1>b DEF KernelsDone
<1>11. CASE UNCHANGED vars
  BY <1>11, <1>b DEF vars
<1> QED
  BY <1>1, <1>2, <1>3, <1>4, <1>6, <1>7, <1>8, <1>9, <1>10, <1>11, <1>12
  DEF Next, Lifetime, HostAccess, Kernels

\* The flags stay consistent under every client, also one that uses the
\* operations named in UnsafeOps.
THEOREM FlagsAlwaysConsistent == Spec => []FlagsConsistent
<1>1. Init => FlagsConsistent
  BY DEF Init, FlagsConsistent, NoEntry, Live
<1> QED BY <1>1, TypeInit, TypeStep, FlagsStep, PTL DEF Spec

(***************************************************************************)
(* Kernels and read backs in flight, for a safe client.                    *)
(***************************************************************************)
InFlight == PendingResultsKept /\ StrayStoresUnread /\ ReadBackAgrees

\* What InFlight says of one buffer.
Tracked(b) ==
  /\ b \in bound /\ b \in DevBuf => rwq[b].dirty
  /\ b \in running \ bound => InOrderQueue /\ ~rwq[b].dirty
  /\ b \notin dangling
  /\ b \in syncing => /\ rwq[b].ref > 0 /\ rwq[b].dirty /\ ~rwq[b].discard
                      /\ b \notin running
                      /\ b \in DevBuf => host[b] = dev[b]

\* What InFlight says of a safe client, buffer by buffer.
LEMMA InFlightPointwise ==
  ASSUME TypeOK, SafeClient
  PROVE  InFlight <=> \A b \in Buf : Tracked(b)
BY DEF TypeOK, InFlight, PendingResultsKept, StrayStoresUnread, ReadBackAgrees,
       Tracked, Live, NeedsRead

\* A safe host access finds no read back of its buffer in flight, and a kernel
\* on it only behind the in-order queue.
LEMMA FreeWhenSafe ==
  ASSUME SafeClient, NEW b \in Buf, Free(b)
  PROVE  b \notin syncing /\ (InOrderQueue \/ b \notin running)
BY DEF SafeClient, Free

\* The client is the same throughout.
LEMMA ClientStays == [Next]_vars => unsafe' = unsafe
<1> SUFFICES ASSUME [Next]_vars PROVE unsafe' = unsafe
  OBVIOUS
<1>1. CASE Lifetime
  BY <1>1 DEF Lifetime, OpenAgain, OpenNew, Close
<1>2. CASE HostAccess
  <2>1. ASSUME NEW b \in Buf, \/ Synchronize(b) \/ DiscardData(b) \/ SyncAsyncRead(b)
                              \/ SyncAsyncClean(b) \/ SyncAsyncDangling(b)
                              \/ \E e \in Elems : CopyIn(b, e)
        PROVE  unsafe' = unsafe
    BY <2>1 DEF Synchronize, DiscardData, SyncAsyncRead, SyncAsyncClean,
                SyncAsyncDangling, CopyIn
  <2>2. ASSUME NEW b \in Buf, NEW c \in Cell,
               \/ HostRead(b, c) \/ PlainRead(b, c) \/ CopyOut(b, c)
               \/ Rank1CopyToArray(b, c) \/ ConstViewData(b, c)
               \/ SubscriptRead(b, c)
               \/ \E v \in Val : \/ HostWrite(b, c, v) \/ PlainWrite(b, c, v)
                                 \/ SubscriptWrite(b, c, v)
        PROVE  unsafe' = unsafe
    BY <2>2 DEF HostRead, PlainRead, CopyOut, Rank1CopyToArray, ConstViewData,
                UnsyncedRead, SubscriptRead, HostWrite, PlainWrite, SubscriptWrite
  <2> QED BY <1>2, <2>1, <2>2 DEF HostAccess
<1>3. CASE Kernels
  BY <1>3 DEF Kernels, Launch, KernelWrite, KernelsDone
<1>4. CASE UNCHANGED vars
  BY <1>4 DEF vars
<1> QED BY <1>1, <1>2, <1>3, <1>4 DEF Next

\* Every step keeps what the pending operations of a safe client rely on.
LEMMA InFlightStep ==
  ASSUME TypeOK, TypeOK', FlagsConsistent, InFlight, [Next]_vars
  PROVE  InFlight'
<1>a. unsafe' = unsafe
  BY ClientStays
<1>b. CASE ~SafeClient
  BY <1>a, <1>b DEF InFlight, PendingResultsKept, StrayStoresUnread, ReadBackAgrees,
                    SafeClient
<1> SUFFICES ASSUME SafeClient PROVE InFlight'
  BY <1>b
<1> DEFINE Same(o) == /\ rwq'[o] = rwq[o] /\ host'[o] = host[o] /\ dev'[o] = dev[o]
                      /\ o \in running' <=> o \in running
                      /\ o \in bound' <=> o \in bound
                      /\ o \in syncing' <=> o \in syncing
                      /\ o \in dangling' <=> o \in dangling
<1>0. /\ rwq \in [Buf -> RwInfo] /\ host \in [Buf -> Content]
      /\ dev \in [Buf -> Content] /\ running \subseteq Buf /\ bound \subseteq running
  BY DEF TypeOK
<1>1. \A b \in Buf : Tracked(b)
  BY InFlightPointwise
<1>2. ASSUME \A b \in Buf : Tracked(b)' PROVE InFlight'
  BY <1>2 DEF TypeOK, InFlight, PendingResultsKept, StrayStoresUnread, ReadBackAgrees,
              Tracked, Live, NeedsRead
<1>3. ASSUME NEW o \in Buf, Same(o) PROVE Tracked(o)'
  BY <1>1, <1>3 DEF Tracked
<1>4. ASSUME NEW b \in Buf, \A o \in Buf \ {b} : Same(o), Tracked(b)' PROVE InFlight'
  BY <1>2, <1>3, <1>4
<1>5. ASSUME \A o \in Buf : Same(o) PROVE InFlight'
  BY <1>2, <1>3, <1>5
<1>6. ASSUME NEW b \in Buf, OpenAgain(b) PROVE InFlight'
  <2>1. \A o \in Buf \ {b} : Same(o)
    BY <1>0, <1>6 DEF OpenAgain
  <2>2. /\ rwq'[b].ref = rwq[b].ref + 1 /\ rwq'[b].dirty = rwq[b].dirty
        /\ rwq'[b].discard = rwq[b].discard
    BY <1>0, <1>6 DEF OpenAgain, RwInfo
  <2>3. Tracked(b)'
    BY <1>0, <1>1, <1>6, <2>2 DEF Tracked, OpenAgain, RwInfo
  <2> QED BY <1>4, <2>1, <2>3
<1>7. ASSUME NEW b \in Buf, OpenNew(b) PROVE InFlight'
  <2>1. \A o \in Buf \ {b} : Same(o)
    BY <1>0, <1>7 DEF OpenNew
  <2>2. b \notin running /\ b \notin syncing /\ b \notin bound
    BY <1>0, <1>1, <1>7 DEF OpenNew, FlagsConsistent, Tracked, Live
  <2>3. Tracked(b)'
    BY <1>1, <1>7, <2>2 DEF Tracked, OpenNew
  <2> QED BY <1>4, <2>1, <2>3
<1>8. ASSUME NEW b \in Buf, Close(b) PROVE InFlight'
  <2>1. \A o \in Buf \ {b} : Same(o)
    BY <1>0, <1>8 DEF Close
  <2>2. b \notin syncing /\ (InOrderQueue \/ b \notin running)
    BY <1>8, FreeWhenSafe DEF Close
  <2>3. ASSUME rwq[b].ref = 1 PROVE Tracked(b)'
    <3>1. /\ running' = running \ {b} /\ bound' = bound \ {b}
          /\ syncing' = syncing \ {b} /\ b \notin dangling'
      BY <1>1, <1>8, <2>2, <2>3 DEF Close, Tracked
    <3> QED BY <2>2, <3>1 DEF Tracked
  <2>4. ASSUME rwq[b].ref # 1 PROVE Tracked(b)'
    <3> DEFINE entry == IF b \in SrcBuf THEN Synced(b) ELSE rwq[b]
    <3>1. rwq' = [rwq EXCEPT ![b] = Released(b, entry)]
      BY <1>8 DEF Close
    <3>2. /\ entry \in RwInfo
          /\ entry.dirty <=> rwq[b].dirty /\ (b \in SrcBuf => rwq[b].discard)
      BY <1>0, EntryFlags, SyncedType
    <3>3. Released(b, entry).dirty = entry.dirty
      BY <2>4, <3>2 DEF Released, RwInfo
    <3>4. UNCHANGED <<running, bound, syncing, dangling>>
      BY <1>8, <2>4 DEF Close
    <3>5. rwq'[b].dirty <=> rwq[b].dirty /\ (b \in SrcBuf => rwq[b].discard)
      BY <1>0, <3>1, <3>2, <3>3
    <3>6. b \in running => (rwq'[b].dirty <=> rwq[b].dirty)
      BY <1>8, <2>2, <3>5 DEF Close, Drained, NeedsRead
    <3> QED BY <1>0, <1>1, <2>2, <3>4, <3>6 DEF Tracked
  <2> QED BY <1>4, <2>1, <2>3, <2>4
<1>9. ASSUME NEW b \in Buf, CanSync(b),
             UNCHANGED <<dev, running, bound, syncing, dangling>>,
             rwq' = [rwq EXCEPT ![b] = Synced(b)],
             NEW f, host' = [host EXCEPT ![b] = f]
      PROVE  InFlight'
  <2>1. \A o \in Buf \ {b} : Same(o)
    BY <1>0, <1>9
  <2>2. b \notin syncing /\ (InOrderQueue \/ b \notin running)
    BY <1>9, FreeWhenSafe DEF CanSync
  <2>3. rwq'[b].dirty <=> rwq[b].dirty /\ rwq[b].discard
    BY <1>0, <1>9, EntryFlags
  <2>4. b \in running => (rwq'[b].dirty <=> rwq[b].dirty)
    BY <1>9, <2>2, <2>3 DEF CanSync, Drained, NeedsRead
  <2>5. Tracked(b)'
    BY <1>0, <1>1, <1>9, <2>2, <2>4, <2>3 DEF Tracked
  <2> QED BY <1>4, <2>1, <2>5
<1>10. ASSUME NEW b \in Buf,
              Synchronize(b) \/ \E c \in Cell : \/ HostRead(b, c)
                                                \/ \E v \in Val : HostWrite(b, c, v)
       PROVE  InFlight'
  BY <1>10, <1>9 DEF Synchronize, HostRead, HostWrite
<1>11. ASSUME NEW b \in Buf, NEW c \in Cell,
              \/ PlainRead(b, c) \/ CopyOut(b, c)
              \/ Rank1CopyToArray(b, c) \/ ConstViewData(b, c)
       PROVE  InFlight'
  BY <1>11, <1>5 DEF PlainRead, CopyOut, Rank1CopyToArray, ConstViewData, UnsyncedRead
<1>12. ASSUME NEW b \in Buf, NEW c \in Cell, NEW v \in Val, PlainWrite(b, c, v)
       PROVE  InFlight'
  <2>1. \A o \in Buf \ {b} : Same(o)
    BY <1>0, <1>12 DEF PlainWrite
  <2>2. Tracked(b)'
    BY <1>0, <1>1, <1>12 DEF PlainWrite, Tracked, Live, RwInfo
  <2> QED BY <1>4, <2>1, <2>2
<1>13. ASSUME NEW b \in Buf, Free(b), b \notin DevBuf \/ bound' = bound \ {b},
              NEW r \in {Stashed(b), Discarded(b)}, rwq' = [rwq EXCEPT ![b] = r],
              bound' \in {bound, bound \ {b}},
              UNCHANGED <<dev, running, syncing, dangling>>,
              NEW f, host' = [host EXCEPT ![b] = f]
       PROVE  InFlight'
  <2>1. \A o \in Buf \ {b} : Same(o)
    BY <1>0, <1>13
  <2>2. b \notin syncing /\ (InOrderQueue \/ b \notin running)
    BY <1>13, FreeWhenSafe
  <2>3. ~rwq'[b].dirty
    BY <1>0, <1>13, EntryFlags
  <2>4. Tracked(b)'
    BY <1>0, <1>1, <1>13, <2>2, <2>3 DEF Tracked
  <2> QED BY <1>4, <2>1, <2>4
<1>14. ASSUME NEW b \in Buf, DiscardData(b) \/ \E e \in Elems : CopyIn(b, e)
       PROVE  InFlight'
  <2>1. host = [host EXCEPT ![b] = host[b]]
    BY <1>0
  <2> QED BY <1>13, <1>14, <2>1 DEF DiscardData, CopyIn
<1>15. ASSUME NEW b \in Buf, NEW c \in Cell,
              SubscriptRead(b, c) \/ \E v \in Val : SubscriptWrite(b, c, v)
       PROVE  InFlight'
  <2>1. host = [host EXCEPT ![b] = host[b]]
    BY <1>0
  <2>2. b \notin DevBuf
    BY <1>15 DEF SafeClient, SubscriptRead, SubscriptWrite
  <2> QED BY <1>13, <1>15, <2>1, <2>2 DEF SubscriptRead, SubscriptWrite
<1>16. ASSUME NEW b \in Buf, SyncAsyncRead(b) PROVE InFlight'
  <2>1. \A o \in Buf \ {b} : Same(o)
    BY <1>0, <1>16 DEF SyncAsyncRead
  <2>2. b \notin running
    BY <1>16, FreeWhenSafe DEF SyncAsyncRead, CanSync, Drained
  <2>3. Tracked(b)'
    BY <1>0, <1>1, <1>16, <2>2
       DEF SyncAsyncRead, Tracked, CanSync, Live, NeedsRead, SyncedHost
  <2> QED BY <1>4, <2>1, <2>3
<1>17. ASSUME NEW b \in Buf, SyncAsyncClean(b) PROVE InFlight'
  <2>1. \A o \in Buf \ {b} : Same(o)
    BY <1>0, <1>17 DEF SyncAsyncClean
  <2>2. b \notin running /\ b \notin bound /\ b \notin syncing'
    BY <1>0, <1>1, <1>17 DEF SyncAsyncClean, Tracked
  <2>3. Tracked(b)'
    BY <1>1, <1>17, <2>2 DEF SyncAsyncClean, Tracked
  <2> QED BY <1>4, <2>1, <2>3
<1>22. ASSUME NEW b \in Buf, SyncAsyncDangling(b) PROVE InFlight'
  BY <1>1, <1>22 DEF SyncAsyncDangling, Tracked
<1>18. ASSUME NEW caps \in SUBSET Buf, NEW arrays \in SUBSET Buf, Launch(caps, arrays)
       PROVE  InFlight'
  <2>1. \A o \in Buf \ caps : Same(o)
    BY <1>0, <1>18 DEF Launch
  <2>2. ASSUME NEW b \in caps PROVE Tracked(b)'
    <3>1. b \notin syncing
      BY <1>18, FreeWhenSafe DEF Launch
    <3>2. rwq'[b].dirty
      BY <1>18, EntryFlags DEF Launch
    <3> QED BY <1>1, <1>18, <3>1, <3>2 DEF Launch, Tracked
  <2> QED BY <1>2, <1>3, <2>1, <2>2
<1>19. ASSUME NEW b \in Buf, NEW c \in Cell, NEW v \in Val, KernelWrite(b, c, v)
       PROVE  InFlight'
  <2>1. \A o \in Buf \ {b} : Same(o)
    BY <1>0, <1>19 DEF KernelWrite
  <2>2. Tracked(b)'
    BY <1>0, <1>1, <1>19 DEF KernelWrite, Tracked
  <2> QED BY <1>4, <2>1, <2>2
<1>20. CASE KernelsDone
  <2>1. \A b \in Buf : Tracked(b)'
    BY <1>1, <1>20 DEF KernelsDone, Tracked
  <2> QED BY <1>2, <2>1
<1>21. CASE UNCHANGED vars
  BY <1>5, <1>21 DEF vars
<1> QED
  BY <1>6, <1>7, <1>8, <1>10, <1>11, <1>12, <1>14, <1>15, <1>16, <1>17, <1>18,
     <1>19, <1>20, <1>21, <1>22
  DEF Next, Lifetime, HostAccess, Kernels

(***************************************************************************)
(* Two copies are one memory.                                              *)
(***************************************************************************)

\* What a step must do to b, and to nothing else, to be a step of
\* CoherentArray: store elements.
LEMMA MapsToWrite ==
  ASSUME NEW b \in Buf, NEW e \in Elems, io' = Access("write", b, e),
         Current(b)' = Overlay(Current(b), e), Lost(b)' = FALSE,
         \A o \in Buf \ {b} : Current(o)' = Current(o) /\ Lost(o)' = Lost(o)
  PROVE  Coherent!Next
<1>1. [o \in Buf |-> Current(o)]' = [[o \in Buf |-> Current(o)] EXCEPT ![b] =
                                      Coherent!Overlay([o \in Buf |-> Current(o)][b], e)]
  BY DEF Coherent!Overlay, Overlay
<1>2. [o \in Buf |-> Lost(o)]' = [[o \in Buf |-> Lost(o)] EXCEPT ![b] = FALSE]
  OBVIOUS
<1>3. Coherent!Write(b, e)
  BY <1>1, <1>2 DEF Coherent!Write, Coherent!Access, Access
<1> QED BY <1>3 DEF Coherent!Next, Coherent!Elems, Elems

\* Obtain current elements.
LEMMA MapsToRead ==
  ASSUME NEW b \in Buf, NEW e \in Elems, io' = Access("read", b, e),
         \A c \in DOMAIN e : e[c] = Current(b)[c],
         \A o \in Buf : Current(o)' = Current(o) /\ Lost(o)' = Lost(o)
  PROVE  Coherent!Next
<1>1. /\ [o \in Buf |-> Current(o)]' = [o \in Buf |-> Current(o)]
      /\ [o \in Buf |-> Lost(o)]' = [o \in Buf |-> Lost(o)]
  OBVIOUS
<1>2. Coherent!Read(b, e)
  BY <1>1 DEF Coherent!Read, Coherent!Access, Access
<1> QED BY <1>2 DEF Coherent!Next, Coherent!Elems, Elems

\* Give up the content.
LEMMA MapsToLose ==
  ASSUME NEW b \in Buf, io' = Silent, ~Lost(b), Lost(b)' = TRUE,
         Current(b)' \in Content,
         \A o \in Buf \ {b} : Current(o)' = Current(o) /\ Lost(o)' = Lost(o)
  PROVE  Coherent!Next
<1>1. [o \in Buf |-> Current(o)]' = [[o \in Buf |-> Current(o)] EXCEPT ![b] = Current(b)']
  OBVIOUS
<1>2. [o \in Buf |-> Lost(o)]' = [[o \in Buf |-> Lost(o)] EXCEPT ![b] = TRUE]
  OBVIOUS
<1>3. Coherent!Lose(b)
  BY <1>1, <1>2 DEF Coherent!Lose, Coherent!Silent, Silent, Content, Coherent!Content
<1> QED BY <1>3 DEF Coherent!Next

\* Bring lost contents back, or do nothing that shows.
LEMMA MapsToSettle ==
  ASSUME NEW S \in SUBSET Buf, io' = Silent,
         \A b \in S : Lost(b) /\ Lost(b)' = FALSE /\ Current(b)' \in Content,
         \A o \in Buf \ S : Current(o)' = Current(o) /\ Lost(o)' = Lost(o)
  PROVE  Coherent!Next
<1> DEFINE g == [b \in S |-> Current(b)']
<1>1. g \in [S -> Coherent!Content]
  BY DEF Content, Coherent!Content
<1>2. [o \in Buf |-> Current(o)]'
        = [o \in Buf |-> IF o \in S THEN g[o] ELSE [x \in Buf |-> Current(x)][o]]
  OBVIOUS
<1>3. [o \in Buf |-> Lost(o)]' = [o \in Buf |-> [x \in Buf |-> Lost(x)][o] /\ o \notin S]
  <2>1. ASSUME NEW o \in Buf PROVE Lost(o) \in BOOLEAN
    BY DEF Lost
  <2> QED BY <2>1
<1>4. Coherent!Settle(S)
  BY <1>1, <1>2, <1>3 DEF Coherent!Settle, Coherent!Silent, Silent
<1> QED BY <1>4 DEF Coherent!Next

\* Nothing that shows.
LEMMA MapsToNothing ==
  ASSUME io' = Silent, \A o \in Buf : Current(o)' = Current(o) /\ Lost(o)' = Lost(o)
  PROVE  Coherent!Next
<1>1. {} \in SUBSET Buf /\ Buf \ {} = Buf
  OBVIOUS
<1> QED BY <1>1, MapsToSettle

\* With safe clients every step is one of the coherent array, or none.
LEMMA RefinementStep ==
  ASSUME SafeClient, TypeOK, TypeOK', FlagsConsistent, InFlight, [Next]_vars
  PROVE  [Coherent!Next]_(Coherent!vars)
<1> DEFINE Same(o) == Current(o)' = Current(o) /\ Lost(o)' = Lost(o)
<1>0. /\ rwq \in [Buf -> RwInfo] /\ host \in [Buf -> Content]
      /\ dev \in [Buf -> Content] /\ running \subseteq Buf /\ bound \subseteq running
  BY DEF TypeOK
<1>1. \A b \in Buf : Tracked(b)
  BY InFlightPointwise
<1>2. \A b \in Buf : Current(b) \in Content /\ Current(b)' \in Content
                     /\ Lost(b) \in BOOLEAN
  BY DEF TypeOK, Current, Lost
<1>3. ASSUME NEW o \in Buf, rwq'[o] = rwq[o], host'[o] = host[o], dev'[o] = dev[o]
      PROVE  Same(o)
  BY <1>3 DEF Current, Lost, Live
<1>4. \A b \in Buf : ~(rwq[b].dirty /\ rwq[b].discard)
  BY DEF FlagsConsistent
<1>5. ASSUME NEW b \in Buf, OpenAgain(b) PROVE Coherent!Next
  <2>1. \A o \in Buf \ {b} : Same(o)
    BY <1>0, <1>3, <1>5 DEF OpenAgain
  <2>2. /\ rwq'[b].ref = rwq[b].ref + 1 /\ rwq'[b].dirty = rwq[b].dirty
        /\ rwq'[b].discard = rwq[b].discard
    BY <1>0, <1>5 DEF OpenAgain, RwInfo
  <2>3. Same(b)
    BY <1>0, <1>5, <2>2 DEF OpenAgain, Current, Lost, Live, RwInfo
  <2> QED BY <1>5, <2>1, <2>3, MapsToNothing DEF OpenAgain
<1>6. ASSUME NEW b \in Buf, OpenNew(b) PROVE Coherent!Next
  <2>1. \A o \in Buf \ {b} : Same(o)
    BY <1>0, <1>3, <1>6 DEF OpenNew
  <2>2. rwq'[b].ref = 1 /\ rwq'[b].dirty = FALSE /\ rwq'[b].discard = FALSE
    BY <1>0, <1>6 DEF OpenNew, NoEntry
  <2>3. ~rwq[b].dirty /\ ~rwq[b].discard /\ ~Live(b) /\ ~(rwq[b].ref > 0)
    BY <1>6 DEF OpenNew, FlagsConsistent, Live
  <2>4. CASE b \in SrcBuf
    <3>1. Same(b)
      BY <1>6, <2>2, <2>3, <2>4 DEF OpenNew, Current, Lost, Live
    <3> QED BY <1>6, <2>1, <3>1, MapsToNothing DEF OpenNew
  <2>5. CASE b \notin SrcBuf
    <3>1. Lost(b) /\ Lost(b)' = FALSE
      BY <2>2, <2>3, <2>5 DEF Lost, Live
    <3>2. io' = Silent /\ {b} \in SUBSET Buf
      BY <1>6 DEF OpenNew
    <3> QED BY <1>2, <2>1, <3>1, <3>2, MapsToSettle
  <2> QED BY <2>4, <2>5
<1>7. ASSUME NEW b \in Buf, Close(b) PROVE Coherent!Next
  <2>1. \A o \in Buf \ {b} : Same(o)
    BY <1>0, <1>3, <1>7 DEF Close
  <2>2. b \notin syncing /\ Live(b) /\ io' = Silent /\ rwq[b].ref \in Nat
    BY <1>0, <1>7, FreeWhenSafe DEF Close, RwInfo
  <2> DEFINE entry == IF b \in SrcBuf THEN Synced(b) ELSE rwq[b]
  <2>3. rwq'[b] = Released(b, entry) /\ dev' = dev
        /\ host'[b] = IF b \in SrcBuf THEN SyncedHost(b) ELSE host[b]
    BY <1>0, <1>7 DEF Close
  <2>4. /\ entry \in RwInfo /\ entry.ref = rwq[b].ref
        /\ entry.discard = rwq[b].discard
        /\ entry.dirty <=> rwq[b].dirty /\ (b \in SrcBuf => rwq[b].discard)
    BY <1>0, EntryFlags, SyncedType
  <2>5. CASE rwq[b].ref = 1
    <3>1. rwq'[b].ref = 0 /\ rwq'[b].dirty = FALSE /\ rwq'[b].discard = FALSE
      BY <2>3, <2>5 DEF Released, NoEntry
    <3>2. CASE b \in SrcBuf /\ Lost(b)
      <4>1. Lost(b)' = FALSE
        BY <3>1, <3>2 DEF Lost
      <4>2. {b} \in SUBSET Buf
        OBVIOUS
      <4> QED BY <1>2, <2>1, <2>2, <3>2, <4>1, <4>2, MapsToSettle
    <3>3. CASE b \in SrcBuf /\ ~Lost(b)
      <4>1. Same(b)
        BY <1>4, <2>2, <2>3, <3>1, <3>3, BufAssumption
           DEF Lost, Current, SyncedHost, NeedsRead
      <4> QED BY <2>1, <2>2, <4>1, MapsToNothing
    <3>4. CASE b \notin SrcBuf
      <4>1. Lost(b)' = TRUE
        BY <3>1, <3>4 DEF Lost, Live
      <4>2. CASE Lost(b)
        <5>1. Same(b)
          BY <1>4, <2>2, <2>3, <3>1, <3>4, <4>1, <4>2 DEF Lost, Current
        <5> QED BY <2>1, <2>2, <5>1, MapsToNothing
      <4>3. CASE ~Lost(b)
        BY <1>2, <2>1, <2>2, <4>1, <4>3, MapsToLose
      <4> QED BY <4>2, <4>3
    <3> QED BY <3>2, <3>3, <3>4
  <2>6. CASE rwq[b].ref # 1
    <3>1. /\ rwq'[b].ref = rwq[b].ref - 1
          /\ rwq'[b].dirty = entry.dirty /\ rwq'[b].discard = rwq[b].discard
      BY <2>3, <2>4, <2>6 DEF Released, RwInfo
    <3>2. Live(b)' /\ Live(b)
      BY <2>2, <2>6, <3>1 DEF Live
    <3>3. Current(b)' = Current(b)
      BY <1>4, <2>3, <2>4, <3>1 DEF Current, SyncedHost, NeedsRead
    <3>4. Lost(b)' = Lost(b)
      BY <3>1, <3>2 DEF Lost
    <3> QED BY <2>1, <2>2, <3>3, <3>4, MapsToNothing
  <2> QED BY <2>5, <2>6
<1>8. ASSUME NEW b \in Buf, Live(b), Live(b)', NEW f, host' = [host EXCEPT ![b] = f],
             NEW r, rwq' = [rwq EXCEPT ![b] = r], dev' = dev
      PROVE  /\ \A o \in Buf \ {b} : Same(o)
             /\ host'[b] = f /\ dev'[b] = dev[b] /\ rwq'[b] = r
             /\ Lost(b) = (rwq[b].discard /\ b \in DevBuf)
             /\ Lost(b)' = (r.discard /\ b \in DevBuf)
  <2>1. \A o \in Buf \ {b} : Same(o)
    BY <1>0, <1>3, <1>8
  <2>2. host'[b] = f /\ rwq'[b] = r
    BY <1>0, <1>8
  <2> QED BY <1>8, <2>1, <2>2 DEF Lost
<1>9. ASSUME NEW b \in Buf, CanSync(b), rwq' = [rwq EXCEPT ![b] = Synced(b)],
             NEW f, host' = [host EXCEPT ![b] = f], dev' = dev
      PROVE  /\ \A o \in Buf \ {b} : Same(o)
             /\ Lost(b)' = Lost(b) /\ Current(b)' = f
             /\ SyncedHost(b) = Current(b)
  <2>1. Live(b) /\ Live(b)'
    BY <1>0, <1>9, EntryFlags DEF CanSync, Live
  <2>2. ~Synced(b).dirty /\ Synced(b).discard = rwq[b].discard
    BY <1>4, EntryFlags
  <2>3. SyncedHost(b) = Current(b)
    BY <1>4 DEF SyncedHost, Current, NeedsRead
  <2>4. /\ \A o \in Buf \ {b} : Same(o)
        /\ host'[b] = f /\ rwq'[b] = Synced(b)
        /\ Lost(b) = (rwq[b].discard /\ b \in DevBuf)
        /\ Lost(b)' = (Synced(b).discard /\ b \in DevBuf)
    BY <1>8, <1>9, <2>1
  <2>5. Current(b)' = f
    BY <2>2, <2>4 DEF Current
  <2> QED BY <2>2, <2>3, <2>4, <2>5
<1>10. ASSUME NEW b \in Buf, Synchronize(b) PROVE Coherent!Next
  BY <1>9, <1>10, MapsToNothing DEF Synchronize
<1>11. ASSUME NEW b \in Buf, NEW c \in Cell PROVE Element(Current(b), c) \in Elems
  <2>1. Current(b) \in Content
    BY <1>2
  <2>2. Current(b)[c] \in Val
    BY <2>1 DEF Content
  <2> QED BY <2>1, <2>2, ElementType
<1>12. ASSUME NEW b \in Buf, NEW c \in Cell, HostRead(b, c) PROVE Coherent!Next
  <2>1. \A o \in Buf : Same(o)
    BY <1>9, <1>12 DEF HostRead
  <2>2. io' = Access("read", b, Element(Current(b), c))
    BY <1>9, <1>12 DEF HostRead
  <2>3. Element(Current(b), c) \in Elems
    BY <1>11
  <2>4. \A x \in DOMAIN Element(Current(b), c) :
            Element(Current(b), c)[x] = Current(b)[x]
    BY DEF Element
  <2> QED BY <2>1, <2>2, <2>3, <2>4, MapsToRead
<1>13. ASSUME NEW b \in Buf, NEW c \in Cell, NEW v \in Val, HostWrite(b, c, v)
       PROVE  Coherent!Next
  <2> DEFINE e == [x \in {c} |-> v]
  <2>1. e \in Elems
    BY ElementType
  <2>2. io' = Access("write", b, e) /\ ~rwq[b].discard /\ Live(b)
    BY <1>13 DEF HostWrite, SafeClient, CanSync
  <2>3. /\ \A o \in Buf \ {b} : Same(o)
        /\ Current(b)' = Overlay(Current(b), e) /\ Lost(b)' = Lost(b)
    BY <1>9, <1>13 DEF HostWrite
  <2>4. Lost(b) = FALSE
    BY <2>2 DEF Lost
  <2> HIDE DEF e
  <2> QED BY <2>1, <2>2, <2>3, <2>4, MapsToWrite
<1>14. ASSUME NEW b \in Buf, NEW c \in Cell,
              \/ PlainRead(b, c) \/ CopyOut(b, c)
              \/ Rank1CopyToArray(b, c) \/ ConstViewData(b, c)
       PROVE  Coherent!Next
  <2>1. \A o \in Buf : Same(o)
    BY <1>3, <1>14 DEF PlainRead, CopyOut, Rank1CopyToArray, ConstViewData, UnsyncedRead
  <2>2. io' = Access("read", b, Element(Current(b), c))
    <3>1. CASE PlainRead(b, c)
      <4>1. Current(b) = host[b]
        BY <3>1 DEF PlainRead, FlagsConsistent, Current
      <4> QED BY <3>1, <4>1 DEF PlainRead
    <3>2. CASE CopyOut(b, c)
      BY <3>2 DEF CopyOut, Current
    <3>3. CASE Rank1CopyToArray(b, c) \/ ConstViewData(b, c)
      BY <3>3 DEF Rank1CopyToArray, ConstViewData, SafeClient
    <3> QED BY <1>14, <3>1, <3>2, <3>3
  <2>3. Element(Current(b), c) \in Elems
    BY <1>11
  <2>4. \A x \in DOMAIN Element(Current(b), c) :
            Element(Current(b), c)[x] = Current(b)[x]
    BY DEF Element
  <2> QED BY <2>1, <2>2, <2>3, <2>4, MapsToRead
<1>15. ASSUME NEW b \in Buf, NEW c \in Cell, NEW v \in Val, PlainWrite(b, c, v)
       PROVE  Coherent!Next
  <2> DEFINE e == [x \in {c} |-> v]
  <2>1. e \in Elems
    BY ElementType
  <2>2. \A o \in Buf \ {b} : Same(o)
    BY <1>0, <1>3, <1>15 DEF PlainWrite
  <2>3. ~rwq[b].dirty /\ ~rwq[b].discard /\ rwq' = rwq /\ b \in SrcBuf
    BY <1>15 DEF PlainWrite, FlagsConsistent
  <2>4. Lost(b)' = FALSE
    BY <2>3 DEF Lost
  <2>5. Current(b)' = Overlay(Current(b), e)
    BY <1>0, <1>15, <2>3 DEF PlainWrite, Current
  <2>6. io' = Access("write", b, e)
    BY <1>15 DEF PlainWrite
  <2> HIDE DEF e
  <2> QED BY <2>1, <2>2, <2>4, <2>5, <2>6, MapsToWrite
<1>16. ASSUME NEW b \in Buf, NEW e \in Elems, CopyIn(b, e) PROVE Coherent!Next
  <2>1. Live(b) /\ Live(b)' /\ DOMAIN e = Cell /\ ~rwq[b].discard
    BY <1>0, <1>16, EntryFlags DEF CopyIn, SafeClient, Live
  <2>2. /\ \A o \in Buf \ {b} : Same(o)
        /\ host'[b] = Overlay(host[b], e) /\ rwq'[b] = Stashed(b)
        /\ Lost(b)' = (Stashed(b).discard /\ b \in DevBuf)
    BY <1>8, <1>16, <2>1 DEF CopyIn
  <2>3. Lost(b)' = FALSE
    BY <2>1, <2>2, EntryFlags
  <2>4. Current(b)' = Overlay(host[b], e)
    BY <2>2, EntryFlags DEF Current
  <2>5. Overlay(host[b], e) = Overlay(Current(b), e)
    BY <2>1 DEF Overlay
  <2> QED BY <1>16, <2>2, <2>3, <2>4, <2>5, MapsToWrite DEF CopyIn
<1>17. ASSUME NEW b \in Buf, NEW c \in Cell,
              SubscriptRead(b, c) \/ \E v \in Val : SubscriptWrite(b, c, v)
       PROVE  Coherent!Next
  <2>1. b \notin DevBuf /\ b \notin SrcBuf
    BY <1>17 DEF SafeClient, SubscriptRead, SubscriptWrite
  <2>2. Live(b) /\ Live(b)'
    BY <1>0, <1>17, EntryFlags DEF SubscriptRead, SubscriptWrite, Live
  <2>3. Lost(b) = FALSE /\ Lost(b)' = FALSE /\ Current(b) = host[b]
        /\ Current(b)' = host'[b]
    BY <2>1, <2>2 DEF Lost, Current
  <2>4. \A o \in Buf \ {b} : Same(o)
    BY <1>0, <1>3, <1>17 DEF SubscriptRead, SubscriptWrite
  <2>5. CASE SubscriptRead(b, c)
    <3>1. io' = Access("read", b, Element(Current(b), c)) /\ host' = host
      BY <2>3, <2>5 DEF SubscriptRead
    <3>2. Element(Current(b), c) \in Elems
      BY <1>11
    <3>3. \A x \in DOMAIN Element(Current(b), c) :
              Element(Current(b), c)[x] = Current(b)[x]
      BY DEF Element
    <3> QED BY <2>3, <2>4, <3>1, <3>2, <3>3, MapsToRead
  <2>6. ASSUME NEW v \in Val, SubscriptWrite(b, c, v) PROVE Coherent!Next
    <3> DEFINE e == [x \in {c} |-> v]
    <3>1. e \in Elems
      BY ElementType
    <3>2. io' = Access("write", b, e) /\ host'[b] = Overlay(host[b], e)
      BY <1>0, <2>6 DEF SubscriptWrite
    <3> HIDE DEF e
    <3> QED BY <2>3, <2>4, <3>1, <3>2, MapsToWrite
  <2> QED BY <1>17, <2>5, <2>6
<1>18. ASSUME NEW b \in Buf, DiscardData(b) PROVE Coherent!Next
  <2>1. Live(b) /\ Live(b)' /\ io' = Silent
    BY <1>0, <1>18, EntryFlags DEF DiscardData, Live
  <2>2. host = [host EXCEPT ![b] = host[b]]
    BY <1>0
  <2>3. /\ \A o \in Buf \ {b} : Same(o)
        /\ host'[b] = host[b] /\ rwq'[b] = Discarded(b)
        /\ Lost(b) = (rwq[b].discard /\ b \in DevBuf)
        /\ Lost(b)' = (Discarded(b).discard /\ b \in DevBuf)
    BY <1>8, <1>18, <2>1, <2>2 DEF DiscardData
  <2>4. Discarded(b).discard = TRUE /\ ~Discarded(b).dirty
    BY EntryFlags DEF Discarded, RwInfo, TypeOK
  <2>5. CASE b \in DevBuf /\ ~rwq[b].discard
    BY <1>2, <2>1, <2>3, <2>4, <2>5, MapsToLose
  <2>6. CASE b \notin DevBuf \/ rwq[b].discard
    <3>1. Same(b)
      BY <1>4, <2>3, <2>4, <2>6 DEF Current
    <3> QED BY <2>1, <2>3, <3>1, MapsToNothing
  <2> QED BY <2>5, <2>6
<1>19. ASSUME NEW b \in Buf, SyncAsyncRead(b) PROVE Coherent!Next
  <2>1. \A o \in Buf \ {b} : Same(o)
    BY <1>0, <1>3, <1>19 DEF SyncAsyncRead
  <2>2. host'[b] = SyncedHost(b) /\ dev' = dev /\ rwq' = rwq /\ io' = Silent
    BY <1>0, <1>19 DEF SyncAsyncRead
  <2>3. Same(b)
    <3>1. NeedsRead(b) /\ rwq[b].dirty
      BY <1>19 DEF SyncAsyncRead, NeedsRead
    <3>2. Current(b)' = Current(b)
      BY <2>2, <3>1 DEF SyncedHost, Current
    <3>3. Lost(b)' = Lost(b)
      BY <2>2 DEF Lost, Live
    <3> QED BY <3>2, <3>3
  <2> QED BY <2>1, <2>2, <2>3, MapsToNothing
<1>20. ASSUME NEW b \in Buf, SyncAsyncClean(b) PROVE Coherent!Next
  <2>1. \A o \in Buf \ {b} : Same(o)
    BY <1>0, <1>3, <1>20 DEF SyncAsyncClean
  <2>2. /\ rwq'[b].ref = rwq[b].ref /\ rwq'[b].dirty = FALSE
        /\ rwq'[b].discard = rwq[b].discard
        /\ host' = host /\ dev' = dev /\ io' = Silent
    BY <1>0, <1>20 DEF SyncAsyncClean, RwInfo
  <2>3. b \in DevBuf => host[b] = dev[b]
    BY <1>1, <1>20 DEF SyncAsyncClean, Tracked
  <2>4. Same(b)
    BY <2>2, <2>3 DEF Current, Lost, Live
  <2> QED BY <2>1, <2>2, <2>4, MapsToNothing
<1>25. ASSUME NEW b \in Buf, SyncAsyncDangling(b) PROVE Coherent!Next
  BY <1>1, <1>25 DEF SyncAsyncDangling, Tracked
<1>21. ASSUME NEW caps \in SUBSET Buf, NEW arrays \in SUBSET Buf, Launch(caps, arrays)
       PROVE  Coherent!Next
  <2> DEFINE S == {b \in caps : b \in DevBuf /\ rwq[b].discard}
  <2>1. \A o \in Buf \ caps : Same(o)
    BY <1>0, <1>3, <1>21 DEF Launch
  <2>2. ASSUME NEW b \in caps
        PROVE  /\ host'[b] = host[b] /\ rwq'[b] = Appended(b)
               /\ dev'[b] = IF b \in DevBuf /\ Uploads(b, arrays) THEN host[b] ELSE dev[b]
               /\ rwq[b].ref > 0 /\ b \in Buf
    BY <1>21 DEF Launch, Live
  <2>3. ASSUME NEW b \in caps
        PROVE  /\ rwq'[b].ref > 0 /\ rwq'[b].dirty /\ rwq'[b].discard = FALSE
    <3>1. b \in Buf /\ rwq[b] \in RwInfo
      BY <1>0
    <3>2. Appended(b).discard = FALSE
      BY <1>4, <3>1 DEF Appended, RwInfo
    <3> QED BY <2>2, <3>1, <3>2, EntryFlags
  <2>4. \A b \in S : Lost(b) /\ Lost(b)' = FALSE /\ Current(b)' \in Content
    BY <1>2, <2>3 DEF Lost, Live
  <2>5. ASSUME NEW b \in caps \ S PROVE Same(b)
    <3>1. Lost(b) = FALSE /\ Lost(b)' = FALSE
      BY <2>2, <2>3 DEF Lost, Live
    <3>2. Current(b)' = Current(b)
      BY <2>2, <2>3 DEF Current, Uploads
    <3> QED BY <3>1, <3>2
  <2>6. \A o \in Buf \ S : Same(o)
    BY <2>1, <2>5
  <2>7. S \in SUBSET Buf /\ io' = Silent
    BY <1>21 DEF Launch
  <2> HIDE DEF S
  <2> QED BY <2>4, <2>6, <2>7, MapsToSettle
<1>22. ASSUME NEW b \in Buf, NEW c \in Cell, NEW v \in Val, KernelWrite(b, c, v)
       PROVE  Coherent!Next
  <2> DEFINE e == [x \in {c} |-> v]
  <2>1. \A o \in Buf \ {b} : Same(o)
    BY <1>0, <1>3, <1>22 DEF KernelWrite
  <2>2. /\ rwq' = rwq
        /\ b \in DevBuf => dev'[b] = Overlay(dev[b], e) /\ host' = host
        /\ b \notin DevBuf => host'[b] = Overlay(host[b], e) /\ dev' = dev
        /\ io' = IF b \in bound THEN Access("write", b, e) ELSE Silent
    BY <1>0, <1>22 DEF KernelWrite
  <2>3. CASE b \in bound
    <3>1. b \in DevBuf => rwq[b].dirty
      BY <1>1, <2>3 DEF Tracked
    <3>2. Current(b)' = Overlay(Current(b), e)
      BY <2>2, <3>1 DEF Current
    <3>3. Live(b) /\ Live(b)'
      BY <1>22, <2>2 DEF KernelWrite, FlagsConsistent, Live
    <3>4. Lost(b)' = FALSE
      BY <1>4, <2>2, <3>1, <3>3 DEF Lost
    <3>5. e \in Elems
      BY ElementType
    <3> HIDE DEF e
    <3> QED BY <2>1, <2>2, <2>3, <3>2, <3>4, <3>5, MapsToWrite
  <2>4. CASE b \notin bound
    <3>1. InOrderQueue /\ ~rwq[b].dirty
      BY <1>1, <1>22, <2>4 DEF KernelWrite, Tracked
    <3>2. Same(b)
      BY <2>2, <3>1, QueueAssumption DEF Current, Lost, Live
    <3> QED BY <2>1, <2>2, <2>4, <3>2, MapsToNothing
  <2> QED BY <2>3, <2>4
<1>23. CASE KernelsDone
  BY <1>3, <1>23, MapsToNothing DEF KernelsDone
<1>24. CASE UNCHANGED vars
  <2>1. \A o \in Buf : Same(o)
    BY <1>3, <1>24 DEF vars
  <2>2. [o \in Buf |-> Current(o)]' = [o \in Buf |-> Current(o)]
        /\ [o \in Buf |-> Lost(o)]' = [o \in Buf |-> Lost(o)]
    BY <2>1
  <2> QED BY <1>24, <2>2 DEF vars, Coherent!vars
<1> QED
  BY <1>5, <1>6, <1>7, <1>10, <1>12, <1>13, <1>14, <1>15, <1>16, <1>17, <1>18,
     <1>19, <1>20, <1>21, <1>22, <1>23, <1>24, <1>25
  DEF Next, Lifetime, HostAccess, Kernels

\* Nothing is current or lost at first, as for the coherent array.
LEMMA RefinementInit == Init => Coherent!Init
<1> SUFFICES ASSUME Init PROVE Coherent!Init
  OBVIOUS
<1>1. \A b \in Buf : Current(b) = host[b] /\ host[b] \in Content /\ Lost(b) \in BOOLEAN
  BY DEF Init, Current, Lost, NoEntry
<1> QED BY <1>1 DEF Init, Coherent!Init, Coherent!Content, Content, Silent, Coherent!Silent

\* Kernels and read backs in flight find the flags of a safe client intact, for
\* any number of buffers.
THEOREM InFlightAlways == Spec => []InFlight
<1>1. Init => InFlight
  BY DEF Init, InFlight, PendingResultsKept, StrayStoresUnread, ReadBackAgrees
<1>2. TypeOK /\ FlagsConsistent /\ InFlight /\ [Next]_vars => InFlight'
  BY InFlightStep, TypeStep
<1> QED BY <1>1, <1>2, Typing, FlagsAlwaysConsistent, PTL DEF Spec

\* No flag of a buffer is cleared under a kernel whose results a safe client
\* wants.
THEOREM PendingResultsAlwaysKept == Spec => []PendingResultsKept
<1>1. InFlight => PendingResultsKept
  BY DEF InFlight
<1> QED BY <1>1, InFlightAlways, PTL

\* A kernel whose results were given up writes only a copy that nobody will read.
THEOREM StrayStoresNeverRead == Spec => []StrayStoresUnread
<1>1. InFlight => StrayStoresUnread
  BY DEF InFlight
<1> QED BY <1>1, InFlightAlways, PTL

\* Between the halves of a read back by synchronize_async the copies agree.
THEOREM ReadBackAlwaysAgrees == Spec => []ReadBackAgrees
<1>1. InFlight => ReadBackAgrees
  BY DEF InFlight
<1> QED BY <1>1, InFlightAlways, PTL

\* The flags and the transfers of the runtime give a safe client one memory per
\* buffer (CoherentArray), whatever the buffers, elements and values.
THEOREM TwoCopiesOneMemory == Spec => OneMemory
<1>1. TypeOK /\ FlagsConsistent /\ InFlight /\ [Next]_vars
        => [SafeClient => Coherent!Next]_(Coherent!vars)
  BY RefinementStep, TypeStep
<1> QED
  BY <1>1, RefinementInit, Typing, FlagsAlwaysConsistent, InFlightAlways, PTL
  DEF Spec, OneMemory

\* A safe client never obtains the stale one of the two copies: what operator[],
\* synchronize or copy hands out is what was stored last, by host or kernel.
THEOREM ReadsAreCurrent == Spec => ReadsCurrent
<1>1. ASSUME SafeClient, TypeOK, TypeOK', FlagsConsistent, InFlight, [Next]_vars,
             io' # io, io'.op = "read"
      PROVE  \A c \in DOMAIN io'.elems : io'.elems[c] = Current(io'.buf)[c]
  <2>1. Coherent!Next
    BY <1>1, RefinementStep DEF Coherent!vars
  <2>2. PICK b \in Buf, e \in Coherent!Elems : Coherent!Read(b, e)
    <3>1. ASSUME NEW b \in Buf, NEW e \in Coherent!Elems PROVE ~Coherent!Write(b, e)
      BY <1>1 DEF Coherent!Write, Coherent!Access
    <3>2. ASSUME NEW b \in Buf PROVE ~Coherent!Lose(b)
      BY <1>1 DEF Coherent!Lose, Coherent!Silent
    <3>3. ASSUME NEW S \in SUBSET Buf PROVE ~Coherent!Settle(S)
      BY <1>1 DEF Coherent!Settle, Coherent!Silent
    <3> QED BY <2>1, <3>1, <3>2, <3>3 DEF Coherent!Next
  <2>3. \A c \in DOMAIN e : e[c] = Current(b)[c]
    <3>1. \A c \in DOMAIN e : e[c] = [o \in Buf |-> Current(o)][b][c]
      BY <2>2 DEF Coherent!Read
    <3> QED BY <3>1
  <2>4. io'.buf = b /\ io'.elems = e
    BY <2>2 DEF Coherent!Read, Coherent!Access
  <2> QED BY <2>3, <2>4
<1>2. TypeOK /\ FlagsConsistent /\ InFlight /\ [Next]_vars
        => [SafeClient /\ io' # io /\ io'.op = "read"
              => \A c \in DOMAIN io'.elems : io'.elems[c] = Current(io'.buf)[c]]_vars
  BY <1>1, TypeStep
<1> QED
  BY <1>2, Typing, FlagsAlwaysConsistent, InFlightAlways, PTL DEF Spec, ReadsCurrent

(***************************************************************************)
(* The end of a view, whatever the client does.                            *)
(***************************************************************************)

\* Only free lowers a reference count (all other operations of AMPAllocator
\* keep it or, in init, raise it).
LEMMA OnlyCloseReleases ==
  ASSUME TypeOK, [Next]_vars, NEW o \in Buf, rwq'[o].ref < rwq[o].ref
  PROVE  Close(o)
<1>0. rwq \in [Buf -> RwInfo] /\ \A b \in Buf : rwq[b].ref \in Nat
  BY DEF TypeOK, RwInfo
<1>1. ASSUME NEW b \in Buf, OpenAgain(b) \/ OpenNew(b) PROVE FALSE
  <2>1. CASE OpenAgain(b)
    <3>1. rwq'[b].ref = rwq[b].ref + 1
      BY <1>0, <2>1 DEF OpenAgain, RwInfo
    <3> QED BY <1>0, <2>1, <3>1 DEF OpenAgain
  <2>2. CASE OpenNew(b)
    <3>1. rwq'[b].ref = 1 /\ ~(rwq[b].ref > 0)
      BY <1>0, <2>2 DEF OpenNew, NoEntry, Live
    <3> QED BY <1>0, <2>2, <3>1 DEF OpenNew
  <2> QED BY <1>1, <2>1, <2>2
<1>2. ASSUME NEW b \in Buf, NEW r, r.ref = rwq[b].ref, rwq' = [rwq EXCEPT ![b] = r]
      PROVE  FALSE
  BY <1>0, <1>2
<1>3. ASSUME UNCHANGED rwq PROVE FALSE
  BY <1>0, <1>3
<1>4. ASSUME NEW b \in Buf, \E r \in {Synced(b), Discarded(b), Stashed(b)} :
                                rwq' = [rwq EXCEPT ![b] = r]
      PROVE  FALSE
  BY <1>2, <1>4, EntryFlags
<1>5. ASSUME NEW b \in Buf, SyncAsyncClean(b) PROVE FALSE
  <2> DEFINE r == [rwq[b] EXCEPT !.dirty = FALSE]
  <2>1. r.ref = rwq[b].ref
    BY <1>0 DEF RwInfo
  <2>2. rwq' = [rwq EXCEPT ![b] = r]
    BY <1>5 DEF SyncAsyncClean
  <2> QED BY <1>2, <2>1, <2>2
<1>11. ASSUME NEW b \in Buf, SyncAsyncDangling(b) PROVE FALSE
  <2>1. ASSUME NEW x \in Buf, rwq' = [rwq EXCEPT ![x].dirty = FALSE] PROVE FALSE
    <3> DEFINE r == [rwq[x] EXCEPT !.dirty = FALSE]
    <3>1. r.ref = rwq[x].ref
      BY <1>0 DEF RwInfo
    <3>2. rwq' = [rwq EXCEPT ![x] = r]
      BY <2>1
    <3> QED BY <1>2, <3>1, <3>2
  <2> QED BY <1>3, <1>11, <2>1 DEF SyncAsyncDangling
<1>6. ASSUME NEW b \in Buf, Close(b) PROVE b = o
  BY <1>0, <1>6 DEF Close
<1>7. ASSUME NEW b \in Buf, \/ Synchronize(b) \/ DiscardData(b) \/ SyncAsyncRead(b)
                            \/ \E e \in Elems : CopyIn(b, e)
      PROVE  FALSE
  BY <1>3, <1>4, <1>7 DEF Synchronize, DiscardData, SyncAsyncRead, CopyIn
<1>8. ASSUME NEW b \in Buf, NEW c \in Cell,
             \/ HostRead(b, c) \/ PlainRead(b, c) \/ CopyOut(b, c)
             \/ Rank1CopyToArray(b, c) \/ ConstViewData(b, c)
             \/ SubscriptRead(b, c)
             \/ \E v \in Val : \/ HostWrite(b, c, v) \/ PlainWrite(b, c, v)
                               \/ SubscriptWrite(b, c, v) \/ KernelWrite(b, c, v)
      PROVE  FALSE
  BY <1>3, <1>4, <1>8 DEF HostRead, PlainRead, CopyOut, Rank1CopyToArray,
     ConstViewData, UnsyncedRead, SubscriptRead, HostWrite, PlainWrite,
     SubscriptWrite, KernelWrite
<1>9. ASSUME NEW caps \in SUBSET Buf, NEW arrays \in SUBSET Buf, Launch(caps, arrays)
      PROVE  FALSE
  BY <1>0, <1>9, EntryFlags DEF Launch
<1>10. ASSUME KernelsDone \/ UNCHANGED vars PROVE FALSE
  BY <1>3, <1>10 DEF KernelsDone, vars
<1> QED
  BY <1>1, <1>5, <1>6, <1>7, <1>8, <1>9, <1>10, <1>11
  DEF Next, Lifetime, HostAccess, Kernels

\* Every view that goes leaves the current content in user memory, whatever
\* other views or kernels there are and whatever the client does.
THEOREM ClosingFlushes == Spec => CloseFlushes
<1>1. TypeOK /\ [Next]_vars
        => [\A b \in SrcBuf : rwq'[b].ref < rwq[b].ref /\ ~rwq[b].discard
                              => host'[b] = Current(b)]_vars
  <2> SUFFICES ASSUME TypeOK, [Next]_vars, NEW b \in SrcBuf,
                      rwq'[b].ref < rwq[b].ref, ~rwq[b].discard
               PROVE  host'[b] = Current(b)
    OBVIOUS
  <2>1. b \in Buf /\ Close(b)
    BY OnlyCloseReleases, BufAssumption
  <2>2. host'[b] = SyncedHost(b)
    BY <2>1 DEF Close, TypeOK
  <2> QED BY <2>2 DEF SyncedHost, NeedsRead, Current
<1> QED BY <1>1, Typing, PTL DEF Spec, CloseFlushes
=============================================================================
