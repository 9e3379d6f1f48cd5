------------------------- MODULE CpuExecutorProofs -------------------------
(***************************************************************************)
(* CpuExecutor and CpuAtomics for any number of threads, tiles, items and  *)
(* barriers.  The fibers of a tile run in step although they are found by  *)
(* a shared index and by uc_link, whatever the slices are; when the bounds *)
(* of the slices do not wrap, the slices cut the domain into parts that do *)
(* not overlap, so that every piece of work runs once and in an order that *)
(* the barriers allow.  The items that call atomic operations take no step *)
(* that CpuExecutor does not allow, so all of this holds of them; and the  *)
(* mutex that every operation has for itself is enough for a cell that one *)
(* operation is used on.                                                   *)
(***************************************************************************)
EXTENDS CpuAtomics, Integers, FiniteSetTheorems, WellFoundedInduction, TLAPS

-----------------------------------------------------------------------------
(* Arithmetic.                                                             *)

\* A product grows with its factor.
LEMMA ProductGrows ==
  ASSUME NEW a \in Nat, NEW b \in Nat, NEW n \in Nat, a <= b
  PROVE  a * n <= b * n
<1>1. PICK k \in Nat : b = a + k
  <2> WITNESS b - a \in Nat
  <2> QED OBVIOUS
<1>2. k * n \in Nat
  OBVIOUS
<1>3. b * n = a * n + k * n
  BY <1>1
<1> QED BY <1>2, <1>3

\* What a quotient is.
LEMMA Quotient ==
  ASSUME NEW a \in Nat, NEW n \in Nat \ {0}
  PROVE  /\ a \div n \in Nat
         /\ (a \div n) * n <= a
         /\ a < ((a \div n) + 1) * n
<1>1. a = n * (a \div n) + (a % n) /\ a % n \in 0 .. n - 1 /\ a \div n \in Int
  OBVIOUS
<1> DEFINE q == a \div n
<1>2. q \in Int /\ a - n * q \in 0 .. n - 1
  BY <1>1
<1> HIDE DEF q
<1>3. q >= 0
  <2> SUFFICES ASSUME q <= 0 - 1 PROVE FALSE
    BY <1>2
  <2>1. n * (0 - q) >= n * 1
    BY <1>2, ProductGrows
  <2> QED BY <1>2, <2>1
<1> QED BY <1>2, <1>3 DEF q

\* A quotient is at least as large as each number whose product fits.
LEMMA QuotientAtLeast ==
  ASSUME NEW a \in Nat, NEW n \in Nat \ {0}, NEW q \in Nat, q * n <= a
  PROVE  q <= a \div n
<1> SUFFICES ASSUME (a \div n) + 1 <= q PROVE FALSE
  BY Quotient
<1>1. ((a \div n) + 1) * n <= q * n
  BY Quotient, ProductGrows
<1> QED BY <1>1, Quotient

\* And less than each number whose product is larger.
LEMMA QuotientBelow ==
  ASSUME NEW a \in Nat, NEW n \in Nat \ {0}, NEW q \in Nat, a < q * n
  PROVE  a \div n < q
<1> SUFFICES ASSUME q <= a \div n PROVE FALSE
  BY Quotient
<1>1. q * n <= (a \div n) * n
  BY Quotient, ProductGrows
<1> QED BY <1>1, Quotient

\* A slice ends within the domain, even when its bound has wrapped.
LEMMA BoundInDomain ==
  ASSUME NEW p \in 0 .. NThread
  PROVE  Bound(p) \in 0 .. Cols
<1> DEFINE a == (Cols * p) % Wrap
<1>1. Cols \in Nat \ {0} /\ NThread \in Nat \ {0} /\ Wrap \in Nat \ {0}
  BY SizeAssumption, WrapAssumption
<1>2. Cols * p \in Nat /\ p * Cols <= NThread * Cols
  BY <1>1, ProductGrows
<1>3. a \in Nat /\ a <= Cols * p
  <2> DEFINE m == Cols * p
  <2>1. m \in Nat
    BY <1>2
  <2> HIDE DEF m
  <2>2. (m \div Wrap) * Wrap \in Nat
    BY <1>1, <2>1, Quotient
  <2>3. m = Wrap * (m \div Wrap) + (m % Wrap) /\ m % Wrap \in 0 .. Wrap - 1
    BY <1>1, <2>1
  <2>4. m % Wrap \in Nat /\ m % Wrap <= m
    BY <1>1, <2>1, <2>2, <2>3, Quotient
  <2> QED BY <2>4 DEF m
<1> HIDE DEF a
<1>4. a < (Cols + 1) * NThread
  BY <1>1, <1>2, <1>3
<1> QED BY <1>1, <1>3, <1>4, Quotient, QuotientBelow DEF Bound, a

-----------------------------------------------------------------------------
(* The slices.                                                             *)

\* The products in the bounds of the slices do not wrap.
NoWrap == Cols * NThread < Wrap

\* Column c is in the slice of t.
Owns(t, c) == Bound(t) <= c /\ c < Bound(t + 1)

\* Without wrapping a bound is a quotient of numbers.
LEMMA BoundIsQuotient ==
  ASSUME NoWrap, NEW p \in 0 .. NThread
  PROVE  Cols * p \in Nat /\ Bound(p) = (Cols * p) \div NThread
<1> DEFINE m == Cols * p
<1>1. Cols \in Nat /\ NThread \in Nat /\ Wrap \in Nat
  BY SizeAssumption, WrapAssumption
<1>2. m \in Nat /\ p * Cols <= NThread * Cols
  BY <1>1, ProductGrows
<1>3. m < Wrap
  BY <1>1, <1>2 DEF NoWrap
<1> HIDE DEF m
<1>4. m % Wrap = m
  BY <1>1, <1>2, <1>3
<1> QED BY <1>2, <1>4 DEF m, Bound

\* Bounds grow with the number of the slice.
LEMMA BoundsGrow ==
  ASSUME NoWrap, NEW p \in 0 .. NThread, NEW q \in 0 .. NThread, p <= q
  PROVE  Bound(p) <= Bound(q)
<1> DEFINE m == Cols * p
           n == Cols * q
<1>1. Cols \in Nat /\ NThread \in Nat \ {0}
  BY SizeAssumption
<1>2. /\ m \in Nat /\ Bound(p) = m \div NThread
      /\ n \in Nat /\ Bound(q) = n \div NThread
  BY BoundIsQuotient
<1>3. m <= n
  BY <1>1, ProductGrows
<1> HIDE DEF m, n
<1>4. m \div NThread \in Nat /\ (m \div NThread) * NThread <= n
  BY <1>1, <1>2, <1>3, Quotient
<1> QED BY <1>1, <1>2, <1>4, QuotientAtLeast

\* No column is in two slices.
LEMMA SlicesApart ==
  ASSUME NoWrap, NEW t \in Thread, NEW u \in Thread, NEW c \in Nat,
         Owns(t, c), Owns(u, c)
  PROVE  t = u
<1>1. ASSUME NEW v \in Thread, NEW w \in Thread, Owns(v, c), Owns(w, c)
      PROVE  ~(v < w)
  <2> SUFFICES ASSUME v + 1 <= w PROVE FALSE
    BY SizeAssumption DEF Thread
  <2>1. v + 1 \in 0 .. NThread /\ w \in 0 .. NThread
    BY SizeAssumption DEF Thread
  <2>2. Bound(v + 1) <= Bound(w)
    BY <2>1, BoundsGrow
  <2>3. Bound(v + 1) \in Nat /\ Bound(w) \in Nat
    BY <2>1, BoundInDomain, SizeAssumption
  <2> QED BY <1>1, <2>2, <2>3 DEF Owns
<1> QED BY <1>1, SizeAssumption DEF Thread

\* Every column is in a slice.
LEMMA SlicesCover ==
  ASSUME NoWrap, NEW c \in 0 .. Cols - 1
  PROVE  \E t \in Thread : Owns(t, c)
<1> DEFINE a == (c + 1) * NThread - 1
           t == a \div Cols
<1>1. Cols \in Nat \ {0} /\ NThread \in Nat \ {0} /\ c \in Nat
  BY SizeAssumption
<1>2. c * NThread \in Nat /\ (c + 1) * NThread = c * NThread + NThread
  BY <1>1
<1>3. a \in Nat
  BY <1>1, <1>2
<1>4. t \in Nat /\ t * Cols <= a /\ a < (t + 1) * Cols
  BY <1>1, <1>3, Quotient
<1>5. (c + 1) * NThread <= Cols * NThread
  BY <1>1, ProductGrows
<1>6. t < NThread
  <2>1. a < NThread * Cols
    BY <1>1, <1>2, <1>5
  <2> HIDE DEF a
  <2> QED BY <1>1, <1>3, <2>1, QuotientBelow
<1>7. t * Cols < (c + 1) * NThread /\ (c + 1) * NThread <= (t + 1) * Cols
  <2>1. (t + 1) * Cols \in Nat
    BY <1>1, <1>4
  <2> QED BY <1>1, <1>2, <1>4, <2>1
<1> HIDE DEF a, t
<1>8. t \in 0 .. NThread /\ t + 1 \in 0 .. NThread /\ t \in Thread
  BY <1>1, <1>4, <1>6 DEF Thread
<1>9. /\ Cols * t \in Nat /\ Bound(t) = (Cols * t) \div NThread
      /\ Cols * (t + 1) \in Nat /\ Bound(t + 1) = (Cols * (t + 1)) \div NThread
  BY <1>8, BoundIsQuotient
<1>10. Cols * t = t * Cols /\ Cols * (t + 1) = (t + 1) * Cols
  BY <1>1, <1>4
<1> DEFINE m == Cols * t
           n == Cols * (t + 1)
<1>11. Bound(t) < c + 1
  <2>1. m < (c + 1) * NThread /\ m \in Nat /\ c + 1 \in Nat
    BY <1>1, <1>7, <1>9, <1>10
  <2>2. Bound(t) = m \div NThread
    BY <1>9
  <2> HIDE DEF m
  <2> QED BY <1>1, <2>1, <2>2, QuotientBelow
<1>12. c + 1 <= Bound(t + 1)
  <2>1. (c + 1) * NThread <= n /\ n \in Nat /\ c + 1 \in Nat
    BY <1>1, <1>7, <1>9, <1>10
  <2>2. Bound(t + 1) = n \div NThread
    BY <1>9
  <2> HIDE DEF n
  <2> QED BY <1>1, <2>1, <2>2, QuotientAtLeast
<1>13. Bound(t) \in Nat /\ Bound(t + 1) \in Nat
  BY <1>1, <1>8, BoundInDomain
<1> QED BY <1>1, <1>8, <1>11, <1>12, <1>13 DEF Owns

-----------------------------------------------------------------------------
(* The fibers of a tile.                                                   *)

\* A thread in a tile is within its slice.
InTile(t) == pc[t] \in {"ring", "fiber"} => row[t] < Rows /\ col[t] < Bound(t + 1)

\* All contexts of t stand at segment s, each in its own item.
AllAt(t, s) == \A x \in Item : ctx[t][x] = [item |-> x, seg |-> s]

\* Between rounds the items stand at one barrier.  Within a round those below the
\* running item stand at the barrier it has left, those above at the next, and
\* the shared index is the running item's; in the last segment nobody changes it.
InStep(t) ==
    /\ pc[t] = "ring" /\ idx[t] = 0 => \E s \in 0 .. Barriers : AllAt(t, s)
    /\ pc[t] = "fiber" =>
          /\ \A x \in Item : x < cur[t].item =>
                ctx[t][x] = [item |-> x, seg |-> cur[t].seg]
          /\ cur[t].seg < Barriers =>
                /\ idx[t] = cur[t].item
                /\ \A x \in Item : cur[t].item < x =>
                      ctx[t][x] = [item |-> x, seg |-> cur[t].seg + 1]
          /\ cur[t].seg = Barriers => idx[t] = TileSize

Fibers == TypeOK /\ \A t \in Thread : InTile(t) /\ InStep(t)

\* Bounds of slices, for the thread they belong to.
LEMMA SliceBounds ==
  ASSUME NEW t \in Thread
  PROVE  Bound(t) \in 0 .. Cols /\ Bound(t + 1) \in 0 .. Cols
<1>1. t \in 0 .. NThread /\ t + 1 \in 0 .. NThread
  BY SizeAssumption DEF Thread
<1> QED BY <1>1, BoundInDomain

\* The executor's invariant holds before any thread is created.
LEMMA FibersInit == Init => Fibers
<1> SUFFICES ASSUME Init PROVE Fibers
  OBVIOUS
<1>1. /\ Cols \in Nat \ {0} /\ NThread \in Nat \ {0} /\ Rows \in Nat \ {0}
      /\ TileSize \in Nat \ {0} /\ Barriers \in Nat
  BY SizeAssumption
<1>2. \A x \in Item : [item |-> x, seg |-> 0] \in Fiber
  BY <1>1 DEF Fiber
<1>3. [item |-> 1, seg |-> 0] \in Fiber
  BY <1>1 DEF Fiber, Item
<1>4. TypeOK
  <2>1. made \in 0 .. NThread /\ joined \in 0 .. made
    BY <1>1 DEF Init
  <2>2. ctx \in [Thread -> [Item -> Fiber]]
    BY <1>2 DEF Init
  <2>3. cur \in [Thread -> Fiber]
    BY <1>3 DEF Init
  <2>4. row \in [Thread -> 0 .. Rows] /\ col \in [Thread -> 0 .. Cols]
        /\ idx \in [Thread -> 0 .. TileSize]
    BY <1>1 DEF Init
  <2>5. pc \in [Thread -> {"unborn", "new", "tile", "ring", "fiber", "done"}]
        /\ runs \in [Work -> Nat] /\ inKernel \in BOOLEAN /\ returned \in BOOLEAN
    BY DEF Init
  <2> QED BY <2>1, <2>2, <2>3, <2>4, <2>5 DEF TypeOK
<1>5. \A t \in Thread : InTile(t) /\ InStep(t)
  BY DEF Init, InTile, InStep
<1> QED BY <1>4, <1>5 DEF Fibers

\* A thread whose state does not change keeps what holds of it.
LEMMA OtherThread ==
  ASSUME NEW u \in Thread, InTile(u), InStep(u), pc'[u] = pc[u], row'[u] = row[u],
         col'[u] = col[u], idx'[u] = idx[u], ctx'[u] = ctx[u], cur'[u] = cur[u]
  PROVE  InTile(u)' /\ InStep(u)'
BY DEF InTile, InStep, AllAt, Bound

\* A step of thread t is none of the others.
LEMMA StepIsOwn ==
  ASSUME TypeOK, NEW t \in Thread, Step(t), NEW u \in Thread, u # t
  PROVE  /\ pc'[u] = pc[u] /\ row'[u] = row[u] /\ col'[u] = col[u]
         /\ idx'[u] = idx[u] /\ ctx'[u] = ctx[u] /\ cur'[u] = cur[u]
<1>1. CASE Begin(t) \/ NextRow(t) \/ TileDone(t)
  BY <1>1 DEF TypeOK, Begin, NextRow, TileDone, threads
<1>2. CASE SetContexts(t) \/ Round(t)
  BY <1>2 DEF TypeOK, SetContexts, Round
<1>3. ASSUME NEW x, Resume(t, x)
      PROVE  pc'[u] = pc[u] /\ cur'[u] = cur[u]
  BY <1>3 DEF TypeOK, Resume
<1>4. CASE Wait(t)
  BY <1>3, <1>4 DEF TypeOK, Wait
<1>5. CASE Finish(t)
  BY <1>3, <1>5 DEF TypeOK, Finish
<1> QED BY <1>1, <1>2, <1>4, <1>5 DEF Step

\* The segment that the running item executes is counted.
LEMMA ExecuteTypes ==
  ASSUME TypeOK, NEW t \in Thread, Execute(t)
  PROVE  runs' \in [Work -> Nat]
<1> DEFINE w == <<<<row[t], col[t]>>, cur[t].item, cur[t].seg>>
<1>1. runs' = [runs EXCEPT ![w] = @ + 1] /\ runs \in [Work -> Nat]
  BY DEF TypeOK, Execute
<1> HIDE DEF w
<1>2. CASE w \in Work
  <2>1. runs[w] + 1 \in Nat
    BY <1>1, <1>2
  <2> QED BY <1>1, <2>1
<1>3. CASE w \notin Work
  BY <1>1, <1>3
<1> QED BY <1>2, <1>3

\* Begin, NextRow and TileDone: a thread moves on in its slice.
LEMMA FibersMove ==
  ASSUME Fibers, NEW t \in Thread, Begin(t) \/ NextRow(t) \/ TileDone(t)
  PROVE  TypeOK' /\ InTile(t)' /\ InStep(t)'
<1>1. TypeOK /\ InTile(t) /\ InStep(t) /\ UNCHANGED <<launcher, idx, ctx, cur, runs>>
  BY DEF Fibers, Begin, NextRow, TileDone
<1>2. Cols \in Nat /\ Rows \in Nat \ {0} /\ Bound(t) \in 0 .. Cols /\ Bound(t + 1) \in 0 .. Cols
  BY SizeAssumption, SliceBounds
<1>3. pc[t]' \in {"tile", "done"} /\ pc' = [pc EXCEPT ![t] = pc'[t]]
  BY <1>1 DEF TypeOK, Begin, NextRow, TileDone
<1>4. row' \in [Thread -> 0 .. Rows] /\ col' \in [Thread -> 0 .. Cols]
  <2>1. CASE Begin(t)
    BY <1>1, <1>2, <2>1 DEF TypeOK, Begin
  <2>2. CASE NextRow(t)
    BY <1>1, <1>2, <2>2 DEF TypeOK, NextRow
  <2>3. CASE TileDone(t)
    BY <1>1, <1>2, <2>3 DEF TypeOK, TileDone, InTile
  <2> QED BY <2>1, <2>2, <2>3
<1>5. TypeOK'
  BY <1>1, <1>3, <1>4 DEF TypeOK, launcher
<1> QED BY <1>3, <1>5 DEF InTile, InStep

\* SetContexts: all stand at the beginning.
LEMMA FibersSet ==
  ASSUME Fibers, NEW t \in Thread, SetContexts(t)
  PROVE  TypeOK' /\ InTile(t)' /\ InStep(t)'
<1>1. TypeOK /\ UNCHANGED <<launcher, row, col, cur, runs>>
  BY DEF Fibers, SetContexts
<1>2. Barriers \in Nat /\ TileSize \in Nat
  BY SizeAssumption
<1>3. /\ pc' = [pc EXCEPT ![t] = "ring"] /\ idx' = [idx EXCEPT ![t] = 0]
      /\ ctx' = [ctx EXCEPT ![t] = [x \in Item |-> [item |-> x, seg |-> 0]]]
  BY DEF SetContexts
<1>4. \A x \in Item : [item |-> x, seg |-> 0] \in Fiber
  BY <1>2 DEF Fiber
<1>5. ctx' \in [Thread -> [Item -> Fiber]]
  BY <1>1, <1>3, <1>4 DEF TypeOK
<1>6. TypeOK'
  BY <1>1, <1>2, <1>3, <1>5 DEF TypeOK, launcher
<1>7. AllAt(t, 0)' /\ pc'[t] = "ring"
  BY <1>1, <1>3 DEF TypeOK, AllAt
<1>8. InTile(t)'
  BY <1>1 DEF SetContexts, InTile, Bound
<1> QED BY <1>2, <1>6, <1>7, <1>8 DEF InStep

\* Round: the last item is resumed, at the segment where all stand.
LEMMA FibersRound ==
  ASSUME Fibers, NEW t \in Thread, Round(t)
  PROVE  TypeOK' /\ InTile(t)' /\ InStep(t)'
<1>1. TypeOK /\ InTile(t) /\ InStep(t) /\ UNCHANGED <<launcher, row, col, ctx, runs>>
  BY DEF Fibers, Round
<1>2. Barriers \in Nat /\ TileSize \in Nat \ {0} /\ TileSize \in Item
  BY SizeAssumption DEF Item
<1>3. /\ pc[t] = "ring" /\ idx[t] = 0 /\ pc' = [pc EXCEPT ![t] = "fiber"]
      /\ idx' = [idx EXCEPT ![t] = TileSize]
      /\ cur' = [cur EXCEPT ![t] = ctx[t][TileSize]]
  BY DEF Round
<1>4. PICK s \in 0 .. Barriers : AllAt(t, s)
  BY <1>1, <1>3 DEF InStep
<1>5. ctx[t][TileSize] \in Fiber
  BY <1>1, <1>2 DEF TypeOK
<1>6. TypeOK'
  BY <1>1, <1>2, <1>3, <1>5 DEF TypeOK, launcher
<1>7. /\ pc'[t] = "fiber" /\ idx'[t] = TileSize /\ ctx' = ctx
      /\ cur'[t] = [item |-> TileSize, seg |-> s]
  BY <1>1, <1>2, <1>3, <1>4 DEF TypeOK, AllAt
<1>8. InStep(t)'
  BY <1>2, <1>4, <1>7 DEF InStep, AllAt, Item
<1>9. InTile(t)'
  BY <1>1, <1>3, <1>7 DEF InTile, Bound
<1> QED BY <1>6, <1>8, <1>9

\* What a switch of contexts leaves, for a context that the thread has.
LEMMA ResumeTypes ==
  ASSUME TypeOK, NEW t \in Thread, NEW x \in 0 .. TileSize, Resume(t, x)
  PROVE  /\ pc' \in [Thread -> {"unborn", "new", "tile", "ring", "fiber", "done"}]
         /\ cur' \in [Thread -> Fiber]
         /\ x = 0 => pc'[t] = "ring"
         /\ x # 0 => pc'[t] = pc[t] /\ cur'[t] = ctx[t][x]
<1>1. CASE x = 0
  BY <1>1 DEF TypeOK, Resume
<1>2. CASE x # 0
  <2>1. x \in Item
    BY <1>2, SizeAssumption DEF Item
  <2>2. ctx[t][x] \in Fiber
    BY <2>1 DEF TypeOK
  <2> QED BY <1>2, <2>2 DEF TypeOK, Resume
<1> QED BY <1>1, <1>2

\* Wait: the running item is saved at the next segment, in its own context, and
\* the item below it goes on with this one.
LEMMA FibersWait ==
  ASSUME Fibers, NEW t \in Thread, Wait(t)
  PROVE  TypeOK' /\ InTile(t)' /\ InStep(t)'
<1>1. TypeOK /\ InTile(t) /\ InStep(t) /\ UNCHANGED <<launcher, row, col>>
  BY DEF Fibers, Wait
<1>2. Barriers \in Nat /\ TileSize \in Nat \ {0}
  BY SizeAssumption
<1>3. pc[t] = "fiber" /\ cur[t].seg < Barriers /\ Execute(t) /\ Resume(t, idx[t] - 1)
  BY DEF Wait
<1>4. PICK i \in Item, s \in 0 .. Barriers : cur[t] = [item |-> i, seg |-> s]
  BY <1>1 DEF TypeOK, Fiber
<1>5. pc[t] = "fiber" /\ s < Barriers /\ Execute(t) /\ Resume(t, idx[t] - 1)
  BY <1>3, <1>4
<1>6. /\ cur[t].item = i /\ cur[t].seg = s /\ i \in Nat \ {0} /\ i <= TileSize
      /\ s \in Nat /\ s + 1 \in 0 .. Barriers
  BY <1>2, <1>5, <1>4 DEF Item
<1>7. idx[t] = i /\ idx' = [idx EXCEPT ![t] = i - 1] /\ i - 1 \in 0 .. TileSize
  <2>1. idx[t] = i
    BY <1>1, <1>5, <1>6 DEF InStep
  <2> QED BY <1>2, <1>6, <2>1 DEF Wait
<1>8. [cur[t] EXCEPT !.seg = @ + 1] = [item |-> i, seg |-> s + 1]
  BY <1>4
<1>9. ctx' = [ctx EXCEPT ![t] = [x \in Item |->
                 IF x = i THEN [item |-> i, seg |-> s + 1] ELSE ctx[t][x]]]
  BY <1>7, <1>8 DEF Wait, SaveAt
<1>10. ctx' \in [Thread -> [Item -> Fiber]]
  <2>1. [item |-> i, seg |-> s + 1] \in Fiber
    BY <1>6 DEF Fiber
  <2>2. ctx \in [Thread -> [Item -> Fiber]]
    BY <1>1 DEF TypeOK
  <2> QED BY <1>9, <2>1, <2>2
<1>11. TypeOK'
  <2>1. runs' \in [Work -> Nat]
    BY <1>1, <1>5, ExecuteTypes
  <2>2. /\ pc' \in [Thread -> {"unborn", "new", "tile", "ring", "fiber", "done"}]
        /\ cur' \in [Thread -> Fiber]
    BY <1>1, <1>5, <1>7, ResumeTypes
  <2>3. idx' \in [Thread -> 0 .. TileSize]
    BY <1>1, <1>7 DEF TypeOK
  <2> QED BY <1>1, <1>10, <2>1, <2>2, <2>3 DEF TypeOK, launcher
<1>12. ctx'[t] = [x \in Item |->
                 IF x = i THEN [item |-> i, seg |-> s + 1] ELSE ctx[t][x]]
  BY <1>1, <1>9 DEF TypeOK
<1>13. idx'[t] = i - 1
  BY <1>1, <1>7 DEF TypeOK
<1>14. \A x \in Item : i <= x => ctx'[t][x] = [item |-> x, seg |-> s + 1]
  <2> SUFFICES ASSUME NEW x \in Item, i < x \/ i = x
               PROVE  ctx'[t][x] = [item |-> x, seg |-> s + 1]
    BY <1>6 DEF Item
  <2>1. CASE i = x
    BY <1>12, <2>1
  <2>2. CASE i < x
    BY <1>1, <1>5, <1>6, <1>12, <2>2 DEF InStep
  <2> QED BY <2>1, <2>2
<1>15. CASE i = 1
  <2>1. pc'[t] = "ring"
    BY <1>1, <1>5, <1>7, <1>15, ResumeTypes
  <2>2. AllAt(t, s + 1)'
    BY <1>14, <1>15 DEF AllAt, Item
  <2>3. InStep(t)'
    BY <1>6, <2>1, <2>2 DEF InStep
  <2> QED BY <1>1, <1>5, <1>11, <2>1, <2>3 DEF InTile, Bound
<1>16. CASE i # 1
  <2>1. i - 1 \in Item /\ i - 1 # 0 /\ i - 1 < i
    BY <1>2, <1>6, <1>16 DEF Item
  <2>2. pc'[t] = "fiber" /\ cur'[t] = ctx[t][i - 1]
    BY <1>1, <1>5, <1>7, <2>1, ResumeTypes
  <2>3. cur'[t] = [item |-> i - 1, seg |-> s]
    BY <1>1, <1>5, <1>6, <2>1, <2>2 DEF InStep
  <2>4. \A x \in Item : x < i - 1 => ctx'[t][x] = [item |-> x, seg |-> s]
    <3> SUFFICES ASSUME NEW x \in Item, x < i - 1
                 PROVE  ctx'[t][x] = [item |-> x, seg |-> s]
      OBVIOUS
    <3>1. x < i /\ x # i
      BY <1>6 DEF Item
    <3> QED BY <1>1, <1>5, <1>6, <1>12, <3>1 DEF InStep
  <2>5. \A x \in Item : i - 1 < x => ctx'[t][x] = [item |-> x, seg |-> s + 1]
    BY <1>6, <1>14 DEF Item
  <2>6. InStep(t)'
    BY <1>5, <1>13, <2>2, <2>3, <2>4, <2>5 DEF InStep
  <2> QED BY <1>1, <1>5, <1>11, <2>2, <2>6 DEF InTile, Bound
<1> QED BY <1>15, <1>16

\* Finish: uc_link leads to the item below, which stands at this segment.
LEMMA FibersFinish ==
  ASSUME Fibers, NEW t \in Thread, Finish(t)
  PROVE  TypeOK' /\ InTile(t)' /\ InStep(t)'
<1>1. TypeOK /\ InTile(t) /\ InStep(t) /\ UNCHANGED <<launcher, row, col, idx, ctx>>
  BY DEF Fibers, Finish
<1>2. Barriers \in Nat /\ TileSize \in Nat \ {0}
  BY SizeAssumption
<1>3. PICK i \in Item : cur[t].item = i
  BY <1>1 DEF TypeOK, Fiber
<1>4. pc[t] = "fiber" /\ cur[t].seg = Barriers /\ Execute(t) /\ Resume(t, i - 1)
  BY <1>3 DEF Finish
<1>5. cur[t].item = i /\ i \in Nat \ {0} /\ i - 1 \in 0 .. TileSize
  BY <1>2, <1>3 DEF Item
<1>6. idx[t] = TileSize
  BY <1>1, <1>4 DEF InStep
<1>7. TypeOK'
  <2>1. runs' \in [Work -> Nat]
    BY <1>1, <1>4, ExecuteTypes
  <2>2. /\ pc' \in [Thread -> {"unborn", "new", "tile", "ring", "fiber", "done"}]
        /\ cur' \in [Thread -> Fiber]
    BY <1>1, <1>4, <1>5, ResumeTypes
  <2> QED BY <1>1, <2>1, <2>2 DEF TypeOK, launcher
<1>8. CASE i = 1
  <2>1. pc'[t] = "ring"
    BY <1>1, <1>4, <1>5, <1>8, ResumeTypes
  <2> QED BY <1>1, <1>2, <1>4, <1>6, <1>7, <2>1 DEF InTile, InStep, Bound
<1>9. CASE i # 1
  <2>1. i - 1 \in Item /\ i - 1 # 0 /\ i - 1 < i
    BY <1>2, <1>5, <1>9 DEF Item
  <2>2. pc'[t] = "fiber" /\ cur'[t] = ctx[t][i - 1]
    BY <1>1, <1>4, <1>5, <2>1, ResumeTypes
  <2>3. cur'[t] = [item |-> i - 1, seg |-> Barriers]
    BY <1>1, <1>4, <1>5, <2>1, <2>2 DEF InStep
  <2>4. \A x \in Item : x < i - 1 => ctx'[t][x] = [item |-> x, seg |-> Barriers]
    <3> SUFFICES ASSUME NEW x \in Item, x < i - 1
                 PROVE  ctx[t][x] = [item |-> x, seg |-> Barriers]
      BY <1>1
    <3>1. x < i
      BY <1>5 DEF Item
    <3> QED BY <1>1, <1>4, <1>5, <3>1 DEF InStep
  <2>5. InStep(t)'
    BY <1>1, <1>2, <1>6, <2>2, <2>3, <2>4 DEF InStep
  <2> QED BY <1>1, <1>4, <1>7, <2>2, <2>5 DEF InTile, Bound
<1> QED BY <1>8, <1>9

\* The launching thread creates threads that have not begun, and joins.
LEMMA FibersLauncher ==
  ASSUME Fibers, Create \/ Join \/ Return
  PROVE  Fibers'
<1>1. TypeOK
  BY DEF Fibers
<1>2. NThread \in Nat \ {0}
  BY SizeAssumption
<1>3. CASE Create
  <2>1. made \in Thread /\ pc' = [pc EXCEPT ![made] = "new"]
        /\ UNCHANGED <<joined, returned, row, col, idx, ctx, cur, runs>>
    BY <1>1, <1>2, <1>3 DEF TypeOK, Create, Thread
  <2>2. TypeOK'
    <3>1. made' \in 0 .. NThread /\ joined' \in 0 .. made' /\ inKernel' \in BOOLEAN
      BY <1>1, <1>2, <1>3 DEF TypeOK, Create
    <3> QED BY <1>1, <2>1, <3>1 DEF TypeOK
  <2>3. ASSUME NEW t \in Thread PROVE InTile(t)' /\ InStep(t)'
    <3>1. CASE t = made
      <4>1. pc'[t] = "new"
        BY <1>1, <2>1, <3>1 DEF TypeOK
      <4> QED BY <4>1 DEF InTile, InStep
    <3>2. CASE t # made
      BY <1>1, <2>1, <3>2, OtherThread DEF TypeOK, Fibers
    <3> QED BY <3>1, <3>2
  <2> QED BY <2>2, <2>3 DEF Fibers
<1>4. CASE Join \/ Return
  <2>1. UNCHANGED threads /\ UNCHANGED runs
    BY <1>4 DEF Join, Return
  <2>2. TypeOK'
    <3>1. made' \in 0 .. NThread /\ joined' \in 0 .. made'
      BY <1>1, <1>2, <1>4 DEF TypeOK, Join, Return
    <3>2. inKernel' \in BOOLEAN /\ returned' \in BOOLEAN
      BY <1>1, <1>4, Zenon DEF TypeOK, Join, Return
    <3> QED BY <1>1, <2>1, <3>1, <3>2 DEF TypeOK, threads
  <2>3. ASSUME NEW t \in Thread PROVE InTile(t)' /\ InStep(t)'
    BY <2>1, OtherThread DEF Fibers, threads
  <2> QED BY <2>2, <2>3 DEF Fibers
<1> QED BY <1>3, <1>4

\* The invariant is inductive.
LEMMA FibersNext == Fibers /\ [Next]_vars => Fibers'
<1> SUFFICES ASSUME Fibers, [Next]_vars PROVE Fibers'
  OBVIOUS
<1>1. CASE Create \/ Join \/ Return
  BY <1>1, FibersLauncher
<1>2. ASSUME NEW t \in Thread, Step(t) PROVE Fibers'
  <2>1. TypeOK' /\ InTile(t)' /\ InStep(t)'
    BY <1>2, FibersMove, FibersSet, FibersRound, FibersWait, FibersFinish DEF Step
  <2>2. ASSUME NEW u \in Thread, u # t PROVE InTile(u)' /\ InStep(u)'
    BY <1>2, <2>2, StepIsOwn, OtherThread DEF Fibers
  <2> QED BY <2>1, <2>2 DEF Fibers
<1>3. CASE UNCHANGED vars
  <2>1. TypeOK'
    BY <1>3 DEF vars, launcher, threads, Fibers, TypeOK
  <2>2. ASSUME NEW u \in Thread PROVE InTile(u)' /\ InStep(u)'
    BY <1>3, OtherThread DEF Fibers, vars, threads
  <2> QED BY <2>1, <2>2 DEF Fibers
<1> QED BY <1>1, <1>2, <1>3 DEF Next

\* The executor without its fairness.
Steps == Init /\ [][Next]_vars

\* Hence it always holds.
LEMMA FibersAlways == Steps => []Fibers
BY FibersInit, FibersNext, PTL DEF Steps

\* No slice reaches outside the domain, whether its bounds wrap or not, and the
\* index of barrier_t stays within the contexts.
THEOREM Typing == Spec => []TypeOK
<1>1. Fibers => TypeOK
  BY DEF Fibers
<1> QED BY <1>1, FibersAlways, PTL DEF Spec, Steps

\* The items that are still to be resumed in a round stand at the barrier that
\* the running one has left, each in its own context, for every number of items
\* and barriers.
THEOREM RoundsInStep == Spec => []RingInStep
<1>1. Fibers => RingInStep
  BY DEF Fibers, InStep, RingInStep
<1> QED BY <1>1, FibersAlways, PTL DEF Spec, Steps

-----------------------------------------------------------------------------
(* The pieces of work.                                                     *)

\* Thread t has executed segment q of item x in tile <<r, c>> of its slice.
Executed(t, r, c, x, q) ==
    \/ pc[t] = "done"
    \/ pc[t] \in {"tile", "ring", "fiber"} /\ (r < row[t] \/ (r = row[t] /\ c < col[t]))
    \/ /\ pc[t] = "ring" /\ r = row[t] /\ c = col[t]
       /\ idx[t] # 0 \/ q < ctx[t][1].seg
    \/ /\ pc[t] = "fiber" /\ r = row[t] /\ c = col[t]
       /\ q < cur[t].seg \/ (q = cur[t].seg /\ cur[t].item < x)

\* What t owns was executed as far as t has come, and nothing twice.
Ledger(t) ==
    \A r \in 0 .. Rows - 1, c \in 0 .. Cols - 1, x \in Item, q \in 0 .. Barriers :
        Owns(t, c) => runs[<<<<r, c>>, x, q>>] = IF Executed(t, r, c, x, q) THEN 1 ELSE 0

Slice(t) ==
    /\ pc[t] \in {"unborn", "new"} => row[t] = 0
    /\ pc[t] \in {"tile", "ring", "fiber"} => row[t] < Rows /\ Bound(t) <= col[t]

Launching ==
    /\ \A t \in Thread : pc[t] = "unborn" <=> made <= t
    /\ \A t \in Thread : t < joined => pc[t] = "done"
    /\ returned => joined = NThread

Progress == Fibers /\ Launching /\ \A t \in Thread : Slice(t) /\ Ledger(t)

\* No tile is owed at first.
LEMMA ProgressInit == Init => Progress
<1> SUFFICES ASSUME Init PROVE Progress
  OBVIOUS
<1>1. Fibers
  BY FibersInit
<1>2. Launching
  BY SizeAssumption DEF Init, Launching, Thread
<1>3. ASSUME NEW t \in Thread PROVE Slice(t) /\ Ledger(t)
  <2>1. pc[t] = "unborn" /\ row[t] = 0
    BY DEF Init
  <2>2. \A w \in Work : runs[w] = 0
    BY DEF Init
  <2>3. \A r \in 0 .. Rows - 1, c \in 0 .. Cols - 1, x \in Item, q \in 0 .. Barriers :
           <<<<r, c>>, x, q>> \in Work
    BY DEF Work, Tile
  <2> QED BY <2>1, <2>2, <2>3 DEF Slice, Ledger, Executed
<1> QED BY <1>1, <1>2, <1>3 DEF Progress

\* The piece of work that t executes is its own.
LEMMA ExecutesOwn ==
  ASSUME Progress, NEW t \in Thread, pc[t] = "fiber"
  PROVE  /\ row[t] \in 0 .. Rows - 1 /\ col[t] \in 0 .. Cols - 1 /\ Owns(t, col[t])
         /\ cur[t].item \in Item /\ cur[t].seg \in 0 .. Barriers
<1>1. TypeOK /\ Slice(t) /\ InTile(t)
  BY DEF Progress, Fibers
<1>2. Cols \in Nat /\ Rows \in Nat /\ Bound(t) \in 0 .. Cols /\ Bound(t + 1) \in 0 .. Cols
  BY SizeAssumption, SliceBounds
<1>3. row[t] \in 0 .. Rows /\ col[t] \in 0 .. Cols /\ cur[t] \in Fiber
  BY <1>1 DEF TypeOK
<1>4. row[t] < Rows /\ col[t] < Bound(t + 1) /\ Bound(t) <= col[t]
  BY <1>1 DEF Slice, InTile
<1> QED BY <1>2, <1>3, <1>4 DEF Owns, Fiber

\* A step that executes nothing, of thread t.
LEMMA LedgerKept ==
  ASSUME NEW t \in Thread, Ledger(t), runs' = runs,
         \A r \in 0 .. Rows - 1, c \in 0 .. Cols - 1, x \in Item, q \in 0 .. Barriers :
             Owns(t, c) => (Executed(t, r, c, x, q)' <=> Executed(t, r, c, x, q))
  PROVE  Ledger(t)'
<1>1. \A c : Owns(t, c)' <=> Owns(t, c)
  BY DEF Owns, Bound
<1> QED BY <1>1 DEF Ledger

\* A step that executes the piece of work <<<<row[t], col[t]>>, i, s>>.
LEMMA LedgerAdvanced ==
  ASSUME Progress, NEW t \in Thread, NEW i \in Item, NEW s \in 0 .. Barriers,
         pc[t] = "fiber", cur[t].item = i, cur[t].seg = s, Execute(t),
         row' = row, col' = col,
         \A r \in 0 .. Rows - 1, c \in 0 .. Cols - 1, x \in Item, q \in 0 .. Barriers :
             Owns(t, c) =>
                (Executed(t, r, c, x, q)' <=>
                    \/ Executed(t, r, c, x, q)
                    \/ r = row[t] /\ c = col[t] /\ x = i /\ q = s)
  PROVE  Ledger(t)'
<1> DEFINE w == <<<<row[t], col[t]>>, i, s>>
<1>1. runs' = [runs EXCEPT ![w] = @ + 1] /\ runs \in [Work -> Nat]
  BY DEF Execute, Progress, Fibers, TypeOK
<1>2. \A c : Owns(t, c)' <=> Owns(t, c)
  BY DEF Owns, Bound
<1> SUFFICES ASSUME NEW r \in 0 .. Rows - 1, NEW c \in 0 .. Cols - 1, NEW x \in Item,
                    NEW q \in 0 .. Barriers, Owns(t, c)
             PROVE  runs'[<<<<r, c>>, x, q>>] = IF Executed(t, r, c, x, q)' THEN 1 ELSE 0
  BY <1>2 DEF Ledger
<1> DEFINE v == <<<<r, c>>, x, q>>
<1>3. v \in Work
  BY DEF Work, Tile
<1>4. runs[v] = IF Executed(t, r, c, x, q) THEN 1 ELSE 0
  BY DEF Progress, Ledger
<1>5. CASE r = row[t] /\ c = col[t] /\ x = i /\ q = s
  <2>1. v = w
    BY <1>5
  <2>2. ~Executed(t, r, c, x, q)
    <3>1. row[t] \in Nat /\ col[t] \in Nat /\ i \in Nat /\ s \in Nat
      BY ExecutesOwn, SizeAssumption DEF Item
    <3> QED BY <1>5, <3>1 DEF Executed
  <2>3. runs'[v] = runs[v] + 1
    BY <1>1, <1>3, <2>1
  <2> QED BY <1>4, <1>5, <2>2, <2>3
<1>6. CASE ~(r = row[t] /\ c = col[t] /\ x = i /\ q = s)
  <2>1. v # w
    BY <1>6
  <2>2. runs'[v] = runs[v]
    BY <1>1, <1>3, <2>1
  <2> QED BY <1>4, <1>6, <2>2
<1> QED BY <1>5, <1>6

\* Begin and NextRow: t has executed no tile of the row it comes to, and all of
\* its tiles of the rows before.
LEMMA LedgerRow ==
  ASSUME Progress, NEW t \in Thread, Begin(t) \/ NextRow(t)
  PROVE  Slice(t)' /\ Ledger(t)'
<1>1. TypeOK /\ Slice(t) /\ Ledger(t) /\ runs' = runs
  BY DEF Progress, Fibers, Begin, NextRow
<1>2. Cols \in Nat /\ Rows \in Nat \ {0} /\ Bound(t) \in 0 .. Cols /\ Bound(t + 1) \in 0 .. Cols
  BY SizeAssumption, SliceBounds
<1>3. row[t] \in 0 .. Rows /\ col[t] \in 0 .. Cols
  BY <1>1 DEF TypeOK
<1>4. CASE Begin(t)
  <2>1. pc[t] = "new" /\ row[t] = 0 /\ row' = row
    BY <1>1, <1>4 DEF Begin, Slice
  <2>2. CASE Bound(t) = Bound(t + 1)
    <3>1. pc'[t] = "done"
      BY <1>1, <1>4, <2>2 DEF Begin, TypeOK
    <3>2. \A c \in 0 .. Cols - 1 : ~Owns(t, c)
      BY <1>2, <2>2 DEF Owns
    <3> QED BY <1>1, <3>1, <3>2, LedgerKept DEF Slice
  <2>3. CASE Bound(t) # Bound(t + 1)
    <3>1. pc'[t] = "tile" /\ col'[t] = Bound(t)
      BY <1>1, <1>4, <2>3 DEF Begin, TypeOK
    <3>2. Slice(t)'
      BY <1>2, <2>1, <3>1 DEF Slice, Bound
    <3> QED BY <1>1, <1>2, <2>1, <3>1, <3>2, LedgerKept DEF Executed, Owns
  <2> QED BY <2>2, <2>3
<1>5. CASE NextRow(t)
  <2>1. pc[t] = "tile" /\ row[t] < Rows /\ Bound(t + 1) <= col[t] /\ row'[t] = row[t] + 1
        /\ col'[t] = Bound(t)
        /\ pc'[t] = IF row[t] + 1 = Rows THEN "done" ELSE "tile"
    BY <1>1, <1>2, <1>3, <1>5 DEF NextRow, TypeOK
  <2>2. Slice(t)'
    BY <1>2, <1>3, <2>1 DEF Slice, Bound
  <2> QED BY <1>1, <1>2, <1>3, <2>1, <2>2, LedgerKept DEF Executed, Owns
<1> QED BY <1>4, <1>5

\* SetContexts, Round and TileDone: the tile is begun, goes on, or is finished.
LEMMA LedgerTile ==
  ASSUME Progress, NEW t \in Thread, SetContexts(t) \/ Round(t) \/ TileDone(t)
  PROVE  Slice(t)' /\ Ledger(t)'
<1>1. TypeOK /\ Slice(t) /\ Ledger(t) /\ InStep(t) /\ runs' = runs /\ row' = row
  BY DEF Progress, Fibers, SetContexts, Round, TileDone
<1>2. Cols \in Nat /\ Rows \in Nat \ {0} /\ Barriers \in Nat /\ TileSize \in Nat \ {0}
      /\ Bound(t) \in 0 .. Cols
  BY SizeAssumption, SliceBounds
<1>3. row[t] \in 0 .. Rows /\ col[t] \in 0 .. Cols /\ 1 \in Item /\ TileSize \in Item
  BY <1>1, <1>2 DEF TypeOK, Item
<1>4. CASE SetContexts(t)
  <2>1. pc[t] = "tile" /\ col' = col /\ pc'[t] = "ring" /\ idx'[t] = 0 /\ ctx'[t][1].seg = 0
    BY <1>1, <1>3, <1>4 DEF SetContexts, TypeOK
  <2>2. Slice(t)'
    BY <1>1, <2>1 DEF Slice, Bound
  <2> QED BY <1>1, <1>2, <1>3, <2>1, <2>2, LedgerKept DEF Executed
<1>5. CASE Round(t)
  <2>1. pc[t] = "ring" /\ idx[t] = 0 /\ col' = col /\ pc'[t] = "fiber"
        /\ cur'[t] = ctx[t][TileSize]
    BY <1>1, <1>5 DEF Round, TypeOK
  <2>2. PICK s \in 0 .. Barriers : AllAt(t, s)
    BY <1>1, <2>1 DEF InStep
  <2>3. cur'[t].item = TileSize /\ cur'[t].seg = s /\ ctx[t][1].seg = s
    <3>1. /\ ctx[t][TileSize] = [item |-> TileSize, seg |-> s]
          /\ ctx[t][1] = [item |-> 1, seg |-> s]
      BY <1>3, <2>2 DEF AllAt
    <3> QED BY <2>1, <3>1
  <2>4. Slice(t)'
    BY <1>1, <2>1 DEF Slice, Bound
  <2> QED BY <1>1, <1>2, <1>3, <2>1, <2>3, <2>4, LedgerKept DEF Executed, Item
<1>6. CASE TileDone(t)
  <2>1. pc[t] = "ring" /\ idx[t] # 0 /\ col'[t] = col[t] + 1 /\ pc'[t] = "tile"
    BY <1>1, <1>6 DEF TileDone, TypeOK
  <2>2. Slice(t)'
    BY <1>1, <1>2, <1>3, <2>1 DEF Slice, Bound
  <2> QED BY <1>1, <1>2, <1>3, <2>1, <2>2, LedgerKept DEF Executed
<1> QED BY <1>4, <1>5, <1>6

\* Wait and Finish: the piece of work that was executed is counted.
LEMMA LedgerFiber ==
  ASSUME Progress, NEW t \in Thread, Wait(t) \/ Finish(t)
  PROVE  Slice(t)' /\ Ledger(t)'
<1>1. TypeOK /\ Slice(t) /\ InStep(t) /\ Execute(t) /\ row' = row /\ col' = col
      /\ pc[t] = "fiber"
  BY DEF Progress, Fibers, Wait, Finish
<1>2. Barriers \in Nat /\ TileSize \in Nat \ {0} /\ 1 \in Item
  BY SizeAssumption DEF Item
<1>3. PICK i \in Item, s \in 0 .. Barriers : cur[t] = [item |-> i, seg |-> s]
  BY <1>1 DEF TypeOK, Fiber
<1>4. cur[t].item = i /\ cur[t].seg = s /\ i \in Nat \ {0} /\ i <= TileSize /\ s \in Nat
  BY <1>2, <1>3 DEF Item
<1>5. row[t] \in Nat /\ col[t] \in Nat
  BY <1>1, SizeAssumption DEF TypeOK
<1>6. Resume(t, i - 1) /\ i - 1 \in 0 .. TileSize
  <2>1. CASE Wait(t)
    <3>1. idx[t] = i
      <4>1. cur[t].seg < Barriers
        BY <2>1 DEF Wait
      <4> QED BY <1>1, <1>4, <4>1 DEF InStep
    <3> QED BY <1>2, <1>4, <2>1, <3>1 DEF Wait
  <2>2. CASE Finish(t)
    BY <1>2, <1>4, <2>2 DEF Finish
  <2> QED BY <2>1, <2>2
<1>7. CASE i # 1
  <2>1. pc'[t] = "fiber" /\ cur'[t] = ctx[t][i - 1] /\ i - 1 \in Item
    BY <1>1, <1>4, <1>6, <1>7, ResumeTypes DEF Item
  <2>2. cur'[t].item = i - 1 /\ cur'[t].seg = s
    <3>1. ctx[t][i - 1] = [item |-> i - 1, seg |-> s]
      BY <1>1, <1>4, <2>1 DEF InStep
    <3> QED BY <2>1, <3>1
  <2>3. Slice(t)'
    BY <1>1, <2>1 DEF Slice, Bound
  <2>4. \A r \in 0 .. Rows - 1, c \in 0 .. Cols - 1, x \in Item, q \in 0 .. Barriers :
           Executed(t, r, c, x, q)' <=>
              Executed(t, r, c, x, q) \/ (r = row[t] /\ c = col[t] /\ x = i /\ q = s)
    BY <1>1, <1>2, <1>4, <1>5, <2>1, <2>2 DEF Executed, Item
  <2> QED BY <1>1, <1>4, <2>3, <2>4, LedgerAdvanced
<1>8. CASE i = 1
  <2>1. pc'[t] = "ring"
    BY <1>1, <1>6, <1>8, ResumeTypes
  <2>2. Slice(t)'
    BY <1>1, <2>1 DEF Slice, Bound
  <2>3. \/ s < Barriers /\ idx'[t] = 0 /\ ctx'[t][1].seg = s + 1
        \/ s = Barriers /\ idx'[t] # 0
    <3>1. CASE Wait(t)
      <4>1. idx[t] = 1
        BY <1>1, <1>4, <1>8, <3>1 DEF Wait, InStep
      <4>2. idx'[t] = 0 /\ s < Barriers
        BY <1>1, <1>4, <3>1, <4>1 DEF Wait, TypeOK
      <4>3. ctx'[t][1] = [cur[t] EXCEPT !.seg = @ + 1]
        BY <1>1, <1>2, <3>1, <4>1 DEF Wait, SaveAt, TypeOK
      <4>4. ctx'[t][1].seg = s + 1
        BY <1>3, <4>3
      <4> QED BY <4>2, <4>4
    <3>2. CASE Finish(t)
      BY <1>1, <1>2, <1>4, <3>2 DEF Finish, InStep
    <3> QED BY <3>1, <3>2
  <2>4. \A r \in 0 .. Rows - 1, c \in 0 .. Cols - 1, x \in Item, q \in 0 .. Barriers :
           Executed(t, r, c, x, q)' <=>
              Executed(t, r, c, x, q) \/ (r = row[t] /\ c = col[t] /\ x = i /\ q = s)
    BY <1>1, <1>2, <1>4, <1>5, <1>8, <2>1, <2>3 DEF Executed, Item
  <2> QED BY <1>1, <1>4, <2>2, <2>4, LedgerAdvanced
<1> QED BY <1>7, <1>8

\* A step of another thread executes nothing that u owns.
LEMMA LedgerOther ==
  ASSUME NoWrap, Progress, NEW t \in Thread, Step(t), NEW u \in Thread, u # t
  PROVE  Slice(u)' /\ Ledger(u)'
<1>1. TypeOK /\ Slice(u) /\ Ledger(u)
  BY DEF Progress, Fibers
<1>2. /\ pc'[u] = pc[u] /\ row'[u] = row[u] /\ col'[u] = col[u]
      /\ idx'[u] = idx[u] /\ ctx'[u] = ctx[u] /\ cur'[u] = cur[u]
  BY <1>1, StepIsOwn
<1>3. Slice(u)'
  BY <1>1, <1>2 DEF Slice, Bound
<1>4. \A r, c, x, q : Executed(u, r, c, x, q)' <=> Executed(u, r, c, x, q)
  BY <1>2 DEF Executed
<1>5. CASE runs' = runs
  BY <1>1, <1>3, <1>4, <1>5, LedgerKept
<1>6. CASE Execute(t) /\ pc[t] = "fiber"
  <2>1. PICK w : runs' = [runs EXCEPT ![w] = @ + 1]
                 /\ w = <<<<row[t], col[t]>>, cur[t].item, cur[t].seg>>
    BY <1>6 DEF Execute
  <2>2. col[t] \in Nat /\ Owns(t, col[t])
    BY <1>6, ExecutesOwn, SizeAssumption
  <2> SUFFICES ASSUME NEW r \in 0 .. Rows - 1, NEW c \in 0 .. Cols - 1, NEW x \in Item,
                      NEW q \in 0 .. Barriers, Owns(u, c)
               PROVE  runs'[<<<<r, c>>, x, q>>] = IF Executed(u, r, c, x, q)' THEN 1 ELSE 0
    BY <1>3 DEF Ledger, Owns, Bound
  <2> DEFINE v == <<<<r, c>>, x, q>>
  <2>3. c # col[t]
    BY <2>2, SlicesApart
  <2>4. v # w /\ v \in Work
    BY <2>1, <2>3 DEF Work, Tile
  <2>5. runs \in [Work -> Nat]
    BY <1>1 DEF TypeOK
  <2>6. runs'[v] = runs[v]
    BY <2>1, <2>4, <2>5
  <2>7. runs[v] = IF Executed(u, r, c, x, q) THEN 1 ELSE 0
    BY <1>1 DEF Ledger
  <2> QED BY <1>4, <2>6, <2>7
<1> QED
  BY <1>5, <1>6 DEF Step, Begin, NextRow, SetContexts, Round, TileDone, Wait, Finish

\* What the launching thread has created and joined.
LEMMA LaunchingKept ==
  ASSUME Progress, NEW t \in Thread, Step(t)
  PROVE  Launching'
<1>1. TypeOK /\ Launching /\ UNCHANGED launcher
  BY DEF Progress, Fibers, Step, Begin, NextRow, SetContexts, Round, TileDone, Wait, Finish
<1>2. pc[t] # "unborn" /\ pc[t] # "done" /\ pc'[t] # "unborn"
  <2>1. CASE Wait(t) \/ Finish(t)
    <3>1. pc[t] = "fiber" /\ \E x : Resume(t, x)
      BY <2>1 DEF Wait, Finish
    <3> QED BY <1>1, <3>1 DEF Resume, TypeOK
  <2>2. CASE ~(Wait(t) \/ Finish(t))
    BY <1>1, <2>2 DEF Step, Begin, NextRow, SetContexts, Round, TileDone, TypeOK
  <2> QED BY <2>1, <2>2
<1>3. \A u \in Thread : u # t => pc'[u] = pc[u]
  BY <1>1, StepIsOwn
<1> QED BY <1>1, <1>2, <1>3 DEF Launching, launcher

\* Creating, joining and returning keep the account of tiles.
LEMMA ProgressLauncher ==
  ASSUME Progress, Create \/ Join \/ Return
  PROVE  Progress'
<1>1. TypeOK /\ Launching
  BY DEF Progress, Fibers
<1>2. NThread \in Nat \ {0} /\ made \in 0 .. NThread /\ joined \in 0 .. made
  BY <1>1, SizeAssumption DEF TypeOK
<1>3. Fibers'
  BY FibersLauncher DEF Progress
<1>4. CASE Create
  <2>1. made \in Thread /\ pc' = [pc EXCEPT ![made] = "new"] /\ made' = made + 1
        /\ UNCHANGED <<joined, returned, row, col, idx, ctx, cur, runs>>
    BY <1>2, <1>4 DEF Create, Thread
  <2>2. Launching'
    <3>1. \A t \in Thread : pc'[t] = IF t = made THEN "new" ELSE pc[t]
      BY <1>1, <2>1 DEF TypeOK
    <3>2. \A t \in Thread : t \in Nat
      BY DEF Thread
    <3> QED BY <1>1, <1>2, <2>1, <3>1, <3>2 DEF Launching
  <2>3. ASSUME NEW t \in Thread PROVE Slice(t)' /\ Ledger(t)'
    <3>1. Slice(t) /\ Ledger(t)
      BY DEF Progress
    <3>2. CASE t = made
      <4>1. pc[t] = "unborn" /\ pc'[t] = "new"
        BY <1>1, <1>2, <2>1, <3>2 DEF Launching, TypeOK
      <4> QED BY <2>1, <3>1, <4>1, LedgerKept DEF Slice, Executed
    <3>3. CASE t # made
      <4>1. pc'[t] = pc[t]
        BY <1>1, <2>1, <3>3 DEF TypeOK
      <4> QED BY <2>1, <3>1, <4>1, LedgerKept DEF Slice, Executed, Bound
    <3> QED BY <3>2, <3>3
  <2> QED BY <1>3, <2>2, <2>3 DEF Progress
<1>5. CASE Join \/ Return
  <2>1. UNCHANGED threads /\ UNCHANGED runs /\ UNCHANGED made
    BY <1>5 DEF Join, Return
  <2>2. Launching'
    <3>1. \A t \in Thread : t \in Nat
      BY DEF Thread
    <3>2. CASE Join
      <4>1. pc[joined] = "done" /\ joined' = joined + 1 /\ returned' = returned /\ joined # NThread
        BY <1>2, <3>2 DEF Join, Joinable
      <4>2. ~returned
        BY <1>1, <4>1 DEF Launching
      <4> QED BY <1>1, <1>2, <2>1, <3>1, <4>1, <4>2 DEF Launching, threads
    <3>3. CASE Return
      BY <1>1, <2>1, <3>3 DEF Launching, threads, Return
    <3> QED BY <1>5, <3>2, <3>3
  <2>3. ASSUME NEW t \in Thread PROVE Slice(t)' /\ Ledger(t)'
    <3>1. Slice(t) /\ Ledger(t)
      BY DEF Progress
    <3> QED BY <2>1, <3>1, LedgerKept DEF Slice, Executed, Bound, threads
  <2> QED BY <1>3, <2>2, <2>3 DEF Progress
<1> QED BY <1>4, <1>5

\* Every step keeps the account, when no bound wraps.
LEMMA ProgressNext ==
  ASSUME NoWrap, Progress, [Next]_vars
  PROVE  Progress'
<1>1. Fibers'
  BY FibersNext DEF Progress
<1>2. ASSUME NEW t \in Thread, Step(t) PROVE Progress'
  <2>1. Launching'
    BY <1>2, LaunchingKept
  <2>2. Slice(t)' /\ Ledger(t)'
    BY <1>2, LedgerRow, LedgerTile, LedgerFiber DEF Step
  <2>3. ASSUME NEW u \in Thread, u # t PROVE Slice(u)' /\ Ledger(u)'
    BY <1>2, <2>3, LedgerOther
  <2> QED BY <1>1, <2>1, <2>2, <2>3 DEF Progress
<1>3. CASE UNCHANGED vars
  <2>1. Launching'
    BY <1>3 DEF vars, launcher, threads, Progress, Launching
  <2>2. ASSUME NEW t \in Thread PROVE Slice(t)' /\ Ledger(t)'
    BY <1>3, LedgerKept DEF Progress, Slice, Executed, Bound, vars, threads
  <2> QED BY <1>1, <2>1, <2>2 DEF Progress
<1> QED BY <1>2, <1>3, ProgressLauncher DEF Next

\* Hence it always holds.
LEMMA ProgressAlways ==
  ASSUME NoWrap
  PROVE  Steps => []Progress
<1>1. Progress /\ [Next]_vars => Progress'
  BY ProgressNext
<1> QED BY <1>1, ProgressInit, PTL DEF Steps

-----------------------------------------------------------------------------
(* The executor does what TileExecution promises.                          *)

\* A piece of work is in the slice of some thread.
LEMMA WorkIsOwned ==
  ASSUME NoWrap, NEW w \in Work
  PROVE  \E t \in Thread, r \in 0 .. Rows - 1, c \in 0 .. Cols - 1,
            x \in Item, q \in 0 .. Barriers :
            w = <<<<r, c>>, x, q>> /\ Owns(t, c)
<1>1. PICK r \in 0 .. Rows - 1, c \in 0 .. Cols - 1, x \in Item, q \in 0 .. Barriers :
         w = <<<<r, c>>, x, q>>
  BY DEF Work, Tile
<1>2. PICK t \in Thread : Owns(t, c)
  BY SlicesCover
<1> QED BY <1>1, <1>2

\* When the launching thread has joined all others, everything ran once.
LEMMA AllRan ==
  ASSUME NoWrap, Progress, joined = NThread
  PROVE  \A w \in Work : runs[w] = 1
<1> SUFFICES ASSUME NEW w \in Work PROVE runs[w] = 1
  OBVIOUS
<1>1. PICK t \in Thread, r \in 0 .. Rows - 1, c \in 0 .. Cols - 1, x \in Item,
           q \in 0 .. Barriers : w = <<<<r, c>>, x, q>> /\ Owns(t, c)
  BY WorkIsOwned
<1>2. pc[t] = "done"
  <2>1. t < joined
    BY SizeAssumption DEF Thread
  <2> QED BY <2>1 DEF Progress, Launching
<1> QED BY <1>1, <1>2 DEF Progress, Ledger, Executed

\* Wait and Finish execute a piece of work whose turn it is.
LEMMA FiberRuns ==
  ASSUME Progress, NEW t \in Thread, Wait(t) \/ Finish(t)
  PROVE  Execution!Run(<<row[t], col[t]>>, cur[t].item, cur[t].seg)
<1>1. pc[t] = "fiber" /\ Execute(t) /\ returned' = returned
  BY DEF Wait, Finish, launcher
<1>2. row[t] \in 0 .. Rows - 1 /\ col[t] \in 0 .. Cols - 1 /\ Owns(t, col[t])
      /\ cur[t].item \in Item /\ cur[t].seg \in 0 .. Barriers
  BY <1>1, ExecutesOwn
<1>3. PICK r \in 0 .. Rows - 1, c \in 0 .. Cols - 1, i \in Item, s \in 0 .. Barriers :
         row[t] = r /\ col[t] = c /\ cur[t].item = i /\ cur[t].seg = s
  BY <1>2
<1>4. r \in Nat /\ c \in Nat /\ i \in Nat /\ s \in Nat /\ Owns(t, c)
  BY <1>2, <1>3, SizeAssumption DEF Item
<1>5. ~returned
  <2>1. t < NThread
    BY SizeAssumption DEF Thread
  <2> QED BY <1>1, <2>1 DEF Progress, Launching
<1>6. \A x \in Item, q \in 0 .. Barriers :
         runs[<<<<r, c>>, x, q>>] = IF Executed(t, r, c, x, q) THEN 1 ELSE 0
  BY <1>4 DEF Progress, Ledger
<1>7. runs[<<<<r, c>>, i, s>>] = 0
  <2>1. ~Executed(t, r, c, i, s)
    BY <1>1, <1>3, <1>4 DEF Executed
  <2> QED BY <1>6, <2>1
<1>8. \A x \in Item, q \in 0 .. Barriers : q < s => runs[<<<<r, c>>, x, q>>] = 1
  <2>1. \A x \in Item, q \in 0 .. Barriers : q < s => Executed(t, r, c, x, q)
    BY <1>1, <1>3 DEF Executed
  <2> QED BY <1>6, <2>1
<1>9. runs' = [runs EXCEPT ![<<<<r, c>>, i, s>>] = 1]
  <2>1. runs' = [runs EXCEPT ![<<<<r, c>>, i, s>>] = @ + 1]
    BY <1>1, <1>3 DEF Execute
  <2> QED BY <1>7, <2>1
<1> QED BY <1>1, <1>3, <1>5, <1>7, <1>8, <1>9 DEF Execution!Run

\* Every step of the executor is one of TileExecution, or changes nothing there.
LEMMA StepsMap ==
  ASSUME NoWrap, Progress, [Next]_vars
  PROVE  [Execution!Next]_(Execution!vars)
<1>1. CASE Return
  <2>1. joined = NThread /\ ~returned /\ returned' = TRUE /\ runs' = runs
    BY <1>1 DEF Return
  <2>2. \A w \in Work : runs[w] = 1
    BY <2>1, AllRan
  <2> QED BY <2>1, <2>2 DEF Execution!Next, Execution!Return, Execution!Work, Work
<1>2. ASSUME NEW t \in Thread, Wait(t) \/ Finish(t)
      PROVE  Execution!Next
  <2>1. pc[t] = "fiber"
    BY <1>2 DEF Wait, Finish
  <2>2. <<row[t], col[t]>> \in Tile /\ cur[t].item \in Item /\ cur[t].seg \in 0 .. Barriers
    BY <2>1, ExecutesOwn DEF Tile
  <2> QED BY <1>2, <2>2, FiberRuns DEF Execution!Next
<1>3. CASE Create \/ Join \/ UNCHANGED vars
  BY <1>3 DEF Create, Join, vars, launcher, Execution!vars
<1>4. ASSUME NEW t \in Thread,
             Begin(t) \/ NextRow(t) \/ SetContexts(t) \/ Round(t) \/ TileDone(t)
      PROVE  UNCHANGED Execution!vars
  BY <1>4 DEF Begin, NextRow, SetContexts, Round, TileDone, launcher, Execution!vars
<1> QED BY <1>1, <1>2, <1>3, <1>4 DEF Next, Step

\* When the bounds of the slices do not wrap, slices, ring and contexts implement
\* tiles with barriers: every segment of every item runs once, none before the
\* barrier in front of it was reached by the whole tile, and parallel_for_each
\* returns after all of them.  (That it does return is left to the model checker.)
THEOREM BarriersKept ==
  ASSUME NoWrap
  PROVE  Spec => Execution!Init /\ [][Execution!Next]_(Execution!vars)
<1>1. Init => Execution!Init
  BY DEF Init, Execution!Init, Execution!Work, Work
<1>2. Progress /\ [Next]_vars => [Execution!Next]_(Execution!vars)
  BY StepsMap
<1> QED BY <1>1, <1>2, ProgressAlways, PTL DEF Spec, Steps

\* And in particular no index is lost, which the overflow run refutes for a domain
\* whose bounds wrap.
THEOREM AllRunBeforeReturn ==
  ASSUME NoWrap
  PROVE  Spec => []AllRanOnReturn
<1>1. Progress => AllRanOnReturn
  BY AllRan DEF Progress, Launching, AllRanOnReturn
<1> QED BY <1>1, ProgressAlways, PTL DEF Spec, Steps

-----------------------------------------------------------------------------
(* Operations are steps of the fibers between those of CpuExecutor.        *)

\* A step of the kernel with atomics is a step of the executor, or none.
LEMMA AtomicIsStep == [AtomicNext]_avars => [Next]_vars
<1> SUFFICES ASSUME [AtomicNext]_avars PROVE [Next]_vars
  OBVIOUS
<1>1. CASE Launcher
  BY <1>1 DEF Launcher, Next
<1>2. ASSUME NEW t \in Thread, AtomicStep(t) PROVE [Next]_vars
  BY <1>2 DEF AtomicStep, Proceed, Next
<1>3. CASE UNCHANGED avars
  BY <1>3 DEF avars
<1> QED BY <1>1, <1>2, <1>3 DEF AtomicNext

\* A program with atomic operations runs its fibers as CpuExecutor does.
THEOREM AtomicsRunInSteps == AtomicSpec => Steps
<1>1. AtomicInit => Init
  BY DEF AtomicInit
<1> QED BY <1>1, AtomicIsStep, PTL DEF AtomicSpec, Steps

\* Hence the executor's invariant holds with atomics too.
LEMMA AtomicFibers == AtomicSpec => []Fibers
BY AtomicsRunInSteps, FibersAlways, PTL

\* Hence the tiles stay in step, with operations between the barriers.
THEOREM AtomicRoundsInStep == AtomicSpec => []RingInStep
<1>1. Fibers => RingInStep
  BY DEF Fibers, InStep, RingInStep
<1> QED BY <1>1, AtomicFibers, PTL

-----------------------------------------------------------------------------
(* Mutual exclusion.                                                       *)

\* t is in an operation.
Inside(t) == at[t] \in {"loaded", "stored"}

Shapes ==
    /\ kernel \in Kernels
    /\ cell \in [Cell -> Nat] /\ reg \in [Thread -> Nat]
    /\ holder \in [Mutex -> Thread \cup {NoCall}]
    /\ at \in [Thread -> {"before", "loaded", "stored", "after"}]

\* A thread in an operation has its mutex.
Held(t) == Inside(t) => Op(t) \in Operation /\ holder[MutexOf(Op(t))] = t

Exclusion == Shapes /\ \A t \in Thread : Held(t)

\* The operation that is called is one.
LEMMA OpTypes ==
  ASSUME TypeOK, Shapes, NEW t \in Thread, Op(t) # NoCall
  PROVE  Op(t) \in Operation /\ MutexOf(Op(t)) \in Mutex
<1>1. cur[t] \in Fiber /\ kernel \in [Segment -> Operation \cup {NoCall}]
  BY KernelAssumption DEF TypeOK, Shapes
<1>2. <<cur[t].item, cur[t].seg>> \in Segment
  BY <1>1 DEF Fiber, Segment
<1>3. Op(t) \in Operation
  BY <1>1, <1>2 DEF Op
<1>4. Op(t).fn \in Function /\ CellType[Op(t).cell] \in {"unsigned", "int"}
  BY <1>3, CellAssumption DEF Operation
<1> QED BY <1>3, <1>4 DEF MutexOf, Mutex

\* At first nobody holds the lock or waits for it.
LEMMA ExclusionInit == AtomicInit => Exclusion
<1> SUFFICES ASSUME AtomicInit PROVE Exclusion
  OBVIOUS
<1>1. Shapes
  BY DEF AtomicInit, Shapes
<1>2. \A t \in Thread : at[t] = "before"
  BY DEF AtomicInit
<1> QED BY <1>1, <1>2 DEF Exclusion, Held, Inside

\* A thread whose operation and mutex do not change keeps them.
LEMMA HeldKept ==
  ASSUME NEW u \in Thread, Held(u), at'[u] = at[u], cur'[u] = cur[u], kernel' = kernel,
         Inside(u) => holder'[MutexOf(Op(u))] = holder[MutexOf(Op(u))]
  PROVE  Held(u)'
<1>1. Op(u)' = Op(u)
  BY DEF Op
<1>2. MutexOf(Op(u))' = MutexOf(Op(u))
  BY <1>1 DEF MutexOf
<1> QED BY <1>1, <1>2 DEF Held, Inside, Op, MutexOf

\* Lock and Unlock change the mutex of the operation of t, which no other has.
LEMMA ExclusionMutex ==
  ASSUME TypeOK, Exclusion, NEW t \in Thread, Lock(t) \/ Unlock(t),
         cur' = cur, kernel' = kernel
  PROVE  Exclusion'
<1> DEFINE m == MutexOf(Op(t))
<1>1. Op(t) \in Operation /\ m \in Mutex
  BY OpTypes DEF Exclusion, Lock, Unlock, Calling
<1>2. Shapes'
  <2>1. CASE Lock(t)
    <3>1. Op(t).cell \in Cell
      BY <1>1 DEF Operation
    <3> QED BY <1>1, <2>1, <3>1 DEF Lock, Exclusion, Shapes
  <2>2. CASE Unlock(t)
    BY <2>2 DEF Unlock, Exclusion, Shapes
  <2> QED BY <2>1, <2>2
<1>3. Held(t)'
  <2>1. CASE Lock(t)
    <3>1. Op(t)' = Op(t) /\ MutexOf(Op(t))' = m
      BY DEF Op, MutexOf
    <3>2. holder'[m] = t
      BY <1>1, <2>1 DEF Lock, Exclusion, Shapes
    <3> QED BY <1>1, <3>1, <3>2 DEF Held, Op, MutexOf
  <2>2. CASE Unlock(t)
    <3>1. at'[t] = "after"
      BY <2>2 DEF Unlock, Exclusion, Shapes
    <3> QED BY <3>1 DEF Held, Inside
  <2> QED BY <2>1, <2>2
<1>4. ASSUME NEW u \in Thread, u # t PROVE Held(u)'
  <2>1. at'[u] = at[u]
    BY <1>4 DEF Lock, Unlock, Exclusion, Shapes
  <2>2. ASSUME Inside(u) PROVE MutexOf(Op(u)) # m
    <3>1. holder[MutexOf(Op(u))] = u
      BY <2>2 DEF Exclusion, Held
    <3>2. CASE Lock(t)
      BY <3>1, <3>2, NoCallAssumption DEF Lock, Free
    <3>3. CASE Unlock(t)
      <4>1. Inside(t)
        BY <3>3 DEF Unlock, Inside
      <4> QED BY <1>4, <3>1, <4>1 DEF Exclusion, Held
    <3> QED BY <3>2, <3>3
  <2>3. Inside(u) => holder'[MutexOf(Op(u))] = holder[MutexOf(Op(u))]
    <3>1. PICK h : holder' = [holder EXCEPT ![m] = h]
      BY DEF Lock, Unlock
    <3>2. Inside(u) => MutexOf(Op(u)) \in Mutex
      BY NoCallAssumption, OpTypes DEF Exclusion, Held
    <3> QED BY <2>2, <3>1, <3>2 DEF Exclusion, Shapes
  <2> QED BY <2>1, <2>3, HeldKept DEF Exclusion
<1> QED BY <1>2, <1>3, <1>4 DEF Exclusion

\* Store is done under the mutex.
LEMMA ExclusionStore ==
  ASSUME TypeOK, Exclusion, NEW t \in Thread, Store(t), cur' = cur, kernel' = kernel
  PROVE  Exclusion'
<1>1. Op(t) \in Operation
  BY OpTypes DEF Exclusion, Store, Calling
<1>2. Updated(Op(t), reg[t]) \in Nat
  BY <1>1 DEF Updated, Operation, Function, Exclusion, Shapes
<1>3. Shapes' /\ holder' = holder
  BY <1>2 DEF Store, AfterStore, Exclusion, Shapes
<1>4. ASSUME NEW u \in Thread PROVE Held(u)'
  <2>1. CASE u = t
    <3>1. Inside(t) /\ at'[t] = "stored"
      BY DEF Store, Inside, Exclusion, Shapes
    <3>2. Op(t)' = Op(t) /\ MutexOf(Op(t))' = MutexOf(Op(t))
      BY DEF Op, MutexOf
    <3> QED BY <1>3, <2>1, <3>1, <3>2 DEF Exclusion, Held, Op, MutexOf
  <2>2. CASE u # t
    <3>1. at'[u] = at[u]
      BY <2>2 DEF Store, Exclusion, Shapes
    <3> QED BY <1>3, <3>1, HeldKept DEF Exclusion
  <2> QED BY <2>1, <2>2
<1> QED BY <1>3, <1>4 DEF Exclusion

\* The other steps touch no mutex.
LEMMA ExclusionElse ==
  ASSUME TypeOK, Exclusion, kernel' = kernel,
         Launcher \/ (\E t \in Thread : Proceed(t)) \/ UNCHANGED avars
  PROVE  Exclusion'
<1>1. CASE Launcher \/ UNCHANGED avars
  <2>1. UNCHANGED atomics /\ cur' = cur
    BY <1>1 DEF Launcher, Create, Join, Return, avars, vars, threads
  <2>2. Shapes'
    BY <2>1 DEF Exclusion, Shapes, atomics
  <2> QED BY <2>1, <2>2, HeldKept DEF Exclusion, atomics
<1>2. ASSUME NEW t \in Thread, Proceed(t) PROVE Exclusion'
  <2>1. Shapes'
    BY <1>2 DEF Proceed, Exclusion, Shapes
  <2>2. at'[t] = "before"
    BY <1>2 DEF Proceed, Exclusion, Shapes
  <2>3. ASSUME NEW u \in Thread, u # t PROVE Held(u)'
    <3>1. at'[u] = at[u] /\ cur'[u] = cur[u] /\ holder' = holder
      BY <1>2, <2>3, StepIsOwn DEF Proceed, Exclusion, Shapes
    <3> QED BY <3>1, HeldKept DEF Exclusion
  <2> QED BY <2>1, <2>2, <2>3 DEF Exclusion, Held, Inside
<1> QED BY <1>1, <1>2

\* Every step keeps the exclusion.
LEMMA ExclusionNext ==
  ASSUME TypeOK, Exclusion, [AtomicNext]_avars
  PROVE  Exclusion'
<1>1. kernel' = kernel
  BY DEF AtomicNext, avars
<1>2. ASSUME NEW t \in Thread, UNCHANGED vars, Lock(t) \/ Store(t) \/ Unlock(t)
      PROVE  Exclusion'
  <2>1. cur' = cur
    BY <1>2 DEF vars, threads
  <2> QED BY <1>1, <1>2, <2>1, ExclusionMutex, ExclusionStore
<1> QED BY <1>1, <1>2, ExclusionElse DEF AtomicNext, AtomicStep

\* Hence it always holds.
LEMMA ExclusionAlways == AtomicSpec => []Exclusion
<1>1. Fibers => TypeOK
  BY DEF Fibers
<1>2. TypeOK /\ Exclusion /\ [AtomicNext]_avars => Exclusion'
  BY ExclusionNext
<1> QED BY <1>1, <1>2, ExclusionInit, AtomicFibers, PTL DEF AtomicSpec

\* Two threads that are in the same operation, for the same type, are one.
THEOREM OneAtATime ==
  AtomicSpec => [](\A t, u \in Thread :
      Inside(t) /\ Inside(u) /\ MutexOf(Op(t)) = MutexOf(Op(u)) => t = u)
<1>1. Exclusion => \A t, u \in Thread :
         Inside(t) /\ Inside(u) /\ MutexOf(Op(t)) = MutexOf(Op(u)) => t = u
  BY DEF Exclusion, Held
<1> QED BY <1>1, ExclusionAlways, PTL

-----------------------------------------------------------------------------
(* Counting.                                                               *)

\* Every call of add adds something.
AddsCount == \A k \in Kernels, s \in Segment :
                 k[s] # NoCall /\ k[s].fn = "add" => k[s].val > 0

Counter(c) == ~Mixed(c) /\ Counted(c)

\* Operations on a counter are one function.
LEMMA CounterIsOne ==
  ASSUME TypeOK, Shapes, NEW c \in Cell, Counter(c),
         NEW t \in Thread, Op(t) # NoCall, Op(t).cell = c,
         NEW u \in Thread, Op(u) # NoCall, Op(u).cell = c
  PROVE  Op(t).fn \in {"add", "inc"} /\ MutexOf(Op(t)) = MutexOf(Op(u))
<1> DEFINE W(v) == <<<<0, 0>>, cur[v].item, cur[v].seg>>
           F == {OpOf(w).fn : w \in On(c)}
<1>1. \A v \in Thread : W(v) \in Work /\ OpOf(W(v)) = Op(v)
  <2> SUFFICES ASSUME NEW v \in Thread PROVE W(v) \in Work /\ OpOf(W(v)) = Op(v)
    OBVIOUS
  <2>1. cur[v].item \in Item /\ cur[v].seg \in 0 .. Barriers
    BY DEF TypeOK, Fiber
  <2>2. <<0, 0>> \in Tile
    BY SizeAssumption DEF Tile
  <2> QED BY <2>1, <2>2 DEF Work, OpOf, Op
<1>2. W(t) \in On(c) /\ W(u) \in On(c)
  BY <1>1 DEF On
<1>3. Op(t).fn \in F /\ Op(u).fn \in F
  BY <1>1, <1>2
<1>4. Op(t).fn \in {"add", "inc"}
  BY <1>1, <1>2 DEF Counter, Counted
<1>5. F \subseteq {"add", "inc"}
  BY DEF Counter, Counted
<1>6. Op(t).fn = Op(u).fn
  <2> SUFFICES ASSUME Op(t).fn # Op(u).fn PROVE FALSE
    OBVIOUS
  <2>1. F = {"add", "inc"}
    BY <1>3, <1>5
  <2>2. Cardinality({"add", "inc"}) = 2
    <3>1. IsFiniteSet({"add"}) /\ Cardinality({"add"}) = 1
      BY FS_Singleton
    <3>2. {"add", "inc"} = {"add"} \cup {"inc"} /\ "inc" \notin {"add"}
      OBVIOUS
    <3> QED BY <3>1, <3>2, FS_AddElement, 1 + 1 = 2
  <2> QED BY <2>1, <2>2 DEF Counter, Mixed
<1> QED BY <1>4, <1>6 DEF MutexOf

\* What was returned for a counter was returned once and is not more than the
\* cell holds; an item between its load and its store has loaded what the cell
\* holds; and what it has stored was not returned before.
Places(c) ==
    /\ \A v \in BagToSet(got[c]) : v \in Nat /\ v <= cell[c] /\ got[c][v] = 1
    /\ \A t \in Thread : Inside(t) /\ Op(t).cell = c =>
          /\ at[t] = "loaded" => reg[t] = cell[c]
          /\ at[t] = "stored" => \A v \in BagToSet(got[c]) : v < cell[c]

Counting == /\ got = [c \in Cell |-> got[c]]
            /\ \A c \in Cell : Counter(c) => Places(c)

\* At first no operation has returned a value.
LEMMA CountingInit == AtomicInit => Counting
<1> SUFFICES ASSUME AtomicInit PROVE Counting
  OBVIOUS
<1>1. got = [c \in Cell |-> EmptyBag] /\ \A t \in Thread : ~Inside(t)
  BY DEF AtomicInit, Inside
<1>2. \A c \in Cell : BagToSet(got[c]) = {}
  BY <1>1 DEF EmptyBag, SetToBag, BagToSet
<1> QED BY <1>1, <1>2 DEF Counting, Places

\* Which cells are counters does not change.
LEMMA CounterKept ==
  ASSUME kernel' = kernel, NEW c
  PROVE  Counter(c)' <=> Counter(c)
BY DEF Counter, Mixed, Counted, On, OpOf

\* Steps outside the operations, and Lock.
LEMMA CountingKept ==
  ASSUME TypeOK, Exclusion, Counting, kernel' = kernel, cell' = cell, got' = got,
         NEW c \in Cell, Counter(c),
         \A u \in Thread : Inside(u)' =>
             \/ at'[u] = at[u] /\ cur'[u] = cur[u] /\ reg'[u] = reg[u]
             \/ at'[u] = "loaded" /\ (Op(u)'.cell = c => reg'[u] = cell[c])
  PROVE  Places(c)'
<1>1. Places(c)
  BY DEF Counting
<1> SUFFICES ASSUME NEW u \in Thread, Inside(u)', Op(u)'.cell = c
             PROVE  /\ at'[u] = "loaded" => reg'[u] = cell[c]
                    /\ at'[u] = "stored" => \A v \in BagToSet(got[c]) : v < cell[c]
  BY <1>1 DEF Places, BagToSet
<1>2. CASE at'[u] = at[u] /\ cur'[u] = cur[u] /\ reg'[u] = reg[u]
  <2>1. Op(u)' = Op(u) /\ Inside(u)
    BY <1>2 DEF Op, Inside
  <2> QED BY <1>1, <1>2, <2>1 DEF Places
<1>3. CASE at'[u] = "loaded" /\ (Op(u)'.cell = c => reg'[u] = cell[c])
  BY <1>3
<1> QED BY <1>2, <1>3

\* An operation on a counter is alone on it.
LEMMA CounterAlone ==
  ASSUME TypeOK, Exclusion, NEW c \in Cell, Counter(c),
         NEW t \in Thread, Inside(t), Op(t).cell = c,
         NEW u \in Thread, Inside(u), Op(u).cell = c
  PROVE  t = u
<1>1. Op(t) # NoCall /\ Op(u) # NoCall
  BY NoCallAssumption DEF Exclusion, Held
<1>2. MutexOf(Op(t)) = MutexOf(Op(u))
  BY <1>1, CounterIsOne DEF Exclusion
<1> QED BY <1>2 DEF Exclusion, Held

\* Store leaves a counter higher than it was.
LEMMA CountingStore ==
  ASSUME AddsCount, TypeOK, Exclusion, Counting, NEW t \in Thread, Store(t),
         cur' = cur, kernel' = kernel, NEW c \in Cell, Counter(c)
  PROVE  Places(c)'
<1>1. Places(c) /\ Inside(t) /\ Op(t) \in Operation /\ Op(t) # NoCall
  BY OpTypes DEF Counting, Store, Calling, Exclusion, Inside
<1>2. got' = got /\ \A u \in Thread : Op(u)' = Op(u)
  BY DEF Store, Op
<1>3. \A u \in Thread : u # t => at'[u] = at[u] /\ reg'[u] = reg[u]
  BY DEF Store, Exclusion, Shapes
<1>4. CASE Op(t).cell # c
  <2>1. cell'[c] = cell[c]
    BY <1>4 DEF Store, Exclusion, Shapes
  <2> QED BY <1>1, <1>2, <1>3, <1>4, <2>1 DEF Places, BagToSet, Inside
<1>5. CASE Op(t).cell = c
  <2>1. reg[t] = cell[c] /\ cell[c] \in Nat
    BY <1>1, <1>5 DEF Places, Store, Exclusion, Shapes
  <2>2. Op(t).fn \in {"add", "inc"}
    BY <1>1, <1>5, CounterIsOne DEF Exclusion
  <2>3. Op(t).fn = "add" => Op(t).val > 0
    <3>1. <<cur[t].item, cur[t].seg>> \in Segment
      BY DEF TypeOK, Fiber, Segment
    <3> QED BY <1>1, <3>1 DEF AddsCount, Op, Exclusion, Shapes
  <2>4. Updated(Op(t), cell[c]) \in Nat /\ cell[c] < Updated(Op(t), cell[c])
    BY <1>1, <2>1, <2>2, <2>3 DEF Updated, Operation
  <2>5. cell'[c] = Updated(Op(t), cell[c])
    BY <1>5, <2>1 DEF Store, Exclusion, Shapes
  <2>6. \A v \in BagToSet(got[c]) : v \in Nat /\ v < cell'[c] /\ got[c][v] = 1
    BY <1>1, <2>1, <2>4, <2>5 DEF Places
  <2>7. at'[t] = "stored"
    BY DEF Store, Exclusion, Shapes
  <2>8. \A u \in Thread : u # t => ~(Inside(u)' /\ Op(u).cell = c)
    BY <1>1, <1>3, <1>5, CounterAlone DEF Inside
  <2>9. \A v \in BagToSet(got[c]) : v <= cell'[c]
    BY <2>4, <2>5, <2>6
  <2> QED BY <1>2, <2>6, <2>7, <2>8, <2>9 DEF Places, BagToSet
<1> QED BY <1>4, <1>5

\* Unlock returns a value that was not returned before.
LEMMA CountingUnlock ==
  ASSUME TypeOK, Exclusion, Counting, NEW t \in Thread, Unlock(t),
         cur' = cur, kernel' = kernel, NEW c \in Cell, Counter(c)
  PROVE  Places(c)'
<1>1. Places(c) /\ Inside(t) /\ Op(t) \in Operation /\ cell' = cell
  BY OpTypes DEF Counting, Unlock, Calling, Exclusion, Inside
<1>2. \A u \in Thread : Op(u)' = Op(u)
  BY DEF Op
<1>3. /\ at'[t] = "after"
      /\ \A u \in Thread : u # t => at'[u] = at[u] /\ reg'[u] = reg[u]
  BY DEF Unlock, Exclusion, Shapes
<1>4. CASE Op(t).cell # c
  <2>1. got'[c] = got[c]
    BY <1>4 DEF Unlock, Counting
  <2> QED BY <1>1, <1>2, <1>3, <2>1 DEF Places, BagToSet, Inside
<1>5. CASE Op(t).cell = c
  <2>1. got'[c] = got[c] (+) SetToBag({cell[c]})
    BY <1>5 DEF Unlock, Counting
  <2>2. cell[c] \in Nat /\ \A v \in BagToSet(got[c]) : v < cell[c]
    BY <1>1, <1>5 DEF Places, Unlock, Exclusion, Shapes
  <2>3. \A v \in BagToSet(got[c]) : v \in Nat /\ v # cell[c] /\ v <= cell[c] /\ got[c][v] = 1
    BY <1>1, <2>2 DEF Places
  <2>4. BagToSet(got'[c]) = BagToSet(got[c]) \cup {cell[c]}
    BY <2>1 DEF BagToSet, (+), SetToBag
  <2>5. \A v \in BagToSet(got'[c]) : v \in Nat /\ v <= cell[c] /\ got'[c][v] = 1
    BY <2>1, <2>2, <2>3 DEF BagToSet, (+), SetToBag
  <2>6. \A u \in Thread : ~(Inside(u)' /\ Op(u).cell = c)
    BY <1>1, <1>3, <1>5, CounterAlone DEF Inside
  <2> QED BY <1>1, <1>2, <2>5, <2>6 DEF Places, BagToSet
<1> QED BY <1>4, <1>5

\* Every step keeps the count of the values returned.
LEMMA CountingNext ==
  ASSUME AddsCount, TypeOK, Exclusion, Counting, [AtomicNext]_avars
  PROVE  Counting'
<1>1. kernel' = kernel
  BY DEF AtomicNext, avars
<1>2. got' = [c \in Cell |-> got'[c]]
  BY DEF Counting, AtomicNext, AtomicStep, Launcher, Proceed, Lock, Store, Unlock,
         avars, atomics
<1> SUFFICES ASSUME NEW c \in Cell, Counter(c) PROVE Places(c)'
  BY <1>1, <1>2, CounterKept DEF Counting
<1>3. CASE Launcher \/ UNCHANGED avars
  <2>1. UNCHANGED atomics /\ cur' = cur
    BY <1>3 DEF Launcher, Create, Join, Return, avars, vars, threads
  <2> QED BY <1>1, <2>1, CountingKept DEF atomics
<1>4. ASSUME NEW t \in Thread, Proceed(t) PROVE Places(c)'
  <2>1. at'[t] = "before" /\ cell' = cell /\ got' = got /\ reg' = reg
    BY <1>4 DEF Proceed, Exclusion, Shapes
  <2>2. \A u \in Thread : u # t => at'[u] = at[u] /\ cur'[u] = cur[u]
    BY <1>4, StepIsOwn DEF Proceed, Exclusion, Shapes
  <2> QED BY <1>1, <2>1, <2>2, CountingKept DEF Inside
<1>5. ASSUME NEW t \in Thread, UNCHANGED vars, Lock(t) PROVE Places(c)'
  <2>1. cur' = cur /\ cell' = cell /\ got' = got
    BY <1>5 DEF Lock, vars, threads
  <2>2. \A u \in Thread : u # t => at'[u] = at[u] /\ reg'[u] = reg[u]
    BY <1>5 DEF Lock, Exclusion, Shapes
  <2>3. at'[t] = "loaded" /\ reg'[t] = cell[Op(t).cell] /\ Op(t)' = Op(t)
    BY <1>1, <1>5, <2>1 DEF Lock, Exclusion, Shapes, Op
  <2> QED BY <1>1, <2>1, <2>2, <2>3, CountingKept
<1>6. ASSUME NEW t \in Thread, UNCHANGED vars, Store(t) \/ Unlock(t) PROVE Places(c)'
  <2>1. cur' = cur
    BY <1>6 DEF vars, threads
  <2> QED BY <1>1, <1>6, <2>1, CountingStore, CountingUnlock
<1> QED BY <1>3, <1>4, <1>5, <1>6 DEF AtomicNext, AtomicStep

\* Items that count in a cell by one operation are told different values,
\* whatever the kernel and however its items interleave, provided that every
\* atomic_fetch_add adds something.
THEOREM PlacesAreOwn == ASSUME AddsCount PROVE AtomicSpec => []OwnPlace
<1>1. Fibers => TypeOK
  BY DEF Fibers
<1>2. TypeOK /\ Exclusion /\ Counting /\ [AtomicNext]_avars => Counting'
  BY CountingNext
<1>3. Counting => OwnPlace
  BY DEF Counting, Places, Counter, OwnPlace
<1> QED
  BY <1>1, <1>2, <1>3, CountingInit, ExclusionAlways, AtomicFibers, PTL
  DEF AtomicSpec

-----------------------------------------------------------------------------
(* Sums.                                                                   *)

\* A family of subsets of a finite set has a minimal member.
LEMMA MinimalSet ==
  ASSUME NEW S, IsFiniteSet(S), NEW X \in SUBSET SUBSET S, X # {}
  PROVE  \E x \in X : \A y \in X : y \subseteq x => y = x
<1>1. X \subseteq FiniteSubsetsOf(S)
  BY FS_FiniteSubsetsOfFinite
<1>2. \E x \in X : \A y \in X : ~(<<y, x>> \in StrictSubsetOrdering(S))
  BY <1>1, FS_StrictSubsetOrderingWellFounded, WFMin
<1> QED BY <1>2 DEF StrictSubsetOrdering

\* One round of adding up f over the subsets of D, an element at a time: the sums of
\* the library are its fixpoints.
Picked(s) == CHOOSE x \in s : TRUE
Adder(D, f, g) == [s \in SUBSET D |-> IF s = {} THEN 0
                                      ELSE f[Picked(s)] + g[s \ {Picked(s)}]]

\* g has the sums of f.
IsSum(D, f, g) == g \in [SUBSET D -> Nat] /\ g = Adder(D, f, g)

\* Two sums of f are equal where both are defined.
LEMMA SumsAgree ==
  ASSUME NEW D, IsFiniteSet(D), NEW f, NEW T \in SUBSET D, NEW U \in SUBSET D,
         NEW g, g = Adder(T, f, g), NEW h, h = Adder(U, f, h)
  PROVE  \A s \in SUBSET (T \cap U) : g[s] = h[s]
<1> DEFINE X == {s \in SUBSET (T \cap U) : g[s] # h[s]}
<1> SUFFICES ASSUME X # {} PROVE FALSE
  OBVIOUS
<1>1. IsFiniteSet(T \cap U)
  BY FS_Subset
<1>2. PICK s \in X : \A y \in X : y \subseteq s => y = s
  <2> HIDE DEF X
  <2>1. X \in SUBSET SUBSET (T \cap U)
    BY DEF X
  <2> QED BY <1>1, <2>1, MinimalSet
<1>3. s \in SUBSET T /\ s \in SUBSET U /\ g[s] # h[s]
  OBVIOUS
<1>4. /\ g[s] = IF s = {} THEN 0 ELSE f[Picked(s)] + g[s \ {Picked(s)}]
      /\ h[s] = IF s = {} THEN 0 ELSE f[Picked(s)] + h[s \ {Picked(s)}]
  BY <1>3 DEF Adder
<1>5. s # {}
  BY <1>3, <1>4
<1>6. Picked(s) \in s
  BY <1>5 DEF Picked
<1>7. s \ {Picked(s)} \notin X
  BY <1>2, <1>6
<1> QED BY <1>3, <1>4, <1>7

\* f can be summed over a finite set.
LEMMA SumExists ==
  ASSUME NEW D, IsFiniteSet(D), NEW f \in [D -> Nat]
  PROVE  \E g : IsSum(D, f, g)
<1> DEFINE Is(T, g) == g \in [SUBSET T -> Nat] /\ g = Adder(T, f, g)
           c(T) == CHOOSE g : Is(T, g)
           X == {T \in SUBSET D : ~(\E g : Is(T, g))}
<1> SUFFICES ASSUME X # {} PROVE FALSE
  BY DEF IsSum
<1>1. PICK T \in X : \A y \in X : y \subseteq T => y = T
  <2> HIDE DEF X
  <2>1. X \in SUBSET SUBSET D
    BY DEF X
  <2> QED BY <2>1, MinimalSet
<1>2. T \in SUBSET D /\ ~(\E g : Is(T, g))
  OBVIOUS
<1>3. ASSUME NEW s \in SUBSET T, s # T PROVE Is(s, c(s))
  <2>1. \E g : Is(s, g)
    BY <1>1, <1>2, <1>3
  <2> HIDE DEF Is
  <2> QED BY <2>1
<1> DEFINE p == Picked(T)
           h == [s \in SUBSET T |-> IF s = {} THEN 0
                                    ELSE IF s = T THEN f[p] + c(T \ {p})[T \ {p}]
                                    ELSE c(s)[s]]
<1> HIDE DEF X, c
<1>4. h \in [SUBSET T -> Nat]
  <2> SUFFICES ASSUME NEW s \in SUBSET T, s # {} PROVE h[s] \in Nat
    OBVIOUS
  <2>1. CASE s = T
    <3>1. p \in T /\ f[p] \in Nat
      BY <1>2, <2>1 DEF Picked
    <3>2. c(T \ {p})[T \ {p}] \in Nat
      <4> DEFINE r == T \ {p}
      <4>1. r \in SUBSET T /\ r # T
        BY <3>1
      <4> HIDE DEF r
      <4>2. Is(r, c(r))
        BY <1>3, <4>1
      <4>3. c(r)[r] \in Nat
        BY <4>2
      <4> QED BY <4>3 DEF r
    <3> QED BY <2>1, <3>1, <3>2
  <2>2. CASE s # T
    BY <1>3, <2>2
  <2> QED BY <2>1, <2>2
<1>5. ASSUME NEW s \in SUBSET T, s # {}
      PROVE  h[s] = f[Picked(s)] + h[s \ {Picked(s)}]
  <2> DEFINE q == Picked(s)
             r == s \ {q}
  <2>1. q \in s /\ r \in SUBSET T /\ r # T /\ r \in SUBSET s
    BY <1>5 DEF Picked
  <2> HIDE DEF q, r
  <2>2. Is(r, c(r))
    BY <1>3, <2>1
  <2>3. h[r] = c(r)[r]
    <3>1. CASE r = {}
      <4>1. c(r)[r] = 0
        BY <2>2, <3>1 DEF Adder
      <4> QED BY <2>1, <3>1, <4>1
    <3>2. CASE r # {}
      BY <2>1, <3>2
    <3> QED BY <3>1, <3>2
  <2>4. CASE s = T
    <3>1. q = p /\ r = T \ {p}
      BY <2>4 DEF q, r
    <3>2. h[s] = f[p] + c(T \ {p})[T \ {p}]
      BY <1>5, <2>4
    <3> QED BY <2>3, <3>1, <3>2 DEF q, r
  <2>5. CASE s # T
    <3>1. Is(s, c(s)) /\ h[s] = c(s)[s]
      BY <1>3, <1>5, <2>5
    <3>2. c(s)[s] = f[q] + c(s)[r]
      BY <1>5, <3>1 DEF Adder, q, r
    <3>3. c(s)[r] = c(r)[r]
      <4>1. r \in SUBSET (s \cap r) /\ s \in SUBSET D /\ r \in SUBSET D
        BY <1>2, <2>1
      <4>2. c(s) = Adder(s, f, c(s)) /\ c(r) = Adder(r, f, c(r))
        BY <2>2, <3>1
      <4> QED BY <4>1, <4>2, SumsAgree
    <3> QED BY <2>3, <3>1, <3>2, <3>3 DEF q, r
  <2> QED BY <2>4, <2>5
<1>6. h = Adder(T, f, h)
  <2>1. \A s \in SUBSET T : h[s] = IF s = {} THEN 0 ELSE f[Picked(s)] + h[s \ {Picked(s)}]
    BY <1>5
  <2>2. h = [s \in SUBSET T |-> h[s]]
    OBVIOUS
  <2> HIDE DEF h
  <2> QED BY <2>1, <2>2 DEF Adder
<1>7. \E g : Is(T, g)
  BY <1>4, <1>6
<1> QED BY <1>2, <1>7

\* The order of adding does not matter.
LEMMA SumOfOneMore ==
  ASSUME NEW D, IsFiniteSet(D), NEW f \in [D -> Nat],
         NEW g, IsSum(D, f, g), NEW S \in SUBSET D, NEW z \in D, z \notin S
  PROVE  g[S \cup {z}] = g[S] + f[z]
<1>0. g \in [SUBSET D -> Nat] /\ g = Adder(D, f, g)
  BY DEF IsSum
<1>1. \A s \in SUBSET D : s # {} => /\ Picked(s) \in s
                                    /\ g[s] = f[Picked(s)] + g[s \ {Picked(s)}]
  BY <1>0 DEF Adder, Picked
<1> DEFINE X == {T \in SUBSET D : \E x \in D \ T : g[T \cup {x}] # g[T] + f[x]}
<1>2. SUFFICES ASSUME X # {} PROVE FALSE
  OBVIOUS
<1>3. PICK T \in X : \A y \in X : y \subseteq T => y = T
  <2> HIDE DEF X
  <2>1. X \in SUBSET SUBSET D
    BY DEF X
  <2> QED BY <1>2, <2>1, MinimalSet
<1>4. PICK x \in D \ T : g[T \cup {x}] # g[T] + f[x]
  OBVIOUS
<1> DEFINE s == T \cup {x}
           y == Picked(s)
           U == T \ {y}
<1>5. s \in SUBSET D /\ y \in s /\ g[s] = f[y] + g[s \ {y}]
  BY <1>1
<1> HIDE DEF y
<1>6. CASE y = x
  <2>1. s \ {y} = T
    BY <1>4, <1>6
  <2>2. g[T] \in Nat /\ f[x] \in Nat
    BY <1>0
  <2>3. g[T \cup {x}] = f[x] + g[T]
    BY <1>5, <1>6, <2>1
  <2>4. \A a, b \in Nat : a + b = b + a
    OBVIOUS
  <2> QED BY <1>4, <2>2, <2>3, <2>4, Zenon
<1>7. CASE y # x
  <2>1. y \in T /\ U \in SUBSET D /\ U \subseteq T /\ U # T /\ x \in D \ U /\ y \in D \ U
        /\ T = U \cup {y} /\ s \ {y} = U \cup {x}
    BY <1>4, <1>5, <1>7
  <2>2. U \notin X
    BY <1>3, <2>1
  <2>3. g[U \cup {x}] = g[U] + f[x] /\ g[U \cup {y}] = g[U] + f[y]
    BY <2>1, <2>2
  <2>4. g[U] \in Nat /\ f[x] \in Nat /\ f[y] \in Nat
    BY <1>0, <2>1
  <2>5. g[s] = f[y] + (g[U] + f[x]) /\ g[T] = g[U] + f[y]
    BY <1>5, <2>1, <2>3
  <2> QED BY <1>4, <2>4, <2>5
<1> QED BY <1>6, <1>7

-----------------------------------------------------------------------------
(* The updates of a cell.                                                  *)

\* The piece of work that t is in.
Now(t) == <<<<row[t], col[t]>>, cur[t].item, cur[t].seg>>

\* The pieces of work whose operation has stored its result.
Stored == {w \in Work : \/ runs[w] = 1
                        \/ \E t \in Thread : /\ pc[t] = "fiber" /\ at[t] \in {"stored", "after"}
                                             /\ w = Now(t)}

\* What each operation on c adds to it, if it counts.
Worth(c) == [w \in On(c) |-> Updated(OpOf(w), 0)]

\* c holds the sum of what was added, or the greatest of the values it was raised to.
Added(c) == \A g : IsSum(On(c), Worth(c), g) => cell[c] = g[On(c) \cap Stored]
Raised(c) == /\ \A w \in On(c) \cap Stored : OpOf(w).val <= cell[c]
             /\ cell[c] = 0 \/ \E w \in On(c) : OpOf(w).val = cell[c]

\* What was loaded from c is what c still holds.
Loaded(c) == \A t \in Thread : at[t] = "loaded" /\ Op(t).cell = c => reg[t] = cell[c]

Kept(c) == (IF Counted(c) THEN Added(c) ELSE Raised(c)) /\ Loaded(c)
Updates == \A c \in Cell : ~Mixed(c) => Kept(c)

\* The operations on a cell are finitely many, and each is one.
LEMMA OnTypes ==
  ASSUME Shapes, NEW c \in Cell
  PROVE  /\ IsFiniteSet(On(c)) /\ Worth(c) \in [On(c) -> Nat]
         /\ \A w \in On(c) : OpOf(w) \in Operation /\ w \in Work
<1>1. IsFiniteSet(On(c))
  <2>1. IsFiniteSet(0 .. Rows - 1) /\ IsFiniteSet(0 .. Cols - 1)
        /\ IsFiniteSet(Item) /\ IsFiniteSet(0 .. Barriers)
    BY SizeAssumption, FS_Interval DEF Item
  <2>2. IsFiniteSet(Tile)
    BY <2>1, FS_Product DEF Tile
  <2>3. IsFiniteSet(Tile \X Item)
    BY <2>1, <2>2, FS_Product
  <2>4. Work = {<<p[1][1], p[1][2], p[2]>> : p \in (Tile \X Item) \X (0 .. Barriers)}
    <3>1. ASSUME NEW w \in Work
          PROVE  \E p \in (Tile \X Item) \X (0 .. Barriers) : w = <<p[1][1], p[1][2], p[2]>>
      <4>1. PICK a \in Tile, i \in Item, s \in 0 .. Barriers : w = <<a, i, s>>
        BY DEF Work
      <4>2. <<<<a, i>>, s>> \in (Tile \X Item) \X (0 .. Barriers)
        OBVIOUS
      <4> QED BY <4>1, <4>2
    <3>2. ASSUME NEW p \in (Tile \X Item) \X (0 .. Barriers)
          PROVE  <<p[1][1], p[1][2], p[2]>> \in Work
      BY DEF Work
    <3> QED BY <3>1, <3>2
  <2>5. IsFiniteSet((Tile \X Item) \X (0 .. Barriers))
    BY <2>1, <2>3, FS_Product
  <2>6. IsFiniteSet(Work)
    <3> DEFINE P == (Tile \X Item) \X (0 .. Barriers)
               f == [p \in P |-> <<p[1][1], p[1][2], p[2]>>]
    <3>1. Work = {f[p] : p \in P}
      BY <2>4
    <3>2. f \in Surjection(P, Work)
      BY <3>1 DEF Surjection
    <3> QED BY <2>5, <3>2, FS_Surjection
  <2> QED BY <2>6, FS_Subset DEF On
<1>2. \A w \in On(c) : OpOf(w) \in Operation /\ w \in Work
  <2> SUFFICES ASSUME NEW w \in On(c) PROVE OpOf(w) \in Operation
    BY DEF On
  <2>1. w \in Work /\ OpOf(w) # NoCall
    BY DEF On
  <2>2. <<w[2], w[3]>> \in Segment
    BY <2>1 DEF Work, Segment
  <2>3. kernel \in [Segment -> Operation \cup {NoCall}]
    BY KernelAssumption DEF Shapes
  <2> QED BY <2>1, <2>2, <2>3 DEF OpOf
<1>3. \A w \in On(c) : Updated(OpOf(w), 0) \in Nat
  BY <1>2 DEF Updated, Operation, Function
<1> QED BY <1>1, <1>2, <1>3 DEF Worth

\* The operations on a cell are of one function, if it is not mixed.
LEMMA OneFunction ==
  ASSUME Shapes, NEW c \in Cell, ~Mixed(c), NEW v \in On(c), NEW w \in On(c)
  PROVE  OpOf(v).fn = OpOf(w).fn
<1> DEFINE F == {OpOf(x).fn : x \in On(c)}
           a == OpOf(v).fn
           b == OpOf(w).fn
<1> SUFFICES ASSUME a # b PROVE FALSE
  OBVIOUS
<1>1. IsFiniteSet(F)
  <2> DEFINE f == [x \in On(c) |-> OpOf(x).fn]
  <2>1. f \in Surjection(On(c), F)
    BY DEF Surjection
  <2> QED BY <2>1, OnTypes, FS_Surjection
<1>2. {a, b} \subseteq F
  OBVIOUS
<1>3. IsFiniteSet({a}) /\ Cardinality({a}) = 1
  BY FS_Singleton
<1>4. {a, b} = {a} \cup {b} /\ b \notin {a}
  OBVIOUS
<1>5. Cardinality({a, b}) = 2
  BY <1>3, <1>4, FS_AddElement, 1 + 1 = 2
<1>6. Cardinality({a, b}) <= Cardinality(F) /\ Cardinality(F) \in Nat
  BY <1>1, <1>2, FS_Subset, FS_CardinalityType
<1> QED BY <1>5, <1>6 DEF Mixed

\* The piece of work that a thread is in was not executed, and no other is in it.
LEMMA NowIs ==
  ASSUME Progress, NEW t \in Thread, pc[t] = "fiber"
  PROVE  /\ Now(t) \in Work /\ OpOf(Now(t)) = Op(t) /\ runs[Now(t)] = 0
         /\ NoWrap => \A u \in Thread : pc[u] = "fiber" /\ Now(u) = Now(t) => u = t
<1>1. row[t] \in 0 .. Rows - 1 /\ col[t] \in 0 .. Cols - 1 /\ Owns(t, col[t])
      /\ cur[t].item \in Item /\ cur[t].seg \in 0 .. Barriers
  BY ExecutesOwn
<1>2. Now(t) \in Work
  BY <1>1 DEF Now, Work, Tile
<1>3. OpOf(Now(t)) = Op(t)
  BY DEF Now, OpOf, Op
<1>4. runs[Now(t)] = 0
  <2>1. row[t] \in Nat /\ col[t] \in Nat /\ cur[t].item \in Nat /\ cur[t].seg \in Nat
    BY <1>1, SizeAssumption DEF Item
  <2>2. ~Executed(t, row[t], col[t], cur[t].item, cur[t].seg)
    BY <2>1 DEF Executed
  <2> QED BY <1>1, <2>2 DEF Progress, Ledger, Now
<1>5. ASSUME NoWrap, NEW u \in Thread, pc[u] = "fiber", Now(u) = Now(t) PROVE u = t
  <2>1. col[u] = col[t] /\ Owns(u, col[u]) /\ col[t] \in Nat
    BY <1>1, <1>5, ExecutesOwn, SizeAssumption DEF Now
  <2> QED BY <1>1, <1>5, <2>1, SlicesApart
<1> QED BY <1>2, <1>3, <1>4, <1>5

\* At first nothing was stored.
LEMMA UpdatesInit == AtomicInit => Updates
<1> SUFFICES ASSUME AtomicInit, NEW c \in Cell PROVE Kept(c)
  BY DEF Updates
<1>1. /\ \A w \in Work : runs[w] = 0
      /\ \A t \in Thread : at[t] = "before" /\ pc[t] = "unborn"
      /\ cell[c] = 0
  BY DEF AtomicInit, Init
<1>2. Stored = {}
  BY <1>1 DEF Stored
<1>3. ASSUME NEW g, IsSum(On(c), Worth(c), g)
      PROVE  g[On(c) \cap Stored] = 0
  BY <1>2, <1>3 DEF IsSum, Adder
<1> QED BY <1>1, <1>2, <1>3 DEF Kept, Added, Raised, Loaded

\* The operations on a cell do not change.
LEMMA OnKept ==
  ASSUME kernel' = kernel, NEW c
  PROVE  /\ On(c)' = On(c) /\ Worth(c)' = Worth(c)
         /\ Mixed(c)' <=> Mixed(c)
         /\ Counted(c)' <=> Counted(c)
         /\ \A w : OpOf(w)' = OpOf(w)
<1>1. \A w : OpOf(w)' = OpOf(w)
  BY DEF OpOf
<1>2. On(c)' = On(c)
  BY <1>1 DEF On
<1> QED BY <1>1, <1>2 DEF Worth, Mixed, Counted

\* A step that stores nothing in c.
LEMMA KeptSame ==
  ASSUME kernel' = kernel, NEW c \in Cell, Kept(c), cell'[c] = cell[c],
         On(c) \cap Stored' = On(c) \cap Stored, Loaded(c)'
  PROVE  Kept(c)'
<1>1. CASE Counted(c)
  <2>1. Added(c)'
    BY <1>1, OnKept DEF Kept, Added
  <2> QED BY <1>1, <2>1, OnKept DEF Kept
<1>2. CASE ~Counted(c)
  <2>1. Raised(c)'
    BY <1>2, OnKept DEF Kept, Raised
  <2> QED BY <1>2, <2>1, OnKept DEF Kept
<1> QED BY <1>1, <1>2

\* Proceeding from the end of an operation to the next piece of work.
LEMMA StoredProceeds ==
  ASSUME NoWrap, Progress, Shapes, NEW t \in Thread, Proceed(t), NEW c \in Cell
  PROVE  On(c) \cap Stored' = On(c) \cap Stored
<1>1. TypeOK /\ Step(t) /\ ~Calling(t) /\ at'[t] = "before"
      /\ \A u \in Thread : u # t => at'[u] = at[u]
  BY DEF Progress, Fibers, Proceed, Shapes
<1>2. \A u \in Thread : u # t => /\ pc'[u] = pc[u] /\ Now(u)' = Now(u)
  BY <1>1, StepIsOwn DEF Now
<1>3. CASE pc[t] # "fiber"
  <2>1. runs' = runs
    BY <1>1, <1>3 DEF Step, Begin, NextRow, SetContexts, Round, TileDone, Wait, Finish
  <2>2. Stored' = Stored
    BY <1>1, <1>2, <1>3, <2>1 DEF Stored
  <2> QED BY <2>2
<1>4. CASE pc[t] = "fiber"
  <2>1. Execute(t)
    BY <1>1, <1>4 DEF Step, Begin, NextRow, SetContexts, Round, TileDone, Wait, Finish
  <2>2. Now(t) \in Work /\ OpOf(Now(t)) = Op(t) /\ runs[Now(t)] = 0
    BY <1>4, NowIs
  <2>3. \A w \in Work : runs'[w] = IF w = Now(t) THEN 1 ELSE runs[w]
    BY <1>1, <2>1, <2>2 DEF Execute, TypeOK, Now
  <2>4. Stored' = Stored \cup {Now(t)}
    BY <1>1, <1>2, <1>4, <2>2, <2>3 DEF Stored
  <2>5. Now(t) \in On(c) => Now(t) \in Stored
    <3>1. Op(t) # NoCall => at[t] = "after"
      BY <1>1, <1>4 DEF Calling
    <3> QED BY <1>4, <2>2, <3>1 DEF On, Stored
  <2> QED BY <2>4, <2>5
<1> QED BY <1>3, <1>4

\* The thread that stores has loaded what the cell holds, and is alone on it.
LEMMA StoreAlone ==
  ASSUME TypeOK, Progress, Exclusion, Updates, NEW t \in Thread, Store(t)
  PROVE  /\ Op(t) \in Operation /\ Op(t).cell \in Cell /\ Now(t) \in On(Op(t).cell)
         /\ ~Mixed(Op(t).cell) =>
               /\ reg[t] = cell[Op(t).cell]
               /\ \A u \in Thread : at[u] = "loaded" /\ Op(u).cell = Op(t).cell => u = t
<1> DEFINE c == Op(t).cell
<1>1. /\ Op(t) \in Operation /\ Op(t) # NoCall /\ c \in Cell /\ pc[t] = "fiber"
      /\ at[t] = "loaded" /\ Inside(t)
  BY OpTypes DEF Store, Calling, Exclusion, Operation, Inside
<1>2. Now(t) \in On(c)
  BY <1>1, NowIs DEF On
<1>3. ASSUME ~Mixed(c) PROVE reg[t] = cell[c]
  BY <1>1, <1>3 DEF Updates, Kept, Loaded
<1>4. ASSUME ~Mixed(c), NEW u \in Thread, at[u] = "loaded", Op(u).cell = c PROVE u = t
  <2> DEFINE W(v) == <<<<0, 0>>, cur[v].item, cur[v].seg>>
  <2>1. Inside(u) /\ Op(u) \in Operation /\ Op(u) # NoCall
    BY <1>4, NoCallAssumption DEF Inside, Exclusion, Held
  <2>2. \A v \in Thread : W(v) \in Work /\ OpOf(W(v)) = Op(v)
    <3> SUFFICES ASSUME NEW v \in Thread PROVE W(v) \in Work /\ OpOf(W(v)) = Op(v)
      OBVIOUS
    <3>1. cur[v].item \in Item /\ cur[v].seg \in 0 .. Barriers
      BY DEF TypeOK, Fiber
    <3>2. <<0, 0>> \in Tile
      BY SizeAssumption DEF Tile
    <3> QED BY <3>1, <3>2 DEF Work, OpOf, Op
  <2>3. W(t) \in On(c) /\ W(u) \in On(c)
    BY <1>1, <1>4, <2>1, <2>2 DEF On
  <2>4. Op(t).fn = Op(u).fn
    BY <1>1, <1>4, <2>2, <2>3, OneFunction DEF Exclusion
  <2>5. MutexOf(Op(t)) = MutexOf(Op(u))
    BY <1>4, <2>4 DEF MutexOf
  <2> QED BY <1>1, <2>1, <2>5 DEF Exclusion, Held
<1> QED BY <1>1, <1>2, <1>3, <1>4

\* A store leaves the cell with one update more.
LEMMA UpdatesStore ==
  ASSUME NoWrap, TypeOK, Progress, Exclusion, Updates, NEW t \in Thread, Store(t),
         UNCHANGED vars, kernel' = kernel, NEW c \in Cell, ~Mixed(c)
  PROVE  Kept(c)'
<1> DEFINE w == Now(t)
<1>1. /\ Op(t) \in Operation /\ w \in On(Op(t).cell)
      /\ pc[t] = "fiber" /\ at[t] = "loaded" /\ Kept(c) /\ Shapes
  BY StoreAlone DEF Store, Calling, Updates, Exclusion
<1>2. /\ \A u \in Thread : Op(u)' = Op(u) /\ Now(u)' = Now(u) /\ pc'[u] = pc[u]
      /\ runs' = runs
  BY DEF vars, threads, Op, Now
<1>3. /\ at'[t] = "stored"
      /\ \A u \in Thread : u # t => at'[u] = at[u] /\ reg'[u] = reg[u]
      /\ cell' = [cell EXCEPT ![Op(t).cell] = Updated(Op(t), reg[t])]
  BY <1>1 DEF Store, Shapes
<1>4. w \in Work /\ OpOf(w) = Op(t) /\ Stored' = Stored \cup {w} /\ w \notin Stored
  <2>1. w \in Work /\ OpOf(w) = Op(t) /\ runs[w] = 0
        /\ \A u \in Thread : pc[u] = "fiber" /\ Now(u) = w => u = t
    BY <1>1, NowIs
  <2>2. Stored' = Stored \cup {w}
    BY <1>1, <1>2, <1>3, <2>1 DEF Stored
  <2>3. w \notin Stored
    BY <1>1, <2>1 DEF Stored
  <2> QED BY <2>1, <2>2, <2>3
<1> HIDE DEF w
<1>5. CASE Op(t).cell # c
  <2>1. cell'[c] = cell[c]
    BY <1>1, <1>3, <1>5 DEF Shapes
  <2>2. On(c) \cap Stored' = On(c) \cap Stored
    BY <1>4, <1>5 DEF On
  <2>3. Loaded(c)'
    <3>1. \A u \in Thread : at'[u] = "loaded" /\ Op(u).cell = c => reg'[u] = cell[c]
      BY <1>1, <1>3 DEF Kept, Loaded
    <3> QED BY <1>2, <2>1, <3>1 DEF Loaded
  <2> QED BY <1>1, <2>1, <2>2, <2>3, KeptSame
<1>6. CASE Op(t).cell = c
  <2>1. /\ reg[t] = cell[c] /\ cell[c] \in Nat
        /\ \A u \in Thread : at[u] = "loaded" /\ Op(u).cell = c => u = t
    BY <1>1, <1>6, StoreAlone DEF Shapes
  <2>2. cell'[c] = Updated(OpOf(w), cell[c])
    BY <1>1, <1>3, <1>4, <1>6, <2>1 DEF Shapes
  <2>3. Loaded(c)'
    <3>1. \A u \in Thread : ~(at'[u] = "loaded" /\ Op(u).cell = c)
      BY <1>1, <1>3, <2>1
    <3> QED BY <1>2, <3>1 DEF Loaded
  <2>4. /\ w \in On(c) /\ OpOf(w) \in Operation
        /\ On(c) \cap Stored' = (On(c) \cap Stored) \cup {w}
    BY <1>1, <1>4, <1>6
  <2>5. CASE Counted(c)
    <3>1. Updated(OpOf(w), cell[c]) = cell[c] + Worth(c)[w]
      <4>1. OpOf(w).fn \in {"add", "inc"}
        BY <2>4, <2>5 DEF Counted
      <4> QED BY <2>1, <2>4, <4>1 DEF Updated, Worth, Operation
    <3>2. ASSUME NEW g, IsSum(On(c), Worth(c), g)
          PROVE  cell'[c] = g[On(c) \cap Stored']
      <4>1. cell[c] = g[On(c) \cap Stored]
        BY <1>1, <2>5, <3>2 DEF Kept, Added
      <4>2. g[(On(c) \cap Stored) \cup {w}] = g[On(c) \cap Stored] + Worth(c)[w]
        <5>1. IsFiniteSet(On(c)) /\ Worth(c) \in [On(c) -> Nat]
          BY <1>1, OnTypes
        <5>2. On(c) \cap Stored \in SUBSET On(c) /\ w \in On(c) /\ w \notin On(c) \cap Stored
          BY <1>4, <2>4
        <5> QED BY <3>2, <5>1, <5>2, SumOfOneMore
      <4> QED BY <2>2, <2>4, <3>1, <4>1, <4>2
    <3>3. Added(c)'
      <4>1. On(c)' = On(c) /\ Worth(c)' = Worth(c)
        BY OnKept
      <4>2. \A g : IsSum(On(c)', Worth(c)', g) => cell'[c] = g[On(c)' \cap Stored']
        BY <3>2, <4>1
      <4> QED BY <4>2 DEF Added
    <3> QED BY <2>3, <2>5, <3>3, OnKept DEF Kept
  <2>6. CASE ~Counted(c)
    <3>1. OpOf(w).fn = "max"
      <4>1. PICK v \in On(c) : OpOf(v).fn \notin {"add", "inc"}
        BY <2>6 DEF Counted
      <4>2. OpOf(v).fn = "max"
        BY <1>1, <4>1, OnTypes DEF Operation, Function
      <4> QED BY <1>1, <2>4, <4>2, OneFunction
    <3>2. cell'[c] = IF OpOf(w).val > cell[c] THEN OpOf(w).val ELSE cell[c]
      BY <2>2, <3>1 DEF Updated
    <3>3. \A v \in On(c) : OpOf(v).val \in Nat
      BY <1>1, OnTypes DEF Operation
    <3>4. Raised(c)
      BY <1>1, <2>6 DEF Kept
    <3>5. \A v \in On(c) \cap Stored' : OpOf(v).val <= cell'[c]
      BY <2>1, <2>4, <3>2, <3>3, <3>4 DEF Raised
    <3>6. cell'[c] = 0 \/ \E v \in On(c) : OpOf(v).val = cell'[c]
      BY <2>4, <3>2, <3>4 DEF Raised
    <3>7. Raised(c)'
      BY <3>5, <3>6, OnKept DEF Raised
    <3> QED BY <2>3, <2>6, <3>7, OnKept DEF Kept
  <2> QED BY <2>5, <2>6
<1> QED BY <1>5, <1>6

\* Every step keeps the updates.
LEMMA UpdatesNext ==
  ASSUME NoWrap, Progress, Exclusion, Updates, [AtomicNext]_avars
  PROVE  Updates'
<1>1. kernel' = kernel /\ Shapes /\ TypeOK
  BY DEF AtomicNext, avars, Exclusion, Progress, Fibers
<1> SUFFICES ASSUME NEW c \in Cell, ~Mixed(c) PROVE Kept(c)'
  BY <1>1, OnKept DEF Updates
<1>2. Kept(c)
  BY DEF Updates
<1>3. CASE Launcher \/ UNCHANGED avars
  <2>1. UNCHANGED <<atomics, row, col, cur, runs>>
    BY <1>3 DEF Launcher, Create, Join, Return, avars, vars, threads
  <2>2. \A u \in Thread : pc'[u] = "fiber" <=> pc[u] = "fiber"
    <3>1. CASE Create
      <4>1. \A u \in Thread : u = made => pc[u] = "unborn"
        BY <1>1 DEF Progress, Launching, TypeOK
      <4> QED BY <1>1, <3>1, <4>1 DEF Create, TypeOK
    <3>2. CASE ~Create
      BY <1>3, <3>2 DEF Launcher, Join, Return, avars, vars, threads
    <3> QED BY <3>1, <3>2
  <2>3. Stored' = Stored
    BY <2>1, <2>2 DEF Stored, Now, atomics
  <2>4. Loaded(c)'
    BY <1>1, <1>2, <2>1 DEF Kept, Loaded, Op, atomics
  <2> QED BY <1>1, <1>2, <2>1, <2>3, <2>4, KeptSame DEF atomics
<1>4. ASSUME NEW t \in Thread, Proceed(t) PROVE Kept(c)'
  <2>1. at'[t] = "before" /\ cell' = cell /\ reg' = reg
    BY <1>1, <1>4 DEF Proceed, Shapes
  <2>2. \A u \in Thread : u # t => at'[u] = at[u] /\ Op(u)' = Op(u)
    BY <1>1, <1>4, StepIsOwn DEF Proceed, Shapes, Op
  <2>3. Loaded(c)'
    BY <1>2, <2>1, <2>2 DEF Kept, Loaded
  <2> QED BY <1>1, <1>2, <1>4, <2>1, <2>3, StoredProceeds, KeptSame
<1>5. ASSUME NEW t \in Thread, UNCHANGED vars, Lock(t) \/ Unlock(t) PROVE Kept(c)'
  <2>1. /\ \A u \in Thread : Op(u)' = Op(u) /\ Now(u)' = Now(u) /\ pc'[u] = pc[u]
        /\ runs' = runs /\ cell' = cell
    BY <1>1, <1>5 DEF vars, threads, Op, Now, Lock, Unlock
  <2>2. \A u \in Thread : u # t => at'[u] = at[u] /\ reg'[u] = reg[u]
    BY <1>1, <1>5 DEF Lock, Unlock, Shapes
  <2>3. \/ at[t] = "before" /\ at'[t] = "loaded" /\ reg'[t] = cell[Op(t).cell]
        \/ at[t] = "stored" /\ at'[t] = "after"
    BY <1>1, <1>5 DEF Lock, Unlock, Shapes
  <2>4. Stored' = Stored
    <3>1. \A u \in Thread : at'[u] \in {"stored", "after"} <=> at[u] \in {"stored", "after"}
      BY <2>2, <2>3
    <3> QED BY <2>1, <3>1 DEF Stored
  <2>5. Loaded(c)'
    BY <1>2, <2>1, <2>2, <2>3 DEF Kept, Loaded
  <2> QED BY <1>1, <1>2, <2>1, <2>4, <2>5, KeptSame
<1>6. ASSUME NEW t \in Thread, UNCHANGED vars, Store(t) PROVE Kept(c)'
  BY <1>1, <1>6, UpdatesStore
<1> QED BY <1>3, <1>4, <1>5, <1>6 DEF AtomicNext, AtomicStep

\* What a cell holds after all of its updates is its total.
LEMMA UpdatesTotal ==
  ASSUME NoWrap, Progress, Exclusion, Updates
  PROVE  UpdatesKept
<1> SUFFICES ASSUME returned, NEW c \in Cell, ~Mixed(c) PROVE cell[c] = Total(c)
  BY DEF UpdatesKept
<1>1. Shapes /\ cell[c] \in Nat /\ Kept(c)
  BY DEF Exclusion, Shapes, Updates
<1>2. On(c) \cap Stored = On(c)
  <2>1. \A w \in Work : runs[w] = 1
    BY AllRan DEF Progress, Launching
  <2> QED BY <2>1 DEF Stored, On
<1>3. /\ IsFiniteSet(On(c)) /\ Worth(c) \in [On(c) -> Nat]
      /\ \A w \in On(c) : OpOf(w).val \in Nat
  BY <1>1, OnTypes DEF Operation
<1>4. CASE Counted(c)
  <2> DEFINE R(g) == [s \in SUBSET On(c) |->
                         IF s = {} THEN 0
                         ELSE LET x == CHOOSE x \in s : TRUE
                              IN  Updated(OpOf(x), 0) + g[s \ {x}]]
             r == CHOOSE g : g = R(g)
  <2>1. \A g : R(g) = Adder(On(c), Worth(c), g)
    BY DEF Adder, Worth, Picked
  <2>2. PICK g : IsSum(On(c), Worth(c), g)
    BY <1>3, SumExists
  <2>3. r = R(r)
    <3> HIDE DEF R
    <3>1. g = R(g)
      BY <2>1, <2>2 DEF IsSum
    <3> QED BY <3>1
  <2>4. Total(c) = r[On(c)]
    BY <1>4 DEF Total, MapThenSumSet, MapThenFoldSet
  <2> HIDE DEF R, r
  <2>5. r[On(c)] = g[On(c)]
    <3>1. r = Adder(On(c), Worth(c), r)
      BY <2>1, <2>3
    <3>2. \A s \in SUBSET (On(c) \cap On(c)) : r[s] = g[s]
      BY <1>3, <2>2, <3>1, SumsAgree DEF IsSum
    <3> QED BY <3>2
  <2>6. cell[c] = g[On(c)]
    <3>1. Added(c)
      BY <1>1, <1>4 DEF Kept
    <3>2. cell[c] = g[On(c) \cap Stored]
      BY <2>2, <3>1 DEF Added
    <3> QED BY <1>2, <3>2
  <2> QED BY <2>4, <2>5, <2>6
<1>5. CASE ~Counted(c)
  <2> DEFINE V == {OpOf(w).val : w \in On(c)}
  <2>1. Total(c) = Max(V)
    BY <1>5 DEF Total
  <2>2. V # {} /\ V \subseteq Nat
    BY <1>3, <1>5 DEF Counted
  <2>3. \A v \in V : v <= cell[c]
    BY <1>1, <1>2, <1>5 DEF Kept, Raised
  <2>4. cell[c] \in V
    <3>1. CASE cell[c] = 0
      BY <2>2, <2>3, <3>1
    <3>2. CASE cell[c] # 0
      BY <1>1, <1>5, <3>2 DEF Kept, Raised
    <3> QED BY <3>1, <3>2
  <2> HIDE DEF V
  <2>5. Max(V) = cell[c]
    <3>1. /\ Max(V) \in V
          /\ \A v \in V : Max(V) >= v
      <4>1. \E x \in V : \A y \in V : x >= y
        BY <1>1, <2>2, <2>3, <2>4
      <4> QED BY <4>1 DEF Max
    <3>2. Max(V) \in Nat /\ cell[c] \in Nat
      BY <2>2, <2>4, <3>1
    <3>3. Max(V) >= cell[c] /\ Max(V) <= cell[c]
      BY <2>3, <2>4, <3>1
    <3> QED BY <3>2, <3>3
  <2> QED BY <2>1, <2>5
<1> QED BY <1>4, <1>5

\* When parallel_for_each returns no update is lost, on cells that one operation is
\* used on, whatever the kernel and however its items interleave, provided that the
\* bounds of the slices do not wrap.
THEOREM NoUpdateIsLost == ASSUME NoWrap PROVE AtomicSpec => []UpdatesKept
<1>1. AtomicSpec => []Progress
  BY AtomicsRunInSteps, ProgressAlways, PTL
<1>2. Progress /\ Exclusion /\ Updates /\ [AtomicNext]_avars => Updates'
  BY UpdatesNext
<1>3. Progress /\ Exclusion /\ Updates => UpdatesKept
  BY UpdatesTotal
<1> QED
  BY <1>1, <1>2, <1>3, UpdatesInit, ExclusionAlways, PTL DEF AtomicSpec
=============================================================================
