------------------------ MODULE OpenCLKernelsProofs ------------------------
(***************************************************************************)
(* Proofs about OpenCLKernels, for any number of processes, threads,       *)
(* sources, kernels and pieces: threads that launch different kernels do   *)
(* not disturb each other's arguments, processes that write the file of a  *)
(* program at the same time leave the whole of it, and without slips every *)
(* process starts its kernel.                                              *)
(***************************************************************************)
EXTENDS OpenCLKernels, SequenceTheorems, TLAPS

\* What the assumptions give.
LEMMA Constants ==
  /\ ProcOf \in [Thread -> Proc] /\ Src \in [Proc -> SUBSET Source]
  /\ Kernel \subseteq HostName /\ Copied \in [HostName -> [Kernel -> HostName]]
  /\ Uses \in [Thread -> SUBSET HostName]
  /\ NChunk \in Nat \ {0} /\ NUpgrade \in Nat
  /\ None \notin Thread \cup Kernel \cup HostName \cup Piece
BY ProcOfAssumption, SrcAssumption, NameAssumption, NChunkAssumption,
   BoundAssumption, NoneAssumption

\* What Put does to a file of pieces.
LEMMA PutSeq ==
  ASSUME NEW S, NEW f \in Seq(S \cup {None}), NEW i \in Nat \ {0}, NEW x \in S
  PROVE  Put(f, i, x) \in Seq(S \cup {None})
<1> DEFINE n == IF Len(f) < i THEN i ELSE Len(f)
<1>1. n \in Nat
  OBVIOUS
<1>2. \A j \in 1 .. n : (IF j = i THEN x ELSE IF j <= Len(f) THEN f[j] ELSE None)
                          \in S \cup {None}
  OBVIOUS
<1> QED
  BY <1>1, <1>2, IsASeq DEF Put

\* A name becomes a name.
LEMMA MatchNames ==
  ASSUME NEW p, NEW t \in Thread, NEW h \in Uses[t]
  PROVE  h \in HostName /\ Match(p, h) \subseteq HostName
<1>1. h \in HostName
  BY Constants
<1>2. \A K \in SUBSET Kernel : Replaced(h, K) \subseteq HostName
  BY <1>1, Constants DEF Replaced
<1>3. Near(h) \subseteq Kernel
  BY DEF Near
<1> QED BY <1>1, <1>2, <1>3 DEF Match

-----------------------------------------------------------------------------
\* A file that is written is there.
Opened == \A t \in Thread : Writing(t) => file[File(ProcOf[t])] # None

\* The initial values have their types.
LEMMA InitTypeOK == Init => TypeOK
BY Constants DEF Init, TypeOK, Labels, Writing

\* A process that goes takes its threads' places with it.
LEMMA GoneTypeOK ==
  ASSUME TypeOK, NEW p \in up, NEW S \in SUBSET Slips, Gone(p, S),
         failed' = failed \/ failed' = failed \cup {p}
  PROVE  TypeOK'
<1>1. Flag("killed", \E t \in Threads(p) : Writing(t)) \subseteq Slips
  BY DEF Flag, Slips
<1>2. slips' \subseteq Slips
  BY <1>1 DEF Gone, Slip, TypeOK
<1>3. /\ pc' \in [Thread -> Labels] /\ kernel' \in [Thread -> HostName \cup {None}]
      /\ off' \in [Thread -> 0 .. NChunk]
  BY Constants DEF Gone, TypeOK, Labels
<1>4. /\ dev' \in [Proc -> 0 .. NUpgrade] /\ program' \in [Proc -> Piece \cup {None}]
      /\ arg' \in [Proc -> [Kernel -> Thread \cup {None}]]
  BY Constants DEF Gone, TypeOK
<1>5. \A t \in Thread : /\ ProcOf[t] \notin up' => pc'[t] = "idle"
                        /\ Writing(t)' => off'[t] < NChunk
                        /\ pc'[t] = "names" => ProcOf[t] \in compiled'
  BY Constants DEF Gone, TypeOK, Writing
<1>6. /\ up' \subseteq Proc /\ failed' \subseteq Proc \ up' /\ compiled' \subseteq up'
      /\ known' \subseteq compiled'
      /\ known' \subseteq compiled'
  BY DEF Gone, TypeOK
<1>7. /\ driver' = driver /\ file' = file /\ src' = src
  BY DEF Gone
<1>8. /\ driver' \in 0 .. NUpgrade /\ src' \in [Proc -> Source]
      /\ file' \in [Names -> {None} \cup Seq(Piece \cup {None})]
  BY <1>7 DEF TypeOK
<1> QED
  BY <1>2, <1>3, <1>4, <1>5, <1>6, <1>8, Zenon DEF TypeOK

\* A step of a thread keeps the types.
LEMMA StepTypeOK ==
  ASSUME TypeOK, Opened, NEW t \in Thread, Step(ProcOf[t], t)
  PROVE  TypeOK'
<1> DEFINE p == ProcOf[t]
<1>1. p \in Proc /\ File(p) \in Names /\ Binary(p) \in Piece
  BY Constants DEF TypeOK, File, Names, Binary, Piece
<1>2. \A name \in Slips, c \in BOOLEAN : Flag(name, c) \in SUBSET Slips
  BY DEF Flag
<1>3. Together(p) \in SUBSET Slips
  BY DEF Together, Flag, Slips
<1>4. ASSUME NEW h \in Uses[t], Launch(p, t, h) PROVE TypeOK'
  <2>1. slips' \subseteq Slips
    BY <1>4 DEF Launch, Slip, Flag, Slips, TypeOK
  <2>2. Match(p, h) \subseteq HostName
    BY MatchNames
  <2> QED
    BY <1>4, <2>1, <2>2, Constants DEF Launch, Goto, TypeOK, Labels, Writing, state, runtime
<1>5. ASSUME Check(p, t) PROVE TypeOK'
  <2>1. slips' \subseteq Slips
    BY <1>5 DEF Check, Slip, Flag, Slips, TypeOK
  <2> QED
    BY <1>5, <2>1, Constants DEF Check, Goto, TypeOK, Labels, Writing, state, runtime
<1>6. ASSUME Load(p, t) PROVE TypeOK'
  <2>1. p \in up
    BY <1>1, <1>6 DEF Load, TypeOK
  <2>2. CASE Fail(p, Together(p))
    BY <2>1, <2>2, <1>3, GoneTypeOK DEF Fail
  <2>3. CASE /\ Whole(file[File(p)])
             /\ program' = [program EXCEPT ![p] = file[File(p)][1]]
             /\ Goto(t, "flag")
             /\ Slip(Together(p))
             /\ UNCHANGED <<driver, file, state, compiled, known, arg, kernel, off>>
    <3>1. file[File(p)] \in Seq(Piece \cup {None})
      BY <1>1, <1>6 DEF Load, TypeOK
    <3>2. file[File(p)][1] \in Piece
      BY <2>3, <3>1, Constants DEF Whole
    <3>3. slips' \subseteq Slips
      BY <2>3, <1>3 DEF Slip, TypeOK
    <3> QED
      BY <2>1, <2>3, <3>2, <3>3, Constants DEF Goto, TypeOK, Labels, Writing, state
  <2> QED
    BY <1>6, <2>2, <2>3 DEF Load
<1>7. ASSUME Compile(p, t) PROVE TypeOK'
  BY <1>1, <1>7, Constants DEF Compile, Goto, TypeOK, Labels, Writing, state
<1>8. ASSUME Open(p, t) PROVE TypeOK'
  <2>1. slips' \subseteq Slips
    BY <1>3, <1>8 DEF Open, Slip, TypeOK
  <2> QED
    BY <1>1, <1>8, <2>1, Constants DEF Open, Goto, TypeOK, Labels, Writing, state, runtime
<1>9. ASSUME Write(p, t) PROVE TypeOK'
  <2>1. /\ off' = [off EXCEPT ![t] = off[t] + 1]
        /\ pc' = [pc EXCEPT ![t] = IF off[t] + 1 = NChunk THEN "flag" ELSE "write"]
        /\ file' = [file EXCEPT ![File(p)] = Put(file[File(p)], off[t] + 1, Binary(p))]
        /\ pc[t] = "write" /\ off[t] < NChunk /\ off[t] \in Nat
    BY <1>9, Constants DEF Write, Goto, Written, TypeOK, Writing
  <2>2. file[File(p)] # None => file' \in [Names -> {None} \cup Seq(Piece \cup {None})]
    <3>1. ASSUME file[File(p)] # None
          PROVE  Put(file[File(p)], off[t] + 1, Binary(p)) \in Seq(Piece \cup {None})
      <4>1. file[File(p)] \in Seq(Piece \cup {None})
        BY <1>1, <3>1 DEF TypeOK
      <4> QED
        BY <1>1, <2>1, <4>1, PutSeq
    <3> QED
      BY <2>1, <3>1 DEF TypeOK
  <2>3. file[File(p)] # None
    BY <1>9 DEF Write, Opened
  <2>4. ASSUME NEW u \in Thread, Writing(u)' PROVE off'[u] < NChunk
    <3>1. CASE u = t
      <4>1. pc'[t] = "write"
        BY <2>4, <3>1 DEF Writing
      <4>2. off[t] + 1 # NChunk
        BY <1>1, <2>1, <4>1 DEF TypeOK
      <4>3. off'[t] = off[t] + 1
        BY <1>1, <2>1 DEF TypeOK
      <4>4. off[t] \in Nat /\ off[t] < NChunk
        BY <2>1
      <4>5. \A i, j \in Nat : i < j /\ i + 1 # j => i + 1 < j
        OBVIOUS
      <4>6. off[t] + 1 < NChunk
        BY <4>2, <4>4, <4>5, NChunkAssumption
      <4> QED BY <3>1, <4>3, <4>6, Zenon
    <3>2. CASE u # t
      <4>1. pc'[u] = pc[u] /\ off'[u] = off[u]
        BY <1>1, <2>1, <3>2 DEF TypeOK
      <4> QED BY <1>1, <2>4, <4>1 DEF Writing, TypeOK
    <3> QED BY <3>1, <3>2
  <2>5. off' \in [Thread -> 0 .. NChunk] /\ pc' \in [Thread -> Labels]
    BY <2>1, Constants DEF TypeOK, Labels
  <2>6. \A u \in Thread : /\ ProcOf[u] \notin up => pc'[u] = "idle"
                          /\ pc'[u] = "names" => ProcOf[u] \in compiled
    BY <2>1 DEF TypeOK
  <2>7. \A u \in Thread : /\ ProcOf[u] \notin up' => pc'[u] = "idle"
                          /\ Writing(u)' => off'[u] < NChunk
                          /\ pc'[u] = "names" => ProcOf[u] \in compiled'
    BY <1>9, <2>4, <2>6 DEF Write, state, runtime
  <2>8. file' \in [Names -> {None} \cup Seq(Piece \cup {None})]
    BY <2>2, <2>3
  <2>9. UNCHANGED <<driver, src, dev, up, failed, compiled, known, program, arg, kernel, slips>>
    BY <1>9 DEF Write, state, runtime
  <2>10. /\ driver' \in 0 .. NUpgrade /\ src' \in [Proc -> Source]
         /\ dev' \in [Proc -> 0 .. NUpgrade] /\ slips' \subseteq Slips
         /\ up' \subseteq Proc /\ failed' \subseteq Proc \ up' /\ compiled' \subseteq up'
         /\ known' \subseteq compiled' /\ program' \in [Proc -> Piece \cup {None}]
         /\ arg' \in [Proc -> [Kernel -> Thread \cup {None}]]
         /\ kernel' \in [Thread -> HostName \cup {None}]
    BY <2>9 DEF TypeOK
  <2> QED
    BY <2>5, <2>7, <2>8, <2>10, Zenon DEF TypeOK
<1>10. ASSUME Kernels(p, t) PROVE TypeOK'
  BY <1>1, <1>10, Constants DEF Kernels, Goto, TypeOK, Labels, Writing, state
<1>11. ASSUME Create(p, t) PROVE TypeOK'
  <2>1. p \in up
    BY <1>1, <1>11 DEF Create, TypeOK
  <2>2. CASE Fail(p, {})
    BY <2>1, <2>2, GoneTypeOK DEF Fail
  <2>3. CASE ~Fail(p, {})
    BY <1>11, <2>1, <2>3, Constants DEF Create, Goto, TypeOK, Labels, Writing, state, runtime
  <2> QED
    BY <2>2, <2>3
<1>12. ASSUME PushArg(p, t) PROVE TypeOK'
  <2>1. slips' \subseteq Slips
    BY <1>12 DEF PushArg, Slip, Flag, Slips, TypeOK
  <2> QED
    BY <1>1, <1>12, <2>1, Constants DEF PushArg, Goto, TypeOK, Labels, Writing, state
<1>13. ASSUME LaunchKernel(p, t) PROVE TypeOK'
  BY <1>13, Constants DEF LaunchKernel, Goto, TypeOK, Labels, Writing, state, runtime
<1>14. ASSUME OpenFails(p, t) \/ WriteFails(p, t) PROVE TypeOK'
  <2>1. slips' \subseteq Slips
    BY <1>14 DEF OpenFails, WriteFails, Slip, Slips, TypeOK
  <2> QED
    BY <1>1, <1>14, <2>1, Constants
    DEF OpenFails, WriteFails, Goto, TypeOK, Labels, Writing, state, runtime
<1>15. ASSUME SetFlag(p, t) PROVE TypeOK'
  BY <1>1, <1>15, Constants DEF SetFlag, Goto, TypeOK, Labels, Writing, state
<1> QED
  BY <1>4, <1>5, <1>6, <1>7, <1>8, <1>9, <1>10, <1>11, <1>12, <1>13, <1>14, <1>15 DEF Step

\* Every step keeps the types.
LEMMA NextTypeOK == TypeOK /\ Opened /\ [Next]_vars => TypeOK'
<1> SUFFICES ASSUME TypeOK, Opened, [Next]_vars PROVE TypeOK'
  OBVIOUS
<1>1. ASSUME NEW p \in Proc, NEW s \in Source, Start(p, s) PROVE TypeOK'
  BY <1>1 DEF Start, TypeOK, Writing, runtime, thread
<1>2. ASSUME NEW p \in Proc, End(p) PROVE TypeOK'
  BY <1>2, GoneTypeOK DEF End
<1>3. CASE Upgrade
  BY <1>3, Constants DEF Upgrade, Slip, Slips, TypeOK, Writing, state, runtime, thread
<1>4. CASE UNCHANGED vars
  BY <1>4 DEF vars, state, runtime, thread, TypeOK, Writing
<1> QED
  BY <1>1, <1>2, <1>3, <1>4, StepTypeOK DEF Next

-----------------------------------------------------------------------------
(* What the steps do to files and to the threads that write them.           *)

\* A thread that begins or goes on to write has just opened or written; all other
\* steps leave the files alone and give nobody a file.
LEMMA OtherSteps ==
  ASSUME TypeOK, [Next]_vars,
         \A t \in Thread : ~Open(ProcOf[t], t) /\ ~Write(ProcOf[t], t)
  PROVE  /\ file' = file
         /\ \A t \in Thread : Writing(t)' => /\ Writing(t) /\ off'[t] = off[t]
                                             /\ ProcOf[t] \in up
                                             /\ File(ProcOf[t])' = File(ProcOf[t])
                                             /\ Binary(ProcOf[t])' = Binary(ProcOf[t])
         /\ \A t \in Thread : Writing(t) =>
               Writing(t)' \/ "killed" \in slips' \/ "disk" \in slips'
<1> DEFINE Goal == /\ file' = file
                   /\ \A t \in Thread : Writing(t)' =>
                         /\ Writing(t) /\ off'[t] = off[t]
                         /\ ProcOf[t] \in up
                         /\ File(ProcOf[t])' = File(ProcOf[t])
                         /\ Binary(ProcOf[t])' = Binary(ProcOf[t])
                   /\ \A t \in Thread : Writing(t) =>
                         Writing(t)' \/ "killed" \in slips' \/ "disk" \in slips'
<1>1. ASSUME NEW p \in up, NEW S, Gone(p, S) PROVE Goal
  <2>1. \A t \in Thread : ProcOf[t] = p /\ Writing(t) => "killed" \in slips'
    BY <1>1 DEF Gone, Slip, Flag, Threads
  <2>2. \A t \in Thread : ProcOf[t] # p => pc'[t] = pc[t] /\ off'[t] = off[t]
    BY <1>1 DEF Gone
  <2>3. \A t \in Thread : ProcOf[t] = p => ~Writing(t)'
    BY <1>1 DEF Gone, Writing
  <2>4. /\ file' = file /\ src' = src
        /\ \A q \in Proc : q # p => dev'[q] = dev[q]
    BY <1>1 DEF Gone, TypeOK
  <2> QED
    BY <2>1, <2>2, <2>3, <2>4, Constants DEF Writing, File, Binary, TypeOK
<1>1a. ASSUME NEW t \in Thread, WriteFails(ProcOf[t], t) PROVE Goal
  <2>1. /\ file' = file /\ src' = src /\ dev' = dev /\ off' = off /\ "disk" \in slips'
        /\ pc' = [pc EXCEPT ![t] = "flag"]
    BY <1>1a DEF WriteFails, Goto, Slip, state
  <2>2. \A u \in Thread : Writing(u)' => Writing(u)
    BY <2>1 DEF Writing, TypeOK
  <2>3. \A u \in Thread : Writing(u) => ProcOf[u] \in up
    BY DEF Writing, TypeOK
  <2> QED BY <2>1, <2>2, <2>3 DEF File, Binary
<1>2. ASSUME NEW t \in Thread, Step(ProcOf[t], t), ~WriteFails(ProcOf[t], t) PROVE Goal
  <2> DEFINE p == ProcOf[t]
  <2>1. \/ \E S : p \in up /\ Gone(p, S)
        \/ /\ file' = file /\ src' = src /\ dev' = dev
           /\ pc[t] # "write" /\ \E l \in Labels : l # "write" /\ pc' = [pc EXCEPT ![t] = l]
           /\ \A u \in Thread : u # t => off'[u] = off[u]
    <3>1. ASSUME NEW h \in Uses[t], Launch(p, t, h) PROVE /\ file' = file /\ src' = src /\ dev' = dev
                 /\ pc[t] # "write" /\ \E l \in Labels : l # "write" /\ pc' = [pc EXCEPT ![t] = l]
                 /\ \A u \in Thread : u # t => off'[u] = off[u]
      BY <3>1 DEF Launch, Goto, Labels, state
    <3>2. CASE Check(p, t)
      BY <3>2 DEF Check, Goto, Labels, state
    <3>3. CASE Load(p, t)
      BY <3>3, Constants DEF Load, Fail, Goto, Labels, state, TypeOK
    <3>4. CASE Compile(p, t)
      BY <3>4 DEF Compile, Goto, Labels, state
    <3>5. CASE OpenFails(p, t) \/ SetFlag(p, t) \/ Kernels(p, t)
      BY <3>5 DEF OpenFails, SetFlag, Kernels, Goto, Labels, state
    <3>6. CASE Create(p, t)
      BY <3>6, Constants DEF Create, Fail, Goto, Labels, state, TypeOK
    <3>7. CASE PushArg(p, t)
      BY <3>7 DEF PushArg, Goto, Labels, state
    <3>8. CASE LaunchKernel(p, t)
      BY <3>8 DEF LaunchKernel, Goto, Labels, state, TypeOK
    <3> QED
      BY <1>2, <3>1, <3>2, <3>3, <3>4, <3>5, <3>6, <3>7, <3>8 DEF Step
  <2>2. CASE \E S : p \in up /\ Gone(p, S)
    BY <2>2, <1>1
  <2>3. CASE /\ file' = file /\ src' = src /\ dev' = dev
             /\ pc[t] # "write" /\ \E l \in Labels : l # "write" /\ pc' = [pc EXCEPT ![t] = l]
             /\ \A u \in Thread : u # t => off'[u] = off[u]
    <3>1. \A u \in Thread : u # t => pc'[u] = pc[u]
      BY <2>3 DEF TypeOK
    <3>2. ~Writing(t) /\ ~Writing(t)'
      BY <2>3 DEF Writing, TypeOK
    <3>3. \A u \in Thread : Writing(u) => ProcOf[u] \in up
      BY DEF Writing, TypeOK
    <3> QED
      BY <2>3, <3>1, <3>2, <3>3 DEF Writing, File, Binary
  <2> QED
    BY <2>1, <2>2, <2>3
<1>3. ASSUME NEW p \in Proc, NEW s \in Source, Start(p, s) PROVE Goal
  <2>1. \A t \in Thread : Writing(t) => ProcOf[t] \in up /\ ProcOf[t] # p
    BY <1>3 DEF Start, Writing, TypeOK
  <2> QED
    BY <1>3, <2>1, Constants DEF Start, Writing, File, Binary, TypeOK, thread
<1>4. CASE Upgrade \/ UNCHANGED vars
  BY <1>4 DEF Upgrade, vars, state, thread, Writing, File, Binary, TypeOK
<1> QED
  BY <1>1, <1>1a, <1>2, <1>3, <1>4 DEF Next, End

\* Every step keeps a file that is written there.
LEMMA NextOpened == TypeOK /\ Opened /\ [Next]_vars => Opened'
<1> SUFFICES ASSUME TypeOK, Opened, [Next]_vars PROVE Opened'
  OBVIOUS
<1>1. ASSUME NEW t \in Thread, Open(ProcOf[t], t) \/ Write(ProcOf[t], t) PROVE Opened'
  <2>1. /\ file'[File(ProcOf[t])] # None
        /\ \A n \in Names : file[n] # None => file'[n] # None
    <3>1. File(ProcOf[t]) \in Names
      BY Constants DEF File, Names, TypeOK
    <3>2. CASE Open(ProcOf[t], t)
      <4>1. <<>> \in Seq(Piece \cup {None})
        OBVIOUS
      <4>2. <<>> # None
        BY <4>1, NoneAssumption
      <4> QED
        BY <3>1, <3>2, <4>2 DEF Open, TypeOK
    <3>3. CASE Write(ProcOf[t], t)
      <4>1. file[File(ProcOf[t])] \in Seq(Piece \cup {None})
        BY <3>1, <3>3 DEF Write, Opened, TypeOK
      <4>2. Binary(ProcOf[t]) \in Piece /\ off[t] + 1 \in Nat \ {0}
        BY Constants DEF Binary, Piece, TypeOK
      <4>3. Put(file[File(ProcOf[t])], off[t] + 1, Binary(ProcOf[t])) # None
        BY <4>1, <4>2, PutSeq, NoneAssumption
      <4> QED
        BY <3>1, <3>3, <4>3 DEF Write, TypeOK
    <3> QED
      BY <1>1, <3>2, <3>3
  <2>2. src' = src /\ \A u \in Thread : u # t => pc'[u] = pc[u]
    BY <1>1 DEF Open, Write, Goto, state, TypeOK
  <2>3. \A u \in Thread : File(ProcOf[u]) \in Names /\ File(ProcOf[u])' = File(ProcOf[u])
    BY <2>2, Constants DEF File, Names, TypeOK
  <2> QED
    BY <2>1, <2>2, <2>3 DEF Opened, Writing
<1>2. CASE \A t \in Thread : ~Open(ProcOf[t], t) /\ ~Write(ProcOf[t], t)
  BY <1>2, OtherSteps DEF Opened
<1> QED
  BY <1>1, <1>2

\* Types: only the threads of a process that runs are in a launch.
THEOREM Typing == Spec => []TypeOK
<1>1. Init => TypeOK /\ Opened
  BY InitTypeOK DEF Init, Opened, Writing
<1>2. TypeOK /\ Opened /\ [Next]_vars => (TypeOK /\ Opened)'
  BY NextTypeOK, NextOpened
<1> QED
  BY <1>1, <1>2, PTL DEF Spec
-----------------------------------------------------------------------------
(* The file of a program.                                                   *)

\* A piece of a source that has the file n.
Right(n, x) == x \in Piece /\ FileName(x.src) = n /\ x.dev = 0
Calm == slips \cap {"killed", "upgraded", "disk"} = {}

\* Someone still has to write piece i of the file n.
ToCome(n, i) == \E t \in Thread : Writing(t) /\ File(ProcOf[t]) = n /\ off[t] < i

\* Each piece is there, or someone will come to it: an open that empties the file
\* is made by one who has all pieces before him.
Complete(n) ==
    file[n] # None =>
        /\ Len(file[n]) <= NChunk
        /\ \A i \in 1 .. NChunk : \/ i <= Len(file[n]) /\ Right(n, file[n][i])
                                  \/ ToCome(n, i)

CacheInv == Calm => /\ driver = 0 /\ \A p \in Proc : dev[p] = 0
                    /\ \A n \in Names : Complete(n)

\* While the system stays calm, drivers and devices stay as they were.
LEMMA NextDriver ==
  ASSUME TypeOK, [Next]_vars, Calm', Calm => driver = 0 /\ \A p \in Proc : dev[p] = 0
  PROVE  Calm /\ driver' = 0 /\ \A p \in Proc : dev'[p] = 0
<1>1. ASSUME NEW p \in Proc, NEW S, Gone(p, S)
      PROVE  slips \subseteq slips' /\ driver' = driver
             /\ \A q \in Proc : dev'[q] \in {0, dev[q]}
  BY <1>1 DEF Gone, Slip, TypeOK
<1>2. ASSUME NEW t \in Thread, Step(ProcOf[t], t)
      PROVE  slips \subseteq slips' /\ driver' = driver
             /\ \A q \in Proc : dev'[q] \in {0, dev[q]}
  <2> DEFINE p == ProcOf[t]
             G == slips \subseteq slips' /\ driver' = driver
                  /\ \A q \in Proc : dev'[q] \in {0, dev[q]}
  <2>1. ASSUME NEW h \in Uses[t], Launch(p, t, h) PROVE G
    BY <2>1 DEF Launch, Slip, state
  <2>2. CASE Check(p, t) \/ Open(p, t) \/ OpenFails(p, t) \/ WriteFails(p, t) \/ PushArg(p, t)
    BY <2>2 DEF Check, Open, OpenFails, WriteFails, PushArg, Slip, state
  <2>3. CASE Load(p, t) \/ Create(p, t)
    <3>1. p \in Proc
      BY Constants
    <3>2. \/ \E S : Gone(p, S)
          \/ slips \subseteq slips' /\ driver' = driver /\ dev' = dev
      BY <2>3 DEF Load, Create, Fail, Slip, state
    <3> QED
      BY <1>1, <3>1, <3>2
  <2>4. CASE Compile(p, t) \/ Write(p, t) \/ SetFlag(p, t) \/ Kernels(p, t)
             \/ LaunchKernel(p, t)
    BY <2>4 DEF Compile, Write, SetFlag, Kernels, LaunchKernel, state
  <2> QED
    BY <1>2, <2>1, <2>2, <2>3, <2>4 DEF Step
<1>3. ASSUME NEW p \in Proc, NEW s \in Source, Start(p, s)
      PROVE  slips \subseteq slips' /\ driver' = driver
             /\ \A q \in Proc : dev'[q] \in {driver, dev[q]}
  BY <1>3 DEF Start, TypeOK
<1>4. ~Upgrade
  BY DEF Upgrade, Slip, Calm
<1>5. CASE UNCHANGED vars
  BY <1>5 DEF vars, state, Calm
<1>6. CASE slips \subseteq slips'
  BY <1>1, <1>2, <1>3, <1>4, <1>5, <1>6 DEF Next, End, Calm
<1> QED
  BY <1>1, <1>2, <1>3, <1>4, <1>5, <1>6 DEF Next, End

\* Opening a file, which empties it, leaves every file complete or being written.
LEMMA OpenComplete ==
  ASSUME TypeOK, \A n \in Names : Complete(n), NEW t \in Thread, Open(ProcOf[t], t),
         NEW n \in Names
  PROVE  Complete(n)'
<1>1. /\ file' = [file EXCEPT ![File(ProcOf[t])] = <<>>]
      /\ off' = [off EXCEPT ![t] = 0] /\ pc' = [pc EXCEPT ![t] = "write"]
      /\ src' = src /\ ~Writing(t)
  BY DEF Open, Goto, state, Writing
<1>2. \A u \in Thread : File(ProcOf[u])' = File(ProcOf[u])
  BY <1>1 DEF File
<1>3. CASE n = File(ProcOf[t])
  <2>1. \A i \in 1 .. NChunk : ToCome(n, i)'
    BY <1>1, <1>2, <1>3, Constants DEF ToCome, Writing, TypeOK
  <2>2. file'[n] = <<>>
    BY <1>1, <1>3 DEF TypeOK
  <2> QED
    BY <2>1, <2>2, Constants DEF Complete
<1>4. CASE n # File(ProcOf[t])
  <2>1. \A i : ToCome(n, i) => ToCome(n, i)'
    <3> SUFFICES ASSUME NEW i, NEW u \in Thread,
                        Writing(u) /\ File(ProcOf[u]) = n /\ off[u] < i
                 PROVE  ToCome(n, i)'
      BY DEF ToCome
    <3>1. u # t
      BY <1>1
    <3> QED
      BY <1>1, <1>2, <3>1 DEF ToCome, Writing, TypeOK
  <2>2. file'[n] = file[n]
    BY <1>1, <1>4 DEF TypeOK
  <2> QED
    BY <2>1, <2>2 DEF Complete, Right
<1> QED
  BY <1>3, <1>4

\* So does writing one piece.
LEMMA WriteComplete ==
  ASSUME TypeOK, Opened, \A p \in Proc : dev[p] = 0, \A n \in Names : Complete(n),
         NEW t \in Thread, Write(ProcOf[t], t), NEW n \in Names
  PROVE  Complete(n)'
<1> DEFINE x == Binary(ProcOf[t])
           k == off[t] + 1
           f == file[n]
<1>1. /\ file' = [file EXCEPT ![File(ProcOf[t])] = Put(file[File(ProcOf[t])], k, x)]
      /\ off' = [off EXCEPT ![t] = k] /\ src' = src
      /\ pc' = [pc EXCEPT ![t] = IF k = NChunk THEN "flag" ELSE "write"]
      /\ k \in 1 .. NChunk
  BY Constants DEF Write, Goto, Written, TypeOK, state, Writing
<1>2. \A u \in Thread : File(ProcOf[u])' = File(ProcOf[u])
  BY <1>1 DEF File
<1>3. ASSUME NEW i \in 1 .. NChunk, n # File(ProcOf[t]) \/ i # k, ToCome(n, i)
      PROVE  ToCome(n, i)'
  <2>1. PICK u \in Thread : Writing(u) /\ File(ProcOf[u]) = n /\ off[u] < i
    BY <1>3 DEF ToCome
  <2>2. CASE u # t
    BY <1>1, <1>2, <2>1, <2>2 DEF ToCome, Writing, TypeOK
  <2>3. CASE u = t
    <3>1. n = File(ProcOf[t]) /\ k < i /\ k # NChunk
      BY <1>1, <1>3, <2>1, <2>3, Constants DEF TypeOK
    <3> QED
      BY <1>1, <1>2, <2>1, <2>3, <3>1 DEF ToCome, Writing, TypeOK
  <2> QED
    BY <2>2, <2>3
<1>4. CASE n = File(ProcOf[t])
  <2>1. Right(n, x)
    BY <1>4, Constants DEF TypeOK, File, Binary, Piece, Right
  <2>2. f \in Seq(Piece \cup {None}) /\ f # None
    BY <1>4 DEF Write, Opened, TypeOK
  <2>3. /\ file'[n] = Put(f, k, x)
        /\ Len(Put(f, k, x)) = (IF Len(f) < k THEN k ELSE Len(f))
        /\ \A i \in 1 .. Len(Put(f, k, x)) :
              i = k \/ i <= Len(f) => Put(f, k, x)[i] = IF i = k THEN x ELSE f[i]
    BY <1>1, <1>4, <2>2 DEF Put, TypeOK
  <2>4. Len(f) <= NChunk
    BY <2>2 DEF Complete
  <2>5. ASSUME NEW i \in 1 .. NChunk
        PROVE  \/ i <= Len(Put(f, k, x)) /\ Right(n, Put(f, k, x)[i])
               \/ ToCome(n, i)'
    <3>1. CASE i = k
      BY <1>1, <2>1, <2>2, <2>3, <3>1
    <3>2. CASE i # k /\ ToCome(n, i)
      BY <1>3, <3>2
    <3>3. CASE i # k /\ ~ToCome(n, i)
      <4>1. i <= Len(f) /\ Right(n, f[i])
        BY <2>2, <3>3 DEF Complete
      <4> QED
        BY <1>1, <2>2, <2>3, <3>3, <4>1
    <3> QED
      BY <3>1, <3>2, <3>3
  <2> QED
    BY <1>1, <2>2, <2>3, <2>4, <2>5 DEF Complete, Right
<1>5. CASE n # File(ProcOf[t])
  <2>1. file'[n] = file[n]
    BY <1>1, <1>5 DEF TypeOK
  <2> QED
    BY <1>3, <1>5, <2>1 DEF Complete, Right
<1> QED
  BY <1>4, <1>5

\* Every step of a calm system keeps the invariant of the cache.
LEMMA NextCacheInv == TypeOK /\ Opened /\ CacheInv /\ [Next]_vars => CacheInv'
<1> SUFFICES ASSUME TypeOK, Opened, CacheInv, [Next]_vars, Calm' PROVE CacheInv'
  BY DEF CacheInv
<1>1. Calm /\ driver' = 0 /\ \A p \in Proc : dev'[p] = 0
  BY NextDriver DEF CacheInv
<1>2. \A n \in Names : Complete(n)
  BY <1>1 DEF CacheInv
<1>3. ASSUME NEW n \in Names, NEW t \in Thread, Open(ProcOf[t], t) PROVE Complete(n)'
  BY <1>2, <1>3, OpenComplete
<1>4. ASSUME NEW n \in Names, NEW t \in Thread, Write(ProcOf[t], t) PROVE Complete(n)'
  BY <1>1, <1>2, <1>4, WriteComplete DEF CacheInv
<1>5. ASSUME \A t \in Thread : ~Open(ProcOf[t], t) /\ ~Write(ProcOf[t], t)
      PROVE  \A n \in Names : Complete(n)'
  <2>1. file' = file
    BY <1>5, OtherSteps
  <2>2. \A n, i : ToCome(n, i) => ToCome(n, i)'
    BY <1>5, OtherSteps DEF ToCome, Calm
  <2> QED
    BY <1>2, <2>1, <2>2 DEF Complete, Right
<1> QED
  BY <1>1, <1>3, <1>4, <1>5 DEF CacheInv

\* The invariant says what is promised of the files.
LEMMA CacheInvSettles == TypeOK /\ CacheInv => CacheSettles
<1> SUFFICES ASSUME TypeOK, CacheInv, Calm, NEW n \in Names, OfOneSource(n),
                    \A t \in Thread : ~(Writing(t) /\ File(ProcOf[t]) = n),
                    file[n] # None
             PROVE  Whole(file[n])
  BY DEF CacheSettles, Calm
<1>1. /\ Len(file[n]) <= NChunk /\ file[n] \in Seq(Piece \cup {None})
      /\ \A i \in 1 .. NChunk : i <= Len(file[n]) /\ Right(n, file[n][i])
  BY DEF CacheInv, Complete, ToCome, TypeOK
<1>2. Len(file[n]) = NChunk
  BY <1>1, Constants
<1>3. \A x, y : Right(n, x) /\ Right(n, y) => x = y
  BY DEF Right, Piece, OfOneSource
<1>4. \A x : Right(n, x) => x # None
  BY Constants DEF Right
<1> QED
  BY <1>1, <1>2, <1>3, <1>4, Constants DEF Whole

\* Processes that write the file of a program at the same time leave the whole of
\* it, if none of them ends in the middle and the driver stays the same.
THEOREM ConcurrentWritesSettle == Spec => []CacheSettles
<1>1. Init => TypeOK /\ Opened /\ CacheInv
  BY InitTypeOK DEF Init, Opened, Writing, CacheInv, Complete
<1>2. TypeOK /\ Opened /\ CacheInv /\ [Next]_vars => (TypeOK /\ Opened /\ CacheInv)'
  BY NextTypeOK, NextOpened, NextCacheInv
<1> QED
  BY <1>1, <1>2, CacheInvSettles, PTL DEF Spec
-----------------------------------------------------------------------------
(* The arguments of a kernel.                                               *)

Named == \A t \in Thread : pc[t] \in {"push", "enqueue"} => kernel[t] \in Kernel
Set(t) == pc[t] = "enqueue" => arg[ProcOf[t]][kernel[t]] = t
ArgsInv == Named /\ ("shared" \notin slips => \A t \in Thread : Set(t))

\* Of the other steps, one thread takes each, or a process goes.
LEMMA OtherArgs ==
  ASSUME TypeOK, ArgsInv, [Next]_vars, \A t \in Thread : ~PushArg(ProcOf[t], t)
  PROVE  ArgsInv'
<1>1. ASSUME NEW p \in up, NEW S, Gone(p, S) PROVE ArgsInv'
  <2>1. \A t \in Thread : ProcOf[t] = p => pc'[t] = "idle"
    BY <1>1 DEF Gone
  <2>2. \A t \in Thread : ProcOf[t] # p =>
           pc'[t] = pc[t] /\ kernel'[t] = kernel[t] /\ arg'[ProcOf[t]] = arg[ProcOf[t]]
    BY <1>1, Constants DEF Gone, TypeOK
  <2>3. slips \subseteq slips'
    BY <1>1 DEF Gone, Slip
  <2> QED
    BY <2>1, <2>2, <2>3 DEF ArgsInv, Named, Set
<1>2. ASSUME NEW t \in Thread, Step(ProcOf[t], t) PROVE ArgsInv'
  <2> DEFINE p == ProcOf[t]
             Moved == /\ pc' \in [Thread -> Labels] /\ pc'[t] # "enqueue"
                      /\ pc'[t] = "push" => kernel'[t] \in Kernel
                      /\ \A u \in Thread : u # t => pc'[u] = pc[u] /\ kernel'[u] = kernel[u]
                      /\ arg' = arg /\ slips \subseteq slips'
  <2>1. ASSUME NEW h \in Uses[t], Launch(p, t, h) PROVE Moved
    BY <2>1 DEF Launch, Goto, Slip, TypeOK, Labels, runtime
  <2>2. CASE Check(p, t)
    <3>1. Moved
      BY <2>2 DEF Check, Goto, Slip, TypeOK, Labels, runtime
    <3> QED BY <3>1 DEF ArgsInv, Named, Set
  <2>3. CASE Load(p, t) \/ Create(p, t)
    <3>1. p \in up
      BY <2>3, Constants DEF Load, Create, TypeOK
    <3>2. (\E S : Gone(p, S)) \/ Moved
      BY <2>3 DEF Load, Create, Fail, Goto, Slip, TypeOK, Labels, runtime
    <3>3. CASE \E S : Gone(p, S)
      BY <1>1, <3>1, <3>3
    <3>4. CASE Moved
      BY <3>4 DEF ArgsInv, Named, Set
    <3> QED BY <3>2, <3>3, <3>4
  <2>4. CASE \/ Compile(p, t) \/ Open(p, t) \/ OpenFails(p, t) \/ Write(p, t)
             \/ WriteFails(p, t) \/ SetFlag(p, t) \/ Kernels(p, t)
    <3>1. Moved
      BY <2>4 DEF Compile, Open, OpenFails, Write, WriteFails, SetFlag, Kernels, Goto, Slip,
                  TypeOK, Labels, runtime
    <3> QED BY <3>1 DEF ArgsInv, Named, Set
  <2>5. CASE LaunchKernel(p, t)
    <3>1. Moved
      BY <2>5 DEF LaunchKernel, Goto, TypeOK, Labels, runtime
    <3> QED BY <3>1 DEF ArgsInv, Named, Set
  <2>6. CASE Moved
    BY <2>6 DEF ArgsInv, Named, Set
  <2> QED
    BY <1>2, <2>1, <2>2, <2>3, <2>4, <2>5, <2>6 DEF Step
<1>3. ASSUME NEW p \in Proc, NEW s \in Source, Start(p, s) PROVE ArgsInv'
  BY <1>3 DEF Start, ArgsInv, Named, Set, runtime, thread
<1>4. CASE Upgrade
  BY <1>4 DEF Upgrade, Slip, ArgsInv, Named, Set, runtime, thread
<1>5. CASE UNCHANGED vars
  BY <1>5 DEF vars, ArgsInv, Named, Set, runtime, thread
<1> QED
  BY <1>1, <1>2, <1>3, <1>4, <1>5 DEF Next, End

\* A thread's arguments stay until it has enqueued the kernel, as the threads that
\* launch another one set theirs in another object.
LEMMA PushKeepsArgs ==
  ASSUME TypeOK, ArgsInv, NEW t \in Thread, PushArg(ProcOf[t], t)
  PROVE  ArgsInv'
<1>1. /\ arg' = [arg EXCEPT ![ProcOf[t]][kernel[t]] = t] /\ kernel' = kernel
      /\ pc' = [pc EXCEPT ![t] = "enqueue"] /\ kernel[t] \in Kernel
      /\ slips \subseteq slips'
  BY DEF PushArg, Object, Goto, Slip, ArgsInv, Named
<1>2. Named'
  BY <1>1 DEF ArgsInv, Named, TypeOK
<1>3. ASSUME "shared" \notin slips', NEW u \in Thread, pc'[u] = "enqueue"
      PROVE  arg'[ProcOf[u]][kernel'[u]] = u
  <2>1. CASE u = t
    BY <1>1, <2>1, Constants DEF TypeOK
  <2>2. CASE u # t
    <3>1. pc[u] = "enqueue" /\ arg[ProcOf[u]][kernel[u]] = u /\ kernel[u] \in Kernel
      BY <1>1, <1>3, <2>2 DEF ArgsInv, Named, Set, TypeOK
    <3>2. ProcOf[u] # ProcOf[t] \/ kernel[u] # kernel[t]
      BY <1>3, <3>1 DEF PushArg, Slip, Flag, Threads
    <3> QED
      BY <1>1, <3>1, <3>2, Constants DEF TypeOK
  <2> QED
    BY <2>1, <2>2
<1> QED
  BY <1>2, <1>3 DEF ArgsInv, Set

\* A kernel is enqueued with the arguments of the thread that enqueues it.
THEOREM ArgumentsAreOwn == Spec => OwnArguments
<1>1. Init => TypeOK /\ Opened /\ ArgsInv
  BY InitTypeOK DEF Init, Opened, Writing, ArgsInv, Named, Set
<1>2. TypeOK /\ Opened /\ ArgsInv /\ [Next]_vars => (TypeOK /\ Opened /\ ArgsInv)'
  BY NextTypeOK, NextOpened, OtherArgs, PushKeepsArgs
<1>3. ArgsInv => \A t \in Thread :
         pc[t] = "enqueue" /\ "shared" \notin slips => arg[ProcOf[t]][kernel[t]] = t
  BY DEF ArgsInv, Set
<1>4. TypeOK /\ Opened /\ ArgsInv /\ [Next]_vars =>
        [\A t \in Thread : pc[t] = "enqueue" /\ pc'[t] = "idle" /\ "shared" \notin slips =>
             arg[ProcOf[t]][kernel[t]] = t]_vars
  BY <1>3
<1> QED
  BY <1>1, <1>2, <1>4, PTL DEF Spec, OwnArguments
-----------------------------------------------------------------------------
(* Whose program a process runs.                                            *)

FilesNamed == \A n \in Names : file[n] # None =>
                 \A i \in 1 .. Len(file[n]) :
                    file[n][i] # None => FileName(file[n][i].src) = n
ProgramsNamed == \A p \in Proc : program[p] # None =>
                    p \in up /\ FileName(program[p].src) = FileName(src[p])

\* Every step keeps the contents of a file to binaries of its name.
LEMMA NextFilesNamed == TypeOK /\ Opened /\ FilesNamed /\ [Next]_vars => FilesNamed'
<1> SUFFICES ASSUME TypeOK, Opened, FilesNamed, [Next]_vars PROVE FilesNamed'
  OBVIOUS
<1>1. ASSUME NEW t \in Thread, Open(ProcOf[t], t) PROVE FilesNamed'
  BY <1>1 DEF Open, FilesNamed, TypeOK
<1>2. ASSUME NEW t \in Thread, Write(ProcOf[t], t), NEW n \in Names
      PROVE  file'[n] # None => \A i \in 1 .. Len(file'[n]) :
                file'[n][i] # None => FileName(file'[n][i].src) = n
  <2>1. CASE n = File(ProcOf[t])
    <3>1. file[n] \in Seq(Piece \cup {None}) /\ off[t] + 1 \in Nat \ {0} /\ file[n] # None
      BY <1>2, <2>1, Constants DEF Write, Opened, TypeOK
    <3>2. file'[n] = Put(file[n], off[t] + 1, Binary(ProcOf[t]))
      BY <1>2, <2>1 DEF Write, TypeOK
    <3>3. \A i \in 1 .. Len(file'[n]) :
             \/ file'[n][i] \in {Binary(ProcOf[t]), None}
             \/ i <= Len(file[n]) /\ file'[n][i] = file[n][i]
      <4> DEFINE m == IF Len(file[n]) < off[t] + 1 THEN off[t] + 1 ELSE Len(file[n])
      <4>1. m \in Nat /\ Len(file'[n]) = m
        BY <3>1, <3>2 DEF Put
      <4>2. \A i \in 1 .. m : file'[n][i] = IF i = off[t] + 1 THEN Binary(ProcOf[t])
                                           ELSE IF i <= Len(file[n]) THEN file[n][i]
                                           ELSE None
        BY <3>1, <3>2 DEF Put
      <4> QED
        BY <4>1, <4>2
    <3>4. FileName(Binary(ProcOf[t]).src) = n
      BY <2>1 DEF Binary, File
    <3> QED
      BY <3>1, <3>3, <3>4 DEF FilesNamed
  <2>2. CASE n # File(ProcOf[t])
    <3>1. file'[n] = file[n]
      BY <1>2, <2>2 DEF Write, TypeOK
    <3> QED
      BY <1>2, <3>1 DEF FilesNamed
  <2> QED
    BY <2>1, <2>2
<1>3. CASE \A t \in Thread : ~Open(ProcOf[t], t) /\ ~Write(ProcOf[t], t)
  BY <1>3, OtherSteps DEF FilesNamed
<1> QED
  BY <1>1, <1>2, <1>3 DEF FilesNamed

\* Every step keeps the programs to binaries of the process's own name.
LEMMA NextProgramsNamed ==
  TypeOK /\ FilesNamed /\ ProgramsNamed /\ [Next]_vars => ProgramsNamed'
<1> SUFFICES ASSUME TypeOK, FilesNamed, ProgramsNamed, [Next]_vars PROVE ProgramsNamed'
  OBVIOUS
<1>1. ASSUME NEW p \in up, NEW S, Gone(p, S) PROVE ProgramsNamed'
  BY <1>1 DEF Gone, ProgramsNamed, TypeOK
<1>2. ASSUME NEW t \in Thread, Step(ProcOf[t], t) PROVE ProgramsNamed'
  <2> DEFINE p == ProcOf[t]
             Same == program' = program /\ src' = src /\ up' = up
             Made == /\ p \in up /\ src' = src /\ up' = up
                     /\ \E x : /\ program' = [program EXCEPT ![p] = x]
                               /\ FileName(x.src) = FileName(src[p])
  <2>1. CASE Same
    BY <2>1 DEF ProgramsNamed
  <2>2. CASE Made
    BY <2>2, Constants DEF ProgramsNamed, TypeOK
  <2>3. ASSUME NEW h \in Uses[t], Launch(p, t, h) PROVE Same
    BY <2>3 DEF Launch, state, runtime
  <2>4. CASE \/ Check(p, t) \/ Open(p, t) \/ OpenFails(p, t) \/ Write(p, t)
             \/ WriteFails(p, t) \/ SetFlag(p, t) \/ Kernels(p, t) \/ PushArg(p, t)
             \/ LaunchKernel(p, t)
    <3>1. Same
      BY <2>4 DEF Check, Open, OpenFails, Write, WriteFails, SetFlag, Kernels, PushArg,
                  LaunchKernel, state, runtime
    <3> QED BY <2>1, <3>1
  <2>5. CASE Compile(p, t)
    <3>1. /\ program' = [program EXCEPT ![p] = Binary(p)] /\ src' = src /\ up' = up
          /\ p \in up
      BY <2>5, Constants DEF Compile, TypeOK, state
    <3>2. Binary(p).src = src[p]
      BY DEF Binary
    <3>3. Made
      BY <3>1, <3>2
    <3> QED BY <2>2, <3>3
  <2>6. CASE Load(p, t)
    <3>1. p \in up /\ File(p) \in Names
      BY <2>6, Constants DEF Load, File, Names, TypeOK
    <3>2. CASE Fail(p, Together(p))
      BY <1>1, <3>1, <3>2 DEF Fail
    <3>3. CASE ~Fail(p, Together(p))
      <4>1. /\ file[File(p)] # None /\ Whole(file[File(p)])
            /\ program' = [program EXCEPT ![p] = file[File(p)][1]]
            /\ src' = src /\ up' = up
        BY <2>6, <3>3 DEF Load, state
      <4>2. FileName(file[File(p)][1].src) = File(p)
        BY <3>1, <4>1, Constants DEF FilesNamed, Whole
      <4>3. Made
        BY <3>1, <4>1, <4>2 DEF File
      <4> QED BY <2>2, <4>3
    <3> QED BY <3>2, <3>3
  <2>7. CASE Create(p, t)
    <3>1. p \in up
      BY <2>7, Constants DEF Create, TypeOK
    <3>2. CASE Fail(p, {})
      BY <1>1, <3>1, <3>2 DEF Fail
    <3>3. CASE ~Fail(p, {})
      <4>1. Same
        BY <2>7, <3>3 DEF Create, state, runtime
      <4> QED BY <2>1, <4>1
    <3> QED BY <3>2, <3>3
  <2> QED
    BY <1>2, <2>1, <2>3, <2>4, <2>5, <2>6, <2>7 DEF Step
<1>3. ASSUME NEW p \in Proc, NEW s \in Source, Start(p, s) PROVE ProgramsNamed'
  BY <1>3 DEF Start, ProgramsNamed, TypeOK, runtime
<1>4. CASE Upgrade \/ UNCHANGED vars
  BY <1>4 DEF Upgrade, vars, ProgramsNamed, state, runtime
<1> QED
  BY <1>1, <1>2, <1>3, <1>4 DEF Next, End

\* A process runs the program of its own source, unless another source's hash is
\* printed alike.
THEOREM ProgramsAreOwn == Spec => []OwnKernels
<1>1. Init => TypeOK /\ Opened /\ FilesNamed /\ ProgramsNamed
  BY InitTypeOK DEF Init, Opened, Writing, FilesNamed, ProgramsNamed
<1>2. TypeOK /\ Opened /\ FilesNamed /\ ProgramsNamed /\ [Next]_vars
         => (TypeOK /\ Opened /\ FilesNamed /\ ProgramsNamed)'
  BY NextTypeOK, NextOpened, NextFilesNamed, NextProgramsNamed
<1>3. TypeOK /\ ProgramsNamed => OwnKernels
  <2>1. \A s \in Source : Printed(s) = FileName(s)
    BY DEF Printed, FileName, Hex
  <2> QED
    BY <2>1 DEF ProgramsNamed, OwnKernels, TypeOK, Piece
<1> QED
  BY <1>1, <1>2, <1>3, PTL DEF Spec

-----------------------------------------------------------------------------
(* The launches of a process.                                              *)

\* Nothing has happened that upsets a first launch.
Quiet == slips \subseteq {"shared"}

\* Nobody writes the file n; and what one who writes has put there so far.
Alone(n) == \A t \in Thread : Writing(t) => File(ProcOf[t]) # n
Begun(t) == LET f == file[File(ProcOf[t])]
            IN  Len(f) = off[t] /\ \A i \in 1 .. off[t] : f[i] = Binary(ProcOf[t])

\* A file has one writer at a time, who knows all that is in it, and is whole when
\* he is through; a name that is launched is that of a kernel.
OneWriter == \A t, u \in Thread :
                 Writing(t) /\ Writing(u) /\ File(ProcOf[t]) = File(ProcOf[u]) => t = u
FilesWhole == /\ \A t \in Thread : Writing(t) => Begun(t)
              /\ \A n \in Names : file[n] # None /\ Alone(n) =>
                     Whole(file[n]) /\ file[n][1].dev = 0
LaunchesNamed == \A t \in Thread : pc[t] # "idle" => kernel[t] \in Kernel
QuietInv == Quiet => OneWriter /\ FilesWhole /\ LaunchesNamed /\ failed = {}

\* A slip is not forgotten.
LEMMA SlipsStay == [Next]_vars => slips \subseteq slips'
<1>1. ASSUME NEW p, NEW S, Gone(p, S) PROVE slips \subseteq slips'
  BY <1>1 DEF Gone, Slip
<1>2. ASSUME NEW p, NEW t, Load(p, t) \/ Create(p, t) PROVE slips \subseteq slips'
  BY <1>1, <1>2 DEF Load, Create, Fail, Slip
<1>3. ASSUME NEW p, NEW t, NEW h, Launch(p, t, h) PROVE slips \subseteq slips'
  BY <1>3 DEF Launch, Slip
<1>4. ASSUME NEW p, NEW t, \/ Check(p, t) \/ Open(p, t) \/ OpenFails(p, t)
                           \/ WriteFails(p, t) \/ PushArg(p, t)
      PROVE  slips \subseteq slips'
  BY <1>4 DEF Check, Open, OpenFails, WriteFails, PushArg, Slip
<1>5. ASSUME NEW p, NEW t, \/ Compile(p, t) \/ Write(p, t) \/ SetFlag(p, t)
                           \/ Kernels(p, t) \/ LaunchKernel(p, t)
      PROVE  slips \subseteq slips'
  BY <1>5 DEF Compile, Write, SetFlag, Kernels, LaunchKernel
<1>6. Upgrade => slips \subseteq slips'
  BY DEF Upgrade, Slip
<1>7. ASSUME NEW p, NEW s, Start(p, s) PROVE slips \subseteq slips'
  BY <1>7 DEF Start
<1> QED
  BY <1>1, <1>2, <1>3, <1>4, <1>5, <1>6, <1>7 DEF Next, Step, End, vars

\* Opening and writing a file, by the only one who does.
LEMMA OpenKeepsWhole ==
  ASSUME TypeOK, OneWriter, FilesWhole, NEW t \in Thread, Open(ProcOf[t], t), Quiet'
  PROVE  OneWriter' /\ FilesWhole'
<1> DEFINE n == File(ProcOf[t])
<1>1. /\ file' = [file EXCEPT ![n] = <<>>] /\ src' = src /\ dev' = dev
      /\ off' = [off EXCEPT ![t] = 0] /\ pc' = [pc EXCEPT ![t] = "write"]
      /\ n \in Names /\ ~Writing(t)
  BY Constants DEF Open, Goto, state, Writing, File, Names, TypeOK
<1>2. \A u \in Thread : /\ File(ProcOf[u])' = File(ProcOf[u])
                        /\ Binary(ProcOf[u])' = Binary(ProcOf[u])
                        /\ File(ProcOf[u]) \in Names
  BY <1>1, Constants DEF File, Binary, Names, TypeOK
<1>3. Alone(n)
  <2>1. "together" \notin slips'
    BY DEF Quiet
  <2>2. Together(ProcOf[t]) \subseteq slips'
    BY DEF Open, Slip
  <2> QED BY <2>1, <2>2 DEF Together, Flag, Alone
<1>4. \A u \in Thread : /\ u # t => Writing(u)' = Writing(u) /\ off'[u] = off[u]
                        /\ u = t => Writing(u)' /\ off'[u] = 0
  BY <1>1 DEF Writing, TypeOK
<1>5. \A m \in Names : file'[m] = IF m = n THEN <<>> ELSE file[m]
  BY <1>1 DEF TypeOK
<1>6. OneWriter'
  BY <1>2, <1>3, <1>4 DEF OneWriter, Alone
<1>7. ASSUME NEW u \in Thread, Writing(u)' PROVE Begun(u)'
  <2>1. CASE u = t
    BY <1>1, <1>2, <1>4, <1>5, <2>1 DEF Begun
  <2>2. CASE u # t
    <3>1. Writing(u) /\ File(ProcOf[u]) # n
      BY <1>3, <1>4, <1>7, <2>2 DEF Alone
    <3> QED BY <1>2, <1>4, <1>5, <2>2, <3>1 DEF Begun, FilesWhole
  <2> QED BY <2>1, <2>2
<1>8. ASSUME NEW m \in Names, file'[m] # None, Alone(m)'
      PROVE  Whole(file'[m]) /\ file'[m][1].dev = 0
  <2>1. m # n
    BY <1>2, <1>4, <1>8 DEF Alone
  <2>2. Alone(m)
    BY <1>1, <1>2, <1>4, <1>8 DEF Alone
  <2> QED BY <1>5, <1>8, <2>1, <2>2 DEF FilesWhole
<1> QED
  BY <1>6, <1>7, <1>8 DEF FilesWhole, Whole

\* So does writing a piece, the last of which makes it whole.
LEMMA WriteKeepsWhole ==
  ASSUME TypeOK, Opened, OneWriter, FilesWhole, \A p \in Proc : dev[p] = 0,
         NEW t \in Thread, Write(ProcOf[t], t)
  PROVE  OneWriter' /\ FilesWhole'
<1> DEFINE n == File(ProcOf[t])
           k == off[t] + 1
           x == Binary(ProcOf[t])
<1>1. /\ file' = [file EXCEPT ![n] = Put(file[n], k, x)] /\ src' = src /\ dev' = dev
      /\ off' = [off EXCEPT ![t] = k]
      /\ pc' = [pc EXCEPT ![t] = IF k = NChunk THEN "flag" ELSE "write"]
      /\ n \in Names /\ Writing(t) /\ k \in 1 .. NChunk
  BY Constants DEF Write, Goto, state, Written, Writing, File, Names, TypeOK
<1>2. \A u \in Thread : /\ File(ProcOf[u])' = File(ProcOf[u])
                        /\ Binary(ProcOf[u])' = Binary(ProcOf[u])
                        /\ File(ProcOf[u]) \in Names
  BY <1>1, Constants DEF File, Binary, Names, TypeOK
<1>3. x \in Piece /\ x.dev = 0
  BY Constants DEF Binary, Piece, TypeOK
<1>4. /\ \A u \in Thread : u # t => Writing(u)' = Writing(u) /\ off'[u] = off[u]
      /\ off'[t] = k /\ (Writing(t)' <=> k # NChunk)
  BY <1>1 DEF Writing, TypeOK
<1>5. \A m \in Names : file'[m] = IF m = n THEN Put(file[n], k, x) ELSE file[m]
  BY <1>1 DEF TypeOK
<1>6. Len(file'[n]) = k /\ \A i \in 1 .. k : file'[n][i] = x
  <2>1. file[n] \in Seq(Piece \cup {None})
    BY <1>1 DEF Opened, TypeOK
  <2>2. Len(file[n]) = k - 1 /\ \A i \in 1 .. (k - 1) : file[n][i] = x
    BY <1>1 DEF FilesWhole, Begun, TypeOK
  <2>3. Put(file[n], k, x) = [j \in 1 .. k |-> IF j = k THEN x
                                ELSE IF j <= Len(file[n]) THEN file[n][j] ELSE None]
    BY <1>1, <2>2 DEF Put
  <2>4. \A j \in 1 .. k : j # k => j <= Len(file[n]) /\ file[n][j] = x
    BY <1>1, <2>2
  <2>5. Put(file[n], k, x) = [j \in 1 .. k |-> x]
    BY <2>3, <2>4, Zenon
  <2> QED BY <1>1, <1>5, <2>5
<1>7. OneWriter'
  BY <1>1, <1>2, <1>4 DEF OneWriter
<1>8. ASSUME NEW u \in Thread, Writing(u)' PROVE Begun(u)'
  <2>1. CASE u = t
    BY <1>2, <1>4, <1>6, <2>1 DEF Begun
  <2>2. CASE u # t
    <3>1. Writing(u) /\ File(ProcOf[u]) # n
      BY <1>1, <1>4, <1>8, <2>2 DEF OneWriter
    <3> QED BY <1>2, <1>4, <1>5, <2>2, <3>1 DEF Begun, FilesWhole
  <2> QED BY <2>1, <2>2
<1>9. ASSUME NEW m \in Names, file'[m] # None, Alone(m)'
      PROVE  Whole(file'[m]) /\ file'[m][1].dev = 0
  <2>1. CASE m = n
    <3>1. k = NChunk
      BY <1>2, <1>4, <1>9, <2>1 DEF Alone
    <3>2. NChunk \in Nat \ {0} /\ x # None
      BY <1>3, Constants
    <3>3. /\ Len(file'[n]) = NChunk
          /\ \A i \in 1 .. NChunk : file'[n][i] = x
      BY <1>6, <3>1
    <3>4. 1 \in 1 .. NChunk
      BY <3>2
    <3>5. file'[n][1] = x
      BY <3>3, <3>4
    <3>6. Whole(file'[n])
      BY <3>2, <3>3, <3>5, Zenon DEF Whole
    <3> QED BY <1>3, <2>1, <3>5, <3>6
  <2>2. CASE m # n
    <3>1. Alone(m)
      BY <1>1, <1>2, <1>4, <1>9, <2>2 DEF Alone
    <3> QED BY <1>5, <1>9, <2>2, <3>1 DEF FilesWhole
  <2> QED BY <2>1, <2>2
<1> QED
  BY <1>7, <1>8, <1>9 DEF FilesWhole, Whole

\* No other step touches a file, unless a process is killed.
LEMMA OthersKeepWhole ==
  ASSUME TypeOK, OneWriter, FilesWhole, [Next]_vars, Quiet',
         \A t \in Thread : ~Open(ProcOf[t], t) /\ ~Write(ProcOf[t], t)
  PROVE  OneWriter' /\ FilesWhole'
<1>1. /\ file' = file
      /\ \A t \in Thread : Writing(t)' => /\ Writing(t) /\ off'[t] = off[t]
                                          /\ File(ProcOf[t])' = File(ProcOf[t])
                                          /\ Binary(ProcOf[t])' = Binary(ProcOf[t])
  BY OtherSteps
<1>2. \A t \in Thread : Writing(t) => Writing(t)'
  BY OtherSteps DEF Quiet
<1>3. OneWriter'
  BY <1>1 DEF OneWriter
<1>4. \A t \in Thread : Writing(t)' => Begun(t)'
  BY <1>1 DEF FilesWhole, Begun
<1>5. \A n \in Names : Alone(n)' => Alone(n)
  BY <1>1, <1>2 DEF Alone
<1> QED
  BY <1>1, <1>3, <1>4, <1>5 DEF FilesWhole, Whole

\* The names that are launched, by a process that need not replace the first.
LEMMA NextLaunchesNamed ==
  ASSUME TypeOK, LaunchesNamed, [Next]_vars, Quiet'
  PROVE  LaunchesNamed'
<1>1. ASSUME NEW p, NEW S, Gone(p, S) PROVE LaunchesNamed'
  BY <1>1, Constants DEF Gone, LaunchesNamed
<1>2. ASSUME NEW t \in Thread, NEW h \in Uses[t], Launch(ProcOf[t], t, h)
      PROVE  LaunchesNamed'
  <2> DEFINE p == ProcOf[t]
             S == Flag("early", p \notin known /\ h \notin Kernel)
                  \cup Flag("far", ~Matchable(h)) \cup Flag("threads", Filling(p))
  <2>1. S \subseteq slips'
    BY <1>2 DEF Launch, Slip
  <2>2. (p \notin known => h \in Kernel) /\ Matchable(h) /\ ~Filling(p)
    BY <2>1 DEF Flag, Quiet
  <2>3. Match(p, h) \subseteq Kernel
    BY <2>2 DEF Match, Matchable
  <2> QED
    BY <1>2, <2>3 DEF Launch, Goto, LaunchesNamed, TypeOK
<1>3. ASSUME NEW t \in Thread, NEW l, pc[t] # "idle", Goto(t, l), kernel' = kernel
      PROVE  LaunchesNamed'
  BY <1>3 DEF Goto, LaunchesNamed, TypeOK
<1>4. ASSUME NEW t \in Thread, Step(ProcOf[t], t) PROVE LaunchesNamed'
  <2> DEFINE p == ProcOf[t]
             Moves == \E l : pc[t] # "idle" /\ Goto(t, l) /\ kernel' = kernel
  <2>1. CASE Check(p, t) \/ Compile(p, t) \/ Open(p, t)
    <3>1. Moves
      BY <2>1 DEF Check, Compile, Open
    <3> QED BY <1>3, <3>1
  <2>2. CASE \/ OpenFails(p, t) \/ Write(p, t) \/ WriteFails(p, t) \/ SetFlag(p, t)
             \/ Kernels(p, t) \/ PushArg(p, t)
    <3>1. Moves
      BY <2>2 DEF OpenFails, Write, WriteFails, SetFlag, Kernels, PushArg, Writing, thread
    <3> QED BY <1>3, <3>1
  <2>3. CASE Load(p, t) \/ Create(p, t)
    <3>1. (\E S : Gone(p, S)) \/ Moves
      BY <2>3 DEF Load, Create, Fail
    <3> QED BY <1>1, <1>3, <3>1
  <2>4. CASE LaunchKernel(p, t)
    BY <2>4 DEF LaunchKernel, Goto, LaunchesNamed, TypeOK
  <2> QED
    BY <1>2, <1>4, <2>1, <2>2, <2>3, <2>4 DEF Step
<1>5. ASSUME NEW p, NEW s, Start(p, s) PROVE LaunchesNamed'
  BY <1>5 DEF Start, LaunchesNamed, thread
<1>6. CASE Upgrade \/ UNCHANGED vars
  BY <1>6 DEF Upgrade, vars, LaunchesNamed, thread
<1> QED
  BY <1>1, <1>4, <1>5, <1>6 DEF Next, End

\* Nothing makes a process end by itself.
LEMMA NobodyFails ==
  ASSUME TypeOK, FilesWhole, LaunchesNamed, failed = {}, [Next]_vars, Quiet',
         \A p \in Proc : dev[p] = 0
  PROVE  failed' = {}
<1>1. ASSUME NEW t \in Thread, Load(ProcOf[t], t) PROVE failed' = {}
  <2> DEFINE p == ProcOf[t]
             f == file[File(p)]
  <2>1. p \in Proc /\ File(p) \in Names /\ f # None
    BY <1>1, Constants DEF Load, File, Names, TypeOK
  <2>2. ASSUME Together(p) \subseteq slips' PROVE Alone(File(p))
    BY <2>2 DEF Together, Flag, Alone, Quiet
  <2>3. Together(p) \subseteq slips'
    BY <1>1 DEF Load, Fail, Gone, Slip
  <2>4. Whole(f) /\ f[1].dev = dev[p]
    BY <2>1, <2>2, <2>3 DEF FilesWhole
  <2> QED
    BY <1>1, <2>4 DEF Load, state
<1>2. ASSUME NEW t \in Thread, Create(ProcOf[t], t) PROVE failed' = {}
  BY <1>2 DEF Create, LaunchesNamed, state
<1>3. ASSUME NEW t \in Thread, Step(ProcOf[t], t), ~Load(ProcOf[t], t), ~Create(ProcOf[t], t)
      PROVE  failed' = failed
  BY <1>3 DEF Step, Launch, Check, Compile, Open, OpenFails, Write, WriteFails, SetFlag,
              Kernels, PushArg, LaunchKernel, state
<1>4. ASSUME NEW p, NEW s, Start(p, s) \/ End(p) PROVE failed' = {}
  BY <1>4 DEF Start, End
<1>5. CASE Upgrade \/ UNCHANGED vars
  BY <1>5 DEF Upgrade, vars, state
<1> QED
  BY <1>1, <1>2, <1>3, <1>4, <1>5 DEF Next

\* Every step keeps the invariant of the launches.
LEMMA NextQuietInv ==
  TypeOK /\ Opened /\ CacheInv /\ QuietInv /\ [Next]_vars => QuietInv'
<1> SUFFICES ASSUME TypeOK, Opened, CacheInv, QuietInv, [Next]_vars, Quiet' PROVE QuietInv'
  BY DEF QuietInv
<1>1. Quiet /\ \A p \in Proc : dev[p] = 0
  BY SlipsStay DEF Quiet, CacheInv, Calm
<1>2. OneWriter /\ FilesWhole /\ LaunchesNamed /\ failed = {}
  BY <1>1 DEF QuietInv
<1>3. OneWriter' /\ FilesWhole'
  <2>1. ASSUME NEW t \in Thread, Open(ProcOf[t], t) PROVE OneWriter' /\ FilesWhole'
    BY <1>2, <2>1, OpenKeepsWhole
  <2>2. ASSUME NEW t \in Thread, Write(ProcOf[t], t) PROVE OneWriter' /\ FilesWhole'
    BY <1>1, <1>2, <2>2, WriteKeepsWhole
  <2>3. CASE \A t \in Thread : ~Open(ProcOf[t], t) /\ ~Write(ProcOf[t], t)
    BY <1>2, <2>3, OthersKeepWhole
  <2> QED BY <2>1, <2>2, <2>3
<1>4. LaunchesNamed' /\ failed' = {}
  BY <1>1, <1>2, NextLaunchesNamed, NobodyFails
<1> QED
  BY <1>3, <1>4 DEF QuietInv

\* A process ends by itself only after a slip other than that threads share a kernel.
THEOREM LaunchesSucceed == Spec => []StartsSucceed
<1>1. Init => TypeOK /\ Opened /\ CacheInv /\ QuietInv
  BY InitTypeOK, Constants
  DEF Init, Opened, Writing, CacheInv, Complete, QuietInv, OneWriter, FilesWhole, LaunchesNamed
<1>2. TypeOK /\ Opened /\ CacheInv /\ QuietInv /\ [Next]_vars
         => (TypeOK /\ Opened /\ CacheInv /\ QuietInv)'
  BY NextTypeOK, NextOpened, NextCacheInv, NextQuietInv
<1>3. QuietInv => StartsSucceed
  BY DEF QuietInv, Quiet, StartsSucceed
<1> QED
  BY <1>1, <1>2, <1>3, PTL DEF Spec
=============================================================================
