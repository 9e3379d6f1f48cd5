--------------------------- MODULE OpenCLKernels ---------------------------
(***************************************************************************)
(* Kernel launches of the OpenCL runtime (mcwamp_opencl.cpp): the name of  *)
(* the kernel is matched with the known ones, the first launch of a        *)
(* process gets the program, the arguments are set and the kernel is       *)
(* enqueued.  The compiled program is cached in a file under /tmp that all *)
(* processes share and that outlives them; its name is the MD5 hash of the *)
(* source, and it is written in place.                                     *)
(*                                                                         *)
(* Nothing here takes a lock.  What upsets it is recorded in slips, and    *)
(* each property says which slips it does not survive:                     *)
(*   "killed"    a process ended while it was writing the file             *)
(*   "together"  a process used the file while another was writing it      *)
(*   "threads"   two threads of a process were in its first launch         *)
(*   "shared"    two threads set arguments of the same kernel              *)
(*   "upgraded"  the driver changed after a program was compiled           *)
(*   "early"     a name that is no kernel's was used before the kernels    *)
(*               were known, so that it was not replaced                   *)
(*   "far"       a name was used that no replacement makes a kernel's      *)
(*   "disk"      the file could not be opened, or not be written whole     *)
(***************************************************************************)
EXTENDS Naturals, Sequences, SequencesExt, FiniteSets

CONSTANTS
    Source,      \* kernel sources, each as the bytes of its hash
    Proc,        \* processes
    Src,         \* Src[p]: the sources that p may have been built with
    Thread,      \* host threads
    ProcOf,      \* the process of a thread
    Kernel,      \* names of the kernels of a source
    HostName,    \* names that the host side makes
    Uses,        \* Uses[t]: the names of the kernels that t launches
    Distance,    \* Levenshtein's, from a host name to a kernel's
    Copied,      \* what a host name becomes when a kernel's is copied over it
    NChunk,      \* pieces in which a file is written
    NUpgrade,    \* bound: new versions of the driver
    NSlip,       \* bound: kinds of slips in a run, which stops before one more
    None

Slips == {"killed", "together", "threads", "shared", "upgraded", "early", "far",
          "disk"}

ASSUME SourceAssumption == Source \subseteq Seq(0 .. 255)
ASSUME SrcAssumption == Src \in [Proc -> SUBSET Source]
ASSUME ProcOfAssumption == ProcOf \in [Thread -> Proc]
ASSUME NameAssumption == /\ Kernel \subseteq HostName
                         /\ Uses \in [Thread -> SUBSET HostName]
                         /\ Distance \in [HostName -> [Kernel -> Nat]]
                         /\ Copied \in [HostName -> [Kernel -> HostName]]
ASSUME NChunkAssumption == NChunk \in Nat \ {0}
ASSUME BoundAssumption == NUpgrade \in Nat /\ NSlip \in Nat

VARIABLES
    driver,      \* the version of the OpenCL driver
    file,        \* file[n]: None, or the pieces written, holes being None
    src, dev,    \* a process' source and the driver that it loaded
    up,          \* processes that run
    failed,      \* processes that ended by exit(1) or an assertion
    compiled,    \* processes in which __mcw_cxxamp_compiled is set
    known,       \* processes in which __mcw_kernel_names is filled
    program,     \* aloc.program: what it was made from, or None
    arg,         \* arg[p][k]: the thread whose arguments the cl_kernel has
    pc, kernel,  \* where a thread is, and the name of its kernel
    off,         \* pieces that a thread has written
    slips

state == <<src, dev, up, failed>>
runtime == <<compiled, known, program, arg>>
thread == <<pc, kernel, off>>
vars == <<driver, file, state, runtime, thread, slips>>

-----------------------------------------------------------------------------
(* std::setbase(16) prints a byte without leading zero.                    *)

\* (Definitions named Mut_ are slips that the properties must notice; no action
\* uses them.  Here: half of the hash is left out.)
Hex(b) == IF b < 16 THEN <<b>> ELSE <<b \div 16, b % 16>>
Mut_FileName(s) == Hex(s[1])
FileName(s) == FlattenSeq([i \in DOMAIN s |-> Hex(s[i])])
Names == {FileName(s) : s \in Source}

Piece == [src : Source, dev : 0 .. NUpgrade]
ASSUME NoneAssumption == None \notin Thread \cup HostName \cup Piece
                                     \cup Seq(Piece \cup {None})
Binary(p) == [src |-> src[p], dev |-> dev[p]]
File(p) == FileName(src[p])

\* The pieces of one program, all of them.
Whole(f) == Len(f) = NChunk /\ \A i \in 1 .. NChunk : f[i] = f[1] /\ f[1] # None

Init == /\ driver = 0
        /\ file = [n \in Names |-> None]
        /\ src \in [Proc -> Source] /\ \A p \in Proc : src[p] \in Src[p]
        /\ dev = [p \in Proc |-> 0]
        /\ up = {} /\ failed = {} /\ compiled = {} /\ known = {}
        /\ program = [p \in Proc |-> None]
        /\ arg = [p \in Proc |-> [k \in Kernel |-> None]]
        /\ pc = [t \in Thread |-> "idle"] /\ kernel = [t \in Thread |-> None]
        /\ off = [t \in Thread |-> 0]
        /\ slips = {}

-----------------------------------------------------------------------------
(* Processes.                                                              *)

Threads(p) == {t \in Thread : ProcOf[t] = p}
Writing(t) == pc[t] = "write"
FirstLaunch(t) == pc[t] \in {"load", "open", "write", "flag", "names"}

Slip(S) == /\ Cardinality(slips \cup S) <= NSlip
           /\ slips' = slips \cup S
Flag(name, cond) == IF cond THEN {name} ELSE {}

Start(p, s) ==
    /\ p \notin up /\ s \in Src[p]
    /\ up' = up \cup {p} /\ failed' = failed \ {p}
    /\ src' = [src EXCEPT ![p] = s] /\ dev' = [dev EXCEPT ![p] = driver]
    /\ UNCHANGED <<driver, file, runtime, thread, slips>>

\* All that the process has is gone; a file stays as it is.
Gone(p, S) ==
    /\ up' = up \ {p} /\ dev' = [dev EXCEPT ![p] = 0]
    /\ compiled' = compiled \ {p} /\ known' = known \ {p}
    /\ program' = [program EXCEPT ![p] = None]
    /\ arg' = [arg EXCEPT ![p] = [k \in Kernel |-> None]]
    /\ pc' = [t \in Thread |-> IF ProcOf[t] = p THEN "idle" ELSE pc[t]]
    /\ kernel' = [t \in Thread |-> IF ProcOf[t] = p THEN None ELSE kernel[t]]
    /\ off' = [t \in Thread |-> IF ProcOf[t] = p THEN 0 ELSE off[t]]
    /\ Slip(S \cup Flag("killed", \E t \in Threads(p) : Writing(t)))
    /\ UNCHANGED <<driver, file, src>>

End(p) == p \in up /\ Gone(p, {}) /\ UNCHANGED failed

\* exit(1), or an assertion that does not hold.
Fail(p, S) == Gone(p, S) /\ failed' = failed \cup {p}

\* A new driver is there for the processes that start from now on.
Upgrade ==
    /\ driver < NUpgrade
    /\ driver' = driver + 1
    /\ Slip({"upgraded"})
    /\ UNCHANGED <<file, state, runtime, thread>>

-----------------------------------------------------------------------------
(* A launch, on thread t of process p.                                     *)

Goto(t, to) == pc' = [pc EXCEPT ![t] = to]

\* The kernels that a name is replaced by: the nearest, nearer than 5.  (Of those
\* that are equally near the code takes the last one.)
Near(h) == {k \in Kernel : /\ Distance[h][k] < 5
                           /\ \A l \in Kernel : Distance[h][k] <= Distance[h][l]}

\* The copy ends without a zero byte: a longer name keeps its tail, and so need not
\* become the kernel's.
Replaced(h, kernels) == {Copied[h][k] : k \in kernels}

\* MatchKernelNames: what a name may become.  As long as no kernel is known it stays
\* what it is; while another thread fills the list of kernels, anything may be found
\* there.  (Mut_: it stays what it is.)
Filling(p) == \E u \in Threads(p) : pc[u] = "names"
Mut_Match(p, h) == {h}
Match(p, h) ==
    CASE Filling(p) -> {h} \cup Replaced(h, Kernel)
      [] ~Filling(p) /\ p \in known /\ h \notin Kernel /\ Near(h) # {} ->
            Replaced(h, Near(h))
      [] OTHER -> {h}

\* The name is a kernel's, or is going to be.
Matchable(h) == h \in Kernel \/ (Near(h) # {} /\ Replaced(h, Near(h)) \subseteq Kernel)

Launch(p, t, h) ==
    /\ p \in up /\ pc[t] = "idle"
    /\ \E name \in Match(p, h) : kernel' = [kernel EXCEPT ![t] = name]
    /\ Goto(t, "check")
    /\ Slip(Flag("early", p \notin known /\ h \notin Kernel)
            \cup Flag("far", ~Matchable(h)) \cup Flag("threads", Filling(p)))
    /\ UNCHANGED <<driver, file, state, runtime, off>>

\* __mcw_cxxamp_compiled.
Check(p, t) ==
    /\ pc[t] = "check"
    /\ Goto(t, IF p \in compiled THEN "create" ELSE "load")
    /\ Slip(Flag("threads", /\ p \notin compiled
                            /\ \E u \in Threads(p) : FirstLaunch(u)))
    /\ UNCHANGED <<driver, file, state, runtime, kernel, off>>

\* Someone is writing the file of p.
Together(p) == Flag("together", \E u \in Thread : /\ Writing(u)
                                                  /\ File(ProcOf[u]) = File(p))

\* The file is there: the program is made from it, whatever it holds.  A binary
\* that is not whole, or of another driver, does not build.
Load(p, t) ==
    /\ pc[t] = "load" /\ file[File(p)] # None
    /\ IF Whole(file[File(p)]) /\ file[File(p)][1].dev = dev[p]
       THEN /\ program' = [program EXCEPT ![p] = file[File(p)][1]]
            /\ Goto(t, "flag")
            /\ Slip(Together(p))
            /\ UNCHANGED <<driver, file, state, compiled, known, arg, kernel, off>>
       ELSE Fail(p, Together(p))

\* There is none: the source is compiled.
Compile(p, t) ==
    /\ pc[t] = "load" /\ file[File(p)] = None
    /\ program' = [program EXCEPT ![p] = Binary(p)]
    /\ Goto(t, "open")
    /\ UNCHANGED <<driver, file, state, compiled, known, arg, kernel, off, slips>>

\* The constructor of std::ofstream empties the file.
Open(p, t) ==
    /\ pc[t] = "open"
    /\ file' = [file EXCEPT ![File(p)] = <<>>]
    /\ off' = [off EXCEPT ![t] = 0]
    /\ Goto(t, "write")
    /\ Slip(Together(p))
    /\ UNCHANGED <<driver, state, runtime, kernel>>

\* It cannot be opened, and nobody asks: all that is written to the stream is lost.
OpenFails(p, t) ==
    /\ pc[t] = "open"
    /\ Goto(t, "flag")
    /\ Slip({"disk"})
    /\ UNCHANGED <<driver, file, state, runtime, kernel, off>>

\* f with a piece at place i; what is skipped is a hole.
Put(f, i, x) == [j \in 1 .. (IF Len(f) < i THEN i ELSE Len(f)) |->
                    IF j = i THEN x ELSE IF j <= Len(f) THEN f[j] ELSE None]

\* (Mut_: the last piece stays in the buffer; and: one piece too many.)
Mut_Written(t) == off[t] + 2 >= NChunk
Mut_WrittenLate(t) == off[t] = NChunk
Written(t) == off[t] + 1 = NChunk

Write(p, t) ==
    /\ Writing(t)
    /\ file' = [file EXCEPT ![File(p)] = Put(@, off[t] + 1, Binary(p))]
    /\ off' = [off EXCEPT ![t] = @ + 1]
    /\ Goto(t, IF Written(t) THEN "flag" ELSE "write")
    /\ UNCHANGED <<driver, state, runtime, kernel, slips>>

\* The disk is full: the rest of the file is missing, and nobody asks.
WriteFails(p, t) ==
    /\ Writing(t)
    /\ Goto(t, "flag")
    /\ Slip({"disk"})
    /\ UNCHANGED <<driver, file, state, runtime, kernel, off>>

\* The flag is set: from here on the launches of the process take the program as it
\* is.
SetFlag(p, t) ==
    /\ pc[t] = "flag"
    /\ compiled' = compiled \cup {p}
    /\ Goto(t, "names")
    /\ UNCHANGED <<driver, file, state, known, program, arg, kernel, off, slips>>

\* getKernelNames.
Kernels(p, t) ==
    /\ pc[t] = "names"
    /\ known' = known \cup {p}
    /\ Goto(t, "create")
    /\ UNCHANGED <<driver, file, state, compiled, program, arg, kernel, off, slips>>

\* CreateKernelImpl: the cl_kernel of that name, which all threads share.
Create(p, t) ==
    /\ pc[t] = "create"
    /\ IF kernel[t] \in Kernel
       THEN /\ Goto(t, "push")
            /\ UNCHANGED <<driver, file, state, runtime, kernel, off, slips>>
       ELSE Fail(p, {})

\* The cl_kernel that a thread has.  (Mut_: one for all names.)
Mut_Object(t) == CHOOSE k \in Kernel : TRUE
Object(t) == kernel[t]

PushArg(p, t) ==
    /\ pc[t] = "push"
    /\ arg' = [arg EXCEPT ![p][Object(t)] = t]
    /\ Goto(t, "enqueue")
    /\ Slip(Flag("shared", \E u \in Threads(p) :
                               pc[u] = "enqueue" /\ kernel[u] = kernel[t]))
    /\ UNCHANGED <<driver, file, state, compiled, known, program, kernel, off>>

\* LaunchKernelImpl: the kernel runs with the arguments that the object has.
LaunchKernel(p, t) ==
    /\ pc[t] = "enqueue"
    /\ Goto(t, "idle")
    /\ kernel' = [kernel EXCEPT ![t] = None] /\ off' = [off EXCEPT ![t] = 0]
    /\ UNCHANGED <<driver, file, state, runtime, slips>>

Step(p, t) == \/ \E h \in Uses[t] : Launch(p, t, h)
              \/ Check(p, t) \/ Load(p, t) \/ Compile(p, t) \/ Open(p, t)
              \/ OpenFails(p, t) \/ Write(p, t) \/ WriteFails(p, t)
              \/ SetFlag(p, t) \/ Kernels(p, t) \/ Create(p, t)
              \/ PushArg(p, t) \/ LaunchKernel(p, t)

Next == \/ \E p \in Proc : \/ \E s \in Source : Start(p, s)
                           \/ End(p)
        \/ \E t \in Thread : Step(ProcOf[t], t)
        \/ Upgrade

Spec == Init /\ [][Next]_vars

-----------------------------------------------------------------------------
Labels == {"idle", "check", "load", "open", "write", "flag", "names",
           "create", "push", "enqueue"}

\* Types: only the threads of a process that runs are in a launch, one that writes
\* has pieces left, and names are fetched when the flag is set.
TypeOK ==
    /\ driver \in 0 .. NUpgrade
    /\ file \in [Names -> {None} \cup Seq(Piece \cup {None})]
    /\ src \in [Proc -> Source] /\ dev \in [Proc -> 0 .. NUpgrade]
    /\ up \subseteq Proc /\ failed \subseteq Proc \ up /\ compiled \subseteq up
    /\ known \subseteq compiled
    /\ program \in [Proc -> Piece \cup {None}]
    /\ arg \in [Proc -> [Kernel -> Thread \cup {None}]]
    /\ pc \in [Thread -> Labels] /\ kernel \in [Thread -> HostName \cup {None}]
    /\ off \in [Thread -> 0 .. NChunk]
    /\ slips \subseteq Slips
    /\ \A t \in Thread : /\ ProcOf[t] \notin up => pc[t] = "idle"
                         /\ Writing(t) => off[t] < NChunk
                         /\ pc[t] = "names" => ProcOf[t] \in compiled

\* When nobody writes it, a file that is of one source holds one program, the
\* whole of it, even if processes wrote it at the same time.
OfOneSource(n) == \A s1, s2 \in Source : FileName(s1) = n /\ FileName(s2) = n => s1 = s2
CacheSettles ==
    slips \cap {"killed", "upgraded", "disk"} = {} =>
        \A n \in Names :
            \/ ~OfOneSource(n)
            \/ \E t \in Thread : Writing(t) /\ File(ProcOf[t]) = n
            \/ file[n] = None \/ Whole(file[n])

\* A process ends by itself only after a slip other than that threads share a kernel:
\* with names that are kernels' or near enough to one, one thread in the first launch,
\* and whole files of the same driver no launch fails.
StartsSucceed == slips \subseteq {"shared"} => failed = {}

\* A process runs the program of its own source, unless another source's hash
\* is printed alike because of a byte below 16.
Printed(s) == FlattenSeq([i \in DOMAIN s |-> IF s[i] < 16 THEN <<s[i]>>
                                             ELSE <<s[i] \div 16, s[i] % 16>>])
OwnKernels ==
    \A p \in Proc :
        /\ program[p] # None
        /\ \A s \in Source \ {src[p]} : Printed(s) # Printed(src[p])
        => program[p].src = src[p]

\* A kernel is enqueued with the arguments of the thread that enqueues it, unless
\* two threads launch the same kernel.
OwnArguments ==
    [][\A t \in Thread : pc[t] = "enqueue" /\ pc'[t] = "idle" /\ "shared" \notin slips =>
           arg[ProcOf[t]][kernel[t]] = t]_vars
=============================================================================
