--------------------------- MODULE MCOpenCLKernels ---------------------------
(* Small instances of OpenCLKernels for TLC. *)
EXTENDS OpenCLKernels
CONSTANTS p1, p2, a, b, c, k1, k2, m, far, long
Procs == {p1, p2}
S1 == <<17, 33>>
S2 == <<17, 2>>
Sources == {S1, S2}
SrcOf == p1 :> {S1} @@ p2 :> {S1, S2}
Threads1 == {a, b, c}
ProcOfThread == a :> p1 @@ b :> p1 @@ c :> p2
Kernels1 == {k1, k2}
HostNames == {k1, k2, m, far, long}
UsesOf == a :> {k1} @@ b :> {k1, k2} @@ c :> {k1, m, far, long}
\* m is near k1 and k2; far is near nothing; k1 copied over long leaves a tail.
Distances == [h \in HostNames |-> [k \in Kernels1 |->
                CASE h = k -> 0
                  [] h = far -> 5
                  [] h = long /\ k = k2 -> 2
                  [] OTHER -> 1]]
Copies == [h \in HostNames |-> [k \in Kernels1 |-> IF h = long THEN far ELSE k]]
=============================================================================
