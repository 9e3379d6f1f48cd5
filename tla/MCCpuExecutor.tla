--------------------------- MODULE MCCpuExecutor ---------------------------
(* Small instances of CpuExecutor, with the atomic operations of            *)
(* CpuAtomics, for TLC; the cfg files give the sizes.                       *)
EXTENDS CpuAtomics, TLC

Call(f, c, v) == [fn |-> f, cell |-> c, val |-> v]
Kernel(calls) == [s \in Segment |-> IF s \in DOMAIN calls THEN calls[s] ELSE NoCall]

MCCell == {"a", "b"}
MCCellType == [c \in MCCell |-> IF c = "a" THEN "unsigned" ELSE "int"]

\* Two items count in a cell; two raise another; and one item raises a cell that
\* another counts in.
MCKernels ==
    {Kernel(<<1, 0>> :> Call("inc", "a", 0) @@ <<2, 1>> :> Call("inc", "a", 0)),
     Kernel(<<3, 0>> :> Call("max", "b", 1) @@ <<1, 2>> :> Call("max", "b", 2)),
     Kernel(<<1, 0>> :> Call("max", "b", 1) @@ <<2, 1>> :> Call("inc", "b", 0))}

\* Without barriers and without calls.
MCNoCalls == {Kernel(<<>>)}
=============================================================================
