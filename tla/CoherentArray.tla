--------------------------- MODULE CoherentArray ---------------------------
(***************************************************************************)
(* What an array or array_view promises its user, with no copies in sight: *)
(* each buffer is one memory that host code and kernels read and write.    *)
(* Content can be lost only where the program gives it up: discard_data,   *)
(* or the end of a buffer the runtime allocated itself.  A write to a lost *)
(* buffer makes its content count again.                                   *)
(*                                                                         *)
(* io is the interface: the access the last step performed, with the       *)
(* elements it stored or obtained.  A step that performs no access is      *)
(* Silent there, and may then change no content that is not lost.          *)
(***************************************************************************)
CONSTANTS Buf,   \* buffers, identified by their host pointer
          Cell,  \* the elements of a buffer
          Val    \* what an element holds

VARIABLES mem,   \* mem[b][c]: the one content of element c of buffer b
          lost,  \* lost[b]: the content of b was given up
          io     \* the access of the last step

vars == <<mem, lost, io>>

Content == [Cell -> Val]

\* Some elements with a value each.
Elems == UNION {[S -> Val] : S \in (SUBSET Cell) \ {{}}}

Silent == [op |-> "silent"]
Access(op, b, e) == [op |-> op, buf |-> b, elems |-> e]

\* The content f with the elements e stored into it.
Overlay(f, e) == [c \in Cell |-> IF c \in DOMAIN e THEN e[c] ELSE f[c]]

Init == /\ mem \in [Buf -> Content]
        /\ lost \in [Buf -> BOOLEAN]
        /\ io = Silent

\* Host code or a kernel stores the elements e of b.
Write(b, e) == /\ io' = Access("write", b, e)
               /\ mem' = [mem EXCEPT ![b] = Overlay(mem[b], e)]
               /\ lost' = [lost EXCEPT ![b] = FALSE]

\* Host code obtains elements of b, each with its current value.
Read(b, e) == /\ io' = Access("read", b, e)
              /\ \A c \in DOMAIN e : e[c] = mem[b][c]
              /\ UNCHANGED <<mem, lost>>

\* The content of b is given up and may be anything from now on.
Lose(b) == /\ io' = Silent
           /\ ~lost[b] /\ lost' = [lost EXCEPT ![b] = TRUE]
           /\ \E f \in Content : mem' = [mem EXCEPT ![b] = f]

\* What was lost counts again, whatever it now is: a kernel is launched on
\* discarded buffers, or an address is allocated anew.  With S = {} this is
\* any step that keeps all contents.
Settle(S) == /\ io' = Silent
             /\ \A b \in S : lost[b]
             /\ lost' = [b \in Buf |-> lost[b] /\ b \notin S]
             /\ \E g \in [S -> Content] :
                   mem' = [b \in Buf |-> IF b \in S THEN g[b] ELSE mem[b]]

Next == \/ \E b \in Buf, e \in Elems : Write(b, e) \/ Read(b, e)
        \/ \E b \in Buf : Lose(b)
        \/ \E S \in SUBSET Buf : Settle(S)

Spec == Init /\ [][Next]_vars
=============================================================================
