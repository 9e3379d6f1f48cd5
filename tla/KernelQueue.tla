---------------------------- MODULE KernelQueue ----------------------------
(***************************************************************************)
(* What the launching side may rely on: kernels that were submitted run    *)
(* one at a time, in the order of their submission and once each, and a    *)
(* launch is reported as complete only after its kernel has run.           *)
(***************************************************************************)
EXTENDS Naturals, Sequences

CONSTANT Launch      \* the launches of a program

VARIABLES
    waiting,     \* submitted kernels that have not started, in order
    executing,   \* the set of kernels that run: one at most
    finished,    \* kernels that have run
    reported     \* launches whose caller, or future, has been told so

vars == <<waiting, executing, finished, reported>>

Init == waiting = <<>> /\ executing = {} /\ finished = {} /\ reported = {}

Known == {waiting[i] : i \in DOMAIN waiting} \cup executing \cup finished

Submit(d) == /\ d \notin Known
             /\ waiting' = Append(waiting, d)
             /\ UNCHANGED <<executing, finished, reported>>

Start == /\ waiting # <<>> /\ executing = {}
         /\ executing' = {Head(waiting)} /\ waiting' = Tail(waiting)
         /\ UNCHANGED <<finished, reported>>

Finish(d) == /\ d \in executing
             /\ executing' = executing \ {d} /\ finished' = finished \cup {d}
             /\ UNCHANGED <<waiting, reported>>

Report(d) == /\ d \in finished \ reported
             /\ reported' = reported \cup {d}
             /\ UNCHANGED <<waiting, executing, finished>>

Next == Start \/ \E d \in Launch : Submit(d) \/ Finish(d) \/ Report(d)

Spec == Init /\ [][Next]_vars
=============================================================================
