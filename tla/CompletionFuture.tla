-------------------------- MODULE CompletionFuture --------------------------
(***************************************************************************)
(* completion_future (amp.h): the handle of an asynchronous operation.     *)
(* It holds a shared_future and, once then has been called, a raw pointer  *)
(* to the std::thread that waits for the operation and calls the           *)
(* continuation.  The destructor joins and deletes that thread.            *)
(*                                                                         *)
(* The thread keeps references to its completion_future and to the functor *)
(* (the lambda in then captures everything by reference), and all copies   *)
(* and moves of the object share the raw pointer.  So a client has to keep *)
(* rules that no type enforces: careful becomes FALSE with the first       *)
(* operation of UnsafeOps, and the properties are about careful clients.   *)
(* Undefined behaviour ends the run: fault says of which kind.             *)
(***************************************************************************)
EXTENDS Naturals

CONSTANTS
    Obj,       \* completion_future objects
    Op,        \* asynchronous operations
    Fun,       \* functors
    NThread,   \* bound: continuations of a run
    None       \* no operation, no thread, no object

ASSUME NoneAssumption == None \notin Obj \cup Op /\ None \notin Nat
ASSUME NThreadAssumption == NThread \in Nat

\* What the ghost variable careful forbids.
UnsafeOps == {
    "share",       \* copy, move or assign an object that has a continuation,
                   \* or assign to one
    "temporary"}   \* give up a functor before its continuation has run

Thread == 1 .. NThread

VARIABLES
    done,      \* operations that have completed
    obj,       \* obj[c]: "none", "alive" or "dead"
    future,    \* __amp_future of c: an operation, or None if not valid
    thread,    \* __thread_then of c
    heap,      \* heap[t]: "none", "alive" (not joined) or "deleted"
    body,      \* where the function of thread t is
    self, func,    \* its references: this and func
    fun,       \* fun[f]: "none", "alive" or "dead"
    host,      \* the object that the host thread destroys, or None
    fault, careful

handles == <<obj, future, thread>>
threads == <<heap, self, func>>
vars == <<done, handles, threads, body, fun, host, fault, careful>>

Init == /\ done = {}
        /\ obj = [c \in Obj |-> "none"]
        /\ future = [c \in Obj |-> None] /\ thread = [c \in Obj |-> None]
        /\ heap = [t \in Thread |-> "none"] /\ body = [t \in Thread |-> "none"]
        /\ self = [t \in Thread |-> None] /\ func = [t \in Thread |-> None]
        /\ fun = [f \in Fun |-> "none"]
        /\ host = None /\ fault = "none" /\ careful = TRUE

Alive(c) == obj[c] = "alive"
Running == fault = "none"
Host == Running /\ host = None      \* the host thread is in no destructor

\* The step is one that a careful client takes only if keeps holds.
Rule(keeps) == careful' = (careful /\ keeps)

-----------------------------------------------------------------------------
(* The client's operations, on one host thread.                            *)

\* An object with the future of o.
Constructed(c, o) ==
    /\ Host /\ obj[c] = "none"
    /\ obj' = [obj EXCEPT ![c] = "alive"]
    /\ future' = [future EXCEPT ![c] = o]
    /\ UNCHANGED <<thread, threads, body, fun, host, fault, careful>>

\* The default constructor; a call that leaves its operation to another thread
\* (synchronize_async, async_parallel_for_each); and copy_async, which waits for
\* the thread it started before it makes the object.
MakeEmpty(c) == Constructed(c, None) /\ UNCHANGED done
Make(c, o) == Constructed(c, o) /\ UNCHANGED done
MakeCopied(c, o) == o \notin done /\ Constructed(c, o) /\ done' = done \cup {o}

\* Constructor (fresh) or assignment from d: the pointer is copied by the move
\* too, and what c had before is not joined.
Transfer(c, d, fresh, move) ==
    /\ Host /\ c # d /\ Alive(d) /\ obj[c] = IF fresh THEN "none" ELSE "alive"
    /\ obj' = [obj EXCEPT ![c] = "alive"]
    /\ future' = [future EXCEPT ![c] = future[d], ![d] = IF move THEN None ELSE @]
    /\ thread' = [thread EXCEPT ![c] = thread[d]]
    /\ Rule(thread[c] = None /\ thread[d] = None)
    /\ UNCHANGED <<done, threads, body, fun, host, fault>>

\* (Definitions named Mut_ are slips that the properties must notice; no
\* action uses them.  Here: a second continuation takes the place of the first.)
Mut_MayAssign(c) == TRUE
MayAssign(c) == thread[c] = None

Then(c, f, t) ==
    /\ Host /\ Alive(c) /\ fun[f] = "alive" /\ MayAssign(c)
    /\ heap[t] = "none"
    /\ heap' = [heap EXCEPT ![t] = "alive"]
    /\ body' = [body EXCEPT ![t] = "start"]
    /\ self' = [self EXCEPT ![t] = c] /\ func' = [func EXCEPT ![t] = f]
    /\ thread' = [thread EXCEPT ![c] = t]
    /\ UNCHANGED <<done, obj, future, fun, host, fault, careful>>

NewFunctor(f) ==
    /\ Host /\ fun[f] = "none"
    /\ fun' = [fun EXCEPT ![f] = "alive"]
    /\ UNCHANGED <<done, handles, threads, body, host, fault, careful>>

DropFunctor(f) ==
    /\ Host /\ fun[f] = "alive"
    /\ fun' = [fun EXCEPT ![f] = "dead"]
    /\ Rule(\A t \in Thread : func[t] = f => body[t] = "done")
    /\ UNCHANGED <<done, handles, threads, body, host, fault>>

-----------------------------------------------------------------------------
(* The destructor.                                                         *)

Destroy(c) ==
    /\ Host /\ Alive(c)
    /\ host' = c
    /\ UNCHANGED <<done, handles, threads, body, fun, fault, careful>>

\* (Mut_: the pointer stays; and: the thread is deleted without join.)
Mut_Cleared(c) == UNCHANGED thread
Cleared(c) == thread' = [thread EXCEPT ![c] = None]
Mut_Joinable(t) == TRUE
Joinable(t) == body[t] = "done"

Destroyed(c) ==
    /\ Running /\ host = c
    /\ IF thread[c] = None THEN UNCHANGED <<heap, fault>>
       ELSE IF heap[thread[c]] = "deleted"
            THEN fault' = "thread" /\ UNCHANGED heap
            ELSE /\ Joinable(thread[c])
                 /\ heap' = [heap EXCEPT ![thread[c]] = "deleted"]
                 /\ UNCHANGED fault
    /\ Cleared(c)
    /\ obj' = [obj EXCEPT ![c] = "dead"]
    /\ host' = None
    /\ UNCHANGED <<done, future, self, func, body, fun, careful>>

-----------------------------------------------------------------------------
(* The function of the thread: wait, valid, func.                          *)

\* The step uses what the references lead to.
Step(t, from, to, uses, kind) ==
    /\ Running /\ body[t] = from
    /\ body' = [body EXCEPT ![t] = to]
    /\ fault' = IF uses = "alive" THEN fault ELSE kind
    /\ UNCHANGED <<done, handles, threads, fun, host, careful>>

Its(t) == future[self[t]]

EnterWait(t) ==
    Step(t, "start", IF Its(t) = None THEN "valid" ELSE "wait", obj[self[t]], "future")

\* wait of shared_future.  (Mut_: it does not wait; and: nobody wakes it.)
Mut_Ready(t) == TRUE
Mut_Deaf(t) == FALSE
Ready(t) == Its(t) \in done \cup {None}

LeaveWait(t) == /\ body[t] = "wait" /\ Ready(t)
                /\ Step(t, "wait", "valid", obj[self[t]], "future")

Valid(t) ==
    Step(t, "valid", IF Its(t) = None THEN "done" ELSE "call", obj[self[t]], "future")

Call(t) == Step(t, "call", "inside", fun[func[t]], "functor")
Return(t) == Step(t, "inside", "done", fun[func[t]], "functor")

BodyStep(t) == EnterWait(t) \/ LeaveWait(t) \/ Valid(t) \/ Call(t) \/ Return(t)

\* The operation on another thread, a kernel or a read back, ends.
Complete(o) ==
    /\ Running /\ o \notin done
    /\ done' = done \cup {o}
    /\ UNCHANGED <<handles, threads, body, fun, host, fault, careful>>

-----------------------------------------------------------------------------
Client == \/ \E c \in Obj : \/ MakeEmpty(c)
                            \/ \E o \in Op : Make(c, o) \/ MakeCopied(c, o)
                            \/ \E d \in Obj, fresh, move \in BOOLEAN :
                                  Transfer(c, d, fresh, move)
                            \/ \E f \in Fun, t \in Thread : Then(c, f, t)
                            \/ Destroy(c)
          \/ \E f \in Fun : NewFunctor(f) \/ DropFunctor(f)

Next == \/ Client
        \/ \E c \in Obj : Destroyed(c)
        \/ \E t \in Thread : BodyStep(t)
        \/ \E o \in Op : Complete(o)

\* The operating system runs the threads, and operations end.
Fairness == /\ \A t \in Thread : WF_vars(BodyStep(t))
            /\ \A o \in Op : WF_vars(Complete(o))
            /\ WF_vars(\E c \in Obj : Destroyed(c))

Spec == Init /\ [][Next]_vars /\ Fairness

-----------------------------------------------------------------------------
Labels == {"none", "start", "wait", "valid", "call", "inside", "done"}

\* Types: an object has a future and a thread only while it is alive.
TypeOK ==
    /\ done \subseteq Op
    /\ obj \in [Obj -> {"none", "alive", "dead"}]
    /\ future \in [Obj -> Op \cup {None}]
    /\ thread \in [Obj -> Thread \cup {None}]
    /\ heap \in [Thread -> {"none", "alive", "deleted"}]
    /\ body \in [Thread -> Labels]
    /\ self \in [Thread -> Obj \cup {None}] /\ func \in [Thread -> Fun \cup {None}]
    /\ fun \in [Fun -> {"none", "alive", "dead"}]
    /\ host \in Obj \cup {None}
    /\ fault \in {"none", "future", "functor", "thread"} /\ careful \in BOOLEAN
    /\ \A c \in Obj : thread[c] # None => Alive(c)

\* A careful client meets no undefined behaviour: the thread finds its future
\* and its functor, and no thread is joined or deleted twice.
NoFault == careful => fault = "none"

\* A thread that has not been joined is owned by one object, the one that it
\* refers to, so that it is joined before that object is gone and none leaks.
OneOwner ==
    careful => \A t \in Thread :
        {c \in Obj : thread[c] = t} = IF heap[t] = "alive" THEN {self[t]} ELSE {}

\* A continuation is called when its operation has completed, not before.
AfterOperation ==
    [][\A t \in Thread : careful' /\ body[t] = "call" /\ body'[t] = "inside" =>
           Its(t) \in done]_vars

\* A careful client gets every continuation called and every destructor ended,
\* that is, no one waits for a thread that waits for him.
Ends ==
    []careful => /\ \A t \in Thread :
                       body[t] = "start" /\ Its(t) # None ~> body[t] = "inside"
                 /\ \A c \in Obj : host = c ~> host = None
=============================================================================
