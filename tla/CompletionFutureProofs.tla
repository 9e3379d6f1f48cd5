----------------------- MODULE CompletionFutureProofs -----------------------
(***************************************************************************)
(* Proofs about CompletionFuture, for any number of objects, functors,     *)
(* operations and continuations: a careful client meets no undefined       *)
(* behaviour.  The invariant says where a thread's references lead while   *)
(* the thread may still use them.                                          *)
(***************************************************************************)
EXTENDS CompletionFuture, TLAPS

\* Two objects never own the same thread, and the owner is the object that the
\* thread refers to.
Owners == \A c \in Obj, t \in Thread :
              thread[c] = t => heap[t] = "alive" /\ self[t] = c
Owned == \A t \in Thread :
             heap[t] = "alive" => self[t] \in Obj /\ thread[self[t]] = t

\* Only a thread whose function has returned is deleted.
Bodies == \A t \in Thread : /\ heap[t] = "none" <=> body[t] = "none"
                            /\ heap[t] = "deleted" => body[t] = "done"

\* Until then the functor stays.
Functors == \A t \in Thread :
                body[t] \notin {"none", "done"} =>
                    func[t] \in Fun /\ fun[func[t]] = "alive"

\* A thread that has waited finds the operation completed.
Waited == \A t \in Thread :
              /\ body[t] = "valid" => Its(t) \in done \cup {None}
              /\ body[t] = "call" => Its(t) \in done

Quiet == fault = "none"

Rules == Owners /\ Owned /\ Bodies /\ Functors /\ Waited /\ Quiet
IInv == TypeOK /\ (careful => Rules)

\* No thread, object or operation is mistaken for None.
LEMMA ThreadNotNone == None \notin Thread /\ None \notin Obj /\ None \notin Op
BY NoneAssumption, NThreadAssumption DEF Thread

\* Types hold in every state, for every client.
LEMMA InitTypeOK == Init => TypeOK
BY DEF Init, TypeOK, Labels

\* Every step keeps the types.
LEMMA NextTypeOK == TypeOK /\ [Next]_vars => TypeOK'
<1> SUFFICES ASSUME TypeOK, [Next]_vars PROVE TypeOK'
  OBVIOUS
<1> USE DEF TypeOK, Labels
<1>1. ASSUME NEW c \in Obj,
             MakeEmpty(c) \/ \E o \in Op : Make(c, o) \/ MakeCopied(c, o)
      PROVE  TypeOK'
  <2>1. ASSUME NEW o \in Op \cup {None}, Constructed(c, o), done' \subseteq Op
        PROVE  TypeOK'
    BY <2>1, SMTT(30) DEF Constructed, threads, Alive
  <2> QED BY <1>1, <2>1 DEF MakeEmpty, Make, MakeCopied
<1>2. ASSUME NEW c \in Obj, NEW d \in Obj, NEW fresh \in BOOLEAN,
             NEW move \in BOOLEAN, Transfer(c, d, fresh, move)
      PROVE TypeOK'
  BY <1>2, SMTT(30) DEF Transfer, threads, Alive, Rule
<1>3. ASSUME NEW c \in Obj, NEW f \in Fun, NEW t \in Thread, Then(c, f, t)
      PROVE TypeOK'
  BY <1>3, SMTT(30) DEF Then, Alive
<1>4. ASSUME NEW c \in Obj, Destroy(c) PROVE TypeOK'
  BY <1>4 DEF Destroy, handles, threads, Alive
<1>5. ASSUME NEW f \in Fun, NewFunctor(f) \/ DropFunctor(f) PROVE TypeOK'
  BY <1>5 DEF NewFunctor, DropFunctor, handles, threads, Alive, Rule
<1>6. ASSUME NEW c \in Obj, Destroyed(c) PROVE TypeOK'
  BY <1>6, ThreadNotNone, SMTT(30) DEF Destroyed, Cleared, Alive
<1>7. ASSUME NEW t \in Thread, BodyStep(t) PROVE TypeOK'
  BY <1>7, SMTT(30) DEF BodyStep, EnterWait, LeaveWait, Valid, Call, Return, Step,
              handles, threads, Alive
<1>8. ASSUME NEW o \in Op, Complete(o) PROVE TypeOK'
  BY <1>8 DEF Complete, handles, threads, Alive
<1>9. CASE UNCHANGED vars
  BY <1>9 DEF vars, handles, threads, Alive
<1> QED
  BY <1>1, <1>2, <1>3, <1>4, <1>5, <1>6, <1>7, <1>8, <1>9 DEF Next, Client

\* Types: objects have a thread only while they are alive.
THEOREM Typing == Spec => []TypeOK
<1> QED
  BY InitTypeOK, NextTypeOK, PTL DEF Spec

-----------------------------------------------------------------------------
\* The rules hold while nothing has been made.
LEMMA InitRules == Init => Rules
BY ThreadNotNone DEF Init, Rules, Owners, Owned, Bodies, Functors, Waited, Quiet

\* The steps keep what a careful client relies on.  A step that the client is
\* not careful in has nothing to keep.
LEMMA MakeRules ==
  ASSUME TypeOK, careful => Rules, NEW c \in Obj, NEW o \in Op \cup {None},
         Constructed(c, o), done \subseteq done'
  PROVE  careful' => Rules'
<1> SUFFICES ASSUME careful PROVE Rules'
  BY DEF Constructed
<1>1. \A t \in Thread : heap[t] = "alive" => self[t] # c
  BY ThreadNotNone DEF Constructed, TypeOK, Rules, Owned, Alive
<1>2. \A t \in Thread : body[t] \in {"valid", "call"} => Its(t)' = Its(t)
  BY <1>1 DEF Constructed, TypeOK, Rules, Owned, Bodies, Its, threads
<1>3. Waited'
  BY <1>2 DEF Constructed, Rules, Waited
<1> QED
  BY <1>3 DEF Constructed, Rules, Owners, Owned, Bodies, Functors, Quiet, threads

\* A copy or a move of a future keeps the rules.
LEMMA TransferRules ==
  ASSUME TypeOK, careful => Rules, NEW c \in Obj, NEW d \in Obj,
         NEW fresh \in BOOLEAN, NEW move \in BOOLEAN, Transfer(c, d, fresh, move)
  PROVE  careful' => Rules'
<1> SUFFICES ASSUME careful' PROVE Rules'
  OBVIOUS
<1>1. careful /\ Rules /\ thread[c] = None /\ thread[d] = None
  BY DEF Transfer, Rule
<1>2. thread' = thread
  BY <1>1 DEF Transfer, TypeOK
<1>3. \A t \in Thread : heap[t] = "alive" => self[t] # c /\ self[t] # d
  BY <1>1, ThreadNotNone DEF Rules, Owned
<1>4. \A t \in Thread : body[t] \in {"valid", "call"} => Its(t)' = Its(t)
  BY <1>1, <1>3 DEF Transfer, TypeOK, Rules, Owned, Bodies, Its, threads
<1>5. Waited'
  BY <1>1, <1>4 DEF Transfer, Rules, Waited
<1> QED
  BY <1>1, <1>2, <1>5 DEF Transfer, Rules, Owners, Owned, Bodies, Functors, Quiet, threads

\* then() keeps the rules: the functor is owned by the new thread alone.
LEMMA ThenRules ==
  ASSUME TypeOK, careful => Rules, NEW c \in Obj, NEW f \in Fun, NEW t \in Thread,
         Then(c, f, t)
  PROVE  careful' => Rules'
<1> SUFFICES ASSUME careful PROVE Rules'
  BY DEF Then
<1>1. /\ thread[c] = None /\ heap[t] = "none" /\ fun[f] = "alive"
      /\ heap' = [heap EXCEPT ![t] = "alive"] /\ body' = [body EXCEPT ![t] = "start"]
      /\ self' = [self EXCEPT ![t] = c] /\ func' = [func EXCEPT ![t] = f]
      /\ thread' = [thread EXCEPT ![c] = t]
      /\ future' = future /\ done' = done /\ fun' = fun /\ fault' = fault
  BY DEF Then, MayAssign
<1>2. Owners'
  BY <1>1, ThreadNotNone DEF TypeOK, Rules, Owners
<1>3. Owned'
  BY <1>1, ThreadNotNone DEF TypeOK, Rules, Owned
<1>4. Bodies' /\ Functors'
  BY <1>1 DEF TypeOK, Rules, Bodies, Functors
<1>5. Waited'
  BY <1>1 DEF TypeOK, Rules, Waited, Its
<1> QED
  BY <1>1, <1>2, <1>3, <1>4, <1>5 DEF Rules, Quiet

\* Making or dropping a functor keeps the rules.
LEMMA DropRules ==
  ASSUME TypeOK, careful => Rules, NEW f \in Fun, NewFunctor(f) \/ DropFunctor(f)
  PROVE  careful' => Rules'
<1> SUFFICES ASSUME careful' PROVE Rules'
  OBVIOUS
<1>1. careful /\ Rules
  BY DEF NewFunctor, DropFunctor, Rule
<1>2. Functors'
  <2>1. CASE NewFunctor(f)
    BY <1>1, <2>1 DEF NewFunctor, TypeOK, Rules, Functors, threads
  <2>2. CASE DropFunctor(f)
    BY <1>1, <2>2 DEF DropFunctor, Rule, TypeOK, Rules, Functors, threads
  <2> QED BY <2>1, <2>2
<1>3. /\ thread' = thread /\ future' = future /\ heap' = heap /\ self' = self
      /\ body' = body /\ done' = done /\ fault' = fault
  BY DEF NewFunctor, DropFunctor, handles, threads
<1>4. Owners' /\ Owned' /\ Bodies' /\ Quiet'
  BY <1>1, <1>3 DEF Rules, Owners, Owned, Bodies, Quiet
<1>5. Waited'
  BY <1>1, <1>3 DEF Rules, Waited, Its
<1> QED
  BY <1>2, <1>4, <1>5 DEF Rules

\* The destructor keeps the rules: it joins before it deletes.
LEMMA DestroyedRules ==
  ASSUME TypeOK, careful => Rules, NEW c \in Obj, Destroyed(c)
  PROVE  careful' => Rules'
<1> SUFFICES ASSUME careful PROVE Rules'
  BY DEF Destroyed
<1>1. /\ thread' = [thread EXCEPT ![c] = None] /\ self' = self /\ func' = func
      /\ body' = body /\ fun' = fun /\ future' = future /\ done' = done
  BY DEF Destroyed, Cleared
<1>2. CASE thread[c] = None
  <2>1. heap' = heap /\ fault' = fault /\ thread' = thread
    BY <1>1, <1>2 DEF Destroyed, TypeOK
  <2> QED
    BY <1>1, <2>1 DEF Rules, Owners, Owned, Bodies, Functors, Waited, Its, Quiet
<1>3. ASSUME NEW t \in Thread, thread[c] = t PROVE Rules'
  <2>1. heap[t] = "alive" /\ self[t] = c
    BY <1>3 DEF Rules, Owners
  <2>2. heap' = [heap EXCEPT ![t] = "deleted"] /\ fault' = fault /\ body[t] = "done"
    BY <1>3, <2>1, ThreadNotNone DEF Destroyed, Joinable
  <2>3. Owners' /\ Owned'
    BY <1>1, <1>3, <2>1, <2>2, ThreadNotNone DEF TypeOK, Rules, Owners, Owned
  <2>4. Bodies' /\ Functors' /\ Waited' /\ Quiet'
    BY <1>1, <2>1, <2>2 DEF TypeOK, Rules, Bodies, Functors, Waited, Its, Quiet
  <2> QED BY <2>3, <2>4 DEF Rules
<1>4. thread[c] \in Thread \cup {None}
  BY DEF TypeOK
<1> QED
  BY <1>2, <1>3, <1>4

\* A step of a continuation keeps the rules.
LEMMA BodyRules ==
  ASSUME TypeOK, careful => Rules, NEW t \in Thread, BodyStep(t)
  PROVE  careful' => Rules'
<1> SUFFICES ASSUME careful PROVE Rules'
  BY DEF BodyStep, EnterWait, LeaveWait, Valid, Call, Return, Step
<1>1. UNCHANGED <<done, obj, future, thread, heap, self, func, fun>>
  BY DEF BodyStep, EnterWait, LeaveWait, Valid, Call, Return, Step, handles, threads
<1>2. heap[t] = "alive"
  BY DEF BodyStep, EnterWait, LeaveWait, Valid, Call, Return, Step, TypeOK, Rules, Bodies
<1>3. obj[self[t]] = "alive" /\ fun[func[t]] = "alive"
  <2>1. self[t] \in Obj /\ thread[self[t]] # None
    BY <1>2, ThreadNotNone DEF Rules, Owned
  <2>2. body[t] \notin {"none", "done"}
    BY DEF BodyStep, EnterWait, LeaveWait, Valid, Call, Return, Step
  <2> QED BY <2>1, <2>2 DEF TypeOK, Alive, Rules, Functors
<1>4. fault' = fault
  BY <1>3 DEF BodyStep, EnterWait, LeaveWait, Valid, Call, Return, Step
<1>5. PICK l \in Labels : body' = [body EXCEPT ![t] = l] /\ l # "none"
  BY DEF BodyStep, EnterWait, LeaveWait, Valid, Call, Return, Step, Labels
<1>6. /\ body'[t] = "valid" => Its(t) \in done \cup {None}
      /\ body'[t] = "call" => Its(t) \in done
  BY <1>5 DEF BodyStep, EnterWait, LeaveWait, Valid, Call, Return, Step, Ready,
              TypeOK, Rules, Waited
<1>7. Bodies' /\ Functors'
  <2>1. body[t] \notin {"none", "done"}
    BY DEF BodyStep, EnterWait, LeaveWait, Valid, Call, Return, Step
  <2> QED BY <1>1, <1>2, <1>5, <2>1 DEF TypeOK, Rules, Bodies, Functors
<1>8. Waited'
  BY <1>1, <1>5, <1>6 DEF TypeOK, Rules, Waited, Its
<1> QED
  BY <1>1, <1>4, <1>7, <1>8 DEF Rules, Owners, Owned, Quiet

\* The invariant is inductive.
LEMMA NextInv == IInv /\ [Next]_vars => IInv'
<1> SUFFICES ASSUME IInv, [Next]_vars PROVE careful' => Rules'
  BY NextTypeOK DEF IInv
<1> USE DEF IInv
<1>1. ASSUME NEW c \in Obj, Destroy(c) PROVE careful' => Rules'
  BY <1>1 DEF Destroy, handles, threads, Rules, Owners, Owned, Bodies, Functors,
              Waited, Its, Quiet
<1>2. ASSUME NEW o \in Op, Complete(o) PROVE careful' => Rules'
  BY <1>2 DEF Complete, handles, threads, Rules, Owners, Owned, Bodies, Functors,
              Waited, Its, Quiet
<1>4. ASSUME NEW c \in Obj,
             MakeEmpty(c) \/ \E o \in Op : Make(c, o) \/ MakeCopied(c, o)
      PROVE  careful' => Rules'
  BY <1>4, MakeRules DEF MakeEmpty, Make, MakeCopied
<1>3. CASE UNCHANGED vars
  BY <1>3 DEF vars, handles, threads, Rules, Owners, Owned, Bodies, Functors,
              Waited, Its, Quiet
<1> QED
  BY <1>1, <1>2, <1>3, <1>4, TransferRules, ThenRules, DropRules,
     DestroyedRules, BodyRules DEF Next, Client

\* Hence it always holds.
LEMMA Always == Spec => []IInv
<1>1. Init => IInv
  BY InitTypeOK, InitRules DEF IInv
<1> QED
  BY <1>1, NextInv, PTL DEF Spec

-----------------------------------------------------------------------------
\* No careful client meets undefined behaviour.
THEOREM CarefulClientsAreSafe == Spec => []NoFault
<1>1. IInv => NoFault
  BY DEF IInv, Rules, Quiet, NoFault
<1> QED
  BY <1>1, Always, PTL

\* Every thread that is not joined yet has one owner, every other has none.
THEOREM ThreadsHaveOneOwner == Spec => []OneOwner
<1>1. IInv => OneOwner
  <2> SUFFICES ASSUME IInv, careful, NEW t \in Thread
               PROVE {c \in Obj : thread[c] = t} =
                     IF heap[t] = "alive" THEN {self[t]} ELSE {}
    BY DEF OneOwner
  <2> QED BY DEF IInv, Rules, Owners, Owned
<1> QED
  BY <1>1, Always, PTL

\* A continuation is called only when its operation has completed.
THEOREM CalledAfterOperation == Spec => AfterOperation
<1>1. IInv /\ [Next]_vars =>
        [\A t \in Thread : careful' /\ body[t] = "call" /\ body'[t] = "inside" =>
             Its(t) \in done]_vars
  <2> SUFFICES ASSUME IInv, [Next]_vars, NEW t \in Thread, careful', body[t] = "call"
               PROVE  careful
    BY DEF IInv, Rules, Waited
  <2>1. careful' => careful
    BY DEF IInv, TypeOK, Next, Client, MakeEmpty, Make, MakeCopied, Constructed,
           Transfer, Then, Destroy, NewFunctor,
           DropFunctor, Destroyed, BodyStep, EnterWait, LeaveWait, Valid, Call,
           Return, Step, Complete, Rule, vars
  <2> QED BY <2>1
<1> QED
  BY <1>1, Always, PTL DEF Spec, AfterOperation
=============================================================================
