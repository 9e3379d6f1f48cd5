-------------------------- MODULE DivergencePasses --------------------------
(***************************************************************************)
(* The passes tile-uniform (TileUniform.cpp) and malloc-select             *)
(* (MallocSelect.cpp), in the order in which clamp-device runs them on a   *)
(* kernel.  The first rejects a kernel in which the items of a tile may    *)
(* part before a barrier; the second turns a call of new into one of       *)
(* malloc, because the new of new_delete.hsail waits at a barrier itself.  *)
(* Both look at the branches that the block of the call is control         *)
(* dependent on, found by ControlDependences::runOnFunction, which walks   *)
(* up LLVM's post-dominator tree.                                          *)
(*                                                                         *)
(* The blocks of a function are 1 .. NBlock in its order, 1 the entry.     *)
(* What a terminator's operands lead to is one bit of the block: divergent *)
(* if ThreadDependencyAnalyzer meets a call for an item's id.              *)
(***************************************************************************)
EXTENDS Naturals, FiniteSets, Sequences

CONSTANTS
    NBlock,      \* blocks of the function
    Barrier,     \* calls of amp_barrier
    New,         \* calls of new and new[]
    Placement,   \* where the calls are: a subset of [Barrier \cup New -> Block]
    None         \* no block

Block == 1 .. NBlock
Root == 0        \* the virtual exit: getBlock() is null there
Node == Block \cup {Root}
Call == Barrier \cup New

ASSUME NBlockAssumption == NBlock \in Nat \ {0}
ASSUME PlacementAssumption == Placement \subseteq [Call -> Block]
ASSUME CallAssumption == Barrier \cap New = {} /\ None \notin Node \cup Call

VARIABLES
    succ, divergent, place,   \* the function
    always,     \* the option that makes every new a malloc
    idom,       \* the post-dominator tree: the parent of a block
    pass,       \* "tile-uniform", "malloc-select", "replace", "done"
    uses,       \* calls the pass has not looked at
    call,       \* the call it is at, or None
    todo,       \* edges of the control flow graph that the walk has not done
    bb, sbb,    \* the walk: from bb's successor up the tree, None outside of it
    ctrlDeps,   \* CtrlDeps: block -> the blocks it depends on
    need,       \* Needmalloc
    malloc,     \* calls replaced by malloc
    rejected,   \* report_fatal_error
    fault       \* what is undefined: "none", "node", "instruction"

function == <<succ, divergent, place, always, idom>>
walk == <<todo, bb, sbb, ctrlDeps>>
vars == <<function, walk, pass, uses, call, need, malloc, rejected, fault>>

-----------------------------------------------------------------------------
(* Control flow graphs (LLVM's, external).                                 *)

\* The nodes that a walk from the nodes of S meets, S included, without
\* entering the nodes of avoid.
Reach(S, next, avoid) ==
    LET r[n \in Nat] ==
          IF n = 0 THEN S \ avoid
          ELSE LET near == r[n - 1]
               IN  near \cup ((UNION {next[x] : x \in near}) \ avoid)
    IN  r[NBlock + 1]

\* A block without successors leaves the function.
Next1(s) == [x \in Node |-> IF x = Root THEN {}
                            ELSE IF s[x] = {} THEN {Root} ELSE s[x]]

\* y is on every path from x to the exit.
PostDominates(s, y, x) == y = x \/ Root \notin Reach({x}, Next1(s), {y})
Strictly(s, x) == {y \in Node \ {x} : PostDominates(s, y, x)}

\* The nearest of the blocks that strictly post-dominate x.
Parent(s, x) == CHOOSE y \in Strictly(s, x) :
                    Strictly(s, x) = {y} \cup Strictly(s, y)

\* The functions that the passes meet: a branch has two targets, the entry has
\* no predecessor, every block is reached, and every block can leave.
Functions == {s \in [Block -> {S \in SUBSET (Block \ {1}) : Cardinality(S) <= 2}] :
                /\ Block \subseteq Reach({1}, Next1(s), {})
                /\ \A x \in Block : Root \in Reach({x}, Next1(s), {})}

Branches(s) == {x \in Block : Cardinality(s[x]) = 2}

\* The branch of c controls b, by paths: one successor of c cannot avoid b on
\* the way to the exit, while c itself can leave without coming to b (again).
Controls(c, b) == /\ \E s \in succ[c] : PostDominates(succ, b, s)
                  /\ b \notin Strictly(succ, c)

\* The branches that lead to b: those that control it, those that control
\* them, and so on.
Leading(b) == LET control == [x \in Node |-> {c \in Block : Controls(c, x)}]
              IN  Reach(control[b], control, {})

-----------------------------------------------------------------------------
Init == /\ succ \in Functions
        /\ divergent \in SUBSET Branches(succ)
        /\ place \in Placement /\ always \in BOOLEAN
        /\ idom = [x \in Block |-> Parent(succ, x)]
        /\ pass = "tile-uniform" /\ uses = Barrier /\ call = None
        /\ todo = {} /\ bb = None /\ sbb = None
        /\ ctrlDeps = [x \in Block |-> {}]
        /\ need = <<>> /\ malloc = {}
        /\ rejected = FALSE /\ fault = "none"

Running == ~rejected /\ fault = "none"

\* The next call of the pass: its function's dependences are computed anew, if the
\* pass needs them.
NextUse(c) ==
    /\ Running /\ call = None /\ c \in uses
    /\ uses' = uses \ {c} /\ call' = c
    /\ todo' = IF pass = "malloc-select" /\ always THEN {}
               ELSE {e \in Block \X Block : e[2] \in succ[e[1]]}
    /\ ctrlDeps' = [x \in Block |-> {}]
    /\ UNCHANGED <<function, pass, bb, sbb, need, malloc, rejected, fault>>

Ancestors(x) == Reach({x}, [y \in Node |-> IF y = Root THEN {} ELSE {idom[y]}], {})

\* PDT->dominates(SBB, BB), which holds of a block and itself.  (Definitions
\* named Mut_ are slips that the properties must notice; no action uses them.
\* This one swaps the blocks.)
Mut_Dominates(s, b) == b \in Ancestors(s)
Dominates(s, b) == s \in Ancestors(b)

\* The block where the walk ends: BB's parent.  (Mut_: BB itself.)
Mut_PBB(b) == b
PBB(b) == idom[b]

\* An edge of the function, in the order of the blocks.
FirstEdge == CHOOSE e \in todo : \A d \in todo :
                 e[1] < d[1] \/ (e[1] = d[1] /\ e[2] <= d[2])

Edge ==
    /\ Running /\ call # None /\ todo # {} /\ bb = None
    /\ todo' = todo \ {FirstEdge}
    /\ IF Dominates(FirstEdge[2], FirstEdge[1]) THEN UNCHANGED <<bb, sbb>>
       ELSE bb' = FirstEdge[1] /\ sbb' = FirstEdge[2]
    /\ UNCHANGED <<function, pass, uses, call, ctrlDeps, need, malloc,
                   rejected, fault>>

\* (Mut_: the block of the walk is left as it is.)
Mut_EndOfWalk == bb' = None /\ UNCHANGED sbb
EndOfWalk == bb' = None /\ sbb' = None

\* One turn of the inner loop, or its end.  The root has no parent to go to.
Up ==
    /\ Running /\ bb # None
    /\ IF sbb = PBB(bb)
       THEN EndOfWalk /\ UNCHANGED <<ctrlDeps, fault>>
       ELSE IF sbb = Root THEN fault' = "node" /\ UNCHANGED <<bb, sbb, ctrlDeps>>
       ELSE /\ ctrlDeps' = [ctrlDeps EXCEPT ![sbb] = @ \cup {bb}]
            /\ sbb' = idom[sbb]
            /\ UNCHANGED <<bb, fault>>
    /\ UNCHANGED <<function, pass, uses, call, todo, need, malloc, rejected>>

\* The branches that are analyzed for a call: those its block depends on.
Controlling(c) == ctrlDeps[place[c]]

\* ThreadDependencyAnalyzer: of these terminators, those that an item's id reaches.
IdDependent(blocks) == blocks \cap divergent

\* TileUniform::runOnModule: one of them is an error.
Judge ==
    /\ Running /\ pass = "tile-uniform"
    /\ call # None /\ todo = {} /\ bb = None
    /\ rejected' = (IdDependent(Controlling(call)) # {})
    /\ call' = None
    /\ UNCHANGED <<function, walk, pass, uses, need, malloc, fault>>

\* How often Needmalloc gets the call: for each of them.  (Mut_: for uniform
\* branches too.)
Mut_Times(c) == IF always THEN 1 ELSE Cardinality(Controlling(c))
Times(c) == IF always THEN 1 ELSE Cardinality(IdDependent(Controlling(c)))

\* MallocSelect::runOnModule, for one call.
Select ==
    /\ Running /\ pass = "malloc-select"
    /\ call # None /\ todo = {} /\ bb = None
    /\ need' = need \o [i \in 1 .. Times(call) |-> call]
    /\ call' = None
    /\ UNCHANGED <<function, walk, pass, uses, malloc, rejected, fault>>

NextPass ==
    /\ Running /\ uses = {} /\ call = None
    /\ \/ /\ pass = "tile-uniform" /\ pass' = "malloc-select" /\ uses' = New
       \/ /\ pass = "malloc-select" /\ pass' = "replace" /\ UNCHANGED uses
       \/ /\ pass = "replace" /\ need = <<>> /\ pass' = "done" /\ UNCHANGED uses
    /\ UNCHANGED <<function, walk, call, need, malloc, rejected, fault>>

\* ReplaceInstWithInst frees the call that it replaces.
Replace ==
    /\ Running /\ pass = "replace" /\ need # <<>>
    /\ LET c == need[Len(need)]
       IN  IF c \in malloc THEN fault' = "instruction" /\ UNCHANGED malloc
           ELSE malloc' = malloc \cup {c} /\ UNCHANGED fault
    /\ need' = SubSeq(need, 1, Len(need) - 1)
    /\ UNCHANGED <<function, walk, pass, uses, call, rejected>>

Next == \/ \E c \in Call : NextUse(c)
        \/ Edge \/ Up \/ Judge \/ Select \/ NextPass \/ Replace

Spec == Init /\ [][Next]_vars

-----------------------------------------------------------------------------
\* Types: the walk is at a block and a node of the tree, or nowhere.
TypeOK ==
    /\ succ \in Functions /\ divergent \subseteq Branches(succ) /\ place \in Placement
    /\ always \in BOOLEAN /\ idom \in [Block -> Node]
    /\ pass \in {"tile-uniform", "malloc-select", "replace", "done"}
    /\ uses \subseteq Call /\ call \in Call \cup {None}
    /\ todo \subseteq Block \X Block
    /\ bb \in Block \cup {None} /\ sbb \in Node \cup {None}
    /\ bb = None <=> sbb = None
    /\ ctrlDeps \in [Block -> SUBSET Block]
    /\ need \in Seq(New) /\ malloc \subseteq New
    /\ rejected \in BOOLEAN /\ fault \in {"none", "node", "instruction"}

\* The walk up the tree meets the parent of the branch: it never asks the root
\* for its parent, which is a null pointer.
WalkStopsInTree == fault # "node"

\* The divergent branches that lead to the call: at each of them some items of a
\* tile may turn to the call while others do not, or come to it more often.
Parting(c) == divergent \cap Leading(place[c])

\* The divergent branches that control the call themselves.
PartingHere(c) == {b \in divergent : Controls(b, place[c])}

\* What the passes overlook of them: the call's block that branches to itself.
SelfLoop(c) == {b \in {place[c]} : b \in succ[b]}

\* No kernel is rejected and no new replaced without a divergent branch that
\* leads to the barrier or the new, or always; and of the divergent branches that
\* control it themselves, nothing is overlooked but a block that repeats itself.
Verdict ==
    /\ rejected => \E c \in Barrier : Parting(c) # {}
    /\ pass # "tile-uniform" => \A c \in Barrier : PartingHere(c) \subseteq SelfLoop(c)
    /\ pass = "done" =>
         /\ \A c \in malloc : always \/ Parting(c) # {}
         /\ \A c \in New \ malloc : ~always /\ PartingHere(c) \subseteq SelfLoop(c)

\* What the head of TileUniform.cpp claims: all the control flow that leads to a
\* barrier of a kernel that is not rejected is uniform.  The code does not keep
\* it (MCDivergencePasses, DivergencePasses_uniform.cfg).
UniformBarriers ==
    pass # "tile-uniform" => \A c \in Barrier : Parting(c) = {}

\* No call is replaced after it is gone, if no call is controlled by two
\* divergent branches; the pass pushes it once for each.
ReplacedOnce ==
    (\A c \in New : Cardinality(PartingHere(c)) <= 1) => fault # "instruction"
=============================================================================
