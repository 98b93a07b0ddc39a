--------------------------- MODULE DivergencePass ---------------------------
(***************************************************************************)
(* runDivergencePass (src/FpgaGpuBackend.cpp): for every conditional       *)
(* branch that has an immediate post-dominator (IPD), an SSY of that block *)
(* is put before the branch, and every edge that enters the IPD from a     *)
(* block the branch dominates is sent through a new block that holds a     *)
(* SYNC.                                                                   *)
(*                                                                         *)
(* A function is its control-flow graph: a sequence with, for each basic   *)
(* block in textual order, the sequence of its successors (none for ret,   *)
(* one for br, two for a conditional br).  Block 1 is the entry.  The      *)
(* blocks the pass creates are appended, as BasicBlock::Create does.       *)
(*                                                                         *)
(* Both dominator trees are computed once, before the first change, and    *)
(* are asked about the changed function: here they are operators on        *)
(* "original", which the pass never updates.                               *)
(***************************************************************************)
EXTENDS Integers, Sequences, FiniteSets

CONSTANT Cfgs   \* the functions the pass may be given

\* Blocks are successors of each other, nothing branches back to the entry,
\* and switch terminators, which the back end does not select, are absent.
IsCfg(g) ==
  /\ g \in Seq(Seq(Nat))
  /\ g # <<>>
  /\ \A b \in 1..Len(g) : /\ Len(g[b]) <= 2
                          /\ \A i \in 1..Len(g[b]) : g[b][i] \in 2..Len(g)

ASSUME CfgsAssumption == \A g \in Cfgs : IsCfg(g)

VARIABLES
  original,  \* the function as it was when the trees were computed
  succ,      \* the function now
  ssy,       \* branch block -> the block named by the SSY before its branch
  dest,      \* SYNC block -> the IPD it was created to branch to
  todo,      \* condBranches, the blocks not visited yet
  ipd,       \* the IPD of the branch being visited
  preds      \* predecessor of ipd to be handled -> how many times it is listed

vars == <<original, succ, ssy, dest, todo, ipd, preds>>

-----------------------------------------------------------------------------
(* The dominator trees (external: llvm::DominatorTree, PostDominatorTree). *)

None == 0

Blocks == 1..Len(original)
SuccessorsOf(b) == {original[b][i] : i \in 1..Len(original[b])}
Returns == {b \in Blocks : original[b] = <<>>}

\* A path of the original function leads from x to y and enters no block of
\* the set avoid: y is in every set that contains x and is closed under
\* successors.
Path(x, y, avoid) ==
  \A S \in SUBSET (Blocks \ avoid) :
    x \in S /\ (\A b \in S : SuccessorsOf(b) \ avoid \subseteq S) => y \in S

InTree(b) == b \in Blocks /\ Path(1, b, {})

\* DominatorTree::dominates.  A block without a node in the tree (not
\* reachable when it was built, or not there yet) is dominated by anything
\* and dominates only itself.
Dominates(a, b) ==
  \/ a = b
  \/ ~InTree(b)
  \/ InTree(a) /\ (a = 1 \/ ~Path(1, b, {a}))

StrictlyPostDominates(p, b) ==
  p # b /\ \A r \in Returns : r # p => ~Path(b, r, {p})

\* node->getIDom()->getBlock() in the post-dominator tree: the nearest of the
\* strict post-dominators, or no block when only the virtual root is left.
ImmediatePostDominator(b) ==
  LET strict == {p \in Blocks : StrictlyPostDominates(p, b)}
      nearest == {p \in strict : \A q \in strict \ {p} : StrictlyPostDominates(q, p)}
  IN  IF nearest = {} THEN None ELSE CHOOSE p \in nearest : TRUE

-----------------------------------------------------------------------------
NoMap == [b \in {} |-> 0]

SlotsInto(p, t) == {i \in 1..Len(succ[p]) : succ[p][i] = t}

\* llvm::predecessors(t) lists a block once for every edge it has into t.
PredecessorsOf(t) == {p \in 1..Len(succ) : SlotsInto(p, t) # {}}

IsConditional(b) == Len(succ[b]) = 2

\* The visit selects every predecessor, whoever dominates it.
SelectedFaulty(b, t) == [p \in PredecessorsOf(t) |-> Cardinality(SlotsInto(p, t))]

\* The predecessors of t that the tree says b dominates, with multiplicity.
Selected(b, t) ==
  [p \in {q \in PredecessorsOf(t) : Dominates(b, q)} |-> Cardinality(SlotsInto(p, t))]

Init ==
  /\ original \in Cfgs
  /\ succ = original
  /\ ssy = NoMap
  /\ dest = NoMap
  /\ todo = {b \in Blocks : IsConditional(b)}
  /\ ipd = None
  /\ preds = NoMap

Idle == \A p \in DOMAIN preds : preds[p] = 0

\* The visits are made in textual order, each after the last is complete.
IsNext(b) == Idle /\ b \in todo /\ \A c \in todo : b <= c

\* A branch without a reconvergence point is left alone.
SkipBranch(b) ==
  /\ IsNext(b)
  /\ ImmediatePostDominator(b) = None
  /\ todo' = todo \ {b}
  /\ UNCHANGED <<original, succ, ssy, dest, ipd, preds>>

\* A visit without the early continue: the SSY names no block.
VisitBranchFaulty(b) ==
  /\ IsNext(b)
  /\ LET t == ImmediatePostDominator(b)
     IN  /\ ssy' = [x \in DOMAIN ssy \cup {b} |-> IF x = b THEN t ELSE ssy[x]]
         /\ ipd' = t
         /\ preds' = Selected(b, t)
  /\ todo' = todo \ {b}
  /\ UNCHANGED <<original, succ, dest>>

\* Insert the SSY and list the predecessors of the IPD, as they are now.
VisitBranch(b) ==
  /\ IsNext(b)
  /\ LET t == ImmediatePostDominator(b)
     IN  /\ t # None
         /\ ssy' = [x \in DOMAIN ssy \cup {b} |-> IF x = b THEN t ELSE ssy[x]]
         /\ ipd' = t
         /\ preds' = Selected(b, t)
  /\ todo' = todo \ {b}
  /\ UNCHANGED <<original, succ, dest>>

\* Redirecting every successor, wherever it leads.
RedirectedAll(p, s) == [i \in 1..Len(succ[p]) |-> s]

\* Redirecting only the first successor.
RedirectedFirst(p, s) ==
  [i \in 1..Len(succ[p]) |-> IF succ[p][i] = ipd /\ i = 1 THEN s ELSE succ[p][i]]

\* Every slot of p's terminator that is the IPD becomes the new block.
Redirected(p, s) ==
  [i \in 1..Len(succ[p]) |-> IF succ[p][i] = ipd THEN s ELSE succ[p][i]]

\* One listed predecessor: create its SYNC block and redirect it.  LLVM lists
\* the predecessors in the order of its use lists, which decides only how the
\* new blocks are numbered; here the smallest comes first.
SplitEdge(p) ==
  /\ p \in DOMAIN preds
  /\ preds[p] > 0
  /\ \A q \in DOMAIN preds : preds[q] > 0 => p <= q
  /\ LET s == Len(succ) + 1
     IN  /\ succ' = Append([succ EXCEPT ![p] = Redirected(p, s)], <<ipd>>)
         /\ dest' = [x \in DOMAIN dest \cup {s} |-> IF x = s THEN ipd ELSE dest[x]]
  /\ preds' = [preds EXCEPT ![p] = @ - 1]
  /\ UNCHANGED <<original, ssy, todo, ipd>>

Next ==
  \/ \E b \in todo : SkipBranch(b) \/ VisitBranch(b)
  \/ \E p \in DOMAIN preds : SplitEdge(p)

Done == Idle /\ todo = {}

Spec == Init /\ [][Next]_vars

-----------------------------------------------------------------------------
(* Correctness.                                                            *)

IsSync(x) == x > Len(original)

Branches == {b \in Blocks : Len(original[b]) = 2}

TypeOK ==
  /\ IsCfg(original)
  /\ succ \in Seq(Seq(1..Len(succ)))
  /\ DOMAIN ssy \subseteq Blocks
  /\ \A b \in DOMAIN ssy : ssy[b] \in Blocks
  /\ DOMAIN dest = Len(original) + 1 .. Len(succ)
  /\ \A s \in DOMAIN dest : dest[s] \in Blocks
  /\ ipd \in Blocks \cup {None}
  /\ \A p \in DOMAIN preds : p \in 1..Len(succ) /\ preds[p] \in 0..2

\* Where an edge into x leads once the SYNC blocks have been passed.
Destination(x) == IF IsSync(x) THEN dest[x] ELSE x

\* The pass changes where SYNCs stand and nothing else: at every moment each
\* terminator still leads, slot by slot, to the block it led to originally,
\* and the SYNC blocks in between form chains without a cycle.
FlowPreserved ==
  /\ \A b \in Blocks : /\ Len(succ[b]) = Len(original[b])
                       /\ \A i \in 1..Len(original[b]) :
                            Destination(succ[b][i]) = original[b][i]
  /\ \A s \in DOMAIN dest : /\ Len(succ[s]) = 1
                            /\ Destination(succ[s][1]) = dest[s]
                            /\ IsSync(succ[s][1]) => succ[s][1] > s

\* When the pass is done, no edge from a block that a branch dominates enters
\* the reconvergence point of that branch without a SYNC.
RegionsSynced ==
  Done =>
    \A b \in DOMAIN ssy, p \in Blocks :
      Dominates(b, p) => ssy[b] \notin {succ[p][i] : i \in 1..Len(succ[p])}

=============================================================================
