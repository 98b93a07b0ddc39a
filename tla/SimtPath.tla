------------------------------ MODULE SimtPath ------------------------------
(***************************************************************************)
(* The path of one lane through the function DivergencePass returns, with  *)
(* the SIMT stack as its instructions drive it: SSY pushes the             *)
(* reconvergence point, SYNC pops (enum Opcode, include/FpgaGpu.h).        *)
(*                                                                         *)
(* Whatever the hardware does with the lanes that wait, the SYNC a lane    *)
(* comes to must belong to the SSY on top of the stack: that is what lets  *)
(* lanes that went different ways meet again.  The hardware is external to *)
(* the repository.                                                         *)
(***************************************************************************)
EXTENDS DivergencePass

CONSTANT MaxStack   \* paths are followed until the stack is this deep

ASSUME MaxStackAssumption == MaxStack \in Nat

VARIABLES
  at,     \* the block the lane is about to execute
  stack   \* the SIMT stack, its top first

laneVars == <<at, stack>>

PathInit == Init /\ at = 1 /\ stack = <<>>

Compile == Next /\ UNCHANGED laneVars

\* A block of the function, and at its end the SSY, if one was inserted, and
\* the terminator.
RunBlock ==
  /\ Done
  /\ ~IsSync(at)
  /\ Len(stack) < MaxStack
  /\ \E i \in 1..Len(succ[at]) : at' = succ[at][i]
  /\ stack' = IF at \in DOMAIN ssy THEN <<ssy[at]>> \o stack ELSE stack
  /\ UNCHANGED vars

\* A SYNC block: SYNC, then BR to its only successor.
RunSync ==
  /\ Done
  /\ IsSync(at)
  /\ stack # <<>>
  /\ stack' = Tail(stack)
  /\ at' = succ[at][1]
  /\ UNCHANGED vars

PathNext == Compile \/ RunBlock \/ RunSync

PathSpec == PathInit /\ [][PathNext]_<<vars, laneVars>>

-----------------------------------------------------------------------------
(* The functions the scheme is meant for.                                  *)

\* No block is its own proper successor along any path.
Acyclic == \A b \in Blocks : \A c \in SuccessorsOf(b) : ~Path(c, b, {})

\* No two branches, dead ones included, reconverge at the same block, and an
\* edge that can be reached from a branch and enters its reconvergence point
\* starts at a block the branch dominates.
WellNested ==
  /\ Acyclic
  /\ \A b, c \in Branches :
       ImmediatePostDominator(b) = ImmediatePostDominator(c)
         => b = c \/ ImmediatePostDominator(b) = None
  /\ \A b \in Branches, p \in Blocks : InTree(b) =>
       (ImmediatePostDominator(b) \in SuccessorsOf(p) /\ Path(b, p, {})
         => Dominates(b, p))

\* What SYNC is for: the lane pops the entry that its own SSY pushed, the one
\* for the point the SYNC block then branches to.
SyncPopsOwnSsy ==
  Done /\ IsSync(at) => stack # <<>> /\ Head(stack) = dest[at]

\* A lane that returns leaves nothing on the stack.
BalancedAtReturn == Done /\ succ[at] = <<>> => stack = <<>>

\* Both hold along every path of a well-nested function without loops.
WellNestedReconverges == ~(SyncPopsOwnSsy /\ BalancedAtReturn) => ~WellNested

=============================================================================
