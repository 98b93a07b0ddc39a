----------------------------- MODULE MCSimtPath -----------------------------
(* Every function of five blocks whose branches go forward in the text, and  *)
(* every function of three blocks, provided each block can reach a return.   *)
EXTENDS SimtPath

MCMaxStack == 4

\* The terminators with targets from a set; the two sides of a branch are
\* interchangeable, so a conditional one is listed one way round.
Terminators(targets) ==
  {<<>>} \cup {<<t>> : t \in targets}
         \cup {p \in targets \X targets : p[1] <= p[2]}

ForwardCfgs ==
  {<<a, b, c, d, <<>> >> : a \in Terminators(2..5), b \in Terminators(3..5),
                           c \in Terminators(4..5), d \in Terminators(5..5)}

SmallCfgs == {<<a, b, c>> : a, b, c \in Terminators(2..3)}

\* b is in every set that contains a and is closed under successors.
Reaches(g, a, b) ==
  \A S \in SUBSET (1..Len(g)) :
    a \in S /\ (\A x \in S : \A i \in 1..Len(g[x]) : g[x][i] \in S) => b \in S

\* Blocks that never reach a return hang below a virtual root of the tree;
\* functions with such blocks are left out.
CanReturn(g) == \A b \in 1..Len(g) : \E r \in 1..Len(g) : g[r] = <<>> /\ Reaches(g, b, r)

NoDeadBlocks(g) == \A b \in 1..Len(g) : Reaches(g, 1, b)

\* if (a) { if (b) x else y; z } and if (a) x else y; if (b) z else w.
LargerCfgs == {<< <<2, 6>>, <<3, 4>>, <<5>>, <<5>>, <<6>>, <<>> >>,
               << <<2, 3>>, <<4>>, <<4>>, <<5, 6>>, <<7>>, <<7>>, <<>> >>}

MCCfgs == {g \in ForwardCfgs : NoDeadBlocks(g)} \cup {g \in SmallCfgs : CanReturn(g)}
             \cup LargerCfgs

\* if (a) { if (b) x; }: with the default optimisations both branches join at
\* the return.
SharedJoinCfgs == {<< <<2, 4>>, <<3, 4>>, <<4>>, <<>> >>}

\* while (a) x;
LoopCfgs == {<< <<2>>, <<3, 4>>, <<2>>, <<>> >>}

=============================================================================
