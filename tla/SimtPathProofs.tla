--------------------------- MODULE SimtPathProofs ---------------------------
(***************************************************************************)
(* The scheme of runDivergencePass works on every well-nested function     *)
(* without loops: whatever path a lane takes, each SYNC it comes to pops   *)
(* the entry of that SYNC's own SSY, and it returns with an empty stack.   *)
(*                                                                         *)
(* Here the trees are opened: the argument is about what dominance and     *)
(* post-dominance say of paths.                                            *)
(***************************************************************************)
EXTENDS SimtPath, DivergenceProofs, WellFoundedInduction

-----------------------------------------------------------------------------
(* Paths.                                                                  *)

LEMMA PathRefl == \A x, avoid : Path(x, x, avoid)
BY DEF Path

LEMMA PathTrans ==
  ASSUME NEW x, NEW y, NEW z, NEW avoid, Path(x, y, avoid), Path(y, z, avoid)
  PROVE  Path(x, z, avoid)
BY DEF Path

LEMMA PathStep ==
  ASSUME NEW x, NEW c \in SuccessorsOf(x), NEW avoid, c \notin avoid
  PROVE  Path(x, c, avoid)
BY DEF Path

\* A path may be lengthened by an edge.
LEMMA PathThen ==
  ASSUME NEW x, NEW y, NEW c \in SuccessorsOf(y), NEW avoid, c \notin avoid,
         Path(x, y, avoid)
  PROVE  Path(x, c, avoid)
BY PathStep, PathTrans

\* A path that avoids a block is a path.
LEMMA PathAnyway ==
  ASSUME NEW x, NEW y, NEW avoid, x \notin avoid, Path(x, y, avoid)
  PROVE  Path(x, y, {})
<1> SUFFICES ASSUME NEW S \in SUBSET Blocks, x \in S, \A b \in S : SuccessorsOf(b) \subseteq S
             PROVE  y \in S
  BY DEF Path
<1>1. /\ S \ avoid \in SUBSET (Blocks \ avoid)
      /\ x \in S \ avoid
      /\ \A b \in S \ avoid : SuccessorsOf(b) \ avoid \subseteq S \ avoid
  OBVIOUS
<1>2. y \in S \ avoid
  BY <1>1 DEF Path
<1> QED
  BY <1>2

\* Where all paths from x to y go through z, a path leads from x to z.
LEMMA PathVia ==
  ASSUME NEW x, NEW y, NEW z, Path(x, y, {}), ~Path(x, y, {z})
  PROVE  Path(x, z, {})
<1> SUFFICES ASSUME NEW S \in SUBSET Blocks, x \in S, \A b \in S : SuccessorsOf(b) \subseteq S,
                    z \notin S
             PROVE  FALSE
  BY DEF Path
<1>1. PICK T \in SUBSET (Blocks \ {z}) :
        x \in T /\ (\A b \in T : SuccessorsOf(b) \ {z} \subseteq T) /\ y \notin T
  BY DEF Path
<1>2. /\ S \cap T \in SUBSET (Blocks \ {})
      /\ x \in S \cap T
      /\ \A b \in S \cap T : SuccessorsOf(b) \ {} \subseteq S \cap T
  BY <1>1
<1>3. y \in S \cap T
  BY <1>2 DEF Path
<1> QED
  BY <1>1, <1>3

LEMMA SuccessorsAreBlocks ==
  ASSUME IsCfg(original), NEW b \in Blocks
  PROVE  SuccessorsOf(b) \subseteq Blocks
<1>1. \A i \in 1..Len(original[b]) : original[b][i] \in 2..Len(original)
  BY DEF IsCfg, Blocks
<1>2. Len(original) \in Nat
  BY DEF IsCfg
<1>3. 2..Len(original) \subseteq 1..Len(original)
  BY <1>2
<1> QED
  BY <1>1, <1>3 DEF SuccessorsOf, Blocks

\* A path that avoids z does not end there, and ends at a block.
LEMMA PathAvoids ==
  ASSUME IsCfg(original), NEW x \in Blocks, NEW y, NEW avoid, x \notin avoid, Path(x, y, avoid)
  PROVE  y \in Blocks \ avoid
<1>1. /\ Blocks \ avoid \in SUBSET (Blocks \ avoid)
      /\ x \in Blocks \ avoid
      /\ \A b \in Blocks \ avoid : SuccessorsOf(b) \ avoid \subseteq Blocks \ avoid
  BY SuccessorsAreBlocks
<1> QED
  BY <1>1 DEF Path

\* A path to another block begins with an edge.
LEMMA PathLeaves ==
  ASSUME IsCfg(original), NEW x \in Blocks, NEW y, x # y, Path(x, y, {})
  PROVE  \E c \in SuccessorsOf(x) : Path(c, y, {})
<1> DEFINE S == {x} \cup {z \in Blocks : \E c \in SuccessorsOf(x) : Path(c, z, {})}
<1>1. S \in SUBSET (Blocks \ {}) /\ x \in S
  OBVIOUS
<1>2. ASSUME NEW b \in S, NEW d \in SuccessorsOf(b)
      PROVE  d \in S
  <2>1. d \in Blocks
    BY <1>1, SuccessorsAreBlocks
  <2>2. CASE b = x
    BY <2>1, <2>2, PathRefl
  <2>3. CASE b # x
    <3>1. PICK c \in SuccessorsOf(x) : Path(c, b, {})
      BY <2>3
    <3>2. Path(c, d, {})
      BY <3>1, PathThen
    <3> QED
      BY <2>1, <3>2
  <2> QED
    BY <2>2, <2>3
<1>3. \A b \in S : SuccessorsOf(b) \ {} \subseteq S
  BY <1>2
<1> HIDE DEF S
<1>4. y \in S
  BY <1>1, <1>3 DEF Path
<1> QED
  BY <1>4 DEF S

LEMMA NoCycle ==
  ASSUME IsCfg(original), Acyclic, NEW x \in Blocks, NEW y, x # y,
         Path(x, y, {}), Path(y, x, {})
  PROVE  FALSE
<1>1. PICK c \in SuccessorsOf(x) : Path(c, y, {})
  BY PathLeaves
<1>2. Path(c, x, {})
  BY <1>1, PathTrans
<1> QED
  BY <1>1, <1>2 DEF Acyclic

(* Without loops every block leads to a return: among the blocks x leads   *)
(* to, take one that leads to the fewest.                                  *)
LEMMA LeadsToReturn ==
  ASSUME IsCfg(original), Acyclic, NEW x \in Blocks
  PROVE  \E r \in Returns : Path(x, r, {})
<1> DEFINE Reach(y) == {z \in Blocks : Path(y, z, {})}
           T == {Reach(y) : y \in Reach(x)}
<1>1. IsFiniteSet(Blocks)
  <2>1. Len(original) \in Nat
    BY DEF IsCfg
  <2> QED
    BY <2>1, FS_Interval DEF Blocks
<1>2. IsWellFoundedOn(StrictSubsetOrdering(Blocks), SUBSET Blocks)
  BY <1>1, FS_FiniteSubsetsOfFinite, FS_StrictSubsetOrderingWellFounded
<1>3. x \in Reach(x)
  BY PathRefl
<1>4. T \subseteq SUBSET Blocks /\ T # {}
  BY <1>3
<1>5. \E R \in T : \A Q \in T : <<Q, R>> \notin StrictSubsetOrdering(Blocks)
  <2> HIDE DEF T
  <2> QED
    BY <1>2, <1>4, WFMin
<1>6. PICK y \in Reach(x) : \A Q \in T : <<Q, Reach(y)>> \notin StrictSubsetOrdering(Blocks)
  BY <1>5
<1>7. \A c \in SuccessorsOf(y) : FALSE
  <2> SUFFICES ASSUME NEW c \in SuccessorsOf(y) PROVE FALSE
    OBVIOUS
  <2>1. c \in Blocks
    BY SuccessorsAreBlocks
  <2>2. c \in Reach(x)
    BY <2>1, PathThen
  <2>3. Reach(c) \subseteq Reach(y)
    <3> SUFFICES ASSUME NEW z \in Blocks, Path(c, z, {}) PROVE Path(y, z, {})
      OBVIOUS
    <3>1. Path(y, c, {})
      BY PathStep
    <3> QED
      BY <3>1, PathTrans
  <2>4. y \in Reach(y) /\ y \notin Reach(c)
    BY PathRefl DEF Acyclic
  <2>5. <<Reach(c), Reach(y)>> \in StrictSubsetOrdering(Blocks)
    <3>1. Reach(c) \in SUBSET Blocks /\ Reach(y) \in SUBSET Blocks /\ Reach(c) # Reach(y)
      BY <2>4
    <3> HIDE DEF Reach
    <3> QED
      BY <2>3, <3>1 DEF StrictSubsetOrdering
  <2> QED
    BY <1>6, <2>2, <2>5
<1>8. original[y] = <<>>
  <2>1. y \in 1..Len(original) /\ original[y] \in Seq(Nat)
    BY DEF Blocks, IsCfg
  <2>2. CASE Len(original[y]) = 0
    BY <2>1, <2>2, EmptySeq
  <2>3. CASE Len(original[y]) # 0
    <3>1. Len(original[y]) \in Nat
      BY <2>1, LenProperties
    <3>2. 1 \in 1..Len(original[y])
      BY <2>3, <3>1
    <3> QED
      BY <1>7, <3>2 DEF SuccessorsOf
  <2> QED
    BY <2>2, <2>3
<1> QED
  BY <1>8 DEF Returns

-----------------------------------------------------------------------------
(* The trees.                                                              *)

LEMMA IpdIsNearest ==
  ASSUME NEW b, ImmediatePostDominator(b) # None
  PROVE  LET t == ImmediatePostDominator(b)
         IN  /\ t \in Blocks
             /\ StrictlyPostDominates(t, b)
             /\ \A q \in Blocks : StrictlyPostDominates(q, b) /\ q # t
                                    => StrictlyPostDominates(q, t)
<1> DEFINE strict == {p \in Blocks : StrictlyPostDominates(p, b)}
           nearest == {p \in strict : \A q \in strict \ {p} : StrictlyPostDominates(q, p)}
<1>1. ImmediatePostDominator(b) = IF nearest = {} THEN None ELSE CHOOSE p \in nearest : TRUE
  BY DEF ImmediatePostDominator
<1>2. ImmediatePostDominator(b) \in nearest
  <2> HIDE DEF nearest
  <2> QED
    BY <1>1
<1> QED
  BY <1>2

\* What dominates a block dominates each of its predecessors in the tree.
LEMMA DominatesPredecessor ==
  ASSUME NEW p \in Blocks, InTree(p), NEW y \in SuccessorsOf(p), NEW e, Dominates(e, y), e # y,
         IsCfg(original)
  PROVE  Dominates(e, p)
<1>1. InTree(y)
  BY PathThen, SuccessorsAreBlocks DEF InTree
<1>2. Path(1, p, {e}) => Path(1, y, {e})
  BY PathThen
<1> QED
  BY <1>1, <1>2 DEF Dominates

(* The regions of two branches are nested or apart: when c lies in the     *)
(* region of b, no path leads from c to b's reconvergence point around     *)
(* c's own.                                                                *)
LEMMA InnerRegionEndsFirst ==
  ASSUME IsCfg(original), Acyclic, NEW b \in Blocks, NEW c \in Blocks,
         ImmediatePostDominator(b) # None, ImmediatePostDominator(c) # None,
         ImmediatePostDominator(b) # ImmediatePostDominator(c),
         Path(b, c, {ImmediatePostDominator(b)}),
         Path(c, ImmediatePostDominator(b), {ImmediatePostDominator(c)})
  PROVE  FALSE
<1> DEFINE tb == ImmediatePostDominator(b)
           tc == ImmediatePostDominator(c)
<1>1. /\ tb \in Blocks /\ tc \in Blocks
      /\ StrictlyPostDominates(tb, b) /\ StrictlyPostDominates(tc, c)
      /\ \A q \in Blocks : StrictlyPostDominates(q, c) /\ q # tc => StrictlyPostDominates(q, tc)
  BY IpdIsNearest
<1>2. tb # tc /\ Path(b, c, {tb}) /\ Path(c, tb, {tc})
  OBVIOUS
<1> HIDE DEF tb, tc
\* tb post-dominates c, hence tc.
<1>3. tb # b /\ tc # c
  BY <1>1 DEF StrictlyPostDominates
<1>4. StrictlyPostDominates(tb, c)
  <2>1. tb # c
    BY <1>2, <1>3, PathAvoids
  <2>2. ASSUME NEW r \in Returns, r # tb, Path(c, r, {tb}) PROVE FALSE
    <3>1. Path(b, r, {tb})
      BY <1>2, <2>2, PathTrans
    <3> QED
      BY <1>1, <2>2, <3>1 DEF StrictlyPostDominates
  <2> QED
    BY <2>1, <2>2 DEF StrictlyPostDominates
<1>5. StrictlyPostDominates(tb, tc)
  BY <1>1, <1>2, <1>4
\* Hence a path leads from tc to tb, and from tb to tc.
<1>6. Path(tc, tb, {})
  <2>1. PICK r \in Returns : Path(tc, r, {})
    BY <1>1, LeadsToReturn
  <2>2. r = tb \/ ~Path(tc, r, {tb})
    BY <1>5 DEF StrictlyPostDominates
  <2> QED
    BY <2>1, <2>2, PathVia
<1>7. Path(tb, tc, {})
  <2>1. PICK r \in Returns : Path(tb, r, {})
    BY <1>1, LeadsToReturn
  <2>2. r = tc \/ ~Path(c, r, {tc})
    BY <1>1 DEF StrictlyPostDominates
  <2>3. r = tc \/ ~Path(tb, r, {tc})
    BY <1>2, <2>2, PathTrans
  <2> QED
    BY <2>1, <2>3, PathVia
<1> QED
  BY <1>1, <1>2, <1>6, <1>7, NoCycle

-----------------------------------------------------------------------------
(* The entries of the stack belong to branches: own[i] is the branch whose *)
(* SSY pushed entry i.                                                     *)

\* The lane is in the region of each owner, and the owner of an entry is in
\* the region of the owner of every entry below.
Regions(own, x) ==
  /\ InTree(x)
  /\ \A i \in 1..Len(own) :
       /\ own[i] \in Branches /\ InTree(own[i])
       /\ ImmediatePostDominator(own[i]) # None
       /\ Path(own[i], x, {ImmediatePostDominator(own[i])})
  /\ \A i, j \in 1..Len(own) : i < j =>
       own[i] # own[j] /\ Path(own[j], own[i], {ImmediatePostDominator(own[j])})

\* A branch that was passed for certain, and whose reconvergence point was
\* not, owns an entry.
Waiting(own, x, b) ==
  Dominates(b, x) /\ ImmediatePostDominator(b) # None
    /\ ~Path(ImmediatePostDominator(b), x, {}) => \E i \in 1..Len(own) : own[i] = b

\* At the start of block x; behind its SSY.
AtBlock(own, x) ==
  /\ Regions(own, x)
  /\ \A i \in 1..Len(own) : own[i] # x
  /\ \A b \in Branches \ {x} : Waiting(own, x, b)

AtBranch(own, x) == Regions(own, x) /\ \A b \in Branches : Waiting(own, x, b)

LEMMA PushedSequence ==
  ASSUME NEW S, NEW s \in Seq(S), NEW a \in S
  PROVE  /\ <<a>> \o s \in Seq(S)
         /\ Len(<<a>> \o s) = Len(s) + 1
         /\ (<<a>> \o s)[1] = a
         /\ \A i \in 1..Len(s) : (<<a>> \o s)[i + 1] = s[i]
         /\ \A i \in 2..Len(s) + 1 : (<<a>> \o s)[i] = s[i - 1]
<1>1. <<a>> \in Seq(S) /\ Len(<<a>>) = 1 /\ <<a>>[1] = a
  OBVIOUS
<1>2. Len(s) \in Nat
  OBVIOUS
<1> QED
  BY <1>1, <1>2, ConcatProperties

(* The SSY of a branch that has a reconvergence point.                     *)
LEMMA PushOwner ==
  ASSUME NEW own \in Seq(Branches), NEW x \in Branches, AtBlock(own, x),
         ImmediatePostDominator(x) # None
  PROVE  AtBranch(<<x>> \o own, x)
<1> DEFINE new == <<x>> \o own
<1>1. /\ new \in Seq(Branches)
      /\ Len(new) = Len(own) + 1
      /\ new[1] = x
      /\ \A i \in 1..Len(own) : new[i + 1] = own[i]
      /\ \A i \in 2..Len(own) + 1 : new[i] = own[i - 1]
  BY PushedSequence
<1>2. Len(own) \in Nat
  OBVIOUS
<1> HIDE DEF new
<1>3. \A i \in 1..Len(new) : i = 1 \/ (i - 1 \in 1..Len(own) /\ new[i] = own[i - 1])
  BY <1>1, <1>2
<1>4. Regions(new, x)
  <2>1. ASSUME NEW i \in 1..Len(new)
        PROVE  /\ new[i] \in Branches /\ InTree(new[i])
               /\ ImmediatePostDominator(new[i]) # None
               /\ Path(new[i], x, {ImmediatePostDominator(new[i])})
    <3>1. CASE i = 1
      BY <1>1, <3>1, PathRefl DEF AtBlock, Regions
    <3>2. CASE i # 1
      <4>1. i - 1 \in 1..Len(own) /\ new[i] = own[i - 1]
        BY <1>3, <3>2
      <4> QED
        BY <4>1, Zenon DEF AtBlock, Regions
    <3> QED
      BY <3>1, <3>2
  <2>2. ASSUME NEW i \in 1..Len(new), NEW j \in 1..Len(new), i < j
        PROVE  new[i] # new[j] /\ Path(new[j], new[i], {ImmediatePostDominator(new[j])})
    <3>1. j - 1 \in 1..Len(own) /\ new[j] = own[j - 1]
      BY <1>3, <2>2
    <3>2. CASE i = 1
      BY <1>1, <3>1, <3>2 DEF AtBlock, Regions
    <3>3. CASE i # 1
      <4>1. i - 1 \in 1..Len(own) /\ new[i] = own[i - 1]
        BY <1>3, <3>3
      <4>2. i - 1 < j - 1
        BY <2>2
      <4> QED
        BY <3>1, <4>1, <4>2 DEF AtBlock, Regions
    <3> QED
      BY <3>2, <3>3
  <2> QED
    BY <2>1, <2>2 DEF AtBlock, Regions
<1>5. ASSUME NEW b \in Branches PROVE Waiting(new, x, b)
  <2>1. CASE b = x
    <3>1. 1 \in 1..Len(new)
      BY <1>1, <1>2
    <3> QED
      BY <1>1, <2>1, <3>1 DEF Waiting
  <2>2. CASE b # x
    <3>1. Waiting(own, x, b)
      BY <2>2 DEF AtBlock
    <3>2. \A i \in 1..Len(own) : i + 1 \in 1..Len(new) /\ new[i + 1] = own[i]
      BY <1>1, <1>2
    <3> QED
      BY <3>1, <3>2 DEF Waiting
  <2> QED
    BY <2>1, <2>2
<1> QED
  BY <1>4, <1>5 DEF AtBranch, new

LEMMA NoPush ==
  ASSUME NEW own, NEW x, AtBlock(own, x), x \in Branches => ImmediatePostDominator(x) = None
  PROVE  AtBranch(own, x)
<1>1. ASSUME NEW b \in Branches PROVE Waiting(own, x, b)
  BY DEF AtBlock, Waiting
<1> QED
  BY <1>1 DEF AtBlock, AtBranch

LEMMA DominatesOutward ==
  ASSUME IsCfg(original), NEW own, NEW x \in Blocks, AtBranch(own, x), NEW y \in SuccessorsOf(x),
         NEW b \in Branches \ {y}
  PROVE  Waiting(own, y, b)
<1> SUFFICES ASSUME Dominates(b, y), ImmediatePostDominator(b) # None,
                    ~Path(ImmediatePostDominator(b), y, {})
             PROVE  \E i \in 1..Len(own) : own[i] = b
  BY DEF Waiting
<1>1. Dominates(b, x)
  BY DominatesPredecessor DEF AtBranch, Regions
<1>2. ~Path(ImmediatePostDominator(b), x, {})
  BY PathThen
<1> QED
  BY <1>1, <1>2 DEF AtBranch, Waiting

(* An edge that enters no owner's reconvergence point.                     *)
LEMMA PlainEdge ==
  ASSUME IsCfg(original), Acyclic,
         NEW own, NEW x \in Blocks, AtBranch(own, x), NEW y \in SuccessorsOf(x),
         \A i \in 1..Len(own) : ImmediatePostDominator(own[i]) # y
  PROVE  AtBlock(own, y)
<1>1. y \in Blocks /\ InTree(x) /\ InTree(y)
  BY SuccessorsAreBlocks, PathThen DEF AtBranch, Regions, InTree
<1>2. ~Path(y, x, {})
  BY DEF Acyclic
<1>3. ASSUME NEW i \in 1..Len(own)
      PROVE  Path(own[i], y, {ImmediatePostDominator(own[i])}) /\ own[i] # y
  <2>1. Path(own[i], x, {ImmediatePostDominator(own[i])})
    BY DEF AtBranch, Regions
  <2>2. Path(own[i], y, {ImmediatePostDominator(own[i])})
    BY <2>1, PathThen
  <2>3. own[i] # ImmediatePostDominator(own[i])
    BY IpdIsNearest DEF AtBranch, Regions, StrictlyPostDominates
  <2>4. Path(own[i], x, {})
    BY <2>1, <2>3, PathAnyway
  <2> QED
    BY <1>2, <2>2, <2>4
<1>4. ASSUME NEW b \in Branches \ {y} PROVE Waiting(own, y, b)
  BY DominatesOutward DEF AtBranch
<1> QED
  BY <1>1, <1>3, <1>4 DEF AtBranch, AtBlock, Regions

(* The edge with the SYNC of the topmost owner.                            *)
LEMMA SyncEdge ==
  ASSUME IsCfg(original), WellNested,
         NEW own \in Seq(Branches), NEW x \in Blocks, AtBranch(own, x), NEW y \in SuccessorsOf(x),
         own # <<>>, ImmediatePostDominator(own[1]) = y
  PROVE  AtBlock(Tail(own), y)
<1> DEFINE new == Tail(own)
<1>1. /\ new \in Seq(Branches)
      /\ Len(new) = Len(own) - 1
      /\ \A i \in 1..Len(new) : new[i] = own[i + 1]
      /\ Len(own) \in Nat /\ Len(own) > 0
  BY HeadTailProperties, EmptySeq
<1> HIDE DEF new
<1>2. \A i \in 1..Len(new) : i + 1 \in 1..Len(own) /\ new[i] = own[i + 1] /\ 1 < i + 1
  BY <1>1
<1>3. 1 \in 1..Len(own)
  BY <1>1
<1>4. y \in Blocks /\ InTree(x) /\ InTree(y)
  BY SuccessorsAreBlocks, PathThen DEF AtBranch, Regions, InTree
<1>5. Acyclic /\ ~Path(y, x, {})
  BY DEF Acyclic, WellNested
<1>6. ASSUME NEW i \in 1..Len(own), 1 < i PROVE ImmediatePostDominator(own[i]) # y
  <2>1. own[1] # own[i] /\ own[1] \in Branches /\ own[i] \in Branches
    BY <1>3, <1>6 DEF AtBranch, Regions
  <2>2. ImmediatePostDominator(own[1]) # None
    BY <1>3 DEF AtBranch, Regions
  <2> QED
    BY <2>1, <2>2 DEF WellNested
<1>7. ASSUME NEW i \in 1..Len(new)
      PROVE  /\ Path(new[i], y, {ImmediatePostDominator(new[i])}) /\ new[i] # y
             /\ new[i] \in Branches /\ InTree(new[i])
             /\ ImmediatePostDominator(new[i]) # None
  <2>1. /\ Path(new[i], x, {ImmediatePostDominator(new[i])})
        /\ new[i] \in Branches /\ InTree(new[i])
        /\ ImmediatePostDominator(new[i]) # None
    BY <1>2 DEF AtBranch, Regions
  <2>2. Path(new[i], y, {ImmediatePostDominator(new[i])})
    BY <1>2, <1>6, <2>1, PathThen
  <2>3. new[i] # ImmediatePostDominator(new[i])
    BY <2>1, IpdIsNearest DEF StrictlyPostDominates
  <2>4. Path(new[i], x, {})
    BY <2>1, <2>3, PathAnyway
  <2> QED
    BY <1>5, <2>1, <2>2, <2>4
<1>8. ASSUME NEW i \in 1..Len(new), NEW j \in 1..Len(new), i < j
      PROVE  new[i] # new[j] /\ Path(new[j], new[i], {ImmediatePostDominator(new[j])})
  <2>1. i + 1 < j + 1
    BY <1>8
  <2> QED
    BY <1>2, <2>1 DEF AtBranch, Regions
<1>9. ASSUME NEW b \in Branches \ {y} PROVE Waiting(new, y, b)
  <2> SUFFICES ASSUME Dominates(b, y), ImmediatePostDominator(b) # None,
                      ~Path(ImmediatePostDominator(b), y, {})
               PROVE  \E i \in 1..Len(new) : new[i] = b
    BY DEF Waiting
  <2>1. Waiting(own, y, b)
    BY <1>5, DominatesOutward DEF AtBranch
  <2>2. PICK j \in 1..Len(own) : own[j] = b
    BY <2>1 DEF Waiting
  <2>3. j # 1
    BY <2>2, PathRefl
  <2>4. j - 1 \in 1..Len(new) /\ new[j - 1] = own[(j - 1) + 1] /\ (j - 1) + 1 = j
    BY <1>1, <2>3
  <2> QED
    BY <2>2, <2>4
<1> QED
  BY <1>4, <1>7, <1>8, <1>9 DEF AtBlock, Regions, new

(* The SYNC on an edge belongs to the topmost owner.                       *)
LEMMA OwnerIsTopmost ==
  ASSUME IsCfg(original), WellNested,
         NEW own \in Seq(Branches), NEW x \in Blocks, AtBranch(own, x), NEW y \in SuccessorsOf(x),
         NEW b \in Branches, Dominates(b, x), ImmediatePostDominator(b) = y
  PROVE  own # <<>> /\ own[1] = b
<1>1. Acyclic /\ ~Path(y, x, {}) /\ y \in Blocks /\ y # None
  BY SuccessorsAreBlocks DEF Acyclic, WellNested, Blocks, None
<1>2. PICK j \in 1..Len(own) : own[j] = b
  BY <1>1 DEF AtBranch, Waiting
<1>3. Len(own) \in Nat
  OBVIOUS
<1>4. 1 \in 1..Len(own) /\ own # <<>>
  BY <1>2, <1>3
<1>5. ASSUME j # 1 PROVE FALSE
  <2> DEFINE c == own[1]
  <2>1. /\ c \in Branches /\ c # b
        /\ ImmediatePostDominator(c) # None
        /\ Path(c, x, {ImmediatePostDominator(c)})
        /\ Path(b, c, {y})
    <3>1. 1 < j
      BY <1>2, <1>3, <1>5
    <3> QED
      BY <1>2, <1>4, <3>1 DEF AtBranch, Regions
  <2>2. ImmediatePostDominator(c) # y
    BY <1>1, <2>1 DEF WellNested
  <2>3. Path(c, y, {ImmediatePostDominator(c)})
    BY <2>1, <2>2, PathThen
  <2>4. b \in Blocks /\ c \in Blocks
    BY <2>1 DEF Branches
  <2> QED
    BY <1>1, <2>1, <2>2, <2>3, <2>4, InnerRegionEndsFirst
<1> QED
  BY <1>2, <1>4, <1>5

-----------------------------------------------------------------------------
(* The pass and the lane.                                                  *)

\* In a well-nested function a SYNC block leads straight to its reconvergence
\* point: no predecessor the pass handles is a SYNC block.
Chains ==
  WellNested => /\ \A s \in DOMAIN dest : succ[s] = <<dest[s]>>
                /\ \A p \in DOMAIN preds : preds[p] > 0 => p \in Blocks

\* A lane is at the start of x, with the stack the owners pushed.
LaneAt(x, st) ==
  \E own \in Seq(Branches) :
    /\ Len(own) = Len(st)
    /\ \A i \in 1..Len(own) : st[i] = ImmediatePostDominator(own[i])
    /\ AtBlock(own, x)

\* The top entry of a lane at a SYNC block is that block's; behind the pop the
\* lane is at the reconvergence point.
LaneOk(x, st) ==
  /\ st \in Seq(Blocks)
  /\ ~Done => x = 1 /\ st = <<>>
  /\ Done /\ ~IsSync(x) => x \in Blocks /\ LaneAt(x, st)
  /\ Done /\ IsSync(x) => /\ x \in DOMAIN dest
                          /\ st # <<>>
                          /\ Head(st) = dest[x]
                          /\ LaneAt(dest[x], Tail(st))

PathInv == PassInv /\ Chains /\ (WellNested => LaneOk(at, stack))

-----------------------------------------------------------------------------
LEMMA SamePaths ==
  ASSUME UNCHANGED original
  PROVE  /\ WellNested' <=> WellNested
         /\ \A own, x : AtBlock(own, x)' <=> AtBlock(own, x)
<1>1. /\ Blocks' = Blocks /\ Branches' = Branches
      /\ \A b : ImmediatePostDominator(b)' = ImmediatePostDominator(b)
  BY SamePostDominators
<1>2. ASSUME NEW b PROVE SuccessorsOf(b)' = SuccessorsOf(b)
  BY DEF SuccessorsOf
<1>3. ASSUME NEW x, NEW y, NEW avoid PROVE Path(x, y, avoid)' <=> Path(x, y, avoid)
  BY <1>1, <1>2, Zenon DEF Path
<1>4. ASSUME NEW b PROVE InTree(b)' <=> InTree(b)
  BY <1>1, <1>3 DEF InTree
<1>5. \A a, b : Dominates(a, b)' <=> Dominates(a, b)
  BY SameTrees
<1>6. Acyclic' <=> Acyclic
  BY <1>1, <1>2, <1>3 DEF Acyclic
<1>7. WellNested' <=> WellNested
  BY <1>1, <1>2, <1>3, <1>4, <1>5, <1>6 DEF WellNested, None
<1>8. ASSUME NEW own, NEW x PROVE Regions(own, x)' <=> Regions(own, x)
  BY <1>1, <1>3, <1>4 DEF Regions, None
<1>9. ASSUME NEW own, NEW x, NEW b PROVE Waiting(own, x, b)' <=> Waiting(own, x, b)
  BY <1>1, <1>3, <1>5 DEF Waiting, None
<1>10. ASSUME NEW own, NEW x PROVE AtBlock(own, x)' <=> AtBlock(own, x)
  BY <1>1, <1>8, <1>9 DEF AtBlock
<1> QED
  BY <1>7, <1>10

LEMMA SameLane ==
  ASSUME UNCHANGED vars
  PROVE  \A x, st : LaneOk(x, st)' <=> LaneOk(x, st)
<1>1. UNCHANGED <<original, succ, ssy, dest, todo, ipd, preds>>
  BY DEF vars
<1>2. /\ Blocks' = Blocks /\ Branches' = Branches
      /\ \A b : ImmediatePostDominator(b)' = ImmediatePostDominator(b)
  BY <1>1, SamePostDominators
<1>3. \A own, x : AtBlock(own, x)' <=> AtBlock(own, x)
  BY <1>1, SamePaths
<1>4. ASSUME NEW x, NEW st PROVE LaneAt(x, st)' <=> LaneAt(x, st)
  BY <1>2, <1>3 DEF LaneAt
<1>5. Done' <=> Done
  BY <1>1 DEF Done, Idle
<1>6. \A x : IsSync(x)' <=> IsSync(x)
  BY <1>1 DEF IsSync
<1>7. ASSUME NEW x, NEW st PROVE LaneOk(x, st)' <=> LaneOk(x, st)
  <2>1. \A s : LaneAt(dest[x], s)' <=> LaneAt(dest[x], s)
    BY <1>1, <1>2, <1>3 DEF LaneAt
  <2> QED
    BY <1>1, <1>2, <1>4, <1>5, <1>6, <2>1 DEF LaneOk
<1> QED
  BY <1>7

-----------------------------------------------------------------------------
(* Chains.                                                                 *)

LEMMA InitChains == Init => Chains
BY DEF Init, NoMap, Chains

LEMMA NextChains ==
  ASSUME PassInv, Chains, Next
  PROVE  Chains'
<1>0. UNCHANGED original
  BY DEF Next, SkipBranch, VisitBranch, SplitEdge
<1>1. (WellNested' <=> WellNested) /\ Blocks' = Blocks
  BY <1>0, SamePaths, SamePostDominators
<1> SUFFICES ASSUME WellNested
             PROVE  /\ \A s \in DOMAIN dest' : succ'[s] = <<dest'[s]>>
                    /\ \A p \in DOMAIN preds' : preds'[p] > 0 => p \in Blocks
  BY <1>1 DEF Chains
<1>2. /\ \A s \in DOMAIN dest : succ[s] = <<dest[s]>>
      /\ \A p \in DOMAIN preds : preds[p] > 0 => p \in Blocks
  BY DEF Chains
<1>3. ASSUME NEW b, SkipBranch(b)
      PROVE  /\ \A s \in DOMAIN dest' : succ'[s] = <<dest'[s]>>
             /\ \A p \in DOMAIN preds' : preds'[p] > 0 => p \in Blocks
  BY <1>2, <1>3 DEF SkipBranch
<1>4. ASSUME NEW b, VisitBranch(b)
      PROVE  /\ \A s \in DOMAIN dest' : succ'[s] = <<dest'[s]>>
             /\ \A p \in DOMAIN preds' : preds'[p] > 0 => p \in Blocks
  <2> DEFINE t == ImmediatePostDominator(b)
  <2>1. /\ t # None /\ b \in todo /\ preds' = Selected(b, t) /\ UNCHANGED <<succ, dest>>
    BY <1>4 DEF VisitBranch, IsNext
  <2>2. ASSUME NEW p \in DOMAIN Selected(b, t), p \notin Blocks PROVE FALSE
    <3>1. p \in 1..Len(succ) /\ SlotsInto(p, t) # {}
      BY DEF Selected, PredecessorsOf
    <3>2. p \in DOMAIN dest
      BY <2>2, <3>1 DEF PassInv, IInv, Shape, Blocks, IsCfg
    <3>3. succ[p] = <<dest[p]>>
      BY <1>2, <3>2
    <3>4. PICK i \in 1..Len(succ[p]) : succ[p][i] = t
      BY <3>1 DEF SlotsInto
    <3>5. dest[p] = t
      <4>1. Len(<<dest[p]>>) = 1 /\ <<dest[p]>>[1] = dest[p]
        OBVIOUS
      <4> QED
        BY <3>3, <3>4, <4>1
    <3>6. PICK c \in DOMAIN ssy : ssy[c] = t
      BY <3>2, <3>5 DEF PassInv, Owned
    <3>7. c \in Branches /\ b \in Branches /\ c # b /\ ImmediatePostDominator(c) = t
      BY <2>1, <3>6 DEF PassInv, Visited
    <3> QED
      BY <2>1, <3>7 DEF WellNested
  <2> QED
    BY <1>2, <2>1, <2>2
<1>5. ASSUME NEW p \in DOMAIN preds, SplitEdge(p)
      PROVE  /\ \A s \in DOMAIN dest' : succ'[s] = <<dest'[s]>>
             /\ \A q \in DOMAIN preds' : preds'[q] > 0 => q \in Blocks
  <2> DEFINE s == Len(succ) + 1
  <2>1. /\ succ'[s] = <<ipd>>
        /\ \A q \in 1..Len(succ) \ {p} : succ'[q] = succ[q]
        /\ DOMAIN dest' = Len(original) + 1 .. s
        /\ dest'[s] = ipd
        /\ \A x \in DOMAIN dest : dest'[x] = dest[x]
    BY <1>5, SplitShape DEF PassInv, IInv
  <2>2. /\ preds[p] > 0 /\ preds[p] \in Nat /\ preds' = [preds EXCEPT ![p] = preds[p] - 1]
    BY <1>5 DEF SplitEdge, PassInv, IInv, Shape
  <2>3. /\ DOMAIN dest = Len(original) + 1 .. Len(succ)
        /\ Len(original) \in Nat /\ Len(succ) \in Nat /\ Len(original) <= Len(succ)
    BY DEF PassInv, IInv, Shape, IsCfg
  <2>4. ASSUME NEW x \in DOMAIN dest' PROVE succ'[x] = <<dest'[x]>>
    <3>1. CASE x = s
      BY <2>1, <3>1
    <3>2. CASE x \in DOMAIN dest
      <4>1. p \notin DOMAIN dest
        BY <1>2, <2>2, <2>3 DEF Blocks
      <4>2. x \in 1..Len(succ) \ {p}
        BY <2>3, <3>2, <4>1
      <4> QED
        BY <1>2, <2>1, <3>2, <4>2
    <3> QED
      BY <2>1, <2>3, <3>1, <3>2
  <2>5. \A q \in DOMAIN preds' : preds'[q] > 0 => q \in Blocks
    BY <1>2, <2>2
  <2> QED
    BY <2>4, <2>5
<1> QED
  BY <1>3, <1>4, <1>5 DEF Next

LEMMA StutterChains == Chains /\ UNCHANGED vars => Chains'
<1> SUFFICES ASSUME Chains, UNCHANGED vars PROVE Chains'
  OBVIOUS
<1>1. UNCHANGED <<original, succ, dest, preds>>
  BY DEF vars
<1>2. (WellNested' <=> WellNested) /\ Blocks' = Blocks
  BY <1>1, SamePaths, SamePostDominators
<1> QED
  BY <1>1, <1>2 DEF Chains

-----------------------------------------------------------------------------
(* The lane.                                                               *)

LEMMA AtEntry == PassInv => LaneOk(1, <<>>)
<1> SUFFICES ASSUME PassInv PROVE LaneOk(1, <<>>)
  OBVIOUS
<1>1. IsCfg(original) /\ Len(original) \in Nat
  BY DEF PassInv, IInv, Shape, IsCfg
<1>2. 1 \in Blocks
  BY <1>1, EmptySeq DEF IsCfg, Blocks
<1>3. ~IsSync(1)
  BY <1>1, <1>2 DEF IsSync, Blocks
<1>4. AtBlock(<<>>, 1)
  <2>1. Len(<<>>) = 0
    OBVIOUS
  <2>2. InTree(1)
    BY <1>2, PathRefl DEF InTree
  <2>3. ASSUME NEW b \in Branches \ {1} PROVE ~Dominates(b, 1)
    <3>1. Path(1, 1, {b})
      BY PathRefl
    <3> QED
      BY <2>2, <2>3, <3>1 DEF Dominates
  <2> QED
    BY <2>1, <2>2, <2>3 DEF AtBlock, Regions, Waiting
<1>5. LaneAt(1, <<>>)
  <2>1. <<>> \in Seq(Branches) /\ \A i \in 1..Len(<<>>) : FALSE
    OBVIOUS
  <2> QED
    BY <1>4, <2>1, Zenon DEF LaneAt
<1> QED
  BY <1>2, <1>3, <1>5 DEF LaneOk

LEMMA RunBlockLane ==
  ASSUME PathInv, WellNested, RunBlock
  PROVE  LaneOk(at', stack')
<1> DEFINE new == IF at \in DOMAIN ssy THEN <<ssy[at]>> \o stack ELSE stack
<1>1. Done /\ ~IsSync(at) /\ stack' = new
  BY DEF RunBlock
<1>2. PICK k \in 1..Len(succ[at]) : at' = succ[at][k]
  BY DEF RunBlock
<1>3. /\ IsCfg(original) /\ Acyclic
      /\ at \in Blocks /\ stack \in Seq(Blocks)
      /\ LaneAt(at, stack)
  BY <1>1 DEF PathInv, PassInv, IInv, Shape, LaneOk, WellNested
<1>4. PICK own \in Seq(Branches) :
        /\ Len(own) = Len(stack)
        /\ \A i \in 1..Len(own) : stack[i] = ImmediatePostDominator(own[i])
        /\ AtBlock(own, at)
  BY <1>3 DEF LaneAt
<1>5. \A b \in Branches : IF b \in DOMAIN ssy
                          THEN ssy[b] = ImmediatePostDominator(b) /\ ssy[b] # None
                          ELSE ImmediatePostDominator(b) = None
  BY <1>1 DEF Done, PathInv, PassInv, Visited
<1>6. DOMAIN ssy \subseteq Branches /\ \A b \in DOMAIN ssy : ssy[b] \in Blocks
  BY DEF PathInv, PassInv, Visited, IInv, Shape
\* Behind the SSY the stack is still the owners'.
<1>7. \E all \in Seq(Branches) :
        /\ new \in Seq(Blocks)
        /\ Len(all) = Len(new)
        /\ \A i \in 1..Len(all) : new[i] = ImmediatePostDominator(all[i])
        /\ AtBranch(all, at)
  <2>1. CASE at \in DOMAIN ssy
    <3>1. at \in Branches /\ ssy[at] \in Blocks
      BY <1>6, <2>1
    <3>2. /\ <<at>> \o own \in Seq(Branches)
          /\ Len(<<at>> \o own) = Len(own) + 1
          /\ (<<at>> \o own)[1] = at
          /\ \A i \in 2..Len(own) + 1 : (<<at>> \o own)[i] = own[i - 1]
      BY <3>1, PushedSequence
    <3>3. /\ <<ssy[at]>> \o stack \in Seq(Blocks)
          /\ Len(<<ssy[at]>> \o stack) = Len(stack) + 1
          /\ (<<ssy[at]>> \o stack)[1] = ssy[at]
          /\ \A i \in 2..Len(stack) + 1 : (<<ssy[at]>> \o stack)[i] = stack[i - 1]
      BY <1>3, <3>1, PushedSequence
    <3>4. new = <<ssy[at]>> \o stack
      BY <2>1
    <3>5. AtBranch(<<at>> \o own, at)
      BY <1>4, <1>5, <2>1, <3>1, PushOwner
    <3>6. \A i \in 1..Len(own) + 1 : i = 1 \/ (i \in 2..Len(own) + 1 /\ i - 1 \in 1..Len(own))
      OBVIOUS
    <3> HIDE DEF new
    <3>7. ssy[at] = ImmediatePostDominator(at)
      BY <1>5, <2>1, <3>1
    <3>8. ASSUME NEW i \in 1..Len(own) + 1
          PROVE  new[i] = ImmediatePostDominator((<<at>> \o own)[i])
      BY <1>4, <3>2, <3>3, <3>4, <3>6, <3>7
    <3> QED
      BY <1>4, <3>2, <3>3, <3>4, <3>5, <3>8
  <2>2. CASE at \notin DOMAIN ssy
    <3>1. AtBranch(own, at)
      BY <1>4, <1>5, <2>2, NoPush
    <3> QED
      BY <1>3, <1>4, <2>2, <3>1
  <2> QED
    BY <2>1, <2>2
<1> HIDE DEF new
<1>8. PICK all \in Seq(Branches) :
        /\ new \in Seq(Blocks)
        /\ Len(all) = Len(new)
        /\ \A i \in 1..Len(all) : new[i] = ImmediatePostDominator(all[i])
        /\ AtBranch(all, at)
  BY <1>7
<1> DEFINE y == original[at][k]
<1>9. /\ y \in SuccessorsOf(at)
      /\ Destination(at') = y
      /\ at' \in 1..Len(succ)
  <2>1. /\ Len(succ[at]) = Len(original[at])
        /\ \A i \in 1..Len(original[at]) : Destination(succ[at][i]) = original[at][i]
    BY <1>3 DEF PathInv, PassInv, IInv, FlowPreserved
  <2>2. at \in 1..Len(succ)
    BY <1>3 DEF PathInv, PassInv, IInv, Shape, Blocks, IsCfg
  <2> QED
    BY <1>2, <2>1, <2>2 DEF SuccessorsOf, PathInv, PassInv, IInv, Shape
<1> HIDE DEF y
<1>10. CASE ~IsSync(at')
  <2>1. at' = y
    BY <1>9, <1>10 DEF Destination
  <2>2. ASSUME NEW i \in 1..Len(all), ImmediatePostDominator(all[i]) = y PROVE FALSE
    <3>1. /\ all[i] \in Branches /\ InTree(all[i])
          /\ y # None /\ Path(all[i], at, {y})
      BY <1>8, <2>2 DEF AtBranch, Regions
    <3>2. all[i] # y
      BY <2>2, <3>1, IpdIsNearest DEF StrictlyPostDominates
    <3>3. Path(all[i], at, {})
      BY <3>1, <3>2, PathAnyway
    <3>4. Dominates(all[i], at)
      BY <1>3, <1>9, <2>2, <3>1, <3>3 DEF WellNested
    <3>5. all[i] \in DOMAIN ssy /\ ssy[all[i]] = y
      BY <1>5, <2>2, <3>1
    <3>6. RegionsSynced
      BY SyncedWhenDone DEF PathInv, PassInv
    <3> QED
      BY <1>1, <1>2, <1>3, <2>1, <3>4, <3>5, <3>6 DEF RegionsSynced
  <2>3. AtBlock(all, y) /\ y \in Blocks
    BY <1>3, <1>8, <1>9, <2>2, PlainEdge, SuccessorsAreBlocks
  <2>4. LaneAt(y, new)
    BY <1>8, <2>3 DEF LaneAt
  <2> QED
    BY <1>1, <1>8, <1>10, <2>1, <2>3, <2>4 DEF LaneOk
<1>11. CASE IsSync(at')
  <2>1. at' \in DOMAIN dest /\ dest[at'] = y
    BY <1>3, <1>9, <1>11 DEF Destination, IsSync, PathInv, PassInv, IInv, Shape, IsCfg
  <2>2. PICK b \in DOMAIN ssy : ssy[b] = y /\ Dominates(b, at)
    BY <1>2, <1>3, <1>11, <2>1 DEF PathInv, PassInv, Owned, Owner
  <2>3. b \in Branches /\ ImmediatePostDominator(b) = y
    BY <1>5, <1>6, <2>2
  <2>4. all # <<>> /\ all[1] = b
    BY <1>3, <1>8, <1>9, <2>2, <2>3, OwnerIsTopmost
  <2>5. AtBlock(Tail(all), y)
    BY <1>3, <1>8, <1>9, <2>3, <2>4, SyncEdge
  <2>6. /\ Tail(all) \in Seq(Branches)
        /\ Len(Tail(all)) = Len(all) - 1
        /\ \A i \in 1..Len(Tail(all)) : Tail(all)[i] = all[i + 1]
        /\ Len(all) \in Nat /\ Len(all) > 0
    BY <2>4, HeadTailProperties, EmptySeq
  <2>7. new # <<>>
    BY <1>8, <2>6
  <2>8. /\ Tail(new) \in Seq(Blocks)
        /\ Len(Tail(new)) = Len(new) - 1
        /\ \A i \in 1..Len(Tail(new)) : Tail(new)[i] = new[i + 1]
    BY <1>8, <2>7, HeadTailProperties
  <2>9. Head(new) = y
    <3>1. Head(new) = new[1]
      BY <1>8, <2>7
    <3> QED
      BY <1>8, <2>3, <2>4, <2>6, <3>1
  <2>10. LaneAt(y, Tail(new))
    <3>1. \A i \in 1..Len(Tail(all)) : i + 1 \in 1..Len(all)
      BY <2>6
    <3>2. \A i \in 1..Len(Tail(all)) : Tail(new)[i] = ImmediatePostDominator(Tail(all)[i])
      BY <1>8, <2>6, <2>8, <3>1
    <3> QED
      BY <1>8, <2>5, <2>6, <2>8, <3>2 DEF LaneAt
  <2> QED
    BY <1>1, <1>8, <1>11, <2>1, <2>7, <2>9, <2>10 DEF LaneOk
<1> QED
  BY <1>10, <1>11

LEMMA RunSyncLane ==
  ASSUME PathInv, WellNested, RunSync
  PROVE  LaneOk(at', stack')
<1>1. Done /\ IsSync(at) /\ stack # <<>> /\ stack' = Tail(stack) /\ at' = succ[at][1]
  BY DEF RunSync
<1>2. /\ at \in DOMAIN dest
      /\ LaneAt(dest[at], Tail(stack))
      /\ stack \in Seq(Blocks)
  BY <1>1 DEF PathInv, LaneOk
<1>3. at' = dest[at]
  <2>1. succ[at] = <<dest[at]>>
    BY <1>2 DEF PathInv, Chains
  <2> QED
    BY <1>1, <2>1
<1>4. dest[at] \in Blocks /\ Len(original) \in Nat
  BY <1>2 DEF PathInv, PassInv, IInv, Shape, IsCfg
<1>5. ~IsSync(dest[at])
  BY <1>4 DEF IsSync, Blocks
<1>6. Tail(stack) \in Seq(Blocks)
  BY <1>1, <1>2, HeadTailProperties
<1> QED
  BY <1>1, <1>2, <1>3, <1>4, <1>5, <1>6 DEF LaneOk

-----------------------------------------------------------------------------
LEMMA NotDoneBefore == PassInv /\ Next => ~Done
<1> SUFFICES ASSUME PassInv, Next, Done PROVE FALSE
  OBVIOUS
<1>1. ASSUME NEW p \in DOMAIN preds, SplitEdge(p) PROVE FALSE
  <2>1. preds[p] > 0 /\ preds[p] = 0
    BY <1>1 DEF Done, Idle, SplitEdge
  <2> QED
    BY <2>1
<1> QED
  BY <1>1 DEF Next, Done

LEMMA PathStepInv ==
  ASSUME PathInv, [PathNext]_<<vars, laneVars>>
  PROVE  PathInv'
<1>1. [Next]_vars
  BY DEF PathNext, Compile, RunBlock, RunSync
<1>2. PassInv'
  BY <1>1, SkipBranchPassInv, VisitBranchPassInv, SplitEdgePassInv, StutterPassInv
     DEF PathInv, Next
<1>3. Chains'
  BY <1>1, NextChains, StutterChains DEF PathInv
<1>4. UNCHANGED original
  BY <1>1 DEF Next, SkipBranch, VisitBranch, SplitEdge, vars
<1>5. WellNested' <=> WellNested
  BY <1>4, SamePaths
<1> SUFFICES ASSUME WellNested PROVE LaneOk(at, stack)'
  BY <1>2, <1>3, <1>5 DEF PathInv
<1>6. CASE Compile
  <2>1. at' = 1 /\ stack' = <<>>
    BY <1>6, NotDoneBefore DEF Compile, laneVars, PathInv, LaneOk
  <2>2. LaneOk(1, <<>>)'
    BY <1>2, AtEntry, PTL
  <2> QED
    BY <2>1, <2>2 DEF LaneOk, LaneAt
<1>7. ASSUME UNCHANGED vars, LaneOk(at', stack') PROVE LaneOk(at, stack)'
  BY <1>7, SameLane
<1>8. CASE RunBlock
  BY <1>7, <1>8, RunBlockLane DEF RunBlock
<1>9. CASE RunSync
  BY <1>7, <1>9, RunSyncLane DEF RunSync
<1>10. CASE UNCHANGED <<vars, laneVars>>
  <2>1. UNCHANGED vars /\ at' = at /\ stack' = stack
    BY <1>10 DEF laneVars
  <2>2. LaneOk(at', stack')
    BY <2>1 DEF PathInv
  <2> QED
    BY <1>7, <2>1, <2>2
<1> QED
  BY <1>6, <1>8, <1>9, <1>10 DEF PathNext

(* A lane changes nothing of the pass: what DivergenceProofs shows of Spec  *)
(* holds while the lane runs too.                                          *)
THEOREM LaneLeavesPass == PathSpec => Spec
<1>1. PathInit => Init
  BY DEF PathInit
<1>2. [PathNext]_<<vars, laneVars>> => [Next]_vars
  BY DEF PathNext, Compile, RunBlock, RunSync
<1> QED
  BY <1>1, <1>2, PTL DEF PathSpec, Spec

(* The stack of a lane holds the reconvergence points of the regions the   *)
(* lane is in, the innermost on top.                                       *)
THEOREM PathInvariant == PathSpec => []PathInv
<1>1. PathInit => PathInv
  BY InitPassInv, InitChains, AtEntry DEF PathInit, PathInv
<1>2. PathInv /\ [PathNext]_<<vars, laneVars>> => PathInv'
  BY PathStepInv
<1> QED
  BY <1>1, <1>2, PTL DEF PathSpec

(* Along every path of every well-nested function without loops each SYNC  *)
(* pops its own SSY, and a return leaves the stack empty.                  *)
THEOREM LanesReconverge == PathSpec => []WellNestedReconverges
<1>1. PathInv => WellNestedReconverges
  <2> SUFFICES ASSUME PathInv, WellNested PROVE SyncPopsOwnSsy /\ BalancedAtReturn
    BY DEF WellNestedReconverges
  <2>1. SyncPopsOwnSsy
    BY DEF SyncPopsOwnSsy, PathInv, LaneOk
  <2>2. ASSUME Done, succ[at] = <<>>, stack # <<>> PROVE FALSE
    <3>1. ~IsSync(at)
      <4>1. ASSUME IsSync(at) PROVE FALSE
        <5>1. Len(succ[at]) = 1
          BY <2>2, <4>1 DEF PathInv, LaneOk, PassInv, IInv, FlowPreserved
        <5>2. Len(succ[at]) = 0
          BY <2>2
        <5> QED
          BY <5>1, <5>2
      <4> QED
        BY <4>1
    <3>2. at \in Blocks /\ LaneAt(at, stack) /\ stack \in Seq(Blocks)
      BY <2>2, <3>1 DEF PathInv, LaneOk
    <3>3. PICK own \in Seq(Branches) : Len(own) = Len(stack) /\ AtBlock(own, at)
      BY <3>2 DEF LaneAt
    <3>4. Len(stack) \in Nat /\ Len(stack) > 0
      BY <2>2, <3>2, EmptySeq
    <3>5. 1 \in 1..Len(own)
      BY <3>3, <3>4
    <3>6. /\ ImmediatePostDominator(own[1]) # None
          /\ Path(own[1], at, {ImmediatePostDominator(own[1])})
          /\ own[1] \in Blocks
      BY <3>3, <3>5 DEF AtBlock, Regions, Branches
    <3>7. at \in Returns
      <4>1. Len(original[at]) = Len(succ[at]) /\ original[at] \in Seq(Nat)
        BY <3>2 DEF PathInv, PassInv, IInv, FlowPreserved, Shape, IsCfg, Blocks
      <4>2. Len(original[at]) = 0
        BY <2>2, <4>1
      <4>3. original[at] = <<>>
        BY <4>1, <4>2, EmptySeq
      <4> QED
        BY <3>2, <4>3 DEF Returns
    <3>8. /\ StrictlyPostDominates(ImmediatePostDominator(own[1]), own[1])
      BY <3>6, IpdIsNearest
    <3>9. at # ImmediatePostDominator(own[1])
      <4>1. own[1] # ImmediatePostDominator(own[1])
        BY <3>8 DEF StrictlyPostDominates
      <4>2. IsCfg(original)
        BY DEF PathInv, PassInv, IInv, Shape
      <4> QED
        BY <3>6, <4>1, <4>2, PathAvoids
    <3> QED
      BY <3>6, <3>7, <3>8, <3>9 DEF StrictlyPostDominates
  <2> QED
    BY <2>1, <2>2 DEF BalancedAtReturn
<1> QED
  BY <1>1, PathInvariant, PTL

=============================================================================
