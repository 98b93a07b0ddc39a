-------------------------- MODULE DivergenceProofs --------------------------
(***************************************************************************)
(* Two facts about runDivergencePass, for every set of functions: it never *)
(* changes where control flows to, and when it is done no edge from a      *)
(* block a branch dominates enters the branch's reconvergence point        *)
(* without a SYNC.  Neither depends on what the dominator trees answer,    *)
(* only on their not changing: no step below opens Dominates or Path.      *)
(***************************************************************************)
EXTENDS DivergencePass, FiniteSetTheorems, SequenceTheorems, TLAPS

\* The successor slots are blocks, the SYNC blocks are the appended ones and
\* have a destination each, and while a predecessor waits there is an IPD.
Shape ==
  /\ IsCfg(original)
  /\ succ \in Seq(Seq(Nat))
  /\ Len(original) <= Len(succ)
  /\ DOMAIN dest = Len(original) + 1 .. Len(succ)
  /\ \A s \in DOMAIN dest : dest[s] \in Blocks
  /\ \A b \in DOMAIN ssy : ssy[b] \in Blocks
  /\ \A p \in 1..Len(succ) : \A i \in 1..Len(succ[p]) : succ[p][i] \in 1..Len(succ)
  /\ DOMAIN preds \subseteq 1..Len(succ)
  /\ \A p \in DOMAIN preds : preds[p] \in Nat /\ (preds[p] > 0 => ipd \in Blocks)

\* The edges RegionsSynced forbids are those still listed.
Settled ==
  \A b \in DOMAIN ssy, p \in Blocks :
    Dominates(b, p) /\ (\E i \in 1..Len(succ[p]) : succ[p][i] = ssy[b])
      => ssy[b] = ipd /\ p \in DOMAIN preds /\ preds[p] > 0

IInv == Shape /\ FlowPreserved /\ Settled

\* A branch is visited once: it then has an SSY of its own post-dominator, or
\* has no post-dominator.
Visited ==
  /\ todo \subseteq Branches
  /\ DOMAIN ssy \subseteq Branches \ todo
  /\ \A b \in DOMAIN ssy : ssy[b] = ImmediatePostDominator(b) /\ ssy[b] # None
  /\ \A b \in Branches \ todo : b \in DOMAIN ssy \/ ImmediatePostDominator(b) = None

\* An SSY of block t was put before a branch that dominates p.
Owner(t, p) == \E b \in DOMAIN ssy : ssy[b] = t /\ Dominates(b, p)

\* No SYNC stands on an edge, or is about to, without its SSY further up.
Owned ==
  /\ \A s \in DOMAIN dest : \E b \in DOMAIN ssy : ssy[b] = dest[s]
  /\ \A p \in Blocks : \A i \in 1..Len(succ[p]) :
       IsSync(succ[p][i]) => Owner(dest[succ[p][i]], p)
  /\ \A p \in DOMAIN preds : preds[p] > 0 => Owner(ipd, p)

\* No terminator lists a block more than twice.
Listed == ipd \in Blocks \cup {None} /\ \A p \in DOMAIN preds : preds[p] \in 0..2

PassInv == IInv /\ Visited /\ Owned /\ Listed

-----------------------------------------------------------------------------
(* The trees are not asked to follow the changes.                          *)
LEMMA SameTrees ==
  ASSUME UNCHANGED original
  PROVE  \A a, b : Dominates(a, b)' <=> Dominates(a, b)
<1>1. Blocks' = Blocks
  BY DEF Blocks
<1>2. ASSUME NEW b PROVE SuccessorsOf(b)' = SuccessorsOf(b)
  BY DEF SuccessorsOf
<1>3. ASSUME NEW x, NEW y, NEW avoid PROVE Path(x, y, avoid)' <=> Path(x, y, avoid)
  BY <1>1, <1>2, Zenon DEF Path
<1>4. ASSUME NEW b PROVE InTree(b)' <=> InTree(b)
  BY <1>1, <1>3 DEF InTree
<1> QED
  BY <1>3, <1>4 DEF Dominates

(* The post-dominator of a branch is a block of the function or none.      *)
LEMMA IpdIsBlock ==
  ASSUME NEW b
  PROVE  ImmediatePostDominator(b) \in Blocks \cup {None}
<1> DEFINE strict == {p \in Blocks : StrictlyPostDominates(p, b)}
           nearest == {p \in strict : \A q \in strict \ {p} : StrictlyPostDominates(q, p)}
<1>1. nearest \subseteq Blocks
  OBVIOUS
<1>2. ImmediatePostDominator(b) = IF nearest = {} THEN None ELSE CHOOSE p \in nearest : TRUE
  BY DEF ImmediatePostDominator
<1> HIDE DEF nearest
<1> QED
  BY <1>1, <1>2

(* Every listed predecessor is a block, and every edge from a dominated     *)
(* block into t is listed at least once.                                   *)
LEMMA SelectedCounts ==
  ASSUME NEW b, NEW t, Shape
  PROVE  /\ DOMAIN Selected(b, t) \subseteq 1..Len(succ)
         /\ \A p \in DOMAIN Selected(b, t) : Selected(b, t)[p] \in Nat
         /\ \A p \in 1..Len(succ) :
              Dominates(b, p) /\ (\E i \in 1..Len(succ[p]) : succ[p][i] = t)
                => p \in DOMAIN Selected(b, t) /\ Selected(b, t)[p] > 0
<1>1. ASSUME NEW p \in 1..Len(succ)
      PROVE  /\ Cardinality(SlotsInto(p, t)) \in Nat
             /\ SlotsInto(p, t) # {} => Cardinality(SlotsInto(p, t)) > 0
  <2>1. Len(succ[p]) \in Nat
    BY DEF Shape
  <2>2. IsFiniteSet(1..Len(succ[p]))
    BY <2>1, FS_Interval
  <2>3. SlotsInto(p, t) \subseteq 1..Len(succ[p])
    BY DEF SlotsInto
  <2>4. IsFiniteSet(SlotsInto(p, t))
    BY <2>2, <2>3, FS_Subset
  <2>5. Cardinality(SlotsInto(p, t)) \in Nat
    BY <2>4, FS_CardinalityType
  <2>6. Cardinality(SlotsInto(p, t)) = 0 <=> SlotsInto(p, t) = {}
    BY <2>4, FS_EmptySet
  <2> QED
    BY <2>5, <2>6
<1>2. ASSUME NEW p \in 1..Len(succ), NEW i \in 1..Len(succ[p]), succ[p][i] = t
      PROVE  SlotsInto(p, t) # {}
  BY <1>2 DEF SlotsInto
<1> QED
  BY <1>1, <1>2 DEF Selected, PredecessorsOf

(* SplitEdge, slot by slot.                                                *)
LEMMA SplitShape ==
  ASSUME Shape, NEW p \in DOMAIN preds, SplitEdge(p)
  PROVE  LET s == Len(succ) + 1
         IN  /\ ipd \in Blocks
             /\ p \in 1..Len(succ)
             /\ s \in Nat /\ s > Len(original)
             /\ Len(succ') = s
             /\ succ' \in Seq(Seq(Nat))
             /\ succ'[s] = <<ipd>>
             /\ Len(succ'[p]) = Len(succ[p])
             /\ \A i \in 1..Len(succ[p]) :
                  succ'[p][i] = IF succ[p][i] = ipd THEN s ELSE succ[p][i]
             /\ \A q \in 1..Len(succ) \ {p} : succ'[q] = succ[q]
             /\ DOMAIN dest' = Len(original) + 1 .. s
             /\ dest'[s] = ipd
             /\ \A x \in DOMAIN dest : dest'[x] = dest[x]
<1> DEFINE s == Len(succ) + 1
           mid == [succ EXCEPT ![p] = Redirected(p, s)]
<1>1. /\ p \in 1..Len(succ)
      /\ ipd \in Blocks
      /\ succ \in Seq(Seq(Nat))
      /\ succ[p] \in Seq(Nat)
      /\ s \in Nat /\ s > Len(original)
      /\ Len(original) \in Nat
  BY DEF Shape, SplitEdge, IsCfg
<1>2. ipd \in Nat
  BY <1>1 DEF Blocks
<1>3. /\ Redirected(p, s) \in Seq(Nat)
      /\ Len(Redirected(p, s)) = Len(succ[p])
      /\ \A i \in 1..Len(succ[p]) :
           Redirected(p, s)[i] = IF succ[p][i] = ipd THEN s ELSE succ[p][i]
  BY <1>1 DEF Redirected
<1>4. /\ mid \in Seq(Seq(Nat))
      /\ Len(mid) = Len(succ)
      /\ mid[p] = Redirected(p, s)
      /\ \A q \in 1..Len(succ) \ {p} : mid[q] = succ[q]
  BY <1>1, <1>3
<1>5. succ' = Append(mid, <<ipd>>)
  BY DEF SplitEdge
<1>6. <<ipd>> \in Seq(Nat)
  BY <1>2
<1> HIDE DEF mid
<1>7. /\ succ' \in Seq(Seq(Nat))
      /\ Len(succ') = s
      /\ succ'[s] = <<ipd>>
      /\ \A q \in 1..Len(succ) : succ'[q] = mid[q]
  BY <1>1, <1>4, <1>5, <1>6
<1>8. /\ DOMAIN dest' = Len(original) + 1 .. s
      /\ dest'[s] = ipd
      /\ \A x \in DOMAIN dest : dest'[x] = dest[x]
  <2>1. dest' = [x \in DOMAIN dest \cup {s} |-> IF x = s THEN ipd ELSE dest[x]]
    BY DEF SplitEdge
  <2>2. DOMAIN dest = Len(original) + 1 .. Len(succ)
    BY DEF Shape
  <2>3. DOMAIN dest \cup {s} = Len(original) + 1 .. s /\ s \notin DOMAIN dest
    BY <1>1, <2>2
  <2> QED
    BY <2>1, <2>3
<1> QED
  BY <1>1, <1>3, <1>4, <1>7, <1>8

-----------------------------------------------------------------------------
(* One lemma per action.                                                   *)

LEMMA InitIInv == Init => IInv
<1> SUFFICES ASSUME Init PROVE IInv
  OBVIOUS
<1>1. IsCfg(original)
  BY CfgsAssumption DEF Init
<1>2. DOMAIN dest = {} /\ DOMAIN ssy = {} /\ DOMAIN preds = {}
  BY DEF Init, NoMap
<1>3. Shape
  BY <1>1, <1>2 DEF Init, Shape, IsCfg
<1>4. FlowPreserved
  BY <1>1, <1>2 DEF Init, FlowPreserved, Destination, IsSync, Blocks, IsCfg
<1>5. Settled
  BY <1>2 DEF Settled
<1> QED
  BY <1>3, <1>4, <1>5 DEF IInv

LEMMA SkipBranchIInv ==
  ASSUME IInv, NEW b, SkipBranch(b)
  PROVE  IInv'
<1>1. UNCHANGED <<original, succ, ssy, dest, ipd, preds>>
  BY DEF SkipBranch
<1>2. Shape'
  BY <1>1 DEF IInv, Shape, Blocks, IsCfg
<1>3. FlowPreserved'
  BY <1>1 DEF IInv, FlowPreserved, Blocks, Destination, IsSync
<1>4. Settled'
  BY <1>1, SameTrees DEF IInv, Settled, Blocks
<1> QED
  BY <1>2, <1>3, <1>4 DEF IInv

LEMMA VisitBranchIInv ==
  ASSUME IInv, NEW b, VisitBranch(b)
  PROVE  IInv'
<1> DEFINE t == ImmediatePostDominator(b)
<1>1. /\ t # None
      /\ ssy' = [x \in DOMAIN ssy \cup {b} |-> IF x = b THEN t ELSE ssy[x]]
      /\ ipd' = t
      /\ preds' = Selected(b, t)
      /\ UNCHANGED <<original, succ, dest>>
  BY DEF VisitBranch
<1>2. t \in Blocks
  BY <1>1, IpdIsBlock
<1>3. \A p \in DOMAIN preds : ~(preds[p] > 0)
  BY DEF VisitBranch, IsNext, Idle, IInv, Shape
<1> HIDE DEF t
<1>4. /\ DOMAIN preds' \subseteq 1..Len(succ)
      /\ \A p \in DOMAIN preds' : preds'[p] \in Nat
      /\ \A p \in 1..Len(succ) :
           Dominates(b, p) /\ (\E i \in 1..Len(succ[p]) : succ[p][i] = t)
             => p \in DOMAIN preds' /\ preds'[p] > 0
  BY <1>1, SelectedCounts DEF IInv
<1>5. Shape'
  BY <1>1, <1>2, <1>4 DEF IInv, Shape, Blocks
<1>6. FlowPreserved'
  BY <1>1 DEF IInv, FlowPreserved, Blocks, Destination, IsSync
<1>7. Settled'
  <2> SUFFICES ASSUME NEW c \in DOMAIN ssy', NEW p \in Blocks, Dominates(c, p),
                      NEW i \in 1..Len(succ[p]), succ[p][i] = ssy'[c]
               PROVE  ssy'[c] = ipd' /\ p \in DOMAIN preds' /\ preds'[p] > 0
    <3>1. UNCHANGED original /\ UNCHANGED succ
      BY <1>1
    <3>2. Blocks' = Blocks
      BY <3>1 DEF Blocks
    <3> QED
      BY <3>1, <3>2, SameTrees DEF Settled
  <2>1. p \in 1..Len(succ)
    BY DEF IInv, Shape, Blocks, IsCfg
  <2>2. CASE c = b
    BY <1>1, <1>4, <2>1, <2>2
  <2>3. CASE c # b
    BY <1>1, <1>3, <2>3 DEF IInv, Settled
  <2> QED
    BY <2>2, <2>3
<1> QED
  BY <1>5, <1>6, <1>7 DEF IInv

LEMMA SplitEdgeIInv ==
  ASSUME IInv, NEW p \in DOMAIN preds, SplitEdge(p)
  PROVE  IInv'
<1> DEFINE s == Len(succ) + 1
<1>1. /\ ipd \in Blocks
      /\ p \in 1..Len(succ)
      /\ s \in Nat /\ s > Len(original)
      /\ Len(succ') = s
      /\ succ' \in Seq(Seq(Nat))
      /\ succ'[s] = <<ipd>>
      /\ Len(succ'[p]) = Len(succ[p])
      /\ \A i \in 1..Len(succ[p]) :
           succ'[p][i] = IF succ[p][i] = ipd THEN s ELSE succ[p][i]
      /\ \A q \in 1..Len(succ) \ {p} : succ'[q] = succ[q]
      /\ DOMAIN dest' = Len(original) + 1 .. s
      /\ dest'[s] = ipd
      /\ \A x \in DOMAIN dest : dest'[x] = dest[x]
  BY SplitShape DEF IInv
<1>2. /\ UNCHANGED <<original, ssy, ipd>>
      /\ preds[p] \in Nat /\ preds[p] > 0
      /\ preds' = [preds EXCEPT ![p] = preds[p] - 1]
  BY DEF SplitEdge, IInv, Shape
<1>3. /\ Len(original) \in Nat /\ Len(succ) \in Nat
      /\ Len(original) <= Len(succ)
      /\ \A q \in 1..Len(succ) : Len(succ[q]) \in Nat
  BY DEF IInv, Shape, IsCfg
<1>4. Shape'
  <2>1. /\ IsCfg(original)'
        /\ Len(original') <= Len(succ')
        /\ DOMAIN dest' = Len(original') + 1 .. Len(succ')
    BY <1>1, <1>2, <1>3 DEF IInv, Shape, IsCfg
  <2>2. \A x \in DOMAIN dest' : dest'[x] \in Blocks'
    <3> SUFFICES ASSUME NEW x \in DOMAIN dest' PROVE dest'[x] \in Blocks
      BY <1>2 DEF Blocks
    <3>1. x = s \/ x \in DOMAIN dest
      BY <1>1, <1>3 DEF IInv, Shape
    <3> QED
      BY <1>1, <3>1 DEF IInv, Shape
  <2>3. \A q \in 1..Len(succ') : \A i \in 1..Len(succ'[q]) : succ'[q][i] \in 1..Len(succ')
    <3> SUFFICES ASSUME NEW q \in 1..Len(succ'), NEW i \in 1..Len(succ'[q])
                 PROVE  succ'[q][i] \in 1..s
      BY <1>1
    <3>1. CASE q = s
      <4>1. succ'[q] = <<ipd>>
        BY <1>1, <3>1
      <4>2. i = 1 /\ succ'[q][i] = ipd
        BY <4>1
      <4>3. ipd \in 1..Len(original)
        BY <1>1 DEF Blocks
      <4> QED
        BY <1>3, <4>2, <4>3
    <3>2. CASE q \in 1..Len(succ)
      <4>1. Len(succ'[q]) = Len(succ[q])
        BY <1>1, <3>2
      <4>2. i \in 1..Len(succ[q])
        BY <4>1
      <4>3. succ[q][i] \in 1..Len(succ)
        BY <3>2, <4>2 DEF IInv, Shape
      <4>4. succ'[q][i] = succ[q][i] \/ succ'[q][i] = s
        BY <1>1, <3>2, <4>2
      <4> QED
        BY <1>3, <4>3, <4>4
    <3> QED
      BY <1>1, <1>3, <3>1, <3>2
  <2>4. DOMAIN preds' \subseteq 1..Len(succ')
    BY <1>1, <1>2, <1>3 DEF IInv, Shape
  <2>5. \A q \in DOMAIN preds' : preds'[q] \in Nat /\ (preds'[q] > 0 => ipd' \in Blocks')
    <3> SUFFICES ASSUME NEW q \in DOMAIN preds'
                 PROVE  preds'[q] \in Nat /\ ipd' \in Blocks'
      OBVIOUS
    <3>1. ipd' \in Blocks'
      BY <1>1, <1>2 DEF Blocks
    <3>2. q \in DOMAIN preds /\ preds[q] \in Nat
      BY <1>2 DEF IInv, Shape
    <3>3. preds'[q] = IF q = p THEN preds[p] - 1 ELSE preds[q]
      BY <1>2, <3>2
    <3> QED
      BY <1>2, <3>1, <3>2, <3>3
  <2>6. \A b \in DOMAIN ssy' : ssy'[b] \in Blocks'
    BY <1>2 DEF IInv, Shape, Blocks
  <2>7. succ' \in Seq(Seq(Nat))
    BY <1>1
  <2> QED
    BY <2>1, <2>2, <2>3, <2>4, <2>5, <2>6, <2>7 DEF Shape
<1> DEFINE After(x) == IF x > Len(original) THEN dest'[x] ELSE x
<1>5. ASSUME NEW x \in 1..Len(succ) PROVE After(x) = Destination(x)
  <2>1. x > Len(original) => x \in DOMAIN dest
    BY <1>3 DEF IInv, Shape
  <2> QED
    BY <1>1, <2>1 DEF Destination, IsSync
<1>6. /\ After(s) = ipd
      /\ Destination(ipd) = ipd
      /\ ipd \in 1..Len(succ) /\ ~(ipd > Len(original))
  BY <1>1, <1>3 DEF Destination, IsSync, Blocks
<1>7. ASSUME NEW q \in 1..Len(succ), NEW i \in 1..Len(succ[q])
      PROVE  /\ Len(succ'[q]) = Len(succ[q])
             /\ After(succ'[q][i]) = Destination(succ[q][i])
             /\ succ'[q][i] = succ[q][i] \/ succ'[q][i] = s
  <2>1. succ[q][i] \in 1..Len(succ)
    BY DEF IInv, Shape
  <2> HIDE DEF After, s
  <2>2. CASE q # p
    BY <1>1, <1>5, <2>1, <2>2
  <2>3. CASE q = p /\ succ[q][i] # ipd
    BY <1>1, <1>5, <2>1, <2>3
  <2>4. CASE q = p /\ succ[q][i] = ipd
    BY <1>1, <1>6, <2>4
  <2> QED
    BY <2>2, <2>3, <2>4
<1>8. FlowPreserved'
  <2>1. ASSUME NEW b \in Blocks
        PROVE  /\ Len(succ'[b]) = Len(original[b])
               /\ \A i \in 1..Len(original[b]) : After(succ'[b][i]) = original[b][i]
    <3>1. b \in 1..Len(succ)
      BY <1>3 DEF Blocks
    <3>2. /\ Len(succ[b]) = Len(original[b])
          /\ \A i \in 1..Len(original[b]) : Destination(succ[b][i]) = original[b][i]
      BY DEF IInv, FlowPreserved
    <3>3. Len(succ'[b]) = Len(succ[b])
      BY <1>1, <3>1
    <3> HIDE DEF After
    <3> QED
      BY <1>7, <3>1, <3>2, <3>3
  <2>2. ASSUME NEW x \in DOMAIN dest'
        PROVE  /\ Len(succ'[x]) = 1
               /\ After(succ'[x][1]) = dest'[x]
               /\ succ'[x][1] > Len(original) => succ'[x][1] > x
    <3>1. CASE x = s
      <4>1. succ'[x] = <<ipd>>
        BY <1>1, <3>1
      <4>2. succ'[x][1] = ipd /\ Len(succ'[x]) = 1
        BY <4>1
      <4> QED
        BY <1>1, <1>6, <3>1, <4>2
    <3>2. CASE x \in DOMAIN dest
      <4>1. x \in 1..Len(succ)
        BY <1>3, <3>2 DEF IInv, Shape
      <4>2. /\ Len(succ[x]) = 1
            /\ Destination(succ[x][1]) = dest[x]
            /\ succ[x][1] > Len(original) => succ[x][1] > x
        BY <3>2 DEF IInv, FlowPreserved, IsSync
      <4>3. /\ Len(succ'[x]) = Len(succ[x])
            /\ After(succ'[x][1]) = Destination(succ[x][1])
            /\ succ'[x][1] = succ[x][1] \/ succ'[x][1] = s
        <5>1. 1 \in 1..Len(succ[x])
          BY <4>2
        <5> HIDE DEF After, s
        <5> QED
          BY <1>7, <4>1, <5>1
      <4>4. dest'[x] = dest[x]
        BY <1>1, <3>2
      <4>5. s > x
        BY <1>3, <4>1
      <4> HIDE DEF After, s
      <4> QED
        BY <4>2, <4>3, <4>4, <4>5
    <3> QED
      BY <1>1, <1>3, <3>1, <3>2 DEF IInv, Shape
  <2>3. \A x : (IF x > Len(original) THEN dest'[x] ELSE x) = After(x)
    OBVIOUS
  <2>4. original' = original
    BY <1>2
  <2> HIDE DEF After
  <2> QED
    BY <2>1, <2>2, <2>3, <2>4 DEF FlowPreserved, Blocks, Destination, IsSync
<1>9. Settled'
  <2> SUFFICES ASSUME NEW b \in DOMAIN ssy, NEW q \in Blocks, Dominates(b, q),
                      NEW i \in 1..Len(succ'[q]), succ'[q][i] = ssy[b]
               PROVE  ssy[b] = ipd /\ q \in DOMAIN preds' /\ preds'[q] > 0
    BY <1>2, SameTrees DEF Settled, Blocks
  <2>1. q \in 1..Len(succ)
    BY <1>3 DEF Blocks
  <2>2. CASE q # p
    <3>1. succ'[q] = succ[q]
      BY <1>1, <2>1, <2>2
    <3>2. ssy[b] = ipd /\ q \in DOMAIN preds /\ preds[q] > 0
      BY <3>1 DEF IInv, Settled
    <3> QED
      BY <1>2, <2>2, <3>2
  <2>3. CASE q = p
    <3>0. ssy[b] \in Blocks /\ Len(original) \in Nat
      BY <1>3 DEF IInv, Shape
    <3>1. /\ i \in 1..Len(succ[p])
          /\ succ'[p][i] = IF succ[p][i] = ipd THEN s ELSE succ[p][i]
      <4>1. i \in 1..Len(succ[p])
        BY <1>1, <2>3
      <4> QED
        BY <1>1, <4>1
    <3>2. succ'[p][i] # s
      <4>1. ssy[b] # s
        BY ONLY <1>3, <3>0 DEF Blocks
      <4>2. succ'[p][i] = ssy[b]
        BY <2>3
      <4> HIDE DEF s
      <4> QED
        BY <3>0, <4>1, <4>2 DEF Blocks
    <3>3. succ[p][i] = ssy[b] /\ succ[p][i] # ipd
      BY <2>3, <3>1, <3>2
    <3>4. ssy[b] = ipd
      BY <2>3, <3>1, <3>3 DEF IInv, Settled
    <3> QED
      BY <3>3, <3>4
  <2> QED
    BY <2>2, <2>3
<1> QED
  BY <1>4, <1>8, <1>9 DEF IInv

LEMMA StutterIInv == IInv /\ UNCHANGED vars => IInv'
<1> SUFFICES ASSUME IInv, UNCHANGED vars PROVE IInv'
  OBVIOUS
<1>1. UNCHANGED <<original, succ, ssy, dest, ipd, preds>>
  BY DEF vars
<1>2. Shape'
  BY <1>1 DEF IInv, Shape, Blocks, IsCfg
<1>3. FlowPreserved'
  BY <1>1 DEF IInv, FlowPreserved, Blocks, Destination, IsSync
<1>4. Settled'
  BY <1>1, SameTrees DEF IInv, Settled, Blocks
<1> QED
  BY <1>2, <1>3, <1>4 DEF IInv

(* The three facts above are kept by every step.                           *)
THEOREM DivergenceInvariant == Spec => []IInv
<1>1. IInv /\ [Next]_vars => IInv'
  BY SkipBranchIInv, VisitBranchIInv, SplitEdgeIInv, StutterIInv DEF Next
<1> QED
  BY InitIInv, <1>1, PTL DEF Spec

-----------------------------------------------------------------------------
(* The second half of the invariant, one lemma per action again.           *)

LEMMA SamePostDominators ==
  ASSUME UNCHANGED original
  PROVE  /\ Blocks' = Blocks /\ Branches' = Branches
         /\ \A b : ImmediatePostDominator(b)' = ImmediatePostDominator(b)
<1>1. Blocks' = Blocks /\ Branches' = Branches /\ Returns' = Returns
  BY DEF Blocks, Branches, Returns
<1>2. ASSUME NEW b PROVE SuccessorsOf(b)' = SuccessorsOf(b)
  BY DEF SuccessorsOf
<1>3. ASSUME NEW x, NEW y, NEW avoid PROVE Path(x, y, avoid)' <=> Path(x, y, avoid)
  BY <1>1, <1>2, Zenon DEF Path
<1>4. ASSUME NEW p, NEW b
      PROVE  StrictlyPostDominates(p, b)' <=> StrictlyPostDominates(p, b)
  BY <1>1, <1>3, Zenon DEF StrictlyPostDominates
<1>5. ASSUME NEW b PROVE ImmediatePostDominator(b)' = ImmediatePostDominator(b)
  <2> DEFINE strict == {p \in Blocks : StrictlyPostDominates(p, b)}
             nearest == {p \in strict : \A q \in strict \ {p} : StrictlyPostDominates(q, p)}
  <2>1. strict' = strict
    BY <1>1, <1>4
  <2>2. nearest' = nearest
    BY <2>1, <1>4
  <2>3. ImmediatePostDominator(b) = IF nearest = {} THEN None ELSE CHOOSE p \in nearest : TRUE
    BY DEF ImmediatePostDominator
  <2>4. ImmediatePostDominator(b)'
          = IF nearest' = {} THEN None ELSE CHOOSE p \in nearest' : TRUE
    BY DEF ImmediatePostDominator, None
  <2> HIDE DEF nearest
  <2> QED
    BY <2>2, <2>3, <2>4
<1> QED
  BY <1>1, <1>5

LEMMA UpToTwo == \A n \in Nat : n <= 2 <=> n \in 0..2
OBVIOUS

(* A terminator lists a block at most twice.                               *)
LEMMA AtMostTwoSlots ==
  ASSUME IInv, NEW p \in 1..Len(succ), NEW t
  PROVE  Cardinality(SlotsInto(p, t)) \in 0..2
<1>1. Len(succ[p]) \in Nat /\ Len(succ[p]) <= 2
  <2>1. CASE p \in Blocks
    <3>1. Len(succ[p]) = Len(original[p]) /\ Len(original[p]) <= 2 /\ Len(original[p]) \in Nat
      BY <2>1 DEF IInv, Shape, FlowPreserved, IsCfg, Blocks
    <3> QED
      BY <3>1
  <2>2. CASE p \notin Blocks
    <3>1. p \in DOMAIN dest
      BY <2>2 DEF IInv, Shape, IsCfg, Blocks
    <3>2. Len(succ[p]) = 1
      BY <3>1 DEF IInv, FlowPreserved
    <3> QED
      BY <3>2
  <2> QED
    BY <2>1, <2>2
<1>2. /\ IsFiniteSet(1..Len(succ[p]))
      /\ Cardinality(1..Len(succ[p])) = Len(succ[p])
  <2>1. Len(succ[p]) \in Nat
    BY <1>1
  <2>2. \A n \in Nat : IsFiniteSet(1..n) /\ Cardinality(1..n) = IF 1 > n THEN 0 ELSE n - 1 + 1
    BY FS_Interval
  <2>3. \A n \in Nat : (IF 1 > n THEN 0 ELSE n - 1 + 1) = n
    OBVIOUS
  <2> QED
    BY <2>1, <2>2, <2>3
<1>3. SlotsInto(p, t) \subseteq 1..Len(succ[p])
  BY DEF SlotsInto
<1>4. /\ IsFiniteSet(SlotsInto(p, t))
      /\ Cardinality(SlotsInto(p, t)) <= Len(succ[p])
  BY <1>2, <1>3, FS_Subset
<1>5. Cardinality(SlotsInto(p, t)) \in Nat
  BY <1>4, FS_CardinalityType
<1>6. Cardinality(SlotsInto(p, t)) <= 2
  BY <1>1, <1>4, <1>5
<1> QED
  BY <1>5, <1>6, UpToTwo

LEMMA InitPassInv == Init => PassInv
<1> SUFFICES ASSUME Init PROVE PassInv
  OBVIOUS
<1>1. IInv
  BY InitIInv
<1>2. DOMAIN dest = {} /\ DOMAIN ssy = {} /\ DOMAIN preds = {} /\ succ = original /\ ipd = None
  BY DEF Init, NoMap
<1>3. todo = Branches
  BY <1>2 DEF Init, IsConditional, Branches
<1>4. Visited
  BY <1>2, <1>3 DEF Visited
<1>5. Owned
  <2>1. ASSUME NEW p \in Blocks, NEW i \in 1..Len(succ[p]) PROVE ~IsSync(succ[p][i])
    <3>1. succ[p][i] \in 1..Len(succ) /\ Len(original) \in Nat
      BY <1>1, <1>2 DEF IInv, Shape, Blocks, IsCfg
    <3> QED
      BY <1>2, <3>1 DEF IsSync
  <2> QED
    BY <1>2, <2>1 DEF Owned
<1> QED
  BY <1>1, <1>2, <1>4, <1>5 DEF PassInv, Listed

LEMMA SkipBranchPassInv ==
  ASSUME PassInv, NEW b, SkipBranch(b)
  PROVE  PassInv'
<1>1. UNCHANGED <<original, succ, ssy, dest, ipd, preds>>
  BY DEF SkipBranch
<1>2. IInv'
  BY SkipBranchIInv DEF PassInv
<1>3. /\ Blocks' = Blocks /\ Branches' = Branches
      /\ \A c : ImmediatePostDominator(c)' = ImmediatePostDominator(c)
      /\ \A c, d : Dominates(c, d)' <=> Dominates(c, d)
  BY <1>1, SamePostDominators, SameTrees
<1>4. Visited'
  BY <1>1, <1>3 DEF PassInv, Visited, SkipBranch
<1>5. Owned'
  BY <1>1, <1>3 DEF PassInv, Owned, Owner, IsSync
<1>6. Listed'
  BY <1>1, <1>3 DEF PassInv, Listed, None
<1> QED
  BY <1>2, <1>4, <1>5, <1>6 DEF PassInv

LEMMA VisitBranchPassInv ==
  ASSUME PassInv, NEW b, VisitBranch(b)
  PROVE  PassInv'
<1> DEFINE t == ImmediatePostDominator(b)
<1>1. /\ t # None
      /\ ssy' = [x \in DOMAIN ssy \cup {b} |-> IF x = b THEN t ELSE ssy[x]]
      /\ ipd' = t
      /\ preds' = Selected(b, t)
      /\ todo' = todo \ {b}
      /\ b \in todo
      /\ UNCHANGED <<original, succ, dest>>
  BY DEF VisitBranch, IsNext
<1>2. IInv'
  BY VisitBranchIInv DEF PassInv
<1>3. /\ Blocks' = Blocks /\ Branches' = Branches
      /\ \A c : ImmediatePostDominator(c)' = ImmediatePostDominator(c)
      /\ \A c, d : Dominates(c, d)' <=> Dominates(c, d)
  BY <1>1, SamePostDominators, SameTrees
<1>4. t \in Blocks
  BY <1>1, IpdIsBlock
<1> HIDE DEF t
<1>5. b \in Branches /\ b \notin DOMAIN ssy
  BY <1>1 DEF PassInv, Visited
<1>6. /\ DOMAIN ssy' = DOMAIN ssy \cup {b}
      /\ ssy'[b] = t
      /\ \A x \in DOMAIN ssy : ssy'[x] = ssy[x]
  BY <1>1, <1>5
<1>7. Visited'
  <2>1. ssy'[b] = ImmediatePostDominator(b)'
    BY <1>3, <1>6 DEF t
  <2>2. \A c \in DOMAIN ssy' : ssy'[c] = ImmediatePostDominator(c)' /\ ssy'[c] # None
    BY <1>1, <1>3, <1>6, <2>1 DEF PassInv, Visited
  <2>3. \A c \in Branches \ (todo \ {b}) : c \in DOMAIN ssy' \/ ImmediatePostDominator(c)' = None
    BY <1>3, <1>6 DEF PassInv, Visited
  <2>4. todo' \subseteq Branches /\ DOMAIN ssy' \subseteq Branches \ todo'
    BY <1>1, <1>5, <1>6 DEF PassInv, Visited
  <2> QED
    BY <1>1, <1>3, <2>2, <2>3, <2>4 DEF Visited, None
<1>8. \A x, p : Owner(x, p) => Owner(x, p)'
  BY <1>3, <1>6 DEF Owner
<1>9. /\ \A p \in DOMAIN Selected(b, t) : Dominates(b, p) /\ p \in 1..Len(succ)
      /\ \A p \in DOMAIN Selected(b, t) :
           Selected(b, t)[p] = Cardinality(SlotsInto(p, t))
  BY DEF Selected, PredecessorsOf
<1>10. Owned'
  <2>1. ASSUME NEW p \in DOMAIN preds'
        PROVE  \E c \in DOMAIN ssy' : ssy'[c] = ipd' /\ Dominates(c, p)'
    <3>1. Dominates(b, p)
      BY <1>1, <1>9
    <3>2. b \in DOMAIN ssy' /\ ssy'[b] = ipd'
      BY <1>1, <1>6
    <3> QED
      BY <1>3, <3>1, <3>2
  <2>2. \A s \in DOMAIN dest' : \E c \in DOMAIN ssy' : ssy'[c] = dest'[s]
    BY <1>1, <1>6 DEF PassInv, Owned
  <2>3. ASSUME NEW p \in Blocks, NEW i \in 1..Len(succ[p]), IsSync(succ[p][i])
        PROVE  Owner(dest[succ[p][i]], p)'
    <3>1. Owner(dest[succ[p][i]], p)
      BY <2>3 DEF PassInv, Owned
    <3>2. UNCHANGED dest /\ UNCHANGED succ
      BY <1>1
    <3> QED
      BY <1>3, <1>6, <3>1, <3>2 DEF Owner
  <2> QED
    <3>1. \A p \in Blocks : \A i \in 1..Len(succ'[p]) :
            IsSync(succ[p][i])' => Owner(dest[succ[p][i]], p)'
      BY <1>1, <2>3 DEF IsSync
    <3>2. \A p \in DOMAIN preds' : preds'[p] > 0 => Owner(ipd, p)'
      BY <2>1 DEF Owner
    <3> QED
      BY <1>3, <2>2, <3>1, <3>2 DEF Owned
<1>11. Listed'
  <2>1. ASSUME NEW p \in 1..Len(succ) PROVE Cardinality(SlotsInto(p, t)) \in 0..2
    BY AtMostTwoSlots DEF PassInv
  <2>2. \A p \in DOMAIN preds' : preds'[p] \in 0..2
    BY <1>1, <1>9, <2>1
  <2> QED
    BY <1>1, <1>3, <1>4, <2>2 DEF Listed
<1> QED
  BY <1>2, <1>7, <1>10, <1>11 DEF PassInv

LEMMA SplitEdgePassInv ==
  ASSUME PassInv, NEW p \in DOMAIN preds, SplitEdge(p)
  PROVE  PassInv'
<1> DEFINE s == Len(succ) + 1
<1>1. /\ ipd \in Blocks
      /\ p \in 1..Len(succ)
      /\ s \in Nat /\ s > Len(original)
      /\ Len(succ') = s
      /\ succ'[s] = <<ipd>>
      /\ Len(succ'[p]) = Len(succ[p])
      /\ \A i \in 1..Len(succ[p]) :
           succ'[p][i] = IF succ[p][i] = ipd THEN s ELSE succ[p][i]
      /\ \A q \in 1..Len(succ) \ {p} : succ'[q] = succ[q]
      /\ DOMAIN dest' = Len(original) + 1 .. s
      /\ dest'[s] = ipd
      /\ \A x \in DOMAIN dest : dest'[x] = dest[x]
  BY SplitShape DEF PassInv, IInv
<1>2. /\ UNCHANGED <<original, ssy, ipd, todo>>
      /\ preds[p] \in Nat /\ preds[p] > 0
      /\ preds' = [preds EXCEPT ![p] = preds[p] - 1]
  BY DEF SplitEdge, PassInv, IInv, Shape
<1>3. /\ Blocks' = Blocks /\ Branches' = Branches
      /\ \A c : ImmediatePostDominator(c)' = ImmediatePostDominator(c)
      /\ \A c, d : Dominates(c, d)' <=> Dominates(c, d)
  BY <1>2, SamePostDominators, SameTrees
<1>4. IInv'
  BY SplitEdgeIInv DEF PassInv
<1>5. Visited'
  BY <1>2, <1>3 DEF PassInv, Visited, None
<1>6. /\ DOMAIN dest = Len(original) + 1 .. Len(succ)
      /\ Len(original) \in Nat /\ Len(succ) \in Nat /\ Len(original) <= Len(succ)
  BY DEF PassInv, IInv, Shape, IsCfg
<1>7. Owner(ipd, p)
  BY <1>2 DEF PassInv, Owned
<1>8. Owned'
  <2>1. \A x \in DOMAIN dest' : \E c \in DOMAIN ssy' : ssy'[c] = dest'[x]
    <3> SUFFICES ASSUME NEW x \in DOMAIN dest' PROVE \E c \in DOMAIN ssy : ssy[c] = dest'[x]
      BY <1>2
    <3>1. CASE x = s
      BY <1>1, <1>7, <3>1 DEF Owner
    <3>2. CASE x \in DOMAIN dest
      BY <1>1, <3>2 DEF PassInv, Owned
    <3> QED
      BY <1>1, <1>6, <3>1, <3>2
  <2>2. ASSUME NEW q \in Blocks, NEW i \in 1..Len(succ'[q]), succ'[q][i] > Len(original)
        PROVE  Owner(dest'[succ'[q][i]], q)
    <3>1. q \in 1..Len(succ)
      BY <1>6 DEF Blocks
    <3>2. i \in 1..Len(succ[q])
      BY <1>1, <3>1
    <3>3. succ'[q][i] = succ[q][i] \/ (q = p /\ succ'[q][i] = s)
      BY <1>1, <3>1, <3>2
    <3>4. CASE q = p /\ succ'[q][i] = s
      BY <1>1, <1>7, <3>4
    <3>5. CASE succ'[q][i] = succ[q][i]
      <4>1. succ[q][i] \in 1..Len(succ)
        BY <3>1, <3>2 DEF PassInv, IInv, Shape
      <4>2. succ[q][i] \in DOMAIN dest
        BY <1>6, <2>2, <3>5, <4>1
      <4>3. Owner(dest[succ[q][i]], q)
        BY <2>2, <3>2, <3>5 DEF PassInv, Owned, IsSync
      <4> QED
        BY <1>1, <3>5, <4>2, <4>3
    <3> QED
      BY <3>3, <3>4, <3>5
  <2>3. \A q \in DOMAIN preds' : preds'[q] > 0 => Owner(ipd, q)
    <3> SUFFICES ASSUME NEW q \in DOMAIN preds', preds'[q] > 0 PROVE Owner(ipd, q)
      OBVIOUS
    <3>1. q \in DOMAIN preds
      BY <1>2
    <3>2. CASE q = p
      BY <1>7, <3>2
    <3>3. CASE q # p
      BY <1>2, <3>1, <3>3 DEF PassInv, Owned
    <3> QED
      BY <3>2, <3>3
  <2>4. \A x, q : Owner(x, q) => \E c \in DOMAIN ssy' : ssy'[c] = x /\ Dominates(c, q)'
    BY <1>2, <1>3 DEF Owner
  <2>5. Len(original') = Len(original) /\ ipd' = ipd
    BY <1>2
  <2> QED
    BY <1>3, <2>1, <2>2, <2>3, <2>4, <2>5 DEF Owned, Owner, IsSync
<1>9. Listed'
  <2>1. \A q \in DOMAIN preds' : preds'[q] \in 0..2
    <3> SUFFICES ASSUME NEW q \in DOMAIN preds' PROVE preds'[q] \in 0..2
      OBVIOUS
    <3>1. q \in DOMAIN preds /\ preds[q] \in 0..2 /\ preds[p] \in 0..2
      BY <1>2 DEF PassInv, Listed
    <3>2. preds'[q] = IF q = p THEN preds[p] - 1 ELSE preds[q]
      BY <1>2, <3>1
    <3> QED
      BY <1>2, <3>1, <3>2
  <2> QED
    BY <1>1, <1>2, <1>3, <2>1 DEF Listed
<1> QED
  BY <1>4, <1>5, <1>8, <1>9 DEF PassInv

LEMMA StutterPassInv == PassInv /\ UNCHANGED vars => PassInv'
<1> SUFFICES ASSUME PassInv, UNCHANGED vars PROVE PassInv'
  OBVIOUS
<1>1. UNCHANGED <<original, succ, ssy, dest, todo, ipd, preds>>
  BY DEF vars
<1>2. IInv'
  BY StutterIInv DEF PassInv
<1>3. /\ Blocks' = Blocks /\ Branches' = Branches
      /\ \A c : ImmediatePostDominator(c)' = ImmediatePostDominator(c)
      /\ \A c, d : Dominates(c, d)' <=> Dominates(c, d)
  BY <1>1, SamePostDominators, SameTrees
<1>4. Visited'
  BY <1>1, <1>3 DEF PassInv, Visited, None
<1>5. Owned'
  BY <1>1, <1>3 DEF PassInv, Owned, Owner, IsSync
<1>6. Listed'
  BY <1>1, <1>3 DEF PassInv, Listed, None
<1> QED
  BY <1>2, <1>4, <1>5, <1>6 DEF PassInv

(* Each branch is visited once, and every SYNC has its SSY further up.     *)
THEOREM PassInvariant == Spec => []PassInv
<1>1. PassInv /\ [Next]_vars => PassInv'
  BY SkipBranchPassInv, VisitBranchPassInv, SplitEdgePassInv, StutterPassInv DEF Next
<1> QED
  BY InitPassInv, <1>1, PTL DEF Spec

-----------------------------------------------------------------------------
LEMMA SeqOver ==
  ASSUME NEW S, NEW T, NEW s \in Seq(S), \A i \in 1..Len(s) : s[i] \in T
  PROVE  s \in Seq(T)
<1>1. s \in [1..Len(s) -> S] /\ Len(s) \in Nat
  BY LenProperties
<1>2. s \in [1..Len(s) -> T]
  BY <1>1
<1> QED
  BY <1>1, <1>2, SeqDef

(* The type invariant of the pass.                                         *)
THEOREM PassTypes == Spec => []TypeOK
<1>1. PassInv => TypeOK
  <2> SUFFICES ASSUME PassInv PROVE TypeOK
    OBVIOUS
  <2>1. succ \in Seq(Seq(1..Len(succ)))
    <3>1. /\ succ \in Seq(Seq(Nat))
          /\ \A p \in 1..Len(succ) : \A i \in 1..Len(succ[p]) : succ[p][i] \in 1..Len(succ)
      BY DEF PassInv, IInv, Shape
    <3>2. ASSUME NEW p \in 1..Len(succ) PROVE succ[p] \in Seq(1..Len(succ))
      <4>1. succ[p] \in Seq(Nat)
        BY <3>1
      <4> QED
        BY <3>1, <4>1, SeqOver
    <3> QED
      BY <3>1, <3>2, SeqOver
  <2>2. DOMAIN ssy \subseteq Blocks
    BY DEF PassInv, Visited, Branches
  <2> QED
    BY <2>1, <2>2 DEF TypeOK, PassInv, IInv, Shape, Listed
<1> QED
  BY <1>1, PassInvariant, PTL

(* At every moment of the pass each terminator leads, slot by slot, to the *)
(* block it led to in the function the pass was given.                     *)
THEOREM FlowIsPreserved == Spec => []FlowPreserved
<1>1. IInv => FlowPreserved
  BY DEF IInv
<1> QED
  BY <1>1, DivergenceInvariant, PTL

LEMMA SyncedWhenDone == IInv => RegionsSynced
<1> SUFFICES ASSUME IInv, Done, NEW b \in DOMAIN ssy, NEW p \in Blocks,
                    Dominates(b, p), NEW i \in 1..Len(succ[p]), succ[p][i] = ssy[b]
             PROVE  FALSE
  BY DEF RegionsSynced
<1>1. p \in DOMAIN preds /\ preds[p] > 0
  BY DEF IInv, Settled
<1> QED
  BY <1>1 DEF Done, Idle

(* When the pass is done, every edge into a reconvergence point from a     *)
(* block that its branch dominates has a SYNC on it.                       *)
THEOREM RegionsAreSynced == Spec => []RegionsSynced
BY SyncedWhenDone, DivergenceInvariant, PTL

=============================================================================
