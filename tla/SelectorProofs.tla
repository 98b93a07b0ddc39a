--------------------------- MODULE SelectorProofs ---------------------------
(***************************************************************************)
(* The numbers of virtual registers: for every kernel, no two values get   *)
(* the same one.  The code made of them: the shape the lane counts on when *)
(* it runs, and what an instruction of each class is turned into.  From    *)
(* these, with dominance: the lane reads no register that is not filled.   *)
(***************************************************************************)
EXTENDS SelectedExecution, FiniteSetTheorems, SequenceTheorems, WellFoundedInduction, TLAPS

\* The numbers given so far are below nextVReg, and no two values share one.
Numbered ==
  /\ nextVReg \in Nat \ {0}
  /\ \A v \in DOMAIN valueToVReg : valueToVReg[v] \in 1..(nextVReg - 1)
  /\ \A v, w \in DOMAIN valueToVReg : valueToVReg[v] = valueToVReg[w] => v = w

\* The asks of a handler are a list.
IsList(asks) == \E n \in Nat : DOMAIN asks = 1..n

LEMMA Lists ==
  /\ IsList(<<>>)
  /\ \A a : IsList(<<a>>)
  /\ \A a, b : IsList(<<a, b>>)
  /\ \A a, b, c : IsList(<<a, b, c>>)
  /\ \A a, b, c, d : IsList(<<a, b, c, d>>)
  /\ \A a, b, c, d, e : IsList(<<a, b, c, d, e>>)
  BY DEF IsList

\* A new ask later in the list gets a higher number, below the next one after
\* the list.
LEMMA AllocatedGrows ==
  ASSUME nextVReg \in Nat, NEW n \in Nat, NEW asks
  PROVE  LET new == {k \in 1..n : IsNew(asks, k)}
         IN  /\ Cardinality(new) \in Nat
             /\ \A k \in new : Allocated(asks, k) \in nextVReg..(nextVReg + Cardinality(new) - 1)
             /\ \A j, k \in new : j < k => Allocated(asks, j) < Allocated(asks, k)
<1> DEFINE new == {k \in 1..n : IsNew(asks, k)}
           earlier(k) == {j \in 1..(k - 1) : IsNew(asks, j)}
<1>1. IsFiniteSet(new) /\ Cardinality(new) \in Nat
  <2>1. IsFiniteSet(1..n)
    BY FS_Interval
  <2>2. IsFiniteSet(new)
    BY <2>1, FS_Subset
  <2> QED
    BY <2>2, FS_CardinalityType
<1>2. \A k \in new : /\ earlier(k) \in SUBSET new /\ k \notin earlier(k)
                     /\ IsFiniteSet(earlier(k)) /\ Cardinality(earlier(k)) \in Nat
                     /\ Cardinality(earlier(k)) < Cardinality(new)
  <2> SUFFICES ASSUME NEW k \in new
               PROVE  /\ earlier(k) \in SUBSET new /\ k \notin earlier(k)
                      /\ IsFiniteSet(earlier(k)) /\ Cardinality(earlier(k)) \in Nat
                      /\ Cardinality(earlier(k)) < Cardinality(new)
    OBVIOUS
  <2>1. earlier(k) \in SUBSET new /\ k \notin earlier(k)
    OBVIOUS
  <2> HIDE DEF new, earlier
  <2>2. /\ IsFiniteSet(earlier(k))
        /\ Cardinality(earlier(k)) <= Cardinality(new)
        /\ Cardinality(new) # Cardinality(earlier(k))
    BY <1>1, <2>1, FS_Subset
  <2>3. Cardinality(earlier(k)) \in Nat
    BY <2>2, FS_CardinalityType
  <2> QED
    BY <1>1, <2>1, <2>2, <2>3
<1>3. \A j, k \in new : j < k => Cardinality(earlier(j)) < Cardinality(earlier(k))
  <2> SUFFICES ASSUME NEW j \in new, NEW k \in new, j < k
               PROVE  Cardinality(earlier(j)) < Cardinality(earlier(k))
    OBVIOUS
  <2>1. earlier(j) \in SUBSET earlier(k) /\ j \in earlier(k) /\ j \notin earlier(j)
    OBVIOUS
  <2> HIDE DEF new, earlier
  <2>2. /\ Cardinality(earlier(j)) <= Cardinality(earlier(k))
        /\ Cardinality(earlier(k)) # Cardinality(earlier(j))
    BY <1>2, <2>1, FS_Subset
  <2> QED
    BY <1>2, <2>2
<1>4. \A k : Allocated(asks, k) = nextVReg + Cardinality(earlier(k))
  BY DEF Allocated
<1> HIDE DEF new, earlier
<1>5. /\ \A k \in new : Allocated(asks, k) \in nextVReg..(nextVReg + Cardinality(new) - 1)
      /\ \A j, k \in new : j < k => Allocated(asks, j) < Allocated(asks, k)
  BY <1>1, <1>2, <1>3, <1>4
<1> QED
  BY <1>1, <1>5 DEF new

\* What a handler asks for keeps the numbers apart.
LEMMA RecordNumbered ==
  ASSUME Numbered, NEW asks, IsList(asks), Record(asks)
  PROVE  Numbered'
<1> USE DEF Numbered
<1>1. PICK n \in Nat : DOMAIN asks = 1..n
  BY DEF IsList
<1> DEFINE new == {k \in 1..n : IsNew(asks, k)}
           values == {asks[k].value : k \in new} \ {Temporary}
           number(v) == Register(asks, CHOOSE k \in new : asks[k].value = v)
<1>2. /\ Cardinality(new) \in Nat
      /\ \A k \in new : Allocated(asks, k) \in nextVReg..(nextVReg + Cardinality(new) - 1)
      /\ \A j, k \in new : j < k => Allocated(asks, j) < Allocated(asks, k)
  BY AllocatedGrows
<1>3. /\ valueToVReg' = [v \in DOMAIN valueToVReg \cup values |->
                           IF v \in DOMAIN valueToVReg THEN valueToVReg[v] ELSE number(v)]
      /\ nextVReg' = nextVReg + Cardinality(new)
  BY <1>1 DEF Record
<1>4. \A v \in values : /\ v \notin DOMAIN valueToVReg
                        /\ \E k \in new : asks[k].value = v /\ number(v) = Allocated(asks, k)
  <2> SUFFICES ASSUME NEW v \in values
               PROVE  /\ v \notin DOMAIN valueToVReg
                      /\ \E k \in new : asks[k].value = v /\ number(v) = Allocated(asks, k)
    OBVIOUS
  <2> DEFINE k == CHOOSE k \in new : asks[k].value = v
             first == CHOOSE j \in 1..k : IsNew(asks, j) /\ asks[j].value = v
  <2>1. k \in new /\ asks[k].value = v /\ v # Temporary
    OBVIOUS
  <2>2. v # Zero /\ v \notin DOMAIN valueToVReg
    BY <2>1 DEF IsNew
  <2>3. k \in 1..n /\ IsNew(asks, k)
    BY <2>1
  <2> HIDE DEF k
  <2>4. first \in 1..k /\ IsNew(asks, first) /\ asks[first].value = v
    <3>1. k \in 1..k
      BY <2>3
    <3> QED
      BY <2>1, <2>3, <3>1
  <2>5. Register(asks, k) = Allocated(asks, first)
    BY <2>1, <2>2 DEF Register
  <2> HIDE DEF first
  <2>6. first \in new
    BY <2>3, <2>4
  <2>7. number(v) = Register(asks, k)
    BY DEF k
  <2> QED
    BY <2>2, <2>4, <2>5, <2>6, <2>7
<1> HIDE DEF new, values, number
<1>5. \A v \in values : number(v) \in nextVReg..(nextVReg + Cardinality(new) - 1)
  BY <1>2, <1>4
<1>6. \A v, w \in values : number(v) = number(w) => v = w
  <2> SUFFICES ASSUME NEW v \in values, NEW w \in values, number(v) = number(w)
               PROVE  v = w
    OBVIOUS
  <2>1. PICK j \in new : asks[j].value = v /\ number(v) = Allocated(asks, j)
    BY <1>4
  <2>2. PICK k \in new : asks[k].value = w /\ number(w) = Allocated(asks, k)
    BY <1>4
  <2>3. /\ j \in Nat /\ k \in Nat
        /\ Allocated(asks, j) \in Int /\ Allocated(asks, k) \in Int
    BY <1>2 DEF new
  <2>4. j < k => Allocated(asks, j) < Allocated(asks, k)
    BY <1>2
  <2>5. k < j => Allocated(asks, k) < Allocated(asks, j)
    BY <1>2
  <2>6. Allocated(asks, j) = Allocated(asks, k)
    BY <2>1, <2>2
  <2>7. ~(j < k) /\ ~(k < j)
    BY <2>3, <2>4, <2>5, <2>6
  <2>8. j = k
    BY <2>3, <2>7
  <2> QED
    BY <2>1, <2>2, <2>8
<1> QED
  BY <1>2, <1>3, <1>4, <1>5, <1>6

LEMMA HandleNumbered ==
  ASSUME Numbered, NEW asks, NEW own, IsList(asks), Handle(asks, own)
  PROVE  Numbered'
  BY RecordNumbered DEF Handle

LEMMA StepNumbered == Numbered /\ [Next]_selectorVars => Numbered'
<1> SUFFICES ASSUME Numbered, [Next]_selectorVars PROVE Numbered'
  OBVIOUS
<1>1. CASE LoadArgument
  <2>1. PICK k : Record(<<Get(Arg(k)), Number(8 * k)>>)
    BY <1>1 DEF LoadArgument
  <2> QED
    BY <2>1, Lists, RecordNumbered
<1>2. CASE SelectBinaryOp
  BY <1>2, Lists, HandleNumbered DEF SelectBinaryOp
<1>3. CASE SelectCmp \/ SelectBranch
  BY <1>3, Lists, HandleNumbered DEF SelectCmp, SelectBranch, Compared
<1>4. CASE SelectLoad \/ SelectStore \/ SelectCast \/ SelectAlloca
  BY <1>4, Lists, HandleNumbered DEF SelectLoad, SelectStore, SelectCast, SelectAlloca
<1>5. CASE SelectGEP
  BY <1>5, Lists, HandleNumbered DEF SelectGEP
<1>6. CASE SelectRegisterRead \/ SelectGlobalId
  BY <1>6, Lists, HandleNumbered DEF SelectRegisterRead, SelectGlobalId
<1>7. CASE SelectBarrier \/ SelectSsy \/ SelectExit \/ Drop
  BY <1>7, Lists, HandleNumbered DEF SelectBarrier, SelectSsy, SelectExit, Drop
<1>8. CASE UNCHANGED selectorVars
  BY <1>8 DEF selectorVars, Numbered
<1> QED
  BY <1>1, <1>2, <1>3, <1>4, <1>5, <1>6, <1>7, <1>8 DEF Next

LEMMA NumbersApart == Spec => []Numbered
<1>1. Init => Numbered
  BY DEF Init, Numbered, EmptyMap
<1> QED
  BY <1>1, StepNumbered, PTL DEF Spec

\* As long as the numbers fit the fields of an instruction, no two values of a
\* function have the same register in the code, and none has R0.
THEOREM ValuesAreKeptApart == Spec => []ValuesKeepApart
<1>1. Numbered => ValuesKeepApart
  <2> SUFFICES ASSUME Numbered, nextVReg <= FieldSize
               PROVE  /\ \A v \in DOMAIN valueToVReg : Field(valueToVReg[v]) # VREG_ZERO
                      /\ \A v, w \in DOMAIN valueToVReg :
                           Field(valueToVReg[v]) = Field(valueToVReg[w]) => v = w
    BY DEF ValuesKeepApart
  <2>1. \A v \in DOMAIN valueToVReg :
          /\ Field(valueToVReg[v]) = valueToVReg[v]
          /\ valueToVReg[v] # VREG_ZERO
    <3> SUFFICES ASSUME NEW v \in DOMAIN valueToVReg
                 PROVE  Field(valueToVReg[v]) = valueToVReg[v] /\ valueToVReg[v] # VREG_ZERO
      OBVIOUS
    <3> DEFINE r == valueToVReg[v]
    <3>1. r \in 1..(FieldSize - 1) /\ FieldSize \in Nat \ {0}
      BY FieldSizeAssumption DEF Numbered
    <3> HIDE DEF r
    <3>2. Field(r) = r /\ r # VREG_ZERO
      BY <3>1 DEF Field, VREG_ZERO
    <3> QED
      BY <3>2 DEF r
  <2> QED
    BY <2>1 DEF Numbered
<1> QED
  BY <1>1, NumbersApart, PTL

\* So it is in the code that the lane runs.
THEOREM LaneValuesAreKeptApart == LaneSpec => []ValuesKeepApart
<1>1. LaneInit => Init
  BY DEF LaneInit
<1>2. [LaneNext]_<<selectorVars, laneVars>> => [Next]_selectorVars
  BY DEF LaneNext, Select, Pass, Step, TakeBranch, Exit, ReadUnfilled
<1> QED
  BY <1>1, <1>2, ValuesAreKeptApart, PTL DEF LaneSpec, Spec

-----------------------------------------------------------------------------
(* What the verifier of LLVM says of the kernel.                           *)

LEMMA KernelShape ==
  ASSUME kernel \in Kernels
  PROVE  /\ Len(kernel.blocks) \in Nat \ {0}
         /\ Blocks = 1..Len(kernel.blocks)
         /\ kernel.params \in Nat
         /\ \A b \in Blocks : /\ CodeOf(b) \in Seq(IRInstruction)
                              /\ Len(CodeOf(b)) \in Nat \ {0}
                              /\ DOMAIN CodeOf(b) = 1..Len(CodeOf(b))
<1>1. IsVerified(kernel) /\ kernel.params \in Nat /\ kernel.blocks # <<>>
  BY VerifiedAssumption, KernelsAssumption
<1>2. kernel.blocks \in Seq([name : STRING, code : Seq(IRInstruction)])
  BY <1>1 DEF IsVerified
<1>3. /\ Len(kernel.blocks) \in Nat \ {0}
      /\ Blocks = 1..Len(kernel.blocks)
  BY <1>1, <1>2, EmptySeq, LenProperties DEF Blocks
<1>4. ASSUME NEW b \in Blocks
      PROVE  /\ CodeOf(b) \in Seq(IRInstruction)
             /\ Len(CodeOf(b)) \in Nat \ {0}
             /\ DOMAIN CodeOf(b) = 1..Len(CodeOf(b))
  <2>1. CodeOf(b) # <<>>
    BY <1>1 DEF IsVerified, IsVerifiedBlock, Blocks, CodeOf
  <2>2. CodeOf(b) \in Seq(IRInstruction)
    <3> DEFINE T == [name : STRING, code : Seq(IRInstruction)]
    <3>1. kernel.blocks \in Seq(T) /\ b \in 1..Len(kernel.blocks)
      BY <1>2, <1>3
    <3>2. kernel.blocks[b] \in T
      <4> HIDE DEF T
      <4> QED
        BY <3>1, LenProperties
    <3> QED
      BY <3>2 DEF CodeOf
  <2> QED
    BY <2>1, <2>2, EmptySeq, LenProperties
<1> QED
  BY <1>1, <1>3, <1>4

-----------------------------------------------------------------------------
(* Types.                                                                  *)

\* rd is a register, a branch goes to a block.
IsInstruction(mi) ==
  /\ mi.rd \in 0..(FieldSize - 1)
  /\ mi.op = "BR" => \E b \in Blocks : mi.labelTarget = BlockName(b)

IsGroup(g) ==
  /\ \E S : g \in Seq(S)
  /\ \A e \in 1..Len(g) : IsInstruction(g[e])

LEMMA NoGroup == IsGroup(<<>>)
<1>1. <<>> \in Seq({}) /\ Len(<<>>) = 0
  BY EmptySeq
<1> QED
  BY <1>1 DEF IsGroup

LEMMA GroupOfOne == ASSUME NEW m, IsInstruction(m) PROVE IsGroup(<<m>>)
<1>1. <<m>> \in Seq({m}) /\ \A e \in 1..Len(<<m>>) : <<m>>[e] = m
  OBVIOUS
<1>2. \A e \in 1..Len(<<m>>) : IsInstruction(<<m>>[e])
  BY <1>1
<1> QED
  BY <1>1, <1>2, Zenon DEF IsGroup

LEMMA GroupsJoin ==
  ASSUME NEW g, NEW h, IsGroup(g), IsGroup(h) PROVE IsGroup(g \o h)
<1>1. PICK S : g \in Seq(S)
  BY DEF IsGroup
<1>2. PICK T : h \in Seq(T)
  BY DEF IsGroup
<1>3. g \in Seq(S \cup T) /\ h \in Seq(S \cup T)
  BY <1>1, <1>2
<1>4. /\ g \o h \in Seq(S \cup T)
      /\ Len(g) \in Nat /\ Len(h) \in Nat
      /\ Len(g \o h) = Len(g) + Len(h)
      /\ \A e \in 1..(Len(g) + Len(h)) :
           (g \o h)[e] = IF e <= Len(g) THEN g[e] ELSE h[e - Len(g)]
  BY <1>3, ConcatProperties, LenProperties
<1>5. ASSUME NEW e \in 1..Len(g \o h) PROVE IsInstruction((g \o h)[e])
  <2>1. CASE e <= Len(g)
    BY <1>4, <2>1 DEF IsGroup
  <2>2. CASE ~(e <= Len(g))
    <3>1. e - Len(g) \in 1..Len(h)
      BY <1>4, <2>2
    <3> QED
      BY <1>4, <2>2, <3>1 DEF IsGroup
  <2> QED
    BY <2>1, <2>2
<1> QED
  BY <1>4, <1>5 DEF IsGroup

-----------------------------------------------------------------------------
(* What the asks of a handler bring.                                       *)

\* No handler asks for more than five registers.
IsAsks(asks) ==
  \E n \in 0..5 : /\ DOMAIN asks = 1..n
                  /\ \A k \in 1..n : asks[k].fill = <<>> \/ \E c : asks[k].fill = <<c>>

Brings(asks, k) == IsNew(asks, k) /\ asks[k].fill # <<>>

FillOf(asks, k) == Plain("ADDI", Register(asks, k), VREG_ZERO, 0, asks[k].fill[1])

\* The instructions the first n asks bring, each with the ask it is from.
Filling(asks, n, fills, from) ==
  /\ \E S : fills \in Seq(S)
  /\ from \in [1..Len(fills) -> 1..n]
  /\ \A e \in 1..Len(fills) : Brings(asks, from[e]) /\ fills[e] = FillOf(asks, from[e])
  /\ \A d, e \in 1..Len(fills) : d < e => from[d] < from[e]
  /\ \A k \in 1..n : Brings(asks, k) => \E e \in 1..Len(fills) : from[e] = k

\* The sequences made of the first sequences of s.
AreJoined(s, n, f) == f[1] = s[1] /\ \A i \in 2..n : f[i] = f[i - 1] \o s[i]

LEMMA FlattenFive ==
  ASSUME NEW S, NEW n \in 1..5, NEW s \in [1..n -> Seq(S)]
  PROVE  \E f \in [1..n -> Seq(S)] : AreJoined(s, n, f) /\ FlattenSeq(s) = f[n]
<1> DEFINE Is(f) == f = [i \in 1..Len(s) |-> IF i = 1 THEN s[i] ELSE f[i - 1] \o s[i]]
           two == s[1] \o s[2]
           three == two \o s[3]
           four == three \o s[4]
           five == four \o s[5]
           g == [i \in 1..n |-> IF i = 1 THEN s[1] ELSE IF i = 2 THEN two
                                ELSE IF i = 3 THEN three ELSE IF i = 4 THEN four
                                ELSE five]
           flat == CHOOSE f : Is(f)
<1>1. s \in Seq(Seq(S)) /\ Len(s) = n
  OBVIOUS
<1>2. Is(g)
  <2> SUFFICES ASSUME NEW i \in 1..n PROVE g[i] = IF i = 1 THEN s[i] ELSE g[i - 1] \o s[i]
    BY <1>1
  <2>1. CASE i = 1
    BY <2>1
  <2>2. CASE i \in 2..5
    <3>1. two = s[1] \o s[2] /\ three = two \o s[3] /\ four = three \o s[4] /\ five = four \o s[5]
      OBVIOUS
    <3> HIDE DEF two, three, four, five
    <3>2. CASE i = 2
      <4>1. g[i - 1] = s[1] /\ g[i] = two
        BY <3>2
      <4> QED
        BY <3>1, <3>2, <4>1
    <3>3. CASE i = 3
      <4>1. g[i - 1] = two /\ g[i] = three
        BY <3>3
      <4> QED
        BY <3>1, <3>3, <4>1
    <3>4. CASE i = 4
      <4>1. g[i - 1] = three /\ g[i] = four
        BY <3>4
      <4> QED
        BY <3>1, <3>4, <4>1
    <3>5. CASE i = 5
      <4>1. g[i - 1] = four /\ g[i] = five
        BY <3>5
      <4> QED
        BY <3>1, <3>5, <4>1
    <3> QED
      BY <2>2, <3>2, <3>3, <3>4, <3>5
  <2> QED
    BY <2>1, <2>2
<1>3. FlattenSeq(s) = flat[n]
  BY <1>1 DEF FlattenSeq
<1>4. Is(flat)
  <2> HIDE DEF Is
  <2> QED
    BY <1>2
<1> HIDE DEF flat, g
<1>5. /\ DOMAIN flat = 1..n
      /\ flat[1] = s[1]
      /\ \A i \in 2..n : flat[i] = flat[i - 1] \o s[i]
      /\ flat = [i \in 1..n |-> flat[i]]
  <2> DEFINE step(i) == IF i = 1 THEN s[i] ELSE flat[i - 1] \o s[i]
  <2>1. flat = [i \in 1..n |-> step(i)]
    BY <1>1, <1>4
  <2>2. \A i \in 1..n : flat[i] = step(i)
    <3> HIDE DEF step
    <3> QED
      BY <2>1
  <2>3. DOMAIN flat = 1..n /\ flat = [i \in 1..n |-> flat[i]]
    <3> HIDE DEF step
    <3> QED
      BY <2>1
  <2>4. flat[1] = s[1]
    <3>1. 1 \in 1..n /\ step(1) = s[1]
      OBVIOUS
    <3> HIDE DEF step
    <3> QED
      BY <2>2, <3>1
  <2>5. ASSUME NEW i \in 2..n PROVE flat[i] = flat[i - 1] \o s[i]
    <3>1. i \in 1..n /\ i # 1
      OBVIOUS
    <3>2. step(i) = flat[i - 1] \o s[i]
      BY <3>1
    <3> HIDE DEF step
    <3> QED
      BY <2>2, <3>1, <3>2
  <2> HIDE DEF step
  <2> QED
    BY <2>3, <2>4, <2>5
<1>6. \A i \in 1..n : flat[i] \in Seq(S)
  <2>1. \A i \in 1..n : s[i] \in Seq(S)
    OBVIOUS
  <2>2. flat[1] \in Seq(S)
    BY <1>5, <2>1
  <2>3. \A i \in 2..n : flat[i - 1] \in Seq(S) => flat[i] \in Seq(S)
    <3> SUFFICES ASSUME NEW i \in 2..n, flat[i - 1] \in Seq(S) PROVE flat[i] \in Seq(S)
      OBVIOUS
    <3>1. flat[i] = flat[i - 1] \o s[i] /\ s[i] \in Seq(S)
      <4>1. i \in 1..n
        OBVIOUS
      <4> QED
        BY <1>5, <2>1, <4>1
    <3>2. flat[i - 1] \o s[i] \in Seq(S)
      BY <3>1, ConcatProperties
    <3> QED
      BY <3>1, <3>2
  <2>4. n >= 2 => flat[2] \in Seq(S)
    BY <2>2, <2>3
  <2>5. n >= 3 => flat[3] \in Seq(S)
    BY <2>3, <2>4
  <2>6. n >= 4 => flat[4] \in Seq(S)
    BY <2>3, <2>5
  <2>7. n >= 5 => flat[5] \in Seq(S)
    BY <2>3, <2>6
  <2>8. \A i \in 1..n : i = 1 \/ (i = 2 /\ n >= 2) \/ (i = 3 /\ n >= 3)
                        \/ (i = 4 /\ n >= 4) \/ (i = 5 /\ n >= 5)
    OBVIOUS
  <2> QED
    BY <2>2, <2>4, <2>5, <2>6, <2>7, <2>8, Zenon
<1>7. flat \in [1..n -> Seq(S)] /\ AreJoined(s, n, flat)
  BY <1>5, <1>6 DEF AreJoined
<1> QED
  BY <1>3, <1>7

LEMMA FillsOne ==
  ASSUME NEW asks, NEW k, asks[k].fill = <<>> \/ \E c : asks[k].fill = <<c>>
  PROVE  Fills(asks, k) = IF Brings(asks, k) THEN <<FillOf(asks, k)>> ELSE <<>>
<1>1. CASE asks[k].fill = <<>>
  <2>1. DOMAIN asks[k].fill = {}
    BY <1>1
  <2>2. [i \in DOMAIN asks[k].fill |->
          Plain("ADDI", Register(asks, k), VREG_ZERO, 0, asks[k].fill[i])] = <<>>
    BY <2>1
  <2> QED
    BY <1>1, <2>2, Zenon DEF Fills, Brings
<1>2. CASE \E c : asks[k].fill = <<c>>
  <2>1. PICK c : asks[k].fill = <<c>>
    BY <1>2
  <2>2. DOMAIN asks[k].fill = 1..1 /\ asks[k].fill # <<>>
    BY <2>1
  <2>3. [i \in DOMAIN asks[k].fill |->
          Plain("ADDI", Register(asks, k), VREG_ZERO, 0, asks[k].fill[i])] = <<FillOf(asks, k)>>
    BY <2>2 DEF FillOf
  <2> QED
    BY <2>2, <2>3, Zenon DEF Fills, Brings
<1> QED
  BY <1>1, <1>2

LEMMA FillingNext ==
  ASSUME NEW asks, NEW n \in Nat, NEW fills, NEW from, Filling(asks, n, fills, from)
  PROVE  \E h : Filling(asks, n + 1,
                   fills \o (IF Brings(asks, n + 1) THEN <<FillOf(asks, n + 1)>> ELSE <<>>), h)
<1>1. PICK S : fills \in Seq(S)
  BY DEF Filling
<1>2. Len(fills) \in Nat
  BY <1>1, LenProperties
<1>3. CASE ~Brings(asks, n + 1)
  <2>1. fills \o <<>> = fills
    BY <1>1, ConcatEmptySeq
  <2>2. Filling(asks, n + 1, fills, from)
    <3>1. 1..n \subseteq 1..(n + 1) /\ \A k \in 1..(n + 1) : k = n + 1 \/ k \in 1..n
      OBVIOUS
    <3> QED
      BY <1>3, <3>1 DEF Filling
  <2> QED
    BY <1>3, <2>1, <2>2
<1>4. CASE Brings(asks, n + 1)
  <2> DEFINE T == S \cup {FillOf(asks, n + 1)}
             new == fills \o <<FillOf(asks, n + 1)>>
             h == [e \in 1..(Len(fills) + 1) |-> IF e <= Len(fills) THEN from[e] ELSE n + 1]
  <2>1. fills \in Seq(T) /\ <<FillOf(asks, n + 1)>> \in Seq(T) /\ Len(<<FillOf(asks, n + 1)>>) = 1
    BY <1>1
  <2>2. /\ new \in Seq(T)
        /\ Len(new) = Len(fills) + 1
        /\ \A e \in 1..(Len(fills) + 1) :
             new[e] = IF e <= Len(fills) THEN fills[e] ELSE FillOf(asks, n + 1)
    <3>1. \A e \in 1..(Len(fills) + 1) : ~(e <= Len(fills)) => e - Len(fills) = 1
      BY <1>2
    <3> QED
      BY <2>1, <3>1, ConcatProperties
  <2>3. \A e \in 1..(Len(fills) + 1) : e <= Len(fills) => e \in 1..Len(fills)
    BY <1>2
  <2>4. h \in [1..Len(new) -> 1..(n + 1)]
    <3>1. from \in [1..Len(fills) -> 1..n]
      BY DEF Filling
    <3> QED
      BY <2>2, <2>3, <3>1
  <2>5. \A e \in 1..Len(new) : Brings(asks, h[e]) /\ new[e] = FillOf(asks, h[e])
    BY <1>4, <2>2, <2>3 DEF Filling
  <2>6. \A d, e \in 1..Len(new) : d < e => h[d] < h[e]
    <3> SUFFICES ASSUME NEW d \in 1..Len(new), NEW e \in 1..Len(new), d < e
                 PROVE  h[d] < h[e]
      OBVIOUS
    <3>1. d \in 1..Len(fills) /\ from[d] \in 1..n /\ h[d] = from[d]
      <4>1. d \in 1..Len(fills)
        BY <1>2, <2>2
      <4>2. from \in [1..Len(fills) -> 1..n]
        BY DEF Filling
      <4> QED
        BY <1>2, <2>2, <4>1, <4>2
    <3>2. CASE e <= Len(fills)
      BY <2>2, <2>3, <3>1, <3>2 DEF Filling
    <3>3. CASE ~(e <= Len(fills))
      BY <2>2, <3>1, <3>3
    <3> QED
      BY <3>2, <3>3
  <2>7. \A k \in 1..(n + 1) : Brings(asks, k) => \E e \in 1..Len(new) : h[e] = k
    <3> SUFFICES ASSUME NEW k \in 1..(n + 1), Brings(asks, k)
                 PROVE  \E e \in 1..Len(new) : h[e] = k
      OBVIOUS
    <3>1. CASE k = n + 1
      <4>1. Len(fills) + 1 \in 1..Len(new) /\ ~(Len(fills) + 1 <= Len(fills))
        BY <1>2, <2>2
      <4>2. h[Len(fills) + 1] = n + 1
        BY <2>2, <4>1
      <4> QED
        BY <3>1, <4>1, <4>2
    <3>2. CASE k # n + 1
      <4>1. PICK e \in 1..Len(fills) : from[e] = k
        BY <3>2 DEF Filling
      <4>2. e \in 1..Len(new) /\ h[e] = k
        BY <1>2, <2>2, <4>1
      <4> QED
        BY <4>2
    <3> QED
      BY <3>1, <3>2
  <2> HIDE DEF new, h
  <2>8. Filling(asks, n + 1, new, h)
    <3>1. \E U : new \in Seq(U)
      BY <2>2, Zenon
    <3> QED
      BY <2>4, <2>5, <2>6, <2>7, <3>1 DEF Filling
  <2> QED
    BY <1>4, <2>8 DEF new
<1> QED
  BY <1>3, <1>4

LEMMA NoFilling == ASSUME NEW asks PROVE Filling(asks, 0, <<>>, <<>>)
<1>1. <<>> \in Seq({}) /\ Len(<<>>) = 0 /\ 1..0 = {} /\ <<>> \in [1..0 -> 1..0]
  OBVIOUS
<1>2. \E S : <<>> \in Seq(S)
  BY <1>1, Zenon
<1> QED
  BY <1>1, <1>2 DEF Filling

LEMMA PushedIs ==
  ASSUME NEW asks, IsAsks(asks), NEW own
  PROVE  \E n \in 0..5 : \E fills, from :
           /\ DOMAIN asks = 1..n
           /\ Filling(asks, n, fills, from)
           /\ Pushed(asks, own) = fills \o own
<1>1. PICK n \in 0..5 : /\ DOMAIN asks = 1..n
                        /\ \A k \in 1..n : asks[k].fill = <<>> \/ \E c : asks[k].fill = <<c>>
  BY DEF IsAsks
<1> DEFINE s == [k \in DOMAIN asks |-> Fills(asks, k)]
           one(k) == IF Brings(asks, k) THEN <<FillOf(asks, k)>> ELSE <<>>
<1>2. \A k \in 1..n : s[k] = one(k)
  BY <1>1, FillsOne
<1>3. Pushed(asks, own) = FlattenSeq(s) \o own
  BY DEF Pushed
<1>4. CASE n = 0
  <2>1. s = <<>> /\ Len(s) = 0
    BY <1>1, <1>4
  <2>2. FlattenSeq(s) = <<>>
    <3> HIDE DEF s
    <3> QED
      BY <2>1 DEF FlattenSeq
  <2> QED
    BY <1>1, <1>3, <1>4, <2>2, NoFilling
<1>5. CASE n # 0
  <2> DEFINE S == {FillOf(asks, k) : k \in 1..n}
  <2>1. \A k \in 1..n : one(k) \in Seq(S)
    <3> SUFFICES ASSUME NEW k \in 1..n PROVE one(k) \in Seq(S)
      OBVIOUS
    <3>1. FillOf(asks, k) \in S
      OBVIOUS
    <3> HIDE DEF S
    <3>2. <<FillOf(asks, k)>> \in Seq(S) /\ <<>> \in Seq(S)
      BY <3>1
    <3> QED
      BY <3>2
  <2>2. s \in [1..n -> Seq(S)]
    <3> HIDE DEF S
    <3> QED
      BY <1>1, <1>2, <2>1
  <2> HIDE DEF s, S
  <2>3. PICK f \in [1..n -> Seq(S)] : AreJoined(s, n, f) /\ FlattenSeq(s) = f[n]
    <3>1. n \in 1..5
      BY <1>5
    <3> QED
      BY <2>2, <3>1, FlattenFive, Zenon
  <2> DEFINE Ok(i) == \E h : Filling(asks, i, f[i], h)
  <2>4. Ok(1)
    <3>1. \E h : Filling(asks, 0 + 1, <<>> \o one(0 + 1), h)
      BY NoFilling, FillingNext
    <3>2. one(1) \in Seq(S)
      BY <1>5, <2>1
    <3>3. <<>> \o one(1) = one(1)
      BY <3>2, ConcatEmptySeq
    <3>4. f[1] = one(1) /\ 0 + 1 = 1
      BY <1>2, <1>5, <2>3 DEF AreJoined
    <3> HIDE DEF one
    <3> QED
      BY <3>1, <3>3, <3>4
  <2>5. ASSUME NEW i \in 2..n, Ok(i - 1) PROVE Ok(i)
    <3>1. PICK h : Filling(asks, i - 1, f[i - 1], h)
      BY <2>5
    <3>2. i - 1 \in Nat /\ (i - 1) + 1 = i /\ i \in 1..n
      OBVIOUS
    <3>3. \E g : Filling(asks, (i - 1) + 1, f[i - 1] \o one((i - 1) + 1), g)
      BY <3>1, <3>2, FillingNext
    <3>4. f[i] = f[i - 1] \o one(i)
      BY <1>2, <2>3, <3>2 DEF AreJoined
    <3> HIDE DEF one
    <3> QED
      BY <3>2, <3>3, <3>4
  <2> HIDE DEF Ok
  <2>6. Ok(n)
    <3>1. n >= 2 => Ok(2)
      BY <2>4, <2>5
    <3>2. n >= 3 => Ok(3)
      BY <2>5, <3>1
    <3>3. n >= 4 => Ok(4)
      BY <2>5, <3>2
    <3>4. n >= 5 => Ok(5)
      BY <2>5, <3>3
    <3> QED
      BY <1>5, <2>4, <3>1, <3>2, <3>3, <3>4
  <2>7. PICK h : Filling(asks, n, f[n], h)
    BY <2>6 DEF Ok
  <2> QED
    BY <1>1, <1>3, <2>3, <2>7
<1> QED
  BY <1>4, <1>5

-----------------------------------------------------------------------------
(* What the asks of a handler are answered.                                *)

\* R0 and registers without a value are not in the value map.
Valued == Zero \notin DOMAIN valueToVReg /\ Temporary \notin DOMAIN valueToVReg

LEMMA TemporaryIsNotZero == Temporary # Zero
  BY DEF Temporary, Zero, Const

LEMMA FirstAsk ==
  ASSUME NEW asks, NEW k \in 1..5
  PROVE  \E j \in 1..k : /\ asks[j].value = asks[k].value
                         /\ \A i \in 1..(j - 1) : asks[i].value # asks[k].value
<1> DEFINE v == asks[k].value
           P(j) == asks[j].value = v
<1>1. P(k)
  OBVIOUS
<1> SUFFICES \E j \in 1..k : P(j) /\ \A i \in 1..(j - 1) : ~P(i)
  OBVIOUS
<1> HIDE DEF P
<1>2. CASE P(1)
  BY <1>2
<1>3. CASE ~P(1) /\ P(2) /\ 2 \in 1..k
  BY <1>3
<1>4. CASE ~P(1) /\ ~P(2) /\ P(3) /\ 3 \in 1..k
  BY <1>4
<1>5. CASE ~P(1) /\ ~P(2) /\ ~P(3) /\ P(4) /\ 4 \in 1..k
  BY <1>5
<1>6. CASE ~P(1) /\ ~P(2) /\ ~P(3) /\ ~P(4) /\ P(5) /\ 5 \in 1..k
  BY <1>6
<1> QED
  BY <1>1, <1>2, <1>3, <1>4, <1>5, <1>6

LEMMA RegisterIs ==
  ASSUME Valued, NEW asks, IsAsks(asks), NEW k \in DOMAIN asks
  PROVE  LET v == asks[k].value
         IN  /\ v = Zero => Register(asks, k) = VREG_ZERO
             /\ v \in DOMAIN valueToVReg => Register(asks, k) = valueToVReg[v]
             /\ v # Zero /\ v \notin DOMAIN valueToVReg =>
                  \E j \in 1..k : /\ IsNew(asks, j) /\ asks[j].value = v
                                  /\ v = Temporary => j = k
                                  /\ Register(asks, k) = Allocated(asks, j)
<1> DEFINE v == asks[k].value
           first == CHOOSE j \in 1..k : IsNew(asks, j) /\ asks[j].value = v
<1>1. PICK n \in 0..5 : DOMAIN asks = 1..n
  BY DEF IsAsks
<1>2. k \in 1..5
  BY <1>1
<1>3. ASSUME v # Zero, v \notin DOMAIN valueToVReg
      PROVE  \E j \in 1..k : /\ IsNew(asks, j) /\ asks[j].value = v
                             /\ v = Temporary => j = k
                             /\ Register(asks, k) = Allocated(asks, j)
  <2>1. CASE v = Temporary
    <3>1. IsNew(asks, k) /\ k \in 1..k
      BY <1>2, <2>1 DEF IsNew
    <3>2. Register(asks, k) = Allocated(asks, k)
      BY <1>3, <2>1 DEF Register
    <3> QED
      BY <3>1, <3>2
  <2>2. CASE v # Temporary
    <3>1. PICK j \in 1..k : asks[j].value = v /\ \A i \in 1..(j - 1) : asks[i].value # v
      BY <1>2, FirstAsk
    <3>2. IsNew(asks, j)
      BY <1>3, <3>1 DEF IsNew
    <3>3. first \in 1..k /\ IsNew(asks, first) /\ asks[first].value = v
      BY <3>1, <3>2
    <3>4. Register(asks, k) = Allocated(asks, first)
      BY <1>3, <2>2 DEF Register
    <3> QED
      BY <2>2, <3>3, <3>4
  <2> QED
    BY <2>1, <2>2
<1>4. v = Zero => Register(asks, k) = VREG_ZERO
  BY DEF Register
<1>5. v \in DOMAIN valueToVReg => Register(asks, k) = valueToVReg[v]
  BY DEF Register, Valued
<1> QED
  BY <1>3, <1>4, <1>5

\* The registers a handler gets are those the value map gives the values after
\* it; a register without a value is nobody else's.
LEMMA AsksAnswered ==
  ASSUME Numbered, Valued, NEW asks, IsAsks(asks), Record(asks)
  PROVE  /\ Numbered' /\ Valued' /\ nextVReg <= nextVReg'
         /\ \A v \in DOMAIN valueToVReg :
              v \in DOMAIN valueToVReg' /\ valueToVReg'[v] = valueToVReg[v]
         /\ \A v \in DOMAIN valueToVReg' :
              v \in DOMAIN valueToVReg \/ \E k \in DOMAIN asks : asks[k].value = v
         /\ \A k \in DOMAIN asks :
              /\ Register(asks, k) \in 0..(nextVReg' - 1)
              /\ asks[k].value = Zero => Register(asks, k) = VREG_ZERO
              /\ asks[k].value \notin {Zero, Temporary} =>
                   /\ asks[k].value \in DOMAIN valueToVReg'
                   /\ Register(asks, k) = valueToVReg'[asks[k].value]
              /\ asks[k].value = Temporary =>
                   /\ Register(asks, k) >= nextVReg
                   /\ \A v \in DOMAIN valueToVReg' : valueToVReg'[v] # Register(asks, k)
                   /\ \A j \in DOMAIN asks : j # k => Register(asks, j) # Register(asks, k)
<1> USE DEF Numbered
<1>1. PICK n \in 0..5 : DOMAIN asks = 1..n
  BY DEF IsAsks
<1> DEFINE new == {k \in 1..n : IsNew(asks, k)}
           values == {asks[k].value : k \in new} \ {Temporary}
           holder(v) == CHOOSE k \in new : asks[k].value = v
<1>2. /\ Cardinality(new) \in Nat
      /\ \A k \in new : Allocated(asks, k) \in nextVReg..(nextVReg + Cardinality(new) - 1)
      /\ \A j, k \in new : j < k => Allocated(asks, j) < Allocated(asks, k)
  <2>1. n \in Nat /\ nextVReg \in Nat
    BY <1>1
  <2> QED
    BY <2>1, AllocatedGrows
<1>3. /\ valueToVReg' = [v \in DOMAIN valueToVReg \cup values |->
                           IF v \in DOMAIN valueToVReg THEN valueToVReg[v]
                           ELSE Register(asks, holder(v))]
      /\ nextVReg' = nextVReg + Cardinality(new)
  BY <1>1 DEF Record
<1>4. IsList(asks)
  BY <1>1 DEF IsList
<1>5. Numbered'
  BY <1>4, RecordNumbered
<1>6. \A v \in values : v # Zero /\ v # Temporary
  BY DEF IsNew
<1>7. \A j, k \in new : asks[j].value = asks[k].value /\ asks[j].value # Temporary => j = k
  <2> SUFFICES ASSUME NEW j \in new, NEW k \in new, asks[j].value = asks[k].value,
                      asks[j].value # Temporary, j # k
               PROVE  FALSE
    OBVIOUS
  <2>1. j < k \/ k < j
    OBVIOUS
  <2>2. ~(j < k)
    <3> SUFFICES ASSUME j < k PROVE FALSE
      OBVIOUS
    <3>1. j \in 1..(k - 1)
      OBVIOUS
    <3> QED
      BY <3>1 DEF IsNew
  <2>3. ~(k < j)
    <3> SUFFICES ASSUME k < j PROVE FALSE
      OBVIOUS
    <3>1. k \in 1..(j - 1)
      OBVIOUS
    <3> QED
      BY <3>1 DEF IsNew
  <2> QED
    BY <2>1, <2>2, <2>3
<1>8. \A k \in new : asks[k].value \notin DOMAIN valueToVReg
  BY DEF IsNew, Valued
<1>9. \A v \in values : holder(v) \in new /\ asks[holder(v)].value = v
  OBVIOUS
<1>10. \A k \in new : Register(asks, k) = Allocated(asks, k)
  <2> SUFFICES ASSUME NEW k \in new PROVE Register(asks, k) = Allocated(asks, k)
    OBVIOUS
  <2>1. asks[k].value # Zero
    BY TemporaryIsNotZero DEF IsNew
  <2>2. PICK j \in 1..k : /\ IsNew(asks, j) /\ asks[j].value = asks[k].value
                          /\ asks[k].value = Temporary => j = k
                          /\ Register(asks, k) = Allocated(asks, j)
    BY <1>1, <1>8, <2>1, RegisterIs
  <2>3. j \in new
    BY <2>2
  <2>4. j = k
    BY <1>7, <2>2, <2>3
  <2> QED
    BY <2>2, <2>4
<1> HIDE DEF new, holder
<1>11. Valued'
  BY <1>3, <1>6 DEF Valued
<1>12. \A v \in values : v \in DOMAIN valueToVReg' /\ v \notin DOMAIN valueToVReg
                         /\ valueToVReg'[v] = Allocated(asks, holder(v))
  BY <1>3, <1>8, <1>9, <1>10
<1>13. ASSUME NEW k \in DOMAIN asks
       PROVE  /\ Register(asks, k) \in 0..(nextVReg' - 1)
              /\ asks[k].value = Zero => Register(asks, k) = VREG_ZERO
              /\ asks[k].value \notin {Zero, Temporary} =>
                   /\ asks[k].value \in DOMAIN valueToVReg'
                   /\ Register(asks, k) = valueToVReg'[asks[k].value]
              /\ asks[k].value = Temporary => k \in new
  <2>1. CASE asks[k].value = Zero
    BY <1>5, <2>1, RegisterIs, TemporaryIsNotZero DEF VREG_ZERO
  <2>2. CASE asks[k].value \in DOMAIN valueToVReg
    <3>1. Register(asks, k) = valueToVReg[asks[k].value]
      BY <2>2, RegisterIs
    <3> QED
      BY <1>2, <1>3, <2>2, <3>1 DEF Valued
  <2>3. CASE asks[k].value # Zero /\ asks[k].value \notin DOMAIN valueToVReg
    <3>1. PICK j \in 1..k : /\ IsNew(asks, j) /\ asks[j].value = asks[k].value
                            /\ asks[k].value = Temporary => j = k
                            /\ Register(asks, k) = Allocated(asks, j)
      BY <2>3, RegisterIs
    <3>2. j \in new
      BY <1>1, <3>1 DEF new
    <3>3. Register(asks, k) \in nextVReg..(nextVReg' - 1)
      BY <1>2, <1>3, <3>1, <3>2
    <3>4. ASSUME asks[k].value # Temporary
          PROVE  /\ asks[k].value \in DOMAIN valueToVReg'
                 /\ Register(asks, k) = valueToVReg'[asks[k].value]
      <4>1. asks[k].value \in values
        BY <3>1, <3>2, <3>4
      <4>2. holder(asks[k].value) = j
        <5>1. /\ holder(asks[k].value) \in new
              /\ asks[holder(asks[k].value)].value = asks[j].value
          BY <1>9, <3>1, <4>1, Zenon
        <5>2. asks[j].value # Temporary
          BY <3>1, <3>4, Zenon
        <5> QED
          BY <1>7, <3>2, <5>1, <5>2, Zenon
      <4> QED
        BY <1>12, <3>1, <4>1, <4>2, Zenon
    <3> QED
      BY <1>2, <2>3, <3>1, <3>2, <3>3, <3>4
  <2> QED
    BY <2>1, <2>2, <2>3
<1>14. ASSUME NEW k \in new, asks[k].value = Temporary
       PROVE  /\ Register(asks, k) >= nextVReg
              /\ \A v \in DOMAIN valueToVReg' : valueToVReg'[v] # Register(asks, k)
              /\ \A j \in DOMAIN asks : j # k => Register(asks, j) # Register(asks, k)
  <2>1. Register(asks, k) = Allocated(asks, k) /\ Register(asks, k) >= nextVReg
    BY <1>2, <1>10
  <2>2. \A j \in new : j # k => Allocated(asks, j) # Allocated(asks, k)
    <3> SUFFICES ASSUME NEW j \in new, j # k PROVE Allocated(asks, j) # Allocated(asks, k)
      OBVIOUS
    <3>1. j < k \/ k < j
      BY DEF new
    <3>2. Allocated(asks, j) \in Int /\ Allocated(asks, k) \in Int
      BY <1>2
    <3> QED
      BY <1>2, <3>1, <3>2
  <2>3. \A v \in DOMAIN valueToVReg' : valueToVReg'[v] # Register(asks, k)
    <3> SUFFICES ASSUME NEW v \in DOMAIN valueToVReg' PROVE valueToVReg'[v] # Register(asks, k)
      OBVIOUS
    <3>1. CASE v \in DOMAIN valueToVReg
      BY <1>3, <2>1, <3>1
    <3>2. CASE v \in values
      <4>1. holder(v) # k
        BY <1>6, <1>9, <1>14, <3>2
      <4> QED
        BY <1>9, <1>12, <2>1, <2>2, <3>2, <4>1
    <3> QED
      BY <1>3, <3>1, <3>2
  <2>4. \A j \in DOMAIN asks : j # k => Register(asks, j) # Register(asks, k)
    <3> SUFFICES ASSUME NEW j \in DOMAIN asks, j # k PROVE Register(asks, j) # Register(asks, k)
      OBVIOUS
    <3>1. CASE asks[j].value = Zero
      BY <1>13, <2>1, <3>1 DEF VREG_ZERO
    <3>2. CASE asks[j].value = Temporary
      BY <1>10, <1>13, <2>1, <2>2, <3>2
    <3>3. CASE asks[j].value \notin {Zero, Temporary}
      BY <1>13, <2>3, <3>3
    <3> QED
      BY <3>1, <3>2, <3>3
  <2> QED
    BY <2>1, <2>3, <2>4
<1>15. \A v \in DOMAIN valueToVReg :
         v \in DOMAIN valueToVReg' /\ valueToVReg'[v] = valueToVReg[v]
  BY <1>3
<1>16. \A v \in DOMAIN valueToVReg' :
         v \in DOMAIN valueToVReg \/ \E k \in DOMAIN asks : asks[k].value = v
  <2>1. \A v \in values : \E k \in DOMAIN asks : asks[k].value = v
    BY <1>1 DEF new
  <2> QED
    BY <1>3, <2>1
<1>17. nextVReg <= nextVReg'
  BY <1>2, <1>3
<1> QED
  BY <1>1, <1>5, <1>11, <1>13, <1>14, <1>15, <1>16, <1>17

-----------------------------------------------------------------------------
(* What a handler pushes is a group.                                       *)

LEMMA GroupsOfSome ==
  /\ \A a, b : IsInstruction(a) /\ IsInstruction(b) => IsGroup(<<a, b>>)
  /\ \A a, b, c : IsInstruction(a) /\ IsInstruction(b) /\ IsInstruction(c) => IsGroup(<<a, b, c>>)
  /\ \A a, b, c, d : IsInstruction(a) /\ IsInstruction(b) /\ IsInstruction(c) /\ IsInstruction(d)
                       => IsGroup(<<a, b, c, d>>)
<1>1. ASSUME NEW a, NEW b, IsInstruction(a), IsInstruction(b) PROVE IsGroup(<<a, b>>)
  <2>1. <<a, b>> \in Seq({a, b}) /\ \A e \in 1..Len(<<a, b>>) : <<a, b>>[e] \in {a, b}
    OBVIOUS
  <2>2. \A e \in 1..Len(<<a, b>>) : IsInstruction(<<a, b>>[e])
    BY <1>1, <2>1
  <2> QED
    BY <2>1, <2>2, Zenon DEF IsGroup
<1>2. ASSUME NEW a, NEW b, NEW c, IsInstruction(a), IsInstruction(b), IsInstruction(c)
      PROVE  IsGroup(<<a, b, c>>)
  <2>1. <<a, b, c>> = <<a, b>> \o <<c>>
    OBVIOUS
  <2> QED
    BY <1>1, <1>2, <2>1, GroupOfOne, GroupsJoin
<1>3. ASSUME NEW a, NEW b, NEW c, NEW d,
             IsInstruction(a), IsInstruction(b), IsInstruction(c), IsInstruction(d)
      PROVE  IsGroup(<<a, b, c, d>>)
  <2>1. <<a, b, c, d>> = <<a, b, c>> \o <<d>>
    OBVIOUS
  <2> QED
    BY <1>2, <1>3, <2>1, GroupOfOne, GroupsJoin
<1> QED
  BY <1>1, <1>2, <1>3

LEMMA PlainIsInstruction ==
  ASSUME NEW op, op # "BR", NEW rd \in Int, NEW rs1, NEW rs2, NEW imm
  PROVE  IsInstruction(Plain(op, rd, rs1, rs2, imm))
  BY FieldSizeAssumption DEF IsInstruction, Plain, MachineInstruction, Field

LEMMA JumpIsInstruction ==
  ASSUME NEW cond, NEW b \in Blocks PROVE IsInstruction(Jump(cond, b))
  BY FieldSizeAssumption DEF IsInstruction, Jump, MachineInstruction

LEMMA HandlersAsk ==
  /\ IsAsks(<<>>)
  /\ \A v : IsAsks(<<Get(v)>>)
  /\ \A v, w : /\ IsAsks(<<Get(v), Get(w)>>) /\ IsAsks(<<Get(v), Materialize(w)>>)
               /\ IsAsks(<<Materialize(v), Get(w)>>) /\ IsAsks(<<Materialize(v), Materialize(w)>>)
  /\ \A v, n : IsAsks(<<Get(v), Number(n)>>)
  /\ \A v, w, n : IsAsks(<<Get(v), Number(n), Materialize(w)>>)
  /\ \A u, v, w : /\ IsAsks(<<Get(u), Materialize(v), Materialize(w)>>)
                  /\ IsAsks(<<Get(u), Get(v), Materialize(w)>>)
  /\ \A u : IsAsks(<<Fresh, Fresh, Fresh, Get(u)>>)
  /\ \A u, v, w, n : IsAsks(<<Get(u), Get(v), Materialize(w), Fresh, Number(n)>>)
<1> DEFINE IsAsk(a) == a.fill = <<>> \/ \E c : a.fill = <<c>>
<1>1. (\A v : IsAsk(Get(v))) /\ IsAsk(Fresh)
  BY DEF Get, Fresh
<1>2. \A n : IsAsk(Number(n))
  BY DEF Number
<1>3. \A v : IsAsk(Materialize(v))
  BY DEF Materialize
<1>4. IsAsks(<<>>)
  <2>1. 0 \in 0..5 /\ DOMAIN <<>> = 1..0 /\ \A k \in 1..0 : FALSE
    OBVIOUS
  <2> QED
    BY <2>1 DEF IsAsks
<1>5. ASSUME NEW a, IsAsk(a) PROVE IsAsks(<<a>>)
  <2>1. 1 \in 0..5 /\ DOMAIN <<a>> = 1..1 /\ \A k \in 1..1 : IsAsk(<<a>>[k])
    BY <1>5
  <2> QED
    BY <2>1 DEF IsAsks
<1>6. ASSUME NEW a, NEW b, IsAsk(a), IsAsk(b) PROVE IsAsks(<<a, b>>)
  <2> HIDE DEF IsAsk
  <2>1. 2 \in 0..5 /\ DOMAIN <<a, b>> = 1..2 /\ \A k \in 1..2 : IsAsk(<<a, b>>[k])
    BY <1>6
  <2> USE DEF IsAsk
  <2> QED
    BY <2>1 DEF IsAsks
<1>7. ASSUME NEW a, NEW b, NEW c, IsAsk(a), IsAsk(b), IsAsk(c) PROVE IsAsks(<<a, b, c>>)
  <2> HIDE DEF IsAsk
  <2>1. 3 \in 0..5 /\ DOMAIN <<a, b, c>> = 1..3 /\ \A k \in 1..3 : IsAsk(<<a, b, c>>[k])
    BY <1>7
  <2> USE DEF IsAsk
  <2> QED
    BY <2>1 DEF IsAsks
<1>8. ASSUME NEW a, NEW b, NEW c, NEW d, IsAsk(a), IsAsk(b), IsAsk(c), IsAsk(d)
      PROVE  IsAsks(<<a, b, c, d>>)
  <2> HIDE DEF IsAsk
  <2>1. /\ 4 \in 0..5 /\ DOMAIN <<a, b, c, d>> = 1..4
        /\ \A k \in 1..4 : IsAsk(<<a, b, c, d>>[k])
    BY <1>8
  <2> USE DEF IsAsk
  <2> QED
    BY <2>1 DEF IsAsks
<1>9. ASSUME NEW a, NEW b, NEW c, NEW d, NEW e,
             IsAsk(a), IsAsk(b), IsAsk(c), IsAsk(d), IsAsk(e)
      PROVE  IsAsks(<<a, b, c, d, e>>)
  <2> HIDE DEF IsAsk
  <2>1. /\ 5 \in 0..5 /\ DOMAIN <<a, b, c, d, e>> = 1..5
        /\ \A k \in 1..5 : IsAsk(<<a, b, c, d, e>>[k])
    BY <1>9
  <2> USE DEF IsAsk
  <2> QED
    BY <2>1 DEF IsAsks
<1> HIDE DEF IsAsk
<1> QED
  BY <1>1, <1>2, <1>3, <1>4, <1>5, <1>6, <1>7, <1>8, <1>9

LEMMA AnswersAreNumbers ==
  ASSUME Numbered, Valued, NEW asks, IsAsks(asks), Record(asks)
  PROVE  \A k \in DOMAIN asks : Register(asks, k) \in Nat /\ Registers(asks)[k] = Register(asks, k)
<1>1. \A k \in DOMAIN asks : Register(asks, k) \in 0..(nextVReg' - 1) /\ Numbered'
  BY AsksAnswered
<1> QED
  BY <1>1 DEF Registers, Numbered

LEMMA PushedIsGroup ==
  ASSUME Numbered, Valued, NEW asks, NEW own, IsAsks(asks), Record(asks), IsGroup(own)
  PROVE  IsGroup(Pushed(asks, own))
<1>0. PICK n \in 0..5 : \E fills, from : /\ DOMAIN asks = 1..n
                                         /\ Filling(asks, n, fills, from)
                                         /\ Pushed(asks, own) = fills \o own
  BY PushedIs
<1>1. PICK fills, from : /\ DOMAIN asks = 1..n
                         /\ Filling(asks, n, fills, from)
                         /\ Pushed(asks, own) = fills \o own
  BY <1>0
<1>2. IsGroup(fills)
  <2>1. \A k \in 1..n : IsInstruction(FillOf(asks, k))
    BY <1>1, AnswersAreNumbers, PlainIsInstruction DEF FillOf
  <2>2. /\ \E S : fills \in Seq(S)
        /\ \A e \in 1..Len(fills) : from[e] \in 1..n /\ fills[e] = FillOf(asks, from[e])
    BY <1>1 DEF Filling
  <2> QED
    BY <2>1, <2>2 DEF IsGroup
<1> QED
  BY <1>1, <1>2, GroupsJoin

\* The next IR instruction is one of the kernel.
InCode ==
  /\ kernel \in Kernels
  /\ position[1] \in 1..(Len(kernel.blocks) + 1)
  /\ position[2] \in Nat \ {0}
  /\ position[1] \in Blocks => position[2] <= Len(CodeOf(position[1]))

\* A handler has pushed a group.
Handled ==
  \E asks, own : IsAsks(asks) /\ IsGroup(own) /\ Handle(asks, own)

LEMMA InstructionIsVerified ==
  ASSUME kernel \in Kernels, NEW b \in Blocks, NEW i \in DOMAIN CodeOf(b)
  PROVE  /\ CodeOf(b)[i] \in IRInstruction
         /\ InItsClass(CodeOf(b)[i])
         /\ CodeOf(b)[i].op \in Terminators <=> i = Len(CodeOf(b))
         /\ \A v \in Range(CodeOf(b)[i].ops) : Defined(kernel, b, i, v)
         /\ Range(CodeOf(b)[i].succ) \subseteq Blocks
<1>1. IsVerifiedBlock(kernel, b)
  BY VerifiedAssumption DEF IsVerified, Blocks
<1>2. CodeOf(b) \in Seq(IRInstruction) /\ DOMAIN CodeOf(b) = 1..Len(CodeOf(b))
  BY KernelShape
<1>3. CodeOf(b)[i] \in IRInstruction
  <2> HIDE DEF IRInstruction
  <2> QED
    BY <1>2, LenProperties
<1>4. CodeOf(b)[i] \in Range(CodeOf(b))
  BY DEF Range
<1>5. Successors(kernel.blocks, b) \subseteq Blocks
  BY <1>1 DEF IsVerifiedBlock, Blocks
<1>6. Range(CodeOf(b)[i].succ) \subseteq Blocks
  BY <1>4, <1>5 DEF Successors, CodeOf
<1>7. /\ InItsClass(CodeOf(b)[i])
      /\ CodeOf(b)[i].op \in Terminators <=> i = Len(CodeOf(b))
      /\ \A v \in Range(CodeOf(b)[i].ops) : Defined(kernel, b, i, v)
  BY <1>1, Zenon DEF IsVerifiedBlock, CodeOf
<1> QED
  BY <1>3, <1>6, <1>7

LEMMA HereIsVerified ==
  ASSUME InCode, ~Finished
  PROVE  /\ position[1] \in Blocks
         /\ position[2] \in DOMAIN CodeOf(position[1])
         /\ Here \in IRInstruction
         /\ InItsClass(Here)
         /\ Range(Here.succ) \subseteq Blocks
<1>1. position[1] \in Blocks /\ position[2] \in DOMAIN CodeOf(position[1])
  <2>1. position[1] \in Blocks
    BY DEF Finished
  <2>2. DOMAIN CodeOf(position[1]) = 1..Len(CodeOf(position[1])) /\ Len(CodeOf(position[1])) \in Nat
    BY <2>1, KernelShape DEF InCode
  <2> QED
    BY <2>1, <2>2 DEF InCode
<1>2. kernel \in Kernels
  BY DEF InCode
<1> QED
  BY <1>1, <1>2, InstructionIsVerified DEF Here

\* The blocks a branch goes to.
LEMMA BranchTargets ==
  ASSUME InCode, ~Finished, Here.op = "br"
  PROVE  /\ Here.ops = <<>> => Here.succ[1] \in Blocks
         /\ Here.ops # <<>> => Len(Here.ops) = 1 /\ Here.succ[1] \in Blocks /\ Here.succ[2] \in Blocks
<1>1. /\ <<Len(Here.ops), Len(Here.succ)>> \in {<<0, 1>>, <<1, 2>>}
      /\ Range(Here.succ) \subseteq Blocks
  BY HereIsVerified DEF InItsClass
<1>2. Here.succ \in Seq(Nat) /\ Here.ops \in Seq(Operands)
  BY HereIsVerified DEF IRInstruction
<1>3. \A j \in 1..Len(Here.succ) : Here.succ[j] \in Blocks
  <2>1. DOMAIN Here.succ = 1..Len(Here.succ)
    BY <1>2, LenProperties
  <2> QED
    BY <1>1, <2>1 DEF Range
<1>4. Here.ops = <<>> <=> Len(Here.ops) = 0
  BY <1>2, EmptySeq
<1> QED
  BY <1>1, <1>3, <1>4

LEMMA HandlersPush ==
  ASSUME Numbered, Valued, InCode, Next, ~LoadArgument
  PROVE  Loaded /\ ~Finished /\ Handled
<1>1. ASSUME NEW asks, NEW own, IsAsks(asks), IsGroup(own), Handle(asks, own)
      PROVE  Handled
  BY <1>1, Zenon DEF Handled
<1>2. \A asks, own : Handle(asks, own) => Record(asks)
  BY DEF Handle
<1>3. \A asks : IsAsks(asks) /\ Record(asks) =>
        \A k \in DOMAIN asks : Register(asks, k) \in Int /\ Registers(asks)[k] \in Int
  BY AnswersAreNumbers
<1>5. CASE SelectBinaryOp
  <2>1. Loaded /\ ~Finished
    BY <1>5 DEF SelectBinaryOp, Selecting
  <2> DEFINE x == Here.ops[1]
             y == Here.ops[2]
             gotten == <<Get(Self), Get(x)>>
             move   == <<Get(Self), Materialize(x)>>
             scaled == <<Get(Self), Number(2^y[2]), Materialize(x)>>
             both   == <<Get(Self), Materialize(x), Materialize(y)>>
  <2>2. IsAsks(gotten) /\ IsAsks(move) /\ IsAsks(scaled) /\ IsAsks(both)
    BY HandlersAsk
  <2>3. 1 \in DOMAIN gotten /\ 1 \in DOMAIN move /\ 1 \in DOMAIN scaled /\ 1 \in DOMAIN both
    OBVIOUS
  <2>4. PICK asks \in {gotten, move, scaled, both} :
          \E op \in {"ADDI", "ADD", "MUL", RegisterForm(Here.form)} : \E rs1, rs2, imm :
            Handle(asks, <<Plain(op, Register(asks, 1), rs1, rs2, imm)>>)
    BY <1>5, Zenon DEF SelectBinaryOp
  <2> HIDE DEF gotten, move, scaled, both
  <2>5. PICK op \in {"ADDI", "ADD", "MUL", RegisterForm(Here.form)} : \E rs1, rs2, imm :
          Handle(asks, <<Plain(op, Register(asks, 1), rs1, rs2, imm)>>)
    BY <2>4
  <2>9. PICK rs1, rs2, imm : Handle(asks, <<Plain(op, Register(asks, 1), rs1, rs2, imm)>>)
    BY <2>5
  <2>6. op # "BR"
    BY DEF RegisterForm
  <2>7. IsAsks(asks) /\ Register(asks, 1) \in Int
    BY <1>2, <1>3, <2>2, <2>3, <2>9
  <2>8. IsGroup(<<Plain(op, Register(asks, 1), rs1, rs2, imm)>>)
    BY <2>6, <2>7, PlainIsInstruction, GroupOfOne
  <2> QED
    BY <1>1, <2>1, <2>7, <2>8, <2>9
<1>6. CASE SelectCmp
  <2>1. Loaded /\ ~Finished
    BY <1>6 DEF SelectCmp, Selecting
  <2>2. IsAsks(Compared(Here)) /\ IsAsks(<<>>)
    BY HandlersAsk DEF Compared
  <2>3. IsInstruction(Cmp(Registers(Compared(Here))))
    BY PlainIsInstruction DEF Cmp
  <2>4. IsGroup(<<Cmp(Registers(Compared(Here)))>>) /\ IsGroup(<<>>)
    BY <2>3, GroupOfOne, NoGroup
  <2> QED
    BY <1>1, <1>6, <2>1, <2>2, <2>4 DEF SelectCmp
<1>7. CASE SelectBranch
  <2>1. Loaded /\ ~Finished /\ Here.op = "br"
    BY <1>7 DEF SelectBranch, Selecting
  <2>2. IsAsks(<<>>) /\ \A c : IsAsks(Compared(c))
    BY HandlersAsk DEF Compared
  <2>3. CASE Here.ops = <<>>
    <3>1. IsGroup(<<Jump(ALWAYS, Here.succ[1])>>)
      BY <2>1, <2>3, BranchTargets, JumpIsInstruction, GroupOfOne
    <3> QED
      BY <1>1, <1>7, <2>1, <2>2, <2>3, <3>1 DEF SelectBranch
  <2>4. CASE Here.ops # <<>>
    <3>1. \A cond : IsGroup(BothWays(cond))
      BY <2>1, <2>4, BranchTargets, JumpIsInstruction, GroupsOfSome DEF BothWays
    <3>2. \A r, cond : IsGroup(<<Cmp(r)>> \o BothWays(cond))
      <4>1. \A r : IsGroup(<<Cmp(r)>>)
        BY PlainIsInstruction, GroupOfOne DEF Cmp
      <4> QED
        BY <3>1, <4>1, GroupsJoin
    <3> QED
      BY <1>1, <1>7, <2>1, <2>2, <2>4, <3>1, <3>2 DEF SelectBranch
  <2> QED
    BY <2>3, <2>4
<1>8. CASE SelectLoad \/ SelectCast
  <2>1. Loaded /\ ~Finished
    BY <1>8 DEF SelectLoad, SelectCast, Selecting
  <2>2. PICK asks \in {<<Get(Self), Get(Here.ops[1])>>, <<Get(Here.ops[1]), Get(Self)>>},
             op \in {"LDR", "ADDI"}, j \in {1, 2}, k \in {1, 2} :
          Handle(asks, <<Plain(op, Registers(asks)[j], Registers(asks)[k], 0, 0)>>)
    BY <1>8, Zenon DEF SelectLoad, SelectCast
  <2>3. IsAsks(asks) /\ DOMAIN asks = {1, 2}
    <3>1. \A v, w : DOMAIN <<Get(v), Get(w)>> = {1, 2}
      OBVIOUS
    <3>2. \A v, w : IsAsks(<<Get(v), Get(w)>>)
      BY HandlersAsk, Zenon
    <3>3. \/ asks = <<Get(Self), Get(Here.ops[1])>>
          \/ asks = <<Get(Here.ops[1]), Get(Self)>>
      OBVIOUS
    <3> QED
      BY <3>1, <3>2, <3>3, Zenon
  <2>4. Registers(asks)[j] \in Int
    BY <1>2, <1>3, <2>2, <2>3
  <2>5. IsGroup(<<Plain(op, Registers(asks)[j], Registers(asks)[k], 0, 0)>>)
    BY <2>4, PlainIsInstruction, GroupOfOne
  <2> QED
    BY <1>1, <2>1, <2>2, <2>3, <2>5
<1>9. CASE SelectStore \/ SelectAlloca
  <2>1. Loaded /\ ~Finished
    BY <1>9 DEF SelectStore, SelectAlloca, Selecting
  <2>2. IsGroup(<<>>) /\ \A rs1, rs2 : IsGroup(<<Plain("STR", 0, rs1, rs2, 0)>>)
    BY NoGroup, PlainIsInstruction, GroupOfOne
  <2> QED
    BY <1>1, <1>9, <2>1, <2>2, HandlersAsk DEF SelectStore, SelectAlloca
<1>10. CASE SelectGEP
  <2>1. Loaded /\ ~Finished
    BY <1>10 DEF SelectGEP, Selecting
  <2> DEFINE base == Here.ops[1]
             last == Last(Tail(Here.ops))
             addresses == <<Get(base), Get(Self)>>
             one == <<Get(base), Get(Self), Materialize(last)>>
             scaled == <<Get(base), Get(Self), Materialize(last), Fresh, Number(Here.attr[1])>>
  <2>2. \/ \E offset : LET r == Registers(addresses)
                       IN  Handle(addresses, <<Plain("ADDI", r[2], r[1], 0, offset)>>)
        \/ LET r == Registers(one) IN Handle(one, <<Plain("ADD", r[2], r[1], r[3], 0)>>)
        \/ LET r == Registers(scaled)
           IN  Handle(scaled, <<Plain("MUL", r[4], r[3], r[5], 0), Plain("ADD", r[2], r[1], r[4], 0)>>)
    BY <1>10, Zenon DEF SelectGEP
  <2>3. IsAsks(addresses) /\ IsAsks(one) /\ IsAsks(scaled)
    BY HandlersAsk
  <2>4. 2 \in DOMAIN addresses /\ 2 \in DOMAIN one /\ 2 \in DOMAIN scaled /\ 4 \in DOMAIN scaled
    OBVIOUS
  <2> HIDE DEF addresses, one, scaled
  <2>5. CASE \E offset : Handle(addresses, <<Plain("ADDI", Registers(addresses)[2], Registers(addresses)[1], 0, offset)>>)
    <3>1. PICK offset : Handle(addresses, <<Plain("ADDI", Registers(addresses)[2], Registers(addresses)[1], 0, offset)>>)
      BY <2>5
    <3>2. Registers(addresses)[2] \in Int
      BY <1>2, <1>3, <2>3, <2>4, <3>1
    <3>3. IsGroup(<<Plain("ADDI", Registers(addresses)[2], Registers(addresses)[1], 0, offset)>>)
      BY <3>2, PlainIsInstruction, GroupOfOne
    <3> QED
      BY <1>1, <2>1, <2>3, <3>1, <3>3
  <2>6. CASE Handle(one, <<Plain("ADD", Registers(one)[2], Registers(one)[1], Registers(one)[3], 0)>>)
    <3>1. Registers(one)[2] \in Int
      BY <1>2, <1>3, <2>3, <2>4, <2>6
    <3>2. IsGroup(<<Plain("ADD", Registers(one)[2], Registers(one)[1], Registers(one)[3], 0)>>)
      BY <3>1, PlainIsInstruction, GroupOfOne
    <3> QED
      BY <1>1, <2>1, <2>3, <2>6, <3>2
  <2>7. CASE Handle(scaled, <<Plain("MUL", Registers(scaled)[4], Registers(scaled)[3], Registers(scaled)[5], 0),
                              Plain("ADD", Registers(scaled)[2], Registers(scaled)[1], Registers(scaled)[4], 0)>>)
    <3>1. Registers(scaled)[2] \in Int /\ Registers(scaled)[4] \in Int
      BY <1>2, <1>3, <2>3, <2>4, <2>7
    <3>2. IsGroup(<<Plain("MUL", Registers(scaled)[4], Registers(scaled)[3], Registers(scaled)[5], 0),
                    Plain("ADD", Registers(scaled)[2], Registers(scaled)[1], Registers(scaled)[4], 0)>>)
      BY <3>1, PlainIsInstruction, GroupsOfSome
    <3> QED
      BY <1>1, <2>1, <2>3, <2>7, <3>2
  <2> QED
    BY <2>2, <2>5, <2>6, <2>7
<1>11. CASE SelectRegisterRead
  <2> DEFINE asks == <<Get(Self)>>
  <2>1. Loaded /\ ~Finished /\ Handle(asks, <<Plain("S2R", Register(asks, 1), 0, 0, SystemRegister)>>)
    BY <1>11, Zenon DEF SelectRegisterRead, Selecting
  <2>2. IsAsks(asks) /\ 1 \in DOMAIN asks
    BY HandlersAsk
  <2> HIDE DEF asks
  <2>3. Register(asks, 1) \in Int
    BY <1>2, <1>3, <2>1, <2>2
  <2>4. IsGroup(<<Plain("S2R", Register(asks, 1), 0, 0, SystemRegister)>>)
    BY <2>3, PlainIsInstruction, GroupOfOne
  <2> QED
    BY <1>1, <2>1, <2>2, <2>4
<1>12. CASE SelectGlobalId
  <2> DEFINE asks == <<Fresh, Fresh, Fresh, Get(Self)>>
             r == Registers(asks)
             own == <<Plain("S2R", r[1], 0, 0, LocalIdRegister(Dimension)),
                      Plain("S2R", r[2], 0, 0, GroupIdRegister(Dimension))>>
                    \o IF Dimension = 0
                       THEN <<Plain("ADD", r[3], r[2], r[2], 0), Plain("ADD", r[4], r[3], r[1], 0)>>
                       ELSE <<Plain("ADD", r[4], r[2], r[1], 0)>>
  <2>1. Loaded /\ ~Finished /\ Handle(asks, own)
    BY <1>12, Zenon DEF SelectGlobalId, Selecting
  <2>2. IsAsks(asks) /\ \A k \in 1..4 : k \in DOMAIN asks
    BY HandlersAsk
  <2> HIDE DEF asks
  <2>3. r[1] \in Int /\ r[2] \in Int /\ r[3] \in Int /\ r[4] \in Int
    BY <1>2, <1>3, <2>1, <2>2
  <2>4. IsGroup(own)
    <3> HIDE DEF r
    <3>1. IsGroup(<<Plain("S2R", r[1], 0, 0, LocalIdRegister(Dimension)),
                    Plain("S2R", r[2], 0, 0, GroupIdRegister(Dimension))>>)
      BY <2>3, PlainIsInstruction, GroupsOfSome
    <3>2. IsGroup(<<Plain("ADD", r[3], r[2], r[2], 0), Plain("ADD", r[4], r[3], r[1], 0)>>)
      BY <2>3, PlainIsInstruction, GroupsOfSome
    <3>3. IsGroup(<<Plain("ADD", r[4], r[2], r[1], 0)>>)
      BY <2>3, PlainIsInstruction, GroupOfOne
    <3> QED
      BY <3>1, <3>2, <3>3, GroupsJoin
  <2> HIDE DEF own
  <2> QED
    BY <1>1, <2>1, <2>2, <2>4
<1>13. CASE SelectBarrier \/ SelectSsy \/ SelectExit \/ Drop
  <2>1. Loaded /\ ~Finished
    BY <1>13 DEF SelectBarrier, SelectSsy, SelectExit, Drop, Selecting
  <2>2. IsGroup(<<>>) /\ \A op \in {"SYNC", "SSY", "EXIT"} : IsGroup(<<Plain(op, 0, 0, 0, 0)>>)
    BY NoGroup, PlainIsInstruction, GroupOfOne
  <2> QED
    BY <1>1, <1>13, <2>1, <2>2, HandlersAsk DEF SelectBarrier, SelectSsy, SelectExit, Drop
<1> QED
  BY <1>5, <1>6, <1>7, <1>8, <1>9, <1>10, <1>11, <1>12, <1>13 DEF Next

-----------------------------------------------------------------------------
(* Which IR instructions have their code.                                  *)

HasCode(b, i) == b < position[1] \/ (b = position[1] /\ i < position[2])

Written(b) ==
  IF b < position[1] THEN Len(CodeOf(b)) ELSE IF b = position[1] THEN position[2] - 1 ELSE 0

Shape ==
  /\ InCode
  /\ Numbered /\ Valued
  /\ position[1] \notin Blocks => position[2] = 1
  /\ Loaded \/ position = <<1, 1>>
  /\ IsGroup(prologue)
  /\ DOMAIN code = Blocks
  /\ \A b \in Blocks : /\ \E S : code[b] \in Seq(S)
                       /\ Len(code[b]) = Written(b)
                       /\ \A i \in DOMAIN CodeOf(b) : HasCode(b, i) => IsGroup(code[b][i])

\* A handler adds the code of the instruction the selector is at, and nothing
\* else changes.
LEMMA HandlerWrites ==
  ASSUME Shape, ~Finished, NEW asks, NEW own, Handle(asks, own)
  PROVE  /\ DOMAIN code' = Blocks /\ UNCHANGED <<kernel, prologue>>
         /\ InCode' /\ (position[1]' \notin Blocks => position[2]' = 1)
         /\ \A b \in Blocks : /\ \E S : code'[b] \in Seq(S)
                              /\ Len(code'[b]) = Written(b)'
         /\ code'[position[1]][position[2]] = Pushed(asks, own)
         /\ \A b \in Blocks : \A i \in DOMAIN CodeOf(b) :
              /\ HasCode(b, i)' <=> HasCode(b, i) \/ <<b, i>> = <<position[1], position[2]>>
              /\ HasCode(b, i) => code'[b][i] = code[b][i] /\ <<b, i>> # <<position[1], position[2]>>
<1> DEFINE c == position[1]
           j == position[2]
           new == Pushed(asks, own)
<1>1. /\ kernel \in Kernels /\ c \in Blocks /\ j \in DOMAIN CodeOf(c)
      /\ Blocks = 1..Len(kernel.blocks) /\ Len(kernel.blocks) \in Nat \ {0}
      /\ \A b \in Blocks : DOMAIN CodeOf(b) = 1..Len(CodeOf(b)) /\ Len(CodeOf(b)) \in Nat \ {0}
  BY HereIsVerified, KernelShape DEF Shape, InCode
<1>2. /\ code' = [code EXCEPT ![c] = Append(@, new)]
      /\ position' = IF j < Len(CodeOf(c)) THEN <<c, j + 1>> ELSE <<c + 1, 1>>
      /\ UNCHANGED <<kernel, prologue>>
  BY DEF Handle
<1>3. c \in Nat /\ j \in Nat /\ j >= 1 /\ j <= Len(CodeOf(c))
  BY <1>1
<1>4. /\ Blocks' = Blocks
      /\ \A b : CodeOf(b)' = CodeOf(b)
  BY <1>2 DEF Blocks, CodeOf
<1>5. \/ j < Len(CodeOf(c)) /\ position[1]' = c /\ position[2]' = j + 1
      \/ j = Len(CodeOf(c)) /\ position[1]' = c + 1 /\ position[2]' = 1
  BY <1>2, <1>3, <1>1
<1>6. InCode' /\ (position[1]' \notin Blocks => position[2]' = 1)
  BY <1>1, <1>2, <1>3, <1>4, <1>5 DEF InCode
<1>7. /\ DOMAIN code' = Blocks
      /\ \A b \in Blocks : code'[b] = IF b = c THEN Append(code[b], new) ELSE code[b]
  BY <1>2 DEF Shape
<1>8. PICK S : code[c] \in Seq(S)
  BY <1>1 DEF Shape
<1>9. Len(code[c]) = j - 1
  BY <1>1, <1>3 DEF Shape, Written
<1>10. /\ code'[c] \in Seq(S \cup {new})
       /\ Len(code'[c]) = j
       /\ \A i \in 1..(j - 1) : code'[c][i] = code[c][i]
       /\ code'[c][j] = new
  <2>1. code[c] \in Seq(S \cup {new}) /\ new \in S \cup {new}
    BY <1>8
  <2>2. code'[c] = Append(code[c], new)
    BY <1>1, <1>7
  <2> HIDE DEF new, c, j
  <2>3. /\ Append(code[c], new) \in Seq(S \cup {new})
        /\ Len(Append(code[c], new)) = Len(code[c]) + 1
        /\ \A i \in 1..Len(code[c]) : Append(code[c], new)[i] = code[c][i]
        /\ Append(code[c], new)[Len(code[c]) + 1] = new
    BY <2>1, AppendProperties
  <2> QED
    BY <1>3, <1>9, <2>2, <2>3
<1> HIDE DEF new
<1>11. ASSUME NEW b \in Blocks
       PROVE  (\E U : code'[b] \in Seq(U)) /\ Len(code'[b]) = Written(b)'
  <2>1. b \in Nat
    BY <1>1
  <2>2. CASE b = c
    <3>1. Written(b)' = j
      BY <1>1, <1>3, <1>4, <1>5, <2>2 DEF Written
    <3>2. \E U : code'[b] \in Seq(U)
      BY <1>10, <2>2, Zenon
    <3> QED
      BY <1>10, <2>2, <3>1, <3>2
  <2>3. CASE b # c
    <3>1. code'[b] = code[b]
      BY <1>7, <2>3
    <3>2. Written(b)' = Written(b)
      BY <1>1, <1>3, <1>4, <1>5, <2>1, <2>3 DEF Written
    <3> QED
      BY <3>1, <3>2 DEF Shape
  <2> QED
    BY <2>2, <2>3
<1>12. ASSUME NEW b \in Blocks, NEW i \in DOMAIN CodeOf(b)
       PROVE  /\ HasCode(b, i)' <=> HasCode(b, i) \/ <<b, i>> = <<c, j>>
              /\ HasCode(b, i) => code'[b][i] = code[b][i] /\ <<b, i>> # <<c, j>>
  <2>1. b \in Nat /\ i \in Nat /\ i >= 1 /\ i <= Len(CodeOf(b)) /\ Len(CodeOf(b)) \in Nat
    BY <1>1
  <2>2. HasCode(b, i)' <=> HasCode(b, i) \/ <<b, i>> = <<c, j>>
    BY <1>3, <1>5, <2>1 DEF HasCode
  <2>3. ASSUME HasCode(b, i) PROVE code'[b][i] = code[b][i] /\ <<b, i>> # <<c, j>>
    <3>1. CASE b = c
      <4>1. i \in 1..(j - 1)
        BY <1>3, <2>1, <2>3, <3>1 DEF HasCode
      <4> QED
        BY <1>10, <1>3, <3>1, <4>1
    <3>2. CASE b # c
      BY <1>7, <3>2
    <3> QED
      BY <3>1, <3>2
  <2> QED
    BY <2>2, <2>3
<1>13. code'[c][j] = new
  BY <1>10
<1> QED
  BY <1>2, <1>6, <1>7, <1>11, <1>12, <1>13 DEF new

LEMMA ShapeKept == Shape /\ [Next]_selectorVars => Shape'
<1> SUFFICES ASSUME Shape, [Next]_selectorVars PROVE Shape'
  OBVIOUS
<1>1. CASE LoadArgument
  <2> DEFINE k == Len(prologue) \div 2
             asks == <<Get(Arg(k)), Number(8 * k)>>
             r == Registers(asks)
             own == <<Plain("LDR", r[1], r[2], 0, 0)>>
  <2>1. /\ prologue' = prologue \o Pushed(asks, own)
        /\ Record(asks)
        /\ UNCHANGED <<kernel, position, code>>
        /\ position = <<1, 1>>
    BY <1>1, Zenon DEF LoadArgument, Shape
  <2>2. IsAsks(asks) /\ 1 \in DOMAIN asks
    BY HandlersAsk
  <2>3. Numbered /\ Valued
    BY DEF Shape
  <2> HIDE DEF asks
  <2>4. Numbered' /\ Valued'
    BY <2>1, <2>2, <2>3, AsksAnswered
  <2>5. IsGroup(own)
    <3>1. r[1] \in Int
      BY <2>1, <2>2, <2>3, AnswersAreNumbers
    <3> HIDE DEF r
    <3> QED
      BY <3>1, PlainIsInstruction, GroupOfOne
  <2>6. IsGroup(prologue \o Pushed(asks, own))
    <3> HIDE DEF own
    <3> QED
      BY <2>1, <2>2, <2>3, <2>5, PushedIsGroup, GroupsJoin DEF Shape
  <2>7. \A g : IsGroup(g)' <=> IsGroup(g)
    BY <2>1 DEF IsGroup, IsInstruction, Blocks, BlockName
  <2>8. UNCHANGED <<Blocks, kernel, position, code>> /\ \A b : CodeOf(b)' = CodeOf(b)
    BY <2>1 DEF Blocks, CodeOf
  <2>9. IsGroup(prologue)'
    BY <2>1, <2>6, <2>7
  <2> HIDE DEF own
  <2> QED
    BY <2>1, <2>4, <2>7, <2>8, <2>9 DEF Shape, InCode, Written, HasCode, Loaded
<1>2. CASE Next /\ ~LoadArgument
  <2>1. Loaded /\ ~Finished /\ Handled
    BY <1>2, HandlersPush DEF Shape
  <2>2. PICK asks, own : IsAsks(asks) /\ IsGroup(own) /\ Handle(asks, own)
    BY <2>1 DEF Handled
  <2>3. Record(asks)
    BY <2>2 DEF Handle
  <2>4. Numbered' /\ Valued' /\ IsGroup(Pushed(asks, own))
    BY <2>2, <2>3, AsksAnswered, PushedIsGroup DEF Shape
  <2>5. /\ DOMAIN code' = Blocks /\ UNCHANGED <<kernel, prologue>>
        /\ InCode' /\ (position[1]' \notin Blocks => position[2]' = 1)
        /\ \A b \in Blocks : /\ \E S : code'[b] \in Seq(S)
                             /\ Len(code'[b]) = Written(b)'
        /\ code'[position[1]][position[2]] = Pushed(asks, own)
        /\ \A b \in Blocks : \A i \in DOMAIN CodeOf(b) :
             /\ HasCode(b, i)' <=> HasCode(b, i) \/ <<b, i>> = <<position[1], position[2]>>
             /\ HasCode(b, i) => code'[b][i] = code[b][i] /\ <<b, i>> # <<position[1], position[2]>>
    BY <2>1, <2>2, HandlerWrites
  <2>6. \A g : IsGroup(g)' <=> IsGroup(g)
    BY <2>5 DEF IsGroup, IsInstruction, Blocks, BlockName
  <2>7. Blocks' = Blocks /\ \A b : CodeOf(b)' = CodeOf(b)
    BY <2>5 DEF Blocks, CodeOf
  <2>8. Loaded'
    BY <2>1, <2>5 DEF Loaded
  <2>9. \A b \in Blocks : \A i \in DOMAIN CodeOf(b) : HasCode(b, i)' => IsGroup(code'[b][i])
    <3> SUFFICES ASSUME NEW b \in Blocks, NEW i \in DOMAIN CodeOf(b), HasCode(b, i)'
                 PROVE  IsGroup(code'[b][i])
      BY Zenon
    <3>1. CASE HasCode(b, i)
      <4>1. IsGroup(code[b][i])
        BY <3>1, Zenon DEF Shape
      <4> QED
        BY <2>5, <3>1, <4>1, Zenon
    <3>2. CASE <<b, i>> = <<position[1], position[2]>>
      <4>1. b = position[1] /\ i = position[2]
        BY <3>2
      <4>2. code'[b][i] = Pushed(asks, own)
        BY <2>5, <4>1, Zenon
      <4> QED
        BY <2>4, <4>2, Zenon
    <3> QED
      BY <2>5, <3>1, <3>2, Zenon
  <2>10. IsGroup(prologue)
    BY DEF Shape
  <2> QED
    BY <2>4, <2>5, <2>6, <2>7, <2>8, <2>9, <2>10 DEF Shape
<1>3. CASE UNCHANGED selectorVars
  <2>1. UNCHANGED <<kernel, position, valueToVReg, nextVReg, prologue, code>>
    BY <1>3 DEF selectorVars
  <2>2. \A g : IsGroup(g)' <=> IsGroup(g)
    BY <2>1 DEF IsGroup, IsInstruction, Blocks, BlockName
  <2>3. UNCHANGED Blocks /\ \A b : CodeOf(b)' = CodeOf(b)
    BY <2>1 DEF Blocks, CodeOf
  <2> QED
    BY <2>1, <2>2, <2>3 DEF Shape, InCode, Written, HasCode, Loaded, Numbered, Valued
<1> QED
  BY <1>1, <1>2, <1>3

LEMMA ShapeAtFirst == Init => Shape
<1> SUFFICES ASSUME Init PROVE Shape
  OBVIOUS
<1>1. /\ kernel \in Kernels /\ position = <<1, 1>> /\ valueToVReg = EmptyMap
      /\ nextVReg = 1 /\ prologue = <<>> /\ code = [b \in Blocks |-> <<>>]
  BY DEF Init
<1>2. /\ Len(kernel.blocks) \in Nat \ {0} /\ Blocks = 1..Len(kernel.blocks)
      /\ \A b \in Blocks : DOMAIN CodeOf(b) = 1..Len(CodeOf(b)) /\ Len(CodeOf(b)) \in Nat \ {0}
  BY <1>1, KernelShape
<1>3. InCode /\ position[1] \in Blocks /\ position[1] = 1 /\ position[2] = 1
  BY <1>1, <1>2 DEF InCode
<1>4. Numbered /\ Valued
  BY <1>1 DEF Numbered, Valued, EmptyMap
<1>5. ASSUME NEW b \in Blocks
      PROVE  /\ \E S : code[b] \in Seq(S)
             /\ Len(code[b]) = Written(b)
             /\ \A i \in DOMAIN CodeOf(b) : ~HasCode(b, i)
  <2>1. code[b] = <<>>
    BY <1>1
  <2>2. <<>> \in Seq({}) /\ Len(<<>>) = 0
    BY EmptySeq
  <2>3. Written(b) = 0
    BY <1>2, <1>3 DEF Written
  <2>4. \A i \in DOMAIN CodeOf(b) : ~HasCode(b, i)
    BY <1>2, <1>3 DEF HasCode
  <2>5. \E S : code[b] \in Seq(S)
    BY <2>1, <2>2, Zenon
  <2> QED
    BY <2>1, <2>2, <2>3, <2>4, <2>5
<1>6. IsGroup(prologue) /\ DOMAIN code = Blocks
  BY <1>1, NoGroup
<1> QED
  BY <1>1, <1>3, <1>4, <1>5, <1>6 DEF Shape

-----------------------------------------------------------------------------
(* The lane stays in the code of the function.                             *)

IsPlace(a) == \E b \in Blocks : \E i \in DOMAIN CodeOf(b) : a = <<b, i>>

LaneShape ==
  /\ Shape
  /\ at \in {NotStarted, Returned, Fault} \/ IsPlace(at)
  /\ at # NotStarted \/ done # 0 => Finished
  /\ done \in Nat
  /\ DOMAIN regs \subseteq 1..(FieldSize - 1)
  /\ nzp \in {"N", "Z", "P"}
  /\ steps \in 0..MaxSteps

LEMMA PlacesHaveCode ==
  ASSUME Shape, Finished, NEW b \in Blocks, NEW i \in DOMAIN CodeOf(b)
  PROVE  /\ HasCode(b, i) /\ IsGroup(code[b][i])
         /\ b \in Nat \ {0} /\ i \in Nat \ {0} /\ i <= Len(CodeOf(b))
<1>1. /\ kernel \in Kernels /\ position[1] \in 1..(Len(kernel.blocks) + 1)
      /\ position[1] \notin Blocks
  BY DEF Shape, InCode, Finished
<1>2. /\ Len(kernel.blocks) \in Nat \ {0} /\ Blocks = 1..Len(kernel.blocks)
      /\ DOMAIN CodeOf(b) = 1..Len(CodeOf(b)) /\ Len(CodeOf(b)) \in Nat \ {0}
  BY <1>1, KernelShape
<1>3. HasCode(b, i)
  BY <1>1, <1>2 DEF HasCode
<1>4. IsGroup(code[b][i])
  BY <1>3 DEF Shape
<1> QED
  BY <1>2, <1>3, <1>4

LEMMA GroupHere ==
  ASSUME LaneShape, Finished, at \notin {Returned, Fault}
  PROVE  IsGroup(Group)
<1>1. CASE at = NotStarted
  BY <1>1 DEF LaneShape, Shape, Group
<1>2. CASE at # NotStarted
  <2>1. PICK b \in Blocks : \E i \in DOMAIN CodeOf(b) : at = <<b, i>>
    BY <1>2 DEF LaneShape, IsPlace
  <2>2. PICK i \in DOMAIN CodeOf(b) : at = <<b, i>>
    BY <2>1
  <2>3. IsGroup(code[b][i])
    BY <2>2, PlacesHaveCode DEF LaneShape
  <2> QED
    BY <1>2, <2>2, <2>3 DEF Group
<1> QED
  BY <1>1, <1>2

LEMMA FallthroughIsPlace ==
  ASSUME LaneShape, Finished, at \notin {Returned, Fault}
  PROVE  Fallthrough = Fault \/ IsPlace(Fallthrough)
<1>1. /\ kernel \in Kernels
      /\ Len(kernel.blocks) \in Nat \ {0} /\ Blocks = 1..Len(kernel.blocks)
      /\ \A b \in Blocks : DOMAIN CodeOf(b) = 1..Len(CodeOf(b)) /\ Len(CodeOf(b)) \in Nat \ {0}
  BY KernelShape DEF LaneShape, Shape, InCode
<1>2. CASE at = NotStarted
  <2>1. Fallthrough = <<1, 1>>
    BY <1>2 DEF Fallthrough
  <2>2. 1 \in Blocks /\ 1 \in DOMAIN CodeOf(1)
    BY <1>1
  <2> QED
    BY <2>1, <2>2 DEF IsPlace
<1>3. CASE at # NotStarted
  <2>1. PICK b \in Blocks : \E i \in DOMAIN CodeOf(b) : at = <<b, i>>
    BY <1>3 DEF LaneShape, IsPlace
  <2>2. PICK i \in DOMAIN CodeOf(b) : at = <<b, i>>
    BY <2>1
  <2>3. at[1] = b /\ at[2] = i
    BY <2>2
  <2>4. CASE i < Len(CodeOf(b))
    <3>1. Fallthrough = <<b, i + 1>>
      BY <1>3, <2>3, <2>4 DEF Fallthrough
    <3>2. i + 1 \in DOMAIN CodeOf(b)
      BY <1>1, <2>4
    <3> QED
      BY <3>1, <3>2 DEF IsPlace
  <2>5. CASE ~(i < Len(CodeOf(b)))
    <3>1. Fallthrough = IF b < Len(kernel.blocks) THEN <<b + 1, 1>> ELSE Fault
      BY <1>3, <2>3, <2>5 DEF Fallthrough
    <3>2. b < Len(kernel.blocks) => b + 1 \in Blocks /\ 1 \in DOMAIN CodeOf(b + 1)
      BY <1>1
    <3> QED
      BY <3>1, <3>2 DEF IsPlace
  <2> QED
    BY <2>4, <2>5
<1> QED
  BY <1>2, <1>3

LEMMA LeastNumber ==
  ASSUME NEW S \in SUBSET Nat, S # {}
  PROVE  \E k \in S : \A j \in S : k <= j
<1> DEFINE Less == OpToRel(<, Nat)
<1>1. IsWellFoundedOn(Less, Nat)
  BY NatLessThanWellFounded
<1>2. \A m, n \in Nat : <<n, m>> \notin Less => ~ (n < m)
  BY Zenon DEF OpToRel
<1> HIDE DEF Less
<1>3. PICK k \in S : \A j \in S : <<j, k>> \notin Less
  BY <1>1, WFMin
<1>4. \A j \in S : ~ (j < k)
  BY <1>2, <1>3, Zenon
<1> QED
  BY <1>4

LEMMA LargestNumber ==
  ASSUME NEW n \in Nat, NEW S \in SUBSET (1..n), S # {}
  PROVE  \E k \in S : \A j \in S : k >= j
<1>1. PICK m \in {n - j : j \in S} : \A k \in {n - j : j \in S} : m <= k
  <2> DEFINE rest == {n - j : j \in S}
  <2>1. \A j \in S : n - j \in Nat
    OBVIOUS
  <2>2. rest \in SUBSET Nat
    BY <2>1
  <2>3. rest # {}
    OBVIOUS
  <2> HIDE DEF rest
  <2>4. \E m \in rest : \A k \in rest : m <= k
    BY <2>2, <2>3, LeastNumber
  <2> QED
    BY <2>4 DEF rest
<1>2. PICK k \in S : m = n - k
  BY <1>1
<1>3. \A j \in S : n - k <= n - j
  BY <1>1, <1>2
<1> QED
  BY <1>3

\* A label of the function is found.
LEMMA LabelsAreFound ==
  ASSUME kernel \in Kernels, NEW name, \E b \in Blocks : name = BlockName(b)
  PROVE  BlockLabelled(name) \in Blocks /\ BlockName(BlockLabelled(name)) = name
<1> DEFINE same == {b \in Blocks : BlockName(b) = name}
<1>1. Blocks = 1..Len(kernel.blocks) /\ Len(kernel.blocks) \in Nat
  BY KernelShape
<1>2. same # {} /\ same \in SUBSET (1..Len(kernel.blocks))
  BY <1>1
<1>3. \E m \in same : \A n \in same : m >= n
  BY <1>1, <1>2, LargestNumber
<1>4. BlockLabelled(name) \in same
  BY <1>3 DEF BlockLabelled, Max
<1> QED
  BY <1>4

LEMMA LaneShapeAtFirst == LaneInit => LaneShape
  BY ShapeAtFirst, RunAssumption, FieldSizeAssumption
  DEF LaneInit, LaneShape, NotStarted, EmptyMap

LEMMA LaneShapeKept ==
  LaneShape /\ [LaneNext]_<<selectorVars, laneVars>> => LaneShape'
<1> SUFFICES ASSUME LaneShape, [LaneNext]_<<selectorVars, laneVars>> PROVE LaneShape'
  OBVIOUS
<1> USE DEF LaneShape
<1>1. [Next]_selectorVars
  BY DEF LaneNext, Select, Pass, Step, TakeBranch, Exit, ReadUnfilled
<1>2. Shape'
  BY <1>1, ShapeKept
<1>3. ASSUME UNCHANGED selectorVars
      PROVE  /\ \A a : IsPlace(a)' <=> IsPlace(a)
             /\ Finished' <=> Finished
  BY <1>3 DEF selectorVars, IsPlace, Blocks, CodeOf, Finished
<1>4. CASE Select
  <2>1. UNCHANGED laneVars
    BY <1>4 DEF Select
  <2>2. Finished => ~Next
    <3>1. Finished => ~LoadArgument
      <4>1. Finished => Loaded
        <5>1. 1 \in Blocks
          BY KernelShape DEF Shape, InCode
        <5>2. position = <<1, 1>> => ~Finished
          BY <5>1 DEF Finished
        <5> QED
          BY <5>2 DEF Shape
      <4> QED
        BY <4>1 DEF LoadArgument
    <3> QED
      BY <3>1, HandlersPush DEF Shape
  <2>3. ~Finished
    BY <1>4, <2>2 DEF Select
  <2>4. at = NotStarted /\ done = 0
    BY <2>3
  <2> QED
    BY <1>2, <2>1, <2>4 DEF laneVars
<1>5. ASSUME NEW to, Leave(to), Running, to \in {Returned, Fault} \/ IsPlace(to), UNCHANGED selectorVars
      PROVE  /\ at' \in {NotStarted, Returned, Fault} \/ IsPlace(at)'
             /\ (at' # NotStarted \/ done' # 0 => Finished')
             /\ done' \in Nat
             /\ steps' \in 0..MaxSteps
  <2>1. at' = to /\ done' = 0 /\ steps' = steps + 1
    BY <1>5 DEF Leave
  <2>2. Finished /\ steps < MaxSteps
    BY <1>5 DEF Running
  <2>3. IsPlace(to) => IsPlace(at)'
    BY <1>3, <1>5, <2>1 DEF IsPlace, selectorVars, Blocks, CodeOf
  <2> QED
    BY <1>3, <1>5, <2>1, <2>2, <2>3, RunAssumption
<1>6. CASE Pass
  <2>1. Running /\ Leave(Fallthrough) /\ UNCHANGED selectorVars /\ UNCHANGED <<regs, nzp>>
    BY <1>6 DEF Pass
  <2>2. Fallthrough = Fault \/ IsPlace(Fallthrough)
    BY <2>1, FallthroughIsPlace DEF Running
  <2> QED
    BY <1>2, <1>5, <2>1, <2>2
<1>7. CASE Step
  <2>1. /\ Running /\ done < Len(Group) /\ UNCHANGED selectorVars
        /\ Execute(NextInstruction)
        /\ IF done + 1 = Len(Group) THEN Leave(Fallthrough)
           ELSE done' = done + 1 /\ UNCHANGED <<at, env, steps>>
    BY <1>7 DEF Step, Ready
  <2>2. Fallthrough = Fault \/ IsPlace(Fallthrough)
    BY <2>1, FallthroughIsPlace DEF Running
  <2>3. IsInstruction(NextInstruction)
    <3>1. IsGroup(Group)
      BY <2>1, GroupHere DEF Running
    <3>2. Len(Group) \in Nat
      BY <3>1, LenProperties DEF IsGroup
    <3>3. done + 1 \in 1..Len(Group)
      BY <2>1, <3>2
    <3> QED
      BY <3>1, <3>3 DEF IsGroup, NextInstruction
  <2>4. DOMAIN regs' \subseteq 1..(FieldSize - 1)
    BY <2>1, <2>3, FieldSizeAssumption DEF Execute, Updated, IsInstruction, VREG_ZERO
  <2>5. nzp' \in {"N", "Z", "P"}
    BY <2>1 DEF Execute, Sign
  <2>6. CASE done + 1 = Len(Group)
    BY <1>2, <1>5, <2>1, <2>2, <2>4, <2>5, <2>6
  <2>7. CASE done + 1 # Len(Group)
    <3>1. done' = done + 1 /\ UNCHANGED <<at, steps>> /\ Finished
      BY <2>1, <2>7 DEF Running
    <3>2. IsPlace(at) => IsPlace(at)'
      BY <2>1, <3>1 DEF IsPlace, selectorVars, Blocks, CodeOf
    <3> QED
      BY <1>2, <1>3, <2>1, <2>4, <2>5, <3>1, <3>2
  <2> QED
    BY <2>6, <2>7
<1>8. CASE TakeBranch
  <2>1. /\ Running /\ done < Len(Group) /\ NextInstruction.op = "BR"
        /\ Leave(<<BlockLabelled(NextInstruction.labelTarget), 1>>)
        /\ UNCHANGED selectorVars /\ UNCHANGED <<regs, nzp>>
    BY <1>8 DEF TakeBranch, Ready, Taken
  <2>2. IsInstruction(NextInstruction)
    <3>1. IsGroup(Group)
      BY <2>1, GroupHere DEF Running
    <3>2. Len(Group) \in Nat
      BY <3>1, LenProperties DEF IsGroup
    <3>3. done + 1 \in 1..Len(Group)
      BY <2>1, <3>2
    <3> QED
      BY <3>1, <3>3 DEF IsGroup, NextInstruction
  <2>3. BlockLabelled(NextInstruction.labelTarget) \in Blocks
    BY <2>1, <2>2, LabelsAreFound DEF IsInstruction, Shape, InCode
  <2>4. \A b \in Blocks : 1 \in DOMAIN CodeOf(b)
    BY KernelShape DEF Shape, InCode
  <2>5. IsPlace(<<BlockLabelled(NextInstruction.labelTarget), 1>>)
    BY <2>3, <2>4 DEF IsPlace
  <2> QED
    BY <1>2, <1>5, <2>1, <2>5
<1>9. CASE Exit
  <2>1. Running /\ Leave(Returned) /\ UNCHANGED selectorVars /\ UNCHANGED <<regs, nzp>>
    BY <1>9 DEF Exit, Ready
  <2> QED
    BY <1>2, <1>5, <2>1
<1>10. CASE ReadUnfilled
  BY <1>2, <1>3, <1>10 DEF ReadUnfilled, Running
<1>11. CASE UNCHANGED <<selectorVars, laneVars>>
  <2>1. UNCHANGED selectorVars /\ UNCHANGED <<at, done, regs, nzp, steps>>
    BY <1>11 DEF laneVars
  <2>2. IsPlace(at) => IsPlace(at)'
    BY <2>1 DEF IsPlace, selectorVars, Blocks, CodeOf
  <2> QED
    BY <1>2, <1>3, <2>1, <2>2
<1> QED
  BY <1>4, <1>6, <1>7, <1>8, <1>9, <1>10, <1>11 DEF LaneNext

\* The selector has at most one list of instructions for each instruction of a
\* block, and the lane writes registers of the register fields and no others.
THEOREM SelectorTypeCorrect == LaneSpec => []TypeOK
<1>1. LaneShape => TypeOK
  <2> SUFFICES ASSUME LaneShape PROVE TypeOK
    OBVIOUS
  <2>1. /\ \A b \in Blocks : Len(CodeOf(b)) \in Nat \ {0} /\ b \in Nat
        /\ kernel \in Kernels
    BY KernelShape DEF LaneShape, Shape, InCode
  <2>2. \A b \in Blocks : Len(code[b]) <= Len(CodeOf(b))
    <3> SUFFICES ASSUME NEW b \in Blocks PROVE Len(code[b]) <= Len(CodeOf(b))
      OBVIOUS
    <3>1. Len(code[b]) = Written(b)
      BY DEF LaneShape, Shape
    <3>2. b = position[1] => position[2] - 1 <= Len(CodeOf(b))
      BY <2>1 DEF LaneShape, Shape, InCode
    <3> QED
      BY <2>1, <3>1, <3>2 DEF Written
  <2> QED
    BY <2>2 DEF TypeOK, LaneShape, Shape, InCode, Numbered
<1> QED
  BY <1>1, LaneShapeAtFirst, LaneShapeKept, PTL DEF LaneSpec

-----------------------------------------------------------------------------
(* What the code of an IR instruction is like, by the value map and the     *)
(* next number.                                                            *)

WritingOps == ThreeRegister \cup {"ADDI", "LDR", "S2R"}

Writes(mi) == mi.op \in WritingOps

NumberOf(map, v) == IF v = Zero THEN VREG_ZERO ELSE map[v]

\* A register that no value has.
IsFree(map, next, t) == t \in 1..(next - 1) /\ \A v \in DOMAIN map : map[v] # t

Instruction(op, rd, rs1, rs2, imm) == MachineInstruction(op, rd, rs1, rs2, imm, ALWAYS, NoLabel)

Fill(r, n) == Instruction("ADDI", r, VREG_ZERO, 0, n)

IsFilling(v) == IsConst(v) /\ v # Zero

WrittenBefore(g, e) == {g[d].rd : d \in {d \in 1..(e - 1) : Writes(g[d])}}

\* Instruction e reads what is needed or was written before it, and writes a
\* register that nothing in the group has written or read: at the end that of
\* the value, a temporary, or that of a constant, which it fills.
IsTidy(map, next, g, needs, self, e) ==
  /\ Writes(g[e]) =>
       /\ g[e].rd \notin WrittenBefore(g, e)
       /\ \A d \in 1..e : g[e].rd \notin RegistersRead(g[d])
       /\ \/ e = Len(g) /\ self \in DOMAIN map /\ g[e].rd = map[self]
          \/ IsFree(map, next, g[e].rd)
          \/ \E v \in needs : IsFilling(v) /\ v \in DOMAIN map /\ g[e] = Fill(map[v], v[2])
  /\ RegistersRead(g[e]) \subseteq {VREG_ZERO} \cup {NumberOf(map, v) : v \in needs}
                                     \cup WrittenBefore(g, e)
  /\ e < Len(g) => Writes(g[e]) \/ g[e].op \in {"CMP", "BR"}
  /\ g[e].op = "CMP" => \A d \in (e + 1)..Len(g) : g[d].op = "BR"
  /\ g[e].op = "ADDI" => g[e].imm \in Int
  /\ g[e].op = "S2R" => g[e].imm \in TID_X..BID_Y

GroupOk(map, next, g, needs, self) ==
  /\ \A v \in needs : v = Zero \/ v \in DOMAIN map
  /\ \A e \in 1..Len(g) : IsTidy(map, next, g, needs, self, e)

\* The asks of a handler are for the needed values, for the value itself, and
\* for temporaries.
AsksFor(asks, needs, self) ==
  /\ self \notin needs /\ Temporary \notin needs /\ self \notin {Zero, Temporary} /\ ~IsConst(self)
  /\ \A v \in needs : v = Zero \/ \E k \in DOMAIN asks : asks[k].value = v
  /\ \A v \in needs : IsConst(v) => v[2] \in Int
  /\ \A k \in DOMAIN asks :
       \/ asks[k].value = self /\ asks[k].fill = <<>>
       \/ asks[k].value = Temporary /\ (asks[k].fill = <<>> \/ \E n \in Int : asks[k].fill = <<n>>)
       \/ /\ asks[k].value \in needs
          /\ IF IsFilling(asks[k].value) THEN asks[k].fill = <<asks[k].value[2]>>
             ELSE ~Brings(asks, k)

Readable(asks, needs) ==
  {k \in DOMAIN asks : asks[k].value \in needs \/ (asks[k].value = Temporary /\ asks[k].fill # <<>>)}

\* Instruction e of those a handler pushes itself.
IsOwn(asks, own, needs, self, e) ==
  /\ Writes(own[e]) =>
       /\ own[e].rd \notin WrittenBefore(own, e)
       /\ \A d \in 1..e : own[e].rd \notin RegistersRead(own[d])
       /\ \E k \in DOMAIN asks :
            /\ own[e].rd = Register(asks, k)
            /\ \/ asks[k].value = self /\ e = Len(own)
               \/ asks[k].value = Temporary /\ asks[k].fill = <<>>
  /\ RegistersRead(own[e]) \subseteq {VREG_ZERO} \cup {Register(asks, k) : k \in Readable(asks, needs)}
                                       \cup WrittenBefore(own, e)
  /\ e < Len(own) => Writes(own[e]) \/ own[e].op \in {"CMP", "BR"}
  /\ own[e].op = "CMP" => \A d \in (e + 1)..Len(own) : own[d].op = "BR"
  /\ own[e].op = "ADDI" => own[e].imm \in Int
  /\ own[e].op = "S2R" => own[e].imm \in TID_X..BID_Y

OwnOk(asks, own, needs, self) ==
  /\ \E S : own \in Seq(S)
  /\ \A e \in 1..Len(own) : IsOwn(asks, own, needs, self, e)

LEMMA FieldsHold ==
  ASSUME NEW r \in Nat, r < FieldSize PROVE Field(r) = r
  BY FieldSizeAssumption DEF Field

LEMMA PlainIs ==
  ASSUME NEW op, NEW rd \in Nat, NEW rs1 \in Nat, NEW rs2 \in Nat, NEW imm,
         rd < FieldSize, rs1 < FieldSize, rs2 < FieldSize
  PROVE  Plain(op, rd, rs1, rs2, imm) = Instruction(op, rd, rs1, rs2, imm)
  BY FieldsHold DEF Plain, Instruction

LEMMA InstructionFields ==
  \A op, rd, rs1, rs2, imm :
    LET mi == Instruction(op, rd, rs1, rs2, imm)
    IN  mi.op = op /\ mi.rd = rd /\ mi.rs1 = rs1 /\ mi.rs2 = rs2 /\ mi.imm = imm
  BY DEF Instruction, MachineInstruction

LEMMA FillFields ==
  \A r, n : /\ Fill(r, n).op = "ADDI" /\ Fill(r, n).rd = r /\ Fill(r, n).rs1 = VREG_ZERO
            /\ Fill(r, n).imm = n
            /\ Writes(Fill(r, n)) /\ RegistersRead(Fill(r, n)) = {VREG_ZERO}
<1>1. \A r, n : /\ Fill(r, n).op = "ADDI" /\ Fill(r, n).rd = r /\ Fill(r, n).rs1 = VREG_ZERO
                /\ Fill(r, n).imm = n
  BY InstructionFields DEF Fill
<1>2. \A mi : mi.op = "ADDI" => Writes(mi) /\ RegistersRead(mi) = {mi.rs1}
  BY DEF Writes, WritingOps, RegistersRead, ThreeRegister
<1> QED
  BY <1>1, <1>2

\* The fills of a handler come before its own instructions, and do not get in
\* their way.
LEMMA PushedOk ==
  ASSUME Numbered, Valued, NEW asks, IsAsks(asks), Record(asks), nextVReg' <= FieldSize,
         NEW needs, NEW self, AsksFor(asks, needs, self),
         NEW own, OwnOk(asks, own, needs, self),
         NEW g, g = Pushed(asks, own)
  PROVE  GroupOk(valueToVReg', nextVReg', g, needs, self)
<1> DEFINE W == valueToVReg'
           M == nextVReg'
           r(k) == Register(asks, k)
<1>0. PICK n \in 0..5 : \E fills, from : /\ DOMAIN asks = 1..n
                                         /\ Filling(asks, n, fills, from)
                                         /\ Pushed(asks, own) = fills \o own
  BY PushedIs
<1>1. PICK fills, from : /\ DOMAIN asks = 1..n
                         /\ Filling(asks, n, fills, from)
                         /\ Pushed(asks, own) = fills \o own
  BY <1>0
<1>2. /\ Numbered' /\ Valued' /\ nextVReg <= M
      /\ \A k \in 1..n :
           /\ r(k) \in 0..(M - 1)
           /\ asks[k].value = Zero => r(k) = VREG_ZERO
           /\ asks[k].value \notin {Zero, Temporary} =>
                asks[k].value \in DOMAIN W /\ r(k) = W[asks[k].value]
           /\ asks[k].value = Temporary =>
                /\ r(k) >= nextVReg
                /\ \A v \in DOMAIN W : W[v] # r(k)
                /\ \A j \in 1..n : j # k => r(j) # r(k)
  BY <1>1, AsksAnswered
<1>3. /\ M \in Nat \ {0} /\ nextVReg \in Nat \ {0}
      /\ \A v \in DOMAIN W : W[v] \in 1..(M - 1)
      /\ \A v, w \in DOMAIN W : W[v] = W[w] => v = w
  BY <1>2 DEF Numbered
<1> HIDE DEF W, M, r
<1>4. \A v \in needs : v = Zero \/ v \in DOMAIN W
  BY <1>1, <1>2 DEF AsksFor
\* Asks that bring a fill.
<1>5. \A k \in 1..n : Brings(asks, k) =>
        \/ /\ asks[k].value = Temporary /\ \E c \in Int : asks[k].fill = <<c>>
           /\ IsFree(W, M, r(k))
        \/ /\ asks[k].value \in needs /\ IsFilling(asks[k].value)
           /\ asks[k].value \in DOMAIN W /\ r(k) = W[asks[k].value]
           /\ asks[k].fill = <<asks[k].value[2]>> /\ asks[k].value[2] \in Int
  <2> SUFFICES ASSUME NEW k \in 1..n, Brings(asks, k)
               PROVE  \/ /\ asks[k].value = Temporary /\ \E c \in Int : asks[k].fill = <<c>>
                         /\ IsFree(W, M, r(k))
                      \/ /\ asks[k].value \in needs /\ IsFilling(asks[k].value)
                         /\ asks[k].value \in DOMAIN W /\ r(k) = W[asks[k].value]
                         /\ asks[k].fill = <<asks[k].value[2]>> /\ asks[k].value[2] \in Int
    OBVIOUS
  <2>1. asks[k].fill # <<>>
    BY DEF Brings
  <2>2. CASE asks[k].value = Temporary
    <3>1. \E c \in Int : asks[k].fill = <<c>>
      BY <1>1, <2>1, <2>2 DEF AsksFor
    <3>2. IsFree(W, M, r(k))
      BY <1>2, <1>3, <2>2 DEF IsFree
    <3> QED
      BY <2>2, <3>1, <3>2
  <2>3. CASE asks[k].value # Temporary
    <3>1. asks[k].value \in needs /\ IsFilling(asks[k].value) /\ asks[k].fill = <<asks[k].value[2]>>
      BY <1>1, <2>1, <2>3 DEF AsksFor
    <3>2. asks[k].value[2] \in Int
      BY <3>1 DEF AsksFor, IsFilling
    <3>3. asks[k].value \in DOMAIN W /\ r(k) = W[asks[k].value]
      BY <1>2, <2>3, <3>1 DEF IsFilling
    <3> QED
      BY <3>1, <3>2, <3>3
  <2> QED
    BY <2>2, <2>3
<1>6. \A j, k \in 1..n : Brings(asks, j) /\ Brings(asks, k) /\ j < k => r(j) # r(k)
  <2> SUFFICES ASSUME NEW j \in 1..n, NEW k \in 1..n, Brings(asks, j), Brings(asks, k), j < k
               PROVE  r(j) # r(k)
    OBVIOUS
  <2>1. CASE asks[k].value = Temporary \/ asks[j].value = Temporary
    BY <1>2, <2>1
  <2>2. CASE asks[k].value # Temporary /\ asks[j].value # Temporary
    <3>1. asks[j].value # asks[k].value
      BY <2>2 DEF Brings, IsNew
    <3>2. asks[j].value \in DOMAIN W /\ asks[k].value \in DOMAIN W
          /\ r(j) = W[asks[j].value] /\ r(k) = W[asks[k].value]
      BY <1>5, <2>2
    <3> QED
      BY <1>3, <3>1, <3>2
  <2> QED
    BY <2>1, <2>2
<1>7. \A k \in 1..n : Brings(asks, k) => r(k) # VREG_ZERO
  BY <1>3, <1>5 DEF IsFree, VREG_ZERO
\* The fills and the own instructions in one list.
<1>8. PICK S : fills \in Seq(S)
  BY <1>1 DEF Filling
<1>9. PICK T : own \in Seq(T)
  BY DEF OwnOk
<1> DEFINE m == Len(fills)
<1>10. /\ m \in Nat /\ Len(own) \in Nat
       /\ Len(g) = m + Len(own)
       /\ \A e \in 1..m : g[e] = fills[e]
       /\ \A e \in 1..Len(own) : g[m + e] = own[e]
  <2>1. fills \in Seq(S \cup T) /\ own \in Seq(S \cup T)
    BY <1>8, <1>9
  <2>2. /\ m \in Nat /\ Len(own) \in Nat
        /\ Len(fills \o own) = m + Len(own)
        /\ \A e \in 1..(m + Len(own)) :
             (fills \o own)[e] = IF e <= m THEN fills[e] ELSE own[e - m]
    BY <2>1, ConcatProperties, LenProperties
  <2>3. g = fills \o own
    BY <1>1
  <2>4. \A e \in 1..Len(own) : g[m + e] = own[e]
    <3> SUFFICES ASSUME NEW e \in 1..Len(own) PROVE g[m + e] = own[e]
      OBVIOUS
    <3>1. m + e \in 1..(m + Len(own)) /\ ~(m + e <= m) /\ (m + e) - m = e
      BY <2>2
    <3> HIDE DEF m
    <3> QED
      BY <2>2, <2>3, <3>1
  <2> QED
    BY <2>2, <2>3, <2>4
<1>11. \A e \in 1..m : /\ from[e] \in 1..n /\ Brings(asks, from[e])
                       /\ g[e] = Fill(r(from[e]), asks[from[e]].fill[1])
  <2> SUFFICES ASSUME NEW e \in 1..m
               PROVE  /\ from[e] \in 1..n /\ Brings(asks, from[e])
                      /\ g[e] = Fill(r(from[e]), asks[from[e]].fill[1])
    OBVIOUS
  <2>1. from[e] \in 1..n /\ Brings(asks, from[e]) /\ fills[e] = FillOf(asks, from[e])
    BY <1>1 DEF Filling
  <2>2. r(from[e]) \in Nat /\ r(from[e]) < FieldSize /\ VREG_ZERO \in Nat /\ VREG_ZERO < FieldSize
    BY <1>2, <1>3, <2>1, FieldSizeAssumption DEF VREG_ZERO, M
  <2>3. FillOf(asks, from[e]) = Fill(r(from[e]), asks[from[e]].fill[1])
    BY <2>2, PlainIs DEF FillOf, Fill, r, VREG_ZERO
  <2> QED
    BY <1>10, <2>1, <2>3
<1>12. \A d, e \in 1..m : d < e => g[d].rd # g[e].rd
  <2> SUFFICES ASSUME NEW d \in 1..m, NEW e \in 1..m, d < e PROVE g[d].rd # g[e].rd
    OBVIOUS
  <2>1. from[d] < from[e]
    BY <1>1 DEF Filling
  <2>2. r(from[d]) # r(from[e])
    BY <1>6, <1>11, <2>1
  <2> QED
    BY <1>11, <2>2, FillFields
<1>13. \A e \in 1..m : /\ g[e].op = "ADDI" /\ Writes(g[e]) /\ RegistersRead(g[e]) = {VREG_ZERO}
                       /\ g[e].rd = r(from[e]) /\ g[e].rd # VREG_ZERO
  BY <1>7, <1>11, FillFields
\* The registers the handler itself writes are not those it fills.
<1>14. \A e \in 1..Len(own) : Writes(own[e]) =>
         /\ own[e].rd # VREG_ZERO
         /\ \A k \in 1..n : Brings(asks, k) => own[e].rd # r(k)
         /\ \/ e = Len(own) /\ self \in DOMAIN W /\ own[e].rd = W[self]
            \/ IsFree(W, M, own[e].rd)
  <2> SUFFICES ASSUME NEW e \in 1..Len(own), Writes(own[e])
               PROVE  /\ own[e].rd # VREG_ZERO
                      /\ \A k \in 1..n : Brings(asks, k) => own[e].rd # r(k)
                      /\ \/ e = Len(own) /\ self \in DOMAIN W /\ own[e].rd = W[self]
                         \/ IsFree(W, M, own[e].rd)
    OBVIOUS
  <2>1. PICK j \in 1..n : /\ own[e].rd = r(j)
                          /\ \/ asks[j].value = self /\ e = Len(own)
                             \/ asks[j].value = Temporary /\ asks[j].fill = <<>>
    BY <1>1 DEF OwnOk, IsOwn, r
  <2>2. CASE asks[j].value = self /\ e = Len(own)
    <3>1. self \in DOMAIN W /\ own[e].rd = W[self]
      BY <1>2, <2>1, <2>2 DEF AsksFor
    <3>2. own[e].rd # VREG_ZERO
      BY <1>3, <3>1 DEF VREG_ZERO
    <3>3. \A k \in 1..n : Brings(asks, k) => own[e].rd # r(k)
      <4> SUFFICES ASSUME NEW k \in 1..n, Brings(asks, k) PROVE own[e].rd # r(k)
        OBVIOUS
      <4>1. CASE IsFree(W, M, r(k))
        BY <3>1, <4>1 DEF IsFree
      <4>2. CASE asks[k].value \in needs /\ asks[k].value \in DOMAIN W /\ r(k) = W[asks[k].value]
        BY <1>3, <3>1, <4>2 DEF AsksFor
      <4> QED
        BY <1>5, <4>1, <4>2
    <3> QED
      BY <2>2, <3>1, <3>2, <3>3
  <2>3. CASE asks[j].value = Temporary /\ asks[j].fill = <<>>
    <3>1. IsFree(W, M, own[e].rd)
      BY <1>2, <1>3, <2>1, <2>3 DEF IsFree
    <3>2. \A k \in 1..n : Brings(asks, k) => k # j
      BY <2>3 DEF Brings
    <3>3. \A k \in 1..n : Brings(asks, k) => own[e].rd # r(k)
      BY <1>2, <2>1, <2>3, <3>2
    <3> QED
      BY <3>1, <3>3 DEF IsFree, VREG_ZERO
  <2> QED
    BY <2>1, <2>2, <2>3
<1>15. \A e \in 1..Len(own) : Writes(own[e]) => \A d \in 1..m : own[e].rd # g[d].rd
  BY <1>11, <1>13, <1>14
<1> HIDE DEF m
<1>16. ASSUME NEW e \in 1..m PROVE IsTidy(W, M, g, needs, self, e)
  <2>1. g[e].rd \notin WrittenBefore(g, e)
    <3>1. \A d \in 1..(e - 1) : d \in 1..m /\ d < e
      BY <1>10
    <3> QED
      BY <1>12, <3>1 DEF WrittenBefore
  <2>2. \A d \in 1..e : g[e].rd \notin RegistersRead(g[d])
    <3>1. \A d \in 1..e : d \in 1..m
      BY <1>10
    <3> QED
      BY <1>13, <3>1
  <2>3. \/ IsFree(W, M, g[e].rd)
        \/ \E v \in needs : IsFilling(v) /\ v \in DOMAIN W /\ g[e] = Fill(W[v], v[2])
    BY <1>5, <1>11, <1>13
  <2>4. g[e].imm \in Int
    BY <1>5, <1>11, FillFields
  <2> QED
    BY <1>13, <2>1, <2>2, <2>3, <2>4 DEF IsTidy
<1>17. ASSUME NEW e \in 1..Len(own) PROVE IsTidy(W, M, g, needs, self, m + e)
  <2>1. /\ m + e \in Nat /\ g[m + e] = own[e] /\ IsOwn(asks, own, needs, self, e)
        /\ (m + e < Len(g) <=> e < Len(own)) /\ (m + e = Len(g) <=> e = Len(own))
    BY <1>10 DEF OwnOk
  <2>2. \A d \in 1..(m + e) : d \in 1..m \/ \E c \in 1..e : d = m + c /\ g[d] = own[c] /\ c \in 1..Len(own)
    <3> SUFFICES ASSUME NEW d \in 1..(m + e), d \notin 1..m
                 PROVE  \E c \in 1..e : d = m + c /\ g[d] = own[c] /\ c \in 1..Len(own)
      OBVIOUS
    <3>1. d - m \in 1..e /\ d - m \in 1..Len(own) /\ d = m + (d - m)
      BY <1>10
    <3> QED
      BY <1>10, <3>1
  <2>3. WrittenBefore(own, e) \subseteq WrittenBefore(g, m + e)
    <3> SUFFICES ASSUME NEW c \in 1..(e - 1), Writes(own[c]) PROVE own[c].rd \in WrittenBefore(g, m + e)
      BY DEF WrittenBefore
    <3>1. m + c \in 1..((m + e) - 1) /\ c \in 1..Len(own) /\ g[m + c] = own[c]
      BY <1>10
    <3> QED
      BY <3>1 DEF WrittenBefore
  <2>4. ASSUME NEW k \in 1..n, Brings(asks, k) PROVE r(k) \in WrittenBefore(g, m + e)
    <3>1. PICK d \in 1..m : from[d] = k
      BY <1>1, <2>4 DEF Filling, m
    <3>2. d \in 1..((m + e) - 1) /\ Writes(g[d]) /\ g[d].rd = r(k)
      BY <1>10, <1>13, <3>1
    <3> QED
      BY <3>2 DEF WrittenBefore
  <2>5. ASSUME Writes(own[e])
        PROVE  /\ own[e].rd \notin WrittenBefore(g, m + e)
               /\ \A d \in 1..(m + e) : own[e].rd \notin RegistersRead(g[d])
    <3>1. /\ own[e].rd \notin WrittenBefore(own, e)
          /\ \A c \in 1..e : own[e].rd \notin RegistersRead(own[c])
      BY <2>1, <2>5 DEF IsOwn
    <3>2. ASSUME NEW d \in 1..((m + e) - 1), Writes(g[d]) PROVE g[d].rd # own[e].rd
      <4>1. CASE d \in 1..m
        BY <1>15, <2>5, <4>1
      <4>2. CASE d \notin 1..m
        <5>1. PICK c \in 1..e : d = m + c /\ g[d] = own[c] /\ c \in 1..Len(own)
          BY <1>10, <2>2, <4>2
        <5>2. c \in 1..(e - 1)
          BY <1>10, <5>1
        <5> QED
          BY <3>1, <3>2, <5>1, <5>2 DEF WrittenBefore
      <4> QED
        BY <4>1, <4>2
    <3>3. \A d \in 1..(m + e) : own[e].rd \notin RegistersRead(g[d])
      BY <1>13, <1>14, <2>2, <2>5, <3>1
    <3> QED
      BY <3>2, <3>3 DEF WrittenBefore
  <2>6. RegistersRead(own[e]) \subseteq {VREG_ZERO} \cup {NumberOf(W, v) : v \in needs}
                                         \cup WrittenBefore(g, m + e)
    <3>1. ASSUME NEW k \in Readable(asks, needs)
          PROVE  r(k) \in {NumberOf(W, v) : v \in needs} \cup WrittenBefore(g, m + e)
      <4>1. k \in 1..n
        BY <1>1 DEF Readable
      <4>2. CASE asks[k].value = Temporary /\ asks[k].fill # <<>>
        BY <2>4, <4>1, <4>2 DEF Brings, IsNew
      <4>3. CASE asks[k].value \in needs
        <5>1. asks[k].value # Temporary
          BY <4>3 DEF AsksFor
        <5>2. r(k) = NumberOf(W, asks[k].value)
          BY <1>2, <4>1, <5>1 DEF NumberOf
        <5> QED
          BY <4>3, <5>2
      <4> QED
        BY <4>2, <4>3 DEF Readable
    <3>2. RegistersRead(own[e]) \subseteq {VREG_ZERO} \cup {r(k) : k \in Readable(asks, needs)}
                                           \cup WrittenBefore(own, e)
      BY <2>1 DEF IsOwn, r
    <3> QED
      BY <2>3, <3>1, <3>2
  <2>7. own[e].op = "CMP" => \A d \in ((m + e) + 1)..Len(g) : g[d].op = "BR"
    <3> SUFFICES ASSUME own[e].op = "CMP", NEW d \in ((m + e) + 1)..Len(g) PROVE g[d].op = "BR"
      OBVIOUS
    <3>1. d - m \in (e + 1)..Len(own) /\ d - m \in 1..Len(own) /\ d = m + (d - m)
      BY <1>10
    <3>2. own[d - m].op = "BR"
      BY <2>1, <3>1 DEF IsOwn
    <3> QED
      BY <1>10, <3>1, <3>2
  <2> QED
    BY <1>14, <2>1, <2>5, <2>6, <2>7 DEF IsTidy, IsOwn
<1>18. ASSUME NEW e \in 1..Len(g) PROVE IsTidy(W, M, g, needs, self, e)
  <2>1. CASE e <= m
    BY <1>10, <1>16, <2>1
  <2>2. CASE ~(e <= m)
    <3>1. e - m \in 1..Len(own) /\ e = m + (e - m)
      BY <1>10, <2>2
    <3> QED
      BY <1>17, <3>1
  <2> QED
    BY <2>1, <2>2
<1>19. GroupOk(W, M, g, needs, self)
  BY <1>4, <1>18 DEF GroupOk
<1> QED
  BY <1>19 DEF W, M

-----------------------------------------------------------------------------
(* The values an instruction reads.                                        *)

Needed(ins) == OnlyGotten(ins) \cup Materialized(ins)

AddsShort(ins) == ins.form = "add" /\ IsShort(ins.ops[2])
Shifts(ins)    == ins.form = "shl" /\ IsConst(ins.ops[2])

LEMMA RangeOfTwo ==
  ASSUME NEW A, NEW s \in Seq(A)
  PROVE  /\ Len(s) = 1 => Range(s) = {s[1]}
         /\ Len(s) = 2 => Range(s) = {s[1], s[2]}
         /\ Len(s) = 0 => Range(s) = {}
         /\ Range(s) \subseteq A
<1>1. DOMAIN s = 1..Len(s) /\ \A k \in 1..Len(s) : s[k] \in A
  BY LenProperties
<1> QED
  BY <1>1 DEF Range

LEMMA OperandsAre ==
  ASSUME NEW v \in Operands
  PROVE  /\ v[1] \in {"const", "arg", "global", "ins"}
         /\ v # Temporary
         /\ IsConst(v) => v[2] \in Int /\ v = Const(v[2])
         /\ v[1] = "arg" => v[2] \in Nat /\ v = Arg(v[2])
         /\ IsResult(v) => v = Result(v[2], v[3]) /\ v[2] \in Nat \ {0} /\ v[3] \in Nat \ {0}
<1>1. /\ v[1] \in {"const", "arg", "global", "ins"}
      /\ IsConst(v) => v[2] \in Int /\ v = Const(v[2])
      /\ v[1] = "arg" => v[2] \in Nat /\ v = Arg(v[2])
      /\ IsResult(v) => v = Result(v[2], v[3]) /\ v[2] \in Nat \ {0} /\ v[3] \in Nat \ {0}
  BY DEF Operands, IsConst, IsResult, Const, Arg, Result
<1>2. Temporary[1] = "temporary"
  BY DEF Temporary
<1> QED
  BY <1>1, <1>2

LEMMA SupportedInstruction ==
  ASSUME Supported, NEW b \in Blocks, NEW i \in DOMAIN CodeOf(b)
  PROVE  /\ IsSupported(CodeOf(b)[i])
         /\ CodeOf(b)[i].op = "icmp" => BranchOnly(Result(b, i))
<1>1. CodeOf(b)[i] \in Range(CodeOf(b))
  BY DEF Range
<1>2. CodeOf(b)[i] \in Instructions
  BY <1>1 DEF Instructions
<1> QED
  BY <1>2 DEF Supported

\* What is asked of the operands of each class.
LEMMA NeededValues ==
  ASSUME kernel \in Kernels, Supported, NEW b \in Blocks, NEW i \in DOMAIN CodeOf(b),
         NEW ins, ins = CodeOf(b)[i]
  PROVE  /\ ins.op = "binary" =>
              /\ Range(ins.ops) = {ins.ops[1], ins.ops[2]}
              /\ Needed(ins) = IF AddsShort(ins) \/ Shifts(ins) THEN {ins.ops[1]}
                               ELSE {ins.ops[1], ins.ops[2]}
         /\ ins.op \in {"load", "cast"} \/ (ins.op = "asm" /\ ins.form = "ldr") =>
              Range(ins.ops) = {ins.ops[1]} /\ Needed(ins) = {ins.ops[1]}
         /\ ins.op = "store" \/ (ins.op = "asm" /\ ins.form = "str") =>
              Range(ins.ops) = {ins.ops[1], ins.ops[2]} /\ Needed(ins) = {ins.ops[1], ins.ops[2]}
         /\ ins.op = "gep" =>
              /\ Range(ins.ops) = {ins.ops[1], ins.ops[2]}
              /\ Len(ins.ops) = 2 /\ Tail(ins.ops) = <<ins.ops[2]>>
              /\ Needed(ins) = IF IsConst(ins.ops[2]) THEN {ins.ops[1]}
                               ELSE {ins.ops[1], ins.ops[2]}
         /\ ins.op \in {"icmp", "call", "ret"} => Needed(ins) = {}
         /\ ins.op = "asm" /\ ins.form \notin {"ldr", "str"} => Needed(ins) = {}
         /\ ins.op = "br" /\ ins.ops = <<>> => Needed(ins) = {}
         /\ ins.op = "br" /\ ins.ops # <<>> =>
              Needed(ins) = Range(InstructionOf(ins.ops[1]).ops)
<1>1. /\ ins \in IRInstruction /\ InItsClass(ins) /\ IsSupported(ins)
  BY InstructionIsVerified, SupportedInstruction
<1>2. ins.ops \in Seq(Operands) /\ ins.attr \in Seq(Int)
  BY <1>1 DEF IRInstruction
<1>3. /\ Len(ins.ops) = 1 => Range(ins.ops) = {ins.ops[1]}
      /\ Len(ins.ops) = 2 => Range(ins.ops) = {ins.ops[1], ins.ops[2]}
  <2> HIDE DEF Operands
  <2> QED
    BY <1>2, RangeOfTwo
<1>4. ASSUME ins.op = "binary"
      PROVE  /\ Range(ins.ops) = {ins.ops[1], ins.ops[2]}
             /\ Needed(ins) = IF AddsShort(ins) \/ Shifts(ins) THEN {ins.ops[1]}
                              ELSE {ins.ops[1], ins.ops[2]}
  <2>1. Range(ins.ops) = {ins.ops[1], ins.ops[2]}
    BY <1>1, <1>3, <1>4 DEF InItsClass
  <2>2. ins.form \in {"add", "sub", "mul", "shl"}
    BY <1>1, <1>4 DEF IsSupported
  <2>3. OnlyGotten(ins) = IF AddsShort(ins) THEN {ins.ops[1]} ELSE {}
    BY <1>4, <2>2 DEF OnlyGotten, AddsShort
  <2>4. Materialized(ins) = IF AddsShort(ins) THEN {}
                            ELSE IF Shifts(ins) THEN {ins.ops[1]} ELSE Range(ins.ops)
    BY <1>4, <2>2 DEF Materialized, AddsShort, Shifts
  <2> QED
    BY <2>1, <2>3, <2>4 DEF Needed
<1>5. ASSUME ins.op \in {"load", "cast"} \/ (ins.op = "asm" /\ ins.form = "ldr")
      PROVE  Range(ins.ops) = {ins.ops[1]} /\ Needed(ins) = {ins.ops[1]}
  <2>1. Range(ins.ops) = {ins.ops[1]}
    BY <1>1, <1>3, <1>5 DEF InItsClass
  <2>2. ins.form \in {"", "ldr", "trunc", "zext", "sext", "bitcast"}
    BY <1>1, <1>5 DEF InItsClass, Casts
  <2>3. OnlyGotten(ins) = {ins.ops[1]} /\ Materialized(ins) = {}
    BY <1>5, <2>2 DEF OnlyGotten, Materialized
  <2> QED
    BY <2>1, <2>3 DEF Needed
<1>6. ASSUME ins.op = "store" \/ (ins.op = "asm" /\ ins.form = "str")
      PROVE  Range(ins.ops) = {ins.ops[1], ins.ops[2]} /\ Needed(ins) = {ins.ops[1], ins.ops[2]}
  <2>1. Range(ins.ops) = {ins.ops[1], ins.ops[2]}
    BY <1>1, <1>3, <1>6 DEF InItsClass
  <2>2. ins.form \in {"", "str"}
    BY <1>1, <1>6 DEF InItsClass
  <2>3. OnlyGotten(ins) = {ins.ops[2]} /\ Materialized(ins) = {ins.ops[1]}
    BY <1>6, <2>2 DEF OnlyGotten, Materialized
  <2> QED
    BY <2>1, <2>3 DEF Needed
<1>7. ASSUME ins.op = "gep"
      PROVE  /\ Range(ins.ops) = {ins.ops[1], ins.ops[2]}
             /\ Len(ins.ops) = 2 /\ Tail(ins.ops) = <<ins.ops[2]>>
             /\ Needed(ins) = IF IsConst(ins.ops[2]) THEN {ins.ops[1]}
                              ELSE {ins.ops[1], ins.ops[2]}
  <2>1. ins.form = "" /\ Len(ins.ops) = 2
    <3>1. ins.form = "" /\ Len(ins.ops) = Len(ins.attr) + 1
      BY <1>1, <1>7 DEF InItsClass
    <3>2. Len(ins.attr) = 1
      BY <1>1, <1>7 DEF IsSupported
    <3>3. \A n : n = 1 => n + 1 = 2
      OBVIOUS
    <3> QED
      BY <3>1, <3>2, <3>3, Zenon
  <2>2. ins.ops = <<ins.ops[1], ins.ops[2]>>
    <3> HIDE DEF Operands
    <3>1. \A s \in Seq(Operands) : Len(s) = 2 => s = <<s[1], s[2]>>
      OBVIOUS
    <3> QED
      BY <1>2, <2>1, <3>1
  <2>3. Tail(ins.ops) = <<ins.ops[2]>> /\ Last(ins.ops) = ins.ops[2]
    <3>1. \A v, w : Tail(<<v, w>>) = <<w>>
      OBVIOUS
    <3> QED
      BY <2>1, <2>2, <3>1 DEF Last
  <2>4. Range(Tail(ins.ops)) = {ins.ops[2]}
    BY <2>3 DEF Range
  <2>5. OnlyGotten(ins) = {ins.ops[1]}
    BY <1>7, <2>1 DEF OnlyGotten
  <2>6. Materialized(ins) = IF IsConst(ins.ops[2]) THEN {} ELSE {ins.ops[2]}
    BY <1>7, <2>1, <2>3, <2>4 DEF Materialized
  <2> QED
    BY <1>3, <2>1, <2>3, <2>5, <2>6 DEF Needed
<1>8. ins.op \in {"icmp", "call", "ret"} => Needed(ins) = {}
  BY <1>1 DEF InItsClass, Needed, OnlyGotten, Materialized, Predicates, RegisterCalls, DimensionCalls
<1>9. ins.op = "asm" /\ ins.form \notin {"ldr", "str"} => Needed(ins) = {}
  BY DEF Needed, OnlyGotten, Materialized
<1>10. ins.op = "br" => ins.form = ""
  BY <1>1 DEF InItsClass
<1>11. ins.op = "br" /\ ins.ops = <<>> => Needed(ins) = {}
  BY <1>10 DEF Needed, OnlyGotten, Materialized
<1>12. ASSUME ins.op = "br", ins.ops # <<>>
       PROVE  Needed(ins) = Range(InstructionOf(ins.ops[1]).ops)
  <2>1. IsPredicate(ins.ops[1])
    BY <1>1, <1>12 DEF IsSupported
  <2> QED
    BY <1>10, <1>12, <2>1 DEF Needed, OnlyGotten, Materialized
<1> QED
  BY <1>4, <1>5, <1>6, <1>7, <1>8, <1>9, <1>11, <1>12

\* The predicate of a conditional branch is a comparison before it.
LEMMA PredicateOf ==
  ASSUME kernel \in Kernels, Supported, NEW b \in Blocks, NEW i \in DOMAIN CodeOf(b),
         CodeOf(b)[i].op = "br", CodeOf(b)[i].ops # <<>>
  PROVE  LET v == CodeOf(b)[i].ops[1]
         IN  /\ v[2] \in Blocks /\ v[3] \in DOMAIN CodeOf(v[2]) /\ v = Result(v[2], v[3])
             /\ CodeOf(v[2])[v[3]].op = "icmp" /\ InstructionOf(v) = CodeOf(v[2])[v[3]]
             /\ Precedes(kernel.blocks, v[2], v[3], b, i)
<1> DEFINE ins == CodeOf(b)[i]
           v == ins.ops[1]
<1>1. IsPredicate(v) /\ ins \in IRInstruction /\ InItsClass(ins)
      /\ \A w \in Range(ins.ops) : Defined(kernel, b, i, w)
  BY InstructionIsVerified, SupportedInstruction DEF IsSupported
<1>2. ins.ops \in Seq(Operands) /\ Len(ins.ops) = 1
  <2>1. ins.ops \in Seq(Operands)
    BY <1>1 DEF IRInstruction
  <2>2. ins.ops # <<>> /\ Len(ins.ops) \in {0, 1}
    BY <1>1 DEF InItsClass
  <2> HIDE DEF ins, Operands
  <2> QED
    BY <2>1, <2>2, EmptySeq
<1>3. v \in Range(ins.ops) /\ v \in Operands
  <2> HIDE DEF ins, Operands
  <2> QED
    BY <1>2, RangeOfTwo
<1>4. IsResult(v) /\ InstructionOf(v).op = "icmp"
  BY <1>1 DEF IsPredicate
<1>5. v = Result(v[2], v[3])
  BY <1>3, <1>4, OperandsAre
<1>6. Defined(kernel, b, i, v)
  BY <1>1, <1>3
<1> QED
  BY <1>4, <1>5, <1>6 DEF Defined, InstructionOf, Blocks, CodeOf

\* Who reads a needed value: the instruction, or the comparison it branches on.
LEMMA NeededBy ==
  ASSUME kernel \in Kernels, Supported, NEW b \in Blocks, NEW i \in DOMAIN CodeOf(b),
         NEW v \in Needed(CodeOf(b)[i])
  PROVE  \E c \in Blocks : \E j \in DOMAIN CodeOf(c) :
           /\ v \in Range(CodeOf(c)[j].ops) /\ CodeOf(c)[j].op # "br"
           /\ \/ c = b /\ j = i
              \/ /\ CodeOf(b)[i].op = "br" /\ CodeOf(c)[j].op = "icmp"
                 /\ Precedes(kernel.blocks, c, j, b, i)
<1> DEFINE ins == CodeOf(b)[i]
<1>1. InItsClass(ins) /\ IsSupported(ins)
  BY InstructionIsVerified, SupportedInstruction
<1>2. CASE ins.op = "br"
  <2>1. ins.ops # <<>>
    BY <1>2, NeededValues
  <2>2. Needed(ins) = Range(InstructionOf(ins.ops[1]).ops)
    BY <1>2, <2>1, NeededValues
  <2> DEFINE p == ins.ops[1]
  <2>3. /\ p[2] \in Blocks /\ p[3] \in DOMAIN CodeOf(p[2])
        /\ CodeOf(p[2])[p[3]].op = "icmp" /\ InstructionOf(p) = CodeOf(p[2])[p[3]]
        /\ Precedes(kernel.blocks, p[2], p[3], b, i)
    BY <1>2, <2>1, PredicateOf
  <2> HIDE DEF p
  <2>4. v \in Range(CodeOf(p[2])[p[3]].ops)
    BY <2>2, <2>3 DEF p
  <2> QED
    BY <1>2, <2>3, <2>4
<1>3. CASE ins.op # "br"
  <2>1. v \in Range(ins.ops)
    <3>1. ins.op \in {"binary", "load", "cast", "store", "gep", "icmp", "call", "ret", "asm"}
      BY <1>1, <1>3 DEF InItsClass, IsSupported, IsDropped
    <3> QED
      BY <3>1, NeededValues
  <2> QED
    BY <1>3, <2>1
<1> QED
  BY <1>2, <1>3

LEMMA NeededAre ==
  ASSUME kernel \in Kernels, Supported, NEW b \in Blocks, NEW i \in DOMAIN CodeOf(b),
         NEW v \in Needed(CodeOf(b)[i])
  PROVE  /\ v \in Operands /\ v[1] \in {"const", "arg", "ins"}
         /\ IsConst(v) => v[2] \in Int /\ Fits(v[2])
         /\ IsFilling(v) => v \in Materialized(CodeOf(b)[i])
         /\ v # Result(b, i)
         /\ v[1] = "arg" => v[2] \in 0..(kernel.params - 1)
         /\ IsResult(v) =>
              /\ v[2] \in Blocks /\ v[3] \in DOMAIN CodeOf(v[2])
              /\ Kernel!Computes(CodeOf(v[2])[v[3]]) /\ CodeOf(v[2])[v[3]].op # "icmp"
<1>1. PICK c \in Blocks : \E j \in DOMAIN CodeOf(c) :
         /\ v \in Range(CodeOf(c)[j].ops) /\ CodeOf(c)[j].op # "br"
         /\ \/ c = b /\ j = i
            \/ /\ CodeOf(b)[i].op = "br" /\ CodeOf(c)[j].op = "icmp"
               /\ Precedes(kernel.blocks, c, j, b, i)
  BY NeededBy
<1>2. PICK j \in DOMAIN CodeOf(c) :
         /\ v \in Range(CodeOf(c)[j].ops) /\ CodeOf(c)[j].op # "br"
         /\ \/ c = b /\ j = i
            \/ /\ CodeOf(b)[i].op = "br" /\ CodeOf(c)[j].op = "icmp"
               /\ Precedes(kernel.blocks, c, j, b, i)
  BY <1>1
<1> DEFINE user == CodeOf(c)[j]
<1>3. user \in IRInstruction /\ IsSupported(user) /\ Defined(kernel, c, j, v)
  BY <1>2, InstructionIsVerified, SupportedInstruction
<1>4. v \in Operands
  <2>1. user.ops \in Seq(Operands)
    BY <1>3 DEF IRInstruction
  <2> HIDE DEF Operands, user
  <2> QED
    BY <1>2, <2>1, RangeOfTwo DEF user
<1>5. v[1] \in {"const", "arg", "ins"}
  BY <1>2, <1>3, <1>4, OperandsAre DEF IsSupported
<1>6. IsConst(v) => v[2] \in Int /\ Fits(v[2])
  <2> SUFFICES ASSUME IsConst(v) PROVE v[2] \in Int /\ Fits(v[2])
    OBVIOUS
  <2>1. v[2] \in Numbers(user)
    BY <1>2 DEF Numbers
  <2> QED
    BY <1>3, <1>4, <2>1, OperandsAre DEF IsSupported
<1>7. IsFilling(v) => v \in Materialized(CodeOf(b)[i])
  <2>1. IsSupported(CodeOf(b)[i])
    BY SupportedInstruction
  <2> QED
    BY <2>1 DEF IsSupported, NonZero, IsFilling, Needed
<1>8. IsResult(v) => /\ v[2] \in Blocks /\ v[3] \in DOMAIN CodeOf(v[2])
                     /\ Yields(CodeOf(v[2])[v[3]])
                     /\ Precedes(kernel.blocks, v[2], v[3], c, j)
  <2>1. user.op # "phi"
    BY <1>3 DEF IsSupported, IsDropped
  <2> QED
    BY <1>3, <2>1 DEF Defined, Blocks, CodeOf
<1>9. ASSUME IsResult(v)
      PROVE  /\ Kernel!Computes(CodeOf(v[2])[v[3]]) /\ CodeOf(v[2])[v[3]].op # "icmp"
  <2>1. /\ IsSupported(CodeOf(v[2])[v[3]])
        /\ CodeOf(v[2])[v[3]].op = "icmp" => BranchOnly(Result(v[2], v[3]))
    BY <1>8, <1>9, SupportedInstruction
  <2>2. Kernel!Computes(CodeOf(v[2])[v[3]])
    BY <1>8, <1>9, <2>1 DEF Yields, IsSupported, IsDropped
  <2>3. v = Result(v[2], v[3])
    BY <1>4, <1>9, OperandsAre
  <2>4. BranchOnly(v) => user.op = "br"
    BY <1>2 DEF BranchOnly
  <2> QED
    BY <1>2, <2>1, <2>2, <2>3, <2>4
<1>10. v # Result(b, i)
  <2> SUFFICES ASSUME v = Result(b, i) PROVE FALSE
    OBVIOUS
  <2>1. IsResult(v) /\ v[2] = b /\ v[3] = i
    BY DEF Result, IsResult
  <2>2. CASE c = b /\ j = i
    <3>1. i \in Nat
      BY KernelShape
    <3> QED
      BY <1>8, <2>1, <2>2, <3>1 DEF Precedes
  <2>3. CASE CodeOf(b)[i].op = "br"
    BY <1>9, <2>1, <2>3 DEF Kernel!Computes
  <2> QED
    BY <1>2, <2>2, <2>3
<1>11. v[1] = "arg" => v[2] \in 0..(kernel.params - 1)
  <2>1. kernel.params \in Nat
    BY KernelShape
  <2> QED
    BY <1>3, <1>4, <2>1, OperandsAre DEF Defined
<1> QED
  BY <1>4, <1>5, <1>6, <1>7, <1>8, <1>9, <1>10, <1>11

-----------------------------------------------------------------------------
(* What the code of each class is.                                         *)

IsNumberOf(map, v, r) == IF v = Zero THEN r = VREG_ZERO ELSE v \in DOMAIN map /\ r = map[v]

MeansBinary(map, g, ins, self) ==
  LET n == ins.ops[2][2]
  IN  \E d, x :
        /\ IsNumberOf(map, self, d) /\ IsNumberOf(map, ins.ops[1], x)
        /\ \/ AddsShort(ins) /\ g[Len(g)] = Instruction("ADDI", d, x, 0, n)
           \/ Shifts(ins) /\ n = 0 /\ g[Len(g)] = Instruction("ADDI", d, x, 0, 0)
           \/ Shifts(ins) /\ n = 1 /\ g[Len(g)] = Instruction("ADD", d, x, x, 0)
           \/ /\ Shifts(ins) /\ n > 1
              /\ \E e \in 1..(Len(g) - 1) : \E t :
                   g[e] = Fill(t, 2^n) /\ g[Len(g)] = Instruction("MUL", d, x, t, 0)
           \/ /\ ~AddsShort(ins) /\ ~Shifts(ins)
              /\ \E y : /\ IsNumberOf(map, ins.ops[2], y)
                        /\ g[Len(g)] = Instruction(RegisterForm(ins.form), d, x, y, 0)

MeansAddress(map, g, ins, self) ==
  \E d, x :
    /\ IsNumberOf(map, self, d) /\ IsNumberOf(map, ins.ops[1], x)
    /\ \/ /\ IsConst(ins.ops[2])
          /\ g[Len(g)] = Instruction("ADDI", d, x, 0, ins.ops[2][2] * ins.attr[1])
       \/ \E y : /\ ~IsConst(ins.ops[2]) /\ IsNumberOf(map, ins.ops[2], y)
                 /\ \/ ins.attr[1] = 1 /\ g[Len(g)] = Instruction("ADD", d, x, y, 0)
                    \/ \E e \in 1..(Len(g) - 2) : \E s, t :
                         /\ g[e] = Fill(s, ins.attr[1])
                         /\ g[Len(g) - 1] = Instruction("MUL", t, y, s, 0)
                         /\ g[Len(g)] = Instruction("ADD", d, x, t, 0)

MeansGlobalId(map, g, ins, self) ==
  LET dim == ins.ops[1][2]
  IN  \E d, tid, bid :
        /\ IsNumberOf(map, self, d)
        /\ g[1] = Instruction("S2R", tid, 0, 0, LocalIdRegister(dim))
        /\ g[2] = Instruction("S2R", bid, 0, 0, GroupIdRegister(dim))
        /\ \/ /\ dim = 0 /\ Len(g) = 4
              /\ \E s : /\ g[3] = Instruction("ADD", s, bid, bid, 0)
                        /\ g[4] = Instruction("ADD", d, s, tid, 0)
           \/ dim # 0 /\ Len(g) = 3 /\ g[3] = Instruction("ADD", d, bid, tid, 0)

\* The register a register read reads.
RegisterOf(ins) ==
  CASE ins.form = "s2r"          -> ins.attr[1]
    [] ins.form = "get_local_id" -> LocalIdRegister(ins.ops[1][2])
    [] ins.form = "get_group_id" -> GroupIdRegister(ins.ops[1][2])
    [] OTHER                     -> RegisterCalls[ins.form]

IsLoad(ins)  == ins.op = "load" \/ (ins.op = "asm" /\ ins.form = "ldr")
ReadsRegister(ins) == ins.op \in {"asm", "call"} /\ ins.form \in RegisterReads \cup {"s2r"}
IsGlobalId(ins) == ins.op = "call" /\ ins.form = "get_global_id"

MeansBranch(map, g, ins) ==
  IF ins.ops = <<>> THEN Len(g) = 1 /\ g[1] = Jump(ALWAYS, ins.succ[1])
  ELSE LET c == InstructionOf(ins.ops[1])
       IN  \E x, y :
             /\ IsNumberOf(map, c.ops[1], x) /\ IsNumberOf(map, c.ops[2], y)
             /\ Len(g) > 2 /\ \A e \in 1..(Len(g) - 3) : Writes(g[e])
             /\ g[Len(g) - 2] = Instruction("CMP", 0, x, y, 0)
             /\ g[Len(g) - 1] = Jump(BranchCond(c.form), ins.succ[1])
             /\ g[Len(g)] = Jump(ALWAYS, ins.succ[2])

\* Nothing but the last instruction stores or returns.
Frame(g, ins) ==
  /\ ins.op = "icmp" <=> Len(g) = 0
  /\ ins.op # "br" =>
       \A e \in 1..Len(g) : /\ g[e].op \notin {"BR", "CMP"}
                            /\ g[e].op = "STR" <=> e = Len(g) /\ Kernel!Stores(ins)
                            /\ g[e].op = "EXIT" <=> e = Len(g) /\ Kernel!Ends(ins)

Means(map, g, ins, self) ==
  /\ Frame(g, ins)
  /\ ins.op = "br" => MeansBranch(map, g, ins)
  /\ ins.op = "binary" => MeansBinary(map, g, ins, self)
  /\ ins.op = "gep" => MeansAddress(map, g, ins, self)
  /\ IsGlobalId(ins) => MeansGlobalId(map, g, ins, self)
  /\ IsLoad(ins) =>
       \E d, x : /\ IsNumberOf(map, self, d) /\ IsNumberOf(map, ins.ops[1], x)
                 /\ g[Len(g)] = Instruction("LDR", d, x, 0, 0)
  /\ ins.op = "cast" =>
       \E d, x : /\ IsNumberOf(map, self, d) /\ IsNumberOf(map, ins.ops[1], x)
                 /\ g[Len(g)] = Instruction("ADDI", d, x, 0, 0)
  /\ Kernel!Stores(ins) =>
       \E x, y : /\ IsNumberOf(map, ins.ops[1], x) /\ IsNumberOf(map, ins.ops[2], y)
                 /\ g[Len(g)] = Instruction("STR", 0, y, x, 0)
  /\ ReadsRegister(ins) =>
       \E d : IsNumberOf(map, self, d) /\ g[Len(g)] = Instruction("S2R", d, 0, 0, RegisterOf(ins))

IsCode(map, next, g, b, i) ==
  /\ GroupOk(map, next, g, Needed(CodeOf(b)[i]), Result(b, i))
  /\ Means(map, g, CodeOf(b)[i], Result(b, i))

-----------------------------------------------------------------------------
(* The handlers.                                                           *)

LEMMA Answers ==
  ASSUME Numbered, Valued, NEW asks, IsAsks(asks), Record(asks), nextVReg' <= FieldSize
  PROVE  \A k \in DOMAIN asks :
           /\ Registers(asks)[k] = Register(asks, k)
           /\ Register(asks, k) \in Nat /\ Register(asks, k) < FieldSize
           /\ asks[k].value # Temporary => IsNumberOf(valueToVReg', asks[k].value, Register(asks, k))
<1>1. Numbered' /\ \A k \in DOMAIN asks :
        /\ Register(asks, k) \in 0..(nextVReg' - 1)
        /\ asks[k].value = Zero => Register(asks, k) = VREG_ZERO
        /\ asks[k].value \notin {Zero, Temporary} =>
             /\ asks[k].value \in DOMAIN valueToVReg'
             /\ Register(asks, k) = valueToVReg'[asks[k].value]
  BY AsksAnswered
<1>2. nextVReg' \in Nat
  BY <1>1 DEF Numbered
<1>3. \A k \in DOMAIN asks : Register(asks, k) \in Nat /\ Register(asks, k) < FieldSize
  BY <1>1, <1>2, FieldSizeAssumption
<1>4. \A k \in DOMAIN asks :
        asks[k].value # Temporary => IsNumberOf(valueToVReg', asks[k].value, Register(asks, k))
  BY <1>1 DEF IsNumberOf
<1>5. \A k \in DOMAIN asks : Registers(asks)[k] = Register(asks, k)
  BY DEF Registers
<1> QED
  BY <1>3, <1>4, <1>5

\* The fills first, then what the handler pushes itself.
Laid(g, m, asks, own) ==
  /\ m \in Nat /\ Len(own) \in Nat /\ Len(g) = m + Len(own)
  /\ \A e \in 1..m : g[e].op = "ADDI" /\ Writes(g[e])
  /\ \A e \in 1..Len(own) : g[m + e] = own[e]
  /\ \A k \in DOMAIN asks : Brings(asks, k) =>
       \E e \in 1..m : g[e] = Fill(Register(asks, k), asks[k].fill[1])
  /\ (\A k \in DOMAIN asks : ~Brings(asks, k)) => m = 0

LEMMA PushedIsLaid ==
  ASSUME Numbered, Valued, NEW asks, IsAsks(asks), Record(asks), nextVReg' <= FieldSize,
         NEW own, \E S : own \in Seq(S)
  PROVE  \E m \in Nat : Laid(Pushed(asks, own), m, asks, own)
<1>0. PICK n \in 0..5 : \E fills, from : /\ DOMAIN asks = 1..n
                                         /\ Filling(asks, n, fills, from)
                                         /\ Pushed(asks, own) = fills \o own
  BY PushedIs
<1>1. PICK fills, from : /\ DOMAIN asks = 1..n
                         /\ Filling(asks, n, fills, from)
                         /\ Pushed(asks, own) = fills \o own
  BY <1>0
<1>2. PICK S : fills \in Seq(S)
  BY <1>1 DEF Filling
<1>3. PICK T : own \in Seq(T)
  OBVIOUS
<1> DEFINE g == fills \o own
           m == Len(fills)
<1>4. /\ m \in Nat /\ Len(own) \in Nat
      /\ Len(g) = m + Len(own)
      /\ \A e \in 1..(m + Len(own)) : g[e] = IF e <= m THEN fills[e] ELSE own[e - m]
  <2>1. fills \in Seq(S \cup T) /\ own \in Seq(S \cup T)
    BY <1>2, <1>3
  <2> QED
    BY <2>1, ConcatProperties, LenProperties
<1>5. \A e \in 1..m : from[e] \in 1..n /\ fills[e] = FillOf(asks, from[e])
  BY <1>1 DEF Filling
<1>6. \A k \in 1..n : Brings(asks, k) => \E e \in 1..m : from[e] = k
  BY <1>1 DEF Filling
<1> HIDE DEF g, m
<1>7. \A e \in 1..m : g[e] = fills[e]
  BY <1>4
<1>8. \A e \in 1..Len(own) : g[m + e] = own[e]
  <2> SUFFICES ASSUME NEW e \in 1..Len(own) PROVE g[m + e] = own[e]
    OBVIOUS
  <2>1. m + e \in 1..(m + Len(own)) /\ ~(m + e <= m) /\ (m + e) - m = e
    BY <1>4
  <2> QED
    BY <1>4, <2>1
<1>9. \A k \in 1..n : FillOf(asks, k) = Fill(Register(asks, k), asks[k].fill[1])
  <2> SUFFICES ASSUME NEW k \in 1..n
               PROVE  FillOf(asks, k) = Fill(Register(asks, k), asks[k].fill[1])
    OBVIOUS
  <2>1. /\ Register(asks, k) \in Nat /\ Register(asks, k) < FieldSize
        /\ VREG_ZERO \in Nat /\ VREG_ZERO < FieldSize
    BY <1>1, Answers, FieldSizeAssumption DEF VREG_ZERO
  <2> QED
    BY <2>1, PlainIs DEF FillOf, Fill, VREG_ZERO
<1>10. \A e \in 1..m : g[e].op = "ADDI" /\ Writes(g[e])
  BY <1>5, <1>7, <1>9, FillFields
<1>11. \A k \in 1..n : Brings(asks, k) =>
         \E e \in 1..m : g[e] = Fill(Register(asks, k), asks[k].fill[1])
  <2> SUFFICES ASSUME NEW k \in 1..n, Brings(asks, k)
               PROVE  \E e \in 1..m : g[e] = Fill(Register(asks, k), asks[k].fill[1])
    OBVIOUS
  <2>1. PICK e \in 1..m : from[e] = k
    BY <1>6
  <2> QED
    BY <1>5, <1>7, <1>9, <2>1
<1>12. (\A k \in DOMAIN asks : ~Brings(asks, k)) => m = 0
  <2> SUFFICES ASSUME m # 0 PROVE \E k \in DOMAIN asks : Brings(asks, k)
    OBVIOUS
  <2>1. 1 \in 1..m
    BY <1>4
  <2> QED
    BY <1>1, <2>1 DEF Filling, m
<1>13. Laid(g, m, asks, own)
  BY <1>1, <1>4, <1>8, <1>10, <1>11, <1>12 DEF Laid
<1> QED
  BY <1>1, <1>4, <1>13 DEF g

\* A handler that pushes one instruction.
LEMMA OwnOfOne ==
  ASSUME Numbered, Valued, NEW asks, IsAsks(asks), Record(asks), nextVReg' <= FieldSize,
         NEW needs, NEW self, AsksFor(asks, needs, self),
         NEW mi,
         Writes(mi) => \E k \in DOMAIN asks : asks[k].value = self /\ mi.rd = Register(asks, k),
         RegistersRead(mi) \subseteq {VREG_ZERO} \cup {Register(asks, k) : k \in Readable(asks, needs)},
         mi.op = "ADDI" => mi.imm \in Int, mi.op = "S2R" => mi.imm \in TID_X..BID_Y
  PROVE  OwnOk(asks, <<mi>>, needs, self)
<1> DEFINE own == <<mi>>
<1>1. own \in Seq({mi}) /\ Len(own) = 1 /\ own[1] = mi
  OBVIOUS
<1>2. WrittenBefore(own, 1) = {}
  BY DEF WrittenBefore
<1>3. ASSUME Writes(mi) PROVE mi.rd \notin RegistersRead(mi)
  <2>1. PICK k \in DOMAIN asks : asks[k].value = self /\ mi.rd = Register(asks, k)
    BY <1>3
  <2>2. /\ Numbered'
        /\ \A j \in DOMAIN asks :
             /\ asks[j].value = Zero => Register(asks, j) = VREG_ZERO
             /\ asks[j].value \notin {Zero, Temporary} =>
                  /\ asks[j].value \in DOMAIN valueToVReg'
                  /\ Register(asks, j) = valueToVReg'[asks[j].value]
             /\ asks[j].value = Temporary =>
                  \A v \in DOMAIN valueToVReg' : valueToVReg'[v] # Register(asks, j)
    BY AsksAnswered
  <2>3. /\ self \in DOMAIN valueToVReg' /\ mi.rd = valueToVReg'[self] /\ mi.rd # VREG_ZERO
    BY <2>1, <2>2 DEF AsksFor, Numbered, VREG_ZERO
  <2>4. ASSUME NEW j \in Readable(asks, needs) PROVE mi.rd # Register(asks, j)
    <3>1. j \in DOMAIN asks /\ (asks[j].value \in needs \/ asks[j].value = Temporary)
      BY DEF Readable
    <3>2. CASE asks[j].value = Temporary
      BY <2>2, <2>3, <3>1, <3>2
    <3>3. CASE asks[j].value \in needs
      <4>1. asks[j].value # self /\ asks[j].value # Temporary
        BY <3>3 DEF AsksFor
      <4> QED
        BY <2>2, <2>3, <3>1, <4>1 DEF Numbered
    <3> QED
      BY <3>1, <3>2, <3>3
  <2> QED
    BY <2>3, <2>4
<1> HIDE DEF own
<1>4. IsOwn(asks, own, needs, self, 1)
  <2>1. Writes(mi) => \E k \in DOMAIN asks :
          mi.rd = Register(asks, k) /\ asks[k].value = self /\ 1 = Len(own)
    BY <1>1
  <2>2. \A d \in 1..1 : own[d] = mi
    BY <1>1
  <2>3. (1 + 1)..Len(own) = {} /\ ~(1 < Len(own))
    BY <1>1
  <2> QED
    BY <1>1, <1>2, <1>3, <2>1, <2>2, <2>3 DEF IsOwn
<1>5. \A e \in 1..Len(own) : e = 1
  BY <1>1
<1>6. \E S : own \in Seq(S)
  BY <1>1, Zenon
<1> QED
  BY <1>4, <1>5, <1>6 DEF OwnOk, own

\* The selector is at an instruction of a supported kernel, and the registers
\* suffice for it.
Proceeding == Shape /\ Loaded /\ ~Finished /\ Supported /\ nextVReg' <= FieldSize

LEMMA HereIs ==
  ASSUME Proceeding
  PROVE  /\ kernel \in Kernels
         /\ position[1] \in Blocks /\ position[2] \in DOMAIN CodeOf(position[1])
         /\ Here = CodeOf(position[1])[position[2]] /\ Self = Result(position[1], position[2])
         /\ Here \in IRInstruction /\ InItsClass(Here) /\ IsSupported(Here)
         /\ Numbered /\ Valued
<1>1. InCode /\ kernel \in Kernels
  BY DEF Proceeding, Shape, InCode
<1>2. /\ position[1] \in Blocks /\ position[2] \in DOMAIN CodeOf(position[1])
      /\ Here \in IRInstruction /\ InItsClass(Here)
  BY <1>1, HereIsVerified DEF Proceeding
<1>3. IsSupported(Here)
  BY <1>1, <1>2, SupportedInstruction DEF Proceeding, Here
<1> QED
  BY <1>1, <1>2, <1>3 DEF Proceeding, Shape, Here, Self

LEMMA NeedsHere ==
  ASSUME Proceeding
  PROVE  /\ Self \notin Needed(Here) /\ Temporary \notin Needed(Here)
         /\ Self \notin {Zero, Temporary} /\ ~IsConst(Self)
         /\ \A v \in Needed(Here) : IsConst(v) => v[2] \in Int
         /\ \A v \in OnlyGotten(Here) : v \in Needed(Here) /\ ~IsFilling(v)
<1>1. /\ kernel \in Kernels /\ Supported
      /\ position[1] \in Blocks /\ position[2] \in DOMAIN CodeOf(position[1])
      /\ Here = CodeOf(position[1])[position[2]] /\ Self = Result(position[1], position[2])
      /\ IsSupported(Here)
  BY HereIs DEF Proceeding
<1>2. \A v \in Needed(Here) : v \in Operands /\ v # Self /\ (IsConst(v) => v[2] \in Int)
  BY <1>1, NeededAre
<1>3. \A v \in Needed(Here) : v # Temporary
  BY <1>2, OperandsAre
<1>4. Self[1] = "ins"
  BY <1>1 DEF Result
<1>5. Self \notin {Zero, Temporary} /\ ~IsConst(Self)
  BY <1>4 DEF Zero, Const, Temporary, IsConst
<1>6. \A v \in OnlyGotten(Here) : v \in Needed(Here) /\ ~IsFilling(v)
  BY <1>1 DEF IsSupported, NonZero, IsFilling, Needed
<1> QED
  BY <1>2, <1>3, <1>5, <1>6

AskIsFor(asks, k, needs, self) ==
  \/ asks[k].value = self /\ asks[k].fill = <<>>
  \/ asks[k].value = Temporary /\ (asks[k].fill = <<>> \/ \E n \in Int : asks[k].fill = <<n>>)
  \/ /\ asks[k].value \in needs
     /\ IF IsFilling(asks[k].value) THEN asks[k].fill = <<asks[k].value[2]>>
        ELSE ~Brings(asks, k)

LEMMA AskIs ==
  ASSUME NEW asks, NEW k, NEW needs, NEW self
  PROVE  /\ asks[k] = Get(self) => AskIsFor(asks, k, needs, self)
         /\ asks[k] = Fresh => AskIsFor(asks, k, needs, self)
         /\ \A n \in Int : asks[k] = Number(n) => AskIsFor(asks, k, needs, self)
         /\ \A v \in needs : ~IsFilling(v) /\ asks[k] = Get(v) => AskIsFor(asks, k, needs, self)
         /\ \A v \in needs : asks[k] = Materialize(v) => AskIsFor(asks, k, needs, self)
<1>1. asks[k] = Get(self) => AskIsFor(asks, k, needs, self)
  BY DEF Get, AskIsFor
<1>2. asks[k] = Fresh => AskIsFor(asks, k, needs, self)
  BY DEF Fresh, AskIsFor
<1>3. \A n \in Int : asks[k] = Number(n) => AskIsFor(asks, k, needs, self)
  <2> SUFFICES ASSUME NEW n \in Int, asks[k] = Number(n) PROVE AskIsFor(asks, k, needs, self)
    OBVIOUS
  <2>1. asks[k].value = Temporary /\ asks[k].fill = <<n>>
    BY DEF Number
  <2> QED
    BY <2>1 DEF AskIsFor
<1>4. \A v \in needs : ~IsFilling(v) /\ asks[k] = Get(v) => AskIsFor(asks, k, needs, self)
  BY DEF Get, AskIsFor, Brings
<1>5. \A v \in needs : asks[k] = Materialize(v) => AskIsFor(asks, k, needs, self)
  <2> SUFFICES ASSUME NEW v \in needs, asks[k] = Materialize(v) PROVE AskIsFor(asks, k, needs, self)
    OBVIOUS
  <2>1. asks[k].value = v /\ asks[k].fill = IF IsConst(v) THEN <<v[2]>> ELSE <<>>
    BY DEF Materialize
  <2>2. CASE IsFilling(v)
    BY <2>1, <2>2 DEF AskIsFor, IsFilling
  <2>3. CASE ~IsFilling(v)
    <3>1. ~Brings(asks, k)
      BY <2>1, <2>3, TemporaryIsNotZero DEF Brings, IsNew, IsFilling
    <3> QED
      BY <2>1, <2>3, <3>1 DEF AskIsFor
  <2> QED
    BY <2>2, <2>3
<1> QED
  BY <1>1, <1>2, <1>3, <1>4, <1>5

LEMMA AsksForHere ==
  ASSUME Proceeding, NEW asks,
         \A v \in Needed(Here) : \E k \in DOMAIN asks : asks[k].value = v,
         \A k \in DOMAIN asks : AskIsFor(asks, k, Needed(Here), Self)
  PROVE  AsksFor(asks, Needed(Here), Self)
  BY NeedsHere DEF AsksFor, AskIsFor

\* The last instruction, after the fills.
EndsIn(g, mi, asks) ==
  /\ Len(g) \in Nat \ {0} /\ g[Len(g)] = mi
  /\ \A e \in 1..(Len(g) - 1) : g[e].op = "ADDI"
  /\ \A k \in DOMAIN asks : Brings(asks, k) =>
       \E e \in 1..(Len(g) - 1) : g[e] = Fill(Register(asks, k), asks[k].fill[1])

\* A handler that pushes one instruction on registers it has asked for.
LEMMA OnePlain ==
  ASSUME Proceeding, NEW asks, IsAsks(asks), Record(asks), AsksFor(asks, Needed(Here), Self),
         NEW op, NEW rd, NEW rs1, NEW rs2, NEW imm,
         rd = VREG_ZERO \/ \E k \in DOMAIN asks : rd = Register(asks, k),
         {rs1, rs2} \subseteq {VREG_ZERO} \cup {Register(asks, k) : k \in Readable(asks, Needed(Here))},
         op \in WritingOps => \E k \in DOMAIN asks : asks[k].value = Self /\ rd = Register(asks, k),
         op = "ADDI" => imm \in Int, op = "S2R" => imm \in TID_X..BID_Y,
         NEW g, g = Pushed(asks, <<Plain(op, rd, rs1, rs2, imm)>>)
  PROVE  /\ GroupOk(valueToVReg', nextVReg', g, Needed(Here), Self)
         /\ EndsIn(g, Instruction(op, rd, rs1, rs2, imm), asks)
<1> DEFINE mi == Instruction(op, rd, rs1, rs2, imm)
           own == <<mi>>
<1>1. Numbered /\ Valued /\ nextVReg' <= FieldSize
  BY HereIs DEF Proceeding
<1>2. \A k \in DOMAIN asks : Register(asks, k) \in Nat /\ Register(asks, k) < FieldSize
  BY <1>1, Answers
<1>3. VREG_ZERO \in Nat /\ VREG_ZERO < FieldSize
  BY FieldSizeAssumption DEF VREG_ZERO
<1>4. \A r \in {rd, rs1, rs2} : r \in Nat /\ r < FieldSize
  BY <1>2, <1>3 DEF Readable
<1>5. Plain(op, rd, rs1, rs2, imm) = mi
  BY <1>4, PlainIs
<1>6. mi.op = op /\ mi.rd = rd /\ mi.rs1 = rs1 /\ mi.rs2 = rs2 /\ mi.imm = imm
  BY InstructionFields
<1>7. RegistersRead(mi) \subseteq {rs1, rs2}
  BY <1>6 DEF RegistersRead
<1>8. Writes(mi) <=> op \in WritingOps
  BY <1>6 DEF Writes
<1> HIDE DEF mi
<1>9. OwnOk(asks, own, Needed(Here), Self)
  BY <1>1, <1>6, <1>7, <1>8, OwnOfOne
<1>10. g = Pushed(asks, own)
  BY <1>5
<1>11. own \in Seq({mi}) /\ Len(own) = 1 /\ own[1] = mi
  OBVIOUS
<1>12. \E S : own \in Seq(S)
  BY <1>11, Zenon
<1> HIDE DEF own
<1>13. GroupOk(valueToVReg', nextVReg', g, Needed(Here), Self)
  BY <1>1, <1>9, <1>10, PushedOk
<1>14. PICK m \in Nat : Laid(g, m, asks, own)
  BY <1>1, <1>10, <1>12, PushedIsLaid
<1>15. EndsIn(g, mi, asks)
  <2>1. Len(g) = m + 1 /\ g[m + 1] = mi
    BY <1>11, <1>14 DEF Laid
  <2>2. Len(g) \in Nat \ {0} /\ Len(g) - 1 = m
    BY <2>1
  <2> QED
    BY <1>14, <2>1, <2>2 DEF Laid, EndsIn
<1> QED
  BY <1>13, <1>15 DEF mi

LEMMA FrameOfOne ==
  ASSUME NEW g, NEW mi, NEW asks, EndsIn(g, mi, asks), NEW ins,
         ins.op \notin {"icmp", "br"}, mi.op \notin {"BR", "CMP"},
         mi.op = "STR" <=> Kernel!Stores(ins), mi.op = "EXIT" <=> Kernel!Ends(ins)
  PROVE  Frame(g, ins)
<1>1. ASSUME NEW e \in 1..Len(g)
      PROVE  /\ g[e].op \notin {"BR", "CMP"}
             /\ g[e].op = "STR" <=> e = Len(g) /\ Kernel!Stores(ins)
             /\ g[e].op = "EXIT" <=> e = Len(g) /\ Kernel!Ends(ins)
  <2>1. CASE e = Len(g)
    BY <2>1 DEF EndsIn
  <2>2. CASE e # Len(g)
    <3>1. e \in 1..(Len(g) - 1)
      BY <2>2 DEF EndsIn
    <3>2. g[e].op = "ADDI"
      BY <3>1 DEF EndsIn
    <3> QED
      BY <2>2, <3>2
  <2> QED
    BY <2>1, <2>2
<1> QED
  BY <1>1 DEF Frame, EndsIn

\* The handler has been asked for what its instruction needs, and pushes what
\* it means.
Coded ==
  \E asks, own :
    /\ IsAsks(asks) /\ Handle(asks, own) /\ AsksFor(asks, Needed(Here), Self)
    /\ \E S : own \in Seq(S)
    /\ IsCode(valueToVReg', nextVReg', Pushed(asks, own), position[1], position[2])

LEMMA IsCoded ==
  ASSUME Proceeding, NEW asks, NEW own,
         IsAsks(asks), Handle(asks, own), AsksFor(asks, Needed(Here), Self), \E S : own \in Seq(S),
         GroupOk(valueToVReg', nextVReg', Pushed(asks, own), Needed(Here), Self),
         Means(valueToVReg', Pushed(asks, own), Here, Self)
  PROVE  Coded
<1>1. IsCode(valueToVReg', nextVReg', Pushed(asks, own), position[1], position[2])
  BY HereIs DEF IsCode
<1> QED
  BY <1>1, Zenon DEF Coded

LEMMA Apart ==
  ASSUME NEW ins
  PROVE  /\ ins.op \in {"binary", "gep", "cast", "load", "store", "br", "icmp", "ret"} =>
              ~IsGlobalId(ins) /\ ~ReadsRegister(ins)
         /\ ins.op # "store" /\ ins.form # "str" => ~Kernel!Stores(ins)
         /\ ins.op \notin {"asm", "call", "ret"} => ~Kernel!Ends(ins)
         /\ IsLoad(ins) =>
              /\ ins.op \in {"load", "asm"} /\ (ins.op = "asm" => ins.form = "ldr")
              /\ ~Kernel!Stores(ins) /\ ~Kernel!Ends(ins) /\ ~IsGlobalId(ins) /\ ~ReadsRegister(ins)
         /\ Kernel!Stores(ins) =>
              /\ ins.op \in {"store", "asm"} /\ (ins.op = "asm" => ins.form = "str")
              /\ ~IsLoad(ins) /\ ~Kernel!Ends(ins) /\ ~IsGlobalId(ins) /\ ~ReadsRegister(ins)
         /\ ReadsRegister(ins) =>
              /\ ins.op \in {"asm", "call"} /\ ins.form \notin {"ldr", "str"}
              /\ ~IsLoad(ins) /\ ~Kernel!Stores(ins) /\ ~Kernel!Ends(ins) /\ ~IsGlobalId(ins)
         /\ IsGlobalId(ins) =>
              /\ ins.op = "call"
              /\ ~IsLoad(ins) /\ ~Kernel!Stores(ins) /\ ~Kernel!Ends(ins) /\ ~ReadsRegister(ins)
  BY DEF IsLoad, ReadsRegister, RegisterReads, RegisterCalls, IsGlobalId, Kernel!Stores, Kernel!Ends

LEMMA ListsOf ==
  /\ \A a : DOMAIN <<a>> = {1} /\ <<a>>[1] = a
  /\ \A a, b : DOMAIN <<a, b>> = {1, 2} /\ <<a, b>>[1] = a /\ <<a, b>>[2] = b
  /\ \A a, b, c : /\ DOMAIN <<a, b, c>> = {1, 2, 3}
                  /\ <<a, b, c>>[1] = a /\ <<a, b, c>>[2] = b /\ <<a, b, c>>[3] = c
  /\ \A a, b, c, d : /\ DOMAIN <<a, b, c, d>> = {1, 2, 3, 4}
                     /\ <<a, b, c, d>>[1] = a /\ <<a, b, c, d>>[2] = b
                     /\ <<a, b, c, d>>[3] = c /\ <<a, b, c, d>>[4] = d
  /\ \A a, b, c, d, e : /\ DOMAIN <<a, b, c, d, e>> = {1, 2, 3, 4, 5}
                        /\ <<a, b, c, d, e>>[1] = a /\ <<a, b, c, d, e>>[2] = b
                        /\ <<a, b, c, d, e>>[3] = c /\ <<a, b, c, d, e>>[4] = d
                        /\ <<a, b, c, d, e>>[5] = e
  OBVIOUS

LEMMA IsSequence ==
  /\ \E S : <<>> \in Seq(S)
  /\ \A a : \E S : <<a>> \in Seq(S)
  /\ \A a, b : \E S : <<a, b>> \in Seq(S)
  /\ \A a, b, c : \E S : <<a, b, c>> \in Seq(S)
  /\ \A a, b, c, d : \E S : <<a, b, c, d>> \in Seq(S)
<1>1. <<>> \in Seq({})
  OBVIOUS
<1>2. \A a : <<a>> \in Seq({a})
  OBVIOUS
<1>3. \A a, b : <<a, b>> \in Seq({a, b})
  OBVIOUS
<1>4. \A a, b, c : <<a, b, c>> \in Seq({a, b, c})
  OBVIOUS
<1>5. \A a, b, c, d : <<a, b, c, d>> \in Seq({a, b, c, d})
  OBVIOUS
<1> QED
  BY <1>1, <1>2, <1>3, <1>4, <1>5, Zenon

\* An instruction on one operand, p.
MeansOf(p, op, both, n) ==
  \A g, d, x : /\ g[Len(g)] = Instruction(op, d, x, IF both THEN x ELSE 0, n)
               /\ Frame(g, Here)
               /\ IsNumberOf(valueToVReg', Self, d) /\ IsNumberOf(valueToVReg', p, x)
               => Means(valueToVReg', g, Here, Self)

IsMove(p, asks, j, k, op, both, n) ==
  /\ Needed(Here) = {p}
  /\ IsAsks(asks) /\ DOMAIN asks = {1, 2}
  /\ {j, k} = {1, 2} /\ asks[j] = Get(Self)
  /\ asks[k] = Materialize(p) \/ (asks[k] = Get(p) /\ p \in OnlyGotten(Here))
  /\ op \in {"LDR", "ADDI", "ADD"} /\ both \in BOOLEAN /\ n \in Int
  /\ Handle(asks, <<Plain(op, Register(asks, j), Register(asks, k),
                          IF both THEN Register(asks, k) ELSE 0, n)>>)
  /\ Here.op \notin {"icmp", "br"} /\ ~Kernel!Stores(Here) /\ ~Kernel!Ends(Here)
  /\ MeansOf(p, op, both, n)

LEMMA MoveCoded ==
  ASSUME Proceeding, NEW p, NEW asks, NEW j, NEW k, NEW op, NEW both, NEW n,
         IsMove(p, asks, j, k, op, both, n)
  PROVE  Coded
<1>0. /\ Needed(Here) = {p}
      /\ IsAsks(asks) /\ DOMAIN asks = {1, 2}
      /\ {j, k} = {1, 2} /\ asks[j] = Get(Self)
      /\ asks[k] = Materialize(p) \/ (asks[k] = Get(p) /\ p \in OnlyGotten(Here))
      /\ op \in {"LDR", "ADDI", "ADD"} /\ both \in BOOLEAN /\ n \in Int
      /\ Handle(asks, <<Plain(op, Register(asks, j), Register(asks, k),
                              IF both THEN Register(asks, k) ELSE 0, n)>>)
      /\ Here.op \notin {"icmp", "br"} /\ ~Kernel!Stores(Here) /\ ~Kernel!Ends(Here)
      /\ MeansOf(p, op, both, n)
  BY DEF IsMove
<1>1. /\ asks[j].value = Self /\ asks[k].value = p
      /\ Self # Temporary /\ p # Temporary
      /\ j \in DOMAIN asks /\ k \in DOMAIN asks
  BY <1>0, NeedsHere DEF Get, Materialize
<1>2. AsksFor(asks, Needed(Here), Self)
  <2>1. AskIsFor(asks, j, Needed(Here), Self)
    BY <1>0, AskIs
  <2>2. AskIsFor(asks, k, Needed(Here), Self)
    BY <1>0, AskIs, NeedsHere
  <2> QED
    BY <1>0, <1>1, <2>1, <2>2, AsksForHere
<1>3. Record(asks)
  BY <1>0 DEF Handle
<1>4. /\ IsNumberOf(valueToVReg', Self, Register(asks, j))
      /\ IsNumberOf(valueToVReg', p, Register(asks, k))
  BY <1>0, <1>1, <1>3, HereIs, Answers DEF Proceeding
<1> DEFINE r2 == IF both THEN Register(asks, k) ELSE 0
           own == <<Plain(op, Register(asks, j), Register(asks, k), r2, n)>>
           g == Pushed(asks, own)
           mi == Instruction(op, Register(asks, j), Register(asks, k), r2, n)
<1>5. GroupOk(valueToVReg', nextVReg', g, Needed(Here), Self) /\ EndsIn(g, mi, asks)
  <2>1. k \in Readable(asks, Needed(Here))
    BY <1>0, <1>1 DEF Readable
  <2>2. {Register(asks, k), r2} \subseteq
          {VREG_ZERO} \cup {Register(asks, i) : i \in Readable(asks, Needed(Here))}
    BY <2>1 DEF VREG_ZERO
  <2>3. op # "S2R"
    BY <1>0
  <2> HIDE DEF r2
  <2> QED
    BY <1>0, <1>1, <1>2, <1>3, <2>2, <2>3, OnePlain
<1>6. Means(valueToVReg', g, Here, Self)
  <2>1. mi.op = op /\ g[Len(g)] = mi
    BY <1>5, InstructionFields DEF EndsIn
  <2>2. op \notin {"BR", "CMP", "STR", "EXIT"}
    BY <1>0
  <2> HIDE DEF mi, g
  <2>3. Frame(g, Here)
    BY <1>0, <1>5, <2>1, <2>2, FrameOfOne
  <2> QED
    BY <1>0, <1>4, <2>1, <2>3 DEF MeansOf, mi
<1>7. \E S : own \in Seq(S)
  BY IsSequence
<1> QED
  BY <1>0, <1>2, <1>5, <1>6, <1>7, IsCoded

LEMMA LoadCoded == ASSUME Proceeding, SelectLoad PROVE Coded
<1> DEFINE p == Here.ops[1]
           asks == <<Get(Self), Get(p)>>
<1>1. /\ Handle(asks, <<Plain("LDR", Registers(asks)[1], Registers(asks)[2], 0, 0)>>)
      /\ Here.op \in {"load", "asm"} /\ (Here.op = "asm" => Here.form = "ldr")
  BY Zenon DEF SelectLoad, Selecting
<1>2. IsLoad(Here)
  BY <1>1 DEF IsLoad
<1>3. Needed(Here) = {p}
  BY <1>1, HereIs, NeededValues DEF Proceeding
<1>4. p \in OnlyGotten(Here)
  <2>1. Here.form \in {"", "ldr"}
    BY <1>1, HereIs DEF InItsClass
  <2> QED
    BY <1>1, <2>1 DEF OnlyGotten
<1>5. DOMAIN asks = {1, 2} /\ asks[1] = Get(Self) /\ asks[2] = Get(p) /\ IsAsks(asks)
  BY HandlersAsk, ListsOf, Zenon
<1> HIDE DEF p, asks
<1>6. Handle(asks, <<Plain("LDR", Register(asks, 1), Register(asks, 2), IF FALSE THEN Register(asks, 2) ELSE 0, 0)>>)
  BY <1>1, <1>5 DEF Registers
<1>7. MeansOf(p, "LDR", FALSE, 0)
  <2>1. ASSUME NEW g, NEW d, NEW x, g[Len(g)] = Instruction("LDR", d, x, 0, 0), Frame(g, Here),
               IsNumberOf(valueToVReg', Self, d), IsNumberOf(valueToVReg', p, x)
        PROVE  Means(valueToVReg', g, Here, Self)
    BY <1>2, <2>1, Apart DEF Means, p
  <2> QED
    BY <2>1 DEF MeansOf
<1>8. Here.op \notin {"icmp", "br"} /\ ~Kernel!Stores(Here) /\ ~Kernel!Ends(Here)
  BY <1>1, <1>2, Apart
<1>9. IsMove(p, asks, 1, 2, "LDR", FALSE, 0)
  <2>1. "LDR" \in {"LDR", "ADDI", "ADD"} /\ FALSE \in BOOLEAN /\ 0 \in Int /\ {1, 2} = {1, 2}
    OBVIOUS
  <2> QED
    BY <1>3, <1>4, <1>5, <1>6, <1>7, <1>8, <2>1, Zenon DEF IsMove
<1> QED
  BY <1>9, MoveCoded

LEMMA CastCoded == ASSUME Proceeding, SelectCast PROVE Coded
<1> DEFINE p == Here.ops[1]
           asks == <<Get(p), Get(Self)>>
<1>1. /\ Handle(asks, <<Plain("ADDI", Registers(asks)[2], Registers(asks)[1], 0, 0)>>)
      /\ Here.op = "cast"
  BY Zenon DEF SelectCast, Selecting
<1>2. Here.form \in {"trunc", "zext", "sext", "bitcast"}
  BY <1>1, HereIs DEF InItsClass, Casts
<1>3. Needed(Here) = {p}
  BY <1>1, HereIs, NeededValues DEF Proceeding
<1>4. p \in OnlyGotten(Here)
  BY <1>1, <1>2 DEF OnlyGotten
<1>5. DOMAIN asks = {1, 2} /\ asks[1] = Get(p) /\ asks[2] = Get(Self) /\ IsAsks(asks)
  BY HandlersAsk, ListsOf, Zenon
<1> HIDE DEF p, asks
<1>6. Handle(asks, <<Plain("ADDI", Register(asks, 2), Register(asks, 1), IF FALSE THEN Register(asks, 1) ELSE 0, 0)>>)
  BY <1>1, <1>5 DEF Registers
<1>7. MeansOf(p, "ADDI", FALSE, 0)
  <2>1. ASSUME NEW g, NEW d, NEW x, g[Len(g)] = Instruction("ADDI", d, x, 0, 0), Frame(g, Here),
               IsNumberOf(valueToVReg', Self, d), IsNumberOf(valueToVReg', p, x)
        PROVE  Means(valueToVReg', g, Here, Self)
    <3>1. ~IsLoad(Here) /\ ~IsGlobalId(Here) /\ ~ReadsRegister(Here) /\ ~Kernel!Stores(Here)
      BY <1>1, <1>2, Apart
    <3> QED
      BY <1>1, <2>1, <3>1 DEF Means, p
  <2> QED
    BY <2>1 DEF MeansOf
<1>8. Here.op \notin {"icmp", "br"} /\ ~Kernel!Stores(Here) /\ ~Kernel!Ends(Here)
  BY <1>1, <1>2, Apart
<1>9. IsMove(p, asks, 2, 1, "ADDI", FALSE, 0)
  <2>1. "ADDI" \in {"LDR", "ADDI", "ADD"} /\ FALSE \in BOOLEAN /\ 0 \in Int /\ {2, 1} = {1, 2}
    OBVIOUS
  <2> QED
    BY <1>3, <1>4, <1>5, <1>6, <1>7, <1>8, <2>1, Zenon DEF IsMove
<1> QED
  BY <1>9, MoveCoded

LEMMA StoreCoded == ASSUME Proceeding, SelectStore PROVE Coded
<1> DEFINE v == Here.ops[1]
           p == Here.ops[2]
           asks == <<Materialize(v), Get(p)>>
<1>1. /\ Handle(asks, <<Plain("STR", 0, Registers(asks)[2], Registers(asks)[1], 0)>>)
      /\ Here.op \in {"store", "asm"} /\ (Here.op = "asm" => Here.form = "str")
  BY Zenon DEF SelectStore, Selecting
<1>2. Kernel!Stores(Here)
  BY <1>1 DEF Kernel!Stores
<1>3. Needed(Here) = {v, p}
  BY <1>1, HereIs, NeededValues DEF Proceeding
<1>4. p \in OnlyGotten(Here)
  <2>1. Here.form \in {"", "str"}
    BY <1>1, HereIs DEF InItsClass
  <2> QED
    BY <1>1, <2>1 DEF OnlyGotten
<1>5. DOMAIN asks = {1, 2} /\ asks[1] = Materialize(v) /\ asks[2] = Get(p) /\ IsAsks(asks)
  BY HandlersAsk, ListsOf, Zenon
<1> HIDE DEF v, p, asks
<1>6. asks[1].value = v /\ asks[2].value = p /\ v # Temporary /\ p # Temporary
  BY <1>3, <1>5, NeedsHere DEF Get, Materialize
<1>7. AsksFor(asks, Needed(Here), Self)
  <2>1. \A k \in DOMAIN asks : AskIsFor(asks, k, Needed(Here), Self)
    BY <1>3, <1>4, <1>5, AskIs, NeedsHere
  <2> QED
    BY <1>3, <1>5, <1>6, <2>1, AsksForHere
<1>8. Record(asks)
  BY <1>1 DEF Handle
<1>9. /\ IsNumberOf(valueToVReg', v, Register(asks, 1))
      /\ IsNumberOf(valueToVReg', p, Register(asks, 2))
      /\ Registers(asks)[1] = Register(asks, 1) /\ Registers(asks)[2] = Register(asks, 2)
  BY <1>5, <1>6, <1>8, HereIs, Answers DEF Proceeding
<1> DEFINE own == <<Plain("STR", 0, Register(asks, 2), Register(asks, 1), 0)>>
           g == Pushed(asks, own)
           mi == Instruction("STR", 0, Register(asks, 2), Register(asks, 1), 0)
<1>10. GroupOk(valueToVReg', nextVReg', g, Needed(Here), Self) /\ EndsIn(g, mi, asks)
  <2>1. 1 \in Readable(asks, Needed(Here)) /\ 2 \in Readable(asks, Needed(Here))
    BY <1>3, <1>5, <1>6 DEF Readable
  <2>2. "STR" \notin WritingOps
    BY DEF WritingOps, ThreeRegister
  <2>3. {Register(asks, 2), Register(asks, 1)} \subseteq
          {VREG_ZERO} \cup {Register(asks, i) : i \in Readable(asks, Needed(Here))}
    BY <2>1
  <2> QED
    BY <1>5, <1>7, <1>8, <2>2, <2>3, OnePlain DEF VREG_ZERO
<1>11. Means(valueToVReg', g, Here, Self)
  <2>1. mi.op = "STR" /\ g[Len(g)] = mi
    BY <1>10, InstructionFields DEF EndsIn
  <2> HIDE DEF mi, g
  <2>2. /\ ~IsLoad(Here) /\ ~Kernel!Ends(Here) /\ ~IsGlobalId(Here) /\ ~ReadsRegister(Here)
        /\ Here.op \notin {"icmp", "br", "binary", "gep", "cast"}
    BY <1>1, <1>2, Apart
  <2>3. Frame(g, Here)
    BY <1>2, <1>10, <2>1, <2>2, FrameOfOne
  <2>4. \E x, y : /\ IsNumberOf(valueToVReg', Here.ops[1], x) /\ IsNumberOf(valueToVReg', Here.ops[2], y)
                  /\ g[Len(g)] = Instruction("STR", 0, y, x, 0)
    BY <1>9, <2>1 DEF mi, p, v
  <2> QED
    BY <2>2, <2>3, <2>4 DEF Means
<1>12. \E S : own \in Seq(S)
  BY IsSequence
<1> QED
  BY <1>1, <1>5, <1>7, <1>9, <1>10, <1>11, <1>12, IsCoded

\* The dimension a call is told.
LEMMA DimensionIs ==
  ASSUME Proceeding, Here.op = "call", Here.form \in DimensionCalls
  PROVE  Dimension = Here.ops[1][2] /\ Here.ops[1][2] \in Int
<1>1. Len(Here.ops) = 1 /\ Here.ops \in Seq(Operands)
  <2>1. Len(Here.ops) = 1
    BY HereIs DEF InItsClass, DimensionCalls, RegisterCalls
  <2>2. Here.ops \in Seq(Operands)
    BY HereIs DEF IRInstruction
  <2> QED
    BY <2>1, <2>2
<1>2. Here.ops[1] \in Range(Here.ops) /\ Here.ops[1] \in Operands /\ Here.ops # <<>>
  <2> HIDE DEF Operands
  <2> QED
    BY <1>1, RangeOfTwo, EmptySeq
<1>3. IsConst(Here.ops[1])
  BY <1>2, HereIs DEF IsSupported
<1> QED
  BY <1>2, <1>3, OperandsAre DEF Dimension

LEMMA RegisterReadCoded == ASSUME Proceeding, SelectRegisterRead PROVE Coded
<1> DEFINE asks == <<Get(Self)>>
           own == <<Plain("S2R", Register(asks, 1), 0, 0, SystemRegister)>>
           g == Pushed(asks, own)
           mi == Instruction("S2R", Register(asks, 1), 0, 0, SystemRegister)
<1>1. /\ Handle(asks, own)
      /\ Here.op \in {"asm", "call"} /\ Here.form \in RegisterReads \cup {"s2r"}
  BY Zenon DEF SelectRegisterRead, Selecting
<1>2. ReadsRegister(Here)
  BY <1>1 DEF ReadsRegister
<1>3. Needed(Here) = {}
  <2>1. Here.op = "asm" => Here.form \notin {"ldr", "str"}
    BY <1>2, Apart
  <2> QED
    BY <1>1, <2>1, HereIs, NeededValues DEF Proceeding
<1>4. DOMAIN asks = {1} /\ asks[1] = Get(Self) /\ IsAsks(asks)
  BY HandlersAsk, ListsOf, Zenon
<1>5. SystemRegister = RegisterOf(Here) /\ RegisterOf(Here) \in TID_X..BID_Y
  <2>1. CASE Here.form = "s2r"
    <3>1. Here.op = "asm"
      BY <1>1, <2>1, HereIs DEF InItsClass, RegisterCalls, DimensionCalls
    <3>2. Here.attr[1] \in TID_X..BID_Y
      BY <2>1, <3>1, HereIs DEF InItsClass
    <3> QED
      BY <2>1, <3>2 DEF SystemRegister, RegisterOf
  <2>2. CASE Here.form \in {"get_local_id", "get_group_id"}
    <3>1. Here.op = "call"
      BY <1>1, <2>2, HereIs DEF InItsClass
    <3>2. Dimension = Here.ops[1][2]
      BY <2>2, <3>1, DimensionIs DEF DimensionCalls
    <3> QED
      BY <2>2, <3>2 DEF SystemRegister, RegisterOf, LocalIdRegister, GroupIdRegister, TID_X, TID_Y, BID_X, BID_Y
  <2>3. CASE Here.form \in DOMAIN RegisterCalls
    <3>1. Here.form \notin {"s2r", "get_local_id", "get_group_id"}
      BY <2>3 DEF RegisterCalls
    <3>2. RegisterCalls[Here.form] \in TID_X..BID_Y
      BY <2>3 DEF RegisterCalls, TID_X, TID_Y, BID_X, BID_Y
    <3> QED
      BY <3>1, <3>2 DEF SystemRegister, RegisterOf
  <2> QED
    BY <1>1, <2>1, <2>2, <2>3 DEF RegisterReads
<1> HIDE DEF asks
<1>6. asks[1].value = Self /\ Self # Temporary
  BY <1>4, NeedsHere DEF Get
<1>7. AsksFor(asks, Needed(Here), Self)
  BY <1>3, <1>4, AskIs, AsksForHere
<1>8. Record(asks)
  BY <1>1 DEF Handle
<1>9. IsNumberOf(valueToVReg', Self, Register(asks, 1))
  BY <1>4, <1>6, <1>8, HereIs, Answers DEF Proceeding
<1>10. GroupOk(valueToVReg', nextVReg', g, Needed(Here), Self) /\ EndsIn(g, mi, asks)
  <2>1. SystemRegister \in TID_X..BID_Y
    BY <1>5
  <2> QED
    BY <1>4, <1>6, <1>7, <1>8, <2>1, OnePlain DEF VREG_ZERO
<1>11. Means(valueToVReg', g, Here, Self)
  <2>1. mi.op = "S2R" /\ g[Len(g)] = mi
    BY <1>10, InstructionFields DEF EndsIn
  <2> HIDE DEF mi, g
  <2>2. /\ ~IsLoad(Here) /\ ~Kernel!Ends(Here) /\ ~IsGlobalId(Here) /\ ~Kernel!Stores(Here)
        /\ Here.op \notin {"icmp", "br", "binary", "gep", "cast"}
    BY <1>1, <1>2, Apart
  <2>3. Frame(g, Here)
    BY <1>10, <2>1, <2>2, FrameOfOne
  <2>4. \E d : IsNumberOf(valueToVReg', Self, d) /\ g[Len(g)] = Instruction("S2R", d, 0, 0, RegisterOf(Here))
    BY <1>5, <1>9, <2>1 DEF mi
  <2> QED
    BY <2>2, <2>3, <2>4 DEF Means
<1>12. \E S : own \in Seq(S)
  BY IsSequence
<1> HIDE DEF own
<1> QED
  BY <1>1, <1>4, <1>7, <1>10, <1>11, <1>12, IsCoded

LEMMA SignalCoded ==
  ASSUME Proceeding, SelectBarrier \/ SelectSsy \/ SelectExit PROVE Coded
<1> DEFINE own(op) == <<Plain(op, 0, 0, 0, 0)>>
<1>1. PICK op \in {"SYNC", "SSY", "EXIT"} :
        /\ Handle(<<>>, own(op))
        /\ op = "EXIT" <=> Here.op = "ret" \/ Here.form \in Exits
        /\ (Here.op \in {"asm", "call"} /\ Here.form \in Barriers \cup Exits \cup {"ssy"}) \/ Here.op = "ret"
        /\ Here.op = "ret" => Here.form = ""
  <2>1. Here.op = "ret" => Here.form = ""
    BY HereIs DEF InItsClass
  <2>2. "ssy" \notin Exits /\ \A form \in Barriers : form \notin Exits
    BY DEF Exits, Barriers
  <2>3. CASE SelectBarrier
    <3>1. Handle(<<>>, own("SYNC")) /\ Here.op \in {"asm", "call"} /\ Here.form \in Barriers
      BY <2>3, Zenon DEF SelectBarrier, Selecting
    <3>2. Here.op # "ret" /\ Here.form \notin Exits
      BY <2>2, <3>1
    <3> QED
      BY <2>1, <3>1, <3>2
  <2>4. CASE SelectSsy
    <3>1. Handle(<<>>, own("SSY")) /\ Here.op = "asm" /\ Here.form = "ssy"
      BY <2>4 DEF SelectSsy, Selecting
    <3> QED
      BY <2>1, <2>2, <3>1
  <2>5. CASE SelectExit
    <3>1. /\ Handle(<<>>, own("EXIT")) /\ Here.op \in {"asm", "call", "ret"}
          /\ Here.op = "ret" \/ Here.form \in Exits
      BY <2>5, Zenon DEF SelectExit, Selecting
    <3> QED
      BY <2>1, <3>1
  <2> QED
    BY <2>3, <2>4, <2>5
<1> DEFINE g == Pushed(<<>>, own(op))
           mi == Instruction(op, 0, 0, 0, 0)
<1>2. IsAsks(<<>>) /\ DOMAIN <<>> = {}
  BY HandlersAsk
<1>3. Needed(Here) = {}
  <2>1. Here.op = "asm" => Here.form \notin {"ldr", "str"}
    BY <1>1 DEF Barriers, Exits
  <2> QED
    BY <1>1, <2>1, HereIs, NeededValues DEF Proceeding
<1>4. AsksFor(<<>>, Needed(Here), Self)
  BY <1>2, <1>3, AsksForHere
<1>5. Record(<<>>)
  BY <1>1 DEF Handle
<1>6. GroupOk(valueToVReg', nextVReg', g, Needed(Here), Self) /\ EndsIn(g, mi, <<>>)
  <2>1. op \notin WritingOps /\ op \notin {"ADDI", "S2R"}
    BY DEF WritingOps, ThreeRegister
  <2>2. 0 = VREG_ZERO /\ {0, 0} \subseteq {VREG_ZERO} \cup {Register(<<>>, k) : k \in Readable(<<>>, Needed(Here))}
    BY DEF VREG_ZERO
  <2> QED
    BY <1>2, <1>4, <1>5, <2>1, <2>2, OnePlain
<1>7. Means(valueToVReg', g, Here, Self)
  <2>1. mi.op = op
    BY InstructionFields
  <2> HIDE DEF mi, g
  <2>2. /\ ~IsLoad(Here) /\ ~IsGlobalId(Here) /\ ~Kernel!Stores(Here) /\ ~ReadsRegister(Here)
        /\ Here.op \notin {"icmp", "br", "binary", "gep", "cast"}
    BY <1>1 DEF Barriers, Exits, IsLoad, IsGlobalId, ReadsRegister, RegisterReads, RegisterCalls, Kernel!Stores
  <2>3. op = "EXIT" <=> Kernel!Ends(Here)
    <3>1. CASE Here.op = "ret"
      BY <1>1, <3>1 DEF Kernel!Ends
    <3>2. CASE Here.op = "asm"
      <4>1. Here.form \in {"sync", "ssy", "exit"}
        BY <1>1, <3>2, HereIs DEF InItsClass, Barriers, Exits
      <4> QED
        BY <1>1, <3>2, <4>1 DEF Kernel!Ends, Exits
    <3>3. CASE Here.op = "call"
      <4>1. Here.form \in {"syncthreads", "barrier", "gpu_exit"}
        BY <1>1, <3>3, HereIs DEF InItsClass, Barriers, Exits, RegisterCalls, DimensionCalls
      <4> QED
        BY <1>1, <3>3, <4>1 DEF Kernel!Ends, Exits
    <3> QED
      BY <1>1, <3>1, <3>2, <3>3
  <2>4. Frame(g, Here)
    BY <1>6, <2>1, <2>2, <2>3, FrameOfOne
  <2> QED
    BY <2>2, <2>4 DEF Means
<1>8. \E S : own(op) \in Seq(S)
  BY IsSequence
<1> HIDE DEF own
<1> QED
  BY <1>1, <1>2, <1>4, <1>6, <1>7, <1>8, IsCoded

LEMMA CompareCoded == ASSUME Proceeding, SelectCmp PROVE Coded
<1>1. Here.op = "icmp" /\ BranchOnly(Self)
  <2>1. Here.op = "icmp"
    BY DEF SelectCmp, Selecting
  <2> QED
    BY <2>1, HereIs, SupportedInstruction DEF Proceeding
<1>2. Handle(<<>>, <<>>)
  BY <1>1 DEF SelectCmp
<1>3. IsAsks(<<>>) /\ DOMAIN <<>> = {}
  BY HandlersAsk
<1>4. Needed(Here) = {}
  BY <1>1, HereIs, NeededValues DEF Proceeding
<1>5. AsksFor(<<>>, Needed(Here), Self)
  BY <1>3, <1>4, AsksForHere
<1> DEFINE g == Pushed(<<>>, <<>>)
<1>6. Len(g) = 0
  <2>1. <<>> \in Seq({})
    OBVIOUS
  <2>2. g = <<>>
    <3>1. DOMAIN [k \in DOMAIN <<>> |-> Fills(<<>>, k)] = {}
      BY <1>3
    <3>2. [k \in DOMAIN <<>> |-> Fills(<<>>, k)] = <<>> /\ Len(<<>>) = 0
      OBVIOUS
    <3>3. FlattenSeq(<<>>) = <<>>
      BY <3>2 DEF FlattenSeq
    <3>4. <<>> \o <<>> = <<>>
      BY <2>1, ConcatEmptySeq
    <3> QED
      BY <3>2, <3>3, <3>4 DEF Pushed
  <2> QED
    BY <2>2
<1> HIDE DEF g
<1>7. GroupOk(valueToVReg', nextVReg', g, Needed(Here), Self)
  BY <1>4, <1>6 DEF GroupOk
<1>8. Means(valueToVReg', g, Here, Self)
  <2>1. /\ ~IsLoad(Here) /\ ~IsGlobalId(Here) /\ ~Kernel!Stores(Here) /\ ~ReadsRegister(Here)
    BY <1>1 DEF IsLoad, IsGlobalId, ReadsRegister, Kernel!Stores
  <2>2. ~Kernel!Stores(Here)
    <3>1. Here.form # "str"
      BY <1>1, HereIs DEF InItsClass, Predicates
    <3> QED
      BY <1>1, <3>1 DEF Kernel!Stores
  <2>3. Frame(g, Here)
    BY <1>1, <1>6 DEF Frame
  <2> QED
    BY <1>1, <2>1, <2>2, <2>3 DEF Means
<1> QED
  BY <1>2, <1>3, <1>5, <1>7, <1>8, IsSequence, IsCoded DEF g

LEMMA BinaryMeans ==
  ASSUME Here.op = "binary", InItsClass(Here), IsSupported(Here)
  PROVE  /\ ~Kernel!Stores(Here) /\ ~Kernel!Ends(Here)
         /\ \A g : Frame(g, Here) /\ MeansBinary(valueToVReg', g, Here, Self)
                   => Means(valueToVReg', g, Here, Self)
<1>1. Here.form \in {"add", "sub", "mul", "shl"}
  BY DEF IsSupported
<1>2. ~IsLoad(Here) /\ ~IsGlobalId(Here) /\ ~Kernel!Stores(Here) /\ ~ReadsRegister(Here) /\ ~Kernel!Ends(Here)
  BY <1>1 DEF IsLoad, IsGlobalId, ReadsRegister, Kernel!Stores, Kernel!Ends
<1> QED
  BY <1>2 DEF Means

LEMMA FittingNumbers == \A m : Fits(m) => m \in Int
  BY DEF Fits

LEMMA ShortNumbers ==
  ASSUME NEW v, IsShort(v) PROVE v[2] \in Int
<1> DEFINE n == v[2]
<1>1. n \in -2048..2047
  BY SMTT(30) DEF IsShort
<1> HIDE DEF n
<1>2. n \in Int
  BY <1>1
<1> QED
  BY <1>2 DEF n

\* One operand.
ShortForm(asks, op, both, n) ==
  /\ IsAsks(asks) /\ DOMAIN asks = {1, 2} /\ asks[1] = Get(Self)
  /\ \/ /\ AddsShort(Here) /\ op = "ADDI" /\ n = Here.ops[2][2] /\ both = FALSE
        /\ asks[2] = Get(Here.ops[1])
     \/ /\ Shifts(Here) /\ Here.ops[2][2] = 0 /\ op = "ADDI" /\ n = 0 /\ both = FALSE
        /\ asks[2] = Materialize(Here.ops[1])
     \/ /\ Shifts(Here) /\ Here.ops[2][2] = 1 /\ op = "ADD" /\ n = 0 /\ both = TRUE
        /\ asks[2] = Materialize(Here.ops[1])
  /\ Handle(asks, <<Plain(op, Register(asks, 1), Register(asks, 2),
                          IF both THEN Register(asks, 2) ELSE 0, n)>>)

LEMMA ShortCoded ==
  ASSUME Proceeding, Here.op = "binary", NEW asks,
         NEW op \in {"ADDI", "ADD"}, NEW n \in Int, NEW both \in BOOLEAN,
         ShortForm(asks, op, both, n)
  PROVE  Coded
<1> DEFINE x == Here.ops[1]
<1>1. Needed(Here) = {x}
  BY HereIs, NeededValues DEF Proceeding, ShortForm
<1>2. /\ IsAsks(asks) /\ DOMAIN asks = {1, 2} /\ asks[1] = Get(Self)
      /\ asks[2] = Materialize(x) \/ (asks[2] = Get(x) /\ AddsShort(Here))
  BY DEF ShortForm
<1>3. AddsShort(Here) => x \in OnlyGotten(Here)
  BY DEF OnlyGotten, AddsShort
<1>4. MeansOf(x, op, both, n)
  <2>1. ASSUME NEW g, NEW d, NEW r, g[Len(g)] = Instruction(op, d, r, IF both THEN r ELSE 0, n), Frame(g, Here),
               IsNumberOf(valueToVReg', Self, d), IsNumberOf(valueToVReg', x, r)
        PROVE  Means(valueToVReg', g, Here, Self)
    <3>1. MeansBinary(valueToVReg', g, Here, Self)
      BY <2>1 DEF MeansBinary, ShortForm
    <3> QED
      BY <2>1, <3>1, BinaryMeans, HereIs
  <2> HIDE DEF x
  <2> QED
    BY <2>1 DEF MeansOf
<1>5. ~Kernel!Stores(Here) /\ ~Kernel!Ends(Here) /\ Here.op \notin {"icmp", "br"}
  BY BinaryMeans, HereIs
<1>6. IsMove(x, asks, 1, 2, op, both, n)
  <2>1. op \in {"LDR", "ADDI", "ADD"} /\ {1, 2} = {1, 2}
    OBVIOUS
  <2> HIDE DEF x
  <2>2. asks[2] = Materialize(x) \/ (asks[2] = Get(x) /\ x \in OnlyGotten(Here))
    BY <1>2, <1>3
  <2>3. Handle(asks, <<Plain(op, Register(asks, 1), Register(asks, 2),
                             IF both THEN Register(asks, 2) ELSE 0, n)>>)
    BY Zenon DEF ShortForm
  <2> QED
    BY <1>1, <1>2, <1>4, <1>5, <2>1, <2>2, <2>3, Zenon DEF IsMove
<1> QED
  BY <1>6, MoveCoded

\* A shift by more than one: a product with a power of two.
IsScale(n) == n = 2^(Here.ops[2][2])

LEMMA ScaleFits ==
  ASSUME Here.op = "binary", Shifts(Here), IsSupported(Here), NEW n, IsScale(n)
  PROVE  n \in Int
<1>1. n \in Numbers(Here)
  BY DEF Numbers, Shifts, IsScale
<1>2. Fits(n)
  BY <1>1, Zenon DEF IsSupported
<1> QED
  BY <1>2, FittingNumbers, Zenon

LEMMA ScaleMeans ==
  ASSUME Shifts(Here), Here.ops[2][2] > 1, NEW n, IsScale(n), NEW g, NEW d, NEW x, NEW t,
         IsNumberOf(valueToVReg', Self, d), IsNumberOf(valueToVReg', Here.ops[1], x),
         \E e \in 1..(Len(g) - 1) : g[e] = Fill(t, n),
         g[Len(g)] = Instruction("MUL", d, x, t, 0)
  PROVE  MeansBinary(valueToVReg', g, Here, Self)
  BY Zenon DEF MeansBinary, IsScale

LEMMA ScaledCoded ==
  ASSUME Proceeding, Here.op = "binary", Shifts(Here), Here.ops[2][2] > 1,
         NEW n, IsScale(n),
         NEW asks, IsAsks(asks), DOMAIN asks = {1, 2, 3},
         asks[1] = Get(Self), asks[2] = Number(n), asks[3] = Materialize(Here.ops[1]),
         Handle(asks, <<Plain("MUL", Register(asks, 1), Register(asks, 3), Register(asks, 2), 0)>>)
  PROVE  Coded
<1> DEFINE x == Here.ops[1]
           own == <<Plain("MUL", Register(asks, 1), Register(asks, 3), Register(asks, 2), 0)>>
           g == Pushed(asks, own)
           mi == Instruction("MUL", Register(asks, 1), Register(asks, 3), Register(asks, 2), 0)
<1>1. Needed(Here) = {x}
  <2>1. ~AddsShort(Here)
    BY DEF Shifts, AddsShort
  <2> QED
    BY <2>1, HereIs, NeededValues DEF Proceeding
<1>2. n \in Int
  BY ScaleFits, HereIs
<1> HIDE DEF x
<1>3. /\ IsAsks(asks) /\ DOMAIN asks = {1, 2, 3}
      /\ asks[1] = Get(Self) /\ asks[2] = Number(n) /\ asks[3] = Materialize(x)
  BY DEF x
<1>4. /\ asks[1].value = Self /\ asks[2].value = Temporary /\ asks[2].fill = <<n>>
      /\ asks[3].value = x /\ Self # Temporary /\ x # Temporary
  BY <1>1, <1>3, NeedsHere DEF Get, Number, Materialize
<1>5. AsksFor(asks, Needed(Here), Self)
  <2>1. \A k \in DOMAIN asks : AskIsFor(asks, k, Needed(Here), Self)
    BY <1>1, <1>2, <1>3, AskIs
  <2> QED
    BY <1>1, <1>3, <1>4, <2>1, AsksForHere
<1>6. Record(asks)
  BY DEF Handle
<1>7. /\ IsNumberOf(valueToVReg', Self, Register(asks, 1))
      /\ IsNumberOf(valueToVReg', x, Register(asks, 3))
  BY <1>3, <1>4, <1>6, HereIs, Answers DEF Proceeding
<1>8. GroupOk(valueToVReg', nextVReg', g, Needed(Here), Self) /\ EndsIn(g, mi, asks)
  <2>1. 2 \in Readable(asks, Needed(Here)) /\ 3 \in Readable(asks, Needed(Here))
    BY <1>1, <1>3, <1>4 DEF Readable
  <2>2. {Register(asks, 3), Register(asks, 2)} \subseteq
          {VREG_ZERO} \cup {Register(asks, i) : i \in Readable(asks, Needed(Here))}
    BY <2>1
  <2> QED
    BY <1>3, <1>4, <1>5, <1>6, <2>2, OnePlain
<1>9. Means(valueToVReg', g, Here, Self)
  <2>1. mi.op = "MUL" /\ g[Len(g)] = mi
    BY <1>8, InstructionFields DEF EndsIn
  <2>2. Brings(asks, 2)
    BY <1>4 DEF Brings, IsNew
  <2>3. \E e \in 1..(Len(g) - 1) : g[e] = Fill(Register(asks, 2), n)
    BY <1>3, <1>4, <1>8, <2>2 DEF EndsIn
  <2> HIDE DEF mi, g
  <2>4. Frame(g, Here)
    BY <1>8, <2>1, BinaryMeans, HereIs, FrameOfOne
  <2>5. MeansBinary(valueToVReg', g, Here, Self)
    BY <1>7, <2>1, <2>3, ScaleMeans DEF mi, x
  <2> QED
    BY <2>4, <2>5, BinaryMeans, HereIs
<1>10. \E S : own \in Seq(S)
  BY IsSequence, Zenon
<1> HIDE DEF g
<1> QED
  BY <1>3, <1>5, <1>8, <1>9, <1>10, IsCoded DEF g

\* Two operands.
LEMMA BothCoded ==
  ASSUME Proceeding, Here.op = "binary", ~AddsShort(Here), ~Shifts(Here),
         NEW asks, IsAsks(asks), DOMAIN asks = {1, 2, 3},
         asks[1] = Get(Self), asks[2] = Materialize(Here.ops[1]), asks[3] = Materialize(Here.ops[2]),
         Handle(asks, <<Plain(RegisterForm(Here.form), Register(asks, 1), Register(asks, 2), Register(asks, 3), 0)>>)
  PROVE  Coded
<1> DEFINE x == Here.ops[1]
           y == Here.ops[2]
           op == RegisterForm(Here.form)
           own == <<Plain(op, Register(asks, 1), Register(asks, 2), Register(asks, 3), 0)>>
           g == Pushed(asks, own)
           mi == Instruction(op, Register(asks, 1), Register(asks, 2), Register(asks, 3), 0)
<1>1. Needed(Here) = {x, y}
  BY HereIs, NeededValues DEF Proceeding
<1>2. op \in {"ADD", "SUB", "MUL"}
  BY DEF RegisterForm
<1>3. /\ IsAsks(asks) /\ DOMAIN asks = {1, 2, 3}
      /\ asks[1] = Get(Self) /\ asks[2] = Materialize(x) /\ asks[3] = Materialize(y)
  OBVIOUS
<1> HIDE DEF x, y, op
<1>4. /\ asks[1].value = Self /\ asks[2].value = x /\ asks[3].value = y
      /\ Self # Temporary /\ x # Temporary /\ y # Temporary
  BY <1>1, <1>3, NeedsHere DEF Get, Materialize
<1>5. AsksFor(asks, Needed(Here), Self)
  <2>1. \A k \in DOMAIN asks : AskIsFor(asks, k, Needed(Here), Self)
    BY <1>1, <1>3, AskIs
  <2> QED
    BY <1>1, <1>3, <1>4, <2>1, AsksForHere
<1>6. Record(asks)
  BY DEF Handle
<1>7. /\ IsNumberOf(valueToVReg', Self, Register(asks, 1))
      /\ IsNumberOf(valueToVReg', x, Register(asks, 2))
      /\ IsNumberOf(valueToVReg', y, Register(asks, 3))
  BY <1>3, <1>4, <1>6, HereIs, Answers DEF Proceeding
<1>8. GroupOk(valueToVReg', nextVReg', g, Needed(Here), Self) /\ EndsIn(g, mi, asks)
  <2>1. 2 \in Readable(asks, Needed(Here)) /\ 3 \in Readable(asks, Needed(Here))
    BY <1>1, <1>3, <1>4 DEF Readable
  <2>2. {Register(asks, 2), Register(asks, 3)} \subseteq
          {VREG_ZERO} \cup {Register(asks, i) : i \in Readable(asks, Needed(Here))}
    BY <2>1
  <2>3. op # "ADDI" /\ op # "S2R"
    BY <1>2
  <2> QED
    BY <1>3, <1>4, <1>5, <1>6, <2>2, <2>3, OnePlain
<1>9. Means(valueToVReg', g, Here, Self)
  <2>1. mi.op = op /\ g[Len(g)] = mi
    BY <1>8, InstructionFields DEF EndsIn
  <2>2. op \notin {"BR", "CMP", "STR", "EXIT"}
    BY <1>2
  <2> HIDE DEF mi, g
  <2>3. Frame(g, Here)
    BY <1>8, <2>1, <2>2, BinaryMeans, HereIs, FrameOfOne
  <2>4. MeansBinary(valueToVReg', g, Here, Self)
    BY <1>7, <2>1, Zenon DEF MeansBinary, mi, x, y, op
  <2> QED
    BY <2>3, <2>4, BinaryMeans, HereIs
<1>10. \E S : own \in Seq(S)
  BY IsSequence, Zenon
<1> HIDE DEF g
<1> QED
  BY <1>3, <1>5, <1>8, <1>9, <1>10, IsCoded DEF g, op

LEMMA BinaryCoded == ASSUME Proceeding, SelectBinaryOp PROVE Coded
<1> DEFINE x == Here.ops[1]
           y == Here.ops[2]
           gotten == <<Get(Self), Get(x)>>
           move   == <<Get(Self), Materialize(x)>>
           scaled == <<Get(Self), Number(2^y[2]), Materialize(x)>>
           both   == <<Get(Self), Materialize(x), Materialize(y)>>
<1>1. Here.op = "binary"
  BY DEF SelectBinaryOp, Selecting
<1>2. /\ IsAsks(gotten) /\ DOMAIN gotten = {1, 2} /\ gotten[1] = Get(Self) /\ gotten[2] = Get(x)
      /\ IsAsks(move) /\ DOMAIN move = {1, 2} /\ move[1] = Get(Self) /\ move[2] = Materialize(x)
      /\ IsAsks(scaled) /\ DOMAIN scaled = {1, 2, 3} /\ scaled[1] = Get(Self)
      /\ scaled[2] = Number(2^y[2]) /\ scaled[3] = Materialize(x)
      /\ IsAsks(both) /\ DOMAIN both = {1, 2, 3} /\ both[1] = Get(Self)
      /\ both[2] = Materialize(x) /\ both[3] = Materialize(y)
  <2>1. IsAsks(gotten) /\ IsAsks(move) /\ IsAsks(scaled) /\ IsAsks(both)
    BY HandlersAsk, Zenon
  <2>2. DOMAIN gotten = {1, 2} /\ gotten[1] = Get(Self) /\ gotten[2] = Get(x)
    BY ListsOf, Zenon
  <2>3. DOMAIN move = {1, 2} /\ move[1] = Get(Self) /\ move[2] = Materialize(x)
    BY ListsOf, Zenon
  <2> DEFINE self == Get(Self)  power == Number(2^y[2])
             first == Materialize(x)  second == Materialize(y)
  <2> HIDE DEF self, power, first, second
  <2>4. /\ DOMAIN <<self, power, first>> = {1, 2, 3} /\ <<self, power, first>>[1] = self
        /\ <<self, power, first>>[2] = power /\ <<self, power, first>>[3] = first
    OBVIOUS
  <2>5. /\ DOMAIN <<self, first, second>> = {1, 2, 3} /\ <<self, first, second>>[1] = self
        /\ <<self, first, second>>[2] = first /\ <<self, first, second>>[3] = second
    OBVIOUS
  <2> USE DEF self, power, first, second
  <2> QED
    BY <2>1, <2>2, <2>3, <2>4, <2>5, Zenon
<1>3. \/ /\ AddsShort(Here)
         /\ Handle(gotten, <<Plain("ADDI", Register(gotten, 1), Register(gotten, 2), 0, y[2])>>)
      \/ /\ Shifts(Here) /\ y[2] = 0
         /\ Handle(move, <<Plain("ADDI", Register(move, 1), Register(move, 2), 0, 0)>>)
      \/ /\ Shifts(Here) /\ y[2] = 1
         /\ Handle(move, <<Plain("ADD", Register(move, 1), Register(move, 2), Register(move, 2), 0)>>)
      \/ /\ Shifts(Here) /\ y[2] > 1
         /\ Handle(scaled, <<Plain("MUL", Register(scaled, 1), Register(scaled, 3), Register(scaled, 2), 0)>>)
      \/ /\ ~AddsShort(Here) /\ ~Shifts(Here)
         /\ Handle(both, <<Plain(RegisterForm(Here.form), Register(both, 1), Register(both, 2), Register(both, 3), 0)>>)
  BY Zenon DEF SelectBinaryOp, AddsShort, Shifts
<1>4. \E s : IsScale(s) /\ scaled[2] = Number(s)
  BY <1>2, Zenon DEF IsScale
<1> HIDE DEF gotten, move, scaled, both
<1>5. CASE /\ AddsShort(Here)
           /\ Handle(gotten, <<Plain("ADDI", Register(gotten, 1), Register(gotten, 2), 0, y[2])>>)
  <2>1. y[2] \in Int
    BY <1>5, ShortNumbers, Zenon DEF AddsShort
  <2>2. Handle(gotten, <<Plain("ADDI", Register(gotten, 1), Register(gotten, 2),
                               IF FALSE THEN Register(gotten, 2) ELSE 0, y[2])>>)
    BY <1>5
  <2>3. ShortForm(gotten, "ADDI", FALSE, y[2])
    BY <1>2, <1>5, <2>2, Zenon DEF ShortForm
  <2> QED
    BY <1>1, <2>1, <2>3, ShortCoded
<1>6. CASE /\ Shifts(Here) /\ y[2] = 0
           /\ Handle(move, <<Plain("ADDI", Register(move, 1), Register(move, 2), 0, 0)>>)
  <2>1. Handle(move, <<Plain("ADDI", Register(move, 1), Register(move, 2),
                             IF FALSE THEN Register(move, 2) ELSE 0, 0)>>)
    BY <1>6
  <2>2. ShortForm(move, "ADDI", FALSE, 0)
    BY <1>2, <1>6, <2>1, Zenon DEF ShortForm
  <2>3. "ADDI" \in {"ADDI", "ADD"} /\ 0 \in Int /\ FALSE \in BOOLEAN
    OBVIOUS
  <2> QED
    BY <1>1, <2>2, <2>3, ShortCoded, Zenon
<1>7. CASE /\ Shifts(Here) /\ y[2] = 1
           /\ Handle(move, <<Plain("ADD", Register(move, 1), Register(move, 2), Register(move, 2), 0)>>)
  <2>1. Handle(move, <<Plain("ADD", Register(move, 1), Register(move, 2),
                             IF TRUE THEN Register(move, 2) ELSE 0, 0)>>)
    BY <1>7
  <2>2. ShortForm(move, "ADD", TRUE, 0)
    BY <1>2, <1>7, <2>1, Zenon DEF ShortForm
  <2>3. "ADD" \in {"ADDI", "ADD"} /\ 0 \in Int /\ TRUE \in BOOLEAN
    OBVIOUS
  <2> QED
    BY <1>1, <2>2, <2>3, ShortCoded, Zenon
<1>8. CASE /\ Shifts(Here) /\ y[2] > 1
           /\ Handle(scaled, <<Plain("MUL", Register(scaled, 1), Register(scaled, 3), Register(scaled, 2), 0)>>)
  BY <1>1, <1>2, <1>4, <1>8, ScaledCoded, Zenon
<1>9. CASE /\ ~AddsShort(Here) /\ ~Shifts(Here)
           /\ Handle(both, <<Plain(RegisterForm(Here.form), Register(both, 1), Register(both, 2), Register(both, 3), 0)>>)
  BY <1>1, <1>2, <1>9, BothCoded, Zenon
<1> QED
  BY <1>3, <1>5, <1>6, <1>7, <1>8, <1>9, Zenon

\* A handler whose instructions all write: temporaries, and at last its value.
IsWriter(asks, own, needs, self, to, e) ==
  /\ to[e] \in DOMAIN asks /\ Writes(own[e]) /\ own[e].rd = Register(asks, to[e])
  /\ IF e = Len(own) THEN asks[to[e]].value = self
     ELSE asks[to[e]].value = Temporary /\ asks[to[e]].fill = <<>>
  /\ RegistersRead(own[e]) \subseteq {VREG_ZERO} \cup {Register(asks, k) : k \in Readable(asks, needs)}
                                       \cup WrittenBefore(own, e)
  /\ own[e].op # "ADDI"
  /\ own[e].op = "S2R" => own[e].imm \in TID_X..BID_Y

LEMMA OwnOfWriters ==
  ASSUME Numbered, Valued, NEW asks, IsAsks(asks), Record(asks), nextVReg' <= FieldSize,
         NEW needs, NEW self, AsksFor(asks, needs, self),
         NEW own, \E S : own \in Seq(S), Len(own) \in Nat, NEW to,
         \A e \in 1..Len(own) : IsWriter(asks, own, needs, self, to, e),
         \A d, e \in 1..Len(own) : d < e => to[d] # to[e]
  PROVE  OwnOk(asks, own, needs, self)
<1> DEFINE r(k) == Register(asks, k)
<1>1. /\ Numbered' /\ Valued'
      /\ \A k \in DOMAIN asks :
           /\ asks[k].value \notin {Zero, Temporary} =>
                asks[k].value \in DOMAIN valueToVReg' /\ r(k) = valueToVReg'[asks[k].value]
           /\ asks[k].value = Zero => r(k) = VREG_ZERO
           /\ asks[k].value = Temporary =>
                /\ r(k) >= nextVReg
                /\ \A v \in DOMAIN valueToVReg' : valueToVReg'[v] # r(k)
                /\ \A j \in DOMAIN asks : j # k => r(j) # r(k)
  BY AsksAnswered
<1>2. nextVReg \in Nat \ {0}
  BY DEF Numbered
<1> HIDE DEF r
<1>3. ASSUME NEW e \in 1..Len(own)
      PROVE  /\ to[e] \in DOMAIN asks /\ own[e].rd = r(to[e]) /\ own[e].rd # VREG_ZERO
             /\ to[e] \notin Readable(asks, needs)
             /\ \A k \in Readable(asks, needs) : own[e].rd # r(k)
  <2>1. /\ to[e] \in DOMAIN asks /\ own[e].rd = r(to[e])
        /\ \/ e = Len(own) /\ asks[to[e]].value = self
           \/ asks[to[e]].value = Temporary /\ asks[to[e]].fill = <<>>
    BY DEF IsWriter, r
  <2>2. \A k \in Readable(asks, needs) :
          k \in DOMAIN asks /\ (asks[k].value \in needs \/ (asks[k].value = Temporary /\ asks[k].fill # <<>>))
    BY DEF Readable
  <2>3. CASE asks[to[e]].value = self
    <3>1. self \notin needs /\ self # Temporary /\ self # Zero /\ Temporary \notin needs
      BY DEF AsksFor
    <3>2. self \in DOMAIN valueToVReg' /\ r(to[e]) = valueToVReg'[self]
      BY <1>1, <2>1, <2>3, <3>1
    <3>3. r(to[e]) # VREG_ZERO
      BY <1>1, <3>2 DEF Numbered, VREG_ZERO
    <3>4. ASSUME NEW k \in Readable(asks, needs) PROVE r(to[e]) # r(k)
      <4>1. CASE asks[k].value = Temporary
        BY <1>1, <2>2, <3>2, <4>1
      <4>2. CASE asks[k].value # Temporary
        <5>1. asks[k].value \in needs /\ asks[k].value # self
          BY <2>2, <3>1, <4>2
        <5> QED
          BY <1>1, <2>2, <3>2, <3>3, <4>2, <5>1 DEF Numbered
      <4> QED
        BY <4>1, <4>2
    <3> QED
      BY <2>1, <2>2, <2>3, <3>1, <3>3, <3>4
  <2>4. CASE asks[to[e]].value = Temporary /\ asks[to[e]].fill = <<>>
    <3>1. Temporary \notin needs
      BY DEF AsksFor
    <3>2. to[e] \notin Readable(asks, needs)
      BY <2>2, <2>4, <3>1
    <3>3. r(to[e]) # VREG_ZERO
      BY <1>1, <1>2, <2>1, <2>4 DEF VREG_ZERO
    <3> QED
      BY <1>1, <2>1, <2>2, <2>4, <3>2, <3>3
  <2> QED
    BY <2>1, <2>3, <2>4
<1>4. \A d, e \in 1..Len(own) : d < e => own[d].rd # own[e].rd
  <2> SUFFICES ASSUME NEW d \in 1..Len(own), NEW e \in 1..Len(own), d < e
               PROVE  own[d].rd # own[e].rd
    OBVIOUS
  <2>1. to[d] # to[e] /\ asks[to[d]].value = Temporary /\ to[d] \in DOMAIN asks /\ to[e] \in DOMAIN asks
    <3>1. d # Len(own)
      OBVIOUS
    <3> QED
      BY <3>1 DEF IsWriter
  <2> QED
    BY <1>1, <1>3, <2>1
<1>5. ASSUME NEW e \in 1..Len(own) PROVE IsOwn(asks, own, needs, self, e)
  <2>0. IsWriter(asks, own, needs, self, to, e)
    OBVIOUS
  <2>1. own[e].rd \notin WrittenBefore(own, e)
    <3>1. \A d \in 1..(e - 1) : d \in 1..Len(own) /\ d < e
      OBVIOUS
    <3> QED
      BY <1>4, <3>1 DEF WrittenBefore
  <2>2. ASSUME NEW d \in 1..e PROVE own[e].rd \notin RegistersRead(own[d])
    <3>1. d \in 1..Len(own)
      OBVIOUS
    <3>2. RegistersRead(own[d]) \subseteq {VREG_ZERO} \cup {r(k) : k \in Readable(asks, needs)}
                                            \cup WrittenBefore(own, d)
      BY <3>1 DEF IsWriter, r
    <3>3. own[e].rd \notin WrittenBefore(own, d)
      <4>1. \A c \in 1..(d - 1) : c \in 1..Len(own) /\ c < e
        OBVIOUS
      <4> QED
        BY <1>4, <4>1 DEF WrittenBefore
    <3> QED
      BY <1>3, <3>2, <3>3
  <2>3. \E k \in DOMAIN asks :
          /\ own[e].rd = Register(asks, k)
          /\ \/ asks[k].value = self /\ e = Len(own)
             \/ asks[k].value = Temporary /\ asks[k].fill = <<>>
    BY <2>0 DEF IsWriter
  <2>4. own[e].op # "CMP" /\ own[e].op # "ADDI"
    BY <2>0 DEF IsWriter, Writes, WritingOps, ThreeRegister
  <2> QED
    BY <2>0, <2>1, <2>2, <2>3, <2>4 DEF IsOwn, IsWriter
<1> QED
  BY <1>5 DEF OwnOk

\* The frame of a handler that neither stores nor returns.
LEMMA FrameOfOwn ==
  ASSUME NEW g, NEW m, NEW asks, NEW own, Laid(g, m, asks, own), NEW ins,
         Len(own) # 0, ins.op \notin {"icmp", "br"}, ~Kernel!Stores(ins), ~Kernel!Ends(ins),
         \A e \in 1..Len(own) : own[e].op \notin {"BR", "CMP", "STR", "EXIT"}
  PROVE  Frame(g, ins)
<1>1. m \in Nat /\ Len(own) \in Nat /\ Len(g) = m + Len(own)
  BY DEF Laid
<1>2. ASSUME NEW e \in 1..Len(g) PROVE g[e].op \notin {"BR", "CMP", "STR", "EXIT"}
  <2>1. CASE e \in 1..m
    BY <2>1 DEF Laid
  <2>2. CASE e \notin 1..m
    <3>1. e - m \in 1..Len(own) /\ m + (e - m) = e
      BY <1>1, <2>2
    <3>2. g[e] = own[e - m]
      BY <3>1 DEF Laid
    <3> QED
      BY <3>1, <3>2
  <2> QED
    BY <2>1, <2>2
<1>3. Len(g) # 0
  BY <1>1
<1> QED
  BY <1>2, <1>3 DEF Frame

\* The sum over one index.
LEMMA FoldOfOne ==
  ASSUME NEW f, f[1] \in Int
  PROVE  FoldFunctionOnSet(+, 0, f, {1}) = f[1]
<1> DEFINE Is(g) == g = [s \in SUBSET {1} |-> IF s = {} THEN 0
                           ELSE f[CHOOSE x \in s : TRUE] + g[s \ {CHOOSE x \in s : TRUE}]]
           iter == CHOOSE g : Is(g)
           h == [s \in SUBSET {1} |-> IF s = {} THEN 0 ELSE f[1]]
           step(s) == IF s = {} THEN 0
                      ELSE f[CHOOSE x \in s : TRUE] + iter[s \ {CHOOSE x \in s : TRUE}]
<1>1. SUFFICES iter[{1}] = f[1]
  BY DEF FoldFunctionOnSet, MapThenFoldSet
<1>2. \A s \in SUBSET {1} : s # {} => (CHOOSE x \in s : TRUE) = 1 /\ s \ {1} = {} /\ s = {1}
  OBVIOUS
<1>3. Is(h)
  <2>1. \A s \in SUBSET {1} :
          s # {} => f[1] = f[CHOOSE x \in s : TRUE] + h[s \ {CHOOSE x \in s : TRUE}]
    BY <1>2
  <2> QED
    BY <2>1
<1>4. Is(iter)
  <2> HIDE DEF Is
  <2> QED
    BY <1>3
<1> HIDE DEF iter
<1>5. \A s \in SUBSET {1} : iter[s] = step(s)
  <2>1. iter = [s \in SUBSET {1} |-> step(s)]
    BY <1>4
  <2> HIDE DEF step
  <2> QED
    BY <2>1
<1>6. {} \in SUBSET {1} /\ {1} \in SUBSET {1} /\ {1} # {}
  OBVIOUS
<1>7. step({}) = 0
  OBVIOUS
<1>8. iter[{}] = 0
  BY <1>5, <1>6, <1>7
<1>9. step({1}) = f[1] + iter[{}]
  BY <1>2, <1>6
<1>10. iter[{1}] = f[1] + 0
  <2> HIDE DEF step
  <2> QED
    BY <1>5, <1>6, <1>8, <1>9
<1> QED
  BY <1>10

\* An address.
LEMMA AddressIs ==
  ASSUME Proceeding, Here.op = "gep"
  PROVE  /\ Here.form = "" /\ Here.attr[1] \in Nat \ {0}
         /\ Here.ops[1] \in OnlyGotten(Here) /\ Here.ops[1] \in Needed(Here)
         /\ IsConst(Here.ops[2]) => Here.ops[2][2] \in Int
         /\ ~Kernel!Stores(Here) /\ ~Kernel!Ends(Here)
         /\ \A g : Frame(g, Here) /\ MeansAddress(valueToVReg', g, Here, Self)
                   => Means(valueToVReg', g, Here, Self)
<1>1. Here.form = ""
  BY HereIs DEF InItsClass
<1>2. /\ Range(Here.ops) = {Here.ops[1], Here.ops[2]}
      /\ Needed(Here) = IF IsConst(Here.ops[2]) THEN {Here.ops[1]} ELSE {Here.ops[1], Here.ops[2]}
  BY HereIs, NeededValues DEF Proceeding
<1>3. Here.attr \in Seq(Int) /\ Len(Here.attr) = 1 /\ Here.attr[1] > 0
  <2>1. Here.attr \in Seq(Int)
    BY HereIs DEF IRInstruction
  <2> QED
    BY <2>1, HereIs DEF IsSupported
<1>4. Here.attr[1] \in Nat \ {0}
  BY <1>3
<1>5. Here.ops[1] \in OnlyGotten(Here)
  BY <1>1 DEF OnlyGotten
<1>6. IsConst(Here.ops[2]) => Here.ops[2][2] \in Int
  <2>1. Here.ops \in Seq(Operands)
    BY HereIs DEF IRInstruction
  <2>2. Range(Here.ops) \subseteq Operands
    <3> HIDE DEF Operands
    <3> QED
      BY <2>1, RangeOfTwo
  <2>3. Here.ops[2] \in Operands
    BY <1>2, <2>2
  <2> QED
    BY <2>3, OperandsAre
<1>7. ~IsLoad(Here) /\ ~IsGlobalId(Here) /\ ~Kernel!Stores(Here) /\ ~ReadsRegister(Here) /\ ~Kernel!Ends(Here)
  BY <1>1 DEF IsLoad, IsGlobalId, ReadsRegister, Kernel!Stores, Kernel!Ends
<1>8. \A g : Frame(g, Here) /\ MeansAddress(valueToVReg', g, Here, Self)
             => Means(valueToVReg', g, Here, Self)
  BY <1>7 DEF Means
<1> QED
  BY <1>1, <1>2, <1>4, <1>5, <1>6, <1>7, <1>8

LEMMA OffsetCoded ==
  ASSUME Proceeding, Here.op = "gep", IsConst(Here.ops[2]), NEW asks,
         IsAsks(asks), DOMAIN asks = {1, 2}, asks[1] = Get(Here.ops[1]), asks[2] = Get(Self),
         NEW n \in Int, n = Here.ops[2][2] * Here.attr[1],
         Handle(asks, <<Plain("ADDI", Register(asks, 2), Register(asks, 1), 0, n)>>)
  PROVE  Coded
<1> DEFINE x == Here.ops[1]
<1>1. Needed(Here) = {x}
  BY HereIs, NeededValues DEF Proceeding
<1>2. MeansOf(x, "ADDI", FALSE, n)
  <2>1. ASSUME NEW g, NEW d, NEW r, g[Len(g)] = Instruction("ADDI", d, r, 0, n), Frame(g, Here),
               IsNumberOf(valueToVReg', Self, d), IsNumberOf(valueToVReg', x, r)
        PROVE  Means(valueToVReg', g, Here, Self)
    <3>1. MeansAddress(valueToVReg', g, Here, Self)
      BY <2>1, Zenon DEF MeansAddress
    <3> QED
      BY <2>1, <3>1, AddressIs
  <2> HIDE DEF x
  <2> QED
    BY <2>1 DEF MeansOf
<1>3. Handle(asks, <<Plain("ADDI", Register(asks, 2), Register(asks, 1),
                           IF FALSE THEN Register(asks, 1) ELSE 0, n)>>)
  OBVIOUS
<1>4. /\ asks[2] = Get(Self) /\ asks[1] = Get(x) /\ x \in OnlyGotten(Here)
      /\ ~Kernel!Stores(Here) /\ ~Kernel!Ends(Here) /\ Here.op \notin {"icmp", "br"}
  BY AddressIs
<1>5. IsMove(x, asks, 2, 1, "ADDI", FALSE, n)
  <2>1. "ADDI" \in {"LDR", "ADDI", "ADD"} /\ FALSE \in BOOLEAN /\ {2, 1} = {1, 2}
    OBVIOUS
  <2> HIDE DEF x
  <2> QED
    BY <1>1, <1>2, <1>3, <1>4, <2>1, Zenon DEF IsMove
<1> QED
  BY <1>5, MoveCoded

\* The asks for an address with an index that is not constant.
IsIndexed(asks) ==
  /\ IsAsks(asks) /\ {1, 2, 3} \subseteq DOMAIN asks
  /\ asks[1] = Get(Here.ops[1]) /\ asks[2] = Get(Self) /\ asks[3] = Materialize(Here.ops[2])

LEMMA IndexedAsks ==
  ASSUME Proceeding, Here.op = "gep", ~IsConst(Here.ops[2]), NEW asks, IsIndexed(asks), Record(asks)
  PROVE  /\ \A v \in Needed(Here) : \E k \in DOMAIN asks : asks[k].value = v
         /\ \A k \in {1, 2, 3} : AskIsFor(asks, k, Needed(Here), Self)
         /\ asks[2].value = Self
         /\ 1 \in Readable(asks, Needed(Here)) /\ 3 \in Readable(asks, Needed(Here))
         /\ IsNumberOf(valueToVReg', Self, Register(asks, 2))
         /\ IsNumberOf(valueToVReg', Here.ops[1], Register(asks, 1))
         /\ IsNumberOf(valueToVReg', Here.ops[2], Register(asks, 3))
<1> DEFINE x == Here.ops[1]
           y == Here.ops[2]
<1>1. Needed(Here) = {x, y}
  BY HereIs, NeededValues DEF Proceeding
<1>2. x \in OnlyGotten(Here)
  BY AddressIs
<1> HIDE DEF x, y
<1>3. /\ IsAsks(asks) /\ {1, 2, 3} \subseteq DOMAIN asks
      /\ asks[1] = Get(x) /\ asks[2] = Get(Self) /\ asks[3] = Materialize(y)
  BY DEF IsIndexed, x, y
<1>4. /\ asks[1].value = x /\ asks[2].value = Self /\ asks[3].value = y
      /\ x # Temporary /\ y # Temporary /\ Self # Temporary
  BY <1>1, <1>3, NeedsHere DEF Get, Materialize
<1>5. \A k \in {1, 2, 3} : AskIsFor(asks, k, Needed(Here), Self)
  BY <1>1, <1>2, <1>3, AskIs, NeedsHere
<1>6. 1 \in Readable(asks, Needed(Here)) /\ 3 \in Readable(asks, Needed(Here))
  BY <1>1, <1>3, <1>4 DEF Readable
<1>7. /\ IsNumberOf(valueToVReg', Self, Register(asks, 2))
      /\ IsNumberOf(valueToVReg', x, Register(asks, 1))
      /\ IsNumberOf(valueToVReg', y, Register(asks, 3))
  BY <1>3, <1>4, HereIs, Answers DEF Proceeding
<1> QED
  BY <1>1, <1>3, <1>4, <1>5, <1>6, <1>7 DEF x, y

LEMMA IndexCoded ==
  ASSUME Proceeding, Here.op = "gep", ~IsConst(Here.ops[2]), Here.attr[1] = 1,
         NEW asks, DOMAIN asks = {1, 2, 3}, IsIndexed(asks),
         Handle(asks, <<Plain("ADD", Register(asks, 2), Register(asks, 1), Register(asks, 3), 0)>>)
  PROVE  Coded
<1> DEFINE own == <<Plain("ADD", Register(asks, 2), Register(asks, 1), Register(asks, 3), 0)>>
           g == Pushed(asks, own)
           mi == Instruction("ADD", Register(asks, 2), Register(asks, 1), Register(asks, 3), 0)
<1>1. Record(asks) /\ IsAsks(asks)
  BY DEF Handle, IsIndexed
<1>2. /\ \A v \in Needed(Here) : \E k \in DOMAIN asks : asks[k].value = v
      /\ \A k \in DOMAIN asks : AskIsFor(asks, k, Needed(Here), Self)
      /\ asks[2].value = Self
      /\ {1, 3} \subseteq Readable(asks, Needed(Here))
      /\ IsNumberOf(valueToVReg', Self, Register(asks, 2))
      /\ IsNumberOf(valueToVReg', Here.ops[1], Register(asks, 1))
      /\ IsNumberOf(valueToVReg', Here.ops[2], Register(asks, 3))
  BY <1>1, IndexedAsks
<1>3. AsksFor(asks, Needed(Here), Self)
  BY <1>2, AsksForHere
<1>4. GroupOk(valueToVReg', nextVReg', g, Needed(Here), Self) /\ EndsIn(g, mi, asks)
  <2>1. {Register(asks, 1), Register(asks, 3)} \subseteq
          {VREG_ZERO} \cup {Register(asks, i) : i \in Readable(asks, Needed(Here))}
    BY <1>2
  <2> QED
    BY <1>1, <1>2, <1>3, <2>1, OnePlain
<1>5. Means(valueToVReg', g, Here, Self)
  <2>1. mi.op = "ADD" /\ g[Len(g)] = mi
    BY <1>4, InstructionFields DEF EndsIn
  <2> HIDE DEF mi, g
  <2>2. Frame(g, Here)
    BY <1>4, <2>1, AddressIs, FrameOfOne
  <2>3. MeansAddress(valueToVReg', g, Here, Self)
    <3> DEFINE d == Register(asks, 2)
               x == Register(asks, 1)
               y == Register(asks, 3)
    <3>1. /\ IsNumberOf(valueToVReg', Self, d) /\ IsNumberOf(valueToVReg', Here.ops[1], x)
          /\ IsNumberOf(valueToVReg', Here.ops[2], y)
          /\ g[Len(g)] = Instruction("ADD", d, x, y, 0)
      BY <1>2, <2>1 DEF mi
    <3> HIDE DEF d, x, y
    <3> QED
      BY <3>1 DEF MeansAddress
  <2> QED
    BY <2>2, <2>3, AddressIs
<1>6. \E S : own \in Seq(S)
  BY IsSequence, Zenon
<1> HIDE DEF g
<1> QED
  BY <1>1, <1>3, <1>4, <1>5, <1>6, IsCoded DEF g

\* What instructions read.
LEMMA ReadsOf ==
  \A op, rd, rs1, rs2, imm :
    LET mi == Instruction(op, rd, rs1, rs2, imm)
    IN  /\ op \in {"ADD", "SUB", "MUL", "CMP", "STR"} => RegistersRead(mi) = {rs1, rs2}
        /\ op \in {"ADDI", "LDR"} => RegistersRead(mi) = {rs1}
        /\ op \in {"S2R", "BR", "EXIT", "SYNC", "SSY"} => RegistersRead(mi) = {}
        /\ Writes(mi) <=> op \in {"ADD", "SUB", "MUL", "ADDI", "LDR", "S2R"}
<1> SUFFICES ASSUME NEW op, NEW rd, NEW rs1, NEW rs2, NEW imm
             PROVE  LET mi == Instruction(op, rd, rs1, rs2, imm)
                    IN  /\ op \in {"ADD", "SUB", "MUL", "CMP", "STR"} => RegistersRead(mi) = {rs1, rs2}
                        /\ op \in {"ADDI", "LDR"} => RegistersRead(mi) = {rs1}
                        /\ op \in {"S2R", "BR", "EXIT", "SYNC", "SSY"} => RegistersRead(mi) = {}
                        /\ Writes(mi) <=> op \in {"ADD", "SUB", "MUL", "ADDI", "LDR", "S2R"}
  OBVIOUS
<1> DEFINE mi == Instruction(op, rd, rs1, rs2, imm)
<1>1. mi.op = op /\ mi.rd = rd /\ mi.rs1 = rs1 /\ mi.rs2 = rs2 /\ mi.imm = imm
  BY InstructionFields
<1> HIDE DEF mi
<1>2. /\ op \in {"ADD", "SUB", "MUL", "CMP", "STR"} => RegistersRead(mi) = {rs1, rs2}
      /\ op \in {"ADDI", "LDR"} => RegistersRead(mi) = {rs1}
      /\ op \in {"S2R", "BR", "EXIT", "SYNC", "SSY"} => RegistersRead(mi) = {}
  BY <1>1 DEF RegistersRead, ThreeRegister
<1>3. Writes(mi) <=> op \in {"ADD", "SUB", "MUL", "ADDI", "LDR", "S2R"}
  BY <1>1 DEF Writes, WritingOps, ThreeRegister
<1> QED
  BY <1>2, <1>3 DEF mi

LEMMA StrideCoded ==
  ASSUME Proceeding, Here.op = "gep", ~IsConst(Here.ops[2]),
         NEW asks, DOMAIN asks = {1, 2, 3, 4, 5}, IsIndexed(asks),
         asks[4] = Fresh, asks[5] = Number(Here.attr[1]),
         Handle(asks, <<Plain("MUL", Register(asks, 4), Register(asks, 3), Register(asks, 5), 0),
                        Plain("ADD", Register(asks, 2), Register(asks, 1), Register(asks, 4), 0)>>)
  PROVE  Coded
<1> DEFINE own == <<Plain("MUL", Register(asks, 4), Register(asks, 3), Register(asks, 5), 0),
                    Plain("ADD", Register(asks, 2), Register(asks, 1), Register(asks, 4), 0)>>
           mul == Instruction("MUL", Register(asks, 4), Register(asks, 3), Register(asks, 5), 0)
           sum == Instruction("ADD", Register(asks, 2), Register(asks, 1), Register(asks, 4), 0)
           g == Pushed(asks, own)
           size == Here.attr[1]
<1>1. Record(asks) /\ IsAsks(asks) /\ Numbered /\ Valued /\ nextVReg' <= FieldSize
  BY HereIs DEF Handle, IsIndexed, Proceeding
<1>2. /\ \A v \in Needed(Here) : \E k \in DOMAIN asks : asks[k].value = v
      /\ \A k \in {1, 2, 3} : AskIsFor(asks, k, Needed(Here), Self)
      /\ asks[2].value = Self
      /\ 1 \in Readable(asks, Needed(Here)) /\ 3 \in Readable(asks, Needed(Here))
      /\ IsNumberOf(valueToVReg', Self, Register(asks, 2))
      /\ IsNumberOf(valueToVReg', Here.ops[1], Register(asks, 1))
      /\ IsNumberOf(valueToVReg', Here.ops[2], Register(asks, 3))
  BY <1>1, IndexedAsks
<1>3. /\ asks[4].value = Temporary /\ asks[4].fill = <<>>
      /\ asks[5].value = Temporary /\ asks[5].fill = <<size>>
      /\ size \in Int
  <2>1. size \in Int
    <3>1. size \in Nat \ {0}
      BY AddressIs, Zenon
    <3>2. \A k \in Nat \ {0} : k \in Int
      OBVIOUS
    <3> QED
      BY <3>1, <3>2, Zenon
  <2> HIDE DEF size
  <2>2. asks[5] = Number(size)
    BY DEF size
  <2>3. asks[5].value = Temporary /\ asks[5].fill = <<size>>
    BY <2>2 DEF Number
  <2> QED
    BY <2>1, <2>3 DEF Fresh
<1>4. AsksFor(asks, Needed(Here), Self)
  <2>1. AskIsFor(asks, 4, Needed(Here), Self) /\ AskIsFor(asks, 5, Needed(Here), Self)
    BY <1>3, AskIs
  <2>2. \A k \in DOMAIN asks : AskIsFor(asks, k, Needed(Here), Self)
    BY <1>2, <2>1
  <2> QED
    BY <1>2, <2>2, AsksForHere
<1>5. /\ Plain("MUL", Register(asks, 4), Register(asks, 3), Register(asks, 5), 0) = mul
      /\ Plain("ADD", Register(asks, 2), Register(asks, 1), Register(asks, 4), 0) = sum
  <2>1. \A k \in DOMAIN asks : Register(asks, k) \in Nat /\ Register(asks, k) < FieldSize
    BY <1>1, Answers
  <2> QED
    BY <2>1, PlainIs
<1>6. /\ mul.op = "MUL" /\ mul.rd = Register(asks, 4) /\ Writes(mul)
      /\ RegistersRead(mul) = {Register(asks, 3), Register(asks, 5)}
      /\ sum.op = "ADD" /\ sum.rd = Register(asks, 2) /\ Writes(sum)
      /\ RegistersRead(sum) = {Register(asks, 1), Register(asks, 4)}
  BY InstructionFields, ReadsOf
<1> HIDE DEF mul, sum, size
<1>7. own[1] = mul /\ own[2] = sum /\ Len(own) = 2
  BY <1>5
<1>8. \E S : own \in Seq(S)
  BY IsSequence, Zenon
<1>9. own = <<Plain("MUL", Register(asks, 4), Register(asks, 3), Register(asks, 5), 0),
              Plain("ADD", Register(asks, 2), Register(asks, 1), Register(asks, 4), 0)>>
  OBVIOUS
<1> HIDE DEF own
<1>10. OwnOk(asks, own, Needed(Here), Self)
  <2> DEFINE to == <<4, 2>>
  <2>1. to[1] = 4 /\ to[2] = 2
    OBVIOUS
  <2> HIDE DEF to
  <2>2. 5 \in Readable(asks, Needed(Here))
    <3>1. <<size>> # <<>>
      OBVIOUS
    <3>2. 5 \in DOMAIN asks /\ asks[5].value = Temporary /\ asks[5].fill # <<>>
      BY <1>3, <3>1
    <3> QED
      BY <3>2, Zenon DEF Readable
  <2>3. Register(asks, 4) \in WrittenBefore(own, 2)
    <3>1. 1 \in 1..(2 - 1)
      OBVIOUS
    <3> QED
      BY <1>6, <1>7, <3>1 DEF WrittenBefore
  <2>4. IsWriter(asks, own, Needed(Here), Self, to, 1)
    BY <1>2, <1>3, <1>6, <1>7, <2>1, <2>2 DEF IsWriter
  <2>5. IsWriter(asks, own, Needed(Here), Self, to, 2)
    BY <1>2, <1>6, <1>7, <2>1, <2>3 DEF IsWriter
  <2>6. \A e \in 1..Len(own) : e = 1 \/ e = 2
    BY <1>7
  <2>7. \A d, e \in 1..Len(own) : d < e => to[d] # to[e]
    BY <1>7, <2>1
  <2>8. \A e \in 1..Len(own) : IsWriter(asks, own, Needed(Here), Self, to, e)
    BY <2>4, <2>5, <2>6
  <2>9. Len(own) \in Nat
    BY <1>7
  <2> QED
    BY <1>1, <1>4, <1>8, <2>7, <2>8, <2>9, OwnOfWriters
<1>11. GroupOk(valueToVReg', nextVReg', g, Needed(Here), Self)
  BY <1>1, <1>4, <1>10, PushedOk
<1>12. PICK m \in Nat : Laid(g, m, asks, own)
  BY <1>1, <1>8, PushedIsLaid
<1> HIDE DEF g
<1>13. Frame(g, Here)
  <2>1. Len(own) # 0 /\ \A e \in 1..Len(own) : own[e].op \notin {"BR", "CMP", "STR", "EXIT"}
    BY <1>6, <1>7
  <2>2. Here.op \notin {"icmp", "br"} /\ ~Kernel!Stores(Here) /\ ~Kernel!Ends(Here)
    BY AddressIs
  <2> QED
    BY <1>12, <2>1, <2>2, FrameOfOwn
<1>14. MeansAddress(valueToVReg', g, Here, Self)
  <2> DEFINE d == Register(asks, 2)
             x == Register(asks, 1)
             y == Register(asks, 3)
             t == Register(asks, 4)
             s == Register(asks, 5)
  <2>1. Len(g) = m + 2 /\ g[m + 1] = mul /\ g[m + 2] = sum
    BY <1>7, <1>12 DEF Laid
  <2>2. Len(g) - 1 = m + 1 /\ Len(g) = m + 2 /\ Len(g) - 2 = m
    BY <2>1
  <2>3. \E e \in 1..m : g[e] = Fill(s, size)
    <3>1. Brings(asks, 5)
      BY <1>3 DEF Brings, IsNew
    <3>2. \E e \in 1..m : g[e] = Fill(Register(asks, 5), asks[5].fill[1])
      BY <1>12, <3>1 DEF Laid
    <3> QED
      BY <1>3, <3>2
  <2>4. /\ IsNumberOf(valueToVReg', Self, d) /\ IsNumberOf(valueToVReg', Here.ops[1], x)
        /\ IsNumberOf(valueToVReg', Here.ops[2], y)
        /\ g[Len(g)] = Instruction("ADD", d, x, t, 0)
        /\ g[Len(g) - 1] = Instruction("MUL", t, y, s, 0)
    BY <1>2, <2>1, <2>2 DEF mul, sum
  <2>5. \E e \in 1..(Len(g) - 2) : g[e] = Fill(s, size)
    BY <2>2, <2>3
  <2> HIDE DEF d, x, y, t, s
  <2>6. \E e \in 1..(Len(g) - 2) : \E u, v :
          /\ g[e] = Fill(u, size)
          /\ g[Len(g) - 1] = Instruction("MUL", v, y, u, 0)
          /\ g[Len(g)] = Instruction("ADD", d, x, v, 0)
    BY <2>4, <2>5, Zenon
  <2> QED
    BY <2>4, <2>6, Zenon DEF MeansAddress, size
<1>15. Means(valueToVReg', g, Here, Self)
  BY <1>13, <1>14, AddressIs
<1> QED
  BY <1>1, <1>4, <1>8, <1>9, <1>11, <1>15, IsCoded DEF g

LEMMA AddressCoded == ASSUME Proceeding, SelectGEP PROVE Coded
<1> DEFINE base    == Here.ops[1]
           indices == Tail(Here.ops)
           size    == Here.attr[1]
           products == [k \in DOMAIN indices |-> indices[k][2] * Here.attr[k]]
           offset  == FoldFunctionOnSet(+, 0, products, DOMAIN indices)
           addresses == <<Get(base), Get(Self)>>
           one    == <<Get(base), Get(Self), Materialize(Last(indices))>>
           scaled == <<Get(base), Get(Self), Materialize(Last(indices)), Fresh, Number(size)>>
<1>1. /\ Here.op = "gep"
      /\ \/ /\ \A k \in DOMAIN indices : IsConst(indices[k])
            /\ Handle(addresses, <<Plain("ADDI", Registers(addresses)[2], Registers(addresses)[1], 0, offset)>>)
         \/ /\ ~(\A k \in DOMAIN indices : IsConst(indices[k])) /\ size <= 1
            /\ Handle(one, <<Plain("ADD", Registers(one)[2], Registers(one)[1], Registers(one)[3], 0)>>)
         \/ /\ ~(\A k \in DOMAIN indices : IsConst(indices[k])) /\ size > 1
            /\ Handle(scaled, <<Plain("MUL", Registers(scaled)[4], Registers(scaled)[3], Registers(scaled)[5], 0),
                                Plain("ADD", Registers(scaled)[2], Registers(scaled)[1], Registers(scaled)[4], 0)>>)
  BY Zenon DEF SelectGEP, Selecting
<1>2. indices = <<Here.ops[2]>>
  BY <1>1, HereIs, NeededValues DEF Proceeding
<1>3. DOMAIN indices = {1} /\ indices[1] = Here.ops[2] /\ Last(indices) = Here.ops[2]
  <2> DEFINE y == Here.ops[2]
  <2>1. \A v : DOMAIN <<v>> = {1} /\ <<v>>[1] = v /\ <<v>>[Len(<<v>>)] = v
    OBVIOUS
  <2> HIDE DEF indices, y
  <2>2. indices = <<y>>
    BY <1>2 DEF y
  <2>3. DOMAIN indices = {1} /\ indices[1] = y /\ Last(indices) = y
    BY <2>1, <2>2 DEF Last
  <2> QED
    BY <2>3 DEF y
<1>4. (\A k \in DOMAIN indices : IsConst(indices[k])) <=> IsConst(Here.ops[2])
  BY <1>3
<1>5. size \in Nat \ {0} /\ (IsConst(Here.ops[2]) => Here.ops[2][2] \in Int)
  BY <1>1, AddressIs
<1>6. /\ IsAsks(addresses) /\ DOMAIN addresses = {1, 2}
      /\ addresses[1] = Get(base) /\ addresses[2] = Get(Self)
  BY HandlersAsk, ListsOf, Zenon
<1>7. DOMAIN one = {1, 2, 3} /\ IsIndexed(one)
  <2>1. IsAsks(one)
    BY HandlersAsk, Zenon
  <2> DEFINE a == Get(base)  b == Get(Self)  c == Materialize(Last(indices))
  <2> HIDE DEF a, b, c
  <2>2. DOMAIN <<a, b, c>> = {1, 2, 3} /\ <<a, b, c>>[1] = a /\ <<a, b, c>>[2] = b /\ <<a, b, c>>[3] = c
    OBVIOUS
  <2>3. {1, 2, 3} \subseteq {1, 2, 3}
    OBVIOUS
  <2> USE DEF a, b, c
  <2> QED
    BY <1>3, <2>1, <2>2, <2>3 DEF IsIndexed
<1>8. /\ DOMAIN scaled = {1, 2, 3, 4, 5} /\ IsIndexed(scaled)
      /\ scaled[4] = Fresh /\ scaled[5] = Number(size)
  <2>1. IsAsks(scaled)
    BY HandlersAsk, Zenon
  <2> DEFINE a == Get(base)  b == Get(Self)  c == Materialize(Last(indices))  d == Fresh  e == Number(size)
  <2> HIDE DEF a, b, c, d, e
  <2>2. /\ DOMAIN <<a, b, c, d, e>> = {1, 2, 3, 4, 5}
        /\ <<a, b, c, d, e>>[1] = a /\ <<a, b, c, d, e>>[2] = b /\ <<a, b, c, d, e>>[3] = c
        /\ <<a, b, c, d, e>>[4] = d /\ <<a, b, c, d, e>>[5] = e
    OBVIOUS
  <2>3. {1, 2, 3} \subseteq {1, 2, 3, 4, 5}
    OBVIOUS
  <2> USE DEF a, b, c, d, e
  <2> QED
    BY <1>3, <2>1, <2>2, <2>3 DEF IsIndexed
<1>9. IsConst(Here.ops[2]) => offset = Here.ops[2][2] * size /\ offset \in Int
  <2> SUFFICES ASSUME IsConst(Here.ops[2]) PROVE offset = Here.ops[2][2] * size /\ offset \in Int
    OBVIOUS
  <2>1. products[1] = Here.ops[2][2] * size /\ products[1] \in Int
    BY <1>3, <1>5
  <2> HIDE DEF products, size
  <2>2. FoldFunctionOnSet(+, 0, products, {1}) = products[1]
    BY <2>1, FoldOfOne
  <2>3. offset = products[1]
    BY <1>3, <2>2
  <2> QED
    BY <2>1, <2>3
<1> HIDE DEF offset, addresses, one, scaled
<1>10. CASE /\ IsConst(Here.ops[2])
            /\ Handle(addresses, <<Plain("ADDI", Registers(addresses)[2], Registers(addresses)[1], 0, offset)>>)
  <2>1. Registers(addresses)[1] = Register(addresses, 1) /\ Registers(addresses)[2] = Register(addresses, 2)
    BY <1>6 DEF Registers
  <2>2. Handle(addresses, <<Plain("ADDI", Register(addresses, 2), Register(addresses, 1), 0, offset)>>)
    BY <1>10, <2>1
  <2> QED
    BY <1>1, <1>6, <1>9, <1>10, <2>2, OffsetCoded
<1>11. CASE /\ ~IsConst(Here.ops[2]) /\ size <= 1
            /\ Handle(one, <<Plain("ADD", Registers(one)[2], Registers(one)[1], Registers(one)[3], 0)>>)
  <2>1. /\ Registers(one)[1] = Register(one, 1) /\ Registers(one)[2] = Register(one, 2)
        /\ Registers(one)[3] = Register(one, 3)
    BY <1>7 DEF Registers
  <2>2. Handle(one, <<Plain("ADD", Register(one, 2), Register(one, 1), Register(one, 3), 0)>>)
    BY <1>11, <2>1
  <2>3. Here.attr[1] = 1
    BY <1>5, <1>11
  <2> QED
    BY <1>1, <1>7, <1>11, <2>2, <2>3, IndexCoded
<1>12. CASE /\ ~IsConst(Here.ops[2]) /\ size > 1
            /\ Handle(scaled, <<Plain("MUL", Registers(scaled)[4], Registers(scaled)[3], Registers(scaled)[5], 0),
                                Plain("ADD", Registers(scaled)[2], Registers(scaled)[1], Registers(scaled)[4], 0)>>)
  <2>1. \A k \in {1, 2, 3, 4, 5} : Registers(scaled)[k] = Register(scaled, k)
    BY <1>8 DEF Registers
  <2>2. Handle(scaled, <<Plain("MUL", Register(scaled, 4), Register(scaled, 3), Register(scaled, 5), 0),
                         Plain("ADD", Register(scaled, 2), Register(scaled, 1), Register(scaled, 4), 0)>>)
    BY <1>12, <2>1
  <2> QED
    BY <1>1, <1>8, <1>12, <2>2, StrideCoded
<1> QED
  BY <1>1, <1>4, <1>10, <1>11, <1>12

\* A global id.
LEMMA NumberMeans ==
  ASSUME Proceeding, IsGlobalId(Here)
  PROVE  /\ Needed(Here) = {} /\ Here.op \notin {"icmp", "br"}
         /\ ~Kernel!Stores(Here) /\ ~Kernel!Ends(Here)
         /\ Dimension = Here.ops[1][2] /\ Dimension \in Int
         /\ LocalIdRegister(Dimension) \in TID_X..BID_Y
         /\ GroupIdRegister(Dimension) \in TID_X..BID_Y
         /\ \A g : Frame(g, Here) /\ MeansGlobalId(valueToVReg', g, Here, Self)
                   => Means(valueToVReg', g, Here, Self)
<1>1. /\ Here.op = "call" /\ Here.form = "get_global_id"
      /\ ~IsLoad(Here) /\ ~Kernel!Stores(Here) /\ ~Kernel!Ends(Here) /\ ~ReadsRegister(Here)
  BY Apart DEF IsGlobalId
<1>2. Needed(Here) = {}
  BY <1>1, HereIs, NeededValues DEF Proceeding
<1>3. Dimension = Here.ops[1][2] /\ Dimension \in Int
  BY <1>1, DimensionIs DEF DimensionCalls
<1>4. LocalIdRegister(Dimension) \in TID_X..BID_Y /\ GroupIdRegister(Dimension) \in TID_X..BID_Y
  BY DEF LocalIdRegister, GroupIdRegister, TID_X, TID_Y, BID_X, BID_Y
<1>5. \A g : Frame(g, Here) /\ MeansGlobalId(valueToVReg', g, Here, Self)
             => Means(valueToVReg', g, Here, Self)
  BY <1>1 DEF Means
<1> QED
  BY <1>1, <1>2, <1>3, <1>4, <1>5

IsNumbering(asks) ==
  /\ IsAsks(asks) /\ DOMAIN asks = {1, 2, 3, 4} /\ Record(asks)
  /\ asks[1] = Fresh /\ asks[2] = Fresh /\ asks[3] = Fresh /\ asks[4] = Get(Self)

\* The two reads, then n more instructions.
NumberReads(asks, own) ==
  /\ own[1] = Instruction("S2R", Register(asks, 1), 0, 0, LocalIdRegister(Dimension))
  /\ own[2] = Instruction("S2R", Register(asks, 2), 0, 0, GroupIdRegister(Dimension))

AddsTo(mi, rd, rs1, rs2) ==
  mi.op = "ADD" /\ mi.rd = rd /\ Writes(mi) /\ RegistersRead(mi) = {rs1, rs2}

LEMMA AddsRead ==
  ASSUME NEW rd, NEW rs1, NEW rs2, NEW mi, mi = Instruction("ADD", rd, rs1, rs2, 0)
  PROVE  AddsTo(mi, rd, rs1, rs2)
  BY InstructionFields, ReadsOf DEF AddsTo

ReadsTo(mi, rd) ==
  mi.op = "S2R" /\ mi.rd = rd /\ Writes(mi) /\ RegistersRead(mi) = {} /\ mi.imm \in TID_X..BID_Y

LEMMA ReadsIntoRegister ==
  ASSUME NEW rd, NEW n \in TID_X..BID_Y, NEW mi, mi = Instruction("S2R", rd, 0, 0, n)
  PROVE  ReadsTo(mi, rd)
  BY InstructionFields, ReadsOf DEF ReadsTo

LEMMA NumberCoded ==
  ASSUME Proceeding, IsGlobalId(Here), NEW asks, IsNumbering(asks),
         NEW own, \E S : own \in Seq(S), Handle(asks, own), NumberReads(asks, own),
         \/ /\ Dimension = 0 /\ Len(own) = 4
            /\ own[3] = Instruction("ADD", Register(asks, 3), Register(asks, 2), Register(asks, 2), 0)
            /\ own[4] = Instruction("ADD", Register(asks, 4), Register(asks, 3), Register(asks, 1), 0)
         \/ /\ Dimension # 0 /\ Len(own) = 3
            /\ own[3] = Instruction("ADD", Register(asks, 4), Register(asks, 2), Register(asks, 1), 0)
  PROVE  Coded
<1> DEFINE n == Len(own)
           g == Pushed(asks, own)
           to == [e \in 1..n |-> IF e = n THEN 4 ELSE e]
<1>1. /\ Record(asks) /\ IsAsks(asks) /\ Numbered /\ Valued /\ nextVReg' <= FieldSize
      /\ DOMAIN asks = {1, 2, 3, 4}
  BY HereIs DEF IsNumbering, Proceeding
<1>2. /\ \A k \in {1, 2, 3} : asks[k].value = Temporary /\ asks[k].fill = <<>>
      /\ asks[4].value = Self /\ asks[4].fill = <<>>
  BY DEF IsNumbering, Fresh, Get
<1>3. AsksFor(asks, Needed(Here), Self)
  <2>1. \A k \in DOMAIN asks : AskIsFor(asks, k, Needed(Here), Self)
    <3>1. asks[4] = Get(Self) /\ \A k \in {1, 2, 3} : asks[k] = Fresh
      BY DEF IsNumbering
    <3> QED
      BY <1>1, <3>1, AskIs
  <2> QED
    BY <1>1, <2>1, NumberMeans, AsksForHere
<1>4. /\ n \in {3, 4} /\ (n = 4 <=> Dimension = 0)
      /\ \A e \in {1, 2} : /\ own[e].op = "S2R" /\ own[e].rd = Register(asks, e) /\ Writes(own[e])
                           /\ RegistersRead(own[e]) = {} /\ own[e].imm \in TID_X..BID_Y
      /\ own[n].op = "ADD" /\ own[n].rd = Register(asks, 4) /\ Writes(own[n])
      /\ n = 3 => RegistersRead(own[3]) = {Register(asks, 2), Register(asks, 1)}
      /\ n = 4 => /\ own[3].op = "ADD" /\ own[3].rd = Register(asks, 3) /\ Writes(own[3])
                  /\ RegistersRead(own[3]) = {Register(asks, 2)}
                  /\ RegistersRead(own[4]) = {Register(asks, 3), Register(asks, 1)}
  <2>1. n \in {3, 4} /\ (n = 4 <=> Dimension = 0)
    <3>1. 3 # 4
      OBVIOUS
    <3> QED
      BY <3>1, Zenon
  <2>2. \A e \in {1, 2} : /\ own[e].op = "S2R" /\ own[e].rd = Register(asks, e) /\ Writes(own[e])
                          /\ RegistersRead(own[e]) = {} /\ own[e].imm \in TID_X..BID_Y
    <3>1. /\ LocalIdRegister(Dimension) \in TID_X..BID_Y
          /\ GroupIdRegister(Dimension) \in TID_X..BID_Y
      BY NumberMeans, Zenon
    <3>2. ReadsTo(own[1], Register(asks, 1)) /\ ReadsTo(own[2], Register(asks, 2))
      BY <3>1, ReadsIntoRegister, Zenon DEF NumberReads
    <3> QED
      BY <3>2, Zenon DEF ReadsTo
  <2>3. CASE Dimension = 0
    <3>1. /\ n = 4
          /\ own[3] = Instruction("ADD", Register(asks, 3), Register(asks, 2), Register(asks, 2), 0)
          /\ own[4] = Instruction("ADD", Register(asks, 4), Register(asks, 3), Register(asks, 1), 0)
      BY <2>3
    <3> HIDE DEF n
    <3>2. /\ AddsTo(own[3], Register(asks, 3), Register(asks, 2), Register(asks, 2))
          /\ AddsTo(own[4], Register(asks, 4), Register(asks, 3), Register(asks, 1))
      BY <3>1, AddsRead, Zenon
    <3>3. n # 3 /\ {Register(asks, 2), Register(asks, 2)} = {Register(asks, 2)}
      BY <3>1
    <3> QED
      BY <2>1, <2>2, <3>1, <3>2, <3>3, Zenon DEF AddsTo
  <2>4. CASE Dimension # 0
    <3>1. /\ n = 3
          /\ own[3] = Instruction("ADD", Register(asks, 4), Register(asks, 2), Register(asks, 1), 0)
      BY <2>4
    <3> HIDE DEF n
    <3>2. AddsTo(own[3], Register(asks, 4), Register(asks, 2), Register(asks, 1))
      BY <3>1, AddsRead, Zenon
    <3>3. n # 4
      BY <3>1
    <3> QED
      BY <2>1, <2>2, <3>1, <3>2, <3>3, Zenon DEF AddsTo
  <2> QED
    BY <2>3, <2>4
<1>5. /\ n = 4 => /\ own[3] = Instruction("ADD", Register(asks, 3), Register(asks, 2), Register(asks, 2), 0)
                  /\ own[4] = Instruction("ADD", Register(asks, 4), Register(asks, 3), Register(asks, 1), 0)
      /\ n = 3 => own[3] = Instruction("ADD", Register(asks, 4), Register(asks, 2), Register(asks, 1), 0)
  <2>1. 3 # 4
    OBVIOUS
  <2> QED
    BY <2>1, Zenon
<1>6. n = Len(own)
  OBVIOUS
<1> HIDE DEF n
<1>7. /\ to[1] = 1 /\ to[2] = 2 /\ to[n] = 4 /\ (n = 4 => to[3] = 3)
  BY <1>4
<1> HIDE DEF to
<1>8. OwnOk(asks, own, Needed(Here), Self)
  <2>1. /\ Register(asks, 1) \in WrittenBefore(own, 3) /\ Register(asks, 2) \in WrittenBefore(own, 3)
        /\ n = 4 => Register(asks, 1) \in WrittenBefore(own, 4) /\ Register(asks, 3) \in WrittenBefore(own, 4)
    <3>1. \A e, d : e \in 1..(d - 1) /\ Writes(own[e]) => own[e].rd \in WrittenBefore(own, d)
      BY DEF WrittenBefore
    <3>2. 1 \in 1..(3 - 1) /\ 2 \in 1..(3 - 1) /\ 1 \in 1..(4 - 1) /\ 3 \in 1..(4 - 1)
      OBVIOUS
    <3> QED
      BY <1>4, <3>1, <3>2
  <2>2. \A e \in {1, 2} : IsWriter(asks, own, Needed(Here), Self, to, e)
    BY <1>1, <1>2, <1>4, <1>6, <1>7 DEF IsWriter
  <2>3. n = 4 => IsWriter(asks, own, Needed(Here), Self, to, 3)
    BY <1>1, <1>2, <1>4, <1>6, <1>7, <2>1 DEF IsWriter
  <2>4. IsWriter(asks, own, Needed(Here), Self, to, n)
    BY <1>1, <1>2, <1>4, <1>6, <1>7, <2>1 DEF IsWriter
  <2>5. \A e \in 1..n : e \in {1, 2} \/ e = n \/ (n = 4 /\ e = 3)
    BY <1>4
  <2>6. \A e \in 1..n : IsWriter(asks, own, Needed(Here), Self, to, e)
    BY <2>2, <2>3, <2>4, <2>5
  <2>7. \A d, e \in 1..n : d < e => to[d] # to[e]
    BY <1>4, <1>7
  <2>8. n \in Nat
    BY <1>4
  <2> QED
    BY <1>1, <1>3, <1>6, <2>6, <2>7, <2>8, OwnOfWriters
<1>9. GroupOk(valueToVReg', nextVReg', g, Needed(Here), Self)
  BY <1>1, <1>3, <1>8, PushedOk
<1>10. PICK m \in Nat : Laid(g, m, asks, own)
  BY <1>1, PushedIsLaid
<1>11. Len(g) = n /\ \A e \in 1..n : g[e] = own[e]
  <2>1. \A k \in DOMAIN asks : ~Brings(asks, k)
    BY <1>1, <1>2 DEF Brings
  <2>2. m = 0 /\ Len(g) = m + n /\ \A e \in 1..n : g[m + e] = own[e]
    BY <1>6, <1>10, <2>1 DEF Laid
  <2>3. \A e \in 1..n : 0 + e = e
    BY <1>4
  <2> QED
    BY <1>4, <2>2, <2>3
<1> HIDE DEF g
<1>12. Frame(g, Here)
  <2>1. \A e \in 1..n : own[e].op \in {"S2R", "ADD"}
    <3>1. \A e \in 1..n : e \in {1, 2} \/ e = n \/ (n = 4 /\ e = 3)
      BY <1>4
    <3> QED
      BY <1>4, <3>1
  <2>2. \A e \in 1..n : own[e].op \notin {"BR", "CMP", "STR", "EXIT"}
    BY <2>1
  <2>3. n # 0
    BY <1>4
  <2> QED
    BY <1>6, <1>10, <2>2, <2>3, NumberMeans, FrameOfOwn
<1>13. MeansGlobalId(valueToVReg', g, Here, Self)
  <2> DEFINE d == Register(asks, 4)
             tid == Register(asks, 1)
             bid == Register(asks, 2)
             s == Register(asks, 3)
             dim == Here.ops[1][2]
  <2>1. IsNumberOf(valueToVReg', Self, d)
    BY <1>1, <1>2, NeedsHere, Answers
  <2>2. Dimension = dim
    BY NumberMeans
  <2>3. /\ 1 \in 1..n /\ 2 \in 1..n /\ 3 \in 1..n /\ (n = 4 => 4 \in 1..n)
    BY <1>4
  <2>4. /\ g[1] = Instruction("S2R", tid, 0, 0, LocalIdRegister(dim))
        /\ g[2] = Instruction("S2R", bid, 0, 0, GroupIdRegister(dim))
    BY <1>11, <2>2, <2>3 DEF NumberReads
  <2>5. \/ /\ dim = 0 /\ Len(g) = 4
           /\ g[3] = Instruction("ADD", s, bid, bid, 0) /\ g[4] = Instruction("ADD", d, s, tid, 0)
        \/ dim # 0 /\ Len(g) = 3 /\ g[3] = Instruction("ADD", d, bid, tid, 0)
    BY <1>4, <1>5, <1>11, <2>2, <2>3
  <2> HIDE DEF d, tid, bid, s
  <2>6. \/ /\ dim = 0 /\ Len(g) = 4
           /\ \E u : g[3] = Instruction("ADD", u, bid, bid, 0) /\ g[4] = Instruction("ADD", d, u, tid, 0)
        \/ dim # 0 /\ Len(g) = 3 /\ g[3] = Instruction("ADD", d, bid, tid, 0)
    BY <2>5
  <2> QED
    BY <2>1, <2>4, <2>6, Zenon DEF MeansGlobalId
<1>14. Means(valueToVReg', g, Here, Self)
  BY <1>12, <1>13, NumberMeans
<1> QED
  BY <1>1, <1>3, <1>9, <1>14, IsCoded DEF g

LEMMA ListsJoin ==
  /\ \A a, b, c, d : <<a, b>> \o <<c, d>> = <<a, b, c, d>>
  /\ \A a, b, c : <<a, b>> \o <<c>> = <<a, b, c>> /\ <<a>> \o <<b, c>> = <<a, b, c>>
<1>1. ASSUME NEW a, NEW b, NEW c, NEW d PROVE <<a, b>> \o <<c, d>> = <<a, b, c, d>>
  <2> DEFINE s == <<a, b>>
             t == <<c, d>>
             u == <<a, b, c, d>>
             S == {a, b, c, d}
  <2>1. s \in Seq(S) /\ t \in Seq(S) /\ u \in Seq(S)
    OBVIOUS
  <2>2. Len(s \o t) = Len(u) /\ \A i \in 1..Len(u) : (s \o t)[i] = u[i]
    OBVIOUS
  <2>3. s \o t \in Seq(S)
    BY <2>1, ConcatProperties
  <2>4. s \o t = u
    <3> HIDE DEF s, t, u, S
    <3> QED
      BY <2>1, <2>2, <2>3, SeqEqual
  <2> QED
    BY <2>4
<1>2. ASSUME NEW a, NEW b, NEW c PROVE <<a, b>> \o <<c>> = <<a, b, c>>
  <2> DEFINE s == <<a, b>>
             t == <<c>>
             u == <<a, b, c>>
             S == {a, b, c}
  <2>1. s \in Seq(S) /\ t \in Seq(S) /\ u \in Seq(S)
    OBVIOUS
  <2>2. Len(s \o t) = Len(u) /\ \A i \in 1..Len(u) : (s \o t)[i] = u[i]
    OBVIOUS
  <2>3. s \o t \in Seq(S)
    BY <2>1, ConcatProperties
  <2>4. s \o t = u
    <3> HIDE DEF s, t, u, S
    <3> QED
      BY <2>1, <2>2, <2>3, SeqEqual
  <2> QED
    BY <2>4
<1>3. ASSUME NEW a, NEW b, NEW c PROVE <<a>> \o <<b, c>> = <<a, b, c>>
  <2> DEFINE s == <<a>>
             t == <<b, c>>
             u == <<a, b, c>>
             S == {a, b, c}
  <2>1. s \in Seq(S) /\ t \in Seq(S) /\ u \in Seq(S)
    OBVIOUS
  <2>2. Len(s \o t) = Len(u) /\ \A i \in 1..Len(u) : (s \o t)[i] = u[i]
    OBVIOUS
  <2>3. s \o t \in Seq(S)
    BY <2>1, ConcatProperties
  <2>4. s \o t = u
    <3> HIDE DEF s, t, u, S
    <3> QED
      BY <2>1, <2>2, <2>3, SeqEqual
  <2> QED
    BY <2>4
<1> QED
  BY <1>1, <1>2, <1>3

LEMMA GlobalIdCoded == ASSUME Proceeding, SelectGlobalId PROVE Coded
<1> DEFINE asks == <<Fresh, Fresh, Fresh, Get(Self)>>
           r == Registers(asks)
           one == Plain("S2R", r[1], 0, 0, LocalIdRegister(Dimension))
           two == Plain("S2R", r[2], 0, 0, GroupIdRegister(Dimension))
           twice == Plain("ADD", r[3], r[2], r[2], 0)
           last == Plain("ADD", r[4], r[3], r[1], 0)
           only == Plain("ADD", r[4], r[2], r[1], 0)
           own == <<one, two>> \o IF Dimension = 0 THEN <<twice, last>> ELSE <<only>>
<1>1. Here.op = "call" /\ Here.form = "get_global_id" /\ Handle(asks, own)
  BY DEF SelectGlobalId, Selecting
<1>2. IsGlobalId(Here)
  BY <1>1 DEF IsGlobalId
<1>3. IsNumbering(asks)
  <2>1. IsAsks(asks) /\ Record(asks)
    BY <1>1, HandlersAsk, Zenon DEF Handle
  <2>2. /\ DOMAIN asks = {1, 2, 3, 4} /\ asks[1] = Fresh /\ asks[2] = Fresh /\ asks[3] = Fresh
        /\ asks[4] = Get(Self)
    <3> DEFINE a == Fresh  b == Get(Self)
    <3> HIDE DEF a, b
    <3>1. /\ DOMAIN <<a, a, a, b>> = {1, 2, 3, 4} /\ <<a, a, a, b>>[1] = a
          /\ <<a, a, a, b>>[2] = a /\ <<a, a, a, b>>[3] = a /\ <<a, a, a, b>>[4] = b
      OBVIOUS
    <3> QED
      BY <3>1, Zenon DEF a, b
  <2> HIDE DEF asks
  <2> QED
    BY <2>1, <2>2 DEF IsNumbering
<1> HIDE DEF asks
<1>4. \A k \in {1, 2, 3, 4} : r[k] = Register(asks, k) /\ r[k] \in Nat /\ r[k] < FieldSize
  BY <1>3, HereIs, Answers DEF IsNumbering, Proceeding
<1> HIDE DEF r
<1>5. /\ one = Instruction("S2R", r[1], 0, 0, LocalIdRegister(Dimension))
      /\ two = Instruction("S2R", r[2], 0, 0, GroupIdRegister(Dimension))
      /\ twice = Instruction("ADD", r[3], r[2], r[2], 0)
      /\ last = Instruction("ADD", r[4], r[3], r[1], 0)
      /\ only = Instruction("ADD", r[4], r[2], r[1], 0)
  <2>1. 0 \in Nat /\ 0 < FieldSize
    BY FieldSizeAssumption
  <2> QED
    BY <1>4, <2>1, PlainIs
<1> HIDE DEF one, two, twice, last, only
<1>6. /\ Dimension = 0 => own = <<one, two, twice, last>>
      /\ Dimension # 0 => own = <<one, two, only>>
  BY ListsJoin
<1>7. /\ own[1] = one /\ own[2] = two
      /\ Dimension = 0 => Len(own) = 4 /\ own[3] = twice /\ own[4] = last
      /\ Dimension # 0 => Len(own) = 3 /\ own[3] = only
  <2> HIDE DEF own
  <2> QED
    BY <1>6
<1>10. \E S : own \in Seq(S)
  <2> HIDE DEF own
  <2>1. (\E S : <<one, two, twice, last>> \in Seq(S)) /\ (\E S : <<one, two, only>> \in Seq(S))
    BY IsSequence
  <2>2. own = <<one, two, twice, last>> \/ own = <<one, two, only>>
    BY <1>6
  <2> QED
    BY <2>1, <2>2, Zenon
<1> HIDE DEF own
<1>8. NumberReads(asks, own)
  BY <1>4, <1>5, <1>7 DEF NumberReads
<1>9. \/ /\ Dimension = 0 /\ Len(own) = 4
         /\ own[3] = Instruction("ADD", Register(asks, 3), Register(asks, 2), Register(asks, 2), 0)
         /\ own[4] = Instruction("ADD", Register(asks, 4), Register(asks, 3), Register(asks, 1), 0)
      \/ /\ Dimension # 0 /\ Len(own) = 3
         /\ own[3] = Instruction("ADD", Register(asks, 4), Register(asks, 2), Register(asks, 1), 0)
  BY <1>4, <1>5, <1>7
<1> QED
  BY <1>1, <1>2, <1>3, <1>10, <1>8, <1>9, NumberCoded

\* Branches.
LEMMA JumpFields ==
  \A cond, b : /\ Jump(cond, b).op = "BR" /\ ~Writes(Jump(cond, b)) /\ RegistersRead(Jump(cond, b)) = {}
               /\ Jump(cond, b).cond = cond /\ Jump(cond, b).labelTarget = BlockName(b)
<1>1. \A cond, b : /\ Jump(cond, b).op = "BR"
                   /\ Jump(cond, b).cond = cond /\ Jump(cond, b).labelTarget = BlockName(b)
  BY DEF Jump, MachineInstruction
<1>2. \A mi : mi.op = "BR" => ~Writes(mi) /\ RegistersRead(mi) = {}
  BY DEF Writes, WritingOps, RegistersRead, ThreeRegister
<1> QED
  BY <1>1, <1>2

LEMMA BranchMeans ==
  ASSUME Proceeding, Here.op = "br"
  PROVE  \A g : Len(g) \in Nat \ {0} /\ MeansBranch(valueToVReg', g, Here)
                => Means(valueToVReg', g, Here, Self)
<1>1. Here.form = ""
  BY HereIs DEF InItsClass
<1>2. ~IsLoad(Here) /\ ~IsGlobalId(Here) /\ ~ReadsRegister(Here) /\ ~Kernel!Stores(Here)
  BY <1>1 DEF IsLoad, IsGlobalId, ReadsRegister, Kernel!Stores
<1> QED
  BY <1>2 DEF Means, Frame

LEMMA AlwaysCoded ==
  ASSUME Proceeding, Here.op = "br", Here.ops = <<>>, Handle(<<>>, <<Jump(ALWAYS, Here.succ[1])>>)
  PROVE  Coded
<1> DEFINE jump == Jump(ALWAYS, Here.succ[1])
           own == <<jump>>
           g == Pushed(<<>>, own)
<1>1. Record(<<>>) /\ Numbered /\ Valued /\ nextVReg' <= FieldSize
  BY HereIs DEF Handle, Proceeding
<1>2. IsAsks(<<>>) /\ DOMAIN <<>> = {}
  BY HandlersAsk
<1>3. Needed(Here) = {}
  BY HereIs, NeededValues DEF Proceeding
<1>4. AsksFor(<<>>, Needed(Here), Self)
  BY <1>2, <1>3, AsksForHere
<1>5. jump.op = "BR" /\ ~Writes(jump) /\ RegistersRead(jump) = {}
  BY JumpFields
<1> HIDE DEF jump
<1>6. OwnOk(<<>>, own, Needed(Here), Self)
  BY <1>1, <1>2, <1>4, <1>5, OwnOfOne
<1>7. (\E S : own \in Seq(S)) /\ own[1] = jump /\ Len(own) = 1
  BY IsSequence
<1> HIDE DEF own
<1>8. GroupOk(valueToVReg', nextVReg', g, Needed(Here), Self)
  BY <1>1, <1>2, <1>4, <1>6, PushedOk
<1>9. PICK m \in Nat : Laid(g, m, <<>>, own)
  BY <1>1, <1>2, <1>7, PushedIsLaid
<1>10. Len(g) = 1 /\ g[1] = jump
  <2>1. m = 0
    BY <1>2, <1>9 DEF Laid
  <2> QED
    BY <1>7, <1>9, <2>1 DEF Laid
<1> HIDE DEF g
<1>11. MeansBranch(valueToVReg', g, Here)
  BY <1>10 DEF MeansBranch, jump
<1>12. Means(valueToVReg', g, Here, Self)
  <2>1. Len(g) \in Nat \ {0}
    BY <1>10
  <2> QED
    BY <1>11, <2>1, BranchMeans, Zenon
<1> QED
  BY <1>2, <1>4, <1>7, <1>8, <1>12, IsCoded DEF g, own, jump

\* The predicate is tested, and one of the two ways taken.
LEMMA TestCoded ==
  ASSUME Proceeding, Here.op = "br", Here.ops # <<>>,
         NEW c, c = InstructionOf(Here.ops[1]),
         NEW asks, DOMAIN asks = {1, 2}, IsAsks(asks),
         asks[1] = Materialize(c.ops[1]), asks[2] = Materialize(c.ops[2]),
         NEW own, own = <<Cmp(Registers(asks)), Jump(BranchCond(c.form), Here.succ[1]),
                          Jump(ALWAYS, Here.succ[2])>>,
         Handle(asks, own)
  PROVE  Coded
<1> DEFINE x == c.ops[1]
           y == c.ops[2]
           cmp == Instruction("CMP", 0, Register(asks, 1), Register(asks, 2), 0)
           yes == Jump(BranchCond(c.form), Here.succ[1])
           no == Jump(ALWAYS, Here.succ[2])
           g == Pushed(asks, own)
<1>1. Record(asks) /\ Numbered /\ Valued /\ nextVReg' <= FieldSize
  BY HereIs DEF Handle, Proceeding
<1>2. Needed(Here) = {x, y}
  <2>1. Needed(Here) = Range(c.ops)
    BY HereIs, NeededValues DEF Proceeding
  <2>2. kernel \in Kernels /\ Supported
    BY HereIs DEF Proceeding
  <2>3. PICK b \in Blocks : \E i \in DOMAIN CodeOf(b) : c = CodeOf(b)[i] /\ c.op = "icmp"
    <3> DEFINE v == Here.ops[1]
    <3>1. /\ v[2] \in Blocks /\ v[3] \in DOMAIN CodeOf(v[2])
          /\ CodeOf(v[2])[v[3]].op = "icmp" /\ InstructionOf(v) = CodeOf(v[2])[v[3]]
      <4>1. /\ position[1] \in Blocks /\ position[2] \in DOMAIN CodeOf(position[1])
            /\ Here = CodeOf(position[1])[position[2]]
        BY HereIs, Zenon
      <4> HIDE DEF v
      <4>2. v = CodeOf(position[1])[position[2]].ops[1]
        BY <4>1, Zenon DEF v
      <4> QED
        BY <2>2, <4>1, <4>2, PredicateOf
    <3> QED
      BY <3>1, Zenon
  <2>9. PICK i \in DOMAIN CodeOf(b) : c = CodeOf(b)[i] /\ c.op = "icmp"
    BY <2>3
  <2>4. Len(c.ops) = 2 /\ c.ops \in Seq(Operands)
    <3>1. c \in IRInstruction /\ InItsClass(c)
      BY <2>2, <2>9, InstructionIsVerified
    <3>2. Len(c.ops) = 2
      BY <2>9, <3>1 DEF InItsClass
    <3> QED
      BY <3>1, <3>2 DEF IRInstruction
  <2> HIDE DEF Operands
  <2> QED
    BY <2>1, <2>4, RangeOfTwo
<1>3. Cmp(Registers(asks)) = cmp
  <2>1. \A k \in DOMAIN asks : Registers(asks)[k] = Register(asks, k) /\ Register(asks, k) \in Nat
                               /\ Register(asks, k) < FieldSize
    BY <1>1, Answers
  <2>2. 0 \in Nat /\ 0 < FieldSize
    BY FieldSizeAssumption
  <2> QED
    BY <2>1, <2>2, PlainIs DEF Cmp
<1> HIDE DEF x, y
<1>4. /\ asks[1] = Materialize(x) /\ asks[2] = Materialize(y)
      /\ asks[1].value = x /\ asks[2].value = y /\ x # Temporary /\ y # Temporary
  <2>1. asks[1] = Materialize(x) /\ asks[2] = Materialize(y)
    BY DEF x, y
  <2> QED
    BY <1>2, <2>1, NeedsHere DEF Materialize
<1>5. AsksFor(asks, Needed(Here), Self)
  <2>1. \A k \in DOMAIN asks : AskIsFor(asks, k, Needed(Here), Self)
    BY <1>2, <1>4, AskIs
  <2> QED
    BY <1>2, <1>4, <2>1, AsksForHere
<1>6. /\ cmp.op = "CMP" /\ RegistersRead(cmp) = {Register(asks, 1), Register(asks, 2)} /\ ~Writes(cmp)
      /\ yes.op = "BR" /\ RegistersRead(yes) = {} /\ ~Writes(yes)
      /\ no.op = "BR" /\ RegistersRead(no) = {} /\ ~Writes(no)
  BY InstructionFields, ReadsOf, JumpFields
<1> HIDE DEF cmp, yes, no
<1>7. own = <<cmp, yes, no>>
  BY <1>3 DEF yes, no
<1>8. own[1] = cmp /\ own[2] = yes /\ own[3] = no /\ Len(own) = 3
  BY <1>7
<1>9. \E S : own \in Seq(S)
  <2>1. \E S : <<cmp, yes, no>> \in Seq(S)
    BY IsSequence, Zenon
  <2> QED
    BY <1>7, <2>1
<1>10. OwnOk(asks, own, Needed(Here), Self)
  <2>1. 1 \in Readable(asks, Needed(Here)) /\ 2 \in Readable(asks, Needed(Here))
    BY <1>2, <1>4 DEF Readable
  <2>2. IsOwn(asks, own, Needed(Here), Self, 1)
    <3>1. \A d \in (1 + 1)..3 : d = 2 \/ d = 3
      OBVIOUS
    <3> QED
      BY <1>6, <1>8, <2>1, <3>1 DEF IsOwn
  <2>3. IsOwn(asks, own, Needed(Here), Self, 2)
    BY <1>6, <1>8 DEF IsOwn
  <2>4. IsOwn(asks, own, Needed(Here), Self, 3)
    BY <1>6, <1>8 DEF IsOwn
  <2>5. \A e \in 1..Len(own) : e = 1 \/ e = 2 \/ e = 3
    BY <1>8
  <2> QED
    BY <1>9, <2>2, <2>3, <2>4, <2>5 DEF OwnOk
<1>11. GroupOk(valueToVReg', nextVReg', g, Needed(Here), Self)
  BY <1>1, <1>5, <1>10, PushedOk
<1>12. PICK m \in Nat : Laid(g, m, asks, own)
  BY <1>1, <1>9, PushedIsLaid
<1>13. g = Pushed(asks, own)
  OBVIOUS
<1> HIDE DEF g
<1>14. /\ Len(g) = m + 3 /\ g[m + 1] = cmp /\ g[m + 2] = yes /\ g[m + 3] = no
       /\ \A e \in 1..m : Writes(g[e])
  BY <1>8, <1>12 DEF Laid
<1>15. MeansBranch(valueToVReg', g, Here)
  <2>1. /\ Len(g) > 2 /\ Len(g) - 3 = m /\ Len(g) - 2 = m + 1 /\ Len(g) - 1 = m + 2
    BY <1>14
  <2>2. IsNumberOf(valueToVReg', x, Register(asks, 1)) /\ IsNumberOf(valueToVReg', y, Register(asks, 2))
    BY <1>1, <1>4, Answers
  <2> DEFINE rx == Register(asks, 1)
             ry == Register(asks, 2)
  <2>3. /\ IsNumberOf(valueToVReg', c.ops[1], rx) /\ IsNumberOf(valueToVReg', c.ops[2], ry)
        /\ Len(g) > 2 /\ \A e \in 1..(Len(g) - 3) : Writes(g[e])
        /\ g[Len(g) - 2] = Instruction("CMP", 0, rx, ry, 0)
        /\ g[Len(g) - 1] = Jump(BranchCond(c.form), Here.succ[1])
        /\ g[Len(g)] = Jump(ALWAYS, Here.succ[2])
    BY <1>14, <2>1, <2>2 DEF cmp, yes, no, x, y
  <2> HIDE DEF rx, ry
  <2> QED
    BY <2>3, Zenon DEF MeansBranch
<1>16. Means(valueToVReg', g, Here, Self)
  <2>1. Len(g) \in Nat \ {0}
    BY <1>14
  <2> QED
    BY <1>15, <2>1, BranchMeans
<1> QED
  BY <1>5, <1>9, <1>11, <1>13, <1>16, IsCoded

LEMMA BranchCoded == ASSUME Proceeding, SelectBranch PROVE Coded
<1>1. Here.op = "br"
  BY DEF SelectBranch, Selecting
<1>2. CASE Here.ops = <<>>
  <2>1. Handle(<<>>, <<Jump(ALWAYS, Here.succ[1])>>)
    BY <1>2, Zenon DEF SelectBranch
  <2> QED
    BY <1>1, <1>2, <2>1, AlwaysCoded
<1>3. CASE Here.ops # <<>>
  <2>1. IsPredicate(Here.ops[1])
    BY <1>1, <1>3, HereIs DEF IsSupported
  <2> DEFINE c == InstructionOf(Here.ops[1])
             asks == Compared(c)
             cmp == Cmp(Registers(asks))
             yes == Jump(BranchCond(c.form), Here.succ[1])
             no == Jump(ALWAYS, Here.succ[2])
  <2>2. Handle(asks, <<cmp>> \o <<yes, no>>)
    BY <1>3, <2>1, Zenon DEF SelectBranch, BothWays
  <2>3. <<cmp>> \o <<yes, no>> = <<cmp, yes, no>>
    <3> HIDE DEF cmp, yes, no
    <3> QED
      BY ListsJoin, Zenon
  <2>4. Handle(asks, <<cmp, yes, no>>)
    BY <2>2, <2>3
  <2>5. /\ IsAsks(asks) /\ DOMAIN asks = {1, 2}
        /\ asks[1] = Materialize(c.ops[1]) /\ asks[2] = Materialize(c.ops[2])
    <3> DEFINE x == c.ops[1]
               y == c.ops[2]
    <3> HIDE DEF x, y, c
    <3>1. /\ IsAsks(<<Materialize(x), Materialize(y)>>)
          /\ DOMAIN <<Materialize(x), Materialize(y)>> = {1, 2}
          /\ <<Materialize(x), Materialize(y)>>[1] = Materialize(x)
          /\ <<Materialize(x), Materialize(y)>>[2] = Materialize(y)
      BY HandlersAsk, ListsOf, Zenon
    <3>2. asks = <<Materialize(x), Materialize(y)>>
      BY Zenon DEF Compared, x, y
    <3> QED
      BY <3>1, <3>2, Zenon DEF x, y
  <2> HIDE DEF c, asks
  <2>6. c = InstructionOf(Here.ops[1])
    BY DEF c
  <2> QED
    BY <1>1, <1>3, <2>4, <2>5, <2>6, TestCoded, Zenon
<1> QED
  BY <1>2, <1>3

\* Every handler of a supported kernel is asked for what its instruction needs
\* and pushes what the instruction means.
LEMMA HandlersMean ==
  ASSUME Proceeding, Next, ~LoadArgument PROVE Coded
<1>1. ~SelectAlloca /\ ~Drop
  BY HereIs DEF SelectAlloca, Drop, Selecting, IsSupported
<1> QED
  BY <1>1, BinaryCoded, CompareCoded, BranchCoded, LoadCoded, StoreCoded, AddressCoded, CastCoded,
     RegisterReadCoded, GlobalIdCoded, SignalCoded DEF Next

-----------------------------------------------------------------------------
(* The code of the instructions that have it, whatever is selected after    *)
(* them.                                                                   *)

\* Values are given numbers, and no number is taken back.
Grows(map, next, map2, next2) ==
  /\ next <= next2
  /\ \A v \in DOMAIN map : v \in DOMAIN map2 /\ map2[v] = map[v]
  /\ \A v \in DOMAIN map2 : v \in DOMAIN map \/ map2[v] >= next

LEMMA RecordGrows ==
  ASSUME Numbered, Valued, NEW asks, IsAsks(asks), Record(asks)
  PROVE  /\ Grows(valueToVReg, nextVReg, valueToVReg', nextVReg')
         /\ nextVReg \in Nat /\ nextVReg' \in Nat
<1>1. /\ Numbered' /\ Valued' /\ nextVReg <= nextVReg'
      /\ \A v \in DOMAIN valueToVReg :
           v \in DOMAIN valueToVReg' /\ valueToVReg'[v] = valueToVReg[v]
      /\ \A v \in DOMAIN valueToVReg' :
           v \in DOMAIN valueToVReg \/ \E k \in DOMAIN asks : asks[k].value = v
      /\ \A k \in DOMAIN asks : asks[k].value \notin {Zero, Temporary} =>
           asks[k].value \in DOMAIN valueToVReg' /\ Register(asks, k) = valueToVReg'[asks[k].value]
  BY AsksAnswered
<1>2. nextVReg \in Nat /\ nextVReg' \in Nat
  BY <1>1 DEF Numbered
<1>3. ASSUME NEW v \in DOMAIN valueToVReg', v \notin DOMAIN valueToVReg
      PROVE  valueToVReg'[v] >= nextVReg
  <2>1. v # Zero /\ v # Temporary
    BY <1>1 DEF Valued
  <2>2. PICK k \in DOMAIN asks : asks[k].value = v
    BY <1>1, <1>3
  <2>3. PICK j \in 1..k : Register(asks, k) = Allocated(asks, j)
    BY <1>3, <2>1, <2>2, RegisterIs
  <2> DEFINE earlier == {i \in 1..(j - 1) : IsNew(asks, i)}
  <2>4. Cardinality(earlier) \in Nat
    <3>1. j - 1 \in Int
      OBVIOUS
    <3>2. IsFiniteSet(1..(j - 1))
      BY <3>1, FS_Interval
    <3>3. IsFiniteSet(earlier)
      BY <3>2, FS_Subset
    <3> QED
      BY <3>3, FS_CardinalityType
  <2>5. Allocated(asks, j) = nextVReg + Cardinality(earlier)
    BY DEF Allocated
  <2> HIDE DEF earlier
  <2>6. Allocated(asks, j) >= nextVReg
    BY <1>2, <2>4, <2>5
  <2> QED
    BY <1>1, <2>1, <2>2, <2>3, <2>6
<1> QED
  BY <1>1, <1>2, <1>3 DEF Grows

LEMMA FreeKept ==
  ASSUME NEW next \in Nat, NEW next2 \in Nat, NEW map, NEW map2, Grows(map, next, map2, next2),
         NEW t, IsFree(map, next, t)
  PROVE  IsFree(map2, next2, t)
  BY DEF IsFree, Grows

LEMMA TidyKept ==
  ASSUME NEW next \in Nat, NEW next2 \in Nat, NEW map, NEW map2, Grows(map, next, map2, next2),
         NEW g, NEW needs, NEW self, GroupOk(map, next, g, needs, self)
  PROVE  GroupOk(map2, next2, g, needs, self)
<1>1. \A t : IsFree(map, next, t) => IsFree(map2, next2, t)
  BY FreeKept
<1>2. \A v \in needs : /\ v = Zero \/ v \in DOMAIN map2
                       /\ NumberOf(map2, v) = NumberOf(map, v)
                       /\ v \in DOMAIN map => map2[v] = map[v]
  BY DEF GroupOk, Grows, NumberOf
<1>3. self \in DOMAIN map => self \in DOMAIN map2 /\ map2[self] = map[self]
  BY DEF Grows
<1>4. ASSUME NEW e \in 1..Len(g) PROVE IsTidy(map2, next2, g, needs, self, e)
  <2>1. IsTidy(map, next, g, needs, self, e)
    BY DEF GroupOk
  <2>2. {NumberOf(map2, v) : v \in needs} = {NumberOf(map, v) : v \in needs}
    BY <1>2
  <2>3. \A v \in needs : IsFilling(v) /\ v \in DOMAIN map /\ g[e] = Fill(map[v], v[2])
                         => v \in DOMAIN map2 /\ g[e] = Fill(map2[v], v[2])
    BY <1>2 DEF Grows
  <2> QED
    BY <1>1, <1>3, <2>1, <2>2, <2>3, Zenon DEF IsTidy
<1> QED
  BY <1>2, <1>4 DEF GroupOk

LEMMA MeansKept ==
  ASSUME NEW map, NEW map2, \A v, r : IsNumberOf(map, v, r) => IsNumberOf(map2, v, r),
         NEW g, NEW ins, NEW self, Means(map, g, ins, self)
  PROVE  Means(map2, g, ins, self)
<1>1. ins.op = "br" => MeansBranch(map2, g, ins)
  BY Zenon DEF Means, MeansBranch
<1>2. ins.op = "binary" => MeansBinary(map2, g, ins, self)
  BY Zenon DEF Means, MeansBinary
<1>3. ins.op = "gep" => MeansAddress(map2, g, ins, self)
  BY Zenon DEF Means, MeansAddress
<1>4. IsGlobalId(ins) => MeansGlobalId(map2, g, ins, self)
  BY Zenon DEF Means, MeansGlobalId
<1> QED
  BY <1>1, <1>2, <1>3, <1>4, Zenon DEF Means

LEMMA CodeKept ==
  ASSUME NEW next \in Nat, NEW next2 \in Nat, NEW map, NEW map2, Grows(map, next, map2, next2),
         NEW g, NEW b, NEW i, IsCode(map, next, g, b, i)
  PROVE  IsCode(map2, next2, g, b, i)
<1>1. \A v, r : IsNumberOf(map, v, r) => IsNumberOf(map2, v, r)
  BY DEF IsNumberOf, Grows
<1> QED
  BY <1>1, TidyKept, MeansKept, Zenon DEF IsCode

\* What depends on the kernel alone stays.
LEMMA KernelKept ==
  ASSUME UNCHANGED kernel
  PROVE  /\ UNCHANGED Blocks /\ \A b : CodeOf(b)' = CodeOf(b)
         /\ \A ins : Needed(ins)' = Needed(ins)
         /\ \A map, next, g, b, i : IsCode(map, next, g, b, i)' <=> IsCode(map, next, g, b, i)
<1>1. /\ UNCHANGED Blocks /\ \A b : CodeOf(b)' = CodeOf(b) /\ BlockName(b)' = BlockName(b)
      /\ \A v : InstructionOf(v)' = InstructionOf(v) /\ (IsPredicate(v)' <=> IsPredicate(v))
  BY DEF Blocks, CodeOf, BlockName, InstructionOf, IsPredicate
<1>2. \A ins : Needed(ins)' = Needed(ins)
  BY <1>1 DEF Needed, OnlyGotten, Materialized
<1>3. \A cond, b : Jump(cond, b)' = Jump(cond, b)
  BY <1>1 DEF Jump
<1>4. \A map, g, ins : MeansBranch(map, g, ins)' <=> MeansBranch(map, g, ins)
  BY <1>1, <1>3 DEF MeansBranch
<1>5. \A map, g, ins, self : Means(map, g, ins, self)' <=> Means(map, g, ins, self)
  BY <1>4 DEF Means
<1>6. \A map, next, g, b, i : IsCode(map, next, g, b, i)' <=> IsCode(map, next, g, b, i)
  BY <1>1, <1>2, <1>5 DEF IsCode
<1> QED
  BY <1>1, <1>2, <1>6

LEMMA SupportKept ==
  ASSUME UNCHANGED kernel, nextVReg \in Nat, nextVReg' \in Nat, nextVReg <= nextVReg', Supported'
  PROVE  Supported /\ nextVReg' <= FieldSize
<1>1. /\ UNCHANGED <<Blocks, Instructions>>
      /\ \A b : CodeOf(b)' = CodeOf(b) /\ BlockName(b)' = BlockName(b)
      /\ \A v : InstructionOf(v)' = InstructionOf(v) /\ (IsPredicate(v)' <=> IsPredicate(v))
                /\ (BranchOnly(v)' <=> BranchOnly(v))
  BY DEF Blocks, Instructions, CodeOf, BlockName, InstructionOf, IsPredicate, BranchOnly
<1>2. \A ins : IsSupported(ins)' <=> IsSupported(ins)
  BY <1>1 DEF IsSupported
<1>3. \A b : ConstantsOf(b)' = ConstantsOf(b)
  <2>1. \A ins : Materialized(ins)' = Materialized(ins)
    BY <1>1 DEF Materialized
  <2> QED
    BY <1>1, <2>1 DEF ConstantsOf
<1>4. ConstantsDominate' <=> ConstantsDominate
  BY <1>1, <1>3, Zenon DEF ConstantsDominate
<1>5. nextVReg' <= FieldSize
  BY DEF Supported
<1>6. nextVReg <= FieldSize
  BY <1>5, FieldSizeAssumption
<1> QED
  BY <1>1, <1>2, <1>4, <1>5, <1>6 DEF Supported

\* The first instruction that needs a constant fills its register.
FilledFirst(v) ==
  \E b \in Blocks : \E i \in DOMAIN CodeOf(b) :
    /\ HasCode(b, i) /\ v \in Needed(CodeOf(b)[i])
    /\ \E e \in 1..Len(code[b][i]) : code[b][i][e] = Fill(valueToVReg[v], v[2])
    /\ \A c \in Blocks : \A j \in DOMAIN CodeOf(c) :
         v \in Needed(CodeOf(c)[j]) => b < c \/ (b = c /\ i <= j)

\* An argument is loaded from its address.
LoadsArgument(k) ==
  /\ Arg(k) \in DOMAIN valueToVReg
  /\ \E t : /\ IsFree(valueToVReg, nextVReg, t)
            /\ prologue[2 * k + 1] = Fill(t, 8 * k)
            /\ prologue[2 * k + 2] = Instruction("LDR", valueToVReg[Arg(k)], t, 0, 0)

LoadsArguments ==
  \E n \in 0..kernel.params : Len(prologue) = 2 * n /\ \A k \in 0..(n - 1) : LoadsArgument(k)

CodeFormed ==
  \A b \in Blocks : \A i \in DOMAIN CodeOf(b) :
    HasCode(b, i) => IsCode(valueToVReg, nextVReg, code[b][i], b, i)

ConstantsFilled == \A v \in DOMAIN valueToVReg : IsFilling(v) => FilledFirst(v)

Forms == Supported => CodeFormed /\ ConstantsFilled /\ LoadsArguments

\* An argument keeps its registers.
LEMMA LoadKept ==
  ASSUME nextVReg \in Nat, nextVReg' \in Nat,
         Grows(valueToVReg, nextVReg, valueToVReg', nextVReg'),
         NEW k \in Nat, LoadsArgument(k),
         prologue'[2 * k + 1] = prologue[2 * k + 1], prologue'[2 * k + 2] = prologue[2 * k + 2]
  PROVE  LoadsArgument(k)'
<1>1. PICK t : /\ IsFree(valueToVReg, nextVReg, t)
               /\ prologue[2 * k + 1] = Fill(t, 8 * k)
               /\ prologue[2 * k + 2] = Instruction("LDR", valueToVReg[Arg(k)], t, 0, 0)
  BY DEF LoadsArgument
<1>2. IsFree(valueToVReg', nextVReg', t)
  BY <1>1, FreeKept, Zenon
<1>3. Arg(k) \in DOMAIN valueToVReg' /\ valueToVReg'[Arg(k)] = valueToVReg[Arg(k)]
  BY DEF LoadsArgument, Grows
<1> QED
  BY <1>1, <1>2, <1>3, Zenon DEF LoadsArgument

\* What two asks for an argument bring.
BringsAddress(asks, own, n) ==
  \E fills : /\ \E S : fills \in Seq(S)
             /\ Len(fills) = 1 /\ fills[1] = Fill(Register(asks, 2), n)
             /\ Pushed(asks, own) = fills \o own

LEMMA ArgumentFill ==
  ASSUME Numbered, Valued, nextVReg' <= FieldSize,
         NEW v, NEW n \in Int, NEW asks, asks = <<Get(v), Number(n)>>, Record(asks), NEW own
  PROVE  BringsAddress(asks, own, n)
<1>1. IsAsks(asks) /\ DOMAIN asks = {1, 2} /\ asks[1] = Get(v) /\ asks[2] = Number(n)
  BY HandlersAsk, ListsOf, Zenon
<1>2. PICK m \in 0..5 : \E fills, from : /\ DOMAIN asks = 1..m
                                         /\ Filling(asks, m, fills, from)
                                         /\ Pushed(asks, own) = fills \o own
  BY <1>1, PushedIs
<1>3. PICK fills, from : /\ DOMAIN asks = 1..m
                         /\ Filling(asks, m, fills, from)
                         /\ Pushed(asks, own) = fills \o own
  BY <1>2
<1>4. asks[1].fill = <<>> /\ asks[2].fill = <<n>> /\ asks[2].value = Temporary
  BY <1>1 DEF Get, Number
<1>5. ~Brings(asks, 1) /\ Brings(asks, 2)
  BY <1>4 DEF Brings, IsNew
<1>6. PICK S : fills \in Seq(S)
  BY <1>3 DEF Filling
<1>7. Len(fills) \in Nat
  BY <1>6, LenProperties
<1>8. \A e \in 1..Len(fills) : from[e] = 2 /\ fills[e] = FillOf(asks, from[e])
  <2> SUFFICES ASSUME NEW e \in 1..Len(fills) PROVE from[e] = 2 /\ fills[e] = FillOf(asks, from[e])
    OBVIOUS
  <2>1. from[e] \in 1..m /\ Brings(asks, from[e]) /\ fills[e] = FillOf(asks, from[e])
    BY <1>3 DEF Filling
  <2>2. from[e] \in {1, 2}
    BY <1>1, <1>3, <2>1
  <2> QED
    BY <1>5, <2>1, <2>2
<1>9. PICK e \in 1..Len(fills) : from[e] = 2
  BY <1>1, <1>3, <1>5 DEF Filling
<1>10. ~(Len(fills) > 1)
  <2> SUFFICES ASSUME Len(fills) > 1 PROVE FALSE
    OBVIOUS
  <2>1. 1 \in 1..Len(fills) /\ 2 \in 1..Len(fills)
    BY <1>7
  <2>2. from[1] < from[2]
    BY <1>3, <2>1 DEF Filling
  <2> QED
    BY <1>8, <2>1, <2>2
<1>11. Len(fills) = 1
  <2>1. \A l, d \in Nat : d >= 1 /\ d <= l /\ l <= 1 => l = 1
    OBVIOUS
  <2>2. e \in Nat /\ e >= 1 /\ e <= Len(fills)
    BY <1>7
  <2>3. Len(fills) <= 1
    BY <1>7, <1>10
  <2> QED
    BY <1>7, <2>1, <2>2, <2>3, Zenon
<1>12. fills[1] = FillOf(asks, 2)
  BY <1>8, <1>11
<1>13. Register(asks, 2) \in Nat /\ Register(asks, 2) < FieldSize
  BY <1>1, Answers
<1>14. FillOf(asks, 2) = Fill(Register(asks, 2), n)
  <2>1. asks[2].fill[1] = n
    BY <1>4
  <2>2. 0 \in Nat /\ 0 < FieldSize
    BY FieldSizeAssumption
  <2> QED
    BY <1>13, <2>1, <2>2, PlainIs DEF FillOf, Fill, VREG_ZERO
<1> QED
  BY <1>3, <1>6, <1>11, <1>12, <1>14, Zenon DEF BringsAddress

LEMMA FormsAtFirst == ASSUME Init PROVE Forms
<1>1. /\ kernel \in Kernels /\ position = <<1, 1>> /\ valueToVReg = EmptyMap /\ prologue = <<>>
  BY DEF Init
<1>2. /\ Len(kernel.blocks) \in Nat \ {0} /\ Blocks = 1..Len(kernel.blocks) /\ kernel.params \in Nat
      /\ \A b \in Blocks : DOMAIN CodeOf(b) = 1..Len(CodeOf(b)) /\ Len(CodeOf(b)) \in Nat \ {0}
  BY <1>1, KernelShape
<1>3. position[1] = 1 /\ position[2] = 1 /\ DOMAIN valueToVReg = {} /\ Len(prologue) = 0
  BY <1>1 DEF EmptyMap
<1>4. \A b \in Blocks : \A i \in DOMAIN CodeOf(b) : ~HasCode(b, i)
  BY <1>2, <1>3 DEF HasCode
<1>5. LoadsArguments
  <2>1. 0 \in 0..kernel.params /\ Len(prologue) = 2 * 0 /\ 0..(0 - 1) = {}
    BY <1>2, <1>3
  <2> QED
    BY <2>1, Zenon DEF LoadsArguments
<1> QED
  BY <1>3, <1>4, <1>5 DEF Forms, CodeFormed, ConstantsFilled

Joins(s, t, u) ==
  /\ Len(u) = Len(s) + Len(t)
  /\ \A e \in 1..Len(s) : u[e] = s[e]
  /\ \A e \in 1..Len(t) : u[Len(s) + e] = t[e]

LEMMA PartsOfConcat ==
  ASSUME NEW S, NEW s \in Seq(S), NEW t \in Seq(S)
  PROVE  Joins(s, t, s \o t)
<1>1. Len(s) \in Nat /\ Len(t) \in Nat
  BY LenProperties
<1>2. /\ Len(s \o t) = Len(s) + Len(t)
      /\ \A i \in 1..(Len(s) + Len(t)) : (s \o t)[i] = IF i <= Len(s) THEN s[i] ELSE t[i - Len(s)]
  BY ConcatProperties
<1> QED
  BY <1>1, <1>2 DEF Joins

LEMMA ArgumentStep == ASSUME Shape, Forms, LoadArgument PROVE Forms'
<1>0. PICK n : n = Len(prologue) \div 2
  OBVIOUS
<1> DEFINE asks == <<Get(Arg(n)), Number(8 * n)>>
           r == Registers(asks)
           own == <<Plain("LDR", r[1], r[2], 0, 0)>>
<1>1. /\ prologue' = prologue \o Pushed(asks, own)
      /\ Record(asks)
      /\ UNCHANGED <<kernel, position, code>> /\ ~Loaded
  BY <1>0, Zenon DEF LoadArgument
<1>2. IsAsks(asks) /\ DOMAIN asks = {1, 2} /\ asks[1] = Get(Arg(n)) /\ asks[2] = Number(8 * n)
  BY HandlersAsk, ListsOf, Zenon
<1>3. Numbered /\ Valued /\ kernel \in Kernels
  BY DEF Shape, InCode
<1>4. asks = <<Get(Arg(n)), Number(8 * n)>> /\ own = <<Plain("LDR", r[1], r[2], 0, 0)>>
  OBVIOUS
<1> HIDE DEF asks, own
<1>5. /\ Grows(valueToVReg, nextVReg, valueToVReg', nextVReg')
      /\ nextVReg \in Nat /\ nextVReg' \in Nat
  BY <1>1, <1>2, <1>3, RecordGrows
<1> SUFFICES ASSUME Supported' PROVE CodeFormed' /\ ConstantsFilled' /\ LoadsArguments'
  BY DEF Forms
<1>6. Supported /\ nextVReg' <= FieldSize
  BY <1>1, <1>5, SupportKept DEF Grows
<1>7. /\ \A b \in Blocks : \A i \in DOMAIN CodeOf(b) :
           HasCode(b, i) => IsCode(valueToVReg, nextVReg, code[b][i], b, i)
      /\ \A v \in DOMAIN valueToVReg : IsFilling(v) => FilledFirst(v)
      /\ LoadsArguments
  BY <1>6 DEF Forms, CodeFormed, ConstantsFilled
<1>8. /\ UNCHANGED Blocks /\ \A b : CodeOf(b)' = CodeOf(b)
      /\ \A ins : Needed(ins)' = Needed(ins)
      /\ \A map, next, g, b, i : IsCode(map, next, g, b, i)' <=> IsCode(map, next, g, b, i)
  BY <1>1, KernelKept
<1>9. \A b, i : HasCode(b, i)' <=> HasCode(b, i)
  BY <1>1 DEF HasCode
<1>10. \A b \in Blocks : \A i \in DOMAIN CodeOf(b) :
         HasCode(b, i) => IsCode(valueToVReg', nextVReg', code[b][i], b, i)
  BY <1>5, <1>7, CodeKept, Zenon
<1>11. \A v \in DOMAIN valueToVReg' : v \in DOMAIN valueToVReg \/ ~IsFilling(v)
  <2> SUFFICES ASSUME NEW v \in DOMAIN valueToVReg', v \notin DOMAIN valueToVReg PROVE ~IsFilling(v)
    OBVIOUS
  <2>1. PICK k \in DOMAIN asks : asks[k].value = v
    BY <1>1, <1>2, <1>3, AsksAnswered
  <2>2. v = Arg(n) \/ v = Temporary
    BY <1>2, <2>1 DEF Get, Number
  <2> QED
    BY <2>2 DEF IsFilling, IsConst, Arg, Temporary
<1>12. \A v \in DOMAIN valueToVReg : IsFilling(v) => FilledFirst(v)'
  <2> SUFFICES ASSUME NEW v \in DOMAIN valueToVReg, IsFilling(v) PROVE FilledFirst(v)'
    OBVIOUS
  <2>1. FilledFirst(v) /\ valueToVReg'[v] = valueToVReg[v]
    BY <1>5, <1>7 DEF Grows
  <2> QED
    BY <1>1, <1>8, <1>9, <2>1, Zenon DEF FilledFirst
<1>13. LoadsArguments'
  <2>1. PICK m \in 0..kernel.params : Len(prologue) = 2 * m /\ \A k \in 0..(m - 1) : LoadsArgument(k)
    BY <1>7 DEF LoadsArguments
  <2>2. m = n /\ n \in Nat /\ n < kernel.params /\ kernel.params \in Nat
    <3>1. kernel.params \in Nat
      BY <1>3, KernelShape
    <3> QED
      BY <1>0, <1>1, <2>1, <3>1 DEF Loaded
  <2>3. PICK fills : /\ \E S : fills \in Seq(S)
                     /\ Len(fills) = 1 /\ fills[1] = Fill(Register(asks, 2), 8 * n)
                     /\ Pushed(asks, own) = fills \o own
    <3>1. 8 * n \in Int
      BY <2>2
    <3>2. BringsAddress(asks, own, 8 * n)
      BY <1>1, <1>3, <1>4, <1>6, <3>1, ArgumentFill, Zenon
    <3> QED
      BY <3>2, Zenon DEF BringsAddress
  <2>4. PICK S : prologue \in Seq(S)
    BY DEF Shape, IsGroup
  <2>5. PICK T : fills \in Seq(T)
    BY <2>3
  <2> DEFINE load == Plain("LDR", r[1], r[2], 0, 0)
             U == S \cup T \cup {load}
  <2> HIDE DEF r
  <2>6. own \in Seq(U) /\ Len(own) = 1 /\ own[1] = load /\ fills \in Seq(U) /\ prologue \in Seq(U)
    <3>1. load \in U
      OBVIOUS
    <3> HIDE DEF load
    <3>2. own = <<load>>
      BY <1>4 DEF load
    <3>3. S \subseteq U /\ T \subseteq U
      OBVIOUS
    <3> HIDE DEF U
    <3> QED
      BY <2>4, <2>5, <3>1, <3>2, <3>3
  <2>7. /\ Len(fills \o own) = 2 /\ fills \o own \in Seq(U)
        /\ (fills \o own)[1] = fills[1] /\ (fills \o own)[2] = load
    <3> HIDE DEF U, load
    <3>1. /\ Len(fills \o own) = Len(fills) + Len(own)
          /\ \A e \in 1..Len(fills) : (fills \o own)[e] = fills[e]
          /\ \A e \in 1..Len(own) : (fills \o own)[Len(fills) + e] = own[e]
      <4>1. fills \in Seq(U) /\ own \in Seq(U)
        BY <2>6
      <4>2. Joins(fills, own, fills \o own)
        BY <4>1, PartsOfConcat, Zenon
      <4> QED
        BY <4>2, Zenon DEF Joins
    <3>2. Len(fills) = 1
      BY <2>3
    <3>3. fills \o own \in Seq(U)
      BY <2>6, ConcatProperties, Zenon
    <3> QED
      BY <2>6, <3>1, <3>2, <3>3
  <2>8. /\ Len(prologue') = 2 * n + 2 /\ prologue'[2 * n + 1] = fills[1] /\ prologue'[2 * n + 2] = load
        /\ \A e \in 1..(2 * n) : prologue'[e] = prologue[e]
    <3> HIDE DEF U, load
    <3> DEFINE more == fills \o own
    <3>1. prologue' = prologue \o more /\ Len(prologue) = 2 * n
      BY <1>1, <2>1, <2>2, <2>3
    <3>2. more \in Seq(U) /\ Len(more) = 2 /\ more[1] = fills[1] /\ more[2] = load
      BY <2>7
    <3> HIDE DEF more
    <3>4. prologue \in Seq(U) /\ more \in Seq(U)
      BY <2>6, <3>2
    <3>3. /\ Len(prologue \o more) = Len(prologue) + Len(more)
          /\ \A e \in 1..Len(prologue) : (prologue \o more)[e] = prologue[e]
          /\ \A e \in 1..Len(more) : (prologue \o more)[Len(prologue) + e] = more[e]
      <4>1. Joins(prologue, more, prologue \o more)
        BY <3>4, PartsOfConcat, Zenon
      <4> QED
        BY <4>1, Zenon DEF Joins
    <3> QED
      BY <2>2, <3>1, <3>2, <3>3
  <2>9. LoadsArgument(n)'
    <3>1. /\ Register(asks, 1) \in Nat /\ Register(asks, 1) < FieldSize
          /\ Register(asks, 2) \in Nat /\ Register(asks, 2) < FieldSize
          /\ r[1] = Register(asks, 1) /\ r[2] = Register(asks, 2)
          /\ asks[1].value # Temporary => IsNumberOf(valueToVReg', asks[1].value, Register(asks, 1))
      BY <1>1, <1>2, <1>3, <1>6, Answers DEF r
    <3>2. asks[1].value = Arg(n) /\ Arg(n) # Temporary /\ Arg(n) # Zero /\ asks[2].value = Temporary
      BY <1>2 DEF Get, Number, Arg, Temporary, Zero, Const
    <3>3. Arg(n) \in DOMAIN valueToVReg' /\ Register(asks, 1) = valueToVReg'[Arg(n)]
      BY <3>1, <3>2 DEF IsNumberOf
    <3>4. IsFree(valueToVReg', nextVReg', Register(asks, 2))
      <4>1. /\ Register(asks, 2) \in 0..(nextVReg' - 1) /\ Register(asks, 2) >= nextVReg
            /\ \A v \in DOMAIN valueToVReg' : valueToVReg'[v] # Register(asks, 2)
        BY <1>1, <1>2, <1>3, <3>2, AsksAnswered
      <4>2. nextVReg >= 1
        BY <1>3 DEF Numbered
      <4> QED
        BY <1>5, <4>1, <4>2 DEF IsFree
    <3>5. load = Instruction("LDR", valueToVReg'[Arg(n)], Register(asks, 2), 0, 0)
      <4>1. 0 \in Nat /\ 0 < FieldSize
        BY FieldSizeAssumption
      <4> QED
        BY <3>1, <3>3, <4>1, PlainIs
    <3>6. prologue'[2 * n + 1] = Fill(Register(asks, 2), 8 * n)
      BY <2>3, <2>8
    <3> HIDE DEF load
    <3>7. prologue'[2 * n + 2] = Instruction("LDR", valueToVReg'[Arg(n)], Register(asks, 2), 0, 0)
      BY <2>8, <3>5
    <3> QED
      BY <3>3, <3>4, <3>6, <3>7, Zenon DEF LoadsArgument
  <2>10. ASSUME NEW k \in 0..(n - 1) PROVE LoadsArgument(k)'
    <3>1. k \in Nat /\ 2 * k + 1 \in 1..(2 * n) /\ 2 * k + 2 \in 1..(2 * n)
      BY <2>2
    <3>2. prologue'[2 * k + 1] = prologue[2 * k + 1] /\ prologue'[2 * k + 2] = prologue[2 * k + 2]
      BY <2>8, <3>1
    <3>3. LoadsArgument(k)
      BY <2>1, <2>2
    <3> QED
      BY <1>5, <3>1, <3>2, <3>3, LoadKept
  <2>11. /\ n + 1 \in 0..kernel.params /\ Len(prologue') = 2 * (n + 1)
         /\ \A k \in 0..((n + 1) - 1) : k = n \/ k \in 0..(n - 1)
    BY <2>2, <2>8
  <2>12. \A k \in 0..((n + 1) - 1) : LoadsArgument(k)'
    BY <2>9, <2>10, <2>11, Zenon
  <2> QED
    BY <1>1, <2>11, <2>12, Zenon DEF LoadsArguments
<1>14. ConstantsFilled'
  BY <1>11, <1>12, Zenon DEF ConstantsFilled
<1>15. CodeFormed'
  BY <1>1, <1>8, <1>9, <1>10 DEF CodeFormed
<1> QED
  BY <1>13, <1>14, <1>15

LEMMA HandlerStep == ASSUME Shape, Forms, Next, ~LoadArgument PROVE Forms'
<1>1. Loaded /\ ~Finished /\ Numbered /\ Valued /\ kernel \in Kernels
  BY HandlersPush DEF Shape, InCode
<1> SUFFICES ASSUME Supported' PROVE CodeFormed' /\ ConstantsFilled' /\ LoadsArguments'
  BY DEF Forms
<1>2. \E asks, own : IsAsks(asks) /\ Handle(asks, own)
  BY HandlersPush DEF Shape, Handled
<1>3. UNCHANGED <<kernel, prologue>> /\ \E asks : IsAsks(asks) /\ Record(asks)
  BY <1>2 DEF Handle
<1>4. /\ Grows(valueToVReg, nextVReg, valueToVReg', nextVReg')
      /\ nextVReg \in Nat /\ nextVReg' \in Nat
  BY <1>1, <1>3, RecordGrows
<1>5. Supported /\ nextVReg' <= FieldSize
  BY <1>3, <1>4, SupportKept DEF Grows
<1>6. Proceeding
  BY <1>1, <1>5 DEF Proceeding
<1>7. Coded
  BY <1>6, HandlersMean
<1>8. PICK asks, own :
        /\ IsAsks(asks) /\ Handle(asks, own) /\ AsksFor(asks, Needed(Here), Self)
        /\ \E S : own \in Seq(S)
        /\ IsCode(valueToVReg', nextVReg', Pushed(asks, own), position[1], position[2])
  BY <1>7, Zenon DEF Coded
<1>9. Record(asks)
  BY <1>8 DEF Handle
<1>0. PICK c, j : c = position[1] /\ j = position[2]
  OBVIOUS
<1> DEFINE g == Pushed(asks, own)
<1>10. PICK m \in Nat : Laid(g, m, asks, own)
  BY <1>1, <1>5, <1>8, <1>9, PushedIsLaid
<1>11. /\ CodeFormed /\ ConstantsFilled /\ LoadsArguments
  BY <1>5 DEF Forms
<1>12. /\ UNCHANGED Blocks /\ \A b : CodeOf(b)' = CodeOf(b)
       /\ \A ins : Needed(ins)' = Needed(ins)
       /\ \A map, next, h, b, i : IsCode(map, next, h, b, i)' <=> IsCode(map, next, h, b, i)
  BY <1>3, KernelKept
<1>13. /\ code'[c][j] = g
       /\ \A b \in Blocks : \A i \in DOMAIN CodeOf(b) :
            /\ HasCode(b, i)' <=> HasCode(b, i) \/ <<b, i>> = <<c, j>>
            /\ HasCode(b, i) => code'[b][i] = code[b][i] /\ <<b, i>> # <<c, j>>
  BY <1>0, <1>1, <1>8, HandlerWrites
<1>14. c \in Blocks /\ j \in DOMAIN CodeOf(c) /\ Here = CodeOf(c)[j]
  BY <1>0, <1>6, HereIs
<1>15. /\ \A b \in Blocks : b \in Nat /\ \A i \in DOMAIN CodeOf(b) : i \in Nat
  BY <1>1, KernelShape
<1> HIDE DEF g
<1>16. \A b \in Blocks : \A i \in DOMAIN CodeOf(b) :
         HasCode(b, i)' => IsCode(valueToVReg', nextVReg', code'[b][i], b, i)
  <2> SUFFICES ASSUME NEW b \in Blocks, NEW i \in DOMAIN CodeOf(b), HasCode(b, i)'
               PROVE  IsCode(valueToVReg', nextVReg', code'[b][i], b, i)
    BY Zenon
  <2>1. CASE HasCode(b, i)
    <3>1. IsCode(valueToVReg, nextVReg, code[b][i], b, i) /\ code'[b][i] = code[b][i]
      BY <1>11, <1>13, <2>1, Zenon DEF CodeFormed
    <3> QED
      BY <1>4, <3>1, CodeKept, Zenon
  <2>2. CASE <<b, i>> = <<c, j>>
    <3>1. b = c /\ i = j
      BY <2>2
    <3> QED
      BY <1>0, <1>8, <1>13, <3>1 DEF g
  <2> QED
    BY <1>13, <2>1, <2>2, Zenon
<1>17. CodeFormed'
  BY <1>12, <1>16 DEF CodeFormed
<1>18. LoadsArguments'
  <2>1. PICK n \in 0..kernel.params : Len(prologue) = 2 * n /\ \A k \in 0..(n - 1) : LoadsArgument(k)
    BY <1>11 DEF LoadsArguments
  <2>2. \A k \in 0..(n - 1) : LoadsArgument(k)'
    <3> SUFFICES ASSUME NEW k \in 0..(n - 1) PROVE LoadsArgument(k)'
      OBVIOUS
    <3>1. k \in Nat /\ prologue' = prologue /\ LoadsArgument(k)
      BY <1>3, <2>1
    <3> QED
      BY <1>4, <3>1, LoadKept
  <2> QED
    BY <1>3, <2>1, <2>2, Zenon DEF LoadsArguments
<1>19. \A v \in DOMAIN valueToVReg : IsFilling(v) => FilledFirst(v)'
  <2> SUFFICES ASSUME NEW v \in DOMAIN valueToVReg, IsFilling(v) PROVE FilledFirst(v)'
    OBVIOUS
  <2>1. FilledFirst(v) /\ valueToVReg'[v] = valueToVReg[v]
    BY <1>4, <1>11 DEF Grows, ConstantsFilled
  <2>2. PICK b \in Blocks : \E i \in DOMAIN CodeOf(b) :
          /\ HasCode(b, i) /\ v \in Needed(CodeOf(b)[i])
          /\ \E e \in 1..Len(code[b][i]) : code[b][i][e] = Fill(valueToVReg[v], v[2])
          /\ \A d \in Blocks : \A k \in DOMAIN CodeOf(d) :
               v \in Needed(CodeOf(d)[k]) => b < d \/ (b = d /\ i <= k)
    BY <2>1, Zenon DEF FilledFirst
  <2>3. PICK i \in DOMAIN CodeOf(b) :
          /\ HasCode(b, i) /\ v \in Needed(CodeOf(b)[i])
          /\ \E e \in 1..Len(code[b][i]) : code[b][i][e] = Fill(valueToVReg[v], v[2])
          /\ \A d \in Blocks : \A k \in DOMAIN CodeOf(d) :
               v \in Needed(CodeOf(d)[k]) => b < d \/ (b = d /\ i <= k)
    BY <2>2, Zenon
  <2>4. HasCode(b, i)' /\ code'[b][i] = code[b][i]
    BY <1>13, <2>3, Zenon
  <2> QED
    BY <1>12, <2>1, <2>3, <2>4, Zenon DEF FilledFirst
<1>20. ASSUME NEW v \in DOMAIN valueToVReg', v \notin DOMAIN valueToVReg, IsFilling(v)
       PROVE  FilledFirst(v)'
  <2>1. PICK k \in DOMAIN asks : asks[k].value = v
    BY <1>1, <1>8, <1>9, <1>20, AsksAnswered
  <2>2. v # Temporary /\ v # Zero /\ v # Self
    BY <1>6, <1>20, NeedsHere DEF IsFilling, IsConst, Temporary
  <2>3. v \in Needed(Here) /\ asks[k].fill = <<v[2]>>
    BY <1>8, <1>20, <2>1, <2>2 DEF AsksFor
  <2>4. Register(asks, k) = valueToVReg'[v]
    BY <1>1, <1>8, <1>9, <2>1, <2>2, AsksAnswered
  <2>5. PICK k1 \in DOMAIN asks : IsNew(asks, k1) /\ asks[k1].value = v
    <3>1. PICK k1 \in 1..k : IsNew(asks, k1) /\ asks[k1].value = v
      BY <1>1, <1>8, <1>20, <2>1, <2>2, RegisterIs
    <3>2. k1 \in DOMAIN asks
      BY <1>8, <3>1 DEF IsAsks
    <3> QED
      BY <3>1, <3>2
  <2>6. asks[k1].fill = <<v[2]>> /\ Register(asks, k1) = valueToVReg'[v]
    <3>1. asks[k1].fill = <<v[2]>>
      BY <1>8, <1>20, <2>2, <2>5 DEF AsksFor
    <3> QED
      BY <1>1, <1>8, <1>9, <2>2, <2>5, <3>1, AsksAnswered
  <2>7. Brings(asks, k1) /\ asks[k1].fill[1] = v[2]
    <3>1. asks[k1].fill # <<>> /\ asks[k1].fill[1] = v[2]
      BY <2>6
    <3> QED
      BY <2>5, <3>1 DEF Brings
  <2>8. PICK e \in 1..m : g[e] = Fill(valueToVReg'[v], v[2])
    BY <1>10, <2>6, <2>7 DEF Laid
  <2>9. e \in 1..Len(g)
    BY <1>10 DEF Laid
  <2>10. \A d \in Blocks : \A i \in DOMAIN CodeOf(d) :
           v \in Needed(CodeOf(d)[i]) => c < d \/ (c = d /\ j <= i)
    <3> SUFFICES ASSUME NEW d \in Blocks, NEW i \in DOMAIN CodeOf(d), v \in Needed(CodeOf(d)[i])
                 PROVE  c < d \/ (c = d /\ j <= i)
      BY Zenon
    <3>1. ~HasCode(d, i)
      <4> SUFFICES ASSUME HasCode(d, i) PROVE FALSE
        OBVIOUS
      <4>1. IsCode(valueToVReg, nextVReg, code[d][i], d, i)
        BY <1>11 DEF CodeFormed
      <4>2. v = Zero \/ v \in DOMAIN valueToVReg
        BY <4>1, Zenon DEF IsCode, GroupOk
      <4> QED
        BY <1>20, <2>2, <4>2
    <3>2. d \in Nat /\ i \in Nat /\ c \in Nat /\ j \in Nat
      BY <1>14, <1>15
    <3> QED
      BY <1>0, <3>1, <3>2 DEF HasCode
  <2>11. HasCode(c, j)' /\ code'[c][j] = g /\ v \in Needed(CodeOf(c)[j])
    BY <1>13, <1>14, <2>3
  <2>12. \E f \in 1..Len(code'[c][j]) : code'[c][j][f] = Fill(valueToVReg'[v], v[2])
    BY <2>8, <2>9, <2>11
  <2> QED
    BY <1>12, <1>14, <2>10, <2>11, <2>12, Zenon DEF FilledFirst
<1>21. ConstantsFilled'
  BY <1>19, <1>20, Zenon DEF ConstantsFilled
<1> QED
  BY <1>17, <1>18, <1>21

LEMMA FormsKept == ASSUME Shape, Forms, [Next]_selectorVars PROVE Forms'
<1>1. CASE UNCHANGED selectorVars
  <2>1. UNCHANGED <<kernel, position, valueToVReg, nextVReg, prologue, code>>
    BY <1>1 DEF selectorVars
  <2>2. nextVReg \in Nat
    BY DEF Shape, Numbered
  <2>3. /\ UNCHANGED Blocks /\ \A b : CodeOf(b)' = CodeOf(b)
        /\ \A ins : Needed(ins)' = Needed(ins)
        /\ \A map, next, h, b, i : IsCode(map, next, h, b, i)' <=> IsCode(map, next, h, b, i)
    BY <2>1, KernelKept
  <2>4. Supported' => Supported
    BY <2>1, <2>2, SupportKept
  <2>5. \A b, i : HasCode(b, i)' <=> HasCode(b, i)
    BY <2>1 DEF HasCode
  <2>6. CodeFormed' <=> CodeFormed
    BY <2>1, <2>3, <2>5 DEF CodeFormed
  <2>7. \A v : FilledFirst(v)' <=> FilledFirst(v)
    BY <2>1, <2>3, <2>5 DEF FilledFirst
  <2>8. LoadsArguments' <=> LoadsArguments
    BY <2>1 DEF LoadsArguments, LoadsArgument
  <2> QED
    BY <2>1, <2>4, <2>6, <2>7, <2>8 DEF Forms, ConstantsFilled
<1> QED
  BY <1>1, ArgumentStep, HandlerStep

\* Selected code, as long as the selector runs and after it.
LEMMA CodeIsFormed == ASSUME Shape, Forms, Supported, Finished, NEW b \in Blocks, NEW i \in DOMAIN CodeOf(b)
  PROVE  /\ IsCode(valueToVReg, nextVReg, code[b][i], b, i)
         /\ Len(code[b][i]) \in Nat
         /\ InItsClass(CodeOf(b)[i]) /\ IsSupported(CodeOf(b)[i])
<1>1. HasCode(b, i) /\ IsGroup(code[b][i])
  BY PlacesHaveCode
<1>2. IsCode(valueToVReg, nextVReg, code[b][i], b, i)
  BY <1>1 DEF Forms, CodeFormed
<1>3. Len(code[b][i]) \in Nat
  BY <1>1, LenProperties DEF IsGroup
<1>4. InItsClass(CodeOf(b)[i]) /\ IsSupported(CodeOf(b)[i])
  BY InstructionIsVerified, SupportedInstruction DEF Shape, InCode
<1> QED
  BY <1>2, <1>3, <1>4

\* The last instruction of a group writes the value.
Yield(g, r) == Writes(g[Len(g)]) /\ g[Len(g)].rd = r

LEMMA EndsInYield ==
  ASSUME NEW g, NEW op, NEW d, NEW x, NEW y, NEW n, op \in WritingOps,
         g[Len(g)] = Instruction(op, d, x, y, n)
  PROVE  Yield(g, d)
<1>1. g[Len(g)].op = op /\ g[Len(g)].rd = d
  BY InstructionFields
<1> QED
  BY <1>1 DEF Yield, Writes

LEMMA BinaryYields ==
  ASSUME NEW map, NEW g, NEW ins, NEW self, MeansBinary(map, g, ins, self)
  PROVE  \E d : IsNumberOf(map, self, d) /\ Yield(g, d)
<1> DEFINE n == ins.ops[2][2]
<1>1. PICK d, x :
        /\ IsNumberOf(map, self, d)
        /\ \/ g[Len(g)] = Instruction("ADDI", d, x, 0, n)
           \/ g[Len(g)] = Instruction("ADDI", d, x, 0, 0)
           \/ g[Len(g)] = Instruction("ADD", d, x, x, 0)
           \/ \E t : g[Len(g)] = Instruction("MUL", d, x, t, 0)
           \/ \E y : g[Len(g)] = Instruction(RegisterForm(ins.form), d, x, y, 0)
  <2> HIDE DEF n
  <2> QED
    BY Zenon DEF MeansBinary, n
<1>2. {"ADDI", "ADD", "MUL"} \subseteq WritingOps /\ RegisterForm(ins.form) \in WritingOps
  BY DEF WritingOps, ThreeRegister, RegisterForm
<1>3. Yield(g, d)
  BY <1>1, <1>2, EndsInYield
<1> QED
  BY <1>1, <1>3, Zenon

LEMMA AddressYields ==
  ASSUME NEW map, NEW g, NEW ins, NEW self, MeansAddress(map, g, ins, self)
  PROVE  \E d : IsNumberOf(map, self, d) /\ Yield(g, d)
<1>1. PICK d, x :
        /\ IsNumberOf(map, self, d)
        /\ \/ g[Len(g)] = Instruction("ADDI", d, x, 0, ins.ops[2][2] * ins.attr[1])
           \/ \E y : g[Len(g)] = Instruction("ADD", d, x, y, 0)
  BY Zenon DEF MeansAddress
<1>2. {"ADDI", "ADD"} \subseteq WritingOps
  BY DEF WritingOps, ThreeRegister
<1> DEFINE n == ins.ops[2][2] * ins.attr[1]
<1> HIDE DEF n
<1>3. g[Len(g)] = Instruction("ADDI", d, x, 0, n) \/ \E y : g[Len(g)] = Instruction("ADD", d, x, y, 0)
  BY <1>1, Zenon DEF n
<1>4. Yield(g, d)
  BY <1>2, <1>3, EndsInYield
<1> QED
  BY <1>1, <1>4, Zenon

LEMMA GlobalIdYields ==
  ASSUME NEW map, NEW g, NEW ins, NEW self, MeansGlobalId(map, g, ins, self)
  PROVE  \E d : IsNumberOf(map, self, d) /\ Yield(g, d)
<1>1. PICK d : /\ IsNumberOf(map, self, d)
               /\ \E x, y : \/ Len(g) = 4 /\ g[4] = Instruction("ADD", d, x, y, 0)
                            \/ Len(g) = 3 /\ g[3] = Instruction("ADD", d, x, y, 0)
  BY Zenon DEF MeansGlobalId
<1>2. \E x, y : g[Len(g)] = Instruction("ADD", d, x, y, 0)
  BY <1>1
<1>3. "ADD" \in WritingOps
  BY DEF WritingOps, ThreeRegister
<1>4. Yield(g, d)
  BY <1>2, <1>3, EndsInYield
<1> QED
  BY <1>1, <1>4, Zenon

LEMMA ValueWrittenLast ==
  ASSUME NEW map, NEW g, NEW ins, NEW self, Means(map, g, ins, self), self # Zero,
         Kernel!Computes(ins), ins.op # "icmp"
  PROVE  self \in DOMAIN map /\ Yield(g, map[self])
<1>1. {"ADDI", "LDR", "S2R"} \subseteq WritingOps
  BY DEF WritingOps
<1>2. \E d : IsNumberOf(map, self, d) /\ Yield(g, d)
  <2>1. CASE ins.op = "binary"
    BY <2>1, BinaryYields DEF Means
  <2>2. CASE ins.op = "gep"
    BY <2>2, AddressYields DEF Means
  <2>3. CASE IsGlobalId(ins)
    BY <2>3, GlobalIdYields DEF Means
  <2>4. CASE IsLoad(ins)
    <3>1. PICK d, x : IsNumberOf(map, self, d) /\ g[Len(g)] = Instruction("LDR", d, x, 0, 0)
      BY <2>4, Zenon DEF Means
    <3>2. Yield(g, d)
      BY <1>1, <3>1, EndsInYield
    <3> QED
      BY <3>1, <3>2, Zenon
  <2>5. CASE ins.op = "cast"
    <3>1. PICK d, x : IsNumberOf(map, self, d) /\ g[Len(g)] = Instruction("ADDI", d, x, 0, 0)
      BY <2>5, Zenon DEF Means
    <3>2. Yield(g, d)
      BY <1>1, <3>1, EndsInYield
    <3> QED
      BY <3>1, <3>2, Zenon
  <2>6. CASE ReadsRegister(ins)
    <3>1. PICK d : IsNumberOf(map, self, d) /\ g[Len(g)] = Instruction("S2R", d, 0, 0, RegisterOf(ins))
      BY <2>6, Zenon DEF Means
    <3> DEFINE n == RegisterOf(ins)
    <3> HIDE DEF n
    <3>2. g[Len(g)] = Instruction("S2R", d, 0, 0, n)
      BY <3>1 DEF n
    <3>3. Yield(g, d)
      BY <1>1, <3>2, EndsInYield
    <3> QED
      BY <3>1, <3>3, Zenon
  <2>7. \/ ins.op \in {"binary", "gep", "cast"} \/ IsGlobalId(ins) \/ IsLoad(ins) \/ ReadsRegister(ins)
    <3>1. DOMAIN Kernel!RegisterCalls = DOMAIN RegisterCalls
      BY DEF Kernel!RegisterCalls, RegisterCalls
    <3> QED
      BY <3>1 DEF Kernel!Computes, IsGlobalId, IsLoad, ReadsRegister, RegisterReads
  <2> QED
    BY <2>1, <2>2, <2>3, <2>4, <2>5, <2>6, <2>7
<1> QED
  BY <1>2 DEF IsNumberOf

-----------------------------------------------------------------------------
(* The lane finds every register it reads written.                         *)

ArgumentsReady ==
  \A k \in 0..(kernel.params - 1) :
    Arg(k) \in DOMAIN valueToVReg /\ Filled(valueToVReg[Arg(k)])

\* The code of instruction j of block c has been run: what it writes is written,
\* and for a comparison, which has no code of its own, its operands are.
HasRun(c, j) ==
  /\ \A e \in 1..Len(code[c][j]) : Writes(code[c][j][e]) => Filled(code[c][j][e].rd)
  /\ CodeOf(c)[j].op = "icmp" =>
       \A v \in Range(CodeOf(c)[j].ops) :
         IsResult(v) => v \in DOMAIN valueToVReg /\ Filled(valueToVReg[v])

\* What is on every path to instruction i of block b has been run.
Reached(b, i) ==
  /\ ArgumentsReady
  /\ \A c \in Blocks : \A j \in DOMAIN CodeOf(c) :
       Precedes(kernel.blocks, c, j, b, i) => HasRun(c, j)

DoneWritten == \A d \in 1..done : Writes(Group[d]) => Filled(Group[d].rd)

LaneFilled ==
  Supported =>
    /\ at # Fault
    /\ Finished /\ at \notin {Returned, Fault} => DoneWritten
    /\ \A b \in Blocks : \A i \in DOMAIN CodeOf(b) : at = <<b, i>> => Reached(b, i)

\* The selector has finished with a supported kernel.
Selected == Shape /\ Forms /\ Supported /\ Finished

LEMMA ResultReady ==
  ASSUME Selected, NEW b \in Blocks, NEW i \in DOMAIN CodeOf(b), HasRun(b, i),
         Kernel!Computes(CodeOf(b)[i]), CodeOf(b)[i].op # "icmp"
  PROVE  Result(b, i) \in DOMAIN valueToVReg /\ Filled(valueToVReg[Result(b, i)])
<1> DEFINE g == code[b][i]
           self == Result(b, i)
<1>1. IsCode(valueToVReg, nextVReg, g, b, i) /\ Len(g) \in Nat
  BY CodeIsFormed DEF Selected
<1>2. self # Zero
  BY DEF Result, Zero, Const
<1>3. Means(valueToVReg, g, CodeOf(b)[i], self)
  BY <1>1 DEF IsCode
<1>4. Len(g) # 0
  BY <1>3 DEF Means, Frame
<1> HIDE DEF g, self
<1>5. self \in DOMAIN valueToVReg /\ Yield(g, valueToVReg[self])
  BY <1>2, <1>3, ValueWrittenLast
<1>6. Len(g) \in 1..Len(g)
  BY <1>1, <1>4
<1>7. Filled(g[Len(g)].rd)
  BY <1>5, <1>6 DEF HasRun, g, Yield
<1> QED
  BY <1>5, <1>7 DEF Yield, self

\* A result that an instruction may read is in its register.
LEMMA OperandReady ==
  ASSUME Selected, NEW b \in Blocks, NEW i \in DOMAIN CodeOf(b), Reached(b, i),
         NEW v \in Range(CodeOf(b)[i].ops), IsResult(v), v \in Operands,
         CodeOf(v[2])[v[3]].op # "icmp"
  PROVE  v \in DOMAIN valueToVReg /\ Filled(valueToVReg[v])
<1>1. kernel \in Kernels
  BY DEF Selected, Shape, InCode
<1>2. Defined(kernel, b, i, v) /\ IsSupported(CodeOf(b)[i])
  BY <1>1, InstructionIsVerified, SupportedInstruction DEF Selected
<1>3. /\ v[2] \in Blocks /\ v[3] \in DOMAIN CodeOf(v[2])
      /\ Yields(CodeOf(v[2])[v[3]])
      /\ Precedes(kernel.blocks, v[2], v[3], b, i)
  BY <1>2 DEF Defined, Blocks, CodeOf, IsSupported, IsDropped
<1>4. IsSupported(CodeOf(v[2])[v[3]])
  BY <1>1, <1>3, SupportedInstruction DEF Selected
<1>5. Kernel!Computes(CodeOf(v[2])[v[3]])
  BY <1>3, <1>4 DEF Yields, IsSupported, IsDropped
<1>6. HasRun(v[2], v[3])
  BY <1>3 DEF Reached
<1>7. v = Result(v[2], v[3])
  BY OperandsAre
<1> QED
  BY <1>3, <1>5, <1>6, <1>7, ResultReady

\* A constant has been put into its register.
LEMMA ConstantReady ==
  ASSUME Selected, NEW b \in Blocks, NEW i \in DOMAIN CodeOf(b), Reached(b, i),
         NEW v \in Needed(CodeOf(b)[i]), IsFilling(v), v \in DOMAIN valueToVReg
  PROVE  \/ Filled(valueToVReg[v])
         \/ \E e \in 1..Len(code[b][i]) : code[b][i][e] = Fill(valueToVReg[v], v[2])
<1>1. kernel \in Kernels /\ Supported
  BY DEF Selected, Shape, InCode
<1>2. \A d \in Blocks : d \in Nat /\ \A k \in DOMAIN CodeOf(d) : k \in Nat
  BY <1>1, KernelShape
<1>3. PICK c \in Blocks : \E j \in DOMAIN CodeOf(c) :
        /\ HasCode(c, j) /\ v \in Needed(CodeOf(c)[j])
        /\ \E e \in 1..Len(code[c][j]) : code[c][j][e] = Fill(valueToVReg[v], v[2])
        /\ \A d \in Blocks : \A k \in DOMAIN CodeOf(d) :
             v \in Needed(CodeOf(d)[k]) => c < d \/ (c = d /\ j <= k)
  BY Zenon DEF Selected, Forms, ConstantsFilled, FilledFirst
<1>4. PICK j \in DOMAIN CodeOf(c) :
        /\ v \in Needed(CodeOf(c)[j])
        /\ \E e \in 1..Len(code[c][j]) : code[c][j][e] = Fill(valueToVReg[v], v[2])
        /\ \A d \in Blocks : \A k \in DOMAIN CodeOf(d) :
             v \in Needed(CodeOf(d)[k]) => c < d \/ (c = d /\ j <= k)
  BY <1>3, Zenon
<1>5. HasRun(c, j) => Filled(valueToVReg[v])
  <2>1. PICK e \in 1..Len(code[c][j]) : code[c][j][e] = Fill(valueToVReg[v], v[2])
    BY <1>4
  <2> QED
    BY <2>1, FillFields DEF HasRun
<1>6. \A d \in Blocks : v \in ConstantsOf(d) <=> \E k \in DOMAIN CodeOf(d) : v \in Needed(CodeOf(d)[k])
  <2> SUFFICES ASSUME NEW d \in Blocks
               PROVE  v \in ConstantsOf(d) <=> \E k \in DOMAIN CodeOf(d) : v \in Needed(CodeOf(d)[k])
    BY Zenon
  <2>1. ASSUME v \in ConstantsOf(d) PROVE \E k \in DOMAIN CodeOf(d) : v \in Needed(CodeOf(d)[k])
    BY <2>1 DEF ConstantsOf, NonZero, Range, Needed
  <2>2. ASSUME NEW k \in DOMAIN CodeOf(d), v \in Needed(CodeOf(d)[k]) PROVE v \in ConstantsOf(d)
    <3>1. v \in Materialized(CodeOf(d)[k])
      BY <1>1, <2>2, NeededAre
    <3>2. v \in NonZero(Materialized(CodeOf(d)[k]))
      BY <3>1 DEF NonZero, IsFilling
    <3> QED
      BY <3>2 DEF ConstantsOf, Range
  <2> QED
    BY <2>1, <2>2
<1> DEFINE users == {d \in Blocks : v \in ConstantsOf(d)}
<1>7. c \in users /\ \A d \in users : c <= d
  BY <1>2, <1>4, <1>6
<1>8. Min(users) = c
  <2>1. \A m \in users : (\A n \in users : m <= n) => m = c
    BY <1>2, <1>7
  <2> HIDE DEF users
  <2> QED
    BY <1>7, <2>1 DEF Min
<1>9. b \in users
  BY <1>6
<1>10. Dominates(kernel.blocks, c, b)
  BY <1>1, <1>8, <1>9 DEF Supported, ConstantsDominate
<1>11. CASE c # b
  BY <1>5, <1>10, <1>11 DEF Reached, Precedes
<1>12. CASE c = b /\ j < i
  BY <1>5, <1>12 DEF Reached, Precedes
<1>13. CASE c = b /\ j = i
  BY <1>4, <1>13
<1>14. c = b => j <= i
  BY <1>2, <1>4
<1> QED
  BY <1>2, <1>11, <1>12, <1>13, <1>14

\* What instruction e of a group reads, when those before it have been run.
LEMMA GroupReads ==
  ASSUME Selected, NEW b \in Blocks, NEW i \in DOMAIN CodeOf(b), Reached(b, i),
         NEW g, g = code[b][i],
         NEW e \in 1..Len(g), \A d \in 1..(e - 1) : Writes(g[d]) => Filled(g[d].rd),
         NEW r \in RegistersRead(g[e])
  PROVE  Filled(r)
<1>1. kernel \in Kernels /\ Supported
  BY DEF Selected, Shape, InCode
<1>2. IsCode(valueToVReg, nextVReg, g, b, i) /\ Len(g) \in Nat
  BY CodeIsFormed DEF Selected
<1> DEFINE needs == Needed(CodeOf(b)[i])
           self == Result(b, i)
<1>3. GroupOk(valueToVReg, nextVReg, g, needs, self)
  BY <1>2 DEF IsCode
<1>4. /\ \A v \in needs : v = Zero \/ v \in DOMAIN valueToVReg
      /\ \A d \in 1..Len(g) : IsTidy(valueToVReg, nextVReg, g, needs, self, d)
  BY <1>3, Zenon DEF GroupOk
<1>5. r \in {VREG_ZERO} \cup {NumberOf(valueToVReg, v) : v \in needs} \cup WrittenBefore(g, e)
  <2>1. IsTidy(valueToVReg, nextVReg, g, needs, self, e)
    BY <1>4
  <2> HIDE DEF needs, self
  <2>2. RegistersRead(g[e]) \subseteq {VREG_ZERO} \cup {NumberOf(valueToVReg, v) : v \in needs}
                                        \cup WrittenBefore(g, e)
    BY <2>1, Zenon DEF IsTidy
  <2> QED
    BY <2>2
<1>6. CASE r = VREG_ZERO
  BY <1>6 DEF Filled
<1>7. CASE r \in WrittenBefore(g, e)
  BY <1>7 DEF WrittenBefore
<1>8. ASSUME NEW v \in needs, r = NumberOf(valueToVReg, v), v # Zero PROVE Filled(r)
  <2>1. r = valueToVReg[v] /\ v \in DOMAIN valueToVReg
    BY <1>4, <1>8 DEF NumberOf
  <2>2. v \in Operands /\ v[1] \in {"const", "arg", "ins"}
    BY <1>1, NeededAre
  <2>3. CASE IsConst(v)
    <3>1. IsFilling(v)
      BY <1>8, <2>3 DEF IsFilling
    <3>2. Filled(r) \/ \E d \in 1..Len(g) : g[d] = Fill(r, v[2])
      BY <2>1, <3>1, ConstantReady
    <3>3. ASSUME NEW d \in 1..Len(g), g[d] = Fill(r, v[2]) PROVE Filled(r)
      <4>1. Writes(g[d]) /\ g[d].rd = r
        BY <3>3, FillFields
      <4>2. IsTidy(valueToVReg, nextVReg, g, needs, self, d)
        BY <1>4
      <4> HIDE DEF needs, self
      <4>3. \A k \in 1..d : r \notin RegistersRead(g[k])
        BY <4>1, <4>2, Zenon DEF IsTidy
      <4>4. ~(e \in 1..d)
        BY <4>3
      <4>5. d \in 1..(e - 1)
        BY <1>2, <4>4
      <4> QED
        BY <4>1, <4>5
    <3> QED
      BY <3>2, <3>3
  <2>4. CASE v[1] = "arg"
    <3>1. v[2] \in 0..(kernel.params - 1) /\ v = Arg(v[2])
      BY <1>1, <2>2, <2>4, NeededAre, OperandsAre
    <3> QED
      BY <2>1, <3>1 DEF Reached, ArgumentsReady
  <2>5. CASE IsResult(v)
    <3>1. CodeOf(v[2])[v[3]].op # "icmp"
      BY <1>1, <2>5, NeededAre
    <3>2. PICK c \in Blocks : \E j \in DOMAIN CodeOf(c) :
            /\ v \in Range(CodeOf(c)[j].ops) /\ CodeOf(c)[j].op # "br"
            /\ \/ c = b /\ j = i
               \/ /\ CodeOf(b)[i].op = "br" /\ CodeOf(c)[j].op = "icmp"
                  /\ Precedes(kernel.blocks, c, j, b, i)
      BY <1>1, NeededBy
    <3>3. PICK j \in DOMAIN CodeOf(c) :
            /\ v \in Range(CodeOf(c)[j].ops)
            /\ \/ c = b /\ j = i
               \/ CodeOf(c)[j].op = "icmp" /\ Precedes(kernel.blocks, c, j, b, i)
      BY <3>2
    <3>4. CASE c = b /\ j = i
      BY <2>1, <2>2, <2>5, <3>1, <3>3, <3>4, OperandReady
    <3>5. CASE CodeOf(c)[j].op = "icmp" /\ Precedes(kernel.blocks, c, j, b, i)
      BY <2>1, <2>5, <3>3, <3>5 DEF Reached, HasRun
    <3> QED
      BY <3>3, <3>4, <3>5
  <2> QED
    BY <2>2, <2>3, <2>4, <2>5 DEF IsConst, IsResult
<1> QED
  BY <1>5, <1>6, <1>7, <1>8 DEF NumberOf

\* The instructions before the first block.
PrologueForm ==
  /\ Len(prologue) \in Nat
  /\ \A e \in 1..Len(prologue) : /\ prologue[e].op \in {"ADDI", "LDR"}
                                 /\ \/ RegistersRead(prologue[e]) = {VREG_ZERO}
                                    \/ /\ e > 1 /\ Writes(prologue[e - 1])
                                       /\ RegistersRead(prologue[e]) = {prologue[e - 1].rd}
  /\ \A k \in 0..(kernel.params - 1) :
       /\ Arg(k) \in DOMAIN valueToVReg
       /\ \E e \in 1..Len(prologue) : /\ Writes(prologue[e])
                                      /\ prologue[e].rd = valueToVReg[Arg(k)]

LEMMA PrologueIs ==
  ASSUME Selected PROVE PrologueForm
<1>1. Loaded /\ kernel.params \in Nat
  <2>1. kernel \in Kernels /\ 1 \in Blocks
    BY KernelShape DEF Selected, Shape, InCode
  <2>2. position # <<1, 1>>
    BY <2>1 DEF Selected, Finished
  <2> QED
    BY <2>1, <2>2, KernelShape DEF Selected, Shape
<1>2. PICK n \in 0..kernel.params : Len(prologue) = 2 * n /\ \A k \in 0..(n - 1) : LoadsArgument(k)
  BY Zenon DEF Selected, Forms, LoadsArguments
<1>3. n = kernel.params /\ Len(prologue) \in Nat
  BY <1>1, <1>2 DEF Loaded
<1>4. ASSUME NEW k \in 0..(n - 1)
      PROVE  /\ Arg(k) \in DOMAIN valueToVReg
             /\ prologue[2 * k + 1].op = "ADDI" /\ Writes(prologue[2 * k + 1])
             /\ RegistersRead(prologue[2 * k + 1]) = {VREG_ZERO}
             /\ prologue[2 * k + 2].op = "LDR" /\ Writes(prologue[2 * k + 2])
             /\ prologue[2 * k + 2].rd = valueToVReg[Arg(k)]
             /\ RegistersRead(prologue[2 * k + 2]) = {prologue[2 * k + 1].rd}
  <2>1. LoadsArgument(k)
    BY <1>2
  <2>2. PICK t : /\ prologue[2 * k + 1] = Fill(t, 8 * k)
                 /\ prologue[2 * k + 2] = Instruction("LDR", valueToVReg[Arg(k)], t, 0, 0)
    BY <2>1, Zenon DEF LoadsArgument
  <2> DEFINE fill == prologue[2 * k + 1]
             load == prologue[2 * k + 2]
             d == valueToVReg[Arg(k)]
             address == 8 * k
  <2>3. fill = Fill(t, address) /\ load = Instruction("LDR", d, t, 0, 0)
    BY <2>2
  <2> HIDE DEF fill, load, d, address
  <2>4. /\ fill.op = "ADDI" /\ Writes(fill) /\ RegistersRead(fill) = {VREG_ZERO} /\ fill.rd = t
    BY <2>3, FillFields
  <2>5. /\ load.op = "LDR" /\ load.rd = d /\ load.rs1 = t
    BY <2>3, InstructionFields
  <2>6. Writes(load) /\ RegistersRead(load) = {t}
    BY <2>5 DEF Writes, WritingOps, RegistersRead, ThreeRegister
  <2>7. Arg(k) \in DOMAIN valueToVReg
    BY <2>1 DEF LoadsArgument
  <2> QED
    BY <2>4, <2>5, <2>6, <2>7 DEF fill, load, d
<1>5. ASSUME NEW e \in 1..Len(prologue)
      PROVE  \E k \in 0..(n - 1) : e = 2 * k + 1 \/ e = 2 * k + 2
  <2>1. e = 2 * ((e - 1) \div 2) + 1 \/ e = 2 * ((e - 1) \div 2) + 2
    OBVIOUS
  <2>2. (e - 1) \div 2 \in 0..(n - 1)
    BY <1>2, <2>1
  <2> QED
    BY <2>1, <2>2
<1>6. ASSUME NEW e \in 1..Len(prologue)
      PROVE  /\ prologue[e].op \in {"ADDI", "LDR"}
             /\ \/ RegistersRead(prologue[e]) = {VREG_ZERO}
                \/ /\ e > 1 /\ Writes(prologue[e - 1])
                   /\ RegistersRead(prologue[e]) = {prologue[e - 1].rd}
  <2>1. PICK k \in 0..(n - 1) : e = 2 * k + 1 \/ e = 2 * k + 2
    BY <1>5
  <2>2. CASE e = 2 * k + 1
    BY <1>4, <2>2
  <2>3. CASE e = 2 * k + 2
    <3>1. e - 1 = 2 * k + 1 /\ e > 1
      BY <2>3
    <3> QED
      BY <1>4, <2>3, <3>1
  <2> QED
    BY <2>1, <2>2, <2>3
<1>7. ASSUME NEW k \in 0..(n - 1)
      PROVE  \E e \in 1..Len(prologue) : /\ Writes(prologue[e])
                                         /\ prologue[e].rd = valueToVReg[Arg(k)]
  <2>1. 2 * k + 2 \in 1..Len(prologue)
    BY <1>2
  <2> QED
    BY <1>4, <2>1
<1> QED
  BY <1>3, <1>4, <1>6, <1>7 DEF PrologueForm

\* What precedes an instruction precedes those control comes from, or is one of
\* them.
LEMMA NothingPrecedesEntry ==
  ASSUME kernel \in Kernels, NEW c \in Blocks, NEW j \in DOMAIN CodeOf(c)
  PROVE  ~Precedes(kernel.blocks, c, j, 1, 1)
<1>1. c \in Nat /\ j \in Nat \ {0}
  BY KernelShape
<1>2. CASE c = 1
  BY <1>1, <1>2 DEF Precedes
<1>3. CASE c # 1
  BY <1>3 DEF Precedes, Dominates
<1> QED
  BY <1>2, <1>3

LEMMA PrecedesFollowing ==
  ASSUME kernel \in Kernels, NEW b \in Blocks, NEW i \in DOMAIN CodeOf(b),
         NEW c \in Blocks, NEW j \in DOMAIN CodeOf(c), Precedes(kernel.blocks, c, j, b, i + 1)
  PROVE  Precedes(kernel.blocks, c, j, b, i) \/ (c = b /\ j = i)
<1>1. i \in Nat /\ j \in Nat
  BY KernelShape
<1> QED
  BY <1>1 DEF Precedes

LEMMA PrecedesSuccessor ==
  ASSUME kernel \in Kernels, NEW b \in Blocks, NEW s \in Successors(kernel.blocks, b),
         NEW c \in Blocks, NEW j \in DOMAIN CodeOf(c), Precedes(kernel.blocks, c, j, s, 1)
  PROVE  LET i == Len(CodeOf(b))
         IN  Precedes(kernel.blocks, c, j, b, i) \/ (c = b /\ j = i)
<1> DEFINE i == Len(CodeOf(b))
<1>1. /\ DOMAIN CodeOf(b) = 1..i /\ i \in Nat \ {0} /\ Blocks = DOMAIN kernel.blocks
      /\ j \in Nat \ {0}
  BY KernelShape DEF Blocks
<1>2. CASE c = b
  <2>1. j \in 1..i
    BY <1>1, <1>2
  <2> HIDE DEF i
  <2>2. j < i \/ j = i
    BY <1>1, <2>1
  <2> QED
    BY <1>2, <2>2 DEF Precedes, i
<1>3. CASE c # b
  <2>1. c # s
    BY <1>1 DEF Precedes
  <2>2. Dominates(kernel.blocks, c, s)
    BY <2>1 DEF Precedes
  <2>3. CASE c = 1
    BY <1>3, <2>3 DEF Precedes, Dominates
  <2>4. CASE c # 1
    <3>1. PICK S \in SUBSET (DOMAIN kernel.blocks \ {c, s}) :
            1 \in S /\ \A d \in S : Successors(kernel.blocks, d) \subseteq S \cup {c}
      BY <2>1, <2>2, <2>4 DEF Dominates
    <3>2. b \notin S
      BY <2>1, <3>1
    <3>3. S \in SUBSET (DOMAIN kernel.blocks \ {c, b})
      BY <3>1, <3>2
    <3>4. Dominates(kernel.blocks, c, b)
      BY <3>1, <3>3 DEF Dominates
    <3> QED
      BY <1>3, <3>4 DEF Precedes
  <2> QED
    BY <2>3, <2>4
<1> QED
  BY <1>2, <1>3

\* Where the end of a group leads.
LEMMA LastOfBlock ==
  ASSUME Selected, NEW b \in Blocks, NEW i \in DOMAIN CodeOf(b), ~(i < Len(CodeOf(b))),
         NEW g, g = code[b][i]
  PROVE  /\ Len(g) \in Nat \ {0}
         /\ g[Len(g)].op = "EXIT" \/ (g[Len(g)].op = "BR" /\ g[Len(g)].cond = ALWAYS)
<1> DEFINE ins == CodeOf(b)[i]
<1>1. kernel \in Kernels
  BY DEF Selected, Shape, InCode
<1>2. i = Len(CodeOf(b))
  BY <1>1, KernelShape
<1>3. ins.op \in Terminators /\ InItsClass(ins) /\ IsSupported(ins)
  BY <1>1, <1>2, InstructionIsVerified, SupportedInstruction DEF Selected
<1>4. ins.op \in {"br", "ret"}
  BY <1>3 DEF Terminators, IsSupported, IsDropped
<1>5. IsCode(valueToVReg, nextVReg, g, b, i) /\ Len(g) \in Nat
  BY CodeIsFormed DEF Selected
<1>6. Means(valueToVReg, g, ins, Result(b, i))
  BY <1>5 DEF IsCode
<1>7. Frame(g, ins) /\ (ins.op = "br" => MeansBranch(valueToVReg, g, ins))
  BY <1>6, Zenon DEF Means
<1>8. Len(g) \in Nat \ {0}
  BY <1>4, <1>5, <1>7 DEF Frame
<1>9. CASE ins.op = "ret"
  <2>1. Kernel!Ends(ins) /\ Len(g) \in 1..Len(g)
    BY <1>8, <1>9 DEF Kernel!Ends
  <2> QED
    BY <1>7, <1>8, <1>9, <2>1 DEF Frame
<1>10. CASE ins.op = "br"
  <2>1. \E s : g[Len(g)] = Jump(ALWAYS, s)
    BY <1>7, <1>10, Zenon DEF MeansBranch
  <2> QED
    BY <1>8, <2>1, JumpFields
<1> QED
  BY <1>4, <1>9, <1>10

LEMMA JumpsOfGroup ==
  ASSUME Selected, NEW b \in Blocks, NEW i \in DOMAIN CodeOf(b), NEW g, g = code[b][i],
         NEW e \in 1..Len(g), g[e].op = "BR"
  PROVE  /\ i = Len(CodeOf(b))
         /\ BlockLabelled(g[e].labelTarget) \in Successors(kernel.blocks, b)
         /\ \A d \in 1..Len(g) : Writes(g[d]) => d \in 1..(e - 1)
<1> DEFINE ins == CodeOf(b)[i]
<1>1. kernel \in Kernels
  BY DEF Selected, Shape, InCode
<1>2. IsCode(valueToVReg, nextVReg, g, b, i) /\ Len(g) \in Nat /\ InItsClass(ins)
  BY CodeIsFormed DEF Selected
<1>3. Means(valueToVReg, g, ins, Result(b, i))
  BY <1>2 DEF IsCode
<1>4. Frame(g, ins) /\ (ins.op = "br" => MeansBranch(valueToVReg, g, ins))
  BY <1>3, Zenon DEF Means
<1>5. ins.op = "br"
  BY <1>4 DEF Frame
<1>6. i = Len(CodeOf(b))
  BY <1>1, <1>5, InstructionIsVerified DEF Terminators
<1>7. ins.succ \in Seq(Nat) /\ (ins.ops = <<>> => Len(ins.succ) = 1) /\ (ins.ops # <<>> => Len(ins.succ) = 2)
  <2>1. ins \in IRInstruction
    BY <1>1, InstructionIsVerified
  <2>2. ins.ops \in Seq(Operands) /\ ins.succ \in Seq(Nat)
    BY <2>1 DEF IRInstruction
  <2>3. <<Len(ins.ops), Len(ins.succ)>> \in {<<0, 1>>, <<1, 2>>}
    BY <1>2, <1>5 DEF InItsClass
  <2> HIDE DEF ins, Operands
  <2>4. ins.ops = <<>> <=> Len(ins.ops) = 0
    BY <2>2, EmptySeq
  <2> QED
    BY <2>2, <2>3, <2>4
<1>8. \A k \in 1..Len(ins.succ) : ins.succ[k] \in Successors(kernel.blocks, b) /\ ins.succ[k] \in Blocks
  <2> SUFFICES ASSUME NEW k \in 1..Len(ins.succ)
               PROVE  ins.succ[k] \in Successors(kernel.blocks, b) /\ ins.succ[k] \in Blocks
    OBVIOUS
  <2>1. k \in DOMAIN ins.succ
    BY <1>7
  <2>2. ins.succ[k] \in Range(ins.succ)
    BY <2>1 DEF Range
  <2>3. ins \in Range(kernel.blocks[b].code)
    BY DEF Range, CodeOf
  <2>4. Range(ins.succ) \subseteq Blocks
    BY <1>1, InstructionIsVerified
  <2> QED
    BY <2>2, <2>3, <2>4 DEF Successors
<1>9. \E k \in 1..Len(ins.succ) : g[e].labelTarget = BlockName(ins.succ[k])
  <2>1. CASE ins.ops = <<>>
    <3>1. Len(g) = 1 /\ g[1] = Jump(ALWAYS, ins.succ[1])
      BY <1>4, <1>5, <2>1, Zenon DEF MeansBranch
    <3>2. e = 1 /\ 1 \in 1..Len(ins.succ)
      BY <1>7, <2>1, <3>1
    <3> QED
      BY <3>1, <3>2, JumpFields
  <2>2. CASE ins.ops # <<>>
    <3>1. PICK x, y, cond :
            /\ Len(g) > 2 /\ \A d \in 1..(Len(g) - 3) : Writes(g[d])
            /\ g[Len(g) - 2] = Instruction("CMP", 0, x, y, 0)
            /\ g[Len(g) - 1] = Jump(cond, ins.succ[1])
            /\ g[Len(g)] = Jump(ALWAYS, ins.succ[2])
      BY <1>4, <1>5, <2>2, Zenon DEF MeansBranch
    <3>2. g[Len(g) - 2].op = "CMP"
      BY <3>1, InstructionFields
    <3>3. e = Len(g) - 1 \/ e = Len(g)
      <4>1. ~Writes(g[e])
        BY DEF Writes, WritingOps, ThreeRegister
      <4>2. e # Len(g) - 2 /\ ~(e \in 1..(Len(g) - 3))
        BY <3>1, <3>2, <4>1
      <4> QED
        BY <1>2, <4>2
    <3>4. 1 \in 1..Len(ins.succ) /\ 2 \in 1..Len(ins.succ)
      <4>1. Len(ins.succ) = 2
        BY <1>7, <2>2
      <4> QED
        BY <4>1
    <3> QED
      BY <3>1, <3>3, <3>4, JumpFields
  <2> QED
    BY <2>1, <2>2
<1>10. PICK k \in 1..Len(ins.succ) : g[e].labelTarget = BlockName(ins.succ[k])
  BY <1>9
<1>11. BlockLabelled(g[e].labelTarget) = ins.succ[k]
  <2>1. /\ BlockLabelled(g[e].labelTarget) \in Blocks
        /\ BlockName(BlockLabelled(g[e].labelTarget)) = g[e].labelTarget
    BY <1>1, <1>8, <1>10, LabelsAreFound
  <2> QED
    BY <1>8, <1>10, <2>1 DEF Selected, Supported
<1>12. \A d \in 1..Len(g) : Writes(g[d]) => d \in 1..(e - 1)
  <2>1. \A d \in 1..Len(g) : g[d].op \in {"BR", "CMP"} => ~Writes(g[d])
    BY DEF Writes, WritingOps, ThreeRegister
  <2>2. CASE ins.ops = <<>>
    <3>1. Len(g) = 1 /\ g[1] = Jump(ALWAYS, ins.succ[1])
      BY <1>4, <1>5, <2>2, Zenon DEF MeansBranch
    <3>2. ~Writes(g[1])
      BY <3>1, JumpFields
    <3> QED
      BY <3>1, <3>2
  <2>3. CASE ins.ops # <<>>
    <3>1. PICK x, y, cond :
            /\ Len(g) > 2 /\ \A d \in 1..(Len(g) - 3) : Writes(g[d])
            /\ g[Len(g) - 2] = Instruction("CMP", 0, x, y, 0)
            /\ g[Len(g) - 1] = Jump(cond, ins.succ[1])
            /\ g[Len(g)] = Jump(ALWAYS, ins.succ[2])
      BY <1>4, <1>5, <2>3, Zenon DEF MeansBranch
    <3>2. g[Len(g) - 2].op = "CMP" /\ ~Writes(g[Len(g) - 1]) /\ ~Writes(g[Len(g)])
      BY <3>1, InstructionFields, JumpFields
    <3>3. ~Writes(g[Len(g) - 2])
      BY <3>2 DEF Writes, WritingOps, ThreeRegister
    <3>4. ~Writes(g[e])
      BY DEF Writes, WritingOps, ThreeRegister
    <3>5. ~(e \in 1..(Len(g) - 3))
      BY <3>1, <3>4
    <3>6. ASSUME NEW d \in 1..Len(g), Writes(g[d]) PROVE d \in 1..(e - 1)
      <4>1. d # Len(g) - 2 /\ d # Len(g) - 1 /\ d # Len(g)
        BY <3>2, <3>3, <3>6
      <4> QED
        BY <1>2, <3>5, <4>1
    <3> QED
      BY <3>6
  <2> QED
    BY <2>2, <2>3
<1> QED
  BY <1>6, <1>8, <1>11, <1>12

\* A register that has been written stays so.
LEMMA ReadyKept ==
  ASSUME UNCHANGED selectorVars, DOMAIN regs \subseteq DOMAIN regs', Shape
  PROVE  /\ UNCHANGED <<kernel, Blocks, code, valueToVReg>> /\ \A b : CodeOf(b)' = CodeOf(b)
         /\ Supported' => Supported
         /\ \A r : Filled(r) => Filled(r)'
         /\ ArgumentsReady => ArgumentsReady'
         /\ \A c, j : HasRun(c, j) => HasRun(c, j)'
         /\ \A b, i : Reached(b, i) => Reached(b, i)'
<1>1. UNCHANGED <<kernel, position, valueToVReg, nextVReg, prologue, code>>
  BY DEF selectorVars
<1>2. UNCHANGED Blocks /\ \A b : CodeOf(b)' = CodeOf(b)
  BY <1>1 DEF Blocks, CodeOf
<1>3. Supported' => Supported
  <2>1. nextVReg \in Nat
    BY DEF Shape, Numbered
  <2> QED
    BY <1>1, <2>1, SupportKept
<1>4. \A r : Filled(r) => Filled(r)'
  BY DEF Filled
<1>5. ArgumentsReady => ArgumentsReady'
  BY <1>1, <1>4, Zenon DEF ArgumentsReady
<1>6. \A c, j : HasRun(c, j) => HasRun(c, j)'
  BY <1>1, <1>2, <1>4, Zenon DEF HasRun
<1>7. \A b, i : Reached(b, i) => Reached(b, i)'
  BY <1>1, <1>2, <1>5, <1>6, Zenon DEF Reached
<1> QED
  BY <1>1, <1>2, <1>3, <1>4, <1>5, <1>6, <1>7

\* The operands of a comparison are ready when the lane passes it.
LEMMA ComparedReady ==
  ASSUME Selected, NEW b \in Blocks, NEW i \in DOMAIN CodeOf(b), Reached(b, i),
         CodeOf(b)[i].op = "icmp",
         NEW v \in Range(CodeOf(b)[i].ops), IsResult(v)
  PROVE  v \in DOMAIN valueToVReg /\ Filled(valueToVReg[v])
<1> DEFINE ins == CodeOf(b)[i]
<1>1. kernel \in Kernels /\ Supported
  BY DEF Selected, Shape, InCode
<1>2. ins \in IRInstruction /\ Defined(kernel, b, i, v)
  BY <1>1, InstructionIsVerified
<1>3. v \in Operands
  <2>1. ins.ops \in Seq(Operands)
    BY <1>2 DEF IRInstruction
  <2> HIDE DEF Operands, ins
  <2> QED
    BY <2>1, RangeOfTwo DEF ins
<1>4. v[2] \in Blocks /\ v[3] \in DOMAIN CodeOf(v[2]) /\ v = Result(v[2], v[3])
  BY <1>2, <1>3, OperandsAre DEF Defined, Blocks, CodeOf
<1>5. CodeOf(v[2])[v[3]].op # "icmp"
  <2> SUFFICES ASSUME CodeOf(v[2])[v[3]].op = "icmp" PROVE FALSE
    OBVIOUS
  <2>1. BranchOnly(Result(v[2], v[3]))
    BY <1>1, <1>4, SupportedInstruction
  <2>2. BranchOnly(v)
    BY <1>4, <2>1
  <2>3. ins.op = "br"
    BY <2>2 DEF BranchOnly
  <2> QED
    BY <2>3
<1> QED
  BY <1>3, <1>5, OperandReady

\* The lane has come to the end of a group, by running it or by a jump.
\* r is filled after the step. In Filled(e)' the prime is also that of e.
FilledAfter(r) == r = VREG_ZERO \/ r \in DOMAIN regs'

LEMMA RunThrough ==
  ASSUME Selected, UNCHANGED selectorVars, DOMAIN regs \subseteq DOMAIN regs',
         NEW b \in Blocks, NEW i \in DOMAIN CodeOf(b), Reached(b, i),
         \A d \in 1..Len(code[b][i]) : Writes(code[b][i][d]) => FilledAfter(code[b][i][d].rd)
  PROVE  HasRun(b, i)'
<1>1. /\ UNCHANGED <<Blocks, code, valueToVReg>> /\ \A c : CodeOf(c)' = CodeOf(c)
      /\ \A r : (Filled(r) => Filled(r)') /\ (FilledAfter(r) <=> Filled(r)')
  BY ReadyKept DEF Selected, Filled, FilledAfter
<1>2. \A d \in 1..Len(code'[b][i]) : Writes(code'[b][i][d]) => FilledAfter(code[b][i][d].rd)
  BY <1>1
<1>3. CodeOf(b)[i].op = "icmp" =>
        \A v \in Range(CodeOf(b)[i].ops) :
          IsResult(v) => v \in DOMAIN valueToVReg /\ Filled(valueToVReg[v])'
  BY <1>1, ComparedReady
<1> QED
  BY <1>1, <1>2, <1>3, Zenon DEF HasRun

LEMMA ReachedNext ==
  ASSUME Selected, UNCHANGED selectorVars, DOMAIN regs \subseteq DOMAIN regs',
         NEW b \in Blocks, NEW i \in DOMAIN CodeOf(b), Reached(b, i), HasRun(b, i)'
  PROVE  /\ Reached(b, i + 1)'
         /\ i = Len(CodeOf(b)) => \A s \in Successors(kernel.blocks, b) : Reached(s, 1)'
<1>1. kernel \in Kernels
  BY DEF Selected, Shape, InCode
<1>2. /\ UNCHANGED <<kernel, Blocks>> /\ \A c : CodeOf(c)' = CodeOf(c)
      /\ ArgumentsReady => ArgumentsReady'
      /\ \A c, j : HasRun(c, j) => HasRun(c, j)'
  BY ReadyKept DEF Selected
<1>3. /\ ArgumentsReady'
      /\ \A c \in Blocks : \A j \in DOMAIN CodeOf(c) :
           Precedes(kernel.blocks, c, j, b, i) => HasRun(c, j)'
  BY <1>2 DEF Reached
<1>4. \A c \in Blocks : \A j \in DOMAIN CodeOf(c) :
        Precedes(kernel.blocks, c, j, b, i + 1) => HasRun(c, j)'
  BY <1>1, <1>3, PrecedesFollowing
<1>5. ASSUME i = Len(CodeOf(b)), NEW s \in Successors(kernel.blocks, b)
      PROVE  \A c \in Blocks : \A j \in DOMAIN CodeOf(c) :
               Precedes(kernel.blocks, c, j, s, 1) => HasRun(c, j)'
  BY <1>1, <1>3, <1>5, PrecedesSuccessor
<1> QED
  BY <1>2, <1>3, <1>4, <1>5, Zenon DEF Reached

\* The lane does not fault.
LEMMA ReadsFilled ==
  ASSUME LaneShape, Selected, LaneFilled, at \notin {Returned, Fault},
         done < Len(Group), NEW r \in RegistersRead(NextInstruction)
  PROVE  Filled(r)
<1>1. DoneWritten /\ done \in Nat /\ Finished
  BY DEF LaneFilled, Selected, LaneShape
<1>2. CASE at = NotStarted
  <2>1. Group = prologue
    BY <1>2 DEF Group
  <2>2. PrologueForm
    BY PrologueIs
  <2>3. done + 1 \in 1..Len(prologue)
    BY <1>1, <2>1, <2>2 DEF PrologueForm
  <2>4. r = VREG_ZERO \/ (done + 1 > 1 /\ Writes(prologue[done]) /\ r = prologue[done].rd)
    <3>1. (done + 1) - 1 = done
      BY <1>1
    <3> QED
      BY <2>1, <2>2, <2>3, <3>1 DEF PrologueForm, NextInstruction
  <2>5. CASE r = VREG_ZERO
    BY <2>5 DEF Filled
  <2>6. CASE done + 1 > 1 /\ Writes(prologue[done]) /\ r = prologue[done].rd
    <3>1. done \in 1..done
      BY <1>1, <2>6
    <3> QED
      BY <1>1, <2>1, <2>6, <3>1 DEF DoneWritten
  <2> QED
    BY <2>4, <2>5, <2>6
<1>3. CASE at # NotStarted
  <2>1. PICK b \in Blocks : \E i \in DOMAIN CodeOf(b) : at = <<b, i>>
    BY <1>3 DEF LaneShape, IsPlace
  <2>2. PICK i \in DOMAIN CodeOf(b) : at = <<b, i>>
    BY <2>1
  <2>3. Reached(b, i)
    BY <2>2 DEF LaneFilled, Selected
  <2> DEFINE g == code[b][i]
  <2>4. Group = g
    BY <1>3, <2>2 DEF Group
  <2>5. Len(g) \in Nat
    BY CodeIsFormed DEF Selected
  <2>6. done + 1 \in 1..Len(g) /\ (done + 1) - 1 = done
    BY <1>1, <2>4, <2>5
  <2>7. \A d \in 1..((done + 1) - 1) : Writes(g[d]) => Filled(g[d].rd)
    BY <1>1, <2>4, <2>6 DEF DoneWritten
  <2>8. r \in RegistersRead(g[done + 1])
    BY <2>4 DEF NextInstruction
  <2> HIDE DEF g
  <2>9. g = code[b][i]
    BY DEF g
  <2> QED
    BY <2>3, <2>6, <2>7, <2>8, <2>9, GroupReads
<1> QED
  BY <1>2, <1>3

LEMMA Entered ==
  ASSUME Selected, UNCHANGED selectorVars, DOMAIN regs \subseteq DOMAIN regs',
         \A d \in 1..Len(prologue) : Writes(prologue[d]) => FilledAfter(prologue[d].rd)
  PROVE  1 \in Blocks /\ 1 \in DOMAIN CodeOf(1) /\ Reached(1, 1)'
<1>1. kernel \in Kernels /\ PrologueForm
  BY PrologueIs DEF Selected, Shape, InCode
<1>2. /\ UNCHANGED <<kernel, Blocks, valueToVReg>> /\ \A c : CodeOf(c)' = CodeOf(c)
  BY ReadyKept DEF Selected
<1>3. ArgumentsReady'
  <2>1. \A r : FilledAfter(r) <=> Filled(r)'
    BY DEF FilledAfter, Filled
  <2>2. \A k \in 0..(kernel.params - 1) : Arg(k) \in DOMAIN valueToVReg /\ FilledAfter(valueToVReg[Arg(k)])
    BY <1>1 DEF PrologueForm
  <2> QED
    BY <1>2, <2>1, <2>2, Zenon DEF ArgumentsReady
<1>4. 1 \in Blocks /\ 1 \in DOMAIN CodeOf(1)
  BY <1>1, KernelShape
<1>5. \A c \in Blocks : \A j \in DOMAIN CodeOf(c) : ~Precedes(kernel.blocks, c, j, 1, 1)
  BY <1>1, NothingPrecedesEntry
<1> QED
  BY <1>2, <1>3, <1>4, <1>5, Zenon DEF Reached

LEMMA FallsThrough ==
  ASSUME LaneShape, Selected, LaneFilled, at \notin {Returned, Fault},
         UNCHANGED selectorVars, DOMAIN regs \subseteq DOMAIN regs',
         \A d \in 1..Len(Group) : Writes(Group[d]) => FilledAfter(Group[d].rd),
         Len(Group) = 0 \/ ~(Group[Len(Group)].op = "EXIT" \/ (Group[Len(Group)].op = "BR" /\ Group[Len(Group)].cond = ALWAYS))
  PROVE  \E b \in Blocks : \E i \in DOMAIN CodeOf(b) : Fallthrough = <<b, i>> /\ Reached(b, i)'
<1>1. CASE at = NotStarted
  <2>1. Group = prologue /\ Fallthrough = <<1, 1>>
    BY <1>1 DEF Group, Fallthrough
  <2>2. 1 \in Blocks /\ 1 \in DOMAIN CodeOf(1) /\ Reached(1, 1)'
    BY <2>1, Entered
  <2> QED
    BY <2>1, <2>2
<1>2. CASE at # NotStarted
  <2>1. PICK b \in Blocks : \E i \in DOMAIN CodeOf(b) : at = <<b, i>>
    BY <1>2 DEF LaneShape, IsPlace
  <2>2. PICK i \in DOMAIN CodeOf(b) : at = <<b, i>>
    BY <2>1
  <2>3. Reached(b, i) /\ Group = code[b][i] /\ at[1] = b /\ at[2] = i
    BY <1>2, <2>2 DEF LaneFilled, Selected, Group
  <2>4. HasRun(b, i)'
    BY <2>3, RunThrough
  <2>5. Reached(b, i + 1)'
    BY <2>3, <2>4, ReachedNext
  <2>6. i < Len(CodeOf(b))
    <3> SUFFICES ASSUME ~(i < Len(CodeOf(b))) PROVE FALSE
      OBVIOUS
    <3> DEFINE g == code[b][i]
    <3>1. g = code[b][i] /\ g = Group
      BY <2>3
    <3> HIDE DEF g
    <3>2. /\ Len(g) \in Nat \ {0}
          /\ g[Len(g)].op = "EXIT" \/ (g[Len(g)].op = "BR" /\ g[Len(g)].cond = ALWAYS)
      BY <3>1, LastOfBlock
    <3> QED
      BY <3>1, <3>2
  <2>7. Fallthrough = <<b, i + 1>>
    BY <1>2, <2>3, <2>6 DEF Fallthrough
  <2>8. i + 1 \in DOMAIN CodeOf(b)
    <3>1. DOMAIN CodeOf(b) = 1..Len(CodeOf(b)) /\ Len(CodeOf(b)) \in Nat
      BY KernelShape DEF Selected, Shape, InCode
    <3> QED
      BY <2>6, <3>1
  <2> QED
    BY <2>5, <2>7, <2>8
<1> QED
  BY <1>1, <1>2

LEMMA PlacesApart ==
  ASSUME Shape, NEW b \in Blocks, NEW i \in DOMAIN CodeOf(b)
  PROVE  <<b, i>> \notin {NotStarted, Returned, Fault}
<1>1. kernel \in Kernels
  BY DEF Shape, InCode
<1>2. Blocks = 1..Len(kernel.blocks) /\ DOMAIN CodeOf(b) = 1..Len(CodeOf(b))
  BY <1>1, KernelShape
<1>3. b \in Nat \ {0} /\ i \in Nat \ {0}
  BY <1>2
<1> QED
  BY <1>3 DEF NotStarted, Returned, Fault

\* A group is left for a place that has been reached, or for good.
LEMMA Left ==
  ASSUME Selected, UNCHANGED selectorVars, DOMAIN regs \subseteq DOMAIN regs', NEW to, Leave(to),
         \/ to = Returned
         \/ \E b \in Blocks : \E i \in DOMAIN CodeOf(b) : to = <<b, i>> /\ Reached(b, i)'
  PROVE  LaneFilled'
<1>1. UNCHANGED Blocks /\ \A c : CodeOf(c)' = CodeOf(c)
  BY ReadyKept DEF Selected
<1>2. at' = to /\ done' = 0
  BY DEF Leave
<1>3. \A b \in Blocks : \A i \in DOMAIN CodeOf(b) : <<b, i>> \notin {NotStarted, Returned, Fault}
  BY PlacesApart DEF Selected
<1>4. at' # Fault
  <2>1. Returned # Fault
    BY DEF Returned, Fault
  <2> QED
    BY <1>2, <1>3, <2>1, Zenon
<1>5. DoneWritten'
  <2>1. 1..0 = {}
    OBVIOUS
  <2> QED
    BY <1>2, <2>1, Zenon DEF DoneWritten
<1>6. \A b \in Blocks : \A i \in DOMAIN CodeOf(b) : at' = <<b, i>> => Reached(b, i)'
  <2> SUFFICES ASSUME NEW b \in Blocks, NEW i \in DOMAIN CodeOf(b), at' = <<b, i>> PROVE Reached(b, i)'
    BY Zenon
  <2>1. to # Returned
    BY <1>2, <1>3
  <2>2. PICK c \in Blocks : \E j \in DOMAIN CodeOf(c) : to = <<c, j>> /\ Reached(c, j)'
    BY <2>1
  <2>3. PICK j \in DOMAIN CodeOf(c) : to = <<c, j>> /\ Reached(c, j)'
    BY <2>2
  <2>4. c = b /\ j = i
    BY <1>2, <2>3
  <2> QED
    BY <2>3, <2>4
<1> QED
  BY <1>1, <1>4, <1>5, <1>6, Zenon DEF LaneFilled

LEMMA SelectsFirst ==
  ASSUME LaneShape, Select
  PROVE  at = NotStarted /\ done = 0 /\ UNCHANGED kernel /\ ~Finished
<1>1. Finished => ~LoadArgument
  <2>1. Finished => Loaded
    <3>1. 1 \in Blocks
      BY KernelShape DEF LaneShape, Shape, InCode
    <3>2. position = <<1, 1>> => ~Finished
      BY <3>1 DEF Finished
    <3> QED
      BY <3>2 DEF LaneShape, Shape
  <2> QED
    BY <2>1 DEF LoadArgument
<1>2. Next /\ ~LoadArgument => ~Finished /\ Handled
  BY HandlersPush DEF LaneShape, Shape
<1>3. ~Finished
  BY <1>1, <1>2 DEF Select
<1>4. UNCHANGED kernel
  BY <1>2 DEF Select, LoadArgument, Handled, Handle
<1> QED
  BY <1>3, <1>4 DEF LaneShape

\* What an instruction writes is written.
LEMMA ExecuteFills ==
  ASSUME NEW mi, Execute(mi)
  PROVE  DOMAIN regs \subseteq DOMAIN regs' /\ (Writes(mi) => FilledAfter(mi.rd))
  BY DEF Execute, Updated, Writes, WritingOps, FilledAfter, ThreeRegister

LEMMA LaneFilledKept ==
  ASSUME LaneShape, Forms, LaneFilled, [LaneNext]_<<selectorVars, laneVars>>
  PROVE  LaneFilled'
<1> SUFFICES ASSUME Supported' PROVE LaneFilled'
  BY DEF LaneFilled
<1>0. Shape
  BY DEF LaneShape
<1>1. ASSUME UNCHANGED selectorVars, Finished PROVE Selected /\ at # Fault
  <2>1. Supported
    <3>1. nextVReg \in Nat /\ UNCHANGED <<kernel, nextVReg>>
      BY <1>0, <1>1 DEF Shape, Numbered, selectorVars
    <3> QED
      BY <3>1, SupportKept
  <2> QED
    BY <1>0, <1>1, <2>1 DEF Selected, LaneFilled
<1>2. CASE Select
  <2>1. at' = NotStarted /\ done' = 0 /\ UNCHANGED <<Blocks, kernel>> /\ \A b : CodeOf(b)' = CodeOf(b)
    BY <1>2, SelectsFirst DEF Select, laneVars, Blocks, CodeOf
  <2>2. \A b \in Blocks : \A i \in DOMAIN CodeOf(b) : <<b, i>> # at'
    BY <1>0, <2>1, PlacesApart
  <2>3. at' # Fault
    BY <2>1 DEF NotStarted, Fault
  <2>4. DoneWritten'
    <3>1. 1..0 = {}
      OBVIOUS
    <3> QED
      BY <2>1, <3>1, Zenon DEF DoneWritten
  <2> QED
    BY <2>1, <2>2, <2>3, <2>4, Zenon DEF LaneFilled
<1>3. CASE Pass
  <2>1. Running /\ Leave(Fallthrough) /\ UNCHANGED selectorVars /\ UNCHANGED regs /\ Len(Group) = 0
    BY <1>3 DEF Pass
  <2>2. Selected /\ at \notin {Returned, Fault}
    BY <1>1, <2>1 DEF Running
  <2>3. \A d \in 1..Len(Group) : Writes(Group[d]) => FilledAfter(Group[d].rd)
    BY <2>1
  <2>4. \E b \in Blocks : \E i \in DOMAIN CodeOf(b) : Fallthrough = <<b, i>> /\ Reached(b, i)'
    BY <2>1, <2>2, <2>3, FallsThrough
  <2> QED
    BY <2>1, <2>2, <2>4, Left
<1>4. CASE Step
  <2>1. /\ Running /\ done < Len(Group) /\ UNCHANGED selectorVars
        /\ ~Taken(NextInstruction) /\ NextInstruction.op # "EXIT"
        /\ Execute(NextInstruction)
        /\ IF done + 1 = Len(Group) THEN Leave(Fallthrough)
           ELSE done' = done + 1 /\ UNCHANGED <<at, env, steps>>
    BY <1>4 DEF Step, Ready
  <2>2. Selected /\ at \notin {Returned, Fault} /\ Finished
    BY <1>1, <2>1 DEF Running
  <2>3. DOMAIN regs \subseteq DOMAIN regs' /\ (Writes(NextInstruction) => FilledAfter(NextInstruction.rd))
    BY <2>1, ExecuteFills
  <2>4. DoneWritten /\ done \in Nat
    BY <2>2 DEF LaneFilled, Selected, LaneShape
  <2>5. /\ UNCHANGED <<kernel, Blocks, code>> /\ \A b : CodeOf(b)' = CodeOf(b)
        /\ \A r : (Filled(r) => FilledAfter(r)) /\ (FilledAfter(r) <=> Filled(r)')
        /\ \A b, i : Reached(b, i) => Reached(b, i)'
    BY <1>0, <2>1, <2>3, ReadyKept DEF Filled, FilledAfter
  <2>6. \A d \in 1..(done + 1) : Writes(Group[d]) => FilledAfter(Group[d].rd)
    <3> SUFFICES ASSUME NEW d \in 1..(done + 1), Writes(Group[d]) PROVE FilledAfter(Group[d].rd)
      BY Zenon
    <3>1. CASE d = done + 1
      BY <2>3, <3>1 DEF NextInstruction
    <3>2. CASE d # done + 1
      <4>1. d \in 1..done
        BY <2>4, <3>2
      <4>2. Filled(Group[d].rd)
        BY <2>4, <4>1 DEF DoneWritten
      <4> QED
        BY <2>5, <4>2
    <3> QED
      BY <3>1, <3>2
  <2>7. CASE done + 1 = Len(Group)
    <3>1. Leave(Fallthrough)
      BY <2>1, <2>7
    <3>2. ~(Group[Len(Group)].op = "EXIT" \/ (Group[Len(Group)].op = "BR" /\ Group[Len(Group)].cond = ALWAYS))
      <4>1. NextInstruction = Group[Len(Group)]
        BY <2>7 DEF NextInstruction
      <4> QED
        BY <2>1, <4>1 DEF Taken
    <3>3. \E b \in Blocks : \E i \in DOMAIN CodeOf(b) : Fallthrough = <<b, i>> /\ Reached(b, i)'
      <4>1. \A d \in 1..Len(Group) : Writes(Group[d]) => FilledAfter(Group[d].rd)
        BY <2>6, <2>7
      <4> QED
        BY <2>1, <2>2, <2>3, <3>2, <4>1, FallsThrough
    <3> QED
      BY <2>1, <2>2, <2>3, <3>1, <3>3, Left
  <2>8. CASE done + 1 # Len(Group)
    <3>1. done' = done + 1 /\ at' = at
      BY <2>1, <2>8
    <3>2. Group' = Group
      BY <2>1, <3>1 DEF Group, selectorVars
    <3>3. DoneWritten'
      BY <2>5, <2>6, <3>1, <3>2, Zenon DEF DoneWritten
    <3>4. \A b \in Blocks : \A i \in DOMAIN CodeOf(b) : at = <<b, i>> => Reached(b, i)
      BY <2>2 DEF LaneFilled, Selected
    <3>5. at' # Fault
      BY <2>2, <3>1
    <3> QED
      BY <2>5, <3>1, <3>3, <3>4, <3>5, Zenon DEF LaneFilled
  <2> QED
    BY <2>7, <2>8
<1>5. CASE TakeBranch
  <2>1. /\ Running /\ done < Len(Group) /\ UNCHANGED selectorVars /\ UNCHANGED regs
        /\ NextInstruction.op = "BR"
        /\ Leave(<<BlockLabelled(NextInstruction.labelTarget), 1>>)
    BY <1>5 DEF TakeBranch, Ready, Taken
  <2>2. Selected /\ at \notin {Returned, Fault}
    BY <1>1, <2>1 DEF Running
  <2>3. DoneWritten /\ done \in Nat /\ Finished
    BY <2>2 DEF LaneFilled, Selected, LaneShape
  <2>4. at # NotStarted
    <3> SUFFICES ASSUME at = NotStarted PROVE FALSE
      OBVIOUS
    <3>1. Group = prologue /\ PrologueForm
      BY <2>2, PrologueIs DEF Group
    <3>2. done + 1 \in 1..Len(prologue)
      BY <2>1, <2>3, <3>1 DEF PrologueForm
    <3> QED
      BY <2>1, <3>1, <3>2 DEF PrologueForm, NextInstruction
  <2>5. PICK b \in Blocks : \E i \in DOMAIN CodeOf(b) : at = <<b, i>>
    BY <2>2, <2>4 DEF LaneShape, IsPlace
  <2>6. PICK i \in DOMAIN CodeOf(b) : at = <<b, i>>
    BY <2>5
  <2> DEFINE g == code[b][i]
             e == done + 1
  <2>0. PICK s : s = BlockLabelled(NextInstruction.labelTarget)
    OBVIOUS
  <2>7. Reached(b, i) /\ Group = g
    BY <2>2, <2>4, <2>6 DEF LaneFilled, Selected, Group
  <2>8. Len(g) \in Nat
    BY <2>2, CodeIsFormed DEF Selected
  <2>9. e \in 1..Len(g) /\ NextInstruction = g[e] /\ g[e].op = "BR" /\ g = code[b][i]
    BY <2>1, <2>3, <2>7, <2>8 DEF NextInstruction
  <2>10. /\ i = Len(CodeOf(b)) /\ s \in Successors(kernel.blocks, b)
         /\ \A d \in 1..Len(g) : Writes(g[d]) => d \in 1..(e - 1)
    <3> HIDE DEF g, e
    <3>1. /\ i = Len(CodeOf(b)) /\ BlockLabelled(g[e].labelTarget) \in Successors(kernel.blocks, b)
          /\ \A d \in 1..Len(g) : Writes(g[d]) => d \in 1..(e - 1)
      BY <2>2, <2>9, JumpsOfGroup
    <3> QED
      BY <2>0, <2>9, <3>1
  <2>11. \A r : Filled(r) => FilledAfter(r)
    BY <2>1 DEF Filled, FilledAfter
  <2>12. \A d \in 1..Len(g) : Writes(g[d]) => FilledAfter(g[d].rd)
    <3> SUFFICES ASSUME NEW d \in 1..Len(g), Writes(g[d]) PROVE FilledAfter(g[d].rd)
      BY Zenon
    <3>1. d \in 1..done
      BY <2>3, <2>10
    <3>2. Filled(g[d].rd)
      BY <2>3, <2>7, <3>1 DEF DoneWritten
    <3> QED
      BY <2>11, <3>2
  <2>13. HasRun(b, i)'
    BY <2>1, <2>2, <2>7, <2>12, RunThrough
  <2>14. Reached(s, 1)'
    BY <2>1, <2>2, <2>7, <2>10, <2>13, ReachedNext
  <2>15. s \in Blocks /\ 1 \in DOMAIN CodeOf(s)
    <3>1. kernel \in Kernels
      BY <2>2 DEF Selected, Shape, InCode
    <3>2. IsVerifiedBlock(kernel, b)
      BY <3>1, VerifiedAssumption DEF IsVerified, Blocks
    <3>3. s \in Blocks
      BY <2>10, <3>2 DEF IsVerifiedBlock, Blocks
    <3> QED
      BY <3>1, <3>3, KernelShape
  <2>16. Leave(<<s, 1>>)
    BY <2>0, <2>1
  <2>17. \E c \in Blocks : \E j \in DOMAIN CodeOf(c) : <<s, 1>> = <<c, j>> /\ Reached(c, j)'
    BY <2>14, <2>15
  <2> QED
    BY <2>1, <2>2, <2>16, <2>17, Left
<1>6. CASE Exit
  <2>1. Running /\ Leave(Returned) /\ UNCHANGED selectorVars /\ UNCHANGED regs
    BY <1>6 DEF Exit, Ready
  <2>2. Selected
    BY <1>1, <2>1 DEF Running
  <2> QED
    BY <2>1, <2>2, Left
<1>7. CASE ReadUnfilled
  <2>1. /\ Running /\ UNCHANGED selectorVars /\ done < Len(Group)
        /\ \E r \in RegistersRead(NextInstruction) : ~Filled(r)
    BY <1>7 DEF ReadUnfilled
  <2>2. Selected /\ at \notin {Returned, Fault}
    BY <1>1, <2>1 DEF Running
  <2> QED
    BY <2>1, <2>2, ReadsFilled
<1>8. CASE UNCHANGED <<selectorVars, laneVars>>
  <2>1. UNCHANGED selectorVars /\ UNCHANGED <<at, done, regs>>
    BY <1>8 DEF laneVars
  <2>2. /\ UNCHANGED <<kernel, Blocks, code, prologue>> /\ \A b : CodeOf(b)' = CodeOf(b)
        /\ Supported
        /\ \A r : Filled(r) => Filled(r)'
        /\ \A b, i : Reached(b, i) => Reached(b, i)'
    BY <1>0, <2>1, ReadyKept DEF selectorVars
  <2>3. Group' = Group /\ (Finished' <=> Finished)
    BY <2>1, <2>2 DEF Group, Finished, selectorVars
  <2>4. DoneWritten => DoneWritten'
    BY <2>1, <2>2, <2>3, Zenon DEF DoneWritten
  <2> QED
    BY <2>1, <2>2, <2>3, <2>4, Zenon DEF LaneFilled
<1> QED
  BY <1>2, <1>3, <1>4, <1>5, <1>6, <1>7, <1>8 DEF LaneNext

LEMMA LaneFilledAtFirst == ASSUME LaneInit, LaneShape PROVE LaneFilled
<1>1. at = NotStarted /\ done = 0
  BY DEF LaneInit
<1>2. \A b \in Blocks : \A i \in DOMAIN CodeOf(b) : <<b, i>> # at
  BY <1>1, PlacesApart DEF LaneShape
<1>3. at # Fault
  BY <1>1 DEF NotStarted, Fault
<1>4. DoneWritten
  <2>1. 1..0 = {}
    OBVIOUS
  <2> QED
    BY <1>1, <2>1, Zenon DEF DoneWritten
<1> QED
  BY <1>2, <1>3, <1>4, Zenon DEF LaneFilled

\* No instruction of a supported kernel reads a register that nothing on the
\* way to it has written, and the lane does not leave the function.
THEOREM OperandsAreFilled == LaneSpec => []OperandsFilled
<1>1. LaneInit => LaneShape /\ Forms /\ LaneFilled
  BY LaneShapeAtFirst, FormsAtFirst, LaneFilledAtFirst DEF LaneInit
<1>2. LaneShape /\ Forms /\ LaneFilled /\ [LaneNext]_<<selectorVars, laneVars>>
        => LaneShape' /\ Forms' /\ LaneFilled'
  <2> SUFFICES ASSUME LaneShape, Forms, LaneFilled, [LaneNext]_<<selectorVars, laneVars>>
               PROVE  LaneShape' /\ Forms' /\ LaneFilled'
    OBVIOUS
  <2>1. [Next]_selectorVars
    BY DEF LaneNext, Select, Pass, Step, TakeBranch, Exit, ReadUnfilled
  <2>2. Forms'
    BY <2>1, FormsKept DEF LaneShape
  <2> QED
    BY <2>2, LaneShapeKept, LaneFilledKept
<1>3. LaneShape /\ Forms /\ LaneFilled => OperandsFilled
  BY DEF LaneFilled, OperandsFilled
<1> QED
  BY <1>1, <1>2, <1>3, PTL DEF LaneSpec

=============================================================================
