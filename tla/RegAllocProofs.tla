--------------------------- MODULE RegAllocProofs ---------------------------
(***************************************************************************)
(* Machine-checked proofs about RegAlloc, for every number of physical     *)
(* registers, every set of virtual registers and every set of programs;    *)
(* and, in the last section, about LaneExecution: a program without loops, *)
(* allocated this way, computes with its own values.                       *)
(***************************************************************************)
EXTENDS LaneExecution, TLAPS, WellFoundedInduction, SequenceTheorems,
        FiniteSetTheorems

-----------------------------------------------------------------------------
(* Minima and maxima.                                                      *)

\* *freePool.begin() is defined and smallest: a set of naturals that is not
\* empty has a minimum.
LEMMA MinOfNats ==
  ASSUME NEW S, S \subseteq Nat, S # {}
  PROVE  /\ Min(S) \in S
         /\ \A y \in S : Min(S) <= y
<1> DEFINE Less == OpToRel(<, Nat)
<1>1. IsWellFoundedOn(Less, Nat)
  BY NatLessThanWellFounded
<1>2. \A x, y \in Nat : <<y, x>> \notin Less => ~ (y < x)
  BY Zenon DEF OpToRel
<1> HIDE DEF Less
<1>3. PICK x \in S : \A y \in S : <<y, x>> \notin Less
  BY <1>1, WFMin
<1>4. \A y \in S : ~ (y < x)
  BY <1>2, <1>3, Zenon
<1>5. \A y \in S : x <= y
  BY <1>4
<1> QED
  BY <1>5 DEF Min

\* std::min and std::max of two positions.
LEMMA MinMaxOfTwo ==
  ASSUME NEW a \in Nat, NEW b \in Nat
  PROVE  /\ Min({a, b}) \in {a, b} /\ Min({a, b}) <= a /\ Min({a, b}) <= b
         /\ Max({a, b}) \in {a, b} /\ Max({a, b}) >= a /\ Max({a, b}) >= b
<1>1. \E x \in {a, b} : \A y \in {a, b} : x <= y
  <2>1. CASE a <= b
    BY <2>1
  <2>2. CASE b <= a
    BY <2>2
  <2> QED
    BY <2>1, <2>2
<1>2. \E x \in {a, b} : \A y \in {a, b} : x >= y
  <2>1. CASE a <= b
    BY <2>1
  <2>2. CASE b <= a
    BY <2>2
  <2> QED
    BY <2>1, <2>2
<1> QED
  BY <1>1, <1>2 DEF Min, Max

-----------------------------------------------------------------------------
(* The inductive invariant.                                                *)

\* The types of what the scan reads and writes.
StateType ==
  /\ phase \in {"ranges", "scan", "rewrite", "ok", "failed"}
  /\ DOMAIN intervals \subseteq VRegs
  /\ intervals \in [DOMAIN intervals -> LiveRange]
  /\ \A v \in DOMAIN intervals : intervals[v].birth <= intervals[v].death
  /\ freePool \subseteq PhysRegs
  /\ active \subseteq DOMAIN vregToPhys
  /\ vregToPhys \in [DOMAIN vregToPhys -> PhysRegs]

\* Which ranges have been scanned: none before the scan, all but the pending
\* ones in it, all of them once it has succeeded.
Progress ==
  /\ phase = "ranges" => /\ DOMAIN vregToPhys = {}
                         /\ pending = {}
  /\ phase # "ranges" => /\ DOMAIN vregToPhys = DOMAIN intervals \ pending
                         /\ pending \subseteq DOMAIN intervals
  /\ phase \in {"rewrite", "ok"} => pending = {}

\* Scanned ranges begin before pending ones; those no longer active even end
\* before them.
ScanOrder ==
  \A w \in pending, v \in DOMAIN vregToPhys :
    /\ intervals[v].birth <= intervals[w].birth
    /\ v \notin active => intervals[v].death < intervals[w].birth

\* The registers: a free one is held by no active range, two active ranges
\* hold different ones, and there is no third place for one to be.
PoolDisjoint ==
  /\ \A v \in active : vregToPhys[v] \notin freePool
  /\ \A v, w \in active : vregToPhys[v] = vregToPhys[w] => v = w
  /\ phase # "ranges" =>
       \A p \in PhysRegs : p \in freePool \/ \E v \in active : vregToPhys[v] = p

ScanInv == StateType /\ Progress /\ ScanOrder /\ PoolDisjoint /\ NoInterference

\* The program: every position walked lies in the intervals of the registers
\* it mentions, and the rewriting has reached globalIdx.
ProgramInv ==
  /\ source \in Seq(Instruction)
  /\ globalIdx \in Nat \ {0}
  /\ blocks \in Seq([rd : Nat, rs1 : Nat, rs2 : Nat])
  /\ Len(blocks) = Len(source)
  /\ phase \in {"ranges", "scan", "failed"} => blocks = source
  /\ \A j \in 1..Len(source) : (phase = "ranges" => j < globalIdx) =>
       \A v \in Uses(source[j]) :
         /\ v \in DOMAIN intervals
         /\ intervals[v].birth <= j /\ j <= intervals[v].death
  /\ phase \in {"rewrite", "ok"} =>
       \A j \in 1..Len(source) :
         blocks[j] = IF j < globalIdx THEN Rewritten(source[j]) ELSE source[j]
  /\ phase = "ok" => globalIdx > Len(source)

IInv == ScanInv /\ ProgramInv

-----------------------------------------------------------------------------
(* Facts about one instruction.                                            *)

LEMMA UsesType ==
  ASSUME NEW mi \in Instruction
  PROVE  /\ Uses(mi) \subseteq VRegs
         /\ mi.rd \in Uses(mi) \cup {VREG_ZERO}
         /\ mi.rs1 \in Uses(mi) \cup {VREG_ZERO}
         /\ mi.rs2 \in Uses(mi) \cup {VREG_ZERO}
  BY DEF Uses, Instruction

LEMMA InstructionType ==
  ASSUME NEW prog \in Seq(Instruction)
  PROVE  prog \in Seq([rd : Nat, rs1 : Nat, rs2 : Nat])
<1>1. VRegs \cup {VREG_ZERO} \subseteq Nat
  BY VRegsAssumption DEF VREG_ZERO
<1>2. Instruction \subseteq [rd : Nat, rs1 : Nat, rs2 : Nat]
  BY <1>1 DEF Instruction
<1> QED
  BY <1>2, SeqMonotonic

\* What the walk records for a register it meets at position i.
LEMMA StretchedType ==
  ASSUME StateType, NEW v \in VRegs, NEW i \in Nat \ {0}
  PROVE  /\ Stretched(v, i) \in LiveRange
         /\ Stretched(v, i).birth <= i /\ i <= Stretched(v, i).death
         /\ v \in DOMAIN intervals =>
              /\ Stretched(v, i).birth <= intervals[v].birth
              /\ intervals[v].death <= Stretched(v, i).death
<1>1. CASE v \in DOMAIN intervals
  <2>1. /\ intervals[v].birth \in Nat \ {0}
        /\ intervals[v].death \in Nat \ {0}
    BY <1>1 DEF StateType, LiveRange
  <2> QED
    BY <1>1, <2>1, MinMaxOfTwo DEF Stretched, LiveRange
<1>2. CASE v \notin DOMAIN intervals
  BY <1>2 DEF Stretched, LiveRange
<1> QED
  BY <1>1, <1>2

-----------------------------------------------------------------------------
(* The invariant holds initially and every step preserves it.              *)

LEMMA InitIInv == Init => IInv
<1> SUFFICES ASSUME Init PROVE IInv
  OBVIOUS
<1>1. source \in Seq(Instruction) /\ blocks = source
  BY ProgramsAssumption DEF Init
<1>2. blocks \in Seq([rd : Nat, rs1 : Nat, rs2 : Nat])
  BY <1>1, InstructionType
<1>3. ProgramInv
  BY <1>1, <1>2 DEF Init, ProgramInv
<1>4. ScanInv
  BY DEF Init, ScanInv, StateType, Progress, ScanOrder, PoolDisjoint,
         NoInterference, EmptyMap
<1> QED
  BY <1>3, <1>4 DEF IInv

LEMMA RecordUsesIInv == IInv /\ RecordUses => IInv'
<1> SUFFICES ASSUME IInv, RecordUses PROVE IInv'
  OBVIOUS
<1> USE DEF IInv
<1> DEFINE used == Uses(blocks[globalIdx])
<1>1. /\ phase = "ranges" /\ phase' = "ranges"
      /\ globalIdx \in 1..Len(source)
      /\ blocks = source
      /\ used = Uses(source[globalIdx])
  BY DEF RecordUses, ProgramInv
<1>2. used \subseteq VRegs
  BY <1>1, UsesType DEF ProgramInv
<1>3. intervals' = [v \in DOMAIN intervals \cup used |->
                      IF v \in used THEN Stretched(v, globalIdx) ELSE intervals[v]]
  BY DEF RecordUses
<1> HIDE DEF used
<1>4. \A v \in used : /\ Stretched(v, globalIdx) \in LiveRange
                      /\ Stretched(v, globalIdx).birth <= globalIdx
                      /\ globalIdx <= Stretched(v, globalIdx).death
                      /\ v \in DOMAIN intervals =>
                           /\ Stretched(v, globalIdx).birth <= intervals[v].birth
                           /\ intervals[v].death <= Stretched(v, globalIdx).death
  BY <1>1, <1>2, StretchedType DEF ScanInv, ProgramInv
<1>5. DOMAIN vregToPhys = {} /\ vregToPhys' = vregToPhys
  BY <1>1 DEF RecordUses, ScanInv, Progress
<1>6. StateType'
  <2>1. DOMAIN intervals' = DOMAIN intervals \cup used
    BY <1>3
  <2>2. \A v \in DOMAIN intervals' :
          /\ intervals'[v] \in LiveRange
          /\ intervals'[v].birth <= intervals'[v].death
    <3> SUFFICES ASSUME NEW v \in DOMAIN intervals \cup used
                 PROVE  /\ intervals'[v] \in LiveRange
                        /\ intervals'[v].birth <= intervals'[v].death
      BY <2>1
    <3>1. CASE v \in used
      <4>1. intervals'[v] = Stretched(v, globalIdx)
        BY <1>3, <3>1
      <4> QED
        BY <1>1, <1>4, <3>1, <4>1 DEF LiveRange, ProgramInv
    <3>2. CASE v \notin used
      <4>1. intervals'[v] = intervals[v] /\ v \in DOMAIN intervals
        BY <1>3, <3>2
      <4> QED
        BY <4>1 DEF ScanInv, StateType
    <3> QED
      BY <3>1, <3>2
  <2>3. intervals' \in [DOMAIN intervals' -> LiveRange]
    BY <1>3, <2>1, <2>2
  <2> QED
    BY <1>1, <1>2, <2>1, <2>2, <2>3 DEF StateType, ScanInv, RecordUses
<1>7. ScanInv'
  BY <1>1, <1>5, <1>6
     DEF RecordUses, ScanInv, Progress, ScanOrder, PoolDisjoint, NoInterference,
         StateType
<1>8. ASSUME NEW j \in 1..Len(source), j < globalIdx + 1, NEW v \in Uses(source[j])
      PROVE  /\ v \in DOMAIN intervals'
             /\ intervals'[v].birth <= j /\ j <= intervals'[v].death
  <2>1. CASE j = globalIdx
    BY <1>1, <1>3, <1>4, <1>8, <2>1
  <2>2. CASE j < globalIdx
    <3>1. /\ v \in DOMAIN intervals
          /\ intervals[v].birth <= j /\ j <= intervals[v].death
      BY <1>1, <1>8, <2>2 DEF ProgramInv
    <3>2. /\ intervals[v].birth \in Nat /\ intervals[v].death \in Nat
      BY <3>1 DEF ScanInv, StateType, LiveRange
    <3>3. CASE v \in used
      <4>1. intervals'[v] = Stretched(v, globalIdx)
        BY <1>3, <3>3
      <4>2. Stretched(v, globalIdx).birth \in Nat /\ Stretched(v, globalIdx).death \in Nat
        BY <1>4, <3>3 DEF LiveRange
      <4> QED
        BY <1>3, <1>4, <3>1, <3>2, <3>3, <4>1, <4>2
    <3>4. CASE v \notin used
      BY <1>3, <3>1, <3>4
    <3> QED
      BY <3>3, <3>4
  <2> QED
    BY <1>1, <1>8, <2>1, <2>2 DEF ProgramInv
<1>9. ProgramInv'
  <2>1. /\ source' = source /\ blocks' = blocks
        /\ globalIdx' = globalIdx + 1 /\ phase' = "ranges"
    BY <1>1 DEF RecordUses
  <2>2. /\ source' \in Seq(Instruction)
        /\ globalIdx' \in Nat \ {0}
        /\ blocks' \in Seq([rd : Nat, rs1 : Nat, rs2 : Nat])
        /\ Len(blocks') = Len(source')
        /\ blocks' = source'
    BY <1>1, <2>1 DEF ProgramInv
  <2>3. \A j \in 1..Len(source') : j < globalIdx' =>
          \A v \in Uses(source'[j]) :
            /\ v \in DOMAIN intervals'
            /\ intervals'[v].birth <= j /\ j <= intervals'[v].death
    BY <1>8, <2>1
  <2> QED
    BY <2>1, <2>2, <2>3 DEF ProgramInv
<1> QED
  BY <1>7, <1>9

LEMMA StartScanIInv == IInv /\ StartScan => IInv'
<1> SUFFICES ASSUME IInv, StartScan PROVE IInv'
  OBVIOUS
<1>1. ScanInv'
  BY DEF IInv, ScanInv, StartScan, StateType, Progress, ScanOrder, PoolDisjoint,
         NoInterference
<1>2. ProgramInv'
  BY DEF IInv, ProgramInv, StartScan
<1> QED
  BY <1>1, <1>2 DEF IInv

\* Expiry: the registers that come back were held by nobody else, and what
\* stays active keeps its own.
LEMMA ExpiryFacts ==
  ASSUME ScanInv, phase = "scan", NEW v \in pending
  PROVE  /\ PoolFor(v) \subseteq PhysRegs
         /\ Expired(v) \subseteq active
         /\ \A w \in active \ Expired(v) : vregToPhys[w] \notin PoolFor(v)
         /\ \A p \in PhysRegs :
              p \in PoolFor(v) \/ \E w \in active \ Expired(v) : vregToPhys[w] = p
  BY DEF ScanInv, StateType, PoolDisjoint, PoolFor, Expired

LEMMA AllocateIInv ==
  ASSUME IInv, NEW v \in VRegs, Allocate(v)
  PROVE  IInv'
<1> DEFINE phys == Min(PoolFor(v))
<1>1. /\ phase = "scan" /\ phase' = "scan"
      /\ v \in pending
      /\ \A w \in pending : NotAfter(intervals[v], intervals[w])
      /\ PoolFor(v) # {}
      /\ vregToPhys' = [w \in DOMAIN vregToPhys \cup {v} |->
                          IF w = v THEN phys ELSE vregToPhys[w]]
      /\ freePool' = PoolFor(v) \ {phys}
      /\ active' = (active \ Expired(v)) \cup {v}
      /\ pending' = pending \ {v}
      /\ UNCHANGED <<source, blocks, phase, globalIdx, intervals>>
  BY DEF Allocate, IsNext
<1>2. ScanInv
  BY DEF IInv
<1>3. /\ PoolFor(v) \subseteq PhysRegs
      /\ Expired(v) \subseteq active
      /\ \A w \in active \ Expired(v) : vregToPhys[w] \notin PoolFor(v)
      /\ \A p \in PhysRegs :
           p \in PoolFor(v) \/ \E w \in active \ Expired(v) : vregToPhys[w] = p
  BY <1>1, <1>2, ExpiryFacts
<1>4. phys \in PoolFor(v)
  <2>1. PoolFor(v) \subseteq Nat
    BY <1>3, NumPhysRegsAssumption DEF PhysRegs
  <2> QED
    BY <1>1, <2>1, MinOfNats
<1> HIDE DEF phys
<1>5. /\ DOMAIN vregToPhys = DOMAIN intervals \ pending
      /\ pending \subseteq DOMAIN intervals
      /\ v \notin DOMAIN vregToPhys
      /\ active \subseteq DOMAIN vregToPhys
  BY <1>1, <1>2 DEF ScanInv, Progress, StateType
<1>6. /\ DOMAIN vregToPhys' = DOMAIN vregToPhys \cup {v}
      /\ vregToPhys'[v] = phys
      /\ \A w \in DOMAIN vregToPhys : vregToPhys'[w] = vregToPhys[w]
  BY <1>1, <1>5
<1>7. \A w \in DOMAIN intervals : intervals[w].birth \in Nat /\ intervals[w].death \in Nat
  BY <1>2 DEF ScanInv, StateType, LiveRange
<1>8. StateType'
  <2>1. vregToPhys' \in [DOMAIN vregToPhys' -> PhysRegs]
    BY <1>1, <1>2, <1>3, <1>4, <1>6 DEF ScanInv, StateType
  <2> QED
    BY <1>1, <1>2, <1>3, <1>5, <1>6, <2>1 DEF ScanInv, StateType
<1>9. Progress'
  BY <1>1, <1>5, <1>6 DEF Progress
\* A range that is no longer active after the step has ended before v begins.
<1>10. \A w \in DOMAIN vregToPhys :
         w \notin active \ Expired(v) => intervals[w].death < intervals[v].birth
  BY <1>1, <1>2, <1>5 DEF ScanInv, ScanOrder, Expired
<1>11. \A u \in pending : intervals[v].birth <= intervals[u].birth
  BY <1>1, <1>5, <1>7 DEF NotAfter
<1>12. ScanOrder'
  <2> SUFFICES ASSUME NEW u \in pending \ {v}, NEW w \in DOMAIN vregToPhys \cup {v}
               PROVE  /\ intervals[w].birth <= intervals[u].birth
                      /\ w \notin active' => intervals[w].death < intervals[u].birth
    BY <1>1, <1>6 DEF ScanOrder
  <2>1. CASE w = v
    BY <1>1, <1>11, <2>1
  <2>2. CASE w # v
    <3>1. intervals[w].birth <= intervals[u].birth
      BY <1>2, <2>2 DEF ScanInv, ScanOrder
    <3>2. w \notin active' => intervals[w].death < intervals[v].birth
      BY <1>1, <1>10, <2>2
    <3> QED
      BY <1>1, <1>5, <1>7, <1>11, <2>2, <3>1, <3>2
  <2> QED
    BY <2>1, <2>2
<1>13. PoolDisjoint'
  <2>1. \A w \in active' : vregToPhys'[w] \notin freePool'
    BY <1>1, <1>3, <1>5, <1>6
  <2>2. \A w, u \in active' : vregToPhys'[w] = vregToPhys'[u] => w = u
    <3>1. \A w, u \in active \ Expired(v) : vregToPhys[w] = vregToPhys[u] => w = u
      BY <1>2 DEF ScanInv, PoolDisjoint
    <3>2. \A w \in active \ Expired(v) : vregToPhys'[w] # phys
      BY <1>3, <1>4, <1>5, <1>6
    <3> QED
      BY <1>1, <1>5, <1>6, <3>1, <3>2
  <2>3. \A p \in PhysRegs : p \in freePool' \/ \E w \in active' : vregToPhys'[w] = p
    <3> TAKE p \in PhysRegs
    <3>1. CASE p = phys
      BY <1>1, <1>6, <3>1
    <3>2. CASE p # phys /\ p \in PoolFor(v)
      BY <1>1, <3>2
    <3>3. CASE p \notin PoolFor(v)
      <4>1. PICK w \in active \ Expired(v) : vregToPhys[w] = p
        BY <1>3, <3>3
      <4> QED
        BY <1>1, <1>5, <1>6, <4>1
    <3> QED
      BY <3>1, <3>2, <3>3
  <2> QED
    BY <1>1, <2>1, <2>2, <2>3 DEF PoolDisjoint
\* The register taken was free or expired: whoever had it ended before v.
<1>14. NoInterference'
  <2>1. \A w \in DOMAIN vregToPhys :
          vregToPhys[w] = phys => intervals[w].death < intervals[v].birth
    BY <1>3, <1>4, <1>10
  <2>2. \A w \in DOMAIN vregToPhys : vregToPhys[w] = phys =>
          ~Overlap(intervals[v], intervals[w]) /\ ~Overlap(intervals[w], intervals[v])
    BY <1>1, <1>5, <1>7, <2>1 DEF Overlap
  <2>3. intervals' = intervals
    BY <1>1
  <2> QED
    BY <1>2, <1>6, <2>2, <2>3 DEF ScanInv, NoInterference, Overlap
<1>15. ScanInv'
  BY <1>8, <1>9, <1>12, <1>13, <1>14 DEF ScanInv
<1>16. ProgramInv'
  BY <1>1 DEF IInv, ProgramInv
<1> QED
  BY <1>15, <1>16 DEF IInv

LEMMA OutOfRegistersIInv ==
  ASSUME IInv, NEW v \in VRegs, OutOfRegisters(v)
  PROVE  IInv'
<1>1. /\ phase = "scan" /\ phase' = "failed"
      /\ v \in pending
      /\ \A w \in pending : NotAfter(intervals[v], intervals[w])
      /\ active' = active \ Expired(v)
      /\ freePool' = PoolFor(v)
      /\ UNCHANGED <<source, blocks, globalIdx, intervals, pending, vregToPhys>>
  BY DEF OutOfRegisters, IsNext
<1>2. ScanInv
  BY DEF IInv
<1>3. /\ PoolFor(v) \subseteq PhysRegs
      /\ Expired(v) \subseteq active
      /\ \A w \in active \ Expired(v) : vregToPhys[w] \notin PoolFor(v)
      /\ \A p \in PhysRegs :
           p \in PoolFor(v) \/ \E w \in active \ Expired(v) : vregToPhys[w] = p
  BY <1>1, <1>2, ExpiryFacts
<1>4. \A w \in DOMAIN intervals : intervals[w].birth \in Nat /\ intervals[w].death \in Nat
  BY <1>2 DEF ScanInv, StateType, LiveRange
<1>5. pending \subseteq DOMAIN intervals /\ DOMAIN vregToPhys \subseteq DOMAIN intervals
  BY <1>1, <1>2 DEF ScanInv, Progress
<1>6. StateType' /\ Progress' /\ PoolDisjoint' /\ NoInterference'
  BY <1>1, <1>2, <1>3
     DEF ScanInv, StateType, Progress, PoolDisjoint, NoInterference
<1>7. ScanOrder'
  <2> SUFFICES ASSUME NEW u \in pending, NEW w \in DOMAIN vregToPhys
               PROVE  /\ intervals[w].birth <= intervals[u].birth
                      /\ w \notin active' => intervals[w].death < intervals[u].birth
    BY <1>1 DEF ScanOrder
  <2>1. intervals[v].birth <= intervals[u].birth
    BY <1>1, <1>4, <1>5 DEF NotAfter
  <2>2. w \in Expired(v) => intervals[w].death < intervals[v].birth
    BY DEF Expired
  <2> QED
    BY <1>1, <1>2, <1>4, <1>5, <2>1, <2>2 DEF ScanInv, ScanOrder
<1>8. ProgramInv'
  BY <1>1 DEF IInv, ProgramInv
<1> QED
  BY <1>6, <1>7, <1>8 DEF IInv, ScanInv

LEMMA StartRewriteIInv == IInv /\ StartRewrite => IInv'
<1> SUFFICES ASSUME IInv, StartRewrite PROVE IInv'
  OBVIOUS
<1>1. ScanInv'
  BY DEF IInv, ScanInv, StartRewrite, StateType, Progress, ScanOrder,
         PoolDisjoint, NoInterference
<1>2. ProgramInv'
  BY DEF IInv, ProgramInv, StartRewrite
<1> QED
  BY <1>1, <1>2 DEF IInv

\* After the scan every register a walked instruction mentions has a physical
\* register, so rewriting an instruction yields physical registers and R0.
LEMMA RewrittenType ==
  ASSUME IInv, phase \in {"rewrite", "ok"}, NEW j \in 1..Len(source)
  PROVE  /\ \A u \in Uses(source[j]) : u \in DOMAIN vregToPhys /\ Assigned(u) \in PhysRegs
         /\ Rewritten(source[j]) \in [rd : Nat, rs1 : Nat, rs2 : Nat]
<1>1. source[j] \in Instruction
  BY DEF IInv, ProgramInv
<1>2. Uses(source[j]) \subseteq DOMAIN vregToPhys
  BY DEF IInv, ProgramInv, ScanInv, Progress
<1>3. \A u \in Uses(source[j]) : u \in DOMAIN vregToPhys /\ Assigned(u) \in PhysRegs
  <2>1. Uses(source[j]) \subseteq VRegs \ {VREG_ZERO}
    BY <1>1, UsesType DEF Uses
  <2> QED
    BY <1>2, <2>1 DEF IInv, ScanInv, StateType, Assigned
<1>4. PhysRegs \subseteq Nat /\ Assigned(VREG_ZERO) \in Nat
  BY NumPhysRegsAssumption DEF PhysRegs, Assigned, VREG_ZERO
<1>5. /\ Assigned(source[j].rd) \in Nat
      /\ Assigned(source[j].rs1) \in Nat
      /\ Assigned(source[j].rs2) \in Nat
  BY <1>1, <1>3, <1>4, UsesType
<1> QED
  BY <1>3, <1>5 DEF Rewritten

LEMMA RewriteInstructionIInv == IInv /\ RewriteInstruction => IInv'
<1> SUFFICES ASSUME IInv, RewriteInstruction PROVE IInv'
  OBVIOUS
<1>1. /\ phase = "rewrite" /\ phase' = "rewrite"
      /\ globalIdx \in 1..Len(source)
      /\ globalIdx' = globalIdx + 1
      /\ blocks' = [blocks EXCEPT ![globalIdx] = Rewritten(blocks[globalIdx])]
      /\ UNCHANGED <<source, intervals, pending, freePool, active, vregToPhys>>
  BY DEF RewriteInstruction, IInv, ProgramInv
<1>2. ScanInv'
  BY <1>1 DEF IInv, ScanInv, StateType, Progress, ScanOrder, PoolDisjoint, NoInterference
<1>3. blocks[globalIdx] = source[globalIdx]
  BY <1>1 DEF IInv, ProgramInv
<1>4. Rewritten(source[globalIdx]) \in [rd : Nat, rs1 : Nat, rs2 : Nat]
  BY <1>1, RewrittenType
<1> DEFINE Operand3 == [rd : Nat, rs1 : Nat, rs2 : Nat]
           new == Rewritten(source[globalIdx])
<1>5. blocks \in Seq(Operand3) /\ globalIdx \in 1..Len(blocks) /\ new \in Operand3
  BY <1>1, <1>4 DEF IInv, ProgramInv
<1>6. blocks' = [blocks EXCEPT ![globalIdx] = new]
  BY <1>1, <1>3
<1> HIDE DEF Operand3, new
<1>7. /\ blocks' \in Seq(Operand3)
      /\ Len(blocks') = Len(blocks)
      /\ \A j \in 1..Len(blocks) :
           blocks'[j] = IF j = globalIdx THEN new ELSE blocks[j]
  BY <1>5, <1>6, ExceptSeq
<1>8. \A mi : Rewritten(mi)' = Rewritten(mi)
  BY <1>1 DEF Rewritten, Assigned
<1>9. ASSUME NEW j \in 1..Len(source)
      PROVE  blocks'[j] = IF j < globalIdx + 1 THEN Rewritten(source[j]) ELSE source[j]
  <2>1. /\ j \in 1..Len(blocks)
        /\ blocks[j] = IF j < globalIdx THEN Rewritten(source[j]) ELSE source[j]
    BY <1>1 DEF IInv, ProgramInv
  <2>2. CASE j = globalIdx
    BY <1>1, <1>7, <2>1, <2>2 DEF new
  <2>3. CASE j # globalIdx
    BY <1>1, <1>7, <2>1, <2>3
  <2> QED
    BY <2>2, <2>3
<1>10. ProgramInv'
  <2>1. /\ source' \in Seq(Instruction)
        /\ globalIdx' \in Nat \ {0}
        /\ blocks' \in Seq([rd : Nat, rs1 : Nat, rs2 : Nat])
        /\ Len(blocks') = Len(source')
    <3>1. /\ source \in Seq(Instruction) /\ globalIdx \in Nat
          /\ Len(blocks) = Len(source)
      BY DEF IInv, ProgramInv
    <3>2. source' \in Seq(Instruction) /\ globalIdx' \in Nat \ {0}
      BY <1>1, <3>1
    <3>3. blocks' \in Seq([rd : Nat, rs1 : Nat, rs2 : Nat])
      BY <1>7, Zenon DEF Operand3
    <3> QED
      BY <1>1, <1>7, <3>1, <3>2, <3>3, Zenon
  <2>2. \A j \in 1..Len(source) : \A v \in Uses(source[j]) :
          /\ v \in DOMAIN intervals
          /\ intervals[v].birth <= j /\ j <= intervals[v].death
    BY <1>1 DEF IInv, ProgramInv
  <2> QED
    BY <1>1, <1>8, <1>9, <2>1, <2>2 DEF IInv, ProgramInv
<1> QED
  BY <1>2, <1>10 DEF IInv

LEMMA ReturnIInv == IInv /\ Return => IInv'
<1> SUFFICES ASSUME IInv, Return PROVE IInv'
  OBVIOUS
<1>1. ScanInv'
  BY DEF IInv, ScanInv, Return, StateType, Progress, ScanOrder, PoolDisjoint,
         NoInterference
<1>2. ProgramInv'
  BY DEF IInv, ProgramInv, Return, Rewritten, Assigned
<1> QED
  BY <1>1, <1>2 DEF IInv

LEMMA StutterIInv == IInv /\ UNCHANGED vars => IInv'
  BY DEF vars, IInv, ScanInv, StateType, Progress, ScanOrder, PoolDisjoint,
         NoInterference, ProgramInv, Rewritten, Assigned

LEMMA StepIInv == IInv /\ [Next]_vars => IInv'
<1> SUFFICES ASSUME IInv, [Next]_vars PROVE IInv'
  OBVIOUS
<1>1. CASE RecordUses
  BY <1>1, RecordUsesIInv
<1>2. CASE StartScan
  BY <1>2, StartScanIInv
<1>3. ASSUME NEW v \in VRegs, Allocate(v) PROVE IInv'
  BY <1>3, AllocateIInv
<1>4. ASSUME NEW v \in VRegs, OutOfRegisters(v) PROVE IInv'
  BY <1>4, OutOfRegistersIInv
<1>5. CASE StartRewrite
  BY <1>5, StartRewriteIInv
<1>6. CASE RewriteInstruction
  BY <1>6, RewriteInstructionIInv
<1>7. CASE Return
  BY <1>7, ReturnIInv
<1>8. CASE UNCHANGED vars
  BY <1>8, StutterIInv
<1> QED
  BY <1>1, <1>2, <1>3, <1>4, <1>5, <1>6, <1>7, <1>8 DEF Next

LEMMA InductiveInvariant == Spec => []IInv
  BY InitIInv, StepIInv, PTL DEF Spec

-----------------------------------------------------------------------------
(* The ranges are exact.                                                   *)

\* The first and the last of a set of positions, and of one that a later
\* position is added to.
LEMMA ExtremaOfMentions ==
  ASSUME NEW v, NEW i \in Nat, Mentions(v, i) # {}
  PROVE  /\ Min(Mentions(v, i)) \in Mentions(v, i)
         /\ \A j \in Mentions(v, i) : Min(Mentions(v, i)) <= j
         /\ Max(Mentions(v, i)) \in Mentions(v, i)
         /\ \A j \in Mentions(v, i) : j <= Max(Mentions(v, i))
<1> DEFINE M == Mentions(v, i)
           gaps == {i - j : j \in M}
<1>1. M \subseteq 1..i
  BY DEF Mentions
<1>2. M \subseteq Nat /\ M # {} /\ gaps \subseteq Nat /\ gaps # {}
  BY <1>1
<1>3. Min(M) \in M /\ \A j \in M : Min(M) <= j
  BY <1>2, MinOfNats
<1>4. Min(gaps) \in gaps /\ \A g \in gaps : Min(gaps) <= g
  BY <1>2, MinOfNats
<1>5. PICK last \in M : Min(gaps) = i - last
  BY <1>4
<1>6. \A j \in M : last >= j
  <2> TAKE j \in M
  <2>1. i - j \in gaps
    OBVIOUS
  <2>2. Min(gaps) <= i - j
    BY <1>4, <2>1
  <2>3. i \in Nat /\ j \in Nat /\ last \in Nat
    BY <1>2, <1>5
  <2> QED
    BY <1>5, <2>2, <2>3
<1>7. Max(M) \in M /\ \A j \in M : Max(M) >= j
  BY <1>6 DEF Max
<1> QED
  BY <1>2, <1>3, <1>7

LEMMA Extrema ==
  ASSUME NEW S \in SUBSET Nat, NEW a \in S, NEW b \in S,
         \A j \in S : a <= j /\ j <= b
  PROVE  Min(S) = a /\ Max(S) = b
<1>1. \A x \in S : (\A j \in S : x <= j) => x = a
  BY SMT
<1>2. \A x \in S : (\A j \in S : x >= j) => x = b
  BY SMT
<1>3. \A j \in S : a <= j
  OBVIOUS
<1>4. \A j \in S : b >= j
  OBVIOUS
<1> QED
  BY <1>1, <1>2, <1>3, <1>4 DEF Min, Max

LEMMA RecordUsesExact ==
  ASSUME IInv, IntervalsExact, RecordUses
  PROVE  IntervalsExact'
<1> DEFINE used == Uses(blocks[globalIdx])
<1>1. /\ phase = "ranges" /\ phase' = "ranges"
      /\ globalIdx \in 1..Len(source) /\ globalIdx' = globalIdx + 1
      /\ source' = source
      /\ used = Uses(source[globalIdx])
      /\ intervals' = [v \in DOMAIN intervals \cup used |->
                         IF v \in used THEN Stretched(v, globalIdx) ELSE intervals[v]]
  BY DEF RecordUses, IInv, ProgramInv
<1> HIDE DEF used
<1> SUFFICES ASSUME NEW v \in VRegs
             PROVE  LET seen == Mentions(v, globalIdx)
                    IN  /\ v \in DOMAIN intervals' <=> seen # {}
                        /\ seen # {} => intervals'[v] = [birth |-> Min(seen), death |-> Max(seen)]
  <2>1. globalIdx' - 1 = globalIdx
    BY <1>1
  <2>2. ASSUME NEW v PROVE Mentions(v, globalIdx - 1)' = Mentions(v, globalIdx)
    BY <1>1, <2>1 DEF Mentions
  <2> QED
    BY <1>1, <2>2 DEF IntervalsExact
<1> DEFINE old == Mentions(v, globalIdx - 1)
           seen == Mentions(v, globalIdx)
<1>2. /\ seen = old \cup (IF v \in used THEN {globalIdx} ELSE {})
      /\ old \subseteq 1..(globalIdx - 1) /\ seen \subseteq Nat
  BY <1>1 DEF Mentions
<1>3. /\ v \in DOMAIN intervals <=> old # {}
      /\ old # {} => intervals[v] = [birth |-> Min(old), death |-> Max(old)]
  BY <1>1 DEF IntervalsExact
<1>4. old # {} => /\ Min(old) \in old /\ Max(old) \in old
                  /\ \A j \in old : Min(old) <= j /\ j <= Max(old)
  BY <1>1, ExtremaOfMentions
<1> HIDE DEF old, seen
<1>a. /\ v \in DOMAIN intervals' <=> v \in DOMAIN intervals \/ v \in used
      /\ v \in used => intervals'[v] = Stretched(v, globalIdx)
      /\ v \in DOMAIN intervals /\ v \notin used => intervals'[v] = intervals[v]
  BY <1>1
<1>b. \A j \in old : j \in Nat /\ j < globalIdx
  BY <1>1, <1>2
<1> SUFFICES /\ v \in DOMAIN intervals' <=> seen # {}
             /\ seen # {} => intervals'[v] = [birth |-> Min(seen), death |-> Max(seen)]
  BY DEF seen
<1>5. CASE v \notin used
  <2>1. seen = old
    BY <1>2, <1>5
  <2> QED
    BY <1>3, <1>5, <1>a, <2>1
<1>6. CASE v \in used /\ old = {}
  <2>1. seen = {globalIdx} /\ v \in DOMAIN intervals' /\ v \notin DOMAIN intervals
    BY <1>1, <1>2, <1>3, <1>6
  <2>2. Min(seen) = globalIdx /\ Max(seen) = globalIdx
    BY <1>1, <2>1, Extrema
  <2>3. intervals'[v] = [birth |-> globalIdx, death |-> globalIdx]
    BY <1>6, <1>a, <2>1 DEF Stretched
  <2> QED
    BY <2>1, <2>2, <2>3
<1>7. CASE v \in used /\ old # {}
  <2>1. Min(old) \in Nat /\ Max(old) \in Nat /\ Min(old) < globalIdx /\ Max(old) < globalIdx
    BY <1>4, <1>7, <1>b
  <2>2. Min({Min(old), globalIdx}) = Min(old) /\ Max({Max(old), globalIdx}) = globalIdx
    BY <1>1, <2>1, MinMaxOfTwo
  <2>3. intervals'[v] = [birth |-> Min(old), death |-> globalIdx]
    BY <1>1, <1>3, <1>7, <2>2 DEF Stretched
  <2>4. Min(seen) = Min(old) /\ Max(seen) = globalIdx
    <3>1. /\ Min(old) \in seen /\ globalIdx \in seen
          /\ \A j \in seen : Min(old) <= j /\ j <= globalIdx
      BY <1>1, <1>2, <1>4, <1>7, <2>1
    <3> QED
      BY <1>2, <3>1, Extrema
  <2>5. seen # {} /\ v \in DOMAIN intervals'
    BY <1>2, <1>7, <1>a
  <2> QED
    BY <2>3, <2>4, <2>5
<1> QED
  BY <1>5, <1>6, <1>7

\* The walk records, for each virtual register mentioned so far, the first and
\* the last position that mention it, and nothing for the others.
THEOREM RangesAreExact == Spec => []IntervalsExact
<1>1. Init => IntervalsExact
  <2> SUFFICES ASSUME Init, NEW v \in VRegs
               PROVE  v \notin DOMAIN intervals /\ Mentions(v, globalIdx - 1) = {}
    BY DEF IntervalsExact
  <2> QED
    BY DEF Init, EmptyMap, Mentions
<1>2. IInv /\ IntervalsExact /\ [Next]_vars => IntervalsExact'
  <2> SUFFICES ASSUME IInv, IntervalsExact, [Next]_vars PROVE IntervalsExact'
    OBVIOUS
  <2>1. CASE RecordUses
    BY <2>1, RecordUsesExact
  <2>2. CASE StartScan \/ (\E v \in VRegs : Allocate(v)) \/ (\E v \in VRegs : OutOfRegisters(v))
               \/ StartRewrite \/ RewriteInstruction \/ Return
    <3>1. phase' # "ranges"
      BY <2>2 DEF StartScan, Allocate, OutOfRegisters, StartRewrite, RewriteInstruction, Return
    <3> QED
      BY <3>1 DEF IntervalsExact
  <2>3. CASE UNCHANGED vars
    BY <2>3 DEF vars, IntervalsExact, Mentions
  <2> QED
    BY <2>1, <2>2, <2>3 DEF Next
<1> QED
  BY <1>1, <1>2, InductiveInvariant, PTL DEF Spec

-----------------------------------------------------------------------------
(* What the invariant implies.                                             *)

\* The state keeps its type: the walk, the scan and the rewriting never leave
\* the register numbers that exist, and R0 never enters the pool.
THEOREM TypeCorrect == Spec => []TypeOK
<1>1. IInv => TypeOK
  <2> SUFFICES ASSUME IInv PROVE TypeOK
    OBVIOUS
  <2>1. pending \subseteq DOMAIN intervals /\ DOMAIN vregToPhys \subseteq DOMAIN intervals
    BY DEF IInv, ScanInv, Progress
  <2> QED
    BY <2>1 DEF IInv, ScanInv, StateType, ProgramInv, TypeOK
<1> QED
  BY <1>1, InductiveInvariant, PTL

\* The linear scan is correct: no two virtual registers whose live ranges
\* share a position are ever assigned the same physical register.
THEOREM AllocationIsSafe == Spec => []NoInterference
<1>1. IInv => NoInterference
  BY DEF IInv, ScanInv
<1> QED
  BY <1>1, InductiveInvariant, PTL

\* The pool never leaks a register and never hands one out twice.
THEOREM PoolIsConserved == Spec => []PoolConserved
<1>1. IInv => PoolConserved
  <2> SUFFICES ASSUME IInv, phase # "ranges", NEW p \in PhysRegs
               PROVE  Cardinality({v \in active : vregToPhys[v] = p})
                        = IF p \in freePool THEN 0 ELSE 1
    BY DEF PoolConserved
  <2> DEFINE holders == {v \in active : vregToPhys[v] = p}
  <2>1. CASE p \in freePool
    <3>1. holders = {}
      BY <2>1 DEF IInv, ScanInv, PoolDisjoint
    <3> QED
      BY <2>1, <3>1, FS_EmptySet
  <2>2. CASE p \notin freePool
    <3>1. PICK v \in active : vregToPhys[v] = p
      BY <2>2 DEF IInv, ScanInv, PoolDisjoint
    <3>2. holders = {v}
      BY <3>1 DEF IInv, ScanInv, PoolDisjoint
    <3> QED
      BY <2>2, <3>2, FS_Singleton
  <2> QED
    BY <2>1, <2>2
<1> QED
  BY <1>1, InductiveInvariant, PTL

\* Two registers mentioned by the same instruction are both live there, so
\* the finished assignment tells them apart.
LEMMA AssignedInjective ==
  ASSUME IInv, phase = "ok", NEW j \in 1..Len(source),
         NEW u \in Uses(source[j]) \cup {VREG_ZERO},
         NEW w \in Uses(source[j]) \cup {VREG_ZERO}
  PROVE  /\ u = VREG_ZERO <=> Assigned(u) = 0
         /\ u = w <=> Assigned(u) = Assigned(w)
<1>1. \A x \in Uses(source[j]) :
        /\ x # VREG_ZERO
        /\ x \in DOMAIN vregToPhys
        /\ Assigned(x) = vregToPhys[x]
        /\ Assigned(x) \in PhysRegs
  BY RewrittenType DEF Assigned, Uses
<1>2. /\ \A x \in PhysRegs : x # 0
      /\ Assigned(VREG_ZERO) = 0
  BY NumPhysRegsAssumption DEF PhysRegs, Assigned, VREG_ZERO
<1>3. u = VREG_ZERO <=> Assigned(u) = 0
  BY <1>1, <1>2
<1>4. ASSUME u \in Uses(source[j]), w \in Uses(source[j]), u # w
      PROVE  vregToPhys[u] # vregToPhys[w]
  <2>1. \A x \in Uses(source[j]) : /\ x \in DOMAIN intervals
                                   /\ intervals[x].birth <= j
                                   /\ j <= intervals[x].death
                                   /\ intervals[x].birth \in Nat
                                   /\ intervals[x].death \in Nat
    BY DEF IInv, ProgramInv, ScanInv, StateType, LiveRange
  <2>2. Overlap(intervals[u], intervals[w])
    BY <1>4, <2>1 DEF Overlap
  <2> QED
    BY <1>1, <1>4, <2>2 DEF IInv, ScanInv, NoInterference
<1> QED
  BY <1>1, <1>2, <1>3, <1>4

\* The rewritten program is a renaming of the one handed in, faithful within
\* every instruction; a failed call leaves the program as it was.
THEOREM RewriteIsCorrect == Spec => []RewriteIsRenaming
<1>1. IInv => RewriteIsRenaming
  <2> SUFFICES ASSUME IInv PROVE RewriteIsRenaming
    OBVIOUS
  <2>1. phase = "failed" => blocks = source
    BY DEF IInv, ProgramInv
  <2>2. ASSUME phase = "ok", NEW i \in 1..Len(source), NEW k \in 1..3, NEW l \in 1..3
        PROVE  /\ Operands(source[i])[k] = VREG_ZERO <=> Operands(blocks[i])[k] = 0
               /\ Operands(source[i])[k] = Operands(source[i])[l]
                    <=> Operands(blocks[i])[k] = Operands(blocks[i])[l]
    <3>1. blocks[i] = Rewritten(source[i])
      BY <2>2 DEF IInv, ProgramInv
    <3>2. \A n \in 1..3 : Operands(source[i])[n] \in Uses(source[i]) \cup {VREG_ZERO}
      BY DEF Operands, Uses
    <3>3. \A n \in 1..3 : Operands(blocks[i])[n] = Assigned(Operands(source[i])[n])
      BY <3>1 DEF Operands, Rewritten
    <3> QED
      BY <2>2, <3>2, <3>3, AssignedInjective
  <2> QED
    BY <2>1, <2>2 DEF RewriteIsRenaming
<1> QED
  BY <1>1, InductiveInvariant, PTL

-----------------------------------------------------------------------------
(* The allocator implements its promise.                                   *)

\* When no register is left for v, the ranges still active all contain the
\* position where v begins, and so does v: one more than there are registers.
LEMMA FailureIsPressure ==
  ASSUME IInv, NEW v \in VRegs, OutOfRegisters(v)
  PROVE  ~Promise!Colourable(Promise!Covering(intervals[v].birth))
<1> DEFINE holding == active \ Expired(v)
           covering == Promise!Covering(intervals[v].birth)
<1>1. /\ phase = "scan" /\ v \in pending /\ PoolFor(v) = {}
      /\ \A w \in pending : NotAfter(intervals[v], intervals[w])
  BY DEF OutOfRegisters, IsNext
<1>2. /\ DOMAIN vregToPhys = DOMAIN intervals \ pending
      /\ pending \subseteq DOMAIN intervals
      /\ active \subseteq DOMAIN vregToPhys
  BY <1>1 DEF IInv, ScanInv, Progress, StateType
<1>3. \A w \in DOMAIN intervals : /\ intervals[w].birth \in Nat
                                  /\ intervals[w].death \in Nat
                                  /\ intervals[w].birth <= intervals[w].death
  BY DEF IInv, ScanInv, StateType, LiveRange
<1>4. covering \subseteq VRegs
  BY DEF Promise!Covering, IInv, ScanInv, StateType
<1>5. IsFiniteSet(covering)
  <2>1. \A w \in VRegs : w \in Nat /\ w <= 255
    BY VRegsAssumption
  <2> HIDE DEF covering
  <2>2. covering \in SUBSET Nat /\ \A w \in covering : w <= 255
    BY <1>4, <2>1
  <2>3. 255 \in Nat
    OBVIOUS
  <2> QED
    BY <2>2, <2>3, FS_BoundedSetOfNaturals
<1>6. holding \cup {v} \subseteq covering
  <2>1. v \in covering
    BY <1>1, <1>2, <1>3 DEF Promise!Covering
  <2>2. ASSUME NEW w \in holding PROVE w \in covering
    <3>1. intervals[w].birth <= intervals[v].birth
      BY <1>1, <1>2, <2>2 DEF IInv, ScanInv, ScanOrder
    <3>2. ~ (intervals[w].death < intervals[v].birth)
      BY <2>2 DEF Expired
    <3> QED
      BY <1>1, <1>2, <1>3, <2>2, <3>1, <3>2 DEF Promise!Covering
  <2> QED
    BY <2>1, <2>2
<1>7. v \notin holding
  BY <1>1, <1>2
<1>8. \A p \in PhysRegs : \E w \in holding : vregToPhys[w] = p
  BY <1>1, ExpiryFacts DEF IInv
<1>9. \A w \in holding : vregToPhys[w] \in PhysRegs
  BY <1>2 DEF IInv, ScanInv, StateType
<1> DEFINE heldIn == [w \in holding |-> vregToPhys[w]]
<1>10. heldIn \in Surjection(holding, PhysRegs)
  BY <1>8, <1>9 DEF Surjection
<1> HIDE DEF holding, covering, heldIn
<1>11. IsFiniteSet(holding) /\ IsFiniteSet(holding \cup {v})
  BY <1>5, <1>6, FS_Subset
<1>12. Cardinality(PhysRegs) <= Cardinality(holding) /\ IsFiniteSet(PhysRegs)
  BY <1>10, <1>11, FS_Surjection
<1>13. Cardinality(holding \cup {v}) = Cardinality(holding) + 1
  BY <1>7, <1>11, FS_AddElement
<1>14. Cardinality(holding \cup {v}) <= Cardinality(covering)
  BY <1>5, <1>6, FS_Subset
<1>15. /\ Cardinality(PhysRegs) \in Nat /\ Cardinality(holding) \in Nat
       /\ Cardinality(covering) \in Nat
  BY <1>5, <1>11, <1>12, FS_CardinalityType
<1>16. Cardinality(PhysRegs) < Cardinality(covering)
  BY <1>12, <1>13, <1>14, <1>15
<1>17. \A f \in [covering -> PhysRegs] : \E x, y \in covering : x # y /\ f[x] = f[y]
  BY <1>5, <1>12, <1>16, FS_PigeonHole
<1> QED
  BY <1>17 DEF Promise!Colourable, covering

\* Taking a register is a legal step of the promise: nothing that has it
\* intersects the new range.
LEMMA AllocationIsPainting ==
  ASSUME IInv, IInv', NEW v \in VRegs, Allocate(v)
  PROVE  \E c \in PhysRegs : Promise!Paint(v, c)
<1>1. /\ phase = "scan" /\ phase' = "scan" /\ v \in pending
      /\ UNCHANGED intervals
      /\ vregToPhys' = [w \in DOMAIN vregToPhys \cup {v} |->
                          IF w = v THEN Min(PoolFor(v)) ELSE vregToPhys[w]]
  BY DEF Allocate, IsNext
<1>2. v \in DOMAIN intervals \ DOMAIN vregToPhys
  BY <1>1 DEF IInv, ScanInv, Progress
<1>3. /\ v \in DOMAIN vregToPhys'
      /\ vregToPhys'[v] = Min(PoolFor(v))
      /\ \A w \in DOMAIN vregToPhys : /\ w \in DOMAIN vregToPhys'
                                      /\ vregToPhys'[w] = vregToPhys[w]
                                      /\ w # v
  BY <1>1, <1>2
<1> DEFINE c == Min(PoolFor(v))
<1>4. c \in PhysRegs
  BY <1>3 DEF IInv, ScanInv, StateType
<1>5. \A w \in DOMAIN vregToPhys :
        vregToPhys[w] = c => ~Overlap(intervals[v], intervals[w])
  BY <1>1, <1>3 DEF IInv, ScanInv, NoInterference, Overlap
<1> HIDE DEF c
<1>6. Promise!Paint(v, c)
  BY <1>1, <1>2, <1>5 DEF Promise!Paint, Promise!Intersect, Overlap, PromiseStatus, c
<1> QED
  BY <1>4, <1>6

\* RegisterAllocator::allocate implements interval colouring: every register
\* it takes is legal, every virtual register gets one before it succeeds, and
\* it fails only when more ranges share a position than there are registers.
THEOREM AllocatorRefinesPromise == Spec => ImplementsPromise
<1>1. Init => Promise!Init
  BY DEF Init, Promise!Init, EmptyMap, PromiseStatus
<1>2. IInv /\ IInv' /\ [Next]_vars => [Promise!Next]_(Promise!vars)
  <2> SUFFICES ASSUME IInv, IInv', [Next]_vars
               PROVE  Promise!Next \/ UNCHANGED Promise!vars
    OBVIOUS
  <2>1. CASE RecordUses
    <3>1. /\ phase = "ranges" /\ phase' = "ranges"
          /\ globalIdx \in Nat \ {0}
          /\ Uses(blocks[globalIdx]) \subseteq VRegs
          /\ UNCHANGED vregToPhys
      BY <2>1, UsesType DEF RecordUses, IInv, ProgramInv
    <3>2. intervals' = [v \in DOMAIN intervals \cup Uses(blocks[globalIdx]) |->
                          IF v \in Uses(blocks[globalIdx])
                          THEN Stretched(v, globalIdx) ELSE intervals[v]]
      BY <2>1 DEF RecordUses
    <3>3. ASSUME NEW v \in DOMAIN intervals
          PROVE  /\ v \in DOMAIN intervals'
                 /\ intervals'[v].birth <= intervals[v].birth
                 /\ intervals[v].death <= intervals'[v].death
      <4>1. v \in VRegs /\ intervals[v].birth \in Nat /\ intervals[v].death \in Nat
        BY DEF IInv, ScanInv, StateType, LiveRange
      <4>2. /\ Stretched(v, globalIdx).birth <= intervals[v].birth
            /\ intervals[v].death <= Stretched(v, globalIdx).death
        BY <3>1, <3>3, <4>1, StretchedType DEF IInv, ScanInv
      <4> QED
        BY <3>2, <4>1, <4>2
    <3>4. DOMAIN intervals' \subseteq VRegs
      BY DEF IInv, ScanInv, StateType
    <3>5. Promise!Measure
      BY <3>1, <3>3, <3>4 DEF Promise!Measure, PromiseStatus
    <3> QED
      BY <3>5 DEF Promise!Next
  <2>2. CASE StartScan
    BY <2>2 DEF StartScan, Promise!Next, Promise!Measured, PromiseStatus
  <2>3. ASSUME NEW v \in VRegs, Allocate(v) PROVE Promise!Next
    BY <2>3, AllocationIsPainting DEF Promise!Next
  <2>4. ASSUME NEW v \in VRegs, OutOfRegisters(v) PROVE Promise!Next
    <3>1. /\ phase = "scan" /\ phase' = "failed" /\ v \in pending
          /\ UNCHANGED <<intervals, vregToPhys>>
      BY <2>4 DEF OutOfRegisters, IsNext
    <3>2. v \in DOMAIN intervals
      BY <3>1 DEF IInv, ScanInv, Progress
    <3>3. Promise!GiveUp
      BY <2>4, <3>1, <3>2, FailureIsPressure DEF Promise!GiveUp, PromiseStatus
    <3> QED
      BY <3>3 DEF Promise!Next
  <2>5. CASE StartRewrite
    <3>1. DOMAIN vregToPhys = DOMAIN intervals
      BY <2>5 DEF StartRewrite, IInv, ScanInv, Progress
    <3> QED
      BY <2>5, <3>1 DEF StartRewrite, Promise!Next, Promise!Finish, PromiseStatus
  <2>6. CASE RewriteInstruction
    BY <2>6 DEF RewriteInstruction, Promise!vars, PromiseStatus
  <2>7. CASE Return
    BY <2>7 DEF Return, Promise!vars, PromiseStatus
  <2>8. CASE UNCHANGED vars
    BY <2>8 DEF vars, Promise!vars, PromiseStatus
  <2> QED
    BY <2>1, <2>2, <2>3, <2>4, <2>5, <2>6, <2>7, <2>8 DEF Next
<1> QED
  BY <1>1, <1>2, InductiveInvariant, PTL DEF Spec, Promise!Spec, ImplementsPromise

-----------------------------------------------------------------------------
(* Execution of the allocated program: every program and every control     *)
(* flow that only goes forward in the text.                                *)

Forward == \A e \in Edges : e[1] < e[2]

\* While a written register can still be read, its register holds its value.
ValuesHeld ==
  \A v \in written :
    /\ v \in DOMAIN vregToPhys
    /\ v \in DOMAIN intervals
    /\ intervals[v].birth < pc
    /\ pc <= intervals[v].death =>
         /\ vregToPhys[v] \in DOMAIN holds
         /\ holds[vregToPhys[v]] = v

LaneInv ==
  /\ IInv
  /\ pc \in Nat \ {0}
  /\ phase # "ok" => written = {}
  /\ ValuesHeld

LEMMA LaneInitInv == LaneInit => LaneInv
  BY InitIInv DEF LaneInit, LaneInv, Init, ValuesHeld

LEMMA CompileInv == LaneInv /\ Compile => LaneInv'
<1> SUFFICES ASSUME LaneInv, Compile PROVE LaneInv'
  OBVIOUS
<1>1. IInv'
  <2>1. Next
    BY DEF Compile
  <2> QED
    BY <2>1, StepIInv DEF LaneInv
<1>2. phase # "ok"
  BY DEF Compile, Next, RecordUses, StartScan, Allocate, OutOfRegisters,
         StartRewrite, RewriteInstruction, Return
<1>3. written' = {} /\ pc' = pc
  BY <1>2 DEF LaneInv, Compile, laneVars
<1> QED
  BY <1>1, <1>3 DEF LaneInv, ValuesHeld

\* Executing one instruction: what it writes is live here, so no other value
\* that is still to be read is in the register it overwrites.
LEMMA ExecuteInv ==
  ASSUME Forward, LaneInv, Execute
  PROVE  LaneInv'
<1>1. /\ phase = "ok" /\ pc \in 1..Len(source)
      /\ pc' \in Nat \ {0} /\ pc < pc'
      /\ UNCHANGED vars
  <2>1. /\ phase = "ok" /\ pc \in 1..Len(blocks) /\ UNCHANGED vars
    BY DEF Execute
  <2>2. Len(blocks) = Len(source) /\ Len(blocks) \in Nat
    BY DEF LaneInv, IInv, ProgramInv
  <2>3. PICK next \in 1..(Len(blocks) + 1) : <<pc, next>> \in Edges /\ pc' = next
    BY DEF Execute
  <2>4. pc < next
    BY <2>3 DEF Forward
  <2> QED
    BY <2>1, <2>2, <2>3, <2>4
<1>2. IInv'
  BY <1>1, StutterIInv DEF LaneInv
<1> DEFINE p == blocks[pc].rd
           d == source[pc].rd
<1>3. source[pc] \in Instruction /\ blocks[pc] = Rewritten(source[pc])
  BY <1>1 DEF LaneInv, IInv, ProgramInv
<1>4. p = Assigned(d)
  BY <1>3 DEF Rewritten
<1>5. \A v \in DOMAIN intervals : /\ intervals[v].birth \in Nat
                                  /\ intervals[v].death \in Nat
  BY DEF LaneInv, IInv, ScanInv, StateType, LiveRange
<1>6. /\ UNCHANGED <<intervals, vregToPhys, phase>>
  BY <1>1 DEF vars
<1>7. CASE d = VREG_ZERO
  <2>1. p = 0 /\ UNCHANGED <<holds, written>>
    BY <1>4, <1>7 DEF Assigned, VREG_ZERO, Execute
  <2> QED
    BY <1>1, <1>2, <1>5, <1>6, <2>1 DEF LaneInv, ValuesHeld
<1>8. CASE d # VREG_ZERO
  <2>1. d \in Uses(source[pc])
    BY <1>3, <1>8 DEF Uses
  <2>2. /\ d \in DOMAIN vregToPhys
        /\ p = vregToPhys[d]
        /\ p \in PhysRegs
    BY <1>1, <1>4, <1>8, <2>1, RewrittenType DEF LaneInv, Assigned
  <2>3. p # 0
    BY <2>2, NumPhysRegsAssumption DEF PhysRegs
  <2>4. /\ d \in DOMAIN intervals
        /\ intervals[d].birth <= pc /\ pc <= intervals[d].death
    BY <1>1, <2>1 DEF LaneInv, IInv, ProgramInv
  <2>5. /\ holds' = [r \in DOMAIN holds \cup {p} |-> IF r = p THEN d ELSE holds[r]]
        /\ written' = written \cup {d}
    BY <2>3 DEF Execute
  <2> HIDE DEF p, d
  <2>6. ASSUME NEW v \in written'
        PROVE  /\ v \in DOMAIN vregToPhys
               /\ v \in DOMAIN intervals
               /\ intervals[v].birth < pc'
               /\ pc' <= intervals[v].death =>
                    /\ vregToPhys[v] \in DOMAIN holds'
                    /\ holds'[vregToPhys[v]] = v
    <3>1. CASE v = d
      BY <1>1, <1>5, <2>2, <2>4, <2>5, <3>1
    <3>2. CASE v # d
      <4>1. v \in written
        BY <2>5, <2>6, <3>2
      <4>2. /\ v \in DOMAIN vregToPhys
            /\ v \in DOMAIN intervals
            /\ intervals[v].birth < pc
            /\ pc <= intervals[v].death =>
                 /\ vregToPhys[v] \in DOMAIN holds
                 /\ holds[vregToPhys[v]] = v
        BY <4>1 DEF LaneInv, ValuesHeld
      <4>3. intervals[v].birth < pc'
        BY <1>1, <1>5, <4>2
      <4>4. ASSUME pc' <= intervals[v].death
            PROVE  /\ vregToPhys[v] \in DOMAIN holds'
                   /\ holds'[vregToPhys[v]] = v
        <5>1. pc <= intervals[v].death
          BY <1>1, <1>5, <4>2, <4>4
        <5>2. Overlap(intervals[v], intervals[d])
          BY <1>1, <1>5, <2>4, <4>2, <5>1 DEF Overlap
        <5>3. vregToPhys[v] # p
          BY <2>2, <3>2, <4>2, <5>2 DEF LaneInv, IInv, ScanInv, NoInterference
        <5> QED
          BY <2>5, <4>2, <5>1, <5>3
      <4> QED
        BY <4>2, <4>3, <4>4
    <3> QED
      BY <3>1, <3>2
  <2> QED
    BY <1>1, <1>2, <1>6, <2>6 DEF LaneInv, ValuesHeld
<1> QED
  BY <1>7, <1>8

\* A program whose control flow only goes forward reads, at every operand and
\* along every path, the value its own virtual register was given last.
THEOREM ForwardProgramsKeepTheirValues ==
  ASSUME Forward
  PROVE  LaneSpec => []ReadsOwnValue
<1>1. LaneInv /\ [LaneNext]_allVars => LaneInv'
  <2> SUFFICES ASSUME LaneInv, [LaneNext]_allVars PROVE LaneInv'
    OBVIOUS
  <2>1. CASE Compile
    BY <2>1, CompileInv
  <2>2. CASE Execute
    BY <2>2, ExecuteInv
  <2>3. CASE UNCHANGED allVars
    <3>1. IInv'
      BY <2>3, StutterIInv DEF LaneInv, allVars
    <3> QED
      BY <2>3, <3>1 DEF allVars, vars, laneVars, LaneInv, ValuesHeld
  <2> QED
    BY <2>1, <2>2, <2>3 DEF LaneNext
<1>2. LaneInv => ReadsOwnValue
  <2> SUFFICES ASSUME LaneInv, phase = "ok", pc \in 1..Len(blocks)
               PROVE  /\ Intact(source[pc].rs1, blocks[pc].rs1)
                      /\ Intact(source[pc].rs2, blocks[pc].rs2)
    BY DEF ReadsOwnValue
  <2>1. pc \in 1..Len(source) /\ blocks[pc] = Rewritten(source[pc])
    BY DEF LaneInv, IInv, ProgramInv
  <2>2. ASSUME NEW u \in {source[pc].rs1, source[pc].rs2}, u \in written
        PROVE  Assigned(u) \in DOMAIN holds /\ holds[Assigned(u)] = u
    <3>1. \A v \in VRegs : v # VREG_ZERO
      BY VRegsAssumption DEF VREG_ZERO
    <3>2. DOMAIN intervals \subseteq VRegs
      BY DEF LaneInv, IInv, ScanInv, StateType
    <3>3. u \in DOMAIN vregToPhys /\ u \in DOMAIN intervals /\ u # VREG_ZERO
      BY <2>2, <3>1, <3>2 DEF LaneInv, ValuesHeld
    <3>4. u \in Uses(source[pc])
      BY <2>2, <3>3 DEF Uses
    <3>5. pc <= intervals[u].death
      BY <2>1, <3>4 DEF LaneInv, IInv, ProgramInv
    <3> QED
      BY <2>2, <3>3, <3>5 DEF LaneInv, ValuesHeld, Assigned
  <2> QED
    BY <2>1, <2>2 DEF Intact, Rewritten
<1> QED
  BY <1>1, <1>2, LaneInitInv, PTL DEF LaneSpec

=============================================================================
