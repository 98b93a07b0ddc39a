------------------------------ MODULE RegAlloc ------------------------------
(***************************************************************************)
(* RegisterAllocator::allocate (src/FpgaGpuRegAlloc.cpp): the linear-scan  *)
(* allocator that maps the virtual registers of the selected code to the   *)
(* physical registers R1..R31, R0 being the hardware's zero register.      *)
(*                                                                         *)
(* The allocator walks the basic blocks only in their textual order, so a  *)
(* program is here the concatenation of its blocks: a sequence of          *)
(* instructions of which only the three register fields matter.  Positions *)
(* count from 1 (the code's globalIdx counts from 0).                      *)
(*                                                                         *)
(* allocate runs in three loops, each one a phase:                         *)
(*   "ranges"   one step per instruction: record the uses of its operands  *)
(*   "scan"     one step per interval: expire, then take a register        *)
(*   "rewrite"  one step per instruction: replace its operands in place    *)
(* and returns true ("ok") or false ("failed").                            *)
(***************************************************************************)
EXTENDS Integers, Sequences, FiniteSets, FiniteSetsExt

CONSTANTS
  NumPhysRegs,  \* NUM_PHYSICAL_REGS: the registers R0 .. R(NumPhysRegs-1)
  VRegs,        \* the virtual registers other than VREG_ZERO
  Programs      \* the programs the allocator may be given

VREG_ZERO == 0

\* What the allocator reads and writes of a MachineInstruction.
Instruction == [rd  : VRegs \cup {VREG_ZERO},
                rs1 : VRegs \cup {VREG_ZERO},
                rs2 : VRegs \cup {VREG_ZERO}]

\* There is at least the zero register; the register fields are uint8_t.
ASSUME NumPhysRegsAssumption == NumPhysRegs \in Nat \ {0}
ASSUME VRegsAssumption == VRegs \subseteq 1..255
ASSUME ProgramsAssumption == Programs \subseteq Seq(Instruction)

VARIABLES
  source,      \* the program as it was handed in (a history variable)
  blocks,      \* the program, rewritten in place
  phase,       \* the loop being run, or the value returned
  globalIdx,   \* the instruction the loop is at
  intervals,   \* recorded VReg -> its LiveRange
  pending,     \* the part of sortedRegs not scanned yet
  freePool,    \* the physical registers not taken
  active,      \* the VRegs whose interval holds a register
  vregToPhys   \* scanned VReg -> its physical register

vars == <<source, blocks, phase, globalIdx, intervals, pending, freePool,
          active, vregToPhys>>

-----------------------------------------------------------------------------
\* The allocatable registers: R0 never enters the pool.
PhysRegs == 1 .. NumPhysRegs - 1

\* The virtual registers an instruction mentions.
Uses(mi) == {mi.rd, mi.rs1, mi.rs2} \ {VREG_ZERO}

EmptyMap == [v \in {} |-> 0]

\* Two live ranges have a position in common.
Overlap(r, s) == r.birth <= s.death /\ s.birth <= r.death

\* A walk that lets every use restart the range.
StretchedFaulty(v, i) == [birth |-> i, death |-> i]

(***************************************************************************)
(* recordUse: the first use creates the range, every later one stretches   *)
(* it to the position reached.                                             *)
(***************************************************************************)
Stretched(v, i) ==
  IF v \in DOMAIN intervals
  THEN [birth |-> Min({intervals[v].birth, i}),
        death |-> Max({intervals[v].death, i})]
  ELSE [birth |-> i, death |-> i]

\* The order of sortedRegs: by birth, then by death; std::sort leaves equal
\* ranges in any order.
NotAfter(r, s) == \/ r.birth < s.birth
                  \/ r.birth = s.birth /\ r.death <= s.death

IsNext(v) == /\ v \in pending
             /\ \A w \in pending : NotAfter(intervals[v], intervals[w])

\* Expiry with <= for <: a range that ends where v's begins gives up its
\* register too early.
ExpiredFaulty(v) == {w \in active : intervals[w].death <= intervals[v].birth}

\* The active ranges that end before v's begins, all that the loop over active
\* erases, and the pool once their registers have gone back.
Expired(v) == {w \in active : intervals[w].death < intervals[v].birth}

\* Expiry that drops the range and forgets to return its register.
PoolForFaulty(v) == freePool

PoolFor(v) == freePool \cup {vregToPhys[w] : w \in Expired(v)}

\* The operand after allocation.
Assigned(v) == IF v = VREG_ZERO THEN VREG_ZERO ELSE vregToPhys[v]

\* Rewriting rs2 with the register of rs1.
RewrittenFaulty(mi) == [rd  |-> Assigned(mi.rd),
                        rs1 |-> Assigned(mi.rs1),
                        rs2 |-> Assigned(mi.rs1)]

Rewritten(mi) == [rd  |-> Assigned(mi.rd),
                  rs1 |-> Assigned(mi.rs1),
                  rs2 |-> Assigned(mi.rs2)]

-----------------------------------------------------------------------------
Init ==
  /\ source \in Programs
  /\ blocks = source
  /\ phase = "ranges"
  /\ globalIdx = 1
  /\ intervals = EmptyMap
  /\ pending = {}
  /\ freePool = {}
  /\ active = {}
  /\ vregToPhys = EmptyMap

\* Step 1: one instruction of the walk that computes the live ranges.
RecordUses ==
  /\ phase = "ranges"
  /\ globalIdx <= Len(blocks)
  /\ LET used == Uses(blocks[globalIdx])
     IN  intervals' = [v \in DOMAIN intervals \cup used |->
                         IF v \in used THEN Stretched(v, globalIdx)
                                       ELSE intervals[v]]
  /\ globalIdx' = globalIdx + 1
  /\ UNCHANGED <<source, blocks, phase, pending, freePool, active, vregToPhys>>

\* A pool that begins with R0, the zero register.
StartScanFaulty ==
  /\ phase = "ranges"
  /\ globalIdx > Len(blocks)
  /\ phase' = "scan"
  /\ pending' = DOMAIN intervals
  /\ freePool' = 0 .. NumPhysRegs - 1
  /\ UNCHANGED <<source, blocks, globalIdx, intervals, active, vregToPhys>>

\* Step 2 and the start of step 3: sort the ranges and fill the pool.
StartScan ==
  /\ phase = "ranges"
  /\ globalIdx > Len(blocks)
  /\ phase' = "scan"
  /\ pending' = DOMAIN intervals
  /\ freePool' = PhysRegs
  /\ UNCHANGED <<source, blocks, globalIdx, intervals, active, vregToPhys>>

\* Step 3, one range: expire the old ones and take the smallest free register.
Allocate(v) ==
  /\ phase = "scan"
  /\ IsNext(v)
  /\ PoolFor(v) # {}
  /\ LET phys == Min(PoolFor(v))
     IN  /\ vregToPhys' = [w \in DOMAIN vregToPhys \cup {v} |->
                             IF w = v THEN phys ELSE vregToPhys[w]]
         /\ freePool' = PoolFor(v) \ {phys}
  /\ active' = (active \ Expired(v)) \cup {v}
  /\ pending' = pending \ {v}
  /\ UNCHANGED <<source, blocks, phase, globalIdx, intervals>>

\* Step 3, one range: expiry frees nothing and allocate returns false.
OutOfRegisters(v) ==
  /\ phase = "scan"
  /\ IsNext(v)
  /\ PoolFor(v) = {}
  /\ phase' = "failed"
  /\ active' = active \ Expired(v)
  /\ freePool' = PoolFor(v)
  /\ UNCHANGED <<source, blocks, globalIdx, intervals, pending, vregToPhys>>

StartRewrite ==
  /\ phase = "scan"
  /\ pending = {}
  /\ phase' = "rewrite"
  /\ globalIdx' = 1
  /\ UNCHANGED <<source, blocks, intervals, pending, freePool, active, vregToPhys>>

\* Step 4: one instruction.
RewriteInstruction ==
  /\ phase = "rewrite"
  /\ globalIdx <= Len(blocks)
  /\ blocks' = [blocks EXCEPT ![globalIdx] = Rewritten(blocks[globalIdx])]
  /\ globalIdx' = globalIdx + 1
  /\ UNCHANGED <<source, phase, intervals, pending, freePool, active, vregToPhys>>

Return ==
  /\ phase = "rewrite"
  /\ globalIdx > Len(blocks)
  /\ phase' = "ok"
  /\ UNCHANGED <<source, blocks, globalIdx, intervals, pending, freePool,
                 active, vregToPhys>>

Next ==
  \/ RecordUses
  \/ StartScan
  \/ \E v \in VRegs : Allocate(v)
  \/ \E v \in VRegs : OutOfRegisters(v)
  \/ StartRewrite
  \/ RewriteInstruction
  \/ Return

Spec == Init /\ [][Next]_vars

-----------------------------------------------------------------------------
(* Correctness.                                                            *)

LiveRange == [birth : Nat \ {0}, death : Nat \ {0}]

\* The state's type: in particular R0 is never free and never handed out.
TypeOK ==
  /\ source \in Seq(Instruction)
  /\ blocks \in Seq([rd : Nat, rs1 : Nat, rs2 : Nat])
  /\ phase \in {"ranges", "scan", "rewrite", "ok", "failed"}
  /\ globalIdx \in Nat \ {0}
  /\ DOMAIN intervals \subseteq VRegs
  /\ intervals \in [DOMAIN intervals -> LiveRange]
  /\ pending \subseteq DOMAIN intervals
  /\ freePool \subseteq PhysRegs
  /\ active \subseteq DOMAIN vregToPhys
  /\ DOMAIN vregToPhys \subseteq DOMAIN intervals
  /\ vregToPhys \in [DOMAIN vregToPhys -> PhysRegs]

\* The positions, up to and including i, that mention v.
Mentions(v, i) == {j \in 1..i : j <= Len(source) /\ v \in Uses(source[j])}

\* The walk of step 1: what has been recorded is, for each register seen so
\* far, exactly the first and the last position that mention it.
IntervalsExact ==
  phase = "ranges" =>
    \A v \in VRegs :
      LET seen == Mentions(v, globalIdx - 1)
      IN  /\ v \in DOMAIN intervals <=> seen # {}
          /\ seen # {} => intervals[v] = [birth |-> Min(seen), death |-> Max(seen)]

\* Two virtual registers that hold the same physical register never have a
\* position in common, at any moment of the scan and after it.
NoInterference ==
  \A v, w \in DOMAIN vregToPhys :
    v # w /\ vregToPhys[v] = vregToPhys[w] => ~Overlap(intervals[v], intervals[w])

\* The physical registers are neither lost nor duplicated: from the start of
\* the scan on, each one is either in the pool or held by exactly one active
\* range.
PoolConserved ==
  phase # "ranges" =>
    \A p \in PhysRegs :
      LET holders == {v \in active : vregToPhys[v] = p}
      IN  Cardinality(holders) = IF p \in freePool THEN 0 ELSE 1

\* Rewriting is a renaming.  On success two operands of the program, at
\* positions where both registers are live, are renamed to the same register
\* only if they were the same, and R0 stays R0; on failure the program the
\* caller still holds is untouched.
Operands(mi) == <<mi.rd, mi.rs1, mi.rs2>>

RewriteIsRenaming ==
  /\ phase = "failed" => blocks = source
  /\ phase = "ok" =>
       \A i \in 1..Len(source), k, l \in 1..3 :
         LET u == Operands(source[i])
             p == Operands(blocks[i])
         IN  /\ u[k] = VREG_ZERO <=> p[k] = 0
             /\ u[k] = u[l] <=> p[k] = p[l]

\* allocate implements the abstract promise: every colour it takes is legal
\* at that moment, and it fails only under real register pressure.
PromiseStatus ==
  IF phase = "ranges" THEN "measuring"
  ELSE IF phase = "scan" THEN "colouring"
  ELSE IF phase = "failed" THEN "failed"
  ELSE "done"

Promise == INSTANCE IntervalColouring
             WITH Items <- VRegs, Colours <- PhysRegs,
                  ranges <- intervals, colour <- vregToPhys,
                  status <- PromiseStatus

ImplementsPromise == Promise!Spec

=============================================================================
