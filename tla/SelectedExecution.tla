------------------------- MODULE SelectedExecution -------------------------
(***************************************************************************)
(* Selected code, run by one lane that still has all virtual registers:    *)
(* does it do what KernelRun says the kernel means?                        *)
(*                                                                         *)
(* The lane is external to the repository; what instructions do follows    *)
(* the comments of enum Opcode (include/FpgaGpu.h), in registers of        *)
(* LANE_WIDTH_BITS, and which of them set NZP the comment at the branch    *)
(* (src/FpgaGpuISel.cpp:330).                                              *)
(***************************************************************************)
EXTENDS InstructionSelector

CONSTANTS
  SysReg,    \* the values of the system registers of the lane
  MaxSteps   \* runs are followed for this many IR instructions

ASSUME RunAssumption ==
  /\ MaxSteps \in Nat
  /\ SysReg \in [TID_X..BID_Y -> Words]

VARIABLES
  args,
  at,      \* the IR instruction whose code is next, or one of the three below
  done,    \* how many instructions of that code have been executed
  regs,    \* the registers written so far
  nzp,     \* the sign of the last result: "N", "Z" or "P"
  mem,
  env,     \* history: the IR values as the registers had them
  steps

laneVars == <<args, at, done, regs, nzp, mem, env, steps>>

NotStarted == <<1, 0>>
Returned   == <<0, 0>>
Fault      == <<0, 1>>   \* a register was read that nothing has written

KernelPosition == IF at = NotStarted THEN <<1, 1>> ELSE at

Kernel == INSTANCE KernelRun WITH function <- kernel.blocks, at <- KernelPosition

-----------------------------------------------------------------------------
(* What LLVM's verifier has made sure of.                                  *)

Successors(blocks, b) == UNION {Range(ins.succ) : ins \in Range(blocks[b].code)}

\* Every path from the entry to b goes through a.
Dominates(blocks, a, b) ==
  \/ a = 1 \/ a = b
  \/ \E S \in SUBSET (DOMAIN blocks \ {a, b}) :
       1 \in S /\ \A c \in S : Successors(blocks, c) \subseteq S \cup {a}

\* What instruction j of block c computes is there for instruction i of block b.
Precedes(blocks, c, j, b, i) == IF c = b THEN j < i ELSE Dominates(blocks, c, b)

Yields(ins) ==
  \/ Kernel!Computes(ins)
  \/ ins.op \in {"phi", "select", "alloca"}
  \/ ins.op \in {"asm", "call"} /\ ins.form = "unknown"

\* Operand v of instruction i of block b; those of a phi come from elsewhere.
Defined(k, b, i, v) ==
  /\ v[1] = "arg" => v[2] < k.params
  /\ IsResult(v) => /\ v[2] \in DOMAIN k.blocks
                    /\ v[3] \in DOMAIN k.blocks[v[2]].code
                    /\ Yields(k.blocks[v[2]].code[v[3]])
                    /\ \/ Precedes(k.blocks, v[2], v[3], b, i)
                       \/ k.blocks[b].code[i].op = "phi"

\* A block ends in its only terminator.
IsVerifiedBlock(k, b) ==
  /\ k.blocks[b].code # <<>>
  /\ Successors(k.blocks, b) \subseteq DOMAIN k.blocks
  /\ \A i \in DOMAIN k.blocks[b].code :
       LET ins == k.blocks[b].code[i]
       IN  /\ InItsClass(ins)
           /\ ins.op \in Terminators <=> i = Len(k.blocks[b].code)
           /\ \A v \in Range(ins.ops) : Defined(k, b, i, v)

\* A kernel also says which arguments it is to be run with.
IsVerified(k) ==
  /\ k.inputs \subseteq [1..k.params -> Words]
  /\ k.blocks \in Seq([name : STRING, code : Seq(IRInstruction)])
  /\ \A b \in DOMAIN k.blocks : IsVerifiedBlock(k, b)

ASSUME VerifiedAssumption == \A k \in Kernels : IsVerified(k)

-----------------------------------------------------------------------------
(* The lane.                                                               *)

RegistersRead(mi) ==
  CASE mi.op \in ThreeRegister \cup {"CMP", "STR"} -> {mi.rs1, mi.rs2}
    [] mi.op \in {"ADDI", "LDR"}                  -> {mi.rs1}
    [] OTHER                                      -> {}

\* R0 reads as 0 and is never written.
Filled(r) == r = VREG_ZERO \/ r \in DOMAIN regs
Read(r) == IF r = VREG_ZERO THEN 0 ELSE regs[r]

\* The word holds 14 bits of an immediate.
Immediate(mi) == SignExtended(Masked(mi.imm, 14), 14)

Sum(mi) ==
  LET x == Read(mi.rs1)
      y == IF mi.op = "ADDI" THEN Immediate(mi) ELSE Read(mi.rs2)
  IN  WordOf(CASE mi.op \in {"ADD", "ADDI"} -> x + y
               [] mi.op \in {"SUB", "CMP"}  -> x - y
               [] mi.op = "MUL"             -> x * y)

SetsSign(mi) == mi.op \in ThreeRegister \cup {"ADDI", "CMP"}

Sign(n) == IF n < 0 THEN "N" ELSE IF n = 0 THEN "Z" ELSE "P"

ValueWritten(mi) ==
  CASE mi.op = "LDR" -> Kernel!LoadedFrom(mem, Read(mi.rs1), LANE_WIDTH_BITS)
    [] mi.op = "S2R" -> SysReg[mi.imm]
    [] OTHER         -> Sum(mi)

Taken(mi) == mi.op = "BR" /\ (mi.cond = ALWAYS \/ nzp \in LettersOf(mi.cond))

\* The emitter's map keeps the last of equal labels.
BlockLabelled(name) == Max({b \in Blocks : BlockName(b) = name})

\* The effect of an instruction on registers, NZP and memory.
Execute(mi) ==
  /\ regs' = IF mi.op \in ThreeRegister \cup {"ADDI", "LDR", "S2R"} /\ mi.rd # VREG_ZERO
             THEN Updated(regs, mi.rd, ValueWritten(mi)) ELSE regs
  /\ nzp' = IF SetsSign(mi) THEN Sign(Sum(mi)) ELSE nzp
  /\ mem' = IF mi.op = "STR"
            THEN Kernel!StoredIn(mem, Read(mi.rs1), Read(mi.rs2), LANE_WIDTH_BITS) ELSE mem

-----------------------------------------------------------------------------
LaneInit ==
  /\ Init
  /\ args \in kernel.inputs
  /\ at = NotStarted
  /\ done = 0
  /\ regs = EmptyMap
  /\ nzp = "Z"
  /\ mem = Kernel!ArgumentMemory
  /\ env = EmptyMap
  /\ steps = 0

Select == Next /\ UNCHANGED laneVars

Running == Finished /\ at \notin {Returned, Fault} /\ steps < MaxSteps

\* The instructions the lane is in the middle of.
Group == IF at = NotStarted THEN prologue ELSE code[at[1]][at[2]]

\* What comes after the group in the text.
Fallthrough ==
  CASE at = NotStarted                  -> <<1, 1>>
    [] at # NotStarted /\ at[2] < Len(CodeOf(at[1])) -> <<at[1], at[2] + 1>>
    [] OTHER -> IF at[1] < Len(kernel.blocks) THEN <<at[1] + 1, 1>> ELSE Fault

\* The value of v by the registers; 0 for one that has no register.
Shown(v, registers) ==
  CASE IsConst(v) -> v[2]
    [] ~IsConst(v) /\ v \in DOMAIN valueToVReg /\ Field(valueToVReg[v]) \in DOMAIN registers
         -> registers[Field(valueToVReg[v])]
    [] OTHER -> 0

Seen(ins, self) ==
  IF ins.op = "icmp"
  THEN IF Kernel!Holds(ins.form, Shown(ins.ops[1], regs), Shown(ins.ops[2], regs)) THEN 1 ELSE 0
  ELSE Shown(self, regs')

\* The group of an IR instruction is left; its value is what it put into its
\* register.
Leave(to) ==
  /\ at' = to
  /\ done' = 0
  /\ steps' = steps + 1
  /\ env' = IF at # NotStarted /\ Kernel!Computes(CodeOf(at[1])[at[2]])
            THEN Updated(env, Result(at[1], at[2]),
                         Seen(CodeOf(at[1])[at[2]], Result(at[1], at[2])))
            ELSE env

\* An IR instruction, or a prologue, without code.
Pass ==
  /\ Running
  /\ Group = <<>>
  /\ Leave(Fallthrough)
  /\ UNCHANGED <<selectorVars, args, regs, nzp, mem>>

NextInstruction == Group[done + 1]

Ready == Running /\ done < Len(Group)
           /\ \A r \in RegistersRead(NextInstruction) : Filled(r)

Step ==
  /\ Ready
  /\ ~Taken(NextInstruction) /\ NextInstruction.op # "EXIT"
  /\ Execute(NextInstruction)
  /\ IF done + 1 = Len(Group) THEN Leave(Fallthrough)
     ELSE done' = done + 1 /\ UNCHANGED <<at, env, steps>>
  /\ UNCHANGED <<selectorVars, args>>

TakeBranch ==
  /\ Ready
  /\ Taken(NextInstruction)
  /\ Leave(<<BlockLabelled(NextInstruction.labelTarget), 1>>)
  /\ UNCHANGED <<selectorVars, args, regs, nzp, mem>>

Exit ==
  /\ Ready
  /\ NextInstruction.op = "EXIT"
  /\ Leave(Returned)
  /\ UNCHANGED <<selectorVars, args, regs, nzp, mem>>

ReadUnfilled ==
  /\ Running
  /\ done < Len(Group)
  /\ \E r \in RegistersRead(NextInstruction) : ~Filled(r)
  /\ at' = Fault
  /\ UNCHANGED <<selectorVars, args, done, regs, nzp, mem, env, steps>>

LaneNext == Select \/ Pass \/ Step \/ TakeBranch \/ Exit \/ ReadUnfilled

LaneSpec == LaneInit /\ [][LaneNext]_<<selectorVars, laneVars>>
                     /\ WF_<<selectorVars, laneVars>>(LaneNext)

-----------------------------------------------------------------------------
(* The kernels the selector is right for.                                  *)

Instructions == UNION {Range(CodeOf(b)) : b \in Blocks}

NonZero(operands) == {v \in operands : IsConst(v) /\ v # Zero}

\* The operands asked for with getOrCreateVReg and getOrMaterializeVReg.
OnlyGotten(ins) ==
  CASE ins.op = "binary" /\ ins.form = "add" /\ IsShort(ins.ops[2]) -> {ins.ops[1]}
    [] ins.op \in {"cast", "load", "gep"} \/ ins.form = "ldr"       -> {ins.ops[1]}
    [] ins.op = "store" \/ ins.form = "str"                         -> {ins.ops[2]}
    [] OTHER                                                        -> {}

Materialized(ins) ==
  CASE ins.op = "binary" ->
         IF ins.form = "add" /\ IsShort(ins.ops[2]) THEN {}
         ELSE IF ins.form = "shl" /\ IsConst(ins.ops[2]) THEN {ins.ops[1]}
         ELSE Range(ins.ops)
    [] ins.op = "store" \/ ins.form = "str" -> {ins.ops[1]}
    [] ins.op = "gep" ->
         IF \A v \in Range(Tail(ins.ops)) : IsConst(v) THEN {} ELSE {Last(ins.ops)}
    [] ins.op = "br" /\ ins.ops # <<>> /\ IsPredicate(ins.ops[1]) ->
         Range(InstructionOf(ins.ops[1]).ops)
    [] OTHER                                -> {}

ConstantsOf(b) == UNION {NonZero(Materialized(ins)) : ins \in Range(CodeOf(b))}

\* Every constant is filled, in the first block that needs it, on the way to
\* the others.
ConstantsDominate ==
  \A b \in Blocks : \A v \in ConstantsOf(b) :
    Dominates(kernel.blocks, Min({c \in Blocks : v \in ConstantsOf(c)}), b)

\* What an ADDI adds by the comment at src/FpgaGpuISel.cpp:217; its field in
\* the word has two bits more.
Fits(n) == n \in -2048..2047

\* The numbers that have to be immediates.
Numbers(ins) ==
  {v[2] : v \in {w \in Range(ins.ops) : IsConst(w)}}
    \cup (IF ins.op = "gep"
          THEN {ins.attr[1], IF IsConst(ins.ops[2]) THEN ins.ops[2][2] * ins.attr[1] ELSE 0}
          ELSE {})
    \cup (IF ins.form = "shl" /\ IsConst(ins.ops[2]) THEN {2^ins.ops[2][2]} ELSE {})

\* LDR, STR and arithmetic are on words, whatever the type.
HasWidth(ins) == ins.op \in {"binary", "icmp", "load", "store"}

IsSupported(ins) ==
  /\ ~IsDropped(ins)
  /\ HasWidth(ins) => ins.bits = LANE_WIDTH_BITS
  /\ ins.op = "cast" => ins.form = "bitcast" /\ ins.bits = LANE_WIDTH_BITS
  /\ ins.op # "alloca"
  /\ \A v \in Range(ins.ops) : v[1] # "global"
  /\ NonZero(OnlyGotten(ins)) = {}
  /\ ins.op = "gep" => Len(ins.attr) = 1 /\ ins.attr[1] > 0
  /\ \A n \in Numbers(ins) : Fits(n)
  /\ ins.op = "binary" => ins.form \in {"add", "sub", "mul", "shl"}
  /\ ins.op = "binary" /\ ins.form = "shl" => IsConst(ins.ops[2])
  /\ ins.op = "br" /\ ins.ops # <<>> => IsPredicate(ins.ops[1])
  /\ ins.op = "call" => \A v \in Range(ins.ops) : IsConst(v)

Supported ==
  /\ \A ins \in Instructions : IsSupported(ins)
  /\ \A b \in Blocks : \A i \in DOMAIN CodeOf(b) :
       CodeOf(b)[i].op = "icmp" => BranchOnly(Result(b, i))
  /\ ConstantsDominate
  /\ \A b, c \in Blocks : BlockName(b) = BlockName(c) => b = c
  /\ nextVReg <= FieldSize

Signed   == {"slt", "sle", "sgt", "sge"}
Unsigned == {"ult", "ule", "ugt", "uge"}

\* The sign of the word x - y is not the order of x and y: the difference wraps,
\* or, of numbers without a sign, should have.
Misread(pred, x, y) ==
  LET wraps == WordOf(x - y) # x - y
  IN  \/ pred \in Signed /\ wraps
      \/ pred \in Unsigned /\ ~wraps /\ (x < 0) # (y < 0)

\* The lane is at a branch whose CMP cannot tell.
AtMisreadComparison ==
  /\ at \notin {NotStarted, Returned, Fault}
  /\ LET ins == CodeOf(at[1])[at[2]]
     IN  /\ ins.op = "br" /\ ins.ops # <<>>
         /\ LET c == InstructionOf(ins.ops[1])
            IN  Misread(c.form, Shown(c.ops[1], regs), Shown(c.ops[2], regs))

-----------------------------------------------------------------------------
TypeOK ==
  /\ position[1] \in 1..(Len(kernel.blocks) + 1) /\ position[2] \in Nat \ {0}
  /\ nextVReg \in Nat \ {0}
  /\ \A v \in DOMAIN valueToVReg : valueToVReg[v] \in 1..(nextVReg - 1)
  /\ DOMAIN code = Blocks
  /\ \A b \in Blocks : Len(code[b]) <= Len(CodeOf(b))
  /\ DOMAIN regs \subseteq 1..(FieldSize - 1)
  /\ nzp \in {"N", "Z", "P"}
  /\ steps \in 0..MaxSteps

\* No instruction reads a register that no instruction on the path to it has
\* written, and control stays in the function.
OperandsFilled == at = Fault => ~Supported

\* The same for every kernel.
EveryOperandFilled == at # Fault

\* Instruction by instruction the lane computes the values the IR computes,
\* writes the same bytes of memory and goes the same way, until a comparison
\* is one that CMP cannot decide: a signed one whose difference wraps, an
\* unsigned one of different signs whose difference does not.  The types are
\* words, and every ADDI has an immediate of twelve bits (Supported).
ImplementsKernel ==
  /\ Kernel!Init
  /\ [][Supported /\ Finished /\ ~AtMisreadComparison => Kernel!Next]_(Kernel!kernelVars)

\* No ADDI has an immediate beyond the range that the comment at
\* src/FpgaGpuISel.cpp:217 gives the hardware.
AddImmediatesAreShort ==
  \A b \in Blocks : \A group \in Range(code[b]) : \A mi \in Range(group) :
    mi.op = "ADDI" => Fits(mi.imm)

\* A kernel whose loops end is run to its end.
Returns == (Finished /\ Supported) ~> (at = Returned)

=============================================================================
