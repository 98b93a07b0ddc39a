------------------------ MODULE InstructionSelector ------------------------
(***************************************************************************)
(* InstructionSelector (src/FpgaGpuISel.cpp): the blocks of a function in  *)
(* textual order, each IR instruction turned into machine instructions on  *)
(* virtual registers.                                                      *)
(*                                                                         *)
(* A handler asks for registers, in an order that decides their numbers,   *)
(* and pushes instructions; a register asked for may bring the ADDI that   *)
(* fills it.  Both are one step here: the list of what the handler asks    *)
(* for, and the instructions it pushes as a function of the answers.       *)
(***************************************************************************)
EXTENDS KernelIR, MachineCode, SequencesExt, TLC

CONSTANTS
  Kernels,     \* the functions that may be selected, each with the number of
               \* its arguments: records [params, blocks]
  FieldSize    \* how many numbers the register fields of a MachineInstruction
               \* hold: 256, as they are uint8_t, or fewer to check the limit

ASSUME KernelsAssumption ==
  \A k \in Kernels : k.params \in Nat /\ k.blocks # <<>>

ASSUME FieldSizeAssumption == FieldSize \in 1..256

VARIABLES
  kernel,
  position,     \* <<block, instruction>> that selectInstruction comes to next
  valueToVReg,
  nextVReg,
  prologue,     \* what the entry block is given before its first instruction
  code          \* block -> its instructions, those of each IR instruction apart

selectorVars == <<kernel, position, valueToVReg, nextVReg, prologue, code>>

VREG_ZERO == 0

Blocks == DOMAIN kernel.blocks
CodeOf(b) == kernel.blocks[b].code

\* blockNames: a block without a name is called after its position.
BlockName(b) ==
  IF kernel.blocks[b].name = "" THEN "bb." \o ToString(b - 1) ELSE kernel.blocks[b].name

\* A register number as a MachineInstruction holds it.
Field(reg) == reg % FieldSize

Plain(op, rd, rs1, rs2, imm) ==
  MachineInstruction(op, Field(rd), Field(rs1), Field(rs2), imm, ALWAYS, NoLabel)

Jump(cond, b) == MachineInstruction("BR", 0, 0, 0, 0, cond, BlockName(b))

-----------------------------------------------------------------------------
(* The value map.  An ask names a value, or Temporary for a register that  *)
(* no value has, and what to fill the register with if it is a new one.    *)

Temporary == <<"temporary">>

Get(v)         == [value |-> v, fill |-> <<>>]
Materialize(v) == [value |-> v, fill |-> IF IsConst(v) THEN <<v[2]>> ELSE <<>>]
Fresh          == [value |-> Temporary, fill |-> <<>>]
Number(n)      == [value |-> Temporary, fill |-> <<n>>]

\* The k-th of the asks of a handler calls allocateVReg: nobody before it has
\* asked for the value, which is not 0.
IsNew(asks, k) ==
  LET v == asks[k].value
  IN  \/ v = Temporary
      \/ /\ v # Zero
         /\ v \notin DOMAIN valueToVReg
         /\ \A j \in 1..(k - 1) : asks[j].value # v

\* Every ask counted, also those for values that have a register.
AllocatedFaulty(asks, k) == nextVReg + (k - 1)

\* A new register is the next one.
Allocated(asks, k) == nextVReg + Cardinality({j \in 1..(k - 1) : IsNew(asks, j)})

\* getOrCreateVReg: R0, the register the value has, or the one it gets here.
Register(asks, k) ==
  LET v == asks[k].value
      first == CHOOSE j \in 1..k : IsNew(asks, j) /\ asks[j].value = v
  IN  IF v = Zero THEN VREG_ZERO
      ELSE IF v \in DOMAIN valueToVReg THEN valueToVReg[v]
      ELSE Allocated(asks, IF v = Temporary THEN k ELSE first)

Registers(asks) == [k \in DOMAIN asks |-> Register(asks, k)]

\* Constants that have a register already filled again, the others never.
FillsFaulty(asks, k) ==
  IF IsNew(asks, k) THEN <<>>
  ELSE [i \in DOMAIN asks[k].fill |->
          Plain("ADDI", Register(asks, k), VREG_ZERO, 0, asks[k].fill[i])]

\* getOrMaterializeVReg: the first to ask for a constant fills its register,
\* in the block it is in.
Fills(asks, k) ==
  IF ~IsNew(asks, k) THEN <<>>
  ELSE [i \in DOMAIN asks[k].fill |->
          Plain("ADDI", Register(asks, k), VREG_ZERO, 0, asks[k].fill[i])]

\* What a handler that asks so pushes: what its asks bring, then its own.
Pushed(asks, own) == FlattenSeq([k \in DOMAIN asks |-> Fills(asks, k)]) \o own

\* Registers without a value not counted.
RecordFaulty(asks) ==
  LET new == {k \in DOMAIN asks : IsNew(asks, k)}
      values == {asks[k].value : k \in new} \ {Temporary}
  IN  /\ valueToVReg' = [v \in DOMAIN valueToVReg \cup values |->
                           IF v \in DOMAIN valueToVReg THEN valueToVReg[v]
                           ELSE Register(asks, CHOOSE k \in new : asks[k].value = v)]
      /\ nextVReg' = nextVReg + Cardinality(values)

\* The value map and the next number after the asks.
Record(asks) ==
  LET new == {k \in DOMAIN asks : IsNew(asks, k)}
      values == {asks[k].value : k \in new} \ {Temporary}
  IN  /\ valueToVReg' = [v \in DOMAIN valueToVReg \cup values |->
                           IF v \in DOMAIN valueToVReg THEN valueToVReg[v]
                           ELSE Register(asks, CHOOSE k \in new : asks[k].value = v)]
      /\ nextVReg' = nextVReg + Cardinality(new)

-----------------------------------------------------------------------------
Init ==
  /\ kernel \in Kernels
  /\ position = <<1, 1>>
  /\ valueToVReg = EmptyMap
  /\ nextVReg = 1
  /\ prologue = <<>>
  /\ code = [b \in Blocks |-> <<>>]

Loaded == Len(prologue) = 2 * kernel.params

\* The entry block begins with two instructions for each argument: its address
\* in the kernel argument memory, and the load.
LoadArgument ==
  /\ ~Loaded
  /\ LET k == Len(prologue) \div 2
         asks == <<Get(Arg(k)), Number(8 * k)>>
         r == Registers(asks)
     IN  /\ prologue' = prologue \o Pushed(asks, <<Plain("LDR", r[1], r[2], 0, 0)>>)
         /\ Record(asks)
  /\ UNCHANGED <<kernel, position, code>>

Finished == position[1] \notin Blocks

Here == CodeOf(position[1])[position[2]]
Self == Result(position[1], position[2])

\* selectInstruction is at an instruction of the given classes.
Selecting(ops) == Loaded /\ ~Finished /\ Here.op \in ops

\* A handler: what it asks for, what it pushes itself, and on to the next IR
\* instruction.
Handle(asks, own) ==
  /\ code' = [code EXCEPT ![position[1]] = Append(@, Pushed(asks, own))]
  /\ Record(asks)
  /\ position' = IF position[2] < Len(CodeOf(position[1]))
                 THEN <<position[1], position[2] + 1>> ELSE <<position[1] + 1, 1>>
  /\ UNCHANGED <<kernel, prologue>>

-----------------------------------------------------------------------------
(* Arithmetic and comparisons.                                             *)

\* The immediates selectBinaryOp gives to an ADDI.
IsShort(v) == IsConst(v) /\ v[2] \in -2048..2047

\* The instruction on registers for a binary operator; one without a case is
\* an ADD.
RegisterForm(form) ==
  CASE form = "sub"            -> "SUB"
    [] form \in {"mul", "shl"} -> "MUL"
    [] OTHER                   -> "ADD"

SelectBinaryOp ==
  /\ Selecting({"binary"})
  /\ LET x == Here.ops[1]
         y == Here.ops[2]
         addi   == Here.form = "add" /\ IsShort(y)
         shift  == Here.form = "shl" /\ IsConst(y)
         gotten == <<Get(Self), Get(x)>>
         move   == <<Get(Self), Materialize(x)>>
         scaled == <<Get(Self), Number(2^y[2]), Materialize(x)>>
         both   == <<Get(Self), Materialize(x), Materialize(y)>>
     IN  \/ /\ addi
            /\ Handle(gotten, <<Plain("ADDI", Register(gotten, 1), Register(gotten, 2), 0, y[2])>>)
         \/ /\ shift /\ y[2] = 0
            /\ Handle(move, <<Plain("ADDI", Register(move, 1), Register(move, 2), 0, 0)>>)
         \/ /\ shift /\ y[2] = 1
            /\ Handle(move, <<Plain("ADD", Register(move, 1), Register(move, 2), Register(move, 2), 0)>>)
         \/ /\ shift /\ y[2] > 1
            /\ Handle(scaled, <<Plain("MUL", Register(scaled, 1), Register(scaled, 3), Register(scaled, 2), 0)>>)
         \/ /\ ~addi /\ ~shift
            /\ Handle(both, <<Plain(RegisterForm(Here.form), Register(both, 1), Register(both, 2), Register(both, 3), 0)>>)

Compared(c) == <<Materialize(c.ops[1]), Materialize(c.ops[2])>>

Cmp(r) == Plain("CMP", 0, r[1], r[2], 0)

\* Only conditional branches use the predicate.
BranchOnly(v) ==
  \A b \in Blocks : \A i \in DOMAIN CodeOf(b) :
    v \in Range(CodeOf(b)[i].ops) => CodeOf(b)[i].op = "br"

SelectCmp ==
  /\ Selecting({"icmp"})
  /\ IF BranchOnly(Self) THEN Handle(<<>>, <<>>)
     ELSE Handle(Compared(Here), <<Cmp(Registers(Compared(Here)))>>)

-----------------------------------------------------------------------------
(* Branches.                                                               *)

NE == 5

\* The condition code of a predicate; there is one order for numbers with and
\* without a sign.
BranchCond(pred) ==
  CASE pred = "eq" -> 2              [] pred = "ne" -> NE
    [] pred \in {"slt", "ult"} -> 4  [] pred \in {"sle", "ule"} -> 6
    [] pred \in {"sgt", "ugt"} -> 1  [] pred \in {"sge", "uge"} -> 3

InstructionOf(v) == CodeOf(v[2])[v[3]]

IsPredicate(v) == IsResult(v) /\ InstructionOf(v).op = "icmp"

\* The way on when the condition is false left to the textual order.
BothWaysFaulty(cond) == <<Jump(cond, Here.succ[1])>>

BothWays(cond) == <<Jump(cond, Here.succ[1]), Jump(ALWAYS, Here.succ[2])>>

\* The predicate tested where it was computed instead of where it is used.
SelectBranchFaulty ==
  /\ Selecting({"br"})
  /\ \/ /\ Here.ops = <<>>
        /\ Handle(<<>>, <<Jump(ALWAYS, Here.succ[1])>>)
     \/ /\ Here.ops # <<>> /\ IsPredicate(Here.ops[1])
        /\ Handle(<<>>, BothWays(BranchCond(InstructionOf(Here.ops[1]).form)))
     \/ /\ Here.ops # <<>> /\ ~IsPredicate(Here.ops[1])
        /\ Handle(<<>>, BothWays(NE))

SelectBranch ==
  /\ Selecting({"br"})
  /\ \/ /\ Here.ops = <<>>
        /\ Handle(<<>>, <<Jump(ALWAYS, Here.succ[1])>>)
     \/ /\ Here.ops # <<>> /\ IsPredicate(Here.ops[1])
        /\ LET c == InstructionOf(Here.ops[1])
               r == Registers(Compared(c))
           IN  Handle(Compared(c), <<Cmp(r)>> \o BothWays(BranchCond(c.form)))
     \/ /\ Here.ops # <<>> /\ ~IsPredicate(Here.ops[1])
        /\ Handle(<<>>, BothWays(NE))

-----------------------------------------------------------------------------
(* Memory and addresses.                                                   *)

\* selectLoad, and ldr in inline assembly.
SelectLoad ==
  /\ Selecting({"load", "asm"})
  /\ Here.op = "asm" => Here.form = "ldr"
  /\ LET asks == <<Get(Self), Get(Here.ops[1])>>
         r == Registers(asks)
     IN  Handle(asks, <<Plain("LDR", r[1], r[2], 0, 0)>>)

\* selectStore, and str in inline assembly.
SelectStore ==
  /\ Selecting({"store", "asm"})
  /\ Here.op = "asm" => Here.form = "str"
  /\ LET asks == <<Materialize(Here.ops[1]), Get(Here.ops[2])>>
         r == Registers(asks)
     IN  Handle(asks, <<Plain("STR", 0, r[2], r[1], 0)>>)

\* An address is an offset to the base; of several indices only the last one
\* counts when one of them is not constant.
SelectGEP ==
  /\ Selecting({"gep"})
  /\ LET base    == Here.ops[1]
         indices == Tail(Here.ops)
         size    == Here.attr[1]
         constant == \A k \in DOMAIN indices : IsConst(indices[k])
         offset  == FoldFunctionOnSet(+, 0, [k \in DOMAIN indices |-> indices[k][2] * Here.attr[k]],
                                      DOMAIN indices)
         addresses == <<Get(base), Get(Self)>>
         one    == <<Get(base), Get(Self), Materialize(Last(indices))>>
         scaled == <<Get(base), Get(Self), Materialize(Last(indices)), Fresh, Number(size)>>
     IN  \/ /\ constant
            /\ LET r == Registers(addresses)
               IN  Handle(addresses, <<Plain("ADDI", r[2], r[1], 0, offset)>>)
         \/ /\ ~constant /\ size <= 1
            /\ LET r == Registers(one) IN  Handle(one, <<Plain("ADD", r[2], r[1], r[3], 0)>>)
         \/ /\ ~constant /\ size > 1
            /\ LET r == Registers(scaled)
               IN  Handle(scaled, <<Plain("MUL", r[4], r[3], r[5], 0),
                                    Plain("ADD", r[2], r[1], r[4], 0)>>)

\* Every cast is a move.
SelectCast ==
  /\ Selecting({"cast"})
  /\ LET asks == <<Get(Here.ops[1]), Get(Self)>>
         r == Registers(asks)
     IN  Handle(asks, <<Plain("ADDI", r[2], r[1], 0, 0)>>)

\* A local variable gets a register for its address, and no address.
SelectAlloca == Selecting({"alloca"}) /\ Handle(<<Get(Self)>>, <<>>)

-----------------------------------------------------------------------------
(* Calls of the runtime and inline assembly.                               *)

\* A dimension that is not constant counts as 0.
Dimension == IF Here.ops # <<>> /\ IsConst(Here.ops[1]) THEN Here.ops[1][2] ELSE 0

RegisterReads == DOMAIN RegisterCalls \cup {"get_local_id", "get_group_id"}
Barriers      == {"sync", "syncthreads", "barrier"}
Exits         == {"exit", "gpu_exit"}

SystemRegister ==
  CASE Here.form = "s2r"          -> Here.attr[1]
    [] Here.form = "get_local_id" -> LocalIdRegister(Dimension)
    [] Here.form = "get_group_id" -> GroupIdRegister(Dimension)
    [] OTHER                      -> RegisterCalls[Here.form]

SelectRegisterRead ==
  /\ Selecting({"asm", "call"})
  /\ Here.form \in RegisterReads \cup {"s2r"}
  /\ Handle(<<Get(Self)>>, <<Plain("S2R", Register(<<Get(Self)>>, 1), 0, 0, SystemRegister)>>)

\* Two lanes per block along X, one along Y.
SelectGlobalId ==
  /\ Selecting({"call"})
  /\ Here.form = "get_global_id"
  /\ LET asks == <<Fresh, Fresh, Fresh, Get(Self)>>
         r == Registers(asks)
     IN  Handle(asks,
           <<Plain("S2R", r[1], 0, 0, LocalIdRegister(Dimension)),
             Plain("S2R", r[2], 0, 0, GroupIdRegister(Dimension))>>
           \o IF Dimension = 0
              THEN <<Plain("ADD", r[3], r[2], r[2], 0), Plain("ADD", r[4], r[3], r[1], 0)>>
              ELSE <<Plain("ADD", r[4], r[2], r[1], 0)>>)

SelectBarrier ==
  /\ Selecting({"asm", "call"})
  /\ Here.form \in Barriers
  /\ Handle(<<>>, <<Plain("SYNC", 0, 0, 0, 0)>>)

\* The label of an SSY is CodeRoutes' subject.
SelectSsy ==
  /\ Selecting({"asm"})
  /\ Here.form = "ssy"
  /\ Handle(<<>>, <<Plain("SSY", 0, 0, 0, 0)>>)

\* selectReturn too.
SelectExit ==
  /\ Selecting({"asm", "call", "ret"})
  /\ Here.op = "ret" \/ Here.form \in Exits
  /\ Handle(<<>>, <<Plain("EXIT", 0, 0, 0, 0)>>)

\* An instruction no case of selectInstruction or selectCall catches.
IsDropped(ins) ==
  \/ ins.op \in {"phi", "select", "switch", "unreachable"}
  \/ ins.op \in {"asm", "call"} /\ ins.form = "unknown"

Drop == Loaded /\ ~Finished /\ IsDropped(Here) /\ Handle(<<>>, <<>>)

Next ==
  \/ LoadArgument
  \/ SelectBinaryOp \/ SelectCmp \/ SelectBranch
  \/ SelectLoad \/ SelectStore \/ SelectGEP \/ SelectCast \/ SelectAlloca
  \/ SelectRegisterRead \/ SelectGlobalId \/ SelectBarrier \/ SelectSsy \/ SelectExit
  \/ Drop

Spec == Init /\ [][Next]_selectorVars

-----------------------------------------------------------------------------
\* As long as the numbers fit the fields of an instruction, no two values have
\* the same register, and none has R0.
ValuesKeepApart ==
  nextVReg <= FieldSize =>
    /\ \A v \in DOMAIN valueToVReg : Field(valueToVReg[v]) # VREG_ZERO
    /\ \A v, w \in DOMAIN valueToVReg :
         Field(valueToVReg[v]) = Field(valueToVReg[w]) => v = w

=============================================================================
