----------------------------- MODULE CodeRoutes -----------------------------
(***************************************************************************)
(* From the blocks of a module to machine words, by the routes a user has: *)
(*   fpgagpu-llc -x   CodeEmitter::emitHex, the words straight from the    *)
(*                    blocks (emitBinary writes the same words as bytes);  *)
(*   fpgagpu-llc -S   CodeEmitter::emitAssembly, then                      *)
(*   fpgagpu-llc -a   Assembler::assemble on that text;                    *)
(*   fpgagpu-llc -d   Assembler::disassemble of the words, and -a again.   *)
(*                                                                         *)
(* A module is a sequence of functions, a function a sequence of blocks    *)
(* [name, code].  Names are unique in a function, as LLVM makes them.  The *)
(* registers are physical.                                                 *)
(***************************************************************************)
EXTENDS MachineCode, SequencesExt

CONSTANTS
  Kernels,     \* the modules that may be compiled
  LowerCase,   \* the names of blocks, each with the name tolower makes of it
  SpellSync,   \* the names that have "sync" in them, in any case
  SpellS2r     \* the names that have "s2r" in them, in any case, each with the
               \* register of which "tid.x" .. "bid.y" is in it too, or else 0

Names == DOMAIN LowerCase

\* What selection and allocation make: jumps and nothing else are labelled.
Instructions ==
  {mi \in [op : Opcodes, rd : 0..31, rs1 : 0..31, rs2 : 0..31, imm : Int, cond : 1..7,
           labelTarget : Names \cup {NoLabel}] :
     /\ mi.op = "S2R" => mi.imm \in SysRegs
     /\ mi.op \in Jumps <=> mi.labelTarget # NoLabel}

BlockCode == [name : Names, code : Seq(Instructions)]

\* Jumps are to blocks of their own function.
IsFunction(f) ==
  /\ f \in Seq(BlockCode)
  /\ \A a, b \in DOMAIN f : f[a].name = f[b].name => a = b
  /\ \A b \in DOMAIN f : \A i \in DOMAIN f[b].code :
       f[b].code[i].op \in Jumps =>
         \E t \in DOMAIN f : f[t].name = f[b].code[i].labelTarget

ASSUME NamesAssumption ==
  /\ NoLabel \notin Names
  /\ LowerCase \in [Names -> Names]
  /\ DOMAIN SpellS2r \subseteq Names /\ SpellS2r \in [DOMAIN SpellS2r -> SysRegs]

ASSUME KernelsAssumption ==
  \A k \in Kernels : k \in Seq(Seq(BlockCode)) /\ \A f \in DOMAIN k : IsFunction(k[f])

VARIABLES
  kernel,        \* the module
  stage,         \* what is done next
  selected,      \* how many functions have been selected
  basicBlocks,   \* their blocks in one sequence
  blockToPC,     \* the emitter's first pass: name -> address
  pc,            \* ... and the address of the next block
  recorded,      \* how many blocks that pass has seen
  emitted,       \* how many blocks have been written
  hex,           \* the words of the direct route
  listing,       \* the lines of emitAssembly
  source,        \* the lines the assembler is given
  lineNum,       \* how many of them it has parsed
  labels,        \* the assembler's first pass: name -> address
  instructions,  \* ... and the instructions it built
  machineCode    \* the words of the route through the text

layoutVars == <<blockToPC, pc, recorded>>
emitVars == <<emitted, hex, listing>>
asmVars == <<source, lineNum, labels, instructions, machineCode>>

vars == <<kernel, stage, selected, basicBlocks, layoutVars, emitVars, asmVars>>

NoMap == [n \in {} |-> 0]

\* map[name] = address
With(map, name, address) ==
  [n \in DOMAIN map \cup {name} |-> IF n = name THEN address ELSE map[n]]

Init ==
  /\ kernel \in Kernels
  /\ stage = "select"
  /\ selected = 0
  /\ basicBlocks = <<>>
  /\ blockToPC = NoMap /\ pc = 0 /\ recorded = 0
  /\ emitted = 0
  /\ hex = <<>>
  /\ listing = <<>>
  /\ source = <<>>
  /\ lineNum = 0
  /\ labels = NoMap
  /\ instructions = <<>>
  /\ machineCode = <<>>

-----------------------------------------------------------------------------
(* Selection.  The divergence pass hands SSY and SYNC over as inline        *)
(* assembly: its text, the name of a block included, is lowered and looked  *)
(* at for "s2r", then for "sync", then for "ssy".                           *)

\* An SSY has no use for rd; it is here the register that the call, if it is
\* taken for an S2R, is given.
Selected(mi) ==
  CASE mi.op # "SSY" -> mi
    [] mi.op = "SSY" /\ mi.labelTarget \in DOMAIN SpellS2r ->
         MachineInstruction("S2R", mi.rd, 0, 0, SpellS2r[mi.labelTarget], ALWAYS, NoLabel)
    [] mi.op = "SSY" /\ mi.labelTarget \in SpellSync \ DOMAIN SpellS2r ->
         MachineInstruction("SYNC", 0, 0, 0, 0, ALWAYS, NoLabel)
    [] OTHER -> MachineInstruction("SSY", 0, 0, 0, 0, ALWAYS, LowerCase[mi.labelTarget])

SelectedBlock(block) ==
  [name |-> block.name, code |-> [i \in DOMAIN block.code |-> Selected(block.code[i])]]

\* compileModule puts the blocks of the functions behind each other.
SelectFunction ==
  /\ stage = "select"
  /\ selected < Len(kernel)
  /\ LET f == kernel[selected + 1]
     IN  basicBlocks' = basicBlocks \o [b \in DOMAIN f |-> SelectedBlock(f[b])]
  /\ selected' = selected + 1
  /\ UNCHANGED <<kernel, stage, layoutVars, emitVars, asmVars>>

\* It gives up when there is nothing to emit.
StartEmitter ==
  /\ stage = "select"
  /\ selected = Len(kernel) /\ basicBlocks # <<>>
  /\ stage' = "layout"
  /\ UNCHANGED <<kernel, selected, basicBlocks, layoutVars, emitVars, asmVars>>

-----------------------------------------------------------------------------
(* CodeEmitter.                                                            *)

\* The address taken after the block instead of before it.
RecordBlockFaulty ==
  /\ stage = "layout"
  /\ recorded < Len(basicBlocks)
  /\ LET block == basicBlocks[recorded + 1]
     IN  /\ blockToPC' = With(blockToPC, block.name, pc + Len(block.code))
         /\ pc' = pc + Len(block.code)
  /\ recorded' = recorded + 1
  /\ UNCHANGED <<kernel, stage, selected, basicBlocks, emitVars, asmVars>>

\* First pass of resolveBranchOffsets.
RecordBlock ==
  /\ stage = "layout"
  /\ recorded < Len(basicBlocks)
  /\ LET block == basicBlocks[recorded + 1]
     IN  /\ blockToPC' = With(blockToPC, block.name, pc)
         /\ pc' = pc + Len(block.code)
  /\ recorded' = recorded + 1
  /\ UNCHANGED <<kernel, stage, selected, basicBlocks, emitVars, asmVars>>

\* An instruction at an address with its label looked up, if the label is known.
Resolved(mi, map, address) ==
  IF mi.op \in Jumps /\ mi.labelTarget \in DOMAIN map
  THEN MachineInstruction(mi.op, mi.rd, mi.rs1, mi.rs2, map[mi.labelTarget] - address,
                          mi.cond, mi.labelTarget)
  ELSE mi

\* Second pass, and emitHex: a label that is not known leaves the immediate.
BlockWords(block) ==
  [i \in DOMAIN block.code |->
     Encode(Resolved(block.code[i], blockToPC, Len(hex) + i - 1))]

\* A line "name:".
LabelLine(name) == Line("label", <<>>, 0, {}, name)

\* emitAssembly writes a block as its label and its instructions.
BlockLines(block) ==
  <<LabelLine(block.name)>> \o [i \in DOMAIN block.code |-> Printed(block.code[i])]

\* The two formats side by side.
EmitBlock ==
  /\ stage = "layout"
  /\ recorded = Len(basicBlocks)
  /\ emitted < Len(basicBlocks) /\ emitted' = emitted + 1
  /\ hex' = hex \o BlockWords(basicBlocks[emitted + 1])
  /\ listing' = listing \o BlockLines(basicBlocks[emitted + 1])
  /\ UNCHANGED <<kernel, stage, selected, basicBlocks, layoutVars, asmVars>>

Emitted == stage = "layout" /\ recorded = Len(basicBlocks) /\ emitted = Len(basicBlocks)

Give(text) ==
  /\ Emitted
  /\ source' = text
  /\ stage' = "parse"
  /\ UNCHANGED <<kernel, selected, basicBlocks, layoutVars, emitVars, lineNum, labels,
                 instructions, machineCode>>

\* -S, the text then given to -a.
AssembleListing == Give(listing)

\* -d of the words, the text then given to -a.
AssembleDisassembly == Give([i \in DOMAIN hex |-> Disassembled(hex[i])])

-----------------------------------------------------------------------------
(* Assembler::assemble.                                                    *)

compilerVars == <<kernel, selected, basicBlocks, layoutVars, emitVars>>

NextLine == source[lineNum + 1]

\* A label that only counts once an instruction has been seen.
ParseLabelFaulty ==
  /\ stage = "parse"
  /\ lineNum < Len(source)
  /\ NextLine.mnemonic = "label"
  /\ labels' = IF instructions = <<>> THEN labels
               ELSE With(labels, NextLine.name, Len(instructions))
  /\ lineNum' = lineNum + 1
  /\ UNCHANGED <<compilerVars, stage, source, instructions, machineCode>>

\* Pass 1, a line with a label.
ParseLabel ==
  /\ stage = "parse"
  /\ lineNum < Len(source)
  /\ NextLine.mnemonic = "label"
  /\ labels' = With(labels, NextLine.name, Len(instructions))
  /\ lineNum' = lineNum + 1
  /\ UNCHANGED <<compilerVars, stage, source, instructions, machineCode>>

\* Pass 1, a line with an instruction.
ParseInstruction ==
  /\ stage = "parse"
  /\ lineNum < Len(source)
  /\ NextLine.mnemonic \in Opcodes
  /\ instructions' = Append(instructions, Parsed(NextLine))
  /\ lineNum' = lineNum + 1
  /\ UNCHANGED <<compilerVars, stage, source, labels, machineCode>>

\* Pass 2, at the address of the next word to be appended.
Undefined(mi) ==
  mi.op \in Jumps /\ mi.labelTarget # NoLabel /\ mi.labelTarget \notin DOMAIN labels

Linking ==
  /\ stage = "parse"
  /\ lineNum = Len(source)
  /\ Len(machineCode) < Len(instructions)

NextInstruction == instructions[Len(machineCode) + 1]

LinkInstruction ==
  /\ Linking
  /\ ~Undefined(NextInstruction)
  /\ machineCode' =
       Append(machineCode, Encode(Resolved(NextInstruction, labels, Len(machineCode))))
  /\ UNCHANGED <<compilerVars, stage, source, lineNum, labels, instructions>>

\* assemble returns false: the user gets no words.
RejectLabel ==
  /\ Linking
  /\ Undefined(NextInstruction)
  /\ stage' = "rejected"
  /\ UNCHANGED <<compilerVars, source, lineNum, labels, instructions, machineCode>>

Assembled ==
  /\ stage = "parse"
  /\ lineNum = Len(source)
  /\ Len(machineCode) = Len(instructions)
  /\ stage' = "assembled"
  /\ UNCHANGED <<compilerVars, source, lineNum, labels, instructions, machineCode>>

Next ==
  \/ SelectFunction \/ StartEmitter
  \/ RecordBlock \/ EmitBlock \/ AssembleListing \/ AssembleDisassembly
  \/ ParseLabel \/ ParseInstruction
  \/ LinkInstruction \/ RejectLabel \/ Assembled

Spec == Init /\ [][Next]_vars

-----------------------------------------------------------------------------
(* Correctness.                                                            *)

Words == [op : Opcodes, body : 0 .. 2^24 - 1]

TypeOK ==
  /\ stage \in {"select", "layout", "parse", "assembled", "rejected"}
  /\ selected \in 0..Len(kernel)
  /\ basicBlocks \in Seq(BlockCode)
  /\ recorded \in 0..Len(basicBlocks) /\ emitted \in 0..recorded
  /\ pc \in Nat
  /\ DOMAIN blockToPC = {basicBlocks[b].name : b \in 1..recorded}
  /\ \A n \in DOMAIN blockToPC : blockToPC[n] \in 0..pc
  /\ DOMAIN labels \subseteq Names
  /\ \A n \in DOMAIN labels : labels[n] \in 0..Len(instructions)
  /\ hex \in Seq(Words) /\ machineCode \in Seq(Words)
  /\ Len(hex) <= pc /\ Len(machineCode) <= Len(instructions)

\* Whichever way the assembler got its text, from the compiler or from the
\* disassembler, it either stops or builds the words the compiler writes.
RoutesAgree == stage = "assembled" => machineCode = hex

\* The address of block b of function f of the source module: the instructions
\* of the blocks before it, each as its block and its number in the block.
BlocksBefore(f, b) ==
  UNION {{<<g, c>> : c \in {x \in DOMAIN kernel[g] : g < f \/ x < b}} : g \in 1..f}

InstructionsBefore(f, b) ==
  UNION {{p} \X DOMAIN kernel[p[1]][p[2]].code : p \in BlocksBefore(f, b)}

Address(f, b) == Cardinality(InstructionsBefore(f, b))

\* The word leads from its own address to the first instruction of the block
\* the instruction names in its own function.
Reaches(word, address, mi, f) ==
  /\ word.op = mi.op
  /\ \E t \in DOMAIN kernel[f] :
       /\ kernel[f][t].name = mi.labelTarget
       /\ address + SignExtended(word.body % 2^19, 19) = Address(f, t)

\* Every branch and every SSY of the words leads where the module says.
JumpsReachTheirBlocks ==
  Emitted =>
    \A f \in DOMAIN kernel : \A b \in DOMAIN kernel[f] :
      \A i \in DOMAIN kernel[f][b].code :
        LET mi == kernel[f][b].code[i]
            address == Address(f, b) + i - 1
        IN  mi.op \in Jumps => Reaches(hex[address + 1], address, mi, f)

\* A name that selection takes from the text of an SSY as it is.
IsPlain(name) ==
  LowerCase[name] = name /\ name \notin SpellSync \cup DOMAIN SpellS2r

\* Names that the tool chain keeps apart, and does not change where it must not.
PlainNames ==
  /\ \A f, g \in DOMAIN kernel : \A b \in DOMAIN kernel[f], c \in DOMAIN kernel[g] :
       kernel[f][b].name = kernel[g][c].name => f = g
  /\ \A f \in DOMAIN kernel : \A b \in DOMAIN kernel[f] :
       \A i \in DOMAIN kernel[f][b].code :
         kernel[f][b].code[i].op = "SSY" => IsPlain(kernel[f][b].code[i].labelTarget)

\* With such names the jumps are right, up to the size (far above IRAM_DEPTH)
\* at which a jump may be too far for its 19 bits ...
PlainNamesReach == ~JumpsReachTheirBlocks => ~PlainNames \/ Len(hex) >= 2^18

\* ... and the assembler accepts what the compiler and the disassembler write.
PlainNamesAssemble == stage = "rejected" => ~PlainNames

=============================================================================
