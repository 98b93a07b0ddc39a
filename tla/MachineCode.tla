---------------------------- MODULE MachineCode ----------------------------
(***************************************************************************)
(* The instruction set, as the four places of the tool chain know it that  *)
(* have to agree on it:                                                    *)
(*   Encode          MachineInstruction::encode   (include/FpgaGpu.h)      *)
(*   Printed         CodeEmitter::emitAssembly    (src/FpgaGpuEmitter.cpp) *)
(*   Parsed          Assembler::parseLine         (src/FpgaGpuAssembler.cpp)*)
(*   Disassembled    Assembler::disassemble       (src/FpgaGpuAssembler.cpp)*)
(*                                                                         *)
(* A 32-bit word is an opcode and the 24 bits below it; an opcode byte is  *)
(* written as its mnemonic.  A line of assembly text is its mnemonic, its  *)
(* registers in the order of the text, its number, the letters of its      *)
(* condition and the name it jumps to; the name of a system register       *)
(* stands for its number.                                                  *)
(***************************************************************************)
EXTENDS Integers, Sequences

ThreeRegister == {"ADD", "SUB", "MUL"}
Jumps == {"BR", "SSY"}
Bare == {"SYNC", "EXIT"}
Opcodes == ThreeRegister \cup Jumps \cup Bare \cup {"CMP", "ADDI", "LDR", "STR", "S2R"}

NoLabel == "none"

ALWAYS == 7
SysRegs == 0..3

MachineInstruction(op, rd, rs1, rs2, imm, cond, labelTarget) ==
  [op |-> op, rd |-> rd, rs1 |-> rs1, rs2 |-> rs2, imm |-> imm, cond |-> cond,
   labelTarget |-> labelTarget]

-----------------------------------------------------------------------------
(* Words.                                                                  *)

RdUnit  == 2^19    \* the condition of a BR starts at the same bit
Rs1Unit == 2^14
Rs2Unit == 2^9

Word(op, body) == [op |-> op, body |-> body]

\* A field of the word that is not cut to its width.
MaskedFaulty(n, bits) == n

\* The lowest bits of a number, which may be negative.
Masked(n, bits) == n % 2^bits

Encode(mi) ==
  LET rd  == Masked(mi.rd, 5) * RdUnit
      rs1 == Masked(mi.rs1, 5) * Rs1Unit
      rs2 == Masked(mi.rs2, 5) * Rs2Unit
  IN  Word(mi.op,
        CASE mi.op \in ThreeRegister  -> rd + rs1 + rs2
          [] mi.op \in {"CMP", "STR"} -> rs1 + rs2
          [] mi.op = "ADDI"           -> rd + rs1 + Masked(mi.imm, 14)
          [] mi.op = "LDR"            -> rd + rs1
          [] mi.op = "S2R"            -> rd + Masked(mi.imm, 14)
          [] mi.op = "BR"             -> Masked(mi.cond, 3) * RdUnit + Masked(mi.imm, 19)
          [] mi.op = "SSY"            -> Masked(mi.imm, 19)
          [] mi.op \in Bare           -> 0)

SignExtended(n, bits) == IF n < 2^(bits - 1) THEN n ELSE n - 2^bits

-----------------------------------------------------------------------------
(* Text.                                                                   *)

Line(mnemonic, regs, number, letters, name) ==
  [mnemonic |-> mnemonic, regs |-> regs, number |-> number, letters |-> letters,
   name |-> name]

\* condToString: masks by name, anything else as NZP.
LettersOf(mask) ==
  {c \in {"N", "Z", "P"} : \/ mask \notin 1..7
                           \/ c = "N" /\ mask \div 4 = 1
                           \/ c = "Z" /\ (mask \div 2) % 2 = 1
                           \/ c = "P" /\ mask % 2 = 1}

\* Looking for the whole token NZ instead of its letters.
ParsedConditionFaulty(letters) ==
  IF "N" \in letters THEN 4 ELSE IF "Z" \in letters THEN 2 ELSE 1

\* parseCondition looks for the three letters anywhere in the token.
ParsedCondition(letters) ==
  (IF "N" \in letters THEN 4 ELSE 0) + (IF "Z" \in letters THEN 2 ELSE 0)
    + (IF "P" \in letters THEN 1 ELSE 0)

\* sysRegToString: a number that names no system register shows as TID_X.
SysRegShown(imm) == IF imm % 2^16 \in SysRegs THEN imm % 2^16 ELSE 0

Printed(mi) ==
  CASE mi.op \in ThreeRegister -> Line(mi.op, <<mi.rd, mi.rs1, mi.rs2>>, 0, {}, NoLabel)
    [] mi.op = "CMP"  -> Line(mi.op, <<mi.rs1, mi.rs2>>, 0, {}, NoLabel)
    [] mi.op = "ADDI" -> Line(mi.op, <<mi.rd, mi.rs1>>, mi.imm, {}, NoLabel)
    [] mi.op = "LDR"  -> Line(mi.op, <<mi.rd, mi.rs1>>, 0, {}, NoLabel)
    [] mi.op = "STR"  -> Line(mi.op, <<mi.rs2, mi.rs1>>, 0, {}, NoLabel)
    [] mi.op = "S2R"  -> Line(mi.op, <<mi.rd>>, SysRegShown(mi.imm), {}, NoLabel)
    [] mi.op = "BR"   -> Line(mi.op, <<>>, mi.imm, LettersOf(mi.cond), mi.labelTarget)
    [] mi.op = "SSY"  -> Line(mi.op, <<>>, mi.imm, {}, mi.labelTarget)
    [] mi.op \in Bare -> Line(mi.op, <<>>, 0, {}, NoLabel)

\* NEVER is spelled out; parseCondition would find an N in it.
DisassembledLetters(mask) == IF mask = 0 THEN {"N", "E", "V", "R"} ELSE LettersOf(mask)

Disassembled(word) ==
  LET rd    == word.body \div RdUnit
      rs1   == (word.body \div Rs1Unit) % 32
      rs2   == (word.body \div Rs2Unit) % 32
      imm14 == SignExtended(word.body % 2^14, 14)
      imm19 == SignExtended(word.body % 2^19, 19)
  IN  CASE word.op \in ThreeRegister -> Line(word.op, <<rd, rs1, rs2>>, 0, {}, NoLabel)
        [] word.op = "CMP"  -> Line(word.op, <<rs1, rs2>>, 0, {}, NoLabel)
        [] word.op = "ADDI" -> Line(word.op, <<rd, rs1>>, imm14, {}, NoLabel)
        [] word.op = "LDR"  -> Line(word.op, <<rd, rs1>>, 0, {}, NoLabel)
        [] word.op = "STR"  -> Line(word.op, <<rs2, rs1>>, 0, {}, NoLabel)
        [] word.op = "S2R"  -> Line(word.op, <<rd>>, imm14, {}, NoLabel)
        [] word.op = "BR"   -> Line(word.op, <<>>, imm19, DisassembledLetters(rd % 8), NoLabel)
        [] word.op = "SSY"  -> Line(word.op, <<>>, imm19, {}, NoLabel)
        [] word.op \in Bare -> Line(word.op, <<>>, 0, {}, NoLabel)

\* The instruction parseLine builds.  The lines the tools print have all
\* their tokens, with registers in range and names that stoi does not take
\* for numbers.
Parsed(l) ==
  LET r == l.regs
      Plain(rd, rs1, rs2, imm) ==
        MachineInstruction(l.mnemonic, rd, rs1, rs2, imm, ALWAYS, NoLabel)
      Offset == IF l.name = NoLabel THEN l.number ELSE 0
  IN  CASE l.mnemonic \in ThreeRegister -> Plain(r[1], r[2], r[3], 0)
        [] l.mnemonic = "CMP"  -> Plain(0, r[1], r[2], 0)
        [] l.mnemonic = "ADDI" -> Plain(r[1], r[2], 0, l.number % 2^14)
        [] l.mnemonic = "LDR"  -> Plain(r[1], r[2], 0, 0)
        [] l.mnemonic = "STR"  -> Plain(0, r[2], r[1], 0)
        [] l.mnemonic = "S2R"  -> Plain(r[1], 0, 0, l.number % 2^14)
        [] l.mnemonic = "BR"   -> MachineInstruction("BR", 0, 0, 0, Offset,
                                                     ParsedCondition(l.letters), l.name)
        [] l.mnemonic = "SSY"  -> MachineInstruction("SSY", 0, 0, 0, Offset, ALWAYS, l.name)
        [] l.mnemonic \in Bare -> Plain(0, 0, 0, 0)

=============================================================================
