------------------------- MODULE MachineCodeProofs -------------------------
(***************************************************************************)
(* The four views of the instruction set agree, for every instruction:     *)
(* what encode makes of an instruction and what it makes of the            *)
(* instruction the assembler reads back, from the listing of the compiler  *)
(* (JumpRoundTrip, PlainRoundTrip) or from the text of the disassembler    *)
(* (DisassemblyRoundTrip), is the same word.                               *)
(*                                                                         *)
(* The argument: encode is a sum of fields (EncodeIs), each below the unit *)
(* of the field above it, so that division and remainder give the fields   *)
(* back (Fields, LowField, SecondField, JumpFields), and two instructions  *)
(* with the same opcode and fields are the same word (SameWord).           *)
(***************************************************************************)
EXTENDS MachineCode, TLAPS

\* A number q*d + r with r below d splits into q and r again.
LEMMA Division ==
  ASSUME NEW d \in Nat \ {0}, NEW q \in Int, NEW r \in 0..(d - 1)
  PROVE  (q * d + r) \div d = q /\ (q * d + r) % d = r
BY SMT

\* A remainder is below its divisor; a number that is below it stays as it is,
\* also after the divisor has been taken away.
LEMMA Remainder ==
  ASSUME NEW d \in Nat \ {0}, NEW n \in Int
  PROVE  /\ n % d \in 0..(d - 1)
         /\ n \in 0..(d - 1) => n % d = n /\ (n - d) % d = n
BY SMT

\* The widths of the fields, in units the provers can count with.
LEMMA PowersOfTwo ==
  /\ \A k \in {3, 5, 9, 13, 14, 18, 19, 24} : 2^k \in Nat \ {0}
  /\ 2^3 = 8 /\ 2^5 = 32 /\ 2^9 = 512
  /\ 2^14 = 32 * 2^9 /\ 2^19 = 32 * 2^14 /\ 2^24 = 32 * 2^19
  /\ 2^(14 - 1) < 2^14 /\ 2^(19 - 1) < 2^19
BY SMT

\* Sign extension loses nothing: the lowest bits are the field again.
LEMMA SignIsKept ==
  ASSUME NEW k \in {14, 19}, NEW n \in 0..(2^k - 1)
  PROVE  /\ SignExtended(n, k) \in Int
         /\ SignExtended(n, k) % 2^k = n
<1> DEFINE d == 2^k
<1>1. SignExtended(n, k) \in {n, n - d}
  BY DEF SignExtended
<1>2. d \in Nat \ {0} /\ n \in 0..(d - 1)
  BY PowersOfTwo
<1> HIDE DEF d
<1>3. n % d = n /\ (n - d) % d = n
  BY <1>2, Remainder
<1> QED
  BY <1>1, <1>2, <1>3 DEF d

\* Two registers and the fourteen bits below them come out of the body as they
\* went in, and fit into its 24 bits ...
LEMMA Fields ==
  ASSUME NEW a \in 0..31, NEW b \in 0..31, NEW r \in 0..(2^14 - 1)
  PROVE  /\ (a * 2^19 + b * 2^14 + r) \div 2^19 = a
         /\ ((a * 2^19 + b * 2^14 + r) \div 2^14) % 32 = b
         /\ a * 2^19 + b * 2^14 + r \in 0..(2^24 - 1)
<1> DEFINE u == 2^14
<1>1. u \in Nat \ {0} /\ 2^19 = 32 * u /\ 2^24 = 1024 * u
  BY PowersOfTwo
<1>2. r \in 0..(u - 1)
  OBVIOUS
<1> HIDE DEF u
<1>3. b * u + r \in 0..(32 * u - 1)
  BY <1>1, <1>2
<1>4. (a * (32 * u) + (b * u + r)) \div (32 * u) = a
  BY <1>1, <1>3, Division
<1>5. ((32 * a + b) * u + r) \div u = 32 * a + b
  BY <1>1, <1>2, Division
<1>6. (32 * a + b) % 32 = b
  BY SMT
<1>7. /\ a * (32 * u) + b * u + r = a * (32 * u) + (b * u + r)
      /\ a * (32 * u) + b * u + r = (32 * a + b) * u + r
  BY <1>1, <1>2
<1>8. a * (32 * u) + b * u + r \in 0..(1024 * u - 1)
  BY <1>1, <1>2
<1>9. QED
  BY <1>1, <1>4, <1>5, <1>6, <1>7, <1>8 DEF u

\* ... and so do the fourteen bits.
LEMMA LowField ==
  ASSUME NEW a \in 0..31, NEW b \in 0..31, NEW r \in 0..(2^14 - 1)
  PROVE  (a * 2^19 + b * 2^14 + r) % 2^14 = r
<1> DEFINE u == 2^14  n == a * 2^19 + b * 2^14 + r
<1>1. u \in Nat \ {0} /\ 2^19 = 32 * u
  BY PowersOfTwo
<1>2. r \in 0..(u - 1)
  OBVIOUS
<1> HIDE DEF u
<1>3. ((32 * a + b) * u + r) % u = r
  BY <1>1, <1>2, Division
<1>4. a * (32 * u) + b * u + r = (32 * a + b) * u + r
  BY <1>1, <1>2
<1>5. n = (32 * a + b) * u + r
  BY <1>1, <1>4, Zenon DEF u
<1> HIDE DEF n
<1>6. n % u = r
  BY <1>3, <1>5, Zenon
<1> QED
  BY <1>6, Zenon DEF u, n

\* The second source register is the upper part of those fourteen bits.
LEMMA SecondField ==
  ASSUME NEW a \in 0..31, NEW b \in 0..31, NEW c \in 0..31
  PROVE  /\ ((a * 2^19 + b * 2^14 + c * 2^9) \div 2^9) % 32 = c
         /\ c * 2^9 \in 0..(2^14 - 1)
<1> DEFINE u == 2^9
<1>1. u \in Nat \ {0} /\ 2^19 = 1024 * u /\ 2^14 = 32 * u
  BY PowersOfTwo
<1> HIDE DEF u
<1>2. a * (1024 * u) + b * (32 * u) + c * u = (32 * (32 * a + b) + c) * u + 0
  BY <1>1
<1>3. ((32 * (32 * a + b) + c) * u + 0) \div u = 32 * (32 * a + b) + c
  BY <1>1, Division
<1>4. (32 * (32 * a + b) + c) % 32 = c
  BY SMT
<1>5. c * u \in 0..(32 * u - 1)
  BY <1>1
<1> QED
  BY <1>1, <1>2, <1>3, <1>4, <1>5 DEF u

\* A condition and an offset of nineteen bits come out of the body as they went in.
LEMMA JumpFields ==
  ASSUME NEW a \in 0..7, NEW r \in 0..(2^19 - 1)
  PROVE  /\ ((a * 2^19 + r) \div 2^19) % 8 = a
         /\ (a * 2^19 + r) % 2^19 = r
         /\ a * 2^19 + r \in 0..(2^24 - 1)
<1> DEFINE u == 2^19
<1>1. u \in Nat \ {0} /\ 2^24 = 32 * u
  BY PowersOfTwo
<1>2. r \in 0..(u - 1)
  OBVIOUS
<1> HIDE DEF u
<1>3. (a * u + r) \div u = a /\ (a * u + r) % u = r
  BY <1>1, <1>2, Division
<1>4. a % 8 = a
  BY SMT
<1>5. a * u + r \in 0..(32 * u - 1)
  BY <1>1, <1>2
<1> QED
  BY <1>1, <1>3, <1>4, <1>5 DEF u

\* Each of the seven conditions survives its letters, in both formats.
LEMMA Conditions ==
  ASSUME NEW c \in 1..7
  PROVE  /\ ParsedCondition(LettersOf(c)) = c
         /\ ParsedCondition(DisassembledLetters(c)) = c
<1>1. c = 1 \/ c = 2 \/ c = 3 \/ c = 4 \/ c = 5 \/ c = 6 \/ c = 7
  BY SMT
<1>2. /\ "N" \in LettersOf(c) <=> c \div 4 = 1
      /\ "Z" \in LettersOf(c) <=> (c \div 2) % 2 = 1
      /\ "P" \in LettersOf(c) <=> c % 2 = 1
  BY SMT DEF LettersOf
<1>3. DisassembledLetters(c) = LettersOf(c)
  BY SMT DEF DisassembledLetters
<1> QED
  BY <1>1, <1>2, <1>3, SMT DEF ParsedCondition

\* Register numbers and conditions are not changed by their masks.
LEMMA SmallMasks ==
  /\ \A n \in 0..31 : Masked(n, 5) = n
  /\ \A n \in 1..7 : Masked(n, 3) = n
BY SMT DEF Masked

\* Immediates are cut to the width of their field.
LEMMA ImmediateMasks ==
  ASSUME NEW n \in Int
  PROVE  /\ Masked(n, 14) = n % 2^14 /\ n % 2^14 \in 0..(2^14 - 1)
         /\ Masked(n, 19) = n % 2^19 /\ n % 2^19 \in 0..(2^19 - 1)
<1>1. \A k \in {14, 19} : Masked(n, k) = n % 2^k
  BY DEF Masked
<1>2. \A d \in Nat \ {0} : n % d \in 0..(d - 1)
  BY Remainder
<1>3. 2^14 \in Nat \ {0} /\ 2^19 \in Nat \ {0}
  BY PowersOfTwo
<1>4. n % 2^14 \in 0..(2^14 - 1)
  BY <1>2, <1>3
<1>5. n % 2^19 \in 0..(2^19 - 1)
  BY <1>2, <1>3
<1> QED
  BY <1>1, <1>4, <1>5

Encodable(mi) ==
  /\ mi.op \in Opcodes
  /\ mi.rd \in 0..31 /\ mi.rs1 \in 0..31 /\ mi.rs2 \in 0..31
  /\ mi.imm \in Int /\ mi.cond \in 1..7

\* What an instruction puts into the upper five, the next five and the lower
\* fourteen bits of the body ...
High(mi)   == IF mi.op \in ThreeRegister \cup {"ADDI", "LDR", "S2R"} THEN mi.rd ELSE 0
Middle(mi) == IF mi.op \in ThreeRegister \cup {"CMP", "STR", "ADDI", "LDR"} THEN mi.rs1 ELSE 0
Low(mi)    == IF mi.op \in ThreeRegister \cup {"CMP", "STR"} THEN mi.rs2 * 2^9
              ELSE IF mi.op \in {"ADDI", "S2R"} THEN mi.imm % 2^14 ELSE 0

\* ... and a jump before the nineteen bits of its offset.
Condition(mi) == IF mi.op = "BR" THEN mi.cond ELSE 0

Body(mi) == IF mi.op \in Jumps THEN Condition(mi) * 2^19 + (mi.imm % 2^19)
            ELSE High(mi) * 2^19 + Middle(mi) * 2^14 + Low(mi)

\* Every field of an encodable instruction is in the range of its bits.
LEMMA FieldRanges ==
  ASSUME NEW mi, Encodable(mi)
  PROVE  /\ High(mi) \in 0..31 /\ Middle(mi) \in 0..31 /\ Low(mi) \in 0..(2^14 - 1)
         /\ Condition(mi) \in 0..7 /\ mi.imm % 2^19 \in 0..(2^19 - 1)
<1>1. mi.imm % 2^14 \in 0..(2^14 - 1) /\ mi.imm % 2^19 \in 0..(2^19 - 1)
  BY ImmediateMasks DEF Encodable
<1>2. mi.rs2 * 2^9 \in 0..(2^14 - 1) /\ 0 \in 0..(2^14 - 1)
  BY SecondField DEF Encodable
<1>3. High(mi) \in 0..31 /\ Middle(mi) \in 0..31 /\ Condition(mi) \in 0..7
  BY DEF High, Middle, Condition, Encodable
<1> QED
  BY <1>1, <1>2, <1>3, Zenon DEF Low

\* encode puts each field of the instruction where its format has it.
LEMMA EncodeIs ==
  ASSUME NEW mi, Encodable(mi)
  PROVE  Encode(mi) = Word(mi.op, Body(mi))
<1> DEFINE d19 == 2^19  d14 == 2^14  d9 == 2^9  i14 == mi.imm % 2^14  i19 == mi.imm % 2^19
<1>1. /\ Masked(mi.rd, 5) = mi.rd /\ Masked(mi.rs1, 5) = mi.rs1 /\ Masked(mi.rs2, 5) = mi.rs2
      /\ Masked(mi.cond, 3) = mi.cond
  BY SmallMasks DEF Encodable
<1>2. /\ Masked(mi.imm, 14) = i14 /\ Masked(mi.imm, 19) = i19
      /\ i14 \in Int /\ i19 \in Int
  BY ImmediateMasks DEF Encodable
<1>3. d19 \in Int /\ d14 \in Int /\ d9 \in Int
  BY PowersOfTwo
<1>4. RdUnit = d19 /\ Rs1Unit = d14 /\ Rs2Unit = d9
  BY DEF RdUnit, Rs1Unit, Rs2Unit
<1>5. Body(mi) = IF mi.op \in Jumps THEN Condition(mi) * d19 + i19
                 ELSE High(mi) * d19 + Middle(mi) * d14 +
                   (IF mi.op \in ThreeRegister \cup {"CMP", "STR"} THEN mi.rs2 * d9
                    ELSE IF mi.op \in {"ADDI", "S2R"} THEN i14 ELSE 0)
  BY Zenon DEF Body, Low
<1>6. Encode(mi) = Word(mi.op,
        CASE mi.op \in ThreeRegister  -> mi.rd * d19 + mi.rs1 * d14 + mi.rs2 * d9
          [] mi.op \in {"CMP", "STR"} -> mi.rs1 * d14 + mi.rs2 * d9
          [] mi.op = "ADDI"           -> mi.rd * d19 + mi.rs1 * d14 + i14
          [] mi.op = "LDR"            -> mi.rd * d19 + mi.rs1 * d14
          [] mi.op = "S2R"            -> mi.rd * d19 + i14
          [] mi.op = "BR"             -> mi.cond * d19 + i19
          [] mi.op = "SSY"            -> i19
          [] mi.op \in Bare           -> 0)
  BY <1>1, <1>2, <1>4, Zenon DEF Encode
<1> HIDE DEF d19, d14, d9, i14, i19
<1>7. mi.rd \in Int /\ mi.rs1 \in Int /\ mi.rs2 \in Int /\ mi.cond \in Int
  BY DEF Encodable
<1>8. /\ 0 * d19 + mi.rs1 * d14 + mi.rs2 * d9 = mi.rs1 * d14 + mi.rs2 * d9
      /\ mi.rd * d19 + mi.rs1 * d14 + 0 = mi.rd * d19 + mi.rs1 * d14
      /\ mi.rd * d19 + 0 * d14 + i14 = mi.rd * d19 + i14
      /\ 0 * d19 + i19 = i19
      /\ 0 * d19 + 0 * d14 + 0 = 0
  BY <1>2, <1>3, <1>7
<1>9. CASE mi.op = "ADD"
  BY <1>5, <1>6, <1>8, <1>9 DEF High, Middle, Condition, ThreeRegister, Jumps, Bare
<1>10. CASE mi.op = "SUB"
  BY <1>5, <1>6, <1>8, <1>10 DEF High, Middle, Condition, ThreeRegister, Jumps, Bare
<1>11. CASE mi.op = "MUL"
  BY <1>5, <1>6, <1>8, <1>11 DEF High, Middle, Condition, ThreeRegister, Jumps, Bare
<1>12. CASE mi.op = "CMP"
  BY <1>5, <1>6, <1>8, <1>12 DEF High, Middle, Condition, ThreeRegister, Jumps, Bare
<1>13. CASE mi.op = "STR"
  BY <1>5, <1>6, <1>8, <1>13 DEF High, Middle, Condition, ThreeRegister, Jumps, Bare
<1>14. CASE mi.op = "ADDI"
  BY <1>5, <1>6, <1>8, <1>14 DEF High, Middle, Condition, ThreeRegister, Jumps, Bare
<1>15. CASE mi.op = "LDR"
  BY <1>5, <1>6, <1>8, <1>15 DEF High, Middle, Condition, ThreeRegister, Jumps, Bare
<1>16. CASE mi.op = "S2R"
  BY <1>5, <1>6, <1>8, <1>16 DEF High, Middle, Condition, ThreeRegister, Jumps, Bare
<1>17. CASE mi.op = "BR"
  BY <1>5, <1>6, <1>8, <1>17 DEF High, Middle, Condition, ThreeRegister, Jumps, Bare
<1>18. CASE mi.op = "SSY"
  BY <1>5, <1>6, <1>8, <1>18 DEF High, Middle, Condition, ThreeRegister, Jumps, Bare
<1>19. CASE mi.op = "SYNC"
  BY <1>5, <1>6, <1>8, <1>19 DEF High, Middle, Condition, ThreeRegister, Jumps, Bare
<1>20. CASE mi.op = "EXIT"
  BY <1>5, <1>6, <1>8, <1>20 DEF High, Middle, Condition, ThreeRegister, Jumps, Bare
<1> QED
  BY <1>9, <1>10, <1>11, <1>12, <1>13, <1>14, <1>15, <1>16, <1>17, <1>18, <1>19, <1>20
     DEF Encodable, Opcodes, ThreeRegister, Jumps, Bare

\* The fields never run into the opcode.
LEMMA WordFits ==
  ASSUME NEW mi, Encodable(mi)
  PROVE  Body(mi) \in 0..(2^24 - 1)
<1>1. ASSUME NEW a \in 0..31, NEW b \in 0..31, NEW r \in 0..(2^14 - 1)
      PROVE  a * 2^19 + b * 2^14 + r \in 0..(2^24 - 1)
  BY Fields, Zenon
<1>2. ASSUME NEW a \in 0..7, NEW r \in 0..(2^19 - 1)
      PROVE  a * 2^19 + r \in 0..(2^24 - 1)
  BY JumpFields, Zenon
<1>3. CASE mi.op \in Jumps
  BY <1>2, <1>3, FieldRanges, Zenon DEF Body
<1>4. CASE mi.op \notin Jumps
  BY <1>1, <1>4, FieldRanges, Zenon DEF Body
<1> QED
  BY <1>3, <1>4

\* Cutting an immediate to its field, and extending its sign, twice is the same as once.
LEMMA Idempotent ==
  ASSUME NEW n \in Int
  PROVE  /\ (n % 2^14) % 2^14 = n % 2^14
         /\ SignExtended(n % 2^14, 14) % 2^14 = n % 2^14
         /\ SignExtended(n % 2^14, 14) \in Int
         /\ SignExtended(n % 2^19, 19) % 2^19 = n % 2^19
         /\ SignExtended(n % 2^19, 19) \in Int
<1>1. n % 2^14 \in 0..(2^14 - 1) /\ n % 2^19 \in 0..(2^19 - 1)
  BY ImmediateMasks
<1>2. 2^14 \in Nat \ {0} /\ n % 2^14 \in Int
  BY PowersOfTwo, <1>1
<1>3. (n % 2^14) % 2^14 = n % 2^14
  BY <1>1, <1>2, Remainder
<1> QED
  BY <1>1, <1>3, SignIsKept

\* The instruction the assembler makes of a word, field by field.
LEMMA Disassembly ==
  ASSUME NEW op \in Opcodes, NEW w
  PROVE  LET rd     == w \div 2^19
             rs1    == (w \div 2^14) % 32
             rs2    == (w \div 2^9) % 32
             imm    == SignExtended(w % 2^14, 14) % 2^14
             offset == SignExtended(w % 2^19, 19)
         IN  Parsed(Disassembled(Word(op, w))) =
               CASE op \in ThreeRegister  -> MachineInstruction(op, rd, rs1, rs2, 0, ALWAYS, NoLabel)
                 [] op \in {"CMP", "STR"} -> MachineInstruction(op, 0, rs1, rs2, 0, ALWAYS, NoLabel)
                 [] op = "ADDI" -> MachineInstruction(op, rd, rs1, 0, imm, ALWAYS, NoLabel)
                 [] op = "LDR"  -> MachineInstruction(op, rd, rs1, 0, 0, ALWAYS, NoLabel)
                 [] op = "S2R"  -> MachineInstruction(op, rd, 0, 0, imm, ALWAYS, NoLabel)
                 [] op = "BR"   -> MachineInstruction(op, 0, 0, 0, offset,
                                     ParsedCondition(DisassembledLetters(rd % 8)), NoLabel)
                 [] op = "SSY"  -> MachineInstruction(op, 0, 0, 0, offset, ALWAYS, NoLabel)
                 [] op \in Bare -> MachineInstruction(op, 0, 0, 0, 0, ALWAYS, NoLabel)
<1> DEFINE word  == Word(op, w)
           rd    == w \div 2^19
           rs1   == (w \div 2^14) % 32
           rs2   == (w \div 2^9) % 32
           imm14 == SignExtended(w % 2^14, 14)
           imm19 == SignExtended(w % 2^19, 19)
<1>0. word.op = op /\ word.body = w
  BY DEF Word
<1>1. Disassembled(word) =
        CASE op \in ThreeRegister -> Line(op, <<rd, rs1, rs2>>, 0, {}, NoLabel)
          [] op = "CMP"  -> Line(op, <<rs1, rs2>>, 0, {}, NoLabel)
          [] op = "ADDI" -> Line(op, <<rd, rs1>>, imm14, {}, NoLabel)
          [] op = "LDR"  -> Line(op, <<rd, rs1>>, 0, {}, NoLabel)
          [] op = "STR"  -> Line(op, <<rs2, rs1>>, 0, {}, NoLabel)
          [] op = "S2R"  -> Line(op, <<rd>>, imm14, {}, NoLabel)
          [] op = "BR"   -> Line(op, <<>>, imm19, DisassembledLetters(rd % 8), NoLabel)
          [] op = "SSY"  -> Line(op, <<>>, imm19, {}, NoLabel)
          [] op \in Bare -> Line(op, <<>>, 0, {}, NoLabel)
  <2> HIDE DEF word
  <2> QED
    BY <1>0, Zenon DEF Disassembled, RdUnit, Rs1Unit, Rs2Unit
<1> HIDE DEF word, rd, rs1, rs2, imm14, imm19
<1> DEFINE result ==
        CASE op \in ThreeRegister  -> MachineInstruction(op, rd, rs1, rs2, 0, ALWAYS, NoLabel)
          [] op \in {"CMP", "STR"} -> MachineInstruction(op, 0, rs1, rs2, 0, ALWAYS, NoLabel)
          [] op = "ADDI" -> MachineInstruction(op, rd, rs1, 0, imm14 % 2^14, ALWAYS, NoLabel)
          [] op = "LDR"  -> MachineInstruction(op, rd, rs1, 0, 0, ALWAYS, NoLabel)
          [] op = "S2R"  -> MachineInstruction(op, rd, 0, 0, imm14 % 2^14, ALWAYS, NoLabel)
          [] op = "BR"   -> MachineInstruction(op, 0, 0, 0, imm19,
                              ParsedCondition(DisassembledLetters(rd % 8)), NoLabel)
          [] op = "SSY"  -> MachineInstruction(op, 0, 0, 0, imm19, ALWAYS, NoLabel)
          [] op \in Bare -> MachineInstruction(op, 0, 0, 0, 0, ALWAYS, NoLabel)
<1> SUFFICES Parsed(Disassembled(word)) = result
  BY Zenon DEF word, rd, rs1, rs2, imm14, imm19
<1>2. CASE op = "ADD"
  BY <1>1, <1>2 DEF Parsed, Line, ThreeRegister, Bare
<1>3. CASE op = "SUB"
  BY <1>1, <1>3 DEF Parsed, Line, ThreeRegister, Bare
<1>4. CASE op = "MUL"
  BY <1>1, <1>4 DEF Parsed, Line, ThreeRegister, Bare
<1>5. CASE op = "CMP"
  BY <1>1, <1>5 DEF Parsed, Line, ThreeRegister, Bare
<1>6. CASE op = "STR"
  BY <1>1, <1>6 DEF Parsed, Line, ThreeRegister, Bare
<1>7. CASE op = "ADDI"
  BY <1>1, <1>7 DEF Parsed, Line, ThreeRegister, Bare
<1>8. CASE op = "LDR"
  BY <1>1, <1>8 DEF Parsed, Line, ThreeRegister, Bare
<1>9. CASE op = "S2R"
  BY <1>1, <1>9 DEF Parsed, Line, ThreeRegister, Bare
<1>10. CASE op = "BR"
  BY <1>1, <1>10 DEF Parsed, Line, ThreeRegister, Bare
<1>11. CASE op = "SSY"
  BY <1>1, <1>11 DEF Parsed, Line, ThreeRegister, Bare
<1>12. CASE op = "SYNC"
  BY <1>1, <1>12 DEF Parsed, Line, ThreeRegister, Bare
<1>13. CASE op = "EXIT"
  BY <1>1, <1>13 DEF Parsed, Line, ThreeRegister, Bare
<1> QED
  BY <1>2, <1>3, <1>4, <1>5, <1>6, <1>7, <1>8, <1>9, <1>10, <1>11, <1>12, <1>13
     DEF Opcodes, ThreeRegister, Jumps, Bare

\* Instructions with the same opcode and the same fields are the same word.
LEMMA SameWord ==
  ASSUME NEW q, NEW mi, Encodable(q), Encodable(mi), q.op = mi.op,
         IF mi.op \in Jumps THEN Condition(q) = Condition(mi) /\ q.imm % 2^19 = mi.imm % 2^19
         ELSE High(q) = High(mi) /\ Middle(q) = Middle(mi) /\ Low(q) = Low(mi)
  PROVE  Encode(q) = Encode(mi)
<1>1. Body(q) = Body(mi)
  BY Zenon DEF Body
<1> QED
  BY <1>1, EncodeIs, Zenon

\* Whatever encode makes of an instruction, the text disassemble writes for
\* that word is assembled into the same word.
THEOREM DisassemblyRoundTrip ==
  ASSUME NEW mi, Encodable(mi)
  PROVE  LET q == Parsed(Disassembled(Encode(mi)))
         IN  Encode(q) = Encode(mi) /\ q.labelTarget = NoLabel /\ q.op = mi.op
<1> DEFINE w    == Body(mi)
           word == Word(mi.op, w)
           q    == Parsed(Disassembled(word))
           i14  == mi.imm % 2^14
           i19  == mi.imm % 2^19
           off  == SignExtended(w % 2^19, 19)
           imm  == SignExtended(w % 2^14, 14) % 2^14
           rs2  == (w \div 2^9) % 32
<1>1. Encode(mi) = word /\ word.op = mi.op /\ word.body = w
  BY EncodeIs, SMT DEF Word
<1> SUFFICES Encode(q) = Encode(mi) /\ q.labelTarget = NoLabel /\ q.op = mi.op
  BY <1>1, Zenon
<1>2. RdUnit = 2^19 /\ Rs1Unit = 2^14 /\ Rs2Unit = 2^9
  BY DEF RdUnit, Rs1Unit, Rs2Unit
<1>3. q = CASE mi.op \in ThreeRegister ->
                 MachineInstruction(mi.op, w \div 2^19, (w \div 2^14) % 32, rs2, 0, ALWAYS, NoLabel)
            [] mi.op \in {"CMP", "STR"} ->
                 MachineInstruction(mi.op, 0, (w \div 2^14) % 32, rs2, 0, ALWAYS, NoLabel)
            [] mi.op = "ADDI" ->
                 MachineInstruction(mi.op, w \div 2^19, (w \div 2^14) % 32, 0, imm, ALWAYS, NoLabel)
            [] mi.op = "LDR" ->
                 MachineInstruction(mi.op, w \div 2^19, (w \div 2^14) % 32, 0, 0, ALWAYS, NoLabel)
            [] mi.op = "S2R" ->
                 MachineInstruction(mi.op, w \div 2^19, 0, 0, imm, ALWAYS, NoLabel)
            [] mi.op = "BR" ->
                 MachineInstruction(mi.op, 0, 0, 0, off,
                   ParsedCondition(DisassembledLetters((w \div 2^19) % 8)), NoLabel)
            [] mi.op = "SSY" -> MachineInstruction(mi.op, 0, 0, 0, off, ALWAYS, NoLabel)
            [] mi.op \in Bare -> MachineInstruction(mi.op, 0, 0, 0, 0, ALWAYS, NoLabel)
  BY Disassembly, Zenon DEF Encodable
<1>4. CASE mi.op \in Jumps
  <2>1. w = Condition(mi) * 2^19 + i19
    BY <1>4, Zenon DEF Body
  <2>2. (w \div 2^19) % 8 = Condition(mi) /\ w % 2^19 = i19
    <3> HIDE DEF w
    <3>1. Condition(mi) \in 0..7 /\ i19 \in 0..(2^19 - 1)
      BY FieldRanges
    <3>2. /\ ((Condition(mi) * 2^19 + i19) \div 2^19) % 8 = Condition(mi)
          /\ (Condition(mi) * 2^19 + i19) % 2^19 = i19
      BY <3>1, JumpFields, Zenon
    <3> QED
      BY <2>1, <3>2, Zenon
  <2>3. off \in Int /\ off % 2^19 = i19
    BY <2>2, Idempotent, Zenon DEF Encodable
  <2>4. CASE mi.op = "BR"
    <3>1. q = MachineInstruction("BR", 0, 0, 0, off, mi.cond, NoLabel)
      <4>1. ParsedCondition(DisassembledLetters((w \div 2^19) % 8)) = mi.cond
        BY <2>2, <2>4, Conditions, Zenon DEF Condition, Encodable
      <4> HIDE DEF w, q, off, rs2, imm
      <4> QED
        BY <1>3, <2>4, <4>1 DEF ThreeRegister, Bare
    <3> HIDE DEF w, q, off, i19, rs2, imm
    <3>2. Encodable(q) /\ q.op = mi.op /\ Condition(q) = Condition(mi) /\ q.labelTarget = NoLabel
      BY <2>3, <2>4, <3>1 DEF MachineInstruction, Encodable, Condition
    <3>3. q.imm % 2^19 = mi.imm % 2^19
      BY <2>3, <3>1 DEF MachineInstruction, i19
    <3> QED
      BY <1>4, <3>2, <3>3, SameWord, Zenon
  <2>5. CASE mi.op = "SSY"
    <3> HIDE DEF w, q, off, i19, rs2, imm
    <3>1. q = MachineInstruction("SSY", 0, 0, 0, off, ALWAYS, NoLabel)
      BY <1>3, <2>5 DEF ThreeRegister, Bare
    <3>2. Encodable(q) /\ q.op = mi.op /\ Condition(q) = Condition(mi) /\ q.labelTarget = NoLabel
      BY <2>3, <2>5, <3>1 DEF MachineInstruction, Encodable, Condition, Opcodes, Jumps, ALWAYS
    <3>3. q.imm % 2^19 = mi.imm % 2^19
      BY <2>3, <3>1 DEF MachineInstruction, i19
    <3> QED
      BY <1>4, <3>2, <3>3, SameWord, Zenon
  <2> QED
    BY <1>4, <2>4, <2>5 DEF Jumps
<1>5. CASE mi.op \notin Jumps
  <2>1. w = High(mi) * 2^19 + Middle(mi) * 2^14 + Low(mi)
    BY <1>5, Zenon DEF Body
  <2>2. w \div 2^19 = High(mi) /\ (w \div 2^14) % 32 = Middle(mi) /\ w % 2^14 = Low(mi)
    <3> HIDE DEF w
    <3>1. High(mi) \in 0..31 /\ Middle(mi) \in 0..31 /\ Low(mi) \in 0..(2^14 - 1)
      BY FieldRanges
    <3>2. /\ (High(mi) * 2^19 + Middle(mi) * 2^14 + Low(mi)) \div 2^19 = High(mi)
          /\ ((High(mi) * 2^19 + Middle(mi) * 2^14 + Low(mi)) \div 2^14) % 32 = Middle(mi)
          /\ (High(mi) * 2^19 + Middle(mi) * 2^14 + Low(mi)) % 2^14 = Low(mi)
      <4> DEFINE a == High(mi)  b == Middle(mi)  r == Low(mi)
      <4> HIDE DEF a, b, r
      <4>1. a \in 0..31 /\ b \in 0..31 /\ r \in 0..(2^14 - 1)
        BY <3>1 DEF a, b, r
      <4>2. (a * 2^19 + b * 2^14 + r) \div 2^19 = a
        BY <4>1, Fields, ZenonT(30)
      <4>3. ((a * 2^19 + b * 2^14 + r) \div 2^14) % 32 = b
        BY <4>1, Fields, ZenonT(30)
      <4>4. (a * 2^19 + b * 2^14 + r) % 2^14 = r
        BY <4>1, LowField, Zenon
      <4> QED BY <4>2, <4>3, <4>4 DEF a, b, r
    <3> QED
      BY <2>1, <3>2, Zenon
  <2>3. mi.op \in ThreeRegister \cup {"CMP", "STR"} => rs2 = mi.rs2
    <3>1. ASSUME Low(mi) = mi.rs2 * 2^9 PROVE rs2 = mi.rs2
      <4> HIDE DEF w
      <4>1. High(mi) \in 0..31 /\ Middle(mi) \in 0..31 /\ mi.rs2 \in 0..31
        BY FieldRanges DEF Encodable
      <4>2. ((High(mi) * 2^19 + Middle(mi) * 2^14 + mi.rs2 * 2^9) \div 2^9) % 32 = mi.rs2
        BY <4>1, SecondField, ZenonT(30)
      <4> QED
        BY <2>1, <3>1, <4>2, Zenon
    <3> QED
      BY <3>1, Zenon DEF Low
  <2>4. mi.op \in {"ADDI", "S2R"} => imm = i14
    <3>1. ASSUME Low(mi) = i14 PROVE imm = i14
      <4>1. w % 2^14 = i14
        BY <2>2, <3>1, Zenon
      <4>2. mi.imm \in Int
        BY DEF Encodable
      <4> HIDE DEF w
      <4> QED
        BY <4>1, <4>2, Idempotent, Zenon
    <3> QED
      BY <3>1 DEF Low, ThreeRegister
  <2>5. i14 \in Int /\ i14 % 2^14 = i14
    BY ImmediateMasks, Idempotent DEF Encodable
  <2> HIDE DEF w, q, imm, rs2, i14, off
  <2>6. /\ Encodable(q) /\ q.op = mi.op /\ q.labelTarget = NoLabel
        /\ High(q) = High(mi) /\ Middle(q) = Middle(mi) /\ Low(q) = Low(mi)
    <3>1. CASE mi.op = "ADD"
      <4>1. q = MachineInstruction("ADD", High(mi), Middle(mi), rs2, 0, ALWAYS, NoLabel)
        BY <1>3, <2>2, <3>1 DEF ThreeRegister, Bare
      <4> QED
        BY <2>3, <2>4, <2>5, <3>1, <4>1
           DEF MachineInstruction, Encodable, High, Middle, Low, ThreeRegister, ALWAYS, i14
    <3>2. CASE mi.op = "SUB"
      <4>1. q = MachineInstruction("SUB", High(mi), Middle(mi), rs2, 0, ALWAYS, NoLabel)
        BY <1>3, <2>2, <3>2 DEF ThreeRegister, Bare
      <4> QED
        BY <2>3, <2>4, <2>5, <3>2, <4>1
           DEF MachineInstruction, Encodable, High, Middle, Low, ThreeRegister, ALWAYS, i14
    <3>3. CASE mi.op = "MUL"
      <4>1. q = MachineInstruction("MUL", High(mi), Middle(mi), rs2, 0, ALWAYS, NoLabel)
        BY <1>3, <2>2, <3>3 DEF ThreeRegister, Bare
      <4> QED
        BY <2>3, <2>4, <2>5, <3>3, <4>1
           DEF MachineInstruction, Encodable, High, Middle, Low, ThreeRegister, ALWAYS, i14
    <3>4. CASE mi.op = "CMP"
      <4>1. q = MachineInstruction("CMP", 0, Middle(mi), rs2, 0, ALWAYS, NoLabel)
        BY <1>3, <2>2, <3>4 DEF ThreeRegister, Bare
      <4> QED
        BY <2>3, <2>4, <2>5, <3>4, <4>1
           DEF MachineInstruction, Encodable, High, Middle, Low, ThreeRegister, ALWAYS, i14
    <3>5. CASE mi.op = "STR"
      <4>1. q = MachineInstruction("STR", 0, Middle(mi), rs2, 0, ALWAYS, NoLabel)
        BY <1>3, <2>2, <3>5 DEF ThreeRegister, Bare
      <4> QED
        BY <2>3, <2>4, <2>5, <3>5, <4>1
           DEF MachineInstruction, Encodable, High, Middle, Low, ThreeRegister, ALWAYS, i14
    <3>6. CASE mi.op = "ADDI"
      <4>1. q = MachineInstruction("ADDI", High(mi), Middle(mi), 0, imm, ALWAYS, NoLabel)
        BY <1>3, <2>2, <3>6 DEF ThreeRegister, Bare
      <4> QED
        BY <2>3, <2>4, <2>5, <3>6, <4>1
           DEF MachineInstruction, Encodable, High, Middle, Low, ThreeRegister, ALWAYS, i14
    <3>7. CASE mi.op = "S2R"
      <4>1. q = MachineInstruction("S2R", High(mi), 0, 0, imm, ALWAYS, NoLabel)
        BY <1>3, <2>2, <3>7 DEF ThreeRegister, Bare
      <4> QED
        BY <2>3, <2>4, <2>5, <3>7, <4>1
           DEF MachineInstruction, Encodable, High, Middle, Low, ThreeRegister, ALWAYS, i14
    <3>8. CASE mi.op = "LDR"
      <4>1. q = MachineInstruction("LDR", High(mi), Middle(mi), 0, 0, ALWAYS, NoLabel)
        BY <1>3, <2>2, <3>8 DEF ThreeRegister, Bare
      <4> QED
        BY <2>3, <2>4, <2>5, <3>8, <4>1
           DEF MachineInstruction, Encodable, High, Middle, Low, ThreeRegister, ALWAYS, i14
    <3>9. CASE mi.op = "SYNC"
      <4>1. q = MachineInstruction("SYNC", 0, 0, 0, 0, ALWAYS, NoLabel)
        BY <1>3, <2>2, <3>9 DEF ThreeRegister, Bare
      <4> QED
        BY <2>3, <2>4, <2>5, <3>9, <4>1
           DEF MachineInstruction, Encodable, High, Middle, Low, ThreeRegister, ALWAYS, i14
    <3>10. CASE mi.op = "EXIT"
      <4>1. q = MachineInstruction("EXIT", 0, 0, 0, 0, ALWAYS, NoLabel)
        BY <1>3, <2>2, <3>10 DEF ThreeRegister, Bare
      <4> QED
        BY <2>3, <2>4, <2>5, <3>10, <4>1
           DEF MachineInstruction, Encodable, High, Middle, Low, ThreeRegister, ALWAYS, i14
    <3> QED
      BY <1>5, <3>1, <3>2, <3>3, <3>4, <3>5, <3>6, <3>7, <3>8, <3>9, <3>10
         DEF Encodable, Opcodes, ThreeRegister, Bare
  <2> QED
    BY <1>5, <2>6, SameWord, Zenon
<1> QED
  BY <1>4, <1>5
\* A labelled jump is read back with its label and its condition.
LEMMA JumpListed ==
  ASSUME NEW mi, Encodable(mi), mi.op \in Jumps, mi.labelTarget # NoLabel
  PROVE  LET q == Parsed(Printed(mi))
         IN  q = MachineInstruction(mi.op, 0, 0, 0, 0,
                   IF mi.op = "BR" THEN mi.cond ELSE ALWAYS, mi.labelTarget)
<1>1. CASE mi.op = "BR"
  <2>1. Printed(mi) = Line("BR", <<>>, mi.imm, LettersOf(mi.cond), mi.labelTarget)
    BY <1>1 DEF Printed, ThreeRegister, Bare
  <2>2. ParsedCondition(LettersOf(mi.cond)) = mi.cond
    BY Conditions DEF Encodable
  <2> QED
    BY <1>1, <2>1, <2>2 DEF Parsed, Line, ThreeRegister, Bare
<1>2. CASE mi.op = "SSY"
  <2>1. Printed(mi) = Line("SSY", <<>>, mi.imm, {}, mi.labelTarget)
    BY <1>2 DEF Printed, ThreeRegister, Bare
  <2> QED
    BY <1>2, <2>1 DEF Parsed, Line, ThreeRegister, Bare
<1> QED
  BY <1>1, <1>2 DEF Jumps

\* The text emitAssembly writes for a labelled jump is assembled into the same
\* word, whatever the offset of the label turns out to be.
THEOREM JumpRoundTrip ==
  ASSUME NEW mi, Encodable(mi), mi.op \in Jumps, mi.labelTarget # NoLabel, NEW offset \in Int
  PROVE  LET q == Parsed(Printed(mi))
         IN  Encode(MachineInstruction(q.op, q.rd, q.rs1, q.rs2, offset, q.cond, q.labelTarget))
               = Encode(MachineInstruction(mi.op, mi.rd, mi.rs1, mi.rs2, offset, mi.cond,
                                           mi.labelTarget))
<1> DEFINE q  == Parsed(Printed(mi))
           m1 == MachineInstruction(q.op, q.rd, q.rs1, q.rs2, offset, q.cond, q.labelTarget)
           m2 == MachineInstruction(mi.op, mi.rd, mi.rs1, mi.rs2, offset, mi.cond, mi.labelTarget)
<1>1. q = MachineInstruction(mi.op, 0, 0, 0, 0,
            IF mi.op = "BR" THEN mi.cond ELSE ALWAYS, mi.labelTarget)
  BY JumpListed, Zenon
<1> HIDE DEF q
<1>2. Encodable(m1) /\ Encodable(m2) /\ m1.op = mi.op /\ m2.op = mi.op
  BY <1>1 DEF Encodable, MachineInstruction, ALWAYS
<1>3. Condition(m1) = Condition(m2)
  BY <1>1 DEF Condition, MachineInstruction
<1>4. m1.imm = m2.imm
  BY DEF MachineInstruction
<1> HIDE DEF m1, m2
<1>5. Encode(m1) = Encode(m2)
  BY <1>2, <1>3, <1>4, SameWord, Zenon
<1> QED
  BY <1>5, Zenon DEF m1, m2, q

\* The four system registers are printed by their own names.
LEMMA SystemRegisters ==
  \A n \in SysRegs : SysRegShown(n) = n /\ n \in Int /\ n \in 0..31
BY SMT DEF SysRegShown, SysRegs

\* The text emitAssembly writes for any other instruction is assembled into
\* the same word.
THEOREM PlainRoundTrip ==
  ASSUME NEW mi, Encodable(mi), mi.op \notin Jumps, mi.op = "S2R" => mi.imm \in SysRegs
  PROVE  LET q == Parsed(Printed(mi))
         IN  q.op = mi.op /\ q.labelTarget = NoLabel /\ Encode(q) = Encode(mi)
<1> DEFINE q   == Parsed(Printed(mi))
           i14 == mi.imm % 2^14
<1>1. i14 \in Int /\ i14 % 2^14 = i14
  BY ImmediateMasks, Idempotent DEF Encodable
<1>2. mi.op = "S2R" => SysRegShown(mi.imm) = mi.imm
  BY SystemRegisters
<1> SUFFICES /\ Encodable(q) /\ q.op = mi.op /\ q.labelTarget = NoLabel
             /\ High(q) = High(mi) /\ Middle(q) = Middle(mi) /\ Low(q) = Low(mi)
  BY SameWord, Zenon
<1>3. CASE mi.op = "ADD"
  <2>1. q = MachineInstruction("ADD", mi.rd, mi.rs1, mi.rs2, 0, ALWAYS, NoLabel)
    BY <1>3, <1>2 DEF Printed, Parsed, Line, ThreeRegister, Bare
  <2> HIDE DEF q, i14
  <2> QED
    BY <1>3, <1>1, <2>1
       DEF MachineInstruction, Encodable, High, Middle, Low, ThreeRegister, ALWAYS, i14
<1>4. CASE mi.op = "SUB"
  <2>1. q = MachineInstruction("SUB", mi.rd, mi.rs1, mi.rs2, 0, ALWAYS, NoLabel)
    BY <1>4, <1>2 DEF Printed, Parsed, Line, ThreeRegister, Bare
  <2> HIDE DEF q, i14
  <2> QED
    BY <1>4, <1>1, <2>1
       DEF MachineInstruction, Encodable, High, Middle, Low, ThreeRegister, ALWAYS, i14
<1>5. CASE mi.op = "MUL"
  <2>1. q = MachineInstruction("MUL", mi.rd, mi.rs1, mi.rs2, 0, ALWAYS, NoLabel)
    BY <1>5, <1>2 DEF Printed, Parsed, Line, ThreeRegister, Bare
  <2> HIDE DEF q, i14
  <2> QED
    BY <1>5, <1>1, <2>1
       DEF MachineInstruction, Encodable, High, Middle, Low, ThreeRegister, ALWAYS, i14
<1>6. CASE mi.op = "CMP"
  <2>1. q = MachineInstruction("CMP", 0, mi.rs1, mi.rs2, 0, ALWAYS, NoLabel)
    BY <1>6, <1>2 DEF Printed, Parsed, Line, ThreeRegister, Bare
  <2> HIDE DEF q, i14
  <2> QED
    BY <1>6, <1>1, <2>1
       DEF MachineInstruction, Encodable, High, Middle, Low, ThreeRegister, ALWAYS, i14
<1>7. CASE mi.op = "ADDI"
  <2>1. q = MachineInstruction("ADDI", mi.rd, mi.rs1, 0, i14, ALWAYS, NoLabel)
    BY <1>7, <1>2 DEF Printed, Parsed, Line, ThreeRegister, Bare
  <2> HIDE DEF q, i14
  <2> QED
    BY <1>7, <1>1, <2>1
       DEF MachineInstruction, Encodable, High, Middle, Low, ThreeRegister, ALWAYS, i14
<1>8. CASE mi.op = "LDR"
  <2>1. q = MachineInstruction("LDR", mi.rd, mi.rs1, 0, 0, ALWAYS, NoLabel)
    BY <1>8, <1>2 DEF Printed, Parsed, Line, ThreeRegister, Bare
  <2> HIDE DEF q, i14
  <2> QED
    BY <1>8, <1>1, <2>1
       DEF MachineInstruction, Encodable, High, Middle, Low, ThreeRegister, ALWAYS, i14
<1>9. CASE mi.op = "STR"
  <2>1. q = MachineInstruction("STR", 0, mi.rs1, mi.rs2, 0, ALWAYS, NoLabel)
    BY <1>9, <1>2 DEF Printed, Parsed, Line, ThreeRegister, Bare
  <2> HIDE DEF q, i14
  <2> QED
    BY <1>9, <1>1, <2>1
       DEF MachineInstruction, Encodable, High, Middle, Low, ThreeRegister, ALWAYS, i14
<1>10. CASE mi.op = "S2R"
  <2>1. q = MachineInstruction("S2R", mi.rd, 0, 0, i14, ALWAYS, NoLabel)
    BY <1>10, <1>2 DEF Printed, Parsed, Line, ThreeRegister, Bare
  <2> HIDE DEF q, i14
  <2> QED
    BY <1>10, <1>1, <2>1
       DEF MachineInstruction, Encodable, High, Middle, Low, ThreeRegister, ALWAYS, i14
<1>11. CASE mi.op = "SYNC"
  <2>1. q = MachineInstruction("SYNC", 0, 0, 0, 0, ALWAYS, NoLabel)
    BY <1>11, <1>2, SMTT(30) DEF Printed, Parsed, Line, ThreeRegister, Bare
  <2> HIDE DEF q, i14
  <2> QED
    BY <1>11, <1>1, <2>1
       DEF MachineInstruction, Encodable, High, Middle, Low, ThreeRegister, ALWAYS, i14
<1>12. CASE mi.op = "EXIT"
  <2>1. q = MachineInstruction("EXIT", 0, 0, 0, 0, ALWAYS, NoLabel)
    BY <1>12, <1>2, SMTT(30) DEF Printed, Parsed, Line, ThreeRegister, Bare
  <2> HIDE DEF q, i14
  <2> QED
    BY <1>12, <1>1, <2>1
       DEF MachineInstruction, Encodable, High, Middle, Low, ThreeRegister, ALWAYS, i14
<1> QED
  BY <1>3, <1>4, <1>5, <1>6, <1>7, <1>8, <1>9, <1>10, <1>11, <1>12
     DEF Encodable, Opcodes, ThreeRegister, Jumps, Bare

=============================================================================
