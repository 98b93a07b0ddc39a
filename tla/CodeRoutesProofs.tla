-------------------------- MODULE CodeRoutesProofs --------------------------
(***************************************************************************)
(* The routes through the text and the direct route give the same words,   *)
(* for every module.                                                       *)
(*                                                                         *)
(* The invariant relates three things that are built side by side.  The    *)
(* emitter's map gives the address of the last block of every name         *)
(* (LaidOut).  A text means the words if, counting its instruction lines,  *)
(* each of them is assembled into the word at its count, given that map    *)
(* (Good), and each label line counts to the address in the map, unless    *)
(* the name comes again (LabelKept).  The assembler's labels are the last  *)
(* ones of their names so far (Assembling).  At the end of the text the    *)
(* assembler's labels are then the emitter's map, and its words the same.  *)
(* Neither names nor functions need be kept apart for this; they are only  *)
(* needed for the labels to be there (PlainInv).                           *)
(***************************************************************************)
EXTENDS CodeRoutes, MachineCodeProofs, SequenceTheorems, FiniteSetTheorems, WellFoundedInduction

AnyInstruction ==
  [op : Opcodes, rd : 0..31, rs1 : 0..31, rs2 : 0..31, imm : Int, cond : 1..7,
   labelTarget : Names \cup {NoLabel}]

CompilerWords == {Encode(mi) : mi \in AnyInstruction}

Lines == {Printed(mi) : mi \in Instructions} \cup {Disassembled(w) : w \in CompilerWords}
           \cup {LabelLine(n) : n \in Names}

IsLabel(l) == l.mnemonic = "label"

\* The fields of an instruction are in range ...
LEMMA AnyIsEncodable ==
  ASSUME NEW mi \in AnyInstruction
  PROVE  Encodable(mi)
BY DEF AnyInstruction, Encodable

\* ... those of an instruction the compiler makes as well ...
LEMMA InstructionIsAny ==
  ASSUME NEW mi \in Instructions
  PROVE  /\ mi \in AnyInstruction
         /\ mi.op = "S2R" => mi.imm \in SysRegs
         /\ mi.op \in Jumps <=> mi.labelTarget # NoLabel
BY DEF Instructions, AnyInstruction

\* ... and make a word.
LEMMA WordsAreWords == CompilerWords \subseteq Words
<1> SUFFICES ASSUME NEW mi \in AnyInstruction
             PROVE  Encode(mi) \in Words
  BY Zenon DEF CompilerWords
<1>1. Encodable(mi) /\ mi.op \in Opcodes
  BY AnyIsEncodable DEF AnyInstruction
<1>2. Encode(mi) = Word(mi.op, Body(mi)) /\ Body(mi) \in 0..(2^24 - 1)
  BY <1>1, EncodeIs, WordFits, Zenon
<1> DEFINE bodies == 0..(2^24 - 1)  b == Body(mi)
<1>3. /\ Encode(mi) = [op |-> mi.op, body |-> b] /\ b \in bodies
      /\ Words = [op : Opcodes, body : bodies]
  BY <1>2, Zenon DEF Word, Words
<1> HIDE DEF bodies, b
<1> QED
  BY <1>1, <1>3

\* Looking a label up changes the immediate only.
LEMMA ResolvedIsAny ==
  ASSUME NEW mi \in AnyInstruction, NEW map, \A n \in DOMAIN map : map[n] \in Int,
         NEW address \in Int
  PROVE  Resolved(mi, map, address) \in AnyInstruction
BY DEF Resolved, AnyInstruction, MachineInstruction

\* The lines the tools write are labels ...
LEMMA LabelLines ==
  ASSUME NEW n \in Names
  PROVE  LabelLine(n) \in Lines /\ IsLabel(LabelLine(n)) /\ LabelLine(n).name = n
BY DEF Lines, LabelLine, Line, IsLabel

\* ... printed instructions, with their own mnemonic ...
LEMMA PrintedLines ==
  ASSUME NEW mi \in Instructions
  PROVE  Printed(mi) \in Lines /\ Printed(mi).mnemonic = mi.op /\ ~IsLabel(Printed(mi))
<1>1. mi.op \in Opcodes
  BY DEF Instructions
<1>2. Printed(mi).mnemonic = mi.op
  BY <1>1 DEF Printed, Line, Opcodes, ThreeRegister, Jumps, Bare
<1>3. mi.op # "label"
  BY <1>1 DEF Opcodes, ThreeRegister, Jumps, Bare
<1> QED
  BY <1>2, <1>3 DEF Lines, IsLabel

\* ... and disassembled words, with the mnemonic of an opcode.
LEMMA DisassembledLines ==
  ASSUME NEW w \in CompilerWords
  PROVE  /\ Disassembled(w) \in Lines /\ Disassembled(w).mnemonic \in Opcodes
         /\ ~IsLabel(Disassembled(w))
<1>1. w.op \in Opcodes
  BY WordsAreWords DEF Words
<1> DEFINE b == w.body  hi == b \div 2^19  mid == (b \div 2^14) % 32  lo == (b \div 2^9) % 32
           i14 == SignExtended(b % 2^14, 14)  i19 == SignExtended(b % 2^19, 19)
<1>2. Disassembled(w) =
        CASE w.op \in ThreeRegister -> Line(w.op, <<hi, mid, lo>>, 0, {}, NoLabel)
          [] w.op = "CMP"  -> Line(w.op, <<mid, lo>>, 0, {}, NoLabel)
          [] w.op = "ADDI" -> Line(w.op, <<hi, mid>>, i14, {}, NoLabel)
          [] w.op = "LDR"  -> Line(w.op, <<hi, mid>>, 0, {}, NoLabel)
          [] w.op = "STR"  -> Line(w.op, <<lo, mid>>, 0, {}, NoLabel)
          [] w.op = "S2R"  -> Line(w.op, <<hi>>, i14, {}, NoLabel)
          [] w.op = "BR"   -> Line(w.op, <<>>, i19, DisassembledLetters(hi % 8), NoLabel)
          [] w.op = "SSY"  -> Line(w.op, <<>>, i19, {}, NoLabel)
          [] w.op \in Bare -> Line(w.op, <<>>, 0, {}, NoLabel)
  BY Zenon DEF Disassembled, RdUnit, Rs1Unit, Rs2Unit
<1> HIDE DEF b, hi, mid, lo, i14, i19
<1>3. Disassembled(w).mnemonic = w.op
  BY <1>1, <1>2 DEF Line, Opcodes, ThreeRegister, Jumps, Bare
<1>4. w.op # "label"
  BY <1>1 DEF Opcodes, ThreeRegister, Jumps, Bare
<1> QED
  BY <1>1, <1>3, <1>4, Zenon DEF Lines, IsLabel

\* A line is not both a label and an instruction, and a label is a name.
LEMMA LabelOrInstruction ==
  ASSUME NEW l \in Lines
  PROVE  /\ IsLabel(l) => l.name \in Names
         /\ l.mnemonic \in Opcodes => ~IsLabel(l)
<1>1. CASE \E mi \in Instructions : l = Printed(mi)
  BY <1>1, PrintedLines
<1>2. CASE \E w \in CompilerWords : l = Disassembled(w)
  BY <1>2, DisassembledLines
<1>3. CASE \E n \in Names : l = LabelLine(n)
  <2>1. l.mnemonic = "label" /\ l.name \in Names
    BY <1>3, LabelLines DEF IsLabel
  <2> QED
    BY <2>1 DEF Opcodes, ThreeRegister, Jumps, Bare
<1> QED
  BY <1>1, <1>2, <1>3, Zenon DEF Lines

-----------------------------------------------------------------------------

\* An instruction that the assembler, knowing the addresses of the map, turns
\* into the word.
Good(q, address, map, word) ==
  q.op \notin Jumps \/ q.labelTarget \in DOMAIN map \cup {NoLabel} =>
    Encode(Resolved(q, map, address)) = word

\* The line the compiler prints is assembled into the word it writes,
LEMMA GoodPrinted ==
  ASSUME NEW mi \in Instructions, NEW map, DOMAIN map \subseteq Names,
         \A n \in DOMAIN map : map[n] \in Int, NEW address \in Int
  PROVE  Good(Parsed(Printed(mi)), address, map, Encode(Resolved(mi, map, address)))
<1> DEFINE q == Parsed(Printed(mi))
<1>1. Encodable(mi)
  BY InstructionIsAny, AnyIsEncodable
<1>2. CASE mi.op \notin Jumps
  <2>1. q.op = mi.op /\ Encode(q) = Encode(mi)
    BY <1>1, <1>2, InstructionIsAny, PlainRoundTrip, Zenon
  <2> HIDE DEF q
  <2>2. Good(q, address, map, Encode(Resolved(mi, map, address)))
    BY <1>2, <2>1, Zenon DEF Good, Resolved
  <2> QED
    BY <2>2, Zenon DEF q
<1>3. CASE mi.op \in Jumps
  <2>1. mi.labelTarget # NoLabel
    BY <1>3, InstructionIsAny
  <2>2. q = MachineInstruction(mi.op, 0, 0, 0, 0,
              IF mi.op = "BR" THEN mi.cond ELSE ALWAYS, mi.labelTarget)
    BY <1>1, <1>3, <2>1, JumpListed, Zenon
  <2>3. ASSUME NEW o \in Int
        PROVE  Encode(MachineInstruction(q.op, q.rd, q.rs1, q.rs2, o, q.cond, q.labelTarget))
                 = Encode(MachineInstruction(mi.op, mi.rd, mi.rs1, mi.rs2, o, mi.cond,
                                             mi.labelTarget))
    BY <1>1, <1>3, <2>1, JumpRoundTrip, Zenon
  <2> HIDE DEF q
  <2>4. q.op = mi.op /\ q.labelTarget = mi.labelTarget
    BY <2>2 DEF MachineInstruction
  <2>5. CASE mi.labelTarget \in DOMAIN map
    <3>1. map[mi.labelTarget] - address \in Int
      BY <2>5
    <3>2. Encode(Resolved(q, map, address)) = Encode(Resolved(mi, map, address))
      BY <1>3, <2>3, <2>4, <2>5, <3>1, Zenon DEF Resolved
    <3>3. Good(q, address, map, Encode(Resolved(mi, map, address)))
      BY <3>2, Zenon DEF Good
    <3> QED
      BY <3>3, Zenon DEF q
  <2>6. CASE mi.labelTarget \notin DOMAIN map
    <3>1. Good(q, address, map, Encode(Resolved(mi, map, address)))
      BY <1>3, <2>1, <2>4, <2>6, Zenon DEF Good
    <3> QED
      BY <3>1, Zenon DEF q
  <2> QED
    BY <2>5, <2>6
<1> QED
  BY <1>2, <1>3

\* and the line the disassembler prints into the word it was given.
LEMMA GoodDisassembled ==
  ASSUME NEW w \in CompilerWords, NEW map, DOMAIN map \subseteq Names, NEW address
  PROVE  Good(Parsed(Disassembled(w)), address, map, w)
<1>1. PICK mi \in AnyInstruction : w = Encode(mi)
  BY Zenon DEF CompilerWords
<1> DEFINE q == Parsed(Disassembled(w))
<1>2. Encode(q) = w /\ q.labelTarget = NoLabel
  BY <1>1, AnyIsEncodable, DisassemblyRoundTrip, Zenon
<1> HIDE DEF q
<1>3. Good(q, address, map, w)
  BY <1>2, NamesAssumption, Zenon DEF Good, Resolved
<1> QED
  BY <1>3, Zenon DEF q

-----------------------------------------------------------------------------
\* place[k] is the number of instructions before line k of the text.
Counted(text, place) ==
  /\ place \in [1..(Len(text) + 1) -> Nat]
  /\ place[1] = 0
  /\ \A k \in 1..Len(text) :
       place[k + 1] = IF IsLabel(text[k]) THEN place[k] ELSE place[k] + 1

\* A label is where the map says, unless its name comes again.
LabelKept(text, place, map, later, k) ==
  /\ text[k].name \in DOMAIN map
  /\ \/ map[text[k].name] = place[k]
     \/ text[k].name \in later
     \/ \E j \in (k + 1)..Len(text) : IsLabel(text[j]) /\ text[j].name = text[k].name

Means(text, place, map, words, later) ==
  /\ Counted(text, place)
  /\ place[Len(text) + 1] = Len(words)
  /\ \A k \in 1..Len(text) :
       IF IsLabel(text[k]) THEN LabelKept(text, place, map, later, k)
       ELSE /\ place[k] + 1 \in 1..Len(words)
            /\ Good(Parsed(text[k]), place[k], map, words[place[k] + 1])

\* The empty text means no words.
LEMMA NothingMeansNothing ==
  ASSUME NEW map, NEW later
  PROVE  \E place : Means(<<>>, place, map, <<>>, later)
<1> DEFINE place == [k \in 1..1 |-> 0]
<1>1. Means(<<>>, place, map, <<>>, later)
  BY DEF Means, Counted
<1> QED
  BY <1>1, Zenon

\* The text the disassembler writes means the words it was given.
LEMMA DisassemblyMeans ==
  ASSUME NEW words \in Seq(CompilerWords), NEW map, DOMAIN map \subseteq Names
  PROVE  LET text == [i \in DOMAIN words |-> Disassembled(words[i])]
         IN  text \in Seq(Lines) /\ \E place : Means(text, place, map, words, {})
<1> DEFINE text  == [i \in DOMAIN words |-> Disassembled(words[i])]
           n     == Len(words)
           place == [k \in 1..(n + 1) |-> k - 1]
<1>1. n \in Nat /\ DOMAIN words = 1..n /\ \A i \in 1..n : words[i] \in CompilerWords
  BY LenProperties, ElementOfSeq
<1>2. \A i \in 1..n : /\ Disassembled(words[i]) \in Lines /\ ~IsLabel(Disassembled(words[i]))
                      /\ Good(Parsed(Disassembled(words[i])), i - 1, map, words[i])
  BY <1>1, DisassembledLines, GoodDisassembled
<1> HIDE DEF n
<1>3. text \in [1..n -> Lines]
  BY <1>1, <1>2
<1>4. text \in Seq(Lines) /\ Len(text) = n /\ \A i \in 1..n : text[i] = Disassembled(words[i])
  BY <1>1, <1>3
<1> HIDE DEF text
<1>5. Counted(text, place)
  BY <1>1, <1>2, <1>4 DEF Counted
<1>6. place[n + 1] = n /\ \A k \in 1..n : place[k] = k - 1
  BY <1>1
<1> HIDE DEF place
<1>7. ASSUME NEW k \in 1..n
      PROVE  /\ ~IsLabel(text[k]) /\ place[k] + 1 \in 1..n
             /\ Good(Parsed(text[k]), place[k], map, words[place[k] + 1])
  <2>1. place[k] = k - 1 /\ (k - 1) + 1 = k
    BY <1>1, <1>6
  <2> QED
    BY <1>2, <1>4, <2>1
<1>8. Means(text, place, map, words, {})
  BY <1>4, <1>5, <1>6, <1>7 DEF Means, n
<1> QED
  BY <1>4, <1>8, Zenon DEF text

-----------------------------------------------------------------------------

WordsOf(block, map, address) ==
  [i \in DOMAIN block.code |-> Encode(Resolved(block.code[i], map, address + i - 1))]

\* What a block adds to the text and to the words.
LEMMA BlockText ==
  ASSUME NEW block \in BlockCode, NEW text \in Seq(Lines)
  PROVE  LET L == Len(text)  n == Len(block.code)  t == text \o BlockLines(block)
         IN  /\ n \in Nat /\ L \in Nat
             /\ t \in Seq(Lines) /\ Len(t) = L + 1 + n
             /\ \A k \in 1..L : t[k] = text[k]
             /\ t[L + 1] = LabelLine(block.name)
             /\ \A k \in (L + 2)..(L + 1 + n) :
                  /\ k - (L + 1) \in 1..n
                  /\ t[k] = Printed(block.code[k - (L + 1)])
<1> DEFINE L == Len(text)  n == Len(block.code)
           head == <<LabelLine(block.name)>>
           tail == [i \in DOMAIN block.code |-> Printed(block.code[i])]
           t == text \o BlockLines(block)
<1>1. block.code \in Seq(Instructions) /\ block.name \in Names
  BY DEF BlockCode
<1>2. n \in Nat /\ DOMAIN block.code = 1..n /\ \A i \in 1..n : block.code[i] \in Instructions
  BY <1>1, LenProperties, ElementOfSeq
<1>3. tail \in [1..n -> Lines]
  BY <1>2, PrintedLines
<1>4. /\ tail \in Seq(Lines) /\ Len(tail) = n
      /\ \A i \in 1..n : tail[i] = Printed(block.code[i])
  <2> HIDE DEF n
  <2> QED BY <1>2, <1>3
<1>5. head \in Seq(Lines) /\ Len(head) = 1 /\ head[1] = LabelLine(block.name)
  BY <1>1, LabelLines
<1>6. BlockLines(block) = head \o tail
  BY Zenon DEF BlockLines
<1> HIDE DEF head, tail, n
<1>7. /\ head \o tail \in Seq(Lines) /\ Len(head \o tail) = 1 + n
      /\ (head \o tail)[1] = LabelLine(block.name)
      /\ \A i \in 2..(1 + n) : (head \o tail)[i] = tail[i - 1]
  <2> DEFINE ht == head \o tail
  <2>1. /\ ht \in Seq(Lines) /\ Len(ht) = Len(head) + Len(tail)
        /\ \A i \in 1..(Len(head) + Len(tail)) :
             ht[i] = IF i <= Len(head) THEN head[i] ELSE tail[i - Len(head)]
    BY <1>4, <1>5, ConcatProperties, Zenon
  <2> HIDE DEF ht
  <2>2. /\ ht \in Seq(Lines) /\ Len(ht) = 1 + n /\ ht[1] = LabelLine(block.name)
        /\ \A i \in 2..(1 + n) : ht[i] = tail[i - 1]
    BY <1>2, <1>4, <1>5, <2>1
  <2> QED
    BY <2>2, Zenon DEF ht
<1> DEFINE b == BlockLines(block)
<1>8. /\ b \in Seq(Lines) /\ Len(b) = 1 + n /\ b[1] = LabelLine(block.name)
      /\ \A i \in 2..(1 + n) : b[i] = Printed(block.code[i - 1])
  BY <1>2, <1>4, <1>6, <1>7
<1> HIDE DEF b
<1>9. L \in Nat /\ t = text \o b
  BY LenProperties DEF b
<1>10. /\ t \in Seq(Lines) /\ Len(t) = L + (1 + n)
       /\ \A i \in 1..(L + (1 + n)) : t[i] = IF i <= L THEN text[i] ELSE b[i - L]
  <2>1. /\ t \in Seq(Lines) /\ Len(t) = Len(text) + Len(b)
        /\ \A i \in 1..(Len(text) + Len(b)) :
             t[i] = IF i <= Len(text) THEN text[i] ELSE b[i - Len(text)]
    <3>1. b \in Seq(Lines)
      BY <1>8, Zenon
    <3> DEFINE tb == text \o b
    <3>2. /\ tb \in Seq(Lines) /\ Len(tb) = Len(text) + Len(b)
          /\ \A i \in 1..(Len(text) + Len(b)) :
             tb[i] = IF i <= Len(text) THEN text[i] ELSE b[i - Len(text)]
      BY <3>1, ConcatProperties, Zenon
    <3>3. t = tb
      BY <1>9, Zenon
    <3> HIDE DEF t, tb
    <3> QED
      BY <3>2, <3>3
  <2> QED
    BY <1>8, <2>1, Zenon
<1> HIDE DEF t
<1>11. \A k \in 1..L : t[k] = text[k]
  BY <1>2, <1>9, <1>10
<1>12. t[L + 1] = LabelLine(block.name)
  BY <1>2, <1>8, <1>9, <1>10
<1>13. ASSUME NEW k \in (L + 2)..(L + 1 + n)
       PROVE  k - (L + 1) \in 1..n /\ t[k] = Printed(block.code[k - (L + 1)])
  <2>1. k \in 1..(L + (1 + n)) /\ ~(k <= L) /\ k - L \in 2..(1 + n) /\ (k - L) - 1 = k - (L + 1)
        /\ k - (L + 1) \in 1..n
    BY <1>2, <1>9
  <2> QED
    BY <1>8, <1>10, <2>1
<1>14. Len(t) = L + 1 + n
  BY <1>2, <1>9, <1>10
<1> QED
  BY <1>2, <1>9, <1>10, <1>11, <1>12, <1>13, <1>14, Zenon DEF n, t

\* What a block adds to the words.
LEMMA BlockOfWords ==
  ASSUME NEW block \in BlockCode, NEW words \in Seq(CompilerWords),
         NEW map, \A m \in DOMAIN map : map[m] \in Int
  PROVE  LET w == Len(words)  n == Len(block.code)  ws == words \o WordsOf(block, map, w)
         IN  /\ n \in Nat /\ w \in Nat
             /\ ws \in Seq(CompilerWords) /\ Len(ws) = w + n
             /\ \A k \in 1..w : ws[k] = words[k]
             /\ \A i \in 1..n :
                  ws[w + i] = Encode(Resolved(block.code[i], map, w + i - 1))
<1> DEFINE w == Len(words)  n == Len(block.code)  new == WordsOf(block, map, w)
           ws == words \o new
<1>1. w \in Nat /\ block.code \in Seq(Instructions)
  BY LenProperties DEF BlockCode
<1>2. n \in Nat /\ DOMAIN block.code = 1..n /\ \A i \in 1..n : block.code[i] \in Instructions
  BY <1>1, LenProperties, ElementOfSeq
<1> HIDE DEF w, n
<1>3. \A i \in 1..n : Encode(Resolved(block.code[i], map, w + i - 1)) \in CompilerWords
  <2> TAKE i \in 1..n
  <2>1. w + i - 1 \in Int /\ block.code[i] \in AnyInstruction
    BY <1>1, <1>2, InstructionIsAny
  <2> DEFINE m == Resolved(block.code[i], map, w + i - 1)
  <2>2. m \in AnyInstruction
    BY <2>1, ResolvedIsAny
  <2> HIDE DEF m
  <2>3. Encode(m) \in CompilerWords
    BY <2>2, Zenon DEF CompilerWords
  <2> QED
    BY <2>3 DEF m
<1>4. new = [i \in 1..n |-> Encode(Resolved(block.code[i], map, w + i - 1))]
  BY <1>2, Zenon DEF WordsOf
<1>5. new \in [1..n -> CompilerWords]
  BY <1>3, <1>4
<1>6. new \in Seq(CompilerWords) /\ Len(new) = n
  BY <1>2, <1>5
<1>7. \A i \in 1..n : new[i] = Encode(Resolved(block.code[i], map, w + i - 1))
  BY <1>4
<1> HIDE DEF new
<1>8. /\ ws \in Seq(CompilerWords) /\ Len(ws) = w + n
      /\ \A i \in 1..(w + n) : ws[i] = IF i <= w THEN words[i] ELSE new[i - w]
  BY <1>6, ConcatProperties DEF w
<1> HIDE DEF ws
<1>9. \A k \in 1..w : ws[k] = words[k]
  BY <1>1, <1>2, <1>8
<1>10. ASSUME NEW i \in 1..n
       PROVE  ws[w + i] = new[i]
  <2>1. w + i \in 1..(w + n) /\ ~(w + i <= w) /\ (w + i) - w = i
    BY <1>1, <1>2
  <2> QED
    BY <1>8, <2>1
<1> QED
  BY <1>1, <1>2, <1>7, <1>8, <1>9, <1>10 DEF w, n, ws, new

\* If the text means the words, it still does with one more block of both; a
\* name may from now on wait for its later blocks no longer.
LEMMA BlockMeans ==
  ASSUME NEW block \in BlockCode, NEW text \in Seq(Lines), NEW words \in Seq(CompilerWords),
         NEW place, NEW map, DOMAIN map \subseteq Names, \A m \in DOMAIN map : map[m] \in Int,
         NEW later, NEW later2, later \subseteq later2 \cup {block.name},
         Means(text, place, map, words, later), block.name \in DOMAIN map,
         map[block.name] = Len(words) \/ block.name \in later2
  PROVE  \E place2 : Means(text \o BlockLines(block), place2, map,
                           words \o WordsOf(block, map, Len(words)), later2)
<1> DEFINE L == Len(text)  n == Len(block.code)  w == Len(words)
           t == text \o BlockLines(block)
           ws == words \o WordsOf(block, map, w)
           place2 == [k \in 1..(L + 1 + n + 1) |-> IF k <= L + 1 THEN place[k] ELSE w + k - (L + 2)]
<1>1. /\ n \in Nat /\ L \in Nat /\ t \in Seq(Lines) /\ Len(t) = L + 1 + n
      /\ \A k \in 1..L : t[k] = text[k]
      /\ t[L + 1] = LabelLine(block.name)
      /\ \A k \in (L + 2)..(L + 1 + n) :
           k - (L + 1) \in 1..n /\ t[k] = Printed(block.code[k - (L + 1)])
  BY BlockText, ZenonT(30)
<1>2. /\ w \in Nat /\ Len(ws) = w + n
      /\ \A k \in 1..w : ws[k] = words[k]
      /\ \A i \in 1..n : ws[w + i] = Encode(Resolved(block.code[i], map, w + i - 1))
  BY BlockOfWords, ZenonT(30)
<1>3. /\ block.name \in Names
      /\ \A i \in 1..n : block.code[i] \in Instructions
  BY ElementOfSeq DEF BlockCode
<1>4. Counted(text, place) /\ place[L + 1] = w
  BY Zenon DEF Means
<1>5. IsLabel(t[L + 1]) /\ t[L + 1].name = block.name
  BY <1>1, <1>3, LabelLines
<1>6. \A k \in 1..L :
        IF IsLabel(text[k]) THEN LabelKept(text, place, map, later, k)
        ELSE /\ place[k] + 1 \in 1..w
             /\ Good(Parsed(text[k]), place[k], map, words[place[k] + 1])
  BY Zenon DEF Means
<1> HIDE DEF L, n, w, t, ws
<1>0. L \in Nat /\ n \in Nat /\ w \in Nat
  BY <1>1, <1>2, Zenon
<1>7. /\ place \in [1..(L + 1) -> Nat] /\ place[1] = 0
      /\ \A k \in 1..L : place[k + 1] = IF IsLabel(text[k]) THEN place[k] ELSE place[k] + 1
  BY <1>4, Zenon DEF Counted, L
<1>8. /\ place2 \in [1..(L + 1 + n + 1) -> Nat]
      /\ \A k \in 1..(L + 1) : place2[k] = place[k]
      /\ \A k \in (L + 2)..(L + 1 + n + 1) : place2[k] = w + k - (L + 2)
  BY <1>1, <1>2, <1>7
<1> HIDE DEF place2
<1>9. ASSUME NEW k \in (L + 2)..(L + 1 + n)
      PROVE  /\ ~IsLabel(t[k])
             /\ place2[k] + 1 \in 1..(w + n) /\ place2[k + 1] = place2[k] + 1
             /\ Good(Parsed(t[k]), place2[k], map, ws[place2[k] + 1])
  <2> DEFINE i == k - (L + 1)
  <2>1. i \in 1..n /\ t[k] = Printed(block.code[i])
    BY <1>1
  <2>2. /\ place2[k] = w + i - 1 /\ place2[k] + 1 = w + i /\ place2[k] + 1 \in 1..(w + n)
        /\ place2[k + 1] = place2[k] + 1 /\ w + i - 1 \in Int
    <3>1. k \in (L + 2)..(L + 1 + n + 1) /\ k + 1 \in (L + 2)..(L + 1 + n + 1)
      BY <1>0
    <3>2. place2[k] = w + k - (L + 2) /\ place2[k + 1] = w + (k + 1) - (L + 2)
      BY <1>8, <3>1, Zenon
    <3>3. /\ w + k - (L + 2) = w + i - 1 /\ w + (k + 1) - (L + 2) = w + i
          /\ (w + i - 1) + 1 = w + i /\ w + i \in 1..(w + n) /\ w + i - 1 \in Int
      BY <1>0
    <3> QED
      BY <3>2, <3>3, Zenon
  <2> HIDE DEF i
  <2> DEFINE mi == block.code[i]
  <2>3. mi \in Instructions /\ ws[w + i] = Encode(Resolved(mi, map, w + i - 1))
    BY <1>2, <1>3, <2>1, Zenon
  <2> HIDE DEF mi
  <2>4. ~IsLabel(Printed(mi))
    BY <2>3, PrintedLines, Zenon
  <2>5. Good(Parsed(Printed(mi)), w + i - 1, map, Encode(Resolved(mi, map, w + i - 1)))
    BY <2>2, <2>3, GoodPrinted, Zenon
  <2>6. Good(Parsed(t[k]), place2[k], map, ws[place2[k] + 1])
    BY <2>1, <2>2, <2>3, <2>5, Zenon DEF mi
  <2> QED
    BY <2>1, <2>2, <2>4, <2>6, Zenon DEF mi
<1>10. ASSUME NEW k \in 1..(L + 1 + n)
       PROVE  place2[k + 1] = IF IsLabel(t[k]) THEN place2[k] ELSE place2[k] + 1
  <2>1. CASE k \in 1..L
    <3>1. k \in 1..(L + 1) /\ k + 1 \in 1..(L + 1)
      BY <1>0, <2>1
    <3>2. place2[k] = place[k] /\ place2[k + 1] = place[k + 1] /\ t[k] = text[k]
      BY <1>1, <1>8, <2>1, <3>1, Zenon
    <3> QED
      BY <1>7, <2>1, <3>2, Zenon
  <2>2. CASE k = L + 1
    <3>1. place2[L + 1] = w
      <4>1. L + 1 \in 1..(L + 1)
        BY <1>0
      <4> QED
        BY <1>4, <1>8, <4>1, Zenon
    <3>2. place2[L + 2] = w
      <4>1. L + 2 \in (L + 2)..(L + 1 + n + 1) /\ w + (L + 2) - (L + 2) = w
        BY <1>0
      <4> QED
        BY <1>8, <4>1, Zenon
    <3>3. L + 1 + 1 = L + 2
      BY <1>0
    <3> QED
      BY <1>5, <2>2, <3>1, <3>2, <3>3, Zenon
  <2>3. CASE k \in (L + 2)..(L + 1 + n)
    BY <1>9, <2>3, Zenon
  <2> QED
    BY <1>0, <2>1, <2>2, <2>3
<1>11. place2[1] = 0
  <2>1. 1 \in 1..(L + 1)
    BY <1>0
  <2> QED
    BY <1>7, <1>8, <2>1, Zenon
<1>12. Counted(t, place2)
  <2>1. Len(t) + 1 = L + 1 + n + 1
    BY <1>1
  <2> QED
    BY <1>1, <1>8, <1>10, <1>11, <2>1, Zenon DEF Counted
<1>13. place2[Len(t) + 1] = Len(ws)
  <2>1. /\ L + 1 + n + 1 \in (L + 2)..(L + 1 + n + 1)
        /\ w + (L + 1 + n + 1) - (L + 2) = w + n
    BY <1>0
  <2> QED
    BY <1>1, <1>2, <1>8, <2>1, Zenon
<1>14. ASSUME NEW k \in 1..L, IsLabel(text[k])
       PROVE  LabelKept(t, place2, map, later2, k)
  <2>1. LabelKept(text, place, map, later, k)
    BY <1>6, <1>14
  <2>2. t[k] = text[k] /\ place2[k] = place[k]
    <3>1. k \in 1..(L + 1)
      BY <1>0
    <3> QED
      BY <1>1, <1>8, <3>1, Zenon
  <2>3. CASE text[k].name = block.name
    <3>1. L + 1 \in (k + 1)..(L + 1 + n)
      BY <1>1
    <3> QED
      BY <1>1, <1>5, <2>1, <2>2, <2>3, <3>1, Zenon DEF LabelKept
  <2>4. CASE map[text[k].name] = place[k]
    BY <2>1, <2>2, <2>4, Zenon DEF LabelKept
  <2>5. CASE text[k].name \in later /\ text[k].name # block.name
    BY <2>1, <2>2, <2>5 DEF LabelKept
  <2>6. ASSUME NEW j \in (k + 1)..L, IsLabel(text[j]), text[j].name = text[k].name
        PROVE  LabelKept(t, place2, map, later2, k)
    <3>1. j \in (k + 1)..(L + 1 + n) /\ j \in 1..L
      BY <1>1
    <3>2. t[j] = text[j]
      BY <1>1, <3>1
    <3> QED
      BY <1>1, <2>1, <2>2, <2>6, <3>1, <3>2, Zenon DEF LabelKept
  <2> QED
    BY <2>1, <2>3, <2>4, <2>5, <2>6, Zenon DEF LabelKept, L
<1>15. LabelKept(t, place2, map, later2, L + 1)
  <2>1. place2[L + 1] = w
    <3>1. L + 1 \in 1..(L + 1)
      BY <1>0
    <3> QED
      BY <1>4, <1>8, <3>1, Zenon
  <2> QED
    BY <1>5, <2>1, Zenon DEF LabelKept, w
<1>16. ASSUME NEW k \in 1..L, ~IsLabel(text[k])
       PROVE  /\ place2[k] + 1 \in 1..(w + n)
              /\ Good(Parsed(t[k]), place2[k], map, ws[place2[k] + 1])
  <2>1. /\ place[k] + 1 \in 1..w
        /\ Good(Parsed(text[k]), place[k], map, words[place[k] + 1])
    BY <1>6, <1>16
  <2>2. t[k] = text[k] /\ place2[k] = place[k]
    <3>1. k \in 1..(L + 1)
      BY <1>0
    <3> QED
      BY <1>1, <1>8, <3>1, Zenon
  <2>3. ws[place[k] + 1] = words[place[k] + 1] /\ place[k] + 1 \in 1..(w + n)
    <3>1. place[k] + 1 \in 1..(w + n)
      BY <1>0, <2>1
    <3> QED
      BY <1>2, <2>1, <3>1, Zenon
  <2> QED
    BY <2>1, <2>2, <2>3, Zenon
<1>17. ASSUME NEW k \in 1..Len(t)
       PROVE  IF IsLabel(t[k]) THEN LabelKept(t, place2, map, later2, k)
              ELSE /\ place2[k] + 1 \in 1..Len(ws)
                   /\ Good(Parsed(t[k]), place2[k], map, ws[place2[k] + 1])
  <2>1. k \in 1..L \/ k = L + 1 \/ k \in (L + 2)..(L + 1 + n)
    BY <1>1
  <2>2. CASE k \in 1..L
    <3>1. t[k] = text[k]
      BY <1>1, <2>2
    <3> QED
      BY <1>2, <1>14, <1>16, <2>2, <3>1, Zenon
  <2>3. CASE k = L + 1
    BY <1>5, <1>15, <2>3, Zenon
  <2>4. CASE k \in (L + 2)..(L + 1 + n)
    BY <1>2, <1>9, <2>4, Zenon
  <2> QED
    BY <2>1, <2>2, <2>3, <2>4
<1>18. Means(t, place2, map, ws, later2)
  BY <1>12, <1>13, <1>17, Zenon DEF Means
<1> QED
  BY <1>18, Zenon DEF t, ws, w

-----------------------------------------------------------------------------
\* start[b] is the address of block b, of the first n blocks.
LaidOut(start, blocks, n, map, end) ==
  /\ start \in [1..(n + 1) -> Nat]
  /\ start[1] = 0 /\ start[n + 1] = end
  /\ \A b \in 1..(n + 1) : start[b] <= end
  /\ \A b \in 1..n : start[b + 1] = start[b] + Len(blocks[b].code)
  /\ \A b \in 1..n : blocks[b].name \in DOMAIN map
  /\ \A b \in 1..n : \/ map[blocks[b].name] = start[b]
                     \/ \E c \in (b + 1)..n : blocks[c].name = blocks[b].name

\* Before the first block nothing is laid out.
LEMMA NothingLaidOut ==
  ASSUME NEW blocks, NEW map
  PROVE  \E start : LaidOut(start, blocks, 0, map, 0)
<1> DEFINE start == [k \in 1..1 |-> 0]
<1>1. LaidOut(start, blocks, 0, map, 0)
  BY DEF LaidOut
<1> QED
  BY <1>1, Zenon

\* The first pass of resolveBranchOffsets lays out one more block.
LEMMA OneMoreLaidOut ==
  ASSUME NEW start, NEW blocks \in Seq(BlockCode), NEW n \in 0..(Len(blocks) - 1), NEW map,
         NEW end \in Nat, LaidOut(start, blocks, n, map, end)
  PROVE  \E start2 : LaidOut(start2, blocks, n + 1, With(map, blocks[n + 1].name, end),
                             end + Len(blocks[n + 1].code))
<1> DEFINE size == Len(blocks[n + 1].code)
           new == With(map, blocks[n + 1].name, end)
           start2 == [b \in 1..(n + 2) |-> IF b <= n + 1 THEN start[b] ELSE end + size]
<1>1. size \in Nat /\ n \in Nat /\ Len(blocks) \in Nat
  <2>1. Len(blocks) \in Nat
    BY LenProperties
  <2>2. blocks[n + 1] \in BlockCode
    BY <2>1, ElementOfSeq
  <2> QED
    BY <2>1, <2>2, LenProperties DEF BlockCode
<1>2. /\ start \in [1..(n + 1) -> Nat]
      /\ start[1] = 0 /\ start[n + 1] = end
      /\ \A b \in 1..(n + 1) : start[b] <= end
      /\ \A b \in 1..n : start[b + 1] = start[b] + Len(blocks[b].code)
      /\ \A b \in 1..n : blocks[b].name \in DOMAIN map
      /\ \A b \in 1..n : \/ map[blocks[b].name] = start[b]
                         \/ \E c \in (b + 1)..n : blocks[c].name = blocks[b].name
  BY Zenon DEF LaidOut
<1> HIDE DEF size
<1>3. /\ start2 \in [1..(n + 2) -> Nat]
      /\ \A b \in 1..(n + 1) : start2[b] = start[b]
      /\ start2[n + 2] = end + size
  BY <1>1, <1>2
<1> HIDE DEF start2
<1>4. start2[1] = 0 /\ \A b \in 1..(n + 2) : start2[b] <= end + size
  <2>1. start2[1] = 0
    BY <1>1, <1>2, <1>3
  <2>2. ASSUME NEW b \in 1..(n + 2)
        PROVE  start2[b] <= end + size
    <3>1. CASE b \in 1..(n + 1)
      <4>1. start[b] \in Nat /\ start[b] <= end /\ start2[b] = start[b]
        BY <1>2, <1>3, <3>1
      <4> QED
        BY <1>1, <4>1
    <3>2. CASE b = n + 2
      BY <1>1, <1>3, <3>2
    <3> QED
      BY <1>1, <3>1, <3>2
  <2> QED
    BY <2>1, <2>2
<1>5. ASSUME NEW b \in 1..(n + 1)
      PROVE  start2[b + 1] = start2[b] + Len(blocks[b].code)
  <2>1. CASE b \in 1..n
    <3>1. b + 1 \in 1..(n + 1)
      BY <1>1, <2>1
    <3> QED
      BY <1>2, <1>3, <2>1, <3>1, Zenon
  <2>2. CASE b = n + 1
    BY <1>1, <1>2, <1>3, <2>2 DEF size
  <2> QED
    BY <1>1, <2>1, <2>2
<1>6. \A m : m \in DOMAIN map \/ m = blocks[n + 1].name =>
              new[m] = IF m = blocks[n + 1].name THEN end ELSE map[m]
  BY Zenon DEF With
<1>7. \A b \in 1..(n + 1) : blocks[b].name \in DOMAIN new
  <2>1. DOMAIN new = DOMAIN map \cup {blocks[n + 1].name}
    BY Zenon DEF With
  <2> QED
    BY <1>1, <1>2, <2>1
<1>8. ASSUME NEW b \in 1..(n + 1)
      PROVE  \/ new[blocks[b].name] = start2[b]
             \/ \E c \in (b + 1)..(n + 1) : blocks[c].name = blocks[b].name
  <2>1. CASE b = n + 1
    BY <1>1, <1>2, <1>3, <1>6, <2>1
  <2>2. CASE b \in 1..n /\ blocks[b].name = blocks[n + 1].name
    <3>1. n + 1 \in (b + 1)..(n + 1)
      BY <1>1, <2>2
    <3> QED
      BY <2>2, <3>1, Zenon
  <2>3. CASE b \in 1..n /\ blocks[b].name # blocks[n + 1].name
    <3>1. CASE map[blocks[b].name] = start[b] /\ blocks[b].name \in DOMAIN map
      BY <1>1, <1>3, <1>6, <2>3, <3>1
    <3>2. CASE \E c \in (b + 1)..n : blocks[c].name = blocks[b].name
      BY <1>1, <2>3, <3>2
    <3> QED
      BY <1>2, <2>3, <3>1, <3>2
  <2> QED
    BY <1>1, <2>1, <2>2, <2>3
<1>9. LaidOut(start2, blocks, n + 1, new, end + size)
  <2>1. n + 1 + 1 = n + 2
    BY <1>1
  <2> QED
    BY <1>3, <1>4, <1>5, <1>7, <1>8, <2>1, Zenon DEF LaidOut
<1> QED
  BY <1>9, Zenon DEF size, new

-----------------------------------------------------------------------------
\* The assembler after n lines: its labels are at their last lines, its
\* instructions give the words.
Assembling(text, place, map, words, n, labs, ins) ==
  /\ Len(ins) = place[n + 1]
  /\ \A i \in 1..Len(ins) : i \in 1..Len(words) /\ Good(ins[i], i - 1, map, words[i])
  /\ \A m \in DOMAIN labs : \E k \in 1..n :
       /\ IsLabel(text[k]) /\ text[k].name = m /\ labs[m] = place[k]
       /\ \A j \in (k + 1)..n : ~(IsLabel(text[j]) /\ text[j].name = m)

\* Pass 1 of the assembler on a line with a label ...
LEMMA LabelStep ==
  ASSUME NEW text \in Seq(Lines), NEW place, NEW map, NEW words, NEW later,
         NEW n \in 0..(Len(text) - 1), NEW labs, NEW ins,
         Means(text, place, map, words, later),
         Assembling(text, place, map, words, n, labs, ins), IsLabel(text[n + 1])
  PROVE  Assembling(text, place, map, words, n + 1,
                    With(labs, text[n + 1].name, Len(ins)), ins)
<1> DEFINE name == text[n + 1].name
           new  == With(labs, name, Len(ins))
<1>1. n \in Nat /\ n + 1 \in 1..Len(text)
  BY LenProperties
<1>2. Len(ins) = place[n + 1] /\ place[n + 1 + 1] = place[n + 1]
  BY <1>1, Zenon DEF Means, Counted, Assembling
<1>3. /\ DOMAIN new = DOMAIN labs \cup {name}
      /\ \A m \in DOMAIN new : new[m] = IF m = name THEN Len(ins) ELSE labs[m]
  BY Zenon DEF With
<1>4. \A m \in DOMAIN labs : \E k \in 1..n :
        /\ IsLabel(text[k]) /\ text[k].name = m /\ labs[m] = place[k]
        /\ \A j \in (k + 1)..n : ~(IsLabel(text[j]) /\ text[j].name = m)
  BY Zenon DEF Assembling
<1> HIDE DEF new, name
<1>5. ASSUME NEW m \in DOMAIN new
      PROVE  \E k \in 1..(n + 1) :
        /\ IsLabel(text[k]) /\ text[k].name = m /\ new[m] = place[k]
        /\ \A j \in (k + 1)..(n + 1) : ~(IsLabel(text[j]) /\ text[j].name = m)
  <2>1. CASE m = name
    <3>1. n + 1 \in 1..(n + 1) /\ \A j \in (n + 1 + 1)..(n + 1) : FALSE
      BY <1>1
    <3> QED
      BY <1>2, <1>3, <2>1, <3>1, Zenon DEF name
  <2>2. CASE m # name
    <3>1. PICK k \in 1..n :
            /\ IsLabel(text[k]) /\ text[k].name = m /\ labs[m] = place[k]
            /\ \A j \in (k + 1)..n : ~(IsLabel(text[j]) /\ text[j].name = m)
      BY <1>3, <1>4, <2>2
    <3>2. k \in 1..(n + 1) /\ \A j \in (k + 1)..(n + 1) : j \in (k + 1)..n \/ j = n + 1
      BY <1>1
    <3>3. text[n + 1].name # m
      BY <2>2 DEF name
    <3> QED
      BY <1>3, <2>2, <3>1, <3>2, <3>3, Zenon
  <2> QED
    BY <2>1, <2>2
<1>6. \A i \in 1..Len(ins) : i \in 1..Len(words) /\ Good(ins[i], i - 1, map, words[i])
  BY Zenon DEF Assembling
<1> QED
  BY <1>2, <1>5, <1>6, Zenon DEF Assembling, new, name

\* ... and on a line with an instruction.
LEMMA InstructionStep ==
  ASSUME NEW text \in Seq(Lines), NEW place, NEW map, NEW words, NEW later,
         NEW n \in 0..(Len(text) - 1), NEW labs, NEW S, NEW ins \in Seq(S), NEW q \in S,
         Means(text, place, map, words, later),
         Assembling(text, place, map, words, n, labs, ins),
         ~IsLabel(text[n + 1]), q = Parsed(text[n + 1])
  PROVE  Assembling(text, place, map, words, n + 1, labs, Append(ins, q))
<1> DEFINE new == Append(ins, q)
<1>1. n \in Nat /\ n + 1 \in 1..Len(text) /\ Len(ins) \in Nat
  BY LenProperties
<1>2. /\ Len(new) = Len(ins) + 1 /\ new[Len(ins) + 1] = q
      /\ \A i \in 1..Len(ins) : new[i] = ins[i]
  BY AppendProperties
<1> HIDE DEF new
<1>3. /\ Len(ins) = place[n + 1] /\ place[n + 1 + 1] = place[n + 1] + 1
      /\ place[n + 1] + 1 \in 1..Len(words)
      /\ Good(Parsed(text[n + 1]), place[n + 1], map, words[place[n + 1] + 1])
  BY <1>1, Zenon DEF Means, Counted, Assembling
<1>4. \A i \in 1..Len(ins) : i \in 1..Len(words) /\ Good(ins[i], i - 1, map, words[i])
  BY Zenon DEF Assembling
<1>5. ASSUME NEW i \in 1..Len(new)
      PROVE  i \in 1..Len(words) /\ Good(new[i], i - 1, map, words[i])
  <2>0. i \in 1..Len(ins) \/ i = Len(ins) + 1
    BY <1>1, <1>2
  <2>1. CASE i \in 1..Len(ins)
    BY <1>2, <1>4, <2>1, Zenon
  <2>2. CASE i = Len(ins) + 1
    <3>1. i - 1 = place[n + 1] /\ i = place[n + 1] + 1
      BY <1>1, <1>3, <2>2
    <3> QED
      BY <1>2, <1>3, <2>2, <3>1, Zenon
  <2> QED
    BY <2>0, <2>1, <2>2, Zenon
<1>6. ASSUME NEW m \in DOMAIN labs
      PROVE  \E k \in 1..(n + 1) :
        /\ IsLabel(text[k]) /\ text[k].name = m /\ labs[m] = place[k]
        /\ \A j \in (k + 1)..(n + 1) : ~(IsLabel(text[j]) /\ text[j].name = m)
  <2>1. PICK k \in 1..n :
          /\ IsLabel(text[k]) /\ text[k].name = m /\ labs[m] = place[k]
          /\ \A j \in (k + 1)..n : ~(IsLabel(text[j]) /\ text[j].name = m)
    BY Zenon DEF Assembling
  <2>2. k \in 1..(n + 1) /\ \A j \in (k + 1)..(n + 1) : j \in (k + 1)..n \/ j = n + 1
    BY <1>1
  <2> QED
    BY <2>1, <2>2, Zenon
<1>7. Len(new) = place[n + 1 + 1]
  BY <1>2, <1>3, Zenon
<1> QED
  BY <1>5, <1>6, <1>7, Zenon DEF Assembling, new

\* Pass 2, with the labels of the whole text, makes the words the text means:
\* the last label of a name is the block the compiler wrote down for it.
LEMMA LinkStep ==
  ASSUME NEW text \in Seq(Lines), NEW place, NEW map, DOMAIN map \subseteq Names, NEW words,
         NEW labs, NEW ins, NEW i \in 1..Len(ins),
         Means(text, place, map, words, {}),
         Assembling(text, place, map, words, Len(text), labs, ins),
         ~(ins[i].op \in Jumps /\ ins[i].labelTarget # NoLabel
             /\ ins[i].labelTarget \notin DOMAIN labs)
  PROVE  Encode(Resolved(ins[i], labs, i - 1)) = words[i]
<1>1. ASSUME NEW m \in DOMAIN labs
      PROVE  m \in DOMAIN map /\ labs[m] = map[m]
  <2>1. PICK k \in 1..Len(text) :
          /\ IsLabel(text[k]) /\ text[k].name = m /\ labs[m] = place[k]
          /\ \A j \in (k + 1)..Len(text) : ~(IsLabel(text[j]) /\ text[j].name = m)
    BY Zenon DEF Assembling
  <2>2. LabelKept(text, place, map, {}, k)
    BY <2>1, Zenon DEF Means
  <2> QED
    BY <2>1, <2>2, Zenon DEF LabelKept
<1>2. NoLabel \notin DOMAIN map /\ NoLabel \notin DOMAIN labs
  BY <1>1, NamesAssumption, Zenon
<1> DEFINE q == ins[i]
<1>3. Good(q, i - 1, map, words[i])
  BY Zenon DEF Assembling
<1> HIDE DEF q
<1>4. ~(q.op \in Jumps /\ q.labelTarget # NoLabel /\ q.labelTarget \notin DOMAIN labs)
  BY Zenon DEF q
<1>5. CASE q.op \notin Jumps
  BY <1>3, <1>5, Zenon DEF Good, Resolved, q
<1>6. CASE q.labelTarget = NoLabel
  BY <1>2, <1>3, <1>6, Zenon DEF Good, Resolved, q
<1>7. CASE q.op \in Jumps /\ q.labelTarget \in DOMAIN labs
  <2>1. q.labelTarget \in DOMAIN map /\ labs[q.labelTarget] = map[q.labelTarget]
    BY <1>1, <1>7
  <2>2. Resolved(q, labs, i - 1) = Resolved(q, map, i - 1)
    BY <1>7, <2>1, Zenon DEF Resolved
  <2> QED
    BY <1>3, <2>1, <2>2, Zenon DEF Good, q
<1> QED
  BY <1>4, <1>5, <1>6, <1>7

-----------------------------------------------------------------------------
(* The inductive invariant.                                                *)

ParsedLines == {Parsed(l) : l \in Lines}

Compiling == stage \in {"select", "layout"}

Shape ==
  /\ kernel \in Kernels
  /\ hex \in Seq(CompilerWords) /\ listing \in Seq(Lines) /\ source \in Seq(Lines)
  /\ instructions \in Seq(ParsedLines)
  /\ lineNum \in 0..Len(source)
  /\ stage = "select" => recorded = 0
  /\ recorded = 0 => pc = 0
  /\ recorded < Len(basicBlocks) => emitted = 0
  /\ emitted = 0 => listing = <<>> /\ hex = <<>>
  /\ Compiling => lineNum = 0 /\ labels = NoMap /\ instructions = <<>> /\ machineCode = <<>>
  /\ ~Compiling => emitted = Len(basicBlocks)

Layout ==
  \E start : /\ LaidOut(start, basicBlocks, recorded, blockToPC, pc)
             /\ start[emitted + 1] = Len(hex)

LaterNames == {basicBlocks[b].name : b \in (emitted + 1)..Len(basicBlocks)}

Text == \E place : Means(listing, place, blockToPC, hex, LaterNames)

Source ==
  ~Compiling =>
    \E place : /\ Means(source, place, blockToPC, hex, {})
               /\ Assembling(source, place, blockToPC, hex, lineNum, labels, instructions)

Linked ==
  /\ \A i \in 1..Len(machineCode) : machineCode[i] = hex[i]
  /\ stage = "assembled" => machineCode = hex

Inv == TypeOK /\ Shape /\ Layout /\ Text /\ Source /\ Linked

\* The emitter maps names of blocks to addresses.
LEMMA MapOK ==
  ASSUME TypeOK
  PROVE  /\ DOMAIN blockToPC \subseteq Names
         /\ \A m \in DOMAIN blockToPC : blockToPC[m] \in Int
<1>1. /\ basicBlocks \in Seq(BlockCode) /\ recorded \in 0..Len(basicBlocks)
      /\ DOMAIN blockToPC = {basicBlocks[b].name : b \in 1..recorded}
      /\ \A m \in DOMAIN blockToPC : blockToPC[m] \in 0..pc
  BY DEF TypeOK
<1>2. \A b \in 1..recorded : b \in 1..Len(basicBlocks)
  BY <1>1, LenProperties
<1>3. \A b \in 1..recorded : basicBlocks[b] \in BlockCode
  BY <1>1, <1>2, ElementOfSeq
<1> QED
  BY <1>1, <1>3 DEF BlockCode

\* Nothing has been done yet.
LEMMA InitInv == Init => Inv
<1> SUFFICES ASSUME Init PROVE Inv
  OBVIOUS
<1> USE DEF Init
<1>1. kernel \in Seq(Seq(BlockCode)) /\ Len(kernel) \in Nat
  BY KernelsAssumption, LenProperties
<1>2. DOMAIN NoMap = {}
  BY DEF NoMap
<1>3. TypeOK
  BY <1>1, <1>2 DEF TypeOK
<1>4. Shape
  BY DEF Shape, Compiling
<1>5. Layout
  <2>1. PICK start : LaidOut(start, basicBlocks, 0, blockToPC, 0)
    BY NothingLaidOut, Zenon
  <2>2. start[1] = 0
    BY <2>1, Zenon DEF LaidOut
  <2>3. recorded = 0 /\ emitted = 0 /\ pc = 0 /\ Len(hex) = 0 /\ emitted + 1 = 1
    OBVIOUS
  <2> QED
    BY <2>1, <2>2, <2>3, Zenon DEF Layout
<1>6. Text
  BY NothingMeansNothing, Zenon DEF Text
<1>7. Source
  BY DEF Source, Compiling
<1>8. Linked
  BY DEF Linked
<1> QED
  BY <1>3, <1>4, <1>5, <1>6, <1>7, <1>8 DEF Inv

\* Selection makes instructions of instructions ...
LEMMA SelectedOK ==
  ASSUME NEW mi \in Instructions
  PROVE  Selected(mi) \in Instructions
<1>1. CASE mi.op # "SSY"
  BY <1>1 DEF Selected
<1>2. CASE mi.op = "SSY" /\ mi.labelTarget \in DOMAIN SpellS2r
  <2>1. PICK r \in SysRegs : r = SpellS2r[mi.labelTarget]
    BY <1>2, NamesAssumption
  <2>2. Selected(mi) = MachineInstruction("S2R", mi.rd, 0, 0, r, ALWAYS, NoLabel)
    BY <1>2, <2>1 DEF Selected
  <2>3. mi.rd \in 0..31
    BY DEF Instructions
  <2> QED
    BY <2>2, <2>3 DEF Instructions, MachineInstruction, Opcodes, ThreeRegister, Jumps, Bare,
                      ALWAYS, SysRegs
<1>3. CASE mi.op = "SSY" /\ mi.labelTarget \in SpellSync \ DOMAIN SpellS2r
  BY <1>3 DEF Selected, Instructions, MachineInstruction, Opcodes, ThreeRegister, Jumps, Bare,
              ALWAYS
<1>4. CASE mi.op = "SSY" /\ mi.labelTarget \notin SpellSync \cup DOMAIN SpellS2r
  <2>1. mi.labelTarget \in Names
    BY <1>4 DEF Instructions, Jumps
  <2>2. LowerCase[mi.labelTarget] \in Names /\ LowerCase[mi.labelTarget] # NoLabel
    BY <2>1, NamesAssumption
  <2> QED
    BY <1>4, <2>2 DEF Selected, Instructions, MachineInstruction, Opcodes, Jumps, ALWAYS
<1> QED
  BY <1>1, <1>2, <1>3, <1>4

\* ... and blocks of blocks.
LEMMA FunctionSelected ==
  ASSUME NEW f \in Seq(BlockCode)
  PROVE  [b \in DOMAIN f |-> SelectedBlock(f[b])] \in Seq(BlockCode)
<1> DEFINE n == Len(f)
<1>1. n \in Nat /\ DOMAIN f = 1..n
  BY LenProperties
<1>2. ASSUME NEW b \in 1..n
      PROVE  SelectedBlock(f[b]) \in BlockCode
  <2>1. f[b] \in BlockCode
    BY <1>2, ElementOfSeq
  <2> DEFINE code == f[b].code  m == Len(code)
             new == [i \in DOMAIN code |-> Selected(code[i])]
  <2>2. code \in Seq(Instructions) /\ f[b].name \in Names
    BY <2>1 DEF BlockCode
  <2>3. m \in Nat /\ DOMAIN code = 1..m /\ \A i \in 1..m : code[i] \in Instructions
    BY <2>2, LenProperties, ElementOfSeq
  <2> HIDE DEF m, code
  <2>4. \A i \in 1..m : Selected(code[i]) \in Instructions
    BY <2>3, SelectedOK, Zenon
  <2>5. new \in [1..m -> Instructions]
    BY <2>3, <2>4
  <2>6. new \in Seq(Instructions)
    BY <2>3, <2>5
  <2>7. SelectedBlock(f[b]) = [name |-> f[b].name, code |-> new]
    BY Zenon DEF SelectedBlock, code
  <2> HIDE DEF new
  <2> QED
    BY <2>2, <2>6, <2>7 DEF BlockCode
<1> HIDE DEF n
<1>3. [b \in DOMAIN f |-> SelectedBlock(f[b])] \in [1..n -> BlockCode]
  BY <1>1, <1>2
<1> QED
  BY <1>1, <1>3

\* One lemma for each action: it keeps the invariant.
LEMMA SelectFunctionStep == Inv /\ SelectFunction => Inv'
<1> SUFFICES ASSUME Inv, SelectFunction PROVE Inv'
  OBVIOUS
<1>1. TypeOK /\ Shape /\ Linked
  BY DEF Inv
<1>2. /\ stage = "select" /\ selected < Len(kernel) /\ selected' = selected + 1
      /\ basicBlocks' = basicBlocks \o
           [b \in DOMAIN kernel[selected + 1] |-> SelectedBlock(kernel[selected + 1][b])]
      /\ kernel' = kernel /\ stage' = stage
      /\ blockToPC' = blockToPC /\ pc' = pc /\ recorded' = recorded
      /\ emitted' = emitted /\ hex' = hex /\ listing' = listing
      /\ source' = source /\ lineNum' = lineNum /\ labels' = labels
      /\ instructions' = instructions /\ machineCode' = machineCode
  BY DEF SelectFunction, layoutVars, emitVars, asmVars
<1>3. /\ recorded = 0 /\ emitted = 0 /\ pc = 0 /\ listing = <<>> /\ hex = <<>>
      /\ machineCode = <<>> /\ instructions = <<>>
      /\ lineNum = 0 /\ labels = NoMap
  BY <1>1, <1>2 DEF Shape, TypeOK, Compiling
<1>4. basicBlocks' \in Seq(BlockCode) /\ selected' \in 0..Len(kernel)
  <2>1. /\ kernel \in Seq(Seq(BlockCode)) /\ selected \in 0..Len(kernel)
        /\ basicBlocks \in Seq(BlockCode)
    BY <1>1, KernelsAssumption DEF Shape, TypeOK
  <2>2. Len(kernel) \in Nat
    BY <2>1, LenProperties
  <2>3. kernel[selected + 1] \in Seq(BlockCode)
    BY <1>2, <2>1, <2>2, ElementOfSeq
  <2>4. [b \in DOMAIN kernel[selected + 1] |-> SelectedBlock(kernel[selected + 1][b])]
           \in Seq(BlockCode)
    BY <2>3, FunctionSelected, Zenon
  <2>5. basicBlocks' \in Seq(BlockCode)
    BY <1>2, <2>1, <2>4, ConcatProperties, Zenon
  <2> QED
    BY <1>2, <2>1, <2>2, <2>5
<1>5. Len(basicBlocks') \in Nat
  BY <1>4, LenProperties
<1>6. TypeOK'
  BY <1>1, <1>2, <1>3, <1>4, <1>5 DEF TypeOK
<1>7. Shape'
  BY <1>1, <1>2, <1>3, <1>5 DEF Shape, Compiling
<1>8. Layout'
  <2>1. PICK start : LaidOut(start, basicBlocks', 0, blockToPC', 0)
    BY NothingLaidOut, Zenon
  <2>2. start[1] = 0
    BY <2>1, Zenon DEF LaidOut
  <2>3. recorded' = 0 /\ emitted' = 0 /\ pc' = 0 /\ Len(hex') = 0 /\ emitted' + 1 = 1
    BY <1>2, <1>3
  <2> QED
    BY <2>1, <2>2, <2>3, Zenon DEF Layout
<1>9. Text'
  BY <1>2, <1>3, NothingMeansNothing, Zenon DEF Text
<1>10. Source'
  BY <1>2 DEF Source, Compiling
<1>11. Linked'
  BY <1>2, <1>3 DEF Linked
<1> QED
  BY <1>6, <1>7, <1>8, <1>9, <1>10, <1>11 DEF Inv

\* Nothing the invariant is about changes but the stage.
LEMMA StartEmitterStep == Inv /\ StartEmitter => Inv'
<1> SUFFICES ASSUME Inv, StartEmitter PROVE Inv'
  OBVIOUS
<1>1. TypeOK /\ Shape /\ Layout /\ Text /\ Source /\ Linked
  BY DEF Inv
<1>2. stage = "select" /\ stage' = "layout"
  BY DEF StartEmitter
<1>3. /\ kernel' = kernel /\ selected' = selected /\ basicBlocks' = basicBlocks
      /\ blockToPC' = blockToPC /\ pc' = pc /\ recorded' = recorded
      /\ emitted' = emitted /\ hex' = hex /\ listing' = listing
      /\ source' = source /\ lineNum' = lineNum /\ labels' = labels
      /\ instructions' = instructions /\ machineCode' = machineCode
  BY DEF StartEmitter, layoutVars, emitVars, asmVars
<1>4. TypeOK'
  BY <1>1, <1>2, <1>3 DEF TypeOK
<1>5. Shape'
  BY <1>1, <1>2, <1>3 DEF Shape, Compiling
<1>6. Layout'
  BY <1>1, <1>3, Zenon DEF Layout
<1>7. Text'
  <2>1. LaterNames' = LaterNames
    BY <1>3, Zenon DEF LaterNames
  <2> QED
    BY <1>1, <1>3, <2>1, Zenon DEF Text
<1>8. Source'
  BY <1>2 DEF Source, Compiling
<1>9. Linked'
  BY <1>1, <1>2, <1>3 DEF Linked
<1> QED
  BY <1>4, <1>5, <1>6, <1>7, <1>8, <1>9 DEF Inv

\* One more block is laid out; nothing has been written yet.
LEMMA RecordBlockStep == Inv /\ RecordBlock => Inv'
<1> SUFFICES ASSUME Inv, RecordBlock PROVE Inv'
  OBVIOUS
<1> DEFINE name == basicBlocks[recorded + 1].name
           size == Len(basicBlocks[recorded + 1].code)
<1>1. TypeOK /\ Shape /\ Layout /\ Linked
  BY DEF Inv
<1>2. /\ stage = "layout" /\ recorded < Len(basicBlocks)
      /\ blockToPC' = With(blockToPC, name, pc) /\ pc' = pc + size
      /\ recorded' = recorded + 1
      /\ kernel' = kernel /\ stage' = stage /\ selected' = selected
      /\ basicBlocks' = basicBlocks
      /\ emitted' = emitted /\ hex' = hex /\ listing' = listing
      /\ source' = source /\ lineNum' = lineNum /\ labels' = labels
      /\ instructions' = instructions /\ machineCode' = machineCode
  BY DEF RecordBlock, emitVars, asmVars
<1>3. /\ emitted = 0 /\ listing = <<>> /\ hex = <<>> /\ machineCode = <<>>
      /\ instructions = <<>> /\ lineNum = 0 /\ labels = NoMap
  BY <1>1, <1>2 DEF Shape, Compiling
<1>4. /\ basicBlocks \in Seq(BlockCode) /\ Len(basicBlocks) \in Nat
      /\ recorded \in 0..(Len(basicBlocks) - 1) /\ pc \in Nat
  BY <1>1, <1>2, LenProperties DEF TypeOK
<1>5. size \in Nat
  <2>1. basicBlocks[recorded + 1] \in BlockCode
    BY <1>4, ElementOfSeq
  <2> QED
    BY <2>1, LenProperties DEF BlockCode
<1>6. /\ DOMAIN blockToPC' = {basicBlocks[b].name : b \in 1..(recorded + 1)}
      /\ \A m \in DOMAIN blockToPC' : blockToPC'[m] \in 0..(pc + size)
  <2>1. /\ DOMAIN blockToPC' = DOMAIN blockToPC \cup {name}
        /\ \A m \in DOMAIN blockToPC' : blockToPC'[m] = IF m = name THEN pc ELSE blockToPC[m]
    BY <1>2, Zenon DEF With
  <2>2. /\ DOMAIN blockToPC = {basicBlocks[b].name : b \in 1..recorded}
        /\ \A m \in DOMAIN blockToPC : blockToPC[m] \in 0..pc
    BY <1>1 DEF TypeOK
  <2>3. 1..(recorded + 1) = 1..recorded \cup {recorded + 1}
    BY <1>4
  <2>4. DOMAIN blockToPC' = {basicBlocks[b].name : b \in 1..(recorded + 1)}
    BY <2>1, <2>2, <2>3
  <2>5. \A m \in DOMAIN blockToPC' : blockToPC'[m] \in 0..(pc + size)
    <3> HIDE DEF size, name
    <3> QED
      BY <1>4, <1>5, <2>1, <2>2
  <2> QED
    BY <2>4, <2>5
<1>7. Layout'
  <2>1. PICK start : LaidOut(start, basicBlocks, recorded, blockToPC, pc)
    BY <1>1, Zenon DEF Layout
  <2>2. PICK start2 : LaidOut(start2, basicBlocks, recorded + 1, With(blockToPC, name, pc),
                              pc + size)
    BY <1>4, <2>1, OneMoreLaidOut, Zenon
  <2>3. start2[1] = 0
    BY <2>2, Zenon DEF LaidOut
  <2>4. emitted' + 1 = 1 /\ Len(hex') = 0
    BY <1>2, <1>3
  <2> HIDE DEF size, name
  <2> QED
    BY <1>2, <2>2, <2>3, <2>4, Zenon DEF Layout
<1> HIDE DEF size, name
<1>8. TypeOK'
  BY <1>1, <1>2, <1>3, <1>4, <1>5, <1>6 DEF TypeOK
<1>9. Shape'
  BY <1>1, <1>2, <1>3, <1>4 DEF Shape, Compiling
<1>10. Text'
  BY <1>2, <1>3, NothingMeansNothing, Zenon DEF Text
<1>11. Source'
  BY <1>2 DEF Source, Compiling
<1>12. Linked'
  BY <1>2, <1>3 DEF Linked
<1> QED
  BY <1>7, <1>8, <1>9, <1>10, <1>11, <1>12 DEF Inv

\* The text and the words grow by the same block.
LEMMA EmitBlockStep == Inv /\ EmitBlock => Inv'
<1> SUFFICES ASSUME Inv, EmitBlock PROVE Inv'
  OBVIOUS
<1> DEFINE block == basicBlocks[emitted + 1]
           size == Len(block.code)
           later == {basicBlocks[b].name : b \in (emitted + 2)..Len(basicBlocks)}
<1>1. TypeOK /\ Shape /\ Layout /\ Text /\ Linked
  BY DEF Inv
<1>2. /\ stage = "layout" /\ recorded = Len(basicBlocks)
      /\ emitted < Len(basicBlocks) /\ emitted' = emitted + 1
      /\ hex' = hex \o WordsOf(block, blockToPC, Len(hex))
      /\ listing' = listing \o BlockLines(block)
      /\ kernel' = kernel /\ stage' = stage /\ selected' = selected
      /\ basicBlocks' = basicBlocks
      /\ blockToPC' = blockToPC /\ pc' = pc /\ recorded' = recorded
      /\ source' = source /\ lineNum' = lineNum /\ labels' = labels
      /\ instructions' = instructions /\ machineCode' = machineCode
  BY DEF EmitBlock, BlockWords, WordsOf, layoutVars, asmVars
<1>3. machineCode = <<>> /\ instructions = <<>> /\ lineNum = 0 /\ labels = NoMap
  BY <1>1, <1>2 DEF Shape, Compiling
<1>4. /\ basicBlocks \in Seq(BlockCode) /\ Len(basicBlocks) \in Nat
      /\ emitted \in 0..(Len(basicBlocks) - 1) /\ pc \in Nat
  BY <1>1, <1>2, LenProperties DEF TypeOK
<1>5. hex \in Seq(CompilerWords) /\ listing \in Seq(Lines)
  BY <1>1 DEF Shape
<1>6. block \in BlockCode
  BY <1>4, ElementOfSeq
<1>7. /\ size \in Nat /\ Len(hex) \in Nat
      /\ hex' \in Seq(CompilerWords) /\ Len(hex') = Len(hex) + size
      /\ listing' \in Seq(Lines)
  <2>1. /\ DOMAIN blockToPC \subseteq Names
        /\ \A m \in DOMAIN blockToPC : blockToPC[m] \in Int
    BY <1>1, MapOK, Zenon
  <2> HIDE DEF block
  <2>2. /\ Len(block.code) \in Nat /\ Len(hex) \in Nat
        /\ hex \o WordsOf(block, blockToPC, Len(hex)) \in Seq(CompilerWords)
        /\ Len(hex \o WordsOf(block, blockToPC, Len(hex))) = Len(hex) + Len(block.code)
    BY <1>5, <1>6, <2>1, BlockOfWords, Zenon
  <2>3. listing \o BlockLines(block) \in Seq(Lines)
    BY <1>5, <1>6, BlockText, Zenon
  <2> QED
    BY <1>2, <2>2, <2>3, Zenon DEF size
<1>8. PICK start : /\ LaidOut(start, basicBlocks, recorded, blockToPC, pc)
                   /\ start[emitted + 1] = Len(hex)
  BY <1>1, Zenon DEF Layout
<1>9. /\ emitted + 1 \in 1..recorded /\ emitted + 2 \in 1..(recorded + 1)
      /\ emitted + 1 + 1 = emitted + 2
  BY <1>2, <1>4
<1>10. /\ block.name \in DOMAIN blockToPC
       /\ blockToPC[block.name] = Len(hex) \/ block.name \in later
       /\ start[emitted + 2] = Len(hex) + size /\ start[emitted + 2] <= pc
  <2>1. /\ \A b \in 1..(recorded + 1) : start[b] <= pc
        /\ \A b \in 1..recorded : start[b + 1] = start[b] + Len(basicBlocks[b].code)
        /\ \A b \in 1..recorded : basicBlocks[b].name \in DOMAIN blockToPC
        /\ \A b \in 1..recorded :
             \/ blockToPC[basicBlocks[b].name] = start[b]
             \/ \E c \in (b + 1)..recorded : basicBlocks[c].name = basicBlocks[b].name
    BY <1>8, Zenon DEF LaidOut
  <2>2. start[emitted + 2] <= pc /\ block.name \in DOMAIN blockToPC
    BY <1>9, <2>1, Zenon
  <2>3. start[emitted + 2] = Len(hex) + size
    BY <1>8, <1>9, <2>1, Zenon
  <2>4. \/ blockToPC[block.name] = Len(hex)
        \/ \E c \in (emitted + 2)..recorded : basicBlocks[c].name = block.name
    BY <1>8, <1>9, <2>1, Zenon
  <2>5. blockToPC[block.name] = Len(hex) \/ block.name \in later
    BY <1>2, <2>4, Zenon
  <2> QED
    BY <2>2, <2>3, <2>5
<1>11. LaterNames' = later /\ LaterNames \subseteq later \cup {block.name}
  <2>1. emitted' + 1 = emitted + 2
    BY <1>2, <1>4
  <2>2. LaterNames' = later
    BY <1>2, <2>1, Zenon DEF LaterNames
  <2>3. \A b \in (emitted + 1)..Len(basicBlocks) :
          b = emitted + 1 \/ b \in (emitted + 2)..Len(basicBlocks)
    BY <1>4
  <2>4. LaterNames \subseteq later \cup {block.name}
    BY <2>3 DEF LaterNames
  <2> QED
    BY <2>2, <2>4
<1> HIDE DEF later, size
<1>12. Text'
  <2>1. PICK place : Means(listing, place, blockToPC, hex, LaterNames)
    BY <1>1, Zenon DEF Text
  <2> HIDE DEF block
  <2>2. \E place2 : Means(listing \o BlockLines(block), place2, blockToPC,
                          hex \o WordsOf(block, blockToPC, Len(hex)), later)
    BY <1>1, <1>5, <1>6, <1>10, <1>11, <2>1, MapOK, BlockMeans, Zenon
  <2> QED
    BY <1>2, <1>11, <2>2, Zenon DEF Text
<1>13. Layout' /\ Len(hex') <= pc
  <2>1. start[emitted' + 1] = Len(hex')
    BY <1>2, <1>7, <1>9, <1>10, Zenon
  <2>2. Layout'
    BY <1>2, <1>8, <2>1, Zenon DEF Layout
  <2>3. Len(hex') <= pc
    BY <1>7, <1>10
  <2> QED
    BY <2>2, <2>3
<1>14. TypeOK'
  <2>1. hex' \in Seq(Words)
    BY <1>7, WordsAreWords, SeqMonotonic
  <2>2. emitted' \in 0..recorded'
    BY <1>2, <1>4
  <2>3. Len(hex') <= pc'
    BY <1>2, <1>13
  <2> HIDE DEF block
  <2> QED
    BY <1>1, <1>2, <2>1, <2>2, <2>3, Zenon DEF TypeOK
<1>15. Shape'
  BY <1>1, <1>2, <1>4, <1>7 DEF Shape, Compiling
<1>16. Source'
  BY <1>2 DEF Source, Compiling
<1>17. Linked'
  BY <1>2, <1>3 DEF Linked
<1> QED
  BY <1>12, <1>13, <1>14, <1>15, <1>16, <1>17 DEF Inv

\* The assembler gets a text that means the words.
LEMMA GiveStep ==
  ASSUME NEW text \in Seq(Lines), Inv, Give(text),
         \E place : Means(text, place, blockToPC, hex, {})
  PROVE  Inv'
<1>1. TypeOK /\ Shape /\ Layout /\ Text /\ Linked
  BY DEF Inv
<1>2. /\ stage = "layout" /\ recorded = Len(basicBlocks) /\ emitted = Len(basicBlocks)
      /\ source' = text /\ stage' = "parse"
      /\ kernel' = kernel /\ selected' = selected /\ basicBlocks' = basicBlocks
      /\ blockToPC' = blockToPC /\ pc' = pc /\ recorded' = recorded
      /\ emitted' = emitted /\ hex' = hex /\ listing' = listing
      /\ lineNum' = lineNum /\ labels' = labels
      /\ instructions' = instructions /\ machineCode' = machineCode
  BY DEF Give, Emitted, layoutVars, emitVars
<1>3. machineCode = <<>> /\ instructions = <<>> /\ lineNum = 0 /\ labels = NoMap
  BY <1>1, <1>2 DEF Shape, Compiling
<1>4. TypeOK'
  BY <1>1, <1>2 DEF TypeOK
<1>5. Shape'
  <2>1. Len(text) \in Nat
    BY LenProperties
  <2> QED
    BY <1>1, <1>2, <1>3, <2>1 DEF Shape, Compiling
<1>6. Layout'
  BY <1>1, <1>2, Zenon DEF Layout
<1>7. Text'
  <2>1. LaterNames' = LaterNames
    BY <1>2, Zenon DEF LaterNames
  <2> QED
    BY <1>1, <1>2, <2>1, Zenon DEF Text
<1>8. Source'
  <2>1. PICK place : Means(text, place, blockToPC, hex, {})
    OBVIOUS
  <2>2. place[1] = 0
    BY <2>1, Zenon DEF Means, Counted
  <2>3. DOMAIN NoMap = {} /\ Len(<<>>) = 0 /\ 0 + 1 = 1 /\ \A i \in 1..0 : FALSE
    BY DEF NoMap
  <2>4. Assembling(text, place, blockToPC, hex, 0, NoMap, <<>>)
    BY <2>2, <2>3, Zenon DEF Assembling
  <2> QED
    BY <1>2, <1>3, <2>1, <2>4, Zenon DEF Source
<1>9. Linked'
  BY <1>2, <1>3 DEF Linked
<1> QED
  BY <1>4, <1>5, <1>6, <1>7, <1>8, <1>9 DEF Inv

\* The listing means the words once every block has been emitted.
LEMMA AssembleListingStep == Inv /\ AssembleListing => Inv'
<1> SUFFICES ASSUME Inv, AssembleListing PROVE Inv'
  OBVIOUS
<1>1. listing \in Seq(Lines) /\ Give(listing)
  BY DEF AssembleListing, Inv, Shape
<1>2. LaterNames = {}
  <2>1. emitted = Len(basicBlocks) /\ Len(basicBlocks) \in Nat
    BY <1>1, LenProperties DEF Give, Emitted, Inv, TypeOK
  <2> QED
    BY <2>1 DEF LaterNames
<1>3. \E place : Means(listing, place, blockToPC, hex, {})
  BY <1>2, Zenon DEF Inv, Text
<1> QED
  BY <1>1, <1>3, GiveStep, Zenon

\* The disassembly of the words means them, whatever the names.
LEMMA AssembleDisassemblyStep == Inv /\ AssembleDisassembly => Inv'
<1> SUFFICES ASSUME Inv, AssembleDisassembly PROVE Inv'
  OBVIOUS
<1> DEFINE text == [i \in DOMAIN hex |-> Disassembled(hex[i])]
<1>1. hex \in Seq(CompilerWords) /\ DOMAIN blockToPC \subseteq Names
  BY MapOK DEF Inv, Shape
<1>2. text \in Seq(Lines) /\ \E place : Means(text, place, blockToPC, hex, {})
  BY <1>1, DisassemblyMeans, Zenon
<1>3. Give(text)
  BY Zenon DEF AssembleDisassembly
<1> HIDE DEF text
<1> QED
  BY <1>2, <1>3, GiveStep, Zenon

\* The label read is the last one of its name so far.
LEMMA ParseLabelStep == Inv /\ ParseLabel => Inv'
<1> SUFFICES ASSUME Inv, ParseLabel PROVE Inv'
  OBVIOUS
<1>1. TypeOK /\ Shape /\ Layout /\ Text /\ Source /\ Linked
  BY DEF Inv
<1> DEFINE line == source[lineNum + 1]
<1>2. /\ stage = "parse" /\ lineNum < Len(source) /\ IsLabel(line)
      /\ labels' = With(labels, line.name, Len(instructions))
      /\ lineNum' = lineNum + 1
      /\ kernel' = kernel /\ selected' = selected /\ basicBlocks' = basicBlocks
      /\ blockToPC' = blockToPC /\ pc' = pc /\ recorded' = recorded
      /\ emitted' = emitted /\ hex' = hex /\ listing' = listing
      /\ stage' = stage /\ source' = source
      /\ instructions' = instructions /\ machineCode' = machineCode
  BY DEF ParseLabel, NextLine, IsLabel, compilerVars, layoutVars, emitVars
<1>3. /\ source \in Seq(Lines) /\ Len(source) \in Nat /\ lineNum \in 0..(Len(source) - 1)
      /\ instructions \in Seq(ParsedLines) /\ Len(instructions) \in Nat
  BY <1>1, <1>2, LenProperties DEF Shape
<1>4. line.name \in Names
  <2>1. line \in Lines
    BY <1>3, ElementOfSeq
  <2> QED
    BY <1>2, <2>1, LabelOrInstruction, Zenon
<1> HIDE DEF line
<1>5. /\ DOMAIN labels' \subseteq Names
      /\ \A n \in DOMAIN labels' : labels'[n] \in 0..Len(instructions)
  <2>1. /\ DOMAIN labels' = DOMAIN labels \cup {line.name}
        /\ \A m \in DOMAIN labels' :
             labels'[m] = IF m = line.name THEN Len(instructions) ELSE labels[m]
    BY <1>2, Zenon DEF With
  <2>2. /\ DOMAIN labels \subseteq Names
        /\ \A n \in DOMAIN labels : labels[n] \in 0..Len(instructions)
    BY <1>1 DEF TypeOK
  <2> QED
    BY <1>3, <1>4, <2>1, <2>2
<1>6. TypeOK'
  BY <1>1, <1>2, <1>5, Zenon DEF TypeOK
<1>7. Shape'
  BY <1>1, <1>2, <1>3 DEF Shape, Compiling
<1>8. Layout'
  BY <1>1, <1>2, Zenon DEF Layout
<1>9. Text'
  <2>1. LaterNames' = LaterNames
    BY <1>2, Zenon DEF LaterNames
  <2> QED
    BY <1>1, <1>2, <2>1, Zenon DEF Text
<1>10. Source'
  <2>1. PICK place :
          /\ Means(source, place, blockToPC, hex, {})
          /\ Assembling(source, place, blockToPC, hex, lineNum, labels, instructions)
    BY <1>1, <1>2 DEF Source, Compiling
  <2>2. Assembling(source, place, blockToPC, hex, lineNum + 1,
                   With(labels, line.name, Len(instructions)), instructions)
    BY <1>2, <1>3, <2>1, LabelStep, Zenon DEF line
  <2> QED
    BY <1>2, <2>1, <2>2, Zenon DEF Source
<1>11. Linked'
  BY <1>1, <1>2, Zenon DEF Linked
<1> QED
  BY <1>6, <1>7, <1>8, <1>9, <1>10, <1>11 DEF Inv

\* The instruction read is the one for the next word.
LEMMA ParseInstructionStep == Inv /\ ParseInstruction => Inv'
<1> SUFFICES ASSUME Inv, ParseInstruction PROVE Inv'
  OBVIOUS
<1>1. TypeOK /\ Shape /\ Layout /\ Text /\ Source /\ Linked
  BY DEF Inv
<1> DEFINE line == source[lineNum + 1]
<1>2. /\ stage = "parse" /\ lineNum < Len(source) /\ line.mnemonic \in Opcodes
      /\ instructions' = Append(instructions, Parsed(line))
      /\ lineNum' = lineNum + 1
      /\ kernel' = kernel /\ selected' = selected /\ basicBlocks' = basicBlocks
      /\ blockToPC' = blockToPC /\ pc' = pc /\ recorded' = recorded
      /\ emitted' = emitted /\ hex' = hex /\ listing' = listing
      /\ stage' = stage /\ source' = source
      /\ labels' = labels /\ machineCode' = machineCode
  BY DEF ParseInstruction, NextLine, compilerVars, layoutVars, emitVars
<1>3. /\ source \in Seq(Lines) /\ Len(source) \in Nat /\ lineNum \in 0..(Len(source) - 1)
      /\ instructions \in Seq(ParsedLines) /\ Len(instructions) \in Nat
  BY <1>1, <1>2, LenProperties DEF Shape
<1>4. line \in Lines
  BY <1>3, ElementOfSeq
<1>5. ~IsLabel(line) /\ Parsed(line) \in ParsedLines
  BY <1>2, <1>4, LabelOrInstruction, Zenon DEF ParsedLines
<1> HIDE DEF line
<1>6. instructions' \in Seq(ParsedLines) /\ Len(instructions') = Len(instructions) + 1
  <2> DEFINE q == Parsed(line)
  <2>1. q \in ParsedLines
    BY <1>5
  <2> HIDE DEF q
  <2>2. Append(instructions, q) \in Seq(ParsedLines)
        /\ Len(Append(instructions, q)) = Len(instructions) + 1
    BY <1>3, <2>1, AppendProperties
  <2> QED
    BY <1>2, <2>2, Zenon DEF q
<1>7. TypeOK'
  <2>1. /\ \A n \in DOMAIN labels : labels[n] \in 0..Len(instructions')
        /\ Len(machineCode) <= Len(instructions')
    <3>1. /\ \A n \in DOMAIN labels : labels[n] \in 0..Len(instructions)
          /\ Len(machineCode) <= Len(instructions) /\ Len(machineCode) \in Nat
      BY <1>1, LenProperties DEF TypeOK
    <3> QED
      BY <1>3, <1>6, <3>1
  <2> QED
    BY <1>1, <1>2, <2>1, Zenon DEF TypeOK
<1>8. Shape'
  BY <1>1, <1>2, <1>3, <1>6 DEF Shape, Compiling
<1>9. Layout'
  BY <1>1, <1>2, Zenon DEF Layout
<1>10. Text'
  <2>1. LaterNames' = LaterNames
    BY <1>2, Zenon DEF LaterNames
  <2> QED
    BY <1>1, <1>2, <2>1, Zenon DEF Text
<1>11. Source'
  <2>1. PICK place :
          /\ Means(source, place, blockToPC, hex, {})
          /\ Assembling(source, place, blockToPC, hex, lineNum, labels, instructions)
    BY <1>1, <1>2 DEF Source, Compiling
  <2>2. Assembling(source, place, blockToPC, hex, lineNum + 1, labels,
                   Append(instructions, Parsed(line)))
    BY <1>3, <1>5, <2>1, InstructionStep, Zenon DEF line
  <2> QED
    BY <1>2, <2>1, <2>2, Zenon DEF Source
<1>12. Linked'
  BY <1>1, <1>2, Zenon DEF Linked
<1> QED
  BY <1>7, <1>8, <1>9, <1>10, <1>11, <1>12 DEF Inv

\* The word linked is the one the compiler wrote at that address.
LEMMA LinkInstructionStep == Inv /\ LinkInstruction => Inv'
<1> SUFFICES ASSUME Inv, LinkInstruction PROVE Inv'
  OBVIOUS
<1>1. TypeOK /\ Shape /\ Layout /\ Text /\ Source /\ Linked
  BY DEF Inv
<1> DEFINE i == Len(machineCode) + 1
           q == instructions[i]
           word == Encode(Resolved(q, labels, Len(machineCode)))
<1>2. /\ stage = "parse" /\ lineNum = Len(source) /\ Len(machineCode) < Len(instructions)
      /\ machineCode' = Append(machineCode, word)
      /\ kernel' = kernel /\ selected' = selected /\ basicBlocks' = basicBlocks
      /\ blockToPC' = blockToPC /\ pc' = pc /\ recorded' = recorded
      /\ emitted' = emitted /\ hex' = hex /\ listing' = listing
      /\ source' = source /\ lineNum' = lineNum /\ labels' = labels
      /\ instructions' = instructions /\ stage' = stage
  BY DEF LinkInstruction, Linking, NextInstruction, compilerVars, layoutVars, emitVars
<1>3. ~(q.op \in Jumps /\ q.labelTarget # NoLabel /\ q.labelTarget \notin DOMAIN labels)
  BY DEF LinkInstruction, Undefined, NextInstruction
<1>4. /\ source \in Seq(Lines) /\ hex \in Seq(CompilerWords)
      /\ instructions \in Seq(ParsedLines) /\ Len(instructions) \in Nat
      /\ machineCode \in Seq(Words) /\ Len(machineCode) \in Nat
  BY <1>1, LenProperties DEF Shape, TypeOK
<1>5. i \in 1..Len(instructions) /\ i - 1 = Len(machineCode)
  BY <1>2, <1>4
<1>6. word = hex[i] /\ i \in 1..Len(hex)
  <2>1. PICK place :
          /\ Means(source, place, blockToPC, hex, {})
          /\ Assembling(source, place, blockToPC, hex, Len(source), labels, instructions)
    BY <1>1, <1>2 DEF Source, Compiling
  <2> HIDE DEF i
  <2>2. DOMAIN blockToPC \subseteq Names
    BY <1>1, MapOK
  <2>3. Encode(Resolved(instructions[i], labels, i - 1)) = hex[i]
    <3>1. source \in Seq(Lines) /\ i \in 1..Len(instructions)
      BY <1>4, <1>5
    <3>2. ~(instructions[i].op \in Jumps /\ instructions[i].labelTarget # NoLabel
              /\ instructions[i].labelTarget \notin DOMAIN labels)
      BY <1>3, Zenon
    <3>3. /\ Means(source, place, blockToPC, hex, {})
          /\ Assembling(source, place, blockToPC, hex, Len(source), labels, instructions)
      BY <2>1
    <3> QED
      BY <2>2, <3>1, <3>2, <3>3, LinkStep, SMT
  <2>4. i \in 1..Len(hex)
    BY <1>5, <2>1, Zenon DEF Assembling
  <2> QED
    BY <1>5, <2>3, <2>4, Zenon
<1>7. word \in Words
  BY <1>4, <1>6, ElementOfSeq, WordsAreWords
<1> HIDE DEF word
<1>8. /\ machineCode' \in Seq(Words) /\ Len(machineCode') = i
      /\ \A k \in 1..Len(machineCode) : machineCode'[k] = machineCode[k]
      /\ machineCode'[i] = word
  BY <1>2, <1>4, <1>7, AppendProperties
<1> HIDE DEF i
<1>9. TypeOK'
  <2>1. Len(machineCode') <= Len(instructions)
    BY <1>4, <1>5, <1>8
  <2> QED
    BY <1>1, <1>2, <1>8, <2>1, Zenon DEF TypeOK
<1>10. Shape'
  BY <1>1, <1>2 DEF Shape, Compiling
<1>11. Layout'
  BY <1>1, <1>2, Zenon DEF Layout
<1>12. Text'
  <2>1. LaterNames' = LaterNames
    BY <1>2, Zenon DEF LaterNames
  <2> QED
    BY <1>1, <1>2, <2>1, Zenon DEF Text
<1>13. Source'
  <2>1. PICK place :
          /\ Means(source, place, blockToPC, hex, {})
          /\ Assembling(source, place, blockToPC, hex, lineNum, labels, instructions)
    BY <1>1, <1>2 DEF Source, Compiling
  <2> QED
    BY <1>2, <2>1, Zenon DEF Source
<1>14. Linked'
  <2>1. ASSUME NEW k \in 1..Len(machineCode')
        PROVE  machineCode'[k] = hex[k]
    <3>1. k \in 1..Len(machineCode) \/ k = i
      BY <1>4, <1>5, <1>8
    <3>2. \A j \in 1..Len(machineCode) : machineCode[j] = hex[j]
      BY <1>1 DEF Linked
    <3> QED
      BY <1>6, <1>8, <3>1, <3>2, Zenon
  <2>2. stage' # "assembled"
    BY <1>2
  <2> QED
    BY <1>2, <2>1, <2>2, Zenon DEF Linked
<1> QED
  BY <1>9, <1>10, <1>11, <1>12, <1>13, <1>14 DEF Inv

\* A rejected text leaves what has been built.
LEMMA RejectLabelStep == Inv /\ RejectLabel => Inv'
<1> SUFFICES ASSUME Inv, RejectLabel PROVE Inv'
  OBVIOUS
<1>1. TypeOK /\ Shape /\ Layout /\ Text /\ Source /\ Linked
  BY DEF Inv
<1>2. /\ stage = "parse" /\ stage' = "rejected"
      /\ kernel' = kernel /\ selected' = selected /\ basicBlocks' = basicBlocks
      /\ blockToPC' = blockToPC /\ pc' = pc /\ recorded' = recorded
      /\ emitted' = emitted /\ hex' = hex /\ listing' = listing
      /\ source' = source /\ lineNum' = lineNum /\ labels' = labels
      /\ instructions' = instructions /\ machineCode' = machineCode
  BY DEF RejectLabel, Linking, compilerVars, layoutVars, emitVars
<1>3. TypeOK'
  BY <1>1, <1>2 DEF TypeOK
<1>4. Shape'
  BY <1>1, <1>2 DEF Shape, Compiling
<1>5. Layout'
  BY <1>1, <1>2, Zenon DEF Layout
<1>6. Text'
  <2>1. LaterNames' = LaterNames
    BY <1>2, Zenon DEF LaterNames
  <2> QED
    BY <1>1, <1>2, <2>1, Zenon DEF Text
<1>7. Source'
  <2>1. ~Compiling
    BY <1>2 DEF Compiling
  <2> QED
    BY <1>1, <1>2, <2>1, Zenon DEF Source
<1>8. Linked'
  BY <1>1, <1>2 DEF Linked
<1> QED
  BY <1>3, <1>4, <1>5, <1>6, <1>7, <1>8 DEF Inv

\* With all words linked, they are all of the words.
LEMMA AssembledStep == Inv /\ Assembled => Inv'
<1> SUFFICES ASSUME Inv, Assembled PROVE Inv'
  OBVIOUS
<1>1. TypeOK /\ Shape /\ Layout /\ Text /\ Source /\ Linked
  BY DEF Inv
<1>2. /\ stage = "parse" /\ stage' = "assembled"
      /\ lineNum = Len(source) /\ Len(machineCode) = Len(instructions)
      /\ kernel' = kernel /\ selected' = selected /\ basicBlocks' = basicBlocks
      /\ blockToPC' = blockToPC /\ pc' = pc /\ recorded' = recorded
      /\ emitted' = emitted /\ hex' = hex /\ listing' = listing
      /\ source' = source /\ lineNum' = lineNum /\ labels' = labels
      /\ instructions' = instructions /\ machineCode' = machineCode
  BY DEF Assembled, compilerVars, layoutVars, emitVars
<1>3. TypeOK'
  BY <1>1, <1>2 DEF TypeOK
<1>4. Shape'
  BY <1>1, <1>2 DEF Shape, Compiling
<1>5. Layout'
  BY <1>1, <1>2, Zenon DEF Layout
<1>6. Text'
  <2>1. LaterNames' = LaterNames
    BY <1>2, Zenon DEF LaterNames
  <2> QED
    BY <1>1, <1>2, <2>1, Zenon DEF Text
<1>7. Source'
  <2>1. ~Compiling
    BY <1>2 DEF Compiling
  <2> QED
    BY <1>1, <1>2, <2>1, Zenon DEF Source
<1>8. machineCode = hex
  <2>1. PICK place :
          /\ Means(source, place, blockToPC, hex, {})
          /\ Assembling(source, place, blockToPC, hex, Len(source), labels, instructions)
    BY <1>1, <1>2 DEF Source, Compiling
  <2>2. Len(instructions) = Len(hex)
    BY <2>1, Zenon DEF Means, Assembling
  <2>3. machineCode \in Seq(Words) /\ hex \in Seq(Words)
    BY <1>1 DEF TypeOK
  <2>4. \A k \in 1..Len(machineCode) : machineCode[k] = hex[k]
    BY <1>1 DEF Linked
  <2> QED
    BY <1>2, <2>2, <2>3, <2>4, SeqEqual
<1>9. Linked'
  BY <1>1, <1>2, <1>8 DEF Linked
<1> QED
  BY <1>3, <1>4, <1>5, <1>6, <1>7, <1>9 DEF Inv

\* Stuttering changes nothing.
LEMMA NoStep == Inv /\ UNCHANGED vars => Inv'
<1> SUFFICES ASSUME Inv, UNCHANGED vars PROVE Inv'
  OBVIOUS
<1>1. TypeOK /\ Shape /\ Layout /\ Text /\ Source /\ Linked
  BY DEF Inv
<1>2. /\ stage' = stage
      /\ kernel' = kernel /\ selected' = selected /\ basicBlocks' = basicBlocks
      /\ blockToPC' = blockToPC /\ pc' = pc /\ recorded' = recorded
      /\ emitted' = emitted /\ hex' = hex /\ listing' = listing
      /\ source' = source /\ lineNum' = lineNum /\ labels' = labels
      /\ instructions' = instructions /\ machineCode' = machineCode
  BY DEF vars, layoutVars, emitVars, asmVars
<1>3. TypeOK'
  BY <1>1, <1>2 DEF TypeOK
<1>4. Shape'
  BY <1>1, <1>2 DEF Shape, Compiling
<1>5. Layout'
  BY <1>1, <1>2, Zenon DEF Layout
<1>6. Text'
  <2>1. LaterNames' = LaterNames
    BY <1>2, Zenon DEF LaterNames
  <2> QED
    BY <1>1, <1>2, <2>1, Zenon DEF Text
<1>7. Source'
  <2>1. Compiling' = Compiling
    BY <1>2, Zenon DEF Compiling
  <2> QED
    BY <1>1, <1>2, <2>1, Zenon DEF Source
<1>8. Linked'
  BY <1>1, <1>2 DEF Linked
<1> QED
  BY <1>3, <1>4, <1>5, <1>6, <1>7, <1>8 DEF Inv

\* The invariant holds of every run of every module.
THEOREM Invariance == Spec => []Inv
<1>1. Init => Inv
  BY InitInv
<1>2. Inv /\ [Next]_vars => Inv'
  BY SelectFunctionStep, StartEmitterStep, RecordBlockStep, EmitBlockStep,
     AssembleListingStep, AssembleDisassemblyStep, ParseLabelStep, ParseInstructionStep,
     LinkInstructionStep, RejectLabelStep, AssembledStep, NoStep, Zenon DEF Next
<1> QED
  BY <1>1, <1>2, PTL DEF Spec

\* The variables keep their types: addresses stay within the code laid out,
\* words within their bits, whatever the module.
THEOREM RoutesTypes == Spec => []TypeOK
<1>1. Inv => TypeOK
  BY DEF Inv
<1> QED
  BY <1>1, Invariance, PTL

\* RoutesAgree for every module, every instruction and every immediate: what the
\* assembler builds, from the listing of the compiler or from the text of the
\* disassembler, is what the compiler writes itself.
THEOREM RoutesAgreeAlways == Spec => []RoutesAgree
<1>1. Inv => RoutesAgree
  BY DEF Inv, Linked, RoutesAgree
<1> QED
  BY <1>1, Invariance, PTL

-----------------------------------------------------------------------------
(* Nothing is rejected when the names are plain.                           *)

NamesOf(blocks) == {blocks[b].name : b \in 1..Len(blocks)}

JumpsWithin(blocks, names) ==
  \A b \in 1..Len(blocks) : \A i \in 1..Len(blocks[b].code) :
    blocks[b].code[i].op \in Jumps => blocks[b].code[i].labelTarget \in names

LabelsOf(text) == {text[k].name : k \in {j \in 1..Len(text) : IsLabel(text[j])}}

TargetsOf(text) == {text[k].name : k \in {j \in 1..Len(text) : text[j].mnemonic \in Jumps}}

Closed ==
  /\ TargetsOf(source) \subseteq LabelsOf(source) \cup {NoLabel}
  /\ \A k \in 1..lineNum : IsLabel(source[k]) => source[k].name \in DOMAIN labels
  /\ \A i \in 1..Len(instructions) : instructions[i].op \in Jumps =>
       instructions[i].labelTarget \in LabelsOf(source) \cup {NoLabel}

PlainInv ==
  PlainNames =>
    /\ JumpsWithin(basicBlocks, NamesOf(basicBlocks))
    /\ \A b \in 1..emitted : basicBlocks[b].name \in LabelsOf(listing)
    /\ TargetsOf(listing) \subseteq NamesOf(basicBlocks)
    /\ ~Compiling => Closed
    /\ stage # "rejected"

\* Opcode and name survive parsing, printing ...
LEMMA ParsedKeeps ==
  ASSUME NEW l, l.mnemonic \in Opcodes
  PROVE  Parsed(l).op = l.mnemonic /\ (l.mnemonic \in Jumps => Parsed(l).labelTarget = l.name)
BY DEF Parsed, MachineInstruction, Opcodes, ThreeRegister, Jumps, Bare

\* ... the compiler prints the name of a jump ...
LEMMA PrintedKeeps ==
  ASSUME NEW mi \in Instructions, mi.op \in Jumps
  PROVE  Printed(mi).name = mi.labelTarget
BY DEF Printed, Line, ThreeRegister, Jumps, Bare

\* ... and the disassembler an offset.
LEMMA DisassembledHasNoName ==
  ASSUME NEW w \in CompilerWords, Disassembled(w).mnemonic \in Jumps
  PROVE  Disassembled(w).name = NoLabel
<1>1. PICK mi \in AnyInstruction : w = Encode(mi)
  BY Zenon DEF CompilerWords
<1> DEFINE l == Disassembled(w)
<1>2. Parsed(l).labelTarget = NoLabel
  BY <1>1, AnyIsEncodable, DisassemblyRoundTrip, Zenon
<1>3. l.mnemonic \in Opcodes
  BY DisassembledLines, Zenon
<1> HIDE DEF l
<1>4. l.mnemonic \in Jumps
  BY DEF l
<1>5. l.name = NoLabel
  BY <1>2, <1>3, <1>4, ParsedKeeps, Zenon
<1> QED
  BY <1>5 DEF l

\* With plain names, selection leaves the jumps within their function.
LEMMA PlainFunction ==
  ASSUME NEW f \in Seq(BlockCode), IsFunction(f),
         \A b \in DOMAIN f : \A i \in DOMAIN f[b].code :
           f[b].code[i].op = "SSY" => IsPlain(f[b].code[i].labelTarget)
  PROVE  LET new == [b \in DOMAIN f |-> SelectedBlock(f[b])]
         IN  NamesOf(new) = NamesOf(f) /\ JumpsWithin(new, NamesOf(f))
<1> DEFINE new == [b \in DOMAIN f |-> SelectedBlock(f[b])]
           n == Len(f)
<1>1. n \in Nat /\ DOMAIN f = 1..n /\ new \in Seq(BlockCode)
  BY LenProperties, FunctionSelected
<1>2. Len(new) = n
  BY <1>1
<1>3. \A b \in 1..n : /\ new[b].name = f[b].name
                      /\ new[b].code = [i \in DOMAIN f[b].code |-> Selected(f[b].code[i])]
  BY <1>1 DEF SelectedBlock
<1> HIDE DEF new
<1>4. NamesOf(new) = NamesOf(f)
  <2>1. NamesOf(new) = {new[b].name : b \in 1..n} /\ NamesOf(f) = {f[b].name : b \in 1..n}
    BY <1>2, Zenon DEF NamesOf, n
  <2>2. \A b \in 1..n : new[b].name = f[b].name
    BY <1>3, Zenon
  <2> HIDE DEF n
  <2> QED
    BY <2>1, <2>2
<1>5. ASSUME NEW b \in 1..n, NEW i \in 1..Len(new[b].code), new[b].code[i].op \in Jumps
      PROVE  new[b].code[i].labelTarget \in NamesOf(f)
  <2>1. f[b] \in BlockCode
    BY <1>5, ElementOfSeq DEF n
  <2>2. f[b].code \in Seq(Instructions)
    BY <2>1 DEF BlockCode
  <2>3. Len(f[b].code) \in Nat /\ DOMAIN f[b].code = 1..Len(f[b].code)
    BY <2>2, LenProperties
  <2>4. Len(new[b].code) = Len(f[b].code)
    <3> DEFINE L == Len(f[b].code)  c == [k \in 1..L |-> Selected(f[b].code[k])]
    <3>1. new[b].code = c
      BY <1>3, <2>3, Zenon
    <3>2. L \in Nat
      BY <2>3
    <3> HIDE DEF L
    <3>3. Len(c) = L
      BY <3>2
    <3> QED
      BY <3>1, <3>3 DEF L
  <2>5. i \in DOMAIN f[b].code /\ new[b].code[i] = Selected(f[b].code[i])
    BY <1>3, <2>3, <2>4
  <2> DEFINE mi == f[b].code[i]
  <2>6. mi \in Instructions
    BY <2>2, <2>3, <2>5, ElementOfSeq
  <2>7. mi.op \in Jumps =>
          \E t \in 1..n : f[t].name = mi.labelTarget
    BY <1>1, <2>5 DEF IsFunction
  <2>8. mi.op \in Jumps =>
          mi.labelTarget \in NamesOf(f)
    BY <1>1, <2>7 DEF NamesOf, n
  <2>9. mi.op = "SSY" => IsPlain(mi.labelTarget)
    BY <1>1, <2>5
  <2> HIDE DEF mi
  <2>10. CASE mi.op = "SSY"
    BY <2>5, <2>8, <2>10, <2>9 DEF Selected, MachineInstruction, Jumps, mi, IsPlain
  <2>11. CASE mi.op # "SSY"
    <3>1. new[b].code[i] = mi
      BY <2>5, <2>11, Zenon DEF Selected, mi
    <3> QED
      BY <1>5, <2>8, <3>1
  <2> QED
    BY <2>10, <2>11
<1>6. JumpsWithin(new, NamesOf(f))
  BY <1>2, <1>5, Zenon DEF JumpsWithin
<1> QED
  BY <1>4, <1>6, Zenon DEF new

\* Functions behind each other keep their jumps.
LEMMA ConcatNames ==
  ASSUME NEW s \in Seq(BlockCode), NEW t \in Seq(BlockCode),
         JumpsWithin(s, NamesOf(s)), JumpsWithin(t, NamesOf(t))
  PROVE  JumpsWithin(s \o t, NamesOf(s \o t))
<1> DEFINE st == s \o t  m == Len(s)  n == Len(t)
<1>1. m \in Nat /\ n \in Nat
  BY LenProperties
<1>2. /\ Len(st) = m + n
      /\ \A k \in 1..(m + n) : st[k] = IF k <= m THEN s[k] ELSE t[k - m]
  BY ConcatProperties
<1> HIDE DEF st, m, n
<1>3. \A k \in 1..m : k \in 1..Len(st) /\ st[k] = s[k]
  BY <1>1, <1>2
<1>4. ASSUME NEW k \in 1..n
      PROVE  m + k \in 1..Len(st) /\ st[m + k] = t[k]
  <2>1. m + k \in 1..(m + n) /\ ~(m + k <= m) /\ (m + k) - m = k
    BY <1>1
  <2> QED
    BY <1>2, <2>1
<1>5. NamesOf(s) \subseteq NamesOf(st)
  BY <1>3 DEF NamesOf, m
<1>6. NamesOf(t) \subseteq NamesOf(st)
  BY <1>4 DEF NamesOf, n
<1>7. ASSUME NEW b \in 1..Len(st), NEW i \in 1..Len(st[b].code), st[b].code[i].op \in Jumps
      PROVE  st[b].code[i].labelTarget \in NamesOf(st)
  <2>1. b \in 1..m \/ (b - m \in 1..n /\ st[b] = t[b - m])
    <3>1. b \in 1..(m + n) /\ (b <= m => b \in 1..m) /\ (~(b <= m) => b - m \in 1..n)
      <4>1. b \in 1..(m + n)
        BY <1>2, Zenon
      <4> QED
        BY <1>1, <4>1
    <3>2. st[b] = IF b <= m THEN s[b] ELSE t[b - m]
      BY <1>2, <3>1, Zenon
    <3>3. CASE b <= m
      BY <3>1, <3>3, Zenon
    <3>4. CASE ~(b <= m)
      BY <3>1, <3>2, <3>4, Zenon
    <3> QED
      BY <3>3, <3>4, Zenon
  <2>2. CASE b \in 1..m
    <3>1. s[b].code[i].op \in Jumps => s[b].code[i].labelTarget \in NamesOf(s)
      BY <1>3, <1>7, <2>2, Zenon DEF JumpsWithin, m
    <3> QED
      BY <1>3, <1>5, <1>7, <2>2, <3>1
  <2>3. CASE b - m \in 1..n /\ st[b] = t[b - m]
    <3>1. t[b - m].code[i].op \in Jumps => t[b - m].code[i].labelTarget \in NamesOf(t)
      BY <1>7, <2>3, Zenon DEF JumpsWithin, n
    <3> QED
      BY <1>6, <1>7, <2>3, <3>1
  <2> QED
    BY <2>1, <2>2, <2>3
<1>8. JumpsWithin(st, NamesOf(st))
  BY <1>7, Zenon DEF JumpsWithin
<1> QED
  BY <1>8, Zenon DEF st

\* A block adds its label, and the names its jumps go to.
LEMMA EmittedNames ==
  ASSUME NEW text \in Seq(Lines), NEW block \in BlockCode
  PROVE  LET t == text \o BlockLines(block)
         IN  /\ LabelsOf(text) \cup {block.name} \subseteq LabelsOf(t)
             /\ \A x \in TargetsOf(t) :
                  \/ x \in TargetsOf(text)
                  \/ \E i \in 1..Len(block.code) :
                       block.code[i].op \in Jumps /\ x = block.code[i].labelTarget
<1> DEFINE L == Len(text)  n == Len(block.code)  t == text \o BlockLines(block)
<1>1. /\ n \in Nat /\ L \in Nat /\ Len(t) = L + 1 + n
      /\ \A k \in 1..L : t[k] = text[k]
      /\ t[L + 1] = LabelLine(block.name)
      /\ \A k \in (L + 2)..(L + 1 + n) :
           k - (L + 1) \in 1..n /\ t[k] = Printed(block.code[k - (L + 1)])
  BY BlockText, Zenon
<1>2. /\ block.name \in Names
      /\ \A i \in 1..n : block.code[i] \in Instructions
  BY ElementOfSeq DEF BlockCode
<1>3. IsLabel(t[L + 1]) /\ t[L + 1].name = block.name
  BY <1>1, <1>2, LabelLines
<1> HIDE DEF L, n, t
<1>4. \A k \in 1..L : k \in 1..Len(t)
  BY <1>1
<1>5. L + 1 \in 1..Len(t)
  BY <1>1
<1>6. LabelsOf(text) \subseteq LabelsOf(t)
  BY <1>1, <1>4 DEF LabelsOf, L
<1>7. block.name \in LabelsOf(t)
  BY <1>3, <1>5 DEF LabelsOf
<1>8. ASSUME NEW k \in 1..Len(t), t[k].mnemonic \in Jumps
      PROVE  \/ t[k].name \in TargetsOf(text)
             \/ \E i \in 1..n :
                  block.code[i].op \in Jumps /\ t[k].name = block.code[i].labelTarget
  <2>1. k \in 1..L \/ k = L + 1 \/ k \in (L + 2)..(L + 1 + n)
    <3>1. k \in 1..(L + 1 + n)
      BY <1>1, Zenon
    <3> QED
      BY <1>1, <3>1
  <2>2. CASE k \in 1..L
    BY <1>1, <1>8, <2>2 DEF TargetsOf, L
  <2>3. CASE k = L + 1
    BY <1>3, <1>8, <2>3 DEF IsLabel, Jumps
  <2>4. CASE k \in (L + 2)..(L + 1 + n)
    <3> DEFINE i == k - (L + 1)
    <3>1. i \in 1..n /\ t[k] = Printed(block.code[i])
      BY <1>1, <2>4, Zenon
    <3> HIDE DEF i
    <3>2. block.code[i] \in Instructions
      BY <1>2, <3>1
    <3>3. block.code[i].op \in Jumps
      BY <1>8, <3>1, <3>2, PrintedLines, Zenon
    <3>4. t[k].name = block.code[i].labelTarget
      BY <3>1, <3>2, <3>3, PrintedKeeps, Zenon
    <3> QED
      BY <3>1, <3>3, <3>4, Zenon
  <2> QED
    BY <2>1, <2>2, <2>3, <2>4
<1>9. ASSUME NEW x \in TargetsOf(t)
      PROVE  \/ x \in TargetsOf(text)
             \/ \E i \in 1..n : block.code[i].op \in Jumps /\ x = block.code[i].labelTarget
  <2>1. PICK k \in 1..Len(t) : t[k].mnemonic \in Jumps /\ x = t[k].name
    BY Zenon DEF TargetsOf
  <2> QED
    BY <1>8, <2>1, Zenon
<1> QED
  BY <1>6, <1>7, <1>9, Zenon DEF n, t

\* One lemma for each action that concerns the names.
LEMMA PlainSelectStep == Inv /\ PlainInv /\ SelectFunction => PlainInv'
<1> SUFFICES ASSUME Inv, PlainInv, SelectFunction, PlainNames' PROVE PlainInv'
  BY DEF PlainInv
<1> DEFINE f   == kernel[selected + 1]
           new == [b \in DOMAIN f |-> SelectedBlock(f[b])]
<1>1. /\ stage = "select" /\ selected < Len(kernel)
      /\ basicBlocks' = basicBlocks \o new /\ kernel' = kernel /\ stage' = stage
      /\ emitted' = emitted /\ listing' = listing
  BY DEF SelectFunction, emitVars
<1>2. PlainNames
  BY <1>1 DEF PlainNames
<1>3. /\ emitted = 0 /\ listing = <<>> /\ basicBlocks \in Seq(BlockCode)
      /\ selected \in 0..Len(kernel) /\ kernel \in Kernels
  BY <1>1 DEF Inv, TypeOK, Shape
<1>4. kernel \in Seq(Seq(BlockCode)) /\ \A g \in DOMAIN kernel : IsFunction(kernel[g])
  BY <1>3, KernelsAssumption
<1>5. selected + 1 \in DOMAIN kernel /\ f \in Seq(BlockCode)
  <2>1. Len(kernel) \in Nat /\ DOMAIN kernel = 1..Len(kernel)
    BY <1>4, LenProperties
  <2>2. selected + 1 \in 1..Len(kernel)
    BY <1>1, <1>3, <2>1
  <2> QED
    BY <1>4, <2>1, <2>2, ElementOfSeq
<1>6. IsFunction(f)
  BY <1>4, <1>5
<1>7. \A b \in DOMAIN f : \A i \in DOMAIN f[b].code :
        f[b].code[i].op = "SSY" => IsPlain(f[b].code[i].labelTarget)
  BY <1>2, <1>5, Zenon DEF PlainNames
<1>8. new \in Seq(BlockCode) /\ NamesOf(new) = NamesOf(f) /\ JumpsWithin(new, NamesOf(f))
  <2> HIDE DEF f
  <2> QED
    BY <1>5, <1>6, <1>7, PlainFunction, FunctionSelected, Zenon
<1> HIDE DEF new
<1>9. JumpsWithin(basicBlocks, NamesOf(basicBlocks))
  BY <1>2, Zenon DEF PlainInv
<1>10. JumpsWithin(basicBlocks', NamesOf(basicBlocks'))
  BY <1>1, <1>3, <1>8, <1>9, ConcatNames, Zenon
<1>11. TargetsOf(listing') = {} /\ \A b \in 1..emitted' : FALSE
  BY <1>1, <1>3 DEF TargetsOf
<1> QED
  BY <1>1, <1>10, <1>11 DEF PlainInv, Compiling

\* The label of the block is in the listing, and its jumps go to blocks.
LEMMA PlainEmitStep == Inv /\ PlainInv /\ EmitBlock => PlainInv'
<1> SUFFICES ASSUME Inv, PlainInv, EmitBlock, PlainNames' PROVE PlainInv'
  BY DEF PlainInv
<1> DEFINE block == basicBlocks[emitted + 1]
<1>1. /\ stage = "layout" /\ emitted < Len(basicBlocks) /\ emitted' = emitted + 1
      /\ listing' = listing \o BlockLines(block)
      /\ basicBlocks' = basicBlocks /\ kernel' = kernel /\ stage' = stage
  BY DEF EmitBlock
<1>2. PlainNames
  BY <1>1 DEF PlainNames
<1>3. /\ emitted \in Nat /\ listing \in Seq(Lines) /\ basicBlocks \in Seq(BlockCode)
      /\ emitted + 1 \in 1..Len(basicBlocks)
  <2>1. /\ emitted \in Nat /\ listing \in Seq(Lines) /\ basicBlocks \in Seq(BlockCode)
    BY DEF Inv, TypeOK, Shape
  <2>2. Len(basicBlocks) \in Nat
    BY <2>1, LenProperties
  <2> QED
    BY <1>1, <2>1, <2>2
<1>4. block \in BlockCode
  BY <1>3, ElementOfSeq
<1>5. /\ JumpsWithin(basicBlocks, NamesOf(basicBlocks))
      /\ \A b \in 1..emitted : basicBlocks[b].name \in LabelsOf(listing)
      /\ TargetsOf(listing) \subseteq NamesOf(basicBlocks)
  BY <1>2, Zenon DEF PlainInv
<1>6. /\ LabelsOf(listing) \cup {block.name} \subseteq LabelsOf(listing')
      /\ \A x \in TargetsOf(listing') :
           \/ x \in TargetsOf(listing)
           \/ \E i \in 1..Len(block.code) :
                block.code[i].op \in Jumps /\ x = block.code[i].labelTarget
  <2> HIDE DEF block
  <2> QED
    BY <1>1, <1>3, <1>4, EmittedNames, Zenon
<1>7. TargetsOf(listing') \subseteq NamesOf(basicBlocks')
  <2>1. \A i \in 1..Len(block.code) : block.code[i].op \in Jumps =>
          block.code[i].labelTarget \in NamesOf(basicBlocks)
    BY <1>3, <1>5, Zenon DEF JumpsWithin
  <2> HIDE DEF block
  <2> QED
    BY <1>1, <1>5, <1>6, <2>1
<1>8. \A b \in 1..emitted' : basicBlocks'[b].name \in LabelsOf(listing')
  <2>1. \A b \in 1..emitted' : b \in 1..emitted \/ b = emitted + 1
    BY <1>1, <1>3
  <2> QED
    BY <1>1, <1>5, <1>6, <2>1
<1> QED
  BY <1>1, <1>5, <1>7, <1>8 DEF PlainInv, Compiling

\* The steps that change neither the blocks nor what is written of them.
SameCode ==
  kernel' = kernel /\ basicBlocks' = basicBlocks /\ emitted' = emitted /\ listing' = listing

\* A step that leaves the code alone only has to keep the assembler's part.
LEMMA PlainSame ==
  ASSUME PlainInv, SameCode,
         PlainNames => (~Compiling' => Closed') /\ stage' # "rejected"
  PROVE  PlainInv'
<1> SUFFICES ASSUME PlainNames' PROVE PlainInv'
  BY DEF PlainInv
<1>1. PlainNames
  BY DEF PlainNames, SameCode
<1>2. /\ JumpsWithin(basicBlocks, NamesOf(basicBlocks))
      /\ \A b \in 1..emitted : basicBlocks[b].name \in LabelsOf(listing)
      /\ TargetsOf(listing) \subseteq NamesOf(basicBlocks)
  BY <1>1, Zenon DEF PlainInv
<1>3. /\ JumpsWithin(basicBlocks', NamesOf(basicBlocks'))
      /\ \A b \in 1..emitted' : basicBlocks'[b].name \in LabelsOf(listing')
      /\ TargetsOf(listing') \subseteq NamesOf(basicBlocks')
  BY <1>2, Zenon DEF SameCode
<1> QED
  BY <1>1, <1>3, Zenon DEF PlainInv

\* What is needed of the text given to the assembler.
LEMMA PlainGiveStep ==
  ASSUME NEW text, Inv, PlainInv, Give(text),
         PlainNames => TargetsOf(text) \subseteq LabelsOf(text) \cup {NoLabel}
  PROVE  PlainInv'
<1>1. /\ source' = text /\ stage' = "parse" /\ lineNum' = lineNum
      /\ instructions' = instructions /\ SameCode
  BY DEF Give, layoutVars, emitVars, SameCode
<1>2. lineNum = 0 /\ instructions = <<>>
  BY DEF Give, Emitted, Inv, Shape, Compiling
<1>3. PlainNames => Closed'
  <2>1. (\A k \in 1..0 : FALSE) /\ Len(<<>>) = 0
    OBVIOUS
  <2> QED
    BY <1>1, <1>2, <2>1, Zenon DEF Closed
<1> QED
  BY <1>1, <1>3, PlainSame

\* Every block is in the listing, so every jump finds its label in it.
LEMMA PlainListingStep == Inv /\ PlainInv /\ AssembleListing => PlainInv'
<1> SUFFICES ASSUME Inv, PlainInv, AssembleListing PROVE PlainInv'
  OBVIOUS
<1>1. Give(listing) /\ emitted = Len(basicBlocks)
  BY DEF AssembleListing, Give, Emitted
<1>2. ASSUME PlainNames
      PROVE  TargetsOf(listing) \subseteq LabelsOf(listing)
  <2>1. /\ \A b \in 1..emitted : basicBlocks[b].name \in LabelsOf(listing)
        /\ TargetsOf(listing) \subseteq NamesOf(basicBlocks)
    BY <1>2, Zenon DEF PlainInv
  <2> QED
    BY <1>1, <2>1 DEF NamesOf
<1> QED
  BY <1>1, <1>2, PlainGiveStep

\* The disassembly has no names.
LEMMA PlainDisassemblyStep == Inv /\ PlainInv /\ AssembleDisassembly => PlainInv'
<1> SUFFICES ASSUME Inv, PlainInv, AssembleDisassembly PROVE PlainInv'
  OBVIOUS
<1> DEFINE text == [i \in DOMAIN hex |-> Disassembled(hex[i])]
<1>1. Give(text)
  BY Zenon DEF AssembleDisassembly
<1>2. /\ hex \in Seq(CompilerWords) /\ DOMAIN hex = 1..Len(hex) /\ Len(hex) \in Nat
      /\ \A i \in 1..Len(hex) : hex[i] \in CompilerWords
  BY LenProperties, ElementOfSeq DEF Inv, Shape
<1>3. DOMAIN blockToPC \subseteq Names
  BY MapOK DEF Inv
<1>4. text \in Seq(Lines)
  BY <1>2, <1>3, DisassemblyMeans, Zenon
<1>5. \A i \in 1..Len(text) : i \in 1..Len(hex) /\ text[i] = Disassembled(hex[i])
  <2>1. DOMAIN text = 1..Len(text)
    BY <1>4, LenProperties, Zenon
  <2> QED
    BY <1>2, <2>1
<1> HIDE DEF text
<1>6. TargetsOf(text) \subseteq {NoLabel}
  <2>1. ASSUME NEW i \in 1..Len(text), text[i].mnemonic \in Jumps
        PROVE  text[i].name = NoLabel
    <3>1. hex[i] \in CompilerWords /\ text[i] = Disassembled(hex[i])
      BY <1>2, <1>5
    <3> QED
      BY <2>1, <3>1, DisassembledHasNoName, Zenon
  <2> QED
    BY <2>1 DEF TargetsOf
<1> QED
  BY <1>1, <1>6, PlainGiveStep

\* A label that has been read is known.
LEMMA PlainLabelStep == Inv /\ PlainInv /\ ParseLabel => PlainInv'
<1> SUFFICES ASSUME Inv, PlainInv, ParseLabel PROVE PlainInv'
  OBVIOUS
<1>1. /\ stage = "parse" /\ stage' = stage /\ source' = source
      /\ labels' = With(labels, source[lineNum + 1].name, Len(instructions))
      /\ lineNum' = lineNum + 1 /\ instructions' = instructions /\ SameCode
  BY DEF ParseLabel, NextLine, compilerVars, layoutVars, emitVars, SameCode
<1>2. lineNum \in Nat
  BY DEF Inv, Shape
<1>3. ASSUME PlainNames
      PROVE  Closed'
  <2>1. Closed
    BY <1>1, <1>3 DEF PlainInv, Compiling
  <2>2. DOMAIN labels' = DOMAIN labels \cup {source[lineNum + 1].name}
    BY <1>1, Zenon DEF With
  <2>3. \A k \in 1..lineNum' : k \in 1..lineNum \/ k = lineNum + 1
    BY <1>1, <1>2
  <2>4. \A k \in 1..lineNum' : IsLabel(source[k]) => source[k].name \in DOMAIN labels'
    BY <2>1, <2>2, <2>3 DEF Closed
  <2> QED
    BY <1>1, <2>1, <2>4, Zenon DEF Closed
<1> QED
  BY <1>1, <1>3, PlainSame

\* An instruction that has been read jumps to a label of the text.
LEMMA PlainInstructionStep == Inv /\ PlainInv /\ ParseInstruction => PlainInv'
<1> SUFFICES ASSUME Inv, PlainInv, ParseInstruction PROVE PlainInv'
  OBVIOUS
<1> DEFINE line == source[lineNum + 1]
<1>1. /\ stage = "parse" /\ stage' = stage /\ source' = source /\ lineNum < Len(source)
      /\ line.mnemonic \in Opcodes
      /\ instructions' = Append(instructions, Parsed(line))
      /\ lineNum' = lineNum + 1 /\ labels' = labels /\ SameCode
  BY DEF ParseInstruction, NextLine, compilerVars, layoutVars, emitVars, SameCode
<1>2. /\ source \in Seq(Lines) /\ Len(source) \in Nat /\ lineNum \in 0..(Len(source) - 1)
      /\ instructions \in Seq(ParsedLines) /\ Len(instructions) \in Nat
  BY <1>1, LenProperties DEF Inv, Shape
<1>3. lineNum + 1 \in 1..Len(source)
  BY <1>2
<1>4. line \in Lines
  BY <1>2, <1>3, ElementOfSeq
<1> HIDE DEF line
<1> DEFINE q == Parsed(line)
<1>5. ~IsLabel(line) /\ q \in ParsedLines
  BY <1>1, <1>4, LabelOrInstruction, Zenon DEF ParsedLines
<1>6. q.op \in Jumps => line.mnemonic \in Jumps /\ q.labelTarget = line.name
  BY <1>1, ParsedKeeps, Zenon
<1> HIDE DEF q
<1>7. /\ Len(instructions') = Len(instructions) + 1
      /\ \A i \in 1..Len(instructions) : instructions'[i] = instructions[i]
      /\ instructions'[Len(instructions) + 1] = q
  BY <1>1, <1>2, <1>5, AppendProperties DEF q
<1>8. ASSUME PlainNames
      PROVE  Closed'
  <2>1. Closed
    BY <1>1, <1>8 DEF PlainInv, Compiling
  <2>2. \A k \in 1..lineNum' : k \in 1..lineNum \/ k = lineNum + 1
    BY <1>1, <1>2
  <2>3. \A k \in 1..lineNum' : IsLabel(source[k]) => source[k].name \in DOMAIN labels'
    BY <1>1, <1>5, <2>1, <2>2 DEF Closed, line
  <2>4. q.op \in Jumps => q.labelTarget \in LabelsOf(source) \cup {NoLabel}
    <3>1. line.mnemonic \in Jumps => line.name \in TargetsOf(source)
      BY <1>3, Zenon DEF TargetsOf, line
    <3> QED
      BY <1>6, <2>1, <3>1 DEF Closed
  <2>5. \A i \in 1..Len(instructions') : i \in 1..Len(instructions) \/ i = Len(instructions) + 1
    BY <1>2, <1>7
  <2>6. ASSUME NEW i \in 1..Len(instructions'), instructions'[i].op \in Jumps
        PROVE  instructions'[i].labelTarget \in LabelsOf(source) \cup {NoLabel}
    <3>1. CASE i \in 1..Len(instructions)
      BY <1>7, <2>1, <2>6, <3>1, Zenon DEF Closed
    <3>2. CASE i = Len(instructions) + 1
      BY <1>7, <2>4, <2>6, <3>2, Zenon
    <3> QED
      BY <2>5, <3>1, <3>2
  <2> QED
    BY <1>1, <2>1, <2>3, <2>6, Zenon DEF Closed
<1> QED
  BY <1>1, <1>8, PlainSame

\* The assembler stops at a label that is not in its text: the names are not plain.
LEMMA PlainRejectStep == Inv /\ PlainInv /\ RejectLabel => PlainInv'
<1> SUFFICES ASSUME Inv, PlainInv, RejectLabel PROVE PlainInv'
  OBVIOUS
<1> DEFINE i == Len(machineCode) + 1
<1>1. /\ stage = "parse" /\ lineNum = Len(source) /\ Len(machineCode) < Len(instructions)
      /\ SameCode
  BY DEF RejectLabel, Linking, compilerVars, layoutVars, emitVars, SameCode
<1>2. /\ instructions[i].op \in Jumps /\ instructions[i].labelTarget # NoLabel
      /\ instructions[i].labelTarget \notin DOMAIN labels
  BY DEF RejectLabel, Undefined, NextInstruction
<1>3. i \in 1..Len(instructions)
  <2>1. machineCode \in Seq(Words) /\ instructions \in Seq(ParsedLines)
    BY DEF Inv, TypeOK, Shape
  <2>2. Len(machineCode) \in Nat /\ Len(instructions) \in Nat
    BY <2>1, LenProperties
  <2> QED
    BY <1>1, <2>2
<1> HIDE DEF i
<1>4. ~PlainNames
  <2> SUFFICES ASSUME PlainNames PROVE FALSE
    OBVIOUS
  <2>1. Closed
    BY <1>1 DEF PlainInv, Compiling
  <2>2. instructions[i].labelTarget \in LabelsOf(source)
    BY <1>2, <1>3, <2>1 DEF Closed
  <2>3. PICK k \in 1..Len(source) :
          IsLabel(source[k]) /\ source[k].name = instructions[i].labelTarget
    BY <2>2, Zenon DEF LabelsOf
  <2> QED
    BY <1>1, <1>2, <2>1, <2>3 DEF Closed
<1> QED
  BY <1>1, <1>4, PlainSame

\* Every step keeps what plain names are good for.
LEMMA PlainStep == Inv /\ PlainInv /\ [Next]_vars => PlainInv'
<1> SUFFICES ASSUME Inv, PlainInv, [Next]_vars PROVE PlainInv'
  OBVIOUS
<1>1. CASE StartEmitter
  BY <1>1, PlainSame DEF StartEmitter, layoutVars, emitVars, SameCode, Compiling
<1>2. CASE RecordBlock
  BY <1>2, PlainSame DEF RecordBlock, emitVars, SameCode, Compiling
<1>3. CASE LinkInstruction
  <2>1. SameCode /\ stage = "parse" /\ stage' = stage
    BY <1>3 DEF LinkInstruction, Linking, compilerVars, layoutVars, emitVars, SameCode
  <2>2. source' = source /\ lineNum' = lineNum /\ labels' = labels /\ instructions' = instructions
    BY <1>3 DEF LinkInstruction
  <2>3. PlainNames => Closed
    BY <2>1 DEF PlainInv, Compiling
  <2>4. Closed' = Closed
    BY <2>2, Zenon DEF Closed
  <2> QED
    BY <2>1, <2>3, <2>4, PlainSame
<1>4. CASE Assembled
  <2>1. SameCode /\ stage = "parse" /\ stage' = "assembled"
    BY <1>4 DEF Assembled, compilerVars, layoutVars, emitVars, SameCode
  <2>2. source' = source /\ lineNum' = lineNum /\ labels' = labels /\ instructions' = instructions
    BY <1>4 DEF Assembled
  <2>3. PlainNames => Closed
    BY <2>1 DEF PlainInv, Compiling
  <2>4. Closed' = Closed
    BY <2>2, Zenon DEF Closed
  <2> QED
    BY <2>1, <2>3, <2>4, PlainSame
<1>5. CASE UNCHANGED vars
  <2>1. SameCode /\ stage' = stage
    BY <1>5 DEF vars, layoutVars, emitVars, SameCode
  <2>2. source' = source /\ lineNum' = lineNum /\ labels' = labels /\ instructions' = instructions
    BY <1>5 DEF vars, asmVars
  <2>3. PlainNames => (~Compiling => Closed) /\ stage # "rejected"
    BY DEF PlainInv
  <2>4. Closed' = Closed /\ Compiling' = Compiling
    BY <2>1, <2>2, Zenon DEF Closed, Compiling
  <2> QED
    BY <2>1, <2>3, <2>4, PlainSame
<1> QED
  BY <1>1, <1>2, <1>3, <1>4, <1>5, PlainSelectStep, PlainEmitStep, PlainListingStep,
     PlainDisassemblyStep, PlainLabelStep, PlainInstructionStep, PlainRejectStep, Zenon DEF Next

\* PlainNamesAssemble for every module: if no name in an SSY has a capital,
\* "s2r" or "sync" in it, the assembler rejects no text of the compiler or the disassembler.
THEOREM PlainNamesAssembleAlways == Spec => []PlainNamesAssemble
<1>1. Init => PlainInv
  BY DEF Init, PlainInv, Compiling, JumpsWithin, TargetsOf
<1>2. Inv /\ PlainInv /\ [Next]_vars => PlainInv'
  BY PlainStep
<1>3. PlainInv => PlainNamesAssemble
  BY DEF PlainInv, PlainNamesAssemble
<1> QED
  BY <1>1, <1>2, <1>3, Invariance, PTL DEF Spec

-----------------------------------------------------------------------------
(* The jumps reach their blocks when the names are plain.  origin[k] is the *)
(* function and the number in it that the k-th block of the emitter is of;  *)
(* origins come in order, so the blocks before a block of the source are    *)
(* those before it in the emitter, and the sum of their sizes is the        *)
(* address the emitter gave it.                                             *)

Comes(p, q) == p[1] < q[1] \/ (p[1] = q[1] /\ p[2] < q[2])

Origins(origin, functions, blocks, n) ==
  /\ origin \in [1..Len(blocks) -> Nat \X Nat]
  /\ \A k \in 1..Len(blocks) :
       /\ origin[k][1] \in 1..n
       /\ origin[k][2] \in DOMAIN functions[origin[k][1]]
       /\ blocks[k] = SelectedBlock(functions[origin[k][1]][origin[k][2]])
  /\ \A f \in 1..n : \A b \in DOMAIN functions[f] :
       \E k \in 1..Len(blocks) : origin[k] = <<f, b>>
  /\ \A j, k \in 1..Len(blocks) : j < k => Comes(origin[j], origin[k])

\* The words of the first n blocks are at their addresses.
Written(start, blocks, n, map, words) ==
  \A b \in 1..n :
    /\ start[b] + Len(blocks[b].code) <= Len(words)
    /\ \A i \in 1..Len(blocks[b].code) :
         words[start[b] + i] = Encode(Resolved(blocks[b].code[i], map, start[b] + i - 1))

Placed == \E origin : Origins(origin, kernel, basicBlocks, selected)

Addressed ==
  \E start : /\ LaidOut(start, basicBlocks, recorded, blockToPC, pc)
             /\ start[emitted + 1] = Len(hex)
             /\ Written(start, basicBlocks, emitted, blockToPC, hex)

ReachInv ==
  /\ Placed
  /\ stage # "select" => selected = Len(kernel)
  /\ stage = "layout" => Addressed

\* One more function puts its blocks behind the others.
LEMMA OneMoreFunction ==
  ASSUME NEW functions \in Seq(Seq(BlockCode)), NEW n \in 0..(Len(functions) - 1),
         NEW blocks \in Seq(BlockCode), NEW origin, Origins(origin, functions, blocks, n)
  PROVE  \E origin2 : Origins(origin2, functions,
           blocks \o [b \in DOMAIN functions[n + 1] |-> SelectedBlock(functions[n + 1][b])], n + 1)
<1> DEFINE f   == functions[n + 1]
           new == [b \in DOMAIN f |-> SelectedBlock(f[b])]
           m == Len(blocks)  l == Len(f)  all == blocks \o new
           origin2 == [k \in 1..(m + l) |-> IF k <= m THEN origin[k] ELSE <<n + 1, k - m>>]
<1>1. m \in Nat /\ n \in Nat /\ Len(functions) \in Nat /\ n + 1 \in 1..Len(functions)
  BY LenProperties
<1>2. f \in Seq(BlockCode)
  BY <1>1, ElementOfSeq
<1>3. l \in Nat /\ DOMAIN f = 1..l
  BY <1>2, LenProperties
<1>4. new \in Seq(BlockCode) /\ Len(new) = l /\ \A b \in 1..l : new[b] = SelectedBlock(f[b])
  <2>1. new \in Seq(BlockCode)
    <3> HIDE DEF f
    <3> QED
      BY <1>2, FunctionSelected, Zenon
  <2>2. DOMAIN new = 1..l
    BY <1>3
  <2>3. Len(new) = l
    <3> HIDE DEF new, l
    <3> QED
      BY <1>3, <2>1, <2>2, LenProperties
  <2> QED
    BY <1>3, <2>1, <2>3
<1> HIDE DEF new
<1>5. /\ Len(all) = m + l
      /\ \A k \in 1..(m + l) : all[k] = IF k <= m THEN blocks[k] ELSE new[k - m]
  <2> HIDE DEF l
  <2> QED
    BY <1>4, ConcatProperties
<1> HIDE DEF all, m, l, f
<1>6. /\ origin \in [1..m -> Nat \X Nat]
      /\ \A k \in 1..m : /\ origin[k][1] \in 1..n
                         /\ origin[k][2] \in DOMAIN functions[origin[k][1]]
                         /\ blocks[k] = SelectedBlock(functions[origin[k][1]][origin[k][2]])
      /\ \A g \in 1..n : \A b \in DOMAIN functions[g] : \E k \in 1..m : origin[k] = <<g, b>>
      /\ \A j, k \in 1..m : j < k => Comes(origin[j], origin[k])
  BY Zenon DEF Origins, m
<1>7. /\ origin2 \in [1..(m + l) -> Nat \X Nat]
      /\ \A k \in 1..m : k \in 1..(m + l) /\ origin2[k] = origin[k]
      /\ \A b \in 1..l : m + b \in 1..(m + l) /\ origin2[m + b] = <<n + 1, b>>
  <2>1. ASSUME NEW k \in 1..(m + l)
        PROVE  (IF k <= m THEN origin[k] ELSE <<n + 1, k - m>>) \in Nat \X Nat
    <3>1. CASE k <= m
      <4>1. k \in 1..m
        BY <1>1, <3>1
      <4> QED
        BY <1>6, <3>1, <4>1
    <3>2. CASE ~(k <= m)
      BY <1>1, <1>3, <3>2
    <3> QED
      BY <3>1, <3>2
  <2>2. origin2 \in [1..(m + l) -> Nat \X Nat]
    BY <2>1
  <2>3. \A k \in 1..m : k \in 1..(m + l) /\ origin2[k] = origin[k]
    BY <1>1, <1>3
  <2>4. ASSUME NEW b \in 1..l
        PROVE  m + b \in 1..(m + l) /\ origin2[m + b] = <<n + 1, b>>
    <3>1. m + b \in 1..(m + l) /\ ~(m + b <= m) /\ (m + b) - m = b
      BY <1>1, <1>3
    <3> QED
      BY <3>1
  <2> QED
    BY <2>2, <2>3, <2>4, Zenon
<1> HIDE DEF origin2
<1>8. \A k \in 1..(m + l) : k \in 1..m \/ \E b \in 1..l : k = m + b
  <2> SUFFICES ASSUME NEW k \in 1..(m + l), k \notin 1..m
               PROVE  k - m \in 1..l /\ k = m + (k - m)
    BY Zenon
  <2> QED
    BY <1>1, <1>3
<1>9. \A k \in 1..m : all[k] = blocks[k]
  BY <1>1, <1>3, <1>5
<1>10. \A b \in 1..l : all[m + b] = SelectedBlock(f[b])
  <2> TAKE b \in 1..l
  <2>1. m + b \in 1..(m + l) /\ ~(m + b <= m) /\ (m + b) - m = b
    BY <1>1, <1>3
  <2> QED
    BY <1>4, <1>5, <2>1
<1>11. ASSUME NEW k \in 1..(m + l)
       PROVE  /\ origin2[k][1] \in 1..(n + 1)
              /\ origin2[k][2] \in DOMAIN functions[origin2[k][1]]
              /\ all[k] = SelectedBlock(functions[origin2[k][1]][origin2[k][2]])
  <2>1. CASE k \in 1..m
    <3>1. origin[k][1] \in 1..(n + 1)
      BY <1>1, <1>6, <2>1
    <3> QED
      BY <1>6, <1>7, <1>9, <2>1, <3>1, Zenon
  <2>2. ASSUME NEW b \in 1..l, k = m + b
        PROVE  /\ origin2[k][1] \in 1..(n + 1)
               /\ origin2[k][2] \in DOMAIN functions[origin2[k][1]]
               /\ all[k] = SelectedBlock(functions[origin2[k][1]][origin2[k][2]])
    <3>1. /\ origin2[k] = <<n + 1, b>> /\ n + 1 \in 1..(n + 1)
          /\ all[k] = SelectedBlock(functions[n + 1][b])
      BY <1>1, <1>7, <1>10, <2>2 DEF f
    <3>2. b \in DOMAIN functions[n + 1]
      BY <1>3 DEF f
    <3> QED
      BY <3>1, <3>2
  <2> QED
    BY <1>8, <2>1, <2>2, Zenon
<1>12. ASSUME NEW g \in 1..(n + 1), NEW b \in DOMAIN functions[g]
       PROVE  \E k \in 1..(m + l) : origin2[k] = <<g, b>>
  <2>1. CASE g \in 1..n
    BY <1>6, <1>7, <2>1
  <2>2. CASE g = n + 1
    <3>1. b \in 1..l
      BY <1>3, <2>2 DEF f
    <3> QED
      BY <1>7, <2>2, <3>1
  <2> QED
    BY <1>1, <2>1, <2>2
<1>13. ASSUME NEW j \in 1..(m + l), NEW k \in 1..(m + l), j < k
       PROVE  Comes(origin2[j], origin2[k])
  <2>1. CASE k \in 1..m
    <3>1. j \in 1..m
      BY <1>1, <1>3, <1>13, <2>1
    <3> QED
      BY <1>6, <1>7, <1>13, <2>1, <3>1, Zenon
  <2>2. ASSUME NEW b \in 1..l, k = m + b
        PROVE  Comes(origin2[j], origin2[k])
    <3>1. origin2[k] = <<n + 1, b>>
      BY <1>7, <2>2
    <3>2. CASE j \in 1..m
      <4>1. origin2[j][1] \in 1..n
        BY <1>6, <1>7, <3>2
      <4> QED
        BY <1>1, <3>1, <4>1 DEF Comes
    <3>3. ASSUME NEW a \in 1..l, j = m + a
          PROVE  Comes(origin2[j], origin2[k])
      <4>1. origin2[j] = <<n + 1, a>> /\ a < b
        <5>1. a < b
          BY <1>1, <1>3, <1>13, <2>2, <3>3
        <5> QED
          BY <1>7, <3>3, <5>1, Zenon
      <4> QED
        BY <3>1, <4>1 DEF Comes
    <3> QED
      BY <1>8, <3>2, <3>3, Zenon
  <2> QED
    BY <1>8, <2>1, <2>2, Zenon
<1>14. Origins(origin2, functions, all, n + 1)
  <2>1. Len(all) = m + l
    BY <1>5
  <2>2. origin2 \in [1..Len(all) -> Nat \X Nat]
    BY <1>7, <2>1
  <2>3. \A k \in 1..Len(all) : /\ origin2[k][1] \in 1..(n + 1)
                              /\ origin2[k][2] \in DOMAIN functions[origin2[k][1]]
                              /\ all[k] = SelectedBlock(functions[origin2[k][1]][origin2[k][2]])
    BY <1>11, <2>1, Zenon
  <2>4. \A g \in 1..(n + 1) : \A b \in DOMAIN functions[g] :
          \E k \in 1..Len(all) : origin2[k] = <<g, b>>
    BY <1>12, <2>1, Zenon
  <2>5. \A j, k \in 1..Len(all) : j < k => Comes(origin2[j], origin2[k])
    BY <1>13, <2>1, Zenon
  <2> QED
    BY <2>2, <2>3, <2>4, <2>5, Zenon DEF Origins
<1> QED
  BY <1>14, Zenon DEF all, new, f

\* An offset that fits its bits is the offset of the word.
LEMMA OffsetKept ==
  ASSUME NEW mi \in AnyInstruction, mi.op \in Jumps, mi.imm \in -(2^18)..(2^18 - 1)
  PROVE  Encode(mi).op = mi.op /\ SignExtended(Encode(mi).body % 2^19, 19) = mi.imm
<1> DEFINE low == mi.imm % 2^19
<1>1. Encodable(mi)
  BY AnyIsEncodable
<1>2. Encode(mi) = Word(mi.op, Condition(mi) * 2^19 + low)
  BY <1>1, EncodeIs, Zenon DEF Body
<1>3. Condition(mi) \in 0..7 /\ low \in 0..(2^19 - 1)
  BY <1>1, FieldRanges
<1>4. Encode(mi).op = mi.op /\ Encode(mi).body % 2^19 = low
  <2> DEFINE body == Condition(mi) * 2^19 + low
  <2>1. body % 2^19 = low
    BY <1>3, JumpFields, Zenon
  <2> HIDE DEF body, low
  <2>2. Encode(mi).op = mi.op /\ Encode(mi).body = body
    BY <1>2 DEF Word, body
  <2> QED
    BY <2>1, <2>2, Zenon
<1>5. SignExtended(low, 19) = mi.imm
  <2> DEFINE d == 2^19  h == 2^(19 - 1)  q == 2^18
  <2>1. h \in Nat \ {0} /\ h = q /\ d = 2 * h
    BY SMT
  <2>2. SignExtended(low, 19) = IF low < h THEN low ELSE low - d
    BY Zenon DEF SignExtended
  <2>3. low = mi.imm % d /\ mi.imm \in -q..(q - 1)
    BY Zenon
  <2> HIDE DEF d, h, q, low
  <2>4. low = IF mi.imm < 0 THEN mi.imm + d ELSE mi.imm
    <3>1. CASE mi.imm < 0
      <4> DEFINE r == mi.imm + d
      <4>1. mi.imm = (-1) * d + r /\ r \in 0..(d - 1) /\ d \in Nat \ {0} /\ -1 \in Int
        BY <2>1, <2>3, <3>1
      <4> HIDE DEF r
      <4>2. ((-1) * d + r) % d = r
        BY <4>1, Division, Zenon
      <4>3. low = r
        BY <2>3, <4>1, <4>2, Zenon
      <4> QED
        BY <3>1, <4>3 DEF r
    <3>2. CASE ~(mi.imm < 0)
      <4>1. mi.imm \in 0..(d - 1) /\ d \in Nat \ {0} /\ mi.imm \in Int
        BY <2>1, <2>3, <3>2
      <4>2. mi.imm % d = mi.imm
        BY <4>1, Remainder
      <4> QED
        BY <2>3, <3>2, <4>2, Zenon
    <3> QED
      BY <3>1, <3>2
  <2> QED
    BY <2>1, <2>2, <2>3, <2>4
<1> QED
  BY <1>4, <1>5, Zenon

\* The offsets below a limit that the words keep.
KeepsOffsets(limit) ==
  \A mi \in AnyInstruction : mi.op \in Jumps /\ mi.imm \in -limit..(limit - 1) =>
    Encode(mi).op = mi.op /\ SignExtended(Encode(mi).body % 2^19, 19) = mi.imm

\* A set of natural numbers has a least one.
LEMMA LeastNumber ==
  ASSUME NEW S \in SUBSET Nat, S # {}
  PROVE  \E k \in S : \A j \in S : k <= j
<1> DEFINE Less == OpToRel(<, Nat)
<1>1. IsWellFoundedOn(Less, Nat)
  BY NatLessThanWellFounded
<1>2. \A x, y \in Nat : <<y, x>> \notin Less => ~ (y < x)
  BY Zenon DEF OpToRel
<1> HIDE DEF Less
<1>3. PICK k \in S : \A j \in S : <<j, k>> \notin Less
  BY <1>1, WFMin
<1>4. \A j \in S : ~ (j < k)
  BY <1>2, <1>3, Zenon
<1> QED
  BY <1>4

\* The places of the instructions of the first blocks, and how many they are:
\* the sum of the sizes of these blocks.
Places(origin, size, k) == UNION {{origin[j]} \X (1..size[j]) : j \in 1..(k - 1)}

Counts(origin, size, start, k) ==
  /\ IsFiniteSet(Places(origin, size, k))
  /\ Cardinality(Places(origin, size, k)) = start[k]

Distinct(origin, n) == \A j, k \in 1..n : origin[j] = origin[k] => j = k

Sums(start, size, n) == start[1] = 0 /\ \A k \in 1..n : start[k + 1] = start[k] + size[k]

LEMMA CountOneMore ==
  ASSUME NEW n \in Nat, NEW origin, NEW size \in [1..n -> Nat], NEW start,
         Sums(start, size, n), Distinct(origin, n),
         NEW k \in 1..n, Counts(origin, size, start, k)
  PROVE  Counts(origin, size, start, k + 1)
<1> DEFINE old == Places(origin, size, k)  new == {origin[k]} \X (1..size[k])
<1>1. Places(origin, size, k + 1) = old \cup new
  <2>1. \A j : j \in 1..((k + 1) - 1) <=> (j \in 1..(k - 1) \/ j = k)
    OBVIOUS
  <2> DEFINE part(j) == {origin[j]} \X (1..size[j])
  <2>2. /\ Places(origin, size, k + 1) = UNION {part(j) : j \in 1..((k + 1) - 1)}
        /\ old = UNION {part(j) : j \in 1..(k - 1)}
        /\ new = part(k)
    BY Zenon DEF Places
  <2> HIDE DEF part, old, new
  <2>3. \A x : x \in Places(origin, size, k + 1) <=> x \in old \cup new
    BY <2>1, <2>2
  <2> QED
    BY <2>3, Zenon
<1>2. IsFiniteSet(new) /\ Cardinality(new) = size[k]
  <2>1. size[k] \in Nat
    OBVIOUS
  <2>2. IsFiniteSet(1..size[k]) /\ Cardinality(1..size[k]) = size[k]
    <3>1. size[k] = size[k] - 1 + 1 /\ 1 \in Int /\ size[k] \in Int
      BY <2>1
    <3>2. IsFiniteSet(1..size[k])
      BY <3>1, FS_Interval, Zenon
    <3>3. Cardinality(1..size[k]) = IF 1 > size[k] THEN 0 ELSE size[k] - 1 + 1
      BY <3>1, FS_Interval, Zenon
    <3> HIDE DEF new
    <3> QED
      BY <2>1, <3>2, <3>3
  <2>3. IsFiniteSet({origin[k]}) /\ Cardinality({origin[k]}) = 1
    BY FS_Singleton, Zenon
  <2>4. IsFiniteSet(new) /\ Cardinality(new) = Cardinality({origin[k]}) * Cardinality(1..size[k])
    BY <2>2, <2>3, FS_Product, Zenon
  <2> QED
    BY <2>1, <2>2, <2>3, <2>4
<1>3. old \cap new = {}
  <2> SUFFICES ASSUME NEW p \in old, p \in new PROVE FALSE
    BY Zenon
  <2>1. PICK j \in 1..(k - 1) : p \in {origin[j]} \X (1..size[j])
    BY Zenon DEF Places
  <2>2. p[1] = origin[j] /\ p[1] = origin[k]
    BY <2>1
  <2>3. j \in 1..n /\ j # k
    BY <2>1
  <2> QED
    BY <2>2, <2>3, Zenon DEF Distinct
<1>4. IsFiniteSet(old) /\ Cardinality(old) = start[k]
  BY Zenon DEF Counts
<1>5. /\ IsFiniteSet(old \cup new)
      /\ Cardinality(old \cup new) = Cardinality(old) + Cardinality(new) - Cardinality({})
  <2> HIDE DEF old, new
  <2>1. Cardinality(old \cup new) = Cardinality(old) + Cardinality(new) - Cardinality(old \cap new)
    BY <1>2, <1>4, FS_Union, Zenon
  <2> QED
    BY <1>2, <1>3, <1>4, <2>1, FS_Union, Zenon
<1>6. Cardinality({}) = 0 /\ Cardinality(old) \in Nat
  BY <1>4, FS_EmptySet, FS_CardinalityType, Zenon
<1> HIDE DEF old, new
<1>7. Cardinality(old \cup new) = start[k] + size[k]
  BY <1>2, <1>4, <1>5, <1>6
<1>8. start[k + 1] = start[k] + size[k]
  BY Zenon DEF Sums
<1> QED
  BY <1>1, <1>5, <1>7, <1>8, Zenon DEF Counts

LEMMA CountPlaces ==
  ASSUME NEW n \in Nat, NEW origin, NEW size \in [1..n -> Nat], NEW start,
         Sums(start, size, n), Distinct(origin, n),
         NEW m \in 1..(n + 1)
  PROVE  Cardinality(Places(origin, size, m)) = start[m]
<1> DEFINE Bad == {k \in 1..(n + 1) : ~Counts(origin, size, start, k)}
<1>1. Bad = {}
  <2> SUFFICES ASSUME Bad # {} PROVE FALSE
    OBVIOUS
  <2>1. PICK k \in Bad : \A j \in Bad : k <= j
    <3>1. Bad \in SUBSET Nat
      OBVIOUS
    <3> HIDE DEF Bad
    <3> QED
      BY <3>1, LeastNumber
  <2>2. CASE k = 1
    <3>1. \A j : j \notin 1..(1 - 1)
      OBVIOUS
    <3>2. Places(origin, size, 1) = {}
      BY <3>1, Zenon DEF Places
    <3>3. Counts(origin, size, start, 1)
      BY <3>2, FS_EmptySet, Zenon DEF Counts, Sums
    <3> QED
      BY <2>2, <3>3
  <2>3. CASE k # 1
    <3>1. k - 1 \in 1..n /\ k - 1 \in 1..(n + 1) /\ (k - 1) + 1 = k /\ ~(k <= k - 1)
      BY <2>3
    <3>2. Counts(origin, size, start, k - 1)
      BY <2>1, <3>1
    <3>3. Counts(origin, size, start, (k - 1) + 1)
      BY <3>1, <3>2, CountOneMore, Zenon
    <3> QED
      BY <3>1, <3>3
  <2> QED
    BY <2>2, <2>3
<1>2. Counts(origin, size, start, m)
  BY <1>1
<1> QED
  BY <1>2 DEF Counts


\* Selection keeps a block's name and size, and, when the names are plain, the
\* targets of its jumps.
LEMMA SelectedSize ==
  ASSUME NEW block \in BlockCode
  PROVE  /\ SelectedBlock(block) \in BlockCode
         /\ SelectedBlock(block).name = block.name
         /\ Len(block.code) \in Nat /\ DOMAIN block.code = 1..Len(block.code)
         /\ Len(SelectedBlock(block).code) = Len(block.code)
         /\ \A i \in 1..Len(block.code) :
              block.code[i] \in Instructions
                /\ SelectedBlock(block).code[i] = Selected(block.code[i])
<1> DEFINE n == Len(block.code)
           new == [i \in DOMAIN block.code |-> Selected(block.code[i])]
<1>1. block.code \in Seq(Instructions) /\ block.name \in Names
  BY DEF BlockCode
<1>2. n \in Nat /\ DOMAIN block.code = 1..n /\ \A i \in 1..n : block.code[i] \in Instructions
  BY <1>1, LenProperties, ElementOfSeq
<1> HIDE DEF n
<1>3. new \in [1..n -> Instructions]
  BY <1>2, SelectedOK
<1>4. new \in Seq(Instructions) /\ Len(new) = n /\ \A i \in 1..n : new[i] = Selected(block.code[i])
  BY <1>2, <1>3
<1>5. SelectedBlock(block) = [name |-> block.name, code |-> new]
  BY Zenon DEF SelectedBlock
<1> HIDE DEF new
<1>6. SelectedBlock(block).code = new /\ SelectedBlock(block).name = block.name
  BY <1>5
<1>7. SelectedBlock(block) \in BlockCode
  BY <1>1, <1>4, <1>5 DEF BlockCode
<1> QED
  BY <1>2, <1>4, <1>6, <1>7, Zenon DEF n

LEMMA PlainJump ==
  ASSUME NEW mi \in Instructions, mi.op \in Jumps,
         mi.op = "SSY" => IsPlain(mi.labelTarget)
  PROVE  Selected(mi).op = mi.op /\ Selected(mi).labelTarget = mi.labelTarget
BY DEF Selected, MachineInstruction, IsPlain

\* A block cannot come before itself, nor two before each other.
LEMMA Order ==
  ASSUME NEW p \in Nat \X Nat, NEW q \in Nat \X Nat
  PROVE  ~(Comes(p, q) /\ Comes(q, p)) /\ ~Comes(p, p)
BY DEF Comes

LEMMA OriginsDiffer ==
  ASSUME NEW functions, NEW blocks \in Seq(BlockCode), NEW n, NEW origin,
         Origins(origin, functions, blocks, n),
         NEW j \in 1..Len(blocks), NEW k \in 1..Len(blocks)
  PROVE  /\ origin[j] = origin[k] => j = k
         /\ Comes(origin[j], origin[k]) => j < k
<1>1. j \in Nat /\ k \in Nat
  BY LenProperties
<1>2. /\ origin[j] \in Nat \X Nat /\ origin[k] \in Nat \X Nat
      /\ j < k => Comes(origin[j], origin[k])
      /\ k < j => Comes(origin[k], origin[j])
  BY DEF Origins
<1>3. ~(Comes(origin[j], origin[k]) /\ Comes(origin[k], origin[j]))
  BY <1>2, Order, Zenon
<1>4. ~Comes(origin[j], origin[j]) /\ ~Comes(origin[k], origin[k])
  BY <1>2, Order, Zenon
<1>5. j = k \/ j < k \/ k < j
  BY <1>1
<1> QED
  BY <1>2, <1>3, <1>4, <1>5

\* The blocks before a block of the source are before it in the emitter.
Firsts(origin, k) == {origin[j] : j \in 1..(k - 1)}

LEMMA SameBlocksBefore ==
  ASSUME NEW n \in Nat, NEW blocks \in Seq(BlockCode), NEW origin,
         Origins(origin, kernel, blocks, n), NEW k \in 1..Len(blocks),
         \A g \in 1..n : DOMAIN kernel[g] \subseteq Nat
  PROVE  BlocksBefore(origin[k][1], origin[k][2]) = Firsts(origin, k)
<1> DEFINE f == origin[k][1]  b == origin[k][2]
<1>1. Len(blocks) \in Nat
  BY LenProperties
<1>2. /\ \A j \in 1..Len(blocks) : /\ origin[j] \in Nat \X Nat
                                   /\ origin[j][1] \in 1..n
                                   /\ origin[j][2] \in DOMAIN kernel[origin[j][1]]
      /\ \A g \in 1..n : \A c \in DOMAIN kernel[g] :
           \E j \in 1..Len(blocks) : origin[j] = <<g, c>>
      /\ \A j \in 1..Len(blocks) : j < k => Comes(origin[j], origin[k])
  BY DEF Origins
<1>3. origin[k] = <<f, b>> /\ f \in 1..n /\ b \in Nat
  BY <1>2
<1>4. \A p : p \in BlocksBefore(f, b) <=>
              \E g \in 1..f : \E c \in DOMAIN kernel[g] : p = <<g, c>> /\ (g < f \/ c < b)
  <2> DEFINE part(g) == {<<g, c>> : c \in {x \in DOMAIN kernel[g] : g < f \/ x < b}}
  <2>1. \A g, p : p \in part(g) <=> \E c \in DOMAIN kernel[g] : p = <<g, c>> /\ (g < f \/ c < b)
    OBVIOUS
  <2>2. BlocksBefore(f, b) = UNION {part(g) : g \in 1..f}
    BY Zenon DEF BlocksBefore
  <2> HIDE DEF part, f, b
  <2>3. \A p : p \in BlocksBefore(f, b) <=> \E g \in 1..f : p \in part(g)
    BY <2>2
  <2> QED
    BY <2>1, <2>3, Zenon
<1> HIDE DEF f, b
<1>5. ASSUME NEW g \in 1..f, NEW c \in DOMAIN kernel[g], g < f \/ c < b
      PROVE  \E j \in 1..(k - 1) : <<g, c>> = origin[j]
  <2>1. g \in 1..n
    BY <1>3
  <2>2. PICK j \in 1..Len(blocks) : origin[j] = <<g, c>>
    BY <1>2, <2>1, Zenon
  <2>3. c \in Nat
    BY <2>1
  <2>4. Comes(<<g, c>>, <<f, b>>)
    BY <1>3, <1>5, <2>3 DEF Comes
  <2>5. j < k
    <3>1. Comes(origin[j], origin[k])
      BY <1>3, <2>2, <2>4, Zenon
    <3> QED
      BY <3>1, OriginsDiffer, Zenon
  <2>6. j \in 1..(k - 1)
    BY <1>1, <2>5
  <2> QED
    BY <2>2, <2>6, Zenon
<1>6. ASSUME NEW j \in 1..(k - 1)
      PROVE  \E g \in 1..f : \E c \in DOMAIN kernel[g] : origin[j] = <<g, c>> /\ (g < f \/ c < b)
  <2>1. j \in 1..Len(blocks) /\ j < k
    BY <1>1
  <2>2. PICK g \in Nat, c \in Nat : origin[j] = <<g, c>>
    BY <1>2, <2>1
  <2>3. g \in 1..n /\ c \in DOMAIN kernel[g] /\ Comes(<<g, c>>, <<f, b>>)
    <3>1. origin[j][1] = g /\ origin[j][2] = c
      BY <2>2
    <3> QED
      BY <1>2, <1>3, <2>1, <2>2, <3>1, Zenon
  <2>4. g \in 1..f /\ (g < f \/ c < b)
    BY <1>3, <2>3 DEF Comes
  <2> QED
    BY <2>2, <2>3, <2>4, Zenon
<1>7. BlocksBefore(f, b) = Firsts(origin, k)
  <2> DEFINE B == BlocksBefore(f, b)  O == Firsts(origin, k)
  <2>1. ASSUME NEW p \in B PROVE p \in O
    <3>0. PICK g \in 1..f : \E c \in DOMAIN kernel[g] : p = <<g, c>> /\ (g < f \/ c < b)
      BY <1>4, Zenon
    <3>1. PICK c \in DOMAIN kernel[g] : p = <<g, c>> /\ (g < f \/ c < b)
      BY <3>0, Zenon
    <3>2. \E j \in 1..(k - 1) : <<g, c>> = origin[j]
      BY <1>5, <3>1
    <3> QED
      BY <3>1, <3>2, Zenon DEF Firsts
  <2>2. ASSUME NEW p \in O PROVE p \in B
    <3>1. PICK j \in 1..(k - 1) : p = origin[j]
      BY Zenon DEF Firsts
    <3>2. \E g \in 1..f : \E c \in DOMAIN kernel[g] : p = <<g, c>> /\ (g < f \/ c < b)
      BY <1>6, <3>1
    <3> QED
      BY <1>4, <3>2, Zenon
  <2> QED
    BY <2>1, <2>2, Zenon
<1> QED
  BY <1>7, Zenon DEF f, b


\* The address the emitter gave to a block is its address in the source.
Follows(start, blocks) ==
  start[1] = 0 /\ \A j \in 1..Len(blocks) : start[j + 1] = start[j] + Len(blocks[j].code)

LEMMA AddressIs ==
  ASSUME NEW n \in Nat, NEW blocks \in Seq(BlockCode), NEW origin,
         Origins(origin, kernel, blocks, n),
         \A g \in 1..n : kernel[g] \in Seq(BlockCode),
         NEW start, Follows(start, blocks), NEW k \in 1..Len(blocks)
  PROVE  Address(origin[k][1], origin[k][2]) = start[k]
<1> DEFINE m == Len(blocks)  size == [j \in 1..m |-> Len(blocks[j].code)]
           f == origin[k][1]  b == origin[k][2]
           part(p) == {p} \X DOMAIN kernel[p[1]][p[2]].code
           part2(j) == {origin[j]} \X (1..size[j])
<1>1. m \in Nat /\ k \in 1..(m + 1)
  BY LenProperties
<1>2. ASSUME NEW j \in 1..m
      PROVE  /\ size[j] \in Nat /\ size[j] = Len(blocks[j].code)
             /\ DOMAIN kernel[origin[j][1]][origin[j][2]].code = 1..size[j]
  <2> DEFINE block == kernel[origin[j][1]][origin[j][2]]
  <2>1. /\ origin[j][1] \in 1..n /\ origin[j][2] \in DOMAIN kernel[origin[j][1]]
        /\ blocks[j] = SelectedBlock(block)
    BY Zenon DEF Origins
  <2>2. kernel[origin[j][1]] \in Seq(BlockCode)
    BY <2>1
  <2>3. block \in BlockCode
    BY <2>1, <2>2, LenProperties, ElementOfSeq
  <2>4. size[j] = Len(blocks[j].code)
    BY Zenon
  <2> HIDE DEF block, size
  <2>5. /\ Len(block.code) \in Nat /\ DOMAIN block.code = 1..Len(block.code)
        /\ Len(SelectedBlock(block).code) = Len(block.code)
    BY <2>3, SelectedSize, Zenon
  <2> QED
    BY <2>1, <2>4, <2>5 DEF block
<1>3. size \in [1..m -> Nat]
  <2>1. \A j \in 1..m : Len(blocks[j].code) \in Nat
    BY <1>2
  <2> QED
    BY <2>1
<1>4. Sums(start, size, m)
  BY <1>2, Zenon DEF Sums, Follows
<1>5. Distinct(origin, m)
  <2>1. ASSUME NEW i \in 1..m, NEW j \in 1..m, origin[i] = origin[j]
        PROVE  i = j
    BY <2>1, OriginsDiffer
  <2> QED
    BY <2>1 DEF Distinct
<1>6. Cardinality(Places(origin, size, k)) = start[k]
  <2>1. m \in Nat /\ k \in 1..(m + 1)
    BY <1>1
  <2> HIDE DEF m, size, f, b, part, part2
  <2> QED
    BY ONLY <1>3, <1>4, <1>5, <2>1, CountPlaces
<1>7. BlocksBefore(f, b) = Firsts(origin, k)
  <2>1. \A g \in 1..n : DOMAIN kernel[g] \subseteq Nat
    <3> TAKE g \in 1..n
    <3>1. kernel[g] \in Seq(BlockCode)
      OBVIOUS
    <3>2. DOMAIN kernel[g] = 1..Len(kernel[g]) /\ Len(kernel[g]) \in Nat
      BY <3>1, LenProperties
    <3> QED
      BY <3>2
  <2> QED
    BY <2>1, SameBlocksBefore, Zenon
<1>8. InstructionsBefore(f, b) = Places(origin, size, k)
  <2>1. /\ InstructionsBefore(f, b) = UNION {part(p) : p \in BlocksBefore(f, b)}
        /\ Places(origin, size, k) = UNION {part2(j) : j \in 1..(k - 1)}
    BY Zenon DEF InstructionsBefore, Places
  <2>2. \A j \in 1..(k - 1) : part(origin[j]) = part2(j)
    <3> TAKE j \in 1..(k - 1)
    <3>1. j \in 1..m
      BY <1>1
    <3> HIDE DEF size, m
    <3> QED
      BY <1>2, <3>1, Zenon
  <2> HIDE DEF part, part2, f, b, size
  <2>3. \A x : x \in InstructionsBefore(f, b) <=> \E p \in BlocksBefore(f, b) : x \in part(p)
    BY <2>1
  <2>4. \A x : x \in Places(origin, size, k) <=> \E j \in 1..(k - 1) : x \in part2(j)
    BY <2>1
  <2>5. \A x : x \in InstructionsBefore(f, b) <=> \E j \in 1..(k - 1) : x \in part(origin[j])
    BY <1>7, <2>3 DEF Firsts
  <2>6. \A x : x \in InstructionsBefore(f, b) <=> x \in Places(origin, size, k)
    BY <2>2, <2>4, <2>5
  <2> DEFINE left == InstructionsBefore(f, b)  right == Places(origin, size, k)
  <2>7. left = right
    <3>1. \A x : x \in left <=> x \in right
      BY <2>6, Zenon
    <3> HIDE DEF left, right
    <3> QED
      BY <3>1
  <2> QED
    BY <2>7, Zenon
<1> QED
  BY <1>6, <1>8, Zenon DEF Address


\* A name of the emitter's map is at the address of its only block.
Alone(blocks, n, k) == \A c \in 1..n : blocks[c].name = blocks[k].name => c = k

LEMMA OnlyBlock ==
  ASSUME NEW start, NEW blocks, NEW n, NEW map, NEW end, LaidOut(start, blocks, n, map, end),
         NEW k \in 1..n, Alone(blocks, n, k)
  PROVE  blocks[k].name \in DOMAIN map /\ map[blocks[k].name] = start[k]
<1>1. \A c \in (k + 1)..n : c \in 1..n /\ c # k
  OBVIOUS
<1> QED
  BY <1>1, Zenon DEF LaidOut, Alone

\* From an instruction of the code to a place in it or at its end.
LEMMA Distance ==
  ASSUME NEW x \in Nat, NEW y \in Nat, NEW i \in Nat \ {0}, NEW h \in Nat, NEW limit \in Nat,
         x <= h, y + i <= h, h < limit
  PROVE  x - (y + i - 1) \in -limit..(limit - 1)
BY SMT

\* The words lead where the module says once all of them are written.
LEMMA JumpsReach ==
  ASSUME Inv, ReachInv, Emitted, PlainNames,
         NEW limit \in Nat, KeepsOffsets(limit), Len(hex) < limit
  PROVE  JumpsReachTheirBlocks
<1> DEFINE n == Len(basicBlocks)
<1>1. /\ kernel \in Seq(Seq(BlockCode)) /\ Len(kernel) \in Nat /\ DOMAIN kernel = 1..Len(kernel)
      /\ \A f \in DOMAIN kernel : kernel[f] \in Seq(BlockCode) /\ IsFunction(kernel[f])
  <2>1. kernel \in Seq(Seq(BlockCode)) /\ \A f \in DOMAIN kernel : IsFunction(kernel[f])
    BY KernelsAssumption DEF Inv, Shape
  <2> QED
    BY <2>1, LenProperties, ElementOfSeq
<1>2. /\ basicBlocks \in Seq(BlockCode) /\ n \in Nat
      /\ selected = Len(kernel) /\ recorded = n /\ emitted = n
      /\ hex \in Seq(CompilerWords) /\ Len(hex) \in Nat
      /\ \A m \in DOMAIN blockToPC : blockToPC[m] \in Int
  BY MapOK, LenProperties DEF Inv, TypeOK, Shape, Emitted, ReachInv
<1>3. PICK origin : Origins(origin, kernel, basicBlocks, Len(kernel))
  BY <1>2, Zenon DEF ReachInv, Placed
<1>4. PICK start : /\ LaidOut(start, basicBlocks, n, blockToPC, pc)
                   /\ start[n + 1] = Len(hex)
                   /\ Written(start, basicBlocks, n, blockToPC, hex)
  BY <1>2, Zenon DEF ReachInv, Addressed, Emitted
<1> HIDE DEF n
<1>5. /\ start \in [1..(n + 1) -> Nat] /\ start[1] = 0 /\ pc = Len(hex)
      /\ \A k \in 1..(n + 1) : start[k] <= pc
      /\ \A k \in 1..n : start[k + 1] = start[k] + Len(basicBlocks[k].code)
  BY <1>4, Zenon DEF LaidOut
<1>6. ASSUME NEW k \in 1..n
      PROVE  Address(origin[k][1], origin[k][2]) = start[k]
  <2>1. \A g \in 1..Len(kernel) : kernel[g] \in Seq(BlockCode)
    BY <1>1, Zenon
  <2> QED
    <3>1. Follows(start, basicBlocks)
      BY <1>5, Zenon DEF Follows, n
    <3>2. k \in 1..Len(basicBlocks)
      BY DEF n
    <3> QED
      BY <1>1, <1>2, <1>3, <2>1, <3>1, <3>2, AddressIs
<1>7. ASSUME NEW f \in DOMAIN kernel, NEW b \in DOMAIN kernel[f]
      PROVE  \E k \in 1..n : /\ origin[k] = <<f, b>> /\ Address(f, b) = start[k]
                             /\ basicBlocks[k] = SelectedBlock(kernel[f][b])
  <2>1. PICK k \in 1..n : origin[k] = <<f, b>>
    BY <1>1, <1>3, Zenon DEF Origins, n
  <2>2. origin[k][1] = f /\ origin[k][2] = b
    BY <2>1
  <2>3. basicBlocks[k] = SelectedBlock(kernel[f][b])
    BY <1>3, <2>2, Zenon DEF Origins, n
  <2>4. Address(f, b) = start[k]
    BY <1>6, <2>2, Zenon
  <2> QED
    BY <2>1, <2>3, <2>4, Zenon
<1>8. ASSUME NEW f \in DOMAIN kernel, NEW t \in DOMAIN kernel[f]
      PROVE  LET name == kernel[f][t].name
             IN  name \in DOMAIN blockToPC /\ blockToPC[name] = Address(f, t)
  <2> DEFINE name == kernel[f][t].name
  <2>1. PICK k \in 1..n : /\ origin[k] = <<f, t>> /\ Address(f, t) = start[k]
                          /\ basicBlocks[k] = SelectedBlock(kernel[f][t])
    BY <1>7, Zenon
  <2>2. \A g \in DOMAIN kernel : \A c \in DOMAIN kernel[g] :
          SelectedBlock(kernel[g][c]).name = kernel[g][c].name
    BY Zenon DEF SelectedBlock
  <2>3. ASSUME NEW c \in 1..n, basicBlocks[c].name = basicBlocks[k].name
        PROVE  c = k
    <3> DEFINE g == origin[c][1]  d == origin[c][2]
    <3>1. /\ g \in DOMAIN kernel /\ d \in DOMAIN kernel[g]
          /\ basicBlocks[c] = SelectedBlock(kernel[g][d]) /\ origin[c] = <<g, d>>
      <4>1. /\ g \in 1..Len(kernel) /\ d \in DOMAIN kernel[g]
            /\ basicBlocks[c] = SelectedBlock(kernel[g][d]) /\ origin[c] \in Nat \X Nat
        BY <1>3, Zenon DEF Origins, n
      <4>2. origin[c] = <<g, d>>
        BY <4>1
      <4> QED
        BY <1>1, <4>1, <4>2, Zenon
    <3> HIDE DEF g, d
    <3>2. kernel[g][d].name = kernel[f][t].name
      BY <2>1, <2>2, <2>3, <3>1, Zenon
    <3>3. g = f
      BY <3>1, <3>2, Zenon DEF PlainNames
    <3>4. d = t
      BY <1>1, <3>1, <3>2, <3>3, Zenon DEF IsFunction
    <3>5. origin[c] = origin[k]
      BY <2>1, <3>1, <3>3, <3>4, Zenon
    <3> QED
      BY <1>2, <1>3, <3>5, OriginsDiffer DEF n
  <2>4. basicBlocks[k].name = name
    BY <2>1, <2>2, Zenon
  <2>5. basicBlocks[k].name \in DOMAIN blockToPC /\ blockToPC[basicBlocks[k].name] = start[k]
    <3>1. Alone(basicBlocks, n, k)
      BY <2>3, Zenon DEF Alone
    <3> QED
      BY <1>4, <3>1, OnlyBlock
  <2> QED
    BY <2>1, <2>4, <2>5, Zenon
<1>9. ASSUME NEW f \in DOMAIN kernel, NEW b \in DOMAIN kernel[f],
             NEW i \in DOMAIN kernel[f][b].code, kernel[f][b].code[i].op \in Jumps
      PROVE  Reaches(hex[Address(f, b) + i - 1 + 1], Address(f, b) + i - 1,
                     kernel[f][b].code[i], f)
  <2> DEFINE block == kernel[f][b]  mi == block.code[i]  s == Selected(mi)
             at == Address(f, b) + i - 1
  <2>1. block \in BlockCode
    BY <1>1, LenProperties, ElementOfSeq
  <2>2. /\ SelectedBlock(block).name = block.name
        /\ Len(block.code) \in Nat /\ DOMAIN block.code = 1..Len(block.code)
        /\ Len(SelectedBlock(block).code) = Len(block.code)
        /\ \A j \in 1..Len(block.code) :
             /\ block.code[j] \in Instructions
             /\ SelectedBlock(block).code[j] = Selected(block.code[j])
    <3> HIDE DEF block
    <3> QED
      BY <2>1, SelectedSize, Zenon
  <2>3. PICK k \in 1..n : Address(f, b) = start[k] /\ basicBlocks[k] = SelectedBlock(block)
    BY <1>7, Zenon
  <2>4. PICK t \in DOMAIN kernel[f] : kernel[f][t].name = mi.labelTarget
    <3>1. \A a \in DOMAIN kernel[f] : \A j \in DOMAIN kernel[f][a].code :
            kernel[f][a].code[j].op \in Jumps =>
              \E t \in DOMAIN kernel[f] : kernel[f][t].name = kernel[f][a].code[j].labelTarget
      BY <1>1, Zenon DEF IsFunction
    <3>2. \E t \in DOMAIN kernel[f] : kernel[f][t].name = mi.labelTarget
      BY <1>9, <3>1
    <3> QED
      BY <3>2, Zenon
  <2>5. mi.op = "SSY" => IsPlain(mi.labelTarget)
    BY Zenon DEF PlainNames
  <2>6. i \in 1..Len(block.code) /\ mi \in Instructions
    BY <2>2, Zenon
  <2>7. s \in Instructions /\ s.op = mi.op /\ s.labelTarget = mi.labelTarget
    <3> HIDE DEF mi
    <3>1. mi.op \in Jumps
      BY <1>9, Zenon DEF mi
    <3> QED
      BY <2>5, <2>6, <3>1, PlainJump, SelectedOK, Zenon
  <2>8. /\ s.labelTarget \in DOMAIN blockToPC
        /\ blockToPC[s.labelTarget] = Address(f, t)
    BY <1>8, <2>4, <2>7, Zenon
  <2>9. PICK l \in 1..n : Address(f, t) = start[l]
    BY <1>7, Zenon
  <2>10. s.op \in Jumps
    BY <1>9, <2>7, Zenon
  <2>11. hex[start[k] + i] = Encode(Resolved(s, blockToPC, start[k] + i - 1))
    <3>1. i \in 1..Len(basicBlocks[k].code) /\ basicBlocks[k].code[i] = s
      BY <2>2, <2>3, <2>6, Zenon
    <3> QED
      BY <1>4, <3>1, Zenon DEF Written
  <2> HIDE DEF s, mi
  <2> DEFINE r == Resolved(s, blockToPC, start[k] + i - 1)
  <2>12. r.op = s.op /\ r.imm = start[l] - (start[k] + i - 1)
    BY <2>8, <2>9, <2>10, Zenon DEF Resolved, MachineInstruction
  <2>13. /\ start[l] \in 0..Len(hex) /\ start[k] \in Nat
         /\ start[k] + i <= Len(hex) /\ i \in Nat \ {0}
    <3>1. /\ start[l] \in Nat /\ start[k] \in Nat /\ start[l] <= pc
          /\ start[k + 1] = start[k] + Len(block.code) /\ start[k + 1] <= pc
      <4>1. l \in 1..(n + 1) /\ k \in 1..(n + 1) /\ k + 1 \in 1..(n + 1)
        BY <1>2
      <4>2. Len(basicBlocks[k].code) = Len(block.code)
        BY <2>2, <2>3, Zenon
      <4> HIDE DEF block
      <4> QED
        BY <1>5, <4>1, <4>2
    <3> HIDE DEF block
    <3> QED
      <4>1. i \in Nat \ {0} /\ i <= Len(block.code)
        BY <2>2, <2>6
      <4>2. pc = Len(hex) /\ Len(hex) \in Nat /\ Len(block.code) \in Nat
        BY <1>2, <1>5, <2>2, Zenon
      <4> QED
        BY <3>1, <4>1, <4>2
  <2>14. r \in AnyInstruction
    <3>1. s \in AnyInstruction /\ start[k] + i - 1 \in Int
      BY <2>7, <2>13, InstructionIsAny
    <3> QED
      BY <1>2, <3>1, ResolvedIsAny, Zenon
  <2> HIDE DEF r
  <2>15. r.imm \in -limit..(limit - 1)
    <3>1. start[l] \in Nat /\ start[l] <= Len(hex)
      BY <1>2, <2>13
    <3>2. start[l] - (start[k] + i - 1) \in -limit..(limit - 1)
      BY <1>2, <2>13, <3>1, Distance, Zenon
    <3> QED
      BY <2>12, <3>2, Zenon
  <2>16. Encode(r).op = mi.op /\ SignExtended(Encode(r).body % 2^19, 19) = r.imm
    BY <2>7, <2>10, <2>12, <2>14, <2>15, Zenon DEF KeepsOffsets
  <2>17. at = start[k] + i - 1 /\ at + 1 = start[k] + i /\ at + r.imm = Address(f, t)
    BY <2>3, <2>9, <2>12, <2>13
  <2> HIDE DEF at
  <2>18. hex[at + 1] = Encode(r)
    BY <2>11, <2>17, Zenon DEF r
  <2>19. at + SignExtended(hex[at + 1].body % 2^19, 19) = Address(f, t)
    BY <2>16, <2>17, <2>18, Zenon
  <2>20. Reaches(hex[at + 1], at, mi, f)
    BY <2>4, <2>16, <2>18, <2>19, Zenon DEF Reaches
  <2> QED
    BY <2>20, Zenon DEF at, mi
<1> QED
  BY <1>9, Zenon DEF JumpsReachTheirBlocks


-----------------------------------------------------------------------------
\* One lemma for each action that concerns the places of the code.
LEMMA ReachSelectStep == Inv /\ ReachInv /\ SelectFunction => ReachInv'
<1> SUFFICES ASSUME Inv, ReachInv, SelectFunction PROVE ReachInv'
  OBVIOUS
<1>1. /\ stage = "select" /\ selected < Len(kernel) /\ selected' = selected + 1
      /\ basicBlocks' = basicBlocks \o
           [b \in DOMAIN kernel[selected + 1] |-> SelectedBlock(kernel[selected + 1][b])]
      /\ kernel' = kernel /\ stage' = stage
  BY DEF SelectFunction
<1>2. /\ kernel \in Seq(Seq(BlockCode)) /\ basicBlocks \in Seq(BlockCode)
      /\ selected \in 0..Len(kernel)
  BY KernelsAssumption DEF Inv, TypeOK, Shape
<1>3. selected \in 0..(Len(kernel) - 1)
  BY <1>1, <1>2, LenProperties
<1>4. PICK origin : Origins(origin, kernel, basicBlocks, selected)
  BY Zenon DEF ReachInv, Placed
<1>5. PICK origin2 : Origins(origin2, kernel,
           basicBlocks \o
             [b \in DOMAIN kernel[selected + 1] |-> SelectedBlock(kernel[selected + 1][b])],
           selected + 1)
  BY <1>2, <1>3, <1>4, OneMoreFunction, Zenon
<1>6. Placed'
  BY <1>1, <1>5, Zenon DEF Placed
<1> QED
  BY <1>1, <1>6 DEF ReachInv

\* The words of one more block go to the end, and stay where they are.
LEMMA ReachEmitStep == Inv /\ ReachInv /\ EmitBlock => ReachInv'
<1> SUFFICES ASSUME Inv, ReachInv, EmitBlock PROVE ReachInv'
  OBVIOUS
<1> DEFINE block == basicBlocks[emitted + 1]  w == Len(hex)
           ws == hex \o WordsOf(block, blockToPC, w)
<1>1. /\ stage = "layout" /\ recorded = Len(basicBlocks)
      /\ emitted < Len(basicBlocks) /\ emitted' = emitted + 1
      /\ hex' = ws
      /\ kernel' = kernel /\ stage' = stage /\ selected' = selected
      /\ basicBlocks' = basicBlocks
      /\ blockToPC' = blockToPC /\ pc' = pc /\ recorded' = recorded
  BY DEF EmitBlock, BlockWords, WordsOf, layoutVars
<1>2. /\ basicBlocks \in Seq(BlockCode) /\ Len(basicBlocks) \in Nat
      /\ emitted \in Nat /\ hex \in Seq(CompilerWords) /\ pc \in Nat
      /\ \A m \in DOMAIN blockToPC : blockToPC[m] \in Int
  BY MapOK, LenProperties DEF Inv, TypeOK, Shape
<1>3. emitted + 1 \in 1..recorded /\ block \in BlockCode
  BY <1>1, <1>2, ElementOfSeq
<1>4. /\ Len(block.code) \in Nat /\ w \in Nat /\ Len(ws) = w + Len(block.code)
      /\ \A k \in 1..w : ws[k] = hex[k]
      /\ \A i \in 1..Len(block.code) :
           ws[w + i] = Encode(Resolved(block.code[i], blockToPC, w + i - 1))
  <2> HIDE DEF block
  <2> QED
    BY <1>2, <1>3, BlockOfWords, ZenonT(30)
<1>5. PICK start : /\ LaidOut(start, basicBlocks, recorded, blockToPC, pc)
                   /\ start[emitted + 1] = w
                   /\ Written(start, basicBlocks, emitted, blockToPC, hex)
  BY <1>1, Zenon DEF ReachInv, Addressed
<1> HIDE DEF w, ws
<1>6. /\ start \in [1..(recorded + 1) -> Nat]
      /\ \A b \in 1..recorded : start[b + 1] = start[b] + Len(basicBlocks[b].code)
  BY <1>5, Zenon DEF LaidOut
<1>7. start[emitted' + 1] = Len(hex')
  <2>1. start[(emitted + 1) + 1] = start[emitted + 1] + Len(block.code)
    BY <1>3, <1>6, Zenon
  <2> QED
    BY <1>1, <1>4, <1>5, <2>1, Zenon
<1>8. ASSUME NEW b \in 1..emitted
       PROVE  /\ start[b] \in Nat /\ Len(basicBlocks[b].code) \in Nat
              /\ start[b] + Len(basicBlocks[b].code) <= w
              /\ start[b] + Len(basicBlocks[b].code) <= Len(ws)
  <2>1. start[b] + Len(basicBlocks[b].code) <= w
    BY <1>5, Zenon DEF Written, w
  <2>2. start[b] \in Nat /\ Len(basicBlocks[b].code) \in Nat
    <3>1. b \in 1..(recorded + 1) /\ b \in 1..Len(basicBlocks)
      BY <1>1, <1>2
    <3>2. basicBlocks[b] \in BlockCode
      BY <1>2, <3>1, ElementOfSeq
    <3> QED
      BY <1>6, <3>1, <3>2, SelectedSize
  <2> QED
    BY <1>4, <2>1, <2>2
<1>9. ASSUME NEW b \in 1..emitted, NEW i \in 1..Len(basicBlocks[b].code)
      PROVE  ws[start[b] + i] =
               Encode(Resolved(basicBlocks[b].code[i], blockToPC, start[b] + i - 1))
  <2>1. hex[start[b] + i] = Encode(Resolved(basicBlocks[b].code[i], blockToPC, start[b] + i - 1))
    BY <1>5, Zenon DEF Written
  <2>2. start[b] + i \in 1..w
    BY <1>4, <1>8
  <2> QED
    BY <1>4, <2>1, <2>2, Zenon
<1>10. Written(start, basicBlocks, emitted + 1, blockToPC, ws)
  <2>1. \A b \in 1..(emitted + 1) : b \in 1..emitted \/ b = emitted + 1
    BY <1>2
  <2>2. ASSUME NEW b \in 1..emitted
        PROVE  start[b] + Len(basicBlocks[b].code) <= Len(ws)
    BY <1>8, Zenon
  <2>3. start[emitted + 1] + Len(block.code) <= Len(ws)
    BY <1>4, <1>5
  <2>4. \A i \in 1..Len(block.code) :
          ws[start[emitted + 1] + i] =
            Encode(Resolved(block.code[i], blockToPC, start[emitted + 1] + i - 1))
    BY <1>4, <1>5, Zenon
  <2> QED
    BY <1>9, <2>1, <2>2, <2>3, <2>4, Zenon DEF Written
<1>11. Addressed'
  BY <1>1, <1>5, <1>7, <1>10, Zenon DEF Addressed
<1>12. Placed'
  BY <1>1, Zenon DEF ReachInv, Placed
<1> QED
  BY <1>1, <1>11, <1>12 DEF ReachInv

\* The other steps leave the selected blocks alone; they lay blocks out before
\* any is written, or come after all are.
LEMMA ReachOtherStep ==
  ASSUME Inv, Inv', ReachInv, UNCHANGED <<kernel, selected, basicBlocks>>,
         stage' = "select" => stage = "select",
         stage = "select" => stage' = "select" \/ selected = Len(kernel),
         \/ stage' # "layout"
         \/ emitted' = 0
         \/ stage = "layout" /\ UNCHANGED <<layoutVars, emitVars>>
  PROVE  ReachInv'
<1>1. Placed'
  BY Zenon DEF ReachInv, Placed
<1>2. stage' # "select" => selected' = Len(kernel')
  BY DEF ReachInv
<1>3. ASSUME stage' = "layout"
      PROVE  Addressed'
  <2>1. CASE emitted' = 0
    <3>1. Layout'
      BY DEF Inv
    <3>2. PICK start : /\ LaidOut(start, basicBlocks, recorded, blockToPC, pc)'
                       /\ start[emitted' + 1] = Len(hex')
      BY <3>1, Zenon DEF Layout
    <3>3. Written(start, basicBlocks', emitted', blockToPC', hex')
      BY <2>1 DEF Written
    <3> QED
      BY <3>2, <3>3, Zenon DEF Addressed
  <2>2. CASE stage = "layout" /\ UNCHANGED <<layoutVars, emitVars>>
    <3>1. Addressed
      BY <2>2 DEF ReachInv
    <3>2. /\ basicBlocks' = basicBlocks /\ recorded' = recorded /\ blockToPC' = blockToPC
          /\ pc' = pc /\ emitted' = emitted /\ hex' = hex
      BY <2>2 DEF layoutVars, emitVars
    <3> QED
      BY <3>1, <3>2, Zenon DEF Addressed
  <2> QED
    BY <1>3, <2>1, <2>2
<1> QED
  BY <1>1, <1>2, <1>3 DEF ReachInv

LEMMA ReachStep == Inv /\ Inv' /\ ReachInv /\ [Next]_vars => ReachInv'
<1> SUFFICES ASSUME Inv, Inv', ReachInv, [Next]_vars PROVE ReachInv'
  OBVIOUS
<1>1. CASE StartEmitter
  <2>1. emitted = 0
    BY <1>1 DEF StartEmitter, Inv, TypeOK, Shape
  <2> QED
    BY <1>1, <2>1, ReachOtherStep DEF StartEmitter, emitVars
<1>2. CASE RecordBlock
  <2>1. emitted = 0
    BY <1>2 DEF RecordBlock, Inv, Shape
  <2> QED
    BY <1>2, <2>1, ReachOtherStep DEF RecordBlock, emitVars
<1>3. CASE AssembleListing \/ AssembleDisassembly
  BY <1>3, ReachOtherStep DEF AssembleListing, AssembleDisassembly, Give, Emitted
<1>4. CASE ParseLabel
  BY <1>4, ReachOtherStep DEF ParseLabel, compilerVars
<1>5. CASE ParseInstruction
  BY <1>5, ReachOtherStep DEF ParseInstruction, compilerVars
<1>6. CASE LinkInstruction
  BY <1>6, ReachOtherStep DEF LinkInstruction, Linking, compilerVars
<1>7. CASE RejectLabel
  BY <1>7, ReachOtherStep DEF RejectLabel, Linking, compilerVars
<1>8. CASE Assembled
  BY <1>8, ReachOtherStep DEF Assembled, compilerVars
<1>9. CASE UNCHANGED vars
  BY <1>9, ReachOtherStep DEF vars
<1> QED
  BY <1>1, <1>2, <1>3, <1>4, <1>5, <1>6, <1>7, <1>8, <1>9, ReachSelectStep, ReachEmitStep, Zenon
     DEF Next

\* PlainNamesReach for every module whose offsets fit: whatever its functions,
\* blocks, empty blocks and jumps, each branch and each SSY of the words leads
\* to the first instruction of the block the source names, if different functions
\* use different names and no name in an SSY has a capital, "s2r" or "sync" in it.
THEOREM PlainNamesReachAlways == Spec => []PlainNamesReach
<1>1. Init => ReachInv
  <2> SUFFICES ASSUME Init PROVE ReachInv
    OBVIOUS
  <2> DEFINE origin == [k \in 1..0 |-> <<0, 0>>]
  <2>1. Origins(origin, kernel, <<>>, 0)
    BY DEF Origins
  <2>2. basicBlocks = <<>> /\ selected = 0 /\ stage = "select"
    BY DEF Init
  <2> HIDE DEF origin
  <2>3. Placed
    BY <2>1, <2>2, Zenon DEF Placed
  <2> QED
    BY <2>2, <2>3 DEF ReachInv
<1>2. Inv /\ Inv' /\ ReachInv /\ [Next]_vars => ReachInv'
  BY ReachStep
<1>3. Inv /\ ReachInv => PlainNamesReach
  <2> SUFFICES ASSUME Inv, ReachInv, PlainNames, ~(Len(hex) >= 2^18) PROVE JumpsReachTheirBlocks
    BY Zenon DEF PlainNamesReach
  <2> DEFINE limit == 2^18
  <2>1. limit \in Nat /\ Len(hex) < limit
    BY LenProperties DEF Inv, Shape
  <2>2. KeepsOffsets(limit)
    BY OffsetKept, Zenon DEF KeepsOffsets
  <2> HIDE DEF limit
  <2> QED
    BY <2>1, <2>2, JumpsReach, Zenon DEF JumpsReachTheirBlocks
<1> QED
  BY <1>1, <1>2, <1>3, Invariance, PTL DEF Spec

=============================================================================
