---------------------------- MODULE MCCodeRoutes ----------------------------
(* Modules that together use every instruction, immediates at the limits of *)
(* their fields, jumps in both directions, empty blocks, and names that are *)
(* repeated or changed on the way.                                          *)
EXTENDS CodeRoutes

MCLowerCase ==
  [n \in {"a", "b", "c", "d", "Done", "done", "sync", "test_s2r.exit", "s2r.tid.y.sync"} |->
     IF n = "Done" THEN "done" ELSE n]
MCSpellSync == {"sync", "s2r.tid.y.sync"}
MCSpellS2r == [n \in {"test_s2r.exit", "s2r.tid.y.sync"} |-> IF n = "test_s2r.exit" THEN 0 ELSE 1]

Plain(op, rd, rs1, rs2, imm) == MachineInstruction(op, rd, rs1, rs2, imm, ALWAYS, NoLabel)
Br(cond, target) == MachineInstruction("BR", 0, 0, 0, 0, cond, target)
Ssy(target) == MachineInstruction("SSY", 7, 0, 0, 0, ALWAYS, target)
Exit == Plain("EXIT", 0, 0, 0, 0)

Block(n, c) == [name |-> n, code |-> c]

PlainInstructions ==
  {Plain(op, 31, 1, 16, 0) : op \in ThreeRegister}
    \cup {Plain("ADDI", 3, 31, 0, imm) : imm \in {-8193, -8192, -1, 0, 8191, 8192, 20000}}
    \cup {Plain("S2R", 31, 0, 0, imm) : imm \in SysRegs}
    \cup {Plain("CMP", 0, 2, 30, 0), Plain("LDR", 4, 31, 0, 0), Plain("STR", 0, 31, 5, 0),
          Plain("SYNC", 0, 0, 0, 0)}

EveryInstruction ==
  {<< <<Block("a", <<i, Br(c, "a"), Exit>>)>> >> : i \in PlainInstructions, c \in 1..7}

\* What a block may hold, with jumps to the given names.
Bodies(names) ==
  {<<>>, <<Exit>>} \cup {<<Br(ALWAYS, x)>> : x \in names}
                   \cup {<<Ssy(x), Br(5, y), Br(ALWAYS, x)>> : x, y \in names}

EveryLayout ==
  {<< <<Block("a", p), Block("b", q), Block("c", r)>> >> :
      p, q, r \in Bodies({"a", "b", "c"})}

\* On to the next block or back to the first.
Onward(name, next) == Block(name, <<Ssy(next), Br(5, next), Br(ALWAYS, "a")>>)

Marked(n) == << <<Onward("a", n), Block(n, <<Exit>>)>> >>

OddNames == {Marked(n) : n \in {"Done", "sync", "test_s2r.exit", "s2r.tid.y.sync"}}

\* Two functions; the second one may use the names of the first.
ShortBodies(names) ==
  {<<Exit>>} \cup {<<Br(ALWAYS, x)>> : x \in names} \cup {<<Ssy(x), Exit>> : x \in names}

Pairs(m, n) ==
  {<< <<Block("a", p), Block("b", q)>>, <<Block(m, r), Block(n, s)>> >> :
      p, q \in ShortBodies({"a", "b"}), r, s \in ShortBodies({m, n})}

MCKernels ==
  EveryInstruction \cup EveryLayout \cup OddNames \cup Pairs("c", "d") \cup Pairs("b", "a")

\* A kernel with a block whose name has a capital and two whose names have in
\* them what selection looks for, and a second kernel that has a block named
\* like a block of the first.
NamedKernels ==
  {<< <<Onward("a", "Done"), Onward("Done", "sync"), Onward("sync", "test_s2r.exit"),
        Block("test_s2r.exit", <<Exit>>)>>,
      <<Block("a", <<Exit>>)>> >>}

=============================================================================
