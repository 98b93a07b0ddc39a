----------------------------- MODULE MCRegAlloc -----------------------------
(* The allocator on every short program without loops, up to the names of   *)
(* its registers, and what it returns run along every path: from one of the *)
(* first four positions the lane may go to any later one, whatever the      *)
(* branches would be.  Two blocks of SYNC and a jump, without registers,    *)
(* lie at the end, as runDivergencePass appends them: they are on the way   *)
(* to positions 3 and 4, and jump back in the text.                         *)
EXTENDS LaneExecution

MCNumPhysRegs == 3
MCVRegs == 1..4

MCEdges == {e \in (1..4) \X (1..7) : e[1] < e[2] /\ e[2] \notin {5, 6}}
             \cup {<<1, 5>>, <<2, 5>>, <<5, 3>>}
             \cup {<<1, 6>>, <<2, 6>>, <<3, 6>>, <<6, 4>>}

\* The shapes the selector produces: a destination with at most one source
\* (ADDI, LDR, S2R), two sources without a destination (CMP, STR), and a
\* sample of the three-register form (ADD).
Shapes == {mi \in Instruction : \/ mi.rs2 = VREG_ZERO
                                \/ mi.rd = VREG_ZERO /\ mi.rs1 # VREG_ZERO
                                \/ mi.rd # VREG_ZERO /\ mi.rs1 = 1
                                      /\ mi.rd # mi.rs1 /\ mi.rd # mi.rs2}

\* The allocator never compares the numbers of registers, so it is enough to
\* number them in the order of their first mention.
MaxOf(a, b) == IF a >= b THEN a ELSE b

Numbered(named, mi) ==
  /\ mi.rd <= named + 1
  /\ mi.rs1 <= MaxOf(named, mi.rd) + 1
  /\ mi.rs2 <= MaxOf(named, MaxOf(mi.rd, mi.rs1)) + 1

Named(p) == Max({0} \cup UNION {Uses(p[i]) : i \in 1..Len(p)})

Longer(progs, shapes) ==
  UNION {{Append(p, mi) : mi \in {i \in shapes : Numbered(Named(p), i)}} : p \in progs}

One == Longer({<<>>}, Shapes)
Two == Longer(One, Shapes)
Three == Longer(Two, Shapes)

\* The fourth instruction only reads, the first registers.
Four == Longer(Three, {mi \in Shapes : mi.rd = VREG_ZERO /\ mi.rs1 = 1 /\ mi.rs2 \in {VREG_ZERO, 2}})

Reconverge == [rd |-> VREG_ZERO, rs1 |-> VREG_ZERO, rs2 |-> VREG_ZERO]

MCPrograms == {p \o <<Reconverge, Reconverge>> : p \in Four}

=============================================================================
