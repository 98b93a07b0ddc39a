--------------------------- MODULE LaneExecution ---------------------------
(***************************************************************************)
(* The allocated program, run by one lane of the hardware.                 *)
(*                                                                         *)
(* RegAlloc decides on the text of the program alone.  Here the program it *)
(* returns is executed: the lane reads rs1 and rs2, writes rd and goes to  *)
(* a successor.  A register does not hold a number but the name of the     *)
(* virtual register whose value was written to it last, which is all that  *)
(* the question asked here needs: does an instruction read the value the   *)
(* selected code meant it to read?                                         *)
(*                                                                         *)
(* The lane is external to the repository; its reads and writes follow the *)
(* comments of enum Opcode (include/FpgaGpu.h).                            *)
(***************************************************************************)
EXTENDS RegAlloc

\* The control flow of the program: the pairs of positions <<i, j>> such that
\* the instruction after i may be j; Len + 1 is the end of the program.
CONSTANT Edges

ASSUME EdgesAssumption == Edges \subseteq (Nat \ {0}) \X (Nat \ {0})

VARIABLES
  pc,       \* the position to execute next
  holds,    \* physical register written so far -> the VReg whose value it has
  written   \* the VRegs that have been given a value

laneVars == <<pc, holds, written>>
allVars == <<vars, laneVars>>

-----------------------------------------------------------------------------
LaneInit ==
  /\ Init
  /\ pc = 1
  /\ holds = EmptyMap
  /\ written = {}

\* The compiler runs; the lane has nothing to execute yet.
Compile == Next /\ UNCHANGED laneVars

\* One instruction of a program that was compiled successfully.  A write to
\* R0 is no write.
Execute ==
  /\ phase = "ok"
  /\ pc \in 1..Len(blocks)
  /\ \E next \in 1..(Len(blocks) + 1) : <<pc, next>> \in Edges /\ pc' = next
  /\ LET p == blocks[pc].rd
         v == source[pc].rd
     IN  IF p = 0
         THEN UNCHANGED <<holds, written>>
         ELSE /\ holds' = [r \in DOMAIN holds \cup {p} |->
                             IF r = p THEN v ELSE holds[r]]
              /\ written' = written \cup {v}
  /\ UNCHANGED vars

LaneNext == Compile \/ Execute

LaneSpec == LaneInit /\ [][LaneNext]_allVars

-----------------------------------------------------------------------------
\* The value v was given last is still in register p.
Intact(v, p) == v \in written => p \in DOMAIN holds /\ holds[p] = v

\* Every operand that has been given a value is read from a register that
\* still holds that value: between the last write of the virtual register
\* and this read, no other virtual register went through its register.
ReadsOwnValue ==
  phase = "ok" /\ pc \in 1..Len(blocks) =>
    /\ Intact(source[pc].rs1, blocks[pc].rs1)
    /\ Intact(source[pc].rs2, blocks[pc].rs2)

=============================================================================
