-------------------------- MODULE MCLoopExecution --------------------------
(* A kernel with a loop:  entry:  v1 = argument p                            *)
(*                        loop:   v2 = *p ; v3 = v2 + v2 ; *v2 = v3 ; BR loop *)
EXTENDS LaneExecution

MCNumPhysRegs == 32
MCVRegs == 1..3
Load(dst, addr) == [rd |-> dst, rs1 |-> addr, rs2 |-> VREG_ZERO]
Add(dst, a, b)  == [rd |-> dst, rs1 |-> a, rs2 |-> b]
Store(val, addr) == [rd |-> VREG_ZERO, rs1 |-> addr, rs2 |-> val]
Branch == [rd |-> VREG_ZERO, rs1 |-> VREG_ZERO, rs2 |-> VREG_ZERO]

MCPrograms == {<<Load(1, VREG_ZERO), Load(2, 1), Add(3, 2, 2), Store(3, 2), Branch>>}
MCEdges == {<<1, 2>>, <<2, 3>>, <<3, 4>>, <<4, 5>>, <<5, 2>>, <<5, 6>>}

=============================================================================
