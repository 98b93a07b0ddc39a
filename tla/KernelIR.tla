------------------------------ MODULE KernelIR ------------------------------
(***************************************************************************)
(* The functions the back end is given, as the selector reads them: LLVM   *)
(* IR after the optimisation passes, reduced to what selection looks at.   *)
(*                                                                         *)
(* A function is a sequence of blocks [name, code]; "" is the name of a    *)
(* block that has none.  An instruction has a class op (the dyn_cast that  *)
(* catches it), a form in its class (the binary operator, the predicate,   *)
(* the kind of cast, the name called, what the inline assembly says), the  *)
(* number of bits it works on where its type has one, its operands,        *)
(* numbers that are not operands, and the positions of its successor       *)
(* blocks.                                                                 *)
(***************************************************************************)
EXTENDS Integers, Sequences

\* The width of a lane's registers, and of the ints and pointers of the
\* target.  It is 32; 16 keeps products within the numbers of TLC.
CONSTANT LANE_WIDTH_BITS

ASSUME LaneAssumption == LANE_WIDTH_BITS \in {16, 32}

\* The number that the lowest bits of n are in two's complement.
InBits(n, bits) == ((n + 2^(bits - 1)) % 2^bits) - 2^(bits - 1)

Words     == -(2^(LANE_WIDTH_BITS - 1))..(2^(LANE_WIDTH_BITS - 1) - 1)
WordOf(n) == InBits(n, LANE_WIDTH_BITS)

\* Operands.
Const(n)     == <<"const", n>>       \* ConstantInt
Arg(k)       == <<"arg", k>>         \* the k-th argument, from 0
Result(b, i) == <<"ins", b, i>>      \* what instruction i of block b computes
Global(k)    == <<"global", k>>      \* a constant of another kind: a global, null

IsConst(v)  == v[1] = "const"
IsResult(v) == v[1] = "ins"
Zero        == Const(0)

IR(op, form, ops, attr, succ) ==
  [op |-> op, form |-> form, bits |-> LANE_WIDTH_BITS, ops |-> ops, attr |-> attr, succ |-> succ]

Binary(form, x, y) == IR("binary", form, <<x, y>>, <<>>, <<>>)
ICmp(pred, x, y)   == IR("icmp", pred, <<x, y>>, <<>>, <<>>)
Br(t)              == IR("br", "", <<>>, <<>>, <<t>>)
CondBr(v, t, f)    == IR("br", "", <<v>>, <<>>, <<t, f>>)
Load(p)            == IR("load", "", <<p>>, <<>>, <<>>)
Store(v, p)        == IR("store", "", <<v, p>>, <<>>, <<>>)
Asm(form, ops)     == IR("asm", form, ops, <<>>, <<>>)
S2R(reg)           == IR("asm", "s2r", <<>>, <<reg>>, <<>>)
Call(name, ops)    == IR("call", name, ops, <<>>, <<>>)
Ret                == IR("ret", "", <<>>, <<>>, <<>>)

\* An instruction on numbers of another width: i8, i64.
InWidth(bits, ins) == [ins EXCEPT !.bits = bits]

\* x, of so many bits, in another width or as another type of the same width.
Cast(form, x, bits) == IR("cast", form, <<x>>, <<bits>>, <<>>)

\* base + the sum of index * stride; the first stride is the size of the
\* source element type.
Gep(base, indices, strides) == IR("gep", "", <<base>> \o indices, strides, <<>>)

Operands == ({"const"} \X Int) \cup ({"arg", "global"} \X Nat)
              \cup ({"ins"} \X (Nat \ {0}) \X (Nat \ {0}))

IRInstruction == [op : STRING, form : STRING, bits : Nat \ {0},
                  ops : Seq(Operands), attr : Seq(Int), succ : Seq(Nat)]

Terminators == {"br", "ret", "switch", "unreachable"}

Casts == {"trunc", "zext", "sext", "bitcast"}

Predicates == {"eq", "ne", "slt", "sle", "sgt", "sge", "ult", "ule", "ugt", "uge"}

\* The numbers of the system registers (enum SysReg).
TID_X == 0
TID_Y == 1
BID_X == 2
BID_Y == 3

\* The runtime functions that read one of them.
RegisterCalls == [get_thread_id_x |-> TID_X, get_thread_id_y |-> TID_Y,
                  get_block_id_x |-> BID_X, get_block_id_y |-> BID_Y]

\* Those that are told which dimension to read.
LocalIdRegister(dim) == IF dim = 0 THEN TID_X ELSE TID_Y
GroupIdRegister(dim) == IF dim = 0 THEN BID_X ELSE BID_Y

DimensionCalls == {"get_local_id", "get_group_id", "get_global_id"}

\* The instructions each class consists of.
InItsClass(ins) ==
  \/ ins.op \in {"ret", "alloca", "phi", "select", "switch", "unreachable"} /\ ins.form = ""
  \/ ins.op = "binary" /\ Len(ins.ops) = 2
  \/ ins.op = "icmp" /\ ins.form \in Predicates /\ Len(ins.ops) = 2
  \/ /\ ins.op = "br" /\ ins.form = ""
     /\ <<Len(ins.ops), Len(ins.succ)>> \in {<<0, 1>>, <<1, 2>>}
  \/ ins.op = "load" /\ ins.form = "" /\ Len(ins.ops) = 1
  \/ ins.op = "store" /\ ins.form = "" /\ Len(ins.ops) = 2
  \/ ins.op = "asm" /\ ins.form = "ldr" /\ Len(ins.ops) = 1 /\ ins.bits = LANE_WIDTH_BITS
  \/ ins.op = "asm" /\ ins.form = "str" /\ Len(ins.ops) = 2 /\ ins.bits = LANE_WIDTH_BITS
  \/ ins.op = "cast" /\ ins.form \in Casts /\ Len(ins.ops) = 1 /\ Len(ins.attr) = 1
  \/ ins.op = "gep" /\ ins.form = "" /\ Len(ins.ops) = Len(ins.attr) + 1
  \/ ins.op = "asm" /\ ins.form = "s2r" /\ Len(ins.attr) = 1 /\ ins.attr[1] \in TID_X..BID_Y
  \/ ins.op = "asm" /\ ins.form \in {"sync", "ssy", "exit", "unknown"}
  \/ ins.op = "call" /\ ins.form \in {"syncthreads", "barrier", "gpu_exit", "unknown"}
  \/ ins.op = "call" /\ ins.form \in DOMAIN RegisterCalls
  \/ ins.op = "call" /\ ins.form \in DimensionCalls /\ Len(ins.ops) = 1

\* A map with one more entry, or with one changed.
Updated(map, key, value) ==
  [k \in DOMAIN map \cup {key} |-> IF k = key THEN value ELSE map[k]]

EmptyMap == [k \in {} |-> 0]

=============================================================================
