----------------------------- MODULE MCSelector -----------------------------
(* Kernels of one to four blocks with two numbers and a pointer as their    *)
(* arguments: every instruction on its own, constants shared between        *)
(* instructions and between blocks, every predicate, a loop through memory, *)
(* words that overlap, numbers at the ends of a word of 16 bits, and what   *)
(* the selector is not meant for.                                           *)
EXTENDS SelectedExecution

MCLaneWidth == 16
MCFieldSize == 16
MCMaxSteps == 40
MCSysReg == [r \in 0..3 |-> r + 1]

x == Arg(0)
y == Arg(1)
p == Arg(2)
five == Const(5)
most == Const(2047)   \* the largest add immediate
far == Const(5000)    \* too long for the add immediate, short enough for the word

Block(n, c) == [name |-> n, code |-> c]

Kernel3(inputs, blocks) == [params |-> 3, inputs |-> inputs, blocks |-> blocks]

SomeInputs == {<<-3, 2, 64>>, <<7, 7, 64>>, <<6, -1, 64>>, <<32767, -32768, 64>>}

\* One block: some instructions, then a store of the last result.
Straight(c) == Kernel3(SomeInputs,
  <<Block("", c \o <<Store(Result(1, Len(c)), p), Ret>>)>>)

\* u is what the instruction before computed.
Computations(u) ==
  {Binary("add", u, w) : w \in {y, five, most, Const(-2048), Zero}}
    \cup {Binary("add", most, y)}
    \cup {Binary("sub", v, w) : v \in {u, most}, w \in {y, five, most, Zero}}
    \cup {Binary("mul", u, w) : w \in {u, five, Zero}}
    \cup {Binary("shl", u, Const(n)) : n \in {0, 1, 3, 10}}
    \cup {Cast("bitcast", u, MCLaneWidth), Load(p), Asm("ldr", <<p>>)}
    \cup {Gep(p, <<v>>, <<n>>) : v \in {u, five}, n \in {1, 4}}
    \cup {S2R(r) : r \in {TID_X, BID_Y}}
    \cup {Call(n, <<>>) : n \in DOMAIN RegisterCalls}
    \cup {Call(n, <<Const(d)>>) : d \in {0, 1},
            n \in {"get_local_id", "get_group_id", "get_global_id"}}

\* Operands and instructions the selector has no answer to.
Unsupported(u) ==
  {Binary("udiv", u, y), Binary("shl", u, y), Binary("shl", u, Const(11)),
   Binary("add", five, five), Binary("add", u, far), Binary("sub", u, Const(10000)),
   InWidth(8, Binary("add", u, y)), InWidth(8, Load(p)), InWidth(64, Load(p)),
   InWidth(8, Cast("trunc", u, MCLaneWidth)), Cast("zext", u, 8),
   Cast("bitcast", five, MCLaneWidth), Load(Const(64)), Load(Global(1)), Gep(p, <<u, y>>, <<8, 4>>),
   Gep(p, <<u>>, <<0>>), Gep(p, <<far>>, <<4>>),
   Call("unknown", <<>>), Call("get_global_id", <<u>>),
   IR("alloca", "", <<>>, <<>>, <<>>), IR("phi", "", <<u, y>>, <<>>, <<>>),
   IR("select", "", <<u, y>>, <<>>, <<>>), ICmp("slt", u, y)}

StraightKernels ==
  {Straight(<<i>>) : i \in Computations(x) \cup Unsupported(x)}
    \cup {Straight(<<i, j>>) : i \in Computations(x), j \in Computations(Result(1, 1))}
    \cup {Straight(<<i, j>>) : i \in Unsupported(x), j \in Unsupported(Result(1, 1))}

\* A chain of additions, each with a register of its own.
Chain(n) == Straight([i \in 1..n |-> Binary("add", IF i = 1 THEN x ELSE Result(1, i - 1), y)])

Effects ==
  {Asm("sync", <<>>), Asm("ssy", <<>>), Asm("exit", <<>>), Asm("str", <<five, p>>),
   Call("barrier", <<Zero>>), Call("syncthreads", <<>>), Call("gpu_exit", <<>>),
   Asm("unknown", <<>>), Store(five, Const(64)), InWidth(8, Store(x, p))}

EffectKernels ==
  {Kernel3(SomeInputs, <<Block("", <<Store(most, p), i, Store(x, p), Ret>>)>>) : i \in Effects}

\* Words that overlap: what is read from n bytes after one and before the next.
OverlapKernels ==
  {Kernel3(SomeInputs, <<Block("", <<Store(x, p), Gep(p, <<Const(2)>>, <<1>>), Store(y, Result(1, 2)),
                                     Gep(p, <<Const(n)>>, <<1>>), Load(Result(1, 4)),
                                     Store(Result(1, 5), p), Ret>>)>>) : n \in -1..3}

\* A predicate, arithmetic that sets NZP again, and two ways on.
Entry(pred, v, t, f) ==
  <<ICmp(pred, x, v), Binary("sub", y, x), CondBr(Result(1, 1), t, f)>>

SignInputs == {<<v, w, 64>> : v, w \in {-32768, -3, 0, 5, 32767}}

PredicateKernels ==
  {Kernel3(SignInputs, <<Block("entry", Entry(pred, v, 2, 3)),
                         Block("then", <<Store(five, p), Ret>>),
                         Block("", <<Store(Result(1, 2), p), Ret>>)>>) :
     pred \in Predicates, v \in {y, five, Zero}}

\* Arms and join of a conditional, in both textual orders, with constants that
\* are needed in several of them.
Uses == {<<>>} \cup {<<Store(v, p)>> : v \in {five, most, x}}
               \cup {<<Load(five)>>}

Diamond(a, b, c) ==
  Kernel3({<<-3, 2, 64>>, <<6, -1, 64>>},
    <<Block("entry", Entry("slt", Const(1), 2, 3)),
      Block("then", a \o <<Br(4)>>), Block("else", b \o <<Br(4)>>), Block("end", c \o <<Ret>>)>>)

EarlyJoin(a, b) ==
  Kernel3({<<-3, 2, 64>>, <<6, -1, 64>>},
    <<Block("entry", Entry("slt", five, 3, 2)),
      Block("end", a \o <<Ret>>), Block("then", b \o <<Br(2)>>)>>)

\* A constant in an address needs no register, and fills none for later.
ConstantAddress ==
  Kernel3({<<-3, 2, 64>>, <<6, -1, 64>>},
    <<Block("entry", <<ICmp("slt", x, y), Gep(p, <<five>>, <<1>>), CondBr(Result(1, 1), 2, 3)>>),
      Block("then", <<Store(five, p), Br(4)>>), Block("else", <<Br(4)>>),
      Block("end", <<Store(five, Result(1, 2)), Ret>>)>>)

ArmKernels ==
  {Diamond(a, b, c) : a, b, c \in Uses} \cup {EarlyJoin(a, b) : a, b \in Uses}

\* for (i = 0; i < n; i++), with i in memory and the bound y or a constant.
Loop(bound, name) ==
  Kernel3({<<0, 3, 64>>, <<0, 0, 64>>},
    <<Block("entry", <<Store(x, p), Br(2)>>),
      Block("bb.2", <<Load(p), ICmp("slt", Result(2, 1), bound), CondBr(Result(2, 2), 3, 4)>>),
      Block(name, <<Binary("add", Result(2, 1), Const(1)), Asm("str", <<Result(3, 1), p>>), Br(2)>>),
      Block("end", <<Store(bound, p), Ret>>)>>)

\* A condition that is not a predicate, and a terminator that is dropped.
OddControl ==
  {Kernel3(SomeInputs, <<Block("a", <<Binary("sub", x, y), t>>),
                         Block("b", <<Store(five, p), Ret>>),
                         Block("c", <<Store(x, p), Ret>>)>>) :
     t \in {CondBr(Result(1, 1), 2, 3), CondBr(Const(1), 2, 3),
            IR("switch", "", <<x>>, <<>>, <<3, 2>>), IR("unreachable", "", <<>>, <<>>, <<>>)}}

MCKernels ==
  StraightKernels \cup {Chain(n) : n \in {8, 9, 10, 11, 12}}
    \cup EffectKernels \cup OverlapKernels \cup PredicateKernels \cup ArmKernels \cup {ConstantAddress}
    \cup {Loop(b, n) : b \in {y, Const(2)}, n \in {"", "body"}} \cup OddControl

\* A constant in an addition, in a store, as a factor and as a stride.
ImmediateKernels ==
  {Straight(<<i>>) : i \in {Binary("add", x, far), Binary("sub", x, five), Binary("shl", x, Const(12)),
                             Gep(p, <<x>>, <<5000>>), Gep(p, <<far>>, <<1>>)}}
    \cup {Straight(<<Binary("add", x, most), Store(far, p), Load(p)>>)}

\* A constant stored in one arm of a conditional and in the block after it.
ArmConstantKernels == {Diamond(<<Store(five, p)>>, <<>>, <<Store(five, p)>>)}

=============================================================================
