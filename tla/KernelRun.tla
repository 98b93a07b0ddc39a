----------------------------- MODULE KernelRun -----------------------------
(***************************************************************************)
(* What a kernel means: one lane that runs the IR itself, one instruction  *)
(* per step.  This is what selected code has to do too.                    *)
(*                                                                         *)
(* The meaning of IR is LLVM's and external to the repository; that of the *)
(* calls is the one of runtime/fpgagpu_runtime.h and device_intrinsics.h.  *)
(* Numbers have the width of their type and wrap in it; memory is bytes.   *)
(***************************************************************************)
EXTENDS KernelIR, FiniteSetsExt

CONSTANT SysReg   \* the values of the system registers of the lane

VARIABLES
  function,  \* the kernel
  args,      \* its arguments
  at,        \* <<block, instruction>> to run next, or Returned
  env,       \* the values computed so far
  mem        \* the bytes of memory that have been written; the others are 0

kernelVars == <<function, args, at, env, mem>>

Returned == <<0, 0>>

MemoryAt(memory, address) == IF address \in DOMAIN memory THEN memory[address] ELSE 0

\* The bytes of a number, from the lowest one.
Byte(n, i) == (n \div 256^i) % 256
Size(bits) == (bits + 7) \div 8

\* What an access of so many bits, at most 64, finds at an address.
LoadedFrom(memory, address, bits) ==
  LET B(i) == IF i < Size(bits) THEN MemoryAt(memory, WordOf(address + i)) ELSE 0
      Four(i) == B(i) + 256 * (B(i + 1) + 256 * (B(i + 2) + 256 * B(i + 3)))
  IN  InBits(Four(0) + 256 * (256 * (256 * (256 * Four(4)))), bits)

StoredIn(memory, address, n, bits) ==
  LET Offset(a) == (a - address) % 2^LANE_WIDTH_BITS
  IN  [a \in DOMAIN memory \cup {WordOf(address + i) : i \in 0..(Size(bits) - 1)} |->
         IF Offset(a) < Size(bits) THEN Byte(n, Offset(a)) ELSE MemoryAt(memory, a)]

\* Kernel arguments, words, lie at address 0, eight bytes apart.
ArgumentMemory ==
  [a \in UNION {8 * (k - 1)..8 * (k - 1) + Size(LANE_WIDTH_BITS) - 1 : k \in DOMAIN args} |->
     Byte(args[a \div 8 + 1], a % 8)]

Init ==
  /\ at = <<1, 1>>
  /\ env = EmptyMap
  /\ mem = ArgumentMemory

Ins == function[at[1]].code[at[2]]

ValueOf(v) ==
  CASE IsConst(v)    -> v[2]
    [] v[1] = "arg"  -> args[v[2] + 1]
    [] IsResult(v)   -> env[v]

X == ValueOf(Ins.ops[1])
Y == ValueOf(Ins.ops[2])

\* x < y for numbers without a sign, given as two's complement.
Below(x, y) == IF (x < 0) = (y < 0) THEN x < y ELSE y < 0

Holds(pred, x, y) ==
  CASE pred = "eq"  -> x = y            [] pred = "ne"  -> x # y
    [] pred = "slt" -> x < y            [] pred = "ult" -> Below(x, y)
    [] pred = "sle" -> x <= y           [] pred = "ule" -> ~Below(y, x)
    [] pred = "sgt" -> x > y            [] pred = "ugt" -> Below(y, x)
    [] pred = "sge" -> x >= y           [] pred = "uge" -> ~Below(x, y)

Arithmetic(form, x, y) ==
  CASE form = "add" -> x + y
    [] form = "sub" -> x - y
    [] form = "mul" -> x * y
    [] form = "shl" -> x * 2^y

\* The runtime headers: a lane is two threads wide along X, one along Y.
CallResult(name) ==
  CASE name \in DOMAIN RegisterCalls -> SysReg[RegisterCalls[name]]
    [] name = "get_local_id"  -> SysReg[LocalIdRegister(X)]
    [] name = "get_group_id"  -> SysReg[GroupIdRegister(X)]
    [] name = "get_global_id" ->
         LET bid == SysReg[GroupIdRegister(X)]
             tid == SysReg[LocalIdRegister(X)]
         IN  WordOf(IF X = 0 THEN bid + bid + tid ELSE bid + tid)

Outcome ==
  CASE Ins.op = "binary" -> InBits(Arithmetic(Ins.form, X, Y), Ins.bits)
    [] Ins.op = "icmp"   -> IF Holds(Ins.form, X, Y) THEN 1 ELSE 0
    [] Ins.op = "cast"   -> InBits(IF Ins.form = "zext" THEN X % 2^Ins.attr[1] ELSE X, Ins.bits)
    [] Ins.op = "gep"    -> WordOf(X + MapThenSumSet(LAMBDA k : ValueOf(Ins.ops[k + 1]) * Ins.attr[k],
                                                     DOMAIN Ins.attr))
    [] Ins.op = "load" \/ Ins.form = "ldr" -> LoadedFrom(mem, X, Ins.bits)
    [] Ins.form = "s2r"  -> SysReg[Ins.attr[1]]
    [] Ins.op = "call"   -> CallResult(Ins.form)

Computes(ins) ==
  \/ ins.op \in {"binary", "icmp", "cast", "gep", "load"}
  \/ ins.op = "asm" /\ ins.form \in {"s2r", "ldr"}
  \/ ins.op = "call" /\ ins.form \in DOMAIN RegisterCalls
                           \cup {"get_local_id", "get_group_id", "get_global_id"}

Stores(ins) == ins.op = "store" \/ (ins.op = "asm" /\ ins.form = "str")

Ends(ins) == \/ ins.op = "ret"
             \/ ins.op = "asm" /\ ins.form = "exit"
             \/ ins.op = "call" /\ ins.form = "gpu_exit"

\* One lane has nobody to wait for.
Waits(ins) == \/ ins.op = "asm" /\ ins.form \in {"sync", "ssy"}
              \/ ins.op = "call" /\ ins.form \in {"syncthreads", "barrier"}

Following == <<at[1], at[2] + 1>>

Compute ==
  /\ Computes(Ins)
  /\ env' = Updated(env, Result(at[1], at[2]), Outcome)
  /\ at' = Following
  /\ UNCHANGED <<function, args, mem>>

WriteMemory ==
  /\ Stores(Ins)
  /\ mem' = StoredIn(mem, Y, X, Ins.bits)
  /\ at' = Following
  /\ UNCHANGED <<function, args, env>>

Branch ==
  /\ Ins.op = "br"
  /\ at' = <<IF Ins.ops = <<>> \/ X # 0 THEN Ins.succ[1] ELSE Ins.succ[2], 1>>
  /\ UNCHANGED <<function, args, env, mem>>

Wait == Waits(Ins) /\ at' = Following /\ UNCHANGED <<function, args, env, mem>>

Return == Ends(Ins) /\ at' = Returned /\ UNCHANGED <<function, args, env, mem>>

Next ==
  /\ at # Returned
  /\ Compute \/ WriteMemory \/ Branch \/ Wait \/ Return

Spec == Init /\ [][Next]_kernelVars

=============================================================================
