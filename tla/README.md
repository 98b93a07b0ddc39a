# A verification of fpgagpu-llc

`fpgagpu-llc` compiles LLVM IR (or, through `scripts/fpgagpu-clang`, C) to the
32-bit machine code of a two-lane SIMT processor, and assembles and disassembles
that code. This directory holds TLA+ models of it, the TLC runs that check them
on small instances and TLAPS proofs about them for every instance. Paths below
are relative to the repository.

## 1. The system

The program is sequential: no threads, no callbacks, nothing persisted but its
output file. What is hard about it is what its passes assume of each other, and
of the code they are given: analyses computed before a change and asked after
it, live ranges taken from the text of a program that does not run in the order
of its text, registers filled once for a function whose paths differ, addresses
counted twice in different files, four descriptions of one instruction set, and
files that are opened before what goes into them is known.

| component | state it keeps | operations | talks to |
|---|---|---|---|
| Clang script (`scripts/fpgagpu-clang`) | its options, the temporary file | run clang, keep the IR, run the driver | clang, driver, files |
| Driver (`src/main.cpp`) | options, file names | compile, assemble, disassemble | back end, assembler, files |
| Back end (`src/FpgaGpuBackend.cpp`: `compileFile`, `compileModule`) | the LLVM module, `allBlocks` | optimise, divergence pass, select every function, allocate, emit | every pass, in that order |
| Divergence pass (`src/FpgaGpuBackend.cpp:26-91`) | the function, both dominator trees, `condBranches`, `preds` | put SSY before a branch, SYNC blocks on the edges into its post-dominator | writes inline assembly the selector reads |
| Selector (`src/FpgaGpuISel.cpp`) | `valueToVReg`, `blockNames`, `nextVReg` | one case per IR instruction | gives `BasicBlockCode` to the allocator |
| Register allocator (`src/FpgaGpuRegAlloc.cpp`) | `intervals`, `freePool`, `active`, `vregToPhys` | live ranges, linear scan, rewrite in place | its result goes to the emitter |
| Emitter (`src/FpgaGpuEmitter.cpp`) | `blockToPC` | resolve offsets, write hex, binary or text | the text is read by the assembler |
| Instruction set (`include/FpgaGpu.h`) | none | `encode` | emitter and assembler |
| Assembler, disassembler (`src/FpgaGpuAssembler.cpp`) | `labels`, `instructions` | parse, resolve, disassemble | text files, hex files |
| Runtime headers (`runtime/*.h`) | none | names and inline assembly the selector knows | user code |
| TableGen files, tests, examples | none | | no target of the program |

What makes each correct:

* **Clang script**: on success the output is the code of the source that was named,
  at the level and in the format asked for; however it ends, the temporary
  file is gone and no file it was not asked for has changed.
* **Driver**: a failure has changed nothing; a success is a translation of what the
  input held, in the output that was asked for.
* **Divergence pass**: control flow does not change; every edge into a
  reconvergence point that must synchronise does; along every path each SYNC
  pops the entry the SSY of its own branch pushed, and a lane returns with an
  empty stack.
* **Selector**: every operand is a register that was given the operand's value on
  every path; a conditional branch tests the compare it names; the code does
  what the IR means.
* **Register allocator**: no two values that are live together share a register;
  no register is lost; it fails only for want of registers, and then leaves the
  code alone; executing the result reads the values the source would.
* **Emitter, assembler, instruction set**: all routes from a module to words give
  the same words, and each jump leads to the block it names.

The hazards, each at its line, are in `PROJECT.json`.

## 2. The modules

| module | models | role |
|---|---|---|
| `IntervalColouring` | what register allocation promises | abstract specification |
| `RegAlloc` | `RegisterAllocator::allocate` | component |
| `LaneExecution` | `RegAlloc` and one lane that runs its result | composition |
| `DivergencePass` | `runDivergencePass` | component |
| `SimtPath` | `DivergencePass` and one lane on its result, with the SIMT stack | composition |
| `KernelIR` | LLVM IR as the selector reads it | data |
| `KernelRun` | what a kernel of IR means to one lane, with the runtime headers | abstract specification |
| `InstructionSelector` | `InstructionSelector`, every case | component |
| `SelectedExecution` | `InstructionSelector` and one lane on the selected code, next to `KernelRun` | composition, refinement |
| `MachineCode` | the instruction set: `encode`, printing, parsing, disassembling | operators |
| `CodeRoutes` | `compileModule`'s concatenation, `CodeEmitter`, `Assembler`, `disassemble` | component |
| `Driver` | `main`, `CompilerBackend::compileFile` and what they do to files | component |
| `ClangScript` | `fpgagpu-clang` and `Driver` in one session | composition |
| `RegAllocProofs`, `DivergenceProofs`, `SimtPathProofs`, `SelectorProofs`, `SimulationProofs`, `MachineCodeProofs`, `CodeRoutesProofs`, `DriverProofs` | | theorems |
| `MC*` | | instances for TLC |

**RegAlloc.** A program is the sequence of its instructions, of each of which only
`rd`, `rs1`, `rs2` matter: the allocator looks at blocks in textual order only.
`phase` says which loop of `allocate` runs: `RecordUses` is one instruction of the
first loop (with `recordUse` for its three operands), `StartScan` the sort and the
filling of the pool, `Allocate(v)` and `OutOfRegisters(v)` one turn of the scan, expiry
included, `RewriteInstruction` one instruction of the last loop. The inner loop that
expires ranges (`while`, `erase`, `++it` on one branch) is the set `Expired` of what it erases;
that it ends is not a property of the model. `IsNext` leaves
ranges with equal birth and death in any order, as `std::sort` does. Positions
count from 1 where the code's count from 0. `source` is a history variable.
`ImplementsPromise` is the refinement: `ranges <- intervals`, `colour <- vregToPhys`.

**LaneExecution.** The lane and the control flow (`Edges`) are external. A register
holds the name of the virtual register last written through it, which is enough
to ask whether an operand still has its value.

**DivergencePass.** A function is its control-flow graph, blocks 1..n in textual
order; the blocks the pass creates are appended. `VisitBranch` is one turn of the
outer loop up to the list of predecessors, `SplitEdge` one turn of the inner loop,
`SkipBranch` the early `continue`; `todo` is the set of branches the outer loop has still
to come to, `IsNext` the one it comes to next, in the order of the text. Both dominator trees are operators on `original`,
the function before the pass, because the code computes them once; `Dominates`
gives LLVM's answer for a block the tree does not know. LLVM lists predecessors in
use-list order, which decides only how new blocks are numbered; the model takes the
smallest first. Visiting a branch of an unreachable block is modelled like any
other visit.

**SimtPath.** SSY pushes, SYNC pops. How the hardware parks lanes is not in the
repository, and nothing here depends on it: the properties only compare the SYNC a
lane comes to with the SSY on top of the stack.

**InstructionSelector.** One action per case of `selectInstruction` and `selectCall`.
A handler asks for registers in an order that decides their numbers, and pushes
instructions; `Handle(asks, own)` takes the list of what it asks for
(`Get` for `getOrCreateVReg`, `Materialize` for `getOrMaterializeVReg`, `Fresh` and
`Number` for `allocateVReg` without and with an `ADDI` that fills it) and the
instructions it pushes as a function of the answers. `code` keeps the machine
instructions of each IR instruction apart, so that a lane can be followed
instruction by instruction. `FieldSize` is the range of the register fields, 256
in the code (`uint8_t` fields, `uint32_t` numbers); numbers are cut to it. Text that
selection searches (callee names, inline assembly) is one token per outcome; what
the search does to the label of an SSY is in `CodeRoutes`.

**KernelRun, SelectedExecution.** `KernelRun` is the promise: a lane that runs the IR,
one step per instruction, the calls of the runtime headers with the meaning the
headers give them. An instruction has the width of its type and its result wraps in it
(`InBits`); memory is bytes, and a load or a store is of as many of them as its type has
(`LoadedFrom`, `StoredIn`). The lane has registers of `LANE_WIDTH_BITS`, and `LDR` and `STR`
move that many bits, whatever the type was. `LANE_WIDTH_BITS` is 32 in the code
(`include/FpgaGpu.h:15`), which is also the width of `int` and of pointers of the target the
script compiles for (riscv32, `scripts/fpgagpu-clang:104`); the "64-bit word" of
`README.md:54-55` is read as the two lanes of a vector register together. `SelectedExecution` runs the machine instructions on virtual
registers, with the NZP bits as the code assumes them (arithmetic and `CMP` set
them); R0 reads as 0, and reading a register nothing has written is a step to `Fault`.
`ImplementsKernel` is the refinement, `env` being what the registers held: each
group of machine instructions either computes, stores or branches as the IR instruction
does, or is invisible.
The refinement is promised up to the first comparison `CMP` cannot decide
(`AtMisreadComparison`).

**MachineCode** writes a word as an opcode and a 24-bit body, a line of text as
mnemonic, registers in textual order, number, condition letters and name. Widths and
sign extension are kept, spelling is not.

**CodeRoutes.** `SelectFunction` selects the SSYs (`Selected`: the text, block name and all, is
lowered and searched for `s2r`, then `sync`, then `ssy`, so that a name can make an S2R or a
SYNC of it) and appends one function's blocks to
`allBlocks`; `SpellS2r`, `SpellSync` and `LowerCase` say what the search and `tolower` find in a name; `RecordBlock` is one turn of the first pass of `resolveBranchOffsets`;
`EmitBlock` the second pass and the printing of a block, as words and as text;
`AssembleListing` and `AssembleDisassembly` choose the text that goes into the
assembler; `ParseLabel` and `ParseInstruction` are one line of its first pass,
`LinkInstruction`, `RejectLabel`, `Assembled` its second. `Address`, which the properties
use, counts the instructions of the module before a block, without the code's counters. The input is a module with
physical registers already in it.

**Driver.** A session of invocations over files that persist. An argument is one step
(`TakeOutput`, `TakeSetting`, `TakeInput`, `Help`, `UnknownOption`), `ChooseMode` fixes the
default output; a mode opens its output, which empties it, and writes it line by line,
and `DiskFull` may happen before any line. A file is a sequence of lines, each one
module, one instruction as text, digits or bytes, or a comment (`Lines`); `Readings` is what
`parseLine` makes of a line, `Program` what has been assembled at the end of a file; a path is the
sequence of its pieces between dots, as the driver looks for the last one. What
`parseLine` or `stoul` make of a line of the wrong kind is nondeterministic
over what the code can produce. `Code` stands for everything between a module
and its words. `Convertible`, `Converted` and the `Asked...` operators read a command
line as the usage text has it, apart from the loop of `main`.

**ClangScript.** The script's steps, each a command of the shell text; any command may
fail, `mktemp` included (`MktempFails`; the trap is not yet set then), `set -e` ends it and the
trap removes the temporary file. Clang is external and
may fail for any reason. `fpgagpu-llc` is called by starting an invocation of `Driver`,
and the user may call it directly between two runs of the script.

## 3. The runs

| run | states | what it shows |
|---|---|---|
| `regalloc` | 184 255 | type, exact ranges during the walk, no interference, conservation of registers, the rewrite is a renaming, refinement of `IntervalColouring`; without back edges other than those out of SYNC blocks every operand is read with its value |
| `loop_exec` | violation | with the back edge of a loop it is not |
| `divergence` | 5 591 | flow preserved, regions synchronised, well-nested functions reconverge |
| `divergence_shared` | violation | branches with one post-dominator: a SYNC without its SSY |
| `divergence_loop` | violation | a loop leaves entries on the stack |
| `selector` | 190 516 | values keep registers of their own; for supported kernels no unwritten register is read, the lane does what the IR means, and returns |
| `selector_constants` | violation | a constant used in one arm and after it: its register is read unwritten |
| `selector_immediates` | violation | an ADDI with an immediate beyond the 12 bits of the comment at `src/FpgaGpuISel.cpp:217` |
| `routes` | 172 700 | the routes agree; with plain names jumps lead where they should and nothing is rejected |
| `routes_names` | violation | equal block names in two kernels: a branch into the other kernel; an SSY to a block named `Done`: offset 0, `sync`: a SYNC, `test_s2r.exit`: an S2R |
| `driver` | 2.5 million | failures change nothing; what can be translated and written is, but for full disks and `-d` onto its own input; the script compiles, touches only its own files and leaves no temporary one |
| `driver_disasm` | violation | `-d k.hex` without `-o` empties its input |

Bounds, and why they are enough.

* `regalloc`: two allocatable registers, four virtual ones, every sequence of four
  instructions of the shapes the selector makes (the last one only reading), up to
  renaming, and every pair of positions `<<i, j>>` with `i < j` as an edge, so every forward
  control flow is among the paths. Three overlapping ranges exhaust two registers, and a
  register can be freed and taken again; the proofs cover the rest. The divergence pass
  appends its SYNC blocks at the end of the function (`src/FpgaGpuBackend.cpp:78-79`), from where
  their branch leads back in the text, so compiled code with a reconverging conditional has a
  backward edge even without loops. The run has two such blocks, at positions 5 and 6, on the
  way to positions 3 and 4: they mention no register, which is why ranges are not disturbed.
  `ForwardProgramsKeepTheirValues` has the premise `Forward` and does not speak of them.
* `divergence`: all forward functions of five blocks without unreachable blocks, all functions of
  three blocks, two of six and seven with nested and with consecutive conditionals.
  Five blocks allow two branches with the same or different post-dominators, edges
  taken twice and dead ends. `MaxStack` (4) cuts paths through loops; functions in
  which a block cannot reach a return are left out, as their trees hang below a virtual root.
* `selector`: 9 924 pairs of a kernel and its arguments: each instruction alone, every
  pair of computations in a row, every predicate with all signs of its operands, all
  placements of constants in a conditional in two textual orders, loops
  through memory, words of memory that overlap, chains of additions up to and beyond the number of registers, and
  every instruction that is dropped or selected wrongly. `FieldSize` is 16 instead
  of 256, so that the chains of 8 to 12 additions pass the limit from both sides, and `LANE_WIDTH_BITS`
  16 instead of 32, as products of words have to be numbers of TLC; arguments include the ends of
  that range, so sums, products and differences wrap. The theorems allow both widths. `MaxSteps` (40)
  is more than any of the supported kernels takes.
* `routes`: every instruction with registers at 0 and 31, immediates on both
  sides of the 14-bit limits, all seven conditions; every three-block function with
  blocks that are empty, jump or mark a region, in both directions; two functions with
  separate and with shared names; names that change on the way or have `sync` or `s2r` in them.
* `driver`: two invocations (`MaxRuns`), so that one reads what another has written or left
  half-written; the command lines have each mode and format, conflicting options in
  any order, `-o` naming the input, a listing, a read-only file or an option, and lines that are
  refused; files of the wrong kind, missing and read-only ones, modules without code
  and modules that do not fit at `-O0`. Files are of one or two lines, enough for a
  disk to fill up before, between and after them.

`CHECK_DEADLOCK FALSE` stands in every configuration because a compiler run ends;
that a supported kernel does end is the property `Returns`.

Fairness is stated only where a liveness property needs it: weak fairness of `LaneNext` in
`SelectedExecution`. The selector is a sequential call that waits for nothing, and a
single lane has nobody to wait for, so a step that can be taken is taken.

Some properties are implications whose premise names the inputs the code is right
for: `WellNested` (`WellNestedReconverges`), `PlainNames` (`PlainNamesReach`,
`PlainNamesAssemble`), `Supported` (`OperandsFilled`, `ImplementsKernel`, `Returns`). The
violating runs drop the premise, and the instances of the passing ones contain inputs
on both sides of it. `PlainNames` asks that no two functions share a block name and that the
names SSYs go to have no capital, no `sync` and no `s2r` in them. `Supported` excludes, each for a reason a kernel of the run shows:
instructions without a case, loads, stores and arithmetic that are not of words and casts that
are more than a move (`selectLoad` and `selectStore` emit one LDR and one STR for every type), constants
asked for with `getOrCreateVReg`, numbers past the 12 bits of the comment at
`src/FpgaGpuISel.cpp:217`, operators and shifts selected as something else, addresses
with several indices or of elements without a size, conditions that are not compares, predicates with another use than
a branch, constants whose first use in the text does not dominate the others, names
that meet after numbering, and more registers than the field holds. `ImplementsKernel` ends at a
comparison `CMP` cannot decide: a signed one whose difference wraps in the word, and an
unsigned one (which gets the condition code of the signed one) of different signs whose difference does not.
A hazard that such a premise excludes is not covered by the property, and says so in `PROJECT.json`.

## 4. The disagreements found

Seven runs end in a counterexample; `PROJECT.json` quotes the line each one
contradicts.

1. Live ranges are textual (`src/FpgaGpuRegAlloc.cpp:20-37`): a value defined before a
   loop loses its register inside it (`loop_exec`).
2. The dominator tree is stale (`src/FpgaGpuBackend.cpp:39,72`): for branches that share a
   post-dominator SYNCs are chained onto paths that never ran the SSY (`divergence_shared`).
3. SSY is inside a loop, its SYNC outside (`src/FpgaGpuBackend.cpp:67,78`; `divergence_loop`).
4. Labels are unique per function only (`src/FpgaGpuEmitter.cpp:17`; `routes_names`).
5. SSY labels are lowered (`src/FpgaGpuISel.cpp:394`), and an unknown label is encoded as
   offset 0 without an error (`src/FpgaGpuEmitter.cpp:29`; `routes_names`).
6. A constant is put into its register once, where the text first needs it
   (`src/FpgaGpuISel.cpp:27`), which another path may not pass (`selector_constants`).
7. The default output of `-d` on a hex file is that file (`src/main.cpp:126`): it is
   emptied before it is read, and status 0 returned (`driver_disasm`).
8. An SSY to a block with `s2r` or `sync` in its name is selected as an S2R or a SYNC
   (`src/FpgaGpuISel.cpp:396,407`; `routes_names`).
9. The comment at `src/FpgaGpuISel.cpp:217-218` gives ADDI a 12-bit immediate, and additions keep to it;
   constants, factors, offsets and strides do not (lines 37, 162, 182, 277;
   `selector_immediates`). `README.md:53`, `include/FpgaGpu.h:23` and `encode` have 14 bits. The
   hardware is not in the repository, so `Supported` takes the smaller range, where all agree.

## 5. What is proved

All from the named assumptions on constants in the component modules, which TLC evaluates
in the runs: `NumPhysRegs` positive, `VRegs` within 1..255, programs are sequences of
instructions, `Edges` are pairs of positions, `Cfgs` are graphs, kernels have blocks,
kernels are IR that LLVM's verifier accepts (`VerifiedAssumption`: a block ends in its only
terminator, operands are there and computed on every path to their use), a field of a
`MachineInstruction` holds at most 256 numbers (`FieldSizeAssumption`), a lane is 32 bits wide, or 16 (`LaneAssumption`), and has words in its system registers
(`RunAssumption`), modules are functions whose jumps stay inside them and whose fields fit
(`KernelsAssumption`, `NamesAssumption`), command lines are sequences of arguments, the
temporary path ends in `.ll` and is nobody else's (`TmpLlAssumption`).

* `RegAllocProofs`: `TypeCorrect`, `AllocationIsSafe`, `PoolIsConserved`, `RewriteIsCorrect`,
  `RangesAreExact` and
  `AllocatorRefinesPromise`. The inductive invariant `IInv` is needed because none of these is
  inductive: non-interference holds after a step only because ranges are scanned in
  the order of their births (so a range that has expired cannot meet a later one), because
  every register out of the pool has an active holder, and because a range not active any
  more ended before everything that is still pending. `ScanInv` states these, `ProgramInv`
  ties ranges to the mentions in the source; `RangesAreExact` follows since a mention
  is never before the birth already recorded. That `allocate` fails only under real
  pressure is a pigeonhole argument: at failure every register is held by an active range
  that contains the position at which the next one begins.
  `ForwardProgramsKeepTheirValues`, about `LaneExecution`, is in the same module. Its invariant says that a
  value written and still to be read by the text from here on is in its register; a write to
  that register by another virtual register would be an interference.
* `DivergenceProofs`: `FlowIsPreserved`, `RegionsAreSynced` and `PassTypes`. The invariant adds to the first the
  shape of the graph (SYNC blocks are the appended ones), to the second that an edge still
  without SYNC is still listed. Neither argument uses what the trees answer, only that
  the answers do not change, so both hold whatever dominance is. `PassInvariant` adds what the next
  module needs: which branch each SYNC block was made for, and in what order.
* `SimtPathProofs`: `LanesReconverge`, for functions of any size, and any number of
  branches. `LaneLeavesPass` says that the lane does not touch the pass's result, so its
  invariants carry over. `PathInvariant` gives each entry of the stack an owner, the branch whose
  SSY pushed it (`AtBlock`): the lane is in the region of every owner (it came from the owner
  around its reconvergence point), the owner of an entry is in the region of the owners of the entries below,
  and a branch that dominates the lane and whose reconvergence point is still ahead
  owns an entry. Two regions are nested or apart (`InnerRegionEndsFirst`), so
  the lane leaves them in the order of the stack, and the SYNC on an edge out of a region is
  the one of the top entry. At a return no owner is left, as the lane would be in a region with
  no return behind it; that every block leads to a return when there is no loop
  (`LeadsToReturn`) is a descent on the sets of blocks that can be reached.
* `SelectorProofs`: `ValuesAreKeptApart`, and `LaneValuesAreKeptApart` for the composition. The
  invariant `Numbered`: numbers given are below `nextVReg` and no two values share
  one; within a handler the new asks are numbered upwards (`AllocatedGrows`).
  `SelectorTypeCorrect` speaks of the run of the selected code too. A lane keeps its type only if the
  code it runs has its shape: `Shape` says of every group of machine instructions selected so far
  that its fields hold what they may and its jumps name blocks of the kernel (`Written`), and that
  the selector's own position is a place of the kernel; `LaneShape` that the lane is at a place
  whose code exists. That a handler keeps `Shape` is one lemma (`ShapeKept`) from what each
  handler asks for and pushes (`HandlersAsk`, `HandlersPush`), and what asks are answered is
  another (`AsksAnswered`).
  `OperandsAreFilled` needs more than shape. `HandlersMean` says of every case of the
  selector what its group of machine instructions does (`Means`, per class of instruction) and that
  inside the group every register is written before it is read, or is one the instruction `Needed`
  (`IsTidy`, within `IsCode`). `Forms` lifts that to all the code selected so far, adds that the
  prologue loads argument k from 8k and that a constant is filled in the first block
  that uses it. Selection is append-only (`Grows`), so what was true of a group stays true
  (`CodeKept`). The lane's invariant `LaneFilled` then says that everything on *every* path to
  the lane's place has been run (`Reached`): results are filled because their block
  dominates (`PrecedesSuccessor`, `PrecedesFollowing`), constants because of `ConstantsDominate`, the condition the
  model states for kernels the selector is right for, and a group only ends a
  block by a jump or EXIT (`LastOfBlock`), so the lane does not run past the function.
* `SimulationProofs`: `CodeImplementsKernel`, the refinement `ImplementsKernel`, for every
  kernel, every control flow and all arguments, with lanes of 32 bits and of 16. The property, and so the theorem, speaks
  of kernels that are `Supported` (instructions on words that the selector has a correct case for,
  constants that fit and dominate, labels that are unique, registers that fit their
  fields), of registers before allocation, and of a lane that has not come to a branch whose
  comparison `CMP` cannot decide (`Misread`; `SignDecides` is why it decides all others). The invariant `Simulates` says
  nothing until selection is `Finished`, as the lane waits for it, and then `Faithful`:
  registers hold words, memory and names integers (`Typed`); a register of a materialised
  constant, once written, has that constant (`ConstantsHold`); each name the kernel has
  computed is in its register (`NamesHold`), as are the arguments (`ArgumentsHold`). A
  predicate of an `icmp` has no register: its comparison is made again at the branch, so
  what it said when the kernel computed it must still be what its operands say there
  (`Passed`). That is so because its operands come before it on every path (`Precedes`):
  where a predicate is still to be used none of them can be computed again, since in a
  block that can be reached (`Reachable`) two instructions do not each come before the
  other. Inside a group, what an instruction has written is what it would still write
  (`GroupHolds`), since no group overwrites what it has read, and behind the CMP of a
  branch the sign is that of the operands (`Tested`); before the entry block the prologue
  has loaded the first arguments (`PrologueHolds`). From `Means`, one lemma per class of
  instruction gives the value its group ends in (`BinaryValue`, `AddressValue`,
  `GlobalIdValue`, ...), and one lemma per action of the kernel that the last instruction
  of a group is that action (`KernelComputes`, `KernelStores`, `KernelBranches`, ...). A word
  that is loaded is the number its bytes make (`WordOfBytes`, `LoadedIsWord`), and what wraps in the IR wraps
  alike in the lane since both keep the number modulo the same power (`WordOfSum`). All
  other steps of the lane, and all of selection, are stutters.
* `MachineCodeProofs`: `PlainRoundTrip`, `JumpRoundTrip`, `DisassemblyRoundTrip`. `encode` is a
  sum of fields, each below the unit of the one above (`EncodeIs`); division and remainder
  give the fields back, sign extension loses nothing modulo the field, and
  two instructions with the same opcode and fields are the same word (`SameWord`).
  That includes immediates that are cut: they are cut alike everywhere.
* `CodeRoutesProofs`: `RoutesTypes`, `RoutesAgreeAlways`, `PlainNamesAssembleAlways`,
  `PlainNamesReachAlways`. `RoutesAgree` speaks
  of the end only. The invariant `Inv` says of every moment that the emitter's map gives
  the address of the last block of a name (`LaidOut`), that the text means the words:
  the k-th instruction line is assembled into the k-th word given that map (`Good`), and a
  label line counts to the address in the map unless its name comes again
  (`LabelKept`); and that the assembler's labels are the last of their names
  so far (`Assembling`). At the end of the text both maps are therefore the same. Nothing
  about names is used; plain names are needed only for labels to be found (`PlainInv`), and for an SSY to
  be selected as one.
  `PlainNamesReachAlways` compares the words with the module instead of with each other.
  `ReachInv` gives each block of `allBlocks` the function and block it came from (`Origins`),
  in the order of the module; the address the emitter counts is then the number of
  instructions before that block in the module (`Places`), the word of each instruction stands at its
  own address (`Written`), and a label that is unique and has not changed on its way is
  the label of one block only. The offset survives the 19 bits of the field when the
  program has fewer than 2^18 instructions; the memory holds 1024 (`IRAM_DEPTH`), which no code compares.
* `DriverProofs`: `DriverTypeCorrect`, `WhatCanBeTranslatedIs`, `FailuresChangeNothing` (and
  `ScriptTypeCorrect`, `ScriptTranslatesWhatCanBe`, `ScriptFailuresChangeNothing` in sessions with the
  script), `TempIsRemoved`, `ScriptStaysWithinItsFiles`, `ScriptDeliversTheCode`, for sessions of any
  length. `ScriptInv` ties the script's stage to that of the invocation it waits for,
  `FilesInv` says which files may differ from those at the start of the script,
  `ContentInv` that what is written so far followed by what is pending is the code.
  `TranslatesWhatItCan` reads a command line as a whole (the last `-o`, the last file that
  is not the name of one), `main` reads it from left to right: the invariant is that after
  each argument the options are what the usage text says of the arguments so far. From
  the moment the mode is chosen, what is in the output, followed by what is pending, and for a
  disassembly by the listing of the lines not yet read, is the translation of the input.

Where these proofs meet recursion (`Program`, `Given`, ranges) they use the one form the
provers can follow: a function that takes all the steps exists and is unique (`Recursion`,
`RecursionUnique`), by the least natural number at which it would not (`LeastNat`).

Only model-checked:

* `Returns`: liveness under fairness is out of the prover's reach. `ReadsOwnValue` in code with SYNC
  blocks, which is outside the premise of its theorem. All safety
  properties and refinements of the passing runs are stated by theorems.

## 6. Plan

1. *(done)* the allocator, its promise, its execution, their proofs;
2. *(done)* the divergence pass, the SIMT stack on its result, two proofs;
3. *(done)* the instruction set and the routes to machine code, the round trips and
   the agreement of the routes proved;
4. *(done)* the selector, the meaning of its input, the refinement checked, the value map proved;
5. *(done)* the driver and the script, with files, failures and full disks, proved;
6. *(done)* what the code of each instruction computes, for every kernel (the letters, the
   operands and the temporaries of each case of the selector), and from it `OperandsFilled`
   and, by a simulation, `ImplementsKernel`, both proved;
7. *(open)* the selector composed with the allocator on loops: the live ranges of a
   materialised constant; hand-written assembly with malformed lines; two lanes on one SIMT
   stack, once the repository says how the hardware parks them.

## 7. What is not modelled

* LLVM's own passes, parser and dominator trees, and clang: external; the model uses what
  the code asks of them.
* Phi nodes: the selector drops them like any instruction without a case, which is
  modelled, but not what `setSuccessor` does to their lists of predecessors.
* SYNC written by the user inside a divergent region.
* Hand-written assembly with missing operands, labels that begin with a digit, or
  condition 0: no tool of the repository writes them, and the assembler is `partly`
  modelled for that reason.
* The byte order and the contents of comments of the files, and `IRAM_DEPTH`, which
  no code reads.
* Memory of other widths than bytes, and what a 64-bit LDR or STR of `README.md:54-55` would do to
  the lanes of a vector register: one lane moves one word of `LANE_WIDTH_BITS`.
* The TableGen files (no target uses them), tests, examples and build files.

The machine itself is modelled only as far as the comments of `enum Opcode` and of the
selector describe it.

## 8. Running it

    tlc -config MCRegAlloc.cfg MCRegAlloc.tla        (and the other MC modules)
    tlapm RegAllocProofs.tla                         (and the other *Proofs modules)

Each `.cfg` belongs to the MC module whose constants it names: `MCSharedJoin` and `MCLoopJoin`
to `MCSimtPath`, `MCArmConstant` and `MCImmediates` to `MCSelector`, `MCNames` to `MCCodeRoutes`, `MCDisasm` to
`MCClangScript`. `CodeRoutesProofs` takes the longest to prove.
