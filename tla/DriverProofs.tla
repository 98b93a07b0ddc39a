---------------------------- MODULE DriverProofs ----------------------------
(***************************************************************************)
(* What sessions of fpgagpu-llc and fpgagpu-clang do to files, for every   *)
(* set of command lines, files, modules and words, and for sessions of any *)
(* length.                                                                 *)
(***************************************************************************)
EXTENDS ClangScript, SequenceTheorems, WellFoundedInduction, TLAPS

-----------------------------------------------------------------------------
(* A failure leaves the files alone.                                       *)

\* No file is touched before every check is behind the invocation.
FailureInv ==
  /\ stage \in {"options", "assemble", "disassemble", "compile"} => files = before
  /\ FailureChangesNothing

LEMMA RefuseFailureInv ==
  ASSUME FailureInv, Refuse,
         stage \in {"options", "assemble", "disassemble", "compile"}
  PROVE  FailureInv'
  BY DEF FailureInv, FailureChangesNothing, Refuse, Exit

LEMMA InvocationFailureInv ==
  ASSUME FailureInv, Invocation
  PROVE  FailureInv'
<1>1. CASE Help
  BY <1>1 DEF Help, Reading, Exit, FailureInv, FailureChangesNothing
<1>2. CASE TakeOutput \/ TakeSetting \/ TakeInput
  BY <1>2 DEF TakeOutput, TakeSetting, TakeInput, Taking, FailureInv, FailureChangesNothing
<1>3. CASE UnknownOption \/ NoInput \/ NoText \/ RejectText \/ CannotDisassemble \/ CannotCompile
  BY <1>3, RefuseFailureInv
     DEF UnknownOption, Reading, NoInput, NoText, RejectText, CannotDisassemble, CannotCompile
<1>4. CASE ChooseMode
  BY <1>4 DEF ChooseMode, FailureInv, FailureChangesNothing, Mode
<1>5. CASE Assemble \/ Disassemble \/ Compile
  BY <1>5 DEF Assemble, Disassemble, Compile, Open, FailureInv, FailureChangesNothing
<1>6. CASE ListLine \/ WriteLine \/ DiskFull
  BY <1>6 DEF ListLine, WriteLine, DiskFull, FailureInv, FailureChangesNothing
<1>7. CASE Succeed
  BY <1>7 DEF Succeed, Exit, FailureInv, FailureChangesNothing
<1> QED
  BY <1>1, <1>2, <1>3, <1>4, <1>5, <1>6, <1>7 DEF Invocation

LEMMA BeginFailureInv ==
  ASSUME NEW arguments, Begin(arguments), UNCHANGED files
  PROVE  FailureInv'
  BY DEF Begin, FailureInv, FailureChangesNothing

LEMMA FailureInvariant == Spec => []FailureInv
<1>1. Init => FailureInv
  BY DEF Init, FailureInv, FailureChangesNothing
<1>2. FailureInv /\ [Next]_driverVars => FailureInv'
  <2> SUFFICES ASSUME FailureInv, [Next]_driverVars PROVE FailureInv'
    OBVIOUS
  <2>1. CASE Start
    BY <2>1, BeginFailureInv DEF Start
  <2>2. CASE Invocation
    BY <2>2, InvocationFailureInv
  <2>3. CASE UNCHANGED driverVars
    BY <2>3 DEF driverVars, FailureInv, FailureChangesNothing
  <2> QED
    BY <2>1, <2>2, <2>3 DEF Next
<1> QED
  BY <1>1, <1>2, PTL DEF Spec

\* An invocation of fpgagpu-llc that reports failure has not touched a file.
THEOREM FailuresChangeNothing == Spec => []FailureChangesNothing
<1>1. FailureInv => FailureChangesNothing
  BY DEF FailureInv
<1> QED
  BY <1>1, FailureInvariant, PTL

-----------------------------------------------------------------------------
(* What the arguments that have been read make of the options.             *)

OptionSet == [input : Paths, output : Paths, format : {"asm", "hex", "bin"}, optimize : BOOLEAN,
              assemble : BOOLEAN, disasm : BOOLEAN]

ArgumentsInv ==
  /\ argv \in Seq(Arguments)
  /\ parsed \in 0..Len(argv)
  /\ options \in OptionSet

LEMMA FormatNames ==
  /\ DOMAIN Formats = {"s", "x", "b"}
  /\ \A f \in {"s", "x", "b"} : Formats[f] \in {"asm", "hex", "bin"}
  /\ Formats["s"] = "asm" /\ Formats["x"] = "hex" /\ Formats["b"] = "bin"
  BY DEF Formats

LEMMA ExtensionNames ==
  \A f \in {"asm", "hex", "bin"} : Extension[f] \in {"s", "hex", "bin"}
  BY DEF Extension

LEMMA DefaultsTyped == Defaults \in OptionSet
<1>1. NoPath \in Paths
  BY DEF NoPath, Paths
<1> QED
  BY <1>1 DEF Defaults, OptionSet

\* A setting changes neither file name, and one field of the options only.
LEMMA AppliedTyped ==
  ASSUME options \in OptionSet, NEW opt \in Settings
  PROVE  /\ Applied(opt) \in OptionSet
         /\ Applied(opt).input = options.input
         /\ Applied(opt).output = options.output
<1>1. CASE opt \in DOMAIN Formats
  <2>1. Applied(opt) = [options EXCEPT !.format = Formats[opt]]
    BY <1>1, FormatNames DEF Applied
  <2> QED
    BY <1>1, <2>1, FormatNames DEF OptionSet
<1>2. CASE opt \in {"O0", "O2"}
  <2>1. Applied(opt) = [options EXCEPT !.optimize = (opt = "O2")]
    BY <1>2, FormatNames DEF Applied
  <2> QED
    BY <2>1 DEF OptionSet
<1>3. CASE opt = "a"
  <2>1. Applied(opt) = [options EXCEPT !.assemble = TRUE]
    BY <1>3, FormatNames DEF Applied
  <2> QED
    BY <2>1 DEF OptionSet
<1>4. CASE opt = "d"
  <2>1. Applied(opt) = [options EXCEPT !.disasm = TRUE]
    BY <1>4, FormatNames DEF Applied
  <2> QED
    BY <2>1 DEF OptionSet
<1> QED
  BY <1>1, <1>2, <1>3, <1>4 DEF Settings

\* The output name made of an input name is a path with a dot, and not the one
\* of the temporary file.
LEMMA DefaultOutput ==
  ASSUME NEW path \in Paths, NEW f \in {"asm", "hex", "bin"}
  PROVE  /\ Append(Base(path), Extension[f]) \in Paths
         /\ Append(Base(path), Extension[f]) # NoPath
         /\ Append(Base(path), Extension[f]) # TmpLl
<1>1. Base(path) \in Paths
  BY SubSeqProperties DEF Base, Paths
<1>2. /\ Extension[f] \in {"s", "hex", "bin"}
      /\ Extension[f] \in Pieces
  BY ExtensionNames, PiecesAssumption
<1> DEFINE whole == Append(Base(path), Extension[f])
<1>3. /\ whole \in Paths /\ whole # <<>>
      /\ Len(whole) = Len(Base(path)) + 1
      /\ whole[Len(Base(path)) + 1] = Extension[f]
  BY <1>1, <1>2, AppendProperties DEF Paths
<1>4. whole[Len(whole)] # "ll"
  BY <1>2, <1>3
<1> QED
  BY <1>3, <1>4, TmpLlAssumption DEF NoPath

LEMMA ArgumentTyped ==
  ASSUME argv \in Seq(Arguments), NEW i \in 1..Len(argv)
  PROVE  argv[i].path \in Paths
<1>1. argv[i] \in Arguments
  OBVIOUS
<1> QED
  BY <1>1 DEF Arguments

LEMMA InvocationArgumentsInv ==
  ASSUME ArgumentsInv, Invocation
  PROVE  ArgumentsInv'
<1> USE DEF ArgumentsInv
<1>1. CASE TakeOutput
  <2>1. parsed + 2 \in 1..Len(argv)
    BY <1>1 DEF TakeOutput
  <2>2. options' \in OptionSet
    BY <1>1, <2>1, ArgumentTyped DEF TakeOutput, OptionSet
  <2> QED
    BY <1>1, <2>1, <2>2 DEF TakeOutput, Taking
<1>2. CASE TakeSetting
  BY <1>2, AppliedTyped DEF TakeSetting, Taking, Reading
<1>3. CASE TakeInput
  <2>1. parsed + 1 \in 1..Len(argv)
    BY <1>3 DEF TakeInput, Reading
  <2>2. options' \in OptionSet
    BY <1>3, <2>1, ArgumentTyped DEF TakeInput, OptionSet, Argument
  <2> QED
    BY <1>3, <2>1, <2>2 DEF TakeInput, Taking
<1>4. CASE ChooseMode
  <2>1. options' \in OptionSet
    BY <1>4, DefaultOutput DEF ChooseMode, OptionSet
  <2> QED
    BY <1>4, <2>1 DEF ChooseMode
<1>5. CASE \/ Help \/ UnknownOption \/ NoInput \/ NoText \/ RejectText \/ CannotDisassemble
           \/ CannotCompile \/ Succeed
  BY <1>5 DEF Help, UnknownOption, NoInput, NoText, RejectText, CannotDisassemble,
              CannotCompile, Succeed, Refuse, Exit
<1>6. CASE Assemble \/ Disassemble \/ Compile \/ ListLine \/ WriteLine \/ DiskFull
  BY <1>6 DEF Assemble, Disassemble, Compile, Open, ListLine, WriteLine, DiskFull
<1> QED
  BY <1>1, <1>2, <1>3, <1>4, <1>5, <1>6 DEF Invocation

-----------------------------------------------------------------------------
(* The script and the invocation it waits for.                             *)

CallSet == [argv : ScriptLines \cup {<<>>}, input : Paths, output : Paths,
            format : {"asm", "hex", "bin"}, optimize : BOOLEAN, save : BOOLEAN]

\* What fpgagpu-llc has made of the line the script gives it.
LlcInv ==
  /\ argv = LlcLine
  /\ ~options.assemble /\ ~options.disasm
  /\ stage \in {"options", "compile", "write", "ended"}
  /\ parsed \in {0, 1, 2, 4, 5}
  /\ parsed >= 1 => options.format = call.format
  /\ parsed >= 2 => options.optimize = call.optimize
  /\ parsed >= 4 => options.output = call.output
  /\ parsed = 5 => options.input = TmpLl
  /\ stage \in {"compile", "write"} => parsed = 5

\* Outside the script's own steps nothing has the name of its temporary file.
ScriptInv ==
  /\ ArgumentsInv
  /\ script \in {"none", "ended", "options", "clang", "save", "llc", "wait"}
  /\ script \notin {"none", "wait"} => stage = "idle"
  /\ call \in CallSet
  /\ call.output # TmpLl
  /\ shifted \in Nat
  /\ script \in {"clang", "save", "llc", "wait"} => call.output # NoPath
  /\ script = "wait" => LlcInv
  /\ script = "none" => argv \in CommandLines \cup {<<>>} /\ options.output # TmpLl
  /\ script \in {"none", "ended", "options"} => TmpLl \notin DOMAIN files

LEMMA LlcLineTyped ==
  ASSUME call \in CallSet
  PROVE  /\ LlcLine \in Seq(Arguments)
         /\ Len(LlcLine) = 5
         /\ LlcLine[1].opt \in DOMAIN Formats /\ Formats[LlcLine[1].opt] = call.format
         /\ LlcLine[2].opt = IF call.optimize THEN "O2" ELSE "O0"
         /\ LlcLine[3].opt = "o"
         /\ LlcLine[4].path = call.output
         /\ LlcLine[5] = [opt |-> "none", path |-> TmpLl]
<1>1. FormatOption \in DOMAIN Formats /\ Formats[FormatOption] = call.format
  <2>1. \E opt \in DOMAIN Formats : Formats[opt] = call.format
    BY FormatNames DEF CallSet
  <2> QED
    BY <2>1 DEF FormatOption
<1>2. \A opt \in OptionNames : Option(opt) \in Arguments
  <2>1. \A opt \in OptionNames : <<opt>> \in Paths
    BY PiecesAssumption DEF Paths
  <2> QED
    BY <2>1 DEF Option, Arguments
<1>3. \A path \in Paths : Operand(path) \in Arguments
  BY DEF Operand, Arguments, OptionNames
<1>4. call.output \in Paths /\ TmpLl \in Paths
  BY TmpLlAssumption DEF CallSet
<1>5. FormatOption \in OptionNames /\ "O2" \in OptionNames /\ "O0" \in OptionNames
      /\ "o" \in OptionNames
  BY <1>1 DEF OptionNames, Settings
<1>6. LlcLine \in Seq(Arguments)
  BY <1>2, <1>3, <1>4, <1>5 DEF LlcLine
<1> QED
  BY <1>1, <1>6 DEF LlcLine, Option, Operand

LEMMA NotTmpLl == TmpLl # NoPath
  BY TmpLlAssumption DEF NoPath

LEMMA ScriptInitInv == ScriptInit => ScriptInv
<1> SUFFICES ASSUME ScriptInit PROVE ScriptInv
  OBVIOUS
<1> USE DEF ScriptInit
<1>1. ArgumentsInv
  BY DefaultsTyped DEF Init, ArgumentsInv
<1>2. call \in CallSet /\ call.output # TmpLl
  <2>1. NoPath \in Paths
    BY DEF NoPath, Paths
  <2> QED
    BY <2>1, NotTmpLl DEF Call, CallSet
<1>3. options.output # TmpLl
  BY NotTmpLl DEF Init, Defaults
<1>4. TmpLl \notin DOMAIN files
  BY TmpLlAssumption DEF Init
<1> QED
  BY <1>1, <1>2, <1>3, <1>4 DEF Init, ScriptInv

LEMMA BeginArgumentsInv ==
  ASSUME NEW arguments \in Seq(Arguments), Begin(arguments)
  PROVE  ArgumentsInv' /\ options' = Defaults /\ argv' = arguments
  BY DefaultsTyped DEF Begin, ArgumentsInv

\* An invocation writes no file but its output.
LEMMA InvocationFiles ==
  ASSUME Invocation
  PROVE  /\ DOMAIN files \subseteq DOMAIN files'
         /\ DOMAIN files' \subseteq DOMAIN files \cup {options.output}
         /\ \A p \in DOMAIN files : p # options.output => files'[p] = files[p]
<1>1. CASE TakeOutput \/ TakeSetting \/ TakeInput
  BY <1>1 DEF TakeOutput, TakeSetting, TakeInput, Taking
<1>2. CASE \/ Help \/ UnknownOption \/ NoInput \/ NoText \/ RejectText \/ CannotDisassemble
           \/ CannotCompile \/ Succeed
  BY <1>2 DEF Help, UnknownOption, NoInput, NoText, RejectText, CannotDisassemble,
              CannotCompile, Succeed, Refuse
<1>3. CASE ChooseMode \/ DiskFull
  BY <1>3 DEF ChooseMode, DiskFull
<1>4. CASE Assemble \/ Disassemble \/ Compile
  BY <1>4 DEF Assemble, Disassemble, Compile, Open, Updated
<1>5. CASE ListLine \/ WriteLine
  BY <1>5 DEF ListLine, WriteLine, Written, Updated
<1> QED
  BY <1>1, <1>2, <1>3, <1>4, <1>5 DEF Invocation

\* No command line of a user makes TmpLl the output.
LEMMA UserOutput ==
  ASSUME ArgumentsInv, Invocation, options.output # TmpLl,
         argv \in CommandLines \cup {<<>>}
  PROVE  options'.output # TmpLl /\ argv' = argv
<1> USE DEF ArgumentsInv
<1>1. CASE TakeOutput
  <2>1. parsed + 2 \in DOMAIN argv
    BY <1>1 DEF TakeOutput, Reading
  <2>2. argv \in CommandLines
    BY <2>1
  <2>3. argv[parsed + 2].path # TmpLl
    BY <2>1, <2>2, TmpLlAssumption
  <2> QED
    BY <1>1, <2>3 DEF TakeOutput, Taking, OptionSet
<1>2. CASE TakeSetting
  BY <1>2, AppliedTyped DEF TakeSetting, Taking
<1>3. CASE TakeInput
  BY <1>3 DEF TakeInput, Taking, OptionSet
<1>4. CASE ChooseMode
  BY <1>4, DefaultOutput DEF ChooseMode, OptionSet
<1>5. CASE \/ Help \/ UnknownOption \/ NoInput \/ NoText \/ RejectText \/ CannotDisassemble
           \/ CannotCompile \/ Succeed
  BY <1>5 DEF Help, UnknownOption, NoInput, NoText, RejectText, CannotDisassemble,
              CannotCompile, Succeed, Refuse, Exit
<1>6. CASE Assemble \/ Disassemble \/ Compile \/ ListLine \/ WriteLine \/ DiskFull
  BY <1>6 DEF Assemble, Disassemble, Compile, Open, ListLine, WriteLine, DiskFull
<1> QED
  BY <1>1, <1>2, <1>3, <1>4, <1>5, <1>6 DEF Invocation

\* The line of the script is read as it is meant.
LEMMA InvocationLlcInv ==
  ASSUME ArgumentsInv, call \in CallSet, call.output # NoPath, LlcInv, Invocation, UNCHANGED call
  PROVE  LlcInv'
<1>1. LlcLine' = LlcLine
  BY DEF LlcLine, FormatOption
<1>2. /\ Len(argv) = 5
      /\ argv[1].opt \in DOMAIN Formats /\ Formats[argv[1].opt] = call.format
      /\ argv[2].opt = IF call.optimize THEN "O2" ELSE "O0"
      /\ argv[3].opt = "o"
      /\ argv[4].path = call.output
      /\ argv[5] = [opt |-> "none", path |-> TmpLl]
  BY LlcLineTyped DEF LlcInv
<1> USE DEF ArgumentsInv
<1>3. CASE TakeOutput
  <2>1. parsed = 2
    BY <1>2, <1>3, FormatNames DEF LlcInv, TakeOutput, Reading, Argument
  <2>2. options' = [options EXCEPT !.output = call.output]
    BY <1>2, <1>3, <2>1 DEF TakeOutput
  <2> QED
    BY <1>1, <1>3, <2>1, <2>2 DEF LlcInv, TakeOutput, Taking, OptionSet
<1>4. CASE TakeSetting
  <2>1. parsed \in {0, 1}
    BY <1>2, <1>4, FormatNames DEF LlcInv, TakeSetting, Reading, Argument, Settings
  <2>2. CASE parsed = 0
    <3>1. options' = [options EXCEPT !.format = call.format]
      BY <1>2, <1>4, <2>2, FormatNames DEF TakeSetting, Argument, Applied
    <3> QED
      BY <1>1, <1>4, <2>2, <3>1 DEF LlcInv, TakeSetting, Taking, OptionSet
  <2>3. CASE parsed = 1
    <3>1. options' = [options EXCEPT !.optimize = call.optimize]
      BY <1>2, <1>4, <2>3, FormatNames DEF TakeSetting, Argument, Applied, CallSet
    <3> QED
      BY <1>1, <1>4, <2>3, <3>1 DEF LlcInv, TakeSetting, Taking, OptionSet
  <2> QED
    BY <2>1, <2>2, <2>3
<1>5. CASE TakeInput
  <2>1. parsed = 4
    BY <1>2, <1>5, FormatNames DEF LlcInv, TakeInput, Reading, Argument
  <2>2. options' = [options EXCEPT !.input = TmpLl]
    BY <1>2, <1>5, <2>1 DEF TakeInput, Argument
  <2> QED
    BY <1>1, <1>5, <2>1, <2>2 DEF LlcInv, TakeInput, Taking, OptionSet
<1>6. CASE ChooseMode
  <2>1. parsed = 5 /\ options.output = call.output /\ stage' = "compile"
    BY <1>2, <1>6 DEF LlcInv, ChooseMode, Mode
  <2>2. options' = options
    BY <1>6, <2>1 DEF ChooseMode, OptionSet
  <2> QED
    BY <1>1, <1>6, <2>1, <2>2 DEF LlcInv, ChooseMode
<1>7. CASE \/ Help \/ UnknownOption \/ NoInput \/ NoText \/ RejectText \/ CannotDisassemble
           \/ CannotCompile \/ Succeed
  BY <1>1, <1>7 DEF LlcInv, Help, UnknownOption, NoInput, NoText, RejectText, CannotDisassemble,
              CannotCompile, Succeed, Refuse, Exit
<1>8. CASE Compile
  BY <1>1, <1>8 DEF LlcInv, Compile, Open
<1>9. CASE Assemble \/ Disassemble \/ ListLine
  BY <1>9 DEF LlcInv, Assemble, Disassemble, ListLine, Open
<1>10. CASE WriteLine \/ DiskFull
  BY <1>1, <1>10 DEF LlcInv, WriteLine, DiskFull
<1> QED
  BY <1>3, <1>4, <1>5, <1>6, <1>7, <1>8, <1>9, <1>10 DEF Invocation

\* The steps with which the script ends.
Exits ==
  \/ ToolMissing \/ ScriptHelp \/ ShiftFails \/ NoSource \/ MktempFails
  \/ ClangFails \/ CopyFails \/ LlcEnds

\* How it may end: with what status, and leaving which files.
Ending(code, left) ==
  /\ DOMAIN files \subseteq DOMAIN left
  /\ \A p \in DOMAIN left :
       \/ p \in DOMAIN files /\ left[p] = files[p]
       \/ script = "save" /\ p = Kept
  /\ code = 0 =>
       \/ script = "options" /\ shifted < Len(call.argv)
       \/ script = "wait" /\ status = 0
  /\ script = "wait" => left = files /\ stage = "ended" /\ code = status

LEMMA ExitsEnd ==
  ASSUME Exits
  PROVE  \E code, left : ScriptExit(code, left) /\ Ending(code, left)
<1>1. CASE ToolMissing \/ ShiftFails \/ NoSource \/ MktempFails \/ ClangFails
  <2>1. ScriptExit(1, files) /\ Ending(1, files)
    BY <1>1 DEF ToolMissing, ShiftFails, Shifting, NoSource, MktempFails, ClangFails, Ending,
                ScriptExit
  <2> WITNESS 1, files
  <2> QED
    BY <2>1
<1>2. CASE ScriptHelp
  <2>1. ScriptExit(0, files) /\ Ending(0, files)
    BY <1>2 DEF ScriptHelp, Shifting, Ending
  <2> WITNESS 0, files
  <2> QED
    BY <2>1
<1>3. CASE CopyFails
  <2>1. PICK left : /\ ScriptExit(1, left)
                    /\ left = files \/ left = Updated(files, Kept, <<>>)
    BY <1>3 DEF CopyFails, ScriptExit
  <2>2. Ending(1, left)
    BY <1>3, <2>1 DEF CopyFails, Ending, Updated
  <2> WITNESS 1, left
  <2> QED
    BY <2>1, <2>2
<1>4. CASE LlcEnds
  <2>1. ScriptExit(status, files) /\ Ending(status, files)
    BY <1>4 DEF LlcEnds, Ending
  <2> WITNESS status, files
  <2> QED
    BY <2>1
<1> QED
  BY <1>1, <1>2, <1>3, <1>4 DEF Exits

Shifts == ShiftOutput \/ ShiftSetting \/ ShiftInput \/ ShiftExtra

LEMMA ShiftsCall ==
  ASSUME call \in CallSet, call.output # TmpLl, shifted \in Nat, Shifts
  PROVE  /\ call' \in CallSet /\ call'.output # TmpLl
         /\ shifted' \in Nat
         /\ script = "options" /\ script' = script
         /\ UNCHANGED <<files, stage, argv, parsed, options, status, scriptStatus, scriptBefore,
                        diskFull>>
<1>1. Shifting /\ (Shift(1) \/ (Shift(2) /\ shifted + 1 < Len(call.argv)))
  BY DEF Shifts, ShiftOutput, ShiftSetting, ShiftInput, ShiftExtra, Shift
<1>2. \A i \in 1..Len(call.argv) : call.argv[i].path \in Paths /\ call.argv[i].path # TmpLl
  <2> SUFFICES ASSUME NEW i \in 1..Len(call.argv)
               PROVE  call.argv[i].path \in Paths /\ call.argv[i].path # TmpLl
    OBVIOUS
  <2>1. call.argv \in ScriptLines
    BY DEF CallSet
  <2>2. call.argv \in Seq(Arguments)
    BY <2>1, ScriptLinesAssumption
  <2>3. call.argv[i] \in Arguments /\ i \in DOMAIN call.argv
    BY <2>2
  <2> QED
    BY <2>1, <2>3, TmpLlAssumption DEF Arguments
<1>3. Len(call.argv) \in Nat
  <2>1. call.argv \in Seq(Arguments)
    <3>1. <<>> \in Seq(Arguments)
      OBVIOUS
    <3> QED
      BY <3>1, ScriptLinesAssumption DEF CallSet
  <2> QED
    BY <2>1
<1>4. call' \in CallSet /\ call'.output # TmpLl
  <2>1. CASE ShiftOutput
    <3>1. shifted + 2 \in 1..Len(call.argv)
      BY <1>3, <2>1 DEF ShiftOutput
    <3> QED
      BY <1>2, <2>1, <3>1 DEF ShiftOutput, CallSet
  <2>2. CASE ShiftSetting
    <3> DEFINE opt == Shifted.opt
    <3>1. CASE opt \in DOMAIN Formats
      <4>1. call' = [call EXCEPT !.format = Formats[opt]]
        BY <2>2, <3>1, FormatNames DEF ShiftSetting
      <4> QED
        BY <3>1, <4>1, FormatNames DEF CallSet
    <3>2. CASE opt = "save"
      <4>1. call' = [call EXCEPT !.save = TRUE]
        BY <2>2, <3>2, FormatNames DEF ShiftSetting
      <4> QED
        BY <4>1 DEF CallSet
    <3>3. CASE opt \in {"O0", "O2"}
      <4>1. call' = [call EXCEPT !.optimize = (opt = "O2")]
        BY <2>2, <3>3, FormatNames DEF ShiftSetting
      <4> QED
        BY <4>1 DEF CallSet
    <3> QED
      BY <2>2, <3>1, <3>2, <3>3 DEF ShiftSetting
  <2>3. CASE ShiftInput
    <3>1. shifted + 1 \in 1..Len(call.argv)
      BY <1>3, <2>3 DEF ShiftInput, Shifting
    <3> QED
      BY <1>2, <2>3, <3>1 DEF ShiftInput, Shifted, CallSet
  <2>4. CASE ShiftExtra
    BY <2>4 DEF ShiftExtra
  <2> QED
    BY <2>1, <2>2, <2>3, <2>4 DEF Shifts
<1> QED
  BY <1>1, <1>4 DEF Shift, Shifting, OthersUnchanged

LEMMA MktempCall ==
  ASSUME call \in CallSet, call.output # TmpLl, Mktemp
  PROVE  /\ call' \in CallSet /\ call'.output # TmpLl /\ call'.output # NoPath
         /\ call'.input = call.input /\ call'.save = call.save
<1>1. /\ Append(Base(call.input), Extension[call.format]) \in Paths \ {NoPath, TmpLl}
  BY DefaultOutput DEF CallSet
<1> QED
  BY <1>1 DEF Mktemp, CallSet

LEMMA ScriptStepInv == ScriptInv /\ [ScriptNext]_vars => ScriptInv'
<1> SUFFICES ASSUME ScriptInv, [ScriptNext]_vars PROVE ScriptInv'
  OBVIOUS
<1> USE DEF ScriptInv
<1>1. CASE UserStart
  <2>1. PICK arguments \in CommandLines : Begin(arguments)
    BY <1>1 DEF UserStart, Start
  <2>2. ArgumentsInv' /\ options' = Defaults /\ argv' = arguments
    BY <2>1, CommandLinesAssumption, BeginArgumentsInv
  <2>3. options'.output # TmpLl
    BY <2>2, NotTmpLl DEF Defaults
  <2>4. /\ script \in {"none", "ended"} /\ script' = "none"
        /\ UNCHANGED <<files, call, shifted>>
    BY <1>1 DEF UserStart, Start, NoScript
  <2> QED
    BY <2>2, <2>3, <2>4
<1>2. CASE ScriptStart
  <2>1. PICK arguments \in ScriptLines : call' = Call(arguments)
    BY <1>2 DEF ScriptStart
  <2>2. call' \in CallSet /\ call'.output # TmpLl
    <3>1. NoPath \in Paths
      BY DEF NoPath, Paths
    <3> QED
      BY <2>1, <3>1, NotTmpLl DEF Call, CallSet
  <2>3. /\ script \in {"none", "ended"} /\ script' = "options" /\ shifted' = 0
        /\ stage' = "idle" /\ UNCHANGED <<files, argv, parsed, options>>
    BY <1>2 DEF ScriptStart, NoScript
  <2>4. ArgumentsInv'
    BY <2>3 DEF ArgumentsInv
  <2> QED
    BY <2>2, <2>3, <2>4
<1>3. CASE Invocation /\ UNCHANGED scriptVars
  <2>1. ArgumentsInv'
    BY <1>3, InvocationArgumentsInv
  <2>2. script \in {"none", "wait"} /\ UNCHANGED <<script, call, shifted>>
    <3>1. stage # "idle"
      BY <1>3 DEF Invocation, Help, TakeOutput, TakeSetting, TakeInput, UnknownOption,
           ChooseMode, NoInput, Assemble, NoText, RejectText, Disassemble, CannotDisassemble,
           ListLine, Compile, CannotCompile, WriteLine, DiskFull, Succeed, Reading
    <3> QED
      BY <1>3, <3>1 DEF scriptVars
  <2>3. CASE script = "none"
    BY <1>3, <2>1, <2>2, <2>3, UserOutput, InvocationFiles
  <2>4. CASE script = "wait"
    BY <1>3, <2>1, <2>2, <2>4, InvocationLlcInv
  <2> QED
    BY <2>2, <2>3, <2>4
<1>4. CASE Shifts
  <2>1. ArgumentsInv'
    BY <1>4, ShiftsCall DEF ArgumentsInv
  <2> QED
    BY <1>4, <2>1, ShiftsCall
<1>5. CASE Exits
  <2>1. PICK code, left : ScriptExit(code, left)
    BY <1>5, ExitsEnd
  <2>2. /\ script' = "ended" /\ stage' = "idle"
        /\ UNCHANGED <<argv, parsed, options, call, shifted>>
        /\ TmpLl \notin DOMAIN files'
    BY <2>1 DEF ScriptExit, OthersUnchanged, Without
  <2>3. ArgumentsInv'
    BY <2>2 DEF ArgumentsInv
  <2> QED
    BY <2>2, <2>3
<1>6. CASE Mktemp
  <2>1. /\ script = "options" /\ script' = "clang"
        /\ UNCHANGED <<stage, argv, parsed, options, shifted>>
    BY <1>6 DEF Mktemp, To, OthersUnchanged
  <2>2. ArgumentsInv'
    BY <2>1 DEF ArgumentsInv
  <2> QED
    BY <1>6, <2>1, <2>2, MktempCall
<1>7. CASE Clang \/ SaveTemps
  <2>1. /\ script \in {"clang", "save"} /\ script' \in {"save", "llc"}
        /\ UNCHANGED <<stage, argv, parsed, options, call, shifted>>
    BY <1>7 DEF Clang, SaveTemps, To, OthersUnchanged
  <2>2. ArgumentsInv'
    BY <2>1 DEF ArgumentsInv
  <2> QED
    BY <2>1, <2>2
<1>8. CASE CallLlc
  <2>1. script = "llc" /\ script' = "wait" /\ UNCHANGED <<call, shifted>>
    BY <1>8 DEF CallLlc, To
  <2>2. ArgumentsInv' /\ argv' = LlcLine /\ options' = Defaults
    BY <1>8, LlcLineTyped, BeginArgumentsInv DEF CallLlc
  <2>3. LlcLine' = LlcLine
    BY <2>1 DEF LlcLine, FormatOption
  <2>4. stage' = "options" /\ parsed' = 0
    BY <1>8 DEF CallLlc, Begin
  <2>5. LlcInv'
    BY <2>2, <2>3, <2>4 DEF LlcInv, Defaults
  <2> QED
    BY <2>1, <2>2, <2>5
<1>9. CASE UNCHANGED vars
  <2>1. LlcLine' = LlcLine
    BY <1>9 DEF vars, scriptVars, LlcLine, FormatOption
  <2> QED
    BY <1>9, <2>1 DEF vars, driverVars, scriptVars, ArgumentsInv, LlcInv
<1> QED
  BY <1>1, <1>2, <1>3, <1>4, <1>5, <1>6, <1>7, <1>8, <1>9 DEF ScriptNext, Shifts, Exits

LEMMA ScriptInvariant == ScriptSpec => []ScriptInv
  BY ScriptInitInv, ScriptStepInv, PTL DEF ScriptSpec

\* However the script ends, its temporary file is gone.
THEOREM TempIsRemoved == ScriptSpec => []TempRemoved
<1>1. ScriptInv => TempRemoved
  BY DEF ScriptInv, TempRemoved, NoScript
<1> QED
  BY <1>1, ScriptInvariant, PTL

LEMMA ScriptFailureInvariant == ScriptSpec => []FailureInv
<1>1. ScriptInit => FailureInv
  BY DEF ScriptInit, Init, FailureInv, FailureChangesNothing
<1>2. ScriptInv /\ FailureInv /\ [ScriptNext]_vars => FailureInv'
  <2> SUFFICES ASSUME ScriptInv, FailureInv, [ScriptNext]_vars PROVE FailureInv'
    OBVIOUS
  <2>1. CASE UserStart
    BY <2>1, BeginFailureInv DEF UserStart, Start
  <2>2. CASE CallLlc
    BY <2>2, BeginFailureInv DEF CallLlc
  <2>3. CASE Invocation
    BY <2>3, InvocationFailureInv
  <2>4. CASE ScriptStart
    BY <2>4 DEF ScriptStart, FailureInv, FailureChangesNothing
  <2>5. CASE Shifts
    <3>1. stage = "idle" /\ stage' = "idle"
      BY <2>5, ShiftsCall DEF ScriptInv
    <3> QED
      BY <3>1 DEF FailureInv, FailureChangesNothing
  <2>6. CASE Exits
    <3>1. PICK code, left : ScriptExit(code, left)
      BY <2>6, ExitsEnd
    <3> QED
      BY <3>1 DEF ScriptExit, FailureInv, FailureChangesNothing
  <2>7. CASE Mktemp \/ Clang \/ SaveTemps
    <3>1. stage = "idle" /\ stage' = "idle"
      BY <2>7 DEF Mktemp, Clang, SaveTemps, ScriptInv
    <3> QED
      BY <3>1 DEF FailureInv, FailureChangesNothing
  <2>8. CASE UNCHANGED vars
    BY <2>8 DEF vars, driverVars, FailureInv, FailureChangesNothing
  <2> QED
    BY <2>1, <2>2, <2>3, <2>4, <2>5, <2>6, <2>7, <2>8 DEF ScriptNext, Shifts, Exits
<1> QED
  BY <1>1, <1>2, ScriptInvariant, PTL DEF ScriptSpec

\* In a session with scripts too, an invocation of fpgagpu-llc that fails has
\* not touched a file.
THEOREM ScriptFailuresChangeNothing == ScriptSpec => []FailureChangesNothing
<1>1. FailureInv => FailureChangesNothing
  BY DEF FailureInv
<1> QED
  BY <1>1, ScriptFailureInvariant, PTL

-----------------------------------------------------------------------------
(* Which files the script changes.                                         *)

Same(p) == p \in DOMAIN files \cap DOMAIN scriptBefore /\ files[p] = scriptBefore[p]

Only(changed) == \A p \in DOMAIN files \cup DOMAIN scriptBefore : p \in changed \/ Same(p)

\* What the script writes before it calls fpgagpu-llc.
Aside == {TmpLl} \cup {p \in {Kept} : call.save}

FilesInv ==
  /\ script # "none" => TmpLl \notin DOMAIN scriptBefore
  /\ script = "options" => Only({})
  /\ script \in {"clang", "save"} => Only({TmpLl})
  /\ script = "save" => call.save
  /\ script = "llc" => Only(Aside)
  /\ script = "wait" => Only(Aside \cup {call.output})
  /\ script = "wait" /\ (stage \in {"options", "compile"} \/ (stage = "ended" /\ status # 0))
       => Only(Aside)
  /\ ScriptTouchesItsOwn

LEMMA WaitFilesInv ==
  ASSUME ScriptInv, FilesInv, script = "wait", Invocation, UNCHANGED scriptVars
  PROVE  FilesInv'
<1>1. /\ script' = script /\ scriptBefore' = scriptBefore /\ call' = call
      /\ Aside' = Aside
  BY DEF scriptVars, Aside, Kept
<1>2. LlcInv
  BY DEF ScriptInv
<1>3. CASE TakeOutput \/ TakeSetting \/ TakeInput \/ ChooseMode
  <2>1. files' = files /\ stage = "options"
    BY <1>3 DEF TakeOutput, TakeSetting, TakeInput, ChooseMode, Taking, Reading
  <2> QED
    BY <1>1, <2>1 DEF FilesInv, Only, Same, ScriptTouchesItsOwn
<1>4. CASE \/ Help \/ UnknownOption \/ NoInput \/ NoText \/ RejectText \/ CannotDisassemble
           \/ CannotCompile
  <2>1. files' = files /\ stage \in {"options", "compile"}
    BY <1>2, <1>4 DEF Help, UnknownOption, NoInput, NoText, RejectText, CannotDisassemble,
                 CannotCompile, Refuse, Reading, LlcInv
  <2> QED
    BY <1>1, <2>1 DEF FilesInv, Only, Same, ScriptTouchesItsOwn
<1>5. CASE Assemble \/ Disassemble \/ ListLine
  BY <1>2, <1>5 DEF Assemble, Disassemble, ListLine, LlcInv, Open
<1>6. CASE Compile \/ WriteLine
  <2>1. options.output = call.output /\ stage' = "write"
    BY <1>2, <1>6 DEF Compile, WriteLine, Open, LlcInv
  <2>2. Only(Aside \cup {call.output})'
    BY <1>1, <1>6, <2>1, InvocationFiles DEF FilesInv, Only, Same
  <2> QED
    BY <1>1, <2>1, <2>2 DEF FilesInv, ScriptTouchesItsOwn
<1>7. CASE DiskFull
  <2>1. files' = files /\ stage' = stage /\ status' = status
    BY <1>7 DEF DiskFull
  <2> QED
    BY <1>1, <2>1 DEF FilesInv, Only, Same, ScriptTouchesItsOwn
<1>8. CASE Succeed
  <2>1. files' = files /\ status' = 0 /\ stage' = "ended"
    BY <1>8 DEF Succeed, Exit
  <2> QED
    BY <1>1, <2>1 DEF FilesInv, Only, Same, ScriptTouchesItsOwn
<1> QED
  BY <1>3, <1>4, <1>5, <1>6, <1>7, <1>8 DEF Invocation

LEMMA ExitFilesInv ==
  ASSUME ScriptInv, FilesInv, Exits
  PROVE  FilesInv'
<1>1. PICK code, left : ScriptExit(code, left) /\ Ending(code, left)
  BY ExitsEnd
<1>2. /\ script' = "ended" /\ scriptStatus' = code
      /\ files' = [p \in DOMAIN left \ {TmpLl} |-> left[p]]
      /\ scriptBefore' = scriptBefore /\ call' = call
  BY <1>1 DEF ScriptExit, Without
<1>3. script \in {"options", "clang", "save", "wait"}
  BY DEF Exits, ToolMissing, ScriptHelp, ShiftFails, NoSource, MktempFails, ClangFails,
         CopyFails, LlcEnds, Shifting
<1>4. TmpLl \notin DOMAIN scriptBefore
  BY <1>3 DEF FilesInv
<1>5. ScriptTouchesItsOwn'
  <2> SUFFICES ASSUME NEW p \in DOMAIN files' \cup DOMAIN scriptBefore
               PROVE  \/ p = call.output /\ code = 0
                      \/ p = Append(Base(call.output), "ll") /\ call.save
                      \/ p \in DOMAIN files' /\ p \in DOMAIN scriptBefore
                           /\ files'[p] = scriptBefore[p]
    BY <1>2 DEF ScriptTouchesItsOwn
  <2>1. p # TmpLl
    BY <1>2, <1>4
  <2>2. CASE p \in DOMAIN left /\ ~(p \in DOMAIN files /\ left[p] = files[p])
    <3>1. script = "save" /\ p = Kept
      BY <1>1, <2>2 DEF Ending
    <3> QED
      BY <3>1 DEF FilesInv, Kept
  <2>3. CASE p \in DOMAIN left => p \in DOMAIN files /\ left[p] = files[p]
    <3>1. p \in DOMAIN files \cup DOMAIN scriptBefore
      BY <1>2, <2>3
    <3>2. \/ Same(p)
          \/ p = Kept /\ call.save
          \/ p = call.output /\ script = "wait" /\ ~(stage = "ended" /\ status # 0)
      BY <1>3, <2>1, <3>1 DEF FilesInv, Only, Aside
    <3>3. CASE Same(p)
      <4>1. p \in DOMAIN left
        BY <1>1, <3>3 DEF Same, Ending
      <4> QED
        BY <1>2, <2>1, <2>3, <3>3, <4>1 DEF Same
    <3>4. CASE p = call.output /\ script = "wait" /\ ~(stage = "ended" /\ status # 0)
      BY <1>1, <3>4 DEF Ending
    <3> QED
      BY <3>2, <3>3, <3>4 DEF Kept
  <2> QED
    BY <2>2, <2>3
<1> QED
  BY <1>2, <1>4, <1>5 DEF FilesInv

LEMMA ScriptFilesInv == ScriptInv /\ FilesInv /\ [ScriptNext]_vars => FilesInv'
<1> SUFFICES ASSUME ScriptInv, FilesInv, [ScriptNext]_vars PROVE FilesInv'
  OBVIOUS
<1>1. CASE UserStart
  BY <1>1 DEF UserStart, FilesInv, ScriptTouchesItsOwn
<1>2. CASE ScriptStart
  BY <1>2 DEF ScriptStart, NoScript, ScriptInv, FilesInv, Only, Same, ScriptTouchesItsOwn
<1>3. CASE Invocation /\ UNCHANGED scriptVars
  <2>1. CASE script = "wait"
    BY <1>3, <2>1, WaitFilesInv
  <2>2. CASE script # "wait"
    <3>1. script = "none"
      <4>1. stage # "idle"
        BY <1>3 DEF Invocation, Help, TakeOutput, TakeSetting, TakeInput, UnknownOption,
             ChooseMode, NoInput, Assemble, NoText, RejectText, Disassemble, CannotDisassemble,
             ListLine, Compile, CannotCompile, WriteLine, DiskFull, Succeed, Reading
      <4> QED
        BY <2>2, <4>1 DEF ScriptInv
    <3> QED
      BY <1>3, <3>1 DEF scriptVars, FilesInv, ScriptTouchesItsOwn
  <2> QED
    BY <2>1, <2>2
<1>4. CASE Shifts
  <2>1. script = "options" /\ script' = script /\ UNCHANGED <<files, scriptBefore>>
    BY <1>4, ShiftsCall DEF ScriptInv
  <2> QED
    BY <2>1 DEF FilesInv, Only, Same, ScriptTouchesItsOwn
<1>5. CASE Exits
  BY <1>5, ExitFilesInv
<1>6. CASE Mktemp
  <2>1. /\ script = "options" /\ script' = "clang" /\ scriptBefore' = scriptBefore
        /\ files' = Updated(files, TmpLl, <<>>)
    BY <1>6 DEF Mktemp, To
  <2>2. Only({TmpLl})'
    BY <2>1 DEF FilesInv, Only, Same, Updated
  <2> QED
    BY <2>1, <2>2 DEF FilesInv, ScriptTouchesItsOwn
<1>7. CASE Clang
  <2>1. /\ script = "clang" /\ scriptBefore' = scriptBefore /\ call' = call
        /\ script' = IF call.save THEN "save" ELSE "llc"
    BY <1>7 DEF Clang, To
  <2>2. Only({TmpLl})'
    BY <1>7, <2>1 DEF Clang, FilesInv, Only, Same, Updated
  <2>3. Only(Aside)'
    BY <2>2 DEF Only, Aside
  <2>4. script' = "save" => call'.save
    BY <2>1
  <2> QED
    BY <2>1, <2>2, <2>3, <2>4 DEF FilesInv, ScriptTouchesItsOwn
<1>8. CASE SaveTemps
  <2>1. /\ script = "save" /\ scriptBefore' = scriptBefore /\ call' = call
        /\ script' = "llc" /\ Kept' = Kept
    BY <1>8 DEF SaveTemps, To, Kept
  <2>2. Only(Aside)'
    BY <1>8, <2>1 DEF SaveTemps, FilesInv, Only, Same, Updated, Aside
  <2> QED
    BY <2>1, <2>2 DEF FilesInv, ScriptTouchesItsOwn
<1>9. CASE CallLlc
  <2>1. /\ script = "llc" /\ script' = "wait" /\ UNCHANGED <<files, scriptBefore, call>>
        /\ Aside' = Aside
    BY <1>9 DEF CallLlc, To, Aside, Kept
  <2> QED
    BY <2>1 DEF FilesInv, Only, Same, ScriptTouchesItsOwn
<1>10. CASE UNCHANGED vars
  BY <1>10 DEF vars, driverVars, scriptVars, FilesInv, Only, Same, Aside, Kept,
               ScriptTouchesItsOwn
<1> QED
  BY <1>1, <1>2, <1>3, <1>4, <1>5, <1>6, <1>7, <1>8, <1>9, <1>10
     DEF ScriptNext, Shifts, Exits

-----------------------------------------------------------------------------
(* What the script leaves in the output.                                   *)

CodeLines == [form : {"asm", "hex", "bin"}, of : Words]

ClangMade == FrontEnd[scriptBefore[call.input][1].of]

Wanted == InForm(call.format, Code[<<ClangMade, call.optimize>>])

\* From clang to the output: its module is in the temporary file until llc has
\* read it, and then the output and the lines not yet written make the code.
ContentInv ==
  /\ script = "clang" => TmpLl \in DOMAIN files /\ files[TmpLl] = <<>>
  /\ script \in {"save", "llc", "wait"} =>
       call.input \in DOMAIN scriptBefore /\ scriptBefore[call.input][1].of \in DOMAIN FrontEnd
  /\ (script \in {"save", "llc"} \/ (script = "wait" /\ stage \in {"options", "compile"})) =>
       TmpLl \in DOMAIN files /\ files[TmpLl] = <<Line("ir", ClangMade)>>
  /\ script = "wait" /\ stage = "write" =>
       /\ pending \in Seq(CodeLines)
       /\ stream \in BOOLEAN /\ (stream \/ diskFull)
       /\ stream => /\ call.output \in DOMAIN files
                    /\ files[call.output] \in Seq(CodeLines)
                    /\ files[call.output] \o pending = Wanted
  /\ script = "wait" /\ stage = "ended" /\ status = 0 /\ ~diskFull =>
       call.output \in DOMAIN files /\ files[call.output] = Wanted
  /\ ScriptCompiles

LEMMA InFormTyped ==
  ASSUME NEW form \in {"asm", "hex", "bin"}, NEW words \in Seq(Words)
  PROVE  InForm(form, words) \in Seq(CodeLines)
<1>1. \A i \in 1..Len(words) : Line(form, words[i]) \in CodeLines
  BY DEF Line, CodeLines
<1>2. InForm(form, words) = [i \in 1..Len(words) |-> Line(form, words[i])]
  BY DEF InForm
<1> QED
  BY <1>1, <1>2

LEMMA WantedTyped ==
  ASSUME call \in CallSet, scriptBefore[call.input][1].of \in DOMAIN FrontEnd
  PROVE  Wanted \in Seq(CodeLines)
<1>1. Code[<<ClangMade, call.optimize>>] \in Seq(Words)
  BY FrontEndAssumption, CodeAssumption DEF ClangMade, CallSet
<1> QED
  BY <1>1, InFormTyped DEF Wanted, CallSet

\* A line moved from the front of what is pending to the end of what is written.
LEMMA MoveOne ==
  ASSUME NEW S, NEW s \in Seq(S), NEW t \in Seq(S), t # <<>>
  PROVE  /\ Append(s, Head(t)) \in Seq(S) /\ Tail(t) \in Seq(S)
         /\ Append(s, Head(t)) \o Tail(t) = s \o t
  OBVIOUS

LEMMA WaitContentInv ==
  ASSUME ScriptInv, ContentInv, script = "wait", Invocation, UNCHANGED scriptVars
  PROVE  ContentInv'
<1>1. /\ script' = script /\ scriptBefore' = scriptBefore /\ call' = call /\ shifted' = shifted
      /\ ClangMade' = ClangMade /\ Wanted' = Wanted
  BY DEF scriptVars, ClangMade, Wanted
<1>2. LlcInv /\ ArgumentsInv /\ call \in CallSet
  BY DEF ScriptInv
<1>3. CASE TakeOutput \/ TakeSetting \/ TakeInput \/ ChooseMode
  <2>1. files' = files /\ stage = "options" /\ stage' \in {"options", "compile"}
    BY <1>2, <1>3 DEF TakeOutput, TakeSetting, TakeInput, ChooseMode, Taking, Reading, LlcInv, Mode
  <2> QED
    BY <1>1, <2>1 DEF ContentInv, ScriptCompiles
<1>4. CASE \/ UnknownOption \/ NoInput \/ NoText \/ RejectText \/ CannotDisassemble
           \/ CannotCompile
  <2>1. stage' = "ended" /\ status' = 1
    BY <1>4 DEF UnknownOption, NoInput, NoText, RejectText, CannotDisassemble,
                CannotCompile, Refuse, Exit
  <2> QED
    BY <1>1, <2>1 DEF ContentInv, ScriptCompiles
<1>5. CASE Help
  <2>1. Len(argv) = 5
    BY <1>2, LlcLineTyped DEF LlcInv
  <2>2. parsed < 5 /\ argv[parsed + 1].opt = "h"
    BY <1>5, <2>1 DEF Help, Reading, Argument
  <2>3. parsed \in {0, 1, 2, 4}
    BY <1>2, <2>2 DEF LlcInv
  <2>4. argv = LlcLine
    BY <1>2 DEF LlcInv
  <2> QED
    BY <1>2, <2>2, <2>3, <2>4, LlcLineTyped, FormatNames
<1>6. CASE Assemble \/ Disassemble \/ ListLine
  BY <1>2, <1>6 DEF Assemble, Disassemble, ListLine, LlcInv, Open
<1>7. CASE Compile
  <2>1. /\ options.input = TmpLl /\ options.output = call.output
        /\ options.format = call.format /\ options.optimize = call.optimize
        /\ Writable /\ stage = "compile"
    BY <1>2, <1>7 DEF Compile, Compilable, LlcInv
  <2>2. Module(Input) = ClangMade
    BY <2>1 DEF ContentInv, Module, Input, Line
  <2>3. /\ pending' = Wanted /\ stream' = TRUE /\ stage' = "write"
        /\ files' = Updated(files, call.output, <<>>)
    BY <1>7, <2>1, <2>2 DEF Compile, Open, Wanted
  <2>4. Wanted \in Seq(CodeLines)
    BY <1>2, WantedTyped DEF ContentInv
  <2>5. call.output \in DOMAIN files' /\ files'[call.output] = <<>>
    BY <2>3 DEF Updated
  <2>6. <<>> \in Seq(CodeLines) /\ <<>> \o Wanted = Wanted
    BY <2>4
  <2> QED
    BY <1>1, <2>3, <2>4, <2>5, <2>6 DEF ContentInv, ScriptCompiles
<1>8. CASE WriteLine
  <2>1. /\ stage = "write" /\ stage' = "write" /\ pending # <<>> /\ pending' = Tail(pending)
        /\ stream' = stream /\ diskFull' = diskFull
        /\ files' = Written(Head(pending))
    BY <1>8 DEF WriteLine
  <2>2. options.output = call.output /\ pending \in Seq(CodeLines)
    BY <1>2, <2>1 DEF LlcInv, ContentInv
  <2>3. pending' \in Seq(CodeLines)
    BY <2>1, <2>2, MoveOne
  <2>4. ASSUME stream
        PROVE  /\ call.output \in DOMAIN files'
               /\ files'[call.output] \in Seq(CodeLines)
               /\ files'[call.output] \o pending' = Wanted
    <3>1. files'[call.output] = Append(files[call.output], Head(pending))
          /\ call.output \in DOMAIN files'
      BY <2>1, <2>2, <2>4 DEF Written, Updated
    <3>2. /\ files[call.output] \in Seq(CodeLines)
          /\ files[call.output] \o pending = Wanted
      BY <2>1, <2>4 DEF ContentInv
    <3>3. /\ Append(files[call.output], Head(pending)) \in Seq(CodeLines)
          /\ Append(files[call.output], Head(pending)) \o Tail(pending)
               = files[call.output] \o pending
      BY <2>1, <2>2, <3>2, MoveOne
    <3> QED
      BY <2>1, <3>1, <3>2, <3>3
  <2> QED
    BY <1>1, <2>1, <2>3, <2>4 DEF ContentInv, ScriptCompiles
<1>9. CASE DiskFull
  <2>1. stage = "write" /\ stage' = "write" /\ stream' = FALSE /\ diskFull' = TRUE
        /\ pending' = pending
    BY <1>2, <1>9 DEF DiskFull, LlcInv
  <2> QED
    BY <1>1, <2>1 DEF ContentInv, ScriptCompiles
<1>10. CASE Succeed
  <2>1. /\ stage = "write" /\ pending = <<>> /\ stage' = "ended" /\ diskFull' = diskFull
        /\ files' = files
    BY <1>2, <1>10 DEF Succeed, Exit, LlcInv
  <2>2. ~diskFull => call.output \in DOMAIN files /\ files[call.output] = Wanted
    BY <2>1 DEF ContentInv
  <2> QED
    BY <1>1, <2>1, <2>2 DEF ContentInv, ScriptCompiles
<1> QED
  BY <1>3, <1>4, <1>5, <1>6, <1>7, <1>8, <1>9, <1>10 DEF Invocation

LEMMA ExitContentInv ==
  ASSUME ScriptInv, ContentInv, Exits
  PROVE  ContentInv'
<1>1. PICK code, left : ScriptExit(code, left) /\ Ending(code, left)
  BY ExitsEnd
<1>2. /\ script' = "ended" /\ scriptStatus' = code
      /\ files' = [p \in DOMAIN left \ {TmpLl} |-> left[p]]
      /\ UNCHANGED <<scriptBefore, call, shifted, diskFull>>
  BY <1>1 DEF ScriptExit, Without, OthersUnchanged
<1>3. ASSUME code = 0, shifted = Len(call.argv), ~diskFull
      PROVE  call.input \in DOMAIN scriptBefore /\ files'[call.output] = Wanted
  <2>1. script = "wait" /\ left = files /\ stage = "ended" /\ status = 0
    <3>1. ~(shifted < Len(call.argv))
      BY <1>3
    <3> QED
      BY <1>1, <1>3, <3>1 DEF Ending
  <2>2. /\ call.input \in DOMAIN scriptBefore
        /\ call.output \in DOMAIN files /\ files[call.output] = Wanted
    BY <1>3, <2>1 DEF ContentInv
  <2>3. call.output # TmpLl
    BY DEF ScriptInv
  <2> QED
    BY <1>2, <2>1, <2>2, <2>3
<1>4. ScriptCompiles'
  BY <1>2, <1>3 DEF ScriptCompiles, Wanted, ClangMade
<1> QED
  BY <1>2, <1>4 DEF ContentInv

LEMMA ScriptContentInv == ScriptInv /\ FilesInv /\ ContentInv /\ [ScriptNext]_vars => ContentInv'
<1> SUFFICES ASSUME ScriptInv, FilesInv, ContentInv, [ScriptNext]_vars PROVE ContentInv'
  OBVIOUS
<1>1. CASE UserStart
  BY <1>1 DEF UserStart, ContentInv, ScriptCompiles
<1>2. CASE ScriptStart
  BY <1>2 DEF ScriptStart, ContentInv, ScriptCompiles
<1>3. CASE Invocation /\ UNCHANGED scriptVars
  <2>1. CASE script = "wait"
    BY <1>3, <2>1, WaitContentInv
  <2>2. CASE script # "wait"
    <3>1. script = "none"
      <4>1. stage # "idle"
        BY <1>3 DEF Invocation, Help, TakeOutput, TakeSetting, TakeInput, UnknownOption,
             ChooseMode, NoInput, Assemble, NoText, RejectText, Disassemble, CannotDisassemble,
             ListLine, Compile, CannotCompile, WriteLine, DiskFull, Succeed, Reading
      <4> QED
        BY <2>2, <4>1 DEF ScriptInv
    <3> QED
      BY <1>3, <3>1 DEF scriptVars, ContentInv, ScriptCompiles
  <2> QED
    BY <2>1, <2>2
<1>4. CASE Shifts
  <2>1. script = "options" /\ script' = script
    BY <1>4, ShiftsCall DEF ScriptInv
  <2> QED
    BY <2>1 DEF ContentInv, ScriptCompiles
<1>5. CASE Exits
  BY <1>5, ExitContentInv
<1>6. CASE Mktemp
  <2>1. script' = "clang" /\ files' = Updated(files, TmpLl, <<>>)
    BY <1>6 DEF Mktemp, To
  <2> QED
    BY <2>1 DEF ContentInv, Updated, ScriptCompiles
<1>7. CASE Clang
  <2>1. /\ script = "clang" /\ scriptBefore' = scriptBefore /\ call' = call
        /\ script' \in {"save", "llc"}
        /\ call.input \in DOMAIN files /\ files[call.input] # <<>>
        /\ files[call.input][1].of \in DOMAIN FrontEnd
        /\ files' = Updated(files, TmpLl, <<Line("ir", FrontEnd[files[call.input][1].of])>>)
    BY <1>7 DEF Clang, To
  <2>2. call.input # TmpLl
    BY <2>1 DEF ContentInv
  <2>3. call.input \in DOMAIN scriptBefore /\ files[call.input] = scriptBefore[call.input]
    BY <2>1, <2>2 DEF FilesInv, Only, Same
  <2>4. TmpLl \in DOMAIN files' /\ files'[TmpLl] = <<Line("ir", ClangMade)>>
    BY <2>1, <2>3 DEF Updated, ClangMade
  <2>5. ClangMade' = ClangMade
    BY <2>1 DEF ClangMade
  <2> QED
    BY <2>1, <2>3, <2>4, <2>5 DEF ContentInv, ScriptCompiles
<1>8. CASE SaveTemps
  <2>1. /\ script = "save" /\ script' = "llc" /\ scriptBefore' = scriptBefore /\ call' = call
        /\ files' = Updated(files, Kept, files[TmpLl])
        /\ ClangMade' = ClangMade
    BY <1>8 DEF SaveTemps, To, ClangMade
  <2>2. TmpLl \in DOMAIN files' /\ files'[TmpLl] = files[TmpLl]
    BY <2>1 DEF ContentInv, Updated
  <2> QED
    BY <2>1, <2>2 DEF ContentInv, ScriptCompiles
<1>9. CASE CallLlc
  <2>1. /\ script = "llc" /\ script' = "wait" /\ UNCHANGED <<files, scriptBefore, call>>
        /\ stage' = "options" /\ ClangMade' = ClangMade
    BY <1>9 DEF CallLlc, To, Begin, ClangMade
  <2> QED
    BY <2>1 DEF ContentInv, ScriptCompiles
<1>10. CASE UNCHANGED vars
  BY <1>10 DEF vars, driverVars, scriptVars, ContentInv, ScriptCompiles, ClangMade, Wanted
<1> QED
  BY <1>1, <1>2, <1>3, <1>4, <1>5, <1>6, <1>7, <1>8, <1>9, <1>10
     DEF ScriptNext, Shifts, Exits

LEMMA ScriptFilesInvariant == ScriptSpec => []FilesInv
<1>1. ScriptInit => FilesInv
  BY DEF ScriptInit, FilesInv, ScriptTouchesItsOwn
<1> QED
  BY <1>1, ScriptInvariant, ScriptFilesInv, PTL DEF ScriptSpec

\* A run of the script changes the output, only when it succeeds, and the IR
\* file beside it if that is asked for, and no other file.
THEOREM ScriptStaysWithinItsFiles == ScriptSpec => []ScriptTouchesItsOwn
<1>1. FilesInv => ScriptTouchesItsOwn
  BY DEF FilesInv
<1> QED
  BY <1>1, ScriptFilesInvariant, PTL

\* A run of the script that reports success, and met no full disk, has left in
\* the output the code of the module clang made of the source.
THEOREM ScriptDeliversTheCode == ScriptSpec => []ScriptCompiles
<1>1. ScriptInit => ContentInv
  BY DEF ScriptInit, ContentInv, ScriptCompiles
<1>2. ContentInv => ScriptCompiles
  BY DEF ContentInv
<1> QED
  BY <1>1, <1>2, ScriptInvariant, ScriptFilesInvariant, ScriptContentInv, PTL DEF ScriptSpec

-----------------------------------------------------------------------------
(* Recursion over the lines of a file and the arguments of a command line. *)

LEMMA LeastNat ==
  ASSUME NEW S \in SUBSET Nat, S # {}
  PROVE  \E k \in S : \A j \in S : k <= j
<1> DEFINE Less == OpToRel(<, Nat)
<1>1. IsWellFoundedOn(Less, Nat)
  BY NatLessThanWellFounded
<1>2. \A x, y \in Nat : <<y, x>> \notin Less => ~ (y < x)
  BY Zenon DEF OpToRel
<1> HIDE DEF Less
<1>3. PICK k \in S : \A j \in S : <<j, k>> \notin Less
  BY <1>1, WFMin
<1>4. \A j \in S : ~ (j < k)
  BY <1>2, <1>3, Zenon
<1> QED
  BY <1>4

\* Each step of a recursion determines the next: a function does them all.
Folds(n, S, a, g, f) ==
  f \in [0..n -> S] /\ f[0] = a /\ \A i \in 1..n : f[i] = g[<<i, f[i - 1]>>]

LEMMA Recursion ==
  ASSUME NEW n \in Nat, NEW S, NEW a \in S, NEW g \in [(1..n) \X S -> S]
  PROVE  \E f : Folds(n, S, a, g, f)
<1> DEFINE Done(k) == \E f : Folds(k, S, a, g, f)
           Bad == {k \in 0..n : ~Done(k)}
<1>1. CASE Bad = {}
  <2>1. n \in 0..n
    OBVIOUS
  <2>2. Done(n)
    <3> HIDE DEF Done
    <3> QED
      BY <1>1, <2>1
  <2> QED
    BY <2>2
<1>2. CASE Bad # {}
  <2>1. PICK k \in Bad : \A j \in Bad : k <= j
    <3>1. Bad \in SUBSET Nat
      OBVIOUS
    <3> HIDE DEF Bad
    <3> QED
      BY <1>2, <3>1, LeastNat
  <2>2. k # 0
    <3> SUFFICES Done(0)
      OBVIOUS
    <3>1. Folds(0, S, a, g, [i \in 0..0 |-> a])
      BY DEF Folds
    <3> QED
      BY <3>1
  <2>3. k - 1 \in 0..n /\ k - 1 \notin Bad
    BY <2>1, <2>2
  <2>a. Done(k - 1)
    <3> HIDE DEF Done
    <3> QED
      BY <2>3
  <2>b. PICK f : Folds(k - 1, S, a, g, f)
    BY <2>a
  <2>4. f \in [0..k - 1 -> S] /\ f[0] = a /\ \A i \in 1..k - 1 : f[i] = g[<<i, f[i - 1]>>]
    BY <2>b DEF Folds
  <2> DEFINE h == [i \in 0..k |-> IF i = k THEN g[<<k, f[k - 1]>>] ELSE f[i]]
  <2>5. k \in 1..n /\ f[k - 1] \in S
    BY <2>2, <2>4
  <2>6. g[<<k, f[k - 1]>>] \in S
    BY <2>5
  <2>7. h \in [0..k -> S]
    BY <2>4, <2>5, <2>6
  <2>8. h[0] = a
    BY <2>4, <2>5
  <2>9. ASSUME NEW i \in 1..k PROVE h[i] = g[<<i, h[i - 1]>>]
    <3>1. h[i - 1] = f[i - 1]
      BY <2>5
    <3>2. CASE i = k
      BY <2>5, <3>1, <3>2
    <3>3. CASE i # k
      <4>1. i \in 1..k - 1 /\ h[i] = f[i]
        BY <2>5, <3>3
      <4> QED
        BY <2>4, <3>1, <4>1
    <3> QED
      BY <3>2, <3>3
  <2>10. Folds(k, S, a, g, h)
    <3> HIDE DEF h
    <3> QED
      BY <2>7, <2>8, <2>9 DEF Folds
  <2>11. Done(k)
    BY <2>10
  <2> QED
    <3> HIDE DEF Done
    <3> QED
      BY <2>1, <2>11
<1> QED
  BY <1>1, <1>2

\* And only one function does.
SameSteps(n, F, f) ==
  F[0] = f[0] /\ \A i \in 1..n : F[i - 1] = f[i - 1] => F[i] = f[i]

LEMMA RecursionUnique ==
  ASSUME NEW n \in Nat, NEW F, NEW f, SameSteps(n, F, f)
  PROVE  F[n] = f[n]
<1> DEFINE Bad == {k \in 0..n : F[k] # f[k]}
<1> SUFFICES ASSUME Bad # {} PROVE FALSE
  <2>1. n \in 0..n
    OBVIOUS
  <2> QED
    BY <2>1
<1>1. PICK k \in Bad : \A j \in Bad : k <= j
  <2>1. Bad \in SUBSET Nat
    OBVIOUS
  <2> HIDE DEF Bad
  <2> QED
    BY <2>1, LeastNat
<1>2. k \in 1..n /\ k - 1 \in 0..n /\ k - 1 \notin Bad
  BY <1>1 DEF SameSteps
<1> QED
  BY <1>1, <1>2 DEF SameSteps

\* What Program computes, line by line.
LEMMA ProgramSteps ==
  ASSUME NEW r \in Seq(Words \cup {NoWord})
  PROVE  \E p \in [0..Len(r) -> Seq(Words)] :
           /\ p[0] = <<>>
           /\ \A i \in 1..Len(r) : p[i] = IF r[i] = NoWord THEN p[i - 1] ELSE Append(p[i - 1], r[i])
           /\ Program(r) = p[Len(r)]
<1> DEFINE n == Len(r)
           S == Seq(Words)
           step(i, v) == IF r[i] = NoWord THEN v ELSE Append(v, r[i])
           g == [x \in (1..n) \X S |-> step(x[1], x[2])]
           Is(after) == after = [i \in 0..Len(r) |->
                                   IF i = 0 THEN <<>>
                                   ELSE IF r[i] = NoWord THEN after[i - 1]
                                   ELSE Append(after[i - 1], r[i])]
           F == CHOOSE after : Is(after)
<1>1. n \in Nat /\ <<>> \in S
  OBVIOUS
<1>2. \A i \in 1..n : \A v \in S : step(i, v) \in S
  OBVIOUS
<1> HIDE DEF step, S
<1>3. g \in [(1..n) \X S -> S]
  BY <1>2
<1>4. \A i \in 1..n : \A v \in S : g[<<i, v>>] = step(i, v)
  OBVIOUS
<1> HIDE DEF g, n
<1>4a. PICK f : Folds(n, S, <<>>, g, f)
  BY <1>1, <1>3, Recursion
<1>5. f \in [0..n -> S] /\ f[0] = <<>> /\ \A i \in 1..n : f[i] = g[<<i, f[i - 1]>>]
  BY <1>4a DEF Folds
<1>6. \A i \in 1..n : f[i - 1] \in S /\ f[i] = step(i, f[i - 1])
  <2> TAKE i \in 1..n
  <2>1. i - 1 \in 0..n
    BY <1>1
  <2>2. f[i - 1] \in S
    BY <1>5, <2>1, Zenon
  <2> QED
    BY <1>4, <1>5, <2>2, Zenon
<1>7. Is(f)
  <2>1. f = [i \in 0..n |-> f[i]]
    BY <1>5
  <2>2. \A i \in 0..n : f[i] = IF i = 0 THEN <<>> ELSE IF r[i] = NoWord THEN f[i - 1]
                                                       ELSE Append(f[i - 1], r[i])
    <3> TAKE i \in 0..n
    <3>1. CASE i = 0
      BY <1>5, <3>1
    <3>2. CASE i # 0
      <4>1. i \in 1..n
        BY <1>1, <3>2
      <4>2. f[i] = step(i, f[i - 1])
        BY <1>6, <4>1
      <4> QED
        BY <3>2, <4>2 DEF step
    <3> QED
      BY <3>1, <3>2
  <2>3. f = [i \in 0..n |-> IF i = 0 THEN <<>> ELSE IF r[i] = NoWord THEN f[i - 1]
                                                    ELSE Append(f[i - 1], r[i])]
    BY <2>1, <2>2
  <2> QED
    BY <2>3 DEF n
<1>8. Is(F)
  <2> HIDE DEF Is
  <2> QED
    BY <1>7
<1> HIDE DEF F
<1>9. F[0] = <<>> /\ \A i \in 1..n : F[i] = step(i, F[i - 1])
  <2>1. F = [i \in 0..n |-> IF i = 0 THEN <<>> ELSE step(i, F[i - 1])]
    BY <1>8 DEF step, n
  <2>2. /\ 0 \in 0..n
        /\ \A i \in 1..n : i \in 0..n /\ i # 0
    BY <1>1
  <2> QED
    BY <2>1, <2>2
<1>10. Program(r) = F[n]
  BY DEF Program, n, F
<1> HIDE DEF Is
<1>11. \A i \in 1..n : F[i - 1] = f[i - 1] => F[i] = f[i]
  BY <1>6, <1>9
<1>12. F[n] = f[n]
  <2>1. SameSteps(n, F, f)
    BY <1>5, <1>9, <1>11 DEF SameSteps
  <2> QED
    BY <1>1, <2>1, RecursionUnique
<1> QED
  BY <1>5, <1>6, <1>10, <1>12 DEF step, S, n

-----------------------------------------------------------------------------
(* Files hold lines of the known forms, and what is being written is there. *)

DriverTypes ==
  /\ TypeOK
  /\ pending \in Seq(Lines)
  /\ position \in Nat
  /\ stream \in BOOLEAN
  /\ stage \in {"options", "assemble", "disassemble", "compile"} => ~stream
  /\ stage = "list" => options.input \in DOMAIN files

LEMMA LineTyped ==
  /\ \A form \in {"asm", "hex", "bin", "word"}, word \in Words : Line(form, word) \in Lines
  /\ \A m \in Modules : Line("ir", m) \in Lines
  /\ Line("note", NoWord) \in Lines
  /\ \A line \in Lines :
       /\ line.form \in {"c", "ir", "asm", "hex", "bin", "word", "note"}
       /\ line.form \in {"asm", "hex", "bin", "word"} => line.of \in Words
       /\ line.form = "ir" => line.of \in Modules
       /\ line = Line(line.form, line.of)
  BY DEF Line, Lines

LEMMA ListingsTyped ==
  ASSUME NEW line \in Lines
  PROVE  Listings(line) \in SUBSET Lines
<1>1. Stray \in Words
  BY WordsAssumption
<1> QED
  BY <1>1, LineTyped DEF Listings

LEMMA CodeLinesAreLines == Seq(CodeLines) \subseteq Seq(Lines)
<1>1. CodeLines \subseteq Lines
  BY DEF CodeLines, Lines
<1> QED
  BY <1>1

LEMMA UpdatedTyped ==
  ASSUME \A p \in DOMAIN files : files[p] \in Seq(Lines), NEW path, NEW lines \in Seq(Lines),
         files' = Updated(files, path, lines)
  PROVE  /\ DOMAIN files' = DOMAIN files \cup {path}
         /\ \A p \in DOMAIN files' : files'[p] \in Seq(Lines)
  BY DEF Updated

\* What an accepted text is made of.
LEMMA ReadingTyped ==
  ASSUME NEW lines \in Seq(Lines), NEW r \in Parses(lines), Accepted(r)
  PROVE  r \in Seq(Words \cup {NoWord}) /\ Len(r) = Len(lines)
<1>1. /\ DOMAIN lines = 1..Len(lines) /\ Len(lines) \in Nat
      /\ r \in [1..Len(lines) -> Words \cup {NoWord, Reject}]
  BY DEF Parses
<1>2. \A i \in 1..Len(lines) : r[i] \in Words \cup {NoWord}
  BY <1>1 DEF Accepted
<1> QED
  BY <1>1, <1>2

LEMMA OpenTypes ==
  ASSUME DriverTypes, ArgumentsInv, NEW next \in {"write", "list"}, NEW lines \in Seq(Lines),
         Open(next, lines), next = "list" => Present
  PROVE  DriverTypes'
<1>1. /\ \A p \in DOMAIN files' : files'[p] \in Seq(Lines)
      /\ DOMAIN files \subseteq DOMAIN files'
      /\ stream' => options.output \in DOMAIN files'
  <2>1. <<>> \in Seq(Lines) /\ \A p \in DOMAIN files : files[p] \in Seq(Lines)
    BY DEF DriverTypes, TypeOK
  <2>2. CASE Writable
    <3>1. files' = Updated(files, options.output, <<>>)
      BY <2>2 DEF Open
    <3>2. /\ DOMAIN files' = DOMAIN files \cup {options.output}
          /\ \A p \in DOMAIN files' : files'[p] \in Seq(Lines)
      BY <2>1, <3>1, UpdatedTyped, Zenon
    <3> QED
      BY <3>2, Zenon
  <2>3. CASE ~Writable
    BY <2>1, <2>3 DEF Open
  <2> QED
    BY <2>2, <2>3
<1> QED
  BY <1>1 DEF Open, DriverTypes, TypeOK, ArgumentsInv, Present, Writable

LEMMA WrittenTypes ==
  ASSUME DriverTypes, NEW line \in Lines, files' = Written(line)
  PROVE  /\ \A p \in DOMAIN files' : files'[p] \in Seq(Lines)
         /\ DOMAIN files \subseteq DOMAIN files'
<1>1. CASE stream
  <2>1. Append(files[options.output], line) \in Seq(Lines)
    BY <1>1 DEF DriverTypes, TypeOK
  <2>2. files' = Updated(files, options.output, Append(files[options.output], line))
    BY <1>1 DEF Written
  <2>3. \A p \in DOMAIN files : files[p] \in Seq(Lines)
    BY DEF DriverTypes, TypeOK
  <2> QED
    BY <2>1, <2>2, <2>3, UpdatedTyped
<1>2. CASE ~stream
  BY <1>2 DEF Written, DriverTypes, TypeOK
<1> QED
  BY <1>1, <1>2

LEMMA InvocationTypes ==
  ASSUME DriverTypes, ArgumentsInv, Invocation
  PROVE  DriverTypes'
<1>1. ArgumentsInv'
  BY InvocationArgumentsInv
<1>2. CASE TakeOutput \/ TakeSetting \/ TakeInput
  <2>1. /\ stage = "options" /\ ~stream
        /\ UNCHANGED <<files, stage, pending, position, stream, status, argv, runs>>
    BY <1>2 DEF TakeOutput, TakeSetting, TakeInput, Taking, Reading, DriverTypes
  <2> QED
    BY <1>1, <2>1 DEF DriverTypes, TypeOK, ArgumentsInv, OptionSet
<1>3. CASE ChooseMode
  <2>1. /\ stage = "options" /\ ~stream
        /\ stage' \in {"assemble", "disassemble", "compile"}
        /\ UNCHANGED <<files, pending, position, stream, status, argv, runs>>
    BY <1>3 DEF ChooseMode, DriverTypes, Mode
  <2> QED
    BY <1>1, <2>1 DEF DriverTypes, TypeOK, ArgumentsInv, OptionSet
<1>4. CASE \/ Help \/ UnknownOption \/ NoInput \/ NoText \/ RejectText \/ CannotDisassemble
           \/ CannotCompile \/ Succeed
  <2>1. /\ stage' = "ended" /\ status' \in {0, 1}
        /\ UNCHANGED <<files, argv, parsed, options, pending, position, stream, runs>>
    BY <1>4 DEF Help, UnknownOption, NoInput, NoText, RejectText, CannotDisassemble,
                CannotCompile, Succeed, Refuse, Exit
  <2> QED
    BY <2>1 DEF DriverTypes, TypeOK
<1>5. CASE Assemble
  <2>1. PICK r \in Parses(Input) : Accepted(r) /\ Open("write", InForm(WordForm, Program(r)))
    BY <1>5 DEF Assemble
  <2>2. Input \in Seq(Lines)
    BY <1>5 DEF Assemble, Present, Input, DriverTypes, TypeOK
  <2>3. r \in Seq(Words \cup {NoWord})
    BY <2>1, <2>2, ReadingTyped
  <2>4. Program(r) \in Seq(Words)
    BY <2>3, ProgramSteps
  <2>5. InForm(WordForm, Program(r)) \in Seq(Lines)
    BY <2>4, InFormTyped, CodeLinesAreLines DEF WordForm
  <2> QED
    BY <2>1, <2>5, OpenTypes
<1>6. CASE Disassemble
  <2>1. <<>> \in Seq(Lines)
    OBVIOUS
  <2> QED
    BY <1>6, <2>1, OpenTypes DEF Disassemble
<1>7. CASE Compile
  <2>1. Input \in Seq(Lines) /\ Len(Input) = 1 /\ Input[1].form = "ir"
    BY <1>7 DEF Compile, Compilable, Present, Input, DriverTypes, TypeOK, IsModule
  <2>2. Module(Input) \in Modules
    BY <2>1, LineTyped DEF Module
  <2>3. options.format \in {"asm", "hex", "bin"} /\ options.optimize \in BOOLEAN
    BY DEF ArgumentsInv, OptionSet
  <2>4. Code[<<Module(Input), options.optimize>>] \in Seq(Words)
    BY <2>2, <2>3, CodeAssumption
  <2>5. InForm(options.format, Code[<<Module(Input), options.optimize>>]) \in Seq(Lines)
    BY <2>3, <2>4, InFormTyped, CodeLinesAreLines
  <2> QED
    BY <1>7, <2>5, OpenTypes DEF Compile
<1>8. CASE ListLine
  <2>1. Input \in Seq(Lines) /\ position + 1 \in 1..Len(Input)
    BY <1>8 DEF ListLine, Input, DriverTypes, TypeOK
  <2>2. Input[position + 1] \in Lines
    BY <2>1
  <2>3. PICK line \in Listings(Input[position + 1]) : files' = Written(line)
    BY <1>8 DEF ListLine
  <2>4. line \in Lines
    BY <2>2, <2>3, ListingsTyped
  <2>5. /\ \A p \in DOMAIN files' : files'[p] \in Seq(Lines)
        /\ DOMAIN files \subseteq DOMAIN files'
    BY <2>3, <2>4, WrittenTypes
  <2>6. /\ position' = position + 1
        /\ UNCHANGED <<argv, parsed, options, stage, pending, stream, status, runs>>
    BY <1>8 DEF ListLine
  <2> QED
    BY <2>5, <2>6 DEF DriverTypes, TypeOK
<1>9. CASE WriteLine
  <2>1. /\ pending # <<>> /\ files' = Written(Head(pending)) /\ pending' = Tail(pending)
        /\ UNCHANGED <<argv, parsed, options, stage, position, stream, status, runs>>
    BY <1>9 DEF WriteLine
  <2>2. Head(pending) \in Lines /\ pending' \in Seq(Lines)
    BY <2>1 DEF DriverTypes
  <2>3. /\ \A p \in DOMAIN files' : files'[p] \in Seq(Lines)
        /\ DOMAIN files \subseteq DOMAIN files'
    BY <2>1, <2>2, WrittenTypes
  <2> QED
    BY <2>1, <2>2, <2>3 DEF DriverTypes, TypeOK
<1>10. CASE DiskFull
  BY <1>10 DEF DiskFull, DriverTypes, TypeOK
<1> QED
  BY <1>2, <1>3, <1>4, <1>5, <1>6, <1>7, <1>8, <1>9, <1>10 DEF Invocation

LEMMA BeginTypes ==
  ASSUME DriverTypes, NEW arguments \in Seq(Arguments), Begin(arguments), UNCHANGED files,
         runs' \in 0..MaxRuns
  PROVE  DriverTypes'
<1>1. ArgumentsInv'
  BY BeginArgumentsInv
<1>2. pending' \in Seq(Lines)
  BY DEF Begin
<1> QED
  BY <1>1, <1>2 DEF Begin, DriverTypes, TypeOK, ArgumentsInv, OptionSet

LEMMA InitTypes == Init => DriverTypes /\ ArgumentsInv
<1> SUFFICES ASSUME Init PROVE DriverTypes /\ ArgumentsInv
  OBVIOUS
<1>1. ArgumentsInv
  BY DefaultsTyped DEF Init, ArgumentsInv
<1>2. \A p \in DOMAIN files : files[p] \in Seq(Lines)
  BY FilesAssumption DEF Init
<1>3. <<>> \in Seq(Lines)
  OBVIOUS
<1> QED
  <2>1. TypeOK
    BY <1>1, <1>2, WordsAssumption DEF Init, TypeOK, ArgumentsInv, OptionSet
  <2> QED
    BY <1>1, <1>3, <2>1 DEF Init, DriverTypes

LEMMA StepTypes ==
  DriverTypes /\ ArgumentsInv /\ [Next]_driverVars => DriverTypes' /\ ArgumentsInv'
<1> SUFFICES ASSUME DriverTypes, ArgumentsInv, [Next]_driverVars
             PROVE  DriverTypes' /\ ArgumentsInv'
  OBVIOUS
<1>1. CASE Start
  <2>1. PICK arguments \in CommandLines : Begin(arguments)
    BY <1>1 DEF Start
  <2>2. arguments \in Seq(Arguments)
    BY CommandLinesAssumption
  <2>3. runs' \in 0..MaxRuns /\ UNCHANGED files
    BY <1>1, WordsAssumption DEF Start, DriverTypes, TypeOK
  <2> QED
    BY <2>1, <2>2, <2>3, BeginTypes, BeginArgumentsInv
<1>2. CASE Invocation
  BY <1>2, InvocationTypes, InvocationArgumentsInv
<1>3. CASE UNCHANGED driverVars
  BY <1>3 DEF driverVars, DriverTypes, TypeOK, ArgumentsInv
<1> QED
  BY <1>1, <1>2, <1>3 DEF Next

LEMMA DriverInvariant == Spec => [](DriverTypes /\ ArgumentsInv)
  BY InitTypes, StepTypes, PTL DEF Spec

\* In every state of a session files are made of lines of the known forms, and
\* a stream that is good writes a file that exists.
THEOREM DriverTypeCorrect == Spec => []TypeOK
<1>1. DriverTypes => TypeOK
  BY DEF DriverTypes
<1> QED
  BY <1>1, DriverInvariant, PTL

\* Nobody makes the temporary file an output.
OutputInv == options.output # TmpLl

LEMMA WaitOutput ==
  ASSUME ScriptInv, OutputInv, script = "wait", Invocation, UNCHANGED scriptVars
  PROVE  OutputInv'
<1>1. /\ ArgumentsInv /\ call \in CallSet /\ call.output # TmpLl /\ call.output # NoPath
      /\ LlcInv
  BY DEF ScriptInv
<1>2. LlcInv'
  BY <1>1, InvocationLlcInv DEF scriptVars
<1>3. CASE TakeOutput
  <2>1. parsed' = parsed + 2 /\ parsed + 1 < Len(argv) /\ argv[parsed + 1].opt = "o"
    BY <1>3 DEF TakeOutput, Taking, Argument
  <2>2. parsed # 0
    BY <1>1, <2>1, LlcLineTyped, FormatNames DEF LlcInv
  <2>3. parsed' >= 4
    BY <1>1, <1>2, <2>1, <2>2 DEF LlcInv
  <2>4. options'.output = call'.output
    BY <1>2, <2>3 DEF LlcInv
  <2> QED
    BY <1>1, <2>4 DEF scriptVars, OutputInv
<1>4. CASE TakeSetting
  BY <1>1, <1>4, AppliedTyped DEF TakeSetting, OutputInv, ArgumentsInv
<1>5. CASE TakeInput
  BY <1>1, <1>5 DEF TakeInput, OutputInv, ArgumentsInv, OptionSet
<1>6. CASE ChooseMode
  BY <1>1, <1>6, DefaultOutput DEF ChooseMode, OutputInv, ArgumentsInv, OptionSet
<1>7. CASE \/ Help \/ UnknownOption \/ NoInput \/ NoText \/ RejectText \/ CannotDisassemble
           \/ CannotCompile \/ Succeed
  BY <1>7 DEF Help, UnknownOption, NoInput, NoText, RejectText, CannotDisassemble,
              CannotCompile, Succeed, Refuse, Exit, OutputInv
<1>8. CASE Assemble \/ Disassemble \/ Compile \/ ListLine \/ WriteLine \/ DiskFull
  BY <1>8 DEF Assemble, Disassemble, Compile, Open, ListLine, WriteLine, DiskFull, OutputInv
<1> QED
  BY <1>3, <1>4, <1>5, <1>6, <1>7, <1>8 DEF Invocation

\* An invocation of fpgagpu-llc is under way for the user or for the script.
LEMMA WhoRuns ==
  ASSUME ScriptInv, Invocation
  PROVE  script \in {"none", "wait"}
<1>1. stage # "idle"
  BY DEF Invocation, Help, TakeOutput, TakeSetting, TakeInput, UnknownOption,
       ChooseMode, NoInput, Assemble, NoText, RejectText, Disassemble, CannotDisassemble,
       ListLine, Compile, CannotCompile, WriteLine, DiskFull, Succeed, Reading
<1> QED
  BY <1>1 DEF ScriptInv

\* What the script ends with, before the temporary file is removed.
LEMMA ExitsLeave ==
  ASSUME Exits
  PROVE  \E code, left : /\ ScriptExit(code, left)
                         /\ left = files \/ left = Updated(files, Kept, <<>>)
<1>1. CASE ToolMissing \/ ShiftFails \/ NoSource \/ MktempFails \/ ClangFails
  <2> WITNESS 1, files
  <2> QED
    BY <1>1 DEF ToolMissing, ShiftFails, NoSource, MktempFails, ClangFails, ScriptExit
<1>2. CASE ScriptHelp
  <2> WITNESS 0, files
  <2> QED
    BY <1>2 DEF ScriptHelp
<1>3. CASE CopyFails
  <2>1. PICK left : ScriptExit(1, left) /\ (left = files \/ left = Updated(files, Kept, <<>>))
    BY <1>3 DEF CopyFails, ScriptExit
  <2> WITNESS 1, left
  <2> QED
    BY <2>1
<1>4. CASE LlcEnds
  <2> WITNESS status, files
  <2> QED
    BY <1>4 DEF LlcEnds
<1> QED
  BY <1>1, <1>2, <1>3, <1>4 DEF Exits

\* A step of the script itself that leaves fpgagpu-llc where it is.
LEMMA AsideTypes ==
  ASSUME DriverTypes, OthersUnchanged, stage' \in {stage, "idle"},
         \A p \in DOMAIN files' : files'[p] \in Seq(Lines),
         stage' # "idle" => DOMAIN files \subseteq DOMAIN files',
         stream => options.output \in DOMAIN files'
  PROVE  DriverTypes'
  BY DEF DriverTypes, TypeOK, OthersUnchanged

LEMMA ScriptStepTypes ==
  ScriptInv /\ ContentInv /\ DriverTypes /\ OutputInv /\ [ScriptNext]_vars
    => DriverTypes' /\ OutputInv'
<1> SUFFICES ASSUME ScriptInv, ContentInv, DriverTypes, OutputInv, [ScriptNext]_vars
             PROVE  DriverTypes' /\ OutputInv'
  OBVIOUS
<1>0. ArgumentsInv /\ \A p \in DOMAIN files : files[p] \in Seq(Lines)
  BY DEF ScriptInv, DriverTypes, TypeOK
<1>1. CASE UserStart
  <2>1. PICK arguments \in CommandLines : Begin(arguments)
    BY <1>1 DEF UserStart, Start
  <2>2. arguments \in Seq(Arguments)
    BY CommandLinesAssumption
  <2>3. runs' \in 0..MaxRuns /\ UNCHANGED files
    BY <1>1, WordsAssumption DEF UserStart, Start, DriverTypes, TypeOK
  <2>4. OutputInv'
    BY <2>1, NotTmpLl DEF Begin, Defaults, OutputInv
  <2> QED
    BY <2>1, <2>2, <2>3, <2>4, BeginTypes
<1>2. CASE ScriptStart
  <2>1. runs' \in 0..MaxRuns
    BY <1>2, WordsAssumption DEF ScriptStart, DriverTypes, TypeOK
  <2> QED
    BY <1>2, <2>1 DEF ScriptStart, DriverTypes, TypeOK, OutputInv
<1>3. CASE Invocation /\ UNCHANGED scriptVars
  <2>1. DriverTypes'
    BY <1>0, <1>3, InvocationTypes
  <2>2. CASE script = "none"
    BY <1>0, <1>3, <2>1, <2>2, UserOutput DEF ScriptInv, OutputInv
  <2>3. CASE script = "wait"
    BY <1>3, <2>1, <2>3, WaitOutput
  <2> QED
    BY <1>3, <2>2, <2>3, WhoRuns
<1>4. CASE Shifts
  <2>1. OthersUnchanged /\ UNCHANGED <<files, stage>>
    BY <1>4 DEF Shifts, ShiftOutput, ShiftSetting, ShiftInput, ShiftExtra, Shift
  <2>2. stream => options.output \in DOMAIN files'
    BY <2>1 DEF DriverTypes, TypeOK
  <2> QED
    BY <1>0, <2>1, <2>2, AsideTypes DEF OutputInv, OthersUnchanged
<1>5. CASE Exits
  <2>1. PICK code, left : ScriptExit(code, left) /\ (left = files \/ left = Updated(files, Kept, <<>>))
    BY <1>5, ExitsLeave
  <2>2. /\ files' = [p \in DOMAIN left \ {TmpLl} |-> left[p]]
        /\ stage' = "idle" /\ OthersUnchanged
    BY <2>1 DEF ScriptExit, Without
  <2>3. <<>> \in Seq(Lines)
    OBVIOUS
  <2>4. DOMAIN files \subseteq DOMAIN left /\ \A p \in DOMAIN left : left[p] \in Seq(Lines)
    BY <1>0, <2>1, <2>3 DEF Updated
  <2>5. stream => options.output \in DOMAIN files'
    BY <2>2, <2>4 DEF DriverTypes, TypeOK, OutputInv
  <2>6. \A p \in DOMAIN files' : files'[p] \in Seq(Lines)
    BY <2>2, <2>4
  <2> QED
    BY <2>2, <2>5, <2>6, AsideTypes DEF OutputInv, OthersUnchanged
<1>6. CASE Mktemp \/ Clang \/ SaveTemps
  <2>1. OthersUnchanged /\ stage' = stage
    BY <1>6 DEF Mktemp, Clang, SaveTemps
  <2>2. \E path, lines : lines \in Seq(Lines) /\ files' = Updated(files, path, lines)
    <3>1. CASE Mktemp
      <4>1. <<>> \in Seq(Lines)
        OBVIOUS
      <4> QED
        BY <3>1, <4>1 DEF Mktemp
    <3>2. CASE Clang
      <4> DEFINE made == Line("ir", FrontEnd[files[call.input][1].of])
      <4>1. made \in Lines
        BY <3>2, FrontEndAssumption, LineTyped DEF Clang
      <4>2. <<made>> \in Seq(Lines)
        BY <4>1
      <4> QED
        BY <3>2, <4>2 DEF Clang
    <3>3. CASE SaveTemps
      <4>1. files[TmpLl] \in Seq(Lines)
        BY <1>0, <3>3 DEF SaveTemps, ContentInv
      <4> QED
        BY <3>3, <4>1 DEF SaveTemps
    <3> QED
      BY <1>6, <3>1, <3>2, <3>3
  <2>3. PICK path, lines : lines \in Seq(Lines) /\ files' = Updated(files, path, lines)
    BY <2>2
  <2>4. /\ DOMAIN files \subseteq DOMAIN files'
        /\ \A p \in DOMAIN files' : files'[p] \in Seq(Lines)
    BY <1>0, <2>3, UpdatedTyped
  <2>5. stream => options.output \in DOMAIN files'
    BY <2>4 DEF DriverTypes, TypeOK
  <2> QED
    BY <2>1, <2>4, <2>5, AsideTypes DEF OutputInv, OthersUnchanged
<1>7. CASE CallLlc
  <2>1. Begin(LlcLine) /\ UNCHANGED <<files, runs>>
    BY <1>7 DEF CallLlc
  <2>2. LlcLine \in Seq(Arguments)
    BY LlcLineTyped DEF ScriptInv
  <2>3. runs' \in 0..MaxRuns
    BY <2>1 DEF DriverTypes, TypeOK
  <2>4. OutputInv'
    BY <2>1, NotTmpLl DEF Begin, Defaults, OutputInv
  <2> QED
    BY <2>1, <2>2, <2>3, <2>4, BeginTypes
<1>8. CASE UNCHANGED vars
  BY <1>8 DEF vars, driverVars, DriverTypes, TypeOK, OutputInv
<1> QED
  BY <1>1, <1>2, <1>3, <1>4, <1>5, <1>6, <1>7, <1>8 DEF ScriptNext, Shifts, Exits

LEMMA ScriptContentInvariant == ScriptSpec => []ContentInv
<1>1. ScriptInit => ContentInv
  BY DEF ScriptInit, ContentInv, ScriptCompiles
<1> QED
  BY <1>1, ScriptInvariant, ScriptFilesInvariant, ScriptContentInv, PTL DEF ScriptSpec

LEMMA ScriptTypesInvariant == ScriptSpec => [](DriverTypes /\ OutputInv)
<1>1. ScriptInit => DriverTypes /\ OutputInv
  BY InitTypes, NotTmpLl DEF ScriptInit, Init, Defaults, OutputInv
<1> QED
  BY <1>1, ScriptInvariant, ScriptContentInvariant, ScriptStepTypes, PTL DEF ScriptSpec

\* So it is in a session with scripts, which remove files.
THEOREM ScriptTypeCorrect == ScriptSpec => []TypeOK
<1>1. DriverTypes => TypeOK
  BY DEF DriverTypes
<1> QED
  BY <1>1, ScriptTypesInvariant, PTL

-----------------------------------------------------------------------------
(* What a command line asks for is what reading it argument by argument     *)
(* finds.                                                                  *)

\* Whether an argument is the name after an -o depends on those before it.
LEMMA NameSteps ==
  ASSUME argv \in Seq(Arguments)
  PROVE  \A i \in 0..Len(argv) :
           IsName[i] <=> (i > 1 /\ argv[i - 1].opt = "o" /\ ~IsName[i - 1])
<1> DEFINE n == Len(argv)
           S == {0, 1}
           step(i, b) == IF i > 1 /\ argv[i - 1].opt = "o" /\ b = 0 THEN 1 ELSE 0
           g == [x \in (1..n) \X S |-> step(x[1], x[2])]
           Is(taken) == taken = [i \in 0..Len(argv) |->
                                   i > 1 /\ argv[i - 1].opt = "o" /\ ~taken[i - 1]]
           F == CHOOSE taken : Is(taken)
<1>1. n \in Nat /\ 0 \in S
  OBVIOUS
<1>2. \A i \in 1..n : \A b \in S : step(i, b) \in S
  OBVIOUS
<1> HIDE DEF step
<1>3. g \in [(1..n) \X S -> S]
  BY <1>2
<1>4. \A i \in 1..n : \A b \in S : g[<<i, b>>] = step(i, b)
  OBVIOUS
<1> HIDE DEF g, n, S
<1>4a. PICK f : Folds(n, S, 0, g, f)
  BY <1>1, <1>3, Recursion
<1>5. f \in [0..n -> S] /\ f[0] = 0 /\ \A i \in 1..n : f[i] = g[<<i, f[i - 1]>>]
  BY <1>4a DEF Folds
<1>6. \A i \in 1..n : f[i] = step(i, f[i - 1])
  <2> TAKE i \in 1..n
  <2>1. i - 1 \in 0..n
    BY <1>1
  <2>2. f[i - 1] \in S
    BY <1>5, <2>1
  <2> QED
    BY <1>4, <1>5, <2>2
<1> DEFINE t == [i \in 0..n |-> f[i] = 1]
<1>7. Is(t)
  <2>1. \A i \in 0..n : (f[i] = 1) <=> (i > 1 /\ argv[i - 1].opt = "o" /\ ~t[i - 1])
    <3> TAKE i \in 0..n
    <3>1. CASE i = 0
      BY <1>1, <1>5, <3>1
    <3>2. CASE i # 0
      <4>1. i \in 1..n /\ i - 1 \in 0..n
        BY <1>1, <3>2
      <4>2. f[i] = step(i, f[i - 1]) /\ f[i - 1] \in {0, 1} /\ (t[i - 1] <=> f[i - 1] = 1)
        BY <1>5, <1>6, <4>1 DEF S
      <4> HIDE DEF t
      <4> QED
        BY <4>1, <4>2 DEF step
    <3> QED
      BY <3>1, <3>2
  <2>2. t = [i \in 0..n |-> i > 1 /\ argv[i - 1].opt = "o" /\ ~t[i - 1]]
    BY <2>1
  <2> QED
    BY <2>2 DEF n
<1>8. Is(F)
  <2> HIDE DEF Is, t
  <2> QED
    BY <1>7
<1>9. IsName = F
  BY DEF IsName
<1> HIDE DEF F
<1> QED
  BY <1>8, <1>9

LEMMA SameNames == argv' = argv => IsName' = IsName
  BY DEF IsName

LEMMA SameAsked ==
  ASSUME argv' = argv, before' = before
  PROVE  /\ AskedInput' = AskedInput /\ AskedOutput' = AskedOutput
         /\ AskedFormat' = AskedFormat /\ AskedOptimize' = AskedOptimize
         /\ AskedMode' = AskedMode /\ Source' = Source /\ Converted' = Converted
         /\ Convertible' <=> Convertible
         /\ WellFormed' <=> WellFormed
<1>1. IsName' = IsName
  BY SameNames
<1>2. /\ Given({"none"})' = Given({"none"}) /\ Given({"o"})' = Given({"o"})
      /\ Given(DOMAIN Formats)' = Given(DOMAIN Formats)
      /\ Given({"O0", "O2"})' = Given({"O0", "O2"})
      /\ Given({"a"})' = Given({"a"}) /\ Given({"d"})' = Given({"d"})
      /\ Given({"h", "unknown", "save"})' = Given({"h", "unknown", "save"})
  BY <1>1 DEF Given, Formats
<1>3. AskedInput' = AskedInput
  BY <1>2 DEF AskedInput
<1>4. AskedFormat' = AskedFormat
  BY <1>2 DEF AskedFormat
<1>5. Named' = Named
  BY <1>2 DEF Named
<1>6. AskedOutput' = AskedOutput
  BY <1>3, <1>4, <1>5 DEF AskedOutput
<1>7. AskedOptimize' = AskedOptimize
  BY <1>2 DEF AskedOptimize
<1>8. AskedMode' = AskedMode
  BY <1>2 DEF AskedMode
<1>9. Source' = Source
  BY <1>3 DEF Source
<1>10. Converted' = Converted
  BY <1>4, <1>7, <1>8, <1>9 DEF Converted
<1>11. Convertible' <=> Convertible
  BY <1>3, <1>7, <1>8, <1>9 DEF Convertible
<1>12. WellFormed' <=> WellFormed
  BY <1>2, <1>3 DEF WellFormed
<1> QED
  BY <1>3, <1>4, <1>6, <1>7, <1>8, <1>9, <1>10, <1>11, <1>12

\* The options given among the first n arguments, and what they say.
GivenTo(opts, n) == {i \in 1..n : argv[i].opt \in opts /\ ~IsName[i]}

SaidTo(n) ==
  [input    |-> IF GivenTo({"none"}, n) = {} THEN NoPath
                ELSE argv[Latest(GivenTo({"none"}, n))].path,
   output   |-> IF GivenTo({"o"}, n) = {} THEN NoPath
                ELSE argv[Latest(GivenTo({"o"}, n)) + 1].path,
   format   |-> IF GivenTo(DOMAIN Formats, n) = {} THEN "hex"
                ELSE Formats[argv[Latest(GivenTo(DOMAIN Formats, n))].opt],
   optimize |-> (GivenTo({"O0", "O2"}, n) # {}
                   => argv[Latest(GivenTo({"O0", "O2"}, n))].opt = "O2"),
   assemble |-> GivenTo({"a"}, n) # {},
   disasm   |-> GivenTo({"d"}, n) # {}]

LEMMA GivenAtEnd ==
  ASSUME argv \in Seq(Arguments)
  PROVE  /\ Given({"none"}) = GivenTo({"none"}, Len(argv))
         /\ Given({"o"}) = GivenTo({"o"}, Len(argv))
         /\ Given(DOMAIN Formats) = GivenTo(DOMAIN Formats, Len(argv))
         /\ Given({"O0", "O2"}) = GivenTo({"O0", "O2"}, Len(argv))
         /\ Given({"a"}) = GivenTo({"a"}, Len(argv))
         /\ Given({"d"}) = GivenTo({"d"}, Len(argv))
         /\ Given({"h", "unknown", "save"}) = GivenTo({"h", "unknown", "save"}, Len(argv))
  BY DEF Given, GivenTo

\* An argument more.
LEMMA GivenNext ==
  ASSUME NEW n \in Nat, NEW opts
  PROVE  /\ IsName[n + 1] => GivenTo(opts, n + 1) = GivenTo(opts, n)
         /\ argv[n + 1].opt \notin opts => GivenTo(opts, n + 1) = GivenTo(opts, n)
         /\ argv[n + 1].opt \in opts /\ ~IsName[n + 1] =>
              GivenTo(opts, n + 1) # {} /\ Latest(GivenTo(opts, n + 1)) = n + 1
<1>1. ASSUME IsName[n + 1] \/ argv[n + 1].opt \notin opts
      PROVE  GivenTo(opts, n + 1) = GivenTo(opts, n)
  <2>1. \A i \in 1..n + 1 : i \in 1..n \/ i = n + 1
    OBVIOUS
  <2>2. 1..n \subseteq 1..n + 1
    OBVIOUS
  <2> QED
    BY <1>1, <2>1, <2>2 DEF GivenTo
<1>2. ASSUME argv[n + 1].opt \in opts, ~IsName[n + 1]
      PROVE  GivenTo(opts, n + 1) # {} /\ Latest(GivenTo(opts, n + 1)) = n + 1
  <2> DEFINE G == GivenTo(opts, n + 1)
  <2>1. n + 1 \in G /\ \A i \in G : i \in Nat /\ i <= n + 1
    BY <1>2 DEF GivenTo
  <2> HIDE DEF G
  <2>2. \A i \in G : (\A j \in G : j <= i) => i = n + 1
    BY <2>1
  <2>3. Latest(G) = n + 1
    BY <2>1, <2>2 DEF Latest
  <2> QED
    BY <2>1, <2>3 DEF G
<1> QED
  BY <1>1, <1>2

LEMMA SaidNext ==
  ASSUME NEW n \in Nat, ~IsName[n + 1]
  PROVE  LET opt == argv[n + 1].opt
             said == SaidTo(n)
         IN  SaidTo(n + 1) =
               [input    |-> IF opt = "none" THEN argv[n + 1].path ELSE said.input,
                output   |-> IF opt = "o" THEN argv[n + 2].path ELSE said.output,
                format   |-> IF opt \in DOMAIN Formats THEN Formats[opt] ELSE said.format,
                optimize |-> IF opt \in {"O0", "O2"} THEN opt = "O2" ELSE said.optimize,
                assemble |-> IF opt = "a" THEN TRUE ELSE said.assemble,
                disasm   |-> IF opt = "d" THEN TRUE ELSE said.disasm]
<1> DEFINE opt == argv[n + 1].opt
           said == SaidTo(n)
           next == SaidTo(n + 1)
<1>1. next.input = IF opt = "none" THEN argv[n + 1].path ELSE said.input
  BY GivenNext DEF SaidTo
<1>2. next.output = IF opt = "o" THEN argv[n + 2].path ELSE said.output
  BY GivenNext DEF SaidTo
<1>3. next.format = IF opt \in DOMAIN Formats THEN Formats[opt] ELSE said.format
  BY GivenNext DEF SaidTo
<1>4. next.optimize = IF opt \in {"O0", "O2"} THEN opt = "O2" ELSE said.optimize
  BY GivenNext DEF SaidTo
<1>5. next.assemble = IF opt = "a" THEN TRUE ELSE said.assemble
  BY GivenNext DEF SaidTo
<1>6. next.disasm = IF opt = "d" THEN TRUE ELSE said.disasm
  BY GivenNext DEF SaidTo
<1>7. next = [input |-> next.input, output |-> next.output, format |-> next.format,
              optimize |-> next.optimize, assemble |-> next.assemble, disasm |-> next.disasm]
  BY DEF SaidTo
<1> QED
  BY <1>1, <1>2, <1>3, <1>4, <1>5, <1>6, <1>7

LEMMA SaidName ==
  ASSUME NEW n \in Nat, IsName[n + 1]
  PROVE  SaidTo(n + 1) = SaidTo(n)
  BY GivenNext DEF SaidTo

\* The options are what the arguments read so far say, none of which ends the
\* invocation, and the next argument is not a file name that belongs to an -o.
ParseInv ==
  stage = "options" =>
    /\ parsed < Len(argv) => ~IsName[parsed + 1]
    /\ GivenTo({"h", "unknown", "save"}, parsed) = {}
    /\ options = SaidTo(parsed)

LEMMA SaidPrimed ==
  ASSUME UNCHANGED argv
  PROVE  /\ SaidTo(parsed)' = SaidTo(parsed')
         /\ GivenTo({"h", "unknown", "save"}, parsed)'
              = GivenTo({"h", "unknown", "save"}, parsed')
  BY SameNames DEF SaidTo, GivenTo

LEMMA BeginParse ==
  ASSUME NEW arguments \in Seq(Arguments), Begin(arguments)
  PROVE  ParseInv'
<1>1. argv' \in Seq(Arguments) /\ parsed' = 0 /\ options' = Defaults
  BY DEF Begin
<1>2. Len(argv') > 0 => ~IsName'[1]
  <2>1. (argv \in Seq(Arguments) =>
          \A i \in 0..Len(argv) :
            IsName[i] <=> (i > 1 /\ argv[i - 1].opt = "o" /\ ~IsName[i - 1]))'
    BY NameSteps, PTL
  <2>2. \A i \in 0..Len(argv') :
          IsName'[i] <=> (i > 1 /\ argv'[i - 1].opt = "o" /\ ~IsName'[i - 1])
    BY <1>1, <2>1
  <2>3. Len(argv') > 0 => 1 \in 0..Len(argv')
    BY <1>1
  <2> QED
    BY <2>2, <2>3
<1>3. SaidTo(parsed)' = Defaults /\ GivenTo({"h", "unknown", "save"}, parsed)' = {}
  <2>1. 1..parsed' = {}
    BY <1>1
  <2> QED
    BY <2>1 DEF SaidTo, GivenTo, Defaults
<1> QED
  BY <1>1, <1>2, <1>3 DEF ParseInv

\* The two arguments of an -o, and the one of any other option.
LEMMA NamesAhead ==
  ASSUME ArgumentsInv, ~IsName[parsed + 1], parsed < Len(argv)
  PROVE  /\ argv[parsed + 1].opt # "o" /\ parsed + 1 < Len(argv) => ~IsName[parsed + 2]
         /\ argv[parsed + 1].opt = "o" /\ parsed + 1 < Len(argv) => IsName[parsed + 2]
         /\ argv[parsed + 1].opt = "o" /\ parsed + 2 < Len(argv) => ~IsName[parsed + 3]
<1>1. argv \in Seq(Arguments) /\ parsed \in Nat /\ Len(argv) \in Nat
  BY DEF ArgumentsInv
<1>2. \A i \in 0..Len(argv) :
        IsName[i] <=> (i > 1 /\ argv[i - 1].opt = "o" /\ ~IsName[i - 1])
  BY <1>1, NameSteps
<1>3. ASSUME parsed + 1 < Len(argv)
      PROVE  IsName[parsed + 2] <=> argv[parsed + 1].opt = "o"
  <2>1. /\ parsed + 2 \in 0..Len(argv) /\ parsed + 2 > 1 /\ (parsed + 2) - 1 = parsed + 1
    BY <1>1, <1>3
  <2> QED
    BY <1>2, <2>1
<1>4. ASSUME parsed + 2 < Len(argv), IsName[parsed + 2]
      PROVE  ~IsName[parsed + 3]
  <2>1. /\ parsed + 3 \in 0..Len(argv) /\ (parsed + 3) - 1 = parsed + 2
    BY <1>1, <1>4
  <2> QED
    BY <1>2, <1>4, <2>1
<1> QED
  BY <1>1, <1>3, <1>4

\* What an argument says changes one of the options.
LEMMA SaidStep ==
  ASSUME ArgumentsInv, ~IsName[parsed + 1], options = SaidTo(parsed)
  PROVE  LET opt == argv[parsed + 1].opt
             next == SaidTo(parsed + 1)
         IN  /\ opt = "none" => next = [options EXCEPT !.input = argv[parsed + 1].path]
             /\ opt = "o" => next = [options EXCEPT !.output = argv[parsed + 2].path]
             /\ opt \in Settings => next = Applied(opt)
<1> DEFINE opt == argv[parsed + 1].opt
           next == SaidTo(parsed + 1)
<1>1. options \in OptionSet /\ parsed \in Nat
  BY DEF ArgumentsInv
<1>2. next =
        [input    |-> IF opt = "none" THEN argv[parsed + 1].path ELSE options.input,
         output   |-> IF opt = "o" THEN argv[parsed + 2].path ELSE options.output,
         format   |-> IF opt \in DOMAIN Formats THEN Formats[opt] ELSE options.format,
         optimize |-> IF opt \in {"O0", "O2"} THEN opt = "O2" ELSE options.optimize,
         assemble |-> IF opt = "a" THEN TRUE ELSE options.assemble,
         disasm   |-> IF opt = "d" THEN TRUE ELSE options.disasm]
  BY <1>1, SaidNext
<1> HIDE DEF opt, next
<1>3. opt = "none" => next = [options EXCEPT !.input = argv[parsed + 1].path]
  BY <1>1, <1>2, FormatNames DEF OptionSet
<1>4. opt = "o" => next = [options EXCEPT !.output = argv[parsed + 2].path]
  BY <1>1, <1>2, FormatNames DEF OptionSet
<1>5. ASSUME opt \in Settings PROVE next = Applied(opt)
  <2>1. CASE opt \in DOMAIN Formats
    <3>1. Applied(opt) = [options EXCEPT !.format = Formats[opt]]
      BY <2>1, FormatNames DEF Applied
    <3> QED
      BY <1>1, <1>2, <2>1, <3>1, FormatNames DEF OptionSet
  <2>2. CASE opt \in {"O0", "O2"}
    <3>1. Applied(opt) = [options EXCEPT !.optimize = (opt = "O2")]
      BY <2>2, FormatNames DEF Applied
    <3> QED
      BY <1>1, <1>2, <2>2, <3>1, FormatNames DEF OptionSet
  <2>3. CASE opt = "a"
    <3>1. Applied(opt) = [options EXCEPT !.assemble = TRUE]
      BY <2>3, FormatNames DEF Applied
    <3> QED
      BY <1>1, <1>2, <2>3, <3>1, FormatNames DEF OptionSet
  <2>4. CASE opt = "d"
    <3>1. Applied(opt) = [options EXCEPT !.disasm = TRUE]
      BY <2>4, FormatNames DEF Applied
    <3> QED
      BY <1>1, <1>2, <2>4, <3>1, FormatNames DEF OptionSet
  <2> QED
    BY <1>5, <2>1, <2>2, <2>3, <2>4 DEF Settings
<1> QED
  BY <1>3, <1>4, <1>5 DEF opt, next

LEMMA InvocationParse ==
  ASSUME ArgumentsInv, ParseInv, Invocation
  PROVE  ParseInv'
<1> DEFINE bad == {"h", "unknown", "save"}
<1>0. ASSUME Reading
      PROVE  /\ parsed \in Nat /\ stage = "options"
             /\ parsed < Len(argv) /\ Len(argv) \in Nat
             /\ ~IsName[parsed + 1]
             /\ GivenTo(bad, parsed) = {} /\ options = SaidTo(parsed)
  BY <1>0 DEF Reading, ParseInv, ArgumentsInv
<1>1. CASE TakeOutput
  <2>1. /\ Reading /\ argv[parsed + 1].opt = "o" /\ parsed + 1 < Len(argv)
        /\ options' = [options EXCEPT !.output = argv[parsed + 2].path]
        /\ parsed' = parsed + 2 /\ argv' = argv /\ stage' = stage
    BY <1>1 DEF TakeOutput, Taking, Argument
  <2>2. IsName[parsed + 2] /\ (parsed + 2 < Len(argv) => ~IsName[parsed + 3])
    BY <1>0, <2>1, NamesAhead
  <2>3. parsed + 2 = (parsed + 1) + 1 /\ parsed + 1 \in Nat /\ parsed + 3 = parsed' + 1
    BY <1>0, <2>1
  <2>4. SaidTo(parsed + 2) = SaidTo(parsed + 1)
    BY <2>2, <2>3, SaidName
  <2>5. GivenTo(bad, parsed + 1) = {}
    BY <1>0, <2>1, GivenNext
  <2>6. GivenTo(bad, parsed + 2) = {}
    BY <2>2, <2>3, <2>5, GivenNext
  <2>7. options' = SaidTo(parsed + 1)
    BY <1>0, <2>1, SaidStep
  <2> QED
    BY <2>1, <2>2, <2>3, <2>4, <2>6, <2>7, SaidPrimed, SameNames DEF ParseInv
<1>2. CASE TakeSetting
  <2> DEFINE opt == argv[parsed + 1].opt
  <2>1. /\ Reading /\ opt \in Settings
        /\ options' = Applied(opt)
        /\ parsed' = parsed + 1 /\ argv' = argv /\ stage' = stage
    BY <1>2 DEF TakeSetting, Taking, Argument
  <2>2. opt \in {"s", "x", "b", "O0", "O2", "a", "d"}
    BY <2>1, FormatNames DEF Settings
  <2>3. parsed + 1 < Len(argv) => ~IsName[parsed + 2]
    BY <1>0, <2>1, <2>2, NamesAhead
  <2>4. GivenTo(bad, parsed + 1) = {}
    BY <1>0, <2>1, <2>2, GivenNext
  <2>5. options' = SaidTo(parsed + 1)
    BY <1>0, <2>1, SaidStep
  <2>6. parsed + 2 = parsed' + 1
    BY <1>0, <2>1
  <2> QED
    BY <2>1, <2>3, <2>4, <2>5, <2>6, SaidPrimed, SameNames DEF ParseInv
<1>3. CASE TakeInput
  <2>1. /\ Reading /\ argv[parsed + 1].opt = "none"
        /\ options' = [options EXCEPT !.input = argv[parsed + 1].path]
        /\ parsed' = parsed + 1 /\ argv' = argv /\ stage' = stage
    BY <1>3 DEF TakeInput, Taking, Argument
  <2>2. parsed + 1 < Len(argv) => ~IsName[parsed + 2]
    BY <1>0, <2>1, NamesAhead
  <2>3. GivenTo(bad, parsed + 1) = {}
    BY <1>0, <2>1, GivenNext
  <2>4. options' = SaidTo(parsed + 1)
    BY <1>0, <2>1, SaidStep
  <2>5. parsed + 2 = parsed' + 1
    BY <1>0, <2>1
  <2> QED
    BY <2>1, <2>2, <2>3, <2>4, <2>5, SaidPrimed, SameNames DEF ParseInv
<1>4. CASE ChooseMode
  BY <1>4 DEF ChooseMode, Mode, ParseInv
<1>5. CASE \/ Help \/ UnknownOption \/ NoInput \/ NoText \/ RejectText \/ CannotDisassemble
           \/ CannotCompile \/ Succeed
  BY <1>5 DEF Help, UnknownOption, NoInput, NoText, RejectText, CannotDisassemble,
              CannotCompile, Succeed, Refuse, Exit, ParseInv
<1>6. CASE Assemble \/ Disassemble \/ Compile \/ ListLine \/ WriteLine \/ DiskFull
  BY <1>6 DEF Assemble, Disassemble, Compile, Open, ListLine, WriteLine, DiskFull, ParseInv
<1> QED
  BY <1>1, <1>2, <1>3, <1>4, <1>5, <1>6 DEF Invocation

\* The options are as asked when the mode is chosen, and in the mode asked for.
ModeInv ==
  /\ stage \in {"assemble", "disassemble", "compile", "write", "list"} =>
       /\ options.input = AskedInput /\ options.output = AskedOutput
       /\ options.format = AskedFormat /\ options.optimize = AskedOptimize
  /\ stage \in {"assemble", "disassemble", "compile"} => stage = AskedMode
  /\ stage = "write" => AskedMode \in {"assemble", "compile"}
  /\ stage = "list" => AskedMode = "disassemble"

LEMMA AskedAtEnd ==
  ASSUME ArgumentsInv, ParseInv, stage = "options", parsed = Len(argv)
  PROVE  /\ options.input = IF Given({"none"}) = {} THEN NoPath ELSE AskedInput
         /\ options.output = Named
         /\ options.format = AskedFormat
         /\ options.optimize = AskedOptimize
         /\ Mode(options) = AskedMode
         /\ Given({"h", "unknown", "save"}) = {}
<1>1. /\ Given({"none"}) = GivenTo({"none"}, parsed)
      /\ Given({"o"}) = GivenTo({"o"}, parsed)
      /\ Given(DOMAIN Formats) = GivenTo(DOMAIN Formats, parsed)
      /\ Given({"O0", "O2"}) = GivenTo({"O0", "O2"}, parsed)
      /\ Given({"a"}) = GivenTo({"a"}, parsed)
      /\ Given({"d"}) = GivenTo({"d"}, parsed)
      /\ Given({"h", "unknown", "save"}) = GivenTo({"h", "unknown", "save"}, parsed)
  BY GivenAtEnd DEF ArgumentsInv
<1>2. options = SaidTo(parsed) /\ GivenTo({"h", "unknown", "save"}, parsed) = {}
  BY DEF ParseInv
<1>3. options.input = IF Given({"none"}) = {} THEN NoPath ELSE AskedInput
  BY <1>1, <1>2 DEF SaidTo, AskedInput
<1>4. options.output = Named
  BY <1>1, <1>2 DEF SaidTo, Named
<1>5. options.format = AskedFormat
  BY <1>1, <1>2 DEF SaidTo, AskedFormat
<1>6. options.optimize = AskedOptimize
  BY <1>1, <1>2 DEF SaidTo, AskedOptimize
<1>7. Mode(options) = AskedMode
  BY <1>1, <1>2 DEF SaidTo, Mode, AskedMode
<1> QED
  BY <1>1, <1>2, <1>3, <1>4, <1>5, <1>6, <1>7

LEMMA ChooseAsked ==
  ASSUME ArgumentsInv, ParseInv, ChooseMode
  PROVE  /\ options'.input = AskedInput /\ options'.output = AskedOutput
         /\ options'.format = AskedFormat /\ options'.optimize = AskedOptimize
         /\ stage' = AskedMode
<1>1. /\ stage = "options" /\ parsed = Len(argv) /\ options.input # NoPath
      /\ stage' = Mode(options)
      /\ options' = [options EXCEPT !.output = IF @ # NoPath THEN @
                       ELSE Append(Base(options.input), Extension[options.format])]
  BY DEF ChooseMode
<1>2. options \in OptionSet
  BY DEF ArgumentsInv
<1>3. /\ options.input = AskedInput /\ options.output = Named
      /\ options.format = AskedFormat /\ options.optimize = AskedOptimize
      /\ Mode(options) = AskedMode
  BY <1>1, AskedAtEnd
<1>4. /\ options'.input = options.input /\ options'.format = options.format
      /\ options'.optimize = options.optimize
      /\ options'.output = IF options.output # NoPath THEN options.output
                           ELSE Append(Base(options.input), Extension[options.format])
  BY <1>1, <1>2 DEF OptionSet
<1> QED
  BY <1>1, <1>3, <1>4 DEF AskedOutput

LEMMA InvocationMode ==
  ASSUME ArgumentsInv, ParseInv, ModeInv, Invocation
  PROVE  ModeInv' /\ UNCHANGED <<argv, before>>
<1>0. UNCHANGED <<argv, before>>
  BY DEF Invocation, Help, TakeOutput, TakeSetting, TakeInput, UnknownOption, ChooseMode, NoInput,
         Assemble, NoText, RejectText, Disassemble, CannotDisassemble, ListLine, Compile,
         CannotCompile, WriteLine, DiskFull, Succeed, Refuse, Exit, Open, Taking
<1>1. /\ AskedInput' = AskedInput /\ AskedOutput' = AskedOutput
      /\ AskedFormat' = AskedFormat /\ AskedOptimize' = AskedOptimize
      /\ AskedMode' = AskedMode
  BY <1>0, SameAsked
<1>2. CASE TakeOutput \/ TakeSetting \/ TakeInput
  <2>1. stage' = "options"
    BY <1>2 DEF TakeOutput, TakeSetting, TakeInput, Taking, Reading
  <2> QED
    BY <1>0, <2>1 DEF ModeInv
<1>3. CASE ChooseMode
  <2>1. stage' \in {"assemble", "disassemble", "compile"}
    BY <1>3 DEF ChooseMode, Mode
  <2> QED
    BY <1>0, <1>1, <1>3, <2>1, ChooseAsked DEF ModeInv
<1>4. CASE \/ Help \/ UnknownOption \/ NoInput \/ NoText \/ RejectText \/ CannotDisassemble
           \/ CannotCompile \/ Succeed
  <2>1. stage' = "ended"
    BY <1>4 DEF Help, UnknownOption, NoInput, NoText, RejectText, CannotDisassemble,
                CannotCompile, Succeed, Refuse, Exit
  <2> QED
    BY <1>0, <2>1 DEF ModeInv
<1>5. CASE Assemble \/ Compile
  <2>1. stage' = "write" /\ options' = options /\ stage \in {"assemble", "compile"}
    BY <1>5 DEF Assemble, Compile, Open
  <2> QED
    BY <1>0, <1>1, <2>1 DEF ModeInv
<1>6. CASE Disassemble
  <2>1. stage' = "list" /\ options' = options /\ stage = "disassemble"
    BY <1>6 DEF Disassemble, Open
  <2> QED
    BY <1>0, <1>1, <2>1 DEF ModeInv
<1>7. CASE ListLine \/ WriteLine \/ DiskFull
  <2>1. stage' = stage /\ options' = options
    BY <1>7 DEF ListLine, WriteLine, DiskFull
  <2> QED
    BY <1>0, <1>1, <2>1 DEF ModeInv
<1> QED
  BY <1>0, <1>2, <1>3, <1>4, <1>5, <1>6, <1>7 DEF Invocation

-----------------------------------------------------------------------------
(* What an invocation has written of the translation.                      *)

LEMMA InFormAppend ==
  ASSUME NEW form, NEW s \in Seq(Words), NEW w \in Words
  PROVE  InForm(form, Append(s, w)) = Append(InForm(form, s), Line(form, w))
  BY DEF InForm

\* The instructions of a text that is accepted, as lines, are those of its
\* program.
LEMMA AssembledIs ==
  ASSUME NEW text \in Seq(Lines), NEW form \in {"asm", "hex", "bin"},
         NEW r \in Seq(Words \cup {NoWord}), Len(r) = Len(text),
         \A i \in 1..Len(text) :
           r[i] = IF text[i].form = "asm" THEN text[i].of ELSE NoWord
  PROVE  Assembled(text, form) = InForm(form, Program(r))
<1> DEFINE n == Len(text)
           Is(upTo) == upTo = [i \in 0..Len(text) |->
                                 IF i = 0 THEN <<>>
                                 ELSE IF text[i].form # "asm" THEN upTo[i - 1]
                                 ELSE Append(upTo[i - 1], Line(form, text[i].of))]
           F == CHOOSE upTo : Is(upTo)
<1>1. PICK p \in [0..Len(r) -> Seq(Words)] :
        /\ p[0] = <<>>
        /\ \A i \in 1..Len(r) : p[i] = IF r[i] = NoWord THEN p[i - 1] ELSE Append(p[i - 1], r[i])
        /\ Program(r) = p[Len(r)]
  BY ProgramSteps
<1> DEFINE f == [i \in 0..n |-> InForm(form, p[i])]
<1>2. n \in Nat
  OBVIOUS
<1>3. f[0] = <<>>
  BY <1>1, <1>2 DEF InForm
<1>4. ASSUME NEW i \in 1..n
      PROVE  f[i] = IF text[i].form # "asm" THEN f[i - 1]
                    ELSE Append(f[i - 1], Line(form, text[i].of))
  <2>0. i \in 0..n /\ i - 1 \in 0..n /\ i \in 1..Len(r) /\ i - 1 \in 0..Len(r)
    BY <1>2
  <2>1. i \in 0..n /\ i - 1 \in 0..n /\ p[i - 1] \in Seq(Words)
    BY <1>1, <2>0
  <2>2. f[i] = InForm(form, p[i]) /\ f[i - 1] = InForm(form, p[i - 1])
    BY <2>1
  <2>3. text[i] \in Lines
    OBVIOUS
  <2>4. CASE text[i].form # "asm"
    BY <1>1, <2>2, <2>4
  <2>5. CASE text[i].form = "asm"
    <3>1. text[i].of \in Words /\ text[i].of # NoWord
      BY <2>3, <2>5, LineTyped, WordsAssumption
    <3>2. p[i] = Append(p[i - 1], text[i].of)
      BY <1>1, <2>5, <3>1
    <3> HIDE DEF f
    <3> QED
      BY <2>1, <2>2, <2>5, <3>1, <3>2, InFormAppend
  <2> QED
    BY <2>4, <2>5
<1>5. f = [i \in 0..n |-> f[i]]
  OBVIOUS
<1> HIDE DEF f
<1>6. Is(f)
  <2>1. ASSUME NEW i \in 0..n
        PROVE  f[i] = IF i = 0 THEN <<>> ELSE IF text[i].form # "asm" THEN f[i - 1]
                      ELSE Append(f[i - 1], Line(form, text[i].of))
    <3>1. CASE i = 0
      BY <1>3, <3>1
    <3>2. CASE i # 0
      BY <1>2, <1>4, <3>2
    <3> QED
      BY <3>1, <3>2
  <2> QED
    BY <1>5, <2>1
<1>7. Is(F)
  <2> HIDE DEF Is
  <2> QED
    BY <1>6
<1>8. Assembled(text, form) = F[n]
  BY DEF Assembled
<1> HIDE DEF F
<1>9. SameSteps(n, F, f)
  <2>1. F[0] = <<>>
    BY <1>2, <1>7
  <2>2. ASSUME NEW i \in 1..n
        PROVE  F[i] = IF text[i].form # "asm" THEN F[i - 1]
                      ELSE Append(F[i - 1], Line(form, text[i].of))
    <3>1. i \in 0..n /\ i # 0
      BY <1>2
    <3>2. F[i] = IF i = 0 THEN <<>> ELSE IF text[i].form # "asm" THEN F[i - 1]
                 ELSE Append(F[i - 1], Line(form, text[i].of))
      BY <1>7, <3>1
    <3> QED
      BY <3>1, <3>2
  <2> QED
    BY <1>3, <1>4, <2>1, <2>2 DEF SameSteps
<1>10. F[n] = f[n]
  BY <1>2, <1>9, RecursionUnique
<1>11. f[n] = InForm(form, p[n])
  BY <1>2 DEF f
<1> QED
  BY <1>1, <1>8, <1>10, <1>11

BeforeTyped == \A p \in DOMAIN before : before[p] \in Seq(Lines)

Doable == Convertible /\ ~diskFull /\ AskedOutput \notin Unwritable

\* Nothing but the output has changed, and the output holds what done says.
Holds(done) == done \in Seq(Lines) /\ files = Updated(before, AskedOutput, done)

\* What is written and what is pending make the translation; a listing is the
\* translation of the lines that have been read.
WritingInv ==
  stage = "write" /\ Doable =>
    stream /\ \E done : Holds(done) /\ done \o pending = Converted

ListingInv ==
  stage = "list" /\ Doable /\ AskedOutput # AskedInput =>
    stream /\ \E done : /\ Holds(done)
                        /\ Len(done) = position /\ position <= Len(Source)
                        /\ \A i \in 1..position : done[i] = Converted[i]

TranslationInv ==
  /\ BeforeTyped
  /\ stage \in {"options", "assemble", "disassemble", "compile"} => position = 0
  /\ WritingInv
  /\ ListingInv
  /\ TranslatesWhatItCan

LEMMA SourceTyped ==
  ASSUME BeforeTyped, Convertible
  PROVE  AskedInput \in DOMAIN before /\ Source \in Seq(Lines)
  BY DEF BeforeTyped, Convertible, Source

\* In the modes the input is still what the invocation found.
LEMMA ModeInput ==
  ASSUME ModeInv, FailureInv, stage \in {"assemble", "disassemble", "compile"}
  PROVE  /\ files = before /\ stage = AskedMode
         /\ options.input = AskedInput /\ options.output = AskedOutput
         /\ options.format = AskedFormat /\ options.optimize = AskedOptimize
         /\ Present <=> AskedInput \in DOMAIN before
         /\ Input = Source
         /\ Writable <=> AskedOutput \notin Unwritable
  BY DEF ModeInv, FailureInv, Present, Input, Source, Writable

\* A text of instructions and notes is read in one way.
LEMMA TextReadings ==
  ASSUME NEW text \in Seq(Lines), \A i \in DOMAIN text : text[i].form \in {"asm", "note"},
         NEW r \in Parses(text)
  PROVE  /\ Accepted(r)
         /\ \A i \in 1..Len(text) : r[i] = IF text[i].form = "asm" THEN text[i].of ELSE NoWord
<1>1. DOMAIN r = DOMAIN text /\ DOMAIN text = 1..Len(text)
  BY DEF Parses
<1>2. ASSUME NEW i \in 1..Len(text)
      PROVE  /\ r[i] = IF text[i].form = "asm" THEN text[i].of ELSE NoWord
             /\ r[i] # Reject
  <2>1. text[i] \in Lines /\ text[i].form \in {"asm", "note"}
    BY <1>1
  <2>2. r[i] \in Readings(text[i])
    BY <1>1 DEF Parses
  <2>3. CASE text[i].form = "asm"
    <3>1. Readings(text[i]) = {text[i].of}
      BY <2>3 DEF Readings
    <3>2. text[i].of \in Words
      BY <2>1, <2>3, LineTyped
    <3> QED
      BY <2>2, <2>3, <3>1, <3>2, WordsAssumption
  <2>4. CASE text[i].form = "note"
    <3>1. Readings(text[i]) = {NoWord}
      BY <2>4 DEF Readings
    <3>2. NoWord # Reject
      BY DEF NoWord, Reject
    <3> QED
      BY <2>2, <2>4, <3>1, <3>2
  <2> QED
    BY <2>1, <2>3, <2>4
<1> QED
  BY <1>1, <1>2 DEF Accepted

\* What can be translated is not refused.
LEMMA NotRefused ==
  ASSUME BeforeTyped, ModeInv, FailureInv, Doable
  PROVE  ~(NoText \/ RejectText \/ CannotDisassemble \/ CannotCompile)
<1>1. AskedInput \in DOMAIN before /\ Source \in Seq(Lines) /\ AskedOutput \notin Unwritable
  BY SourceTyped DEF Doable
<1>2. ~NoText
  BY <1>1, ModeInput DEF NoText
<1>3. ASSUME RejectText PROVE FALSE
  <2>1. stage = "assemble" /\ \E r \in Parses(Input) : ~Accepted(r)
    BY <1>3 DEF RejectText
  <2>2. AskedMode = "assemble" /\ Input = Source
    BY <2>1, ModeInput
  <2>3. \A i \in DOMAIN Source : Source[i].form \in {"asm", "note"}
    BY <2>2 DEF Doable, Convertible
  <2> QED
    BY <1>1, <2>1, <2>2, <2>3, TextReadings
<1>4. ~CannotDisassemble
  BY <1>1, ModeInput DEF CannotDisassemble
<1>5. ASSUME CannotCompile PROVE FALSE
  <2>1. stage = "compile" /\ ~Compilable
    BY <1>5 DEF CannotCompile
  <2>2. AskedMode = "compile" /\ Input = Source /\ options.optimize = AskedOptimize
        /\ Present /\ Writable
    BY <1>1, <2>1, ModeInput
  <2> QED
    BY <2>1, <2>2 DEF Doable, Convertible, Compilable
<1> QED
  BY <1>2, <1>3, <1>4, <1>5

\* What is pending when the output is opened is the whole translation.
LEMMA StartsWriting ==
  ASSUME BeforeTyped, ModeInv, FailureInv, Doable, ArgumentsInv, Assemble \/ Compile
  PROVE  /\ stage' = "write" /\ stream' /\ pending' = Converted /\ Converted \in Seq(Lines)
         /\ files' = Updated(before, AskedOutput, <<>>) /\ diskFull' = diskFull
<1>1. AskedInput \in DOMAIN before /\ Source \in Seq(Lines) /\ AskedOutput \notin Unwritable
  BY SourceTyped DEF Doable
<1>2. stage \in {"assemble", "compile"}
  BY DEF Assemble, Compile
<1>3. /\ files = before /\ stage = AskedMode /\ Input = Source /\ Writable
      /\ options.output = AskedOutput
      /\ options.format = AskedFormat /\ options.optimize = AskedOptimize
  BY <1>1, <1>2, ModeInput
<1>4. AskedFormat \in {"asm", "hex", "bin"} /\ AskedOptimize \in BOOLEAN
  BY <1>3 DEF ArgumentsInv, OptionSet
<1>5. ASSUME NEW lines, Open("write", lines)
      PROVE  /\ stage' = "write" /\ stream' /\ pending' = lines
             /\ files' = Updated(before, AskedOutput, <<>>) /\ diskFull' = diskFull
  BY <1>3, <1>5 DEF Open
<1>6. CASE Assemble
  <2> DEFINE form == IF AskedFormat = "bin" THEN "bin" ELSE "hex"
  <2>1. AskedMode = "assemble" /\ WordForm = form
    BY <1>3, <1>6 DEF Assemble, WordForm
  <2>2. PICK r \in Parses(Source) : Accepted(r) /\ Open("write", InForm(form, Program(r)))
    BY <1>3, <1>6, <2>1 DEF Assemble
  <2>3. \A i \in DOMAIN Source : Source[i].form \in {"asm", "note"}
    BY <2>1 DEF Doable, Convertible
  <2>4. r \in Seq(Words \cup {NoWord}) /\ Len(r) = Len(Source)
    BY <1>1, <2>2, ReadingTyped
  <2>5. \A i \in 1..Len(Source) :
          r[i] = IF Source[i].form = "asm" THEN Source[i].of ELSE NoWord
    BY <1>1, <2>2, <2>3, TextReadings
  <2>6. InForm(form, Program(r)) = Assembled(Source, form)
    BY <1>1, <2>4, <2>5, AssembledIs
  <2>7. Converted = Assembled(Source, form)
    BY <2>1 DEF Converted
  <2>8. Converted \in Seq(Lines)
    <3>1. Program(r) \in Seq(Words)
      BY <2>4, ProgramSteps
    <3> QED
      BY <2>6, <2>7, <3>1, InFormTyped, CodeLinesAreLines
  <2> QED
    BY <1>5, <2>2, <2>6, <2>7, <2>8
<1>7. CASE Compile
  <2>1. AskedMode = "compile"
    BY <1>3, <1>7 DEF Compile
  <2>2. Converted = InForm(AskedFormat, Code[<<Module(Source), AskedOptimize>>])
    BY <2>1 DEF Converted
  <2>3. Open("write", Converted)
    BY <1>3, <1>7, <2>2 DEF Compile
  <2>4. Converted \in Seq(Lines)
    <3>1. Len(Source) = 1 /\ Source[1].form = "ir"
      BY <2>1 DEF Doable, Convertible, IsModule
    <3>2. Module(Source) \in Modules
      BY <1>1, <3>1, LineTyped DEF Module
    <3>3. Code[<<Module(Source), AskedOptimize>>] \in Seq(Words)
      BY <1>4, <3>2, CodeAssumption
    <3> QED
      BY <1>4, <2>2, <3>3, InFormTyped, CodeLinesAreLines
  <2> QED
    BY <1>5, <2>3, <2>4
<1> QED
  BY <1>6, <1>7

LEMMA UpdatedTwice ==
  ASSUME NEW map, NEW path, NEW done, NEW line
  PROVE  LET written == Updated(map, path, done)
         IN  Updated(written, path, Append(written[path], line))
               = Updated(map, path, Append(done, line))
<1> DEFINE written == Updated(map, path, done)
<1>1. /\ DOMAIN written = DOMAIN map \cup {path} /\ written[path] = done
      /\ \A p \in DOMAIN map : p # path => written[p] = map[p]
  BY DEF Updated
<1> HIDE DEF written
<1>2. Updated(written, path, Append(written[path], line)) =
        [p \in DOMAIN map \cup {path} |-> IF p = path THEN Append(done, line) ELSE map[p]]
  BY <1>1 DEF Updated
<1> QED
  BY <1>2 DEF Updated, written

\* A line written to an output that holds done.
LEMMA WriteMore ==
  ASSUME NEW done, Holds(done), stream, options.output = AskedOutput, NEW line \in Lines,
         files' = Written(line), UNCHANGED <<argv, before>>
  PROVE  Holds(Append(done, line))'
<1>1. files' = Updated(before, AskedOutput, Append(done, line))
  BY UpdatedTwice DEF Holds, Written
<1>2. Append(done, line) \in Seq(Lines)
  BY DEF Holds
<1>3. AskedOutput' = AskedOutput
  BY SameAsked
<1> QED
  BY <1>1, <1>2, <1>3 DEF Holds

LEMMA WriteLineKeeps ==
  ASSUME DriverTypes, ModeInv, WritingInv, WriteLine
  PROVE  WritingInv'
<1>1. /\ stage = "write" /\ stage' = stage /\ pending # <<>> /\ pending \in Seq(Lines)
      /\ files' = Written(Head(pending)) /\ pending' = Tail(pending)
      /\ UNCHANGED <<argv, before, stream, diskFull>>
      /\ options.output = AskedOutput
  BY DEF WriteLine, DriverTypes, ModeInv
<1> SUFFICES ASSUME Doable PROVE stream' /\ \E done : Holds(done)' /\ done \o pending' = Converted
  <2>1. Doable' <=> Doable
    BY <1>1, SameAsked DEF Doable
  <2>2. Converted' = Converted
    BY <1>1, SameAsked
  <2> QED
    BY <1>1, <2>1, <2>2 DEF WritingInv
<1>2. PICK done : Holds(done) /\ done \o pending = Converted
  BY <1>1 DEF WritingInv
<1>3. stream
  BY <1>1 DEF WritingInv
<1>4. PICK line \in Lines : line = Head(pending)
  BY <1>1
<1>5. Append(done, line) \o pending' = Converted
  <2>1. done \in Seq(Lines)
    BY <1>2 DEF Holds
  <2>2. Append(done, Head(pending)) \o Tail(pending) = done \o pending
    BY <1>1, <2>1, MoveOne
  <2> QED
    BY <1>1, <1>2, <1>4, <2>2
<1>6. Holds(Append(done, line))'
  BY <1>1, <1>2, <1>3, <1>4, WriteMore
<1> QED
  BY <1>1, <1>3, <1>5, <1>6

\* What is read of an input that is not written.
LEMMA ListedInput ==
  ASSUME BeforeTyped, ModeInv, Doable, stage = "list", AskedOutput # AskedInput,
         NEW done, Holds(done)
  PROVE  /\ Input = Source /\ Source \in Seq(Lines) /\ AskedMode = "disassemble"
         /\ Converted = [i \in DOMAIN Source |->
              Line(IF Source[i].of \in Known THEN "asm" ELSE "word", Source[i].of)]
         /\ \A i \in DOMAIN Source : Source[i].form = "hex"
<1>1. AskedMode = "disassemble" /\ options.input = AskedInput
  BY DEF ModeInv
<1>2. AskedInput \in DOMAIN before /\ Source \in Seq(Lines)
  BY SourceTyped DEF Doable
<1>3. Input = Source
  BY <1>1, <1>2 DEF Input, Source, Holds, Updated
<1>4. \A i \in DOMAIN Source : Source[i].form = "hex"
  BY <1>1 DEF Doable, Convertible
<1> QED
  BY <1>1, <1>2, <1>3, <1>4 DEF Converted

LEMMA ListLineKeeps ==
  ASSUME DriverTypes, ModeInv, BeforeTyped, ListingInv, ListLine
  PROVE  ListingInv'
<1>1. /\ stage = "list" /\ stage' = stage /\ position \in Nat /\ position' = position + 1
      /\ UNCHANGED <<argv, before, stream, diskFull>>
      /\ options.output = AskedOutput
  BY DEF ListLine, DriverTypes, ModeInv
<1> SUFFICES ASSUME Doable, AskedOutput # AskedInput
             PROVE  stream' /\ \E done : /\ Holds(done)'
                                         /\ Len(done) = position' /\ position' <= Len(Source)
                                         /\ \A i \in 1..position' : done[i] = Converted[i]
  <2>1. Doable' <=> Doable
    BY <1>1, SameAsked DEF Doable
  <2>2. /\ Converted' = Converted /\ Source' = Source /\ AskedInput' = AskedInput
        /\ AskedOutput' = AskedOutput
    BY <1>1, SameAsked
  <2> QED
    BY <1>1, <2>1, <2>2 DEF ListingInv
<1>2. PICK done : /\ Holds(done)
                  /\ Len(done) = position /\ position <= Len(Source)
                  /\ \A i \in 1..position : done[i] = Converted[i]
  BY <1>1 DEF ListingInv
<1>3. stream
  BY <1>1 DEF ListingInv
<1>4. /\ Input = Source /\ Source \in Seq(Lines)
      /\ Converted = [i \in DOMAIN Source |->
           Line(IF Source[i].of \in Known THEN "asm" ELSE "word", Source[i].of)]
      /\ \A i \in DOMAIN Source : Source[i].form = "hex"
  BY <1>1, <1>2, ListedInput
<1>5. position + 1 <= Len(Source) /\ position + 1 \in DOMAIN Source
  BY <1>1, <1>4 DEF ListLine
<1>6. PICK line \in Listings(Source[position + 1]) : files' = Written(line)
  BY <1>4 DEF ListLine
<1>7. line = Converted[position + 1]
  BY <1>4, <1>5, <1>6 DEF Listings
<1>8. line \in Lines
  <2>1. Source[position + 1] \in Lines
    BY <1>4, <1>5
  <2> QED
    BY <1>6, <2>1, ListingsTyped
<1>9. Holds(Append(done, line))'
  BY <1>1, <1>2, <1>3, <1>6, <1>8, WriteMore
<1>10. /\ Len(Append(done, line)) = position + 1
       /\ \A i \in 1..position + 1 : Append(done, line)[i] = Converted[i]
  <2>1. done \in Seq(Lines)
    BY <1>2 DEF Holds
  <2>2. ASSUME NEW i \in 1..position + 1 PROVE Append(done, line)[i] = Converted[i]
    <3>1. CASE i = position + 1
      BY <1>1, <1>2, <1>7, <1>8, <2>1, <3>1
    <3>2. CASE i # position + 1
      <4>1. i \in 1..position
        BY <1>1, <3>2
      <4> QED
        BY <1>2, <1>8, <2>1, <4>1
    <3> QED
      BY <3>1, <3>2
  <2> QED
    BY <1>2, <1>8, <2>1, <2>2
<1> QED
  BY <1>1, <1>3, <1>5, <1>9, <1>10

\* The translation is finished.
LEMMA SucceedTranslates ==
  ASSUME ModeInv, BeforeTyped, WritingInv, ListingInv, Succeed
  PROVE  TranslatesWhatItCan'
<1>1. /\ status' = 0 /\ UNCHANGED <<files, argv, before, diskFull>>
      /\ \/ stage = "write" /\ pending = <<>>
         \/ stage = "list" /\ position = Len(Input)
  BY DEF Succeed, Exit
<1> SUFFICES ASSUME Doable, ~(AskedMode = "disassemble" /\ AskedOutput = AskedInput)
             PROVE  files = Updated(before, AskedOutput, Converted)
  <2>1. /\ Convertible' <=> Convertible
        /\ AskedOutput' = AskedOutput /\ AskedInput' = AskedInput /\ AskedMode' = AskedMode
        /\ Converted' = Converted
    BY <1>1, SameAsked
  <2> QED
    BY <1>1, <2>1 DEF TranslatesWhatItCan, Doable
<1>2. CASE stage = "write" /\ pending = <<>>
  <2>1. PICK done : Holds(done) /\ done \o pending = Converted
    BY <1>2 DEF WritingInv
  <2>2. done = Converted
    BY <1>2, <2>1 DEF Holds
  <2> QED
    BY <2>1, <2>2 DEF Holds
<1>3. CASE stage = "list" /\ position = Len(Input)
  <2>1. AskedOutput # AskedInput
    BY <1>3 DEF ModeInv
  <2>2. PICK done : /\ Holds(done) /\ Len(done) = position
                    /\ \A i \in 1..position : done[i] = Converted[i]
    BY <1>3, <2>1 DEF ListingInv
  <2>3. /\ Input = Source /\ Source \in Seq(Lines)
        /\ Converted = [i \in DOMAIN Source |->
             Line(IF Source[i].of \in Known THEN "asm" ELSE "word", Source[i].of)]
    BY <1>3, <2>1, <2>2, ListedInput
  <2>4. /\ DOMAIN Source = 1..position /\ done = [i \in 1..position |-> done[i]]
        /\ DOMAIN Converted = 1..position
    BY <1>3, <2>2, <2>3 DEF Holds
  <2>5. done = Converted
    BY <2>2, <2>3, <2>4
  <2> QED
    BY <2>2, <2>5 DEF Holds
<1> QED
  BY <1>1, <1>2, <1>3

\* A command line that is refused, or that asks for help, is not well formed.
LEMMA NotWellFormed ==
  ASSUME ArgumentsInv, ParseInv, Help \/ UnknownOption \/ NoInput
  PROVE  ~WellFormed
<1>1. /\ stage = "options" /\ argv \in Seq(Arguments) /\ parsed \in Nat /\ Len(argv) \in Nat
  BY DEF Help, UnknownOption, NoInput, Reading, ArgumentsInv
<1>2. CASE Help \/ UnknownOption
  <2>1. /\ parsed < Len(argv) /\ ~IsName[parsed + 1]
        /\ \/ argv[parsed + 1].opt \in {"h", "unknown", "save"}
           \/ argv[parsed + 1].opt = "o" /\ parsed + 1 = Len(argv)
    BY <1>1, <1>2 DEF Help, UnknownOption, Reading, Argument, ParseInv
  <2>2. parsed + 1 \in DOMAIN argv
    BY <1>1, <2>1
  <2>3. \/ parsed + 1 \in Given({"h", "unknown", "save"})
        \/ Len(argv) \in Given({"o"})
    BY <2>1, <2>2 DEF Given
  <2> QED
    BY <2>3 DEF WellFormed
<1>3. CASE NoInput
  <2>1. parsed = Len(argv) /\ options.input = NoPath
    BY <1>3 DEF NoInput
  <2>2. options.input = IF Given({"none"}) = {} THEN NoPath ELSE AskedInput
    BY <1>1, <2>1, AskedAtEnd
  <2> QED
    BY <2>1, <2>2 DEF WellFormed
<1> QED
  BY <1>2, <1>3

LEMMA InvocationTranslation ==
  ASSUME ArgumentsInv, DriverTypes, FailureInv, ParseInv, ModeInv, TranslationInv, Invocation
  PROVE  TranslationInv'
<1>0. UNCHANGED <<argv, before>> /\ BeforeTyped'
  BY InvocationMode DEF TranslationInv, BeforeTyped
<1>1. CASE TakeOutput \/ TakeSetting \/ TakeInput \/ ChooseMode
  <2>1. /\ stage = "options" /\ position' = position
        /\ stage' \in {"options", "assemble", "disassemble", "compile"}
    BY <1>1 DEF TakeOutput, TakeSetting, TakeInput, Taking, Reading, ChooseMode, Mode
  <2> QED
    BY <1>0, <2>1 DEF TranslationInv, WritingInv, ListingInv, TranslatesWhatItCan
<1>2. CASE Help \/ UnknownOption \/ NoInput
  <2>1. stage' = "ended" /\ ~WellFormed
    BY <1>2, NotWellFormed DEF Help, UnknownOption, NoInput, Refuse, Exit
  <2>2. ~WellFormed'
    BY <1>0, <2>1, SameAsked
  <2> QED
    BY <1>0, <2>1, <2>2 DEF TranslationInv, WritingInv, ListingInv, TranslatesWhatItCan
<1>3. CASE NoText \/ RejectText \/ CannotDisassemble \/ CannotCompile
  <2>1. stage' = "ended" /\ diskFull' = diskFull
    BY <1>3 DEF NoText, RejectText, CannotDisassemble, CannotCompile, Refuse, Exit
  <2>2. ~Doable
    BY <1>3, NotRefused DEF TranslationInv
  <2>3. ~Doable'
    BY <1>0, <2>1, <2>2, SameAsked DEF Doable
  <2> QED
    BY <1>0, <2>1, <2>3 DEF TranslationInv, WritingInv, ListingInv, TranslatesWhatItCan, Doable
<1>4. CASE Assemble \/ Compile
  <2>1. stage' = "write" /\ diskFull' = diskFull
    BY <1>4 DEF Assemble, Compile, Open
  <2>2. /\ Doable' <=> Doable
        /\ Converted' = Converted /\ AskedOutput' = AskedOutput
    BY <1>0, <2>1, SameAsked DEF Doable
  <2>3. ASSUME Doable
        PROVE  stream' /\ \E done : Holds(done)' /\ done \o pending' = Converted
    <3>1. /\ stream' /\ pending' = Converted /\ Converted \in Seq(Lines)
          /\ files' = Updated(before, AskedOutput, <<>>)
      BY <1>4, <2>3, StartsWriting DEF TranslationInv
    <3>2. Holds(<<>>)'
      BY <1>0, <2>2, <3>1 DEF Holds
    <3>3. <<>> \o pending' = Converted
      BY <3>1
    <3> QED
      BY <3>1, <3>2, <3>3
  <2> QED
    BY <1>0, <2>1, <2>2, <2>3 DEF TranslationInv, WritingInv, ListingInv, TranslatesWhatItCan
<1>5. CASE Disassemble
  <2>1. /\ stage = "disassemble" /\ stage' = "list" /\ diskFull' = diskFull /\ stream' = Writable
        /\ Writable /\ files' = Updated(files, options.output, <<>>) /\ position' = position
    BY <1>5 DEF Disassemble, Open
  <2>2. /\ files = before /\ options.output = AskedOutput
    BY <2>1, ModeInput
  <2>3. Doable' <=> Doable
    BY <1>0, <2>1, SameAsked DEF Doable
  <2>4. /\ Converted' = Converted /\ AskedOutput' = AskedOutput /\ Source' = Source
        /\ AskedInput' = AskedInput
    BY <1>0, SameAsked
  <2>5. Holds(<<>>)'
    BY <1>0, <2>1, <2>2, <2>4 DEF Holds
  <2>6. ASSUME Doable
        PROVE  /\ Len(<<>>) = position' /\ position' <= Len(Source)
               /\ \A i \in 1..position' : <<>>[i] = Converted[i]
    <3>1. Source \in Seq(Lines)
      BY <2>6, SourceTyped DEF Doable, TranslationInv
    <3>2. position' = 0 /\ 1..position' = {}
      BY <2>1 DEF TranslationInv
    <3> QED
      BY <3>1, <3>2
  <2> QED
    BY <1>0, <2>1, <2>3, <2>4, <2>5, <2>6
       DEF TranslationInv, WritingInv, ListingInv, TranslatesWhatItCan
<1>6. CASE WriteLine
  <2>1. stage' = "write"
    BY <1>6 DEF WriteLine
  <2> QED
    BY <1>0, <1>6, <2>1, WriteLineKeeps DEF TranslationInv, ListingInv, TranslatesWhatItCan
<1>7. CASE ListLine
  <2>1. stage' = "list"
    BY <1>7 DEF ListLine
  <2> QED
    BY <1>0, <1>7, <2>1, ListLineKeeps DEF TranslationInv, WritingInv, TranslatesWhatItCan
<1>8. CASE DiskFull
  <2>1. stage' \in {"write", "list"} /\ diskFull'
    BY <1>8 DEF DiskFull
  <2> QED
    BY <1>0, <2>1 DEF TranslationInv, WritingInv, ListingInv, Doable, TranslatesWhatItCan
<1>9. CASE Succeed
  <2>1. stage' = "ended"
    BY <1>9 DEF Succeed, Exit
  <2> QED
    BY <1>0, <1>9, <2>1, SucceedTranslates DEF TranslationInv, WritingInv, ListingInv
<1> QED
  BY <1>1, <1>2, <1>3, <1>4, <1>5, <1>6, <1>7, <1>8, <1>9 DEF Invocation

-----------------------------------------------------------------------------
(* The translation theorem, for fpgagpu-llc alone and with the script.     *)

TranslatorInv == ParseInv /\ ModeInv /\ TranslationInv

LEMMA BeginTranslator ==
  ASSUME DriverTypes, NEW arguments \in Seq(Arguments), Begin(arguments), UNCHANGED files
  PROVE  TranslatorInv'
<1>1. ParseInv'
  BY BeginParse
<1>2. stage' = "options" /\ position' = 0 /\ before' = files
  BY DEF Begin
<1>3. BeforeTyped'
  BY <1>2 DEF BeforeTyped, DriverTypes, TypeOK
<1> QED
  BY <1>1, <1>2, <1>3
     DEF TranslatorInv, ModeInv, TranslationInv, WritingInv, ListingInv, TranslatesWhatItCan

\* A step that keeps the files of the last invocation, which has ended.
LEMMA IdleTranslator ==
  ASSUME TranslatorInv, stage' = "idle", UNCHANGED before
  PROVE  TranslatorInv'
  BY DEF TranslatorInv, ParseInv, ModeInv, TranslationInv, WritingInv, ListingInv,
         TranslatesWhatItCan, BeforeTyped

LEMMA SameTranslator ==
  ASSUME TranslatorInv, UNCHANGED driverVars
  PROVE  TranslatorInv'
<1>1. UNCHANGED <<argv, before, stage, options, parsed, position, stream, status, diskFull,
                  pending, files>>
  BY DEF driverVars
<1>2. /\ AskedInput' = AskedInput /\ AskedOutput' = AskedOutput
      /\ AskedFormat' = AskedFormat /\ AskedOptimize' = AskedOptimize
      /\ AskedMode' = AskedMode /\ Source' = Source /\ Converted' = Converted
      /\ Convertible' <=> Convertible
      /\ WellFormed' <=> WellFormed
  BY <1>1, SameAsked
<1>3. ParseInv'
  <2>1. IsName' = IsName /\ SaidTo(parsed)' = SaidTo(parsed)
        /\ GivenTo({"h", "unknown", "save"}, parsed)' = GivenTo({"h", "unknown", "save"}, parsed)
    BY <1>1, SaidPrimed, SameNames
  <2> QED
    BY <1>1, <2>1 DEF TranslatorInv, ParseInv
<1>4. ModeInv'
  BY <1>1, <1>2 DEF TranslatorInv, ModeInv
<1>5. BeforeTyped' /\ WritingInv' /\ ListingInv'
  BY <1>1, <1>2 DEF TranslatorInv, TranslationInv, BeforeTyped, WritingInv, ListingInv, Doable,
                    Holds
<1>6. TranslatesWhatItCan'
  BY <1>1, <1>2 DEF TranslatorInv, TranslationInv, TranslatesWhatItCan
<1> QED
  BY <1>1, <1>3, <1>4, <1>5, <1>6 DEF TranslatorInv, TranslationInv

LEMMA InitTranslator == Init => TranslatorInv
  BY FilesAssumption
     DEF Init, TranslatorInv, ParseInv, ModeInv, TranslationInv, WritingInv, ListingInv,
         TranslatesWhatItCan, BeforeTyped

LEMMA InvocationTranslator ==
  ASSUME ArgumentsInv, DriverTypes, FailureInv, TranslatorInv, Invocation
  PROVE  TranslatorInv'
  BY InvocationParse, InvocationMode, InvocationTranslation DEF TranslatorInv

\* An invocation that is given a file its mode is for, with a well-formed
\* command line, leaves in the output the whole translation of what the input
\* held when it was started, and changes no other file; unless the disk was
\* full, the output cannot be written, or a disassembly writes its input.
THEOREM WhatCanBeTranslatedIs == Spec => []TranslatesWhatItCan
<1>1. DriverTypes /\ ArgumentsInv /\ FailureInv /\ TranslatorInv /\ [Next]_driverVars
        => TranslatorInv'
  <2> SUFFICES ASSUME DriverTypes, ArgumentsInv, FailureInv, TranslatorInv, [Next]_driverVars
               PROVE  TranslatorInv'
    OBVIOUS
  <2>1. CASE Start
    <3>1. PICK arguments \in CommandLines : Begin(arguments)
      BY <2>1 DEF Start
    <3>2. arguments \in Seq(Arguments) /\ UNCHANGED files
      BY <2>1, CommandLinesAssumption DEF Start
    <3> QED
      BY <3>1, <3>2, BeginTranslator
  <2>2. CASE Invocation
    BY <2>2, InvocationTranslator
  <2>3. CASE UNCHANGED driverVars
    BY <2>3, SameTranslator
  <2> QED
    BY <2>1, <2>2, <2>3 DEF Next
<1>2. TranslatorInv => TranslatesWhatItCan
  BY DEF TranslatorInv, TranslationInv
<1> QED
  BY <1>1, <1>2, InitTranslator, DriverInvariant, FailureInvariant, PTL DEF Spec

\* So it is when the script and its user call fpgagpu-llc in turn.
THEOREM ScriptTranslatesWhatCanBe == ScriptSpec => []TranslatesWhatItCan
<1>1. ScriptInit => TranslatorInv
  BY InitTranslator DEF ScriptInit
<1>2. ScriptInv /\ DriverTypes /\ FailureInv /\ TranslatorInv /\ [ScriptNext]_vars
        => TranslatorInv'
  <2> SUFFICES ASSUME ScriptInv, DriverTypes, FailureInv, TranslatorInv, [ScriptNext]_vars
               PROVE  TranslatorInv'
    OBVIOUS
  <2>1. CASE UserStart
    <3>1. PICK arguments \in CommandLines : Begin(arguments)
      BY <2>1 DEF UserStart, Start
    <3>2. arguments \in Seq(Arguments) /\ UNCHANGED files
      BY <2>1, CommandLinesAssumption DEF UserStart, Start
    <3> QED
      BY <3>1, <3>2, BeginTranslator
  <2>2. CASE CallLlc
    <3>1. Begin(LlcLine) /\ UNCHANGED files
      BY <2>2 DEF CallLlc
    <3>2. LlcLine \in Seq(Arguments)
      BY LlcLineTyped DEF ScriptInv
    <3>3. PICK arguments : arguments = LlcLine /\ Begin(arguments)
      BY <3>1
    <3> QED
      BY <3>1, <3>2, <3>3, BeginTranslator
  <2>3. CASE Invocation
    BY <2>3, InvocationTranslator DEF ScriptInv
  <2>4. CASE ScriptStart
    BY <2>4, IdleTranslator DEF ScriptStart
  <2>5. CASE Shifts
    <3>1. stage = "idle" /\ stage' = "idle" /\ UNCHANGED before
      BY <2>5, ShiftsCall
         DEF ScriptInv, Shifts, ShiftOutput, ShiftSetting, ShiftInput, ShiftExtra, Shift,
             OthersUnchanged
    <3> QED
      BY <3>1, IdleTranslator
  <2>6. CASE Exits
    <3>1. PICK code, left : ScriptExit(code, left)
      BY <2>6, ExitsEnd
    <3> QED
      BY <3>1, IdleTranslator DEF ScriptExit, OthersUnchanged
  <2>7. CASE Mktemp \/ Clang \/ SaveTemps
    <3>1. stage = "idle" /\ stage' = "idle" /\ UNCHANGED before
      BY <2>7 DEF Mktemp, Clang, SaveTemps, ScriptInv, OthersUnchanged
    <3> QED
      BY <3>1, IdleTranslator
  <2>8. CASE UNCHANGED vars
    BY <2>8, SameTranslator DEF vars
  <2> QED
    BY <2>1, <2>2, <2>3, <2>4, <2>5, <2>6, <2>7, <2>8 DEF ScriptNext, Shifts, Exits
<1>3. TranslatorInv => TranslatesWhatItCan
  BY DEF TranslatorInv, TranslationInv
<1> QED
  BY <1>1, <1>2, <1>3, ScriptInvariant, ScriptTypesInvariant, ScriptFailureInvariant, PTL
     DEF ScriptSpec

=============================================================================
