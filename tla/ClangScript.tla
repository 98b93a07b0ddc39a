---------------------------- MODULE ClangScript ----------------------------
(***************************************************************************)
(* fpgagpu-clang (scripts/fpgagpu-clang): clang on a C source into a       *)
(* temporary file, that file kept beside the output when asked, then       *)
(* fpgagpu-llc on it.  set -e ends the script at the first command that    *)
(* fails, and a trap removes the temporary file however it ends.           *)
(*                                                                         *)
(* A session has invocations of the script and of fpgagpu-llc itself.      *)
(* Clang is external: it makes one module of a source, or fails for any    *)
(* reason, the arguments the script passes on to it among them.            *)
(***************************************************************************)
EXTENDS Driver

CONSTANTS
  ScriptLines,  \* the script's command lines, arguments as in CommandLines
  TmpLl,        \* what mktemp returns
  FrontEnd      \* source -> the IR module clang makes of it

ASSUME ScriptLinesAssumption == ScriptLines \subseteq Seq(Arguments)

\* A source that is no program is none of them.
ASSUME FrontEndAssumption ==
  DOMAIN FrontEnd \subseteq Sources /\ \A s \in DOMAIN FrontEnd : FrontEnd[s] \in Modules

\* A path that ends in .ll and that nobody else uses.
ASSUME TmpLlAssumption ==
  /\ TmpLl \in Paths /\ Len(TmpLl) > 1 /\ TmpLl[Len(TmpLl)] = "ll"
  /\ TmpLl \notin Unwritable
  /\ \A f \in InitialFiles : TmpLl \notin DOMAIN f
  /\ \A l \in CommandLines \cup ScriptLines : \A i \in DOMAIN l : l[i].path # TmpLl

VARIABLES
  script,        \* what the script does next; "none", "ended" when it does not run
  call,          \* its arguments, and what they said
  shifted,       \* how many of them have been read
  scriptStatus,
  scriptBefore   \* history: the files when it was started

scriptVars == <<script, call, shifted, scriptStatus, scriptBefore>>

vars == <<driverVars, scriptVars>>

Call(arguments) ==
  [argv |-> arguments, input |-> NoPath, output |-> NoPath, format |-> "hex",
   optimize |-> TRUE, save |-> FALSE]

ScriptInit ==
  /\ Init
  /\ script = "none"
  /\ call = Call(<<>>) /\ shifted = 0
  /\ scriptStatus = 1
  /\ scriptBefore = files

NoScript == script \in {"none", "ended"}

\* fpgagpu-llc called by the user.
UserStart == NoScript /\ Start /\ script' = "none" /\ UNCHANGED <<call, shifted, scriptStatus, scriptBefore>>

ScriptStart ==
  /\ NoScript /\ Quiet
  /\ runs < MaxRuns /\ runs' = runs + 1
  /\ \E arguments \in ScriptLines : call' = Call(arguments)
  /\ script' = "options" /\ shifted' = 0
  /\ scriptBefore' = files
  /\ stage' = "idle"
  /\ UNCHANGED <<files, argv, parsed, options, pending, position, stream, status,
                 before, diskFull, scriptStatus>>

Without(map, path) == [p \in DOMAIN map \ {path} |-> map[p]]

OthersUnchanged ==
  UNCHANGED <<argv, parsed, options, pending, position, stream, status, before, diskFull, runs>>

\* The trap set for the last line of the script only.
ScriptExitFaulty(code, left) ==
  /\ script' = "ended" /\ scriptStatus' = code
  /\ files' = IF code = 0 THEN Without(left, TmpLl) ELSE left
  /\ stage' = "idle" /\ OthersUnchanged
  /\ UNCHANGED <<call, shifted, scriptBefore>>

\* The end of the script, the files being what is left.
ScriptExit(code, left) ==
  /\ script' = "ended" /\ scriptStatus' = code
  /\ files' = Without(left, TmpLl)
  /\ stage' = "idle" /\ OthersUnchanged
  /\ UNCHANGED <<call, shifted, scriptBefore>>

-----------------------------------------------------------------------------
(* Its options.                                                            *)

\* fpgagpu-llc or clang is not there.
ToolMissing == script = "options" /\ shifted = 0 /\ ScriptExit(1, files)

Shifting == script = "options" /\ shifted < Len(call.argv)
Shifted  == call.argv[shifted + 1]

Shift(count) ==
  /\ shifted' = shifted + count
  /\ UNCHANGED <<files, script, scriptStatus, scriptBefore, stage>> /\ OthersUnchanged

ShiftOutput ==
  /\ Shifting /\ Shifted.opt = "o" /\ shifted + 1 < Len(call.argv)
  /\ call' = [call EXCEPT !.output = call.argv[shifted + 2].path]
  /\ Shift(2)

ShiftSetting ==
  /\ Shifting /\ Shifted.opt \in DOMAIN Formats \cup {"O0", "O2", "save"}
  /\ call' = CASE Shifted.opt \in DOMAIN Formats -> [call EXCEPT !.format = Formats[Shifted.opt]]
               [] Shifted.opt = "save"           -> [call EXCEPT !.save = TRUE]
               [] Shifted.opt \in {"O0", "O2"}   -> [call EXCEPT !.optimize = (Shifted.opt = "O2")]
  /\ Shift(1)

ShiftInput ==
  /\ Shifting /\ Shifted.opt = "none" /\ call.input = NoPath
  /\ call' = [call EXCEPT !.input = Shifted.path]
  /\ Shift(1)

\* Everything else is for clang.
ShiftExtra ==
  /\ Shifting
  /\ \/ Shifted.opt \in {"a", "d", "unknown"}
     \/ Shifted.opt = "none" /\ call.input # NoPath
  /\ Shift(1) /\ UNCHANGED call

ScriptHelp == Shifting /\ Shifted.opt = "h" /\ ScriptExit(0, files)

\* shift 2 fails when there is nothing after -o.
ShiftFails == Shifting /\ Shifted.opt = "o" /\ shifted + 1 = Len(call.argv) /\ ScriptExit(1, files)

NoSource ==
  script = "options" /\ shifted = Len(call.argv) /\ call.input = NoPath /\ ScriptExit(1, files)

-----------------------------------------------------------------------------
(* Its steps.                                                              *)

To(next) == script' = next /\ UNCHANGED <<shifted, scriptStatus, scriptBefore>>

\* The trap is set after it.
MktempFails ==
  script = "options" /\ shifted = Len(call.argv) /\ call.input # NoPath /\ ScriptExit(1, files)

Mktemp ==
  /\ script = "options" /\ shifted = Len(call.argv) /\ call.input # NoPath
  /\ call' = [call EXCEPT !.output = IF @ # NoPath THEN @
                ELSE Append(Base(call.input), Extension[call.format])]
  /\ files' = Updated(files, TmpLl, <<>>)
  /\ To("clang") /\ OthersUnchanged /\ UNCHANGED stage

Clang ==
  /\ script = "clang"
  /\ call.input \in DOMAIN files /\ files[call.input] # <<>>
  /\ files[call.input][1].form = "c" /\ files[call.input][1].of \in DOMAIN FrontEnd
  /\ files' = Updated(files, TmpLl, <<Line("ir", FrontEnd[files[call.input][1].of])>>)
  /\ To(IF call.save THEN "save" ELSE "llc")
  /\ OthersUnchanged /\ UNCHANGED <<stage, call>>

ClangFails == script = "clang" /\ ScriptExit(1, files)

\* The copy beside the source.
KeptFaulty == Append(Base(call.input), "ll")

Kept == Append(Base(call.output), "ll")

SaveTemps ==
  /\ script = "save" /\ Kept \notin Unwritable
  /\ files' = Updated(files, Kept, files[TmpLl])
  /\ To("llc")
  /\ OthersUnchanged /\ UNCHANGED <<stage, call>>

\* The copy cannot be opened, or is cut short.
CopyFails ==
  /\ script = "save"
  /\ \E left \in {files} \cup (IF Kept \in Unwritable THEN {} ELSE {Updated(files, Kept, <<>>)}) :
       ScriptExit(1, left)

Option(opt) == [opt |-> opt, path |-> <<opt>>]
Operand(path) == [opt |-> "none", path |-> path]

FormatOption == CHOOSE opt \in DOMAIN Formats : Formats[opt] = call.format

\* The optimisation level for clang only.
LlcLineFaulty == <<Option(FormatOption), Option("o"), Operand(call.output), Operand(TmpLl)>>

LlcLine ==
  <<Option(FormatOption), Option(IF call.optimize THEN "O2" ELSE "O0"),
    Option("o"), Operand(call.output), Operand(TmpLl)>>

CallLlc ==
  /\ script = "llc"
  /\ Begin(LlcLine)
  /\ To("wait") /\ UNCHANGED <<files, runs, call>>

LlcEnds == script = "wait" /\ stage = "ended" /\ ScriptExit(status, files)

ScriptNext ==
  \/ UserStart \/ ScriptStart
  \/ Invocation /\ UNCHANGED scriptVars
  \/ ToolMissing \/ ShiftOutput \/ ShiftSetting \/ ShiftInput \/ ShiftExtra
  \/ ScriptHelp \/ ShiftFails \/ NoSource
  \/ Mktemp \/ MktempFails \/ Clang \/ ClangFails \/ SaveTemps \/ CopyFails \/ CallLlc \/ LlcEnds

ScriptSpec == ScriptInit /\ [][ScriptNext]_vars

-----------------------------------------------------------------------------
\* However the script ended, its temporary file is gone.
TempRemoved == NoScript => TmpLl \notin DOMAIN files

\* When it reports success, the output holds the code of the module clang made,
\* at the level and in the format asked for.
ScriptCompiles ==
  script = "ended" /\ scriptStatus = 0 /\ shifted = Len(call.argv) /\ ~diskFull =>
    /\ call.input \in DOMAIN scriptBefore
    /\ files[call.output] =
         InForm(call.format, Code[<<FrontEnd[scriptBefore[call.input][1].of], call.optimize>>])

\* It changes the output, and that only when it succeeds, and the IR file
\* beside the output if that was asked for.
ScriptTouchesItsOwn ==
  script = "ended" =>
    \A p \in DOMAIN files \cup DOMAIN scriptBefore :
      \/ p = call.output /\ scriptStatus = 0
      \/ p = Append(Base(call.output), "ll") /\ call.save
      \/ p \in DOMAIN files \cap DOMAIN scriptBefore /\ files[p] = scriptBefore[p]

=============================================================================
