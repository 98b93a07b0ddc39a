------------------------------- MODULE Driver -------------------------------
(***************************************************************************)
(* fpgagpu-llc (src/main.cpp and CompilerBackend::compileFile): a session  *)
(* of invocations, one after the other, over files that persist.  Each     *)
(* reads its command line argument by argument, then compiles, assembles   *)
(* or disassembles one file into another.                                  *)
(*                                                                         *)
(* A file is a sequence of lines [form, of].  The forms are                *)
(*   "c", "ir"     a source file and an IR module, one line for the whole; *)
(*   "asm", "hex", "bin"   an instruction as text, as a word in digits, as *)
(*                 four bytes;                                             *)
(*   "word"        the line .word that disassemble makes of a word that is *)
(*                 no instruction;                                         *)
(*   "note"        a comment.                                              *)
(* A path is the sequence of its pieces between dots.                      *)
(***************************************************************************)
EXTENDS Naturals, Sequences

CONSTANTS
  Pieces,        \* what file names are made of
  CommandLines,  \* the command lines, sequences of arguments [opt, path]
  InitialFiles,  \* the files a session may begin with: path -> lines
  Unwritable,    \* paths that cannot be opened for writing
  Words,         \* machine words
  Known,         \* those that are instructions
  HexLike,       \* those whose mnemonic begins with a hexadecimal digit
  Stray,         \* what stoul makes of such a mnemonic
  Sources,       \* what a source file may hold
  Modules,       \* what an IR file may hold
  Code,          \* <<module, optimize>> -> the words of its functions
  Declarations,  \* modules without a function that has a body
  TooLarge,      \* <<module, optimize>> that run out of registers
  MaxRuns        \* the number of invocations in a session

Formats == [s |-> "asm", x |-> "hex", b |-> "bin"]
Settings == {"O0", "O2", "a", "d"} \cup DOMAIN Formats
OptionNames == {"none", "o", "h", "save", "unknown"} \cup Settings

Extension == [asm |-> "s", hex |-> "hex", bin |-> "bin"]

Paths == Seq(Pieces)
NoPath == <<>>
Arguments == [opt : OptionNames, path : Paths]

\* An option can stand where a file name is expected.
ASSUME PiecesAssumption == OptionNames \cup {"s", "hex", "bin", "ll"} \subseteq Pieces

ASSUME CommandLinesAssumption == CommandLines \subseteq Seq(Arguments)

NoWord == "no word"
Reject == "reject"

ASSUME WordsAssumption ==
  /\ Known \subseteq Words /\ HexLike \subseteq Known
  /\ Stray \in Words \ Known
  /\ {NoWord, Reject} \cap Words = {}
  /\ MaxRuns \in Nat

ASSUME CodeAssumption == Code \in [Modules \X BOOLEAN -> Seq(Words)]

Lines == [form : {"c"}, of : Sources] \cup [form : {"ir"}, of : Modules]
           \cup [form : {"asm", "hex", "bin", "word"}, of : Words]
           \cup [form : {"note"}, of : {NoWord}]

\* No file has an empty name.
ASSUME FilesAssumption ==
  \A f \in InitialFiles :
    /\ NoPath \notin DOMAIN f
    /\ \A p \in DOMAIN f : f[p] \in Seq(Lines)

VARIABLES
  files,
  argv,
  parsed,    \* how many of argv have been read
  options,   \* what they said: [input, output, format, optimize, assemble, disasm]
  stage,
  pending,   \* the lines that are still to be written
  position,  \* how many lines of the input have been disassembled
  stream,    \* outFile is open and nothing has failed
  status,    \* the exit status of the last invocation
  before,    \* history: the files when it was started
  diskFull,  \* history: it met a full disk
  runs

driverVars == <<files, argv, parsed, options, stage, pending, position, stream, status,
                before, diskFull, runs>>

Line(form, of) == [form |-> form, of |-> of]

\* Files with the lines at path set.
Updated(map, path, lines) ==
  [p \in DOMAIN map \cup {path} |-> IF p = path THEN lines ELSE map[p]]

Defaults == [input |-> NoPath, output |-> NoPath, format |-> "hex", optimize |-> TRUE,
             assemble |-> FALSE, disasm |-> FALSE]

Init ==
  /\ files \in InitialFiles
  /\ argv = <<>> /\ parsed = 0
  /\ options = Defaults
  /\ stage = "idle"
  /\ pending = <<>> /\ position = 0
  /\ stream = FALSE
  /\ status = 1
  /\ before = files
  /\ diskFull = FALSE
  /\ runs = 0

-----------------------------------------------------------------------------
(* The command line.                                                       *)

\* The variables of main with their initial values.
Begin(arguments) ==
  /\ argv' = arguments /\ parsed' = 0
  /\ options' = Defaults
  /\ stage' = "options"
  /\ pending' = <<>> /\ position' = 0
  /\ stream' = FALSE
  /\ before' = files
  /\ diskFull' = FALSE
  /\ UNCHANGED status

\* Between two invocations.
Quiet == stage \in {"idle", "ended"}

Start ==
  /\ Quiet
  /\ runs < MaxRuns /\ runs' = runs + 1
  /\ \E arguments \in CommandLines : Begin(arguments)
  /\ UNCHANGED files

Exit(code) ==
  /\ stage' = "ended" /\ status' = code
  /\ UNCHANGED <<argv, parsed, options, pending, position, stream, before, diskFull, runs>>

\* A failure after the output was opened.
RefuseFaulty == Exit(1) /\ files' = Updated(files, options.output, <<>>)

\* A failure.
Refuse == Exit(1) /\ UNCHANGED files

Applied(opt) ==
  CASE opt \in DOMAIN Formats -> [options EXCEPT !.format = Formats[opt]]
    [] opt \in {"O0", "O2"}   -> [options EXCEPT !.optimize = (opt = "O2")]
    [] opt = "a"              -> [options EXCEPT !.assemble = TRUE]
    [] opt = "d"              -> [options EXCEPT !.disasm = TRUE]

Reading == stage = "options" /\ parsed < Len(argv)
Argument == argv[parsed + 1]

Taking(count) ==
  /\ parsed' = parsed + count
  /\ UNCHANGED <<files, argv, stage, pending, position, stream, status, before, diskFull, runs>>

Help == Reading /\ Argument.opt = "h" /\ Exit(0) /\ UNCHANGED files

\* -o takes whatever follows, an option too.
TakeOutput ==
  /\ Reading /\ Argument.opt = "o" /\ parsed + 1 < Len(argv)
  /\ options' = [options EXCEPT !.output = argv[parsed + 2].path]
  /\ Taking(2)

TakeSetting ==
  /\ Reading /\ Argument.opt \in Settings
  /\ options' = Applied(Argument.opt)
  /\ Taking(1)

TakeInput ==
  /\ Reading /\ Argument.opt = "none"
  /\ options' = [options EXCEPT !.input = Argument.path]
  /\ Taking(1)

\* So is an -o that nothing follows.
UnknownOption ==
  /\ Reading
  /\ \/ Argument.opt \in {"unknown", "save"}
     \/ Argument.opt = "o" /\ parsed + 1 = Len(argv)
  /\ Refuse

\* What comes before the last dot, wherever that is.
Base(path) == IF Len(path) > 1 THEN SubSeq(path, 1, Len(path) - 1) ELSE path

\* -d before -a.
ModeFaulty(o) == IF o.disasm THEN "disassemble" ELSE IF o.assemble THEN "assemble" ELSE "compile"

Mode(o) == IF o.assemble THEN "assemble" ELSE IF o.disasm THEN "disassemble" ELSE "compile"

ChooseMode ==
  /\ stage = "options" /\ parsed = Len(argv)
  /\ options.input # NoPath
  /\ stage' = Mode(options)
  /\ options' = [options EXCEPT !.output = IF @ # NoPath THEN @
                   ELSE Append(Base(options.input), Extension[options.format])]
  /\ UNCHANGED <<files, argv, parsed, pending, position, stream, status, before, diskFull, runs>>

\* Without arguments too.
NoInput == stage = "options" /\ parsed = Len(argv) /\ options.input = NoPath /\ Refuse

-----------------------------------------------------------------------------
(* The three modes.                                                        *)

Present == options.input \in DOMAIN files
Input   == files[options.input]
Writable == options.output \notin Unwritable

\* The stream taken for open without a look.
OpenFaulty(next, lines) ==
  /\ stage' = next
  /\ pending' = lines
  /\ stream' = TRUE
  /\ files' = IF Writable THEN Updated(files, options.output, <<>>) ELSE files
  /\ UNCHANGED <<argv, parsed, options, position, status, before, diskFull, runs>>

\* The output is opened, and emptied if that works.
Open(next, lines) ==
  /\ stage' = next
  /\ pending' = lines
  /\ stream' = Writable
  /\ files' = IF Writable THEN Updated(files, options.output, <<>>) ELSE files
  /\ UNCHANGED <<argv, parsed, options, position, status, before, diskFull, runs>>

InForm(form, words) == [i \in DOMAIN words |-> Line(form, words[i])]

\* A listing is written for words unless raw bytes are wanted.
WordForm == IF options.format = "bin" THEN "bin" ELSE "hex"

\* What parseLine may make of a line; bytes may happen to read as a comment.
Readings(line) ==
  CASE line.form = "asm"  -> {line.of}
    [] line.form = "note" -> {NoWord}
    [] line.form = "bin"  -> {NoWord, Reject}
    [] line.form \in {"c", "ir", "hex", "word"} -> {Reject}

\* The readings of all lines.
Parses(lines) ==
  {r \in [DOMAIN lines -> Words \cup {NoWord, Reject}] :
     \A i \in DOMAIN lines : r[i] \in Readings(lines[i])}

Accepted(r) == \A i \in DOMAIN r : r[i] # Reject

\* What has been assembled after each line, and after the last.
Program(r) ==
  LET after[i \in 0..Len(r)] == IF i = 0 THEN <<>>
                                ELSE IF r[i] = NoWord THEN after[i - 1]
                                ELSE Append(after[i - 1], r[i])
  IN  after[Len(r)]

\* Whether the output could be opened is not looked at.
Assemble ==
  /\ stage = "assemble" /\ Present
  /\ \E r \in Parses(Input) :
       /\ Accepted(r)
       /\ Open("write", InForm(WordForm, Program(r)))

NoText == stage = "assemble" /\ ~Present /\ Refuse

RejectText ==
  /\ stage = "assemble" /\ Present
  /\ \E r \in Parses(Input) : ~Accepted(r)
  /\ Refuse

Disassemble == stage = "disassemble" /\ Present /\ Writable /\ Open("list", <<>>)

CannotDisassemble == stage = "disassemble" /\ ~(Present /\ Writable) /\ Refuse

\* What a line read as a number in hexadecimal may become.
Listings(line) ==
  CASE line.form = "hex" ->
         {IF line.of \in Known THEN Line("asm", line.of) ELSE Line("word", line.of)}
    [] line.form = "asm" ->
         {IF line.of \in HexLike THEN Line("word", Stray) ELSE Line("note", NoWord)}
    [] line.form \in {"note", "word"}    -> {Line("note", NoWord)}
    [] line.form \in {"bin", "c", "ir"}  -> {Line("word", Stray), Line("note", NoWord)}

Written(line) == IF stream THEN Updated(files, options.output, Append(files[options.output], line))
                 ELSE files

\* The input is read as it is now.
ListLine ==
  /\ stage = "list" /\ position < Len(Input)
  /\ \E line \in Listings(Input[position + 1]) : files' = Written(line)
  /\ position' = position + 1
  /\ UNCHANGED <<argv, parsed, options, stage, pending, stream, status, before, diskFull, runs>>

IsModule(lines) == Len(lines) = 1 /\ lines[1].form = "ir"
Module(lines) == lines[1].of

\* Parsing, selection and allocation succeed, and the output can be opened.
Compilable ==
  /\ Present /\ IsModule(Input)
  /\ Module(Input) \notin Declarations
  /\ <<Module(Input), options.optimize>> \notin TooLarge
  /\ Writable

Compile ==
  /\ stage = "compile" /\ Compilable
  /\ Open("write", InForm(options.format, Code[<<Module(Input), options.optimize>>]))

CannotCompile == stage = "compile" /\ ~Compilable /\ Refuse

\* After a failure a stream drops what it is given.
WriteLine ==
  /\ stage = "write" /\ pending # <<>>
  /\ files' = Written(Head(pending))
  /\ pending' = Tail(pending)
  /\ UNCHANGED <<argv, parsed, options, stage, position, stream, status, before, diskFull, runs>>

DiskFull ==
  /\ stage \in {"write", "list"} /\ stream
  /\ stream' = FALSE /\ diskFull' = TRUE
  /\ UNCHANGED <<files, argv, parsed, options, stage, pending, position, status, before, runs>>

\* The streams are not looked at in the end.
Succeed ==
  /\ \/ stage = "write" /\ pending = <<>>
     \/ stage = "list" /\ position = Len(Input)
  /\ Exit(0) /\ UNCHANGED files

Invocation ==
  \/ Help \/ TakeOutput \/ TakeSetting \/ TakeInput \/ UnknownOption \/ ChooseMode \/ NoInput
  \/ Assemble \/ NoText \/ RejectText \/ Disassemble \/ CannotDisassemble \/ ListLine
  \/ Compile \/ CannotCompile \/ WriteLine \/ DiskFull \/ Succeed

Next == Start \/ Invocation

Spec == Init /\ [][Next]_driverVars

-----------------------------------------------------------------------------
(* What a command line asks for, read as the usage text has it and not     *)
(* argument by argument.                                                   *)

\* Argument i is the file name of the -o before it.
IsName == LET taken[i \in 0..Len(argv)] == i > 1 /\ argv[i - 1].opt = "o" /\ ~taken[i - 1]
          IN  taken

Given(opts) == {i \in DOMAIN argv : argv[i].opt \in opts /\ ~IsName[i]}

Latest(positions) == CHOOSE i \in positions : \A j \in positions : j <= i

AskedInput == argv[Latest(Given({"none"}))].path

WellFormed ==
  /\ Given({"h", "unknown", "save"}) = {}
  /\ Len(argv) \notin Given({"o"})
  /\ Given({"none"}) # {} /\ AskedInput # NoPath

AskedFormat ==
  IF Given(DOMAIN Formats) = {} THEN "hex" ELSE Formats[argv[Latest(Given(DOMAIN Formats))].opt]

Named == IF Given({"o"}) = {} THEN NoPath ELSE argv[Latest(Given({"o"})) + 1].path

AskedOutput == IF Named # NoPath THEN Named ELSE Append(Base(AskedInput), Extension[AskedFormat])

AskedOptimize ==
  Given({"O0", "O2"}) # {} => argv[Latest(Given({"O0", "O2"}))].opt = "O2"

AskedMode == IF Given({"a"}) # {} THEN "assemble" ELSE IF Given({"d"}) # {} THEN "disassemble"
             ELSE "compile"

Source == before[AskedInput]

\* The input is what the mode is for.
Convertible ==
  /\ AskedInput \in DOMAIN before
  /\ CASE AskedMode = "assemble"    -> \A i \in DOMAIN Source : Source[i].form \in {"asm", "note"}
       [] AskedMode = "disassemble" -> \A i \in DOMAIN Source : Source[i].form = "hex"
       [] AskedMode = "compile"     -> /\ IsModule(Source)
                                       /\ Module(Source) \notin Declarations
                                       /\ <<Module(Source), AskedOptimize>> \notin TooLarge

\* The instructions of a text, each as a line of the given form.
Assembled(text, form) ==
  LET upTo[i \in 0..Len(text)] == IF i = 0 THEN <<>>
                                  ELSE IF text[i].form # "asm" THEN upTo[i - 1]
                                  ELSE Append(upTo[i - 1], Line(form, text[i].of))
  IN  upTo[Len(text)]

Converted ==
  CASE AskedMode = "assemble" -> Assembled(Source, IF AskedFormat = "bin" THEN "bin" ELSE "hex")
    [] AskedMode = "disassemble" ->
         [i \in DOMAIN Source |-> Line(IF Source[i].of \in Known THEN "asm" ELSE "word", Source[i].of)]
    [] AskedMode = "compile" -> InForm(AskedFormat, Code[<<Module(Source), AskedOptimize>>])

-----------------------------------------------------------------------------
TypeOK ==
  /\ \A p \in DOMAIN files : files[p] \in Seq(Lines)
  /\ parsed \in 0..Len(argv)
  /\ stage \in {"idle", "ended", "options", "assemble", "disassemble", "compile", "list", "write"}
  /\ options.format \in {"asm", "hex", "bin"}
  /\ status \in {0, 1}
  /\ runs \in 0..MaxRuns
  /\ stream => options.output \in DOMAIN files

\* An invocation that reports failure has not touched a file.
FailureChangesNothing == stage = "ended" /\ status = 1 => files = before

\* One that is given a file its mode is for reports success, has put the
\* translation of what the input held before into the output, and has changed
\* nothing else; unless the disk was full, the output cannot be written, or is
\* the input of a disassembly.
TranslatesWhatItCan ==
  stage = "ended" /\ WellFormed /\ Convertible /\ ~diskFull /\ AskedOutput \notin Unwritable =>
    \/ AskedMode = "disassemble" /\ AskedOutput = AskedInput
    \/ status = 0 /\ files = Updated(before, AskedOutput, Converted)

\* Without the last exception, for disassembly.
DisassemblesItsInput ==
  stage = "ended" /\ WellFormed /\ Convertible /\ AskedMode = "disassemble" /\ status = 0 /\ ~diskFull =>
    files[AskedOutput] = Converted

=============================================================================
