--------------------------- MODULE MCClangScript ---------------------------
(* Sessions of two invocations over the files of one kernel.  The command   *)
(* lines have every mode and format, with an output named and not named,    *)
(* options in conflict and in any order, and lines that are refused.        *)
EXTENDS ClangScript, TLC

kC   == <<"k", "c">>
kLl  == <<"k", "ll">>
kS   == <<"k", "s">>
kHex == <<"k", "hex">>
up   == <<"", "", "/k">>       \* ../k
none == <<"none", "s">>        \* no such file
locked == <<"locked", "hex">>  \* read-only

MCPieces == STRING
MCTmpLl == <<"/tmp/fpgagpu_XXXXXX", "ll">>
MCUnwritable == {locked, <<"locked", "ll">>}

MCWords   == {"add", "sync", "bits", "0add"}
MCKnown   == {"add", "sync"}
MCHexLike == {"add"}

MCSources == {"source"}
MCModules == {"kernel", "header", "large"}
MCCode == [p \in MCModules \X BOOLEAN |->
             CASE p[1] = "header" -> <<>>
               [] p[1] = "large"  -> <<"add", "add">>
               [] OTHER           -> IF p[2] THEN <<"sync">> ELSE <<"add", "sync">>]
MCDeclarations == {"header"}
MCTooLarge == {<<"large", FALSE>>}
MCFrontEnd == [s \in MCSources |-> "kernel"]

Module1(m) == <<Line("ir", m)>>

MCInitialFiles ==
  {(kC :> <<Line("c", "source")>>) @@ (kLl :> Module1(m)) @@ (kS :> s) @@ (kHex :> h)
     @@ (up :> Module1("kernel")) @@ (locked :> <<Line("hex", "add")>>) :
     m \in {"kernel", "large"},
     s \in {<<Line("note", NoWord), Line("asm", "sync")>>, <<Line("word", "bits")>>},
     h \in {<<Line("hex", "sync"), Line("hex", "bits")>>}}
  \cup {(kLl :> Module1("header")) @@ (kS :> <<Line("asm", "sync")>>)}

Options(s) == [i \in DOMAIN s |-> Option(s[i])]

Outputs == {<<>>} \cup {<<Option("o"), Operand(p)>> : p \in {kS, kHex, locked}}

NoName == Operand(NoPath)   \* an empty argument

MCCommandLines ==
  {<<>>, Options(<<"h">>), Options(<<"a", "o">>), Options(<<"unknown">>)}
    \cup {Options(s) \o o \o <<Operand(p)>> :
            s \in {<<>>, <<"a">>, <<"d">>, <<"s">>, <<"b">>, <<"O0">>,
                   <<"a", "b">>, <<"a", "s">>, <<"d", "s">>, <<"d", "a">>},
            o \in Outputs, p \in {kLl, kS, kHex, up, none}}
    \cup {Options(s) \o <<Operand(kLl)>> \o Options(t) :
            s \in {<<"a", "d">>, <<"x", "s", "O2">>, <<"o", "d">>},
            t \in {<<"h">>, <<"unknown">>, <<"b", "O0">>, <<"o">>}}
    \cup {<<Option("o"), NoName, Operand(kLl)>>, <<Operand(kLl), NoName>>}

MCScriptLines ==
  {<<>>, Options(<<"h">>), Options(<<"s", "o">>)}
    \cup {Options(s) \o o \o <<Operand(p)>> \o t :
            s \in {<<"s">>, <<"b", "O0", "d">>, <<"save", "O0", "O2">>},
            o \in Outputs, p \in {kC, none}, t \in {<<>>, <<Operand(kS)>>}}

\* What the usage text calls "disassemble a hex file into assembly".
DisasmLines == {Options(<<"d">>) \o o \o <<Operand(kHex)>> : o \in Outputs}

=============================================================================
