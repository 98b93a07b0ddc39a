SPECIFICATION ScriptSpec
CONSTANTS
  Pieces <- MCPieces
  CommandLines <- DisasmLines
  InitialFiles <- MCInitialFiles
  Unwritable <- MCUnwritable
  Words <- MCWords
  Known <- MCKnown
  HexLike <- MCHexLike
  Stray = "0add"
  Sources <- MCSources
  Modules <- MCModules
  Code <- MCCode
  Declarations <- MCDeclarations
  TooLarge <- MCTooLarge
  MaxRuns = 1
  ScriptLines <- MCScriptLines
  TmpLl <- MCTmpLl
  FrontEnd <- MCFrontEnd
INVARIANTS
  DisassemblesItsInput
CHECK_DEADLOCK FALSE
