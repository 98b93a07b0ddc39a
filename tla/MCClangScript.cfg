SPECIFICATION ScriptSpec
CONSTANTS
  Pieces <- MCPieces
  CommandLines <- MCCommandLines
  InitialFiles <- MCInitialFiles
  Unwritable <- MCUnwritable
  Words <- MCWords
  Known <- MCKnown
  HexLike <- MCHexLike
  Stray = "0add"
  Sources <- MCSources
  Modules <- MCModules
  Code <- MCCode
  Declarations <- MCDeclarations
  TooLarge <- MCTooLarge
  MaxRuns = 2
  ScriptLines <- MCScriptLines
  TmpLl <- MCTmpLl
  FrontEnd <- MCFrontEnd
INVARIANTS
  TypeOK
  FailureChangesNothing
  TranslatesWhatItCan
  TempRemoved
  ScriptCompiles
  ScriptTouchesItsOwn
CHECK_DEADLOCK FALSE
