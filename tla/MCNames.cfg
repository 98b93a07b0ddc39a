SPECIFICATION Spec
CONSTANTS
  Kernels <- NamedKernels
  LowerCase <- MCLowerCase
  SpellSync <- MCSpellSync
  SpellS2r <- MCSpellS2r
INVARIANTS
  JumpsReachTheirBlocks
CHECK_DEADLOCK FALSE
