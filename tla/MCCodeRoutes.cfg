SPECIFICATION Spec
CONSTANTS
  Kernels <- MCKernels
  LowerCase <- MCLowerCase
  SpellSync <- MCSpellSync
  SpellS2r <- MCSpellS2r
INVARIANTS
  TypeOK
  RoutesAgree
  PlainNamesReach
  PlainNamesAssemble
CHECK_DEADLOCK FALSE
