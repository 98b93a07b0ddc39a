SPECIFICATION PathSpec
CONSTANTS
  Cfgs <- MCCfgs
  MaxStack <- MCMaxStack
INVARIANTS
  TypeOK
  FlowPreserved
  RegionsSynced
  WellNestedReconverges
CHECK_DEADLOCK FALSE
