SPECIFICATION PathSpec
CONSTANTS
  Cfgs <- LoopCfgs
  MaxStack <- MCMaxStack
INVARIANTS
  BalancedAtReturn
CHECK_DEADLOCK FALSE
