SPECIFICATION PathSpec
CONSTANTS
  Cfgs <- SharedJoinCfgs
  MaxStack <- MCMaxStack
INVARIANTS
  SyncPopsOwnSsy
CHECK_DEADLOCK FALSE
