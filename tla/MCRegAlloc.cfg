SPECIFICATION LaneSpec
CONSTANTS
  NumPhysRegs <- MCNumPhysRegs
  VRegs <- MCVRegs
  Programs <- MCPrograms
  Edges <- MCEdges
INVARIANTS
  TypeOK
  IntervalsExact
  NoInterference
  PoolConserved
  RewriteIsRenaming
  ReadsOwnValue
PROPERTIES
  ImplementsPromise
CHECK_DEADLOCK FALSE
