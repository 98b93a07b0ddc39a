SPECIFICATION LaneSpec
CONSTANTS
  NumPhysRegs <- MCNumPhysRegs
  VRegs <- MCVRegs
  Programs <- MCPrograms
  Edges <- MCEdges
INVARIANTS
  ReadsOwnValue
CHECK_DEADLOCK FALSE
