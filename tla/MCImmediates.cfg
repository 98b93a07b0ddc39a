SPECIFICATION LaneSpec
CONSTANTS
  Kernels <- ImmediateKernels
  FieldSize <- MCFieldSize
  LANE_WIDTH_BITS <- MCLaneWidth
  SysReg <- MCSysReg
  MaxSteps <- MCMaxSteps
INVARIANTS
  AddImmediatesAreShort
CHECK_DEADLOCK FALSE
