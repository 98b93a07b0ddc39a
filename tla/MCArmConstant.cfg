SPECIFICATION LaneSpec
CONSTANTS
  Kernels <- ArmConstantKernels
  FieldSize <- MCFieldSize
  LANE_WIDTH_BITS <- MCLaneWidth
  SysReg <- MCSysReg
  MaxSteps <- MCMaxSteps
INVARIANTS
  EveryOperandFilled
CHECK_DEADLOCK FALSE
