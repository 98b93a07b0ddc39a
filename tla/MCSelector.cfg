SPECIFICATION LaneSpec
CONSTANTS
  Kernels <- MCKernels
  FieldSize <- MCFieldSize
  LANE_WIDTH_BITS <- MCLaneWidth
  SysReg <- MCSysReg
  MaxSteps <- MCMaxSteps
INVARIANTS
  TypeOK
  ValuesKeepApart
  OperandsFilled
PROPERTIES
  ImplementsKernel
  Returns
CHECK_DEADLOCK FALSE
