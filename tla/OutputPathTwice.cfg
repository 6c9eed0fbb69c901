CONSTANTS
  TElemCount = 3
  Item <- Output
  NoItem <- NoOutput
  StartBuffer = 2
  TsLength = 3
  Sizes = {3, 4}
  MaxOutputs = 4
SPECIFICATION Spec
INVARIANTS
  NoByteTwice
CHECK_DEADLOCK FALSE
