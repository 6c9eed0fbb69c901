\* Two outputs are held back, the others are sent at once; the reader accepts
\* whole outputs or any part of them, and write() is called in a loop or once.
CONSTANTS
  TElemCount = 3
  Item <- Output
  NoItem <- NoOutput
  StartBuffer = 2
  TsLength = 3
  Sizes = {3, 4}
  MaxOutputs = 5
SPECIFICATION FairSpec
INVARIANTS
  CopiesOwned
  InOrder
PROPERTIES
  CallbackReturns
  IsOrderedChannel
CHECK_DEADLOCK FALSE
