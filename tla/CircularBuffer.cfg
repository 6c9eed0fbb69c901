\* Three slots are enough for both indices to wrap at different times.
CONSTANTS
  TElemCount = 3
  Item = {a, b, c}
  NoItem = NoItem
SPECIFICATION RingSpec
PROPERTY
  IsBoundedQueue
