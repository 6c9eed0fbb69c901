\* Two representations of every stream, three changes between them.
CONSTANTS
  Layouts <- SomeLayouts
  Reps = {1, 2}
  LengthSize <- Widths
  Packets <- Pictures
  MaxChanges = 3
SPECIFICATION Spec
CHECK_DEADLOCK FALSE
INVARIANTS
  Decodable
  ParametersFirst
  FrameIsWhole
  HeaderIsOwn
  OutOfBandRepeated
