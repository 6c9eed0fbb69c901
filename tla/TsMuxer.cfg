\* Frames that fit into one packet of 40 bytes, with every length of stuffing,
\* and frames of up to three.
CONSTANTS
  PacketSize = 40
  CcSize = 3
  PmtInterval = 3
  MaxPes = 60
  Sizes <- FrameSizes
SPECIFICATION Spec
INVARIANTS
  PacketsAreWhole
  FrameArrives
  LengthIsTrue
  Continuous
  TablesInTime
  TablesAreRead
  HeaderIsRead
