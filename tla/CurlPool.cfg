\* Three threads and two instances: connections are kept, taken over and
\* closed, and threads are refused.  In half of the behaviours one of the
\* threads writes files, and open() and curl_easy_init() may fail.
CONSTANTS
  MaxInstance = 2
  Client = {c1, c2, c3}
  FileClient = {c3}
  Host = {h1, h2}
  NoHost = NoHost
  Earlier = Earlier
  Nobody = Nobody
SPECIFICATION Spec
INVARIANTS
  ResponsesAreSeparate
  KeptForItsHost
  NoFault
PROPERTIES
  IsLeasePool
  BusyIsLeftAlone
SYMMETRY Symmetry
CONSTRAINTS
  NothingPosted
  PlainBesideFiles
