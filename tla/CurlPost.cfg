CONSTANTS
  MaxInstance = 2
  Client = {c1, c2}
  FileClient = {}
  Host = {h1, h2}
  NoHost = NoHost
  Earlier = Earlier
  Nobody = Nobody
SPECIFICATION Spec
INVARIANTS
  OnlyAskedPosts
SYMMETRY Symmetry
