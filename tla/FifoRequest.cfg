SPECIFICATION FairSpec
CONSTANTS
  Viewer = {v1, v2, v3}
  Zattood = zattood
  Channel = {c1, c2}
  Unknown = unknown
  Error = error
  Nothing = nothing
INVARIANTS TypeOK UrlWithItsLicense WedgedByKill
PROPERTIES IsExchange Served
CHECK_DEADLOCK FALSE
CONSTRAINT FewerAtOnce
