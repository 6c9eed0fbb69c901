\* Two troubles: the session expires and a request of the new login fails, or
\* the session expires twice.
CONSTANTS
  MaxTroubles = 2
  VdrRuns = TRUE
SPECIFICATION FairSpec
INVARIANTS
  ConnectedIsServed
PROPERTIES
  IsServedSession
  Reinit
  SessionRecovers
  MainServes
CHECK_DEADLOCK FALSE
