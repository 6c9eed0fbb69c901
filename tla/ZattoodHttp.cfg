\* Three threads and two instances, so that instances are used again and a
\* thread is refused.
CONSTANTS
  MaxInstance = 2
  Client = {login, main, details}
  FileClient = {details}
  Page = {p1, p2}
  Posted = {p2}
  Session = {s1}
  NoSession = NoSession
  Nothing = Nothing
SPECIFICATION FairSpec
INVARIANTS
  OwnAnswer
  SeenAsMeant
PROPERTIES
  IsLeasePool
  SessionWasGiven
  DenialReported
CHECK_DEADLOCK FALSE
CONSTRAINTS
  TwoTalk
  OnePage
