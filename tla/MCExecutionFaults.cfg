\* A failing database over one restart, one handler at a time, under fair
\* scheduling.
SPECIFICATION FairSpec
CONSTANTS
  p1 = p1
  c1 = c1
  r1 = r1
  NoTarget = NoTarget
  Proposals = {p1}
  Bridged = {}
  Targets = {p1, c1}
  Requests = {r1}
  KeyOf <- MCSameKey
  CommandLineModes = {"OBSERVER", "LIVE"}
  DbReliable = FALSE
  MaxAttempts = 3
  MaxEntries = 1
  MaxRestarts = 1
INVARIANTS
  TypeOK
  LiveOrdersConfirmed
  ApprovedHasOrder
PROPERTIES
  PlacementResolves
CHECK_DEADLOCK FALSE
