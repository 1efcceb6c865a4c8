\* A working database, two competing proposals, one restart.
SPECIFICATION Spec
CONSTANTS
  p1 = p1
  p2 = p2
  r1 = r1
  NoTarget = NoTarget
  Proposals = {p1, p2}
  Bridged = {p1, p2}
  Targets = {p1, p2}
  Requests = {r1}
  KeyOf <- MCSameKey
  CommandLineModes = {}
  DbReliable = TRUE
  MaxAttempts = 2
  MaxEntries = 1
  MaxRestarts = 1
SYMMETRY MCSymmetry
INVARIANTS
  LiveNeverRestored
  BridgeDedup
  DurableQueue
  PaperAtMostOnce
PROPERTIES
  NoResurrection
CHECK_DEADLOCK FALSE
