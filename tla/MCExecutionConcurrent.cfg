\* Two handlers at once for a proposal and a position to close, no restart.
SPECIFICATION Spec
CONSTANTS
  p1 = p1
  c1 = c1
  r1 = r1
  r2 = r2
  NoTarget = NoTarget
  Proposals = {p1}
  Bridged = {p1}
  Targets = {p1, c1}
  Requests = {r1, r2}
  KeyOf <- MCSameKey
  CommandLineModes = {"PAPER"}
  DbReliable = TRUE
  MaxAttempts = 2
  MaxEntries = 3
  MaxRestarts = 0
SYMMETRY MCSymmetry
INVARIANTS
  InFlightExact
  NoEntryAfterArm
  OneOrderPerDispatch
PROPERTIES
  ImplementsGate
CHECK_DEADLOCK FALSE
