\* One placement and the kill switch.
SPECIFICATION Spec
CONSTANTS
  p1 = p1
  r1 = r1
  NoTarget = NoTarget
  Proposals = {p1}
  Bridged = {p1}
  Targets = {p1}
  Requests = {r1}
  KeyOf <- MCSameKey
  CommandLineModes = {"PAPER"}
  DbReliable = TRUE
  MaxAttempts = 2
  MaxEntries = 1
  MaxRestarts = 0
PROPERTIES
  NoPostWhileArmed
CHECK_DEADLOCK FALSE
