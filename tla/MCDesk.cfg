\* One behaviour has two orders of one symbol and one hint, another three orders
\* of two symbols; both with and without the fill model.
SPECIFICATION MCSpec
CONSTANTS
  o1 = o1
  o2 = o2
  o3 = o3
  nifty = nifty
  banknifty = banknifty
  Orders = {o1, o2, o3}
  Symbols = {nifty, banknifty}
  Quantities = {2}
  Prices = {2}
  Slip = 0
  Fee = 0
  MaxQueue = 1
  MaxHints = 1
  StartsWith = {}
INVARIANTS
  FillsReachLedger
  LedgerExplainsPosition
PROPERTIES
  ProjectionConverges
  HintsResolve
CHECK_DEADLOCK FALSE
