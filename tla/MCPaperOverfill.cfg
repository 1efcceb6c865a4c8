\* One order of two lots.
SPECIFICATION PaperSpec
CONSTANTS
  o1 = o1
  o2 = o2
  o3 = o3
  nifty = nifty
  Orders = {o1}
  Symbols = {nifty}
  Quantities = {2}
  Prices <- MCPrices
  Slip = 100
  Fee = 1
SYMMETRY MCSymmetry
INVARIANTS
  NeverOverfilled
CHECK_DEADLOCK FALSE
