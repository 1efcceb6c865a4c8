\* Two orders, prices that double.
SPECIFICATION RiskSpec
CONSTANTS
  Instruments = {"NIFTY", "BANKNIFTY"}
  UnderlyingOf <- MCOwnUnderlying
  SectorOf <- MCOneSector
  MinimumMargin = 5
  Offers <- MCOffers
  Levels = {2, 4}
  Settings <- MCSettings
  Polls <- MCPolls
  Capital = 20
  MaxOrders = 2
INVARIANTS
  NoEntryBeyondLossLimit
CHECK_DEADLOCK FALSE
