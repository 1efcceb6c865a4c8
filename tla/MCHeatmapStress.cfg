\* A share and an option, four events.
SPECIFICATION RiskViewSpec
CONSTANTS
  Tickers = {"TCS-EQ", "NIFTY-40-CE"}
  FromFyers <- MCFromFyers
  LotSizeOf <- MCLotSizeOf
  SectorOf <- MCSectorOf
  OptionPrice <- MCOptionPrice
  UnitGreek <- MCUnitGreek
  Quotes = {20, 40}
  Vols = {0, 10}
  Regimes = {"TREND"}
  Window = 2
  MaxChanges = 4
INVARIANTS
  StressedAtOwnPrice
CHECK_DEADLOCK FALSE
