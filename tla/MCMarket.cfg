\* Three interchangeable values are the orders of the paper engine and the
\* clients of the fan-out.
SPECIFICATION MarketSpec
CONSTANTS
  o1 = o1
  o2 = o2
  o3 = o3
  nifty = nifty
  Orders = {o1, o2, o3}
  Symbols = {nifty}
  Quantities = {1, 2}
  Prices <- MCPrices
  Slip = 100
  Fee = 1
  Instruments = {"NIFTY", "BANKNIFTY"}
  UnderlyingOf <- MCOwnUnderlying
  SectorOf <- MCOneSector
  MinimumMargin = 5
  Offers <- MCOffers
  Levels = {2, 4}
  Settings <- MCSettings
  Polls <- MCPolls
  Capital = 20
  MaxOrders = 2
  x1 = x1
  x2 = x2
  Clients = {o1, o2, o3}
  Topics = {"tick"}
  Broadcasts = {x1, x2}
  b1 = b1
  b2 = b2
  Briefs = {b1, b2}
  n1 = n1
  Notes = {n1}
  MaxKnowledgeBoots = 1
  Batches <- MCBatches
  EnvSeeds <- MCEnvSeeds
  KnownParams <- MCKnownParams
  MaxDecisions = 2
  MaxBatches = 3
  MaxStartups = 3
  Intervals = {"default", "slow"}
  MaxToolCalls = 1
  MaxRetries = 1
  MaxBoots = 2
  Timeframes = {1, 2}
  Ltps = {1, 2}
  MaxMinute = 2
  MaxTicks = 3
SYMMETRY MCSymmetry
INVARIANTS
  PnlAddsUp
  PositionIsBooked
  FillsBounded
  CapHoldsUpToBlindApprovals
  BroadcastReaches
  CoarseBarsAggregateFineBars
  CallsBounded
  SchedulerAsConfigured
  PromisesKept
  LimitsShown
PROPERTIES
  ClosedStaysClosed
CHECK_DEADLOCK FALSE
