\* Two supervisor threads with one restart, three order-socket attempts, three
\* initialisations of two tokens, one browser tab, a watchlist of two symbols,
\* three ticks, four polls of two chains, two sessions of one signal each.
SPECIFICATION ServicesSpec
CONSTANTS
  t1 = t1
  t2 = t2
  nifty = nifty
  l1 = l1
  l2 = l2
  s1 = s1
  Supervisors = {t1, t2}
  FeedSymbols = {nifty}
  MaxRestarts = 1
  MaxReconnects = 3
  Logins = {l1, l2}
  Saves = {s1}
  MaxAdapters = 3
  MaxTokens = 2
  MaxNews = 1
  PanelTopics = {"connection", "order"}
  MaxTabEvents = 6
  Chains <- MCChains
  NoChain = NoChain
  BarFeed <- MCBarFeed
  Dtes = {2, 91}
  MinSeverity = "HIGH"
  Eligible = {}
  Cooldown = 2
  MaxPerType = 1
  Lookback = 2
  MaxTime = 2
  MaxWork = 4
  MaxReboots = 1
  Shadows = {s1}
  Signs <- MCSigns
  MinSessions = 2
  HitPercent = 55
  MaxDay = 2
  MaxSignals = 1
  MaxSessions = 2
  Readings <- MCReadings
  LateBy <- MCLateBy
  TickAge = 1
  SignalAge = 1
  LotSize = 75
  ChainRows <- MCChainRows
  MaxPriceTicks = 3
  MaxClock = 4
  Listable = {"NIFTY", "TCS"}
  Defaults = {"NIFTY"}
  MaxRequests = 3
  MaxFeedTicks = 2
  MaxWatchBoots = 1
  Underlyings = {"NIFTY", "BANKNIFTY", "TCS"}
  Indices = {"NIFTY", "BANKNIFTY"}
  WeeklyDays <- MCWeeklyDays
  ExpiryDays <- MCExpiryDays
  MonthDays = 14
  Horizon = 14
  DayParts = 4
  UtcLag = 1
  MaxAge = 4
  LotSizes = {50, 75}
  MaxNow = 36
  MaxStarts = 3
INVARIANTS
  DeadMeansIdle
  SymbolsRestored
  OneFeed
  TopicsDeclared
  SettledSignal
  
  OneProposalPerCooldown
  ScoredByOwnSession
PROPERTIES
  RetriesEnd
  ConnectIsAnswered
  ExpiryShown
  LivePriceWins
CHECK_DEADLOCK FALSE
