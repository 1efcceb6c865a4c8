---------------------------- MODULE PortfolioRisk ----------------------------
(***************************************************************************)
(* The risk views of the book: the greeks of the positions, their history, *)
(* and the heat map of PortfolioRiskAggregator (sectors, greeks, stress,   *)
(* margin).  They are computed on request from what four independent       *)
(* sources left behind: position events, market ticks, option-chain polls  *)
(* and margin polls.                                                       *)
(*                                                                         *)
(* Prices of options and their greeks are constants of the model; times to *)
(* expiry are left out.                                                    *)
(***************************************************************************)
EXTENDS Integers, SequencesExt

CONSTANTS
  Tickers,     \* broker tickers a position may have
  FromFyers,   \* [Tickers -> the record that from_fyers answers]
  LotSizeOf,   \* [Tickers -> the instrument master's lot size, 0 if it has none]
  SectorOf,    \* [internal symbols -> sector]
  Quotes,      \* prices, multiples of 20
  Vols,        \* implied volatilities, 0 for a contract without one
  Regimes,
  OptionPrice(_, _, _),   \* of a parsed contract, a spot and a volatility
  UnitGreek(_, _, _, _),  \* of a greek, a parsed contract, a spot and a volatility
  Window,      \* how far back a history reaches
  MaxChanges   \* bound: events and polls

VARIABLES
  rows,      \* PositionProjection: [symbol, net, avg, pnl], in order of appearance
  watch,     \* WatchlistProjection: [symbol, ltp], in order of appearance
  ivCache,   \* _iv_cache: [<<strike, option type>> -> volatility]
  lastSpot,  \* _last_spot, 0 before the first chain
  margin,    \* of RiskProjection: used and available, -1 before the first poll
  history,   \* GreeksStore: [at, net, count]
  regimes,   \* the regime history: [at, regime]
  now        \* events and polls so far

riskViewVars == <<rows, watch, ivCache, lastSpot, margin, history, regimes, now>>

Greeks == {"delta", "gamma", "theta", "vega"}
Shifts == {-10, -5, 5, 10}

RiskViewInit ==
  /\ rows = <<>> /\ watch = <<>> /\ ivCache = <<>> /\ lastSpot = 0
  /\ margin = [used |-> 0, available |-> -1]
  /\ history = <<>> /\ regimes = <<>> /\ now = 0

Update(f, k, v) == [x \in DOMAIN f \cup {k} |-> IF x = k THEN v ELSE f[x]]

\* A row replaces the row of its symbol, or comes last.
Upsert(table, row) ==
  IF \E i \in DOMAIN table : table[i].symbol = row.symbol
  THEN [i \in DOMAIN table |-> IF table[i].symbol = row.symbol THEN row ELSE table[i]]
  ELSE Append(table, row)

Sum(table, f(_)) == FoldLeft(LAMBDA acc, row : acc + f(row), 0, table)

-----------------------------------------------------------------------------
\* GET /positions and /portfolio-greeks.

VolOf(c) ==
  LET key == <<c.strike, c.option_type>> IN IF key \in DOMAIN ivCache THEN ivCache[key] ELSE 0

IsOption(row) == FromFyers[row.symbol].instrument_type = "OPTION"

\* By the cache, whatever underlying and expiry its entry came from, and the
\* spot of the last chain, whatever its underlying; in units of the net
\* quantity, without the lot size.
GreeksKnown(row) == IsOption(row) /\ VolOf(FromFyers[row.symbol]) > 0 /\ lastSpot > 0

PositionGreek(g, row) ==
  LET c == FromFyers[row.symbol] IN row.net * UnitGreek(g, c, lastSpot, VolOf(c))

NetGreeks(table) ==
  [g \in Greeks |-> Sum(table, LAMBDA row : IF GreeksKnown(row) THEN PositionGreek(g, row) ELSE 0)]

PortfolioGreeks == NetGreeks(rows)

\* GET /greeks-history: the snapshots of the window, with the regime recorded
\* last before them; the regimes are cut to the window too.
Recent(table) == SelectSeq(table, LAMBDA row : row.at >= now - Window)

ActiveAt(at) == LET earlier == SelectSeq(Recent(regimes), LAMBDA r : r.at <= at)
                IN IF earlier = <<>> THEN "none" ELSE Last(earlier).regime

GreeksHistory(regime) == SelectSeq(Recent(history), LAMBDA row : ActiveAt(row.at) = regime)

-----------------------------------------------------------------------------
\* The heat map.

\* Neither from_fyers nor the instrument master answers an underlying.
Metadata(row) ==
  LET c == FromFyers[row.symbol]
  IN [strike |-> c.strike, option_type |-> c.option_type, instrument_type |-> c.instrument_type,
      internal_symbol |-> c.internal_symbol, lot_size |-> LotSizeOf[row.symbol],
      underlying |-> IF "underlying" \in DOMAIN c THEN c.underlying ELSE "none"]

SpotMap == SelectSeq(watch, LAMBDA row : row.ltp > 0)

SpotFor(symbol) ==
  LET of == SelectSeq(SpotMap, LAMBDA row : row.symbol = symbol)
  IN IF of = <<>> THEN 0 ELSE of[1].ltp

Scaled(row, n) ==
  LET lot == Metadata(row).lot_size IN row.net * n * (IF lot > 0 THEN lot ELSE 1)

\* The greeks need the spot of the underlying; long and short are the positive
\* and the negative parts.
HeatKnown(row) ==
  IsOption(row) /\ SpotFor(Metadata(row).underlying) > 0 /\ VolOf(FromFyers[row.symbol]) > 0

HeatGreek(g, row) ==
  IF ~HeatKnown(row) THEN 0
  ELSE LET c == FromFyers[row.symbol]
       IN Scaled(row, UnitGreek(g, c, SpotFor(Metadata(row).underlying), VolOf(c)))

Long(g) == Sum(rows, LAMBDA row : IF HeatGreek(g, row) > 0 THEN HeatGreek(g, row) ELSE 0)
Short(g) == Sum(rows, LAMBDA row : IF HeatGreek(g, row) < 0 THEN HeatGreek(g, row) ELSE 0)

Magnitude(n) == IF n < 0 THEN -n ELSE n

Lopsided ==
  LET theta == Magnitude(Long("theta") + Short("theta"))
      vega == Magnitude(Long("vega") + Short("vega"))
  IN IF theta > 5 * vega THEN "all theta" ELSE IF vega > 5 * theta THEN "all vega" ELSE "none"

\* The stress test falls back on the first price of the watchlist for
\* derivatives and indices, and leaves a position out without a price.
StressSpot(row) ==
  LET own == SpotFor(Metadata(row).underlying)
  IN IF own > 0 THEN own
     ELSE IF SpotMap # <<>> /\ FromFyers[row.symbol].instrument_type # "EQUITY" THEN SpotMap[1].ltp
     ELSE 0

\* An option is priced anew, others move with the price if they know their entry.
StressPnl(row, shift) ==
  LET c == Metadata(row)
      spot == StressSpot(row)
      shifted == spot + (spot * shift) \div 100
      vol == VolOf(c)
  IN IF spot = 0 THEN 0
     ELSE IF IsOption(row)
     THEN IF vol > 0 THEN Scaled(row, OptionPrice(c, shifted, vol) - OptionPrice(c, spot, vol)) ELSE 0
     ELSE IF row.avg > 0 THEN row.net * (shifted - spot) ELSE 0

ScenarioPnl(shift) == Sum(rows, LAMBDA row : StressPnl(row, shift))
WorstCase == CHOOSE s \in Shifts : \A r \in Shifts : ScenarioPnl(s) <= ScenarioPnl(r)

Notional(row) == Magnitude(row.net * row.avg)
SectorExposure(sector) ==
  LET within == SelectSeq(rows, LAMBDA row : SectorOf[FromFyers[row.symbol].internal_symbol] = sector)
  IN [notional |-> Sum(within, Notional), pnl |-> Sum(within, LAMBDA row : row.pnl)]

\* A margin of which nothing is used counts as unknown.
MarginUtilization ==
  [breach |-> margin.used > 0 /\ margin.available >= 0 /\ margin.used > margin.available,
   percent |-> IF margin.used > 0 /\ margin.available >= 0
               THEN (100 * margin.used) \div (margin.used + margin.available) ELSE -1]

-----------------------------------------------------------------------------
\* What the views are computed from.

Counted == now < MaxChanges /\ now' = now + 1

\* POSITION_CHANGED: the row, and a snapshot if any greeks are known, over those
\* that are.  The event of a fill carries no average.
OnPositionUpdate(row) ==
  /\ Counted
  /\ rows' = Upsert(rows, row)
  /\ history' = IF \E i \in DOMAIN rows' : GreeksKnown(rows'[i])
                THEN Append(history, [at |-> now, net |-> NetGreeks(rows'), count |-> Len(rows')])
                ELSE history
  /\ UNCHANGED <<watch, ivCache, lastSpot, margin, regimes>>

OnMarketData(symbol, quote) ==
  /\ Counted
  /\ watch' = Upsert(watch, [symbol |-> symbol, ltp |-> quote])
  /\ UNCHANGED <<rows, ivCache, lastSpot, margin, history, regimes>>

\* update_iv_cache, after a poll of one underlying's chain: a contract without
\* a volatility keeps the one of an earlier poll.
UpdateIvCache(symbol, spot, vols) ==
  LET listed == {FromFyers[t] : t \in {u \in Tickers : FromFyers[u].instrument_type = "OPTION"
                                                       /\ FromFyers[u].internal_symbol = symbol}}
      keys == {<<c.strike, c.option_type>> : c \in listed}
  IN /\ Counted /\ keys # {}
     /\ lastSpot' = spot
     /\ ivCache' = [k \in DOMAIN ivCache \cup (IF vols > 0 THEN keys ELSE {}) |->
                      IF k \in keys /\ vols > 0 THEN vols ELSE ivCache[k]]
     /\ UNCHANGED <<rows, watch, margin, history, regimes>>

PollMargin(used, available) ==
  /\ Counted
  /\ margin' = [used |-> used, available |-> available]
  /\ UNCHANGED <<rows, watch, ivCache, lastSpot, history, regimes>>

RecordRegime(regime) ==
  /\ Counted
  /\ regimes' = Append(regimes, [at |-> now, regime |-> regime])
  /\ UNCHANGED <<rows, watch, ivCache, lastSpot, margin, history>>

RiskViewNext ==
  \/ \E t \in Tickers, net \in {-1, 0, 1}, avg \in {0} \cup Quotes :
       OnPositionUpdate([symbol |-> t, net |-> net, avg |-> avg, pnl |-> 0])
  \/ \E t \in Tickers, quote \in Quotes : OnMarketData(FromFyers[t].internal_symbol, quote)
  \/ \E t \in Tickers, spot \in Quotes, vol \in Vols :
       UpdateIvCache(FromFyers[t].internal_symbol, spot, vol)
  \/ \E used, available \in Quotes : PollMargin(used, available)
  \/ \E regime \in Regimes : RecordRegime(regime)

RiskViewSpec == RiskViewInit /\ [][RiskViewNext]_riskViewVars
-----------------------------------------------------------------------------
\* Property.

\* A position is stressed at the price of its own underlying whenever the
\* watchlist has it, for the heat map stresses what is in the book:
\* portfolio_risk.py moves futures and equity legs by "dspot x net_quantity",
\* and takes the first price only as a fallback.
StressedAtOwnPrice ==
  \A i \in DOMAIN rows :
    LET own == SpotFor(FromFyers[rows[i].symbol].internal_symbol)
    IN rows[i].net # 0 /\ own > 0 => StressSpot(rows[i]) = own
=============================================================================
