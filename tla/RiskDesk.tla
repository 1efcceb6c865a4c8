------------------------------ MODULE RiskDesk ------------------------------
(***************************************************************************)
(* Approvals in PAPER mode and what their risk check sees.  The check runs *)
(* over a portfolio that the application puts together (_portfolio_provider*)
(* in terminal/api/app.py) from the position projection, the risk          *)
(* projection and the paper account.  The position projection learns of a  *)
(* fill from an event, which carries no average price, and from a refresh; *)
(* the risk projection learns of margins from a poll of the broker and     *)
(* from RiskBusBridge (intelligence/risk/bus_bridge.py).                   *)
(*                                                                         *)
(* A fill is whole here, without slippage and fees: PaperTrading has the   *)
(* rest.  The events between RiskBusBridge and the risk projection take    *)
(* effect at once.                                                         *)
(***************************************************************************)
EXTENDS RiskFilters, Sequences

CONSTANTS
  Offers,    \* proposals: [symbol, side, kind, qty, entry, stop, target]
  Levels,    \* prices a tick may have
  Settings,  \* limits the operator may set
  Polls,     \* [used, available] the broker may report
  Capital,   \* cash of the paper account at the start
  MaxOrders  \* bound: orders approved

ASSUME DeskRiskAssumption ==
  /\ Levels \subseteq Nat \ {0} /\ Capital \in Nat /\ MaxOrders \in Nat
  /\ Polls \subseteq [used : Nat, available : Nat]
  /\ \A l \in Settings : l.maxPositions \in Nat
  /\ \A o \in Offers : /\ o.symbol \in Instruments /\ o.side \in {"BUY", "SELL"}
                        /\ o.qty \in Nat \ {0} /\ o.entry \in Nat

VARIABLES
  price,   \* [Instruments -> last price, 0 before the first tick]
  held,    \* the paper engine's positions: [Instruments -> [net, avg]], avg the buy average
  cash,
  orders,  \* approved orders, in turn: [offer, status]
  rows,    \* rows of the position projection, by symbol
  fills,   \* POSITION_CHANGED events under way
  margin,  \* the risk projection's margins; available is -1 before it knows
  limits,  \* the operator's settings
  blind,   \* history: approvals while a row lagged behind the engine or an order rested
  topCap,  \* history: the largest max_positions so far
  slack    \* history: the least distance of the day's result to the loss limit, at an approval

riskVars == <<price, held, cash, orders, rows, fills, margin, limits, blind, topCap, slack>>
historyVars == <<blind, topCap, slack>>

RiskInit ==
  /\ price = [s \in Instruments |-> 0]
  /\ held = [s \in Instruments |-> [net |-> 0, avg |-> 0]]
  /\ cash = Capital
  /\ orders = <<>> /\ rows = <<>> /\ fills = <<>>
  /\ margin = [used |-> 0, available |-> -1]
  /\ limits \in Settings
  /\ blind = 0 /\ topCap = limits.maxPositions /\ slack = 0

-----------------------------------------------------------------------------
\* The portfolio of a check.

Flat == [net |-> 0, avg |-> 0]
Row(s) == IF s \in DOMAIN rows THEN rows[s] ELSE Flat

MarketValue == MapThenSumSet(LAMBDA s : held[s].net * price[s], Instruments)
OpenNotional ==
  MapThenSumSet(LAMBDA s : Notional([net |-> held[s].net, avg |-> price[s]]), Instruments)

\* RiskBusBridge repeats the daily result that position events report, and no
\* publisher of position events reports one.
ReportedPnl == 0

\* A margin_total that the poll reports is dropped by the risk projection.
PortfolioProvider ==
  LET known == margin.available >= 0
  IN [positions |-> [s \in Instruments |-> Row(s)],
      pnl |-> ReportedPnl,
      used |-> IF known THEN margin.used ELSE OpenNotional,
      available |-> IF known THEN margin.available ELSE cash,
      equity |-> IF ~known THEN cash + OpenNotional
                 ELSE IF margin.used > 0 THEN margin.used + margin.available ELSE 0]

\* Nobody calls record_stop_hit.
NoStopHits == [s \in Instruments |-> -1]

-----------------------------------------------------------------------------
\* The paper engine, as far as the check sees it.

PositionWith(p, o, at) ==
  LET net == IF o.side = "BUY" THEN p.net + o.qty ELSE p.net - o.qty
  IN [net |-> net,
      avg |-> IF o.side = "SELL" THEN p.avg
              ELSE IF p.net >= 0 THEN (p.avg * p.net + at * o.qty) \div net
              ELSE IF net > 0 THEN at ELSE p.avg]

Spend(o, at) == IF o.side = "BUY" THEN -(o.qty * at) ELSE o.qty * at

Fill(o, at) ==
  /\ held' = [held EXCEPT ![o.symbol] = PositionWith(@, o, at)]
  /\ cash' = cash + Spend(o, at)
  /\ fills' = Append(fills, [symbol |-> o.symbol, side |-> o.side, qty |-> o.qty])

Resting(i) == orders[i].status = "resting"

\* The check sees neither an order that rests nor a fill that is not projected.
Lagging == (\E i \in DOMAIN orders : Resting(i)) \/ \E s \in Instruments : Row(s).net # held[s].net

DayResult == cash + MarketValue - Capital

\* POST /approve: the risk check, then the order.  A MARKET order has a price to
\* be checked only if its hint names a premium; it fills at the last price.
Approve(o) ==
  /\ Len(orders) < MaxOrders
  /\ CheckEntry(PortfolioProvider, o, NoStopHits, limits)
  /\ \/ /\ o.kind = "MARKET" /\ price[o.symbol] > 0
        /\ Fill(o, price[o.symbol])
        /\ orders' = Append(orders, [offer |-> o, status |-> "filled"])
     \/ /\ o.kind = "LIMIT"
        /\ orders' = Append(orders, [offer |-> o, status |-> "resting"])
        /\ UNCHANGED <<held, cash, fills>>
  /\ blind' = IF Lagging THEN blind + 1 ELSE blind
  /\ LET distance == DayResult - limits.lossLimit
     IN slack' = IF distance < slack THEN distance ELSE slack
  /\ UNCHANGED <<price, rows, margin, limits, topCap>>

Crosses(i, s, p) ==
  LET o == orders[i].offer
  IN Resting(i) /\ o.symbol = s /\ (IF o.side = "BUY" THEN p <= o.entry ELSE p >= o.entry)

\* A tick fills the resting orders it reaches, one here and the next with the
\* next tick, and makes RiskBusBridge publish a margin_used of 0.
PriceMoves(s, p) ==
  /\ p # price[s] \/ \E i \in DOMAIN orders : Crosses(i, s, p)
  /\ price' = [price EXCEPT ![s] = p]
  /\ \/ /\ ~\E i \in DOMAIN orders : Crosses(i, s, p)
        /\ UNCHANGED <<held, cash, orders, fills>>
     \/ \E i \in DOMAIN orders :
          /\ Crosses(i, s, p)
          /\ Fill(orders[i].offer, orders[i].offer.entry)
          /\ orders' = [orders EXCEPT ![i].status = "filled"]
  /\ margin' = [margin EXCEPT !.used = 0]
  /\ UNCHANGED <<rows, limits, historyVars>>

\* POST /positions/close: an opposite MARKET order for all of the position, with
\* no risk check.
ClosePosition(s) ==
  LET net == held[s].net
      o == [symbol |-> s, side |-> IF net > 0 THEN "SELL" ELSE "BUY", qty |-> IF net > 0 THEN net ELSE -net]
  IN /\ net # 0 /\ price[s] > 0
     /\ Fill(o, price[s])
     /\ UNCHANGED <<price, orders, rows, margin, limits, historyVars>>

-----------------------------------------------------------------------------
\* The projections and the settings.

\* A fill event has no net quantity and no average.
DispatchFill ==
  /\ fills # <<>>
  /\ LET e == Head(fills)
         net == IF e.side = "SELL" /\ e.symbol \notin DOMAIN rows THEN -e.qty ELSE e.qty
     IN rows' = [s \in DOMAIN rows \cup {e.symbol} |->
                   IF s = e.symbol THEN [net |-> net, avg |-> 0] ELSE rows[s]]
  /\ fills' = Tail(fills)
  /\ margin' = [margin EXCEPT !.used = 0]
  /\ UNCHANGED <<price, held, cash, orders, limits, historyVars>>

Traded == {orders[i].offer.symbol : i \in {j \in DOMAIN orders : orders[j].status = "filled"}}

\* refresh(): the engine has a position for every symbol it ever filled.
RefreshRows ==
  /\ rows' = [s \in DOMAIN rows \cup Traded |-> held[s]]
  /\ UNCHANGED <<price, held, cash, orders, fills, margin, limits, historyVars>>

MarginPolled(m) ==
  /\ margin' = m
  /\ UNCHANGED <<price, held, cash, orders, rows, fills, limits, historyVars>>

UpdateLimits(l) ==
  /\ limits' = l
  /\ topCap' = IF l.maxPositions > topCap THEN l.maxPositions ELSE topCap
  /\ UNCHANGED <<price, held, cash, orders, rows, fills, margin, blind, slack>>

RiskNext ==
  \/ \E o \in Offers : Approve(o)
  \/ \E s \in Instruments : (\E p \in Levels : PriceMoves(s, p)) \/ ClosePosition(s)
  \/ DispatchFill \/ RefreshRows
  \/ \E m \in Polls : MarginPolled(m)
  \/ \E l \in Settings : UpdateLimits(l)

RiskSpec == RiskInit /\ [][RiskNext]_riskVars

-----------------------------------------------------------------------------
\* Rows exist for instruments that were traded, fills under way are of approved
\* orders or closes of them, and no order is approved beyond the bound.
RiskTypeOK ==
  /\ price \in [Instruments -> Levels \cup {0}]
  /\ held \in [Instruments -> [net : Int, avg : Nat]] /\ cash \in Int
  /\ Len(orders) <= MaxOrders
  /\ \A i \in DOMAIN orders : orders[i].offer \in Offers /\ orders[i].status \in {"resting", "filled"}
  /\ DOMAIN rows \subseteq Traded
  /\ \A i \in DOMAIN fills : fills[i].symbol \in Traded
  /\ margin \in Polls \cup {[m EXCEPT !.used = 0] : m \in Polls} \cup {[used |-> 0, available |-> -1]}
  /\ limits \in Settings /\ blind \in 0 .. MaxOrders

\* More positions are open than max_positions ever allowed only if some were
\* approved while the projection lagged behind, and then at most one for each
\* of those approvals.
CapHoldsUpToBlindApprovals == Cardinality(OpenIn(held)) <= topCap + blind

\* risk_engine.py:152: "Blocks entries when daily loss exceeds limit."  An order
\* is approved only while the day's result is not below the limit.
NoEntryBeyondLossLimit == slack >= 0
=============================================================================
