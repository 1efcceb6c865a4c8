---------------------------- MODULE RiskFilters ----------------------------
(***************************************************************************)
(* The filters of the risk engine (intelligence/risk/risk_engine.py), each *)
(* as a predicate that holds when the filter lets a proposal pass.         *)
(*                                                                         *)
(* A portfolio is [positions, pnl, used, available, equity]; its positions *)
(* are a function from symbols to [net, avg].  A proposal is [symbol,      *)
(* side, kind, qty, entry, stop, target].  Zero stands for a price or an   *)
(* equity that is not known: the code treats zero and None alike.  A       *)
(* quantity is in units: lots times their size.                            *)
(* Percentages are whole numbers, the risk-reward ratio is in tenths.      *)
(***************************************************************************)
EXTENDS Integers, FiniteSets, FiniteSetsExt

CONSTANTS
  Instruments,   \* symbols that can be traded
  UnderlyingOf,  \* [Instruments -> underlyings]
  SectorOf,      \* [Instruments -> sectors]
  MinimumMargin  \* required while no margin is in use

ASSUME RiskAssumption == MinimumMargin \in Nat /\ IsFiniteSet(Instruments)

LOCAL Abs(n) == IF n < 0 THEN -n ELSE n

\* A setting of zero counts as unset.
OrDefault(setting, default) == IF setting = 0 THEN default ELSE setting

OpenIn(positions) == {s \in Instruments : positions[s].net # 0}

Notional(position) == Abs(position.net * position.avg)

ProposedNotional(o) == o.entry * o.qty

\* What the filters add to the portfolio for the proposal.
Counted(o, s) == o.qty > 0 /\ s = o.symbol

Priced(o) == o.qty > 0 /\ o.entry > 0

-----------------------------------------------------------------------------

LossLimitFilter(p, limits) == p.pnl >= limits.lossLimit

\* The distance to the stop, or the whole premium without one.
PotentialLoss(o) == (IF o.stop > 0 THEN Abs(o.entry - o.stop) ELSE o.entry) * o.qty

MaxLossPerTradeFilter(p, o, limits) ==
  /\ p.equity > 0
  /\ o.entry > 0 => 100 * PotentialLoss(o) <= limits.maxLossPct * p.equity

RiskRewardFilter(o, limits) ==
  LET long == o.side = "BUY"
      risk == IF long THEN o.entry - o.stop ELSE o.stop - o.entry
      reward == IF long THEN o.target - o.entry ELSE o.entry - o.target
  IN o.entry > 0 /\ o.stop > 0 /\ o.target > 0 =>
       risk > 0 /\ 10 * reward >= limits.minRiskReward * risk

MarginFilter(p) ==
  IF p.used > 0 THEN 10 * p.available >= p.used ELSE p.available >= MinimumMargin

MarginHeatFilter(p, o, limits) ==
  o.entry > 0 =>
    /\ p.used + p.available > 0
    /\ 100 * (p.used + ProposedNotional(o)) <=
         limits.marginPct * (p.used + p.available)

\* Every underlying is looked at, not only the proposal's.
UnderlyingConcentrationFilter(p, o, limits) ==
  \A u \in {UnderlyingOf[s] : s \in OpenIn(p.positions) \cup {o.symbol}} :
    LET held == {s \in OpenIn(p.positions) : UnderlyingOf[s] = u}
        more == IF Counted(o, o.symbol) /\ UnderlyingOf[o.symbol] = u THEN 1 ELSE 0
    IN Cardinality(held) + more <= limits.perUnderlying

NotionalIn(p, o, symbols) ==
  MapThenSumSet(LAMBDA s : Notional(p.positions[s]), OpenIn(p.positions) \cap symbols)
  + (IF Priced(o) /\ o.symbol \in symbols THEN ProposedNotional(o) ELSE 0)

\* A portfolio within one sector passes.
SectorConcentrationFilter(p, o, limits) ==
  LET counted == OpenIn(p.positions) \cup (IF Priced(o) THEN {o.symbol} ELSE {})
      sectors == {SectorOf[s] : s \in counted}
      total == NotionalIn(p, o, Instruments)
  IN total > 0 /\ Cardinality(sectors) > 1 =>
       \A sector \in sectors :
         100 * NotionalIn(p, o, {s \in Instruments : SectorOf[s] = sector}) <=
           limits.sectorPct * total

\* So does one that is all long or all short.
DirectionConcentrationFilter(p, o, limits) ==
  LET held(sign) ==
        MapThenSumSet(LAMBDA s : Notional(p.positions[s]),
                      {s \in OpenIn(p.positions) : p.positions[s].net * sign > 0})
      proposed(side) == IF Priced(o) /\ (o.side = "BUY") = (side = "BUY")
                        THEN ProposedNotional(o) ELSE 0
      long == held(1) + proposed("BUY")
      short == held(-1) + proposed("SELL")
  IN long > 0 /\ short > 0 =>
       /\ 100 * long <= limits.directionPct * (long + short)
       /\ 100 * short <= limits.directionPct * (long + short)

\* Faulty variant: one position too many.
MaxPositionFilterLax(p, limits) == Cardinality(OpenIn(p.positions)) <= limits.maxPositions

MaxPositionFilter(p, limits) == Cardinality(OpenIn(p.positions)) < limits.maxPositions

\* hits: [Instruments -> minutes since the stop was hit, or -1 for never].
StopHitCooldownFilter(hits, o, limits) ==
  hits[o.symbol] >= 0 => hits[o.symbol] >= OrDefault(limits.cooldown, 30)

\* check_entry: all filters, in the code's order; the regime filter is a stub.
CheckEntry(p, o, hits, limits) ==
  /\ LossLimitFilter(p, limits)
  /\ MaxLossPerTradeFilter(p, o, limits)
  /\ RiskRewardFilter(o, limits)
  /\ MarginFilter(p)
  /\ MarginHeatFilter(p, o, limits)
  /\ UnderlyingConcentrationFilter(p, o, limits)
  /\ SectorConcentrationFilter(p, o, limits)
  /\ DirectionConcentrationFilter(p, o, limits)
  /\ MaxPositionFilter(p, limits)
  /\ StopHitCooldownFilter(hits, o, limits)
=============================================================================
