----------------------------- MODULE MCRiskDesk -----------------------------
\* Constants for model checking RiskDesk: two underlyings of one sector, bought
\* and sold at market and at a limit.
EXTENDS RiskDesk

MCOwnUnderlying == [s \in Instruments |-> s]

MCOneSector == [s \in Instruments |-> "Index"]

Offer(s, side, kind) ==
  [symbol |-> s, side |-> side, kind |-> kind, qty |-> 1,
   entry |-> IF kind = "LIMIT" THEN 2 ELSE 0, stop |-> 0, target |-> 0]

MCOffers ==
  { Offer("NIFTY", "BUY", "MARKET"), Offer("NIFTY", "BUY", "LIMIT"),
    Offer("BANKNIFTY", "BUY", "LIMIT"), Offer("BANKNIFTY", "SELL", "MARKET") }

\* One position at most; a loss of one ends the day.
MCSettings ==
  { [lossLimit |-> -1, maxLossPct |-> 100, minRiskReward |-> 15, marginPct |-> 100,
     perUnderlying |-> 2, sectorPct |-> 20, directionPct |-> 80, maxPositions |-> 1,
     cooldown |-> 30] }

MCPolls == {[used |-> 2, available |-> 20]}
=============================================================================
