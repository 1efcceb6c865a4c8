--------------------------- MODULE MCPortfolioRisk ---------------------------
\* Constants for model checking PortfolioRisk: a share, and an index option of
\* which the price is what it is worth now.
EXTENDS PortfolioRisk

Parsed(kind, symbol, strike, option_type) ==
  [instrument_type |-> kind, internal_symbol |-> symbol, strike |-> strike,
   option_type |-> option_type]

MCFromFyers ==
  [t \in Tickers |->
     IF t = "TCS-EQ" THEN Parsed("EQUITY", "TCS", 0, "none") ELSE Parsed("OPTION", "NIFTY", 40, "CE")]

MCLotSizeOf == [t \in Tickers |-> IF t = "TCS-EQ" THEN 0 ELSE 75]
MCSectorOf == [s \in {"TCS", "NIFTY"} |-> IF s = "TCS" THEN "IT" ELSE "Index"]

MCOptionPrice(c, spot, vol) == IF spot > c.strike THEN spot - c.strike + vol ELSE vol
MCUnitGreek(g, c, spot, vol) == IF g = "theta" THEN -vol ELSE IF spot > c.strike THEN 2 ELSE 1
=============================================================================
