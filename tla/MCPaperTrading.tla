--------------------------- MODULE MCPaperTrading ---------------------------
\* Constants for model checking PaperTrading.
EXTENDS PaperTrading

CONSTANTS o1, o2, o3, nifty

MCSymmetry == Permutations(Orders)

\* Prices whose averages leave remainders.
MCPrices == {20000, 45001}
=============================================================================
