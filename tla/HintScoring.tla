---------------------------- MODULE HintScoring ----------------------------
(***************************************************************************)
(* Hints that became proposals and how they are scored when a position     *)
(* closes (terminal/hint_outcome.py, terminal/api/hint_store.py).  Hints   *)
(* are kept in the order they were suggested.                              *)
(***************************************************************************)
EXTENDS Integers, Sequences, FiniteSetsExt

CONSTANT StartsWith  \* pairs of symbols, the first of which begins with the second

Directions == {"bullish", "bearish"}
Outcomes == {"none", "win", "loss"}

RecordHint(hints, symbol, direction) ==
  Append(hints, [symbol |-> symbol, direction |-> direction, outcome |-> "none"])

\* The symbols agree if one begins with the other.
Matches(hint, symbol) ==
  \/ hint.symbol = symbol
  \/ <<hint.symbol, symbol>> \in StartsWith
  \/ <<symbol, hint.symbol>> \in StartsWith

Unresolved(hints, symbol, direction) ==
  {i \in DOMAIN hints : /\ hints[i].outcome = "none"
                        /\ hints[i].direction = direction
                        /\ Matches(hints[i], symbol)}

\* Faulty variant: only longs are hinted at.
ClosingDirectionsLong(side) == <<"bullish">>

\* A closing sale ends a long, which a bullish hint proposed.  A flat position
\* reported without a side may have been either.
ClosingDirections(side) ==
  IF side = "SELL" THEN <<"bullish">>
  ELSE IF side = "BUY" THEN <<"bearish">>
  ELSE <<"bullish", "bearish">>

\* find_hint: the latest unresolved hint of a direction, 0 for none.
FindHint(hints, symbol, direction) == Max({0} \cup Unresolved(hints, symbol, direction))

\* An outcome stays what it was first.
RecordOutcome(hints, i, pnl) ==
  IF hints[i].outcome # "none" THEN hints
  ELSE [hints EXCEPT ![i].outcome = IF pnl > 0 THEN "win" ELSE "loss"]

\* The hint found in the first direction that has one gets the outcome.
Score(hints, symbol, side, pnl) ==
  LET ds == ClosingDirections(side)
      found == [i \in DOMAIN ds |-> FindHint(hints, symbol, ds[i])]
      hits == {i \in DOMAIN ds : found[i] > 0}
  IN IF hits = {} THEN hints ELSE RecordOutcome(hints, found[Min(hits)], pnl)
=============================================================================
