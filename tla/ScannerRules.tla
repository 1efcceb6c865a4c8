---------------------------- MODULE ScannerRules ----------------------------
(***************************************************************************)
(* What the scanners (intelligence/scanners), the open interest tracker    *)
(* and the calculators of max pain and IV rank (options) compute.  A rule  *)
(* gives the severity of the finding that a scanner emits, or "none".      *)
(*                                                                         *)
(* A contract is [strike, kind, oi, iv, gamma, delta, theta, vega]; ivs and*)
(* deltas are in percent, theta is without its sign.  A chain is a set of  *)
(* contracts.  Ratios are compared without dividing, so what the code      *)
(* rounds is not rounded.                                                  *)
(***************************************************************************)
EXTENDS Integers, Sequences, FiniteSets, FiniteSetsExt

LOCAL Distance(m, n) == IF m > n THEN m - n ELSE n - m

SumOf(f(_), S) == MapThenSumSet(f, S)
SumSeq(seq) == MapThenSumSet(LAMBDA i : seq[i], DOMAIN seq)

CallOptions(chain) == {c \in chain : c.kind = "CE"}
Puts(chain) == {c \in chain : c.kind = "PE"}
Strikes(chain) == {c.strike : c \in chain}

-----------------------------------------------------------------------------
\* Rules over bars.

\* The open of a bar against the close of the bar before.
GapFill(before, bar) ==
  LET gap == Distance(bar.open, before.close)
  IN IF before.close = 0 \/ 100 * gap < before.close THEN "none"
     ELSE IF 1000 * gap >= 15 * before.close THEN "HIGH" ELSE "MEDIUM"

\* Three times the average volume within a price that hardly moves.
VolumeAnomaly(volumes, bar) ==
  IF /\ Len(volumes) >= 2 /\ SumSeq(volumes) > 0
     /\ bar.volume * Len(volumes) > 3 * SumSeq(volumes)
     /\ bar.open > 0 /\ 1000 * Distance(bar.close, bar.open) < 5 * bar.open
  THEN "HIGH" ELSE "none"

\* Significance of a change of open interest, for an alert and for a finding.
OiAlert(previous, oi) ==
  LET change == 100 * Distance(oi, previous)
  IN IF previous <= 0 \/ change < 25 * previous THEN "none"
     ELSE IF change >= 100 * previous THEN "HIGH"
     ELSE IF change >= 50 * previous THEN "MEDIUM" ELSE "LOW"

OiBuildup(previous, oi) ==
  LET change == 100 * Distance(oi, previous)
  IN IF previous <= 0 \/ oi <= 0 \/ change < 20 * previous THEN "none"
     ELSE IF change >= 50 * previous THEN "HIGH" ELSE "MEDIUM"

-----------------------------------------------------------------------------
\* Rules over option chains.

GammaSpike(gammas, gamma) ==
  IF Len(gammas) >= 2 /\ gamma * Len(gammas) > 2 * SumSeq(gammas) THEN "HIGH" ELSE "none"

\* Where an iv lies between the least and the largest one recorded, in percent:
\* rank = 100 * IvOver / IvSpan.
IvSpan(ivs) == Max({ivs[i] : i \in DOMAIN ivs}) - Min({ivs[i] : i \in DOMAIN ivs})
IvOver(ivs, iv) == iv - Min({ivs[i] : i \in DOMAIN ivs})
IvRankAbove(ivs, iv, pct) ==
  IF IvSpan(ivs) > 0 THEN 100 * IvOver(ivs, iv) > pct * IvSpan(ivs) ELSE 50 > pct
IvRankBelow(ivs, iv, pct) ==
  IF IvSpan(ivs) > 0 THEN 100 * IvOver(ivs, iv) < pct * IvSpan(ivs) ELSE 50 < pct

\* A high rank at most two days before expiry.
IvCrush(ivs, iv, dte) ==
  IF Len(ivs) >= 2 /\ IvRankAbove(ivs, iv, 80) /\ dte <= 2 THEN "HIGH" ELSE "none"

\* A low rank, and the iv a tenth above the one seen at the last low rank.
IvExpansion(ivs, iv, lastLow) ==
  IF /\ Len(ivs) >= 2 /\ IvRankBelow(ivs, iv, 20)
     /\ lastLow > 0 /\ 100 * (iv - lastLow) >= 10 * lastLow
  THEN "HIGH" ELSE "none"

\* The call nearest to the spot.
AtmIv(chain, spot) ==
  LET usable == {c \in CallOptions(chain) : c.strike > 0 /\ c.iv > 0}
  IN IF usable = {} \/ spot <= 0 THEN 0
     ELSE (CHOOSE c \in usable :
             \A d \in usable : Distance(c.strike, spot) <= Distance(d.strike, spot)).iv

\* What all holders lose if the underlying settles at a strike.
Pain(chain, settle) ==
  SumOf(LAMBDA c : IF c.strike > settle THEN (c.strike - settle) * c.oi ELSE 0, CallOptions(chain))
  + SumOf(LAMBDA c : IF c.strike < settle THEN (settle - c.strike) * c.oi ELSE 0, Puts(chain))

\* The least strike with the least pain; 0 if no contract is usable.
MaxPain(chain) ==
  LET used == {c \in chain : c.strike > 0 /\ c.oi > 0}
      least == {s \in Strikes(used) : \A t \in Strikes(used) : Pain(used, s) <= Pain(used, t)}
  IN IF used = {} THEN 0 ELSE Min(least)

\* Spot and max pain drift apart shortly before expiry.
MaxPainDrift(chain, spot, dte) ==
  LET pain == MaxPain(chain)
      drift == 100 * Distance(spot, pain)
  IN IF dte >= 3 \/ pain = 0 \/ spot <= 0 \/ drift <= 2 * pain THEN "none"
     ELSE IF drift > 5 * pain THEN "HIGH" ELSE "MEDIUM"

\* put and call are open interests.
PcrExtreme(put, call) ==
  IF put = 0 \/ call = 0 \/ (100 * put >= 50 * call /\ 100 * put <= 150 * call) THEN "none"
  ELSE IF 100 * put < 30 * call \/ 100 * put > 200 * call THEN "HIGH" ELSE "MEDIUM"

ThetaHarvest(chain, spot, dte) ==
  {c \in chain : dte < 10 /\ 100 * Distance(c.strike, spot) <= 2 * spot
                 /\ c.iv > 0 /\ c.vega > 0 /\ c.theta > 3 * c.vega}

\* Iv of the call whose delta is nearest, the lesser delta first.
IvAtDelta(chain, delta) ==
  LET nearest == {c \in CallOptions(chain) :
                    \A d \in CallOptions(chain) : Distance(c.delta, delta) <= Distance(d.delta, delta)}
  IN (CHOOSE c \in nearest : \A d \in nearest : c.delta <= d.delta).iv

VerticalSkew(chain) ==
  IF Cardinality(CallOptions(chain)) >= 2 /\ IvAtDelta(chain, 25) > 0
     /\ 100 * Distance(IvAtDelta(chain, 25), IvAtDelta(chain, 75)) > 5 * IvAtDelta(chain, 25)
  THEN "MEDIUM" ELSE "none"

\* Strikes whose ivs of two expiries differ; twice the mean of call and put.
CalendarSpread(weekly, monthly) ==
  LET usable(chain, s) == {c \in chain : c.strike = s /\ c.strike > 0 /\ c.iv > 0}
      doubled(chain, s) == (2 * SumOf(LAMBDA c : c.iv, usable(chain, s)))
                             \div Cardinality(usable(chain, s))
  IN {s \in Strikes(weekly) \cap Strikes(monthly) :
        /\ usable(weekly, s) # {} /\ usable(monthly, s) # {}
        /\ 100 * Distance(doubled(weekly, s), doubled(monthly, s)) > 15 * doubled(weekly, s)}
=============================================================================
