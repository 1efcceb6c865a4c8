---------------------------- MODULE SignalRules ----------------------------
(***************************************************************************)
(* The arithmetic between a tick and a proposal: the three voters, the     *)
(* weighted direction and the D/P/G conviction, the correlation caps, the  *)
(* market regime, and the option hint built from a signal.  Ratios are in  *)
(* hundredths, confidences and convictions in thousandths, weights in      *)
(* tenths; quotients are cut, never rounded up.  A feature that was never  *)
(* computed is Absent from the feature record.                             *)
(***************************************************************************)
EXTENDS Integers, Sequences, FiniteSets, FiniteSetsExt, SequencesExt, Relation

Absent == -1
Computed(features, name, default) ==
  IF name \in DOMAIN features /\ features[name] # Absent THEN features[name] ELSE default

Lesser(a, b) == IF a < b THEN a ELSE b
Greater(a, b) == IF a > b THEN a ELSE b
Magnitude(n) == IF n < 0 THEN -n ELSE n

\* A vote as the voter returns it; the engine puts in the registry's weight.
Abstain(name, weight) == [name |-> name, dir |-> 0, conf |-> 0, weight |-> weight]
Ballot(name, weight, dir, conf) == [name |-> name, dir |-> dir, conf |-> conf, weight |-> weight]

OptionsFlowVote(features) ==
  LET pcr == Computed(features, "pcr", 100)
      oi == Computed(features, "oi_percentile_rank", 50)
      far == IF pcr > 130 THEN ((pcr - 130) * 500) \div 130 ELSE ((70 - pcr) * 500) \div 70
      conf == Lesser(far, 900)
      adjusted == CASE oi > 80 -> Lesser(conf + 150, 1000)
                    [] oi < 20 -> Greater(conf - 150, 100)
                    [] OTHER -> conf
  IN  IF pcr \in 70..130 THEN Abstain("options_flow_voter", 10)
      ELSE Ballot("options_flow_voter", 10, IF pcr > 130 THEN 1 ELSE -1, adjusted)

\* A zero ema_9 falls through `or` to a feature nobody computes.
MicroVote(features) ==
  LET fast == LET f == Computed(features, "ema_9", 0)
              IN  IF f = 0 THEN Computed(features, "ema", Absent) ELSE f
      slow == Computed(features, "ema_21", 0)
      gap == Magnitude(fast - slow)
  IN  IF fast = Absent \/ slow = 0 \/ gap * 1000 <= slow THEN Abstain("micro_voter", 10)
      ELSE Ballot("micro_voter", 10, IF fast > slow THEN 1 ELSE -1,
                  Lesser((gap * 50000) \div slow, 850))

BreadthVote(features) ==
  LET ad == Computed(features, "advance_decline_ratio", Absent)
  IN  IF ad = Absent \/ ad \in 67..150 THEN Abstain("breadth_voter", 8)
      ELSE IF ad > 150 THEN Ballot("breadth_voter", 8, 1, Lesser(((ad - 150) * 400) \div 150, 700))
      ELSE Ballot("breadth_voter", 8, -1, Lesser(((67 - ad) * 400) \div 67, 700))

Ballots(features) == <<OptionsFlowVote(features), MicroVote(features), BreadthVote(features)>>

Total(votes, Of(_)) == FoldLeft(LAMBDA sum, v : sum + Of(v), 0, votes)
Score(v) == v.dir * v.conf
Usable(v) == v.conf > 0 /\ v.dir # 0

\* Weighted direction: neutral within a tenth, or with no weight at all.
DirectionOf(votes) ==
  LET weight == Total(votes, LAMBDA v : v.weight)
      pull == Total(votes, LAMBDA v : Score(v) * v.weight)
  IN  CASE weight # 0 /\ pull > 100 * weight -> "UP"
        [] weight # 0 /\ pull < -100 * weight -> "DOWN"
        [] OTHER -> "NEUTRAL"
ConvictionOf(votes) ==
  LET weight == Total(votes, LAMBDA v : v.weight)
  IN  IF weight = 0 THEN 0 ELSE Magnitude(Total(votes, LAMBDA v : Score(v) * v.weight)) \div weight

\* D, P and G: the mean score of the usable votes, scaled by their share
\* among all voters, and whether they agree.
Participation(votes) ==
  (100 * Len(SelectSeq(votes, Usable))) \div Len(votes)
DirectionalScore(votes) ==
  LET sum == Total(SelectSeq(votes, Usable), Score)
  IN  IF sum >= 0 THEN sum \div Len(votes) ELSE -((-sum) \div Len(votes))
Grouping(votes) ==
  IF Cardinality({v.dir : v \in ToSet(SelectSeq(votes, Usable))}) = 1 THEN "unanimous" ELSE "contested"

StaleSignal == [direction |-> "NEUTRAL", conviction |-> 0, D |-> 0, P |-> 100, G |-> "contested", voters |-> <<>>]
SignalFrom(votes) ==
  IF votes = <<>> THEN StaleSignal ELSE
  [direction |-> DirectionOf(votes), conviction |-> ConvictionOf(votes),
   D |-> DirectionalScore(votes), P |-> Participation(votes), G |-> Grouping(votes), voters |-> votes]

\* Correlated voters: pairs that agreed in more than 70% of the rounds in
\* which both voted, closed transitively; the members of all groups together
\* may weigh no more than the cap, for the caps are keyed by their value.
SameSign(x, y) == (x > 0 /\ y > 0) \/ (x < 0 /\ y < 0) \/ (x = 0 /\ y = 0)
DirIn(round, name) == (CHOOSE v \in ToSet(round) : v.name = name).dir
Together(history, a, b) ==
  SelectSeq(history, LAMBDA round : {a, b} \subseteq {v.name : v \in ToSet(round)})
Agreeing(history, a, b) ==
  LET both == Together(history, a, b)
  IN  /\ both # <<>>
      /\ 10 * Len(SelectSeq(both, LAMBDA r : SameSign(DirIn(r, a), DirIn(r, b)))) > 7 * Len(both)
Correlated(history, names) ==
  TransitiveClosure([p \in names \X names |-> p[1] # p[2] /\ Agreeing(history, p[1], p[2])], names)
Grouped(history, names) ==
  LET linked == Correlated(history, names)
  IN  {n \in names : \E other \in names \ {n} : linked[<<n, other>>]}
BlockCap == 20
Capped(votes, history) ==
  LET names == {v.name : v \in ToSet(votes)}
      block == IF Len(history) < 5 THEN {} ELSE Grouped(history, names)
      total == Total(SelectSeq(votes, LAMBDA v : v.name \in block), LAMBDA v : v.weight)
  IN  SelectSeq(votes, LAMBDA v : v.name \notin block)
      \o [i \in DOMAIN SelectSeq(votes, LAMBDA v : v.name \in block) |->
            LET v == SelectSeq(votes, LAMBDA w : w.name \in block)[i]
            IN  IF total > BlockCap THEN [v EXCEPT !.weight = (v.weight * BlockCap) \div total] ELSE v]

(* Regimes ******************************************************************)
Regimes == {"volatile", "transition", "trending_up", "trending_down", "range_bound"}
\* `before` is the ADX of the previous classification, or Absent.
Classify(before, features) ==
  LET adx == Computed(features, "adx", 0)
      plus == Computed(features, "di_plus", 0)
      minus == Computed(features, "di_minus", 0)
  IN  CASE Computed(features, "atr_percentile", 0) > 80 -> "volatile"
        [] OTHER ->
             IF before > 25 /\ adx < 20 THEN "transition"
             ELSE IF adx > 25 /\ plus > minus THEN "trending_up"
             ELSE IF adx > 25 /\ minus > plus THEN "trending_down"
             ELSE "range_bound"
RegimeConfidence(features, regime) ==
  LET adx == Computed(features, "adx", 0)
      calm == 100 - Magnitude(Computed(features, "atr_percentile", 50) - 50)
  IN  IF regime = "volatile" THEN 80
      ELSE Greater(0, Lesser(100, (Lesser(2 * adx, 100) * 7 + calm * 3) \div 10))
Turned(prev, curr) ==
  /\ prev # curr
  /\ \/ prev \in {"trending_up", "trending_down"} /\ curr = "range_bound"
     \/ prev = "range_bound" /\ curr \in {"trending_up", "trending_down"}
     \/ curr \in {"transition", "volatile"}

(* Hints ********************************************************************)
ConvictionGate == 250
ParticipationGate == 50
Actionable(signal) ==
  /\ signal.direction # "NEUTRAL"
  /\ signal.conviction >= ConvictionGate
  /\ signal.P >= ParticipationGate

\* Calibrated sizing: quantity times the calibrated win rate over one half,
\* the multiplier between a quarter and two, at least one.
SizedQuantity(base, winRate) ==
  Greater(1, (base * Greater(25, Lesser(200, 2 * winRate))) \div 100)

\* The strike with the highest expected value after costs, if it is positive;
\* of equals the first in the chain.  `ev` of a row is its drift estimate.
BestStrike(rows) ==
  LET best == {i \in DOMAIN rows : \A j \in DOMAIN rows :
                 rows[j].ev < rows[i].ev \/ (rows[j].ev = rows[i].ev /\ i <= j)}
  IN  {rows[i] : i \in {k \in best : rows[k].ev > 0}}

HintFor(signal, chain, spotKnown, lotSize) ==
  LET side == IF signal.direction = "UP" THEN "CE" ELSE "PE"
      usable == SelectSeq(chain, LAMBDA row : row.type = side /\ ~(row.strike = 0 /\ row.premium = Absent))
      picked == IF spotKnown THEN BestStrike(usable) ELSE {}
      leg == IF picked = {} THEN [type |-> "none", strike |-> 0, premium |-> 0]
             ELSE CHOOSE row \in picked : TRUE
  IN  [type |-> leg.type, strike |-> leg.strike, price |-> Greater(leg.premium, 0),
       stop |-> Greater(leg.premium, 0) \div 2, target |-> 2 * Greater(leg.premium, 0),
       quantity |-> lotSize]

\* What the bridge gets: nothing below the gates, nothing without a lot size.
BuildHint(signal, chain, spotKnown, lotSize) ==
  IF Actionable(signal) /\ lotSize > 0 THEN {HintFor(signal, chain, spotKnown, lotSize)} ELSE {}
=============================================================================
