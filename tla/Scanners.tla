------------------------------ MODULE Scanners ------------------------------
(***************************************************************************)
(* The opportunity scanners and what becomes of a finding: the bar driven  *)
(* scanners, the poller that runs the chain driven ones over the cached    *)
(* chain of one underlying, the projection that lists, pushes and stores a *)
(* finding, and the bridge that turns one into a proposal.                 *)
(*                                                                         *)
(* A finding is [type, severity, side]; side is what the detail says of a  *)
(* direction, as far as the bridge reads it.                               *)
(***************************************************************************)
EXTENDS ScannerRules, SequencesExt

CONSTANTS
  Chains,        \* option chains the feed may answer: [spot, contracts]
  NoChain,       \* the cache before it is primed
  BarFeed,       \* bars the bus may carry: [open, close, volume, oi]
  Dtes,          \* days to expiry the poller may resolve (91 when it cannot)
  MinSeverity,   \* bridge configuration: scanner_proposal_bridge
  Eligible,      \*   scanner types, the empty set for all of them
  Cooldown,      \*   in units of the clock
  MaxPerType,    \* findings listed per type: MAX_PER_TYPE
  Lookback,      \* volumes the volume scanner remembers
  MaxTime, MaxWork, MaxReboots   \* bounds: clock; polls, fetches and bars; restarts

ASSUME ScanAssumption ==
  /\ \A chain \in Chains : IsFiniteSet(chain.contracts)
  /\ Cooldown \in Nat /\ MaxPerType \in Nat /\ MaxTime \in Nat

Rank(severity) == CASE severity = "LOW" -> 0 [] severity = "MEDIUM" -> 1 [] OTHER -> 2

FindingTypes == {"gap_fill", "volume_anomaly", "oi_buildup", "gamma_spike", "iv_crush",
                 "iv_expansion", "pcr_extremes", "max_pain_drift", "theta_harvest",
                 "vertical_skew"}

VARIABLES
  cached,      \* app.state.options_chain for the underlying
  ivs,         \* IVRankCalculator._historical_iv, shared by its three writers
  gammas,      \* GammaSpikeScanner._gamma_history: [strike -> Seq]
  ois,         \* OITracker._oi_data under expiry "": [<<strike, kind>> -> oi]
  lastLow,     \* IVExpansionScanner._prev_vix, 0 before the first low rank
  barMemory,   \* the bar scanners: [closed, volumes, oi], -1 and 0 for nothing yet
  emitted,     \* findings on the bus, not handled yet
  listed,      \* ScannerProjection._findings
  stored,      \* how many findings ScannerStore holds
  cooled,      \* the bridge's cooldown: [type -> time or -1]
  bridged,     \* proposals made by the bridge: [type, at, boot]
  elapsed, work, boot

scanVars == <<cached, ivs, gammas, ois, lastLow, barMemory, emitted, listed, stored, cooled,
              bridged, elapsed, work, boot>>

memory == <<ivs, gammas, ois, lastLow>>

ScanInit ==
  /\ cached = NoChain /\ ivs = <<>> /\ lastLow = 0
  /\ gammas = <<>> /\ ois = <<>>
  /\ barMemory = [closed |-> -1, volumes |-> <<>>, oi |-> 0]
  /\ emitted = <<>> /\ listed = [t \in FindingTypes |-> <<>>] /\ stored = 0
  /\ cooled = [t \in FindingTypes |-> -1] /\ bridged = {}
  /\ elapsed = 0 /\ work = 0 /\ boot = 0

Found(type, severity, side) == [type |-> type, severity |-> severity, side |-> side]
FoundIf(type, severity, side) ==
  IF severity = "none" THEN <<>> ELSE <<Found(type, severity, side)>>

LastOf(seq, n) == SubSeq(seq, IF Len(seq) > n THEN Len(seq) - n + 1 ELSE 1, Len(seq))

-----------------------------------------------------------------------------
(* A bar reaches the three bar driven scanners.                            *)

OnBar(bar) ==
  /\ work < MaxWork
  /\ LET m == barMemory
         gap == IF m.closed < 0 THEN "none" ELSE GapFill([close |-> m.closed], bar)
         found == FoundIf("gap_fill", gap, "none")
                  \o FoundIf("volume_anomaly", VolumeAnomaly(m.volumes, bar), "none")
                  \o FoundIf("oi_buildup", OiBuildup(m.oi, bar.oi), "none")
     IN /\ emitted' = emitted \o found
        /\ barMemory' = [closed |-> bar.close, volumes |-> LastOf(Append(m.volumes, bar.volume), Lookback),
                         oi |-> IF bar.oi > 0 THEN bar.oi ELSE m.oi]
  /\ work' = work + 1
  /\ UNCHANGED <<cached, memory, listed, stored, cooled, bridged, elapsed, boot>>

-----------------------------------------------------------------------------
(* The chain driven scanners.                                              *)

RawIvs(chain) == {c \in chain.contracts : c.rawIv > 0}

\* Contracts that left the chain stay.
OisAfter(chain) ==
  LET key(c) == <<c.strike, c.kind>>
      listedNow == {key(c) : c \in chain.contracts}
  IN [k \in DOMAIN ois \cup listedNow |->
        IF k \in listedNow THEN (CHOOSE c \in chain.contracts : key(c) = k).oi ELSE ois[k]]

\* _feed_options_calculators: the ivs of the feed, in some order.
RawIvsOf(chain) == LET fed == SetToSeq(RawIvs(chain)) IN [i \in DOMAIN fed |-> fed[i].rawIv]

\* A fetch of the chain (prime_options_chain, or the options endpoint): the cache is
\* replaced and the calculators are fed; a failed or empty fetch changes nothing.
RefreshChain(chain) ==
  /\ work < MaxWork
  /\ chain.contracts # {}
  /\ cached' = chain
  /\ ivs' = ivs \o RawIvsOf(chain)
  /\ ois' = OisAfter(chain)
  /\ work' = work + 1
  /\ UNCHANGED <<gammas, lastLow, barMemory, emitted, listed, stored, cooled, bridged, elapsed, boot>>

\* Gammas a chain holds for a strike, the call first.
GammasAt(chain, s) ==
  LET of(kind) == {c \in chain.contracts : c.strike = s /\ c.kind = kind /\ c.gamma > 0}
      one(kind) == IF of(kind) = {} THEN <<>> ELSE <<(CHOOSE c \in of(kind) : TRUE).gamma>>
  IN one("CE") \o one("PE")
GammaHistory(s) == IF s \in DOMAIN gammas THEN gammas[s] ELSE <<>>
GammaFound(chain, s) ==
  LET new == GammasAt(chain, s)
      spike(i) == GammaSpike(GammaHistory(s) \o SubSeq(new, 1, i - 1), new[i])
  IN FlattenSeq([i \in DOMAIN new |-> FoundIf("gamma_spike", spike(i), "none")])

OiOf(data, kind) == SumOf(LAMBDA k : data[k], {k \in DOMAIN data : k[2] = kind})

\* One pass of the poller over a chain: what it emits, in order, and what it remembers.
Pass(chain, dte) ==
  LET held == chain.contracts
      atm == AtmIv(held, chain.spot)
      fed == ivs \o RawIvsOf(chain)
      crushIvs == Append(fed, atm)
      expansionIvs == Append(crushIvs, atm)
      data == OisAfter(chain)
      lowRank == Len(expansionIvs) >= 2 /\ IvRankBelow(expansionIvs, atm, 20)
      pain == MaxPain(held)
  IN [findings |->
        FlattenSeq([i \in 1 .. Cardinality(Strikes(held)) |->
                      GammaFound(chain, SetToSortSeq(Strikes(held), <)[i])])
        \o FoundIf("iv_crush", IvCrush(crushIvs, atm, dte), "none")
        \o FoundIf("iv_expansion", IvExpansion(expansionIvs, atm, lastLow), "none")
        \o FoundIf("pcr_extremes", PcrExtreme(OiOf(data, "PE"), OiOf(data, "CE")), "none")
        \o FoundIf("max_pain_drift", MaxPainDrift(held, chain.spot, dte),
                   IF chain.spot > pain THEN "DOWN" ELSE "UP")
        \o [i \in 1 .. Cardinality(ThetaHarvest(held, chain.spot, dte)) |->
              Found("theta_harvest", "MEDIUM", "none")]
        \o FoundIf("vertical_skew", VerticalSkew(held), "none"),
      ivs |-> expansionIvs,
      gammas |-> [s \in DOMAIN gammas \cup Strikes(held) |->
                    GammaHistory(s) \o GammasAt(chain, s)],
      ois |-> data,
      lastLow |-> IF lowRank THEN atm ELSE lastLow]

\* _run_scanner_poll: every 15 seconds, whether or not the chain is fresh.
PollChain(dte) ==
  /\ work < MaxWork /\ cached # NoChain
  /\ LET pass == Pass(cached, dte)
     IN /\ emitted' = emitted \o pass.findings
        /\ ivs' = pass.ivs /\ gammas' = pass.gammas
        /\ ois' = pass.ois /\ lastLow' = pass.lastLow
  /\ work' = work + 1
  /\ UNCHANGED <<cached, barMemory, listed, stored, cooled, bridged, elapsed, boot>>

-----------------------------------------------------------------------------
(* The bridge and the projection.                                          *)

\* build_scanner_proposal: only max_pain_drift says a side the bridge understands.
WorthProposing(finding) ==
  /\ Eligible = {} \/ finding.type \in Eligible
  /\ Rank(finding.severity) >= Rank(MinSeverity)
  /\ finding.side # "none"

\* Faulty variant: the cooldown is armed by every finding but never tested.
CoolingUntested(type) == FALSE

Cooling(type) == cooled[type] >= 0 /\ elapsed - cooled[type] < Cooldown

\* submitted: whether submit_signal returns; when it raises the cooldown stays unset.
Bridge(finding, submitted) ==
  IF ~Cooling(finding.type) /\ WorthProposing(finding) /\ submitted
  THEN /\ cooled' = [cooled EXCEPT ![finding.type] = elapsed]
       /\ bridged' = bridged \cup {[type |-> finding.type, side |-> finding.side,
                                    at |-> elapsed, boot |-> boot, nth |-> Cardinality(bridged)]}
  ELSE UNCHANGED <<cooled, bridged>>

\* on_scanner_finding; a broadcast or a store that fails does not stop the rest.
OnFinding(kept, submitted) ==
  /\ emitted # <<>>
  /\ LET finding == Head(emitted)
     IN /\ listed' = [listed EXCEPT ![finding.type] = LastOf(Append(@, finding), MaxPerType)]
        /\ stored' = IF kept THEN stored + 1 ELSE stored
        /\ Bridge(finding, submitted)
  /\ emitted' = Tail(emitted)
  /\ UNCHANGED <<cached, memory, barMemory, elapsed, work, boot>>

-----------------------------------------------------------------------------
Elapse ==
  /\ elapsed < MaxTime
  /\ elapsed' = elapsed + 1
  /\ UNCHANGED <<cached, memory, barMemory, emitted, listed, stored, cooled, bridged, work, boot>>

\* A new process: the store and the queue of proposals are on disk, nothing else is.
RestartScanners ==
  /\ boot < MaxReboots
  /\ boot' = boot + 1
  /\ cached' = NoChain /\ ivs' = <<>> /\ lastLow' = 0 /\ gammas' = <<>> /\ ois' = <<>>
  /\ barMemory' = [closed |-> -1, volumes |-> <<>>, oi |-> 0]
  /\ emitted' = <<>> /\ listed' = [t \in FindingTypes |-> <<>>]
  /\ cooled' = [t \in FindingTypes |-> -1]
  /\ UNCHANGED <<stored, bridged, elapsed, work>>

ScanNext ==
  \/ \E bar \in BarFeed : OnBar(bar)
  \/ \E chain \in Chains : RefreshChain(chain)
  \/ \E dte \in Dtes : PollChain(dte)
  \/ \E kept, submitted \in BOOLEAN : OnFinding(kept, submitted)
  \/ Elapse
  \/ RestartScanners

ScanSpec == ScanInit /\ [][ScanNext]_scanVars

-----------------------------------------------------------------------------
Findings == [type : FindingTypes, severity : {"LOW", "MEDIUM", "HIGH"}, side : {"UP", "DOWN", "none"}]

\* Type of the state.
ScanTypeOK ==
  /\ cached \in Chains \cup {NoChain}
  /\ \A i \in DOMAIN emitted : emitted[i] \in Findings
  /\ \A t \in FindingTypes : Len(listed[t]) <= MaxPerType /\ cooled[t] \in -1 .. MaxTime

\* The poller finds the same drift again every 15 seconds and a finding waits on the bus
\* in between; still the operator gets at most one proposal of a type per cooldown of a
\* process.  (A restart forgets the cooldown and keeps the proposals.)
OneProposalPerCooldown ==
  \A p, q \in bridged :
    p.type = q.type /\ p.boot = q.boot /\ p # q =>
      p.at - q.at >= Cooldown \/ q.at - p.at >= Cooldown
=============================================================================
