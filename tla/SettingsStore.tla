--------------------------- MODULE SettingsStore ---------------------------
(***************************************************************************)
(* The settings store (core/settings.py over core/storage/kv_store.py),    *)
(* the routes that write it (terminal/api/settings_router.py), and the way *)
(* of the two risk caps to the risk panel: a RISK_DECISION event published *)
(* by the router or by the risk bridge (intelligence/risk/bus_bridge.py)   *)
(* and taken up by the risk projection (terminal/projections.py).          *)
(*                                                                         *)
(* Each put commits by itself, so a batch may stop halfway.  Numbers are   *)
(* in hundredths; a list of names is a set, empty for null.  The daily     *)
(* loss of the decisions is left out: it is always zero.                   *)
(***************************************************************************)
EXTENDS Integers, Sequences, FiniteSetsExt

CONSTANTS
  Batches,        \* what the operator may PUT: sequences of [key, value]
  EnvSeeds,       \* the scheduler settings of the environment, in the same form
  KnownParams,    \* SCANNER_THRESHOLD_SPECS: [scanner type -> names of its parameters]
  MaxDecisions,   \* bound: decisions waiting on the bus
  MaxBatches,     \* bound: batches written
  MaxStartups     \* bound: starts of the program

CapKeys == {"loss_limit", "max_positions"}

\* The environment has settings of the scheduler only.
ASSUME SettingsAssumption ==
  /\ \A seed \in EnvSeeds : \A i \in 1 .. Len(seed) : seed[i].key \notin CapKeys
  /\ \A batch \in Batches \cup EnvSeeds : Len(batch) \in Nat /\ DOMAIN batch = 1 .. Len(batch)
  /\ MaxBatches \in Nat /\ MaxStartups \in Nat

VARIABLES
  stored,     \* [keys ever written -> value], on disk
  up,         \* the program runs
  inForce,    \* the thresholds the scanners were created with
  decisions,  \* RISK_DECISION events on the bus, oldest first
  shown,      \* [loss_limit, max_positions] of the risk projection
  unannounced, \* history: a write of a cap stopped halfway and no decision followed
  batches, startups

settingsVars == <<stored, up, inForce, decisions, shown, unannounced, batches, startups>>

-----------------------------------------------------------------------------
\* The schema.

LossFloor == -1000000000

Bounds ==
  [loss_limit |-> LossFloor .. 0, max_positions |-> 100 .. 10000,
   scheduler_interval_minutes |-> 1 .. 144000, max_loss_pct |-> 1 .. 10,
   max_margin_utilization_pct |-> 10 .. 100, min_risk_reward |-> 50 .. 500,
   max_positions_per_underlying |-> 100 .. 1000, max_sector_pct |-> 5 .. 100,
   max_direction_pct |-> 50 .. 100, stop_cooldown_minutes |-> 0 .. 24000]

Whole == {"max_positions", "max_positions_per_underlying"}

Enumerated ==
  [theme |-> {"dark", "light"}, color_convention |-> {"indian", "international"},
   scheduler_enabled |-> BOOLEAN]

NameLists == {"scheduler_lenses", "scheduler_tools"}

\* Any map of scanner types to numbers passes as thresholds.
Accepted(key, value) ==
  \/ key \in DOMAIN Bounds /\ value \in Bounds[key] /\ (key \in Whole => value % 100 = 0)
  \/ key \in DOMAIN Enumerated /\ value \in Enumerated[key]
  \/ key \in NameLists \cup {"scanner_thresholds"}

Default ==
  [loss_limit |-> -500000, max_positions |-> 500, scheduler_interval_minutes |-> 6000,
   max_loss_pct |-> 2, max_margin_utilization_pct |-> 50, min_risk_reward |-> 150,
   max_positions_per_underlying |-> 300, max_sector_pct |-> 20, max_direction_pct |-> 80,
   stop_cooldown_minutes |-> 3000, theme |-> "dark", color_convention |-> "international",
   scheduler_enabled |-> FALSE, scheduler_lenses |-> {}, scheduler_tools |-> {},
   scanner_thresholds |-> <<>>]

-----------------------------------------------------------------------------
\* The store.

\* get(): what was stored, or the default.
Setting(key) == IF key \in DOMAIN stored THEN stored[key] ELSE Default[key]

AllAccepted(batch) == \A i \in DOMAIN batch : Accepted(batch[i].key, batch[i].value)

Keys(batch, n) == {batch[i].key : i \in 1 .. n}

\* The first n puts of a batch, one after the other: of two for a key the later stands.
Written(batch, n) ==
  [k \in DOMAIN stored \cup Keys(batch, n) |->
     IF k \in Keys(batch, n) THEN batch[Max({i \in 1 .. n : batch[i].key = k})].value
     ELSE stored[k]]

\* Settings that are not there yet: of two for a key the earlier stands.
Seeded(seed) ==
  [k \in DOMAIN stored \cup Keys(seed, Len(seed)) |->
     IF k \in DOMAIN stored THEN stored[k]
     ELSE seed[Min({i \in DOMAIN seed : seed[i].key = k})].value]

Touches(batch, n) == Keys(batch, n) \cap CapKeys # {}

-----------------------------------------------------------------------------
\* Decisions.

Caps == [k \in CapKeys |-> Setting(k)]

\* Faulty variant: the bridge keeps the caps that it read once.
DecisionCaching == shown

\* What the bridge publishes: the caps of the store, read when it publishes.
Decision == Caps

Merged(state, decision) ==
  [k \in DOMAIN state |-> IF k \in DOMAIN decision THEN decision[k] ELSE state[k]]

\* Unknown scanner types and parameters are ignored.
Instantiated(thresholds) ==
  [s \in DOMAIN thresholds \cap DOMAIN KnownParams |->
     [p \in DOMAIN thresholds[s] \cap KnownParams[s] |-> thresholds[s][p]]]

-----------------------------------------------------------------------------
SettingsInit ==
  /\ stored = <<>> /\ up = FALSE /\ inForce = <<>> /\ decisions = <<>>
  /\ shown = [k \in CapKeys |-> Default[k]] /\ unannounced = FALSE /\ batches = 0 /\ startups = 0

\* lifespan(): the projection and the scanners read the store, then the settings
\* of the environment are seeded; one that is refused ends the startup.
LoadSettings(seed) ==
  /\ ~up /\ startups < MaxStartups /\ startups' = startups + 1
  /\ shown' = Caps /\ inForce' = Instantiated(Setting("scanner_thresholds"))
  /\ decisions' = <<>> /\ unannounced' = FALSE
  /\ up' = AllAccepted(seed)
  /\ stored' = IF up' THEN Seeded(seed) ELSE stored
  /\ UNCHANGED batches

\* A PUT: everything is validated before anything is written, and a change of
\* the caps is announced with what the store then holds.
Announce(batch) ==
  IF Touches(batch, Len(batch))
  THEN decisions' = Append(decisions, [k \in CapKeys |-> Setting(k)']) /\ unannounced' = FALSE
  ELSE UNCHANGED <<decisions, unannounced>>

UpdateSettings(batch) ==
  /\ up /\ batches < MaxBatches /\ batches' = batches + 1
  /\ AllAccepted(batch)
  /\ stored' = Written(batch, Len(batch))
  /\ Announce(batch)
  /\ UNCHANGED <<up, inForce, shown, startups>>

\* A put fails: the ones before it stay, and nothing is announced.
WriteFails(batch, n) ==
  /\ up /\ batches < MaxBatches /\ batches' = batches + 1
  /\ AllAccepted(batch)
  /\ stored' = Written(batch, n)
  /\ unannounced' = (unannounced \/ Touches(batch, n))
  /\ UNCHANGED <<up, inForce, decisions, shown, startups>>

\* A tick or a change of a position, at the bridge.
BridgeDecides ==
  /\ up /\ Len(decisions) < MaxDecisions
  /\ decisions' = Append(decisions, Decision) /\ unannounced' = FALSE
  /\ UNCHANGED <<stored, up, inForce, shown, batches, startups>>

\* The margin poller's decision carries no caps.
MarginDecides ==
  /\ up /\ Len(decisions) < MaxDecisions
  /\ decisions' = Append(decisions, <<>>)
  /\ UNCHANGED <<stored, up, inForce, shown, unannounced, batches, startups>>

TakeDecision ==
  /\ up /\ decisions # <<>>
  /\ shown' = Merged(shown, Head(decisions)) /\ decisions' = Tail(decisions)
  /\ UNCHANGED <<stored, up, inForce, unannounced, batches, startups>>

\* The program ends, perhaps within a batch.
CrashWriting(batch, n) ==
  /\ up /\ up' = FALSE
  /\ AllAccepted(batch) /\ (n > 0 => batches < MaxBatches)
  /\ stored' = Written(batch, n)
  /\ batches' = IF n > 0 THEN batches + 1 ELSE batches
  /\ decisions' = <<>>
  /\ UNCHANGED <<inForce, shown, unannounced, startups>>

SettingsNext ==
  \/ \E seed \in EnvSeeds : LoadSettings(seed)
  \/ \E batch \in Batches :
       \/ UpdateSettings(batch)
       \/ \E n \in 0 .. Len(batch) - 1 : WriteFails(batch, n)
       \/ \E n \in 0 .. Len(batch) : CrashWriting(batch, n)
  \/ BridgeDecides \/ MarginDecides \/ TakeDecision

SettingsSpec == SettingsInit /\ [][SettingsNext]_settingsVars

-----------------------------------------------------------------------------
SettingsTypeOK ==
  /\ \A k \in DOMAIN stored : Accepted(k, stored[k])
  /\ DOMAIN shown = CapKeys /\ \A k \in CapKeys : Accepted(k, shown[k])
  /\ \A i \in DOMAIN decisions : DOMAIN decisions[i] \subseteq CapKeys
  /\ DOMAIN inForce \subseteq DOMAIN KnownParams
  /\ up \in BOOLEAN /\ unannounced \in BOOLEAN
  /\ batches \in 0 .. MaxBatches /\ startups \in 0 .. MaxStartups

\* The last decision on the bus that tells a cap.
LastToTell(i, k) ==
  k \in DOMAIN decisions[i] /\ \A j \in DOMAIN decisions : j > i => k \notin DOMAIN decisions[j]

\* Once the decisions on the bus are taken, the panel shows the caps that the
\* store holds: however decisions of the router, the bridge and the poller
\* interleave with writes, the last one with caps has the present ones.  Only a
\* write that stopped halfway is not seen before the next decision.
LimitsShown ==
  up /\ ~unannounced =>
    \A k \in CapKeys :
      /\ \A i \in DOMAIN decisions : LastToTell(i, k) => decisions[i][k] = Setting(k)
      /\ (\A i \in DOMAIN decisions : k \notin DOMAIN decisions[i]) => shown[k] = Setting(k)
=============================================================================
