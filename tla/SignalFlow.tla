----------------------------- MODULE SignalFlow -----------------------------
(***************************************************************************)
(* From ticks to the signal on the desk: the feature engine, the regime    *)
(* bridge, the signal engine, the projection and the proposal bridge, all  *)
(* of them handlers on the event bus.  The engine reads the features as    *)
(* they are when it runs, the regime bridge reads the copy in the event.   *)
(*                                                                         *)
(* The application registers no feature plugin, so the features are the    *)
(* readings of ADX and the two moving averages: two of the three voters    *)
(* never have data.                                                        *)
(***************************************************************************)
EXTENDS EventBus, SignalRules

CONSTANTS
  Readings,    \* what the indicators may show after a tick: records over FeatureNames
  LateBy,      \* how old a tick may be when the bus hands it out
  TickAge,     \* STALE_THRESHOLD_SECONDS
  SignalAge,   \* max_age_seconds of the signal engine
  LotSize,     \* what the instrument master answers for the underlying
  ChainRows,   \* the option chain the hint builder finds
  MaxPriceTicks, MaxClock   \* bounds

FeatureNames == {"adx", "di_plus", "di_minus", "ema_9", "ema_21"}

ASSUME SignalFlowAssumption ==
  /\ TickAge \in Nat /\ SignalAge \in Nat \ {0} /\ LateBy \subseteq Nat
  /\ Readings \subseteq [FeatureNames -> Nat \cup {Absent}]
  /\ MaxPriceTicks \in Nat /\ MaxClock \in Nat \ {0}
NoFeatures == [n \in FeatureNames |-> Absent]

VARIABLES
  features,     \* FeatureEngine.features
  updated,      \* FeatureEngine.last_update, 0 for never
  classifier,   \* RegimeClassifier._prev_adx and RegimeBusBridge._prev_regime
  engineRegime, \* SignalEngine.regime, "none" before the first event
  desk,         \* IntelligenceProjection: regime, transition and signal shown
  queued,       \* the sides the bridge has submitted proposals for
  clock, fed    \* the time from 1 on, the ticks so far

flowVars == <<running, queue, features, updated, classifier, engineRegime, desk, queued, clock, fed>>

FlowInit ==
  /\ BusInit
  /\ features = NoFeatures
  /\ updated = 0
  /\ classifier = [adx |-> Absent, regime |-> "none"]
  /\ engineRegime = "none"
  /\ desk = [regime |-> "range_bound", transition |-> FALSE, signal |-> StaleSignal]
  /\ queued = {} /\ clock = 1 /\ fed = 0

\* The feed puts a tick on the bus; its time stamp may lie in the past.
TickArrives ==
  /\ running /\ fed < MaxPriceTicks
  /\ \E r \in Readings, late \in LateBy :
       Publish(<<[topic |-> "tick", reading |-> r, at |-> clock - late]>>)
  /\ fed' = fed + 1
  /\ UNCHANGED <<running, features, updated, classifier, engineRegime, desk, queued, clock>>

\* A handler runs when its event is at the head of the bus.
Due(topic) == running /\ queue # <<>> /\ Head(queue).topic = topic

\* process_tick: a stale tick is announced as such and changes nothing.  An
\* indicator without a value yet leaves what the feature was.
FeaturesAfter(reading) ==
  [n \in FeatureNames |-> IF reading[n] = Absent THEN features[n] ELSE reading[n]]
OnPriceTick ==
  /\ Due("tick")
  /\ \E stale \in {clock - Head(queue).at > TickAge} :
       /\ Take("tick", <<[topic |-> "features",
                          features |-> IF stale THEN NoFeatures ELSE FeaturesAfter(Head(queue).reading)]>>)
       /\ features' = IF stale THEN features ELSE FeaturesAfter(Head(queue).reading)
       /\ updated' = IF stale THEN updated ELSE clock
  /\ UNCHANGED <<classifier, engineRegime, desk, queued, clock, fed>>

\* compute_signal, on the features of now.
SignalNow ==
  IF clock - updated > SignalAge THEN StaleSignal ELSE SignalFrom(Ballots(features))

\* Faulty variant: the signal is announced without the votes behind it.
SignalEventsVoteless(signal) ==
  <<[topic |-> "signal_v2", signal |-> [signal EXCEPT !.voters = <<>>]],
    [topic |-> "signal_generated", direction |-> signal.direction, conviction |-> signal.conviction]>>

\* What the pipeline publishes of a signal; the second event has no votes.
SignalEvents(signal) ==
  <<[topic |-> "signal_v2", signal |-> signal],
    [topic |-> "signal_generated", direction |-> signal.direction, conviction |-> signal.conviction]>>

\* FEATURES_COMPUTED: the regime bridge runs first, then the pipeline; both
\* skip an event without features, as that of a stale tick is.  The regime
\* reaches the signal engine only with the next event.
OnFeatures ==
  /\ Due("features")
  /\ \E e \in {Head(queue)} :
       LET regime == Classify(classifier.adx, e.features)
       IN  /\ Take("features",
                   IF e.features = NoFeatures THEN <<>>
                   ELSE <<[topic |-> "regime", regime |-> regime,
                           transition |-> classifier.regime \notin {"none", regime}]>>
                        \o SignalEvents(SignalNow))
           /\ classifier' = IF e.features = NoFeatures THEN classifier
                            ELSE [adx |-> Computed(e.features, "adx", 0), regime |-> regime]
  /\ UNCHANGED <<features, updated, engineRegime, desk, queued, clock, fed>>

\* REGIME_CHANGED: the projection and the pipeline take the regime over.
OnRegime ==
  /\ Due("regime")
  /\ Take("regime", <<>>)
  /\ engineRegime' = Head(queue).regime
  /\ desk' = [desk EXCEPT !.regime = Head(queue).regime, !.transition = Head(queue).transition]
  /\ UNCHANGED <<features, updated, classifier, queued, clock, fed>>

\* SIGNAL_V2: the projection shows the signal; the bridge makes a proposal of
\* a directional one for which there is a hint and none is pending.
SideOf(signal) == IF signal.direction = "UP" THEN "BUY" ELSE "SELL"
OnSignal ==
  /\ Due("signal_v2")
  /\ Take("signal_v2", <<>>)
  /\ \E s \in {Head(queue).signal} :
       /\ desk' = [desk EXCEPT !.signal = s]
       /\ queued' = queued \cup {SideOf(s) : h \in BuildHint(s, ChainRows, TRUE, LotSize)}
  /\ UNCHANGED <<features, updated, classifier, engineRegime, clock, fed>>

\* SIGNAL_GENERATED reaches the same handler of the projection, which takes
\* direction and conviction from it and keeps the rest.
OnGenerated ==
  /\ Due("signal_generated")
  /\ Take("signal_generated", <<>>)
  /\ desk' = [desk EXCEPT !.signal.direction = Head(queue).direction,
                          !.signal.conviction = Head(queue).conviction]
  /\ UNCHANGED <<features, updated, classifier, engineRegime, queued, clock, fed>>

ClockTicks ==
  /\ clock < MaxClock
  /\ clock' = clock + 1
  /\ UNCHANGED <<running, queue, features, updated, classifier, engineRegime, desk, queued, fed>>

FlowNext ==
  \/ TickArrives \/ ClockTicks
  \/ OnPriceTick \/ OnFeatures \/ OnRegime \/ OnSignal \/ OnGenerated

FlowSpec == FlowInit /\ [][FlowNext]_flowVars

-----------------------------------------------------------------------------
\* Type invariant.
FlowTypeOK ==
  /\ features \in [FeatureNames -> Nat \cup {Absent}]
  /\ updated \in 0..clock /\ clock \in 1..MaxClock /\ fed \in 0..MaxPriceTicks
  /\ classifier.regime \in Regimes \cup {"none"} /\ engineRegime \in Regimes \cup {"none"}
  /\ desk.regime \in Regimes /\ desk.transition \in BOOLEAN
  /\ desk.signal.direction \in {"UP", "DOWN", "NEUTRAL"}
  /\ queued \subseteq {"BUY", "SELL"}

\* Signals and regimes come from two handlers, one on live features and one
\* on a copy, and reach the desk in three events that overwrite one record in
\* part.  Once the bus is quiet they must fit together: the direction and
\* conviction shown follow from the votes shown, these are the votes on the
\* current features or the engine refused to vote on old ones, and the desk,
\* the engine and the classifier are of one regime.
SettledSignal ==
  queue = <<>> /\ classifier.regime # "none" =>
    /\ desk.regime = classifier.regime /\ engineRegime = classifier.regime
    /\ desk.signal \in {SignalFrom(Ballots(features)), StaleSignal}
=============================================================================
