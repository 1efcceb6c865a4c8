--------------------------- MODULE DecisionProofs ---------------------------
(***************************************************************************)
(* Proofs about what leads to decisions and records them: the flow from    *)
(* ticks over features and regimes to the signal on the desk, the scanners *)
(* and their bridge, the learning sessions, research passes and the        *)
(* knowledge base, the position cap of the risk desk, and bars.            *)
(*                                                                         *)
(* The invariants say what is still on its way: the last event of each     *)
(* topic (SignalComes, RegimeComes), what a type's cooldown remembers      *)
(* (KeepsCooling), which signals were heard (HeardBefore), how many calls  *)
(* a run has had (Accounted), what a commit left on disk (OnDisk), and     *)
(* resting orders as positions that may still be opened (CapWithResting),  *)
(* and in which longer bar each bar lies (Covers).                         *)
(***************************************************************************)
EXTENDS Bars, SignalFlow, Scanners, Learning, Knowledge, RiskDesk, InductionLemmas

\* From ticks to the signal on the desk.

\* What is on the bus.
FeatureMaps == [FeatureNames -> Nat \cup {Absent}]
Signals == {StaleSignal} \cup {SignalFrom(Ballots(f)) : f \in FeatureMaps}
Events ==
  [topic : {"tick"}, reading : Readings, at : Int]
  \cup [topic : {"features"}, features : FeatureMaps]
  \cup [topic : {"regime"}, regime : Regimes, transition : BOOLEAN]
  \cup [topic : {"signal_v2"}, signal : Signals]
  \cup [topic : {"signal_generated"}, direction : {s.direction : s \in Signals},
        conviction : {s.conviction : s \in Signals}]

\* The types that the steps need.
FlowOK ==
  /\ queue \in Seq(Events) /\ features \in FeatureMaps /\ clock \in Nat /\ updated \in Nat
  /\ classifier = [adx |-> classifier.adx, regime |-> classifier.regime]
  /\ desk = [regime |-> desk.regime, transition |-> desk.transition, signal |-> desk.signal]
  /\ desk.signal \in Signals

\* Some event still carries features to the signal engine.
Waiting == \E i \in DOMAIN queue : queue[i].topic = "features" /\ queue[i].features # NoFeatures

\* Features were computed before a regime or a signal was.
FeaturesFirst == features = NoFeatures => classifier.regime = "none" /\ ~Waiting

\* The last event of a topic, and a topic without one.
LastOn(topic, i) == queue[i].topic = topic /\ \A j \in DOMAIN queue : j > i => queue[j].topic # topic
NoneOn(topic) == \A i \in DOMAIN queue : queue[i].topic # topic

\* The short event of a signal comes directly after the long one.
Repeats(event, s) == event.direction = s.direction /\ event.conviction = s.conviction
Paired ==
  \A i \in DOMAIN queue : queue[i].topic = "signal_generated" =>
    IF i = 1 THEN Repeats(queue[i], desk.signal)
    ELSE queue[i - 1].topic = "signal_v2" /\ Repeats(queue[i], queue[i - 1].signal)

\* The last signal and the last regime that are to come, or are shown when none is to come.
OfNow(s) == s \in {SignalFrom(Ballots(features)), StaleSignal}
SignalComes ==
  classifier.regime # "none" /\ ~Waiting =>
    /\ \A i \in DOMAIN queue : LastOn("signal_v2", i) => OfNow(queue[i].signal)
    /\ NoneOn("signal_v2") => OfNow(desk.signal)
RegimeComes ==
  classifier.regime # "none" =>
    /\ \A i \in DOMAIN queue : LastOn("regime", i) => queue[i].regime = classifier.regime
    /\ NoneOn("regime") => desk.regime = classifier.regime /\ engineRegime = classifier.regime

FlowInv == FlowOK /\ FeaturesFirst /\ Paired /\ SignalComes /\ RegimeComes

\* A signal is a record of its five fields.
LEMMA SignalIsRecord ==
  ASSUME NEW s \in Signals
  PROVE  s = [direction |-> s.direction, conviction |-> s.conviction, D |-> s.D, P |-> s.P,
              G |-> s.G, voters |-> s.voters]
  <1>1. s = StaleSignal \/ \E ballots : s = SignalFrom(ballots)
    BY DEF Signals
  <1>2. CASE s = StaleSignal
    BY <1>2 DEF StaleSignal
  <1>3. ASSUME NEW ballots, s = SignalFrom(ballots)
        PROVE  s = [direction |-> s.direction, conviction |-> s.conviction, D |-> s.D, P |-> s.P,
                    G |-> s.G, voters |-> s.voters]
    BY <1>2, <1>3 DEF SignalFrom
  <1> QED BY <1>1, <1>2, <1>3

\* What a handler leaves on the bus when it takes the first event.
LEMMA TakeShifts ==
  ASSUME NEW V, NEW q \in Seq(V), q # <<>>, NEW more \in Seq(V), NEW r, r = Tail(q) \o more
  PROVE  /\ Len(q) \in Nat \ {0} /\ DOMAIN q = 1 .. Len(q) /\ q[1] = Head(q) /\ q[1] \in V
         /\ r \in Seq(V) /\ DOMAIN r = 1 .. Len(q) - 1 + Len(more)
         /\ \A i \in 1 .. Len(q) - 1 : r[i] = q[i + 1]
         /\ \A i \in 1 .. Len(more) : r[Len(q) - 1 + i] = more[i]
         /\ \A i \in DOMAIN r : i >= Len(q) => r[i] = more[i - (Len(q) - 1)] /\ i - (Len(q) - 1) \in 1 .. Len(more)
  <1>1. Tail(q) \in Seq(V) /\ Len(Tail(q)) = Len(q) - 1 /\ \A i \in 1 .. Len(q) - 1 : Tail(q)[i] = q[i + 1]
    OBVIOUS
  <1>2. Len(q) \in Nat \ {0} /\ q[1] = Head(q) /\ q[1] \in V /\ Len(more) \in Nat
    OBVIOUS
  <1> DEFINE t == Tail(q)
  <1>3. t \in Seq(V) /\ Len(t) = Len(q) - 1 /\ r = t \o more /\ Len(t) \in Nat
    BY <1>1, <1>2
  <1> HIDE DEF t
  <1>4. r \in Seq(V) /\ Len(r) = Len(t) + Len(more)
    BY <1>3
  <1>5. \A i \in 1 .. Len(t) : r[i] = t[i]
    BY <1>3
  <1>6. \A i \in Len(t) + 1 .. Len(t) + Len(more) : r[i] = more[i - Len(t)]
    BY <1>3
  <1> QED BY <1>1, <1>2, <1>3, <1>4, <1>5, <1>6 DEF t

\* The first event is taken and more are published.
\* A handler takes the first event and publishes more.
Taken(more) ==
  queue \in Seq(Events) /\ queue # <<>> /\ more \in Seq(Events) /\ queue' = Tail(queue) \o more

\* Taking, position by position.
LEMMA Shifts ==
  ASSUME NEW more, Taken(more)
  PROVE  /\ Len(queue) \in Nat \ {0} /\ DOMAIN queue = 1 .. Len(queue) /\ queue[1] = Head(queue)
         /\ Head(queue) \in Events /\ queue' \in Seq(Events)
         /\ DOMAIN queue' = 1 .. Len(queue) - 1 + Len(more) /\ Len(more) \in Nat
         /\ \A i \in 1 .. Len(queue) - 1 : queue'[i] = queue[i + 1]
         /\ \A k \in 1 .. Len(more) : queue'[Len(queue) - 1 + k] = more[k]
         /\ \A i \in DOMAIN queue' : i >= Len(queue) => queue'[i] = more[i - (Len(queue) - 1)]
                                                     /\ i - (Len(queue) - 1) \in 1 .. Len(more)
  <1>1. queue \in Seq(Events) /\ queue # <<>> /\ more \in Seq(Events) /\ queue' = Tail(queue) \o more
    BY DEF Taken
  <1> HIDE DEF Events
  <1> QED BY <1>1, TakeShifts

\* The bus is empty at first.
LEMMA FlowStart == FlowInit => FlowInv
  <1> SUFFICES ASSUME FlowInit PROVE FlowInv
    OBVIOUS
  <1>1. queue = <<>> /\ classifier.regime = "none"
    BY DEF FlowInit, BusInit
  <1>2. FlowOK
    BY DEF FlowInit, BusInit, FlowOK, Signals, FeatureMaps, NoFeatures, StaleSignal
  <1> QED BY <1>1, <1>2 DEF FlowInv, FeaturesFirst, Waiting, Paired, SignalComes, RegimeComes

\* Taking an event and publishing none on a topic: what is last on it was so before.
LEMMA LastWasLast ==
  ASSUME NEW more, Taken(more),
         NEW t, \A k \in 1 .. Len(more) : more[k].topic # t
  PROVE  /\ \A i \in DOMAIN queue' : LastOn(t, i)' =>
              i + 1 \in DOMAIN queue /\ queue'[i] = queue[i + 1] /\ LastOn(t, i + 1)
         /\ NoneOn(t)' => NoneOn(t) \/ LastOn(t, 1)
         /\ 1 \in DOMAIN queue /\ queue[1] = Head(queue)
  <1>1. /\ Len(queue) \in Nat \ {0} /\ DOMAIN queue = 1 .. Len(queue) /\ queue[1] = Head(queue)
        /\ DOMAIN queue' = 1 .. Len(queue) - 1 + Len(more) /\ Len(more) \in Nat
        /\ \A i \in 1 .. Len(queue) - 1 : queue'[i] = queue[i + 1]
        /\ \A i \in DOMAIN queue' : i >= Len(queue) => queue'[i] = more[i - (Len(queue) - 1)]
                                                    /\ i - (Len(queue) - 1) \in 1 .. Len(more)
    BY Shifts
  <1>2. ASSUME NEW i \in DOMAIN queue', LastOn(t, i)'
        PROVE  i + 1 \in DOMAIN queue /\ queue'[i] = queue[i + 1] /\ LastOn(t, i + 1)
    <2>1. i < Len(queue)
      BY <1>1, <1>2 DEF LastOn
    <2>2. i + 1 \in DOMAIN queue /\ queue'[i] = queue[i + 1] /\ queue[i + 1].topic = t
      BY <1>1, <1>2, <2>1 DEF LastOn
    <2>3. ASSUME NEW j \in DOMAIN queue, j > i + 1 PROVE queue[j].topic # t
      <3>1. j - 1 \in 1 .. Len(queue) - 1 /\ j - 1 \in DOMAIN queue' /\ j - 1 > i /\ (j - 1) + 1 = j
        BY <1>1, <2>3
      <3>2. queue'[j - 1] = queue[j]
        BY <1>1, <3>1
      <3> QED BY <1>2, <3>1, <3>2 DEF LastOn
    <2> QED BY <2>2, <2>3 DEF LastOn
  <1>3. ASSUME NoneOn(t)' PROVE NoneOn(t) \/ LastOn(t, 1)
    <2>1. ASSUME NEW j \in DOMAIN queue, j > 1 PROVE queue[j].topic # t
      <3>1. j - 1 \in 1 .. Len(queue) - 1 /\ j - 1 \in DOMAIN queue' /\ (j - 1) + 1 = j
        BY <1>1, <2>1
      <3>2. queue'[j - 1] = queue[j]
        BY <1>1, <3>1
      <3> QED BY <1>3, <3>1, <3>2 DEF NoneOn
    <2> QED BY <1>1, <2>1 DEF NoneOn, LastOn
  <1> QED BY <1>1, <1>2, <1>3

\* The long event of a signal, when it is taken, becomes the signal shown.
LEMMA PairsKeep ==
  ASSUME NEW more, Taken(more), Paired,
         Head(queue).topic = "signal_v2" => desk'.signal = Head(queue).signal,
         \A k \in 1 .. Len(more) : more[k].topic = "signal_generated" =>
           k # 1 /\ more[k - 1].topic = "signal_v2" /\ Repeats(more[k], more[k - 1].signal)
  PROVE  Paired'
  <1>1. /\ Len(queue) \in Nat \ {0} /\ DOMAIN queue = 1 .. Len(queue) /\ queue[1] = Head(queue)
        /\ DOMAIN queue' = 1 .. Len(queue) - 1 + Len(more) /\ Len(more) \in Nat
        /\ \A i \in 1 .. Len(queue) - 1 : queue'[i] = queue[i + 1]
        /\ \A i \in DOMAIN queue' : i >= Len(queue) => queue'[i] = more[i - (Len(queue) - 1)]
                                                    /\ i - (Len(queue) - 1) \in 1 .. Len(more)
    BY Shifts
  <1>2. ASSUME NEW i \in DOMAIN queue', queue'[i].topic = "signal_generated"
        PROVE  IF i = 1 THEN Repeats(queue'[i], desk'.signal)
               ELSE queue'[i - 1].topic = "signal_v2" /\ Repeats(queue'[i], queue'[i - 1].signal)
    <2>1. CASE i < Len(queue)
      <3>1. i + 1 \in DOMAIN queue /\ queue'[i] = queue[i + 1] /\ i + 1 # 1 /\ (i + 1) - 1 = i
        BY <1>1, <2>1
      <3>2. queue[i].topic = "signal_v2" /\ Repeats(queue'[i], queue[i].signal)
        BY <1>2, <3>1 DEF Paired
      <3>3. CASE i = 1
        BY <1>1, <3>2, <3>3
      <3>4. CASE i # 1
        <4>1. i - 1 \in 1 .. Len(queue) - 1 /\ (i - 1) + 1 = i
          BY <1>1, <2>1, <3>4
        <4>2. queue'[i - 1] = queue[i]
          BY <1>1, <4>1
        <4> QED BY <3>2, <3>4, <4>2
      <3> QED BY <3>3, <3>4
    <2>2. CASE i >= Len(queue)
      <3> DEFINE k == i - (Len(queue) - 1)
      <3>1. queue'[i] = more[k] /\ k \in 1 .. Len(more)
        BY <1>1, <2>2
      <3>2. k # 1 /\ more[k - 1].topic = "signal_v2" /\ Repeats(more[k], more[k - 1].signal)
        BY <1>2, <3>1
      <3>3. i - 1 \in DOMAIN queue' /\ i - 1 >= Len(queue) /\ (i - 1) - (Len(queue) - 1) = k - 1 /\ i # 1
        BY <1>1, <2>2, <3>1, <3>2
      <3>4. queue'[i - 1] = more[k - 1]
        BY <1>1, <3>3
      <3> QED BY <3>1, <3>2, <3>3, <3>4
    <2> QED BY <1>1, <2>1, <2>2
  <1> QED BY <1>2 DEF Paired

\* Features that wait went on waiting or were published now.
LEMMA WaitingShifts ==
  ASSUME NEW more, Taken(more), Waiting
  PROVE  Waiting' \/ (Head(queue).topic = "features" /\ Head(queue).features # NoFeatures)
  <1>1. /\ Len(queue) \in Nat \ {0} /\ DOMAIN queue = 1 .. Len(queue) /\ queue[1] = Head(queue)
        /\ DOMAIN queue' = 1 .. Len(queue) - 1 + Len(more) /\ Len(more) \in Nat
        /\ \A i \in 1 .. Len(queue) - 1 : queue'[i] = queue[i + 1]
    BY Shifts
  <1>2. PICK i \in DOMAIN queue : queue[i].topic = "features" /\ queue[i].features # NoFeatures
    BY DEF Waiting
  <1>3. CASE i = 1
    BY <1>1, <1>2, <1>3
  <1>4. CASE i # 1
    <2>1. i - 1 \in 1 .. Len(queue) - 1 /\ i - 1 \in DOMAIN queue' /\ (i - 1) + 1 = i
      BY <1>1, <1>4
    <2>2. queue'[i - 1] = queue[i]
      BY <1>1, <2>1
    <2> QED BY <1>2, <2>1, <2>2 DEF Waiting
  <1> QED BY <1>3, <1>4

\* Only the published events can make features wait.
LEMMA WaitingComes ==
  ASSUME NEW more, Taken(more), Waiting'
  PROVE  Waiting \/ \E k \in 1 .. Len(more) : more[k].topic = "features" /\ more[k].features # NoFeatures
  <1>1. /\ Len(queue) \in Nat \ {0} /\ DOMAIN queue = 1 .. Len(queue)
        /\ DOMAIN queue' = 1 .. Len(queue) - 1 + Len(more) /\ Len(more) \in Nat
        /\ \A i \in 1 .. Len(queue) - 1 : queue'[i] = queue[i + 1]
        /\ \A i \in DOMAIN queue' : i >= Len(queue) => queue'[i] = more[i - (Len(queue) - 1)]
                                                    /\ i - (Len(queue) - 1) \in 1 .. Len(more)
    BY Shifts
  <1>2. PICK i \in DOMAIN queue' : queue'[i].topic = "features" /\ queue'[i].features # NoFeatures
    BY DEF Waiting
  <1>3. CASE i < Len(queue)
    <2>1. i + 1 \in DOMAIN queue /\ queue'[i] = queue[i + 1]
      BY <1>1, <1>3
    <2> QED BY <1>2, <2>1 DEF Waiting
  <1>4. CASE i >= Len(queue)
    BY <1>1, <1>2, <1>4
  <1> QED BY <1>1, <1>3, <1>4

\* An event that is published on the side changes nothing that is last on another topic.
LEMMA TickComes ==
  ASSUME FlowInv, TickArrives
  PROVE  FlowInv'
  <1>1. PICK r \in Readings, late \in LateBy :
          queue' = queue \o <<[topic |-> "tick", reading |-> r, at |-> clock - late]>>
    BY DEF TickArrives, Publish
  <1> DEFINE e == [topic |-> "tick", reading |-> r, at |-> clock - late]
  <1>2. e \in Events /\ e.topic = "tick"
    BY SignalFlowAssumption DEF Events, FlowInv, FlowOK
  <1>3. queue' = Append(queue, e)
    BY <1>1, <1>2 DEF FlowInv, FlowOK
  <1> HIDE DEF e
  <1>4. /\ queue' \in Seq(Events) /\ Len(queue) \in Nat /\ DOMAIN queue = 1 .. Len(queue)
        /\ DOMAIN queue' = 1 .. Len(queue) + 1
        /\ \A i \in 1 .. Len(queue) : queue'[i] = queue[i]
        /\ queue'[Len(queue) + 1].topic = "tick"
    BY <1>2, <1>3 DEF FlowInv, FlowOK
  <1>5. UNCHANGED <<features, updated, classifier, engineRegime, desk, clock>>
    BY DEF TickArrives
  <1>6. FlowOK' /\ Waiting' = Waiting
    BY <1>4, <1>5 DEF FlowInv, FlowOK, Waiting
  <1>7. FeaturesFirst'
    BY <1>5, <1>6 DEF FlowInv, FeaturesFirst
  <1>8. Paired'
    <2>1. ASSUME NEW i \in DOMAIN queue', queue'[i].topic = "signal_generated"
          PROVE  i \in DOMAIN queue /\ queue'[i] = queue[i] /\ (i # 1 => queue'[i - 1] = queue[i - 1])
      <3>1. i \in 1 .. Len(queue)
        BY <1>4, <2>1
      <3>2. i # 1 => i - 1 \in 1 .. Len(queue)
        BY <1>4, <3>1
      <3> QED BY <1>4, <3>1, <3>2
    <2> QED BY <1>5, <2>1 DEF FlowInv, Paired
  <1>9. ASSUME NEW t, t # "tick"
        PROVE  /\ \A i \in DOMAIN queue' : LastOn(t, i)' => i \in DOMAIN queue /\ queue'[i] = queue[i] /\ LastOn(t, i)
               /\ NoneOn(t)' => NoneOn(t)
    BY <1>4, <1>9 DEF LastOn, NoneOn
  <1>10. SignalComes' /\ RegimeComes'
    BY <1>5, <1>6, <1>9 DEF FlowInv, SignalComes, RegimeComes, OfNow
  <1> QED BY <1>6, <1>7, <1>8, <1>10 DEF FlowInv

\* The feature handler.
LEMMA PriceTickKeeps ==
  ASSUME FlowInv, OnPriceTick
  PROVE  FlowInv'
  <1>1. /\ queue # <<>> /\ Head(queue).topic = "tick"
        /\ UNCHANGED <<classifier, engineRegime, desk, clock>>
    BY DEF OnPriceTick, Due
  <1>2. queue \in Seq(Events)
    BY DEF FlowInv, FlowOK
  <1>3. Head(queue).reading \in FeatureMaps
    <2>1. Head(queue) \in Events
      BY <1>1, <1>2
    <2> QED BY <1>1, <2>1, SignalFlowAssumption DEF Events, FeatureMaps
  <1>4. FeaturesAfter(Head(queue).reading) \in FeatureMaps
    BY <1>3 DEF FeaturesAfter, FeatureMaps, FlowInv, FlowOK
  <1>5. FeaturesAfter(Head(queue).reading) = NoFeatures => features = NoFeatures
    BY <1>3 DEF FeaturesAfter, NoFeatures, FeatureMaps, FlowInv, FlowOK
  <1>6. PICK f \in FeatureMaps : /\ queue' = Tail(queue) \o <<[topic |-> "features", features |-> f]>>
                                 /\ \/ f = NoFeatures /\ features' = features
                                    \/ f = FeaturesAfter(Head(queue).reading) /\ features' = f
                                 /\ updated' \in {updated, clock}
    <2>1. NoFeatures \in FeatureMaps
      BY DEF NoFeatures, FeatureMaps
    <2> QED BY <1>4, <2>1 DEF OnPriceTick, Take
  <1> DEFINE more == <<[topic |-> "features", features |-> f]>>
  <1>7. /\ more \in Seq(Events) /\ Len(more) = 1 /\ more[1].topic = "features" /\ more[1].features = f
        /\ \A k \in 1 .. Len(more) : k = 1
    BY DEF Events
  <1>8. Taken(more)
    BY <1>1, <1>2, <1>6, <1>7 DEF Taken
  <1> HIDE DEF more
  <1>9. /\ Len(queue) \in Nat \ {0} /\ queue' \in Seq(Events) /\ DOMAIN queue' = 1 .. Len(queue)
        /\ queue'[Len(queue)].topic = "features" /\ queue'[Len(queue)].features = f
    <2>1. /\ Len(queue) \in Nat \ {0} /\ queue' \in Seq(Events) /\ DOMAIN queue' = 1 .. Len(queue) - 1 + 1
          /\ queue'[Len(queue) - 1 + 1] = more[1]
      <3>1. /\ Len(queue) \in Nat \ {0} /\ queue' \in Seq(Events) /\ DOMAIN queue' = 1 .. Len(queue) - 1 + Len(more)
            /\ \A k \in 1 .. Len(more) : queue'[Len(queue) - 1 + k] = more[k]
        BY <1>8, Shifts
      <3>2. 1 \in 1 .. Len(more)
        BY <1>7
      <3>3. queue'[Len(queue) - 1 + 1] = more[1]
        BY <3>1, <3>2
      <3> QED BY <1>7, <3>1, <3>3
    <2> QED BY <1>7, <2>1
  <1>10. FlowOK'
    BY <1>1, <1>6, <1>9 DEF FlowInv, FlowOK
  <1>11. Paired'
    BY <1>1, <1>7, <1>8, PairsKeep DEF FlowInv
  <1>15. ASSUME NEW t, t \in {"regime", "signal_v2"}
         PROVE  /\ \A i \in DOMAIN queue' : LastOn(t, i)' =>
                      i + 1 \in DOMAIN queue /\ queue'[i] = queue[i + 1] /\ LastOn(t, i + 1)
                /\ NoneOn(t)' => NoneOn(t)
    <2>1. \A k \in 1 .. Len(more) : more[k].topic # t
      BY <1>7, <1>15
    <2>2. ~LastOn(t, 1)
      BY <1>1, <1>8, <1>15, Shifts DEF LastOn
    <2> QED BY <1>8, <2>1, <2>2, LastWasLast
  <1>12. RegimeComes'
    BY <1>1, <1>15 DEF FlowInv, RegimeComes
  <1>13. CASE f = NoFeatures /\ features' = features
    <2>1. Waiting' <=> Waiting
      BY <1>1, <1>7, <1>8, <1>13, WaitingShifts, WaitingComes
    <2>2. SignalComes'
      BY <1>1, <1>13, <1>15, <2>1 DEF FlowInv, SignalComes, OfNow
    <2> QED BY <1>1, <1>10, <1>11, <1>12, <1>13, <2>1, <2>2 DEF FlowInv, FeaturesFirst
  <1>14. CASE f = FeaturesAfter(Head(queue).reading) /\ features' = f
    <2>1. CASE f = NoFeatures
      <3>1. classifier.regime = "none" /\ ~Waiting
        BY <1>5, <1>14, <2>1 DEF FlowInv, FeaturesFirst
      <3>2. ~Waiting'
        BY <1>7, <1>8, <2>1, <3>1, WaitingComes
      <3> QED BY <1>1, <1>10, <1>11, <1>12, <3>1, <3>2 DEF FlowInv, FeaturesFirst, SignalComes
    <2>2. CASE f # NoFeatures
      <3>1. Waiting'
        BY <1>9, <2>2 DEF Waiting
      <3> QED BY <1>10, <1>11, <1>12, <1>14, <2>2, <3>1 DEF FlowInv, FeaturesFirst, SignalComes
    <2> QED BY <2>1, <2>2
  <1> QED BY <1>6, <1>13, <1>14

\* The regime classifier and the signal engine on features.
LEMMA FeaturesKeep ==
  ASSUME FlowInv, OnFeatures
  PROVE  FlowInv'
  <1> DEFINE e == Head(queue)
             regime == Classify(classifier.adx, e.features)
             moved == classifier.regime \notin {"none", regime}
             long == [topic |-> "signal_v2", signal |-> SignalNow]
             short == [topic |-> "signal_generated", direction |-> SignalNow.direction, conviction |-> SignalNow.conviction]
             change == [topic |-> "regime", regime |-> regime, transition |-> moved]
  <1>1. /\ queue # <<>> /\ e.topic = "features" /\ queue \in Seq(Events)
        /\ UNCHANGED <<features, updated, engineRegime, desk, clock>>
    BY DEF OnFeatures, Due, FlowInv, FlowOK
  <1>2. CASE e.features = NoFeatures
    <2>1. Taken(<<>>) /\ classifier' = classifier
      BY <1>1, <1>2 DEF OnFeatures, Take, Taken
    <2>2. PICK none : none = <<>> /\ Taken(none) /\ ~\E k \in 1 .. Len(none) : TRUE
      BY <2>1
    <2>3. queue' \in Seq(Events) /\ 1 \in DOMAIN queue /\ queue[1] = Head(queue)
      BY <2>2, Shifts
    <2>4. Waiting' <=> Waiting
      BY <1>2, <2>2, WaitingShifts, WaitingComes
    <2>5. FlowOK' /\ FeaturesFirst'
      BY <1>1, <2>1, <2>3, <2>4 DEF FlowInv, FlowOK, FeaturesFirst
    <2>6. Paired'
      BY <1>1, <2>2, PairsKeep DEF FlowInv
    <2>8. ASSUME NEW t, t \in {"regime", "signal_v2"}
           PROVE  /\ \A i \in DOMAIN queue' : LastOn(t, i)' =>
                        i + 1 \in DOMAIN queue /\ queue'[i] = queue[i + 1] /\ LastOn(t, i + 1)
                  /\ NoneOn(t)' => NoneOn(t)
      <3>1. ~LastOn(t, 1)
        BY <1>1, <2>3, <2>8 DEF LastOn
      <3> QED BY <2>2, <3>1, LastWasLast
    <2>7. SignalComes' /\ RegimeComes'
      BY <1>1, <2>1, <2>4, <2>8 DEF FlowInv, SignalComes, RegimeComes, OfNow
    <2> QED BY <2>5, <2>6, <2>7 DEF FlowInv
  <1>3. CASE e.features # NoFeatures
    <2> DEFINE more == <<change, long, short>>
    <2>1. queue' = Tail(queue) \o more /\ classifier' = [adx |-> Computed(e.features, "adx", 0), regime |-> regime]
      <3>1. queue' = Tail(queue) \o (<<change>> \o <<long, short>>)
        BY <1>3 DEF OnFeatures, Take, SignalEvents
      <3>2. <<change>> \o <<long, short>> = more
        <4>2. change \in {change, long, short} /\ long \in {change, long, short} /\ short \in {change, long, short}
          OBVIOUS
        <4> HIDE DEF change, long, short
        <4> QED BY <4>2, Three
      <3>3. classifier' = [adx |-> Computed(e.features, "adx", 0), regime |-> regime]
        BY <1>3 DEF OnFeatures
      <3> QED BY <3>1, <3>2, <3>3
    <2>2. SignalNow \in Signals /\ OfNow(SignalNow)
      BY DEF SignalNow, Signals, OfNow, FlowInv, FlowOK
    <2>3. regime \in Regimes
      BY DEF Classify, Regimes
    <2>4. change \in Events /\ long \in Events /\ short \in Events
      BY <2>2, <2>3 DEF Events
    <2>5. /\ change.topic = "regime" /\ change.regime = regime
          /\ long.topic = "signal_v2" /\ long.signal = SignalNow
          /\ short.topic = "signal_generated" /\ Repeats(short, SignalNow)
      BY DEF Repeats
    <2> HIDE DEF change, long, short
    <2>6. /\ more \in Seq(Events) /\ Len(more) = 3 /\ more[1] = change /\ more[2] = long /\ more[3] = short
          /\ \A k \in 1 .. Len(more) : k \in {1, 2, 3}
      BY <2>4
    <2>13. Taken(more)
      BY <1>1, <2>1, <2>6 DEF Taken
    <2> HIDE DEF more
    <2> DEFINE n == Len(queue)
    <2>7. /\ n \in Nat \ {0} /\ queue' \in Seq(Events) /\ DOMAIN queue' = 1 .. n + 2
          /\ queue'[n] = change /\ queue'[n + 1] = long /\ queue'[n + 2] = short
      <3>1. /\ n \in Nat \ {0} /\ queue' \in Seq(Events) /\ DOMAIN queue' = 1 .. n - 1 + 3
            /\ \A k \in 1 .. 3 : queue'[n - 1 + k] = more[k]
        BY <2>6, <2>13, Shifts
      <3>2. n - 1 + 3 = n + 2 /\ n - 1 + 1 = n /\ n - 1 + 2 = n + 1
        BY <3>1
      <3> QED BY <2>6, <3>1, <3>2
    <2>8. FlowOK'
      BY <1>1, <2>1, <2>7 DEF FlowInv, FlowOK
    <2>9. features # NoFeatures
      <3>1. Waiting
        BY <1>1, <1>3 DEF Waiting
      <3> QED BY <3>1 DEF FlowInv, FeaturesFirst
    <2>10. Paired'
      BY <1>1, <2>5, <2>6, <2>13, PairsKeep DEF FlowInv
    <2> HIDE DEF n
    <2>11. SignalComes'
      <3>1. ~NoneOn("signal_v2")' /\ \A i \in DOMAIN queue' : LastOn("signal_v2", i)' => i = n + 1
        BY <2>5, <2>7 DEF NoneOn, LastOn
      <3>2. OfNow(SignalNow)'
        BY <1>1, <2>2 DEF OfNow, SignalNow
      <3> QED BY <1>1, <2>2, <2>5, <2>7, <3>1 DEF SignalComes, OfNow
    <2>12. RegimeComes'
      <3>1. ~NoneOn("regime")' /\ \A i \in DOMAIN queue' : LastOn("regime", i)' => i = n
        BY <2>5, <2>7 DEF NoneOn, LastOn
      <3> QED BY <2>1, <2>5, <2>7, <3>1 DEF RegimeComes
    <2> QED BY <1>1, <2>8, <2>9, <2>10, <2>11, <2>12 DEF FlowInv, FeaturesFirst
  <1> QED BY <1>2, <1>3

\* The handlers that publish nothing.
LEMMA HandlerKeeps ==
  ASSUME FlowInv, OnRegime \/ OnSignal \/ OnGenerated
  PROVE  FlowInv'
  <1>1. /\ Taken(<<>>) /\ UNCHANGED <<features, updated, classifier, clock>>
        /\ Head(queue).topic \in {"regime", "signal_v2", "signal_generated"}
    <2>1. <<>> \in Seq(Events) /\ queue \in Seq(Events)
      BY DEF FlowInv, FlowOK
    <2> QED BY <2>1 DEF OnRegime, OnSignal, OnGenerated, Due, Take, Taken
  <1>2. PICK none : none = <<>> /\ Taken(none) /\ ~\E k \in 1 .. Len(none) : TRUE
    BY <1>1
  <1>3. /\ queue' \in Seq(Events) /\ Len(queue) \in Nat \ {0} /\ 1 \in DOMAIN queue /\ queue[1] = Head(queue)
        /\ Head(queue) \in Events
    BY <1>2, Shifts
  <1>4. Waiting' <=> Waiting
    BY <1>1, <1>2, WaitingShifts, WaitingComes
  <1>5. /\ desk' = [regime |-> desk'.regime, transition |-> desk'.transition, signal |-> desk'.signal]
        /\ desk'.signal = IF Head(queue).topic = "signal_v2" THEN Head(queue).signal ELSE desk.signal
        /\ desk'.signal \in Signals
        /\ IF Head(queue).topic = "regime"
           THEN desk'.regime = Head(queue).regime /\ engineRegime' = Head(queue).regime
           ELSE desk'.regime = desk.regime /\ engineRegime' = engineRegime
    <2>1. CASE OnRegime
      BY <2>1 DEF OnRegime, Due, FlowInv, FlowOK
    <2>2. CASE OnSignal
      <3>1. /\ Head(queue).topic = "signal_v2" /\ engineRegime' = engineRegime
            /\ desk' = [desk EXCEPT !.signal = Head(queue).signal]
        BY <2>2 DEF OnSignal, Due
      <3>2. Head(queue).signal \in Signals
        BY <1>3, <3>1 DEF Events
      <3> QED BY <3>1, <3>2 DEF FlowInv, FlowOK
    <2>3. CASE OnGenerated
      <3>1. /\ Head(queue).topic = "signal_generated" /\ engineRegime' = engineRegime
            /\ desk' = [desk EXCEPT !.signal.direction = Head(queue).direction,
                                    !.signal.conviction = Head(queue).conviction]
        BY <2>3 DEF OnGenerated, Due
      <3>2. Head(queue).direction = desk.signal.direction /\ Head(queue).conviction = desk.signal.conviction
        BY <1>3, <3>1 DEF FlowInv, Paired, Repeats
      <3>3. desk' = desk
        <4> DEFINE s == desk.signal
        <4>1. s = [direction |-> s.direction, conviction |-> s.conviction, D |-> s.D, P |-> s.P,
                   G |-> s.G, voters |-> s.voters]
          BY SignalIsRecord DEF FlowInv, FlowOK
        <4>2. [[s EXCEPT !.direction = s.direction] EXCEPT !.conviction = s.conviction] = s
          BY <4>1
        <4>3. desk = [regime |-> desk.regime, transition |-> desk.transition, signal |-> s]
          BY DEF FlowInv, FlowOK
        <4> QED BY <3>1, <3>2, <4>1, <4>2, <4>3
      <3> QED BY <3>1, <3>3 DEF FlowInv, FlowOK
    <2> QED BY <2>1, <2>2, <2>3
  <1>6. FlowOK' /\ FeaturesFirst'
    BY <1>1, <1>3, <1>4, <1>5 DEF FlowInv, FlowOK, FeaturesFirst
  <1>7. Paired'
    BY <1>2, <1>5, PairsKeep DEF FlowInv
  <1>8. SignalComes'
    <2>1. /\ \A i \in DOMAIN queue' : LastOn("signal_v2", i)' =>
               i + 1 \in DOMAIN queue /\ queue'[i] = queue[i + 1] /\ LastOn("signal_v2", i + 1)
          /\ NoneOn("signal_v2")' => NoneOn("signal_v2") \/ LastOn("signal_v2", 1)
      BY <1>2, LastWasLast
    <2>2. NoneOn("signal_v2") => Head(queue).topic # "signal_v2"
      BY <1>3 DEF NoneOn
    <2>3. LastOn("signal_v2", 1) => Head(queue).topic = "signal_v2"
      BY <1>3 DEF LastOn
    <2> QED BY <1>1, <1>3, <1>4, <1>5, <2>1, <2>2, <2>3 DEF FlowInv, SignalComes, OfNow
  <1>9. RegimeComes'
    <2>1. /\ \A i \in DOMAIN queue' : LastOn("regime", i)' =>
               i + 1 \in DOMAIN queue /\ queue'[i] = queue[i + 1] /\ LastOn("regime", i + 1)
          /\ NoneOn("regime")' => NoneOn("regime") \/ LastOn("regime", 1)
      BY <1>2, LastWasLast
    <2>2. NoneOn("regime") => Head(queue).topic # "regime"
      BY <1>3 DEF NoneOn
    <2>3. LastOn("regime", 1) => Head(queue).topic = "regime"
      BY <1>3 DEF LastOn
    <2> QED BY <1>1, <1>3, <1>5, <2>1, <2>2, <2>3 DEF FlowInv, RegimeComes
  <1> QED BY <1>6, <1>7, <1>8, <1>9 DEF FlowInv

\* Every step keeps the invariant.
LEMMA FlowStep == FlowInv /\ [FlowNext]_flowVars => FlowInv'
  <1> SUFFICES ASSUME FlowInv, [FlowNext]_flowVars PROVE FlowInv'
    OBVIOUS
  <1>1. CASE ClockTicks \/ UNCHANGED flowVars
    <2>1. UNCHANGED <<queue, features, updated, classifier, engineRegime, desk>> /\ clock' \in {clock, clock + 1}
      BY <1>1 DEF ClockTicks, flowVars
    <2> QED BY <2>1 DEF FlowInv, FlowOK, FeaturesFirst, Waiting, Paired, SignalComes, RegimeComes,
               LastOn, NoneOn, OfNow
  <1> QED BY <1>1, TickComes, PriceTickKeeps, FeaturesKeep, HandlerKeeps DEF FlowNext

\* However ticks, features, regimes and both events of a signal interleave on the bus, the
\* desk shows, once the bus is quiet, one signal with the direction and conviction of its
\* votes, of the current features or refused as stale, and everyone's regime is one.
THEOREM SignalSettles == FlowSpec => []SettledSignal
  <1>1. FlowSpec => []FlowInv
    BY FlowStart, FlowStep, PTL DEF FlowSpec
  <1>2. FlowInv => SettledSignal
    <2>1. ASSUME FlowInv, queue = <<>>, classifier.regime # "none" PROVE SettledSignal
      <3>1. NoneOn("signal_v2") /\ NoneOn("regime") /\ ~Waiting
        BY <2>1 DEF NoneOn, Waiting
      <3> QED BY <2>1, <3>1 DEF FlowInv, SignalComes, RegimeComes, OfNow, SettledSignal
    <2> QED BY <2>1 DEF SettledSignal
  <1> QED BY <1>1, <1>2, PTL

\* A signal points up, down or nowhere.
LEMMA SignalsPoint == \A s \in Signals : s.direction \in {"UP", "DOWN", "NEUTRAL"}
  <1>1. ASSUME NEW ballots PROVE SignalFrom(ballots).direction \in {"UP", "DOWN", "NEUTRAL"}
    BY DEF SignalFrom, StaleSignal, DirectionOf
  <1>2. StaleSignal.direction = "NEUTRAL"
    BY DEF StaleSignal
  <1> QED BY <1>1, <1>2 DEF Signals

\* Every step keeps the types of the flow.
LEMMA FlowTypesStep == FlowInv /\ FlowTypeOK /\ [FlowNext]_flowVars => FlowTypeOK'
  <1> SUFFICES ASSUME FlowInv, FlowTypeOK, [FlowNext]_flowVars PROVE FlowTypeOK'
    OBVIOUS
  <1> DEFINE e == Head(queue)
             Types(topic) == running /\ queue # <<>> /\ e.topic = topic
  <1>1. queue # <<>> => e \in Events
    <2>1. queue \in Seq(Events)
      BY DEF FlowInv, FlowOK
    <2> HIDE DEF Events
    <2> QED BY <2>1
  <1>2. CASE TickArrives
    <2>1. fed < MaxPriceTicks /\ fed' = fed + 1
          /\ UNCHANGED <<features, updated, classifier, engineRegime, desk, queued, clock>>
      BY <1>2 DEF TickArrives
    <2> QED BY <2>1, SignalFlowAssumption DEF FlowTypeOK
  <1>3. CASE ClockTicks
    BY <1>3, SignalFlowAssumption DEF ClockTicks, FlowTypeOK
  <1>4. CASE OnPriceTick
    <2>1. e.topic = "tick" /\ e \in Events
      BY <1>1, <1>4 DEF OnPriceTick, Due
    <2>2. e.reading \in [FeatureNames -> Nat \cup {Absent}]
      BY <2>1, SignalFlowAssumption DEF Events
    <2>3. PICK stale : features' = (IF stale THEN features ELSE FeaturesAfter(e.reading))
                       /\ updated' = (IF stale THEN updated ELSE clock)
      BY <1>4 DEF OnPriceTick
    <2>4. features' \in [FeatureNames -> Nat \cup {Absent}]
      BY <2>2, <2>3 DEF FeaturesAfter, FlowTypeOK
    <2>5. UNCHANGED <<classifier, engineRegime, desk, queued, clock, fed>>
      BY <1>4 DEF OnPriceTick
    <2>6. updated' \in 0 .. clock'
      BY <2>3, <2>5, SignalFlowAssumption DEF FlowTypeOK
    <2> QED BY <2>4, <2>5, <2>6 DEF FlowTypeOK
  <1>5. CASE OnFeatures
    <2>1. PICK regime : regime \in Regimes /\
             (classifier' = classifier \/ classifier'.regime = regime)
      <3>1. \A before, f : Classify(before, f) \in Regimes
        BY DEF Classify, Regimes
      <3> QED BY <1>5, <3>1 DEF OnFeatures
    <2>2. UNCHANGED <<features, updated, engineRegime, desk, queued, clock, fed>>
      BY <1>5 DEF OnFeatures
    <2> QED BY <2>1, <2>2 DEF FlowTypeOK
  <1>6. CASE OnRegime
    <2>1. e.topic = "regime" /\ e \in Events
      BY <1>1, <1>6 DEF OnRegime, Due
    <2>2. e.regime \in Regimes /\ e.transition \in BOOLEAN
      BY <2>1 DEF Events
    <2>3. /\ engineRegime' = e.regime
          /\ desk' = [desk EXCEPT !.regime = e.regime, !.transition = e.transition]
          /\ UNCHANGED <<features, updated, classifier, queued, clock, fed>>
      BY <1>6 DEF OnRegime
    <2>4. desk'.regime = e.regime /\ desk'.transition = e.transition /\ desk'.signal = desk.signal
      BY <2>3 DEF FlowInv, FlowOK
    <2> HIDE DEF e
    <2>5. desk'.transition \in BOOLEAN
      BY <2>2, <2>4
    <2> QED BY <2>2, <2>3, <2>4, <2>5 DEF FlowTypeOK
  <1>7. CASE OnSignal
    <2>1. e.topic = "signal_v2" /\ e \in Events
      BY <1>1, <1>7 DEF OnSignal, Due
    <2>2. e.signal \in Signals
      BY <2>1 DEF Events
    <2>3. /\ desk' = [desk EXCEPT !.signal = e.signal]
          /\ queued' = queued \cup {SideOf(e.signal) : h \in BuildHint(e.signal, ChainRows, TRUE, LotSize)}
          /\ UNCHANGED <<features, updated, classifier, engineRegime, clock, fed>>
      BY <1>7 DEF OnSignal
    <2>4. desk'.regime = desk.regime /\ desk'.transition = desk.transition /\ desk'.signal = e.signal
      BY <2>3 DEF FlowInv, FlowOK
    <2>5. queued' \subseteq {"BUY", "SELL"}
      <3>1. SideOf(e.signal) \in {"BUY", "SELL"}
        BY DEF SideOf
      <3> QED BY <2>3, <3>1 DEF FlowTypeOK
    <2>6. desk'.signal.direction \in {"UP", "DOWN", "NEUTRAL"}
      BY <2>2, <2>4, SignalsPoint
    <2>7. desk'.transition \in BOOLEAN
      BY <2>4 DEF FlowTypeOK
    <2> QED BY <2>3, <2>4, <2>5, <2>6, <2>7 DEF FlowTypeOK
  <1>8. CASE OnGenerated
    <2>1. e.topic = "signal_generated" /\ e \in Events
      BY <1>1, <1>8 DEF OnGenerated, Due
    <2>2. e.direction \in {"UP", "DOWN", "NEUTRAL"}
      BY <2>1, SignalsPoint DEF Events
    <2>3. /\ desk' = [desk EXCEPT !.signal.direction = e.direction, !.signal.conviction = e.conviction]
          /\ UNCHANGED <<features, updated, classifier, engineRegime, queued, clock, fed>>
      BY <1>8 DEF OnGenerated
    <2>4. \A s \in Signals : [s EXCEPT !.direction = e.direction, !.conviction = e.conviction].direction = e.direction
      BY DEF Signals, SignalFrom, StaleSignal
    <2>5. desk'.regime = desk.regime /\ desk'.transition = desk.transition
          /\ desk'.signal.direction = e.direction
      BY <2>3, <2>4 DEF FlowInv, FlowOK
    <2>7. desk'.transition \in BOOLEAN
      BY <2>5 DEF FlowTypeOK
    <2> HIDE DEF e
    <2> QED BY <2>2, <2>3, <2>5, <2>7 DEF FlowTypeOK
  <1>9. CASE UNCHANGED flowVars
    BY <1>9 DEF flowVars, FlowTypeOK
  <1> QED BY <1>2, <1>3, <1>4, <1>5, <1>6, <1>7, <1>8, <1>9 DEF FlowNext

\* Features are numbers or absent, none was computed in the future, and the desk, the engine and
\* the classifier know only the regimes of the rules, whatever the ticks bring.
THEOREM FlowWellFormed == FlowSpec => []FlowTypeOK
  <1>1. FlowInit => FlowTypeOK
    <2> SUFFICES ASSUME FlowInit PROVE FlowTypeOK
      OBVIOUS
    <2>1. features \in [FeatureNames -> Nat \cup {Absent}]
      BY DEF FlowInit, NoFeatures
    <2>2. updated \in 0..clock /\ clock \in 1..MaxClock /\ fed \in 0..MaxPriceTicks
      BY SignalFlowAssumption DEF FlowInit
    <2>3. /\ classifier.regime \in Regimes \cup {"none"} /\ engineRegime \in Regimes \cup {"none"}
          /\ desk.regime \in Regimes /\ desk.transition = FALSE
          /\ desk.signal.direction = "NEUTRAL" /\ queued = {}
      BY DEF FlowInit, Regimes, StaleSignal
    <2> QED BY <2>1, <2>2, <2>3 DEF FlowTypeOK
  <1>2. FlowSpec => []FlowInv
    BY FlowStart, FlowStep, PTL DEF FlowSpec
  <1> QED BY <1>1, <1>2, FlowTypesStep, PTL DEF FlowSpec

-----------------------------------------------------------------------------
\* The scanners and their bridge.

\* The types that the steps need.
ScansOK ==
  /\ cached \in Chains \cup {NoChain}
  /\ emitted \in Seq([type : FindingTypes, severity : {"LOW", "MEDIUM", "HIGH"}, side : {"UP", "DOWN", "none"}])
  /\ elapsed \in Nat /\ boot \in Nat
  /\ cooled \in [FindingTypes -> -1 .. elapsed]
  /\ \A p \in bridged : p.at \in 0 .. elapsed /\ p.boot \in 0 .. boot

\* A proposal of this process keeps its type cooling until the cooldown is over.
KeepsCooling == \A p \in bridged : p.boot = boot => p.type \in FindingTypes /\ cooled[p.type] >= p.at

ScanInv == ScansOK /\ KeepsCooling /\ OneProposalPerCooldown

\* The scanners find findings.
LEMMA FoundTyped ==
  ASSUME NEW type \in FindingTypes, NEW severity \in {"LOW", "MEDIUM", "HIGH", "none"},
         NEW side \in {"UP", "DOWN", "none"}
  PROVE  FoundIf(type, severity, side) \in Seq(Findings)
  <1>1. CASE severity = "none"
    BY <1>1 DEF FoundIf
  <1>2. CASE severity # "none"
    <2>1. Found(type, severity, side) \in Findings
      BY <1>2 DEF Found, Findings
    <2> QED BY <1>2, <2>1 DEF FoundIf
  <1> QED BY <1>1, <1>2

\* So do the gamma scans of one strike.
LEMMA GammaFoundTyped ==
  ASSUME NEW chain, NEW s
  PROVE  GammaFound(chain, s) \in Seq(Findings)
  <1> DEFINE new == GammasAt(chain, s)
             spike(i) == GammaSpike(GammaHistory(s) \o SubSeq(new, 1, i - 1), new[i])
             all == [i \in DOMAIN new |-> FoundIf("gamma_spike", spike(i), "none")]
  <1>1. PICK V : new \in Seq(V)
    <2> DEFINE of(kind) == {c \in chain.contracts : c.strike = s /\ c.kind = kind /\ c.gamma > 0}
               V == {(CHOOSE c \in of("CE") : TRUE).gamma, (CHOOSE c \in of("PE") : TRUE).gamma}
               one(kind) == IF of(kind) = {} THEN <<>> ELSE <<(CHOOSE c \in of(kind) : TRUE).gamma>>
    <2>1. one("CE") \in Seq(V) /\ one("PE") \in Seq(V)
      <3> DEFINE x == (CHOOSE c \in of("CE") : TRUE).gamma  y == (CHOOSE c \in of("PE") : TRUE).gamma
      <3>1. one("CE") = IF of("CE") = {} THEN <<>> ELSE <<x>>
        OBVIOUS
      <3>2. one("PE") = IF of("PE") = {} THEN <<>> ELSE <<y>>
        OBVIOUS
      <3>3. V = {x, y}
        OBVIOUS
      <3>4. <<>> \in Seq(V) /\ <<x>> \in Seq(V) /\ <<y>> \in Seq(V)
        <4> HIDE DEF x, y
        <4> QED BY <3>3
      <3> HIDE DEF of, one, V, x, y
      <3>5. one("CE") \in Seq(V)
        BY <3>1, <3>4
      <3>6. one("PE") \in Seq(V)
        BY <3>2, <3>4
      <3> QED BY <3>5, <3>6
    <2>2. new = one("CE") \o one("PE")
      BY DEF GammasAt
    <2> HIDE DEF one, V
    <2>3. one("CE") \o one("PE") \in Seq(V)
      BY <2>1
    <2> QED BY <2>2, <2>3
  <1>2. \A i : FoundIf("gamma_spike", spike(i), "none") \in Seq(Findings)
    <2>1. \A i : spike(i) \in {"HIGH", "none"}
      BY DEF GammaSpike
    <2> HIDE DEF spike
    <2> QED BY <2>1, FoundTyped DEF FindingTypes
  <1>3. all \in Seq(Seq(Findings))
    <2>1. DOMAIN new = 1 .. Len(new) /\ Len(new) \in Nat
      BY <1>1
    <2> HIDE DEF new, spike
    <2> QED BY <1>2, <2>1
  <1>4. FlattenSeq(all) \in Seq(Findings)
    <2> HIDE DEF all
    <2> QED BY <1>3, FlattenType
  <1> QED BY <1>4 DEF GammaFound

\* And a whole pass over a chain.
LEMMA PassFinds ==
  ASSUME NEW chain, IsFiniteSet(chain.contracts), NEW dte
  PROVE  Pass(chain, dte).findings \in Seq(Findings)
  <1> DEFINE offered == chain.contracts
             n == Cardinality(Strikes(offered))
             m == Cardinality(ThetaHarvest(offered, chain.spot, dte))
             spikes == [i \in 1 .. n |-> GammaFound(chain, SetToSortSeq(Strikes(offered), <)[i])]
             thetas == [i \in 1 .. m |-> Found("theta_harvest", "MEDIUM", "none")]
  <1>1. FlattenSeq(spikes) \in Seq(Findings)
    <2>1. n \in Nat
      <3>1. IsFiniteSet(Strikes(offered))
        <4> DEFINE f == [c \in offered |-> c.strike]
        <4>1. f \in Surjection(offered, Strikes(offered))
          BY DEF Strikes, Surjection
        <4> QED BY <4>1, FS_Surjection
      <3> QED BY <3>1, FS_CardinalityType
    <2>2. spikes \in Seq(Seq(Findings))
      <3> DEFINE at(i) == GammaFound(chain, SetToSortSeq(Strikes(offered), <)[i])
      <3>1. \A i : at(i) \in Seq(Findings)
        BY GammaFoundTyped
      <3> HIDE DEF n, at
      <3>2. [i \in 1 .. n |-> at(i)] \in Seq(Seq(Findings))
        BY <2>1, <3>1
      <3> QED BY <3>2 DEF at
    <2> HIDE DEF spikes
    <2> QED BY <2>2, FlattenType
  <1>2. thetas \in Seq(Findings)
    <2>1. m \in Nat
      <3>1. IsFiniteSet(ThetaHarvest(offered, chain.spot, dte))
        BY FS_Subset DEF ThetaHarvest
      <3> QED BY <3>1, FS_CardinalityType
    <2>2. Found("theta_harvest", "MEDIUM", "none") \in Findings
      BY DEF Found, Findings, FindingTypes
    <2> HIDE DEF m
    <2> QED BY <2>1, <2>2
  <1>3. \A ivs1, atm : FoundIf("iv_crush", IvCrush(ivs1, atm, dte), "none") \in Seq(Findings)
    <2>1. \A ivs1, atm : IvCrush(ivs1, atm, dte) \in {"HIGH", "none"}
      BY DEF IvCrush
    <2> QED BY <2>1, FoundTyped DEF FindingTypes
  <1>4. \A ivs1, atm : FoundIf("iv_expansion", IvExpansion(ivs1, atm, lastLow), "none") \in Seq(Findings)
    <2>1. \A ivs1, atm : IvExpansion(ivs1, atm, lastLow) \in {"HIGH", "none"}
      BY DEF IvExpansion
    <2> QED BY <2>1, FoundTyped DEF FindingTypes
  <1>5. \A put, call : FoundIf("pcr_extremes", PcrExtreme(put, call), "none") \in Seq(Findings)
    <2>1. \A put, call : PcrExtreme(put, call) \in {"HIGH", "MEDIUM", "none"}
      BY DEF PcrExtreme
    <2> QED BY <2>1, FoundTyped DEF FindingTypes
  <1>6. \A side \in {"UP", "DOWN"} :
          FoundIf("max_pain_drift", MaxPainDrift(offered, chain.spot, dte), side) \in Seq(Findings)
    <2>1. MaxPainDrift(offered, chain.spot, dte) \in {"HIGH", "MEDIUM", "none"}
      BY DEF MaxPainDrift
    <2> QED BY <2>1, FoundTyped DEF FindingTypes
  <1>7. FoundIf("vertical_skew", VerticalSkew(offered), "none") \in Seq(Findings)
    <2>1. VerticalSkew(offered) \in {"MEDIUM", "none"}
      BY DEF VerticalSkew
    <2> QED BY <2>1, FoundTyped DEF FindingTypes
  <1>8. PICK a \in Seq(Findings), b \in Seq(Findings), c \in Seq(Findings), d \in Seq(Findings),
              e \in Seq(Findings), f \in Seq(Findings), g \in Seq(Findings) :
          Pass(chain, dte).findings = a \o b \o c \o d \o e \o f \o g
    <2> DEFINE drift == FoundIf("max_pain_drift", MaxPainDrift(offered, chain.spot, dte),
                                IF chain.spot > MaxPain(offered) THEN "DOWN" ELSE "UP")
               given == ivs \o RawIvsOf(chain)
               atm == AtmIv(offered, chain.spot)
               crush == FoundIf("iv_crush", IvCrush(Append(given, atm), atm, dte), "none")
               expand == FoundIf("iv_expansion", IvExpansion(Append(Append(given, atm), atm), atm, lastLow), "none")
               pcr == FoundIf("pcr_extremes", PcrExtreme(OiOf(OisAfter(chain), "PE"), OiOf(OisAfter(chain), "CE")), "none")
               skew == FoundIf("vertical_skew", VerticalSkew(offered), "none")
    <2>1. Pass(chain, dte).findings = FlattenSeq(spikes) \o crush \o expand \o pcr \o drift \o thetas \o skew
      BY DEF Pass
    <2>2. drift \in Seq(Findings)
      BY <1>6
    <2>3. crush \in Seq(Findings) /\ expand \in Seq(Findings) /\ pcr \in Seq(Findings)
      BY <1>3, <1>4, <1>5
    <2> HIDE DEF drift, crush, expand, pcr, skew, thetas, spikes
    <2> QED BY <1>1, <1>2, <1>7, <2>1, <2>2, <2>3 DEF skew
  <1> QED BY <1>8

\* Nothing was proposed at first.
LEMMA ScanStart == ScanInit => ScanInv
  BY ScanAssumption DEF ScanInit, ScanInv, ScansOK, KeepsCooling, OneProposalPerCooldown

\* The bridge proposes only what does not cool.
LEMMA BridgeKeeps ==
  ASSUME ScanInv, NEW finding \in Findings, NEW submitted \in BOOLEAN,
         Bridge(finding, submitted), UNCHANGED <<elapsed, boot>>
  PROVE  /\ cooled' \in [FindingTypes -> -1 .. elapsed]
         /\ \A p \in bridged' : p.at \in 0 .. elapsed /\ p.boot \in 0 .. boot
         /\ KeepsCooling' /\ OneProposalPerCooldown'
  <1>1. CASE UNCHANGED <<cooled, bridged>>
    BY <1>1 DEF ScanInv, ScansOK, KeepsCooling, OneProposalPerCooldown
  <1>2. CASE ~Cooling(finding.type) /\ WorthProposing(finding) /\ submitted
    <2> DEFINE t == finding.type
               new == [type |-> t, side |-> finding.side, at |-> elapsed, boot |-> boot,
                       nth |-> Cardinality(bridged)]
    <2>1. t \in FindingTypes
      BY DEF Findings
    <2>2. cooled' = [cooled EXCEPT ![t] = elapsed] /\ bridged' = bridged \cup {new}
      BY <1>2 DEF Bridge
    <2>3. cooled[t] >= 0 => elapsed - cooled[t] >= Cooldown
      BY <1>2, <2>1, ScanAssumption DEF Cooling, ScanInv, ScansOK
    <2>4. new.type = t /\ new.at = elapsed /\ new.boot = boot
      OBVIOUS
    <2> HIDE DEF new, t
    <2>5. cooled' \in [FindingTypes -> -1 .. elapsed]
      BY <2>1, <2>2 DEF ScanInv, ScansOK
    <2>6. \A p \in bridged' : p.at \in 0 .. elapsed /\ p.boot \in 0 .. boot
      BY <2>2, <2>4 DEF ScanInv, ScansOK
    <2>7. KeepsCooling'
      BY <2>1, <2>2, <2>4 DEF ScanInv, ScansOK, KeepsCooling
    <2>8. \A p \in bridged : p.type = t /\ p.boot = boot => elapsed - p.at >= Cooldown
      BY <2>1, <2>3, ScanAssumption DEF ScanInv, ScansOK, KeepsCooling
    <2>9. OneProposalPerCooldown'
      BY <2>2, <2>4, <2>8 DEF ScanInv, OneProposalPerCooldown
    <2> QED BY <2>5, <2>6, <2>7, <2>9
  <1> QED BY <1>1, <1>2 DEF Bridge

\* Every step keeps the invariant.
LEMMA ScanStep == ScanInv /\ [ScanNext]_scanVars => ScanInv'
  <1> SUFFICES ASSUME ScanInv, [ScanNext]_scanVars PROVE ScanInv'
    OBVIOUS
  <1>0. emitted \in Seq(Findings)
    BY DEF ScanInv, ScansOK, Findings
  <1>1. ASSUME UNCHANGED <<cooled, bridged, elapsed, boot>>, emitted' \in Seq(Findings),
               cached' \in Chains \cup {NoChain}
        PROVE  ScanInv'
    BY <1>1 DEF ScanInv, ScansOK, KeepsCooling, OneProposalPerCooldown, Findings
  <1>2. ASSUME NEW bar \in BarFeed, OnBar(bar) PROVE ScanInv'
    <2> DEFINE m == barMemory
               gap == IF m.closed < 0 THEN "none" ELSE GapFill([close |-> m.closed], bar)
               a == FoundIf("gap_fill", gap, "none")
               b == FoundIf("volume_anomaly", VolumeAnomaly(m.volumes, bar), "none")
               c == FoundIf("oi_buildup", OiBuildup(m.oi, bar.oi), "none")
    <2>1. a \in Seq(Findings)
      <3>1. gap \in {"HIGH", "MEDIUM", "none"}
        BY DEF GapFill
      <3> QED BY <3>1, FoundTyped DEF FindingTypes
    <2>2. b \in Seq(Findings)
      <3>1. VolumeAnomaly(m.volumes, bar) \in {"HIGH", "none"}
        BY DEF VolumeAnomaly
      <3> QED BY <3>1, FoundTyped DEF FindingTypes
    <2>3. c \in Seq(Findings)
      <3>1. OiBuildup(m.oi, bar.oi) \in {"HIGH", "MEDIUM", "none"}
        BY DEF OiBuildup
      <3> QED BY <3>1, FoundTyped DEF FindingTypes
    <2>4. emitted' = emitted \o (a \o b \o c) /\ UNCHANGED <<cached, cooled, bridged, elapsed, boot>>
      BY <1>2 DEF OnBar
    <2>5. emitted' \in Seq(Findings)
      <3> HIDE DEF a, b, c
      <3> QED BY <1>0, <2>1, <2>2, <2>3, <2>4
    <2> QED BY <1>1, <2>4, <2>5 DEF ScanInv, ScansOK
  <1>3. ASSUME NEW chain \in Chains, RefreshChain(chain) PROVE ScanInv'
    BY <1>0, <1>1, <1>3 DEF RefreshChain
  <1>4. ASSUME NEW dte \in Dtes, PollChain(dte) PROVE ScanInv'
    <2>1. cached \in Chains /\ IsFiniteSet(cached.contracts)
      BY <1>4, ScanAssumption DEF PollChain, ScanInv, ScansOK
    <2>2. Pass(cached, dte).findings \in Seq(Findings)
      BY <2>1, PassFinds
    <2>3. emitted' = emitted \o Pass(cached, dte).findings /\ UNCHANGED <<cached, cooled, bridged, elapsed, boot>>
      BY <1>4 DEF PollChain
    <2> QED BY <1>0, <1>1, <2>1, <2>2, <2>3
  <1>5. ASSUME NEW kept \in BOOLEAN, NEW submitted \in BOOLEAN, OnFinding(kept, submitted) PROVE ScanInv'
    <2>1. /\ emitted # <<>> /\ emitted' = Tail(emitted) /\ Bridge(Head(emitted), submitted)
          /\ UNCHANGED <<cached, elapsed, boot>>
      BY <1>5 DEF OnFinding
    <2>2. Head(emitted) \in Findings /\ emitted' \in Seq(Findings)
      BY <1>0, <2>1
    <2> HIDE DEF Findings
    <2>3. /\ cooled' \in [FindingTypes -> -1 .. elapsed]
          /\ \A p \in bridged' : p.at \in 0 .. elapsed /\ p.boot \in 0 .. boot
          /\ KeepsCooling' /\ OneProposalPerCooldown'
      BY <2>1, <2>2, BridgeKeeps
    <2> QED BY <2>1, <2>2, <2>3 DEF ScanInv, ScansOK, Findings
  <1>6. CASE Elapse
    <2>1. elapsed' = elapsed + 1 /\ UNCHANGED <<cached, emitted, cooled, bridged, boot>>
      BY <1>6 DEF Elapse
    <2>2. ScansOK'
      BY <2>1 DEF ScanInv, ScansOK
    <2> QED BY <2>1, <2>2 DEF ScanInv, KeepsCooling, OneProposalPerCooldown
  <1>7. CASE RestartScanners
    <2>1. /\ boot' = boot + 1 /\ cached' = NoChain /\ emitted' = <<>>
          /\ cooled' = [t \in FindingTypes |-> -1] /\ UNCHANGED <<bridged, elapsed>>
      BY <1>7 DEF RestartScanners
    <2>2. ScansOK'
      BY <2>1 DEF ScanInv, ScansOK
    <2>3. KeepsCooling'
      BY <2>1 DEF ScanInv, ScansOK, KeepsCooling
    <2> QED BY <2>1, <2>2, <2>3 DEF ScanInv, OneProposalPerCooldown
  <1>8. CASE UNCHANGED scanVars
    BY <1>0, <1>1, <1>8 DEF scanVars, ScanInv, ScansOK
  <1> QED BY <1>2, <1>3, <1>4, <1>5, <1>6, <1>7, <1>8 DEF ScanNext

\* Findings repeat with every pass and wait on the bus in between (scanner_bridge.py); in one
\* process two proposals of a type are a cooldown apart, for any chains, rules and timing.
THEOREM CooldownHolds == ScanSpec => []OneProposalPerCooldown
  <1>1. ScanSpec => []ScanInv
    BY ScanStart, ScanStep, PTL DEF ScanSpec
  <1>2. ScanInv => OneProposalPerCooldown
    BY DEF ScanInv
  <1> QED BY <1>1, <1>2, PTL

\* The scanners' lists, as the step of one finding needs them.
ListsOK ==
  /\ \A t \in FindingTypes : listed[t] \in Seq(Findings) /\ Len(listed[t]) <= MaxPerType
  /\ listed = [t \in FindingTypes |-> listed[t]]
  /\ elapsed \in 0 .. MaxTime

\* The last n of a sequence are a sequence of at most n.
LEMMA LastOfTakes ==
  ASSUME NEW S, NEW seq \in Seq(S), NEW n \in Nat
  PROVE  LastOf(seq, n) \in Seq(S) /\ Len(LastOf(seq, n)) <= n
  <1> DEFINE from == IF Len(seq) > n THEN Len(seq) - n + 1 ELSE 1
  <1>1. from \in 1 .. Len(seq) + 1 /\ Len(seq) - from + 1 <= n
    OBVIOUS
  <1>2. LastOf(seq, n) = SubSeq(seq, from, Len(seq))
    BY DEF LastOf
  <1> HIDE DEF from
  <1>3. SubSeq(seq, from, Len(seq)) \in Seq(S) /\ Len(SubSeq(seq, from, Len(seq))) <= n
    BY <1>1
  <1> QED BY <1>2, <1>3

\* Every step keeps the lists within their bound.
LEMMA ListsStep == ScanInv /\ ListsOK /\ [ScanNext]_scanVars => ListsOK'
  <1> SUFFICES ASSUME ScanInv, ListsOK, [ScanNext]_scanVars PROVE ListsOK'
    OBVIOUS
  <1>1. ASSUME UNCHANGED <<listed, elapsed>> PROVE ListsOK'
    BY <1>1 DEF ListsOK
  <1>2. ASSUME NEW kept \in BOOLEAN, NEW submitted \in BOOLEAN, OnFinding(kept, submitted) PROVE ListsOK'
    <2> DEFINE finding == Head(emitted)
               now == LastOf(Append(listed[finding.type], finding), MaxPerType)
    <2>1. finding \in Findings
      <3>1. emitted # <<>> /\ emitted \in Seq(Findings)
        BY <1>2 DEF OnFinding, ScanInv, ScansOK, Findings
      <3> HIDE DEF Findings
      <3> QED BY <3>1
    <2>2. finding.type \in FindingTypes
      BY <2>1 DEF Findings
    <2>3. listed' = [listed EXCEPT ![finding.type] = now] /\ elapsed' = elapsed
      BY <1>2 DEF OnFinding
    <2>4. now \in Seq(Findings) /\ Len(now) <= MaxPerType
      <3>1. Append(listed[finding.type], finding) \in Seq(Findings)
        BY <2>1, <2>2 DEF ListsOK
      <3> QED BY <3>1, LastOfTakes, ScanAssumption
    <2> HIDE DEF now, finding
    <2> QED BY <2>2, <2>3, <2>4 DEF ListsOK
  <1>3. CASE Elapse
    BY <1>3, ScanAssumption DEF Elapse, ListsOK
  <1>4. CASE RestartScanners
    <2>1. listed' = [t \in FindingTypes |-> <<>>] /\ elapsed' = elapsed
      BY <1>4 DEF RestartScanners
    <2> QED BY <2>1, ScanAssumption DEF ListsOK
  <1>5. ASSUME NEW bar \in BarFeed, OnBar(bar) PROVE ListsOK'
    BY <1>1, <1>5 DEF OnBar
  <1>6. ASSUME NEW chain \in Chains, RefreshChain(chain) PROVE ListsOK'
    BY <1>1, <1>6 DEF RefreshChain
  <1>7. ASSUME NEW dte \in Dtes, PollChain(dte) PROVE ListsOK'
    BY <1>1, <1>7 DEF PollChain
  <1>8. CASE UNCHANGED scanVars
    BY <1>1, <1>8 DEF scanVars
  <1> QED BY <1>2, <1>3, <1>4, <1>5, <1>6, <1>7, <1>8 DEF ScanNext

\* Findings have a known type, severity and side wherever they wait, no type lists more than
\* MAX_PER_TYPE of them (projections.py), and no cooldown starts in the future.
THEOREM ScannersWellFormed == ScanSpec => []ScanTypeOK
  <1>1. ScanInit => ListsOK
    BY ScanAssumption DEF ScanInit, ListsOK
  <1>2. ScanInv /\ ListsOK => ScanTypeOK
    <2> SUFFICES ASSUME ScanInv, ListsOK PROVE ScanTypeOK
      OBVIOUS
    <2>1. cached \in Chains \cup {NoChain}
      BY DEF ScanInv, ScansOK
    <2>2. \A i \in DOMAIN emitted : emitted[i] \in Findings
      <3>1. emitted \in Seq(Findings)
        BY DEF ScanInv, ScansOK, Findings
      <3> HIDE DEF Findings
      <3> QED BY <3>1
    <2>3. \A t \in FindingTypes : Len(listed[t]) <= MaxPerType /\ cooled[t] \in -1 .. MaxTime
      BY ScanAssumption DEF ScanInv, ScansOK, ListsOK
    <2> QED BY <2>1, <2>2, <2>3 DEF ScanTypeOK
  <1> QED BY <1>1, <1>2, ScanStart, ScanStep, ListsStep, PTL DEF ScanSpec

-----------------------------------------------------------------------------
\* Learning sessions.

\* The types that the steps need.
Vote == [shadow : Shadows, signal : Nat \X Nat, dir : Signs, day : Nat,
         scored : {"unknown", "correct", "wrong"}, run : Nat, nth : Nat]
LearnsOK == run \in Nat /\ today \in Nat /\ signalSeq \in Nat /\ votes \subseteq Vote

\* Heard so far are the signals below signalSeq of this session and those of earlier ones.
HeardBefore(session, n) == session < run \/ (session = run /\ n < signalSeq)

\* A vote is of a signal that was heard in its session.
VotesTied == \A v \in votes : /\ v.signal = <<v.run, v.nth>> /\ HeardBefore(v.run, v.nth)
                                /\ v.signal \in DOMAIN heard
\* What awaits the outcome was heard in this session.
AwaitingHeard ==
  \A i \in DOMAIN awaiting :
    /\ i \in DOMAIN heard /\ awaiting[i] = heard[i]
    /\ \E n \in Nat : i = <<run, n>> /\ n < signalSeq
\* The session that is open has no outcome yet.
OpenNotEnded == /\ \A r \in DOMAIN ended : r \in Nat /\ r <= run
                /\ learns => run \notin DOMAIN ended

LearnInv == LearnsOK /\ VotesTied /\ AwaitingHeard /\ OpenNotEnded /\ ScoredByOwnSession

\* Nothing was cast at first.
LEMMA LearnStart == LearnInit => LearnInv
  BY DEF LearnInit, LearnInv, LearnsOK, VotesTied, AwaitingHeard, OpenNotEnded, ScoredByOwnSession

\* Every step keeps the invariant.
LEMMA LearnStep == LearnInv /\ [LearnNext]_learnVars => LearnInv'
  <1> SUFFICES ASSUME LearnInv, [LearnNext]_learnVars PROVE LearnInv'
    OBVIOUS
  <1> USE DEF LearnInv
  <1>1. CASE OpenSession
    <2>1. /\ ~learns /\ run' = run + 1 /\ signalSeq' = 0 /\ awaiting' = <<>>
          /\ UNCHANGED <<today, votes, heard, ended>>
      BY <1>1 DEF OpenSession
    <2>2. LearnsOK'
      BY <2>1 DEF LearnsOK
    <2>3. VotesTied'
      BY <2>1 DEF LearnsOK, Vote, VotesTied, HeardBefore
    <2>4. AwaitingHeard' /\ OpenNotEnded'
      BY <2>1 DEF LearnsOK, AwaitingHeard, OpenNotEnded
    <2> QED BY <2>1, <2>2, <2>3, <2>4 DEF ScoredByOwnSession
  <1>2. ASSUME NEW live \in Signs, NEW cast \in [Shadows -> Signs], NEW recorded \in BOOLEAN,
               NEW logged \in BOOLEAN, HearSignal(live, cast, recorded, logged)
        PROVE  LearnInv'
    <2> DEFINE id == <<run, signalSeq>>
    <2>1. /\ learns /\ votes' \in {votes, votes \cup VotesOf(id, cast)}
          /\ awaiting' = [i \in DOMAIN awaiting \cup {id} |-> IF i = id THEN live ELSE awaiting[i]]
          /\ heard' = [i \in DOMAIN heard \cup {id} |-> IF i = id THEN live ELSE heard[i]]
          /\ signalSeq' = signalSeq + 1 /\ UNCHANGED <<learns, run, today, ended>>
      BY <1>2 DEF HearSignal, SignalId
    <2>2. \A v \in VotesOf(id, cast) :
            v \in Vote /\ v.signal = id /\ v.run = run /\ v.nth = signalSeq /\ v.scored = "unknown"
      BY DEF VotesOf, Vote, LearnsOK
    <2>3. LearnsOK'
      BY <2>1, <2>2 DEF LearnsOK
    <2>4. VotesTied'
      BY <2>1, <2>2 DEF VotesTied, HeardBefore, LearnsOK, Vote
    <2>5. AwaitingHeard'
      <3>1. ASSUME NEW i \in DOMAIN awaiting'
            PROVE  i \in DOMAIN heard' /\ awaiting'[i] = heard'[i] /\ \E n \in Nat : i = <<run', n>> /\ n < signalSeq'
        <4>1. CASE i = id
          BY <2>1, <4>1 DEF LearnsOK
        <4>2. CASE i # id
          <5>1. i \in DOMAIN awaiting /\ awaiting'[i] = awaiting[i] /\ awaiting[i] = heard[i] /\ i \in DOMAIN heard
            BY <2>1, <4>2 DEF AwaitingHeard
          <5>2. PICK n \in Nat : i = <<run, n>> /\ n < signalSeq
            BY <5>1 DEF AwaitingHeard
          <5>3. heard'[i] = heard[i]
            BY <2>1, <4>2, <5>1
          <5> QED BY <2>1, <5>1, <5>2, <5>3 DEF LearnsOK
        <4> QED BY <4>1, <4>2
      <3> QED BY <3>1 DEF AwaitingHeard
    <2>6. ScoredByOwnSession'
      <3>1. ASSUME NEW v \in votes, v.scored # "unknown"
            PROVE  heard'[<<v.run, v.nth>>] = heard[<<v.run, v.nth>>]
        BY <2>1 DEF VotesTied, HeardBefore, LearnsOK, Vote
      <3> QED BY <2>1, <2>2, <3>1 DEF ScoredByOwnSession
    <2> QED BY <2>1, <2>3, <2>4, <2>5, <2>6 DEF OpenNotEnded
  <1>3. ASSUME NEW profit \in {-1, 0, 1}, NEW persisted \in SUBSET Shadows, CloseSession(profit, persisted)
        PROVE  LearnInv'
    <2> DEFINE outcome == OutcomeLabel(profit)
    <2>1. /\ learns /\ votes' = Scored(outcome) /\ learns' = FALSE /\ awaiting' = <<>>
          /\ ended' = [r \in DOMAIN ended \cup {run} |-> IF r = run THEN outcome ELSE ended[r]]
          /\ UNCHANGED <<run, today, signalSeq, heard>>
      BY <1>3 DEF CloseSession
    <2>2. ASSUME NEW w \in votes'
          PROVE  \E v \in votes :
                   \/ w = v /\ (outcome = "none" \/ v.signal \notin DOMAIN awaiting)
                   \/ /\ outcome # "none" /\ v.signal \in DOMAIN awaiting
                      /\ w = [v EXCEPT !.scored = IF IsCorrect(v.dir, awaiting[v.signal], outcome)
                                                  THEN "correct" ELSE "wrong"]
      BY <2>1 DEF Scored
    <2>3. ASSUME NEW w \in votes'
          PROVE  /\ w \in Vote /\ w.signal \in DOMAIN heard /\ w.signal = <<w.run, w.nth>> /\ HeardBefore(w.run, w.nth)
                 /\ w.scored # "unknown" =>
                      /\ w.run \in DOMAIN ended' /\ ended'[w.run] # "none"
                      /\ (w.scored = "correct") = IsCorrect(w.dir, heard[<<w.run, w.nth>>], ended'[w.run])
      <3>1. PICK v \in votes :
                   \/ w = v /\ (outcome = "none" \/ v.signal \notin DOMAIN awaiting)
                   \/ /\ outcome # "none" /\ v.signal \in DOMAIN awaiting
                      /\ w = [v EXCEPT !.scored = IF IsCorrect(v.dir, awaiting[v.signal], outcome)
                                                  THEN "correct" ELSE "wrong"]
        BY <2>2
      <3>2. v \in Vote /\ v.signal \in DOMAIN heard /\ v.signal = <<v.run, v.nth>> /\ HeardBefore(v.run, v.nth)
        BY DEF LearnsOK, VotesTied
      <3>3. CASE w = v
        <4>1. w.scored # "unknown" => w.run \in DOMAIN ended /\ w.run # run
          BY <2>1, <3>3 DEF ScoredByOwnSession, OpenNotEnded
        <4> QED BY <2>1, <3>2, <3>3, <4>1 DEF ScoredByOwnSession
      <3>4. CASE /\ outcome # "none" /\ v.signal \in DOMAIN awaiting
                 /\ w = [v EXCEPT !.scored = IF IsCorrect(v.dir, awaiting[v.signal], outcome)
                                             THEN "correct" ELSE "wrong"]
        <4>1. /\ w \in Vote /\ w.signal = v.signal /\ w.run = v.run /\ w.nth = v.nth /\ w.dir = v.dir
              /\ w.scored = IF IsCorrect(v.dir, awaiting[v.signal], outcome) THEN "correct" ELSE "wrong"
          <5> HIDE DEF outcome
          <5> QED BY <3>2, <3>4 DEF Vote
        <4>2. v.run = run /\ awaiting[v.signal] = heard[v.signal]
          BY <3>2, <3>4 DEF AwaitingHeard
        <4>3. run \in DOMAIN ended' /\ ended'[run] = outcome
          BY <2>1
        <4>4. IsCorrect(v.dir, awaiting[v.signal], outcome) \in BOOLEAN
          BY DEF IsCorrect
        <4> HIDE DEF outcome
        <4> QED BY <3>2, <3>4, <4>1, <4>2, <4>3, <4>4
      <3> QED BY <3>1, <3>3, <3>4
    <2>4. LearnsOK' /\ VotesTied'
      BY <2>1, <2>3 DEF LearnsOK, VotesTied, HeardBefore
    <2>5. ScoredByOwnSession'
      BY <2>1, <2>3 DEF ScoredByOwnSession
    <2>6. AwaitingHeard' /\ OpenNotEnded'
      BY <2>1 DEF AwaitingHeard, OpenNotEnded, LearnsOK
    <2> QED BY <2>4, <2>5, <2>6
  <1>4. CASE LoseSession \/ NextDay \/ UNCHANGED learnVars
    <2>1. /\ UNCHANGED <<run, signalSeq, votes, heard, ended>> /\ (learns' => learns)
          /\ awaiting' \in {awaiting, <<>>} /\ today' \in {today, today + 1}
      BY <1>4 DEF LoseSession, NextDay, learnVars
    <2>2. LearnsOK' /\ OpenNotEnded' /\ AwaitingHeard'
      BY <2>1 DEF LearnsOK, OpenNotEnded, AwaitingHeard
    <2> QED BY <2>1, <2>2 DEF VotesTied, HeardBefore, ScoredByOwnSession
  <1> QED BY <1>1, <1>2, <1>3, <1>4 DEF LearnNext

\* Signals are numbered from zero again in every session and rows of sessions that died stay
\* behind (shadow strategies); still a vote is scored by its own signal and by the outcome
\* of its own session.
THEOREM VotesScoredInTheirSession == LearnSpec => []ScoredByOwnSession
  <1>1. LearnSpec => []LearnInv
    BY LearnStart, LearnStep, PTL DEF LearnSpec
  <1>2. LearnInv => ScoredByOwnSession
    BY DEF LearnInv
  <1> QED BY <1>1, <1>2, PTL

-----------------------------------------------------------------------------
\* The types of learning sessions.
SessionsOK ==
  /\ run \in 0 .. MaxSessions /\ signalSeq \in 0 .. MaxSignals /\ today \in 1 .. MaxDay
  /\ \A v \in votes : v.shadow \in Shadows /\ v.dir \in Signs /\ v.day \in 1 .. MaxDay
  /\ graduates \subseteq Shadows /\ registered \subseteq Shadows /\ voting \subseteq Shadows

LEMMA LearnsFlag == learns \in BOOLEAN /\ [LearnNext]_learnVars => learns' \in BOOLEAN
  BY DEF LearnNext, OpenSession, HearSignal, CloseSession, LoseSession, NextDay, learnVars

LEMMA SessionsStep == LearnsOK /\ SessionsOK /\ [LearnNext]_learnVars => SessionsOK'
  <1> SUFFICES ASSUME LearnsOK, SessionsOK, [LearnNext]_learnVars PROVE SessionsOK'
    OBVIOUS
  <1> USE LearningAssumption DEF SessionsOK
  <1>1. CASE OpenSession
    BY <1>1 DEF OpenSession
  <1>2. ASSUME NEW live \in Signs, NEW cast \in [Shadows -> Signs], NEW recorded \in BOOLEAN,
               NEW logged \in BOOLEAN, HearSignal(live, cast, recorded, logged)
        PROVE  SessionsOK'
    <2>1. \A v \in VotesOf(SignalId(run, signalSeq), cast) :
            v.shadow \in Shadows /\ v.dir \in Signs /\ v.day \in 1 .. MaxDay
      BY DEF VotesOf
    <2>2. votes' \subseteq votes \cup VotesOf(SignalId(run, signalSeq), cast) /\ signalSeq' \in 0 .. MaxSignals
      BY <1>2 DEF HearSignal
    <2> QED BY <1>2, <2>1, <2>2 DEF HearSignal
  <1>3. ASSUME NEW profit \in {-1, 0, 1}, NEW persisted \in SUBSET Shadows, CloseSession(profit, persisted)
        PROVE  SessionsOK'
    <2>1. ASSUME NEW w \in votes'
          PROVE  \E v \in votes : w.shadow = v.shadow /\ w.dir = v.dir /\ w.day = v.day
      <3>1. PICK v \in votes, s \in {"correct", "wrong"} : w = v \/ w = [v EXCEPT !.scored = s]
        BY <1>3 DEF CloseSession, Scored
      <3>2. v \in Vote
        BY DEF LearnsOK
      <3> QED BY <3>1, <3>2 DEF Vote
    <2>2. graduates' \subseteq Shadows /\ registered' \subseteq Shadows
      BY <1>3 DEF CloseSession, Graduate
    <2> QED BY <1>3, <2>1, <2>2 DEF CloseSession
  <1>4. CASE LoseSession
    BY <1>4 DEF LoseSession
  <1>5. CASE NextDay
    BY <1>5 DEF NextDay
  <1>6. CASE UNCHANGED learnVars
    BY <1>6 DEF learnVars
  <1> QED BY <1>1, <1>2, <1>3, <1>4, <1>5, <1>6 DEF LearnNext

\* Whatever is stored in shadow.db is a vote of a shadow strategy for a direction, and nothing but these
\* strategies ever graduates or votes live (shadow_manager.py), across sessions that are lost.
THEOREM SessionsWellFormed == LearnSpec => []LearnTypeOK
  <1> DEFINE Inv == LearnInv /\ learns \in BOOLEAN /\ SessionsOK
  <1>1. LearnInit => Inv
    <2>1. LearnInit => learns \in BOOLEAN
      BY DEF LearnInit
    <2>2. LearnInit => SessionsOK
      BY LearningAssumption DEF LearnInit, SessionsOK
    <2> QED BY <2>1, <2>2, LearnStart
  <1>2. Inv /\ [LearnNext]_learnVars => Inv'
    BY LearnStep, LearnsFlag, SessionsStep DEF LearnInv
  <1>3. Inv => LearnTypeOK
    BY DEF SessionsOK, LearnTypeOK
  <1> QED BY <1>1, <1>2, <1>3, PTL DEF LearnSpec

-----------------------------------------------------------------------------
\* Research passes.

Runs == [by : {"none", "operator", "scheduler"}, attempt : 0 .. MaxRetries, tools : 0 .. MaxToolCalls]

RunsOK == lensRuns \in [Briefs -> Runs] /\ calls \in [Briefs -> Nat]

\* What a run may have called so far, and what a brief may cost in all.
SoFar(lens) == lens.attempt * (MaxToolCalls + 1) + lens.tools + 1
Ceiling == (MaxRetries + 1) * (MaxToolCalls + 1)

Accounted ==
  \A b \in Briefs : calls[b] <= IF lensRuns[b] = Idle THEN Ceiling ELSE SoFar(lensRuns[b])

CallInv == RunsOK /\ Accounted

-----------------------------------------------------------------------------
\* Arithmetic of the two bounds.
LEMMA Products ==
  ASSUME NEW a \in Nat, NEW r \in Nat, NEW k \in Nat, a <= r
  PROVE  a * k \in Nat /\ (a + 1) * k = a * k + k /\ a * k + k <= (r + 1) * k
  <1>1. PICK d \in Nat : r = a + d
    BY a <= r
  <1>2. (r + 1) * k = a * k + k + d * k /\ d * k \in Nat
    BY <1>1
  <1> QED BY <1>2

LEMMA SoFarBounded ==
  ASSUME NEW lens \in Runs
  PROVE  SoFar(lens) \in Nat /\ SoFar(lens) >= 1 /\ SoFar(lens) <= Ceiling /\ Ceiling \in Nat
  <1>1. lens.attempt \in Nat /\ lens.attempt <= MaxRetries /\ lens.tools \in Nat
        /\ lens.tools <= MaxToolCalls
    BY ResearchAssumption DEF Runs
  <1>2. /\ lens.attempt * (MaxToolCalls + 1) \in Nat
        /\ lens.attempt * (MaxToolCalls + 1) + (MaxToolCalls + 1) <= Ceiling
    BY <1>1, Products, ResearchAssumption DEF Ceiling
  <1>3. Ceiling \in Nat
    BY Products, ResearchAssumption DEF Ceiling
  <1> QED BY <1>1, <1>2, <1>3, ResearchAssumption DEF SoFar

\* The next attempt of a run has a new budget.
NextAttempt(lens) == [lens EXCEPT !.attempt = @ + 1, !.tools = 0]

LEMMA NextAttemptIsRun ==
  ASSUME NEW lens \in Runs, lens.attempt < MaxRetries
  PROVE  /\ NextAttempt(lens) \in Runs
         /\ NextAttempt(lens).attempt = lens.attempt + 1 /\ NextAttempt(lens).tools = 0
  <1>1. lens.attempt + 1 \in 0 .. MaxRetries /\ 0 \in 0 .. MaxToolCalls
    BY ResearchAssumption DEF Runs
  <1>2. [lens EXCEPT !.attempt = @ + 1] \in Runs
    BY <1>1 DEF Runs
  <1>3. NextAttempt(lens) \in Runs
    BY <1>1, <1>2 DEF Runs, NextAttempt
  <1>4. NextAttempt(lens).attempt = lens.attempt + 1 /\ NextAttempt(lens).tools = 0
    BY DEF Runs, NextAttempt
  <1> QED BY <1>3, <1>4

LEMMA IdleIsRun == Idle \in Runs
  BY ResearchAssumption DEF Idle, Runs

-----------------------------------------------------------------------------
\* The ways a run may go on; other runs stay as they are.
LEMMA OneRunStep ==
  ASSUME CallInv, NEW b \in Briefs, NEW lens \in Runs, NEW n \in Nat,
         lensRuns' = [lensRuns EXCEPT ![b] = lens], calls' = [calls EXCEPT ![b] = n],
         n <= IF lens = Idle THEN Ceiling ELSE SoFar(lens)
  PROVE  CallInv'
  BY DEF CallInv, RunsOK, Accounted

LEMMA AskAgainStep ==
  ASSUME CallInv, NEW b \in Briefs, NEW lens \in Runs, lens # Idle, AskAgain(b, lens),
         calls[b] + 1 <= SoFar(lens)
  PROVE  CallInv'
  <1>1. calls[b] + 1 \in Nat
    BY DEF CallInv, RunsOK
  <1> QED BY <1>1, OneRunStep DEF AskAgain

LEMMA RunEnds ==
  ASSUME CallInv, NEW b \in Briefs, lensRuns[b] # Idle, LensRunEnds(b), UNCHANGED calls
  PROVE  CallInv'
  <1>1. calls[b] \in Nat /\ calls[b] <= Ceiling
    BY SoFarBounded DEF CallInv, RunsOK, Accounted
  <1>2. calls' = [calls EXCEPT ![b] = calls[b]]
    BY DEF CallInv, RunsOK
  <1> QED BY <1>1, <1>2, OneRunStep, IdleIsRun DEF LensRunEnds

LEMMA ToolsStep ==
  ASSUME CallInv, NEW b \in Briefs, NEW n \in 1 .. 2, ModelWantsTools(b, n)
  PROVE  CallInv'
  <1>1. lensRuns[b] # Idle /\ lensRuns[b] \in Runs /\ calls[b] \in Nat
        /\ calls[b] <= SoFar(lensRuns[b])
    BY DEF ModelWantsTools, CallInv, RunsOK, Accounted
  <1> DEFINE used == lensRuns[b].tools + n
             lens == [lensRuns[b] EXCEPT !.tools = used]
  <1>2. CASE used > MaxToolCalls
    BY <1>1, <1>2, RunEnds DEF ModelWantsTools
  <1>3. CASE ~(used > MaxToolCalls)
    <2>1. lensRuns[b].attempt \in Nat /\ lensRuns[b].tools \in Nat /\ used \in 0 .. MaxToolCalls
      BY <1>1, <1>3, ResearchAssumption DEF Runs
    <2>2. lens \in Runs /\ lens.attempt = lensRuns[b].attempt /\ lens.tools = used
      BY <1>1, <2>1 DEF Runs
    <2>3. lens # Idle
      BY <2>1, <2>2 DEF Idle
    <2>4. lensRuns[b].attempt * (MaxToolCalls + 1) \in Nat
      BY <2>1, ResearchAssumption, Products
    <2>5. calls[b] + 1 <= SoFar(lens)
      BY <1>1, <2>1, <2>2, <2>4 DEF SoFar
    <2>6. AskAgain(b, lens)
      BY <1>3 DEF ModelWantsTools
    <2> HIDE DEF lens
    <2> QED BY <2>2, <2>3, <2>5, <2>6, AskAgainStep
  <1> QED BY <1>2, <1>3

LEMMA FailsStep ==
  ASSUME CallInv, NEW b \in Briefs, ModelFails(b)
  PROVE  CallInv'
  <1>1. lensRuns[b] # Idle /\ lensRuns[b] \in Runs /\ calls[b] \in Nat
        /\ calls[b] <= SoFar(lensRuns[b])
    BY DEF ModelFails, CallInv, RunsOK, Accounted
  <1>2. CASE ~(lensRuns[b].attempt < MaxRetries)
    BY <1>1, <1>2, RunEnds DEF ModelFails
  <1>3. CASE lensRuns[b].attempt < MaxRetries
    <2> DEFINE a == lensRuns[b].attempt
               lens == NextAttempt(lensRuns[b])
    <2>1. a \in Nat /\ lensRuns[b].tools \in 0 .. MaxToolCalls
      BY <1>1, ResearchAssumption DEF Runs
    <2>2. lens \in Runs /\ lens.attempt = a + 1 /\ lens.tools = 0
      BY <1>1, <1>3, NextAttemptIsRun
    <2>3. AskAgain(b, lens)
      BY <1>3 DEF ModelFails, NextAttempt
    <2> HIDE DEF lens
    <2>4. lens # Idle
      BY <2>1, <2>2 DEF Idle
    <2>5. a * (MaxToolCalls + 1) \in Nat
          /\ (a + 1) * (MaxToolCalls + 1) = a * (MaxToolCalls + 1) + (MaxToolCalls + 1)
      BY <1>3, <2>1, ResearchAssumption, Products
    <2>6. calls[b] + 1 <= SoFar(lens)
      BY <1>1, <2>1, <2>2, <2>5, ResearchAssumption DEF SoFar
    <2> QED BY <2>2, <2>3, <2>4, <2>6, AskAgainStep
  <1> QED BY <1>2, <1>3

\* A pass starts runs that have called the model once, of briefs never asked for.
LEMMA PassStep ==
  ASSUME CallInv, NEW bs \in SUBSET Briefs, NEW who \in {"operator", "scheduler"},
         BeginPass(bs, who)
  PROVE  CallInv'
  <1> DEFINE lens == [by |-> who, attempt |-> 0, tools |-> 0]
  <1>1. lens \in Runs /\ lens # Idle
    BY ResearchAssumption DEF Runs, Idle
  <1>2. 1 <= SoFar(lens)
    BY <1>1, SoFarBounded
  <1> QED BY <1>1, <1>2 DEF BeginPass, CallInv, RunsOK, Accounted

\* Runs that are cancelled keep what they have called.
LEMMA CancelStep ==
  ASSUME CallInv, UNCHANGED calls,
         \A b \in Briefs : lensRuns'[b] \in {lensRuns[b], Idle}, lensRuns' \in [Briefs -> Runs]
  PROVE  CallInv'
  <1>1. \A b \in Briefs : lensRuns[b] \in Runs /\ calls[b] \in Nat
    BY DEF CallInv, RunsOK
  <1>2. \A b \in Briefs : calls[b] <= Ceiling
    BY <1>1, SoFarBounded DEF CallInv, Accounted
  <1> QED BY <1>1, <1>2 DEF CallInv, RunsOK, Accounted

LEMMA SettingsStep ==
  ASSUME CallInv,
         RestartResearch
         \/ \E config \in [enabled : BOOLEAN, interval : Intervals] : UpdateScheduler(config)
  PROVE  CallInv'
  <1>1. \/ lensRuns' = lensRuns
        \/ CancelScheduled
        \/ lensRuns' = [b \in Briefs |-> Idle]
    BY DEF UpdateScheduler, ApplyScheduler, RestartResearch
  <1>2. UNCHANGED calls
    BY DEF UpdateScheduler, RestartResearch
  <1>3. lensRuns' \in [Briefs -> Runs] /\ \A b \in Briefs : lensRuns'[b] \in {lensRuns[b], Idle}
    BY <1>1, IdleIsRun DEF CancelScheduled, CallInv, RunsOK
  <1> QED BY <1>2, <1>3, CancelStep

LEMMA CallStep == CallInv /\ [ResearchNext]_researchVars => CallInv'
  <1> SUFFICES ASSUME CallInv, [ResearchNext]_researchVars
               PROVE  CallInv'
    OBVIOUS
  <1>1. CASE RestartResearch
             \/ \E config \in [enabled : BOOLEAN, interval : Intervals] : UpdateScheduler(config)
    BY <1>1, SettingsStep
  <1>2. ASSUME NEW bs \in SUBSET Briefs, RunByOperator(bs) \/ SchedulerTicks(bs)
        PROVE  CallInv'
    BY <1>2, PassStep DEF RunByOperator, SchedulerTicks
  <1>3. ASSUME NEW b \in Briefs, NEW n \in 1 .. 2, ModelWantsTools(b, n)
        PROVE  CallInv'
    BY <1>3, ToolsStep
  <1>4. ASSUME NEW b \in Briefs, ModelFails(b)
        PROVE  CallInv'
    BY <1>4, FailsStep
  <1>5. ASSUME NEW b \in Briefs, ModelAnswersInVain(b) \/ ModelWritesBrief(b)
        PROVE  CallInv'
    BY <1>5, RunEnds DEF ModelAnswersInVain, ModelWritesBrief
  <1>6. ASSUME UNCHANGED <<lensRuns, calls>>
        PROVE  CallInv'
    BY <1>6 DEF CallInv, RunsOK, Accounted
  <1>7. ASSUME NEW b \in Briefs, NEW works \in BOOLEAN, NEW v,
               DecideBrief(b, v, works) \/ RecordOutcome(b, v, works)
        PROVE  CallInv'
    BY <1>6, <1>7 DEF DecideBrief, RecordOutcome
  <1>8. CASE UNCHANGED researchVars
    BY <1>6, <1>8 DEF researchVars
  <1> QED BY <1>1, <1>2, <1>3, <1>4, <1>5, <1>7, <1>8 DEF ResearchNext

LEMMA CallsAtFirst == ResearchInit => CallInv
  <1>1. Ceiling \in Nat
    BY SoFarBounded, IdleIsRun
  <1> QED BY <1>1, IdleIsRun DEF ResearchInit, CallInv, RunsOK, Accounted

\* orchestrator.py calls the model for one brief at most once per attempt and
\* per tool call of its budget, for every budget and number of retries.
THEOREM CallsStayBounded == ResearchSpec => []CallsBounded
  <1>1. CallInv => CallsBounded
    <2> SUFFICES ASSUME CallInv, NEW b \in Briefs
                 PROVE  calls[b] <= Ceiling
      BY DEF CallsBounded, Ceiling
    <2>1. lensRuns[b] \in Runs /\ calls[b] \in Nat
      BY DEF CallInv, RunsOK
    <2> QED BY <2>1, SoFarBounded DEF CallInv, Accounted
  <1> QED BY <1>1, CallsAtFirst, CallStep, PTL DEF ResearchSpec

-----------------------------------------------------------------------------
\* The live scheduler is the configured one.

LEMMA SchedulerStep ==
  SchedulerAsConfigured /\ [ResearchNext]_researchVars => SchedulerAsConfigured'
  <1> SUFFICES ASSUME SchedulerAsConfigured, [ResearchNext]_researchVars
               PROVE  SchedulerAsConfigured'
    OBVIOUS
  <1>1. ASSUME NEW config \in [enabled : BOOLEAN, interval : Intervals], UpdateScheduler(config)
        PROVE  SchedulerAsConfigured'
    BY <1>1 DEF UpdateScheduler, ApplyScheduler, Started, SchedulerAsConfigured
  <1>2. CASE RestartResearch
    BY <1>2 DEF RestartResearch, Started, SchedulerAsConfigured
  <1>3. ASSUME UNCHANGED schedulerVars
        PROVE  SchedulerAsConfigured'
    BY <1>3 DEF schedulerVars, SchedulerAsConfigured
  <1>4. ASSUME NEW bs \in SUBSET Briefs, RunByOperator(bs) \/ SchedulerTicks(bs)
        PROVE  SchedulerAsConfigured'
    BY <1>3, <1>4 DEF RunByOperator, SchedulerTicks, BeginPass
  <1>5. ASSUME NEW b \in Briefs,
               \/ \E n \in 1 .. 2 : ModelWantsTools(b, n)
               \/ ModelFails(b) \/ ModelAnswersInVain(b) \/ ModelWritesBrief(b)
        PROVE  SchedulerAsConfigured'
    BY <1>3, <1>5 DEF ModelWantsTools, ModelFails, ModelAnswersInVain, ModelWritesBrief
  <1>6. ASSUME NEW b \in Briefs, NEW works \in BOOLEAN, NEW v,
               DecideBrief(b, v, works) \/ RecordOutcome(b, v, works)
        PROVE  SchedulerAsConfigured'
    BY <1>3, <1>6 DEF DecideBrief, RecordOutcome
  <1>7. CASE UNCHANGED researchVars
    BY <1>3, <1>7 DEF researchVars, schedulerVars
  <1> QED BY <1>1, <1>2, <1>4, <1>5, <1>6, <1>7 DEF ResearchNext

\* settings_router.py leaves running what is configured, after any sequence of
\* updates and restarts.
THEOREM SchedulerFollows == ResearchSpec => []SchedulerAsConfigured
  <1>1. ResearchInit => SchedulerAsConfigured
    BY DEF ResearchInit, SchedulerAsConfigured
  <1> QED BY <1>1, SchedulerStep, PTL DEF ResearchSpec

-----------------------------------------------------------------------------
\* Briefs, and what learning has of them.

BriefRecords == [status : {"none", "proposed", "approved", "rejected"}, outcome : {"none", "WIN", "LOSS"}]
BriefsOK ==
  /\ briefs \in [Briefs -> BriefRecords] /\ lessons \in [Briefs -> {"none", "open", "WIN", "LOSS"}]

\* A run that is under way has not written its brief, and learning has rows of approved briefs
\* only, with an outcome only of briefs that have one.
RunsUnwritten == \A b \in Briefs : lensRuns[b] # Idle => briefs[b] = NoBrief
LessonsOfApproved ==
  \A b \in Briefs : /\ lessons[b] # "none" => briefs[b].status = "approved"
                    /\ lessons[b] \in {"WIN", "LOSS"} => briefs[b].outcome # "none"

BriefInv == BriefsOK /\ RunsUnwritten /\ LessonsOfApproved

\* Decided briefs are decided for good.
DecisionsStay ==
  \A b \in Briefs : briefs[b].status \in {"approved", "rejected"} => briefs'[b].status = briefs[b].status

\* Steps that write no brief.
LEMMA UnwrittenKeeps ==
  ASSUME BriefInv, UNCHANGED <<briefs, lessons>>,
         \A b \in Briefs : lensRuns'[b] # Idle => lensRuns[b] # Idle \/ briefs[b] = NoBrief
  PROVE  BriefInv' /\ DecisionsStay
  BY DEF BriefInv, BriefsOK, RunsUnwritten, LessonsOfApproved, DecisionsStay

\* Steps that write one.
Writes(b, brief, lesson) ==
  /\ brief \in BriefRecords /\ lesson \in {"none", "open", "WIN", "LOSS"}
  /\ briefs' = [briefs EXCEPT ![b] = brief] /\ lessons' = [lessons EXCEPT ![b] = lesson]
  /\ briefs[b].status \in {"approved", "rejected"} => brief.status = briefs[b].status
  /\ lesson # "none" => brief.status = "approved"
  /\ lesson \in {"WIN", "LOSS"} => brief.outcome # "none"
  /\ \A c \in Briefs : lensRuns'[c] # Idle => lensRuns[c] # Idle /\ c # b

LEMMA WrittenKeeps ==
  ASSUME BriefInv, NEW b \in Briefs, NEW brief, NEW lesson, Writes(b, brief, lesson)
  PROVE  BriefInv' /\ DecisionsStay
  <1> USE DEF Writes
  <1>1. \A c \in Briefs : /\ c = b => briefs'[c] = brief /\ lessons'[c] = lesson
                          /\ c # b => briefs'[c] = briefs[c] /\ lessons'[c] = lessons[c]
    BY DEF BriefInv, BriefsOK
  <1>2. BriefsOK'
    BY DEF BriefInv, BriefsOK
  <1>3. RunsUnwritten' /\ LessonsOfApproved'
    BY <1>1 DEF BriefInv, RunsUnwritten, LessonsOfApproved
  <1>4. DecisionsStay
    BY <1>1 DEF DecisionsStay
  <1> QED BY <1>2, <1>3, <1>4 DEF BriefInv

LEMMA BriefStepKeeps == CallInv /\ BriefInv /\ [ResearchNext]_researchVars => BriefInv' /\ DecisionsStay
  <1> SUFFICES ASSUME CallInv, BriefInv, [ResearchNext]_researchVars PROVE BriefInv' /\ DecisionsStay
    OBVIOUS
  <1>0. /\ briefs \in [Briefs -> BriefRecords] /\ lessons \in [Briefs -> {"none", "open", "WIN", "LOSS"}]
        /\ lensRuns \in [Briefs -> Runs] /\ DOMAIN lensRuns = Briefs
    BY DEF BriefInv, BriefsOK, CallInv, RunsOK
  <1>7. \A b \in Briefs : briefs[b] \in BriefRecords
    BY <1>0
  <1>1. CASE RestartResearch
             \/ \E config \in [enabled : BOOLEAN, interval : Intervals] : UpdateScheduler(config)
    <2>1. \/ lensRuns' = lensRuns
          \/ CancelScheduled
          \/ lensRuns' = [b \in Briefs |-> Idle]
      BY <1>1 DEF UpdateScheduler, ApplyScheduler, RestartResearch
    <2>2. UNCHANGED <<briefs, lessons>>
      BY <1>1 DEF UpdateScheduler, RestartResearch
    <2>3. \A b \in Briefs : lensRuns'[b] \in {lensRuns[b], Idle}
      BY <2>1 DEF CancelScheduled
    <2> QED BY <2>2, <2>3, UnwrittenKeeps
  <1>2. ASSUME NEW bs \in SUBSET Briefs, RunByOperator(bs) \/ SchedulerTicks(bs)
        PROVE  BriefInv' /\ DecisionsStay
    <2>1. PICK who : BeginPass(bs, who)
      BY <1>2 DEF RunByOperator, SchedulerTicks
    <2>2. UNCHANGED <<briefs, lessons>> /\ \A b \in Briefs : lensRuns'[b] = lensRuns[b] \/ briefs[b] = NoBrief
      BY <2>1 DEF BeginPass, NotStarted
    <2> QED BY <2>2, UnwrittenKeeps
  <1>3. ASSUME NEW b \in Briefs,
               (\E n \in 1 .. 2 : ModelWantsTools(b, n)) \/ ModelFails(b) \/ ModelAnswersInVain(b)
        PROVE  BriefInv' /\ DecisionsStay
    <2>1. lensRuns[b] # Idle /\ UNCHANGED <<briefs, lessons>>
      BY <1>3 DEF ModelWantsTools, ModelFails, ModelAnswersInVain
    <2>2. \A c \in Briefs : c # b => lensRuns'[c] = lensRuns[c]
      BY <1>0, <1>3 DEF ModelWantsTools, ModelFails, ModelAnswersInVain, AskAgain, LensRunEnds
    <2> QED BY <2>1, <2>2, UnwrittenKeeps
  <1>4. ASSUME NEW b \in Briefs, ModelWritesBrief(b) PROVE BriefInv' /\ DecisionsStay
    <2> DEFINE brief == [briefs[b] EXCEPT !.status = "proposed"]
    <2>1. lensRuns[b] # Idle /\ briefs[b] = NoBrief /\ lessons[b] = "none"
      BY <1>0, <1>4 DEF ModelWritesBrief, BriefInv, RunsUnwritten, LessonsOfApproved, NoBrief
    <2>2. briefs' = [briefs EXCEPT ![b] = brief] /\ lessons' = [lessons EXCEPT ![b] = "none"]
      BY <1>0, <1>4, <2>1 DEF ModelWritesBrief
    <2>3. brief \in BriefRecords /\ briefs[b].status = "none"
      BY <2>1 DEF NoBrief, BriefRecords
    <2>4. \A c \in Briefs : lensRuns'[c] # Idle => lensRuns[c] # Idle /\ c # b
      BY <1>0, <1>4 DEF ModelWritesBrief, LensRunEnds
    <2> HIDE DEF brief
    <2>5. Writes(b, brief, "none")
      BY <2>2, <2>3, <2>4 DEF Writes
    <2> QED BY <2>5, WrittenKeeps
  <1>5. ASSUME NEW b \in Briefs, NEW works \in BOOLEAN, NEW d \in {"approved", "rejected"},
               DecideBrief(b, d, works)
        PROVE  BriefInv' /\ DecisionsStay
    <2> DEFINE brief == [briefs[b] EXCEPT !.status = d]
    <2>1. briefs[b].status = "proposed" /\ lensRuns' = lensRuns /\ lensRuns[b] = Idle /\ lessons[b] = "none"
      BY <1>0, <1>5 DEF DecideBrief, StoreDecision, BriefInv, RunsUnwritten, LessonsOfApproved, NoBrief
    <2>2. brief \in BriefRecords /\ brief.status = d
      BY <1>7 DEF BriefRecords
    <2>3. briefs' = [briefs EXCEPT ![b] = brief]
      BY <1>5 DEF DecideBrief, StoreDecision
    <2>4. PICK lesson \in {"none", "open"} : /\ lessons' = [lessons EXCEPT ![b] = lesson]
                                             /\ lesson # "none" => d = "approved"
      <3>1. CASE works /\ d = "approved"
        BY <1>5, <2>1, <3>1 DEF DecideBrief, LessonOpened
      <3>2. CASE ~(works /\ d = "approved")
        BY <1>0, <1>5, <2>1, <3>2 DEF DecideBrief
      <3> QED BY <3>1, <3>2
    <2> HIDE DEF brief
    <2>5. Writes(b, brief, lesson)
      BY <2>1, <2>2, <2>3, <2>4 DEF Writes
    <2> QED BY <2>5, WrittenKeeps
  <1>6. ASSUME NEW b \in Briefs, NEW works \in BOOLEAN, NEW o \in {"WIN", "LOSS"}, RecordOutcome(b, o, works)
        PROVE  BriefInv' /\ DecisionsStay
    <2> DEFINE brief == [briefs[b] EXCEPT !.outcome = o]
    <2>1. briefs[b].status \in {"approved", "rejected"} /\ lensRuns' = lensRuns /\ lensRuns[b] = Idle
      BY <1>0, <1>6 DEF RecordOutcome, StoreOutcome, BriefInv, RunsUnwritten, NoBrief
    <2>2. brief \in BriefRecords /\ brief.status = briefs[b].status /\ brief.outcome = o
      BY <1>7 DEF BriefRecords
    <2>3. briefs' = [briefs EXCEPT ![b] = brief]
      BY <1>6 DEF RecordOutcome, StoreOutcome
    <2>4. PICK lesson \in {lessons[b], o} : /\ lessons' = [lessons EXCEPT ![b] = lesson]
                                            /\ lesson # "none" => lessons[b] # "none"
      <3>1. CASE works /\ lessons[b] = "open"
        BY <1>6, <3>1 DEF RecordOutcome, LessonClosed
      <3>2. CASE ~(works /\ lessons[b] = "open")
        BY <1>0, <1>6, <3>2 DEF RecordOutcome, LessonClosed
      <3> QED BY <3>1, <3>2
    <2>5. lessons[b] # "none" => briefs[b].status = "approved"
      BY DEF BriefInv, LessonsOfApproved
    <2>6. lesson \in {"none", "open", "WIN", "LOSS"}
      BY <1>0, <2>4
    <2> HIDE DEF brief
    <2>7. lesson \in {"WIN", "LOSS"} => brief.outcome # "none"
      BY <2>2
    <2>8. lesson # "none" => brief.status = "approved"
      BY <2>2, <2>4, <2>5
    <2>9. \A c \in Briefs : lensRuns'[c] # Idle => lensRuns[c] # Idle /\ c # b
      BY <2>1
    <2>10. Writes(b, brief, lesson)
      BY <2>1, <2>2, <2>3, <2>4, <2>6, <2>7, <2>8, <2>9 DEF Writes
    <2> QED BY <2>10, WrittenKeeps
  <1>8. CASE UNCHANGED researchVars
    BY <1>8, UnwrittenKeeps DEF researchVars
  <1> QED BY <1>1, <1>2, <1>3, <1>4, <1>5, <1>6, <1>8 DEF ResearchNext

LEMMA BriefsAtFirst == ResearchInit => BriefInv
  BY DEF ResearchInit, BriefInv, BriefsOK, BriefRecords, NoBrief, RunsUnwritten, LessonsOfApproved

\* A brief is decided once (research/store.py): no later decision, outcome, run of a lens,
\* cancelled pass or restart changes the decision.
THEOREM DecisionsStand == ResearchSpec => [][DecisionsStay]_researchVars
  <1>1. ResearchInit => CallInv /\ BriefInv
    BY CallsAtFirst, BriefsAtFirst
  <1>2. CallInv /\ BriefInv /\ [ResearchNext]_researchVars => (CallInv /\ BriefInv)' /\ DecisionsStay
    BY CallStep, BriefStepKeeps
  <1> QED BY <1>1, <1>2, PTL DEF ResearchSpec

\* Learning's rows are of approved briefs (outcome_tracker.py), and their outcomes were recorded by
\* the operator, whatever of the two stores fails in between.
THEOREM LessonsAreOfApproved == ResearchSpec => []LessonsOfApproved
  <1>1. CallInv /\ BriefInv /\ [ResearchNext]_researchVars => (CallInv /\ BriefInv)'
    BY CallStep, BriefStepKeeps
  <1>2. BriefInv => LessonsOfApproved
    BY DEF BriefInv
  <1> QED BY <1>1, <1>2, CallsAtFirst, BriefsAtFirst, PTL DEF ResearchSpec

-----------------------------------------------------------------------------
\* The types of the scheduler.
ProcessFlags == apiKey \in BOOLEAN /\ wired \in BOOLEAN
SchedulerOK ==
  /\ wanted \in [enabled : BOOLEAN, interval : Intervals]
  /\ scheduler \in Intervals \cup {"none"} /\ boots \in 1 .. MaxBoots

LEMMA ProcessFlagsStep == ProcessFlags /\ [ResearchNext]_researchVars => ProcessFlags'
  BY DEF ProcessFlags, ResearchNext, UpdateScheduler, ApplyScheduler, RestartResearch, RunByOperator,
         SchedulerTicks, BeginPass, ModelWantsTools, ModelFails, ModelAnswersInVain, ModelWritesBrief,
         DecideBrief, RecordOutcome, schedulerVars, researchVars

LEMMA SchedulerTypesStep == SchedulerOK /\ [ResearchNext]_researchVars => SchedulerOK'
  <1> SUFFICES ASSUME SchedulerOK, [ResearchNext]_researchVars PROVE SchedulerOK'
    OBVIOUS
  <1> USE DEF SchedulerOK
  <1>1. ASSUME NEW config \in [enabled : BOOLEAN, interval : Intervals], UpdateScheduler(config)
        PROVE  SchedulerOK'
    BY <1>1 DEF UpdateScheduler, ApplyScheduler, Started
  <1>2. CASE RestartResearch
    <2>1. wanted' \in [enabled : BOOLEAN, interval : Intervals] /\ boots' \in 1 .. MaxBoots
      BY <1>2, ResearchAssumption DEF RestartResearch
    <2> QED BY <1>2, <2>1 DEF RestartResearch, Started
  <1>3. CASE UNCHANGED schedulerVars
    BY <1>3 DEF schedulerVars
  <1>4. CASE \/ \E bs \in SUBSET Briefs : RunByOperator(bs) \/ SchedulerTicks(bs)
             \/ UNCHANGED researchVars
    BY <1>3, <1>4 DEF RunByOperator, SchedulerTicks, BeginPass, researchVars, schedulerVars
  <1>5. ASSUME NEW b \in Briefs,
               \/ \E n \in 1 .. 2 : ModelWantsTools(b, n)
               \/ ModelFails(b) \/ ModelAnswersInVain(b) \/ ModelWritesBrief(b)
        PROVE  SchedulerOK'
    BY <1>3, <1>5 DEF ModelWantsTools, ModelFails, ModelAnswersInVain, ModelWritesBrief
  <1>6. ASSUME NEW b \in Briefs, NEW works \in BOOLEAN, NEW v,
               DecideBrief(b, v, works) \/ RecordOutcome(b, v, works)
        PROVE  SchedulerOK'
    BY <1>3, <1>6 DEF DecideBrief, RecordOutcome
  <1> QED BY <1>1, <1>2, <1>4, <1>5, <1>6 DEF ResearchNext

\* The fields of research passes, briefs and the scheduler have their types: no run has more attempts
\* or tool calls than it is allowed (orchestrator.py), and nothing is stored or decided for a run under way.
THEOREM ResearchWellFormed == ResearchSpec => [](ResearchTypeOK /\ RunsUnwritten)
  <1> DEFINE Inv == CallInv /\ BriefInv /\ ProcessFlags /\ SchedulerOK
  <1>1. ResearchInit => Inv
    <2>1. ResearchInit => ProcessFlags
      BY DEF ResearchInit, ProcessFlags
    <2>2. ResearchInit => SchedulerOK
      BY ResearchAssumption DEF ResearchInit, SchedulerOK
    <2> QED BY <2>1, <2>2, CallsAtFirst, BriefsAtFirst
  <1>2. Inv /\ [ResearchNext]_researchVars => Inv'
    BY CallStep, BriefStepKeeps, ProcessFlagsStep, SchedulerTypesStep
  <1>3. Inv => ResearchTypeOK /\ RunsUnwritten
    <2> SUFFICES ASSUME Inv PROVE ResearchTypeOK
      BY DEF BriefInv
    <2>1. {apiKey, wired} \subseteq BOOLEAN
      BY DEF ProcessFlags
    <2> QED BY <2>1 DEF CallInv, RunsOK, Runs, BriefInv, BriefsOK, BriefRecords, SchedulerOK, ResearchTypeOK
  <1> QED BY <1>1, <1>2, <1>3, PTL DEF ResearchSpec

-----------------------------------------------------------------------------
\* The knowledge base.

\* What is on disk is a document of the connection too, and what is promised is
\* on disk, activated where it was said to be.
OnDisk ==
  /\ DOMAIN saved \subseteq DOMAIN docs
  /\ \A d \in DOMAIN saved : saved[d] = "activated" => docs[d] = "activated"
  /\ promised.activated \subseteq DOMAIN saved /\ promised.synced \subseteq DOMAIN saved
  /\ \A d \in promised.activated : saved[d] = "activated"
  /\ promised \in [activated : SUBSET (Briefs \cup Notes), synced : SUBSET Briefs]

\* Documents are only added, and a document is only ever promoted.
Grows(old, new) ==
  /\ DOMAIN old \subseteq DOMAIN new
  /\ \A d \in DOMAIN old : old[d] = "activated" => new[d] = "activated"

\* Ingesting adds documents.
LEMMA IngestGrows ==
  ASSUME NEW ds
  PROVE  Grows(docs, Ingest(ds)) /\ DOMAIN Ingest(ds) = DOMAIN docs \cup ds
         /\ \A d \in DOMAIN docs : Ingest(ds)[d] = docs[d]
  BY DEF Grows, Ingest

\* A write that adds to the documents keeps what is on disk.
LEMMA WriteKeeps ==
  ASSUME OnDisk, NEW new, Grows(docs, new), NEW commits \in BOOLEAN, Write(new, commits),
         promised' = promised
  PROVE  OnDisk'
  BY DEF OnDisk, Grows, Write

\* Every step keeps this, crashes and failed commits included.
LEMMA DiskStep == OnDisk /\ [KnowledgeNext]_knowledgeVars => OnDisk'
  <1> SUFFICES ASSUME OnDisk, [KnowledgeNext]_knowledgeVars PROVE OnDisk'
    OBVIOUS
  <1>1. CASE BriefStep \/ UNCHANGED knowledgeVars
    BY <1>1 DEF OnDisk, BriefStep, knowledgeVars, docVars
  <1>2. ASSUME NEW recorded \in BOOLEAN, SyncCompletes(recorded) PROVE OnDisk'
    <2> DEFINE new == Ingest(Decided)
               commits == recorded \/ ~(Decided \subseteq DOMAIN docs)
    <2>1. Write(new, commits) /\ Grows(docs, new) /\ Decided \subseteq DOMAIN new /\ commits \in BOOLEAN
      BY <1>2, IngestGrows DEF SyncCompletes
    <2>2. promised' = IF recorded THEN [promised EXCEPT !.synced = @ \cup Decided] ELSE promised
      BY <1>2 DEF SyncCompletes
    <2>3. Decided \subseteq Briefs
      BY DEF Decided
    <2> HIDE DEF new
    <2>4. CASE recorded
      BY <2>1, <2>2, <2>3, <2>4 DEF OnDisk, Grows, Write
    <2>5. CASE ~recorded
      BY <2>1, <2>2, <2>5, WriteKeeps
    <2> QED BY <2>4, <2>5
  <1>3. ASSUME NEW recorded \in BOOLEAN, NEW ds \in SUBSET Decided, SyncFails(ds, recorded) PROVE OnDisk'
    <2>1. promised' = promised
      BY <1>3 DEF SyncFails
    <2>2. CASE Write(Ingest(ds), recorded)
      BY <2>1, <2>2, IngestGrows, WriteKeeps
    <2>3. ASSUME NEW b \in ds \ DOMAIN docs, docs' = Ingest(ds), saved' = Ingest(ds \ {b})
          PROVE  OnDisk'
      <3>1. /\ Grows(docs, Ingest(ds)) /\ Grows(docs, Ingest(ds \ {b}))
            /\ DOMAIN Ingest(ds) = DOMAIN docs \cup ds /\ DOMAIN Ingest(ds \ {b}) = DOMAIN docs \cup (ds \ {b})
        BY IngestGrows
      <3>2. \A d \in DOMAIN docs : Ingest(ds)[d] = docs[d] /\ Ingest(ds \ {b})[d] = docs[d]
        BY IngestGrows
      <3>3. \A d \in DOMAIN Ingest(ds \ {b}) : Ingest(ds \ {b})[d] = Ingest(ds)[d]
        BY DEF Ingest
      <3> QED BY <2>1, <2>3, <3>1, <3>2, <3>3 DEF OnDisk, Grows
    <2> QED BY <1>3, <2>2, <2>3 DEF SyncFails
  <1>4. ASSUME NEW n \in Notes, NEW commits \in BOOLEAN, CreateNote(n, commits) PROVE OnDisk'
    BY <1>4, IngestGrows, WriteKeeps DEF CreateNote
  <1>5. ASSUME NEW d \in Briefs \cup Notes, NEW commits \in BOOLEAN, Activate(d, commits) PROVE OnDisk'
    <2> DEFINE new == [docs EXCEPT ![d] = "activated"]
    <2>1. Grows(docs, new) /\ Write(new, commits) /\ d \in DOMAIN docs /\ new[d] = "activated"
      BY <1>5 DEF Grows, Activate
    <2>2. promised' = IF commits THEN [promised EXCEPT !.activated = @ \cup {d}] ELSE promised
      BY <1>5 DEF Activate
    <2> HIDE DEF new
    <2>3. CASE commits
      BY <2>1, <2>2, <2>3 DEF OnDisk, Grows, Write
    <2>4. CASE ~commits
      BY <2>1, <2>2, <2>4, WriteKeeps
    <2> QED BY <2>3, <2>4
  <1>6. CASE RestartKnowledge
    BY <1>6 DEF RestartKnowledge, OnDisk
  <1> QED BY <1>1, <1>2, <1>3, <1>4, <1>5, <1>6 DEF KnowledgeNext

\* What a request of the knowledge base said with its commit to be done stays done, whatever
\* syncs, failures and restarts follow (store.py).
THEOREM PromisesAreKept == KnowledgeSpec => []PromisesKept
  <1>1. KnowledgeInit => OnDisk
    BY DEF KnowledgeInit, OnDisk
  <1>2. OnDisk => PromisesKept
    BY DEF OnDisk, PromisesKept, KnowledgeSummary
  <1> QED BY <1>1, <1>2, DiskStep, PTL DEF KnowledgeSpec

-----------------------------------------------------------------------------
\* What the knowledge base has documents of.

\* The documents after a write.
DocsOf(new) == DOMAIN new \subseteq Decided \cup Notes /\ \A d \in DOMAIN new : new[d] \in {"proposed", "activated"}

LEMMA IngestedDocs ==
  ASSUME KnowledgeTypeOK, NEW ds, ds \subseteq Decided \cup Notes
  PROVE  DocsOf(Ingest(ds)) /\ Grows(docs, Ingest(ds))
  BY IngestGrows DEF KnowledgeTypeOK, DocsOf, Ingest

LEMMA WrittenDocs ==
  ASSUME KnowledgeTypeOK, NEW new, DocsOf(new), Grows(docs, new), NEW commits \in BOOLEAN, Write(new, commits),
         UNCHANGED briefs, lastSync' \in {"none", "success", "partial", "failed"}, restarts' = restarts
  PROVE  KnowledgeTypeOK'
  <1>1. Decided' = Decided
    BY DEF Decided
  <1>2. CASE commits
    BY <1>1, <1>2 DEF KnowledgeTypeOK, DocsOf, Write
  <1>3. CASE ~commits
    BY <1>1, <1>3 DEF KnowledgeTypeOK, DocsOf, Write, Grows
  <1> QED BY <1>2, <1>3

LEMMA DocsStep == CallInv /\ BriefInv /\ KnowledgeTypeOK /\ [KnowledgeNext]_knowledgeVars => CallInv' /\ BriefInv' /\ KnowledgeTypeOK'
  <1> SUFFICES ASSUME CallInv, BriefInv, KnowledgeTypeOK, [KnowledgeNext]_knowledgeVars
               PROVE  CallInv' /\ BriefInv' /\ KnowledgeTypeOK'
    OBVIOUS
  <1>0. ASSUME UNCHANGED researchVars PROVE CallInv' /\ BriefInv'
    BY <1>0, CallStep, BriefStepKeeps
  <1>1. CASE BriefStep
    <2>1. ResearchNext
      BY <1>1 DEF BriefStep, ResearchNext
    <2>2. CallInv' /\ BriefInv' /\ DecisionsStay
      BY <2>1, CallStep, BriefStepKeeps
    <2>3. Decided \subseteq Decided'
      BY <2>2 DEF Decided, DecisionsStay
    <2>4. UNCHANGED docVars
      BY <1>1 DEF BriefStep
    <2> QED BY <2>2, <2>3, <2>4 DEF docVars, KnowledgeTypeOK
  <1>2. ASSUME NEW recorded \in BOOLEAN, SyncCompletes(recorded) PROVE CallInv' /\ BriefInv' /\ KnowledgeTypeOK'
    <2> DEFINE new == Ingest(Decided)
               commits == recorded \/ ~(Decided \subseteq DOMAIN docs)
    <2>1. /\ Write(new, commits) /\ UNCHANGED <<researchVars, restarts>> /\ commits \in BOOLEAN
          /\ lastSync' \in {"none", "success", "partial", "failed"}
      BY <1>2 DEF SyncCompletes, KnowledgeTypeOK
    <2>2. DocsOf(new) /\ Grows(docs, new)
      BY IngestedDocs
    <2>3. UNCHANGED <<researchVars, briefs>>
      BY <2>1 DEF researchVars
    <2> HIDE DEF new, commits
    <2> QED BY <1>0, <2>1, <2>2, <2>3, WrittenDocs
  <1>3. ASSUME NEW recorded \in BOOLEAN, NEW ds \in SUBSET Decided, SyncFails(ds, recorded)
        PROVE  CallInv' /\ BriefInv' /\ KnowledgeTypeOK'
    <2>1. UNCHANGED <<researchVars, briefs, restarts>> /\ lastSync' \in {"none", "success", "partial", "failed"}
      BY <1>3 DEF SyncFails, KnowledgeTypeOK, researchVars
    <2>2. DocsOf(Ingest(ds)) /\ Grows(docs, Ingest(ds))
      BY IngestedDocs
    <2>3. CASE Write(Ingest(ds), recorded)
      BY <1>0, <2>1, <2>2, <2>3, WrittenDocs
    <2>4. ASSUME NEW b \in ds \ DOMAIN docs, docs' = Ingest(ds), saved' = Ingest(ds \ {b}) PROVE KnowledgeTypeOK'
      <3>1. DOMAIN Ingest(ds \ {b}) \subseteq DOMAIN Ingest(ds)
            /\ \A d \in DOMAIN Ingest(ds \ {b}) : Ingest(ds \ {b})[d] = Ingest(ds)[d]
        BY DEF Ingest
      <3>2. Decided' = Decided
        BY <2>1 DEF Decided
      <3> QED BY <2>1, <2>2, <2>4, <3>1, <3>2 DEF KnowledgeTypeOK, DocsOf
    <2> QED BY <1>0, <1>3, <2>1, <2>3, <2>4 DEF SyncFails
  <1>4. ASSUME NEW n \in Notes, NEW commits \in BOOLEAN, CreateNote(n, commits) PROVE CallInv' /\ BriefInv' /\ KnowledgeTypeOK'
    <2>1. UNCHANGED <<researchVars, briefs, restarts, lastSync>> /\ Write(Ingest({n}), commits)
      BY <1>4 DEF CreateNote, researchVars
    <2>2. DocsOf(Ingest({n})) /\ Grows(docs, Ingest({n}))
      BY IngestedDocs
    <2>3. lastSync' \in {"none", "success", "partial", "failed"}
      BY <2>1 DEF KnowledgeTypeOK
    <2> QED BY <1>0, <2>1, <2>2, <2>3, WrittenDocs
  <1>5. ASSUME NEW d \in Briefs \cup Notes, NEW commits \in BOOLEAN, Activate(d, commits)
        PROVE  CallInv' /\ BriefInv' /\ KnowledgeTypeOK'
    <2> DEFINE new == [docs EXCEPT ![d] = "activated"]
    <2>1. Grows(docs, new) /\ DocsOf(new)
      BY <1>5 DEF Grows, Activate, KnowledgeTypeOK, DocsOf
    <2>2. UNCHANGED <<researchVars, briefs, restarts, lastSync>> /\ Write(new, commits)
      BY <1>5 DEF Activate, researchVars
    <2>3. lastSync' \in {"none", "success", "partial", "failed"}
      BY <2>2 DEF KnowledgeTypeOK
    <2> HIDE DEF new
    <2> QED BY <1>0, <2>1, <2>2, <2>3, WrittenDocs
  <1>6. CASE RestartKnowledge
    <2>1. UNCHANGED <<calls, briefs, lessons>> /\ lensRuns' = [b \in Briefs |-> Idle]
      BY <1>6 DEF RestartKnowledge
    <2>2. lensRuns' \in [Briefs -> Runs] /\ \A b \in Briefs : lensRuns'[b] = Idle
      BY <2>1, IdleIsRun
    <2>3. CallInv' /\ BriefInv'
      BY <2>1, <2>2, CancelStep, UnwrittenKeeps
    <2>4. Decided' = Decided
      BY <2>1 DEF Decided
    <2>5. restarts' \in 0 .. MaxKnowledgeBoots
      BY <1>6, KnowledgeAssumption DEF RestartKnowledge, KnowledgeTypeOK
    <2> QED BY <1>6, <2>3, <2>4, <2>5 DEF RestartKnowledge, KnowledgeTypeOK
  <1>7. CASE UNCHANGED knowledgeVars
    <2>1. UNCHANGED <<researchVars, briefs, docVars>>
      BY <1>7 DEF knowledgeVars, researchVars
    <2> QED BY <1>0, <2>1 DEF docVars, KnowledgeTypeOK, Decided
  <1> QED BY <1>1, <1>2, <1>3, <1>4, <1>5, <1>6, <1>7 DEF KnowledgeNext

\* Only briefs that the operator decided on, and notes, become documents (store.py), and what is on
\* disk is never ahead of what the one connection sees.
THEOREM DocumentsWereDecided == KnowledgeSpec => []KnowledgeTypeOK
  <1>1. KnowledgeInit => CallInv /\ BriefInv /\ KnowledgeTypeOK
    <2>1. KnowledgeInit => KnowledgeTypeOK
      BY KnowledgeAssumption DEF KnowledgeInit, KnowledgeTypeOK
    <2> QED BY <2>1, CallsAtFirst, BriefsAtFirst DEF KnowledgeInit
  <1> QED BY <1>1, DocsStep, PTL DEF KnowledgeSpec

-----------------------------------------------------------------------------
\* The risk desk.

RestingOrders == {i \in DOMAIN orders : Resting(i)}

\* The types that the steps need.
CapTypes ==
  /\ held = [s \in Instruments |-> held[s]]
  /\ orders \in Seq([offer : Offers, status : {"resting", "filled"}])
  /\ limits \in Settings /\ blind \in Nat /\ topCap \in Nat
  /\ limits.maxPositions <= topCap

\* A resting order is a position that may still be opened.
CapWithResting == Cardinality(OpenIn(held)) + Cardinality(RestingOrders) <= topCap + blind

CapInv == CapTypes /\ CapWithResting

\* Both are finitely many.
LEMMA CapCounts ==
  ASSUME CapTypes
  PROVE  /\ IsFiniteSet(OpenIn(held)) /\ Cardinality(OpenIn(held)) \in Nat
         /\ IsFiniteSet(RestingOrders) /\ Cardinality(RestingOrders) \in Nat
  <1>1. IsFiniteSet(OpenIn(held))
    BY RiskAssumption, FS_Subset DEF OpenIn
  <1>2. IsFiniteSet(RestingOrders)
    <2>1. DOMAIN orders = 1 .. Len(orders) /\ Len(orders) \in Nat
      BY DEF CapTypes
    <2>2. IsFiniteSet(1 .. Len(orders))
      BY <2>1, FS_Interval
    <2> QED BY <2>1, <2>2, FS_Subset DEF RestingOrders
  <1> QED BY <1>1, <1>2, FS_CardinalityType

\* Filling an order opens at most the position of its symbol.
LEMMA FillOpens ==
  ASSUME CapTypes, NEW o, NEW at, Fill(o, at)
  PROVE  /\ held' = [s \in Instruments |-> held'[s]]
         /\ OpenIn(held') \subseteq OpenIn(held) \cup {o.symbol}
         /\ Cardinality(OpenIn(held')) \in Nat
         /\ Cardinality(OpenIn(held')) <= Cardinality(OpenIn(held)) + 1
  <1>1. held' = [held EXCEPT ![o.symbol] = PositionWith(@, o, at)]
    BY DEF Fill
  <1>2. held' = [s \in Instruments |-> held'[s]]
    <2> HIDE DEF PositionWith
    <2> QED BY <1>1 DEF CapTypes
  <1>3. OpenIn(held') \subseteq OpenIn(held) \cup {o.symbol}
    BY <1>1 DEF CapTypes, OpenIn
  <1>4. /\ IsFiniteSet(OpenIn(held) \cup {o.symbol})
        /\ Cardinality(OpenIn(held) \cup {o.symbol}) <= Cardinality(OpenIn(held)) + 1
        /\ Cardinality(OpenIn(held) \cup {o.symbol}) \in Nat
    <2>1. IsFiniteSet(OpenIn(held)) /\ Cardinality(OpenIn(held)) \in Nat
      BY CapCounts
    <2> HIDE DEF OpenIn
    <2>2. IsFiniteSet(OpenIn(held) \cup {o.symbol})
      BY <2>1, FS_AddElement
    <2>3. Cardinality(OpenIn(held) \cup {o.symbol}) <= Cardinality(OpenIn(held)) + 1
      BY <2>1, FS_AddElement
    <2> QED BY <2>2, <2>3, FS_CardinalityType
  <1>5. Cardinality(OpenIn(held')) <= Cardinality(OpenIn(held) \cup {o.symbol}) /\ IsFiniteSet(OpenIn(held'))
    BY <1>3, <1>4, FS_Subset
  <1> QED BY <1>2, <1>3, <1>4, <1>5, CapCounts, FS_CardinalityType

\* Nothing is open or resting at first.
LEMMA CapStart == RiskInit => CapInv
  <1> SUFFICES ASSUME RiskInit PROVE CapInv
    OBVIOUS
  <1>1. CapTypes
    BY DeskRiskAssumption DEF RiskInit, CapTypes
  <1>2. OpenIn(held) = {} /\ RestingOrders = {} /\ blind = 0
    BY DEF RiskInit, OpenIn, RestingOrders
  <1>3. Cardinality(OpenIn(held)) = 0 /\ Cardinality(RestingOrders) = 0
    BY <1>2, FS_EmptySet
  <1> QED BY <1>1, <1>2, <1>3 DEF CapInv, CapTypes, CapWithResting

\* Without a lag the check counts every open position, and no order rests.
LEMMA SeenByCheck ==
  ASSUME CapInv, ~Lagging, MaxPositionFilter(PortfolioProvider, limits)
  PROVE  Cardinality(OpenIn(held)) + 1 <= topCap /\ RestingOrders = {}
  <1>1. RestingOrders = {} /\ \A s \in Instruments : Row(s).net = held[s].net
    BY DEF Lagging, RestingOrders
  <1>2. OpenIn(PortfolioProvider.positions) = OpenIn(held)
    <2>1. PortfolioProvider.positions = [s \in Instruments |-> Row(s)]
      BY DEF PortfolioProvider
    <2> QED BY <1>1, <2>1 DEF OpenIn
  <1>3. Cardinality(OpenIn(held)) < limits.maxPositions
    BY <1>2 DEF MaxPositionFilter
  <1> QED BY <1>1, <1>3, CapCounts, DeskRiskAssumption DEF CapInv, CapTypes

\* An approval opens one position, and is blind or sees all that is open.
LEMMA ApproveKeeps ==
  ASSUME CapInv, NEW o \in Offers, Approve(o)
  PROVE  CapInv'
  <1>1. /\ MaxPositionFilter(PortfolioProvider, limits)
        /\ blind' = IF Lagging THEN blind + 1 ELSE blind
        /\ UNCHANGED <<limits, topCap>>
    BY DEF Approve, CheckEntry
  <1>2. CapTypes /\ Cardinality(OpenIn(held)) \in Nat /\ Cardinality(RestingOrders) \in Nat
        /\ IsFiniteSet(RestingOrders)
    BY CapCounts DEF CapInv
  <1>3. Cardinality(OpenIn(held)) + Cardinality(RestingOrders) + 1 <= topCap + blind'
    <2>1. CASE Lagging
      BY <1>1, <1>2, <2>1 DEF CapInv, CapWithResting, CapTypes
    <2>2. CASE ~Lagging
      <3>1. Cardinality(OpenIn(held)) + 1 <= topCap /\ Cardinality(RestingOrders) = 0
        BY <1>1, <2>2, SeenByCheck, FS_EmptySet
      <3> QED BY <1>1, <1>2, <2>2, <3>1 DEF CapTypes
    <2> QED BY <2>1, <2>2
  <1>4. PICK what \in {"filled", "resting"} :
          /\ orders' = Append(orders, [offer |-> o, status |-> what])
          /\ what = "filled" => Fill(o, price[o.symbol])
          /\ what = "resting" => held' = held
    BY DEF Approve
  <1>5. /\ orders' \in Seq([offer : Offers, status : {"resting", "filled"}])
        /\ Len(orders) \in Nat /\ DOMAIN orders = 1 .. Len(orders)
        /\ DOMAIN orders' = 1 .. Len(orders) + 1
        /\ \A i \in DOMAIN orders : orders'[i] = orders[i]
        /\ orders'[Len(orders) + 1].status = what
    BY <1>2, <1>4 DEF CapTypes
  <1>6. blind' \in Nat
    BY <1>1, <1>2 DEF CapTypes
  <1>7. CASE what = "filled"
    <2>1. RestingOrders' = RestingOrders
      BY <1>5, <1>7 DEF RestingOrders, Resting
    <2>2. /\ held' = [s \in Instruments |-> held'[s]] /\ Cardinality(OpenIn(held')) \in Nat
          /\ Cardinality(OpenIn(held')) <= Cardinality(OpenIn(held)) + 1
      BY <1>2, <1>4, <1>7, FillOpens
    <2>3. CapTypes'
      BY <1>1, <1>2, <1>5, <1>6, <2>2 DEF CapTypes
    <2> QED BY <1>1, <1>2, <1>3, <1>6, <2>1, <2>2, <2>3 DEF CapInv, CapWithResting, CapTypes
  <1>8. CASE what = "resting"
    <2>1. RestingOrders' = RestingOrders \cup {Len(orders) + 1} /\ Len(orders) + 1 \notin RestingOrders
      BY <1>5, <1>8 DEF RestingOrders, Resting
    <2>2. Cardinality(RestingOrders') = Cardinality(RestingOrders) + 1
      BY <1>2, <2>1, FS_AddElement
    <2>3. CapTypes'
      BY <1>1, <1>2, <1>4, <1>5, <1>6, <1>8 DEF CapTypes
    <2>4. OpenIn(held') = OpenIn(held)
      BY <1>4, <1>8
    <2> QED BY <1>1, <1>2, <1>3, <1>6, <2>2, <2>3, <2>4 DEF CapInv, CapWithResting, CapTypes
  <1> QED BY <1>7, <1>8

\* Every step keeps the invariant.
LEMMA CapStep == CapInv /\ [RiskNext]_riskVars => CapInv'
  <1> SUFFICES ASSUME CapInv, [RiskNext]_riskVars PROVE CapInv'
    OBVIOUS
  <1>0. CapTypes /\ Cardinality(OpenIn(held)) \in Nat /\ Cardinality(RestingOrders) \in Nat
        /\ IsFiniteSet(RestingOrders) /\ IsFiniteSet(OpenIn(held))
    BY CapCounts DEF CapInv
  <1>1. ASSUME UNCHANGED <<held, orders, blind, limits, topCap>> PROVE CapInv'
    BY <1>1 DEF CapInv, CapTypes, CapWithResting, RestingOrders, Resting
  <1>2. ASSUME NEW s \in Instruments, NEW p \in Levels, PriceMoves(s, p) PROVE CapInv'
    <2>1. UNCHANGED <<blind, limits, topCap>>
      BY <1>2 DEF PriceMoves, historyVars
    <2>2. CASE UNCHANGED <<held, orders>>
      BY <1>1, <2>1, <2>2
    <2>3. CASE \E i \in DOMAIN orders : /\ Crosses(i, s, p)
                                         /\ Fill(orders[i].offer, orders[i].offer.entry)
                                         /\ orders' = [orders EXCEPT ![i].status = "filled"]
      <3>1. PICK i \in DOMAIN orders : /\ Resting(i)
                                       /\ Fill(orders[i].offer, orders[i].offer.entry)
                                       /\ orders' = [orders EXCEPT ![i].status = "filled"]
        BY <2>3 DEF Crosses
      <3>2. /\ orders' \in Seq([offer : Offers, status : {"resting", "filled"}])
            /\ DOMAIN orders' = DOMAIN orders /\ orders'[i].status = "filled"
            /\ \A j \in DOMAIN orders \ {i} : orders'[j] = orders[j]
        <4>1. orders[i] \in [offer : Offers, status : {"resting", "filled"}]
          <5>1. i \in 1 .. Len(orders)
            BY <1>0, <3>1 DEF CapTypes
          <5> QED BY <1>0, <5>1, ElementOfSeq DEF CapTypes
        <4>2. [orders[i] EXCEPT !.status = "filled"] \in [offer : Offers, status : {"resting", "filled"}]
          BY <4>1
        <4> QED BY <1>0, <3>1, <4>1, <4>2 DEF CapTypes
      <3>3. RestingOrders' = RestingOrders \ {i} /\ i \in RestingOrders
        BY <3>1, <3>2 DEF RestingOrders, Resting
      <3>4. Cardinality(RestingOrders') = Cardinality(RestingOrders) - 1
        BY <1>0, <3>3, FS_RemoveElement
      <3>5. /\ held' = [t \in Instruments |-> held'[t]] /\ Cardinality(OpenIn(held')) \in Nat
            /\ Cardinality(OpenIn(held')) <= Cardinality(OpenIn(held)) + 1
        BY <1>0, <3>1, FillOpens
      <3>6. CapTypes'
        BY <1>0, <2>1, <3>2, <3>5 DEF CapTypes
      <3> QED BY <1>0, <2>1, <3>4, <3>5, <3>6 DEF CapInv, CapWithResting, CapTypes
    <2> QED BY <1>2, <2>2, <2>3 DEF PriceMoves
  <1>3. ASSUME NEW s \in Instruments, ClosePosition(s) PROVE CapInv'
    <2>1. PICK o : /\ held[s].net # 0 /\ o.symbol = s /\ Fill(o, price[s])
                   /\ UNCHANGED <<orders, limits, blind, topCap>>
      BY <1>3 DEF ClosePosition, historyVars
    <2>2. /\ held' = [t \in Instruments |-> held'[t]] /\ OpenIn(held') \subseteq OpenIn(held)
      BY <1>0, <2>1, FillOpens DEF OpenIn
    <2>3. Cardinality(OpenIn(held')) \in Nat /\ Cardinality(OpenIn(held')) <= Cardinality(OpenIn(held))
      BY <1>0, <2>2, FS_Subset, FS_CardinalityType
    <2>4. RestingOrders' = RestingOrders /\ CapTypes'
      BY <1>0, <2>1, <2>2 DEF RestingOrders, Resting, CapTypes
    <2> QED BY <1>0, <2>1, <2>3, <2>4 DEF CapInv, CapWithResting, CapTypes
  <1>4. CASE DispatchFill \/ RefreshRows \/ (\E m \in Polls : MarginPolled(m)) \/ UNCHANGED riskVars
    BY <1>1, <1>4 DEF DispatchFill, RefreshRows, MarginPolled, riskVars, historyVars
  <1>5. ASSUME NEW l \in Settings, UpdateLimits(l) PROVE CapInv'
    <2>1. /\ limits' = l /\ UNCHANGED <<held, orders, blind>>
          /\ topCap' = IF l.maxPositions > topCap THEN l.maxPositions ELSE topCap
      BY <1>5 DEF UpdateLimits
    <2>2. l.maxPositions \in Nat
      BY DeskRiskAssumption
    <2>3. CapTypes' /\ topCap' >= topCap
      BY <1>0, <2>1, <2>2 DEF CapTypes
    <2>4. RestingOrders' = RestingOrders
      BY <2>1 DEF RestingOrders, Resting
    <2> QED BY <1>0, <2>1, <2>3, <2>4 DEF CapInv, CapWithResting, CapTypes
  <1> QED BY <1>2, <1>3, <1>4, <1>5, ApproveKeeps DEF RiskNext

\* Proposals are approved against a projection that may lag (app.py, bus_bridge.py); open
\* positions exceed the highest max_positions by at most one for each approval that did not
\* see them all, for any instruments, offers, filters' settings and interleavings.
THEOREM CapHolds == RiskSpec => []CapHoldsUpToBlindApprovals
  <1>1. RiskSpec => []CapInv
    BY CapStart, CapStep, PTL DEF RiskSpec
  <1>2. CapInv => CapHoldsUpToBlindApprovals
    BY CapCounts DEF CapInv, CapWithResting, CapTypes, CapHoldsUpToBlindApprovals
  <1> QED BY <1>1, <1>2, PTL

\* A fill under way, and the types of the risk desk with what a step needs of them: positions
\* are of traded instruments, and every blind approval left an order.
FillsUnderWay == [symbol : Instruments, side : {"BUY", "SELL"}, qty : Nat \ {0}]
RiskDeskOK ==
  /\ RiskTypeOK
  /\ fills \in Seq(FillsUnderWay)
  /\ \A s \in Instruments : held[s].net # 0 => s \in Traded
  /\ blind <= Len(orders)

\* The average of two buys is a price.
LEMMA AverageIsPrice ==
  ASSUME NEW a \in Nat, NEW n \in Nat, NEW p \in Nat, NEW q \in Nat \ {0}
  PROVE  (a * n + p * q) \div (n + q) \in Nat
  <1>1. a * n \in Nat /\ p * q \in Nat
    OBVIOUS
  <1>2. ASSUME NEW t \in Nat, NEW d \in Nat \ {0} PROVE t \div d \in Nat
    BY <1>2
  <1>3. a * n + p * q \in Nat /\ n + q \in Nat \ {0}
    BY <1>1
  <1> QED BY <1>2, <1>3

\* A fill keeps the book's types.
LEMMA FillTyped ==
  ASSUME RiskDeskOK, NEW o, o.symbol \in Instruments, o.side \in {"BUY", "SELL"}, o.qty \in Nat \ {0},
         NEW at \in Nat, Fill(o, at)
  PROVE  /\ held' \in [Instruments -> [net : Int, avg : Nat]] /\ cash' \in Int
         /\ \A s \in Instruments : s # o.symbol => held'[s] = held[s]
         /\ fills' \in Seq(FillsUnderWay)
         /\ \A i \in DOMAIN fills' : fills'[i].symbol = o.symbol \/ (i \in DOMAIN fills /\ fills'[i] = fills[i])
  <1> DEFINE p == held[o.symbol]
             net == IF o.side = "BUY" THEN p.net + o.qty ELSE p.net - o.qty
             new == PositionWith(p, o, at)
             one == [symbol |-> o.symbol, side |-> o.side, qty |-> o.qty]
  <1>1. held \in [Instruments -> [net : Int, avg : Nat]] /\ cash \in Int
    BY DEF RiskDeskOK, RiskTypeOK
  <1>2. p.net \in Int /\ p.avg \in Nat /\ net \in Int
    BY <1>1
  <1>3. new \in [net : Int, avg : Nat]
    <2>1. CASE o.side = "BUY" /\ p.net >= 0
      <3>1. p.net \in Nat /\ net = p.net + o.qty
        BY <1>2, <2>1
      <3>2. (p.avg * p.net + at * o.qty) \div (p.net + o.qty) \in Nat
        BY <1>2, <3>1, AverageIsPrice
      <3>3. new = [net |-> net, avg |-> (p.avg * p.net + at * o.qty) \div net]
        BY <2>1 DEF PositionWith
      <3> QED BY <1>2, <3>1, <3>2, <3>3
    <2>2. CASE o.side = "BUY" /\ ~(p.net >= 0)
      <3>1. new = [net |-> net, avg |-> IF net > 0 THEN at ELSE p.avg]
        BY <2>2 DEF PositionWith
      <3> QED BY <1>2, <3>1
    <2>3. CASE o.side = "SELL"
      <3>1. new = [net |-> net, avg |-> p.avg]
        BY <2>3 DEF PositionWith
      <3> QED BY <1>2, <3>1
    <2> QED BY <2>1, <2>2, <2>3
  <1>4. held' = [held EXCEPT ![o.symbol] = new] /\ cash' = cash + Spend(o, at) /\ fills' = Append(fills, one)
    BY DEF Fill
  <1>5. Spend(o, at) \in Int
    <2>1. o.qty * at \in Int
      OBVIOUS
    <2> QED BY <2>1 DEF Spend
  <1>6. one \in FillsUnderWay /\ one.symbol = o.symbol /\ fills \in Seq(FillsUnderWay)
    BY DEF FillsUnderWay, RiskDeskOK
  <1> HIDE DEF new, one, FillsUnderWay
  <1>7. fills' \in Seq(FillsUnderWay)
    BY <1>4, <1>6
  <1>8. \A i \in DOMAIN fills' : fills'[i] = one \/ (i \in DOMAIN fills /\ fills'[i] = fills[i])
    BY <1>4, <1>6
  <1> QED BY <1>1, <1>3, <1>4, <1>5, <1>6, <1>7, <1>8

\* What a step leaves that touches neither the book nor the orders.
LEMMA DeskUntouched ==
  ASSUME RiskDeskOK, UNCHANGED <<held, cash, orders, blind>>,
         price' \in [Instruments -> Levels \cup {0}], DOMAIN rows' \subseteq DOMAIN rows \cup Traded,
         fills' \in Seq(FillsUnderWay), \A i \in DOMAIN fills' : fills'[i].symbol \in Traded,
         margin' \in Polls \cup {[m EXCEPT !.used = 0] : m \in Polls} \cup {[used |-> 0, available |-> -1]},
         limits' \in Settings
  PROVE  RiskDeskOK'
  <1>1. Traded' = Traded
    BY DEF Traded
  <1>2. DOMAIN rows' \subseteq Traded
    BY DEF RiskDeskOK, RiskTypeOK
  <1>3. RiskTypeOK'
    BY <1>1, <1>2 DEF RiskDeskOK, RiskTypeOK
  <1> QED BY <1>1, <1>3 DEF RiskDeskOK

\* A margin polled or with nothing used stays one of those.
LEMMA MarginKept ==
  ASSUME RiskDeskOK, margin' = [margin EXCEPT !.used = 0]
  PROVE  margin' \in Polls \cup {[m EXCEPT !.used = 0] : m \in Polls} \cup {[used |-> 0, available |-> -1]}
  <1>1. CASE margin \in Polls
    BY <1>1
  <1>2. ASSUME NEW m \in Polls, margin = [m EXCEPT !.used = 0] PROVE margin' = margin
    BY <1>2, DeskRiskAssumption
  <1>3. CASE margin = [used |-> 0, available |-> -1]
    BY <1>3
  <1> QED BY <1>1, <1>2, <1>3 DEF RiskDeskOK, RiskTypeOK

\* An approval.
LEMMA ApproveTyped ==
  ASSUME CapInv, RiskDeskOK, NEW o \in Offers, Approve(o)
  PROVE  RiskDeskOK'
  <1>1. /\ Len(orders) < MaxOrders /\ blind' = (IF Lagging THEN blind + 1 ELSE blind)
        /\ UNCHANGED <<price, rows, margin, limits>>
    BY DEF Approve
  <1>2. PICK what \in {"filled", "resting"} :
          /\ orders' = Append(orders, [offer |-> o, status |-> what])
          /\ what = "filled" => Fill(o, price[o.symbol])
          /\ what = "resting" => UNCHANGED <<held, cash, fills>>
    BY DEF Approve
  <1>3. /\ orders \in Seq([offer : Offers, status : {"resting", "filled"}]) /\ blind \in Nat
        /\ o.symbol \in Instruments /\ o.side \in {"BUY", "SELL"} /\ o.qty \in Nat \ {0}
    BY DeskRiskAssumption DEF CapInv, CapTypes
  <1>4. price[o.symbol] \in Nat
    BY <1>3, DeskRiskAssumption DEF RiskDeskOK, RiskTypeOK
  <1> DEFINE last == [offer |-> o, status |-> what]
  <1>5. last.offer = o /\ last.status = what
    OBVIOUS
  <1> HIDE DEF last
  <1>6. /\ Len(orders) \in Nat /\ Len(orders') = Len(orders) + 1 /\ DOMAIN orders = 1 .. Len(orders)
        /\ DOMAIN orders' = 1 .. Len(orders) + 1
        /\ orders'[Len(orders) + 1] = last /\ \A i \in DOMAIN orders : orders'[i] = orders[i]
    BY <1>2, <1>3 DEF last
  <1>7. Traded \subseteq Traded' /\ (what = "filled" => o.symbol \in Traded')
    BY <1>5, <1>6 DEF Traded
  <1>8. \A i \in DOMAIN orders' : orders'[i].offer \in Offers /\ orders'[i].status \in {"resting", "filled"}
    BY <1>5, <1>6 DEF RiskDeskOK, RiskTypeOK
  <1>9. blind' \in 0 .. MaxOrders /\ blind' <= Len(orders') /\ Len(orders') <= MaxOrders
    BY <1>1, <1>3, <1>6, DeskRiskAssumption DEF RiskDeskOK
  <1>10. /\ held' \in [Instruments -> [net : Int, avg : Nat]] /\ cash' \in Int
         /\ fills' \in Seq(FillsUnderWay)
         /\ \A i \in DOMAIN fills' : fills'[i].symbol \in Traded'
         /\ \A s \in Instruments : held'[s].net # 0 => s \in Traded'
    <2>1. CASE what = "filled"
      <3>1. /\ held' \in [Instruments -> [net : Int, avg : Nat]] /\ cash' \in Int
            /\ \A s \in Instruments : s # o.symbol => held'[s] = held[s]
            /\ fills' \in Seq(FillsUnderWay)
            /\ \A i \in DOMAIN fills' : fills'[i].symbol = o.symbol \/ (i \in DOMAIN fills /\ fills'[i] = fills[i])
        BY <1>2, <1>3, <1>4, <2>1, FillTyped
      <3>2. \A i \in DOMAIN fills : fills[i].symbol \in Traded'
        BY <1>7 DEF RiskDeskOK, RiskTypeOK
      <3>3. \A s \in Instruments : held[s].net # 0 => s \in Traded'
        BY <1>7 DEF RiskDeskOK
      <3> QED BY <1>7, <2>1, <3>1, <3>2, <3>3
    <2>2. CASE what = "resting"
      BY <1>2, <1>7, <2>2 DEF RiskDeskOK, RiskTypeOK
    <2> QED BY <2>1, <2>2
  <1>11. DOMAIN rows' \subseteq Traded'
    BY <1>1, <1>7 DEF RiskDeskOK, RiskTypeOK
  <1>12. RiskTypeOK'
    BY <1>1, <1>8, <1>9, <1>10, <1>11 DEF RiskDeskOK, RiskTypeOK
  <1> QED BY <1>9, <1>10, <1>12 DEF RiskDeskOK

\* A tick.
LEMMA TickTyped ==
  ASSUME CapInv, RiskDeskOK, NEW s \in Instruments, NEW p \in Levels, PriceMoves(s, p)
  PROVE  RiskDeskOK'
  <1>1. /\ price' = [price EXCEPT ![s] = p] /\ margin' = [margin EXCEPT !.used = 0]
        /\ UNCHANGED <<rows, limits, blind>>
    BY DEF PriceMoves, historyVars
  <1>2. price' \in [Instruments -> Levels \cup {0}]
    BY <1>1 DEF RiskDeskOK, RiskTypeOK
  <1>3. margin' \in Polls \cup {[m EXCEPT !.used = 0] : m \in Polls} \cup {[used |-> 0, available |-> -1]}
    BY <1>1, MarginKept
  <1>4. CASE UNCHANGED <<held, cash, orders, fills>>
    <2>1. \A i \in DOMAIN fills' : fills'[i].symbol \in Traded
      BY <1>4 DEF RiskDeskOK, RiskTypeOK
    <2>2. fills' \in Seq(FillsUnderWay) /\ limits' \in Settings
      BY <1>1, <1>4 DEF RiskDeskOK, RiskTypeOK
    <2> QED BY <1>1, <1>2, <1>3, <1>4, <2>1, <2>2, DeskUntouched
  <1>5. CASE \E i \in DOMAIN orders : /\ Crosses(i, s, p)
                                       /\ Fill(orders[i].offer, orders[i].offer.entry)
                                       /\ orders' = [orders EXCEPT ![i].status = "filled"]
    <2>1. PICK i \in DOMAIN orders : /\ Fill(orders[i].offer, orders[i].offer.entry)
                                     /\ orders' = [orders EXCEPT ![i].status = "filled"]
      BY <1>5
    <2>2. orders \in Seq([offer : Offers, status : {"resting", "filled"}])
      BY DEF CapInv, CapTypes
    <2>3. orders[i] \in [offer : Offers, status : {"resting", "filled"}]
      <3>1. i \in 1 .. Len(orders)
        BY <2>1, <2>2
      <3> QED BY <2>2, <3>1, ElementOfSeq
    <2> DEFINE o == orders[i].offer
               new == [orders[i] EXCEPT !.status = "filled"]
    <2>4. new.offer = o /\ new.status = "filled" /\ o \in Offers
      BY <2>3
    <2>5. o.symbol \in Instruments /\ o.side \in {"BUY", "SELL"} /\ o.qty \in Nat \ {0} /\ o.entry \in Nat
      BY <2>4, DeskRiskAssumption
    <2>6. orders' = [orders EXCEPT ![i] = new]
      BY <2>1
    <2> HIDE DEF o, new
    <2>7. /\ DOMAIN orders' = DOMAIN orders /\ Len(orders') = Len(orders) /\ orders'[i] = new
          /\ \A j \in DOMAIN orders \ {i} : orders'[j] = orders[j]
      BY <2>1, <2>2, <2>6
    <2>8. Traded \subseteq Traded' /\ o.symbol \in Traded'
      <3>1. \A j \in DOMAIN orders : orders'[j].offer = orders[j].offer
        BY <2>4, <2>7 DEF o
      <3>2. \A j \in DOMAIN orders : orders[j].status = "filled" => orders'[j].status = "filled"
        BY <2>4, <2>7
      <3>3. o.symbol \in Traded'
        BY <2>1, <2>4, <2>7 DEF Traded
      <3>4. Traded \subseteq Traded'
        BY <2>7, <3>1, <3>2 DEF Traded
      <3> QED BY <3>3, <3>4
    <2>9. \A j \in DOMAIN orders' : orders'[j].offer \in Offers /\ orders'[j].status \in {"resting", "filled"}
      BY <2>4, <2>7 DEF RiskDeskOK, RiskTypeOK
    <2>10. /\ held' \in [Instruments -> [net : Int, avg : Nat]] /\ cash' \in Int
           /\ \A t \in Instruments : t # o.symbol => held'[t] = held[t]
           /\ fills' \in Seq(FillsUnderWay)
           /\ \A j \in DOMAIN fills' : fills'[j].symbol = o.symbol \/ (j \in DOMAIN fills /\ fills'[j] = fills[j])
      <3>1. Fill(o, o.entry)
        BY <2>1 DEF o
      <3> QED BY <2>5, <3>1, FillTyped
    <2>11. \A j \in DOMAIN fills' : fills'[j].symbol \in Traded'
      BY <2>8, <2>10 DEF RiskDeskOK, RiskTypeOK
    <2>12. \A t \in Instruments : held'[t].net # 0 => t \in Traded'
      BY <2>8, <2>10 DEF RiskDeskOK
    <2>13. DOMAIN rows' \subseteq Traded' /\ limits' \in Settings /\ blind' \in 0 .. MaxOrders
           /\ blind' <= Len(orders') /\ Len(orders') <= MaxOrders
      BY <1>1, <2>7, <2>8 DEF RiskDeskOK, RiskTypeOK
    <2>14. RiskTypeOK'
      BY <1>2, <1>3, <2>9, <2>10, <2>11, <2>13 DEF RiskTypeOK
    <2> QED BY <2>10, <2>12, <2>13, <2>14 DEF RiskDeskOK
  <1> QED BY <1>4, <1>5 DEF PriceMoves

\* A closing.
LEMMA CloseTyped ==
  ASSUME RiskDeskOK, NEW s \in Instruments, ClosePosition(s)
  PROVE  RiskDeskOK'
  <1> DEFINE net == held[s].net
  <1>1. PICK o : /\ o.symbol = s /\ o.side \in {"BUY", "SELL"} /\ o.qty = (IF net > 0 THEN net ELSE -net)
                 /\ net # 0 /\ Fill(o, price[s])
                 /\ UNCHANGED <<price, orders, rows, margin, limits, blind>>
    BY DEF ClosePosition, historyVars
  <1>2. net \in Int /\ price[s] \in Nat
    BY DeskRiskAssumption DEF RiskDeskOK, RiskTypeOK
  <1>3. o.qty \in Nat \ {0}
    BY <1>1, <1>2
  <1>4. /\ held' \in [Instruments -> [net : Int, avg : Nat]] /\ cash' \in Int
        /\ \A t \in Instruments : t # s => held'[t] = held[t]
        /\ fills' \in Seq(FillsUnderWay)
        /\ \A i \in DOMAIN fills' : fills'[i].symbol = s \/ (i \in DOMAIN fills /\ fills'[i] = fills[i])
    BY <1>1, <1>2, <1>3, FillTyped
  <1>5. s \in Traded /\ Traded' = Traded
    BY <1>1 DEF RiskDeskOK, Traded
  <1>6. \A i \in DOMAIN fills' : fills'[i].symbol \in Traded'
    BY <1>4, <1>5 DEF RiskDeskOK, RiskTypeOK
  <1>7. \A t \in Instruments : held'[t].net # 0 => t \in Traded'
    BY <1>4, <1>5 DEF RiskDeskOK
  <1>8. RiskTypeOK'
    BY <1>1, <1>4, <1>5, <1>6 DEF RiskDeskOK, RiskTypeOK
  <1> QED BY <1>1, <1>4, <1>7, <1>8 DEF RiskDeskOK

\* Every step keeps the types of the risk desk.
LEMMA RiskDeskStep == CapInv /\ RiskDeskOK /\ [RiskNext]_riskVars => RiskDeskOK'
  <1> SUFFICES ASSUME CapInv, RiskDeskOK, [RiskNext]_riskVars PROVE RiskDeskOK'
    OBVIOUS
  <1>0. /\ price \in [Instruments -> Levels \cup {0}] /\ fills \in Seq(FillsUnderWay) /\ limits \in Settings
        /\ margin \in Polls \cup {[m EXCEPT !.used = 0] : m \in Polls} \cup {[used |-> 0, available |-> -1]}
        /\ \A i \in DOMAIN fills : fills[i].symbol \in Traded
    BY DEF RiskDeskOK, RiskTypeOK
  <1>1. CASE DispatchFill
    <2> DEFINE e == Head(fills)
    <2>1. /\ fills # <<>> /\ DOMAIN rows' = DOMAIN rows \cup {e.symbol} /\ fills' = Tail(fills)
          /\ margin' = [margin EXCEPT !.used = 0]
          /\ UNCHANGED <<price, held, cash, orders, limits, blind>>
      BY <1>1 DEF DispatchFill, historyVars
    <2>2. fills' \in Seq(FillsUnderWay) /\ e = fills[1] /\ 1 \in DOMAIN fills
          /\ \A i \in DOMAIN fills' : i + 1 \in DOMAIN fills /\ fills'[i] = fills[i + 1]
      <3> HIDE DEF FillsUnderWay
      <3> QED BY <1>0, <2>1
    <2>3. e.symbol \in Traded /\ \A i \in DOMAIN fills' : fills'[i].symbol \in Traded
      BY <1>0, <2>2
    <2>4. margin' \in Polls \cup {[m EXCEPT !.used = 0] : m \in Polls} \cup {[used |-> 0, available |-> -1]}
      BY <2>1, MarginKept
    <2> QED BY <1>0, <2>1, <2>2, <2>3, <2>4, DeskUntouched
  <1>2. CASE RefreshRows
    <2>1. /\ DOMAIN rows' = DOMAIN rows \cup Traded
          /\ UNCHANGED <<price, held, cash, orders, fills, margin, limits, blind>>
      BY <1>2 DEF RefreshRows, historyVars
    <2> QED BY <1>0, <2>1, DeskUntouched
  <1>3. ASSUME NEW m \in Polls, MarginPolled(m) PROVE RiskDeskOK'
    <2>1. margin' = m /\ UNCHANGED <<price, held, cash, orders, rows, fills, limits, blind>>
      BY <1>3 DEF MarginPolled, historyVars
    <2> QED BY <1>0, <2>1, DeskUntouched
  <1>4. ASSUME NEW l \in Settings, UpdateLimits(l) PROVE RiskDeskOK'
    <2>1. limits' = l /\ UNCHANGED <<price, held, cash, orders, rows, fills, margin, blind>>
      BY <1>4 DEF UpdateLimits
    <2> QED BY <1>0, <2>1, DeskUntouched
  <1>5. CASE UNCHANGED riskVars
    <2>1. UNCHANGED <<price, held, cash, orders, rows, fills, margin, limits, blind>>
      BY <1>5 DEF riskVars
    <2> QED BY <1>0, <2>1, DeskUntouched
  <1> QED BY <1>1, <1>2, <1>3, <1>4, <1>5, ApproveTyped, TickTyped, CloseTyped DEF RiskNext

\* The risk check's inputs stay sound: averages never turn negative, whatever crosses zero; rows
\* and fills under way are of instruments of filled orders, so that every position is one of
\* them; no order is approved beyond the bound.
THEOREM RiskDeskWellFormed == RiskSpec => []RiskTypeOK
  <1>1. RiskInit => RiskDeskOK
    <2> SUFFICES ASSUME RiskInit PROVE RiskDeskOK
      OBVIOUS
    <2>1. Len(orders) = 0 /\ DOMAIN orders = {} /\ DOMAIN fills = {} /\ DOMAIN rows = {}
          /\ fills \in Seq(FillsUnderWay)
      BY DEF RiskInit
    <2>2. held \in [Instruments -> [net : Int, avg : Nat]] /\ cash \in Int
          /\ price \in [Instruments -> Levels \cup {0}] /\ \A s \in Instruments : held[s].net = 0
      BY DeskRiskAssumption DEF RiskInit
    <2>3. margin = [used |-> 0, available |-> -1] /\ limits \in Settings /\ blind = 0
      BY DEF RiskInit
    <2>4. RiskTypeOK
      BY <2>1, <2>2, <2>3, DeskRiskAssumption DEF RiskTypeOK
    <2> QED BY <2>1, <2>2, <2>3, <2>4 DEF RiskDeskOK
  <1>2. RiskDeskOK => RiskTypeOK
    BY DEF RiskDeskOK
  <1> QED BY <1>1, <1>2, CapStart, CapStep, RiskDeskStep, PTL DEF RiskSpec

-----------------------------------------------------------------------------
\* Bars.

\* Multiples of a number are that number apart.
LEMMA Multiples ==
  ASSUME NEW a \in Nat \ {0}, NEW x \in Int, NEW y \in Int, x < y
  PROVE  a * x + a <= a * y
  <1>1. PICK d \in Nat : y = x + 1 + d
    <2>1. y - x - 1 \in Nat /\ y = x + 1 + (y - x - 1)
      OBVIOUS
    <2> QED BY <2>1
  <1>2. a * y = a * x + a + a * d
    BY <1>1
  <1>3. a * d \in Nat
    OBVIOUS
  <1>4. a * x \in Int
    OBVIOUS
  <1> QED BY <1>2, <1>3, <1>4

\* The floor of a time is the last multiple before it.
LEMMA FloorBounds ==
  ASSUME NEW t \in Nat, NEW a \in Nat \ {0}
  PROVE  /\ t \div a \in Nat
         /\ Floor(t, a) = a * (t \div a)
         /\ Floor(t, a) \in Nat /\ Floor(t, a) <= t /\ t < Floor(t, a) + a
  <1>1. t \div a \in Nat
    OBVIOUS
  <1>2. a * (t \div a) <= t /\ t < a * (t \div a) + a
    OBVIOUS
  <1>3. a * (t \div a) \in Nat
    BY <1>1
  <1> QED BY <1>1, <1>2, <1>3 DEF Floor

LEMMA FloorIs ==
  ASSUME NEW t \in Nat, NEW a \in Nat \ {0}, NEW q \in Nat, a * q <= t, t < a * q + a
  PROVE  Floor(t, a) = a * q
  <1> DEFINE p == t \div a
  <1>1. p \in Nat /\ Floor(t, a) = a * p /\ a * p \in Nat /\ a * p <= t /\ t < a * p + a
    BY FloorBounds
  <1>2. a * q \in Nat
    OBVIOUS
  <1> HIDE DEF p
  <1>3. CASE p < q
    <2>1. a * p + a <= a * q
      BY <1>1, <1>3, Multiples
    <2> QED BY <1>1, <1>2, <2>1
  <1>4. CASE q < p
    <2>1. a * q + a <= a * p
      BY <1>1, <1>4, Multiples
    <2> QED BY <1>1, <1>2, <2>1
  <1>5. CASE p = q
    BY <1>1, <1>5
  <1> QED BY <1>1, <1>3, <1>4, <1>5

LEMMA Divides ==
  ASSUME NEW a \in Nat \ {0}, NEW b \in Nat \ {0}, b % a = 0
  PROVE  \E r \in Nat : b = a * r
  <1>1. b \div a \in Nat /\ b = a * (b \div a) + (b % a)
    OBVIOUS
  <1>2. a * (b \div a) \in Nat
    BY <1>1
  <1>3. b = a * (b \div a)
    BY <1>1, <1>2
  <1> QED BY <1>1, <1>3

\* The period of a time is that of the shorter period around it.
LEMMA FloorTwice ==
  ASSUME NEW t \in Nat, NEW a \in Nat \ {0}, NEW b \in Nat \ {0}, b % a = 0
  PROVE  Floor(Floor(t, a), b) = Floor(t, b)
  <1> DEFINE p == t \div a
             q == t \div b
  <1>1. p \in Nat /\ Floor(t, a) = a * p /\ a * p \in Nat /\ a * p <= t /\ t < a * p + a
    BY FloorBounds
  <1>2. q \in Nat /\ Floor(t, b) = b * q /\ b * q \in Nat /\ b * q <= t /\ t < b * q + b
    BY FloorBounds
  <1> HIDE DEF p, q
  <1>3. PICK r \in Nat : b = a * r
    BY Divides
  <1>4. r * q \in Nat /\ a * (r * q) = b * q
    <2>1. a * (r * q) = (a * r) * q
      BY <1>2
    <2> QED BY <1>2, <1>3, <2>1
  <1>5. b * q <= a * p
    <2> DEFINE m == r * q
    <2>1. m \in Nat /\ a * m = b * q
      BY <1>4
    <2> HIDE DEF m
    <2>2. CASE p < m
      <3>1. a * p + a <= a * m
        BY <1>1, <2>1, <2>2, Multiples
      <3> QED BY <1>1, <1>2, <2>1, <3>1
    <2>3. CASE m < p
      <3>1. a * m + a <= a * p
        BY <1>1, <2>1, <2>3, Multiples
      <3> QED BY <1>1, <1>2, <2>1, <3>1
    <2>4. CASE m = p
      BY <1>1, <2>1, <2>4
    <2> QED BY <1>1, <2>1, <2>2, <2>3, <2>4
  <1>6. a * p < b * q + b
    BY <1>1, <1>2
  <1>7. Floor(a * p, b) = b * q
    BY <1>1, <1>2, <1>5, <1>6, FloorIs
  <1> QED BY <1>1, <1>2, <1>7

\* A period ends within the longer one that it begins in.
LEMMA FloorTogether ==
  ASSUME NEW s \in Nat, NEW a \in Nat \ {0}, NEW b \in Nat \ {0}, b % a = 0, Floor(s, a) = s
  PROVE  s + a <= Floor(s, b) + b
  <1> DEFINE p == s \div a
             q == s \div b
  <1>1. p \in Nat /\ s = a * p
    BY FloorBounds
  <1>2. q \in Nat /\ Floor(s, b) = b * q /\ b * q \in Nat /\ s < b * q + b
    BY FloorBounds
  <1> HIDE DEF p, q
  <1>3. PICK r \in Nat : b = a * r
    BY Divides
  <1> DEFINE m == r * q + r
  <1>4. m \in Nat /\ a * m = b * q + b
    <2>1. r * q \in Nat /\ a * (r * q) = (a * r) * q
      BY <1>2
    <2>2. a * (r * q + r) = a * (r * q) + a * r
      BY <2>1
    <2> QED BY <1>2, <1>3, <2>1, <2>2
  <1> HIDE DEF m
  <1>5. CASE p < m
    <2>1. a * p + a <= a * m
      BY <1>1, <1>4, <1>5, Multiples
    <2> QED BY <1>1, <1>2, <1>4, <2>1
  <1>6. CASE m < p
    <2>1. a * m + a <= a * p
      BY <1>1, <1>4, <1>6, Multiples
    <2> QED BY <1>1, <1>2, <1>4, <2>1
  <1>7. CASE m = p
    BY <1>1, <1>2, <1>4, <1>7
  <1> QED BY <1>1, <1>4, <1>5, <1>6, <1>7

\* Until a period is over, times floor to its start.
LEMMA FloorSame ==
  ASSUME NEW s \in Nat, NEW t \in Nat, NEW a \in Nat \ {0}, Floor(s, a) = s, s <= t, t < s + a
  PROVE  Floor(t, a) = s
  <1>1. s \div a \in Nat /\ s = a * (s \div a)
    BY FloorBounds
  <1> QED BY <1>1, FloorIs

BarRecords ==
  [start : Nat, open : Ltps, high : Ltps, low : Ltps, close : Ltps, volume : Nat, ticks : Nat,
   stored : BOOLEAN]

\* Bars that differ in nothing but whether they are stored.
Alike(b, bar) ==
  /\ b.start = bar.start /\ b.open = bar.open /\ b.high = bar.high /\ b.low = bar.low
  /\ b.close = bar.close /\ b.volume = bar.volume /\ b.ticks = bar.ticks

AlikeOn(bars, others, S) == \A k \in S : Alike(bars[k], others[k])

\* A bar after a tick, and the first of a bar.
Touched(b, bar, ltp, volume) ==
  /\ b.start = bar.start /\ b.open = bar.open /\ b.close = ltp
  /\ b.high = Larger(bar.high, ltp) /\ b.low = Lower(bar.low, ltp)
  /\ b.volume = bar.volume + volume /\ b.ticks = bar.ticks + 1

Fresh(b, ltp, volume) ==
  /\ b.open = ltp /\ b.close = ltp /\ b.high = ltp /\ b.low = ltp
  /\ b.volume = volume /\ b.ticks = 1

Volumes(bars, S) == [k \in S |-> bars[k].volume]
Counts(bars, S) == [k \in S |-> bars[k].ticks]

LEMMA FieldTypes ==
  ASSUME NEW b \in BarRecords
  PROVE  /\ b.start \in Nat /\ b.open \in Nat /\ b.high \in Nat /\ b.low \in Nat /\ b.close \in Nat
         /\ b.volume \in Nat /\ b.ticks \in Nat
  BY BarsAssumption DEF BarRecords

LEMMA PartsFinite ==
  ASSUME NEW bars \in Seq(BarRecords), NEW parts \in SUBSET DOMAIN bars
  PROVE  /\ IsFiniteSet(parts)
         /\ Volumes(bars, parts) \in [parts -> Int] /\ Counts(bars, parts) \in [parts -> Int]
  <1>1. Len(bars) \in Nat /\ DOMAIN bars = 1 .. Len(bars)
    OBVIOUS
  <1>2. IsFiniteSet(parts)
    <2>1. IsFiniteSet(1 .. Len(bars))
      BY <1>1, FS_Interval
    <2> QED BY <1>1, <2>1, FS_Subset
  <1>3. \A k \in parts : bars[k].volume \in Int /\ bars[k].ticks \in Int
    BY <1>1, FieldTypes
  <1> QED BY <1>2, <1>3 DEF Volumes, Counts

\* Being stored makes no difference.
LEMMA AlikeTogether ==
  ASSUME NEW bars, NEW others, NEW parts, AlikeOn(others, bars, parts),
         NEW bar, NEW b, Alike(b, bar), PutTogether(bar, bars, parts)
  PROVE  PutTogether(b, others, parts)
  <1>1. \A k \in parts : /\ others[k].open = bars[k].open /\ others[k].close = bars[k].close
                          /\ others[k].high = bars[k].high /\ others[k].low = bars[k].low
    BY DEF AlikeOn, Alike
  <1>2. /\ [k \in parts |-> others[k].volume] = [k \in parts |-> bars[k].volume]
        /\ [k \in parts |-> others[k].ticks] = [k \in parts |-> bars[k].ticks]
    BY DEF AlikeOn, Alike
  <1> QED BY <1>1, <1>2 DEF PutTogether, Alike

\* A tick that the last part and the longer bar both take.
LEMMA TickTogether ==
  ASSUME NEW bars \in Seq(BarRecords), NEW others \in Seq(BarRecords), DOMAIN others = DOMAIN bars,
         NEW parts \in SUBSET DOMAIN bars, NEW n \in parts, \A k \in parts : k <= n,
         AlikeOn(others, bars, parts \ {n}),
         NEW ltp \in Nat, NEW volume \in Nat, Touched(others[n], bars[n], ltp, volume),
         NEW bar \in BarRecords, NEW b, Touched(b, bar, ltp, volume),
         PutTogether(bar, bars, parts)
  PROVE  PutTogether(b, others, parts)
  <1>0. parts \subseteq Nat /\ \A k \in parts : bars[k] \in BarRecords
    OBVIOUS
  <1>1. \A k \in parts : /\ bars[k].open \in Nat /\ bars[k].high \in Nat /\ bars[k].low \in Nat
                          /\ bars[k].volume \in Nat /\ bars[k].ticks \in Nat
    BY <1>0, FieldTypes
  <1>2. bar.high \in Nat /\ bar.low \in Nat /\ bar.volume \in Nat /\ bar.ticks \in Nat
    BY FieldTypes
  <1>3. \A k \in parts \ {n} : /\ others[k].open = bars[k].open /\ others[k].close = bars[k].close
                                /\ others[k].high = bars[k].high /\ others[k].low = bars[k].low
                                /\ others[k].volume = bars[k].volume /\ others[k].ticks = bars[k].ticks
    BY DEF AlikeOn, Alike
  <1>4. /\ others[n].open = bars[n].open /\ others[n].close = ltp
        /\ others[n].high = Larger(bars[n].high, ltp) /\ others[n].low = Lower(bars[n].low, ltp)
        /\ others[n].volume = bars[n].volume + volume /\ others[n].ticks = bars[n].ticks + 1
    BY DEF Touched
  <1>5. /\ b.open = bar.open /\ b.close = ltp
        /\ b.high = Larger(bar.high, ltp) /\ b.low = Lower(bar.low, ltp)
        /\ b.volume = bar.volume + volume /\ b.ticks = bar.ticks + 1
    BY DEF Touched
  <1>6. \A k \in parts : (\A m \in parts : k <= m) => b.open = others[k].open
    BY <1>3, <1>4, <1>5 DEF PutTogether
  <1>7. \A k \in parts : (\A m \in parts : m <= k) => b.close = others[k].close
    <2>1. \A k \in parts : (\A m \in parts : m <= k) => k = n
      BY <1>0
    <2> QED BY <2>1, <1>4, <1>5
  <1>8. \A k \in parts : bars[k].high <= bar.high /\ bar.low <= bars[k].low
    BY DEF PutTogether
  <1>9. \A k \in parts : others[k].high <= b.high /\ b.low <= others[k].low
    <2>1. ASSUME NEW k \in parts PROVE others[k].high <= b.high /\ b.low <= others[k].low
      <3>1. CASE k = n
        BY <1>1, <1>2, <1>4, <1>5, <1>8, <3>1 DEF Larger, Lower
      <3>2. CASE k # n
        BY <1>1, <1>2, <1>3, <1>5, <1>8, <3>2 DEF Larger, Lower
      <3> QED BY <3>1, <3>2
    <2> QED BY <2>1
  <1>10. \E k \in parts : b.high = others[k].high
    <2>1. PICK k \in parts : bar.high = bars[k].high
      BY DEF PutTogether
    <2>2. CASE ltp > bar.high
      <3>1. b.high = ltp /\ others[n].high = ltp
        BY <1>1, <1>2, <1>4, <1>5, <1>8, <2>2 DEF Larger
      <3> QED BY <3>1
    <2>3. CASE ~(ltp > bar.high)
      <3>1. b.high = others[k].high
        <4>1. CASE k = n
          BY <1>4, <1>5, <2>1, <4>1
        <4>2. CASE k # n
          BY <1>2, <1>3, <1>5, <2>1, <2>3, <4>2 DEF Larger
        <4> QED BY <4>1, <4>2
      <3> QED BY <3>1
    <2> QED BY <2>2, <2>3
  <1>11. \E k \in parts : b.low = others[k].low
    <2>1. PICK k \in parts : bar.low = bars[k].low
      BY DEF PutTogether
    <2>2. CASE ~(bar.low < ltp)
      <3>1. b.low = ltp /\ others[n].low = ltp
        BY <1>1, <1>2, <1>4, <1>5, <1>8, <2>2 DEF Lower
      <3> QED BY <3>1
    <2>3. CASE bar.low < ltp
      <3>1. b.low = others[k].low
        <4>1. CASE k = n
          BY <1>4, <1>5, <2>1, <4>1
        <4>2. CASE k # n
          BY <1>2, <1>3, <1>5, <2>1, <2>3, <4>2 DEF Lower
        <4> QED BY <4>1, <4>2
      <3> QED BY <3>1
    <2> QED BY <2>2, <2>3
  <1>12. IsFiniteSet(parts) /\ Volumes(bars, parts) \in [parts -> Int] /\ Counts(bars, parts) \in [parts -> Int]
         /\ Volumes(others, parts) \in [parts -> Int] /\ Counts(others, parts) \in [parts -> Int]
    BY PartsFinite
  <1>13. SumFunction(Volumes(others, parts)) = SumFunction(Volumes(bars, parts)) + volume
    <2>1. DifferAt(Volumes(bars, parts), Volumes(others, parts), n, parts)
      BY <1>3 DEF DifferAt, Volumes
    <2>2. Volumes(others, parts)[n] = Volumes(bars, parts)[n] + volume
      BY <1>4 DEF Volumes
    <2>3. MovedBy(Volumes(bars, parts), Volumes(others, parts), parts, n, volume)
      BY <1>12, <2>1, <2>2 DEF MovedBy
    <2> QED BY <1>12, <2>3, SumMoved
  <1>14. SumFunction(Counts(others, parts)) = SumFunction(Counts(bars, parts)) + 1
    <2>1. DifferAt(Counts(bars, parts), Counts(others, parts), n, parts)
      BY <1>3 DEF DifferAt, Counts
    <2>2. Counts(others, parts)[n] = Counts(bars, parts)[n] + 1
      BY <1>4 DEF Counts
    <2>3. MovedBy(Counts(bars, parts), Counts(others, parts), parts, n, 1)
      BY <1>12, <2>1, <2>2 DEF MovedBy
    <2> QED BY <1>12, <2>3, SumMoved
  <1>15. bar.volume = SumFunction(Volumes(bars, parts)) /\ bar.ticks = SumFunction(Counts(bars, parts))
    BY DEF PutTogether, Volumes, Counts
  <1>16. b.volume = SumFunction(Volumes(others, parts)) /\ b.ticks = SumFunction(Counts(others, parts))
    BY <1>5, <1>13, <1>14, <1>15
  <1> QED BY <1>6, <1>7, <1>9, <1>10, <1>11, <1>16 DEF PutTogether, Volumes, Counts

\* A tick that begins a part, in a longer bar that goes on.
LEMMA TickBeginsPart ==
  ASSUME NEW bars \in Seq(BarRecords), NEW others \in Seq(BarRecords),
         NEW parts \in SUBSET DOMAIN bars, NEW all \in SUBSET DOMAIN others, NEW n,
         OneMore(parts, n, all), \A k \in parts : k < n, AlikeOn(others, bars, parts),
         NEW ltp \in Nat, NEW volume \in Nat, Fresh(others[n], ltp, volume),
         NEW bar \in BarRecords, NEW b, Touched(b, bar, ltp, volume),
         PutTogether(bar, bars, parts)
  PROVE  PutTogether(b, others, all)
  <1>0. /\ parts \subseteq Nat /\ all \subseteq Nat /\ n \in all /\ n \in Nat
        /\ \A k \in parts : bars[k] \in BarRecords /\ k \in all
        /\ \A k \in all : k = n \/ k \in parts
        /\ parts # {}
    BY DEF OneMore, PutTogether
  <1>1. \A k \in parts : /\ bars[k].open \in Nat /\ bars[k].high \in Nat /\ bars[k].low \in Nat
                          /\ bars[k].volume \in Nat /\ bars[k].ticks \in Nat
    BY <1>0, FieldTypes
  <1>2. bar.high \in Nat /\ bar.low \in Nat /\ bar.volume \in Nat /\ bar.ticks \in Nat
    BY FieldTypes
  <1>3. \A k \in parts : /\ others[k].open = bars[k].open /\ others[k].close = bars[k].close
                          /\ others[k].high = bars[k].high /\ others[k].low = bars[k].low
                          /\ others[k].volume = bars[k].volume /\ others[k].ticks = bars[k].ticks
    BY DEF AlikeOn, Alike
  <1>4. /\ others[n].open = ltp /\ others[n].close = ltp /\ others[n].high = ltp /\ others[n].low = ltp
        /\ others[n].volume = volume /\ others[n].ticks = 1
    BY DEF Fresh
  <1>5. /\ b.open = bar.open /\ b.close = ltp
        /\ b.high = Larger(bar.high, ltp) /\ b.low = Lower(bar.low, ltp)
        /\ b.volume = bar.volume + volume /\ b.ticks = bar.ticks + 1
    BY DEF Touched
  <1>6. \A k \in all : (\A m \in all : k <= m) => b.open = others[k].open
    <2>1. ASSUME NEW k \in all, \A m \in all : k <= m PROVE b.open = others[k].open
      <3>1. k \in parts /\ \A m \in parts : k <= m
        BY <1>0, <2>1
      <3>2. bar.open = bars[k].open
        BY <3>1 DEF PutTogether
      <3> QED BY <1>3, <1>5, <3>1, <3>2
    <2> QED BY <2>1
  <1>7. \A k \in all : (\A m \in all : m <= k) => b.close = others[k].close
    <2>1. \A k \in all : (\A m \in all : m <= k) => k = n
      BY <1>0
    <2> QED BY <2>1, <1>4, <1>5
  <1>8. \A k \in parts : bars[k].high <= bar.high /\ bar.low <= bars[k].low
    BY DEF PutTogether
  <1>9. \A k \in all : others[k].high <= b.high /\ b.low <= others[k].low
    <2>1. ASSUME NEW k \in all PROVE others[k].high <= b.high /\ b.low <= others[k].low
      <3>1. CASE k = n
        BY <1>2, <1>4, <1>5, <3>1 DEF Larger, Lower
      <3>2. CASE k \in parts
        BY <1>1, <1>2, <1>3, <1>5, <1>8, <3>2 DEF Larger, Lower
      <3> QED BY <1>0, <3>1, <3>2
    <2> QED BY <2>1
  <1>10. \E k \in all : b.high = others[k].high
    <2>1. PICK k \in parts : bar.high = bars[k].high
      BY DEF PutTogether
    <2>2. CASE ltp > bar.high
      BY <1>0, <1>2, <1>4, <1>5, <2>2 DEF Larger
    <2>3. CASE ~(ltp > bar.high)
      <3>1. b.high = bar.high
        BY <1>2, <1>5, <2>3 DEF Larger
      <3> QED BY <1>0, <1>3, <2>1, <3>1
    <2> QED BY <2>2, <2>3
  <1>11. \E k \in all : b.low = others[k].low
    <2>1. PICK k \in parts : bar.low = bars[k].low
      BY DEF PutTogether
    <2>2. CASE ~(bar.low < ltp)
      BY <1>0, <1>2, <1>4, <1>5, <2>2 DEF Lower
    <2>3. CASE bar.low < ltp
      <3>1. b.low = bar.low
        BY <1>2, <1>5, <2>3 DEF Lower
      <3> QED BY <1>0, <1>3, <2>1, <3>1
    <2> QED BY <2>2, <2>3
  <1>12. /\ IsFiniteSet(parts)
         /\ Volumes(bars, parts) \in [parts -> Int] /\ Counts(bars, parts) \in [parts -> Int]
         /\ Volumes(others, all) \in [all -> Int] /\ Counts(others, all) \in [all -> Int]
    BY PartsFinite
  <1>13. SumFunction(Volumes(others, all)) = SumFunction(Volumes(bars, parts)) + volume
    <2>1. GrowsBy(Volumes(bars, parts), Volumes(others, all), parts, n, all, volume)
      BY <1>0, <1>3, <1>4, <1>12 DEF GrowsBy, SameOn, Volumes
    <2> QED BY <1>12, <2>1, SumGrown
  <1>14. SumFunction(Counts(others, all)) = SumFunction(Counts(bars, parts)) + 1
    <2>1. GrowsBy(Counts(bars, parts), Counts(others, all), parts, n, all, 1)
      BY <1>0, <1>3, <1>4, <1>12 DEF GrowsBy, SameOn, Counts
    <2> QED BY <1>12, <2>1, SumGrown
  <1>15. bar.volume = SumFunction(Volumes(bars, parts)) /\ bar.ticks = SumFunction(Counts(bars, parts))
    BY DEF PutTogether, Volumes, Counts
  <1>16. b.volume = SumFunction(Volumes(others, all)) /\ b.ticks = SumFunction(Counts(others, all))
    BY <1>5, <1>13, <1>14, <1>15
  <1> QED BY <1>0, <1>6, <1>7, <1>9, <1>10, <1>11, <1>16 DEF PutTogether, Volumes, Counts

\* A tick that begins a part and the longer bar.
LEMMA TickBeginsBoth ==
  ASSUME NEW bars \in Seq(BarRecords), NEW n \in DOMAIN bars, NEW parts, parts = {n},
         NEW ltp \in Nat, NEW volume \in Nat, Fresh(bars[n], ltp, volume),
         NEW b, Fresh(b, ltp, volume)
  PROVE  PutTogether(b, bars, parts)
  <1>1. parts \in SUBSET DOMAIN bars /\ n \in parts /\ \A k \in parts : k = n
    OBVIOUS
  <1>2. Volumes(bars, parts) \in [parts -> Int] /\ Counts(bars, parts) \in [parts -> Int]
    BY <1>1, PartsFinite
  <1>3. Volumes(bars, parts)[n] = volume /\ Counts(bars, parts)[n] = 1
    BY <1>1 DEF Volumes, Counts, Fresh
  <1>4. SumFunction(Volumes(bars, parts)) = volume /\ SumFunction(Counts(bars, parts)) = 1
    BY <1>2, <1>3, SumOfOne
  <1>5. b.volume = SumFunction(Volumes(bars, parts)) /\ b.ticks = SumFunction(Counts(bars, parts))
    BY <1>4 DEF Fresh
  <1> QED BY <1>1, <1>5 DEF PutTogether, Volumes, Counts, Fresh

\* Bars begin at their periods, one after the other.
Rises(bars, tf) ==
  /\ \A k \in DOMAIN bars : Floor(bars[k].start, tf) = bars[k].start
  /\ \A k, l \in DOMAIN bars : k < l => bars[k].start < bars[l].start

\* Every bar lies in a longer one, the last in the last.
Covers(coarse, fine, c) ==
  /\ Len(fine) = 0 <=> Len(coarse) = 0
  /\ \A k \in DOMAIN fine : \E i \in DOMAIN coarse : Floor(fine[k].start, c) = coarse[i].start
  /\ Len(fine) > 0 => Floor(fine[Len(fine)].start, c) = coarse[Len(coarse)].start

AddUp(coarse, fine, c) ==
  \A i \in DOMAIN coarse : PutTogether(coarse[i], fine, PartsOf(fine, c, coarse[i]))

\* What a tick does with the bars of a timeframe: the last goes on, or one begins.
GoesOn(others, bars, ltp, volume) ==
  /\ Len(bars) > 0 /\ Len(others) = Len(bars)
  /\ AlikeOn(others, bars, 1 .. Len(bars) - 1)
  /\ Touched(others[Len(bars)], bars[Len(bars)], ltp, volume)

Begins(others, bars, start, ltp, volume) ==
  /\ Len(others) = Len(bars) + 1
  /\ AlikeOn(others, bars, 1 .. Len(bars))
  /\ others[Len(others)].start = start
  /\ Fresh(others[Len(others)], ltp, volume)

LEMMA StartsStay ==
  ASSUME NEW bars \in Seq(BarRecords), NEW others \in Seq(BarRecords), NEW ltp, NEW volume
  PROVE  /\ GoesOn(others, bars, ltp, volume) =>
              DOMAIN others = DOMAIN bars /\ \A k \in DOMAIN bars : others[k].start = bars[k].start
         /\ \A start : Begins(others, bars, start, ltp, volume) =>
              /\ DOMAIN others = DOMAIN bars \cup {Len(bars) + 1} /\ Len(bars) + 1 \notin DOMAIN bars
              /\ \A k \in DOMAIN bars : others[k].start = bars[k].start
  <1>1. Len(bars) \in Nat /\ Len(others) \in Nat /\ DOMAIN bars = 1 .. Len(bars) /\ DOMAIN others = 1 .. Len(others)
    OBVIOUS
  <1>2. ASSUME GoesOn(others, bars, ltp, volume)
        PROVE  DOMAIN others = DOMAIN bars /\ \A k \in DOMAIN bars : others[k].start = bars[k].start
    <2>1. \A k \in DOMAIN bars : k = Len(bars) \/ k \in 1 .. Len(bars) - 1
      BY <1>1
    <2> QED BY <1>1, <1>2, <2>1 DEF GoesOn, AlikeOn, Alike, Touched
  <1>3. ASSUME NEW start, Begins(others, bars, start, ltp, volume)
        PROVE  /\ DOMAIN others = DOMAIN bars \cup {Len(bars) + 1} /\ Len(bars) + 1 \notin DOMAIN bars
               /\ \A k \in DOMAIN bars : others[k].start = bars[k].start
    BY <1>1, <1>3 DEF Begins, AlikeOn, Alike
  <1> QED BY <1>2, <1>3

LEMMA RisesOn ==
  ASSUME NEW bars \in Seq(BarRecords), NEW others \in Seq(BarRecords), NEW tf, Rises(bars, tf),
         NEW ltp, NEW volume, GoesOn(others, bars, ltp, volume)
  PROVE  Rises(others, tf)
  <1>1. DOMAIN others = DOMAIN bars /\ \A k \in DOMAIN bars : others[k].start = bars[k].start
    BY StartsStay
  <1>2. \A k \in DOMAIN others : Floor(others[k].start, tf) = others[k].start
    BY <1>1 DEF Rises
  <1>3. \A k, l \in DOMAIN others : k < l => others[k].start < others[l].start
    BY <1>1 DEF Rises
  <1> QED BY <1>2, <1>3 DEF Rises

LEMMA RisesWith ==
  ASSUME NEW bars \in Seq(BarRecords), NEW others \in Seq(BarRecords), NEW tf, Rises(bars, tf),
         NEW start \in Nat, NEW ltp, NEW volume, Begins(others, bars, start, ltp, volume),
         Floor(start, tf) = start, Len(bars) > 0 => bars[Len(bars)].start < start
  PROVE  Rises(others, tf) /\ \A k \in DOMAIN bars : bars[k].start < start
  <1>1. Len(bars) \in Nat /\ Len(others) \in Nat /\ DOMAIN bars = 1 .. Len(bars) /\ DOMAIN others = 1 .. Len(others)
    OBVIOUS
  <1>2. /\ DOMAIN others = DOMAIN bars \cup {Len(bars) + 1} /\ Len(bars) + 1 \notin DOMAIN bars
        /\ \A k \in DOMAIN bars : others[k].start = bars[k].start
        /\ others[Len(bars) + 1].start = start
    BY StartsStay DEF Begins
  <1>3. ASSUME NEW k \in DOMAIN bars PROVE bars[k].start \in Nat /\ bars[k].start < start
    <2>1. bars[k].start \in Nat /\ bars[Len(bars)].start \in Nat /\ Len(bars) \in DOMAIN bars
      BY <1>1, FieldTypes
    <2>2. k = Len(bars) \/ bars[k].start < bars[Len(bars)].start
      BY <1>1, <2>1 DEF Rises
    <2> QED BY <1>1, <2>1, <2>2
  <1>4. \A k \in DOMAIN others : Floor(others[k].start, tf) = others[k].start
    BY <1>2 DEF Rises
  <1>5. ASSUME NEW k \in DOMAIN others, NEW l \in DOMAIN others, k < l
        PROVE  others[k].start < others[l].start
    <2>1. k \in DOMAIN bars
      BY <1>1, <1>2, <1>5
    <2>2. CASE l \in DOMAIN bars
      BY <1>2, <1>5, <2>1, <2>2 DEF Rises
    <2>3. CASE l = Len(bars) + 1
      BY <1>2, <1>3, <2>1, <2>3
    <2> QED BY <1>2, <2>2, <2>3
  <1> QED BY <1>3, <1>4, <1>5 DEF Rises

\* Bars of both timeframes go on.
LEMMA BothGoOn ==
  ASSUME NEW fine \in Seq(BarRecords), NEW fine2 \in Seq(BarRecords),
         NEW coarse \in Seq(BarRecords), NEW coarse2 \in Seq(BarRecords), NEW c,
         Rises(coarse, c), Covers(coarse, fine, c), AddUp(coarse, fine, c),
         NEW ltp \in Nat, NEW volume \in Nat,
         GoesOn(fine2, fine, ltp, volume), GoesOn(coarse2, coarse, ltp, volume)
  PROVE  Covers(coarse2, fine2, c) /\ AddUp(coarse2, fine2, c)
  <1> DEFINE n == Len(fine)
             m == Len(coarse)
  <1>1. /\ n \in Nat /\ m \in Nat /\ n > 0 /\ m > 0 /\ Len(fine2) = n /\ Len(coarse2) = m
        /\ DOMAIN fine = 1 .. n /\ DOMAIN fine2 = 1 .. n /\ DOMAIN coarse = 1 .. m /\ DOMAIN coarse2 = 1 .. m
    BY DEF GoesOn
  <1>2. /\ \A k \in 1 .. n : fine2[k].start = fine[k].start
        /\ \A i \in 1 .. m : coarse2[i].start = coarse[i].start
    <2>1. \A k \in DOMAIN fine : fine2[k].start = fine[k].start
      BY StartsStay
    <2>2. \A i \in DOMAIN coarse : coarse2[i].start = coarse[i].start
      BY StartsStay
    <2> QED BY <1>1, <2>1, <2>2
  <1>3. Floor(fine[n].start, c) = coarse[m].start
    BY <1>1 DEF Covers
  <1> HIDE DEF n, m
  <1>4. Covers(coarse2, fine2, c)
    <2>1. \A k \in 1 .. n : \E i \in 1 .. m : Floor(fine[k].start, c) = coarse[i].start
      BY <1>1 DEF Covers
    <2> QED BY <1>1, <1>2, <1>3, <2>1 DEF Covers
  <1>5. ASSUME NEW i \in 1 .. m PROVE PutTogether(coarse2[i], fine2, PartsOf(fine2, c, coarse2[i]))
    <2> DEFINE parts == PartsOf(fine, c, coarse[i])
    <2>1. PartsOf(fine2, c, coarse2[i]) = parts
      BY <1>1, <1>2 DEF PartsOf
    <2>2. parts \in SUBSET DOMAIN fine /\ (n \in parts <=> coarse[m].start = coarse[i].start)
      BY <1>1, <1>3 DEF PartsOf
    <2>3. PutTogether(coarse[i], fine, parts)
      BY <1>1 DEF AddUp
    <2>4. coarse[i] \in BarRecords
      BY <1>1
    <2>5. AlikeOn(fine2, fine, parts \ {n})
      BY <1>1, <2>2 DEF GoesOn, AlikeOn, n
    <2> HIDE DEF parts
    <2>6. CASE i = m
      <3>1. Touched(coarse2[i], coarse[i], ltp, volume) /\ Touched(fine2[n], fine[n], ltp, volume)
        BY <2>6 DEF GoesOn, n, m
      <3>2. n \in parts /\ \A k \in parts : k <= n
        BY <1>1, <2>2, <2>6
      <3>3. PutTogether(coarse2[i], fine2, parts)
        BY <1>1, <2>2, <2>3, <2>4, <2>5, <3>1, <3>2, TickTogether
      <3> QED BY <2>1, <3>3
    <2>7. CASE i # m
      <3>1. coarse[i].start < coarse[m].start /\ coarse[i].start \in Nat /\ coarse[m].start \in Nat
        <4>1. coarse[i] \in BarRecords /\ coarse[m] \in BarRecords /\ i < m
          BY <1>1, <2>7
        <4>2. coarse[i].start < coarse[m].start
          BY <1>1, <4>1 DEF Rises
        <4> QED BY <4>1, <4>2, FieldTypes
      <3>2. n \notin parts
        BY <2>2, <3>1
      <3>3. parts \ {n} = parts
        BY <3>2
      <3>4. Alike(coarse2[i], coarse[i])
        <4>1. i \in 1 .. Len(coarse) - 1
          <5>1. i \in 1 .. m - 1
            BY <1>1, <2>7
          <5> QED BY <5>1 DEF m
        <4> QED BY <4>1 DEF GoesOn, AlikeOn
      <3>5. PutTogether(coarse2[i], fine2, parts)
        BY <2>3, <2>5, <3>3, <3>4, AlikeTogether
      <3> QED BY <2>1, <3>5
    <2> QED BY <2>6, <2>7
  <1> QED BY <1>1, <1>4, <1>5 DEF AddUp

\* A fine bar begins within a coarse one.
LEMMA FineBegins ==
  ASSUME NEW fine \in Seq(BarRecords), NEW fine2 \in Seq(BarRecords),
         NEW coarse \in Seq(BarRecords), NEW coarse2 \in Seq(BarRecords), NEW c,
         Rises(coarse, c), Covers(coarse, fine, c), AddUp(coarse, fine, c),
         NEW ltp \in Nat, NEW volume \in Nat, NEW start,
         Begins(fine2, fine, start, ltp, volume), GoesOn(coarse2, coarse, ltp, volume),
         Floor(start, c) = coarse[Len(coarse)].start
  PROVE  Covers(coarse2, fine2, c) /\ AddUp(coarse2, fine2, c)
  <1> DEFINE n == Len(fine) + 1
             m == Len(coarse)
  <1>1. /\ n \in Nat /\ m \in Nat /\ n > 0 /\ m > 0 /\ Len(fine2) = n /\ Len(coarse2) = m
        /\ DOMAIN fine = 1 .. n - 1 /\ DOMAIN fine2 = 1 .. n /\ DOMAIN coarse = 1 .. m /\ DOMAIN coarse2 = 1 .. m
    BY DEF GoesOn, Begins
  <1>2. /\ \A k \in 1 .. n - 1 : fine2[k].start = fine[k].start
        /\ \A i \in 1 .. m : coarse2[i].start = coarse[i].start
    <2>1. \A k \in DOMAIN fine : fine2[k].start = fine[k].start
      BY StartsStay
    <2>2. \A i \in DOMAIN coarse : coarse2[i].start = coarse[i].start
      BY StartsStay
    <2> QED BY <1>1, <2>1, <2>2
  <1>3. fine2[n].start = start /\ Fresh(fine2[n], ltp, volume) /\ Floor(start, c) = coarse[m].start
    BY <1>1 DEF Begins
  <1> HIDE DEF n, m
  <1>4. Covers(coarse2, fine2, c)
    <2>1. \A k \in 1 .. n - 1 : \E i \in 1 .. m : Floor(fine[k].start, c) = coarse[i].start
      BY <1>1 DEF Covers
    <2>2. ASSUME NEW k \in 1 .. n PROVE \E i \in 1 .. m : Floor(fine2[k].start, c) = coarse2[i].start
      <3>1. CASE k = n
        BY <1>1, <1>2, <1>3, <3>1
      <3>2. CASE k \in 1 .. n - 1
        BY <1>2, <2>1, <3>2
      <3> QED BY <1>1, <3>1, <3>2
    <2>3. Floor(fine2[Len(fine2)].start, c) = coarse2[Len(coarse2)].start
      BY <1>1, <1>2, <1>3
    <2>4. (Len(fine2) = 0 <=> Len(coarse2) = 0) /\ DOMAIN fine2 = 1 .. n /\ DOMAIN coarse2 = 1 .. m
      BY <1>1
    <2> QED BY <2>2, <2>3, <2>4 DEF Covers
  <1>5. ASSUME NEW i \in 1 .. m PROVE PutTogether(coarse2[i], fine2, PartsOf(fine2, c, coarse2[i]))
    <2> DEFINE parts == PartsOf(fine, c, coarse[i])
               all == PartsOf(fine2, c, coarse2[i])
    <2>1. /\ parts \in SUBSET DOMAIN fine /\ all \in SUBSET DOMAIN fine2
          /\ \A k \in 1 .. n - 1 : k \in all <=> k \in parts
          /\ n \in all <=> coarse[m].start = coarse[i].start
      BY <1>1, <1>2, <1>3 DEF PartsOf
    <2>3. PutTogether(coarse[i], fine, parts)
      BY <1>1 DEF AddUp
    <2>4. coarse[i] \in BarRecords
      BY <1>1
    <2>5. AlikeOn(fine2, fine, parts)
      BY <1>1, <2>1 DEF Begins, AlikeOn, n
    <2> HIDE DEF parts, all
    <2>6. CASE i = m
      <3>1. Touched(coarse2[i], coarse[i], ltp, volume)
        BY <2>6 DEF GoesOn, m
      <3>2. OneMore(parts, n, all) /\ \A k \in parts : k < n
        BY <1>1, <2>1, <2>6 DEF OneMore
      <3>3. PutTogether(coarse2[i], fine2, all)
        BY <1>1, <1>3, <2>1, <2>3, <2>4, <2>5, <3>1, <3>2, TickBeginsPart
      <3> QED BY <3>3 DEF all
    <2>7. CASE i # m
      <3>1. coarse[i].start < coarse[m].start /\ coarse[i].start \in Nat /\ coarse[m].start \in Nat
        <4>1. coarse[i] \in BarRecords /\ coarse[m] \in BarRecords /\ i < m
          BY <1>1, <2>7
        <4>2. coarse[i].start < coarse[m].start
          BY <1>1, <4>1 DEF Rises
        <4> QED BY <4>1, <4>2, FieldTypes
      <3>2. all = parts
        <4>1. n \notin all /\ all \subseteq 1 .. n /\ parts \subseteq 1 .. n - 1
          BY <1>1, <2>1, <3>1
        <4>2. \A k \in 1 .. n : k = n \/ k \in 1 .. n - 1
          BY <1>1
        <4> QED BY <2>1, <4>1, <4>2
      <3>4. Alike(coarse2[i], coarse[i])
        <4>1. i \in 1 .. Len(coarse) - 1
          <5>1. i \in 1 .. m - 1
            BY <1>1, <2>7
          <5> QED BY <5>1 DEF m
        <4> QED BY <4>1 DEF GoesOn, AlikeOn
      <3>5. PutTogether(coarse2[i], fine2, parts)
        BY <2>3, <2>5, <3>4, AlikeTogether
      <3> QED BY <3>2, <3>5 DEF all
    <2> QED BY <2>6, <2>7
  <1> QED BY <1>1, <1>4, <1>5 DEF AddUp

\* A fine and a coarse bar begin.
LEMMA BothBegin ==
  ASSUME NEW fine \in Seq(BarRecords), NEW fine2 \in Seq(BarRecords),
         NEW coarse \in Seq(BarRecords), NEW coarse2 \in Seq(BarRecords), NEW c,
         Covers(coarse, fine, c), AddUp(coarse, fine, c),
         NEW ltp \in Nat, NEW volume \in Nat, NEW start, NEW first \in Nat,
         Begins(fine2, fine, start, ltp, volume), Begins(coarse2, coarse, first, ltp, volume),
         Floor(start, c) = first, \A i \in DOMAIN coarse : coarse[i].start < first
  PROVE  Covers(coarse2, fine2, c) /\ AddUp(coarse2, fine2, c)
  <1> DEFINE n == Len(fine) + 1
             m == Len(coarse) + 1
  <1>1. /\ n \in Nat /\ m \in Nat /\ n > 0 /\ m > 0 /\ Len(fine2) = n /\ Len(coarse2) = m
        /\ DOMAIN fine = 1 .. n - 1 /\ DOMAIN fine2 = 1 .. n
        /\ DOMAIN coarse = 1 .. m - 1 /\ DOMAIN coarse2 = 1 .. m
    BY DEF Begins
  <1>2. /\ \A k \in 1 .. n - 1 : fine2[k].start = fine[k].start
        /\ \A i \in 1 .. m - 1 : coarse2[i].start = coarse[i].start
    <2>1. \A k \in DOMAIN fine : fine2[k].start = fine[k].start
      BY StartsStay
    <2>2. \A i \in DOMAIN coarse : coarse2[i].start = coarse[i].start
      BY StartsStay
    <2> QED BY <1>1, <2>1, <2>2
  <1>3. /\ fine2[n].start = start /\ Fresh(fine2[n], ltp, volume)
        /\ coarse2[m].start = first /\ Fresh(coarse2[m], ltp, volume)
    BY <1>1 DEF Begins
  <1>a. ASSUME NEW i \in 1 .. m - 1 PROVE coarse[i].start \in Nat /\ coarse[i].start # first
    <2>1. coarse[i] \in BarRecords /\ coarse[i].start < first
      BY <1>1
    <2> QED BY <2>1, FieldTypes
  <1>b. \A k \in 1 .. n - 1 : \E i \in 1 .. m - 1 : Floor(fine[k].start, c) = coarse[i].start
    BY <1>1 DEF Covers
  <1> HIDE DEF n, m
  <1>4. Covers(coarse2, fine2, c)
    <2>2. ASSUME NEW k \in 1 .. n PROVE \E i \in 1 .. m : Floor(fine2[k].start, c) = coarse2[i].start
      <3>1. CASE k = n
        BY <1>1, <1>3, <3>1
      <3>2. CASE k \in 1 .. n - 1
        <4>1. PICK i \in 1 .. m - 1 : Floor(fine[k].start, c) = coarse[i].start
          BY <1>b, <3>2
        <4> QED BY <1>1, <1>2, <3>2, <4>1
      <3> QED BY <1>1, <3>1, <3>2
    <2>3. Floor(fine2[Len(fine2)].start, c) = coarse2[Len(coarse2)].start
      BY <1>1, <1>3
    <2>4. (Len(fine2) = 0 <=> Len(coarse2) = 0) /\ DOMAIN fine2 = 1 .. n /\ DOMAIN coarse2 = 1 .. m
      BY <1>1
    <2> QED BY <2>2, <2>3, <2>4 DEF Covers
  <1>5. ASSUME NEW i \in 1 .. m PROVE PutTogether(coarse2[i], fine2, PartsOf(fine2, c, coarse2[i]))
    <2>6. CASE i = m
      <3>1. PartsOf(fine2, c, coarse2[i]) = {n}
        <4>1. \A k \in 1 .. n - 1 : Floor(fine2[k].start, c) # first
          BY <1>2, <1>a, <1>b
        <4> QED BY <1>1, <1>3, <2>6, <4>1 DEF PartsOf
      <3>2. n \in DOMAIN fine2
        BY <1>1
      <3> QED BY <1>3, <2>6, <3>1, <3>2, TickBeginsBoth
    <2>7. CASE i # m
      <3> DEFINE parts == PartsOf(fine, c, coarse[i])
      <3>1. PartsOf(fine2, c, coarse2[i]) = parts
        BY <1>1, <1>2, <1>3, <1>a, <2>7 DEF PartsOf
      <3>3. PutTogether(coarse[i], fine, parts)
        BY <1>1, <2>7 DEF AddUp
      <3>4. Alike(coarse2[i], coarse[i])
        <4>1. i \in 1 .. Len(coarse)
          <5>1. i \in 1 .. m - 1
            BY <1>1, <2>7
          <5> QED BY <5>1 DEF m
        <4> QED BY <4>1 DEF Begins, AlikeOn
      <3>5. AlikeOn(fine2, fine, parts)
        BY <1>1 DEF Begins, AlikeOn, n, PartsOf
      <3>6. PutTogether(coarse2[i], fine2, parts)
        <4> HIDE DEF parts
        <4> QED BY <3>3, <3>4, <3>5, AlikeTogether
      <3> QED BY <3>1, <3>6
    <2> QED BY <2>6, <2>7
  <1> QED BY <1>1, <1>4, <1>5 DEF AddUp

\* Being stored makes no difference.
LEMMA AllAlike ==
  ASSUME NEW fine \in Seq(BarRecords), NEW fine2 \in Seq(BarRecords),
         NEW coarse \in Seq(BarRecords), NEW coarse2 \in Seq(BarRecords), NEW c,
         Len(fine2) = Len(fine), AlikeOn(fine2, fine, DOMAIN fine),
         Len(coarse2) = Len(coarse), AlikeOn(coarse2, coarse, DOMAIN coarse),
         Covers(coarse, fine, c), AddUp(coarse, fine, c)
  PROVE  Covers(coarse2, fine2, c) /\ AddUp(coarse2, fine2, c)
  <1>1. /\ Len(fine) \in Nat /\ Len(coarse) \in Nat
        /\ DOMAIN fine = 1 .. Len(fine) /\ DOMAIN fine2 = 1 .. Len(fine)
        /\ DOMAIN coarse = 1 .. Len(coarse) /\ DOMAIN coarse2 = 1 .. Len(coarse)
    OBVIOUS
  <1>2. /\ \A k \in DOMAIN fine : fine2[k].start = fine[k].start
        /\ \A i \in DOMAIN coarse : coarse2[i].start = coarse[i].start
    BY DEF AlikeOn, Alike
  <1>3. Covers(coarse2, fine2, c)
    BY <1>1, <1>2 DEF Covers
  <1>4. ASSUME NEW i \in DOMAIN coarse PROVE PutTogether(coarse2[i], fine2, PartsOf(fine2, c, coarse2[i]))
    <2> DEFINE parts == PartsOf(fine, c, coarse[i])
    <2>1. PartsOf(fine2, c, coarse2[i]) = parts
      BY <1>1, <1>2 DEF PartsOf
    <2>2. PutTogether(coarse[i], fine, parts) /\ Alike(coarse2[i], coarse[i]) /\ AlikeOn(fine2, fine, parts)
      BY DEF AddUp, AlikeOn, PartsOf
    <2>3. PutTogether(coarse2[i], fine2, parts)
      <3> HIDE DEF parts
      <3> QED BY <2>2, AlikeTogether
    <2> QED BY <2>1, <2>3
  <1> QED BY <1>1, <1>3, <1>4 DEF AddUp

LEMMA RisesAlike ==
  ASSUME NEW bars \in Seq(BarRecords), NEW others \in Seq(BarRecords), NEW tf, Rises(bars, tf),
         Len(others) = Len(bars), AlikeOn(others, bars, DOMAIN bars)
  PROVE  Rises(others, tf)
  <1>1. DOMAIN others = DOMAIN bars /\ \A k \in DOMAIN bars : others[k].start = bars[k].start
    BY DEF AlikeOn, Alike
  <1> QED BY <1>1 DEF Rises

BarsShape ==
  /\ minute \in Nat /\ dayVolume \in Nat /\ feeding \in BOOLEAN
  /\ finished \in [Timeframes -> Seq(BarRecords)] /\ open \in [Timeframes -> Seq(BarRecords)]
  /\ \A tf \in Timeframes : /\ open[tf] = <<>> \/ Len(open[tf]) = 1
                            /\ open[tf] = <<>> /\ feeding => finished[tf] = <<>>
                            /\ ~feeding => open[tf] = <<>>

BarsInv ==
  /\ BarsShape
  /\ \A tf \in Timeframes : Rises(AllBars(tf), tf)
  /\ \A f, c \in Timeframes : f < c => Covers(AllBars(c), AllBars(f), c) /\ AddUp(AllBars(c), AllBars(f), c)

\* A bar after others.
LEMMA Attached ==
  ASSUME NEW bars \in Seq(BarRecords), NEW bar \in BarRecords
  PROVE  /\ bars \o <<bar>> \in Seq(BarRecords)
         /\ Len(bars) \in Nat /\ Len(bars \o <<bar>>) = Len(bars) + 1
         /\ (bars \o <<bar>>)[Len(bars) + 1] = bar
         /\ \A k \in 1 .. Len(bars) : (bars \o <<bar>>)[k] = bars[k]
         /\ Append(bars, bar) = bars \o <<bar>>
  OBVIOUS

LEMMA OneBar ==
  ASSUME NEW bars \in Seq(BarRecords), Len(bars) = 1
  PROVE  bars[1] \in BarRecords /\ bars = <<bars[1]>>
  OBVIOUS

LEMMA AllBarsType ==
  ASSUME BarsShape, NEW tf \in Timeframes
  PROVE  AllBars(tf) \in Seq(BarRecords) /\ (open[tf] = <<>> => AllBars(tf) = finished[tf])
  <1>1. finished[tf] \in Seq(BarRecords) /\ open[tf] \in Seq(BarRecords)
    BY DEF BarsShape
  <1>2. finished[tf] \o open[tf] \in Seq(BarRecords)
    BY <1>1, ConcatProperties
  <1>3. finished[tf] \o <<>> = finished[tf]
    BY <1>1, ConcatEmptySeq
  <1> QED BY <1>2, <1>3 DEF AllBars

LEMMA LaterBar ==
  ASSUME NEW bar \in BarRecords, NEW ltp \in Ltps, NEW volume \in Nat
  PROVE  ApplyTick(bar, ltp, volume) \in BarRecords /\ Touched(ApplyTick(bar, ltp, volume), bar, ltp, volume)
  <1>1. Larger(bar.high, ltp) \in Ltps /\ Lower(bar.low, ltp) \in Ltps
    BY DEF Larger, Lower, BarRecords
  <1>2. bar.volume + volume \in Nat /\ bar.ticks + 1 \in Nat
    BY DEF BarRecords
  <1> QED BY <1>1, <1>2 DEF ApplyTick, BarRecords, Touched

LEMMA FreshBar ==
  ASSUME NEW t \in Nat, NEW tf \in Timeframes, NEW ltp \in Ltps, NEW volume \in Nat
  PROVE  LET b == ApplyTick(CreateState(t, tf, ltp), ltp, volume)
         IN b \in BarRecords /\ b.start = Floor(t, tf) /\ Fresh(b, ltp, volume)
  <1>1. tf \in Nat \ {0} /\ ltp \in Nat
    BY BarsAssumption
  <1>2. Floor(t, tf) \in Nat
    BY <1>1, FloorBounds
  <1>3. Larger(ltp, ltp) = ltp /\ Lower(ltp, ltp) = ltp
    BY <1>1 DEF Larger, Lower
  <1> DEFINE first == CreateState(t, tf, ltp)
             b == ApplyTick(first, ltp, volume)
  <1>4. /\ first \in BarRecords /\ first.start = Floor(t, tf) /\ first.open = ltp /\ first.high = ltp
        /\ first.low = ltp /\ first.volume = 0 /\ first.ticks = 0
    BY <1>2 DEF CreateState, BarRecords
  <1> HIDE DEF first
  <1>5. b \in BarRecords /\ Touched(b, first, ltp, volume)
    BY <1>4, LaterBar
  <1>6. b.start = Floor(t, tf) /\ Fresh(b, ltp, volume)
    BY <1>3, <1>4, <1>5 DEF Touched, Fresh
  <1> QED BY <1>5, <1>6 DEF first

LEMMA StoredBar ==
  ASSUME NEW bar \in BarRecords, NEW stores \in BOOLEAN
  PROVE  [bar EXCEPT !.stored = stores] \in BarRecords /\ Alike([bar EXCEPT !.stored = stores], bar)
  BY DEF BarRecords, Alike

\* What a tick does with a timeframe.
LEMMA TickBars ==
  ASSUME BarsShape, NEW t, NEW ltp \in Ltps, NEW stores \in BOOLEAN, OnTick(t, ltp, stores), feeding,
         NEW tf \in Timeframes
  PROVE  /\ t \in Nat /\ BarsShape' /\ AllBars(tf)' \in Seq(BarRecords)
         /\ Len(AllBars(tf)) = 0 \/ t >= AllBars(tf)[Len(AllBars(tf))].start + tf
              => Begins(AllBars(tf)', AllBars(tf), Floor(t, tf), ltp, dayVolume)
         /\ ~(Len(AllBars(tf)) = 0 \/ t >= AllBars(tf)[Len(AllBars(tf))].start + tf)
              => GoesOn(AllBars(tf)', AllBars(tf), ltp, dayVolume)
  <1>1. t \in Nat /\ dayVolume \in Nat
    BY DEF OnTick, BarsShape
  <1> DEFINE old(x) == IF open[x] = <<>> \/ Over(x, t) THEN CreateState(t, x, ltp) ELSE open[x][1]
             new(x) == ApplyTick(old(x), ltp, dayVolume)
  <1>2. /\ open' = [x \in Timeframes |-> <<new(x)>>]
        /\ finished' = [x \in Timeframes |->
                          IF Over(x, t) THEN Append(finished[x], [open[x][1] EXCEPT !.stored = stores]) ELSE finished[x]]
        /\ UNCHANGED <<minute, dayVolume, feeding>>
    BY DEF OnTick, Finalise
  <1>3. ASSUME NEW x \in Timeframes
        PROVE  /\ finished[x] \in Seq(BarRecords)
               /\ open[x] # <<>> => open[x] = <<open[x][1]>> /\ open[x][1] \in BarRecords
               /\ new(x) \in BarRecords
               /\ open[x] = <<>> \/ Over(x, t) => new(x).start = Floor(t, x) /\ Fresh(new(x), ltp, dayVolume)
               /\ ~(open[x] = <<>> \/ Over(x, t)) => Touched(new(x), open[x][1], ltp, dayVolume)
    <2>1. finished[x] \in Seq(BarRecords) /\ open[x] \in Seq(BarRecords) /\ (open[x] = <<>> \/ Len(open[x]) = 1)
      BY DEF BarsShape
    <2>2. open[x] # <<>> => open[x] = <<open[x][1]>> /\ open[x][1] \in BarRecords
      BY <2>1, OneBar
    <2>3. CASE open[x] = <<>> \/ Over(x, t)
      <3>1. new(x) = ApplyTick(CreateState(t, x, ltp), ltp, dayVolume)
        BY <2>3
      <3> QED BY <1>1, <2>1, <2>2, <2>3, <3>1, FreshBar
    <2>4. CASE ~(open[x] = <<>> \/ Over(x, t))
      <3>1. new(x) = ApplyTick(open[x][1], ltp, dayVolume)
        BY <2>4
      <3> QED BY <1>1, <2>1, <2>2, <2>4, <3>1, LaterBar
    <2> QED BY <2>3, <2>4
  <1> HIDE DEF new
  <1>4. ASSUME NEW x \in Timeframes
        PROVE  /\ finished'[x] \in Seq(BarRecords) /\ open'[x] = <<new(x)>> /\ open'[x] \in Seq(BarRecords)
               /\ Len(open'[x]) = 1 /\ open'[x] # <<>>
    <2>1. open'[x] = <<new(x)>>
      BY <1>2
    <2>2. finished'[x] \in Seq(BarRecords)
      <3>1. CASE Over(x, t)
        <4>1. open[x][1] \in BarRecords
          BY <1>3, <3>1 DEF Over
        <4>2. [open[x][1] EXCEPT !.stored = stores] \in BarRecords
          BY <4>1, StoredBar
        <4> QED BY <1>2, <1>3, <3>1, <4>2
      <3>2. CASE ~Over(x, t)
        BY <1>2, <1>3, <3>2
      <3> QED BY <3>1, <3>2
    <2> QED BY <1>3, <2>1, <2>2
  <1>5. BarsShape'
    <2>1. finished' \in [Timeframes -> Seq(BarRecords)] /\ open' \in [Timeframes -> Seq(BarRecords)]
      <3>1. DOMAIN finished' = Timeframes /\ DOMAIN open' = Timeframes
            /\ finished' = [x \in Timeframes |-> finished'[x]] /\ open' = [x \in Timeframes |-> open'[x]]
        BY <1>2
      <3> QED BY <1>4, <3>1
    <2> QED BY <1>2, <1>4, <2>1 DEF BarsShape
  <1>6. AllBars(tf)' = finished'[tf] \o <<new(tf)>> /\ AllBars(tf)' \in Seq(BarRecords)
    <2>1. AllBars(tf)' = finished'[tf] \o open'[tf]
      BY DEF AllBars
    <2>2. finished'[tf] \in Seq(BarRecords) /\ new(tf) \in BarRecords /\ open'[tf] = <<new(tf)>>
      BY <1>3, <1>4
    <2>3. finished'[tf] \o <<new(tf)>> \in Seq(BarRecords)
      BY <2>2, Attached
    <2> QED BY <2>1, <2>2, <2>3
  <1>7. CASE open[tf] = <<>>
    <2>1. finished[tf] = <<>> /\ ~Over(tf, t)
      BY <1>7 DEF BarsShape, Over
    <2>2. finished'[tf] = <<>>
      BY <1>2, <2>1
    <2>3. AllBars(tf) = <<>> /\ Len(AllBars(tf)) = 0
      BY <1>7, <2>1 DEF AllBars
    <2>4. Len(AllBars(tf)') = 1 /\ AllBars(tf)'[1] = new(tf)
      BY <1>3, <1>6, <2>2
    <2>5. Begins(AllBars(tf)', AllBars(tf), Floor(t, tf), ltp, dayVolume)
      BY <1>3, <1>7, <2>3, <2>4 DEF Begins, AlikeOn
    <2> QED BY <1>1, <1>5, <1>6, <2>3, <2>5
  <1>8. CASE open[tf] # <<>>
    <2> DEFINE b == open[tf][1]
               done == finished[tf]
    <2>1. done \in Seq(BarRecords) /\ b \in BarRecords /\ AllBars(tf) = done \o <<b>>
      BY <1>3, <1>8 DEF AllBars
    <2>2. Over(tf, t) <=> t >= b.start + tf
      BY <1>8 DEF Over, IsComplete
    <2> HIDE DEF b, done
    <2>3. /\ Len(done) \in Nat /\ Len(AllBars(tf)) = Len(done) + 1 /\ AllBars(tf)[Len(done) + 1] = b
          /\ \A k \in 1 .. Len(done) : AllBars(tf)[k] = done[k]
      BY <2>1, Attached
    <2>4. CASE Over(tf, t)
      <3> DEFINE kept == [b EXCEPT !.stored = stores]
      <3>1. kept \in BarRecords /\ Alike(kept, b)
        BY <2>1, StoredBar
      <3>2. finished'[tf] = Append(done, kept)
        BY <1>2, <2>4 DEF b, done
      <3> HIDE DEF kept
      <3>3. /\ finished'[tf] \in Seq(BarRecords) /\ Len(finished'[tf]) = Len(done) + 1
            /\ finished'[tf][Len(done) + 1] = kept /\ \A k \in 1 .. Len(done) : finished'[tf][k] = done[k]
        BY <2>1, <3>1, <3>2, Attached
      <3>4. /\ Len(AllBars(tf)') = Len(done) + 2 /\ AllBars(tf)'[Len(done) + 2] = new(tf)
            /\ \A k \in 1 .. Len(done) + 1 : AllBars(tf)'[k] = finished'[tf][k]
        <4> DEFINE f == finished'[tf]
        <4>1. f \in Seq(BarRecords) /\ new(tf) \in BarRecords /\ Len(f) = Len(done) + 1
          BY <1>3, <3>3
        <4>2. AllBars(tf)' = f \o <<new(tf)>>
          BY <1>6
        <4> HIDE DEF f
        <4>3. /\ Len(AllBars(tf)') = Len(f) + 1 /\ AllBars(tf)'[Len(f) + 1] = new(tf)
              /\ \A k \in 1 .. Len(f) : AllBars(tf)'[k] = f[k]
          BY <4>1, <4>2, Attached
        <4> QED BY <2>3, <4>1, <4>3 DEF f
      <3>5. AlikeOn(AllBars(tf)', AllBars(tf), 1 .. Len(AllBars(tf)))
        <4>1. ASSUME NEW k \in 1 .. Len(AllBars(tf)) PROVE Alike(AllBars(tf)'[k], AllBars(tf)[k])
          <5>1. CASE k = Len(done) + 1
            BY <2>3, <3>1, <3>3, <3>4, <5>1
          <5>2. CASE k \in 1 .. Len(done)
            BY <2>3, <3>3, <3>4, <5>2 DEF Alike
          <5> QED BY <2>3, <5>1, <5>2
        <4> QED BY <4>1 DEF AlikeOn
      <3>6. Begins(AllBars(tf)', AllBars(tf), Floor(t, tf), ltp, dayVolume)
        BY <1>3, <2>3, <2>4, <3>4, <3>5 DEF Begins
      <3> QED BY <1>1, <1>5, <1>6, <2>2, <2>3, <2>4, <3>6
    <2>5. CASE ~Over(tf, t)
      <3>1. finished'[tf] = done /\ Touched(new(tf), b, ltp, dayVolume)
        BY <1>2, <1>3, <1>8, <2>5 DEF b, done
      <3>2. /\ Len(AllBars(tf)') = Len(done) + 1 /\ AllBars(tf)'[Len(done) + 1] = new(tf)
            /\ \A k \in 1 .. Len(done) : AllBars(tf)'[k] = done[k]
        BY <1>3, <1>6, <2>1, <3>1, Attached
      <3>3. GoesOn(AllBars(tf)', AllBars(tf), ltp, dayVolume)
        BY <2>3, <3>1, <3>2 DEF GoesOn, AlikeOn, Alike
      <3> QED BY <1>1, <1>5, <1>6, <2>2, <2>3, <2>5, <3>3
    <2> QED BY <2>4, <2>5
  <1> QED BY <1>7, <1>8

\* One timeframe after a tick.
LEMMA TickRises ==
  ASSUME NEW bars \in Seq(BarRecords), NEW others \in Seq(BarRecords), NEW tf \in Timeframes,
         Rises(bars, tf), NEW t \in Nat, NEW ltp, NEW volume,
         Len(bars) = 0 \/ t >= bars[Len(bars)].start + tf => Begins(others, bars, Floor(t, tf), ltp, volume),
         ~(Len(bars) = 0 \/ t >= bars[Len(bars)].start + tf) => GoesOn(others, bars, ltp, volume)
  PROVE  /\ Rises(others, tf)
         /\ Len(bars) = 0 \/ t >= bars[Len(bars)].start + tf
              => \A k \in DOMAIN bars : bars[k].start < Floor(t, tf)
  <1>1. tf \in Nat \ {0} /\ tf % tf = 0
    BY BarsAssumption
  <1>2. Floor(t, tf) \in Nat /\ t < Floor(t, tf) + tf /\ Floor(Floor(t, tf), tf) = Floor(t, tf)
    BY <1>1, FloorBounds, FloorTwice
  <1>3. CASE Len(bars) = 0 \/ t >= bars[Len(bars)].start + tf
    <2>1. Len(bars) > 0 => bars[Len(bars)].start < Floor(t, tf)
      <3>1. Len(bars) > 0 => bars[Len(bars)] \in BarRecords
        OBVIOUS
      <3>2. Len(bars) > 0 => bars[Len(bars)].start \in Nat
        BY <3>1, FieldTypes
      <3> QED BY <1>1, <1>2, <1>3, <3>2
    <2>2. Begins(others, bars, Floor(t, tf), ltp, volume)
      BY <1>3
    <2>3. Rises(others, tf) /\ \A k \in DOMAIN bars : bars[k].start < Floor(t, tf)
      BY <1>2, <2>1, <2>2, RisesWith
    <2> QED BY <2>3
  <1>4. CASE ~(Len(bars) = 0 \/ t >= bars[Len(bars)].start + tf)
    BY <1>4, RisesOn
  <1> QED BY <1>3, <1>4

\* Two timeframes after a tick: if a bar of the shorter one goes on, so does
\* that of the longer one around it.
LEMMA TickAddsUp ==
  ASSUME NEW fine \in Seq(BarRecords), NEW fine2 \in Seq(BarRecords),
         NEW coarse \in Seq(BarRecords), NEW coarse2 \in Seq(BarRecords),
         NEW f \in Timeframes, NEW c \in Timeframes, f < c, Rises(fine, f), Rises(coarse, c),
         Covers(coarse, fine, c), AddUp(coarse, fine, c),
         NEW t \in Nat, NEW ltp \in Nat, NEW volume \in Nat,
         Len(fine) = 0 \/ t >= fine[Len(fine)].start + f => Begins(fine2, fine, Floor(t, f), ltp, volume),
         ~(Len(fine) = 0 \/ t >= fine[Len(fine)].start + f) => GoesOn(fine2, fine, ltp, volume),
         Len(coarse) = 0 \/ t >= coarse[Len(coarse)].start + c => Begins(coarse2, coarse, Floor(t, c), ltp, volume),
         ~(Len(coarse) = 0 \/ t >= coarse[Len(coarse)].start + c) => GoesOn(coarse2, coarse, ltp, volume)
  PROVE  Covers(coarse2, fine2, c) /\ AddUp(coarse2, fine2, c)
  <1> DEFINE begins == Len(fine) = 0 \/ t >= fine[Len(fine)].start + f
             starts == Len(coarse) = 0 \/ t >= coarse[Len(coarse)].start + c
             s == fine[Len(fine)].start
             l == coarse[Len(coarse)].start
  <1>1. f \in Nat \ {0} /\ c \in Nat \ {0} /\ c % f = 0 /\ c % c = 0
    BY BarsAssumption
  <1>2. Floor(Floor(t, f), c) = Floor(t, c) /\ Floor(t, c) \in Nat
    BY <1>1, FloorTwice, FloorBounds
  <1>3. Len(fine) \in Nat /\ Len(coarse) \in Nat /\ (Len(fine) = 0 <=> Len(coarse) = 0)
    BY DEF Covers
  <1>4. ASSUME Len(fine) > 0
        PROVE  /\ s \in Nat /\ l \in Nat /\ Floor(s, f) = s /\ Floor(l, c) = l /\ Floor(s, c) = l
               /\ l <= s /\ s + f <= l + c
    <2>1. Len(fine) \in DOMAIN fine /\ Len(coarse) \in DOMAIN coarse
      BY <1>3, <1>4
    <2>2. s \in Nat /\ l \in Nat
      BY <2>1, FieldTypes
    <2>3. Floor(s, f) = s /\ Floor(l, c) = l /\ Floor(s, c) = l
      BY <1>4, <2>1 DEF Rises, Covers
    <2> HIDE DEF s, l
    <2>4. l <= s
      BY <1>1, <2>2, <2>3, FloorBounds
    <2>5. s + f <= l + c
      BY <1>1, <2>2, <2>3, FloorTogether
    <2> QED BY <2>2, <2>3, <2>4, <2>5
  <1>5. CASE ~begins
    <2>1. ~starts
      <3>1. Len(fine) > 0 /\ t < s + f
        <4>1. Len(fine) > 0 /\ ~(t >= s + f)
          BY <1>3, <1>5
        <4>2. s \in Nat
          BY <1>4, <4>1
        <4> HIDE DEF s
        <4> QED BY <1>1, <4>1, <4>2
      <3>2. Len(coarse) # 0 /\ s \in Nat /\ l \in Nat /\ s + f <= l + c
        BY <1>3, <1>4, <3>1
      <3> HIDE DEF s, l
      <3>3. ~(t >= l + c)
        BY <1>1, <3>1, <3>2
      <3> QED BY <3>2, <3>3 DEF l
    <2>2. GoesOn(fine2, fine, ltp, volume) /\ GoesOn(coarse2, coarse, ltp, volume)
      BY <1>5, <2>1
    <2> QED BY <2>2, BothGoOn
  <1>6. CASE begins /\ ~starts
    <2>1. Begins(fine2, fine, Floor(t, f), ltp, volume) /\ GoesOn(coarse2, coarse, ltp, volume)
      BY <1>6
    <2>2. Floor(Floor(t, f), c) = coarse[Len(coarse)].start
      <3>1. Len(fine) > 0 /\ ~(t >= l + c) /\ t >= s + f
        BY <1>3, <1>6
      <3>2. s \in Nat /\ l \in Nat /\ Floor(l, c) = l /\ l <= s
        BY <1>4, <3>1
      <3> HIDE DEF s, l
      <3>3. l <= t /\ t < l + c
        BY <1>1, <3>1, <3>2
      <3>4. Floor(t, c) = l
        BY <1>1, <3>2, <3>3, FloorSame
      <3> QED BY <1>2, <3>4 DEF l
    <2> DEFINE start == Floor(t, f)
    <2>3. Begins(fine2, fine, start, ltp, volume) /\ Floor(start, c) = coarse[Len(coarse)].start
      BY <2>1, <2>2
    <2> HIDE DEF start
    <2> QED BY <2>1, <2>3, FineBegins
  <1>7. CASE begins /\ starts
    <2> DEFINE start == Floor(t, f)
               first == Floor(t, c)
    <2>1. Begins(fine2, fine, start, ltp, volume) /\ Begins(coarse2, coarse, first, ltp, volume)
      BY <1>7
    <2>2. Floor(start, c) = first /\ first \in Nat
      BY <1>2
    <2>3. \A i \in DOMAIN coarse : coarse[i].start < first
      BY <1>7, TickRises
    <2> HIDE DEF start, first
    <2> QED BY <2>1, <2>2, <2>3, BothBegin
  <1> QED BY <1>5, <1>6, <1>7

LEMMA BarsInvInit ==
  BarsInit => BarsInv
  <1> SUFFICES ASSUME BarsInit PROVE BarsInv
    OBVIOUS
  <1>1. BarsShape
    BY DEF BarsInit, BarsShape
  <1>2. ASSUME NEW tf \in Timeframes PROVE AllBars(tf) = <<>>
    BY <1>2 DEF BarsInit, AllBars
  <1> QED BY <1>1, <1>2 DEF BarsInv, Rises, Covers, AddUp

\* Stopping publishes the bars under construction as they are.
LEMMA StopBars ==
  ASSUME BarsShape, NEW stores \in BOOLEAN, StopBuilder(stores), NEW tf \in Timeframes
  PROVE  /\ finished'[tf] \in Seq(BarRecords) /\ open'[tf] = <<>> /\ AllBars(tf)' = finished'[tf]
         /\ AllBars(tf)' \in Seq(BarRecords) /\ Len(AllBars(tf)') = Len(AllBars(tf))
         /\ AlikeOn(AllBars(tf)', AllBars(tf), DOMAIN AllBars(tf))
  <1>1. finished[tf] \in Seq(BarRecords) /\ open[tf] \in Seq(BarRecords) /\ (open[tf] = <<>> \/ Len(open[tf]) = 1)
    BY DEF BarsShape
  <1>2. /\ open'[tf] = <<>>
        /\ finished'[tf] = IF open[tf] # <<>> THEN Append(finished[tf], [open[tf][1] EXCEPT !.stored = stores])
                           ELSE finished[tf]
    BY DEF StopBuilder, Finalise
  <1>3. CASE open[tf] = <<>>
    <2>1. AllBars(tf)' = finished[tf] /\ AllBars(tf) = finished[tf]
      <3>1. finished[tf] \o <<>> = finished[tf]
        BY <1>1, ConcatEmptySeq
      <3> QED BY <1>2, <1>3, <3>1 DEF AllBars
    <2> QED BY <1>1, <1>2, <1>3, <2>1 DEF AlikeOn, Alike
  <1>4. CASE open[tf] # <<>>
    <2> DEFINE b == open[tf][1]
               done == finished[tf]
               kept == [b EXCEPT !.stored = stores]
    <2>1. open[tf] = <<b>> /\ b \in BarRecords /\ done \in Seq(BarRecords)
      BY <1>1, <1>4, OneBar
    <2>2. kept \in BarRecords /\ Alike(kept, b)
      BY <2>1, StoredBar
    <2>3. finished'[tf] = Append(done, kept) /\ AllBars(tf) = done \o <<b>>
      BY <1>2, <1>4, <2>1 DEF AllBars
    <2> HIDE DEF b, done, kept
    <2>4. /\ Len(done) \in Nat /\ Len(AllBars(tf)) = Len(done) + 1 /\ AllBars(tf)[Len(done) + 1] = b
          /\ \A k \in 1 .. Len(done) : AllBars(tf)[k] = done[k]
      BY <2>1, <2>3, Attached
    <2>5. /\ finished'[tf] \in Seq(BarRecords) /\ Len(finished'[tf]) = Len(done) + 1
          /\ finished'[tf][Len(done) + 1] = kept
          /\ \A k \in 1 .. Len(done) : finished'[tf][k] = done[k]
      BY <2>1, <2>2, <2>3, Attached
    <2>6. AllBars(tf)' = finished'[tf]
      <3>1. finished'[tf] \o <<>> = finished'[tf]
        BY <2>5, ConcatEmptySeq
      <3> QED BY <1>2, <3>1 DEF AllBars
    <2>7. AlikeOn(AllBars(tf)', AllBars(tf), DOMAIN AllBars(tf))
      <3>1. ASSUME NEW k \in DOMAIN AllBars(tf) PROVE Alike(AllBars(tf)'[k], AllBars(tf)[k])
        <4>0. AllBars(tf) \in Seq(BarRecords) /\ DOMAIN AllBars(tf) = 1 .. Len(done) + 1
          BY <2>4, AllBarsType
        <4>1. CASE k = Len(done) + 1
          BY <2>2, <2>4, <2>5, <2>6, <4>1
        <4>2. CASE k \in 1 .. Len(done)
          BY <2>4, <2>5, <2>6, <4>2 DEF Alike
        <4> QED BY <2>4, <4>0, <4>1, <4>2
      <3> QED BY <3>1 DEF AlikeOn
    <2> QED BY <1>2, <2>4, <2>5, <2>6, <2>7
  <1> QED BY <1>3, <1>4

LEMMA BarsInvNext ==
  BarsInv /\ [BarsNext]_barVars => BarsInv'
  <1> SUFFICES ASSUME BarsInv, [BarsNext]_barVars PROVE BarsInv'
    OBVIOUS
  <1>0. BarsShape /\ \A tf \in Timeframes : AllBars(tf) \in Seq(BarRecords)
    BY AllBarsType DEF BarsInv
  <1>1. ASSUME UNCHANGED <<open, finished>>, minute' \in Nat, dayVolume' \in Nat, feeding' = feeding
        PROVE  BarsInv'
    <2>1. \A tf \in Timeframes : AllBars(tf)' = AllBars(tf)
      BY <1>1 DEF AllBars
    <2>2. BarsShape'
      BY <1>0, <1>1 DEF BarsShape
    <2> QED BY <2>1, <2>2 DEF BarsInv
  <1>2. CASE UNCHANGED barVars
    BY <1>0, <1>1, <1>2 DEF barVars, BarsShape
  <1>3. CASE Trade
    BY <1>0, <1>1, <1>3 DEF Trade, BarsShape
  <1>4. CASE MinutePasses
    BY <1>0, <1>1, <1>4 DEF MinutePasses, BarsShape
  <1>5. ASSUME NEW t, NEW ltp \in Ltps, NEW stores \in BOOLEAN, OnTick(t, ltp, stores)
        PROVE  BarsInv'
    <2>1. CASE ~feeding
      BY <1>0, <1>1, <1>5, <2>1 DEF OnTick, BarsShape
    <2>2. CASE feeding
      <3>1. ASSUME NEW tf \in Timeframes
            PROVE  /\ t \in Nat /\ BarsShape' /\ AllBars(tf)' \in Seq(BarRecords)
                   /\ Len(AllBars(tf)) = 0 \/ t >= AllBars(tf)[Len(AllBars(tf))].start + tf
                        => Begins(AllBars(tf)', AllBars(tf), Floor(t, tf), ltp, dayVolume)
                   /\ ~(Len(AllBars(tf)) = 0 \/ t >= AllBars(tf)[Len(AllBars(tf))].start + tf)
                        => GoesOn(AllBars(tf)', AllBars(tf), ltp, dayVolume)
        BY <1>0, <1>5, <2>2, TickBars
      <3>2. BarsShape'
        <4>1. CASE Timeframes = {}
          BY <1>0, <1>5, <2>2, <4>1 DEF BarsShape, OnTick, Finalise
        <4>2. CASE Timeframes # {}
          BY <3>1, <4>2
        <4> QED BY <4>1, <4>2
      <3>3. dayVolume \in Nat /\ ltp \in Nat
        BY <1>0, BarsAssumption DEF BarsShape
      <3>4. ASSUME NEW tf \in Timeframes PROVE Rises(AllBars(tf)', tf)
        <4> DEFINE bars == AllBars(tf)
                   others == AllBars(tf)'
        <4>1. /\ bars \in Seq(BarRecords) /\ others \in Seq(BarRecords) /\ Rises(bars, tf) /\ t \in Nat
              /\ Len(bars) = 0 \/ t >= bars[Len(bars)].start + tf => Begins(others, bars, Floor(t, tf), ltp, dayVolume)
              /\ ~(Len(bars) = 0 \/ t >= bars[Len(bars)].start + tf) => GoesOn(others, bars, ltp, dayVolume)
          BY <1>0, <3>1 DEF BarsInv
        <4>2. Rises(others, tf)
          <5> HIDE DEF bars, others
          <5> QED BY <4>1, TickRises
        <4> QED BY <4>2
      <3>5. ASSUME NEW f \in Timeframes, NEW c \in Timeframes, f < c
            PROVE  Covers(AllBars(c)', AllBars(f)', c) /\ AddUp(AllBars(c)', AllBars(f)', c)
        <4> DEFINE fine == AllBars(f)
                   fine2 == AllBars(f)'
                   coarse == AllBars(c)
                   coarse2 == AllBars(c)'
        <4>1. /\ fine \in Seq(BarRecords) /\ fine2 \in Seq(BarRecords) /\ Rises(fine, f) /\ t \in Nat
              /\ Len(fine) = 0 \/ t >= fine[Len(fine)].start + f => Begins(fine2, fine, Floor(t, f), ltp, dayVolume)
              /\ ~(Len(fine) = 0 \/ t >= fine[Len(fine)].start + f) => GoesOn(fine2, fine, ltp, dayVolume)
          BY <1>0, <3>1 DEF BarsInv
        <4>2. /\ coarse \in Seq(BarRecords) /\ coarse2 \in Seq(BarRecords) /\ Rises(coarse, c)
              /\ Len(coarse) = 0 \/ t >= coarse[Len(coarse)].start + c => Begins(coarse2, coarse, Floor(t, c), ltp, dayVolume)
              /\ ~(Len(coarse) = 0 \/ t >= coarse[Len(coarse)].start + c) => GoesOn(coarse2, coarse, ltp, dayVolume)
          BY <1>0, <3>1 DEF BarsInv
        <4>3. Covers(coarse, fine, c) /\ AddUp(coarse, fine, c)
          BY <3>5 DEF BarsInv
        <4>4. Covers(coarse2, fine2, c) /\ AddUp(coarse2, fine2, c)
          <5> HIDE DEF fine, fine2, coarse, coarse2
          <5> QED BY <3>3, <3>5, <4>1, <4>2, <4>3, TickAddsUp
        <4> QED BY <4>4
      <3> QED BY <3>2, <3>4, <3>5 DEF BarsInv
    <2> QED BY <1>0, <2>1, <2>2 DEF BarsShape
  <1>6. ASSUME NEW stores \in BOOLEAN, StopBuilder(stores) PROVE BarsInv'
    <2>1. ASSUME NEW tf \in Timeframes
          PROVE  /\ finished'[tf] \in Seq(BarRecords) /\ open'[tf] = <<>> /\ AllBars(tf)' = finished'[tf]
                 /\ AllBars(tf)' \in Seq(BarRecords) /\ Len(AllBars(tf)') = Len(AllBars(tf))
                 /\ AlikeOn(AllBars(tf)', AllBars(tf), DOMAIN AllBars(tf))
      BY <1>0, <1>6, StopBars
    <2>2. BarsShape'
      <3>1. finished' \in [Timeframes -> Seq(BarRecords)] /\ open' \in [Timeframes -> Seq(BarRecords)]
        <4>1. /\ finished' = [tf \in Timeframes |-> finished'[tf]]
              /\ open' = [tf \in Timeframes |-> <<>>]
          BY <1>6 DEF StopBuilder, Finalise
        <4>2. <<>> \in Seq(BarRecords)
          OBVIOUS
        <4> QED BY <2>1, <4>1, <4>2
      <3>2. feeding' = FALSE /\ UNCHANGED <<minute, dayVolume>>
        BY <1>6 DEF StopBuilder
      <3> QED BY <1>0, <2>1, <3>1, <3>2 DEF BarsShape
    <2>3. ASSUME NEW tf \in Timeframes PROVE Rises(AllBars(tf)', tf)
      <3>1. AllBars(tf) \in Seq(BarRecords) /\ Rises(AllBars(tf), tf)
        BY <1>0 DEF BarsInv
      <3> QED BY <2>1, <3>1, RisesAlike
    <2>4. ASSUME NEW f \in Timeframes, NEW c \in Timeframes, f < c
          PROVE  Covers(AllBars(c)', AllBars(f)', c) /\ AddUp(AllBars(c)', AllBars(f)', c)
      <3>1. /\ AllBars(f) \in Seq(BarRecords) /\ AllBars(c) \in Seq(BarRecords)
            /\ Covers(AllBars(c), AllBars(f), c) /\ AddUp(AllBars(c), AllBars(f), c)
        BY <1>0, <2>4 DEF BarsInv
      <3> QED BY <2>1, <3>1, AllAlike
    <2> QED BY <2>2, <2>3, <2>4 DEF BarsInv
  <1> QED BY <1>2, <1>3, <1>4, <1>5, <1>6 DEF BarsNext

\* However ticks are late or skip minutes, and whenever trading stops: the bar of a longer timeframe
\* is the bars of each shorter one within it put together (bar_builder.py).
THEOREM BarsAgree == BarsSpec => []CoarseBarsAggregateFineBars
  <1>1. BarsInv => CoarseBarsAggregateFineBars
    BY DEF BarsInv, AddUp, CoarseBarsAggregateFineBars
  <1> QED BY <1>1, BarsInvInit, BarsInvNext, PTL DEF BarsSpec

\* The published bars and the one under construction never overlap: each begins with a period, and
\* after the one before, although ticks come a minute late.
THEOREM BarsInOrder == BarsSpec => [](\A tf \in Timeframes : Rises(AllBars(tf), tf))
  <1>1. BarsInv => \A tf \in Timeframes : Rises(AllBars(tf), tf)
    BY DEF BarsInv
  <1> QED BY <1>1, BarsInvInit, BarsInvNext, PTL DEF BarsSpec

-----------------------------------------------------------------------------
\* A bar that has had a tick.
Sound(b) == b.low <= b.close /\ b.close <= b.high /\ b.ticks > 0
SoundBars(bars) == \A k \in DOMAIN bars : Sound(bars[k])

LEMMA SoundAfter ==
  ASSUME NEW b, NEW bar \in BarRecords, NEW ltp \in Ltps, NEW volume
  PROVE  /\ Touched(b, bar, ltp, volume) => Sound(b)
         /\ Fresh(b, ltp, volume) => Sound(b)
         /\ Alike(bar, b) /\ Sound(bar) => Sound(b)
         /\ Alike(b, bar) /\ Sound(bar) => Sound(b)
  <1>1. ltp \in Nat /\ bar.high \in Nat /\ bar.low \in Nat /\ bar.ticks \in Nat
    BY FieldTypes, BarsAssumption
  <1>2. Touched(b, bar, ltp, volume) => Sound(b)
    BY <1>1 DEF Touched, Sound, Larger, Lower
  <1>3. Fresh(b, ltp, volume) => Sound(b)
    BY <1>1 DEF Fresh, Sound
  <1> QED BY <1>2, <1>3 DEF Alike, Sound

\* A tick keeps the bars of a timeframe sound, and so does publishing them.
LEMMA SoundOn ==
  ASSUME NEW bars \in Seq(BarRecords), NEW others \in Seq(BarRecords), NEW start, NEW ltp \in Ltps, NEW volume,
         SoundBars(bars),
         \/ Begins(others, bars, start, ltp, volume)
         \/ GoesOn(others, bars, ltp, volume)
         \/ Len(others) = Len(bars) /\ AlikeOn(others, bars, DOMAIN bars)
  PROVE  SoundBars(others)
  <1> SUFFICES ASSUME NEW k \in DOMAIN others PROVE Sound(others[k])
    BY DEF SoundBars
  <1>1. k \in 1 .. Len(others) /\ Len(others) \in Nat /\ Len(bars) \in Nat
    OBVIOUS
  <1>2. ASSUME k \in 1 .. Len(bars), Alike(others[k], bars[k]) PROVE Sound(others[k])
    <2>1. bars[k] \in BarRecords /\ Sound(bars[k])
      BY <1>2 DEF SoundBars
    <2> QED BY <1>2, <2>1, SoundAfter
  <1>3. CASE Begins(others, bars, start, ltp, volume)
    <2>1. CASE k = Len(others)
      BY <1>3, <2>1, BarsAssumption DEF Begins, Fresh, Sound
    <2>2. CASE k # Len(others)
      BY <1>1, <1>2, <1>3, <2>2 DEF Begins, AlikeOn
    <2> QED BY <2>1, <2>2
  <1>4. CASE GoesOn(others, bars, ltp, volume)
    <2>1. CASE k = Len(bars)
      <3>1. bars[k] \in BarRecords /\ Touched(others[k], bars[k], ltp, volume)
        BY <1>1, <1>4, <2>1 DEF GoesOn
      <3> QED BY <3>1, SoundAfter
    <2>2. CASE k # Len(bars)
      BY <1>1, <1>2, <1>4, <2>2 DEF GoesOn, AlikeOn
    <2> QED BY <2>1, <2>2
  <1>5. CASE Len(others) = Len(bars) /\ AlikeOn(others, bars, DOMAIN bars)
    BY <1>1, <1>2, <1>5 DEF AlikeOn
  <1> QED BY <1>3, <1>4, <1>5

SessionBounds ==
  /\ minute \in 0 .. MaxMinute /\ dayVolume \in 0 .. ticks + 1 /\ ticks \in 0 .. MaxTicks

LEMMA SessionBoundsStep == SessionBounds /\ [BarsNext]_barVars => SessionBounds'
  <1> SUFFICES ASSUME SessionBounds, [BarsNext]_barVars PROVE SessionBounds'
    OBVIOUS
  <1> USE BarsAssumption DEF SessionBounds
  <1>1. CASE Trade
    BY <1>1 DEF Trade
  <1>2. CASE MinutePasses
    BY <1>2 DEF MinutePasses
  <1>3. ASSUME NEW t, NEW ltp, NEW stores, OnTick(t, ltp, stores) PROVE SessionBounds'
    <2>1. ticks < MaxTicks /\ ticks' = ticks + 1 /\ UNCHANGED <<minute, dayVolume>>
      BY <1>3 DEF OnTick
    <2> QED BY <2>1
  <1>4. CASE (\E stores \in BOOLEAN : StopBuilder(stores)) \/ UNCHANGED barVars
    BY <1>4 DEF StopBuilder, barVars
  <1> QED BY <1>1, <1>2, <1>3, <1>4 DEF BarsNext

SoundInv == BarsInv /\ SessionBounds /\ \A tf \in Timeframes : SoundBars(AllBars(tf))

LEMMA SoundStep == SoundInv /\ [BarsNext]_barVars => SoundInv'
  <1> SUFFICES ASSUME SoundInv, [BarsNext]_barVars, NEW tf \in Timeframes PROVE SoundBars(AllBars(tf)')
    BY BarsInvNext, SessionBoundsStep DEF SoundInv
  <1> DEFINE bars == AllBars(tf)
             others == AllBars(tf)'
  <1>0. BarsShape /\ bars \in Seq(BarRecords) /\ SoundBars(bars)
    BY AllBarsType DEF SoundInv, BarsInv
  <1>1. CASE UNCHANGED <<open, finished>>
    BY <1>0, <1>1 DEF AllBars
  <1>2. CASE Trade \/ MinutePasses \/ UNCHANGED barVars
    BY <1>1, <1>2 DEF Trade, MinutePasses, barVars
  <1>3. ASSUME NEW t, NEW ltp \in Ltps, NEW stores \in BOOLEAN, OnTick(t, ltp, stores) PROVE SoundBars(others)
    <2>1. CASE ~feeding
      BY <1>1, <1>3, <2>1 DEF OnTick
    <2>2. CASE feeding
      <3>1. others \in Seq(BarRecords) /\ \/ Begins(others, bars, Floor(t, tf), ltp, dayVolume)
                                          \/ GoesOn(others, bars, ltp, dayVolume)
        BY <1>0, <1>3, <2>2, TickBars
      <3> HIDE DEF bars, others
      <3> QED BY <1>0, <3>1, SoundOn
    <2> QED BY <1>0, <2>1, <2>2 DEF BarsShape
  <1>4. ASSUME NEW stores \in BOOLEAN, StopBuilder(stores) PROVE SoundBars(others)
    <2>1. others \in Seq(BarRecords) /\ Len(others) = Len(bars) /\ AlikeOn(others, bars, DOMAIN bars)
      BY <1>0, <1>4, StopBars
    <2> HIDE DEF bars, others
    <2>2. ASSUME NEW k \in DOMAIN others PROVE Sound(others[k])
      <3>1. k \in DOMAIN bars /\ bars[k] \in BarRecords /\ Sound(bars[k]) /\ Alike(others[k], bars[k])
        BY <1>0, <2>1 DEF SoundBars, AlikeOn
      <3> QED BY <3>1 DEF Alike, Sound
    <2> QED BY <2>2 DEF SoundBars
  <1> QED BY <1>2, <1>3, <1>4 DEF BarsNext

\* Every bar, published or under construction, has had a tick, begins with a period of its timeframe
\* and closes between its low and its high, with at most one per timeframe under construction.
THEOREM BarsWellFormed == BarsSpec => []BarsTypeOK
  <1>1. BarsInit => SoundInv
    <2>1. BarsInit => SessionBounds
      BY BarsAssumption DEF BarsInit, SessionBounds
    <2>2. ASSUME BarsInit, NEW tf \in Timeframes PROVE AllBars(tf) = <<>>
      BY <2>2 DEF BarsInit, AllBars
    <2> QED BY <2>1, <2>2, BarsInvInit DEF SoundInv, SoundBars
  <1>2. SoundInv => BarsTypeOK
    <2> SUFFICES ASSUME SoundInv PROVE BarsTypeOK
      OBVIOUS
    <2>1. minute \in 0 .. MaxMinute /\ dayVolume \in 0 .. MaxTicks + 1 /\ ticks \in 0 .. MaxTicks /\ feeding \in BOOLEAN
      BY BarsAssumption DEF SoundInv, SessionBounds, BarsInv, BarsShape
    <2>2. ASSUME NEW tf \in Timeframes PROVE Len(open[tf]) <= 1
      <3>1. open[tf] = <<>> \/ Len(open[tf]) = 1
        BY DEF SoundInv, BarsInv, BarsShape
      <3>2. Len(<<>>) = 0
        OBVIOUS
      <3>3. Len(open[tf]) \in {0, 1}
        BY <3>1, <3>2, Zenon
      <3>4. \A n \in {0, 1} : n <= 1
        OBVIOUS
      <3> QED BY <3>3, <3>4, Zenon
    <2>3. ASSUME NEW tf \in Timeframes, NEW i \in DOMAIN AllBars(tf)
          PROVE  AllBars(tf)[i].start % tf = 0 /\ Sound(AllBars(tf)[i])
      <3>1. AllBars(tf) \in Seq(BarRecords) /\ Rises(AllBars(tf), tf) /\ SoundBars(AllBars(tf))
        BY AllBarsType DEF SoundInv, BarsInv
      <3>2. AllBars(tf)[i] \in BarRecords /\ Floor(AllBars(tf)[i].start, tf) = AllBars(tf)[i].start
        BY <3>1 DEF Rises
      <3>3. AllBars(tf)[i].start \in Nat /\ tf \in Nat \ {0}
        BY <3>2, FieldTypes, BarsAssumption
      <3>4. AllBars(tf)[i].start % tf = 0
        BY <3>2, <3>3, FloorBounds DEF Floor
      <3> QED BY <3>1, <3>4 DEF SoundBars
    <2> QED BY <2>1, <2>2, <2>3 DEF BarsTypeOK, Sound
  <1> QED BY <1>1, <1>2, SoundStep, PTL DEF BarsSpec
=============================================================================
