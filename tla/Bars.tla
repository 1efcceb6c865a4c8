-------------------------------- MODULE Bars --------------------------------
(***************************************************************************)
(* The bar builder (data/pipeline/bar_builder.py): it aggregates the ticks *)
(* of the event bus into bars of several timeframes, publishes a bar when  *)
(* the first tick of a later period arrives, and stores it.                *)
(*                                                                         *)
(* One symbol is modelled: the builder keeps symbols apart.  Its handler   *)
(* never suspends.  The volume of a tick is what the feed puts there, the  *)
(* volume traded since the morning (integration/fyers/data_adapter.py).    *)
(***************************************************************************)
EXTENDS Integers, SequencesExt

CONSTANTS
  Timeframes,  \* lengths of bars, in minutes; each divides the longer ones
  Ltps,        \* prices of ticks
  MaxMinute,   \* bound: minutes of a session
  MaxTicks     \* bound: ticks of a session

ASSUME BarsAssumption ==
  /\ Timeframes \subseteq Nat \ {0} /\ Ltps \subseteq Nat \ {0}
  /\ MaxMinute \in Nat /\ MaxTicks \in Nat
  /\ \A f, c \in Timeframes : f <= c => c % f = 0

VARIABLES
  minute,      \* the exchange's clock
  dayVolume,   \* traded since the morning
  feeding,     \* the builder is subscribed to ticks
  open,        \* _state: [Timeframes -> the bars under construction, <<>> or one]
  finished,    \* history: [Timeframes -> bars published, oldest first]
  ticks        \* history: ticks that arrived

barVars == <<minute, dayVolume, feeding, open, finished, ticks>>

BarsInit ==
  /\ minute = 0 /\ dayVolume = 0 /\ ticks = 0 /\ feeding = TRUE
  /\ open = [tf \in Timeframes |-> <<>>]
  /\ finished = [tf \in Timeframes |-> <<>>]

Floor(t, tf) == tf * (t \div tf)

Larger(m, n) == IF m > n THEN m ELSE n
Lower(m, n) == IF m < n THEN m ELSE n

CreateState(t, tf, ltp) ==
  [start |-> Floor(t, tf), open |-> ltp, high |-> ltp, low |-> ltp, close |-> ltp,
   volume |-> 0, ticks |-> 0, stored |-> FALSE]

ApplyTick(bar, ltp, volume) ==
  [bar EXCEPT !.high = Larger(@, ltp), !.low = Lower(@, ltp), !.close = ltp,
              !.volume = @ + volume, !.ticks = @ + 1]

\* Faulty variant: a bar is over one minute late.
IsCompleteLate(bar, tf, t) == t > bar.start + tf

IsComplete(bar, tf, t) == t >= bar.start + tf

Over(tf, t) == open[tf] # <<>> /\ IsComplete(open[tf][1], tf, t)

\* _finalise_bar: published, and stored if the store works.
Finalise(tfs, stores) ==
  /\ finished' = [tf \in Timeframes |->
                    IF tf \in tfs THEN Append(finished[tf], [open[tf][1] EXCEPT !.stored = stores])
                    ELSE finished[tf]]

-----------------------------------------------------------------------------
Trade ==
  /\ dayVolume <= ticks
  /\ dayVolume' = dayVolume + 1
  /\ UNCHANGED <<minute, feeding, open, finished, ticks>>

MinutePasses ==
  /\ minute < MaxMinute /\ minute' = minute + 1
  /\ UNCHANGED <<dayVolume, feeding, open, finished, ticks>>

\* _on_tick.  The tick's time is that of the last trade, perhaps a minute ago
\* and before that of an earlier tick.
OnTick(t, ltp, stores) ==
  /\ ticks < MaxTicks /\ t \in {minute, minute - 1} \cap Nat
  /\ ticks' = ticks + 1
  /\ IF feeding
     THEN /\ Finalise({tf \in Timeframes : Over(tf, t)}, stores)
          /\ open' = [tf \in Timeframes |->
                        LET state == IF open[tf] = <<>> \/ Over(tf, t) THEN CreateState(t, tf, ltp)
                                     ELSE open[tf][1]
                        IN <<ApplyTick(state, ltp, dayVolume)>>]
     ELSE UNCHANGED <<open, finished>>
  /\ UNCHANGED <<minute, dayVolume, feeding>>

\* stop() publishes and stores what there is.
StopBuilder(stores) ==
  /\ feeding
  /\ feeding' = FALSE
  /\ Finalise({tf \in Timeframes : open[tf] # <<>>}, stores)
  /\ open' = [tf \in Timeframes |-> <<>>]
  /\ UNCHANGED <<minute, dayVolume, ticks>>

BarsNext ==
  \/ Trade \/ MinutePasses
  \/ \E t \in 0 .. MaxMinute, ltp \in Ltps, stores \in BOOLEAN : OnTick(t, ltp, stores)
  \/ \E stores \in BOOLEAN : StopBuilder(stores)

BarsSpec == BarsInit /\ [][BarsNext]_barVars

-----------------------------------------------------------------------------
AllBars(tf) == finished[tf] \o open[tf]

BarsTypeOK ==
  /\ minute \in 0 .. MaxMinute /\ dayVolume \in 0 .. MaxTicks + 1 /\ ticks \in 0 .. MaxTicks
  /\ feeding \in BOOLEAN
  /\ \A tf \in Timeframes :
       /\ Len(open[tf]) <= 1
       /\ \A i \in DOMAIN AllBars(tf) :
            LET b == AllBars(tf)[i]
            IN b.low <= b.close /\ b.close <= b.high /\ b.start % tf = 0 /\ b.ticks > 0

\* Which of the bars lie in the period of a longer bar of length c.
PartsOf(bars, c, bar) == {k \in DOMAIN bars : Floor(bars[k].start, c) = bar.start}

\* A bar is these of the bars put together: first open, last close, highest
\* high, lowest low, all volume and all ticks.
PutTogether(bar, bars, parts) ==
  /\ parts # {}
  /\ \A k \in parts : (\A m \in parts : k <= m) => bar.open = bars[k].open
  /\ \A k \in parts : (\A m \in parts : m <= k) => bar.close = bars[k].close
  /\ \A k \in parts : bars[k].high <= bar.high /\ bar.low <= bars[k].low
  /\ \E k \in parts : bar.high = bars[k].high
  /\ \E k \in parts : bar.low = bars[k].low
  /\ bar.volume = SumFunction([k \in parts |-> bars[k].volume])
  /\ bar.ticks = SumFunction([k \in parts |-> bars[k].ticks])

\* The bars of a longer timeframe are those of a shorter one put together, even
\* when ticks arrive late and at the end of the session.
CoarseBarsAggregateFineBars ==
  \A f, c \in Timeframes : f < c =>
    \A i \in DOMAIN AllBars(c) :
      LET bar == AllBars(c)[i]
      IN PutTogether(bar, AllBars(f), PartsOf(AllBars(f), c, bar))
=============================================================================
