------------------------------ MODULE Watchlist -----------------------------
(***************************************************************************)
(* The watchlist: the projection's rows, the file they are saved in, the   *)
(* feed's subscriptions, and the REST hydration of rows without a price.   *)
(* Adding and removing suspend in the feed before they save; hydration     *)
(* suspends in the quotes request and then writes into the row objects it  *)
(* took hold of before, and a tick replaces the object of its row.         *)
(*                                                                         *)
(* The price of a row is where it came from: "none", "rest" or "tick".     *)
(***************************************************************************)
EXTENDS Integers, Sequences, FiniteSets, Functions

CONSTANTS
  Listable,    \* symbols that resolve in the instrument master
  Defaults,    \* seeded from configs/default_watchlist.yaml
  MaxRequests, MaxFeedTicks, MaxWatchBoots   \* bounds

ASSUME WatchlistAssumption == Defaults \subseteq Listable

VARIABLES
  watched,     \* WatchlistProjection._data: [symbol -> price]
  saved,       \* symbols in data/watchlist.json
  streamed,    \* symbols subscribed at the data socket
  callbacks,   \* how many times the tick callback is registered, 0 without an adapter
  onBus,       \* ticks published and not handled yet
  editing,     \* add and remove handlers suspended in the feed
  captured,    \* symbols whose row object hydration holds; of a replaced object no more
  hydrating,   \* the quotes request is out
  hydrated,    \* _hydration_cache within its TTL: [symbol -> "none" or "rest"]
  requests, feedTicks, watchBoots

watchVars == <<watched, saved, streamed, callbacks, onBus, editing, captured, hydrating, hydrated,
               requests, feedTicks, watchBoots>>

Unpriced(symbols) == [s \in symbols |-> "none"]
WithRow(rows, s, price) ==
  [r \in DOMAIN rows \cup {s} |-> IF r = s THEN price ELSE rows[r]]

WatchInit ==
  /\ watched = Unpriced(Defaults) /\ saved = {}
  /\ streamed = {} /\ callbacks = 0 /\ onBus = <<>>
  /\ editing = {} /\ captured = {} /\ hydrating = FALSE /\ hydrated = <<>>
  /\ requests = 0 /\ feedTicks = 0 /\ watchBoots = 0

Asked == requests < MaxRequests /\ requests' = requests + 1
SameFeed == UNCHANGED <<streamed, callbacks, onBus, feedTicks>>
SameHydration == UNCHANGED <<captured, hydrating, hydrated>>

\* init_terminal_adapters: a new adapter subscribes the rows of now.
FeedStarts ==
  /\ callbacks = 0 /\ watched # <<>>
  /\ streamed' = DOMAIN watched /\ callbacks' = 1
  /\ UNCHANGED <<watched, saved, onBus, editing, requests, feedTicks, watchBoots>> /\ SameHydration

\* add_to_watchlist up to the feed.  Each add registers the callback again.
AddBegins(s) ==
  /\ Asked /\ [op |-> "add", symbol |-> s] \notin editing
  /\ watched' = IF s \in DOMAIN watched THEN watched ELSE WithRow(watched, s, "none")
  /\ callbacks' = IF callbacks = 0 THEN 0 ELSE callbacks + 1
  /\ editing' = editing \cup {[op |-> "add", symbol |-> s]}
  /\ UNCHANGED <<saved, streamed, onBus, feedTicks, watchBoots>> /\ SameHydration

\* remove_from_watchlist up to the feed.
RemoveBegins(s) ==
  /\ Asked /\ s \in DOMAIN watched /\ [op |-> "remove", symbol |-> s] \notin editing
  /\ watched' = Restrict(watched, DOMAIN watched \ {s})
  /\ captured' = captured \ {s}
  /\ editing' = editing \cup {[op |-> "remove", symbol |-> s]}
  /\ UNCHANGED <<saved, hydrating, hydrated, watchBoots>> /\ SameFeed

\* The rest of both: the feed has taken the change, the rows of now are saved.
EditEnds(e) ==
  /\ editing' = editing \ {e}
  /\ streamed' = IF callbacks = 0 THEN {}
                   ELSE IF e.op = "add" THEN streamed \cup {e.symbol} ELSE streamed \ {e.symbol}
  /\ saved' = DOMAIN watched
  /\ UNCHANGED <<watched, callbacks, onBus, requests, feedTicks, watchBoots>> /\ SameHydration

\* A tick of the feed is published once per registered callback.
FeedTick(s) ==
  /\ feedTicks < MaxFeedTicks /\ s \in streamed
  /\ onBus' = onBus \o [i \in 1..callbacks |-> s]
  /\ feedTicks' = feedTicks + 1
  /\ UNCHANGED <<watched, saved, streamed, callbacks, editing, requests, watchBoots>> /\ SameHydration

\* Faulty variant: the row of the tick is updated in place, so that hydration
\* still holds it.
ReplacedNever(s) == captured

\* on_market_data builds a new row, also for a symbol that has none.
Replaced(s) == captured \ {s}

BusTick ==
  /\ onBus # <<>>
  /\ watched' = WithRow(watched, Head(onBus), "tick")
  /\ captured' = Replaced(Head(onBus))
  /\ onBus' = Tail(onBus)
  /\ UNCHANGED <<saved, streamed, callbacks, editing, hydrating, hydrated, requests, feedTicks, watchBoots>>

\* GET of the watchlist: rows without a price take the cached outcome or are
\* asked for in one request.
HydrationBegins ==
  /\ Asked /\ callbacks > 0 /\ ~hydrating
  /\ LET idle == {s \in DOMAIN watched : watched[s] = "none"}
     IN  /\ watched' = [s \in DOMAIN watched |->
                       IF s \in idle \cap DOMAIN hydrated THEN hydrated[s] ELSE watched[s]]
         /\ captured' = idle \ DOMAIN hydrated
         /\ hydrating' = (idle \ DOMAIN hydrated # {})
  /\ UNCHANGED <<saved, editing, hydrated, watchBoots>> /\ SameFeed

\* The answer has a price for some of the rows held, and is cached for all.
\* The request may also fail: nothing is written.
HydrationEnds ==
  /\ hydrating
  /\ hydrating' = FALSE /\ captured' = {}
  /\ \/ \E quoted \in SUBSET captured :
          /\ watched' = [s \in DOMAIN watched |-> IF s \in quoted THEN "rest" ELSE watched[s]]
          /\ hydrated' = [s \in captured \cup DOMAIN hydrated |->
                            IF s \in quoted THEN "rest" ELSE IF s \in captured THEN "none" ELSE hydrated[s]]
     \/ UNCHANGED <<watched, hydrated>>
  /\ UNCHANGED <<saved, editing, requests, watchBoots>> /\ SameFeed

CacheExpires ==
  /\ hydrated # <<>>
  /\ \E s \in DOMAIN hydrated : hydrated' = Restrict(hydrated, DOMAIN hydrated \ {s})
  /\ UNCHANGED <<watched, saved, editing, captured, hydrating, requests, watchBoots>> /\ SameFeed

\* The process starts anew: the defaults, then what the file adds.
WatchRestarts ==
  /\ watchBoots < MaxWatchBoots
  /\ watchBoots' = watchBoots + 1
  /\ watched' = Unpriced(Defaults \cup saved)
  /\ streamed' = {} /\ callbacks' = 0 /\ onBus' = <<>> /\ editing' = {}
  /\ captured' = {} /\ hydrating' = FALSE /\ hydrated' = <<>>
  /\ UNCHANGED <<saved, requests, feedTicks>>

WatchNext ==
  \/ FeedStarts \/ BusTick \/ HydrationBegins \/ HydrationEnds \/ CacheExpires \/ WatchRestarts
  \/ \E s \in Listable : AddBegins(s) \/ RemoveBegins(s) \/ FeedTick(s)
  \/ \E e \in editing : EditEnds(e)

WatchSpec == WatchInit /\ [][WatchNext]_watchVars

-----------------------------------------------------------------------------
\* Type invariant.
WatchTypeOK ==
  /\ DOMAIN watched \subseteq Listable /\ \A s \in DOMAIN watched : watched[s] \in {"none", "rest", "tick"}
  /\ saved \subseteq Listable /\ streamed \subseteq Listable
  /\ callbacks \in Nat /\ onBus \in Seq(Listable) /\ hydrating \in BOOLEAN
  /\ captured \subseteq DOMAIN watched /\ DOMAIN hydrated \subseteq Listable

\* A quote that was asked for before a tick and answered after it is older
\* than the tick.  It is written into rows taken hold of before the request,
\* and must not overwrite a live price: a row that shows a tick shows ticks
\* until it is removed or the process ends.
LivePriceWins ==
  [][\A s \in DOMAIN watched \cap DOMAIN watched' :
       watched[s] = "tick" => watched'[s] = "tick" \/ watchBoots' # watchBoots]_watchVars
=============================================================================
