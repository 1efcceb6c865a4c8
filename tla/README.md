# A TLA+ model of ShettyXtreme

ShettyXtreme is a single-user options trading terminal: a FastAPI application
in one asyncio process that reads market data from the broker Fyers, turns it
into signals, holds the proposals it derives from them for approval, sends
approved orders either to a paper trading engine or to the broker, and shows it
all in a browser.  Three facts make it hard to test.  Orders to the real broker
are sent by coroutines that suspend for seconds, while the operator, the signal
bridge, other handlers and other processes go on changing the state those
coroutines started from.  What one part knows of another it mostly hears over
an event bus, late and sometimes in pieces.  And the state is spread over
memory, SQLite files, a mode file, a kill switch file, supervisor threads, the
browser and the broker, none of which changes atomically with another.

The modules here model these parts.  TLC checks small instances of them, and the
TLA+ proof system proves the main results for every value of the constants.

## 1. Inventory

All paths are below `src/src/shettyxtreme/`.  "Module" names the module that
models the part; section 8 says what is not modelled.

| Component | State | Operations | What makes it correct | Module |
|---|---|---|---|---|
| Kill switch (`execution/kill_switch.py`) | event, marker file shared with other processes, wire counters, arm snapshot | arm, disarm, note_wire_entry, note_wire_exit | once armed nothing more is dispatched; counter and arm report are exact | `KillSwitch`, `OrderGate` |
| Mode and LIVE session (`api/execution_router.py`, `run.py`) | mode, mode file, token | switch, start, restart | LIVE needs its typed confirmation and does not restore itself | `ModeControl` |
| Proposal queue (`execution_engine.py`, `signal_bridge.py`) | proposals in memory and as rows | submit, deduplicate, expire, approve, reject, load | memory and rows agree; decisions are final over restarts | `ProposalQueue` |
| Order placement (`integration/fyers/client.py`, `trading_adapter.py`) | suspended coroutines, orders at the broker | wait, POST, repeat after 429, classify | a placement is at most one order and comes back | `OrderWire` |
| Engine and routing (`mode_router.py`, the two execution routers) | none beyond the above | approve, close | approval, mode, gate and wire agree | `Execution` |
| Paper engine (`paper_trading.py`, `paper_realism.py`) | order book, positions, cash, last prices | place, cancel, tick | profit is cash plus positions; a closed order stays closed | `PaperTrading` |
| Event bus (`core/event_bus/`) | queue, running flag | publish, dispatch, stop | handlers see events in order | `EventBus` |
| Ledger (`ledger.py`, `ledger_recorder.py`) | rows of fills | record, pair first in first out | every fill once; the rows explain the position | `Ledger` |
| Position projection, hints (`terminal/projections.py`, `hint_outcome.py`) | projected positions, hints with outcomes | event, refresh, score | the projection follows the engine; closed hints are scored | `Desk`, `HintScoring` |
| Risk engine (`intelligence/risk/`) | filters over a portfolio put together from projections | check | the limits hold | `RiskFilters`, `RiskDesk` |
| Risk views (`portfolio_risk.py`, `greeks_store.py`) | caches of four sources | aggregate, stress | a position is valued at its own price | `PortfolioRisk` |
| Bar builder (`data/pipeline/`) | open bar per timeframe | tick, complete, flush | the timeframes agree | `Bars` |
| Signals (`intelligence/pipeline.py`, `signals/`, `voters/`, `regime/`) | features, regime, desk record | tick, vote, publish, propose | direction, votes and regime shown fit together | `SignalRules`, `SignalFlow` |
| Scanners (`intelligence/scanners/`, `terminal/scanner_bridge.py`) | cached chain, trackers, findings, cooldowns | poll, find, list, propose | one proposal per cooldown | `ScannerRules`, `Scanners` |
| Learning (`learning/`, `signals/shadow_manager.py`) | decisions, votes, graduates | record, score, graduate | votes are scored by their own session | `Learning` |
| Data socket (`integration/fyers/data_socket.py`) | supervisor threads, flags, registry | connect, restart, subscribe, disconnect | symbols survive restarts; a dead feed is idle | `DataSocket` |
| Order socket (`integration/fyers/ws_client.py`) | one task, attempt counter | connect, back off, give up, disconnect | callers are answered | `OrderSocket` |
| Terminal initialisation (`api/terminal_init.py`, `auth_router.py`) | adapters, feeds, builders | startup, login, save, logout | one feed, one builder | `TerminalInit` |
| Session health (`auth/health_monitor.py`, `HealthProjection`) | stored token, observed state, shown state | check, probe, event, poll | an expired token is shown | `SessionHealth` |
| Fan-out (`api/ws_manager.py`) | connections, topics, broadcasts under way | connect, subscribe, broadcast, leave | a broadcast misses nobody | `Fanout` |
| Browser socket (`web/src/lib/ws.ts`, `connection.svelte.ts`) | socket, retry timer, panels, pip | connect, drop, retry, declare topics | server and panels agree on topics; drops are retried | `BrowserSocket` |
| Watchlist (`api/watchlist_router.py`, `WatchlistProjection`) | rows, file, subscriptions, quote cache | add, remove, tick, hydrate, restart | live prices win | `Watchlist` |
| Instrument master (`instrument_master.py`, `symbols.py`) | mirror rows, refresh clock | refresh, look up, parse | fresh answers are today's | `InstrumentMaster` |
| Research (`research/`) | runs, briefs, lessons, scheduler | pass, retry, decide, configure | bounded calls; the configured scheduler runs | `Research` |
| Knowledge (`knowledge/`) | documents with open transactions | sync, note, activate | what was promised stays | `Knowledge` |
| Settings (`core/settings.py`, `api/settings_router.py`) | stored values, caps on the way to the panel | put, seed, announce | the panel shows the caps that hold | `SettingsStore` |

**How they interact.**  The data socket delivers ticks to the data adapter, which
publishes them on the event bus.  The paper engine, the bar builder, the
watchlist, the feature engine and the projections are its handlers.  Features
become votes and a signal, which the signal bridge submits to the engine as a
proposal unless one with the same side and symbol is pending; scanner findings
become proposals through a bridge of their own.  The operator lists the queue
(which is what expires old proposals), approves and rejects.  Approving asks the
mode, the kill switch and the risk engine, whose portfolio comes from the
projections, and then calls the mode router, which books the order with the paper
engine or awaits the broker adapter.  The adapter awaits the HTTP client, the
client the token bucket and the network.  Fills travel back over the bus to ledger,
projection, hint store and browser; the browser's socket takes what the fan-out
broadcasts.

**What is hard.**  The await inside `place_order`: the proposal stays `PENDING`
meanwhile, the gate may be armed, the mode may change, the process may die.  A 429
repeats the POST, a timed out POST may still reach the broker, an error page may
hide an accepted order, a database write may fail and is swallowed.  Supervisor
threads share fields with the event loop without a lock.  Projections are
repaired by a refresh that may itself be late.  Initialisations, broadcasts and
watchlist edits interleave at their awaits.  `PROJECT.json` lists the hazards at
their lines, with the properties that cover them.

## 2. Modules and how they correspond to the code

| Module | Composes | Models |
|---|---|---|
| `KillSwitch`, `ModeControl`, `ProposalQueue`, `OrderWire` | – | gate, mode, proposals, one placement |
| `Execution` | the four above | approve, close, outcomes, restart; all their properties |
| `OrderGate` | – | abstract: what the gate promises |
| `PaperTrading` | – | orders, ticks, partial fills, positions, cash |
| `EventBus`, `Ledger`, `HintScoring` | – | queue; rows and pairing; hints |
| `Desk` | `PaperTrading`, the three above | fills on their way to ledger, projection and hints |
| `RiskFilters`, `RiskDesk` | – ; `RiskFilters` | each filter as a predicate; approvals and what their check sees |
| `SignalRules`, `SignalFlow` | – ; `SignalRules`, `EventBus` | arithmetic from reading to hint; the handlers |
| `ScannerRules`, `Scanners` | – ; `ScannerRules` | what each scanner computes; poller, listing, bridge |
| `Research`, `Knowledge` | – ; `Research` | passes and scheduler; documents made of briefs |
| `DataSocket`, `OrderSocket`, `TerminalInit`, `SessionHealth`, `BrowserSocket`, `Fanout`, `Watchlist`, `InstrumentMaster`, `Learning`, `Bars`, `SettingsStore`, `PortfolioRisk` | – | one part each |
| `MCExecution`, `MCPaperTrading`, `MCDesk`, `MCRiskDesk`, `MCPortfolioRisk` | | constants for TLC |
| `MCServices`, `MCMarket` | ten and seven modules | side-by-side instances for TLC (section 4) |
| `ExecutionTypeProofs`, `ExecutionGateProofs`, `ExecutionQueueProofs` | `Execution` | theorems (section 5) |
| `PaperTradingProofs`, `DeskProofs` | `PaperTrading`, `Desk` | theorems |
| `ConnectionProofs` | `DataSocket`, `OrderSocket`, `TerminalInit`, `SessionHealth`, `BrowserSocket`, `Fanout`, `Watchlist`, `SettingsStore`, `InstrumentMaster` | theorems |
| `DecisionProofs` | `SignalFlow`, `Scanners`, `Learning`, `Research`, `Knowledge`, `RiskDesk`, `Bars` | theorems |
| `InductionLemmas` | – | induction, sums and sequences, for the other proofs |

**The one thread.**  The program is one thread but for the data socket.  A handler
runs without interruption up to an await that really suspends, and that stretch is
one action.  For a paper order there is none from the endpoint to the row update
(`_place_paper` awaits the paper engine, whose own awaits are publications on an
unbounded queue), so `ApprovePaper` is one step.  A live order suspends first in
the token bucket or the HTTP request: `ApproveLive` is everything before,
`BucketGrants`, `Retry` and the `Return` actions are the resumptions, and each
`Return` action includes what the router and the engine do with the outcome.  In the
same way a broadcast is suspended in each send (`Fanout`), an initialisation while it
disconnects and while it connects (`TerminalInit`), a watchlist edit in the feed and a
quotes request in the network (`Watchlist`), the refresh loop while it broadcasts
(`Desk`), a research run in a call of the model (`Research`).  In `DataSocket` the
event loop, the supervisors and the SDK are threads, and every step may fall
between any two steps of another.

**Execution.**  `killEvent` and `killFile` are the gate's event and file, `inFlight`
and `wireEntries` its counters, `armInFlight` and `armEntries` the numbers `arm()`
records.  `mode`, `modeFile` and `csrf` are `_current_mode`, its file and whether a
token is issued.  `status` is the `status` of the entries of `_approvals` ("none": not
submitted, "lost": not loaded after a restart), `db` the status in their rows, and
`overdue` says whose `expires_at` has passed.  `stage`, `target` and `tries` say per
handler task where in the HTTP client it is suspended, what its order is for and how
often it has POSTed.  `accepted` is the broker's side and `strays` the POSTs in the
network that nobody awaits.  `minted`, `dispatched` and `papered` are history
variables.  `ApproveRefused` stands for all the ways in which an approval ends in
`REJECTED` without an order; which applies depends on state outside the module, so it
is a free choice (`RiskDesk` models the risk check itself).  `ApproveUnsendable`
differs: it has passed the gate and is counted as a wire entry.  `ExpireStale` writes
rows one by one; a crash in between is in `QueueRestart`.  Broker, network and
process death are external; of the broker the model assumes that a request answered
with 429 was not accepted, and nothing else.  Every operator action is possible at
any time, also for a proposal whose live approval is suspended.

**Paper engine and desk.**  `book` is `_orders`, `resting` the keys of
`_pending_orders`, `ltp` is `_ltp_cache`, and `account` holds the positions,
`_total_fees` and the cash (`_capital` less the initial capital).  A position's
`entry` is its `buy_avg` while it is long and its `sell_avg` while it is short.  `Tick`
is the whole handler: the last price, all gap-through cancellations, then all fills.
Free choices stand for the fill model's dice and the margin check; slippage is a
constant; fees follow the equity rates.  `Desk` adds the bus, with the events in the
order the engine publishes them, `projected` (`PositionProjection._positions`),
`refresh` (what the loop has still to apply), `ledger`, `hints` and the shutdown,
which closes the ledger before it stops the bus.  Refused orders and events that
only reach the browser are left out.

**Risk.**  `RiskFilters` has each filter as a predicate over a portfolio and a
proposal.  `RiskDesk` has the portfolio that `_portfolio_provider` puts together:
`rows` is the position projection, `margin` the risk projection, `held` and `cash`
the paper engine, in which fills are whole here and free of slippage and fees.
`blind` counts approvals given while the projection lagged, `slack` is the least
distance of the day's result to the loss limit at an approval.  `PortfolioRisk`
takes the prices of options and their greeks as constants and leaves times to
expiry out.

**Sockets and sessions.**  In `DataSocket`, `at` says where each supervisor thread is,
`link` whose socket `_socket` holds, `snapshot` and `subscribed` what a supervisor
read from the registry and put on its socket, `late` what the registry got too late
for that.  `alone` is a history variable: no second supervisor was started while one
lived.  In `OrderSocket`, `doing` is where the task is and `caller` what `connect()`
answers.  In `TerminalInit` an adapter is a number and stands for all that one call
builds; `overlapped` and `faulted` record calls that overlapped or failed halfway.
In `SessionHealth` logins and sockets are surroundings that change as they like.
In `BrowserSocket`, `panels` are the topics with a handler and `declared` what the
server took from the frames.

**Data and study.**  The price of a watchlist row is where it came from.  The tickers
of `InstrumentMaster` keep a month and, in the weekly form, a day, as the broker's
do; `now` counts parts of a day, and `Today` and `UtcToday` are the two dates that the
code reads from it, of the terminal's zone, which is taken to be the exchange's, and of
UTC.  `Bars` has one symbol; the volume of a tick is the day's volume, as the feed
sends it.  `SignalFlow` has readings of indicators in place of the indicators.
`ScannerRules` compares ratios without dividing.  `Learning` lets shadows vote as
they like.  `Knowledge` distinguishes what the connection sees (`docs`) from what is
committed (`saved`).  `SettingsStore` lets each batch stop halfway, because each put
commits by itself.

Definitions introduced by "Faulty variant" are not part of the model: each is an
action or operator with a plausible mistake.  Put in the place of the right one
it makes the property it was written for fail, which is how the properties were
tested for being sensitive to the code.

## 3. Properties

Each composed module has one type invariant.  These are theorems (section 5); that of
`Execution`, `TypeOK`, is also part of a run.

*Gate and LIVE.*  `NoEntryAfterArm`: between arming and disarming no placement is
dispatched, and those still out were in the arm report.  `InFlightExact`: the
counter is the number of suspended placements.  `ImplementsGate`: the composed
system implements `OrderGate`, whose callers enter only past an open gate and
whose arming reports exactly those inside.  `LiveOrdersConfirmed`: no live order
leaves a process in which nobody typed the confirmation.  `LiveNeverRestored`: the
file does not bring LIVE back.

*Queue and wire.*  `BridgeDedup`, `DurableQueue`, `NoResurrection` (a decided proposal
never becomes pending again), `ApprovedHasOrder` (a proposal shown approved has an
order; with a failing database too) and `PaperAtMostOnce`.  `OneOrderPerDispatch`:
orders accepted, POSTs that may still be accepted and placements that may still
become an order are together at most the placements dispatched.  It counts per
dispatch and not per proposal on purpose: the code does not prevent two orders for
one proposal, and no document says it does.  `PlacementResolves`: every placement
comes back.

*Paper account.*  `PnlAddsUp`: profit as reported by `get_pnl` equals cash plus the
worth of the open positions, before fees, through averaging, partial closes and
reversals.  The code's averages are fractions and the model's are quotients of integers,
so the history `account.rounded` adds up what each average leaves out, and the
equation holds to the fraction.  `PositionIsBooked`: a net position is the sum of its orders' fills.
`FillsBounded`: without the fill model an order's fills are what it reports, and with
it they stay below twice its quantity.  `ClosedStaysClosed`: nothing touches a filled,
cancelled or rejected order.

*Desk.*  `FillsReachLedger`: until the ledger closes, each filled order is exactly once
in the ledger or on its way there.  `LedgerExplainsPosition`: the open remainder of
the pairing, plus the fills on their way, is the engine's net position (without the
fill model, whose parts have no event that the ledger records).
`ProjectionConverges`: once trading ends the projection shows the engine's
positions, although events overwrite the projected quantity with that of a fill and
a refresh may write the second position of an old snapshot over a newer event.
`HintsResolve`: a position that stays flat has
all its hints scored.

*Risk.*  `CapHoldsUpToBlindApprovals`: more positions are open than allowed only by
approvals given while the projection lagged, one each.

*Sockets and sessions.*  `DeadMeansIdle`: without a supervisor the wrapper knows that
it has none, so that `connect()` starts one.  `SymbolsRestored`: registered symbols
are on the socket of the only supervisor after any number of restarts.
`RetriesEnd`: a socket that keeps dropping is given up.  `ConnectIsAnswered`: a caller
of the order socket's `connect()` is answered.  `OneFeed`: no ticks come from an
adapter the application has lost sight of, and one bar builder aggregates them,
unless calls overlapped (or, for builders, failed halfway).  `ExpiryShown`: while the
token stays expired the browser is told again and again.  `BroadcastReaches`: a
broadcast misses an interested client only if a client before it left meanwhile.
`TopicsDeclared`: once no frame is on its way, the server's topics are the panels'.

*Data.*  `LivePriceWins`: a quote that was asked for before a tick never overwrites
it.  `FreshMirrorAnswers`: while the instrument master counts as fresh, the expiries
picked from it are those one would pick from today's lists, and tickers parse and
encode exactly.  `/resolve` and the watchlist go by the local date and always agree with
the exchange; the default expiry, which is taken from `list_expiries`, may after the
midnight of an expiry day still be that day (section 6), and nothing else.  `CoarseBarsAggregateFineBars`: bars of a longer timeframe are those
of a shorter one put together, with late ticks too.

*Signals and study.*  `SettledSignal`: once the bus is quiet, direction, votes and
regime on the desk fit together.  `OneProposalPerCooldown`: the operator gets at most
one proposal of a finding per cooldown.  `ScoredByOwnSession`: a vote is scored by the
outcome of its session and its own signal.  `CallsBounded`: a brief costs a bounded
number of model calls.  `SchedulerAsConfigured`: the scheduler that runs is the one
that is configured.  `PromisesKept`: a document once activated, and a brief once
synced, stay so through failed commits and restarts.  `LimitsShown`: once the
decisions on the bus are taken, the panel shows the caps in force.

## 4. Runs

| Run | Instance | Shows |
|---|---|---|
| `execution_reliable` | two bridged proposals of one key, one handler, one restart, started without the launcher, database works | `LiveNeverRestored`, `BridgeDedup`, `DurableQueue`, `PaperAtMostOnce`, `NoResurrection` |
| `execution_faults` | a manual proposal and a position, one handler, up to three POSTs, one restart, `--mode OBSERVER` or `LIVE`, database may fail, fair | `TypeOK`, `LiveOrdersConfirmed`, `ApprovedHasOrder`, `PlacementResolves` |
| `execution_concurrent` | a proposal and a position, two handlers, three dispatches, no restart | `InFlightExact`, `NoEntryAfterArm`, `OneOrderPerDispatch`, `ImplementsGate` |
| `desk` | two orders of one symbol and one hint, or three orders of two symbols; with and without the fill model, fair | `FillsReachLedger`, `LedgerExplainsPosition`, `ProjectionConverges`, `HintsResolve` |
| `services` | data socket, order socket, initialisation, session health, browser socket, watchlist, instrument master, signals, scanners, learning; fair | the properties of these ten |
| `market` | paper engine (three orders of one or two lots, two prices), risk desk, fan-out (three clients, two broadcasts), bars, research, knowledge, settings | the properties of these seven |
| `armed_post`, `rejected_placed` | one proposal, one handler | section 6 |
| `paper_overfill` | one order of two lots | section 6 |
| `loss_limit` | two orders, prices that double, a limit of one | section 6 |
| `browser_reconnect` | one tab, six events | section 6 |
| `heatmap_stress` | a share and an option, four events | section 6 |

**Side by side.**  `services` and `market` hold modules that share no variable:
each behaviour picks one of them as its focus and leaves the others in one initial
state, so that TLC explores the sum of their state spaces and not the product.
Nothing is lost by that, because in these models the parts do not act on each other:
what one sees of another is a free choice in it.  Parts whose interaction matters are
composed in `Execution`, `Desk`, `RiskDesk`, `SignalFlow` and `Knowledge`.

**Bounds.**  `MaxEntries` bounds the placements of one process and `MaxRestarts` the
restarts of `Execution`; the remaining counters follow.  `MaxAttempts` is a parameter
of the code (`max_retries + 1`); two POSTs show a repeat and its exhaustion, three a
repeat of a repeat.  Two handlers are what interference between placements needs;
the third dispatch lets a handler be used again while the other is still out.  Two
proposals of one key are the least that deduplication can fail on.

Three paper orders open, average, reduce and reverse a position: the second fill can
close it exactly, partly or cross zero, and the third acts on what the second left.
Two lots are the least that can be filled in parts, two prices the least with a
profit; their averages leave remainders, for which `PnlAddsUp` accounts.  In `desk` a
behaviour has one of two scopes.  In one, two orders open a position and close it or
resting parts of it, with every order type, a hint and repeated postbacks.  In the
other, three orders trade two symbols at market, and one may wait at a limit, so that a
refresh has a second position still to apply while a fill or a close changes it and the
event of that overtakes it: `ContinueRefresh` then writes an old quantity over the
newer one (the mutant of `ProjectionConverges` needs the second symbol too).
`MaxQueue` bounds only ticks and postbacks, which arrive while the queue is shorter.

Two supervisor threads are what disturbs one another, with one restart before the
limit.  Three order-socket attempts (the first, one after a drop, the last), two
logins and one save of credentials, two tokens; one shadow, two sessions with one
signal each (the second numbers from zero again); two chains whose change triggers
every chain scanner, and a cooldown of two of the three instants; three symbols of
the instrument master over nine days of six-hour parts, of which the first after
midnight still has yesterday's date in UTC (the zone is five and a half hours ahead), in
fortnightly months, with a monthly expiry in between.  The theorem is about parts and
offsets of any length.
Two briefs, one retry and one tool call, two boots; two batches of settings of five
kinds; two timeframes, of which one divides the other, and ticks that come a minute
late.  Symmetry is used for handlers and proposals, and in `market` for the three
values that are orders and clients, which no property distinguishes.  For the
properties of section 5 the theorems remove the bounds.

**Deadlock** is not checked: once proposals, dispatches, events and restarts are used
up only operator steps remain, and a quiet terminal is not an error.

**Fairness.**  Weak fairness of what the event loop and its threads do by themselves:
a handler's `Advance` in `Execution` (the bucket's and the `Retry-After` sleeps are
finite, each POST ends with a reply or a timeout of 15 seconds), the bus task and the
refresh loop in `Desk`, each supervisor thread, the order socket's task, the health
monitor and its handler in `services`.  Nothing is assumed of the operator, the
market, the broker, other processes or the database.

## 5. Proofs

Every theorem is about the module's specification with arbitrary constants that
satisfy the module's assumptions.

* **`TypeCorrect`, `InFlightIsExact`.**  That `inFlight` stays a natural number
  is not inductive: a return decrements it, so one must know it was positive.
  It was, because the returning handler is active and the counter is the number
  of active handlers; and for that one must know that an idle handler has no
  target and an active one has one.  `CountInv` joins the three
  (`TypeOK`, `WireShape`, `InFlightExact`) and is inductive.
* **`ArmStopsEntries`, `OrdersNeedConfirmation`, `LiveIsTyped`.**  The lemma
  `StepKinds` sorts all steps into a few kinds by what they do to gate and
  session (a dispatch past an open gate with a token, a return, a switch, a
  restart, nothing).  `GateInv` is inductive relative to those kinds.
* **`GateRefinement`.**  From the same kinds: each maps to a step of
  `OrderGate` or a stutter.  That the report equals the size of the set inside is
  `InFlightExact`.
* **`NoDuplicateOrders`.**  A balance per target: each step moves at most one
  unit from "open" to "accepted" or "stray", and only a dispatch adds one.  Process
  death turns any number of posted placements into strays at once; the cardinality
  lemmas of the library do the counting.
* **`ApprovalsHaveOrders`.**  Needs `ReplyHasOrder`: a handler on its way back with
  an acceptance has an order at the broker.  No assumption on the database.
* **`PaperOrdersOnce`.**  A proposal with a paper order in this process is
  decided, and no action of the process makes it pending again.
* **`QueueIsDurable`, `DecisionsSurvive`, `BridgeNeverDoubles`** under the
  assumption `DbReliable`.  It is needed: a failed write is swallowed, and a
  restart then brings back the older row.
* **`OrdersWellFormed`, `FillsStayBounded`, `ClosedForGood`** for `PaperSpec`.
  `FillsBounded` is not inductive: the last fill adds a whole quantity to what was
  booked before.  `BookInv` adds what holds of resting orders (`RestingShape`: they
  are open, the parts booked are what the order reports, less than its quantity, and
  none without the fill model) and that only placed orders have fills (`Unplaced`).
  Every action moves each order in one of three ways (`OrderMoves`), and
  `MoveIsSound` is the arithmetic of one order.
* **`PositionsAreBooked`** for `PaperSpec`: a position is the sum of its orders' fills,
  however a tick orders its fills.  A tick settles its fills in some order
  (`SettleAll`, a recursive function), so the lemma `SettleAllBooks` follows it order by
  order: after k of them the position is what these k and all earlier fills
  bought.  What one fill changes is `SettleChanges`, with averaging, partial
  closing, closing and reversing as its cases.
* **`MoneyAddsUp`** for `PaperSpec`.  What is reported depends on the last
  prices, what was booked does not, so the invariant is `MoneyKept`: cash, fees and
  rounding are what all symbols have realised, less their positions at their averages.  `AddingKeeps` and
  `ReducingKeeps` are the arithmetic of one fill: an average leaves less than one price
  unit per lot, which is what `rounded` receives, and a reduction moves profit from
  position to cash.  A tick's loop over fills is followed as in `PositionsAreBooked`, and
  `SumOfBoth` adds positions up.  Whatever the last prices are, what `get_pnl` reports is
  then the balance.
* **`EveryFillIsTold`, `LedgerExplains`** for the desk's `Spec`, fair or not.
  `DeskInv` joins the engine's invariants with two balances.  `ToldOnce`: the events and
  the rows that tell of an order's fill are together one if the order is filled and none
  otherwise; the recorder ignores a fill that it has, so one must know that it never
  has the fill it hears of.  `Explained`: without the fill model the events and rows add
  up to what the fills bought.  That the pairing leaves open what its rows add up to
  (`RemainderIsTotal`) is a statement about two nested loops: `MeetsAll` says of the
  inner one that the queue gives what the fill takes, `PairsOne` of the outer one that a
  fill changes longs less shorts by its signed quantity, whatever was in the queues.
  With `PositionsAreBooked` the first-in-first-out ledger then agrees with the
  averaging engine.
* **`EngineKeptAtDesk`** for the desk's `Spec`: `PnlAddsUp`, `PositionIsBooked` and
  `FillsBounded` hold where the engine is one part of many.  It does not follow from the
  theorems about `PaperSpec`, since closings place orders of a size that no ticket has:
  the invariants are shown again over the desk's steps, each of which is one of the
  engine's actions, a closing, or leaves the engine alone.
* **`DeadFeedIsIdle`, `SymbolsComeBack`** for `FeedSpec`, any number of threads.
  `DeadMeansIdle` is not inductive, because `connect()` may come between the two
  halves of a supervisor's `finally`: `IdleWhenReleased` speaks of supervisors past
  the first half.  `SymbolsRestored` needs where a registered symbol is while the
  socket is built and connected (`OnTheirWay`) and that the supervisor is the only
  one (`OneAlive`).
* **`FeedRestartsBounded`.**  The restart counter can pass its limit, because two
  supervisors may test it before either counts.  `RestartsCounted`: whoever counted past
  the limit has ended or is about to, so it passes it by no more than the number of threads.
* **`OneAdapterFeeds`** for `AdaptersSpec`.  As long as calls never overlapped, the one
  under way acts on the adapter that the application holds (`HandlesHeld`), only that
  one can deliver ticks, and a builder was subscribed by a call that connects or has
  succeeded (`BuilderOfSuccess`).
* **`ServerKnowsPanels`** for `TabSpec`: the last frame on its way, or the server if
  there is none, has the panels' topics (`AgreedLast`).
* **`BroadcastsArrive`** for `FanoutSpec`.  A broadcast walks a list that shrinks behind
  and before it; `OnItsWay` says that each client it owes is behind it, at the place
  where it waits, or before it, unless one was removed behind it.
* **`ListedClientsDiffer`.**  That nobody is listed twice rests on each endpoint joining
  once, and on a removal leaving what remains in its order (`WithoutShrinks`).
* **`OrderAttemptsBounded`.**  The counter's bound is not inductive: an attempt is
  counted after the test.  `AttemptsLeft` says where the task still has one.
* **`AdaptersWellFormed`, `TabWellFormed`, `SessionWellFormed`, `MirrorWellFormed`,
  `WatchlistWellFormed`, `SettingsStayAccepted`**: the remaining type invariants of these
  modules.  `SettingsStayAccepted` is about behaviour: neither the store nor the panel
  ever holds a value that the schema refuses, through batches that stop halfway,
  seeds and restarts.
* **`QuotesNeverOverwriteTicks`** for `WatchSpec`, from `HeldUnpriced`: the row
  objects that a quotes request holds are never those of rows with a price.
* **`PanelShowsCaps`** for `SettingsSpec`, under the assumption that no setting taken
  from the environment is a cap (only the scheduler's are).
* **`MirrorAnswers`** for `MasterSpec`.  `MirrorInv`: a row tells a contract that is or
  was listed, under its ticker, none beyond today's horizon; and of each master of the
  timestamp the mirror has every ticker listed on that day.  A ticker tells its
  contract (`TickerTells`), so no row hides another.  The mirror then lacks only what
  was listed since, at the far end of the horizon, and the first of its days in each
  class is the first listed (`SameFirst`).  What `list_expiries` has beyond the days
  unexpired today is at most the day before (`StillInList`), which is then the default
  or makes no difference (`EarlierDefault`).  `CalendarAssumption` says what this needs of
  the exchange: one monthly expiry a month, and none of the contracts listed last is
  the next of its form and class.
* **`SignalSettles`** for `FlowSpec`.  The events of many ticks are mixed on the bus,
  and handling one publishes others behind it.  `SignalComes` and `RegimeComes` say
  which event will have the last word, and `Paired` that a short signal event directly
  follows its long one, so that the two never end up different.
* **`CooldownHolds`** for `ScanSpec`: a proposal of this process keeps its type cooling
  (`KeepsCooling`).
* **`FlowWellFormed`, `ScannersWellFormed`, `SessionsWellFormed`, `RiskDeskWellFormed`,
  `DeskWellFormed`**: the type invariants of `SignalFlow`, `Scanners`, `Learning`,
  `RiskDesk` and `Desk`.  That averages in `RiskDesk` stay prices needs quantities above
  zero; that fills and rows are of traded instruments needs that positions are
  (`RiskDeskOK`), for a closing sells what no order of its own bought.
* **`VotesScoredInTheirSession`** for `LearnSpec`: what awaits an outcome was heard in
  this session, and a vote knows its signal (`VotesTied`, `AwaitingHeard`), although
  numbers begin again with each session.
* **`CallsStayBounded`, `SchedulerFollows`** for `ResearchSpec`.  The bound needs
  `Accounted`: what a run may have cost by its attempt and by the tool calls of that
  attempt.  `SchedulerAsConfigured` is inductive.
* **`DecisionsStand`, `LessonsAreOfApproved`, `ResearchWellFormed`** for `ResearchSpec`.
  A pass that answers late writes its brief as proposed, which would undo a decision if
  there could be one: `RunsUnwritten` says that a run under way has no brief yet.  With
  it each step writes at most one brief and its lesson (`Writes`).  Learning's store is
  written after that of the briefs and may fail by itself; it still has rows of approved
  briefs only, and results only of briefs with an outcome (`LessonsOfApproved`).
* **`DocumentsWereDecided`** for `KnowledgeSpec`: what counts as decided only grows, which
  is `DecisionsStand`, so no document loses its ground.
* **`PromisesAreKept`** for `KnowledgeSpec`.  What is promised must already be on disk
  (`OnDisk`), since a restart takes what the connection merely sees.
* **`CapHolds`** for `RiskSpec`.  An order that rests is a position that may still be
  opened, so the count of open positions alone is not inductive; with the resting
  orders it is (`CapWithResting`).
* **`BarsAgree`** for `BarsSpec`, for timeframes that divide each other.  `BarsInv`:
  bars rise in time, each fine bar lies in a coarse one, the last in the last (`Covers`),
  and each coarse bar is its fine bars put together (`AddUp`), the open bars counted in.
  A tick goes on with the last bar of each timeframe or begins a new one, and a coarse
  bar never begins without a fine one.
* **`BarsInOrder`, `BarsWellFormed`**: bars begin with a period, each after the one
  before, and close between their low and their high, though ticks come late.

**Induction over data.**  The library's induction theorems take an operator as a
parameter, which the provers cannot instantiate.  `InductionLemmas` replaces them by
induction over sets: a set of numbers with 0 and all successors is `Nat` (from the
well-foundedness of `<`), and a set that has each subset of whose smaller ones it has
all has every subset.  From these follow that a function defined along a sequence exists
and has the values its equation says (`Recursion`), that `SumFunction` and the other
folds of the community modules may be taken apart at any element (`SumEquation`,
`SumGrows`, `SumChangesAt`), that sums add up pointwise (`SumOfBoth`), that a finite set
of numbers has a greatest (`GreatestNumber`), and how counts and sums over a queue change when it is
joined, shortened or extended (`PlacesJoin`, `TotalJoin`, `TotalTail`).  Loops in
the proved modules are therefore recursive functions or folds, never RECURSIVE operators.

**Assumptions on constants.**  Besides ranges (naturals where the code has counts), the
proofs need that orders, symbols, instruments and supervisors are finitely many, that
quantities are positive, that every setting of the cap is a natural number, that chains
have finitely many contracts, that batches of settings are sequences, that proposals to
the risk desk name an instrument and a side, and the conditions on seeds and on the
calendar above.  TLC evaluates each of
them in the runs of its module.

What TLC alone checks: liveness (`PlacementResolves`, `ProjectionConverges`,
`HintsResolve`, `RetriesEnd`, `ConnectIsAnswered`, `ExpiryShown`), which is outside the
prover's reach.  Every invariant and every action property of a passing run is a theorem.
The functions of `SignalRules`, `ScannerRules` and `PortfolioRisk` compute, and are used by
the proofs only through the ranges of their results.

## 6. Where text and code disagree

* **A placement may be POSTed while the gate is armed** (`armed_post`).  The last
  check comes before the adapter is called, but the call waits in the token
  bucket and, after a 429, in a sleep before it POSTs.  The comments of
  `mode_router.py` say that an arm which lands while the placement is suspended
  keeps the order off the wire.  What does hold is `NoEntryAfterArm`: such orders are
  exactly those reported.
* **A rejected proposal may become an order** (`rejected_placed`).  Rejecting while
  the live approval is suspended answers that no order is placed; the order is
  accepted nevertheless and the proposal turns `APPROVED`.
* **An order filled in parts is overfilled** (`paper_overfill`).  A partial fill is
  said to keep the rest pending, but the fill that completes the order books its
  whole quantity again: a buy of 2 filled as 1 and the rest becomes a position of
  3.  The default configuration turns the fill model on, so this needs only a thin
  tick volume.  What does hold is `FillsBounded` and `PnlAddsUp`.
* **The loss limit never blocks** (`loss_limit`).  The filter compares the day's
  result with the limit, but the result it is given is always zero: nobody
  publishes one, and the paper engine's own is not asked.
* **A dropped browser socket stays closed** (`browser_reconnect`).  `connect()`
  returns unless `stopped` is set, and the retry timer calls it without setting it.
* **The stress test uses the wrong price or none** (`heatmap_stress`).  The position's
  metadata always has an `underlying` of `None`, so shares are left out of the
  scenarios and derivatives are revalued at the first price of the watchlist.  The
  test of the worst case passes because all scenarios are zero.

Two more were met without a run of their own.  `list_expiries` says that it returns
dates from today on (`instrument_master.py:598`) but goes by the date in UTC, while
`/resolve` and the watchlist go by the local one: between midnight and half past five in
India it still lists, and the options chain still defaults to, an expiry that is over;
`StillListed` in `FreshMirrorAnswers` is exactly this case.  And the HTTP client repeats an order POST after
a 429, although `docs/architecture/v2/sections/11-fyers-integration.md:20` rules
repeats out; `OneOrderPerDispatch` shows that these duplicate nothing.

## 7. Plan

What remains worth doing, in this order.

1. LIVE closing with quantities: the position of the paper engine that sizes a real
   order, and overlapping closes, over `Execution` and the positions of `PaperTrading`;
   cancelling and modifying live orders.
2. A property for the greeks of `PortfolioRisk`, once a document says what they are
   computed from.
3. `TokenBucket` over integer time, replacing the free wait in `OrderWire`.

## 8. Not modelled

* Cancelling and modifying live orders, account queries, the token bucket's
  arithmetic (a wait of any length).
* The position manager: the running program creates none.  The stop-hit cooldown:
  nobody calls `record_stop_hit`, so the filter always allows (`NoStopHits`).
* Options pricing (`options/greeks.py`, `quantlib_pricer.py`, `strategy_analyzer.py`)
  and indicators: floating point functions; where their results matter they are
  constants or readings.  Slippage and fill probability are a constant and a free
  choice; fees leave out the SEBI charge.
* Learning statistics, analytics, market and learning routers: computed on request
  from stored rows, without state of their own.  The request and response models.
* The four built-in research agents and the loop over them: text from numbers.
* The web front end beyond its socket, its topics and its connection pip.
* Failing writes of the watchlist file; wording of messages; payload encoding; search
  and tags of the knowledge base.
* Feature plugins, vote histories for correlation, and graduated shadows that vote:
  the application wires none of them (graduates register in a registry that the
  engine read at startup).
* Reading of the YAML configuration; the adapter to an external analysis service,
  which the application does not start.
