---------------------------- MODULE BrowserSocket ---------------------------
(***************************************************************************)
(* The browser's side of the WebSocket: lib/ws.ts with its retry timer and *)
(* its registry of topics, and the connection pip of                       *)
(* lib/connection.svelte.ts that the header feeds from the socket, from    *)
(* the server's pushes and from the health poll.                           *)
(***************************************************************************)
EXTENDS Integers, Sequences

CONSTANTS
  PanelTopics,   \* topics that panels may mount handlers for
  MaxTabEvents   \* bound: mounts, unmounts, drops, loads, pushes and polls

ASSUME BrowserSocketAssumption == PanelTopics # {}

PipStates == {"live", "connecting", "stale", "disconnected", "expired", "unknown"}
ServerStates == {"connected", "stale", "expired", "disconnected"}

VARIABLES
  stopped,     \* stopped
  socket,      \* socket: "none", "connecting" or "open"
  retryTimer,  \* retryTimer is set
  attempt,     \* reconnectAttempt, capped where the delay is
  panels,      \* subscribedTopics
  frames,      \* subscribe frames on the way to the server
  declared,    \* the server's topics of this connection, {} for all
  pip,         \* connectionStore.state
  tabEvents

tabVars == <<stopped, socket, retryTimer, attempt, panels, frames, declared, pip, tabEvents>>

Used == tabEvents < MaxTabEvents /\ tabEvents' = tabEvents + 1

TabInit ==
  /\ stopped = TRUE /\ socket = "none" /\ retryTimer = FALSE /\ attempt = 0
  /\ panels = {} /\ frames = <<>> /\ declared = {} /\ pip = "unknown" /\ tabEvents = 0

\* Doubling from 2 s reaches the cap of 30 s with the fourth attempt.
NextAttempt == IF attempt < 4 THEN attempt + 1 ELSE attempt

\* connect() returns at once unless the client is stopped.
ConnectTab ==
  IF ~stopped THEN UNCHANGED <<stopped, socket>>
  ELSE stopped' = FALSE /\ socket' = "connecting"

\* App.svelte mounts.
AppMounts ==
  /\ stopped /\ Used
  /\ ConnectTab
  /\ UNCHANGED <<retryTimer, attempt, panels, frames, declared, pip>>

\* Faulty variant: topics wait for the next change of the registry.
DeclaredOnOpenNever == <<>>

\* What onopen sends.
DeclaredOnOpen == <<panels>>

SocketOpens ==
  /\ socket = "connecting"
  /\ socket' = "open" /\ attempt' = 0
  /\ frames' = DeclaredOnOpen /\ declared' = {}
  /\ UNCHANGED <<stopped, retryTimer, panels, pip, tabEvents>>

\* onerror and onclose: the timers are cleared and the retry is scheduled;
\* the pip falls back whatever it showed.
SocketDrops ==
  /\ socket # "none" /\ Used
  /\ socket' = "none" /\ frames' = <<>> /\ declared' = {}
  /\ retryTimer' = TRUE /\ attempt' = NextAttempt
  /\ pip' = "connecting"
  /\ UNCHANGED <<stopped, panels>>

\* The retry timer calls connect().
RetryFires ==
  /\ retryTimer
  /\ retryTimer' = FALSE
  /\ ConnectTab
  /\ UNCHANGED <<attempt, panels, frames, declared, pip, tabEvents>>

\* stop(), when App.svelte unmounts.
AppUnmounts ==
  /\ ~stopped /\ Used
  /\ stopped' = TRUE /\ socket' = "none" /\ retryTimer' = FALSE /\ attempt' = 0
  /\ frames' = <<>> /\ declared' = {}
  /\ UNCHANGED <<panels, pip>>

\* onMessage() and the function it returns; a frame leaves if the socket is open.
Declare(topics) ==
  /\ panels' = topics
  /\ frames' = IF socket = "open" THEN Append(frames, topics) ELSE frames
PanelMounts(t) == t \notin panels /\ Used /\ Declare(panels \cup {t})
PanelUnmounts(t) == t \in panels /\ Used /\ Declare(panels \ {t})
PanelStep ==
  /\ \E t \in PanelTopics : PanelMounts(t) \/ PanelUnmounts(t)
  /\ UNCHANGED <<stopped, socket, retryTimer, attempt, declared, pip>>

\* The endpoint takes a frame; no topics means all.
FrameArrives ==
  /\ frames # <<>>
  /\ declared' = Head(frames) /\ frames' = Tail(frames)
  /\ UNCHANGED <<stopped, socket, retryTimer, attempt, panels, pip, tabEvents>>

PipOf(state) == IF state = "connected" THEN "live" ELSE state

\* A "connection" broadcast reaches the header.
ServerPushes ==
  /\ socket = "open" /\ Used
  /\ declared = {} \/ "connection" \in declared
  /\ "connection" \in panels
  /\ \E state \in ServerStates : pip' = PipOf(state)
  /\ UNCHANGED <<stopped, socket, retryTimer, attempt, panels, frames, declared>>

\* The health poll fills in only while nothing is known.
HealthPolled ==
  /\ pip = "unknown" /\ Used
  /\ \E state \in ServerStates : pip' = PipOf(state)
  /\ UNCHANGED <<stopped, socket, retryTimer, attempt, panels, frames, declared>>

TabNext ==
  \/ AppMounts \/ SocketOpens \/ SocketDrops \/ RetryFires \/ AppUnmounts
  \/ PanelStep \/ FrameArrives \/ ServerPushes \/ HealthPolled

TabSpec == TabInit /\ [][TabNext]_tabVars

-----------------------------------------------------------------------------
\* Type invariant.
TabTypeOK ==
  /\ stopped \in BOOLEAN /\ retryTimer \in BOOLEAN
  /\ socket \in {"none", "connecting", "open"} /\ attempt \in 0..4
  /\ panels \subseteq PanelTopics /\ frames \in Seq(SUBSET PanelTopics)
  /\ declared \subseteq PanelTopics /\ pip \in PipStates

\* A topic reaches a panel only if client and server agree on the topics, and
\* panels come and go before, while and after the socket opens.  Once no
\* frame is on the way on an open socket, the server's topics are the panels'.
TopicsDeclared == socket = "open" /\ frames = <<>> => declared = panels

\* lib/ws.ts:1 calls the client one "with auto-reconnect": a client that was
\* not stopped has a socket or a retry ahead of it.
DropsAreRetried == ~stopped => socket # "none" \/ retryTimer
=============================================================================
