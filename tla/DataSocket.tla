----------------------------- MODULE DataSocket -----------------------------
(***************************************************************************)
(* The market-data socket (integration/fyers/data_socket.py).  The event   *)
(* loop starts and stops supervisor threads; a supervisor builds a socket  *)
(* of the SDK, subscribes what is registered, waits until the socket drops *)
(* and builds the next one after a delay.  The SDK reports from threads of *)
(* its own.  Event loop, supervisors and SDK share the wrapper's fields    *)
(* without a lock, so every step below may fall between any two steps of   *)
(* another thread.                                                         *)
(***************************************************************************)
EXTENDS Naturals, FiniteSets

CONSTANTS
  Supervisors,  \* bound: supervisor threads that may be alive together
  FeedSymbols,  \* symbols that may be subscribed
  MaxRestarts   \* _max_restart_attempts

ASSUME FeedAssumption ==
  /\ IsFiniteSet(Supervisors) /\ {"none", "stale"} \cap Supervisors = {}
  /\ MaxRestarts \in Nat

VARIABLES
  at,           \* [Supervisors -> where the thread is, "off" when there is none]
  snapshot,     \* [Supervisors -> pending: the symbols to subscribe on its socket]
  subscribed,   \* [Supervisors -> symbols that its SDK socket in use has]
  link,         \* _socket: whose latest socket it is, "stale" for an older one
  feedRunning,  \* _running
  stop,         \* _stop_event
  disconnected, \* _disconnected
  reconnecting, \* _reconnecting
  restarts,     \* _restart_attempt
  feedFatal,    \* _fatal_error is set
  future,       \* _supervisor_future: the supervisor it stands for, or "none"
  awaited,      \* supervisors that suspended disconnect() calls wait for
  registry,     \* _subscriptions
  late,         \* history: symbols that missed the latest socket, see SymbolsRestored
  alone         \* history: the latest snapshot's supervisor has been the only one since

supervisorVars == <<at, snapshot, subscribed>>
fieldVars == <<link, feedRunning, stop, disconnected, reconnecting, restarts, feedFatal, future>>
registryVars == <<registry, late, alone>>
feedVars == <<supervisorVars, fieldVars, awaited, registryVars>>

Places ==
  { "off",
    "starting",   \* at the head of the loop
    "built",      \* has built a socket that _socket does not hold yet
    "connecting", \* in the SDK's connect()
    "waiting",    \* until stopped or disconnected
    "deciding",   \* the socket is gone
    "sleeping",   \* between two sockets
    "leaving",    \* out of the loop
    "released" }  \* all but the last assignment of the finally block done

FeedInit ==
  /\ at = [t \in Supervisors |-> "off"]
  /\ snapshot = [t \in Supervisors |-> {}]
  /\ subscribed = [t \in Supervisors |-> {}]
  /\ link = "none" /\ future = "none"
  /\ feedRunning = FALSE /\ stop = FALSE /\ disconnected = FALSE
  /\ reconnecting = FALSE /\ feedFatal = FALSE
  /\ restarts = 0
  /\ awaited = {} /\ registry = {} /\ late = {} /\ alone = FALSE

Alive == {t \in Supervisors : at[t] # "off"}

Goes(t, from, to) == at[t] = from /\ at' = [at EXCEPT ![t] = to]

-----------------------------------------------------------------------------
\* The event loop.

\* connect() starts a thread; which of the unused ones it is makes no difference.
Starts(t) ==
  /\ t \notin awaited /\ Goes(t, "off", "starting")
  /\ t = CHOOSE u \in Supervisors : at[u] = "off" /\ u \notin awaited
  /\ feedRunning' = TRUE /\ restarts' = 0 /\ stop' = FALSE
  /\ future' = t
  /\ alone' = FALSE /\ late' = {}

\* connect(), which does nothing while it believes a supervisor is running.
FeedConnects(t) ==
  /\ ~feedRunning
  /\ Starts(t)
  /\ UNCHANGED <<snapshot, subscribed, link, disconnected, reconnecting, feedFatal, awaited,
                 registry>>

\* reconnect() also clears the fatal error.
FeedReconnects(t) ==
  /\ feedFatal' = FALSE
  /\ IF feedRunning
     THEN UNCHANGED <<at, feedRunning, restarts, stop, future, alone, late>>
     ELSE Starts(t)
  /\ UNCHANGED <<snapshot, subscribed, link, disconnected, reconnecting, awaited, registry>>

\* disconnect() up to its await: closing the SDK socket makes it report a close.
FeedDisconnects ==
  /\ feedRunning' = FALSE /\ stop' = TRUE
  /\ disconnected' = (disconnected \/ link # "none")
  /\ IF future = "none"
     THEN link' = "none" /\ UNCHANGED awaited
     ELSE awaited' = awaited \cup {future} /\ UNCHANGED link
  /\ UNCHANGED <<supervisorVars, reconnecting, restarts, feedFatal, future, registryVars>>

\* The awaited supervisor has ended, or two seconds are over: then it lives on.
DisconnectReturns(t) ==
  /\ t \in awaited
  /\ awaited' = awaited \ {t}
  /\ link' = "none"
  /\ UNCHANGED <<supervisorVars, feedRunning, stop, disconnected, reconnecting, restarts,
                 feedFatal, future, registryVars>>

\* A supervisor's socket is in use; what an abandoned one has does not matter.
HasSocket(t) == t \in Supervisors /\ at[t] \in {"connecting", "waiting"}

\* subscribe(): the SDK call may fail.
FeedSubscribes(s, ok) ==
  /\ registry' = registry \cup {s}
  /\ IF ok /\ HasSocket(link)
     THEN subscribed' = [subscribed EXCEPT ![link] = @ \cup {s}] /\ UNCHANGED late
     ELSE UNCHANGED subscribed
          /\ late' = IF alone /\ (link # "none" \/ \E t \in Supervisors : at[t] = "built")
                     THEN late \cup {s} ELSE late
  /\ UNCHANGED <<at, snapshot, fieldVars, awaited, alone>>

FeedUnsubscribes(s, ok) ==
  /\ registry' = registry \ {s}
  /\ subscribed' = IF ok /\ HasSocket(link)
                   THEN [subscribed EXCEPT ![link] = @ \ {s}] ELSE subscribed
  /\ UNCHANGED <<at, snapshot, fieldVars, awaited, late, alone>>

-----------------------------------------------------------------------------
\* A supervisor.

Stopped(t, from) ==
  /\ stop /\ Goes(t, from, "leaving")
  /\ subscribed' = [subscribed EXCEPT ![t] = {}]
  /\ UNCHANGED <<snapshot, fieldVars, awaited, registryVars>>

\* Faulty variant: the symbols to subscribe are collected for the first socket
\* only.
BuildFromFirstSnapshot(t) ==
  /\ ~stop /\ Goes(t, "starting", "built")
  /\ feedFatal' = FALSE
  /\ snapshot' = [snapshot EXCEPT ![t] = IF restarts = 0 THEN registry ELSE @]
  /\ subscribed' = [subscribed EXCEPT ![t] = {}]
  /\ link' = IF link = t THEN "stale" ELSE link
  /\ late' = {} /\ alone' = (Alive = {t})
  /\ UNCHANGED <<feedRunning, stop, disconnected, reconnecting, restarts, future, awaited, registry>>

Build(t) ==
  /\ ~stop /\ Goes(t, "starting", "built")
  /\ feedFatal' = FALSE
  /\ snapshot' = [snapshot EXCEPT ![t] = registry]
  /\ subscribed' = [subscribed EXCEPT ![t] = {}]
  /\ link' = IF link = t THEN "stale" ELSE link
  /\ late' = {} /\ alone' = (Alive = {t})
  /\ UNCHANGED <<feedRunning, stop, disconnected, reconnecting, restarts, future, awaited, registry>>

Adopt(t) ==
  /\ Goes(t, "built", "connecting")
  /\ link' = t
  /\ reconnecting' = FALSE /\ disconnected' = FALSE
  /\ UNCHANGED <<snapshot, subscribed, feedRunning, stop, restarts, feedFatal, future, awaited,
                 registryVars>>

\* The SDK's connect() ends with an exception or a link; then the SDK takes the
\* snapshot or refuses it, which is only logged.
SdkConnectFails(t) ==
  /\ Goes(t, "connecting", "deciding")
  /\ snapshot' = [snapshot EXCEPT ![t] = {}]
  /\ subscribed' = [subscribed EXCEPT ![t] = {}]
  /\ UNCHANGED <<fieldVars, awaited, registryVars>>

SdkConnectEnds(t, taken) ==
  /\ Goes(t, "connecting", "waiting")
  /\ IF taken
     THEN subscribed' = [subscribed EXCEPT ![t] = @ \cup snapshot[t]] /\ UNCHANGED late
     ELSE late' = (IF alone THEN late \cup snapshot[t] ELSE late) /\ UNCHANGED subscribed
  /\ snapshot' = [snapshot EXCEPT ![t] = {}]
  /\ UNCHANGED <<fieldVars, awaited, registry, alone>>

SeesDisconnect(t) ==
  /\ ~stop /\ disconnected /\ Goes(t, "waiting", "deciding")
  /\ subscribed' = [subscribed EXCEPT ![t] = {}]
  /\ UNCHANGED <<snapshot, fieldVars, awaited, registryVars>>

\* Faulty variant: a socket that drops is rebuilt without a limit.
DecideUnlimited(t) ==
  /\ ~stop
  /\ Goes(t, "deciding", IF feedFatal THEN "leaving" ELSE "sleeping")
  /\ reconnecting' = ~feedFatal
  /\ UNCHANGED <<snapshot, subscribed, link, feedRunning, stop, disconnected, restarts, feedFatal,
                 future, awaited, registryVars>>

\* After a fatal error the supervisor leaves, and after too many restarts.
Decide(t) ==
  /\ ~stop
  /\ \/ /\ feedFatal /\ Goes(t, "deciding", "leaving")
        /\ UNCHANGED <<restarts, feedFatal, reconnecting>>
     \/ /\ ~feedFatal /\ restarts >= MaxRestarts /\ Goes(t, "deciding", "leaving")
        /\ restarts' = restarts + 1 /\ feedFatal' = TRUE
        /\ UNCHANGED reconnecting
     \/ /\ ~feedFatal /\ restarts < MaxRestarts /\ Goes(t, "deciding", "sleeping")
        /\ restarts' = restarts + 1 /\ reconnecting' = TRUE
        /\ UNCHANGED feedFatal
  /\ UNCHANGED <<snapshot, subscribed, link, feedRunning, stop, disconnected, future, awaited,
                 registryVars>>

Wake(t) ==
  /\ ~stop /\ Goes(t, "sleeping", "starting")
  /\ UNCHANGED <<snapshot, subscribed, fieldVars, awaited, registryVars>>

\* Faulty variant: the supervisor leaves without giving up its claim.
ReleaseSocketOnly(t) ==
  /\ Goes(t, "leaving", "released")
  /\ reconnecting' = FALSE /\ link' = "none"
  /\ UNCHANGED <<snapshot, subscribed, feedRunning, stop, disconnected, restarts, feedFatal, future,
                 awaited, registryVars>>

\* The finally block; before its last assignment connect() can already start
\* another supervisor.
Release(t) ==
  /\ Goes(t, "leaving", "released")
  /\ reconnecting' = FALSE /\ link' = "none" /\ feedRunning' = FALSE
  /\ UNCHANGED <<snapshot, subscribed, stop, disconnected, restarts, feedFatal, future, awaited,
                 registryVars>>

Vanish(t) ==
  /\ Goes(t, "released", "off")
  /\ future' = "none"
  /\ UNCHANGED <<snapshot, subscribed, link, feedRunning, stop, disconnected, reconnecting,
                 restarts, feedFatal, awaited, registryVars>>

Supervise(t) ==
  \/ \E from \in {"starting", "waiting", "deciding", "sleeping"} : Stopped(t, from)
  \/ Build(t) \/ Adopt(t) \/ SeesDisconnect(t) \/ Decide(t) \/ Wake(t) \/ Release(t) \/ Vanish(t)
  \/ SdkConnectFails(t) \/ \E taken \in BOOLEAN : SdkConnectEnds(t, taken)

-----------------------------------------------------------------------------
\* The SDK's reports, from the socket of a supervisor.

SdkConnected ==
  /\ \E t \in Supervisors : HasSocket(t)
  /\ restarts' = 0
  /\ UNCHANGED <<supervisorVars, link, feedRunning, stop, disconnected, reconnecting, feedFatal,
                 future, awaited, registryVars>>

\* Also a socket that was replaced meanwhile reports its close.
SdkClosed ==
  /\ \E t \in Supervisors : HasSocket(t) \/ at[t] \in {"deciding", "sleeping", "starting", "built"}
  /\ disconnected' = TRUE
  /\ UNCHANGED <<supervisorVars, link, feedRunning, stop, reconnecting, restarts, feedFatal, future,
                 awaited, registryVars>>

SdkTokenExpired ==
  /\ \E t \in Supervisors : HasSocket(t)
  /\ feedFatal' = TRUE /\ disconnected' = TRUE
  /\ UNCHANGED <<supervisorVars, link, feedRunning, stop, reconnecting, restarts, future, awaited,
                 registryVars>>

FeedOperator ==
  \/ \E t \in Supervisors : FeedConnects(t) \/ FeedReconnects(t) \/ DisconnectReturns(t)
  \/ FeedDisconnects
  \/ \E s \in FeedSymbols, ok \in BOOLEAN : FeedSubscribes(s, ok) \/ FeedUnsubscribes(s, ok)

FeedSdk == SdkConnected \/ SdkClosed \/ SdkTokenExpired

FeedNext == FeedOperator \/ FeedSdk \/ \E t \in Supervisors : Supervise(t)

FeedSpec == FeedInit /\ [][FeedNext]_feedVars

-----------------------------------------------------------------------------
FeedTypeOK ==
  /\ at \in [Supervisors -> Places]
  /\ snapshot \in [Supervisors -> SUBSET FeedSymbols]
  /\ subscribed \in [Supervisors -> SUBSET FeedSymbols]
  /\ link \in Supervisors \cup {"none", "stale"}
  /\ future \in Supervisors \cup {"none"}
  /\ {feedRunning, stop, disconnected, reconnecting, feedFatal} \subseteq BOOLEAN
  /\ restarts \in 0 .. MaxRestarts + Cardinality(Supervisors)
  /\ awaited \subseteq Supervisors
  /\ registry \subseteq FeedSymbols /\ late \subseteq FeedSymbols /\ alone \in BOOLEAN

\* When no supervisor is left, the wrapper knows it: it shows no link, and
\* connect() starts a supervisor instead of believing one is running.  (Two
\* supervisors at a time are possible, and each resets the other's fields.)
DeadMeansIdle ==
  Alive = {} => ~feedRunning /\ ~reconnecting /\ link = "none"

\* A symbol that was registered is on the socket that its only supervisor has
\* connected, after any number of restarts, unless the SDK refused it or the
\* registration came between the snapshot and the assignment of _socket.
SymbolsRestored ==
  \A t \in Supervisors :
    alone /\ at[t] = "waiting" /\ link = t => registry \subseteq subscribed[t] \cup late

\* A socket that keeps dropping is given up, unless the SDK reports a link or
\* the operator starts a supervisor again and again.
RetriesEnd ==
  []<>(\E t \in Supervisors : at[t] = "deciding") =>
    []<><<SdkConnected \/ \E t \in Supervisors : FeedConnects(t) \/ FeedReconnects(t)>>_feedVars
=============================================================================
