---------------------------- MODULE TerminalInit ----------------------------
(***************************************************************************)
(* Building the broker adapters (terminal/api/terminal_init.py): at        *)
(* startup, after each login (fyers_callback of auth_router.py) and after  *)
(* each save of credentials (_safe_bootstrap, the only caller that takes a *)
(* lock).  A call suspends while it disconnects the adapters of an earlier *)
(* call and while it connects those it built; another call may run         *)
(* meanwhile.                                                              *)
(*                                                                         *)
(* An adapter stands for all that one call builds: session, sockets, data  *)
(* and trading adapter.  Tokens are numbered in the order of the logins.   *)
(***************************************************************************)
EXTENDS Naturals, FiniteSets, Sequences

CONSTANTS
  Logins,       \* calls made at startup and after logins
  Saves,        \* calls made after a save of credentials
  MaxAdapters,  \* bound: adapters that are built
  MaxTokens     \* bound: tokens that are obtained

ASSUME InitAssumption == Logins \cap Saves = {} /\ MaxAdapters \in Nat /\ MaxTokens \in Nat \ {0}

VARIABLES
  phase,       \* [Calls -> where the call is suspended, "idle" without one]
  handled,     \* [Calls -> the adapter it disconnects or connects, or 0]
  serving,     \* startup is over and requests are served
  token,       \* the stored access token, 0 when there is none
  tokens,      \* tokens obtained so far
  expired,     \* tokens that the broker does not accept any more
  adapter,     \* app.state.data_adapter and its companions, 0 for None
  tokenOf,     \* sequence: the tokens of the adapters built so far
  feeds,       \* adapters whose data socket delivers ticks
  builders,    \* adapters whose call subscribed a bar builder to the bus
  initialized, \* app.state.terminal_initialized
  overlapped,  \* history: two calls were under way together
  faulted      \* history: a call failed after it had subscribed a bar builder

storeVars == <<token, tokens, expired>>
madeVars == <<adapter, tokenOf, builders>>
initVars == <<phase, handled, serving, storeVars, madeVars, feeds, initialized, overlapped, faulted>>

Calls == Logins \cup Saves

Phases ==
  { "idle",
    "stopping",    \* disconnects the adapter of an earlier call
    "connecting",  \* waits for the handshake of the order socket
    "priming" }    \* fetches the options chain

AdaptersInit ==
  /\ phase = [c \in Calls |-> "idle"]
  /\ handled = [c \in Calls |-> 0]
  /\ serving = FALSE
  /\ token \in 0 .. 1 /\ tokens = token /\ expired = {}
  /\ adapter = 0 /\ tokenOf = <<>>
  /\ feeds = {} /\ builders = {}
  /\ initialized = FALSE /\ overlapped = FALSE /\ faulted = FALSE

UnderWay(c) == phase[c] # "idle"

Resumes(c, what, a) ==
  /\ phase' = [phase EXCEPT ![c] = what]
  /\ handled' = [handled EXCEPT ![c] = a]

-----------------------------------------------------------------------------
\* The steps of init_terminal_adapters.

Outcomes == {"wired", "emptyWatchlist", "badSymbol"}

\* With a token, build adapters, subscribe a bar builder and the ticks of the
\* watchlist, and begin to connect.  With an empty watchlist nothing is
\* connected, and a symbol that cannot be resolved ends the call, but not what
\* it has built.
Construct(c, outcome) ==
  IF token' = 0
  THEN /\ Resumes(c, "idle", 0)
       /\ adapter' = 0
       /\ UNCHANGED <<tokenOf, builders, faulted>>
  ELSE LET new == Len(tokenOf) + 1
       IN /\ new <= MaxAdapters
          /\ adapter' = new
          /\ tokenOf' = Append(tokenOf, token')
          /\ builders' = IF outcome = "emptyWatchlist" THEN builders ELSE builders \cup {new}
          /\ faulted' = (faulted \/ outcome = "badSymbol")
          /\ CASE outcome = "wired"          -> Resumes(c, "connecting", new)
               [] outcome = "emptyWatchlist" -> Resumes(c, "priming", 0)
               [] outcome = "badSymbol"      -> Resumes(c, "idle", 0)

\* After a full success nothing is done any more.  Otherwise the adapter of an
\* earlier call is disconnected first.
Begin(c, outcome) ==
  /\ ~UnderWay(c)
  /\ IF initialized THEN UNCHANGED <<phase, handled, madeVars, faulted>>
     ELSE IF adapter = 0 THEN Construct(c, outcome)
     ELSE Resumes(c, "stopping", adapter) /\ UNCHANGED <<madeVars, faulted>>
  /\ overlapped' = (overlapped \/ \E d \in Calls : UnderWay(d))
  /\ UNCHANGED <<feeds, initialized>>

\* The old adapter is disconnected; whatever app.state holds by now is dropped.
StopEnds(c, outcome) ==
  /\ phase[c] = "stopping"
  /\ UNCHANGED <<serving, storeVars, initialized, overlapped>>
  /\ Construct(c, outcome)
  /\ feeds' = feeds \ {handled[c]}

\* Faulty variant: only a call whose data socket came up counts as a success.
ConnectEndsOnline(c, sdk) ==
  /\ phase[c] = "connecting"
  /\ feeds' = IF sdk /\ tokenOf[handled[c]] \notin expired THEN feeds \cup {handled[c]} ELSE feeds
  /\ initialized' = (initialized \/ feeds' # feeds)
  /\ Resumes(c, "priming", 0)
  /\ UNCHANGED <<serving, storeVars, madeVars, overlapped, faulted>>

\* The handshake of the order socket is over, with or without success, and the
\* data socket is started, which needs the SDK and a token that the broker
\* accepts; the call counts as a success either way.
ConnectEnds(c, sdk) ==
  /\ phase[c] = "connecting"
  /\ feeds' = IF sdk /\ tokenOf[handled[c]] \notin expired THEN feeds \cup {handled[c]} ELSE feeds
  /\ initialized' = TRUE
  /\ Resumes(c, "priming", 0)
  /\ UNCHANGED <<serving, storeVars, madeVars, overlapped, faulted>>

PrimeEnds(c) ==
  /\ phase[c] = "priming"
  /\ Resumes(c, "idle", 0)
  /\ UNCHANGED <<serving, storeVars, madeVars, feeds, initialized, overlapped, faulted>>

-----------------------------------------------------------------------------
\* Its callers, and the broker.

\* The lifespan builds the adapters when a valid token is stored, then serves.
Startup(c, outcome) ==
  /\ ~serving /\ tokenOf = <<>>
  /\ token # 0
  /\ UNCHANGED <<serving, storeVars>>
  /\ Begin(c, outcome)

Serve ==
  /\ ~serving /\ \A c \in Calls : ~UnderWay(c)
  /\ serving' = TRUE
  /\ UNCHANGED <<phase, handled, storeVars, madeVars, feeds, initialized, overlapped, faulted>>

\* The broker redirects the browser after a login: the code is exchanged for a
\* token, which is stored, and the adapters are built, without the lock.
LoginReturns(c, outcome) ==
  /\ serving /\ tokens < MaxTokens
  /\ tokens' = tokens + 1 /\ token' = tokens'
  /\ UNCHANGED <<serving, expired>>
  /\ Begin(c, outcome)

\* A save of credentials waits until no other save builds adapters.
SaveBootstraps(c, outcome) ==
  /\ serving /\ \A d \in Saves : ~UnderWay(d)
  /\ UNCHANGED <<serving, storeVars>>
  /\ Begin(c, outcome)

\* logout() clears the stored token and nothing else.
Logout ==
  /\ serving /\ token # 0
  /\ token' = 0
  /\ UNCHANGED <<phase, handled, serving, tokens, expired, madeVars, feeds, initialized, overlapped,
                 faulted>>

\* Tokens expire every night; the sockets that use them end.
TokenExpires(t) ==
  /\ t \in 1 .. tokens /\ t \notin expired
  /\ expired' = expired \cup {t}
  /\ feeds' = {a \in feeds : tokenOf[a] # t}
  /\ UNCHANGED <<phase, handled, serving, token, tokens, madeVars, initialized, overlapped, faulted>>

AdaptersNext ==
  \/ \E c \in Logins, outcome \in Outcomes : Startup(c, outcome) \/ LoginReturns(c, outcome)
  \/ \E c \in Saves, outcome \in Outcomes : SaveBootstraps(c, outcome)
  \/ \E c \in Calls, outcome \in Outcomes : StopEnds(c, outcome)
  \/ \E c \in Calls, sdk \in BOOLEAN : ConnectEnds(c, sdk)
  \/ \E c \in Calls : PrimeEnds(c)
  \/ Serve \/ Logout
  \/ \E t \in 1 .. MaxTokens : TokenExpires(t)

AdaptersSpec == AdaptersInit /\ [][AdaptersNext]_initVars

-----------------------------------------------------------------------------
AdaptersTypeOK ==
  /\ phase \in [Calls -> Phases]
  /\ handled \in [Calls -> 0 .. MaxAdapters]
  /\ {serving, initialized, overlapped, faulted} \subseteq BOOLEAN
  /\ {token, tokens} \subseteq 0 .. MaxTokens
  /\ expired \subseteq 1 .. tokens
  /\ tokenOf \in Seq(1 .. MaxTokens)
  /\ adapter \in 0 .. Len(tokenOf)
  /\ feeds \subseteq 1 .. Len(tokenOf) /\ builders \subseteq 1 .. Len(tokenOf)

\* However often the adapters are built after failures, logins, logouts and
\* expired tokens: no ticks come from an adapter that the application has lost
\* sight of, and one bar builder aggregates them.  Calls that overlapped are
\* excepted (only saves take the lock), and for the bar builders calls that
\* failed on a symbol (no later call stops the old builder).
OneFeed ==
  ~overlapped =>
    /\ feeds \subseteq {adapter}
    /\ ~faulted => Cardinality(builders) <= 1
=============================================================================
