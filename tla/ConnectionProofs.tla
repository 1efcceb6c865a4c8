-------------------------- MODULE ConnectionProofs --------------------------
(***************************************************************************)
(* Proofs about the connections of the terminal: the market-data socket    *)
(* and its supervisors, the adapters that are built at startup and login,  *)
(* the browser's socket and its topics, broadcasts, the watchlist, the     *)
(* caps that the settings store shows on the risk panel, and the mirror of *)
(* the broker's instrument masters.  Of the order socket and the token's   *)
(* health it has the types alone; what they promise is liveness.           *)
(*                                                                         *)
(* Few of the properties are inductive.  DeadMeansIdle needs a state for   *)
(* supervisors between the halves of another's finally block (AllReleased);*)
(* SymbolsRestored, where a symbol is while a socket is built; OneFeed,    *)
(* that a call under way acts on the adapter held; TopicsDeclared, that    *)
(* the last frame under way tells the panels' topics; BroadcastReaches,    *)
(* that whoever is due stands behind the walk; LivePriceWins, that the row *)
(* objects a request holds are not those of ticked rows; LimitsShown, that *)
(* decisions carry both caps or none; FreshMirrorAnswers, that the mirror  *)
(* has the ticker of whatever the masters of its timestamp listed.         *)
(***************************************************************************)
EXTENDS DataSocket, TerminalInit, BrowserSocket, Fanout, Watchlist, SettingsStore,
        InstrumentMaster, OrderSocket, SessionHealth, InductionLemmas

\* The data socket.

SocketsOK ==
  /\ at \in [Supervisors -> Places]
  /\ snapshot \in [Supervisors -> SUBSET FeedSymbols]
  /\ subscribed \in [Supervisors -> SUBSET FeedSymbols]

AllReleased == \A t \in Supervisors : at[t] \in {"off", "released"}

IdleWhenReleased == AllReleased => ~feedRunning /\ ~reconnecting /\ link = "none"

\* While alone holds, no two supervisors are alive.
OneAlive == alone => \A t, u \in Supervisors : at[t] # "off" /\ at[u] # "off" => t = u

\* Where the registered symbols are on their way to the socket.
BuiltHas(t) == at[t] = "built" => registry \subseteq snapshot[t] \cup late
ConnectingHas(t) ==
  at[t] = "connecting" /\ link = t => registry \subseteq snapshot[t] \cup subscribed[t] \cup late
WaitingHas(t) == at[t] = "waiting" /\ link = t => registry \subseteq subscribed[t] \cup late

OnTheirWay == alone => \A t \in Supervisors : BuiltHas(t) /\ ConnectingHas(t) /\ WaitingHas(t)

SocketInv == SocketsOK /\ IdleWhenReleased /\ OneAlive /\ OnTheirWay

LEMMA SocketInit == FeedInit => SocketInv
  BY DEF FeedInit, SocketInv, SocketsOK, Places, IdleWhenReleased, OneAlive, OnTheirWay

-----------------------------------------------------------------------------
\* The fields of sockets keep their types.
LEMMA SocketsStep == SocketsOK /\ registry \subseteq FeedSymbols /\ [FeedNext]_feedVars
                       => SocketsOK' /\ registry' \subseteq FeedSymbols
  <1> SUFFICES ASSUME SocketsOK, registry \subseteq FeedSymbols, [FeedNext]_feedVars
               PROVE  SocketsOK' /\ registry' \subseteq FeedSymbols
    OBVIOUS
  <1> USE DEF SocketsOK, Places
  <1>1. CASE FeedOperator
    <2>1. ASSUME NEW t \in Supervisors, FeedConnects(t) \/ FeedReconnects(t) \/ DisconnectReturns(t)
          PROVE  SocketsOK' /\ registry' \subseteq FeedSymbols
      BY <2>1 DEF FeedConnects, FeedReconnects, DisconnectReturns, Starts, Goes, supervisorVars,
                  registryVars
    <2>2. CASE FeedDisconnects
      BY <2>2 DEF FeedDisconnects, supervisorVars, registryVars
    <2>3. ASSUME NEW s \in FeedSymbols, NEW ok \in BOOLEAN,
                 FeedSubscribes(s, ok) \/ FeedUnsubscribes(s, ok)
          PROVE  SocketsOK' /\ registry' \subseteq FeedSymbols
      BY <2>3 DEF FeedSubscribes, FeedUnsubscribes
    <2> QED BY <1>1, <2>1, <2>2, <2>3 DEF FeedOperator
  <1>2. CASE FeedSdk
    BY <1>2 DEF FeedSdk, SdkConnected, SdkClosed, SdkTokenExpired, supervisorVars, registryVars
  <1>3. ASSUME NEW t \in Supervisors, Supervise(t)
        PROVE  SocketsOK' /\ registry' \subseteq FeedSymbols
    <2>1. ASSUME NEW from \in {"starting", "waiting", "deciding", "sleeping"}, Stopped(t, from)
          PROVE  SocketsOK' /\ registry' \subseteq FeedSymbols
      BY <2>1 DEF Stopped, Goes, registryVars
    <2>2. CASE Build(t) \/ Adopt(t)
      BY <2>2 DEF Build, Adopt, Goes, registryVars
    <2>3. CASE SeesDisconnect(t) \/ Decide(t) \/ Wake(t) \/ Release(t) \/ Vanish(t)
      BY <2>3 DEF SeesDisconnect, Decide, Wake, Release, Vanish, Goes, registryVars
    <2>4. CASE SdkConnectFails(t) \/ \E taken \in BOOLEAN : SdkConnectEnds(t, taken)
      BY <2>4 DEF SdkConnectFails, SdkConnectEnds, Goes, registryVars
    <2> QED BY <1>3, <2>1, <2>2, <2>3, <2>4 DEF Supervise
  <1>4. CASE UNCHANGED feedVars
    BY <1>4 DEF feedVars, supervisorVars, registryVars
  <1> QED BY <1>1, <1>2, <1>3, <1>4 DEF FeedNext

\* What holds of released supervisors: only the finally block makes one, and
\* it gives everything up.
LEMMA IdleStep == SocketsOK /\ IdleWhenReleased /\ [FeedNext]_feedVars => IdleWhenReleased'
  <1> SUFFICES ASSUME SocketsOK, IdleWhenReleased, [FeedNext]_feedVars, AllReleased'
               PROVE  ~feedRunning' /\ ~reconnecting' /\ link' = "none"
    BY DEF IdleWhenReleased
  <1> USE DEF SocketsOK, Places, IdleWhenReleased, AllReleased
  <1>1. CASE FeedOperator
    <2>1. ASSUME NEW t \in Supervisors, FeedConnects(t) \/ FeedReconnects(t) \/ DisconnectReturns(t)
          PROVE  ~feedRunning' /\ ~reconnecting' /\ link' = "none"
      BY <2>1 DEF FeedConnects, FeedReconnects, DisconnectReturns, Starts, Goes, supervisorVars
    <2>2. CASE FeedDisconnects
      BY <2>2 DEF FeedDisconnects, supervisorVars
    <2>3. ASSUME NEW s \in FeedSymbols, NEW ok \in BOOLEAN,
                 FeedSubscribes(s, ok) \/ FeedUnsubscribes(s, ok)
          PROVE  ~feedRunning' /\ ~reconnecting' /\ link' = "none"
      BY <2>3 DEF FeedSubscribes, FeedUnsubscribes, fieldVars
    <2> QED BY <1>1, <2>1, <2>2, <2>3 DEF FeedOperator
  <1>2. CASE FeedSdk
    BY <1>2 DEF FeedSdk, SdkConnected, SdkClosed, SdkTokenExpired, supervisorVars
  <1>3. ASSUME NEW t \in Supervisors, Supervise(t)
        PROVE  ~feedRunning' /\ ~reconnecting' /\ link' = "none"
    <2>1. ASSUME NEW from, NEW to \in Places \ {"off", "released"}, Goes(t, from, to)
          PROVE  FALSE
      BY <2>1 DEF Goes
    <2>2. CASE Release(t)
      BY <2>2 DEF Release
    <2>3. CASE Vanish(t)
      BY <2>3 DEF Vanish, Goes
    <2>4. CASE SdkConnectFails(t) \/ \E taken \in BOOLEAN : SdkConnectEnds(t, taken)
      BY <2>1, <2>4 DEF SdkConnectFails, SdkConnectEnds
    <2>5. CASE \E from \in {"starting", "waiting", "deciding", "sleeping"} : Stopped(t, from)
      BY <2>1, <2>5 DEF Stopped
    <2>6. CASE Build(t) \/ Adopt(t) \/ SeesDisconnect(t) \/ Decide(t) \/ Wake(t)
      BY <2>1, <2>6 DEF Build, Adopt, SeesDisconnect, Decide, Wake
    <2> QED BY <1>3, <2>2, <2>3, <2>4, <2>5, <2>6 DEF Supervise
  <1>4. CASE UNCHANGED feedVars
    BY <1>4 DEF feedVars, supervisorVars, fieldVars
  <1> QED BY <1>1, <1>2, <1>3, <1>4 DEF FeedNext

\* A supervisor is the only one when it takes its snapshot, or alone is not
\* set; whoever starts another resets it.
LEMMA OneAliveStep == SocketsOK /\ OneAlive /\ [FeedNext]_feedVars => OneAlive'
  <1> SUFFICES ASSUME SocketsOK, OneAlive, [FeedNext]_feedVars, alone'
               PROVE  \A t, u \in Supervisors : at'[t] # "off" /\ at'[u] # "off" => t = u
    BY DEF OneAlive
  <1> DEFINE Goal == \A t, u \in Supervisors : at'[t] # "off" /\ at'[u] # "off" => t = u
  <1> USE DEF SocketsOK, Places, OneAlive
  <1>1. ASSUME UNCHANGED <<at, alone>> PROVE Goal
    BY <1>1
  <1>2. ASSUME NEW t \in Supervisors, NEW from \in Places \ {"off"}, NEW to, Goes(t, from, to),
               UNCHANGED alone
        PROVE  Goal
    BY <1>2 DEF Goes
  <1>3. CASE FeedOperator
    <2>1. ASSUME NEW t \in Supervisors, FeedConnects(t) \/ FeedReconnects(t) PROVE Goal
      BY <1>1, <2>1 DEF FeedConnects, FeedReconnects, Starts
    <2>2. ASSUME NEW t \in Supervisors, DisconnectReturns(t) PROVE Goal
      BY <1>1, <2>2 DEF DisconnectReturns, supervisorVars, registryVars
    <2>3. CASE FeedDisconnects
      BY <1>1, <2>3 DEF FeedDisconnects, supervisorVars, registryVars
    <2>4. ASSUME NEW s \in FeedSymbols, NEW ok \in BOOLEAN,
                 FeedSubscribes(s, ok) \/ FeedUnsubscribes(s, ok)
          PROVE  Goal
      BY <1>1, <2>4 DEF FeedSubscribes, FeedUnsubscribes
    <2> QED BY <1>3, <2>1, <2>2, <2>3, <2>4 DEF FeedOperator
  <1>4. CASE FeedSdk
    BY <1>1, <1>4 DEF FeedSdk, SdkConnected, SdkClosed, SdkTokenExpired, supervisorVars, registryVars
  <1>5. ASSUME NEW t \in Supervisors, Supervise(t) PROVE Goal
    <2>1. CASE Build(t)
      BY <2>1 DEF Build, Goes, Alive
    <2>2. CASE Adopt(t) \/ SeesDisconnect(t) \/ Decide(t) \/ Wake(t) \/ Release(t) \/ Vanish(t)
      BY <1>2, <2>2 DEF Adopt, SeesDisconnect, Decide, Wake, Release, Vanish, registryVars
    <2>3. CASE SdkConnectFails(t) \/ \E taken \in BOOLEAN : SdkConnectEnds(t, taken)
      BY <1>2, <2>3 DEF SdkConnectFails, SdkConnectEnds, registryVars
    <2>4. CASE \E from \in {"starting", "waiting", "deciding", "sleeping"} : Stopped(t, from)
      BY <1>2, <2>4 DEF Stopped, registryVars
    <2> QED BY <1>5, <2>1, <2>2, <2>3, <2>4 DEF Supervise
  <1>6. CASE UNCHANGED feedVars
    BY <1>1, <1>6 DEF feedVars, supervisorVars, registryVars
  <1> QED BY <1>3, <1>4, <1>5, <1>6 DEF FeedNext

-----------------------------------------------------------------------------
\* Steps that leave the sockets of a supervisor and the registry alone.
LEMMA SocketKept ==
  ASSUME NEW u \in Supervisors, at'[u] = at[u], snapshot'[u] = snapshot[u],
         subscribed'[u] = subscribed[u], link' = u => link = u, late \subseteq late',
         registry' = registry, BuiltHas(u) /\ ConnectingHas(u) /\ WaitingHas(u)
  PROVE  BuiltHas(u)' /\ ConnectingHas(u)' /\ WaitingHas(u)'
  BY DEF BuiltHas, ConnectingHas, WaitingHas

\* A symbol that is registered or dropped while the only supervisor is on its
\* way reaches its socket or is late.
LEMMA RegistryKeeps ==
  ASSUME SocketsOK, OneAlive, OnTheirWay, alone, NEW s \in FeedSymbols, NEW ok \in BOOLEAN,
         FeedSubscribes(s, ok) \/ FeedUnsubscribes(s, ok), NEW u \in Supervisors
  PROVE  BuiltHas(u)' /\ ConnectingHas(u)' /\ WaitingHas(u)'
  <1> USE FeedAssumption DEF SocketsOK, OneAlive, OnTheirWay, BuiltHas, ConnectingHas, WaitingHas,
                             HasSocket, fieldVars
  <1>1. CASE FeedSubscribes(s, ok) /\ ok /\ HasSocket(link)
    BY <1>1 DEF FeedSubscribes
  <1>2. CASE FeedSubscribes(s, ok) /\ ~(ok /\ HasSocket(link))
    BY <1>2 DEF FeedSubscribes
  <1>3. CASE FeedUnsubscribes(s, ok)
    BY <1>3 DEF FeedUnsubscribes
  <1> QED BY <1>1, <1>2, <1>3

\* The registered symbols on their way, by the step that is taken.
LEMMA OnTheirWayStep ==
  SocketsOK /\ OneAlive /\ OnTheirWay /\ [FeedNext]_feedVars => OnTheirWay'
  <1> SUFFICES ASSUME SocketsOK, OneAlive, OnTheirWay, [FeedNext]_feedVars, alone',
                      NEW u \in Supervisors
               PROVE  BuiltHas(u)' /\ ConnectingHas(u)' /\ WaitingHas(u)'
    BY DEF OnTheirWay
  <1> DEFINE Goal == BuiltHas(u)' /\ ConnectingHas(u)' /\ WaitingHas(u)'
  <1>1. ASSUME UNCHANGED <<supervisorVars, registryVars>>, link' \in {link, "none"} PROVE Goal
    BY <1>1, SocketKept, FeedAssumption DEF OnTheirWay, supervisorVars, registryVars
  <1>2. ASSUME NEW t \in Supervisors, NEW from, NEW to \in Places \ {"built", "connecting", "waiting"},
               Goes(t, from, to), UNCHANGED registryVars, link' \in {link, "none"},
               \A v \in Supervisors : v # t => snapshot'[v] = snapshot[v] /\ subscribed'[v] = subscribed[v]
        PROVE  Goal
    <2>1. CASE u = t
      BY <1>2, <2>1 DEF Goes, SocketsOK, Places, BuiltHas, ConnectingHas, WaitingHas
    <2>2. CASE u # t
      BY <1>2, <2>2, SocketKept, FeedAssumption DEF Goes, SocketsOK, OnTheirWay, registryVars
    <2> QED BY <2>1, <2>2
  <1>3. CASE FeedOperator
    <2>1. ASSUME NEW t \in Supervisors, FeedConnects(t) \/ FeedReconnects(t) PROVE Goal
      BY <1>1, <2>1 DEF FeedConnects, FeedReconnects, Starts, supervisorVars, registryVars
    <2>2. ASSUME NEW t \in Supervisors, DisconnectReturns(t) PROVE Goal
      BY <1>1, <2>2 DEF DisconnectReturns
    <2>3. CASE FeedDisconnects
      BY <1>1, <2>3 DEF FeedDisconnects
    <2>4. ASSUME NEW s \in FeedSymbols, NEW ok \in BOOLEAN,
                 FeedSubscribes(s, ok) \/ FeedUnsubscribes(s, ok)
          PROVE  Goal
      BY <2>4, RegistryKeeps DEF FeedSubscribes, FeedUnsubscribes
    <2> QED BY <1>3, <2>1, <2>2, <2>3, <2>4 DEF FeedOperator
  <1>4. CASE FeedSdk
    BY <1>1, <1>4 DEF FeedSdk, SdkConnected, SdkClosed, SdkTokenExpired
  <1>5. ASSUME NEW t \in Supervisors, Supervise(t) PROVE Goal
    <2>1. CASE Build(t)
      BY <2>1 DEF Build, Goes, Alive, SocketsOK, Places, BuiltHas, ConnectingHas, WaitingHas
    <2>2. CASE Adopt(t)
      <3>1. alone /\ at[t] = "built" /\ link' = t
        BY <2>2 DEF Adopt, Goes, registryVars
      <3>2. CASE u = t
        BY <2>2, <3>1, <3>2 DEF Adopt, Goes, SocketsOK, OnTheirWay, BuiltHas, ConnectingHas,
                                WaitingHas, registryVars
      <3>3. CASE u # t
        BY <2>2, <3>1, <3>3, SocketKept DEF Adopt, Goes, SocketsOK, OnTheirWay, registryVars
      <3> QED BY <3>2, <3>3
    <2>3. CASE \E taken \in BOOLEAN : SdkConnectEnds(t, taken)
      <3>1. alone
        BY <2>3 DEF SdkConnectEnds
      <3>2. CASE u = t
        BY <2>3, <3>1, <3>2 DEF SdkConnectEnds, Goes, SocketsOK, OnTheirWay, BuiltHas, ConnectingHas,
                                WaitingHas, fieldVars
      <3>3. CASE u # t
        BY <2>3, <3>1, <3>3, SocketKept DEF SdkConnectEnds, Goes, SocketsOK, OnTheirWay, fieldVars
      <3> QED BY <3>2, <3>3
    <2>4. CASE SdkConnectFails(t)
      BY <1>2, <2>4 DEF SdkConnectFails, SocketsOK, Places, fieldVars
    <2>5. CASE \E from \in {"starting", "waiting", "deciding", "sleeping"} : Stopped(t, from)
      BY <1>2, <2>5 DEF Stopped, SocketsOK, Places, fieldVars
    <2>6. CASE SeesDisconnect(t)
      BY <1>2, <2>6 DEF SeesDisconnect, SocketsOK, Places, fieldVars
    <2>7. CASE Decide(t) \/ Wake(t)
      BY <1>2, <2>7 DEF Decide, Wake, Places, fieldVars
    <2>8. CASE Release(t) \/ Vanish(t)
      BY <1>2, <2>8 DEF Release, Vanish, Places
    <2> QED BY <1>5, <2>1, <2>2, <2>3, <2>4, <2>5, <2>6, <2>7, <2>8 DEF Supervise
  <1>6. CASE UNCHANGED feedVars
    BY <1>1, <1>6 DEF feedVars, fieldVars
  <1> QED BY <1>3, <1>4, <1>5, <1>6 DEF FeedNext

-----------------------------------------------------------------------------
LEMMA SocketInvariant == FeedSpec => [](SocketInv /\ registry \subseteq FeedSymbols)
  <1>1. FeedInit => SocketInv /\ registry \subseteq FeedSymbols
    BY SocketInit DEF FeedInit
  <1>2. SocketInv /\ registry \subseteq FeedSymbols /\ [FeedNext]_feedVars
          => (SocketInv /\ registry \subseteq FeedSymbols)'
    BY SocketsStep, IdleStep, OneAliveStep, OnTheirWayStep DEF SocketInv
  <1> QED BY <1>1, <1>2, PTL DEF FeedSpec

\* When no supervisor is left, data_socket.py's wrapper knows it, whatever
\* sequence of connects, disconnects and drops led there.
THEOREM DeadFeedIsIdle == FeedSpec => []DeadMeansIdle
  <1>1. SocketInv => DeadMeansIdle
    BY DEF SocketInv, IdleWhenReleased, AllReleased, DeadMeansIdle, Alive
  <1> QED BY <1>1, SocketInvariant, PTL

\* Every registered symbol is on the socket of a lone supervisor, or is known
\* to have come too late for it.
THEOREM SymbolsComeBack == FeedSpec => []SymbolsRestored
  <1>1. SocketInv => SymbolsRestored
    BY DEF SocketInv, OnTheirWay, WaitingHas, SymbolsRestored
  <1> QED BY <1>1, SocketInvariant, PTL

-----------------------------------------------------------------------------
\* Terminal initialisation.

\* The types that the steps need.
CallsOK ==
  /\ phase \in [Calls -> Phases] /\ handled \in [Calls -> Nat]
  /\ tokenOf \in Seq(Nat) /\ token \in Nat /\ tokens \in Nat /\ adapter \in Nat

\* Of calls that never overlap: the one under way acts on the adapter that the
\* application holds, only that one can deliver ticks, and a bar builder was
\* subscribed only by a call that connects or has succeeded, unless one failed.
OneCall == \A c, d \in Calls : UnderWay(c) /\ UnderWay(d) => c = d
HandlesHeld == \A c \in Calls : phase[c] \in {"stopping", "connecting"} => handled[c] = adapter /\ adapter # 0
StopsBeforeSuccess == \A c \in Calls : phase[c] = "stopping" => ~initialized
FeedOfHeld == feeds \subseteq {adapter} /\ 0 \notin feeds
Succeeding == initialized \/ \E c \in Calls : phase[c] = "connecting"
BuilderOfSuccess == ~faulted => /\ \E a : builders \subseteq {a}
                                /\ ~Succeeding => builders = {}

AdaptersInv ==
  /\ CallsOK
  /\ ~overlapped => OneCall /\ HandlesHeld /\ StopsBeforeSuccess /\ FeedOfHeld /\ BuilderOfSuccess

LEMMA AdaptersStart == AdaptersInit => AdaptersInv
  <1>1. ASSUME AdaptersInit PROVE AdaptersInv
    <2>1. CallsOK
      BY <1>1, EmptySeq DEF AdaptersInit, CallsOK, Phases
    <2>2. OneCall /\ HandlesHeld /\ StopsBeforeSuccess /\ FeedOfHeld /\ BuilderOfSuccess
      BY <1>1 DEF AdaptersInit, OneCall, HandlesHeld, StopsBeforeSuccess, FeedOfHeld,
                  BuilderOfSuccess, UnderWay
    <2> QED BY <2>1, <2>2 DEF AdaptersInv
  <1> QED BY <1>1

\* Building: no call but c is under way, and no tick comes any more.
LEMMA Builds ==
  ASSUME CallsOK, NEW c \in Calls, NEW outcome \in Outcomes, Construct(c, outcome),
         token' \in Nat, tokens' \in Nat
  PROVE  /\ CallsOK'
         /\ ( /\ ~initialized /\ initialized' = initialized /\ feeds' = {}
              /\ \A d \in Calls : UnderWay(d) => d = c
              /\ ~faulted => builders = {}
              => OneCall' /\ HandlesHeld' /\ StopsBeforeSuccess' /\ FeedOfHeld' /\ BuilderOfSuccess')
  <1>1. CASE token' = 0
    <2>1. /\ phase' = [phase EXCEPT ![c] = "idle"] /\ handled' = [handled EXCEPT ![c] = 0]
          /\ adapter' = 0 /\ UNCHANGED <<tokenOf, builders, faulted>>
      BY <1>1 DEF Construct, Resumes
    <2>2. CallsOK'
      BY <2>1 DEF CallsOK, Phases
    <2>3. ASSUME ~initialized, initialized' = initialized, feeds' = {},
                 \A d \in Calls : UnderWay(d) => d = c, ~faulted => builders = {}
          PROVE  OneCall' /\ HandlesHeld' /\ StopsBeforeSuccess' /\ FeedOfHeld' /\ BuilderOfSuccess'
      <3>1. \A d \in Calls : phase'[d] = "idle"
        BY <2>1, <2>3 DEF CallsOK, UnderWay
      <3> QED BY <2>1, <2>3, <3>1 DEF OneCall, HandlesHeld, StopsBeforeSuccess, FeedOfHeld, BuilderOfSuccess, UnderWay
    <2> QED BY <2>2, <2>3
  <1>2. CASE token' # 0
    <2> DEFINE new == Len(tokenOf) + 1
    <2>1. /\ adapter' = new /\ tokenOf' = Append(tokenOf, token')
          /\ builders' = IF outcome = "emptyWatchlist" THEN builders ELSE builders \cup {new}
          /\ faulted' = (faulted \/ outcome = "badSymbol")
      BY <1>2 DEF Construct
    <2>2. PICK what \in {"connecting", "priming", "idle"}, a \in {0, new} :
            /\ Resumes(c, what, a)
            /\ what = "connecting" <=> outcome = "wired"
            /\ what = "connecting" => a = new
      BY <1>2 DEF Construct, Outcomes
    <2>3. new \in Nat \ {0}
      BY DEF CallsOK
    <2> HIDE DEF new
    <2>4. phase' = [phase EXCEPT ![c] = what] /\ handled' = [handled EXCEPT ![c] = a]
      BY <2>2 DEF Resumes
    <2>5. CallsOK'
      <3>1. tokenOf' \in Seq(Nat)
        BY <2>1 DEF CallsOK
      <3> QED BY <2>1, <2>3, <2>4, <3>1 DEF CallsOK, Phases
    <2>6. ASSUME ~initialized, initialized' = initialized, feeds' = {},
                 \A d \in Calls : UnderWay(d) => d = c, ~faulted => builders = {}
          PROVE  OneCall' /\ HandlesHeld' /\ StopsBeforeSuccess' /\ FeedOfHeld' /\ BuilderOfSuccess'
      <3>1. phase'[c] = what /\ handled'[c] = a /\ \A d \in Calls \ {c} : phase'[d] = "idle"
        BY <2>4, <2>6 DEF CallsOK, UnderWay
      <3>2. OneCall' /\ HandlesHeld' /\ StopsBeforeSuccess' /\ FeedOfHeld'
        BY <2>1, <2>2, <2>3, <2>6, <3>1 DEF OneCall, HandlesHeld, StopsBeforeSuccess, FeedOfHeld, UnderWay
      <3>3. BuilderOfSuccess'
        <4>1. CASE outcome = "wired"
          BY <2>1, <2>2, <2>6, <3>1, <4>1 DEF BuilderOfSuccess, Succeeding
        <4>2. CASE outcome = "emptyWatchlist"
          BY <2>1, <2>6, <4>2 DEF BuilderOfSuccess
        <4>3. CASE outcome = "badSymbol"
          BY <2>1, <4>3 DEF BuilderOfSuccess
        <4> QED BY <4>1, <4>2, <4>3 DEF Outcomes
      <3> QED BY <3>2, <3>3
    <2> QED BY <2>5, <2>6
  <1> QED BY <1>1, <1>2

\* Beginning: a call that is admitted takes over the adapter that is held and its feed.
LEMMA Begins ==
  ASSUME AdaptersInv, NEW c \in Calls, NEW outcome \in Outcomes, Begin(c, outcome),
         token' \in Nat, tokens' \in Nat
  PROVE  AdaptersInv'
  <1>1. ~UnderWay(c) /\ UNCHANGED <<feeds, initialized>>
    BY DEF Begin
  <1>2. overlapped' = (overlapped \/ \E d \in Calls : UnderWay(d))
    BY DEF Begin
  <1>3. CASE initialized
    <2>1. UNCHANGED <<phase, handled, adapter, tokenOf, builders, faulted>>
      BY <1>3 DEF Begin, madeVars
    <2> QED BY <1>1, <1>2, <2>1 DEF AdaptersInv, CallsOK, OneCall, HandlesHeld, StopsBeforeSuccess,
                                    FeedOfHeld, BuilderOfSuccess, Succeeding, UnderWay
  <1>4. CASE ~initialized /\ adapter = 0
    <2>1. Construct(c, outcome)
      BY <1>4 DEF Begin
    <2>2. ASSUME ~overlapped'
          PROVE  feeds' = {} /\ (\A d \in Calls : ~UnderWay(d)) /\ (~faulted => builders = {})
      <3>1. ~overlapped /\ \A d \in Calls : phase[d] = "idle"
        BY <1>2, <2>2 DEF UnderWay
      <3> QED BY <1>1, <1>4, <3>1 DEF AdaptersInv, FeedOfHeld, BuilderOfSuccess, Succeeding, UnderWay
    <2> QED BY <1>1, <1>4, <2>1, <2>2, Builds DEF AdaptersInv
  <1>5. CASE ~initialized /\ adapter # 0
    <2>1. /\ phase' = [phase EXCEPT ![c] = "stopping"] /\ handled' = [handled EXCEPT ![c] = adapter]
          /\ UNCHANGED <<adapter, tokenOf, builders, faulted>>
      BY <1>5 DEF Begin, Resumes, madeVars
    <2>2. CallsOK'
      BY <2>1 DEF AdaptersInv, CallsOK, Phases
    <2>3. ASSUME ~overlapped'
          PROVE  OneCall' /\ HandlesHeld' /\ StopsBeforeSuccess' /\ FeedOfHeld' /\ BuilderOfSuccess'
      <3>1. ~overlapped /\ \A d \in Calls : phase[d] = "idle"
        BY <1>2, <2>3 DEF UnderWay
      <3>2. phase'[c] = "stopping" /\ handled'[c] = adapter /\ \A d \in Calls \ {c} : phase'[d] = "idle"
        BY <2>1, <3>1 DEF AdaptersInv, CallsOK
      <3> QED BY <1>1, <1>5, <2>1, <3>1, <3>2 DEF AdaptersInv, OneCall, HandlesHeld, StopsBeforeSuccess,
                 FeedOfHeld, BuilderOfSuccess, Succeeding, UnderWay
    <2> QED BY <2>2, <2>3 DEF AdaptersInv
  <1> QED BY <1>3, <1>4, <1>5

\* Every step keeps the invariant.
LEMMA AdaptersStep == AdaptersInv /\ [AdaptersNext]_initVars => AdaptersInv'
  <1> SUFFICES ASSUME AdaptersInv, [AdaptersNext]_initVars PROVE AdaptersInv'
    OBVIOUS
  <1>0. token \in Nat /\ tokens \in Nat
    BY DEF AdaptersInv, CallsOK
  <1>1. ASSUME NEW c \in Calls, NEW outcome \in Outcomes, Startup(c, outcome) \/ SaveBootstraps(c, outcome)
        PROVE  AdaptersInv'
    BY <1>0, <1>1, Begins DEF Startup, SaveBootstraps, storeVars
  <1>2. ASSUME NEW c \in Calls, NEW outcome \in Outcomes, LoginReturns(c, outcome) PROVE AdaptersInv'
    BY <1>0, <1>2, Begins DEF LoginReturns
  <1>3. ASSUME NEW c \in Calls, NEW outcome \in Outcomes, StopEnds(c, outcome) PROVE AdaptersInv'
    <2>1. /\ phase[c] = "stopping" /\ Construct(c, outcome) /\ feeds' = feeds \ {handled[c]}
          /\ UNCHANGED <<token, tokens, initialized, overlapped>>
      BY <1>3 DEF StopEnds, storeVars
    <2>2. ASSUME ~overlapped
          PROVE  /\ ~initialized /\ feeds' = {} /\ (\A d \in Calls : UnderWay(d) => d = c)
                 /\ ~faulted => builders = {}
      <3>1. UnderWay(c) /\ handled[c] = adapter /\ ~initialized
        BY <2>1, <2>2 DEF AdaptersInv, UnderWay, HandlesHeld, StopsBeforeSuccess
      <3>2. \A d \in Calls : UnderWay(d) => d = c
        BY <2>2, <3>1 DEF AdaptersInv, OneCall
      <3>3. ~Succeeding
        BY <2>1, <3>1, <3>2 DEF Succeeding, UnderWay
      <3> QED BY <2>1, <2>2, <3>1, <3>2, <3>3 DEF AdaptersInv, FeedOfHeld, BuilderOfSuccess
    <2> QED BY <1>0, <2>1, <2>2, Builds DEF AdaptersInv
  <1>4. ASSUME NEW c \in Calls, NEW sdk \in BOOLEAN, ConnectEnds(c, sdk) PROVE AdaptersInv'
    <2>1. /\ phase[c] = "connecting" /\ feeds' \subseteq feeds \cup {handled[c]} /\ initialized' = TRUE
          /\ phase' = [phase EXCEPT ![c] = "priming"] /\ handled' = [handled EXCEPT ![c] = 0]
          /\ UNCHANGED <<token, tokens, adapter, tokenOf, builders, overlapped, faulted>>
      BY <1>4 DEF ConnectEnds, Resumes, storeVars, madeVars
    <2>2. CallsOK'
      BY <2>1 DEF AdaptersInv, CallsOK, Phases
    <2>3. ASSUME ~overlapped
          PROVE  OneCall' /\ HandlesHeld' /\ StopsBeforeSuccess' /\ FeedOfHeld' /\ BuilderOfSuccess'
      <3>1. UnderWay(c) /\ handled[c] = adapter /\ adapter # 0
        BY <2>1, <2>3 DEF AdaptersInv, UnderWay, HandlesHeld
      <3>2. \A d \in Calls \ {c} : phase[d] = "idle"
        BY <2>3, <3>1 DEF AdaptersInv, OneCall, UnderWay
      <3>3. phase'[c] = "priming" /\ \A d \in Calls \ {c} : phase'[d] = "idle"
        BY <2>1, <3>2 DEF AdaptersInv, CallsOK
      <3>4. OneCall' /\ HandlesHeld' /\ StopsBeforeSuccess'
        BY <3>3 DEF OneCall, HandlesHeld, StopsBeforeSuccess, UnderWay
      <3>5. FeedOfHeld' /\ BuilderOfSuccess'
        BY <2>1, <2>3, <3>1 DEF AdaptersInv, FeedOfHeld, BuilderOfSuccess, Succeeding
      <3> QED BY <3>4, <3>5
    <2> QED BY <2>1, <2>2, <2>3 DEF AdaptersInv
  <1>5. ASSUME NEW c \in Calls, PrimeEnds(c) PROVE AdaptersInv'
    <2>1. /\ phase[c] = "priming" /\ phase' = [phase EXCEPT ![c] = "idle"] /\ handled' = [handled EXCEPT ![c] = 0]
          /\ UNCHANGED <<token, tokens, adapter, tokenOf, builders, feeds, initialized, overlapped, faulted>>
      BY <1>5 DEF PrimeEnds, Resumes, storeVars, madeVars
    <2>2. CallsOK'
      BY <2>1 DEF AdaptersInv, CallsOK, Phases
    <2>3. phase'[c] = "idle" /\ \A d \in Calls \ {c} : phase'[d] = phase[d] /\ handled'[d] = handled[d]
      BY <2>1 DEF AdaptersInv, CallsOK
    <2>4. Succeeding' = Succeeding
      BY <2>1, <2>3 DEF Succeeding
    <2> QED BY <2>1, <2>2, <2>3, <2>4 DEF AdaptersInv, OneCall, HandlesHeld, StopsBeforeSuccess, FeedOfHeld,
               BuilderOfSuccess, UnderWay
  <1>6. ASSUME UNCHANGED <<phase, handled, tokens, adapter, tokenOf, builders, initialized, overlapped, faulted>>,
               token' \in Nat, feeds' \subseteq feeds
        PROVE  AdaptersInv'
    BY <1>6 DEF AdaptersInv, CallsOK, OneCall, HandlesHeld, StopsBeforeSuccess, FeedOfHeld, BuilderOfSuccess,
                Succeeding, UnderWay
  <1>7. CASE Serve \/ Logout \/ UNCHANGED initVars
    BY <1>0, <1>6, <1>7 DEF Serve, Logout, initVars, storeVars, madeVars
  <1>8. ASSUME NEW t \in 1 .. MaxTokens, TokenExpires(t) PROVE AdaptersInv'
    BY <1>0, <1>6, <1>8 DEF TokenExpires, madeVars
  <1> QED BY <1>1, <1>2, <1>3, <1>4, <1>5, <1>7, <1>8 DEF AdaptersNext, Calls

\* What is on one adapter is on one.
LEMMA One == AdaptersInv => OneFeed
  <1>1. ASSUME NEW a, builders \subseteq {a} PROVE Cardinality(builders) <= 1
    <2>1. IsFiniteSet({a}) /\ Cardinality({a}) = 1
      BY FS_Singleton
    <2> QED BY <1>1, <2>1, FS_Subset
  <1> QED BY <1>1 DEF AdaptersInv, OneFeed, FeedOfHeld, BuilderOfSuccess

\* However often the adapters are built after failures, logins, logouts and expired
\* tokens (terminal_init.py), one adapter delivers ticks and one bar builder aggregates
\* them, as long as calls do not overlap.
THEOREM OneAdapterFeeds == AdaptersSpec => []OneFeed
  <1>1. AdaptersSpec => []AdaptersInv
    BY AdaptersStart, AdaptersStep, PTL DEF AdaptersSpec
  <1> QED BY <1>1, One, PTL

-----------------------------------------------------------------------------
\* The browser socket.

\* Without a socket no frame is under way; on an open one the frame that
\* arrives last, or the server's topics when none is under way, are the panels'.
AgreedLast ==
  /\ panels \subseteq PanelTopics /\ frames \in Seq(SUBSET PanelTopics)
  /\ stopped => socket = "none"
  /\ socket # "open" => frames = <<>>
  /\ socket = "open" => (IF frames = <<>> THEN declared ELSE frames[Len(frames)]) = panels

\* Every step of the page, the socket and the server keeps this.
LEMMA TopicsStep == AgreedLast /\ [TabNext]_tabVars => AgreedLast'
  <1> SUFFICES ASSUME AgreedLast, [TabNext]_tabVars PROVE AgreedLast'
    OBVIOUS
  <1> USE DEF AgreedLast
  <1>1. ASSUME UNCHANGED <<panels, frames, declared>>,
               \/ UNCHANGED <<stopped, socket>>
               \/ stopped /\ ~stopped' /\ socket' # "open"
        PROVE  AgreedLast'
    BY <1>1
  <1>2. CASE AppMounts
    BY <1>1, <1>2 DEF AppMounts, ConnectTab
  <1>3. CASE SocketOpens
    BY <1>3 DEF SocketOpens, DeclaredOnOpen
  <1>4. CASE SocketDrops
    BY <1>4 DEF SocketDrops
  <1>5. CASE RetryFires
    BY <1>1, <1>5 DEF RetryFires, ConnectTab
  <1>6. CASE AppUnmounts
    BY <1>6 DEF AppUnmounts
  <1>7. CASE PanelStep
    <2>1. PICK topics \in SUBSET PanelTopics : Declare(topics)
      BY <1>7 DEF PanelStep, PanelMounts, PanelUnmounts
    <2>2. UNCHANGED <<socket, declared>>
      BY <1>7 DEF PanelStep
    <2>3. UNCHANGED stopped
      BY <1>7 DEF PanelStep
    <2>4. CASE socket = "open"
      <3>1. /\ frames' \in Seq(SUBSET PanelTopics) /\ frames' # <<>>
            /\ Len(frames') = Len(frames) + 1 /\ frames'[Len(frames) + 1] = topics
        BY <2>1, <2>4, AppendProperties DEF Declare
      <3> QED BY <2>1, <2>2, <2>3, <2>4, <3>1 DEF Declare
    <2>5. CASE socket # "open"
      BY <2>1, <2>2, <2>3, <2>5 DEF Declare
    <2> QED BY <2>4, <2>5
  <1>8. CASE FrameArrives
    <2>1. frames # <<>> /\ declared' = Head(frames) /\ frames' = Tail(frames) /\ UNCHANGED <<stopped, socket, panels>>
      BY <1>8 DEF FrameArrives
    <2>2. /\ frames' \in Seq(SUBSET PanelTopics) /\ Len(frames') = Len(frames) - 1 /\ Len(frames) \in Nat \ {0}
          /\ \A i \in 1 .. Len(frames') : frames'[i] = frames[i + 1]
      BY <2>1, HeadTailProperties, EmptySeq
    <2>3. CASE Len(frames) = 1
      BY <2>1, <2>2, <2>3
    <2>4. CASE Len(frames) > 1
      <3>1. frames' # <<>> /\ frames'[Len(frames')] = frames[Len(frames)]
        BY <2>2, <2>4
      <3> QED BY <2>1, <2>2, <3>1
    <2> QED BY <2>2, <2>3, <2>4
  <1>9. CASE ServerPushes \/ HealthPolled \/ UNCHANGED tabVars
    BY <1>1, <1>9 DEF ServerPushes, HealthPolled, tabVars
  <1> QED BY <1>2, <1>3, <1>4, <1>5, <1>6, <1>7, <1>8, <1>9 DEF TabNext

\* However panels come and go before, while and after the socket opens (ws.ts), once no
\* frame is on its way the server sends the topics that the panels want.
THEOREM ServerKnowsPanels == TabSpec => []TopicsDeclared
  <1>1. TabInit => AgreedLast
    BY DEF TabInit, AgreedLast
  <1>2. AgreedLast => TopicsDeclared
    BY DEF AgreedLast, TopicsDeclared
  <1> QED BY <1>1, <1>2, TopicsStep, PTL DEF TabSpec

-----------------------------------------------------------------------------
\* Broadcasts.

\* The first m clients of a list all stay.
FirstStay(all, gone, m) == \A i \in 1 .. m : all[i] \notin gone

\* Whoever stays and is behind the first m of the list is behind them in what is left of it.
StayBehind(rest, all, gone, m) ==
  \A j \in m + 1 .. Len(all) : all[j] \notin gone => \E i \in m + 1 .. Len(rest) : rest[i] = all[j]

\* What is left of the first k clients, by k.
KeptAlong(kept, all, gone) ==
  /\ kept[0] = <<>>
  /\ \A k \in Nat : k + 1 \in 1 .. Len(all) =>
       kept[k + 1] = IF all[k + 1] \in gone THEN kept[k] ELSE Append(kept[k], all[k + 1])

LEMMA WithoutAlong ==
  ASSUME NEW V, NEW all \in Seq(V), NEW gone
  PROVE  \E kept : Without(all, gone) = kept[Len(all)] /\ KeptAlong(kept, all, gone)
  <1> DEFINE n == Len(all)
             W == Seq(V)
             empty == <<>>
             Good(f) == f = [i \in 0 .. n |-> IF i = 0 THEN <<>>
                               ELSE IF all[i] \in gone THEN f[i - 1] ELSE Append(f[i - 1], all[i])]
             kept == CHOOSE f : Good(f)
             step == [i \in 1 .. n |-> [s \in W |-> IF all[i] \in gone THEN s ELSE Append(s, all[i])]]
  <1>1. n \in Nat /\ empty \in W /\ step \in [1 .. n -> [W -> W]]
    OBVIOUS
  <1>2. PICK g \in [0 .. n -> W] : Along(g, n, empty, step)
    <2> HIDE DEF Good, step, n, W, empty, kept
    <2> QED BY <1>1, Recursion
  <1>3. Good(g)
    <2>1. ASSUME NEW i \in 1 .. n PROVE i - 1 \in 0 .. n /\ g[i - 1] \in W
      <3> HIDE DEF n, W
      <3> QED BY <1>1, <1>2
    <2>2. ASSUME NEW i \in 1 .. n, NEW s \in W
          PROVE  step[i][s] = IF all[i] \in gone THEN s ELSE Append(s, all[i])
      OBVIOUS
    <2>3. g[0] = <<>> /\ \A i \in 1 .. n : g[i] = step[i][g[i - 1]]
      <3> HIDE DEF step
      <3> QED BY <1>2 DEF Along
    <2>4. \A i \in 1 .. n : g[i] = IF all[i] \in gone THEN g[i - 1] ELSE Append(g[i - 1], all[i])
      <3> HIDE DEF step, W
      <3> QED BY <2>1, <2>2, <2>3
    <2>5. \A i \in 0 .. n : i # 0 => i \in 1 .. n
      OBVIOUS
    <2> HIDE DEF n, W
    <2> QED BY <1>1, <1>2, <2>3, <2>4, <2>5
  <1>4. Good(kept)
    <2> HIDE DEF Good
    <2> QED BY <1>3
  <1>5. Without(all, gone) = kept[n]
    BY DEF Without
  <1>6. kept[0] = <<>> /\ \A k \in Nat : k + 1 \in 1 .. n =>
          kept[k + 1] = IF all[k + 1] \in gone THEN kept[k] ELSE Append(kept[k], all[k + 1])
    <2> HIDE DEF kept
    <2>1. kept[0] = <<>>
      BY <1>1, <1>4
    <2>2. ASSUME NEW k \in Nat, k + 1 \in 1 .. n
          PROVE  kept[k + 1] = IF all[k + 1] \in gone THEN kept[k] ELSE Append(kept[k], all[k + 1])
      <3>1. k + 1 \in 0 .. n /\ k + 1 # 0 /\ (k + 1) - 1 = k
        BY <2>2
      <3> QED BY <1>4, <3>1
    <2> QED BY <2>1, <2>2
  <1> HIDE DEF kept, Good
  <1> QED BY <1>5, <1>6 DEF KeptAlong

\* What is left of a list when nobody among its first m goes: those after them stay after them.
LEMMA WithoutKeeps ==
  ASSUME NEW V, NEW all \in Seq(V), NEW gone, NEW m \in 0 .. Len(all), FirstStay(all, gone, m)
  PROVE  Without(all, gone) \in Seq(V) /\ StayBehind(Without(all, gone), all, gone, m)
  <1> DEFINE n == Len(all)
  <1>1. n \in Nat
    OBVIOUS
  <1>2. PICK kept : Without(all, gone) = kept[n] /\ KeptAlong(kept, all, gone)
    BY WithoutAlong
  <1>3. /\ kept[0] = <<>>
        /\ \A k \in Nat : k + 1 \in 1 .. n =>
             kept[k + 1] = IF all[k + 1] \in gone THEN kept[k] ELSE Append(kept[k], all[k + 1])
    BY <1>2 DEF KeptAlong
  <1> DEFINE Behind(s, j) == \E i \in m + 1 .. Len(s) : s[i] = all[j]
             OK(k) == /\ kept[k] \in Seq(V)
                      /\ k <= m => Len(kept[k]) = k
                      /\ k >= m => /\ Len(kept[k]) >= m
                                   /\ \A j \in m + 1 .. k : all[j] \notin gone => Behind(kept[k], j)
             T == {k \in Nat : k <= n => OK(k)}
  <1>4. OK(0)
    BY <1>3
  <1>5. ASSUME NEW k \in Nat, k + 1 <= n, OK(k) PROVE OK(k + 1)
    <2>1. k + 1 \in 1 .. n /\ all[k + 1] \in V
      BY <1>5
    <2> DEFINE old == kept[k]  new == kept[k + 1]
    <2>2. old \in Seq(V) /\ Len(old) \in Nat
      BY <1>5
    <2>3. CASE all[k + 1] \in gone
      <3>1. new = old
        BY <1>3, <2>1, <2>3
      <3>2. k >= m
        BY <2>1, <2>3 DEF FirstStay
      <3> HIDE DEF Behind
      <3>3. \A j \in m + 1 .. k + 1 : all[j] \notin gone => j \in m + 1 .. k
        BY <2>3
      <3> QED BY <1>5, <2>2, <3>1, <3>2, <3>3
    <2>4. CASE all[k + 1] \notin gone
      <3>1. new = Append(old, all[k + 1])
        BY <1>3, <2>1, <2>4
      <3>2. /\ new \in Seq(V) /\ Len(new) = Len(old) + 1 /\ new[Len(old) + 1] = all[k + 1]
            /\ \A i \in 1 .. Len(old) : new[i] = old[i]
        <4> HIDE DEF old, new
        <4> QED BY <2>1, <2>2, <3>1
      <3>3. k + 1 <= m => Len(new) = k + 1
        BY <1>5, <3>2
      <3>4. ASSUME k + 1 >= m PROVE Len(new) >= m
        BY <1>5, <2>2, <3>2, <3>4
      <3>5. ASSUME k + 1 >= m, NEW j \in m + 1 .. k + 1, all[j] \notin gone PROVE Behind(new, j)
        <4>0. k >= m /\ Len(old) >= m
          BY <1>5, <3>5
        <4>1. CASE j = k + 1
          <5>1. Len(old) + 1 \in m + 1 .. Len(new)
            BY <2>2, <3>2, <4>0
          <5> QED BY <3>2, <4>1, <5>1
        <4>2. CASE j # k + 1
          <5>1. j \in m + 1 .. k
            BY <4>2
          <5>2. PICK i \in m + 1 .. Len(old) : old[i] = all[j]
            BY <1>5, <3>5, <4>0, <5>1
          <5>3. i \in m + 1 .. Len(new) /\ new[i] = all[j]
            BY <2>2, <3>2, <5>2
          <5> QED BY <5>3
        <4> QED BY <4>1, <4>2
      <3> QED BY <3>2, <3>3, <3>4, <3>5
    <2> QED BY <2>3, <2>4
  <1>6. T = Nat
    <2> HIDE DEF OK, n
    <2>1. T \in SUBSET Nat /\ 0 \in T /\ \A k \in T : k + 1 \in T
      BY <1>1, <1>4, <1>5
    <2> HIDE DEF T
    <2> QED BY <2>1, SetInduction
  <1>7. OK(n)
    <2> HIDE DEF OK, n
    <2> QED BY <1>1, <1>6
  <1> QED BY <1>1, <1>2, <1>7 DEF StayBehind

\* What is left are clients of the list, each as often as before.
LEMMA WithoutShrinks ==
  ASSUME NEW V, NEW all \in Seq(V), NEW gone, IsInjective(all)
  PROVE  /\ IsInjective(Without(all, gone))
         /\ \A i \in DOMAIN Without(all, gone) : \E j \in DOMAIN all : Without(all, gone)[i] = all[j]
  <1> DEFINE n == Len(all)
  <1>1. n \in Nat
    OBVIOUS
  <1>2. PICK kept : Without(all, gone) = kept[n] /\ KeptAlong(kept, all, gone)
    BY WithoutAlong
  <1>3. /\ kept[0] = <<>>
        /\ \A k \in Nat : k + 1 \in 1 .. n =>
             kept[k + 1] = IF all[k + 1] \in gone THEN kept[k] ELSE Append(kept[k], all[k + 1])
    BY <1>2 DEF KeptAlong
  <1> DEFINE From(s, k) == \A i \in 1 .. Len(s) : \E j \in 1 .. k : s[i] = all[j]
             Once(s) == \A i \in 1 .. Len(s), j \in 1 .. Len(s) : s[i] = s[j] => i = j
             OK(k) == kept[k] \in Seq(V) /\ From(kept[k], k) /\ Once(kept[k])
             T == {k \in Nat : k <= n => OK(k)}
  <1>4. OK(0)
    <2>1. Len(kept[0]) = 0 /\ kept[0] \in Seq(V)
      BY <1>3
    <2> QED BY <2>1
  <1>5. ASSUME NEW k \in Nat, k + 1 <= n, OK(k) PROVE OK(k + 1)
    <2>1. k + 1 \in 1 .. n /\ all[k + 1] \in V
      BY <1>5
    <2> DEFINE old == kept[k]  new == kept[k + 1]
    <2>2. old \in Seq(V) /\ Len(old) \in Nat /\ From(old, k) /\ Once(old)
      BY <1>5
    <2>3. CASE all[k + 1] \in gone
      <3>1. new = old
        BY <1>3, <2>1, <2>3
      <3>2. From(new, k + 1)
        BY <2>2, <3>1
      <3> QED BY <2>2, <3>1, <3>2
    <2>4. CASE all[k + 1] \notin gone
      <3>1. new = Append(old, all[k + 1])
        BY <1>3, <2>1, <2>4
      <3>2. /\ new \in Seq(V) /\ Len(new) = Len(old) + 1 /\ new[Len(old) + 1] = all[k + 1]
            /\ \A i \in 1 .. Len(old) : new[i] = old[i]
        <4> HIDE DEF old, new
        <4> QED BY <2>1, <2>2, <3>1
      <3>3. From(new, k + 1)
        <4> HIDE DEF old, new
        <4>1. ASSUME NEW i \in 1 .. Len(new) PROVE \E j \in 1 .. k + 1 : new[i] = all[j]
          <5>1. CASE i = Len(old) + 1
            <6>1. k + 1 \in 1 .. k + 1 /\ new[i] = all[k + 1]
              BY <3>2, <5>1
            <6> QED BY <6>1
          <5>2. CASE i # Len(old) + 1
            <6>1. i \in 1 .. Len(old)
              BY <2>2, <3>2, <4>1, <5>2
            <6>2. PICK j \in 1 .. k : old[i] = all[j]
              BY <2>2, <6>1
            <6>3. j \in 1 .. k + 1 /\ new[i] = all[j]
              BY <3>2, <6>1, <6>2
            <6> QED BY <6>3
          <5> QED BY <5>1, <5>2
        <4> QED BY <4>1
      <3>4. \A i \in 1 .. Len(old) : old[i] # all[k + 1]
        <4>1. ASSUME NEW i \in 1 .. Len(old), NEW j \in 1 .. k, old[i] = all[j] PROVE all[j] # all[k + 1]
          BY <2>1 DEF IsInjective
        <4> HIDE DEF old
        <4> QED BY <2>2, <4>1
      <3>5. Once(new)
        <4> HIDE DEF old, new
        <4> QED BY <2>2, <3>2, <3>4
      <3> QED BY <3>2, <3>3, <3>5
    <2> QED BY <2>3, <2>4
  <1>6. T = Nat
    <2> HIDE DEF OK, n
    <2>1. T \in SUBSET Nat /\ 0 \in T /\ \A k \in T : k + 1 \in T
      BY <1>1, <1>4, <1>5
    <2> HIDE DEF T
    <2> QED BY <2>1, SetInduction
  <1>7. OK(n)
    <2> HIDE DEF OK, n
    <2> QED BY <1>1, <1>6
  <1> QED BY <1>1, <1>2, <1>7 DEF IsInjective

-----------------------------------------------------------------------------
\* The record of a broadcast.
Cast == [topic : Topics, next : Nat \ {0}, to : SUBSET Clients, dead : SUBSET Clients, due : SUBSET Clients,
         served : SUBSET Clients, shifted : BOOLEAN]

FanTypes == connections \in Seq(Clients) /\ \A b \in DOMAIN casts : casts[b] \in Cast

\* A broadcast that waits for a send has its interested clients behind it or before it,
\* unless one was removed behind it.
Ahead(cast, list) == {list[j] : j \in {i \in 1 .. Len(list) : i >= cast.next}}
OnItsWay(cast, list, wanted) ==
  /\ \A c \in cast.due : Hears(wanted, c, cast.topic)
  /\ ~cast.shifted => cast.due \subseteq cast.served \cup cast.dead \cup cast.to \cup Ahead(cast, list)
Over(cast) == ~cast.shifted => cast.due \subseteq cast.served \cup cast.dead

FanInv ==
  FanTypes /\ \A b \in DOMAIN casts : IF casts[b].to = {} THEN Over(casts[b])
                                      ELSE OnItsWay(casts[b], connections, topicsOf)

\* There is no broadcast at first.
LEMMA FanStart == FanoutInit => FanInv
  BY DEF FanoutInit, FanInv, FanTypes

\* What the history of one broadcast becomes.
Followed(cast, gone) ==
  [cast EXCEPT !.due = {c \in @ \ gone : Hears(topicsOf', c, cast.topic)},
               !.shifted = @ \/ \E i \in 1 .. Len(connections) : i < cast.next /\ connections[i] \in gone]

\* Field by field.
LEMMA FollowedFields ==
  ASSUME NEW cast \in Cast, NEW gone
  PROVE  /\ Followed(cast, gone) \in Cast
         /\ Followed(cast, gone).due = {c \in cast.due \ gone : Hears(topicsOf', c, cast.topic)}
         /\ Followed(cast, gone).shifted =
              (cast.shifted \/ \E i \in 1 .. Len(connections) : i < cast.next /\ connections[i] \in gone)
         /\ Followed(cast, gone).topic = cast.topic /\ Followed(cast, gone).next = cast.next
         /\ Followed(cast, gone).to = cast.to /\ Followed(cast, gone).dead = cast.dead
         /\ Followed(cast, gone).served = cast.served
  BY DEF Followed, Cast

\* A removal, or a change of topics with nobody gone.
LEMMA FollowKeeps ==
  ASSUME FanTypes, NEW cast \in Cast, NEW gone,
         connections' = Without(connections, gone) \/ (gone = {} /\ connections' = connections)
  PROVE  /\ connections' \in Seq(Clients) /\ Followed(cast, gone) \in Cast
         /\ Followed(cast, gone).to = cast.to
         /\ Over(cast) => Over(Followed(cast, gone))
         /\ OnItsWay(cast, connections, topicsOf) => OnItsWay(Followed(cast, gone), connections', topicsOf')
  <1> DEFINE f == Followed(cast, gone)
  <1>1. /\ f \in Cast /\ f.due = {c \in cast.due \ gone : Hears(topicsOf', c, cast.topic)}
        /\ f.shifted = (cast.shifted \/ \E i \in 1 .. Len(connections) : i < cast.next /\ connections[i] \in gone)
        /\ f.topic = cast.topic /\ f.next = cast.next /\ f.to = cast.to /\ f.dead = cast.dead
        /\ f.served = cast.served
    BY FollowedFields
  <1> HIDE DEF f
  <1>2. connections \in Seq(Clients) /\ Len(connections) \in Nat
    BY DEF FanTypes
  <1>3. connections' \in Seq(Clients)
    <2>1. CASE connections' = Without(connections, gone)
      <3>1. FirstStay(connections, gone, 0)
        BY DEF FirstStay
      <3>2. 0 \in 0 .. Len(connections)
        BY <1>2
      <3> QED BY <1>2, <2>1, <3>1, <3>2, WithoutKeeps
    <2> QED BY <1>2, <2>1
  <1>4. Over(cast) => Over(f)
    BY <1>1 DEF Over
  <1>5. ASSUME OnItsWay(cast, connections, topicsOf), ~f.shifted, NEW c \in f.due,
               c \in Ahead(cast, connections)
        PROVE  c \in Ahead(f, connections')
    <2>1. PICK j \in 1 .. Len(connections) : j >= cast.next /\ connections[j] = c
      BY <1>5 DEF Ahead
    <2>2. cast.next \in Nat \ {0} /\ cast.next - 1 \in 0 .. Len(connections)
      BY <1>2, <2>1 DEF Cast
    <2>3. CASE connections' = Without(connections, gone)
      <3> DEFINE m == cast.next - 1
      <3>1. FirstStay(connections, gone, m)
        <4>1. ASSUME NEW i \in 1 .. m PROVE i \in 1 .. Len(connections) /\ i < cast.next
          BY <1>2, <2>2
        <4> QED BY <1>1, <1>5, <4>1 DEF FirstStay
      <3>2. j \in m + 1 .. Len(connections) /\ connections[j] \notin gone
        BY <1>1, <1>5, <2>1, <2>2
      <3>3. m \in 0 .. Len(connections)
        BY <2>2
      <3> HIDE DEF m
      <3>4. \E i \in m + 1 .. Len(Without(connections, gone)) : Without(connections, gone)[i] = connections[j]
        <4>1. StayBehind(Without(connections, gone), connections, gone, m)
          BY <1>2, <3>1, <3>3, WithoutKeeps
        <4> QED BY <3>2, <4>1 DEF StayBehind
      <3>5. PICK i \in m + 1 .. Len(connections') : connections'[i] = c
        BY <2>1, <2>3, <3>4
      <3>6. i \in 1 .. Len(connections') /\ i >= f.next
        BY <1>1, <1>3, <2>2, <3>5 DEF m
      <3> QED BY <3>5, <3>6 DEF Ahead
    <2>4. CASE gone = {} /\ connections' = connections
      BY <1>1, <1>5, <2>4 DEF Ahead
    <2> QED BY <2>3, <2>4
  <1>6. OnItsWay(cast, connections, topicsOf) => OnItsWay(f, connections', topicsOf')
    BY <1>1, <1>5 DEF OnItsWay
  <1> QED BY <1>1, <1>3, <1>4, <1>6 DEF f

\* A broadcast that is not in a send: nobody who is due is behind it unserved.
Underway(cast) ==
  /\ \A c \in cast.due : Hears(topicsOf, c, cast.topic)
  /\ ~cast.shifted => cast.due \subseteq cast.served \cup cast.dead \cup Ahead(cast, connections)

\* What holds of every broadcast, by whether it is over.
CastOK(cast, list, wanted) == IF cast.to = {} THEN Over(cast) ELSE OnItsWay(cast, list, wanted)

\* So it is with all of them.
LEMMA FollowKeepsAll ==
  ASSUME FanTypes, NEW all, \A b \in DOMAIN all : all[b] \in Cast /\ CastOK(all[b], connections, topicsOf),
         NEW gone, connections' = Without(connections, gone) \/ (gone = {} /\ connections' = connections),
         connections' \in Seq(Clients), casts' = Follow(all, gone)
  PROVE  FanInv'
  <1>1. DOMAIN casts' = DOMAIN all
    BY DEF Follow
  <1>2. ASSUME NEW b \in DOMAIN all
        PROVE  casts'[b] \in Cast /\ CastOK(casts'[b], connections', topicsOf')
    <2>1. casts'[b] = Followed(all[b], gone)
      BY DEF Follow, Followed
    <2> HIDE DEF Follow
    <2>2. all[b] \in Cast /\ CastOK(all[b], connections, topicsOf)
      OBVIOUS
    <2> DEFINE a == all[b]  f == Followed(a, gone)
    <2>3. /\ f \in Cast /\ f.to = a.to /\ (Over(a) => Over(f))
          /\ OnItsWay(a, connections, topicsOf) => OnItsWay(f, connections', topicsOf')
      <3> HIDE DEF f, a
      <3>1. a \in Cast
        BY <2>2 DEF a
      <3> QED BY <3>1, FollowKeeps DEF f
    <2> QED BY <2>1, <2>2, <2>3 DEF CastOK
  <1> QED BY <1>1, <1>2 DEF FanInv, FanTypes, CastOK

\* Going on to the next client, or ending.
LEMMA ResumeKeeps ==
  ASSUME FanInv, NEW b, NEW cast \in Cast, Underway(cast), Resume(b, cast)
  PROVE  FanInv'
  <1> DEFINE further == Further(cast.topic, cast.next)
             with(c) == [x \in DOMAIN casts \cup {b} |-> IF x = b THEN c ELSE casts[x]]
  <1>0. /\ connections \in Seq(Clients) /\ Len(connections) \in Nat /\ cast.next \in Nat \ {0}
        /\ FanTypes
        /\ \A x \in DOMAIN casts : casts[x] \in Cast /\ CastOK(casts[x], connections, topicsOf)
    BY DEF FanInv, FanTypes, CastOK, Cast
  <1>1. CASE further = {}
    <2> DEFINE ended == [cast EXCEPT !.to = {}]
    <2>1. connections' = Without(connections, cast.dead) /\ casts' = Follow(with(ended), cast.dead)
      BY <1>1 DEF Resume, Disconnect
    <2>2. /\ ended \in Cast /\ ended.to = {} /\ ended.due = cast.due /\ ended.shifted = cast.shifted
          /\ ended.served = cast.served /\ ended.dead = cast.dead
      BY DEF Cast
    <2>3. ASSUME NEW c \in cast.due PROVE c \notin Ahead(cast, connections)
      <3>1. SUFFICES ASSUME NEW j \in 1 .. Len(connections), j >= cast.next, connections[j] = c PROVE FALSE
        BY DEF Ahead
      <3>2. Hears(topicsOf, connections[j], cast.topic)
        BY <3>1 DEF Underway
      <3>3. j \in further
        BY <1>0, <3>1, <3>2 DEF Further
      <3> QED BY <1>1, <3>3
    <2>4. Over(ended)
      BY <2>2, <2>3 DEF Over, Underway
    <2> DEFINE all == with(ended)
    <2> HIDE DEF ended
    <2>5. \A x \in DOMAIN all : all[x] \in Cast /\ CastOK(all[x], connections, topicsOf)
      BY <1>0, <2>2, <2>4 DEF CastOK
    <2>6. casts' = Follow(all, cast.dead)
      BY <2>1
    <2> HIDE DEF all
    <2>7. FirstStay(connections, cast.dead, 0) /\ 0 \in 0 .. Len(connections)
      BY <1>0 DEF FirstStay
    <2>8. connections' \in Seq(Clients)
      BY <1>0, <2>1, <2>7, WithoutKeeps
    <2> QED BY <1>0, <2>1, <2>5, <2>6, <2>8, FollowKeepsAll
  <1>2. CASE further # {}
    <2> DEFINE m == Min(further)
               next == [cast EXCEPT !.to = {connections[m]}, !.next = m + 1]
    <2>1. further \in SUBSET Nat
      BY <1>0 DEF Further
    <2>2. m \in further /\ \A j \in further : m <= j
      <3> HIDE DEF further
      <3> QED BY <1>2, <2>1, LeastNumber
    <2>3. m \in cast.next .. Len(connections) /\ m \in 1 .. Len(connections)
          /\ Hears(topicsOf, connections[m], cast.topic)
      BY <1>0, <2>2 DEF Further
    <2>4. casts' = with(next) /\ connections' = connections /\ topicsOf' = topicsOf
      BY <1>2 DEF Resume
    <2> HIDE DEF m
    <2>5. connections[m] \in Clients /\ m + 1 \in Nat \ {0}
      BY <1>0, <2>3
    <2>6. /\ next \in Cast /\ next.to = {connections[m]} /\ next.due = cast.due /\ next.shifted = cast.shifted
          /\ next.served = cast.served /\ next.dead = cast.dead /\ next.next = m + 1 /\ next.topic = cast.topic
      BY <2>5 DEF Cast
    <2> HIDE DEF next
    <2>7. ASSUME NEW c \in cast.due, c \in Ahead(cast, connections)
          PROVE  c \in next.to \cup Ahead(next, connections)
      <3>1. PICK j \in 1 .. Len(connections) : j >= cast.next /\ connections[j] = c
        BY <2>7 DEF Ahead
      <3>2. j \in further
        BY <1>0, <3>1 DEF Further, Underway
      <3>3. m <= j
        BY <2>2, <3>2
      <3>4. CASE j = m
        BY <2>6, <3>1, <3>4
      <3>5. CASE j # m
        <4>1. j >= next.next
          BY <2>3, <2>6, <3>3, <3>5
        <4> QED BY <3>1, <4>1 DEF Ahead
      <3> QED BY <3>4, <3>5
    <2>8. OnItsWay(next, connections, topicsOf)
      BY <2>6, <2>7 DEF OnItsWay, Underway
    <2>9. CastOK(next, connections, topicsOf)
      BY <2>6, <2>8 DEF CastOK
    <2>10. \A x \in DOMAIN casts' : casts'[x] \in Cast /\ CastOK(casts'[x], connections', topicsOf')
      BY <1>0, <2>4, <2>6, <2>9
    <2> QED BY <1>0, <2>4, <2>10 DEF FanInv, FanTypes, CastOK
  <1> QED BY <1>1, <1>2

\* Every step keeps the invariant.
LEMMA FanStep == FanInv /\ [FanoutNext]_fanoutVars => FanInv'
  <1> SUFFICES ASSUME FanInv, [FanoutNext]_fanoutVars PROVE FanInv'
    OBVIOUS
  <1>0. FanTypes /\ connections \in Seq(Clients) /\ Len(connections) \in Nat
    BY DEF FanInv, FanTypes
  <1>a. \A b \in DOMAIN casts : casts[b] \in Cast /\ CastOK(casts[b], connections, topicsOf)
    BY DEF FanInv, FanTypes, CastOK
  <1>1. ASSUME NEW c \in Clients, ClientConnects(c) PROVE FanInv'
    <2>1. connections' = Append(connections, c) /\ casts' = casts /\ topicsOf' = topicsOf
      BY <1>1 DEF ClientConnects
    <2>2. /\ connections' \in Seq(Clients) /\ Len(connections') = Len(connections) + 1
          /\ \A i \in 1 .. Len(connections) : connections'[i] = connections[i]
      BY <1>0, <2>1
    <2>3. ASSUME NEW b \in DOMAIN casts, OnItsWay(casts[b], connections, topicsOf)
          PROVE  OnItsWay(casts[b], connections', topicsOf)
      <3> DEFINE a == casts[b]
      <3>1. Ahead(a, connections) \subseteq Ahead(a, connections')
        <4>1. ASSUME NEW j \in 1 .. Len(connections)
              PROVE  j \in 1 .. Len(connections') /\ connections'[j] = connections[j]
          BY <1>0, <2>2
        <4> HIDE DEF a
        <4> QED BY <4>1 DEF Ahead
      <3> QED BY <2>3, <3>1 DEF OnItsWay
    <2> QED BY <1>0, <2>1, <2>2, <2>3 DEF FanInv, FanTypes
  <1>2. ASSUME NEW c \in Clients, ClientLeaves(c) PROVE FanInv'
    <2>1. connections' = Without(connections, {c}) /\ casts' = Follow(casts, {c})
      BY <1>2 DEF ClientLeaves, Disconnect
    <2>2. FirstStay(connections, {c}, 0) /\ 0 \in 0 .. Len(connections)
      BY <1>0 DEF FirstStay
    <2>3. connections' \in Seq(Clients)
      BY <1>0, <2>1, <2>2, WithoutKeeps
    <2> QED BY <1>0, <1>a, <2>1, <2>3, FollowKeepsAll
  <1>3. ASSUME NEW c \in Clients, NEW ts \in SUBSET Topics, ClientSubscribes(c, ts) \/ ClientUnsubscribes(c, ts)
        PROVE  FanInv'
    <2>1. connections' = connections /\ casts' = Follow(casts, {})
      BY <1>3 DEF ClientSubscribes, ClientUnsubscribes
    <2> QED BY <1>0, <1>a, <2>1, FollowKeepsAll
  <1>4. ASSUME NEW b \in Broadcasts, NEW t \in Topics, Broadcast(b, t) PROVE FanInv'
    <2> DEFINE cast == [topic |-> t, next |-> 1, to |-> {}, dead |-> {},
                        due |-> {c \in ToSet(connections) : Hears(topicsOf, c, t)},
                        served |-> {}, shifted |-> FALSE]
    <2>1. Resume(b, cast)
      BY <1>4 DEF Broadcast
    <2>2. ToSet(connections) \subseteq Clients
      BY <1>0 DEF ToSet
    <2>3. /\ cast \in Cast /\ cast.due = {c \in ToSet(connections) : Hears(topicsOf, c, t)} /\ cast.next = 1
          /\ cast.topic = t
      BY <2>2 DEF Cast
    <2> HIDE DEF cast
    <2>4. ToSet(connections) \subseteq Ahead(cast, connections)
      BY <1>0, <2>3 DEF ToSet, Ahead
    <2>5. Underway(cast)
      BY <2>3, <2>4 DEF Underway
    <2> QED BY <2>1, <2>3, <2>5, ResumeKeeps
  <1>5. ASSUME NEW b \in Broadcasts, NEW ok \in BOOLEAN, SendEnds(b, ok) PROVE FanInv'
    <2> DEFINE old == casts[b]
               cast == IF ok THEN [old EXCEPT !.served = @ \cup old.to] ELSE [old EXCEPT !.dead = @ \cup old.to]
    <2>1. b \in DOMAIN casts /\ old.to # {} /\ Resume(b, cast)
      BY <1>5 DEF SendEnds
    <2>2. old \in Cast /\ OnItsWay(old, connections, topicsOf)
      BY <1>a, <2>1 DEF CastOK
    <2>3. /\ cast \in Cast /\ cast.due = old.due /\ cast.shifted = old.shifted /\ cast.topic = old.topic
          /\ cast.next = old.next
          /\ cast.served \cup cast.dead = old.served \cup old.dead \cup old.to
      <3> HIDE DEF old
      <3> QED BY <2>2 DEF Cast
    <2> HIDE DEF cast, old
    <2>4. Ahead(cast, connections) = Ahead(old, connections)
      BY <2>3 DEF Ahead
    <2>5. Underway(cast)
      BY <2>2, <2>3, <2>4 DEF OnItsWay, Underway
    <2> QED BY <2>1, <2>3, <2>5, ResumeKeeps
  <1>6. CASE UNCHANGED fanoutVars
    BY <1>6 DEF fanoutVars, FanInv, FanTypes
  <1> QED BY <1>1, <1>2, <1>3, <1>4, <1>5, <1>6 DEF FanoutNext

\* A broadcast walks over the live list by its index while clients come and go during its
\* sends (ws_manager.py); it reaches, or fails to reach and removes, everyone who was there
\* and interested throughout, unless a client that it had passed was removed.
THEOREM BroadcastsArrive == FanoutSpec => []BroadcastReaches
  <1>1. FanInv => BroadcastReaches
    BY DEF FanInv, Over, BroadcastReaches
  <1> QED BY <1>1, FanStart, FanStep, PTL DEF FanoutSpec

-----------------------------------------------------------------------------
\* The watchlist.

HeldUnpriced ==
  /\ captured \subseteq DOMAIN watched /\ \A s \in captured : watched[s] = "none"
  /\ watchBoots \in Nat

\* What a step may do to a row that shows a live price.
LiveKept ==
  \A s \in DOMAIN watched \cap DOMAIN watched' : watched[s] = "tick" => watched'[s] = "tick"

\* Adding, removing and ticking, as functions.
LEMMA RowAdded ==
  ASSUME NEW s, NEW price, watched' = WithRow(watched, s, price)
  PROVE  /\ DOMAIN watched' = DOMAIN watched \cup {s} /\ watched'[s] = price
         /\ \A r \in DOMAIN watched \ {s} : watched'[r] = watched[r]
  BY DEF WithRow

LEMMA RowRemoved ==
  ASSUME NEW s, watched' = Restrict(watched, DOMAIN watched \ {s})
  PROVE  /\ DOMAIN watched' = DOMAIN watched \ {s}
         /\ \A r \in DOMAIN watched \ {s} : watched'[r] = watched[r]
  BY DEF Restrict

-----------------------------------------------------------------------------
LEMMA RowStep ==
  HeldUnpriced /\ [WatchNext]_watchVars => HeldUnpriced' /\ (LiveKept \/ watchBoots' # watchBoots)
  <1> SUFFICES ASSUME HeldUnpriced, [WatchNext]_watchVars
               PROVE  HeldUnpriced' /\ (LiveKept \/ watchBoots' # watchBoots)
    OBVIOUS
  <1> DEFINE Goal == HeldUnpriced' /\ (LiveKept \/ watchBoots' # watchBoots)
  <1>1. ASSUME UNCHANGED <<watched, captured, watchBoots>> PROVE Goal
    BY <1>1 DEF HeldUnpriced, LiveKept
  <1>2. CASE FeedStarts
    BY <1>1, <1>2 DEF FeedStarts, SameHydration
  <1>3. ASSUME NEW s \in Listable, AddBegins(s) PROVE Goal
    <2>1. CASE s \in DOMAIN watched
      BY <1>1, <1>3, <2>1 DEF AddBegins, SameHydration
    <2>2. CASE s \notin DOMAIN watched
      <3>1. /\ DOMAIN watched' = DOMAIN watched \cup {s}
            /\ \A r \in DOMAIN watched \ {s} : watched'[r] = watched[r]
        BY <1>3, <2>2, RowAdded DEF AddBegins
      <3>2. UNCHANGED <<captured, watchBoots>>
        BY <1>3 DEF AddBegins, SameHydration
      <3> QED BY <2>2, <3>1, <3>2 DEF HeldUnpriced, LiveKept
    <2> QED BY <2>1, <2>2
  <1>4. ASSUME NEW s \in Listable, RemoveBegins(s) PROVE Goal
    <2>1. /\ DOMAIN watched' = DOMAIN watched \ {s}
          /\ \A r \in DOMAIN watched \ {s} : watched'[r] = watched[r]
      BY <1>4, RowRemoved DEF RemoveBegins
    <2>2. captured' = captured \ {s} /\ UNCHANGED watchBoots
      BY <1>4 DEF RemoveBegins
    <2> QED BY <2>1, <2>2 DEF HeldUnpriced, LiveKept
  <1>5. ASSUME NEW e \in editing, EditEnds(e) PROVE Goal
    BY <1>1, <1>5 DEF EditEnds, SameHydration
  <1>6. ASSUME NEW s \in Listable, FeedTick(s) PROVE Goal
    BY <1>1, <1>6 DEF FeedTick, SameHydration
  <1>7. CASE BusTick
    <2> DEFINE h == Head(onBus)
    <2>1. watched' = WithRow(watched, h, "tick") /\ captured' = captured \ {h} /\ UNCHANGED watchBoots
      BY <1>7 DEF BusTick, Replaced
    <2> HIDE DEF h
    <2>2. /\ DOMAIN watched' = DOMAIN watched \cup {h} /\ watched'[h] = "tick"
          /\ \A r \in DOMAIN watched \ {h} : watched'[r] = watched[r]
      BY <2>1, RowAdded
    <2> QED BY <2>1, <2>2 DEF HeldUnpriced, LiveKept
  <1>8. CASE HydrationBegins
    <2> DEFINE idle == {s \in DOMAIN watched : watched[s] = "none"}
    <2>1. /\ watched' = [s \in DOMAIN watched |->
                           IF s \in idle \cap DOMAIN hydrated THEN hydrated[s] ELSE watched[s]]
          /\ captured' = idle \ DOMAIN hydrated
      BY <1>8 DEF HydrationBegins
    <2>2. UNCHANGED watchBoots
      BY <1>8 DEF HydrationBegins
    <2> QED BY <2>1, <2>2 DEF HeldUnpriced, LiveKept
  <1>9. CASE HydrationEnds
    <2>1. captured' = {} /\ UNCHANGED watchBoots
      BY <1>9 DEF HydrationEnds
    <2>2. ASSUME NEW quoted \in SUBSET captured,
                 watched' = [s \in DOMAIN watched |-> IF s \in quoted THEN "rest" ELSE watched[s]]
          PROVE  LiveKept
      BY <2>2 DEF HeldUnpriced, LiveKept
    <2>3. ASSUME UNCHANGED watched PROVE LiveKept
      BY <2>3 DEF LiveKept
    <2>4. LiveKept
      BY <1>9, <2>2, <2>3 DEF HydrationEnds
    <2> QED BY <2>1, <2>4 DEF HeldUnpriced
  <1>10. CASE CacheExpires
    BY <1>1, <1>10 DEF CacheExpires
  <1>11. CASE WatchRestarts
    <2>1. watchBoots' = watchBoots + 1 /\ captured' = {}
      BY <1>11 DEF WatchRestarts
    <2> QED BY <2>1 DEF HeldUnpriced
  <1>12. CASE UNCHANGED watchVars
    BY <1>1, <1>12 DEF watchVars
  <1> QED BY <1>2, <1>3, <1>4, <1>5, <1>6, <1>7, <1>8, <1>9, <1>10, <1>11, <1>12 DEF WatchNext

\* watchlist_router.py's hydration never writes a quote over a live price.
THEOREM QuotesNeverOverwriteTicks == WatchSpec => LivePriceWins
  <1>1. WatchInit => HeldUnpriced
    BY DEF WatchInit, HeldUnpriced
  <1>2. HeldUnpriced /\ [WatchNext]_watchVars
          => HeldUnpriced' /\ [\A s \in DOMAIN watched \cap DOMAIN watched' :
                                watched[s] = "tick" => watched'[s] = "tick"
                                                         \/ watchBoots' # watchBoots]_watchVars
    BY RowStep DEF LiveKept
  <1> QED BY <1>1, <1>2, PTL DEF WatchSpec, LivePriceWins

-----------------------------------------------------------------------------
\* The settings.

\* Decisions carry both caps or none.
DecisionsOK ==
  /\ \E V : decisions \in Seq(V)
  /\ \A i \in DOMAIN decisions : DOMAIN decisions[i] \in {{}, CapKeys}
  /\ DOMAIN shown = CapKeys

LimitsInv == DecisionsOK /\ LimitsShown

\* The program is down at first.
LEMMA LimitsStart == SettingsInit => LimitsInv
  BY DEF SettingsInit, LimitsInv, DecisionsOK, LimitsShown

\* One more decision on the bus.
LEMMA DecisionAdded ==
  ASSUME DecisionsOK, NEW d, DOMAIN d \in {{}, CapKeys}, decisions' = Append(decisions, d), shown' = shown
  PROVE  /\ DecisionsOK'
         /\ DOMAIN decisions' = DOMAIN decisions \cup {Len(decisions) + 1}
         /\ Len(decisions) + 1 \notin DOMAIN decisions
         /\ decisions'[Len(decisions) + 1] = d
         /\ \A i \in DOMAIN decisions : decisions'[i] = decisions[i] /\ i < Len(decisions) + 1
  <1>1. PICK V : decisions \in Seq(V)
    BY DEF DecisionsOK
  <1> DEFINE W == V \cup {d}
  <1>2. decisions \in Seq(W) /\ d \in W
    BY <1>1
  <1> HIDE DEF W
  <1>3. decisions' \in Seq(W) /\ Len(decisions') = Len(decisions) + 1
    BY <1>2
  <1>4. /\ DOMAIN decisions' = DOMAIN decisions \cup {Len(decisions) + 1}
        /\ Len(decisions) + 1 \notin DOMAIN decisions
        /\ decisions'[Len(decisions) + 1] = d
        /\ \A i \in DOMAIN decisions : decisions'[i] = decisions[i] /\ i < Len(decisions) + 1
    BY <1>2, <1>3
  <1> QED BY <1>3, <1>4 DEF DecisionsOK

\* Every step keeps the invariant.
LEMMA LimitsStep == LimitsInv /\ [SettingsNext]_settingsVars => LimitsInv'
  <1> SUFFICES ASSUME LimitsInv, [SettingsNext]_settingsVars PROVE LimitsInv'
    OBVIOUS
  <1>0. DecisionsOK /\ LimitsShown
    BY DEF LimitsInv
  <1>1. ASSUME NEW seed \in EnvSeeds, LoadSettings(seed) PROVE LimitsInv'
    <2>1. decisions' = <<>> /\ shown' = Caps
      BY <1>1 DEF LoadSettings
    <2>2. \A k \in CapKeys : Setting(k)' = Setting(k)
      <3>1. CASE stored' = stored
        BY <3>1 DEF Setting
      <3>2. CASE stored' = Seeded(seed)
        <4>1. \A k \in CapKeys : k \notin Keys(seed, Len(seed))
          BY SettingsAssumption DEF Keys
        <4> QED BY <3>2, <4>1 DEF Setting, Seeded
      <3> QED BY <1>1, <3>1, <3>2 DEF LoadSettings
    <2>3. DecisionsOK'
      <3>1. decisions' \in Seq({}) /\ DOMAIN decisions' = {} /\ DOMAIN shown' = CapKeys
        BY <2>1 DEF Caps
      <3> QED BY <3>1 DEF DecisionsOK
    <2> QED BY <2>1, <2>2, <2>3 DEF LimitsInv, LimitsShown, Caps
  <1>2. ASSUME NEW batch \in Batches, UpdateSettings(batch) PROVE LimitsInv'
    <2>1. shown' = shown /\ stored' = Written(batch, Len(batch)) /\ Announce(batch) /\ up
      BY <1>2 DEF UpdateSettings
    <2>2. CASE Touches(batch, Len(batch))
      <3> DEFINE d == [k \in CapKeys |-> Setting(k)']
      <3>1. decisions' = Append(decisions, d)
        BY <2>1, <2>2 DEF Announce
      <3>2. DOMAIN d = CapKeys /\ \A k \in CapKeys : d[k] = Setting(k)'
        OBVIOUS
      <3> HIDE DEF d
      <3>3. /\ DecisionsOK' /\ DOMAIN decisions' = DOMAIN decisions \cup {Len(decisions) + 1}
            /\ decisions'[Len(decisions) + 1] = d
            /\ \A i \in DOMAIN decisions : decisions'[i] = decisions[i] /\ i < Len(decisions) + 1
        BY <1>0, <2>1, <3>1, <3>2, DecisionAdded
      <3>4. ASSUME NEW k \in CapKeys, NEW i \in DOMAIN decisions', LastToTell(i, k)'
            PROVE  decisions'[i][k] = Setting(k)'
        <4>1. i = Len(decisions) + 1
          BY <3>2, <3>3, <3>4 DEF LastToTell
        <4> QED BY <3>2, <3>3, <4>1
      <3> QED BY <3>2, <3>3, <3>4 DEF LimitsInv, LimitsShown
    <2>3. CASE ~Touches(batch, Len(batch))
      <3>1. UNCHANGED <<decisions, unannounced>> /\ up' = up
        BY <1>2, <2>1, <2>3 DEF Announce, UpdateSettings
      <3>2. \A k \in CapKeys : Setting(k)' = Setting(k)
        <4>1. \A n : ~Touches(batch, n) => \A k \in CapKeys : k \notin Keys(batch, n)
          BY DEF Touches
        <4> QED BY <2>1, <2>3, <4>1 DEF Written, Setting
      <3> QED BY <1>0, <2>1, <3>1, <3>2 DEF LimitsInv, LimitsShown, LastToTell, DecisionsOK
    <2> QED BY <2>2, <2>3
  <1>3. ASSUME NEW batch \in Batches, NEW n \in 0 .. Len(batch) - 1, WriteFails(batch, n) PROVE LimitsInv'
    <2>1. UNCHANGED <<decisions, shown, up>> /\ (unannounced' \/ ~Touches(batch, n)) /\ (unannounced => unannounced')
          /\ stored' = Written(batch, n)
      BY <1>3 DEF WriteFails
    <2>2. unannounced' \/ \A k \in CapKeys : Setting(k)' = Setting(k)
      <3>1. \A m : ~Touches(batch, m) => \A k \in CapKeys : k \notin Keys(batch, m)
        BY DEF Touches
      <3> QED BY <2>1, <3>1 DEF Written, Setting
    <2> QED BY <1>0, <2>1, <2>2 DEF LimitsInv, LimitsShown, LastToTell, DecisionsOK
  <1>4. ASSUME NEW batch \in Batches, NEW n \in 0 .. Len(batch), CrashWriting(batch, n) PROVE LimitsInv'
    <2>1. ~up' /\ decisions' = <<>> /\ shown' = shown
      BY <1>4 DEF CrashWriting
    <2>2. decisions' \in Seq({}) /\ DOMAIN decisions' = {}
      BY <2>1
    <2> QED BY <1>0, <2>1, <2>2 DEF LimitsInv, LimitsShown, DecisionsOK
  <1>5. CASE BridgeDecides
    <2>1. decisions' = Append(decisions, Caps) /\ shown' = shown /\ stored' = stored
      BY <1>5 DEF BridgeDecides, Decision
    <2>2. DOMAIN Caps = CapKeys /\ \A k \in CapKeys : Caps[k] = Setting(k)'
      BY <2>1 DEF Caps, Setting
    <2> DEFINE d == Caps
    <2> HIDE DEF d
    <2>3. DOMAIN d = CapKeys /\ (\A k \in CapKeys : d[k] = Setting(k)') /\ decisions' = Append(decisions, d)
      BY <2>1, <2>2 DEF d
    <2>4. /\ DecisionsOK' /\ DOMAIN decisions' = DOMAIN decisions \cup {Len(decisions) + 1}
          /\ decisions'[Len(decisions) + 1] = d
          /\ \A i \in DOMAIN decisions : decisions'[i] = decisions[i] /\ i < Len(decisions) + 1
      BY <1>0, <2>1, <2>3, DecisionAdded
    <2>5. ASSUME NEW k \in CapKeys, NEW i \in DOMAIN decisions', LastToTell(i, k)'
          PROVE  decisions'[i][k] = Setting(k)'
      <3>1. i = Len(decisions) + 1
        BY <2>3, <2>4, <2>5 DEF LastToTell
      <3> QED BY <2>3, <2>4, <3>1
    <2> QED BY <2>3, <2>4, <2>5 DEF LimitsInv, LimitsShown
  <1>6. CASE MarginDecides
    <2> DEFINE d == <<>>
    <2>1. decisions' = Append(decisions, d) /\ UNCHANGED <<shown, stored, up, unannounced>> /\ DOMAIN d = {}
      BY <1>6 DEF MarginDecides
    <2> HIDE DEF d
    <2>2. /\ DecisionsOK' /\ DOMAIN decisions' = DOMAIN decisions \cup {Len(decisions) + 1}
          /\ decisions'[Len(decisions) + 1] = d
          /\ \A i \in DOMAIN decisions : decisions'[i] = decisions[i] /\ i < Len(decisions) + 1
      BY <1>0, <2>1, DecisionAdded
    <2>3. \A k : Setting(k)' = Setting(k)
      BY <2>1 DEF Setting
    <2>4. ASSUME NEW k \in CapKeys, NEW i \in DOMAIN decisions', LastToTell(i, k)'
          PROVE  i \in DOMAIN decisions /\ LastToTell(i, k) /\ decisions'[i] = decisions[i]
      <3>1. i # Len(decisions) + 1
        BY <2>1, <2>2, <2>4 DEF LastToTell
      <3> QED BY <2>2, <2>4, <3>1 DEF LastToTell
    <2> QED BY <1>0, <2>1, <2>2, <2>3, <2>4 DEF LimitsInv, LimitsShown
  <1>7. CASE TakeDecision
    <2>1. /\ decisions # <<>> /\ decisions' = Tail(decisions) /\ UNCHANGED <<stored, up, unannounced>>
          /\ shown' = Merged(shown, Head(decisions))
      BY <1>7 DEF TakeDecision
    <2>2. PICK V : decisions \in Seq(V)
      BY <1>0 DEF DecisionsOK
    <2>3. /\ decisions' \in Seq(V) /\ 1 \in DOMAIN decisions /\ Head(decisions) = decisions[1]
          /\ \A i \in DOMAIN decisions' : i + 1 \in DOMAIN decisions /\ decisions'[i] = decisions[i + 1]
          /\ \A j \in DOMAIN decisions : j # 1 => j - 1 \in DOMAIN decisions' /\ (j - 1) + 1 = j
          /\ DOMAIN decisions \subseteq Nat /\ DOMAIN decisions' \subseteq Nat
      BY <2>1, <2>2
    <2>4. DecisionsOK' /\ \A k \in CapKeys : shown'[k] = IF k \in DOMAIN decisions[1] THEN decisions[1][k] ELSE shown[k]
      BY <1>0, <2>1, <2>3 DEF DecisionsOK, Merged
    <2>5. \A k : Setting(k)' = Setting(k)
      BY <2>1 DEF Setting
    <2>6. ASSUME up, ~unannounced, NEW k \in CapKeys, NEW i \in DOMAIN decisions', LastToTell(i, k)'
          PROVE  decisions'[i][k] = Setting(k)
      <3>1. i + 1 \in DOMAIN decisions /\ k \in DOMAIN decisions[i + 1]
        BY <2>3, <2>6 DEF LastToTell
      <3>2. ASSUME NEW j \in DOMAIN decisions, j > i + 1 PROVE k \notin DOMAIN decisions[j]
        <4>1. j - 1 \in DOMAIN decisions' /\ j - 1 > i /\ (j - 1) + 1 = j
          BY <2>3, <2>6, <3>2
        <4> QED BY <2>3, <2>6, <4>1 DEF LastToTell
      <3>3. LastToTell(i + 1, k)
        BY <3>1, <3>2 DEF LastToTell
      <3> QED BY <1>0, <2>3, <2>6, <3>1, <3>3 DEF LimitsShown
    <2>7. ASSUME up, ~unannounced, NEW k \in CapKeys, \A i \in DOMAIN decisions' : k \notin DOMAIN decisions'[i]
          PROVE  shown'[k] = Setting(k)
      <3>1. ASSUME NEW j \in DOMAIN decisions, j # 1 PROVE k \notin DOMAIN decisions[j]
        BY <2>3, <2>7, <3>1
      <3>2. CASE k \in DOMAIN decisions[1]
        <4>1. LastToTell(1, k)
          BY <2>3, <3>1, <3>2 DEF LastToTell
        <4> QED BY <1>0, <2>3, <2>4, <2>7, <3>2, <4>1 DEF LimitsShown
      <3>3. CASE k \notin DOMAIN decisions[1]
        <4>1. \A j \in DOMAIN decisions : k \notin DOMAIN decisions[j]
          BY <3>1, <3>3
        <4> QED BY <1>0, <2>4, <2>7, <3>3, <4>1 DEF LimitsShown
      <3> QED BY <3>2, <3>3
    <2> QED BY <2>1, <2>4, <2>5, <2>6, <2>7 DEF LimitsInv, LimitsShown
  <1>8. CASE UNCHANGED settingsVars
    BY <1>0, <1>8 DEF settingsVars, LimitsInv, LimitsShown, DecisionsOK, LastToTell, Setting
  <1> QED BY <1>1, <1>2, <1>3, <1>4, <1>5, <1>6, <1>7, <1>8 DEF SettingsNext

\* Whatever is written, refused, interrupted, seeded and announced in whatever order
\* (settings_router.py, bus_bridge.py, projections.py), the decisions under way end with the
\* caps that the store holds, unless a write of a cap stopped halfway.
THEOREM PanelShowsCaps == SettingsSpec => []LimitsShown
  <1>1. LimitsInv => LimitsShown
    BY DEF LimitsInv
  <1> QED BY <1>1, LimitsStart, LimitsStep, PTL DEF SettingsSpec
-----------------------------------------------------------------------------
\* The mirror of the instrument masters.

\* A contract as the exchange lists it, on whatever day.
IsSpot(c) == c.kind = SpotKind(c.under) /\ c.expiry = NoDay
Traded(c) ==
  /\ c.kind \in {"OPTION", "FUTURES"} /\ c.expiry \in ExpiryDays[c.under]
  /\ c.kind = "FUTURES" => IsMonthlyExpiry(c.expiry)
Told(c) == c.under \in Underlyings /\ (IsSpot(c) \/ Traded(c))

TickerOf(c) == ToFyers(c, "none")
SameContract(c, d) == c.under = d.under /\ c.kind = d.kind /\ c.expiry = d.expiry

\* Days and months.
LEMMA DaySplits ==
  ASSUME NEW M \in Nat \ {0}, NEW d \in Nat
  PROVE  d \div M \in Nat /\ d % M \in 0 .. M - 1 /\ d = (d \div M) * M + (d % M)
  OBVIOUS

LEMMA DayJoins ==
  ASSUME NEW M \in Nat \ {0}, NEW m \in Nat, NEW r \in 0 .. M - 1
  PROVE  m * M + r \in Nat /\ (m * M + r) \div M = m /\ (m * M + r) % M = r
  OBVIOUS

\* A multiple below one unit.
LEMMA NoWholeDay ==
  ASSUME NEW D \in Nat \ {0}, NEW k \in Int, k * D < D
  PROVE  k <= 0
  <1>1. ASSUME k >= 1 PROVE FALSE
    <2>1. PICK j \in Nat : k = j + 1
      BY <1>1
    <2>2. k * D = j * D + D /\ j * D >= 0
      BY <2>1
    <2> QED BY <2>2
  <1> QED BY <1>1

\* Later times are on later days, and at most g units later at most so many days.
LEMMA DaysBehind ==
  ASSUME NEW D \in Nat \ {0}, NEW a \in Nat, NEW b \in Nat, NEW g \in Nat, a <= b, b - a <= g
  PROVE  /\ a \div D \in Nat /\ b \div D \in Nat /\ a \div D <= b \div D
         /\ b \div D - ((g + D - 1) \div D) <= a \div D
  <1>1. PICK n \in Nat : n = g + D - 1
    OBVIOUS
  <1>2. PICK p \in Nat, q \in Nat, r \in Nat : p = a \div D /\ q = b \div D /\ r = n \div D
    BY DaySplits
  <1>3. PICK x \in 0 .. D - 1, y \in 0 .. D - 1, z \in 0 .. D - 1 : x = a % D /\ y = b % D /\ z = n % D
    BY DaySplits
  <1>4. a = p * D + x /\ b = q * D + y /\ n = r * D + z
    BY <1>2, <1>3, DaySplits
  <1>5. p <= q
    <2>1. (p - q) * D < D
      <3>1. (p - q) * D = p * D - q * D
        OBVIOUS
      <3> QED BY <1>4, <3>1
    <2> QED BY <2>1, NoWholeDay
  <1>6. q - r <= p
    <2>1. (q - r - p) * D < D
      <3>1. (q - r - p) * D = q * D - r * D - p * D
        OBVIOUS
      <3> QED BY <1>1, <1>4, <3>1
    <2>2. q - r - p <= 0
      BY <2>1, NoWholeDay
    <2> QED BY <2>2
  <1>7. r = (g + D - 1) \div D
    BY <1>1, <1>2
  <1> QED BY <1>2, <1>5, <1>6, <1>7

\* What a ticker keeps of its contract.
LEMMA TickerFields ==
  ASSUME NEW c, Told(c)
  PROVE  /\ TickerOf(c).under = c.under /\ TickerOf(c).kind = c.kind
         /\ IsSpot(c) => ~IsDerivative(c) /\ TickerOf(c).month = NoDay /\ TickerOf(c).day = NoDay
         /\ Traded(c) => /\ IsDerivative(c) /\ c.expiry \in Nat
                         /\ TickerOf(c).month = c.expiry \div MonthDays
                         /\ TickerOf(c).day = IF IsMonthlyExpiry(c.expiry) THEN NoDay ELSE c.expiry % MonthDays
  <1>1. IsSpot(c) => ~IsDerivative(c)
    BY DEF IsSpot, IsDerivative, SpotKind
  <1>2. Traded(c) => IsDerivative(c) /\ c.expiry \in Nat
    BY MasterAssumption DEF Traded, IsDerivative, Told
  <1> QED BY <1>1, <1>2 DEF TickerOf, ToFyers, MonthOf

\* Two contracts of one ticker are the same: a month has one monthly expiry.
LEMMA TickerTells ==
  ASSUME NEW c, Told(c), NEW d, Told(d), TickerOf(c) = TickerOf(d)
  PROVE  SameContract(c, d)
  <1>1. c.under = d.under /\ c.kind = d.kind
    BY TickerFields
  <1>2. CASE IsSpot(c)
    <2>1. IsSpot(d)
      BY <1>1, <1>2 DEF Told, IsSpot, Traded, SpotKind
    <2> QED BY <1>1, <1>2, <2>1 DEF IsSpot, SameContract
  <1>3. CASE ~IsSpot(c)
    <2>1. Traded(c) /\ Traded(d)
      BY <1>1, <1>3 DEF Told, IsSpot, Traded, SpotKind
    <2> DEFINE x == c.expiry
               y == d.expiry
               M == MonthDays
    <2>2. /\ x \in Nat /\ y \in Nat /\ x \div M = y \div M
          /\ (IF IsMonthlyExpiry(x) THEN NoDay ELSE x % M) = IF IsMonthlyExpiry(y) THEN NoDay ELSE y % M
      BY <2>1, TickerFields
    <2>3. M \in Nat \ {0} /\ x \in ExpiryDays[c.under] /\ y \in ExpiryDays[c.under] /\ c.under \in Underlyings
      BY <1>1, <2>1, MasterAssumption DEF Traded, Told
    <2> HIDE DEF x, y, M
    <2>4. /\ x % M \in 0 .. M - 1 /\ x = (x \div M) * M + (x % M)
          /\ y % M \in 0 .. M - 1 /\ y = (y \div M) * M + (y % M)
      BY <2>2, <2>3, DaySplits
    <2>5. x = y
      <3>1. CASE IsMonthlyExpiry(x) /\ IsMonthlyExpiry(y)
        <4>1. MonthOf(x) = MonthOf(y)
          BY <2>2 DEF MonthOf, M
        <4> QED BY <2>3, <3>1, <4>1, CalendarAssumption
      <3>2. CASE ~(IsMonthlyExpiry(x) /\ IsMonthlyExpiry(y))
        <4>1. x % M = y % M
          BY <2>2, <2>4, <3>2 DEF NoDay
        <4> DEFINE q == x \div M
                   r == x % M
        <4>2. x = q * M + r /\ y = q * M + r
          BY <2>2, <2>4, <4>1
        <4> HIDE DEF q, r
        <4> QED BY <4>2
      <3> QED BY <3>1, <3>2
    <2> QED BY <1>1, <2>5 DEF SameContract, x, y
  <1> QED BY <1>2, <1>3

\* The ticker of a contract survives parsing and encoding.
LEMMA TickerReturns ==
  ASSUME NEW c, Told(c)
  PROVE  RoundTrip(TickerOf(c))
  <1> DEFINE M == MonthDays
  <1>t. PICK t : t = TickerOf(c)
    OBVIOUS
  <1>0. t = [under |-> t.under, kind |-> t.kind, month |-> t.month, day |-> t.day]
    BY <1>t DEF TickerOf, ToFyers
  <1>1. CASE IsSpot(c)
    <2>1. t.kind \notin {"FUTURES", "OPTION"} /\ t.month = NoDay /\ t.day = NoDay
      BY <1>t, <1>1, TickerFields DEF IsDerivative
    <2> QED BY <1>t, <1>0, <2>1 DEF RoundTrip, FromFyers, ToFyers, FormOf, IsDerivative
  <1>2. CASE Traded(c)
    <2> DEFINE x == c.expiry
    <2>1. /\ t.kind \in {"FUTURES", "OPTION"} /\ x \in Nat /\ t.month = x \div M
          /\ t.day = IF IsMonthlyExpiry(x) THEN NoDay ELSE x % M
      BY <1>t, <1>2, TickerFields DEF IsDerivative
    <2>2. M \in Nat \ {0}
      BY MasterAssumption
    <2>3. t.month \in Nat /\ (t.day = NoDay \/ t.day \in 0 .. M - 1)
      <3> HIDE DEF M, x
      <3>1. x \div M \in Nat /\ x % M \in 0 .. M - 1
        BY <2>1, <2>2, DaySplits
      <3> QED BY <2>1, <3>1
    <2> HIDE DEF x, M
    <2> DEFINE m == t.month
               r == IF t.day = NoDay THEN 0 ELSE t.day
               day == m * M + r
    <2>4. r \in 0 .. M - 1 /\ m \in Nat
      BY <2>2, <2>3
    <2>5. day \div M = m /\ day % M = r
      <3> HIDE DEF m, r
      <3> QED BY <2>2, <2>4, DayJoins
    <2>6. FromFyers(t) = [under |-> t.under, kind |-> t.kind, expiry |-> day]
      BY <2>1 DEF FromFyers, M
    <2>7. FormOf(t) = IF t.day = NoDay THEN "monthly" ELSE "weekly"
      BY <2>1 DEF FormOf
    <2> HIDE DEF day
    <2>8. ToFyers(FromFyers(t), FormOf(t)) =
            [under |-> t.under, kind |-> t.kind, month |-> day \div M,
             day |-> IF t.day = NoDay THEN NoDay ELSE day % M]
      BY <2>1, <2>6, <2>7 DEF ToFyers, IsDerivative, MonthOf, M
    <2> QED BY <1>t, <1>0, <2>5, <2>8 DEF RoundTrip
  <1> QED BY <1>1, <1>2 DEF Told

\* What the exchange lists on a day, per master.
ListedOn(m, day) == IF m = "NSE_CM" THEN Spots ELSE Derivatives(day)

\* A mirror tells contracts that are or were listed, each under its ticker, and
\* has the tickers of all that the masters of its timestamp told.
MirrorTells ==
  \A t \in DOMAIN mirror :
    /\ Told(mirror[t]) /\ TickerOf(mirror[t]) = t
    /\ Traded(mirror[t]) => mirror[t].expiry <= Today + Horizon

MirrorHas(day) ==
  \A m \in Masters \ missed : \A c \in ListedOn(m, day) : TickerOf(c) \in DOMAIN mirror

Stamped ==
  /\ refreshed \in 0 .. now /\ missed # Masters
  /\ MirrorHas(refreshed \div DayParts)

PublishedKept == \A t \in DOMAIN published : t \in DOMAIN mirror /\ mirror[t] = published[t]

MirrorInv == MasterTypeOK /\ MirrorTells /\ PublishedKept /\ (refreshed # Never => Stamped)

\* What the exchange lists is told by its masters in this form.
LEMMA ListingTold ==
  ASSUME NEW m, NEW day \in Nat, NEW c \in ListedOn(m, day)
  PROVE  Told(c) /\ (Traded(c) => c.expiry <= day + Horizon)
  <1>1. CASE m = "NSE_CM"
    <2>1. c \in Spots
      BY <1>1 DEF ListedOn
    <2>2. PICK u \in Underlyings : c = [under |-> u, kind |-> SpotKind(u), expiry |-> NoDay]
      BY <2>1 DEF Spots
    <2>3. Told(c) /\ c.kind \notin {"OPTION", "FUTURES"}
      BY <2>2 DEF Told, IsSpot, SpotKind
    <2> QED BY <2>3 DEF Traded
  <1>2. CASE m # "NSE_CM"
    <2>1. c \in Derivatives(day)
      BY <1>2 DEF ListedOn
    <2>2. /\ c.under \in Underlyings /\ c.kind \in {"OPTION", "FUTURES"} /\ c.expiry \in day .. day + Horizon
          /\ c.expiry \in ExpiryDays[c.under] /\ (c.kind = "FUTURES" => IsMonthlyExpiry(c.expiry))
      BY <2>1 DEF Derivatives
    <2>3. c.expiry <= day + Horizon
      BY <2>2, MasterAssumption
    <2> QED BY <2>2, <2>3 DEF Told, Traded
  <1> QED BY <1>1, <1>2

\* What a download yields.
LEMMA DownloadTells ==
  ASSUME NEW reached \in SUBSET Masters, now \in Nat, lotSize \in LotSizes, NEW rows, rows = Download(reached)
  PROVE  /\ \A t \in DOMAIN rows :
              /\ Told(rows[t]) /\ TickerOf(rows[t]) = t /\ rows[t].lot \in LotSizes
              /\ Traded(rows[t]) => rows[t].expiry <= Today + Horizon
         /\ \A m \in reached : \A c \in ListedOn(m, Today) : TickerOf(c) \in DOMAIN rows
         /\ reached = {} => DOMAIN rows = {}
  <1> DEFINE contracts == UNION {Listed[m] : m \in reached}
             F(t) == CHOOSE c \in contracts : TickerOf(c) = t
  <1>1. Today \in Nat
    BY MasterAssumption, DaySplits DEF Today
  <1>2. \A m \in reached : Listed[m] = ListedOn(m, Today)
    BY DEF Listed, ListedOn
  <1>3. \A c \in contracts : Told(c) /\ (Traded(c) => c.expiry <= Today + Horizon)
    BY <1>1, <1>2, ListingTold
  <1>4. rows = [t \in {TickerOf(c) : c \in contracts} |-> RowOf(F(t))]
    BY DEF Download, TickerOf
  <1> HIDE DEF contracts
  <1>5. ASSUME NEW t \in DOMAIN rows
        PROVE  /\ Told(rows[t]) /\ TickerOf(rows[t]) = t /\ rows[t].lot \in LotSizes
               /\ Traded(rows[t]) => rows[t].expiry <= Today + Horizon
    <2>1. PICK c \in contracts : TickerOf(c) = t
      BY <1>4
    <2>2. PICK d : d = F(t)
      OBVIOUS
    <2>3. d \in contracts /\ TickerOf(d) = t
      BY <2>1, <2>2
    <2>4. rows[t] = RowOf(d)
      BY <1>4, <2>2
    <2> HIDE DEF F
    <2>5. PICK r : r = RowOf(d)
      OBVIOUS
    <2>6. r.under = d.under /\ r.kind = d.kind /\ r.expiry = d.expiry /\ r.lot = lotSize
      BY <2>5 DEF RowOf
    <2>7. Told(r) /\ TickerOf(r) = TickerOf(d) /\ (Traded(r) <=> Traded(d))
      <3>1. IsDerivative(r) <=> IsDerivative(d)
        BY <2>6 DEF IsDerivative
      <3>2. TickerOf(r) = TickerOf(d)
        BY <2>6, <3>1 DEF TickerOf, ToFyers
      <3>3. Told(d)
        BY <1>3, <2>3
      <3> QED BY <2>6, <3>2, <3>3 DEF Told, IsSpot, Traded
    <2> QED BY <1>3, <2>3, <2>4, <2>5, <2>6, <2>7
  <1>6. ASSUME NEW m \in reached, NEW c \in ListedOn(m, Today) PROVE TickerOf(c) \in DOMAIN rows
    <2>1. c \in contracts
      BY <1>2 DEF contracts
    <2> QED BY <1>4, <2>1
  <1>7. reached = {} => DOMAIN rows = {}
    BY <1>4 DEF contracts
  <1> QED BY <1>5, <1>6, <1>7

\* The invariant of the mirror.
LEMMA MirrorInitial == MasterInit => MirrorInv
  <1> SUFFICES ASSUME MasterInit PROVE MirrorInv
    OBVIOUS
  <1>1. now = 0 /\ lotSize \in LotSizes /\ refreshed = Never /\ starts = 0 /\ published = <<>> /\ missed = {}
    BY DEF MasterInit
  <1>2. DOMAIN published = {}
    BY <1>1
  <1>3. /\ \A t \in DOMAIN mirror : mirror[t].lot \in LotSizes
        /\ MirrorTells
    <2>1. CASE mirror = <<>>
      <3>1. DOMAIN mirror = {}
        BY <2>1
      <3> QED BY <3>1 DEF MirrorTells
    <2>2. CASE mirror = Download(Masters)
      <3>1. Masters \in SUBSET Masters /\ now \in Nat
        BY <1>1
      <3> QED BY <1>1, <2>2, <3>1, DownloadTells DEF MirrorTells
    <2> QED BY <2>1, <2>2 DEF MasterInit
  <1>4. MasterTypeOK
    <2>1. 0 \in 0 .. MaxNow /\ 0 \in 0 .. MaxStarts
      BY MasterAssumption
    <2> QED BY <1>1, <1>2, <1>3, <2>1 DEF MasterTypeOK, MirrorTells, TickerOf
  <1>5. PublishedKept
    BY <1>2 DEF PublishedKept
  <1> QED BY <1>1, <1>3, <1>4, <1>5 DEF MirrorInv

\* A refresh, whichever masters it reached.
LEMMA MirrorRefreshed ==
  ASSUME MirrorInv, NEW reached \in SUBSET Masters, Refresh(reached), UNCHANGED <<now, lotSize>>,
         starts' \in 0 .. MaxStarts
  PROVE  MirrorInv'
  <1> DEFINE rows == Download(reached)
  <1>0. now \in 0 .. MaxNow /\ now \in Nat /\ lotSize \in LotSizes /\ Today' = Today
    BY MasterAssumption DEF MirrorInv, MasterTypeOK, Today
  <1>1. /\ \A t \in DOMAIN rows :
             /\ Told(rows[t]) /\ TickerOf(rows[t]) = t /\ rows[t].lot \in LotSizes
             /\ Traded(rows[t]) => rows[t].expiry <= Today + Horizon
        /\ \A m \in reached : \A c \in ListedOn(m, Today) : TickerOf(c) \in DOMAIN rows
        /\ reached = {} => DOMAIN rows = {}
    BY <1>0, DownloadTells
  <1>2. /\ mirror' = [t \in DOMAIN mirror \cup DOMAIN rows |-> IF t \in DOMAIN rows THEN rows[t] ELSE mirror[t]]
        /\ IF rows = <<>> THEN UNCHANGED <<refreshed, published, missed>>
           ELSE refreshed' = now /\ published' = rows /\ missed' = Masters \ reached
    BY DEF Refresh, UpsertMaster
  <1>3. rows = [t \in DOMAIN rows |-> rows[t]]
    BY DEF Download
  <1> HIDE DEF rows
  <1>4. DOMAIN mirror' = DOMAIN mirror \cup DOMAIN rows
    BY <1>2
  <1>5. rows = <<>> <=> DOMAIN rows = {}
    BY <1>3
  <1>6. MirrorTells' /\ \A t \in DOMAIN mirror' : mirror'[t].lot \in LotSizes
    <2>1. ASSUME NEW t \in DOMAIN mirror'
          PROVE  /\ Told(mirror'[t]) /\ TickerOf(mirror'[t]) = t /\ mirror'[t].lot \in LotSizes
                 /\ Traded(mirror'[t]) => mirror'[t].expiry <= Today + Horizon
      <3>1. CASE t \in DOMAIN rows
        BY <1>1, <1>2, <1>4, <3>1
      <3>2. CASE t \notin DOMAIN rows
        <4>1. t \in DOMAIN mirror /\ mirror'[t] = mirror[t]
          BY <1>2, <1>4, <3>2
        <4> QED BY <4>1 DEF MirrorInv, MirrorTells, MasterTypeOK
      <3> QED BY <3>1, <3>2
    <2> QED BY <1>0, <2>1 DEF MirrorTells, Told, TickerOf, Traded, IsSpot
  <1>7. PublishedKept'
    <2>1. CASE rows = <<>>
      <3>1. ASSUME NEW t \in DOMAIN published PROVE t \in DOMAIN mirror' /\ mirror'[t] = published[t]
        BY <1>2, <1>4, <1>5, <2>1 DEF MirrorInv, PublishedKept
      <3> QED BY <1>2, <2>1, <3>1 DEF PublishedKept
    <2>2. CASE rows # <<>>
      <3>1. published' = rows
        BY <1>2, <2>2
      <3> QED BY <1>2, <1>4, <3>1 DEF PublishedKept
    <2> QED BY <2>1, <2>2
  <1>8. (refreshed # Never => Stamped)'
    <2>1. CASE rows = <<>>
      <3>1. UNCHANGED <<refreshed, missed, now>>
        BY <1>2, <2>1
      <3>2. MirrorHas(refreshed \div DayParts) => MirrorHas(refreshed \div DayParts)'
        BY <1>4, <3>1 DEF MirrorHas, ListedOn, Spots, Derivatives, TickerOf
      <3> QED BY <3>1, <3>2 DEF MirrorInv, Stamped
    <2>2. CASE rows # <<>>
      <3>1. refreshed' = now /\ missed' = Masters \ reached /\ now' = now
        BY <1>2, <2>2
      <3>2. refreshed' \in 0 .. now' /\ missed' # Masters
        <4>1. reached # {}
          BY <1>1, <1>5, <2>2
        <4> QED BY <1>0, <3>1, <4>1
      <3>3. ASSUME NEW m \in Masters \ missed', NEW c \in ListedOn(m, refreshed' \div DayParts)
            PROVE  TickerOf(c) \in DOMAIN mirror'
        <4>1. m \in reached /\ refreshed' \div DayParts = Today
          BY <3>1 DEF Today
        <4> QED BY <1>1, <1>4, <3>3, <4>1
      <3> QED BY <3>2, <3>3 DEF Stamped, MirrorHas, ListedOn, Spots, Derivatives, TickerOf
    <2> QED BY <2>1, <2>2
  <1>9. MasterTypeOK'
    <2>1. refreshed' \in {Never} \cup 0 .. MaxNow /\ missed' \in SUBSET Masters
      BY <1>0, <1>2 DEF MirrorInv, MasterTypeOK
    <2>2. DOMAIN published' \subseteq DOMAIN mirror'
      BY <1>7 DEF PublishedKept
    <2> QED BY <1>0, <1>6, <2>1, <2>2 DEF MasterTypeOK, MirrorTells, TickerOf
  <1> QED BY <1>6, <1>7, <1>8, <1>9 DEF MirrorInv

\* Time passes: the mirror stays as it is.
LEMMA MirrorStays ==
  ASSUME MirrorInv, UNCHANGED <<mirror, refreshed, published, missed>>,
         now' \in 0 .. MaxNow, now <= now', lotSize' \in LotSizes, starts' \in 0 .. MaxStarts
  PROVE  MirrorInv'
  <1>0. now \in Nat /\ now' \in Nat /\ now <= now'
    BY DEF MirrorInv, MasterTypeOK
  <1>d. now \div DayParts \in Nat /\ now' \div DayParts \in Nat /\ now \div DayParts <= now' \div DayParts
    <2>1. DayParts \in Nat \ {0} /\ now' - now \in Nat /\ now' - now <= now' - now
      BY <1>0, MasterAssumption
    <2> QED BY <1>0, <2>1, DaysBehind
  <1>1. now \in Nat /\ now' \in Nat /\ Today \in Nat /\ Today' \in Nat /\ Today <= Today'
    BY <1>0, <1>d DEF Today
  <1>2. MasterTypeOK'
    BY DEF MirrorInv, MasterTypeOK
  <1>3. MirrorTells'
    <2>1. ASSUME NEW t \in DOMAIN mirror
          PROVE  /\ Told(mirror[t]) /\ TickerOf(mirror[t]) = t
                 /\ Traded(mirror[t]) => mirror[t].expiry <= Today' + Horizon
      <3>1. /\ Told(mirror[t]) /\ TickerOf(mirror[t]) = t
            /\ Traded(mirror[t]) => mirror[t].expiry <= Today + Horizon
        BY DEF MirrorInv, MirrorTells
      <3>2. Traded(mirror[t]) => mirror[t].expiry \in Nat
        BY <3>1, TickerFields
      <3> QED BY <1>1, <3>1, <3>2, MasterAssumption
    <2> QED BY <2>1 DEF MirrorTells, Told, TickerOf, Traded, IsSpot
  <1>4. PublishedKept'
    BY DEF MirrorInv, PublishedKept
  <1>5. (refreshed # Never => Stamped)'
    <2>1. MirrorHas(refreshed \div DayParts) => MirrorHas(refreshed \div DayParts)'
      BY DEF MirrorHas, ListedOn, Spots, Derivatives, TickerOf
    <2>2. refreshed \in 0 .. now => refreshed \in 0 .. now'
      BY <1>1
    <2> QED BY <2>1, <2>2 DEF MirrorInv, Stamped
  <1> QED BY <1>2, <1>3, <1>4, <1>5 DEF MirrorInv

LEMMA MirrorStep == MirrorInv /\ [MasterNext]_masterVars => MirrorInv'
  <1> SUFFICES ASSUME MirrorInv, [MasterNext]_masterVars PROVE MirrorInv'
    OBVIOUS
  <1>0. now \in 0 .. MaxNow /\ starts \in 0 .. MaxStarts /\ lotSize \in LotSizes /\ now <= now
    BY DEF MirrorInv, MasterTypeOK
  <1>1. ASSUME NEW reached \in SUBSET Masters, StartMaster(reached) PROVE MirrorInv'
    <2>1. starts' \in 0 .. MaxStarts /\ UNCHANGED <<now, lotSize>>
      BY <1>0, <1>1, MasterAssumption DEF StartMaster
    <2>2. CASE NeedsRefresh
      BY <1>1, <2>1, <2>2, MirrorRefreshed DEF StartMaster
    <2>3. CASE ~NeedsRefresh
      BY <1>0, <1>1, <2>1, <2>3, MirrorStays DEF StartMaster
    <2> QED BY <2>2, <2>3
  <1>2. CASE TimePasses
    <2>1. now' \in 0 .. MaxNow /\ now <= now'
      BY <1>0, <1>2, MasterAssumption DEF TimePasses
    <2> QED BY <1>0, <1>2, <2>1, MirrorStays DEF TimePasses
  <1>3. CASE LotSizeChanges
    BY <1>0, <1>3, MirrorStays DEF LotSizeChanges
  <1>4. CASE UNCHANGED masterVars
    BY <1>0, <1>4, MirrorStays DEF masterVars
  <1> QED BY <1>1, <1>2, <1>3, <1>4 DEF MasterNext

\* No day of Y without one of X that is not later.
LeadBy(X, Y) == \A e \in Y : \E d \in X : d <= e

\* Then the first day of both is the same.
LEMMA SameFirst ==
  ASSUME NEW Y \in SUBSET Nat, NEW X \in SUBSET Y, LeadBy(X, Y)
  PROVE  (X = {} <=> Y = {}) /\ MinOrNone(X) = MinOrNone(Y)
  <1>1. CASE Y = {}
    BY <1>1
  <1>2. CASE Y # {}
    <2>1. X # {}
      BY <1>2 DEF LeadBy
    <2>2. X \in SUBSET Nat
      OBVIOUS
    <2>3. PICK x : x = Min(X)
      OBVIOUS
    <2>4. PICK y : y = Min(Y)
      OBVIOUS
    <2>5. x \in X /\ \A n \in X : x <= n
      BY <2>1, <2>2, <2>3, LeastNumber
    <2>6. y \in Y /\ \A n \in Y : y <= n
      BY <1>2, <2>4, LeastNumber
    <2>7. PICK d \in X : d <= y
      BY <2>6 DEF LeadBy
    <2>8. x = y
      <3>1. x <= d /\ y <= x /\ x \in Nat /\ y \in Nat /\ d \in Nat
        BY <2>5, <2>6, <2>7
      <3> QED BY <2>7, <3>1
    <2> QED BY <1>2, <2>1, <2>3, <2>4, <2>8 DEF MinOrNone
  <1> QED BY <1>1, <1>2

\* The expiry days listed today, and those that a mirror of a day ago had already.
ListedDays(u) == {d \in ExpiryDays[u] : Today <= d /\ d <= Today + Horizon}
EarlyDays(u) == {d \in ListedDays(u) : d <= Today + Horizon - Aged}
MirrorDays(u, kind) == Unexpired(Expiries(Search(u, {kind})), Today)

\* A fresh mirror.
LEMMA FreshMirror ==
  ASSUME MirrorInv, ~NeedsRefresh
  PROVE  /\ missed # Masters /\ missed \subseteq Masters
         /\ Today \in Nat /\ Today \in 0 .. MaxNow \div DayParts
         /\ refreshed \div DayParts \in Nat /\ refreshed \div DayParts \in 0 .. MaxNow \div DayParts
         /\ refreshed \div DayParts <= Today /\ Today - Aged <= refreshed \div DayParts
         /\ MirrorHas(refreshed \div DayParts)
  <1>1. /\ now \in 0 .. MaxNow /\ refreshed \in 0 .. now /\ now - refreshed <= MaxAge
        /\ missed # Masters /\ missed \subseteq Masters /\ MirrorHas(refreshed \div DayParts)
    BY MasterAssumption DEF MirrorInv, MasterTypeOK, NeedsRefresh, Stamped
  <1>2. /\ now \in Nat /\ refreshed \in Nat /\ MaxAge \in Nat /\ MaxNow \in Nat /\ refreshed <= now /\ now <= MaxNow
    BY <1>1, MasterAssumption
  <1>3. /\ refreshed \div DayParts \in Nat /\ now \div DayParts \in Nat /\ refreshed \div DayParts <= now \div DayParts
        /\ now \div DayParts - Aged <= refreshed \div DayParts
    <2>1. DayParts \in Nat \ {0} /\ MaxAge \in Nat /\ refreshed <= now /\ now - refreshed <= MaxAge
      BY <1>1, <1>2, MasterAssumption
    <2> QED BY <1>2, <2>1, DaysBehind DEF Aged
  <1>4. now \div DayParts <= MaxNow \div DayParts /\ MaxNow \div DayParts \in Nat
    <2>1. DayParts \in Nat \ {0} /\ MaxNow - now \in Nat /\ MaxNow - now <= MaxNow - now
      BY <1>2, MasterAssumption
    <2> QED BY <1>2, <2>1, DaysBehind
  <1>5. refreshed \div DayParts \in 0 .. MaxNow \div DayParts /\ now \div DayParts \in 0 .. MaxNow \div DayParts
    BY <1>3, <1>4
  <1> QED BY <1>1, <1>3, <1>5 DEF Today

\* A contract that the mirror has is found by name and kind.
LEMMA ContractFound ==
  ASSUME MirrorInv, NEW m \in Masters \ missed, NEW day \in Nat, MirrorHas(day), NEW c \in ListedOn(m, day)
  PROVE  \E t \in DOMAIN mirror : t.under = c.under /\ t.kind = c.kind /\ SameContract(mirror[t], c)
  <1>1. Told(c)
    BY ListingTold
  <1>2. TickerOf(c) \in DOMAIN mirror
    BY DEF MirrorHas
  <1>3. Told(mirror[TickerOf(c)]) /\ TickerOf(mirror[TickerOf(c)]) = TickerOf(c)
    BY <1>2 DEF MirrorInv, MirrorTells
  <1>4. SameContract(mirror[TickerOf(c)], c)
    BY <1>1, <1>3, TickerTells
  <1> QED BY <1>1, <1>2, <1>4, TickerFields

LEMMA DerivativeListed ==
  ASSUME NEW u \in Underlyings, NEW day \in Nat, NEW d \in ExpiryDays[u], day <= d, d <= day + Horizon,
         NEW kind \in {"OPTION", "FUTURES"}, kind = "FUTURES" => IsMonthlyExpiry(d)
  PROVE  [under |-> u, kind |-> kind, expiry |-> d] \in ListedOn("NSE_FO", day)
  <1>1. d \in day .. day + Horizon
    BY MasterAssumption
  <1> QED BY <1>1 DEF ListedOn, Derivatives

\* Whatever master was downloaded, it told the lot size of every underlying.
LEMMA LotsKnown ==
  ASSUME MirrorInv, ~NeedsRefresh, NEW u \in Underlyings
  PROVE  LotSizeOf(u) # {}
  <1>0. PICK m \in Masters : m \notin missed
    BY FreshMirror
  <1>1. PICK day : day = refreshed \div DayParts
    OBVIOUS
  <1>2. day \in Nat /\ day \in 0 .. MaxNow \div DayParts /\ MirrorHas(day)
    BY <1>1, FreshMirror
  <1>3. \E c \in ListedOn(m, day) : c.under = u /\ c.kind \in {"INDEX", "EQUITY", "FUTURES", "OPTION"}
    <2>1. CASE m = "NSE_CM"
      <3> DEFINE c == [under |-> u, kind |-> SpotKind(u), expiry |-> NoDay]
      <3>1. c \in ListedOn(m, day) /\ c.under = u /\ c.kind \in {"INDEX", "EQUITY", "FUTURES", "OPTION"}
        BY <2>1 DEF ListedOn, Spots, SpotKind
      <3> QED BY <3>1
    <2>2. CASE m = "NSE_FO"
      <3>1. PICK d \in ExpiryDays[u] : day <= d /\ d <= day + Horizon
        BY <1>2, CalendarAssumption
      <3> DEFINE c == [under |-> u, kind |-> "OPTION", expiry |-> d]
      <3>2. c \in ListedOn(m, day)
        BY <1>2, <2>2, <3>1, DerivativeListed
      <3>3. c.under = u /\ c.kind = "OPTION"
        OBVIOUS
      <3> HIDE DEF c
      <3> QED BY <3>2, <3>3
    <2> QED BY <2>1, <2>2 DEF Masters
  <1>4. PICK t \in DOMAIN mirror : t.under = u /\ t.kind \in {"INDEX", "EQUITY", "FUTURES", "OPTION"}
    BY <1>0, <1>2, <1>3, ContractFound
  <1>5. mirror[t] \in Search(u, {"INDEX"}) \/ mirror[t] \in Search(u, {"EQUITY", "FUTURES", "OPTION"})
    BY <1>4 DEF Search
  <1>6. Search(u, {"INDEX"}) # {} \/ Search(u, {"EQUITY", "FUTURES", "OPTION"}) # {}
    BY <1>5
  <1> HIDE DEF Search
  <1> QED BY <1>6 DEF LotSizeOf

\* What the mirror has of the days listed today.
LEMMA DaysMirrored ==
  ASSUME MirrorInv, ~NeedsRefresh, "NSE_FO" \notin missed, NEW u \in Underlyings, NEW kind \in {"OPTION", "FUTURES"}
  PROVE  /\ MirrorDays(u, kind) \subseteq ListedDays(u)
         /\ kind = "FUTURES" => \A d \in MirrorDays(u, kind) : IsMonthlyExpiry(d)
         /\ \A d \in EarlyDays(u) : (kind = "FUTURES" => IsMonthlyExpiry(d)) => d \in MirrorDays(u, kind)
  <1>1. PICK day : day = refreshed \div DayParts
    OBVIOUS
  <1>2. /\ day \in Nat /\ Today \in Nat /\ day <= Today /\ Today - Aged <= day /\ MirrorHas(day)
        /\ "NSE_FO" \in Masters \ missed
    BY <1>1, FreshMirror DEF Masters
  <1>3. ASSUME NEW d \in MirrorDays(u, kind)
        PROVE  d \in ListedDays(u) /\ (kind = "FUTURES" => IsMonthlyExpiry(d))
    <2>1. PICK t \in DOMAIN mirror : t.under = u /\ t.kind = kind /\ mirror[t].expiry = d /\ d >= Today
      BY DEF MirrorDays, Unexpired, Expiries, Search
    <2>2. /\ Told(mirror[t]) /\ TickerOf(mirror[t]) = t
          /\ Traded(mirror[t]) => mirror[t].expiry <= Today + Horizon
      BY <2>1 DEF MirrorInv, MirrorTells
    <2>3. mirror[t].under = u /\ mirror[t].kind = kind
      BY <2>1, <2>2, TickerFields
    <2>4. Traded(mirror[t])
      BY <2>2, <2>3 DEF Told, IsSpot, SpotKind
    <2>5. d \in ExpiryDays[u] /\ d <= Today + Horizon /\ (kind = "FUTURES" => IsMonthlyExpiry(d))
      BY <2>1, <2>2, <2>3, <2>4 DEF Traded
    <2>6. d \in Nat
      BY <2>5, MasterAssumption
    <2> QED BY <1>2, <2>1, <2>5, <2>6 DEF ListedDays
  <1>4. ASSUME NEW d \in EarlyDays(u), kind = "FUTURES" => IsMonthlyExpiry(d)
        PROVE  d \in MirrorDays(u, kind)
    <2>1. d \in ExpiryDays[u] /\ Today <= d /\ d <= Today + Horizon - Aged
      BY DEF EarlyDays, ListedDays
    <2>2. d \in Nat /\ Horizon \in Nat /\ Aged \in Int
      BY <2>1, MasterAssumption DEF Aged
    <2>3. day <= d /\ d <= day + Horizon
      BY <1>2, <2>1, <2>2
    <2> DEFINE c == [under |-> u, kind |-> kind, expiry |-> d]
    <2>4. c \in ListedOn("NSE_FO", day)
      BY <1>2, <1>4, <2>1, <2>3, DerivativeListed
    <2>5. c.under = u /\ c.kind = kind /\ c.expiry = d
      OBVIOUS
    <2> HIDE DEF c
    <2>6. PICK t \in DOMAIN mirror : t.under = c.under /\ t.kind = c.kind /\ SameContract(mirror[t], c)
      BY <1>2, <2>4, ContractFound
    <2>7. t.under = u /\ t.kind = kind /\ mirror[t].expiry = d
      BY <2>5, <2>6 DEF SameContract
    <2>8. d \in Expiries(Search(u, {kind}))
      BY <2>7 DEF Expiries, Search
    <2> QED BY <1>2, <2>1, <2>2, <2>8 DEF MirrorDays, Unexpired
  <1> QED BY <1>3, <1>4

\* The early days lead, in their form and class.
LEMMA DaysLead ==
  ASSUME MirrorInv, ~NeedsRefresh, NEW u \in Underlyings
  PROVE  /\ ListedDays(u) \in SUBSET Nat /\ EarlyDays(u) # {} /\ EarlyDays(u) \subseteq ListedDays(u)
         /\ \A e \in ListedDays(u) : \E d \in EarlyDays(u) :
              /\ d <= e /\ (IsMonthlyExpiry(d) <=> IsMonthlyExpiry(e))
              /\ ClassifyExpiry(u, d) = ClassifyExpiry(u, e)
  <1>1. Today \in 0 .. MaxNow \div DayParts
    BY FreshMirror
  <1>2. ListedDays(u) \in SUBSET Nat
    BY MasterAssumption DEF ListedDays
  <1>3. EarlyDays(u) # {} /\ \A e \in ListedDays(u) : \E d \in EarlyDays(u) :
              /\ d <= e /\ (IsMonthlyExpiry(d) <=> IsMonthlyExpiry(e))
              /\ ClassifyExpiry(u, d) = ClassifyExpiry(u, e)
    BY <1>1, CalendarAssumption DEF EarlyDays, ListedDays
  <1>4. EarlyDays(u) \subseteq ListedDays(u)
    BY DEF EarlyDays
  <1> QED BY <1>2, <1>3, <1>4

\* What the terminal picks from what the exchange lists today.
ListedNow(u, kind) == {c \in Listed["NSE_FO"] : c.under = u /\ c.kind = kind}

\* Options expire on all days listed, futures on the monthly ones.
LEMMA ListedExpiries ==
  ASSUME Today \in Nat, NEW u \in Underlyings
  PROVE  /\ Expiries(ListedNow(u, "OPTION")) = ListedDays(u)
         /\ Unexpired(Expiries(ListedNow(u, "OPTION")), Today) = ListedDays(u)
         /\ Unexpired(Expiries(ListedNow(u, "FUTURES")), Today) = {d \in ListedDays(u) : IsMonthlyExpiry(d)}
  <1>1. Listed["NSE_FO"] = ListedOn("NSE_FO", Today)
    BY DEF Listed, ListedOn, Masters
  <1>2. ASSUME NEW kind \in {"OPTION", "FUTURES"}, NEW d
        PROVE  d \in Expiries(ListedNow(u, kind)) <=> d \in ListedDays(u) /\ (kind = "FUTURES" => IsMonthlyExpiry(d))
    <2>1. ASSUME d \in Expiries(ListedNow(u, kind))
          PROVE  d \in ListedDays(u) /\ (kind = "FUTURES" => IsMonthlyExpiry(d))
      <3>1. PICK c \in ListedOn("NSE_FO", Today) : c.under = u /\ c.kind = kind /\ c.expiry = d
        BY <1>1, <2>1 DEF Expiries, ListedNow
      <3>2. /\ d \in Today .. Today + Horizon /\ d \in ExpiryDays[u]
            /\ kind = "FUTURES" => IsMonthlyExpiry(d)
        BY <3>1 DEF ListedOn, Derivatives
      <3>3. Today <= d /\ d <= Today + Horizon
        BY <3>2, MasterAssumption
      <3> QED BY <3>2, <3>3 DEF ListedDays
    <2>2. ASSUME d \in ListedDays(u), kind = "FUTURES" => IsMonthlyExpiry(d)
          PROVE  d \in Expiries(ListedNow(u, kind))
      <3> DEFINE c == [under |-> u, kind |-> kind, expiry |-> d]
      <3>1. d \in ExpiryDays[u] /\ Today <= d /\ d <= Today + Horizon
        BY <2>2 DEF ListedDays
      <3>2. c \in ListedOn("NSE_FO", Today)
        BY <2>2, <3>1, DerivativeListed
      <3>3. c.under = u /\ c.kind = kind /\ c.expiry = d
        OBVIOUS
      <3> HIDE DEF c
      <3> QED BY <1>1, <3>2, <3>3 DEF Expiries, ListedNow
    <2> QED BY <2>1, <2>2
  <1>3. \A d \in ListedDays(u) : d >= Today
    BY MasterAssumption DEF ListedDays
  <1>4. Expiries(ListedNow(u, "OPTION")) = ListedDays(u)
    BY <1>2
  <1>5. Expiries(ListedNow(u, "FUTURES")) = {d \in ListedDays(u) : IsMonthlyExpiry(d)}
    BY <1>2
  <1> QED BY <1>3, <1>4, <1>5 DEF Unexpired

\* A day before all others is the first.
LEMMA EarliestFirst ==
  ASSUME NEW X \in SUBSET Nat, NEW y \in Nat, \A d \in X : y < d
  PROVE  MinOrNone(X \cup {y}) = y
  <1>1. PICK Y : Y = X \cup {y}
    OBVIOUS
  <1>2. Y \in SUBSET Nat /\ Y # {} /\ y \in Y
    BY <1>1
  <1>3. PICK x : x = Min(Y)
    OBVIOUS
  <1>4. x \in Y /\ \A n \in Y : x <= n
    BY <1>2, <1>3, LeastNumber
  <1>5. x <= y /\ x \in Nat
    BY <1>2, <1>4
  <1>6. x = y
    BY <1>1, <1>4, <1>5
  <1> QED BY <1>1, <1>2, <1>3, <1>6 DEF MinOrNone

\* One that is still listed is picked, or makes no difference.
LEMMA EarlierDefault ==
  ASSUME NEW u, NEW A \in SUBSET Nat, A # {}, NEW y \in Nat, \A d \in A : y < d
  PROVE  ResolveDefaultExpiry(u, A \cup {y}) \in {y, ResolveDefaultExpiry(u, A)}
  <1>1. PICK w : w = IF u \in Indices THEN "weekly" ELSE "monthly"
    OBVIOUS
  <1>2. PICK X : X = {e \in A : ClassifyExpiry(u, e) = w}
    OBVIOUS
  <1>3. PICK B : B = A \cup {y}
    OBVIOUS
  <1>4. PICK Y : Y = {e \in B : ClassifyExpiry(u, e) = w}
    OBVIOUS
  <1>5. /\ ResolveDefaultExpiry(u, A) = MinOrNone(IF X # {} THEN X ELSE A)
        /\ ResolveDefaultExpiry(u, B) = MinOrNone(IF Y # {} THEN Y ELSE B)
    BY <1>1, <1>2, <1>4 DEF ResolveDefaultExpiry
  <1>6. Y = X \/ Y = X \cup {y}
    BY <1>2, <1>3, <1>4
  <1>7. X \in SUBSET Nat /\ \A d \in X : y < d
    BY <1>2
  <1>8. MinOrNone(B) = y /\ MinOrNone(X \cup {y}) = y
    BY <1>3, <1>7, EarliestFirst
  <1> QED BY <1>3, <1>5, <1>6, <1>8

\* What list_expiries has beyond the days unexpired today.
LEMMA StillInList ==
  ASSUME MirrorInv, NEW u \in Underlyings, Today \in Nat
  PROVE  \/ ListExpiries(u) = MirrorDays(u, "OPTION")
         \/ /\ ListExpiries(u) = MirrorDays(u, "OPTION") \cup {UtcToday}
            /\ UtcToday < Today /\ UtcToday \in ExpiryDays[u] /\ UtcToday \in Nat
  <1>1. PICK E : E = Expiries(Search(u, {"OPTION"}))
    OBVIOUS
  <1>2. \A d \in E : d \in ExpiryDays[u] /\ d \in Nat
    <2>1. ASSUME NEW d \in E PROVE d \in ExpiryDays[u]
      <3>1. PICK t \in DOMAIN mirror : t.under = u /\ t.kind = "OPTION" /\ mirror[t].expiry = d
        BY <1>1, <2>1 DEF Expiries, Search
      <3>2. Told(mirror[t]) /\ TickerOf(mirror[t]) = t
        BY <3>1 DEF MirrorInv, MirrorTells
      <3>3. mirror[t].under = u /\ mirror[t].kind = "OPTION"
        BY <3>1, <3>2, TickerFields
      <3>4. Traded(mirror[t])
        BY <3>2, <3>3 DEF Told, IsSpot, SpotKind
      <3> QED BY <3>1, <3>3, <3>4 DEF Traded
    <2> QED BY <2>1, MasterAssumption
  <1>3. UtcToday = Today \/ UtcToday = Today - 1
    BY DEF UtcToday
  <1>4. PICK today : today = Today
    OBVIOUS
  <1>5. PICK utc : utc = UtcToday
    OBVIOUS
  <1>6. /\ ListExpiries(u) = {d \in E : d >= utc}
        /\ MirrorDays(u, "OPTION") = {d \in E : d >= today}
    BY <1>1, <1>4, <1>5 DEF ListExpiries, MirrorDays, Unexpired
  <1>7. today \in Nat /\ (utc = today \/ utc = today - 1)
    BY <1>3, <1>4, <1>5
  <1>8. CASE utc = today \/ utc \notin E
    BY <1>2, <1>6, <1>7, <1>8
  <1>9. CASE utc = today - 1 /\ utc \in E
    <2>1. {d \in E : d >= utc} = {d \in E : d >= today} \cup {utc}
      <3>1. ASSUME NEW d \in E PROVE d >= utc <=> d >= today \/ d = utc
        <4>1. d \in Nat
          BY <1>2
        <4> QED BY <1>7, <1>9, <4>1
      <3>2. utc >= utc /\ utc \in E
        BY <1>7, <1>9
      <3> QED BY <3>1, <3>2
    <2>2. utc < today /\ utc \in ExpiryDays[u] /\ utc \in Nat
      BY <1>2, <1>7, <1>9
    <2> QED BY <1>4, <1>5, <1>6, <2>1, <2>2
  <1> QED BY <1>7, <1>8, <1>9

\* Every pick is the one from what is listed, or a default that still is.
LEMMA PicksAgree ==
  ASSUME MirrorInv, ~NeedsRefresh, "NSE_FO" \notin missed, NEW u \in Underlyings
  PROVE  /\ \/ ResolveDefaultExpiry(u, ListExpiries(u)) = ResolveDefaultExpiry(u, Expiries(ListedNow(u, "OPTION")))
            \/ StillListed(u, ResolveDefaultExpiry(u, ListExpiries(u)))
         /\ ResolveSymbol(Expiries(Search(u, {"OPTION"}))) = ResolveSymbol(Expiries(ListedNow(u, "OPTION")))
         /\ ResolveFuture(Search(u, {"FUTURES"})) = ResolveFuture(ListedNow(u, "FUTURES"))
  <1>0. Today \in Nat
    BY FreshMirror
  <1>1. PICK A : A = MirrorDays(u, "OPTION")
    OBVIOUS
  <1>2. PICK F : F = MirrorDays(u, "FUTURES")
    OBVIOUS
  <1>3. PICK B : B = ListedDays(u)
    OBVIOUS
  <1>4. PICK S : S = EarlyDays(u)
    OBVIOUS
  <1>5. B \in SUBSET Nat /\ S # {} /\ S \subseteq B /\ A \in SUBSET B /\ S \subseteq A
    BY <1>1, <1>3, <1>4, DaysLead, DaysMirrored
  <1>6. /\ F \subseteq B /\ \A d \in F : IsMonthlyExpiry(d)
        /\ \A d \in S : IsMonthlyExpiry(d) => d \in F
    BY <1>2, <1>3, <1>4, DaysMirrored
  <1>7. ASSUME NEW e \in B
        PROVE  \E d \in S : /\ d <= e /\ (IsMonthlyExpiry(d) <=> IsMonthlyExpiry(e))
                             /\ ClassifyExpiry(u, d) = ClassifyExpiry(u, e)
    BY <1>3, <1>4, DaysLead
  <1>8. /\ Expiries(ListedNow(u, "OPTION")) = B /\ Unexpired(B, Today) = B
        /\ Unexpired(Expiries(ListedNow(u, "FUTURES")), Today) = {d \in B : IsMonthlyExpiry(d)}
    BY <1>0, <1>3, ListedExpiries
  <1>9. A # {} /\ B # {}
    BY <1>5
  <1>10. LeadBy(A, B)
    BY <1>5, <1>7 DEF LeadBy
  <1>11. \/ ResolveDefaultExpiry(u, ListExpiries(u)) = ResolveDefaultExpiry(u, Expiries(ListedNow(u, "OPTION")))
         \/ StillListed(u, ResolveDefaultExpiry(u, ListExpiries(u)))
    <2>1. ResolveDefaultExpiry(u, ListExpiries(u)) = ResolveDefaultExpiry(u, A)
            \/ StillListed(u, ResolveDefaultExpiry(u, ListExpiries(u)))
      <3>1. CASE ListExpiries(u) = A
        BY <3>1
      <3>2. CASE ListExpiries(u) # A
        <4>1. PICK y : y = UtcToday
          OBVIOUS
        <4>2. /\ ListExpiries(u) = A \cup {y} /\ y < Today /\ y \in ExpiryDays[u] /\ y \in Nat
          BY <1>0, <1>1, <3>2, <4>1, StillInList
        <4>3. \A d \in A : y < d
          <5>1. \A d \in A : d >= Today /\ d \in Nat
            BY <1>1, <1>5 DEF MirrorDays, Unexpired
          <5> QED BY <1>0, <4>2, <5>1
        <4>4. ResolveDefaultExpiry(u, A \cup {y}) \in {y, ResolveDefaultExpiry(u, A)}
          BY <1>5, <1>9, <4>2, <4>3, EarlierDefault
        <4> QED BY <4>1, <4>2, <4>4 DEF StillListed
      <3> QED BY <3>1, <3>2
    <2>2. PICK w : w = IF u \in Indices THEN "weekly" ELSE "monthly"
      OBVIOUS
    <2>3. PICK X : X = {e \in A : ClassifyExpiry(u, e) = w}
      OBVIOUS
    <2>4. PICK Y : Y = {e \in B : ClassifyExpiry(u, e) = w}
      OBVIOUS
    <2>5. Y \in SUBSET Nat /\ X \in SUBSET Y /\ LeadBy(X, Y)
      BY <1>5, <1>7, <2>3, <2>4 DEF LeadBy
    <2>6. (X = {} <=> Y = {}) /\ MinOrNone(X) = MinOrNone(Y)
      BY <2>5, SameFirst
    <2>7. MinOrNone(A) = MinOrNone(B)
      BY <1>5, <1>10, SameFirst
    <2>8. /\ ResolveDefaultExpiry(u, A) = MinOrNone(IF X # {} THEN X ELSE A)
          /\ ResolveDefaultExpiry(u, B) = MinOrNone(IF Y # {} THEN Y ELSE B)
      BY <2>2, <2>3, <2>4 DEF ResolveDefaultExpiry
    <2> QED BY <1>8, <2>1, <2>6, <2>7, <2>8
  <1>12. ResolveSymbol(Expiries(Search(u, {"OPTION"}))) = ResolveSymbol(Expiries(ListedNow(u, "OPTION")))
    <2>1. Unexpired(Expiries(Search(u, {"OPTION"})), Today) = A
      BY <1>1 DEF MirrorDays
    <2>2. PICK X : X = {e \in A : ~IsMonthlyExpiry(e)}
      OBVIOUS
    <2>3. PICK Y : Y = {e \in B : ~IsMonthlyExpiry(e)}
      OBVIOUS
    <2>4. Y \in SUBSET Nat /\ X \in SUBSET Y /\ LeadBy(X, Y)
      BY <1>5, <1>7, <2>2, <2>3 DEF LeadBy
    <2>5. (X = {} <=> Y = {}) /\ MinOrNone(X) = MinOrNone(Y)
      BY <2>4, SameFirst
    <2>6. MinOrNone(A) = MinOrNone(B)
      BY <1>5, <1>10, SameFirst
    <2>7. /\ ResolveSymbol(Expiries(Search(u, {"OPTION"}))) = MinOrNone(IF X # {} THEN X ELSE A)
          /\ ResolveSymbol(B) = MinOrNone(IF Y # {} THEN Y ELSE B)
      BY <1>8, <1>9, <2>1, <2>2, <2>3 DEF ResolveSymbol
    <2> QED BY <1>8, <2>5, <2>6, <2>7
  <1>13. ResolveFuture(Search(u, {"FUTURES"})) = ResolveFuture(ListedNow(u, "FUTURES"))
    <2>1. PICK Y : Y = {d \in B : IsMonthlyExpiry(d)}
      OBVIOUS
    <2>2. Y \in SUBSET Nat /\ F \in SUBSET Y /\ LeadBy(F, Y)
      BY <1>5, <1>6, <1>7, <2>1 DEF LeadBy
    <2>3. MinOrNone(F) = MinOrNone(Y)
      BY <2>2, SameFirst
    <2>4. ResolveFuture(Search(u, {"FUTURES"})) = MinOrNone(F) /\ ResolveFuture(ListedNow(u, "FUTURES")) = MinOrNone(Y)
      BY <1>2, <1>8, <2>1 DEF ResolveFuture, MirrorDays
    <2> QED BY <2>3, <2>4
  <1> QED BY <1>11, <1>12, <1>13

\* instrument_master.py:243 and symbols.py:25: while the mirror is fresh its
\* rows are those of the last download, every underlying has a lot size, and
\* the expiries that the terminal picks are those it would pick from what the
\* exchange lists today, but for a default that the date in UTC still lists; and
\* every ticker is encoded again as it was parsed.
THEOREM MirrorAnswers == MasterSpec => []FreshMirrorAnswers
  <1>1. MirrorInv => FreshMirrorAnswers
    <2> SUFFICES ASSUME MirrorInv PROVE FreshMirrorAnswers
      OBVIOUS
    <2>1. ASSUME NEW t \in DOMAIN mirror PROVE RoundTrip(t)
      <3>1. Told(mirror[t]) /\ TickerOf(mirror[t]) = t
        BY DEF MirrorInv, MirrorTells
      <3>2. RoundTrip(TickerOf(mirror[t]))
        BY <3>1, TickerReturns
      <3> QED BY <3>1, <3>2
    <2>2. \A t \in DOMAIN published : mirror[t] = published[t]
      BY DEF MirrorInv, PublishedKept
    <2>3. ~NeedsRefresh => missed # Masters /\ \A u \in Underlyings : LotSizeOf(u) # {}
      BY FreshMirror, LotsKnown
    <2>4. ASSUME ~NeedsRefresh, "NSE_FO" \notin missed, NEW u \in Underlyings
          PROVE  LET listed(kind) == {c \in Listed["NSE_FO"] : c.under = u /\ c.kind = kind}
                     options == Expiries(listed("OPTION"))
                     picked == ResolveDefaultExpiry(u, ListExpiries(u))
                 IN /\ picked = ResolveDefaultExpiry(u, options) \/ StillListed(u, picked)
                    /\ ResolveSymbol(Expiries(Search(u, {"OPTION"}))) = ResolveSymbol(options)
                    /\ ResolveFuture(Search(u, {"FUTURES"})) = ResolveFuture(listed("FUTURES"))
      BY <2>4, PicksAgree DEF ListedNow
    <2> QED BY <2>1, <2>2, <2>3, <2>4 DEF FreshMirrorAnswers
  <1> QED BY <1>1, MirrorInitial, MirrorStep, PTL DEF MasterSpec

\* The types of the data socket.

FeedFlags ==
  /\ feedRunning \in BOOLEAN /\ stop \in BOOLEAN /\ disconnected \in BOOLEAN
  /\ reconnecting \in BOOLEAN /\ feedFatal \in BOOLEAN /\ alone \in BOOLEAN
FeedFields ==
  /\ link \in Supervisors \cup {"none", "stale"} /\ future \in Supervisors \cup {"none"}
  /\ awaited \in SUBSET Supervisors /\ late \in SUBSET FeedSymbols

\* Supervisors that do not count any more.  Each of the others may count once beyond the
\* limit, since another one may have cleared the fatal error meanwhile.
Ended == {t \in Supervisors : at[t] \in {"off", "leaving", "released"}}
RestartsCounted == restarts \in Nat /\ restarts <= MaxRestarts + Cardinality(Ended)

LEMMA FeedFlagsStep == FeedFlags /\ [FeedNext]_feedVars => FeedFlags'
  <1> SUFFICES ASSUME FeedFlags, [FeedNext]_feedVars PROVE FeedFlags'
    OBVIOUS
  <1> USE DEF FeedFlags, supervisorVars, fieldVars, registryVars
  <1>1. CASE FeedOperator
    BY <1>1 DEF FeedOperator, FeedConnects, FeedReconnects, DisconnectReturns, Starts, FeedDisconnects,
                FeedSubscribes, FeedUnsubscribes
  <1>2. CASE FeedSdk
    BY <1>2 DEF FeedSdk, SdkConnected, SdkClosed, SdkTokenExpired
  <1>3. ASSUME NEW t \in Supervisors, Supervise(t) PROVE FeedFlags'
    BY <1>3 DEF Supervise, Stopped, Build, Adopt, SeesDisconnect, Decide, Wake, Release, Vanish,
                SdkConnectFails, SdkConnectEnds
  <1>4. CASE UNCHANGED feedVars
    BY <1>4 DEF feedVars
  <1> QED BY <1>1, <1>2, <1>3, <1>4 DEF FeedNext

LEMMA FeedFieldsStep ==
  ASSUME FeedFields, SocketsOK, registry \subseteq FeedSymbols, [FeedNext]_feedVars
  PROVE  FeedFields'
  <1> USE DEF FeedFields, SocketsOK, supervisorVars, fieldVars, registryVars
  <1>1. CASE FeedOperator
    <2>1. ASSUME NEW t \in Supervisors, FeedConnects(t) \/ FeedReconnects(t) \/ DisconnectReturns(t)
          PROVE  FeedFields'
      BY <2>1 DEF FeedConnects, FeedReconnects, DisconnectReturns, Starts
    <2>2. CASE FeedDisconnects
      BY <2>2 DEF FeedDisconnects
    <2>3. ASSUME NEW s \in FeedSymbols, NEW ok \in BOOLEAN, FeedSubscribes(s, ok) \/ FeedUnsubscribes(s, ok)
          PROVE  FeedFields'
      BY <2>3 DEF FeedSubscribes, FeedUnsubscribes
    <2> QED BY <1>1, <2>1, <2>2, <2>3 DEF FeedOperator
  <1>2. CASE FeedSdk
    BY <1>2 DEF FeedSdk, SdkConnected, SdkClosed, SdkTokenExpired
  <1>3. ASSUME NEW t \in Supervisors, Supervise(t) PROVE FeedFields'
    <2>1. CASE Build(t) \/ Adopt(t)
      BY <2>1 DEF Build, Adopt
    <2>2. CASE SdkConnectFails(t) \/ \E taken \in BOOLEAN : SdkConnectEnds(t, taken)
      BY <2>2 DEF SdkConnectFails, SdkConnectEnds
    <2>3. CASE (\E from \in {"starting", "waiting", "deciding", "sleeping"} : Stopped(t, from))
               \/ SeesDisconnect(t) \/ Decide(t) \/ Wake(t) \/ Release(t) \/ Vanish(t)
      BY <2>3 DEF Stopped, SeesDisconnect, Decide, Wake, Release, Vanish
    <2> QED BY <1>3, <2>1, <2>2, <2>3 DEF Supervise
  <1>4. CASE UNCHANGED feedVars
    BY <1>4 DEF feedVars
  <1> QED BY <1>1, <1>2, <1>3, <1>4 DEF FeedNext

EndPlaces == {"off", "leaving", "released"}

LEMMA EndedCounts == Cardinality(Ended) \in Nat /\ Cardinality(Ended') \in Nat
  <1>1. Ended \subseteq Supervisors /\ Ended' \subseteq Supervisors
    BY DEF Ended
  <1> QED BY <1>1, FeedAssumption, FS_Subset, FS_CardinalityType

LEMMA EndedGrows ==
  ASSUME SocketsOK, NEW t \in Supervisors, NEW from, NEW to, Goes(t, from, to),
         (from \notin EndPlaces \/ to \in EndPlaces)
  PROVE  /\ Cardinality(Ended) <= Cardinality(Ended')
         /\ from \notin EndPlaces /\ to \in EndPlaces
              => Cardinality(Ended') = Cardinality(Ended) + 1
  <1>1. Ended \subseteq Ended' /\ IsFiniteSet(Ended) /\ IsFiniteSet(Ended')
    <2>1. Ended \subseteq Supervisors /\ Ended' \subseteq Supervisors
      BY DEF Ended
    <2>2. Ended \subseteq Ended'
      BY DEF Goes, SocketsOK, Ended, EndPlaces
    <2> QED BY <2>1, <2>2, FeedAssumption, FS_Subset
  <1>2. ASSUME from \notin EndPlaces, to \in EndPlaces PROVE Ended' = Ended \cup {t} /\ t \notin Ended
    BY <1>2 DEF Goes, SocketsOK, Ended, EndPlaces
  <1> QED BY <1>1, <1>2, FS_Subset, FS_AddElement

\* Neither the count nor a place changes, or the count begins anew.
LEMMA CountKept ==
  ASSUME RestartsCounted, (at' = at /\ restarts' = restarts) \/ restarts' = 0
  PROVE  RestartsCounted'
  <1>1. Ended' = Ended \/ restarts' = 0
    BY DEF Ended
  <1> QED BY <1>1, EndedCounts, FeedAssumption DEF RestartsCounted

\* A supervisor that does not start or has ended moves, and does not count.
LEMMA CountAfterMove ==
  ASSUME RestartsCounted, SocketsOK, NEW t \in Supervisors, NEW from, NEW to, Goes(t, from, to),
         (from \notin EndPlaces \/ to \in EndPlaces), restarts' = restarts
  PROVE  RestartsCounted'
  BY EndedGrows, EndedCounts, FeedAssumption DEF RestartsCounted

LEMMA RestartsStep ==
  ASSUME RestartsCounted, SocketsOK, [FeedNext]_feedVars
  PROVE  RestartsCounted'
  <1>1. CASE FeedOperator
    BY <1>1, CountKept DEF FeedOperator, FeedConnects, FeedReconnects, DisconnectReturns, Starts,
                           FeedDisconnects, FeedSubscribes, FeedUnsubscribes, supervisorVars, fieldVars
  <1>2. CASE FeedSdk
    BY <1>2, CountKept DEF FeedSdk, SdkConnected, SdkClosed, SdkTokenExpired, supervisorVars
  <1>3. ASSUME NEW t \in Supervisors, Supervise(t) PROVE RestartsCounted'
    <2>1. ASSUME NEW from \in {"starting", "waiting", "deciding", "sleeping"}, Stopped(t, from)
          PROVE  RestartsCounted'
      BY <2>1, CountAfterMove DEF Stopped, EndPlaces, fieldVars
    <2>2. CASE Build(t) \/ Adopt(t) \/ SeesDisconnect(t) \/ Wake(t)
      BY <2>2, CountAfterMove DEF Build, Adopt, SeesDisconnect, Wake, EndPlaces, fieldVars
    <2>3. CASE Release(t) \/ Vanish(t)
      BY <2>3, CountAfterMove DEF Release, Vanish, EndPlaces
    <2>4. CASE SdkConnectFails(t) \/ \E taken \in BOOLEAN : SdkConnectEnds(t, taken)
      BY <2>4, CountAfterMove DEF SdkConnectFails, SdkConnectEnds, EndPlaces, fieldVars
    <2>5. CASE Decide(t)
      <3>1. CASE feedFatal /\ Goes(t, "deciding", "leaving") /\ restarts' = restarts
        BY <3>1, CountAfterMove DEF EndPlaces
      <3>2. CASE Goes(t, "deciding", "leaving") /\ restarts' = restarts + 1
        <4>1. Cardinality(Ended') = Cardinality(Ended) + 1
          BY <3>2, EndedGrows DEF EndPlaces
        <4> QED BY <3>2, <4>1, EndedCounts, FeedAssumption DEF RestartsCounted
      <3>3. CASE restarts < MaxRestarts /\ restarts' = restarts + 1
        BY <3>3, EndedCounts, FeedAssumption DEF RestartsCounted
      <3> QED BY <2>5, <3>1, <3>2, <3>3 DEF Decide
    <2> QED BY <1>3, <2>1, <2>2, <2>3, <2>4, <2>5 DEF Supervise
  <1>4. CASE UNCHANGED feedVars
    BY <1>4, CountKept DEF feedVars, supervisorVars, fieldVars
  <1> QED BY <1>1, <1>2, <1>3, <1>4 DEF FeedNext

FeedTypes == FeedFlags /\ FeedFields /\ RestartsCounted /\ SocketsOK /\ registry \subseteq FeedSymbols

\* The fields that data_socket.py's threads share without a lock have their types.  The counter
\* of restarts can pass its limit, for two supervisors may test it before either counts, but only
\* by one for each: whoever has counted past the limit is on its way out (RestartsCounted).
THEOREM FeedRestartsBounded == FeedSpec => []FeedTypeOK
  <1>1. FeedInit => FeedTypes
    <2>1. FeedInit => FeedFlags
      BY DEF FeedInit, FeedFlags
    <2>2. FeedInit => FeedFields /\ registry \subseteq FeedSymbols
      BY DEF FeedInit, FeedFields
    <2>3. FeedInit => RestartsCounted
      BY EndedCounts, FeedAssumption DEF FeedInit, RestartsCounted
    <2>4. FeedInit => SocketsOK
      BY DEF FeedInit, SocketsOK, Places
    <2> QED BY <2>1, <2>2, <2>3, <2>4 DEF FeedTypes
  <1>2. FeedTypes /\ [FeedNext]_feedVars => FeedTypes'
    BY FeedFlagsStep, FeedFieldsStep, RestartsStep, SocketsStep DEF FeedTypes
  <1>3. FeedTypes => FeedTypeOK
    <2> SUFFICES ASSUME FeedTypes PROVE FeedTypeOK
      OBVIOUS
    <2>1. {feedRunning, stop, disconnected, reconnecting, feedFatal} \subseteq BOOLEAN /\ alone \in BOOLEAN
      BY DEF FeedTypes, FeedFlags
    <2>2. restarts \in 0 .. MaxRestarts + Cardinality(Supervisors)
      <3>1. Ended \subseteq Supervisors
        BY DEF Ended
      <3>2. Cardinality(Ended) <= Cardinality(Supervisors) /\ Cardinality(Supervisors) \in Nat
        BY <3>1, FeedAssumption, FS_Subset, FS_CardinalityType
      <3> QED BY <3>2, EndedCounts, FeedAssumption DEF FeedTypes, RestartsCounted
    <2> QED BY <2>1, <2>2 DEF FeedTypes, FeedFields, SocketsOK, FeedTypeOK
  <1> QED BY <1>1, <1>2, <1>3, PTL DEF FeedSpec

\* The types of the initialisation.

InitFlags ==
  serving \in BOOLEAN /\ initialized \in BOOLEAN /\ overlapped \in BOOLEAN /\ faulted \in BOOLEAN

\* Tokens are numbered as they are obtained, and each adapter has one of them.
TokensNumbered == tokens \in 0 .. MaxTokens /\ token \in 0 .. tokens /\ expired \subseteq 1 .. tokens

\* Calls handle, and ticks and bars come from, adapters that were built.
AdaptersBuilt ==
  /\ phase \in [Calls -> Phases] /\ handled \in [Calls -> 0 .. Len(tokenOf)]
  /\ tokenOf \in Seq(1 .. MaxTokens) /\ Len(tokenOf) <= MaxAdapters
  /\ adapter \in 0 .. Len(tokenOf)
  /\ feeds \subseteq 1 .. Len(tokenOf) /\ builders \subseteq 1 .. Len(tokenOf)
  /\ \A c \in Calls : phase[c] = "connecting" => handled[c] # 0

LEMMA InitFlagsStep == InitFlags /\ [AdaptersNext]_initVars => InitFlags'
  <1> SUFFICES ASSUME InitFlags, [AdaptersNext]_initVars PROVE InitFlags'
    OBVIOUS
  <1> USE DEF InitFlags, storeVars, madeVars, Begin, Construct
  <1>1. ASSUME NEW c \in Logins, NEW outcome \in Outcomes, Startup(c, outcome) \/ LoginReturns(c, outcome)
        PROVE  InitFlags'
    BY <1>1 DEF Startup, LoginReturns
  <1>2. ASSUME NEW c \in Saves, NEW outcome \in Outcomes, SaveBootstraps(c, outcome) PROVE InitFlags'
    BY <1>2 DEF SaveBootstraps
  <1>3. ASSUME NEW c \in Calls, NEW outcome \in Outcomes, StopEnds(c, outcome) PROVE InitFlags'
    BY <1>3 DEF StopEnds
  <1>4. ASSUME NEW c \in Calls, PrimeEnds(c) \/ \E sdk \in BOOLEAN : ConnectEnds(c, sdk) PROVE InitFlags'
    BY <1>4 DEF PrimeEnds, ConnectEnds
  <1>5. CASE Serve \/ Logout \/ (\E t \in 1 .. MaxTokens : TokenExpires(t)) \/ UNCHANGED initVars
    BY <1>5 DEF Serve, Logout, TokenExpires, initVars
  <1> QED BY <1>1, <1>2, <1>3, <1>4, <1>5 DEF AdaptersNext

LEMMA TokensStep == TokensNumbered /\ [AdaptersNext]_initVars => TokensNumbered'
  <1> SUFFICES ASSUME TokensNumbered, [AdaptersNext]_initVars PROVE TokensNumbered'
    OBVIOUS
  <1> USE InitAssumption DEF TokensNumbered, storeVars
  <1>1. ASSUME NEW c \in Logins, NEW outcome \in Outcomes, LoginReturns(c, outcome) PROVE TokensNumbered'
    BY <1>1 DEF LoginReturns
  <1>2. ASSUME UNCHANGED storeVars PROVE TokensNumbered'
    BY <1>2
  <1>3. CASE Logout
    BY <1>3 DEF Logout
  <1>4. ASSUME NEW t \in 1 .. MaxTokens, TokenExpires(t) PROVE TokensNumbered'
    BY <1>4 DEF TokenExpires
  <1> QED BY <1>1, <1>2, <1>3, <1>4
          DEF AdaptersNext, Startup, SaveBootstraps, StopEnds, ConnectEnds, PrimeEnds, Serve, initVars

LEMMA ResumesTypes ==
  ASSUME phase \in [Calls -> Phases], NEW S, handled \in [Calls -> S],
         \A d \in Calls : phase[d] = "connecting" => handled[d] # 0,
         NEW c \in Calls, NEW what \in Phases, NEW a \in S, Resumes(c, what, a),
         what = "connecting" => a # 0
  PROVE  /\ phase' \in [Calls -> Phases] /\ handled' \in [Calls -> S]
         /\ \A d \in Calls : phase'[d] = "connecting" => handled'[d] # 0
  BY DEF Resumes

LEMMA ConstructTypes ==
  ASSUME AdaptersBuilt, NEW c \in Calls, NEW outcome \in Outcomes, Construct(c, outcome),
         token' \in 0 .. MaxTokens, feeds' \subseteq feeds
  PROVE  AdaptersBuilt'
  <1> DEFINE new == Len(tokenOf) + 1
  <1>1. Len(tokenOf) \in Nat /\ MaxTokens \in Nat
    BY InitAssumption, LenProperties DEF AdaptersBuilt
  <1>2. CASE token' = 0
    <2>1. Resumes(c, "idle", 0) /\ adapter' = 0 /\ UNCHANGED <<tokenOf, builders>>
      BY <1>2 DEF Construct
    <2>2. AdaptersBuilt /\ 0 \in 0 .. Len(tokenOf) /\ "idle" \in Phases
      BY <1>1 DEF Phases
    <2>3. feeds' \subseteq 1 .. Len(tokenOf)
      BY DEF AdaptersBuilt
    <2>4. phase' \in [Calls -> Phases] /\ handled' \in [Calls -> 0 .. Len(tokenOf)]
          /\ \A d \in Calls : phase'[d] = "connecting" => handled'[d] # 0
      BY <2>1, <2>2, ResumesTypes DEF AdaptersBuilt
    <2> QED BY <2>1, <2>2, <2>3, <2>4 DEF AdaptersBuilt
  <1>3. CASE token' # 0
    <2>1. token' \in 1 .. MaxTokens
      BY <1>1, <1>3
    <2>2. /\ new <= MaxAdapters /\ adapter' = new /\ tokenOf' = Append(tokenOf, token')
          /\ builders' \subseteq builders \cup {new}
          /\ \E what \in Phases, a \in {0, new} : Resumes(c, what, a) /\ (what = "connecting" => a # 0)
      <3>1. \/ Resumes(c, "connecting", new) /\ new # 0
            \/ Resumes(c, "priming", 0)
            \/ Resumes(c, "idle", 0)
        <4>1. new # 0
          BY <1>1
        <4> HIDE DEF new
        <4>2. CASE outcome = "wired"
          BY <1>3, <4>1, <4>2 DEF Construct, new
        <4>3. CASE outcome = "emptyWatchlist"
          BY <1>3, <4>3 DEF Construct, new
        <4>4. CASE outcome = "badSymbol"
          BY <1>3, <4>4 DEF Construct, new
        <4> QED BY <4>2, <4>3, <4>4 DEF Outcomes
      <3>2. "connecting" \in Phases /\ "priming" \in Phases /\ "idle" \in Phases
        BY DEF Phases
      <3>3. \E what \in Phases, a \in {0, new} : Resumes(c, what, a) /\ (what = "connecting" => a # 0)
        BY <3>1, <3>2
      <3> QED BY <1>3, <3>3 DEF Construct, Outcomes
    <2>3. tokenOf' \in Seq(1 .. MaxTokens) /\ Len(tokenOf') = new
      BY <2>1, <2>2, AppendProperties DEF AdaptersBuilt
    <2>4. feeds' \subseteq 1 .. new /\ builders' \subseteq 1 .. new /\ adapter' \in 0 .. new
      <3>1. 1 .. Len(tokenOf) \subseteq 1 .. new /\ new \in 1 .. new /\ new \in 0 .. new
        BY <1>1
      <3> HIDE DEF new
      <3> QED BY <2>2, <3>1 DEF AdaptersBuilt
    <2>5. /\ phase' \in [Calls -> Phases] /\ handled' \in [Calls -> 0 .. new]
          /\ \A d \in Calls : phase'[d] = "connecting" => handled'[d] # 0
      <3>1. new \in 0 .. new /\ 0 \in 0 .. new /\ 0 .. Len(tokenOf) \subseteq 0 .. new
        BY <1>1
      <3>2. handled \in [Calls -> 0 .. new]
        BY <3>1 DEF AdaptersBuilt
      <3>3. PICK what \in Phases, a \in {0, new} : Resumes(c, what, a) /\ (what = "connecting" => a # 0)
        BY <2>2
      <3> HIDE DEF new
      <3> QED BY <3>1, <3>2, <3>3, ResumesTypes DEF AdaptersBuilt
    <2> HIDE DEF new
    <2> QED BY <2>2, <2>3, <2>4, <2>5 DEF AdaptersBuilt
  <1> QED BY <1>2, <1>3

LEMMA BeginTypes ==
  ASSUME AdaptersBuilt, NEW c \in Calls, NEW outcome \in Outcomes, Begin(c, outcome),
         token' \in 0 .. MaxTokens
  PROVE  AdaptersBuilt'
  <1>1. CASE initialized
    BY <1>1 DEF Begin, AdaptersBuilt, madeVars
  <1>2. CASE ~initialized /\ adapter = 0
    BY <1>2, ConstructTypes DEF Begin
  <1>3. CASE ~initialized /\ adapter # 0
    BY <1>3 DEF Begin, Resumes, AdaptersBuilt, Phases, madeVars
  <1> QED BY <1>1, <1>2, <1>3

LEMMA AdaptersBuiltStep ==
  ASSUME TokensNumbered, TokensNumbered', AdaptersBuilt, [AdaptersNext]_initVars
  PROVE  AdaptersBuilt'
  <1>0. token' \in 0 .. MaxTokens
    BY InitAssumption DEF TokensNumbered
  <1>1. ASSUME NEW c \in Calls, NEW outcome \in Outcomes, Begin(c, outcome) PROVE AdaptersBuilt'
    BY <1>0, <1>1, BeginTypes
  <1>2. ASSUME NEW c \in Calls, NEW outcome \in Outcomes, StopEnds(c, outcome) PROVE AdaptersBuilt'
    BY <1>0, <1>2, ConstructTypes DEF StopEnds
  <1>3. ASSUME NEW c \in Calls, NEW sdk \in BOOLEAN, ConnectEnds(c, sdk) PROVE AdaptersBuilt'
    <2>1. phase[c] = "connecting" /\ Resumes(c, "priming", 0) /\ UNCHANGED madeVars
          /\ feeds' \subseteq feeds \cup {handled[c]}
      BY <1>3 DEF ConnectEnds
    <2>2. handled[c] \in 1 .. Len(tokenOf) /\ 0 \in 0 .. Len(tokenOf) /\ "priming" \in Phases
      BY <2>1, LenProperties DEF AdaptersBuilt, Phases
    <2>3. phase' \in [Calls -> Phases] /\ handled' \in [Calls -> 0 .. Len(tokenOf)]
          /\ \A d \in Calls : phase'[d] = "connecting" => handled'[d] # 0
      BY <2>1, <2>2, ResumesTypes DEF AdaptersBuilt
    <2>4. feeds' \subseteq 1 .. Len(tokenOf)
      BY <2>1, <2>2 DEF AdaptersBuilt
    <2> QED BY <2>1, <2>3, <2>4 DEF AdaptersBuilt, madeVars
  <1>4. ASSUME NEW c \in Calls, PrimeEnds(c) PROVE AdaptersBuilt'
    BY <1>4 DEF PrimeEnds, Resumes, AdaptersBuilt, Phases, madeVars
  <1>5. CASE Serve \/ Logout
    BY <1>5 DEF Serve, Logout, AdaptersBuilt, madeVars
  <1>6. ASSUME NEW t \in 1 .. MaxTokens, TokenExpires(t) PROVE AdaptersBuilt'
    BY <1>6 DEF TokenExpires, AdaptersBuilt, madeVars
  <1>7. CASE UNCHANGED initVars
    BY <1>7 DEF initVars, AdaptersBuilt, madeVars
  <1> QED BY <1>1, <1>2, <1>3, <1>4, <1>5, <1>6, <1>7
          DEF AdaptersNext, Startup, LoginReturns, SaveBootstraps, Calls

\* The adapters that terminal_init.py builds are numbered in the order they were built: what
\* is served, what feeds ticks and what aggregates them is always one of those that were built,
\* through failed, repeated and overlapping calls, and only issued tokens expire.
THEOREM AdaptersWellFormed == AdaptersSpec => []AdaptersTypeOK
  <1> DEFINE Inv == InitFlags /\ TokensNumbered /\ AdaptersBuilt
  <1>1. AdaptersInit => Inv
    <2>1. AdaptersInit => InitFlags
      BY DEF AdaptersInit, InitFlags
    <2>2. AdaptersInit => TokensNumbered
      BY InitAssumption DEF AdaptersInit, TokensNumbered
    <2>3. AdaptersInit => AdaptersBuilt
      BY EmptySeq, InitAssumption DEF AdaptersInit, AdaptersBuilt, Phases
    <2> QED BY <2>1, <2>2, <2>3
  <1>2. Inv /\ [AdaptersNext]_initVars => Inv'
    BY InitFlagsStep, TokensStep, AdaptersBuiltStep
  <1>3. Inv => AdaptersTypeOK
    <2> SUFFICES ASSUME Inv PROVE AdaptersTypeOK
      OBVIOUS
    <2>1. {serving, initialized, overlapped, faulted} \subseteq BOOLEAN
      BY DEF InitFlags
    <2>2. {token, tokens} \subseteq 0 .. MaxTokens /\ expired \subseteq 1 .. tokens
      BY InitAssumption DEF TokensNumbered
    <2>3. handled \in [Calls -> 0 .. MaxAdapters]
      <3>1. Len(tokenOf) \in Nat /\ Len(tokenOf) <= MaxAdapters /\ MaxAdapters \in Nat
        BY InitAssumption, LenProperties DEF AdaptersBuilt
      <3>2. 0 .. Len(tokenOf) \subseteq 0 .. MaxAdapters
        BY <3>1
      <3> QED BY <3>2 DEF AdaptersBuilt
    <2> QED BY <2>1, <2>2, <2>3 DEF AdaptersBuilt, AdaptersTypeOK
  <1> QED BY <1>1, <1>2, <1>3, PTL DEF AdaptersSpec

\* The types of the browser socket.

TabFlags == stopped \in BOOLEAN /\ retryTimer \in BOOLEAN
TabStates ==
  /\ socket \in {"none", "connecting", "open"} /\ attempt \in 0 .. 4
  /\ panels \in SUBSET PanelTopics /\ frames \in Seq(SUBSET PanelTopics)
  /\ declared \in SUBSET PanelTopics /\ pip \in PipStates

LEMMA TabFlagsStep == TabFlags /\ [TabNext]_tabVars => TabFlags'
  BY DEF TabFlags, TabNext, AppMounts, SocketOpens, SocketDrops, RetryFires, AppUnmounts, PanelStep,
         FrameArrives, ServerPushes, HealthPolled, ConnectTab, tabVars

LEMMA TabStatesStep == TabStates /\ [TabNext]_tabVars => TabStates'
  <1> SUFFICES ASSUME TabStates, [TabNext]_tabVars PROVE TabStates'
    OBVIOUS
  <1> USE DEF TabStates
  <1>1. <<>> \in Seq(SUBSET PanelTopics)
    OBVIOUS
  <1>2. CASE AppMounts \/ RetryFires
    BY <1>2 DEF AppMounts, RetryFires, ConnectTab
  <1>3. CASE SocketOpens
    BY <1>3 DEF SocketOpens, DeclaredOnOpen
  <1>4. CASE SocketDrops \/ AppUnmounts
    <2>1. socket' = "none" /\ frames' = <<>> /\ declared' = {} /\ panels' = panels
      BY <1>4 DEF SocketDrops, AppUnmounts
    <2>2. attempt' \in 0 .. 4 /\ pip' \in PipStates
      BY <1>4 DEF SocketDrops, AppUnmounts, NextAttempt, PipStates
    <2> QED BY <1>1, <2>1, <2>2
  <1>5. CASE PanelStep
    <2>1. PICK topics \in SUBSET PanelTopics : Declare(topics)
      BY <1>5 DEF PanelStep, PanelMounts, PanelUnmounts
    <2>2. frames' \in Seq(SUBSET PanelTopics)
      BY <2>1, AppendProperties DEF Declare
    <2> QED BY <1>5, <2>1, <2>2 DEF PanelStep, Declare
  <1>6. CASE FrameArrives
    <2>1. Head(frames) \in SUBSET PanelTopics /\ Tail(frames) \in Seq(SUBSET PanelTopics)
      BY <1>6, HeadTailProperties DEF FrameArrives
    <2> QED BY <1>6, <2>1 DEF FrameArrives
  <1>7. CASE ServerPushes \/ HealthPolled
    BY <1>7 DEF ServerPushes, HealthPolled, PipOf, ServerStates, PipStates
  <1>8. CASE UNCHANGED tabVars
    BY <1>8 DEF tabVars
  <1> QED BY <1>2, <1>3, <1>4, <1>5, <1>6, <1>7, <1>8 DEF TabNext

\* The tab's fields (lib/ws.ts) have their types: the delay between attempts stops doubling at
\* its cap however often sockets drop, and frames carry topics that panels can have.
THEOREM TabWellFormed == TabSpec => []TabTypeOK
  <1>1. TabInit => TabFlags /\ TabStates
    <2>1. TabInit => TabFlags
      BY DEF TabInit, TabFlags
    <2>2. TabInit => TabStates
      BY EmptySeq DEF TabInit, TabStates, PipStates
    <2> QED BY <2>1, <2>2
  <1>2. TabFlags /\ TabStates => TabTypeOK
    BY DEF TabFlags, TabStates, TabTypeOK
  <1> QED BY <1>1, <1>2, TabFlagsStep, TabStatesStep, PTL DEF TabSpec

\* The order socket.  A task that goes on has attempts left.
AttemptsLeft == doing \notin {"failing", "done"} => reconnects < MaxReconnects

OrderFlags ==
  /\ orderLink \in BOOLEAN /\ orderShown \in BOOLEAN /\ upEvent \in BOOLEAN /\ localClose \in BOOLEAN
  /\ cancelling \in BOOLEAN /\ closing \in BOOLEAN /\ channels \in BOOLEAN
OrderStates ==
  /\ doing \in Doings /\ reconnects \in 0 .. MaxReconnects
  /\ orderFatal \in {"none", "token", "exhausted"} /\ caller \in {"none", "waits", "up", "down"}
  /\ AttemptsLeft

LEMMA OrderFlagsStep == OrderFlags /\ [OrderSocketNext]_orderSocketVars => OrderFlags'
  BY DEF OrderFlags, OrderSocketNext, OrderTask, OrderDisconnectReturns, TaskCancelled, HandshakeEnds,
         HandshakeForbidden, HandshakeFails, Now, DecideReconnect, FailureReported, RestEnds,
         ConnectionEnds, ConnectReturns, DisconnectTimesOut, DisconnectEnds, OrderSubscribes,
         OrderConnects, OrderDisconnects, orderSocketVars

LEMMA OrderStatesStep == OrderStates /\ [OrderSocketNext]_orderSocketVars => OrderStates'
  <1> SUFFICES ASSUME OrderStates, [OrderSocketNext]_orderSocketVars PROVE OrderStates'
    OBVIOUS
  <1> USE OrderSocketAssumption DEF OrderStates, AttemptsLeft, Doings
  <1>1. CASE OrderTask
    BY <1>1 DEF OrderTask, TaskCancelled, HandshakeEnds, HandshakeForbidden, HandshakeFails, Now,
                DecideReconnect, FailureReported, RestEnds
  <1>2. CASE ConnectReturns \/ OrderDisconnectReturns
    BY <1>2 DEF ConnectReturns, OrderDisconnectReturns, DisconnectTimesOut, DisconnectEnds
  <1>3. CASE OrderConnects \/ OrderSubscribes \/ OrderDisconnects \/ ConnectionEnds
    BY <1>3 DEF OrderConnects, OrderSubscribes, OrderDisconnects, ConnectionEnds, Now
  <1>4. CASE UNCHANGED orderSocketVars
    BY <1>4 DEF orderSocketVars
  <1> QED BY <1>1, <1>2, <1>3, <1>4 DEF OrderSocketNext

\* The fields of ws_client.py's socket have their types; in particular it never counts more
\* attempts than it may make, however connects, disconnects and cancellations fall between them.
THEOREM OrderAttemptsBounded == OrderSocketSpec => []OrderSocketTypeOK
  <1>1. OrderSocketInit => OrderFlags /\ OrderStates
    <2>1. OrderSocketInit => OrderFlags
      BY DEF OrderSocketInit, OrderFlags
    <2>2. OrderSocketInit => OrderStates
      BY OrderSocketAssumption DEF OrderSocketInit, OrderStates, AttemptsLeft, Doings
    <2> QED BY <2>1, <2>2
  <1>2. OrderFlags /\ OrderStates => OrderSocketTypeOK
    BY DEF OrderFlags, OrderStates, OrderSocketTypeOK
  <1> QED BY <1>1, <1>2, OrderFlagsStep, OrderStatesStep, PTL DEF OrderSocketSpec

\* Token and session health.

LEMMA SessionTypes == SessionTypeOK /\ [SessionNext]_sessionVars => SessionTypeOK'
  <1> SUFFICES ASSUME SessionTypeOK, [SessionNext]_sessionVars PROVE SessionTypeOK'
    OBVIOUS
  <1> USE DEF SessionTypeOK, Tokens, surroundings, monitorVars, projectionVars
  <1>1. ASSUME NEW status \in CredentialStates \cup SocketStates
        PROVE  Append(news, status) \in Seq(CredentialStates \cup SocketStates)
    BY <1>1, AppendProperties
  <1>2. CASE CheckHealth
    <2>1. PICK status \in TokenStatuses : news' = Append(news, status)
      BY <1>2 DEF CheckHealth
    <2>2. status \in CredentialStates
      BY <2>1 DEF TokenStatuses, CredentialStates
    <2> QED BY <1>1, <1>2, <2>1, <2>2 DEF CheckHealth
  <1>3. CASE Probe
    BY <1>3 DEF Probe
  <1>4. CASE ProbeEnds \/ MonitorWakes
    BY <1>4 DEF ProbeEnds, MonitorWakes
  <1>5. CASE DispatchNews
    <2>1. Head(news) \in CredentialStates \cup SocketStates /\ news' \in Seq(CredentialStates \cup SocketStates)
      BY <1>5, HeadTailProperties DEF DispatchNews
    <2>2. CASE Head(news) \in CredentialStates
      BY <1>5, <2>1, <2>2 DEF DispatchNews, OnCredentialHealth, CredentialStates, ConnectionStates
    <2>3. CASE Head(news) \notin CredentialStates
      BY <1>5, <2>1, <2>3 DEF DispatchNews, OnSystemStatus, ConnectionStates
    <2> QED BY <2>2, <2>3
  <1>6. CASE PollLogin
    BY <1>6 DEF PollLogin, ComputedStates, ConnectionStates
  <1>7. ASSUME NEW status \in SocketStates, SocketReports(status) PROVE SessionTypeOK'
    BY <1>1, <1>7 DEF SocketReports
  <1>8. CASE Login \/ ForgetToken \/ TokenLapses
    BY <1>8 DEF Login, ForgetToken, TokenLapses
  <1>9. CASE LinkChanges \/ TimeOfDay
    BY <1>9 DEF LinkChanges, TimeOfDay
  <1>10. CASE UNCHANGED sessionVars
    BY <1>10 DEF sessionVars
  <1> QED BY <1>2, <1>3, <1>4, <1>5, <1>6, <1>7, <1>8, <1>9, <1>10 DEF SessionNext, Monitor

\* The monitor (health_monitor.py), logins and socket reports publish states of two kinds on one
\* bus.  Whatever their order, the credential shows one of the first kind and the connection
\* a state that the browser's badge knows.
THEOREM SessionWellFormed == SessionSpec => []SessionTypeOK
  <1>1. ASSUME SessionInit PROVE SessionTypeOK
    <2>1. {observed, feedUp, probedToday, morning} \subseteq BOOLEAN
      BY <1>1 DEF SessionInit
    <2>2. {onFile, session} \subseteq Tokens /\ monitor = "checking"
      BY <1>1 DEF SessionInit, Tokens
    <2>3. news \in Seq(CredentialStates \cup SocketStates) /\ credential = "UNKNOWN" /\ connection = "DISCONNECTED"
      BY <1>1, EmptySeq DEF SessionInit
    <2> QED BY <2>1, <2>2, <2>3 DEF SessionTypeOK, CredentialStates, ConnectionStates
  <1> QED BY <1>1, SessionTypes, PTL DEF SessionSpec

-----------------------------------------------------------------------------
\* The mirror's fields have their types: its rows are under their own tickers (instrument_master.py).
THEOREM MirrorWellFormed == MasterSpec => []MasterTypeOK
  <1>1. MirrorInv => MasterTypeOK
    BY DEF MirrorInv
  <1> QED BY <1>1, MirrorInitial, MirrorStep, PTL DEF MasterSpec

-----------------------------------------------------------------------------
\* The types of the watchlist.  Cached outcomes are what hydration may write.
WatchTypes ==
  /\ WatchTypeOK /\ \A s \in DOMAIN hydrated : hydrated[s] \in {"none", "rest"}
  /\ \A e \in editing : e.symbol \in Listable

\* The rows, and what hydration has of them.
RowsOK(rows) == DOMAIN rows \subseteq Listable /\ \A s \in DOMAIN rows : rows[s] \in {"none", "rest", "tick"}
CacheOK(cache) == DOMAIN cache \subseteq Listable /\ \A s \in DOMAIN cache : cache[s] \in {"none", "rest"}

LEMMA WatchTypesStep == WatchTypes /\ [WatchNext]_watchVars => WatchTypes'
  <1> SUFFICES ASSUME WatchTypes, [WatchNext]_watchVars PROVE WatchTypes'
    OBVIOUS
  <1>0. /\ RowsOK(watched) /\ CacheOK(hydrated)
        /\ saved \subseteq Listable /\ streamed \subseteq Listable /\ callbacks \in Nat /\ onBus \in Seq(Listable)
        /\ hydrating \in BOOLEAN /\ captured \subseteq DOMAIN watched /\ \A e \in editing : e.symbol \in Listable
    BY DEF WatchTypes, WatchTypeOK, RowsOK, CacheOK
  <1> DEFINE Goal == /\ RowsOK(watched') /\ CacheOK(hydrated')
                     /\ saved' \subseteq Listable /\ streamed' \subseteq Listable /\ callbacks' \in Nat
                     /\ onBus' \in Seq(Listable) /\ hydrating' \in BOOLEAN /\ captured' \subseteq DOMAIN watched'
                     /\ \A e \in editing' : e.symbol \in Listable
  <1> SUFFICES Goal
    BY DEF WatchTypes, WatchTypeOK, RowsOK, CacheOK
  <1> USE DEF SameFeed, SameHydration
  <1>1. CASE FeedStarts
    BY <1>0, <1>1 DEF FeedStarts, RowsOK
  <1>2. ASSUME NEW s \in Listable, AddBegins(s) PROVE Goal
    <2>1. RowsOK(watched') /\ DOMAIN watched \subseteq DOMAIN watched'
      BY <1>0, <1>2 DEF AddBegins, RowsOK, WithRow
    <2>2. callbacks' \in Nat /\ \A e \in editing' : e.symbol \in Listable
      BY <1>0, <1>2 DEF AddBegins
    <2> QED BY <1>0, <1>2, <2>1, <2>2 DEF AddBegins
  <1>3. ASSUME NEW s \in Listable, RemoveBegins(s) PROVE Goal
    <2>1. RowsOK(watched') /\ DOMAIN watched' = DOMAIN watched \ {s}
      BY <1>0, <1>3 DEF RemoveBegins, RowsOK, Restrict
    <2>2. \A e \in editing' : e.symbol \in Listable
      BY <1>0, <1>3 DEF RemoveBegins
    <2> QED BY <1>0, <1>3, <2>1, <2>2 DEF RemoveBegins
  <1>4. ASSUME NEW e \in editing, EditEnds(e) PROVE Goal
    <2>1. e.symbol \in Listable /\ saved' \subseteq Listable
      BY <1>0, <1>4 DEF EditEnds, RowsOK
    <2> QED BY <1>0, <1>4, <2>1 DEF EditEnds
  <1>5. ASSUME NEW s \in Listable, FeedTick(s) PROVE Goal
    <2>1. [i \in 1 .. callbacks |-> s] \in Seq(Listable)
      BY <1>0, <1>5
    <2>2. onBus' \in Seq(Listable)
      BY <1>0, <1>5, <2>1, ConcatProperties DEF FeedTick
    <2> QED BY <1>0, <1>5, <2>2 DEF FeedTick
  <1>6. CASE BusTick
    <2>1. Head(onBus) \in Listable /\ onBus' \in Seq(Listable)
      BY <1>0, <1>6, HeadTailProperties DEF BusTick
    <2>2. RowsOK(watched') /\ DOMAIN watched \subseteq DOMAIN watched'
      BY <1>0, <1>6, <2>1 DEF BusTick, RowsOK, WithRow
    <2> QED BY <1>0, <1>6, <2>1, <2>2 DEF BusTick, Replaced
  <1>7. CASE HydrationBegins
    <2>1. RowsOK(watched') /\ DOMAIN watched' = DOMAIN watched
      BY <1>0, <1>7 DEF HydrationBegins, RowsOK, CacheOK
    <2>2. captured' \subseteq DOMAIN watched /\ hydrating' \in BOOLEAN
      BY <1>7 DEF HydrationBegins
    <2> QED BY <1>0, <1>7, <2>1, <2>2 DEF HydrationBegins
  <1>8. CASE HydrationEnds
    <2>1. ASSUME NEW quoted \in SUBSET captured,
                 watched' = [s \in DOMAIN watched |-> IF s \in quoted THEN "rest" ELSE watched[s]],
                 hydrated' = [s \in captured \cup DOMAIN hydrated |->
                               IF s \in quoted THEN "rest" ELSE IF s \in captured THEN "none" ELSE hydrated[s]]
          PROVE  RowsOK(watched') /\ CacheOK(hydrated')
      BY <1>0, <2>1 DEF RowsOK, CacheOK
    <2>2. RowsOK(watched') /\ CacheOK(hydrated')
      BY <1>0, <1>8, <2>1 DEF HydrationEnds
    <2> QED BY <1>0, <1>8, <2>2 DEF HydrationEnds
  <1>9. CASE CacheExpires
    <2>1. CacheOK(hydrated')
      BY <1>0, <1>9 DEF CacheExpires, CacheOK, Restrict
    <2> QED BY <1>0, <1>9, <2>1 DEF CacheExpires
  <1>10. CASE WatchRestarts
    <2>1. watched' = [s \in Defaults \cup saved |-> "none"] /\ DOMAIN hydrated' = {}
      BY <1>10 DEF WatchRestarts, Unpriced
    <2>2. RowsOK(watched') /\ CacheOK(hydrated')
      BY <1>0, <2>1, WatchlistAssumption DEF RowsOK, CacheOK
    <2>3. onBus' \in Seq(Listable)
      BY <1>10, EmptySeq DEF WatchRestarts
    <2> QED BY <1>0, <1>10, <2>2, <2>3 DEF WatchRestarts
  <1>11. CASE UNCHANGED watchVars
    BY <1>0, <1>11 DEF watchVars
  <1> QED BY <1>1, <1>2, <1>3, <1>4, <1>5, <1>6, <1>7, <1>8, <1>9, <1>10, <1>11 DEF WatchNext

\* Whatever is added, removed, ticked and hydrated (watchlist_router.py, projections.py), the watchlist
\* has rows of symbols that resolve only, and hydration holds rows that are on the list.
THEOREM WatchlistWellFormed == WatchSpec => []WatchTypeOK
  <1>1. ASSUME WatchInit PROVE WatchTypes
    <2>1. watched = [s \in Defaults |-> "none"] /\ DOMAIN hydrated = {}
      BY <1>1 DEF WatchInit, Unpriced
    <2>2. onBus \in Seq(Listable)
      BY <1>1, EmptySeq DEF WatchInit
    <2> QED BY <1>1, <2>1, <2>2, WatchlistAssumption DEF WatchInit, WatchTypes, WatchTypeOK
  <1>2. WatchTypes => WatchTypeOK
    BY DEF WatchTypes
  <1> QED BY <1>1, <1>2, WatchTypesStep, PTL DEF WatchSpec

-----------------------------------------------------------------------------
\* What the schema accepts.  Everything that is stored, shown and on the bus is of this kind.
AcceptedIn(settings) == \A k \in DOMAIN settings : Accepted(k, settings[k])
SettingsAccepted ==
  /\ AcceptedIn(stored) /\ AcceptedIn(shown) /\ DOMAIN shown = CapKeys
  /\ \E V : decisions \in Seq(V)
  /\ \A i \in DOMAIN decisions : DOMAIN decisions[i] \subseteq CapKeys /\ AcceptedIn(decisions[i])
SettingsFlags == up \in BOOLEAN /\ unannounced \in BOOLEAN
SettingsCounted ==
  /\ DOMAIN inForce \subseteq DOMAIN KnownParams
  /\ batches \in 0 .. MaxBatches /\ startups \in 0 .. MaxStartups

\* The default caps are within their bounds.
LEMMA DefaultCaps == \A k \in CapKeys : Accepted(k, Default[k])
  <1>1. Default["loss_limit"] = -500000 /\ Default["max_positions"] = 500
    BY DEF Default
  <1>2. LossFloor \in Int /\ LossFloor <= -500000
    BY DEF LossFloor
  <1>3. Accepted("loss_limit", Default["loss_limit"])
    BY <1>1, <1>2 DEF Accepted, Bounds, Whole
  <1>4. Accepted("max_positions", Default["max_positions"])
    BY <1>1 DEF Accepted, Bounds
  <1> QED BY <1>3, <1>4 DEF CapKeys

LEMMA CapsAccepted ==
  ASSUME AcceptedIn(stored)
  PROVE  /\ \A k \in CapKeys : Accepted(k, Setting(k))
         /\ DOMAIN Caps = CapKeys /\ AcceptedIn(Caps)
  <1>1. \A k \in CapKeys : Accepted(k, Setting(k))
    <2> HIDE DEF Default
    <2> QED BY DefaultCaps DEF Setting, AcceptedIn
  <1> QED BY <1>1 DEF Caps, AcceptedIn

\* An accepted batch keeps the store acceptable, however much of it is written.
LEMMA WrittenAccepted ==
  ASSUME AcceptedIn(stored), NEW batch \in Batches, AllAccepted(batch), NEW n \in 0 .. Len(batch)
  PROVE  AcceptedIn(Written(batch, n))
  <1>1. Len(batch) \in Nat /\ DOMAIN batch = 1 .. Len(batch)
    BY SettingsAssumption
  <1>2. ASSUME NEW k \in Keys(batch, n)
        PROVE  Accepted(k, batch[Max({i \in 1 .. n : batch[i].key = k})].value)
    <2> DEFINE S == {i \in 1 .. n : batch[i].key = k}
    <2>1. S \in SUBSET (0 .. n) /\ S # {} /\ n \in Nat
      BY <1>1 DEF Keys
    <2>2. Max(S) \in S
      <3> HIDE DEF S
      <3> QED BY <2>1, GreatestNumber
    <2> DEFINE i == Max(S)
    <2>3. i \in DOMAIN batch /\ batch[i].key = k
      <3> HIDE DEF i
      <3>1. i \in S
        BY <2>2 DEF i
      <3> QED BY <1>1, <3>1
    <2> HIDE DEF i, S
    <2>4. Accepted(k, batch[i].value)
      BY <2>3 DEF AllAccepted
    <2> QED BY <2>4 DEF i, S
  <1> DEFINE new == Written(batch, n)
  <1>3. DOMAIN new = DOMAIN stored \cup Keys(batch, n)
    BY DEF Written
  <1>4. ASSUME NEW k \in DOMAIN new PROVE Accepted(k, new[k])
    <2>1. CASE k \in Keys(batch, n)
      <3>1. new[k] = batch[Max({i \in 1 .. n : batch[i].key = k})].value
        BY <1>3, <2>1 DEF Written
      <3> QED BY <1>2, <2>1, <3>1
    <2>2. CASE k \notin Keys(batch, n)
      <3>1. k \in DOMAIN stored /\ new[k] = stored[k]
        BY <1>3, <2>2 DEF Written
      <3> QED BY <3>1 DEF AcceptedIn
    <2> QED BY <2>1, <2>2
  <1> QED BY <1>4 DEF AcceptedIn

LEMMA SeededAccepted ==
  ASSUME AcceptedIn(stored), NEW seed \in EnvSeeds, AllAccepted(seed)
  PROVE  AcceptedIn(Seeded(seed))
  <1> DEFINE n == Len(seed)
  <1>1. n \in Nat /\ DOMAIN seed = 1 .. n
    BY SettingsAssumption
  <1>2. ASSUME NEW k \in Keys(seed, n)
        PROVE  Accepted(k, seed[Min({i \in DOMAIN seed : seed[i].key = k})].value)
    <2> DEFINE S == {i \in DOMAIN seed : seed[i].key = k}
    <2>1. S \in SUBSET Nat /\ S # {}
      BY <1>1 DEF Keys
    <2>2. Min(S) \in S
      <3> HIDE DEF S
      <3> QED BY <2>1, LeastNumber
    <2> DEFINE i == Min(S)
    <2>3. i \in DOMAIN seed /\ seed[i].key = k
      <3> HIDE DEF i
      <3>1. i \in S
        BY <2>2 DEF i
      <3> QED BY <3>1
    <2> HIDE DEF i, S
    <2>4. Accepted(k, seed[i].value)
      BY <2>3 DEF AllAccepted
    <2> QED BY <2>4 DEF i, S
  <1> DEFINE new == Seeded(seed)
  <1>3. DOMAIN new = DOMAIN stored \cup Keys(seed, n)
    BY DEF Seeded
  <1>4. ASSUME NEW k \in DOMAIN new PROVE Accepted(k, new[k])
    <2>1. CASE k \notin DOMAIN stored
      <3>1. k \in Keys(seed, n) /\ new[k] = seed[Min({i \in DOMAIN seed : seed[i].key = k})].value
        BY <1>3, <2>1 DEF Seeded
      <3> QED BY <1>2, <3>1
    <2>2. CASE k \in DOMAIN stored
      <3>1. new[k] = stored[k]
        BY <1>3, <2>2 DEF Seeded
      <3> QED BY <2>2, <3>1 DEF AcceptedIn
    <2> QED BY <2>1, <2>2
  <1> QED BY <1>4 DEF AcceptedIn

LEMMA SettingsFlagsStep == SettingsFlags /\ [SettingsNext]_settingsVars => SettingsFlags'
  <1> SUFFICES ASSUME SettingsFlags, [SettingsNext]_settingsVars PROVE SettingsFlags'
    OBVIOUS
  <1> USE DEF SettingsFlags
  <1>1. ASSUME NEW seed \in EnvSeeds, LoadSettings(seed) PROVE SettingsFlags'
    BY <1>1 DEF LoadSettings, AllAccepted
  <1>2. ASSUME NEW batch \in Batches, UpdateSettings(batch) PROVE SettingsFlags'
    BY <1>2 DEF UpdateSettings, Announce
  <1>3. ASSUME NEW batch \in Batches, NEW n, WriteFails(batch, n) \/ CrashWriting(batch, n) PROVE SettingsFlags'
    BY <1>3 DEF WriteFails, CrashWriting, Touches
  <1>4. CASE BridgeDecides \/ MarginDecides \/ TakeDecision
    BY <1>4 DEF BridgeDecides, MarginDecides, TakeDecision
  <1>5. CASE UNCHANGED settingsVars
    BY <1>5 DEF settingsVars
  <1> QED BY <1>1, <1>2, <1>3, <1>4, <1>5 DEF SettingsNext

LEMMA SettingsCountedStep == SettingsCounted /\ [SettingsNext]_settingsVars => SettingsCounted'
  <1> SUFFICES ASSUME SettingsCounted, [SettingsNext]_settingsVars PROVE SettingsCounted'
    OBVIOUS
  <1> USE SettingsAssumption DEF SettingsCounted
  <1>1. ASSUME NEW seed \in EnvSeeds, LoadSettings(seed) PROVE SettingsCounted'
    <2>1. DOMAIN inForce' \subseteq DOMAIN KnownParams
      BY <1>1 DEF LoadSettings, Instantiated
    <2> QED BY <1>1, <2>1 DEF LoadSettings
  <1>2. ASSUME NEW batch \in Batches, UpdateSettings(batch) PROVE SettingsCounted'
    BY <1>2 DEF UpdateSettings
  <1>3. ASSUME NEW batch \in Batches, NEW n, WriteFails(batch, n) PROVE SettingsCounted'
    BY <1>3 DEF WriteFails
  <1>4. ASSUME NEW batch \in Batches, NEW n \in 0 .. Len(batch), CrashWriting(batch, n) PROVE SettingsCounted'
    BY <1>4 DEF CrashWriting
  <1>5. CASE BridgeDecides \/ MarginDecides \/ TakeDecision
    BY <1>5 DEF BridgeDecides, MarginDecides, TakeDecision
  <1>6. CASE UNCHANGED settingsVars
    BY <1>6 DEF settingsVars
  <1> QED BY <1>1, <1>2, <1>3, <1>4, <1>5, <1>6 DEF SettingsNext

\* One more decision, whose caps are acceptable.
LEMMA DecisionAccepted ==
  ASSUME SettingsAccepted, NEW d, DOMAIN d \subseteq CapKeys, AcceptedIn(d), decisions' = Append(decisions, d)
  PROVE  /\ \E V : decisions' \in Seq(V)
         /\ \A i \in DOMAIN decisions' : DOMAIN decisions'[i] \subseteq CapKeys /\ AcceptedIn(decisions'[i])
  <1>1. PICK V : decisions \in Seq(V)
    BY DEF SettingsAccepted
  <1> DEFINE W == V \cup {d}
  <1>2. decisions \in Seq(W) /\ d \in W
    BY <1>1
  <1> HIDE DEF W
  <1>3. decisions' \in Seq(W) /\ \A i \in DOMAIN decisions' : decisions'[i] = d \/ (i \in DOMAIN decisions /\ decisions'[i] = decisions[i])
    BY <1>2
  <1> QED BY <1>3 DEF SettingsAccepted

LEMMA SettingsAcceptedStep == SettingsAccepted /\ [SettingsNext]_settingsVars => SettingsAccepted'
  <1> SUFFICES ASSUME SettingsAccepted, [SettingsNext]_settingsVars PROVE SettingsAccepted'
    OBVIOUS
  <1>0. AcceptedIn(stored)
    BY DEF SettingsAccepted
  <1>e. ASSUME decisions' = <<>>, AcceptedIn(stored'), AcceptedIn(shown'), DOMAIN shown' = CapKeys PROVE SettingsAccepted'
    <2>1. decisions' \in Seq({}) /\ DOMAIN decisions' = {}
      BY <1>e, EmptySeq
    <2> QED BY <1>e, <2>1 DEF SettingsAccepted
  <1>f. ASSUME UNCHANGED <<decisions, shown>>, AcceptedIn(stored') PROVE SettingsAccepted'
    BY <1>f DEF SettingsAccepted
  <1>1. ASSUME NEW seed \in EnvSeeds, LoadSettings(seed) PROVE SettingsAccepted'
    <2>1. decisions' = <<>> /\ shown' = Caps
      BY <1>1 DEF LoadSettings
    <2>2. AcceptedIn(stored')
      <3>1. CASE AllAccepted(seed)
        BY <1>0, <1>1, <3>1, SeededAccepted DEF LoadSettings
      <3>2. CASE ~AllAccepted(seed)
        BY <1>0, <1>1, <3>2 DEF LoadSettings
      <3> QED BY <3>1, <3>2
    <2> QED BY <1>0, <1>e, <2>1, <2>2, CapsAccepted
  <1>2. ASSUME NEW batch \in Batches, UpdateSettings(batch) PROVE SettingsAccepted'
    <2>1. Len(batch) \in 0 .. Len(batch)
      BY SettingsAssumption
    <2>2. stored' = Written(batch, Len(batch)) /\ AllAccepted(batch) /\ shown' = shown
      BY <1>2 DEF UpdateSettings
    <2>3. AcceptedIn(stored')
      BY <1>0, <2>1, <2>2, WrittenAccepted
    <2> DEFINE d == [k \in CapKeys |-> Setting(k)']
    <2>4. CASE decisions' = Append(decisions, d)
      <3>1. \A k \in CapKeys : Accepted(k, Setting(k)')
        BY <2>3, DefaultCaps DEF Setting, AcceptedIn
      <3>2. DOMAIN d \subseteq CapKeys /\ AcceptedIn(d)
        BY <3>1 DEF AcceptedIn
      <3> HIDE DEF d
      <3>3. /\ \E V : decisions' \in Seq(V)
            /\ \A i \in DOMAIN decisions' : DOMAIN decisions'[i] \subseteq CapKeys /\ AcceptedIn(decisions'[i])
        BY <2>4, <3>2, DecisionAccepted
      <3> QED BY <2>2, <2>3, <3>3 DEF SettingsAccepted
    <2>5. CASE decisions' = decisions
      BY <1>f, <2>2, <2>3, <2>5
    <2> QED BY <1>2, <2>4, <2>5 DEF UpdateSettings, Announce
  <1>3. ASSUME NEW batch \in Batches, NEW n \in 0 .. Len(batch), WriteFails(batch, n) PROVE SettingsAccepted'
    <2>1. stored' = Written(batch, n) /\ AllAccepted(batch) /\ UNCHANGED <<decisions, shown>>
      BY <1>3 DEF WriteFails
    <2> QED BY <1>0, <1>f, <2>1, WrittenAccepted
  <1>4. ASSUME NEW batch \in Batches, NEW n \in 0 .. Len(batch), CrashWriting(batch, n) PROVE SettingsAccepted'
    <2>1. stored' = Written(batch, n) /\ AllAccepted(batch) /\ decisions' = <<>> /\ shown' = shown
      BY <1>4 DEF CrashWriting
    <2>2. AcceptedIn(stored')
      BY <1>0, <2>1, WrittenAccepted
    <2> QED BY <1>e, <2>1, <2>2 DEF SettingsAccepted
  <1>5. CASE BridgeDecides
    <2> DEFINE d == Caps
    <2>1. DOMAIN d \subseteq CapKeys /\ AcceptedIn(d)
      BY <1>0, CapsAccepted
    <2>2. decisions' = Append(decisions, d) /\ UNCHANGED <<stored, shown>>
      BY <1>5 DEF BridgeDecides, Decision
    <2> HIDE DEF d
    <2>3. /\ \E V : decisions' \in Seq(V)
          /\ \A i \in DOMAIN decisions' : DOMAIN decisions'[i] \subseteq CapKeys /\ AcceptedIn(decisions'[i])
      BY <2>1, <2>2, DecisionAccepted
    <2> QED BY <2>2, <2>3 DEF SettingsAccepted
  <1>6. CASE MarginDecides
    <2> DEFINE d == <<>>
    <2>1. DOMAIN d \subseteq CapKeys /\ AcceptedIn(d)
      BY DEF AcceptedIn
    <2>2. decisions' = Append(decisions, d) /\ UNCHANGED <<stored, shown>>
      BY <1>6 DEF MarginDecides
    <2> HIDE DEF d
    <2>3. /\ \E V : decisions' \in Seq(V)
          /\ \A i \in DOMAIN decisions' : DOMAIN decisions'[i] \subseteq CapKeys /\ AcceptedIn(decisions'[i])
      BY <2>1, <2>2, DecisionAccepted
    <2> QED BY <2>2, <2>3 DEF SettingsAccepted
  <1>7. CASE TakeDecision
    <2>1. PICK V : decisions \in Seq(V)
      BY DEF SettingsAccepted
    <2>2. decisions # <<>> /\ decisions' = Tail(decisions) /\ shown' = Merged(shown, Head(decisions)) /\ stored' = stored
      BY <1>7 DEF TakeDecision
    <2>3. /\ decisions' \in Seq(V) /\ 1 \in DOMAIN decisions /\ Head(decisions) = decisions[1]
          /\ \A i \in DOMAIN decisions' : i + 1 \in DOMAIN decisions /\ decisions'[i] = decisions[i + 1]
      BY <2>1, <2>2
    <2>4. DOMAIN shown' = CapKeys /\ AcceptedIn(shown')
      <3> DEFINE d == decisions[1]
      <3>1. AcceptedIn(d)
        BY <2>3 DEF SettingsAccepted
      <3>2. shown' = Merged(shown, d)
        BY <2>2, <2>3
      <3> HIDE DEF d
      <3> QED BY <3>1, <3>2 DEF SettingsAccepted, AcceptedIn, Merged
    <2>5. \A i \in DOMAIN decisions' : DOMAIN decisions'[i] \subseteq CapKeys /\ AcceptedIn(decisions'[i])
      BY <2>3 DEF SettingsAccepted
    <2> QED BY <2>2, <2>3, <2>4, <2>5 DEF SettingsAccepted
  <1>8. CASE UNCHANGED settingsVars
    BY <1>8 DEF settingsVars, SettingsAccepted
  <1>9. \A batch \in Batches : 0 .. Len(batch) - 1 \subseteq 0 .. Len(batch)
    BY SettingsAssumption
  <1> QED BY <1>1, <1>2, <1>3, <1>4, <1>5, <1>6, <1>7, <1>8, <1>9 DEF SettingsNext

\* settings.py refuses what its schema does not accept.  Through batches that stop halfway, crashes
\* within them, seeds of the environment and decisions on the bus, neither the store nor the panel
\* ever holds a value that the schema would refuse.
THEOREM SettingsStayAccepted == SettingsSpec => []SettingsTypeOK
  <1>1. ASSUME SettingsInit PROVE SettingsAccepted /\ SettingsFlags /\ SettingsCounted
    <2>1. DOMAIN stored = {} /\ DOMAIN inForce = {} /\ DOMAIN decisions = {} /\ decisions \in Seq({})
      BY <1>1, EmptySeq DEF SettingsInit
    <2>2. DOMAIN shown = CapKeys /\ \A k \in CapKeys : Accepted(k, shown[k])
      BY <1>1, DefaultCaps DEF SettingsInit
    <2>3. SettingsAccepted
      BY <2>1, <2>2 DEF SettingsAccepted, AcceptedIn
    <2>4. SettingsFlags
      BY <1>1 DEF SettingsInit, SettingsFlags
    <2> QED BY <1>1, <2>1, <2>3, <2>4, SettingsAssumption DEF SettingsInit, SettingsCounted
  <1>2. SettingsAccepted /\ SettingsFlags /\ SettingsCounted => SettingsTypeOK
    BY DEF SettingsAccepted, SettingsFlags, SettingsCounted, SettingsTypeOK, AcceptedIn
  <1> QED BY <1>1, <1>2, SettingsAcceptedStep, SettingsFlagsStep, SettingsCountedStep, PTL DEF SettingsSpec

-----------------------------------------------------------------------------
\* Who is on the list has connected, and nobody is on it twice.
EndpointsOK == endpoint \in [Clients -> {"new", "open", "closed"}]
ListedOnce ==
  /\ connections \in Seq(Clients) /\ IsInjective(connections)
  /\ \A i \in DOMAIN connections : endpoint[connections[i]] # "new"
TopicsKept == DOMAIN topicsOf \subseteq Clients /\ \A c \in DOMAIN topicsOf : topicsOf[c] \in (SUBSET Topics) \ {{}}
ListInv == EndpointsOK /\ ListedOnce /\ TopicsKept

\* Taking clients off the list and their topics with them.
LEMMA DisconnectKeeps ==
  ASSUME ListInv, NEW gone, Disconnect(gone),
         endpoint' = endpoint \/ \E c \in Clients : endpoint' = [endpoint EXCEPT ![c] = "closed"]
  PROVE  ListInv'
  <1>1. connections \in Seq(Clients) /\ IsInjective(connections) /\ Len(connections) \in Nat
    BY DEF ListInv, ListedOnce
  <1>2. connections' = Without(connections, gone)
    BY DEF Disconnect
  <1>3. FirstStay(connections, gone, 0) /\ 0 \in 0 .. Len(connections)
    BY <1>1 DEF FirstStay
  <1>4. connections' \in Seq(Clients)
    BY <1>1, <1>2, <1>3, WithoutKeeps
  <1>5. /\ IsInjective(connections')
        /\ \A i \in DOMAIN connections' : \E j \in DOMAIN connections : connections'[i] = connections[j]
    BY <1>1, <1>2, WithoutShrinks
  <1>6. EndpointsOK' /\ \A c \in Clients : endpoint[c] # "new" => endpoint'[c] # "new"
    BY DEF ListInv, EndpointsOK
  <1>7. \A j \in DOMAIN connections : connections[j] \in Clients
    BY <1>1
  <1>8. ListedOnce'
    BY <1>4, <1>5, <1>6, <1>7 DEF ListInv, ListedOnce
  <1>9. TopicsKept'
    BY DEF ListInv, TopicsKept, Disconnect, Restrict
  <1> QED BY <1>6, <1>8, <1>9 DEF ListInv

LEMMA ListStep == ListInv /\ [FanoutNext]_fanoutVars => ListInv'
  <1> SUFFICES ASSUME ListInv, [FanoutNext]_fanoutVars PROVE ListInv'
    OBVIOUS
  <1>1. ASSUME NEW c \in Clients, ClientConnects(c) PROVE ListInv'
    <2>1. connections \in Seq(Clients) /\ IsInjective(connections) /\ Len(connections) \in Nat
      BY DEF ListInv, ListedOnce
    <2>2. /\ connections' = Append(connections, c) /\ endpoint[c] = "new" /\ topicsOf' = topicsOf
          /\ endpoint' = [endpoint EXCEPT ![c] = "open"]
      BY <1>1 DEF ClientConnects
    <2>3. /\ connections' \in Seq(Clients) /\ Len(connections') = Len(connections) + 1
          /\ connections'[Len(connections) + 1] = c
          /\ \A i \in 1 .. Len(connections) : connections'[i] = connections[i] /\ connections[i] \in Clients
      BY <2>1, <2>2
    <2>4. \A i \in 1 .. Len(connections) : connections[i] # c
      BY <2>1, <2>2 DEF ListInv, ListedOnce
    <2>5. IsInjective(connections')
      BY <2>1, <2>3, <2>4 DEF IsInjective
    <2>6. EndpointsOK' /\ \A x \in Clients : endpoint[x] # "new" \/ x = c => endpoint'[x] # "new"
      BY <2>2 DEF ListInv, EndpointsOK
    <2>7. \A i \in DOMAIN connections' : endpoint'[connections'[i]] # "new"
      <3>1. ASSUME NEW i \in 1 .. Len(connections) PROVE endpoint'[connections'[i]] # "new"
        <4>1. endpoint[connections[i]] # "new"
          BY <2>1 DEF ListInv, ListedOnce
        <4> QED BY <2>3, <2>6, <4>1
      <3> QED BY <2>1, <2>3, <2>6, <3>1
    <2> QED BY <2>2, <2>3, <2>5, <2>6, <2>7 DEF ListInv, ListedOnce, TopicsKept
  <1>2. ASSUME NEW c \in Clients, ClientLeaves(c) PROVE ListInv'
    BY <1>2, DisconnectKeeps DEF ClientLeaves
  <1>3. ASSUME NEW c \in Clients, NEW ts \in SUBSET Topics, ClientSubscribes(c, ts) \/ ClientUnsubscribes(c, ts)
        PROVE  ListInv'
    <2>1. UNCHANGED <<endpoint, connections>>
      BY <1>3 DEF ClientSubscribes, ClientUnsubscribes
    <2>2. CASE ClientSubscribes(c, ts)
      <3>1. TopicsKept'
        BY <2>2 DEF ClientSubscribes, ListInv, TopicsKept, Restrict
      <3> QED BY <2>1, <3>1 DEF ListInv, EndpointsOK, ListedOnce
    <2>3. CASE ClientUnsubscribes(c, ts)
      <3>1. TopicsKept'
        BY <2>3 DEF ClientUnsubscribes, ListInv, TopicsKept, Restrict
      <3> QED BY <2>1, <3>1 DEF ListInv, EndpointsOK, ListedOnce
    <2> QED BY <1>3, <2>2, <2>3
  <1>4. ASSUME NEW b, NEW cast, Resume(b, cast), endpoint' = endpoint PROVE ListInv'
    <2>1. CASE Disconnect(cast.dead)
      BY <1>4, <2>1, DisconnectKeeps
    <2>2. CASE UNCHANGED <<connections, topicsOf>>
      BY <1>4, <2>2 DEF ListInv, EndpointsOK, ListedOnce, TopicsKept
    <2> QED BY <1>4, <2>1, <2>2 DEF Resume
  <1>5. ASSUME NEW b \in Broadcasts, NEW t \in Topics, Broadcast(b, t) PROVE ListInv'
    BY <1>4, <1>5 DEF Broadcast
  <1>6. ASSUME NEW b \in Broadcasts, NEW ok \in BOOLEAN, SendEnds(b, ok) PROVE ListInv'
    BY <1>4, <1>6 DEF SendEnds
  <1>7. CASE UNCHANGED fanoutVars
    BY <1>7 DEF fanoutVars, ListInv, EndpointsOK, ListedOnce, TopicsKept
  <1> QED BY <1>1, <1>2, <1>3, <1>5, <1>6, <1>7 DEF FanoutNext

\* A broadcast waits for one client's send at a time.
SentToOne ==
  DOMAIN casts \subseteq Broadcasts /\ \A b \in DOMAIN casts : casts[b].to = {} \/ \E c : casts[b].to = {c}

LEMMA FollowSends ==
  ASSUME NEW all, NEW gone, casts' = Follow(all, gone), DOMAIN all \subseteq Broadcasts,
         \A b \in DOMAIN all : all[b] \in Cast /\ (all[b].to = {} \/ \E c : all[b].to = {c})
  PROVE  SentToOne'
  <1>1. DOMAIN casts' = DOMAIN all
    BY DEF Follow
  <1>2. ASSUME NEW b \in DOMAIN all PROVE casts'[b].to = all[b].to
    <2>1. casts'[b] = Followed(all[b], gone)
      BY DEF Follow, Followed
    <2> DEFINE a == all[b]
    <2>2. a \in Cast
      OBVIOUS
    <2> HIDE DEF a
    <2>3. Followed(a, gone).to = a.to
      BY <2>2, FollowedFields
    <2> QED BY <2>1, <2>3 DEF a
  <1> QED BY <1>1, <1>2 DEF SentToOne

LEMMA ResumeSends ==
  ASSUME FanTypes, SentToOne, NEW b \in Broadcasts, NEW cast \in Cast, Resume(b, cast)
  PROVE  SentToOne'
  <1> DEFINE further == Further(cast.topic, cast.next)
             with(c) == [x \in DOMAIN casts \cup {b} |-> IF x = b THEN c ELSE casts[x]]
             done == [cast EXCEPT !.to = {}]
             next == [cast EXCEPT !.to = {connections[Min(further)]}, !.next = Min(further) + 1]
  <1>1. done \in Cast /\ done.to = {} /\ next.to = {connections[Min(further)]}
    BY DEF Cast
  <1>2. \A x \in DOMAIN casts : casts[x] \in Cast /\ (casts[x].to = {} \/ \E c : casts[x].to = {c})
    BY DEF FanTypes, SentToOne
  <1>3. casts' = Follow(with(done), cast.dead) \/ casts' = with(next)
    BY DEF Resume
  <1> HIDE DEF further, done, next
  <1>4. DOMAIN casts \cup {b} \subseteq Broadcasts
    BY DEF SentToOne
  <1>5. CASE casts' = with(next)
    BY <1>1, <1>2, <1>4, <1>5 DEF SentToOne
  <1>6. CASE casts' = Follow(with(done), cast.dead)
    <2> DEFINE all == with(done)
    <2>1. DOMAIN all \subseteq Broadcasts /\ \A x \in DOMAIN all : all[x] \in Cast /\ (all[x].to = {} \/ \E c : all[x].to = {c})
      BY <1>1, <1>2, <1>4
    <2>2. casts' = Follow(all, cast.dead)
      BY <1>6
    <2> HIDE DEF all
    <2> QED BY <2>1, <2>2, FollowSends
  <1> QED BY <1>3, <1>5, <1>6

LEMMA SendsStep == FanInv /\ SentToOne /\ [FanoutNext]_fanoutVars => SentToOne'
  <1> SUFFICES ASSUME FanInv, SentToOne, [FanoutNext]_fanoutVars PROVE SentToOne'
    OBVIOUS
  <1>0. FanTypes /\ connections \in Seq(Clients)
    BY DEF FanInv, FanTypes
  <1>1. ASSUME NEW c \in Clients, ClientConnects(c) PROVE SentToOne'
    BY <1>1 DEF ClientConnects, SentToOne
  <1>2. ASSUME NEW gone, casts' = Follow(casts, gone) PROVE SentToOne'
    <2>1. /\ DOMAIN casts \subseteq Broadcasts
          /\ \A b \in DOMAIN casts : casts[b] \in Cast /\ (casts[b].to = {} \/ \E c : casts[b].to = {c})
      BY <1>0 DEF FanTypes, SentToOne
    <2> QED BY <1>2, <2>1, FollowSends
  <1>3. ASSUME NEW b \in Broadcasts, NEW t \in Topics, Broadcast(b, t) PROVE SentToOne'
    <2> DEFINE cast == [topic |-> t, next |-> 1, to |-> {}, dead |-> {},
                        due |-> {c \in ToSet(connections) : Hears(topicsOf, c, t)},
                        served |-> {}, shifted |-> FALSE]
    <2>1. Resume(b, cast)
      BY <1>3 DEF Broadcast
    <2>2. cast \in Cast
      BY <1>0 DEF Cast, ToSet
    <2> HIDE DEF cast
    <2> QED BY <1>0, <2>1, <2>2, ResumeSends
  <1>4. ASSUME NEW b \in Broadcasts, NEW ok \in BOOLEAN, SendEnds(b, ok) PROVE SentToOne'
    <2> DEFINE old == casts[b]
               cast == IF ok THEN [old EXCEPT !.served = @ \cup old.to] ELSE [old EXCEPT !.dead = @ \cup old.to]
    <2>1. b \in DOMAIN casts /\ Resume(b, cast)
      BY <1>4 DEF SendEnds
    <2>2. old \in Cast
      BY <1>0, <2>1 DEF FanTypes
    <2>3. cast \in Cast
      <3> HIDE DEF old
      <3> QED BY <2>2 DEF Cast
    <2> HIDE DEF cast
    <2> QED BY <1>0, <2>1, <2>3, ResumeSends
  <1>5. CASE UNCHANGED fanoutVars
    BY <1>5 DEF fanoutVars, SentToOne
  <1>6. ASSUME NEW c \in Clients, NEW ts \in SUBSET Topics,
               ClientLeaves(c) \/ ClientSubscribes(c, ts) \/ ClientUnsubscribes(c, ts)
        PROVE  SentToOne'
    BY <1>2, <1>6 DEF ClientLeaves, ClientSubscribes, ClientUnsubscribes
  <1> QED BY <1>1, <1>3, <1>4, <1>5, <1>6 DEF FanoutNext

\* Clients that leave, and clients that broadcasts drop after a failed send (ws_manager.py), are taken off
\* the list at any time; nobody is ever on it twice, and a broadcast waits for at most one send.
THEOREM ListedClientsDiffer == FanoutSpec => []FanoutTypeOK
  <1>1. ASSUME FanoutInit PROVE ListInv /\ SentToOne
    <2>1. connections \in Seq(Clients) /\ DOMAIN connections = {} /\ DOMAIN topicsOf = {} /\ DOMAIN casts = {}
      BY <1>1, EmptySeq DEF FanoutInit
    <2> QED BY <1>1, <2>1 DEF FanoutInit, ListInv, EndpointsOK, ListedOnce, TopicsKept, IsInjective, SentToOne
  <1>2. ASSUME ListInv, FanInv, SentToOne PROVE FanoutTypeOK
    <2>1. ASSUME NEW b \in DOMAIN casts PROVE Cardinality(casts[b].to) <= 1
      <3>1. CASE casts[b].to = {}
        BY <3>1, FS_EmptySet
      <3>2. ASSUME NEW c, casts[b].to = {c} PROVE Cardinality(casts[b].to) <= 1
        BY <3>2, FS_Singleton
      <3> QED BY <1>2, <3>1, <3>2 DEF SentToOne
    <2>2. DOMAIN casts \subseteq Broadcasts
          /\ \A b \in DOMAIN casts : casts[b].to \cup casts[b].dead \cup casts[b].due \cup casts[b].served
                                      \subseteq Clients
      BY <1>2 DEF FanInv, FanTypes, SentToOne, Cast
    <2> QED BY <1>2, <2>1, <2>2 DEF ListInv, EndpointsOK, ListedOnce, TopicsKept, FanoutTypeOK, ToSet
  <1> QED BY <1>1, <1>2, FanStart, FanStep, ListStep, SendsStep, PTL DEF FanoutSpec
=============================================================================
