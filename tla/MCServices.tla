----------------------------- MODULE MCServices -----------------------------
(***************************************************************************)
(* The sockets, the initialisation that builds them, the health monitor, a *)
(* browser's socket, the watchlist, the instrument master, and the way     *)
(* from ticks and chains to signals, findings and lessons, side by side.   *)
(* They do not act on each other in their models, so a behaviour explores  *)
(* the part in focus and leaves the others in one initial state.           *)
(***************************************************************************)
EXTENDS DataSocket, OrderSocket, TerminalInit, SessionHealth, BrowserSocket, Watchlist,
        InstrumentMaster, SignalFlow, Scanners, Learning

CONSTANTS t1, t2, nifty, l1, l2, s1

\* Two chains: the spot rises, open interest and implied volatilities move.
Contract(strike, kind, oi, iv, rawIv, gamma, delta) ==
  [strike |-> strike, kind |-> kind, oi |-> oi, iv |-> iv, rawIv |-> rawIv, gamma |-> gamma,
   delta |-> delta, theta |-> 7, vega |-> 2]

MCChains ==
  { [spot |-> 1000, contracts |-> { Contract(900, "CE", 10, 20, 0, 1, 75),
                                    Contract(1000, "CE", 10, 20, 20, 2, 50),
                                    Contract(1000, "PE", 10, 21, 0, 2, -50) }],
    [spot |-> 1090, contracts |-> { Contract(1000, "CE", 30, 30, 0, 5, 75),
                                    Contract(1100, "CE", 0, 20, 0, 2, 25),
                                    Contract(1000, "PE", 2, 21, 0, 5, -25) }] }

MCBarFeed == {[open |-> 102, close |-> 102, volume |-> 8, oi |-> 13]}

MCSigns == {-1, 1}

Reading(adx, plus, minus, fast, slow) ==
  [adx |-> adx, di_plus |-> plus, di_minus |-> minus, ema_9 |-> fast, ema_21 |-> slow]

\* Nothing computed yet, a rise, a sideways market, a fall without averages.
MCReadings ==
  { Reading(Absent, Absent, Absent, Absent, Absent), Reading(30, 20, 10, 1020, 1000),
    Reading(15, 10, 20, 990, 1000), Reading(30, 10, 20, Absent, Absent) }

MCLateBy == {0, 1}

MCChainRows == <<[type |-> "CE", strike |-> 100, premium |-> 10, ev |-> 5]>>

MCWeeklyDays ==
  [u \in Underlyings |-> CASE u = "TCS" -> {} [] u = "NIFTY" -> {3} [] OTHER -> 0 .. 3]

MCExpiryDays ==
  [u \in Underlyings |-> IF u = "TCS" THEN {8, 22, 36} ELSE {1, 8, 15, 22, 29, 36}]

VARIABLE focus

brokerFocus == <<feedVars, orderSocketVars, initVars, sessionVars>>
deskFocus == <<tabVars, watchVars, masterVars, flowVars>>
studyFocus == <<scanVars, learnVars>>
servicesVars == <<focus, brokerFocus, deskFocus, studyFocus>>

ServicesInit ==
  /\ focus \in {"data", "order", "init", "session", "browser", "watch", "master",
               "flow", "scan", "learn"}
  /\ FeedInit /\ OrderSocketInit /\ AdaptersInit /\ SessionInit /\ TabInit
  /\ WatchInit /\ MasterInit /\ FlowInit /\ ScanInit /\ LearnInit
  /\ focus # "init" => token = 0
  /\ focus # "session" => onFile = "none" /\ ~feedUp
  /\ focus # "master" => mirror = <<>> /\ lotSize = 50

BrokerStep ==
  /\ UNCHANGED <<deskFocus, studyFocus>>
  /\ \/ focus = "data" /\ FeedNext /\ UNCHANGED <<orderSocketVars, initVars, sessionVars>>
     \/ focus = "order" /\ OrderSocketNext /\ UNCHANGED <<feedVars, initVars, sessionVars>>
     \/ focus = "init" /\ AdaptersNext /\ UNCHANGED <<feedVars, orderSocketVars, sessionVars>>
     \/ focus = "session" /\ SessionNext /\ UNCHANGED <<feedVars, orderSocketVars, initVars>>

DeskStep ==
  /\ UNCHANGED <<brokerFocus, studyFocus>>
  /\ \/ focus = "browser" /\ TabNext /\ UNCHANGED <<watchVars, masterVars, flowVars>>
     \/ focus = "watch" /\ WatchNext /\ UNCHANGED <<tabVars, masterVars, flowVars>>
     \/ focus = "master" /\ MasterNext /\ UNCHANGED <<tabVars, watchVars, flowVars>>
     \/ focus = "flow" /\ FlowNext /\ UNCHANGED <<tabVars, watchVars, masterVars>>

StudyStep ==
  /\ UNCHANGED <<brokerFocus, deskFocus>>
  /\ \/ focus = "scan" /\ ScanNext /\ UNCHANGED learnVars
     \/ focus = "learn" /\ LearnNext /\ UNCHANGED scanVars

ServicesNext == UNCHANGED focus /\ (BrokerStep \/ DeskStep \/ StudyStep)

\* The fairness of the parts, of the one in focus.
ServicesSpec ==
  /\ ServicesInit /\ [][ServicesNext]_servicesVars
  /\ \A t \in Supervisors : WF_feedVars(focus = "data" /\ Supervise(t))
  /\ WF_orderSocketVars(focus = "order" /\ OrderTask)
  /\ WF_orderSocketVars(focus = "order" /\ ConnectReturns)
  /\ WF_orderSocketVars(focus = "order" /\ OrderDisconnectReturns)
  /\ WF_sessionVars(focus = "session" /\ Monitor)
  /\ WF_sessionVars(focus = "session" /\ DispatchNews)
=============================================================================
