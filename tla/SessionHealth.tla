--------------------------- MODULE SessionHealth ---------------------------
(***************************************************************************)
(* How the terminal learns and shows whether it is connected: the token    *)
(* health monitor (auth/health_monitor.py) checks the stored token every   *)
(* minute and probes it once before the market opens; the health           *)
(* projection (terminal/projections.py) hears of checks and of socket      *)
(* events over the bus, and computes the state anew when it is polled.     *)
(*                                                                         *)
(* Logins, the adapters and the data socket (TerminalInit, DataSocket) are *)
(* here the surroundings, which may change as they like.                   *)
(***************************************************************************)
EXTENDS Naturals, Sequences

CONSTANTS MaxNews  \* bound: the sockets report while fewer events are queued, the monitor has room for one more

ASSUME HealthAssumption == MaxNews \in Nat \ {0}

VARIABLES
  onFile,      \* the stored token: "none", "valid" or, when its recorded expiry is past, "lapsed"
  session,     \* the same of the session that the adapters were built with
  observed,    \* the data adapter given to the projection at startup, if any
  feedUp,      \* its data socket is connected
  monitor,     \* where the monitor's loop is
  probedToday, \* _last_premarket_probe is today
  morning,     \* it is the ten minutes before the market opens
  news,        \* events of the bus for the projection, oldest first
  credential,  \* _last_credential_status
  connection   \* _state

surroundings == <<onFile, session, observed, feedUp, morning>>
monitorVars == <<monitor, probedToday>>
projectionVars == <<credential, connection>>
sessionVars == <<surroundings, monitorVars, news, projectionVars>>

Tokens == {"none", "valid", "lapsed"}
CredentialStates == {"UNKNOWN", "HEALTHY", "EXPIRING_SOON", "EXPIRED"}
SocketStates == {"data_socket_closed", "data_socket_error"}
ConnectionStates == {"EXPIRED", "DISCONNECTED", "CONNECTING", "STALE", "CONNECTED"}

SessionInit ==
  /\ onFile \in Tokens
  /\ session = IF onFile = "valid" THEN onFile ELSE "none"
  /\ observed \in BOOLEAN /\ (observed => session = "valid")
  /\ feedUp \in BOOLEAN /\ morning = FALSE
  /\ monitor = "checking" /\ probedToday = FALSE
  /\ news = <<>>
  /\ credential = "UNKNOWN" /\ connection = "DISCONNECTED"

-----------------------------------------------------------------------------
\* The monitor.

\* _get_status: whether a live token expires within the hour is left open.
TokenStatuses == CASE onFile = "none"   -> {"UNKNOWN"}
              [] onFile = "lapsed" -> {"EXPIRED"}
              [] onFile = "valid"  -> {"HEALTHY", "EXPIRING_SOON"}

CheckHealth ==
  /\ monitor = "checking" /\ Len(news) <= MaxNews
  /\ monitor' = "checked"
  /\ \E status \in TokenStatuses : news' = Append(news, status)
  /\ UNCHANGED <<surroundings, probedToday, projectionVars>>

\* Once in the morning; the day counts as probed even without a token.
Probe ==
  /\ monitor = "checked"
  /\ LET due == morning /\ ~probedToday
     IN /\ probedToday' = (probedToday \/ due)
        /\ monitor' = IF due /\ onFile # "none" THEN "probing" ELSE "sleeping"
  /\ UNCHANGED <<surroundings, news, projectionVars>>

\* The broker answers; a warning goes to the browser only.
ProbeEnds ==
  /\ monitor = "probing"
  /\ monitor' = "sleeping"
  /\ UNCHANGED <<surroundings, probedToday, news, projectionVars>>

MonitorWakes ==
  /\ monitor = "sleeping"
  /\ monitor' = "checking"
  /\ UNCHANGED <<surroundings, probedToday, news, projectionVars>>

-----------------------------------------------------------------------------
\* The projection.

OnSystemStatus(status) ==
  /\ connection' = IF status \in SocketStates THEN "DISCONNECTED" ELSE connection
  /\ UNCHANGED credential

\* Faulty variant: only a change of the status is looked at.
OnCredentialChange(status) ==
  /\ credential' = status
  /\ connection' = CASE status = credential                         -> connection
                     [] status \in {"EXPIRED", "EXPIRING_SOON"}      -> "EXPIRED"
                     [] status = "HEALTHY" /\ connection = "EXPIRED" -> "CONNECTING"
                     [] OTHER                                        -> connection

OnCredentialHealth(status) ==
  /\ credential' = status
  /\ connection' = CASE status \in {"EXPIRED", "EXPIRING_SOON"}      -> "EXPIRED"
                     [] status = "HEALTHY" /\ connection = "EXPIRED" -> "CONNECTING"
                     [] OTHER                                        -> connection

DispatchNews ==
  /\ news # <<>>
  /\ news' = Tail(news)
  /\ IF Head(news) \in CredentialStates THEN OnCredentialHealth(Head(news))
     ELSE OnSystemStatus(Head(news))
  /\ UNCHANGED <<surroundings, monitorVars>>

\* _compute_state: whether a socket that is down tries again, and whether one
\* that is up has been silent for a minute, is left open.
ComputedStates ==
  IF credential \in {"EXPIRED", "EXPIRING_SOON"} \/ session = "lapsed" THEN {"EXPIRED"}
  ELSE IF ~observed THEN {"DISCONNECTED"}
  ELSE IF feedUp THEN {"STALE", "CONNECTED"}
  ELSE {"CONNECTING", "DISCONNECTED"}

PollLogin ==
  /\ connection' \in ComputedStates
  /\ UNCHANGED <<surroundings, monitorVars, news, credential>>

-----------------------------------------------------------------------------
\* The surroundings.

\* The order socket reports an error or a close.
SocketReports(status) ==
  /\ session # "none" /\ Len(news) < MaxNews
  /\ news' = Append(news, status)
  /\ UNCHANGED <<surroundings, monitorVars, projectionVars>>

\* A login stores a valid token; only the first gives the adapters a session.
Login ==
  /\ onFile' = "valid"
  /\ session' = IF session = "none" THEN "valid" ELSE session
  /\ UNCHANGED <<observed, feedUp, morning, monitorVars, news, projectionVars>>

ForgetToken ==
  /\ onFile' = "none"
  /\ UNCHANGED <<session, observed, feedUp, morning, monitorVars, news, projectionVars>>

TokenLapses ==
  /\ \/ onFile' = "lapsed" /\ onFile = "valid" /\ UNCHANGED session
     \/ session' = "lapsed" /\ session = "valid" /\ UNCHANGED onFile
  /\ UNCHANGED <<observed, feedUp, morning, monitorVars, news, projectionVars>>

LinkChanges ==
  /\ observed /\ feedUp' = ~feedUp
  /\ UNCHANGED <<onFile, session, observed, morning, monitorVars, news, projectionVars>>

TimeOfDay ==
  /\ morning' = ~morning
  /\ probedToday' = (probedToday /\ morning)
  /\ UNCHANGED <<onFile, session, observed, feedUp, monitor, news, projectionVars>>

Monitor == CheckHealth \/ Probe \/ ProbeEnds \/ MonitorWakes

SessionNext ==
  \/ Monitor \/ DispatchNews \/ PollLogin
  \/ \E status \in SocketStates : SocketReports(status)
  \/ Login \/ ForgetToken \/ TokenLapses \/ LinkChanges \/ TimeOfDay

\* The event loop runs the monitor and the bus.
SessionFairness == WF_sessionVars(Monitor) /\ WF_sessionVars(DispatchNews)

SessionSpec == SessionInit /\ [][SessionNext]_sessionVars

-----------------------------------------------------------------------------
SessionTypeOK ==
  /\ {onFile, session} \subseteq Tokens
  /\ {observed, feedUp, probedToday, morning} \subseteq BOOLEAN
  /\ monitor \in {"checking", "checked", "probing", "sleeping"}
  /\ news \in Seq(CredentialStates \cup SocketStates)
  /\ credential \in CredentialStates
  /\ connection \in ConnectionStates

\* While the stored token stays expired the browser is told so again and
\* again, although socket events push another state over it.
ExpiryShown == <>[](onFile = "lapsed") => []<>(connection = "EXPIRED")
=============================================================================
