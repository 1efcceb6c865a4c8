---------------------------- MODULE OrderSocket ----------------------------
(***************************************************************************)
(* The order socket (integration/fyers/ws_client.py): one task connects,   *)
(* reads, and connects again after a delay.  The order updates that it     *)
(* reads replace the broker's postbacks.  All of it runs on the event      *)
(* loop; a step below is what happens between two suspensions.             *)
(***************************************************************************)
EXTENDS Naturals

CONSTANTS MaxReconnects  \* _max_reconnect_attempts

ASSUME OrderSocketAssumption == MaxReconnects \in Nat \ {0}

VARIABLES
  doing,        \* where _run_task is suspended, "done" when there is no live task
  orderLink,    \* _ws is set
  orderShown,   \* _connected
  upEvent,      \* _connected_event: there was a connection since connect()
  localClose,   \* _local_close
  reconnects,   \* _reconnect_attempt
  orderFatal,   \* _fatal_error: "none", "token" or "exhausted"
  cancelling,   \* the task is cancelled and has not noticed yet
  closing,      \* a disconnect() waits for the task
  caller,       \* the caller of connect(): "none", "waits", then "up" or "down"
  channels      \* the broker sends order updates on the current connection

orderSocketVars == <<doing, orderLink, orderShown, upEvent, localClose, reconnects, orderFatal,
                     cancelling, closing, caller, channels>>

Doings ==
  { "done",
    "dialing",    \* in the handshake
    "reading",    \* messages come in
    "closed",     \* the connection is gone, _notify_close() is awaited
    "reporting",  \* _notify_error() is awaited, the loop goes on after it
    "failing",    \* _notify_error() is awaited, the loop ends after it
    "resting" }   \* between two connections

OrderSocketInit ==
  /\ doing = "done"
  /\ orderLink = FALSE /\ orderShown = FALSE /\ upEvent = FALSE
  /\ localClose = FALSE
  /\ reconnects = 0 /\ orderFatal = "none"
  /\ cancelling = FALSE /\ closing = FALSE
  /\ caller = "none" /\ channels = FALSE

-----------------------------------------------------------------------------
\* The application.

\* connect() with a live task is content; otherwise it starts one and waits.
OrderConnects ==
  /\ caller # "waits"
  /\ IF doing # "done"
     THEN caller' = "up" /\ UNCHANGED <<doing, upEvent, localClose, reconnects, orderFatal>>
     ELSE /\ doing' = "dialing" /\ caller' = "waits"
          /\ upEvent' = FALSE /\ localClose' = FALSE /\ reconnects' = 0 /\ orderFatal' = "none"
  /\ UNCHANGED <<orderLink, orderShown, cancelling, closing, channels>>

\* Faulty variant: the call returns only when the link is up.
ConnectReturnsUp ==
  /\ caller = "waits" /\ orderLink
  /\ caller' = "up"
  /\ UNCHANGED <<upEvent, doing, orderLink, orderShown, localClose, reconnects, orderFatal, cancelling,
                 closing, channels>>

\* It returns when the first connection is up or the task has ended.
ConnectReturns ==
  /\ caller = "waits"
  /\ upEvent \/ doing = "done"
  /\ caller' = IF orderFatal # "none" THEN "down" ELSE "up"
  /\ UNCHANGED <<upEvent, doing, orderLink, orderShown, localClose, reconnects, orderFatal, cancelling,
                 closing, channels>>

\* Orders and trades are subscribed once, by the caller whose connect() has
\* returned; without a link nothing is sent.
OrderSubscribes ==
  /\ caller = "up"
  /\ channels' = orderLink
  /\ caller' = "none"
  /\ UNCHANGED <<upEvent, doing, orderLink, orderShown, localClose, reconnects, orderFatal, cancelling, closing>>

\* disconnect() closes the socket, whose reader ends, and waits for the task.
OrderDisconnects ==
  /\ ~closing
  /\ localClose' = TRUE
  /\ closing' = (doing # "done")
  /\ doing' = IF doing = "reading" THEN "closed" ELSE doing
  /\ orderShown' = (orderShown /\ doing # "reading")
  /\ UNCHANGED <<upEvent, orderLink, reconnects, orderFatal, cancelling, caller, channels>>

\* After two seconds the task is cancelled; the call returns when it has ended.
DisconnectTimesOut ==
  /\ closing /\ doing # "done"
  /\ cancelling' = TRUE
  /\ UNCHANGED <<doing, orderLink, orderShown, upEvent, localClose, reconnects, orderFatal, closing,
                 caller, channels>>

DisconnectEnds ==
  /\ closing /\ doing = "done"
  /\ closing' = FALSE
  /\ UNCHANGED <<doing, orderLink, orderShown, upEvent, localClose, reconnects, orderFatal, cancelling,
                 caller, channels>>

-----------------------------------------------------------------------------
\* The task.

Now(what) == doing' = what /\ UNCHANGED cancelling

\* The cancellation is noticed where the task is suspended.
TaskCancelled ==
  /\ cancelling
  /\ cancelling' = FALSE
  /\ doing' = "done"
  /\ orderLink' = FALSE /\ orderShown' = FALSE /\ channels' = FALSE
  /\ UNCHANGED <<upEvent, localClose, reconnects, orderFatal, closing, caller>>

HandshakeEnds ==
  /\ doing = "dialing" /\ ~cancelling
  /\ Now("reading")
  /\ orderLink' = TRUE /\ orderShown' = TRUE /\ upEvent' = TRUE /\ channels' = FALSE
  /\ UNCHANGED <<localClose, reconnects, orderFatal, closing, caller>>

\* 403: the token has expired.
HandshakeForbidden ==
  /\ doing = "dialing" /\ ~cancelling
  /\ Now("failing")
  /\ orderFatal' = "token"
  /\ UNCHANGED <<upEvent, orderLink, orderShown, localClose, reconnects, closing, caller, channels>>

HandshakeFails ==
  /\ doing = "dialing" /\ ~cancelling
  /\ Now("reporting")
  /\ UNCHANGED <<upEvent, orderLink, orderShown, localClose, reconnects, orderFatal, closing, caller, channels>>

\* The connection is lost, or a message handler raises.
ConnectionEnds ==
  /\ doing = "reading" /\ ~cancelling
  /\ Now("closed")
  /\ orderShown' = FALSE /\ channels' = FALSE
  /\ UNCHANGED <<upEvent, orderLink, localClose, reconnects, orderFatal, closing, caller>>

\* The handlers are told and the loop decides.  A connection that lasted makes
\* the count start anew.
DecideReconnect(lasted) ==
  /\ doing \in {"closed", "reporting"} /\ ~cancelling
  /\ lasted => doing = "closed"
  /\ orderLink' = FALSE
  /\ LET n == IF lasted THEN 0 ELSE reconnects
     IN IF localClose
        THEN Now("done") /\ reconnects' = n /\ UNCHANGED orderFatal
        ELSE /\ reconnects' = n + 1
             /\ IF n + 1 >= MaxReconnects
                THEN Now("failing") /\ orderFatal' = "exhausted"
                ELSE Now("resting") /\ UNCHANGED orderFatal
  /\ UNCHANGED <<upEvent, orderShown, localClose, closing, caller, channels>>

FailureReported ==
  /\ doing = "failing" /\ ~cancelling
  /\ Now("done")
  /\ UNCHANGED <<upEvent, orderLink, orderShown, localClose, reconnects, orderFatal, closing, caller, channels>>

RestEnds ==
  /\ doing = "resting" /\ ~cancelling
  /\ Now(IF localClose THEN "done" ELSE "dialing")
  /\ UNCHANGED <<upEvent, orderLink, orderShown, localClose, reconnects, orderFatal, closing, caller, channels>>

\* The broker decides when a connection that is being read ends.
OrderTask ==
  \/ TaskCancelled
  \/ HandshakeEnds \/ HandshakeForbidden \/ HandshakeFails
  \/ DecideReconnect(TRUE) \/ DecideReconnect(FALSE)
  \/ FailureReported \/ RestEnds

OrderDisconnectReturns == DisconnectTimesOut \/ DisconnectEnds

OrderSocketNext ==
  \/ OrderTask \/ ConnectReturns \/ OrderDisconnectReturns
  \/ OrderConnects \/ OrderSubscribes \/ OrderDisconnects \/ ConnectionEnds

\* The event loop runs whatever is ready: handshakes end by their own timeouts,
\* delays by their timers.
OrderSocketFairness ==
  /\ WF_orderSocketVars(OrderTask)
  /\ WF_orderSocketVars(ConnectReturns)
  /\ WF_orderSocketVars(OrderDisconnectReturns)

OrderSocketSpec == OrderSocketInit /\ [][OrderSocketNext]_orderSocketVars

-----------------------------------------------------------------------------
OrderSocketTypeOK ==
  /\ doing \in Doings
  /\ {orderLink, orderShown, upEvent, localClose, cancelling, closing, channels} \subseteq BOOLEAN
  /\ reconnects \in 0 .. MaxReconnects
  /\ orderFatal \in {"none", "token", "exhausted"}
  /\ caller \in {"none", "waits", "up", "down"}

\* A caller of connect() is answered, whatever the broker does: with the first
\* connection, after a 403, or when the attempts are exhausted.
ConnectIsAnswered == (caller = "waits") ~> (caller # "waits")
=============================================================================
