----------------------------- MODULE OrderWire -----------------------------
(***************************************************************************)
(* Placing one order at the broker: integration/fyers/client.py sends the  *)
(* HTTP request through a token bucket and repeats it when the broker      *)
(* answers 429; integration/fyers/trading_adapter.py turns the outcome     *)
(* into an order result.  A request is one suspended HTTP handler; each    *)
(* step below is one resumption of it, or one step of the broker.          *)
(***************************************************************************)
EXTENDS Integers, FiniteSets

CONSTANTS
  Requests,      \* handler tasks that may be placing a live order
  Targets,       \* what an order may be for
  NoTarget,      \* target of an idle handler
  MaxAttempts    \* max_retries + 1: POSTs one placement may make

ASSUME WireAssumption ==
  /\ IsFiniteSet(Requests)
  /\ NoTarget \notin Targets
  /\ MaxAttempts \in Nat \ {0}

VARIABLES
  stage,      \* [Requests -> where the handler is suspended]
  target,     \* [Requests -> Targets, NoTarget while idle]
  tries,      \* [Requests -> POSTs made for the placement]
  dispatched, \* history: [Targets -> placements ever dispatched]
  accepted,   \* [Targets -> orders the broker has accepted]
  strays      \* [Targets -> POSTs still travelling that nobody waits for]

wireVars == <<stage, target, tries, dispatched, accepted, strays>>

Stages ==
  { "idle",
    "waiting",    \* in the token bucket, before a POST
    "posted",     \* POST sent, outcome open
    "accepted",   \* the broker took the order, reply on its way
    "refused",    \* error reply or rejected order
    "limited" }   \* 429 reply, the coroutine sleeps Retry-After

WireTypeOK ==
  /\ stage \in [Requests -> Stages]
  /\ target \in [Requests -> Targets \cup {NoTarget}]
  /\ tries \in [Requests -> 0 .. MaxAttempts]
  /\ dispatched \in [Targets -> Nat]
  /\ accepted \in [Targets -> Nat]
  /\ strays \in [Targets -> Nat]

WireInit ==
  /\ stage = [r \in Requests |-> "idle"]
  /\ target = [r \in Requests |-> NoTarget]
  /\ tries = [r \in Requests |-> 0]
  /\ dispatched = [t \in Targets |-> 0]
  /\ accepted = [t \in Targets |-> 0]
  /\ strays = [t \in Targets |-> 0]

Active == {r \in Requests : stage[r] # "idle"}

GoTo(r, from, to) == stage[r] = from /\ stage' = [stage EXCEPT ![r] = to]

\* The placement is handed to the HTTP client.
Dispatch(r, t) ==
  /\ GoTo(r, "idle", "waiting")
  /\ target' = [target EXCEPT ![r] = t]
  /\ dispatched' = [dispatched EXCEPT ![t] = @ + 1]
  /\ UNCHANGED <<tries, accepted, strays>>

\* The coroutine ends, with a result or an exception.
Finish(r) ==
  /\ stage' = [stage EXCEPT ![r] = "idle"]
  /\ target' = [target EXCEPT ![r] = NoTarget]
  /\ tries' = [tries EXCEPT ![r] = 0]

\* acquire() returns and the POST goes out, whatever happened meanwhile.
BucketGrants(r) ==
  /\ GoTo(r, "waiting", "posted")
  /\ tries' = [tries EXCEPT ![r] = @ + 1]
  /\ UNCHANGED <<target, dispatched, accepted, strays>>

BrokerAccepts(r) ==
  /\ GoTo(r, "posted", "accepted")
  /\ accepted' = [accepted EXCEPT ![target[r]] = @ + 1]
  /\ UNCHANGED <<target, tries, dispatched, strays>>

BrokerRefuses(r) ==
  /\ GoTo(r, "posted", "refused")
  /\ UNCHANGED <<target, tries, dispatched, accepted, strays>>

BrokerLimits(r) ==
  /\ GoTo(r, "posted", "limited")
  /\ UNCHANGED <<target, tries, dispatched, accepted, strays>>

\* Faulty variants of Retry, for sensitivity checks: without the bound on
\* attempts, with the attempt counter restarted, and repeating a POST that
\* has merely not been answered yet.
RetryUnbounded(r) ==
  /\ GoTo(r, "limited", "waiting")
  /\ UNCHANGED <<target, tries, dispatched, accepted, strays>>

RetryRecounted(r) ==
  /\ GoTo(r, "limited", "waiting")
  /\ tries' = [tries EXCEPT ![r] = 0]
  /\ UNCHANGED <<target, dispatched, accepted, strays>>

RetryUnanswered(r) ==
  /\ tries[r] < MaxAttempts
  /\ GoTo(r, "posted", "waiting")
  /\ strays' = [strays EXCEPT ![target[r]] = @ + 1]
  /\ UNCHANGED <<target, tries, dispatched, accepted>>

\* After the Retry-After sleep: back to the bucket, for the same order.
Retry(r) ==
  /\ tries[r] < MaxAttempts
  /\ GoTo(r, "limited", "waiting")
  /\ UNCHANGED <<target, tries, dispatched, accepted, strays>>

\* A POST nobody waits for reaches the broker late, or never.
StrayArrives(t) ==
  /\ strays[t] > 0
  /\ strays' = [strays EXCEPT ![t] = @ - 1]
  /\ accepted' \in {accepted, [accepted EXCEPT ![t] = @ + 1]}
  /\ UNCHANGED <<stage, target, tries, dispatched>>

\* The reply is an order result that is not rejected.
RepliesPlaced(r) ==
  /\ stage[r] = "accepted"
  /\ Finish(r)
  /\ UNCHANGED <<dispatched, accepted, strays>>

\* The adapter reports a rejected order: the broker refused, the 429s ran
\* out of attempts, or an error page or undecodable body hides an order that
\* the broker did accept.
RepliesRejected(r) ==
  /\ \/ stage[r] \in {"refused", "accepted"}
     \/ stage[r] = "limited" /\ tries[r] = MaxAttempts
  /\ Finish(r)
  /\ UNCHANGED <<dispatched, accepted, strays>>

\* A transport error (timeout, reset connection) is not a FyersError: it
\* escapes the adapter.  A POST without a reply may still arrive.
TransportFails(r) ==
  /\ \/ /\ stage[r] = "posted"
        /\ strays' = [strays EXCEPT ![target[r]] = @ + 1]
     \/ /\ stage[r] \in {"accepted", "refused", "limited"}
        /\ UNCHANGED strays
  /\ Finish(r)
  /\ UNCHANGED <<dispatched, accepted>>

\* The process dies: no reply will be read, POSTs may still arrive.
WireRestart ==
  /\ stage' = [r \in Requests |-> "idle"]
  /\ target' = [r \in Requests |-> NoTarget]
  /\ tries' = [r \in Requests |-> 0]
  /\ strays' = [t \in Targets |->
       strays[t] + Cardinality({r \in Requests : stage[r] = "posted" /\ target[r] = t})]
  /\ UNCHANGED <<dispatched, accepted>>
=============================================================================
