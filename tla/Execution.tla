----------------------------- MODULE Execution -----------------------------
(***************************************************************************)
(* Order execution: the endpoints that approve, reject and list proposals  *)
(* and close positions (terminal/api/execution_router.py and               *)
(* execution_orders_router.py), the engine they call                       *)
(* (execution/execution_engine.py) and the router that sends an order to   *)
(* the paper engine or to the broker (execution/mode_router.py), over the  *)
(* kill gate, the mode, the queue and the wire.                            *)
(*                                                                         *)
(* The program is one asyncio process.  A handler runs without yielding up *)
(* to its first await that suspends, which for a live order is inside the  *)
(* HTTP client and for a paper order does not exist.  So an approval is    *)
(* one step up to the dispatch, and one step when the outcome is back.     *)
(***************************************************************************)
EXTENDS KillSwitch, ModeControl, ProposalQueue, OrderWire

CONSTANTS
  MaxEntries,   \* bound: placements dispatched by one process
  MaxRestarts   \* bound: restarts of the process

\* An order is for a proposal or closes a position.
ASSUME ExecutionAssumption ==
  /\ Proposals \subseteq Targets
  /\ MaxEntries \in Nat
  /\ MaxRestarts \in Nat

Closes == Targets \ Proposals

VARIABLES
  paperBook,  \* [Proposals -> orders the paper engine has taken on]; the
              \* book is in memory only
  papered,    \* history: proposals that ever had a paper order
  restarts    \* restarts so far

execVars == <<paperBook, papered, restarts>>
vars == <<gateVars, modeVars, queueVars, wireVars, execVars>>

ExecTypeOK ==
  /\ paperBook \in [Proposals -> Nat]
  /\ papered \subseteq Proposals
  /\ restarts \in Nat

\* The ranges of the variables.
TypeOK == GateTypeOK /\ ModeTypeOK /\ QueueTypeOK /\ WireTypeOK /\ ExecTypeOK

Init ==
  /\ GateInit
  /\ ModeInit
  /\ QueueInit
  /\ WireInit
  /\ paperBook = [p \in Proposals |-> 0]
  /\ papered = {}
  /\ restarts = 0

-----------------------------------------------------------------------------
\* Operator and environment steps that concern one part only.

GateStep ==
  /\ Arm \/ Disarm \/ OtherProcessTogglesFile
  /\ UNCHANGED <<modeVars, queueVars, wireVars, execVars>>

ModeStep ==
  /\ \E m \in Modes : SetMode(m)
  /\ UNCHANGED <<gateVars, queueVars, wireVars, execVars>>

QueueStep ==
  /\ \/ ExpireStale
     \/ \E p \in Proposals :
          SubmitBridged(p) \/ SubmitUnchecked(p) \/ TimeoutPasses(p) \/ Reject(p)
  /\ UNCHANGED <<gateVars, modeVars, wireVars, execVars>>

WireStep(r) ==
  /\ BucketGrants(r) \/ BrokerAccepts(r) \/ BrokerRefuses(r) \/ BrokerLimits(r) \/ Retry(r)
  /\ UNCHANGED <<gateVars, modeVars, queueVars, execVars>>

StrayStep ==
  /\ \E t \in Targets : StrayArrives(t)
  /\ UNCHANGED <<gateVars, modeVars, queueVars, execVars>>

-----------------------------------------------------------------------------
\* Approving a proposal.

\* Faulty variants: without the token, and without the kill gate.
MayApproveUnconfirmed(p) ==
  mode # "OBSERVER" /\ ~IsArmed /\ status[p] = "PENDING"

MayApproveUngated(p) ==
  mode # "OBSERVER" /\ (mode = "LIVE" => csrf) /\ status[p] = "PENDING"

\* What endpoint and engine require before the risk check.  The gate is read
\* again by the router, at its entry and before the dispatch, but nothing
\* suspends in between: only another process can change the answer.
MayApprove(p) ==
  /\ mode # "OBSERVER"
  /\ mode = "LIVE" => csrf
  /\ ~IsArmed
  /\ status[p] = "PENDING"

\* A risk filter objects, the paper engine rejects the order, the adapter is
\* missing or its session invalid, or another process arms the file before
\* the router looks again.  No order is placed.
ApproveRefused(p) ==
  /\ MayApprove(p)
  /\ Record(p, "REJECTED")
  /\ killFile' \in {killFile, TRUE}
  /\ UNCHANGED <<killEvent, armInFlight, armEntries, counterVars,
                 modeVars, wireVars, execVars>>

\* The paper engine fills the order or puts it in its book.
ApprovePaper(p) ==
  /\ MayApprove(p)
  /\ mode = "PAPER"
  /\ Record(p, "APPROVED")
  /\ paperBook' = [paperBook EXCEPT ![p] = @ + 1]
  /\ papered' = papered \cup {p}
  /\ UNCHANGED <<gateVars, modeVars, wireVars, restarts>>

\* The order is dispatched; the proposal stays PENDING until the result.
ApproveLive(r, p) ==
  /\ MayApprove(p)
  /\ mode = "LIVE"
  /\ wireEntries < MaxEntries
  /\ NoteWireEntry
  /\ Dispatch(r, p)
  /\ UNCHANGED <<modeVars, queueVars, execVars>>

\* The payload cannot be built (unknown symbol, no credentials): a rejected
\* result without a POST.
ApproveUnsendable(p) ==
  /\ MayApprove(p)
  /\ mode = "LIVE"
  /\ wireEntries < MaxEntries
  /\ NoteWireEntryAndExit
  /\ Record(p, "REJECTED")
  /\ UNCHANGED <<modeVars, wireVars, execVars>>

-----------------------------------------------------------------------------
\* Closing a position in LIVE mode with a market order.

\* Faulty variant: without the kill gate.
MayCloseUngated == mode = "LIVE" /\ csrf

MayClose == mode = "LIVE" /\ csrf /\ ~IsArmed

CloseLive(r, c) ==
  /\ MayClose
  /\ wireEntries < MaxEntries
  /\ NoteWireEntry
  /\ Dispatch(r, c)
  /\ UNCHANGED <<modeVars, queueVars, execVars>>

CloseUnsendable ==
  /\ MayClose
  /\ wireEntries < MaxEntries
  /\ NoteWireEntryAndExit
  /\ UNCHANGED <<modeVars, queueVars, wireVars, execVars>>

-----------------------------------------------------------------------------
\* The outcome of a live order is back.  The engine does not look at the
\* proposal's status again before it writes the new one.

Decide(t, s) == IF t \in Proposals THEN Record(t, s) ELSE UNCHANGED queueVars

ReturnPlaced(r) ==
  /\ RepliesPlaced(r)
  /\ NoteWireExit
  /\ Decide(target[r], "APPROVED")
  /\ UNCHANGED <<modeVars, execVars>>

\* Faulty variant: the engine does not look at the result's status.
ReturnRejectedUnread(r) ==
  /\ RepliesRejected(r)
  /\ NoteWireExit
  /\ Decide(target[r], "APPROVED")
  /\ UNCHANGED <<modeVars, execVars>>

ReturnRejected(r) ==
  /\ RepliesRejected(r)
  /\ NoteWireExit
  /\ Decide(target[r], "REJECTED")
  /\ UNCHANGED <<modeVars, execVars>>

\* Faulty variants: the exit is not counted, and the proposal is put back in
\* the queue.
ReturnExceptionUncounted(r) ==
  /\ TransportFails(r)
  /\ UNCHANGED <<gateVars, modeVars, queueVars, execVars>>

ReturnExceptionRequeued(r) ==
  /\ TransportFails(r)
  /\ NoteWireExit
  /\ Decide(target[r], "PENDING")
  /\ UNCHANGED <<modeVars, execVars>>

\* The exception passes router and engine: the status stays what it is.
ReturnException(r) ==
  /\ TransportFails(r)
  /\ NoteWireExit
  /\ UNCHANGED <<modeVars, queueVars, execVars>>

-----------------------------------------------------------------------------
\* The process dies and a new one starts.
Restart ==
  /\ restarts < MaxRestarts
  /\ restarts' = restarts + 1
  /\ GateRestart
  /\ ModeRestart
  /\ QueueRestart
  /\ WireRestart
  /\ paperBook' = [p \in Proposals |-> 0]
  /\ UNCHANGED papered

-----------------------------------------------------------------------------
ApproveStep(p) ==
  \/ ApproveRefused(p)
  \/ ApprovePaper(p)
  \/ ApproveUnsendable(p)

\* Everything a dispatched placement does until it has returned.
Advance(r) ==
  \/ WireStep(r)
  \/ ReturnPlaced(r)
  \/ ReturnRejected(r)
  \/ ReturnException(r)

Next ==
  \/ GateStep
  \/ ModeStep
  \/ QueueStep
  \/ StrayStep
  \/ \E p \in Proposals : ApproveStep(p)
  \/ \E r \in Requests, p \in Proposals : ApproveLive(r, p)
  \/ \E r \in Requests, c \in Closes : CloseLive(r, c)
  \/ CloseUnsendable
  \/ \E r \in Requests : Advance(r)
  \/ Restart

Spec == Init /\ [][Next]_vars

\* The event loop runs every task that can run, every POST ends with a reply
\* or with the client's 15 s timeout, and the bucket and Retry-After sleeps
\* are finite.  Nothing is assumed of the operator.
FairSpec == Spec /\ \A r \in Requests : WF_vars(Advance(r))
-----------------------------------------------------------------------------
\* Properties.

\* The gate's counter of placements on the wire is the number of handlers
\* suspended in one, whatever way each placement ends: note_wire_exit runs in
\* a finally.
InFlightExact == inFlight = Cardinality(Active)

\* Once arm() has returned, no further placement is dispatched until the
\* switch is disarmed, and the placements still on the wire are among those
\* the arm report counted.
NoEntryAfterArm == killEvent => wireEntries = armEntries /\ inFlight <= armInFlight

\* No live order leaves a process whose operator has not typed the LIVE
\* confirmation, even if it was started in LIVE mode from the command line,
\* and the token minted then dies with the LIVE session.
LiveOrdersConfirmed ==
  /\ wireEntries > 0 => minted
  /\ csrf => mode = "LIVE" /\ minted

\* LIVE never restores itself: a process is in LIVE mode because somebody
\* typed it in this process or on its command line, not because of the file.
LiveNeverRestored == mode = "LIVE" => csrf \/ "LIVE" \in CommandLineModes

\* The signal bridge never has two proposals of one side and symbol pending,
\* however submissions, decisions and restarts interleave.
BridgeDedup ==
  \A p, q \in Bridged :
    status[p] = "PENDING" /\ status[q] = "PENDING" /\ KeyOf[p] = KeyOf[q] => p = q

\* As long as the database works, every row equals its entry: no handler
\* returns with a status change that a restart would undo.
DurableQueue == DbReliable => status = db

\* A proposal shown as APPROVED has an order behind it.
ApprovedHasOrder ==
  \A p \in Proposals : status[p] = "APPROVED" => p \in papered \/ accepted[p] > 0

\* A process never puts two paper orders for one proposal in the book, even
\* when a live placement of that proposal returns in between.
PaperAtMostOnce == \A p \in Proposals : paperBook[p] <= 1

\* Placements of t that may still become an order.
Open(t) == {r \in Requests : target[r] = t /\ stage[r] \in {"waiting", "posted", "limited"}}

\* The client's repeated POSTs never turn one placement into two orders: the
\* orders accepted and the ones that may still be are at most the placements
\* dispatched.
OneOrderPerDispatch ==
  \A t \in Targets : accepted[t] + strays[t] + Cardinality(Open(t)) <= dispatched[t]

\* A decided proposal never becomes approvable again, also over restarts.
NoResurrection ==
  [][\A p \in Proposals :
       status[p] \in {"APPROVED", "REJECTED", "EXPIRED"} => status'[p] # "PENDING"]_vars

\* Detailed and abstract gate: a task is inside the broker call while its
\* handler is not idle.
Gate == INSTANCE OrderGate WITH
  Callers <- Requests, Size <- Cardinality,
  armed <- IsArmed, inside <- Active, reported <- armInFlight

\* Execution keeps the promise of OrderGate: placements enter the broker call
\* only past an open gate, and arm() reports exactly those inside.
ImplementsGate == Gate!Spec

\* Every dispatched placement comes back to its caller.
PlacementResolves == \A r \in Requests : stage[r] # "idle" ~> stage[r] = "idle"

-----------------------------------------------------------------------------
\* What comments and documents say of the program.

\* mode_router.py: an arm that lands while a placement is suspended cannot
\* slip an order onto the wire.
NoPostWhileArmed == [][\A r \in Requests : tries'[r] > tries[r] => ~IsArmed]_vars

\* ExecutionEngine.reject: no order is placed for a rejected proposal.
RejectedStaysUnplaced ==
  [][\A p \in Proposals : status[p] = "REJECTED" =>
       accepted'[p] = accepted[p] /\ paperBook'[p] <= paperBook[p]]_vars
=============================================================================
