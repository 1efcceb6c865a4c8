------------------------ MODULE ExecutionGateProofs ------------------------
(***************************************************************************)
(* Proofs about the kill switch, the LIVE session and the wire: what arming*)
(* stops, which orders may leave the process, that Execution implements    *)
(* the abstract gate of OrderGate, and that the repeated POSTs of the HTTP *)
(* client never turn one placement into two orders.                        *)
(***************************************************************************)
EXTENDS ExecutionTypeProofs

-----------------------------------------------------------------------------
\* What a step may do to the gate and to the handlers in a placement.

\* Only the switch moves, if anything.
Flips ==
  /\ UNCHANGED <<killEvent, armInFlight, armEntries, counterVars>>
  /\ killFile' \in BOOLEAN
  /\ Active' = Active

Switches == (Arm \/ Disarm) /\ Active' = Active

\* A live order is dispatched, or fails before its POST.
Admits == mode = "LIVE" /\ csrf /\ ~IsArmed

Enters(r) == Admits /\ NoteWireEntry /\ r \notin Active /\ Active' = Active \cup {r}

Passes == Admits /\ NoteWireEntryAndExit /\ Active' = Active

Leaves(r) == NoteWireExit /\ r \in Active /\ Active' = Active \ {r}

Resets == GateRestart /\ Active' = {}

SessionMoves ==
  \/ Flips \/ Switches \/ Passes
  \/ \E r \in Requests : Enters(r) \/ Leaves(r)

\* Every step is of one of these kinds; the mode changes only in a step that
\* leaves the gate alone, or at a restart.
LEMMA StepKinds ==
  ASSUME CountInv, [Next]_vars
  PROVE  \/ SessionMoves /\ UNCHANGED modeVars
         \/ Flips /\ \E m \in Modes : SetMode(m)
         \/ Resets /\ ModeRestart
  <1> DEFINE Goal == \/ SessionMoves /\ UNCHANGED modeVars
                     \/ Flips /\ \E m \in Modes : SetMode(m)
                     \/ Resets /\ ModeRestart
  <1> USE DEF SessionMoves
  <1>w. WireInv /\ killFile \in BOOLEAN
    BY DEF CountInv, TypeOK, WireInv, GateTypeOK
  <1>a. ASSUME UNCHANGED wireVars  PROVE Active' = Active
    BY <1>a DEF wireVars, Active
  <1>b. ASSUME UNCHANGED gateVars, Active' = Active  PROVE Flips
    BY <1>b, <1>w DEF gateVars, armVars, Flips
  <1>1. CASE GateStep
    BY <1>1, <1>a, <1>w
    DEF GateStep, Switches, Flips, OtherProcessTogglesFile
  <1>2. CASE ModeStep
    BY <1>2, <1>a, <1>b DEF ModeStep
  <1>3. CASE QueueStep
    BY <1>3, <1>a, <1>b DEF QueueStep
  <1>4. CASE StrayStep
    BY <1>4, <1>b, <1>w, StrayStays DEF StrayStep
  <1>5. ASSUME NEW p \in Proposals, ApproveRefused(p)  PROVE Goal
    BY <1>5, <1>a, <1>w DEF ApproveRefused, Flips
  <1>6. ASSUME NEW p \in Proposals, ApprovePaper(p)  PROVE Goal
    BY <1>6, <1>a, <1>b DEF ApprovePaper
  <1>7. ASSUME NEW p \in Proposals, ApproveUnsendable(p)  PROVE Goal
    BY <1>7, <1>a DEF ApproveUnsendable, MayApprove, Passes, Admits
  <1>8. ASSUME NEW r \in Requests, NEW p \in Proposals, ApproveLive(r, p)  PROVE Goal
    <2>1. p \in Targets
      BY ExecutionAssumption
    <2>2. Enters(r) /\ UNCHANGED modeVars
      BY <1>8, <2>1, <1>w, DispatchEnters DEF ApproveLive, MayApprove, Enters, Admits
    <2> QED BY <2>2
  <1>9. ASSUME NEW r \in Requests, NEW c \in Closes, CloseLive(r, c)  PROVE Goal
    <2>1. Enters(r) /\ UNCHANGED modeVars
      BY <1>9, <1>w, DispatchEnters DEF CloseLive, MayClose, Closes, Enters, Admits
    <2> QED BY <2>1
  <1>10. CASE CloseUnsendable
    BY <1>10, <1>a DEF CloseUnsendable, MayClose, Passes, Admits
  <1>11. ASSUME NEW r \in Requests, WireStep(r)  PROVE Goal
    BY <1>11, <1>b, <1>w, WireStepStays DEF WireStep
  <1>12. ASSUME NEW r \in Requests, Returns(r), NoteWireExit, UNCHANGED modeVars  PROVE Goal
    <2>1. Leaves(r)
      BY <1>12, <1>w, ReturnLeaves, FinishLeaves DEF Leaves, WireInv
    <2> QED BY <1>12, <2>1
  <1>13. ASSUME NEW r \in Requests, ReturnPlaced(r) \/ ReturnRejected(r) \/ ReturnException(r)
         PROVE  Goal
    BY <1>12, <1>13 DEF ReturnPlaced, ReturnRejected, ReturnException, Returns
  <1>14. CASE Restart
    BY <1>14, <1>w, RestartEmpties DEF Restart, Resets
  <1>15. CASE UNCHANGED vars
    BY <1>15, <1>a, <1>b DEF vars
  <1> QED
    BY <1>1, <1>2, <1>3, <1>4, <1>5, <1>6, <1>7, <1>8, <1>9, <1>10, <1>11, <1>13, <1>14, <1>15
    DEF Next, ApproveStep, Advance

-----------------------------------------------------------------------------
\* The conjunction the three invariants below are proved with.  The token's
\* tie to the LIVE mode is what lets a dispatch conclude that LIVE was typed.
GateInv == NoEntryAfterArm /\ LiveOrdersConfirmed /\ LiveNeverRestored

\* No placement and no token exist initially.
LEMMA GateInvInit == Init => GateInv
  BY DEF Init, GateInit, ModeInit, StartMode, LoadMode, GateInv, NoEntryAfterArm,
         LiveOrdersConfirmed, LiveNeverRestored

\* Every kind of step preserves it.
LEMMA GateInvStep ==
  ASSUME CountInv, GateInv, [Next]_vars
  PROVE  GateInv'
  <1> USE DEF GateInv, NoEntryAfterArm, LiveOrdersConfirmed, LiveNeverRestored
  <1>t. GateTypeOK /\ ModeTypeOK
    BY DEF CountInv, TypeOK
  <1>1. CASE SessionMoves /\ UNCHANGED modeVars
    <2>1. CASE Flips
      BY <1>1, <2>1 DEF Flips, counterVars, modeVars
    <2>2. CASE Switches
      <3>1. NoEntryAfterArm'
        BY <2>2, <1>t DEF Switches, Arm, Disarm, counterVars, GateTypeOK
      <3>2. wireEntries' = wireEntries
        BY <2>2 DEF Switches, Arm, Disarm, counterVars
      <3>3. LiveOrdersConfirmed' /\ LiveNeverRestored'
        BY <1>1, <3>2 DEF modeVars
      <3> QED BY <3>1, <3>3
    <2>3. CASE Passes
      BY <1>1, <2>3 DEF Passes, Admits, IsArmed, NoteWireEntryAndExit, armVars, modeVars
    <2>4. ASSUME NEW r \in Requests, Enters(r)  PROVE GateInv'
      BY <1>1, <2>4 DEF Enters, Admits, IsArmed, NoteWireEntry, armVars, modeVars
    <2>5. ASSUME NEW r \in Requests, Leaves(r)  PROVE GateInv'
      BY <1>1, <2>5, <1>t DEF Leaves, NoteWireExit, armVars, modeVars, GateTypeOK
    <2> QED BY <1>1, <2>1, <2>2, <2>3, <2>4, <2>5 DEF SessionMoves
  <1>2. CASE Flips /\ \E m \in Modes : SetMode(m)
    <2> PICK m \in Modes : SetMode(m)
      BY <1>2
    <2>1. wireEntries' = wireEntries /\ NoEntryAfterArm'
      BY <1>2 DEF Flips, counterVars
    <2>2. CASE m = "LIVE"
      BY <2>1, <2>2 DEF SetMode
    <2>3. CASE m # "LIVE"
      <3>1. mode' # "LIVE" /\ minted' = minted
        BY <2>3 DEF SetMode
      <3>2. ~csrf'
        BY <2>3 DEF SetMode
      <3> QED BY <2>1, <3>1, <3>2
    <2> QED BY <2>2, <2>3
  <1>3. CASE Resets /\ ModeRestart
    BY <1>3, <1>t
    DEF Resets, GateRestart, ModeRestart, StartMode, LoadMode, GateTypeOK
  <1> QED BY <1>1, <1>2, <1>3, StepKinds

\* The three together, in every reachable state.
THEOREM GateTheorem == Spec => []GateInv
  <1>1. CountInv /\ GateInv /\ [Next]_vars => GateInv'
    BY GateInvStep
  <1> QED BY GateInvInit, <1>1, CountTheorem, PTL DEF Spec

\* Once armed, the gate lets no placement in, for every number of handlers:
\* all the placements still out are among those the arm report counted.
THEOREM ArmStopsEntries == Spec => []NoEntryAfterArm
  BY GateTheorem, PTL DEF GateInv

\* No live order leaves a process in which LIVE was not typed, also not one
\* that was started in LIVE mode.
THEOREM OrdersNeedConfirmation == Spec => []LiveOrdersConfirmed
  BY GateTheorem, PTL DEF GateInv

\* LIVE does not come back from the mode file.
THEOREM LiveIsTyped == Spec => []LiveNeverRestored
  BY GateTheorem, PTL DEF GateInv

-----------------------------------------------------------------------------
\* Every initial state is one of the abstract gate.
LEMMA GateRefinesInit == Init => Gate!Init
  BY DEF Init, GateInit, WireInit, Gate!Init, IsArmed, Active

\* Every step is a step of the abstract gate or leaves it alone.
LEMMA GateRefinesStep ==
  ASSUME CountInv, [Next]_vars
  PROVE  [Gate!Next]_(Gate!gvars)
  <1> USE DEF Gate!gvars
  <1>t. GateTypeOK
    BY DEF CountInv, TypeOK
  <1>f. ASSUME Flips  PROVE Gate!Switch
    BY <1>f, <1>t DEF Flips, Gate!Switch, IsArmed, GateTypeOK
  <1>1. CASE SessionMoves /\ UNCHANGED modeVars
    <2>1. CASE Flips
      BY <2>1, <1>f DEF Gate!Next
    <2>2. CASE Arm /\ Active' = Active
      <3>1. Gate!Arm
        BY <2>2 DEF CountInv, InFlightExact, Arm, Gate!Arm, IsArmed
      <3> QED BY <3>1 DEF Gate!Next
    <2>3. CASE Disarm /\ Active' = Active
      <3>1. Gate!Switch
        BY <2>3, <1>t DEF Disarm, Gate!Switch, IsArmed, GateTypeOK
      <3> QED BY <3>1 DEF Gate!Next
    <2>4. CASE Passes
      <3>1. /\ killEvent' = killEvent /\ killFile' = killFile
            /\ armInFlight' = armInFlight /\ Active' = Active
        BY <2>4 DEF Passes, NoteWireEntryAndExit, armVars
      <3>2. IsArmed' = IsArmed
        BY <3>1 DEF IsArmed
      <3>3. UNCHANGED <<IsArmed, Active, armInFlight>>
        BY <3>1, <3>2
      <3> QED BY <3>3
    <2>5. ASSUME NEW r \in Requests, Enters(r)  PROVE Gate!Next
      <3>1. Gate!Enter(r)
        BY <2>5 DEF Enters, Admits, NoteWireEntry, armVars, Gate!Enter, IsArmed
      <3> QED BY <3>1 DEF Gate!Next
    <2>6. ASSUME NEW r \in Requests, Leaves(r)  PROVE Gate!Next
      <3>1. Gate!Leave(r)
        BY <2>6 DEF Leaves, NoteWireExit, armVars, Gate!Leave, IsArmed
      <3> QED BY <3>1 DEF Gate!Next
    <2> QED BY <1>1, <2>1, <2>2, <2>3, <2>4, <2>5, <2>6 DEF SessionMoves, Switches
  <1>2. CASE Flips /\ \E m \in Modes : SetMode(m)
    BY <1>2, <1>f DEF Gate!Next
  <1>3. CASE Resets /\ ModeRestart
    <2>1. Gate!Reset
      BY <1>3, <1>t DEF Resets, GateRestart, Gate!Reset, IsArmed, GateTypeOK
    <2> QED BY <2>1 DEF Gate!Next
  <1> QED BY <1>1, <1>2, <1>3, StepKinds

\* Execution implements OrderGate: placements enter the broker call only past
\* an open gate, and arming reports exactly how many are inside.
THEOREM GateRefinement == Spec => ImplementsGate
  <1>1. CountInv /\ [Next]_vars => [Gate!Next]_(Gate!gvars)
    BY GateRefinesStep
  <1> QED BY GateRefinesInit, <1>1, CountTheorem, PTL DEF Spec, ImplementsGate, Gate!Spec

-----------------------------------------------------------------------------
\* The wire.  The argument keeps a balance per target: every dispatched placement
\* is backed by at most one order the broker has accepted, or one that it may
\* still accept.  A placement may still become an order while it is open, and a
\* POST that lost its caller while it is a stray.

\* The placements of a target are finitely many.
LEMMA OpenFinite ==
  ASSUME NEW t
  PROVE  IsFiniteSet(Open(t)) /\ Cardinality(Open(t)) \in Nat
  BY WireAssumption, FS_Subset, FS_CardinalityType DEF Open

Balance(t) == accepted[t] + strays[t] + Cardinality(Open(t)) <= dispatched[t]

\* Who is open to become an order does not change, and neither do the counts.
LEMMA BalanceKept ==
  ASSUME NEW t \in Targets, Balance(t), Open(t)' = Open(t),
         UNCHANGED <<dispatched, accepted, strays>>
  PROVE  Balance(t)'
  BY DEF Balance

\* A step that closes a placement may count one order or one stray for it.
LEMMA BalanceClosed ==
  ASSUME NEW t \in Targets, NEW r \in Requests, WireTypeOK, WireTypeOK', Balance(t),
         r \in Open(t), Open(t)' = Open(t) \ {r}, UNCHANGED dispatched,
         accepted'[t] + strays'[t] <= accepted[t] + strays[t] + 1
  PROVE  Balance(t)'
  <1>1. Cardinality(Open(t)') = Cardinality(Open(t)) - 1
    BY OpenFinite, FS_RemoveElement
  <1>2. /\ accepted[t] \in Nat /\ strays[t] \in Nat /\ dispatched[t] \in Nat
        /\ accepted'[t] \in Nat /\ strays'[t] \in Nat
    BY DEF WireTypeOK
  <1>3. Cardinality(Open(t)) \in Nat
    BY OpenFinite
  <1> QED BY <1>1, <1>2, <1>3 DEF Balance

-----------------------------------------------------------------------------
\* A dispatch opens one placement and counts it.
LEMMA DispatchBalance ==
  ASSUME NEW t \in Targets, NEW r \in Requests, NEW u \in Targets,
         WireInv, Balance(t), Dispatch(r, u)
  PROVE  Balance(t)'
  <1>1. CASE t # u
    <2>1. Open(t)' = Open(t)
      BY <1>1, WireAssumption DEF Dispatch, GoTo, Open, WireInv, WireTypeOK, WireShape
    <2>2. dispatched'[t] = dispatched[t] /\ UNCHANGED <<accepted, strays>>
      BY <1>1 DEF Dispatch, WireInv, WireTypeOK
    <2> QED BY <2>1, <2>2 DEF Balance
  <1>2. CASE t = u
    <2>1. r \notin Open(t) /\ Open(t)' = Open(t) \cup {r}
      BY <1>2 DEF Dispatch, GoTo, Open, WireInv, WireTypeOK
    <2>2. Cardinality(Open(t)') = Cardinality(Open(t)) + 1
      BY <2>1, OpenFinite, FS_AddElement
    <2>3. dispatched'[t] = dispatched[t] + 1 /\ UNCHANGED <<accepted, strays>>
      BY <1>2 DEF Dispatch, WireInv, WireTypeOK
    <2>4. accepted[t] \in Nat /\ strays[t] \in Nat /\ dispatched[t] \in Nat
      BY DEF WireInv, WireTypeOK
    <2>5. Cardinality(Open(t)) \in Nat
      BY OpenFinite
    <2> QED BY <2>2, <2>3, <2>4, <2>5 DEF Balance
  <1> QED BY <1>1, <1>2

\* The steps between dispatch and return keep the balance: only an accepted
\* or refused POST closes its placement, and a 429 leaves it open.
LEMMA WireStepBalance ==
  ASSUME NEW t \in Targets, NEW r \in Requests, WireInv, Balance(t), WireStep(r)
  PROVE  Balance(t)'
  <1>t. WireTypeOK /\ WireTypeOK'
    BY WireStepStays DEF WireInv
  <1>1. CASE BucketGrants(r) \/ BrokerLimits(r) \/ Retry(r)
    <2>1. Open(t)' = Open(t)
      BY <1>1, <1>t DEF BucketGrants, BrokerLimits, Retry, GoTo, Open, WireTypeOK
    <2>2. UNCHANGED <<dispatched, accepted, strays>>
      BY <1>1 DEF BucketGrants, BrokerLimits, Retry
    <2> QED BY <2>1, <2>2, BalanceKept
  <1>2. CASE BrokerAccepts(r)
    <2>1. CASE target[r] = t
      <3>1. r \in Open(t) /\ Open(t)' = Open(t) \ {r}
        BY <1>2, <2>1, <1>t DEF BrokerAccepts, GoTo, Open, WireTypeOK
      <3>2. accepted'[t] + strays'[t] <= accepted[t] + strays[t] + 1
        BY <1>2, <2>1, <1>t DEF BrokerAccepts, WireTypeOK
      <3> QED BY <1>2, <1>t, <3>1, <3>2, BalanceClosed DEF BrokerAccepts
    <2>2. CASE target[r] # t
      <3>1. Open(t)' = Open(t)
        BY <1>2, <2>2, <1>t DEF BrokerAccepts, GoTo, Open, WireTypeOK
      <3>2. accepted'[t] = accepted[t] /\ UNCHANGED <<dispatched, strays>>
        BY <1>2, <2>2, <1>t DEF BrokerAccepts, WireTypeOK
      <3> QED BY <3>1, <3>2 DEF Balance
    <2> QED BY <2>1, <2>2
  <1>3. CASE BrokerRefuses(r)
    <2>u. UNCHANGED <<dispatched, accepted, strays>>
      BY <1>3 DEF BrokerRefuses
    <2>1. CASE target[r] = t
      <3>1. r \in Open(t) /\ Open(t)' = Open(t) \ {r}
        BY <1>3, <2>1, <1>t DEF BrokerRefuses, GoTo, Open, WireTypeOK
      <3>2. accepted'[t] + strays'[t] <= accepted[t] + strays[t] + 1
        BY <2>u, <1>t DEF WireTypeOK
      <3> QED BY <1>t, <2>u, <3>1, <3>2, BalanceClosed
    <2>2. CASE target[r] # t
      <3>1. Open(t)' = Open(t)
        BY <1>3, <2>2, <1>t DEF BrokerRefuses, GoTo, Open, WireTypeOK
      <3> QED BY <2>u, <3>1, BalanceKept
    <2> QED BY <2>1, <2>2
  <1> QED BY <1>1, <1>2, <1>3 DEF WireStep

\* A late POST becomes an order or is lost.
LEMMA StrayBalance ==
  ASSUME NEW t \in Targets, NEW u \in Targets, WireInv, Balance(t), StrayArrives(u)
  PROVE  Balance(t)'
  <1>1. Open(t)' = Open(t) /\ dispatched' = dispatched
    BY DEF StrayArrives, Open
  <1>2. accepted'[t] + strays'[t] <= accepted[t] + strays[t]
    BY DEF StrayArrives, WireInv, WireTypeOK
  <1>3. /\ accepted[t] \in Nat /\ strays[t] \in Nat /\ dispatched[t] \in Nat
        /\ accepted'[t] \in Nat /\ strays'[t] \in Nat
    BY StrayStays DEF WireInv, WireTypeOK
  <1>4. Cardinality(Open(t)) \in Nat
    BY OpenFinite
  <1> QED BY <1>1, <1>2, <1>3, <1>4 DEF Balance

\* A return closes the placement, and leaves at most one stray behind.
LEMMA ReturnBalance ==
  ASSUME NEW t \in Targets, NEW r \in Requests, WireInv, Balance(t), Returns(r)
  PROVE  Balance(t)'
  <1>t. WireTypeOK /\ WireTypeOK' /\ Finish(r)
    BY ReturnLeaves DEF WireInv
  <1>u. UNCHANGED <<dispatched, accepted>>
    BY DEF Returns, RepliesPlaced, RepliesRejected, TransportFails
  <1>1. CASE r \in Open(t)
    <2>1. Open(t)' = Open(t) \ {r}
      BY <1>t, WireAssumption DEF Finish, Open, WireTypeOK
    <2>2. strays'[t] <= strays[t] + 1
      BY <1>t, <1>1 DEF Returns, RepliesPlaced, RepliesRejected, TransportFails, WireTypeOK
    <2>3. accepted'[t] + strays'[t] <= accepted[t] + strays[t] + 1
      BY <1>t, <1>u, <2>2 DEF WireTypeOK
    <2> QED BY <1>t, <1>u, <1>1, <2>1, <2>3, BalanceClosed
  <1>2. CASE r \notin Open(t)
    <2>1. Open(t)' = Open(t)
      BY <1>2, <1>t, WireAssumption DEF Finish, Open, WireTypeOK
    <2>2. strays'[t] = strays[t]
      BY <1>2, <1>t
      DEF Returns, RepliesPlaced, RepliesRejected, TransportFails, WireTypeOK, Open
    <2> QED BY <1>u, <2>1, <2>2 DEF Balance
  <1> QED BY <1>1, <1>2

\* A crash turns the POSTs that are out into strays.
LEMMA RestartBalance ==
  ASSUME NEW t \in Targets, WireInv, Balance(t), WireRestart
  PROVE  Balance(t)'
  <1> DEFINE P == {r \in Requests : stage[r] = "posted" /\ target[r] = t}
  <1>1. P \in SUBSET Open(t)
    BY DEF Open
  <1>2. Cardinality(P) <= Cardinality(Open(t)) /\ Cardinality(P) \in Nat
    BY <1>1, OpenFinite, FS_Subset, FS_CardinalityType
  <1>3. strays'[t] = strays[t] + Cardinality(P) /\ UNCHANGED <<dispatched, accepted>>
    BY DEF WireRestart
  <1>4. Open(t)' = {}
    BY DEF WireRestart, Open
  <1>5. Cardinality(Open(t)') = 0
    BY <1>4, FS_EmptySet
  <1>6. accepted[t] \in Nat /\ strays[t] \in Nat /\ dispatched[t] \in Nat
    BY DEF WireInv, WireTypeOK
  <1>7. Cardinality(Open(t)) \in Nat
    BY OpenFinite
  <1> QED BY <1>2, <1>3, <1>5, <1>6, <1>7 DEF Balance

-----------------------------------------------------------------------------
\* Nothing is out initially.
LEMMA BalanceInit == Init => OneOrderPerDispatch
  <1> SUFFICES ASSUME Init, NEW t \in Targets PROVE Balance(t)
    BY DEF OneOrderPerDispatch, Balance
  <1>1. Open(t) = {}
    BY DEF Init, WireInit, Open
  <1>2. accepted[t] = 0 /\ strays[t] = 0 /\ dispatched[t] = 0
    BY DEF Init, WireInit
  <1> QED BY <1>1, <1>2, FS_EmptySet DEF Balance

\* Every step keeps the balance of every target.
LEMMA BalanceStep ==
  ASSUME CountInv, OneOrderPerDispatch, [Next]_vars
  PROVE  OneOrderPerDispatch'
  <1> SUFFICES ASSUME NEW t \in Targets PROVE Balance(t)'
    BY DEF OneOrderPerDispatch, Balance
  <1>w. WireInv /\ Balance(t)
    BY DEF CountInv, TypeOK, WireInv, OneOrderPerDispatch, Balance
  <1>a. ASSUME UNCHANGED wireVars  PROVE Balance(t)'
    <2>1. Open(t)' = Open(t) /\ UNCHANGED <<dispatched, accepted, strays>>
      BY <1>a DEF wireVars, Open
    <2> QED BY <2>1, <1>w, BalanceKept
  <1>1. CASE GateStep  BY <1>1, <1>a DEF GateStep
  <1>2. CASE ModeStep  BY <1>2, <1>a DEF ModeStep
  <1>3. CASE QueueStep  BY <1>3, <1>a DEF QueueStep
  <1>4. CASE StrayStep  BY <1>4, <1>w, StrayBalance DEF StrayStep
  <1>5. ASSUME NEW p \in Proposals, ApproveStep(p)  PROVE Balance(t)'
    BY <1>5, <1>a DEF ApproveStep, ApproveRefused, ApprovePaper, ApproveUnsendable
  <1>6. ASSUME NEW r \in Requests, NEW p \in Proposals, ApproveLive(r, p)  PROVE Balance(t)'
    BY <1>6, <1>w, ExecutionAssumption, DispatchBalance DEF ApproveLive
  <1>7. ASSUME NEW r \in Requests, NEW c \in Closes, CloseLive(r, c)  PROVE Balance(t)'
    BY <1>7, <1>w, DispatchBalance DEF CloseLive, Closes
  <1>8. CASE CloseUnsendable  BY <1>8, <1>a DEF CloseUnsendable
  <1>9. ASSUME NEW r \in Requests, WireStep(r)  PROVE Balance(t)'
    BY <1>9, <1>w, WireStepBalance
  <1>10. ASSUME NEW r \in Requests, ReturnPlaced(r) \/ ReturnRejected(r) \/ ReturnException(r)
         PROVE  Balance(t)'
    BY <1>10, <1>w, ReturnBalance DEF ReturnPlaced, ReturnRejected, ReturnException, Returns
  <1>11. CASE Restart  BY <1>11, <1>w, RestartBalance DEF Restart
  <1>12. CASE UNCHANGED vars  BY <1>12, <1>a DEF vars
  <1> QED
    BY <1>1, <1>2, <1>3, <1>4, <1>5, <1>6, <1>7, <1>8, <1>9, <1>10, <1>11, <1>12
    DEF Next, Advance

\* For every number of handlers, targets, retries and restarts, the orders
\* that exist or may still come to exist for a target are at most the
\* placements dispatched for it.
THEOREM NoDuplicateOrders == Spec => []OneOrderPerDispatch
  <1>1. CountInv /\ OneOrderPerDispatch /\ [Next]_vars => OneOrderPerDispatch'
    BY BalanceStep
  <1> QED BY BalanceInit, <1>1, CountTheorem, PTL DEF Spec
=============================================================================
