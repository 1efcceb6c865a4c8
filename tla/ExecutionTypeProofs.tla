------------------------ MODULE ExecutionTypeProofs ------------------------
(***************************************************************************)
(* Proofs about the state of Execution that the other proof modules build  *)
(* on: the variables keep their ranges, and the gate's in-flight counter   *)
(* is exact.  Neither is inductive alone: a placement that returns lowers  *)
(* the counter, which stays a natural number only because it counts the    *)
(* handlers that are not idle.                                             *)
(***************************************************************************)
EXTENDS Execution, FiniteSetTheorems, TLAPS

\* The shape of a placement: an idle handler has made no POST and has no
\* target, a busy one has a target, and one on its way to a POST has an
\* attempt left for it.
WireShape ==
  \A r \in Requests :
    /\ stage[r] = "idle" => tries[r] = 0 /\ target[r] = NoTarget
    /\ stage[r] # "idle" => target[r] \in Targets
    /\ stage[r] = "waiting" => tries[r] < MaxAttempts

WireInv == WireTypeOK /\ WireShape

CountInv == TypeOK /\ WireShape /\ InFlightExact

-----------------------------------------------------------------------------
\* The handlers in a placement.

\* There are finitely many of them.
LEMMA ActiveFinite == IsFiniteSet(Active) /\ Cardinality(Active) \in Nat
  BY WireAssumption, FS_Subset, FS_CardinalityType DEF Active

\* A dispatch adds its handler, and only that one.
LEMMA DispatchEnters ==
  ASSUME NEW r \in Requests, NEW t \in Targets, WireInv, Dispatch(r, t)
  PROVE  /\ WireInv'
         /\ r \notin Active
         /\ Active' = Active \cup {r}
         /\ Cardinality(Active') = Cardinality(Active) + 1
  <1>1. WireTypeOK'
    BY DEF WireInv, WireTypeOK, Dispatch, GoTo, Stages
  <1>2. WireShape'
    BY WireAssumption DEF WireInv, WireTypeOK, WireShape, Dispatch, GoTo
  <1>3. r \notin Active /\ Active' = Active \cup {r}
    BY DEF WireInv, WireTypeOK, Dispatch, GoTo, Active
  <1> QED BY <1>1, <1>2, <1>3, ActiveFinite, FS_AddElement DEF WireInv

\* A coroutine that ends removes its handler, and only that one.
LEMMA FinishLeaves ==
  ASSUME NEW r \in Requests, WireTypeOK, stage[r] # "idle", Finish(r)
  PROVE  /\ r \in Active
         /\ Active' = Active \ {r}
         /\ Cardinality(Active') = Cardinality(Active) - 1
         /\ Cardinality(Active) \in Nat \ {0}
  <1>1. r \in Active /\ Active' = Active \ {r}
    BY DEF WireTypeOK, Finish, Active
  <1>2. Cardinality(Active') = Cardinality(Active) - 1
    BY <1>1, ActiveFinite, FS_RemoveElement
  <1>3. Cardinality(Active) # 0
    BY <1>1, ActiveFinite, FS_EmptySet
  <1> QED BY <1>1, <1>2, <1>3, ActiveFinite

\* It also leaves the handler in its idle shape.
LEMMA FinishShape ==
  ASSUME NEW r \in Requests, WireInv, Finish(r)
  PROVE  /\ stage' \in [Requests -> Stages]
         /\ target' \in [Requests -> Targets \cup {NoTarget}]
         /\ tries' \in [Requests -> 0 .. MaxAttempts]
         /\ WireShape'
  <1>1. /\ stage' \in [Requests -> Stages]
        /\ target' \in [Requests -> Targets \cup {NoTarget}]
        /\ tries' \in [Requests -> 0 .. MaxAttempts]
    BY WireAssumption DEF WireInv, WireTypeOK, Finish, Stages
  <1>2. WireShape'
    BY DEF WireInv, WireTypeOK, WireShape, Finish
  <1> QED BY <1>1, <1>2

\* What the wire does between dispatch and return moves nobody in or out.
LEMMA WireStepStays ==
  ASSUME NEW r \in Requests, WireInv, WireStep(r)
  PROVE  WireInv' /\ Active' = Active
  <1> USE WireAssumption DEF WireInv, WireTypeOK, WireShape, GoTo, Stages, Active
  <1>1. CASE BucketGrants(r)  BY <1>1 DEF BucketGrants
  <1>2. CASE BrokerAccepts(r)  BY <1>2 DEF BrokerAccepts
  <1>3. CASE BrokerRefuses(r)  BY <1>3 DEF BrokerRefuses
  <1>4. CASE BrokerLimits(r)  BY <1>4 DEF BrokerLimits
  <1>5. CASE Retry(r)  BY <1>5 DEF Retry
  <1> QED BY <1>1, <1>2, <1>3, <1>4, <1>5 DEF WireStep

\* A late POST changes the broker's books only.
LEMMA StrayStays ==
  ASSUME NEW t \in Targets, WireInv, StrayArrives(t)
  PROVE  WireInv' /\ Active' = Active
  BY DEF WireInv, WireTypeOK, WireShape, StrayArrives, Active

\* A return of any of the three kinds ends exactly one busy coroutine.
Returns(r) == RepliesPlaced(r) \/ RepliesRejected(r) \/ TransportFails(r)

LEMMA ReturnLeaves ==
  ASSUME NEW r \in Requests, WireInv, Returns(r)
  PROVE  stage[r] # "idle" /\ Finish(r) /\ WireInv'
  <1>1. stage[r] # "idle" /\ Finish(r)
    BY DEF Returns, RepliesPlaced, RepliesRejected, TransportFails
  <1>2. dispatched' = dispatched /\ accepted' = accepted
    BY DEF Returns, RepliesPlaced, RepliesRejected, TransportFails
  <1>3. strays' \in [Targets -> Nat]
    BY DEF WireInv, WireTypeOK, Returns, RepliesPlaced, RepliesRejected, TransportFails
  <1> QED BY <1>1, <1>2, <1>3, FinishShape DEF WireInv, WireTypeOK

\* After a restart every handler is idle.
LEMMA RestartEmpties ==
  ASSUME WireInv, WireRestart
  PROVE  WireInv' /\ Active' = {}
  <1>1. \A t \in Targets :
          Cardinality({r \in Requests : stage[r] = "posted" /\ target[r] = t}) \in Nat
    BY WireAssumption, FS_Subset, FS_CardinalityType
  <1>2. WireTypeOK'
    BY <1>1, WireAssumption DEF WireInv, WireTypeOK, WireRestart, Stages
  <1>3. WireShape' /\ Active' = {}
    BY DEF WireShape, WireRestart, Active
  <1> QED BY <1>2, <1>3 DEF WireInv

-----------------------------------------------------------------------------
\* The other parts.

\* Recording a row status keeps the queue's ranges.
LEMMA RecordType ==
  ASSUME NEW p \in Proposals, NEW s \in RowStatuses, QueueTypeOK, Record(p, s)
  PROVE  QueueTypeOK'
  BY DEF QueueTypeOK, Record

\* So does every step of the queue alone.
LEMMA QueueStepType ==
  ASSUME QueueTypeOK, QueueStep
  PROVE  QueueTypeOK'
  <1>1. CASE ExpireStale
    <2>1. PICK W \in SUBSET Stale : db' = ExpiredRows(W)
      BY <1>1 DEF ExpireStale
    <2> QED BY <1>1, <2>1 DEF QueueTypeOK, ExpireStale, ExpiredRows, RowStatuses
  <1>2. ASSUME NEW p \in Proposals, TimeoutPasses(p)  PROVE QueueTypeOK'
    BY <1>2 DEF QueueTypeOK, TimeoutPasses
  <1>3. ASSUME NEW p \in Proposals, SubmitBridged(p) \/ SubmitUnchecked(p) \/ Reject(p)
        PROVE  QueueTypeOK'
    <2>1. \E s \in RowStatuses : Record(p, s)
      BY <1>3 DEF SubmitBridged, SubmitUnchecked, Reject, RowStatuses
    <2> QED BY <2>1, RecordType
  <1> QED BY <1>1, <1>2, <1>3 DEF QueueStep

\* And loading the rows at a restart.
LEMMA QueueRestartType ==
  ASSUME QueueTypeOK, QueueRestart
  PROVE  QueueTypeOK'
  <1>1. PICK W \in SUBSET Stale : db' = ExpiredRows(W)
    BY DEF QueueRestart
  <1>2. db' \in [Proposals -> RowStatuses \cup {"none"}]
    BY <1>1 DEF QueueTypeOK, ExpiredRows, RowStatuses
  <1>3. PICK loaded \in DbOutcomes :
          status' = [p \in Proposals |->
                       IF loaded /\ db'[p] # "none" THEN db'[p]
                       ELSE IF status[p] = "none" THEN "none" ELSE "lost"]
    BY DEF QueueRestart
  <1>4. status' \in [Proposals -> RowStatuses \cup {"none", "lost"}]
    BY <1>2, <1>3
  <1> QED BY <1>2, <1>4 DEF QueueRestart, QueueTypeOK

\* The outcome of a live order is recorded for a proposal and for nothing else.
LEMMA DecideType ==
  ASSUME NEW t, NEW s \in RowStatuses, QueueTypeOK, Decide(t, s)
  PROVE  QueueTypeOK'
  BY RecordType DEF Decide, queueVars, QueueTypeOK

\* Switching and restarting keep the modes within range.
LEMMA ModeType ==
  ASSUME ModeTypeOK, (\E m \in Modes : SetMode(m)) \/ ModeRestart
  PROVE  ModeTypeOK'
  BY DEF ModeTypeOK, SetMode, ModeRestart

-----------------------------------------------------------------------------
\* The gate counts the handlers that enter and leave.

\* A dispatch counts its handler.
LEMMA EntryCounts ==
  ASSUME CountInv, NEW r \in Requests, NEW t \in Targets, NoteWireEntry, Dispatch(r, t)
  PROVE  GateTypeOK' /\ WireInv' /\ InFlightExact'
  BY DispatchEnters, ActiveFinite
     DEF CountInv, TypeOK, GateTypeOK, InFlightExact, NoteWireEntry, armVars, WireInv

\* A return uncounts it, in whichever way it returns.
LEMMA ExitCounts ==
  ASSUME CountInv, NEW r \in Requests, NoteWireExit, Returns(r)
  PROVE  GateTypeOK' /\ WireInv' /\ InFlightExact'
  <1>1. WireInv
    BY DEF CountInv, TypeOK, WireInv
  <1>2. WireInv' /\ Cardinality(Active') = Cardinality(Active) - 1
        /\ Cardinality(Active) \in Nat \ {0}
    BY <1>1, ReturnLeaves, FinishLeaves DEF WireInv
  <1> QED BY <1>2 DEF CountInv, TypeOK, GateTypeOK, InFlightExact, NoteWireExit, armVars

-----------------------------------------------------------------------------
\* The counting invariant holds initially.
LEMMA CountInit == Init => CountInv
  <1> SUFFICES ASSUME Init PROVE CountInv
    OBVIOUS
  <1>1. GateTypeOK /\ ModeTypeOK /\ QueueTypeOK /\ ExecTypeOK
    BY DEF Init, GateInit, ModeInit, QueueInit, GateTypeOK, ModeTypeOK, QueueTypeOK,
           ExecTypeOK, RowStatuses
  <1>2. WireTypeOK /\ WireShape
    BY WireAssumption
       DEF Init, WireInit, WireTypeOK, WireShape, Stages
  <1>3. Active = {}
    BY DEF Init, WireInit, Active
  <1> QED BY <1>1, <1>2, <1>3, FS_EmptySet DEF CountInv, TypeOK, InFlightExact, Init, GateInit

\* Every step preserves it: one case per action of Next.
LEMMA CountStep == CountInv /\ [Next]_vars => CountInv'
  <1> SUFFICES ASSUME CountInv, [Next]_vars PROVE CountInv'
    OBVIOUS
  <1> USE DEF CountInv, TypeOK
  <1>w. WireInv
    BY DEF WireInv
  <1>a. ASSUME UNCHANGED <<modeVars, execVars>>
        PROVE  ModeTypeOK' /\ ExecTypeOK'
    BY <1>a DEF modeVars, ModeTypeOK, execVars, ExecTypeOK
  <1>b. ASSUME UNCHANGED wireVars
        PROVE  WireTypeOK' /\ WireShape' /\ Active' = Active
    BY <1>b DEF wireVars, WireTypeOK, WireShape, Active
  <1>c. ASSUME UNCHANGED queueVars  PROVE QueueTypeOK'
    BY <1>c DEF queueVars, QueueTypeOK
  <1>1. CASE GateStep
    <2>1. GateTypeOK' /\ inFlight' = inFlight
      BY <1>1 DEF GateStep, GateTypeOK, Arm, Disarm, OtherProcessTogglesFile, counterVars
    <2> QED BY <1>1, <2>1, <1>a, <1>b, <1>c DEF GateStep, InFlightExact
  <1>2. CASE ModeStep
    <2>1. GateTypeOK' /\ inFlight' = inFlight
      BY <1>2 DEF ModeStep, gateVars, armVars, counterVars, GateTypeOK
    <2>2. ModeTypeOK' /\ ExecTypeOK'
      BY <1>2, ModeType DEF ModeStep, execVars, ExecTypeOK
    <2> QED BY <1>2, <2>1, <2>2, <1>b, <1>c DEF ModeStep, InFlightExact
  <1>3. CASE QueueStep
    <2>1. GateTypeOK' /\ inFlight' = inFlight
      BY <1>3 DEF QueueStep, gateVars, armVars, counterVars, GateTypeOK
    <2> QED BY <1>3, <2>1, QueueStepType, <1>a, <1>b DEF QueueStep, InFlightExact
  <1>4. CASE StrayStep
    <2>1. GateTypeOK' /\ inFlight' = inFlight
      BY <1>4 DEF StrayStep, gateVars, armVars, counterVars, GateTypeOK
    <2>2. WireInv' /\ Active' = Active
      BY <1>4, <1>w, StrayStays DEF StrayStep
    <2> QED BY <1>4, <2>1, <2>2, <1>a, <1>c DEF StrayStep, InFlightExact, WireInv
  <1>5. ASSUME NEW p \in Proposals, ApproveRefused(p)  PROVE CountInv'
    <2>1. GateTypeOK' /\ inFlight' = inFlight
      BY <1>5 DEF ApproveRefused, counterVars, GateTypeOK
    <2>2. QueueTypeOK'
      BY <1>5, RecordType DEF ApproveRefused, RowStatuses
    <2> QED BY <1>5, <2>1, <2>2, <1>a, <1>b DEF ApproveRefused, InFlightExact
  <1>6. ASSUME NEW p \in Proposals, ApprovePaper(p)  PROVE CountInv'
    <2>1. GateTypeOK' /\ inFlight' = inFlight
      BY <1>6 DEF ApprovePaper, gateVars, armVars, counterVars, GateTypeOK
    <2>2. QueueTypeOK'
      BY <1>6, RecordType DEF ApprovePaper, RowStatuses
    <2>3. ModeTypeOK' /\ ExecTypeOK'
      BY <1>6 DEF ApprovePaper, modeVars, ModeTypeOK, ExecTypeOK
    <2> QED BY <1>6, <2>1, <2>2, <2>3, <1>b DEF ApprovePaper, InFlightExact
  <1>7. ASSUME NEW p \in Proposals, ApproveUnsendable(p)  PROVE CountInv'
    <2>1. GateTypeOK' /\ inFlight' = inFlight
      BY <1>7 DEF ApproveUnsendable, NoteWireEntryAndExit, armVars, GateTypeOK
    <2>2. QueueTypeOK'
      BY <1>7, RecordType DEF ApproveUnsendable, RowStatuses
    <2> QED BY <1>7, <2>1, <2>2, <1>a, <1>b DEF ApproveUnsendable, InFlightExact
  <1>8. ASSUME NEW r \in Requests, NEW p \in Proposals, ApproveLive(r, p)  PROVE CountInv'
    <2>1. p \in Targets
      BY ExecutionAssumption
    <2> QED BY <1>8, <2>1, EntryCounts, <1>a, <1>c DEF ApproveLive, WireInv
  <1>9. ASSUME NEW r \in Requests, NEW c \in Closes, CloseLive(r, c)  PROVE CountInv'
    <2>1. c \in Targets
      BY DEF Closes
    <2> QED BY <1>9, <2>1, EntryCounts, <1>a, <1>c DEF CloseLive, WireInv
  <1>10. CASE CloseUnsendable
    <2>1. GateTypeOK' /\ inFlight' = inFlight
      BY <1>10 DEF CloseUnsendable, NoteWireEntryAndExit, armVars, GateTypeOK
    <2> QED BY <1>10, <2>1, <1>a, <1>b, <1>c DEF CloseUnsendable, InFlightExact
  <1>11. ASSUME NEW r \in Requests, WireStep(r)  PROVE CountInv'
    <2>1. GateTypeOK' /\ inFlight' = inFlight
      BY <1>11 DEF WireStep, gateVars, armVars, counterVars, GateTypeOK
    <2> QED BY <1>11, <2>1, <1>w, WireStepStays, <1>a, <1>c DEF WireStep, InFlightExact, WireInv
  <1>12. ASSUME NEW r \in Requests, ReturnPlaced(r)  PROVE CountInv'
    <2>1. QueueTypeOK'
      BY <1>12, DecideType DEF ReturnPlaced, RowStatuses
    <2> QED BY <1>12, <2>1, ExitCounts, <1>a DEF ReturnPlaced, Returns, WireInv
  <1>13. ASSUME NEW r \in Requests, ReturnRejected(r)  PROVE CountInv'
    <2>1. QueueTypeOK'
      BY <1>13, DecideType DEF ReturnRejected, RowStatuses
    <2> QED BY <1>13, <2>1, ExitCounts, <1>a DEF ReturnRejected, Returns, WireInv
  <1>14. ASSUME NEW r \in Requests, ReturnException(r)  PROVE CountInv'
    BY <1>14, ExitCounts, <1>a, <1>c DEF ReturnException, Returns, WireInv
  <1>15. CASE Restart
    <2>1. GateTypeOK' /\ inFlight' = 0
      BY <1>15 DEF Restart, GateRestart, GateTypeOK
    <2>2. ModeTypeOK' /\ QueueTypeOK'
      BY <1>15, ModeType, QueueRestartType DEF Restart
    <2>3. ExecTypeOK'
      BY <1>15 DEF Restart, ExecTypeOK
    <2>4. WireInv' /\ Active' = {}
      BY <1>15, <1>w, RestartEmpties DEF Restart
    <2> QED BY <2>1, <2>2, <2>3, <2>4, FS_EmptySet DEF InFlightExact, WireInv
  <1>16. CASE UNCHANGED vars
    <2>1. GateTypeOK' /\ inFlight' = inFlight
      BY <1>16 DEF vars, gateVars, armVars, counterVars, GateTypeOK
    <2> QED BY <1>16, <2>1, <1>a, <1>b, <1>c DEF vars, InFlightExact
  <1> QED
    BY <1>1, <1>2, <1>3, <1>4, <1>5, <1>6, <1>7, <1>8, <1>9, <1>10, <1>11, <1>12, <1>13,
       <1>14, <1>15, <1>16
    DEF Next, ApproveStep, Advance

\* In every reachable state the placements have their shape, and the two
\* theorems below hold.
THEOREM CountTheorem == Spec => []CountInv
  BY CountInit, CountStep, PTL DEF Spec

\* Every variable keeps its range, in particular the gate's counter of
\* placements on the wire never drops below zero.
THEOREM TypeCorrect == Spec => []TypeOK
  BY CountTheorem, PTL DEF CountInv

\* The gate's counter of placements on the wire is the number of handlers in
\* a placement, for every number of handlers and every way a placement ends.
THEOREM InFlightIsExact == Spec => []InFlightExact
  BY CountTheorem, PTL DEF CountInv
=============================================================================
