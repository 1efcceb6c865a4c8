------------------------ MODULE ExecutionQueueProofs -----------------------
(***************************************************************************)
(* Proofs about the proposal queue: what a status says of the orders       *)
(* behind it, and, under the assumption that the database works, that the  *)
(* queue is durable, that decisions survive restarts, and that the signal  *)
(* bridge does not duplicate pending proposals.                            *)
(***************************************************************************)
EXTENDS ExecutionTypeProofs

-----------------------------------------------------------------------------
\* Orders at the broker.

\* The reply that the engine will read as placed belongs to an order.
ReplyHasOrder ==
  \A r \in Requests : stage[r] = "accepted" => accepted[target[r]] > 0

\* Orders never disappear from the broker's books.
AcceptedGrows == \A t \in Targets : accepted'[t] >= accepted[t]

\* Every step keeps both.
LEMMA AcceptedStep ==
  ASSUME CountInv, ReplyHasOrder, [Next]_vars
  PROVE  AcceptedGrows /\ ReplyHasOrder'
  <1> USE DEF AcceptedGrows, ReplyHasOrder
  <1>w. WireTypeOK /\ WireShape /\ WireInv
    BY DEF CountInv, TypeOK, WireInv
  <1>a. ASSUME UNCHANGED wireVars  PROVE AcceptedGrows /\ ReplyHasOrder'
    BY <1>a, <1>w DEF wireVars, WireTypeOK
  <1>1. CASE GateStep  BY <1>1, <1>a DEF GateStep
  <1>2. CASE ModeStep  BY <1>2, <1>a DEF ModeStep
  <1>3. CASE QueueStep  BY <1>3, <1>a DEF QueueStep
  <1>4. CASE StrayStep
    <2> PICK t \in Targets : StrayArrives(t)
      BY <1>4 DEF StrayStep
    <2>1. AcceptedGrows
      BY <1>w DEF StrayArrives, WireTypeOK
    <2>2. stage' = stage /\ target' = target
      BY DEF StrayArrives
    <2>3. \A r \in Requests : stage[r] = "accepted" => target[r] \in Targets
      BY <1>w DEF WireShape
    <2>4. WireTypeOK'
      BY <1>w, StrayStays DEF WireInv
    <2> QED BY <1>w, <2>1, <2>2, <2>3, <2>4 DEF WireTypeOK
  <1>5. ASSUME NEW p \in Proposals, ApproveStep(p)  PROVE AcceptedGrows /\ ReplyHasOrder'
    BY <1>5, <1>a DEF ApproveStep, ApproveRefused, ApprovePaper, ApproveUnsendable
  <1>6. ASSUME NEW r \in Requests, NEW t \in Targets, Dispatch(r, t)
        PROVE  AcceptedGrows /\ ReplyHasOrder'
    BY <1>6, <1>w DEF Dispatch, GoTo, WireTypeOK
  <1>7. ASSUME NEW r \in Requests, NEW p \in Proposals, ApproveLive(r, p)
        PROVE  AcceptedGrows /\ ReplyHasOrder'
    BY <1>6, <1>7, ExecutionAssumption DEF ApproveLive
  <1>8. ASSUME NEW r \in Requests, NEW c \in Closes, CloseLive(r, c)
        PROVE  AcceptedGrows /\ ReplyHasOrder'
    BY <1>6, <1>8 DEF CloseLive, Closes
  <1>9. CASE CloseUnsendable  BY <1>9, <1>a DEF CloseUnsendable
  <1>10. ASSUME NEW r \in Requests, WireStep(r)  PROVE AcceptedGrows /\ ReplyHasOrder'
    <2>1. CASE BrokerAccepts(r)
      BY <2>1, <1>w DEF BrokerAccepts, GoTo, WireTypeOK, WireShape
    <2>2. CASE BucketGrants(r) \/ BrokerRefuses(r) \/ BrokerLimits(r) \/ Retry(r)
      BY <2>2, <1>w DEF BucketGrants, BrokerRefuses, BrokerLimits, Retry, GoTo, WireTypeOK
    <2> QED BY <1>10, <2>1, <2>2 DEF WireStep
  <1>11. ASSUME NEW r \in Requests, Returns(r)  PROVE AcceptedGrows /\ ReplyHasOrder'
    <2>1. accepted' = accepted
      BY <1>11 DEF Returns, RepliesPlaced, RepliesRejected, TransportFails
    <2>2. Finish(r)
      BY <1>11, <1>w, ReturnLeaves
    <2> QED BY <1>w, <2>1, <2>2 DEF Finish, WireTypeOK
  <1>12. ASSUME NEW r \in Requests, ReturnPlaced(r) \/ ReturnRejected(r) \/ ReturnException(r)
         PROVE  AcceptedGrows /\ ReplyHasOrder'
    BY <1>11, <1>12 DEF ReturnPlaced, ReturnRejected, ReturnException, Returns
  <1>13. CASE Restart
    BY <1>13, <1>w DEF Restart, WireRestart, WireTypeOK
  <1>14. CASE UNCHANGED vars  BY <1>14, <1>a DEF vars
  <1> QED
    BY <1>1, <1>2, <1>3, <1>4, <1>5, <1>7, <1>8, <1>9, <1>10, <1>12, <1>13, <1>14
    DEF Next, Advance

-----------------------------------------------------------------------------
\* What a step may do to the queue.

Settles(p) == Record(p, "REJECTED") \/ (Record(p, "APPROVED") /\ accepted[p] > 0)

QueueMoves ==
  \/ UNCHANGED queueVars
  \/ ExpireStale
  \/ \E p \in Proposals :
       TimeoutPasses(p) \/ SubmitBridged(p) \/ SubmitUnchecked(p) \/ Settles(p)

\* Apart from approvals on paper and restarts, steps leave the paper engine
\* alone and change the queue in one of these ways.
LEMMA QueueKinds ==
  ASSUME CountInv, ReplyHasOrder, [Next]_vars
  PROVE  \/ QueueMoves /\ UNCHANGED <<paperBook, papered>>
         \/ \E p \in Proposals : ApprovePaper(p)
         \/ Restart
  <1> DEFINE Goal == \/ QueueMoves /\ UNCHANGED <<paperBook, papered>>
                     \/ \E p \in Proposals : ApprovePaper(p)
                     \/ Restart
  <1> USE DEF QueueMoves, execVars
  <1>1. CASE GateStep  BY <1>1 DEF GateStep
  <1>2. CASE ModeStep  BY <1>2 DEF ModeStep
  <1>3. CASE QueueStep  BY <1>3 DEF QueueStep, Reject, Settles
  <1>4. CASE StrayStep  BY <1>4 DEF StrayStep
  <1>5. ASSUME NEW p \in Proposals, ApproveStep(p)  PROVE Goal
    BY <1>5 DEF ApproveStep, ApproveRefused, ApproveUnsendable, Settles
  <1>6. ASSUME NEW r \in Requests, NEW p \in Proposals, ApproveLive(r, p)  PROVE Goal
    BY <1>6 DEF ApproveLive
  <1>7. ASSUME NEW r \in Requests, NEW c \in Closes, CloseLive(r, c)  PROVE Goal
    BY <1>7 DEF CloseLive
  <1>8. CASE CloseUnsendable  BY <1>8 DEF CloseUnsendable
  <1>9. ASSUME NEW r \in Requests, WireStep(r)  PROVE Goal
    BY <1>9 DEF WireStep
  <1>10. ASSUME NEW r \in Requests, ReturnPlaced(r)  PROVE Goal
    BY <1>10 DEF ReturnPlaced, RepliesPlaced, ReplyHasOrder, Decide, Settles
  <1>11. ASSUME NEW r \in Requests, ReturnRejected(r)  PROVE Goal
    BY <1>11 DEF ReturnRejected, Decide, Settles
  <1>12. ASSUME NEW r \in Requests, ReturnException(r)  PROVE Goal
    BY <1>12 DEF ReturnException
  <1>13. CASE UNCHANGED vars  BY <1>13 DEF vars
  <1> QED
    BY <1>1, <1>2, <1>3, <1>4, <1>5, <1>6, <1>7, <1>8, <1>9, <1>10, <1>11, <1>12, <1>13
    DEF Next, Advance

-----------------------------------------------------------------------------
\* An approval has an order, in memory and in the row it is restored from.
Backed(p) == p \in papered \/ accepted[p] > 0

OrderInv ==
  /\ ReplyHasOrder
  /\ \A p \in Proposals : (status[p] = "APPROVED" \/ db[p] = "APPROVED") => Backed(p)

\* There is nothing in the queue initially.
LEMMA OrderInit == Init => OrderInv
  BY DEF Init, QueueInit, WireInit, OrderInv, ReplyHasOrder

\* What is backed stays so, and only what is backed gets approved.
LEMMA OrderStep ==
  ASSUME CountInv, OrderInv, [Next]_vars
  PROVE  OrderInv'
  <1>t. QueueTypeOK /\ QueueTypeOK' /\ WireTypeOK /\ WireTypeOK' /\ ExecTypeOK
    BY CountStep DEF CountInv, TypeOK
  <1>g. AcceptedGrows /\ ReplyHasOrder /\ ReplyHasOrder'
    BY AcceptedStep DEF OrderInv
  <1>b. ASSUME NEW p \in Proposals, Backed(p), papered \subseteq papered'  PROVE Backed(p)'
    <2>1. accepted[p] \in Nat /\ accepted'[p] \in Nat /\ accepted'[p] >= accepted[p]
      BY <1>t, <1>g, ExecutionAssumption DEF WireTypeOK, AcceptedGrows
    <2> QED BY <1>b, <2>1 DEF Backed
  <1>s. SUFFICES ASSUME NEW p \in Proposals, (status[p] = "APPROVED" \/ db[p] = "APPROVED")'
                 PROVE  Backed(p)'
    BY <1>g DEF OrderInv
  <1>1. CASE QueueMoves /\ UNCHANGED <<paperBook, papered>>
    <2>1. CASE status[p] = "APPROVED" \/ db[p] = "APPROVED"
      BY <1>1, <2>1, <1>b DEF OrderInv
    <2>2. CASE ~(status[p] = "APPROVED" \/ db[p] = "APPROVED")
      <3>1. ~(UNCHANGED queueVars)
        BY <1>s, <2>2 DEF queueVars
      <3>2. ~ExpireStale
        BY <1>s, <2>2, <1>t DEF ExpireStale, ExpiredRows, QueueTypeOK
      <3>3. ASSUME NEW q \in Proposals, TimeoutPasses(q)  PROVE FALSE
        BY <1>s, <2>2, <3>3 DEF TimeoutPasses
      <3>4. ASSUME NEW q \in Proposals, NEW s, s # "APPROVED", Record(q, s)  PROVE FALSE
        BY <1>s, <2>2, <3>4, <1>t DEF Record, QueueTypeOK
      <3>5. ASSUME NEW q \in Proposals, SubmitBridged(q) \/ SubmitUnchecked(q)  PROVE FALSE
        BY <3>4, <3>5 DEF SubmitBridged, SubmitUnchecked
      <3>6. ASSUME NEW q \in Proposals, Record(q, "APPROVED"), accepted[q] > 0  PROVE Backed(p)'
        <4>1. p = q
          BY <1>s, <2>2, <3>6, <1>t DEF Record, QueueTypeOK
        <4> QED BY <1>1, <3>6, <4>1, <1>b DEF Backed
      <3> QED BY <1>1, <3>1, <3>2, <3>3, <3>4, <3>5, <3>6 DEF QueueMoves, Settles
    <2> QED BY <2>1, <2>2
  <1>2. ASSUME NEW q \in Proposals, ApprovePaper(q)  PROVE Backed(p)'
    <2>1. papered' = papered \cup {q} /\ Record(q, "APPROVED")
      BY <1>2 DEF ApprovePaper
    <2>2. CASE p = q
      BY <2>1, <2>2 DEF Backed
    <2>3. CASE p # q
      <3>1. status[p] = "APPROVED" \/ db[p] = "APPROVED"
        BY <1>s, <2>1, <2>3, <1>t DEF Record, QueueTypeOK
      <3> QED BY <2>1, <3>1, <1>b DEF OrderInv
    <2> QED BY <2>2, <2>3
  <1>3. CASE Restart
    <2>1. db'[p] = "APPROVED"
      BY <1>s, <1>3 DEF Restart, QueueRestart
    <2>2. db[p] = "APPROVED"
      BY <1>3, <2>1 DEF Restart, QueueRestart, ExpiredRows
    <2> QED BY <1>3, <2>2, <1>b DEF OrderInv, Restart
  <1> QED BY <1>1, <1>2, <1>3, <1>g, QueueKinds

\* A proposal shown as APPROVED has an order behind it, on paper or at the
\* broker, also when database writes fail and after restarts.
THEOREM ApprovalsHaveOrders == Spec => []ApprovedHasOrder
  <1>1. CountInv /\ OrderInv /\ [Next]_vars => OrderInv'
    BY OrderStep
  <1>2. OrderInv => ApprovedHasOrder
    BY DEF OrderInv, ApprovedHasOrder, Backed
  <1> QED BY OrderInit, <1>1, <1>2, CountTheorem, PTL DEF Spec
-----------------------------------------------------------------------------
\* Decided proposals are the only ones with a paper order in the book.
Decided == {"APPROVED", "REJECTED", "EXPIRED"}

PaperInv == \A p \in Proposals : paperBook[p] > 0 => paperBook[p] = 1 /\ status[p] \in Decided

\* Nothing but a submission and a restart takes a proposal to PENDING, and a
\* decided proposal is not submitted again.
LEMMA DecidedStays ==
  ASSUME QueueTypeOK, NEW p \in Proposals, status[p] \in Decided, QueueMoves
  PROVE  status'[p] \in Decided
  <1> USE DEF Decided, QueueTypeOK
  <1>1. CASE UNCHANGED queueVars  BY <1>1 DEF queueVars
  <1>2. CASE ExpireStale  BY <1>2 DEF ExpireStale
  <1>3. ASSUME NEW q \in Proposals, TimeoutPasses(q)  PROVE status'[p] \in Decided
    BY <1>3 DEF TimeoutPasses
  <1>4. ASSUME NEW q \in Proposals, SubmitBridged(q) \/ SubmitUnchecked(q)
        PROVE  status'[p] \in Decided
    BY <1>4 DEF SubmitBridged, SubmitUnchecked, Record
  <1>5. ASSUME NEW q \in Proposals, Settles(q)  PROVE status'[p] \in Decided
    BY <1>5 DEF Settles, Record
  <1> QED BY <1>1, <1>2, <1>3, <1>4, <1>5 DEF QueueMoves

\* Every step preserves it: an approval on paper needs a PENDING proposal,
\* whose count is therefore still zero.
LEMMA PaperStep ==
  ASSUME CountInv, ReplyHasOrder, PaperInv, [Next]_vars
  PROVE  PaperInv'
  <1>t. QueueTypeOK /\ ExecTypeOK
    BY DEF CountInv, TypeOK
  <1> SUFFICES ASSUME NEW p \in Proposals, paperBook'[p] > 0
               PROVE  paperBook'[p] = 1 /\ status'[p] \in Decided
    BY DEF PaperInv
  <1>1. CASE QueueMoves /\ UNCHANGED <<paperBook, papered>>
    BY <1>1, <1>t, DecidedStays DEF PaperInv
  <1>2. ASSUME NEW q \in Proposals, ApprovePaper(q)
        PROVE  paperBook'[p] = 1 /\ status'[p] \in Decided
    <2>1. status[q] = "PENDING" /\ Record(q, "APPROVED")
          /\ paperBook' = [paperBook EXCEPT ![q] = @ + 1]
      BY <1>2 DEF ApprovePaper, MayApprove
    <2>2. CASE p = q
      <3>1. paperBook[p] = 0
        BY <2>1, <2>2, <1>t DEF PaperInv, Decided, ExecTypeOK
      <3> QED BY <2>1, <2>2, <3>1, <1>t DEF Record, QueueTypeOK, ExecTypeOK, Decided
    <2>3. CASE p # q
      BY <2>1, <2>3, <1>t DEF PaperInv, Record, QueueTypeOK, ExecTypeOK
    <2> QED BY <2>2, <2>3
  <1>3. CASE Restart
    BY <1>3 DEF Restart
  <1> QED BY <1>1, <1>2, <1>3, QueueKinds

\* A process never books two paper orders for one proposal, for every number
\* of proposals and handlers, working database or not.
THEOREM PaperOrdersOnce == Spec => []PaperAtMostOnce
  <1>1. Init => PaperInv
    BY DEF Init, PaperInv
  <1>2. Init => OrderInv
    BY OrderInit
  <1>3. CountInv /\ OrderInv /\ PaperInv /\ [Next]_vars => OrderInv' /\ PaperInv'
    BY OrderStep, PaperStep DEF OrderInv
  <1>4. CountInv /\ PaperInv => PaperAtMostOnce
    BY DEF PaperInv, PaperAtMostOnce, CountInv, TypeOK, ExecTypeOK
  <1> QED BY <1>1, <1>2, <1>3, <1>4, CountTheorem, PTL DEF Spec

-----------------------------------------------------------------------------
\* A working database.

\* Rows follow entries, so what a restart loads is what was there.
LEMMA DurableStep ==
  ASSUME CountInv, ReplyHasOrder, DbReliable, status = db, [Next]_vars
  PROVE  status' = db'
  <1>t. QueueTypeOK
    BY DEF CountInv, TypeOK
  <1>r. ASSUME NEW p \in Proposals, NEW s, Record(p, s)  PROVE status' = db'
    BY <1>r DEF Record, DbOutcomes
  <1>1. CASE QueueMoves
    <2>1. CASE UNCHANGED queueVars  BY <2>1 DEF queueVars
    <2>2. CASE ExpireStale  BY <2>2, <1>t DEF ExpireStale, ExpiredRows, QueueTypeOK
    <2>3. ASSUME NEW p \in Proposals, TimeoutPasses(p)  PROVE status' = db'
      BY <2>3 DEF TimeoutPasses
    <2>4. ASSUME NEW p \in Proposals, SubmitBridged(p) \/ SubmitUnchecked(p) \/ Settles(p)
          PROVE  status' = db'
      BY <2>4, <1>r DEF SubmitBridged, SubmitUnchecked, Settles
    <2> QED BY <1>1, <2>1, <2>2, <2>3, <2>4 DEF QueueMoves
  <1>2. ASSUME NEW p \in Proposals, ApprovePaper(p)  PROVE status' = db'
    BY <1>2, <1>r DEF ApprovePaper
  <1>3. CASE Restart
    <2>1. PICK W \in SUBSET Stale : db' = ExpiredRows(W)
      BY <1>3 DEF Restart, QueueRestart
    <2>2. status' = [p \in Proposals |->
                       IF db'[p] # "none" THEN db'[p]
                       ELSE IF status[p] = "none" THEN "none" ELSE "lost"]
      BY <1>3 DEF Restart, QueueRestart, DbOutcomes
    <2>3. \A p \in Proposals : db'[p] = "none" => status[p] = "none"
      BY <2>1 DEF ExpiredRows
    <2> QED BY <2>1, <2>2, <2>3 DEF ExpiredRows
  <1> QED BY <1>1, <1>2, <1>3, QueueKinds

\* With a working database memory and rows agree in every reachable state.
THEOREM QueueIsDurable == Spec => []DurableQueue
  <1>1. Init => DurableQueue
    BY DEF Init, QueueInit, DurableQueue
  <1>2. CountInv /\ OrderInv /\ DurableQueue /\ [Next]_vars => DurableQueue'
    BY DurableStep DEF DurableQueue, OrderInv
  <1>3. CountInv /\ OrderInv /\ [Next]_vars => OrderInv'
    BY OrderStep
  <1> QED BY OrderInit, <1>1, <1>2, <1>3, CountTheorem, PTL DEF Spec

\* With a working database no step makes a decided proposal approvable again.
LEMMA DecidedForGood ==
  ASSUME CountInv, ReplyHasOrder, DbReliable, status = db, [Next]_vars,
         NEW p \in Proposals, status[p] \in Decided
  PROVE  status'[p] # "PENDING"
  <1>t. QueueTypeOK
    BY DEF CountInv, TypeOK
  <1>1. CASE QueueMoves
    BY <1>1, <1>t, DecidedStays DEF Decided
  <1>2. ASSUME NEW q \in Proposals, ApprovePaper(q)  PROVE status'[p] # "PENDING"
    BY <1>2, <1>t DEF ApprovePaper, Record, QueueTypeOK, Decided
  <1>3. CASE Restart
    <2>1. db'[p] \in Decided
      BY <1>3 DEF Restart, QueueRestart, ExpiredRows, Decided
    <2>2. status'[p] \in {db'[p], "none", "lost"}
      BY <1>3 DEF Restart, QueueRestart
    <2> QED BY <2>1, <2>2 DEF Decided
  <1> QED BY <1>1, <1>2, <1>3, QueueKinds

\* Decisions survive restarts, for every number of proposals and restarts, if
\* the database works.
THEOREM DecisionsSurvive == ASSUME DbReliable PROVE Spec => NoResurrection
  <1> DEFINE Stay == \A p \in Proposals :
               status[p] \in {"APPROVED", "REJECTED", "EXPIRED"} => status'[p] # "PENDING"
  <1>1. CountInv /\ OrderInv /\ DurableQueue /\ [Next]_vars => [Stay]_vars
    BY DecidedForGood DEF DurableQueue, OrderInv, Decided
  <1>2. Spec => []OrderInv
    <2>1. CountInv /\ OrderInv /\ [Next]_vars => OrderInv'
      BY OrderStep
    <2> QED BY OrderInit, <2>1, CountTheorem, PTL DEF Spec
  <1> QED BY <1>1, <1>2, CountTheorem, QueueIsDurable, PTL DEF Spec, NoResurrection

-----------------------------------------------------------------------------
\* Two bridged proposals of one key are never pending together.

\* A step that leaves no proposal PENDING which was not keeps it.
LEMMA DedupKept ==
  ASSUME BridgeDedup, QueueAssumption,
         \A p \in Proposals : status'[p] = "PENDING" => status[p] = "PENDING"
  PROVE  BridgeDedup'
  BY DEF BridgeDedup, QueueAssumption

\* Every step keeps it: the bridge looks at the whole queue, and a restart
\* brings nothing back.
LEMMA DedupStep ==
  ASSUME CountInv, ReplyHasOrder, DbReliable, status = db, BridgeDedup, [Next]_vars
  PROVE  BridgeDedup'
  <1>t. QueueTypeOK
    BY DEF CountInv, TypeOK
  <1>r. ASSUME NEW q \in Proposals, NEW s, s # "PENDING", Record(q, s)  PROVE BridgeDedup'
    <2>1. \A p \in Proposals : status'[p] = "PENDING" => status[p] = "PENDING"
      BY <1>r, <1>t DEF Record, QueueTypeOK
    <2> QED BY <2>1, DedupKept, QueueAssumption
  <1>1. CASE QueueMoves
    <2>1. CASE UNCHANGED queueVars
      BY <2>1, DedupKept, QueueAssumption DEF queueVars
    <2>2. CASE ExpireStale
      <3>1. \A p \in Proposals : status'[p] = "PENDING" => status[p] = "PENDING"
        BY <2>2 DEF ExpireStale
      <3> QED BY <3>1, DedupKept, QueueAssumption
    <2>3. ASSUME NEW q \in Proposals, TimeoutPasses(q)  PROVE BridgeDedup'
      BY <2>3, DedupKept, QueueAssumption DEF TimeoutPasses
    <2>4. ASSUME NEW q \in Proposals, SubmitBridged(q)  PROVE BridgeDedup'
      <3>1. \A p \in Proposals : status'[p] = "PENDING" => p = q \/ status[p] = "PENDING"
        BY <2>4, <1>t DEF SubmitBridged, Record, QueueTypeOK
      <3>2. \A p \in Proposals : status[p] = "PENDING" => KeyOf[p] # KeyOf[q]
        BY <2>4 DEF SubmitBridged, HasPending
      <3> QED BY <3>1, <3>2, QueueAssumption DEF BridgeDedup, QueueAssumption
    <2>5. ASSUME NEW q \in Proposals, SubmitUnchecked(q)  PROVE BridgeDedup'
      <3>1. \A p \in Bridged : status'[p] = "PENDING" => status[p] = "PENDING"
        BY <2>5, <1>t, QueueAssumption DEF SubmitUnchecked, Record, QueueTypeOK
      <3> QED BY <3>1 DEF BridgeDedup
    <2>6. ASSUME NEW q \in Proposals, Settles(q)  PROVE BridgeDedup'
      BY <2>6, <1>r DEF Settles
    <2> QED BY <1>1, <2>1, <2>2, <2>3, <2>4, <2>5, <2>6 DEF QueueMoves
  <1>2. ASSUME NEW q \in Proposals, ApprovePaper(q)  PROVE BridgeDedup'
    BY <1>2, <1>r DEF ApprovePaper
  <1>3. CASE Restart
    <2>1. \A p \in Proposals : db'[p] = "PENDING" => db[p] = "PENDING"
      BY <1>3 DEF Restart, QueueRestart, ExpiredRows
    <2>2. \A p \in Proposals : status'[p] = "PENDING" => db'[p] = "PENDING"
      BY <1>3 DEF Restart, QueueRestart
    <2> QED BY <2>1, <2>2, DedupKept, QueueAssumption
  <1> QED BY <1>1, <1>2, <1>3, QueueKinds

\* However many signals arrive, and across restarts, the signal bridge never
\* has two proposals of one side and symbol pending, if the database works.
THEOREM BridgeNeverDoubles == ASSUME DbReliable PROVE Spec => []BridgeDedup
  <1>1. Init => BridgeDedup
    BY QueueAssumption DEF Init, QueueInit, BridgeDedup, QueueAssumption
  <1>2. CountInv /\ OrderInv /\ DurableQueue /\ BridgeDedup /\ [Next]_vars => BridgeDedup'
    BY DedupStep DEF DurableQueue, OrderInv
  <1>3. CountInv /\ OrderInv /\ [Next]_vars => OrderInv'
    BY OrderStep
  <1> QED BY OrderInit, <1>1, <1>2, <1>3, CountTheorem, QueueIsDurable, PTL DEF Spec
=============================================================================
