--------------------------- MODULE ProposalQueue ---------------------------
(***************************************************************************)
(* The queue of trade proposals (execution/execution_engine.py) and the    *)
(* bridge that feeds it from trading signals (execution/signal_bridge.py). *)
(* A proposal lives in memory and, row for row, in SQLite; a failed write  *)
(* is logged and swallowed, so memory and database may then differ.        *)
(***************************************************************************)
CONSTANTS
  Proposals,   \* the proposal ids of a behaviour (uuid4: never reused)
  KeyOf,       \* [Proposals -> side and symbol]
  Bridged,     \* the ones the signal bridge submits; the others come from
               \* the manual form and the scanner bridge
  DbReliable   \* does every database access succeed

ASSUME QueueAssumption ==
  /\ Bridged \subseteq Proposals
  /\ DbReliable \in BOOLEAN

VARIABLES
  status,   \* [Proposals -> state of the entry in memory]
  db,       \* [Proposals -> status stored in the row, "none" without a row]
  overdue   \* proposals whose expires_at has passed

queueVars == <<status, db, overdue>>

\* "none": not submitted yet.  "lost": submitted, but not loaded again when
\* the process restarted.
RowStatuses == {"PENDING", "APPROVED", "REJECTED", "EXPIRED"}

QueueTypeOK ==
  /\ status \in [Proposals -> RowStatuses \cup {"none", "lost"}]
  /\ db \in [Proposals -> RowStatuses \cup {"none"}]
  /\ overdue \subseteq Proposals

QueueInit ==
  /\ status = [p \in Proposals |-> "none"]
  /\ db = [p \in Proposals |-> "none"]
  /\ overdue = {}

DbOutcomes == IF DbReliable THEN {TRUE} ELSE BOOLEAN

\* Change an entry in memory, then upsert its row.
Record(p, s) ==
  /\ status' = [status EXCEPT ![p] = s]
  /\ \E written \in DbOutcomes :
       db' = IF written THEN [db EXCEPT ![p] = s] ELSE db
  /\ UNCHANGED overdue

\* Faulty variant: a proposal past its timeout no longer counts.
HasFreshPending(key) ==
  \E q \in Proposals \ overdue : status[q] = "PENDING" /\ KeyOf[q] = key

HasPending(key) == \E q \in Proposals : status[q] = "PENDING" /\ KeyOf[q] = key

\* The bridge skips a signal while a proposal of its side and symbol is
\* pending, whoever submitted that one.
SubmitBridged(p) ==
  /\ p \in Bridged
  /\ status[p] = "none"
  /\ ~HasPending(KeyOf[p])
  /\ Record(p, "PENDING")

SubmitUnchecked(p) ==
  /\ p \notin Bridged
  /\ status[p] = "none"
  /\ Record(p, "PENDING")

\* The clock reaches expires_at.  Nothing in the engine wakes up for it.
TimeoutPasses(p) ==
  /\ p \notin overdue
  /\ status[p] = "PENDING"
  /\ overdue' = overdue \cup {p}
  /\ UNCHANGED <<status, db>>

Stale == {p \in overdue : status[p] = "PENDING"}

\* Rows of the stale proposals are written one by one.
ExpiredRows(W) == [p \in Proposals |-> IF p \in W THEN "EXPIRED" ELSE db[p]]

\* Faulty variant: expiry is not written to the database.
ExpireStaleUnsaved ==
  /\ Stale # {}
  /\ status' = [p \in Proposals |-> IF p \in Stale THEN "EXPIRED" ELSE status[p]]
  /\ UNCHANGED <<db, overdue>>

\* Listing the queue expires every stale proposal.
ExpireStale ==
  /\ Stale # {}
  /\ status' = [p \in Proposals |-> IF p \in Stale THEN "EXPIRED" ELSE status[p]]
  /\ \E W \in SUBSET Stale : (DbReliable => W = Stale) /\ db' = ExpiredRows(W)
  /\ UNCHANGED overdue

\* Faulty variant: the rejection is not written to the database.
RejectUnsaved(p) ==
  /\ status[p] \in RowStatuses
  /\ status' = [status EXCEPT ![p] = "REJECTED"]
  /\ UNCHANGED <<db, overdue>>

\* Rejecting asks for no particular status: it may overwrite any decision.
Reject(p) ==
  /\ status[p] \in RowStatuses
  /\ Record(p, "REJECTED")

\* A new process loads every row, unless reading the database fails.  The
\* old one may have died between two rows of a listing.
QueueRestart ==
  /\ \E W \in SUBSET Stale : db' = ExpiredRows(W)
  /\ \E loaded \in DbOutcomes :
       status' = [p \in Proposals |->
                    IF loaded /\ db'[p] # "none" THEN db'[p]
                    ELSE IF status[p] = "none" THEN "none" ELSE "lost"]
  /\ UNCHANGED overdue
=============================================================================
