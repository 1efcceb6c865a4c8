----------------------------- MODULE Knowledge -----------------------------
(***************************************************************************)
(* The knowledge store (knowledge/store.py) and its routes                 *)
(* (terminal/api/knowledge_router.py): decided research briefs are synced  *)
(* into documents, the operator writes notes, and only documents that the  *)
(* operator activated are sources for research (knowledge_summary in       *)
(* terminal/api/research_source.py).                                       *)
(*                                                                         *)
(* One connection serves all requests.  A commit may fail, when another    *)
(* process holds the database: the transaction stays open, the connection  *)
(* goes on to see what it wrote, and the next commit saves it.             *)
(*                                                                         *)
(* Of Research this has the passes that the operator starts, the decisions *)
(* and the outcomes.  Tags, scores and the text of documents are left out. *)
(***************************************************************************)
EXTENDS Research

CONSTANTS
  Notes,            \* ids of notes the operator may write
  MaxKnowledgeBoots \* bound: restarts

ASSUME KnowledgeAssumption ==
  /\ Notes \cap Briefs = {} /\ MaxKnowledgeBoots \in Nat

VARIABLES
  docs,       \* [ids of documents -> status], as the connection sees them
  saved,      \* the same on disk
  lastSync,   \* last_sync_result on disk
  restarts,   \* restarts so far
  promised    \* history: [activated, synced], what requests that got their last
              \* commit through said to be done

docVars == <<docs, saved, lastSync, restarts>>
knowledgeVars == <<researchVars, docVars, promised>>

Decided == {b \in Briefs : briefs[b].status \in {"approved", "rejected"}}
Made == {b \in Briefs : briefs[b].status # "none"}

\* What the search for research sources finds.
KnowledgeSummary == {d \in DOMAIN docs : docs[d] = "activated"}

KnowledgeInit ==
  /\ ResearchInit
  /\ docs = <<>> /\ saved = <<>> /\ lastSync = "none" /\ restarts = 0
  /\ promised = [activated |-> {}, synced |-> {}]

-----------------------------------------------------------------------------
\* The store.

\* Faulty variant: a document of the same source is replaced.
IngestReplacing(ds) ==
  [d \in DOMAIN docs \cup ds |-> IF d \in ds THEN "proposed" ELSE docs[d]]

\* ingest() of each: a source that has a document already is a duplicate and
\* keeps it.
Ingest(ds) == [d \in DOMAIN docs \cup ds |-> IF d \in DOMAIN docs THEN docs[d] ELSE "proposed"]

\* A write, with the commit that ends it.
Write(new, commits) ==
  /\ docs' = new
  /\ saved' = IF commits THEN new ELSE saved

-----------------------------------------------------------------------------
\* The routes.

\* A sync that gets through: all decided briefs are ingested, each new one with
\* a commit, and the outcome is recorded with one more.  That may fail unseen.
SyncCompletes(recorded) ==
  /\ Write(Ingest(Decided), recorded \/ ~(Decided \subseteq DOMAIN docs))
  /\ lastSync' = IF ~recorded THEN lastSync
                 ELSE IF Made # Decided \/ Decided \cap DOMAIN docs # {} THEN "partial"
                 ELSE "success"
  /\ promised' = IF recorded THEN [promised EXCEPT !.synced = @ \cup Decided] ELSE promised
  /\ UNCHANGED <<researchVars, restarts>>

\* A sync that stops: the research store does not answer, or a brief's insert or
\* commit fails.  The failure is recorded if the store works again by then.
SyncFails(ds, recorded) ==
  /\ ds \subseteq Decided
  /\ \/ Write(Ingest(ds), recorded)
     \/ \E b \in ds \ DOMAIN docs :            \* all but the last were committed
          /\ ~recorded
          /\ docs' = Ingest(ds) /\ saved' = Ingest(ds \ {b})
  /\ lastSync' = IF recorded THEN "failed" ELSE lastSync
  /\ UNCHANGED <<researchVars, restarts, promised>>

CreateNote(n, commits) ==
  /\ n \notin DOMAIN docs
  /\ Write(Ingest({n}), commits)
  /\ UNCHANGED <<researchVars, lastSync, restarts, promised>>

\* The request fails if the commit does, with the change still in the connection;
\* a document that is activated already is returned as it is, without a commit.
Activate(d, commits) ==
  /\ d \in DOMAIN docs /\ docs[d] = "proposed"
  /\ Write([docs EXCEPT ![d] = "activated"], commits)
  /\ promised' = IF commits THEN [promised EXCEPT !.activated = @ \cup {d}] ELSE promised
  /\ UNCHANGED <<researchVars, lastSync, restarts>>

\* Only what is on disk is left.
RestartKnowledge ==
  /\ restarts < MaxKnowledgeBoots /\ restarts' = restarts + 1
  /\ docs' = saved
  /\ lensRuns' = [b \in Briefs |-> Idle]
  /\ UNCHANGED <<schedulerVars, briefs, lessons, calls, saved, lastSync, promised>>

BriefStep ==
  /\ \E b \in Briefs :
       \/ RunByOperator({b}) \/ ModelWritesBrief(b)
       \/ \E decision \in {"approved", "rejected"} : DecideBrief(b, decision, TRUE)
       \/ RecordOutcome(b, "WIN", TRUE)
  /\ UNCHANGED <<docVars, promised>>

KnowledgeNext ==
  \/ BriefStep
  \/ \E recorded \in BOOLEAN :
       SyncCompletes(recorded) \/ \E ds \in SUBSET Decided : SyncFails(ds, recorded)
  \/ \E d \in Briefs \cup Notes, commits \in BOOLEAN :
       \/ d \in Notes /\ CreateNote(d, commits)
       \/ Activate(d, commits)
  \/ RestartKnowledge

KnowledgeSpec == KnowledgeInit /\ [][KnowledgeNext]_knowledgeVars

-----------------------------------------------------------------------------
KnowledgeTypeOK ==
  /\ DOMAIN docs \subseteq Decided \cup Notes /\ DOMAIN saved \subseteq DOMAIN docs
  /\ \A d \in DOMAIN docs : docs[d] \in {"proposed", "activated"}
  /\ \A d \in DOMAIN saved : saved[d] \in {"proposed", docs[d]}
  /\ lastSync \in {"none", "success", "partial", "failed"} /\ restarts \in 0 .. MaxKnowledgeBoots

\* What a request with its commit said to be done stays done: a document once
\* activated is a source for good, and a brief that a sync covered has its
\* document, whatever syncs, failures and restarts follow (store.py: ingest keeps
\* the document of a source that has one).
PromisesKept ==
  /\ promised.activated \subseteq KnowledgeSummary
  /\ promised.synced \subseteq DOMAIN docs
  /\ \A d \in promised.activated : saved[d] = "activated"
  /\ promised.synced \subseteq DOMAIN saved
=============================================================================
