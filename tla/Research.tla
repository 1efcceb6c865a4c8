------------------------------ MODULE Research ------------------------------
(***************************************************************************)
(* Research passes and their briefs: the orchestrator asks a language      *)
(* model once per lens (research/orchestrator.py), the scheduler does so   *)
(* at an interval (research/scheduler.py), settings start, stop and        *)
(* restart the scheduler (terminal/api/settings_router.py), the operator   *)
(* decides on briefs and records outcomes (terminal/api/research_router.py *)
(* over research/store.py), and an approved brief is mirrored into the     *)
(* learning store (learning/outcome_tracker.py).                           *)
(***************************************************************************)
EXTENDS Naturals, FiniteSets

CONSTANTS
  Briefs,         \* runs of a lens that may be made; each has its own brief id
  Intervals,      \* intervals the scheduler may be set to
  MaxToolCalls,   \* MAX_TOOL_CALLS of an attempt
  MaxRetries,     \* MAX_RETRIES of a lens run
  MaxBoots        \* bound: starts of the process

ASSUME ResearchAssumption ==
  /\ "none" \notin Intervals /\ "default" \in Intervals
  /\ MaxToolCalls \in Nat /\ MaxRetries \in Nat /\ MaxBoots \in Nat \ {0}

VARIABLES
  apiKey,     \* DEEPSEEK_API_KEY is set in this process
  wanted,     \* the stored scheduler configuration
  scheduler,  \* the live scheduler's interval, or "none"
  wired,      \* _broadcast_fn is set
  boots,      \* starts of the process so far
  lensRuns,   \* [Briefs -> the run under way]
  briefs,     \* research.db: [Briefs -> status and outcome]
  lessons,    \* learning.db: [Briefs -> "none" without a row, else its outcome]
  calls       \* history: [Briefs -> calls of the model]

researchVars == <<apiKey, wanted, scheduler, wired, boots, lensRuns, briefs, lessons, calls>>
schedulerVars == <<apiKey, wanted, scheduler, wired, boots>>

Idle == [by |-> "none", attempt |-> 0, tools |-> 0]
NoBrief == [status |-> "none", outcome |-> "none"]

\* The stored configuration, with the defaults of core/settings.py.
UnsetConfig == [enabled |-> FALSE, interval |-> "default"]

\* What runs when a configuration is applied from nothing.
Started(config) == IF config.enabled /\ apiKey' THEN config.interval ELSE "none"

ResearchInit ==
  /\ apiKey \in BOOLEAN
  /\ wanted \in [enabled : BOOLEAN, interval : Intervals]
  /\ scheduler = IF wanted.enabled /\ apiKey THEN wanted.interval ELSE "none"
  /\ wired = TRUE /\ boots = 1
  /\ lensRuns = [b \in Briefs |-> Idle]
  /\ briefs = [b \in Briefs |-> NoBrief]
  /\ lessons = [b \in Briefs |-> "none"]
  /\ calls = [b \in Briefs |-> 0]

-----------------------------------------------------------------------------
\* The scheduler and its settings.

\* Whoever runs under the scheduler is cancelled with it.
CancelScheduled ==
  lensRuns' = [b \in Briefs |-> IF lensRuns[b].by = "scheduler" THEN Idle ELSE lensRuns[b]]

\* Faulty variant: a scheduler that runs is left alone.
ApplySchedulerOnce ==
  IF scheduler = "none" \/ ~wanted'.enabled
  THEN scheduler' = Started(wanted') /\ UNCHANGED <<wired, lensRuns>>
  ELSE UNCHANGED <<scheduler, wired, lensRuns>>

\* _apply_scheduler().  init_research() is called again for the new handle and
\* without a broadcast function, which unsets the one wired at startup.
ApplyScheduler ==
  IF scheduler = "none"
  THEN /\ scheduler' = Started(wanted')
       /\ wired' = (wired /\ scheduler' = "none")
       /\ UNCHANGED lensRuns
  ELSE IF wanted'.enabled /\ scheduler = wanted'.interval
       THEN UNCHANGED <<scheduler, wired, lensRuns>>
       ELSE /\ scheduler' = IF wanted'.enabled THEN wanted'.interval ELSE "none"
            /\ wired' = FALSE
            /\ CancelScheduled

\* PUT /api/settings/scheduler: both fields or one of them are stored, then
\* applied.
UpdateScheduler(config) ==
  /\ config # wanted
  /\ wanted' = config
  /\ UNCHANGED apiKey
  /\ ApplyScheduler
  /\ UNCHANGED <<boots, briefs, lessons, calls>>

\* The process ends, perhaps between the writes of two fields of an update,
\* and starts again; the environment may have changed.
RestartResearch ==
  /\ boots < MaxBoots /\ boots' = boots + 1
  /\ \/ UNCHANGED wanted
     \/ wanted' \in {[wanted EXCEPT !.enabled = e] : e \in BOOLEAN}
  /\ apiKey' \in BOOLEAN
  /\ scheduler' = Started(wanted')
  /\ wired' = TRUE
  /\ lensRuns' = [b \in Briefs |-> Idle]
  /\ UNCHANGED <<briefs, lessons, calls>>

-----------------------------------------------------------------------------
\* A pass over lenses.

NotStarted(b) == lensRuns[b] = Idle /\ briefs[b] = NoBrief /\ calls[b] = 0

\* All lenses of a pass are asked at once.
BeginPass(bs, who) ==
  /\ bs # {} /\ \A b \in bs : NotStarted(b)
  /\ lensRuns' = [b \in Briefs |->
                    IF b \in bs THEN [by |-> who, attempt |-> 0, tools |-> 0] ELSE lensRuns[b]]
  /\ calls' = [b \in Briefs |-> IF b \in bs THEN 1 ELSE calls[b]]
  /\ UNCHANGED <<schedulerVars, briefs, lessons>>

RunByOperator(bs) == apiKey /\ BeginPass(bs, "operator")

\* The loop waits for its pass to end before it sleeps again.
SchedulerTicks(bs) ==
  /\ scheduler # "none"
  /\ \A b \in Briefs : lensRuns[b].by # "scheduler"
  /\ BeginPass(bs, "scheduler")

LensRunEnds(b) == lensRuns' = [lensRuns EXCEPT ![b] = Idle]

AskAgain(b, run) ==
  /\ lensRuns' = [lensRuns EXCEPT ![b] = run]
  /\ calls' = [calls EXCEPT ![b] = @ + 1]

\* Faulty variant: each reply is measured against the budget by itself.
ModelWantsToolsEachTime(b, n) ==
  /\ lensRuns[b] # Idle
  /\ IF n > MaxToolCalls
     THEN LensRunEnds(b) /\ UNCHANGED calls
     ELSE AskAgain(b, lensRuns[b])
  /\ UNCHANGED <<schedulerVars, briefs, lessons>>

\* The model wants n tools called: it is asked again with their results, or the
\* budget is exceeded and the run ends with an error.
ModelWantsTools(b, n) ==
  /\ lensRuns[b] # Idle
  /\ LET used == lensRuns[b].tools + n
     IN IF used > MaxToolCalls
        THEN LensRunEnds(b) /\ UNCHANGED calls
        ELSE AskAgain(b, [lensRuns[b] EXCEPT !.tools = used])
  /\ UNCHANGED <<schedulerVars, briefs, lessons>>

\* No answer in time, a provider's error or a payload that is no brief: another
\* attempt with a new budget, while there is one.
ModelFails(b) ==
  /\ lensRuns[b] # Idle
  /\ IF lensRuns[b].attempt < MaxRetries
     THEN AskAgain(b, [lensRuns[b] EXCEPT !.attempt = @ + 1, !.tools = 0])
     ELSE LensRunEnds(b) /\ UNCHANGED calls
  /\ UNCHANGED <<schedulerVars, briefs, lessons>>

\* An empty answer, or a brief that cannot be stored, ends the run.
ModelAnswersInVain(b) ==
  /\ lensRuns[b] # Idle
  /\ LensRunEnds(b)
  /\ UNCHANGED <<schedulerVars, briefs, lessons, calls>>

ModelWritesBrief(b) ==
  /\ lensRuns[b] # Idle
  /\ LensRunEnds(b)
  /\ briefs' = [briefs EXCEPT ![b].status = "proposed"]
  /\ UNCHANGED <<schedulerVars, lessons, calls>>

-----------------------------------------------------------------------------
\* Decisions and outcomes.

\* decide(): a decision is made once.
StoreDecision(b, decision) ==
  /\ briefs[b].status = "proposed"
  /\ briefs' = [briefs EXCEPT ![b].status = decision]

\* set_outcome(): the outcome of a decided brief may be corrected.
StoreOutcome(b, outcome) ==
  /\ briefs[b].status \in {"approved", "rejected"}
  /\ briefs' = [briefs EXCEPT ![b].outcome = outcome]

\* Learning keeps the first row of a brief, and the first outcome that it has
\* seen of one.
LessonOpened(b) == IF lessons[b] = "none" THEN [lessons EXCEPT ![b] = "open"] ELSE lessons
LessonClosed(b, outcome) ==
  IF lessons[b] = "open" THEN [lessons EXCEPT ![b] = outcome] ELSE lessons

\* Learning hears of approvals and of outcomes, if its store works.
DecideBrief(b, decision, works) ==
  /\ StoreDecision(b, decision)
  /\ lessons' = IF works /\ decision = "approved" THEN LessonOpened(b) ELSE lessons
  /\ UNCHANGED <<schedulerVars, lensRuns, calls>>

RecordOutcome(b, outcome, works) ==
  /\ StoreOutcome(b, outcome)
  /\ lessons' = IF works THEN LessonClosed(b, outcome) ELSE lessons
  /\ UNCHANGED <<schedulerVars, lensRuns, calls>>

ResearchNext ==
  \/ \E config \in [enabled : BOOLEAN, interval : Intervals] : UpdateScheduler(config)
  \/ RestartResearch
  \/ \E bs \in SUBSET Briefs : RunByOperator(bs) \/ SchedulerTicks(bs)
  \/ \E b \in Briefs :
       \/ \E n \in 1 .. 2 : ModelWantsTools(b, n)
       \/ ModelFails(b) \/ ModelAnswersInVain(b) \/ ModelWritesBrief(b)
       \/ \E works \in BOOLEAN :
            \/ \E d \in {"approved", "rejected"} : DecideBrief(b, d, works)
            \/ \E o \in {"WIN", "LOSS"} : RecordOutcome(b, o, works)

ResearchSpec == ResearchInit /\ [][ResearchNext]_researchVars

-----------------------------------------------------------------------------
ResearchTypeOK ==
  /\ {apiKey, wired} \subseteq BOOLEAN
  /\ wanted \in [enabled : BOOLEAN, interval : Intervals]
  /\ scheduler \in Intervals \cup {"none"}
  /\ boots \in 1 .. MaxBoots
  /\ lensRuns \in [Briefs -> [by : {"none", "operator", "scheduler"},
                              attempt : 0 .. MaxRetries, tools : 0 .. MaxToolCalls]]
  /\ briefs \in [Briefs -> [status : {"none", "proposed", "approved", "rejected"},
                            outcome : {"none", "WIN", "LOSS"}]]
  /\ lessons \in [Briefs -> {"none", "open", "WIN", "LOSS"}]
  /\ calls \in [Briefs -> Nat]

\* The model is called a bounded number of times for one brief, whatever it
\* answers: each attempt has a budget of tool calls, and attempts are counted.
CallsBounded ==
  \A b \in Briefs : calls[b] <= (MaxRetries + 1) * (MaxToolCalls + 1)

\* The scheduler that runs is the one that is configured, after any sequence of
\* updates, restarts and crashes within an update.
SchedulerAsConfigured ==
  scheduler = IF wanted.enabled /\ apiKey THEN wanted.interval ELSE "none"
=============================================================================
