------------------------------ MODULE Learning ------------------------------
(***************************************************************************)
(* The learning loop (learning/shadow_loop.py, outcome_tracker.py and      *)
(* intelligence/signals/shadow_manager.py): every live signal is recorded  *)
(* with the votes of the shadow voters; the end of a session scores the    *)
(* votes against the outcome of the session and graduates the shadows that *)
(* did well.  A session is one run of the process.                         *)
(***************************************************************************)
EXTENDS Integers, FiniteSets

CONSTANTS
  Shadows,       \* the registered shadow voters
  Signs,         \* directions voted and heard: 1, -1, 0
  MinSessions,   \* MIN_SESSIONS: distinct days with votes
  HitPercent,    \* PROMOTION_HIT_RATE
  MaxDay, MaxSignals, MaxSessions   \* bounds: days, signals of a session, sessions

ASSUME LearningAssumption == MaxDay \in Nat \ {0} /\ MaxSignals \in Nat /\ MaxSessions \in Nat

VARIABLES
  learns,      \* the process runs and is subscribed to SIGNAL_V2
  run,         \* its session id
  today,
  signalSeq,   \* ShadowLoop._seq
  awaiting,    \* ShadowLoop._signals_by_session of the session: [signal -> direction]
  votes,       \* shadow.db: [shadow, signal, dir, day, scored] and the session, run
  decisions,   \* learning.db: the signals whose decision is recorded
  graduates,   \* shadow.db: shadow_graduates
  registered,  \* shadows in the default voter registry of the process
  voting,      \* registry members wired into the signal engine
  heard,       \* history: [run, n -> direction] of every live signal
  ended        \* history: [run -> outcome] of the sessions that were closed

learnVars == <<learns, run, today, signalSeq, awaiting, votes, decisions, graduates, registered,
               voting, heard, ended>>

LearnInit ==
  /\ learns = FALSE /\ run = 0 /\ today = 1 /\ signalSeq = 0
  /\ awaiting = <<>> /\ heard = <<>> /\ ended = <<>>
  /\ votes = {} /\ decisions = {} /\ graduates = {} /\ registered = {} /\ voting = {}

\* The lifespan opens a session under a new id; the pipeline wires the members of the
\* registry into its engine once, and then the shadow loop registers the shadows with
\* its manager.  Nothing reads shadow_graduates back.
OpenSession ==
  /\ ~learns /\ run < MaxSessions
  /\ learns' = TRUE /\ run' = run + 1
  /\ registered' = {} /\ voting' = registered'
  /\ signalSeq' = 0 /\ awaiting' = <<>>
  /\ UNCHANGED <<today, votes, decisions, graduates, heard, ended>>

\* Faulty variant: signals are numbered and not tied to their session.
SignalIdUntied(session, n) == <<0, n>>

SignalId(session, n) == <<session, n>>

\* record_signal_decision: under an id of its own each time, so none is replaced.
RecordDecision(id) == decisions' = decisions \cup {id}

\* run_shadow and log_shadow_results: every registered shadow votes.
VotesOf(id, cast) ==
  {[shadow |-> s, signal |-> id, dir |-> cast[s], day |-> today, scored |-> "unknown",
    run |-> run, nth |-> signalSeq] : s \in Shadows}

\* _on_signal; storing the decision or the votes may fail and is only logged.
HearSignal(live, cast, recorded, logged) ==
  /\ learns /\ signalSeq < MaxSignals
  /\ LET id == SignalId(run, signalSeq)
     IN /\ IF recorded THEN RecordDecision(id) ELSE UNCHANGED decisions
        /\ votes' = IF logged THEN votes \cup VotesOf(id, cast) ELSE votes
        /\ awaiting' = [i \in DOMAIN awaiting \cup {id} |-> IF i = id THEN live ELSE awaiting[i]]
        /\ heard' = [i \in DOMAIN heard \cup {<<run, signalSeq>>} |->
                       IF i = <<run, signalSeq>> THEN live ELSE heard[i]]
  /\ signalSeq' = signalSeq + 1
  /\ UNCHANGED <<learns, run, today, graduates, registered, voting, ended>>

\* A vote counts as correct if it agrees with a signal of a session that won.
IsCorrect(dir, live, outcome) == dir * live > 0 /\ outcome = "WIN"

\* compare_shadow_vs_live over the signals of the session.
Scored(outcome) ==
  IF outcome = "none" THEN votes
  ELSE {IF v.signal \in DOMAIN awaiting
        THEN [v EXCEPT !.scored = IF IsCorrect(v.dir, awaiting[v.signal], outcome)
                                  THEN "correct" ELSE "wrong"]
        ELSE v : v \in votes}

ShouldPromote(shadow, rows) ==
  LET own == {v \in rows : v.shadow = shadow}
      known == {v \in own : v.scored # "unknown"}
  IN /\ Cardinality({v.day : v \in own}) >= MinSessions
     /\ known # {}
     /\ 100 * Cardinality({v \in known : v.scored = "correct"})
          > HitPercent * Cardinality(known)

\* session_outcome_label: of the profit of the pairs that the session closed; 0 is
\* also the profit of none.
OutcomeLabel(profit) == IF profit > 0 THEN "WIN" ELSE IF profit < 0 THEN "LOSS" ELSE "none"

\* graduate: persisted are the shadows whose graduation could be written, and only
\* those are registered.
Graduate(persisted, rows) ==
  LET promoted == {s \in persisted : ShouldPromote(s, rows)}
  IN graduates' = graduates \cup promoted /\ registered' = registered \cup promoted

\* Teardown: evaluate_session scores the votes and graduates shadows.
CloseSession(profit, persisted) ==
  LET outcome == OutcomeLabel(profit)
  IN /\ learns
     /\ votes' = Scored(outcome)
     /\ Graduate(persisted, votes')
     /\ ended' = [r \in DOMAIN ended \cup {run} |-> IF r = run THEN outcome ELSE ended[r]]
     /\ learns' = FALSE /\ awaiting' = <<>>
     /\ UNCHANGED <<run, today, signalSeq, decisions, voting, heard>>

\* The process dies: what was in memory is never scored.
LoseSession ==
  /\ learns /\ learns' = FALSE /\ awaiting' = <<>>
  /\ UNCHANGED <<run, today, signalSeq, votes, decisions, graduates, registered, voting, heard, ended>>

NextDay ==
  /\ today < MaxDay /\ today' = today + 1
  /\ UNCHANGED <<learns, run, signalSeq, awaiting, votes, decisions, graduates, registered, voting,
                 heard, ended>>

LearnNext ==
  \/ OpenSession
  \/ \E live \in Signs, cast \in [Shadows -> Signs], recorded, logged \in BOOLEAN :
       HearSignal(live, cast, recorded, logged)
  \/ \E profit \in {-1, 0, 1}, persisted \in SUBSET Shadows : CloseSession(profit, persisted)
  \/ LoseSession
  \/ NextDay

LearnSpec == LearnInit /\ [][LearnNext]_learnVars

-----------------------------------------------------------------------------
\* Type of the state.
LearnTypeOK ==
  /\ learns \in BOOLEAN /\ run \in 0 .. MaxSessions /\ signalSeq \in 0 .. MaxSignals
  /\ \A v \in votes : v.shadow \in Shadows /\ v.dir \in Signs /\ v.day \in 1 .. MaxDay
  /\ graduates \subseteq Shadows /\ registered \subseteq Shadows /\ voting \subseteq Shadows

\* A vote is scored by the outcome of the session it was cast in and by its own signal,
\* and never if that session died or ended without an outcome; sessions that end
\* later, with signals numbered from zero again, leave it alone.
ScoredByOwnSession ==
  \A v \in votes : v.scored # "unknown" =>
    /\ v.run \in DOMAIN ended
    /\ ended[v.run] # "none"
    /\ (v.scored = "correct") = IsCorrect(v.dir, heard[<<v.run, v.nth>>], ended[v.run])
=============================================================================
