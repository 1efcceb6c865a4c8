------------------------------ MODULE MCMarket ------------------------------
(***************************************************************************)
(* The paper engine, the risk desk, the bar builder, the fan-out, the      *)
(* research scheduler, the knowledge base and the settings, side by side.  *)
(* They do not act on each other in their models (Desk composes those that *)
(* do), so a behaviour explores the part in focus and leaves the others in *)
(* one initial state.                                                      *)
(***************************************************************************)
EXTENDS MCPaperTrading, MCRiskDesk, Fanout, Knowledge, SettingsStore,
        Bars

CONSTANTS x1, x2, b1, b2, n1

Entry(key, value) == [key |-> key, value |-> value]

\* Both caps, one with a second write, a refused value, a cleared list, and
\* thresholds of which one scanner type and one parameter are unknown.
MCBatches ==
  { <<Entry("loss_limit", -200000), Entry("max_positions", 300)>>,
    <<Entry("loss_limit", -300000), Entry("theme", "light")>>,
    <<Entry("max_positions", 50)>>,
    <<Entry("scheduler_lenses", {})>>,
    <<Entry("scanner_thresholds",
            [gap_fill |-> [gap_threshold |-> 200, size |-> 100], gap |-> <<>>])>> }

\* An environment with the scheduler on, and one with too long an interval.
MCEnvSeeds ==
  { <<Entry("scheduler_enabled", TRUE), Entry("scheduler_interval_minutes", 3000),
      Entry("scheduler_lenses", {"risk"})>>,
    <<Entry("scheduler_enabled", FALSE), Entry("scheduler_interval_minutes", 200000)>> }

MCKnownParams ==
  [gap_fill |-> {"gap_threshold"}, oi_buildup |-> {"oi_change_threshold"}]

VARIABLE focus

ordersFocus == <<paperVars, riskVars>>
studyFocus == <<researchVars, docVars, promised>>
othersFocus == <<fanoutVars, barVars, settingsVars>>
marketVars == <<focus, ordersFocus, studyFocus, othersFocus>>

MarketInit ==
  /\ focus \in {"paper", "risk", "fanout", "bars", "settings", "research", "knowledge"}
  /\ PaperInit /\ RiskInit /\ FanoutInit /\ BarsInit /\ SettingsInit /\ KnowledgeInit
  /\ focus # "paper" => ~realism
  /\ focus # "research" => /\ wanted = [enabled |-> FALSE, interval |-> "default"]
                           /\ apiKey = (focus = "knowledge")

OrdersStep ==
  /\ UNCHANGED <<studyFocus, othersFocus>>
  /\ \/ focus = "paper" /\ PaperNext /\ UNCHANGED riskVars
     \/ focus = "risk" /\ RiskNext /\ UNCHANGED paperVars

StudyStep ==
  /\ UNCHANGED <<ordersFocus, othersFocus>>
  /\ \/ focus = "research" /\ ResearchNext /\ UNCHANGED <<docVars, promised>>
     \/ focus = "knowledge" /\ KnowledgeNext

OtherStep ==
  /\ UNCHANGED <<ordersFocus, studyFocus>>
  /\ \/ focus = "fanout" /\ FanoutNext /\ UNCHANGED <<barVars, settingsVars>>
     \/ focus = "bars" /\ BarsNext /\ UNCHANGED <<fanoutVars, settingsVars>>
     \/ focus = "settings" /\ SettingsNext /\ UNCHANGED <<fanoutVars, barVars>>

MarketNext == UNCHANGED focus /\ (OrdersStep \/ StudyStep \/ OtherStep)

MarketSpec == MarketInit /\ [][MarketNext]_marketVars
=============================================================================
