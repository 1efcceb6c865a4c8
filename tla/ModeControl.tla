---------------------------- MODULE ModeControl ----------------------------
(***************************************************************************)
(* Execution mode and LIVE session token (terminal/api/execution_router.py *)
(* and the command line of run.py).  The mode is kept in a file as well,   *)
(* but LIVE is never restored from it.  Only the typed activation of LIVE  *)
(* mints the token that placements on the real broker must carry; starting *)
(* the program in LIVE from the command line does not.                     *)
(***************************************************************************)
CONSTANT
  CommandLineModes  \* values of --mode the launcher run.py is given; empty if
                    \* the application is started without the launcher

Modes == {"OBSERVER", "PAPER", "LIVE"}

ASSUME ModeAssumption == CommandLineModes \subseteq Modes

VARIABLES
  mode,      \* _current_mode
  modeFile,  \* ~/.shettyxtreme_mode; a missing or unreadable file is OBSERVER
  csrf,      \* is a token issued (the operator's page holds the latest one)
  minted     \* history: has this process ever minted a token

modeVars == <<mode, modeFile, csrf, minted>>

ModeTypeOK ==
  /\ mode \in Modes
  /\ modeFile \in Modes
  /\ csrf \in BOOLEAN
  /\ minted \in BOOLEAN

\* Faulty variant: the file is believed whatever it says.
LoadModeVerbatim(file) == file

LoadMode(file) == IF file \in {"OBSERVER", "PAPER"} THEN file ELSE "OBSERVER"

\* A process starts by importing the router, which loads the mode file; the
\* launcher then overwrites mode and file with its argument.  Saving may fail
\* silently.
StartMode(saved, m, file) ==
  IF CommandLineModes = {} THEN m = LoadMode(saved) /\ file = saved
  ELSE m \in CommandLineModes /\ file \in {m, saved}

ModeInit ==
  /\ mode \in Modes /\ modeFile \in Modes
  /\ \E saved \in Modes : StartMode(saved, mode, modeFile)
  /\ csrf = FALSE
  /\ minted = FALSE

SetMode(m) ==
  /\ mode' = m
  /\ modeFile' \in {m, modeFile}
  /\ IF m = "LIVE" THEN csrf' = TRUE /\ minted' = TRUE
     ELSE /\ csrf' = IF mode = "LIVE" THEN FALSE ELSE csrf
          /\ UNCHANGED minted

ModeRestart ==
  /\ mode' \in Modes /\ modeFile' \in Modes
  /\ StartMode(modeFile, mode', modeFile')
  /\ csrf' = FALSE
  /\ minted' = FALSE
=============================================================================
