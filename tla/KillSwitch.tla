---------------------------- MODULE KillSwitch ----------------------------
(***************************************************************************)
(* The shared kill gate (execution/kill_switch.py).  It has two layers: an *)
(* in-process event, and a marker file that other processes share and that *)
(* survives a restart.  The gate also counts placements: how many are on   *)
(* the wire now, how many ever went there, and both numbers as they were   *)
(* when the switch was last armed in this process.                         *)
(***************************************************************************)
EXTENDS Integers

VARIABLES
  killEvent,    \* the asyncio.Event, lost with the process
  killFile,     \* does the marker file exist (shared, durable)
  inFlight,     \* placements dispatched and not yet returned
  wireEntries,  \* placements ever dispatched by this process
  armInFlight,  \* inFlight at the last arm() of this process, 0 before
  armEntries    \* wireEntries at the last arm(), 0 before

armVars     == <<killEvent, killFile, armInFlight, armEntries>>
counterVars == <<inFlight, wireEntries>>
gateVars    == <<armVars, counterVars>>

GateTypeOK ==
  /\ killEvent \in BOOLEAN
  /\ killFile \in BOOLEAN
  /\ inFlight \in Nat
  /\ wireEntries \in Nat
  /\ armInFlight \in Nat
  /\ armEntries \in Nat

\* Either layer arms the gate.
IsArmed == killEvent \/ killFile

\* A new process mirrors the file into its event and counts from zero.
GateInit ==
  /\ killFile \in BOOLEAN
  /\ killEvent = killFile
  /\ inFlight = 0 /\ wireEntries = 0
  /\ armInFlight = 0 /\ armEntries = 0

\* The file is written first; a failed write raises before the event is
\* set, so it leaves the gate as it was.
Arm ==
  /\ killFile' = TRUE
  /\ killEvent' = TRUE
  /\ armInFlight' = inFlight
  /\ armEntries' = wireEntries
  /\ UNCHANGED counterVars

\* The event is cleared before the file is removed, and the removal may
\* fail, which leaves the gate armed by the file alone.
Disarm ==
  /\ killEvent' = FALSE
  /\ killFile' \in {FALSE, killFile}
  /\ UNCHANGED <<armInFlight, armEntries, counterVars>>

\* Another process arms or disarms its own gate over the same file.
OtherProcessTogglesFile ==
  /\ killFile' = ~killFile
  /\ UNCHANGED <<killEvent, armInFlight, armEntries, counterVars>>

NoteWireEntry ==
  /\ inFlight' = inFlight + 1
  /\ wireEntries' = wireEntries + 1
  /\ UNCHANGED armVars

NoteWireExit ==
  /\ inFlight' = inFlight - 1
  /\ UNCHANGED <<wireEntries, armVars>>

\* Entry and exit of a placement that never suspends in between.
NoteWireEntryAndExit ==
  /\ wireEntries' = wireEntries + 1
  /\ UNCHANGED <<inFlight, armVars>>

GateRestart ==
  /\ killEvent' = killFile
  /\ inFlight' = 0 /\ wireEntries' = 0
  /\ armInFlight' = 0 /\ armEntries' = 0
  /\ UNCHANGED killFile
=============================================================================
