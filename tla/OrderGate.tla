----------------------------- MODULE OrderGate -----------------------------
(***************************************************************************)
(* What the kill switch promises (execution/kill_switch.py and the double  *)
(* check of execution/mode_router.py): placements enter the broker call    *)
(* only while the gate is open, every one of them leaves it again or dies  *)
(* with the process, and arming reports how many are inside.               *)
(***************************************************************************)
CONSTANTS
  Callers,   \* tasks that may be placing an order
  Size(_)    \* number of elements of a set of callers

VARIABLES
  armed,    \* is the gate closed
  inside,   \* callers inside the broker call
  reported  \* how many the last arm reported inside, 0 before any

gvars == <<armed, inside, reported>>

Init ==
  /\ armed \in BOOLEAN
  /\ inside = {}
  /\ reported = 0

Arm ==
  /\ armed' = TRUE
  /\ reported' = Size(inside)
  /\ UNCHANGED inside

\* A disarm, or another process that shares the switch.
Switch ==
  /\ armed' \in BOOLEAN
  /\ UNCHANGED <<inside, reported>>

Enter(c) ==
  /\ ~armed
  /\ c \notin inside
  /\ inside' = inside \cup {c}
  /\ UNCHANGED <<armed, reported>>

Leave(c) ==
  /\ c \in inside
  /\ inside' = inside \ {c}
  /\ UNCHANGED <<armed, reported>>

Reset ==
  /\ armed' \in BOOLEAN
  /\ inside' = {}
  /\ reported' = 0

Next ==
  \/ Arm
  \/ Switch
  \/ \E c \in Callers : Enter(c) \/ Leave(c)
  \/ Reset

Spec == Init /\ [][Next]_gvars
=============================================================================
