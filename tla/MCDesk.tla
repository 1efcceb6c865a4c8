------------------------------- MODULE MCDesk -------------------------------
(***************************************************************************)
(* Two instances of Desk, of which a behaviour explores one.  In "orders"  *)
(* two orders of one symbol are placed in every way, with hints, repeated  *)
(* postbacks and cancellations.  In "symbols" three orders of two symbols  *)
(* trade at market or wait at a limit, so that a refresh has a second      *)
(* position to apply while ticks, closes and events change it.             *)
(***************************************************************************)
EXTENDS Desk

CONSTANTS o1, o2, o3, nifty, banknifty

VARIABLE scope

OneSymbol ==
  /\ Cardinality(DOMAIN book') <= 2
  /\ \A o \in DOMAIN book' : book'[o].symbol = nifty
  /\ \A i \in DOMAIN hints' : hints'[i].symbol = nifty
  /\ \A i \in DOMAIN queue' : queue'[i].topic = "tick" => queue'[i].symbol = nifty

TwoSymbols ==
  /\ LET waiting == {o \in DOMAIN book' : book'[o].type # "MARKET"}
     IN /\ Cardinality(waiting) <= 1
        /\ \A o \in waiting : book'[o].type = "LIMIT" /\ book'[o].side = "BUY" /\ book'[o].symbol = banknifty
  /\ hints' = <<>>
  /\ \A i \in DOMAIN queue' : queue'[i].topic # "updated"

MCInit == Init /\ scope \in {"orders", "symbols"}

MCNext ==
  /\ Next /\ UNCHANGED scope
  /\ IF scope = "orders" THEN OneSymbol ELSE TwoSymbols

MCSpec ==
  /\ MCInit /\ [][MCNext]_<<deskVars, scope>>
  /\ WF_deskVars(Dispatch) /\ WF_deskVars(Refresh)
=============================================================================
