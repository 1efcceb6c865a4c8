---------------------------- MODULE MCExecution ----------------------------
(* Constant definitions for model checking Execution. *)
EXTENDS Execution, TLC

\* All proposals are for the same side and symbol.
MCSameKey == [p \in Proposals |-> "BUY NIFTY"]

\* Handlers are interchangeable, and so are proposals that share their key
\* and their origin.
MCSymmetry == Permutations(Requests) \cup Permutations(Proposals)
=============================================================================
