------------------------------ MODULE EventBus ------------------------------
(***************************************************************************)
(* The event bus (core/event_bus/event_bus.py): an unbounded queue whose   *)
(* events one task takes in order.  It hands an event to all handlers      *)
(* subscribed to its topic, and takes the next one when all have ended.    *)
(* What a handler raises is logged and dropped.                            *)
(*                                                                         *)
(* The first steps of an event's handlers run one after the other with no  *)
(* other task in between, so up to their first suspension they are one     *)
(* step.  A handler that goes on after it delays the bus; the handlers     *)
(* modelled here change nothing after theirs, so this is a pause in which  *)
(* the bus takes no step.                                                  *)
(***************************************************************************)
EXTENDS Integers, Sequences

VARIABLES
  running,   \* _running, while the task that takes events is alive
  queue      \* _queue

busVars == <<running, queue>>

BusInit == running = TRUE /\ queue = <<>>

Publish(events) == queue' = queue \o events

\* The event at the head has the topic and is taken; its handlers publish
\* events in turn.
Take(topic, published) ==
  /\ running /\ queue # <<>>
  /\ Head(queue).topic = topic
  /\ queue' = Tail(queue) \o published
  /\ UNCHANGED running

\* stop() appends an event of its own, which nothing takes any more; what is
\* still queued is never seen.
Stop ==
  /\ running
  /\ running' = FALSE
  /\ queue' = Append(queue, [topic |-> "status"])
=============================================================================
