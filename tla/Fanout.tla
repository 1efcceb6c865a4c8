------------------------------- MODULE Fanout -------------------------------
(***************************************************************************)
(* Broadcasts to the browser clients: terminal/api/ws_manager.py and the   *)
(* WebSocket endpoint of app.py.  Several broadcasts may be under way, each*)
(* suspended in the send to one client, while clients come, subscribe and  *)
(* go: a broadcast walks over the live list of connections by its index.   *)
(***************************************************************************)
EXTENDS Naturals, SequencesExt, Functions

CONSTANTS
  Clients,    \* browser connections; each is made once
  Topics,     \* topics of broadcasts
  Broadcasts  \* bound: broadcasts that may be made

ASSUME FanoutAssumption == Clients \cap Topics = {}

VARIABLES
  endpoint,    \* [Clients -> "new", "open" while the endpoint reads, "closed"]
  connections, \* _connections: clients in the order in which they connected
  topicsOf,    \* _topics: the topics of the clients that subscribed
  casts        \* the broadcasts that were started

fanoutVars == <<endpoint, connections, topicsOf, casts>>

FanoutInit ==
  /\ endpoint = [c \in Clients |-> "new"]
  /\ connections = <<>>
  /\ topicsOf = <<>>
  /\ casts = <<>>

\* Clients without a subscription hear everything.
Hears(subscribed, c, t) == c \in DOMAIN subscribed => t \in subscribed[c]

\* A broadcast's record also keeps the history that the property needs:
\*   due:     clients connected and interested ever since it started
\*   served:  clients it was sent to
\*   shifted: a client that it had passed was removed meanwhile
Follow(all, gone) ==
  [b \in DOMAIN all |->
     [all[b] EXCEPT
        !.due = {c \in @ \ gone : Hears(topicsOf', c, all[b].topic)},
        !.shifted = @ \/ \E i \in 1 .. Len(connections) :
                          i < all[b].next /\ connections[i] \in gone]]

\* The list without some clients; the others keep their order.
Without(clients, gone) ==
  LET kept[i \in 0 .. Len(clients)] ==
        IF i = 0 THEN <<>>
        ELSE IF clients[i] \in gone THEN kept[i - 1] ELSE Append(kept[i - 1], clients[i])
  IN kept[Len(clients)]

\* disconnect() of some clients, which does nothing for one already removed.
Disconnect(gone) ==
  /\ connections' = Without(connections, gone)
  /\ topicsOf' = Restrict(topicsOf, DOMAIN topicsOf \ (gone \cap ToSet(connections)))

-----------------------------------------------------------------------------
\* Clients.

ClientConnects(c) ==
  /\ endpoint[c] = "new"
  /\ endpoint' = [endpoint EXCEPT ![c] = "open"]
  /\ connections' = Append(connections, c)
  /\ UNCHANGED <<topicsOf, casts>>

\* subscribe() replaces the topics; none means all.  The endpoint serves also
\* a client that a failed send has removed.
ClientSubscribes(c, ts) ==
  /\ endpoint[c] = "open"
  /\ topicsOf' = IF ts = {} THEN Restrict(topicsOf, DOMAIN topicsOf \ {c})
               ELSE [x \in DOMAIN topicsOf \cup {c} |-> IF x = c THEN ts ELSE topicsOf[x]]
  /\ casts' = Follow(casts, {})
  /\ UNCHANGED <<endpoint, connections>>

\* unsubscribe(): a client that wants nothing any more hears everything again.
ClientUnsubscribes(c, ts) ==
  /\ endpoint[c] = "open" /\ c \in DOMAIN topicsOf
  /\ topicsOf' = IF topicsOf[c] \subseteq ts THEN Restrict(topicsOf, DOMAIN topicsOf \ {c})
               ELSE [topicsOf EXCEPT ![c] = @ \ ts]
  /\ casts' = Follow(casts, {})
  /\ UNCHANGED <<endpoint, connections>>

\* The endpoint's read fails and it disconnects the client.
ClientLeaves(c) ==
  /\ endpoint[c] = "open"
  /\ endpoint' = [endpoint EXCEPT ![c] = "closed"]
  /\ Disconnect({c})
  /\ casts' = Follow(casts, {c})

-----------------------------------------------------------------------------
\* A broadcast.

\* Faulty variant: the walk goes on one client too far.
FurtherSkipping(t, i) ==
  {j \in i + 1 .. Len(connections) : Hears(topicsOf, connections[j], t)}

\* Where the interested clients are from position i on.
Further(t, i) == {j \in i .. Len(connections) : Hears(topicsOf, connections[j], t)}

\* The broadcast goes on to the next interested client and suspends in the
\* send; after the last one it removes the clients whose send failed.
Resume(b, cast) ==
  LET further == Further(cast.topic, cast.next)
      with(c) == [x \in DOMAIN casts \cup {b} |-> IF x = b THEN c ELSE casts[x]]
  IN IF further = {}
     THEN /\ Disconnect(cast.dead)
          /\ casts' = Follow(with([cast EXCEPT !.to = {}]), cast.dead)
     ELSE /\ casts' = with([cast EXCEPT !.to = {connections[Min(further)]},
                                        !.next = Min(further) + 1])
          /\ UNCHANGED <<connections, topicsOf>>

Broadcast(b, t) ==
  /\ b \notin DOMAIN casts
  /\ Resume(b, [topic |-> t, next |-> 1, to |-> {}, dead |-> {},
                due |-> {c \in ToSet(connections) : Hears(topicsOf, c, t)},
                served |-> {}, shifted |-> FALSE])
  /\ UNCHANGED endpoint

\* The send ends well, or it fails and the client is to be removed.
SendEnds(b, ok) ==
  /\ b \in DOMAIN casts /\ casts[b].to # {}
  /\ Resume(b, IF ok THEN [casts[b] EXCEPT !.served = @ \cup casts[b].to]
               ELSE [casts[b] EXCEPT !.dead = @ \cup casts[b].to])
  /\ UNCHANGED endpoint

FanoutNext ==
  \/ \E c \in Clients : ClientConnects(c) \/ ClientLeaves(c)
  \/ \E c \in Clients, ts \in SUBSET Topics : ClientSubscribes(c, ts) \/ ClientUnsubscribes(c, ts)
  \/ \E b \in Broadcasts, t \in Topics : Broadcast(b, t)
  \/ \E b \in Broadcasts, ok \in BOOLEAN : SendEnds(b, ok)

FanoutSpec == FanoutInit /\ [][FanoutNext]_fanoutVars

-----------------------------------------------------------------------------
\* Type invariant; a client is on the list at most once.
FanoutTypeOK ==
  /\ endpoint \in [Clients -> {"new", "open", "closed"}]
  /\ ToSet(connections) \subseteq Clients /\ IsInjective(connections)
  /\ DOMAIN topicsOf \subseteq Clients
  /\ \A c \in DOMAIN topicsOf : topicsOf[c] \in (SUBSET Topics) \ {{}}
  /\ DOMAIN casts \subseteq Broadcasts
  /\ \A b \in DOMAIN casts :
       /\ casts[b].to \cup casts[b].dead \cup casts[b].due \cup casts[b].served \subseteq Clients
       /\ Cardinality(casts[b].to) <= 1

\* A broadcast that has ended has been sent to every client that was connected
\* and interested all the time, or its send failed; only a removal from the
\* list behind the walk can make it miss one.
BroadcastReaches ==
  \A b \in DOMAIN casts :
    casts[b].to = {} /\ ~casts[b].shifted =>
      casts[b].due \subseteq casts[b].served \cup casts[b].dead
=============================================================================
