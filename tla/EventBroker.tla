------------------------------ MODULE EventBroker ------------------------------
(***************************************************************************)
(* The events of the daemon on their way to its clients (internal/events:   *)
(* Broker; server.go: eventStream).  Publish holds the lock while it offers *)
(* an event to the channel of every subscriber and never waits for one;     *)
(* each client's handler takes events from its channel and cancels its      *)
(* subscription when the client has gone.  Events are numbers.              *)
(***************************************************************************)
EXTENDS Naturals, Sequences

CONSTANTS
  Capacity,     \* of a channel, 64 in the code
  MaxEvents,    \* bound: events published
  MaxClients    \* bound: subscriptions

VARIABLES
  events,       \* events published so far
  next,         \* the id of the next subscription
  subscribers,  \* the ids Publish offers events to
  channel,      \* what waits in the channel of each
  isClosed,     \* channels that are closed
  seen,         \* the last event a client has got, or the last before it came
  overflowed    \* observation: subscribers whose channel was full at some time

readers == <<channel, seen>>
vars    == <<events, next, subscribers, readers, isClosed, overflowed>>

Clients == 0..(MaxClients - 1)

Room(id) == Len(channel[id]) < Capacity

Publish ==
  /\ events < MaxEvents
  /\ events' = events + 1
  /\ channel' = [id \in Clients |->
       IF id \in subscribers /\ Room(id) THEN Append(channel[id], events') ELSE channel[id]]
  /\ overflowed' = overflowed \cup {id \in subscribers : Len(channel[id]) = Capacity}
  /\ UNCHANGED <<next, subscribers, seen, isClosed>>

Subscribe ==
  /\ next < MaxClients
  /\ next' = next + 1
  /\ subscribers' = subscribers \cup {next}
  /\ seen' = [seen EXCEPT ![next] = events]
  /\ UNCHANGED <<events, channel, isClosed, overflowed>>

\* eventStream writes an event to its client.
Deliver(id) ==
  /\ id \in subscribers /\ channel[id] # <<>>
  /\ seen' = [seen EXCEPT ![id] = channel[id][1]]
  /\ channel' = [channel EXCEPT ![id] = Tail(@)]
  /\ UNCHANGED <<events, next, subscribers, isClosed, overflowed>>

\* Fault: the channel is closed and stays in the map.
CancelKeeps(id) ==
  /\ id \in subscribers /\ id \notin isClosed
  /\ isClosed' = isClosed \cup {id}
  /\ UNCHANGED <<events, next, subscribers, readers, overflowed>>

\* The deferred cancel; what was waiting goes with the channel.
Cancel(id) ==
  /\ id \in subscribers
  /\ subscribers' = subscribers \ {id}
  /\ isClosed' = isClosed \cup {id}
  /\ channel' = [channel EXCEPT ![id] = <<>>]
  /\ UNCHANGED <<events, next, seen, overflowed>>

Init ==
  /\ events = 0 /\ next = 0 /\ subscribers = {} /\ isClosed = {} /\ overflowed = {}
  /\ channel = [id \in Clients |-> <<>>] /\ seen = [id \in Clients |-> 0]

\* A later daemon has a broker of its own.
Restart ==
  /\ next = MaxClients /\ subscribers = {}
  /\ events' = 0 /\ next' = 0 /\ subscribers' = {} /\ isClosed' = {} /\ overflowed' = {}
  /\ channel' = [id \in Clients |-> <<>>] /\ seen' = [id \in Clients |-> 0]

Next == Publish \/ Restart \/ Subscribe \/ \E id \in Clients : Deliver(id) \/ Cancel(id)

Spec == Init /\ [][Next]_vars

-----------------------------------------------------------------------------
(* Properties *)

\* The type invariant of the broker.
TypeOK ==
  /\ events \in 0..MaxEvents /\ next \in 0..MaxClients
  /\ subscribers \subseteq 0..(next - 1) /\ isClosed \subseteq 0..(next - 1)
  /\ overflowed \subseteq Clients /\ seen \in [Clients -> 0..events]
  /\ \A id \in Clients : Len(channel[id]) <= Capacity

\* Events reach a client in order and without a gap, from its subscription to
\* the last, while its channel has never been full; and no event is ever
\* offered to a channel that is closed, which would end the daemon
\* (Publish, Subscribe and its cancel).
EventsComplete ==
  \A id \in subscribers :
    /\ id \notin isClosed
    /\ id \notin overflowed =>
         channel[id] = [i \in 1..(events - seen[id]) |-> seen[id] + i]
=============================================================================
