---------------------------- MODULE Broadcaster ----------------------------
(* The fan-out of WebSocket events (rpc/ws.go).  A broadcast copies the set *)
(* of subscribers under the lock and then offers the event to each without  *)
(* waiting: an event that does not fit in a subscriber's channel is lost to *)
(* it.  A pump per subscriber takes events out of its channel and writes    *)
(* them to the client.  What the client has read is a set: the order of     *)
(* events is not told apart, and some methods are not remembered.           *)
EXTENDS Naturals, Sequences

CONSTANTS
  Subscribers,
  Senders,     \* goroutines that broadcast
  Remembered,  \* the methods of the events that are remembered
  Capacity     \* of a subscriber's channel

VARIABLES
  subscribers,  \* the set under the lock
  to,           \* the subscribers each sender has yet to offer its event
  ch,           \* each subscriber's channel
  seen,         \* the events its client has read
  lost,         \* who has lost an event
  left          \* whose connection has ended

vars == <<subscribers, to, ch, seen, lost, left>>

Init ==
  /\ subscribers = {}
  /\ to = [x \in Senders |-> {}]
  /\ ch = [s \in Subscribers |-> <<>>]
  /\ seen = [s \in Subscribers |-> {}]
  /\ lost = {} /\ left = {}

\* addWS; a client that reconnects is another subscriber.
Attach(s) ==
  /\ s \notin subscribers \cup left
  /\ subscribers' = subscribers \cup {s}
  /\ UNCHANGED <<to, ch, seen, lost, left>>

\* The copy Broadcast makes under the lock.
Address(x) ==
  /\ to' = [to EXCEPT ![x] = subscribers]
  /\ UNCHANGED <<subscribers, ch, seen, lost, left>>

\* Mutant: a send that waits for room.
OfferMut(x, s, e) ==
  /\ s \in to[x] /\ Len(ch[s]) < Capacity
  /\ to' = [to EXCEPT ![x] = @ \ {s}]
  /\ ch' = [ch EXCEPT ![s] = Append(@, e)]
  /\ UNCHANGED <<subscribers, seen, lost, left>>

\* The select with its default: the event or nothing.  A client that has lost
\* an event is owed nothing any more: what it had read is forgotten.
Offer(x, s, e) ==
  /\ s \in to[x]
  /\ to' = [to EXCEPT ![x] = @ \ {s}]
  /\ IF Len(ch[s]) < Capacity
       THEN ch' = [ch EXCEPT ![s] = Append(@, e)] /\ UNCHANGED lost
       ELSE lost' = lost \cup {s} /\ UNCHANGED ch
  /\ seen' = [s1 \in Subscribers |-> IF s1 \in lost' THEN {} ELSE seen[s1]]
  /\ UNCHANGED <<subscribers, left>>

\* An event to everybody at once.
Flood(e) ==
  /\ subscribers # {}
  /\ ch' = [s \in Subscribers |->
             IF s \in subscribers /\ Len(ch[s]) < Capacity THEN Append(ch[s], e) ELSE ch[s]]
  /\ lost' = lost \cup {s \in subscribers : Len(ch[s]) >= Capacity}
  /\ seen' = [s1 \in Subscribers |-> IF s1 \in lost' THEN {} ELSE seen[s1]]
  /\ UNCHANGED <<subscribers, to, left>>

\* The pump writes the next event to the client.
Pump(s) ==
  /\ s \in subscribers /\ ch[s] # <<>>
  /\ seen' = [seen EXCEPT ![s] = IF s \notin lost /\ Head(ch[s]).method \in Remembered THEN @ \cup {Head(ch[s])} ELSE @]
  /\ ch' = [ch EXCEPT ![s] = Tail(@)]
  /\ UNCHANGED <<subscribers, to, lost, left>>

\* The pump returns: the client is gone, or a write or a ping has failed or
\* taken too long.  What that client had read no longer matters.
Detach(s) ==
  /\ s \in subscribers
  /\ subscribers' = subscribers \ {s} /\ left' = left \cup {s}
  /\ seen' = [seen EXCEPT ![s] = {}] /\ lost' = lost \ {s}
  /\ UNCHANGED <<to, ch>>
=============================================================================
