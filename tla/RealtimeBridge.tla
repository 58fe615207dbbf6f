--------------------------- MODULE RealtimeBridge ---------------------------
(***************************************************************************)
(* The realtime bridge (realtime/app/bridge.py) and the WebSockets to its  *)
(* clients.  A consumer thread takes events from Kafka and queues them for *)
(* the event loop, in which one task sends each event to the clients that  *)
(* subscribed to one of its keys, waiting for every send, while the        *)
(* handlers of connections come, read subscriptions and go.  The events    *)
(* are those of one partition of a topic, which Kafka keeps in order, and  *)
(* usable ones; with others normalize skips or ends the loop.              *)
(*                                                                         *)
(* MobileRealtime adds the client.  Of the actions a client can send,      *)
(* `unsubscribe` and `ping` are not modelled: no client sends them.        *)
(***************************************************************************)
EXTENDS Integers, Sequences, FiniteSets

CONSTANTS
  Sockets,     \* bound: the connections there are at a time
  Topics,      \* the keys that can be subscribed to
  LastEvent,   \* bound: events are 1..LastEvent, their offsets in Kafka
  KeysOf       \* KeysOf[e]: routing_keys of event e

ASSUME BridgeAssumption ==
  /\ LastEvent \in Nat
  /\ KeysOf \in [1..LastEvent -> SUBSET Topics]

VARIABLES
  produced,    \* the events in Kafka are 1..produced
  polled,      \* the last one the consumer has polled or skipped
  skipped,     \* history: the events it skipped
  queue,       \* the queue between the thread and the event loop
  fan,         \* the fan-out under way: its event, the sockets of its copy of
               \* hub.clients still to be visited, and those it failed to reach
  hub,         \* hub.clients
  topics,      \* topics[s]: what the client at socket s has subscribed to
  line,        \* line[s]: the state of socket s at the client's end
  up,          \* up[s]: subscriptions on their way to the bridge
  down         \* down[s]: events on their way to the client

kafka  == <<produced, polled, skipped>>
server == <<queue, fan, hub, topics>>
wire   == <<line, up, down>>
bridgeVars == <<kafka, server, wire>>

NoFanOut == [event |-> 0, left |-> {}, dead |-> {}]

BridgeInit ==
  /\ produced = 0
  /\ polled = 0
  /\ skipped = {}
  /\ queue = <<>>
  /\ fan = NoFanOut
  /\ hub = {}
  /\ topics = [s \in Sockets |-> {}]
  /\ line = [s \in Sockets |-> "closed"]
  /\ up = [s \in Sockets |-> <<>>]
  /\ down = [s \in Sockets |-> <<>>]

-----------------------------------------------------------------------------
\* Kafka and the consumer thread.

Produce ==
  /\ produced < LastEvent
  /\ produced' = produced + 1
  /\ UNCHANGED <<polled, skipped, server, wire>>

Poll ==
  /\ polled < produced
  /\ queue' = Append(queue, polled + 1)
  /\ polled' = polled + 1
  /\ UNCHANGED <<produced, skipped, fan, hub, topics, wire>>

\* The loop ends in an exception and makes a new consumer, which starts at the
\* latest event: no offset was ever committed.
ConsumerFails ==
  /\ polled < produced
  /\ skipped' = skipped \cup (polled + 1)..produced
  /\ polled' = produced
  /\ UNCHANGED <<produced, server, wire>>

-----------------------------------------------------------------------------
\* The two ends of a socket.

\* A socket of which nothing is left at either end, nor in a fan-out.
Unused(s) == line[s] = "closed" /\ s \notin hub \cup fan.left \cup fan.dead

\* A client begins to connect.  Which of the unused sockets it takes makes no
\* difference.
Dial(s) ==
  /\ Unused(s)
  /\ s = CHOOSE x \in Sockets : Unused(x)
  /\ line' = [line EXCEPT ![s] = "dialing"]
  /\ UNCHANGED <<up, down>>

\* Faulty: a fan-out that is under way goes to the new client too.
JoinHubAndFanOut(s) ==
  /\ hub' = hub \cup {s}
  /\ fan' = IF fan.event = 0 THEN fan ELSE [fan EXCEPT !.left = @ \cup {s}]

JoinHub(s) == hub' = hub \cup {s} /\ UNCHANGED fan

\* handle, up to its first wait.
Accept(s) ==
  /\ line[s] = "dialing"
  /\ line' = [line EXCEPT ![s] = "accepted"]
  /\ topics' = [topics EXCEPT ![s] = {}]
  /\ JoinHub(s)
  /\ UNCHANGED <<kafka, queue, up, down>>

ReadSubscription(s) ==
  /\ s \in hub
  /\ up[s] # <<>>
  /\ topics' = [topics EXCEPT ![s] = @ \cup Head(up[s])]
  /\ up' = [up EXCEPT ![s] = Tail(@)]
  /\ UNCHANGED <<kafka, queue, fan, hub, line, down>>

\* The client has closed, or the connection is lost: handle ends.
HandlerEnds(s) ==
  /\ s \in hub
  /\ hub' = hub \ {s}
  /\ up' = [up EXCEPT ![s] = <<>>]
  /\ UNCHANGED <<kafka, queue, fan, topics, line, down>>

\* The client closes, or sees the connection closed or lost.
HangUp(s) ==
  /\ line' = [line EXCEPT ![s] = "closed"]
  /\ down' = [down EXCEPT ![s] = <<>>]
  /\ UNCHANGED up

\* The process is restarted; with a group of its own it starts at the latest
\* event.
Restart ==
  /\ hub' = {}
  /\ up' = [s \in Sockets |-> <<>>]
  /\ queue' = <<>>
  /\ fan' = NoFanOut
  /\ skipped' = skipped \cup (polled + 1)..produced \cup {queue[k] : k \in DOMAIN queue}
                  \cup (IF fan.event = 0 THEN {} ELSE {fan.event})
  /\ polled' = produced
  /\ UNCHANGED <<produced, topics, line, down>>

-----------------------------------------------------------------------------
\* fan_out.

BeginFanOut ==
  /\ fan = NoFanOut
  /\ queue # <<>>
  /\ fan' = [event |-> Head(queue), left |-> hub, dead |-> {}]
  /\ queue' = Tail(queue)
  /\ UNCHANGED <<kafka, hub, topics, wire>>

Due == {s \in fan.left : topics[s] \cap KeysOf[fan.event] # {}}

Arrives(s) ==
  IF line[s] \in {"accepted", "open"}
  THEN down' = [down EXCEPT ![s] = Append(@, fan.event)]
  ELSE UNCHANGED down

\* The next client in whatever order, past some that have not subscribed.  A
\* send that fails, or takes too long, may have put its frame on the way.
Send(s) ==
  /\ s \in Due
  /\ \E passed \in SUBSET (fan.left \ Due) :
       \/ /\ s \in hub
          /\ Arrives(s)
          /\ fan' = [fan EXCEPT !.left = (@ \ passed) \ {s}]
       \/ /\ \/ s \in hub /\ Arrives(s)
             \/ UNCHANGED down
          /\ fan' = [fan EXCEPT !.left = (@ \ passed) \ {s}, !.dead = @ \cup {s}]
  /\ UNCHANGED <<kafka, queue, hub, topics, line, up>>

\* Faulty: the clients that were not reached stay.
DropNobody(s) ==
  /\ fan.event # 0 /\ Due = {} /\ s \in fan.dead
  /\ fan' = [fan EXCEPT !.left = {}, !.dead = @ \ {s}]
  /\ UNCHANGED <<kafka, queue, hub, topics, wire>>

\* A client that was not reached is removed and its connection closed.
Drop(s) ==
  /\ fan.event # 0
  /\ Due = {}
  /\ s \in fan.dead
  /\ fan' = [fan EXCEPT !.left = {}, !.dead = @ \ {s}]
  /\ hub' = hub \ {s}
  /\ up' = [up EXCEPT ![s] = <<>>]
  /\ UNCHANGED <<kafka, queue, topics, line, down>>

EndFanOut ==
  /\ fan.event # 0
  /\ Due = {}
  /\ fan.dead = {}
  /\ fan' = NoFanOut
  /\ UNCHANGED <<kafka, queue, hub, topics, wire>>

FanOut == BeginFanOut \/ (\E s \in Sockets : Send(s) \/ Drop(s)) \/ EndFanOut

-----------------------------------------------------------------------------
Bridge ==
  \/ Produce \/ Poll \/ ConsumerFails \/ Restart \/ FanOut
  \/ \E s \in Sockets : Accept(s) \/ ReadSubscription(s) \/ HandlerEnds(s)

BridgeTypeOK ==
  /\ produced \in 0..LastEvent /\ polled \in 0..produced
  /\ skipped \subseteq 1..polled
  /\ queue \in Seq(1..polled)
  /\ fan \in [event : 0..polled, left : SUBSET Sockets, dead : SUBSET Sockets]
  /\ hub \subseteq Sockets
  /\ topics \in [Sockets -> SUBSET Topics]
  /\ line \in [Sockets -> {"closed", "dialing", "accepted", "open"}]
  /\ up \in [Sockets -> Seq(SUBSET Topics)]
  /\ down \in [Sockets -> Seq(1..polled)]
=============================================================================
