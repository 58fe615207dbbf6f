----------------------- MODULE MobileRealtime_proofs -----------------------
(***************************************************************************)
(* The realtime plane of the mobile app, for any clients, sockets, topics  *)
(* and any number of events: a client has one connection, and what it is   *)
(* told is a stream of events.                                             *)
(***************************************************************************)
EXTENDS MobileRealtime, SequenceTheorems, TLAPS

USE DEF kafka, server, wire, client

\* The order of the events in queues, and between them.
Rising(q) == \A i, j \in DOMAIN q : i < j => q[i] < q[j]

Below(q, e) == \A i \in DOMAIN q : q[i] < e

Above(q, e) == \A i \in DOMAIN q : e < q[i]

Before(p, q) == \A i \in DOMAIN p, j \in DOMAIN q : p[i] < q[j]

-----------------------------------------------------------------------------
\* Sequences of events.

LEMMA SeqWidens ==
  ASSUME NEW m \in Nat, NEW n \in Nat, m <= n, NEW q \in Seq(1..m)
  PROVE  q \in Seq(1..n)
<1>1. 1..m \subseteq 1..n
  OBVIOUS
<1> QED
  BY <1>1, SeqMonotonic

LEMMA AppendRises ==
  ASSUME NEW q \in Seq(Nat), NEW e \in Nat, Rising(q), Below(q, e)
  PROVE  Rising(Append(q, e))
<1>1. Len(Append(q, e)) = Len(q) + 1
  BY AppendProperties
<1>2. \A i \in 1..Len(q) : Append(q, e)[i] = q[i]
  BY AppendProperties
<1>3. Append(q, e)[Len(q) + 1] = e
  BY AppendProperties
<1> QED
  BY <1>1, <1>2, <1>3 DEF Rising, Below

LEMMA AppendBefore ==
  ASSUME NEW p \in Seq(Nat), NEW q \in Seq(Nat), NEW e \in Nat, Before(p, q), Above(q, e)
  PROVE  Before(Append(p, e), q)
<1>1. Len(Append(p, e)) = Len(p) + 1
  BY AppendProperties
<1>2. \A i \in 1..Len(p) : Append(p, e)[i] = p[i]
  BY AppendProperties
<1>3. Append(p, e)[Len(p) + 1] = e
  BY AppendProperties
<1> QED
  BY <1>1, <1>2, <1>3 DEF Before, Above

LEMMA BeforeAppend ==
  ASSUME NEW p \in Seq(Nat), NEW q \in Seq(Nat), NEW e \in Nat, Before(p, q), Below(p, e)
  PROVE  Before(p, Append(q, e))
<1>1. Len(Append(q, e)) = Len(q) + 1
  BY AppendProperties
<1>2. \A i \in 1..Len(q) : Append(q, e)[i] = q[i]
  BY AppendProperties
<1>3. Append(q, e)[Len(q) + 1] = e
  BY AppendProperties
<1> QED
  BY <1>1, <1>2, <1>3 DEF Before, Below

LEMMA AppendBelow ==
  ASSUME NEW q \in Seq(Nat), NEW e \in Nat, NEW n \in Nat, Below(q, n), e < n
  PROVE  Below(Append(q, e), n)
<1>1. Len(Append(q, e)) = Len(q) + 1
  BY AppendProperties
<1>2. \A i \in 1..Len(q) : Append(q, e)[i] = q[i]
  BY AppendProperties
<1>3. Append(q, e)[Len(q) + 1] = e
  BY AppendProperties
<1> QED
  BY <1>1, <1>2, <1>3 DEF Below

LEMMA AppendAbove ==
  ASSUME NEW q \in Seq(Nat), NEW e \in Nat, NEW n \in Nat, Above(q, n), n < e
  PROVE  Above(Append(q, e), n)
<1>1. Len(Append(q, e)) = Len(q) + 1
  BY AppendProperties
<1>2. \A i \in 1..Len(q) : Append(q, e)[i] = q[i]
  BY AppendProperties
<1>3. Append(q, e)[Len(q) + 1] = e
  BY AppendProperties
<1> QED
  BY <1>1, <1>2, <1>3 DEF Above

\* What follows the head of a rising queue, and what was before all of it.
LEMMA TailRises ==
  ASSUME NEW q \in Seq(Nat), q # <<>>, Rising(q)
  PROVE  /\ Rising(Tail(q))
         /\ Above(Tail(q), Head(q))
         /\ \A n \in Nat : Below(q, n) => Below(Tail(q), n) /\ Head(q) < n
         /\ \A n \in Nat : Above(q, n) => Above(Tail(q), n) /\ n < Head(q)
         /\ \A p \in Seq(Nat) : Before(p, q) => Before(p, Tail(q)) /\ Below(p, Head(q))
         /\ \A p \in Seq(Nat) : Before(q, p) => Before(Tail(q), p) /\ Above(p, Head(q))
<1>1. /\ Len(Tail(q)) = Len(q) - 1
      /\ Len(q) \in Nat \ {0}
      /\ Head(q) = q[1]
  BY HeadTailProperties
<1>2. \A i \in 1..(Len(q) - 1) : Tail(q)[i] = q[i + 1]
  BY <1>1, HeadTailProperties
<1>3. DOMAIN q = 1..Len(q) /\ DOMAIN Tail(q) = 1..(Len(q) - 1)
  BY <1>1, HeadTailProperties
<1>4. Rising(Tail(q)) /\ Above(Tail(q), Head(q))
  <2>1. ASSUME NEW i \in DOMAIN Tail(q) PROVE i + 1 \in DOMAIN q /\ Tail(q)[i] = q[i + 1]
    BY <1>1, <1>2, <1>3
  <2>2. ASSUME NEW i \in DOMAIN Tail(q), NEW j \in DOMAIN Tail(q), i < j
        PROVE  Tail(q)[i] < Tail(q)[j]
    BY <1>3, <2>1, <2>2 DEF Rising
  <2>3. ASSUME NEW i \in DOMAIN Tail(q) PROVE Head(q) < Tail(q)[i]
    BY <1>1, <1>3, <2>1 DEF Rising
  <2> QED
    BY <2>2, <2>3 DEF Rising, Above
<1>5. ASSUME NEW n \in Nat, Below(q, n) PROVE Below(Tail(q), n) /\ Head(q) < n
  BY <1>1, <1>2, <1>3, <1>5 DEF Below
<1>6. ASSUME NEW n \in Nat, Above(q, n) PROVE Above(Tail(q), n) /\ n < Head(q)
  BY <1>1, <1>2, <1>3, <1>6 DEF Above
<1>7. ASSUME NEW p \in Seq(Nat), Before(p, q) PROVE Before(p, Tail(q)) /\ Below(p, Head(q))
  <2>1. ASSUME NEW j \in DOMAIN Tail(q) PROVE j + 1 \in DOMAIN q /\ Tail(q)[j] = q[j + 1]
    BY <1>1, <1>2, <1>3
  <2>2. Before(p, Tail(q))
    BY <1>7, <2>1 DEF Before
  <2>3. Below(p, Head(q))
    BY <1>1, <1>3, <1>7 DEF Before, Below
  <2> QED
    BY <2>2, <2>3
<1>8. ASSUME NEW p \in Seq(Nat), Before(q, p) PROVE Before(Tail(q), p) /\ Above(p, Head(q))
  BY <1>1, <1>2, <1>3, <1>8 DEF Before, Above
<1> QED
  BY <1>4, <1>5, <1>6, <1>7, <1>8

-----------------------------------------------------------------------------
\* Types.

\* An action of the bridge.
BridgeNext ==
  \/ Produce \/ Poll \/ ConsumerFails \/ Restart
  \/ BeginFanOut \/ (\E s \in Sockets : Send(s) \/ Drop(s)) \/ EndFanOut
  \/ \E s \in Sockets : Accept(s) \/ ReadSubscription(s) \/ HandlerEnds(s)

\* There is nobody to be visited when no fan-out is under way.
IdleFan == fan.event = 0 => fan.left = {}

LEMMA BridgeTypeStep ==
  ASSUME BridgeTypeOK, IdleFan, BridgeNext
  PROVE  BridgeTypeOK' /\ IdleFan'
<1>0. LastEvent \in Nat /\ produced \in Nat /\ polled \in Nat
  BY BridgeAssumption DEF BridgeTypeOK
<1>1. CASE Produce
  BY <1>0, <1>1 DEF BridgeTypeOK, IdleFan, Produce
<1>2. CASE Poll
  <2>1. polled' = polled + 1 /\ polled' \in 0..produced /\ produced' = produced
    BY <1>0, <1>2 DEF BridgeTypeOK, Poll
  <2>2. \A q \in Seq(1..polled) : q \in Seq(1..polled')
    BY <1>0, <2>1, SeqWidens
  <2>3. queue' \in Seq(1..polled')
    <3>1. queue \in Seq(1..polled') /\ polled + 1 \in 1..polled'
      BY <1>0, <2>1, <2>2 DEF BridgeTypeOK
    <3> QED
      BY <1>2, <3>1, AppendProperties DEF Poll
  <2>4. down' \in [Sockets -> Seq(1..polled')]
    BY <1>2, <2>2 DEF BridgeTypeOK, Poll
  <2>5. /\ skipped' \subseteq 1..polled'
        /\ fan' \in [event : 0..polled', left : SUBSET Sockets, dead : SUBSET Sockets]
    BY <1>0, <1>2, <2>1 DEF BridgeTypeOK, Poll
  <2> QED
    BY <1>2, <2>1, <2>3, <2>4, <2>5 DEF BridgeTypeOK, IdleFan, Poll
<1>3. CASE ConsumerFails
  <2>1. polled' = produced /\ polled <= polled' /\ produced' = produced /\ polled' \in Nat
    BY <1>0, <1>3 DEF BridgeTypeOK, ConsumerFails
  <2>2. \A q \in Seq(1..polled) : q \in Seq(1..polled')
    BY <1>0, <2>1, SeqWidens
  <2>3. queue' \in Seq(1..polled') /\ down' \in [Sockets -> Seq(1..polled')]
    BY <1>3, <2>2 DEF BridgeTypeOK, ConsumerFails
  <2>4. /\ skipped' \subseteq 1..polled'
        /\ fan' \in [event : 0..polled', left : SUBSET Sockets, dead : SUBSET Sockets]
    BY <1>0, <1>3, <2>1 DEF BridgeTypeOK, ConsumerFails
  <2> QED
    BY <1>0, <1>3, <2>1, <2>3, <2>4 DEF BridgeTypeOK, IdleFan, ConsumerFails
<1>4. CASE Restart
  <2>1. polled' = produced /\ polled <= polled' /\ produced' = produced /\ polled' \in Nat
    BY <1>0, <1>4 DEF BridgeTypeOK, Restart
  <2>2. down' \in [Sockets -> Seq(1..polled')]
    <3>1. \A q \in Seq(1..polled) : q \in Seq(1..polled')
      BY <1>0, <2>1, SeqWidens
    <3> QED
      BY <1>4, <3>1 DEF BridgeTypeOK, Restart
  <2>3. \A k \in DOMAIN queue : queue[k] \in 1..polled'
    <3>1. \A k \in DOMAIN queue : queue[k] \in 1..polled
      BY ElementOfSeq DEF BridgeTypeOK
    <3> QED
      BY <1>0, <2>1, <3>1
  <2>4. skipped' \subseteq 1..polled'
    <3>1. fan.event \in 0..polled
      BY DEF BridgeTypeOK
    <3>2. skipped \subseteq 1..polled' /\ (polled + 1)..produced \subseteq 1..polled'
      BY <1>0, <2>1 DEF BridgeTypeOK
    <3>3. (IF fan.event = 0 THEN {} ELSE {fan.event}) \subseteq 1..polled'
      BY <1>0, <2>1, <3>1
    <3>4. {queue[k] : k \in DOMAIN queue} \subseteq 1..polled'
      BY <2>3
    <3> QED
      BY <1>4, <3>2, <3>3, <3>4 DEF Restart
  <2>5. queue' \in Seq(1..polled') /\ up' \in [Sockets -> Seq(SUBSET Topics)]
    BY <1>4 DEF BridgeTypeOK, Restart
  <2>6. fan' \in [event : 0..polled', left : SUBSET Sockets, dead : SUBSET Sockets]
    BY <1>4, <2>1 DEF Restart, NoFanOut
  <2>7. hub' \subseteq Sockets /\ topics' = topics /\ line' = line
    BY <1>4 DEF Restart
  <2>8. IdleFan'
    BY <1>4 DEF Restart, NoFanOut, IdleFan
  <2> QED
    BY <1>0, <2>1, <2>2, <2>4, <2>5, <2>6, <2>7, <2>8 DEF BridgeTypeOK
<1>5. CASE BeginFanOut
  <2>1. Head(queue) \in 1..polled /\ Tail(queue) \in Seq(1..polled)
    BY <1>5, HeadTailProperties DEF BridgeTypeOK, BeginFanOut
  <2> QED
    BY <1>0, <1>5, <2>1 DEF BridgeTypeOK, IdleFan, BeginFanOut
<1>6. ASSUME NEW s \in Sockets, Send(s) PROVE BridgeTypeOK' /\ IdleFan'
  <2>1. s \in fan.left /\ fan.event \in 1..polled
    BY <1>0, <1>6 DEF Send, Due, BridgeTypeOK, IdleFan
  <2>2. down' = down \/ down' = [down EXCEPT ![s] = Append(@, fan.event)]
    BY <1>6 DEF Send, Arrives
  <2>3. down' \in [Sockets -> Seq(1..polled)]
    <3>1. down[s] \in Seq(1..polled)
      BY DEF BridgeTypeOK
    <3>2. Append(down[s], fan.event) \in Seq(1..polled)
      BY <2>1, <3>1, AppendProperties
    <3> QED
      BY <2>2, <3>2 DEF BridgeTypeOK
  <2>4. /\ fan' \in [event : 0..polled, left : SUBSET Sockets, dead : SUBSET Sockets]
        /\ fan'.event = fan.event
    <3>1. PICK passed \in SUBSET (fan.left \ Due) :
             \/ fan' = [fan EXCEPT !.left = (@ \ passed) \ {s}]
             \/ fan' = [fan EXCEPT !.left = (@ \ passed) \ {s}, !.dead = @ \cup {s}]
      BY <1>6 DEF Send
    <3>2. (fan.left \ passed) \ {s} \in SUBSET Sockets /\ fan.dead \cup {s} \in SUBSET Sockets
      BY DEF BridgeTypeOK
    <3> QED
      BY <3>1, <3>2 DEF BridgeTypeOK
  <2>5. UNCHANGED <<kafka, queue, hub, topics, line, up>>
    BY <1>6 DEF Send
  <2> QED
    BY <2>1, <2>3, <2>4, <2>5 DEF BridgeTypeOK, IdleFan
<1>7. ASSUME NEW s \in Sockets, Drop(s) PROVE BridgeTypeOK' /\ IdleFan'
  <2>1. fan.dead \ {s} \in SUBSET Sockets
    BY DEF BridgeTypeOK
  <2>2. /\ fan' \in [event : 0..polled, left : SUBSET Sockets, dead : SUBSET Sockets]
        /\ fan'.left = {}
    BY <1>7, <2>1 DEF BridgeTypeOK, Drop
  <2>3. hub' \subseteq Sockets /\ up' \in [Sockets -> Seq(SUBSET Topics)]
    BY <1>7 DEF BridgeTypeOK, Drop
  <2> QED
    BY <1>7, <2>2, <2>3 DEF BridgeTypeOK, IdleFan, Drop
<1>8. CASE EndFanOut
  BY <1>0, <1>8 DEF BridgeTypeOK, IdleFan, EndFanOut, NoFanOut
<1>9. ASSUME NEW s \in Sockets, Accept(s) PROVE BridgeTypeOK' /\ IdleFan'
  BY <1>9 DEF BridgeTypeOK, IdleFan, Accept, JoinHub
<1>10. ASSUME NEW s \in Sockets, ReadSubscription(s) PROVE BridgeTypeOK' /\ IdleFan'
  <2>1. Head(up[s]) \in SUBSET Topics /\ Tail(up[s]) \in Seq(SUBSET Topics)
    BY <1>10, HeadTailProperties DEF BridgeTypeOK, ReadSubscription
  <2> QED
    BY <1>10, <2>1 DEF BridgeTypeOK, IdleFan, ReadSubscription
<1>11. ASSUME NEW s \in Sockets, HandlerEnds(s) PROVE BridgeTypeOK' /\ IdleFan'
  BY <1>11 DEF BridgeTypeOK, IdleFan, HandlerEnds
<1> QED
  BY <1>1, <1>2, <1>3, <1>4, <1>5, <1>6, <1>7, <1>8, <1>9, <1>10, <1>11 DEF BridgeNext

\* What an action of a client leaves of the bridge's types.
LEMMA ClientTypeStep ==
  ASSUME TypeOK, NEW c \in Clients, Client(c)
  PROVE  TypeOK'
<1>0. LastEvent \in Nat /\ produced \in Nat /\ polled \in Nat
  BY BridgeAssumption DEF TypeOK, BridgeTypeOK
<1>1. ASSUME NEW s \in Sockets, Dial(s)
      PROVE  line' \in [Sockets -> {"closed", "dialing", "accepted", "open"}]
  BY <1>1 DEF TypeOK, BridgeTypeOK, Dial
<1>2. ASSUME NEW s \in Sockets, HangUp(s)
      PROVE  /\ line' \in [Sockets -> {"closed", "dialing", "accepted", "open"}]
             /\ down' \in [Sockets -> Seq(1..polled)]
             /\ up' = up
  BY <1>2 DEF TypeOK, BridgeTypeOK, HangUp
<1>3. ASSUME Open(c) PROVE /\ line' \in [Sockets -> {"closed", "dialing", "accepted", "open"}]
                           /\ up' = up /\ down' = down
                           /\ ws' \in [Clients -> Sockets \cup {None}]
  <2>1. PICK s \in Sockets : Dial(s) /\ ws' = [ws EXCEPT ![c] = s]
    BY <1>3 DEF Open
  <2> QED
    BY <1>1, <2>1 DEF TypeOK, Dial
<1>4. ASSUME NEW s \in Sockets, NEW ts \in SUBSET Topics, SendTopics(s, ts)
      PROVE  up' \in [Sockets -> Seq(SUBSET Topics)]
  <2>1. Append(up[s], ts) \in Seq(SUBSET Topics)
    BY AppendProperties DEF TypeOK, BridgeTypeOK
  <2> QED
    BY <1>4, <2>1 DEF TypeOK, BridgeTypeOK, SendTopics
<1>5. CASE Start(c)
  <2>1. run' \in [Clients -> BOOLEAN]
    BY <1>5 DEF TypeOK, Start
  <2> QED
    BY <1>3, <1>5, <2>1 DEF TypeOK, BridgeTypeOK, Start
<1>6. CASE Stop(c)
  <2>1. run' \in [Clients -> BOOLEAN] /\ timer' \in [Clients -> BOOLEAN]
    BY <1>6 DEF TypeOK, Stop
  <2>2. ws' \in [Clients -> Sockets \cup {None}] /\ ws[c] \in Sockets \cup {None}
    BY <1>6 DEF TypeOK, Stop
  <2>3. /\ line' \in [Sockets -> {"closed", "dialing", "accepted", "open"}]
        /\ down' \in [Sockets -> Seq(1..polled)]
        /\ up' = up
    BY <1>2, <1>6, <2>2 DEF TypeOK, BridgeTypeOK, Stop
  <2> QED
    BY <1>6, <2>1, <2>2, <2>3 DEF TypeOK, BridgeTypeOK, Stop
<1>7. ASSUME NEW t \in Topics, Subscribe(c, t) PROVE TypeOK'
  <2>1. want' \in [Clients -> SUBSET Topics] /\ want[c] \cup {t} \in SUBSET Topics
    BY <1>7 DEF TypeOK, Subscribe
  <2>2. ws[c] \in Sockets \cup {None}
    BY DEF TypeOK
  <2>3. up' \in [Sockets -> Seq(SUBSET Topics)]
    BY <1>4, <1>7, <2>1, <2>2 DEF TypeOK, BridgeTypeOK, Subscribe
  <2> QED
    BY <1>7, <2>1, <2>3 DEF TypeOK, BridgeTypeOK, Subscribe
<1>8. CASE OnOpen(c)
  <2>1. ws[c] \in Sockets /\ want[c] \in SUBSET Topics
    BY <1>8 DEF TypeOK, OnOpen
  <2>2. up' \in [Sockets -> Seq(SUBSET Topics)]
    BY <1>4, <1>8, <2>1 DEF TypeOK, BridgeTypeOK, OnOpen
  <2>3. line' \in [Sockets -> {"closed", "dialing", "accepted", "open"}]
    BY <1>8 DEF TypeOK, BridgeTypeOK, OnOpen
  <2> QED
    BY <1>8, <2>2, <2>3 DEF TypeOK, BridgeTypeOK, OnOpen
<1>9. CASE OnMessage(c)
  <2>1. ws[c] \in Sockets /\ down[ws[c]] \in Seq(1..polled) /\ down[ws[c]] # <<>>
    BY <1>9 DEF TypeOK, BridgeTypeOK, OnMessage
  <2>2. Head(down[ws[c]]) \in 1..polled /\ Tail(down[ws[c]]) \in Seq(1..polled)
    BY <2>1, HeadTailProperties
  <2>3. Append(got[c], Head(down[ws[c]])) \in Seq(1..polled)
    BY <2>2, AppendProperties DEF TypeOK
  <2>4. got' \in [Clients -> Seq(1..polled)] /\ down' \in [Sockets -> Seq(1..polled)]
    BY <1>9, <2>2, <2>3 DEF TypeOK, BridgeTypeOK, OnMessage
  <2> QED
    BY <1>9, <2>4 DEF TypeOK, BridgeTypeOK, OnMessage
<1>10. CASE OnClose(c)
  <2>1. ws[c] \in Sockets /\ run[c] \in BOOLEAN
    BY <1>10 DEF TypeOK, OnClose
  <2>2. timer' \in [Clients -> BOOLEAN]
    BY <1>10, <2>1 DEF TypeOK, OnClose
  <2>3. ws' \in [Clients -> Sockets \cup {None}]
    BY <1>10 DEF TypeOK, OnClose
  <2> QED
    BY <1>2, <1>10, <2>1, <2>2, <2>3 DEF TypeOK, BridgeTypeOK, OnClose
<1>11. CASE TimerFires(c)
  <2>1. timer' \in [Clients -> BOOLEAN]
    BY <1>11 DEF TypeOK, TimerFires
  <2> QED
    BY <1>3, <1>11, <2>1 DEF TypeOK, BridgeTypeOK, TimerFires
<1> QED
  BY <1>5, <1>6, <1>7, <1>8, <1>9, <1>10, <1>11 DEF Client

LEMMA NextByActor ==
  ASSUME Next
  PROVE  (BridgeNext /\ UNCHANGED client) \/ \E c \in Clients : Client(c)
BY DEF Next, Bridge, BridgeNext, FanOut

LEMMA TypeStep ==
  ASSUME TypeOK, IdleFan, [Next]_vars
  PROVE  TypeOK' /\ IdleFan'
<1>1. CASE BridgeNext /\ UNCHANGED client
  <2>1. BridgeTypeOK' /\ IdleFan'
    BY <1>1, BridgeTypeStep DEF TypeOK
  <2>2. got' \in [Clients -> Seq(1..polled')]
    <3>1. LastEvent \in Nat /\ polled \in Nat /\ polled' \in Nat
      BY <2>1, BridgeAssumption DEF TypeOK, BridgeTypeOK
    <3>2. polled <= polled'
      <4>1. polled' \in {polled, polled + 1, produced}
        BY <1>1 DEF BridgeNext, Produce, Poll, ConsumerFails, Restart, BeginFanOut, Send, Drop,
                    EndFanOut, Accept, ReadSubscription, HandlerEnds
      <4> QED
        BY <3>1, <4>1 DEF TypeOK, BridgeTypeOK
    <3>3. \A q \in Seq(1..polled) : q \in Seq(1..polled')
      BY <3>1, <3>2, SeqWidens
    <3> QED
      BY <1>1, <3>3 DEF TypeOK
  <2> QED
    BY <1>1, <2>1, <2>2 DEF TypeOK
<1>2. ASSUME NEW c \in Clients, Client(c) PROVE TypeOK' /\ IdleFan'
  <2>1. UNCHANGED fan
    BY <1>2 DEF Client, Start, Stop, Subscribe, OnOpen, OnMessage, OnClose, TimerFires
  <2> QED
    BY <1>2, <2>1, ClientTypeStep DEF IdleFan
<1>3. CASE UNCHANGED vars
  BY <1>3 DEF vars, bridgeVars, TypeOK, BridgeTypeOK, IdleFan
<1> QED
  BY <1>1, <1>2, <1>3, NextByActor

LEMMA TypeBegins ==
  ASSUME Init
  PROVE  TypeOK /\ IdleFan
<1>1. <<>> \in Seq(1..polled) /\ <<>> \in Seq(SUBSET Topics)
  OBVIOUS
<1>2. BridgeTypeOK
  BY <1>1, BridgeAssumption DEF Init, BridgeInit, BridgeTypeOK, NoFanOut
<1> QED
  BY <1>1, <1>2 DEF Init, BridgeInit, TypeOK, IdleFan, NoFanOut

-----------------------------------------------------------------------------
\* Connections.

\* Of one client: a socket or a timer while it runs, and neither when stopped.
Alive(c) ==
  /\ run[c] <=> (ws[c] # None \/ timer[c])
  /\ ~(ws[c] # None /\ timer[c])

\* Of one client: its socket is its own, and not closed.
Holds(c) ==
  ws[c] # None =>
    /\ line[ws[c]] # "closed"
    /\ \A d \in Clients \ {c} : ws[d] # ws[c]

LEMMA ConnectionsByClient ==
  /\ OneConnectionEach <=> TypeOK /\ \A c \in Clients : Alive(c) /\ Holds(c)
  /\ OneConnectionEach' <=> TypeOK' /\ \A c \in Clients : Alive(c)' /\ Holds(c)'
BY DEF OneConnectionEach, Alive, Holds

\* A socket that is dialed is nobody's.
LEMMA OpenHolds ==
  ASSUME OneConnectionEach, NEW c \in Clients, Open(c)
  PROVE  /\ \A d \in Clients : Holds(d)'
         /\ ws'[c] # None
         /\ \A d \in Clients \ {c} : ws'[d] = ws[d]
<1>1. PICK s \in Sockets : Dial(s) /\ ws' = [ws EXCEPT ![c] = s]
  BY DEF Open
<1>2. line[s] = "closed" /\ line' = [line EXCEPT ![s] = "dialing"]
  BY <1>1 DEF Dial, Unused
<1>3. \A d \in Clients : ws[d] # s
  BY <1>2, MobileAssumption DEF OneConnectionEach
<1>4. /\ ws \in [Clients -> Sockets \cup {None}]
      /\ line \in [Sockets -> {"closed", "dialing", "accepted", "open"}]
  BY DEF OneConnectionEach, TypeOK, BridgeTypeOK
<1>5. ws'[c] = s /\ \A d \in Clients \ {c} : ws'[d] = ws[d]
  BY <1>1, <1>4
<1>6. ASSUME NEW d \in Clients PROVE Holds(d)'
  <2>1. CASE d = c
    BY <1>2, <1>3, <1>4, <1>5, <2>1 DEF Holds
  <2>2. CASE d # c
    <3>1. ws'[d] = ws[d] /\ ws[d] # s
      BY <1>3, <1>5, <2>2
    <3>2. ws[d] # None => line'[ws[d]] = line[ws[d]] /\ line[ws[d]] # "closed"
      BY <1>2, <1>4, <3>1 DEF OneConnectionEach
    <3>3. ws[d] # None => \A e \in Clients \ {d} : ws'[e] # ws[d]
      BY <1>5, <3>1 DEF OneConnectionEach
    <3> QED
      BY <3>1, <3>2, <3>3 DEF Holds
  <2> QED
    BY <2>1, <2>2
<1> QED
  BY <1>5, <1>6, MobileAssumption

\* One that is hung up was its client's alone.
LEMMA HangUpHolds ==
  ASSUME OneConnectionEach, NEW c \in Clients, ws' = [ws EXCEPT ![c] = None],
         IF ws[c] = None THEN UNCHANGED wire ELSE HangUp(ws[c])
  PROVE  \A d \in Clients : Holds(d)'
<1>1. /\ ws \in [Clients -> Sockets \cup {None}]
      /\ line \in [Sockets -> {"closed", "dialing", "accepted", "open"}]
  BY DEF OneConnectionEach, TypeOK, BridgeTypeOK
<1>2. SUFFICES ASSUME NEW d \in Clients PROVE Holds(d)'
  OBVIOUS
<1>3. CASE d = c
  BY <1>1, <1>3 DEF Holds
<1>4. CASE d # c
  <2>1. ws'[d] = ws[d] /\ ws'[c] = None /\ \A e \in Clients \ {c} : ws'[e] = ws[e]
    BY <1>1, <1>4
  <2>2. ws[d] # None => ws[d] # ws[c] /\ line[ws[d]] # "closed"
    BY <1>4 DEF OneConnectionEach
  <2>3. ws[d] # None => line'[ws[d]] = line[ws[d]]
    BY <1>1, <2>2 DEF HangUp
  <2>4. ws[d] # None => \A e \in Clients \ {d} : ws'[e] # ws[d]
    BY <1>1, <2>1 DEF OneConnectionEach
  <2> QED
    BY <2>1, <2>2, <2>3, <2>4 DEF Holds
<1> QED
  BY <1>3, <1>4

LEMMA ConnectionStep ==
  ASSUME OneConnectionEach, IdleFan, [Next]_vars
  PROVE  OneConnectionEach'
<1>0. TypeOK /\ TypeOK'
  BY TypeStep DEF OneConnectionEach
<1>1. SUFFICES \A d \in Clients : Alive(d)' /\ Holds(d)'
  BY <1>0, ConnectionsByClient
<1>2. \A d \in Clients : Alive(d) /\ Holds(d)
  BY ConnectionsByClient
<1>3. CASE BridgeNext /\ UNCHANGED client
  <2>1. \A s \in Sockets : line[s] # "closed" => line'[s] # "closed"
    BY <1>0, <1>3 DEF TypeOK, BridgeTypeOK, BridgeNext, Produce, Poll, ConsumerFails, Restart,
         BeginFanOut, Send, Drop, EndFanOut, Accept, ReadSubscription, HandlerEnds
  <2>2. ws \in [Clients -> Sockets \cup {None}]
    BY <1>0 DEF TypeOK
  <2> QED
    BY <1>2, <1>3, <2>1, <2>2 DEF Alive, Holds
<1>4. CASE UNCHANGED vars
  BY <1>2, <1>4 DEF vars, bridgeVars, Alive, Holds
<1>5. ASSUME NEW c \in Clients, Client(c) PROVE \A d \in Clients : Alive(d)' /\ Holds(d)'
  <2>0. /\ run \in [Clients -> BOOLEAN]
        /\ timer \in [Clients -> BOOLEAN]
        /\ ws \in [Clients -> Sockets \cup {None}]
    BY <1>0 DEF TypeOK
  <2>1. CASE Start(c)
    <3>1. /\ \A d \in Clients : Holds(d)'
          /\ ws'[c] # None
          /\ \A d \in Clients \ {c} : ws'[d] = ws[d]
      BY <2>1, OpenHolds DEF Start
    <3>2. ~run[c] /\ run' = [run EXCEPT ![c] = TRUE] /\ timer' = timer
      BY <2>1 DEF Start
    <3>3. ~timer[c]
      BY <1>2, <3>2 DEF Alive
    <3>4. Alive(c)'
      BY <2>0, <3>1, <3>2, <3>3 DEF Alive
    <3>5. \A d \in Clients \ {c} : Alive(d)'
      BY <1>2, <2>0, <3>1, <3>2 DEF Alive
    <3> QED
      BY <3>1, <3>4, <3>5
  <2>2. CASE Stop(c)
    <3>1. \A d \in Clients : Holds(d)'
      BY <2>2, HangUpHolds DEF Stop
    <3>2. Alive(c)'
      BY <2>0, <2>2 DEF Stop, Alive
    <3>3. \A d \in Clients \ {c} : Alive(d)'
      BY <1>2, <2>0, <2>2 DEF Stop, Alive
    <3> QED
      BY <3>1, <3>2, <3>3
  <2>3. ASSUME NEW t \in Topics, Subscribe(c, t) PROVE \A d \in Clients : Alive(d)' /\ Holds(d)'
    BY <1>2, <2>3 DEF Subscribe, Alive, Holds
  <2>4. CASE OnOpen(c)
    <3>1. \A s \in Sockets : line[s] # "closed" => line'[s] # "closed"
      BY <1>0, <2>4 DEF TypeOK, BridgeTypeOK, OnOpen
    <3> QED
      BY <1>2, <2>0, <2>4, <3>1 DEF OnOpen, Alive, Holds
  <2>5. CASE OnMessage(c)
    BY <1>2, <2>5 DEF OnMessage, Alive, Holds
  <2>6. CASE OnClose(c)
    <3>1. \A d \in Clients : Holds(d)'
      BY <2>6, HangUpHolds DEF OnClose
    <3>2. Alive(c)'
      BY <1>2, <2>0, <2>6 DEF OnClose, Alive
    <3>3. \A d \in Clients \ {c} : Alive(d)'
      BY <1>2, <2>0, <2>6 DEF OnClose, Alive
    <3> QED
      BY <3>1, <3>2, <3>3
  <2>7. CASE TimerFires(c)
    <3>1. run[c] /\ ws[c] = None
      BY <1>2, <2>7 DEF TimerFires, Alive
    <3>2. /\ \A d \in Clients : Holds(d)'
          /\ ws'[c] # None
          /\ \A d \in Clients \ {c} : ws'[d] = ws[d]
      BY <2>7, <3>1, OpenHolds DEF TimerFires
    <3>3. timer' = [timer EXCEPT ![c] = FALSE] /\ run' = run
      BY <2>7 DEF TimerFires
    <3>4. Alive(c)'
      BY <2>0, <3>1, <3>2, <3>3 DEF Alive
    <3>5. \A d \in Clients \ {c} : Alive(d)'
      BY <1>2, <2>0, <3>2, <3>3 DEF Alive
    <3> QED
      BY <3>2, <3>4, <3>5
  <2> QED
    BY <1>5, <2>1, <2>2, <2>3, <2>4, <2>5, <2>6, <2>7 DEF Client
<1> QED
  BY <1>3, <1>4, <1>5, NextByActor

\* A client that was stopped has neither socket nor timer, one that runs has
\* exactly one of them, and no two clients hold one socket, whatever the order
\* of logins, logouts, closed connections and timers.
THEOREM ConnectionsHold == Spec => []OneConnectionEach
<1>1. Init => OneConnectionEach /\ IdleFan
  <2>1. ASSUME Init PROVE \A c \in Clients : Alive(c) /\ Holds(c)
    BY <2>1 DEF Init, Alive, Holds
  <2> QED
    BY <2>1, TypeBegins, ConnectionsByClient
<1>2. OneConnectionEach /\ IdleFan /\ [Next]_vars => (OneConnectionEach /\ IdleFan)'
  BY ConnectionStep, TypeStep DEF OneConnectionEach
<1> QED
  BY <1>1, <1>2, PTL DEF Spec

-----------------------------------------------------------------------------
\* The order of what is under way: what was told comes before what is on the way
\* on the client's socket, that before the event of a fan-out which has yet to
\* visit the socket, and all of it before the queue.

QueueOrder == Rising(queue) /\ Above(queue, fan.event)

SocketOrder(s) ==
  /\ Rising(down[s])
  /\ Before(down[s], queue)
  /\ s \in fan.left => Below(down[s], fan.event)
  /\ line[s] = "closed" => down[s] = <<>>

TellOrder(c) ==
  /\ Rising(got[c])
  /\ Before(got[c], queue)
  /\ ws[c] # None => Before(got[c], down[ws[c]])
  /\ ws[c] \in fan.left => Below(got[c], fan.event)

OrderInv ==
  /\ QueueOrder
  /\ \A s \in Sockets : SocketOrder(s)
  /\ \A c \in Clients : TellOrder(c)

LEMMA SeqsOfNumbers ==
  ASSUME TypeOK
  PROVE  /\ produced \in Nat /\ polled \in Nat /\ fan.event \in Nat
         /\ 1..polled \subseteq Nat
         /\ queue \in Seq(Nat)
         /\ \A s \in Sockets : down[s] \in Seq(Nat)
         /\ \A c \in Clients : got[c] \in Seq(Nat)
<1>1. LastEvent \in Nat /\ produced \in Nat /\ polled \in Nat /\ fan.event \in Nat
  BY BridgeAssumption DEF TypeOK, BridgeTypeOK
<1>2. 1..polled \subseteq Nat
  OBVIOUS
<1>3. Seq(1..polled) \subseteq Seq(Nat)
  BY <1>2, SeqMonotonic
<1> QED
  BY <1>1, <1>2, <1>3 DEF TypeOK, BridgeTypeOK

LEMMA PollOrders ==
  ASSUME TypeOK, OrderInv, Poll, UNCHANGED client
  PROVE  OrderInv'
<1>0. /\ queue \in Seq(Nat) /\ polled + 1 \in Nat /\ fan.event \in Nat
      /\ \A s \in Sockets : down[s] \in Seq(Nat)
      /\ \A c \in Clients : got[c] \in Seq(Nat)
  BY SeqsOfNumbers
<1>1. /\ queue' = Append(queue, polled + 1)
      /\ UNCHANGED <<fan, line, down, ws, got>>
  BY DEF Poll
<1>2. \A q \in Seq(1..polled) : Below(q, polled + 1)
  <2>1. SUFFICES ASSUME NEW q \in Seq(1..polled), NEW i \in DOMAIN q PROVE q[i] < polled + 1
    BY DEF Below
  <2>2. q[i] \in 1..polled
    <3>1. i \in 1..Len(q)
      OBVIOUS
    <3> QED
      BY <3>1, ElementOfSeq
  <2> QED
    BY <1>0, <2>2, SeqsOfNumbers
<1>3. /\ Below(queue, polled + 1)
      /\ \A s \in Sockets : Below(down[s], polled + 1)
      /\ \A c \in Clients : Below(got[c], polled + 1)
  BY <1>2 DEF TypeOK, BridgeTypeOK
<1>4. fan.event < polled + 1
  BY SeqsOfNumbers DEF TypeOK, BridgeTypeOK
<1>5. QueueOrder'
  <2>1. Rising(queue')
    BY <1>0, <1>1, <1>3, AppendRises DEF OrderInv, QueueOrder
  <2>2. Above(queue', fan.event)
    BY <1>0, <1>1, <1>4, AppendAbove DEF OrderInv, QueueOrder
  <2> QED
    BY <1>1, <2>1, <2>2 DEF QueueOrder
<1>6. ASSUME NEW s \in Sockets PROVE SocketOrder(s)'
  <2>1. Before(down[s], queue')
    BY <1>0, <1>1, <1>3, BeforeAppend DEF OrderInv, SocketOrder
  <2> QED
    BY <1>1, <2>1 DEF OrderInv, SocketOrder
<1>7. ASSUME NEW c \in Clients PROVE TellOrder(c)'
  <2>1. Before(got[c], queue')
    BY <1>0, <1>1, <1>3, BeforeAppend DEF OrderInv, TellOrder
  <2> QED
    BY <1>1, <2>1 DEF OrderInv, TellOrder
<1> QED
  BY <1>5, <1>6, <1>7 DEF OrderInv

LEMMA RestartOrders ==
  ASSUME TypeOK, OrderInv, Restart, UNCHANGED client
  PROVE  OrderInv'
<1>1. /\ queue' = <<>> /\ fan' = NoFanOut
      /\ UNCHANGED <<line, down, ws, got>>
  BY DEF Restart
<1>2. Rising(queue') /\ \A x : Above(queue', x) /\ Before(x, queue')
  BY <1>1 DEF Rising, Above, Before
<1> QED
  BY <1>1, <1>2 DEF OrderInv, QueueOrder, SocketOrder, TellOrder, NoFanOut

LEMMA BeginFanOutOrders ==
  ASSUME TypeOK, OrderInv, BeginFanOut, UNCHANGED client
  PROVE  OrderInv'
<1>0. /\ queue \in Seq(Nat) /\ queue # <<>>
      /\ \A s \in Sockets : down[s] \in Seq(Nat)
      /\ \A c \in Clients : got[c] \in Seq(Nat)
  BY SeqsOfNumbers DEF BeginFanOut
<1>1. /\ fan'.event = Head(queue) /\ queue' = Tail(queue)
      /\ UNCHANGED <<line, down, ws, got>>
  BY DEF BeginFanOut
<1>2. Rising(queue)
  BY DEF OrderInv, QueueOrder
<1>3. QueueOrder'
  BY <1>0, <1>1, <1>2, TailRises DEF QueueOrder
<1>4. ASSUME NEW s \in Sockets PROVE SocketOrder(s)'
  <2>1. Before(down[s], queue)
    BY DEF OrderInv, SocketOrder
  <2>2. Before(down[s], Tail(queue)) /\ Below(down[s], Head(queue))
    BY <1>0, <1>2, <2>1, TailRises
  <2> QED
    BY <1>1, <2>2 DEF OrderInv, SocketOrder
<1>5. ASSUME NEW c \in Clients PROVE TellOrder(c)'
  <2>1. Before(got[c], queue)
    BY DEF OrderInv, TellOrder
  <2>2. Before(got[c], Tail(queue)) /\ Below(got[c], Head(queue))
    BY <1>0, <1>2, <2>1, TailRises
  <2> QED
    BY <1>1, <2>2 DEF OrderInv, TellOrder
<1> QED
  BY <1>3, <1>4, <1>5 DEF OrderInv

\* Whether the frame arrives or not, the socket is not visited again.
LEMMA SendOrders ==
  ASSUME TypeOK, OrderInv, NEW s \in Sockets, Send(s), UNCHANGED client
  PROVE  OrderInv'
<1>0. /\ queue \in Seq(Nat) /\ fan.event \in Nat
      /\ \A x \in Sockets : down[x] \in Seq(Nat)
      /\ \A c \in Clients : got[c] \in Seq(Nat)
  BY SeqsOfNumbers
<1>1. UNCHANGED <<queue, line, ws, got>>
  BY DEF Send
<1>2. s \in fan.left
  BY DEF Send, Due
<1>3. fan'.event = fan.event /\ fan'.left \subseteq fan.left \ {s}
  <2>1. PICK passed \in SUBSET (fan.left \ Due) :
           \/ fan' = [fan EXCEPT !.left = (@ \ passed) \ {s}]
           \/ fan' = [fan EXCEPT !.left = (@ \ passed) \ {s}, !.dead = @ \cup {s}]
    BY DEF Send
  <2>2. fan \in [event : 0..polled, left : SUBSET Sockets, dead : SUBSET Sockets]
    BY DEF TypeOK, BridgeTypeOK
  <2> QED
    BY <2>1, <2>2
<1>4. down \in [Sockets -> Seq(1..polled)]
  BY DEF TypeOK, BridgeTypeOK
<1>5. \/ down' = down
      \/ down' = [down EXCEPT ![s] = Append(@, fan.event)] /\ line[s] # "closed"
  BY DEF Send, Arrives
<1>6. QueueOrder'
  BY <1>1, <1>3 DEF OrderInv, QueueOrder
<1>7. CASE down' = down
  BY <1>1, <1>3, <1>6, <1>7 DEF OrderInv, SocketOrder, TellOrder
<1>8. CASE down' = [down EXCEPT ![s] = Append(@, fan.event)] /\ line[s] # "closed"
  <2>1. down'[s] = Append(down[s], fan.event) /\ \A x \in Sockets \ {s} : down'[x] = down[x]
    BY <1>4, <1>8
  <2>2. SocketOrder(s)'
    <3>1. Rising(down[s]) /\ Before(down[s], queue) /\ Below(down[s], fan.event)
      BY <1>2 DEF OrderInv, SocketOrder
    <3>2. Rising(down'[s])
      BY <1>0, <2>1, <3>1, AppendRises
    <3>3. Before(down'[s], queue)
      BY <1>0, <2>1, <3>1, AppendBefore DEF OrderInv, QueueOrder
    <3> QED
      BY <1>1, <1>3, <1>8, <3>2, <3>3 DEF SocketOrder
  <2>3. ASSUME NEW x \in Sockets \ {s} PROVE SocketOrder(x)'
    BY <1>1, <1>3, <2>1 DEF OrderInv, SocketOrder
  <2>4. ASSUME NEW c \in Clients PROVE TellOrder(c)'
    <3>1. ws[c] # None => Before(got[c], down'[ws[c]])
      <4>1. CASE ws[c] = s
        <5>1. ws[c] # None
          BY <4>1, MobileAssumption
        <5>2. Before(got[c], down[s]) /\ Below(got[c], fan.event)
          BY <1>2, <4>1, <5>1 DEF OrderInv, TellOrder
        <5> QED
          BY <1>0, <2>1, <4>1, <5>2, BeforeAppend
      <4>2. CASE ws[c] # s
        BY <2>1, <4>2 DEF OrderInv, TellOrder, TypeOK
      <4> QED
        BY <4>1, <4>2
    <3> QED
      BY <1>1, <1>3, <3>1 DEF OrderInv, TellOrder
  <2> QED
    BY <1>6, <2>2, <2>3, <2>4 DEF OrderInv
<1> QED
  BY <1>5, <1>7, <1>8

LEMMA BridgeOrders ==
  ASSUME TypeOK, OrderInv, BridgeNext, UNCHANGED client
  PROVE  OrderInv'
<1>1. CASE Produce \/ ConsumerFails \/ \E s \in Sockets : ReadSubscription(s) \/ HandlerEnds(s)
  <2>1. UNCHANGED <<queue, fan, line, down, ws, got>>
    BY <1>1 DEF Produce, ConsumerFails, ReadSubscription, HandlerEnds
  <2> QED
    BY <2>1 DEF OrderInv, QueueOrder, SocketOrder, TellOrder
<1>2. ASSUME NEW s \in Sockets, Accept(s) PROVE OrderInv'
  <2>1. UNCHANGED <<queue, fan, down, ws, got>>
    BY <1>2 DEF Accept, JoinHub
  <2>2. \A x \in Sockets : line'[x] = "closed" => line[x] = "closed"
    BY <1>2 DEF Accept, TypeOK, BridgeTypeOK
  <2> QED
    BY <2>1, <2>2 DEF OrderInv, QueueOrder, SocketOrder, TellOrder
<1>3. ASSUME NEW s \in Sockets, Drop(s) PROVE OrderInv'
  <2>1. UNCHANGED <<queue, line, down, ws, got>>
    BY <1>3 DEF Drop
  <2>2. fan'.event = fan.event /\ fan'.left = {}
    BY <1>3 DEF Drop, TypeOK, BridgeTypeOK
  <2> QED
    BY <2>1, <2>2 DEF OrderInv, QueueOrder, SocketOrder, TellOrder
<1>4. CASE EndFanOut
  <2>1. UNCHANGED <<queue, line, down, ws, got>> /\ fan' = NoFanOut
    BY <1>4 DEF EndFanOut
  <2>2. Above(queue, 0)
    BY ElementOfSeq, SeqsOfNumbers DEF TypeOK, BridgeTypeOK, Above
  <2> QED
    BY <2>1, <2>2 DEF OrderInv, QueueOrder, SocketOrder, TellOrder, NoFanOut
<1> QED
  BY <1>1, <1>2, <1>3, <1>4, PollOrders, RestartOrders, BeginFanOutOrders, SendOrders
     DEF BridgeNext

\* Nothing is on the way on a socket that is dialed, and no fan-out has it still
\* to visit.
LEMMA OpenOrders ==
  ASSUME TypeOK, OrderInv, NEW c \in Clients, Open(c), UNCHANGED <<queue, fan, got>>
  PROVE  OrderInv'
<1>1. PICK s \in Sockets : Dial(s) /\ ws' = [ws EXCEPT ![c] = s]
  BY DEF Open
<1>2. /\ line[s] = "closed" /\ s \notin fan.left
      /\ line' = [line EXCEPT ![s] = "dialing"] /\ down' = down
  BY <1>1 DEF Dial, Unused
<1>3. /\ ws \in [Clients -> Sockets \cup {None}]
      /\ line \in [Sockets -> {"closed", "dialing", "accepted", "open"}]
  BY DEF TypeOK, BridgeTypeOK
<1>4. QueueOrder'
  BY DEF OrderInv, QueueOrder
<1>5. ASSUME NEW x \in Sockets PROVE SocketOrder(x)'
  <2>1. line'[x] = "closed" => line[x] = "closed"
    BY <1>2, <1>3
  <2> QED
    BY <1>2, <2>1 DEF OrderInv, SocketOrder
<1>6. ASSUME NEW d \in Clients PROVE TellOrder(d)'
  <2>1. CASE d = c
    <3>1. ws'[d] = s
      BY <1>1, <1>3, <2>1
    <3>2. Before(got[d], down[s])
      <4>1. down[s] = <<>>
        BY <1>2 DEF OrderInv, SocketOrder
      <4> QED
        BY <4>1 DEF Before
    <3> QED
      BY <1>2, <3>1, <3>2 DEF OrderInv, TellOrder
  <2>2. CASE d # c
    <3>1. ws'[d] = ws[d]
      BY <1>1, <1>3, <2>2
    <3> QED
      BY <1>2, <3>1 DEF OrderInv, TellOrder
  <2> QED
    BY <2>1, <2>2
<1> QED
  BY <1>4, <1>5, <1>6 DEF OrderInv

LEMMA HangUpOrders ==
  ASSUME TypeOK, OrderInv, NEW c \in Clients, ws' = [ws EXCEPT ![c] = None],
         IF ws[c] = None THEN UNCHANGED wire ELSE HangUp(ws[c]),
         UNCHANGED <<queue, fan, got>>
  PROVE  OrderInv'
<1>1. /\ ws \in [Clients -> Sockets \cup {None}]
      /\ line \in [Sockets -> {"closed", "dialing", "accepted", "open"}]
      /\ down \in [Sockets -> Seq(1..polled)]
      /\ None \notin fan.left
  BY MobileAssumption DEF TypeOK, BridgeTypeOK
<1>2. QueueOrder'
  BY DEF OrderInv, QueueOrder
<1>3. \A x \in Sockets :
        \/ down'[x] = <<>>
        \/ down'[x] = down[x] /\ line'[x] = line[x]
  BY <1>1 DEF HangUp
<1>4. Rising(<<>>) /\ \A q : Before(<<>>, q) /\ Before(q, <<>>) /\ Below(<<>>, q)
  BY DEF Rising, Before, Below
<1>5. ASSUME NEW x \in Sockets PROVE SocketOrder(x)'
  BY <1>3, <1>4 DEF OrderInv, SocketOrder
<1>6. ASSUME NEW d \in Clients PROVE TellOrder(d)'
  <2>1. ws'[d] \in {None, ws[d]}
    BY <1>1
  <2>2. ws[d] # None => Before(got[d], down'[ws[d]])
    BY <1>1, <1>3, <1>4 DEF OrderInv, TellOrder
  <2> QED
    BY <1>1, <2>1, <2>2 DEF OrderInv, TellOrder
<1> QED
  BY <1>2, <1>5, <1>6 DEF OrderInv

\* What is told comes after all that was told before.
LEMMA OnMessageOrders ==
  ASSUME TypeOK, OrderInv, NEW c \in Clients, OnMessage(c)
  PROVE  OrderInv' /\ Below(got[c], Head(down[ws[c]]))
<1> DEFINE s == ws[c]
           e == Head(down[s])
<1>1. /\ s \in Sockets /\ s # None /\ down[s] # <<>>
      /\ got' = [got EXCEPT ![c] = Append(@, e)]
      /\ down' = [down EXCEPT ![s] = Tail(@)]
      /\ UNCHANGED <<queue, fan, line, ws>>
  BY DEF OnMessage, TypeOK
<1>2. /\ queue \in Seq(Nat) /\ fan.event \in Nat
      /\ \A x \in Sockets : down[x] \in Seq(Nat)
      /\ \A d \in Clients : got[d] \in Seq(Nat)
  BY SeqsOfNumbers
<1>3. e \in Nat
  BY <1>1, <1>2, HeadTailProperties
<1>4. /\ down'[s] = Tail(down[s]) /\ \A x \in Sockets \ {s} : down'[x] = down[x]
      /\ got'[c] = Append(got[c], e) /\ \A d \in Clients \ {c} : got'[d] = got[d]
  BY <1>1 DEF TypeOK, BridgeTypeOK
<1>5. /\ Rising(down[s]) /\ Before(down[s], queue) /\ Before(got[c], down[s])
      /\ s \in fan.left => Below(down[s], fan.event)
      /\ Rising(got[c]) /\ Before(got[c], queue)
      /\ s \in fan.left => Below(got[c], fan.event)
  BY <1>1 DEF OrderInv, SocketOrder, TellOrder
<1> HIDE DEF s, e
<1>6. /\ Rising(Tail(down[s])) /\ Above(Tail(down[s]), e)
      /\ s \in fan.left => Below(Tail(down[s]), fan.event) /\ e < fan.event
      /\ Before(got[c], Tail(down[s])) /\ Below(got[c], e)
      /\ Before(Tail(down[s]), queue) /\ Above(queue, e)
  BY <1>1, <1>2, <1>5, TailRises DEF e
<1>7. QueueOrder'
  BY <1>1 DEF OrderInv, QueueOrder
<1>8. ASSUME NEW x \in Sockets PROVE SocketOrder(x)'
  <2>1. CASE x = s
    <3>1. line[s] = "closed" => Tail(down[s]) = <<>>
      BY <1>1 DEF OrderInv, SocketOrder
    <3> QED
      BY <1>1, <1>4, <1>6, <2>1, <3>1 DEF SocketOrder
  <2>2. CASE x # s
    BY <1>1, <1>4, <2>2 DEF OrderInv, SocketOrder
  <2> QED
    BY <2>1, <2>2
<1>9. ASSUME NEW d \in Clients PROVE TellOrder(d)'
  <2>1. CASE d = c
    <3>1. Rising(got'[c])
      BY <1>2, <1>3, <1>4, <1>5, <1>6, AppendRises
    <3>2. Before(got'[c], queue)
      BY <1>2, <1>3, <1>4, <1>5, <1>6, AppendBefore
    <3>3. Before(got'[c], down'[s])
      <4>1. Tail(down[s]) \in Seq(Nat)
        BY <1>1, <1>2, HeadTailProperties
      <4> QED
        BY <1>2, <1>3, <1>4, <1>6, <4>1, AppendBefore
    <3>4. s \in fan.left => Below(got'[c], fan.event)
      BY <1>2, <1>3, <1>4, <1>5, <1>6, AppendBelow
    <3> QED
      BY <1>1, <2>1, <3>1, <3>2, <3>3, <3>4 DEF TellOrder, s
  <2>2. CASE d # c
    <3>1. /\ Rising(got[d]) /\ Before(got[d], queue)
          /\ ws[d] # None => Before(got[d], down[ws[d]])
          /\ ws[d] \in fan.left => Below(got[d], fan.event)
      BY DEF OrderInv, TellOrder
    <3>2. ws[d] # None => Before(got[d], down'[ws[d]])
      <4>1. CASE ws[d] = s
        BY <1>1, <1>2, <1>4, <1>5, <3>1, <4>1, TailRises
      <4>2. CASE ws[d] # s
        BY <1>4, <3>1, <4>2 DEF TypeOK
      <4> QED
        BY <4>1, <4>2
    <3> QED
      BY <1>1, <1>4, <2>2, <3>1, <3>2 DEF TellOrder
  <2> QED
    BY <2>1, <2>2
<1> QED
  BY <1>6, <1>7, <1>8, <1>9 DEF OrderInv, s, e

LEMMA OrderStep ==
  ASSUME TypeOK, OrderInv, [Next]_vars
  PROVE  OrderInv'
<1>1. ASSUME NEW c \in Clients, Client(c) PROVE OrderInv'
  <2>1. CASE Start(c)
    BY <2>1, OpenOrders DEF Start
  <2>2. CASE Stop(c)
    BY <2>2, HangUpOrders DEF Stop
  <2>3. CASE OnClose(c)
    BY <2>3, HangUpOrders DEF OnClose
  <2>4. CASE OnMessage(c)
    BY <2>4, OnMessageOrders
  <2>5. CASE TimerFires(c)
    <3>1. UNCHANGED <<queue, fan, got>>
      BY <2>5 DEF TimerFires
    <3>2. CASE run[c]
      BY <2>5, <3>1, <3>2, OpenOrders DEF TimerFires
    <3>3. CASE ~run[c]
      BY <2>5, <3>1, <3>3 DEF TimerFires, OrderInv, QueueOrder, SocketOrder, TellOrder
    <3> QED
      BY <3>2, <3>3
  <2>6. ASSUME NEW t \in Topics, Subscribe(c, t) PROVE OrderInv'
    BY <2>6 DEF Subscribe, OrderInv, QueueOrder, SocketOrder, TellOrder
  <2>7. CASE OnOpen(c)
    <3>1. UNCHANGED <<queue, fan, down, ws, got>>
      BY <2>7 DEF OnOpen
    <3>2. \A x \in Sockets : line'[x] = "closed" => line[x] = "closed"
      BY <2>7 DEF OnOpen, TypeOK, BridgeTypeOK
    <3> QED
      BY <3>1, <3>2 DEF OrderInv, QueueOrder, SocketOrder, TellOrder
  <2> QED
    BY <1>1, <2>1, <2>2, <2>3, <2>4, <2>5, <2>6, <2>7 DEF Client
<1>2. CASE UNCHANGED vars
  BY <1>2 DEF vars, bridgeVars, OrderInv, QueueOrder, SocketOrder, TellOrder
<1> QED
  BY <1>1, <1>2, BridgeOrders, NextByActor

LEMMA OrderBegins ==
  ASSUME Init
  PROVE  OrderInv
<1>1. Rising(<<>>) /\ \A q : Before(<<>>, q) /\ Below(<<>>, q) /\ Above(<<>>, q)
  BY DEF Rising, Before, Below, Above
<1> QED
  BY <1>1 DEF Init, BridgeInit, NoFanOut, OrderInv, QueueOrder, SocketOrder, TellOrder

\* The only steps a listener sees: an event is produced, or it is told a later one.
LEMMA StepOfStream ==
  ASSUME TypeOK, OrderInv, [Next]_vars
  PROVE  [Stream!Next]_<<produced, got>>
<1>1. CASE BridgeNext /\ UNCHANGED client
  <2>1. CASE Produce
    BY <1>1, <2>1 DEF Produce, Stream!Next, Stream!Produce
  <2>2. CASE ~Produce
    <3>1. UNCHANGED <<produced, got>>
      BY <1>1, <2>2 DEF BridgeNext, Poll, ConsumerFails, Restart, BeginFanOut, Send, Drop,
                        EndFanOut, Accept, ReadSubscription, HandlerEnds
    <3> QED
      BY <3>1
  <2> QED
    BY <2>1, <2>2
<1>2. ASSUME NEW c \in Clients, Client(c) PROVE [Stream!Next]_<<produced, got>>
  <2>1. CASE OnMessage(c)
    <3>1. Below(got[c], Head(down[ws[c]]))
      BY <2>1, OnMessageOrders
    <3>2. Head(down[ws[c]]) \in 1..polled
      <4>1. down[ws[c]] \in Seq(1..polled) /\ down[ws[c]] # <<>>
        BY <2>1 DEF OnMessage, TypeOK, BridgeTypeOK
      <4> QED
        BY <4>1, HeadTailProperties
    <3>3. Head(down[ws[c]]) \in 1..produced
      BY <3>2, SeqsOfNumbers DEF TypeOK, BridgeTypeOK
    <3>4. Stream!Tell(c)
      BY <2>1, <3>1, <3>3 DEF OnMessage, Stream!Tell, Below
    <3> QED
      BY <3>4 DEF Stream!Next
  <2>2. CASE ~OnMessage(c)
    BY <1>2, <2>2 DEF Client, Start, Stop, Subscribe, OnOpen, OnClose, TimerFires
  <2> QED
    BY <2>1, <2>2
<1>3. CASE UNCHANGED vars
  BY <1>3 DEF vars, bridgeVars
<1> QED
  BY <1>1, <1>2, <1>3, NextByActor

\* Whatever the order of fan-outs, connections that are lost and made again,
\* restarts of the bridge and of its consumer, the mobile client implements the
\* stream of events: each is told at most once, in the order of the topic.
THEOREM StreamHolds == Spec => ImplementsStream
<1>1. Init => TypeOK /\ IdleFan /\ OrderInv
  BY TypeBegins, OrderBegins
<1>2. TypeOK /\ IdleFan /\ OrderInv /\ [Next]_vars => (TypeOK /\ IdleFan /\ OrderInv)'
  BY TypeStep, OrderStep
<1>3. Init => Stream!Init
  BY DEF Init, BridgeInit, Stream!Init
<1>4. TypeOK /\ IdleFan /\ OrderInv /\ [Next]_vars => [Stream!Next]_<<produced, got>>
  BY StepOfStream
<1> QED
  BY <1>1, <1>2, <1>3, <1>4, PTL DEF Spec, ImplementsStream, Stream!Spec
=============================================================================
