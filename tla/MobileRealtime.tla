--------------------------- MODULE MobileRealtime ---------------------------
(***************************************************************************)
(* The realtime client of the mobile app (realtimeClient.ts), one object   *)
(* per login (RealtimeContext.tsx), against the bridge: it connects again  *)
(* whenever its socket closes, after a delay, and then subscribes again to *)
(* all it was ever asked for.                                              *)
(***************************************************************************)
EXTENDS RealtimeBridge

CONSTANTS
  Clients,     \* the RealtimeClient objects
  None

ASSUME MobileAssumption == None \notin Sockets

VARIABLES
  run,         \* run[c]: shouldRun
  ws,          \* ws[c]: its socket, or None
  timer,       \* timer[c]: the reconnect timer is set
  want,        \* want[c]: the topics it was asked to subscribe to
  got          \* history: got[c]: the events its listeners were told

client == <<run, ws, timer, want, got>>
vars   == <<bridgeVars, client>>

Init ==
  /\ BridgeInit
  /\ run = [c \in Clients |-> FALSE]
  /\ ws = [c \in Clients |-> None]
  /\ timer = [c \in Clients |-> FALSE]
  /\ want = [c \in Clients |-> {}]
  /\ got = [c \in Clients |-> <<>>]

\* open: a new WebSocket.
Open(c) ==
  \E s \in Sockets :
    /\ Dial(s)
    /\ ws' = [ws EXCEPT ![c] = s]

\* The effect of RealtimeProvider, on login; React's strict mode runs it, its
\* cleanup and it again.
Start(c) ==
  /\ ~run[c]
  /\ run' = [run EXCEPT ![c] = TRUE]
  /\ Open(c)
  /\ UNCHANGED <<kafka, server, timer, want, got>>

\* Faulty: the reconnect timer goes on.
StopKeepingTimer(c) ==
  /\ run[c]
  /\ run' = [run EXCEPT ![c] = FALSE]
  /\ ws' = [ws EXCEPT ![c] = None]
  /\ IF ws[c] = None THEN UNCHANGED wire ELSE HangUp(ws[c])
  /\ UNCHANGED <<kafka, server, timer, want, got>>

\* Its cleanup, on logout.  The socket's onclose is taken off.
Stop(c) ==
  /\ run[c]
  /\ run' = [run EXCEPT ![c] = FALSE]
  /\ timer' = [timer EXCEPT ![c] = FALSE]
  /\ ws' = [ws EXCEPT ![c] = None]
  /\ IF ws[c] = None THEN UNCHANGED wire ELSE HangUp(ws[c])
  /\ UNCHANGED <<kafka, server, want, got>>

\* sendSubscribe: all topics, or nothing if the socket is not open.
SendTopics(s, ts) == up' = [up EXCEPT ![s] = Append(@, ts)]

\* subscribe, when a page is mounted.
Subscribe(c, t) ==
  /\ t \notin want[c]
  /\ want' = [want EXCEPT ![c] = @ \cup {t}]
  /\ IF ws[c] # None /\ line[ws[c]] = "open"
     THEN SendTopics(ws[c], want[c] \cup {t}) ELSE UNCHANGED up
  /\ UNCHANGED <<kafka, server, line, down, run, ws, timer, got>>

\* Faulty: topics are not asserted again.
OnOpenSilently(c) ==
  /\ ws[c] # None
  /\ line[ws[c]] = "accepted"
  /\ line' = [line EXCEPT ![ws[c]] = "open"]
  /\ UNCHANGED <<kafka, server, up, down, client>>

OnOpen(c) ==
  /\ ws[c] # None
  /\ line[ws[c]] = "accepted"
  /\ line' = [line EXCEPT ![ws[c]] = "open"]
  /\ IF want[c] # {} THEN SendTopics(ws[c], want[c]) ELSE UNCHANGED up
  /\ UNCHANGED <<kafka, server, down, client>>

OnMessage(c) ==
  LET s == ws[c]
  IN  /\ s # None
      /\ line[s] = "open"
      /\ down[s] # <<>>
      /\ got' = [got EXCEPT ![c] = Append(@, Head(down[s]))]
      /\ down' = [down EXCEPT ![s] = Tail(@)]
      /\ UNCHANGED <<kafka, server, line, up, run, ws, timer, want>>

\* onclose, whichever end or network has closed it, or refused it.
OnClose(c) ==
  /\ ws[c] # None
  /\ HangUp(ws[c])
  /\ ws' = [ws EXCEPT ![c] = None]
  /\ timer' = [timer EXCEPT ![c] = run[c]]
  /\ UNCHANGED <<kafka, server, run, want, got>>

TimerFires(c) ==
  /\ timer[c]
  /\ timer' = [timer EXCEPT ![c] = FALSE]
  /\ IF run[c] THEN Open(c) ELSE UNCHANGED <<wire, ws>>
  /\ UNCHANGED <<kafka, server, run, want, got>>

Client(c) ==
  \/ Start(c) \/ Stop(c) \/ (\E t \in Topics : Subscribe(c, t))
  \/ OnOpen(c) \/ OnMessage(c) \/ OnClose(c) \/ TimerFires(c)

Next == (Bridge /\ UNCHANGED client) \/ \E c \in Clients : Client(c)

Spec == Init /\ [][Next]_vars

\* The consumer thread, the tasks of the bridge and the callbacks of the app go
\* on.  A connection of which one end is gone is noticed to be closed by the
\* other, at the latest by a ping that is not answered.  Nothing is assumed of
\* the users, or of whether a connection succeeds.
FairSpec ==
  /\ Spec
  /\ WF_vars(Poll /\ UNCHANGED client)
  /\ WF_vars(FanOut /\ UNCHANGED client)
  /\ \A s \in Sockets :
       /\ WF_vars(ReadSubscription(s) /\ UNCHANGED client)
       /\ WF_vars(HandlerEnds(s) /\ line[s] = "closed" /\ UNCHANGED client)
  /\ \A c \in Clients :
       /\ WF_vars(OnOpen(c))
       /\ WF_vars(OnMessage(c))
       /\ WF_vars(OnClose(c) /\ ws[c] \notin hub)
       /\ WF_vars(TimerFires(c))

-----------------------------------------------------------------------------
TypeOK ==
  /\ BridgeTypeOK
  /\ run \in [Clients -> BOOLEAN]
  /\ ws \in [Clients -> Sockets \cup {None}]
  /\ timer \in [Clients -> BOOLEAN]
  /\ want \in [Clients -> SUBSET Topics]
  /\ got \in [Clients -> Seq(1..polled)]

\* Types.  However connections, logins and logouts follow one another, a client that was
\* stopped has no socket and no timer left that could revive it, one that runs
\* has either of them, and a socket is held by one client.
OneConnectionEach ==
  /\ TypeOK
  /\ \A c \in Clients :
       /\ run[c] <=> (ws[c] # None \/ timer[c])
       /\ ~(ws[c] # None /\ timer[c])
       /\ ws[c] # None =>
            /\ line[ws[c]] # "closed"
            /\ \A d \in Clients \ {c} : ws[d] # ws[c]

\* Over any number of reconnects a listener is told each event at most once and
\* in the order of the topic: a fan-out works on the clients there were when it
\* began, so a client that comes back during it is not sent the event again.
Stream == INSTANCE EventStream WITH Listeners <- Clients

ImplementsStream == Stream!Spec

\* realtimeClient.ts: "remembers desired topics and re-subscribes on every
\* (re)connect".  A client that stays connected ends up subscribed to all it
\* was asked for.
Connected(c) == ws[c] # None /\ line[ws[c]] = "open" /\ ws[c] \in hub

Subscribed(c) == Connected(c) /\ want[c] \subseteq topics[ws[c]]

Resubscribes == \A c \in Clients : <>[]Connected(c) => <>[]Subscribed(c)

\* bridge.py: a client the fan-out could not reach is dropped.  So a client that
\* stays connected and subscribed is told every event the bridge polls from then
\* on, in spite of connections that are gone and still hold the fan-out up.
Reached(c, e) == Connected(c) /\ KeysOf[e] \cap topics[ws[c]] # {}

Told(c, e) == \E k \in DOMAIN got[c] : got[c][k] = e

Delivers ==
  \A c \in Clients, e \in 1..LastEvent :
    [](polled < e /\ []Reached(c, e) => (produced >= e ~> Told(c, e) \/ e \in skipped))
=============================================================================
