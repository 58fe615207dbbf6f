# Fleet-Dispatcher: TLA+ models, model checking and proofs

Fleet-Dispatcher is a trucking fleet system: a generated REST API with declarative
business rules (ApiLogicServer and LogicBank) over PostgreSQL, a mobile portal for
drivers (React), a desktop for dispatchers (Wt, C++), and services around them
that follow what the API changes (geospatial, realtime, integration). This
directory models the parts in which several of these act on the same rows or the
same list at the same time, checks them with TLC and proves the central results
with TLAPS.

## 1. The system

### 1.1 Components, their state, their operations

| Component | State | Operations | Source |
|---|---|---|---|
| Waypoint ordering rules | `waypoint.seq` of each trip, `UNIQUE (trip_id, seq)` deferred | insert, move, delete of a stop; each renumbers the siblings in the same transaction | `als-extensions/logic_discovery/route_governance.py`, `database/schema.sql` |
| Route recompute and optimizer | `route` rows, `waypoint.seq` | on every event: read the lock, read the stops, order them, write the order, replace the route | `geospatial/app/recompute.py`, `optimize.py`, `recompute_consumer.py` |
| Geospatial web endpoint | none | `POST /route/recompute/{trip_id}` runs the same function in a thread of its own, beside the consumer's | `geospatial/app/main.py` |
| ALS event producers | none | for a row that was inserted or updated and for which rules fire, emit an event to Kafka, after the flush and before the commit; none for a delete | `als-extensions/logic_discovery/fleet_events.py` |
| Mobile trip and waypoint pages | the list shown | lock, add, remove, drag, resume, reload | `portals/mobile/src/pages/TripWaypointsPage.tsx`, `TripDetailPage.tsx` |
| Comms rules: unread counts | `channel_member.unread_count`, `last_read_at` | bump by a post, count again by a mark-as-read | `als-extensions/logic_discovery/comms_governance.py` |
| Comms rules: permissions | channel, topic, membership | refuse a post or a new topic | same |
| Desktop conversation view | list of messages, badges, reads in flight | select, poll, push, send, answers | `portals/dispatcher-desktop/src/CommPanel.cpp`, `CommBus.cpp` |
| Its tools | composer, topics, reply, pins, attachments, export | ask and answer, per channel | `CommPanel.cpp` |
| Mobile conversation views | list of messages, badges | load, stream, send, mark as read | `portals/mobile/src/pages/ChannelPage.tsx`, `ChannelsPage.tsx` |
| Realtime bridge | queue, hub of clients | consume, fan out, subscribe, drop | `realtime/app/bridge.py` |
| Mobile / desktop realtime client | socket, reconnect timer; worker thread | connect, back off, stop | `realtimeClient.ts`, `RealtimeClient.cpp` |
| Desktop buses | subscribers | publish, post to a session, unsubscribe | `CommBus.cpp`, `PositionBus.cpp`, `HudControlBus.cpp` |
| Desktop map and HUD | fixes, live and read; the mode of a HUD | reload, push, command | `MapView.cpp`, `HudView.cpp` |
| Desktop shell and its views | work area, rail, mode, toasts; what a view has got | sign in, menu, modes, forms, answers | `main.cpp`, `Shell.cpp`, `Toaster.cpp`, `BoardView.cpp`, `LoginView.cpp`, `LoadForm.cpp`, `FleetView.cpp`, `SavedView.cpp`, `ProfileView.cpp` |
| Desktop API client | the token | a request per call, two callbacks | `ApiClient.cpp` |
| Mobile session | token, user | login, logout, restore, 401 | `AuthContext.tsx` |
| Fleet rules | load assignments, out-of-service windows, odometer, leases, maintenance | refuse, derive, tick | `fleet_governance.py` |
| Smitty poller | the external source and our copies | passes, upsert by lookup | `integration/smitty_poller.py` |
| Routing and authentication providers, assistant | none of their own | one request each | see `PROJECT.json` |

### 1.2 How they interact

```
 mobile pages --PATCH/POST--> API + rules --SQL--> PostgreSQL <--SQL-- recompute (per instance
      ^                          |  event, after the flush,               ^       a consumer,
      |                          |  before the commit                     |       and on demand)
      +---- reload ----+         v                                        |
                       |       Kafka ------------- trip, waypoint --------+
                       |         |
 desktop panels <-- CommBus ------ realtime bridge <-- message, position, ...
 maps and HUDs  <-- PositionBus <-- RealtimeClient (one worker per server)
 HUDs           <-- HudControlBus <-- board modes of the consoles
```

Five facts make this hard, and the models keep each of them:

* **Transactions read at READ COMMITTED and write absolute values.** A rule queries
  rows, works out new numbers in Python, and its UPDATEs store those numbers. Row
  locks order the UPDATEs; nothing protects the query. This holds for
  `waypoint.seq` and for `unread_count`.
* **The event is sent before the commit** (`after_flush_row_event`), and a delete
  sends none. Who answers the event may read the state before the change it is
  about, or a change that is rolled back later.
* **Every consumer group starts at the latest offset** and has a random name: every
  instance gets every event, and a restart forgets those of its downtime.
* **Views are fed in several ways that nothing orders**: snapshots in flight, answers
  to their own requests, pushes by the in-process bus, pushes by the bridge.
* **Nothing cancels a request of the desktop.** A Wt session handles one event at a
  time, but an answer runs a callback that holds the view that asked (`[this]`), which
  the user may have left, and compares, or not, the channel it was for.

### 1.3 What makes each component correct

* Ordering: a trip's stops are numbered 1..N without gaps or duplicates; a write
  changes one stop's place and keeps the others in their order; an intermediate stop
  does not end up behind the destination.
* Recompute: a permutation with anchored ends, idempotent; of the route rows of a trip no
  two by one thread; a route that visits the stops there are, in their order; a locked
  trip is not reordered again and again; every event is handled, though instances, calls
  and drivers wait for each other's rows.
* Unread counts: the count the schema defines, by whichever of the two ways it was
  worked out; never too many; a mark-as-read repairs it.
* Conversation view: shows the channel that is selected, each message once, and agrees
  with the database in the end; no badge for what is being looked at.
* Realtime: an app is told each event at most once and in order, over any number of
  reconnects; one that stays connected is subscribed to all it asked for and told all
  that comes; a stopped client stays stopped, a running one keeps trying.
* Tools of a conversation: what is shown and sent is of the selected channel; the
  composer and the topic button agree with the server's rule; each attachment once.
* Maps and HUDs: the latest fix of every rig in the end; HUDs agree on the last
  command; nothing is handed to a view that is gone; the server can be stopped.
* Shell: the frame fits the view, also after detours; the token is the user's; a user
  who waits for what was asked for meets no answer for a view that is gone, but to the
  reads of timers; the board has the loads it announced, in their columns.
* Mobile session, fleet rules, poller (not modelled): a late answer does not end a new
  session; a vehicle that is out of service is not dispatched; an external row is
  stored once.

The `hazards` list of `PROJECT.json` has each way in which these can go wrong, at the
line where it bites, with the properties that look at it.

## 2. The modules

```
WaypointOrder ---- RouteGovernance ---- (refines) TripRoute
     |                    |
     |                    +---- StopOrder_proofs
     |                    |
RouteOptimizer ---- NearestNeighbor
     |      |
     |      +---- WaypointTxn ------ WaypointTxn_proofs
     +----------- RouteRecompute --- RouteRecompute_proofs

     WaypointOrder_proofs: the reshuffles; the three above build on it

UnreadCounts ---- Comms_proofs ---- CommPanel

RealtimeBridge ---- MobileRealtime ---- (refines) EventStream
                          |
                          +---- MobileRealtime_proofs

RealtimeClient ----\
SessionBus --- FleetMap --- LiveFleet ---- LiveFleet_proofs

ApiClient, Toaster, BoardView ---- Console ----\
                                    PanelTools --- DesktopSession ---- DesktopSession_proofs
```

A proof module that is about two models extends both, so the names of NearestNeighbor
and CommPanel say whose they are (`LoopSpec`, `PanelSpec`). Each `MC*` module gives the
constants of one of these their small values.

**WaypointOrder** has the reshuffles of `route_governance.py` as operators. A trip's
stops are a function from rows to `seq`; `PlaceSlots`/`ShiftForInsert` is
`_waypoint_place`, `ShiftForMove` is `_waypoint_reorder`, `Renumber` is
`_waypoint_densify`. A query without ORDER BY that takes the first of several
destinations is a set of possible slots.

**RouteGovernance** has one API write at a time: `InsertWaypoint`, `MoveWaypoint`,
`DeleteWaypoint`. A move names any slot of `Slots`, whatever the number of stops, for
the rule applies no bound and a page may show a list that is out of date; `beyond` is a
history of that. The middleware is not in the repository: the docstring of
`route_governance.py` says that the three hooks need sibling rows to be written by the
same commit, and that whether such writes fire rules again "varies by LogicBank
version". Here they are written and do not fire the ordering rules again, because
otherwise no renumbering would end in what the rule worked out; it is an assumption
about an external system, to be validated where the system is installed. **TripRoute**
is what the editor promises (a list; one gesture inserts, moves or removes one stop),
and `ImplementsList` says that RouteGovernance implements it under the mapping `route <-
AsList(seq)`.

**WaypointTxn** has the same writes, and the optimizer's, as transactions that
overlap. `Begin*` is the request reaching its server, where the middleware has loaded
the row (hence `old`); `DeleteRow` the flushed DELETE; `ReadStops` the rule's query
and the plan that follows from it; `UpdateRow` one UPDATE, which needs the row's lock;
`StaleRow`/`SkipRow` a row that is gone (the ORM raises, the optimizer's SQL matches
nothing); `Commit`/`UniqueViolation` the deferred constraint; `DeadlockVictim` the
deadlock detector, which takes any write of a cycle.

**RouteOptimizer** defines what `nearest_neighbor_order` may return, as a set of
numberings (`NearestOrders` by the distances, `OptimizedOrders` by the ends only);
**NearestNeighbor** is the loop, two recomputes in a row, and is checked against it.

**RouteRecompute** composes the pages, the API's event and the threads that recompute on
one trip: the consumer of each of `Instances`, and each of `Calls`, a POST of
`/route/recompute` that runs beside it. A gesture goes lock - write - reload as the page
does it, and its error paths are there: the lock request that fails, or whose answer is lost
while the server is still at it, and is swallowed; the write that is refused, fails, or
commits and is not heard of, and skips the reload; the reload that fails. A thread goes
`TakeEvent` or `PostRecompute` (and reads `route_locked`) - `ReadStops` - `PersistRow`, one
UPDATE after the other in the order of the new numbers - `SeeRoutes` and `DeleteRoutes` (the
DELETE, which first waits for another that removes the same rows) - `CommitRecompute`
(INSERT and COMMIT), or collides, or fails, or is restarted. An API write goes
`ReadSiblings` - `UpdateRow` - `Flushed` (and its events) - `CommitWrite`. Rows are locked
one by one, so that a recompute and a write can wait for each other: `InDeadlock` says who
may be the victim. That a write reads its row and the siblings in one step is an
abstraction; WaypointTxn takes these two apart. Whether siblings the rule has changed emit
events of their own depends on the version of the middleware, and is a constant,
`SiblingsTell`. `late` is a history that counts, for each thread, reorders of a locked trip.

**UnreadCounts** has posts and mark-as-reads of one channel as transactions: begin
(`posted_at` is the time of the begin, `last_read_at` the client's clock), queries,
commit, or rollback. `BumpCounts` keeps both numbers a bump may write, because whether
LogicBank runs the formula again for a row the event has written is not settled in
this repository. `base` and `series` are history variables.

**CommPanel** has panels of the desktop on one server. `post[m]` follows a message from
the request through flush (which feeds `stream`, the bridge) and commit to the answer;
`inbox[p]` is what is posted to the session of a panel; `fetch[p]` its reads in flight,
which answer in any order. A snapshot is described by what it contains, the stored
messages of its channel in the order of `posted` (`Snapshots`), and not by a recursive
filter, so that it can be reasoned about. The wrapping of `selectChannel`, `renderMessages`,
`onPushed`, `send` and the poll timer into one action each follows the one-callback-
at-a-time rule of a Wt session.

**RealtimeBridge** is the process of `bridge.py` and the two ends of its WebSockets:
the consumer thread (`Poll`, `ConsumerFails`), the handlers of connections (`Accept`,
`ReadSubscription`, `HandlerEnds`) and the one task that fans out, a `Send` per client
with a wait each, so that handlers run in between; `fan.left` is what remains of the
copy of `hub.clients` it walks over. **MobileRealtime** adds `realtimeClient.ts`:
`start`, `stop`, `subscribe`, the callbacks of its socket, the reconnect timer.
`HangUp` is either end's view that a connection is over; the other end notices later
(`HandlerEnds`, `OnClose`). **EventStream** is what the plane promises its listeners,
whatever connects and fails: each event at most once, in order. `ImplementsStream` says
that MobileRealtime implements it, with `got`, a history of what listeners were told.
`skipped`, the events a restart or a new consumer passes over, is a history too.

**RealtimeClient** is the desktop server's worker thread, a step per statement at which
`stop()` can come in between (`Top`, `Connect`, `PublishStream`, `NextRead`, `ReadFrame`,
`FrameHandled`, `CloseSocket`, `ResetStream`, `BackOff`), and the main thread
(`StopClient`, `CloseStream`, `Join`). Handshake and close have no timeout in the code:
`BridgeAnswers` is what only the bridge, or the network, can bring about, `AtBridge` that the
worker waits for it. **SessionBus** is one bus, of which the three of
the desktop are copies: `subs` is its table, `job` the publishing that holds its lock and
posts to one session after the other, `inbox` what waits for a session. **FleetMap** has
maps and HUDs: `positions[v]` is `positions_`, with each fix the format its time came in
(`form`), `read[v]` the request in flight; `told` is a history of what was published
while a HUD was open. **LiveFleet** puts them together with the reporting of positions and
the end of the server; a handler or an answer that meets a deleted view is undefined
behaviour: `RunPosted` and `ReadAnswered` take it as if the view were there, `Crash` ends
the process.

**ApiClient** says which answers each helper of `ApiClient.cpp` takes for a success (a 204
to a PATCH is none: its body does not parse). **Toaster** is a stack of toasts with its
sweeper, as a value. **BoardView** has the cells of the board, with days computed from
hours as `currentWeekDays` does, in weeks of 167, 168 and 169 hours. **Console** is a
session of the shell: `content` and `view` are the view in the work area and what it has
got, `req` the requests in flight, marked `gone` when their view was deleted. The
conversations in the rail, which every shell has, and those in the work area and the map
read on their own, first when they are made and then by a timer: `reads` says who has such
reads in flight, and whether the user caused them. `stray` says that there are requests of
deleted widgets, asked for or unasked, that can do nothing but crash. `calm`, `doubled`,
`wanted` and `announced` are histories that the properties need. **PanelTools** is the
rest of `CommPanel.cpp`: `asked` are its requests, which carry what their callback
captured (`chan`, `arg`) and what the API found; `SelectChannel` is `selectChannel` with
all it clears and asks for. What the panel lists, and offers to reply to and to pin, is
`Listed`: the messages of the selected channel and `strangers`, the user's own that were
answered for (`SendAnswered`) after another channel was selected, until the list is read
again (`Relisted`). A pin has the channel it was made in, which for a stranger is not that
of its message. `stamp` is how the API writes the end of a restriction, and by how much
zones and clocks shift it against the panel's: the server compares times
(`RestrictionActive`), the panel the text (`LaterText`). Of what is sent, one message is
followed; the list is the subject of CommPanel. `moved`, `latePins`, `judged` and `patient`
are histories.
**DesktopSession** opens the tools inside the console.

Definitions marked "Faulty" are plausible bugs, used by no specification: replacing
the correct definition by one of them breaks a property (`mutants` of `PROJECT.json`),
which is how each property is known to say something about the code.

## 3. The runs

| Run | Module | Shows |
|---|---|---|
| MCRouteGovernance | MCRouteGovernance | `DenseUnlessBeyond`; `ImplementsList` (refinement) |
| MCNearestNeighbor | MCNearestNeighbor | `ComputesNearestOrder` |
| TxnOverlap | MCWaypointTxn | `DenseUnlessDeleted`; `DeleteHeals`, `InsertLandsBeforeDestination` (steps); `EveryWriteEnds` (liveness) |
| RecomputeOne | MCRouteRecompute | `NumbersBounded`, `OneRouteEach`, `LateReordersBounded`; `RouteIsWhatIsStored` (steps); `EventsAreHandled` (liveness) |
| UnreadOverlap | MCUnreadCounts | `NeverTooMany`, `ExactInSeries`; `ReadReconciles` (steps) |
| PanelViews | MCCommPanel | `PanelTypeOK` (and no badge on the channel being viewed), `ShownTwiceOnlyByItsSender`, `ForeignOnlyByItsSender`; `Converges` (liveness) |
| MobileRealtime | MCMobileRealtime | `OneConnectionEach`; `ImplementsStream` (refinement); `Resubscribes`, `Delivers` (liveness) |
| LiveFleet | MCLiveFleet | `TypeOK` (and one late frame at most), `FixesComparable`, `HudsAgree`; `NothingPostedLate` (steps); `StopEnds`, `MapConverges` (liveness) |
| DesktopSession | MCDesktopSession | `TypeOK` (and the sweeper), `FrameAgrees`, `TokenOfUser`, `WaitingIsSafe`, `BoardShows`, `ToolsKeepToTheirChannel`, `GateMirrorsServer`, `ChipsOnce` |
| RecomputeLock | MCRouteRecompute | violated: `ManualOrderKept` |
| RecomputeEarlyEvent | MCRouteRecompute | violated: `QuietMeansFresh` |
| UnreadDrift | MCUnreadCounts | violated: `Exact` |

### 3.1 Bounds, and why they are enough

* **MCRouteGovernance**: five ids, a trip of three to begin with, room for another
  intermediate stop and a second destination; moves to any of the slots 1 to 5, whatever
  the length of the trip. Every branch of the three rules is taken: with and without a
  destination, several destinations, moves up and down and beyond the end, writes to a trip
  with gaps, an empty trip after deletes. The proofs (section 5) cover every size.
* **MCNearestNeighbor**: up to five stops with zero to two origins and destinations, in
  every order, with at most one slot unused (what a race of deletes leaves), at three
  places of a road. Three places give equal distances in every combination, which is
  where the choice of `min` matters; the loop looks at two stops at a time.
* **TxnOverlap**: three writes of every kind on a trip of three, one stop that can be
  added. Two writes interleave at every query and UPDATE; the third finds what the two
  left, gaps included, and closes cycles of three that wait for each other.
* **RecomputeOne**: a trip of three, locked or not, with room for one more; two gestures
  on one page, one instance and one call, of which `MaxTurns` allows two turns in all:
  two gestures, or a gesture and a call, or either of them and a fault (a request that
  fails, an answer that is lost, a restart). So a move follows an add under a stale read
  of the lock; two recomputes overlap, row by row, each other and a write, which is what
  makes a deadlock; and each of them can fail. Two gestures with a call, or several
  instances, are left to the proofs. `SiblingsTell` is FALSE here, TRUE in the two runs
  that end in a violation, where more events make it harder to miss a stop; the proofs
  hold for both values.
* **UnreadOverlap**: two members, three requests, three ticks, a client one tick ahead:
  an overlap, and a mark-as-read that finds what the overlap left; times that are
  equal, behind and ahead. The proofs cover every number of each.
* **PanelViews**: one panel, another session of its server and a mobile client; two
  messages, one of the panel and one of either of the others; two channels, two reads in
  flight: all orders in which bus, bridge, answers and snapshots can bring two messages,
  and a read that outlives the selection it was for. More messages would multiply the
  orders of arrival and not add to the ways a snapshot replaces the list.
* **MobileRealtime**: one client, two connections at a time, two events, of which one has
  two keys and one has one, two topics to subscribe to. The second connection is what a
  client that came back leaves behind at the bridge: a client the fan-out waits for,
  cannot reach and drops. Clients share nothing else in the bridge, so more of them
  add fan-outs of more sends, not other ways to meet one. Two events are what it takes
  to be out of order or told twice around a reconnect. Reconnects, logouts, restarts
  and failures are not bounded.
* **LiveFleet**: a map and a HUD, each in its session; two fixes of one rig, in either
  order, and one of no rig; two consoles that publish two commands at once. Every fix can
  be pushed, stored, both or neither, in any order; connections, reads and sessions come
  and go without a bound. More views or HUDs do not meet each other but on the buses,
  whose properties are proved for any number.
* **DesktopSession**: five gestures of one plan. A plan is a set of gestures that meet:
  signing in and out, the conversations and the rail, a form and the board, the profile,
  what is picked, the saved messages; each may be done several times and in any order.
  The week plan runs at every hour of three kinds of weeks. The timers of the rail and
  of the map read in the plan marked "late" only: what a stray answer of theirs does is
  the same in all. In the tool plan the session opens the conversations and uses one
  tool, three times (sending and pinning: four), selections included: to select, ask,
  leave and come back. Two channels, one of them a broadcast, a message and a topic in
  each, an upload of the user's and one of another user's. Two tools share nothing but
  the selection. Restrictions end at either of two times (`Untils`), of which the second
  begins a day (`Midnights`), time passes until the second (`LastTime`), and `Stamps`
  has each way of writing an end once: as the panel does, with a fraction, with a blank,
  shifted either way. Two attempts to sign in are under way at once, at most
  (`MaxSubmits`): they share a token, and a third would share it with the second. It is
  the largest run: 1.6 million states, about 70 s.

`MaxTime`, `Ahead`, `MaxTurns`, `Fetches`, `Posts`, `MaxCommands`, `Plans`, `MaxGestures`,
`MaxSubmits`, `Tools`, `MaxUses`, `Untils`, `LastTime` and `Stamps` are bounds of the models, not of the code;
each guard that uses one is named for it. `CHECK_DEADLOCK FALSE` is set everywhere:
behaviours end when the requests of the bound are used up, and that everything begun
is also ended is what the liveness runs show.

### 3.2 Fairness

* **TxnOverlap**: weak fairness on the steps of each write. A server that has begun a
  request goes on, a row lock is granted when it is free, and PostgreSQL's detector
  resolves a deadlock. Nothing is assumed of clients. Weak fairness is enough because a
  waiting transaction is either granted or a victim in the end.
* **RecomputeOne**: weak fairness on the API's steps of a gesture that was sent and on
  each thread that recomputes; a consumer is a loop over polled events that catches
  every exception. A row lock is granted when it is free, and the detector resolves a
  deadlock, as in TxnOverlap. None on gestures, calls, faults or restarts.
* **PanelViews**: weak fairness on the poll (a `WTimer` that goes on as long as the
  session lives); strong fairness on the API's answers and on handling them, because a
  request can fail and the timer asks again: it says that the API does not fail for
  ever. Nothing is assumed of the bridge, of the bus or of users; "stays on a channel"
  is the premise of `Converges`.

* **MobileRealtime**: weak fairness on the consumer thread, on the task that fans out (every
  send ends within the send timeout), on the handlers, and on the callbacks and the
  timer of the app. A connection that is over is noticed by the other end: the server
  pings and closes what does not answer, and its close, or the browser's own end of it,
  is `OnClose`. Nothing is assumed of users, nor that a dial succeeds, a
  connection lasts or a restart does not happen; `Resubscribes` and `Delivers` have
  "stays connected" as their premise.
* **LiveFleet**: weak fairness on what the worker does without waiting for anybody
  (`WorkerGoesOn`), and on the main thread once it stops the client. Closing the socket
  ends a call that waits on it, as the comment at `RealtimeClient.h:41` relies on; the
  back-off is a sleep. Nothing is assumed of the bridge: a connect, a handshake, a read and
  a closing handshake on a connection that lives may wait for ever, for none has a timeout
  in the code. `StopEnds` therefore has an alternative, in which the code leaves a stop to
  the bridge: a handshake, which `closeStream` cannot reach because the stream is published
  after it, and the close of a stream that was published after `closeStream` looked for
  one. Weak fairness on publishing, which holds a lock and posts to finitely many sessions,
  and on the timer of a view; strong fairness on the API's answers to a view, as in
  PanelViews. Nothing of users or the shutdown's coming.

### 3.3 Where the code and its documents disagree

Three runs end in a violation, each of a sentence in the repository.

* **RecomputeLock**. `TripWaypointsPage.tsx:87-89` locks first so that the optimizer
  "won't reorder the manual change". The lock's own event starts a recompute; its
  thread may read `route_locked` before the lock is committed, read the stops, be
  overtaken by the commit of the driver's move, and then store the order it worked out.
  `LateReordersBounded` says how bad this can get: once per thread that recomputes, for
  each lock.
* **RecomputeEarlyEvent**. "add/remove/reorder from ANY client triggers an automatic
  recompute": it does, but the event of an added stop precedes the commit, so the
  recompute can miss the stop, and nothing recomputes later. A delete triggers none.
* **UnreadDrift**. `unread_count` is not "count of the channel's messages newer than
  last_read_at" when requests overlap. A post that overlaps a mark-as-read writes 1 for a
  message the member has just read past: one too high. Two posts that overlap write the
  same number: one too low. Both take six steps, and TLC reports the one it meets first.
  `NeverTooMany` bounds the drift from above, `ReadReconciles` says what repairs it.

Others that were met and have no run of their own:

* `route_governance.py` promises "a contiguous, gap-free 1..N ordering per trip". A drag
  from a page whose list is out of date moves to a slot beyond the end, to which the rule
  applies no bound: a gap, though no two writes overlap (hence the premise of
  `DenseUnlessBeyond`; the order stays that of the list, `ImplementsList`). A delete
  that overlaps an insert commits a gap as well (hence the premise of `DenseUnlessDeleted`;
  `DeleteHeals` says that the next undisturbed delete closes it).
* `recompute.py:1` promises to "upsert fleet.route". It is a DELETE and an INSERT, and two
  recomputes that overlap, those of two instances or of a consumer and a POST, leave two
  rows, of which readers take the first they get. `OneRouteEach` says how many there can be: one per
  thread.
* The comment in `geospatial/app/main.py:35-36`, "recompute keeps the existing waypoint ORDER —
  it never reorders", is contradicted by `recompute.py`, which reorders a trip that is not
  locked.
* The desktop shows a panel's own message twice when its push came first, until the next
  poll (hence the shape of `ShownTwiceOnlyByItsSender`), and one whose answer comes after
  another channel was selected in that channel (hence `ForeignOnlyByItsSender`).

In the desktop session, each the reason of a premise or an exception in a property:

* Enter signs in though the button is disabled. The second login's token may replace the
  first one's while the first one's profile is loaded: the shell then shows one user and
  acts as the other (`doubled` in `TokenOfUser`).
* In the hour that a clock change moves, `currentWeekDays` leaves a day out or has one
  twice (`ClockTrouble` in `BoardShows`), against "the seven dates of the current
  Sunday-to-Saturday week" (`BoardView.cpp:32`). A load without a driver is announced as
  "Added to the board" and is not shown in week mode, which has rows of drivers only.
* `docs/DISPATCHER_DESKTOP.md:115-116` says that Today has "loads intersecting today" and Week is "the
  Mon→Mon board" with "loads for the current `dispatch_week`"; the desktop's README speaks of
  the "Monday→Monday weekly board" too. The code shows the loads whose `pickup_date` is
  today, and a week from Sunday to Saturday by `pickup_date`. `BoardShows` follows the code
  and its comment; a load that is under way today and was picked up yesterday is not in
  today's column, and that is right by the property and wrong by that document.
* Callbacks of deleted views run on freed memory (`gone`, `stray` and `Crash`). Waiting is
  not enough to be safe: the panel of the rail reads every 30 s and the map every 60 s, and
  who leaves the view, or signs out, does not see whether such a read is under way.
  `WaitingIsSafe` says that it is enough for all that the user asked for.
* A pin asked for in one channel is added to the strip of the next (`latePins`), and two
  pins of one message can be in the strip when a list and an answer cross. An export that
  ends in another channel has the name of that one and the data of the first, and a reply
  begun in one channel is sent to the other (`moved`). A message of the user's own that is
  listed in another channel (`strangers`) can be replied to and pinned there: the reply then
  goes to the one channel and names a message of the other, and the pin row is of the other
  channel than its message.
* The composer compares the text of a restriction's end with that of the time
  (`CommPanel.cpp:548`), where the server compares times (`comms_governance.py:68`).
  If the API writes the end with a blank, which sorts before the `T`, the composer is there
  from the beginning of the day on which a restriction ends; if with a fraction, for the
  rest of that second; an offset or a clock that differs shifts it either way (`stamp` in
  `GateMirrorsServer`). The mobile `client.ts:69-70` compares in the same manner; it has no
  model.
* A mute that ends, or begins, while a channel is selected is not noticed until the next
  selection (`judged`); "+ Topic" is drawn from the members of the previous channel until
  the new ones arrive (hence `members.of = sel` in `GateMirrorsServer`). A user who is not
  a member sees a composer in broadcast channels, and the server refuses the post.
* The user's own upload gets two chips when the timer reads it back, and any attachment
  two after leaving and coming back early (`ChipsOnce`); another user's message that is
  read between its post and its link gets none until the channel is selected again.

## 4. What only TLC shows

Every invariant, every action property and both refinements that a passing run checks
are proved as well (section 5). What only TLC shows is:

* liveness, which is out of the prover's reach: `EveryWriteEnds`, `EventsAreHandled`,
  `Converges`, `Resubscribes`, `Delivers`, `StopEnds`, `MapConverges`;
* the three properties that are violated, each by a counterexample (section 3.3);
* that the histories and the premises of the properties are not vacuous: each property
  is violated by a mutant of a definition it is about.

## 5. What is proved

All for every value of the constants. The assumptions are those the modules state:
`StopTypeAssumption` (each stop has one of three kinds), a finite and dense trip to
begin with (`InitialSeqAssumption` and the like), trips of finitely many, distinctly
numbered rows for the optimizer (`LoopAssumption`), finitely many requests of
UnreadCounts, and that the names of different things differ: `None` is no user, record,
socket or stop, the user's own upload is not the other user's (`ToolsAssumption`), a HUD
is alone in its session (`FleetAssumption`), as the address `/hud` makes it.

Nothing can be proved about a recursive filter of a sequence without induction over data.
Therefore a snapshot (`Snapshots` of CommPanel) and the requests that a deleted view leaves
in flight (`Remain` of Console) are defined by what they contain.

### 5.1 Trips and stops

* **WaypointOrder_proofs**: `RenumberIsDense`, `InsertIsDense`, `MoveIsDense`. The
  counting argument is in `UniqueInRangeIsDense`: N different numbers within 1..N are
  all of 1..N, because an injection between finite sets of one size is onto.
* **StopOrder_proofs**, the rules: `TypeCorrect`, `DenseAlways`. The inductive invariant
  is `TypeOK /\ Unique(seq) /\ DenseUnlessBeyond`: after a move beyond the end the numbers
  are still distinct, and so there is something for a delete to renumber.
  `ImplementsTheList`, for any slots and with whatever gaps they leave: what the numbers
  say is which stop comes before which (`Alike`), and distinct numbers make a list
  (`ListOfTrip`, `ListIsDetermined`). Each rule keeps the order of the stops it is not about
  (`PlacedStop`, `MovedStop`, `RenumberIsAlike`), so the list after it is the list before
  without one stop, or with one more or one elsewhere (`ListWithout`, `ListWith`,
  `StepEdits`), and every step of RouteGovernance is a step of TripRoute.
* **StopOrder_proofs**, the optimizer: `NearestOrderHolds`. `min` and `next` find
  something because a finite set of numbers has a least element (`MinExists`, by counting
  again), and only one thing because ties go by the order of the list (`NearestExists`).
  `Walk` is the invariant of the loop: each stop of the list so far was the nearest of
  those left then; a walk with nothing left, and the last stop, has each stop once and the
  numbers `NearestOrders` asks for. For the second recompute, `Settled`: what is written is
  an order the loop would take again (`WrittenIsSettled`: the one that was visited first
  comes first in the list now, so that it wins its ties), and so is what is not written
  because it is the order read (`KeptIsSettled`), whatever gaps it has; the loop follows a
  settled order (`WalkFollows`).
* **WaypointTxn_proofs**: `DenseWithoutDeletes`, for any number of overlapping inserts,
  moves and optimizations. Density alone is not inductive: what a transaction
  commits was worked out from stops that others have changed since. The strengthening
  `IInv == Asked /\ (NobodyDeletes => Inv)` says that every plan keeps its numbers
  within 1..(number of rows it saw, one more for an insert), and that rows only grow
  in number while nobody deletes. So every number of a result lies within 1..N for the
  N rows there are; and the constraint at COMMIT refuses duplicates. N different
  numbers within 1..N are dense, by `UniqueInRangeIsDense`. The constraint is thus what
  rules out gaps, though it never looks for one; with a delete the range argument fails,
  and so does the property.
  `DeletesHeal` and `InsertsLand`, both with deletes in flight: `HealInv` keeps what survives them: the
  numbers of the rows are different (`TripOK`), the plan of a delete renumbers what its
  query read, and that of an intermediate stop stores the slot behind its own for a
  destination (`WriteOK`).
* **RouteRecompute_proofs**, all for any number of gestures, instances and calls that
  recompute at once: `LateReorders`: `LateInv` ties the count of each thread to its stage:
  it is 0 as long as the thread may still hold an order it worked out from an unlocked
  trip, and whatever the thread takes up after the lock has read the lock.
  `OneRoutePerThread`: `RouteInv` says that the DELETE of a thread finds the row the
  thread has left, because a thread does one recompute after the other.
  `NumbersStayBounded`: the rules apply no bound to a slot, so it must come from those who
  ask. `NumInv` bounds by the number of stops ever committed (`Bound`) what is in the
  trip, in each page's list (whose length is the slot a drag asks for, `ListOK`), in each
  request (`AskedOK`) and in what each thread has worked out (`WorkOK`); an add that is
  not committed yet may be one beyond. `RouteFollowsStops`: the order that is
  stored, laid over the stops as they were read, is what is in the trip, as long as they
  are as they were read (`SameOverlay`).

### 5.2 Conversations

* **Comms_proofs**, the counts: `TypeCorrect`, `NeverTooManyUnread`, `ExactWhenSerial`.
  `BumpIsCount` is the heart: counting with the new message gives one more exactly
  for the members a post bumps. The invariant bounds what each open request is going to
  write by the messages there are (`Bounded`), and, as long as requests are served one
  after the other, makes the open one the only one (`Alone`) and its plan the exact
  count (`Planned`). `ReadsReconcile`: the count of a mark-as-read is that of the tables
  it read (`Reread`), whatever the badge was.
* **Comms_proofs**, the view: `ViewTypes`, `ShownOnce`, `ListOfItsChannel`, for any panels,
  messages, channels and reads in flight. What is shown is not inductive; `ViewInv` says of
  all that is on its way to it what makes it harmless: a snapshot in flight has each
  message once, all of its channel (`FetchOK`), and no message in an inbox, a list or a
  snapshot is yet to be sent (`Sent`), so that its author and channel stay. A message is
  shown twice only when it is the panel's own and was answered (`ShownOK`), which an
  answer, coming once, can do once.

### 5.3 Realtime

* **MobileRealtime_proofs**: `ConnectionsHold`: a client that runs has a socket or a timer,
  one that was stopped has neither (`Alive`), and its socket is its own and open (`Holds`).
  `StreamHolds`, the refinement of EventStream, needs the order of all that is under way
  (`OrderInv`): what a listener was told comes before what is on the way on its socket,
  that before the event of a fan-out that has yet to visit the socket, and all of it
  before the queue; a new connection begins with nothing on the way, and what the consumer
  skipped is never told. So an event that is told is a later one than all before.
* **LiveFleet_proofs**: `ComparedAlike`, `TypeCorrect`, `NothingPostedForTheGone`,
  `HudsAgreeAlways`, for any number of views, consoles, sessions, fixes and commands.
  `FixInv`: a view has several fixes of a rig only from a read, which brings all of them
  as the API writes them, and a live fix replaces all of its rig. `TypeInv`, `ThreadInv`
  (what each stage of the worker and of the main thread says of the socket, `stream_` and
  the frame) and `BusInv` (a job posts only to subscribers, and these are open, because
  unsubscribing waits for the lock) give the types and `NothingPostedLate`. `HudInv` adds
  `Follows`: what a HUD was told last is either what it shows, with nothing on its way,
  or the last mode in its inbox, or what a job that has not reached it carries; the lock
  makes that job the only one.

### 5.4 The desktop session

All in **DesktopSession_proofs**, for any users, loads, plans, channels and messages and
any number of gestures and uses of a tool.

* `FrameAlways`: `RailInv` adds to `FrameAgrees` what the conversations will restore:
  while they are open, `rail.was` is what the user wants.
* `TokenHolds`, `WaitingHolds`: `SessionInv` counts what is in flight, and `ReadInv` says
  for who waits that what deleted widgets left behind was read by a timer. Somebody who signs
  in once has one request that leads to the shell, somebody who waits has one that belongs
  to the view (`CountInv`); requests of deleted views are marked (`ReqInv`), and the profile
  is the one in the database once nothing is being saved (`TableInv`).
* `TypesHold`: the toasts of a stack are distinct, and one sweep is under way as long as
  there are any (`ToasterOK`).
* `BoardHolds`: a drawn board is drawn from what it has, in its mode, and has what was
  announced (`BoardInv`). That a load is in its column and no other is arithmetic of hours:
  steps of 24 hours from any hour of the week but that of `ClockTrouble` meet each of its
  days once, whether its Sunday has 23, 24 or 25.
* `KeepsToItsChannel`, `MirrorsServer`. What the panel shows is not
  inductive; `RequestOK` says of every request in flight what makes its answer harmless:
  it carries the channel it was asked for, what was found is of that channel, a pin that
  is to be set is of a message of the selected channel, or was overtaken or is of a stranger
  (`latePins`), and an export is of the selected channel or the user has moved since it
  was begun. A pin row is in the channel of its message, but for those of strangers
  (`PinOK`), and a reply names a message of the selected channel unless the user has moved
  or it is a stranger (`SendInv`). The strip of pins keeps every pin that
  marks a message because pins with one id have one message: `ToolsInv(f)` says so with a
  function `f` from the pins the user asked for so far to their messages, which a step of
  `PinWithScope` extends (`Extends`), and the invariant is that there is such an `f`. For
  `GateMirrorsServer`, `GateInv` ties the composer to the rights and the time at which it
  was judged, which is never after the present one; then it is arithmetic of `LaterText`
  against the server's comparison, for any end of a restriction and any stamp. The steps are split by tool
  (`ByTool`), with a lemma for what the actions of each leave alone.
* `ChipsHold`: for a user who waits before changing the channel, the chips an attachment
  has and the reads and uploads that will give it one more are together at most one, two
  for an upload of the user's (`RoomInv`, `OnceInv`), because a message is marked before
  its attachments are read (`MarkInv`).

## 6. What is not modelled

Each component of section 1 that no module names is in `PROJECT.json` with its reason.
The geometry of routes, drawing, texts, JSON field by field, password hashing and the
language model of the assistant are outside: pure computation or I/O with no state that
anything races for. Of the desktop, `toggleSave` and `openDocument` (one request, whose
answer changes one mark), the emoji panel, the left panel, the theme and compact mode
(one style class each), SettingsView, which has no state, and the toasts of new messages,
which the panel of the rail shows, are left out; a page of the API that truncates a long
list is not modelled either. The ten lists of `LoadForm` are read as one, after which the
form is complete, and of the scopes of a pin two are told apart, "self" and all others,
because the strip does no more than that. Kafka is modelled by what its
consumers rely on: each instance gets each event in order, at most once in one life of
its process. The mobile conversation pages, the mobile session, the fleet rules and the
poller have no model; see section 7.

## 7. Plan

Done, in this order: WaypointOrder, RouteGovernance with TripRoute, WaypointTxn,
RouteOptimizer with NearestNeighbor, RouteRecompute, UnreadCounts, CommPanel,
RealtimeBridge with MobileRealtime and EventStream, RealtimeClient, SessionBus and
FleetMap with LiveFleet, Console with ApiClient, Toaster and BoardView, PanelTools,
DesktopSession; the proofs of section 5.

What is left, the most important first:

1. **ChannelPage** and **ChannelsPage**: the mobile conversation, with a stream but
   without a poll: which messages it can miss or show twice (`send_` appends without the
   look that the stream's handler takes).
2. **DispatchLock** and **SmittyPoller**: assignment of loads against out-of-service
   windows being ingested; upsert by lookup with overlapping runs; a refused row that
   ends the run. Invariants: no assignment to a vehicle whose window was committed
   before; one row per external id as long as runs do not overlap.
3. The mobile **Session**: login, logout, restore and late 401 answers; maintenance
   status, leases and odometer as derived columns against the clock.

Theorems worth proving next, of which no run checks a property yet: how far a badge can
fall behind (by as many posts as overlapped since the last mark-as-read), which would
complete `NeverTooMany`; that a stop nobody touches keeps its place relative to others
under overlapping inserts and moves; for new models, their invariants with them.
