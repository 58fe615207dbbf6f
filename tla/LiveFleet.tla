----------------------------- MODULE LiveFleet ------------------------------
(***************************************************************************)
(* The desktop server while it shows live positions: the worker thread of  *)
(* the realtime client publishes fixes to the views of all sessions, while *)
(* these open and close, and while the server shuts down.                  *)
(***************************************************************************)
EXTENDS FleetMap

VARIABLES main, running, worker, socket, stream, frame, late, wire

RC == INSTANCE RealtimeClient WITH Events <- Fixes

clientVars == <<main, running, worker, socket, stream, frame, late, wire>>
vars       == <<clientVars, mapVars>>

Init == RC!ClientInit /\ MapInit

Serving == main \notin {"starting", "down", "crashed"}

\* The INSERT of a fix, and the event it emits.
Report(f) ==
  /\ row[f] = "unsent"
  /\ row' = [row EXCEPT ![f] = "flushed"]
  /\ wire' = Append(wire, f)
  /\ UNCHANGED <<main, running, worker, socket, stream, frame, late, screen, commands, buses>>

\* handleFrame: PositionBus::publish, unless the fix has no rig.
PublishFix ==
  /\ frame # None /\ Rig[frame] # None
  /\ PositionBus!BeginPublish(Worker, frame)
  /\ UNCHANGED <<clientVars, row, screen, commands, posSubs, hudSubs, hudJob, inbox>>

PostFix ==
  /\ \E v \in Views : PositionBus!PostTo(Worker, v)
  /\ UNCHANGED <<clientVars, row, screen, commands, posSubs, hudSubs, hudJob>>

EndFix ==
  /\ PositionBus!EndPublish(Worker)
  /\ RC!FrameHandled
  /\ UNCHANGED <<row, screen, commands, posSubs, hudSubs, hudJob, inbox>>

DropFrame ==
  /\ frame # None /\ Rig[frame] = None
  /\ RC!FrameHandled
  /\ UNCHANGED mapVars

HandleFrame == PublishFix \/ PostFix \/ EndFix \/ DropFrame

\* All sessions end, with their views, and what was posted to them is dropped.
SessionsEnd ==
  /\ view' = [v \in Views |-> IF view[v] = "open" THEN "gone" ELSE view[v]]
  /\ read' = [v \in Views |-> Idle]
  /\ posSubs' = {} /\ hudSubs' = {}
  /\ inbox' = [s \in Sessions |-> <<>>]
  /\ UNCHANGED <<row, positions, mode, told, commands>>

\* server.stop.
ServerStop ==
  /\ main = "stopped"
  /\ PositionBus!Unlocked /\ HudControlBus!Unlocked
  /\ main' = "down"
  /\ SessionsEnd
  /\ UNCHANGED <<running, worker, socket, stream, frame, late, wire, posJob, hudJob>>

\* A stray handler or answer ends the process.
Crash ==
  /\ Serving
  /\ \/ \E s \in Sessions : inbox[s] # <<>> /\ view[Head(inbox[s]).view] = "gone"
     \/ \E v \in Views : view[v] = "gone" /\ read[v] # Idle
  /\ main' = "crashed"
  /\ running' = FALSE /\ worker' = "off" /\ socket' = "none" /\ stream' = FALSE
  /\ frame' = None
  /\ posJob' = [w \in {Worker} |-> None] /\ hudJob' = [c \in Consoles |-> None]
  /\ SessionsEnd
  /\ UNCHANGED <<late, wire>>

Next ==
  \/ RC!Client /\ UNCHANGED mapVars
  \/ Serving /\ FleetViews /\ UNCHANGED clientVars
  \/ \E f \in Fixes : Report(f)
  \/ HandleFrame \/ ServerStop \/ Crash

Spec == Init /\ [][Next]_vars

\* Threads go on, timers fire, the API answers and does not fail for ever.
\* Nothing is assumed of the bridge, which may accept a connection and stay silent,
\* nor of the users.
FairSpec ==
  /\ Spec
  /\ WF_vars(RC!WorkerGoesOn /\ UNCHANGED mapVars)
  /\ WF_vars(HandleFrame)
  /\ WF_vars((RC!CloseStream \/ RC!Join) /\ UNCHANGED mapVars)
  /\ WF_vars(ServerStop)
  /\ WF_vars((\E c \in Consoles : PostCommand(c)) /\ UNCHANGED clientVars)
  /\ \A v \in Views :
       /\ WF_vars(Poll(v) /\ UNCHANGED clientVars)
       /\ SF_vars(ServeRead(v) /\ UNCHANGED clientVars)
       /\ SF_vars(ReadAnswered(v) /\ UNCHANGED clientVars)

-----------------------------------------------------------------------------
\* Types; once stop() is called, the frame being handled is the last.
TypeOK == MapTypeOK /\ RC!ClientTypeOK /\ RC!AtMostOneLateFrame

\* Fixes of one rig are all as the API writes them, or there is only the one that
\* was pushed: so "ISO-8601 recorded_at sorts lexically" (MapView.cpp) holds for
\* all that are compared, though the stream writes times another way.
FixesComparable ==
  \A v \in Views : \A x, y \in positions[v] :
    Rig[x.fix] = Rig[y.fix] /\ x # y => x.form = "api" /\ y.form = "api"

Pending(h) ==
  \/ \E c \in Consoles : hudJob[c] # None /\ h \in hudJob[c].left
  \/ \E i \in DOMAIN inbox[Session[h]] : inbox[Session[h]][i].what \in Modes

\* HudView.cpp: "React to console commands via server push".  A HUD that has
\* handled what was posted to it shows the command published last while it was
\* open, so HUDs that heard the same commands agree, whichever consoles sent
\* them, however their publishing overlapped.
HudsAgree == \A h \in Huds : view[h] = "open" /\ ~Pending(h) => mode[h] = told[h]

\* Unsubscribing in the destructor is enough to be left alone: nothing is posted
\* for a view that is gone, nor by a client that was stopped.
NothingPostedLate ==
  [][\A v \in Views : Len(inbox'[Session[v]]) > Len(inbox[Session[v]]) =>
       /\ view[Last(inbox'[Session[v]]).view] = "open"
       /\ Last(inbox'[Session[v]]).what \in Fixes => main \notin {"stopped", "down", "crashed"}]_vars

\* main.cpp: "so the client gets a clean lifecycle".  A server that is told to
\* shut down does, though the worker may be publishing its stream, reading a
\* connection nothing comes from, or backing off.  What the code does not prevent
\* is that join waits for ever for a bridge that answers neither a handshake nor,
\* if the stream was published after closeStream looked for it, a close.
StopEnds == main = "stopping" ~> (main \in {"down", "crashed"} \/ []RC!AtBridge)

\* MapView.cpp: "Latest position per rig"; "Slow reconcile fallback".  A view that
\* stays open ends up with the latest stored fix of every rig, though pushes are
\* lost, out of order or of fixes that were never stored.
MapConverges ==
  \A v \in Views :
    <>[](Serving /\ view[v] = "open") =>
      <>[](Markers(v) = {f \in Stored : /\ Rig[f] # None
                                        /\ \A g \in Stored : Rig[g] = Rig[f] => At[g] <= At[f]})
=============================================================================
