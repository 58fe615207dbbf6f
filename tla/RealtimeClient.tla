--------------------------- MODULE RealtimeClient ---------------------------
(***************************************************************************)
(* The realtime client of the desktop server (RealtimeClient.cpp, and      *)
(* main.cpp, which starts and stops it): one worker thread that connects   *)
(* to the bridge, reads frames and connects again, and the main thread,    *)
(* which ends it by closing the socket the worker has published.           *)
(*                                                                         *)
(* The socket is a library's.  As the code has it, closing it ends a call  *)
(* that is waiting for the peer; no call has a timeout of its own.         *)
(***************************************************************************)
EXTENDS Integers, Sequences

CONSTANTS
  Events,  \* what the bridge may push
  None

VARIABLES
  main,     \* how far the main thread is
  running,  \* running_
  worker,   \* how far the worker thread is
  socket,   \* the worker's connection
  stream,   \* stream_ is set
  frame,    \* the frame that is being handled, or None
  late,     \* history: frames handled since stop() was called
  wire      \* events on their way to this server

clientVars == <<main, running, worker, socket, stream, frame, late, wire>>

ClientInit ==
  /\ main = "starting"
  /\ running = FALSE
  /\ worker = "off"
  /\ socket = "none"
  /\ stream = FALSE
  /\ frame = None
  /\ late = 0
  /\ wire = <<>>

-----------------------------------------------------------------------------
\* The main thread.

\* fromEnv finds an address and a token, and the client is started.
StartClient ==
  /\ main = "starting"
  /\ main' = "serving"
  /\ running' = TRUE
  /\ worker' = "top"
  /\ UNCHANGED <<socket, stream, frame, late, wire>>

\* fromEnv is null.
StartWithoutClient ==
  /\ main = "starting"
  /\ main' = "serving"
  /\ UNCHANGED <<running, worker, socket, stream, frame, late, wire>>

\* waitForShutdown returns; stop() takes running_, if it is set.
StopClient ==
  /\ main = "serving"
  /\ main' = IF running THEN "stopping" ELSE "stopped"
  /\ running' = FALSE
  /\ UNCHANGED <<worker, socket, stream, frame, late, wire>>

\* closeStream.
CloseStream ==
  /\ main = "stopping"
  /\ main' = "joining"
  /\ socket' = IF stream THEN "cut" ELSE socket
  /\ UNCHANGED <<running, worker, stream, frame, late, wire>>

\* The end of stop().
Join ==
  /\ main = "joining" /\ worker = "ended"
  /\ main' = "stopped"
  /\ UNCHANGED <<running, worker, socket, stream, frame, late, wire>>

-----------------------------------------------------------------------------
\* The worker thread.

Goto(from, to) == worker = from /\ worker' = to

\* The head of run's loop.
Top ==
  /\ Goto("top", IF running THEN "connecting" ELSE "ended")
  /\ UNCHANGED <<main, running, socket, stream, frame, late, wire>>

\* Connection, handshake, and the subscription to messages and fixes: calls that
\* wait for the bridge, on a socket that closeStream cannot reach yet.
Connect ==
  /\ Goto("connecting", "connected")
  /\ socket' = "open"
  /\ UNCHANGED <<main, running, stream, frame, late, wire>>

ConnectFails ==
  /\ Goto("connecting", "failed")
  /\ UNCHANGED <<main, running, socket, stream, frame, late, wire>>

\* From here closeStream can reach the socket.
PublishStream ==
  /\ Goto("connected", "next")
  /\ stream' = TRUE
  /\ UNCHANGED <<main, running, socket, frame, late, wire>>

\* Faulty: the reading loop does not look at running_.
NextReadAlways ==
  /\ Goto("next", "reading")
  /\ UNCHANGED <<main, running, socket, stream, frame, late, wire>>

\* The head of the reading loop.
NextRead ==
  /\ Goto("next", IF running THEN "reading" ELSE "closing")
  /\ UNCHANGED <<main, running, socket, stream, frame, late, wire>>

ReadFrame ==
  /\ socket = "open" /\ wire # <<>>
  /\ Goto("reading", "handling")
  /\ frame' = Head(wire)
  /\ wire' = Tail(wire)
  /\ UNCHANGED <<main, running, socket, stream, late>>

ReadFails ==
  /\ socket = "cut"
  /\ Goto("reading", "failed")
  /\ UNCHANGED <<main, running, socket, stream, frame, late, wire>>

\* handleFrame has returned.
FrameHandled ==
  /\ Goto("handling", "next")
  /\ frame' = None
  /\ late' = IF running THEN late ELSE late + 1
  /\ UNCHANGED <<main, running, socket, stream, wire>>

\* The closing handshake: it waits for the bridge, or fails on a socket that is cut.
CloseSocket ==
  /\ Goto("closing", "failed")
  /\ socket' = "cut"
  /\ UNCHANGED <<main, running, stream, frame, late, wire>>

ResetStream ==
  /\ Goto("failed", "reset")
  /\ stream' = FALSE
  /\ socket' = "none"
  /\ UNCHANGED <<main, running, frame, late, wire>>

\* The backoff, which stop() does not cut short.
BackOff ==
  /\ Goto("reset", IF running THEN "sleeping" ELSE "top")
  /\ UNCHANGED <<main, running, socket, stream, frame, late, wire>>

WakeUp ==
  /\ Goto("sleeping", "top")
  /\ UNCHANGED <<main, running, socket, stream, frame, late, wire>>

-----------------------------------------------------------------------------
\* The network.

ConnectionLost ==
  /\ socket = "open"
  /\ socket' = "cut"
  /\ UNCHANGED <<main, running, worker, stream, frame, late, wire>>

\* The bridge drops an event, or this server is not connected.
EventLost ==
  /\ wire # <<>>
  /\ wire' = Tail(wire)
  /\ UNCHANGED <<main, running, worker, socket, stream, frame, late>>

-----------------------------------------------------------------------------
\* The worker is in a call that only the bridge can end.  (A read waits for the
\* bridge too, but on a socket that closeStream cuts.)
AtBridge ==
  \/ worker = "connecting"
  \/ worker = "closing" /\ socket = "open"

\* The bridge answers, or the network tells that it does not.
BridgeAnswers == Connect \/ ConnectFails \/ (CloseSocket /\ socket = "open")

\* What the worker does without waiting for anybody.
WorkerGoesOn ==
  \/ Top \/ PublishStream \/ NextRead \/ ReadFails \/ (CloseSocket /\ socket # "open")
  \/ ResetStream \/ BackOff \/ WakeUp

Client ==
  \/ StartClient \/ StartWithoutClient \/ StopClient \/ CloseStream \/ Join
  \/ WorkerGoesOn \/ BridgeAnswers \/ ReadFrame \/ ConnectionLost \/ EventLost

ClientTypeOK ==
  /\ main \in {"starting", "serving", "stopping", "joining", "stopped", "down", "crashed"}
  /\ worker \in {"off", "top", "connecting", "connected", "next", "reading", "handling",
                 "closing", "failed", "reset", "sleeping", "ended"}
  /\ running \in BOOLEAN /\ stream \in BOOLEAN
  /\ socket \in {"none", "open", "cut"}
  /\ frame \in Events \cup {None} /\ (frame # None <=> worker = "handling")
  /\ wire \in Seq(Events)

\* Once stop() is called, the frame that is being handled is the last one.
AtMostOneLateFrame == late <= 1
=============================================================================
