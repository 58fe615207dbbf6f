-------------------------- MODULE LiveFleet_proofs --------------------------
(***************************************************************************)
(* The live positions, for any number of views, sessions, fixes and        *)
(* commands.                                                               *)
(***************************************************************************)
EXTENDS LiveFleet, TLAPS

FixTexts == [fix : Fixes, form : {"api", "stream"}]
Reading  == [at : {"idle", "asked", "served"}, fixes : SUBSET FixTexts]

-----------------------------------------------------------------------------
\* A read brings fixes as the API writes them; what a view has came from one read,
\* but for the fixes that were pushed since, each alone of its rig.
FixInv ==
  /\ read \in [Views -> Reading]
  /\ positions \in [Views -> SUBSET FixTexts]
  /\ \A v \in Views : \A x \in read[v].fixes : x.form = "api"
  /\ FixesComparable

LEMMA InitFixes == Init => FixInv
BY DEF Init, MapInit, FixInv, FixesComparable, Idle, Reading

LEMMA ViewKeepsFixes ==
  ASSUME FixInv, NEW v \in Views, View(v)
  PROVE  FixInv'
<1>1. CASE OpenMap(v) \/ OpenHud(v) \/ Poll(v)
  BY <1>1 DEF OpenMap, OpenHud, Poll, FixInv, FixesComparable, Asked, Reading
<1>2. CASE CloseMap(v) \/ CloseHud(v) \/ ReadFails(v) \/ AnswerStray(v)
  BY <1>2 DEF CloseMap, CloseHud, ReadFails, AnswerStray, FixInv, FixesComparable, Idle, Reading
<1>3. CASE ServeRead(v)
  <2>1. {Fix(f, "api") : f \in Stored} \subseteq FixTexts
    BY DEF Fix, Stored, FixTexts
  <2>2. \A x \in {Fix(f, "api") : f \in Stored} : x.form = "api"
    BY DEF Fix
  <2> QED
    BY <1>3, <2>1, <2>2 DEF ServeRead, FixInv, FixesComparable, Reading
<1>4. CASE ReadAnswered(v)
  BY <1>4 DEF ReadAnswered, FixInv, FixesComparable, Idle, Reading
<1> QED
  BY <1>1, <1>2, <1>3, <1>4 DEF View

LEMMA PostedKeepsFixes ==
  ASSUME FixInv, NEW s \in Sessions, RunPosted(s)
  PROVE  FixInv'
<1> DEFINE v == Head(inbox[s]).view
           f == Head(inbox[s]).what
<1>1. UNCHANGED read
  BY DEF RunPosted
<1>2. CASE UNCHANGED positions
  BY <1>1, <1>2 DEF FixInv, FixesComparable
<1>3. CASE f \in Fixes /\ ApplyLive(v, f)
  <2>1. Fix(f, "stream") \in FixTexts
    BY <1>3 DEF Fix, FixTexts
  <2>2. positions' \in [Views -> SUBSET FixTexts]
    BY <1>3, <2>1 DEF ApplyLive, FixInv
  <2>3. ASSUME NEW u \in Views, NEW x \in positions'[u], NEW y \in positions'[u],
               Rig[x.fix] = Rig[y.fix], x # y
        PROVE  x.form = "api" /\ y.form = "api"
    BY <1>3, <2>3 DEF ApplyLive, Fix, FixInv, FixesComparable
  <2> QED
    BY <1>1, <2>2, <2>3 DEF FixInv, FixesComparable
<1> QED
  BY <1>2, <1>3 DEF RunPosted

\* The texts a view compares were all written by the API.
THEOREM ComparedAlike == Spec => []FixesComparable
<1>1. FixInv /\ [Next]_vars => FixInv'
  <2> SUFFICES ASSUME FixInv, [Next]_vars PROVE FixInv'
    OBVIOUS
  <2>1. CASE UNCHANGED vars
    BY <2>1 DEF vars, mapVars, screen, FixInv, FixesComparable
  <2>2. CASE RC!Client /\ UNCHANGED mapVars
    BY <2>2 DEF mapVars, screen, FixInv, FixesComparable
  <2>3. CASE FleetViews
    <3>1. CASE \E v \in Views : View(v)
      BY <3>1, ViewKeepsFixes
    <3>2. CASE \E s \in Sessions : RunPosted(s)
      BY <3>2, PostedKeepsFixes
    <3>3. CASE \E s \in Sessions : RunStray(s)
      BY <3>3 DEF RunStray, screen, FixInv, FixesComparable
    <3>4. CASE \E c \in Consoles : PostCommand(c) \/ \E m \in Modes : Command(c, m)
      BY <3>4 DEF PostCommand, Command, screen, FixInv, FixesComparable
    <3>5. CASE \E f \in Fixes : Store(f) \/ NotStored(f)
      BY <3>5 DEF Store, NotStored, screen, FixInv, FixesComparable
    <3> QED
      BY <2>3, <3>1, <3>2, <3>3, <3>4, <3>5 DEF FleetViews
  <2>4. CASE (\E f \in Fixes : Report(f)) \/ HandleFrame
    BY <2>4 DEF Report, HandleFrame, PublishFix, PostFix, EndFix, DropFrame, mapVars, screen,
                FixInv, FixesComparable
  <2>5. CASE ServerStop \/ Crash
    BY <2>5 DEF ServerStop, Crash, SessionsEnd, FixInv, FixesComparable, Idle, Reading
  <2> QED
    BY <2>1, <2>2, <2>3, <2>4, <2>5 DEF Next
<1>2. FixInv => FixesComparable
  BY DEF FixInv
<1> QED
  BY <1>1, <1>2, InitFixes, PTL DEF Spec
-----------------------------------------------------------------------------
\* Types, and what each thread may find the others doing: while a fix is published
\* its frame is being handled; a main thread that has stopped leaves no worker.
Handler == [view : Views, what : Fixes \cup Modes]

Job(S) == [what : S, left : SUBSET Views]

\* RC!ClientTypeOK, in two parts.
ClientTypes ==
  /\ main \in {"starting", "serving", "stopping", "joining", "stopped", "down", "crashed"}
  /\ worker \in {"off", "top", "connecting", "connected", "next", "reading", "handling",
                 "closing", "failed", "reset", "sleeping", "ended"}
  /\ socket \in {"none", "open", "cut"}
  /\ frame \in Fixes \cup {None} /\ (frame # None <=> worker = "handling")
  /\ wire \in Seq(Fixes)

Flags == running \in BOOLEAN /\ stream \in BOOLEAN

TypeInv ==
  /\ MapTypeOK /\ ClientTypes /\ Flags
  /\ read \in [Views -> Reading]
  /\ told \in [Huds -> Modes]
  /\ hudSubs \subseteq Huds
  /\ inbox \in [Sessions -> Seq(Handler)]
  /\ posJob \in [{Worker} -> Job(Fixes) \cup {None}]
  /\ hudJob \in [Consoles -> Job(Modes) \cup {None}]

ThreadInv ==
  /\ posJob[Worker] # None => worker = "handling" /\ Rig[frame] # None
  /\ main = "starting" => worker = "off" /\ ~running /\ late = 0
  /\ main = "serving" /\ ~running => worker = "off"
  /\ main # "serving" => ~running
  /\ main \in {"stopped", "down", "crashed"} => worker \in {"off", "ended"}
  /\ late \in {0, 1}
  /\ running => late = 0
  /\ late = 1 => worker \in {"next", "closing", "failed", "reset", "top", "ended", "off"}

\* What is being published is for views that are subscribed: the mutex keeps them.
BusInv ==
  /\ posJob[Worker] # None => posJob[Worker].left \subseteq posSubs
  /\ \A c \in Consoles : hudJob[c] # None => hudJob[c].left \subseteq hudSubs

LEMMA InitInv == Init => TypeInv /\ ThreadInv /\ BusInv
<1> SUFFICES ASSUME Init PROVE TypeInv /\ ThreadInv /\ BusInv
  OBVIOUS
<1>1. MapTypeOK
  BY DEF Init, MapInit, MapTypeOK, Idle, Views, Modes
<1>2. ClientTypes /\ Flags
  <2>1. ClientTypes
    BY DEF Init, RC!ClientInit, ClientTypes
  <2>2. Flags
    BY Zenon DEF Init, RC!ClientInit, Flags
  <2> QED
    BY <2>1, <2>2
<1>3. /\ read \in [Views -> Reading] /\ told \in [Huds -> Modes] /\ hudSubs \subseteq Huds
      /\ inbox \in [Sessions -> Seq(Handler)]
      /\ posJob \in [{Worker} -> Job(Fixes) \cup {None}]
      /\ hudJob \in [Consoles -> Job(Modes) \cup {None}]
  BY DEF Init, MapInit, Idle, Reading, Modes
<1>4. ThreadInv /\ BusInv
  BY DEF Init, MapInit, RC!ClientInit, ThreadInv, BusInv
<1> QED
  BY <1>1, <1>2, <1>3, <1>4 DEF TypeInv

LEMMA ClientKeepsInv ==
  ASSUME TypeInv, ThreadInv, BusInv, RC!Client, UNCHANGED mapVars
  PROVE  TypeInv' /\ ThreadInv' /\ BusInv'
<1>1. /\ UNCHANGED <<row, view, positions, read, mode, told,
                     posSubs, hudSubs, posJob, hudJob, inbox>>
  BY DEF mapVars, screen, buses
<1>2. MapTypeOK' /\ BusInv'
  BY <1>1 DEF TypeInv, MapTypeOK, BusInv
<1>3. ClientTypes' /\ ThreadInv'
  <2>0. posJob'[Worker] = posJob[Worker] /\ None \notin Fixes
    BY <1>1, FleetAssumption
  <2> USE <2>0 DEF TypeInv, ClientTypes, ThreadInv
  <2>1. CASE RC!StartClient \/ RC!StartWithoutClient \/ RC!StopClient \/ RC!CloseStream \/ RC!Join
    BY <2>1 DEF RC!StartClient, RC!StartWithoutClient, RC!StopClient, RC!CloseStream, RC!Join
  <2>2. CASE RC!Top \/ RC!Connect \/ RC!ConnectFails \/ RC!PublishStream \/ RC!NextRead
    BY <2>2 DEF RC!Top, RC!Connect, RC!ConnectFails, RC!PublishStream, RC!NextRead, RC!Goto
  <2>3. CASE RC!ReadFails \/ RC!CloseSocket \/ RC!ResetStream \/ RC!BackOff \/ RC!WakeUp
    BY <2>3 DEF RC!ReadFails, RC!CloseSocket, RC!ResetStream, RC!BackOff, RC!WakeUp, RC!Goto
  <2>4. CASE RC!ReadFrame
    BY <2>4 DEF RC!ReadFrame, RC!Goto
  <2>5. CASE RC!ConnectionLost
    BY <2>5 DEF RC!ConnectionLost
  <2>6. CASE RC!EventLost
    <3>1. Tail(wire) \in Seq(Fixes)
      BY <2>6 DEF RC!EventLost
    <3> QED
      BY <2>6, <3>1 DEF RC!EventLost
  <2> QED
    BY <2>1, <2>2, <2>3, <2>4, <2>5, <2>6 DEF RC!Client, RC!WorkerGoesOn, RC!BridgeAnswers
<1>4. Flags'
  BY Zenon DEF TypeInv, Flags, RC!Client, RC!WorkerGoesOn, RC!BridgeAnswers, RC!StartClient,
     RC!StartWithoutClient, RC!StopClient, RC!CloseStream, RC!Join, RC!Top, RC!Connect,
     RC!ConnectFails, RC!PublishStream, RC!NextRead, RC!ReadFails, RC!CloseSocket,
     RC!ResetStream, RC!BackOff, RC!WakeUp, RC!ReadFrame, RC!ConnectionLost, RC!EventLost
<1> QED
  BY <1>1, <1>2, <1>3, <1>4 DEF TypeInv

LEMMA ViewKeepsInv ==
  ASSUME TypeInv, ThreadInv, BusInv, UNCHANGED clientVars, NEW v \in Views, View(v)
  PROVE  TypeInv' /\ ThreadInv' /\ BusInv'
<1>1. ClientTypes' /\ Flags'
  BY Zenon DEF clientVars, TypeInv, ClientTypes, Flags
<1> USE FleetAssumption DEF TypeInv, MapTypeOK, ThreadInv, BusInv, clientVars
<1>2. CASE OpenMap(v)
  BY <1>1, <1>2 DEF OpenMap, PositionBus!Subscribe, PositionBus!Unlocked, Asked, Reading, Views
<1>3. CASE OpenHud(v)
  BY <1>1, <1>3 DEF OpenHud, PositionBus!Subscribe, HudControlBus!Subscribe,
                    PositionBus!Unlocked, HudControlBus!Unlocked, Asked, Reading, Views
<1>4. CASE CloseMap(v)
  BY <1>1, <1>4 DEF CloseMap, PositionBus!Unsubscribe, PositionBus!Unlocked, Views
<1>5. CASE CloseHud(v)
  <2>1. inbox' \in [Sessions -> Seq(Handler)]
    <3>1. <<>> \in Seq(Handler)
      OBVIOUS
    <3> QED
      BY <1>5, <3>1 DEF CloseHud
  <2>2. read' \in [Views -> Reading]
    BY <1>5 DEF CloseHud, Idle, Reading
  <2> QED
    BY <1>1, <1>5, <2>1, <2>2 DEF CloseHud, PositionBus!Unsubscribe, HudControlBus!Unsubscribe,
                            PositionBus!Unlocked, HudControlBus!Unlocked, Views, Reading
<1>6. CASE Poll(v) \/ ReadFails(v) \/ AnswerStray(v)
  <2>1. read' \in [Views -> Reading]
    BY <1>6 DEF Poll, ReadFails, AnswerStray, Asked, Idle, Reading
  <2> QED
    BY <1>1, <1>6, <2>1 DEF Poll, ReadFails, AnswerStray, buses, Reading
<1>7. CASE ServeRead(v)
  <2>1. {Fix(f, "api") : f \in Stored} \subseteq FixTexts
    BY DEF Fix, Stored, FixTexts
  <2> QED
    BY <1>1, <1>7, <2>1 DEF ServeRead, buses, Reading
<1>8. CASE ReadAnswered(v)
  BY <1>1, <1>8 DEF ReadAnswered, buses, Idle, Reading, FixTexts
<1> QED
  BY <1>2, <1>3, <1>4, <1>5, <1>6, <1>7, <1>8 DEF View

LEMMA SessionKeepsInv ==
  ASSUME TypeInv, ThreadInv, BusInv, UNCHANGED clientVars,
         NEW s \in Sessions, RunPosted(s) \/ RunStray(s)
  PROVE  TypeInv' /\ ThreadInv' /\ BusInv'
<1>1. ClientTypes' /\ Flags'
  BY Zenon DEF clientVars, TypeInv, ClientTypes, Flags
<1>2. inbox' \in [Sessions -> Seq(Handler)]
  <2>1. inbox[s] \in Seq(Handler) /\ inbox[s] # <<>>
    BY DEF TypeInv, RunPosted, RunStray
  <2>2. Tail(inbox[s]) \in Seq(Handler)
    BY <2>1
  <2> QED
    BY <2>2 DEF TypeInv, RunPosted, RunStray
<1>3. UNCHANGED <<row, view, read, told, posSubs, posJob, hudSubs, hudJob>>
  BY DEF RunPosted, RunStray, screen
<1>4. positions' \in [Views -> SUBSET FixTexts] /\ mode' \in [Huds -> Modes]
  <2>1. CASE UNCHANGED <<positions, mode>>
    BY <2>1 DEF TypeInv, MapTypeOK, FixTexts
  <2>2. ASSUME NEW v, NEW f \in Fixes, ApplyLive(v, f), UNCHANGED mode
        PROVE  positions' \in [Views -> SUBSET FixTexts] /\ mode' \in [Huds -> Modes]
    <3>1. Fix(f, "stream") \in FixTexts
      BY DEF Fix, FixTexts
    <3>2. positions \in [Views -> SUBSET FixTexts] /\ mode \in [Huds -> Modes]
      BY DEF TypeInv, MapTypeOK, FixTexts
    <3>3. CASE v \in Views
      BY <2>2, <3>1, <3>2, <3>3 DEF ApplyLive
    <3>4. CASE v \notin Views
      BY <2>2, <3>2, <3>4 DEF ApplyLive
    <3> QED
      BY <3>3, <3>4
  <2>3. ASSUME NEW h, NEW m \in Modes, ApplyCommand(h, m), UNCHANGED positions
        PROVE  positions' \in [Views -> SUBSET FixTexts] /\ mode' \in [Huds -> Modes]
    BY <2>3 DEF ApplyCommand, TypeInv, MapTypeOK, FixTexts
  <2> QED
    BY <2>1, <2>2, <2>3 DEF RunPosted, RunStray, screen
<1> QED
  BY <1>1, <1>2, <1>3, <1>4 DEF TypeInv, MapTypeOK, ThreadInv, BusInv, clientVars, FixTexts

\* Posting to a session, by whoever publishes.
LEMMA PostKeepsInbox ==
  ASSUME TypeInv, NEW v \in Views, NEW x \in Fixes \cup Modes,
         inbox' = [inbox EXCEPT ![Session[v]] = Append(@, [view |-> v, what |-> x])]
  PROVE  inbox' \in [Sessions -> Seq(Handler)]
<1>1. [view |-> v, what |-> x] \in Handler
  BY DEF Handler
<1>2. Session[v] \in Sessions
  BY DEF Sessions
<1> QED
  BY <1>1, <1>2 DEF TypeInv

LEMMA ConsoleKeepsInv ==
  ASSUME TypeInv, ThreadInv, BusInv, UNCHANGED clientVars,
         NEW c \in Consoles, PostCommand(c) \/ \E m \in Modes : Command(c, m)
  PROVE  TypeInv' /\ ThreadInv' /\ BusInv'
<1>1. ClientTypes' /\ Flags'
  BY Zenon DEF clientVars, TypeInv, ClientTypes, Flags
<1>2. CASE \E m \in Modes : Command(c, m)
  <2>1. PICK m \in Modes : Command(c, m)
    BY <1>2
  <2>2. told' \in [Huds -> Modes]
    BY <2>1 DEF Command, TypeInv
  <2>3. hudJob' \in [Consoles -> Job(Modes) \cup {None}]
    <3>1. [what |-> m, left |-> hudSubs] \in Job(Modes)
      BY DEF Job, TypeInv, Views
    <3> QED
      BY <2>1, <3>1 DEF Command, HudControlBus!BeginPublish, TypeInv
  <2> QED
    BY <1>1, <2>1, <2>2, <2>3
       DEF Command, HudControlBus!BeginPublish, TypeInv, MapTypeOK, ThreadInv, BusInv, clientVars
<1>3. ASSUME NEW h \in Huds, HudControlBus!PostTo(c, h),
             UNCHANGED <<row, screen, posSubs, posJob, hudSubs>>
      PROVE  TypeInv' /\ ThreadInv' /\ BusInv'
  <2>1. hudJob[c] \in Job(Modes) /\ h \in Views
    BY <1>3 DEF HudControlBus!PostTo, TypeInv, Views
  <2>2. inbox' \in [Sessions -> Seq(Handler)]
    BY <1>3, <2>1, PostKeepsInbox DEF HudControlBus!PostTo, Job
  <2>3. hudJob' \in [Consoles -> Job(Modes) \cup {None}]
    BY <1>3, <2>1 DEF HudControlBus!PostTo, Job, TypeInv
  <2>4. BusInv'
    BY <1>3, <2>1 DEF HudControlBus!PostTo, Job, TypeInv, BusInv
  <2> QED
    BY <1>1, <1>3, <2>2, <2>3, <2>4 DEF screen, TypeInv, MapTypeOK, ThreadInv, clientVars
<1>4. CASE HudControlBus!EndPublish(c) /\ UNCHANGED <<row, screen, posSubs, posJob, hudSubs, inbox>>
  BY <1>1, <1>4
     DEF HudControlBus!EndPublish, screen, TypeInv, MapTypeOK, ThreadInv, BusInv, clientVars
<1> QED
  BY <1>2, <1>3, <1>4 DEF PostCommand

LEMMA HandlingKeepsInv ==
  ASSUME TypeInv, ThreadInv, BusInv, HandleFrame
  PROVE  TypeInv' /\ ThreadInv' /\ BusInv'
<1>1. CASE PublishFix
  <2>1. frame \in Fixes /\ worker = "handling"
    BY <1>1 DEF PublishFix, TypeInv, ClientTypes
  <2>2. [what |-> frame, left |-> posSubs] \in Job(Fixes)
    BY <2>1 DEF Job, TypeInv, MapTypeOK
  <2> QED
    BY <1>1, <2>1, <2>2 DEF PublishFix, PositionBus!BeginPublish, clientVars, screen, TypeInv,
                            MapTypeOK, ClientTypes, Flags, ThreadInv, BusInv
<1>2. CASE PostFix
  <2>1. PICK v \in Views : PositionBus!PostTo(Worker, v)
    BY <1>2 DEF PostFix
  <2>2. posJob[Worker] \in Job(Fixes) /\ posJob[Worker] # None
    BY <2>1 DEF PositionBus!PostTo, TypeInv
  <2>3. inbox' \in [Sessions -> Seq(Handler)]
    BY <2>1, <2>2, PostKeepsInbox DEF PositionBus!PostTo, Job
  <2>4. posJob' \in [{Worker} -> Job(Fixes) \cup {None}]
    BY <2>1, <2>2 DEF PositionBus!PostTo, Job, TypeInv
  <2>5. BusInv'
    BY <1>2, <2>1, <2>2 DEF PostFix, PositionBus!PostTo, Job, TypeInv, BusInv
  <2>6. ThreadInv'
    BY <1>2, <2>2 DEF PostFix, ThreadInv, clientVars
  <2> QED
    BY <1>2, <2>3, <2>4, <2>5, <2>6
       DEF PostFix, clientVars, screen, TypeInv, MapTypeOK, ClientTypes, Flags
<1>3. CASE EndFix
  BY <1>3, FleetAssumption
     DEF EndFix, PositionBus!EndPublish, RC!FrameHandled, RC!Goto, screen, TypeInv, MapTypeOK,
         ClientTypes, Flags, ThreadInv, BusInv
<1>4. CASE DropFrame
  <2>1. posJob[Worker] = None
    BY <1>4 DEF DropFrame, ThreadInv
  <2> QED
    BY <1>4, FleetAssumption
       DEF DropFrame, RC!FrameHandled, RC!Goto, mapVars, screen, buses, TypeInv, MapTypeOK,
           ClientTypes, Flags, ThreadInv, BusInv
<1> QED
  BY <1>1, <1>2, <1>3, <1>4 DEF HandleFrame

LEMMA EndKeepsInv ==
  ASSUME TypeInv, ThreadInv, BusInv, ServerStop \/ Crash
  PROVE  TypeInv' /\ ThreadInv' /\ BusInv'
<1>1. SessionsEnd
  BY DEF ServerStop, Crash
<1>2. /\ view' \in [Views -> {"none", "open", "gone"}]
      /\ read' \in [Views -> Reading]
      /\ inbox' \in [Sessions -> Seq(Handler)]
  BY <1>1 DEF SessionsEnd, TypeInv, MapTypeOK, Idle, Reading
<1>3. /\ posJob' \in [{Worker} -> Job(Fixes) \cup {None}]
      /\ hudJob' \in [Consoles -> Job(Modes) \cup {None}]
  BY DEF ServerStop, Crash, TypeInv
<1>4. BusInv'
  BY DEF ServerStop, Crash, PositionBus!Unlocked, HudControlBus!Unlocked, BusInv
<1>5. ClientTypes' /\ Flags'
  <2>1. ClientTypes'
    BY DEF ServerStop, Crash, TypeInv, ClientTypes
  <2>2. Flags'
    BY Zenon DEF ServerStop, Crash, TypeInv, Flags
  <2> QED
    BY <2>1, <2>2
<1>6. ThreadInv'
  BY DEF ServerStop, Crash, PositionBus!Unlocked, ThreadInv
<1>7. MapTypeOK'
  BY <1>1, <1>2 DEF SessionsEnd, TypeInv, MapTypeOK, Reading
<1> QED
  BY <1>1, <1>2, <1>3, <1>4, <1>5, <1>6, <1>7 DEF SessionsEnd, TypeInv

LEMMA NextKeepsInv ==
  (TypeInv /\ ThreadInv /\ BusInv) /\ [Next]_vars => (TypeInv /\ ThreadInv /\ BusInv)'
<1> SUFFICES ASSUME TypeInv, ThreadInv, BusInv, [Next]_vars
             PROVE  TypeInv' /\ ThreadInv' /\ BusInv'
  OBVIOUS
<1>1. CASE UNCHANGED vars
  BY <1>1 DEF vars, clientVars, mapVars, screen, buses, TypeInv, MapTypeOK, ClientTypes, Flags,
              ThreadInv, BusInv
<1>2. CASE RC!Client /\ UNCHANGED mapVars
  BY <1>2, ClientKeepsInv
<1>3. CASE FleetViews /\ UNCHANGED clientVars
  <2>1. CASE \E v \in Views : View(v)
    BY <1>3, <2>1, ViewKeepsInv
  <2>2. CASE \E s \in Sessions : RunPosted(s) \/ RunStray(s)
    BY <1>3, <2>2, SessionKeepsInv
  <2>3. CASE \E c \in Consoles : PostCommand(c) \/ \E m \in Modes : Command(c, m)
    BY <1>3, <2>3, ConsoleKeepsInv
  <2>4. CASE \E f \in Fixes : Store(f) \/ NotStored(f)
    BY <1>3, <2>4 DEF Store, NotStored, clientVars, screen, buses, TypeInv, MapTypeOK,
                      ClientTypes, Flags, ThreadInv, BusInv
  <2> QED
    BY <1>3, <2>1, <2>2, <2>3, <2>4 DEF FleetViews
<1>4. CASE \E f \in Fixes : Report(f)
  <2>1. PICK f \in Fixes : Report(f)
    BY <1>4
  <2>2. wire' \in Seq(Fixes) /\ row' \in [Fixes -> {"unsent", "flushed", "stored", "failed"}]
    BY <2>1 DEF Report, TypeInv, MapTypeOK, ClientTypes, Flags
  <2> QED
    BY <2>1, <2>2 DEF Report, screen, buses, TypeInv, MapTypeOK, ClientTypes, Flags, ThreadInv,
                      BusInv
<1>5. CASE HandleFrame
  BY <1>5, HandlingKeepsInv
<1>6. CASE ServerStop \/ Crash
  BY <1>6, EndKeepsInv
<1> QED
  BY <1>1, <1>2, <1>3, <1>4, <1>5, <1>6 DEF Next

\* Types; a stop lets the worker handle one frame more at most.
THEOREM TypeCorrect == Spec => []TypeOK
<1>1. TypeInv /\ ThreadInv => TypeOK
  BY DEF TypeInv, ClientTypes, Flags, ThreadInv, TypeOK, RC!ClientTypeOK, RC!AtMostOneLateFrame
<1> QED
  BY <1>1, InitInv, NextKeepsInv, PTL DEF Spec

-----------------------------------------------------------------------------
\* Nothing is posted for a view that is gone, nor by a client that was stopped.
THEOREM NothingPostedForTheGone == Spec => NothingPostedLate
<1> DEFINE Posted(v) == Len(inbox'[Session[v]]) > Len(inbox[Session[v]])
           InTime(v) == /\ view[Last(inbox'[Session[v]]).view] = "open"
                        /\ Last(inbox'[Session[v]]).what \in Fixes =>
                             main \notin {"stopped", "down", "crashed"}
<1>1. ASSUME TypeInv, ThreadInv, BusInv, Next, NEW v \in Views, Posted(v)
      PROVE  InTime(v)
  <2>1. Session[v] \in Sessions
    BY DEF Sessions
  <2>2. ASSUME inbox'[Session[v]] = inbox[Session[v]] PROVE FALSE
    BY <1>1, <2>1, <2>2 DEF TypeInv
  <2>3. ASSUME NEW s \in Sessions, inbox[s] # <<>>, inbox' = [inbox EXCEPT ![s] = Tail(@)]
        PROVE  FALSE
    <3>1. inbox[s] \in Seq(Handler)
      BY <1>1 DEF TypeInv
    <3>2. Len(Tail(inbox[s])) = Len(inbox[s]) - 1 /\ Len(inbox[s]) \in Nat
      BY <2>3, <3>1
    <3> QED
      BY <1>1, <2>1, <2>2, <2>3, <3>2 DEF TypeInv
  <2>4. ASSUME SessionsEnd PROVE FALSE
    <3>1. inbox'[Session[v]] = <<>> /\ inbox[Session[v]] \in Seq(Handler)
      BY <1>1, <2>1, <2>4 DEF SessionsEnd, TypeInv
    <3> QED
      BY <1>1, <3>1
  <2>5. ASSUME NEW u \in Views, NEW x,
               inbox' = [inbox EXCEPT ![Session[u]] = Append(@, [view |-> u, what |-> x])]
        PROVE  Last(inbox'[Session[v]]) = [view |-> u, what |-> x]
    <3>1. Session[v] = Session[u]
      BY <1>1, <2>1, <2>2, <2>5 DEF TypeInv
    <3>2. inbox'[Session[v]] = Append(inbox[Session[u]], [view |-> u, what |-> x])
      BY <1>1, <2>1, <2>5, <3>1 DEF TypeInv
    <3>3. inbox[Session[u]] \in Seq(Handler)
      BY <1>1, <2>1, <3>1 DEF TypeInv
    <3> QED
      BY <3>2, <3>3 DEF Last
  <2>6. CASE PostFix
    <3>1. PICK u \in Views : PositionBus!PostTo(Worker, u)
      BY <2>6 DEF PostFix
    <3>2. Last(inbox'[Session[v]]) = [view |-> u, what |-> posJob[Worker].what]
      BY <2>5, <3>1 DEF PositionBus!PostTo
    <3>3. view[u] = "open"
      BY <1>1, <3>1 DEF PositionBus!PostTo, BusInv, TypeInv, MapTypeOK
    <3>4. main \notin {"stopped", "down", "crashed"}
      BY <1>1, <3>1 DEF PositionBus!PostTo, ThreadInv
    <3> QED
      BY <3>2, <3>3, <3>4
  <2>7. ASSUME NEW c \in Consoles, NEW h \in Huds, HudControlBus!PostTo(c, h)
        PROVE  InTime(v)
    <3>1. hudJob[c] \in Job(Modes) /\ h \in Views
      BY <1>1, <2>7 DEF HudControlBus!PostTo, TypeInv, Views
    <3>2. Last(inbox'[Session[v]]) = [view |-> h, what |-> hudJob[c].what]
      BY <2>5, <2>7, <3>1 DEF HudControlBus!PostTo
    <3>3. view[h] = "open"
      BY <1>1, <2>7 DEF HudControlBus!PostTo, BusInv, TypeInv, MapTypeOK
    <3>4. hudJob[c].what \notin Fixes
      BY <3>1, FleetAssumption DEF Job
    <3> QED
      BY <3>2, <3>3, <3>4
  <2>8. CASE RC!Client /\ UNCHANGED mapVars
    BY <2>2, <2>8 DEF mapVars, buses
  <2>9. CASE \E u \in Views : View(u)
    <3>1. PICK u \in Views : View(u)
      BY <2>9
    <3>2. CASE CloseHud(u)
      <4>1. u \in Huds /\ Session[u] \in Sessions
        BY <3>1, <3>2 DEF CloseHud, Sessions
      <4>2. inbox[Session[u]] \in Seq(Handler) /\ inbox[Session[v]] \in Seq(Handler)
        BY <1>1, <2>1, <4>1 DEF TypeInv
      <4>3. inbox'[Session[v]] = <<>> \/ inbox'[Session[v]] = inbox[Session[v]]
        BY <1>1, <2>1, <3>2 DEF CloseHud, TypeInv
      <4> QED
        BY <1>1, <2>2, <4>2, <4>3
    <3>3. CASE ~CloseHud(u)
      BY <2>2, <3>1, <3>3 DEF View, OpenMap, OpenHud, CloseMap, Poll, ServeRead, ReadAnswered,
                              ReadFails, AnswerStray, buses
    <3> QED
      BY <3>2, <3>3
  <2>10. CASE \E s \in Sessions : RunPosted(s) \/ RunStray(s)
    BY <2>3, <2>10 DEF RunPosted, RunStray
  <2>11. CASE \E c \in Consoles : PostCommand(c) \/ \E m \in Modes : Command(c, m)
    BY <2>2, <2>7, <2>11 DEF PostCommand, Command
  <2>12. CASE \E f \in Fixes : Store(f) \/ NotStored(f) \/ Report(f)
    BY <2>2, <2>12 DEF Store, NotStored, Report, buses
  <2>13. CASE PublishFix \/ EndFix \/ DropFrame
    BY <2>2, <2>13 DEF PublishFix, EndFix, DropFrame, mapVars, buses
  <2>14. CASE ServerStop \/ Crash
    BY <2>4, <2>14 DEF ServerStop, Crash
  <2> QED
    BY <1>1, <2>6, <2>8, <2>9, <2>10, <2>11, <2>12, <2>13, <2>14 DEF Next, FleetViews, HandleFrame
<1>2. TypeInv /\ ThreadInv /\ BusInv /\ [Next]_vars =>
        [\A v \in Views : Posted(v) => InTime(v)]_vars
  BY <1>1
<1> QED
  BY <1>2, InitInv, NextKeepsInv, PTL DEF Spec, NothingPostedLate

-----------------------------------------------------------------------------
\* A session's inbox: no command in it, and the last command in it.
Silent(q) == \A i \in 1 .. Len(q) : q[i].what \notin Modes

EndsWith(q, m) ==
  \A i \in 1 .. Len(q) :
    /\ q[i].what \in Modes
    /\ \A j \in (i + 1) .. Len(q) : q[j].what \notin Modes
    => q[i].what = m

LEMMA AppendFix ==
  ASSUME NEW q \in Seq(Handler), NEW x, x.what \notin Modes, NEW m
  PROVE  /\ EndsWith(q, m) => EndsWith(Append(q, x), m)
         /\ Silent(Append(q, x)) => Silent(q)
<1> DEFINE a == Append(q, x)
<1>1. /\ Len(a) = Len(q) + 1 /\ Len(q) \in Nat /\ a[Len(q) + 1] = x
      /\ \A i \in 1 .. Len(q) : a[i] = q[i]
  OBVIOUS
<1> HIDE DEF a
<1>2. Silent(a) => Silent(q)
  BY <1>1 DEF Silent
<1>3. ASSUME EndsWith(q, m), NEW i \in 1 .. Len(a), a[i].what \in Modes,
             \A j \in (i + 1) .. Len(a) : a[j].what \notin Modes
      PROVE  a[i].what = m
  <2>1. i \in 1 .. Len(q)
    BY <1>1, <1>3
  <2>2. \A j \in (i + 1) .. Len(q) : q[j].what \notin Modes
    BY <1>1, <1>3, <2>1
  <2> QED
    BY <1>1, <1>3, <2>1, <2>2 DEF EndsWith
<1>4. EndsWith(q, m) => EndsWith(a, m)
  BY <1>3 DEF EndsWith
<1> QED
  BY <1>2, <1>4 DEF a

LEMMA AppendMode ==
  ASSUME NEW q \in Seq(Handler), NEW x, x.what \in Modes
  PROVE  EndsWith(Append(q, x), x.what) /\ ~Silent(Append(q, x))
<1> DEFINE a == Append(q, x)
<1>1. /\ Len(a) = Len(q) + 1 /\ Len(q) \in Nat /\ a[Len(q) + 1] = x
  OBVIOUS
<1> HIDE DEF a
<1>2. ~Silent(a)
  BY <1>1 DEF Silent
<1>3. ASSUME NEW i \in 1 .. Len(a), \A j \in (i + 1) .. Len(a) : a[j].what \notin Modes
      PROVE  a[i].what = x.what
  <2>1. CASE i = Len(a)
    BY <1>1, <2>1
  <2>2. CASE i # Len(a)
    BY <1>1, <1>3, <2>2
  <2> QED
    BY <2>1, <2>2
<1>4. EndsWith(a, x.what)
  BY <1>3 DEF EndsWith
<1> QED
  BY <1>2, <1>4 DEF a

LEMMA TailOfInbox ==
  ASSUME NEW q \in Seq(Handler), q # <<>>, NEW m, EndsWith(q, m)
  PROVE  /\ EndsWith(Tail(q), m)
         /\ Silent(Tail(q)) /\ Head(q).what \in Modes => Head(q).what = m
         /\ Silent(Tail(q)) /\ Head(q).what \notin Modes => Silent(q)
<1> DEFINE t == Tail(q)
<1>1. /\ Len(q) \in Nat \ {0} /\ Len(t) = Len(q) - 1 /\ Head(q) = q[1]
      /\ \A i \in 1 .. Len(t) : t[i] = q[i + 1]
  OBVIOUS
<1> HIDE DEF t
<1>2. ASSUME NEW i \in 1 .. Len(t), t[i].what \in Modes,
             \A j \in (i + 1) .. Len(t) : t[j].what \notin Modes
      PROVE  t[i].what = m
  <2>1. ASSUME NEW j \in (i + 2) .. Len(q) PROVE q[j].what \notin Modes
    <3>1. j - 1 \in (i + 1) .. Len(t) /\ j - 1 \in 1 .. Len(t) /\ (j - 1) + 1 = j
      BY <1>1, <2>1
    <3>2. t[j - 1] = q[j]
      BY <1>1, <3>1
    <3> QED
      BY <1>2, <3>1, <3>2
  <2>2. i + 1 \in 1 .. Len(q) /\ t[i] = q[i + 1] /\ (i + 1) + 1 = i + 2
    BY <1>1, <1>2
  <2> QED
    BY <1>2, <2>1, <2>2 DEF EndsWith
<1>3. EndsWith(t, m)
  BY <1>2 DEF EndsWith
<1>4. ASSUME Silent(t), NEW j \in 2 .. Len(q) PROVE q[j].what \notin Modes
  <2>1. j - 1 \in 1 .. Len(t) /\ (j - 1) + 1 = j
    BY <1>1, <1>4
  <2>2. t[j - 1] = q[j]
    BY <1>1, <2>1
  <2> QED
    BY <1>4, <2>1, <2>2 DEF Silent
<1>5. Silent(t) /\ q[1].what \in Modes => q[1].what = m
  BY <1>1, <1>4 DEF EndsWith
<1>6. Silent(t) /\ q[1].what \notin Modes => Silent(q)
  BY <1>1, <1>4 DEF Silent
<1> QED
  BY <1>1, <1>3, <1>5, <1>6 DEF t

\* A HUD follows the commands: the one that is being published for it is the last;
\* otherwise the last in its inbox is, and with none there, the mode it shows.
Awaits(c, h) == hudJob[c] # None /\ h \in hudJob[c].left

Follows(h) ==
  /\ \A c \in Consoles : Awaits(c, h) => hudJob[c].what = told[h]
  /\ (\A c \in Consoles : ~Awaits(c, h)) =>
       /\ EndsWith(inbox[Session[h]], told[h])
       /\ Silent(inbox[Session[h]]) => mode[h] = told[h]

HudInv ==
  /\ \A c, d \in Consoles : hudJob[c] # None /\ hudJob[d] # None => c = d
  /\ \A s \in Sessions : \A i \in 1 .. Len(inbox[s]) : Session[inbox[s][i].view] = s
  /\ \A h \in Huds :
       /\ view[h] = "open" => h \in hudSubs /\ Follows(h)
       /\ view[h] = "none" => told[h] = mode[h] /\ inbox[Session[h]] = <<>>

Inv == TypeInv /\ ThreadInv /\ BusInv /\ HudInv

LEMMA InitHuds == Init => HudInv
<1> SUFFICES ASSUME Init PROVE HudInv
  OBVIOUS
<1>1. \A s \in Sessions : inbox[s] = <<>>
  BY DEF Init, MapInit
<1>2. \A v \in Views : Session[v] \in Sessions
  BY DEF Sessions
<1>3. \A h \in Huds : view[h] # "open" /\ told[h] = mode[h]
  BY DEF Init, MapInit, Views
<1> QED
  BY <1>1, <1>2, <1>3 DEF HudInv, Init, MapInit, Views

\* Actions that leave commands, HUDs and inboxes alone.
LEMMA HudsLeftAlone ==
  ASSUME Inv, UNCHANGED <<mode, told, hudJob, hudSubs, inbox>>, \A h \in Huds : view'[h] = view[h]
  PROVE  HudInv'
BY DEF Inv, HudInv, Follows, Awaits, EndsWith, Silent

LEMMA ViewKeepsHuds ==
  ASSUME Inv, NEW v \in Views, View(v)
  PROVE  HudInv'
<1>1. CASE OpenMap(v) \/ CloseMap(v)
  <2>1. v \notin Huds
    BY <1>1, FleetAssumption DEF OpenMap, CloseMap
  <2>2. \A h \in Huds : view'[h] = view[h]
    BY <1>1, <2>1 DEF OpenMap, CloseMap, Inv, TypeInv, MapTypeOK, Views
  <2> QED
    BY <1>1, <2>2, HudsLeftAlone DEF OpenMap, CloseMap
<1>2. CASE Poll(v) \/ ServeRead(v) \/ ReadAnswered(v) \/ ReadFails(v) \/ AnswerStray(v)
  BY <1>2, HudsLeftAlone DEF Poll, ServeRead, ReadAnswered, ReadFails, AnswerStray, buses
<1>3. CASE OpenHud(v)
  <2>1. /\ hudSubs' = hudSubs \cup {v} /\ \A c \in Consoles : hudJob[c] = None
        /\ UNCHANGED <<mode, told, hudJob, inbox>>
    BY <1>3 DEF OpenHud, HudControlBus!Subscribe, HudControlBus!Unlocked
  <2>2. ASSUME NEW h \in Huds, view'[h] = "open" PROVE h \in hudSubs' /\ Follows(h)'
    <3>1. CASE h = v
      <4>1. told[h] = mode[h] /\ inbox[Session[h]] = <<>>
        BY <1>3, <3>1 DEF OpenHud, Inv, HudInv
      <4> QED
        BY <2>1, <3>1, <4>1 DEF Follows, Awaits, EndsWith, Silent
    <3>2. CASE h # v
      <4>1. h \in hudSubs /\ Follows(h)
        BY <1>3, <2>2, <3>2 DEF OpenHud, Inv, HudInv, TypeInv, MapTypeOK, Views
      <4> QED
        BY <2>1, <4>1 DEF Follows, Awaits, EndsWith, Silent
    <3> QED
      BY <3>1, <3>2
  <2>3. \A h \in Huds : view'[h] = "none" => view[h] = "none"
    BY <1>3 DEF OpenHud, Inv, TypeInv, MapTypeOK, Views
  <2> QED
    BY <2>1, <2>2, <2>3 DEF Inv, HudInv
<1>4. CASE CloseHud(v)
  <2>1. /\ v \in Huds /\ hudSubs' = hudSubs \ {v} /\ UNCHANGED <<mode, told, hudJob>>
        /\ inbox' = [inbox EXCEPT ![Session[v]] = <<>>]
    BY <1>4 DEF CloseHud, HudControlBus!Unsubscribe
  <2>2. \A h \in Huds : h # v => /\ view'[h] = view[h] /\ inbox'[Session[h]] = inbox[Session[h]]
                                 /\ h \in hudSubs => h \in hudSubs'
    BY <1>4, <2>1, FleetAssumption DEF CloseHud, Inv, TypeInv, MapTypeOK, Views, Sessions
  <2>3. view'[v] = "gone"
    BY <1>4 DEF CloseHud, Inv, TypeInv, MapTypeOK
  <2>4. ASSUME NEW h \in Huds, view'[h] = "open" PROVE h \in hudSubs' /\ Follows(h)'
    <3>1. h # v
      BY <2>3, <2>4
    <3>2. h \in hudSubs /\ Follows(h)
      BY <2>2, <2>4, <3>1 DEF Inv, HudInv
    <3> QED
      BY <2>1, <2>2, <3>1, <3>2 DEF Follows, Awaits, EndsWith, Silent
  <2>5. ASSUME NEW s \in Sessions, NEW i \in 1 .. Len(inbox'[s])
        PROVE  Session[inbox'[s][i].view] = s
    <3>1. inbox'[s] = inbox[s] \/ inbox'[s] = <<>>
      BY <2>1 DEF Inv, TypeInv
    <3> QED
      BY <2>5, <3>1 DEF Inv, HudInv
  <2>6. ASSUME NEW h \in Huds, view'[h] = "none"
        PROVE  told'[h] = mode'[h] /\ inbox'[Session[h]] = <<>>
    BY <2>1, <2>2, <2>3, <2>6 DEF Inv, HudInv
  <2> QED
    BY <2>1, <2>4, <2>5, <2>6 DEF Inv, HudInv
<1> QED
  BY <1>1, <1>2, <1>3, <1>4 DEF View

\* A session's inbox holds handlers of its own views; that of a HUD has no others.
LEMMA OwnInbox ==
  ASSUME Inv, NEW s \in Sessions, inbox[s] # <<>>
  PROVE  /\ Head(inbox[s]) \in Handler
         /\ Session[Head(inbox[s]).view] = s
         /\ \A h \in Huds : Session[h] = s => Head(inbox[s]).view = h
<1>1. inbox[s] \in Seq(Handler)
  BY DEF Inv, TypeInv
<1>2. Len(inbox[s]) \in Nat \ {0} /\ Head(inbox[s]) = inbox[s][1] /\ inbox[s][1] \in Handler
  BY <1>1
<1>3. Session[inbox[s][1].view] = s
  BY <1>2 DEF Inv, HudInv
<1>4. inbox[s][1].view \in Views
  BY <1>2 DEF Handler
<1> QED
  BY <1>2, <1>3, <1>4, FleetAssumption

LEMMA SessionKeepsHuds ==
  ASSUME Inv, NEW s \in Sessions, RunPosted(s) \/ RunStray(s)
  PROVE  HudInv'
<1> DEFINE x == Head(inbox[s])
<1>1. /\ inbox[s] # <<>> /\ inbox' = [inbox EXCEPT ![s] = Tail(@)]
      /\ UNCHANGED <<told, view, hudSubs, hudJob>>
  BY DEF RunPosted, RunStray, screen
<1>2. inbox[s] \in Seq(Handler)
  BY DEF Inv, TypeInv
<1>3. \A r \in Sessions : inbox'[r] = IF r = s THEN Tail(inbox[s]) ELSE inbox[r]
  BY <1>1 DEF Inv, TypeInv
<1>4. /\ x \in Handler /\ Session[x.view] = s
      /\ \A h \in Huds : Session[h] = s => x.view = h
  BY <1>1, OwnInbox
<1>5. \A h \in Huds : Session[h] \in Sessions
  BY DEF Sessions, Views
<1>6. \A h \in Huds : Session[h] # s => mode'[h] = mode[h]
  <2>1. CASE RunStray(s)
    BY <2>1 DEF RunStray, screen
  <2>2. CASE RunPosted(s)
    BY <1>4, <2>2 DEF RunPosted, ApplyCommand, Inv, TypeInv, MapTypeOK
  <2> QED
    BY <2>1, <2>2
<1>7. ASSUME NEW h \in Huds, Session[h] = s
      PROVE  /\ view[h] # "none"
             /\ view[h] = "open" => mode'[h] = IF x.what \in Modes THEN x.what ELSE mode[h]
  <2>1. view[h] # "none"
    BY <1>1, <1>7 DEF Inv, HudInv
  <2>2. x.view = h
    BY <1>4, <1>7
  <2>3. ASSUME view[h] = "open" PROVE mode'[h] = IF x.what \in Modes THEN x.what ELSE mode[h]
    <3>1. RunPosted(s)
      BY <2>2, <2>3 DEF RunStray
    <3> QED
      BY <2>2, <3>1, FleetAssumption DEF RunPosted, ApplyCommand, Inv, TypeInv, MapTypeOK
  <2> QED
    BY <2>1, <2>3
<1>8. ASSUME NEW h \in Huds, view[h] = "open" PROVE Follows(h)'
  <2>1. Follows(h) /\ (\A c \in Consoles : Awaits(c, h)' <=> Awaits(c, h))
    BY <1>1, <1>8 DEF Inv, HudInv, Awaits
  <2>2. CASE Session[h] # s
    BY <1>1, <1>3, <1>5, <1>6, <2>1, <2>2 DEF Follows, EndsWith, Silent
  <2>3. CASE Session[h] = s
    <3>1. ASSUME \A c \in Consoles : ~Awaits(c, h)
          PROVE  /\ EndsWith(Tail(inbox[s]), told[h])
                 /\ Silent(Tail(inbox[s])) => mode'[h] = told[h]
      <4>1. EndsWith(inbox[s], told[h]) /\ (Silent(inbox[s]) => mode[h] = told[h])
        BY <2>1, <2>3, <3>1 DEF Follows
      <4>2. /\ EndsWith(Tail(inbox[s]), told[h])
            /\ Silent(Tail(inbox[s])) /\ x.what \in Modes => x.what = told[h]
            /\ Silent(Tail(inbox[s])) /\ x.what \notin Modes => Silent(inbox[s])
        BY <1>1, <1>2, <4>1, TailOfInbox
      <4> QED
        BY <1>7, <1>8, <2>3, <4>1, <4>2
    <3>2. inbox'[Session[h]] = Tail(inbox[s])
      BY <1>3, <2>3
    <3> QED
      BY <1>1, <2>1, <3>1, <3>2 DEF Follows, EndsWith, Silent
  <2> QED
    BY <2>2, <2>3
<1>9. ASSUME NEW r \in Sessions, NEW i \in 1 .. Len(inbox'[r])
      PROVE  Session[inbox'[r][i].view] = r
  <2>1. CASE r # s
    BY <1>3, <1>9, <2>1 DEF Inv, HudInv
  <2>2. CASE r = s
    <3> DEFINE q == inbox[s]
               t == Tail(q)
    <3>1. /\ Len(t) = Len(q) - 1 /\ Len(q) \in Nat
          /\ \A k \in 1 .. Len(t) : t[k] = q[k + 1]
      BY <1>1, <1>2
    <3>2. i \in 1 .. Len(t) /\ inbox'[r][i] = t[i]
      BY <1>3, <1>9, <2>2
    <3>3. \A k \in 1 .. Len(q) : Session[q[k].view] = s
      BY DEF Inv, HudInv
    <3> HIDE DEF q, t
    <3>4. i + 1 \in 1 .. Len(q) /\ t[i] = q[i + 1]
      BY <3>1, <3>2
    <3> QED
      BY <2>2, <3>2, <3>3, <3>4
  <2> QED
    BY <2>1, <2>2
<1>10. \A h \in Huds : view[h] = "none" => told[h] = mode'[h] /\ inbox'[Session[h]] = <<>>
  BY <1>3, <1>5, <1>6, <1>7 DEF Inv, HudInv
<1> QED
  BY <1>1, <1>8, <1>9, <1>10 DEF Inv, HudInv

\* Posting a handler of view u to its session.
LEMMA PostedIsOwn ==
  ASSUME Inv, NEW u \in Views, NEW y,
         inbox' = [inbox EXCEPT ![Session[u]] = Append(@, [view |-> u, what |-> y])]
  PROVE  /\ \A s \in Sessions : \A i \in 1 .. Len(inbox'[s]) : Session[inbox'[s][i].view] = s
         /\ inbox'[Session[u]] = Append(inbox[Session[u]], [view |-> u, what |-> y])
         /\ \A h \in Huds : h # u => inbox'[Session[h]] = inbox[Session[h]]
<1>1. Session[u] \in Sessions /\ \A h \in Huds : Session[h] \in Sessions
  BY DEF Sessions, Views
<1>2. inbox'[Session[u]] = Append(inbox[Session[u]], [view |-> u, what |-> y])
  BY <1>1 DEF Inv, TypeInv
<1>3. ASSUME NEW s \in Sessions, NEW i \in 1 .. Len(inbox'[s]) PROVE Session[inbox'[s][i].view] = s
  <2>1. inbox[s] \in Seq(Handler)
    BY DEF Inv, TypeInv
  <2>2. CASE s # Session[u]
    <3>1. inbox'[s] = inbox[s]
      BY <2>2 DEF Inv, TypeInv
    <3> QED
      BY <1>3, <3>1 DEF Inv, HudInv
  <2>3. CASE s = Session[u]
    <3>1. \/ i \in 1 .. Len(inbox[s]) /\ inbox'[s][i] = inbox[s][i]
          \/ inbox'[s][i] = [view |-> u, what |-> y]
      BY <1>2, <1>3, <2>1, <2>3
    <3> QED
      BY <2>3, <3>1 DEF Inv, HudInv
  <2> QED
    BY <2>2, <2>3
<1>4. \A h \in Huds : h # u => inbox'[Session[h]] = inbox[Session[h]]
  BY <1>1, FleetAssumption DEF Inv, TypeInv
<1> QED
  BY <1>2, <1>3, <1>4

LEMMA PostCommandKeepsHuds ==
  ASSUME Inv, NEW c \in Consoles, NEW u \in Huds, HudControlBus!PostTo(c, u),
         UNCHANGED <<screen, hudSubs>>
  PROVE  HudInv'
<1> DEFINE y == hudJob[c].what
<1>1. hudJob[c] # None /\ u \in hudJob[c].left /\ hudJob[c] \in Job(Modes) /\ u \in Views
  BY DEF HudControlBus!PostTo, Inv, TypeInv, Views
<1>2. hudJob' = [hudJob EXCEPT ![c].left = @ \ {u}]
  BY DEF HudControlBus!PostTo
<1>3. /\ hudJob'[c].what = y /\ hudJob'[c].left = hudJob[c].left \ {u}
      /\ hudJob'[c] \in Job(Modes)
      /\ \A d \in Consoles : d # c => hudJob'[d] = hudJob[d] /\ hudJob[d] = None
  BY <1>1, <1>2 DEF Inv, TypeInv, HudInv, Job
<1>4. /\ \A s \in Sessions : \A i \in 1 .. Len(inbox'[s]) : Session[inbox'[s][i].view] = s
      /\ inbox'[Session[u]] = Append(inbox[Session[u]], [view |-> u, what |-> y])
      /\ \A h \in Huds : h # u => inbox'[Session[h]] = inbox[Session[h]]
  BY <1>1, PostedIsOwn DEF HudControlBus!PostTo
<1>5. view[u] = "open" /\ told[u] = y
  <2>1. view[u] = "open"
    BY <1>1 DEF Inv, BusInv, TypeInv, MapTypeOK
  <2> QED
    BY <1>1, <2>1 DEF Inv, HudInv, Follows, Awaits
<1>6. ASSUME NEW h \in Huds, view[h] = "open" PROVE Follows(h)'
  <2>1. Follows(h)
    BY <1>6 DEF Inv, HudInv
  <2>2. CASE h # u
    <3>1. hudJob'[c] # None
      <4>1. None \notin Job(Modes)
        BY FleetAssumption DEF Job
      <4> QED
        BY <1>3, <4>1
    <3>2. \A d \in Consoles : /\ Awaits(d, h)' <=> Awaits(d, h)
                              /\ Awaits(d, h) => hudJob'[d].what = hudJob[d].what
      BY <1>1, <1>3, <2>2, <3>1 DEF Awaits
    <3> QED
      BY <1>4, <2>1, <2>2, <3>2 DEF Follows, EndsWith, Silent, screen
  <2>3. CASE h = u
    <3>1. inbox[Session[u]] \in Seq(Handler)
      BY DEF Inv, TypeInv, Sessions, Views
    <3>2. EndsWith(inbox'[Session[u]], y) /\ ~Silent(inbox'[Session[u]])
      BY <1>1, <1>4, <3>1, AppendMode DEF Job
    <3>3. \A d \in Consoles : ~Awaits(d, h)'
      BY <1>3, <2>3 DEF Awaits
    <3> QED
      BY <1>5, <2>3, <3>2, <3>3 DEF Follows, EndsWith, Silent, screen
  <2> QED
    BY <2>2, <2>3
<1>7. \A d, e \in Consoles : hudJob'[d] # None /\ hudJob'[e] # None => d = e
  BY <1>3
<1>8. \A h \in Huds : view[h] = "none" => told[h] = mode[h] /\ inbox'[Session[h]] = <<>>
  BY <1>4, <1>5 DEF Inv, HudInv
<1> QED
  BY <1>4, <1>6, <1>7, <1>8 DEF HudInv, Inv, screen

LEMMA ConsoleKeepsHuds ==
  ASSUME Inv, NEW c \in Consoles, PostCommand(c) \/ \E m \in Modes : Command(c, m)
  PROVE  HudInv'
<1>1. ASSUME NEW m \in Modes, Command(c, m) PROVE HudInv'
  <2>1. /\ \A d \in Consoles : hudJob[d] = None
        /\ hudJob' = [hudJob EXCEPT ![c] = [what |-> m, left |-> hudSubs]]
        /\ told' = [h \in Huds |-> IF h \in hudSubs THEN m ELSE told[h]]
        /\ UNCHANGED <<view, mode, hudSubs, inbox>>
    BY <1>1 DEF Command, HudControlBus!BeginPublish, HudControlBus!Unlocked
  <2>2. /\ hudJob'[c].what = m /\ hudJob'[c].left = hudSubs
        /\ \A d \in Consoles : d # c => hudJob'[d] = None
    BY <2>1 DEF Inv, TypeInv
  <2>3. \A d, e \in Consoles : hudJob'[d] # None /\ hudJob'[e] # None => d = e
    BY <2>2
  <2>4. ASSUME NEW h \in Huds, view[h] = "open" PROVE Follows(h)'
    <3>1. h \in hudSubs /\ told'[h] = m
      BY <2>1, <2>4 DEF Inv, HudInv
    <3>2. \A d \in Consoles : Awaits(d, h)' => hudJob'[d].what = told'[h]
      BY <2>2, <3>1 DEF Awaits
    <3>3. CASE hudJob'[c] # None
      <4>1. Awaits(c, h)'
        BY <2>2, <3>1, <3>3 DEF Awaits
      <4> QED
        BY <3>2, <4>1 DEF Follows
    <3>4. hudJob'[c] # None
      BY <2>1, FleetAssumption DEF Inv, TypeInv, Views
    <3> QED
      BY <3>3, <3>4
  <2>5. \A h \in Huds : view[h] = "none" => told'[h] = mode[h] /\ inbox[Session[h]] = <<>>
    BY <2>1 DEF Inv, HudInv, TypeInv, MapTypeOK
  <2> QED
    BY <2>1, <2>3, <2>4, <2>5 DEF Inv, HudInv
<1>2. ASSUME NEW h \in Huds, HudControlBus!PostTo(c, h), UNCHANGED <<screen, hudSubs>> PROVE HudInv'
  BY <1>2, PostCommandKeepsHuds
<1>3. CASE HudControlBus!EndPublish(c) /\ UNCHANGED <<screen, hudSubs, inbox>>
  <2>1. \A h \in Huds, d \in Consoles : Awaits(d, h)' <=> Awaits(d, h)
    BY <1>3 DEF HudControlBus!EndPublish, Awaits, Inv, TypeInv
  <2>2. \A d \in Consoles : hudJob'[d] # None => hudJob'[d] = hudJob[d]
    BY <1>3 DEF HudControlBus!EndPublish, Inv, TypeInv
  <2>3. ASSUME NEW h \in Huds, Follows(h) PROVE Follows(h)'
    BY <1>3, <2>1, <2>2, <2>3 DEF Follows, Awaits, EndsWith, Silent, screen
  <2> QED
    BY <1>3, <2>2, <2>3 DEF Inv, HudInv, screen
<1> QED
  BY <1>1, <1>2, <1>3 DEF PostCommand

LEMMA FramesKeepHuds ==
  ASSUME Inv, HandleFrame
  PROVE  HudInv'
<1>1. CASE PublishFix \/ EndFix \/ DropFrame
  BY <1>1, HudsLeftAlone DEF PublishFix, EndFix, DropFrame, mapVars, screen, buses
<1>2. CASE PostFix
  <2>1. PICK u \in Views : PositionBus!PostTo(Worker, u)
    BY <1>2 DEF PostFix
  <2> DEFINE y == posJob[Worker].what
  <2>2. posJob[Worker] \in Job(Fixes) /\ y \notin Modes
    BY <2>1, FleetAssumption DEF PositionBus!PostTo, Inv, TypeInv, Job
  <2>3. /\ \A s \in Sessions : \A i \in 1 .. Len(inbox'[s]) : Session[inbox'[s][i].view] = s
        /\ inbox'[Session[u]] = Append(inbox[Session[u]], [view |-> u, what |-> y])
        /\ \A h \in Huds : h # u => inbox'[Session[h]] = inbox[Session[h]]
    BY <2>1, PostedIsOwn DEF PositionBus!PostTo
  <2>4. view[u] = "open"
    BY <2>1 DEF PositionBus!PostTo, Inv, BusInv, TypeInv, MapTypeOK
  <2>5. UNCHANGED <<view, mode, told, hudJob, hudSubs>>
    BY <1>2 DEF PostFix, screen
  <2>6. ASSUME NEW h \in Huds, view[h] = "open" PROVE Follows(h)'
    <3>1. Follows(h)
      BY <2>6 DEF Inv, HudInv
    <3>2. CASE h # u
      BY <2>3, <2>5, <3>1, <3>2 DEF Follows, Awaits, EndsWith, Silent
    <3>3. CASE h = u
      <4>1. inbox[Session[u]] \in Seq(Handler)
        BY DEF Inv, TypeInv, Sessions
      <4>2. /\ EndsWith(inbox[Session[u]], told[h]) => EndsWith(inbox'[Session[u]], told[h])
            /\ Silent(inbox'[Session[u]]) => Silent(inbox[Session[u]])
        BY <2>2, <2>3, <4>1, AppendFix
      <4>3. \A c \in Consoles : Awaits(c, h)' <=> Awaits(c, h)
        BY <2>5 DEF Awaits
      <4>4. Follows(h)' <=>
              /\ \A c \in Consoles : Awaits(c, h) => hudJob[c].what = told[h]
              /\ (\A c \in Consoles : ~Awaits(c, h)) =>
                   /\ EndsWith(inbox'[Session[u]], told[h])
                   /\ Silent(inbox'[Session[u]]) => mode[h] = told[h]
        BY <2>5, <3>3, <4>3 DEF Follows, EndsWith, Silent
      <4> QED
        BY <3>1, <3>3, <4>2, <4>4 DEF Follows
    <3> QED
      BY <3>2, <3>3
  <2>7. \A h \in Huds : view[h] = "none" => told[h] = mode[h] /\ inbox'[Session[h]] = <<>>
    BY <2>3, <2>4 DEF Inv, HudInv
  <2> QED
    BY <2>3, <2>5, <2>6, <2>7 DEF Inv, HudInv
<1> QED
  BY <1>1, <1>2 DEF HandleFrame

LEMMA EndKeepsHuds ==
  ASSUME Inv, ServerStop \/ Crash
  PROVE  HudInv'
<1>1. SessionsEnd /\ \A c \in Consoles : hudJob'[c] = None
  BY DEF ServerStop, Crash, HudControlBus!Unlocked
<1>2. \A s \in Sessions : inbox'[s] = <<>>
  BY <1>1 DEF SessionsEnd
<1>3. \A h \in Huds : /\ view'[h] # "open"
                      /\ view'[h] = "none" => view[h] = "none"
                      /\ Session[h] \in Sessions
  BY <1>1 DEF SessionsEnd, Inv, TypeInv, MapTypeOK, Views, Sessions
<1> QED
  BY <1>1, <1>2, <1>3 DEF SessionsEnd, Inv, HudInv

LEMMA NextKeepsHuds == Inv /\ [Next]_vars => HudInv'
<1> SUFFICES ASSUME Inv, [Next]_vars PROVE HudInv'
  OBVIOUS
<1>1. CASE UNCHANGED vars \/ (RC!Client /\ UNCHANGED mapVars) \/ \E f \in Fixes : Report(f)
  BY <1>1, HudsLeftAlone DEF vars, mapVars, screen, buses, Report
<1>2. CASE FleetViews
  <2>1. CASE \E f \in Fixes : Store(f) \/ NotStored(f)
    BY <2>1, HudsLeftAlone DEF Store, NotStored, screen, buses
  <2> QED
    BY <1>2, <2>1, ViewKeepsHuds, SessionKeepsHuds, ConsoleKeepsHuds DEF FleetViews
<1> QED
  BY <1>1, <1>2, FramesKeepHuds, EndKeepsHuds DEF Next

\* A HUD that has handled what was posted to it shows the last command it was told,
\* whichever consoles published them and however that overlapped.
THEOREM HudsAgreeAlways == Spec => []HudsAgree
<1>1. Init => Inv
  BY InitInv, InitHuds DEF Inv
<1>2. Inv /\ [Next]_vars => Inv'
  BY NextKeepsInv, NextKeepsHuds DEF Inv
<1>3. Inv => HudsAgree
  <2> SUFFICES ASSUME Inv, NEW h \in Huds, view[h] = "open", ~Pending(h) PROVE mode[h] = told[h]
    BY DEF HudsAgree
  <2>1. \A c \in Consoles : ~Awaits(c, h)
    BY DEF Pending, Awaits
  <2>2. Silent(inbox[Session[h]])
    <3>1. inbox[Session[h]] \in Seq(Handler)
      BY DEF Inv, TypeInv, Sessions, Views
    <3> QED
      BY <3>1 DEF Pending, Silent
  <2> QED
    BY <2>1, <2>2 DEF Inv, HudInv, Follows
<1> QED
  BY <1>1, <1>2, <1>3, PTL DEF Spec
=============================================================================
