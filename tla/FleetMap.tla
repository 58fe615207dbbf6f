------------------------------ MODULE FleetMap ------------------------------
(***************************************************************************)
(* The views of the desktop that show where the rigs are: the map of the   *)
(* console (MapView.cpp) and the wall displays (HudView.cpp), which also   *)
(* follow the mode commands of the consoles.                               *)
(*                                                                         *)
(* A view reads all fixes when it opens and then every minute; a read ends *)
(* or fails before the next (ApiClient gives it 15 seconds).  In between   *)
(* fixes are pushed through PositionBus, before they are committed and     *)
(* perhaps never.  A fix may be stored long after it was taken: phones     *)
(* upload what they recorded while they were offline.                      *)
(*                                                                         *)
(* Views compare recorded_at as text.  The API writes 2026-01-31T10:00,    *)
(* the event of the stream 2026-01-31 10:00, which sorts before all times  *)
(* of that day as the API writes them.                                     *)
(***************************************************************************)
EXTENDS Integers, Sequences, FiniteSets, SequencesExt

CONSTANTS
  Fixes,
  Rig,      \* Rig[f]: the rig of a fix, or None
  At,       \* At[f]: recorded_at
  Maps,     \* MapViews
  Huds,     \* HudViews, each in a session of its own
  Session,  \* Session[v]: the session of view v
  Consoles, \* the sessions that send mode commands
  MaxCommands,  \* bound: how many they send
  None

Views    == Maps \cup Huds
Sessions == {Session[v] : v \in Views}
Modes    == {"week", "today"}

\* A fix as a view has it: with recorded_at as the stream or as the API writes it.
Fix(f, form) == [fix |-> f, form |-> form]

\* recorded_at > recorded_at, on fixes of one day.
SortsAfter(x, y) ==
  \/ x.form = y.form /\ At[x.fix] > At[y.fix]
  \/ x.form = "api" /\ y.form = "stream"

ASSUME FleetAssumption ==
  /\ Maps \cap Huds = {}
  /\ \A h \in Huds, v \in Views : v # h => Session[v] # Session[h]
  /\ \A f, g \in Fixes : f # g => At[f] # At[g]
  /\ None \notin Fixes \cup Views \cup Modes \cup [what : Modes, left : SUBSET Views]
  /\ Fixes \cap Modes = {}
  /\ MaxCommands \in Nat

VARIABLES
  row,        \* row[f]: how far storing f has come
  view,       \* view[v]: "none", "open", or "gone", destroyed
  positions,  \* positions[v]: positions_
  read,       \* read[v]: the read it has in flight, and its answer
  mode,       \* mode[h]: the mode HUD h shows
  told,       \* history: the last command published while h was there
  commands,   \* how many mode commands were sent
  posSubs, posJob, hudSubs, hudJob,  \* PositionBus and HudControlBus
  inbox       \* inbox[s]: handlers posted to session s

screen  == <<view, positions, read, mode, told>>
buses   == <<posSubs, posJob, hudSubs, hudJob, inbox>>
mapVars == <<row, screen, commands, buses>>

Worker == "worker"

Idle  == [at |-> "idle", fixes |-> {}]
Asked == [at |-> "asked", fixes |-> {}]

PositionBus   == INSTANCE SessionBus WITH subs <- posSubs, job <- posJob, Publishers <- {Worker}
HudControlBus == INSTANCE SessionBus WITH subs <- hudSubs, job <- hudJob, Publishers <- Consoles

\* Bounds: a behaviour has fixes of one rig, or of none, and one view, or it has
\* mode commands and all HUDs; the other views are gone from the start.
MapInit ==
  /\ \/ /\ commands = 0
        /\ row = [f \in Fixes |-> "failed"]
        /\ view = [v \in Views |-> IF v \in Huds THEN "none" ELSE "gone"]
     \/ /\ commands = MaxCommands
        /\ \E f \in Fixes : row = [g \in Fixes |-> IF Rig[g] = Rig[f] THEN "unsent" ELSE "failed"]
        /\ \E u \in Views : view = [v \in Views |-> IF v = u THEN "none" ELSE "gone"]
  /\ positions = [v \in Views |-> {}]
  /\ read = [v \in Views |-> Idle]
  /\ mode = [h \in Huds |-> "week"]
  /\ told = [h \in Huds |-> "week"]
  /\ posSubs = {} /\ hudSubs = {}
  /\ posJob = [w \in {Worker} |-> None]
  /\ hudJob = [c \in Consoles |-> None]
  /\ inbox = [s \in Sessions |-> <<>>]

-----------------------------------------------------------------------------
\* The API and the database.

Stored == {f \in Fixes : row[f] = "stored"}

Store(f) ==
  /\ row[f] = "flushed"
  /\ row' = [row EXCEPT ![f] = "stored"]
  /\ UNCHANGED <<screen, commands, buses>>

NotStored(f) ==
  /\ row[f] \in {"unsent", "flushed"}
  /\ row' = [row EXCEPT ![f] = "failed"]
  /\ UNCHANGED <<screen, commands, buses>>

\* fetchPositions: all fixes there are.
ServeRead(v) ==
  /\ read[v] = Asked
  /\ read' = [read EXCEPT ![v] = [at |-> "served", fixes |-> {Fix(f, "api") : f \in Stored}]]
  /\ UNCHANGED <<row, view, positions, mode, told, commands, buses>>

-----------------------------------------------------------------------------
\* The views.

\* The constructor of MapView: load, then subscribe.
OpenMap(v) ==
  /\ v \in Maps /\ view[v] = "none"
  /\ view' = [view EXCEPT ![v] = "open"]
  /\ read' = [read EXCEPT ![v] = Asked]
  /\ PositionBus!Subscribe(v)
  /\ UNCHANGED <<row, positions, mode, told, commands, posJob, hudSubs, hudJob, inbox>>

\* The constructor of HudView: it starts in the week, whatever the consoles show.
OpenHud(h) ==
  /\ h \in Huds /\ view[h] = "none"
  /\ view' = [view EXCEPT ![h] = "open"]
  /\ read' = [read EXCEPT ![h] = Asked]
  /\ HudControlBus!Subscribe(h)
  /\ PositionBus!Subscribe(h)
  /\ UNCHANGED <<row, positions, mode, told, commands, posJob, hudJob, inbox>>

\* The user of a console goes elsewhere: ~MapView, in a session that goes on.
CloseMap(v) ==
  /\ v \in Maps /\ view[v] = "open"
  /\ view' = [view EXCEPT ![v] = "gone"]
  /\ PositionBus!Unsubscribe(v)
  /\ UNCHANGED <<row, positions, read, mode, told, commands, posJob, hudSubs, hudJob, inbox>>

\* ~HudView: its session ends, and what is posted to it is dropped.
CloseHud(h) ==
  /\ h \in Huds /\ view[h] = "open"
  /\ view' = [view EXCEPT ![h] = "gone"]
  /\ read' = [read EXCEPT ![h] = Idle]
  /\ HudControlBus!Unsubscribe(h)
  /\ PositionBus!Unsubscribe(h)
  /\ inbox' = [inbox EXCEPT ![Session[h]] = <<>>]
  /\ UNCHANGED <<row, positions, mode, told, commands, posJob, hudJob>>

\* The timer: load, loadPositions.
Poll(v) ==
  /\ view[v] = "open" /\ read[v] = Idle
  /\ read' = [read EXCEPT ![v] = Asked]
  /\ UNCHANGED <<row, view, positions, mode, told, commands, buses>>

Served(v) == read[v].at = "served"

\* Faulty: what is new in the snapshot is added.
ReadAnsweredAdding(v) ==
  /\ view[v] = "open" /\ Served(v)
  /\ positions' = [positions EXCEPT ![v] = @ \cup read[v].fixes]
  /\ read' = [read EXCEPT ![v] = Idle]
  /\ UNCHANGED <<row, view, mode, told, commands, buses>>

\* The snapshot replaces what the view has.
ReadAnswered(v) ==
  /\ view[v] = "open" /\ Served(v)
  /\ positions' = [positions EXCEPT ![v] = read[v].fixes]
  /\ read' = [read EXCEPT ![v] = Idle]
  /\ UNCHANGED <<row, view, mode, told, commands, buses>>

ReadFails(v) ==
  /\ view[v] = "open" /\ read[v] # Idle
  /\ read' = [read EXCEPT ![v] = Idle]
  /\ UNCHANGED <<row, view, positions, mode, told, commands, buses>>

\* Faulty: the other fixes of the rig are left.
ApplyLiveAdding(v, f) ==
  positions' = [positions EXCEPT ![v] = @ \cup {Fix(f, "stream")}]

\* applyLive: the fix takes the place of all others of its rig.
ApplyLive(v, f) ==
  positions' = [positions EXCEPT ![v] = {x \in @ : Rig[x.fix] # Rig[f]} \cup {Fix(f, "stream")}]

\* HudView::apply.
ApplyCommand(h, m) == mode' = [mode EXCEPT ![h] = m]

\* A session runs what was posted to it, for a view that is still there.
RunPosted(s) ==
  /\ inbox[s] # <<>>
  /\ LET v == Head(inbox[s]).view
         x == Head(inbox[s]).what
     IN  /\ view[v] = "open"
         /\ \/ x \in Fixes /\ ApplyLive(v, x) /\ UNCHANGED mode
            \/ x \in Modes /\ ApplyCommand(v, x) /\ UNCHANGED positions
  /\ inbox' = [inbox EXCEPT ![s] = Tail(@)]
  /\ UNCHANGED <<row, view, read, told, commands, posSubs, posJob, hudSubs, hudJob>>

\* A handler, or an answer, for a view that is gone runs on freed memory: here
\* nothing comes of it, or else the process ends (LiveFleet).
RunStray(s) ==
  /\ inbox[s] # <<>> /\ view[Head(inbox[s]).view] = "gone"
  /\ inbox' = [inbox EXCEPT ![s] = Tail(@)]
  /\ UNCHANGED <<row, screen, commands, posSubs, posJob, hudSubs, hudJob>>

AnswerStray(v) ==
  /\ view[v] = "gone" /\ read[v] # Idle
  /\ read' = [read EXCEPT ![v] = Idle]
  /\ UNCHANGED <<row, view, positions, mode, told, commands, buses>>

\* updateMap: the latest fix of every rig.
Markers(v) ==
  {x.fix : x \in {x \in positions[v] :
                    /\ Rig[x.fix] # None
                    /\ \A y \in positions[v] : Rig[y.fix] = Rig[x.fix] => ~SortsAfter(y, x)}}

-----------------------------------------------------------------------------
\* Shell::setMode of a console.
Command(c, m) ==
  /\ commands < MaxCommands
  /\ HudControlBus!BeginPublish(c, m)
  /\ commands' = commands + 1
  /\ told' = [h \in Huds |-> IF h \in hudSubs THEN m ELSE told[h]]
  /\ UNCHANGED <<row, view, positions, read, mode, posSubs, posJob, hudSubs, inbox>>

PostCommand(c) ==
  /\ \/ \E h \in Huds : HudControlBus!PostTo(c, h)
     \/ HudControlBus!EndPublish(c) /\ UNCHANGED inbox
  /\ UNCHANGED <<row, screen, commands, posSubs, posJob, hudSubs>>

-----------------------------------------------------------------------------
View(v) ==
  \/ OpenMap(v) \/ OpenHud(v) \/ CloseMap(v) \/ CloseHud(v)
  \/ Poll(v) \/ ServeRead(v) \/ ReadAnswered(v) \/ ReadFails(v) \/ AnswerStray(v)

FleetViews ==
  \/ \E v \in Views : View(v)
  \/ \E s \in Sessions : RunPosted(s) \/ RunStray(s)
  \/ \E c \in Consoles : PostCommand(c) \/ \E m \in Modes : Command(c, m)
  \/ \E f \in Fixes : Store(f) \/ NotStored(f)

MapTypeOK ==
  /\ row \in [Fixes -> {"unsent", "flushed", "stored", "failed"}]
  /\ view \in [Views -> {"none", "open", "gone"}]
  /\ positions \in [Views -> SUBSET [fix : Fixes, form : {"api", "stream"}]]
  /\ \A v \in Views : read[v].at \in {"idle", "asked", "served"}
  /\ mode \in [Huds -> Modes]
  /\ posSubs \cup hudSubs \subseteq {v \in Views : view[v] = "open"}
=============================================================================
