--------------------------- MODULE DesktopSession ---------------------------
(***************************************************************************)
(* A session of the dispatcher console with the tools of its               *)
(* conversations, and what must be true of it.                             *)
(***************************************************************************)
EXTENDS Console, PanelTools

CONSTANT ToolPlan  \* bound: the tools are used in this plan: sign in, open the conversations

ASSUME SessionAssumption == ToolPlan \in ShortPlans \ {WeekPlan}

sessionVars == <<consoleVars, toolVars>>

\* The panel of the conversations begins as ToolsInit when it is opened; bound: its
\* user waits for what the console asked for, and stays.
SessionInit ==
  /\ Init /\ ToolsInit
  /\ plan # ToolPlan <=> tool = "none"

PanelOpen ==
  /\ plan = ToolPlan /\ content = "comms"
  /\ gestures = MaxGestures /\ calm
  /\ req = <<>> /\ reads = {} /\ toasts = Toasts!NoToasts

SessionNext ==
  \/ ~PanelOpen /\ Next /\ UNCHANGED toolVars
  \/ PanelOpen /\ ToolsNext /\ UNCHANGED consoleVars

Spec == SessionInit /\ [][SessionNext]_sessionVars

-----------------------------------------------------------------------------
\* Types; toasts are swept, and the sweeper stops without them.
TypeOK ==
  /\ app \in {"login", "shell", "down"}
  /\ token \in Users \cup {None}
  /\ app = "shell" <=> user # None
  /\ content \in MenuItems \cup {"profile"} /\ menu \in MenuItems
  /\ table \subseteq Loads /\ row \in 0..MaxGestures
  /\ Toasts!SweeperRuns(toasts) /\ Toasts!SweeperRuns(picks)

\* Shell.h: "rail state to restore on leaving comms".  The frame agrees with the
\* work area: the rail is taken over by the conversations alone, and afterwards is
\* as the user left it; a board is in the mode of the buttons; the menu names the
\* view, but for a profile, and the board that follows a new load.
FrameAgrees ==
  app = "shell" =>
    /\ rail.comms <=> content = "comms"
    /\ content # "comms" => rail.collapsed = wanted
    /\ content = "board" => view.mode = mode
    /\ content \in {menu, "profile", "board"}

\* LoginView.h: the shell is there "once a token + user are in hand".  A shell has
\* the token of its user, unless somebody signed in while that was under way.
TokenOfUser == app = "shell" /\ ~doubled => token = user.name

\* A user who waits for what was asked for, of which no answer is lost, has the profile
\* that is stored; and meets no stray answer, but to what a widget read by its timer,
\* which nothing shows.
WaitingIsSafe ==
  calm =>
    /\ stray \subseteq {"unasked"} /\ \A i \in DOMAIN req : ~req[i].gone
    /\ app = "shell" /\ (\A i \in DOMAIN req : req[i].what # "save") => user.rev = row

\* Shell.cpp: "Added to the board"; BoardView.cpp: "the current Sunday→Saturday
\* week".  A board that is drawn has every load that was announced; it shows each
\* in its column, and no other, but for one hour of the weeks with a clock change.
\* (DISPATCHER_DESKTOP.md has another board: a week from Monday to Monday, by
\* dispatch_week, and today the loads that intersect the day.  The code goes by
\* pickup_date, and so does this.)
BoardShows ==
  app = "shell" /\ content = "board" /\ view.drawn # None =>
    /\ announced \subseteq view.loads
    /\ view.drawn.mode = mode
    /\ \/ ClockTrouble(when.week, when.now)
       \/ view.drawn.cells = RightCells(mode, view.loads, when.week, when.now)
=============================================================================
