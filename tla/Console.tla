------------------------------ MODULE Console ------------------------------
(***************************************************************************)
(* A session of the dispatcher console: the login screen, the shell with   *)
(* its frame, and the views of its work area, one at a time (main.cpp,     *)
(* LoginView.cpp, Shell.cpp, LoadForm.cpp, FleetView.cpp, SavedView.cpp,   *)
(* ProfileView.cpp).                                                       *)
(*                                                                         *)
(* A session handles one event at a time.  Requests it has sent are        *)
(* answered in any order, also after the view that sent them was deleted:  *)
(* nothing cancels them.  Such a stray answer runs on freed memory; as far *)
(* as the build decides, it runs as if the view were there, or does        *)
(* nothing, or the process ends.                                           *)
(* Left out: the toasts of new messages, which the rail shows.             *)
(***************************************************************************)
EXTENDS BoardView, FiniteSets, SequencesExt

CONSTANTS
  Users,
  New,          \* loads the user may create; the others are there already
  Plans,        \* bound: a behaviour has the gestures of one plan,
  MaxGestures,  \* bound: and no more than these
  ShortPlans,   \* bound: the plans of two gestures
  MaxSubmits,   \* bound: how many attempts to sign in are under way at once
  WeekPlan      \* the one of them that is followed at every hour of every week

Api     == INSTANCE ApiClient
Toasts  == INSTANCE Toaster

ASSUME ConsoleAssumption ==
  /\ New \subseteq Loads
  /\ WeekPlan \in ShortPlans /\ ShortPlans \subseteq Plans
  /\ MaxGestures \in Nat \ {0, 1} /\ MaxSubmits \in Nat
  /\ None \notin Users \cup Loads \cup Drivers \cup [name : Users, rev : 0..MaxGestures]

VARIABLES
  app,      \* "login", "shell", or "down"
  token,    \* authToken_, as the user it was given to
  user,     \* user_ of the shell: a name, and the revision of the profile
  content,  \* the view in content_; board_ is set when it is a board
  menu,     \* the menu item that is marked
  mode,     \* mode_ of the shell
  rail,     \* rightCollapsed_, commsMode_ and rightWasCollapsed_
  view,     \* what the view in content_ has got, and shows
  toasts,   \* toaster_ of the shell
  picks,    \* the toaster of the view
  req,      \* the requests in flight that may have an effect here
  reads,    \* which widgets have others in flight, that matter to themselves
  stray,    \* others are in flight, of widgets that were deleted: asked for or not
  table,    \* the loads in the database
  row,      \* the revision of the profile in the database
  when,     \* the week and the hour
  wanted,     \* history: whether the user wants the rail hidden
  calm,       \* history: the user waited for what was asked for, and no answer was lost
  doubled,    \* history: somebody signed in while that was under way already
  announced,  \* history: the loads announced as added to the board
  plan, gestures

session  == <<app, token, user>>
frame    == <<content, menu, mode, rail, wanted>>
shown    == <<toasts, picks>>
reading  == <<reads, stray>>
inFlight == <<req, reading>>
stored   == <<table, row, when, plan>>
consoleVars == <<session, frame, view, shown, inFlight, stored, calm, doubled, announced, gestures>>

MenuItems == {"board", "fleet", "map", "form", "comms", "saved", "settings"}

\* What the constructor of a view asks for; what becomes of the reads of the map and of
\* the conversations is in other modules.
AsksFor ==
  [board |-> <<"drivers", "loads">>, fleet |-> <<"drivers", "equipment">>,
   form |-> <<"options">>, saved |-> <<"saved">>,
   map |-> <<>>, comms |-> <<>>, settings |-> <<>>, profile |-> <<>>]

\* Who reads on its own: the conversations in the rail, which every shell has, and a view
\* of ReadingViews.  They ask when they are made, for one thing after another; later
\* nobody asks: a timer does.
ReadingViews    == {"map", "comms"}
Read(who, why)  == [of |-> who, by |-> why]
Unasked         == {Read("rail", "unasked"), Read("view", "unasked")}
ReadsOf(who)    == {r \in reads : r.of = who}
FirstReads(v)   == IF v \in ReadingViews THEN {Read("view", "asked")} ELSE {}

OpenRail  == [collapsed |-> FALSE, comms |-> FALSE, was |-> FALSE]
FreshView == [has |-> {}, loads |-> {}, mode |-> "week", drawn |-> None, rows |-> 0]

Init ==
  /\ app = "login" /\ token = None /\ user = None
  /\ content = "board" /\ menu = "board" /\ mode = "week"
  /\ rail = OpenRail /\ wanted = FALSE
  /\ view = FreshView
  /\ toasts = Toasts!NoToasts /\ picks = Toasts!NoToasts
  /\ req = <<>> /\ reads = {} /\ stray = {}
  /\ table = Loads \ New /\ row = 0
  /\ calm = TRUE /\ doubled = FALSE /\ announced = {}
  /\ plan \in Plans /\ gestures = IF plan \in ShortPlans THEN MaxGestures - 2 ELSE 0
  /\ \E week \in Weeks : \E now \in Hours(week) :
       /\ plan # WeekPlan => week = "even" /\ now = 12
       /\ when = [week |-> week, now |-> now]

-----------------------------------------------------------------------------
\* Requests.

\* A request of the view that is there; what the API does for it is to be done
\* first if that matters here.
Request(what, arg) ==
  [what |-> what, arg |-> arg, gone |-> FALSE, loads |-> {},
   done |-> what \notin {"loads", "create", "save"}]

Requests(whats) == [i \in DOMAIN whats |-> Request(whats[i], None)]

Kind(what) ==
  IF what = "login" THEN "login" ELSE IF what = "create" THEN "post"
  ELSE IF what = "save" THEN "patch" ELSE "get"

Without(i) == RemoveAt(req, i)

SigningIn(r) == r.what \in {"login", "user"}

\* The view is deleted: of what it asked for, the answers can reach the shell if
\* they are to a new load or a new profile, and the application, if it was to sign in.
\* The order of requests has no meaning.
Remain(rs, whats) ==
  LET left == SetToSeq({i \in DOMAIN rs : rs[i].what \in whats})
  IN  [k \in DOMAIN left |-> [rs[left[k]] EXCEPT !.gone = TRUE]]

\* content_ is cleared.
Gone(rs) == Remain(rs, {"login", "user", "create", "save"})

\* root()->clear(): the shell is deleted too, and the rail with it.
Lost(rs) == Remain(rs, {"login", "user"})

\* Of the requests rs there are those left, and the reads are of widgets that are gone.
BecomeStray(rs, left, lost) ==
  stray' = stray \cup {r.by : r \in lost} \cup (IF Len(left) < Len(rs) THEN {"asked"} ELSE {})

\* A request that can be answered to its first callback.
Answered(i, what) ==
  /\ req[i].what = what
  /\ req[i].done /\ Api!MaySucceed(Kind(what), TRUE)

Serve(i) ==
  /\ ~req[i].done
  /\ req' = [req EXCEPT ![i].done = TRUE, ![i].loads = IF req[i].what = "loads" THEN table ELSE {}]
  /\ table' = IF req[i].what = "create" THEN table \cup {req[i].arg} ELSE table
  /\ row' = IF req[i].what = "save" THEN req[i].arg ELSE row
  /\ UNCHANGED <<session, frame, view, shown, when, plan, calm, doubled, announced, gestures, reading>>

\* The second callback: a text; without a profile the token is dropped again.
Fails(i) ==
  /\ Api!MayFail(Kind(req[i].what), req[i].done)
  /\ req' = Without(i)
  /\ token' = IF req[i].what = "user" THEN None ELSE token
  /\ calm' = (calm /\ ~(req[i].done /\ req[i].what \in {"create", "save"}))
  /\ UNCHANGED <<app, user, frame, view, shown, stored, doubled, announced, gestures, reading>>

\* Stray answers do nothing,
StraysEnd ==
  /\ \/ \E why \in stray : stray' = stray \ {why} /\ UNCHANGED req
     \/ \E i \in DOMAIN req : req[i].gone /\ req' = Without(i) /\ UNCHANGED stray
  /\ UNCHANGED <<session, frame, view, shown, reads, stored, calm, doubled, announced,
                 gestures>>

\* or end the process.
Crash ==
  /\ stray # {} \/ \E i \in DOMAIN req : req[i].gone
  /\ app' = "down" /\ token' = None /\ user' = None
  /\ req' = <<>> /\ reads' = {} /\ stray' = {}
  /\ UNCHANGED <<frame, view, shown, stored, calm, doubled, announced, gestures>>

\* The widget that reads has all its answers, or errors.
ReadsEnd ==
  /\ \E r \in reads : reads' = reads \ {r}
  /\ UNCHANGED <<session, frame, view, shown, req, stray, stored, calm, doubled, announced,
                 gestures>>

\* The timer of the conversations, every 30 s, or of the map, every 60 s; bound: in plans
\* that say so.
ReadUnasked ==
  /\ app = "shell" /\ "late" \in plan
  /\ \/ reads' = reads \cup {Read("rail", "unasked")}
     \/ content \in ReadingViews /\ reads' = reads \cup {Read("view", "unasked")}
  /\ UNCHANGED <<session, frame, view, shown, req, stray, stored, calm, doubled, announced,
                 gestures>>

\* The user does something, with or without waiting for what was asked for.
Gesture(what) ==
  /\ what \in plan /\ gestures < MaxGestures
  /\ gestures' = gestures + 1
  /\ calm' = (calm /\ req = <<>> /\ reads \subseteq Unasked)

-----------------------------------------------------------------------------
\* The frame.

\* Faulty: without the early return.
EnterCommsModeAgain(r) == [collapsed |-> TRUE, comms |-> TRUE, was |-> r.collapsed]

EnterCommsMode(r) ==
  IF r.comms THEN r ELSE [collapsed |-> TRUE, comms |-> TRUE, was |-> r.collapsed]

ExitCommsMode(r) ==
  IF ~r.comms THEN r ELSE [r EXCEPT !.collapsed = r.collapsed /\ r.was, !.comms = FALSE]

\* content_ is cleared and gets another view; rs: the requests in flight.
Show(v, rs) ==
  /\ content' = v
  /\ view' = [FreshView EXCEPT !.mode = mode]
  /\ picks' = Toasts!NoToasts
  /\ rail' = IF v = "comms" THEN EnterCommsMode(rail) ELSE ExitCommsMode(rail)
  /\ wanted' = IF content = "comms" /\ v # "comms" THEN wanted /\ rail.collapsed ELSE wanted
  /\ req' = Gone(rs) \o Requests(AsksFor[v])
  /\ reads' = (reads \ ReadsOf("view")) \cup FirstReads(v)
  /\ BecomeStray(rs, Gone(rs), ReadsOf("view"))

\* A menu item is clicked: setActiveMenu, then showBoard, showFleet, showMap,
\* showLoadForm, showComms, showSaved or showSettings.
ShowItem(v) ==
  /\ app = "shell" /\ Gesture(v)
  /\ menu' = v
  /\ Show(v, req)
  /\ UNCHANGED <<session, mode, toasts, stored, doubled, announced>>

\* showProfile, from the header: the menu stays as it is.
ShowProfile ==
  /\ app = "shell" /\ Gesture("profile")
  /\ Show("profile", req)
  /\ UNCHANGED <<session, menu, mode, toasts, stored, doubled, announced>>

ToggleRight ==
  /\ app = "shell" /\ Gesture("rail")
  /\ rail' = [rail EXCEPT !.collapsed = ~@]
  /\ wanted' = IF content = "comms" THEN wanted ELSE ~rail.collapsed
  /\ UNCHANGED <<session, content, menu, mode, view, shown, inFlight, stored, doubled,
                 announced>>

\* The board as it is drawn once both lists are there.
Render(v) ==
  IF {"drivers", "loads"} \subseteq v.has
  THEN [v EXCEPT !.drawn = [mode |-> v.mode, cells |-> Cells(v.mode, v.loads, when.week, when.now)]]
  ELSE v

\* Shell::setMode, and that of the board; what it tells the HUDs is in FleetMap.
SetMode(m) ==
  /\ app = "shell" /\ Gesture("mode")
  /\ mode' = m
  /\ view' = IF content = "board" /\ view.mode # m THEN Render([view EXCEPT !.mode = m]) ELSE view
  /\ UNCHANGED <<session, content, menu, rail, wanted, shown, inFlight, stored, doubled,
                 announced>>

SignOut ==
  /\ app = "shell" /\ Gesture("signOut")
  /\ token' = None
  /\ app' = "login" /\ user' = None
  /\ req' = Lost(req) /\ reads' = {} /\ BecomeStray(req, Lost(req), reads)
  /\ UNCHANGED <<frame, view, shown, stored, doubled, announced>>

-----------------------------------------------------------------------------
\* Signing in.

\* LoginView::submit: Enter in the password field submits, whether or not the
\* button is enabled; bound: MaxSubmits at once.
Submit(u) ==
  /\ app = "login" /\ Gesture("login")
  /\ Cardinality({i \in DOMAIN req : SigningIn(req[i])}) < MaxSubmits
  /\ doubled' = (doubled \/ \E i \in DOMAIN req : SigningIn(req[i]))
  /\ req' = Append(req, Request("login", u))
  /\ UNCHANGED <<session, frame, view, shown, stored, announced, reading>>

\* Faulty: the token is not stored.
LoginAnsweredUnstored(i) ==
  /\ Answered(i, "login")
  /\ req' = [req EXCEPT ![i].what = "user"]
  /\ UNCHANGED <<session, frame, view, shown, stored, calm, doubled, announced, gestures,
                 reading>>

\* setAuthToken, then fetchUserByUsername.
LoginAnswered(i) ==
  /\ Answered(i, "login")
  /\ token' = req[i].arg
  /\ req' = [req EXCEPT ![i].what = "user"]
  /\ UNCHANGED <<app, user, frame, view, shown, stored, calm, doubled, announced, gestures,
                 reading>>

\* showShell: a new shell, with the board, and a welcome.
UserAnswered(i) ==
  /\ Answered(i, "user")
  /\ app' = "shell"
  /\ user' = [name |-> req[i].arg, rev |-> row]
  /\ content' = "board" /\ menu' = "board" /\ mode' = "week"
  /\ rail' = OpenRail /\ wanted' = FALSE
  /\ view' = FreshView
  /\ toasts' = Toasts!Notify(Toasts!NoToasts, "timed") /\ picks' = Toasts!NoToasts
  /\ req' = Lost(Without(i)) \o Requests(AsksFor["board"])
  /\ reads' = {Read("rail", "asked")}
  /\ BecomeStray(Without(i), Lost(Without(i)), reads)
  /\ UNCHANGED <<token, stored, calm, doubled, announced, gestures>>

-----------------------------------------------------------------------------
\* The views.

Got(i, what) == [view EXCEPT !.has = @ \cup {what}]

ViewAnswered(i, what, new) ==
  /\ Answered(i, what)
  /\ view' = new
  /\ UNCHANGED <<session, frame, shown, stored, calm, doubled, announced, gestures, reading>>

\* Of the board, or of the fleet view.
DriversAnswered(i) ==
  /\ ViewAnswered(i, "drivers", Render(Got(i, "drivers")))
  /\ req' = Without(i)

LoadsAnswered(i) ==
  /\ ViewAnswered(i, "loads", Render([Got(i, "loads") EXCEPT !.loads = req[i].loads]))
  /\ req' = Without(i)

EquipmentAnswered(i) == ViewAnswered(i, "equipment", Got(i, "equipment")) /\ req' = Without(i)

\* The ten lists of the form, as one.
OptionsAnswered(i) == ViewAnswered(i, "options", Got(i, "options")) /\ req' = Without(i)

\* SavedView::reload: one request per saved message; bound: two of them.
SavedAnswered(i) ==
  /\ ViewAnswered(i, "saved", Got(i, "saved"))
  /\ \E n \in 0..2 : req' = Without(i) \o [k \in 1..n |-> Request("message", None)]

MessageAnswered(i) == ViewAnswered(i, "message", [view EXCEPT !.rows = @ + 1]) /\ req' = Without(i)

\* Remove of a saved message: its row goes, whatever becomes of the request, whose
\* callback does nothing.
Unsave ==
  /\ app = "shell" /\ Gesture("unsave")
  /\ content = "saved" /\ view.rows > 0
  /\ view' = [view EXCEPT !.rows = @ - 1]
  /\ UNCHANGED <<session, frame, shown, inFlight, stored, doubled, announced>>

\* A load of the board, or a rig of the fleet, is clicked: a toast that stays.
Pick ==
  /\ app = "shell" /\ Gesture("pick")
  /\ \/ content = "board" /\ view.drawn # None /\ view.drawn.cells # {}
     \/ content = "fleet" /\ "equipment" \in view.has
  /\ picks' = Toasts!Notify(picks, "sticky")
  /\ UNCHANGED <<session, frame, view, toasts, inFlight, stored, doubled, announced>>

Dismiss ==
  /\ app = "shell" /\ Gesture("dismiss")
  /\ \E kind \in Toasts!Kinds :
       \/ toasts[kind] > 0 /\ toasts' = Toasts!Dismiss(toasts, kind) /\ UNCHANGED picks
       \/ picks[kind] > 0 /\ picks' = Toasts!Dismiss(picks, kind) /\ UNCHANGED toasts
  /\ UNCHANGED <<session, frame, view, inFlight, stored, doubled, announced>>

\* Time passes for the toasts; the timers of both toasters.
RunOut ==
  /\ app = "shell" /\ toasts.timed > 0
  /\ toasts' = Toasts!RunOut(toasts)
  /\ UNCHANGED <<session, frame, view, picks, inFlight, stored, calm, doubled, announced,
                 gestures>>

Sweep ==
  /\ app = "shell"
  /\ \/ toasts.sweeping /\ toasts' = Toasts!Sweep(toasts) /\ UNCHANGED picks
     \/ picks.sweeping /\ picks' = Toasts!Sweep(picks) /\ UNCHANGED toasts
  /\ UNCHANGED <<session, frame, view, inFlight, stored, calm, doubled, announced, gestures>>

Drafts == {req[i].arg : i \in {i \in DOMAIN req : req[i].what = "create"}}

\* Faulty: a load is announced when it is sent.
CreateAnnouncing(l) ==
  /\ app = "shell" /\ Gesture("create")
  /\ content = "form" /\ "options" \in view.has
  /\ l \in New \ (table \cup Drafts)
  /\ req' = Append(req, Request("create", l))
  /\ announced' = announced \cup {l}
  /\ UNCHANGED <<session, frame, view, shown, stored, doubled, reading>>

\* LoadForm::submit of a form that is complete, again if the user likes.
Create(l) ==
  /\ app = "shell" /\ Gesture("create")
  /\ content = "form" /\ "options" \in view.has
  /\ l \in New \ (table \cup Drafts)
  /\ req' = Append(req, Request("create", l))
  /\ UNCHANGED <<session, frame, view, shown, stored, doubled, announced, reading>>

\* onCreated_: a toast, and the board; the menu stays as it is.
CreateAnswered(i) ==
  /\ Answered(i, "create")
  /\ announced' = announced \cup {req[i].arg}
  /\ toasts' = Toasts!Notify(toasts, "timed")
  /\ Show("board", Without(i))
  /\ UNCHANGED <<session, menu, mode, stored, calm, doubled, gestures>>

\* ProfileView::save, with the button disabled until it is answered; all fields are
\* sent, so that the row becomes what the form shows.
Save ==
  /\ app = "shell" /\ Gesture("save")
  /\ content = "profile"
  /\ ~\E i \in DOMAIN req : req[i].what = "save" /\ ~req[i].gone
  /\ req' = Append(req, Request("save", gestures'))
  /\ UNCHANGED <<session, frame, view, shown, stored, doubled, announced, reading>>

\* Faulty: the shell is not told.
SaveAnsweredUntold(i) ==
  /\ Answered(i, "save")
  /\ toasts' = Toasts!Notify(toasts, "timed")
  /\ req' = Without(i)
  /\ UNCHANGED <<session, frame, view, picks, stored, calm, doubled, announced, gestures,
                 reading>>

\* onSaved_: the shell has the new profile, and says so.
SaveAnswered(i) ==
  /\ Answered(i, "save")
  /\ user' = [user EXCEPT !.rev = req[i].arg]
  /\ toasts' = Toasts!Notify(toasts, "timed")
  /\ req' = Without(i)
  /\ UNCHANGED <<app, token, frame, view, picks, stored, calm, doubled, announced, gestures,
                 reading>>

-----------------------------------------------------------------------------
Answer(i) ==
  \/ Serve(i) \/ Fails(i)
  \/ LoginAnswered(i) \/ UserAnswered(i)
  \/ DriversAnswered(i) \/ LoadsAnswered(i) \/ EquipmentAnswered(i) \/ OptionsAnswered(i)
  \/ SavedAnswered(i) \/ MessageAnswered(i) \/ CreateAnswered(i) \/ SaveAnswered(i)

Do ==
  \/ \E u \in Users : Submit(u)
  \/ \E v \in MenuItems : ShowItem(v)
  \/ \E m \in {"today", "week"} : SetMode(m)
  \/ \E l \in New : Create(l)
  \/ ShowProfile \/ ToggleRight \/ SignOut \/ Unsave \/ Pick \/ Dismiss \/ Save

Next == (\E i \in DOMAIN req : Answer(i)) \/ Do \/ RunOut \/ Sweep
        \/ ReadsEnd \/ ReadUnasked \/ StraysEnd \/ Crash
=============================================================================
