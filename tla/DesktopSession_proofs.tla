----------------------- MODULE DesktopSession_proofs -----------------------
(***************************************************************************)
(* The console and the tools of its conversations, for any users, loads,   *)
(* plans, channels and messages, and any number of gestures, with whatever *)
(* is in flight.                                                           *)
(***************************************************************************)
EXTENDS DesktopSession, SequenceTheorems, FiniteSetTheorems, TLAPS

-----------------------------------------------------------------------------
\* Sequences of requests.

LEMMA RestOfSeq ==
  ASSUME NEW S, NEW s \in Seq(S), NEW i \in DOMAIN s
  PROVE  RemoveAt(s, i) \in Seq(S)
<1>1. i \in 1 .. Len(s) /\ Len(s) \in Nat
  OBVIOUS
<1>2. SubSeq(s, 1, i - 1) \in Seq(S)
  <2>1. \A j \in 1 .. (i - 1) : s[j] \in S
    BY <1>1, ElementOfSeq
  <2> QED
    BY <1>1, <2>1, SubSeqProperties
<1>3. SubSeq(s, i + 1, Len(s)) \in Seq(S)
  <2>1. \A j \in (i + 1) .. Len(s) : s[j] \in S
    BY <1>1, ElementOfSeq
  <2> QED
    BY <1>1, <2>1, SubSeqProperties
<1> QED
  BY <1>2, <1>3, ConcatProperties DEF RemoveAt

LEMMA SetToSeqOfSet ==
  ASSUME NEW S, IsFiniteSet(S)
  PROVE  SetToSeq(S) \in Seq(S)
<1>1. Cardinality(S) \in Nat /\ ExistsBijection(1 .. Cardinality(S), S)
  BY FS_CardinalityType
<1>2. \E f \in [1 .. Cardinality(S) -> S] : IsInjective(f)
  BY <1>1 DEF ExistsBijection, Bijection, Injection, IsInjective
<1>3. SetToSeq(S) \in [1 .. Cardinality(S) -> S]
  BY <1>2 DEF SetToSeq
<1> QED
  BY <1>1, <1>3, IsASeq

\* A sequence of which elements were changed.
LEMMA SameLength ==
  ASSUME NEW S, NEW s \in Seq(S), NEW t, t = [k \in DOMAIN s |-> t[k]]
  PROVE  (\E T : t \in Seq(T)) /\ Len(t) = Len(s)
<1> DEFINE T == {t[k] : k \in DOMAIN s}
<1>1. DOMAIN s = 1..Len(s) /\ Len(s) \in Nat
  OBVIOUS
<1>2. t \in [1..Len(s) -> T]
  BY <1>1
<1> HIDE DEF T
<1>3. t \in Seq(T)
  BY <1>1, <1>2, IsASeq
<1>4. Len(t) = Len(s)
  BY <1>1, <1>2, <1>3, LenProperties
<1> QED
  BY <1>3, <1>4

\* What is left after one was taken out, each at the place it had, or one lower.
LEMMA RestElements ==
  ASSUME NEW S, NEW s \in Seq(S), NEW i \in DOMAIN s
  PROVE  /\ RemoveAt(s, i) \in Seq(S)
         /\ Len(RemoveAt(s, i)) = Len(s) - 1
         /\ \A k \in DOMAIN RemoveAt(s, i) :
              \E j \in DOMAIN s \ {i} :
                j = (IF k < i THEN k ELSE k + 1) /\ RemoveAt(s, i)[k] = s[j]
<1>1. i \in 1 .. Len(s) /\ Len(s) \in Nat
  OBVIOUS
<1> DEFINE p == SubSeq(s, 1, i - 1)
           q == SubSeq(s, i + 1, Len(s))
<1>2. p \in Seq(S) /\ Len(p) = i - 1 /\ \A k \in 1..(i - 1) : p[k] = s[k]
  <2>1. \A j \in 1 .. (i - 1) : s[j] \in S
    BY <1>1, ElementOfSeq
  <2> QED
    BY <1>1, <2>1, SubSeqProperties
<1>3. q \in Seq(S) /\ Len(q) = Len(s) - i /\ \A k \in 1..(Len(s) - i) : q[k] = s[i + k]
  <2>1. \A j \in (i + 1) .. Len(s) : s[j] \in S
    BY <1>1, ElementOfSeq
  <2> QED
    BY <1>1, <2>1, SubSeqProperties
<1>4. RemoveAt(s, i) = p \o q
  BY DEF RemoveAt
<1> HIDE DEF p, q
<1>5. /\ p \o q \in Seq(S) /\ Len(p \o q) = Len(s) - 1
      /\ \A k \in 1..(Len(s) - 1) : (p \o q)[k] = IF k <= i - 1 THEN p[k] ELSE q[k - (i - 1)]
  BY <1>1, <1>2, <1>3, ConcatProperties
<1>6. ASSUME NEW k \in 1..(Len(s) - 1)
      PROVE  (p \o q)[k] = s[IF k < i THEN k ELSE k + 1]
  <2>1. CASE k < i
    BY <1>1, <1>2, <1>5, <2>1
  <2>2. CASE ~(k < i)
    <3>1. k - (i - 1) \in 1..(Len(s) - i) /\ i + (k - (i - 1)) = k + 1
      BY <1>1, <2>2
    <3> QED
      BY <1>1, <1>3, <1>5, <2>2, <3>1
  <2> QED
    BY <2>1, <2>2
<1>7. DOMAIN (p \o q) = 1..(Len(s) - 1)
  BY <1>1, <1>5
<1>8. \A k \in 1..(Len(s) - 1) : (IF k < i THEN k ELSE k + 1) \in DOMAIN s \ {i}
  BY <1>1
<1> QED
  BY <1>4, <1>5, <1>6, <1>7, <1>8

LEMMA ConcatElements ==
  ASSUME NEW S, NEW p \in Seq(S), NEW q \in Seq(S)
  PROVE  /\ p \o q \in Seq(S)
         /\ Len(p \o q) = Len(p) + Len(q)
         /\ \A k \in DOMAIN (p \o q) :
              \/ k \in DOMAIN p /\ (p \o q)[k] = p[k]
              \/ k - Len(p) \in DOMAIN q /\ (p \o q)[k] = q[k - Len(p)]
BY ConcatProperties

-----------------------------------------------------------------------------
\* The frame of the console.
USE DEF session, frame, shown, inFlight, stored

ViewFields == {"has", "loads", "mode", "drawn", "rows"}

\* The rail: what it goes back to after the conversations is what the user wants.
RailInv ==
  /\ rail = [collapsed |-> rail.collapsed, comms |-> rail.comms, was |-> rail.was]
  /\ rail.collapsed \in BOOLEAN /\ rail.was \in BOOLEAN /\ wanted \in BOOLEAN
  /\ rail.comms <=> content = "comms"
  /\ content # "comms" => rail.collapsed = wanted
  /\ content = "comms" => rail.was = wanted

ViewInv ==
  /\ view = [x \in ViewFields |-> view[x]]
  /\ content = "board" => view.mode = mode

MenuInv == content \in {menu, "profile", "board"}

FrameInv == RailInv /\ ViewInv /\ MenuInv

-----------------------------------------------------------------------------
LEMMA FrameBegins == Init => FrameInv
<1> SUFFICES ASSUME Init PROVE FrameInv
  OBVIOUS
<1>1. /\ content = "board" /\ menu = "board" /\ mode = "week"
      /\ rail = OpenRail /\ wanted = FALSE /\ view = FreshView
  BY DEF Init
<1>2. RailInv
  BY <1>1 DEF RailInv, OpenRail
<1>3. ViewInv /\ MenuInv
  BY <1>1 DEF ViewInv, MenuInv, FreshView, ViewFields
<1> QED
  BY <1>2, <1>3 DEF FrameInv

\* Another view in the work area.
LEMMA FrameShown ==
  ASSUME FrameInv, NEW v, NEW rs, Show(v, rs), mode' = mode, v \in {menu', "profile", "board"}
  PROVE  FrameInv'
<1>1. content' = v /\ view' = [FreshView EXCEPT !.mode = mode]
  BY DEF Show
<1>2. ViewInv' /\ MenuInv'
  BY <1>1 DEF ViewInv, MenuInv, FreshView, ViewFields
<1>3. RailInv'
  <2>1. CASE v = "comms" /\ content = "comms"
    <3>1. rail' = rail /\ wanted' = wanted
      BY <2>1 DEF Show, EnterCommsMode, FrameInv, RailInv
    <3> QED
      BY <1>1, <2>1, <3>1 DEF FrameInv, RailInv
  <2>2. CASE v = "comms" /\ content # "comms"
    <3>1. /\ rail' = [collapsed |-> TRUE, comms |-> TRUE, was |-> rail.collapsed]
          /\ wanted' = wanted
      BY <2>2 DEF Show, EnterCommsMode, FrameInv, RailInv
    <3> QED
      BY <1>1, <2>2, <3>1 DEF FrameInv, RailInv
  <2>3. CASE v # "comms" /\ content = "comms"
    <3>1. /\ rail' = [rail EXCEPT !.collapsed = rail.collapsed /\ rail.was, !.comms = FALSE]
          /\ wanted' = (wanted /\ rail.collapsed)
      BY <2>3 DEF Show, ExitCommsMode, FrameInv, RailInv
    <3> QED
      BY <1>1, <2>3, <3>1 DEF FrameInv, RailInv
  <2>4. CASE v # "comms" /\ content # "comms"
    <3>1. rail' = rail /\ wanted' = wanted
      BY <2>4 DEF Show, ExitCommsMode, FrameInv, RailInv
    <3> QED
      BY <1>1, <2>4, <3>1 DEF FrameInv, RailInv
  <2> QED
    BY <2>1, <2>2, <2>3, <2>4
<1> QED
  BY <1>2, <1>3 DEF FrameInv

\* The view alone.
LEMMA FrameViewed ==
  ASSUME FrameInv, UNCHANGED <<content, menu, mode, rail, wanted>>,
         view' = [x \in ViewFields |-> view'[x]], view'.mode = view.mode
  PROVE  FrameInv'
BY DEF FrameInv, RailInv, ViewInv, MenuInv

LEMMA FrameRendered ==
  ASSUME NEW v, v = [x \in ViewFields |-> v[x]]
  PROVE  Render(v) = [x \in ViewFields |-> Render(v)[x]] /\ Render(v).mode = v.mode
BY DEF Render, ViewFields

LEMMA FrameUntouched ==
  ASSUME FrameInv, UNCHANGED <<content, menu, mode, rail, wanted, view>>
  PROVE  FrameInv'
BY DEF FrameInv, RailInv, ViewInv, MenuInv

LEMMA FrameAnswered ==
  ASSUME FrameInv, NEW i \in DOMAIN req, Answer(i)
  PROVE  FrameInv'
<1>1. view = [x \in ViewFields |-> view[x]]
  BY DEF FrameInv, ViewInv
<1>2. CASE Serve(i) \/ Fails(i) \/ LoginAnswered(i) \/ SaveAnswered(i)
  BY <1>2, FrameUntouched DEF Serve, Fails, LoginAnswered, SaveAnswered
<1>3. CASE UserAnswered(i)
  BY <1>3 DEF UserAnswered, FrameInv, RailInv, ViewInv, MenuInv, OpenRail, FreshView, ViewFields
<1>4. ASSUME NEW what, NEW v, v = [x \in ViewFields |-> v[x]], v.mode = view.mode,
             ViewAnswered(i, what, v)
      PROVE  FrameInv'
  BY <1>4, FrameViewed DEF ViewAnswered
<1>5. ASSUME NEW what
      PROVE  Got(i, what) = [x \in ViewFields |-> Got(i, what)[x]] /\ Got(i, what).mode = view.mode
  BY <1>1 DEF Got, ViewFields
<1>6. CASE DriversAnswered(i)
  BY <1>4, <1>5, <1>6, FrameRendered DEF DriversAnswered
<1>7. CASE LoadsAnswered(i)
  <2> DEFINE v == [Got(i, "loads") EXCEPT !.loads = req[i].loads]
  <2>1. v = [x \in ViewFields |-> v[x]] /\ v.mode = view.mode
    BY <1>5 DEF ViewFields
  <2>2. ViewAnswered(i, "loads", Render(v))
    BY <1>7 DEF LoadsAnswered
  <2> HIDE DEF v
  <2> QED
    BY <1>4, <2>1, <2>2, FrameRendered
<1>8. CASE EquipmentAnswered(i) \/ OptionsAnswered(i) \/ SavedAnswered(i)
  BY <1>4, <1>5, <1>8 DEF EquipmentAnswered, OptionsAnswered, SavedAnswered
<1>9. CASE MessageAnswered(i)
  <2> DEFINE v == [view EXCEPT !.rows = @ + 1]
  <2>1. v = [x \in ViewFields |-> v[x]] /\ v.mode = view.mode
    BY <1>1 DEF ViewFields
  <2>2. ViewAnswered(i, "message", v)
    BY <1>9 DEF MessageAnswered
  <2> HIDE DEF v
  <2> QED
    BY <1>4, <2>1, <2>2
<1>10. CASE CreateAnswered(i)
  BY <1>10, FrameShown DEF CreateAnswered
<1> QED
  BY <1>2, <1>3, <1>6, <1>7, <1>8, <1>9, <1>10 DEF Answer

LEMMA FrameDone ==
  ASSUME FrameInv, Do
  PROVE  FrameInv'
<1>1. view = [x \in ViewFields |-> view[x]]
  BY DEF FrameInv, ViewInv
<1>2. CASE \/ (\E u \in Users : Submit(u)) \/ (\E l \in New : Create(l))
           \/ SignOut \/ Pick \/ Dismiss \/ Save
  BY <1>2, FrameUntouched DEF Submit, Create, SignOut, Pick, Dismiss, Save
<1>3. ASSUME NEW v \in MenuItems, ShowItem(v) PROVE FrameInv'
  BY <1>3, FrameShown DEF ShowItem
<1>4. CASE ShowProfile
  BY <1>4, FrameShown DEF ShowProfile
<1>5. CASE ToggleRight
  <2>1. /\ rail' = [rail EXCEPT !.collapsed = ~@]
        /\ wanted' = IF content = "comms" THEN wanted ELSE ~rail.collapsed
        /\ UNCHANGED <<content, menu, mode, view>>
    BY <1>5 DEF ToggleRight
  <2>2. /\ rail' = [collapsed |-> ~rail.collapsed, comms |-> rail.comms, was |-> rail.was]
    BY <2>1 DEF FrameInv, RailInv
  <2>3. RailInv'
    BY <2>1, <2>2 DEF FrameInv, RailInv
  <2> QED
    BY <2>1, <2>3 DEF FrameInv, ViewInv, MenuInv
<1>6. ASSUME NEW m, SetMode(m) PROVE FrameInv'
  <2> DEFINE v == [view EXCEPT !.mode = m]
  <2>1. v = [x \in ViewFields |-> v[x]] /\ v.mode = m
    BY <1>1 DEF ViewFields
  <2>2. /\ mode' = m
        /\ view' = IF content = "board" /\ view.mode # m THEN Render(v) ELSE view
        /\ UNCHANGED <<content, menu, rail, wanted>>
    BY <1>6 DEF SetMode
  <2> HIDE DEF v
  <2>3. view' = [x \in ViewFields |-> view'[x]] /\ (content = "board" => view'.mode = m)
    BY <1>1, <2>1, <2>2, FrameRendered
  <2> QED
    BY <2>2, <2>3 DEF FrameInv, RailInv, ViewInv, MenuInv
<1>7. CASE Unsave
  <2>1. view' = [view EXCEPT !.rows = @ - 1] /\ UNCHANGED <<content, menu, mode, rail, wanted>>
    BY <1>7 DEF Unsave
  <2>2. view' = [x \in ViewFields |-> view'[x]] /\ view'.mode = view.mode
    BY <1>1, <2>1 DEF ViewFields
  <2> QED
    BY <2>1, <2>2, FrameViewed
<1> QED
  BY <1>2, <1>3, <1>4, <1>5, <1>6, <1>7 DEF Do

LEMMA FrameStays == Spec => []FrameInv
<1>1. SessionInit => FrameInv
  BY FrameBegins DEF SessionInit
<1>2. FrameInv /\ [SessionNext]_sessionVars => FrameInv'
  <2> SUFFICES ASSUME FrameInv, [SessionNext]_sessionVars PROVE FrameInv'
    OBVIOUS
  <2>1. CASE Next
    <3>1. CASE RunOut \/ Sweep \/ ReadsEnd \/ ReadUnasked \/ StraysEnd \/ Crash
      BY <3>1, FrameUntouched DEF RunOut, Sweep, ReadsEnd, ReadUnasked, StraysEnd, Crash
    <3> QED
      BY <2>1, <3>1, FrameAnswered, FrameDone DEF Next
  <2>2. CASE UNCHANGED consoleVars
    BY <2>2, FrameUntouched DEF consoleVars
  <2> QED
    BY <2>1, <2>2 DEF SessionNext, sessionVars
<1> QED
  BY <1>1, <1>2, PTL DEF Spec

\* The rail, the mode buttons and the menu agree with the work area of the shell, in
\* whatever order its views come and requests are answered, stray answers included
\* (Shell.cpp, enterCommsMode, exitCommsMode, setMode and the show functions).
THEOREM FrameAlways == Spec => []FrameAgrees
<1>1. FrameInv => FrameAgrees
  BY DEF FrameInv, RailInv, ViewInv, MenuInv, FrameAgrees
<1> QED
  BY <1>1, FrameStays, PTL

-----------------------------------------------------------------------------
\* Who is signed in, and what is in flight.

\* What is left of the requests rs when a view is deleted.
LEMMA RemainElements ==
  ASSUME NEW S, NEW rs \in Seq(S), NEW whats
  PROVE  /\ \E T : Remain(rs, whats) \in Seq(T)
         /\ \A k \in DOMAIN Remain(rs, whats) : \E j \in DOMAIN rs :
              rs[j].what \in whats /\ Remain(rs, whats)[k] = [rs[j] EXCEPT !.gone = TRUE]
         /\ (\A j \in DOMAIN rs : rs[j].what \notin whats) => Remain(rs, whats) = <<>>
<1> DEFINE I == {j \in DOMAIN rs : rs[j].what \in whats}
           left == SetToSeq(I)
           T == {[rs[j] EXCEPT !.gone = TRUE] : j \in I}
<1>1. IsFiniteSet(I)
  <2>1. IsFiniteSet(1..Len(rs)) /\ I \subseteq 1..Len(rs)
    BY FS_Interval
  <2> HIDE DEF I
  <2> QED
    BY <2>1, FS_Subset
<1>2. left \in Seq(I)
  <2> HIDE DEF I
  <2> QED
    BY <1>1, SetToSeqOfSet
<1>3. Remain(rs, whats) = [k \in DOMAIN left |-> [rs[left[k]] EXCEPT !.gone = TRUE]]
  BY DEF Remain
<1> HIDE DEF left
<1>4. DOMAIN left = 1..Len(left) /\ Len(left) \in Nat /\ \A k \in 1..Len(left) : left[k] \in I
  <2> HIDE DEF I
  <2> QED
    BY <1>2, ElementOfSeq, LenProperties
<1>5. Remain(rs, whats) \in [1..Len(left) -> T]
  BY <1>3, <1>4
<1>6. Remain(rs, whats) \in Seq(T)
  <2> HIDE DEF T
  <2> QED
    BY <1>4, <1>5, IsASeq
<1>7. ASSUME NEW k \in DOMAIN Remain(rs, whats)
      PROVE  \E j \in DOMAIN rs :
               rs[j].what \in whats /\ Remain(rs, whats)[k] = [rs[j] EXCEPT !.gone = TRUE]
  BY <1>3, <1>4, <1>7
<1>8. ASSUME \A j \in DOMAIN rs : rs[j].what \notin whats PROVE Remain(rs, whats) = <<>>
  <2>1. I = {}
    BY <1>8
  <2>2. Len(left) = 0
    BY <1>4, <2>1
  <2>3. Len(Remain(rs, whats)) = 0
    BY <1>5, <1>6, <2>2, LenProperties
  <2> HIDE DEF T
  <2> QED
    BY <1>6, <2>3, EmptySeq
<1> QED
  BY <1>6, <1>7, <1>8


RequestFields == {"what", "arg", "gone", "loads", "done"}

ToShell == {"login", "user", "create", "save"}

InFlightOK(r) ==
  /\ r = [x \in RequestFields |-> r[x]]
  /\ SigningIn(r) => r.arg \in Users
  /\ ~SigningIn(r) => app = "shell"
  /\ r.what = "create" => r.arg \in New /\ (r.done => r.arg \in table)
  /\ r.what = "save" => r.arg \in 0..MaxGestures
  /\ ~doubled /\ r.what = "user" => token = r.arg
  /\ ~doubled /\ app # "login" => ~SigningIn(r)
  /\ calm => ~r.gone
  /\ calm /\ r.what = "save" => IF r.done THEN row = r.arg ELSE user.rev = row
  /\ r.what = "loads" /\ r.done => announced \subseteq r.loads

ReqInv ==
  /\ \E S : req \in Seq(S)
  /\ \A i \in DOMAIN req : InFlightOK(req[i])

\* How many there are: who waits has one request that leads to the shell, and who
\* signs in once has one request.
CountInv ==
  /\ ~doubled /\ app = "login" => Len(req) <= 1
  /\ calm => \A i \in DOMAIN req : req[i].what \in ToShell => Len(req) = 1

Saving == \E i \in DOMAIN req : req[i].what = "save"

UserInv ==
  /\ app \in {"login", "shell", "down"} /\ token \in Users \cup {None}
  /\ IF app = "shell" THEN user \in [name : Users, rev : 0..MaxGestures] ELSE user = None
  /\ app = "shell" /\ ~doubled => token = user.name
  /\ app = "shell" /\ calm => user.rev = row \/ Saving

TableInv ==
  /\ table \subseteq Loads /\ announced \subseteq table
  /\ row \in 0..MaxGestures /\ gestures \in 0..MaxGestures

SessionInv == ReqInv /\ CountInv /\ UserInv /\ TableInv

LEMMA SessionEnough ==
  ASSUME SessionInv
  PROVE  TokenOfUser
BY DEF SessionInv, UserInv, TokenOfUser

LEMMA SessionBegins ==
  ASSUME Init
  PROVE  SessionInv
<1>1. ReqInv
  <2>1. req \in Seq({}) /\ DOMAIN req = {}
    BY DEF Init
  <2> QED
    BY <2>1 DEF ReqInv
<1>2. CountInv /\ UserInv /\ TableInv
  <2>1. gestures \in {MaxGestures - 2, 0} /\ MaxGestures \in Nat \ {0, 1}
    BY ConsoleAssumption DEF Init
  <2>2. gestures \in 0..MaxGestures /\ 0 \in 0..MaxGestures
    BY <2>1
  <2> QED
    BY <2>2 DEF Init, CountInv, UserInv, TableInv
<1> QED
  BY <1>1, <1>2 DEF SessionInv

\* Requests of the view that is made.
LEMMA NewRequests ==
  ASSUME NEW v \in MenuItems \cup {"profile"}
  PROVE  /\ \E S : Requests(AsksFor[v]) \in Seq(S)
         /\ \A k \in DOMAIN Requests(AsksFor[v]) :
              \E what \in {"drivers", "loads", "equipment", "options", "saved"} :
              Requests(AsksFor[v])[k] = Request(what, None)
<1> DEFINE Q == {"drivers", "loads", "equipment", "options", "saved"}
           w == AsksFor[v]
<1>1. w \in Seq(Q)
  <2>1. AsksFor[v] \in {<<"drivers", "loads">>, <<"drivers", "equipment">>,
                        <<"options">>, <<"saved">>, <<>>}
    BY DEF AsksFor, MenuItems
  <2>2. <<"drivers", "loads">> \in Seq(Q) /\ <<"drivers", "equipment">> \in Seq(Q)
    OBVIOUS
  <2>3. <<"options">> \in Seq(Q) /\ <<"saved">> \in Seq(Q) /\ <<>> \in Seq(Q)
    OBVIOUS
  <2> QED
    BY <2>1, <2>2, <2>3
<1> HIDE DEF w, Q
<1>2. \A k \in DOMAIN w : w[k] \in Q
  BY <1>1, ElementOfSeq
<1>3. Requests(w) \in [1..Len(w) -> {Request(q, None) : q \in Q}] /\ Len(w) \in Nat
  BY <1>1, <1>2 DEF Requests
<1>4. Requests(w) \in Seq({Request(q, None) : q \in Q})
  BY <1>3, IsASeq
<1>5. DOMAIN Requests(w) = DOMAIN w /\ \A k \in DOMAIN w : Requests(w)[k] = Request(w[k], None)
  BY DEF Requests
<1> QED
  BY <1>2, <1>4, <1>5 DEF w, Q

LEMMA RequestByRequest ==
  ASSUME \E S : req' \in Seq(S),
         \A k \in DOMAIN req' : \A r : r = req'[k] => InFlightOK(r)'
  PROVE  ReqInv'
BY DEF ReqInv, InFlightOK

\* Some requests end, and of the rest nothing is touched that matters to them.
LEMMA FewerKeep ==
  ASSUME SessionInv,
         UNCHANGED <<app, user, table, row, doubled, announced>>,
         token' \in Users \cup {None}, gestures' \in 0..MaxGestures,
         calm' => calm,
         \E S : req' \in Seq(S), Len(req') <= Len(req),
         \A k \in DOMAIN req' : \E j \in DOMAIN req : req'[k] = req[j],
         ~doubled => token' = token \/ (app # "shell" /\ req' = <<>>),
         calm' /\ Saving => user.rev = row \/ \E k \in DOMAIN req' : req'[k].what = "save"
  PROVE  SessionInv'
<1>0. Len(req) \in Nat /\ Len(req') \in Nat /\ DOMAIN req' = 1..Len(req')
  BY LenProperties DEF SessionInv, ReqInv
<1>1. ASSUME NEW k \in DOMAIN req', NEW r, r = req'[k] PROVE InFlightOK(r)'
  <2>1. PICK j \in DOMAIN req : r = req[j]
    BY <1>1
  <2>2. InFlightOK(r)
    BY <2>1 DEF SessionInv, ReqInv
  <2>3. ~doubled /\ r.what = "user" => token' = token
    BY <1>0, <1>1
  <2> QED
    BY <2>2, <2>3 DEF InFlightOK, SigningIn
<1>2. ReqInv'
  BY <1>1, RequestByRequest
<1>3. CountInv'
  <2>1. ~doubled' /\ app' = "login" => Len(req') <= 1
    BY <1>0 DEF SessionInv, CountInv
  <2>2. ASSUME calm', NEW k \in DOMAIN req', req'[k].what \in ToShell PROVE Len(req') = 1
    <3>1. PICK j \in DOMAIN req : req'[k] = req[j]
      BY <2>2
    <3>2. Len(req) = 1
      BY <2>2, <3>1 DEF SessionInv, CountInv
    <3> QED
      BY <1>0, <2>2, <3>2
  <2> QED
    BY <2>1, <2>2 DEF SessionInv, CountInv
<1>4. UserInv'
  BY DEF SessionInv, UserInv, Saving
<1>5. TableInv'
  BY DEF SessionInv, TableInv
<1> QED
  BY <1>2, <1>3, <1>4, <1>5 DEF SessionInv

\* One request ends.
LEMMA WithoutFewer ==
  ASSUME ReqInv, NEW i \in DOMAIN req, req' = Without(i)
  PROVE  /\ \E S : req' \in Seq(S)
         /\ Len(req') = Len(req) - 1 /\ Len(req) \in Nat \ {0}
         /\ Len(req) = 1 => req' = <<>>
         /\ \A k \in DOMAIN req' : \E j \in DOMAIN req : req'[k] = req[j]
<1>1. PICK S : req \in Seq(S)
  BY DEF ReqInv
<1>2. /\ req' \in Seq(S) /\ Len(req') = Len(req) - 1
      /\ \A k \in DOMAIN req' : \E j \in DOMAIN req \ {i} : req'[k] = req[j]
  BY <1>1, RestElements DEF Without
<1>3. Len(req) \in Nat /\ i \in 1..Len(req)
  BY <1>1
<1>4. Len(req) = 1 => req' = <<>>
  BY <1>2, EmptySeq
<1> QED
  BY <1>2, <1>3, <1>4

LEMMA FailsKeep ==
  ASSUME SessionInv, NEW i \in DOMAIN req, Fails(i)
  PROVE  SessionInv'
<1>1. /\ req' = Without(i)
      /\ token' = IF req[i].what = "user" THEN None ELSE token
      /\ calm' = (calm /\ ~(req[i].done /\ req[i].what \in {"create", "save"}))
      /\ UNCHANGED <<app, user, table, row, doubled, announced, gestures>>
  BY DEF Fails
<1>2. /\ \E S : req' \in Seq(S)
      /\ Len(req') = Len(req) - 1 /\ Len(req) \in Nat \ {0}
      /\ Len(req) = 1 => req' = <<>>
      /\ \A k \in DOMAIN req' : \E j \in DOMAIN req : req'[k] = req[j]
  BY <1>1, WithoutFewer DEF SessionInv
<1>3. InFlightOK(req[i])
  BY DEF SessionInv, ReqInv
<1>4. ~doubled => token' = token \/ (app # "shell" /\ req' = <<>>)
  <2>1. ASSUME ~doubled, req[i].what = "user" PROVE app = "login" /\ Len(req) = 1
    <3>1. app = "login"
      BY <1>3, <2>1 DEF InFlightOK, SigningIn
    <3> QED
      BY <1>2, <2>1, <3>1 DEF SessionInv, CountInv
  <2> QED
    BY <1>1, <1>2, <2>1
<1>5. ASSUME calm', Saving PROVE user.rev = row
  <2>1. PICK j \in DOMAIN req : req[j].what = "save"
    BY <1>5 DEF Saving
  <2>2. Len(req) = 1
    BY <1>1, <1>5, <2>1 DEF SessionInv, CountInv, ToShell
  <2>3. i = j
    BY <1>2, <2>1, <2>2 DEF SessionInv, ReqInv
  <2> QED
    BY <1>1, <1>3, <1>5, <2>1, <2>3 DEF InFlightOK
<1>6. token' \in Users \cup {None} /\ gestures' \in 0..MaxGestures
  BY <1>1 DEF SessionInv, UserInv, TableInv
<1>7. Len(req') <= Len(req)
  BY <1>2
<1>8. calm' => calm
  BY <1>1, Zenon
<1> QED
  BY <1>1, <1>2, <1>4, <1>5, <1>6, <1>7, <1>8, FewerKeep

\* A request of a view is answered.
LEMMA ViewAnswerKeeps ==
  ASSUME SessionInv, NEW i \in DOMAIN req, req' = Without(i), req[i].what # "save",
         UNCHANGED <<session, stored, calm, doubled, announced, gestures>>
  PROVE  SessionInv'
<1>1. /\ \E S : req' \in Seq(S)
      /\ Len(req') = Len(req) - 1 /\ Len(req) \in Nat \ {0}
      /\ Len(req) = 1 => req' = <<>>
      /\ \A k \in DOMAIN req' : \E j \in DOMAIN req : req'[k] = req[j]
  BY WithoutFewer DEF SessionInv
<1>2. ASSUME calm, Saving PROVE user.rev = row \/ \E k \in DOMAIN req' : req'[k].what = "save"
  <2>1. PICK j \in DOMAIN req : req[j].what = "save"
    BY <1>2 DEF Saving
  <2>2. Len(req) = 1
    BY <1>2, <2>1 DEF SessionInv, CountInv, ToShell
  <2>3. i = j
    BY <1>1, <2>1, <2>2 DEF SessionInv, ReqInv
  <2> QED
    BY <2>1, <2>3
<1> QED
  BY <1>1, <1>2, FewerKeep DEF SessionInv, UserInv, TableInv

\* The user does something that asks for nothing.
LEMMA QuietGestureKeeps ==
  ASSUME SessionInv, NEW what, Gesture(what),
         UNCHANGED <<session, req, stored, doubled, announced>>
  PROVE  SessionInv'
<1>1. gestures' \in 0..MaxGestures /\ (calm' => calm)
  <2>1. gestures' = gestures + 1 /\ gestures < MaxGestures /\ gestures \in 0..MaxGestures
    BY DEF Gesture, SessionInv, TableInv
  <2>2. gestures' \in 0..MaxGestures
    BY <2>1, ConsoleAssumption
  <2> QED
    BY <2>2 DEF Gesture
<1>2. \E S : req' \in Seq(S)
  BY DEF SessionInv, ReqInv
<1>3. Len(req') <= Len(req)
  BY LenProperties DEF SessionInv, ReqInv
<1> QED
  BY <1>1, <1>2, <1>3, FewerKeep DEF SessionInv, UserInv, Saving

\* The API does what was asked.
LEMMA ServeKeeps ==
  ASSUME SessionInv, NEW i \in DOMAIN req, Serve(i)
  PROVE  SessionInv'
<1>0. PICK S : req \in Seq(S)
  BY DEF SessionInv, ReqInv
<1>1. /\ ~req[i].done
      /\ req' = [req EXCEPT ![i].done = TRUE,
                            ![i].loads = IF req[i].what = "loads" THEN table ELSE {}]
      /\ table' = IF req[i].what = "create" THEN table \cup {req[i].arg} ELSE table
      /\ row' = IF req[i].what = "save" THEN req[i].arg ELSE row
      /\ UNCHANGED <<app, token, user, calm, doubled, announced, gestures>>
  BY DEF Serve
<1>2. \A k \in DOMAIN req : InFlightOK(req[k])
  BY DEF SessionInv, ReqInv
<1>3. /\ DOMAIN req' = DOMAIN req
      /\ \A k \in DOMAIN req \ {i} : req'[k] = req[k]
      /\ req'[i] = [req[i] EXCEPT !.done = TRUE,
                                  !.loads = IF req[i].what = "loads" THEN table ELSE {}]
  BY <1>0, <1>1
<1>4. DOMAIN req = 1..Len(req) /\ Len(req) \in Nat
  BY <1>0
<1>5. (\E T : req' \in Seq(T)) /\ Len(req') = Len(req)
  <2> DEFINE new == req'
  <2>1. new = [k \in DOMAIN req |-> new[k]]
    BY <1>0, <1>1
  <2> HIDE DEF new
  <2>2. (\E T : new \in Seq(T)) /\ Len(new) = Len(req)
    BY <1>0, <2>1, SameLength
  <2> QED
    BY <2>2 DEF new
<1>6. /\ req'[i] = [x \in RequestFields |-> req'[i][x]]
      /\ req'[i].what = req[i].what /\ req'[i].arg = req[i].arg /\ req'[i].gone = req[i].gone
      /\ req'[i].done
      /\ req[i].what = "loads" => req'[i].loads = table
  BY <1>2, <1>3 DEF InFlightOK, RequestFields
<1>7. \A k \in DOMAIN req : req'[k].what = req[k].what
  BY <1>3, <1>6
<1>8. ASSUME NEW k \in DOMAIN req', NEW r, r = req'[k] PROVE InFlightOK(r)'
  <2>1. CASE k = i
    BY <1>1, <1>2, <1>6, <1>8, <2>1 DEF InFlightOK, SigningIn, SessionInv, TableInv
  <2>2. CASE k # i
    <3>1. InFlightOK(r) /\ r = req[k]
      BY <1>2, <1>3, <1>8, <2>2
    <3>2. calm /\ r.what = "save" => row' = row
      BY <1>1, <1>3, <1>4, <1>8, <2>2, <3>1 DEF SessionInv, CountInv, ToShell
    <3>3. table \subseteq table'
      BY <1>1
    <3> QED
      BY <1>1, <3>1, <3>2, <3>3 DEF InFlightOK, SigningIn
  <2> QED
    BY <2>1, <2>2
<1>9. ReqInv'
  BY <1>5, <1>8, RequestByRequest
<1>10. CountInv'
  BY <1>1, <1>3, <1>5, <1>7 DEF SessionInv, CountInv
<1>11. UserInv'
  <2>1. Saving' <=> Saving
    BY <1>3, <1>7 DEF Saving
  <2>2. row' = row \/ Saving'
    BY <1>1, <2>1 DEF Saving
  <2> QED
    BY <1>1, <2>1, <2>2 DEF SessionInv, UserInv
<1>12. TableInv'
  BY <1>1, <1>2, ConsoleAssumption DEF SessionInv, TableInv, InFlightOK
<1> QED
  BY <1>9, <1>10, <1>11, <1>12 DEF SessionInv

LEMMA LoginAnsweredKeeps ==
  ASSUME SessionInv, NEW i \in DOMAIN req, LoginAnswered(i)
  PROVE  SessionInv'
<1>0. PICK S : req \in Seq(S)
  BY DEF SessionInv, ReqInv
<1>1. /\ req[i].what = "login" /\ token' = req[i].arg
      /\ req' = [req EXCEPT ![i].what = "user"]
      /\ UNCHANGED <<app, user, table, row, calm, doubled, announced, gestures>>
  BY DEF LoginAnswered, Answered
<1>2. \A k \in DOMAIN req : InFlightOK(req[k])
  BY DEF SessionInv, ReqInv
<1>3. /\ DOMAIN req' = DOMAIN req
      /\ \A k \in DOMAIN req \ {i} : req'[k] = req[k]
      /\ req'[i] = [req[i] EXCEPT !.what = "user"]
  BY <1>0, <1>1
<1>4. DOMAIN req = 1..Len(req) /\ Len(req) \in Nat
  BY <1>0
<1>5. (\E T : req' \in Seq(T)) /\ Len(req') = Len(req)
  <2> DEFINE new == req'
  <2>1. new = [k \in DOMAIN req |-> new[k]]
    BY <1>0, <1>1
  <2> HIDE DEF new
  <2>2. (\E T : new \in Seq(T)) /\ Len(new) = Len(req)
    BY <1>0, <2>1, SameLength
  <2> QED
    BY <2>2 DEF new
<1>6. /\ req'[i] = [x \in RequestFields |-> req'[i][x]]
      /\ req'[i].what = "user" /\ req'[i].arg = req[i].arg /\ req'[i].gone = req[i].gone
  BY <1>2, <1>3 DEF InFlightOK, RequestFields
<1>7. ~doubled => app = "login" /\ Len(req) = 1
  BY <1>1, <1>2, <1>4 DEF InFlightOK, SigningIn, SessionInv, CountInv
<1>8. ASSUME NEW k \in DOMAIN req', NEW r, r = req'[k] PROVE InFlightOK(r)'
  <2>1. CASE k = i
    BY <1>1, <1>2, <1>6, <1>7, <1>8, <2>1 DEF InFlightOK, SigningIn
  <2>2. CASE k # i
    <3>1. InFlightOK(r) /\ r = req[k] /\ doubled
      BY <1>2, <1>3, <1>4, <1>7, <1>8, <2>2
    <3> QED
      BY <1>1, <3>1 DEF InFlightOK, SigningIn
  <2> QED
    BY <2>1, <2>2
<1>9. ReqInv'
  BY <1>5, <1>8, RequestByRequest
<1>10. CountInv'
  <2>1. \A k \in DOMAIN req : req'[k].what \in ToShell => req[k].what \in ToShell
    BY <1>1, <1>3 DEF ToShell
  <2> QED
    BY <1>1, <1>3, <1>5, <2>1 DEF SessionInv, CountInv
<1>11. UserInv'
  <2>1. Saving => Saving'
    BY <1>1, <1>3 DEF Saving
  <2>2. token' \in Users
    BY <1>1, <1>2 DEF InFlightOK, SigningIn
  <2> QED
    BY <1>1, <1>7, <2>1, <2>2 DEF SessionInv, UserInv
<1>12. TableInv'
  BY <1>1 DEF SessionInv, TableInv
<1> QED
  BY <1>9, <1>10, <1>11, <1>12 DEF SessionInv

\* onSaved_: who waits has the row that was stored.
LEMMA SaveAnsweredKeeps ==
  ASSUME SessionInv, NEW i \in DOMAIN req, SaveAnswered(i)
  PROVE  SessionInv'
<1>1. /\ req[i].what = "save" /\ req[i].done
      /\ user' = [user EXCEPT !.rev = req[i].arg]
      /\ req' = Without(i)
      /\ UNCHANGED <<app, token, table, row, calm, doubled, announced, gestures>>
  BY DEF SaveAnswered, Answered
<1>2. /\ \E S : req' \in Seq(S)
      /\ Len(req') = Len(req) - 1 /\ Len(req) \in Nat \ {0}
      /\ Len(req) = 1 => req' = <<>>
      /\ \A k \in DOMAIN req' : \E j \in DOMAIN req : req'[k] = req[j]
  BY <1>1, WithoutFewer DEF SessionInv
<1>3. InFlightOK(req[i])
  BY DEF SessionInv, ReqInv
<1>4. app = "shell" /\ user \in [name : Users, rev : 0..MaxGestures]
  BY <1>1, <1>3 DEF InFlightOK, SigningIn, SessionInv, UserInv
<1>5. /\ user' \in [name : Users, rev : 0..MaxGestures]
      /\ user'.name = user.name /\ user'.rev = req[i].arg
  BY <1>1, <1>3, <1>4 DEF InFlightOK
<1>6. calm => req' = <<>> /\ user'.rev = row
  BY <1>1, <1>2, <1>3 DEF SessionInv, CountInv, ToShell, InFlightOK
<1>7. ASSUME NEW k \in DOMAIN req', NEW r, r = req'[k] PROVE InFlightOK(r)'
  <2>1. PICK j \in DOMAIN req : r = req[j]
    BY <1>2, <1>7
  <2>2. InFlightOK(r)
    BY <2>1 DEF SessionInv, ReqInv
  <2>3. ~calm
    BY <1>6, <1>7
  <2> QED
    BY <1>1, <2>2, <2>3 DEF InFlightOK, SigningIn
<1>8. ReqInv'
  BY <1>2, <1>7, RequestByRequest
<1>9. CountInv'
  BY <1>1, <1>4, <1>6 DEF SessionInv, CountInv
<1>10. UserInv'
  BY <1>1, <1>4, <1>5, <1>6 DEF SessionInv, UserInv
<1>11. TableInv'
  BY <1>1 DEF SessionInv, TableInv
<1> QED
  BY <1>8, <1>9, <1>10, <1>11 DEF SessionInv

\* Who has the list asks for each of them.
LEMMA MessagesAsked ==
  ASSUME ReqInv, NEW i \in DOMAIN req, SavedAnswered(i)
  PROVE  /\ \E T : req' \in Seq(T)
         /\ \A k \in DOMAIN req' :
              req'[k] = Request("message", None) \/ \E j \in DOMAIN req : req'[k] = req[j]
<1> DEFINE rest == Without(i)
           R == Request("message", None)
<1>2. PICK n \in 0..2 : req' = rest \o [k \in 1..n |-> R]
  BY DEF SavedAnswered
<1> DEFINE more == [k \in 1..n |-> R]
<1>3. PICK S : req \in Seq(S)
  BY DEF ReqInv
<1>4. /\ rest \in Seq(S)
      /\ \A k \in DOMAIN rest : \E j \in DOMAIN req \ {i} : rest[k] = req[j]
  BY <1>3, RestElements DEF Without
<1>5. more \in Seq({R}) /\ \A k \in DOMAIN more : more[k] = R
  <2>1. more \in [1..n -> {R}] /\ n \in Nat
    OBVIOUS
  <2> HIDE DEF more, R
  <2>2. more \in Seq({R})
    BY <2>1, IsASeq
  <2> QED
    BY <2>1, <2>2
<1> HIDE DEF rest, more, R
<1>6. /\ req' \in Seq(S \cup {R})
      /\ \A k \in DOMAIN req' : req'[k] = R \/ \E j \in DOMAIN req \ {i} : req'[k] = req[j]
  <2>1. rest \in Seq(S \cup {R}) /\ more \in Seq(S \cup {R})
    BY <1>4, <1>5, SeqMonotonic
  <2>2. req' = rest \o more
    BY <1>2 DEF more
  <2> QED
    BY <1>4, <1>5, <2>1, <2>2, ConcatElements
<1> QED
  BY <1>6 DEF R

\* One message of those that are saved.
LEMMA SavedAnsweredKeeps ==
  ASSUME SessionInv, NEW i \in DOMAIN req, SavedAnswered(i)
  PROVE  SessionInv'
<1>1. /\ req[i].what = "saved"
      /\ UNCHANGED <<app, token, user, table, row, calm, doubled, announced, gestures>>
  BY DEF SavedAnswered, ViewAnswered, Answered
<1> DEFINE R == Request("message", None)
<1>2. /\ \E T : req' \in Seq(T)
      /\ \A k \in DOMAIN req' : req'[k] = R \/ \E j \in DOMAIN req : req'[k] = req[j]
  BY MessagesAsked DEF SessionInv
<1>3. PICK S : req \in Seq(S)
  BY DEF SessionInv, ReqInv
<1> HIDE DEF R
<1>7. InFlightOK(req[i]) /\ app = "shell"
  BY <1>1 DEF SessionInv, ReqInv, InFlightOK, SigningIn
<1>8. R = [x \in RequestFields |-> R[x]] /\ R.what = "message" /\ R.gone = FALSE
  BY DEF R, Request, RequestFields
<1>9. calm => \A j \in DOMAIN req : req[j].what \notin ToShell
  <2>1. ASSUME calm, NEW j \in DOMAIN req, req[j].what \in ToShell PROVE FALSE
    <3>1. Len(req) = 1
      BY <2>1 DEF SessionInv, CountInv
    <3>2. i = j
      BY <1>3, <3>1
    <3> QED
      BY <1>1, <2>1, <3>2 DEF ToShell
  <2> QED
    BY <2>1
<1>10. ASSUME NEW k \in DOMAIN req', NEW r, r = req'[k] PROVE InFlightOK(r)'
  <2>1. CASE r = R
    BY <1>1, <1>7, <1>8, <2>1 DEF InFlightOK, SigningIn
  <2>2. CASE \E j \in DOMAIN req : r = req[j]
    <3>1. InFlightOK(r)
      BY <2>2 DEF SessionInv, ReqInv
    <3> QED
      BY <1>1, <3>1 DEF InFlightOK, SigningIn
  <2> QED
    BY <1>2, <1>10, <2>1, <2>2
<1>11. ReqInv'
  BY <1>2, <1>10, RequestByRequest
<1>12. CountInv'
  BY <1>1, <1>2, <1>7, <1>8, <1>9 DEF SessionInv, CountInv, ToShell
<1>13. UserInv'
  <2>1. calm => ~Saving
    BY <1>9 DEF Saving, ToShell
  <2> QED
    BY <1>1, <1>7, <2>1 DEF SessionInv, UserInv
<1>14. TableInv'
  BY <1>1 DEF SessionInv, TableInv
<1> QED
  BY <1>11, <1>12, <1>13, <1>14 DEF SessionInv

\* A view is deleted and another takes its place, the whole shell or a part of it:
\* what is left of the requests rs, and those of the new view.
LEMMA ReplacedRequests ==
  ASSUME ReqInv, NEW rs, \E S : rs \in Seq(S),
         \A k \in DOMAIN rs : \E j \in DOMAIN req : rs[k] = req[j],
         NEW whats \in {{"login", "user"}, ToShell}, NEW v \in MenuItems \cup {"profile"},
         req' = Remain(rs, whats) \o Requests(AsksFor[v])
  PROVE  /\ \E S : req' \in Seq(S)
         /\ \A k \in DOMAIN req' :
              \/ \E what \in {"drivers", "loads", "equipment", "options", "saved"} :
                   req'[k] = Request(what, None)
              \/ /\ rs # <<>>
                 /\ \E j \in DOMAIN req :
                      req[j].what \in whats /\ req'[k] = [req[j] EXCEPT !.gone = TRUE]
<1> DEFINE left == Remain(rs, whats)
           new  == Requests(AsksFor[v])
<1>1. PICK S : rs \in Seq(S)
  OBVIOUS
<1>2. PICK T : left \in Seq(T)
  BY <1>1, RemainElements
<1>3. PICK U : new \in Seq(U)
  BY NewRequests
<1>4. \A k \in DOMAIN left : \E j \in DOMAIN rs :
        rs[j].what \in whats /\ left[k] = [rs[j] EXCEPT !.gone = TRUE]
  BY <1>1, RemainElements
<1>5. rs = <<>> => left = <<>>
  <2>1. rs = <<>> => DOMAIN rs = {}
    OBVIOUS
  <2> QED
    BY <1>1, <2>1, RemainElements
<1>6. \A k \in DOMAIN new : \E what \in {"drivers", "loads", "equipment", "options", "saved"} :
        new[k] = Request(what, None)
  BY NewRequests
<1> HIDE DEF left, new
<1>7. left \in Seq(T \cup U) /\ new \in Seq(T \cup U)
  BY <1>2, <1>3, SeqMonotonic
<1>8. req' = left \o new
  BY DEF left, new
<1>9. /\ req' \in Seq(T \cup U)
      /\ \A k \in DOMAIN req' :
           \/ k \in DOMAIN left /\ req'[k] = left[k]
           \/ k - Len(left) \in DOMAIN new /\ req'[k] = new[k - Len(left)]
  BY <1>7, <1>8, ConcatElements
<1>11. ASSUME NEW k \in DOMAIN req', k \in DOMAIN left, req'[k] = left[k]
       PROVE  /\ rs # <<>>
              /\ \E j \in DOMAIN req :
                   req[j].what \in whats /\ req'[k] = [req[j] EXCEPT !.gone = TRUE]
  <2>1. PICK j \in DOMAIN rs : rs[j].what \in whats /\ left[k] = [rs[j] EXCEPT !.gone = TRUE]
    BY <1>4, <1>11
  <2>2. PICK l \in DOMAIN req : rs[j] = req[l]
    BY <2>1
  <2>3. rs # <<>>
    BY <2>1
  <2> QED
    BY <1>11, <2>1, <2>2, <2>3
<1>12. ASSUME NEW k \in DOMAIN req', k - Len(left) \in DOMAIN new, req'[k] = new[k - Len(left)]
       PROVE  \E what \in {"drivers", "loads", "equipment", "options", "saved"} :
                req'[k] = Request(what, None)
  BY <1>6, <1>12
<1> QED
  BY <1>9, <1>11, <1>12

\* Another view in the work area of a shell.
LEMMA ShowInSession ==
  ASSUME SessionInv, app = "shell", NEW v \in MenuItems \cup {"profile"},
         NEW rs, \E S : rs \in Seq(S),
         \A k \in DOMAIN rs : \E j \in DOMAIN req : rs[k] = req[j],
         Show(v, rs), UNCHANGED <<session, table, row, doubled>>,
         announced' \subseteq table, gestures' \in 0..MaxGestures,
         calm' => calm /\ rs = <<>> /\ user.rev = row
  PROVE  SessionInv'
<1>1. req' = Remain(rs, ToShell) \o Requests(AsksFor[v])
  BY DEF Show, Gone, ToShell
<1>2. /\ \E S : req' \in Seq(S)
      /\ \A k \in DOMAIN req' :
           \/ \E what \in {"drivers", "loads", "equipment", "options", "saved"} :
                req'[k] = Request(what, None)
           \/ /\ rs # <<>>
              /\ \E j \in DOMAIN req :
                   req[j].what \in ToShell /\ req'[k] = [req[j] EXCEPT !.gone = TRUE]
  BY <1>1, ReplacedRequests DEF SessionInv
<1>3. ASSUME NEW k \in DOMAIN req', NEW r, r = req'[k]
      PROVE  InFlightOK(r)' /\ (calm' => r.what \notin ToShell)
  <2>1. ASSUME NEW what \in {"drivers", "loads", "equipment", "options", "saved"},
               r = Request(what, None)
        PROVE  InFlightOK(r)' /\ (calm' => r.what \notin ToShell)
    BY <2>1 DEF Request, InFlightOK, RequestFields, SigningIn, ToShell
  <2>2. ASSUME rs # <<>>, NEW j \in DOMAIN req,
               req[j].what \in ToShell, r = [req[j] EXCEPT !.gone = TRUE]
        PROVE  InFlightOK(r)' /\ ~calm'
    <3>1. InFlightOK(req[j]) /\ ~calm'
      BY <2>2 DEF SessionInv, ReqInv
    <3>2. /\ r = [x \in RequestFields |-> r[x]]
          /\ r.what = req[j].what /\ r.arg = req[j].arg /\ r.done = req[j].done
      BY <2>2, <3>1 DEF InFlightOK, RequestFields
    <3>3. r.what # "loads"
      BY <2>2, <3>2 DEF ToShell
    <3> QED
      BY <3>1, <3>2, <3>3 DEF InFlightOK, SigningIn
  <2> QED
    BY <1>2, <1>3, <2>1, <2>2
<1>4. ReqInv'
  BY <1>2, <1>3, RequestByRequest
<1>5. CountInv'
  BY <1>2, <1>3 DEF SessionInv, CountInv
<1>6. UserInv'
  BY DEF SessionInv, UserInv
<1>7. TableInv'
  BY DEF SessionInv, TableInv
<1> QED
  BY <1>4, <1>5, <1>6, <1>7 DEF SessionInv

\* showShell, once or, if somebody signed in twice, again.
LEMMA UserAnsweredKeeps ==
  ASSUME SessionInv, NEW i \in DOMAIN req, UserAnswered(i)
  PROVE  SessionInv'
<1> DEFINE rs == Without(i)
           signing == {"login", "user"}
<1>1. /\ req[i].what = "user" /\ app' = "shell"
      /\ user' = [name |-> req[i].arg, rev |-> row]
      /\ req' = Remain(rs, signing) \o Requests(AsksFor["board"])
      /\ UNCHANGED <<token, table, row, calm, doubled, announced, gestures>>
  BY DEF UserAnswered, Answered, Lost
<1>2. InFlightOK(req[i])
  BY DEF SessionInv, ReqInv
<1>3. PICK S : req \in Seq(S)
  BY DEF SessionInv, ReqInv
<1>4. /\ rs \in Seq(S) /\ Len(rs) = Len(req) - 1
      /\ \A k \in DOMAIN rs : \E j \in DOMAIN req : rs[k] = req[j]
  BY <1>3, RestElements DEF Without
<1>5. Len(req) = 1 => rs = <<>>
  BY <1>4, EmptySeq
<1>6. ~doubled => rs = <<>> /\ token = req[i].arg
  <2>1. ASSUME ~doubled PROVE app = "login" /\ Len(req) <= 1 /\ token = req[i].arg
    BY <1>1, <1>2, <2>1 DEF InFlightOK, SigningIn, SessionInv, CountInv
  <2>2. Len(req) \in Nat /\ Len(req) # 0
    BY <1>3
  <2>3. ASSUME ~doubled PROVE Len(req) = 1
    <3>1. Len(req) <= 1
      BY <2>1, <2>3
    <3> DEFINE n == Len(req)
    <3>2. n \in Nat /\ n # 0 /\ n <= 1
      BY <2>2, <3>1
    <3> HIDE DEF n
    <3>3. n = 1
      BY <3>2
    <3> QED
      BY <3>3 DEF n
  <2> HIDE DEF rs
  <2> QED
    BY <1>5, <2>1, <2>3
<1>7. calm => rs = <<>>
  BY <1>1, <1>5 DEF SessionInv, CountInv, ToShell
<1> HIDE DEF rs
<1>8. /\ \E T : req' \in Seq(T)
      /\ \A k \in DOMAIN req' :
           \/ \E what \in {"drivers", "loads", "equipment", "options", "saved"} :
                req'[k] = Request(what, None)
           \/ /\ rs # <<>>
              /\ \E j \in DOMAIN req :
                   req[j].what \in signing /\ req'[k] = [req[j] EXCEPT !.gone = TRUE]
  <2>1. "board" \in MenuItems \cup {"profile"} /\ ReqInv
    BY DEF MenuItems, SessionInv
  <2> QED
    BY <1>1, <1>4, <2>1, ReplacedRequests
<1>9. ASSUME NEW k \in DOMAIN req', NEW r, r = req'[k]
      PROVE  InFlightOK(r)' /\ (calm' => r.what \notin ToShell) /\ (~doubled => ~SigningIn(r))
  <2>1. ASSUME NEW what \in {"drivers", "loads", "equipment", "options", "saved"},
               r = Request(what, None)
        PROVE  InFlightOK(r)' /\ (calm' => r.what \notin ToShell) /\ ~SigningIn(r)
    BY <1>1, <2>1 DEF Request, InFlightOK, RequestFields, SigningIn, ToShell
  <2>2. ASSUME rs # <<>>, NEW j \in DOMAIN req,
               req[j].what \in signing, r = [req[j] EXCEPT !.gone = TRUE]
        PROVE  InFlightOK(r)' /\ ~calm' /\ doubled
    <3>1. InFlightOK(req[j]) /\ ~calm' /\ doubled'
      BY <1>1, <1>6, <1>7, <2>2 DEF SessionInv, ReqInv
    <3>2. /\ r = [x \in RequestFields |-> r[x]]
          /\ r.what = req[j].what /\ r.arg = req[j].arg
      BY <2>2, <3>1 DEF InFlightOK, RequestFields
    <3> QED
      BY <1>1, <2>2, <3>1, <3>2 DEF InFlightOK, SigningIn
  <2> QED
    BY <1>8, <1>9, <2>1, <2>2
<1>10. ReqInv'
  BY <1>8, <1>9, RequestByRequest
<1>11. CountInv'
  BY <1>1, <1>7, <1>8, <1>9 DEF SessionInv, CountInv
<1>12. UserInv'
  <2>1. user' \in [name : Users, rev : 0..MaxGestures] /\ user'.name = req[i].arg /\ user'.rev = row
    BY <1>1, <1>2 DEF InFlightOK, SigningIn, SessionInv, TableInv
  <2> QED
    BY <1>1, <1>6, <2>1 DEF SessionInv, UserInv
<1>13. TableInv'
  BY <1>1 DEF SessionInv, TableInv
<1> QED
  BY <1>10, <1>11, <1>12, <1>13 DEF SessionInv

\* onCreated_: the load is in the table, and announced.
LEMMA CreateAnsweredKeeps ==
  ASSUME SessionInv, NEW i \in DOMAIN req, CreateAnswered(i)
  PROVE  SessionInv'
<1>1. /\ req[i].what = "create" /\ req[i].done
      /\ announced' = announced \cup {req[i].arg}
      /\ Show("board", Without(i))
      /\ UNCHANGED <<session, table, row, calm, doubled, gestures>>
  BY DEF CreateAnswered, Answered
<1>2. InFlightOK(req[i]) /\ app = "shell"
  BY <1>1 DEF SessionInv, ReqInv, InFlightOK, SigningIn
<1>3. PICK S : req \in Seq(S)
  BY DEF SessionInv, ReqInv
<1>4. /\ Without(i) \in Seq(S) /\ Len(Without(i)) = Len(req) - 1
      /\ \A k \in DOMAIN Without(i) : \E j \in DOMAIN req : Without(i)[k] = req[j]
  BY <1>3, RestElements DEF Without
<1>5. calm => Len(req) = 1
  BY <1>1 DEF SessionInv, CountInv, ToShell
<1>6. calm => Without(i) = <<>>
  <2>1. ASSUME calm PROVE Len(Without(i)) = 0
    <3>1. Len(req) = 1
      BY <1>5, <2>1
    <3> QED
      BY <1>4, <3>1
  <2> QED
    BY <1>4, <2>1, EmptySeq
<1>7. calm => user.rev = row
  <2>1. calm => ~Saving
    <3>1. calm => \A j \in DOMAIN req : j = i
      BY <1>3, <1>5
    <3> QED
      BY <1>1, <3>1 DEF Saving
  <2> QED
    BY <1>2, <2>1 DEF SessionInv, UserInv
<1>8. announced' \subseteq table /\ gestures' \in 0..MaxGestures
  BY <1>1, <1>2 DEF InFlightOK, SessionInv, TableInv
<1>9. "board" \in MenuItems \cup {"profile"}
  BY DEF MenuItems
<1> QED
  BY <1>1, <1>2, <1>4, <1>6, <1>7, <1>8, <1>9, ShowInSession

\* What the user does counts; who waits has nothing in flight.
LEMMA GestureCounts ==
  ASSUME SessionInv, NEW what, Gesture(what)
  PROVE  /\ gestures' = gestures + 1 /\ gestures' \in 0..MaxGestures
         /\ calm' => calm /\ req = <<>> /\ (app = "shell" => user.rev = row)
<1>1. gestures' = gestures + 1 /\ gestures < MaxGestures /\ gestures \in 0..MaxGestures
  BY DEF Gesture, SessionInv, TableInv
<1>2. gestures' \in 0..MaxGestures
  BY <1>1, ConsoleAssumption
<1>3. calm' => calm /\ req = <<>>
  BY DEF Gesture
<1>4. calm' => ~Saving
  BY <1>3 DEF Saving
<1> QED
  BY <1>1, <1>2, <1>3, <1>4 DEF SessionInv, UserInv

\* A request more.
LEMMA SentKeeps ==
  ASSUME SessionInv, NEW r, req' = Append(req, r), InFlightOK(r)',
         UNCHANGED <<app, token, user, table, row, announced>>,
         doubled => doubled', gestures' \in 0..MaxGestures,
         calm' => calm /\ req = <<>> /\ (app = "shell" => user.rev = row),
         ~doubled' /\ app = "login" => req = <<>>
  PROVE  SessionInv'
<1>1. PICK S : req \in Seq(S)
  BY DEF SessionInv, ReqInv
<1>2. req \in Seq(S \cup {r}) /\ r \in S \cup {r}
  BY <1>1, SeqMonotonic
<1>3. /\ req' \in Seq(S \cup {r}) /\ Len(req') = Len(req) + 1
      /\ \A k \in DOMAIN req' : (k \in DOMAIN req /\ req'[k] = req[k]) \/ req'[k] = r
  <2> HIDE DEF InFlightOK
  <2> QED
    BY <1>2, AppendProperties
<1>4. req = <<>> => Len(req') = 1
  BY <1>3
<1>5. ASSUME NEW k \in DOMAIN req', NEW x, x = req'[k] PROVE InFlightOK(x)'
  <2>1. CASE x = r
    BY <2>1
  <2>2. CASE k \in DOMAIN req /\ x = req[k]
    <3>1. InFlightOK(x) /\ ~calm'
      BY <2>2 DEF SessionInv, ReqInv
    <3> QED
      BY <3>1 DEF InFlightOK, SigningIn
  <2> QED
    BY <1>3, <1>5, <2>1, <2>2
<1>6. ReqInv'
  BY <1>3, <1>5, RequestByRequest
<1>7. CountInv'
  BY <1>4 DEF SessionInv, CountInv
<1>8. UserInv'
  BY DEF SessionInv, UserInv
<1>9. TableInv'
  BY DEF SessionInv, TableInv
<1> QED
  BY <1>6, <1>7, <1>8, <1>9 DEF SessionInv

LEMMA SignOutKeeps ==
  ASSUME SessionInv, SignOut
  PROVE  SessionInv'
<1> DEFINE signing == {"login", "user"}
           left == Remain(req, signing)
<1>1. /\ app = "shell" /\ app' = "login" /\ token' = None /\ user' = None
      /\ req' = left
      /\ Gesture("signOut")
      /\ UNCHANGED <<table, row, doubled, announced>>
  BY DEF SignOut, Lost
<1>2. PICK S : req \in Seq(S)
  BY DEF SessionInv, ReqInv
<1>3. PICK T : left \in Seq(T)
  BY <1>2, RemainElements
<1>4. \A k \in DOMAIN left : \E j \in DOMAIN req :
        req[j].what \in signing /\ left[k] = [req[j] EXCEPT !.gone = TRUE]
  <2> HIDE DEF signing
  <2> QED
    BY <1>2, RemainElements
<1>5. /\ gestures' \in 0..MaxGestures
      /\ calm' => calm /\ req = <<>>
  BY <1>1, GestureCounts
<1>6. req = <<>> => left = <<>>
  <2>1. req = <<>> => DOMAIN req = {}
    OBVIOUS
  <2> QED
    BY <1>2, <2>1, RemainElements
<1> HIDE DEF left
<1>8. ASSUME NEW k \in DOMAIN req', NEW r, r = req'[k]
      PROVE  InFlightOK(r)' /\ ~calm' /\ doubled
  <2>1. PICK j \in DOMAIN req : req[j].what \in signing /\ r = [req[j] EXCEPT !.gone = TRUE]
    BY <1>1, <1>4, <1>8
  <2>2. InFlightOK(req[j]) /\ ~calm'
    BY <1>5 DEF SessionInv, ReqInv
  <2>3. doubled
    BY <1>1, <2>1, <2>2 DEF InFlightOK, SigningIn
  <2>4. /\ r = [x \in RequestFields |-> r[x]]
        /\ r.what = req[j].what /\ r.arg = req[j].arg
    BY <2>1, <2>2 DEF InFlightOK, RequestFields
  <2> QED
    BY <1>1, <2>1, <2>2, <2>3, <2>4 DEF InFlightOK, SigningIn
<1>9. ReqInv'
  BY <1>1, <1>3, <1>8, RequestByRequest
<1>10. ~doubled => Len(req') = 0
  <2>1. ~doubled => Len(left) = 0
    BY <1>1, <1>3, <1>8
  <2> QED
    BY <1>1, <2>1
<1>11. CountInv'
  BY <1>1, <1>5, <1>8, <1>10 DEF SessionInv, CountInv
<1>12. UserInv'
  BY <1>1, <1>5 DEF SessionInv, UserInv
<1>13. TableInv'
  BY <1>1, <1>5 DEF SessionInv, TableInv
<1> QED
  BY <1>9, <1>11, <1>12, <1>13 DEF SessionInv

LEMMA SubmitKeeps ==
  ASSUME SessionInv, NEW u \in Users, Submit(u)
  PROVE  SessionInv'
<1> DEFINE r == Request("login", u)
<1>1. /\ app = "login" /\ Gesture("login")
      /\ doubled' = (doubled \/ \E i \in DOMAIN req : SigningIn(req[i]))
      /\ req' = Append(req, r)
      /\ UNCHANGED <<app, token, user, table, row, announced>>
  BY DEF Submit
<1>2. /\ gestures' \in 0..MaxGestures
      /\ calm' => calm /\ req = <<>>
  BY <1>1, GestureCounts
<1>3. doubled => doubled'
  BY <1>1, Zenon
<1>4. ~doubled' => req = <<>>
  <2>1. ASSUME ~doubled', req # <<>> PROVE FALSE
    <3>1. ~\E i \in DOMAIN req : SigningIn(req[i])
      BY <1>1, <2>1, Zenon
    <3>2. \A i \in DOMAIN req : InFlightOK(req[i])
      BY DEF SessionInv, ReqInv
    <3>3. DOMAIN req = {}
      BY <1>1, <3>1, <3>2 DEF InFlightOK
    <3> QED
      BY <2>1, <3>3, EmptySeq DEF SessionInv, ReqInv
  <2> QED
    BY <2>1
<1>5. InFlightOK(r)'
  BY <1>1 DEF InFlightOK, Request, RequestFields, SigningIn
<1> HIDE DEF r
<1> QED
  BY <1>1, <1>2, <1>3, <1>4, <1>5, SentKeeps

LEMMA CreateKeeps ==
  ASSUME SessionInv, NEW l \in New, Create(l)
  PROVE  SessionInv'
<1> DEFINE r == Request("create", l)
<1>1. /\ app = "shell" /\ Gesture("create")
      /\ req' = Append(req, r)
      /\ UNCHANGED <<app, token, user, table, row, doubled, announced>>
  BY DEF Create
<1>2. /\ gestures' \in 0..MaxGestures
      /\ calm' => calm /\ req = <<>> /\ (app = "shell" => user.rev = row)
  BY <1>1, GestureCounts
<1>3. InFlightOK(r)'
  BY <1>1 DEF InFlightOK, Request, RequestFields, SigningIn
<1> HIDE DEF r
<1> QED
  BY <1>1, <1>2, <1>3, SentKeeps

LEMMA SaveKeeps ==
  ASSUME SessionInv, Save
  PROVE  SessionInv'
<1>1. /\ app = "shell" /\ Gesture("save")
      /\ req' = Append(req, Request("save", gestures'))
      /\ UNCHANGED <<app, token, user, table, row, doubled, announced>>
  BY DEF Save
<1>2. /\ gestures' \in 0..MaxGestures
      /\ calm' => calm /\ req = <<>> /\ (app = "shell" => user.rev = row)
  BY <1>1, GestureCounts
<1> DEFINE g == gestures'
           r == Request("save", g)
<1>3. r = [x \in RequestFields |-> r[x]] /\ r.what = "save" /\ r.arg = g /\ ~r.gone /\ ~r.done
  BY DEF Request, RequestFields
<1>4. g \in 0..MaxGestures /\ req' = Append(req, r)
  BY <1>1, <1>2
<1> HIDE DEF g, r
<1>5. \A x : x = r => InFlightOK(x)'
  BY <1>1, <1>2, <1>3, <1>4 DEF InFlightOK, SigningIn
<1>6. PICK x : x = r
  OBVIOUS
<1> QED
  BY <1>1, <1>2, <1>4, <1>5, <1>6, SentKeeps

\* Answers to views that were deleted, when they do nothing, and when they end the
\* process.
LEMMA StraysEndKeeps ==
  ASSUME SessionInv, StraysEnd
  PROVE  SessionInv'
<1>1. UNCHANGED <<app, token, user, table, row, calm, doubled, announced, gestures>>
  BY DEF StraysEnd
<1>2. CASE UNCHANGED req
  <2>1. (\E S : req' \in Seq(S)) /\ Len(req') <= Len(req)
    BY <1>2, LenProperties DEF SessionInv, ReqInv
  <2> QED
    BY <1>1, <1>2, <2>1, FewerKeep DEF SessionInv, UserInv, TableInv, Saving
<1>3. ASSUME NEW i \in DOMAIN req, req[i].gone, req' = Without(i) PROVE SessionInv'
  <2>1. /\ \E S : req' \in Seq(S)
        /\ Len(req') = Len(req) - 1 /\ Len(req) \in Nat \ {0}
        /\ Len(req) = 1 => req' = <<>>
        /\ \A k \in DOMAIN req' : \E j \in DOMAIN req : req'[k] = req[j]
    BY <1>3, WithoutFewer DEF SessionInv
  <2>2. ~calm
    BY <1>3 DEF SessionInv, ReqInv, InFlightOK
  <2> QED
    BY <1>1, <2>1, <2>2, FewerKeep DEF SessionInv, UserInv, TableInv
<1> QED
  BY <1>2, <1>3 DEF StraysEnd

LEMMA CrashKeeps ==
  ASSUME SessionInv, Crash
  PROVE  SessionInv'
<1>1. /\ app' = "down" /\ token' = None /\ user' = None /\ req' = <<>>
      /\ UNCHANGED <<table, row, calm, doubled, announced, gestures>>
  BY DEF Crash
<1>2. req' \in Seq({}) /\ DOMAIN req' = {} /\ Len(req') = 0
  BY <1>1
<1>3. ReqInv'
  BY <1>2 DEF ReqInv
<1> QED
  BY <1>1, <1>2, <1>3 DEF SessionInv, CountInv, UserInv, TableInv

\* A view in the work area is chosen.
LEMMA ShowKeeps ==
  ASSUME SessionInv, app = "shell", NEW v \in MenuItems \cup {"profile"}, NEW what,
         Gesture(what), Show(v, req), UNCHANGED <<session, table, row, doubled, announced>>
  PROVE  SessionInv'
<1>1. /\ gestures' \in 0..MaxGestures
      /\ calm' => calm /\ req = <<>> /\ user.rev = row
  BY GestureCounts
<1>2. announced' \subseteq table /\ \E S : req \in Seq(S)
  BY DEF SessionInv, TableInv, ReqInv
<1> QED
  BY <1>1, <1>2, ShowInSession

LEMMA SessionStands ==
  ASSUME SessionInv, UNCHANGED <<session, req, stored, calm, doubled, announced, gestures>>
  PROVE  SessionInv'
<1>1. ReqInv'
  BY DEF SessionInv, ReqInv, InFlightOK, SigningIn
<1> QED
  BY <1>1 DEF SessionInv, CountInv, UserInv, TableInv, Saving

LEMMA AnswerKeeps ==
  ASSUME SessionInv, NEW i \in DOMAIN req, Answer(i)
  PROVE  SessionInv'
<1>1. CASE Serve(i)
  BY <1>1, ServeKeeps
<1>2. CASE Fails(i)
  BY <1>2, FailsKeep
<1>3. CASE LoginAnswered(i)
  BY <1>3, LoginAnsweredKeeps
<1>4. CASE UserAnswered(i)
  BY <1>4, UserAnsweredKeeps
<1>5. CASE DriversAnswered(i) \/ LoadsAnswered(i) \/ EquipmentAnswered(i) \/ OptionsAnswered(i)
           \/ MessageAnswered(i)
  <2>1. /\ req' = Without(i) /\ req[i].what # "save"
        /\ UNCHANGED <<session, stored, calm, doubled, announced, gestures>>
    BY <1>5 DEF DriversAnswered, LoadsAnswered, EquipmentAnswered, OptionsAnswered,
      MessageAnswered, ViewAnswered, Answered
  <2> QED
    BY <2>1, ViewAnswerKeeps
<1>6. CASE SavedAnswered(i)
  BY <1>6, SavedAnsweredKeeps
<1>7. CASE CreateAnswered(i)
  BY <1>7, CreateAnsweredKeeps
<1>8. CASE SaveAnswered(i)
  BY <1>8, SaveAnsweredKeeps
<1> QED
  BY <1>1, <1>2, <1>3, <1>4, <1>5, <1>6, <1>7, <1>8 DEF Answer

LEMMA DoKeeps ==
  ASSUME SessionInv, Do
  PROVE  SessionInv'
<1>1. CASE \E u \in Users : Submit(u)
  BY <1>1, SubmitKeeps
<1>2. ASSUME NEW v \in MenuItems, ShowItem(v) PROVE SessionInv'
  BY <1>2, ShowKeeps DEF ShowItem
<1>3. CASE ShowProfile
  BY <1>3, ShowKeeps DEF ShowProfile
<1>4. CASE SignOut
  BY <1>4, SignOutKeeps
<1>5. CASE \E l \in New : Create(l)
  BY <1>5, CreateKeeps
<1>6. CASE Save
  BY <1>6, SaveKeeps
<1>7. CASE ToggleRight
  BY <1>7, QuietGestureKeeps DEF ToggleRight, inFlight
<1>8. CASE \E m \in {"today", "week"} : SetMode(m)
  BY <1>8, QuietGestureKeeps DEF SetMode, inFlight
<1>9. CASE Unsave
  BY <1>9, QuietGestureKeeps DEF Unsave, inFlight
<1>10. CASE Pick
  BY <1>10, QuietGestureKeeps DEF Pick, inFlight
<1>11. CASE Dismiss
  BY <1>11, QuietGestureKeeps DEF Dismiss, inFlight
<1> QED
  BY <1>1, <1>2, <1>3, <1>4, <1>5, <1>6, <1>7, <1>8, <1>9, <1>10, <1>11 DEF Do

LEMMA SessionStep ==
  ASSUME SessionInv, [SessionNext]_sessionVars
  PROVE  SessionInv'
<1>1. CASE \E i \in DOMAIN req : Answer(i)
  BY <1>1, AnswerKeeps
<1>2. CASE Do
  BY <1>2, DoKeeps
<1>3. CASE RunOut \/ Sweep \/ ReadsEnd \/ ReadUnasked
  <2>1. UNCHANGED <<session, req, stored, calm, doubled, announced, gestures>>
    BY <1>3 DEF RunOut, Sweep, ReadsEnd, ReadUnasked, inFlight
  <2> QED
    BY <2>1, SessionStands
<1>4. CASE StraysEnd
  BY <1>4, StraysEndKeeps
<1>5. CASE Crash
  BY <1>5, CrashKeeps
<1>6. CASE UNCHANGED consoleVars
  <2>1. UNCHANGED <<session, req, stored, calm, doubled, announced, gestures>>
    BY <1>6 DEF consoleVars, inFlight
  <2> QED
    BY <2>1, SessionStands
<1> QED
  BY <1>1, <1>2, <1>3, <1>4, <1>5, <1>6 DEF SessionNext, Next, sessionVars

LEMMA SessionAlways == Spec => []SessionInv
<1>1. SessionInit => SessionInv
  BY SessionBegins DEF SessionInit
<1>2. SessionInv /\ [SessionNext]_sessionVars => SessionInv'
  BY SessionStep
<1> QED
  BY <1>1, <1>2, PTL DEF Spec

\* A shell has the token of its user unless somebody signed in twice at once, in whatever
\* order requests are answered, and whatever fails (LoginView.cpp, submit; Shell.cpp,
\* signOut; main.cpp, showShell).
THEOREM TokenHolds == Spec => []TokenOfUser
<1>1. SessionInv => TokenOfUser
  BY SessionEnough
<1> QED
  BY <1>1, SessionAlways, PTL

\* What widgets read on their own: nothing is asked for without a shell; and who waits
\* leaves only what a timer asked for behind.
Leading == \E i \in DOMAIN req : req[i].what \in ToShell

ReadInv ==
  /\ \A r \in reads : r.by \in {"asked", "unasked"}
  /\ \A r \in reads : r.of = "view" /\ r.by = "asked" => r = Read("view", "asked")
  /\ app # "shell" => reads = {}
  /\ calm => stray \subseteq {"unasked"} /\ ~doubled
  /\ calm /\ Leading => Read("view", "asked") \notin reads

LEMMA WaitingEnough ==
  ASSUME SessionInv, ReadInv
  PROVE  WaitingIsSafe
BY DEF SessionInv, ReqInv, InFlightOK, UserInv, Saving, ReadInv, WaitingIsSafe

\* Nothing is left behind but what a timer asked for.
LEMMA NothingLost ==
  ASSUME NEW whats, NEW lost, BecomeStray(<<>>, Remain(<<>>, whats), lost),
         \A r \in lost : r.by = "unasked", stray \subseteq {"unasked"}
  PROVE  stray' \subseteq {"unasked"}
<1> DEFINE none == <<>>
<1>1. none \in Seq({}) /\ DOMAIN none = {} /\ none = <<>> /\ Len(none) = 0
  OBVIOUS
<1>2. Remain(none, whats) = <<>>
  <2> HIDE DEF none
  <2> QED
    BY <1>1, RemainElements
<1>3. Len(Remain(<<>>, whats)) = 0
  BY <1>2
<1>4. stray' = stray \cup {r.by : r \in lost}
  BY <1>3 DEF BecomeStray
<1> QED
  BY <1>4

\* A request alone, which ends, leaves nothing.
LEMMA OneEnds ==
  ASSUME SessionInv, calm, NEW i \in DOMAIN req, req[i].what \in ToShell
  PROVE  Without(i) = <<>>
<1>1. PICK S : req \in Seq(S)
  BY DEF SessionInv, ReqInv
<1>2. Len(req) = 1
  BY DEF SessionInv, CountInv
<1>3. Without(i) \in Seq(S) /\ Len(Without(i)) = Len(req) - 1
  BY <1>1, RestElements DEF Without
<1>4. Len(Without(i)) = 0
  BY <1>2, <1>3
<1> QED
  BY <1>3, <1>4, EmptySeq

\* Nothing happens to what is read, nor to what leads to the shell.
LEMMA ReadsStand ==
  ASSUME ReadInv, reads' = reads, UNCHANGED <<app, doubled>>, calm' => calm,
         stray' \subseteq stray, calm' /\ Leading' => Leading
  PROVE  ReadInv'
BY DEF ReadInv

LEMMA FewerLead ==
  ASSUME \A k \in DOMAIN req' : \E j \in DOMAIN req : req'[k].what = req[j].what
  PROVE  Leading' => Leading
BY DEF Leading

\* The user asks for something, or leaves a view, having waited.
LEMMA WaitsFor ==
  ASSUME ReadInv, NEW what, Gesture(what)
  PROVE  /\ calm' => calm /\ req = <<>> /\ Read("view", "asked") \notin reads
         /\ calm' => \A r \in reads : r.by = "unasked"
<1>1. calm' => calm /\ req = <<>> /\ reads \subseteq Unasked
  BY DEF Gesture
<1>2. \A r \in Unasked : r.by = "unasked"
  BY DEF Unasked, Read
<1>3. Read("view", "asked").by = "asked"
  BY DEF Read
<1> QED
  BY <1>1, <1>2, <1>3

LEMMA ShowReads ==
  ASSUME SessionInv, ReadInv, app = "shell", NEW v \in MenuItems \cup {"profile"},
         Show(v, <<>>), calm, calm', UNCHANGED <<session, doubled>>,
         \A r \in ReadsOf("view") : r.by = "unasked"
  PROVE  stray' \subseteq {"unasked"} /\ ~Leading'
<1> DEFINE none == <<>>
<1>1. stray' \subseteq {"unasked"}
  BY NothingLost DEF Show, Gone, ReadInv
<1>2. none \in Seq({}) /\ DOMAIN none = {} /\ none = <<>>
  OBVIOUS
<1>3. req' = Remain(none, ToShell) \o Requests(AsksFor[v])
  BY DEF Show, Gone, ToShell
<1>4. \A k \in DOMAIN req' :
        \E what \in {"drivers", "loads", "equipment", "options", "saved"} :
          req'[k] = Request(what, None)
  <2> HIDE DEF none
  <2>1. (\E S : none \in Seq(S)) /\ \A k \in DOMAIN none : \E j \in DOMAIN req : none[k] = req[j]
    BY <1>2
  <2>2. ToShell \in {{"login", "user"}, ToShell} /\ ReqInv
    BY DEF SessionInv
  <2> QED
    BY <1>2, <1>3, <2>1, <2>2, ReplacedRequests
<1>5. ~Leading'
  BY <1>4 DEF Leading, ToShell, Request
<1> QED
  BY <1>1, <1>5

LEMMA ShownReads ==
  ASSUME ReadInv, app = "shell", NEW v, NEW rs, Show(v, rs), UNCHANGED <<app, doubled>>,
         calm' => calm /\ stray' \subseteq {"unasked"},
         calm' /\ Leading' => v \notin ReadingViews
  PROVE  ReadInv'
<1>1. reads' = (reads \ ReadsOf("view")) \cup FirstReads(v)
  BY DEF Show
<1>2. FirstReads(v) \subseteq {Read("view", "asked")}
      /\ (v \notin ReadingViews => FirstReads(v) = {})
  BY DEF FirstReads
<1>3. Read("view", "asked").of = "view" /\ Read("view", "asked").by = "asked"
  BY DEF Read
<1>4. Read("view", "asked") \notin reads \ ReadsOf("view")
  BY <1>3 DEF ReadsOf
<1>5. calm' /\ Leading' => Read("view", "asked") \notin reads'
  BY <1>1, <1>2, <1>4
<1> QED
  BY <1>1, <1>2, <1>3, <1>5 DEF ReadInv

LEMMA ReadAnswered ==
  ASSUME SessionInv, ReadInv, NEW i \in DOMAIN req, Answer(i)
  PROVE  ReadInv'
<1>1. PICK S : req \in Seq(S)
  BY DEF SessionInv, ReqInv
<1>2. CASE Serve(i) \/ LoginAnswered(i)
  <2>1. /\ reads' = reads /\ stray' = stray /\ UNCHANGED <<app, doubled, calm>>
    BY <1>2 DEF Serve, LoginAnswered, reading, session
  <2>2. Leading' => Leading
    <3>1. CASE Serve(i)
      <4>1. req' = [req EXCEPT ![i].done = TRUE,
                               ![i].loads = IF req[i].what = "loads" THEN table ELSE {}]
        BY <3>1 DEF Serve
      <4>2. InFlightOK(req[i])
        BY DEF SessionInv, ReqInv
      <4>3. DOMAIN req' = DOMAIN req /\ \A k \in DOMAIN req : req'[k].what = req[k].what
        BY <1>1, <4>1, <4>2 DEF InFlightOK, RequestFields
      <4> QED
        BY <4>3 DEF Leading
    <3>2. CASE LoginAnswered(i)
      <4>1. req[i].what = "login"
        BY <3>2 DEF LoginAnswered, Answered
      <4> QED
        BY <4>1 DEF Leading, ToShell
    <3> QED
      BY <1>2, <3>1, <3>2
  <2> QED
    BY <2>1, <2>2, ReadsStand
<1>3. CASE \/ Fails(i) \/ DriversAnswered(i) \/ LoadsAnswered(i) \/ EquipmentAnswered(i)
           \/ OptionsAnswered(i) \/ MessageAnswered(i) \/ SaveAnswered(i)
  <2>1. /\ reads' = reads /\ stray' = stray /\ UNCHANGED <<app, doubled>>
        /\ req' = Without(i)
    BY <1>3 DEF Fails, DriversAnswered, LoadsAnswered, EquipmentAnswered, OptionsAnswered,
      MessageAnswered, SaveAnswered, ViewAnswered, reading, session
  <2>2. calm' => calm
    BY <1>3, Zenon DEF Fails, DriversAnswered, LoadsAnswered, EquipmentAnswered, OptionsAnswered,
      MessageAnswered, SaveAnswered, ViewAnswered
  <2>3. \A k \in DOMAIN req' : \E j \in DOMAIN req : req'[k] = req[j]
    BY <2>1, WithoutFewer DEF SessionInv
  <2> QED
    BY <2>1, <2>2, <2>3, FewerLead, ReadsStand
<1>4. CASE SavedAnswered(i)
  <2>1. reads' = reads /\ stray' = stray /\ UNCHANGED <<app, doubled, calm>>
    BY <1>4 DEF SavedAnswered, ViewAnswered, reading, session
  <2>2. \A k \in DOMAIN req' :
          req'[k] = Request("message", None) \/ \E j \in DOMAIN req : req'[k] = req[j]
    BY <1>4, MessagesAsked DEF SessionInv
  <2>3. Leading' => Leading
    BY <2>2 DEF Leading, Request, ToShell
  <2> QED
    BY <2>1, <2>3, ReadsStand
<1>5. CASE UserAnswered(i)
  <2>1. /\ req[i].what = "user" /\ app' = "shell" /\ calm' = calm /\ doubled' = doubled
        /\ reads' = {Read("rail", "asked")}
        /\ BecomeStray(Without(i), Remain(Without(i), {"login", "user"}), reads)
    BY <1>5 DEF UserAnswered, Answered, Lost
  <2>2. ASSUME calm PROVE stray' \subseteq {"unasked"}
    <3>1. app # "shell"
      BY <2>1, <2>2 DEF ReadInv, SessionInv, ReqInv, InFlightOK, SigningIn, UserInv
    <3>2. reads = {} /\ stray \subseteq {"unasked"}
      BY <2>2, <3>1 DEF ReadInv
    <3>3. Without(i) = <<>>
      BY <2>1, <2>2, OneEnds DEF ToShell
    <3> QED
      BY <2>1, <3>2, <3>3, NothingLost
  <2>3. /\ Read("rail", "asked").of = "rail" /\ Read("rail", "asked").by = "asked"
        /\ Read("view", "asked") # Read("rail", "asked")
    BY DEF Read
  <2> QED
    BY <2>1, <2>2, <2>3 DEF ReadInv
<1>6. CASE CreateAnswered(i)
  <2>1. /\ req[i].what = "create" /\ Show("board", Without(i))
        /\ UNCHANGED <<session, calm, doubled>>
    BY <1>6 DEF CreateAnswered, Answered
  <2>2. app = "shell"
    BY <2>1 DEF SessionInv, ReqInv, InFlightOK, SigningIn
  <2>3. ASSUME calm PROVE stray' \subseteq {"unasked"}
    <3>1. Without(i) = <<>>
      BY <2>1, <2>3, OneEnds DEF ToShell
    <3>2. Leading
      BY <2>1 DEF Leading, ToShell
    <3>3. \A r \in ReadsOf("view") : r.by = "unasked"
      BY <2>3, <3>2 DEF ReadInv, ReadsOf
    <3> QED
      BY <2>1, <2>2, <2>3, <3>1, <3>3, ShowReads DEF MenuItems
  <2>4. "board" \notin ReadingViews
    BY DEF ReadingViews
  <2> QED
    BY <2>1, <2>2, <2>3, <2>4, ShownReads DEF session
<1> QED
  BY <1>2, <1>3, <1>4, <1>5, <1>6 DEF Answer

LEMMA ReadDone ==
  ASSUME SessionInv, ReadInv, Do
  PROVE  ReadInv'
<1>1. ASSUME NEW v \in MenuItems \cup {"profile"}, NEW what, Gesture(what), app = "shell",
             Show(v, req), UNCHANGED <<session, doubled>>
      PROVE  ReadInv'
  <2>1. calm' => calm /\ req = <<>> /\ \A r \in reads : r.by = "unasked"
    BY <1>1, WaitsFor
  <2>2. ASSUME calm' PROVE stray' \subseteq {"unasked"} /\ ~Leading'
    <3>1. \A r \in ReadsOf("view") : r.by = "unasked"
      BY <2>1, <2>2 DEF ReadsOf
    <3>2. calm /\ Show(v, <<>>)
      BY <1>1, <2>1, <2>2
    <3> QED
      BY <1>1, <2>2, <3>1, <3>2, ShowReads
  <2> QED
    BY <1>1, <2>1, <2>2, ShownReads DEF session
<1>2. ASSUME NEW v \in MenuItems, ShowItem(v) PROVE ReadInv'
  BY <1>1, <1>2 DEF ShowItem
<1>3. CASE ShowProfile
  BY <1>1, <1>3 DEF ShowProfile
<1>4. CASE SignOut
  <2>1. /\ app' = "login" /\ reads' = {} /\ doubled' = doubled /\ Gesture("signOut")
        /\ BecomeStray(req, Remain(req, {"login", "user"}), reads)
    BY <1>4 DEF SignOut, Lost
  <2>2. calm' => calm /\ req = <<>> /\ \A r \in reads : r.by = "unasked"
    BY <2>1, WaitsFor
  <2>3. calm' => stray' \subseteq {"unasked"}
    BY <2>1, <2>2, NothingLost DEF ReadInv
  <2> QED
    BY <2>1, <2>2, <2>3 DEF ReadInv
<1>5. ASSUME NEW what, Gesture(what), UNCHANGED <<app, reads, stray>>,
             doubled' = doubled \/ (calm' => ~doubled')
      PROVE  ReadInv'
  <2>1. calm' => calm /\ Read("view", "asked") \notin reads
    BY <1>5, WaitsFor
  <2>2. calm' => ~doubled'
    BY <1>5, <2>1 DEF ReadInv
  <2> QED
    BY <1>5, <2>1, <2>2 DEF ReadInv
<1>6. ASSUME NEW u \in Users, Submit(u) PROVE ReadInv'
  <2>1. /\ Gesture("login") /\ UNCHANGED <<app, reads, stray>>
        /\ doubled' = (doubled \/ \E i \in DOMAIN req : SigningIn(req[i]))
    BY <1>6 DEF Submit, reading, session
  <2>2. calm' => calm /\ req = <<>>
    BY <2>1, WaitsFor
  <2>3. req = <<>> => DOMAIN req = {}
    OBVIOUS
  <2>4. calm' => ~doubled'
    BY <2>1, <2>2, <2>3, Zenon DEF ReadInv
  <2> QED
    BY <1>5, <2>1, <2>4
<1>7. ASSUME NEW l \in New, Create(l) PROVE ReadInv'
  BY <1>5, <1>7 DEF Create, reading, session
<1>8. CASE Save \/ ToggleRight \/ Unsave \/ Pick \/ Dismiss
  BY <1>5, <1>8 DEF Save, ToggleRight, Unsave, Pick, Dismiss, inFlight, reading, session
<1>9. ASSUME NEW m, SetMode(m) PROVE ReadInv'
  BY <1>5, <1>9 DEF SetMode, inFlight, reading, session
<1> QED
  BY <1>2, <1>3, <1>4, <1>6, <1>7, <1>8, <1>9 DEF Do

LEMMA ReadStep ==
  ASSUME SessionInv, ReadInv, [SessionNext]_sessionVars
  PROVE  ReadInv'
<1>1. CASE RunOut \/ Sweep \/ UNCHANGED consoleVars
  <2>1. UNCHANGED <<app, req, reads, stray, calm, doubled>>
    BY <1>1 DEF RunOut, Sweep, consoleVars, inFlight, reading, session
  <2> QED
    BY <2>1 DEF ReadInv, Leading
<1>2. CASE ReadsEnd
  BY <1>2 DEF ReadsEnd, ReadInv, Leading, session
<1>3. CASE ReadUnasked
  <2>1. /\ app = "shell" /\ UNCHANGED <<app, req, stray, calm, doubled>>
        /\ \E r \in Unasked : reads' = reads \cup {r}
    BY <1>3 DEF ReadUnasked, Unasked, session
  <2>2. \A r \in Unasked : r.by = "unasked"
    BY DEF Unasked, Read
  <2>3. Read("view", "asked").by = "asked"
    BY DEF Read
  <2> QED
    BY <2>1, <2>2, <2>3 DEF ReadInv, Leading
<1>4. CASE StraysEnd
  <2>1. UNCHANGED <<app, reads, calm, doubled>> /\ stray' \subseteq stray
    BY <1>4 DEF StraysEnd, session
  <2>2. \A k \in DOMAIN req' : \E j \in DOMAIN req : req'[k] = req[j]
    BY <1>4, WithoutFewer DEF StraysEnd, SessionInv
  <2> QED
    BY <2>1, <2>2, FewerLead, ReadsStand
<1>5. CASE Crash
  <2>1. reads' = {} /\ stray' = {} /\ UNCHANGED <<calm, doubled>>
    BY <1>5 DEF Crash
  <2> QED
    BY <2>1 DEF ReadInv
<1> QED
  BY <1>1, <1>2, <1>3, <1>4, <1>5, ReadAnswered, ReadDone DEF SessionNext, Next, sessionVars

LEMMA ReadsAlways == Spec => []ReadInv
<1>1. SessionInit => ReadInv
  BY DEF SessionInit, Init, ReadInv, Leading
<1>2. SessionInv /\ ReadInv /\ [SessionNext]_sessionVars => ReadInv'
  BY ReadStep
<1> QED
  BY <1>1, <1>2, SessionAlways, PTL DEF Spec

\* A user who waits for the answers to what was asked for, and gets them, leaves no request
\* of a deleted view or shell in flight but the reads of timers, and has the profile that is
\* in the database once nothing is being saved (Shell.cpp, the show functions and signOut;
\* CommPanel.cpp and MapView.cpp, constructors; ProfileView.cpp, save).
THEOREM WaitingHolds == Spec => []WaitingIsSafe
<1>1. SessionInv /\ ReadInv => WaitingIsSafe
  BY WaitingEnough
<1> QED
  BY <1>1, SessionAlways, ReadsAlways, PTL

-----------------------------------------------------------------------------
\* The toasts, and what the work area shows.

ToasterOK(t) ==
  /\ t \in [sticky : Nat, timed : Nat, due : Nat, sweeping : BOOLEAN]
  /\ Toasts!SweeperRuns(t)

ContentInv == content \in MenuItems \cup {"profile"} /\ menu \in MenuItems

ShownInv == ToasterOK(toasts) /\ ToasterOK(picks) /\ ContentInv

ToastFields == {"sticky", "timed", "due", "sweeping"}

LEMMA ToasterAs ==
  ASSUME NEW t, t = [x \in ToastFields |-> t[x]],
         t.sticky \in Nat, t.timed \in Nat, t.due \in Nat, t.sweeping \in BOOLEAN,
         t.sweeping <=> t.sticky + t.timed + t.due > 0
  PROVE  ToasterOK(t)
<1>1. t \in [sticky : Nat, timed : Nat, due : Nat, sweeping : BOOLEAN]
  BY DEF ToastFields
<1> QED
  BY <1>1 DEF ToasterOK, Toasts!SweeperRuns, Toasts!Shown

LEMMA ToasterIs ==
  ASSUME NEW t, ToasterOK(t)
  PROVE  /\ t = [x \in ToastFields |-> t[x]]
         /\ t.sticky \in Nat /\ t.timed \in Nat /\ t.due \in Nat /\ t.sweeping \in BOOLEAN
         /\ t.sweeping <=> t.sticky + t.timed + t.due > 0
<1>1. t = [x \in ToastFields |-> t[x]]
  BY DEF ToasterOK, ToastFields
<1> QED
  BY <1>1 DEF ToasterOK, Toasts!SweeperRuns, Toasts!Shown

LEMMA ToasterWorks ==
  /\ ToasterOK(Toasts!NoToasts)
  /\ \A t : ToasterOK(t) => \A kind \in Toasts!Kinds : ToasterOK(Toasts!Notify(t, kind))
  /\ \A t : ToasterOK(t) => \A kind \in Toasts!Kinds :
              t[kind] > 0 => ToasterOK(Toasts!Dismiss(t, kind))
  /\ \A t : ToasterOK(t) /\ t.timed > 0 => ToasterOK(Toasts!RunOut(t))
  /\ \A t : ToasterOK(t) => ToasterOK(Toasts!Sweep(t))
<1>1. ToasterOK(Toasts!NoToasts)
  <2> DEFINE n == Toasts!NoToasts
  <2>1. /\ n = [x \in ToastFields |-> n[x]]
        /\ n.sticky = 0 /\ n.timed = 0 /\ n.due = 0 /\ n.sweeping = FALSE
    BY DEF Toasts!NoToasts, ToastFields
  <2> HIDE DEF n
  <2>2. ~(n.sticky + n.timed + n.due > 0) /\ n.sticky \in Nat /\ n.timed \in Nat /\ n.due \in Nat
    BY <2>1
  <2>3. n.sweeping \in BOOLEAN /\ (n.sweeping <=> n.sticky + n.timed + n.due > 0)
    BY <2>1, <2>2, Zenon
  <2>4. ToasterOK(n)
    BY <2>1, <2>2, <2>3, ToasterAs
  <2> QED
    BY <2>4 DEF n
<1>2. ASSUME NEW t, ToasterOK(t), NEW kind \in Toasts!Kinds PROVE ToasterOK(Toasts!Notify(t, kind))
  <2> DEFINE n == Toasts!Notify(t, kind)
  <2>1. /\ t = [x \in ToastFields |-> t[x]]
        /\ t.sticky \in Nat /\ t.timed \in Nat /\ t.due \in Nat
    BY <1>2, ToasterIs
  <2>2. n = [x \in ToastFields |-> n[x]] /\ n.sweeping = TRUE /\ n.due = t.due
    BY <1>2, <2>1 DEF Toasts!Notify, Toasts!Kinds, ToastFields
  <2>3. \/ n.sticky = t.sticky + 1 /\ n.timed = t.timed
        \/ n.sticky = t.sticky /\ n.timed = t.timed + 1
    BY <1>2, <2>1 DEF Toasts!Notify, Toasts!Kinds, ToastFields
  <2> HIDE DEF n
  <2>4. n.sticky + n.timed + n.due > 0 /\ n.sticky \in Nat /\ n.timed \in Nat /\ n.due \in Nat
    BY <2>1, <2>2, <2>3
  <2>5. ToasterOK(n)
    BY <2>2, <2>4, ToasterAs
  <2> QED
    BY <2>5 DEF n
<1>3. ASSUME NEW t, ToasterOK(t), NEW kind \in Toasts!Kinds, t[kind] > 0
      PROVE  ToasterOK(Toasts!Dismiss(t, kind))
  <2> DEFINE n == Toasts!Dismiss(t, kind)
  <2>1. /\ t = [x \in ToastFields |-> t[x]]
        /\ t.sticky \in Nat /\ t.timed \in Nat /\ t.due \in Nat
    BY <1>3, ToasterIs
  <2>2. n = [x \in ToastFields |-> n[x]] /\ n.sweeping = TRUE /\ n.due = t.due + 1
    BY <1>3, <2>1 DEF Toasts!Dismiss, Toasts!Kinds, ToastFields
  <2>3. \/ n.sticky = t.sticky - 1 /\ n.timed = t.timed /\ t.sticky > 0
        \/ n.sticky = t.sticky /\ n.timed = t.timed - 1 /\ t.timed > 0
    BY <1>3, <2>1 DEF Toasts!Dismiss, Toasts!Kinds, ToastFields
  <2> HIDE DEF n
  <2>4. n.sticky + n.timed + n.due > 0 /\ n.sticky \in Nat /\ n.timed \in Nat /\ n.due \in Nat
    BY <2>1, <2>2, <2>3
  <2>5. ToasterOK(n)
    BY <2>2, <2>4, ToasterAs
  <2> QED
    BY <2>5 DEF n
<1>4. ASSUME NEW t, ToasterOK(t), t.timed > 0 PROVE ToasterOK(Toasts!RunOut(t))
  <2> DEFINE n == Toasts!RunOut(t)
  <2>1. /\ t = [x \in ToastFields |-> t[x]]
        /\ t.sticky \in Nat /\ t.timed \in Nat /\ t.due \in Nat /\ t.sweeping = TRUE
    BY <1>4, ToasterIs
  <2>2. /\ n = [x \in ToastFields |-> n[x]] /\ n.sweeping = t.sweeping
        /\ n.due = t.due + 1 /\ n.timed = t.timed - 1 /\ n.sticky = t.sticky
    BY <1>4, <2>1 DEF Toasts!RunOut, ToastFields
  <2> HIDE DEF n
  <2>4. n.sticky + n.timed + n.due > 0 /\ n.sticky \in Nat /\ n.timed \in Nat /\ n.due \in Nat
    BY <1>4, <2>1, <2>2
  <2>5. ToasterOK(n)
    BY <2>1, <2>2, <2>4, ToasterAs
  <2> QED
    BY <2>5 DEF n
<1>5. ASSUME NEW t, ToasterOK(t) PROVE ToasterOK(Toasts!Sweep(t))
  <2>1. CASE t.due = 0
    BY <1>5, <2>1 DEF Toasts!Sweep
  <2>2. CASE t.due # 0
    <3> DEFINE n == Toasts!Sweep(t)
               more == t.sticky + t.timed > 0
    <3>1. /\ t = [x \in ToastFields |-> t[x]]
          /\ t.sticky \in Nat /\ t.timed \in Nat /\ t.due \in Nat
      BY <1>5, ToasterIs
    <3>2. n = [t EXCEPT !.due = 0, !.sweeping = more]
      BY <2>2 DEF Toasts!Sweep
    <3>3. more \in BOOLEAN
      OBVIOUS
    <3>4. /\ n = [x \in ToastFields |-> n[x]] /\ n.sweeping = more
          /\ n.due = 0 /\ n.timed = t.timed /\ n.sticky = t.sticky
      <4> HIDE DEF more, n
      <4> QED
        BY <3>1, <3>2, <3>3 DEF ToastFields
    <3> HIDE DEF n
    <3>5. n.sweeping \in BOOLEAN /\ (n.sweeping <=> n.sticky + n.timed + n.due > 0)
      <4>1. more <=> n.sticky + n.timed + n.due > 0
        BY <3>1, <3>4
      <4> HIDE DEF more
      <4> QED
        BY <3>3, <3>4, <4>1, Zenon
    <3>6. ToasterOK(n)
      BY <3>1, <3>4, <3>5, ToasterAs
    <3> QED
      BY <3>6 DEF n
  <2> QED
    BY <2>1, <2>2
<1> QED
  BY <1>1, <1>2, <1>3, <1>4, <1>5

LEMMA ShownStep ==
  ASSUME ShownInv, [SessionNext]_sessionVars
  PROVE  ShownInv'
<1>1. "board" \in MenuItems
  BY DEF MenuItems
<1> USE DEF ShownInv, ContentInv
<1>2. CASE UNCHANGED <<content, menu, toasts, picks>>
  BY <1>2
<1>3. CASE \E i \in DOMAIN req : Answer(i)
  <2>1. PICK i \in DOMAIN req : Answer(i)
    BY <1>3
  <2>2. CASE CreateAnswered(i)
    <3>1. /\ content' = "board" /\ menu' = menu /\ picks' = Toasts!NoToasts
          /\ toasts' = Toasts!Notify(toasts, "timed")
      BY <2>2 DEF CreateAnswered, Show
    <3> QED
      BY <1>1, <3>1, ToasterWorks DEF Toasts!Kinds
  <2>3. CASE SaveAnswered(i)
    <3>1. UNCHANGED <<content, menu, picks>> /\ toasts' = Toasts!Notify(toasts, "timed")
      BY <2>3 DEF SaveAnswered
    <3> QED
      BY <3>1, ToasterWorks DEF Toasts!Kinds
  <2>4. CASE UserAnswered(i)
    <3>1. /\ content' = "board" /\ menu' = "board" /\ picks' = Toasts!NoToasts
          /\ toasts' = Toasts!Notify(Toasts!NoToasts, "timed")
      BY <2>4 DEF UserAnswered
    <3> QED
      BY <1>1, <3>1, ToasterWorks DEF Toasts!Kinds
  <2>5. CASE ~CreateAnswered(i) /\ ~SaveAnswered(i) /\ ~UserAnswered(i)
    <3>1. UNCHANGED <<content, menu, toasts, picks>>
      BY <2>1, <2>5 DEF Answer, Serve, Fails, LoginAnswered, DriversAnswered, LoadsAnswered,
        EquipmentAnswered, OptionsAnswered, MessageAnswered, SavedAnswered, ViewAnswered
    <3> QED
      BY <1>2, <3>1
  <2> QED
    BY <2>2, <2>3, <2>4, <2>5
<1>4. CASE Do
  <2>1. ASSUME NEW v \in MenuItems, ShowItem(v) PROVE ShownInv'
    <3>1. content' = v /\ menu' = v /\ picks' = Toasts!NoToasts /\ toasts' = toasts
      BY <2>1 DEF ShowItem, Show
    <3> QED
      BY <2>1, <3>1, ToasterWorks
  <2>2. CASE ShowProfile
    <3>1. content' = "profile" /\ menu' = menu /\ picks' = Toasts!NoToasts /\ toasts' = toasts
      BY <2>2 DEF ShowProfile, Show
    <3> QED
      BY <3>1, ToasterWorks
  <2>3. CASE Pick
    <3>1. UNCHANGED <<content, menu, toasts>> /\ picks' = Toasts!Notify(picks, "sticky")
      BY <2>3 DEF Pick
    <3> QED
      BY <3>1, ToasterWorks DEF Toasts!Kinds
  <2>4. CASE Dismiss
    <3>1. UNCHANGED <<content, menu>>
      BY <2>4 DEF Dismiss
    <3>2. PICK kind \in Toasts!Kinds :
            \/ toasts[kind] > 0 /\ toasts' = Toasts!Dismiss(toasts, kind) /\ UNCHANGED picks
            \/ picks[kind] > 0 /\ picks' = Toasts!Dismiss(picks, kind) /\ UNCHANGED toasts
      BY <2>4 DEF Dismiss
    <3> QED
      BY <3>1, <3>2, ToasterWorks
  <2>5. CASE \/ \E u \in Users : Submit(u)
             \/ \E m \in {"today", "week"} : SetMode(m)
             \/ \E l \in New : Create(l)
             \/ ToggleRight \/ SignOut \/ Unsave \/ Save
    <3>1. UNCHANGED <<content, menu, toasts, picks>>
      BY <2>5 DEF Submit, SetMode, Create, ToggleRight, SignOut, Unsave, Save
    <3> QED
      BY <1>2, <3>1
  <2> QED
    BY <1>4, <2>1, <2>2, <2>3, <2>4, <2>5 DEF Do
<1>5. CASE RunOut
  <2>1. UNCHANGED <<content, menu, picks>> /\ toasts.timed > 0 /\ toasts' = Toasts!RunOut(toasts)
    BY <1>5 DEF RunOut
  <2> QED
    BY <2>1, ToasterWorks
<1>6. CASE Sweep
  <2>1. /\ UNCHANGED <<content, menu>>
        /\ \/ toasts' = Toasts!Sweep(toasts) /\ UNCHANGED picks
           \/ picks' = Toasts!Sweep(picks) /\ UNCHANGED toasts
    BY <1>6 DEF Sweep
  <2> QED
    BY <2>1, ToasterWorks
<1>7. CASE ReadsEnd \/ ReadUnasked \/ StraysEnd \/ Crash \/ UNCHANGED consoleVars
  <2>1. UNCHANGED <<content, menu, toasts, picks>>
    BY <1>7 DEF ReadsEnd, ReadUnasked, StraysEnd, Crash, consoleVars
  <2> QED
    BY <1>2, <2>1
<1> QED
  BY <1>3, <1>4, <1>5, <1>6, <1>7 DEF SessionNext, Next, sessionVars

\* The variables keep their types; toasts that are due are swept, and the sweeper stops
\* with the last toast (Toaster.cpp, sweep and remove).
THEOREM TypesHold == Spec => []TypeOK
<1>1. SessionInit => ShownInv
  BY ToasterWorks DEF SessionInit, Init, ShownInv, ContentInv, MenuItems
<1>2. ShownInv /\ [SessionNext]_sessionVars => ShownInv'
  BY ShownStep
<1>3. SessionInv /\ ShownInv => TypeOK
  <2> SUFFICES ASSUME SessionInv, ShownInv PROVE TypeOK
    OBVIOUS
  <2>1. app = "shell" <=> user # None
    BY ConsoleAssumption DEF SessionInv, UserInv
  <2> QED
    BY <2>1 DEF SessionInv, UserInv, TableInv, ShownInv, ContentInv, ToasterOK, TypeOK
<1> QED
  BY <1>1, <1>2, <1>3, SessionAlways, PTL DEF Spec

-----------------------------------------------------------------------------
\* The days of a week.

LEMMA MidnightsOf ==
  ASSUME NEW week \in Weeks, NEW day \in Int
  PROVE  /\ Midnight(week, day) \in Int
         /\ week = "even" => Midnight(week, day) = 24 * day
         /\ day < 1 => Midnight(week, day) = 24 * day
         /\ day >= 1 /\ week = "spring" => Midnight(week, day) = 24 * day - 1
         /\ day >= 1 /\ week = "autumn" => Midnight(week, day) = 24 * day + 1
BY DEF Midnight, Weeks

\* Days do not overlap.
LEMMA OneDate ==
  ASSUME NEW week \in Weeks, NEW hour \in Int, NEW day \in -1..7,
         Midnight(week, day) <= hour, hour < Midnight(week, day + 1)
  PROVE  IsoDate(week, hour) = day
<1> DEFINE Within(d) == Midnight(week, d) <= hour /\ hour < Midnight(week, d + 1)
<1>1. ASSUME NEW d \in -1..7, Within(d) PROVE d = day
  <2>1. d \in Int /\ d + 1 \in Int /\ day \in Int /\ day + 1 \in Int
    OBVIOUS
  <2>2. CASE week = "even"
    BY <1>1, <2>1, <2>2, MidnightsOf
  <2>3. CASE week = "spring"
    BY <1>1, <2>1, <2>3, MidnightsOf
  <2>4. CASE week = "autumn"
    BY <1>1, <2>1, <2>4, MidnightsOf
  <2> QED
    BY <2>2, <2>3, <2>4 DEF Weeks
<1>2. Within(day)
  OBVIOUS
<1>3. IsoDate(week, hour) = CHOOSE d \in -1..7 : Within(d)
  BY DEF IsoDate
<1> HIDE DEF Within
<1> QED
  BY <1>1, <1>2, <1>3

\* An hour of the week is in one of its days.
LEMMA SomeDate ==
  ASSUME NEW week \in Weeks, NEW now \in Hours(week)
  PROVE  /\ now \in Nat
         /\ \E day \in 0..6 :
              /\ IsoDate(week, now) = day
              /\ Midnight(week, day) <= now /\ now < Midnight(week, day + 1)
<1>1. now \in Nat /\ now < Midnight(week, 7)
  BY MidnightsOf DEF Hours
<1>2. \E day \in 0..6 : Midnight(week, day) <= now /\ now < Midnight(week, day + 1)
  <2>1. Midnight(week, 0) = 0
    BY MidnightsOf
  <2> DEFINE M(d) == Midnight(week, d)
  <2>2. /\ M(0) \in Int /\ M(1) \in Int /\ M(2) \in Int /\ M(3) \in Int /\ M(4) \in Int
        /\ M(5) \in Int /\ M(6) \in Int /\ M(7) \in Int
    BY MidnightsOf
  <2>3. 0 + 1 = 1 /\ 1 + 1 = 2 /\ 2 + 1 = 3 /\ 3 + 1 = 4 /\ 4 + 1 = 5 /\ 5 + 1 = 6 /\ 6 + 1 = 7
    OBVIOUS
  <2> SUFFICES \E day \in 0..6 : M(day) <= now /\ now < M(day + 1)
    OBVIOUS
  <2>4. M(0) <= now /\ now < M(7)
    BY <1>1, <2>1
  <2> HIDE DEF M
  <2> QED
    BY <1>1, <2>2, <2>3, <2>4
<1>3. PICK day \in 0..6 : Midnight(week, day) <= now /\ now < Midnight(week, day + 1)
  BY <1>2
<1>4. IsoDate(week, now) = day
  BY <1>1, <1>3, OneDate
<1> QED
  BY <1>1, <1>3, <1>4

\* Steps of 24 hours from any other hour than that are the days from Sunday to Saturday.
LEMMA WeekFromSunday ==
  ASSUME NEW week \in Weeks, NEW now \in Hours(week), ~ClockTrouble(week, now), NEW c \in 0..6
  PROVE  CurrentWeekDays(week, now)[c] = c
<1>1. now \in Nat
  BY SomeDate
<1>2. PICK d \in 0..6 : /\ IsoDate(week, now) = d
                        /\ Midnight(week, d) <= now /\ now < Midnight(week, d + 1)
  BY SomeDate
<1> DEFINE hour == now - 24 * d + 24 * c
<1>3. CurrentWeekDays(week, now)[c] = IsoDate(week, hour)
  BY <1>2 DEF CurrentWeekDays
<1>4. now = Midnight(week, d) => ~(IF now = 0 THEN week = "autumn" ELSE week = "spring")
  BY <1>2 DEF ClockTrouble
<1>5. Midnight(week, c) <= hour /\ hour < Midnight(week, c + 1)
  <2>1. d \in Int /\ d + 1 \in Int /\ c \in Int /\ c + 1 \in Int
    OBVIOUS
  <2>2. CASE week = "even"
    BY <1>1, <1>2, <2>1, <2>2, MidnightsOf
  <2>3. CASE week = "spring"
    <3>1. d >= 1 => now # 24 * d - 1
      BY <1>1, <1>4, <2>1, <2>3, MidnightsOf
    <3> QED
      BY <1>1, <1>2, <2>1, <2>3, <3>1, MidnightsOf
  <2>4. CASE week = "autumn"
    <3>1. d < 1 => now # 0
      BY <1>1, <1>4, <2>1, <2>4, MidnightsOf
    <3> QED
      BY <1>1, <1>2, <2>1, <2>4, <3>1, MidnightsOf
  <2> QED
    BY <2>2, <2>3, <2>4 DEF Weeks
<1>6. hour \in Int /\ c \in -1..7
  BY <1>1
<1> HIDE DEF hour
<1>7. IsoDate(week, hour) = c
  BY <1>5, <1>6, OneDate
<1> QED
  BY <1>3, <1>7

LEMMA CellsAreRight ==
  ASSUME NEW week \in Weeks, NEW now \in Hours(week), ~ClockTrouble(week, now), NEW m, NEW ls
  PROVE  Cells(m, ls, week, now) = RightCells(m, ls, week, now)
<1>1. CASE m = "today"
  BY <1>1 DEF Cells, RightCells, TodayCells
<1>2. CASE m # "today"
  <2> DEFINE right ==
        {<<l, Pickup[l]>> : l \in {l \in ls : Driver[l] \in Drivers /\ Pickup[l] \in 0..6}}
  <2>1. \A c \in 0..6 : CurrentWeekDays(week, now)[c] = c
    BY WeekFromSunday
  <2>2. ASSUME NEW cell \in WeekCells(ls, week, now) PROVE cell \in right
    <3>1. /\ cell \in ls \X (0..6) /\ Driver[cell[1]] \in Drivers
          /\ Pickup[cell[1]] = CurrentWeekDays(week, now)[cell[2]]
      BY <2>2 DEF WeekCells
    <3>2. PICK l \in ls, c \in 0..6 : cell = <<l, c>>
      BY <3>1
    <3>3. Driver[l] \in Drivers /\ Pickup[l] = c
      BY <2>1, <3>1, <3>2
    <3> QED
      BY <3>2, <3>3
  <2>3. ASSUME NEW cell \in right PROVE cell \in WeekCells(ls, week, now)
    <3>1. PICK l \in ls : cell = <<l, Pickup[l]>> /\ Driver[l] \in Drivers /\ Pickup[l] \in 0..6
      BY <2>3
    <3> QED
      BY <2>1, <3>1 DEF WeekCells
  <2> QED
    BY <1>2, <2>2, <2>3 DEF Cells, RightCells
<1> QED
  BY <1>1, <1>2

\* A board that is drawn is drawn from what it has, in its mode, and it has what was
\* announced.
BoardInv ==
  /\ when.week \in Weeks /\ when.now \in Hours(when.week)
  /\ "loads" \in view.has => announced \subseteq view.loads
  /\ view.drawn # None =>
       /\ {"drivers", "loads"} \subseteq view.has
       /\ view.drawn.mode = view.mode
       /\ view.drawn.cells = Cells(view.mode, view.loads, when.week, when.now)

LEMMA BoardEnough ==
  ASSUME SessionInv, FrameInv, BoardInv
  PROVE  BoardShows
<1> SUFFICES ASSUME app = "shell", content = "board", view.drawn # None
             PROVE  /\ announced \subseteq view.loads
                    /\ view.drawn.mode = mode
                    /\ \/ ClockTrouble(when.week, when.now)
                       \/ view.drawn.cells = RightCells(mode, view.loads, when.week, when.now)
  BY DEF BoardShows
<1>1. view.mode = mode
  BY DEF FrameInv, ViewInv
<1>2. ~ClockTrouble(when.week, when.now) =>
        Cells(mode, view.loads, when.week, when.now)
          = RightCells(mode, view.loads, when.week, when.now)
  BY CellsAreRight DEF BoardInv
<1> QED
  BY <1>1, <1>2 DEF BoardInv

LEMMA BoardBegins ==
  ASSUME Init
  PROVE  BoardInv
<1>1. PICK week \in Weeks : \E now \in Hours(week) : when = [week |-> week, now |-> now]
  BY DEF Init
<1>2. view = FreshView
  BY DEF Init
<1> QED
  BY <1>1, <1>2 DEF BoardInv, FreshView

\* A view that was made has nothing yet.
LEMMA FreshBoard ==
  ASSUME BoardInv, NEW m, view' = [FreshView EXCEPT !.mode = m], when' = when
  PROVE  BoardInv'
<1>1. view'.has = {} /\ view'.drawn = None
  BY DEF FreshView
<1> QED
  BY <1>1 DEF BoardInv

\* A view v that is not drawn yet, or is drawn anew.
LEMMA BoardRendered ==
  ASSUME BoardInv, NEW v, v = [x \in ViewFields |-> v[x]], view' = Render(v),
         UNCHANGED <<when, announced>>,
         v.drawn # None => {"drivers", "loads"} \subseteq v.has,
         "loads" \in v.has => announced \subseteq v.loads
  PROVE  BoardInv'
<1>1. CASE {"drivers", "loads"} \subseteq v.has
  <2> DEFINE d == [mode |-> v.mode, cells |-> Cells(v.mode, v.loads, when.week, when.now)]
  <2>1. view' = [v EXCEPT !.drawn = d]
    BY <1>1 DEF Render
  <2>2. d.mode = v.mode /\ d.cells = Cells(v.mode, v.loads, when.week, when.now)
    OBVIOUS
  <2> HIDE DEF d
  <2>3. view'.has = v.has /\ view'.loads = v.loads /\ view'.mode = v.mode /\ view'.drawn = d
    BY <2>1 DEF ViewFields
  <2> QED
    BY <1>1, <2>2, <2>3 DEF BoardInv
<1>2. CASE ~({"drivers", "loads"} \subseteq v.has)
  BY <1>2 DEF Render, BoardInv
<1> QED
  BY <1>1, <1>2

\* What is drawn stays as it is.
LEMMA BoardStands ==
  ASSUME BoardInv, UNCHANGED <<when, announced>>,
         view'.has \cap {"drivers", "loads"} = view.has \cap {"drivers", "loads"},
         view'.loads = view.loads, view'.mode = view.mode, view'.drawn = view.drawn
  PROVE  BoardInv'
BY DEF BoardInv

LEMMA BoardAnswered ==
  ASSUME SessionInv, FrameInv, BoardInv, NEW i \in DOMAIN req, Answer(i)
  PROVE  BoardInv'
<1>1. view = [x \in ViewFields |-> view[x]]
  BY DEF FrameInv, ViewInv
<1>2. ASSUME NEW what
      PROVE  LET g == Got(i, what)
             IN  /\ g = [x \in ViewFields |-> g[x]]
                 /\ g.has = view.has \cup {what}
                 /\ g.loads = view.loads /\ g.mode = view.mode /\ g.drawn = view.drawn
  BY <1>1 DEF Got, ViewFields
<1>3. CASE Serve(i) \/ Fails(i) \/ LoginAnswered(i) \/ SaveAnswered(i)
  BY <1>3, BoardStands DEF Serve, Fails, LoginAnswered, SaveAnswered
<1>4. CASE UserAnswered(i)
  <2>1. view' = FreshView /\ when' = when
    BY <1>4 DEF UserAnswered
  <2>2. view'.has = {} /\ view'.drawn = None
    BY <2>1 DEF FreshView
  <2> QED
    BY <2>1, <2>2 DEF BoardInv
<1>5. CASE CreateAnswered(i)
  <2>1. view' = [FreshView EXCEPT !.mode = mode] /\ when' = when
    BY <1>5 DEF CreateAnswered, Show
  <2> QED
    BY <2>1, FreshBoard
<1>6. CASE DriversAnswered(i)
  <2> DEFINE v == Got(i, "drivers")
  <2>1. view' = Render(v) /\ UNCHANGED <<when, announced>>
    BY <1>6 DEF DriversAnswered, ViewAnswered
  <2>2. /\ v = [x \in ViewFields |-> v[x]]
        /\ v.has = view.has \cup {"drivers"}
        /\ v.loads = view.loads /\ v.drawn = view.drawn
    BY <1>2
  <2> HIDE DEF v
  <2>3. /\ v.drawn # None => {"drivers", "loads"} \subseteq v.has
        /\ "loads" \in v.has => announced \subseteq v.loads
    BY <2>2 DEF BoardInv
  <2> QED
    BY <2>1, <2>2, <2>3, BoardRendered
<1>7. CASE LoadsAnswered(i)
  <2> DEFINE g == Got(i, "loads")
             v == [g EXCEPT !.loads = req[i].loads]
  <2>1. /\ view' = Render(v) /\ UNCHANGED <<when, announced>>
        /\ req[i].what = "loads" /\ req[i].done
    BY <1>7 DEF LoadsAnswered, ViewAnswered, Answered
  <2>2. /\ g = [x \in ViewFields |-> g[x]]
        /\ g.has = view.has \cup {"loads"} /\ g.drawn = view.drawn
    BY <1>2
  <2> HIDE DEF g
  <2>3. /\ v = [x \in ViewFields |-> v[x]]
        /\ v.has = view.has \cup {"loads"} /\ v.drawn = view.drawn
        /\ v.loads = req[i].loads
    BY <2>2 DEF ViewFields
  <2> HIDE DEF v
  <2>4. announced \subseteq req[i].loads
    BY <2>1 DEF SessionInv, ReqInv, InFlightOK
  <2>5. /\ v.drawn # None => {"drivers", "loads"} \subseteq v.has
        /\ "loads" \in v.has => announced \subseteq v.loads
    BY <2>3, <2>4 DEF BoardInv
  <2> QED
    BY <2>1, <2>3, <2>5, BoardRendered
<1>8. ASSUME NEW what \in {"equipment", "options", "saved"}, ViewAnswered(i, what, Got(i, what))
      PROVE  BoardInv'
  <2>1. view' = Got(i, what) /\ UNCHANGED <<when, announced>>
    BY <1>8 DEF ViewAnswered
  <2> QED
    BY <1>2, <2>1, BoardStands
<1>9. CASE EquipmentAnswered(i) \/ OptionsAnswered(i) \/ SavedAnswered(i)
  BY <1>8, <1>9 DEF EquipmentAnswered, OptionsAnswered, SavedAnswered
<1>10. CASE MessageAnswered(i)
  <2>1. view' = [view EXCEPT !.rows = @ + 1] /\ UNCHANGED <<when, announced>>
    BY <1>10 DEF MessageAnswered, ViewAnswered
  <2>2. /\ view'.has = view.has /\ view'.loads = view.loads
        /\ view'.mode = view.mode /\ view'.drawn = view.drawn
    BY <1>1, <2>1 DEF ViewFields
  <2> QED
    BY <2>1, <2>2, BoardStands
<1> QED
  BY <1>3, <1>4, <1>5, <1>6, <1>7, <1>9, <1>10 DEF Answer

LEMMA BoardDone ==
  ASSUME FrameInv, BoardInv, Do
  PROVE  BoardInv'
<1>1. view = [x \in ViewFields |-> view[x]]
  BY DEF FrameInv, ViewInv
<1>2. CASE \/ (\E u \in Users : Submit(u)) \/ (\E l \in New : Create(l))
           \/ ToggleRight \/ SignOut \/ Pick \/ Dismiss \/ Save
  BY <1>2, BoardStands DEF Submit, Create, ToggleRight, SignOut, Pick, Dismiss, Save
<1>3. ASSUME NEW v \in MenuItems, ShowItem(v) PROVE BoardInv'
  BY <1>3, FreshBoard DEF ShowItem, Show
<1>4. CASE ShowProfile
  BY <1>4, FreshBoard DEF ShowProfile, Show
<1>5. ASSUME NEW m, SetMode(m) PROVE BoardInv'
  <2> DEFINE v == [view EXCEPT !.mode = m]
  <2>1. /\ v = [x \in ViewFields |-> v[x]]
        /\ v.has = view.has /\ v.loads = view.loads /\ v.drawn = view.drawn
    BY <1>1 DEF ViewFields
  <2>2. /\ view' = IF content = "board" /\ view.mode # m THEN Render(v) ELSE view
        /\ UNCHANGED <<when, announced>>
    BY <1>5 DEF SetMode
  <2> HIDE DEF v
  <2>3. CASE view' = Render(v)
    <3>1. /\ v.drawn # None => {"drivers", "loads"} \subseteq v.has
          /\ "loads" \in v.has => announced \subseteq v.loads
      BY <2>1 DEF BoardInv
    <3> QED
      BY <2>1, <2>2, <2>3, <3>1, BoardRendered
  <2>4. CASE view' = view
    BY <2>2, <2>4, BoardStands
  <2> QED
    BY <2>2, <2>3, <2>4
<1>6. CASE Unsave
  <2>1. view' = [view EXCEPT !.rows = @ - 1] /\ UNCHANGED <<when, announced>>
    BY <1>6 DEF Unsave
  <2>2. /\ view'.has = view.has /\ view'.loads = view.loads
        /\ view'.mode = view.mode /\ view'.drawn = view.drawn
    BY <1>1, <2>1 DEF ViewFields
  <2> QED
    BY <2>1, <2>2, BoardStands
<1> QED
  BY <1>2, <1>3, <1>4, <1>5, <1>6 DEF Do

\* A drawn board has all loads that were announced, is in the mode of the buttons, and shows
\* each load in its column and no other, at every hour of any week but the one that
\* ClockTrouble names (BoardView.cpp, render and currentWeekDays; Shell.cpp, onCreated_).
THEOREM BoardHolds == Spec => []BoardShows
<1>1. SessionInit => BoardInv
  BY BoardBegins DEF SessionInit
<1>2. SessionInv /\ FrameInv /\ BoardInv /\ [SessionNext]_sessionVars => BoardInv'
  <2> SUFFICES ASSUME SessionInv, FrameInv, BoardInv, [SessionNext]_sessionVars PROVE BoardInv'
    OBVIOUS
  <2>1. CASE \E i \in DOMAIN req : Answer(i)
    BY <2>1, BoardAnswered
  <2>2. CASE Do
    BY <2>2, BoardDone
  <2>3. CASE RunOut \/ Sweep \/ ReadsEnd \/ ReadUnasked \/ StraysEnd \/ Crash
    BY <2>3, BoardStands DEF RunOut, Sweep, ReadsEnd, ReadUnasked, StraysEnd, Crash
  <2>4. CASE UNCHANGED consoleVars
    BY <2>4, BoardStands DEF consoleVars
  <2> QED
    BY <2>1, <2>2, <2>3, <2>4 DEF SessionNext, Next, sessionVars
<1>3. SessionInv /\ FrameInv /\ BoardInv => BoardShows
  BY BoardEnough
<1> QED
  BY <1>1, <1>2, <1>3, SessionAlways, FrameStays, PTL DEF Spec

-----------------------------------------------------------------------------
\* The tools of the conversations.
USE DEF place, gate, topicBar, pinned, chips, outgoing, panel, rights, uploads, rows

\* The actions of PanelTools, by tool.
Common == \E i \in DOMAIN asked : ServeRead(i) \/ ToolFails(i)

Posting ==
  \/ NewTopic \/ ChangeStanding \/ Tick
  \/ \E i \in DOMAIN asked :
       ServeNewTopic(i) \/ MembersAnswered(i) \/ TopicsAnswered(i) \/ NewTopicAnswered(i)

Sending ==
  \/ CancelReply \/ Send \/ Relisted \/ \E m \in Messages : StartReply(m)
  \/ \E t \in Topics \cup {Nil} : SelectTopic(t)
  \/ \E i \in DOMAIN asked : SendAnswered(i)

Pinning ==
  \/ \E m \in Messages : PromptPinScope(m)
  \/ CancelPin \/ \E s \in {"self", "channel"} : PinWithScope(s)
  \/ \E x \in pins \cup myPins : Unpin(x)
  \/ \E i \in DOMAIN asked : ServePin(i) \/ ServeUnpin(i) \/ PinsAnswered(i) \/ PinAnswered(i)

Attaching ==
  \/ Refresh \/ Upload \/ TheirUpload
  \/ \E i \in DOMAIN asked :
       ServeUpload(i) \/ ListAnswered(i) \/ LinksAnswered(i) \/ DocAnswered(i) \/ UploadAnswered(i)

Raw == \E i \in DOMAIN asked : RawAnswered(i)

Exporting == ExportBoard \/ Raw

Selecting == \E c \in Channels : SelectChannel(c)

LEMMA ByTool ==
  ToolsNext => Common \/ Posting \/ Sending \/ Pinning \/ Attaching \/ Exporting \/ Selecting
BY DEF ToolsNext, Common, Posting, Sending, Pinning, Attaching, Exporting, Raw, Selecting

-----------------------------------------------------------------------------
\* What the tools know, and what their requests carry.  f: the message of each pin
\* the user has asked for.
Pin == [id : Nat, chan : Channels, msg : Messages, mine : BOOLEAN, scope : {"self", "channel"}]

PinOK(x, f) ==
  /\ x \in Pin /\ (x.mine => x.id <= uses /\ x.msg = f[x.id])
  /\ ChannelOf[x.msg] = x.chan \/ x.msg \in latePins

InPlace(m) == ChannelOf[m] = sel \/ m \in latePins

Fields == {"what", "chan", "arg", "served", "answer"}

RequestOK(r, f) ==
  /\ r = [x \in Fields |-> r[x]]
  /\ r.what = "topics" /\ r.served => \A t \in r.answer : ChannelOf[t] = r.chan
  /\ r.what = "members" => r.chan \in Channels /\ (r.served => r.answer \in Standings)
  /\ r.what = "newTopic" => ChannelOf[r.arg] = r.chan
  /\ r.what = "pins" /\ r.served => \A x \in r.answer : PinOK(x, f) /\ x.chan = r.chan
  /\ r.what \in {"pin", "repin"} => PinOK(r.arg, f) /\ r.arg.mine /\ InPlace(r.arg.msg)
  /\ r.what = "send" => r.arg = Mine
  /\ r.what \in {"raw1", "raw2", "raw3"} =>
       tool = "exporting" /\ r.chan \in Channels /\ (r.chan = sel \/ moved)

AskedInv(f) == \E S : asked \in Seq(S) /\ \A r \in S : RequestOK(r, f)

PlaceInv ==
  /\ uses \in Nat /\ tool \in Tools /\ sel \in Channels \cup {Nil}

BarInv ==
  /\ bar = [topics |-> bar.topics, new |-> bar.new]
  /\ \A t \in bar.topics \cup ({topic} \ {Nil}) : ChannelOf[t] = sel

GateInv ==
  /\ standing \in [Channels -> Standings]
  /\ clock \in Int /\ judged \in Int /\ judged <= clock /\ stamp \in Stamps
  /\ members.of \in {Nil, sel}
  /\ members.of # Nil =>
       /\ members.me \in Standings
       /\ composer <=> Composer(sel, members.me, judged)
       /\ bar.new <=> CanManageTopics(members.me)

PinsInv(f) ==
  /\ \A x \in pinRows : PinOK(x, f)
  /\ \A x \in pins : PinOK(x, f) /\ InPlace(x.msg) /\ (x.scope = "self" => x.mine)
  /\ myPins \subseteq pins /\ \A x \in myPins : x.mine
  /\ dialog # Nil => dialog \in Messages /\ sel \in Channels

SendInv ==
  /\ posted \subseteq Messages /\ strangers \subseteq Messages
  /\ reply # Nil => tool = "sending" /\ reply \in Messages /\ (ChannelOf[reply] = sel \/ moved)
  /\ sent.topic # Nil => ChannelOf[sent.topic] = sent.chan
  /\ sent.reply # Nil => ChannelOf[sent.reply] = sent.chan \/ sent.moved
  /\ export.data # export.name => export.moved

ToolsInv(f) == PlaceInv /\ AskedInv(f) /\ BarInv /\ GateInv /\ PinsInv(f) /\ SendInv

LEMMA Enough ==
  ASSUME NEW f, ToolsInv(f)
  PROVE  ToolsKeepToTheirChannel /\ GateMirrorsServer
<1>1. ToolsKeepToTheirChannel
  <2>1. members.of \in {Nil, sel}
    BY DEF ToolsInv, GateInv
  <2>2. \A t \in bar.topics \cup ({topic} \ {Nil}) : ChannelOf[t] = sel
    BY DEF ToolsInv, BarInv
  <2>3. \A x \in pins : ChannelOf[x.msg] = sel \/ x.msg \in latePins
    BY DEF ToolsInv, PinsInv, InPlace
  <2>4. (\A x \in pins : x.scope = "self" => x.mine) /\ myPins \subseteq pins
    BY DEF ToolsInv, PinsInv
  <2>5. /\ sent.topic # Nil => ChannelOf[sent.topic] = sent.chan
        /\ sent.reply # Nil => ChannelOf[sent.reply] = sent.chan \/ sent.moved
        /\ export.data # export.name => export.moved
    BY DEF ToolsInv, SendInv
  <2> QED
    BY <2>1, <2>2, <2>3, <2>4, <2>5 DEF ToolsKeepToTheirChannel
<1>2. GateMirrorsServer
  <2> SUFFICES ASSUME sel # Nil, members.of = sel, members.me = standing[sel], members.me # Nil
               PROVE  /\ composer /\ (stamp = Exact \/ members.me.until = Nil) =>
                           CanPost(sel, members.me, clock)
                      /\ ~composer /\ (stamp.shift = 0 \/ members.me.until = Nil) =>
                           ~CanPost(sel, members.me, judged)
                      /\ bar.new <=> CanCreateTopic(members.me)
    BY DEF GateMirrorsServer
  <2>1. /\ members.me \in Standings
        /\ composer <=> Composer(sel, members.me, judged)
        /\ bar.new <=> CanManageTopics(members.me)
        /\ clock \in Int /\ judged \in Int /\ judged <= clock
    BY DEF ToolsInv, GateInv
  <2>2. members.me.until \in Int \cup {Nil}
    BY <2>1, ToolsAssumption DEF Standings
  <2>3. ASSUME members.me.until # Nil, stamp = Exact, ~LaterText(members.me.until, judged)
        PROVE  ~(members.me.until > clock) /\ stamp.form # "fraction"
    BY <2>1, <2>2, <2>3 DEF LaterText, Exact
  <2>4. ASSUME members.me.until # Nil, stamp.shift = 0, LaterText(members.me.until, judged)
        PROVE  members.me.until > judged
    <3>1. CASE stamp.form = "space"
      <4>1. PICK t \in Midnights : judged < t /\ t <= members.me.until + stamp.shift
        BY <2>4, <3>1 DEF LaterText
      <4>2. t \in Int
        BY ToolsAssumption
      <4> QED
        BY <2>1, <2>2, <2>4, <4>1, <4>2
    <3>2. CASE stamp.form # "space"
      BY <2>1, <2>2, <2>4, <3>2 DEF LaterText
    <3> QED
      BY <3>1, <3>2
  <2>5. composer /\ (stamp = Exact \/ members.me.until = Nil) => CanPost(sel, members.me, clock)
    BY <2>1, <2>3 DEF Composer, CanPost, RestrictionActive
  <2>6. ~composer /\ (stamp.shift = 0 \/ members.me.until = Nil) =>
          ~CanPost(sel, members.me, judged)
    BY <2>1, <2>4 DEF Composer, CanPost, RestrictionActive
  <2> QED
    BY <2>1, <2>5, <2>6 DEF CanManageTopics, CanCreateTopic
<1> QED
  BY <1>1, <1>2

LEMMA InitTools == ToolsInit => \E f \in [Nat -> Messages] : ToolsInv(f)
<1> SUFFICES ASSUME ToolsInit PROVE \E f \in [Nat -> Messages] : ToolsInv(f)
  OBVIOUS
<1> DEFINE f == [n \in Nat |-> Mine]
<1>1. f \in [Nat -> Messages]
  BY ToolsAssumption
<1>2. PlaceInv
  BY DEF ToolsInit, PlaceInv
<1>3. AskedInv(f)
  <2>1. asked \in Seq({}) /\ \A r \in {} : RequestOK(r, f)
    BY DEF ToolsInit
  <2> QED
    BY <2>1 DEF AskedInv
<1>4. BarInv
  BY DEF ToolsInit, BarInv, NoBar
<1>5. GateInv
  <2>1. Nil \in Standings /\ Admin \in Standings
    BY DEF Standings, Admin
  <2>2. standing \in [Channels -> Standings]
    BY <2>1 DEF ToolsInit
  <2> QED
    BY <2>2 DEF ToolsInit, GateInv, Nobody
<1>6. PinsInv(f)
  <2>1. ASSUME NEW x \in OthersPins PROVE PinOK(x, f)
    <3>0. PICK m \in Messages, s \in {"self", "channel"} :
            x = [id |-> 0, chan |-> ChannelOf[m], msg |-> m, mine |-> FALSE, scope |-> s]
      BY <2>1 DEF OthersPins
    <3>1. /\ x \in [id : {0}, chan : Channels, msg : Messages, mine : {FALSE},
                     scope : {"self", "channel"}]
          /\ ChannelOf[x.msg] = x.chan
      BY <3>0, ToolsAssumption
    <3>2. {0} \subseteq Nat
      OBVIOUS
    <3>3. {FALSE} \subseteq BOOLEAN
      BY Zenon
    <3>4. x \in Pin
      BY <3>1, <3>2, <3>3, Zenon DEF Pin
    <3>5. x.mine = FALSE
      BY <3>1
    <3> QED
      BY <3>1, <3>4, <3>5 DEF PinOK
  <2> QED
    BY <2>1 DEF ToolsInit, PinsInv
<1>7. SendInv
  BY DEF ToolsInit, SendInv
<1> QED
  BY <1>1, <1>2, <1>3, <1>4, <1>5, <1>6, <1>7 DEF ToolsInv

-----------------------------------------------------------------------------
\* What no action of a tool touches.
LEMMA NotByTools ==
  ASSUME Common \/ Posting \/ Sending \/ Pinning \/ Attaching \/ Exporting
  PROVE  UNCHANGED <<tool, dispatcher, sel>> /\ latePins \subseteq latePins'
<1>1. CASE Common
  BY <1>1 DEF Common, ServeRead, ToolFails
<1>2. CASE Posting
  BY <1>2 DEF Posting, NewTopic, ChangeStanding, Tick, ServeNewTopic, MembersAnswered,
              TopicsAnswered, NewTopicAnswered
<1>3. CASE Sending
  BY <1>3 DEF Sending, CancelReply, Send, Relisted, SendAnswered, StartReply,
      SelectTopic
<1>4. CASE Pinning
  BY <1>4 DEF Pinning, PromptPinScope, CancelPin, PinWithScope, Unpin, ServePin, ServeUnpin,
              PinsAnswered, PinAnswered
<1>5. CASE Attaching
  BY <1>5 DEF Attaching, Refresh, Upload, TheirUpload, ServeUpload, ListAnswered,
              LinksAnswered, DocAnswered, UploadAnswered
<1>6. CASE Exporting
  BY <1>6 DEF Exporting, Raw, ExportBoard, RawAnswered
<1> QED
  BY <1>1, <1>2, <1>3, <1>4, <1>5, <1>6

LEMMA NotGate ==
  ASSUME Common \/ Sending \/ Pinning \/ Attaching \/ Exporting
  PROVE  UNCHANGED <<bar, members, composer, judged, standing, clock, stamp>>
<1>1. CASE Common
  BY <1>1 DEF Common, ServeRead, ToolFails
<1>3. CASE Sending
  BY <1>3 DEF Sending, CancelReply, Send, Relisted, SendAnswered, StartReply,
      SelectTopic
<1>4. CASE Pinning
  BY <1>4 DEF Pinning, PromptPinScope, CancelPin, PinWithScope, Unpin, ServePin, ServeUnpin,
              PinsAnswered, PinAnswered
<1>5. CASE Attaching
  BY <1>5 DEF Attaching, Refresh, Upload, TheirUpload, ServeUpload, ListAnswered,
              LinksAnswered, DocAnswered, UploadAnswered
<1>6. CASE Exporting
  BY <1>6 DEF Exporting, Raw, ExportBoard, RawAnswered
<1> QED
  BY <1>1, <1>3, <1>4, <1>5, <1>6

LEMMA NotPins ==
  ASSUME Common \/ Posting \/ Sending \/ Attaching \/ Exporting
  PROVE  UNCHANGED <<pinRows, pins, myPins, dialog>>
<1>1. CASE Common
  BY <1>1 DEF Common, ServeRead, ToolFails
<1>2. CASE Posting
  BY <1>2 DEF Posting, NewTopic, ChangeStanding, Tick, ServeNewTopic, MembersAnswered,
              TopicsAnswered, NewTopicAnswered
<1>3. CASE Sending
  BY <1>3 DEF Sending, CancelReply, Send, Relisted, SendAnswered, StartReply,
      SelectTopic
<1>5. CASE Attaching
  BY <1>5 DEF Attaching, Refresh, Upload, TheirUpload, ServeUpload, ListAnswered,
              LinksAnswered, DocAnswered, UploadAnswered
<1>6. CASE Exporting
  BY <1>6 DEF Exporting, Raw, ExportBoard, RawAnswered
<1> QED
  BY <1>1, <1>2, <1>3, <1>5, <1>6

LEMMA NotSent ==
  ASSUME Common \/ Posting \/ Pinning \/ Attaching \/ Exporting
  PROVE  UNCHANGED <<topic, reply, sent, strangers>>
<1>1. CASE Common
  BY <1>1 DEF Common, ServeRead, ToolFails
<1>2. CASE Posting
  BY <1>2 DEF Posting, NewTopic, ChangeStanding, Tick, ServeNewTopic, MembersAnswered,
              TopicsAnswered, NewTopicAnswered
<1>4. CASE Pinning
  BY <1>4 DEF Pinning, PromptPinScope, CancelPin, PinWithScope, Unpin, ServePin, ServeUnpin,
              PinsAnswered, PinAnswered
<1>5. CASE Attaching
  BY <1>5 DEF Attaching, Refresh, Upload, TheirUpload, ServeUpload, ListAnswered,
              LinksAnswered, DocAnswered, UploadAnswered
<1>6. CASE Exporting
  BY <1>6 DEF Exporting, Raw, ExportBoard, RawAnswered
<1> QED
  BY <1>1, <1>2, <1>4, <1>5, <1>6

LEMMA NotMoved ==
  ASSUME Common \/ Posting \/ Pinning \/ Attaching \/ Raw
  PROVE  moved' = moved
<1>1. CASE Common
  BY <1>1 DEF Common, ServeRead, ToolFails
<1>2. CASE Posting
  BY <1>2 DEF Posting, NewTopic, ChangeStanding, Tick, ServeNewTopic, MembersAnswered,
              TopicsAnswered, NewTopicAnswered
<1>4. CASE Pinning
  BY <1>4 DEF Pinning, PromptPinScope, CancelPin, PinWithScope, Unpin, ServePin, ServeUnpin,
              PinsAnswered, PinAnswered
<1>5. CASE Attaching
  BY <1>5 DEF Attaching, Refresh, Upload, TheirUpload, ServeUpload, ListAnswered,
              LinksAnswered, DocAnswered, UploadAnswered
<1>6. CASE Raw
  BY <1>6 DEF Raw, RawAnswered
<1> QED
  BY <1>1, <1>2, <1>4, <1>5, <1>6

-----------------------------------------------------------------------------
LEMMA AskedOK ==
  ASSUME NEW f, AskedInv(f), NEW i \in DOMAIN asked
  PROVE  RequestOK(asked[i], f)
<1>1. PICK S : asked \in Seq(S) /\ \A r \in S : RequestOK(r, f)
  BY DEF AskedInv
<1>2. asked[i] \in S
  BY <1>1, ElementOfSeq
<1> QED
  BY <1>1, <1>2

LEMMA PlaceKept ==
  ASSUME PlaceInv, ToolsNext
  PROVE  PlaceInv' /\ uses <= uses'
<1>1. uses' \in {uses, uses + 1}
  <2>1. CASE Common
    BY <2>1 DEF Common, ServeRead, ToolFails
  <2>2. CASE Posting
    BY <2>2 DEF Posting, NewTopic, ChangeStanding, Tick, ServeNewTopic, MembersAnswered,
                TopicsAnswered, NewTopicAnswered, Use
  <2>3. CASE Sending
    BY <2>3 DEF Sending, CancelReply, Send, Relisted, SendAnswered, StartReply,
      SelectTopic, Use
  <2>4. CASE Pinning
    BY <2>4 DEF Pinning, PromptPinScope, CancelPin, PinWithScope, Unpin, ServePin, ServeUnpin,
                PinsAnswered, PinAnswered, Use
  <2>5. CASE Attaching
    BY <2>5 DEF Attaching, Refresh, Upload, TheirUpload, ServeUpload, ListAnswered,
                LinksAnswered, DocAnswered, UploadAnswered, Use
  <2>6. CASE Exporting
    BY <2>6 DEF Exporting, Raw, ExportBoard, RawAnswered, Use
  <2>7. CASE Selecting
    BY <2>7 DEF Selecting, SelectChannel
  <2> QED
    BY <2>1, <2>2, <2>3, <2>4, <2>5, <2>6, <2>7, ByTool
<1>2. tool' = tool /\ sel' \in Channels \cup {Nil}
  <2>1. CASE Selecting
    BY <2>1 DEF Selecting, SelectChannel
  <2> QED
    BY <2>1, NotByTools, ByTool DEF PlaceInv
<1> QED
  BY <1>1, <1>2 DEF PlaceInv

\* The topic bar, and the topic that is chosen.
LEMMA BarKept ==
  ASSUME NEW f, ToolsInv(f), ToolsNext
  PROVE  BarInv'
<1>1. CASE Common \/ Pinning \/ Attaching \/ Exporting
  BY <1>1, NotByTools, NotGate, NotSent DEF ToolsInv, BarInv
<1>2. CASE Sending
  <2>1. UNCHANGED <<sel, bar>>
    BY <1>2, NotByTools, NotGate
  <2>2. topic' \in {topic} \cup bar.topics \cup {Nil}
    BY <1>2 DEF Sending, CancelReply, Send, Relisted, SendAnswered, StartReply,
      SelectTopic
  <2> QED
    BY <2>1, <2>2 DEF ToolsInv, BarInv
<1>3. CASE Posting
  <2>0. UNCHANGED <<sel, topic>>
    BY <1>3, NotByTools, NotSent
  <2>1. CASE NewTopic \/ ChangeStanding \/ Tick \/ \E i \in DOMAIN asked : ServeNewTopic(i)
    <3>1. bar' = bar
      BY <2>1 DEF NewTopic, ChangeStanding, Tick, ServeNewTopic
    <3> QED
      BY <2>0, <3>1 DEF ToolsInv, BarInv
  <2>2. ASSUME NEW i \in DOMAIN asked, MembersAnswered(i) PROVE BarInv'
    <3>1. bar' = bar \/ bar' = [bar EXCEPT !.new = CanManageTopics(asked[i].answer)]
      BY <2>2 DEF MembersAnswered
    <3>2. bar'.topics = bar.topics /\ bar' = [topics |-> bar'.topics, new |-> bar'.new]
      BY <3>1 DEF ToolsInv, BarInv
    <3> QED
      BY <2>0, <3>2 DEF ToolsInv, BarInv
  <2>3. ASSUME NEW i \in DOMAIN asked, TopicsAnswered(i) PROVE BarInv'
    <3>1. RequestOK(asked[i], f)
      BY AskedOK DEF ToolsInv
    <3>2. CASE asked[i].chan = sel
      <4>1. bar' = [topics |-> asked[i].answer, new |-> CanManageTopics(members.me)]
        BY <2>3, <3>2 DEF TopicsAnswered
      <4>2. \A t \in asked[i].answer : ChannelOf[t] = sel
        BY <2>3, <3>1, <3>2 DEF TopicsAnswered, Arrived, RequestOK
      <4> QED
        BY <2>0, <4>1, <4>2 DEF ToolsInv, BarInv
    <3>3. CASE asked[i].chan # sel
      BY <2>0, <2>3, <3>3 DEF TopicsAnswered, ToolsInv, BarInv
    <3> QED
      BY <3>2, <3>3
  <2>4. ASSUME NEW i \in DOMAIN asked, NewTopicAnswered(i) PROVE BarInv'
    <3>1. RequestOK(asked[i], f)
      BY AskedOK DEF ToolsInv
    <3>2. CASE asked[i].chan = sel
      <4>1. bar' = [topics |-> bar.topics \cup {asked[i].arg}, new |-> CanManageTopics(members.me)]
        BY <2>4, <3>2 DEF NewTopicAnswered
      <4>2. ChannelOf[asked[i].arg] = sel
        BY <2>4, <3>1, <3>2 DEF NewTopicAnswered, Arrived, RequestOK
      <4> QED
        BY <2>0, <4>1, <4>2 DEF ToolsInv, BarInv
    <3>3. CASE asked[i].chan # sel
      BY <2>0, <2>4, <3>3 DEF NewTopicAnswered, ToolsInv, BarInv
    <3> QED
      BY <3>2, <3>3
  <2> QED
    BY <1>3, <2>1, <2>2, <2>3, <2>4 DEF Posting
<1>4. CASE Selecting
  BY <1>4 DEF Selecting, SelectChannel, BarInv
<1> QED
  BY <1>1, <1>2, <1>3, <1>4, ByTool

\* The rights of the user, and what the panel makes of them.
LEMMA GateKept ==
  ASSUME NEW f, ToolsInv(f), ToolsNext
  PROVE  GateInv'
<1>1. CASE Common \/ Sending \/ Pinning \/ Attaching \/ Exporting
  BY <1>1, NotByTools, NotGate DEF ToolsInv, GateInv, Composer, LaterText, CanManageTopics
<1>2. CASE Posting
  <2>0. UNCHANGED <<sel, dispatcher>>
    BY <1>2, NotByTools
  <2>1. CASE NewTopic \/ \E i \in DOMAIN asked : ServeNewTopic(i)
    BY <2>0, <2>1 DEF NewTopic, ServeNewTopic, ToolsInv, GateInv, Composer, LaterText, CanManageTopics
  <2>2. CASE ChangeStanding
    <3>1. PICK c \in Channels :
             /\ standing[c] # Nil /\ standing[c].status = "active"
             /\ standing' = [standing EXCEPT ![c].status = "muted"]
      BY <2>2 DEF ChangeStanding
    <3>2. standing[c] \in [role : {"member", "admin"}, status : {"active"}, until : {Nil}]
      BY <3>1 DEF ToolsInv, GateInv, Standings
    <3>3. [standing[c] EXCEPT !.status = "muted"]
             \in [role : {"member", "admin"}, status : {"muted"}, until : Untils \cup {Nil}]
      BY <3>2
    <3>4. standing' \in [Channels -> Standings]
      BY <3>1, <3>3 DEF ToolsInv, GateInv, Standings
    <3> QED
      BY <2>0, <2>2, <3>4 DEF ChangeStanding, ToolsInv, GateInv, Composer, LaterText, CanManageTopics
  <2>3. CASE Tick
    BY <2>0, <2>3 DEF Tick, ToolsInv, GateInv, Composer, LaterText, CanManageTopics
  <2>4. ASSUME NEW i \in DOMAIN asked, MembersAnswered(i) PROVE GateInv'
    <3>1. RequestOK(asked[i], f)
      BY AskedOK DEF ToolsInv
    <3>2. UNCHANGED <<standing, clock, stamp>>
      BY <2>4 DEF MembersAnswered
    <3>3. CASE asked[i].chan = sel
      <4>1. /\ members' = [of |-> sel, me |-> asked[i].answer]
            /\ composer' = Composer(sel, asked[i].answer, clock) /\ judged' = clock
            /\ bar' = [bar EXCEPT !.new = CanManageTopics(asked[i].answer)]
        BY <2>4, <3>3 DEF MembersAnswered
      <4>2. asked[i].answer \in Standings
        BY <2>4, <3>1 DEF MembersAnswered, Arrived, RequestOK
      <4>3. bar'.new = CanManageTopics(asked[i].answer)
        BY <4>1 DEF ToolsInv, BarInv
      <4>4. members'.of = sel /\ members'.me = asked[i].answer
        BY <4>1
      <4>5. composer' <=> Composer(sel, asked[i].answer, clock)
        BY <4>1, Zenon
      <4>6. (composer <=> Composer(sel, members.me, judged))'
        BY <2>0, <3>2, <4>1, <4>4, <4>5 DEF Composer, LaterText
      <4>7. bar'.new <=> CanManageTopics(members.me)'
        BY <2>0, <4>3, <4>4, Zenon DEF CanManageTopics
      <4>8. /\ clock' \in Int /\ judged' \in Int /\ judged' <= clock'
            /\ stamp' \in Stamps
        BY <3>2, <4>1 DEF ToolsInv, GateInv
      <4>9. standing' \in [Channels -> Standings]
        BY <3>2 DEF ToolsInv, GateInv
      <4> QED
        BY <4>2, <4>4, <4>6, <4>7, <4>8, <4>9, <2>0 DEF GateInv
    <3>4. CASE asked[i].chan # sel
      <4>1. UNCHANGED <<members, composer, judged, bar>>
        BY <2>4, <3>4 DEF MembersAnswered
      <4> QED
        BY <2>0, <3>2, <4>1 DEF ToolsInv, GateInv, Composer, LaterText, CanManageTopics
    <3> QED
      BY <3>3, <3>4
  <2>5. ASSUME NEW i \in DOMAIN asked, TopicsAnswered(i) \/ NewTopicAnswered(i) PROVE GateInv'
    <3>1. UNCHANGED <<standing, clock, stamp, members, composer, judged>>
      BY <2>5 DEF TopicsAnswered, NewTopicAnswered
    <3>2. bar' = bar \/ bar'.new = CanManageTopics(members.me)
      BY <2>5 DEF TopicsAnswered, NewTopicAnswered
    <3> QED
      BY <2>0, <3>1, <3>2 DEF ToolsInv, GateInv, Composer, LaterText, CanManageTopics
  <2> QED
    BY <1>2, <2>1, <2>2, <2>3, <2>4, <2>5 DEF Posting
<1>3. CASE Selecting
  BY <1>3 DEF Selecting, SelectChannel, ToolsInv, GateInv, Nobody
<1> QED
  BY <1>1, <1>2, <1>3, ByTool

\* What is sent, and the export.
LEMMA SendKept ==
  ASSUME NEW f, ToolsInv(f), ToolsNext
  PROVE  SendInv'
<1>1. posted' \subseteq Messages
  <2>1. CASE Attaching
    <3>1. posted' \subseteq posted \cup {Mine, Theirs}
      <4>1. CASE TheirUpload
        BY <4>1 DEF TheirUpload
      <4>2. CASE \E i \in DOMAIN asked : ServeUpload(i)
        BY <4>2 DEF ServeUpload
      <4>3. CASE ~TheirUpload /\ ~\E i \in DOMAIN asked : ServeUpload(i)
        BY <2>1, <4>3 DEF Attaching, Refresh, Upload, ListAnswered, LinksAnswered, DocAnswered,
          UploadAnswered
      <4> QED
        BY <4>1, <4>2, <4>3
    <3> QED
      BY <3>1, ToolsAssumption DEF ToolsInv, SendInv
  <2>2. CASE Common \/ Posting \/ Sending
    BY <2>2 DEF Common, ServeRead, ToolFails, Posting, NewTopic, ChangeStanding, Tick,
       ServeNewTopic, MembersAnswered, TopicsAnswered, NewTopicAnswered, Sending, CancelReply,
       Send, Relisted, SendAnswered, StartReply, SelectTopic, ToolsInv, SendInv
  <2>3. CASE Pinning
    BY <2>3 DEF Pinning, PromptPinScope, CancelPin, PinWithScope, Unpin, ServePin, ServeUnpin,
       PinsAnswered, PinAnswered, ToolsInv, SendInv
  <2>4. CASE Exporting \/ Selecting
    BY <2>4 DEF Exporting, Raw, ExportBoard, RawAnswered, Selecting, SelectChannel, ToolsInv, SendInv
  <2> QED
    BY <2>1, <2>2, <2>3, <2>4, ByTool
<1>2. CASE Common \/ Posting \/ Pinning \/ Attaching
  <2>0. moved' = moved
    BY <1>2, NotMoved
  <2>1. export' = export
    <3>1. CASE Common \/ Posting
      BY <3>1 DEF Common, ServeRead, ToolFails, Posting, NewTopic, ChangeStanding, Tick,
         ServeNewTopic, MembersAnswered, TopicsAnswered, NewTopicAnswered
    <3>2. CASE Pinning
      BY <3>2 DEF Pinning, PromptPinScope, CancelPin, PinWithScope, Unpin, ServePin, ServeUnpin,
         PinsAnswered, PinAnswered
    <3>3. CASE Attaching
      BY <3>3 DEF Attaching, Refresh, Upload, TheirUpload, ServeUpload, ListAnswered,
         LinksAnswered, DocAnswered, UploadAnswered
    <3> QED
      BY <1>2, <3>1, <3>2, <3>3
  <2> QED
    BY <1>1, <1>2, <2>0, <2>1, NotByTools, NotSent DEF ToolsInv, SendInv
<1>3. CASE Sending
  <2>1. UNCHANGED <<tool, sel>>
    BY <1>3, NotByTools
  <2>2. CASE CancelReply
    BY <1>1, <2>1, <2>2 DEF CancelReply, ToolsInv, SendInv
  <2>3. CASE Send
    <3>1. topic # Nil => ChannelOf[topic] = sel
      BY DEF ToolsInv, BarInv
    <3>2. /\ sent' = [chan |-> sel, topic |-> topic, reply |-> reply, moved |-> moved]
          /\ reply' = Nil
          /\ UNCHANGED <<moved, export, strangers>>
      BY <2>3 DEF Send
    <3> QED
      BY <1>1, <2>1, <3>1, <3>2 DEF ToolsInv, SendInv
  <2>4. ASSUME NEW m \in Messages, StartReply(m) PROVE SendInv'
    <3>1. /\ tool = "sending" /\ (ChannelOf[m] = sel \/ moved') /\ reply' = m
          /\ UNCHANGED <<sent, export, strangers>>
      BY <2>4 DEF StartReply, Use, Listed, In
    <3> QED
      BY <1>1, <2>1, <3>1 DEF ToolsInv, SendInv
  <2>5. CASE \E t \in Topics \cup {Nil} : SelectTopic(t)
    BY <1>1, <2>1, <2>5 DEF SelectTopic, ToolsInv, SendInv
  <2>6. CASE Relisted
    BY <1>1, <2>1, <2>6 DEF Relisted, ToolsInv, SendInv
  <2>7. ASSUME NEW i \in DOMAIN asked, SendAnswered(i) PROVE SendInv'
    <3>1. RequestOK(asked[i], f)
      BY AskedOK DEF ToolsInv
    <3>2. strangers' \subseteq Messages
      BY <2>7, <3>1, ToolsAssumption DEF SendAnswered, Arrived, RequestOK, ToolsInv, SendInv
    <3>3. UNCHANGED <<reply, sent, export, moved>>
      BY <2>7 DEF SendAnswered
    <3> QED
      BY <1>1, <2>1, <3>2, <3>3 DEF ToolsInv, SendInv
  <2> QED
    BY <1>3, <2>2, <2>3, <2>4, <2>5, <2>6, <2>7 DEF Sending
<1>4. CASE Exporting
  <2>0. UNCHANGED <<tool, sel, reply, sent, strangers>> /\ (reply # Nil => tool = "sending")
    BY <1>4, NotByTools, NotSent DEF ToolsInv, SendInv
  <2>1. CASE ExportBoard
    BY <1>1, <2>0, <2>1 DEF ExportBoard, Use, ToolsInv, SendInv
  <2>2. ASSUME NEW i \in DOMAIN asked, RawAnswered(i) PROVE SendInv'
    <3>1. RequestOK(asked[i], f)
      BY AskedOK DEF ToolsInv
    <3>2. \/ export' = export
          \/ asked[i].what = "raw3" /\ export' = [data |-> asked[i].chan, name |-> sel, moved |-> moved]
      BY <2>2 DEF RawAnswered, Arrived
    <3>3. export'.data # export'.name => export'.moved
      BY <3>1, <3>2 DEF RequestOK, ToolsInv, SendInv
    <3> QED
      BY <1>1, <2>0, <2>2, <3>3 DEF RawAnswered, ToolsInv, SendInv
  <2> QED
    BY <1>4, <2>1, <2>2 DEF Exporting, Raw
<1>5. CASE Selecting
  <2>1. PICK c \in Channels : SelectChannel(c)
    BY <1>5 DEF Selecting
  <2>2. /\ moved' = (moved \/ sel \notin {Nil, c}) /\ sel' = c
        /\ strangers' = {} /\ UNCHANGED <<tool, reply, sent, export>>
    BY <2>1 DEF SelectChannel
  <2>3. reply # Nil => ChannelOf[reply] = c \/ moved'
    <3>1. reply # Nil => ChannelOf[reply] \in Channels /\ Nil \notin Channels
      BY ToolsAssumption DEF ToolsInv, SendInv
    <3> QED
      BY <2>2, <3>1 DEF ToolsInv, SendInv
  <2> QED
    BY <1>1, <2>2, <2>3 DEF ToolsInv, SendInv
<1> QED
  BY <1>2, <1>3, <1>4, <1>5, ByTool

-----------------------------------------------------------------------------
\* The requests in flight: what they carry stays right, and so is what is asked.
\* g: as f, for the pins the user has asked for so far.
InFlight == {asked[i] : i \in DOMAIN asked}

Extends(g, f) == \A n \in Nat : n <= uses => g[n] = f[n]

LEMMA PinStays ==
  ASSUME NEW f, NEW g, PlaceInv, PlaceInv', uses <= uses', Extends(g, f),
         latePins \subseteq latePins', NEW x, PinOK(x, f)
  PROVE  PinOK(x, g)'
<1>1. x \in Pin /\ x.id \in Nat
  BY DEF PinOK, Pin
<1>2. x.mine => x.id <= uses' /\ x.msg = g[x.id]
  BY <1>1 DEF PinOK, PlaceInv, Extends
<1> QED
  BY <1>1, <1>2 DEF PinOK

LEMMA RequestsOK ==
  ASSUME NEW f, AskedInv(f)
  PROVE  asked \in Seq(InFlight) /\ \A r \in InFlight : RequestOK(r, f)
<1>1. PICK S : asked \in Seq(S) /\ \A r \in S : RequestOK(r, f)
  BY DEF AskedInv
<1>2. asked \in Seq(InFlight)
  <2>1. /\ Len(asked) \in Nat /\ DOMAIN asked = 1 .. Len(asked)
        /\ asked \in [1 .. Len(asked) -> S]
    BY <1>1, LenProperties
  <2>2. asked \in [1 .. Len(asked) -> InFlight]
    BY <2>1 DEF InFlight
  <2> QED
    BY <2>1, <2>2, IsASeq
<1>3. \A r \in InFlight : r \in S
  BY <1>1, ElementOfSeq DEF InFlight
<1> QED
  BY <1>1, <1>2, <1>3

LEMMA RequestStays ==
  ASSUME NEW f, NEW g, PlaceInv, PlaceInv', uses <= uses', Extends(g, f),
         NEW r, RequestOK(r, f),
         tool' = tool, latePins \subseteq latePins',
         r.what \in {"pin", "repin"} => InPlace(r.arg.msg)',
         r.what \in {"raw1", "raw2", "raw3"} => r.chan = sel' \/ moved'
  PROVE  RequestOK(r, g)'
<1>1. r.what = "pins" /\ r.served => \A x \in r.answer : PinOK(x, g)' /\ x.chan = r.chan
  BY PinStays DEF RequestOK
<1>2. r.what \in {"pin", "repin"} => PinOK(r.arg, f) /\ r.arg.mine
  BY DEF RequestOK
<1>3. r.what \in {"pin", "repin"} => (\A x : x = r.arg => PinOK(x, g)')
  BY <1>2, PinStays
<1> QED
  BY <1>1, <1>2, <1>3 DEF RequestOK

LEMMA AskedFrom ==
  ASSUME NEW g, NEW T, asked' \in Seq(InFlight \cup T),
         \A r \in InFlight : RequestOK(r, g)',
         \A r \in T : RequestOK(r, g)'
  PROVE  AskedInv(g)'
<1> DEFINE S == InFlight \cup T
<1>1. \A r \in S : RequestOK(r, g)'
  OBVIOUS
<1>2. asked' \in Seq(S)
  OBVIOUS
<1> HIDE DEF S
<1>3. \E U : asked' \in Seq(U) /\ \A r \in U : RequestOK(r, g)'
  BY <1>1, <1>2
<1> QED
  BY <1>3 DEF AskedInv

\* As long as the channel is not changed.
Steady ==
  /\ UNCHANGED <<tool, sel>> /\ latePins \subseteq latePins'
  /\ tool = "exporting" => moved' = moved

LEMMA SteadyTools ==
  ASSUME Common \/ Posting \/ Sending \/ Pinning \/ Attaching \/ Raw
  PROVE  Steady
<1>1. tool = "exporting" => moved' = moved
  <2>1. CASE Common \/ Posting \/ Pinning \/ Attaching \/ Raw
    BY <2>1, NotMoved
  <2>2. CASE Sending
    BY <2>2 DEF Sending, CancelReply, Send, Relisted, SendAnswered, StartReply,
      SelectTopic, Use
  <2> QED
    BY <2>1, <2>2
<1> QED
  BY <1>1, NotByTools DEF Steady, Exporting

LEMMA SteadyStays ==
  ASSUME NEW f, NEW g, PlaceInv, PlaceInv', uses <= uses', Extends(g, f), Steady,
         NEW r, RequestOK(r, f)
  PROVE  RequestOK(r, g)'
<1>1. tool' = tool /\ latePins \subseteq latePins'
  BY DEF Steady
<1>2. r.what \in {"pin", "repin"} => InPlace(r.arg.msg)'
  BY DEF RequestOK, Steady, InPlace
<1>3. r.what \in {"raw1", "raw2", "raw3"} => r.chan = sel' \/ moved'
  BY DEF RequestOK, Steady
<1> QED
  BY <1>1, <1>2, <1>3, RequestStays

LEMMA AskedSteady ==
  ASSUME NEW f, NEW g, PlaceInv, PlaceInv', uses <= uses', Extends(g, f), Steady, AskedInv(f),
         NEW T, asked' \in Seq(InFlight \cup T), \A r \in T : RequestOK(r, f)
  PROVE  AskedInv(g)'
<1>1. \A r \in InFlight : RequestOK(r, f)
  BY RequestsOK
<1>2. \A r \in InFlight : RequestOK(r, g)'
  BY <1>1, SteadyStays
<1>3. \A r \in T : RequestOK(r, g)'
  BY SteadyStays
<1> QED
  BY <1>2, <1>3, AskedFrom

\* How requests come and go.
LEMMA OneLess ==
  ASSUME NEW f, AskedInv(f), NEW i \in DOMAIN asked
  PROVE  Rest(i) \in Seq(InFlight)
<1>1. asked \in Seq(InFlight)
  BY RequestsOK
<1>2. RemoveAt(asked, i) \in Seq(InFlight)
  BY <1>1, RestOfSeq
<1> QED
  BY <1>2 DEF Rest

LEMMA WithOne ==
  ASSUME NEW S, NEW s \in Seq(S), NEW r
  PROVE  Append(s, r) \in Seq(S \cup {r}) /\ s \o <<r>> \in Seq(S \cup {r})
<1>1. s \in Seq(S \cup {r}) /\ <<r>> \in Seq(S \cup {r})
  <2>1. s \in [1 .. Len(s) -> S] /\ Len(s) \in Nat
    BY LenProperties
  <2>2. s \in [1 .. Len(s) -> S \cup {r}]
    BY <2>1
  <2>3. s \in Seq(S \cup {r})
    BY <2>1, <2>2, IsASeq
  <2> QED
    BY <2>3
<1>2. r \in S \cup {r}
  OBVIOUS
<1>3. Append(s, r) \in Seq(S \cup {r})
  BY <1>1, <1>2, AppendProperties
<1>4. s \o <<r>> \in Seq(S \cup {r})
  BY <1>1, ConcatProperties
<1> QED
  BY <1>3, <1>4

LEMMA WithOther ==
  ASSUME NEW S, NEW s \in Seq(S), NEW i \in DOMAIN s, NEW r
  PROVE  [s EXCEPT ![i] = r] \in Seq(S \cup {r})
<1>1. s \in [1 .. Len(s) -> S] /\ Len(s) \in Nat /\ DOMAIN s = 1 .. Len(s)
  BY LenProperties
<1>2. [s EXCEPT ![i] = r] \in [1 .. Len(s) -> S \cup {r}]
  BY <1>1
<1> QED
  BY <1>1, <1>2, IsASeq

LEMMA WithMany ==
  ASSUME NEW S, NEW s \in Seq(S), NEW T, NEW t \in Seq(T)
  PROVE  s \o t \in Seq(S \cup T)
<1>1. s \in [1 .. Len(s) -> S] /\ Len(s) \in Nat /\ t \in [1 .. Len(t) -> T] /\ Len(t) \in Nat
  BY LenProperties
<1>2. s \in [1 .. Len(s) -> S \cup T] /\ t \in [1 .. Len(t) -> S \cup T]
  BY <1>1
<1>3. s \in Seq(S \cup T) /\ t \in Seq(S \cup T)
  BY <1>1, <1>2, IsASeq
<1> QED
  BY <1>3, ConcatProperties

\* A request as it is sent; most carry nothing that could be wrong.
LEMMA PlainRequest ==
  ASSUME NEW f, NEW c, NEW a,
         NEW w \in {"topics", "pins", "list", "links", "doc", "message", "document", "link",
                    "unpin"}
  PROVE  RequestOK(ToolRequest(w, c, a), f)
<1> DEFINE r == ToolRequest(w, c, a)
<1>1. r = [x \in Fields |-> r[x]] /\ r.what = w /\ r.served = FALSE
  BY DEF ToolRequest, Fields
<1> HIDE DEF r
<1>2. RequestOK(r, f)
  BY <1>1 DEF RequestOK
<1> QED
  BY <1>2 DEF r

\* The steps by which requests come and go while the channel is not changed.
Context(f, g) ==
  PlaceInv /\ PlaceInv' /\ uses <= uses' /\ Extends(g, f) /\ AskedInv(f) /\ Steady

LEMMA NoneAsked ==
  ASSUME NEW f, NEW g, Context(f, g),
         asked' = asked \/ \E i \in DOMAIN asked : asked' = Rest(i)
  PROVE  AskedInv(g)'
<1>1. asked' \in Seq(InFlight)
  <2>1. CASE asked' = asked
    BY <2>1, RequestsOK DEF Context
  <2>2. ASSUME NEW i \in DOMAIN asked, asked' = Rest(i) PROVE asked' \in Seq(InFlight)
    BY <2>2, OneLess DEF Context
  <2> QED
    BY <2>1, <2>2
<1>2. asked' \in Seq(InFlight \cup {})
  BY <1>1
<1> QED
  BY <1>2, AskedSteady DEF Context

LEMMA OneAsked ==
  ASSUME NEW f, NEW g, Context(f, g), NEW r, RequestOK(r, f),
         Ask(<<r>>) \/ \E i \in DOMAIN asked : asked' = Append(Rest(i), r)
  PROVE  AskedInv(g)'
<1> DEFINE T == {r}
<1>1. asked' \in Seq(InFlight \cup T)
  <2>1. CASE Ask(<<r>>)
    <3>1. asked \in Seq(InFlight)
      BY RequestsOK DEF Context
    <3> QED
      BY <2>1, <3>1, WithOne DEF Ask
  <2>2. ASSUME NEW i \in DOMAIN asked, asked' = Append(Rest(i), r)
        PROVE  asked' \in Seq(InFlight \cup T)
    <3>1. Rest(i) \in Seq(InFlight)
      BY OneLess DEF Context
    <3> QED
      BY <2>2, <3>1, WithOne
  <2> QED
    BY <2>1, <2>2
<1>2. \A x \in T : RequestOK(x, f)
  OBVIOUS
<1> HIDE DEF T
<1> QED
  BY <1>1, <1>2, AskedSteady DEF Context

LEMMA OneServed ==
  ASSUME NEW f, NEW g, Context(f, g), NEW i \in DOMAIN asked, NEW r, RequestOK(r, f),
         asked' = [asked EXCEPT ![i] = r]
  PROVE  AskedInv(g)'
<1>1. asked \in Seq(InFlight)
  BY RequestsOK DEF Context
<1> DEFINE T == {r}
<1>2. asked' \in Seq(InFlight \cup T)
  BY <1>1, WithOther
<1>3. \A x \in T : RequestOK(x, f)
  OBVIOUS
<1> HIDE DEF T
<1> QED
  BY <1>2, <1>3, AskedSteady DEF Context

\* A request that does not read is served.
LEMMA DoneOK ==
  ASSUME NEW f, NEW g, Context(f, g), NEW i \in DOMAIN asked,
         asked[i].what \notin {"topics", "members", "pins"}, Done(i)
  PROVE  AskedInv(g)'
<1> DEFINE r == [asked[i] EXCEPT !.served = TRUE]
<1>1. RequestOK(asked[i], f) /\ asked \in Seq(InFlight)
  BY AskedOK, RequestsOK DEF Context
<1>2. asked' = [asked EXCEPT ![i] = r]
  BY <1>1 DEF Done
<1>3. r = [x \in Fields |-> r[x]] /\ r.what = asked[i].what /\ r.chan = asked[i].chan
      /\ r.arg = asked[i].arg
  BY <1>1 DEF RequestOK, Fields
<1> HIDE DEF r
<1>4. RequestOK(r, f)
  BY <1>1, <1>3 DEF RequestOK
<1> QED
  BY <1>2, <1>4, OneServed

LEMMA FoundOK ==
  ASSUME NEW f, NEW g, Context(f, g), GateInv, PinsInv(f), NEW i \in DOMAIN asked,
         ServeRead(i)
  PROVE  AskedInv(g)'
<1> DEFINE a == Found(asked[i])
           r == [asked[i] EXCEPT !.served = TRUE, !.answer = a]
<1>1. RequestOK(asked[i], f) /\ asked \in Seq(InFlight)
  BY AskedOK, RequestsOK DEF Context
<1>2. /\ asked[i].what = "topics" => \A t \in a : ChannelOf[t] = asked[i].chan
      /\ asked[i].what = "members" => a \in Standings
      /\ asked[i].what = "pins" => \A x \in a : PinOK(x, f) /\ x.chan = asked[i].chan
  BY <1>1 DEF Found, RequestOK, GateInv, PinsInv
<1> HIDE DEF a
<1>3. asked' = [asked EXCEPT ![i] = r]
  BY <1>1 DEF ServeRead, a
<1>4. /\ r = [x \in Fields |-> r[x]] /\ r.what = asked[i].what /\ r.chan = asked[i].chan
      /\ r.arg = asked[i].arg /\ r.answer = a
  BY <1>1 DEF RequestOK, Fields
<1> HIDE DEF r
<1>5. RequestOK(r, f)
  BY <1>1, <1>2, <1>4 DEF RequestOK
<1> QED
  BY <1>3, <1>5, OneServed

LEMMA ListedOK ==
  ASSUME NEW f, NEW g, Context(f, g), NEW i \in DOMAIN asked, ListAnswered(i)
  PROVE  AskedInv(g)'
<1>1. CASE asked' = Rest(i)
  BY <1>1, NoneAsked
<1>2. CASE asked' # Rest(i)
  <2> DEFINE new == (asked[i].answer \cap {Mine, Theirs}) \ fetched
             T   == {ToolRequest("links", Nil, m) : m \in new}
  <2>1. asked' = Rest(i) \o SetToSeq(T)
    BY <1>2 DEF ListAnswered, FetchAttachments
  <2>2. IsFiniteSet(T)
    <3> DEFINE mine   == ToolRequest("links", Nil, Mine)
               theirs == ToolRequest("links", Nil, Theirs)
    <3>1. T \subseteq {mine} \cup {theirs}
      OBVIOUS
    <3> HIDE DEF T, mine, theirs
    <3>2. IsFiniteSet({mine} \cup {theirs})
      BY FS_Singleton, FS_AddElement
    <3> QED
      BY <3>1, <3>2, FS_Subset
  <2>3. \A r \in T : RequestOK(r, f)
    <3> SUFFICES ASSUME NEW m \in new PROVE RequestOK(ToolRequest("links", Nil, m), f)
      OBVIOUS
    <3> QED
      BY PlainRequest
  <2> HIDE DEF T
  <2>4. Rest(i) \in Seq(InFlight)
    BY OneLess DEF Context
  <2>5. asked' \in Seq(InFlight \cup T)
    BY <2>1, <2>2, <2>4, SetToSeqOfSet, WithMany
  <2> QED
    BY <2>3, <2>5, AskedSteady DEF Context
<1> QED
  BY <1>1, <1>2

\* The user's pin: g knows its message.
LEMMA PinAsked ==
  ASSUME NEW f, NEW g, Context(f, g), PinsInv(f), NEW s \in {"self", "channel"},
         PinWithScope(s), g[uses + 1] = dialog
  PROVE  AskedInv(g)'
<1>1. /\ dialog \in Messages /\ sel \in Channels /\ uses \in Nat /\ uses' = uses + 1
      /\ latePins' = IF ChannelOf[dialog] = sel THEN latePins ELSE latePins \cup {dialog}
  BY DEF PinWithScope, PinsInv, Context, PlaceInv
<1>2. sel' = sel /\ \A m : m = dialog => ChannelOf[m] = sel \/ m \in latePins'
  BY <1>1 DEF Context, Steady
<1>3. \A r \in InFlight : RequestOK(r, f)
  BY RequestsOK DEF Context
<1>4. \A r \in InFlight : RequestOK(r, g)'
  BY <1>3, SteadyStays DEF Context
<1>5. CASE ~\E x \in myPins : x.msg = dialog
  <2> SUFFICES ASSUME NEW pin, pin = [id |-> uses + 1, chan |-> sel, msg |-> dialog,
                                      mine |-> TRUE, scope |-> s],
                      NEW r, r = ToolRequest("pin", sel, pin)
               PROVE  AskedInv(g)'
    OBVIOUS
  <2> DEFINE T == {r}
  <2>1. Ask(<<r>>)
    BY <1>1, <1>5 DEF PinWithScope
  <2>2. pin \in Pin /\ pin.mine /\ pin.id = uses' /\ pin.msg = dialog /\ pin.chan = sel
    BY <1>1 DEF Pin
  <2>3. PinOK(pin, g)' /\ InPlace(pin.msg)'
    BY <1>1, <1>2, <2>2 DEF PinOK, InPlace
  <2>4. r = [x \in Fields |-> r[x]] /\ r.what = "pin" /\ r.arg = pin
    BY DEF ToolRequest, Fields
  <2>5. RequestOK(r, g)'
    BY <2>2, <2>3, <2>4 DEF RequestOK
  <2>6. asked' \in Seq(InFlight \cup T) /\ \A x \in T : RequestOK(x, g)'
    BY <2>1, <2>5, WithOne, RequestsOK DEF Ask, Context
  <2> HIDE DEF T
  <2> QED
    BY <1>4, <2>6, AskedFrom
<1>6. ASSUME NEW x \in myPins, x.msg = dialog,
             Ask(<<ToolRequest("repin", sel, [x EXCEPT !.scope = s])>>)
      PROVE  AskedInv(g)'
  <2> DEFINE pin == [x EXCEPT !.scope = s]
             r   == ToolRequest("repin", sel, pin)
  <2>1. PinOK(x, f) /\ x.mine
    BY <1>6 DEF PinsInv
  <2>2. /\ pin \in Pin /\ pin.mine = x.mine /\ pin.id = x.id /\ pin.msg = x.msg
        /\ pin.chan = x.chan
    BY <2>1 DEF PinOK, Pin
  <2>3. PinOK(pin, f) /\ pin.mine /\ InPlace(pin.msg)
    <3> HIDE DEF pin
    <3> QED
      BY <1>6, <2>1, <2>2 DEF PinsInv, PinOK
  <2>4. Ask(<<r>>)
    BY <1>6
  <2> HIDE DEF pin
  <2>5. r = [y \in Fields |-> r[y]] /\ r.what = "repin" /\ r.arg = pin
    BY DEF ToolRequest, Fields
  <2> HIDE DEF r
  <2>6. RequestOK(r, f)
    BY <2>3, <2>5 DEF RequestOK
  <2> QED
    BY <2>4, <2>6, OneAsked
<1> QED
  BY <1>5, <1>6 DEF PinWithScope

LEMMA NeededReads ==
  ASSUME PlaceInv
  PROVE  Needs[tool] \in Seq({"members", "topics", "pins", "list"})
<1> DEFINE needs == Needs[tool]
           A == {"members", "topics", "pins", "list"}
<1>1. tool \in {"none", "posting", "topics", "sending", "pinning", "attaching", "exporting"}
  BY ToolsAssumption DEF PlaceInv
<1>2. needs \in {<<>>, <<"members">>, <<"topics", "members">>, <<"topics">>, <<"pins">>, <<"list">>}
  BY <1>1 DEF Needs
<1>3. <<>> \in Seq(A) /\ <<"topics", "members">> \in Seq(A)
  OBVIOUS
<1>4. \A w \in A : <<w>> \in Seq(A)
  OBVIOUS
<1> HIDE DEF needs
<1>5. needs \in Seq(A)
  <2>1. {"members", "topics", "pins", "list"} \subseteq A
    OBVIOUS
  <2> HIDE DEF A
  <2> QED
    BY <1>2, <1>3, <1>4, <2>1
<1> QED
  BY <1>5 DEF needs

\* Another channel: the pins on their way are late, and so are the answers of an export.
LEMMA SelectionAsked ==
  ASSUME NEW f, NEW g, PlaceInv, PlaceInv', uses <= uses', Extends(g, f), AskedInv(f),
         NEW c \in Channels, SelectChannel(c)
  PROVE  AskedInv(g)'
<1>1. asked \in Seq(InFlight) /\ \A r \in InFlight : RequestOK(r, f)
  BY RequestsOK
<1>2. /\ tool' = tool /\ sel' = c
      /\ moved' = (moved \/ sel \notin {Nil, c})
      /\ latePins' = latePins \cup {asked[i].arg.msg : i \in PinsAsked}
  BY DEF SelectChannel
<1>3. \A r \in InFlight : RequestOK(r, g)'
  <2> SUFFICES ASSUME NEW r \in InFlight PROVE RequestOK(r, g)'
    OBVIOUS
  <2>1. RequestOK(r, f)
    BY <1>1
  <2>2. r.what \in {"pin", "repin"} => InPlace(r.arg.msg)'
    BY <1>2 DEF InFlight, PinsAsked, InPlace
  <2>3. r.what \in {"raw1", "raw2", "raw3"} => r.chan = sel' \/ moved'
    BY <1>2, <2>1, ToolsAssumption DEF RequestOK
  <2> QED
    BY <1>2, <2>1, <2>2, <2>3, RequestStays
<1> DEFINE needs == Needs[tool]
           T     == {ToolRequest(needs[i], c, Nil) : i \in DOMAIN needs}
<1>4. needs \in Seq({"members", "topics", "pins", "list"})
  BY NeededReads
<1>5. asked' \in Seq(InFlight \cup T)
  <2> DEFINE t == [i \in DOMAIN needs |-> ToolRequest(needs[i], c, Nil)]
  <2>1. asked' = asked \o t
    BY DEF SelectChannel, Ask
  <2>2. t \in Seq(T)
    <3>1. Len(needs) \in Nat /\ DOMAIN needs = 1 .. Len(needs)
      BY <1>4, LenProperties
    <3>2. t \in [1 .. Len(needs) -> T]
      BY <3>1
    <3> QED
      BY <3>1, <3>2, IsASeq
  <2> HIDE DEF t, T
  <2> QED
    BY <1>1, <2>1, <2>2, WithMany
<1>6. \A r \in T : RequestOK(r, g)'
  <2> SUFFICES ASSUME NEW w \in {"members", "topics", "pins", "list"},
                      NEW r, r = ToolRequest(w, c, Nil)
               PROVE  RequestOK(r, g)'
    BY <1>4, ElementOfSeq
  <2>1. r = [x \in Fields |-> r[x]] /\ r.what = w /\ r.chan = c /\ r.served = FALSE
    BY DEF ToolRequest, Fields
  <2> QED
    BY <2>1 DEF RequestOK
<1> HIDE DEF T
<1> QED
  BY <1>3, <1>5, <1>6, AskedFrom

\* An export begins, maybe one of a new row of exports.
LEMMA ExportAsked ==
  ASSUME NEW f, NEW g, PlaceInv, PlaceInv', uses <= uses', Extends(g, f), AskedInv(f),
         ExportBoard
  PROVE  AskedInv(g)'
<1> SUFFICES ASSUME NEW r, r = ToolRequest("raw1", sel, Nil) PROVE AskedInv(g)'
  OBVIOUS
<1>1. asked \in Seq(InFlight) /\ \A x \in InFlight : RequestOK(x, f)
  BY RequestsOK
<1>2. /\ tool = "exporting" /\ tool' = tool /\ sel \in Channels /\ Ask(<<r>>)
      /\ UNCHANGED <<sel, latePins>>
  BY DEF ExportBoard, Use, PlaceInv
<1>3. r = [x \in Fields |-> r[x]] /\ r.what = "raw1" /\ r.chan = sel
  BY DEF ToolRequest, Fields
<1>4. ASSUME NEW x \in InFlight PROVE RequestOK(x, g)'
  <2>1. asked # <<>>
    BY <1>4 DEF InFlight
  <2>2. moved => moved'
    BY <2>1, Zenon DEF ExportBoard
  <2>3. /\ x.what \in {"pin", "repin"} => InPlace(x.arg.msg)'
        /\ x.what \in {"raw1", "raw2", "raw3"} => x.chan = sel' \/ moved'
    BY <1>1, <1>2, <1>4, <2>2 DEF RequestOK, InPlace
  <2> QED
    BY <1>1, <1>2, <1>4, <2>3, RequestStays
<1>5. RequestOK(r, g)'
  BY <1>2, <1>3 DEF RequestOK
<1>6. asked' \in Seq(InFlight \cup {r})
  BY <1>1, <1>2, WithOne DEF Ask
<1> DEFINE T == {r}
<1>7. asked' \in Seq(InFlight \cup T) /\ \A x \in T : RequestOK(x, g)'
  BY <1>5, <1>6
<1> HIDE DEF T
<1> QED
  BY <1>4, <1>7, AskedFrom

LEMMA AskedKept ==
  ASSUME NEW f, NEW g, ToolsInv(f), ToolsNext, Extends(g, f),
         (\E s \in {"self", "channel"} : PinWithScope(s)) => g[uses + 1] = dialog
  PROVE  AskedInv(g)'
<1>1. PlaceInv /\ PlaceInv' /\ uses <= uses' /\ AskedInv(f) /\ GateInv /\ PinsInv(f)
  BY PlaceKept DEF ToolsInv
<1>2. ASSUME NEW i \in DOMAIN asked PROVE RequestOK(asked[i], f)
  BY <1>1, <1>2, AskedOK
<1>3. CASE Common
  <2>1. Context(f, g)
    BY <1>1, <1>3, SteadyTools DEF Context
  <2> QED
    BY <1>1, <1>3, <2>1, FoundOK, NoneAsked DEF Common, ToolFails
<1>4. CASE Posting
  <2>1. Context(f, g)
    BY <1>1, <1>4, SteadyTools DEF Context
  <2>2. CASE NewTopic
    <3>1. PICK t \in Topics : ChannelOf[t] = sel /\ Ask(<<ToolRequest("newTopic", sel, t)>>)
      BY <2>2 DEF NewTopic
    <3> DEFINE r == ToolRequest("newTopic", sel, t)
    <3>2. r = [x \in Fields |-> r[x]] /\ r.what = "newTopic" /\ r.chan = sel /\ r.arg = t
      BY DEF ToolRequest, Fields
    <3>3. Ask(<<r>>)
      BY <3>1
    <3> HIDE DEF r
    <3>4. RequestOK(r, f)
      BY <3>1, <3>2 DEF RequestOK
    <3> QED
      BY <2>1, <3>3, <3>4, OneAsked
  <2>3. CASE ChangeStanding \/ Tick
    BY <2>1, <2>3, NoneAsked DEF ChangeStanding, Tick
  <2>4. ASSUME NEW i \in DOMAIN asked, ServeNewTopic(i) PROVE AskedInv(g)'
    BY <2>1, <2>4, DoneOK DEF ServeNewTopic
  <2>5. ASSUME NEW i \in DOMAIN asked,
               MembersAnswered(i) \/ TopicsAnswered(i) \/ NewTopicAnswered(i)
        PROVE  AskedInv(g)'
    BY <2>1, <2>5, NoneAsked DEF MembersAnswered, TopicsAnswered, NewTopicAnswered
  <2> QED
    BY <1>4, <2>2, <2>3, <2>4, <2>5 DEF Posting
<1>5. CASE Sending
  <2>1. Context(f, g)
    BY <1>1, <1>5, SteadyTools DEF Context
  <2>2. CASE Ask(<<ToolRequest("send", sel, Mine)>>)
    <3> DEFINE r == ToolRequest("send", sel, Mine)
    <3>1. r = [x \in Fields |-> r[x]] /\ r.what = "send" /\ r.arg = Mine /\ Ask(<<r>>)
      BY <2>2 DEF ToolRequest, Fields
    <3> HIDE DEF r
    <3>2. RequestOK(r, f)
      BY <3>1 DEF RequestOK
    <3> QED
      BY <2>1, <3>1, <3>2, OneAsked
  <2>3. CASE asked' = asked \/ \E i \in DOMAIN asked : asked' = Rest(i)
    BY <2>1, <2>3, NoneAsked
  <2> QED
    BY <1>5, <2>2, <2>3 DEF Sending, CancelReply, Send, Relisted, SendAnswered, StartReply,
      SelectTopic
<1>6. CASE Pinning
  <2>1. Context(f, g)
    BY <1>1, <1>6, SteadyTools DEF Context
  <2>2. CASE CancelPin \/ \E m \in Messages : PromptPinScope(m)
    BY <2>1, <2>2, NoneAsked DEF CancelPin, PromptPinScope
  <2>3. CASE \E s \in {"self", "channel"} : PinWithScope(s)
    BY <1>1, <2>1, <2>3, PinAsked
  <2>4. ASSUME NEW x, Unpin(x) PROVE AskedInv(g)'
    <3> DEFINE r == ToolRequest("unpin", sel, x)
    <3>1. RequestOK(r, f) /\ Ask(<<r>>)
      BY <2>4, PlainRequest DEF Unpin
    <3> HIDE DEF r
    <3> QED
      BY <2>1, <3>1, OneAsked
  <2>5. ASSUME NEW i \in DOMAIN asked, ServePin(i) PROVE AskedInv(g)'
    BY <2>1, <2>5, DoneOK DEF ServePin
  <2>6. ASSUME NEW i \in DOMAIN asked, ServeUnpin(i) \/ PinsAnswered(i) \/ PinAnswered(i)
        PROVE  AskedInv(g)'
    BY <2>1, <2>6, NoneAsked DEF ServeUnpin, PinsAnswered, PinAnswered
  <2> QED
    BY <1>6, <2>2, <2>3, <2>4, <2>5, <2>6 DEF Pinning
<1>7. CASE Attaching
  <2>1. Context(f, g)
    BY <1>1, <1>7, SteadyTools DEF Context
  <2>2. ASSUME NEW w \in {"list", "message"}, NEW a, Ask(<<ToolRequest(w, sel, a)>>)
        PROVE  AskedInv(g)'
    <3> DEFINE r == ToolRequest(w, sel, a)
    <3>1. RequestOK(r, f) /\ Ask(<<r>>)
      BY <2>2, PlainRequest
    <3> HIDE DEF r
    <3> QED
      BY <2>1, <3>1, OneAsked
  <2>3. ASSUME NEW i \in DOMAIN asked, NEW w \in {"doc", "document", "link"}, NEW a,
               asked' = Append(Rest(i), ToolRequest(w, Nil, a))
        PROVE  AskedInv(g)'
    <3> DEFINE r == ToolRequest(w, Nil, a)
    <3>1. RequestOK(r, f) /\ asked' = Append(Rest(i), r)
      BY <2>3, PlainRequest
    <3> HIDE DEF r
    <3> QED
      BY <2>1, <3>1, OneAsked
  <2>4. CASE Refresh \/ Upload
    BY <2>2, <2>4 DEF Refresh, Upload
  <2>5. CASE TheirUpload
    BY <2>1, <2>5, NoneAsked DEF TheirUpload
  <2>6. ASSUME NEW i \in DOMAIN asked, ServeUpload(i) PROVE AskedInv(g)'
    BY <2>1, <2>6, DoneOK, NoneAsked DEF ServeUpload
  <2>7. ASSUME NEW i \in DOMAIN asked, ListAnswered(i) PROVE AskedInv(g)'
    BY <2>1, <2>7, ListedOK
  <2>8. ASSUME NEW i \in DOMAIN asked, LinksAnswered(i) \/ DocAnswered(i) \/ UploadAnswered(i)
        PROVE  AskedInv(g)'
    BY <2>1, <2>3, <2>8, NoneAsked DEF LinksAnswered, DocAnswered, UploadAnswered
  <2> QED
    BY <1>7, <2>4, <2>5, <2>6, <2>7, <2>8 DEF Attaching
<1>10. CASE ExportBoard
  BY <1>1, <1>10, ExportAsked
<1>8. CASE Raw
  <2>1. Context(f, g)
    BY <1>1, <1>8, SteadyTools DEF Context
  <2>3. ASSUME NEW i \in DOMAIN asked, NEW w \in {"raw2", "raw3"},
               asked[i].what \in {"raw1", "raw2"},
               asked' = Append(Rest(i), ToolRequest(w, asked[i].chan, Nil))
        PROVE  AskedInv(g)'
    <3> DEFINE r == ToolRequest(w, asked[i].chan, Nil)
    <3>1. r = [x \in Fields |-> r[x]] /\ r.what = w /\ r.chan = asked[i].chan
      BY DEF ToolRequest, Fields
    <3>2. asked' = Append(Rest(i), r)
      BY <2>3
    <3> HIDE DEF r
    <3>3. RequestOK(r, f)
      BY <1>2, <2>3, <3>1 DEF RequestOK
    <3> QED
      BY <2>1, <3>2, <3>3, OneAsked
  <2>4. ASSUME NEW i \in DOMAIN asked, RawAnswered(i) PROVE AskedInv(g)'
    BY <2>1, <2>3, <2>4, NoneAsked DEF RawAnswered, Arrived
  <2> QED
    BY <1>8, <2>4 DEF Raw
<1>9. CASE Selecting
  BY <1>1, <1>9, SelectionAsked DEF Selecting
<1> QED
  BY <1>3, <1>4, <1>5, <1>6, <1>7, <1>8, <1>9, <1>10, ByTool DEF Exporting

\* The pins, in the database and in the panel.  The strip keeps what marks a message,
\* since pins with one id have one message.
LEMMA PinsSteady ==
  ASSUME NEW f, NEW g, Context(f, g), PinsInv(f), UNCHANGED <<pins, myPins>>,
         \A x \in pinRows' : x \in pinRows \/ PinOK(x, f),
         dialog' \in {dialog, Nil} \/ (dialog' \in Messages /\ sel \in Channels)
  PROVE  PinsInv(g)'
<1>1. /\ PlaceInv /\ PlaceInv' /\ uses <= uses' /\ Extends(g, f)
      /\ sel' = sel /\ latePins \subseteq latePins'
  BY DEF Context, Steady
<1>2. \A x \in pinRows' : PinOK(x, g)'
  BY <1>1, PinStays DEF PinsInv
<1>3. \A x \in pins : PinOK(x, g)' /\ InPlace(x.msg)' /\ (x.scope = "self" => x.mine)
  BY <1>1, PinStays DEF PinsInv, InPlace
<1>4. dialog' # Nil => dialog' \in Messages /\ sel' \in Channels
  BY <1>1 DEF PinsInv
<1>5. myPins \subseteq pins /\ \A x \in myPins : x.mine
  BY DEF PinsInv
<1> QED
  BY <1>2, <1>3, <1>4, <1>5 DEF PinsInv

\* A new strip, of pins that are right.
LEMMA PinsDrawn ==
  ASSUME NEW f, NEW g, Context(f, g), PinsInv(f), UNCHANGED <<pinRows, dialog>>,
         \A x \in pins' : PinOK(x, f) /\ InPlace(x.msg) /\ (x.scope = "self" => x.mine),
         myPins' \subseteq pins', \A x \in myPins' : x.mine
  PROVE  PinsInv(g)'
<1>1. /\ PlaceInv /\ PlaceInv' /\ uses <= uses' /\ Extends(g, f)
      /\ sel' = sel /\ latePins \subseteq latePins'
  BY DEF Context, Steady
<1>2. \A x \in pinRows : PinOK(x, g)'
  BY <1>1, PinStays DEF PinsInv
<1>3. \A x \in pins' : PinOK(x, g)' /\ InPlace(x.msg)'
  BY <1>1, PinStays DEF InPlace
<1>4. dialog # Nil => dialog \in Messages /\ sel \in Channels
  BY DEF PinsInv
<1> QED
  BY <1>1, <1>2, <1>3, <1>4 DEF PinsInv

LEMMA OwnPins ==
  ASSUME NEW f, PinsInv(f), NEW a, PinOK(a, f), a.mine, NEW y \in myPins, y.id = a.id
  PROVE  y.msg = a.msg
BY DEF PinsInv, PinOK

LEMMA PinsKept ==
  ASSUME NEW f, NEW g, ToolsInv(f), ToolsNext, Extends(g, f)
  PROVE  PinsInv(g)'
<1>1. PlaceInv /\ PlaceInv' /\ uses <= uses' /\ AskedInv(f) /\ PinsInv(f)
  BY PlaceKept DEF ToolsInv
<1>2. ASSUME NEW i \in DOMAIN asked PROVE RequestOK(asked[i], f)
  BY <1>1, <1>2, AskedOK
<1>3. CASE Common \/ Posting \/ Sending \/ Attaching \/ Raw
  <2>1. Context(f, g)
    BY <1>1, <1>3, SteadyTools DEF Context
  <2>2. UNCHANGED <<pinRows, pins, myPins, dialog>>
    BY <1>3, NotPins DEF Exporting
  <2> QED
    BY <1>1, <2>1, <2>2, PinsSteady
<1>4. CASE Pinning
  <2>1. Context(f, g)
    BY <1>1, <1>4, SteadyTools DEF Context
  <2>2. ASSUME NEW m \in Messages, PromptPinScope(m) PROVE PinsInv(g)'
    <3>1. sel \in Channels
      BY <1>1, <2>2 DEF PromptPinScope, PlaceInv
    <3> QED
      BY <1>1, <2>1, <2>2, <3>1, PinsSteady DEF PromptPinScope
  <2>3. CASE CancelPin \/ \E s \in {"self", "channel"} : PinWithScope(s)
    BY <1>1, <2>1, <2>3, PinsSteady DEF CancelPin, PinWithScope
  <2>4. ASSUME NEW x \in pins \cup myPins, Unpin(x) PROVE PinsInv(g)'
    <3>1. /\ pins' = {y \in pins : ~y.mine \/ y.id # x.id}
          /\ myPins' = {y \in myPins : y.msg # x.msg}
          /\ UNCHANGED <<pinRows, dialog>> /\ x \in myPins \cup {y \in pins : y.mine}
      BY <2>4 DEF Unpin
    <3>2. PinOK(x, f) /\ x.mine
      BY <1>1, <3>1 DEF PinsInv
    <3>3. myPins' \subseteq pins' /\ \A y \in myPins' : y.mine
      BY <1>1, <3>1, <3>2, OwnPins DEF PinsInv
    <3>4. \A y \in pins' : PinOK(y, f) /\ InPlace(y.msg) /\ (y.scope = "self" => y.mine)
      BY <1>1, <3>1 DEF PinsInv
    <3> QED
      BY <1>1, <2>1, <3>1, <3>3, <3>4, PinsDrawn
  <2>5. ASSUME NEW i \in DOMAIN asked, ServePin(i) \/ ServeUnpin(i) PROVE PinsInv(g)'
    <3>1. \A x \in pinRows' :
            x \in pinRows \/ (x = asked[i].arg /\ asked[i].what \in {"pin", "repin"})
      BY <2>5 DEF ServePin, ServeUnpin
    <3>2. \A x \in pinRows' : x \in pinRows \/ PinOK(x, f)
      BY <1>2, <3>1 DEF RequestOK
    <3>3. UNCHANGED <<pins, myPins, dialog>>
      BY <2>5 DEF ServePin, ServeUnpin
    <3> QED
      BY <1>1, <2>1, <3>2, <3>3, PinsSteady
  <2>6. ASSUME NEW i \in DOMAIN asked, PinsAnswered(i) PROVE PinsInv(g)'
    <3>1. CASE asked[i].chan = sel
      <4>1. /\ pins' = {x \in asked[i].answer : x.scope # "self" \/ x.mine}
            /\ myPins' = {x \in asked[i].answer : x.mine}
            /\ UNCHANGED <<pinRows, dialog>>
        BY <2>6, <3>1 DEF PinsAnswered
      <4>2. \A x \in asked[i].answer : PinOK(x, f) /\ InPlace(x.msg)
        BY <1>2, <2>6, <3>1 DEF PinsAnswered, Arrived, RequestOK, InPlace, PinOK
      <4>3. \A x \in pins' : PinOK(x, f) /\ InPlace(x.msg) /\ (x.scope = "self" => x.mine)
        BY <4>1, <4>2
      <4>4. myPins' \subseteq pins' /\ \A x \in myPins' : x.mine
        BY <4>1
      <4> QED
        BY <1>1, <2>1, <4>1, <4>3, <4>4, PinsDrawn
    <3>2. CASE asked[i].chan # sel
      <4>1. UNCHANGED <<pinRows, pins, myPins, dialog>>
        BY <2>6, <3>2 DEF PinsAnswered
      <4> QED
        BY <1>1, <2>1, <4>1, PinsSteady
    <3> QED
      BY <3>1, <3>2
  <2>7. ASSUME NEW i \in DOMAIN asked, PinAnswered(i) PROVE PinsInv(g)'
    <3> DEFINE a == asked[i].arg
    <3>1. /\ pins' = {y \in pins : ~y.mine \/ y.id # a.id} \cup {a}
          /\ myPins' = {y \in myPins : y.msg # a.msg} \cup {a}
          /\ UNCHANGED <<pinRows, dialog>>
      BY <2>7 DEF PinAnswered
    <3>2. PinOK(a, f) /\ a.mine /\ InPlace(a.msg)
      BY <1>2, <2>7 DEF PinAnswered, Arrived, RequestOK
    <3> HIDE DEF a
    <3>3. myPins' \subseteq pins' /\ \A y \in myPins' : y.mine
      BY <1>1, <3>1, <3>2, OwnPins DEF PinsInv
    <3>4. \A y \in pins' : PinOK(y, f) /\ InPlace(y.msg) /\ (y.scope = "self" => y.mine)
      BY <1>1, <3>1, <3>2 DEF PinsInv
    <3> QED
      BY <1>1, <2>1, <3>1, <3>3, <3>4, PinsDrawn
  <2> QED
    BY <1>4, <2>2, <2>3, <2>4, <2>5, <2>6, <2>7 DEF Pinning
<1>5. CASE Selecting
  <2>1. /\ pins' = {} /\ myPins' = {} /\ UNCHANGED <<pinRows, dialog>> /\ dialog = Nil
    BY <1>5 DEF Selecting, SelectChannel
  <2>2. latePins \subseteq latePins'
    BY <1>5 DEF Selecting, SelectChannel
  <2>3. \A x \in pinRows : PinOK(x, g)'
    BY <1>1, <2>2, PinStays DEF PinsInv
  <2> QED
    BY <2>1, <2>3 DEF PinsInv
<1>6. CASE ExportBoard
  <2>1. UNCHANGED <<sel, latePins, pinRows, pins, myPins, dialog>>
    BY <1>6 DEF ExportBoard
  <2>2. \A x \in pinRows \cup pins : PinOK(x, g)'
    BY <1>1, <2>1, PinStays DEF PinsInv
  <2> QED
    BY <1>1, <2>1, <2>2 DEF PinsInv, InPlace
<1> QED
  BY <1>3, <1>4, <1>5, <1>6, ByTool DEF Exporting

-----------------------------------------------------------------------------
\* Every step of a tool keeps what its requests and the panel know.
LEMMA ToolsStep ==
  ASSUME NEW f \in [Nat -> Messages], ToolsInv(f), ToolsNext
  PROVE  \E g \in [Nat -> Messages] : ToolsInv(g)'
<1>1. PlaceInv /\ PlaceInv' /\ BarInv' /\ GateInv' /\ SendInv'
  BY PlaceKept, BarKept, GateKept, SendKept DEF ToolsInv
<1>2. ASSUME NEW g \in [Nat -> Messages], Extends(g, f),
             (\E s \in {"self", "channel"} : PinWithScope(s)) => g[uses + 1] = dialog
      PROVE  \E h \in [Nat -> Messages] : ToolsInv(h)'
  <2>1. AskedInv(g)' /\ PinsInv(g)'
    BY <1>2, AskedKept, PinsKept
  <2>2. ToolsInv(g)'
    BY <1>1, <2>1 DEF ToolsInv
  <2> QED
    BY <2>2
<1>3. CASE \E s \in {"self", "channel"} : PinWithScope(s)
  <2>1. dialog \in Messages /\ uses \in Nat
    BY <1>1, <1>3 DEF PinWithScope, ToolsInv, PinsInv, PlaceInv
  <2>2. PICK g : g = [f EXCEPT ![uses + 1] = dialog]
    OBVIOUS
  <2>3. g \in [Nat -> Messages] /\ g[uses + 1] = dialog /\ Extends(g, f)
    BY <2>1, <2>2 DEF Extends
  <2> QED
    BY <1>2, <2>3
<1>4. CASE ~\E s \in {"self", "channel"} : PinWithScope(s)
  <2>1. Extends(f, f)
    BY DEF Extends
  <2> QED
    BY <1>2, <1>4, <2>1
<1> QED
  BY <1>3, <1>4

\* What is unchanged stays so.
LEMMA ToolsIdle ==
  ASSUME NEW f, ToolsInv(f), UNCHANGED toolVars
  PROVE  ToolsInv(f)'
<1>1. /\ UNCHANGED <<tool, uses, sel, asked, dispatcher, latePins, moved>>
      /\ UNCHANGED <<members, composer, judged, bar, topic, standing, clock, stamp>>
      /\ UNCHANGED <<pinRows, pins, myPins, dialog, strangers, reply, sent, export, posted>>
  BY DEF toolVars
<1>2. \A r : RequestOK(r, f) => RequestOK(r, f)'
  BY <1>1 DEF RequestOK, PinOK, InPlace
<1>3. AskedInv(f)'
  BY <1>1, <1>2 DEF ToolsInv, AskedInv
<1>4. PinsInv(f)'
  BY <1>1 DEF ToolsInv, PinsInv, PinOK, InPlace
<1>5. PlaceInv' /\ BarInv' /\ SendInv'
  BY <1>1 DEF ToolsInv, PlaceInv, BarInv, SendInv
<1>6. GateInv'
  BY <1>1 DEF ToolsInv, GateInv, Composer, LaterText, CanManageTopics
<1> QED
  BY <1>3, <1>4, <1>5, <1>6 DEF ToolsInv

IInv == \E f \in [Nat -> Messages] : ToolsInv(f)

LEMMA Always == Spec => []IInv
<1>1. SessionInit => IInv
  BY InitTools DEF SessionInit, IInv
<1>2. IInv /\ [SessionNext]_sessionVars => IInv'
  <2> SUFFICES ASSUME NEW f \in [Nat -> Messages], ToolsInv(f), [SessionNext]_sessionVars
               PROVE  \E g \in [Nat -> Messages] : ToolsInv(g)'
    BY DEF IInv
  <2>1. CASE ToolsNext
    BY <2>1, ToolsStep
  <2>2. CASE UNCHANGED toolVars
    BY <2>2, ToolsIdle
  <2> QED
    BY <2>1, <2>2 DEF SessionNext, sessionVars
<1> QED
  BY <1>1, <1>2, PTL DEF Spec

\* What the conversation shows, what is sent from it and what is exported belong to the
\* selected channel, whatever answers come, in whatever order, and however often each
\* tool is used (CommPanel.cpp, selectChannel and the callbacks of its reads); but for
\* what is done to a message of the user's own that was listed in another channel, and
\* for replies and exports during which the user changed the channel.
THEOREM KeepsToItsChannel == Spec => []ToolsKeepToTheirChannel
<1>1. IInv => ToolsKeepToTheirChannel
  BY Enough DEF IInv
<1> QED
  BY <1>1, Always, PTL

\* The composer and the button for a new topic are there for those whom the server lets
\* post and create topics (CommPanel.cpp, updatePostPermission and canManageTopics; the
\* API's comms_governance), for any channels and any rights in them, any ends of
\* restrictions and any course of time; where a restriction ends, as far as the text of
\* its end, which the panel compares, agrees with the time, which the server compares.
THEOREM MirrorsServer == Spec => []GateMirrorsServer
<1>1. IInv => GateMirrorsServer
  BY Enough DEF IInv
<1> QED
  BY <1>1, Always, PTL

-----------------------------------------------------------------------------
\* The chips of attachments: which reading or upload a request belongs to.

Chip(r) ==
  IF r.what \in {"links", "doc"} THEN <<"reading", r.arg>>
  ELSE IF r.what \in {"message", "document"} THEN <<"upload", Nil>>
  ELSE <<"other", Nil>>

Reading(m) == <<"reading", m>>

Uploading == <<"upload", Nil>>

ChipKinds == {Reading(Mine), Reading(Theirs), Uploading}

Has(s, c) == \E k \in DOMAIN s : Chip(s[k]) = c

Once(s, c) == \A j, k \in DOMAIN s : Chip(s[j]) = c /\ Chip(s[k]) = c => j = k

LEMMA SetToSeqOnce ==
  ASSUME NEW S, IsFiniteSet(S), NEW j \in DOMAIN SetToSeq(S), NEW k \in DOMAIN SetToSeq(S),
         SetToSeq(S)[j] = SetToSeq(S)[k]
  PROVE  j = k
<1>1. Cardinality(S) \in Nat /\ ExistsBijection(1 .. Cardinality(S), S)
  BY FS_CardinalityType
<1>2. \E f \in [1 .. Cardinality(S) -> S] : IsInjective(f)
  BY <1>1 DEF ExistsBijection, Bijection, Injection, IsInjective
<1>3. IsInjective(SetToSeq(S))
  BY <1>2 DEF SetToSeq
<1> QED
  BY <1>3 DEF IsInjective

LEMMA RestOnce ==
  ASSUME NEW S, NEW s \in Seq(S), NEW i \in DOMAIN s, NEW c, Once(s, c)
  PROVE  /\ Once(RemoveAt(s, i), c)
         /\ Has(RemoveAt(s, i), c) => Has(s, c) /\ Chip(s[i]) # c
<1> DEFINE t == RemoveAt(s, i)
<1>1. \A k \in DOMAIN t : \E j \in DOMAIN s \ {i} :
        j = (IF k < i THEN k ELSE k + 1) /\ t[k] = s[j]
  BY RestElements
<1>2. t \in Seq(S)
  BY RestElements
<1> HIDE DEF t
<1>3. \A k \in DOMAIN t : k \in Int
  BY <1>2
<1>4. i \in Int
  OBVIOUS
<1>5. ASSUME NEW k \in DOMAIN t, NEW l \in DOMAIN t, Chip(t[k]) = c, Chip(t[l]) = c PROVE k = l
  <2>1. PICK j \in DOMAIN s \ {i} : j = (IF k < i THEN k ELSE k + 1) /\ t[k] = s[j]
    BY <1>1
  <2>2. PICK n \in DOMAIN s \ {i} : n = (IF l < i THEN l ELSE l + 1) /\ t[l] = s[n]
    BY <1>1
  <2>3. j = n
    BY <1>5, <2>1, <2>2 DEF Once
  <2> QED
    BY <1>3, <1>4, <2>1, <2>2, <2>3
<1>6. ASSUME Has(t, c) PROVE Has(s, c) /\ Chip(s[i]) # c
  <2>1. PICK k \in DOMAIN t : Chip(t[k]) = c
    BY <1>6 DEF Has
  <2>2. PICK j \in DOMAIN s \ {i} : t[k] = s[j]
    BY <1>1
  <2> QED
    BY <2>1, <2>2 DEF Has, Once
<1> QED
  BY <1>5, <1>6 DEF Once, t

LEMMA ConcatOnce ==
  ASSUME NEW S, NEW s \in Seq(S), NEW t \in Seq(S), NEW c, Once(s, c), Once(t, c),
         ~(Has(s, c) /\ Has(t, c))
  PROVE  Once(s \o t, c) /\ (Has(s \o t, c) => Has(s, c) \/ Has(t, c))
<1> DEFINE w == s \o t
<1>1. \A k \in DOMAIN w :
        \/ k \in DOMAIN s /\ w[k] = s[k]
        \/ k - Len(s) \in DOMAIN t /\ w[k] = t[k - Len(s)]
  BY ConcatElements
<1>2. w \in Seq(S) /\ Len(s) \in Nat
  BY ConcatElements
<1> HIDE DEF w
<1>3. \A k \in DOMAIN w : k \in Int
  BY <1>2
<1>4. ASSUME NEW k \in DOMAIN w, NEW l \in DOMAIN w, Chip(w[k]) = c, Chip(w[l]) = c PROVE k = l
  <2>1. CASE Has(s, c)
    <3>1. k \in DOMAIN s /\ w[k] = s[k] /\ l \in DOMAIN s /\ w[l] = s[l]
      BY <1>1, <1>4, <2>1 DEF Has
    <3> QED
      BY <1>4, <3>1 DEF Once
  <2>2. CASE ~Has(s, c)
    <3>1. /\ k - Len(s) \in DOMAIN t /\ w[k] = t[k - Len(s)]
          /\ l - Len(s) \in DOMAIN t /\ w[l] = t[l - Len(s)]
      BY <1>1, <1>4, <2>2 DEF Has
    <3>2. k - Len(s) = l - Len(s)
      BY <1>4, <3>1 DEF Once
    <3> QED
      BY <1>2, <1>3, <3>2
  <2> QED
    BY <2>1, <2>2
<1>5. Has(w, c) => Has(s, c) \/ Has(t, c)
  BY <1>1 DEF Has
<1> QED
  BY <1>4, <1>5 DEF Once, w

LEMMA OneMore ==
  ASSUME NEW S, NEW s \in Seq(S), NEW r
  PROVE  /\ Append(s, r) = s \o <<r>>
         /\ \A k \in DOMAIN (s \o <<r>>) :
              (s \o <<r>>)[k] = r \/ \E j \in DOMAIN s : (s \o <<r>>)[k] = s[j]
         /\ \A c : Once(s, c) /\ (Chip(r) = c => ~Has(s, c)) =>
                     Once(s \o <<r>>, c) /\ (Has(s \o <<r>>, c) => Has(s, c) \/ Chip(r) = c)
<1> DEFINE T == S \cup {r}
           q == <<r>>
<1>1. s \in Seq(T) /\ r \in T
  BY SeqMonotonic
<1> HIDE DEF T
<1>2. q \in Seq(T) /\ DOMAIN q = {1} /\ q[1] = r
  BY <1>1
<1>3. Append(s, r) = s \o q
  BY <1>1, AppendIsConcat
<1> HIDE DEF q
<1>4. \A k \in DOMAIN (s \o q) : (s \o q)[k] = r \/ \E j \in DOMAIN s : (s \o q)[k] = s[j]
  BY <1>1, <1>2, ConcatElements
<1>5. ASSUME NEW c, Once(s, c), Chip(r) = c => ~Has(s, c)
      PROVE  Once(s \o q, c) /\ (Has(s \o q, c) => Has(s, c) \/ Chip(r) = c)
  <2>1. Once(q, c) /\ (Has(q, c) <=> Chip(r) = c)
    BY <1>2 DEF Once, Has
  <2> QED
    BY <1>1, <1>2, <1>5, <2>1, ConcatOnce
<1> QED
  BY <1>3, <1>4, <1>5 DEF q

\* An upload is of the user's message, which is there once it was answered; a list
\* that was read is of messages that are there.
UploadOK(r) ==
  /\ r.what \in {"message", "document"} => r.arg = Mine
  /\ r.what = "document" => Mine \in posted
  /\ r.what = "message" /\ r.served => Mine \in posted
  /\ r.what = "list" /\ r.served => r.answer \subseteq posted

\* Messages are read once they are there, and have no chips before.
MarkInv ==
  /\ docs \in [Messages -> Nat]
  /\ \A m \in {Mine, Theirs} :
       /\ Has(asked, Reading(m)) => m \in fetched
       /\ m \in fetched => m \in posted
       /\ m \notin fetched => docs[m] = 0

\* What is being read, or uploaded, will be one chip more.
RoomInv ==
  /\ docs[Theirs] <= 1 /\ docs[Mine] <= 2
  /\ Has(asked, Reading(Theirs)) => docs[Theirs] = 0
  /\ Has(asked, Reading(Mine)) \/ Has(asked, Uploading) => docs[Mine] <= 1
  /\ Has(asked, Reading(Mine)) /\ Has(asked, Uploading) => docs[Mine] = 0

OnceInv ==
  /\ \A c \in ChipKinds : Once(asked, c)
  /\ \A k \in DOMAIN asked : UploadOK(asked[k])

ChipInv == patient => OnceInv /\ MarkInv /\ RoomInv

LEMMA AskedIs ==
  ASSUME IInv
  PROVE  /\ asked \in Seq(InFlight) /\ PlaceInv
         /\ \A k \in DOMAIN asked : asked[k] = [x \in Fields |-> asked[k][x]]
<1>1. PICK f \in [Nat -> Messages] : ToolsInv(f)
  BY DEF IInv
<1>2. asked \in Seq(InFlight)
  BY <1>1, RequestsOK DEF ToolsInv
<1>3. \A k \in DOMAIN asked : RequestOK(asked[k], f)
  BY <1>1, AskedOK DEF ToolsInv
<1> QED
  BY <1>1, <1>2, <1>3 DEF ToolsInv, RequestOK

LEMMA UploadByUpload ==
  ASSUME \A c \in ChipKinds : Once(asked', c),
         \A k \in DOMAIN asked' : \A r : r = asked'[k] => UploadOK(r)'
  PROVE  OnceInv'
BY DEF OnceInv, Once, UploadOK

\* Some requests end, or go on; nothing is counted.
LEMMA NoChip ==
  ASSUME OnceInv, MarkInv, RoomInv, UNCHANGED <<docs, fetched>>, posted \subseteq posted',
         \A c \in ChipKinds : Once(asked', c) /\ (Has(asked', c) => Has(asked, c)),
         \A k \in DOMAIN asked' : \A r : r = asked'[k] => UploadOK(r)'
  PROVE  ChipInv'
<1>1. OnceInv'
  BY UploadByUpload
<1> DEFINE new == asked'
<1>2. \A c \in ChipKinds : Has(new, c) => Has(asked, c)
  OBVIOUS
<1> HIDE DEF new
<1>3. /\ Has(new, Reading(Mine)) => Has(asked, Reading(Mine))
      /\ Has(new, Reading(Theirs)) => Has(asked, Reading(Theirs))
      /\ Has(new, Uploading) => Has(asked, Uploading)
  BY <1>2 DEF ChipKinds
<1>4. MarkInv'
  BY <1>3 DEF MarkInv, new, Has, Reading
<1>5. RoomInv'
  BY <1>3 DEF RoomInv, new, Has, Reading, Uploading
<1> QED
  BY <1>1, <1>4, <1>5 DEF ChipInv

\* Requests are left as they are.
LEMMA ChipsStand ==
  ASSUME OnceInv, MarkInv, RoomInv, UNCHANGED <<asked, docs, fetched>>, posted \subseteq posted'
  PROVE  ChipInv'
<1>1. \A c \in ChipKinds : Once(asked', c) /\ (Has(asked', c) => Has(asked, c))
  BY DEF OnceInv, Once, Has
<1>2. \A k \in DOMAIN asked' : \A r : r = asked'[k] => UploadOK(r)'
  BY DEF OnceInv, UploadOK
<1> QED
  BY <1>1, <1>2, NoChip

\* A request is served.
LEMMA ChipServed ==
  ASSUME IInv, OnceInv, MarkInv, RoomInv, NEW i \in DOMAIN asked, NEW r,
         asked' = [asked EXCEPT ![i] = r],
         r.what = asked[i].what, r.arg = asked[i].arg, UploadOK(r)',
         UNCHANGED <<docs, fetched>>, posted \subseteq posted'
  PROVE  ChipInv'
<1> DEFINE new == asked'
<1>1. DOMAIN new = DOMAIN asked /\ new[i] = r /\ \A k \in DOMAIN asked \ {i} : new[k] = asked[k]
  BY AskedIs
<1> HIDE DEF new
<1>2. \A k \in DOMAIN asked : Chip(new[k]) = Chip(asked[k])
  BY <1>1 DEF Chip
<1>3. \A c \in ChipKinds : Once(new, c) /\ (Has(new, c) => Has(asked, c))
  BY <1>1, <1>2 DEF OnceInv, Once, Has
<1>4. \A k \in DOMAIN new : \A x : x = new[k] => UploadOK(x)'
  BY <1>1 DEF OnceInv, UploadOK
<1> QED
  BY <1>3, <1>4, NoChip DEF new

\* A request ends, and another may follow it.
LEMMA ChipEnds ==
  ASSUME IInv, OnceInv, NEW i \in DOMAIN asked
  PROVE  /\ Rest(i) \in Seq(InFlight)
         /\ \A c \in ChipKinds : /\ Once(Rest(i), c)
                                 /\ Has(Rest(i), c) => Has(asked, c) /\ Chip(asked[i]) # c
         /\ \A k \in DOMAIN Rest(i) : UploadOK(Rest(i)[k])
<1>1. asked \in Seq(InFlight)
  BY AskedIs
<1>2. \A c \in ChipKinds : /\ Once(Rest(i), c)
                           /\ Has(Rest(i), c) => Has(asked, c) /\ Chip(asked[i]) # c
  BY <1>1, RestOnce DEF OnceInv, Rest
<1>3. /\ Rest(i) \in Seq(InFlight)
      /\ \A k \in DOMAIN Rest(i) : \E j \in DOMAIN asked : Rest(i)[k] = asked[j]
  BY <1>1, RestElements DEF Rest
<1> QED
  BY <1>2, <1>3 DEF OnceInv

LEMMA ChipEnded ==
  ASSUME IInv, OnceInv, MarkInv, RoomInv, NEW i \in DOMAIN asked, asked' = Rest(i),
         UNCHANGED <<docs, fetched>>, posted \subseteq posted'
  PROVE  ChipInv'
<1>1. \A c \in ChipKinds : Once(Rest(i), c) /\ (Has(Rest(i), c) => Has(asked, c))
  BY ChipEnds
<1>2. \A k \in DOMAIN Rest(i) : \A r : r = Rest(i)[k] => UploadOK(r)'
  BY ChipEnds DEF UploadOK
<1> QED
  BY <1>1, <1>2, NoChip

LEMMA ChipFollowed ==
  ASSUME IInv, OnceInv, MarkInv, RoomInv, NEW i \in DOMAIN asked, NEW r,
         asked' = Append(Rest(i), r),
         Chip(r) = Chip(asked[i]) \/ Chip(r) \notin ChipKinds, UploadOK(r)',
         UNCHANGED <<docs, fetched>>, posted \subseteq posted'
  PROVE  ChipInv'
<1>1. /\ \A c \in ChipKinds :
           Once(Rest(i), c) /\ (Has(Rest(i), c) => Has(asked, c) /\ Chip(asked[i]) # c)
      /\ \A k \in DOMAIN Rest(i) : UploadOK(Rest(i)[k])
      /\ Rest(i) \in Seq(InFlight)
  BY ChipEnds
<1>2. Has(asked, Chip(asked[i]))
  BY DEF Has
<1> DEFINE new == Rest(i) \o <<r>>
<1>3. asked' = new
  BY <1>1, OneMore
<1>4. /\ \A k \in DOMAIN new : new[k] = r \/ \E j \in DOMAIN Rest(i) : new[k] = Rest(i)[j]
      /\ \A c : Once(Rest(i), c) /\ (Chip(r) = c => ~Has(Rest(i), c)) =>
                  Once(new, c) /\ (Has(new, c) => Has(Rest(i), c) \/ Chip(r) = c)
  BY <1>1, OneMore, Zenon
<1> HIDE DEF new
<1>5. \A c \in ChipKinds : Once(new, c) /\ (Has(new, c) => Has(asked, c))
  BY <1>1, <1>2, <1>4
<1>6. \A k \in DOMAIN new : \A x : x = new[k] => UploadOK(x)'
  BY <1>1, <1>4 DEF UploadOK
<1> QED
  BY <1>3, <1>5, <1>6, NoChip

LEMMA ChipAsked ==
  ASSUME IInv, OnceInv, MarkInv, RoomInv, NEW r,
         asked' = asked \o <<r>>, Chip(r) \notin ChipKinds, UploadOK(r)',
         UNCHANGED <<docs, fetched>>, posted \subseteq posted'
  PROVE  ChipInv'
<1> DEFINE new == asked \o <<r>>
<1>1. asked \in Seq(InFlight)
  BY AskedIs
<1>2. /\ \A k \in DOMAIN new : new[k] = r \/ \E j \in DOMAIN asked : new[k] = asked[j]
      /\ \A c : Once(asked, c) /\ (Chip(r) = c => ~Has(asked, c)) =>
                  Once(new, c) /\ (Has(new, c) => Has(asked, c) \/ Chip(r) = c)
  BY <1>1, OneMore, Zenon
<1>3. asked' = new
  OBVIOUS
<1> HIDE DEF new
<1>4. \A c \in ChipKinds : Once(new, c) /\ (Has(new, c) => Has(asked, c))
  BY <1>2 DEF OnceInv
<1>5. \A k \in DOMAIN new : \A x : x = new[k] => UploadOK(x)'
  BY <1>2 DEF OnceInv, UploadOK
<1> QED
  BY <1>3, <1>4, <1>5, NoChip

LEMMA KindsDiffer ==
  /\ Reading(Mine) # Reading(Theirs)
  /\ \A m : Reading(m) # Uploading
  /\ <<"other", Nil>> \notin ChipKinds
  /\ \A m, n : Reading(m) = Reading(n) => m = n
BY ToolsAssumption DEF Reading, Uploading, ChipKinds

\* handleUpload: there is no message yet, and no other upload.
LEMMA ChipUpload ==
  ASSUME IInv, OnceInv, MarkInv, RoomInv, Upload
  PROVE  ChipInv'
<1> DEFINE r == ToolRequest("message", sel, Mine)
           new == asked \o <<r>>
<1>1. /\ Mine \notin posted /\ \A k \in DOMAIN asked : asked[k].arg # Mine
      /\ asked' = new /\ UNCHANGED <<docs, fetched, posted>>
  BY DEF Upload, Ask
<1>2. asked \in Seq(InFlight)
  BY AskedIs
<1>3. Chip(r) = Uploading /\ r.what = "message" /\ r.arg = Mine /\ ~r.served
  BY DEF ToolRequest, Chip, Uploading
<1>4. ~Has(asked, Uploading)
  BY <1>1, KindsDiffer DEF OnceInv, UploadOK, Has, Chip, Uploading
<1>5. Mine \notin fetched /\ docs[Mine] = 0
  BY <1>1 DEF MarkInv
<1> HIDE DEF r
<1>6. /\ \A k \in DOMAIN new : new[k] = r \/ \E j \in DOMAIN asked : new[k] = asked[j]
      /\ \A c : Once(asked, c) /\ (Chip(r) = c => ~Has(asked, c)) =>
                  Once(new, c) /\ (Has(new, c) => Has(asked, c) \/ Chip(r) = c)
  BY <1>2, OneMore, Zenon
<1> HIDE DEF new
<1>7. \A c \in ChipKinds : Once(new, c) /\ (Has(new, c) => Has(asked, c) \/ c = Uploading)
  BY <1>3, <1>4, <1>6 DEF OnceInv
<1>8. OnceInv'
  <2>1. \A k \in DOMAIN new : \A x : x = new[k] => UploadOK(x)'
    BY <1>1, <1>3, <1>6 DEF OnceInv, UploadOK
  <2> QED
    BY <1>1, <1>7, <2>1, UploadByUpload
<1>9. \A m \in {Mine, Theirs} : Has(new, Reading(m)) => Has(asked, Reading(m))
  BY <1>7, KindsDiffer DEF ChipKinds
<1>10. MarkInv'
  BY <1>1, <1>9 DEF MarkInv, Has, Reading
<1>11. RoomInv'
  BY <1>1, <1>5, <1>9 DEF RoomInv, Has, Reading, Uploading
<1> QED
  BY <1>8, <1>10, <1>11 DEF ChipInv

\* A document was read.
LEMMA ChipShown ==
  ASSUME IInv, OnceInv, MarkInv, RoomInv, NEW i \in DOMAIN asked, DocAnswered(i)
  PROVE  ChipInv'
<1> DEFINE m == asked[i].arg
<1>1. /\ asked[i].what = "doc" /\ docs' = [docs EXCEPT ![m] = @ + 1]
      /\ asked' = Rest(i) /\ UNCHANGED <<fetched, posted>>
  BY DEF DocAnswered, Arrived
<1>2. Chip(asked[i]) = Reading(m) /\ Has(asked, Reading(m))
  BY <1>1 DEF Chip, Reading, Has
<1> HIDE DEF m
<1>3. /\ \A c \in ChipKinds : /\ Once(Rest(i), c)
                              /\ Has(Rest(i), c) => Has(asked, c) /\ Reading(m) # c
      /\ \A k \in DOMAIN Rest(i) : UploadOK(Rest(i)[k])
  BY <1>2, ChipEnds
<1> DEFINE new == Rest(i)
<1>4. asked' = new
  BY <1>1
<1>5. /\ Has(new, Reading(Mine)) => Has(asked, Reading(Mine)) /\ m # Mine
      /\ Has(new, Reading(Theirs)) => Has(asked, Reading(Theirs)) /\ m # Theirs
      /\ Has(new, Uploading) => Has(asked, Uploading)
  BY <1>3 DEF ChipKinds
<1>6. (\A c \in ChipKinds : Once(new, c)) /\ \A k \in DOMAIN new : UploadOK(new[k])
  BY <1>3
<1> HIDE DEF new
<1>7. OnceInv'
  <2>1. \A k \in DOMAIN new : \A x : x = new[k] => UploadOK(x)'
    BY <1>1, <1>6 DEF UploadOK
  <2> QED
    BY <1>4, <1>6, <2>1, UploadByUpload
<1>8. /\ docs' \in [Messages -> Nat]
      /\ docs'[Mine] = IF m = Mine THEN docs[Mine] + 1 ELSE docs[Mine]
      /\ docs'[Theirs] = IF m = Theirs THEN docs[Theirs] + 1 ELSE docs[Theirs]
      /\ docs[Mine] \in Nat /\ docs[Theirs] \in Nat
  <2>1. docs \in [Messages -> Nat] /\ Mine \in Messages /\ Theirs \in Messages
    BY ToolsAssumption DEF MarkInv
  <2>2. CASE m \in Messages
    BY <1>1, <2>1, <2>2
  <2>3. CASE m \notin Messages
    <3>1. docs' = docs
      BY <1>1, <2>1, <2>3
    <3> QED
      BY <2>1, <2>3, <3>1
  <2> QED
    BY <2>2, <2>3
<1>9. MarkInv'
  <2>1. m = Mine => Mine \in fetched
    BY <1>2 DEF MarkInv
  <2>2. m = Theirs => Theirs \in fetched
    BY <1>2 DEF MarkInv
  <2>3. \A n \in {Mine, Theirs} : Has(asked', Reading(n)) => n \in fetched'
    BY <1>1, <1>4, <1>5 DEF MarkInv
  <2>4. \A n \in {Mine, Theirs} : n \notin fetched' => docs'[n] = 0
    BY <1>1, <1>8, <2>1, <2>2 DEF MarkInv
  <2> QED
    BY <1>1, <1>8, <2>3, <2>4 DEF MarkInv, Has, Reading
<1>10. RoomInv'
  <2>1. docs'[Theirs] <= 1 /\ (Has(new, Reading(Theirs)) => docs'[Theirs] = 0)
    BY <1>2, <1>5, <1>8 DEF RoomInv
  <2>2. m = Mine => docs[Mine] <= 1 /\ (Has(asked, Uploading) => docs[Mine] = 0)
    BY <1>2 DEF RoomInv
  <2>3. /\ docs'[Mine] <= 2
        /\ Has(new, Reading(Mine)) \/ Has(new, Uploading) => docs'[Mine] <= 1
        /\ Has(new, Reading(Mine)) /\ Has(new, Uploading) => docs'[Mine] = 0
    BY <1>5, <1>8, <2>2 DEF RoomInv
  <2> QED
    BY <1>4, <2>1, <2>3 DEF RoomInv, Has, Reading, Uploading
<1> QED
  BY <1>7, <1>9, <1>10 DEF ChipInv

\* The document of the upload was stored.
LEMMA ChipUploaded ==
  ASSUME IInv, OnceInv, MarkInv, RoomInv, NEW i \in DOMAIN asked,
         asked[i].what = "document", asked' = Append(Rest(i), ToolRequest("link", Nil, Mine)),
         docs' = [docs EXCEPT ![Mine] = @ + 1], fetched' = fetched \cup {Mine}, posted' = posted
  PROVE  ChipInv'
<1> DEFINE r == ToolRequest("link", Nil, Mine)
           new == Rest(i) \o <<r>>
<1>1. Chip(asked[i]) = Uploading /\ Has(asked, Uploading)
  BY DEF Chip, Uploading, Has
<1>2. Chip(r) = <<"other", Nil>> /\ UploadOK(r)'
  BY DEF ToolRequest, Chip, UploadOK
<1> HIDE DEF r
<1>3. /\ \A c \in ChipKinds : /\ Once(Rest(i), c)
                              /\ Has(Rest(i), c) => Has(asked, c) /\ Uploading # c
      /\ \A k \in DOMAIN Rest(i) : UploadOK(Rest(i)[k])
      /\ Rest(i) \in Seq(InFlight)
  BY <1>1, ChipEnds
<1>4. asked' = new
  BY <1>3, OneMore DEF r
<1>5. /\ \A k \in DOMAIN new : new[k] = r \/ \E j \in DOMAIN Rest(i) : new[k] = Rest(i)[j]
      /\ \A c : Once(Rest(i), c) /\ (Chip(r) = c => ~Has(Rest(i), c)) =>
                  Once(new, c) /\ (Has(new, c) => Has(Rest(i), c) \/ Chip(r) = c)
  BY <1>3, OneMore, Zenon
<1> HIDE DEF new
<1>6. \A c \in ChipKinds : Once(new, c) /\ (Has(new, c) => Has(asked, c) /\ c # Uploading)
  BY <1>2, <1>3, <1>5, KindsDiffer
<1>7. OnceInv'
  <2>1. \A k \in DOMAIN new : \A x : x = new[k] => UploadOK(x)'
    BY <1>2, <1>3, <1>5 DEF UploadOK
  <2> QED
    BY <1>4, <1>6, <2>1, UploadByUpload
<1>8. /\ Has(new, Reading(Mine)) => Has(asked, Reading(Mine))
      /\ Has(new, Reading(Theirs)) => Has(asked, Reading(Theirs))
      /\ ~Has(new, Uploading)
  BY <1>6 DEF ChipKinds
<1>9. /\ docs' \in [Messages -> Nat]
      /\ docs'[Mine] = docs[Mine] + 1 /\ docs'[Theirs] = docs[Theirs]
      /\ docs[Mine] \in Nat
  BY ToolsAssumption DEF MarkInv
<1>10. Mine \in posted
  BY DEF OnceInv, UploadOK
<1>11. MarkInv'
  BY <1>4, <1>8, <1>9, <1>10 DEF MarkInv, Has, Reading
<1>12. RoomInv'
  <2>1. docs[Mine] <= 1 /\ (Has(asked, Reading(Mine)) => docs[Mine] = 0)
    BY <1>1 DEF RoomInv
  <2>2. docs'[Mine] <= 2 /\ (Has(new, Reading(Mine)) => docs'[Mine] <= 1)
    BY <1>8, <1>9, <2>1
  <2> QED
    BY <1>4, <1>8, <1>9, <2>2 DEF RoomInv, Has, Reading, Uploading
<1> QED
  BY <1>7, <1>11, <1>12 DEF ChipInv

\* fetchAttachmentsFor: messages without a mark are read, each once.
LEMMA ChipListed ==
  ASSUME IInv, OnceInv, MarkInv, RoomInv, NEW i \in DOMAIN asked, ListAnswered(i)
  PROVE  ChipInv'
<1>1. /\ asked[i].what = "list" /\ asked[i].served /\ UNCHANGED <<docs, posted>>
  BY DEF ListAnswered, Arrived
<1>2. CASE asked' = Rest(i) /\ UNCHANGED fetched
  BY <1>1, <1>2, ChipEnded
<1>3. CASE ~(asked' = Rest(i) /\ UNCHANGED fetched)
  <2> DEFINE new == (asked[i].answer \cap {Mine, Theirs}) \ fetched
             T == {ToolRequest("links", Nil, m) : m \in new}
             t == SetToSeq(T)
  <2>1. asked' = Rest(i) \o t /\ fetched' = fetched \cup new
    BY <1>3 DEF ListAnswered, FetchAttachments
  <2>2. IsFiniteSet(T)
    <3> DEFINE mine   == ToolRequest("links", Nil, Mine)
               theirs == ToolRequest("links", Nil, Theirs)
    <3>1. T \subseteq {mine} \cup {theirs}
      OBVIOUS
    <3> HIDE DEF T, mine, theirs
    <3>2. IsFiniteSet({mine} \cup {theirs})
      BY FS_Singleton, FS_AddElement
    <3> QED
      BY <3>1, <3>2, FS_Subset
  <2>3. \A r \in T : \E m \in new :
          r = ToolRequest("links", Nil, m) /\ Chip(r) = Reading(m) /\ r.what = "links"
    BY DEF ToolRequest, Chip, Reading
  <2>4. new \subseteq {Mine, Theirs} /\ new \cap fetched = {} /\ new \subseteq posted
    BY <1>1 DEF OnceInv, UploadOK
  <2> HIDE DEF new, T
  <2>5. t \in Seq(T)
    BY <2>2, SetToSeqOfSet
  <2>6. \A j, k \in DOMAIN t : t[j] = t[k] => j = k
    BY <2>2, SetToSeqOnce
  <2> HIDE DEF t
  <2>7. \A k \in DOMAIN t : t[k] \in T
    BY <2>5, ElementOfSeq
  <2>8. ASSUME NEW c \in ChipKinds
        PROVE  Once(t, c) /\ (Has(t, c) => \E m \in new : c = Reading(m))
    <3>1. ASSUME NEW j \in DOMAIN t, NEW k \in DOMAIN t, Chip(t[j]) = c, Chip(t[k]) = c PROVE j = k
      <4>1. PICK m \in new : t[j] = ToolRequest("links", Nil, m) /\ Chip(t[j]) = Reading(m)
        BY <2>3, <2>7
      <4>2. PICK n \in new : t[k] = ToolRequest("links", Nil, n) /\ Chip(t[k]) = Reading(n)
        BY <2>3, <2>7
      <4>3. m = n
        BY <3>1, <4>1, <4>2, KindsDiffer
      <4> QED
        BY <2>6, <4>1, <4>2, <4>3
    <3>2. Has(t, c) => \E m \in new : c = Reading(m)
      BY <2>3, <2>7 DEF Has
    <3> QED
      BY <3>1, <3>2 DEF Once
  <2>9. /\ \A c \in ChipKinds : /\ Once(Rest(i), c)
                                /\ Has(Rest(i), c) => Has(asked, c)
        /\ \A k \in DOMAIN Rest(i) : UploadOK(Rest(i)[k])
        /\ Rest(i) \in Seq(InFlight)
    BY ChipEnds
  <2>10. \A m \in new : ~Has(asked, Reading(m)) /\ docs[m] = 0
    BY <2>4 DEF MarkInv
  <2> DEFINE all == Rest(i) \o t
  <2>11. Rest(i) \in Seq(InFlight \cup T) /\ t \in Seq(InFlight \cup T)
    BY <2>5, <2>9, SeqMonotonic
  <2>12. \A c \in ChipKinds :
           /\ Once(all, c)
           /\ Has(all, c) => Has(asked, c) \/ \E m \in new : c = Reading(m)
    BY <2>8, <2>9, <2>10, <2>11, ConcatOnce
  <2>13. \A k \in DOMAIN all : (\E j \in DOMAIN Rest(i) : all[k] = Rest(i)[j]) \/ all[k] \in T
    BY <2>7, <2>11, ConcatElements
  <2>14. asked' = all
    BY <2>1
  <2> HIDE DEF all
  <2>15. OnceInv'
    <3>1. \A k \in DOMAIN all : \A x : x = all[k] => UploadOK(x)'
      BY <1>1, <2>3, <2>9, <2>13 DEF UploadOK
    <3> QED
      BY <2>12, <2>14, <3>1, UploadByUpload
  <2>16. /\ \A m \in {Mine, Theirs} : Has(all, Reading(m)) => Has(asked, Reading(m)) \/ m \in new
         /\ Has(all, Uploading) => Has(asked, Uploading)
    BY <2>12, KindsDiffer DEF ChipKinds
  <2>17. MarkInv'
    BY <1>1, <2>1, <2>4, <2>14, <2>16 DEF MarkInv, Has, Reading
  <2>18. RoomInv'
    BY <1>1, <2>10, <2>14, <2>16 DEF RoomInv, Has, Reading, Uploading
  <2> QED
    BY <2>15, <2>17, <2>18 DEF ChipInv
<1> QED
  BY <1>2, <1>3

\* selectChannel, when all was answered.
LEMMA ChipSelected ==
  ASSUME IInv, OnceInv, MarkInv, RoomInv, NEW c \in Channels, SelectChannel(c)
  PROVE  ChipInv'
<1> SUFFICES ASSUME patient' PROVE OnceInv' /\ MarkInv' /\ RoomInv'
  BY DEF ChipInv
<1> DEFINE needs == Needs[tool]
           t == [k \in DOMAIN needs |-> ToolRequest(needs[k], c, Nil)]
<1>1. /\ asked' = asked \o t /\ asked = <<>> /\ posted' = posted
      /\ docs' = [m \in Messages |-> 0] /\ fetched' = {}
  BY DEF SelectChannel, Ask
<1>2. needs \in Seq({"members", "topics", "pins", "list"})
  BY AskedIs, NeededReads
<1> HIDE DEF needs
<1>3. Len(needs) \in Nat /\ DOMAIN needs = 1 .. Len(needs)
  BY <1>2, LenProperties
<1>4. \A k \in DOMAIN t : \A r : r = t[k] => Chip(r) = <<"other", Nil>> /\ UploadOK(r)'
  <2>1. \A k \in DOMAIN needs : needs[k] \in {"members", "topics", "pins", "list"}
    BY <1>2, ElementOfSeq
  <2>2. \A k \in DOMAIN t : t[k] = ToolRequest(needs[k], c, Nil)
    OBVIOUS
  <2> HIDE DEF t
  <2>3. DOMAIN t = DOMAIN needs
    BY DEF t
  <2>4. ASSUME NEW what \in {"members", "topics", "pins", "list"},
               NEW r, r = ToolRequest(what, c, Nil)
        PROVE  Chip(r) = <<"other", Nil>> /\ UploadOK(r)'
    BY <2>4 DEF ToolRequest, Chip, UploadOK
  <2> QED
    BY <2>1, <2>2, <2>3, <2>4
<1>5. asked' = t
  <2> DEFINE T == {t[k] : k \in DOMAIN needs}
  <2>1. t \in [1 .. Len(needs) -> T]
    BY <1>3
  <2> HIDE DEF T
  <2>2. t \in Seq(T)
    BY <1>3, <2>1, IsASeq
  <2> HIDE DEF t
  <2> QED
    BY <1>1, <2>2, ConcatEmptySeq
<1> HIDE DEF t
<1>6. \A k \in ChipKinds : ~Has(t, k)
  BY <1>4, KindsDiffer DEF Has
<1>7. OnceInv'
  <2>1. \A k \in ChipKinds : Once(t, k)
    BY <1>6 DEF Has, Once
  <2> QED
    BY <1>4, <1>5, <2>1, UploadByUpload
<1>8. /\ ~Has(t, Reading(Mine)) /\ ~Has(t, Reading(Theirs)) /\ ~Has(t, Uploading)
      /\ docs' \in [Messages -> Nat] /\ docs'[Mine] = 0 /\ docs'[Theirs] = 0
  BY <1>1, <1>6, ToolsAssumption DEF ChipKinds
<1>9. MarkInv'
  BY <1>1, <1>5, <1>8 DEF MarkInv, Has, Reading
<1>10. RoomInv'
  BY <1>5, <1>8 DEF RoomInv, Has, Reading, Uploading
<1> QED
  BY <1>7, <1>9, <1>10

LEMMA ChipServes ==
  ASSUME IInv, OnceInv, MarkInv, RoomInv, NEW i \in DOMAIN asked,
         ServeRead(i) \/ ServeNewTopic(i) \/ ServePin(i) \/ ServeUpload(i)
  PROVE  ChipInv'
<1>1. asked[i] = [x \in Fields |-> asked[i][x]] /\ asked \in Seq(InFlight)
  BY AskedIs
<1>2. UploadOK(asked[i])
  BY DEF OnceInv
<1>3. CASE ServeRead(i)
  <2> DEFINE a == Found(asked[i])
  <2>0. PICK r : r = [asked[i] EXCEPT !.served = TRUE, !.answer = a]
    OBVIOUS
  <2>1. asked[i].what \in Reads /\ UNCHANGED <<docs, fetched, posted>>
    BY <1>3 DEF ServeRead
  <2>2. asked[i].what = "list" => a \subseteq posted
    BY DEF Found, In
  <2> HIDE DEF a
  <2>3. asked' = [asked EXCEPT ![i] = r]
    BY <1>1, <1>3, <2>0 DEF ServeRead, a
  <2>4. r.what = asked[i].what /\ r.arg = asked[i].arg /\ r.answer = a
    BY <1>1, <2>0 DEF Fields
  <2>5. UploadOK(r)'
    BY <1>2, <2>1, <2>2, <2>4 DEF UploadOK, Reads
  <2> QED
    BY <2>1, <2>3, <2>4, <2>5, ChipServed
<1>4. PICK r : r = [asked[i] EXCEPT !.served = TRUE]
  OBVIOUS
<1>5. Done(i) => asked' = [asked EXCEPT ![i] = r]
  BY <1>1, <1>4 DEF Done
<1>6. r.what = asked[i].what /\ r.arg = asked[i].arg
  BY <1>1, <1>4 DEF Fields
<1>7. CASE ServeNewTopic(i) \/ ServePin(i)
  <2>1. /\ asked[i].what \in {"newTopic", "pin", "repin"} /\ Done(i)
        /\ UNCHANGED <<docs, fetched, posted>>
    BY <1>7 DEF ServeNewTopic, ServePin
  <2>2. UploadOK(r)'
    BY <1>6, <2>1 DEF UploadOK
  <2> QED
    BY <1>5, <1>6, <2>1, <2>2, ChipServed
<1>8. CASE ServeUpload(i)
  <2>0. UNCHANGED <<docs, fetched>> /\ posted \subseteq posted'
    BY <1>8 DEF ServeUpload
  <2>1. CASE /\ asked[i].what \in {"message", "send"}
             /\ posted' = posted \cup {Mine} /\ Done(i)
    <3>1. UploadOK(r)'
      BY <1>2, <1>6, <2>1 DEF UploadOK
    <3> QED
      BY <1>5, <1>6, <2>0, <2>1, <3>1, ChipServed
  <2>2. CASE asked[i].what = "document" /\ posted' = posted /\ Done(i)
    <3>1. UploadOK(r)'
      BY <1>2, <1>6, <2>2 DEF UploadOK
    <3> QED
      BY <1>5, <1>6, <2>0, <2>2, <3>1, ChipServed
  <2>3. CASE asked' = Rest(i)
    BY <2>0, <2>3, ChipEnded
  <2> QED
    BY <1>8, <2>1, <2>2, <2>3 DEF ServeUpload
<1> QED
  BY <1>3, <1>7, <1>8

LEMMA ChipAnswers ==
  ASSUME IInv, OnceInv, MarkInv, RoomInv, NEW i \in DOMAIN asked,
         \/ ToolFails(i) \/ ServeUnpin(i) \/ MembersAnswered(i) \/ TopicsAnswered(i)
         \/ NewTopicAnswered(i) \/ SendAnswered(i) \/ PinsAnswered(i) \/ PinAnswered(i)
         \/ LinksAnswered(i) \/ UploadAnswered(i) \/ RawAnswered(i)
  PROVE  ChipInv'
<1>1. UploadOK(asked[i])
  BY DEF OnceInv
<1>2. CASE \/ ToolFails(i) \/ ServeUnpin(i) \/ MembersAnswered(i) \/ TopicsAnswered(i)
           \/ NewTopicAnswered(i) \/ SendAnswered(i) \/ PinsAnswered(i) \/ PinAnswered(i)
  <2>1. asked' = Rest(i) /\ UNCHANGED <<docs, fetched, posted>>
    BY <1>2 DEF ToolFails, ServeUnpin, MembersAnswered, TopicsAnswered, NewTopicAnswered,
      SendAnswered, PinsAnswered, PinAnswered
  <2> QED
    BY <2>1, ChipEnded
<1>3. CASE LinksAnswered(i)
  <2>0. PICK r : r = ToolRequest("doc", Nil, asked[i].arg)
    OBVIOUS
  <2>1. /\ asked[i].what = "links" /\ UNCHANGED <<docs, fetched, posted>>
        /\ asked' = Append(Rest(i), r) \/ asked' = Rest(i)
    BY <1>3, <2>0 DEF LinksAnswered, Arrived
  <2>2. Chip(r) = Chip(asked[i]) /\ UploadOK(r)'
    BY <2>0, <2>1 DEF ToolRequest, Chip, UploadOK
  <2> QED
    BY <2>1, <2>2, ChipEnded, ChipFollowed
<1>4. CASE UploadAnswered(i)
  <2>0. posted' = posted
    BY <1>4 DEF UploadAnswered
  <2> DEFINE r == ToolRequest("document", Nil, Mine)
  <2>1. CASE /\ asked[i].what = "message" /\ asked[i].served
             /\ asked' = Append(Rest(i), r) /\ UNCHANGED chips
    <3>1. Chip(r) = Chip(asked[i]) /\ UploadOK(r)'
      BY <1>1, <2>0, <2>1 DEF ToolRequest, Chip, UploadOK
    <3> HIDE DEF r
    <3> QED
      BY <2>0, <2>1, <3>1, ChipFollowed
  <2>2. CASE /\ asked[i].what = "document"
             /\ asked' = Append(Rest(i), ToolRequest("link", Nil, Mine))
             /\ docs' = [docs EXCEPT ![Mine] = @ + 1]
             /\ fetched' = fetched \cup {Mine}
    BY <2>0, <2>2, ChipUploaded
  <2> QED
    BY <1>4, <2>1, <2>2 DEF UploadAnswered, Arrived
<1>5. CASE RawAnswered(i)
  <2>1. UNCHANGED <<docs, fetched, posted>>
    BY <1>5 DEF RawAnswered
  <2>2. ASSUME NEW what \in {"raw2", "raw3"}, NEW r, r = ToolRequest(what, asked[i].chan, Nil),
               asked' = Append(Rest(i), r)
        PROVE  ChipInv'
    <3>1. Chip(r) \notin ChipKinds /\ UploadOK(r)'
      BY <2>2, KindsDiffer DEF ToolRequest, Chip, UploadOK
    <3> QED
      BY <2>1, <2>2, <3>1, ChipFollowed
  <2>3. CASE asked' = Rest(i)
    BY <2>1, <2>3, ChipEnded
  <2> QED
    BY <1>5, <2>2, <2>3 DEF RawAnswered
<1> QED
  BY <1>2, <1>3, <1>4, <1>5

LEMMA ChipAsks ==
  ASSUME IInv, OnceInv, MarkInv, RoomInv,
         \/ NewTopic \/ Refresh \/ ExportBoard \/ (Send /\ asked' # asked)
         \/ (\E s \in {"self", "channel"} : PinWithScope(s)) \/ \E x \in pins \cup myPins : Unpin(x)
  PROVE  ChipInv'
<1>1. /\ UNCHANGED <<docs, fetched, posted>>
      /\ \E what \in {"newTopic", "send", "list", "raw1", "pin", "repin", "unpin"} :
           \E chan, arg : asked' = asked \o <<ToolRequest(what, chan, arg)>>
  BY DEF NewTopic, Send, Refresh, ExportBoard, PinWithScope, Unpin, Ask
<1>2. PICK what \in {"newTopic", "send", "list", "raw1", "pin", "repin", "unpin"} :
        \E chan, arg : asked' = asked \o <<ToolRequest(what, chan, arg)>>
  BY <1>1
<1>3. PICK chan, arg : asked' = asked \o <<ToolRequest(what, chan, arg)>>
  BY <1>2
<1> DEFINE r == ToolRequest(what, chan, arg)
<1>4. Chip(r) \notin ChipKinds /\ UploadOK(r)'
  BY KindsDiffer DEF ToolRequest, Chip, UploadOK
<1>5. asked' = asked \o <<r>>
  BY <1>3
<1> HIDE DEF r
<1> QED
  BY <1>1, <1>4, <1>5, ChipAsked

LEMMA ChipStep ==
  ASSUME IInv, ChipInv, ToolsNext
  PROVE  ChipInv'
<1>1. patient' => patient
  BY DEF ToolsNext, SelectChannel, NewTopic, ChangeStanding, Tick, CancelReply, Send, Relisted, SendAnswered,
    StartReply, SelectTopic, PromptPinScope, CancelPin, PinWithScope, Unpin, Refresh, Upload, TheirUpload,
    ExportBoard, ServeRead, ServeNewTopic, ServePin, ServeUnpin, ServeUpload, ToolFails,
    MembersAnswered, TopicsAnswered, NewTopicAnswered, PinsAnswered, PinAnswered, ListAnswered,
    LinksAnswered, DocAnswered, UploadAnswered, RawAnswered, Zenon
<1>2. CASE ~patient'
  BY <1>2 DEF ChipInv
<1>3. CASE patient'
  <2>1. OnceInv /\ MarkInv /\ RoomInv
    BY <1>1, <1>3 DEF ChipInv
  <2>2. CASE \E c \in Channels : SelectChannel(c)
    BY <2>1, <2>2, ChipSelected
  <2>3. CASE \/ NewTopic \/ Refresh \/ ExportBoard
             \/ (\E s \in {"self", "channel"} : PinWithScope(s))
             \/ (Send /\ asked' # asked) \/ \E x \in pins \cup myPins : Unpin(x)
    BY <2>1, <2>3, ChipAsks
  <2>4. CASE \/ ChangeStanding \/ Tick \/ CancelReply \/ Relisted \/ CancelPin \/ TheirUpload
             \/ (Send /\ asked' = asked)
             \/ (\E m \in Messages : StartReply(m)) \/ (\E t \in Topics \cup {Nil} : SelectTopic(t))
             \/ \E m \in Messages : PromptPinScope(m)
    <3>1. UNCHANGED <<asked, docs, fetched>> /\ posted \subseteq posted'
      BY <2>4 DEF ChangeStanding, Tick, CancelReply, Send, Relisted, CancelPin, TheirUpload,
        StartReply, SelectTopic, PromptPinScope
    <3> QED
      BY <2>1, <3>1, ChipsStand
  <2>5. CASE Upload
    BY <2>1, <2>5, ChipUpload
  <2>6. ASSUME NEW i \in DOMAIN asked,
               ServeRead(i) \/ ServeNewTopic(i) \/ ServePin(i) \/ ServeUpload(i)
        PROVE  ChipInv'
    BY <2>1, <2>6, ChipServes
  <2>7. ASSUME NEW i \in DOMAIN asked,
               \/ ToolFails(i) \/ ServeUnpin(i) \/ MembersAnswered(i) \/ TopicsAnswered(i)
               \/ NewTopicAnswered(i) \/ SendAnswered(i) \/ PinsAnswered(i) \/ PinAnswered(i)
               \/ LinksAnswered(i) \/ UploadAnswered(i) \/ RawAnswered(i)
        PROVE  ChipInv'
    BY <2>1, <2>7, ChipAnswers
  <2>8. ASSUME NEW i \in DOMAIN asked, ListAnswered(i) \/ DocAnswered(i) PROVE ChipInv'
    BY <2>1, <2>8, ChipListed, ChipShown
  <2> QED
    BY <2>2, <2>3, <2>4, <2>5, <2>6, <2>7, <2>8 DEF ToolsNext
<1> QED
  BY <1>2, <1>3

LEMMA ChipBegins ==
  ASSUME ToolsInit
  PROVE  ChipInv
<1>1. /\ asked = <<>> /\ docs = [m \in Messages |-> 0] /\ fetched = {}
  BY DEF ToolsInit
<1>2. DOMAIN asked = {}
  BY <1>1
<1>3. docs \in [Messages -> Nat] /\ docs[Mine] = 0 /\ docs[Theirs] = 0
  BY <1>1, ToolsAssumption
<1> QED
  BY <1>1, <1>2, <1>3 DEF ChipInv, OnceInv, MarkInv, RoomInv, Once, Has

\* An attachment has one chip, and the user's own upload at most two, for whoever waits
\* before changing the channel, in whatever order the reads and the uploads of two users
\* are served and answered, or fail (CommPanel.cpp, handleUpload and fetchAttachmentsFor).
THEOREM ChipsHold == Spec => []ChipsOnce
<1>1. SessionInit => ChipInv
  BY ChipBegins DEF SessionInit
<1>2. IInv /\ ChipInv /\ [SessionNext]_sessionVars => ChipInv'
  <2> SUFFICES ASSUME IInv, ChipInv, [SessionNext]_sessionVars PROVE ChipInv'
    OBVIOUS
  <2>1. CASE ToolsNext
    BY <2>1, ChipStep
  <2>2. CASE UNCHANGED toolVars
    <3>1. UNCHANGED <<asked, docs, fetched, posted, patient>>
      BY <2>2 DEF toolVars
    <3> QED
      BY <3>1, ChipsStand DEF ChipInv
  <2> QED
    BY <2>1, <2>2 DEF SessionNext, sessionVars
<1>3. ChipInv => ChipsOnce
  BY DEF ChipInv, RoomInv, ChipsOnce
<1> QED
  BY <1>1, <1>2, <1>3, Always, PTL DEF Spec
=============================================================================
