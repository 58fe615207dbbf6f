---------------------------- MODULE UnreadCounts ----------------------------
(***************************************************************************)
(* channel_member.unread_count of one channel, as comms_governance.py      *)
(* derives it: a post bumps the count of every other member who has not    *)
(* read past it, and a mark-as-read counts the messages again.             *)
(*                                                                         *)
(* Each request is one PostgreSQL transaction at READ COMMITTED.  Its      *)
(* queries see what is committed when they run; the rows it writes appear  *)
(* at its commit, as the absolute numbers it worked out before.  The       *)
(* UPDATEs of one flush go in primary key order, so requests queue for     *)
(* the member rows and never deadlock: locks show in no state.             *)
(***************************************************************************)
EXTENDS Integers, FiniteSets

CONSTANTS
  Users,     \* the members of the channel
  Requests,  \* the posts and the mark-as-reads of a behaviour; a post's name
             \* is the id of its message
  MaxTime,   \* bound: the last tick of the server's clock
  Ahead      \* bound: how far a client's clock is ahead of it

ASSUME UnreadAssumption ==
  /\ IsFiniteSet(Requests)
  /\ MaxTime \in Nat \ {0}
  /\ Ahead \in Nat

VARIABLES
  clock,     \* the time at the server
  messages,  \* the committed messages: id -> author and posted_at
  lastRead,  \* last_read_at of each member, 0 for NULL
  unread,    \* unread_count of each member
  pc,        \* pc[r]: where request r is
  op,        \* op[r]: its kind, its user, and posted_at or the new last_read_at
  plan,      \* plan[r]: the counts it writes: member -> unread_count
  base,      \* history: base[r]: what its queries found
  series     \* history: requests have been served one after the other

db   == <<messages, lastRead, unread>>
vars == <<clock, db, pc, op, plan, base, series>>

NoOp    == [kind |-> "none", user |-> "nobody", at |-> 0]
Nothing == [x \in {} |-> 0]

\* What the queries of a request find.
Found == [messages |-> messages, lastRead |-> lastRead, unread |-> unread]

Init ==
  /\ clock = 1
  /\ messages = Nothing
  /\ lastRead = [u \in Users |-> 0]
  /\ unread = [u \in Users |-> 0]
  /\ pc = [r \in Requests |-> "idle"]
  /\ op = [r \in Requests |-> NoOp]
  /\ plan = [r \in Requests |-> Nothing]
  /\ base = [r \in Requests |-> Found]
  /\ series = TRUE

Tick ==
  /\ clock < MaxTime
  /\ clock' = clock + 1
  /\ UNCHANGED <<db, pc, op, plan, base, series>>

-----------------------------------------------------------------------------
Open == {r \in Requests : pc[r] \in {"begun", "counted"}}

Begin(r, request) ==
  /\ pc[r] = "idle"
  /\ series' = (series /\ Open = {})
  /\ op' = [op EXCEPT ![r] = request]
  /\ pc' = [pc EXCEPT ![r] = "begun"]
  /\ UNCHANGED <<clock, db, plan, base>>

\* createMessage.  posted_at is not sent: DEFAULT now() is the time at which
\* the transaction began.
BeginPost(r, u) == Begin(r, [kind |-> "post", user |-> u, at |-> clock])

\* markChannelRead stamps the time of the client's clock when it was sent.
BeginRead(r, u) ==
  \E t \in 1..(clock + Ahead) : Begin(r, [kind |-> "read", user |-> u, at |-> t])

\* Faulty: a message of the same instant counts as not read.
UnreadOfIncluding(ms, u, since) ==
  {m \in DOMAIN ms : ms[m].author # u /\ ms[m].at >= since}

\* _count_unread: the messages of others that are newer.
UnreadOf(ms, u, since) ==
  {m \in DOMAIN ms : ms[m].author # u /\ ms[m].at > since}

Count(ms, u, since) == Cardinality(UnreadOf(ms, u, since))

\* Committed messages and the one of request r, which only r sees.
WithOwn(ms, r) ==
  [m \in DOMAIN ms \cup {r} |->
     IF m = r THEN [author |-> op[r].user, at |-> op[r].at] ELSE ms[m]]

\* Faulty: the author is bumped too.
BumpedWithAuthor(r) == {u \in Users : lastRead[u] < op[r].at}

\* The members a post bumps.
Bumped(r) == {u \in Users \ {op[r].user} : lastRead[u] < op[r].at}

\* A bump adds one.  Whether LogicBank runs the formula for a row that the
\* event has written depends on its version: if it does, the count is taken anew.
BumpCounts(r) ==
  { [u \in Bumped(r) |-> unread[u] + 1],
    [u \in Bumped(r) |-> Count(WithOwn(messages, r), u, lastRead[u])] }

\* A count that is what it was is not written.
OnlyChanged(p) == [u \in {v \in DOMAIN p : p[v] # unread[v]} |-> p[u]]

\* The queries of the request, which end in the numbers to be written.
CountUp(r) ==
  /\ pc[r] = "begun"
  /\ \/ /\ op[r].kind = "post"
        /\ \E p \in BumpCounts(r) : plan' = [plan EXCEPT ![r] = OnlyChanged(p)]
     \/ /\ op[r].kind = "read"
        /\ LET u == op[r].user
           IN  plan' = [plan EXCEPT ![r] =
                          OnlyChanged([v \in {u} |-> Count(messages, u, op[r].at)])]
  /\ base' = [base EXCEPT ![r] = Found]
  /\ pc' = [pc EXCEPT ![r] = "counted"]
  /\ UNCHANGED <<clock, db, op, series>>

\* Faulty: the read position is not stored.
StampNothing(r) == lastRead' = lastRead

\* A mark-as-read stores the new position.
Stamp(r) ==
  lastRead' = IF op[r].kind = "read"
              THEN [lastRead EXCEPT ![op[r].user] = op[r].at] ELSE lastRead

Commit(r) ==
  /\ pc[r] = "counted"
  /\ messages' = IF op[r].kind = "post" THEN WithOwn(messages, r) ELSE messages
  /\ Stamp(r)
  /\ unread' = [u \in Users |-> IF u \in DOMAIN plan[r] THEN plan[r][u] ELSE unread[u]]
  /\ pc' = [pc EXCEPT ![r] = "committed"]
  /\ UNCHANGED <<clock, op, plan, base, series>>

\* The request is refused (_can_post) or fails: all of it is rolled back.
RollBack(r) ==
  /\ r \in Open
  /\ pc' = [pc EXCEPT ![r] = "failed"]
  /\ UNCHANGED <<clock, db, op, plan, base, series>>

-----------------------------------------------------------------------------
Request(r) ==
  \/ \E u \in Users : BeginPost(r, u) \/ BeginRead(r, u)
  \/ CountUp(r)
  \/ Commit(r)
  \/ RollBack(r)

Next == Tick \/ \E r \in Requests : Request(r)

Spec == Init /\ [][Next]_vars

-----------------------------------------------------------------------------
TypeOK ==
  /\ clock \in 1..MaxTime
  /\ DOMAIN messages \subseteq Requests
  /\ \A m \in DOMAIN messages :
       messages[m].author \in Users /\ messages[m].at \in 1..clock
  /\ lastRead \in [Users -> 0..(MaxTime + Ahead)]
  /\ unread \in [Users -> Nat]
  /\ series \in BOOLEAN
  /\ pc \in [Requests -> {"idle", "begun", "counted", "committed", "failed"}]

\* However posts and reads overlap, a badge never shows more messages than the
\* others have written in the channel.
NeverTooMany == \A u \in Users : unread[u] <= Count(messages, u, 0)

\* schema.sql: "count of the channel's messages newer than last_read_at and not
\* authored by this member".
Exact == \A u \in Users : unread[u] = Count(messages, u, lastRead[u])

\* The bump and the formula are two ways to the same number, as long as the
\* requests are served one after the other.
ExactInSeries == series => Exact

\* comms_governance.py: "recompute-on-read is the self-healing reconcile".  A
\* mark-as-read leaves the exact count, however wrong it was before, if nobody
\* posted or wrote the member's row between its query and its commit.
ReadReconciles ==
  [][\A r \in Requests :
       LET u == op[r].user
       IN  /\ pc[r] = "counted" /\ pc'[r] = "committed"
           /\ op[r].kind = "read"
           /\ base[r].messages = messages
           /\ base[r].lastRead[u] = lastRead[u]
           /\ base[r].unread[u] = unread[u]
           => unread'[u] = Count(messages, u, lastRead'[u])]_vars
=============================================================================
