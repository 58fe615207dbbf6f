---------------------------- MODULE Comms_proofs ----------------------------
(***************************************************************************)
(* For any members, any number of posts and mark-as-reads and any clocks:  *)
(* a badge is exact as long as requests are served one after the other,    *)
(* and it never shows more messages than the others wrote, however         *)
(* requests overlap.                                                       *)
(*                                                                         *)
(* The argument for both: adding one to the count of the members a post    *)
(* bumps is what counting the messages again would give (BumpIsCount),     *)
(* because "has not read past it" compares the same two times as the       *)
(* count does.  So what a request plans is exact for the tables it read    *)
(* (Planned), and not too much for any larger set of messages (Bounded);   *)
(* a request that is alone commits onto the tables it read, and one that   *)
(* is not onto tables that have only grown.  A mark-as-read carries its    *)
(* own count (Reread), so it repairs a badge that was wrong.               *)
(*                                                                         *)
(* The second half is about the view that shows these messages and counts: *)
(* CommPanel takes any counts of no more messages than there are, which    *)
(* NeverTooManyUnread says is what it reads.                               *)
(***************************************************************************)
EXTENDS UnreadCounts, CommPanel, SequenceTheorems, FiniteSetTheorems, TLAPS

\* The tables as request r would leave them.
MessagesBy(r) == IF op[r].kind = "post" THEN WithOwn(messages, r) ELSE messages
UnreadBy(r, u) == IF u \in DOMAIN plan[r] THEN plan[r][u] ELSE unread[u]
ReadBy(r, u) == IF op[r].kind = "read" /\ op[r].user = u THEN op[r].at ELSE lastRead[u]

OpOK(r) ==
  r \in Open =>
    /\ op[r].kind \in {"post", "read"}
    /\ op[r].user \in Users
    /\ op[r].at \in 1..(MaxTime + Ahead)
    /\ op[r].kind = "post" => op[r].at \in 1..clock

Shapes ==
  /\ DOMAIN messages \subseteq {r \in Requests : pc[r] = "committed"}
  /\ op = [r \in Requests |-> op[r]]
  /\ plan = [r \in Requests |-> plan[r]]
  /\ \A r \in Requests : OpOK(r)
  /\ \A r \in Requests : pc[r] = "counted" =>
       /\ DOMAIN plan[r] \subseteq Users
       /\ \A u \in DOMAIN plan[r] : plan[r][u] \in Nat

\* What a request is about to write is not too much for the messages there are.
Bounded ==
  \A r \in Requests : pc[r] = "counted" =>
    \A u \in DOMAIN plan[r] : plan[r][u] <= Count(MessagesBy(r), u, 0)

Alone == series => \A r, q \in Open : r = q

\* A request that is alone is about to make every count exact.
Planned ==
  series =>
    \A r \in Requests : pc[r] = "counted" =>
      \A u \in Users : UnreadBy(r, u) = Count(MessagesBy(r), u, ReadBy(r, u))

IInv ==
  /\ TypeOK
  /\ Shapes
  /\ NeverTooMany
  /\ Bounded
  /\ Alone
  /\ Planned
  /\ ExactInSeries

-----------------------------------------------------------------------------
\* There is a number of messages to count.
LEMMA CountIsNat ==
  ASSUME NEW ms, IsFiniteSet(DOMAIN ms), NEW u, NEW since
  PROVE  IsFiniteSet(UnreadOf(ms, u, since)) /\ Count(ms, u, since) \in Nat
<1>1. UnreadOf(ms, u, since) \in SUBSET DOMAIN ms
  BY DEF UnreadOf
<1>. QED BY <1>1, FS_Subset, FS_CardinalityType DEF Count

\* Counting again, with the new message, is adding one for those the message
\* is news to.
LEMMA BumpIsCount ==
  ASSUME NEW ms, IsFiniteSet(DOMAIN ms), NEW r, r \notin DOMAIN ms,
         NEW u, NEW since
  PROVE  Count(WithOwn(ms, r), u, since) =
           IF op[r].user # u /\ op[r].at > since
           THEN Count(ms, u, since) + 1 ELSE Count(ms, u, since)
<1>. DEFINE old == UnreadOf(ms, u, since)
            new == UnreadOf(WithOwn(ms, r), u, since)
<1>1. IsFiniteSet(old) /\ r \notin old
  BY CountIsNat DEF UnreadOf
<1>2. CASE op[r].user # u /\ op[r].at > since
  <2>1. new = old \cup {r}
    BY <1>2 DEF UnreadOf, WithOwn
  <2>. QED BY <1>1, <1>2, <2>1, FS_AddElement DEF Count
<1>3. CASE ~(op[r].user # u /\ op[r].at > since)
  <2>1. new = old
    BY <1>3 DEF UnreadOf, WithOwn
  <2>. QED BY <1>3, <2>1 DEF Count
<1>. QED BY <1>2, <1>3

\* More messages and an earlier read position: no fewer are unread.
LEMMA CountGrows ==
  ASSUME NEW ms, NEW more, IsFiniteSet(DOMAIN more), DOMAIN ms \subseteq DOMAIN more,
         \A m \in DOMAIN ms : more[m] = ms[m] /\ ms[m].at \in Int,
         NEW u, NEW since \in Nat, NEW earlier \in Nat, earlier <= since
  PROVE  Count(ms, u, since) <= Count(more, u, earlier)
<1>1. UnreadOf(ms, u, since) \in SUBSET UnreadOf(more, u, earlier)
  BY DEF UnreadOf
<1>2. IsFiniteSet(UnreadOf(more, u, earlier))
  BY CountIsNat
<1>. QED BY <1>1, <1>2, FS_Subset DEF Count

LEMMA FiniteMessages ==
  ASSUME TypeOK
  PROVE  IsFiniteSet(DOMAIN messages)
BY UnreadAssumption, FS_Subset DEF TypeOK

-----------------------------------------------------------------------------
LEMMA InitHolds == Init => IInv
<1>. SUFFICES ASSUME Init PROVE IInv
  OBVIOUS
<1>1. TypeOK
  BY UnreadAssumption DEF Init, TypeOK, Nothing
<1>2. Shapes /\ Bounded /\ Alone /\ Planned
  BY DEF Init, Nothing, Shapes, OpOK, Open, Bounded, Alone, Planned
<1>3. ASSUME NEW u, NEW since PROVE Count(messages, u, since) = 0
  <2>1. UnreadOf(messages, u, since) = {}
    BY DEF Init, Nothing, UnreadOf
  <2>. QED BY <2>1, FS_EmptySet DEF Count
<1>4. NeverTooMany /\ ExactInSeries
  BY <1>3 DEF Init, NeverTooMany, ExactInSeries, Exact
<1>. QED BY <1>1, <1>2, <1>4 DEF IInv

\* A request begins: it writes nothing, and it is alone if no other is open.
LEMMA BeginHolds ==
  ASSUME IInv, NEW r \in Requests, NEW u \in Users, BeginPost(r, u) \/ BeginRead(r, u)
  PROVE  IInv'
<1>. USE DEF IInv
<1>1. PICK request : /\ Begin(r, request)
                     /\ request.kind \in {"post", "read"}
                     /\ request.user = u
                     /\ request.at \in 1..(MaxTime + Ahead)
                     /\ request.kind = "post" => request.at \in 1..clock
  <2>1. CASE BeginPost(r, u)
    <3>. DEFINE write == [kind |-> "post", user |-> u, at |-> clock]
    <3>1. Begin(r, write)
      BY <2>1 DEF BeginPost
    <3>2. clock \in 1..(MaxTime + Ahead) /\ clock \in 1..clock
      BY UnreadAssumption DEF TypeOK
    <3>. QED BY <3>1, <3>2
  <2>2. CASE BeginRead(r, u)
    <3>1. PICK t \in 1..(clock + Ahead) : Begin(r, [kind |-> "read", user |-> u, at |-> t])
      BY <2>2 DEF BeginRead
    <3>. DEFINE read == [kind |-> "read", user |-> u, at |-> t]
    <3>2. t \in 1..(MaxTime + Ahead)
      BY UnreadAssumption DEF TypeOK
    <3>. QED BY <3>1, <3>2
  <2>. QED BY <2>1, <2>2
<1>2. /\ UNCHANGED <<clock, messages, lastRead, unread, plan, base>>
      /\ pc[r] = "idle" /\ pc' = [pc EXCEPT ![r] = "begun"]
      /\ op' = [op EXCEPT ![r] = request]
      /\ series' = (series /\ Open = {})
  BY <1>1 DEF Begin, db
<1>3. /\ Open' = Open \cup {r}
      /\ \A q \in Requests : pc'[q] = "counted" => q # r /\ pc[q] = "counted"
      /\ \A q \in Requests \ {r} : op'[q] = op[q] /\ pc'[q] = pc[q]
      /\ op'[r] = request
  BY <1>2 DEF Open, TypeOK, Shapes
<1>4. TypeOK'
  BY <1>2 DEF TypeOK
<1>5. Shapes'
  <2>1. DOMAIN messages' \subseteq {q \in Requests : pc'[q] = "committed"}
    BY <1>2, <1>3 DEF Shapes
  <2>2. \A q \in Requests : OpOK(q)'
    BY <1>1, <1>2, <1>3 DEF Shapes, OpOK
  <2>3. op' = [q \in Requests |-> op'[q]] /\ plan' = [q \in Requests |-> plan'[q]]
    BY <1>2 DEF Shapes
  <2>. QED BY <1>2, <1>3, <2>1, <2>2, <2>3 DEF Shapes
<1>6. \A q \in Requests \ {r}, v \in Users :
        /\ MessagesBy(q)' = MessagesBy(q) /\ UnreadBy(q, v)' = UnreadBy(q, v)
        /\ ReadBy(q, v)' = ReadBy(q, v)
  BY <1>2, <1>3 DEF MessagesBy, UnreadBy, ReadBy, WithOwn
<1>7. Bounded'
  BY <1>2, <1>3, <1>6 DEF Bounded, Count, UnreadOf, Shapes
<1>8. Alone' /\ Planned'
  BY <1>2, <1>3, <1>6 DEF Alone, Planned, Count, UnreadOf, Open
<1>9. NeverTooMany' /\ ExactInSeries'
  BY <1>2 DEF NeverTooMany, ExactInSeries, Exact, Count, UnreadOf
<1>. QED BY <1>4, <1>5, <1>7, <1>8, <1>9

\* The queries of a request: what it plans is exact for the tables they find.
LEMMA CountUpHolds ==
  ASSUME IInv, NEW r \in Requests, CountUp(r)
  PROVE  IInv'
<1>. USE DEF IInv
<1>1. /\ UNCHANGED <<clock, messages, lastRead, unread, op, series>>
      /\ pc[r] = "begun" /\ pc' = [pc EXCEPT ![r] = "counted"]
      /\ r \in Open /\ r \notin DOMAIN messages
  BY DEF CountUp, db, Open, Shapes, TypeOK
<1>2. /\ Open' = Open
      /\ \A q \in Requests \ {r} : pc'[q] = pc[q]
      /\ pc'[r] = "counted"
      /\ op[r].user \in Users /\ op[r].at \in Nat \ {0}
      /\ op[r].kind \in {"post", "read"}
      /\ IsFiniteSet(DOMAIN messages)
      /\ \A u \in Users : lastRead[u] \in Nat /\ unread[u] \in Nat
  BY <1>1, FiniteMessages, UnreadAssumption DEF Open, TypeOK, Shapes, OpOK
<1>3. PICK p :
        /\ plan' = [plan EXCEPT ![r] = OnlyChanged(p)]
        /\ DOMAIN p \subseteq Users
        /\ \A u \in DOMAIN p : p[u] \in Nat /\ p[u] <= Count(MessagesBy(r), u, 0)
        /\ series => \A u \in Users :
             Count(MessagesBy(r), u, ReadBy(r, u)) = IF u \in DOMAIN p THEN p[u] ELSE unread[u]
  <2>1. CASE op[r].kind = "post"
    <3>1. MessagesBy(r) = WithOwn(messages, r)
          /\ \A u \in Users : ReadBy(r, u) = lastRead[u]
      BY <2>1 DEF MessagesBy, ReadBy
    <3>2. PICK p \in BumpCounts(r) : plan' = [plan EXCEPT ![r] = OnlyChanged(p)]
      BY <2>1 DEF CountUp
    <3>3. DOMAIN p = Bumped(r)
          /\ \A u \in Bumped(r) : \/ p[u] = unread[u] + 1
                                  \/ p[u] = Count(WithOwn(messages, r), u, lastRead[u])
      BY <3>2 DEF BumpCounts
    <3>4. \A u \in Users, since \in Nat :
            /\ Count(messages, u, since) \in Nat
            /\ Count(WithOwn(messages, r), u, since) =
                 IF op[r].user # u /\ op[r].at > since
                 THEN Count(messages, u, since) + 1 ELSE Count(messages, u, since)
      BY <1>1, <1>2, CountIsNat, BumpIsCount
    <3>5. \A u \in Users : Count(messages, u, lastRead[u]) <= Count(messages, u, 0)
      BY <1>2, CountGrows DEF TypeOK
    <3>6. \A u \in Bumped(r) :
            u \in Users /\ op[r].user # u /\ op[r].at > lastRead[u] /\ op[r].at > 0
      BY <1>2 DEF Bumped
    <3>7. \A u \in DOMAIN p : p[u] \in Nat /\ p[u] <= Count(MessagesBy(r), u, 0)
      BY <1>2, <3>1, <3>3, <3>4, <3>5, <3>6 DEF NeverTooMany
    <3>8. ASSUME series, NEW u \in Users
          PROVE  Count(MessagesBy(r), u, ReadBy(r, u)) = IF u \in DOMAIN p THEN p[u] ELSE unread[u]
      <4>1. unread[u] = Count(messages, u, lastRead[u])
        BY <3>8 DEF ExactInSeries, Exact
      <4>2. u \notin Bumped(r) => ~(op[r].user # u /\ op[r].at > lastRead[u])
        BY <1>2 DEF Bumped
      <4>. QED BY <1>2, <3>1, <3>3, <3>4, <3>6, <4>1, <4>2
    <3>. QED BY <3>2, <3>3, <3>6, <3>7, <3>8
  <2>2. CASE op[r].kind = "read"
    <3>. DEFINE me == op[r].user
                p == [v \in {me} |-> Count(messages, me, op[r].at)]
    <3>1. plan' = [plan EXCEPT ![r] = OnlyChanged(p)]
      BY <2>2 DEF CountUp
    <3>2. MessagesBy(r) = messages
          /\ \A u \in Users : ReadBy(r, u) = IF u = me THEN op[r].at ELSE lastRead[u]
      BY <2>2 DEF MessagesBy, ReadBy
    <3>3. Count(messages, me, op[r].at) \in Nat
          /\ Count(messages, me, op[r].at) <= Count(messages, me, 0)
      BY <1>2, CountIsNat, CountGrows DEF TypeOK
    <3>4. ASSUME series, NEW u \in Users
          PROVE  Count(MessagesBy(r), u, ReadBy(r, u)) = IF u \in DOMAIN p THEN p[u] ELSE unread[u]
      BY <3>2, <3>4 DEF ExactInSeries, Exact
    <3>5. DOMAIN p = {me} /\ p[me] = Count(messages, me, op[r].at)
      OBVIOUS
    <3>. HIDE DEF p
    <3>6. /\ DOMAIN p \subseteq Users
          /\ \A u \in DOMAIN p : p[u] \in Nat /\ p[u] <= Count(MessagesBy(r), u, 0)
      BY <1>2, <3>2, <3>3, <3>5
    <3>. QED BY <3>1, <3>4, <3>6
  <2>. QED BY <1>2, <2>1, <2>2
<1>4. /\ plan'[r] = OnlyChanged(p)
      /\ \A q \in Requests \ {r} : plan'[q] = plan[q]
      /\ plan' = [q \in Requests |-> plan'[q]]
  BY <1>3 DEF Shapes
<1>5. /\ DOMAIN OnlyChanged(p) \subseteq DOMAIN p
      /\ \A u \in DOMAIN p : u \notin DOMAIN OnlyChanged(p) => p[u] = unread[u]
      /\ \A u \in DOMAIN OnlyChanged(p) : OnlyChanged(p)[u] = p[u]
  BY DEF OnlyChanged
<1>6. \A q \in Requests : \A u : MessagesBy(q)' = MessagesBy(q) /\ ReadBy(q, u)' = ReadBy(q, u)
  BY <1>1 DEF MessagesBy, ReadBy, WithOwn
<1>7. TypeOK'
  BY <1>1 DEF TypeOK
<1>8. Shapes'
  <2>1. \A q \in Requests : OpOK(q)'
    BY <1>1, <1>2 DEF Shapes, OpOK
  <2>2. DOMAIN messages' \subseteq {q \in Requests : pc'[q] = "committed"}
    BY <1>1, <1>2 DEF Shapes
  <2>3. \A q \in Requests : pc'[q] = "counted" =>
          /\ DOMAIN plan'[q] \subseteq Users
          /\ \A u \in DOMAIN plan'[q] : plan'[q][u] \in Nat
    <3>1. \A u \in DOMAIN OnlyChanged(p) : u \in Users /\ OnlyChanged(p)[u] \in Nat
      BY <1>3, <1>5
    <3>. QED BY <1>2, <1>4, <3>1 DEF Shapes
  <2>. QED BY <1>1, <1>4, <2>1, <2>2, <2>3 DEF Shapes
<1>9. Bounded'
  <2>. SUFFICES ASSUME NEW q \in Requests, pc'[q] = "counted", NEW u \in DOMAIN plan'[q]
                PROVE  plan'[q][u] <= Count(MessagesBy(q), u, 0)
    BY <1>6 DEF Bounded, Count, UnreadOf
  <2>1. CASE q = r
    BY <1>3, <1>4, <1>5, <2>1
  <2>2. CASE q # r
    BY <1>2, <1>4, <2>2 DEF Bounded
  <2>. QED BY <2>1, <2>2
<1>10. Alone'
  BY <1>1, <1>2 DEF Alone
<1>11. Planned'
  <2>. SUFFICES ASSUME series, NEW q \in Requests, pc'[q] = "counted", NEW u \in Users
                PROVE  UnreadBy(q, u)' = Count(MessagesBy(q), u, ReadBy(q, u))
    BY <1>1, <1>6 DEF Planned, Count, UnreadOf
  <2>1. q = r
    BY <1>1, <1>2 DEF Alone, Open
  <2>2. UnreadBy(r, u)' = IF u \in DOMAIN OnlyChanged(p) THEN OnlyChanged(p)[u] ELSE unread[u]
    BY <1>1, <1>4 DEF UnreadBy
  <2>3. Count(MessagesBy(r), u, ReadBy(r, u)) = IF u \in DOMAIN p THEN p[u] ELSE unread[u]
    BY <1>3
  <2>. QED BY <1>5, <2>1, <2>2, <2>3
<1>12. NeverTooMany' /\ ExactInSeries'
  BY <1>1 DEF NeverTooMany, ExactInSeries, Exact, Count, UnreadOf
<1>. QED BY <1>7, <1>8, <1>9, <1>10, <1>11, <1>12

\* What a commit does to the messages: they only grow.
LEMMA MessagesGrow ==
  ASSUME IInv, NEW r \in Requests, pc[r] = "counted"
  PROVE  /\ IsFiniteSet(DOMAIN MessagesBy(r))
         /\ DOMAIN messages \subseteq DOMAIN MessagesBy(r)
         /\ DOMAIN MessagesBy(r) \subseteq DOMAIN messages \cup {r}
         /\ \A m \in DOMAIN messages : MessagesBy(r)[m] = messages[m] /\ messages[m].at \in Int
         /\ \A m \in DOMAIN MessagesBy(r) :
              MessagesBy(r)[m].author \in Users /\ MessagesBy(r)[m].at \in 1..clock
<1>1. IsFiniteSet(DOMAIN messages) /\ r \notin DOMAIN messages
  BY FiniteMessages DEF IInv, Shapes
<1>2. OpOK(r) /\ r \in Open
  BY DEF IInv, Shapes, Open
<1>3. CASE op[r].kind = "post"
  <2>1. IsFiniteSet(DOMAIN messages \cup {r})
    BY <1>1, FS_AddElement
  <2>. QED BY <1>1, <1>2, <1>3, <2>1 DEF MessagesBy, WithOwn, OpOK, IInv, TypeOK
<1>4. CASE op[r].kind # "post"
  BY <1>1, <1>4 DEF MessagesBy, IInv, TypeOK
<1>. QED BY <1>3, <1>4

LEMMA CommitHolds ==
  ASSUME IInv, NEW r \in Requests, Commit(r)
  PROVE  IInv'
<1>. USE DEF IInv
<1>1. /\ UNCHANGED <<clock, op, plan, base, series>>
      /\ pc[r] = "counted" /\ pc' = [pc EXCEPT ![r] = "committed"]
      /\ messages' = MessagesBy(r)
      /\ lastRead' = IF op[r].kind = "read"
                     THEN [lastRead EXCEPT ![op[r].user] = op[r].at] ELSE lastRead
      /\ unread' = [u \in Users |-> UnreadBy(r, u)]
  BY DEF Commit, Stamp, MessagesBy, UnreadBy
<1>2. /\ r \in Open /\ OpOK(r)
      /\ \A q \in Requests \ {r} : pc'[q] = pc[q]
      /\ pc'[r] = "committed"
      /\ Open' = Open \ {r}
  BY <1>1 DEF Open, TypeOK, Shapes
<1>3. \A u \in Users : lastRead'[u] = ReadBy(r, u) /\ unread'[u] = UnreadBy(r, u)
  BY <1>1, <1>2 DEF ReadBy, TypeOK
<1>4. TypeOK'
  <2>1. lastRead' \in [Users -> 0..(MaxTime + Ahead)]
    BY <1>1, <1>2, UnreadAssumption DEF TypeOK, OpOK
  <2>2. unread' \in [Users -> Nat]
    <3>1. \A u \in Users : UnreadBy(r, u) \in Nat
      BY <1>1 DEF UnreadBy, TypeOK, Shapes
    <3>. QED BY <1>1, <3>1
  <2>3. /\ DOMAIN messages' \subseteq Requests
        /\ \A m \in DOMAIN messages' :
             messages'[m].author \in Users /\ messages'[m].at \in 1..clock
    BY <1>1, MessagesGrow DEF TypeOK
  <2>4. pc' \in [Requests -> {"idle", "begun", "counted", "committed", "failed"}]
    BY <1>1 DEF TypeOK
  <2>. QED BY <1>1, <2>1, <2>2, <2>3, <2>4 DEF TypeOK
<1>5. Shapes'
  <2>1. DOMAIN messages' \subseteq {q \in Requests : pc'[q] = "committed"}
    BY <1>1, <1>2, MessagesGrow DEF Shapes
  <2>2. \A q \in Requests : OpOK(q)'
    BY <1>1, <1>2 DEF Shapes, OpOK
  <2>. QED BY <1>1, <1>2, <2>1, <2>2 DEF Shapes
<1>6. NeverTooMany'
  <2>. SUFFICES ASSUME NEW u \in Users
                PROVE  UnreadBy(r, u) <= Count(MessagesBy(r), u, 0)
    BY <1>1, <1>3 DEF NeverTooMany, Count, UnreadOf
  <2>1. Count(messages, u, 0) <= Count(MessagesBy(r), u, 0)
    BY <1>1, MessagesGrow, CountGrows
  <2>2. /\ Count(messages, u, 0) \in Nat /\ Count(MessagesBy(r), u, 0) \in Nat
        /\ unread[u] \in Nat /\ unread[u] <= Count(messages, u, 0)
    BY <1>1, FiniteMessages, MessagesGrow, CountIsNat DEF TypeOK, NeverTooMany
  <2>. QED BY <1>1, <2>1, <2>2 DEF UnreadBy, Bounded
<1>7. Bounded'
  <2>. SUFFICES ASSUME NEW q \in Requests, pc'[q] = "counted", NEW u \in DOMAIN plan[q]
                PROVE  plan[q][u] <= Count(MessagesBy(q)', u, 0)
    BY <1>1 DEF Bounded, Count, UnreadOf
  <2>. DEFINE before == MessagesBy(q)
              after == MessagesBy(q)'
  <2>1. q # r /\ pc[q] = "counted"
    BY <1>2
  <2>2. /\ IsFiniteSet(DOMAIN after)
        /\ DOMAIN before \subseteq DOMAIN after
        /\ \A m \in DOMAIN before : after[m] = before[m] /\ before[m].at \in Int
    <3>1. after = IF op[q].kind = "post" THEN WithOwn(MessagesBy(r), q) ELSE MessagesBy(r)
      BY <1>1 DEF MessagesBy, WithOwn
    <3>2. /\ IsFiniteSet(DOMAIN MessagesBy(r))
          /\ DOMAIN messages \subseteq DOMAIN MessagesBy(r)
          /\ \A m \in DOMAIN messages : MessagesBy(r)[m] = messages[m]
      BY <1>1, MessagesGrow
    <3>3. \A m \in DOMAIN before : before[m].at \in Int
      BY <2>1, MessagesGrow DEF TypeOK
    <3>4. IsFiniteSet(DOMAIN MessagesBy(r) \cup {q})
      BY <3>2, FS_AddElement
    <3>5. q \notin DOMAIN messages /\ q \notin DOMAIN MessagesBy(r)
      BY <1>1, <2>1, MessagesGrow DEF Shapes
    <3>6. CASE op[q].kind = "post"
      <4>1. before = WithOwn(messages, q) /\ after = WithOwn(MessagesBy(r), q)
        BY <3>1, <3>6 DEF MessagesBy
      <4>. QED BY <3>2, <3>3, <3>4, <3>5, <4>1 DEF WithOwn
    <3>7. CASE op[q].kind # "post"
      <4>1. before = messages /\ after = MessagesBy(r)
        BY <3>1, <3>7 DEF MessagesBy
      <4>. QED BY <3>2, <3>3, <4>1
    <3>. QED BY <3>6, <3>7
  <2>. HIDE DEF before, after
  <2>3. /\ Count(before, u, 0) <= Count(after, u, 0)
        /\ Count(before, u, 0) \in Nat /\ Count(after, u, 0) \in Nat
    <3>1. IsFiniteSet(DOMAIN before)
      BY <2>2, FS_Subset
    <3>. QED BY <2>2, <3>1, CountGrows, CountIsNat
  <2>4. plan[q][u] \in Nat /\ plan[q][u] <= Count(before, u, 0)
    BY <2>1 DEF Bounded, Shapes, before
  <2>. QED BY <2>3, <2>4 DEF after
<1>8. Alone' /\ Planned'
  BY <1>1, <1>2 DEF Alone, Planned, Open
<1>9. ExactInSeries'
  <2>. SUFFICES ASSUME series, NEW u \in Users
                PROVE  UnreadBy(r, u) = Count(MessagesBy(r), u, ReadBy(r, u))
    BY <1>1, <1>3 DEF ExactInSeries, Exact, Count, UnreadOf
  <2>. QED BY <1>1 DEF Planned
<1>. QED BY <1>4, <1>5, <1>6, <1>7, <1>8, <1>9

\* A request that is rolled back, and the clock, leave the tables alone.
LEMMA RollBackHolds ==
  ASSUME IInv, NEW r \in Requests, RollBack(r)
  PROVE  IInv'
<1>. USE DEF IInv
<1>1. /\ UNCHANGED <<clock, messages, lastRead, unread, op, plan, base, series>>
      /\ r \in Open /\ pc' = [pc EXCEPT ![r] = "failed"]
  BY DEF RollBack, db
<1>2. /\ Open' = Open \ {r}
      /\ \A q \in Requests \ {r} : pc'[q] = pc[q]
      /\ pc'[r] = "failed" /\ pc[r] # "committed"
  BY <1>1 DEF Open, TypeOK
<1>3. TypeOK' /\ Shapes'
  BY <1>1, <1>2 DEF TypeOK, Shapes, OpOK
<1>4. \A q \in Requests : \A u : /\ MessagesBy(q)' = MessagesBy(q) /\ ReadBy(q, u)' = ReadBy(q, u)
                             /\ UnreadBy(q, u)' = UnreadBy(q, u)
  BY <1>1 DEF MessagesBy, ReadBy, UnreadBy, WithOwn
<1>5. Bounded' /\ Alone' /\ Planned'
  BY <1>1, <1>2, <1>4 DEF Bounded, Alone, Planned, Count, UnreadOf
<1>6. NeverTooMany' /\ ExactInSeries'
  BY <1>1 DEF NeverTooMany, ExactInSeries, Exact, Count, UnreadOf
<1>. QED BY <1>3, <1>5, <1>6

LEMMA TickHolds ==
  ASSUME IInv, Tick \/ UNCHANGED vars
  PROVE  IInv'
<1>. USE DEF IInv
<1>1. UNCHANGED <<messages, lastRead, unread, pc, op, plan, base, series>>
      /\ clock' \in 1..MaxTime /\ clock \in Nat /\ clock <= clock'
  BY UnreadAssumption DEF Tick, vars, db, TypeOK
<1>2. Open' = Open
  BY <1>1 DEF Open
<1>3. TypeOK' /\ Shapes'
  BY <1>1, <1>2 DEF TypeOK, Shapes, OpOK
<1>4. Bounded' /\ Alone' /\ Planned'
  BY <1>1, <1>2 DEF Bounded, Alone, Planned, MessagesBy, ReadBy, UnreadBy, WithOwn, Count, UnreadOf
<1>5. NeverTooMany' /\ ExactInSeries'
  BY <1>1 DEF NeverTooMany, ExactInSeries, Exact, Count, UnreadOf
<1>. QED BY <1>3, <1>4, <1>5

LEMMA Invariance == Spec => []IInv
<1>1. ASSUME IInv, [Next]_vars PROVE IInv'
  <2>1. ASSUME NEW r \in Requests, Request(r) PROVE IInv'
    BY <1>1, <2>1, BeginHolds, CountUpHolds, CommitHolds, RollBackHolds DEF Request
  <2>. QED BY <1>1, <2>1, TickHolds DEF Next
<1>. QED BY InitHolds, <1>1, PTL DEF Spec

-----------------------------------------------------------------------------
\* Type correctness: counts never go below zero, a message is never stamped
\* later than the server's clock.
THEOREM TypeCorrect == Spec => []TypeOK
<1>. QED BY Invariance, PTL DEF IInv

\* However posts and reads overlap, a badge is at most the number of messages
\* the others have in the channel.
THEOREM NeverTooManyUnread == Spec => []NeverTooMany
<1>. QED BY Invariance, PTL DEF IInv

\* As long as requests are served one after the other, the badge of every
\* member is exact: whoever's clock is ahead, and whichever way counted.
THEOREM ExactWhenSerial == Spec => []ExactInSeries
<1>. QED BY Invariance, PTL DEF IInv
-----------------------------------------------------------------------------
\* A mark-as-read that has counted: it writes the count of what it found, or
\* nothing, because the row had that count already.
Reread ==
  /\ base = [r \in Requests |-> base[r]]
  /\ \A r \in Requests : pc[r] = "counted" /\ op[r].kind = "read" =>
       LET me    == op[r].user
           count == Count(base[r].messages, me, op[r].at)
       IN  IF me \in DOMAIN plan[r] THEN plan[r][me] = count
           ELSE base[r].unread[me] = count

LEMMA RereadKept ==
  ASSUME IInv, Reread, [Next]_vars
  PROVE  Reread'
<1>. USE DEF IInv
<1>1. ASSUME NEW r \in Requests, base' = base, plan' = plan,
             pc'[r] = "counted" => pc[r] = "counted" /\ op'[r] = op[r]
      PROVE  pc'[r] = "counted" /\ op'[r].kind = "read" =>
               LET me    == op'[r].user
                   count == Count(base'[r].messages, me, op'[r].at)
               IN  IF me \in DOMAIN plan'[r] THEN plan'[r][me] = count
                   ELSE base'[r].unread[me] = count
  BY <1>1 DEF Reread
<1>2. CASE Tick \/ UNCHANGED vars
  BY <1>1, <1>2 DEF Tick, vars, Reread
<1>3. ASSUME NEW q \in Requests, NEW u \in Users, BeginPost(q, u) \/ BeginRead(q, u)
      PROVE  Reread'
  <2>1. PICK request : Begin(q, request)
    BY <1>3 DEF BeginPost, BeginRead
  <2>2. \A r \in Requests : pc'[r] = "counted" => pc[r] = "counted" /\ op'[r] = op[r]
    BY <2>1 DEF Begin, TypeOK, Shapes
  <2>. QED BY <1>1, <2>1, <2>2 DEF Begin, Reread
<1>4. ASSUME NEW q \in Requests, Commit(q) \/ RollBack(q)
      PROVE  Reread'
  <2>1. \A r \in Requests : pc'[r] = "counted" => pc[r] = "counted" /\ op'[r] = op[r]
    BY <1>4 DEF Commit, RollBack, TypeOK
  <2>. QED BY <1>1, <1>4, <2>1 DEF Commit, RollBack, Reread
<1>5. ASSUME NEW q \in Requests, CountUp(q)
      PROVE  Reread'
  <2>1. /\ op' = op /\ pc' = [pc EXCEPT ![q] = "counted"]
        /\ base' = [base EXCEPT ![q] = Found]
    BY <1>5 DEF CountUp
  <2>2. PICK p : plan' = [plan EXCEPT ![q] = p]
    BY <1>5 DEF CountUp
  <2>3. base' = [r \in Requests |-> base'[r]]
    BY <2>1 DEF Reread
  <2>4. ASSUME NEW r \in Requests \ {q}, pc'[r] = "counted", op'[r].kind = "read"
        PROVE  /\ pc[r] = "counted" /\ op[r].kind = "read" /\ op'[r] = op[r]
               /\ base'[r] = base[r] /\ plan'[r] = plan[r]
    BY <2>1, <2>2, <2>4 DEF TypeOK, Shapes, Reread
  <2>5. ASSUME op[q].kind = "read", NEW me, me = op[q].user,
               NEW count, count = Count(messages, me, op[q].at)
        PROVE  IF me \in DOMAIN plan'[q] THEN plan'[q][me] = count
               ELSE base'[q].unread[me] = count
    <3>1. plan'[q] = OnlyChanged([v \in {me} |-> count])
      BY <1>5, <2>5 DEF CountUp, Shapes
    <3>2. base'[q].unread = unread
      BY <2>1 DEF Reread, Found
    <3>. QED BY <3>1, <3>2 DEF OnlyChanged
  <2>6. base'[q].messages = messages
    BY <2>1 DEF Reread, Found
  <2>. SUFFICES ASSUME NEW r \in Requests, pc'[r] = "counted", op'[r].kind = "read"
                PROVE  LET me    == op'[r].user
                           count == Count(base'[r].messages, me, op'[r].at)
                       IN  IF me \in DOMAIN plan'[r] THEN plan'[r][me] = count
                           ELSE base'[r].unread[me] = count
    BY <2>3 DEF Reread, Count, UnreadOf
  <2>7. CASE r = q
    BY <2>1, <2>5, <2>6, <2>7
  <2>8. CASE r # q
    BY <2>4, <2>8 DEF Reread
  <2>. QED BY <2>7, <2>8
<1>. QED BY <1>2, <1>3, <1>4, <1>5 DEF Next, Request

\* A mark-as-read whose tables have not changed since its queries leaves the
\* exact count, however wrong the badge was: "recompute-on-read is the
\* self-healing reconcile".
THEOREM ReadsReconcile == Spec => ReadReconciles
<1>. DEFINE Reconciled(r) ==
       LET u == op[r].user
       IN  /\ pc[r] = "counted" /\ pc'[r] = "committed"
           /\ op[r].kind = "read"
           /\ base[r].messages = messages
           /\ base[r].lastRead[u] = lastRead[u]
           /\ base[r].unread[u] = unread[u]
           => unread'[u] = Count(messages, u, lastRead'[u])
<1>1. Init => Reread
  BY DEF Init, Reread
<1>2. ASSUME IInv, Reread, [Next]_vars
      PROVE  [\A r \in Requests : Reconciled(r)]_vars
  <2>. SUFFICES ASSUME NEW r \in Requests,
                       pc[r] = "counted", pc'[r] = "committed", op[r].kind = "read",
                       base[r].messages = messages,
                       base[r].unread[op[r].user] = unread[op[r].user]
                PROVE  unread'[op[r].user] = Count(messages, op[r].user, lastRead'[op[r].user])
    OBVIOUS
  <2>. DEFINE me == op[r].user
  <2>1. Commit(r)
    <3>1. ~(Tick \/ UNCHANGED vars)
      BY DEF Tick, vars
    <3>2. PICK q \in Requests : Request(q)
      BY <1>2, <3>1 DEF Next
    <3>3. ASSUME NEW u \in Users, BeginPost(q, u) \/ BeginRead(q, u)
          PROVE  pc' = [pc EXCEPT ![q] = "begun"]
      BY <3>3 DEF BeginPost, BeginRead, Begin
    <3>4. \/ pc' = [pc EXCEPT ![q] = "begun"]
          \/ pc' = [pc EXCEPT ![q] = "counted"]
          \/ pc' = [pc EXCEPT ![q] = "failed"]
          \/ Commit(q) /\ pc' = [pc EXCEPT ![q] = "committed"]
      BY <3>2, <3>3 DEF Request, CountUp, RollBack, Commit
    <3>. QED BY <1>2, <3>4 DEF IInv, TypeOK
  <2>2. me \in Users
    BY <1>2 DEF IInv, Shapes, OpOK, Open
  <2>3. lastRead'[me] = op[r].at
    BY <1>2, <2>1, <2>2 DEF Commit, Stamp, IInv, TypeOK
  <2>4. unread'[me] = IF me \in DOMAIN plan[r] THEN plan[r][me] ELSE unread[me]
    BY <2>1, <2>2 DEF Commit
  <2>5. IF me \in DOMAIN plan[r] THEN plan[r][me] = Count(messages, me, op[r].at)
        ELSE unread[me] = Count(messages, me, op[r].at)
    BY <1>2 DEF Reread
  <2>. QED BY <2>3, <2>4, <2>5
<1>. QED BY <1>1, <1>2, RereadKept, Invariance, PTL DEF Spec, ReadReconciles
-----------------------------------------------------------------------------
(***************************************************************************)
(* The conversation view, which reads these counts and shows the messages. *)
(* What is not inductive in "kept once" and "of the selected channel" is   *)
(* what is on its way to the list: a snapshot in flight holds each message *)
(* of its channel once (FetchOK), and nothing that is in an inbox, a list  *)
(* or a snapshot will be sent to another channel later (Sent).             *)
(***************************************************************************)
PostStates == {"unsent", "asked", "flushed", "stored", "answered", "failed"}

\* The INSERT of m was made: its author and channel are what they are.
Sent(m) == post[m] \notin {"unsent", "asked"}

ServerOK ==
  /\ post \in [Messages -> PostStates]
  /\ by = [m \in Messages |-> by[m]]
  /\ chan = [m \in Messages |-> chan[m]]
  /\ posted \in Seq(Messages)
  /\ \A i, j \in DOMAIN posted : posted[i] = posted[j] => i = j
  /\ \A i \in DOMAIN posted : Sent(posted[i])
  /\ stream \subseteq Messages
  /\ \A m \in stream : Sent(m)

Forms ==
  /\ inbox = [p \in Panels |-> inbox[p]]
  /\ sel = [p \in Panels |-> sel[p]]
  /\ shown = [p \in Panels |-> shown[p]]
  /\ badge = [p \in Panels |-> badge[p]]
  /\ meta = [p \in Panels |-> meta[p]]
  /\ fetch = [p \in Panels |-> fetch[p]]

InboxOK(p) ==
  /\ inbox[p] \in Seq(Messages)
  /\ \A i \in DOMAIN inbox[p] : Sent(inbox[p][i])

\* Who may be shown twice, and who in another channel.
SentHere(p, m) == by[m] = p /\ post[m] = "answered"

ShownOK(p) ==
  /\ shown[p] \in Seq(Messages)
  /\ \A i \in DOMAIN shown[p] :
       /\ Sent(shown[p][i])
       /\ chan[shown[p][i]] # sel[p] => SentHere(p, shown[p][i])
  /\ \A i, j \in DOMAIN shown[p] :
       shown[p][i] = shown[p][j] /\ i # j => SentHere(p, shown[p][i])
  /\ \A i, j, k \in DOMAIN shown[p] :
       shown[p][i] = shown[p][j] /\ shown[p][i] = shown[p][k] => i = j \/ i = k \/ j = k

BadgeOK(p) ==
  /\ sel[p] \in Channels \cup {None}
  /\ badge[p] \in [Channels -> Nat]
  /\ sel[p] # None => badge[p][sel[p]] = 0
  /\ meta[p] = [x \in {"at", "unread"} |-> meta[p][x]]
  /\ meta[p].unread \in [Channels -> Nat]

\* A snapshot: each message of channel c once.
AnswerOK(s, c) ==
  /\ s \in Seq(Messages)
  /\ \A i, j \in DOMAIN s : s[i] = s[j] => i = j
  /\ \A i \in DOMAIN s : Sent(s[i]) /\ chan[s[i]] = c

FetchOK(p) ==
  /\ fetch[p] = [f \in Fetches[p] |-> fetch[p][f]]
  /\ \A f \in Fetches[p] :
       /\ fetch[p][f] = [x \in {"chan", "answer"} |-> fetch[p][f][x]]
       /\ fetch[p][f].answer # None => AnswerOK(fetch[p][f].answer, fetch[p][f].chan)

PanelOK(p) == InboxOK(p) /\ ShownOK(p) /\ BadgeOK(p) /\ FetchOK(p)

ViewInv == ServerOK /\ Forms /\ \A p \in Panels : PanelOK(p)

LEMMA ViewEnough ==
  ASSUME ViewInv
  PROVE  PanelTypeOK /\ ShownTwiceOnlyByItsSender /\ ForeignOnlyByItsSender
<1>. USE DEF ViewInv, PanelOK
<1>1. PanelTypeOK
  <2>1. inbox \in [Panels -> Seq(Messages)]
    BY DEF Forms, InboxOK
  <2>2. shown \in [Panels -> Seq(Messages)]
    BY DEF Forms, ShownOK
  <2>3. /\ sel \in [Panels -> Channels \cup {None}]
        /\ badge \in [Panels -> [Channels -> Nat]]
        /\ \A p \in Panels : sel[p] # None => badge[p][sel[p]] = 0
    BY DEF Forms, BadgeOK
  <2>. QED BY <2>1, <2>2, <2>3 DEF PanelTypeOK, ServerOK, PostStates
<1>2. ShownTwiceOnlyByItsSender
  BY DEF ShownTwiceOnlyByItsSender, Places, ShownOK, SentHere
<1>3. ForeignOnlyByItsSender
  BY DEF ForeignOnlyByItsSender, ToSet, ShownOK, SentHere
<1>. QED BY <1>1, <1>2, <1>3

\* The server goes on: what was sent stays as it is, what was answered stays answered.
Onward ==
  \A m \in Messages :
    /\ Sent(m) => Sent(m)' /\ chan'[m] = chan[m] /\ by'[m] = by[m]
    /\ post[m] = "answered" => post'[m] = "answered"

LEMMA InboxKept ==
  ASSUME NEW p, InboxOK(p), Onward, inbox'[p] = inbox[p]
  PROVE  InboxOK(p)'
BY DEF InboxOK, Onward

LEMMA ShownKept ==
  ASSUME NEW p, ShownOK(p), Onward, shown'[p] = shown[p], sel'[p] = sel[p]
  PROVE  ShownOK(p)'
BY DEF ShownOK, Onward, SentHere, Sent

LEMMA BadgeKept ==
  ASSUME NEW p, BadgeOK(p), badge'[p] = badge[p], sel'[p] = sel[p], meta'[p] = meta[p]
  PROVE  BadgeOK(p)'
BY DEF BadgeOK

LEMMA AnswerKept ==
  ASSUME NEW s, NEW c, AnswerOK(s, c), Onward
  PROVE  AnswerOK(s, c)'
BY DEF AnswerOK, Onward

LEMMA FetchKept ==
  ASSUME NEW p, FetchOK(p), Onward, fetch'[p] = fetch[p]
  PROVE  FetchOK(p)'
BY AnswerKept DEF FetchOK

\* A read that is free gets a channel, and has no answer yet.
LEMMA Asks ==
  ASSUME ViewInv, Onward, NEW p \in Panels, NEW c, Fetch(p, c)
  PROVE  fetch' = [q \in Panels |-> fetch'[q]] /\ \A q \in Panels : FetchOK(q)'
<1>. DEFINE free == {f \in Fetches[p] : fetch[p][f] = Free}
            g == CHOOSE f \in free : TRUE
<1>1. g \in Fetches[p] /\ fetch[p][g] = Free
  BY DEF Fetch
<1>2. fetch' = [fetch EXCEPT ![p][g].chan = c]
  BY DEF Fetch
<1>. HIDE DEF g
<1>3. fetch = [q \in Panels |-> fetch[q]] /\ \A q \in Panels : FetchOK(q)
  BY DEF ViewInv, Forms, PanelOK
<1>4. fetch' = [q \in Panels |-> fetch'[q]]
  BY <1>2, <1>3
<1>5. ASSUME NEW q \in Panels, q # p PROVE FetchOK(q)'
  BY <1>2, <1>3, <1>5, FetchKept
<1>6. FetchOK(p)'
  <2>1. fetch'[p] = [fetch[p] EXCEPT ![g].chan = c]
    BY <1>2, <1>3
  <2>2. fetch'[p] = [f \in Fetches[p] |-> fetch'[p][f]]
    BY <1>3, <2>1 DEF FetchOK
  <2>3. ASSUME NEW f \in Fetches[p], f # g
        PROVE  /\ fetch'[p][f] = [x \in {"chan", "answer"} |-> fetch'[p][f][x]]
               /\ fetch'[p][f].answer # None
                  => AnswerOK(fetch[p][f].answer, fetch[p][f].chan)'
    <3>1. fetch'[p][f] = fetch[p][f]
      BY <1>3, <2>1, <2>3 DEF FetchOK
    <3>2. fetch[p][f].answer # None => AnswerOK(fetch[p][f].answer, fetch[p][f].chan)
      BY <1>3 DEF FetchOK
    <3>3. PICK s, d : s = fetch[p][f].answer /\ d = fetch[p][f].chan
      OBVIOUS
    <3>4. s # None => AnswerOK(s, d)'
      BY <3>2, <3>3, AnswerKept
    <3>. QED BY <1>3, <3>1, <3>3, <3>4 DEF FetchOK, AnswerOK
  <2>4. fetch'[p][g] = [chan |-> c, answer |-> None]
    BY <1>1, <1>3, <2>1 DEF FetchOK, Free
  <2>5. /\ fetch'[p][g] = [x \in {"chan", "answer"} |-> fetch'[p][g][x]]
        /\ fetch'[p][g].answer = None
    BY <2>4
  <2>6. \A f \in Fetches[p] :
          /\ fetch'[p][f] = [x \in {"chan", "answer"} |-> fetch'[p][f][x]]
          /\ fetch'[p][f].answer # None
             => AnswerOK(fetch[p][f].answer, fetch[p][f].chan)'
    BY <2>3, <2>5
  <2>. QED BY <2>2, <2>6 DEF FetchOK
<1>. QED BY <1>4, <1>5, <1>6

\* A read is over.
LEMMA Frees ==
  ASSUME ViewInv, Onward, NEW p \in Panels, NEW f \in Fetches[p],
         fetch' = [fetch EXCEPT ![p][f] = Free]
  PROVE  fetch' = [q \in Panels |-> fetch'[q]] /\ \A q \in Panels : FetchOK(q)'
<1>1. fetch = [q \in Panels |-> fetch[q]] /\ \A q \in Panels : FetchOK(q)
  BY DEF ViewInv, Forms, PanelOK
<1>2. ASSUME NEW q \in Panels, q # p PROVE FetchOK(q)'
  BY <1>1, <1>2, FetchKept
<1>3. FetchOK(p)'
  <2>1. fetch'[p] = [fetch[p] EXCEPT ![f] = Free]
    BY <1>1
  <2>2. /\ Free = [x \in {"chan", "answer"} |-> Free[x]]
        /\ Free.answer = None
    BY DEF Free
  <2>. QED BY <1>1, <2>1, <2>2, AnswerKept DEF FetchOK
<1>. QED BY <1>1, <1>2, <1>3

\* What is posted to a session is a message that was sent.
LEMMA Publishes ==
  ASSUME ViewInv, Onward, NEW m \in Messages, Sent(m)', Publish(m)
  PROVE  inbox' = [q \in Panels |-> inbox'[q]] /\ \A q \in Panels : InboxOK(q)'
<1>1. inbox' = [q \in Panels |-> Append(inbox[q], m)]
  BY DEF Publish
<1>2. ASSUME NEW q \in Panels PROVE InboxOK(q)'
  <2>1. InboxOK(q) /\ inbox'[q] = Append(inbox[q], m)
    BY <1>1 DEF ViewInv, PanelOK
  <2>2. inbox[q] \in Seq(Messages) /\ Len(inbox[q]) \in Nat
    BY <2>1 DEF InboxOK
  <2>3. /\ inbox'[q] \in Seq(Messages) /\ Len(inbox'[q]) = Len(inbox[q]) + 1
        /\ \A i \in 1..Len(inbox[q]) : inbox'[q][i] = inbox[q][i]
        /\ inbox'[q][Len(inbox[q]) + 1] = m
    BY <2>1, <2>2, AppendProperties
  <2>4. \A i \in 1..Len(inbox[q]) : \A n : n = inbox[q][i] => Sent(n)'
    BY <2>1, <2>2, ElementOfSeq DEF InboxOK, Onward
  <2>5. \A i \in DOMAIN inbox'[q] : inbox'[q][i] = m
          \/ \E j \in 1..Len(inbox[q]) : inbox'[q][i] = inbox[q][j]
    BY <2>2, <2>3
  <2>. QED BY <2>3, <2>4, <2>5 DEF InboxOK, Sent
<1>. QED BY <1>1, <1>2

\* A message is added to the list.
LEMMA Shows ==
  ASSUME NEW p, ShownOK(p), Onward, sel'[p] = sel[p],
         NEW m \in Messages, shown'[p] = Append(shown[p], m), Sent(m)',
         chan'[m] # sel[p] => SentHere(p, m)',
         \A i, j \in DOMAIN shown[p] : shown[p][i] = m /\ shown[p][j] = m => i = j,
         (\E i \in DOMAIN shown[p] : shown[p][i] = m) => SentHere(p, m)'
  PROVE  ShownOK(p)'
<1>1. PICK s, t, n :
        /\ s = shown[p] /\ s \in Seq(Messages) /\ n \in Nat /\ DOMAIN s = 1..n
        /\ t = shown'[p] /\ t \in Seq(Messages) /\ DOMAIN t = 1..(n + 1)
        /\ \A i \in 1..n : t[i] = s[i]
        /\ t[n + 1] = m
  <2>1. shown[p] \in Seq(Messages)
    BY DEF ShownOK
  <2>2. /\ Append(shown[p], m) \in Seq(Messages)
        /\ Len(Append(shown[p], m)) = Len(shown[p]) + 1
        /\ \A i \in 1..Len(shown[p]) : Append(shown[p], m)[i] = shown[p][i]
        /\ Append(shown[p], m)[Len(shown[p]) + 1] = m
    BY <2>1, AppendProperties
  <2>3. /\ Len(shown[p]) \in Nat /\ DOMAIN shown[p] = 1..Len(shown[p])
        /\ DOMAIN Append(shown[p], m) = 1..(Len(shown[p]) + 1)
    BY <2>1, <2>2
  <2>. QED BY <2>1, <2>2, <2>3, Zenon
<1>2. \A i \in 1..n :
        /\ s[i] \in Messages /\ Sent(s[i]) /\ Sent(s[i])' /\ chan'[s[i]] = chan[s[i]]
        /\ SentHere(p, s[i]) => SentHere(p, s[i])'
  BY <1>1, ElementOfSeq DEF ShownOK, Onward, SentHere, Sent
<1>3. \A i \in 1..(n + 1) : i \in 1..n \/ i = n + 1
  BY <1>1
<1>4. \A i \in 1..n : chan[s[i]] # sel[p] => SentHere(p, s[i])
  BY <1>1 DEF ShownOK
<1>5. \A i \in DOMAIN t : Sent(t[i])' /\ (chan'[t[i]] # sel[p] => SentHere(p, t[i])')
  BY <1>1, <1>2, <1>3, <1>4
<1>6. /\ \A i, j \in 1..n : s[i] = s[j] /\ i # j => SentHere(p, s[i])
      /\ \A i, j, k \in 1..n : s[i] = s[j] /\ s[i] = s[k] => i = j \/ i = k \/ j = k
      /\ \A i, j \in 1..n : s[i] = m /\ s[j] = m => i = j
      /\ \A i \in 1..n : s[i] = m => SentHere(p, m)'
  BY <1>1 DEF ShownOK
<1>7. \A i, j \in DOMAIN t : t[i] = t[j] /\ i # j => SentHere(p, t[i])'
  BY <1>1, <1>2, <1>3, <1>6
<1>8. \A i, j, k \in DOMAIN t : t[i] = t[j] /\ t[i] = t[k] => i = j \/ i = k \/ j = k
  <2>. SUFFICES ASSUME NEW i \in DOMAIN t, NEW j \in DOMAIN t, NEW k \in DOMAIN t,
                       t[i] = t[j], t[i] = t[k]
                PROVE  i = j \/ i = k \/ j = k
    OBVIOUS
  <2>1. CASE i \in 1..n /\ j \in 1..n /\ k \in 1..n
    <3>1. t[i] = s[i] /\ t[j] = s[j] /\ t[k] = s[k]
      BY <1>1, <2>1, Zenon
    <3>. QED BY <1>6, <2>1, <3>1, Zenon
  <2>2. CASE t[i] = m
    BY <1>1, <1>3, <1>6, <2>2
  <2>. QED BY <1>1, <1>3, <2>1, <2>2
<1>. QED BY <1>1, <1>5, <1>7, <1>8 DEF ShownOK, SentHere, Sent

\* Steps of the server that leave the panels alone.
LEMMA ServerSteps ==
  ASSUME ViewInv, Onward, ServerOK', UNCHANGED <<inbox, sel, shown, badge, meta, fetch>>
  PROVE  ViewInv'
<1>1. \A p \in Panels : PanelOK(p)'
  BY InboxKept, ShownKept, BadgeKept, FetchKept DEF ViewInv, PanelOK
<1>. QED BY <1>1 DEF ViewInv, Forms

LEMMA Stays ==
  ASSUME UNCHANGED <<post, by, chan>>
  PROVE  Onward
BY DEF Onward, Sent

LEMMA Asked ==
  ASSUME ViewInv, NEW m \in Messages, NEW who, NEW c, Ask(m, who, c)
  PROVE  ViewInv'
<1>1. /\ post[m] = "unsent" /\ post' = [post EXCEPT ![m] = "asked"]
      /\ by' = [by EXCEPT ![m] = who] /\ chan' = [chan EXCEPT ![m] = c]
      /\ UNCHANGED <<posted, stream>>
      /\ UNCHANGED <<inbox, sel, shown, badge, meta, fetch>>
  BY DEF Ask, panel
<1>2. ServerOK
  BY DEF ViewInv
<1>3. \A n \in Messages : Sent(n) => n # m /\ post'[n] = post[n]
  BY <1>1, <1>2 DEF ServerOK, Sent
<1>4. Onward
  BY <1>1, <1>2, <1>3 DEF Onward, ServerOK, Sent
<1>5. ServerOK'
  <2>1. \A i \in DOMAIN posted : Sent(posted[i])'
    <3>1. \A i \in DOMAIN posted : posted[i] \in Messages /\ Sent(posted[i])
      BY <1>2, ElementOfSeq DEF ServerOK
    <3>2. \A n \in Messages : Sent(n) => Sent(n)'
      BY <1>3 DEF Sent
    <3>. QED BY <1>1, <3>1, <3>2
  <2>2. \A n \in stream : Sent(n)'
    BY <1>2, <1>3 DEF ServerOK, Sent
  <2>. QED BY <1>1, <1>2, <2>1, <2>2 DEF ServerOK, Sent, PostStates
<1>. QED BY <1>1, <1>4, <1>5, ServerSteps

LEMMA AppendOnce ==
  ASSUME NEW S, NEW s \in Seq(S), NEW m \in S,
         \A i, j \in DOMAIN s : s[i] = s[j] => i = j,
         \A i \in DOMAIN s : s[i] # m
  PROVE  /\ Append(s, m) \in Seq(S)
         /\ \A i, j \in DOMAIN Append(s, m) : Append(s, m)[i] = Append(s, m)[j] => i = j
         /\ \A i \in DOMAIN Append(s, m) :
              Append(s, m)[i] = m \/ \E j \in DOMAIN s : Append(s, m)[i] = s[j]
<1>1. /\ Append(s, m) \in Seq(S) /\ Len(Append(s, m)) = Len(s) + 1
      /\ \A i \in 1..Len(s) : Append(s, m)[i] = s[i]
      /\ Append(s, m)[Len(s) + 1] = m
  BY AppendProperties
<1>2. \A i \in 1..(Len(s) + 1) : i \in 1..Len(s) \/ i = Len(s) + 1
  OBVIOUS
<1>. QED BY <1>1, <1>2

LEMMA Flushed ==
  ASSUME ViewInv, NEW m \in Messages, Flush(m)
  PROVE  ViewInv'
<1>1. /\ post[m] = "asked" /\ post' = [post EXCEPT ![m] = "flushed"]
      /\ posted' = Append(posted, m) /\ stream' = stream \cup {m}
      /\ UNCHANGED <<by, chan>>
      /\ UNCHANGED <<inbox, sel, shown, badge, meta, fetch>>
  BY DEF Flush, panel
<1>2. ServerOK
  BY DEF ViewInv
<1>3. \A n \in Messages : Sent(n) => Sent(n)' /\ n # m
  BY <1>1, <1>2 DEF ServerOK, Sent
<1>4. Onward /\ Sent(m)'
  BY <1>1, <1>2, <1>3 DEF Onward, ServerOK, Sent
<1>5. /\ posted' \in Seq(Messages)
      /\ \A i, j \in DOMAIN posted' : posted'[i] = posted'[j] => i = j
      /\ \A i \in DOMAIN posted' : posted'[i] = m \/ \E j \in DOMAIN posted : posted'[i] = posted[j]
  BY <1>1, <1>2, <1>3, AppendOnce DEF ServerOK
<1>6. \A i \in DOMAIN posted : \A n : n = posted[i] => Sent(n)'
  BY <1>2, <1>3, ElementOfSeq DEF ServerOK
<1>7. (\A i \in DOMAIN posted : Sent(posted[i]))'
  BY <1>4, <1>5, <1>6 DEF Sent
<1>8. ServerOK'
  BY <1>1, <1>2, <1>3, <1>4, <1>5, <1>7 DEF ServerOK, Sent, PostStates
<1>. QED BY <1>1, <1>4, <1>8, ServerSteps

\* A message moves on: it was sent, or fails.
LEMMA Moves ==
  ASSUME ServerOK, NEW m \in Messages, NEW to \in {"stored", "answered", "failed"},
         post[m] # "answered", post' = [post EXCEPT ![m] = to],
         UNCHANGED <<by, chan, posted, stream>>
  PROVE  Onward /\ ServerOK' /\ Sent(m)' /\ post'[m] = to
<1>1. \A n \in Messages : Sent(n) => Sent(n)'
  BY DEF ServerOK, Sent
<1>. QED BY <1>1, ElementOfSeq DEF ServerOK, Onward, Sent, PostStates

LEMMA CommittedOrRejected ==
  ASSUME ViewInv, NEW m \in Messages, CommitMessage(m) \/ Reject(m)
  PROVE  ViewInv'
<1>1. /\ post[m] # "answered"
      /\ \E to \in {"stored", "answered", "failed"} : post' = [post EXCEPT ![m] = to]
      /\ UNCHANGED <<by, chan, posted, stream>>
      /\ UNCHANGED <<inbox, sel, shown, badge, meta, fetch>>
  BY DEF CommitMessage, Reject, panel
<1>. QED BY <1>1, Moves, ServerSteps DEF ViewInv

LEMMA Streams ==
  ASSUME ViewInv, NEW m \in Messages, Bridge(m) \/ LoseEvent(m)
  PROVE  ViewInv'
<1>1. /\ m \in stream /\ stream' = stream \ {m}
      /\ UNCHANGED <<post, by, chan, posted, sel, shown, badge, meta, fetch>>
      /\ Publish(m) \/ UNCHANGED inbox
  BY DEF Bridge, LoseEvent, panel
<1>2. Onward
  BY <1>1, Stays
<1>3. ServerOK' /\ Sent(m)'
  BY <1>1 DEF ViewInv, ServerOK, Sent
<1>4. CASE UNCHANGED inbox
  BY <1>1, <1>2, <1>3, <1>4, ServerSteps
<1>5. CASE Publish(m)
  <2>1. \A p \in Panels : ShownOK(p)' /\ BadgeOK(p)' /\ FetchOK(p)'
    BY <1>1, <1>2, ShownKept, BadgeKept, FetchKept DEF ViewInv, PanelOK
  <2>. QED BY <1>1, <1>2, <1>3, <1>5, <2>1, Publishes DEF ViewInv, PanelOK, Forms
<1>. QED BY <1>1, <1>4, <1>5

-----------------------------------------------------------------------------
\* The steps of the panels.

LEMMA SameServer ==
  ASSUME ViewInv, UNCHANGED <<post, by, chan, posted, stream>>
  PROVE  Onward /\ ServerOK'
BY Stays DEF ViewInv, ServerOK, Sent

LEMMA Selects ==
  ASSUME ViewInv, NEW p \in Panels, ChannelsLoaded(p) \/ Select(p) \/ Poll(p)
  PROVE  ViewInv'
<1>1. /\ UNCHANGED <<post, by, chan, posted, stream, inbox>>
      /\ meta' = meta \/ meta' = [meta EXCEPT ![p].at = "asked"]
      /\ \/ UNCHANGED <<sel, shown, badge>> /\ \E c : Fetch(p, c)
         \/ \E c \in Channels : SelectChannel(p, c)
  BY DEF ChannelsLoaded, Select, Poll, server, panel
<1>2. Onward /\ ServerOK'
  BY <1>1, SameServer
<1>3. Forms /\ \A q \in Panels : PanelOK(q)
  BY DEF ViewInv
<1>4. PICK c : Fetch(p, c)
  BY <1>1 DEF SelectChannel
<1>5. fetch' = [q \in Panels |-> fetch'[q]] /\ \A q \in Panels : FetchOK(q)'
  BY <1>2, <1>4, Asks
<1>6. \A q \in Panels : InboxOK(q)'
  BY <1>1, <1>2, <1>3, InboxKept DEF PanelOK
<1>7. /\ meta' = [q \in Panels |-> meta'[q]]
      /\ \A q \in Panels : /\ meta'[q] = [x \in {"at", "unread"} |-> meta'[q][x]]
                           /\ meta'[q].unread = meta[q].unread
  <2>1. \A q \in Panels : meta[q] = [x \in {"at", "unread"} |-> meta[q][x]]
    BY <1>3 DEF PanelOK, BadgeOK
  <2>2. CASE meta' = meta
    BY <1>3, <2>1, <2>2 DEF Forms
  <2>3. CASE meta' = [meta EXCEPT ![p].at = "asked"]
    <3>1. /\ meta' = [q \in Panels |-> meta'[q]]
          /\ \A q \in Panels : meta'[q] = IF q = p THEN [meta[q] EXCEPT !.at = "asked"] ELSE meta[q]
      BY <1>3, <2>3 DEF Forms
    <3>. QED BY <2>1, <3>1
  <2>. QED BY <1>1, <2>2, <2>3
<1>8. CASE UNCHANGED <<sel, shown, badge>>
  <2>1. \A q \in Panels : ShownOK(q)' /\ BadgeOK(q)'
    BY <1>2, <1>3, <1>7, <1>8, ShownKept DEF PanelOK, BadgeOK
  <2>. QED BY <1>1, <1>2, <1>3, <1>5, <1>6, <1>7, <1>8, <2>1 DEF ViewInv, PanelOK, Forms
<1>9. ASSUME NEW d \in Channels, SelectChannel(p, d) PROVE ViewInv'
  <2>1. /\ sel' = [sel EXCEPT ![p] = d] /\ shown' = [shown EXCEPT ![p] = <<>>]
        /\ badge' = [badge EXCEPT ![p][d] = 0]
    BY <1>9 DEF SelectChannel
  <2>2. ASSUME NEW q \in Panels, q # p PROVE ShownOK(q)' /\ BadgeOK(q)'
    <3>1. sel'[q] = sel[q] /\ shown'[q] = shown[q] /\ badge'[q] = badge[q]
      BY <1>3, <2>1, <2>2 DEF Forms
    <3>. QED BY <1>2, <1>3, <1>7, <3>1, ShownKept DEF PanelOK, BadgeOK
  <2>3. /\ sel'[p] = d /\ shown'[p] = <<>>
        /\ badge'[p] = [badge[p] EXCEPT ![d] = 0]
    BY <1>3, <2>1 DEF Forms
  <2>4. ShownOK(p)' /\ BadgeOK(p)'
    <3>1. ShownOK(p)'
      BY <2>3 DEF ShownOK
    <3>2. badge[p] \in [Channels -> Nat] /\ meta[p].unread \in [Channels -> Nat]
      BY <1>3 DEF PanelOK, BadgeOK
    <3>3. badge'[p] \in [Channels -> Nat] /\ badge'[p][d] = 0
      BY <2>3, <3>2
    <3>. QED BY <1>7, <2>3, <3>1, <3>2, <3>3 DEF BadgeOK
  <2>5. Forms'
    BY <1>1, <1>3, <1>5, <1>7, <2>1 DEF Forms
  <2>. QED BY <1>2, <1>5, <1>6, <2>2, <2>4, <2>5 DEF ViewInv, PanelOK
<1>. QED BY <1>1, <1>8, <1>9

\* The memberships, which bring badges.
LEMMA Memberships ==
  ASSUME ViewInv, NEW p \in Panels, ServeMeta(p) \/ MetaLoaded(p) \/ MetaFails(p)
  PROVE  ViewInv'
<1>1. UNCHANGED <<post, by, chan, posted, stream, inbox, sel, shown, fetch>>
  BY DEF ServeMeta, MetaLoaded, MetaFails, server, panel
<1>2. Onward /\ ServerOK'
  BY <1>1, SameServer
<1>3. Forms /\ \A q \in Panels : PanelOK(q)
  BY DEF ViewInv
<1>4. PICK n \in [Channels -> Nat], at \in {"served", "loaded"} :
        /\ meta' = [meta EXCEPT ![p] = [at |-> at, unread |-> n]]
        /\ badge' = badge \/ badge' = [badge EXCEPT ![p] = Badges(p, meta[p].unread)]
  <2>1. NoBadges \in [Channels -> Nat] /\ Len(posted) \in Nat
    BY DEF NoBadges, ViewInv, ServerOK
  <2>2. [Channels -> 0..Len(posted)] \subseteq [Channels -> Nat]
    BY <2>1
  <2>3. CASE ServeMeta(p)
    BY <2>2, <2>3 DEF ServeMeta, panel
  <2>4. CASE MetaLoaded(p) \/ MetaFails(p)
    BY <2>1, <2>4 DEF MetaLoaded, MetaFails, panel
  <2>. QED BY <2>3, <2>4
<1>5. ASSUME NEW q \in Panels PROVE BadgeOK(q)'
  <2>1. CASE q # p
    <3>1. meta'[q] = meta[q] /\ badge'[q] = badge[q]
      BY <1>3, <1>4, <2>1 DEF Forms
    <3>. QED BY <1>1, <1>3, <3>1, BadgeKept DEF PanelOK
  <2>2. CASE q = p
    <3>1. meta'[p] = [at |-> at, unread |-> n]
      BY <1>3, <1>4 DEF Forms
    <3>2. meta'[p] = [x \in {"at", "unread"} |-> meta'[p][x]] /\ meta'[p].unread = n
      BY <3>1
    <3>3. badge'[p] = badge[p] \/ badge'[p] = Badges(p, meta[p].unread)
      BY <1>3, <1>4 DEF Forms
    <3>4. /\ badge[p] \in [Channels -> Nat] /\ meta[p].unread \in [Channels -> Nat]
          /\ sel[p] \in Channels \cup {None} /\ (sel[p] # None => badge[p][sel[p]] = 0)
      BY <1>3 DEF PanelOK, BadgeOK
    <3>5. Badges(p, meta[p].unread) \in [Channels -> Nat]
      BY <3>4 DEF Badges
    <3>6. sel[p] # None => Badges(p, meta[p].unread)[sel[p]] = 0
      BY <3>4 DEF Badges
    <3>7. badge'[p] \in [Channels -> Nat] /\ (sel[p] # None => badge'[p][sel[p]] = 0)
      BY <3>3, <3>4, <3>5, <3>6
    <3>. QED BY <1>1, <2>2, <3>2, <3>4, <3>7 DEF BadgeOK
  <2>. QED BY <2>1, <2>2
<1>6. \A q \in Panels : InboxOK(q)' /\ ShownOK(q)' /\ FetchOK(q)'
  BY <1>1, <1>2, <1>3, InboxKept, ShownKept, FetchKept DEF PanelOK
<1>7. Forms'
  BY <1>1, <1>3, <1>4 DEF Forms
<1>. QED BY <1>2, <1>5, <1>6, <1>7 DEF ViewInv, PanelOK

LEMMA AnswersCome ==
  ASSUME ViewInv, NEW m \in Messages, post[m] = "stored", post' = [post EXCEPT ![m] = "answered"],
         Publish(m), UNCHANGED <<by, chan, posted, stream, sel, badge, meta, fetch>>,
         \/ UNCHANGED shown
         \/ \E p \in Panels : by[m] = p /\ shown' = [shown EXCEPT ![p] = Append(@, m)]
  PROVE  ViewInv'
<1>1. ServerOK /\ Forms /\ \A q \in Panels : PanelOK(q)
  BY DEF ViewInv
<1>2. Onward /\ ServerOK' /\ Sent(m)' /\ post'[m] = "answered"
  BY <1>1, Moves
<1>3. inbox' = [q \in Panels |-> inbox'[q]] /\ \A q \in Panels : InboxOK(q)'
  BY <1>2, Publishes
<1>4. \A q \in Panels : BadgeOK(q)' /\ FetchOK(q)'
  BY <1>1, <1>2, BadgeKept, FetchKept DEF PanelOK
<1>5. ASSUME NEW q \in Panels PROVE ShownOK(q)'
  <2>1. CASE shown'[q] = shown[q]
    BY <1>1, <1>2, <2>1, ShownKept DEF PanelOK
  <2>2. CASE shown'[q] # shown[q]
    <3>1. by[m] = q /\ shown'[q] = Append(shown[q], m)
      BY <1>1, <2>2 DEF Forms
    <3>2. SentHere(q, m)'
      BY <1>2, <3>1 DEF SentHere
    <3>3. \A i, j \in DOMAIN shown[q] : shown[q][i] = m /\ shown[q][j] = m => i = j
      BY <1>1 DEF PanelOK, ShownOK, SentHere
    <3>. QED BY <1>1, <1>2, <3>1, <3>2, <3>3, Shows DEF PanelOK
  <2>. QED BY <2>1, <2>2
<1>6. Forms'
  BY <1>1, <1>3 DEF Forms
<1>. QED BY <1>2, <1>3, <1>4, <1>5, <1>6 DEF ViewInv, PanelOK

\* onPushed: a message of the selected channel that is shown already is not added.
LEMMA Pushes ==
  ASSUME ViewInv, NEW p \in Panels, Pushed(p)
  PROVE  ViewInv'
<1>1. /\ UNCHANGED <<post, by, chan, posted, stream, sel, meta, fetch>>
      /\ inbox[p] # <<>> /\ inbox' = [inbox EXCEPT ![p] = Tail(@)]
  BY DEF Pushed, server
<1>2. Onward /\ ServerOK'
  BY <1>1, SameServer
<1>3. Forms /\ \A q \in Panels : PanelOK(q)
  BY DEF ViewInv
<1>4. PICK m : m = Head(inbox[p])
  OBVIOUS
<1>5. /\ inbox[p] \in Seq(Messages) /\ m \in Messages /\ Sent(m)
      /\ Tail(inbox[p]) \in Seq(Messages)
      /\ \A i \in DOMAIN Tail(inbox[p]) : \E j \in DOMAIN inbox[p] : Tail(inbox[p])[i] = inbox[p][j]
  <2>1. inbox[p] \in Seq(Messages) /\ \A i \in DOMAIN inbox[p] : Sent(inbox[p][i])
    BY <1>3 DEF PanelOK, InboxOK
  <2>. QED BY <1>1, <1>4, <2>1, HeadTailProperties
<1>6. \A q \in Panels : InboxOK(q)'
  <2>1. ASSUME NEW q \in Panels, q # p PROVE InboxOK(q)'
    BY <1>1, <1>2, <1>3, <2>1, InboxKept DEF PanelOK, Forms
  <2>2. inbox'[p] = Tail(inbox[p])
    BY <1>1, <1>3 DEF Forms
  <2>3. InboxOK(p)'
    BY <1>1, <1>3, <1>5, <2>2 DEF PanelOK, InboxOK, Sent
  <2>. QED BY <2>1, <2>3
<1>7. \A q \in Panels : FetchOK(q)'
  BY <1>1, <1>2, <1>3, FetchKept DEF PanelOK
<1>8. CASE chan[m] = sel[p] /\ AddPushed(p, m) /\ UNCHANGED badge
  <2>1. ASSUME NEW q \in Panels PROVE ShownOK(q)'
    <3>1. CASE shown'[q] = shown[q]
      BY <1>1, <1>2, <1>3, <3>1, ShownKept DEF PanelOK
    <3>2. CASE shown'[q] # shown[q]
      <4>1. /\ q = p /\ m \notin ToSet(shown[p])
            /\ shown'[p] = Append(shown[p], m)
        BY <1>3, <1>8, <3>2 DEF AddPushed, Forms
      <4>2. \A i \in DOMAIN shown[p] : shown[p][i] # m
        BY <4>1 DEF ToSet
      <4>3. Sent(m)' /\ chan'[m] = sel[p]
        BY <1>1, <1>5, <1>8 DEF Sent
      <4>. QED BY <1>1, <1>2, <1>3, <1>5, <4>1, <4>2, <4>3, Shows DEF PanelOK
    <3>. QED BY <3>1, <3>2
  <2>2. \A q \in Panels : BadgeOK(q)'
    BY <1>1, <1>3, <1>8, BadgeKept DEF PanelOK
  <2>3. Forms'
    BY <1>1, <1>3, <1>8 DEF Forms, AddPushed
  <2>. QED BY <1>2, <1>6, <1>7, <2>1, <2>2, <2>3 DEF ViewInv, PanelOK
<1>9. CASE /\ chan[m] # sel[p] /\ UNCHANGED shown
           /\ badge' = badge \/ badge' = [badge EXCEPT ![p][chan[m]] = @ + 1]
  <2>1. \A q \in Panels : ShownOK(q)'
    BY <1>1, <1>2, <1>3, <1>9, ShownKept DEF PanelOK
  <2>2. ASSUME NEW q \in Panels PROVE BadgeOK(q)'
    <3>1. CASE badge'[q] = badge[q]
      BY <1>1, <1>3, <3>1, BadgeKept DEF PanelOK
    <3>2. CASE badge'[q] # badge[q]
      <4>1. q = p /\ badge'[p] = [badge[p] EXCEPT ![chan[m]] = @ + 1]
        BY <1>3, <1>9, <3>2 DEF Forms
      <4>2. /\ badge[p] \in [Channels -> Nat] /\ sel[p] \in Channels \cup {None}
            /\ sel[p] # None => badge[p][sel[p]] = 0
        BY <1>3 DEF PanelOK, BadgeOK
      <4>3. badge'[p] \in [Channels -> Nat]
        <5>1. badge'[p] = [c \in Channels |-> IF c = chan[m] THEN badge[p][c] + 1 ELSE badge[p][c]]
          BY <4>1, <4>2
        <5>2. \A c \in Channels : badge[p][c] \in Nat
          BY <4>2
        <5>. QED BY <5>1, <5>2
      <4>4. sel[p] # None => badge'[p][sel[p]] = 0
        BY <1>9, <4>1, <4>2
      <4>. QED BY <1>1, <1>3, <4>1, <4>3, <4>4 DEF PanelOK, BadgeOK
    <3>. QED BY <3>1, <3>2
  <2>3. Forms'
    BY <1>1, <1>3, <1>9 DEF Forms
  <2>. QED BY <1>2, <1>6, <1>7, <2>1, <2>2, <2>3 DEF ViewInv, PanelOK
<1>. QED BY <1>4, <1>8, <1>9 DEF Pushed

\* A snapshot has each message once, because the messages are listed once.
LEMMA SnapshotIsAnswer ==
  ASSUME ServerOK, NEW c, NEW s \in Snapshots(c)
  PROVE  AnswerOK(s, c)
<1>1. /\ posted \in Seq(Messages)
      /\ \A i \in DOMAIN posted : posted[i] \in Messages /\ Sent(posted[i])
      /\ \A i, j \in DOMAIN posted : posted[i] = posted[j] => i = j
  BY ElementOfSeq DEF ServerOK
<1>2. \A m \in Stored(c) : m \in Messages /\ Sent(m) /\ chan[m] = c
  BY <1>1 DEF Stored, ToSet
<1>3. PICK n \in 0..Len(posted) : s \in [1..n -> Stored(c)]
  BY DEF Snapshots, SeqOf
<1>4. n \in Nat /\ DOMAIN s = 1..n /\ \A i \in 1..n : s[i] \in Stored(c)
  BY <1>1, <1>3
<1>5. s \in Seq(Messages)
  <2>1. s \in [1..n -> Messages]
    BY <1>2, <1>3
  <2>. QED BY <1>4, <2>1, IsASeq
<1>6. \A i, j \in DOMAIN s : i < j => s[i] # s[j]
  BY <1>1 DEF Snapshots, Earlier
<1>7. \A i, j \in DOMAIN s : s[i] = s[j] => i = j
  BY <1>4, <1>6
<1>. QED BY <1>2, <1>4, <1>5, <1>7 DEF AnswerOK

\* Reads are served and answered, or fail.
LEMMA Reads ==
  ASSUME ViewInv, NEW p \in Panels, NEW f \in Fetches[p],
         Serve(p, f) \/ FetchAnswered(p, f) \/ FetchFails(p, f)
  PROVE  ViewInv'
<1>1. UNCHANGED <<post, by, chan, posted, stream, inbox, sel, badge, meta>>
  BY DEF Serve, FetchAnswered, FetchFails, server, panel
<1>2. Onward /\ ServerOK'
  BY <1>1, SameServer
<1>3. ServerOK /\ Forms /\ \A q \in Panels : PanelOK(q)
  BY DEF ViewInv
<1>4. \A q \in Panels : InboxOK(q)' /\ BadgeOK(q)'
  BY <1>1, <1>2, <1>3, InboxKept, BadgeKept DEF PanelOK
<1>5. CASE Serve(p, f)
  <2>1. PICK s \in Snapshots(fetch[p][f].chan) : fetch' = [fetch EXCEPT ![p][f].answer = s]
    BY <1>5 DEF Serve
  <2>2. UNCHANGED shown
    BY <1>5 DEF Serve, panel
  <2>3. AnswerOK(s, fetch[p][f].chan)
    BY <1>3, SnapshotIsAnswer
  <2>4. fetch' = [q \in Panels |-> fetch'[q]]
        /\ \A q \in Panels :
             fetch'[q] = IF q = p THEN [fetch[p] EXCEPT ![f].answer = s] ELSE fetch[q]
    BY <1>3, <2>1 DEF Forms
  <2>5. ASSUME NEW q \in Panels, q # p PROVE FetchOK(q)'
    BY <1>2, <1>3, <2>4, <2>5, FetchKept DEF PanelOK
  <2>6. FetchOK(p)'
    <3>1. /\ fetch[p] = [g \in Fetches[p] |-> fetch[p][g]]
          /\ \A g \in Fetches[p] :
               /\ fetch[p][g] = [x \in {"chan", "answer"} |-> fetch[p][g][x]]
               /\ fetch[p][g].answer # None => AnswerOK(fetch[p][g].answer, fetch[p][g].chan)
      BY <1>3 DEF PanelOK, FetchOK
    <3>2. /\ fetch'[p] = [g \in Fetches[p] |-> fetch'[p][g]]
          /\ \A g \in Fetches[p] \ {f} : fetch'[p][g] = fetch[p][g]
          /\ fetch'[p][f] = [fetch[p][f] EXCEPT !.answer = s]
      BY <2>4, <3>1
    <3>3. /\ fetch'[p][f] = [x \in {"chan", "answer"} |-> fetch'[p][f][x]]
          /\ fetch'[p][f].answer = s /\ fetch'[p][f].chan = fetch[p][f].chan
      BY <3>1, <3>2
    <3>4. PICK c : c = fetch[p][f].chan
      OBVIOUS
    <3>5. AnswerOK(s, c)'
      BY <1>2, <2>3, <3>4, AnswerKept
    <3>6. ASSUME NEW g \in Fetches[p], g # f
          PROVE  /\ fetch'[p][g] = [x \in {"chan", "answer"} |-> fetch'[p][g][x]]
                 /\ (fetch[p][g].answer # None => AnswerOK(fetch[p][g].answer, fetch[p][g].chan))'
      <4>1. PICK t, d : t = fetch[p][g].answer /\ d = fetch[p][g].chan
        OBVIOUS
      <4>2. t # None => AnswerOK(t, d)'
        BY <1>2, <3>1, <4>1, AnswerKept
      <4>. QED BY <3>1, <3>2, <3>6, <4>1, <4>2
    <3>. QED BY <3>2, <3>3, <3>4, <3>5, <3>6 DEF FetchOK
  <2>7. \A q \in Panels : ShownOK(q)'
    BY <1>1, <1>2, <1>3, <2>2, ShownKept DEF PanelOK
  <2>8. Forms'
    BY <1>1, <1>3, <2>2, <2>4 DEF Forms
  <2>. QED BY <1>2, <1>4, <2>5, <2>6, <2>7, <2>8 DEF ViewInv, PanelOK
<1>6. CASE FetchAnswered(p, f) \/ FetchFails(p, f)
  <2>1. /\ fetch' = [fetch EXCEPT ![p][f] = Free]
        /\ \/ UNCHANGED shown
           \/ /\ fetch[p][f].answer # None /\ fetch[p][f].chan = sel[p]
              /\ shown' = [shown EXCEPT ![p] = fetch[p][f].answer]
    BY <1>6 DEF FetchAnswered, FetchFails, Render, panel
  <2>2. fetch' = [q \in Panels |-> fetch'[q]] /\ \A q \in Panels : FetchOK(q)'
    BY <1>2, <2>1, Frees
  <2>3. ASSUME NEW q \in Panels PROVE ShownOK(q)'
    <3>1. CASE shown'[q] = shown[q]
      BY <1>1, <1>2, <1>3, <3>1, ShownKept DEF PanelOK
    <3>2. CASE shown'[q] # shown[q]
      <4>1. /\ q = p /\ fetch[p][f].answer # None /\ fetch[p][f].chan = sel[p]
            /\ shown'[p] = fetch[p][f].answer
        BY <1>3, <2>1, <3>2 DEF Forms
      <4>2. AnswerOK(shown'[p], sel[p])
        BY <1>3, <4>1 DEF PanelOK, FetchOK
      <4>. QED BY <1>1, <4>1, <4>2 DEF AnswerOK, ShownOK, Sent
    <3>. QED BY <3>1, <3>2
  <2>4. Forms'
    BY <1>1, <1>3, <2>1, <2>2 DEF Forms
  <2>. QED BY <1>2, <1>4, <2>2, <2>3, <2>4 DEF ViewInv, PanelOK
<1>. QED BY <1>5, <1>6

LEMMA ViewStep ==
  ASSUME ViewInv, [PanelNext]_panelVars
  PROVE  ViewInv'
<1>1. CASE UNCHANGED panelVars
  <2>1. /\ UNCHANGED <<post, by, chan, posted, stream>>
        /\ UNCHANGED <<inbox, sel, shown, badge, meta, fetch>>
    BY <1>1 DEF panelVars, server, panel
  <2>. QED BY <2>1, SameServer, ServerSteps
<1>2. ASSUME NEW p \in Panels, Panel(p) PROVE ViewInv'
  <2>1. ASSUME NEW m \in Messages, Send(p, m) PROVE ViewInv'
    BY <2>1, Asked DEF Send
  <2>2. ASSUME NEW m \in Messages, SendAnswered(p, m) PROVE ViewInv'
    BY <2>2, AnswersCome DEF SendAnswered
  <2>. QED BY <1>2, <2>1, <2>2, Selects, Memberships, Pushes, Reads DEF Panel
<1>3. ASSUME NEW m \in Messages, OtherAnswered(m) PROVE ViewInv'
  BY <1>3, AnswersCome DEF OtherAnswered, panel
<1>. QED BY <1>1, <1>2, <1>3, Asked, Flushed, CommittedOrRejected, Streams DEF PanelNext

LEMMA ViewBegins ==
  ASSUME PanelInit
  PROVE  ViewInv
<1>1. NoBadges \in [Channels -> Nat]
  BY DEF NoBadges
<1>2. ServerOK /\ Forms
  BY DEF PanelInit, ServerOK, Forms, Sent, PostStates
<1>3. ASSUME NEW p \in Panels PROVE PanelOK(p)
  <2>1. /\ inbox[p] = <<>> /\ shown[p] = <<>> /\ sel[p] = None /\ badge[p] = NoBadges
        /\ meta[p] = [at |-> "none", unread |-> NoBadges]
        /\ fetch[p] = [f \in Fetches[p] |-> [chan |-> None, answer |-> None]]
    BY DEF PanelInit, Free
  <2>2. InboxOK(p) /\ ShownOK(p)
    BY <2>1 DEF InboxOK, ShownOK
  <2>3. BadgeOK(p)
    BY <1>1, <2>1 DEF BadgeOK
  <2>4. FetchOK(p)
    BY <2>1 DEF FetchOK
  <2>. QED BY <2>2, <2>3, <2>4 DEF PanelOK
<1>. QED BY <1>2, <1>3 DEF ViewInv

LEMMA ViewAlways == PanelSpec => []ViewInv
BY ViewBegins, ViewStep, PTL DEF PanelSpec

\* The panel's variables keep their types, and the channel that is viewed has no
\* badge, whatever is pushed to it and whatever badges it reads (CommPanel.cpp,
\* onPushed, selectChannel and loadDirectoryMeta).
THEOREM ViewTypes == PanelSpec => []PanelTypeOK
BY ViewAlways, ViewEnough, PTL

\* However bus, bridge, snapshots and answers are ordered, a message is shown once, and
\* at most twice to its own sender, once it was answered (CommPanel.cpp, onPushed,
\* renderMessages and send).
THEOREM ShownOnce == PanelSpec => []ShownTwiceOnlyByItsSender
BY ViewAlways, ViewEnough, PTL

\* The list is of the selected channel, but for messages the panel sent itself before
\* it left their channel (CommPanel.cpp, selectChannel, renderMessages and send).
THEOREM ListOfItsChannel == PanelSpec => []ForeignOnlyByItsSender
BY ViewAlways, ViewEnough, PTL
=============================================================================
