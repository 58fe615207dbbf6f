----------------------------- MODULE CommPanel -----------------------------
(***************************************************************************)
(* The conversation view of the dispatcher desktop (CommPanel.cpp): the    *)
(* list of messages of the selected channel and the unread badges of the   *)
(* others, fed in four ways that are not ordered with each other:          *)
(*   - snapshots of a channel, read when it is selected and by the poll;   *)
(*   - the answer to a send of this panel;                                 *)
(*   - CommBus: what other panels of this server have sent;                *)
(*   - the realtime bridge, which feeds CommBus with every message that    *)
(*     anybody posts, before it is committed, unless it loses it.          *)
(*                                                                         *)
(* A session handles one callback at a time, and what is posted to it in   *)
(* the order in which it was posted.  Answers to its requests come in any  *)
(* order.  Topics, pins and attachments choose how the list is drawn and   *)
(* do not change it.                                                       *)
(***************************************************************************)
EXTENDS Integers, Sequences, FiniteSets, SequencesExt

CONSTANTS
  Panels,    \* the panels that are followed, of this server
  Others,    \* panels of other sessions of this server, followed as senders only
  User,      \* User[p]: whose session panel p is in
  Channels,
  Messages,  \* the messages posted in a behaviour
  Fetches,   \* bound: Fetches[p] are the reads of channels that panel p can
             \* have in flight at a time
  Posts,     \* bound: the posts there may be, as <<message, author, channel>>
  Mobile,    \* the author of messages posted elsewhere
  None

ASSUME PanelAssumption ==
  /\ Mobile \notin Panels \cup Others
  /\ Panels \cap Others = {}
  /\ None \notin Panels \cup Others \cup Channels

VARIABLES
  post,    \* post[m]: how far the request that posts m has come
  by,      \* by[m]: the panel that sent it, or Mobile
  chan,    \* chan[m]: its channel
  posted,  \* the messages in the order of posted_at
  stream,  \* the messages of which the bridge has an event
  inbox,   \* inbox[p]: what is posted to the session of panel p
  sel,     \* sel[p]: selectedChannelId_
  shown,   \* shown[p]: allMessages_
  badge,   \* badge[p][c]: the badge of channel c
  meta,    \* meta[p]: the memberships it has asked for, once, or their counts
  fetch    \* fetch[p][f]: a read of a channel that panel p has in flight

server    == <<post, by, chan, posted, stream>>
panel     == <<sel, shown, badge>>
panelVars == <<server, inbox, panel, meta, fetch>>

Free == [chan |-> None, answer |-> None]

NoBadges == [c \in Channels |-> 0]

PanelInit ==
  /\ post = [m \in Messages |-> "unsent"]
  /\ by = [m \in Messages |-> None]
  /\ chan = [m \in Messages |-> None]
  /\ posted = <<>>
  /\ stream = {}
  /\ inbox = [p \in Panels |-> <<>>]
  /\ sel = [p \in Panels |-> None]
  /\ shown = [p \in Panels |-> <<>>]
  /\ badge = [p \in Panels |-> NoBadges]
  /\ meta = [p \in Panels |-> [at |-> "none", unread |-> NoBadges]]
  /\ fetch = [p \in Panels |-> [f \in Fetches[p] |-> Free]]

-----------------------------------------------------------------------------
\* The API and the database.

Committed == {m \in Messages : post[m] \in {"stored", "answered"}}

Stored(c) == {m \in ToSet(posted) : m \in Committed /\ chan[m] = c}

Earlier(m, n) == \E i, j \in DOMAIN posted : i < j /\ posted[i] = m /\ posted[j] = n

\* GET /Message of a channel, sorted by posted_at: there is one such list.
Snapshots(c) ==
  {s \in SeqOf(Stored(c), Len(posted)) :
     ToSet(s) = Stored(c) /\ \A i, j \in DOMAIN s : i < j => Earlier(s[i], s[j])}

Ask(m, who, c) ==
  /\ post[m] = "unsent" /\ <<m, who, c>> \in Posts
  /\ post' = [post EXCEPT ![m] = "asked"]
  /\ by' = [by EXCEPT ![m] = who]
  /\ chan' = [chan EXCEPT ![m] = c]
  /\ UNCHANGED <<posted, stream, inbox, panel, meta, fetch>>

\* The INSERT, and the event it emits.
Flush(m) ==
  /\ post[m] = "asked"
  /\ post' = [post EXCEPT ![m] = "flushed"]
  /\ posted' = Append(posted, m)
  /\ stream' = stream \cup {m}
  /\ UNCHANGED <<by, chan, inbox, panel, meta, fetch>>

CommitMessage(m) ==
  /\ post[m] = "flushed"
  /\ post' = [post EXCEPT ![m] = "stored"]
  /\ UNCHANGED <<by, chan, posted, stream, inbox, panel, meta, fetch>>

\* A rule refuses the message, or the transaction fails.
Reject(m) ==
  /\ post[m] \in {"asked", "flushed"}
  /\ post' = [post EXCEPT ![m] = "failed"]
  /\ UNCHANGED <<by, chan, posted, stream, inbox, panel, meta, fetch>>

\* CommBus::publish posts to every subscribed session.
Publish(m) == inbox' = [p \in Panels |-> Append(inbox[p], m)]

\* RealtimeClient::handleFrame.
Bridge(m) ==
  /\ m \in stream
  /\ stream' = stream \ {m}
  /\ Publish(m)
  /\ UNCHANGED <<post, by, chan, posted, panel, meta, fetch>>

\* The bridge or its client is down.
LoseEvent(m) ==
  /\ m \in stream
  /\ stream' = stream \ {m}
  /\ UNCHANGED <<post, by, chan, posted, inbox, panel, meta, fetch>>

-----------------------------------------------------------------------------
\* The panel.

\* Which of the free reads it is makes no difference.
Fetch(p, c) ==
  LET free == {f \in Fetches[p] : fetch[p][f] = Free}
  IN  /\ free # {}
      /\ fetch' = [fetch EXCEPT ![p][CHOOSE f \in free : TRUE].chan = c]

\* selectChannel: the list is emptied and read again.
SelectChannel(p, c) ==
  /\ sel' = [sel EXCEPT ![p] = c]
  /\ shown' = [shown EXCEPT ![p] = <<>>]
  /\ badge' = [badge EXCEPT ![p][c] = 0]
  /\ Fetch(p, c)

\* loadChannels is answered: badges are asked for, a first channel is selected.
ChannelsLoaded(p) ==
  /\ sel[p] = None
  /\ \E c \in Channels : SelectChannel(p, c)
  /\ meta' = [meta EXCEPT ![p].at = "asked"]
  /\ UNCHANGED <<server, inbox>>

Select(p) ==
  /\ sel[p] # None
  /\ \E c \in Channels : SelectChannel(p, c)
  /\ UNCHANGED <<server, inbox, meta>>

\* Memberships are read: any unread counts the messages there are allow
\* (how they come about is in UnreadCounts).
ServeMeta(p) ==
  /\ meta[p].at = "asked"
  /\ \E n \in [Channels -> 0..Len(posted)] :
       /\ \A c \in Channels : n[c] <= Cardinality(Stored(c))
       /\ meta' = [meta EXCEPT ![p] = [at |-> "served", unread |-> n]]
  /\ UNCHANGED <<server, inbox, panel, fetch>>

\* Faulty: the channel being viewed gets its badge too.
BadgesOfAll(p, n) == n

\* The badges a panel takes from its memberships.
Badges(p, n) == [c \in Channels |-> IF c = sel[p] THEN 0 ELSE n[c]]

\* loadDirectoryMeta is answered.
MetaLoaded(p) ==
  /\ meta[p].at = "served"
  /\ badge' = [badge EXCEPT ![p] = Badges(p, meta[p].unread)]
  /\ meta' = [meta EXCEPT ![p] = [at |-> "loaded", unread |-> NoBadges]]
  /\ UNCHANGED <<server, inbox, sel, shown, fetch>>

MetaFails(p) ==
  /\ meta[p].at \in {"asked", "served"}
  /\ meta' = [meta EXCEPT ![p] = [at |-> "loaded", unread |-> NoBadges]]
  /\ UNCHANGED <<server, inbox, panel, fetch>>

\* The timer, or nothing if no channel is selected.
Poll(p) ==
  /\ sel[p] # None
  /\ Fetch(p, sel[p])
  /\ UNCHANGED <<server, inbox, panel, meta>>

Serve(p, f) ==
  /\ fetch[p][f] # Free /\ fetch[p][f].answer = None
  /\ \E s \in Snapshots(fetch[p][f].chan) : fetch' = [fetch EXCEPT ![p][f].answer = s]
  /\ UNCHANGED <<server, inbox, panel, meta>>

\* Faulty: whatever channel it was asked for.
RenderAny(p, f) == shown' = [shown EXCEPT ![p] = fetch[p][f].answer]

\* Faulty: what is new in the snapshot is added to the list.
RenderNew(p, f) ==
  IF fetch[p][f].chan = sel[p]
  THEN shown' = [shown EXCEPT ![p] =
                   @ \o SelectSeq(fetch[p][f].answer, LAMBDA m : m \notin ToSet(shown[p]))]
  ELSE UNCHANGED shown

\* renderMessages: the snapshot becomes the list, unless the user has gone to
\* another channel.
Render(p, f) ==
  IF fetch[p][f].chan = sel[p]
  THEN shown' = [shown EXCEPT ![p] = fetch[p][f].answer]
  ELSE UNCHANGED shown

FetchAnswered(p, f) ==
  /\ fetch[p][f].answer # None
  /\ Render(p, f)
  /\ fetch' = [fetch EXCEPT ![p][f] = Free]
  /\ UNCHANGED <<server, inbox, sel, badge, meta>>

FetchFails(p, f) ==
  /\ fetch[p][f] # Free
  /\ fetch' = [fetch EXCEPT ![p][f] = Free]
  /\ UNCHANGED <<server, inbox, panel, meta>>

\* send, and the message of handleUpload.
Send(p, m) == sel[p] # None /\ Ask(m, p, sel[p])

\* createMessage is answered: the panel shows its message, in whatever channel
\* it is by now, and publishes it.
SendAnswered(p, m) ==
  /\ by[m] = p
  /\ post[m] = "stored"
  /\ post' = [post EXCEPT ![m] = "answered"]
  /\ shown' = [shown EXCEPT ![p] = Append(@, m)]
  /\ Publish(m)
  /\ UNCHANGED <<by, chan, posted, stream, sel, badge, meta, fetch>>

\* That of another session.
OtherAnswered(m) ==
  /\ by[m] \in Others
  /\ post[m] = "stored"
  /\ post' = [post EXCEPT ![m] = "answered"]
  /\ Publish(m)
  /\ UNCHANGED <<by, chan, posted, stream, panel, meta, fetch>>

Mine(p, m) == by[m] # Mobile /\ User[by[m]] = User[p]

\* Faulty: every push is appended.
AddPushedAlways(p, m) == shown' = [shown EXCEPT ![p] = Append(@, m)]

\* A push of the selected channel is kept once.
AddPushed(p, m) ==
  shown' = IF m \in ToSet(shown[p]) THEN shown
           ELSE [shown EXCEPT ![p] = Append(@, m)]

\* onPushed.
Pushed(p) ==
  /\ inbox[p] # <<>>
  /\ LET m == Head(inbox[p])
     IN  \/ /\ chan[m] = sel[p]
            /\ AddPushed(p, m)
            /\ UNCHANGED badge
         \/ /\ chan[m] # sel[p]
            /\ badge' = IF Mine(p, m) THEN badge ELSE [badge EXCEPT ![p][chan[m]] = @ + 1]
            /\ UNCHANGED shown
  /\ inbox' = [inbox EXCEPT ![p] = Tail(@)]
  /\ UNCHANGED <<server, sel, meta, fetch>>

-----------------------------------------------------------------------------
Panel(p) ==
  \/ ChannelsLoaded(p) \/ Select(p) \/ Poll(p) \/ Pushed(p)
  \/ ServeMeta(p) \/ MetaLoaded(p) \/ MetaFails(p)
  \/ \E m \in Messages : Send(p, m) \/ SendAnswered(p, m)
  \/ \E f \in Fetches[p] : Serve(p, f) \/ FetchAnswered(p, f) \/ FetchFails(p, f)

PanelNext ==
  \/ \E p \in Panels : Panel(p)
  \/ \E m \in Messages :
       \/ \E who \in Others \cup {Mobile}, c \in Channels : Ask(m, who, c)
       \/ OtherAnswered(m)
       \/ Flush(m) \/ CommitMessage(m) \/ Reject(m) \/ Bridge(m) \/ LoseEvent(m)

PanelSpec == PanelInit /\ [][PanelNext]_panelVars

\* The timer goes on, the API answers or fails, and it does not fail for ever.
\* Nothing is assumed of the bridge, of CommBus or of the users.
FairSpec ==
  /\ PanelSpec
  /\ \A p \in Panels :
       /\ WF_panelVars(Poll(p))
       /\ SF_panelVars(\E f \in Fetches[p] : Serve(p, f))
       /\ SF_panelVars(\E f \in Fetches[p] : FetchAnswered(p, f))

-----------------------------------------------------------------------------
\* Types; the channel that is viewed has no badge.
PanelTypeOK ==
  /\ post \in [Messages -> {"unsent", "asked", "flushed", "stored", "answered", "failed"}]
  /\ posted \in Seq(Messages) /\ stream \subseteq Messages
  /\ inbox \in [Panels -> Seq(Messages)]
  /\ sel \in [Panels -> Channels \cup {None}]
  /\ shown \in [Panels -> Seq(Messages)]
  /\ badge \in [Panels -> [Channels -> Nat]]
  /\ \A p \in Panels : sel[p] # None => badge[p][sel[p]] = 0

\* The places of the list that show m.
Places(p, m) == {i \in DOMAIN shown[p] : shown[p][i] = m}

\* onPushed: "keep it once".  However the bus, the bridge and the snapshots bring
\* a message, it is shown once.  What can double it, and only once, is the answer
\* to a send of this panel, which is appended without a look at the list.
ShownTwiceOnlyByItsSender ==
  \A p \in Panels, m \in Messages :
    \A i, j, k \in Places(p, m) :
      /\ i = j \/ i = k \/ j = k
      /\ i # j => by[m] = p /\ post[m] = "answered"

\* The list holds the selected channel; a message of another one gets there
\* only as the late answer to a send of the panel itself.
ForeignOnlyByItsSender ==
  \A p \in Panels : \A m \in ToSet(shown[p]) :
    chan[m] # sel[p] => by[m] = p /\ post[m] = "answered"

\* CommPanel.cpp: "Slow reconcile poll: bridges off-server messages".  A panel
\* that stays on a channel ends up with exactly the messages of that channel in
\* their order, each once, whatever it was or was not pushed.
Converges ==
  \A p \in Panels :
    <>[][~Select(p)]_panelVars => <>[](sel[p] # None => shown[p] \in Snapshots(sel[p]))
=============================================================================
