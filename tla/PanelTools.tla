----------------------------- MODULE PanelTools -----------------------------
(***************************************************************************)
(* The tools of a conversation (CommPanel.cpp, but for the message list    *)
(* and the badges): who may post and open topics, the topic and the reply  *)
(* of what is sent, pins, attachments, and the export of a channel.        *)
(*                                                                         *)
(* They all follow the selected channel.  What they ask for is served when *)
(* the API gets to it, and answered later, in any order and whatever       *)
(* channel is selected by then, or it fails.                               *)
(***************************************************************************)
EXTENDS Integers, Sequences, FiniteSets, SequencesExt

CONSTANTS
  Channels,
  Broadcast,   \* the channels of that type
  Messages,
  Topics,
  ChannelOf,   \* ChannelOf[x]: the channel of a message, or of a topic
  Mine,        \* the message of the user's upload
  Theirs,      \* that of another user's; the other messages are there already
  Nil,
  Untils,      \* bound: when restrictions end,
  LastTime,    \* bound: and until when time passes
  Midnights,   \* the times at which a day begins, in UTC
  Stamps,      \* bound: how the API may write the end of a restriction
  Tools,       \* bound: a behaviour uses one tool
  MaxUses      \* bound: MaxUses[t]: how often the user does something with tool t

ASSUME ToolsAssumption ==
  /\ Broadcast \subseteq Channels
  /\ {Mine, Theirs} \subseteq Messages /\ Mine # Theirs
  /\ \A x \in Messages \cup Topics : ChannelOf[x] \in Channels
  /\ Nil \notin Channels \cup Topics \cup Messages \cup Untils
  /\ Untils \subseteq Int /\ LastTime \in Int /\ Midnights \subseteq Int
  /\ Stamps \subseteq [form : {"T", "fraction", "space"}, shift : Int]
  /\ Tools \subseteq {"none", "posting", "topics", "sending", "pinning", "attaching", "exporting"}
  /\ MaxUses \in [Tools -> Nat]

VARIABLES
  tool, uses,
  dispatcher, \* the user's role in the application
  sel,        \* selectedChannelId_
  asked,      \* the requests in flight
  members,    \* members_: of which channel, and what the user is in it
  composer,   \* composerRow_ is shown
  bar,        \* topicBar_: its topics, as a set, and whether it offers a new one
  topic,      \* selectedTopicId_
  strangers,  \* the messages in allMessages_ that are of another channel
  reply,      \* replyToId_
  dialog,     \* the message for which promptPinScope asks
  pins,       \* pins_
  myPins,     \* myPins_
  docs,       \* docsByMessage_, as the number of chips
  fetched,    \* attachFetched_
  export,     \* the last export: of which channel it is, and which it names
  standing,   \* in the database: what the user is in a channel, or Nil
  topicRows, pinRows, posted, linked,  \* topics, pins, messages, and those with a document
  clock,      \* the time of the API, in whole seconds or more
  stamp,      \* how the API writes restricted_until, and what the clocks differ by
  judged,     \* history: when the composer was shown or hidden
  sent,       \* history: what was sent last
  moved,      \* history: the user changed the channel during the reply or an export, or
              \* replied to a stranger
  latePins,   \* history: messages pinned in a channel that was left meanwhile, or strangers
  patient     \* history: the user changed the channel only when all was answered

gate     == <<members, composer, judged>>
topicBar == <<bar, topic>>
pinned   == <<dialog, pins, myPins, latePins>>
chips    == <<docs, fetched>>
outgoing == <<strangers, reply, sent, export, moved>>
panel    == <<gate, topicBar, pinned, chips, outgoing>>
rights   == <<standing, clock, stamp>>
uploads  == <<posted, linked>>
rows     == <<rights, topicRows, pinRows, uploads>>
place    == <<tool, dispatcher, sel, patient>>
toolVars == <<place, uses, asked, panel, rows>>

Admin == [role |-> "admin", status |-> "active", until |-> Nil]

\* What the user may be in a channel; bound: at first there is no restriction, which a
\* ban is too, in one of the channels.
Standings ==
  [role : {"member", "admin"}, status : {"active"}, until : {Nil}]
    \cup [role : {"member", "admin"}, status : {"muted"}, until : Untils \cup {Nil}] \cup {Nil}

Nobody == [of |-> Nil, me |-> Nil]
NoBar  == [topics |-> {}, new |-> FALSE]

\* In UTC, to the second, and of the panel's own clock.
Exact == [form |-> "T", shift |-> 0]

In(c) == {m \in posted : ChannelOf[m] = c}

Listed == In(sel) \cup strangers

\* Pins of others: for everybody, or for themselves alone.
OthersPins ==
  {[id |-> 0, chan |-> ChannelOf[m], msg |-> m, mine |-> FALSE, scope |-> s] :
     m \in Messages \ {Mine, Theirs}, s \in {"self", "channel"}}

ToolsInit ==
  /\ tool \in Tools /\ uses = 0
  /\ dispatcher \in BOOLEAN /\ (dispatcher => tool = "topics")
  /\ sel = Nil /\ asked = <<>>
  /\ members = Nobody /\ composer = TRUE /\ judged = 0
  /\ bar = NoBar /\ topic = Nil
  /\ dialog = Nil /\ pins = {} /\ myPins = {} /\ latePins = {}
  /\ docs = [m \in Messages |-> 0] /\ fetched = {}
  /\ strangers = {} /\ reply = Nil
  /\ sent = [chan |-> Nil, topic |-> Nil, reply |-> Nil, moved |-> FALSE]
  /\ export = [data |-> Nil, name |-> Nil, moved |-> FALSE] /\ moved = FALSE
  /\ standing \in [Channels -> IF tool = "posting" THEN Standings
                               ELSE IF tool = "topics" THEN {Admin, Nil} ELSE {Nil}]
  /\ \E c \in Channels : standing[c] \in {Admin, Nil}
  /\ topicRows = IF tool = "sending" THEN Topics ELSE {}
  /\ pinRows = OthersPins
  /\ posted = Messages \ {Mine, Theirs} /\ linked = {}
  /\ clock = 0 /\ stamp \in Stamps /\ (tool # "posting" => stamp = Exact)
  /\ patient = TRUE

-----------------------------------------------------------------------------
\* Requests.

ToolRequest(what, chan, arg) ==
  [what |-> what, chan |-> chan, arg |-> arg, served |-> FALSE, answer |-> Nil]

Ask(rs) == asked' = asked \o rs

Rest(i) == RemoveAt(asked, i)

Use(t) ==
  /\ tool = t /\ sel # Nil /\ dialog = Nil /\ uses < MaxUses[tool]
  /\ uses' = uses + 1

Reads == {"topics", "members", "pins", "list", "links", "doc", "raw1", "raw2", "raw3"}

\* What a read finds.
Found(r) ==
  IF r.what = "topics" THEN {t \in topicRows : ChannelOf[t] = r.chan}
  ELSE IF r.what = "members" THEN standing[r.chan]
  ELSE IF r.what = "pins" THEN {x \in pinRows : x.chan = r.chan}
  ELSE IF r.what = "list" THEN In(r.chan)
  ELSE IF r.what = "links" THEN r.arg \in linked
  ELSE Nil

ServeRead(i) ==
  /\ ~asked[i].served /\ asked[i].what \in Reads
  /\ asked' = [asked EXCEPT ![i].served = TRUE, ![i].answer = Found(asked[i])]
  /\ UNCHANGED <<place, uses, panel, rows>>

\* Served, and to be answered.
Done(i) == asked' = [asked EXCEPT ![i].served = TRUE]

Arrived(i, what) == asked[i].what = what /\ asked[i].served

ToolFails(i) ==
  /\ asked' = Rest(i)
  /\ UNCHANGED <<place, uses, panel, rows>>

-----------------------------------------------------------------------------
\* Posting: the rules of the server (comms_governance), and those of the panel.

\* _restriction_active.
RestrictionActive(me, now) ==
  /\ me.status = "muted"
  /\ \/ me.until = Nil
     \/ me.until > now
     \/ stamp.form = "fraction" /\ me.until = now

\* _can_post.
CanPost(c, me, now) ==
  /\ c \in Broadcast => me # Nil /\ me.role = "admin"
  /\ me # Nil => ~RestrictionActive(me, now)

\* _can_create_topic.
CanCreateTopic(me) == dispatcher \/ (me # Nil /\ me.role = "admin")

\* Faulty: mutes that are over are not.
ComposerForEver(c, me, now) ==
  \/ me = Nil
  \/ me.status = "active" /\ (c \in Broadcast => me.role = "admin")

\* restricted_until > isoUtcNow(), as text.  Zones and clocks shift it; a blank is before
\* the T, so that times of one day are as one; and so is a fraction before the Z.
LaterText(until, now) ==
  LET u == until + stamp.shift
  IN  IF stamp.form = "space" THEN \E t \in Midnights : now < t /\ t <= u ELSE u > now

\* updatePostPermission.
Composer(c, me, now) ==
  \/ me = Nil
  \/ /\ \/ me.status # "muted"
        \/ me.until # Nil /\ ~LaterText(me.until, now)
     /\ c \in Broadcast => me.role = "admin"

\* canManageTopics.
CanManageTopics(me) == dispatcher \/ (me # Nil /\ me.role = "admin")

\* The answer to fetchChannelMembers.
MembersAnswered(i) ==
  /\ Arrived(i, "members")
  /\ asked' = Rest(i)
  /\ \/ /\ asked[i].chan = sel
        /\ members' = [of |-> sel, me |-> asked[i].answer]
        /\ composer' = Composer(sel, asked[i].answer, clock) /\ judged' = clock
        /\ bar' = [bar EXCEPT !.new = CanManageTopics(asked[i].answer)]
     \/ asked[i].chan # sel /\ UNCHANGED <<gate, bar>>
  /\ UNCHANGED <<place, uses, topic, pinned, chips, outgoing, rows>>

\* loadTopics is answered.
TopicsAnswered(i) ==
  /\ Arrived(i, "topics")
  /\ asked' = Rest(i)
  /\ bar' = IF asked[i].chan = sel
            THEN [topics |-> asked[i].answer, new |-> CanManageTopics(members.me)] ELSE bar
  /\ UNCHANGED <<place, uses, gate, topic, pinned, chips, outgoing, rows>>

\* promptNewTopic; the dialog is modal.
NewTopic ==
  /\ Use("topics") /\ bar.new
  /\ \E t \in Topics \ topicRows : ChannelOf[t] = sel /\ Ask(<<ToolRequest("newTopic", sel, t)>>)
  /\ UNCHANGED <<place, panel, rows>>

ServeNewTopic(i) ==
  /\ asked[i].what = "newTopic" /\ ~asked[i].served
  /\ CanCreateTopic(standing[asked[i].chan])
  /\ topicRows' = topicRows \cup {asked[i].arg}
  /\ Done(i)
  /\ UNCHANGED <<place, uses, panel, rights, pinRows, uploads>>

\* Faulty: whatever channel it was asked for.
NewTopicAnsweredAnywhere(i) ==
  /\ Arrived(i, "newTopic")
  /\ asked' = Rest(i)
  /\ bar' = [bar EXCEPT !.topics = @ \cup {asked[i].arg}, !.new = CanManageTopics(members.me)]
  /\ UNCHANGED <<place, uses, gate, topic, pinned, chips, outgoing, rows>>

NewTopicAnswered(i) ==
  /\ Arrived(i, "newTopic")
  /\ asked' = Rest(i)
  /\ bar' = IF asked[i].chan = sel
            THEN [topics |-> bar.topics \cup {asked[i].arg}, new |-> CanManageTopics(members.me)]
            ELSE bar
  /\ UNCHANGED <<place, uses, gate, topic, pinned, chips, outgoing, rows>>

\* An admin changes what the user is; bound: an active member becomes a muted one.
ChangeStanding ==
  /\ tool = "posting"
  /\ \E c \in Channels :
       /\ standing[c] # Nil /\ standing[c].status = "active"
       /\ standing' = [standing EXCEPT ![c].status = "muted"]
  /\ UNCHANGED <<place, uses, asked, panel, topicRows, pinRows, uploads, clock, stamp>>

Tick ==
  /\ tool = "posting" /\ clock < LastTime
  /\ clock' = clock + 1
  /\ UNCHANGED <<place, uses, asked, panel, standing, stamp, topicRows, pinRows, uploads>>

-----------------------------------------------------------------------------
\* Sending: what a message belongs to; the list is in CommPanel.

StartReply(m) ==
  /\ Use("sending") /\ m \in Listed
  /\ reply' = m /\ moved' = (m \in strangers)
  /\ UNCHANGED <<place, asked, gate, topicBar, pinned, chips, strangers, sent, export, rows>>

CancelReply ==
  /\ Use("sending") /\ reply # Nil
  /\ reply' = Nil
  /\ UNCHANGED <<place, asked, gate, topicBar, pinned, chips, strangers, sent, export, moved,
                 rows>>

\* selectTopic: a chip of the bar, or General.
SelectTopic(t) ==
  /\ Use("sending") /\ t \in bar.topics \cup {Nil}
  /\ topic' = t
  /\ UNCHANGED <<place, asked, gate, bar, pinned, chips, outgoing, rows>>

\* send, which captures all three and ends the reply; bound: of what is sent, one
\* message is followed.
Send ==
  /\ \E t \in {"sending", "pinning"} : Use(t)
  /\ composer
  /\ sent' = [chan |-> sel, topic |-> topic, reply |-> reply, moved |-> moved]
  /\ reply' = Nil
  /\ \/ /\ ChannelOf[Mine] = sel /\ Mine \notin posted
        /\ ~\E i \in DOMAIN asked : asked[i].what = "send"
        /\ Ask(<<ToolRequest("send", sel, Mine)>>)
     \/ UNCHANGED asked
  /\ UNCHANGED <<place, gate, topicBar, pinned, chips, strangers, export, moved, rows>>

\* The message is listed, whatever channel is selected.
SendAnswered(i) ==
  /\ Arrived(i, "send")
  /\ asked' = Rest(i)
  /\ strangers' = IF asked[i].chan = sel THEN strangers ELSE strangers \cup {asked[i].arg}
  /\ UNCHANGED <<place, uses, gate, topicBar, pinned, chips, reply, sent, export, moved, rows>>

\* refreshMessages is answered, for the selected channel; what follows is below.
Relisted ==
  /\ strangers # {} /\ strangers' = {}
  /\ UNCHANGED <<place, uses, asked, gate, topicBar, pinned, chips, reply, sent, export, moved,
                 rows>>

-----------------------------------------------------------------------------
\* Pinning.

\* loadPinsAndSaved is answered: pins for all, and the user's own.
PinsAnswered(i) ==
  /\ Arrived(i, "pins")
  /\ asked' = Rest(i)
  /\ \/ /\ asked[i].chan = sel
        /\ pins' = {x \in asked[i].answer : x.scope # "self" \/ x.mine}
        /\ myPins' = {x \in asked[i].answer : x.mine}
     \/ asked[i].chan # sel /\ UNCHANGED <<pins, myPins>>
  /\ UNCHANGED <<place, uses, gate, topicBar, dialog, latePins, chips, outgoing, rows>>

\* promptPinScope, for a message without a pin of the user.
PromptPinScope(m) ==
  /\ tool = "pinning" /\ sel # Nil /\ dialog = Nil /\ uses < MaxUses[tool]
  /\ m \in Listed /\ ~\E x \in myPins : x.msg = m
  /\ dialog' = m
  /\ UNCHANGED <<place, uses, asked, gate, topicBar, pins, myPins, latePins, chips, outgoing,
                 rows>>

CancelPin ==
  /\ dialog # Nil /\ dialog' = Nil
  /\ UNCHANGED <<place, uses, asked, gate, topicBar, pins, myPins, latePins, chips, outgoing,
                 rows>>

\* pinWithScope: a new pin, of the selected channel, or another scope for the one that
\* came meanwhile.
PinWithScope(s) ==
  /\ dialog # Nil
  /\ dialog' = Nil /\ uses' = uses + 1
  /\ \/ /\ ~\E x \in myPins : x.msg = dialog
        /\ LET pin == [id |-> uses', chan |-> sel, msg |-> dialog, mine |-> TRUE, scope |-> s]
           IN  Ask(<<ToolRequest("pin", sel, pin)>>)
     \/ \E x \in myPins :
          x.msg = dialog /\ Ask(<<ToolRequest("repin", sel, [x EXCEPT !.scope = s])>>)
  /\ latePins' = IF ChannelOf[dialog] = sel THEN latePins ELSE latePins \cup {dialog}
  /\ UNCHANGED <<place, gate, topicBar, pins, myPins, chips, outgoing, rows>>

\* One pin of a message per user; a pin that is gone cannot be changed.
ServePin(i) ==
  /\ asked[i].what \in {"pin", "repin"} /\ ~asked[i].served
  /\ LET x    == asked[i].arg
         mine == {y \in pinRows : y.mine /\ y.msg = x.msg}
     IN  /\ \/ asked[i].what = "pin" /\ mine = {}
            \/ asked[i].what = "repin" /\ \E y \in mine : y.id = x.id
         /\ pinRows' = (pinRows \ mine) \cup {x}
  /\ Done(i)
  /\ UNCHANGED <<place, uses, panel, rights, topicRows, uploads>>

\* onPinned, whatever channel is selected.
PinAnswered(i) ==
  /\ \E what \in {"pin", "repin"} : Arrived(i, what)
  /\ asked' = Rest(i)
  /\ pins' = {y \in pins : ~y.mine \/ y.id # asked[i].arg.id} \cup {asked[i].arg}
  /\ myPins' = {y \in myPins : y.msg # asked[i].arg.msg} \cup {asked[i].arg}
  /\ UNCHANGED <<place, uses, gate, topicBar, dialog, latePins, chips, outgoing, rows>>

\* unpin, from the strip or from the message: gone before it is asked for.
Unpin(x) ==
  /\ Use("pinning") /\ x \in myPins \cup {y \in pins : y.mine}
  /\ Ask(<<ToolRequest("unpin", sel, x)>>)
  /\ pins' = {y \in pins : ~y.mine \/ y.id # x.id}
  /\ myPins' = {y \in myPins : y.msg # x.msg}
  /\ UNCHANGED <<place, gate, topicBar, dialog, latePins, chips, outgoing, rows>>

\* Nothing is done with the answer.
ServeUnpin(i) ==
  /\ asked[i].what = "unpin"
  /\ pinRows' = {y \in pinRows : ~y.mine \/ y.id # asked[i].arg.id}
  /\ asked' = Rest(i)
  /\ UNCHANGED <<place, uses, panel, rights, topicRows, uploads>>

-----------------------------------------------------------------------------
\* Attaching.

\* refreshMessages, by the timer.
Refresh ==
  /\ Use("attaching")
  /\ Ask(<<ToolRequest("list", sel, Nil)>>)
  /\ UNCHANGED <<place, panel, rows>>

\* Faulty: they are not marked.
FetchAttachmentsUnmarked(i, new) ==
  /\ asked' = Rest(i) \o SetToSeq({ToolRequest("links", Nil, m) : m \in new})
  /\ UNCHANGED fetched

\* fetchAttachmentsFor: messages are marked before they are asked for.
FetchAttachments(i, new) ==
  /\ asked' = Rest(i) \o SetToSeq({ToolRequest("links", Nil, m) : m \in new})
  /\ fetched' = fetched \cup new

\* The messages of the channel; bound: those with an upload.
ListAnswered(i) ==
  /\ Arrived(i, "list")
  /\ \/ /\ asked[i].chan = sel
        /\ FetchAttachments(i, (asked[i].answer \cap {Mine, Theirs}) \ fetched)
     \/ asked[i].chan # sel /\ asked' = Rest(i) /\ UNCHANGED fetched
  /\ UNCHANGED <<place, uses, gate, topicBar, pinned, docs, outgoing, rows>>

LinksAnswered(i) ==
  /\ Arrived(i, "links")
  /\ asked' = IF asked[i].answer
              THEN Append(Rest(i), ToolRequest("doc", Nil, asked[i].arg)) ELSE Rest(i)
  /\ UNCHANGED <<place, uses, panel, rows>>

DocAnswered(i) ==
  /\ Arrived(i, "doc")
  /\ docs' = [docs EXCEPT ![asked[i].arg] = @ + 1]
  /\ asked' = Rest(i)
  /\ UNCHANGED <<place, uses, gate, topicBar, pinned, fetched, outgoing, rows>>

\* handleUpload: message, then document, then link.
Upload ==
  /\ Use("attaching") /\ ChannelOf[Mine] = sel
  /\ Mine \notin posted /\ ~\E i \in DOMAIN asked : asked[i].arg = Mine
  /\ Ask(<<ToolRequest("message", sel, Mine)>>)
  /\ UNCHANGED <<place, panel, rows>>

ServeUpload(i) ==
  /\ ~asked[i].served
  /\ \/ /\ asked[i].what \in {"message", "send"}
        /\ posted' = posted \cup {Mine} /\ Done(i) /\ UNCHANGED linked
     \/ asked[i].what = "document" /\ Done(i) /\ UNCHANGED <<posted, linked>>
     \/ /\ asked[i].what = "link" /\ linked' = linked \cup {Mine}
        /\ asked' = Rest(i) /\ UNCHANGED posted
  /\ UNCHANGED <<place, uses, panel, rights, topicRows, pinRows>>

UploadAnswered(i) ==
  /\ \/ /\ Arrived(i, "message")
        /\ asked' = Append(Rest(i), ToolRequest("document", Nil, Mine))
        /\ UNCHANGED chips
     \/ /\ Arrived(i, "document")
        /\ asked' = Append(Rest(i), ToolRequest("link", Nil, Mine))
        /\ docs' = [docs EXCEPT ![Mine] = @ + 1]
        /\ fetched' = fetched \cup {Mine}
  /\ UNCHANGED <<place, uses, gate, topicBar, pinned, outgoing, rows>>

\* Somebody else does the same.
TheirUpload ==
  /\ tool = "attaching"
  /\ \/ Theirs \notin posted /\ posted' = posted \cup {Theirs} /\ UNCHANGED linked
     \/ Theirs \in posted \ linked /\ linked' = linked \cup {Theirs} /\ UNCHANGED posted
  /\ UNCHANGED <<place, uses, asked, panel, rights, topicRows, pinRows>>

-----------------------------------------------------------------------------
\* Exporting.

\* exportBoard, again if the user likes.
ExportBoard ==
  /\ Use("exporting")
  /\ Ask(<<ToolRequest("raw1", sel, Nil)>>)
  /\ moved' = (moved /\ asked # <<>>)
  /\ UNCHANGED <<place, gate, topicBar, pinned, chips, strangers, reply, sent, export, rows>>

\* Messages, members and topics, one after the other, of the channel it began with;
\* finishExport names the one that is selected.
RawAnswered(i) ==
  /\ \/ /\ Arrived(i, "raw1")
        /\ asked' = Append(Rest(i), ToolRequest("raw2", asked[i].chan, Nil)) /\ UNCHANGED export
     \/ /\ Arrived(i, "raw2")
        /\ asked' = Append(Rest(i), ToolRequest("raw3", asked[i].chan, Nil)) /\ UNCHANGED export
     \/ /\ Arrived(i, "raw3")
        /\ asked' = Rest(i)
        /\ export' = [data |-> asked[i].chan, name |-> sel, moved |-> moved]
  /\ UNCHANGED <<place, uses, gate, topicBar, pinned, chips, strangers, reply, sent, moved,
                 rows>>

-----------------------------------------------------------------------------
\* What a channel is asked for when it is selected, of what the tool needs.
Needs ==
  [posting |-> <<"members">>, topics |-> <<"topics", "members">>, sending |-> <<"topics">>,
   pinning |-> <<"pins">>, attaching |-> <<"list">>, exporting |-> <<>>, none |-> <<>>]

PinsAsked == {i \in DOMAIN asked : asked[i].what \in {"pin", "repin"}}

\* selectChannel: all but the reply begins anew; the topic bar is drawn before the
\* members of the last channel are cleared.
SelectChannel(c) ==
  /\ tool # "none" /\ dialog = Nil /\ uses < MaxUses[tool]
  /\ uses' = uses + 1
  /\ sel' = c
  /\ topic' = Nil /\ bar' = [topics |-> {}, new |-> CanManageTopics(members.me)]
  /\ pins' = {} /\ myPins' = {} /\ strangers' = {}
  /\ docs' = [m \in Messages |-> 0] /\ fetched' = {}
  /\ members' = Nobody /\ composer' = TRUE /\ judged' = clock
  /\ Ask([i \in DOMAIN Needs[tool] |-> ToolRequest(Needs[tool][i], c, Nil)])
  /\ moved' = (moved \/ sel \notin {Nil, c})
  /\ latePins' = latePins \cup {asked[i].arg.msg : i \in PinsAsked}
  /\ patient' = (patient /\ asked = <<>>)
  /\ UNCHANGED <<tool, dispatcher, dialog, reply, sent, export, rows>>

ToolsNext ==
  \/ \E c \in Channels : SelectChannel(c)
  \/ NewTopic \/ ChangeStanding \/ Tick
  \/ CancelReply \/ Send \/ Relisted \/ \E m \in Messages : StartReply(m)
  \/ \E t \in Topics \cup {Nil} : SelectTopic(t)
  \/ \E m \in Messages : PromptPinScope(m)
  \/ CancelPin \/ \E s \in {"self", "channel"} : PinWithScope(s)
  \/ \E x \in pins \cup myPins : Unpin(x)
  \/ Refresh \/ Upload \/ TheirUpload \/ ExportBoard
  \/ \E i \in DOMAIN asked :
       \/ ServeRead(i) \/ ServeNewTopic(i) \/ ServePin(i) \/ ServeUnpin(i) \/ ServeUpload(i)
       \/ ToolFails(i)
       \/ MembersAnswered(i) \/ TopicsAnswered(i) \/ NewTopicAnswered(i)
       \/ SendAnswered(i) \/ PinsAnswered(i) \/ PinAnswered(i)
       \/ ListAnswered(i) \/ LinksAnswered(i) \/ DocAnswered(i) \/ UploadAnswered(i)
       \/ RawAnswered(i)

-----------------------------------------------------------------------------
\* What is shown, and what is sent, is of the selected channel; nothing gets there
\* late but the pins the user asked for.  Every pin that marks a message is in the
\* strip.  What was sent has a topic and a reply of its channel, and an export the
\* name of it.  But for messages of the user's own that are listed late, in another
\* channel: these can be pinned there, and replied to; and for a reply or an export
\* during which the user changed the channel.
ToolsKeepToTheirChannel ==
  /\ members.of \in {Nil, sel}
  /\ \A t \in bar.topics \cup ({topic} \ {Nil}) : ChannelOf[t] = sel
  /\ \A x \in pins : ChannelOf[x.msg] = sel \/ x.msg \in latePins
  /\ \A x \in pins : x.scope = "self" => x.mine
  /\ myPins \subseteq pins
  /\ sent.topic # Nil => ChannelOf[sent.topic] = sent.chan
  /\ sent.reply # Nil => ChannelOf[sent.reply] = sent.chan \/ sent.moved
  /\ export.data # export.name => export.moved

\* CommPanel.cpp: "mirrors server rule".  A member who sees the composer may post,
\* and one who does not was restricted when it was hidden; topics are offered to
\* who may create them; unless this was changed since the members were read.  Of a
\* restriction that ends, the first is so if its end is written as the panel writes
\* times, to the second and in UTC, and the clocks agree; the second, if they agree
\* and it is in UTC, however it is written.
GateMirrorsServer ==
  sel # Nil /\ members.of = sel /\ members.me = standing[sel] /\ members.me # Nil =>
    /\ composer /\ (stamp = Exact \/ members.me.until = Nil) => CanPost(sel, members.me, clock)
    /\ ~composer /\ (stamp.shift = 0 \/ members.me.until = Nil) =>
         ~CanPost(sel, members.me, judged)
    /\ bar.new <=> CanCreateTopic(members.me)

\* An attachment has one chip, and that of the user's own upload at most two: one
\* from the answer, one from the next reading; unless the user left the channel, and
\* came back, before all was answered.
ChipsOnce ==
  patient => docs[Theirs] <= 1 /\ docs[Mine] <= 2
=============================================================================
