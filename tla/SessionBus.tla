----------------------------- MODULE SessionBus -----------------------------
(***************************************************************************)
(* The three buses of the desktop server (PositionBus, HudControlBus and   *)
(* CommBus are the same code): views subscribe with a handler; publishing  *)
(* posts the handler to the session of every subscriber, under the mutex   *)
(* that subscribing and unsubscribing take too.  A session runs what is    *)
(* posted to it in order, later, and whatever has been unsubscribed since. *)
(***************************************************************************)
EXTENDS Sequences

CONSTANTS
  Session,     \* Session[v]: the session of view v
  Publishers,  \* the threads that publish
  None

VARIABLES
  subs,  \* the views that are subscribed
  job,   \* job[p]: what p is publishing, and to whom it has yet to post it
  inbox  \* inbox[s]: the handlers posted to session s

bus == <<subs, job, inbox>>

\* Nobody holds the mutex.
Unlocked == \A p \in Publishers : job[p] = None

Subscribe(v) ==
  /\ Unlocked
  /\ subs' = subs \cup {v}

\* Faulty: without the mutex.
UnsubscribeUnlocked(v) == subs' = subs \ {v}

Unsubscribe(v) ==
  /\ Unlocked
  /\ subs' = subs \ {v}

\* Faulty: without the mutex.
BeginPublishUnlocked(p, x) ==
  /\ job[p] = None
  /\ job' = [job EXCEPT ![p] = [what |-> x, left |-> subs]]

\* publish takes the mutex.
BeginPublish(p, x) ==
  /\ Unlocked
  /\ job' = [job EXCEPT ![p] = [what |-> x, left |-> subs]]

\* The loop of publish: WServer::post.
PostTo(p, v) ==
  /\ job[p] # None /\ v \in job[p].left
  /\ inbox' = [inbox EXCEPT ![Session[v]] = Append(@, [view |-> v, what |-> job[p].what])]
  /\ job' = [job EXCEPT ![p].left = @ \ {v}]

EndPublish(p) ==
  /\ job[p] # None /\ job[p].left = {}
  /\ job' = [job EXCEPT ![p] = None]
=============================================================================
