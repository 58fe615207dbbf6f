---------------------------- MODULE EventStream ----------------------------
(***************************************************************************)
(* What the realtime plane promises to the app it serves (REALTIME.md:     *)
(* "an accelerator, never a dependency"): of the events that were produced *)
(* a listener is told some, each once and in the order in which they were  *)
(* produced.  Which of them is not promised here.                          *)
(***************************************************************************)
EXTENDS Integers, Sequences

CONSTANTS
  Listeners,
  LastEvent   \* bound: events are 1..LastEvent

VARIABLES
  produced,   \* the events that happened: 1..produced
  got         \* got[l]: the events listener l was told, first to last

Init ==
  /\ produced = 0
  /\ got = [l \in Listeners |-> <<>>]

Produce ==
  /\ produced < LastEvent
  /\ produced' = produced + 1
  /\ UNCHANGED got

Tell(l) ==
  /\ \E e \in 1..produced :
       /\ \A k \in DOMAIN got[l] : got[l][k] < e
       /\ got' = [got EXCEPT ![l] = Append(@, e)]
  /\ UNCHANGED produced

Next == Produce \/ \E l \in Listeners : Tell(l)

Spec == Init /\ [][Next]_<<produced, got>>
=============================================================================
