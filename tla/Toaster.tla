------------------------------ MODULE Toaster ------------------------------
(***************************************************************************)
(* A stack of toasts (Toaster.cpp), as a value: how many toasts stay until *)
(* they are closed, run out in time, or are due, and whether the sweeper,  *)
(* the one timer that removes them, is active.                             *)
(***************************************************************************)
EXTENDS Integers

NoToasts == [sticky |-> 0, timed |-> 0, due |-> 0, sweeping |-> FALSE]

Shown(t) == t.sticky + t.timed + t.due

Kinds == {"sticky", "timed"}

Notify(t, kind) == [t EXCEPT ![kind] = @ + 1, !.sweeping = TRUE]

\* The user closes a toast: marked only, the sweeper removes it.
Dismiss(t, kind) == [t EXCEPT ![kind] = @ - 1, !.due = @ + 1, !.sweeping = TRUE]

\* Its time has come.
RunOut(t) == [t EXCEPT !.timed = @ - 1, !.due = @ + 1]

\* Faulty: a sweep that removed something stops the sweeper.
SweepOnce(t) == IF t.due = 0 THEN t ELSE [t EXCEPT !.due = 0, !.sweeping = FALSE]

\* sweep, and remove of each toast that is due, which stops the sweeper when it
\* has removed the last.
Sweep(t) ==
  IF t.due = 0 THEN t
  ELSE [t EXCEPT !.due = 0, !.sweeping = t.sticky + t.timed > 0]

\* Toasts that are due are swept, and a timer without toasts does not go on.
SweeperRuns(t) == t.sweeping <=> Shown(t) > 0
=============================================================================
