-------------------------- MODULE MCDesktopSession --------------------------
(***************************************************************************)
(* Loads 1 to 9 are of the week and of the days before and after it, 10 is *)
(* of nobody; the user may create 11 and 12.  There are two channels with  *)
(* a message and a topic each; both uploads are to the first.              *)
(***************************************************************************)
EXTENDS DesktopSession, TLC

CONSTANTS d1, c1, c2, m1, m2, t1, t2

MCDriver == [l \in Loads |-> IF l \in {10, 12} THEN None ELSE d1]

MCPickup == [l \in Loads |-> IF l <= 9 THEN l - 2 ELSE 0]

MCWeekPlan == {"login", "mode"}

MCToolPlan == {"login", "comms"}

MCChannelOf == [x \in Messages \cup Topics |-> IF x \in {m2, t2} THEN c2 ELSE c1]

MCMaxUses == [t \in Tools |-> IF t \in {"sending", "pinning"} THEN 4 ELSE 3]

\* Exact, with a fraction of a second, with a blank, and shifted either way.
MCStamps ==
  [form : {"T", "fraction", "space"}, shift : {0}] \cup [form : {"T"}, shift : {-1, 1}]

MCShortPlans == {MCWeekPlan, MCToolPlan}

MCPlans ==
  MCShortPlans \cup {
   {"login", "map", "signOut", "late"},
   {"login", "comms", "board", "settings", "profile", "rail"},
   {"login", "form", "create", "board", "mode"},
   {"login", "profile", "save", "board", "signOut"},
   {"login", "board", "fleet", "map", "pick", "dismiss"},
   {"login", "saved", "unsave", "settings"}}

MCSymmetry == Permutations(Users)
=============================================================================
