---------------------------- MODULE MCLiveFleet -----------------------------
(***************************************************************************)
(* A map and a HUD, each in a session of its own; two fixes of one rig,    *)
(* reported in either order, and a fix of no rig.                          *)
(***************************************************************************)
EXTENDS LiveFleet

CONSTANTS f1, f2, rig

MCRig == [f \in Fixes |-> IF f \in {f1, f2} THEN rig ELSE None]

MCAt == [f \in Fixes |-> CASE f = f1 -> 1 [] f = f2 -> 2 [] OTHER -> 3]

MCSession == [v \in Views |-> v]
=============================================================================
