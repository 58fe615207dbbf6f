--------------------------- MODULE MCUnreadCounts ---------------------------
(* The members of one channel and their requests are interchangeable.      *)
EXTENDS UnreadCounts, TLC

MCSymmetry == Permutations(Users) \cup Permutations(Requests)
=============================================================================
