---------------------------- MODULE MCCommPanel ----------------------------
(***************************************************************************)
(* A panel and another session, of different users.  A panel needs two     *)
(* reads in flight to leave a channel while it is being read.              *)
(***************************************************************************)
EXTENDS CommPanel

CONSTANTS f1, f2, m1, m2, p1, p2, c1, c2

MCUser == [p \in Panels \cup Others |-> p]

\* The first message is of the panel itself, the second of another session.
MCPosts ==
  {<<m1, p1, c>> : c \in Channels} \cup {<<m2, who, c1>> : who \in {p2, Mobile}}

MCFetches == [p \in Panels |-> {f1, f2}]
=============================================================================
