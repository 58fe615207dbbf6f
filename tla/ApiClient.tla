----------------------------- MODULE ApiClient -----------------------------
(***************************************************************************)
(* How the desktop reads the answer to a request (ApiClient.cpp): a helper *)
(* per kind of request, with the statuses it takes and, but for two, a     *)
(* document it must be able to parse.                                      *)
(***************************************************************************)
EXTENDS Integers

\* What comes back: a status and a body, or nothing: a connection that breaks or
\* is refused, or 15 seconds without an answer (20 for raw documents).
Nothing == [status |-> 0, parses |-> FALSE]

Answers == [status : {200, 201, 202, 204, 400, 401, 404, 500}, parses : BOOLEAN] \cup {Nothing}

GetCollection(a) == a.status = 200 /\ a.parses
GetRawDoc(a)     == a.status = 200
PostJson(a)      == a.status \in {200, 201} /\ a.parses
PostPlain(a)     == a.status \in {200, 201} /\ a.parses  \* and a token in it
PatchJson(a)     == a.status \in {200, 201, 204} /\ a.parses
DeleteReq(a)     == a.status \in {200, 202, 204}

Takes(kind, a) ==
  \/ kind = "get" /\ GetCollection(a)
  \/ kind = "raw" /\ GetRawDoc(a)
  \/ kind = "post" /\ PostJson(a)
  \/ kind = "login" /\ PostPlain(a)
  \/ kind = "patch" /\ PatchJson(a)
  \/ kind = "delete" /\ DeleteReq(a)

\* The answers there can be to what was done, and to what was not.  204 has no body.
Sent(done) ==
  {Nothing} \cup
  {a \in Answers : /\ a.status = 204 => ~a.parses
                   /\ IF done THEN a.status \in 200..299 ELSE a.status >= 400}

Taken(kind, done) == {a \in Sent(done) : Takes(kind, a)}

\* A request may be answered to its first callback; it may always fail.
MaySucceed(kind, done) == Taken(kind, done) # {}
MayFail(kind, done)    == Taken(kind, done) # Sent(done)
=============================================================================
