-------------------------- MODULE MCMobileRealtime --------------------------
(* Events of one channel: the page of the channel subscribes to its key,   *)
(* the list of channels to all messages.                                   *)
EXTENDS MobileRealtime, TLC

CONSTANTS messages, channel

MCTopics == {messages, channel}

MCKeysOf == [e \in 1..LastEvent |-> IF e = 1 THEN {messages} ELSE {messages, channel}]
=============================================================================
