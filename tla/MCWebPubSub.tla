----------------------------- MODULE MCWebPubSub -----------------------------
(* Instances of WebPubSub for TLC.                                         *)
EXTENDS WebPubSub

CONSTANTS alice, room

\* Every connection is of one user.
OneUser == [c \in Conn |-> alice]

SomeTargets == {ToAll, ToGroup(room)}
SomeRequests ==
  [type : {"joinGroup", "leaveGroup", "sendToGroup"}, group : {room}, ack : {TRUE}]
=============================================================================
