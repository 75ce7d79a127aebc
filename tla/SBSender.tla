------------------------------ MODULE SBSender ------------------------------
(***************************************************************************)
(* One link on which a client sends to the Service Bus emulator, with its  *)
(* frames in flight: the credit window of conn.go onAttach, onTransfer and *)
(* grantCredit, and the reassembly of multi-frame deliveries of link.go    *)
(* appendPartial, takePartial and recordReceived.  TCP keeps each          *)
(* direction in order.  Counters are uint32 in the code and wrap here at   *)
(* Width, so the link may run for ever.                                    *)
(***************************************************************************)
EXTENDS Integers, Sequences, SequencesExt

CONSTANTS
  Width,          \* 2^32 in the code
  InitialCredit,  \* senderInitialCredit
  Threshold,      \* senderCreditReplenishThreshold
  MaxFrames       \* bound: the frames one delivery is split into

ASSUME SenderAssumption ==
  /\ Width \in Nat /\ InitialCredit \in Nat /\ Threshold \in Nat \ {0}
  /\ Threshold <= InitialCredit /\ InitialCredit < Width
  /\ MaxFrames \in Nat \ {0}

VARIABLES
  toServer, toClient,             \* frames in flight
  linked,                         \* whether the link is in the server's table
  partial, received, sinceFlow,   \* the link's fields
  body,                           \* the message last handed to broker.Send
  state,                          \* the client: detached, attaching, attached, detaching
  sending,                        \* the frames left of the delivery the client is sending
  nextId, started, allowed        \* its deliveries: next number, how many started on
                                  \* this link, and the count its credit reaches

serverVars == <<linked, partial, received, sinceFlow, body>>
clientVars == <<state, sending, nextId, started, allowed>>
vars == <<toServer, toClient, serverVars, clientVars>>

Inc(n) == (n + 1) % Width

Window == (allowed - started) % Width

(* A delivery is the chunks <<its number, position, how many>>, one a frame. *)
Delivery(id, n) == [i \in 1..n |-> <<id, i, n>>]

Attach == [kind |-> "attach"]
Detach == [kind |-> "detach"]
Transfer(chunk, more) == [kind |-> "transfer", chunk |-> chunk, more |-> more]
FlowFrame(count, credit) == [kind |-> "flow", count |-> count, credit |-> credit]
Settled == [kind |-> "disposition"]

\* The count up to which a flow lets the client send.
Granted(f) == (f.count + f.credit) % Width

Init ==
  /\ toServer = <<>> /\ toClient = <<>>
  /\ linked = FALSE
  /\ partial = <<>> /\ received = 0 /\ sinceFlow = 0
  /\ body = <<>>
  /\ state = "detached"
  /\ sending = <<>>
  /\ nextId = 0 /\ started = 0 /\ allowed = 0

-----------------------------------------------------------------------------
(* The client, as the SDK behaves on the wire.                             *)
ClientAttach ==
  /\ state = "detached"
  /\ state' = "attaching"
  /\ toServer' = Append(toServer, Attach)
  /\ started' = 0 /\ allowed' = 0
  /\ UNCHANGED <<toClient, serverVars, sending, nextId>>

ClientStart(n) ==
  /\ state = "attached"
  /\ sending = <<>>
  /\ Window > 0
  /\ sending' = Delivery(nextId, n)
  /\ nextId' = Inc(nextId)
  /\ started' = Inc(started)
  /\ UNCHANGED <<toServer, toClient, serverVars, state, allowed>>

(* No delivery is aborted: onTransfer does not know the flag.              *)
ClientSend ==
  /\ state \in {"attached", "detaching"}
  /\ sending # <<>>
  /\ toServer' = Append(toServer, Transfer(Head(sending), Len(sending) > 1))
  /\ sending' = Tail(sending)
  /\ UNCHANGED <<toClient, serverVars, state, nextId, started, allowed>>

(* The client may detach half-way through a delivery; until the echo comes *)
(* its sending thread may still write frames of it.                        *)
ClientDetach ==
  /\ state = "attached"
  /\ state' = "detaching"
  /\ toServer' = Append(toServer, Detach)
  /\ UNCHANGED <<toClient, serverVars, sending, nextId, started, allowed>>

ClientReceive ==
  /\ toClient # <<>>
  /\ toClient' = Tail(toClient)
  /\ LET f == Head(toClient) IN
       /\ allowed' = IF f.kind = "flow" THEN Granted(f) ELSE allowed
       /\ state' = CASE f = Attach /\ state = "attaching" -> "attached"
                     [] f = Detach -> "detached"
                     [] OTHER -> state
       /\ sending' = IF f = Detach THEN <<>> ELSE sending
  /\ UNCHANGED <<toServer, serverVars, nextId, started>>

-----------------------------------------------------------------------------
(* The server's reader takes the next frame.                               *)
Take(kind) ==
  /\ toServer # <<>>
  /\ Head(toServer).kind = kind
  /\ toServer' = Tail(toServer)

(* onAttach of a sender: a fresh link, the echo, the first credit.         *)
onAttach ==
  /\ Take("attach")
  /\ linked' = TRUE
  /\ partial' = <<>> /\ received' = 0 /\ sinceFlow' = 0
  /\ toClient' = toClient \o <<Attach, FlowFrame(0, InitialCredit)>>
  /\ UNCHANGED <<body, clientVars>>

(* takePartial: what is buffered and the last chunk; the buffer is empty   *)
(* again.                                                                  *)
MutTakePartialKeeps(chunk) ==
  /\ body' = Append(partial, chunk)
  /\ UNCHANGED partial

takePartial(chunk) ==
  /\ body' = Append(partial, chunk)
  /\ partial' = <<>>

(* recordReceived, and the replies of onTransfer: a flow every Threshold   *)
(* deliveries, then the disposition.                                       *)
MutRecordReceivedFromZero ==
  /\ received' = Inc(received)
  /\ IF sinceFlow + 1 >= Threshold
     THEN /\ sinceFlow' = 0
          /\ toClient' = toClient \o <<FlowFrame(0, InitialCredit), Settled>>
     ELSE /\ sinceFlow' = sinceFlow + 1
          /\ toClient' = Append(toClient, Settled)

recordReceived ==
  /\ received' = Inc(received)
  /\ IF sinceFlow + 1 >= Threshold
     THEN /\ sinceFlow' = 0
          /\ toClient' = toClient \o <<FlowFrame(received', InitialCredit), Settled>>
     ELSE /\ sinceFlow' = sinceFlow + 1
          /\ toClient' = Append(toClient, Settled)

(* onTransfer: ignored without a link, buffered while more follows.        *)
onTransfer ==
  LET f == Head(toServer) IN
  /\ Take("transfer")
  /\ \/ /\ ~linked
        /\ UNCHANGED <<toClient, partial, received, sinceFlow, body>>
     \/ /\ linked /\ f.more
        /\ partial' = Append(partial, f.chunk)
        /\ UNCHANGED <<toClient, received, sinceFlow, body>>
     \/ /\ linked /\ ~f.more
        /\ takePartial(f.chunk)
        /\ recordReceived
  /\ UNCHANGED <<linked, clientVars>>

onDetach ==
  /\ Take("detach")
  /\ linked' = FALSE
  /\ toClient' = Append(toClient, Detach)
  /\ UNCHANGED <<partial, received, sinceFlow, body, clientVars>>

Server == onAttach \/ onTransfer \/ onDetach

Next ==
  \/ ClientAttach \/ ClientSend \/ ClientDetach \/ ClientReceive
  \/ \E n \in 1..MaxFrames : ClientStart(n)
  \/ Server

(* The reader goroutine takes frames that have arrived, TCP delivers, and  *)
(* the SDK reads its socket and finishes a delivery it has started.        *)
Fairness == WF_vars(Server) /\ WF_vars(ClientReceive) /\ WF_vars(ClientSend)

Spec == Init /\ [][Next]_vars
FairSpec == Spec /\ Fairness

-----------------------------------------------------------------------------
(* Properties.                                                             *)

(* The link's variables are in range; received wraps with the width.       *)
TypeOK ==
  /\ linked \in BOOLEAN
  /\ received \in 0..(Width - 1) /\ sinceFlow \in 0..(Threshold - 1)
  /\ state \in {"detached", "attaching", "attached", "detaching"}
  /\ nextId \in 0..(Width - 1) /\ started \in 0..(Width - 1)
  /\ allowed \in 0..(Width - 1)

(* Every message handed to the broker is one whole delivery: no chunk is   *)
(* missing, doubled or left over from a delivery given up by a detach      *)
(* (conn.go onTransfer, "otherwise fragments are relayed as corrupted").   *)
Verbatim ==
  body # <<>> => \E id \in 0..(Width - 1), n \in 1..MaxFrames : body = Delivery(id, n)

\* The frames of s that complete a delivery.
Finals(s) == {i \in DOMAIN s : s[i].kind = "transfer" /\ ~s[i].more}

(* The deliveries the client has started on this link and the server has   *)
(* not completed: in the socket, in the buffer or half sent.               *)
Outstanding == Cardinality(Finals(toServer)) + (IF sending # <<>> THEN 1 ELSE 0)

(* The client's window once it has read what is in flight to it.           *)
Flows == {i \in DOMAIN toClient : toClient[i].kind = "flow"}
LastFlow == IF Flows = {} THEN allowed ELSE Granted(toClient[Max(Flows)])

(* The window is conserved: what the client may still send, what is on its *)
(* way and what was completed since the last replenishing flow add up to   *)
(* the initial credit, across any wrap of the counters.  So the server     *)
(* never grants too much, and the client is never short by more than what  *)
(* the server is about to give back.                                       *)
WindowConserved ==
  linked /\ state = "attached" /\ Detach \notin Range(toServer) =>
    ((LastFlow - started) % Width) + Outstanding + sinceFlow = InitialCredit

(* And the counters are where the wrap and the reset leave them.           *)
WindowSound == TypeOK /\ WindowConserved

(* link.go: replenishing "keeps the client from ever blocking".  A client  *)
(* out of credit gets more.                                                *)
NeverStuck == (state = "attached" /\ Window = 0) ~> (state # "attached" \/ Window > 0)
=============================================================================
