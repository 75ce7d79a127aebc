----------------------------- MODULE ServiceBus -----------------------------
(***************************************************************************)
(* The AMQP server of the Service Bus emulator over the broker:            *)
(* internal/servers/sbserver/conn.go and link.go.                          *)
(*                                                                         *)
(* Three kinds of goroutine interleave.  Each connection has a reader      *)
(* (serve/dispatch) that runs one handler at a time.  Each receiver link   *)
(* has a delivery loop (deliverLoop) started by its attach.  The broker's  *)
(* mutex and each link's mutex delimit the atomic steps; a write to the    *)
(* socket happens outside both.  Clients are the environment: they choose  *)
(* the frames, and may vanish at any moment.                               *)
(*                                                                         *)
(* A Receiver or Sender is one link object: it is attached once, to the    *)
(* node AddressOf gives it, at the connection and handle Spot gives it.    *)
(***************************************************************************)
EXTENDS SBBroker, FiniteSets

CONSTANTS
  Conn,          \* TCP connections
  Sender,        \* links on which the client sends
  Handle,        \* link handles, a session's channel folded in (linkKey)
  AddressOf,     \* the node each link attaches to
  Spot,          \* the connection and handle the client attaches each link on
  MaxMsg,        \* bound: how many messages clients send
  MaxCredit,     \* bound: the credit a link may hold
  Outcome,       \* the dispositions clients send: accepted, released
  ReuseHandles,  \* whether a client attaches to a handle still in the table
                 \* (after an End, which detaches nothing here)
  None           \* no link, no connection

ASSUME ServiceBusAssumption ==
  /\ Receiver \cap Sender = {}
  /\ None \notin Receiver \cup Sender \cup Conn
  /\ AddressOf \in [Receiver \cup Sender -> Address]
  /\ Spot \in [Receiver \cup Sender -> [conn : Conn, handle : Handle]]
  /\ MaxMsg \in Nat /\ MaxCredit \in Nat
  /\ Outcome \subseteq {"accepted", "released"}
  /\ ReuseHandles \in BOOLEAN

Link == Receiver \cup Sender
Msg == 1..MaxMsg      \* messages are numbered in the order the broker takes them
NoMsg == 0

VARIABLES
  table,          \* conn.links
  reader,         \* where each connection's reader goroutine is, and on which link
  peer,           \* whether the client end of the connection is still there
  credit, deliveryCount, closed,   \* the receiver link's fields of those names
  pc, pending,    \* each delivery loop's position and the message it holds
  \* What clients have seen; the code keeps none of these.
  sent,           \* how many messages have been sent
  enqueued,       \* the messages ever sent to each address
  wire,           \* the transfers each receiver link's client got, in order
  lost,           \* messages taken off a queue that no client got
  limit,          \* the delivery count up to which the last flow or drain echo allows
  drained,        \* whether that was a drain echo
  settled,        \* the outcome the client sent for each delivery
  shared          \* addresses that two delivery loops have served at once

linkVars == <<credit, deliveryCount, closed>>
loopVars == <<pc, pending>>
connVars == <<table, reader, peer>>
clientVars == <<sent, enqueued, wire, lost, limit, drained, settled, shared>>
vars == <<brokerVars, linkVars, loopVars, connVars, clientVars>>

Idle == [at |-> "read", link |-> None]
At(where, l) == [at |-> where, link |-> l]

ConnOf(l) == Spot[l].conn

Running(l) == pc[l] \notin {"new", "attaching", "done"}

InTable(c) == {table[c][h] : h \in Handle} \ {None}

Init ==
  /\ BrokerInit
  /\ table = [c \in Conn |-> [h \in Handle |-> None]]
  /\ reader = [c \in Conn |-> Idle]
  /\ peer = [c \in Conn |-> TRUE]
  /\ credit = [l \in Receiver |-> 0]
  /\ deliveryCount = [l \in Receiver |-> 0]
  /\ closed = [l \in Receiver |-> FALSE]
  /\ pc = [l \in Receiver |-> "new"]
  /\ pending = [l \in Receiver |-> NoMsg]
  /\ sent = 0
  /\ enqueued = [a \in Address |-> {}]
  /\ wire = [l \in Receiver |-> <<>>]
  /\ lost = [l \in Receiver |-> {}]
  /\ limit = [l \in Receiver |-> 0]
  /\ drained = [l \in Receiver |-> FALSE]
  /\ settled = [l \in Receiver |-> [m \in Msg |-> "no"]]
  /\ shared = {}

-----------------------------------------------------------------------------
(* Link operations, each under the link's mutex.                           *)

(* cond.Broadcast: a loop asleep in takeCredit looks again.                *)
Broadcast(L) == pc' = [l \in Receiver |->
  IF l \in L /\ pc[l] = "sleep" THEN "credit" ELSE pc[l]]

MutAddCreditSilent(l, n) ==
  /\ credit' = [credit EXCEPT ![l] = @ + n]
  /\ UNCHANGED <<pc, deliveryCount, closed>>

addCredit(l, n) ==
  /\ credit' = [credit EXCEPT ![l] = @ + n]
  /\ Broadcast({l})
  /\ UNCHANGED <<deliveryCount, closed>>

MutDrainCreditRemainder(l) ==
  /\ credit' = [credit EXCEPT ![l] = @ - deliveryCount[l]]
  /\ UNCHANGED <<pc, deliveryCount, closed>>

drainCredit(l) ==
  /\ credit' = [credit EXCEPT ![l] = 0]
  /\ UNCHANGED <<pc, deliveryCount, closed>>

MutCloseSilent(L) ==
  /\ closed' = [l \in Receiver |-> closed[l] \/ l \in L]
  /\ UNCHANGED <<pc, credit, deliveryCount>>

(* link.close of every link in L.                                          *)
closeLinks(L) ==
  /\ closed' = [l \in Receiver |-> closed[l] \/ l \in L]
  /\ Broadcast(L)
  /\ UNCHANGED <<credit, deliveryCount>>

-----------------------------------------------------------------------------
(* The reader goroutine: one handler per frame.                            *)

(* onAttach up to the echo: the link enters the table, over whatever was   *)
(* there, and a subscription receiver is registered with the broker.       *)
Attach(c, h, l) ==
  /\ reader[c] = Idle
  /\ Spot[l] = [conn |-> c, handle |-> h]
  /\ l \in Receiver => pc[l] = "new"
  /\ ReuseHandles \/ table[c][h] = None
  /\ table' = [table EXCEPT ![c][h] = l]
  /\ reader' = [reader EXCEPT ![c] = At("attach", l)]
  /\ \/ /\ l \in Receiver
        /\ RegisterSubscription(AddressOf[l])
        /\ pc' = [pc EXCEPT ![l] = "attaching"]
     \/ /\ l \in Sender
        /\ UNCHANGED <<brokerVars, pc>>
  /\ UNCHANGED <<linkVars, pending, peer, clientVars>>

(* onAttach from the echo on: a receiver's delivery loop starts.           *)
AttachEcho(c) ==
  LET l == reader[c].link IN
  /\ reader[c].at = "attach"
  /\ reader' = [reader EXCEPT ![c] = Idle]
  /\ \/ /\ l \in Receiver
        /\ pc' = [pc EXCEPT ![l] = "poll"]
        /\ shared' = IF \E k \in Receiver : AddressOf[k] = AddressOf[l] /\ Running(k)
                     THEN shared \cup {AddressOf[l]} ELSE shared
     \/ /\ l \in Sender
        /\ UNCHANGED <<pc, shared>>
  /\ UNCHANGED <<brokerVars, linkVars, pending, table, peer, sent, enqueued,
                 wire, lost, limit, drained, settled>>

(* onTransfer of a complete message.  It does not look at the link's role; *)
(* clients are taken to transfer on the links they attached to send on.    *)
(* The credit it replenishes and its disposition are SBSender's subject.   *)
Transfer(c, h) ==
  LET l == table[c][h] IN
  /\ reader[c] = Idle
  /\ l \in Sender
  /\ sent < MaxMsg
  /\ sent' = sent + 1
  /\ Send(AddressOf[l], sent')
  /\ enqueued' = [a \in Address |-> IF a \in Targets(AddressOf[l])
                                    THEN enqueued[a] \cup {sent'} ELSE enqueued[a]]
  /\ UNCHANGED <<linkVars, loopVars, connVars, wire, lost, limit, drained,
                 settled, shared>>

(* onFlow without drain.  The client's link-credit n counts from the       *)
(* transfers it has seen, so the window it allows ends at Len(wire) + n.   *)
(* (With n = 0 the code only broadcasts, and a sleeping loop sleeps on.)   *)
(* Credits are uint32 in the code; MaxCredit stands for sums below 2^32.   *)
Flow(c, h, n) ==
  LET l == table[c][h] IN
  /\ reader[c] = Idle
  /\ l \in Receiver
  /\ credit[l] + n <= MaxCredit
  /\ addCredit(l, n)
  /\ drained' = [drained EXCEPT ![l] = FALSE]
  /\ limit' = [limit EXCEPT ![l] = Len(wire[l]) + n]
  /\ UNCHANGED <<brokerVars, pending, connVars, sent, enqueued, wire, lost,
                 settled, shared>>

(* onFlow with drain: the credit goes under the link's lock ...            *)
Drain(c, h) ==
  LET l == table[c][h] IN
  /\ reader[c] = Idle
  /\ l \in Receiver
  /\ drainCredit(l)
  /\ reader' = [reader EXCEPT ![c] = [at |-> "drain", link |-> l,
                                      count |-> deliveryCount[l]]]
  /\ UNCHANGED <<brokerVars, pending, table, peer, clientVars>>

(* ... and the echo with the count is written after it is released.        *)
DrainEcho(c) ==
  LET l == reader[c].link IN
  /\ reader[c].at = "drain"
  /\ reader' = [reader EXCEPT ![c] = Idle]
  /\ drained' = [drained EXCEPT ![l] = TRUE]
  /\ limit' = [limit EXCEPT ![l] = reader[c].count]
  /\ UNCHANGED <<brokerVars, linkVars, loopVars, table, peer, sent, enqueued,
                 wire, lost, settled, shared>>

(* onDisposition: whatever the outcome, the server only confirms it.       *)
Disposition(c, l, m, outcome) ==
  /\ reader[c] = Idle
  /\ peer[c]
  /\ ConnOf(l) = c
  /\ \E i \in 1..Len(wire[l]) : wire[l][i] = m
  /\ settled[l][m] = "no"
  /\ settled' = [settled EXCEPT ![l][m] = outcome]
  /\ UNCHANGED <<brokerVars, linkVars, loopVars, connVars, sent, enqueued, wire,
                 lost, limit, drained, shared>>

(* onDetach.                                                               *)
Detach(c, h) ==
  /\ reader[c] = Idle
  /\ table[c][h] # None
  /\ closeLinks({table[c][h]})
  /\ table' = [table EXCEPT ![c][h] = None]
  /\ UNCHANGED <<brokerVars, pending, reader, peer, clientVars>>

(* The client vanishes; nothing on the server notices at once.             *)
Drop(c) ==
  /\ peer[c]
  /\ reader[c].at # "closed"
  /\ peer' = [peer EXCEPT ![c] = FALSE]
  /\ UNCHANGED <<brokerVars, linkVars, loopVars, table, reader, clientVars>>

(* serve returns - a Close frame, a read that fails or an attach echo that *)
(* cannot be written - and closeAllLinks runs.  A loop whose attach echo   *)
(* failed is never started.                                                *)
MutStopServingOpen(c) ==
  /\ \/ reader[c] = Idle
     \/ reader[c].at \in {"attach", "drain"} /\ ~peer[c]
  /\ reader' = [reader EXCEPT ![c] = At("closing", None)]
  /\ UNCHANGED <<brokerVars, linkVars, loopVars, table, peer, clientVars>>

StopServing(c) ==
  /\ \/ reader[c] = Idle
     \/ reader[c].at \in {"attach", "drain"} /\ ~peer[c]
  /\ reader' = [reader EXCEPT ![c] = At("closing", None)]
  /\ closeLinks(InTable(c))
  /\ UNCHANGED <<brokerVars, pending, table, peer, clientVars>>

(* serve's other deferred call, netConn.Close.                             *)
NetClose(c) ==
  /\ reader[c].at = "closing"
  /\ reader' = [reader EXCEPT ![c] = At("closed", None)]
  /\ UNCHANGED <<brokerVars, linkVars, loopVars, table, peer, clientVars>>

-----------------------------------------------------------------------------
(* The delivery loop of a receiver link.                                   *)

(* Dequeue: a message in hand, or nil and on to the wait.                  *)
LoopDequeue(l) ==
  LET a == AddressOf[l] IN
  /\ pc[l] = "poll"
  /\ \/ /\ Dequeue(a)
        /\ pending' = [pending EXCEPT ![l] = Head(queues[a])]
        /\ pc' = [pc EXCEPT ![l] = "credit"]
     \/ /\ queues[a] = <<>>
        /\ pc' = [pc EXCEPT ![l] = "empty"]
        /\ UNCHANGED <<brokerVars, pending>>
  /\ UNCHANGED <<linkVars, connVars, clientVars>>

(* WaitChan, a second visit to the broker's lock.                          *)
LoopWaitChan(l) ==
  /\ pc[l] = "empty"
  /\ WaitChan(AddressOf[l], l)
  /\ pc' = [pc EXCEPT ![l] = "wait"]
  /\ UNCHANGED <<linkVars, pending, connVars, clientVars>>

(* The select: its channel is closed once it is no longer among the open   *)
(* ones, and when done is closed too Go picks either.                      *)
LoopWake(l) ==
  /\ pc[l] = "wait"
  /\ l \notin waiters[AddressOf[l]]
  /\ pc' = [pc EXCEPT ![l] = "poll"]
  /\ UNCHANGED <<brokerVars, linkVars, pending, connVars, clientVars>>

LoopQuit(l) ==
  /\ pc[l] = "wait"
  /\ closed[l]
  /\ pc' = [pc EXCEPT ![l] = "done"]
  /\ UNCHANGED <<brokerVars, linkVars, pending, connVars, clientVars>>

(* takeCredit: closed wins over credit; with neither, cond.Wait.           *)
MutTakeCreditFirst(l) ==
  /\ pc[l] = "credit"
  /\ IF credit[l] > 0
     THEN /\ credit' = [credit EXCEPT ![l] = @ - 1]
          /\ deliveryCount' = [deliveryCount EXCEPT ![l] = @ + 1]
          /\ pc' = [pc EXCEPT ![l] = "write"]
     ELSE /\ pc' = [pc EXCEPT ![l] = IF closed[l] THEN "return" ELSE "sleep"]
          /\ UNCHANGED <<credit, deliveryCount>>
  /\ UNCHANGED <<brokerVars, closed, pending, connVars, clientVars>>

MutTakeCreditUncounted(l) ==
  /\ pc[l] = "credit"
  /\ \/ /\ closed[l]
        /\ pc' = [pc EXCEPT ![l] = "return"]
        /\ UNCHANGED credit
     \/ /\ ~closed[l] /\ credit[l] = 0
        /\ pc' = [pc EXCEPT ![l] = "sleep"]
        /\ UNCHANGED credit
     \/ /\ ~closed[l] /\ credit[l] > 0
        /\ credit' = [credit EXCEPT ![l] = @ - 1]
        /\ pc' = [pc EXCEPT ![l] = "write"]
  /\ UNCHANGED <<brokerVars, deliveryCount, closed, pending, connVars, clientVars>>

takeCredit(l) ==
  /\ pc[l] = "credit"
  /\ \/ /\ closed[l]
        /\ pc' = [pc EXCEPT ![l] = "return"]
        /\ UNCHANGED <<credit, deliveryCount>>
     \/ /\ ~closed[l] /\ credit[l] = 0
        /\ pc' = [pc EXCEPT ![l] = "sleep"]
        /\ UNCHANGED <<credit, deliveryCount>>
     \/ /\ ~closed[l] /\ credit[l] > 0
        /\ credit' = [credit EXCEPT ![l] = @ - 1]
        /\ deliveryCount' = [deliveryCount EXCEPT ![l] = @ + 1]
        /\ pc' = [pc EXCEPT ![l] = "write"]
  /\ UNCHANGED <<brokerVars, closed, pending, connVars, clientVars>>

(* takeCredit returned false: Requeue, and the loop ends.                  *)
MutLoopReturnDrops(l) ==
  /\ pc[l] = "return"
  /\ pc' = [pc EXCEPT ![l] = "done"]
  /\ pending' = [pending EXCEPT ![l] = NoMsg]
  /\ UNCHANGED <<brokerVars, linkVars, connVars, clientVars>>

LoopReturn(l) ==
  /\ pc[l] = "return"
  /\ Requeue(AddressOf[l], pending[l])
  /\ pc' = [pc EXCEPT ![l] = "done"]
  /\ pending' = [pending EXCEPT ![l] = NoMsg]
  /\ UNCHANGED <<linkVars, connVars, clientVars>>

(* deliver.  The client gets the transfer if it is still there and has not *)
(* been told the link is gone; bytes written for a client that vanished    *)
(* may still be accepted by the kernel, or the write fails and the loop    *)
(* ends with the message.                                                  *)
Delivered(l) == peer[ConnOf(l)] /\ reader[ConnOf(l)].at # "closed" /\ ~closed[l]

MutLoopDeliverKeeps(l) ==
  /\ pc[l] = "write"
  /\ reader[ConnOf(l)].at # "closed"
  /\ pc' = [pc EXCEPT ![l] = "credit"]
  /\ IF Delivered(l)
     THEN wire' = [wire EXCEPT ![l] = Append(@, pending[l])] /\ UNCHANGED lost
     ELSE lost' = [lost EXCEPT ![l] = @ \cup {pending[l]}] /\ UNCHANGED wire
  /\ UNCHANGED <<brokerVars, linkVars, pending, connVars, sent, enqueued, limit,
                 drained, settled, shared>>

LoopDeliver(l) ==
  /\ pc[l] = "write"
  /\ \/ /\ reader[ConnOf(l)].at # "closed"
        /\ pc' = [pc EXCEPT ![l] = "poll"]
     \/ /\ reader[ConnOf(l)].at = "closed" \/ ~peer[ConnOf(l)]
        /\ pc' = [pc EXCEPT ![l] = "done"]
  /\ IF Delivered(l)
     THEN wire' = [wire EXCEPT ![l] = Append(@, pending[l])] /\ UNCHANGED lost
     ELSE lost' = [lost EXCEPT ![l] = @ \cup {pending[l]}] /\ UNCHANGED wire
  /\ pending' = [pending EXCEPT ![l] = NoMsg]
  /\ UNCHANGED <<brokerVars, linkVars, connVars, sent, enqueued, limit, drained,
                 settled, shared>>

-----------------------------------------------------------------------------
Client(c) ==
  \/ \E h \in Handle :
       \/ \E l \in Link : Attach(c, h, l)
       \/ Transfer(c, h)
       \/ \E n \in 1..MaxCredit : Flow(c, h, n)
       \/ Drain(c, h)
       \/ Detach(c, h)
  \/ \E l \in Receiver, m \in Msg, outcome \in Outcome :
       Disposition(c, l, m, outcome)
  \/ Drop(c)

Serve(c) == AttachEcho(c) \/ DrainEcho(c) \/ StopServing(c) \/ NetClose(c)

deliverLoop(l) ==
  \/ LoopDequeue(l) \/ LoopWaitChan(l) \/ LoopWake(l) \/ LoopQuit(l)
  \/ takeCredit(l) \/ LoopReturn(l) \/ LoopDeliver(l)

Next ==
  \/ \E c \in Conn : Client(c) \/ Serve(c)
  \/ \E l \in Receiver : deliverLoop(l)

(* The Go scheduler runs every goroutine that can run: the delivery loops  *)
(* and the reader between two frames.  No client has to do anything, so a  *)
(* reader that waits for a frame may wait for ever unless the client is    *)
(* gone, and the read then fails.                                          *)
Fairness ==
  /\ \A l \in Receiver : WF_vars(deliverLoop(l))
  /\ \A c \in Conn : /\ WF_vars(AttachEcho(c) \/ DrainEcho(c) \/ NetClose(c))
                     /\ WF_vars(~peer[c] /\ StopServing(c))

Spec == Init /\ [][Next]_vars
FairSpec == Spec /\ Fairness

-----------------------------------------------------------------------------
(* Properties.                                                             *)

ReaderState ==
  [at : {"read", "attach", "closing", "closed"}, link : Link \cup {None}]
  \cup [at : {"drain"}, link : Receiver, count : Nat]

LoopState == {"new", "attaching", "poll", "empty", "wait", "credit", "sleep",
              "write", "return", "done"}

LoopsOf(a) == {l \in Receiver : AddressOf[l] = a}

(* The code's variables and the clients' view have the declared types; in  *)
(* particular no credit ever wraps below zero.                             *)
TypeOK ==
  /\ queues \in [Address -> Seq(Msg)]
  /\ topicSubs \in [Address -> SUBSET Subscription]
  /\ waiters \in [Address -> SUBSET Receiver]
  /\ table \in [Conn -> [Handle -> Link \cup {None}]]
  /\ reader \in [Conn -> ReaderState]
  /\ peer \in [Conn -> BOOLEAN]
  /\ credit \in [Receiver -> Nat]
  /\ deliveryCount \in [Receiver -> Nat]
  /\ closed \in [Receiver -> BOOLEAN]
  /\ pc \in [Receiver -> LoopState]
  /\ pending \in [Receiver -> Msg \cup {NoMsg}]
  /\ sent \in 0..MaxMsg
  /\ enqueued \in [Address -> SUBSET Msg]
  /\ wire \in [Receiver -> Seq(Msg)]
  /\ lost \in [Receiver -> SUBSET Msg]
  /\ limit \in [Receiver -> Nat]
  /\ drained \in [Receiver -> BOOLEAN]
  /\ settled \in [Receiver -> [Msg -> {"no", "accepted", "released"}]]
  /\ shared \subseteq Address

(* Every copy of a message the broker took is in exactly one place: queued *)
(* at its address, in the hand of one delivery loop there, on one client's *)
(* wire, or lost.  Nothing is delivered twice and nothing disappears while *)
(* attaches, drains, detaches and requeues interleave (broker.go Dequeue   *)
(* and Requeue against conn.go deliverLoop).                               *)
Places(a, m) ==
  {<<"queued", i>> : i \in {i \in 1..Len(queues[a]) : queues[a][i] = m}}
  \cup UNION {
     {<<"delivered", l, i>> : i \in {i \in 1..Len(wire[l]) : wire[l][i] = m}}
     \cup (IF pending[l] = m THEN {<<"held", l>>} ELSE {})
     \cup (IF m \in lost[l] THEN {<<"lost", l>>} ELSE {}) : l \in LoopsOf(a)}

ExactlyOnePlace ==
  \A a \in Address, m \in Msg :
    Cardinality(Places(a, m)) = IF m \in enqueued[a] THEN 1 ELSE 0

(* While the client is connected, a receiver link loses a message only by  *)
(* being closed, and then at most the one whose credit its loop had taken  *)
(* when the close came (takeCredit prefers closed over credit).            *)
LossIsBounded ==
  \A l \in Receiver :
    pc[l] # "new" /\ peer[ConnOf(l)] /\ lost[l] # {} =>
      closed[l] /\ Cardinality(lost[l]) = 1

(* An address served by one delivery loop at a time keeps the order in     *)
(* which the broker took its messages, however often the loop is detached  *)
(* with a message in hand and replaced: what clients got precedes what is  *)
(* in hand, which precedes what is queued (Requeue puts back in front).    *)
Increasing(s) == \A i, j \in 1..Len(s) : i < j => s[i] < s[j]

Before(S, T) == \A x \in S, y \in T : x < y

Elems(s) == {s[i] : i \in 1..Len(s)}

InOrder ==
  \A a \in Address \ shared :
    /\ Increasing(queues[a])
    /\ \A l \in LoopsOf(a) :
         /\ Increasing(wire[l])
         /\ Before(Elems(wire[l]), Elems(queues[a]))
         /\ \A k \in LoopsOf(a) :
              /\ pending[l] # NoMsg => /\ Before(Elems(wire[k]), {pending[l]})
                                      /\ Before({pending[l]}, Elems(queues[a]))
              /\ k # l => \/ Before(Elems(wire[l]), Elems(wire[k]))
                          \/ Before(Elems(wire[k]), Elems(wire[l]))

(* No wakeup is lost: a channel stays open only while its queue is empty   *)
(* (WaitChan re-checks under the lock), and a loop sleeps in takeCredit    *)
(* only while its link is open and has no credit.                          *)
NoLostWakeup ==
  /\ \A a \in Address : waiters[a] # {} => queues[a] = <<>>
  /\ \A l \in Receiver : pc[l] = "sleep" => credit[l] = 0 /\ ~closed[l]

(* The count a drain echo reports covers every transfer written before the *)
(* client grants again, the one racing with the drain included: takeCredit *)
(* advances deliveryCount under the lock the drain reads it under.         *)
DrainAccounted ==
  \A l \in Receiver :
    drained[l] => Len(wire[l]) + Cardinality(lost[l]) <= limit[l]

(* Once serve has returned, every link attached on the connection is       *)
(* closed, so no delivery loop outlives its connection.                    *)
NoOrphan ==
  \A l \in Receiver :
    pc[l] # "new" /\ reader[ConnOf(l)].at \in {"closing", "closed"} => closed[l]

(* A message sent to a topic goes to every subscription whose attach the   *)
(* server has echoed, receivers gone since included, and then never to the *)
(* topic's own queue (RegisterSubscription precedes the echo).             *)
Gets(a) == enqueued'[a] # enqueued[a]

FanOut ==
  [][\A l \in Receiver :
       /\ AddressOf[l] \in Subscription
       /\ pc[l] \notin {"new", "attaching"}
       /\ \/ Gets(TopicOf[AddressOf[l]])
          \/ \E s \in Subscription : TopicOf[s] = TopicOf[AddressOf[l]] /\ Gets(s)
       => Gets(AddressOf[l]) /\ ~Gets(TopicOf[AddressOf[l]])]_vars

(* No message waits for ever beside a delivery loop that runs on an open   *)
(* link with credit to spend (deliverLoop against Send, addCredit).        *)
NoStarvation ==
  \A l \in Receiver :
    []<>~(queues[AddressOf[l]] # <<>> /\ Running(l) /\ ~closed[l] /\ credit[l] > 0)

(* A closed link's delivery loop ends, wherever the close found it.        *)
LoopsEnd == \A l \in Receiver : closed[l] ~> ~Running(l)

(* What broker and connections together promise, see SBRelay.              *)
PlaceOf(a, m) ==
  LET P == Places(a, m) IN
  CASE P = {} -> "unsent"
    [] Cardinality(P) = 1 -> (CHOOSE p \in P : TRUE)[1]
    [] OTHER -> "duplicated"

Relay == INSTANCE SBRelay WITH place <- [a \in Address |-> [m \in Msg |-> PlaceOf(a, m)]]

RelaySpec == Relay!Spec

(* docs/content/services/service-bus.md: "peek-lock delivery and           *)
(* disposition-based settlement".  A message not yet completed is queued,  *)
(* in a loop's hand, or locked by a client that can still settle it.       *)
PeekLock ==
  \A a \in Address : \A m \in enqueued[a] :
    \/ PlaceOf(a, m) \in {"queued", "held"}
    \/ \E l \in LoopsOf(a) :
         /\ m \in Elems(wire[l])
         /\ \/ settled[l][m] = "accepted"
            \/ settled[l][m] = "no" /\ ~closed[l] /\ peer[ConnOf(l)]

(* link.go takeCredit: "a concurrent drain can never be raced into a       *)
(* delivery".  No transfer reaches the client after a drain's echo until   *)
(* it grants credit again.                                                 *)
NoDeliveryAfterDrain ==
  [][\A l \in Receiver : drained[l] => wire'[l] = wire[l]]_vars

(* conn.go deliverLoop: "pushes queued messages to a client receiver link  *)
(* as credit allows".  The client never gets more transfers than its last  *)
(* flow allowed.                                                           *)
WithinClientCredit == \A l \in Receiver : Len(wire[l]) <= limit[l]
=============================================================================
