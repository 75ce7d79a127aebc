-------------------------- MODULE ServiceBusProofs --------------------------
(***************************************************************************)
(* What ServiceBus promises for any connections, links, addresses and      *)
(* bounds: type correctness; that no wakeup is lost; that a drain's echo   *)
(* accounts for every delivery; that every copy of a message is in exactly *)
(* one place, moved as the relay of SBRelay moves it, and in order while   *)
(* one loop serves its address; and, for clients that do not attach to a   *)
(* handle in use, that no link outlives its connection and that at most    *)
(* one message is lost on a link whose client stays.                       *)
(***************************************************************************)
EXTENDS ServiceBus, FiniteSetTheorems, SequenceTheorems, TLAPS

-----------------------------------------------------------------------------
(* Type correctness, action by action.                                     *)

BrokerType ==
  /\ queues \in [Address -> Seq(Msg)]
  /\ topicSubs \in [Address -> SUBSET Subscription]
  /\ waiters \in [Address -> SUBSET Receiver]

LEMMA SendType ==
  ASSUME BrokerType, NEW a \in Address, NEW m \in Msg, Send(a, m)
  PROVE  BrokerType'
<1>1. queues' \in [Address -> Seq(Msg)]
  <2>1. \A x \in Address : Append(queues[x], m) \in Seq(Msg)
    BY AppendProperties DEF BrokerType
  <2>2. QED BY <2>1 DEF Send, BrokerType
<1>2. QED BY <1>1 DEF Send, Notify, BrokerType

LEMMA RequeueType ==
  ASSUME BrokerType, NEW a \in Address, NEW m \in Msg, Requeue(a, m)
  PROVE  BrokerType'
<1>1. <<m>> \o queues[a] \in Seq(Msg)
  BY ConcatProperties DEF BrokerType
<1>2. QED BY <1>1 DEF Requeue, Notify, BrokerType

LEMMA DequeueType ==
  ASSUME BrokerType, NEW a \in Address, Dequeue(a)
  PROVE  BrokerType' /\ Head(queues[a]) \in Msg
<1>1. Head(queues[a]) \in Msg /\ Tail(queues[a]) \in Seq(Msg)
  BY HeadTailProperties DEF Dequeue, BrokerType
<1>2. QED BY <1>1 DEF Dequeue, BrokerType

LEMMA InitType == Init => TypeOK
<1> SUFFICES ASSUME Init PROVE TypeOK
  OBVIOUS
<1> USE DEF Init, BrokerInit, TypeOK, Idle, NoMsg, ReaderState, LoopState
<1>1. queues \in [Address -> Seq(Msg)] /\ wire \in [Receiver -> Seq(Msg)]
  BY EmptySeq
<1>2. reader \in [Conn ->
        [at : {"read", "attach", "closing", "closed"}, link : Link \cup {None}]]
  OBVIOUS
<1>3. sent \in 0..MaxMsg
  BY ServiceBusAssumption
<1>4. QED BY <1>1, <1>2, <1>3

(* A loop holds a message exactly where deliverLoop has one in its hand.   *)
Holding == {"credit", "sleep", "write", "return"}

HandOK == \A l \in Receiver : pc[l] \in Holding <=> pending[l] # NoMsg

(* While onAttach is at its echo, the link's loop is not started yet.      *)
AttachingOK ==
  \A c \in Conn : reader[c].at = "attach" =>
    /\ ConnOf(reader[c].link) = c
    /\ reader[c].link \in Receiver => pc[reader[c].link] = "attaching"

TypeInv == TypeOK /\ HandOK /\ AttachingOK

LEMMA TypeStep == TypeInv /\ [Next]_vars => TypeOK'
<1> SUFFICES ASSUME TypeInv, [Next]_vars PROVE TypeOK'
  OBVIOUS
<1> USE ServiceBusAssumption, BrokerAssumption
<1> USE DEF TypeInv, TypeOK, NoMsg, Link, Msg, vars, brokerVars, linkVars, loopVars,
            connVars, clientVars, Idle, At
<1>1. ASSUME NEW c \in Conn, NEW h \in Handle, NEW l \in Link, Attach(c, h, l)
      PROVE  TypeOK'
  <2>1. /\ l \in Receiver \cup Sender
        /\ At("attach", l) \in ReaderState
    BY DEF ReaderState
  <2>2. reader' \in [Conn -> ReaderState]
    BY <1>1, <2>1 DEF Attach
  <2>3. table' \in [Conn -> [Handle -> Link \cup {None}]]
    BY <1>1 DEF Attach
  <2>4. CASE l \in Receiver
    <3>1. AddressOf[l] \in Subscription => TopicOf[AddressOf[l]] \in Address
      OBVIOUS
    <3>11. l \notin Sender /\ topicSubs' = IF AddressOf[l] \in Subscription
             THEN [topicSubs EXCEPT ![TopicOf[AddressOf[l]]] = @ \cup {AddressOf[l]}]
             ELSE topicSubs
      BY <1>1, <2>4 DEF Attach, RegisterSubscription
    <3>2. topicSubs' \in [Address -> SUBSET Subscription]
      BY <3>1, <3>11
    <3>3. pc' \in [Receiver -> LoopState]
      BY <1>1, <2>4 DEF Attach, LoopState
    <3>4. QED
      BY <1>1, <2>2, <2>3, <2>4, <3>2, <3>3 DEF Attach, RegisterSubscription
  <2>5. CASE l \in Sender
    BY <1>1, <2>2, <2>3, <2>5 DEF Attach
  <2>6. QED BY <2>1, <2>4, <2>5
<1>2. ASSUME NEW c \in Conn, AttachEcho(c)
      PROVE  TypeOK'
  <2>1. Idle \in ReaderState
    BY DEF ReaderState
  <2>2. reader' \in [Conn -> ReaderState]
    BY <1>2, <2>1 DEF AttachEcho
  <2>3. shared' \subseteq Address
    BY <1>2 DEF AttachEcho
  <2>4. pc' \in [Receiver -> LoopState]
    BY <1>2 DEF AttachEcho, LoopState
  <2>5. QED BY <1>2, <2>2, <2>3, <2>4 DEF AttachEcho
<1>3. ASSUME NEW c \in Conn, NEW h \in Handle, Transfer(c, h)
      PROVE  TypeOK'
  <2>1. AddressOf[table[c][h]] \in Address /\ sent' \in Msg
    BY <1>3 DEF Transfer
  <2>2. BrokerType'
    BY <1>3, <2>1, SendType DEF Transfer, BrokerType
  <2>3. enqueued' \in [Address -> SUBSET Msg]
    BY <1>3, <2>1 DEF Transfer
  <2>4. sent' \in 0..MaxMsg
    BY <1>3 DEF Transfer
  <2>5. QED BY <1>3, <2>2, <2>3, <2>4 DEF Transfer, BrokerType
<1>4. ASSUME NEW c \in Conn, NEW h \in Handle, NEW n \in 1..MaxCredit, Flow(c, h, n)
      PROVE  TypeOK'
  <2>1. Len(wire[table[c][h]]) + n \in Nat
    BY <1>4, LenProperties DEF Flow
  <2>2. credit' \in [Receiver -> Nat]
    BY <1>4 DEF Flow, addCredit
  <2>3. pc' \in [Receiver -> LoopState]
    BY <1>4 DEF Flow, addCredit, Broadcast, LoopState
  <2>4. limit' \in [Receiver -> Nat] /\ drained' \in [Receiver -> BOOLEAN]
    BY <1>4, <2>1 DEF Flow
  <2>5. QED BY <1>4, <2>2, <2>3, <2>4 DEF Flow, addCredit
<1>5. ASSUME NEW c \in Conn, NEW h \in Handle, Drain(c, h)
      PROVE  TypeOK'
  <2>1. [at |-> "drain", link |-> table[c][h], count |-> deliveryCount[table[c][h]]]
          \in ReaderState
    BY <1>5 DEF Drain, ReaderState
  <2>2. reader' \in [Conn -> ReaderState]
    BY <1>5, <2>1 DEF Drain
  <2>3. QED BY <1>5, <2>2 DEF Drain, drainCredit
<1>6. ASSUME NEW c \in Conn, DrainEcho(c)
      PROVE  TypeOK'
  <2>1. Idle \in ReaderState
    BY DEF ReaderState
  <2>2. reader[c].link \in Receiver /\ reader[c].count \in Nat
    BY <1>6 DEF DrainEcho, ReaderState
  <2>3. QED BY <1>6, <2>1, <2>2 DEF DrainEcho
<1>7. ASSUME NEW c \in Conn, NEW l \in Receiver, NEW m \in Msg, NEW o \in Outcome,
             Disposition(c, l, m, o)
      PROVE  TypeOK'
  <2>1. o \in {"no", "accepted", "released"}
    OBVIOUS
  <2>2. QED BY <1>7, <2>1 DEF Disposition
<1>8. ASSUME NEW c \in Conn, NEW h \in Handle, Detach(c, h)
      PROVE  TypeOK'
  <2>1. pc' \in [Receiver -> LoopState]
    BY <1>8 DEF Detach, closeLinks, Broadcast, LoopState
  <2>2. QED BY <1>8, <2>1 DEF Detach, closeLinks
<1>9. ASSUME NEW c \in Conn, Drop(c)
      PROVE  TypeOK'
  BY <1>9 DEF Drop
<1>10. ASSUME NEW c \in Conn, StopServing(c)
       PROVE  TypeOK'
  <2>1. pc' \in [Receiver -> LoopState]
    BY <1>10 DEF StopServing, closeLinks, Broadcast, LoopState
  <2>2. At("closing", None) \in ReaderState
    BY DEF ReaderState
  <2>3. QED BY <1>10, <2>1, <2>2 DEF StopServing, closeLinks
<1>11. ASSUME NEW c \in Conn, NetClose(c)
       PROVE  TypeOK'
  <2>1. At("closed", None) \in ReaderState
    BY DEF ReaderState
  <2>2. QED BY <1>11, <2>1 DEF NetClose
<1>12. ASSUME NEW l \in Receiver, LoopDequeue(l)
       PROVE  TypeOK'
  <2>1. CASE Dequeue(AddressOf[l])
    <3>1. BrokerType' /\ Head(queues[AddressOf[l]]) \in Msg
      BY <2>1, DequeueType DEF BrokerType
    <3>2. pending' \in [Receiver -> Msg \cup {NoMsg}]
      BY <1>12, <2>1, <3>1 DEF LoopDequeue, Dequeue
    <3>3. pc' \in [Receiver -> LoopState]
      <4>1. pc' = [pc EXCEPT ![l] = "credit"] \/ pc' = [pc EXCEPT ![l] = "empty"]
        BY <1>12 DEF LoopDequeue
      <4>2. QED BY <4>1 DEF LoopState
    <3>4. UNCHANGED <<linkVars, connVars, clientVars>>
      BY <1>12 DEF LoopDequeue
    <3>5. QED BY <3>1, <3>2, <3>3, <3>4 DEF BrokerType
  <2>2. CASE ~Dequeue(AddressOf[l])
    BY <1>12, <2>2 DEF LoopDequeue, LoopState
  <2>3. QED BY <2>1, <2>2
<1>13. ASSUME NEW l \in Receiver, LoopWaitChan(l)
       PROVE  TypeOK'
  <2>1. waiters' \in [Address -> SUBSET Receiver]
    BY <1>13 DEF LoopWaitChan, WaitChan
  <2>2. pc' \in [Receiver -> LoopState]
    BY <1>13 DEF LoopWaitChan, LoopState
  <2>3. UNCHANGED <<queues, topicSubs>>
    BY <1>13 DEF LoopWaitChan, WaitChan
  <2>4. UNCHANGED <<linkVars, pending, connVars, clientVars>>
    BY <1>13 DEF LoopWaitChan
  <2>5. QED BY <2>1, <2>2, <2>3, <2>4
<1>14. ASSUME NEW l \in Receiver, LoopWake(l) \/ LoopQuit(l)
       PROVE  TypeOK'
  <2>1. UNCHANGED <<brokerVars, linkVars, pending, connVars, clientVars>>
    BY <1>14 DEF LoopWake, LoopQuit
  <2>2. \E p \in {"poll", "done"} : pc' = [pc EXCEPT ![l] = p]
    BY <1>14 DEF LoopWake, LoopQuit
  <2>3. pc' \in [Receiver -> LoopState]
    BY <2>2 DEF LoopState
  <2>4. QED BY <2>1, <2>3
<1>15. ASSUME NEW l \in Receiver, takeCredit(l)
       PROVE  TypeOK'
  <2>1. CASE ~closed[l] /\ credit[l] > 0
    <3>1. credit[l] - 1 \in Nat /\ deliveryCount[l] + 1 \in Nat
      BY <2>1
    <3>2. /\ credit' = [credit EXCEPT ![l] = credit[l] - 1]
          /\ deliveryCount' = [deliveryCount EXCEPT ![l] = deliveryCount[l] + 1]
          /\ pc' = [pc EXCEPT ![l] = "write"]
      BY <1>15, <2>1 DEF takeCredit
    <3>3. UNCHANGED <<brokerVars, closed, pending, connVars, clientVars>>
      BY <1>15 DEF takeCredit
    <3>4. QED BY <3>1, <3>2, <3>3 DEF LoopState
  <2>2. CASE ~(~closed[l] /\ credit[l] > 0)
    <3>1. /\ UNCHANGED <<credit, deliveryCount>>
          /\ \E p \in LoopState : pc' = [pc EXCEPT ![l] = p]
      BY <1>15, <2>2 DEF takeCredit, LoopState
    <3>2. UNCHANGED <<brokerVars, closed, pending, connVars, clientVars>>
      BY <1>15 DEF takeCredit
    <3>3. QED BY <3>1, <3>2
  <2>3. QED BY <2>1, <2>2
<1>16. ASSUME NEW l \in Receiver, LoopReturn(l)
       PROVE  TypeOK'
  <2>1. pending[l] \in Msg
    BY <1>16 DEF LoopReturn, HandOK, Holding
  <2>2. BrokerType'
    BY <1>16, <2>1, RequeueType DEF LoopReturn, BrokerType
  <2>3. QED BY <1>16, <2>2 DEF LoopReturn, BrokerType, Requeue, Notify, LoopState
<1>17. ASSUME NEW l \in Receiver, LoopDeliver(l)
       PROVE  TypeOK'
  <2>1. pending[l] \in Msg
    BY <1>17 DEF LoopDeliver, HandOK, Holding
  <2>2. Append(wire[l], pending[l]) \in Seq(Msg)
    BY <2>1, AppendProperties
  <2>3. wire' \in [Receiver -> Seq(Msg)] /\ lost' \in [Receiver -> SUBSET Msg]
    <3>1. CASE Delivered(l)
      <4>1. wire' = [wire EXCEPT ![l] = Append(wire[l], pending[l])] /\ lost' = lost
        BY <1>17, <3>1 DEF LoopDeliver
      <4>2. QED BY <2>2, <4>1
    <3>2. CASE ~Delivered(l)
      <4>1. lost' = [lost EXCEPT ![l] = lost[l] \cup {pending[l]}] /\ wire' = wire
        BY <1>17, <3>2 DEF LoopDeliver
      <4>2. QED BY <2>1, <4>1
    <3>3. QED BY <3>1, <3>2
  <2>4. pc' \in [Receiver -> LoopState] /\ pending' \in [Receiver -> Msg \cup {NoMsg}]
    <3>1. pc' = [pc EXCEPT ![l] = "poll"] \/ pc' = [pc EXCEPT ![l] = "done"]
      BY <1>17 DEF LoopDeliver
    <3>2. pending' = [pending EXCEPT ![l] = NoMsg]
      BY <1>17 DEF LoopDeliver
    <3>3. QED BY <3>1, <3>2 DEF LoopState
  <2>5. UNCHANGED <<brokerVars, linkVars, connVars, sent, enqueued, limit, drained,
                    settled, shared>>
    BY <1>17 DEF LoopDeliver
  <2>6. QED BY <2>3, <2>4, <2>5
<1>18. CASE UNCHANGED vars
  BY <1>18
<1>19. QED
  BY <1>1, <1>2, <1>3, <1>4, <1>5, <1>6, <1>7, <1>8, <1>9, <1>10, <1>11, <1>12,
     <1>13, <1>14, <1>15, <1>16, <1>17, <1>18
     DEF Next, Client, Serve, deliverLoop

(* The positions of the loops and readers fit together.                    *)
LEMMA LoopStep == TypeInv /\ [Next]_vars => HandOK' /\ AttachingOK'
<1> SUFFICES ASSUME TypeInv, [Next]_vars PROVE HandOK' /\ AttachingOK'
  OBVIOUS
<1>0. /\ pc \in [Receiver -> LoopState]
      /\ pending \in [Receiver -> Msg \cup {NoMsg}]
      /\ queues \in [Address -> Seq(Msg)]
      /\ HandOK /\ AttachingOK
      /\ NoMsg \notin Msg
  BY DEF TypeInv, TypeOK, NoMsg, Msg
<1>00. reader \in [Conn -> ReaderState]
  BY DEF TypeInv, TypeOK
<1> USE ServiceBusAssumption, <1>0, <1>00
<1> USE DEF ReaderState, LoopState, HandOK, AttachingOK, ConnOf, Holding, Link, vars, brokerVars, linkVars,
            loopVars, connVars, clientVars, Idle, At
<1>1. ASSUME NEW c \in Conn, NEW h \in Handle, NEW l \in Link, Attach(c, h, l)
      PROVE  HandOK' /\ AttachingOK'
  <2>1. HandOK'
    BY <1>1 DEF Attach, RegisterSubscription
  <2>2. AttachingOK'
    BY <1>1 DEF Attach, RegisterSubscription
  <2>3. QED BY <2>1, <2>2
<1>2. ASSUME NEW c \in Conn, AttachEcho(c)
      PROVE  HandOK' /\ AttachingOK'
  <2>1. HandOK'
    BY <1>2 DEF AttachEcho
  <2>2. AttachingOK'
    BY <1>2 DEF AttachEcho
  <2>3. QED BY <2>1, <2>2
<1>3. ASSUME NEW c \in Conn, NEW h \in Handle, Transfer(c, h)
      PROVE  HandOK' /\ AttachingOK'
  <2>1. HandOK'
    BY <1>3 DEF Transfer
  <2>2. AttachingOK'
    BY <1>3 DEF Transfer
  <2>3. QED BY <2>1, <2>2
<1>4. ASSUME NEW c \in Conn, NEW h \in Handle, NEW n \in 1..MaxCredit, Flow(c, h, n)
      PROVE  HandOK' /\ AttachingOK'
  <2>1. HandOK'
    BY <1>4 DEF Flow, addCredit, Broadcast
  <2>2. AttachingOK'
    BY <1>4 DEF Flow, addCredit, Broadcast
  <2>3. QED BY <2>1, <2>2
<1>5. ASSUME NEW c \in Conn, NEW h \in Handle, Drain(c, h)
      PROVE  HandOK' /\ AttachingOK'
  <2>1. HandOK'
    BY <1>5 DEF Drain, drainCredit
  <2>2. AttachingOK'
    BY <1>5 DEF Drain, drainCredit
  <2>3. QED BY <2>1, <2>2
<1>6. ASSUME NEW c \in Conn, DrainEcho(c)
      PROVE  HandOK' /\ AttachingOK'
  <2>1. HandOK'
    BY <1>6 DEF DrainEcho
  <2>2. AttachingOK'
    BY <1>6 DEF DrainEcho
  <2>3. QED BY <2>1, <2>2
<1>7. ASSUME NEW c \in Conn, NEW l \in Receiver, NEW m \in Msg, NEW o \in Outcome,
             Disposition(c, l, m, o)
      PROVE  HandOK' /\ AttachingOK'
  <2>1. HandOK'
    BY <1>7 DEF Disposition
  <2>2. AttachingOK'
    BY <1>7 DEF Disposition
  <2>3. QED BY <2>1, <2>2
<1>8. ASSUME NEW c \in Conn, NEW h \in Handle, Detach(c, h)
      PROVE  HandOK' /\ AttachingOK'
  <2>1. HandOK'
    BY <1>8 DEF Detach, closeLinks, Broadcast
  <2>2. AttachingOK'
    BY <1>8 DEF Detach, closeLinks, Broadcast
  <2>3. QED BY <2>1, <2>2
<1>9. ASSUME NEW c \in Conn, Drop(c)
      PROVE  HandOK' /\ AttachingOK'
  <2>1. HandOK'
    BY <1>9 DEF Drop
  <2>2. AttachingOK'
    BY <1>9 DEF Drop
  <2>3. QED BY <2>1, <2>2
<1>10. ASSUME NEW c \in Conn, StopServing(c)
       PROVE  HandOK' /\ AttachingOK'
  <2>1. HandOK'
    BY <1>10 DEF StopServing, closeLinks, Broadcast
  <2>2. AttachingOK'
    BY <1>10 DEF StopServing, closeLinks, Broadcast
  <2>3. QED BY <2>1, <2>2
<1>11. ASSUME NEW c \in Conn, NetClose(c)
       PROVE  HandOK' /\ AttachingOK'
  <2>1. HandOK'
    BY <1>11 DEF NetClose
  <2>2. AttachingOK'
    BY <1>11 DEF NetClose
  <2>3. QED BY <2>1, <2>2
<1>12. ASSUME NEW l \in Receiver, LoopDequeue(l)
       PROVE  HandOK' /\ AttachingOK'
  <2>1. queues[AddressOf[l]] # <<>> => Head(queues[AddressOf[l]]) \in Msg
    BY HeadTailProperties
  <2>2. HandOK'
    BY <1>12, <2>1 DEF LoopDequeue, Dequeue
  <2>3. AttachingOK'
    BY <1>12 DEF LoopDequeue
  <2>4. QED BY <2>2, <2>3
<1>13. ASSUME NEW l \in Receiver, LoopWaitChan(l)
       PROVE  HandOK' /\ AttachingOK'
  <2>1. HandOK'
    BY <1>13 DEF LoopWaitChan, WaitChan
  <2>2. AttachingOK'
    BY <1>13 DEF LoopWaitChan, WaitChan
  <2>3. QED BY <2>1, <2>2
<1>14. ASSUME NEW l \in Receiver, LoopWake(l) \/ LoopQuit(l)
       PROVE  HandOK' /\ AttachingOK'
  <2>1. HandOK'
    BY <1>14 DEF LoopWake, LoopQuit
  <2>2. AttachingOK'
    BY <1>14 DEF LoopWake, LoopQuit
  <2>3. QED BY <2>1, <2>2
<1>15. ASSUME NEW l \in Receiver, takeCredit(l)
       PROVE  HandOK' /\ AttachingOK'
  <2>1. /\ pc[l] = "credit"
        /\ \E p \in {"return", "sleep", "write"} : pc' = [pc EXCEPT ![l] = p]
        /\ UNCHANGED <<pending, reader>>
    BY <1>15 DEF takeCredit
  <2>2. HandOK'
    BY <2>1
  <2>3. AttachingOK'
    BY <2>1
  <2>4. QED BY <2>2, <2>3
<1>16. ASSUME NEW l \in Receiver, LoopReturn(l)
       PROVE  HandOK' /\ AttachingOK'
  <2>1. HandOK'
    BY <1>16 DEF LoopReturn
  <2>2. AttachingOK'
    BY <1>16 DEF LoopReturn
  <2>3. QED BY <2>1, <2>2
<1>17. ASSUME NEW l \in Receiver, LoopDeliver(l)
       PROVE  HandOK' /\ AttachingOK'
  <2>1. HandOK'
    BY <1>17 DEF LoopDeliver
  <2>2. AttachingOK'
    BY <1>17 DEF LoopDeliver
  <2>3. QED BY <2>1, <2>2
<1>18. CASE UNCHANGED vars
  BY <1>18
<1>19. QED
  BY <1>1, <1>2, <1>3, <1>4, <1>5, <1>6, <1>7, <1>8, <1>9, <1>10, <1>11, <1>12,
     <1>13, <1>14, <1>15, <1>16, <1>17, <1>18
     DEF Next, Client, Serve, deliverLoop

LEMMA TypeInvHolds == Spec => []TypeInv
<1>1. Init => TypeInv
  <2>1. ASSUME Init PROVE HandOK /\ AttachingOK
    BY <2>1 DEF Init, HandOK, AttachingOK, Holding, Idle
  <2>2. QED BY <2>1, InitType DEF TypeInv
<1>2. TypeInv /\ [Next]_vars => TypeInv'
  BY TypeStep, LoopStep DEF TypeInv
<1>3. QED BY <1>1, <1>2, PTL DEF Spec

(* Whatever the links, the bounds and the clients, every variable keeps its *)
(* type; no credit wraps below zero when a drain races with takeCredit.     *)
THEOREM TypeCorrect == Spec => []TypeOK
<1>1. TypeInv => TypeOK
  BY DEF TypeInv
<1>2. QED BY <1>1, TypeInvHolds, PTL

-----------------------------------------------------------------------------
(* No lost wakeup.                                                         *)

WaitersOK == \A a \in Address : waiters[a] # {} => queues[a] = <<>>

SleepersOK == \A l \in Receiver : pc[l] = "sleep" => credit[l] = 0 /\ ~closed[l]

LEMMA WaitersStep == TypeInv /\ WaitersOK /\ [Next]_vars => WaitersOK'
<1> SUFFICES ASSUME TypeInv, WaitersOK, [Next]_vars PROVE WaitersOK'
  OBVIOUS
<1>0. /\ queues \in [Address -> Seq(Msg)]
      /\ waiters \in [Address -> SUBSET Receiver]
      /\ AddressOf \in [Receiver \cup Sender -> Address]
  BY ServiceBusAssumption DEF TypeInv, TypeOK
<1> USE <1>0 DEF WaitersOK, vars, brokerVars, linkVars, loopVars, connVars, clientVars
<1>1. ASSUME NEW c \in Conn, NEW h \in Handle, NEW l \in Link, Attach(c, h, l)
      PROVE  WaitersOK'
  BY <1>1 DEF Attach, RegisterSubscription
<1>2. ASSUME NEW c \in Conn, AttachEcho(c)
      PROVE  WaitersOK'
  BY <1>2 DEF AttachEcho
<1>3. ASSUME NEW c \in Conn, NEW h \in Handle, Transfer(c, h)
      PROVE  WaitersOK'
  <2>1. \A x \in Address :
           \/ waiters'[x] = {}
           \/ waiters'[x] = waiters[x] /\ queues'[x] = queues[x]
    <3>1. Send(AddressOf[table[c][h]], sent')
      BY <1>3 DEF Transfer
    <3>2. QED BY <3>1 DEF Send, Notify
  <2>2. ASSUME NEW x \in Address, waiters'[x] # {}
        PROVE  queues'[x] = <<>>
    <3>1. waiters'[x] = waiters[x] /\ queues'[x] = queues[x]
      BY <2>1, <2>2
    <3>2. QED BY <2>2, <3>1
  <2>3. QED BY <2>2
<1>4. ASSUME NEW c \in Conn, NEW h \in Handle, NEW n \in 1..MaxCredit, Flow(c, h, n)
      PROVE  WaitersOK'
  BY <1>4 DEF Flow, addCredit, Broadcast
<1>5. ASSUME NEW c \in Conn, NEW h \in Handle, Drain(c, h)
      PROVE  WaitersOK'
  BY <1>5 DEF Drain, drainCredit
<1>6. ASSUME NEW c \in Conn, DrainEcho(c)
      PROVE  WaitersOK'
  BY <1>6 DEF DrainEcho
<1>7. ASSUME NEW c \in Conn, NEW l \in Receiver, NEW m \in Msg, NEW o \in Outcome,
             Disposition(c, l, m, o)
      PROVE  WaitersOK'
  BY <1>7 DEF Disposition
<1>8. ASSUME NEW c \in Conn, NEW h \in Handle, Detach(c, h)
      PROVE  WaitersOK'
  BY <1>8 DEF Detach, closeLinks, Broadcast
<1>9. ASSUME NEW c \in Conn, Drop(c)
      PROVE  WaitersOK'
  BY <1>9 DEF Drop
<1>10. ASSUME NEW c \in Conn, StopServing(c)
       PROVE  WaitersOK'
  BY <1>10 DEF StopServing, closeLinks, Broadcast
<1>11. ASSUME NEW c \in Conn, NetClose(c)
       PROVE  WaitersOK'
  BY <1>11 DEF NetClose
<1>12. ASSUME NEW l \in Receiver, LoopDequeue(l)
       PROVE  WaitersOK'
  <2>1. waiters' = waiters
    BY <1>12 DEF LoopDequeue, Dequeue
  <2>2. \A x \in Address : queues[x] = <<>> => queues'[x] = <<>>
    BY <1>12 DEF LoopDequeue, Dequeue
  <2>3. QED BY <2>1, <2>2
<1>13. ASSUME NEW l \in Receiver, LoopWaitChan(l)
       PROVE  WaitersOK'
  BY <1>13 DEF LoopWaitChan, WaitChan
<1>14. ASSUME NEW l \in Receiver, LoopWake(l) \/ LoopQuit(l)
       PROVE  WaitersOK'
  BY <1>14 DEF LoopWake, LoopQuit
<1>15. ASSUME NEW l \in Receiver, takeCredit(l)
       PROVE  WaitersOK'
  BY <1>15 DEF takeCredit
<1>16. ASSUME NEW l \in Receiver, LoopReturn(l)
       PROVE  WaitersOK'
  <2>1. \A x \in Address :
           \/ waiters'[x] = {}
           \/ waiters'[x] = waiters[x] /\ queues'[x] = queues[x]
    <3>1. /\ waiters' = [x \in Address |-> IF x \in {AddressOf[l]} THEN {} ELSE waiters[x]]
          /\ queues' = [queues EXCEPT ![AddressOf[l]] = <<pending[l]>> \o @]
      BY <1>16 DEF LoopReturn, Requeue, Notify
    <3>2. ASSUME NEW x \in Address
          PROVE  \/ waiters'[x] = {}
                 \/ waiters'[x] = waiters[x] /\ queues'[x] = queues[x]
      <4>1. CASE x = AddressOf[l]
        BY <3>1, <4>1
      <4>2. CASE x # AddressOf[l]
        BY <3>1, <4>2
      <4>3. QED BY <4>1, <4>2
    <3>3. QED BY <3>2
  <2>2. ASSUME NEW x \in Address, waiters'[x] # {}
        PROVE  queues'[x] = <<>>
    <3>1. waiters'[x] = waiters[x] /\ queues'[x] = queues[x]
      BY <2>1, <2>2
    <3>2. QED BY <2>2, <3>1
  <2>3. QED BY <2>2
<1>17. ASSUME NEW l \in Receiver, LoopDeliver(l)
       PROVE  WaitersOK'
  BY <1>17 DEF LoopDeliver
<1>18. CASE UNCHANGED vars
  BY <1>18
<1>19. QED
  BY <1>1, <1>2, <1>3, <1>4, <1>5, <1>6, <1>7, <1>8, <1>9, <1>10, <1>11, <1>12,
     <1>13, <1>14, <1>15, <1>16, <1>17, <1>18
     DEF Next, Client, Serve, deliverLoop

LEMMA SleepersStep == TypeInv /\ SleepersOK /\ [Next]_vars => SleepersOK'
<1> SUFFICES ASSUME TypeInv, SleepersOK, [Next]_vars PROVE SleepersOK'
  OBVIOUS
<1>0. /\ pc \in [Receiver -> LoopState]
      /\ credit \in [Receiver -> Nat]
      /\ closed \in [Receiver -> BOOLEAN]
  BY DEF TypeInv, TypeOK
<1> USE <1>0 DEF SleepersOK, LoopState, vars, brokerVars, linkVars, loopVars, connVars,
                 clientVars
<1>1. ASSUME NEW c \in Conn, NEW h \in Handle, NEW l \in Link, Attach(c, h, l)
      PROVE  SleepersOK'
  BY <1>1 DEF Attach, RegisterSubscription
<1>2. ASSUME NEW c \in Conn, AttachEcho(c)
      PROVE  SleepersOK'
  BY <1>2 DEF AttachEcho
<1>3. ASSUME NEW c \in Conn, NEW h \in Handle, Transfer(c, h)
      PROVE  SleepersOK'
  BY <1>3 DEF Transfer
<1>4. ASSUME NEW c \in Conn, NEW h \in Handle, NEW n \in 1..MaxCredit, Flow(c, h, n)
      PROVE  SleepersOK'
  BY <1>4 DEF Flow, addCredit, Broadcast
<1>5. ASSUME NEW c \in Conn, NEW h \in Handle, Drain(c, h)
      PROVE  SleepersOK'
  BY <1>5 DEF Drain, drainCredit
<1>6. ASSUME NEW c \in Conn, DrainEcho(c)
      PROVE  SleepersOK'
  BY <1>6 DEF DrainEcho
<1>7. ASSUME NEW c \in Conn, NEW l \in Receiver, NEW m \in Msg, NEW o \in Outcome,
             Disposition(c, l, m, o)
      PROVE  SleepersOK'
  BY <1>7 DEF Disposition
<1>8. ASSUME NEW c \in Conn, NEW h \in Handle, Detach(c, h)
      PROVE  SleepersOK'
  BY <1>8 DEF Detach, closeLinks, Broadcast
<1>9. ASSUME NEW c \in Conn, Drop(c)
      PROVE  SleepersOK'
  BY <1>9 DEF Drop
<1>10. ASSUME NEW c \in Conn, StopServing(c)
       PROVE  SleepersOK'
  BY <1>10 DEF StopServing, closeLinks, Broadcast
<1>11. ASSUME NEW c \in Conn, NetClose(c)
       PROVE  SleepersOK'
  BY <1>11 DEF NetClose
<1>12. ASSUME NEW l \in Receiver, LoopDequeue(l)
       PROVE  SleepersOK'
  BY <1>12 DEF LoopDequeue, Dequeue
<1>13. ASSUME NEW l \in Receiver, LoopWaitChan(l)
       PROVE  SleepersOK'
  BY <1>13 DEF LoopWaitChan, WaitChan
<1>14. ASSUME NEW l \in Receiver, LoopWake(l) \/ LoopQuit(l)
       PROVE  SleepersOK'
  BY <1>14 DEF LoopWake, LoopQuit
<1>15. ASSUME NEW l \in Receiver, takeCredit(l)
       PROVE  SleepersOK'
  <2>1. CASE ~closed[l] /\ credit[l] > 0
    <3>1. /\ credit' = [credit EXCEPT ![l] = credit[l] - 1]
          /\ pc' = [pc EXCEPT ![l] = "write"] /\ closed' = closed
      BY <1>15, <2>1 DEF takeCredit
    <3>2. QED BY <3>1
  <2>2. CASE closed[l] \/ credit[l] = 0
    <3>1. /\ pc' = [pc EXCEPT ![l] = IF closed[l] THEN "return" ELSE "sleep"]
          /\ UNCHANGED <<credit, closed>>
      BY <1>15, <2>2 DEF takeCredit
    <3>2. QED BY <2>2, <3>1
  <2>3. QED BY <2>1, <2>2
<1>16. ASSUME NEW l \in Receiver, LoopReturn(l)
       PROVE  SleepersOK'
  BY <1>16 DEF LoopReturn
<1>17. ASSUME NEW l \in Receiver, LoopDeliver(l)
       PROVE  SleepersOK'
  BY <1>17 DEF LoopDeliver
<1>18. CASE UNCHANGED vars
  BY <1>18
<1>19. QED
  BY <1>1, <1>2, <1>3, <1>4, <1>5, <1>6, <1>7, <1>8, <1>9, <1>10, <1>11, <1>12,
     <1>13, <1>14, <1>15, <1>16, <1>17, <1>18
     DEF Next, Client, Serve, deliverLoop

(* A loop's channel stays open only while its queue is empty, and a loop   *)
(* sleeps in takeCredit only on an open link without credit: WaitChan      *)
(* looks again under the broker's lock, every Send and Requeue notifies,   *)
(* and addCredit and close broadcast.                                      *)
THEOREM NoWakeupLost == Spec => []NoLostWakeup
<1>1. Init => WaitersOK /\ SleepersOK
  BY DEF Init, BrokerInit, WaitersOK, SleepersOK
<1>2. TypeInv /\ WaitersOK /\ SleepersOK /\ [Next]_vars => (WaitersOK /\ SleepersOK)'
  BY WaitersStep, SleepersStep
<1>3. WaitersOK /\ SleepersOK => NoLostWakeup
  BY DEF WaitersOK, SleepersOK, NoLostWakeup
<1>4. QED BY <1>1, <1>2, <1>3, TypeInvHolds, PTL DEF Spec

-----------------------------------------------------------------------------
(* No link outlives its connection, for clients that attach only to free   *)
(* handles.                                                                *)

SpotOK == \A c \in Conn, h \in Handle :
  table[c][h] # None => Spot[table[c][h]] = [conn |-> c, handle |-> h]

(* An open link is in its connection's table.                              *)
LinkedOK == \A l \in Receiver :
  pc[l] # "new" /\ ~closed[l] => table[ConnOf(l)][Spot[l].handle] = l

LEMMA SpotStep == TypeInv /\ SpotOK /\ [Next]_vars => SpotOK'
<1> SUFFICES ASSUME TypeInv, SpotOK, [Next]_vars PROVE SpotOK'
  OBVIOUS
<1>0. table \in [Conn -> [Handle -> Link \cup {None}]]
  BY DEF TypeInv, TypeOK
<1> USE <1>0 DEF SpotOK, vars, brokerVars, linkVars, loopVars, connVars, clientVars
<1>1. ASSUME NEW c \in Conn, NEW h \in Handle, NEW l \in Link, Attach(c, h, l)
      PROVE  SpotOK'
  BY <1>1 DEF Attach, RegisterSubscription
<1>2. ASSUME NEW c \in Conn, AttachEcho(c)
      PROVE  SpotOK'
  BY <1>2 DEF AttachEcho
<1>3. ASSUME NEW c \in Conn, NEW h \in Handle, Transfer(c, h)
      PROVE  SpotOK'
  BY <1>3 DEF Transfer
<1>4. ASSUME NEW c \in Conn, NEW h \in Handle, NEW n \in 1..MaxCredit, Flow(c, h, n)
      PROVE  SpotOK'
  BY <1>4 DEF Flow, addCredit, Broadcast
<1>5. ASSUME NEW c \in Conn, NEW h \in Handle, Drain(c, h)
      PROVE  SpotOK'
  BY <1>5 DEF Drain, drainCredit
<1>6. ASSUME NEW c \in Conn, DrainEcho(c)
      PROVE  SpotOK'
  BY <1>6 DEF DrainEcho
<1>7. ASSUME NEW c \in Conn, NEW l \in Receiver, NEW m \in Msg, NEW o \in Outcome,
             Disposition(c, l, m, o)
      PROVE  SpotOK'
  BY <1>7 DEF Disposition
<1>8. ASSUME NEW c \in Conn, NEW h \in Handle, Detach(c, h)
      PROVE  SpotOK'
  BY <1>8 DEF Detach, closeLinks, Broadcast
<1>9. ASSUME NEW c \in Conn, Drop(c)
      PROVE  SpotOK'
  BY <1>9 DEF Drop
<1>10. ASSUME NEW c \in Conn, StopServing(c)
       PROVE  SpotOK'
  BY <1>10 DEF StopServing, closeLinks, Broadcast
<1>11. ASSUME NEW c \in Conn, NetClose(c)
       PROVE  SpotOK'
  BY <1>11 DEF NetClose
<1>12. ASSUME NEW l \in Receiver, LoopDequeue(l)
       PROVE  SpotOK'
  BY <1>12 DEF LoopDequeue, Dequeue
<1>13. ASSUME NEW l \in Receiver, LoopWaitChan(l)
       PROVE  SpotOK'
  BY <1>13 DEF LoopWaitChan, WaitChan
<1>14. ASSUME NEW l \in Receiver, LoopWake(l) \/ LoopQuit(l)
       PROVE  SpotOK'
  BY <1>14 DEF LoopWake, LoopQuit
<1>15. ASSUME NEW l \in Receiver, takeCredit(l)
       PROVE  SpotOK'
  BY <1>15 DEF takeCredit
<1>16. ASSUME NEW l \in Receiver, LoopReturn(l)
       PROVE  SpotOK'
  BY <1>16 DEF LoopReturn
<1>17. ASSUME NEW l \in Receiver, LoopDeliver(l)
       PROVE  SpotOK'
  BY <1>17 DEF LoopDeliver
<1>18. CASE UNCHANGED vars
  BY <1>18
<1>19. QED
  BY <1>1, <1>2, <1>3, <1>4, <1>5, <1>6, <1>7, <1>8, <1>9, <1>10, <1>11, <1>12,
     <1>13, <1>14, <1>15, <1>16, <1>17, <1>18
     DEF Next, Client, Serve, deliverLoop

LEMMA LinkedStep ==
  ASSUME ReuseHandles = FALSE
  PROVE  TypeInv /\ SpotOK /\ LinkedOK /\ [Next]_vars => LinkedOK'
<1> SUFFICES ASSUME TypeInv, SpotOK, LinkedOK, [Next]_vars PROVE LinkedOK'
  OBVIOUS
<1>0. /\ table \in [Conn -> [Handle -> Link \cup {None}]]
      /\ pc \in [Receiver -> LoopState]
      /\ closed \in [Receiver -> BOOLEAN]
      /\ Spot \in [Receiver \cup Sender -> [conn : Conn, handle : Handle]]
      /\ None \notin Receiver
      /\ Receiver \cap Sender = {}
      /\ AttachingOK
  BY ServiceBusAssumption DEF TypeInv, TypeOK
<1> USE ReuseHandles = FALSE, <1>0
<1> USE DEF SpotOK, LinkedOK, ConnOf, AttachingOK, vars, brokerVars, linkVars, loopVars, connVars,
            clientVars
<1>1. ASSUME NEW c \in Conn, NEW h \in Handle, NEW l \in Link, Attach(c, h, l)
      PROVE  LinkedOK'
  BY <1>1 DEF Attach, RegisterSubscription
<1>2. ASSUME NEW c \in Conn, AttachEcho(c)
      PROVE  LinkedOK'
  BY <1>2 DEF AttachEcho
<1>3. ASSUME NEW c \in Conn, NEW h \in Handle, Transfer(c, h)
      PROVE  LinkedOK'
  BY <1>3 DEF Transfer
<1>4. ASSUME NEW c \in Conn, NEW h \in Handle, NEW n \in 1..MaxCredit, Flow(c, h, n)
      PROVE  LinkedOK'
  BY <1>4 DEF Flow, addCredit, Broadcast
<1>5. ASSUME NEW c \in Conn, NEW h \in Handle, Drain(c, h)
      PROVE  LinkedOK'
  BY <1>5 DEF Drain, drainCredit
<1>6. ASSUME NEW c \in Conn, DrainEcho(c)
      PROVE  LinkedOK'
  BY <1>6 DEF DrainEcho
<1>7. ASSUME NEW c \in Conn, NEW l \in Receiver, NEW m \in Msg, NEW o \in Outcome,
             Disposition(c, l, m, o)
      PROVE  LinkedOK'
  BY <1>7 DEF Disposition
<1>8. ASSUME NEW c \in Conn, NEW h \in Handle, Detach(c, h)
      PROVE  LinkedOK'
  <2>1. /\ closed' = [l \in Receiver |-> closed[l] \/ l = table[c][h]]
        /\ table' = [table EXCEPT ![c][h] = None]
        /\ \A l \in Receiver : pc[l] = "new" => pc'[l] = "new"
    BY <1>8 DEF Detach, closeLinks, Broadcast
  <2>2. ASSUME NEW l \in Receiver, pc'[l] # "new", ~closed'[l]
        PROVE  table'[ConnOf(l)][Spot[l].handle] = l
    <3>1. pc[l] # "new" /\ ~closed[l] /\ l # table[c][h]
      BY <2>1, <2>2
    <3>2. table[ConnOf(l)][Spot[l].handle] = l
      BY <3>1
    <3>3. QED BY <2>1, <3>1, <3>2
  <2>3. QED BY <2>2
<1>9. ASSUME NEW c \in Conn, Drop(c)
      PROVE  LinkedOK'
  BY <1>9 DEF Drop
<1>10. ASSUME NEW c \in Conn, StopServing(c)
       PROVE  LinkedOK'
  BY <1>10 DEF StopServing, closeLinks, Broadcast
<1>11. ASSUME NEW c \in Conn, NetClose(c)
       PROVE  LinkedOK'
  BY <1>11 DEF NetClose
<1>12. ASSUME NEW l \in Receiver, LoopDequeue(l)
       PROVE  LinkedOK'
  BY <1>12 DEF LoopDequeue, Dequeue
<1>13. ASSUME NEW l \in Receiver, LoopWaitChan(l)
       PROVE  LinkedOK'
  BY <1>13 DEF LoopWaitChan, WaitChan
<1>14. ASSUME NEW l \in Receiver, LoopWake(l) \/ LoopQuit(l)
       PROVE  LinkedOK'
  BY <1>14 DEF LoopWake, LoopQuit
<1>15. ASSUME NEW l \in Receiver, takeCredit(l)
       PROVE  LinkedOK'
  BY <1>15 DEF takeCredit
<1>16. ASSUME NEW l \in Receiver, LoopReturn(l)
       PROVE  LinkedOK'
  BY <1>16 DEF LoopReturn
<1>17. ASSUME NEW l \in Receiver, LoopDeliver(l)
       PROVE  LinkedOK'
  BY <1>17 DEF LoopDeliver
<1>18. CASE UNCHANGED vars
  BY <1>18
<1>19. QED
  BY <1>1, <1>2, <1>3, <1>4, <1>5, <1>6, <1>7, <1>8, <1>9, <1>10, <1>11, <1>12,
     <1>13, <1>14, <1>15, <1>16, <1>17, <1>18
     DEF Next, Client, Serve, deliverLoop

LEMMA OrphanStep ==
  ASSUME ReuseHandles = FALSE
  PROVE  TypeInv /\ LinkedOK /\ NoOrphan /\ [Next]_vars => NoOrphan'
<1> SUFFICES ASSUME TypeInv, LinkedOK, NoOrphan, [Next]_vars PROVE NoOrphan'
  OBVIOUS
<1>0. /\ table \in [Conn -> [Handle -> Link \cup {None}]]
      /\ reader \in [Conn -> ReaderState]
      /\ pc \in [Receiver -> LoopState]
      /\ closed \in [Receiver -> BOOLEAN]
      /\ Spot \in [Receiver \cup Sender -> [conn : Conn, handle : Handle]]
      /\ None \notin Receiver
      /\ Receiver \cap Sender = {}
      /\ AttachingOK
  BY ServiceBusAssumption DEF TypeInv, TypeOK
<1> USE <1>0
<1> USE DEF NoOrphan, LinkedOK, ConnOf, AttachingOK, Idle, At, InTable, vars, brokerVars, linkVars,
            loopVars, connVars, clientVars
<1>1. ASSUME NEW c \in Conn, NEW h \in Handle, NEW l \in Link, Attach(c, h, l)
      PROVE  NoOrphan'
  BY <1>1 DEF Attach, RegisterSubscription
<1>2. ASSUME NEW c \in Conn, AttachEcho(c)
      PROVE  NoOrphan'
  BY <1>2 DEF AttachEcho
<1>3. ASSUME NEW c \in Conn, NEW h \in Handle, Transfer(c, h)
      PROVE  NoOrphan'
  BY <1>3 DEF Transfer
<1>4. ASSUME NEW c \in Conn, NEW h \in Handle, NEW n \in 1..MaxCredit, Flow(c, h, n)
      PROVE  NoOrphan'
  BY <1>4 DEF Flow, addCredit, Broadcast
<1>5. ASSUME NEW c \in Conn, NEW h \in Handle, Drain(c, h)
      PROVE  NoOrphan'
  BY <1>5 DEF Drain, drainCredit
<1>6. ASSUME NEW c \in Conn, DrainEcho(c)
      PROVE  NoOrphan'
  BY <1>6 DEF DrainEcho
<1>7. ASSUME NEW c \in Conn, NEW l \in Receiver, NEW m \in Msg, NEW o \in Outcome,
             Disposition(c, l, m, o)
      PROVE  NoOrphan'
  BY <1>7 DEF Disposition
<1>8. ASSUME NEW c \in Conn, NEW h \in Handle, Detach(c, h)
      PROVE  NoOrphan'
  BY <1>8 DEF Detach, closeLinks, Broadcast
<1>9. ASSUME NEW c \in Conn, Drop(c)
      PROVE  NoOrphan'
  BY <1>9 DEF Drop
<1>10. ASSUME NEW c \in Conn, StopServing(c)
       PROVE  NoOrphan'
  <2>1. /\ closed' = [l \in Receiver |-> closed[l] \/ l \in InTable(c)]
        /\ \A l \in Receiver : pc[l] = "new" => pc'[l] = "new"
        /\ \A k \in Conn : k # c => reader'[k] = reader[k]
    BY <1>10 DEF StopServing, closeLinks, Broadcast
  <2>2. ASSUME NEW l \in Receiver, pc'[l] # "new",
               reader'[ConnOf(l)].at \in {"closing", "closed"}
        PROVE  closed'[l]
    <3>1. pc[l] # "new" /\ ConnOf(l) \in Conn
      BY <2>1, <2>2
    <3>2. CASE ConnOf(l) = c /\ ~closed[l]
      <4>1. table[c][Spot[l].handle] = l
        BY <3>1, <3>2
      <4>2. Spot[l].handle \in Handle /\ l # None
        OBVIOUS
      <4>3. l \in InTable(c)
        BY <4>1, <4>2 DEF InTable
      <4>4. QED BY <2>1, <4>3
    <3>3. CASE ConnOf(l) # c \/ closed[l]
      BY <2>1, <2>2, <3>1, <3>3
    <3>4. QED BY <3>2, <3>3
  <2>3. QED BY <2>2
<1>11. ASSUME NEW c \in Conn, NetClose(c)
       PROVE  NoOrphan'
  BY <1>11 DEF NetClose
<1>12. ASSUME NEW l \in Receiver, LoopDequeue(l)
       PROVE  NoOrphan'
  BY <1>12 DEF LoopDequeue, Dequeue
<1>13. ASSUME NEW l \in Receiver, LoopWaitChan(l)
       PROVE  NoOrphan'
  BY <1>13 DEF LoopWaitChan, WaitChan
<1>14. ASSUME NEW l \in Receiver, LoopWake(l) \/ LoopQuit(l)
       PROVE  NoOrphan'
  BY <1>14 DEF LoopWake, LoopQuit
<1>15. ASSUME NEW l \in Receiver, takeCredit(l)
       PROVE  NoOrphan'
  BY <1>15 DEF takeCredit
<1>16. ASSUME NEW l \in Receiver, LoopReturn(l)
       PROVE  NoOrphan'
  BY <1>16 DEF LoopReturn
<1>17. ASSUME NEW l \in Receiver, LoopDeliver(l)
       PROVE  NoOrphan'
  BY <1>17 DEF LoopDeliver
<1>18. CASE UNCHANGED vars
  BY <1>18
<1>19. QED
  BY <1>1, <1>2, <1>3, <1>4, <1>5, <1>6, <1>7, <1>8, <1>9, <1>10, <1>11, <1>12,
     <1>13, <1>14, <1>15, <1>16, <1>17, <1>18
     DEF Next, Client, Serve, deliverLoop

LEMMA LinkedHolds ==
  ASSUME ReuseHandles = FALSE
  PROVE  Spec => [](TypeInv /\ LinkedOK /\ NoOrphan)
<1>1. Init => SpotOK /\ LinkedOK /\ NoOrphan
  BY DEF Init, SpotOK, LinkedOK, NoOrphan
<1>2. TypeInv /\ SpotOK /\ LinkedOK /\ NoOrphan /\ [Next]_vars
        => (SpotOK /\ LinkedOK /\ NoOrphan)'
  BY ReuseHandles = FALSE, SpotStep, LinkedStep, OrphanStep
<1>3. QED BY <1>1, <1>2, TypeInvHolds, PTL DEF Spec

(* When serve has returned, closeAllLinks has closed every receiver link    *)
(* ever attached on the connection, those detached before included.         *)
THEOREM LinksEndWithConnection == ReuseHandles = FALSE => (Spec => []NoOrphan)
<1> SUFFICES ASSUME ReuseHandles = FALSE PROVE Spec => []NoOrphan
  OBVIOUS
<1>1. Spec => [](TypeInv /\ LinkedOK /\ NoOrphan)
  BY LinkedHolds
<1>2. QED BY <1>1, PTL

-----------------------------------------------------------------------------
(* At most one message is lost on a link whose client stays.               *)

(* The link that lost one is closed, so its loop never writes again.       *)
LossOK == \A l \in Receiver :
  peer[ConnOf(l)] /\ lost[l] # {} =>
    /\ closed[l]
    /\ pc[l] # "write"
    /\ \E m \in Msg : lost[l] = {m}

LEMMA LossStep ==
  TypeInv /\ NoOrphan /\ LossOK /\ [Next]_vars => LossOK'
<1> SUFFICES ASSUME TypeInv, NoOrphan, LossOK, [Next]_vars PROVE LossOK'
  OBVIOUS
<1>0. /\ peer \in [Conn -> BOOLEAN]
      /\ reader \in [Conn -> ReaderState]
      /\ pc \in [Receiver -> LoopState]
      /\ closed \in [Receiver -> BOOLEAN]
      /\ lost \in [Receiver -> SUBSET Msg]
      /\ pending \in [Receiver -> Msg \cup {NoMsg}]
      /\ Spot \in [Receiver \cup Sender -> [conn : Conn, handle : Handle]]
      /\ HandOK /\ AttachingOK
      /\ Receiver \cap Sender = {}
  BY ServiceBusAssumption DEF TypeInv, TypeOK
<1> USE <1>0
<1> USE DEF NoOrphan, LossOK, ConnOf, vars, brokerVars, linkVars, loopVars, connVars,
            clientVars
<1>1. ASSUME NEW c \in Conn, NEW h \in Handle, NEW l \in Link, Attach(c, h, l)
      PROVE  LossOK'
  BY <1>1 DEF Attach, RegisterSubscription
<1>2. ASSUME NEW c \in Conn, AttachEcho(c)
      PROVE  LossOK'
  <2>1. \A l \in Receiver : pc'[l] = "write" => pc[l] = "write"
    BY <1>2 DEF AttachEcho
  <2>2. QED BY <1>2, <2>1 DEF AttachEcho
<1>3. ASSUME NEW c \in Conn, NEW h \in Handle, Transfer(c, h)
      PROVE  LossOK'
  BY <1>3 DEF Transfer
<1>4. ASSUME NEW c \in Conn, NEW h \in Handle, NEW n \in 1..MaxCredit, Flow(c, h, n)
      PROVE  LossOK'
  BY <1>4 DEF Flow, addCredit, Broadcast
<1>5. ASSUME NEW c \in Conn, NEW h \in Handle, Drain(c, h)
      PROVE  LossOK'
  BY <1>5 DEF Drain, drainCredit
<1>6. ASSUME NEW c \in Conn, DrainEcho(c)
      PROVE  LossOK'
  BY <1>6 DEF DrainEcho
<1>7. ASSUME NEW c \in Conn, NEW l \in Receiver, NEW m \in Msg, NEW o \in Outcome,
             Disposition(c, l, m, o)
      PROVE  LossOK'
  BY <1>7 DEF Disposition
<1>8. ASSUME NEW c \in Conn, NEW h \in Handle, Detach(c, h)
      PROVE  LossOK'
  BY <1>8 DEF Detach, closeLinks, Broadcast
<1>9. ASSUME NEW c \in Conn, Drop(c)
      PROVE  LossOK'
  BY <1>9 DEF Drop
<1>10. ASSUME NEW c \in Conn, StopServing(c)
       PROVE  LossOK'
  BY <1>10 DEF StopServing, closeLinks, Broadcast
<1>11. ASSUME NEW c \in Conn, NetClose(c)
       PROVE  LossOK'
  BY <1>11 DEF NetClose
<1>12. ASSUME NEW l \in Receiver, LoopDequeue(l)
       PROVE  LossOK'
  BY <1>12 DEF LoopDequeue, Dequeue
<1>13. ASSUME NEW l \in Receiver, LoopWaitChan(l)
       PROVE  LossOK'
  BY <1>13 DEF LoopWaitChan, WaitChan
<1>14. ASSUME NEW l \in Receiver, LoopWake(l) \/ LoopQuit(l)
       PROVE  LossOK'
  BY <1>14 DEF LoopWake, LoopQuit
<1>15. ASSUME NEW l \in Receiver, takeCredit(l)
       PROVE  LossOK'
  BY <1>15 DEF takeCredit
<1>16. ASSUME NEW l \in Receiver, LoopReturn(l)
       PROVE  LossOK'
  BY <1>16 DEF LoopReturn
<1>17. ASSUME NEW l \in Receiver, LoopDeliver(l)
       PROVE  LossOK'
  <2>1. pc[l] = "write" /\ pc' = [pc EXCEPT ![l] = pc'[l]] /\ pc'[l] # "write"
    BY <1>17 DEF LoopDeliver
  <2>2. UNCHANGED <<peer, closed>>
    BY <1>17 DEF LoopDeliver
  <2>3. CASE Delivered(l)
    <3>1. lost' = lost
      BY <1>17, <2>3 DEF LoopDeliver
    <3>2. QED BY <2>1, <2>2, <3>1
  <2>4. CASE ~Delivered(l)
    <3>1. lost' = [lost EXCEPT ![l] = lost[l] \cup {pending[l]}]
      BY <1>17, <2>4 DEF LoopDeliver
    <3>2. pending[l] \in Msg
      BY <2>1 DEF HandOK, Holding, NoMsg
    <3>3. peer[ConnOf(l)] => closed[l] /\ lost[l] = {}
      BY <2>1, <2>4 DEF Delivered
    <3>4. peer'[ConnOf(l)] /\ lost'[l] # {} =>
            closed'[l] /\ pc'[l] # "write" /\ lost'[l] = {pending[l]}
      BY <2>1, <2>2, <3>1, <3>3
    <3>5. QED BY <2>1, <2>2, <3>1, <3>2, <3>4
  <2>5. QED BY <2>3, <2>4
<1>18. CASE UNCHANGED vars
  BY <1>18
<1>19. QED
  BY <1>1, <1>2, <1>3, <1>4, <1>5, <1>6, <1>7, <1>8, <1>9, <1>10, <1>11, <1>12,
     <1>13, <1>14, <1>15, <1>16, <1>17, <1>18
     DEF Next, Client, Serve, deliverLoop

(* While its client is connected, a link loses a message only by being      *)
(* closed, and at most the one whose credit its loop had taken before.      *)
THEOREM LossBounded == ReuseHandles = FALSE => (Spec => []LossIsBounded)
<1> SUFFICES ASSUME ReuseHandles = FALSE PROVE Spec => []LossIsBounded
  OBVIOUS
<1>1. Init => LossOK
  BY DEF Init, LossOK
<1>2. TypeInv /\ NoOrphan /\ LossOK /\ [Next]_vars => LossOK'
  BY LossStep
<1>3. LossOK => LossIsBounded
  <2>1. \A m \in Msg : Cardinality({m}) = 1
    BY FS_Singleton
  <2>2. QED BY <2>1 DEF LossOK, LossIsBounded
<1>4. Spec => [](TypeInv /\ LinkedOK /\ NoOrphan)
  BY LinkedHolds
<1>5. QED BY <1>1, <1>2, <1>3, <1>4, PTL DEF Spec

-----------------------------------------------------------------------------
(* A drain accounts for every delivery.                                    *)

(* deliveryCount covers what was written and what is about to be.          *)
CountOK == \A l \in Receiver :
  Len(wire[l]) + Cardinality(lost[l]) + (IF pc[l] = "write" THEN 1 ELSE 0)
    <= deliveryCount[l]

(* From a drain to the next grant the link has no credit, so the count the *)
(* echo reports stays the link's.                                          *)
DrainOK ==
  /\ \A c \in Conn : reader[c].at = "drain" =>
       LET l == reader[c].link IN
       /\ ConnOf(l) = c
       /\ credit[l] = 0 /\ deliveryCount[l] = reader[c].count
  /\ \A l \in Receiver : drained[l] => credit[l] = 0 /\ deliveryCount[l] = limit[l]

LEMMA CountStep == TypeInv /\ CountOK /\ [Next]_vars => CountOK'
<1> SUFFICES ASSUME TypeInv, CountOK, [Next]_vars PROVE CountOK'
  OBVIOUS
<1>0. /\ pc \in [Receiver -> LoopState]
      /\ deliveryCount \in [Receiver -> Nat]
      /\ wire \in [Receiver -> Seq(Msg)]
      /\ lost \in [Receiver -> SUBSET Msg]
      /\ pending \in [Receiver -> Msg \cup {NoMsg}]
      /\ HandOK
      /\ Receiver \cap Sender = {}
  BY ServiceBusAssumption DEF TypeInv, TypeOK
<1>00. ASSUME NEW l \in Receiver
       PROVE  IsFiniteSet(lost[l]) /\ Cardinality(lost[l]) \in Nat /\ Len(wire[l]) \in Nat
  <2>1. IsFiniteSet(Msg)
    BY FS_Interval, ServiceBusAssumption DEF Msg
  <2>2. IsFiniteSet(lost[l])
    BY <1>0, <2>1, FS_Subset
  <2>3. QED BY <1>0, <2>2, FS_CardinalityType, LenProperties
<1>000. ASSUME UNCHANGED <<wire, lost, deliveryCount>>,
               \A l \in Receiver : pc'[l] = "write" => pc[l] = "write"
        PROVE  CountOK'
  <2>1. ASSUME NEW l \in Receiver
        PROVE  Len(wire[l]) + Cardinality(lost[l]) + (IF pc'[l] = "write" THEN 1 ELSE 0)
                 <= deliveryCount[l]
    <3> DEFINE n == Len(wire[l])
               k == Cardinality(lost[l])
    <3>1. n \in Nat /\ k \in Nat /\ deliveryCount[l] \in Nat
      BY <1>0, <1>00
    <3>2. n + k + (IF pc[l] = "write" THEN 1 ELSE 0) <= deliveryCount[l]
      BY DEF CountOK
    <3>3. pc'[l] = "write" => pc[l] = "write"
      BY <1>000
    <3> HIDE DEF n, k
    <3>4. n + k + (IF pc'[l] = "write" THEN 1 ELSE 0) <= deliveryCount[l]
      BY <3>1, <3>2, <3>3
    <3>5. QED BY <3>4 DEF n, k
  <2>2. QED BY <1>000, <2>1 DEF CountOK
<1> USE <1>0 DEF vars, brokerVars, linkVars, loopVars, connVars, clientVars
<1>1. ASSUME NEW c \in Conn, NEW h \in Handle, NEW l \in Link, Attach(c, h, l)
      PROVE  CountOK'
  BY <1>1, <1>000 DEF Attach, RegisterSubscription
<1>2. ASSUME NEW c \in Conn, AttachEcho(c)
      PROVE  CountOK'
  BY <1>2, <1>000 DEF AttachEcho
<1>3. ASSUME NEW c \in Conn, NEW h \in Handle, Transfer(c, h)
      PROVE  CountOK'
  BY <1>3, <1>000 DEF Transfer
<1>4. ASSUME NEW c \in Conn, NEW h \in Handle, NEW n \in 1..MaxCredit, Flow(c, h, n)
      PROVE  CountOK'
  BY <1>4, <1>000 DEF Flow, addCredit, Broadcast
<1>5. ASSUME NEW c \in Conn, NEW h \in Handle, Drain(c, h)
      PROVE  CountOK'
  BY <1>5, <1>000 DEF Drain, drainCredit
<1>6. ASSUME NEW c \in Conn, DrainEcho(c)
      PROVE  CountOK'
  BY <1>6, <1>000 DEF DrainEcho
<1>7. ASSUME NEW c \in Conn, NEW l \in Receiver, NEW m \in Msg, NEW o \in Outcome,
             Disposition(c, l, m, o)
      PROVE  CountOK'
  BY <1>7, <1>000 DEF Disposition
<1>8. ASSUME NEW c \in Conn, NEW h \in Handle, Detach(c, h)
      PROVE  CountOK'
  BY <1>8, <1>000 DEF Detach, closeLinks, Broadcast
<1>9. ASSUME NEW c \in Conn, Drop(c)
      PROVE  CountOK'
  BY <1>9, <1>000 DEF Drop
<1>10. ASSUME NEW c \in Conn, StopServing(c)
       PROVE  CountOK'
  BY <1>10, <1>000 DEF StopServing, closeLinks, Broadcast
<1>11. ASSUME NEW c \in Conn, NetClose(c)
       PROVE  CountOK'
  BY <1>11, <1>000 DEF NetClose
<1>12. ASSUME NEW l \in Receiver, LoopDequeue(l)
       PROVE  CountOK'
  BY <1>12, <1>000 DEF LoopDequeue, Dequeue
<1>13. ASSUME NEW l \in Receiver, LoopWaitChan(l)
       PROVE  CountOK'
  BY <1>13, <1>000 DEF LoopWaitChan, WaitChan
<1>14. ASSUME NEW l \in Receiver, LoopWake(l) \/ LoopQuit(l)
       PROVE  CountOK'
  BY <1>14, <1>000 DEF LoopWake, LoopQuit
<1>15. ASSUME NEW l \in Receiver, takeCredit(l)
       PROVE  CountOK'
  <2>1. CASE ~closed[l] /\ credit[l] > 0
    <3>1. /\ deliveryCount' = [deliveryCount EXCEPT ![l] = deliveryCount[l] + 1]
          /\ pc[l] = "credit"
          /\ pc' = [pc EXCEPT ![l] = "write"]
          /\ UNCHANGED <<wire, lost>>
      BY <1>15, <2>1 DEF takeCredit
    <3>2. ASSUME NEW k \in Receiver
          PROVE  Len(wire[k]) + Cardinality(lost[k]) + (IF pc'[k] = "write" THEN 1 ELSE 0)
                   <= deliveryCount'[k]
      <4>1. CASE k = l
        <5> DEFINE n == Len(wire[l])
                   j == Cardinality(lost[l])
        <5>1. n \in Nat /\ j \in Nat /\ deliveryCount[l] \in Nat
          BY <1>00
        <5>2. n + j + 0 <= deliveryCount[l]
          BY <3>1 DEF CountOK
        <5>3. deliveryCount'[l] = deliveryCount[l] + 1 /\ pc'[l] = "write"
          BY <3>1
        <5> HIDE DEF n, j
        <5>4. n + j + (IF pc'[l] = "write" THEN 1 ELSE 0) <= deliveryCount'[l]
          BY <5>1, <5>2, <5>3
        <5>5. QED BY <4>1, <5>4 DEF n, j
      <4>2. CASE k # l
        BY <3>1, <4>2 DEF CountOK
      <4>3. QED BY <4>1, <4>2
    <3>3. QED BY <3>1, <3>2 DEF CountOK
  <2>2. CASE closed[l] \/ credit[l] = 0
    <3>1. /\ pc' = [pc EXCEPT ![l] = IF closed[l] THEN "return" ELSE "sleep"]
          /\ UNCHANGED <<wire, lost, deliveryCount>>
      BY <1>15, <2>2 DEF takeCredit
    <3>2. QED BY <1>000, <3>1
  <2>3. credit[l] \in Nat
    BY DEF TypeInv, TypeOK
  <2>4. QED BY <2>1, <2>2, <2>3
<1>16. ASSUME NEW l \in Receiver, LoopReturn(l)
       PROVE  CountOK'
  BY <1>16, <1>000 DEF LoopReturn
<1>17. ASSUME NEW l \in Receiver, LoopDeliver(l)
       PROVE  CountOK'
  <2>1. /\ pc[l] = "write"
        /\ pc' = [pc EXCEPT ![l] = pc'[l]] /\ pc'[l] # "write"
        /\ deliveryCount' = deliveryCount
    BY <1>17 DEF LoopDeliver
  <2>2. pending[l] \in Msg
    BY <2>1 DEF HandOK, Holding, NoMsg
  <2>3. /\ Len(wire'[l]) \in Nat /\ Cardinality(lost'[l]) \in Nat
        /\ Len(wire'[l]) + Cardinality(lost'[l]) <= Len(wire[l]) + Cardinality(lost[l]) + 1
        /\ \A k \in Receiver \ {l} : wire'[k] = wire[k] /\ lost'[k] = lost[k]
    <3>1. CASE Delivered(l)
      <4>1. wire' = [wire EXCEPT ![l] = Append(wire[l], pending[l])] /\ lost' = lost
        BY <1>17, <3>1 DEF LoopDeliver
      <4>2. Len(Append(wire[l], pending[l])) = Len(wire[l]) + 1
        BY <2>2, AppendProperties
      <4>3. QED BY <1>00, <4>1, <4>2
    <3>2. CASE ~Delivered(l)
      <4>1. lost' = [lost EXCEPT ![l] = lost[l] \cup {pending[l]}] /\ wire' = wire
        BY <1>17, <3>2 DEF LoopDeliver
      <4>2. /\ Cardinality(lost[l] \cup {pending[l]}) \in Nat
            /\ Cardinality(lost[l] \cup {pending[l]}) <= Cardinality(lost[l]) + 1
        <5> DEFINE S == lost[l]
        <5>1. IsFiniteSet(S) /\ Cardinality(S) \in Nat
          BY <1>00
        <5> HIDE DEF S
        <5>2. Cardinality(S \cup {pending[l]}) =
                IF pending[l] \in S THEN Cardinality(S) ELSE Cardinality(S) + 1
          BY <5>1, FS_AddElement
        <5>3. /\ Cardinality(S \cup {pending[l]}) \in Nat
              /\ Cardinality(S \cup {pending[l]}) <= Cardinality(S) + 1
          BY <5>1, <5>2
        <5>4. QED BY <5>3 DEF S
      <4>3. QED BY <1>00, <4>1, <4>2
    <3>3. QED BY <3>1, <3>2
  <2>4. ASSUME NEW k \in Receiver
        PROVE  Len(wire'[k]) + Cardinality(lost'[k]) + (IF pc'[k] = "write" THEN 1 ELSE 0)
                 <= deliveryCount'[k]
    <3>1. CASE k = l
      <4> DEFINE n == Len(wire[l])
                 j == Cardinality(lost[l])
                 np == Len(wire'[l])
                 jp == Cardinality(lost'[l])
      <4>1. n \in Nat /\ j \in Nat /\ np \in Nat /\ jp \in Nat /\ deliveryCount[l] \in Nat
        BY <1>00, <2>3
      <4>2. n + j + 1 <= deliveryCount[l]
        BY <2>1 DEF CountOK
      <4>3. np + jp <= n + j + 1
        BY <2>3
      <4> HIDE DEF n, j, np, jp
      <4>4. np + jp + (IF pc'[l] = "write" THEN 1 ELSE 0) <= deliveryCount'[l]
        BY <2>1, <4>1, <4>2, <4>3
      <4>5. QED BY <3>1, <4>4 DEF np, jp
    <3>2. CASE k # l
      BY <2>1, <2>3, <3>2 DEF CountOK
    <3>3. QED BY <3>1, <3>2
  <2>5. QED BY <2>4 DEF CountOK
<1>18. CASE UNCHANGED vars
  BY <1>18, <1>000
<1>19. QED
  BY <1>1, <1>2, <1>3, <1>4, <1>5, <1>6, <1>7, <1>8, <1>9, <1>10, <1>11, <1>12,
     <1>13, <1>14, <1>15, <1>16, <1>17, <1>18
     DEF Next, Client, Serve, deliverLoop

LEMMA DrainStep == TypeInv /\ SpotOK /\ DrainOK /\ [Next]_vars => DrainOK'
<1> SUFFICES ASSUME TypeInv, SpotOK, DrainOK, [Next]_vars PROVE DrainOK'
  OBVIOUS
<1>0. /\ pc \in [Receiver -> LoopState]
      /\ table \in [Conn -> [Handle -> Link \cup {None}]]
      /\ reader \in [Conn -> ReaderState]
      /\ \A c \in Conn : reader[c].at = "drain" => reader[c].link \in Receiver
      /\ credit \in [Receiver -> Nat]
      /\ deliveryCount \in [Receiver -> Nat]
      /\ limit \in [Receiver -> Nat]
      /\ drained \in [Receiver -> BOOLEAN]
      /\ None \notin Receiver
  BY ServiceBusAssumption DEF TypeInv, TypeOK, ReaderState
<1> USE <1>0
<1> USE DEF DrainOK, ConnOf, Idle, At, vars, brokerVars, linkVars, loopVars, connVars, clientVars
<1>1. ASSUME NEW c \in Conn, NEW h \in Handle, NEW l \in Link, Attach(c, h, l)
      PROVE  DrainOK'
  BY <1>1 DEF Attach, RegisterSubscription
<1>2. ASSUME NEW c \in Conn, AttachEcho(c)
      PROVE  DrainOK'
  BY <1>2 DEF AttachEcho
<1>3. ASSUME NEW c \in Conn, NEW h \in Handle, Transfer(c, h)
      PROVE  DrainOK'
  BY <1>3 DEF Transfer
<1>4. ASSUME NEW c \in Conn, NEW h \in Handle, NEW n \in 1..MaxCredit, Flow(c, h, n)
      PROVE  DrainOK'
  <2> DEFINE l == table[c][h]
  <2>1. l \in Receiver /\ reader[c] = Idle
    BY <1>4 DEF Flow
  <2>2. ConnOf(l) = c
    <3>1. Spot[l] = [conn |-> c, handle |-> h]
      BY <2>1 DEF SpotOK
    <3>2. QED BY <3>1
  <2>3. \A k \in Conn : reader[k].at = "drain" => reader[k].link # l
    BY <2>1, <2>2
  <2>4. /\ \A k \in Receiver \ {l} : credit'[k] = credit[k] /\ limit'[k] = limit[k]
        /\ drained' = [drained EXCEPT ![l] = FALSE]
        /\ UNCHANGED <<deliveryCount, reader>>
    BY <1>4 DEF Flow, addCredit
  <2> HIDE DEF l
  <2>5. ASSUME NEW k \in Conn, reader'[k].at = "drain"
        PROVE  LET m == reader'[k].link IN
               ConnOf(m) = k /\ credit'[m] = 0 /\ deliveryCount'[m] = reader'[k].count
    <3>1. reader[k].at = "drain" /\ reader[k].link # l /\ reader[k].link \in Receiver
      BY <2>3, <2>4, <2>5
    <3>2. credit'[reader[k].link] = credit[reader[k].link]
      BY <2>4, <3>1
    <3>3. QED BY <2>4, <3>1, <3>2
  <2>6. ASSUME NEW k \in Receiver, drained'[k]
        PROVE  credit'[k] = 0 /\ deliveryCount'[k] = limit'[k]
    <3>1. k # l /\ drained[k]
      BY <2>1, <2>4, <2>6
    <3>2. QED BY <2>4, <3>1
  <2>7. QED BY <2>5, <2>6
<1>5. ASSUME NEW c \in Conn, NEW h \in Handle, Drain(c, h)
      PROVE  DrainOK'
  <2> DEFINE l == table[c][h]
  <2>1. l \in Receiver
    BY <1>5 DEF Drain
  <2>2. ConnOf(l) = c
    <3>1. Spot[l] = [conn |-> c, handle |-> h]
      BY <2>1 DEF SpotOK
    <3>2. QED BY <3>1
  <2>3. /\ credit' = [credit EXCEPT ![l] = 0]
        /\ reader' = [reader EXCEPT ![c] = [at |-> "drain", link |-> l,
                                            count |-> deliveryCount[l]]]
        /\ UNCHANGED <<deliveryCount, drained, limit>>
    BY <1>5 DEF Drain, drainCredit
  <2> HIDE DEF l
  <2>4. \A k \in Receiver : credit[k] = 0 => credit'[k] = 0
    BY <2>1, <2>3
  <2>5. ASSUME NEW k \in Conn, reader'[k].at = "drain"
        PROVE  LET m == reader'[k].link IN
               ConnOf(m) = k /\ credit'[m] = 0 /\ deliveryCount'[m] = reader'[k].count
    <3>1. CASE k = c
      <4>1. reader'[k].link = l /\ reader'[k].count = deliveryCount[l]
        BY <2>3, <3>1
      <4>2. credit'[l] = 0
        BY <2>1, <2>3
      <4>3. QED BY <2>2, <2>3, <3>1, <4>1, <4>2
    <3>2. CASE k # c
      <4>1. reader'[k] = reader[k]
        BY <2>3, <3>2
      <4>2. reader[k].link \in Receiver
        BY <2>5, <4>1
      <4>3. QED BY <2>3, <2>4, <2>5, <4>1, <4>2
    <3>3. QED BY <3>1, <3>2
  <2>6. ASSUME NEW k \in Receiver, drained'[k]
        PROVE  credit'[k] = 0 /\ deliveryCount'[k] = limit'[k]
    <3>1. drained[k]
      BY <2>3, <2>6
    <3>2. QED BY <2>3, <2>4, <3>1
  <2>7. QED BY <2>5, <2>6
<1>6. ASSUME NEW c \in Conn, DrainEcho(c)
      PROVE  DrainOK'
  BY <1>6 DEF DrainEcho
<1>7. ASSUME NEW c \in Conn, NEW l \in Receiver, NEW m \in Msg, NEW o \in Outcome,
             Disposition(c, l, m, o)
      PROVE  DrainOK'
  BY <1>7 DEF Disposition
<1>8. ASSUME NEW c \in Conn, NEW h \in Handle, Detach(c, h)
      PROVE  DrainOK'
  BY <1>8 DEF Detach, closeLinks, Broadcast
<1>9. ASSUME NEW c \in Conn, Drop(c)
      PROVE  DrainOK'
  BY <1>9 DEF Drop
<1>10. ASSUME NEW c \in Conn, StopServing(c)
       PROVE  DrainOK'
  BY <1>10 DEF StopServing, closeLinks, Broadcast
<1>11. ASSUME NEW c \in Conn, NetClose(c)
       PROVE  DrainOK'
  BY <1>11 DEF NetClose
<1>12. ASSUME NEW l \in Receiver, LoopDequeue(l)
       PROVE  DrainOK'
  BY <1>12 DEF LoopDequeue, Dequeue
<1>13. ASSUME NEW l \in Receiver, LoopWaitChan(l)
       PROVE  DrainOK'
  BY <1>13 DEF LoopWaitChan, WaitChan
<1>14. ASSUME NEW l \in Receiver, LoopWake(l) \/ LoopQuit(l)
       PROVE  DrainOK'
  BY <1>14 DEF LoopWake, LoopQuit
<1>15. ASSUME NEW l \in Receiver, takeCredit(l)
       PROVE  DrainOK'
  BY <1>15 DEF takeCredit
<1>16. ASSUME NEW l \in Receiver, LoopReturn(l)
       PROVE  DrainOK'
  BY <1>16 DEF LoopReturn
<1>17. ASSUME NEW l \in Receiver, LoopDeliver(l)
       PROVE  DrainOK'
  BY <1>17 DEF LoopDeliver
<1>18. CASE UNCHANGED vars
  BY <1>18
<1>19. QED
  BY <1>1, <1>2, <1>3, <1>4, <1>5, <1>6, <1>7, <1>8, <1>9, <1>10, <1>11, <1>12,
     <1>13, <1>14, <1>15, <1>16, <1>17, <1>18
     DEF Next, Client, Serve, deliverLoop

(* The count in a drain's echo covers every transfer written until the      *)
(* client grants again, the one already past takeCredit included.           *)
THEOREM DrainCovers == Spec => []DrainAccounted
<1>1. Init => SpotOK /\ CountOK /\ DrainOK
  BY EmptySeq, FS_EmptySet DEF Init, SpotOK, CountOK, DrainOK, Idle
<1>2. TypeInv /\ SpotOK /\ CountOK /\ DrainOK /\ [Next]_vars
        => (SpotOK /\ CountOK /\ DrainOK)'
  BY SpotStep, CountStep, DrainStep
<1>3. ASSUME TypeInv, CountOK, DrainOK, NEW l \in Receiver, drained[l]
      PROVE  Len(wire[l]) + Cardinality(lost[l]) <= limit[l]
  <2> DEFINE n == Len(wire[l])
             j == Cardinality(lost[l])
  <2>1. n \in Nat /\ j \in Nat
    <3>1. wire \in [Receiver -> Seq(Msg)] /\ lost \in [Receiver -> SUBSET Msg]
      BY <1>3 DEF TypeInv, TypeOK
    <3>2. IsFiniteSet(Msg)
      BY FS_Interval, ServiceBusAssumption DEF Msg
    <3>3. IsFiniteSet(lost[l])
      BY <3>1, <3>2, FS_Subset
    <3>4. QED BY <3>1, <3>3, FS_CardinalityType, LenProperties
  <2>2. limit[l] \in Nat /\ deliveryCount[l] = limit[l]
    BY <1>3 DEF DrainOK, TypeInv, TypeOK
  <2>3. n + j + (IF pc[l] = "write" THEN 1 ELSE 0) <= deliveryCount[l]
    BY <1>3 DEF CountOK
  <2> HIDE DEF n, j
  <2>4. n + j <= limit[l]
    BY <2>1, <2>2, <2>3
  <2>5. QED BY <2>4 DEF n, j
<1>4. TypeInv /\ CountOK /\ DrainOK => DrainAccounted
  BY <1>3 DEF DrainAccounted
<1>5. QED BY <1>1, <1>2, <1>4, TypeInvHolds, PTL DEF Spec

-----------------------------------------------------------------------------
(* Sequences as the proofs below see them: what they hold, once each, and   *)
(* in which order.                                                          *)

Distinct(s) == \A i, j \in 1..Len(s) : s[i] = s[j] => i = j

LEMMA RangeOfElems ==
  ASSUME NEW S, NEW s \in Seq(S)
  PROVE  Elems(s) \subseteq S
BY ElementOfSeq DEF Elems

LEMMA AppendElems ==
  ASSUME NEW S, NEW s \in Seq(S), NEW e \in S
  PROVE  /\ Elems(Append(s, e)) = Elems(s) \cup {e}
         /\ Distinct(s) /\ e \notin Elems(s) => Distinct(Append(s, e))
<1> DEFINE n == Len(s)
           t == Append(s, e)
<1>1. /\ n \in Nat /\ Len(t) = n + 1 /\ t[n + 1] = e
      /\ \A i \in 1..n : t[i] = s[i]
  BY AppendProperties, LenProperties
<1>2. /\ Elems(s) = {s[i] : i \in 1..n}
      /\ Elems(t) = {t[i] : i \in 1..Len(t)}
      /\ Distinct(s) <=> \A i, j \in 1..n : s[i] = s[j] => i = j
      /\ Distinct(t) <=> \A i, j \in 1..Len(t) : t[i] = t[j] => i = j
  BY DEF Elems, Distinct
<1> HIDE DEF n, t
<1>3. 1..(n + 1) = 1..n \cup {n + 1}
  BY <1>1
<1>4. Elems(t) = Elems(s) \cup {e}
  BY <1>1, <1>2, <1>3
<1>5. ASSUME Distinct(s), e \notin Elems(s) PROVE Distinct(t)
  <2>1. \A i \in 1..n : s[i] # e
    BY <1>2, <1>5
  <2>2. ASSUME NEW i \in 1..(n + 1), NEW j \in 1..(n + 1), t[i] = t[j]
        PROVE  i = j
    BY <1>1, <1>2, <1>3, <1>5, <2>1, <2>2
  <2>3. QED BY <1>1, <1>2, <2>2
<1>6. QED BY <1>4, <1>5 DEF t

LEMMA TailElems ==
  ASSUME NEW S, NEW s \in Seq(S), s # <<>>
  PROVE  /\ Head(s) \in S /\ Tail(s) \in Seq(S)
         /\ Elems(s) = {Head(s)} \cup Elems(Tail(s))
         /\ Distinct(s) => Distinct(Tail(s)) /\ Head(s) \notin Elems(Tail(s))
<1> DEFINE n == Len(s)
           t == Tail(s)
<1>1. /\ n \in Nat \ {0} /\ Len(t) = n - 1 /\ Head(s) = s[1]
      /\ \A i \in 1..(n - 1) : t[i] = s[i + 1]
      /\ Head(s) \in S /\ t \in Seq(S)
  BY HeadTailProperties, LenProperties, EmptySeq
<1>2. /\ Elems(s) = {s[i] : i \in 1..n}
      /\ Elems(t) = {t[i] : i \in 1..Len(t)}
      /\ Distinct(s) <=> \A i, j \in 1..n : s[i] = s[j] => i = j
      /\ Distinct(t) <=> \A i, j \in 1..Len(t) : t[i] = t[j] => i = j
  BY DEF Elems, Distinct
<1> HIDE DEF n, t
<1>3. Elems(s) = {Head(s)} \cup Elems(t)
  <2>1. ASSUME NEW x \in Elems(s) PROVE x \in {Head(s)} \cup Elems(t)
    <3>1. PICK i \in 1..n : x = s[i]
      BY <1>2
    <3>2. CASE i = 1
      BY <1>1, <3>1, <3>2
    <3>3. CASE i # 1
      <4>1. i - 1 \in 1..(n - 1) /\ t[i - 1] = s[i]
        BY <1>1, <3>3
      <4>2. QED BY <1>1, <1>2, <3>1, <4>1
    <3>4. QED BY <3>2, <3>3
  <2>2. ASSUME NEW x \in Elems(t) PROVE x \in Elems(s)
    <3>1. PICK i \in 1..(n - 1) : x = t[i]
      BY <1>1, <1>2
    <3>2. i + 1 \in 1..n /\ t[i] = s[i + 1]
      BY <1>1
    <3>3. QED BY <1>2, <3>1, <3>2
  <2>3. Head(s) \in Elems(s)
    <3>1. 1 \in 1..n
      BY <1>1
    <3>2. QED BY <1>1, <1>2, <3>1
  <2>4. QED BY <2>1, <2>2, <2>3
<1>4. ASSUME Distinct(s) PROVE Distinct(t) /\ Head(s) \notin Elems(t)
  <2>1. ASSUME NEW i \in 1..(n - 1), NEW j \in 1..(n - 1), t[i] = t[j]
        PROVE  i = j
    <3>1. i + 1 \in 1..n /\ j + 1 \in 1..n /\ s[i + 1] = s[j + 1]
      BY <1>1, <2>1
    <3>2. i + 1 = j + 1
      BY <1>2, <1>4, <3>1
    <3>3. QED BY <1>1, <3>2
  <2>2. ASSUME Head(s) \in Elems(t) PROVE FALSE
    <3>1. PICK i \in 1..(n - 1) : s[1] = t[i]
      BY <1>1, <1>2, <2>2
    <3>2. i + 1 \in 1..n /\ 1 \in 1..n /\ s[1] = s[i + 1] /\ i + 1 # 1
      BY <1>1, <3>1
    <3>3. QED BY <1>2, <1>4, <3>2
  <2>3. QED BY <1>1, <1>2, <2>1, <2>2
<1>5. QED BY <1>1, <1>3, <1>4 DEF t

LEMMA ConsElems ==
  ASSUME NEW S, NEW s \in Seq(S), NEW e \in S
  PROVE  /\ <<e>> \o s \in Seq(S)
         /\ Elems(<<e>> \o s) = {e} \cup Elems(s)
         /\ Distinct(s) /\ e \notin Elems(s) => Distinct(<<e>> \o s)
<1> DEFINE n == Len(s)
           t == <<e>> \o s
<1>1. /\ n \in Nat /\ Len(t) = n + 1 /\ t[1] = e
      /\ \A i \in 1..n : t[i + 1] = s[i]
      /\ t \in Seq(S)
  <2>1. <<e>> \in Seq(S) /\ Len(<<e>>) = 1 /\ <<e>>[1] = e
    OBVIOUS
  <2>2. n \in Nat
    BY LenProperties
  <2>3. /\ t \in Seq(S)
        /\ Len(t) = 1 + n
        /\ \A i \in 1..(1 + n) : t[i] = IF i <= 1 THEN <<e>>[i] ELSE s[i - 1]
    BY <2>1, ConcatProperties
  <2> HIDE DEF t, n
  <2>4. t[1] = e
    BY <2>1, <2>2, <2>3
  <2>5. ASSUME NEW i \in 1..n PROVE t[i + 1] = s[i]
    <3>1. i + 1 \in 1..(1 + n) /\ ~(i + 1 <= 1) /\ (i + 1) - 1 = i
      BY <2>2
    <3>2. QED BY <2>3, <3>1
  <2>6. QED BY <2>2, <2>3, <2>4, <2>5
<1>2. /\ Elems(s) = {s[i] : i \in 1..n}
      /\ Elems(t) = {t[i] : i \in 1..Len(t)}
      /\ Distinct(s) <=> \A i, j \in 1..n : s[i] = s[j] => i = j
      /\ Distinct(t) <=> \A i, j \in 1..Len(t) : t[i] = t[j] => i = j
  BY DEF Elems, Distinct
<1> HIDE DEF n, t
<1>3. \A i \in 1..(n + 1) : i = 1 \/ (i - 1 \in 1..n /\ t[i] = s[i - 1])
  <2>1. ASSUME NEW i \in 1..(n + 1), i # 1
        PROVE  i - 1 \in 1..n /\ t[i] = s[i - 1]
    <3>1. i - 1 \in 1..n /\ (i - 1) + 1 = i
      BY <1>1, <2>1
    <3>2. QED BY <1>1, <3>1
  <2>2. QED BY <2>1
<1>4. Elems(t) = {e} \cup Elems(s)
  <2>1. ASSUME NEW x \in Elems(t) PROVE x \in {e} \cup Elems(s)
    BY <1>1, <1>2, <1>3
  <2>2. ASSUME NEW x \in Elems(s) PROVE x \in Elems(t)
    <3>1. PICK i \in 1..n : x = s[i]
      BY <1>2
    <3>2. i + 1 \in 1..(n + 1) /\ t[i + 1] = x
      BY <1>1, <3>1
    <3>3. QED BY <1>1, <1>2, <3>2
  <2>3. e \in Elems(t)
    <3>1. 1 \in 1..(n + 1)
      BY <1>1
    <3>2. QED BY <1>1, <1>2, <3>1
  <2>4. QED BY <2>1, <2>2, <2>3
<1>5. ASSUME Distinct(s), e \notin Elems(s) PROVE Distinct(t)
  <2>1. \A i \in 1..n : s[i] # e
    BY <1>2, <1>5
  <2>2. ASSUME NEW i \in 1..(n + 1), NEW j \in 1..(n + 1), t[i] = t[j]
        PROVE  i = j
    <3>1. CASE i = 1 \/ j = 1
      BY <1>1, <1>3, <2>1, <2>2, <3>1
    <3>2. CASE i # 1 /\ j # 1
      <4>1. i - 1 \in 1..n /\ j - 1 \in 1..n /\ s[i - 1] = s[j - 1]
        BY <1>3, <2>2, <3>2
      <4>2. i - 1 = j - 1
        BY <1>2, <1>5, <4>1
      <4>3. QED BY <1>1, <4>2
    <3>3. QED BY <3>1, <3>2
  <2>3. QED BY <1>1, <1>2, <2>2
<1>6. QED BY <1>1, <1>4, <1>5 DEF t

-----------------------------------------------------------------------------
(* Where the copies of a message are.                                       *)

Queued(a) == Elems(queues[a])

(* What a loop ever took off its queue and did not put back.                *)
Has(l) == Elems(wire[l]) \cup lost[l] \cup ({pending[l]} \ {NoMsg})

(* Nothing is twice in one queue or on one wire, no two of the queue and    *)
(* the loops' shares have a message in common, and together they hold what  *)
(* was enqueued, which is never a message yet to come.                      *)
Apart ==
  /\ \A a \in Address : Distinct(queues[a])
  /\ \A l \in Receiver :
       /\ Distinct(wire[l])
       /\ Elems(wire[l]) \cap lost[l] = {}
       /\ pending[l] \notin Elems(wire[l]) \cup lost[l]
       /\ Queued(AddressOf[l]) \cap Has(l) = {}
  /\ \A k, l \in Receiver :
       k # l /\ AddressOf[k] = AddressOf[l] => Has(k) \cap Has(l) = {}

Accounted ==
  \A a \in Address :
    /\ enqueued[a] = Queued(a) \cup UNION {Has(l) : l \in LoopsOf(a)}
    /\ enqueued[a] \subseteq 1..sent

PlacesOK == Apart /\ Accounted

(* Only five of the steps move a message.                                   *)
copyVars == <<queues, pending, wire, lost, sent, enqueued>>

LEMMA MovingSteps ==
  ASSUME [Next]_vars
  PROVE  \/ UNCHANGED copyVars
         \/ \E c \in Conn, h \in Handle : Transfer(c, h)
         \/ \E l \in Receiver : LoopDequeue(l) /\ Dequeue(AddressOf[l])
         \/ \E l \in Receiver : LoopReturn(l) \/ LoopDeliver(l)
<1> USE DEF copyVars, vars, brokerVars, linkVars, loopVars, connVars, clientVars
<1>1. ASSUME NEW c \in Conn, NEW h \in Handle, NEW l \in Link, Attach(c, h, l)
      PROVE  UNCHANGED copyVars
  BY <1>1 DEF Attach, RegisterSubscription
<1>2. ASSUME NEW c \in Conn, AttachEcho(c) \/ DrainEcho(c) \/ Drop(c) \/ NetClose(c)
      PROVE  UNCHANGED copyVars
  BY <1>2 DEF AttachEcho, DrainEcho, Drop, NetClose
<1>3. ASSUME NEW c \in Conn, NEW h \in Handle, Drain(c, h) \/ Detach(c, h)
      PROVE  UNCHANGED copyVars
  BY <1>3 DEF Drain, Detach
<1>4. ASSUME NEW c \in Conn, NEW h \in Handle, NEW n \in 1..MaxCredit, Flow(c, h, n)
      PROVE  UNCHANGED copyVars
  BY <1>4 DEF Flow
<1>5. ASSUME NEW c \in Conn, NEW l \in Receiver, NEW m \in Msg, NEW o \in Outcome,
             Disposition(c, l, m, o)
      PROVE  UNCHANGED copyVars
  BY <1>5 DEF Disposition
<1>6. ASSUME NEW c \in Conn, StopServing(c)
      PROVE  UNCHANGED copyVars
  BY <1>6 DEF StopServing
<1>7. ASSUME NEW l \in Receiver, LoopDequeue(l), ~Dequeue(AddressOf[l])
      PROVE  UNCHANGED copyVars
  BY <1>7 DEF LoopDequeue
<1>8. ASSUME NEW l \in Receiver, LoopWaitChan(l)
      PROVE  UNCHANGED copyVars
  BY <1>8 DEF LoopWaitChan, WaitChan
<1>9. ASSUME NEW l \in Receiver, LoopWake(l) \/ LoopQuit(l) \/ takeCredit(l)
      PROVE  UNCHANGED copyVars
  BY <1>9 DEF LoopWake, LoopQuit, takeCredit
<1>10. CASE UNCHANGED vars
  BY <1>10
<1>11. QED
  BY <1>1, <1>2, <1>3, <1>4, <1>5, <1>6, <1>7, <1>8, <1>9, <1>10
     DEF Next, Client, Serve, deliverLoop

(* What each of the five does to one address and its loops.                 *)
LEMMA TransferMoves ==
  ASSUME TypeInv, NEW c \in Conn, NEW h \in Handle, Transfer(c, h)
  PROVE  LET A == Targets(AddressOf[table[c][h]]) IN
         /\ sent' = sent + 1 /\ sent' \in Msg
         /\ A \subseteq Address /\ A # {}
         /\ \A a \in Address :
              /\ a \in A => /\ queues'[a] = Append(queues[a], sent')
                            /\ enqueued'[a] = enqueued[a] \cup {sent'}
              /\ a \notin A => queues'[a] = queues[a] /\ enqueued'[a] = enqueued[a]
         /\ UNCHANGED <<pending, wire, lost, pc, shared>>
<1>1. AddressOf[table[c][h]] \in Address
  BY ServiceBusAssumption DEF Transfer
<1>2. topicSubs \in [Address -> SUBSET Subscription] /\ Subscription \subseteq Address
  BY BrokerAssumption DEF TypeInv, TypeOK
<1>3. sent' = sent + 1 /\ sent' \in Msg
  BY ServiceBusAssumption DEF Transfer, TypeInv, TypeOK, Msg
<1>4. Send(AddressOf[table[c][h]], sent')
  BY DEF Transfer
<1> DEFINE A == Targets(AddressOf[table[c][h]])
<1>5. A \subseteq Address /\ A # {}
  BY <1>1, <1>2 DEF Targets
<1>6. queues' = [x \in Address |-> IF x \in A THEN Append(queues[x], sent') ELSE queues[x]]
  BY <1>4 DEF Send
<1>7. /\ enqueued' = [a \in Address |-> IF a \in A THEN enqueued[a] \cup {sent'}
                                        ELSE enqueued[a]]
      /\ UNCHANGED <<pending, wire, lost, pc, shared>>
  BY DEF Transfer, loopVars
<1> HIDE DEF A
<1>8. QED BY <1>3, <1>5, <1>6, <1>7 DEF A

LEMMA DequeueMoves ==
  ASSUME TypeInv, NEW l \in Receiver, LoopDequeue(l), Dequeue(AddressOf[l])
  PROVE  LET a == AddressOf[l] IN
         /\ a \in Address /\ queues[a] # <<>>
         /\ queues' = [queues EXCEPT ![a] = Tail(queues[a])]
         /\ pending[l] = NoMsg
         /\ pending' = [pending EXCEPT ![l] = Head(queues[a])]
         /\ pc[l] = "poll" /\ pc' = [pc EXCEPT ![l] = "credit"]
         /\ UNCHANGED <<wire, lost, sent, enqueued, shared>>
<1>1. AddressOf[l] \in Address
  BY ServiceBusAssumption
<1>2. pc[l] = "poll" /\ pending[l] = NoMsg
  BY DEF LoopDequeue, TypeInv, HandOK, Holding
<1>3. QED BY <1>1, <1>2 DEF LoopDequeue, Dequeue, clientVars

LEMMA ReturnMoves ==
  ASSUME TypeInv, NEW l \in Receiver, LoopReturn(l)
  PROVE  LET a == AddressOf[l] IN
         /\ a \in Address
         /\ pending[l] \in Msg /\ pending[l] # NoMsg
         /\ queues' = [queues EXCEPT ![a] = <<pending[l]>> \o queues[a]]
         /\ pending' = [pending EXCEPT ![l] = NoMsg]
         /\ pc[l] = "return" /\ pc' = [pc EXCEPT ![l] = "done"]
         /\ UNCHANGED <<wire, lost, sent, enqueued, shared>>
<1>1. AddressOf[l] \in Address
  BY ServiceBusAssumption
<1>2. pc[l] = "return" /\ pending[l] # NoMsg
  BY DEF LoopReturn, TypeInv, HandOK, Holding
<1>3. pending[l] \in Msg
  BY <1>2 DEF TypeInv, TypeOK
<1>4. QED BY <1>1, <1>2, <1>3 DEF LoopReturn, Requeue, clientVars

LEMMA DeliverMoves ==
  ASSUME TypeInv, NEW l \in Receiver, LoopDeliver(l)
  PROVE  /\ AddressOf[l] \in Address
         /\ pending[l] \in Msg /\ pending[l] # NoMsg
         /\ \/ /\ wire' = [wire EXCEPT ![l] = Append(wire[l], pending[l])]
               /\ lost' = lost
            \/ /\ lost' = [lost EXCEPT ![l] = lost[l] \cup {pending[l]}]
               /\ wire' = wire
         /\ pending' = [pending EXCEPT ![l] = NoMsg]
         /\ pc[l] = "write"
         /\ pc' = [pc EXCEPT ![l] = "poll"] \/ pc' = [pc EXCEPT ![l] = "done"]
         /\ UNCHANGED <<queues, sent, enqueued, shared>>
<1>1. AddressOf[l] \in Address
  BY ServiceBusAssumption
<1>2. pc[l] = "write" /\ pending[l] # NoMsg
  BY DEF LoopDeliver, TypeInv, HandOK, Holding
<1>3. pending[l] \in Msg
  BY <1>2 DEF TypeInv, TypeOK
<1>4. \/ /\ wire' = [wire EXCEPT ![l] = Append(wire[l], pending[l])]
         /\ lost' = lost
      \/ /\ lost' = [lost EXCEPT ![l] = lost[l] \cup {pending[l]}]
         /\ wire' = wire
  BY DEF LoopDeliver
<1>5. pc' = [pc EXCEPT ![l] = "poll"] \/ pc' = [pc EXCEPT ![l] = "done"]
  BY DEF LoopDeliver
<1>6. QED BY <1>1, <1>2, <1>3, <1>4, <1>5 DEF LoopDeliver, brokerVars

(* The invariant, one moving step at a time.                                *)
CopyTypes ==
  /\ queues \in [Address -> Seq(Msg)]
  /\ pending \in [Receiver -> Msg \cup {NoMsg}]
  /\ wire \in [Receiver -> Seq(Msg)]
  /\ lost \in [Receiver -> SUBSET Msg]
  /\ enqueued \in [Address -> SUBSET Msg]
  /\ sent \in 0..MaxMsg
  /\ AddressOf \in [Receiver \cup Sender -> Address]
  /\ NoMsg \notin Msg

LEMMA TypesOfCopies == TypeInv => CopyTypes
BY ServiceBusAssumption DEF TypeInv, TypeOK, CopyTypes, NoMsg, Msg

LEMMA TransferPlaces ==
  ASSUME TypeInv, PlacesOK, NEW c \in Conn, NEW h \in Handle, Transfer(c, h)
  PROVE  PlacesOK'
<1> DEFINE A == Targets(AddressOf[table[c][h]])
           m == sent'
<1>1. /\ m = sent + 1 /\ m \in Msg /\ A \subseteq Address
      /\ \A a \in Address :
           /\ a \in A => queues'[a] = Append(queues[a], m) /\ enqueued'[a] = enqueued[a] \cup {m}
           /\ a \notin A => queues'[a] = queues[a] /\ enqueued'[a] = enqueued[a]
      /\ UNCHANGED <<pending, wire, lost>>
  BY TransferMoves
<1>2. CopyTypes
  BY TypesOfCopies
<1>3. \A l \in Receiver : Has(l)' = Has(l)
  BY <1>1 DEF Has
<1>4. m \notin 1..sent /\ 1..sent \subseteq 1..m
  BY <1>1, <1>2 DEF CopyTypes
<1> HIDE DEF A, m
<1>5. \A a \in Address : m \notin enqueued[a] /\ m \notin Queued(a)
  BY <1>4 DEF PlacesOK, Accounted
<1>6. ASSUME NEW l \in Receiver PROVE AddressOf[l] \in Address /\ m \notin Has(l)
  <2>1. AddressOf[l] \in Address /\ l \in LoopsOf(AddressOf[l])
    BY <1>2 DEF LoopsOf, CopyTypes
  <2>2. QED BY <1>5, <2>1 DEF PlacesOK, Accounted
<1>7. ASSUME NEW a \in Address
      PROVE  /\ Queued(a)' = IF a \in A THEN Queued(a) \cup {m} ELSE Queued(a)
             /\ Distinct(queues'[a])
  <2>1. queues[a] \in Seq(Msg) /\ Distinct(queues[a]) /\ m \notin Elems(queues[a])
    BY <1>2, <1>5 DEF CopyTypes, PlacesOK, Apart, Queued
  <2>2. CASE a \in A
    <3>1. /\ Elems(Append(queues[a], m)) = Elems(queues[a]) \cup {m}
          /\ Distinct(Append(queues[a], m))
      BY <1>1, <2>1, AppendElems
    <3>2. QED BY <1>1, <2>2, <3>1 DEF Queued
  <2>3. CASE a \notin A
    BY <1>1, <2>1, <2>3 DEF Queued
  <2>4. QED BY <2>2, <2>3
<1>8. Apart'
  <2>1. ASSUME NEW l \in Receiver PROVE Queued(AddressOf[l])' \cap Has(l)' = {}
    <3>1. Queued(AddressOf[l]) \cap Has(l) = {}
      BY DEF PlacesOK, Apart
    <3>2. QED BY <1>3, <1>6, <1>7, <3>1
  <2>2. \A k, l \in Receiver :
          k # l /\ AddressOf[k] = AddressOf[l] => Has(k)' \cap Has(l)' = {}
    BY <1>3 DEF PlacesOK, Apart
  <2>3. \A l \in Receiver :
          /\ Distinct(wire'[l])
          /\ Elems(wire'[l]) \cap lost'[l] = {}
          /\ pending'[l] \notin Elems(wire'[l]) \cup lost'[l]
    BY <1>1 DEF PlacesOK, Apart
  <2>4. QED BY <1>7, <2>1, <2>2, <2>3 DEF Apart
<1>9. Accounted'
  <2>1. ASSUME NEW a \in Address
        PROVE  /\ enqueued'[a] = Queued(a)' \cup UNION {Has(l)' : l \in LoopsOf(a)}
               /\ enqueued'[a] \subseteq 1..m
    <3>1. UNION {Has(l)' : l \in LoopsOf(a)} = UNION {Has(l) : l \in LoopsOf(a)}
      BY <1>3 DEF LoopsOf
    <3>2. /\ enqueued[a] = Queued(a) \cup UNION {Has(l) : l \in LoopsOf(a)}
          /\ enqueued[a] \subseteq 1..sent
      BY DEF PlacesOK, Accounted
    <3>3. m \in 1..m
      BY <1>1, <1>2 DEF CopyTypes, Msg
    <3>4. enqueued'[a] = IF a \in A THEN enqueued[a] \cup {m} ELSE enqueued[a]
      BY <1>1
    <3>5. QED BY <1>4, <1>7, <3>1, <3>2, <3>3, <3>4
  <2>2. QED BY <2>1 DEF Accounted, LoopsOf, m
<1>10. QED BY <1>8, <1>9 DEF PlacesOK

(* A loop that takes a message or puts it back moves it between the queue   *)
(* and its own share.                                                       *)
LEMMA SharePlaces ==
  ASSUME TypeInv, PlacesOK, CopyTypes', NEW l \in Receiver, NEW m \in Msg,
         UNCHANGED <<wire, lost, sent, enqueued>>,
         \A k \in Receiver : k # l => pending'[k] = pending[k],
         \A a \in Address : a # AddressOf[l] => queues'[a] = queues[a],
         Distinct(queues'[AddressOf[l]]),
         \/ /\ pending[l] = NoMsg /\ pending'[l] = m
            /\ m \notin Queued(AddressOf[l])'
            /\ Queued(AddressOf[l]) = Queued(AddressOf[l])' \cup {m}
         \/ /\ pending[l] = m /\ pending'[l] = NoMsg
            /\ m \notin Queued(AddressOf[l])
            /\ Queued(AddressOf[l])' = Queued(AddressOf[l]) \cup {m}
  PROVE  PlacesOK'
<1> DEFINE b == AddressOf[l]
           O == Elems(wire[l]) \cup lost[l]
<1>1. CopyTypes /\ b \in Address /\ m # NoMsg
  BY TypesOfCopies DEF CopyTypes
<1>2. /\ \A k \in Receiver : k # l => Has(k)' = Has(k)
      /\ Has(l) = O \cup ({pending[l]} \ {NoMsg})
      /\ Has(l)' = O \cup ({pending'[l]} \ {NoMsg})
  BY DEF Has
<1>3. /\ Queued(b) \cap Has(l) = {}
      /\ \A k \in Receiver : k # l /\ AddressOf[k] = b => Has(k) \cap Has(l) = {} /\ Has(k) \cap Queued(b) = {}
      /\ Elems(wire[l]) \cap lost[l] = {} /\ pending[l] \notin O
      /\ NoMsg \notin O
  <2>1. NoMsg \notin O
    BY <1>1, RangeOfElems DEF CopyTypes
  <2>2. QED BY <2>1 DEF PlacesOK, Apart
<1>4. \A a \in Address : a # b => Queued(a)' = Queued(a)
  BY DEF Queued
<1> HIDE DEF b, O
<1>5. /\ Queued(b)' \cap Has(l)' = {}
      /\ Queued(b)' \cup Has(l)' = Queued(b) \cup Has(l)
      /\ pending'[l] \notin O
  BY <1>1, <1>2, <1>3 DEF b
<1>6. \A k \in Receiver : k # l /\ AddressOf[k] = b =>
         Has(k)' \cap Has(l)' = {} /\ Has(k)' \cap Queued(b)' = {}
  BY <1>2, <1>3, <1>5
<1>7. Apart'
  <2>1. \A a \in Address : Distinct(queues'[a])
    BY DEF PlacesOK, Apart, b
  <2>2. \A k \in Receiver :
          /\ Distinct(wire'[k])
          /\ Elems(wire'[k]) \cap lost'[k] = {}
          /\ pending'[k] \notin Elems(wire'[k]) \cup lost'[k]
    BY <1>5 DEF PlacesOK, Apart, O
  <2>3. ASSUME NEW k \in Receiver PROVE Queued(AddressOf[k])' \cap Has(k)' = {}
    <3>1. AddressOf[k] \in Address /\ Queued(AddressOf[k]) \cap Has(k) = {}
      BY <1>1 DEF PlacesOK, Apart, CopyTypes
    <3>2. CASE k = l
      BY <1>5, <3>2 DEF b
    <3>3. CASE k # l /\ AddressOf[k] = b
      BY <1>6, <3>3
    <3>4. CASE k # l /\ AddressOf[k] # b
      BY <1>2, <1>4, <3>1, <3>4
    <3>5. QED BY <3>2, <3>3, <3>4
  <2>4. ASSUME NEW j \in Receiver, NEW k \in Receiver, j # k, AddressOf[j] = AddressOf[k]
        PROVE  Has(j)' \cap Has(k)' = {}
    <3>1. CASE j = l
      BY <1>6, <2>4, <3>1 DEF b
    <3>2. CASE k = l
      BY <1>6, <2>4, <3>2 DEF b
    <3>3. CASE j # l /\ k # l
      BY <1>2, <2>4, <3>3 DEF PlacesOK, Apart
    <3>4. QED BY <3>1, <3>2, <3>3
  <2>5. QED BY <2>1, <2>2, <2>3, <2>4 DEF Apart
<1>8. Accounted'
  <2>1. ASSUME NEW a \in Address
        PROVE  Queued(a)' \cup UNION {Has(k)' : k \in LoopsOf(a)}
                 = Queued(a) \cup UNION {Has(k) : k \in LoopsOf(a)}
    <3>1. CASE a = b
      <4>1. l \in LoopsOf(a) /\ \A k \in LoopsOf(a) : k \in Receiver
        BY <3>1 DEF LoopsOf, b
      <4>2. QED BY <1>2, <1>5, <3>1, <4>1
    <3>2. CASE a # b
      <4>1. \A k \in LoopsOf(a) : k # l /\ k \in Receiver
        BY <3>2 DEF LoopsOf, b
      <4>2. QED BY <1>2, <1>4, <3>2, <4>1
    <3>3. QED BY <3>1, <3>2
  <2>2. QED BY <2>1 DEF PlacesOK, Accounted, LoopsOf
<1>9. QED BY <1>7, <1>8 DEF PlacesOK

LEMMA DequeuePlaces ==
  ASSUME TypeInv, TypeInv', PlacesOK, NEW l \in Receiver,
         LoopDequeue(l), Dequeue(AddressOf[l])
  PROVE  PlacesOK'
<1> DEFINE a == AddressOf[l]
           m == Head(queues[a])
<1>1. /\ a \in Address /\ queues[a] # <<>>
      /\ queues' = [queues EXCEPT ![a] = Tail(queues[a])]
      /\ pending[l] = NoMsg
      /\ pending' = [pending EXCEPT ![l] = m]
      /\ UNCHANGED <<wire, lost, sent, enqueued>>
  BY DequeueMoves
<1>2. CopyTypes /\ CopyTypes'
  BY TypesOfCopies DEF TypeInv, TypeOK, CopyTypes
<1>3. queues[a] \in Seq(Msg) /\ Distinct(queues[a])
  BY <1>1, <1>2 DEF CopyTypes, PlacesOK, Apart
<1>4. /\ m \in Msg
      /\ Elems(queues[a]) = {m} \cup Elems(Tail(queues[a]))
      /\ Distinct(Tail(queues[a])) /\ m \notin Elems(Tail(queues[a]))
  BY <1>1, <1>3, TailElems
<1> HIDE DEF a, m
<1>5. /\ queues'[a] = Tail(queues[a]) /\ pending'[l] = m
      /\ \A x \in Address : x # a => queues'[x] = queues[x]
      /\ \A k \in Receiver : k # l => pending'[k] = pending[k]
  BY <1>1, <1>2 DEF CopyTypes
<1>6. QED BY <1>1, <1>2, <1>4, <1>5, SharePlaces DEF a, Queued

LEMMA ReturnPlaces ==
  ASSUME TypeInv, TypeInv', PlacesOK, NEW l \in Receiver, LoopReturn(l)
  PROVE  PlacesOK'
<1> DEFINE a == AddressOf[l]
           m == pending[l]
<1>1. /\ a \in Address /\ m \in Msg
      /\ queues' = [queues EXCEPT ![a] = <<m>> \o queues[a]]
      /\ pending' = [pending EXCEPT ![l] = NoMsg]
      /\ UNCHANGED <<wire, lost, sent, enqueued>>
  BY ReturnMoves
<1>2. CopyTypes /\ CopyTypes'
  BY TypesOfCopies DEF TypeInv, TypeOK, CopyTypes
<1>3. queues[a] \in Seq(Msg) /\ Distinct(queues[a])
  BY <1>1, <1>2 DEF CopyTypes, PlacesOK, Apart
<1>4. m \notin Elems(queues[a])
  BY <1>1, <1>2 DEF CopyTypes, PlacesOK, Apart, Has, Queued
<1>5. /\ Elems(<<m>> \o queues[a]) = {m} \cup Elems(queues[a])
      /\ Distinct(<<m>> \o queues[a])
  BY <1>1, <1>3, <1>4, ConsElems
<1>6. /\ queues'[a] = <<m>> \o queues[a] /\ pending'[l] = NoMsg
      /\ \A x \in Address : x # a => queues'[x] = queues[x]
      /\ \A k \in Receiver : k # l => pending'[k] = pending[k]
  BY <1>1, <1>2 DEF CopyTypes
<1>7. QED BY <1>1, <1>2, <1>4, <1>5, <1>6, SharePlaces DEF Queued

LEMMA DeliverPlaces ==
  ASSUME TypeInv, PlacesOK, NEW l \in Receiver, LoopDeliver(l)
  PROVE  PlacesOK'
<1> DEFINE m == pending[l]
           W == Elems(wire[l])
<1>1. /\ m \in Msg /\ m # NoMsg
      /\ \/ wire' = [wire EXCEPT ![l] = Append(wire[l], m)] /\ lost' = lost
         \/ lost' = [lost EXCEPT ![l] = lost[l] \cup {m}] /\ wire' = wire
      /\ pending' = [pending EXCEPT ![l] = NoMsg]
      /\ UNCHANGED <<queues, sent, enqueued>>
  BY DeliverMoves
<1>2. CopyTypes
  BY TypesOfCopies
<1>3. /\ wire[l] \in Seq(Msg) /\ Distinct(wire[l])
      /\ m \notin W /\ m \notin lost[l] /\ W \cap lost[l] = {}
      /\ NoMsg \notin W /\ NoMsg \notin lost[l]
  BY <1>2, RangeOfElems DEF PlacesOK, Apart, CopyTypes
<1>4. Elems(Append(wire[l], m)) = W \cup {m} /\ Distinct(Append(wire[l], m))
  BY <1>1, <1>3, AppendElems
<1>5. Has(l) = W \cup lost[l] \cup {m}
  BY <1>1 DEF Has
<1> HIDE DEF m, W
<1>6. /\ Distinct(wire'[l])
      /\ Elems(wire'[l]) \cap lost'[l] = {}
      /\ pending'[l] \notin Elems(wire'[l]) \cup lost'[l]
      /\ Has(l)' = Has(l)
  <2>1. CASE wire' = [wire EXCEPT ![l] = Append(wire[l], m)] /\ lost' = lost
    <3>1. wire'[l] = Append(wire[l], m) /\ lost'[l] = lost[l] /\ pending'[l] = NoMsg
      BY <1>1, <1>2, <2>1 DEF CopyTypes
    <3>2. QED BY <1>1, <1>3, <1>4, <1>5, <3>1 DEF Has
  <2>2. CASE lost' = [lost EXCEPT ![l] = lost[l] \cup {m}] /\ wire' = wire
    <3>1. wire'[l] = wire[l] /\ lost'[l] = lost[l] \cup {m} /\ pending'[l] = NoMsg
      BY <1>1, <1>2, <2>2 DEF CopyTypes
    <3>2. QED BY <1>1, <1>3, <1>5, <3>1 DEF Has, W
  <2>3. QED BY <1>1, <2>1, <2>2
<1>7. \A k \in Receiver : k # l =>
        wire'[k] = wire[k] /\ lost'[k] = lost[k] /\ pending'[k] = pending[k]
  BY <1>1, <1>2 DEF CopyTypes
<1>8. \A k \in Receiver : Has(k)' = Has(k)
  BY <1>6, <1>7 DEF Has
<1>9. \A a \in Address : Queued(a)' = Queued(a) /\ Distinct(queues'[a])
  BY <1>1 DEF Queued, PlacesOK, Apart
<1>10. \A k \in Receiver :
         /\ Distinct(wire'[k])
         /\ Elems(wire'[k]) \cap lost'[k] = {}
         /\ pending'[k] \notin Elems(wire'[k]) \cup lost'[k]
  BY <1>6, <1>7 DEF PlacesOK, Apart
<1>11. Apart'
  <2>1. \A k \in Receiver : Queued(AddressOf[k])' \cap Has(k)' = {}
    BY <1>2, <1>8, <1>9 DEF PlacesOK, Apart, CopyTypes
  <2>2. \A j, k \in Receiver :
          j # k /\ AddressOf[j] = AddressOf[k] => Has(j)' \cap Has(k)' = {}
    BY <1>8 DEF PlacesOK, Apart
  <2>3. QED BY <1>9, <1>10, <2>1, <2>2 DEF Apart
<1>12. Accounted'
  <2>1. \A a \in Address : UNION {Has(k)' : k \in LoopsOf(a)} = UNION {Has(k) : k \in LoopsOf(a)}
    BY <1>8 DEF LoopsOf
  <2>2. QED BY <1>1, <1>9, <2>1 DEF PlacesOK, Accounted, LoopsOf
<1>13. QED BY <1>11, <1>12 DEF PlacesOK

LEMMA PlacesStep == TypeInv /\ TypeInv' /\ PlacesOK /\ [Next]_vars => PlacesOK'
<1> SUFFICES ASSUME TypeInv, TypeInv', PlacesOK, [Next]_vars PROVE PlacesOK'
  OBVIOUS
<1>1. CASE UNCHANGED copyVars
  BY <1>1 DEF copyVars, PlacesOK, Apart, Accounted, Queued, Has, LoopsOf
<1>2. QED
  BY <1>1, MovingSteps, TransferPlaces, DequeuePlaces, ReturnPlaces, DeliverPlaces

LEMMA PlacesHolds == Spec => []PlacesOK
<1>1. ASSUME Init PROVE PlacesOK
  <2>1. /\ \A a \in Address : queues[a] = <<>> /\ enqueued[a] = {}
        /\ \A l \in Receiver : wire[l] = <<>> /\ lost[l] = {} /\ pending[l] = NoMsg
        /\ AddressOf \in [Receiver \cup Sender -> Address]
    BY <1>1, ServiceBusAssumption DEF Init, BrokerInit
  <2>2. Elems(<<>>) = {} /\ Distinct(<<>>)
    BY EmptySeq DEF Elems, Distinct
  <2>3. \A l \in Receiver : Has(l) = {}
    BY <2>1, <2>2 DEF Has
  <2>4. \A a \in Address : Queued(a) = {}
    BY <2>1, <2>2 DEF Queued
  <2>5. QED BY <2>1, <2>2, <2>3, <2>4 DEF PlacesOK, Apart, Accounted, LoopsOf
<1>2. QED BY <1>1, PlacesStep, TypeInvHolds, PTL DEF Spec

-----------------------------------------------------------------------------
(* From the invariant to ExactlyOnePlace: Places(a, m) taken apart.         *)

QueuedAt(a, m) == {<<"queued", i>> : i \in {i \in 1..Len(queues[a]) : queues[a][i] = m}}

ShareAt(l, m) ==
  {<<"delivered", l, i>> : i \in {i \in 1..Len(wire[l]) : wire[l][i] = m}}
  \cup (IF pending[l] = m THEN {<<"held", l>>} ELSE {})
  \cup (IF m \in lost[l] THEN {<<"lost", l>>} ELSE {})

LEMMA PlacesApart ==
  ASSUME NEW a, NEW m
  PROVE  Places(a, m) = QueuedAt(a, m) \cup UNION {ShareAt(l, m) : l \in LoopsOf(a)}
BY DEF Places, QueuedAt, ShareAt

LEMMA PositionOf ==
  ASSUME NEW s, NEW m
  PROVE  /\ m \notin Elems(s) => {i \in 1..Len(s) : s[i] = m} = {}
         /\ m \in Elems(s) /\ Distinct(s) =>
              \E j \in 1..Len(s) : {i \in 1..Len(s) : s[i] = m} = {j}
<1>1. m \notin Elems(s) => {i \in 1..Len(s) : s[i] = m} = {}
  BY DEF Elems
<1>2. ASSUME m \in Elems(s), Distinct(s)
      PROVE  \E j \in 1..Len(s) : {i \in 1..Len(s) : s[i] = m} = {j}
  <2>1. PICK j \in 1..Len(s) : s[j] = m
    BY <1>2 DEF Elems
  <2>2. \A i \in 1..Len(s) : s[i] = m => i = j
    BY <1>2, <2>1 DEF Distinct
  <2>3. QED BY <2>1, <2>2
<1>3. QED BY <1>1, <1>2

LEMMA QueuedPosition ==
  ASSUME PlacesOK, NEW a \in Address, NEW m
  PROVE  /\ m \notin Queued(a) => QueuedAt(a, m) = {}
         /\ m \in Queued(a) => \E i : QueuedAt(a, m) = {<<"queued", i>>}
<1>1. Distinct(queues[a])
  BY DEF PlacesOK, Apart
<1>2. m \notin Queued(a) => QueuedAt(a, m) = {}
  BY PositionOf DEF QueuedAt, Queued
<1>3. ASSUME m \in Queued(a) PROVE \E i : QueuedAt(a, m) = {<<"queued", i>>}
  <2>1. PICK j \in 1..Len(queues[a]) : {i \in 1..Len(queues[a]) : queues[a][i] = m} = {j}
    BY <1>1, <1>3, PositionOf DEF Queued
  <2>2. QueuedAt(a, m) = {<<"queued", j>>}
    BY <2>1, Zenon DEF QueuedAt
  <2>3. QED BY <2>2
<1>4. QED BY <1>2, <1>3

LEMMA SharePosition ==
  ASSUME TypeInv, PlacesOK, NEW l \in Receiver, NEW m \in Msg
  PROVE  /\ m \notin Has(l) => ShareAt(l, m) = {}
         /\ m \in Elems(wire[l]) => \E i : ShareAt(l, m) = {<<"delivered", l, i>>}
         /\ m = pending[l] => ShareAt(l, m) = {<<"held", l>>}
         /\ m \in lost[l] => ShareAt(l, m) = {<<"lost", l>>}
<1> DEFINE W == {<<"delivered", l, i>> : i \in {i \in 1..Len(wire[l]) : wire[l][i] = m}}
<1>1. /\ Distinct(wire[l]) /\ Elems(wire[l]) \cap lost[l] = {}
      /\ pending[l] \notin Elems(wire[l]) \cup lost[l]
      /\ m # NoMsg
  BY TypesOfCopies DEF PlacesOK, Apart, CopyTypes
<1>2. ShareAt(l, m) = W \cup (IF pending[l] = m THEN {<<"held", l>>} ELSE {})
                        \cup (IF m \in lost[l] THEN {<<"lost", l>>} ELSE {})
  BY DEF ShareAt
<1>3. m \notin Elems(wire[l]) => W = {}
  BY PositionOf
<1>4. ASSUME m \in Elems(wire[l]) PROVE \E i : W = {<<"delivered", l, i>>}
  <2>1. PICK j \in 1..Len(wire[l]) : {i \in 1..Len(wire[l]) : wire[l][i] = m} = {j}
    BY <1>1, <1>4, PositionOf
  <2>2. W = {<<"delivered", l, j>>}
    BY <2>1, Zenon
  <2>3. QED BY <2>2
<1> HIDE DEF W
<1>5. m \notin Has(l) => m \notin Elems(wire[l]) /\ m # pending[l] /\ m \notin lost[l]
  BY <1>1 DEF Has
<1>6. m \notin Has(l) => ShareAt(l, m) = {}
  BY <1>2, <1>3, <1>5
<1>7. m = pending[l] => ShareAt(l, m) = {<<"held", l>>}
  BY <1>1, <1>2, <1>3
<1>8. m \in lost[l] => ShareAt(l, m) = {<<"lost", l>>}
  BY <1>1, <1>2, <1>3
<1>9. m \in Elems(wire[l]) => ShareAt(l, m) = W
  BY <1>1, <1>2
<1>10. QED BY <1>4, <1>6, <1>7, <1>8, <1>9

(* The one place of every message, by kind.                                 *)
LEMMA PlaceByKind ==
  ASSUME TypeInv, PlacesOK, NEW a \in Address, NEW m \in Msg
  PROVE  /\ m \notin enqueued[a] => Places(a, m) = {}
         /\ m \in Queued(a) => \E i : Places(a, m) = {<<"queued", i>>}
         /\ \A l \in LoopsOf(a) :
              /\ m \in Elems(wire[l]) => \E i : Places(a, m) = {<<"delivered", l, i>>}
              /\ m = pending[l] => Places(a, m) = {<<"held", l>>}
              /\ m \in lost[l] => Places(a, m) = {<<"lost", l>>}
<1>1. \A l \in LoopsOf(a) : l \in Receiver /\ AddressOf[l] = a
  BY DEF LoopsOf
<1>2. m # NoMsg
  BY TypesOfCopies DEF CopyTypes
<1>3. enqueued[a] = Queued(a) \cup UNION {Has(l) : l \in LoopsOf(a)}
  BY DEF PlacesOK, Accounted
<1>4. ASSUME m \notin enqueued[a] PROVE Places(a, m) = {}
  <2>1. QueuedAt(a, m) = {}
    BY <1>3, <1>4, QueuedPosition
  <2>2. \A l \in LoopsOf(a) : ShareAt(l, m) = {}
    BY <1>1, <1>3, <1>4, SharePosition
  <2>3. QED BY <2>1, <2>2, PlacesApart
<1>5. ASSUME m \in Queued(a) PROVE Places(a, m) = QueuedAt(a, m)
  <2>1. \A l \in LoopsOf(a) : m \notin Has(l)
    BY <1>1, <1>5 DEF PlacesOK, Apart
  <2>2. \A l \in LoopsOf(a) : ShareAt(l, m) = {}
    BY <1>1, <2>1, SharePosition
  <2>3. QED BY <2>2, PlacesApart
<1>6. ASSUME NEW l \in LoopsOf(a), m \in Has(l) PROVE Places(a, m) = ShareAt(l, m)
  <2>1. m \notin Queued(a)
    BY <1>1, <1>6 DEF PlacesOK, Apart
  <2>2. \A k \in LoopsOf(a) : k # l => m \notin Has(k)
    BY <1>1, <1>6 DEF PlacesOK, Apart
  <2>3. QueuedAt(a, m) = {} /\ \A k \in LoopsOf(a) : k # l => ShareAt(k, m) = {}
    BY <1>1, <2>1, <2>2, QueuedPosition, SharePosition
  <2>4. QED BY <2>3, PlacesApart
<1>7. m \in Queued(a) => \E i : Places(a, m) = {<<"queued", i>>}
  BY <1>5, QueuedPosition
<1>8. ASSUME NEW l \in LoopsOf(a)
      PROVE  /\ m \in Elems(wire[l]) => \E i : Places(a, m) = {<<"delivered", l, i>>}
             /\ m = pending[l] => Places(a, m) = {<<"held", l>>}
             /\ m \in lost[l] => Places(a, m) = {<<"lost", l>>}
  <2>1. m \in Elems(wire[l]) \/ m = pending[l] \/ m \in lost[l] => m \in Has(l)
    BY <1>2 DEF Has
  <2>2. QED BY <1>1, <1>6, <2>1, SharePosition
<1>9. QED BY <1>4, <1>7, <1>8

(* Every copy of a message the broker took is in exactly one place, however *)
(* many loops serve its address and whatever happens to their links:        *)
(* nothing is delivered twice, nothing is forgotten by Requeue.             *)
THEOREM NothingTwice == Spec => []ExactlyOnePlace
<1>1. ASSUME TypeInv, PlacesOK PROVE ExactlyOnePlace
  <2>1. ASSUME NEW a \in Address, NEW m \in Msg
        PROVE  Cardinality(Places(a, m)) = IF m \in enqueued[a] THEN 1 ELSE 0
    <3>1. CASE m \notin enqueued[a]
      BY <1>1, <3>1, PlaceByKind, FS_EmptySet
    <3>2. CASE m \in enqueued[a]
      <4>1. enqueued[a] = Queued(a) \cup UNION {Has(l) : l \in LoopsOf(a)}
        BY <1>1 DEF PlacesOK, Accounted
      <4>2. \E p : Places(a, m) = {p}
        <5>1. CASE m \in Queued(a)
          BY <1>1, <5>1, PlaceByKind
        <5>2. CASE m \notin Queued(a)
          <6>1. PICK l \in LoopsOf(a) : m \in Has(l)
            BY <3>2, <4>1, <5>2
          <6>2. m \in Elems(wire[l]) \/ m = pending[l] \/ m \in lost[l]
            BY <6>1 DEF Has
          <6>3. QED BY <1>1, <6>2, PlaceByKind
        <5>3. QED BY <5>1, <5>2
      <4>3. Cardinality(Places(a, m)) = 1
        BY <4>2, FS_Singleton
      <4>4. QED BY <3>2, <4>3
    <3>3. QED BY <3>1, <3>2
  <2>2. QED BY <2>1 DEF ExactlyOnePlace
<1>2. QED BY <1>1, PlacesHolds, TypeInvHolds, PTL

-----------------------------------------------------------------------------
(* The broker and its loops implement the relay of SBRelay.                 *)

Kinds ==
  \A a \in Address, m \in Msg :
    /\ m \notin enqueued[a] => PlaceOf(a, m) = "unsent"
    /\ m \in Queued(a) => PlaceOf(a, m) = "queued"
    /\ \A l \in LoopsOf(a) :
         /\ m \in Elems(wire[l]) => PlaceOf(a, m) = "delivered"
         /\ m = pending[l] => PlaceOf(a, m) = "held"
         /\ m \in lost[l] => PlaceOf(a, m) = "lost"

LEMMA KindOfOne ==
  ASSUME NEW a, NEW m, NEW p, Places(a, m) = {p}
  PROVE  PlaceOf(a, m) = p[1]
<1> DEFINE P == Places(a, m)
<1>1. P # {} /\ Cardinality(P) = 1 /\ (CHOOSE x \in P : TRUE) = p
  BY FS_Singleton
<1>2. PlaceOf(a, m) = CASE P = {} -> "unsent"
                        [] Cardinality(P) = 1 -> (CHOOSE x \in P : TRUE)[1]
                        [] OTHER -> "duplicated"
  BY DEF PlaceOf
<1> HIDE DEF P
<1>3. QED BY <1>1, <1>2

LEMMA KindOfNone ==
  ASSUME NEW a, NEW m, Places(a, m) = {}
  PROVE  PlaceOf(a, m) = "unsent"
<1> DEFINE P == Places(a, m)
<1>1. P = {} /\ Cardinality(P) # 1
  BY FS_EmptySet
<1>2. PlaceOf(a, m) = CASE P = {} -> "unsent"
                        [] Cardinality(P) = 1 -> (CHOOSE x \in P : TRUE)[1]
                        [] OTHER -> "duplicated"
  BY DEF PlaceOf
<1> HIDE DEF P
<1>3. QED BY <1>1, <1>2

LEMMA KindsHold == TypeInv /\ PlacesOK => Kinds
<1> SUFFICES ASSUME TypeInv, PlacesOK, NEW a \in Address, NEW m \in Msg
             PROVE  /\ m \notin enqueued[a] => PlaceOf(a, m) = "unsent"
                    /\ m \in Queued(a) => PlaceOf(a, m) = "queued"
                    /\ \A l \in LoopsOf(a) :
                         /\ m \in Elems(wire[l]) => PlaceOf(a, m) = "delivered"
                         /\ m = pending[l] => PlaceOf(a, m) = "held"
                         /\ m \in lost[l] => PlaceOf(a, m) = "lost"
  BY DEF Kinds
<1>1. m \notin enqueued[a] => PlaceOf(a, m) = "unsent"
  BY PlaceByKind, KindOfNone
<1>2. ASSUME m \in Queued(a) PROVE PlaceOf(a, m) = "queued"
  <2>1. PICK i : Places(a, m) = {<<"queued", i>>}
    BY <1>2, PlaceByKind
  <2>2. PlaceOf(a, m) = <<"queued", i>>[1]
    BY <2>1, KindOfOne
  <2>3. QED BY <2>2
<1>3. ASSUME NEW l \in LoopsOf(a), m \in Elems(wire[l])
      PROVE  PlaceOf(a, m) = "delivered"
  <2>1. PICK i : Places(a, m) = {<<"delivered", l, i>>}
    BY <1>3, PlaceByKind
  <2>2. PlaceOf(a, m) = <<"delivered", l, i>>[1]
    BY <2>1, KindOfOne
  <2>3. QED BY <2>2
<1>4. ASSUME NEW l \in LoopsOf(a), m = pending[l] PROVE PlaceOf(a, m) = "held"
  <2>1. Places(a, m) = {<<"held", l>>}
    BY <1>4, PlaceByKind
  <2>2. PlaceOf(a, m) = <<"held", l>>[1]
    BY <2>1, KindOfOne
  <2>3. QED BY <2>2
<1>5. ASSUME NEW l \in LoopsOf(a), m \in lost[l] PROVE PlaceOf(a, m) = "lost"
  <2>1. Places(a, m) = {<<"lost", l>>}
    BY <1>5, PlaceByKind
  <2>2. PlaceOf(a, m) = <<"lost", l>>[1]
    BY <2>1, KindOfOne
  <2>3. QED BY <2>2
<1>6. QED BY <1>1, <1>2, <1>3, <1>4, <1>5

(* A message that nobody touches keeps its kind.                            *)
LEMMA SameKind ==
  ASSUME Accounted, Accounted', Kinds, Kinds', NEW a \in Address, NEW m \in Msg,
         m \in Queued(a)' <=> m \in Queued(a),
         \A l \in LoopsOf(a) :
           /\ m \in Elems(wire'[l]) <=> m \in Elems(wire[l])
           /\ m = pending'[l] <=> m = pending[l]
           /\ m \in lost'[l] <=> m \in lost[l]
  PROVE  PlaceOf(a, m)' = PlaceOf(a, m)
<1>1. LoopsOf(a)' = LoopsOf(a)
  BY DEF LoopsOf
<1>2. CASE m \in Queued(a)
  BY <1>2 DEF Kinds
<1>3. ASSUME NEW l \in LoopsOf(a), m \in Elems(wire[l]) \/ m = pending[l] \/ m \in lost[l]
      PROVE  PlaceOf(a, m)' = PlaceOf(a, m)
  BY <1>1, <1>3 DEF Kinds
<1>4. CASE /\ m \notin Queued(a)
           /\ \A l \in LoopsOf(a) : m \notin Elems(wire[l]) /\ m # pending[l] /\ m \notin lost[l]
  <2>1. \A l \in LoopsOf(a) : m \notin Has(l) /\ m \notin Has(l)'
    BY <1>4 DEF Has
  <2>2. m \notin enqueued[a] /\ m \notin enqueued'[a]
    BY <1>1, <1>4, <2>1 DEF Accounted
  <2>3. QED BY <2>2 DEF Kinds
<1>5. QED BY <1>2, <1>3, <1>4

(* A step that changes the kind of one copy is a move of the relay.         *)
LEMMA MoveStep ==
  ASSUME NEW b \in Address, NEW m \in Msg, NEW from, NEW to,
         PlaceOf(b, m) = from,
         \A a \in Address, n \in Msg :
           PlaceOf(a, n)' = IF a = b /\ n = m THEN to ELSE PlaceOf(a, n)
  PROVE  Relay!Move(b, m, from, to)
<1> DEFINE place == [a \in Address |-> [n \in Msg |-> PlaceOf(a, n)]]
<1>1. place[b][m] = from
  OBVIOUS
<1>2. place' = [a \in Address |-> [n \in Msg |->
                  IF a = b /\ n = m THEN to ELSE PlaceOf(a, n)]]
  OBVIOUS
<1>3. place' = [place EXCEPT ![b][m] = to]
  BY <1>2
<1>4. QED BY <1>1, <1>3 DEF Relay!Move

LEMMA TransferRelays ==
  ASSUME TypeInv, PlacesOK, PlacesOK', Kinds, Kinds',
         NEW c \in Conn, NEW h \in Handle, Transfer(c, h)
  PROVE  \E m \in Msg, A \in (SUBSET Address) \ {{}} : Relay!Publish(m, A)
<1> DEFINE A == Targets(AddressOf[table[c][h]])
           place == [a \in Address |-> [n \in Msg |-> PlaceOf(a, n)]]
<1>0. PICK m \in Msg : m = sent'
  BY TransferMoves
<1>1. /\ m = sent + 1 /\ m \in Msg /\ A \subseteq Address /\ A # {}
      /\ \A a \in Address :
           /\ a \in A => queues'[a] = Append(queues[a], m) /\ enqueued'[a] = enqueued[a] \cup {m}
           /\ a \notin A => queues'[a] = queues[a] /\ enqueued'[a] = enqueued[a]
      /\ UNCHANGED <<pending, wire, lost>>
  BY <1>0, TransferMoves
<1>2. CopyTypes
  BY TypesOfCopies
<1>3. m \notin 1..sent
  BY <1>1, <1>2 DEF CopyTypes
<1> HIDE DEF A
<1>4. \A a \in Address : m \notin enqueued[a]
  BY <1>3 DEF PlacesOK, Accounted
<1>5. ASSUME NEW a \in Address PROVE Queued(a)' = IF a \in A THEN Queued(a) \cup {m} ELSE Queued(a)
  <2>1. Elems(Append(queues[a], m)) = Elems(queues[a]) \cup {m}
    BY <1>1, <1>2, AppendElems DEF CopyTypes
  <2>2. QED BY <1>1, <2>1 DEF Queued
<1>6. ASSUME NEW a \in Address, NEW n \in Msg
      PROVE  PlaceOf(a, n)' = IF a \in A /\ n = m THEN "queued" ELSE PlaceOf(a, n)
  <2>1. CASE a \in A /\ n = m
    <3>1. m \in Queued(a)'
      BY <1>5, <2>1
    <3>2. QED BY <2>1, <3>1 DEF Kinds
  <2>2. CASE a \notin A
    <3>1. n \in Queued(a)' <=> n \in Queued(a)
      BY <1>5, <2>2
    <3>2. QED BY <1>1, <2>2, <3>1, SameKind DEF PlacesOK
  <2>3. CASE n # m
    <3>1. n \in Queued(a)' <=> n \in Queued(a)
      BY <1>5, <2>3
    <3>2. QED BY <1>1, <2>3, <3>1, SameKind DEF PlacesOK
  <2>4. QED BY <2>1, <2>2, <2>3
<1>7. \A a \in Address : place[a][m] = "unsent"
  BY <1>1, <1>4 DEF Kinds
<1>8. place' = [a \in Address |-> [n \in Msg |->
                  IF a \in A /\ n = m THEN "queued" ELSE PlaceOf(a, n)]]
  BY <1>6
<1>9. place' = [a \in Address |-> IF a \in A THEN [place[a] EXCEPT ![m] = "queued"] ELSE place[a]]
  BY <1>8
<1>10. Relay!Publish(m, A)
  BY <1>7, <1>9 DEF Relay!Publish
<1>11. QED BY <1>1, <1>10

(* The loop's three moves: one copy changes hands, the others stay.         *)
LEMMA LoopMoves ==
  ASSUME TypeInv, PlacesOK, PlacesOK', Kinds, Kinds', NEW l \in Receiver, NEW m \in Msg,
         NEW from, NEW to,
         \A k \in Receiver : k # l =>
           pending'[k] = pending[k] /\ wire'[k] = wire[k] /\ lost'[k] = lost[k],
         \A a \in Address : a # AddressOf[l] => queues'[a] = queues[a],
         \A n \in Msg : n # m =>
           /\ n \in Queued(AddressOf[l])' <=> n \in Queued(AddressOf[l])
           /\ n \in Elems(wire'[l]) <=> n \in Elems(wire[l])
           /\ n = pending'[l] <=> n = pending[l]
           /\ n \in lost'[l] <=> n \in lost[l],
         PlaceOf(AddressOf[l], m) = from, PlaceOf(AddressOf[l], m)' = to
  PROVE  Relay!Move(AddressOf[l], m, from, to)
<1> DEFINE b == AddressOf[l]
<1>1. b \in Address
  BY TypesOfCopies DEF CopyTypes
<1>2. ASSUME NEW a \in Address, NEW n \in Msg
      PROVE  PlaceOf(a, n)' = IF a = b /\ n = m THEN to ELSE PlaceOf(a, n)
  <2>1. CASE a = b /\ n = m
    BY <2>1
  <2>2. CASE a = b /\ n # m
    <3>1. \A k \in LoopsOf(a) :
            /\ n \in Elems(wire'[k]) <=> n \in Elems(wire[k])
            /\ n = pending'[k] <=> n = pending[k]
            /\ n \in lost'[k] <=> n \in lost[k]
      BY <2>2 DEF LoopsOf
    <3>2. QED BY <2>2, <3>1, SameKind DEF PlacesOK
  <2>3. CASE a # b
    <3>1. \A k \in LoopsOf(a) : k \in Receiver /\ k # l
      BY <2>3 DEF LoopsOf
    <3>2. Queued(a)' = Queued(a)
      BY <2>3 DEF Queued
    <3>3. QED BY <2>3, <3>1, <3>2, SameKind DEF PlacesOK
  <2>4. QED BY <2>1, <2>2, <2>3
<1>3. QED BY <1>1, <1>2, MoveStep

LEMMA DequeueRelays ==
  ASSUME TypeInv, PlacesOK, PlacesOK', Kinds, Kinds', NEW l \in Receiver,
         LoopDequeue(l), Dequeue(AddressOf[l])
  PROVE  \E m \in Msg : Relay!Move(AddressOf[l], m, "queued", "held")
<1> DEFINE a == AddressOf[l]
<1>0. PICK m \in Msg : m = Head(queues[a])
  BY DequeueMoves, TypesOfCopies, TailElems DEF CopyTypes
<1>1. /\ a \in Address /\ queues[a] # <<>>
      /\ queues' = [queues EXCEPT ![a] = Tail(queues[a])]
      /\ pending[l] = NoMsg
      /\ pending' = [pending EXCEPT ![l] = m]
      /\ UNCHANGED <<wire, lost>>
  BY <1>0, DequeueMoves
<1>2. CopyTypes
  BY TypesOfCopies
<1>3. /\ m \in Msg
      /\ Elems(queues[a]) = {m} \cup Elems(Tail(queues[a]))
  BY <1>0, <1>1, <1>2, TailElems DEF CopyTypes
<1> HIDE DEF a
<1>4. /\ queues'[a] = Tail(queues[a]) /\ pending'[l] = m
      /\ \A x \in Address : x # a => queues'[x] = queues[x]
      /\ \A k \in Receiver : k # l => pending'[k] = pending[k]
  BY <1>1, <1>2 DEF CopyTypes
<1>5. Queued(a) = Queued(a)' \cup {m}
  BY <1>3, <1>4 DEF Queued
<1>6. PlaceOf(a, m) = "queued"
  BY <1>1, <1>3, <1>5 DEF Kinds
<1>7. PlaceOf(a, m)' = "held"
  <2>1. l \in LoopsOf(a)'
    BY DEF LoopsOf, a
  <2>2. QED BY <1>1, <1>3, <1>4, <2>1 DEF Kinds
<1>8. \A n \in Msg : n # NoMsg
  BY <1>2 DEF CopyTypes
<1>9. Relay!Move(AddressOf[l], m, "queued", "held")
  BY <1>1, <1>3, <1>4, <1>5, <1>6, <1>7, <1>8, LoopMoves DEF a
<1>10. QED BY <1>3, <1>9

LEMMA ReturnRelays ==
  ASSUME TypeInv, PlacesOK, PlacesOK', Kinds, Kinds', NEW l \in Receiver, LoopReturn(l)
  PROVE  \E m \in Msg : Relay!Move(AddressOf[l], m, "held", "queued")
<1> DEFINE a == AddressOf[l]
<1>0. PICK m \in Msg : m = pending[l]
  BY ReturnMoves
<1>1. /\ a \in Address /\ m \in Msg
      /\ queues' = [queues EXCEPT ![a] = <<m>> \o queues[a]]
      /\ pending' = [pending EXCEPT ![l] = NoMsg]
      /\ UNCHANGED <<wire, lost>>
  BY <1>0, ReturnMoves
<1>2. CopyTypes
  BY TypesOfCopies
<1>3. Elems(<<m>> \o queues[a]) = {m} \cup Elems(queues[a])
  BY <1>1, <1>2, ConsElems DEF CopyTypes
<1>4. /\ queues'[a] = <<m>> \o queues[a] /\ pending'[l] = NoMsg
      /\ \A x \in Address : x # a => queues'[x] = queues[x]
      /\ \A k \in Receiver : k # l => pending'[k] = pending[k]
  BY <1>1, <1>2 DEF CopyTypes
<1>5. Queued(a)' = Queued(a) \cup {m}
  BY <1>3, <1>4 DEF Queued
<1>6. PlaceOf(a, m) = "held"
  BY <1>0, <1>1 DEF Kinds, LoopsOf
<1>7. PlaceOf(a, m)' = "queued"
  BY <1>1, <1>5 DEF Kinds
<1>8. \A n \in Msg : n # NoMsg
  BY <1>2 DEF CopyTypes
<1>9. Relay!Move(AddressOf[l], m, "held", "queued")
  BY <1>0, <1>1, <1>4, <1>5, <1>6, <1>7, <1>8, LoopMoves
<1>10. QED BY <1>1, <1>9

LEMMA DeliverRelays ==
  ASSUME TypeInv, PlacesOK, PlacesOK', Kinds, Kinds', NEW l \in Receiver, LoopDeliver(l)
  PROVE  \E m \in Msg : \/ Relay!Move(AddressOf[l], m, "held", "delivered")
                        \/ Relay!Move(AddressOf[l], m, "held", "lost")
<1> DEFINE a == AddressOf[l]
<1>0. PICK m \in Msg : m = pending[l]
  BY DeliverMoves
<1>1. /\ a \in Address /\ m \in Msg
      /\ \/ wire' = [wire EXCEPT ![l] = Append(wire[l], m)] /\ lost' = lost
         \/ lost' = [lost EXCEPT ![l] = lost[l] \cup {m}] /\ wire' = wire
      /\ pending' = [pending EXCEPT ![l] = NoMsg]
      /\ queues' = queues
  BY <1>0, DeliverMoves
<1>2. CopyTypes
  BY TypesOfCopies
<1>3. l \in LoopsOf(a) /\ l \in LoopsOf(a)'
  BY DEF LoopsOf
<1>4. PlaceOf(a, m) = "held"
  BY <1>0, <1>1, <1>3 DEF Kinds
<1>5. Elems(Append(wire[l], m)) = Elems(wire[l]) \cup {m}
  BY <1>1, <1>2, AppendElems DEF CopyTypes
<1>6. Queued(a)' = Queued(a)
  BY <1>1 DEF Queued
<1>7. \A n \in Msg : n # NoMsg
  BY <1>2 DEF CopyTypes
<1> DEFINE WIRE == wire' = [wire EXCEPT ![l] = Append(wire[l], m)] /\ lost' = lost
           LOST == lost' = [lost EXCEPT ![l] = lost[l] \cup {m}] /\ wire' = wire
<1>8. ASSUME WIRE PROVE Relay!Move(a, m, "held", "delivered")
  <2>1. /\ Elems(wire'[l]) = Elems(wire[l]) \cup {m} /\ lost'[l] = lost[l]
        /\ pending'[l] = NoMsg
        /\ \A k \in Receiver : k # l =>
             pending'[k] = pending[k] /\ wire'[k] = wire[k] /\ lost'[k] = lost[k]
    BY <1>1, <1>2, <1>5, <1>8 DEF CopyTypes
  <2>2. PlaceOf(a, m)' = "delivered"
    BY <1>1, <1>3, <2>1 DEF Kinds
  <2>3. QED BY <1>0, <1>1, <1>4, <1>6, <1>7, <2>1, <2>2, LoopMoves
<1>9. ASSUME LOST PROVE Relay!Move(a, m, "held", "lost")
  <2>1. /\ wire'[l] = wire[l] /\ lost'[l] = lost[l] \cup {m}
        /\ pending'[l] = NoMsg
        /\ \A k \in Receiver : k # l =>
             pending'[k] = pending[k] /\ wire'[k] = wire[k] /\ lost'[k] = lost[k]
    BY <1>1, <1>2, <1>9 DEF CopyTypes
  <2>2. PlaceOf(a, m)' = "lost"
    BY <1>1, <1>3, <2>1 DEF Kinds
  <2>3. QED BY <1>0, <1>1, <1>4, <1>6, <1>7, <2>1, <2>2, LoopMoves
<1>10. QED BY <1>1, <1>8, <1>9

(* However the handlers and the loops interleave, the server hands every    *)
(* published copy over as the relay does: to its address at once, then to   *)
(* one client, put back only from a loop's hand and lost only there.        *)
THEOREM ServerRelays == Spec => RelaySpec
<1>1. ASSUME Init, Kinds PROVE Relay!Init
  <2>1. \A a \in Address : enqueued[a] = {}
    BY <1>1 DEF Init
  <2>2. \A a \in Address, m \in Msg : PlaceOf(a, m) = "unsent"
    BY <1>1, <2>1 DEF Kinds
  <2>3. QED BY <2>2 DEF Relay!Init
<1> DEFINE place == [a \in Address |-> [m \in Msg |-> PlaceOf(a, m)]]
<1>2. ASSUME TypeInv, PlacesOK, PlacesOK', Kinds, Kinds', [Next]_vars
      PROVE  Relay!Next \/ UNCHANGED place
  <2>1. CASE UNCHANGED copyVars
    BY <2>1 DEF copyVars, PlaceOf, Places, LoopsOf
  <2>2. ASSUME NEW c \in Conn, NEW h \in Handle, Transfer(c, h) PROVE Relay!Next
    BY <1>2, <2>2, TransferRelays DEF Relay!Next
  <2>3. \A l \in Receiver : AddressOf[l] \in Address
    BY ServiceBusAssumption
  <2>4. ASSUME NEW l \in Receiver, LoopDequeue(l), Dequeue(AddressOf[l]) PROVE Relay!Next
    BY <1>2, <2>3, <2>4, DequeueRelays DEF Relay!Next
  <2>5. ASSUME NEW l \in Receiver, LoopReturn(l) PROVE Relay!Next
    BY <1>2, <2>3, <2>5, ReturnRelays DEF Relay!Next
  <2>6. ASSUME NEW l \in Receiver, LoopDeliver(l) PROVE Relay!Next
    BY <1>2, <2>3, <2>6, DeliverRelays DEF Relay!Next
  <2>7. QED BY <1>2, <2>1, <2>2, <2>4, <2>5, <2>6, MovingSteps
<1>3. QED
  BY <1>1, <1>2, KindsHold, PlacesHolds, TypeInvHolds, PTL DEF Spec, RelaySpec, Relay!Spec

-----------------------------------------------------------------------------
(* Order.                                                                   *)

LEMMA AppendIncreasing ==
  ASSUME NEW s \in Seq(Int), NEW e \in Int, Increasing(s), Before(Elems(s), {e})
  PROVE  Increasing(Append(s, e))
<1> DEFINE n == Len(s)
           t == Append(s, e)
<1>1. /\ n \in Nat /\ Len(t) = n + 1 /\ t[n + 1] = e
      /\ \A i \in 1..n : t[i] = s[i]
  BY AppendProperties, LenProperties
<1>2. /\ \A i \in 1..n : s[i] < e
      /\ \A i, j \in 1..n : i < j => s[i] < s[j]
      /\ Increasing(t) <=> \A i, j \in 1..Len(t) : i < j => t[i] < t[j]
  BY DEF Elems, Before, Increasing
<1> HIDE DEF n, t
<1>3. ASSUME NEW i \in 1..(n + 1), NEW j \in 1..(n + 1), i < j PROVE t[i] < t[j]
  <2>1. i \in 1..n
    BY <1>1, <1>3
  <2>2. CASE j = n + 1
    BY <1>1, <1>2, <2>1, <2>2
  <2>3. CASE j # n + 1
    BY <1>1, <1>2, <1>3, <2>1, <2>3
  <2>4. QED BY <2>2, <2>3
<1>4. QED BY <1>1, <1>2, <1>3 DEF t

LEMMA TailIncreasing ==
  ASSUME NEW s \in Seq(Int), s # <<>>, Increasing(s)
  PROVE  Increasing(Tail(s)) /\ Before({Head(s)}, Elems(Tail(s)))
<1> DEFINE n == Len(s)
           t == Tail(s)
<1>1. /\ n \in Nat \ {0} /\ Len(t) = n - 1 /\ Head(s) = s[1]
      /\ \A i \in 1..(n - 1) : t[i] = s[i + 1]
  BY HeadTailProperties, LenProperties, EmptySeq
<1>2. /\ Elems(t) = {t[i] : i \in 1..Len(t)}
      /\ \A i, j \in 1..n : i < j => s[i] < s[j]
      /\ Increasing(t) <=> \A i, j \in 1..Len(t) : i < j => t[i] < t[j]
  BY DEF Elems, Increasing
<1> HIDE DEF n, t
<1>3. ASSUME NEW i \in 1..(n - 1), NEW j \in 1..(n - 1), i < j PROVE t[i] < t[j]
  <2>1. i + 1 \in 1..n /\ j + 1 \in 1..n /\ i + 1 < j + 1
    BY <1>1, <1>3
  <2>2. QED BY <1>1, <1>2, <2>1
<1>4. ASSUME NEW i \in 1..(n - 1) PROVE s[1] < t[i]
  <2>1. 1 \in 1..n /\ i + 1 \in 1..n /\ 1 < i + 1
    BY <1>1
  <2>2. QED BY <1>1, <1>2, <2>1
<1>5. QED BY <1>1, <1>2, <1>3, <1>4 DEF Before, t

LEMMA ConsIncreasing ==
  ASSUME NEW s \in Seq(Int), NEW e \in Int, Increasing(s), Before({e}, Elems(s))
  PROVE  Increasing(<<e>> \o s)
<1> DEFINE n == Len(s)
           t == <<e>> \o s
<1>1. /\ n \in Nat /\ Len(t) = 1 + n
      /\ \A i \in 1..(1 + n) : t[i] = IF i <= 1 THEN <<e>>[i] ELSE s[i - 1]
  <2>1. <<e>> \in Seq(Int) /\ Len(<<e>>) = 1
    OBVIOUS
  <2>2. QED BY <2>1, ConcatProperties, LenProperties
<1>2. /\ \A i \in 1..n : e < s[i]
      /\ \A i, j \in 1..n : i < j => s[i] < s[j]
      /\ Increasing(t) <=> \A i, j \in 1..Len(t) : i < j => t[i] < t[j]
  BY DEF Elems, Before, Increasing
<1> HIDE DEF n, t
<1>3. t[1] = e
  BY <1>1
<1>4. \A i \in 1..(1 + n) : i # 1 => i - 1 \in 1..n /\ t[i] = s[i - 1]
  BY <1>1
<1>5. ASSUME NEW i \in 1..(1 + n), NEW j \in 1..(1 + n), i < j PROVE t[i] < t[j]
  <2>1. j - 1 \in 1..n /\ t[j] = s[j - 1]
    BY <1>1, <1>4, <1>5
  <2>2. CASE i = 1
    BY <1>2, <1>3, <2>1, <2>2
  <2>3. CASE i # 1
    <3>1. i - 1 \in 1..n /\ t[i] = s[i - 1] /\ i - 1 < j - 1
      BY <1>1, <1>4, <1>5, <2>3
    <3>2. QED BY <1>2, <2>1, <3>1
  <2>4. QED BY <2>2, <2>3
<1>6. QED BY <1>1, <1>2, <1>5 DEF t

(* What InOrder says of one address ...                                     *)
OrderAt(a) ==
  /\ Increasing(queues[a])
  /\ \A l \in LoopsOf(a) : Increasing(wire[l]) /\ Before(Elems(wire[l]), Queued(a))
  /\ \A k, l \in LoopsOf(a) :
       pending[l] # NoMsg => /\ Before(Elems(wire[k]), {pending[l]})
                             /\ Before({pending[l]}, Queued(a))
  /\ \A k, l \in LoopsOf(a) :
       k # l => \/ Before(Elems(wire[l]), Elems(wire[k]))
                \/ Before(Elems(wire[k]), Elems(wire[l]))

(* ... and why: at most one loop serves it, and none before that one got    *)
(* anything later.                                                          *)
AloneAt(a) ==
  \A k, l \in LoopsOf(a) :
    k # l /\ Running(l) => ~Running(k) /\ Before(Elems(wire[k]), Elems(wire[l]))

FreshOK == \A l \in Receiver : pc[l] \in {"new", "attaching"} => wire[l] = <<>>

OrderOK == FreshOK /\ \A a \in Address \ shared : OrderAt(a) /\ AloneAt(a)

LEMMA OrderIsInOrder == (\A a \in Address \ shared : OrderAt(a)) => InOrder
BY DEF OrderAt, InOrder, Queued

LEMMA CopiesAreNumbers ==
  ASSUME TypeInv
  PROVE  /\ Msg \subseteq Int
         /\ \A a \in Address : queues[a] \in Seq(Int) /\ Queued(a) \subseteq Int
         /\ \A l \in Receiver : wire[l] \in Seq(Int) /\ Elems(wire[l]) \subseteq Int
<1>1. Msg \subseteq Int
  BY ServiceBusAssumption DEF Msg
<1>2. CopyTypes
  BY TypesOfCopies
<1>3. \A a \in Address : queues[a] \in Seq(Int)
  BY <1>1, <1>2, SeqMonotonic DEF CopyTypes
<1>4. \A l \in Receiver : wire[l] \in Seq(Int)
  BY <1>1, <1>2, SeqMonotonic DEF CopyTypes
<1>5. QED BY <1>1, <1>3, <1>4, RangeOfElems DEF Queued

(* A loop with a message in hand runs.                                      *)
LEMMA HandRuns ==
  ASSUME TypeInv, NEW l \in Receiver, pending[l] # NoMsg
  PROVE  Running(l)
BY DEF TypeInv, HandOK, Holding, Running

LEMMA TransferOrder ==
  ASSUME TypeInv, PlacesOK, NEW c \in Conn, NEW h \in Handle, Transfer(c, h),
         NEW b \in Address, OrderAt(b), AloneAt(b)
  PROVE  OrderAt(b)' /\ AloneAt(b)'
<1> DEFINE A == Targets(AddressOf[table[c][h]])
<1>0. PICK m \in Msg : m = sent'
  BY TransferMoves
<1>1. /\ m = sent + 1 /\ m \in Int
      /\ b \in A => queues'[b] = Append(queues[b], m)
      /\ b \notin A => queues'[b] = queues[b]
      /\ UNCHANGED <<pending, wire, lost, pc>>
  BY <1>0, TransferMoves, CopiesAreNumbers
<1> HIDE DEF A
<1>2. /\ sent \in Int /\ NoMsg \notin Msg
      /\ queues[b] \in Seq(Int) /\ Queued(b) \subseteq 1..sent
      /\ \A l \in LoopsOf(b) : Has(l) \subseteq 1..sent
  <2>1. sent \in Int /\ NoMsg \notin Msg
    BY TypesOfCopies, CopiesAreNumbers, ServiceBusAssumption DEF CopyTypes
  <2>2. queues[b] \in Seq(Int)
    BY CopiesAreNumbers
  <2>3. Queued(b) \cup UNION {Has(l) : l \in LoopsOf(b)} \subseteq 1..sent
    BY DEF PlacesOK, Accounted
  <2>4. QED BY <2>1, <2>2, <2>3
<1>3. AloneAt(b)'
  BY <1>1 DEF AloneAt, LoopsOf, Running
<1>4. CASE b \notin A
  <2>1. OrderAt(b)'
    BY <1>1, <1>4 DEF OrderAt, LoopsOf, Queued
  <2>2. QED BY <1>3, <2>1
<1>5. CASE b \in A
  <2>1. Queued(b)' = Queued(b) \cup {m} /\ Before(Queued(b), {m})
    <3>1. Elems(Append(queues[b], m)) = Elems(queues[b]) \cup {m}
      BY <1>1, <1>2, AppendElems
    <3>2. Before(Queued(b), {m})
      BY <1>1, <1>2 DEF Before
    <3>3. QED BY <1>1, <1>5, <3>1, <3>2 DEF Queued
  <2>2. Increasing(queues'[b])
    BY <1>1, <1>2, <1>5, <2>1, AppendIncreasing DEF OrderAt, Queued
  <2>3. ASSUME NEW l \in LoopsOf(b)
        PROVE  /\ Before(Elems(wire[l]), Queued(b)')
               /\ pending[l] # NoMsg => Before({pending[l]}, Queued(b)')
    <3>1. /\ \A x \in Elems(wire[l]) : x < m
          /\ pending[l] # NoMsg => pending[l] < m
      <4>1. \A x \in Has(l) : x < m
        BY <1>1, <1>2
      <4>2. Elems(wire[l]) \subseteq Has(l) /\ (pending[l] # NoMsg => pending[l] \in Has(l))
        BY DEF Has
      <4>3. QED BY <4>1, <4>2
    <3>2. /\ Before(Elems(wire[l]), Queued(b))
          /\ pending[l] # NoMsg => Before({pending[l]}, Queued(b))
      BY DEF OrderAt
    <3>3. QED BY <2>1, <3>1, <3>2 DEF Before
  <2>4. OrderAt(b)'
    BY <1>1, <2>2, <2>3 DEF OrderAt, LoopsOf
  <2>5. QED BY <1>3, <2>4
<1>6. QED BY <1>4, <1>5

LEMMA DequeueOrder ==
  ASSUME TypeInv, NEW l \in Receiver, LoopDequeue(l), Dequeue(AddressOf[l]),
         NEW b \in Address, OrderAt(b), AloneAt(b)
  PROVE  OrderAt(b)' /\ AloneAt(b)'
<1> DEFINE a == AddressOf[l]
<1>0. PICK m \in Msg : m = Head(queues[a])
  BY DequeueMoves, TypesOfCopies, TailElems DEF CopyTypes
<1>1. /\ a \in Address /\ queues[a] # <<>>
      /\ queues' = [queues EXCEPT ![a] = Tail(queues[a])]
      /\ pending' = [pending EXCEPT ![l] = m]
      /\ pc[l] = "poll" /\ pc' = [pc EXCEPT ![l] = "credit"]
      /\ UNCHANGED <<wire, lost>>
  BY <1>0, DequeueMoves
<1>2. CopyTypes /\ pc \in [Receiver -> LoopState]
  BY TypesOfCopies DEF TypeInv, TypeOK
<1> HIDE DEF a
<1>3. /\ queues'[a] = Tail(queues[a]) /\ pending'[l] = m
      /\ b # a => queues'[b] = queues[b]
      /\ \A k \in Receiver : k # l => pending'[k] = pending[k]
      /\ \A k \in Receiver : Running(k)' <=> Running(k)
  BY <1>1, <1>2 DEF CopyTypes, Running
<1>4. AloneAt(b)'
  BY <1>1, <1>3 DEF AloneAt, LoopsOf
<1>5. CASE b # a
  <2>1. \A k \in LoopsOf(b) : k \in Receiver /\ k # l
    BY <1>5 DEF LoopsOf, a
  <2>2. OrderAt(b)'
    BY <1>1, <1>3, <1>5, <2>1 DEF OrderAt, LoopsOf, Queued
  <2>3. QED BY <1>4, <2>2
<1>6. CASE b = a
  <2>1. Queued(b) = {m} \cup Queued(b)'
    BY <1>0, <1>1, <1>2, <1>3, <1>6, TailElems DEF Queued, CopyTypes
  <2>2. Increasing(queues'[b]) /\ Before({m}, Queued(b)')
    BY <1>0, <1>1, <1>3, <1>6, CopiesAreNumbers, TailIncreasing DEF OrderAt, Queued
  <2>3. ASSUME NEW k \in LoopsOf(b)
        PROVE  /\ Before(Elems(wire[k]), Queued(b)') /\ Before(Elems(wire[k]), {m})
               /\ pending[k] # NoMsg => Before({pending[k]}, Queued(b)')
    BY <2>1 DEF OrderAt, Before
  <2>4. \A k \in LoopsOf(b) : k \in Receiver
    BY DEF LoopsOf
  <2>5. ASSUME NEW k \in LoopsOf(b), NEW j \in LoopsOf(b), pending'[j] # NoMsg
        PROVE  Before(Elems(wire[k]), {pending'[j]}) /\ Before({pending'[j]}, Queued(b)')
    <3>1. CASE j = l
      BY <1>3, <2>2, <2>3, <3>1
    <3>2. CASE j # l
      <4>1. pending'[j] = pending[j]
        BY <1>3, <2>4, <3>2
      <4>2. QED BY <2>3, <2>5, <4>1 DEF OrderAt
    <3>3. QED BY <3>1, <3>2
  <2>6. OrderAt(b)'
    BY <1>1, <2>2, <2>3, <2>5 DEF OrderAt, LoopsOf
  <2>7. QED BY <1>4, <2>6
<1>7. QED BY <1>5, <1>6

LEMMA ReturnOrder ==
  ASSUME TypeInv, NEW l \in Receiver, LoopReturn(l),
         NEW b \in Address, OrderAt(b), AloneAt(b)
  PROVE  OrderAt(b)' /\ AloneAt(b)'
<1> DEFINE a == AddressOf[l]
<1>0. PICK m \in Msg : m = pending[l]
  BY ReturnMoves
<1>1. /\ a \in Address /\ m # NoMsg
      /\ queues' = [queues EXCEPT ![a] = <<m>> \o queues[a]]
      /\ pending' = [pending EXCEPT ![l] = NoMsg]
      /\ pc[l] = "return" /\ pc' = [pc EXCEPT ![l] = "done"]
      /\ UNCHANGED <<wire, lost>>
  BY <1>0, ReturnMoves
<1>2. CopyTypes /\ pc \in [Receiver -> LoopState]
  BY TypesOfCopies DEF TypeInv, TypeOK
<1> HIDE DEF a
<1>3. /\ queues'[a] = <<m>> \o queues[a] /\ pending'[l] = NoMsg
      /\ b # a => queues'[b] = queues[b]
      /\ \A k \in Receiver : k # l => pending'[k] = pending[k]
      /\ \A k \in Receiver : Running(k)' => Running(k)
      /\ Running(l)
  BY <1>1, <1>2 DEF CopyTypes, Running
<1>4. AloneAt(b)'
  BY <1>1, <1>3 DEF AloneAt, LoopsOf
<1>5. CASE b # a
  <2>1. \A k \in LoopsOf(b) : k \in Receiver /\ k # l
    BY <1>5 DEF LoopsOf, a
  <2>2. OrderAt(b)'
    BY <1>1, <1>3, <1>5, <2>1 DEF OrderAt, LoopsOf, Queued
  <2>3. QED BY <1>4, <2>2
<1>6. CASE b = a
  <2>1. l \in LoopsOf(b) /\ \A k \in LoopsOf(b) : k \in Receiver
    BY <1>6 DEF LoopsOf, a
  <2>2. \A k \in LoopsOf(b) : k # l => pending[k] = NoMsg
    BY <1>3, <2>1, HandRuns DEF AloneAt
  <2>3. \A k \in LoopsOf(b) : pending'[k] = NoMsg
    BY <1>3, <2>1, <2>2
  <2>4. /\ \A k \in LoopsOf(b) : Before(Elems(wire[k]), {m})
        /\ Before({m}, Queued(b))
    BY <1>0, <1>1, <2>1 DEF OrderAt
  <2>5. Queued(b)' = {m} \cup Queued(b)
    <3>1. Elems(<<m>> \o queues[b]) = {m} \cup Elems(queues[b])
      BY <1>2, ConsElems DEF CopyTypes
    <3>2. QED BY <1>3, <1>6, <3>1 DEF Queued
  <2>6. Increasing(queues'[b])
    <3>1. m \in Int
      BY CopiesAreNumbers
    <3>2. QED BY <1>3, <1>6, <2>4, <3>1, CopiesAreNumbers, ConsIncreasing DEF OrderAt, Queued
  <2>7. \A k \in LoopsOf(b) : Before(Elems(wire[k]), Queued(b)')
    BY <2>4, <2>5 DEF OrderAt, Before
  <2>8. OrderAt(b)'
    BY <1>1, <2>3, <2>6, <2>7 DEF OrderAt, LoopsOf
  <2>9. QED BY <1>4, <2>8
<1>7. QED BY <1>5, <1>6

LEMMA DeliverOrder ==
  ASSUME TypeInv, NEW l \in Receiver, LoopDeliver(l),
         NEW b \in Address, OrderAt(b), AloneAt(b)
  PROVE  OrderAt(b)' /\ AloneAt(b)'
<1> DEFINE a == AddressOf[l]
<1>0. PICK m \in Msg : m = pending[l]
  BY DeliverMoves
<1>1. /\ a \in Address /\ m # NoMsg
      /\ wire' = [wire EXCEPT ![l] = Append(wire[l], m)] \/ wire' = wire
      /\ pending' = [pending EXCEPT ![l] = NoMsg]
      /\ pc[l] = "write"
      /\ pc' = [pc EXCEPT ![l] = "poll"] \/ pc' = [pc EXCEPT ![l] = "done"]
      /\ queues' = queues
  BY <1>0, DeliverMoves
<1>2. CopyTypes /\ pc \in [Receiver -> LoopState]
  BY TypesOfCopies DEF TypeInv, TypeOK
<1> HIDE DEF a
<1>3. /\ pending'[l] = NoMsg
      /\ \A k \in Receiver : k # l => pending'[k] = pending[k] /\ wire'[k] = wire[k]
      /\ \A k \in Receiver : Running(k)' => Running(k)
      /\ Running(l)
      /\ Queued(b)' = Queued(b)
      /\ wire'[l] = Append(wire[l], m) \/ wire'[l] = wire[l]
  BY <1>1, <1>2 DEF CopyTypes, Running, Queued
<1>4. CASE b # a
  <2>1. \A k \in LoopsOf(b) : k \in Receiver /\ k # l
    BY <1>4 DEF LoopsOf, a
  <2>2. OrderAt(b)'
    BY <1>1, <1>3, <1>4, <2>1 DEF OrderAt, LoopsOf
  <2>3. AloneAt(b)'
    BY <1>3, <2>1 DEF AloneAt, LoopsOf
  <2>4. QED BY <2>2, <2>3
<1>5. CASE b = a
  <2>1. l \in LoopsOf(b) /\ \A k \in LoopsOf(b) : k \in Receiver
    BY <1>5 DEF LoopsOf, a
  <2>2. \A k \in LoopsOf(b) : k # l => ~Running(k) /\ Before(Elems(wire[k]), Elems(wire[l]))
    BY <1>3, <2>1 DEF AloneAt
  <2>3. \A k \in LoopsOf(b) : pending'[k] = NoMsg
    BY <1>3, <2>1, <2>2, HandRuns
  <2>4. /\ \A k \in LoopsOf(b) : Before(Elems(wire[k]), {m})
        /\ Before({m}, Queued(b))
    BY <1>0, <1>1, <2>1 DEF OrderAt
  <2>5. /\ Increasing(wire'[l])
        /\ Elems(wire'[l]) = Elems(wire[l]) \cup {m} \/ Elems(wire'[l]) = Elems(wire[l])
    <3>1. m \in Int /\ wire[l] \in Seq(Int) /\ Increasing(wire[l])
      BY <2>1, CopiesAreNumbers DEF OrderAt
    <3>2. /\ Increasing(Append(wire[l], m))
          /\ Elems(Append(wire[l], m)) = Elems(wire[l]) \cup {m}
      BY <2>1, <2>4, <3>1, AppendElems, AppendIncreasing
    <3>3. QED BY <1>3, <3>1, <3>2
  <2>6. Before(Elems(wire'[l]), Queued(b))
    BY <2>1, <2>4, <2>5 DEF OrderAt, Before
  <2>7. \A k \in LoopsOf(b) : k # l => Before(Elems(wire[k]), Elems(wire'[l]))
    BY <2>2, <2>4, <2>5 DEF Before
  <2>8. \A k \in LoopsOf(b) : Increasing(wire'[k]) /\ Before(Elems(wire'[k]), Queued(b))
    BY <1>3, <2>1, <2>5, <2>6 DEF OrderAt
  <2>9. ASSUME NEW j \in LoopsOf(b), NEW k \in LoopsOf(b), j # k
        PROVE  \/ Before(Elems(wire'[k]), Elems(wire'[j]))
               \/ Before(Elems(wire'[j]), Elems(wire'[k]))
    <3>1. CASE j = l \/ k = l
      BY <1>3, <2>1, <2>7, <2>9, <3>1
    <3>2. CASE j # l /\ k # l
      BY <1>3, <2>1, <2>9, <3>2 DEF OrderAt
    <3>3. QED BY <3>1, <3>2
  <2>10. OrderAt(b)'
    BY <1>1, <1>3, <2>3, <2>8, <2>9 DEF OrderAt, LoopsOf
  <2>11. ASSUME NEW j \in LoopsOf(b), NEW k \in LoopsOf(b), j # k, Running(k)'
         PROVE  ~Running(j)' /\ Before(Elems(wire'[j]), Elems(wire'[k]))
    <3>1. k = l
      BY <1>3, <2>1, <2>2, <2>11
    <3>2. QED BY <1>3, <2>1, <2>2, <2>7, <2>11, <3>1
  <2>12. AloneAt(b)'
    BY <2>11 DEF AloneAt, LoopsOf
  <2>13. QED BY <2>10, <2>12
<1>6. QED BY <1>4, <1>5

(* Only an attach's echo starts a loop, and it marks an address that        *)
(* another loop serves.                                                     *)
Starts(c) ==
  LET l == reader[c].link IN
  /\ l \in Receiver
  /\ pc[l] = "attaching" /\ pc' = [pc EXCEPT ![l] = "poll"]
  /\ shared \subseteq shared'
  /\ (\E k \in Receiver : AddressOf[k] = AddressOf[l] /\ Running(k)) => AddressOf[l] \in shared'
  /\ UNCHANGED copyVars

NoStart ==
  /\ shared' = shared
  /\ \A l \in Receiver :
       /\ Running(l)' => Running(l)
       /\ pc'[l] \in {"new", "attaching"} => pc[l] \in {"new", "attaching"}

LEMMA StartingSteps ==
  ASSUME TypeInv, [Next]_vars
  PROVE  NoStart \/ \E c \in Conn : Starts(c)
<1>0. pc \in [Receiver -> LoopState] /\ AttachingOK
  BY DEF TypeInv, TypeOK
<1> USE <1>0 DEF NoStart, Running, vars, brokerVars, linkVars, loopVars, connVars, clientVars
<1>1. ASSUME NEW c \in Conn, NEW h \in Handle, NEW l \in Link, Attach(c, h, l)
      PROVE  NoStart
  BY <1>1 DEF Attach
<1>2. ASSUME NEW c \in Conn, AttachEcho(c)
      PROVE  NoStart \/ Starts(c)
  <2>1. CASE reader[c].link \in Receiver
    <3>1. reader[c].link \notin Sender /\ pc[reader[c].link] = "attaching"
      BY <1>2, <2>1, ServiceBusAssumption DEF AttachEcho, AttachingOK
    <3>2. /\ pc' = [pc EXCEPT ![reader[c].link] = "poll"]
          /\ shared' = IF \E k \in Receiver : AddressOf[k] = AddressOf[reader[c].link] /\ Running(k)
                       THEN shared \cup {AddressOf[reader[c].link]} ELSE shared
          /\ UNCHANGED copyVars
      BY <1>2, <3>1 DEF AttachEcho, copyVars
    <3>3. QED BY <2>1, <3>1, <3>2 DEF Starts
  <2>2. CASE reader[c].link \notin Receiver
    BY <1>2, <2>2 DEF AttachEcho
  <2>3. QED BY <2>1, <2>2
<1>3. ASSUME NEW c \in Conn, NEW h \in Handle, Transfer(c, h) \/ Drain(c, h)
      PROVE  NoStart
  BY <1>3 DEF Transfer, Drain, drainCredit
<1>4. ASSUME NEW c \in Conn, NEW h \in Handle, NEW n \in 1..MaxCredit, Flow(c, h, n)
      PROVE  NoStart
  BY <1>4 DEF Flow, addCredit, Broadcast
<1>5. ASSUME NEW c \in Conn, DrainEcho(c) \/ Drop(c) \/ NetClose(c)
      PROVE  NoStart
  BY <1>5 DEF DrainEcho, Drop, NetClose
<1>6. ASSUME NEW c \in Conn, NEW l \in Receiver, NEW m \in Msg, NEW o \in Outcome,
             Disposition(c, l, m, o)
      PROVE  NoStart
  BY <1>6 DEF Disposition
<1>7. ASSUME NEW c \in Conn, NEW h \in Handle, Detach(c, h)
      PROVE  NoStart
  BY <1>7 DEF Detach, closeLinks, Broadcast
<1>8. ASSUME NEW c \in Conn, StopServing(c)
      PROVE  NoStart
  BY <1>8 DEF StopServing, closeLinks, Broadcast
<1>9. ASSUME NEW l \in Receiver, deliverLoop(l)
      PROVE  NoStart
  <2>1. /\ pc[l] \in {"poll", "empty", "wait", "credit", "return", "write"}
        /\ \E p \in LoopState \ {"new", "attaching"} : pc' = [pc EXCEPT ![l] = p]
        /\ shared' = shared
    BY <1>9 DEF deliverLoop, LoopDequeue, LoopWaitChan, LoopWake, LoopQuit, takeCredit,
                LoopReturn, LoopDeliver, LoopState
  <2>2. QED BY <2>1
<1>10. CASE UNCHANGED vars
  BY <1>10
<1>11. QED
  BY <1>1, <1>2, <1>3, <1>4, <1>5, <1>6, <1>7, <1>8, <1>9, <1>10
     DEF Next, Client, Serve

LEMMA OrderStep == TypeInv /\ PlacesOK /\ OrderOK /\ [Next]_vars => OrderOK'
<1> SUFFICES ASSUME TypeInv, PlacesOK, OrderOK, [Next]_vars PROVE OrderOK'
  OBVIOUS
<1>0. CopyTypes /\ pc \in [Receiver -> LoopState]
  BY TypesOfCopies DEF TypeInv, TypeOK
<1>1. CASE \E c \in Conn : Starts(c)
  <2>1. PICK c \in Conn : Starts(c)
    BY <1>1
  <2>2. PICK l \in Receiver : l = reader[c].link
    BY <2>1 DEF Starts
  <2>3. /\ pc[l] = "attaching" /\ pc' = [pc EXCEPT ![l] = "poll"]
        /\ shared \subseteq shared'
        /\ (\E k \in Receiver : AddressOf[k] = AddressOf[l] /\ Running(k)) => AddressOf[l] \in shared'
        /\ UNCHANGED <<queues, pending, wire>>
    BY <2>1, <2>2 DEF Starts, copyVars
  <2>4. wire[l] = <<>> /\ ~Running(l)
    BY <2>3 DEF OrderOK, FreshOK, Running
  <2>5. \A k \in Receiver : k # l => pc'[k] = pc[k] /\ (Running(k)' <=> Running(k))
    BY <1>0, <2>3 DEF Running
  <2>6. FreshOK'
    BY <1>0, <2>3 DEF OrderOK, FreshOK
  <2>7. ASSUME NEW a \in Address \ shared' PROVE OrderAt(a)' /\ AloneAt(a)'
    <3>1. OrderAt(a) /\ AloneAt(a) /\ \A k \in LoopsOf(a) : k \in Receiver /\ AddressOf[k] = a
      BY <2>3, <2>7 DEF OrderOK, LoopsOf
    <3>2. OrderAt(a)'
      BY <2>3, <3>1 DEF OrderAt, LoopsOf, Queued
    <3>3. ASSUME NEW j \in LoopsOf(a), NEW k \in LoopsOf(a), j # k, Running(k)'
          PROVE  ~Running(j)' /\ Before(Elems(wire[j]), Elems(wire[k]))
      <4>1. CASE k = l
        <5>1. \A x \in Receiver : AddressOf[x] = a => ~Running(x)
          BY <2>3, <2>7, <3>1, <4>1
        <5>2. Elems(wire[k]) = {}
          BY <2>4, <4>1, EmptySeq DEF Elems
        <5>3. QED BY <2>5, <3>1, <3>3, <4>1, <5>1, <5>2 DEF Before
      <4>2. CASE j = l
        BY <2>3, <2>5, <2>7, <3>1, <3>3, <4>2
      <4>3. CASE k # l /\ j # l
        BY <2>5, <3>1, <3>3, <4>3 DEF AloneAt
      <4>4. QED BY <4>1, <4>2, <4>3
    <3>4. AloneAt(a)'
      BY <2>3, <3>3 DEF AloneAt, LoopsOf
    <3>5. QED BY <3>2, <3>4
  <2>8. QED BY <2>6, <2>7 DEF OrderOK
<1>2. CASE NoStart
  <2>1. FreshOK'
    <3>1. ASSUME NEW l \in Receiver, pc'[l] \in {"new", "attaching"} PROVE wire'[l] = wire[l]
      <4>1. pc[l] \in {"new", "attaching"}
        BY <1>2, <3>1 DEF NoStart
      <4>2. CASE UNCHANGED copyVars
        BY <4>2 DEF copyVars
      <4>3. ASSUME NEW k \in Receiver, LoopDeliver(k) PROVE wire'[l] = wire[l]
        <5>1. k # l
          BY <4>1, <4>3 DEF LoopDeliver
        <5>2. wire' = [wire EXCEPT ![k] = Append(wire[k], pending[k])] \/ wire' = wire
          BY <4>3, DeliverMoves
        <5>3. QED BY <1>0, <5>1, <5>2 DEF CopyTypes
      <4>4. ASSUME NEW k \in Receiver, LoopReturn(k) PROVE wire'[l] = wire[l]
        BY <4>4, ReturnMoves
      <4>5. ASSUME NEW k \in Receiver, LoopDequeue(k), Dequeue(AddressOf[k]) PROVE wire'[l] = wire[l]
        BY <4>5, DequeueMoves
      <4>6. ASSUME NEW c \in Conn, NEW h \in Handle, Transfer(c, h) PROVE wire'[l] = wire[l]
        BY <4>6, TransferMoves
      <4>7. QED BY <4>2, <4>3, <4>4, <4>5, <4>6, MovingSteps
    <3>2. QED BY <1>2, <3>1 DEF NoStart, OrderOK, FreshOK
  <2>2. ASSUME NEW a \in Address \ shared' PROVE OrderAt(a)' /\ AloneAt(a)'
    <3>1. a \in Address /\ OrderAt(a) /\ AloneAt(a)
      BY <1>2, <2>2 DEF NoStart, OrderOK
    <3>2. CASE UNCHANGED copyVars
      <4>1. OrderAt(a)'
        BY <3>1, <3>2 DEF copyVars, OrderAt, LoopsOf, Queued
      <4>2. AloneAt(a)'
        BY <1>2, <3>1, <3>2 DEF copyVars, NoStart, AloneAt, LoopsOf
      <4>3. QED BY <4>1, <4>2
    <3>3. QED
      BY <3>1, <3>2, MovingSteps, TransferOrder, DequeueOrder, ReturnOrder, DeliverOrder
  <2>3. QED BY <2>1, <2>2 DEF OrderOK
<1>3. QED BY <1>1, <1>2, StartingSteps

(* However often an address's loop is detached with a message in hand and   *)
(* replaced, as long as one serves it at a time its clients get its         *)
(* messages in the order the broker took them.                              *)
THEOREM OrderKept == Spec => []InOrder
<1>1. ASSUME Init PROVE OrderOK
  <2>1. /\ \A a \in Address : queues[a] = <<>>
        /\ \A l \in Receiver : wire[l] = <<>> /\ pending[l] = NoMsg
    BY <1>1 DEF Init, BrokerInit
  <2>2. Elems(<<>>) = {} /\ Increasing(<<>>)
    BY EmptySeq DEF Elems, Increasing
  <2>3. FreshOK
    BY <2>1 DEF FreshOK
  <2>4. ASSUME NEW a \in Address PROVE OrderAt(a) /\ AloneAt(a)
    <3>1. \A l \in LoopsOf(a) : wire[l] = <<>> /\ pending[l] = NoMsg
      BY <2>1 DEF LoopsOf
    <3>2. \A S : Before({}, S) /\ Before(S, {})
      BY DEF Before
    <3>3. \A l \in Receiver : ~Running(l)
      BY <1>1 DEF Init, Running
    <3>4. OrderAt(a)
      BY <2>1, <2>2, <3>1, <3>2 DEF OrderAt, Queued
    <3>5. AloneAt(a)
      BY <3>3 DEF AloneAt, LoopsOf
    <3>6. QED BY <3>4, <3>5
  <2>5. QED BY <2>3, <2>4 DEF OrderOK
<1>2. OrderOK => InOrder
  BY OrderIsInOrder DEF OrderOK
<1>3. QED BY <1>1, <1>2, OrderStep, PlacesHolds, TypeInvHolds, PTL DEF Spec

-----------------------------------------------------------------------------
(* Fan-out.                                                                *)

(* A topic's registered addresses are subscriptions of it, and a receiver  *)
(* that has been attached to one of them has registered it.                *)
RegisteredOK ==
  /\ \A a \in Address : \A s \in topicSubs[a] : TopicOf[s] = a
  /\ \A l \in Receiver :
       AddressOf[l] \in Subscription /\ pc[l] # "new"
         => AddressOf[l] \in topicSubs[TopicOf[AddressOf[l]]]

LEMMA OnlyAttachRegisters ==
  ASSUME TypeInv, [Next]_vars
  PROVE  \/ \E c \in Conn, h \in Handle, l \in Receiver : Attach(c, h, l)
         \/ /\ topicSubs' = topicSubs
            /\ \A l \in Receiver : pc'[l] # "new" => pc[l] # "new"
<1> DEFINE Kept == /\ topicSubs' = topicSubs
                   /\ \A l \in Receiver : pc'[l] # "new" => pc[l] # "new"
<1>0. pc \in [Receiver -> LoopState] /\ AttachingOK
  BY DEF TypeInv, TypeOK
<1> USE <1>0 DEF vars, brokerVars, linkVars, loopVars, connVars, clientVars
<1>1. ASSUME NEW c \in Conn, NEW h \in Handle, NEW l \in Link, Attach(c, h, l), l \notin Receiver
      PROVE  Kept
  BY <1>1 DEF Attach
<1>2. ASSUME NEW c \in Conn, AttachEcho(c)
      PROVE  Kept
  <2>1. CASE reader[c].link \in Receiver
    <3>1. reader[c].link \notin Sender /\ pc[reader[c].link] = "attaching"
      BY <1>2, <2>1, ServiceBusAssumption DEF AttachEcho, AttachingOK
    <3>2. pc' = [pc EXCEPT ![reader[c].link] = "poll"] /\ topicSubs' = topicSubs
      BY <1>2, <3>1 DEF AttachEcho
    <3>3. QED BY <2>1, <3>1, <3>2
  <2>2. CASE reader[c].link \notin Receiver
    BY <1>2, <2>2 DEF AttachEcho
  <2>3. QED BY <2>1, <2>2
<1>3. ASSUME NEW c \in Conn, NEW h \in Handle, Transfer(c, h) \/ Drain(c, h)
      PROVE  Kept
  BY <1>3 DEF Transfer, Send, Drain, drainCredit
<1>4. ASSUME NEW c \in Conn, NEW h \in Handle, NEW n \in 1..MaxCredit, Flow(c, h, n)
      PROVE  Kept
  BY <1>4 DEF Flow, addCredit, Broadcast
<1>5. ASSUME NEW c \in Conn, NEW h \in Handle, Detach(c, h)
      PROVE  Kept
  BY <1>5 DEF Detach, closeLinks, Broadcast
<1>6. ASSUME NEW c \in Conn, NEW l \in Receiver, NEW m \in Msg, NEW o \in Outcome,
             Disposition(c, l, m, o)
      PROVE  Kept
  BY <1>6 DEF Disposition
<1>7. ASSUME NEW c \in Conn, DrainEcho(c) \/ Drop(c) \/ NetClose(c)
      PROVE  Kept
  BY <1>7 DEF DrainEcho, Drop, NetClose
<1>8. ASSUME NEW c \in Conn, StopServing(c)
      PROVE  Kept
  BY <1>8 DEF StopServing, closeLinks, Broadcast
<1>9. ASSUME NEW l \in Receiver, deliverLoop(l)
      PROVE  Kept
  <2>1. topicSubs' = topicSubs
    BY <1>9 DEF deliverLoop, LoopDequeue, LoopWaitChan, LoopWake, LoopQuit, takeCredit,
                LoopReturn, LoopDeliver, Dequeue, WaitChan, Requeue
  <2>2. pc[l] # "new" /\ \E place \in LoopState : pc' = [pc EXCEPT ![l] = place]
    BY <1>9 DEF deliverLoop, LoopDequeue, LoopWaitChan, LoopWake, LoopQuit, takeCredit,
                LoopReturn, LoopDeliver, LoopState
  <2>3. QED BY <2>1, <2>2
<1>10. CASE UNCHANGED vars
  BY <1>10
<1>11. QED
  BY <1>1, <1>2, <1>3, <1>4, <1>5, <1>6, <1>7, <1>8, <1>9, <1>10
     DEF Next, Client, Serve

LEMMA RegisteredStep == TypeInv /\ RegisteredOK /\ [Next]_vars => RegisteredOK'
<1> SUFFICES ASSUME TypeInv, RegisteredOK, [Next]_vars PROVE RegisteredOK'
  OBVIOUS
<1>0. /\ topicSubs \in [Address -> SUBSET Subscription] /\ pc \in [Receiver -> LoopState]
      /\ AddressOf \in [Receiver \cup Sender -> Address]
      /\ TopicOf \in [Subscription -> Address]
      /\ Subscription \subseteq Address
  BY BrokerAssumption, ServiceBusAssumption DEF TypeInv, TypeOK
<1>1. ASSUME NEW c \in Conn, NEW h \in Handle, NEW l \in Receiver, Attach(c, h, l)
      PROVE  RegisteredOK'
  <2>1. RegisterSubscription(AddressOf[l]) /\ pc' = [pc EXCEPT ![l] = "attaching"]
    BY <1>1, ServiceBusAssumption DEF Attach
  <2>2. CASE AddressOf[l] \in Subscription
    <3>1. topicSubs' = [topicSubs EXCEPT ![TopicOf[AddressOf[l]]] = @ \cup {AddressOf[l]}]
      BY <2>1, <2>2 DEF RegisterSubscription
    <3>2. \A a \in Address : \A s \in topicSubs'[a] : TopicOf[s] = a
      BY <1>0, <3>1, <2>2 DEF RegisteredOK
    <3>3. ASSUME NEW k \in Receiver, AddressOf[k] \in Subscription, pc'[k] # "new"
          PROVE  AddressOf[k] \in topicSubs'[TopicOf[AddressOf[k]]]
      <4>1. CASE k = l
        BY <1>0, <3>1, <2>2, <4>1
      <4>2. CASE k # l
        <5>1. AddressOf[k] \in topicSubs[TopicOf[AddressOf[k]]]
          BY <1>0, <2>1, <3>3, <4>2 DEF RegisteredOK
        <5>2. QED BY <1>0, <3>1, <3>3, <5>1
      <4>3. QED BY <4>1, <4>2
    <3>4. QED BY <3>2, <3>3 DEF RegisteredOK
  <2>3. CASE AddressOf[l] \notin Subscription
    <3>1. topicSubs' = topicSubs
      BY <2>1, <2>3 DEF RegisterSubscription
    <3>2. QED BY <1>0, <2>1, <2>3, <3>1 DEF RegisteredOK
  <2>4. QED BY <2>2, <2>3
<1>2. CASE /\ topicSubs' = topicSubs
           /\ \A l \in Receiver : pc'[l] # "new" => pc[l] # "new"
  BY <1>2 DEF RegisteredOK
<1>3. QED BY <1>1, <1>2, OnlyAttachRegisters

(* If clients send to no subscription's own address, a message published   *)
(* to a topic goes to every subscription a receiver was ever attached to,  *)
(* and past the topic's own queue (RegisterSubscription before the echo).  *)
THEOREM TopicsFanOut == (\A s \in Sender : AddressOf[s] \notin Subscription) => (Spec => FanOut)
<1> SUFFICES ASSUME \A s \in Sender : AddressOf[s] \notin Subscription
             PROVE  Spec => FanOut
  OBVIOUS
<1>1. Init => RegisteredOK
  BY ServiceBusAssumption DEF Init, BrokerInit, RegisteredOK
<1>2. ASSUME TypeInv, PlacesOK, RegisteredOK, [Next]_vars,
             NEW l \in Receiver,
             AddressOf[l] \in Subscription, pc[l] \notin {"new", "attaching"},
             \/ Gets(TopicOf[AddressOf[l]])
             \/ \E s \in Subscription : TopicOf[s] = TopicOf[AddressOf[l]] /\ Gets(s)
      PROVE  Gets(AddressOf[l]) /\ ~Gets(TopicOf[AddressOf[l]])
  <2>0. /\ TopicOf[AddressOf[l]] \in Address /\ TopicOf[AddressOf[l]] \notin Subscription
        /\ AddressOf[l] \in topicSubs[TopicOf[AddressOf[l]]]
        /\ topicSubs \in [Address -> SUBSET Subscription]
        /\ Subscription \subseteq Address
    BY <1>2, BrokerAssumption DEF RegisteredOK, TypeInv, TypeOK
  <2>1. PICK c \in Conn, h \in Handle : Transfer(c, h)
    <3>1. enqueued' # enqueued
      BY <1>2, <2>0 DEF Gets
    <3>2. \A k \in Receiver : (LoopDequeue(k) \/ LoopReturn(k) \/ LoopDeliver(k))
                                => enqueued' = enqueued
      BY DEF LoopDequeue, LoopReturn, LoopDeliver, clientVars
    <3>3. QED BY <1>2, <3>1, <3>2, MovingSteps DEF copyVars
  <2>2. PICK x : x = AddressOf[table[c][h]]
    OBVIOUS
  <2>3. x \in Address /\ x \notin Subscription
    BY <2>1, <2>2, ServiceBusAssumption DEF Transfer
  <2>4. enqueued' = [a \in Address |-> IF a \in Targets(x) THEN enqueued[a] \cup {sent + 1}
                                       ELSE enqueued[a]]
    BY <2>1, <2>2 DEF Transfer
  <2>5. \A a \in Address : Gets(a) <=> a \in Targets(x)
    <3>1. sent \in Nat /\ enqueued \in [Address -> SUBSET Msg]
      BY <1>2, ServiceBusAssumption DEF TypeInv, TypeOK
    <3>2. \A a \in Address : sent + 1 \notin enqueued[a]
      BY <1>2, <3>1 DEF PlacesOK, Accounted
    <3>3. QED BY <2>4, <3>1, <3>2 DEF Gets
  <2>6. topicSubs[x] # {}
    <3>1. CASE Gets(TopicOf[AddressOf[l]])
      BY <2>0, <2>3, <2>5, <3>1 DEF Targets
    <3>2. CASE \E s \in Subscription : TopicOf[s] = TopicOf[AddressOf[l]] /\ Gets(s)
      BY <2>0, <2>3, <2>5, <3>2 DEF Targets
    <3>3. QED BY <1>2, <3>1, <3>2
  <2>7. Targets(x) = topicSubs[x] /\ Targets(x) \subseteq Subscription
    BY <2>0, <2>3, <2>6 DEF Targets
  <2>8. \A s \in Targets(x) : TopicOf[s] = x
    BY <1>2, <2>3, <2>7 DEF RegisteredOK
  <2>9. x = TopicOf[AddressOf[l]]
    BY <1>2, <2>0, <2>5, <2>7, <2>8
  <2>10. QED BY <2>0, <2>5, <2>7, <2>9
<1>3. TypeInv /\ PlacesOK /\ RegisteredOK /\ [Next]_vars
        => [\A l \in Receiver :
              /\ AddressOf[l] \in Subscription
              /\ pc[l] \notin {"new", "attaching"}
              /\ \/ Gets(TopicOf[AddressOf[l]])
                 \/ \E s \in Subscription : TopicOf[s] = TopicOf[AddressOf[l]] /\ Gets(s)
              => Gets(AddressOf[l]) /\ ~Gets(TopicOf[AddressOf[l]])]_vars
  BY <1>2
<1>4. QED BY <1>1, <1>3, RegisteredStep, TypeInvHolds, PlacesHolds, PTL DEF Spec, FanOut
=============================================================================
