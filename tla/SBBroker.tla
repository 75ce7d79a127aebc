------------------------------ MODULE SBBroker ------------------------------
(***************************************************************************)
(* The in-memory message broker of the Service Bus emulator,               *)
(* internal/stores/sbstore/broker.go.  Every exported method runs under    *)
(* one mutex, so each is one action on the broker's three maps.  The       *)
(* module has no next-state relation of its own: the broker is passive and *)
(* ServiceBus.tla calls it from the goroutines of the AMQP server.         *)
(***************************************************************************)
EXTENDS Integers, Sequences

CONSTANTS
  Address,       \* every node address: queues, topics and subscriptions
  Subscription,  \* those of the form "<topic>/subscriptions/<name>"
  TopicOf,       \* the "<topic>" part of each subscription address
  Receiver       \* the delivery loops that may wait on the broker

\* A topic is what precedes the first infix of an address, so it has none itself.
ASSUME BrokerAssumption ==
  /\ Subscription \subseteq Address
  /\ TopicOf \in [Subscription -> Address \ Subscription]

VARIABLES
  queues,     \* Broker.queues: the messages waiting at each address, oldest first
  topicSubs,  \* Broker.topicSubs: the subscriptions registered for each address
  waiters     \* Broker.waiters: the loops whose channel is registered, still open

brokerVars == <<queues, topicSubs, waiters>>

BrokerInit ==
  /\ queues = [a \in Address |-> <<>>]
  /\ topicSubs = [a \in Address |-> {}]
  /\ waiters = [a \in Address |-> {}]

-----------------------------------------------------------------------------
(* The addresses one Send enqueues to: the registered subscriptions of a   *)
(* topic, or the address itself.                                           *)
Targets(a) == IF topicSubs[a] # {} THEN topicSubs[a] ELSE {a}

(* notifyLocked: close every channel registered for the addresses in A.    *)
Notify(A) == waiters' = [x \in Address |-> IF x \in A THEN {} ELSE waiters[x]]

(* RegisterSubscription: an address without the infix is ignored.          *)
MutRegisterReplaces(a) ==
  /\ topicSubs' = IF a \in Subscription
                  THEN [topicSubs EXCEPT ![TopicOf[a]] = {a}]
                  ELSE topicSubs
  /\ UNCHANGED <<queues, waiters>>

RegisterSubscription(a) ==
  /\ topicSubs' = IF a \in Subscription
                  THEN [topicSubs EXCEPT ![TopicOf[a]] = @ \cup {a}]
                  ELSE topicSubs
  /\ UNCHANGED <<queues, waiters>>

(* Send with enqueueLocked: the loop over the subscriptions runs under one *)
(* lock, so every copy appears at once.                                    *)
Send(a, m) ==
  /\ queues' = [x \in Address |-> IF x \in Targets(a) THEN Append(queues[x], m)
                                  ELSE queues[x]]
  /\ Notify(Targets(a))
  /\ UNCHANGED topicSubs

(* Dequeue of a non-empty queue; on an empty one it returns nil and        *)
(* changes nothing.                                                        *)
Dequeue(a) ==
  /\ queues[a] # <<>>
  /\ queues' = [queues EXCEPT ![a] = Tail(@)]
  /\ UNCHANGED <<topicSubs, waiters>>

(* Requeue: back to the front, and whoever waits is told.                  *)
MutRequeueAtBack(a, m) ==
  /\ queues' = [queues EXCEPT ![a] = Append(@, m)]
  /\ Notify({a})
  /\ UNCHANGED topicSubs

Requeue(a, m) ==
  /\ queues' = [queues EXCEPT ![a] = <<m>> \o @]
  /\ Notify({a})
  /\ UNCHANGED topicSubs

(* WaitChan by loop l: under the lock, either the queue has data and the   *)
(* returned channel is already closed (l is not in waiters), or l's open   *)
(* channel is registered.                                                  *)
MutWaitChanUnchecked(a, l) ==
  /\ waiters' = [waiters EXCEPT ![a] = @ \cup {l}]
  /\ UNCHANGED <<queues, topicSubs>>

WaitChan(a, l) ==
  /\ waiters' = IF queues[a] = <<>> THEN [waiters EXCEPT ![a] = @ \cup {l}]
                ELSE waiters
  /\ UNCHANGED <<queues, topicSubs>>

=============================================================================
