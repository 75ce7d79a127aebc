------------------------------ MODULE EventGrid ------------------------------
(***************************************************************************)
(* Pull delivery of the Event Grid emulator: one topic of                  *)
(* internal/stores/egstore/store.go and types.go (topics share nothing but *)
(* the store's mutex).  Every operation runs under that mutex, so each is  *)
(* one action.  The n-th event published is event n; a subscription has    *)
(* one delivery record of each event, whose fields are deliveryCount and   *)
(* lockDeadline below.  Locks expire lazily, when somebody receives.       *)
(***************************************************************************)
EXTENDS Integers, Sequences, FiniteSets

CONSTANTS
  Sub,           \* the subscription names of the topic
  LockDuration,  \* Store.lockDuration, in ticks of the clock
  MaxEvent,      \* bound: the events published
  MaxToken,      \* bound: the lock tokens handed out
  MaxTime,       \* bound: the clock
  MaxBatch       \* bound: events per publish, events per receive, tokens per request

ASSUME EventGridAssumption ==
  /\ LockDuration \in Nat /\ MaxEvent \in Nat /\ MaxToken \in Nat
  /\ MaxTime \in Nat /\ MaxBatch \in Nat

Event == 1..MaxEvent
Token == 1..MaxToken
NoEvent == 0
ZeroTime == 0          \* time.Time{}; the clock starts after it

VARIABLES
  published,      \* topic.backlog holds the events 1..published
  subs,           \* topic.subs: the subscriptions that exist
  available,      \* subscription.available
  locked,         \* subscription.locked: the event under each token, or NoEvent
  deliveryCount,
  lockDeadline,
  issued,         \* the tokens 1..issued have been handed out (newLockToken)
  now,            \* the clock
  resolved        \* the events each subscription acknowledged or rejected; the
                  \* code forgets them

vars == <<published, subs, available, locked, deliveryCount, lockDeadline,
          issued, now, resolved>>

Init ==
  /\ published = 0
  /\ subs = {}
  /\ available = [s \in Sub |-> <<>>]
  /\ locked = [s \in Sub |-> [t \in Token |-> NoEvent]]
  /\ deliveryCount = [s \in Sub |-> [e \in Event |-> 0]]
  /\ lockDeadline = [s \in Sub |-> [e \in Event |-> ZeroTime]]
  /\ issued = 0
  /\ now = 1
  /\ resolved = [s \in Sub |-> {}]

-----------------------------------------------------------------------------
(* getSub: a subscription referenced for the first time starts with the    *)
(* whole backlog.                                                          *)
MutNumbersFromBefore(first, last) == [i \in 1..(last - first + 1) |-> first + i - 2]

Numbers(first, last) == [i \in 1..(last - first + 1) |-> first + i - 1]

AvailableIn(s) == IF s \in subs THEN available[s] ELSE Numbers(1, published)

(* sweepExpired: the deliveries whose deadline has passed, in the order in *)
(* which Go happens to iterate the map.                                    *)
Held(s) == {locked[s][t] : t \in Token} \ {NoEvent}

MutExpiredAtDeadline(s) == {e \in Held(s) : now >= lockDeadline[s][e]}

Expired(s) == {e \in Held(s) : now > lockDeadline[s][e]}

Orderings(S) ==
  {f \in [1..Cardinality(S) -> S] :
     /\ \A e \in S : \E i \in 1..Cardinality(S) : f[i] = e
     /\ \A i, j \in 1..Cardinality(S) : f[i] = f[j] => i = j}

(* Publish: to the backlog and to every existing subscription.             *)
MutPublishInFront(k) ==
  /\ published + k <= MaxEvent
  /\ published' = published + k
  /\ available' = [s \in Sub |->
       IF s \in subs THEN Numbers(published + 1, published + k) \o available[s]
       ELSE available[s]]
  /\ UNCHANGED <<subs, locked, deliveryCount, lockDeadline, issued, now, resolved>>

Publish(k) ==
  /\ published + k <= MaxEvent
  /\ published' = published + k
  /\ available' = [s \in Sub |->
       IF s \in subs THEN available[s] \o Numbers(published + 1, published + k)
       ELSE available[s]]
  /\ UNCHANGED <<subs, locked, deliveryCount, lockDeadline, issued, now, resolved>>

(* newLockToken: the first token not handed out yet.                       *)
MutFirstTokenAgain == IF issued > 0 THEN issued ELSE 1

FirstToken == issued + 1

(* Receive: sweep, then lock up to max events from the front, each under a *)
(* fresh token.                                                            *)
Receive(s, max) ==
  \E order \in Orderings(Expired(s)) :
    LET queue == AvailableIn(s) \o order
        n == IF max < Len(queue) THEN max ELSE Len(queue)
        out == {queue[i] : i \in 1..n}
        fresh == FirstToken .. FirstToken + n - 1
    IN
    /\ issued + n <= MaxToken
    /\ subs' = subs \cup {s}
    /\ available' = [available EXCEPT ![s] = SubSeq(queue, n + 1, Len(queue))]
    /\ locked' = [locked EXCEPT ![s] = [t \in Token |->
         CASE t \in fresh -> queue[t - FirstToken + 1]
           [] t \notin fresh /\ @[t] \in Expired(s) -> NoEvent
           [] OTHER -> @[t]]]
    /\ deliveryCount' = [deliveryCount EXCEPT ![s] = [e \in Event |->
         IF e \in out THEN @[e] + 1 ELSE @[e]]]
    /\ lockDeadline' = [lockDeadline EXCEPT ![s] = [e \in Event |->
         CASE e \in out -> now + LockDuration
           [] e \notin out /\ e \in Expired(s) -> ZeroTime
           [] OTHER -> @[e]]]
    /\ issued' = FirstToken + n - 1
    /\ UNCHANGED <<published, now, resolved>>

(* resolve: the tokens that are still good are unlocked; onRemove then     *)
(* does nothing (Acknowledge, Reject) or puts the delivery at the back     *)
(* (Release), in the order of the request.  A stale token only fails, and  *)
(* so does the second occurrence of a good one.                            *)
Named(s, tokens) == {locked[s][tokens[i]] : i \in DOMAIN tokens} \ {NoEvent}

Unlock(s, tokens) ==
  locked' = [locked EXCEPT ![s] = [t \in Token |->
    IF \E i \in DOMAIN tokens : tokens[i] = t THEN NoEvent ELSE @[t]]]

InRequestOrder(s, tokens, order) ==
  LET FirstAt(e) == CHOOSE i \in DOMAIN tokens :
                      /\ locked[s][tokens[i]] = e
                      /\ \A j \in 1..(i - 1) : locked[s][tokens[j]] # e
  IN \A i, j \in DOMAIN order : i < j => FirstAt(order[i]) < FirstAt(order[j])

Acknowledge(s, tokens) ==
  /\ subs' = subs \cup {s}
  /\ available' = [available EXCEPT ![s] = AvailableIn(s)]
  /\ Unlock(s, tokens)
  /\ resolved' = [resolved EXCEPT ![s] = @ \cup Named(s, tokens)]
  /\ UNCHANGED <<published, deliveryCount, lockDeadline, issued, now>>

MutReleaseRepeats(s, tokens) ==
  /\ subs' = subs \cup {s}
  /\ available' = [available EXCEPT ![s] = AvailableIn(s) \o
       SelectSeq([i \in DOMAIN tokens |-> locked[s][tokens[i]]], LAMBDA e : e # NoEvent)]
  /\ Unlock(s, tokens)
  /\ UNCHANGED <<published, deliveryCount, lockDeadline, issued, now, resolved>>

Release(s, tokens) ==
  \E order \in Orderings(Named(s, tokens)) :
    /\ InRequestOrder(s, tokens, order)
    /\ subs' = subs \cup {s}
    /\ available' = [available EXCEPT ![s] = AvailableIn(s) \o order]
    /\ Unlock(s, tokens)
    /\ UNCHANGED <<published, deliveryCount, lockDeadline, issued, now, resolved>>

(* RenewLocks: also of a lock that has expired but was not swept yet.      *)
RenewLocks(s, tokens) ==
  /\ subs' = subs \cup {s}
  /\ available' = [available EXCEPT ![s] = AvailableIn(s)]
  /\ lockDeadline' = [lockDeadline EXCEPT ![s] = [e \in Event |->
       IF e \in Named(s, tokens) THEN now + LockDuration ELSE @[e]]]
  /\ UNCHANGED <<published, locked, deliveryCount, issued, now, resolved>>

Tick ==
  /\ now < MaxTime
  /\ now' = now + 1
  /\ UNCHANGED <<published, subs, available, locked, deliveryCount, lockDeadline,
                 issued, resolved>>

(* What a request may name: tokens handed out, whoever holds them now, and *)
(* tokens never handed out; in any order, with repetitions.                *)
Requests == UNION {[1..n -> Token] : n \in 0..MaxBatch}

Next ==
  \/ \E k \in 1..MaxBatch : Publish(k)
  \/ \E s \in Sub, max \in 1..MaxBatch : Receive(s, max)
  \/ \E s \in Sub, tokens \in Requests :
       \/ Acknowledge(s, tokens)
       \/ Release(s, tokens)
       \/ RenewLocks(s, tokens)
  \/ Tick

Spec == Init /\ [][Next]_vars

-----------------------------------------------------------------------------
(* Properties.                                                             *)

(* The variables are in range; a token of one subscription may be tried on *)
(* another, so every subscription has a value for every token.             *)
TypeOK ==
  /\ published \in 0..MaxEvent
  /\ subs \subseteq Sub
  /\ available \in [Sub -> Seq(Event)]
  /\ locked \in [Sub -> [Token -> Event \cup {NoEvent}]]
  /\ deliveryCount \in [Sub -> [Event -> Nat]]
  /\ lockDeadline \in [Sub -> [Event -> Nat]]
  /\ issued \in 0..MaxToken
  /\ now \in Nat
  /\ resolved \in [Sub -> SUBSET Event]

(* Each event of the backlog is, for each subscription that exists, in     *)
(* exactly one place: once in available, under exactly one token, or       *)
(* resolved - through late creation, lazy expiry, releases with repeated   *)
(* or stale tokens and redelivery (store.go Receive, resolve,              *)
(* sweepExpired).  Events not yet published are nowhere.                   *)
Waiting(s) == {available[s][i] : i \in 1..Len(available[s])}

NoRepeats(q) == \A i, j \in 1..Len(q) : q[i] = q[j] => i = j

OneToken(s) == \A t, u \in Token : locked[s][t] = locked[s][u] /\ locked[s][t] # NoEvent => t = u

ExactlyOnePlace ==
  \A s \in subs :
    /\ NoRepeats(available[s])
    /\ OneToken(s)
    /\ Waiting(s) \cup Held(s) \cup resolved[s] = 1..published
    /\ Waiting(s) \cap Held(s) = {}
    /\ Waiting(s) \cap resolved[s] = {}
    /\ Held(s) \cap resolved[s] = {}

(* An event not handed out before is never handed out ahead of an older    *)
(* one, whatever is released or expires around it: both go to the back     *)
(* (store.go resolve, sweepExpired).                                       *)
FreshInOrder ==
  \A s \in subs : \A d, e \in 1..published :
    d < e /\ deliveryCount[s][e] > 0 => deliveryCount[s][d] > 0

(* A lock that has not expired is honoured: only a request that names its  *)
(* token ends it, never a Receive and never a request with other tokens.   *)
LockHonoured ==
  [][\A s \in Sub : \A t \in Token :
       LET e == locked[s][t] IN
       e # NoEvent /\ now <= lockDeadline[s][e] /\ locked'[s][t] # e =>
         \E tokens \in Requests :
           /\ \E i \in DOMAIN tokens : tokens[i] = t
           /\ Acknowledge(s, tokens) \/ Release(s, tokens)]_vars

(* A token that was handed out and has lost its event, to expiry or to a   *)
(* request, never works again, so a slow consumer cannot settle a          *)
(* redelivery it does not know of (server.go: "already been resolved").    *)
TokenLost ==
  [][\A s \in Sub : \A t \in 1..issued :
       locked[s][t] = NoEvent => locked'[s][t] = NoEvent]_vars
=============================================================================
