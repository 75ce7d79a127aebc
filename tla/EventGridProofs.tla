-------------------------- MODULE EventGridProofs --------------------------
(***************************************************************************)
(* What EventGrid promises for every number of subscriptions, events,      *)
(* tokens and ticks.  The argument is one inductive invariant, Inv: seen   *)
(* through AvailableIn, a subscription nobody has used yet is already      *)
(* partitioned into available, locked and resolved events - all of the     *)
(* backlog is available -, so its late creation preserves the partition.   *)
(***************************************************************************)
EXTENDS EventGrid, FiniteSetTheorems, SequenceTheorems, TLAPS

Elements(q) == {q[i] : i \in 1..Len(q)}

(* Where the events of subscription s are, whether it exists or not.       *)
Partitioned(s) ==
  /\ NoRepeats(AvailableIn(s))
  /\ OneToken(s)
  /\ Elements(AvailableIn(s)) \cup Held(s) \cup resolved[s] = 1..published
  /\ Elements(AvailableIn(s)) \cap Held(s) = {}
  /\ Elements(AvailableIn(s)) \cap resolved[s] = {}
  /\ Held(s) \cap resolved[s] = {}

(* A token not handed out yet holds nothing.                               *)
FreshTokens == \A s \in Sub : \A t \in Token : t > issued => locked[s][t] = NoEvent

Inv == TypeOK /\ FreshTokens /\ \A s \in Sub : Partitioned(s)

-----------------------------------------------------------------------------
(* Sequences.                                                              *)

(* Numbers(m, n) lists m..n in order.                                      *)
LEMMA NumbersProperties ==
  ASSUME NEW m \in Nat \ {0}, NEW n \in Nat, n <= MaxEvent, m <= n + 1
  PROVE  /\ Numbers(m, n) \in Seq(Event)
         /\ Len(Numbers(m, n)) = n - m + 1
         /\ \A i \in 1..(n - m + 1) : Numbers(m, n)[i] = m + i - 1
         /\ Elements(Numbers(m, n)) = m..n
         /\ NoRepeats(Numbers(m, n))
<1> USE EventGridAssumption
<1>1. n - m + 1 \in Nat
  OBVIOUS
<1>2. \A i \in 1..(n - m + 1) : m + i - 1 \in Event
  BY DEF Event
<1>3. Numbers(m, n) \in Seq(Event)
  BY <1>1, <1>2 DEF Numbers
<1>4. Len(Numbers(m, n)) = n - m + 1
  BY <1>1 DEF Numbers
<1>5. \A i \in 1..(n - m + 1) : Numbers(m, n)[i] = m + i - 1
  BY DEF Numbers
<1>6. Elements(Numbers(m, n)) = m..n
  <2>1. ASSUME NEW e \in m..n PROVE e \in Elements(Numbers(m, n))
    <3>1. e - m + 1 \in 1..(n - m + 1) /\ m + (e - m + 1) - 1 = e
      OBVIOUS
    <3>2. QED BY <3>1, <1>4, <1>5 DEF Elements
  <2>2. ASSUME NEW e \in Elements(Numbers(m, n)) PROVE e \in m..n
    BY <1>4, <1>5 DEF Elements
  <2>3. QED BY <2>1, <2>2
<1>7. NoRepeats(Numbers(m, n))
  BY <1>4, <1>5 DEF NoRepeats
<1>8. QED BY <1>3, <1>4, <1>5, <1>6, <1>7

(* The backlog after k more events is the backlog and the k events.        *)
LEMMA NumbersJoin ==
  ASSUME NEW n \in Nat, NEW k \in Nat, n + k <= MaxEvent
  PROVE  Numbers(1, n + k) = Numbers(1, n) \o Numbers(n + 1, n + k)
<1> DEFINE whole == Numbers(1, n + k)
           old == Numbers(1, n)
           new == Numbers(n + 1, n + k)
<1>1. /\ whole \in Seq(Event) /\ Len(whole) = n + k
      /\ \A i \in 1..(n + k) : whole[i] = i
  <2>1. 1 \in Nat \ {0} /\ n + k \in Nat /\ 1 <= (n + k) + 1
    OBVIOUS
  <2>2. /\ whole \in Seq(Event) /\ Len(whole) = (n + k) - 1 + 1
        /\ \A i \in 1..((n + k) - 1 + 1) : whole[i] = 1 + i - 1
    BY <2>1, NumbersProperties
  <2>3. QED BY <2>2
<1>2. /\ old \in Seq(Event) /\ Len(old) = n
      /\ \A i \in 1..n : old[i] = i
  <2>1. 1 \in Nat \ {0} /\ 1 <= n + 1 /\ n <= MaxEvent
    BY EventGridAssumption
  <2>2. /\ old \in Seq(Event) /\ Len(old) = n - 1 + 1
        /\ \A i \in 1..(n - 1 + 1) : old[i] = 1 + i - 1
    BY <2>1, NumbersProperties
  <2>3. QED BY <2>2
<1>3. /\ new \in Seq(Event) /\ Len(new) = k
      /\ \A i \in 1..k : new[i] = n + i
  <2>1. n + 1 \in Nat \ {0} /\ n + k \in Nat /\ n + 1 <= (n + k) + 1
    OBVIOUS
  <2>2. /\ new \in Seq(Event) /\ Len(new) = (n + k) - (n + 1) + 1
        /\ \A i \in 1..((n + k) - (n + 1) + 1) : new[i] = (n + 1) + i - 1
    BY <2>1, NumbersProperties
  <2>3. QED BY <2>2
<1> HIDE DEF whole, old, new
<1>4. /\ old \o new \in Seq(Event)
      /\ Len(old \o new) = n + k
      /\ \A i \in 1..(n + k) : (old \o new)[i] = IF i <= n THEN old[i] ELSE new[i - n]
  <2>1. /\ old \o new \in Seq(Event)
        /\ Len(old \o new) = Len(old) + Len(new)
        /\ \A i \in 1..(Len(old) + Len(new)) :
             (old \o new)[i] = IF i <= Len(old) THEN old[i] ELSE new[i - Len(old)]
    BY <1>2, <1>3, ConcatProperties
  <2>2. QED BY <2>1, <1>2, <1>3
<1>5. \A i \in 1..(n + k) : (old \o new)[i] = whole[i]
  <2> TAKE i \in 1..(n + k)
  <2>1. CASE i <= n
    BY <2>1, <1>1, <1>2, <1>4
  <2>2. CASE ~(i <= n)
    <3>1. i - n \in 1..k /\ n + (i - n) = i
      BY <2>2
    <3>2. QED BY <2>2, <3>1, <1>1, <1>3, <1>4
  <2>3. QED BY <2>1, <2>2
<1>6. whole = old \o new
  BY <1>1, <1>4, <1>5, SeqEqual
<1>7. QED BY <1>6 DEF whole, old, new

(* Appending adds the elements, and no repetition if they are new.         *)
LEMMA Concatenation ==
  ASSUME NEW S, NEW q \in Seq(S), NEW r \in Seq(S)
  PROVE  /\ q \o r \in Seq(S)
         /\ Elements(q \o r) = Elements(q) \cup Elements(r)
         /\ NoRepeats(q) /\ NoRepeats(r) /\ Elements(q) \cap Elements(r) = {}
              => NoRepeats(q \o r)
<1>1. /\ q \o r \in Seq(S)
      /\ Len(q \o r) = Len(q) + Len(r)
      /\ \A i \in 1..(Len(q) + Len(r)) :
           (q \o r)[i] = IF i <= Len(q) THEN q[i] ELSE r[i - Len(q)]
  BY ConcatProperties
<1>2. Len(q) \in Nat /\ Len(r) \in Nat
  OBVIOUS
<1>3. \A i \in 1..Len(q) : (q \o r)[i] = q[i]
  BY <1>1, <1>2
<1>4. \A i \in 1..Len(r) : i + Len(q) \in 1..Len(q \o r) /\ (q \o r)[i + Len(q)] = r[i]
  BY <1>1, <1>2
<1>5. ASSUME NEW e \in Elements(q \o r) PROVE e \in Elements(q) \cup Elements(r)
  <2>1. PICK i \in 1..(Len(q) + Len(r)) : e = (q \o r)[i]
    BY <1>1 DEF Elements
  <2>2. CASE i <= Len(q)
    BY <2>1, <2>2, <1>2, <1>3 DEF Elements
  <2>3. CASE ~(i <= Len(q))
    <3>1. i - Len(q) \in 1..Len(r) /\ e = r[i - Len(q)]
      BY <2>1, <2>3, <1>1, <1>2
    <3>2. QED BY <3>1 DEF Elements
  <2>4. QED BY <2>2, <2>3
<1>6. ASSUME NEW e \in Elements(q) PROVE e \in Elements(q \o r)
  <2>1. PICK i \in 1..Len(q) : e = q[i]
    BY DEF Elements
  <2>2. i \in 1..Len(q \o r) /\ (q \o r)[i] = e
    BY <2>1, <1>1, <1>2, <1>3
  <2>3. QED BY <2>2 DEF Elements
<1>7. ASSUME NEW e \in Elements(r) PROVE e \in Elements(q \o r)
  BY <1>4 DEF Elements
<1>8. ASSUME NoRepeats(q), NoRepeats(r), Elements(q) \cap Elements(r) = {}
      PROVE  NoRepeats(q \o r)
  <2> SUFFICES ASSUME NEW i \in 1..(Len(q) + Len(r)), NEW j \in 1..(Len(q) + Len(r)),
                      (q \o r)[i] = (q \o r)[j]
               PROVE  i = j
    BY <1>1 DEF NoRepeats
  <2>1. CASE i <= Len(q) /\ j <= Len(q)
    BY <2>1, <1>2, <1>3, <1>8 DEF NoRepeats
  <2>2. CASE ~(i <= Len(q)) /\ ~(j <= Len(q))
    <3>1. i - Len(q) \in 1..Len(r) /\ j - Len(q) \in 1..Len(r)
      BY <2>2, <1>2
    <3>2. r[i - Len(q)] = r[j - Len(q)]
      BY <2>2, <1>1
    <3>3. i - Len(q) = j - Len(q)
      BY <3>1, <3>2, <1>8 DEF NoRepeats
    <3>4. QED BY <3>3, <1>2
  <2>3. CASE i <= Len(q) /\ ~(j <= Len(q))
    <3>1. i \in 1..Len(q) /\ j - Len(q) \in 1..Len(r) /\ q[i] = r[j - Len(q)]
      BY <2>3, <1>1, <1>2
    <3>2. QED BY <3>1, <1>8 DEF Elements
  <2>4. CASE ~(i <= Len(q)) /\ j <= Len(q)
    <3>1. j \in 1..Len(q) /\ i - Len(q) \in 1..Len(r) /\ q[j] = r[i - Len(q)]
      BY <2>4, <1>1, <1>2
    <3>2. QED BY <3>1, <1>8 DEF Elements
  <2>5. QED BY <2>1, <2>2, <2>3, <2>4
<1>9. QED BY <1>1, <1>5, <1>6, <1>7, <1>8

(* Taking n elements off the front splits the elements in two.             *)
LEMMA Splitting ==
  ASSUME NEW S, NEW q \in Seq(S), NEW n \in 0..Len(q), NoRepeats(q)
  PROVE  LET rest == SubSeq(q, n + 1, Len(q))
             out == {q[i] : i \in 1..n}
         IN /\ rest \in Seq(S)
            /\ NoRepeats(rest)
            /\ Elements(rest) \cap out = {}
            /\ Elements(rest) \cup out = Elements(q)
<1> DEFINE rest == SubSeq(q, n + 1, Len(q))
           out == {q[i] : i \in 1..n}
<1>1. Len(q) \in Nat /\ n \in Nat /\ n <= Len(q)
  OBVIOUS
<1>2. \A i \in (n + 1)..Len(q) : q[i] \in S
  BY <1>1
<1>3. /\ rest \in Seq(S)
      /\ Len(rest) = Len(q) - n
      /\ \A i \in 1..(Len(q) - n) : rest[i] = q[n + i]
  <2>1. /\ rest \in Seq(S)
        /\ Len(rest) = IF n + 1 <= Len(q) THEN Len(q) - (n + 1) + 1 ELSE 0
        /\ \A i \in 1..(Len(q) - (n + 1) + 1) : rest[i] = q[(n + 1) + i - 1]
    BY <1>1, <1>2, SubSeqProperties
  <2>2. QED BY <2>1, <1>1
<1> HIDE DEF rest
<1>4. Elements(rest) = {q[i] : i \in (n + 1)..Len(q)}
  <2>1. ASSUME NEW i \in (n + 1)..Len(q) PROVE q[i] \in Elements(rest)
    <3>1. i - n \in 1..Len(rest) /\ rest[i - n] = q[i]
      BY <1>1, <1>3
    <3>2. QED BY <3>1 DEF Elements
  <2>2. ASSUME NEW i \in 1..Len(rest) PROVE \E j \in (n + 1)..Len(q) : rest[i] = q[j]
    <3>1. n + i \in (n + 1)..Len(q) /\ rest[i] = q[n + i]
      BY <1>1, <1>3
    <3>2. QED BY <3>1
  <2>3. Elements(rest) \subseteq {q[i] : i \in (n + 1)..Len(q)}
    BY <2>2 DEF Elements
  <2>4. {q[i] : i \in (n + 1)..Len(q)} \subseteq Elements(rest)
    BY <2>1
  <2>5. QED BY <2>3, <2>4
<1>5. NoRepeats(rest)
  <2> SUFFICES ASSUME NEW i \in 1..Len(rest), NEW j \in 1..Len(rest), rest[i] = rest[j]
               PROVE  i = j
    BY DEF NoRepeats
  <2>1. n + i \in 1..Len(q) /\ n + j \in 1..Len(q) /\ q[n + i] = q[n + j]
    BY <1>1, <1>3
  <2>2. n + i = n + j
    BY <2>1 DEF NoRepeats
  <2>3. QED BY <2>2, <1>1, <1>3
<1>6. Elements(rest) \cap out = {}
  <2> SUFFICES ASSUME NEW i \in (n + 1)..Len(q), NEW j \in 1..n, q[i] = q[j] PROVE FALSE
    BY <1>4
  <2>1. i \in 1..Len(q) /\ j \in 1..Len(q) /\ i # j
    BY <1>1
  <2>2. QED BY <2>1 DEF NoRepeats
<1>7. Elements(rest) \cup out = Elements(q)
  <2>1. \A i \in 1..Len(q) : i \in 1..n \/ i \in (n + 1)..Len(q)
    BY <1>1
  <2>2. 1..n \subseteq 1..Len(q) /\ (n + 1)..Len(q) \subseteq 1..Len(q)
    BY <1>1
  <2>3. QED BY <1>4, <2>1, <2>2 DEF Elements
<1>8. QED BY <1>3, <1>5, <1>6, <1>7 DEF rest

(* Every ordering of some events lists each of them once.                  *)
LEMMA OrderingsProperties ==
  ASSUME NEW S \in SUBSET Event, NEW q \in Orderings(S)
  PROVE  q \in Seq(Event) /\ Elements(q) = S /\ NoRepeats(q)
<1>1. Cardinality(S) \in Nat
  <2>1. IsFiniteSet(Event)
    BY FS_Interval, EventGridAssumption DEF Event
  <2>2. QED BY <2>1, FS_Subset, FS_CardinalityType
<1>2. q \in [1..Cardinality(S) -> S]
  BY DEF Orderings
<1>3. q \in Seq(S) /\ Len(q) = Cardinality(S)
  BY <1>1, <1>2
<1>4. q \in Seq(Event)
  BY <1>3
<1>5. QED BY <1>2, <1>3, <1>4 DEF Orderings, Elements, NoRepeats

-----------------------------------------------------------------------------
(* What the helpers of the actions return.                                 *)

LEMMA AvailableInType ==
  ASSUME TypeOK, NEW s \in Sub
  PROVE  AvailableIn(s) \in Seq(Event)
<1>1. published \in Nat /\ published <= MaxEvent /\ 1 <= published + 1
  BY EventGridAssumption DEF TypeOK
<1>2. Numbers(1, published) \in Seq(Event)
  BY <1>1, NumbersProperties
<1>3. QED BY <1>2 DEF AvailableIn, TypeOK

LEMMA HeldType ==
  ASSUME TypeOK, NEW s \in Sub
  PROVE  /\ Held(s) \in SUBSET Event
         /\ Expired(s) \in SUBSET Held(s)
         /\ \A tokens \in Requests : Named(s, tokens) \in SUBSET Held(s)
<1>1. Held(s) \in SUBSET Event
  BY DEF Held, TypeOK
<1>2. Expired(s) \in SUBSET Held(s)
  BY DEF Expired
<1>3. ASSUME NEW tokens \in Requests PROVE Named(s, tokens) \in SUBSET Held(s)
  <2>1. \A i \in DOMAIN tokens : tokens[i] \in Token
    BY DEF Requests
  <2>2. QED BY <2>1 DEF Named, Held
<1>4. QED BY <1>1, <1>2, <1>3

(* A publication appends the same events to every subscription's view, to  *)
(* one that does not exist yet too.                                        *)
LEMMA PublishedView ==
  ASSUME TypeOK, NEW k \in 1..MaxBatch, Publish(k), NEW s \in Sub
  PROVE  /\ Numbers(published + 1, published + k) \in Seq(Event)
         /\ Elements(Numbers(published + 1, published + k)) = (published + 1)..(published + k)
         /\ NoRepeats(Numbers(published + 1, published + k))
         /\ AvailableIn(s)' = AvailableIn(s) \o Numbers(published + 1, published + k)
<1> DEFINE new == Numbers(published + 1, published + k)
<1>1. /\ published \in Nat /\ k \in Nat /\ published + k <= MaxEvent
      /\ published' = published + k
  BY EventGridAssumption DEF TypeOK, Publish
<1>2. /\ published + 1 \in Nat \ {0} /\ published + k \in Nat
      /\ published + 1 <= (published + k) + 1
      /\ (published + k) - (published + 1) + 1 = k
  BY <1>1
<1>3. /\ new \in Seq(Event)
      /\ Len(new) = k
      /\ \A i \in 1..k : new[i] = published + 1 + i - 1
      /\ Elements(new) = (published + 1)..(published + k)
      /\ NoRepeats(new)
  BY <1>1, <1>2, NumbersProperties
<1> HIDE DEF new
<1>4. AvailableIn(s)' = AvailableIn(s) \o new
  <2>1. CASE s \in subs
    BY <2>1 DEF Publish, AvailableIn, new
  <2>2. CASE s \notin subs
    <3>1. AvailableIn(s) = Numbers(1, published) /\ AvailableIn(s)' = Numbers(1, published + k)
      BY <2>2, <1>1 DEF Publish, AvailableIn
    <3>2. QED BY <3>1, <1>1, NumbersJoin DEF new
  <2>3. QED BY <2>1, <2>2
<1>5. QED BY <1>3, <1>4 DEF new

(* What a receive works on: the queue after the sweep, the deliveries it   *)
(* hands out, and the tokens it hands them out under.                      *)
LEMMA ReceivedQueue ==
  ASSUME TypeOK, NEW s \in Sub, NEW order \in Orderings(Expired(s))
  PROVE  /\ AvailableIn(s) \o order \in Seq(Event)
         /\ Elements(AvailableIn(s) \o order) = Elements(AvailableIn(s)) \cup Expired(s)
         /\ NoRepeats(AvailableIn(s)) /\ Elements(AvailableIn(s)) \cap Held(s) = {}
              => NoRepeats(AvailableIn(s) \o order)
<1>1. order \in Seq(Event) /\ Elements(order) = Expired(s) /\ NoRepeats(order)
  BY HeldType, OrderingsProperties
<1>2. AvailableIn(s) \in Seq(Event)
  BY AvailableInType
<1>3. Elements(AvailableIn(s)) \cap Held(s) = {} =>
        Elements(AvailableIn(s)) \cap Elements(order) = {}
  BY <1>1, HeldType
<1>4. QED BY <1>1, <1>2, <1>3, Concatenation

(* Receive in terms of the swept queue and the number of deliveries it     *)
(* hands out.                                                              *)
Hands(s, queue, n) ==
  /\ n <= Len(queue)
  /\ issued + n <= MaxToken
  /\ issued' = issued + n
  /\ subs' = subs \cup {s}
  /\ available' = [available EXCEPT ![s] = SubSeq(queue, n + 1, Len(queue))]
  /\ locked' = [locked EXCEPT ![s] = [t \in Token |->
       CASE t \in (issued + 1)..(issued + n) -> queue[t - issued]
         [] t \notin (issued + 1)..(issued + n) /\ locked[s][t] \in Expired(s) -> NoEvent
         [] OTHER -> locked[s][t]]]
  /\ deliveryCount' = [deliveryCount EXCEPT ![s] = [e \in Event |->
       IF e \in {queue[i] : i \in 1..n} THEN deliveryCount[s][e] + 1
       ELSE deliveryCount[s][e]]]
  /\ lockDeadline' = [lockDeadline EXCEPT ![s] = [e \in Event |->
       CASE e \in {queue[i] : i \in 1..n} -> now + LockDuration
         [] e \notin {queue[i] : i \in 1..n} /\ e \in Expired(s) -> ZeroTime
         [] OTHER -> lockDeadline[s][e]]]
  /\ UNCHANGED <<published, now, resolved>>

LEMMA Received ==
  ASSUME TypeOK, NEW s \in Sub, NEW max \in 1..MaxBatch, Receive(s, max)
  PROVE  \E order \in Orderings(Expired(s)), n \in Nat :
           Hands(s, AvailableIn(s) \o order, n)
<1>1. PICK order \in Orderings(Expired(s)) : Receive(s, max)!(order)
  BY DEF Receive
<1> DEFINE queue == AvailableIn(s) \o order
           n == IF max < Len(queue) THEN max ELSE Len(queue)
<1>2. queue \in Seq(Event)
  BY ReceivedQueue
<1> HIDE DEF queue
<1>3. Len(queue) \in Nat /\ n \in Nat /\ n <= Len(queue) /\ issued \in Nat
  BY <1>2, EventGridAssumption DEF TypeOK
<1> HIDE DEF n
<1>4. issued' = issued + n /\ issued + n <= MaxToken
  <2>1. issued' = issued + 1 + n - 1 /\ issued + n <= MaxToken
    BY <1>1 DEF queue, n, FirstToken
  <2>2. QED BY <2>1, <1>3
<1>5. locked' = [locked EXCEPT ![s] = [t \in Token |->
        CASE t \in (issued + 1)..(issued + n) -> queue[t - issued]
          [] t \notin (issued + 1)..(issued + n) /\ locked[s][t] \in Expired(s) -> NoEvent
          [] OTHER -> locked[s][t]]]
  <2>1. /\ FirstToken = issued + 1 /\ FirstToken + n - 1 = issued + n
        /\ \A t \in Token : t - FirstToken + 1 = t - issued
    BY <1>3, EventGridAssumption DEF FirstToken, Token
  <2>2. locked' = [locked EXCEPT ![s] = [t \in Token |->
          CASE t \in FirstToken..(FirstToken + n - 1) -> queue[t - FirstToken + 1]
            [] t \notin FirstToken..(FirstToken + n - 1) /\ locked[s][t] \in Expired(s) -> NoEvent
            [] OTHER -> locked[s][t]]]
    BY <1>1 DEF queue, n, TypeOK
  <2>3. QED BY <2>1, <2>2
<1>6. /\ available' = [available EXCEPT ![s] = SubSeq(queue, n + 1, Len(queue))]
      /\ subs' = subs \cup {s}
      /\ UNCHANGED <<published, now, resolved>>
  BY <1>1 DEF queue, n
<1>7. deliveryCount' = [deliveryCount EXCEPT ![s] = [e \in Event |->
        IF e \in {queue[i] : i \in 1..n} THEN deliveryCount[s][e] + 1
        ELSE deliveryCount[s][e]]]
  BY <1>1 DEF queue, n, TypeOK
<1>8. lockDeadline' = [lockDeadline EXCEPT ![s] = [e \in Event |->
        CASE e \in {queue[i] : i \in 1..n} -> now + LockDuration
          [] e \notin {queue[i] : i \in 1..n} /\ e \in Expired(s) -> ZeroTime
          [] OTHER -> lockDeadline[s][e]]]
  BY <1>1 DEF queue, n, TypeOK
<1>9. QED BY <1>3, <1>4, <1>5, <1>6, <1>7, <1>8 DEF queue, Hands

-----------------------------------------------------------------------------
(* Type correctness.                                                       *)

LEMMA InitType == Init => TypeOK
<1> SUFFICES ASSUME Init PROVE TypeOK
  OBVIOUS
<1> USE EventGridAssumption DEF Init
<1>1. available \in [Sub -> Seq(Event)]
  BY EmptySeq
<1>2. deliveryCount \in [Sub -> [Event -> Nat]] /\ lockDeadline \in [Sub -> [Event -> Nat]]
  BY DEF ZeroTime
<1>3. locked \in [Sub -> [Token -> Event \cup {NoEvent}]]
  OBVIOUS
<1>4. QED BY <1>1, <1>2, <1>3 DEF TypeOK

LEMMA ReceiveType ==
  ASSUME TypeOK, NEW s \in Sub, NEW max \in 1..MaxBatch, Receive(s, max)
  PROVE  TypeOK'
<1>1. PICK order \in Orderings(Expired(s)), n \in Nat : Hands(s, AvailableIn(s) \o order, n)
  BY Received
<1> DEFINE queue == AvailableIn(s) \o order
<1>2. /\ queue \in Seq(Event) /\ Len(queue) \in Nat /\ n <= Len(queue)
      /\ issued \in Nat /\ issued' = issued + n /\ issued + n <= MaxToken
  BY <1>1, ReceivedQueue DEF TypeOK, Hands
<1> HIDE DEF queue
<1>3. available' \in [Sub -> Seq(Event)]
  <2>1. \A i \in (n + 1)..Len(queue) : queue[i] \in Event
    BY <1>2
  <2>2. SubSeq(queue, n + 1, Len(queue)) \in Seq(Event)
    BY <1>2, <2>1, SubSeqProperties
  <2>3. QED BY <1>1, <2>2 DEF TypeOK, Hands, queue
<1>4. locked' \in [Sub -> [Token -> Event \cup {NoEvent}]]
  <2> DEFINE fresh == (issued + 1)..(issued + n)
             new == [t \in Token |->
               CASE t \in fresh -> queue[t - issued]
                 [] t \notin fresh /\ locked[s][t] \in Expired(s) -> NoEvent
                 [] OTHER -> locked[s][t]]
  <2>1. locked' = [locked EXCEPT ![s] = new]
    BY <1>1 DEF queue, Hands
  <2>2. ASSUME NEW t \in fresh PROVE queue[t - issued] \in Event
    BY <1>2
  <2>3. new \in [Token -> Event \cup {NoEvent}]
    BY <2>2 DEF TypeOK
  <2>4. QED BY <2>1, <2>3 DEF TypeOK
<1>5. deliveryCount' \in [Sub -> [Event -> Nat]]
  <2> DEFINE new == [e \in Event |->
               IF e \in {queue[i] : i \in 1..n} THEN deliveryCount[s][e] + 1
               ELSE deliveryCount[s][e]]
  <2>1. deliveryCount' = [deliveryCount EXCEPT ![s] = new]
    BY <1>1 DEF queue, Hands
  <2>2. new \in [Event -> Nat]
    BY DEF TypeOK
  <2> HIDE DEF new
  <2>3. QED BY <2>1, <2>2 DEF TypeOK
<1>6. lockDeadline' \in [Sub -> [Event -> Nat]]
  <2>1. now + LockDuration \in Nat /\ ZeroTime \in Nat
    BY EventGridAssumption DEF TypeOK, ZeroTime
  <2> DEFINE new == [e \in Event |->
               CASE e \in {queue[i] : i \in 1..n} -> now + LockDuration
                 [] e \notin {queue[i] : i \in 1..n} /\ e \in Expired(s) -> ZeroTime
                 [] OTHER -> lockDeadline[s][e]]
  <2>2. lockDeadline' = [lockDeadline EXCEPT ![s] = new]
    BY <1>1 DEF queue, Hands
  <2>3. new \in [Event -> Nat]
    BY <2>1 DEF TypeOK
  <2> HIDE DEF new
  <2>4. QED BY <2>2, <2>3 DEF TypeOK
<1>7. issued' \in 0..MaxToken
  BY <1>2, EventGridAssumption
<1>8. subs' \subseteq Sub /\ UNCHANGED <<published, now, resolved>>
  BY <1>1 DEF Hands, TypeOK
<1>9. QED BY <1>3, <1>4, <1>5, <1>6, <1>7, <1>8 DEF TypeOK

LEMMA RequestType ==
  ASSUME TypeOK, NEW s \in Sub, NEW tokens \in Requests,
         Acknowledge(s, tokens) \/ Release(s, tokens) \/ RenewLocks(s, tokens)
  PROVE  TypeOK'
<1>1. AvailableIn(s) \in Seq(Event) /\ Named(s, tokens) \in SUBSET Event
  BY AvailableInType, HeldType
<1>2. Unlock(s, tokens) => locked' \in [Sub -> [Token -> Event \cup {NoEvent}]]
  BY DEF Unlock, TypeOK
<1>3. CASE Acknowledge(s, tokens)
  <2>1. available' \in [Sub -> Seq(Event)]
    BY <1>1, <1>3 DEF Acknowledge, TypeOK
  <2>2. resolved' \in [Sub -> SUBSET Event]
    BY <1>1, <1>3 DEF Acknowledge, TypeOK
  <2>3. QED BY <1>2, <1>3, <2>1, <2>2 DEF Acknowledge, TypeOK
<1>4. CASE Release(s, tokens)
  <2>1. PICK order \in Orderings(Named(s, tokens)) : Release(s, tokens)!(order)
    BY <1>4 DEF Release
  <2>2. order \in Seq(Event)
    BY <1>1, OrderingsProperties
  <2>3. AvailableIn(s) \o order \in Seq(Event)
    BY <1>1, <2>2, ConcatProperties
  <2>4. available' \in [Sub -> Seq(Event)]
    BY <2>1, <2>3 DEF TypeOK
  <2>5. QED BY <1>2, <2>1, <2>4 DEF TypeOK
<1>5. CASE RenewLocks(s, tokens)
  <2>1. available' \in [Sub -> Seq(Event)]
    BY <1>1, <1>5 DEF RenewLocks, TypeOK
  <2>2. now + LockDuration \in Nat
    BY EventGridAssumption DEF TypeOK
  <2>3. lockDeadline' \in [Sub -> [Event -> Nat]]
    BY <1>5, <2>2 DEF RenewLocks, TypeOK
  <2>4. QED BY <1>5, <2>1, <2>3 DEF RenewLocks, TypeOK
<1>6. QED BY <1>3, <1>4, <1>5

LEMMA NextType == TypeOK /\ [Next]_vars => TypeOK'
<1> SUFFICES ASSUME TypeOK, [Next]_vars PROVE TypeOK'
  OBVIOUS
<1>1. ASSUME NEW k \in 1..MaxBatch, Publish(k) PROVE TypeOK'
  <2>1. published' \in 0..MaxEvent
    BY <1>1, EventGridAssumption DEF Publish, TypeOK
  <2>2. available' \in [Sub -> Seq(Event)]
    <3>1. ASSUME NEW s \in Sub, s \in subs
          PROVE  available[s] \o Numbers(published + 1, published + k) \in Seq(Event)
      <4>1. Numbers(published + 1, published + k) \in Seq(Event)
        BY <1>1, PublishedView
      <4>2. available[s] \in Seq(Event)
        BY DEF TypeOK
      <4>3. QED BY <4>1, <4>2, ConcatProperties
    <3>2. QED BY <1>1, <3>1 DEF Publish, TypeOK
  <2>3. QED BY <1>1, <2>1, <2>2 DEF Publish, TypeOK
<1>2. ASSUME NEW s \in Sub, NEW max \in 1..MaxBatch, Receive(s, max) PROVE TypeOK'
  BY <1>2, ReceiveType
<1>3. ASSUME NEW s \in Sub, NEW tokens \in Requests,
             Acknowledge(s, tokens) \/ Release(s, tokens) \/ RenewLocks(s, tokens)
      PROVE  TypeOK'
  BY <1>3, RequestType
<1>4. CASE Tick
  BY <1>4 DEF Tick, TypeOK
<1>5. CASE UNCHANGED vars
  BY <1>5 DEF vars, TypeOK
<1>6. QED BY <1>1, <1>2, <1>3, <1>4, <1>5 DEF Next

(* No operation of store.go puts anything but published events in a queue  *)
(* or under a token.                                                       *)
THEOREM TypeCorrect == Spec => []TypeOK
<1>1. QED BY InitType, NextType, PTL DEF Spec

-----------------------------------------------------------------------------
(* The partition.                                                          *)

(* A subscription the step does not name keeps its partition.              *)
LEMMA Unaffected ==
  ASSUME NEW r \in Sub, Partitioned(r), published' = published,
         r \in subs' <=> r \in subs, available'[r] = available[r],
         locked'[r] = locked[r], resolved'[r] = resolved[r]
  PROVE  Partitioned(r)'
<1>1. AvailableIn(r)' = AvailableIn(r)
  BY DEF AvailableIn
<1>2. Held(r)' = Held(r) /\ (OneToken(r)' <=> OneToken(r))
  BY DEF Held, OneToken
<1>3. QED BY <1>1, <1>2 DEF Partitioned, NoRepeats

LEMMA PublishPartition ==
  ASSUME TypeOK, NEW k \in 1..MaxBatch, Publish(k), NEW s \in Sub, Partitioned(s)
  PROVE  Partitioned(s)'
<1> DEFINE new == Numbers(published + 1, published + k)
<1>1. /\ new \in Seq(Event)
      /\ Elements(new) = (published + 1)..(published + k)
      /\ NoRepeats(new)
      /\ AvailableIn(s)' = AvailableIn(s) \o new
  BY PublishedView
<1>2. /\ published \in Nat /\ k \in Nat /\ published' = published + k
      /\ Held(s)' = Held(s) /\ (OneToken(s)' <=> OneToken(s)) /\ resolved' = resolved
  BY EventGridAssumption DEF Publish, TypeOK, Held, OneToken
<1> HIDE DEF new
<1>3. (1..published) \cap Elements(new) = {} /\ (1..published) \cup Elements(new) = 1..published'
  <2>1. /\ (1..published) \cap ((published + 1)..(published + k)) = {}
        /\ (1..published) \cup ((published + 1)..(published + k)) = 1..(published + k)
    <3>1. published \in Nat /\ k \in Nat
      BY <1>2
    <3>2. QED BY <3>1
  <2>2. Elements(new) = (published + 1)..(published + k) /\ published' = published + k
    BY <1>1, <1>2
  <2>3. QED BY <2>1, <2>2
<1>4. /\ Elements(AvailableIn(s) \o new) = Elements(AvailableIn(s)) \cup Elements(new)
      /\ NoRepeats(AvailableIn(s) \o new)
  <2>1. AvailableIn(s) \in Seq(Event)
    BY AvailableInType
  <2>2. NoRepeats(AvailableIn(s)) /\ Elements(AvailableIn(s)) \subseteq 1..published
    BY DEF Partitioned
  <2>3. Elements(AvailableIn(s)) \cap Elements(new) = {}
    BY <1>3, <2>2
  <2>4. new \in Seq(Event) /\ NoRepeats(new)
    BY <1>1
  <2>5. QED BY ONLY <2>1, <2>2, <2>3, <2>4, Concatenation
<1>5. /\ Elements(AvailableIn(s))' = Elements(AvailableIn(s) \o new)
      /\ NoRepeats(AvailableIn(s))' <=> NoRepeats(AvailableIn(s) \o new)
  BY <1>1 DEF Elements, NoRepeats
<1>6. QED BY <1>2, <1>3, <1>4, <1>5 DEF Partitioned

LEMMA ReceivePartition ==
  ASSUME TypeOK, FreshTokens, NEW s \in Sub, NEW max \in 1..MaxBatch, Receive(s, max),
         Partitioned(s)
  PROVE  Partitioned(s)'
<1>1. PICK order \in Orderings(Expired(s)), n \in Nat : Hands(s, AvailableIn(s) \o order, n)
  BY Received
<1> DEFINE queue == AvailableIn(s) \o order
           rest == SubSeq(queue, n + 1, Len(queue))
           out == {queue[i] : i \in 1..n}
           fresh == (issued + 1)..(issued + n)
<1>2. /\ queue \in Seq(Event) /\ NoRepeats(queue)
      /\ Elements(queue) = Elements(AvailableIn(s)) \cup Expired(s)
  BY ReceivedQueue DEF Partitioned
<1>3. Hands(s, queue, n)
  BY <1>1
<1> HIDE DEF queue
<1>4. /\ n <= Len(queue) /\ Len(queue) \in Nat /\ n \in 0..Len(queue)
      /\ issued \in Nat /\ issued + n <= MaxToken /\ MaxToken \in Nat
  BY <1>2, <1>3, EventGridAssumption DEF Hands, TypeOK
<1>5. /\ NoRepeats(rest)
      /\ Elements(rest) \cap out = {}
      /\ Elements(rest) \cup out = Elements(queue)
  BY <1>2, <1>4, Splitting
<1>6. AvailableIn(s)' = rest
  BY <1>3 DEF Hands, AvailableIn, TypeOK
<1>7. \A t \in Token : locked'[s][t] =
        CASE t \in fresh -> queue[t - issued]
          [] t \notin fresh /\ locked[s][t] \in Expired(s) -> NoEvent
          [] OTHER -> locked[s][t]
  BY <1>3 DEF Hands, TypeOK
<1>8. \A t \in fresh : /\ t \in Token /\ locked[s][t] = NoEvent
                      /\ t - issued \in 1..n /\ t - issued \in 1..Len(queue)
  BY <1>4 DEF FreshTokens, Token
<1>9. out \subseteq Event /\ NoEvent \notin Event
  <2>1. \A i \in 1..n : i \in 1..Len(queue)
    BY <1>4
  <2>2. \A i \in 1..n : queue[i] \in Event
    BY <1>2, <2>1
  <2>3. NoEvent \notin Event
    BY EventGridAssumption DEF Event, NoEvent
  <2>4. QED BY <2>2, <2>3
<1>10. Held(s)' = (Held(s) \ Expired(s)) \cup out
  <2>1. ASSUME NEW t \in Token, locked'[s][t] # NoEvent
        PROVE  locked'[s][t] \in (Held(s) \ Expired(s)) \cup out
    BY <1>7, <1>8, <2>1 DEF Held
  <2>2. ASSUME NEW e \in Held(s) \ Expired(s) PROVE e \in Held(s)'
    <3>1. PICK t \in Token : locked[s][t] = e /\ e # NoEvent
      BY DEF Held
    <3>2. t \notin fresh /\ locked'[s][t] = e
      BY <1>7, <1>8, <3>1
    <3>3. QED BY <3>1, <3>2 DEF Held
  <2>3. ASSUME NEW i \in 1..n PROVE queue[i] \in Held(s)'
    <3>1. issued + i \in fresh /\ (issued + i) - issued = i
      BY <1>4
    <3>2. locked'[s][issued + i] = queue[i] /\ issued + i \in Token
      BY <1>7, <1>8, <3>1
    <3>3. QED BY <1>9, <3>2 DEF Held
  <2>4. QED BY <2>1, <2>2, <2>3 DEF Held
<1>11. OneToken(s)'
  <2> SUFFICES ASSUME NEW t \in Token, NEW u \in Token,
                      locked'[s][t] = locked'[s][u], locked'[s][t] # NoEvent
               PROVE  t = u
    BY DEF OneToken
  <2>1. CASE t \in fresh /\ u \in fresh
    <3>1. queue[t - issued] = queue[u - issued]
      BY <1>7, <2>1
    <3>2. t - issued = u - issued
      BY <1>2, <1>8, <2>1, <3>1 DEF NoRepeats
    <3>3. t \in Int /\ u \in Int
      BY <2>1, <1>4
    <3>4. QED BY <1>4, <3>2, <3>3
  <2>2. ASSUME NEW a \in Token, NEW b \in Token, a \in fresh, b \notin fresh,
               locked'[s][a] = locked'[s][b], locked'[s][a] # NoEvent
        PROVE  FALSE
    <3>1. locked'[s][a] \in Elements(queue)
      BY <1>7, <1>8, <2>2 DEF Elements
    <3>2. locked'[s][b] \in Held(s) \ Expired(s)
      BY <1>7, <2>2 DEF Held
    <3>3. QED BY <1>2, <2>2, <3>1, <3>2 DEF Partitioned
  <2>3. CASE t \notin fresh /\ u \notin fresh
    <3>1. locked'[s][t] = locked[s][t] /\ locked'[s][u] = locked[s][u]
      BY <1>7, <2>3
    <3>2. QED BY <3>1 DEF Partitioned, OneToken
  <2>4. QED BY <2>1, <2>2, <2>3
<1>12. Expired(s) \subseteq Held(s)
  BY HeldType
<1>13. published' = published /\ resolved' = resolved
  BY <1>3 DEF Hands
<1> HIDE DEF rest, out
<1>14. /\ Elements(AvailableIn(s))' = Elements(rest)
       /\ NoRepeats(AvailableIn(s))' <=> NoRepeats(rest)
  BY <1>6 DEF Elements, NoRepeats
<1>15. QED BY <1>2, <1>5, <1>10, <1>11, <1>12, <1>13, <1>14 DEF Partitioned

(* A request takes the events it names out from under their tokens: they   *)
(* are distinct, and nothing else is unlocked.                             *)
LEMMA UnlockHeld ==
  ASSUME TypeOK, NEW s \in Sub, NEW tokens \in Requests, Unlock(s, tokens), OneToken(s)
  PROVE  /\ Held(s)' = Held(s) \ Named(s, tokens)
         /\ OneToken(s)'
<1>1. \A t \in Token : locked'[s][t] =
        IF \E i \in DOMAIN tokens : tokens[i] = t THEN NoEvent ELSE locked[s][t]
  BY DEF Unlock, TypeOK
<1>2. \A i \in DOMAIN tokens : tokens[i] \in Token
  BY DEF Requests
<1>3. ASSUME NEW t \in Token, locked'[s][t] # NoEvent
      PROVE  locked'[s][t] \in Held(s) \ Named(s, tokens)
  <2>1. locked'[s][t] = locked[s][t] /\ ~\E i \in DOMAIN tokens : tokens[i] = t
    BY <1>1, <1>3
  <2>2. locked[s][t] \in Held(s)
    BY <1>3, <2>1 DEF Held
  <2>3. ASSUME NEW i \in DOMAIN tokens, locked[s][tokens[i]] = locked[s][t] PROVE FALSE
    BY <1>2, <1>3, <2>1, <2>3 DEF OneToken
  <2>4. QED BY <2>1, <2>2, <2>3 DEF Named
<1>4. ASSUME NEW e \in Held(s) \ Named(s, tokens) PROVE e \in Held(s)'
  <2>1. PICK t \in Token : locked[s][t] = e /\ e # NoEvent
    BY DEF Held
  <2>2. ~\E i \in DOMAIN tokens : tokens[i] = t
    BY <2>1 DEF Named
  <2>3. locked'[s][t] = e
    BY <1>1, <2>1, <2>2
  <2>4. QED BY <2>1, <2>3 DEF Held
<1>5. Held(s)' = Held(s) \ Named(s, tokens)
  BY <1>3, <1>4 DEF Held
<1>6. OneToken(s)'
  BY <1>1 DEF OneToken
<1>7. QED BY <1>5, <1>6

LEMMA RequestPartition ==
  ASSUME TypeOK, NEW s \in Sub, NEW tokens \in Requests, Partitioned(s),
         Acknowledge(s, tokens) \/ Release(s, tokens) \/ RenewLocks(s, tokens)
  PROVE  Partitioned(s)'
<1>1. Named(s, tokens) \subseteq Held(s) /\ Held(s) \in SUBSET Event
  BY HeldType
<1>2. ASSUME AvailableIn(s)' = AvailableIn(s)
      PROVE  /\ Elements(AvailableIn(s))' = Elements(AvailableIn(s))
             /\ NoRepeats(AvailableIn(s))' <=> NoRepeats(AvailableIn(s))
  BY <1>2 DEF Elements, NoRepeats
<1>3. CASE Acknowledge(s, tokens)
  <2>1. AvailableIn(s)' = AvailableIn(s)
    BY <1>3 DEF Acknowledge, AvailableIn, TypeOK
  <2>2. Held(s)' = Held(s) \ Named(s, tokens) /\ OneToken(s)'
    BY <1>3, UnlockHeld DEF Acknowledge, Partitioned
  <2>3. resolved'[s] = resolved[s] \cup Named(s, tokens) /\ published' = published
    BY <1>3 DEF Acknowledge, TypeOK
  <2>4. QED BY <1>1, <1>2, <2>1, <2>2, <2>3 DEF Partitioned
<1>4. CASE Release(s, tokens)
  <2>1. PICK order \in Orderings(Named(s, tokens)) : Release(s, tokens)!(order)
    BY <1>4 DEF Release
  <2>2. order \in Seq(Event) /\ Elements(order) = Named(s, tokens) /\ NoRepeats(order)
    BY <1>1, OrderingsProperties
  <2>3. AvailableIn(s)' = AvailableIn(s) \o order
    BY <2>1 DEF AvailableIn, TypeOK
  <2>4. /\ Elements(AvailableIn(s) \o order) = Elements(AvailableIn(s)) \cup Named(s, tokens)
        /\ NoRepeats(AvailableIn(s) \o order)
    <3>1. Elements(AvailableIn(s)) \cap Elements(order) = {} /\ NoRepeats(AvailableIn(s))
      BY <1>1, <2>2 DEF Partitioned
    <3>2. QED BY <2>2, <3>1, AvailableInType, Concatenation
  <2>5. Held(s)' = Held(s) \ Named(s, tokens) /\ OneToken(s)'
    BY <2>1, UnlockHeld DEF Partitioned
  <2>6. resolved' = resolved /\ published' = published
    BY <2>1
  <2>7. /\ Elements(AvailableIn(s))' = Elements(AvailableIn(s) \o order)
        /\ NoRepeats(AvailableIn(s))' <=> NoRepeats(AvailableIn(s) \o order)
    BY <2>3 DEF Elements, NoRepeats
  <2>8. QED BY <1>1, <2>4, <2>5, <2>6, <2>7 DEF Partitioned
<1>5. CASE RenewLocks(s, tokens)
  <2>1. AvailableIn(s)' = AvailableIn(s)
    BY <1>5 DEF RenewLocks, AvailableIn, TypeOK
  <2>2. UNCHANGED <<locked, resolved, published>>
    BY <1>5 DEF RenewLocks
  <2>3. QED BY <1>2, <2>1, <2>2 DEF Partitioned, Held, OneToken
<1>6. QED BY <1>3, <1>4, <1>5

(* No step gives an event to a token that is not handed out by it.         *)
LEMMA TokensStep ==
  ASSUME TypeOK, FreshTokens, [Next]_vars
  PROVE  /\ FreshTokens'
         /\ issued \in Nat /\ issued' \in Nat /\ issued <= issued'
         /\ \A s \in Sub : \A t \in Token :
              t <= issued /\ locked[s][t] = NoEvent => locked'[s][t] = NoEvent
<1>1. issued \in Nat /\ \A t \in Token : t \in Nat
  BY EventGridAssumption DEF TypeOK, Token
<1>2. ASSUME NEW s \in Sub, NEW max \in 1..MaxBatch, Receive(s, max)
      PROVE  /\ issued' \in Nat /\ issued <= issued'
             /\ \A r \in Sub : \A t \in Token :
                  (t > issued' \/ t <= issued) /\ locked[r][t] = NoEvent
                    => locked'[r][t] = NoEvent
  <2>1. PICK order \in Orderings(Expired(s)), n \in Nat :
               Hands(s, AvailableIn(s) \o order, n)
    BY <1>2, Received
  <2>2. issued' = issued + n
    BY <2>1 DEF Hands
  <2>3. ASSUME NEW r \in Sub, NEW t \in Token, t > issued' \/ t <= issued,
               locked[r][t] = NoEvent
        PROVE  locked'[r][t] = NoEvent
    <3>1. t \notin (issued + 1)..(issued + n)
      BY <1>1, <2>2, <2>3
    <3>2. QED BY <2>1, <2>3, <3>1 DEF Hands, TypeOK
  <2>4. QED BY <1>1, <2>2, <2>3
<1>3. ASSUME NEW s \in Sub, NEW tokens \in Requests,
             Acknowledge(s, tokens) \/ Release(s, tokens) \/ RenewLocks(s, tokens)
      PROVE  /\ issued' = issued
             /\ \A r \in Sub : \A t \in Token :
                  locked[r][t] = NoEvent => locked'[r][t] = NoEvent
  <2>1. Unlock(s, tokens) \/ locked' = locked
    BY <1>3 DEF Acknowledge, Release, RenewLocks
  <2>2. issued' = issued
    BY <1>3 DEF Acknowledge, Release, RenewLocks
  <2>3. QED BY <2>1, <2>2 DEF Unlock, TypeOK
<1>4. ASSUME UNCHANGED <<locked, issued>>
      PROVE  /\ issued' = issued
             /\ \A r \in Sub : \A t \in Token :
                  locked[r][t] = NoEvent => locked'[r][t] = NoEvent
  BY <1>4
<1>5. ASSUME issued' \in Nat, issued <= issued',
             \A r \in Sub : \A t \in Token :
               (t > issued' \/ t <= issued) /\ locked[r][t] = NoEvent
                 => locked'[r][t] = NoEvent
      PROVE  /\ FreshTokens'
             /\ \A s \in Sub : \A t \in Token :
                  t <= issued /\ locked[s][t] = NoEvent => locked'[s][t] = NoEvent
  <2>1. \A t \in Token : t > issued' => t > issued
    BY <1>1, <1>5
  <2>2. QED BY <1>5, <2>1 DEF FreshTokens
<1>6. CASE \E s \in Sub, max \in 1..MaxBatch : Receive(s, max)
  BY <1>1, <1>2, <1>5, <1>6
<1>7. CASE \E s \in Sub, tokens \in Requests :
             Acknowledge(s, tokens) \/ Release(s, tokens) \/ RenewLocks(s, tokens)
  <2>1. issued' = issued /\ issued <= issued'
    BY <1>1, <1>3, <1>7
  <2>2. QED BY <1>1, <1>3, <1>5, <1>7, <2>1
<1>8. CASE UNCHANGED <<locked, issued>>
  <2>1. issued' = issued /\ issued <= issued'
    BY <1>1, <1>8
  <2>2. QED BY <1>1, <1>4, <1>5, <1>8, <2>1
<1>9. (\E k \in 1..MaxBatch : Publish(k)) \/ Tick \/ UNCHANGED vars => UNCHANGED <<locked, issued>>
  BY DEF Publish, Tick, vars
<1>10. QED BY <1>6, <1>7, <1>8, <1>9 DEF Next

LEMMA InvInit == Init => Inv
<1> SUFFICES ASSUME Init PROVE Inv
  OBVIOUS
<1>1. TypeOK
  BY InitType
<1>2. FreshTokens
  BY DEF Init, FreshTokens
<1>3. ASSUME NEW s \in Sub PROVE Partitioned(s)
  <2>1. AvailableIn(s) = Numbers(1, 0)
    BY DEF Init, AvailableIn
  <2>2. Elements(Numbers(1, 0)) = 1..0 /\ NoRepeats(Numbers(1, 0))
    <3>1. 1 \in Nat \ {0} /\ 0 \in Nat /\ 0 <= MaxEvent /\ 1 <= 0 + 1
      BY EventGridAssumption
    <3>2. QED BY <3>1, NumbersProperties
  <2>3. Held(s) = {} /\ OneToken(s) /\ resolved[s] = {} /\ published = 0
    BY DEF Init, Held, OneToken
  <2>4. QED BY <2>1, <2>2, <2>3 DEF Partitioned
<1>4. QED BY <1>1, <1>2, <1>3 DEF Inv

LEMMA InvStep == Inv /\ [Next]_vars => Inv'
<1> SUFFICES ASSUME Inv, [Next]_vars PROVE Inv'
  OBVIOUS
<1> USE DEF Inv
<1>1. TypeOK'
  BY NextType
<1>2. FreshTokens'
  BY TokensStep
<1>3. ASSUME NEW k \in 1..MaxBatch, Publish(k), NEW r \in Sub PROVE Partitioned(r)'
  BY <1>3, PublishPartition
<1>4. ASSUME NEW s \in Sub, NEW max \in 1..MaxBatch, Receive(s, max), NEW r \in Sub
      PROVE  Partitioned(r)'
  <2>1. CASE r = s
    BY <1>4, <2>1, ReceivePartition
  <2>2. CASE r # s
    <3>1. PICK order \in Orderings(Expired(s)), n \in Nat :
                 Hands(s, AvailableIn(s) \o order, n)
      BY <1>4, Received
    <3>2. /\ published' = published /\ (r \in subs' <=> r \in subs)
          /\ available'[r] = available[r] /\ locked'[r] = locked[r]
          /\ resolved'[r] = resolved[r]
      BY <2>2, <3>1 DEF Hands, TypeOK
    <3>3. QED BY <3>2, Unaffected
  <2>3. QED BY <2>1, <2>2
<1>5. ASSUME NEW s \in Sub, NEW tokens \in Requests, NEW r \in Sub,
             Acknowledge(s, tokens) \/ Release(s, tokens) \/ RenewLocks(s, tokens)
      PROVE  Partitioned(r)'
  <2>1. CASE r = s
    BY <1>5, <2>1, RequestPartition
  <2>2. CASE r # s
    <3>1. /\ published' = published /\ (r \in subs' <=> r \in subs)
          /\ available'[r] = available[r] /\ locked'[r] = locked[r]
          /\ resolved'[r] = resolved[r]
      BY <1>5, <2>2 DEF Acknowledge, Release, RenewLocks, Unlock, TypeOK
    <3>2. QED BY <3>1, Unaffected
  <2>3. QED BY <2>1, <2>2
<1>6. ASSUME Tick \/ UNCHANGED vars, NEW r \in Sub PROVE Partitioned(r)'
  BY <1>6, Unaffected DEF Tick, vars
<1>7. QED BY <1>1, <1>2, <1>3, <1>4, <1>5, <1>6 DEF Next

(* The partition holds of every reachable state, for the subscriptions     *)
(* getSub has created and for those it has not.                            *)
THEOREM InvHolds == Spec => []Inv
<1>1. QED BY InvInit, InvStep, PTL DEF Spec

(* Each event of the backlog is in exactly one place for each subscription *)
(* that exists: store.go Receive, resolve and sweepExpired neither lose    *)
(* nor double a delivery.                                                  *)
THEOREM OnePlace == Spec => []ExactlyOnePlace
<1>1. Inv => ExactlyOnePlace
  <2> SUFFICES ASSUME Inv, NEW s \in subs PROVE ExactlyOnePlace!(s)
    BY DEF ExactlyOnePlace
  <2>1. s \in Sub
    BY DEF Inv, TypeOK
  <2>2. AvailableIn(s) = available[s]
    BY DEF AvailableIn
  <2>3. Elements(AvailableIn(s)) = Waiting(s)
    BY <2>2 DEF Elements, Waiting
  <2>4. Partitioned(s)
    BY <2>1 DEF Inv
  <2>5. QED BY <2>2, <2>3, <2>4 DEF Partitioned
<1>2. QED BY <1>1, InvHolds, PTL

(* A token that has lost its event never works again: newLockToken hands   *)
(* out tokens no request can have seen before.                             *)
THEOREM TokensAreLost == Spec => TokenLost
<1>1. Inv /\ [Next]_vars =>
        [\A s \in Sub : \A t \in 1..issued :
           locked[s][t] = NoEvent => locked'[s][t] = NoEvent]_vars
  <2> SUFFICES ASSUME Inv, [Next]_vars, NEW s \in Sub, NEW t \in 1..issued,
                      locked[s][t] = NoEvent
               PROVE  locked'[s][t] = NoEvent
    OBVIOUS
  <2>1. t \in Token /\ t <= issued
    BY EventGridAssumption DEF Inv, TypeOK, Token
  <2>2. QED BY <2>1, TokensStep DEF Inv
<1>2. QED BY <1>1, InvHolds, PTL DEF Spec, TokenLost

(* Only a request that names its token ends a lock that has not expired:   *)
(* sweepExpired leaves it alone and resolve removes the tokens it is given.*)
THEOREM LocksAreHonoured == Spec => LockHonoured
<1> DEFINE Honoured == \A s \in Sub : \A t \in Token :
             LET e == locked[s][t] IN
             e # NoEvent /\ now <= lockDeadline[s][e] /\ locked'[s][t] # e =>
               \E tokens \in Requests :
                 /\ \E i \in DOMAIN tokens : tokens[i] = t
                 /\ Acknowledge(s, tokens) \/ Release(s, tokens)
<1>1. Inv /\ [Next]_vars => [Honoured]_vars
  <2> SUFFICES ASSUME Inv, Next, NEW s \in Sub, NEW t \in Token,
                      locked[s][t] # NoEvent, now <= lockDeadline[s][locked[s][t]],
                      locked'[s][t] # locked[s][t]
               PROVE  \E tokens \in Requests :
                        /\ \E i \in DOMAIN tokens : tokens[i] = t
                        /\ Acknowledge(s, tokens) \/ Release(s, tokens)
    OBVIOUS
  <2> USE DEF Inv
  <2>1. ASSUME NEW r \in Sub, NEW max \in 1..MaxBatch, Receive(r, max) PROVE FALSE
    <3>1. PICK order \in Orderings(Expired(r)), n \in Nat :
                 Hands(r, AvailableIn(r) \o order, n)
      BY <2>1, Received
    <3>2. r = s
      BY <3>1 DEF Hands, TypeOK
    <3>3. t \notin (issued + 1)..(issued + n)
      BY EventGridAssumption DEF FreshTokens, TypeOK, Token
    <3>4. locked[s][t] \notin Expired(s)
      BY EventGridAssumption DEF Expired, TypeOK
    <3>5. QED BY <3>1, <3>2, <3>3, <3>4 DEF Hands, TypeOK
  <2>2. ASSUME NEW r \in Sub, NEW tokens \in Requests, Unlock(r, tokens)
        PROVE  r = s /\ \E i \in DOMAIN tokens : tokens[i] = t
    BY <2>2 DEF Unlock, TypeOK
  <2>3. ASSUME NEW r \in Sub, NEW tokens \in Requests,
               Acknowledge(r, tokens) \/ Release(r, tokens)
        PROVE  r = s /\ \E i \in DOMAIN tokens : tokens[i] = t
    BY <2>2, <2>3 DEF Acknowledge, Release
  <2>4. ~\E k \in 1..MaxBatch : Publish(k)
    BY DEF Publish
  <2>5. ~\E r \in Sub, tokens \in Requests : RenewLocks(r, tokens)
    BY DEF RenewLocks
  <2>6. ~Tick
    BY DEF Tick
  <2>7. QED BY <2>1, <2>3, <2>4, <2>5, <2>6 DEF Next
<1>2. QED BY <1>1, InvHolds, PTL DEF Spec, LockHonoured

-----------------------------------------------------------------------------
(* The order of first deliveries.  FreshInOrder is not inductive: it needs *)
(* that the events never handed out are all available, and in order there, *)
(* whatever has been handed out, released or expired around them.          *)
Fresh(s) == {e \in Event : deliveryCount[s][e] = 0}

InOrderFor(s) ==
  LET queue == AvailableIn(s) IN
  /\ (Held(s) \cup resolved[s]) \cap Fresh(s) = {}
  /\ \A e \in Event : e > published => e \in Fresh(s)
  /\ \A i, j \in 1..Len(queue) :
       i < j /\ queue[i] \in Fresh(s) /\ queue[j] \in Fresh(s) => queue[i] < queue[j]
  /\ \A d, e \in 1..published : d < e /\ d \in Fresh(s) => e \in Fresh(s)

OrderInv == Inv /\ \A s \in Sub : InOrderFor(s)

LEMMA PublishInOrder ==
  ASSUME TypeOK, NEW k \in 1..MaxBatch, Publish(k), NEW s \in Sub, Partitioned(s),
         InOrderFor(s)
  PROVE  InOrderFor(s)'
<1> DEFINE new == Numbers(published + 1, published + k)
           queue == AvailableIn(s)
<1>1. /\ published \in Nat /\ k \in Nat /\ published + k <= MaxEvent
      /\ published' = published + k /\ MaxEvent \in Nat
      /\ Held(s)' = Held(s) /\ resolved' = resolved /\ Fresh(s)' = Fresh(s)
  BY EventGridAssumption DEF Publish, TypeOK, Held, Fresh
<1>2. AvailableIn(s)' = queue \o new
  BY PublishedView
<1>3. /\ new \in Seq(Event) /\ Len(new) = k
      /\ \A i \in 1..k : new[i] = published + i
  <2>1. /\ published + 1 \in Nat \ {0} /\ published + k \in Nat
        /\ published + 1 <= (published + k) + 1
    BY <1>1
  <2>2. /\ new \in Seq(Event) /\ Len(new) = (published + k) - (published + 1) + 1
        /\ \A i \in 1..((published + k) - (published + 1) + 1) :
             new[i] = (published + 1) + i - 1
    BY <1>1, <2>1, NumbersProperties
  <2>3. QED BY <1>1, <2>2
<1>4. queue \in Seq(Event) /\ Len(queue) \in Nat
  BY AvailableInType
<1> HIDE DEF new
<1>5. \A i \in 1..Len(queue) : queue[i] \in 1..published
  BY DEF Partitioned, Elements
<1> HIDE DEF queue
<1>6. /\ Len(queue \o new) = Len(queue) + k
      /\ \A i \in 1..(Len(queue) + k) : (queue \o new)[i] =
           IF i <= Len(queue) THEN queue[i] ELSE new[i - Len(queue)]
  BY <1>3, <1>4, ConcatProperties
<1>7. ASSUME NEW i \in 1..(Len(queue) + k), NEW j \in 1..(Len(queue) + k), i < j,
             (queue \o new)[i] \in Fresh(s), (queue \o new)[j] \in Fresh(s)
      PROVE  (queue \o new)[i] < (queue \o new)[j]
  <2>1. CASE j <= Len(queue)
    <3>1. i \in 1..Len(queue) /\ j \in 1..Len(queue)
      BY <1>4, <1>7, <2>1
    <3>2. (queue \o new)[i] = queue[i] /\ (queue \o new)[j] = queue[j]
      BY <1>6, <3>1
    <3>3. QED BY <1>7, <3>1, <3>2 DEF InOrderFor, queue
  <2>2. CASE i <= Len(queue) /\ ~(j <= Len(queue))
    <3>1. i \in 1..Len(queue) /\ j - Len(queue) \in 1..k
      BY <1>1, <1>4, <2>2
    <3>2. (queue \o new)[i] \in 1..published /\ (queue \o new)[j] = published + (j - Len(queue))
      BY <1>3, <1>5, <1>6, <2>2, <3>1
    <3>3. QED BY <1>1, <1>4, <3>1, <3>2
  <2>3. CASE ~(i <= Len(queue)) /\ ~(j <= Len(queue))
    <3>1. i - Len(queue) \in 1..k /\ j - Len(queue) \in 1..k
      BY <1>1, <1>4, <2>3
    <3>2. /\ (queue \o new)[i] = published + (i - Len(queue))
          /\ (queue \o new)[j] = published + (j - Len(queue))
      BY <1>3, <1>6, <2>3, <3>1
    <3>3. QED BY <1>1, <1>4, <1>7, <3>2
  <2>4. QED BY <1>4, <1>7, <2>1, <2>2, <2>3
<1>8. \A e \in Event : e > published' => e \in Fresh(s)
  BY <1>1 DEF InOrderFor, Event
<1>9. ASSUME NEW d \in 1..published', NEW e \in 1..published', d < e, d \in Fresh(s)
      PROVE  e \in Fresh(s)
  <2>1. CASE e <= published
    BY <1>1, <1>9, <2>1 DEF InOrderFor
  <2>2. CASE ~(e <= published)
    BY <1>1, <2>2 DEF InOrderFor, Event
  <2>3. QED BY <2>1, <2>2
<1>10. (Held(s) \cup resolved[s]) \cap Fresh(s) = {}
  BY DEF InOrderFor
<1>11. QED BY <1>1, <1>2, <1>6, <1>7, <1>8, <1>9, <1>10 DEF InOrderFor

(* Events handed out before that go back to the end do not disturb it.     *)
LEMMA StaleAtTheBack ==
  ASSUME NEW q \in Seq(Event), NEW order \in Seq(Event), NEW F,
         Elements(order) \cap F = {},
         \A i, j \in 1..Len(q) : i < j /\ q[i] \in F /\ q[j] \in F => q[i] < q[j]
  PROVE  \A i, j \in 1..Len(q \o order) :
           i < j /\ (q \o order)[i] \in F /\ (q \o order)[j] \in F
             => (q \o order)[i] < (q \o order)[j]
<1>1. /\ Len(q \o order) = Len(q) + Len(order)
      /\ Len(q) \in Nat /\ Len(order) \in Nat
      /\ \A i \in 1..(Len(q) + Len(order)) : (q \o order)[i] =
           IF i <= Len(q) THEN q[i] ELSE order[i - Len(q)]
  BY ConcatProperties
<1>2. ASSUME NEW i \in 1..Len(q \o order), (q \o order)[i] \in F
      PROVE  i \in 1..Len(q) /\ (q \o order)[i] = q[i]
  <2>1. CASE i <= Len(q)
    BY <1>1, <2>1
  <2>2. CASE ~(i <= Len(q))
    <3>1. i - Len(q) \in 1..Len(order) /\ (q \o order)[i] = order[i - Len(q)]
      BY <1>1, <2>2
    <3>2. QED BY <1>2, <3>1 DEF Elements
  <2>3. QED BY <2>1, <2>2
<1>3. QED BY <1>2

LEMMA ReceiveInOrder ==
  ASSUME TypeOK, FreshTokens, NEW s \in Sub, NEW max \in 1..MaxBatch, Receive(s, max),
         Partitioned(s), InOrderFor(s)
  PROVE  InOrderFor(s)'
<1>1. PICK order \in Orderings(Expired(s)), n \in Nat : Hands(s, AvailableIn(s) \o order, n)
  BY Received
<1> DEFINE queue == AvailableIn(s) \o order
           rest == SubSeq(queue, n + 1, Len(queue))
           out == {queue[i] : i \in 1..n}
<1>2. /\ queue \in Seq(Event)
      /\ Elements(queue) = Elements(AvailableIn(s)) \cup Expired(s)
      /\ AvailableIn(s) \in Seq(Event)
  BY ReceivedQueue, AvailableInType
<1>3. Hands(s, queue, n)
  BY <1>1
<1>4. /\ order \in Seq(Event) /\ Elements(order) = Expired(s)
      /\ Expired(s) \subseteq Held(s)
  BY HeldType, OrderingsProperties
<1>5. \A i, j \in 1..Len(queue) :
        i < j /\ queue[i] \in Fresh(s) /\ queue[j] \in Fresh(s) => queue[i] < queue[j]
  <2>1. Elements(order) \cap Fresh(s) = {}
    BY <1>4 DEF InOrderFor
  <2>2. \A i, j \in 1..Len(AvailableIn(s)) :
          /\ i < j /\ AvailableIn(s)[i] \in Fresh(s) /\ AvailableIn(s)[j] \in Fresh(s)
          => AvailableIn(s)[i] < AvailableIn(s)[j]
    BY DEF InOrderFor
  <2>3. QED BY <1>2, <1>4, <2>1, <2>2, StaleAtTheBack
<1> HIDE DEF queue
<1>6. /\ n <= Len(queue) /\ Len(queue) \in Nat
      /\ published' = published /\ resolved' = resolved /\ published \in Nat
  BY <1>2, <1>3 DEF Hands, TypeOK
<1>7. Fresh(s)' = Fresh(s) \ out
  <2>1. \A e \in Event : deliveryCount'[s][e] =
          IF e \in out THEN deliveryCount[s][e] + 1 ELSE deliveryCount[s][e]
    BY <1>3 DEF Hands, TypeOK
  <2>2. \A e \in Event : deliveryCount[s][e] \in Nat
    BY DEF TypeOK
  <2>3. QED BY <2>1, <2>2 DEF Fresh
<1>8. AvailableIn(s)' = rest
  BY <1>3 DEF Hands, AvailableIn, TypeOK
<1>9. /\ Len(rest) = Len(queue) - n
      /\ \A i \in 1..(Len(queue) - n) : rest[i] = queue[n + i]
  <2>1. \A i \in (n + 1)..Len(queue) : queue[i] \in Event
    BY <1>2, <1>6
  <2>2. /\ Len(rest) = IF n + 1 <= Len(queue) THEN Len(queue) - (n + 1) + 1 ELSE 0
        /\ \A i \in 1..(Len(queue) - (n + 1) + 1) : rest[i] = queue[(n + 1) + i - 1]
    BY <1>6, <2>1, SubSeqProperties
  <2>3. QED BY <1>6, <2>2
<1> HIDE DEF rest
<1>10. \A i, j \in 1..Len(rest) :
         i < j /\ rest[i] \in Fresh(s)' /\ rest[j] \in Fresh(s)' => rest[i] < rest[j]
  <2> SUFFICES ASSUME NEW i \in 1..Len(rest), NEW j \in 1..Len(rest), i < j,
                      rest[i] \in Fresh(s)', rest[j] \in Fresh(s)'
               PROVE  rest[i] < rest[j]
    OBVIOUS
  <2>1. n + i \in 1..Len(queue) /\ n + j \in 1..Len(queue) /\ n + i < n + j
    BY <1>6, <1>9
  <2>2. rest[i] = queue[n + i] /\ rest[j] = queue[n + j]
    BY <1>9
  <2>3. QED BY <1>5, <1>7, <2>1, <2>2
<1>11. ASSUME NEW d \in 1..published, NEW e \in 1..published, d < e, d \in Fresh(s)'
       PROVE  e \in Fresh(s)'
  <2>1. d \in Fresh(s) /\ d \notin out /\ e \in Fresh(s)
    BY <1>7, <1>11 DEF InOrderFor
  <2>2. d \in Elements(queue)
    BY <1>2, <2>1 DEF Partitioned, InOrderFor
  <2>3. PICK i \in 1..Len(queue) : queue[i] = d
    BY <2>2 DEF Elements
  <2>4. ~(i <= n)
    BY <2>1, <2>3
  <2>5. ASSUME NEW j \in 1..n, queue[j] = e PROVE FALSE
    <3>1. j < i /\ j \in 1..Len(queue)
      BY <1>6, <2>4
    <3>2. e < d
      BY <1>5, <2>1, <2>3, <2>5, <3>1
    <3>3. QED BY <1>6, <1>11, <3>2
  <2>6. QED BY <1>7, <2>1, <2>5
<1>12. (Held(s)' \cup resolved'[s]) \cap Fresh(s)' = {}
  <2>1. Elements(rest) = Elements(AvailableIn(s))' /\ out \subseteq Event
    <3>1. \A i \in 1..n : i \in 1..Len(queue)
      BY <1>6
    <3>2. QED BY <1>2, <1>8, <3>1 DEF Elements
  <2>2. ASSUME NEW e \in Held(s)' PROVE e \in Held(s) \/ e \in out
    <3>1. PICK t \in Token : locked'[s][t] = e /\ e # NoEvent
      BY DEF Held
    <3>2. issued \in Nat /\ t \in Nat
      BY EventGridAssumption DEF TypeOK, Token
    <3>3. CASE t \in (issued + 1)..(issued + n)
      <4>1. e = queue[t - issued]
        BY <1>3, <3>1, <3>3 DEF Hands, TypeOK
      <4>2. t - issued \in 1..n
        BY <3>2, <3>3
      <4>3. QED BY <4>1, <4>2
    <3>4. CASE t \notin (issued + 1)..(issued + n)
      BY <1>3, <3>1, <3>4 DEF Hands, TypeOK, Held
    <3>5. QED BY <3>3, <3>4
  <2>3. QED BY <1>6, <1>7, <2>2 DEF InOrderFor
<1>13. \A e \in Event : e > published => e \in Fresh(s)'
  <2>1. out \subseteq Elements(queue)
    BY <1>6 DEF Elements
  <2>2. Elements(queue) \subseteq 1..published
    BY <1>2, <1>4 DEF Partitioned
  <2> HIDE DEF out
  <2>3. \A e \in Event : e > published => e \notin out
    <3>1. \A e \in out : e \in Nat /\ e <= published
      BY <1>6, <2>1, <2>2
    <3>2. QED BY <1>6, <3>1 DEF Event
  <2>4. QED BY <1>7, <2>3 DEF InOrderFor
<1>14. QED BY <1>6, <1>8, <1>10, <1>11, <1>12, <1>13 DEF InOrderFor

LEMMA RequestInOrder ==
  ASSUME TypeOK, NEW s \in Sub, NEW tokens \in Requests, Partitioned(s), InOrderFor(s),
         Acknowledge(s, tokens) \/ Release(s, tokens) \/ RenewLocks(s, tokens)
  PROVE  InOrderFor(s)'
<1>1. published' = published /\ Fresh(s)' = Fresh(s)
  BY DEF Acknowledge, Release, RenewLocks, Fresh
<1>2. Named(s, tokens) \subseteq Held(s) /\ Held(s) \in SUBSET Event
  BY HeldType
<1>3. CASE Acknowledge(s, tokens)
  <2>1. AvailableIn(s)' = AvailableIn(s)
    BY <1>3 DEF Acknowledge, AvailableIn, TypeOK
  <2>2. Held(s)' = Held(s) \ Named(s, tokens)
    BY <1>3, UnlockHeld DEF Acknowledge, Partitioned
  <2>3. resolved'[s] = resolved[s] \cup Named(s, tokens)
    BY <1>3 DEF Acknowledge, TypeOK
  <2>4. (Held(s)' \cup resolved'[s]) \cap Fresh(s) = {}
    BY <1>2, <2>2, <2>3 DEF InOrderFor
  <2>5. QED BY <1>1, <2>1, <2>4 DEF InOrderFor
<1>4. CASE Release(s, tokens)
  <2>1. PICK order \in Orderings(Named(s, tokens)) : Release(s, tokens)!(order)
    BY <1>4 DEF Release
  <2>2. order \in Seq(Event) /\ Elements(order) = Named(s, tokens)
    BY <1>2, OrderingsProperties
  <2>3. AvailableIn(s)' = AvailableIn(s) \o order /\ AvailableIn(s) \in Seq(Event)
    BY <2>1, AvailableInType DEF AvailableIn, TypeOK
  <2>4. Held(s)' = Held(s) \ Named(s, tokens) /\ resolved' = resolved
    BY <2>1, UnlockHeld DEF Partitioned
  <2>5. Elements(order) \cap Fresh(s) = {}
    BY <1>2, <2>2 DEF InOrderFor
  <2>6. \A i, j \in 1..Len(AvailableIn(s)) :
          /\ i < j /\ AvailableIn(s)[i] \in Fresh(s) /\ AvailableIn(s)[j] \in Fresh(s)
          => AvailableIn(s)[i] < AvailableIn(s)[j]
    BY DEF InOrderFor
  <2> DEFINE queue == AvailableIn(s) \o order
  <2>7. \A i, j \in 1..Len(queue) :
          i < j /\ queue[i] \in Fresh(s) /\ queue[j] \in Fresh(s) => queue[i] < queue[j]
    BY <2>2, <2>3, <2>5, <2>6, StaleAtTheBack
  <2>8. (Held(s)' \cup resolved'[s]) \cap Fresh(s) = {}
    BY <2>4 DEF InOrderFor
  <2> HIDE DEF queue
  <2>9. AvailableIn(s)' = queue
    BY <2>3 DEF queue
  <2>10. QED BY <1>1, <2>7, <2>8, <2>9 DEF InOrderFor
<1>5. CASE RenewLocks(s, tokens)
  <2>1. AvailableIn(s)' = AvailableIn(s) /\ UNCHANGED <<locked, resolved>>
    BY <1>5 DEF RenewLocks, AvailableIn, TypeOK
  <2>2. Held(s)' = Held(s)
    BY <2>1 DEF Held
  <2>3. QED BY <1>1, <2>1, <2>2 DEF InOrderFor
<1>6. QED BY <1>3, <1>4, <1>5

LEMMA OrderInvStep == OrderInv /\ [Next]_vars => OrderInv'
<1> SUFFICES ASSUME OrderInv, [Next]_vars PROVE OrderInv'
  OBVIOUS
<1> USE DEF OrderInv, Inv
<1>1. Inv'
  BY InvStep
<1>2. ASSUME NEW r \in Sub, published' = published,
             r \in subs' <=> r \in subs, available'[r] = available[r],
             locked'[r] = locked[r], resolved'[r] = resolved[r],
             deliveryCount'[r] = deliveryCount[r]
      PROVE  InOrderFor(r)'
  <2>1. AvailableIn(r)' = AvailableIn(r) /\ Held(r)' = Held(r) /\ Fresh(r)' = Fresh(r)
    BY <1>2 DEF AvailableIn, Held, Fresh
  <2>2. QED BY <1>2, <2>1 DEF InOrderFor
<1>3. ASSUME NEW k \in 1..MaxBatch, Publish(k), NEW r \in Sub PROVE InOrderFor(r)'
  BY <1>3, PublishInOrder
<1>4. ASSUME NEW s \in Sub, NEW max \in 1..MaxBatch, Receive(s, max), NEW r \in Sub
      PROVE  InOrderFor(r)'
  <2>1. CASE r = s
    BY <1>1, <1>4, <2>1, ReceiveInOrder
  <2>2. CASE r # s
    <3>1. PICK order \in Orderings(Expired(s)), n \in Nat :
                 Hands(s, AvailableIn(s) \o order, n)
      BY <1>4, Received
    <3>2. /\ published' = published /\ (r \in subs' <=> r \in subs)
          /\ available'[r] = available[r] /\ locked'[r] = locked[r]
          /\ resolved'[r] = resolved[r] /\ deliveryCount'[r] = deliveryCount[r]
      BY <2>2, <3>1 DEF Hands, TypeOK
    <3>3. QED BY <1>2, <3>2
  <2>3. QED BY <2>1, <2>2
<1>5. ASSUME NEW s \in Sub, NEW tokens \in Requests, NEW r \in Sub,
             Acknowledge(s, tokens) \/ Release(s, tokens) \/ RenewLocks(s, tokens)
      PROVE  InOrderFor(r)'
  <2>1. CASE r = s
    BY <1>5, <2>1, RequestInOrder
  <2>2. CASE r # s
    <3>1. /\ published' = published /\ (r \in subs' <=> r \in subs)
          /\ available'[r] = available[r] /\ locked'[r] = locked[r]
          /\ resolved'[r] = resolved[r] /\ deliveryCount'[r] = deliveryCount[r]
      BY <1>5, <2>2 DEF Acknowledge, Release, RenewLocks, Unlock, TypeOK
    <3>2. QED BY <1>2, <3>1
  <2>3. QED BY <2>1, <2>2
<1>6. ASSUME Tick \/ UNCHANGED vars, NEW r \in Sub PROVE InOrderFor(r)'
  BY <1>2, <1>6 DEF Tick, vars
<1>7. QED BY <1>1, <1>3, <1>4, <1>5, <1>6 DEF Next

(* An event not handed out before is never handed out ahead of an older    *)
(* one: resolve and sweepExpired put what comes back at the end.           *)
THEOREM FreshEventsInOrder == Spec => []FreshInOrder
<1>1. Init => OrderInv
  <2> SUFFICES ASSUME Init, NEW s \in Sub PROVE InOrderFor(s)
    BY InvInit DEF OrderInv
  <2>1. published = 0 /\ Fresh(s) = Event /\ Held(s) = {} /\ resolved[s] = {}
    BY DEF Init, Fresh, Held
  <2>2. AvailableIn(s) = Numbers(1, 0)
    BY DEF Init, AvailableIn
  <2>3. Len(Numbers(1, 0)) = 0
    BY DEF Numbers
  <2>4. QED BY <2>1, <2>2, <2>3 DEF InOrderFor
<1>2. OrderInv => FreshInOrder
  <2> SUFFICES ASSUME OrderInv, NEW s \in subs, NEW d \in 1..published, NEW e \in 1..published,
                      d < e, deliveryCount[s][e] > 0
               PROVE  deliveryCount[s][d] > 0
    BY DEF FreshInOrder
  <2>1. s \in Sub /\ d \in Event /\ e \in Event
    BY EventGridAssumption DEF OrderInv, Inv, TypeOK, Event
  <2>2. deliveryCount[s][d] \in Nat /\ e \notin Fresh(s)
    BY <2>1 DEF OrderInv, Inv, TypeOK, Fresh
  <2>3. d \notin Fresh(s)
    BY <2>1, <2>2 DEF OrderInv, InOrderFor
  <2>4. QED BY <2>1, <2>2, <2>3 DEF Fresh
<1>3. QED BY <1>1, <1>2, OrderInvStep, PTL DEF Spec
=============================================================================
