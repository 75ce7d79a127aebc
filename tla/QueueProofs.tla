----------------------------- MODULE QueueProofs -----------------------------
(***************************************************************************)
(* The queues keep their messages and hand each to one holder at a time,   *)
(* for every value of the constants; and what loops over sequences lead    *)
(* to.                                                                     *)
(***************************************************************************)
EXTENDS Stores, FiniteSetTheorems, SequenceTheorems, WellFoundedInduction, TLAPS

(* Induction, and what a loop leads to.                                    *)
LEMMA NatSets ==
  ASSUME NEW S, 0 \in S, \A x \in Nat : x \in S => x + 1 \in S
  PROVE  Nat \subseteq S
<1> DEFINE T == Nat \ S
           R == {p \in Nat \X Nat : p[1] < p[2]}
<1> SUFFICES ASSUME T # {} PROVE FALSE
  OBVIOUS
<1>1. IsWellFoundedOn(R, Nat)
  BY NatLessThanWellFounded DEF OpToRel, R
<1>2. PICK m \in T : \A x \in T : ~(<<x, m>> \in R)
  <2> HIDE DEF R
  <2> QED
    BY <1>1, WFMin
<1>3. m # 0 /\ m \in Nat /\ m \notin S
  OBVIOUS
<1>4. m - 1 \in Nat /\ m - 1 \in T
  <2>1. m - 1 \in Nat
    BY <1>3
  <2>2. m = (m - 1) + 1
    BY <1>3
  <2> QED
    BY <1>3, <2>1, <2>2
<1>5. <<m - 1, m>> \in R
  BY <1>3, <1>4
<1> QED
  BY <1>2, <1>4, <1>5

LEMMA Iterates ==
  ASSUME NEW S, NEW first \in S, NEW N \in Nat, NEW G \in [1..N -> [S -> S]]
  PROVE  \E f \in [0..N -> S] : f[0] = first /\ \A i \in 1..N : f[i] = G[i][f[i - 1]]
<1> DEFINE Upto(x) == \E f \in [0..x -> S] : f[0] = first /\ \A i \in 1..x : f[i] = G[i][f[i - 1]]
           T == {x \in Nat : x > N \/ Upto(x)}
<1>1. 0 \in T
  <2>1. [i \in 0..0 |-> first] \in [0..0 -> S]
    OBVIOUS
  <2>2. [i \in 0..0 |-> first][0] = first /\ 1..0 = {}
    OBVIOUS
  <2>3. Upto(0)
    BY <2>1, <2>2
  <2> QED
    BY <2>3
<1>2. ASSUME NEW x \in Nat, x \in T PROVE x + 1 \in T
  <2>1. CASE x + 1 > N
    BY <2>1
  <2>2. CASE ~(x + 1 > N)
    <3>1. PICK f \in [0..x -> S] : f[0] = first /\ \A i \in 1..x : f[i] = G[i][f[i - 1]]
      BY <1>2, <2>2
    <3> DEFINE g == [i \in 0..(x + 1) |-> IF i = x + 1 THEN G[x + 1][f[x]] ELSE f[i]]
    <3>2. f[x] \in S /\ x + 1 \in 1..N
      BY <3>1, <2>2
    <3>3. G[x + 1][f[x]] \in S
      BY <3>2
    <3>4. g \in [0..(x + 1) -> S]
      BY <3>3
    <3>5. g[0] = first
      BY <3>1
    <3>6. ASSUME NEW i \in 1..(x + 1) PROVE g[i] = G[i][g[i - 1]]
      <4>1. CASE i = x + 1
        <5>1. g[i - 1] = f[x]
          BY <4>1
        <5> QED
          BY <4>1, <5>1
      <4>2. CASE i # x + 1
        <5>1. i \in 1..x /\ i - 1 \in 0..x /\ i \in 0..(x + 1) /\ i - 1 \in 0..(x + 1) /\ i - 1 # x + 1
          BY <4>2
        <5>2. g[i] = f[i] /\ g[i - 1] = f[i - 1]
          BY <5>1, <4>2
        <5> QED
          BY <3>1, <5>1, <5>2
      <4> QED
        BY <4>1, <4>2
    <3> HIDE DEF g
    <3>7. Upto(x + 1)
      BY <3>4, <3>5, <3>6
    <3> QED
      BY <3>7
  <2> QED
    BY <2>1, <2>2
<1>3. Nat \subseteq T
  <2> HIDE DEF T
  <2> QED
    BY <1>1, <1>2, NatSets
<1>4. N \in T
  BY <1>3
<1> QED
  BY <1>4

-----------------------------------------------------------------------------
(* Sequences without repetition, and what evictExpired leaves of one.      *)
RangeOf(s) == {s[i] : i \in DOMAIN s}
IdsOf(ms) == {m.id : m \in ms}
Distinct(ms) == \A i, j \in DOMAIN ms : ms[i].id = ms[j].id => i = j
Unexpired(ms) == {ms[i] : i \in {j \in DOMAIN ms : ~Queues!expired(ms[j])}}

LEMMA AppendIs ==
  ASSUME NEW A, NEW s \in Seq(A), NEW a \in A
  PROVE  /\ Append(s, a) \in Seq(A)
         /\ RangeOf(Append(s, a)) = RangeOf(s) \cup {a}
         /\ DOMAIN Append(s, a) = DOMAIN s \cup {Len(s) + 1}
         /\ \A i \in DOMAIN s : Append(s, a)[i] = s[i]
         /\ Append(s, a)[Len(s) + 1] = a
<1>1. /\ Append(s, a) \in Seq(A)
      /\ DOMAIN Append(s, a) = DOMAIN s \cup {Len(s) + 1}
      /\ \A i \in DOMAIN s : Append(s, a)[i] = s[i]
      /\ Append(s, a)[Len(s) + 1] = a
  OBVIOUS
<1> QED
  BY <1>1 DEF RangeOf

LEMMA AppendDistinct ==
  ASSUME NEW A, NEW s \in Seq(A), NEW a \in A, Distinct(s), a.id \notin IdsOf(RangeOf(s))
  PROVE  Distinct(Append(s, a))
<1>1. \A i \in DOMAIN s : s[i].id # a.id
  BY DEF IdsOf, RangeOf
<1> QED
  BY <1>1, AppendIs DEF Distinct

(* evictExpired keeps what has not expired, each once.                     *)
LEMMA Evicted ==
  ASSUME NEW A, NEW ms \in Seq(A), Distinct(ms)
  PROVE  /\ Queues!evictExpired(ms) \in Seq(A)
         /\ Distinct(Queues!evictExpired(ms))
         /\ RangeOf(Queues!evictExpired(ms)) = Unexpired(ms)
<1> DEFINE N == Len(ms)
           step == [i \in 1..N |->
                      [s \in Seq(A) |-> IF Queues!expired(ms[i]) THEN s ELSE Append(s, ms[i])]]
           loop(f) == [i \in 0..N |-> IF i = 0 THEN <<>> 
                                      ELSE IF Queues!expired(ms[i]) THEN f[i - 1]
                                      ELSE Append(f[i - 1], ms[i])]
<1>1. N \in Nat /\ \A i \in 1..N : i \in DOMAIN ms /\ ms[i] \in A
  OBVIOUS
<1>2. step \in [1..N -> [Seq(A) -> Seq(A)]]
  <2>1. ASSUME NEW i \in 1..N, NEW s \in Seq(A)
        PROVE  (IF Queues!expired(ms[i]) THEN s ELSE Append(s, ms[i])) \in Seq(A)
    BY <1>1
  <2> QED
    BY <2>1
<1>3. PICK f \in [0..N -> Seq(A)] : f[0] = <<>> /\ \A i \in 1..N : f[i] = step[i][f[i - 1]]
  <2> DEFINE S == Seq(A)
  <2>1. <<>> \in S /\ N \in Nat /\ step \in [1..N -> [S -> S]]
    BY <1>1, <1>2
  <2>2. \E f \in [0..N -> S] : f[0] = <<>> /\ \A i \in 1..N : f[i] = step[i][f[i - 1]]
    <3> HIDE DEF step, N, S
    <3> QED
      BY <2>1, Iterates
  <2> QED
    BY <2>2
<1>4. f = loop(f)
  <2>1. ASSUME NEW i \in 1..N
        PROVE  f[i] = IF Queues!expired(ms[i]) THEN f[i - 1] ELSE Append(f[i - 1], ms[i])
    <3>1. i - 1 \in 0..N
      BY <1>1
    <3>2. f[i - 1] \in Seq(A)
      BY <1>3, <3>1
    <3>3. f[i] = step[i][f[i - 1]]
      BY <1>3
    <3> HIDE DEF N
    <3> QED
      BY <3>2, <3>3
  <2>2. DOMAIN f = 0..N /\ f[0] = <<>> /\ \A i \in 0..N : i # 0 => i \in 1..N
    BY <1>1, <1>3
  <2>3. f = [i \in 0..N |-> f[i]]
    BY <1>3
  <2> HIDE DEF N
  <2> QED
    BY <2>1, <2>2, <2>3
<1> DEFINE rest == CHOOSE g : g = loop(g)
<1>5. rest = loop(rest)
  BY <1>4
<1>6. Queues!evictExpired(ms) = rest[N]
  BY DEF Queues!evictExpired
<1> HIDE DEF rest
<1> DEFINE Good(i) == 
      /\ rest[i] \in Seq(A)
      /\ Distinct(rest[i])
      /\ RangeOf(rest[i]) = {ms[j] : j \in {k \in 1..i : ~Queues!expired(ms[k])}}
    T == {i \in Nat : i <= N => Good(i)}
<1>7. 0 \in T
  <2>1. rest[0] = <<>>
    BY <1>1, <1>5
  <2>2. RangeOf(<<>>) = {} /\ Distinct(<<>>) /\ <<>> \in Seq(A)
    BY DEF RangeOf, Distinct
  <2>3. Good(0)
    BY <2>1, <2>2
  <2> QED
    BY <2>3
<1>8. ASSUME NEW i \in Nat, i \in T PROVE i + 1 \in T
  <2> SUFFICES ASSUME i + 1 <= N PROVE Good(i + 1)
    OBVIOUS
  <2>1. Good(i) /\ i + 1 \in 1..N /\ i + 1 \in DOMAIN ms /\ ms[i + 1] \in A
    BY <1>1, <1>8
  <2>2. rest[i + 1] = IF Queues!expired(ms[i + 1]) THEN rest[i] ELSE Append(rest[i], ms[i + 1])
    <3> HIDE DEF N, Good
    <3>1. i + 1 \in 0..N /\ i + 1 # 0 /\ (i + 1) - 1 = i
      BY <1>1, <2>1
    <3> QED
      BY <1>5, <3>1
  <2>3. CASE Queues!expired(ms[i + 1])
    <3>1. {k \in 1..(i + 1) : ~Queues!expired(ms[k])} = {k \in 1..i : ~Queues!expired(ms[k])}
      BY <2>3
    <3> QED
      BY <2>1, <2>2, <2>3, <3>1
  <2>4. CASE ~Queues!expired(ms[i + 1])
    <3>1. {k \in 1..(i + 1) : ~Queues!expired(ms[k])}
             = {k \in 1..i : ~Queues!expired(ms[k])} \cup {i + 1}
      BY <2>4
    <3>2. ms[i + 1].id \notin IdsOf(RangeOf(rest[i]))
      <4>1. \A k \in 1..i : k \in DOMAIN ms /\ k # i + 1
        BY <1>1, <2>1
      <4>2. \A k \in 1..i : ms[k].id # ms[i + 1].id
        BY <2>1, <4>1 DEF Distinct
      <4> QED
        BY <2>1, <4>2 DEF IdsOf
    <3>3. Distinct(Append(rest[i], ms[i + 1]))
      BY <2>1, <3>2, AppendDistinct
    <3>4. /\ Append(rest[i], ms[i + 1]) \in Seq(A)
          /\ RangeOf(Append(rest[i], ms[i + 1])) = RangeOf(rest[i]) \cup {ms[i + 1]}
      BY <2>1, AppendIs
    <3> QED
      BY <2>1, <2>2, <2>4, <3>1, <3>3, <3>4
  <2> QED
    BY <2>3, <2>4
<1>9. Nat \subseteq T
  <2> HIDE DEF T
  <2> QED
    BY <1>7, <1>8, NatSets
<1>10. Good(N)
  <2>1. N \in T
    <3> HIDE DEF T, N
    <3> QED
      BY <1>1, <1>9
  <2>2. N <= N
    BY <1>1
  <2> HIDE DEF N, Good
  <2> QED
    BY <2>1, <2>2
<1>11. DOMAIN ms = 1..N
  OBVIOUS
<1> QED
  BY <1>6, <1>10, <1>11 DEF Unexpired

-----------------------------------------------------------------------------
(* The inductive invariant of the queues.                                  *)
Copies == [Queue -> Queues!Content \cup {NoQueue}]
Requests == [handed : SUBSET Queues!Message, added : SUBSET Queues!Message,
             removed : SUBSET Queues!Msg, by : 0..MaxReceipt]

(* The messages of a queue, in memory or on disk, and of all of them.      *)
In(copy, q) == RangeOf(Queues!MessagesOf(copy[q]))
Held(copy) == UNION {In(copy, q) : q \in Queue}

ApartIn(copy) ==
  /\ \A q \in Queue : Distinct(Queues!MessagesOf(copy[q]))
  /\ \A q, r \in Queue : \A m \in In(copy, q), o \in In(copy, r) : m.id = o.id => q = r

QueueTypes ==
  /\ mem \in Copies /\ disk \in Copies
  /\ up \in BOOLEAN
  /\ issued \in 0..MaxMsg /\ receipts \in 0..MaxReceipt /\ now \in 0..MaxTime
  /\ kept \subseteq Queues!Message /\ gone \subseteq Queues!Msg
  /\ holder \in [Queues!Msg -> Queues!Message \cup {Nobody}]
  /\ queueRequest = None \/ queueRequest \in Requests

(* Ids are drawn one after the other.                                      *)
Numbered ==
  /\ \A m \in Held(mem) \cup Held(disk) \cup kept : m.id <= issued
  /\ \A id \in gone : id <= issued
  /\ \A id \in Queues!Msg : holder[id] # Nobody => id <= issued

SameExpiry ==
  \A k \in kept, m \in Held(mem) \cup Held(disk) : m.id = k.id => m.expires = k.expires

KeptThere ==
  \A k \in kept : ~Queues!expired(k) =>
    k.id \in IdsOf(Held(disk)) /\ (up => k.id \in IdsOf(Held(mem)))

GoneAway == \A m \in Held(mem) \cup Held(disk) : m.id \notin gone

HoldersHave == \A m \in Held(mem) \cup Held(disk) : holder[m.id] # Nobody => m = holder[m.id]

(* What the request that is at persistLocked has done to memory.           *)
Pending ==
  queueRequest # None =>
    /\ up
    /\ queueRequest.added \subseteq Held(mem)
    /\ \A m \in Held(mem) : m.id \notin queueRequest.removed
    /\ \A id \in queueRequest.removed : id <= issued
    /\ \A h \in queueRequest.handed : h.id <= issued
    /\ \A h \in queueRequest.handed, m \in Held(mem) : m.id = h.id => m = h

QueueInv ==
  /\ QueueTypes /\ ApartIn(mem) /\ ApartIn(disk) /\ Numbered /\ SameExpiry /\ KeptThere
  /\ GoneAway /\ HoldersHave /\ Pending

(* How a request that leaves ms in queue q accounts for it.                *)
Moves(q, ms, req) ==
  /\ ms \in Seq(Queues!Message) /\ Distinct(ms)
  /\ req \in Requests
  /\ \A m \in RangeOf(ms) : m \in In(mem, q) \cup req.added \cup req.handed
  /\ \A h \in req.handed : \E o \in In(mem, q) : o.id = h.id /\ o.expires = h.expires
  /\ \A h \in req.handed, m \in RangeOf(ms) : m.id = h.id => m = h
  /\ req.added \subseteq RangeOf(ms)
  /\ \A m \in req.added : m.id = issued + 1 /\ issued' = issued + 1
  /\ \A id \in req.removed : id \in IdsOf(In(mem, q)) /\ id \notin IdsOf(RangeOf(ms))
  /\ \A o \in In(mem, q) : ~Queues!expired(o) => o.id \in req.removed \cup IdsOf(RangeOf(ms))
  /\ issued' \in {issued, issued + 1} /\ issued' <= MaxMsg
  /\ receipts' \in 0..MaxReceipt

LEMMA CopyTyped ==
  ASSUME NEW copy \in Copies, NEW q \in Queue
  PROVE  /\ Queues!MessagesOf(copy[q]) \in Seq(Queues!Message)
         /\ \A m \in In(copy, q) : m \in Queues!Message /\ m \in Held(copy)
<1>1. Queues!MessagesOf(copy[q]) \in Seq(Queues!Message)
  BY DEF Copies, Queues!MessagesOf, Queues!Content
<1> QED
  BY <1>1 DEF In, RangeOf, Held

LEMMA MessageTyped ==
  ASSUME NEW m \in Queues!Message
  PROVE  m.id \in Queues!Msg /\ m.id \in Nat /\ m.visible \in Nat
         /\ m.expires \in Nat \cup {Infinite} /\ m.receipt \in 0..MaxReceipt
  BY StoresAssumption DEF Queues!Message, Queues!Msg

LEMMA HeldTyped ==
  ASSUME NEW copy \in Copies, NEW m \in Held(copy)
  PROVE  m \in Queues!Message /\ \E q \in Queue : m \in In(copy, q)
<1>1. PICK q \in Queue : m \in In(copy, q)
  BY DEF Held
<1> QED
  BY <1>1, CopyTyped

(* Ids tell the messages of a copy apart.                                  *)
LEMMA OnlyOne ==
  ASSUME NEW copy, ApartIn(copy), NEW m \in Held(copy), NEW o \in Held(copy), m.id = o.id
  PROVE  m = o
<1>1. PICK q \in Queue : m \in In(copy, q)
  BY DEF Held
<1>2. PICK r \in Queue : o \in In(copy, r)
  BY DEF Held
<1>3. q = r
  BY <1>1, <1>2 DEF ApartIn
<1> QED
  BY <1>1, <1>2, <1>3 DEF ApartIn, In, RangeOf, Distinct

-----------------------------------------------------------------------------
(* A change of one queue's messages.                                       *)
LEMMA ChangeIn ==
  ASSUME QueueTypes, NEW q \in Queue, NEW content \in Queues!Content \cup {NoQueue}, NEW req,
         Queues!Change(q, content, req)
  PROVE  /\ mem' \in Copies
         /\ In(mem', q) = RangeOf(Queues!MessagesOf(content))
         /\ Queues!MessagesOf(mem'[q]) = Queues!MessagesOf(content)
         /\ \A r \in Queue : r # q => mem'[r] = mem[r] /\ In(mem', r) = In(mem, r)
<1>1. mem' = [mem EXCEPT ![q] = content] /\ mem \in Copies
  BY DEF Queues!Change, QueueTypes
<1>2. mem'[q] = content /\ \A r \in Queue : r # q => mem'[r] = mem[r]
  BY <1>1 DEF Copies
<1> QED
  BY <1>1, <1>2 DEF Copies, In

(* What it leaves in memory was there, is added, or is handed out.         *)
LEMMA ChangeHeld ==
  ASSUME QueueInv, NEW q \in Queue, NEW content \in Queues!Content \cup {NoQueue}, NEW req,
         Moves(q, Queues!MessagesOf(content), req), Queues!Change(q, content, req)
  PROVE  \A m \in Held(mem') :
           /\ m \in Queues!Message
           /\ \/ m \in Held(mem)
              \/ m \in req.added /\ m.id = issued + 1 /\ issued' = issued + 1
              \/ m \in req.handed /\ \E o \in Held(mem) : o.id = m.id /\ o.expires = m.expires
<1> SUFFICES ASSUME NEW m \in Held(mem')
             PROVE  /\ m \in Queues!Message
                    /\ \/ m \in Held(mem)
                       \/ m \in req.added /\ m.id = issued + 1 /\ issued' = issued + 1
                       \/ /\ m \in req.handed
                          /\ \E o \in Held(mem) : o.id = m.id /\ o.expires = m.expires
  OBVIOUS
<1>0. QueueTypes /\ mem \in Copies
  BY DEF QueueInv, QueueTypes
<1>1. PICK r \in Queue : m \in In(mem', r)
  BY DEF Held
<1>2. m \in Queues!Message
  BY <1>0, <1>1, ChangeIn, CopyTyped
<1>3. CASE r # q
  BY <1>0, <1>1, <1>2, <1>3, ChangeIn, CopyTyped
<1>4. CASE r = q
  <2>1. m \in RangeOf(Queues!MessagesOf(content))
    BY <1>0, <1>1, <1>4, ChangeIn
  <2>2. m \in In(mem, q) \cup req.added \cup req.handed
    BY <2>1 DEF Moves
  <2>3. CASE m \in In(mem, q)
    BY <1>0, <1>2, <2>3, CopyTyped
  <2>4. CASE m \in req.added
    BY <1>2, <2>4 DEF Moves
  <2>5. CASE m \in req.handed
    <3>1. PICK o \in In(mem, q) : o.id = m.id /\ o.expires = m.expires
      BY <2>5 DEF Moves
    <3>2. o \in Held(mem)
      BY <1>0, CopyTyped
    <3> QED
      BY <1>2, <2>5, <3>1, <3>2
  <2> QED
    BY <2>2, <2>3, <2>4, <2>5
<1> QED
  BY <1>3, <1>4

LEMMA ChangeApart ==
  ASSUME QueueInv, NEW q \in Queue, NEW content \in Queues!Content \cup {NoQueue}, NEW req,
         Moves(q, Queues!MessagesOf(content), req), Queues!Change(q, content, req)
  PROVE  ApartIn(mem')
<1>0. QueueTypes /\ mem \in Copies /\ ApartIn(mem) /\ Numbered /\ issued \in Nat
  BY DEF QueueInv, QueueTypes
<1>1. \A r \in Queue : Distinct(Queues!MessagesOf(mem'[r]))
  BY <1>0, ChangeIn DEF ApartIn, Moves
<1>2. ASSUME NEW m \in In(mem', q), NEW r \in Queue, r # q, NEW o \in In(mem, r)
      PROVE  m.id # o.id
  <2>1. m \in RangeOf(Queues!MessagesOf(content))
    BY <1>0, <1>2, ChangeIn
  <2>2. o.id <= issued /\ o.id \in Nat
    BY <1>0, CopyTyped, MessageTyped DEF Numbered
  <2>3. CASE m \in In(mem, q)
    BY <1>0, <1>2, <2>3 DEF ApartIn
  <2>4. CASE m \in req.added
    BY <1>0, <2>2, <2>4 DEF Moves
  <2>5. CASE m \in req.handed
    <3>1. PICK n_ \in In(mem, q) : n_.id = m.id
      BY <2>5 DEF Moves
    <3> QED
      BY <1>0, <1>2, <3>1 DEF ApartIn
  <2> QED
    BY <2>1, <2>3, <2>4, <2>5 DEF Moves
<1>3. ASSUME NEW r \in Queue, NEW s \in Queue, NEW m \in In(mem', r), NEW o \in In(mem', s),
             m.id = o.id
      PROVE  r = s
  <2>1. CASE r # q /\ s # q
    BY <1>0, <1>3, <2>1, ChangeIn DEF ApartIn
  <2>2. CASE r = q /\ s # q
    BY <1>0, <1>2, <1>3, <2>2, ChangeIn
  <2>3. CASE r # q /\ s = q
    BY <1>0, <1>2, <1>3, <2>3, ChangeIn
  <2> QED
    BY <2>1, <2>2, <2>3
<1> QED
  BY <1>1, <1>3 DEF ApartIn

LEMMA ChangeRest ==
  ASSUME QueueInv, NEW q \in Queue, NEW content \in Queues!Content \cup {NoQueue}, NEW req,
         Moves(q, Queues!MessagesOf(content), req), Queues!Change(q, content, req)
  PROVE  QueueTypes' /\ ApartIn(mem') /\ ApartIn(disk') /\ Numbered'
<1>0. /\ QueueTypes /\ ApartIn(disk) /\ Numbered /\ issued \in Nat
      /\ mem \in Copies /\ disk \in Copies /\ kept \subseteq Queues!Message
  BY DEF QueueInv, QueueTypes
<1>1. /\ queueRequest' = req /\ UNCHANGED <<disk, up, now, gone>>
      /\ kept' = {k \in kept : k.id \notin req.removed}
      /\ holder' = [m \in Queues!Msg |->
                      IF m \in {h.id : h \in req.handed} THEN Nobody ELSE holder[m]]
  BY DEF Queues!Change
<1>2. /\ req \in Requests /\ issued' \in {issued, issued + 1} /\ issued' <= MaxMsg
      /\ receipts' \in 0..MaxReceipt
  BY DEF Moves
<1>3. mem' \in Copies
  BY <1>0, ChangeIn
<1>4. issued' \in 0..MaxMsg /\ issued <= issued'
  BY <1>0, <1>2, StoresAssumption
<1>5. holder' \in [Queues!Msg -> Queues!Message \cup {Nobody}]
  BY <1>0, <1>1 DEF QueueTypes
<1>6. QueueTypes'
  BY <1>0, <1>1, <1>2, <1>3, <1>4, <1>5 DEF QueueTypes
<1>7. ASSUME NEW m \in Held(mem') PROVE m.id <= issued'
  <2>1. m \in Queues!Message
    BY ChangeHeld
  <2>2. CASE m \in Held(mem)
    BY <1>0, <1>2, <2>1, <2>2, MessageTyped DEF Numbered
  <2>3. CASE m.id = issued + 1 /\ issued' = issued + 1
    BY <1>0, <2>3
  <2>4. ASSUME NEW o \in Held(mem), o.id = m.id PROVE m.id <= issued'
    BY <1>0, <1>2, <2>1, <2>4, MessageTyped DEF Numbered
  <2> QED
    BY <2>2, <2>3, <2>4, ChangeHeld
<1>8. \A m \in Held(disk') \cup kept' : m.id <= issued'
  <2> SUFFICES ASSUME NEW m \in Held(disk) \cup kept PROVE m.id <= issued'
    BY <1>1
  <2>1. m \in Queues!Message
    BY <1>0, HeldTyped
  <2> QED
    BY <1>0, <1>2, <2>1, MessageTyped DEF Numbered
<1>9. \A id \in gone' : id <= issued'
  <2> SUFFICES ASSUME NEW id \in gone PROVE id <= issued'
    BY <1>1
  <2>1. id \in Nat /\ id <= issued
    BY <1>0 DEF QueueTypes, Queues!Msg, Numbered
  <2> QED
    BY <1>0, <1>2, <2>1
<1>10. \A id \in Queues!Msg : holder'[id] # Nobody => id <= issued'
  <2> SUFFICES ASSUME NEW id \in Queues!Msg, holder'[id] # Nobody PROVE id <= issued'
    OBVIOUS
  <2>1. id \in Nat /\ holder[id] # Nobody
    BY <1>1 DEF Queues!Msg
  <2> QED
    BY <1>0, <1>2, <2>1 DEF Numbered
<1>11. Numbered'
  BY <1>7, <1>8, <1>9, <1>10 DEF Numbered
<1> QED
  BY <1>0, <1>1, <1>6, <1>11, ChangeApart

LEMMA ChangeMessages ==
  ASSUME QueueInv, NEW q \in Queue, NEW content \in Queues!Content \cup {NoQueue}, NEW req,
         Moves(q, Queues!MessagesOf(content), req), Queues!Change(q, content, req)
  PROVE  SameExpiry' /\ GoneAway' /\ HoldersHave'
<1>0. /\ QueueTypes /\ Numbered /\ issued \in Nat /\ mem \in Copies /\ disk \in Copies
      /\ kept \subseteq Queues!Message /\ SameExpiry /\ GoneAway /\ HoldersHave
      /\ gone \subseteq Queues!Msg
  BY DEF QueueInv, QueueTypes
<1>1. /\ UNCHANGED <<disk, gone>>
      /\ kept' = {k \in kept : k.id \notin req.removed}
      /\ \A id \in Queues!Msg :
           holder'[id] = IF id \in {h.id : h \in req.handed} THEN Nobody ELSE holder[id]
  BY DEF Queues!Change
<1>2. ASSUME NEW m \in Held(mem')
      PROVE  /\ \A k \in kept : m.id = k.id => m.expires = k.expires
             /\ m.id \notin gone
             /\ holder'[m.id] # Nobody => m = holder'[m.id]
  <2>1. m \in Queues!Message /\ m.id \in Queues!Msg
    BY ChangeHeld, MessageTyped
  <2>2. CASE m \in Held(mem)
    BY <1>0, <1>1, <2>1, <2>2 DEF SameExpiry, GoneAway, HoldersHave
  <2>3. CASE m.id = issued + 1
    BY <1>0, <1>1, <2>1, <2>3, MessageTyped DEF Numbered
  <2>4. ASSUME m \in req.handed, NEW o \in Held(mem), o.id = m.id, o.expires = m.expires
        PROVE  /\ \A k \in kept : m.id = k.id => m.expires = k.expires
               /\ m.id \notin gone
               /\ holder'[m.id] # Nobody => m = holder'[m.id]
    <3>1. \A k \in kept : m.id = k.id => m.expires = k.expires
      BY <1>0, <2>4 DEF SameExpiry
    <3>2. m.id \notin gone
      BY <1>0, <2>4 DEF GoneAway
    <3>3. holder'[m.id] = Nobody
      BY <1>1, <2>1, <2>4
    <3> QED
      BY <3>1, <3>2, <3>3
  <2> QED
    BY <2>2, <2>3, <2>4, ChangeHeld
<1>3. ASSUME NEW m \in Held(disk)
      PROVE  holder'[m.id] # Nobody => m = holder'[m.id]
  <2>1. m.id \in Queues!Msg
    BY <1>0, HeldTyped, MessageTyped
  <2> QED
    BY <1>0, <1>1, <2>1 DEF HoldersHave
<1>4. SameExpiry'
  BY <1>0, <1>1, <1>2 DEF SameExpiry
<1>5. GoneAway'
  BY <1>0, <1>1, <1>2 DEF GoneAway
<1>6. HoldersHave'
  BY <1>1, <1>2, <1>3 DEF HoldersHave
<1> QED
  BY <1>4, <1>5, <1>6

LEMMA ChangeKept ==
  ASSUME QueueInv, NEW q \in Queue, NEW content \in Queues!Content \cup {NoQueue}, NEW req,
         Moves(q, Queues!MessagesOf(content), req), Queues!Change(q, content, req), up
  PROVE  KeptThere' /\ Pending'
<1>0. /\ QueueTypes /\ Numbered /\ issued \in Nat /\ mem \in Copies /\ ApartIn(mem)
      /\ SameExpiry /\ KeptThere
  BY DEF QueueInv, QueueTypes
<1>1. /\ queueRequest' = req /\ UNCHANGED <<disk, up, now, gone>>
      /\ kept' = {k \in kept : k.id \notin req.removed}
  BY DEF Queues!Change
<1> DEFINE ms == Queues!MessagesOf(content)
<1>2. RangeOf(ms) \subseteq Held(mem')
  BY <1>0, ChangeIn DEF Held
<1>3. ASSUME NEW k \in kept, k.id \notin req.removed, ~Queues!expired(k)
      PROVE  k.id \in IdsOf(Held(disk)) /\ k.id \in IdsOf(Held(mem'))
  <2>1. k.id \in IdsOf(Held(disk)) /\ k.id \in IdsOf(Held(mem))
    BY <1>0, <1>3 DEF KeptThere
  <2>2. PICK o \in Held(mem) : o.id = k.id
    BY <2>1 DEF IdsOf
  <2>3. o.expires = k.expires
    BY <1>0, <2>2 DEF SameExpiry
  <2>4. PICK r \in Queue : o \in In(mem, r)
    BY DEF Held
  <2>5. CASE r # q
    <3>1. o \in Held(mem')
      BY <1>0, <2>4, <2>5, ChangeIn DEF Held
    <3> QED
      BY <2>1, <2>2, <3>1 DEF IdsOf
  <2>6. CASE r = q
    <3>1. ~Queues!expired(o)
      BY <1>3, <2>3 DEF Queues!expired
    <3>2. o.id \in IdsOf(RangeOf(ms))
      BY <1>3, <2>2, <2>4, <2>6, <3>1 DEF Moves
    <3> QED
      BY <1>2, <2>1, <2>2, <3>2 DEF IdsOf
  <2> QED
    BY <2>5, <2>6
<1>4. \A k : Queues!expired(k)' <=> Queues!expired(k)
  BY <1>1 DEF Queues!expired
<1>5. KeptThere'
  BY <1>1, <1>3, <1>4 DEF KeptThere
<1>6. ASSUME NEW m \in Held(mem')
      PROVE  /\ m.id \notin req.removed
             /\ \A h \in req.handed : m.id = h.id => m = h
  <2>1. PICK r \in Queue : m \in In(mem', r)
    BY DEF Held
  <2>2. CASE r = q
    <3>1. m \in RangeOf(ms)
      BY <1>0, <2>1, <2>2, ChangeIn
    <3> QED
      BY <3>1 DEF Moves, IdsOf
  <2>3. CASE r # q
    <3>1. m \in In(mem, r)
      BY <1>0, <2>1, <2>3, ChangeIn
    <3>2. \A o \in In(mem, q) : o.id # m.id
      BY <1>0, <2>3, <3>1 DEF ApartIn
    <3>3. m.id \notin req.removed
      BY <3>2 DEF Moves, IdsOf
    <3>4. \A h \in req.handed : h.id # m.id
      BY <3>2 DEF Moves
    <3> QED
      BY <3>3, <3>4
  <2> QED
    BY <2>2, <2>3
<1>7. req.added \subseteq Held(mem')
  BY <1>2 DEF Moves
<1>8. ASSUME NEW o \in In(mem, q) PROVE o.id <= issued'
  <2>1. o.id \in Nat /\ o.id <= issued
    BY <1>0, CopyTyped, MessageTyped DEF Numbered
  <2>2. issued' \in {issued, issued + 1}
    BY DEF Moves
  <2> QED
    BY <1>0, <2>1, <2>2
<1>9. \A id \in req.removed : id <= issued'
  BY <1>8 DEF Moves, IdsOf
<1>10. \A h \in req.handed : h.id <= issued'
  <2> TAKE h \in req.handed
  <2>1. PICK o \in In(mem, q) : o.id = h.id
    BY DEF Moves
  <2> QED
    BY <1>8, <2>1
<1>11. Pending'
  BY <1>1, <1>6, <1>7, <1>9, <1>10 DEF Pending
<1> QED
  BY <1>5, <1>11

LEMMA ChangeKeeps ==
  ASSUME QueueInv, NEW q \in Queue, NEW content \in Queues!Content \cup {NoQueue}, NEW req,
         Moves(q, Queues!MessagesOf(content), req), Queues!Change(q, content, req), up
  PROVE  QueueInv'
  BY ChangeRest, ChangeMessages, ChangeKept DEF QueueInv

-----------------------------------------------------------------------------
(* What the requests find in a queue.                                      *)
LEMMA AliveIs ==
  ASSUME QueueInv, NEW q \in Queue, mem[q] # NoQueue
  PROVE  /\ Queues!Alive(q) \in Seq(Queues!Message)
         /\ Distinct(Queues!Alive(q))
         /\ RangeOf(Queues!Alive(q)) = {m \in In(mem, q) : ~Queues!expired(m)}
<1> DEFINE ms == mem[q].messages
<1>1. ms = Queues!MessagesOf(mem[q]) /\ mem \in Copies /\ ApartIn(mem)
  BY DEF Queues!MessagesOf, QueueInv, QueueTypes
<1>2. ms \in Seq(Queues!Message) /\ Distinct(ms) /\ In(mem, q) = RangeOf(ms)
  BY <1>1, CopyTyped DEF ApartIn, In
<1> HIDE DEF ms
<1>3. /\ Queues!evictExpired(ms) \in Seq(Queues!Message)
      /\ Distinct(Queues!evictExpired(ms))
      /\ RangeOf(Queues!evictExpired(ms)) = Unexpired(ms)
  BY <1>2, Evicted
<1>4. Unexpired(ms) = {m \in RangeOf(ms) : ~Queues!expired(m)}
  BY DEF Unexpired, RangeOf
<1> QED
  BY <1>2, <1>3, <1>4 DEF Queues!Alive, ms

LEMMA RemoveIs ==
  ASSUME NEW A, NEW s \in Seq(A), NEW i \in DOMAIN s, Distinct(s)
  PROVE  /\ Queues!RemoveAt(s, i) \in Seq(A)
         /\ Distinct(Queues!RemoveAt(s, i))
         /\ RangeOf(Queues!RemoveAt(s, i)) = {m \in RangeOf(s) : m.id # s[i].id}
<1> DEFINE r == Queues!RemoveAt(s, i)
           n_ == Len(s)
<1>1. n_ \in Nat /\ DOMAIN s = 1..n_ /\ i \in 1..n_
  OBVIOUS
<1>2. /\ SubSeq(s, 1, i - 1) \in Seq(A) /\ Len(SubSeq(s, 1, i - 1)) = i - 1
      /\ \A j \in 1..(i - 1) : SubSeq(s, 1, i - 1)[j] = s[j]
      /\ SubSeq(s, i + 1, n_) \in Seq(A) /\ Len(SubSeq(s, i + 1, n_)) = n_ - i
      /\ \A j \in 1..(n_ - i) : SubSeq(s, i + 1, n_)[j] = s[i + j]
  <2> HIDE DEF n_
  <2>1. /\ SubSeq(s, 1, i - 1) \in Seq(A) /\ Len(SubSeq(s, 1, i - 1)) = i - 1
        /\ \A j \in 1..(i - 1) : SubSeq(s, 1, i - 1)[j] = s[j]
    BY <1>1
  <2>2. SubSeq(s, i + 1, n_) \in Seq(A) /\ Len(SubSeq(s, i + 1, n_)) = n_ - i
    BY <1>1
  <2>3. \A j \in 1..(n_ - i) : SubSeq(s, i + 1, n_)[j] = s[i + j]
    BY <1>1
  <2> QED
    BY <2>1, <2>2, <2>3
<1>3. /\ r \in Seq(A) /\ Len(r) = n_ - 1
      /\ \A j \in 1..(n_ - 1) : r[j] = IF j < i THEN s[j] ELSE s[j + 1]
  <2> DEFINE s1 == SubSeq(s, 1, i - 1)
             s2 == SubSeq(s, i + 1, n_)
  <2>1. r = s1 \o s2
    BY DEF Queues!RemoveAt
  <2> HIDE DEF r, s1, s2
  <2>2. /\ s1 \in Seq(A) /\ Len(s1) = i - 1 /\ \A j \in 1..(i - 1) : s1[j] = s[j]
        /\ s2 \in Seq(A) /\ Len(s2) = n_ - i /\ \A j \in 1..(n_ - i) : s2[j] = s[i + j]
    BY <1>2 DEF s1, s2
  <2> HIDE DEF n_
  <2>3. /\ r \in Seq(A) /\ Len(r) = Len(s1) + Len(s2)
        /\ \A j \in 1..(Len(s1) + Len(s2)) :
             r[j] = IF j <= Len(s1) THEN s1[j] ELSE s2[j - Len(s1)]
    BY <2>1, <2>2, ConcatProperties
  <2>4. Len(s1) + Len(s2) = n_ - 1
    BY <1>1, <2>2
  <2>5. ASSUME NEW j \in 1..(n_ - 1) PROVE r[j] = IF j < i THEN s[j] ELSE s[j + 1]
    <3>1. CASE j < i
      BY <1>1, <2>2, <2>3, <2>4, <3>1
    <3>2. CASE ~(j < i)
      <4>1. /\ ~(j <= Len(s1)) /\ j - Len(s1) \in 1..(n_ - i)
            /\ i + (j - Len(s1)) = j + 1
        BY <1>1, <2>2, <3>2
      <4>2. r[j] = s2[j - Len(s1)]
        BY <2>3, <2>4, <4>1
      <4> QED
        BY <2>2, <3>2, <4>1, <4>2
    <3> QED
      BY <3>1, <3>2
  <2> QED
    BY <2>3, <2>4, <2>5
<1>4. DOMAIN r = 1..(n_ - 1)
  BY <1>1, <1>3
<1> HIDE DEF r, n_
<1>5. \A j \in DOMAIN r : \E k \in DOMAIN s : k # i /\ r[j] = s[k] /\ k = IF j < i THEN j ELSE j + 1
  BY <1>1, <1>3, <1>4
<1>6. \A k \in DOMAIN s : k # i => \E j \in DOMAIN r : r[j] = s[k]
  <2> TAKE k \in DOMAIN s
  <2> HAVE k # i
  <2> DEFINE j == IF k < i THEN k ELSE k - 1
  <2>1. j \in 1..(n_ - 1) /\ k = IF j < i THEN j ELSE j + 1
    BY <1>1
  <2> QED
    BY <1>3, <1>4, <2>1
<1>7. Distinct(r)
  <2> SUFFICES ASSUME NEW a \in DOMAIN r, NEW b \in DOMAIN r, r[a].id = r[b].id PROVE a = b
    BY DEF Distinct
  <2>1. PICK k \in DOMAIN s : r[a] = s[k] /\ k = IF a < i THEN a ELSE a + 1
    BY <1>5
  <2>2. PICK l \in DOMAIN s : r[b] = s[l] /\ l = IF b < i THEN b ELSE b + 1
    BY <1>5
  <2>3. k = l
    BY <2>1, <2>2 DEF Distinct
  <2> QED
    BY <1>1, <1>4, <2>1, <2>2, <2>3
<1>8. RangeOf(r) = {m \in RangeOf(s) : m.id # s[i].id}
  BY <1>5, <1>6 DEF RangeOf, Distinct
<1> QED
  BY <1>3, <1>7, <1>8 DEF r

LEMMA Counted == \A S : Queues!Cardinality(S) = Cardinality(S)
  BY DEF Queues!Cardinality, Cardinality

-----------------------------------------------------------------------------
(* The requests.                                                           *)
LEMMA Nothing == ASSUME NEW A PROVE <<>> \in Seq(A) /\ Distinct(<<>>) /\ RangeOf(<<>>) = {}
  BY DEF Distinct, RangeOf

LEMMA RequestTyped ==
  ASSUME NEW handed \in SUBSET Queues!Message, NEW added \in SUBSET Queues!Message,
         NEW removed \in SUBSET Queues!Msg, NEW by_ \in 0..MaxReceipt
  PROVE  Queues!Request(handed, added, removed, by_) \in Requests
  BY DEF Queues!Request, Requests

LEMMA NoReceiptTyped == Queues!NoReceipt \in 0..MaxReceipt
  BY StoresAssumption DEF Queues!NoReceipt

LEMMA Counters ==
  ASSUME QueueInv
  PROVE  issued \in Nat /\ issued <= MaxMsg /\ receipts \in 0..MaxReceipt /\ now \in Nat
         /\ mem \in Copies
  BY StoresAssumption DEF QueueInv, QueueTypes

(* The ones that leave no message, or all that have not expired.           *)
LEMMA CreateKeeps ==
  ASSUME QueueInv, NEW q \in Queue, NEW meta \in Metadata, Queues!CreateQueue(q, meta)
  PROVE  QueueInv'
<1> DEFINE content == [meta |-> meta, messages |-> <<>>]
           req == Queues!Request({}, {}, {}, Queues!NoReceipt)
<1>1. /\ up /\ mem[q] = NoQueue /\ UNCHANGED <<issued, receipts>>
      /\ Queues!Change(q, content, req)
  BY DEF Queues!CreateQueue, Queues!Serving
<1>2. content \in Queues!Content
  BY Nothing DEF Queues!Content
<1>3. In(mem, q) = {}
  BY <1>1, Nothing DEF In, Queues!MessagesOf
<1>4. Queues!MessagesOf(content) = <<>>
  BY DEF Queues!MessagesOf
<1>5. /\ req \in Requests /\ req.added = {} /\ req.handed = {} /\ req.removed = {}
  BY RequestTyped, NoReceiptTyped DEF Queues!Request
<1> HIDE DEF content, req
<1>6. Moves(q, Queues!MessagesOf(content), req)
  BY <1>1, <1>3, <1>4, <1>5, Nothing, Counters DEF Moves
<1> QED
  BY <1>1, <1>2, <1>6, ChangeKeeps

LEMMA EmptiedMoves ==
  ASSUME QueueInv, NEW q \in Queue, UNCHANGED <<issued, receipts>>, mem[q] # NoQueue
  PROVE  Moves(q, <<>>, Queues!Request({}, {}, Queues!Ids(mem[q].messages), Queues!NoReceipt))
<1> DEFINE req == Queues!Request({}, {}, Queues!Ids(mem[q].messages), Queues!NoReceipt)
<1>1. Queues!Ids(mem[q].messages) = IdsOf(In(mem, q))
  BY DEF Queues!Ids, IdsOf, In, RangeOf, Queues!MessagesOf
<1>2. IdsOf(In(mem, q)) \subseteq Queues!Msg
  BY Counters, CopyTyped, MessageTyped DEF IdsOf
<1>3. /\ req \in Requests /\ req.added = {} /\ req.handed = {}
      /\ req.removed = IdsOf(In(mem, q))
  BY <1>1, <1>2, RequestTyped, NoReceiptTyped DEF Queues!Request
<1> HIDE DEF req
<1>4. \A o \in In(mem, q) : o.id \in IdsOf(In(mem, q))
  BY DEF IdsOf
<1>5. \A id : id \notin IdsOf(RangeOf(<<>>))
  BY Nothing DEF IdsOf
<1>6. Moves(q, <<>>, req)
  BY <1>3, <1>4, <1>5, Nothing, Counters DEF Moves
<1> QED
  BY <1>6 DEF req

LEMMA DeleteQueueKeeps ==
  ASSUME QueueInv, NEW q \in Queue, Queues!DeleteQueue(q) PROVE QueueInv'
<1>1. /\ up /\ mem[q] # NoQueue /\ UNCHANGED <<issued, receipts>>
      /\ Queues!Change(q, NoQueue,
           Queues!Request({}, {}, Queues!Ids(mem[q].messages), Queues!NoReceipt))
  BY DEF Queues!DeleteQueue, Queues!Found, Queues!Serving
<1>2. Queues!MessagesOf(NoQueue) = <<>>
  BY DEF Queues!MessagesOf
<1> QED
  BY <1>1, <1>2, EmptiedMoves, ChangeKeeps

(* A queue that is there, with other messages.                             *)
LEMMA MessagesAre ==
  ASSUME QueueInv, NEW q \in Queue, mem[q] # NoQueue, NEW ms \in Seq(Queues!Message)
  PROVE  /\ Queues!Messages(q, ms) \in Queues!Content
         /\ Queues!MessagesOf(Queues!Messages(q, ms)) = ms
<1>1. mem[q] \in Queues!Content
  BY DEF QueueInv, QueueTypes, Copies
<1>2. /\ Queues!Messages(q, ms) \in Queues!Content
      /\ Queues!Messages(q, ms).messages = ms
  BY <1>1 DEF Queues!Messages, Queues!Content
<1> QED
  BY <1>2, QueueAssumption DEF Queues!MessagesOf

LEMMA ClearKeeps ==
  ASSUME QueueInv, NEW q \in Queue, Queues!ClearMessages(q) PROVE QueueInv'
<1>1. /\ up /\ mem[q] # NoQueue /\ UNCHANGED <<issued, receipts>>
      /\ Queues!Change(q, Queues!Messages(q, <<>>),
           Queues!Request({}, {}, Queues!Ids(mem[q].messages), Queues!NoReceipt))
  BY DEF Queues!ClearMessages, Queues!Found, Queues!Serving
<1>2. <<>> \in Seq(Queues!Message)
  OBVIOUS
<1> QED
  BY <1>1, <1>2, EmptiedMoves, MessagesAre, ChangeKeeps

LEMMA SetMetadataKeeps ==
  ASSUME QueueInv, NEW q \in Queue, NEW meta \in Metadata, Queues!SetMetadata(q, meta)
  PROVE  QueueInv'
<1> DEFINE ms == Queues!Alive(q)
           content == [meta |-> meta, messages |-> ms]
           req == Queues!Request({}, {}, {}, Queues!NoReceipt)
<1>1. /\ up /\ mem[q] # NoQueue /\ UNCHANGED <<issued, receipts>>
      /\ Queues!Change(q, content, req)
  BY DEF Queues!SetMetadata, Queues!Found, Queues!Serving
<1>2. /\ ms \in Seq(Queues!Message) /\ Distinct(ms)
      /\ RangeOf(ms) = {m \in In(mem, q) : ~Queues!expired(m)}
  BY <1>1, AliveIs
<1>3. /\ req \in Requests /\ req.added = {} /\ req.handed = {} /\ req.removed = {}
  BY RequestTyped, NoReceiptTyped DEF Queues!Request
<1> HIDE DEF ms, req
<1>4. content \in Queues!Content /\ Queues!MessagesOf(content) = ms
  BY <1>2, QueueAssumption DEF Queues!Content, Queues!MessagesOf
<1> HIDE DEF content
<1>5. Moves(q, ms, req)
  BY <1>1, <1>2, <1>3, Counters DEF Moves, IdsOf
<1> QED
  BY <1>1, <1>4, <1>5, ChangeKeeps

LEMMA EnqueueKeeps ==
  ASSUME QueueInv, NEW q \in Queue, NEW v \in Visibility, NEW ttl \in TTL,
         Queues!Enqueue(q, v, ttl)
  PROVE  QueueInv'
<1> DEFINE m == [id |-> issued + 1, visible |-> now + v,
                 expires |-> IF ttl = Infinite THEN Infinite ELSE now + ttl,
                 receipt |-> Queues!NoReceipt]
           old == Queues!Alive(q)
           ms == Append(old, m)
           req == Queues!Request({}, {m}, {}, Queues!NoReceipt)
<1>1. /\ up /\ mem[q] # NoQueue /\ issued < MaxMsg /\ issued' = issued + 1
      /\ UNCHANGED receipts
      /\ Queues!Change(q, Queues!Messages(q, ms), req)
  BY DEF Queues!Enqueue, Queues!Found, Queues!Serving
<1>2. /\ old \in Seq(Queues!Message) /\ Distinct(old)
      /\ RangeOf(old) = {o \in In(mem, q) : ~Queues!expired(o)}
  BY <1>1, AliveIs
<1>3. m \in Queues!Message /\ m.id = issued + 1
  <2>1. issued + 1 \in Queues!Msg /\ now + v \in Nat
    BY <1>1, Counters, StoresAssumption DEF Queues!Msg
  <2>2. (IF ttl = Infinite THEN Infinite ELSE now + ttl) \in Nat \cup {Infinite}
    BY Counters, StoresAssumption
  <2> QED
    BY <2>1, <2>2, NoReceiptTyped DEF Queues!Message
<1>4. /\ req \in Requests /\ req.added = {m} /\ req.handed = {} /\ req.removed = {}
  BY <1>3, RequestTyped, NoReceiptTyped DEF Queues!Request
<1> HIDE DEF m, old, req
<1>5. m.id \notin IdsOf(RangeOf(old))
  <2>1. \A o \in In(mem, q) : o.id <= issued /\ o.id \in Nat
    BY Counters, CopyTyped, MessageTyped DEF QueueInv, Numbered
  <2> QED
    BY <1>2, <1>3, <2>1, Counters DEF IdsOf
<1>6. ms \in Seq(Queues!Message) /\ RangeOf(ms) = RangeOf(old) \cup {m} /\ Distinct(ms)
  <2> DEFINE S == Queues!Message
  <2>1. m \in S /\ old \in Seq(S)
    BY <1>2, <1>3
  <2> HIDE DEF S
  <2>2. Append(old, m) \in Seq(S) /\ RangeOf(Append(old, m)) = RangeOf(old) \cup {m}
    BY <2>1, AppendIs
  <2>3. Distinct(Append(old, m))
    BY <1>2, <1>5, <2>1, AppendDistinct
  <2> QED
    BY <2>2, <2>3 DEF S
<1> HIDE DEF ms
<1>7. issued' <= MaxMsg /\ receipts' \in 0..MaxReceipt
  BY <1>1, Counters, StoresAssumption
<1>8. Moves(q, ms, req)
  BY <1>1, <1>2, <1>3, <1>4, <1>6, <1>7 DEF Moves, IdsOf
<1> QED
  BY <1>1, <1>6, <1>8, MessagesAre, ChangeKeeps

LEMMA DeleteMessageKeeps ==
  ASSUME QueueInv, NEW q \in Queue, NEW id \in Queues!Msg, NEW r \in 0..MaxReceipt,
         Queues!DeleteMessage(q, id, r)
  PROVE  QueueInv'
<1> DEFINE old == Queues!Alive(q)
           req == Queues!Request({}, {}, {id}, r)
<1>1. up /\ mem[q] # NoQueue /\ UNCHANGED <<issued, receipts>>
  BY DEF Queues!DeleteMessage, Queues!Found, Queues!Serving
<1>2. /\ old \in Seq(Queues!Message) /\ Distinct(old)
      /\ RangeOf(old) = {o \in In(mem, q) : ~Queues!expired(o)}
  BY <1>1, AliveIs
<1>3. PICK i \in DOMAIN old :
        /\ old[i].id = id
        /\ Queues!Change(q, Queues!Messages(q, Queues!RemoveAt(old, i)), req)
  BY DEF Queues!DeleteMessage
<1> DEFINE ms == Queues!RemoveAt(old, i)
<1>4. /\ req \in Requests /\ req.added = {} /\ req.handed = {} /\ req.removed = {id}
  BY RequestTyped DEF Queues!Request
<1> HIDE DEF old, req
<1>5. /\ ms \in Seq(Queues!Message) /\ Distinct(ms)
      /\ RangeOf(ms) = {m \in RangeOf(old) : m.id # id}
  BY <1>2, <1>3, RemoveIs
<1> HIDE DEF ms
<1>6. old[i] \in In(mem, q)
  BY <1>2, <1>3 DEF RangeOf
<1>7. Moves(q, ms, req)
  BY <1>1, <1>2, <1>3, <1>4, <1>5, <1>6, Counters DEF Moves, IdsOf
<1> QED
  BY <1>1, <1>3, <1>5, <1>7, MessagesAre, ChangeKeeps DEF ms

(* Messages some of which are replaced by others of the same id and expiry. *)
Replaces(old, ms, at_, new) ==
  /\ ms = [i \in DOMAIN old |-> IF i \in at_ THEN new[i] ELSE old[i]]
  /\ \A i \in at_ : /\ new[i] \in Queues!Message
                    /\ new[i].id = old[i].id /\ new[i].expires = old[i].expires

Replacements(at_, new) == {new[i] : i \in at_}

LEMMA ReplacesMoves ==
  ASSUME QueueInv, NEW q \in Queue, mem[q] # NoQueue,
         NEW ms, NEW at_ \in SUBSET DOMAIN Queues!Alive(q), NEW new,
         Replaces(Queues!Alive(q), ms, at_, new),
         NEW by_ \in 0..MaxReceipt, UNCHANGED issued, receipts' \in 0..MaxReceipt
  PROVE  Moves(q, ms, Queues!Request(Replacements(at_, new), {}, {}, by_))
<1> DEFINE old == Queues!Alive(q)
           req == Queues!Request(Replacements(at_, new), {}, {}, by_)
<1>1. /\ old \in Seq(Queues!Message) /\ Distinct(old)
      /\ RangeOf(old) = {o \in In(mem, q) : ~Queues!expired(o)}
  BY AliveIs
<1> HIDE DEF old
<1>2. /\ ms = [i \in DOMAIN old |-> IF i \in at_ THEN new[i] ELSE old[i]]
      /\ at_ \subseteq DOMAIN old
      /\ \A i \in at_ : /\ new[i] \in Queues!Message
                        /\ new[i].id = old[i].id /\ new[i].expires = old[i].expires
  BY DEF Replaces, old
<1>3. DOMAIN old = 1..Len(old) /\ Len(old) \in Nat /\ \A i \in DOMAIN old : old[i] \in Queues!Message
  BY <1>1
<1>4. /\ ms \in Seq(Queues!Message) /\ DOMAIN ms = DOMAIN old
      /\ \A i \in DOMAIN old : ms[i] = (IF i \in at_ THEN new[i] ELSE old[i]) /\ ms[i].id = old[i].id
  <2>1. ms \in [1..Len(old) -> Queues!Message]
    BY <1>2, <1>3
  <2>2. ms \in Seq(Queues!Message)
    <3> DEFINE n_ == Len(old)
               S == Queues!Message
    <3>1. n_ \in Nat /\ ms \in [1..n_ -> S]
      BY <1>3, <2>1
    <3> HIDE DEF n_, S
    <3>2. ms \in Seq(S)
      BY <3>1
    <3> QED
      BY <3>2 DEF S
  <2> QED
    BY <1>2, <2>2
<1>5. Distinct(ms)
  BY <1>1, <1>4 DEF Distinct
<1>6. /\ req \in Requests /\ req.added = {} /\ req.removed = {}
      /\ req.handed = {new[i] : i \in at_}
  <2>1. Replacements(at_, new) \in SUBSET Queues!Message
    BY <1>2 DEF Replacements
  <2> QED
    BY <2>1, RequestTyped DEF Queues!Request, Replacements
<1> HIDE DEF req
<1>7. \A i \in DOMAIN old : old[i] \in In(mem, q)
  BY <1>1 DEF RangeOf
<1>8. \A h \in req.handed : \E o \in In(mem, q) : o.id = h.id /\ o.expires = h.expires
  BY <1>2, <1>6, <1>7
<1>9. \A m \in RangeOf(ms) : m \in In(mem, q) \cup req.handed
  BY <1>4, <1>6, <1>7 DEF RangeOf
<1>10. \A h \in req.handed, m \in RangeOf(ms) : m.id = h.id => m = h
  <2> SUFFICES ASSUME NEW i \in at_, NEW j \in DOMAIN ms, ms[j].id = new[i].id
               PROVE  ms[j] = new[i]
    BY <1>6 DEF RangeOf
  <2>1. i = j
    BY <1>1, <1>2, <1>4 DEF Distinct
  <2> QED
    BY <1>4, <2>1
<1>11. \A o \in In(mem, q) : ~Queues!expired(o) => o.id \in IdsOf(RangeOf(ms))
  <2> SUFFICES ASSUME NEW o \in RangeOf(old) PROVE o.id \in IdsOf(RangeOf(ms))
    BY <1>1
  <2>1. PICK i \in DOMAIN old : o = old[i]
    BY DEF RangeOf
  <2>2. ms[i] \in RangeOf(ms) /\ ms[i].id = o.id
    BY <1>4, <2>1 DEF RangeOf
  <2> QED
    BY <2>2 DEF IdsOf
<1>12. Moves(q, ms, req)
  BY <1>4, <1>5, <1>6, <1>8, <1>9, <1>10, <1>11, Counters DEF Moves
<1> QED
  BY <1>12 DEF req

LEMMA UpdateMessageKeeps ==
  ASSUME QueueInv, NEW q \in Queue, NEW id \in Queues!Msg, NEW r \in 0..MaxReceipt,
         NEW v \in Visibility, Queues!UpdateMessage(q, id, r, v)
  PROVE  QueueInv'
<1> DEFINE old == Queues!Alive(q)
           new(i) == [old[i] EXCEPT !.receipt = receipts + 1, !.visible = now + v]
<1>1. /\ up /\ mem[q] # NoQueue /\ UNCHANGED issued
      /\ receipts < MaxReceipt /\ receipts' = receipts + 1
  BY DEF Queues!UpdateMessage, Queues!Found, Queues!Serving
<1>2. PICK i \in DOMAIN old :
        Queues!Change(q, Queues!Messages(q, [old EXCEPT ![i] = new(i)]),
                      Queues!Request({new(i)}, {}, {}, r))
  BY DEF Queues!UpdateMessage
<1> DEFINE ms == [old EXCEPT ![i] = new(i)]
           news == [j \in DOMAIN old |-> new(i)]
<1>3. old \in Seq(Queues!Message)
  BY <1>1, AliveIs
<1>4. new(i) \in Queues!Message /\ new(i).id = old[i].id /\ new(i).expires = old[i].expires
  <2>1. old[i] \in Queues!Message
    BY <1>2, <1>3
  <2>2. receipts + 1 \in 0..MaxReceipt /\ now + v \in Nat
    BY <1>1, Counters, StoresAssumption
  <2> HIDE DEF old
  <2> QED
    BY <2>1, <2>2 DEF Queues!Message
<1> HIDE DEF new
<1>5. Replaces(old, ms, {i}, news)
  <2>1. ms = [j \in DOMAIN old |-> IF j = i THEN new(i) ELSE old[j]]
    BY <1>2, <1>3
  <2> HIDE DEF old
  <2>2. news[i] = new(i)
    BY <1>2
  <2>3. ms = [j \in DOMAIN old |-> IF j \in {i} THEN news[j] ELSE old[j]]
    BY <2>1, <2>2
  <2> HIDE DEF ms, news
  <2> QED
    BY <1>4, <2>2, <2>3 DEF Replaces
<1>6. Replacements({i}, news) = {new(i)}
  BY <1>2 DEF Replacements
<1>7. receipts' \in 0..MaxReceipt
  BY <1>1, Counters, StoresAssumption
<1> HIDE DEF ms, news
<1>8. Moves(q, ms, Queues!Request(Replacements({i}, news), {}, {}, r))
  <2>1. {i} \in SUBSET DOMAIN Queues!Alive(q)
    BY <1>2
  <2>2. mem[q] # NoQueue /\ UNCHANGED issued
    BY <1>1
  <2> HIDE DEF old
  <2>3. Replaces(Queues!Alive(q), ms, {i}, news)
    BY <1>5 DEF old
  <2> QED
    BY <1>7, <2>1, <2>2, <2>3, ReplacesMoves
<1>9. Moves(q, ms, Queues!Request({new(i)}, {}, {}, r))
  BY <1>6, <1>8
<1>10. ms \in Seq(Queues!Message)
  BY <1>9 DEF Moves
<1> QED
  BY <1>1, <1>2, <1>9, <1>10, MessagesAre, ChangeKeeps DEF ms

LEMMA DequeueKeeps ==
  ASSUME QueueInv, NEW q \in Queue, NEW num \in 1..MaxMsg, NEW v \in Visibility,
         Queues!Dequeue(q, num, v)
  PROVE  QueueInv'
<1> DEFINE old == Queues!Alive(q)
           taken == Queues!FirstVisible(old, num)
           before(i) == {j \in taken : j <= i}
           new(i) == [old[i] EXCEPT !.visible = now + v,
                        !.receipt = receipts + Queues!Cardinality(before(i))]
           ms == [i \in DOMAIN old |-> IF i \in taken THEN new(i) ELSE old[i]]
           news == [i \in DOMAIN old |-> new(i)]
<1>1. /\ up /\ mem[q] # NoQueue /\ UNCHANGED issued
      /\ receipts' = receipts + Queues!Cardinality(taken) /\ receipts' <= MaxReceipt
      /\ Queues!Change(q, Queues!Messages(q, ms),
           Queues!Request({ms[i] : i \in taken}, {}, {}, Queues!NoReceipt))
  BY DEF Queues!Dequeue, Queues!Found, Queues!Serving
<1>2. old \in Seq(Queues!Message)
  BY <1>1, AliveIs
<1>3. taken \subseteq DOMAIN old
  BY DEF Queues!FirstVisible
<1> HIDE DEF old, taken
<1>4. IsFiniteSet(taken)
  <2>1. DOMAIN old = 1..Len(old) /\ Len(old) \in Nat
    BY <1>2
  <2>2. IsFiniteSet(1..Len(old))
    BY <2>1, FS_Interval
  <2> QED
    BY <1>3, <2>1, <2>2, FS_Subset
<1>5. /\ Cardinality(taken) \in Nat /\ receipts' = receipts + Cardinality(taken)
      /\ receipts' \in 0..MaxReceipt
  <2>1. Cardinality(taken) \in Nat
    BY <1>4, FS_CardinalityType
  <2>2. receipts' = receipts + Cardinality(taken)
    BY <1>1, Counted
  <2> DEFINE c == Cardinality(taken)
  <2> HIDE DEF c
  <2>3. /\ c \in Nat /\ receipts' = receipts + c /\ receipts' <= MaxReceipt
        /\ receipts \in 0..MaxReceipt
    <3>1. receipts' <= MaxReceipt
      BY <1>1
    <3>2. c \in Nat /\ receipts' = receipts + c
      BY <2>1, <2>2 DEF c
    <3> QED
      BY <3>1, <3>2, Counters
  <2>4. receipts' \in 0..MaxReceipt
    BY <2>3, StoresAssumption
  <2> QED
    BY <2>1, <2>2, <2>4
<1>6. ASSUME NEW i \in taken
      PROVE  new(i) \in Queues!Message /\ new(i).id = old[i].id /\ new(i).expires = old[i].expires
  <2> DEFINE c == Queues!Cardinality(before(i))
  <2>1. before(i) \subseteq taken
    OBVIOUS
  <2>2. c \in Nat /\ c <= Cardinality(taken)
    <3> HIDE DEF before
    <3>1. IsFiniteSet(before(i)) /\ Cardinality(before(i)) <= Cardinality(taken)
      BY <1>4, <2>1, FS_Subset
    <3>2. Cardinality(before(i)) \in Nat
      BY <3>1, FS_CardinalityType
    <3> QED
      BY <3>1, <3>2, Counted
  <2> HIDE DEF c
  <2>3. receipts + c \in 0..MaxReceipt /\ now + v \in Nat
    BY <1>5, <2>2, Counters, StoresAssumption
  <2>4. old[i] \in Queues!Message
    BY <1>2, <1>3, <1>6
  <2>5. new(i) = [old[i] EXCEPT !.visible = now + v, !.receipt = receipts + c]
    BY DEF c
  <2> HIDE DEF new
  <2> QED
    BY <2>3, <2>4, <2>5 DEF Queues!Message
<1> HIDE DEF new
<1>7. Replaces(old, ms, taken, news)
  <2>1. \A i \in taken : news[i] = new(i)
    BY <1>3
  <2>2. ms = [i \in DOMAIN old |-> IF i \in taken THEN news[i] ELSE old[i]]
    BY <2>1
  <2> HIDE DEF ms, news
  <2> QED
    BY <1>6, <2>1, <2>2 DEF Replaces
<1>8. {ms[i] : i \in taken} = Replacements(taken, news)
  <2>1. \A i \in taken : ms[i] = news[i]
    BY <1>3
  <2> QED
    BY <2>1 DEF Replacements
<1> HIDE DEF ms, news
<1>9. Moves(q, ms, Queues!Request({ms[i] : i \in taken}, {}, {}, Queues!NoReceipt))
  <2>1. taken \in SUBSET DOMAIN old
    BY <1>3
  <2>2. Moves(q, ms, Queues!Request(Replacements(taken, news), {}, {}, Queues!NoReceipt))
    <3>1. taken \in SUBSET DOMAIN Queues!Alive(q) /\ Replaces(Queues!Alive(q), ms, taken, news)
      BY <1>7, <2>1 DEF old
    <3>2. mem[q] # NoQueue /\ UNCHANGED issued /\ receipts' \in 0..MaxReceipt
      BY <1>1, <1>5
    <3> HIDE DEF old, before
    <3> QED
      BY <3>1, <3>2, NoReceiptTyped, ReplacesMoves
  <2> QED
    BY <1>8, <2>2
<1>10. ms \in Seq(Queues!Message)
  BY <1>9 DEF Moves
<1> QED
  BY <1>1, <1>9, <1>10, MessagesAre, ChangeKeeps

(* Evicting changes no message that has not expired.                       *)
LEMMA LookKeeps ==
  ASSUME QueueInv, NEW qs \in SUBSET Queue, Queues!Look(qs) PROVE QueueInv'
<1> DEFINE to(q) == Queues!Messages(q, Queues!Alive(q))
<1>0. /\ QueueTypes /\ ApartIn(mem) /\ Numbered /\ SameExpiry /\ KeptThere /\ GoneAway
      /\ HoldersHave /\ Pending /\ mem \in Copies /\ ApartIn(disk)
  BY DEF QueueInv, QueueTypes
<1>1. /\ \A q \in qs : up /\ queueRequest = None /\ mem[q] # NoQueue
      /\ mem' = [q \in Queue |-> IF q \in qs THEN to(q) ELSE mem[q]]
      /\ UNCHANGED <<disk, up, queueRequest, issued, receipts, now, kept, gone, holder>>
  BY DEF Queues!Look, Queues!Found, Queues!Serving
<1>2. ASSUME NEW q \in qs
      PROVE  /\ to(q) \in Queues!Content
             /\ Distinct(Queues!MessagesOf(to(q)))
             /\ RangeOf(Queues!MessagesOf(to(q))) = {m \in In(mem, q) : ~Queues!expired(m)}
  <2>1. q \in Queue /\ mem[q] # NoQueue
    BY <1>1
  <2> QED
    BY <2>1, AliveIs, MessagesAre
<1> HIDE DEF to
<1>3. ASSUME NEW q \in Queue
      PROVE  /\ mem'[q] \in Queues!Content \cup {NoQueue}
             /\ Distinct(Queues!MessagesOf(mem'[q]))
             /\ In(mem', q) \subseteq In(mem, q)
             /\ \A m \in In(mem, q) : ~Queues!expired(m) => m \in In(mem', q)
  <2>1. CASE q \in qs
    <3>1. mem'[q] = to(q)
      BY <1>1, <2>1
    <3> QED
      BY <1>2, <2>1, <3>1 DEF In
  <2>2. CASE q \notin qs
    <3>1. mem'[q] = mem[q]
      BY <1>1, <2>2
    <3> QED
      BY <1>0, <3>1 DEF In, Copies, ApartIn
  <2> QED
    BY <2>1, <2>2
<1>4. mem' \in Copies
  <2>1. mem' = [q \in Queue |-> mem'[q]]
    BY <1>1
  <2> QED
    BY <1>3, <2>1 DEF Copies
<1>5. Held(mem') \subseteq Held(mem)
  BY <1>3 DEF Held
<1>6. \A m \in Held(mem) : ~Queues!expired(m) => m \in Held(mem')
  BY <1>3 DEF Held
<1>7. ApartIn(mem')
  BY <1>0, <1>3 DEF ApartIn
<1>8. QueueTypes'
  BY <1>0, <1>1, <1>4 DEF QueueTypes
<1>9. Numbered' /\ SameExpiry' /\ GoneAway' /\ HoldersHave'
  BY <1>0, <1>1, <1>5 DEF Numbered, SameExpiry, GoneAway, HoldersHave
<1>10. KeptThere'
  <2>1. \A k : Queues!expired(k)' <=> Queues!expired(k)
    BY <1>1 DEF Queues!expired
  <2>2. ASSUME NEW k \in kept, ~Queues!expired(k), up PROVE k.id \in IdsOf(Held(mem'))
    <3>1. PICK o \in Held(mem) : o.id = k.id
      BY <1>0, <2>2 DEF KeptThere, IdsOf
    <3>2. o.expires = k.expires
      BY <1>0, <3>1 DEF SameExpiry
    <3>3. o \in Held(mem')
      BY <1>6, <2>2, <3>2 DEF Queues!expired
    <3> QED
      BY <3>1, <3>3 DEF IdsOf
  <2> QED
    BY <1>0, <1>1, <2>1, <2>2 DEF KeptThere
<1>11. Pending'
  <2>1. CASE qs = {}
    <3>1. mem' = mem
      BY <1>0, <1>1, <2>1 DEF Copies
    <3> QED
      BY <1>0, <1>1, <3>1 DEF Pending
  <2>2. CASE qs # {}
    <3>1. queueRequest' = None
      BY <1>1, <2>2
    <3> QED
      BY <3>1 DEF Pending
  <2> QED
    BY <2>1, <2>2
<1>12. ApartIn(disk')
  BY <1>0, <1>1
<1> QED
  BY <1>7, <1>8, <1>9, <1>10, <1>11, <1>12 DEF QueueInv

(* A write that failed, or that replaced the snapshot.                     *)
LEMMA PersistKeeps ==
  ASSUME QueueInv, Queues!persistLocked PROVE QueueInv'
<1>0. /\ QueueTypes /\ ApartIn(mem) /\ Numbered /\ SameExpiry /\ KeptThere /\ GoneAway
      /\ HoldersHave /\ Pending /\ mem \in Copies /\ ApartIn(disk)
  BY DEF QueueInv, QueueTypes
<1>1. /\ queueRequest # None /\ queueRequest' = None
      /\ UNCHANGED <<mem, up, issued, receipts, now>>
  BY DEF Queues!persistLocked
<1>2. Pending'
  BY <1>1 DEF Pending
<1>3. CASE UNCHANGED <<disk, kept, gone, holder>>
  <2>1. QueueTypes'
    BY <1>0, <1>1, <1>3 DEF QueueTypes
  <2>2. ApartIn(mem') /\ ApartIn(disk')
    BY <1>0, <1>1, <1>3
  <2>3. Numbered' /\ SameExpiry' /\ GoneAway' /\ HoldersHave'
    BY <1>0, <1>1, <1>3 DEF Numbered, SameExpiry, GoneAway, HoldersHave
  <2>4. KeptThere'
    BY <1>0, <1>1, <1>3 DEF KeptThere, Queues!expired
  <2> QED
    BY <1>2, <2>1, <2>2, <2>3, <2>4 DEF QueueInv
<1>4. CASE /\ disk' = mem
           /\ kept' = kept \cup queueRequest.added
           /\ gone' = gone \cup queueRequest.removed
           /\ holder' = [m \in Queues!Msg |->
                IF \E h \in queueRequest.handed : h.id = m
                THEN CHOOSE h \in queueRequest.handed : h.id = m ELSE holder[m]]
  <2> DEFINE req == queueRequest
  <2>1. /\ req \in Requests /\ up /\ req.added \subseteq Held(mem)
        /\ \A m \in Held(mem) : m.id \notin req.removed
        /\ \A id \in req.removed : id <= issued
        /\ \A h \in req.handed : h.id <= issued
        /\ \A h \in req.handed, m \in Held(mem) : m.id = h.id => m = h
    BY <1>0, <1>1 DEF QueueTypes, Pending
  <2>2. req.handed \subseteq Queues!Message /\ req.added \subseteq Queues!Message
        /\ req.removed \subseteq Queues!Msg
    BY <2>1 DEF Requests
  <2>3. ASSUME NEW id \in Queues!Msg
        PROVE  /\ holder'[id] \in Queues!Message \cup {Nobody}
               /\ \/ holder'[id] \in req.handed /\ holder'[id].id = id
                  \/ holder'[id] = holder[id]
    <3>1. holder'[id] = IF \E h \in req.handed : h.id = id
                        THEN CHOOSE h \in req.handed : h.id = id ELSE holder[id]
      BY <1>4
    <3>2. holder[id] \in Queues!Message \cup {Nobody}
      BY <1>0 DEF QueueTypes
    <3> QED
      BY <2>2, <3>1, <3>2
  <2>4. holder' \in [Queues!Msg -> Queues!Message \cup {Nobody}]
    <3>1. holder' = [m \in Queues!Msg |-> holder'[m]]
      BY <1>4
    <3> QED
      BY <2>3, <3>1
  <2> HIDE DEF req
  <2>5. /\ disk' = mem /\ kept' = kept \cup req.added /\ gone' = gone \cup req.removed
    BY <1>4 DEF req
  <2>6. QueueTypes'
    BY <1>0, <1>1, <2>2, <2>4, <2>5 DEF QueueTypes
  <2>7. ApartIn(mem') /\ ApartIn(disk')
    BY <1>0, <1>1, <2>5
  <2>8. Numbered'
    <3>1. \A m \in Held(mem') \cup Held(disk') \cup kept' : m.id <= issued'
      BY <1>0, <1>1, <2>1, <2>5 DEF Numbered
    <3>2. \A id \in gone' : id <= issued'
      BY <1>0, <1>1, <2>1, <2>5 DEF Numbered
    <3>3. \A id \in Queues!Msg : holder'[id] # Nobody => id <= issued'
      BY <1>0, <1>1, <2>1, <2>3 DEF Numbered
    <3> QED
      BY <3>1, <3>2, <3>3 DEF Numbered
  <2>9. SameExpiry'
    <3> SUFFICES ASSUME NEW k \in kept \cup req.added, NEW m \in Held(mem), m.id = k.id
                 PROVE  m.expires = k.expires
      BY <1>1, <2>5 DEF SameExpiry
    <3>1. CASE k \in kept
      BY <1>0, <3>1 DEF SameExpiry
    <3>2. CASE k \in req.added
      <4>1. k \in Held(mem)
        BY <2>1, <3>2
      <4> QED
        BY <1>0, <4>1, OnlyOne
    <3> QED
      BY <3>1, <3>2
  <2>10. KeptThere'
    <3> SUFFICES ASSUME NEW k \in kept \cup req.added, ~Queues!expired(k)
                 PROVE  k.id \in IdsOf(Held(mem))
      BY <1>1, <2>5 DEF KeptThere, Queues!expired
    <3> QED
      BY <1>0, <2>1 DEF KeptThere, IdsOf
  <2>11. GoneAway'
    BY <1>0, <1>1, <2>1, <2>5 DEF GoneAway
  <2>12. HoldersHave'
    <3> SUFFICES ASSUME NEW m \in Held(mem), holder'[m.id] # Nobody PROVE m = holder'[m.id]
      BY <1>1, <2>5 DEF HoldersHave
    <3>1. m.id \in Queues!Msg
      BY <1>0, HeldTyped, MessageTyped
    <3> QED
      BY <1>0, <2>1, <2>3, <3>1 DEF HoldersHave
  <2> QED
    BY <1>2, <2>6, <2>7, <2>8, <2>9, <2>10, <2>11, <2>12 DEF QueueInv
<1> QED
  BY <1>3, <1>4 DEF Queues!persistLocked

LEMMA NoneHeld ==
  ASSUME NEW copy, copy = [q \in Queue |-> NoQueue]
  PROVE  copy \in Copies /\ Held(copy) = {} /\ ApartIn(copy)
<1>1. \A q \in Queue : Queues!MessagesOf(copy[q]) = <<>> /\ In(copy, q) = {}
  BY Nothing DEF Queues!MessagesOf, In
<1> QED
  BY <1>1, Nothing DEF Copies, Held, ApartIn

LEMMA StopKeeps ==
  ASSUME QueueInv, Queues!Stop PROVE QueueInv'
<1>0. /\ QueueTypes /\ ApartIn(mem) /\ Numbered /\ SameExpiry /\ KeptThere /\ GoneAway
      /\ HoldersHave /\ Pending /\ mem \in Copies /\ ApartIn(disk)
  BY DEF QueueInv, QueueTypes
<1>1. /\ up' = FALSE /\ queueRequest' = None /\ mem' = [q \in Queue |-> NoQueue]
      /\ UNCHANGED <<disk, issued, receipts, now, kept, gone, holder>>
  BY DEF Queues!Stop
<1>2. mem' \in Copies /\ Held(mem') = {} /\ ApartIn(mem')
  BY <1>1, NoneHeld
<1>3. QueueTypes' /\ ApartIn(disk') /\ Pending'
  BY <1>0, <1>1, <1>2 DEF QueueTypes, Pending
<1>4. Numbered' /\ SameExpiry' /\ GoneAway' /\ HoldersHave'
  BY <1>0, <1>1, <1>2 DEF Numbered, SameExpiry, GoneAway, HoldersHave
<1>5. KeptThere'
  BY <1>0, <1>1 DEF KeptThere, Queues!expired
<1> QED
  BY <1>2, <1>3, <1>4, <1>5 DEF QueueInv

LEMMA LoadKeeps ==
  ASSUME QueueInv, Queues!load PROVE QueueInv'
<1>0. /\ QueueTypes /\ Numbered /\ SameExpiry /\ KeptThere /\ GoneAway
      /\ HoldersHave /\ Pending /\ disk \in Copies /\ ApartIn(disk)
  BY DEF QueueInv, QueueTypes
<1>1. /\ ~up /\ up' = TRUE /\ mem' = disk
      /\ UNCHANGED <<disk, queueRequest, issued, receipts, now, kept, gone, holder>>
  BY DEF Queues!load
<1>2. QueueTypes' /\ ApartIn(disk') /\ ApartIn(mem')
  BY <1>0, <1>1 DEF QueueTypes
<1>3. Numbered' /\ SameExpiry' /\ GoneAway' /\ HoldersHave'
  BY <1>0, <1>1 DEF Numbered, SameExpiry, GoneAway, HoldersHave
<1>4. KeptThere' /\ Pending'
  BY <1>0, <1>1 DEF KeptThere, Pending, Queues!expired
<1> QED
  BY <1>2, <1>3, <1>4 DEF QueueInv

(* What has expired stays expired.                                         *)
LEMMA TickKeeps ==
  ASSUME QueueInv, Queues!Tick PROVE QueueInv'
<1>0. /\ QueueTypes /\ ApartIn(mem) /\ Numbered /\ SameExpiry /\ KeptThere /\ GoneAway
      /\ HoldersHave /\ Pending /\ ApartIn(disk) /\ now \in Nat /\ kept \subseteq Queues!Message
  BY DEF QueueInv, QueueTypes
<1>1. /\ now < MaxTime /\ now' = now + 1
      /\ UNCHANGED <<mem, disk, up, queueRequest, issued, receipts, kept, gone, holder>>
  BY DEF Queues!Tick
<1>2. now' \in 0..MaxTime
  BY <1>0, <1>1, StoresAssumption
<1>3. QueueTypes' /\ ApartIn(disk') /\ ApartIn(mem')
  BY <1>0, <1>1, <1>2 DEF QueueTypes
<1>4. Numbered' /\ SameExpiry' /\ GoneAway' /\ HoldersHave' /\ Pending'
  BY <1>0, <1>1 DEF Numbered, SameExpiry, GoneAway, HoldersHave, Pending
<1>5. ASSUME NEW k \in kept, ~Queues!expired(k)' PROVE ~Queues!expired(k)
  <2>1. k.expires \in Nat \cup {Infinite}
    BY <1>0, MessageTyped
  <2> QED
    BY <1>0, <1>1, <1>5, <2>1 DEF Queues!expired
<1>6. KeptThere'
  BY <1>0, <1>1, <1>5 DEF KeptThere
<1> QED
  BY <1>3, <1>4, <1>6 DEF QueueInv

LEMMA QueueSame ==
  ASSUME QueueInv, UNCHANGED queueVars PROVE QueueInv'
<1>1. UNCHANGED <<mem, disk, up, queueRequest, issued, receipts, now, kept, gone, holder>>
  BY DEF queueVars
<1>2. QueueTypes' /\ ApartIn(mem') /\ ApartIn(disk') /\ Numbered' /\ SameExpiry' /\ GoneAway'
  BY <1>1 DEF QueueInv, QueueTypes, Numbered, SameExpiry, GoneAway
<1>3. HoldersHave' /\ Pending' /\ KeptThere'
  BY <1>1 DEF QueueInv, HoldersHave, Pending, KeptThere, Queues!expired
<1> QED
  BY <1>2, <1>3 DEF QueueInv

LEMMA QueueInit ==
  ASSUME Queues!Init PROVE QueueInv
<1>1. /\ mem = [q \in Queue |-> NoQueue] /\ disk = mem /\ up = TRUE /\ queueRequest = None
      /\ issued = 0 /\ receipts = 0 /\ now = 0 /\ kept = {} /\ gone = {}
      /\ holder = [m \in Queues!Msg |-> Nobody]
  BY DEF Queues!Init
<1>2. mem \in Copies /\ disk \in Copies /\ Held(mem) = {} /\ Held(disk) = {}
      /\ ApartIn(mem) /\ ApartIn(disk)
  BY <1>1, NoneHeld
<1>3. 0 \in 0..MaxMsg /\ 0 \in 0..MaxReceipt /\ 0 \in 0..MaxTime
  BY StoresAssumption
<1>4. QueueTypes
  BY <1>1, <1>2, <1>3 DEF QueueTypes
<1>5. Numbered /\ SameExpiry /\ KeptThere /\ GoneAway /\ HoldersHave /\ Pending
  BY <1>1, <1>2 DEF Numbered, SameExpiry, KeptThere, GoneAway, HoldersHave, Pending
<1> QED
  BY <1>2, <1>4, <1>5 DEF QueueInv

LEMMA QueueStep ==
  ASSUME QueueInv, Queues!Next PROVE QueueInv'
<1>1. ASSUME Queues!handleAccount PROVE QueueInv'
  BY <1>1, LookKeeps DEF Queues!handleAccount
<1>2. ASSUME NEW q \in Queue, Queues!handleQueue(q) PROVE QueueInv'
  BY <1>2, CreateKeeps, SetMetadataKeeps, DeleteQueueKeeps DEF Queues!handleQueue
<1>3. ASSUME NEW q \in Queue, Queues!handleMessages(q) PROVE QueueInv'
  <2>1. CASE Queues!putMessage(q)
    BY <2>1, EnqueueKeeps DEF Queues!putMessage
  <2>2. CASE Queues!getMessages(q)
    BY <2>2, DequeueKeeps DEF Queues!getMessages
  <2>3. CASE Queues!ClearMessages(q)
    BY <2>3, ClearKeeps
  <2>4. CASE Queues!handleMessage(q)
    BY <2>4, DeleteMessageKeeps, UpdateMessageKeeps DEF Queues!handleMessage
  <2> QED
    BY <1>3, <2>1, <2>2, <2>3, <2>4 DEF Queues!handleMessages
<1> QED
  BY <1>1, <1>2, <1>3, PersistKeeps, StopKeeps, LoadKeeps, TickKeeps DEF Queues!Next

(* What the properties say follows.                                        *)
LEMMA IdsHeld ==
  ASSUME NEW copy
  PROVE  \A id : (\E q \in Queue : id \in Queues!Ids(Queues!MessagesOf(copy[q])))
                   <=> id \in IdsOf(Held(copy))
<1>1. \A ms : Queues!Ids(ms) = IdsOf(RangeOf(ms))
  BY DEF Queues!Ids, IdsOf, RangeOf
<1>2. ASSUME NEW id
      PROVE  id \in IdsOf(Held(copy)) <=> \E q \in Queue : id \in IdsOf(In(copy, q))
  BY DEF IdsOf, Held
<1> QED
  BY <1>1, <1>2 DEF In

LEMMA QueueSound ==
  QueueInv => Queues!TypeOK /\ Queues!Kept /\ Queues!NoReturn /\ Queues!HolderKeeps
<1> SUFFICES ASSUME QueueInv
             PROVE  Queues!TypeOK /\ Queues!Kept /\ Queues!NoReturn /\ Queues!HolderKeeps
  OBVIOUS
<1>0. QueueTypes /\ KeptThere /\ GoneAway /\ HoldersHave
  BY DEF QueueInv
<1>1. Queues!TypeOK
  BY <1>0 DEF QueueTypes, Queues!TypeOK, Copies
<1>2. Queues!Kept
  BY <1>0, IdsHeld DEF KeptThere, Queues!Kept, Queues!Stored
<1>3. Queues!NoReturn
  <2> SUFFICES ASSUME NEW id \in gone, NEW q \in Queue
               PROVE  ~Queues!Stored(mem[q], id) /\ ~Queues!Stored(disk[q], id)
    BY DEF Queues!NoReturn
  <2>1. id \notin IdsOf(Held(mem)) /\ id \notin IdsOf(Held(disk))
    BY <1>0 DEF GoneAway, IdsOf
  <2> QED
    BY <2>1, IdsHeld DEF Queues!Stored
<1>4. Queues!HolderKeeps
  <2>1. ASSUME NEW copy \in {mem, disk}, NEW q \in Queue,
               NEW i \in DOMAIN Queues!MessagesOf(copy[q])
        PROVE  LET m == copy[q].messages[i] IN holder[m.id] # Nobody => m = holder[m.id]
    <3>1. Queues!MessagesOf(copy[q]) = copy[q].messages
      BY <2>1 DEF Queues!MessagesOf
    <3>2. copy[q].messages[i] \in Held(copy)
      BY <3>1 DEF Held, In, RangeOf
    <3> QED
      BY <1>0, <3>2 DEF HoldersHave
  <2> QED
    BY <2>1 DEF Queues!HolderKeeps
<1> QED
  BY <1>1, <1>2, <1>3, <1>4

(* What it says of one message.                                            *)
ExclusiveFor(m) ==
  /\ queueRequest = None /\ queueRequest' # None
  /\ holder[m] # Nobody /\ now < holder[m].visible
  /\ \/ \E h \in queueRequest'.handed : h.id = m
     \/ queueRequest'.removed = {m} /\ queueRequest'.by # Queues!NoReceipt
  => queueRequest'.by = holder[m].receipt

LEMMA HandsOutNone ==
  ASSUME NEW q, NEW content, NEW added, NEW removed,
         Queues!Change(q, content, Queues!Request({}, added, removed, Queues!NoReceipt)), NEW m
  PROVE  ExclusiveFor(m)
  BY DEF Queues!Change, Queues!Request, ExclusiveFor

LEMMA FindsHolders ==
  ASSUME QueueInv, NEW q \in Queue, mem[q] # NoQueue, NEW i \in DOMAIN Queues!Alive(q)
  PROVE  /\ Queues!Alive(q)[i] \in Queues!Message
         /\ holder[Queues!Alive(q)[i].id] # Nobody
              => holder[Queues!Alive(q)[i].id] = Queues!Alive(q)[i]
<1>1. Queues!Alive(q)[i] \in In(mem, q)
  BY AliveIs DEF RangeOf
<1>2. Queues!Alive(q)[i] \in Held(mem) /\ Queues!Alive(q)[i] \in Queues!Message
  BY <1>1, Counters, CopyTyped
<1> QED
  BY <1>2 DEF QueueInv, HoldersHave

LEMMA DequeueExclusive ==
  ASSUME QueueInv, NEW q \in Queue, NEW num, NEW v, Queues!Dequeue(q, num, v),
         NEW m \in Queues!Msg
  PROVE  ExclusiveFor(m)
<1> DEFINE old == Queues!Alive(q)
           taken == Queues!FirstVisible(old, num)
           receipt(i) == receipts + Queues!Cardinality({j \in taken : j <= i})
           new(i) == [old[i] EXCEPT !.visible = now + v, !.receipt = receipt(i)]
           out == [i \in DOMAIN old |-> IF i \in taken THEN new(i) ELSE old[i]]
<1>1. /\ mem[q] # NoQueue
      /\ Queues!Change(q, Queues!Messages(q, out),
           Queues!Request({out[i] : i \in taken}, {}, {}, Queues!NoReceipt))
  BY DEF Queues!Dequeue, Queues!Found
<1>2. \A i \in taken : i \in DOMAIN old /\ now >= old[i].visible
  BY DEF Queues!FirstVisible, Queues!visible
<1>3. \A i \in taken : old[i] \in Queues!Message
                       /\ (holder[old[i].id] # Nobody => holder[old[i].id] = old[i])
  BY <1>1, <1>2, FindsHolders
<1> HIDE DEF old, taken
<1>4. ASSUME NEW i \in taken PROVE out[i].id = old[i].id
  <2>1. out[i] = new(i)
    BY <1>2
  <2> HIDE DEF out, receipt
  <2>2. old[i] \in Queues!Message
    BY <1>3
  <2> QED
    BY <2>1, <2>2 DEF Queues!Message
<1> HIDE DEF out
<1>5. /\ queueRequest'.handed = {out[i] : i \in taken}
      /\ queueRequest'.removed = {}
  BY <1>1 DEF Queues!Change, Queues!Request
<1> SUFFICES ASSUME holder[m] # Nobody, now < holder[m].visible,
                    \E h \in queueRequest'.handed : h.id = m
             PROVE  FALSE
  BY <1>5 DEF ExclusiveFor
<1>6. PICK i \in taken : old[i].id = m
  BY <1>4, <1>5
<1>7. holder[m] = old[i] /\ old[i].visible \in Nat /\ now >= old[i].visible
  BY <1>2, <1>3, <1>6, MessageTyped
<1> QED
  BY <1>7, Counters

LEMMA ExclusiveStep ==
  ASSUME QueueInv, Queues!Next, NEW m \in Queues!Msg PROVE ExclusiveFor(m)
<1>1. ASSUME NEW q \in Queue, Queues!handleQueue(q) PROVE ExclusiveFor(m)
  BY <1>1, HandsOutNone DEF Queues!handleQueue, Queues!CreateQueue, Queues!SetMetadata,
     Queues!DeleteQueue
<1>2. ASSUME NEW q \in Queue, NEW id \in Queues!Msg, NEW r \in 0..MaxReceipt,
             Queues!DeleteMessage(q, id, r)
      PROVE  ExclusiveFor(m)
  <2>1. PICK i \in DOMAIN Queues!Alive(q) :
          /\ Queues!Alive(q)[i].id = id /\ Queues!Alive(q)[i].receipt = r
          /\ queueRequest' = Queues!Request({}, {}, {id}, r)
    BY <1>2 DEF Queues!DeleteMessage, Queues!Matches, Queues!Change
  <2>2. mem[q] # NoQueue
    BY <1>2 DEF Queues!DeleteMessage, Queues!Found
  <2>3. holder[id] # Nobody => holder[id].receipt = r
    BY <2>1, <2>2, FindsHolders
  <2> QED
    BY <2>1, <2>3 DEF ExclusiveFor, Queues!Request
<1>3. ASSUME NEW q \in Queue, NEW id \in Queues!Msg, NEW r \in 0..MaxReceipt, NEW v \in Visibility,
             Queues!UpdateMessage(q, id, r, v)
      PROVE  ExclusiveFor(m)
  <2> DEFINE new(i) == [Queues!Alive(q)[i] EXCEPT !.receipt = receipts + 1, !.visible = now + v]
  <2>1. PICK i \in DOMAIN Queues!Alive(q) :
          /\ new(i).id = id /\ Queues!Alive(q)[i].receipt = r
          /\ queueRequest' = Queues!Request({new(i)}, {}, {}, r)
    BY <1>3 DEF Queues!UpdateMessage, Queues!Matches, Queues!Change
  <2>2. mem[q] # NoQueue
    BY <1>3 DEF Queues!UpdateMessage, Queues!Found
  <2>3. Queues!Alive(q)[i] \in Queues!Message
    BY <2>2, FindsHolders
  <2>4. new(i).id = Queues!Alive(q)[i].id
    BY <2>3 DEF Queues!Message
  <2>5. holder[id] # Nobody => holder[id].receipt = r
    BY <2>1, <2>2, <2>4, FindsHolders
  <2> HIDE DEF new
  <2>6. /\ queueRequest'.handed = {new(i)} /\ queueRequest'.removed = {} /\ queueRequest'.by = r
    BY <2>1 DEF Queues!Request
  <2> QED
    BY <2>1, <2>5, <2>6 DEF ExclusiveFor
<1>4. ASSUME NEW q \in Queue, Queues!handleMessages(q) PROVE ExclusiveFor(m)
  <2>1. CASE Queues!putMessage(q)
    BY <2>1, HandsOutNone DEF Queues!putMessage, Queues!Enqueue
  <2>2. CASE Queues!getMessages(q)
    BY <2>2, DequeueExclusive DEF Queues!getMessages
  <2>3. CASE Queues!ClearMessages(q)
    BY <2>3, HandsOutNone DEF Queues!ClearMessages
  <2>4. CASE Queues!handleMessage(q)
    BY <1>2, <1>3, <2>4 DEF Queues!handleMessage
  <2> QED
    BY <1>4, <2>1, <2>2, <2>3, <2>4 DEF Queues!handleMessages
<1>5. Queues!handleAccount \/ Queues!load \/ Queues!Tick => UNCHANGED queueRequest
  BY DEF Queues!handleAccount, Queues!Look, Queues!load, Queues!Tick
<1>6. Queues!persistLocked \/ Queues!Stop => queueRequest' = None
  BY DEF Queues!persistLocked, Queues!Stop
<1>7. UNCHANGED queueRequest \/ queueRequest' = None => ExclusiveFor(m)
  BY DEF ExclusiveFor
<1> QED
  BY <1>1, <1>4, <1>5, <1>6, <1>7 DEF Queues!Next
=============================================================================
