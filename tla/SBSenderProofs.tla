--------------------------- MODULE SBSenderProofs ---------------------------
(***************************************************************************)
(* What the broker is handed over a link is what its client sent, and the  *)
(* link's window is conserved, for any width of the counters, any window   *)
(* and any number of frames.                                               *)
(***************************************************************************)
EXTENDS SBSender, FiniteSetTheorems, SequenceTheorems, FunctionTheorems,
        WellFoundedInduction, TLAPS

(* Counters.                                                               *)
Count == 0..(Width - 1)
Less(a, b) == (a - b) % Width   \* by how much a is ahead of b

LEMMA Counters ==
  /\ Width \in Nat /\ InitialCredit \in Nat /\ Threshold \in Nat
  /\ 0 < Threshold /\ Threshold <= InitialCredit /\ InitialCredit < Width
  /\ MaxFrames \in Nat /\ 0 < MaxFrames
  BY SenderAssumption

LEMMA IncIs ==
  ASSUME NEW a \in Count
  PROVE  Inc(a) \in Count /\ Inc(a) = IF a = Width - 1 THEN 0 ELSE a + 1
<1>1. a \in Int /\ 0 <= a /\ a < Width /\ a + 1 \in Int /\ -Width < a + 1 /\ a + 1 < 2 * Width
  BY Counters DEF Count
<1>2. (a + 1) % Width = IF a + 1 < Width THEN a + 1 ELSE a + 1 - Width
  BY <1>1, Counters
<1> QED
  BY <1>1, <1>2, Counters DEF Inc, Count

LEMMA LessIs ==
  ASSUME NEW a \in Count, NEW b \in Count
  PROVE  Less(a, b) \in Count /\ Less(a, b) = IF b <= a THEN a - b ELSE a - b + Width
<1>1. /\ a \in Int /\ b \in Int /\ 0 <= a /\ a < Width /\ 0 <= b /\ b < Width
      /\ a - b \in Int /\ -Width < a - b /\ a - b < 2 * Width
  BY Counters DEF Count
<1>2. (a - b) % Width = IF a - b < 0 THEN a - b + Width ELSE a - b
  BY <1>1, Counters
<1> QED
  BY <1>1, <1>2, Counters DEF Less, Count

(* One delivery more is one less of the window, and one more outstanding.  *)
LEMMA LessInc ==
  ASSUME NEW a \in Count, NEW b \in Count
  PROVE  /\ Less(a, b) > 0 => Less(a, Inc(b)) = Less(a, b) - 1
         /\ Less(a, b) < Width - 1 => Less(Inc(a), b) = Less(a, b) + 1
<1>0. /\ a \in Int /\ b \in Int /\ 0 <= a /\ a < Width /\ 0 <= b /\ b < Width
      /\ Width \in Nat /\ Width > 1
  BY Counters DEF Count
<1>1. PICK c \in Count : c = Inc(a) /\ c = IF a = Width - 1 THEN 0 ELSE a + 1
  BY IncIs
<1>2. PICK d \in Count : d = Inc(b) /\ d = IF b = Width - 1 THEN 0 ELSE b + 1
  BY IncIs
<1>3. Less(a, b) = IF b <= a THEN a - b ELSE a - b + Width
  BY LessIs
<1>4. Less(c, b) = IF b <= c THEN c - b ELSE c - b + Width
  BY LessIs
<1>5. Less(a, d) = IF d <= a THEN a - d ELSE a - d + Width
  BY LessIs
<1>6. Less(a, b) > 0 => Less(a, d) = Less(a, b) - 1
  BY <1>0, <1>2, <1>3, <1>5
<1>7. Less(a, b) < Width - 1 => Less(c, b) = Less(a, b) + 1
  BY <1>0, <1>1, <1>3, <1>4
<1> QED
  BY <1>1, <1>2, <1>6, <1>7

(* A flow for the count of those received lets the client send the credit  *)
(* less what is outstanding.                                               *)
LEMMA GrantIs ==
  ASSUME NEW r \in Count, NEW s \in Count, Less(s, r) <= InitialCredit
  PROVE  /\ Granted(FlowFrame(r, InitialCredit)) \in Count
         /\ Less(Granted(FlowFrame(r, InitialCredit)), s) = InitialCredit - Less(s, r)
<1> DEFINE g == (r + InitialCredit) % Width
<1>1. /\ r \in Int /\ s \in Int /\ 0 <= r /\ r < Width /\ 0 <= s /\ s < Width
      /\ r + InitialCredit \in Int /\ -Width < r + InitialCredit /\ r + InitialCredit < 2 * Width
  BY Counters DEF Count
<1>2. g = IF r + InitialCredit < Width THEN r + InitialCredit ELSE r + InitialCredit - Width
  BY <1>1, Counters
<1>3. g \in Count
  BY <1>1, <1>2, Counters DEF Count
<1>4. Granted(FlowFrame(r, InitialCredit)) = g
  BY DEF Granted, FlowFrame
<1> HIDE DEF g
<1> QED
  BY <1>1, <1>2, <1>3, <1>4, LessIs, Counters

-----------------------------------------------------------------------------
(* Frames.                                                                 *)

Chunk == {c \in Count \X (1..MaxFrames) \X (1..MaxFrames) : c[2] <= c[3]}
Final(c) == c[2] = c[3]

Transfers == {Transfer(c, ~Final(c)) : c \in Chunk}
Replies == {FlowFrame(k, InitialCredit) : k \in Count} \cup {Settled}
ToServer == Transfers \cup {Attach, Detach}
ToClient == Replies \cup {Attach, Detach}

LEMMA TransferIs ==
  ASSUME NEW f \in Transfers
  PROVE  /\ f.kind = "transfer" /\ f.chunk \in Chunk /\ f.more = ~Final(f.chunk)
         /\ f # Attach /\ f # Detach /\ f \in ToServer
<1>1. PICK c \in Chunk : f = Transfer(c, ~Final(c))
  BY DEF Transfers
<1>2. f.kind = "transfer" /\ f.chunk = c /\ f.more = ~Final(c)
  BY <1>1 DEF Transfer
<1>3. Attach.kind = "attach" /\ Detach.kind = "detach"
  BY DEF Attach, Detach
<1> QED
  BY <1>2, <1>3 DEF ToServer

LEMMA Kinds ==
  /\ Attach.kind = "attach" /\ Detach.kind = "detach" /\ Settled.kind = "disposition"
  /\ Attach # Detach /\ Attach \in ToServer /\ Detach \in ToServer
  /\ Attach \in ToClient /\ Detach \in ToClient /\ Settled \in Replies
<1>1. Attach.kind = "attach" /\ Detach.kind = "detach" /\ Settled.kind = "disposition"
  BY DEF Attach, Detach, Settled
<1> QED
  BY <1>1 DEF ToServer, ToClient, Replies

LEMMA ReplyIs ==
  ASSUME NEW f \in Replies
  PROVE  /\ f # Attach /\ f # Detach /\ f \in ToClient
         /\ f.kind = "flow" => Granted(f) \in Count
<1>1. CASE f = Settled
  BY <1>1, Kinds DEF ToClient
<1>2. CASE f # Settled
  <2>1. PICK k \in Count : f = FlowFrame(k, InitialCredit)
    BY <1>2 DEF Replies
  <2>2. f.kind = "flow" /\ f.count = k /\ f.credit = InitialCredit
    BY <2>1 DEF FlowFrame
  <2>3. (k + InitialCredit) % Width \in Count
    BY Counters DEF Count
  <2> QED
    BY <2>2, <2>3, Kinds DEF Granted, ToClient
<1> QED
  BY <1>1, <1>2

LEMMA FlowIs ==
  ASSUME NEW k \in Count
  PROVE  FlowFrame(k, InitialCredit) \in Replies /\ FlowFrame(k, InitialCredit).kind = "flow"
  BY DEF Replies, FlowFrame

(* Sequences at their ends.                                                *)
LEMMA AtEnd ==
  ASSUME NEW A, NEW s \in Seq(A), NEW x \in A
  PROVE  /\ Append(s, x) \in Seq(A) /\ Len(Append(s, x)) = Len(s) + 1
         /\ Len(s) \in Nat /\ DOMAIN s = 1..Len(s) /\ DOMAIN Append(s, x) = 1..(Len(s) + 1)
         /\ \A i \in DOMAIN s : Append(s, x)[i] = s[i]
         /\ Append(s, x)[Len(s) + 1] = x /\ Append(s, x) # <<>>
  OBVIOUS

LEMMA AtStart ==
  ASSUME NEW A, NEW s \in Seq(A), s # <<>>
  PROVE  /\ Head(s) = s[1] /\ Head(s) \in A /\ 1 \in DOMAIN s
         /\ Tail(s) \in Seq(A) /\ Len(Tail(s)) = Len(s) - 1 /\ Len(s) \in Nat \ {0}
         /\ DOMAIN s = 1..Len(s) /\ DOMAIN Tail(s) = 1..(Len(s) - 1)
         /\ \A i \in DOMAIN Tail(s) : i + 1 \in DOMAIN s /\ Tail(s)[i] = s[i + 1]
  OBVIOUS

LEMMA FinalsFinite ==
  ASSUME NEW A, NEW s \in Seq(A)
  PROVE  IsFiniteSet(Finals(s)) /\ Cardinality(Finals(s)) \in Nat
<1>1. IsFiniteSet(1..Len(s)) /\ Finals(s) \subseteq 1..Len(s)
  BY FS_Interval DEF Finals
<1> QED
  BY <1>1, FS_Subset, FS_CardinalityType

LEMMA FinalsAppend ==
  ASSUME NEW s \in Seq(ToServer), NEW f \in ToServer
  PROVE  Cardinality(Finals(Append(s, f))) =
           Cardinality(Finals(s)) + IF f.kind = "transfer" /\ ~f.more THEN 1 ELSE 0
<1> DEFINE t == Append(s, f)
           l == Len(s)
<1>1. /\ l \in Nat /\ DOMAIN s = 1..l /\ DOMAIN t = 1..(l + 1)
      /\ (\A i \in 1..l : t[i] = s[i]) /\ t[l + 1] = f
  BY AtEnd
<1> HIDE DEF t, l
<1>2. IsFiniteSet(Finals(s)) /\ Cardinality(Finals(s)) \in Nat /\ l + 1 \notin Finals(s)
  BY <1>1, FinalsFinite DEF Finals
<1>3. CASE f.kind = "transfer" /\ ~f.more
  <2>1. Finals(t) = Finals(s) \cup {l + 1}
    BY <1>1, <1>3 DEF Finals
  <2> QED
    BY <1>2, <1>3, <2>1, FS_AddElement DEF t
<1>4. CASE ~(f.kind = "transfer" /\ ~f.more)
  <2>1. Finals(t) = Finals(s)
    BY <1>1, <1>4 DEF Finals
  <2> QED
    BY <1>2, <1>4, <2>1 DEF t
<1> QED
  BY <1>3, <1>4

LEMMA FinalsTail ==
  ASSUME NEW s \in Seq(ToServer), s # <<>>
  PROVE  Cardinality(Finals(s)) =
           Cardinality(Finals(Tail(s))) + IF s[1].kind = "transfer" /\ ~s[1].more THEN 1 ELSE 0
<1> DEFINE t == Tail(s)
           l == Len(s)
           R == {i \in Finals(s) : i # 1}
           g == [i \in Finals(t) |-> i + 1]
<1>1. /\ l \in Nat \ {0} /\ DOMAIN s = 1..l /\ DOMAIN t = 1..(l - 1)
      /\ \A i \in 1..(l - 1) : t[i] = s[i + 1]
  BY AtStart
<1>2. t \in Seq(ToServer)
  BY AtStart
<1> HIDE DEF t, l
<1>3. \A i \in 1..(l - 1) : i \in Finals(t) <=> i + 1 \in Finals(s)
  BY <1>1 DEF Finals
<1>4. Finals(t) \subseteq 1..(l - 1) /\ Finals(s) \subseteq 1..l
  BY <1>1 DEF Finals
<1>5. g \in Bijection(Finals(t), R)
  <2>1. g \in [Finals(t) -> R]
    BY <1>1, <1>3, <1>4
  <2>2. \A i, j \in Finals(t) : g[i] = g[j] => i = j
    BY <1>1, <1>4
  <2>3. ASSUME NEW k \in R PROVE \E i \in Finals(t) : g[i] = k
    <3>1. k \in 1..l /\ k # 1 /\ k - 1 \in 1..(l - 1) /\ (k - 1) + 1 = k
      BY <1>1, <1>4
    <3>2. k - 1 \in Finals(t)
      BY <1>3, <3>1
    <3> QED
      BY <3>1, <3>2
  <2> QED
    BY <2>1, <2>2, <2>3, Fun_IsBij
<1>6. /\ IsFiniteSet(Finals(t)) /\ IsFiniteSet(Finals(s)) /\ Cardinality(Finals(t)) \in Nat
      /\ Cardinality(Finals(s)) \in Nat
  BY <1>2, FinalsFinite
<1>7. IsFiniteSet(R) /\ Cardinality(R) = Cardinality(Finals(t))
  BY <1>5, <1>6, FS_Bijection DEF ExistsBijection
<1> HIDE DEF g
<1>8. CASE s[1].kind = "transfer" /\ ~s[1].more
  <2>1. Finals(s) = R \cup {1} /\ 1 \notin R
    BY <1>1, <1>8 DEF Finals
  <2> HIDE DEF R
  <2> QED
    BY <1>6, <1>7, <1>8, <2>1, FS_AddElement DEF t
<1>9. CASE ~(s[1].kind = "transfer" /\ ~s[1].more)
  <2>1. Finals(s) = R
    BY <1>1, <1>9 DEF Finals
  <2> HIDE DEF R
  <2> QED
    BY <1>6, <1>7, <1>9, <2>1 DEF t
<1> QED
  BY <1>8, <1>9

-----------------------------------------------------------------------------
(* The invariant.                                                          *)

AllTransfers(s) == \A i \in DOMAIN s : s[i] \in Transfers
AllReplies(s) == \A i \in DOMAIN s : s[i] \in Replies
ButLast(s, A, x) == s # <<>> /\ \A i \in DOMAIN s : IF i = Len(s) THEN s[i] = x ELSE s[i] \in A

Types ==
  /\ linked \in BOOLEAN
  /\ state \in {"detached", "attaching", "attached", "detaching"}
  /\ toServer \in Seq(ToServer) /\ toClient \in Seq(ToClient)
  /\ partial \in Seq(Chunk) /\ sending \in Seq(Chunk)
  /\ received \in Count /\ sinceFlow \in 0..(Threshold - 1)
  /\ nextId \in Count /\ started \in Count /\ allowed \in Count

(* How far an attach or a detach has come, and what is in flight then:     *)
(* what a link left behind is gone before the next one is attached, but    *)
(* for transfers, which come before its attach.                            *)
Detached == ~linked /\ toClient = <<>> /\ AllTransfers(toServer) /\ sending = <<>>

Asking == ~linked /\ toClient = <<>> /\ ButLast(toServer, Transfers, Attach)
Answered ==
  /\ linked /\ toServer = <<>>
  /\ Len(toClient) = 2 /\ toClient[1] = Attach /\ toClient[2] = FlowFrame(0, InitialCredit)
  /\ partial = <<>> /\ received = 0 /\ sinceFlow = 0
Attaching == sending = <<>> /\ started = 0 /\ allowed = 0 /\ (Asking \/ Answered)

Attached == linked /\ AllTransfers(toServer) /\ AllReplies(toClient)

Leaving ==
  /\ linked /\ AllReplies(toClient)
  /\ \E d \in DOMAIN toServer : /\ toServer[d] = Detach
                                /\ \A i \in DOMAIN toServer \ {d} : toServer[i] \in Transfers
Left == ~linked /\ AllTransfers(toServer) /\ ButLast(toClient, Replies, Detach)

Phase ==
  /\ state = "detached" => Detached
  /\ state = "attaching" => Attaching
  /\ state = "attached" => Attached
  /\ state = "detaching" => Leaving \/ Left

(* The chunks on their way to a link that is attached: first those         *)
(* buffered, then those in the socket up to a detach, then those not yet   *)
(* written.  Each follows the one before it.                               *)
Nothing == <<0, 0, 0>>
Follows(p, c) == IF Final(p) THEN c[2] = 1 ELSE c = <<p[1], p[2] + 1, p[3]>>

Buffered == IF partial = <<>> THEN Nothing ELSE partial[Len(partial)]
Before(i) == IF i = 1 THEN Buffered ELSE toServer[i - 1].chunk

BufferOK ==
  linked /\ partial # <<>> =>
    \E id \in Count, k \in 1..MaxFrames :
      Len(partial) < k /\ \A j \in DOMAIN partial : partial[j] = <<id, j, k>>

SocketOK ==
  linked => \A i \in DOMAIN toServer :
              (\A j \in 1..i : toServer[j] \in Transfers) => Follows(Before(i), toServer[i].chunk)

SendingOK ==
  sending # <<>> =>
    \E id \in Count, k \in 1..MaxFrames :
      /\ Len(sending) <= k
      /\ \A i \in DOMAIN sending : sending[i] = <<id, k - Len(sending) + i, k>>

NextOK ==
  state = "attached" =>
    IF sending = <<>> THEN Final(Before(Len(toServer) + 1))
                      ELSE Follows(Before(Len(toServer) + 1), sending[1])

(* The windows that the flows on their way to the client leave it, one     *)
(* after the other, grow up to what WindowConserved says of the last.      *)
Ahead(i) == Less(Granted(toClient[i]), started)

Grants ==
  /\ Less(allowed, started) + Outstanding + sinceFlow <= InitialCredit
  /\ \A i \in Flows : /\ Less(allowed, started) <= Ahead(i)
                      /\ Ahead(i) + Outstanding + sinceFlow <= InitialCredit
  /\ \A i, j \in Flows : i < j => Ahead(i) <= Ahead(j)
  /\ Flows = {} => Less(allowed, started) + Outstanding + sinceFlow = InitialCredit
  /\ \A i \in Flows :
       (\A j \in Flows : j <= i) => Ahead(i) + Outstanding + sinceFlow = InitialCredit

WindowOK == state = "attached" => Less(started, received) = Outstanding /\ Grants

Inv == Types /\ Phase /\ BufferOK /\ SocketOK /\ SendingOK /\ NextOK /\ WindowOK /\ Verbatim

-----------------------------------------------------------------------------
(* Each step keeps it.                                                     *)

LEMMA Transferred ==
  ASSUME Types, NEW i \in DOMAIN toServer
  PROVE  /\ toServer[i] \in ToServer
         /\ toServer[i].kind = "transfer" <=> toServer[i] \in Transfers
         /\ toServer[i].kind = "attach" <=> toServer[i] = Attach
         /\ toServer[i].kind = "detach" <=> toServer[i] = Detach
<1>1. toServer[i] \in ToServer
  BY DEF Types
<1>2. CASE toServer[i] \in Transfers
  BY <1>1, <1>2, TransferIs, Kinds
<1>3. CASE toServer[i] \in {Attach, Detach}
  BY <1>1, <1>3, TransferIs, Kinds
<1> QED
  BY <1>1, <1>2, <1>3 DEF ToServer

LEMMA OutstandingIs ==
  ASSUME Types
  PROVE  /\ Outstanding \in Nat /\ Cardinality(Finals(toServer)) \in Nat
         /\ Outstanding = Cardinality(Finals(toServer)) + IF sending = <<>> THEN 0 ELSE 1
<1>1. Cardinality(Finals(toServer)) \in Nat
  BY FinalsFinite DEF Types
<1> QED
  BY <1>1 DEF Outstanding

LEMMA ZeroCounts == 0 \in Count /\ Count \subseteq Nat
  BY Counters DEF Count

LEMMA AheadIs ==
  ASSUME Types, AllReplies(toClient)
  PROVE  /\ \A i \in Flows : /\ i \in Nat /\ i \in DOMAIN toClient
                             /\ Granted(toClient[i]) \in Count /\ Ahead(i) \in Nat
         /\ Less(allowed, started) \in Nat /\ Less(started, received) \in Nat
<1>1. DOMAIN toClient \subseteq Nat
  BY DEF Types
<1>2. \A i \in Flows : i \in DOMAIN toClient /\ toClient[i] \in Replies /\ toClient[i].kind = "flow"
  BY DEF Flows, AllReplies
<1>3. \A i \in Flows : Granted(toClient[i]) \in Count
  BY <1>2, ReplyIs
<1>4. started \in Count /\ allowed \in Count /\ received \in Count
  BY DEF Types
<1>5. \A a, b \in Count : Less(a, b) \in Nat
  BY LessIs, ZeroCounts
<1> QED
  BY <1>1, <1>2, <1>3, <1>4, <1>5 DEF Ahead

LEMMA InitOK == Init => Inv
<1> SUFFICES ASSUME Init PROVE Inv
  OBVIOUS
<1>1. Types
  <2>1. 0 \in 0..(Threshold - 1)
    BY Counters
  <2>2. \A A : <<>> \in Seq(A)
    OBVIOUS
  <2> QED
    BY <2>1, <2>2, ZeroCounts DEF Init, Types
<1>2. Phase
  BY DEF Init, Phase, Detached, AllTransfers
<1> QED
  BY <1>1, <1>2
     DEF Init, Inv, BufferOK, SocketOK, SendingOK, NextOK, WindowOK, Verbatim

(* What a step that leaves the chunks alone need not show.                 *)
LEMMA ChunksStay ==
  ASSUME Inv, UNCHANGED <<toServer, partial, linked, body>>
  PROVE  BufferOK' /\ SocketOK' /\ Verbatim' /\ \A i : Before(i)' = Before(i)
<1>1. \A i : Before(i)' = Before(i)
  BY DEF Before, Buffered
<1>2. BufferOK'
  BY DEF Inv, BufferOK
<1>3. SocketOK'
  BY <1>1 DEF Inv, SocketOK
<1>4. Verbatim'
  BY DEF Inv, Verbatim
<1> QED
  BY <1>1, <1>2, <1>3, <1>4

LEMMA ClientAttachKeeps ==
  ASSUME Inv, ClientAttach PROVE Inv'
<1>1. /\ state = "detached" /\ state' = "attaching" /\ toServer' = Append(toServer, Attach)
      /\ started' = 0 /\ allowed' = 0
      /\ UNCHANGED <<toClient, linked, partial, received, sinceFlow, body, sending, nextId>>
  BY DEF ClientAttach, serverVars
<1>2. Types /\ Detached
  BY <1>1 DEF Inv, Phase
<1>3. /\ toServer' \in Seq(ToServer) /\ toServer' # <<>> /\ Len(toServer') = Len(toServer) + 1
      /\ DOMAIN toServer = 1..Len(toServer) /\ DOMAIN toServer' = 1..(Len(toServer) + 1)
      /\ Len(toServer) \in Nat
      /\ \A i \in DOMAIN toServer : toServer'[i] = toServer[i]
      /\ toServer'[Len(toServer) + 1] = Attach
  BY <1>1, <1>2, AtEnd, Kinds DEF Types
<1>4. Types'
  BY <1>1, <1>2, <1>3, ZeroCounts DEF Types
<1>5. ButLast(toServer', Transfers, Attach)
  BY <1>2, <1>3 DEF ButLast, Detached, AllTransfers
<1>6. Phase'
  BY <1>1, <1>2, <1>5 DEF Phase, Attaching, Asking, Detached
<1>7. ~linked' /\ state' = "attaching"
  BY <1>1, <1>2 DEF Detached
<1> QED
  BY <1>1, <1>4, <1>6, <1>7
     DEF Inv, BufferOK, SocketOK, SendingOK, NextOK, WindowOK, Verbatim

LEMMA DeliveryIs ==
  ASSUME NEW id \in Count, NEW k \in 1..MaxFrames
  PROVE  /\ Delivery(id, k) \in Seq(Chunk) /\ Len(Delivery(id, k)) = k /\ Delivery(id, k) # <<>>
         /\ DOMAIN Delivery(id, k) = 1..k /\ \A i \in 1..k : Delivery(id, k)[i] = <<id, i, k>>
<1>1. \A i \in 1..k : <<id, i, k>> \in Chunk
  BY Counters DEF Chunk
<1>2. k \in Nat /\ 0 < k
  OBVIOUS
<1> QED
  BY <1>1, <1>2 DEF Delivery

LEMMA ClientStartKeeps ==
  ASSUME Inv, NEW k \in 1..MaxFrames, ClientStart(k) PROVE Inv'
<1>1. /\ state = "attached" /\ sending = <<>> /\ Window > 0
      /\ sending' = Delivery(nextId, k) /\ nextId' = Inc(nextId) /\ started' = Inc(started)
      /\ UNCHANGED <<toServer, toClient, linked, partial, received, sinceFlow, body, state, allowed>>
  BY DEF ClientStart, serverVars
<1>2. Types /\ Attached /\ WindowOK /\ NextOK
  BY <1>1 DEF Inv, Phase
<1>3. nextId \in Count /\ started \in Count /\ Inc(nextId) \in Count /\ Inc(started) \in Count
  BY <1>2, IncIs DEF Types
<1>4. /\ sending' \in Seq(Chunk) /\ Len(sending') = k /\ sending' # <<>> /\ DOMAIN sending' = 1..k
      /\ \A i \in 1..k : sending'[i] = <<nextId, i, k>>
  BY <1>1, <1>3, DeliveryIs
<1>5. Types'
  BY <1>1, <1>2, <1>3, <1>4 DEF Types
<1>6. Phase'
  BY <1>1, <1>2 DEF Phase, Attached
<1>7. BufferOK' /\ SocketOK' /\ Verbatim' /\ \A i : Before(i)' = Before(i)
  BY <1>1, ChunksStay
<1>8. SendingOK'
  <2>1. \A i \in 1..k : k - k + i = i
    OBVIOUS
  <2> QED
    BY <1>3, <1>4, <2>1 DEF SendingOK
<1>9. NextOK'
  <2>1. Final(Before(Len(toServer) + 1))
    BY <1>1, <1>2 DEF NextOK
  <2>2. sending'[1][2] = 1
    BY <1>4
  <2> QED
    BY <1>1, <1>4, <1>7, <2>1, <2>2 DEF NextOK, Follows
<1>10. WindowOK'
  <2>1. /\ \A i \in Flows : Granted(toClient[i]) \in Count /\ Ahead(i) \in Nat
        /\ Less(allowed, started) \in Nat /\ Less(started, received) \in Nat
    BY <1>2, AheadIs DEF Attached
  <2>2. Outstanding' = Outstanding + 1 /\ Outstanding \in Nat
    BY <1>1, <1>2, <1>4, <1>5, OutstandingIs DEF Outstanding
  <2>3. /\ Less(started, received) = Outstanding /\ Grants
    BY <1>1, <1>2 DEF WindowOK
  <2>4. Less(allowed, started) > 0
    BY <1>1 DEF Window, Less
  <2>5. sinceFlow \in Nat /\ received \in Count /\ allowed \in Count
    BY <1>2, Counters DEF Types
  <2>6. Outstanding + 1 <= InitialCredit
    BY <2>1, <2>2, <2>3, <2>4, <2>5, ZeroCounts, Counters DEF Grants
  <2>7. Less(started', received') = Outstanding + 1
    <3>1. Less(started, received) < Width - 1
      BY <2>2, <2>3, <2>6, Counters
    <3> QED
      BY <1>1, <1>3, <2>3, <2>5, <3>1, LessInc
  <2>8. Less(allowed', started') = Less(allowed, started) - 1
    BY <1>1, <1>3, <2>4, <2>5, LessInc
  <2>9. ASSUME NEW i \in Flows PROVE Ahead(i)' = Ahead(i) - 1
    <3>1. Ahead(i) > 0
      BY <2>1, <2>3, <2>4, ZeroCounts DEF Grants
    <3>2. Less(Granted(toClient[i]), Inc(started)) = Less(Granted(toClient[i]), started) - 1
      BY <1>3, <2>1, <3>1, LessInc DEF Ahead
    <3> QED
      BY <1>1, <3>2 DEF Ahead
  <2>10. Flows' = Flows
    BY <1>1 DEF Flows
  <2>11. Grants'
    <3>1. /\ Less(allowed', started') + Outstanding' = Less(allowed, started) + Outstanding
          /\ \A i \in Flows : Ahead(i)' + Outstanding' = Ahead(i) + Outstanding
      BY <2>1, <2>2, <2>8, <2>9, ZeroCounts
    <3>2. \A i \in Flows : Less(allowed', started') <= Ahead(i)' <=> Less(allowed, started) <= Ahead(i)
      BY <2>1, <2>8, <2>9, ZeroCounts
    <3>3. \A i, j \in Flows : Ahead(i)' <= Ahead(j)' <=> Ahead(i) <= Ahead(j)
      BY <2>1, <2>9, ZeroCounts
    <3> QED
      BY <1>1, <2>3, <2>10, <3>1, <3>2, <3>3 DEF Grants
  <2> QED
    BY <2>2, <2>7, <2>11 DEF WindowOK
<1> QED
  BY <1>5, <1>6, <1>7, <1>8, <1>9, <1>10 DEF Inv

(* A frame more behind those in the socket.                                *)
LEMMA SocketGrows ==
  ASSUME Inv, NEW f \in ToServer, toServer' = Append(toServer, f),
         UNCHANGED <<partial, linked, body>>,
         linked /\ AllTransfers(toServer) => Follows(Before(Len(toServer) + 1), f.chunk)
  PROVE  /\ BufferOK' /\ SocketOK' /\ Verbatim'
         /\ Before(Len(toServer) + 1)' = f.chunk
<1>1. /\ toServer' \in Seq(ToServer) /\ Len(toServer') = Len(toServer) + 1
      /\ Len(toServer) \in Nat
      /\ DOMAIN toServer = 1..Len(toServer) /\ DOMAIN toServer' = 1..(Len(toServer) + 1)
      /\ \A i \in DOMAIN toServer : toServer'[i] = toServer[i]
      /\ toServer'[Len(toServer) + 1] = f
  BY AtEnd DEF Inv, Types
<1>2. Buffered' = Buffered
  BY DEF Buffered
<1>3. \A i \in 1..(Len(toServer) + 1) : Before(i)' = Before(i)
  <2> SUFFICES ASSUME NEW i \in 1..(Len(toServer) + 1) PROVE Before(i)' = Before(i)
    OBVIOUS
  <2>1. i # 1 => i - 1 \in DOMAIN toServer
    BY <1>1
  <2> QED
    BY <1>1, <1>2, <2>1 DEF Before
<1>4. Before(Len(toServer) + 1)' = f.chunk
  <2>1. /\ Len(toServer') + 1 # 1 /\ Len(toServer') + 1 - 1 = Len(toServer) + 1
    BY <1>1
  <2> QED
    BY <1>1, <2>1 DEF Before
<1>5. SocketOK'
  <2> SUFFICES ASSUME linked, NEW i \in DOMAIN toServer', \A j \in 1..i : toServer'[j] \in Transfers
               PROVE  Follows(Before(i)', toServer'[i].chunk)
    BY DEF SocketOK
  <2>1. i \in 1..(Len(toServer) + 1) /\ Before(i)' = Before(i)
    BY <1>1, <1>3
  <2>2. \A j \in 1..i : j \in DOMAIN toServer => toServer[j] \in Transfers
    BY <1>1
  <2>3. CASE i \in DOMAIN toServer
    <3>1. \A j \in 1..i : toServer[j] \in Transfers
      BY <1>1, <2>2, <2>3
    <3> QED
      BY <1>1, <2>1, <2>3, <3>1 DEF Inv, SocketOK
  <2>4. CASE i = Len(toServer) + 1
    <3>1. AllTransfers(toServer)
      BY <1>1, <2>2, <2>4 DEF AllTransfers
    <3> QED
      BY <1>1, <2>1, <2>4, <3>1
  <2> QED
    BY <1>1, <2>1, <2>3, <2>4
<1>6. BufferOK' /\ Verbatim'
  BY DEF Inv, BufferOK, Verbatim
<1> QED
  BY <1>4, <1>5, <1>6

LEMMA WindowStays ==
  ASSUME Inv, Outstanding' = Outstanding,
         UNCHANGED <<toClient, received, sinceFlow, state, started, allowed>>
  PROVE  WindowOK'
<1>1. Flows' = Flows /\ \A i : Ahead(i)' = Ahead(i)
  BY DEF Flows, Ahead
<1>2. Grants => Grants'
  BY <1>1 DEF Grants
<1> QED
  BY <1>2 DEF Inv, WindowOK

LEMMA ClientSendKeeps ==
  ASSUME Inv, ClientSend PROVE Inv'
<1> DEFINE f == Transfer(sending[1], Len(sending) > 1)
<1>0. Inv /\ Types /\ SendingOK
  BY DEF Inv
<1>1. /\ state \in {"attached", "detaching"} /\ sending # <<>> /\ sending' = Tail(sending)
      /\ toServer' = Append(toServer, f)
      /\ UNCHANGED <<toClient, linked, partial, received, sinceFlow, body, state,
                     nextId, started, allowed>>
  <2>1. Head(sending) = sending[1]
    BY <1>0, AtStart DEF Types, ClientSend
  <2> QED
    BY <2>1 DEF ClientSend, serverVars
<1>2. PICK id \in Count, k \in 1..MaxFrames :
        /\ Len(sending) <= k
        /\ \A i \in DOMAIN sending : sending[i] = <<id, k - Len(sending) + i, k>>
  BY <1>0, <1>1 DEF SendingOK
<1>3. /\ sending \in Seq(Chunk) /\ sending[1] \in Chunk /\ 1 \in DOMAIN sending
      /\ sending' \in Seq(Chunk) /\ Len(sending') = Len(sending) - 1
      /\ Len(sending) \in Nat \ {0} /\ DOMAIN sending = 1..Len(sending)
      /\ DOMAIN sending' = 1..(Len(sending) - 1)
      /\ \A i \in DOMAIN sending' : i + 1 \in DOMAIN sending /\ sending'[i] = sending[i + 1]
  BY <1>0, <1>1, AtStart DEF Types
<1>4. k \in Nat /\ sending[1] = <<id, k - Len(sending) + 1, k>>
  BY <1>2, <1>3
<1>5. (Len(sending) > 1) = ~Final(sending[1])
  BY <1>3, <1>4 DEF Final
<1>6. f \in Transfers /\ f.chunk = sending[1] /\ f.more = (Len(sending) > 1) /\ f.kind = "transfer"
  <2>1. f \in Transfers
    BY <1>3, <1>5 DEF Transfers
  <2> QED
    BY <2>1 DEF Transfer
<1>7. f \in ToServer
  BY <1>6, TransferIs
<1> HIDE DEF f
<1>8. /\ toServer' \in Seq(ToServer) /\ DOMAIN toServer = 1..Len(toServer)
      /\ DOMAIN toServer' = 1..(Len(toServer) + 1) /\ Len(toServer) \in Nat
      /\ \A i \in DOMAIN toServer : toServer'[i] = toServer[i]
      /\ toServer'[Len(toServer) + 1] = f
  BY <1>0, <1>1, <1>7, AtEnd DEF Types
<1>9. sending' = <<>> <=> Len(sending) = 1
  BY <1>3
<1>10. Types'
  BY <1>0, <1>1, <1>3, <1>8 DEF Types
<1>11. AllTransfers(toServer) => AllTransfers(toServer')
  BY <1>6, <1>8 DEF AllTransfers
<1>12. Phase'
  <2>1. CASE state = "attached"
    BY <1>0, <1>1, <1>11, <2>1 DEF Inv, Phase, Attached
  <2>2. CASE state = "detaching"
    <3>1. Leaving => Leaving'
      <4> SUFFICES ASSUME Leaving PROVE Leaving'
        OBVIOUS
      <4>1. PICK d \in DOMAIN toServer : /\ toServer[d] = Detach
                                         /\ \A i \in DOMAIN toServer \ {d} : toServer[i] \in Transfers
        BY DEF Leaving
      <4>2. /\ d \in DOMAIN toServer' /\ toServer'[d] = Detach
            /\ \A i \in DOMAIN toServer' \ {d} : toServer'[i] \in Transfers
        BY <1>6, <1>8, <4>1
      <4> QED
        BY <1>1, <4>2 DEF Leaving
    <3>2. Left => Left'
      BY <1>1, <1>11 DEF Left
    <3> QED
      BY <1>0, <1>1, <2>2, <3>1, <3>2 DEF Inv, Phase
  <2> QED
    BY <1>1, <2>1, <2>2
<1>13. linked /\ AllTransfers(toServer) => Follows(Before(Len(toServer) + 1), f.chunk)
  <2>1. CASE state = "attached"
    BY <1>0, <1>1, <1>6, <2>1 DEF Inv, NextOK
  <2>2. CASE state = "detaching"
    <3> SUFFICES ASSUME linked, AllTransfers(toServer) PROVE FALSE
      OBVIOUS
    <3>1. Leaving
      BY <1>0, <2>2 DEF Inv, Phase, Left
    <3>2. Detach \notin Transfers
      BY TransferIs
    <3> QED
      BY <3>1, <3>2 DEF Leaving, AllTransfers
  <2> QED
    BY <1>1, <2>1, <2>2
<1>14. BufferOK' /\ SocketOK' /\ Verbatim' /\ Before(Len(toServer) + 1)' = sending[1]
  BY <1>0, <1>1, <1>6, <1>7, <1>13, SocketGrows
<1>15. SendingOK'
  <2>1. Len(sending') <= k
    BY <1>2, <1>3, <1>4
  <2>2. ASSUME NEW i \in DOMAIN sending'
        PROVE  sending'[i] = <<id, k - Len(sending') + i, k>>
    <3>1. i \in Nat
      BY <1>3
    <3>2. k - Len(sending) + (i + 1) = k - Len(sending') + i
      BY <1>3, <1>4, <3>1
    <3> QED
      BY <1>2, <1>3, <3>2
  <2> QED
    BY <2>1, <2>2 DEF SendingOK
<1>16. NextOK'
  <2>1. CASE Len(sending) = 1
    BY <1>5, <1>9, <1>14, <2>1, <1>3 DEF NextOK
  <2>2. CASE Len(sending) # 1
    <3>1. Len(sending) > 1 /\ 1 \in DOMAIN sending' /\ sending' # <<>>
      BY <1>3, <1>9, <2>2
    <3>2. sending'[1] = sending[2] /\ 2 \in DOMAIN sending
      BY <1>3, <3>1
    <3>3. sending[2] = <<id, k - Len(sending) + 2, k>>
      BY <1>2, <3>2
    <3>4. sending'[1] = <<sending[1][1], sending[1][2] + 1, sending[1][3]>>
      BY <1>3, <1>4, <3>2, <3>3
    <3> QED
      BY <1>5, <1>14, <3>1, <3>4 DEF NextOK, Follows
  <2> QED
    BY <2>1, <2>2
<1>17. Outstanding' = Outstanding
  <2>1. Cardinality(Finals(toServer')) =
          Cardinality(Finals(toServer)) + IF Len(sending) > 1 THEN 0 ELSE 1
    BY <1>0, <1>1, <1>6, <1>7, FinalsAppend DEF Types
  <2>2. Cardinality(Finals(toServer)) \in Nat
    BY <1>0, OutstandingIs
  <2> QED
    BY <1>1, <1>3, <1>9, <2>1, <2>2 DEF Outstanding
<1>18. WindowOK'
  BY <1>0, <1>1, <1>17, WindowStays
<1> QED
  BY <1>10, <1>12, <1>14, <1>15, <1>16, <1>18 DEF Inv

LEMMA ClientDetachKeeps ==
  ASSUME Inv, ClientDetach PROVE Inv'
<1>1. /\ state = "attached" /\ state' = "detaching" /\ toServer' = Append(toServer, Detach)
      /\ UNCHANGED <<toClient, linked, partial, received, sinceFlow, body, sending,
                     nextId, started, allowed>>
  BY DEF ClientDetach, serverVars
<1>2. Inv /\ Types /\ Attached /\ SendingOK /\ Detach \in ToServer
  BY <1>1, Kinds DEF Inv, Phase
<1>3. /\ toServer' \in Seq(ToServer) /\ DOMAIN toServer = 1..Len(toServer)
      /\ DOMAIN toServer' = 1..(Len(toServer) + 1) /\ Len(toServer) \in Nat
      /\ \A i \in DOMAIN toServer : toServer'[i] = toServer[i]
      /\ toServer'[Len(toServer) + 1] = Detach
  BY <1>1, <1>2, AtEnd DEF Types
<1>4. Types'
  BY <1>1, <1>2, <1>3 DEF Types
<1>5. Phase'
  <2>1. /\ Len(toServer) + 1 \in DOMAIN toServer' /\ toServer'[Len(toServer) + 1] = Detach
        /\ \A i \in DOMAIN toServer' \ {Len(toServer) + 1} : toServer'[i] \in Transfers
    BY <1>2, <1>3 DEF Attached, AllTransfers
  <2>2. Leaving'
    BY <1>1, <1>2, <2>1 DEF Leaving, Attached
  <2> QED
    BY <1>1, <2>2 DEF Phase
<1>6. SocketOK'
  <2> SUFFICES ASSUME linked, NEW i \in DOMAIN toServer', \A j \in 1..i : toServer'[j] \in Transfers
               PROVE  Follows(Before(i)', toServer'[i].chunk)
    BY <1>1 DEF SocketOK
  <2>1. i \in DOMAIN toServer
    <3>1. i \in 1..i /\ Detach \notin Transfers
      BY <1>3, TransferIs
    <3> QED
      BY <1>3, <3>1
  <2>2. \A j \in 1..i : toServer[j] \in Transfers
    BY <1>3, <2>1
  <2>3. Before(i)' = Before(i)
    <3>1. i # 1 => i - 1 \in DOMAIN toServer
      BY <1>3, <2>1
    <3> QED
      BY <1>1, <1>3, <3>1 DEF Before, Buffered
  <2> QED
    BY <1>2, <1>3, <2>1, <2>2, <2>3 DEF Inv, SocketOK
<1>7. BufferOK' /\ SendingOK' /\ Verbatim' /\ NextOK' /\ WindowOK'
  BY <1>1, <1>2 DEF Inv, BufferOK, SendingOK, Verbatim, NextOK, WindowOK
<1> QED
  BY <1>4, <1>5, <1>6, <1>7 DEF Inv

(* The frame read goes from the front of those on their way to the client. *)
LEMMA RepliesTail ==
  ASSUME NEW s \in Seq(ToClient), s # <<>>, AllReplies(s)
  PROVE  s[1] \in Replies /\ AllReplies(Tail(s))
<1>1. /\ 1 \in DOMAIN s /\ Tail(s) \in Seq(ToClient)
      /\ \A i \in DOMAIN Tail(s) : i + 1 \in DOMAIN s /\ Tail(s)[i] = s[i + 1]
  BY AtStart
<1> QED
  BY <1>1 DEF AllReplies

(* The client answered for its attach takes the echo; the first credit is  *)
(* next.                                                                   *)
LEMMA EchoKeeps ==
  ASSUME Inv, state = "attaching", ClientReceive PROVE Inv'
<1>1. Inv /\ Types /\ Answered /\ sending = <<>> /\ started = 0 /\ allowed = 0 /\ toClient # <<>>
  BY DEF Inv, Phase, Attaching, Asking, ClientReceive
<1> DEFINE g == FlowFrame(0, InitialCredit)
<1>2. /\ Head(toClient) = Attach /\ toClient' \in Seq(ToClient) /\ toClient' = Tail(toClient)
      /\ Len(toClient') = 1 /\ DOMAIN toClient' = {1} /\ toClient'[1] = g
  <2>1. Len(toClient) = 2 /\ toClient[1] = Attach /\ toClient[2] = g
    BY <1>1 DEF Answered
  <2>2. /\ Head(toClient) = toClient[1] /\ Tail(toClient) \in Seq(ToClient)
        /\ Len(Tail(toClient)) = Len(toClient) - 1 /\ DOMAIN Tail(toClient) = 1..(Len(toClient) - 1)
        /\ \A i \in DOMAIN Tail(toClient) : Tail(toClient)[i] = toClient[i + 1]
    BY <1>1, AtStart DEF Types
  <2>3. 2 - 1 = 1 /\ 1..1 = {1} /\ 1 + 1 = 2
    OBVIOUS
  <2>4. toClient' = Tail(toClient)
    BY DEF ClientReceive
  <2> HIDE DEF g
  <2> QED
    BY <2>1, <2>2, <2>3, <2>4
<1>3. g.kind = "flow" /\ g \in Replies
  BY FlowIs, ZeroCounts
<1>4. /\ state' = "attached" /\ allowed' = 0 /\ sending' = <<>>
      /\ UNCHANGED <<toServer, linked, partial, received, sinceFlow, body, nextId, started>>
  BY <1>1, <1>2, Kinds DEF ClientReceive, serverVars
<1> HIDE DEF g
<1>5. /\ linked /\ toServer = <<>> /\ partial = <<>> /\ received = 0 /\ sinceFlow = 0
  BY <1>1 DEF Answered
<1>6. Types'
  BY <1>1, <1>2, <1>4, ZeroCounts DEF Types
<1>7. Phase'
  BY <1>2, <1>3, <1>4, <1>5 DEF Phase, Attached, AllTransfers, AllReplies
<1>8. BufferOK' /\ SocketOK' /\ Verbatim'
  BY <1>1, <1>4, ChunksStay
<1>9. SendingOK'
  BY <1>4 DEF SendingOK
<1>10. NextOK'
  BY <1>4, <1>5 DEF NextOK, Before, Buffered, Nothing, Final
<1>11. WindowOK'
  <2>1. Outstanding' = 0
    <3>1. Finals(toServer') = {}
      BY <1>4, <1>5 DEF Finals
    <3> QED
      BY <1>4, <3>1, FS_EmptySet DEF Outstanding
  <2>2. Less(0, 0) = 0
    BY ZeroCounts, LessIs
  <2>3. Flows' = {1}
    BY <1>2, <1>3 DEF Flows
  <2>4. Ahead(1)' = InitialCredit
    <3>1. Less(Granted(g), 0) = InitialCredit
      BY <2>2, ZeroCounts, Counters, GrantIs DEF g
    <3> QED
      BY <1>1, <1>2, <1>4, <3>1 DEF Ahead
  <2>5. /\ allowed' = 0 /\ started' = 0 /\ received' = 0 /\ sinceFlow' = 0
    BY <1>1, <1>4, <1>5
  <2>6. InitialCredit \in Nat /\ 0 + 0 + 0 <= InitialCredit /\ 0 <= InitialCredit
        /\ InitialCredit + 0 + 0 = InitialCredit /\ InitialCredit <= InitialCredit
    BY Counters
  <2>7. Grants'
    BY <2>1, <2>2, <2>3, <2>4, <2>5, <2>6 DEF Grants
  <2> QED
    BY <2>1, <2>2, <2>5, <2>7 DEF WindowOK
<1> QED
  BY <1>6, <1>7, <1>8, <1>9, <1>10, <1>11 DEF Inv

(* A client that is attached takes a flow or a settlement.                 *)
LEMMA ReplyKeeps ==
  ASSUME Inv, ClientReceive, toClient # <<>>, AllReplies(toClient), linked,
         state \in {"attached", "detaching"}
  PROVE  Inv'
<1> DEFINE f == toClient[1]
<1>1. Inv /\ Types
  BY DEF Inv
<1>2. /\ Head(toClient) = f /\ f \in ToClient /\ 1 \in DOMAIN toClient
      /\ toClient' = Tail(toClient) /\ toClient' \in Seq(ToClient)
      /\ Len(toClient) \in Nat \ {0}
      /\ DOMAIN toClient = 1..Len(toClient) /\ DOMAIN toClient' = 1..(Len(toClient) - 1)
      /\ \A i \in DOMAIN toClient' : i + 1 \in DOMAIN toClient /\ toClient'[i] = toClient[i + 1]
  BY <1>1, AtStart DEF Types, ClientReceive
<1>3. f \in Replies /\ AllReplies(toClient')
  BY <1>1, <1>2, RepliesTail DEF Types
<1>4. f # Attach /\ f # Detach /\ (f.kind = "flow" => Granted(f) \in Count)
  BY <1>3, ReplyIs
<1> HIDE DEF f
<1>5. /\ allowed' = (IF f.kind = "flow" THEN Granted(f) ELSE allowed)
      /\ UNCHANGED <<state, sending, toServer, linked, partial, received, sinceFlow, body,
                     nextId, started>>
  BY <1>2, <1>4 DEF ClientReceive, serverVars
<1>6. Types'
  BY <1>1, <1>2, <1>4, <1>5 DEF Types
<1>7. Phase'
  <2>1. Attached => Attached'
    BY <1>3, <1>5 DEF Attached
  <2>2. Leaving => Leaving'
    BY <1>3, <1>5 DEF Leaving
  <2>3. ~Left
    BY DEF Left
  <2> QED
    BY <1>1, <1>5, <2>1, <2>2, <2>3 DEF Inv, Phase
<1>8. BufferOK' /\ SocketOK' /\ Verbatim' /\ \A i : Before(i)' = Before(i)
  BY <1>1, <1>5, ChunksStay
<1>9. SendingOK' /\ NextOK'
  BY <1>1, <1>5, <1>8 DEF Inv, SendingOK, NextOK
<1>10. WindowOK'
  <2> SUFFICES ASSUME state = "attached"
               PROVE  Less(started', received') = Outstanding' /\ Grants'
    BY <1>5 DEF WindowOK
  <2>1. Less(started, received) = Outstanding /\ Grants
    BY <1>1 DEF Inv, WindowOK
  <2>2. Outstanding' = Outstanding /\ Outstanding \in Nat /\ sinceFlow \in Nat
    BY <1>1, <1>5, OutstandingIs, Counters DEF Outstanding, Types
  <2>3. /\ \A i \in Flows : i \in Nat /\ i \in DOMAIN toClient /\ Ahead(i) \in Nat
        /\ Less(allowed, started) \in Nat
    BY <1>1, AheadIs
  <2>4. Flows' \subseteq Nat \ {0} /\ \A i \in Flows' : i + 1 \in Flows /\ Ahead(i)' = Ahead(i + 1)
    BY <1>2, <1>5 DEF Flows, Ahead
  <2>5. \A i \in Flows : i # 1 => i - 1 \in Flows' /\ (i - 1) + 1 = i
    <3> SUFFICES ASSUME NEW i \in Flows, i # 1 PROVE i - 1 \in Flows' /\ (i - 1) + 1 = i
      OBVIOUS
    <3>1. i - 1 \in DOMAIN toClient' /\ (i - 1) + 1 = i
      BY <1>2, <2>3
    <3> QED
      BY <1>2, <3>1 DEF Flows
  <2>6. (1 \in Flows) = (f.kind = "flow")
    BY <1>2 DEF Flows, f
  <2>7. /\ \A i, j \in Flows' : Ahead(i)' = Ahead(i + 1) /\ (i < j => Ahead(i)' <= Ahead(j)')
        /\ \A i \in Flows' : Ahead(i)' + Outstanding + sinceFlow <= InitialCredit
        /\ \A i \in Flows' : (\A j \in Flows' : j <= i) =>
                                Ahead(i)' + Outstanding + sinceFlow = InitialCredit
    <3>1. \A i, j \in Flows' : i < j => i + 1 < j + 1
      BY <2>4
    <3>2. ASSUME NEW i \in Flows', \A j \in Flows' : j <= i
          PROVE  \A j \in Flows : j <= i + 1
      BY <2>3, <2>4, <2>5, <3>2
    <3> QED
      BY <2>1, <2>4, <3>1, <3>2 DEF Grants
  <2>8. CASE f.kind = "flow"
    <3>1. Less(allowed', started') = Ahead(1)
      BY <1>5, <2>8 DEF Ahead, f
    <3>2. Ahead(1) + Outstanding + sinceFlow <= InitialCredit
      BY <2>1, <2>6, <2>8 DEF Grants
    <3>3. \A i \in Flows' : Ahead(1) <= Ahead(i)'
      <4>1. \A i \in Flows' : 1 < i + 1
        BY <2>4
      <4> QED
        BY <2>1, <2>4, <2>6, <2>8, <4>1 DEF Grants
    <3>4. Flows' = {} => Ahead(1) + Outstanding + sinceFlow = InitialCredit
      <4>1. Flows' = {} => \A j \in Flows : j <= 1
        BY <2>3, <2>5
      <4> QED
        BY <2>1, <2>6, <2>8, <4>1 DEF Grants
    <3> QED
      BY <1>5, <2>1, <2>2, <2>7, <3>1, <3>2, <3>3, <3>4 DEF Grants
  <2>9. CASE f.kind # "flow"
    <3>1. Less(allowed', started') = Less(allowed, started) /\ 1 \notin Flows
      BY <1>5, <2>6, <2>9
    <3>2. Flows' = {} => Flows = {}
      BY <2>5, <3>1
    <3>3. \A i \in Flows' : Less(allowed, started) <= Ahead(i)'
      BY <2>1, <2>4 DEF Grants
    <3> QED
      BY <1>5, <2>1, <2>2, <2>7, <3>1, <3>2, <3>3 DEF Grants
  <2> QED
    BY <2>8, <2>9
<1> QED
  BY <1>6, <1>7, <1>8, <1>9, <1>10 DEF Inv

(* A client that has left takes what the link had still to say, and the    *)
(* echo of its detach.                                                     *)
LEMMA LeftKeeps ==
  ASSUME Inv, ClientReceive, state = "detaching", Left PROVE Inv'
<1> DEFINE f == toClient[1]
<1>1. Inv /\ Types /\ ~linked /\ AllTransfers(toServer) /\ toClient # <<>>
      /\ \A i \in DOMAIN toClient : IF i = Len(toClient) THEN toClient[i] = Detach
                                                         ELSE toClient[i] \in Replies
  BY DEF Inv, Left, ButLast
<1>2. /\ Head(toClient) = f /\ f \in ToClient /\ 1 \in DOMAIN toClient
      /\ toClient' = Tail(toClient) /\ toClient' \in Seq(ToClient)
      /\ Len(toClient) \in Nat \ {0} /\ Len(toClient') = Len(toClient) - 1
      /\ DOMAIN toClient = 1..Len(toClient) /\ DOMAIN toClient' = 1..(Len(toClient) - 1)
      /\ \A i \in DOMAIN toClient' : i + 1 \in DOMAIN toClient /\ toClient'[i] = toClient[i + 1]
  BY <1>1, AtStart DEF Types, ClientReceive
<1>3. IF Len(toClient) = 1 THEN f = Detach ELSE f \in Replies
  BY <1>1, <1>2
<1>4. f # Attach /\ (f.kind = "flow" => Granted(f) \in Count) /\ (f = Detach <=> Len(toClient) = 1)
  BY <1>3, ReplyIs, Kinds
<1> HIDE DEF f
<1>5. /\ allowed' = (IF f.kind = "flow" THEN Granted(f) ELSE allowed)
      /\ state' = (IF f = Detach THEN "detached" ELSE "detaching")
      /\ sending' = (IF f = Detach THEN <<>> ELSE sending)
      /\ UNCHANGED <<toServer, linked, partial, received, sinceFlow, body, nextId, started>>
  BY <1>2, <1>4 DEF ClientReceive, serverVars
<1>6. Types'
  <2>1. sending' \in Seq(Chunk)
    BY <1>1, <1>5 DEF Types
  <2> QED
    BY <1>1, <1>2, <1>4, <1>5, <2>1 DEF Types
<1>7. Phase'
  <2>1. CASE Len(toClient) = 1
    <3>1. toClient' = <<>>
      BY <1>2, <2>1
    <3> QED
      BY <1>1, <1>4, <1>5, <2>1, <3>1 DEF Phase, Detached
  <2>2. CASE Len(toClient) # 1
    <3>1. toClient' # <<>> /\ \A i \in DOMAIN toClient' : (i = Len(toClient')) = (i + 1 = Len(toClient))
      BY <1>2, <2>2
    <3>2. ButLast(toClient', Replies, Detach)
      BY <1>1, <1>2, <3>1 DEF ButLast
    <3> QED
      BY <1>1, <1>4, <1>5, <2>2, <3>2 DEF Phase, Left
  <2> QED
    BY <2>1, <2>2
<1>8. BufferOK' /\ SocketOK' /\ Verbatim'
  BY <1>1, <1>5, ChunksStay
<1>9. SendingOK' /\ NextOK' /\ WindowOK'
  BY <1>1, <1>5 DEF Inv, SendingOK, NextOK, WindowOK
<1> QED
  BY <1>6, <1>7, <1>8, <1>9 DEF Inv

LEMMA ClientReceiveKeeps ==
  ASSUME Inv, ClientReceive PROVE Inv'
<1>1. toClient # <<>> /\ Phase /\ state \in {"detached", "attaching", "attached", "detaching"}
  BY DEF Inv, Types, ClientReceive
<1>2. CASE state = "detached"
  BY <1>1, <1>2 DEF Phase, Detached
<1>3. CASE state = "attaching"
  BY <1>3, EchoKeeps
<1>4. CASE state = "attached"
  BY <1>1, <1>4, ReplyKeeps DEF Phase, Attached
<1>5. CASE state = "detaching"
  <2>1. Leaving => linked /\ AllReplies(toClient)
    BY DEF Leaving
  <2> QED
    BY <1>1, <1>5, <2>1, ReplyKeeps, LeftKeeps DEF Phase
<1> QED
  BY <1>1, <1>2, <1>3, <1>4, <1>5

(* The frame the server's reader takes is the first in the socket.         *)
LEMMA TakeIs ==
  ASSUME Types, NEW k, Take(k)
  PROVE  /\ toServer[1].kind = k /\ Head(toServer) = toServer[1] /\ 1 \in DOMAIN toServer
         /\ toServer' = Tail(toServer) /\ toServer' \in Seq(ToServer) /\ toServer # <<>>
         /\ Len(toServer) \in Nat \ {0} /\ Len(toServer') = Len(toServer) - 1
         /\ DOMAIN toServer = 1..Len(toServer) /\ DOMAIN toServer' = 1..(Len(toServer) - 1)
         /\ \A i \in DOMAIN toServer' : i + 1 \in DOMAIN toServer /\ toServer'[i] = toServer[i + 1]
<1>1. toServer # <<>> /\ Head(toServer).kind = k /\ toServer' = Tail(toServer)
  BY DEF Take
<1> QED
  BY <1>1, AtStart DEF Types

LEMMA onAttachKeeps ==
  ASSUME Inv, onAttach PROVE Inv'
<1> DEFINE g == FlowFrame(0, InitialCredit)
<1>1. Inv /\ Types /\ Phase /\ state \in {"detached", "attaching", "attached", "detaching"}
  BY DEF Inv, Types
<1>2. Take("attach") /\ linked' = TRUE /\ partial' = <<>> /\ received' = 0 /\ sinceFlow' = 0
      /\ toClient' = toClient \o <<Attach, g>>
      /\ UNCHANGED <<body, state, sending, nextId, started, allowed>>
  BY DEF onAttach, clientVars
<1>3. g \in Replies /\ g \in ToClient
  BY FlowIs, ReplyIs, ZeroCounts
<1> HIDE DEF g
<1>4. toServer[1] = Attach /\ toServer' = Tail(toServer) /\ 1 \in DOMAIN toServer
      /\ DOMAIN toServer = 1..Len(toServer) /\ Len(toServer') = Len(toServer) - 1
      /\ Len(toServer) \in Nat \ {0} /\ toServer' \in Seq(ToServer) /\ toServer # <<>>
  BY <1>1, <1>2, TakeIs, Transferred
<1>5. toServer[1] \notin Transfers /\ toServer[1] # Detach
  BY <1>4, TransferIs, Kinds
<1>6. state = "attaching" /\ Asking /\ sending = <<>> /\ started = 0 /\ allowed = 0
  <2>1. ~AllTransfers(toServer)
    BY <1>4, <1>5 DEF AllTransfers
  <2>2. ~Leaving
    BY <1>4, <1>5 DEF Leaving
  <2> QED
    BY <1>1, <1>4, <2>1, <2>2 DEF Phase, Detached, Attaching, Answered, Attached, Left
<1>7. toServer' = <<>> /\ toClient = <<>>
  <2>1. 1 = Len(toServer) /\ toClient = <<>>
    BY <1>4, <1>5, <1>6 DEF Asking, ButLast
  <2> QED
    BY <1>4, <2>1
<1>8. /\ toClient' \in Seq(ToClient) /\ Len(toClient') = 2
      /\ toClient'[1] = Attach /\ toClient'[2] = g
  <2>1. toClient' = <<Attach, g>>
    BY <1>2, <1>7
  <2> QED
    BY <1>3, <2>1, Kinds
<1>9. Types'
  BY <1>1, <1>2, <1>4, <1>8, ZeroCounts, Counters DEF Types
<1>10. Phase'
  <2>1. Answered'
    BY <1>2, <1>7, <1>8 DEF Answered, g
  <2> QED
    BY <1>2, <1>6, <2>1 DEF Phase, Attaching
<1> QED
  BY <1>1, <1>2, <1>6, <1>7, <1>9, <1>10
     DEF Inv, BufferOK, SocketOK, SendingOK, NextOK, WindowOK, Verbatim

LEMMA onDetachKeeps ==
  ASSUME Inv, onDetach PROVE Inv'
<1>1. Inv /\ Types /\ Phase /\ state \in {"detached", "attaching", "attached", "detaching"}
  BY DEF Inv, Types
<1>2. Take("detach") /\ linked' = FALSE /\ toClient' = Append(toClient, Detach)
      /\ UNCHANGED <<partial, received, sinceFlow, body, state, sending, nextId, started, allowed>>
  BY DEF onDetach, clientVars
<1>3. /\ toServer[1] = Detach /\ 1 \in DOMAIN toServer
      /\ DOMAIN toServer = 1..Len(toServer) /\ toServer' \in Seq(ToServer) /\ toServer # <<>>
      /\ Len(toServer) \in Nat \ {0} /\ DOMAIN toServer' = 1..(Len(toServer) - 1)
      /\ \A i \in DOMAIN toServer' : i + 1 \in DOMAIN toServer /\ toServer'[i] = toServer[i + 1]
  BY <1>1, <1>2, TakeIs, Transferred
<1>4. toServer[1] \notin Transfers /\ toServer[1] # Attach
  BY <1>3, TransferIs, Kinds
<1>5. state = "detaching" /\ Leaving
  <2>1. ~AllTransfers(toServer)
    BY <1>3, <1>4 DEF AllTransfers
  <2>2. ~Asking
    BY <1>3, <1>4 DEF Asking, ButLast
  <2> QED
    BY <1>1, <1>3, <2>1, <2>2 DEF Phase, Detached, Attaching, Answered, Attached, Left
<1>6. AllReplies(toClient) /\ AllTransfers(toServer')
  <2>1. PICK d \in DOMAIN toServer : /\ toServer[d] = Detach
                                     /\ \A i \in DOMAIN toServer \ {d} : toServer[i] \in Transfers
    BY <1>5 DEF Leaving
  <2>2. d = 1
    BY <1>3, <1>4, <2>1
  <2>3. \A i \in DOMAIN toServer' : i + 1 # 1
    BY <1>3
  <2>4. AllTransfers(toServer')
    BY <1>3, <2>1, <2>2, <2>3 DEF AllTransfers
  <2> QED
    BY <1>5, <2>4 DEF Leaving
<1>7. /\ toClient' \in Seq(ToClient) /\ toClient' # <<>> /\ Len(toClient') = Len(toClient) + 1
      /\ DOMAIN toClient = 1..Len(toClient) /\ DOMAIN toClient' = 1..(Len(toClient) + 1)
      /\ Len(toClient) \in Nat /\ toClient'[Len(toClient) + 1] = Detach
      /\ \A i \in DOMAIN toClient : toClient'[i] = toClient[i]
  BY <1>1, <1>2, AtEnd, Kinds DEF Types
<1>8. Types'
  BY <1>1, <1>2, <1>3, <1>7 DEF Types
<1>9. Phase'
  <2>1. ButLast(toClient', Replies, Detach)
    BY <1>6, <1>7 DEF ButLast, AllReplies
  <2> QED
    BY <1>2, <1>5, <1>6, <2>1 DEF Phase, Left
<1> QED
  BY <1>1, <1>2, <1>5, <1>8, <1>9
     DEF Inv, BufferOK, SocketOK, SendingOK, NextOK, WindowOK, Verbatim

(* A transfer to a link that is not there is ignored.                      *)
LEMMA IgnoredKeeps ==
  ASSUME Inv, Take("transfer"), ~linked,
         UNCHANGED <<toClient, partial, received, sinceFlow, body, linked, clientVars>>
  PROVE  Inv'
<1>1. Inv /\ Types /\ Phase /\ state \in {"detached", "attaching", "attached", "detaching"}
      /\ UNCHANGED <<state, sending, nextId, started, allowed>>
  BY DEF Inv, Types, clientVars
<1>2. /\ toServer[1] \in Transfers /\ 1 \in DOMAIN toServer /\ Len(toServer') = Len(toServer) - 1
      /\ DOMAIN toServer = 1..Len(toServer) /\ toServer' \in Seq(ToServer)
      /\ Len(toServer) \in Nat \ {0} /\ DOMAIN toServer' = 1..(Len(toServer) - 1)
      /\ \A i \in DOMAIN toServer' : i + 1 \in DOMAIN toServer /\ toServer'[i] = toServer[i + 1]
  BY <1>1, TakeIs, Transferred
<1>3. Types'
  BY <1>1, <1>2 DEF Types
<1>4. AllTransfers(toServer) => AllTransfers(toServer')
  BY <1>2 DEF AllTransfers
<1>5. Asking => Asking'
  <2> SUFFICES ASSUME Asking PROVE ButLast(toServer', Transfers, Attach)
    BY DEF Asking
  <2>1. Len(toServer) # 1
    BY <1>2, TransferIs DEF Asking, ButLast
  <2>2. toServer' # <<>> /\ \A i \in DOMAIN toServer' : (i = Len(toServer')) = (i + 1 = Len(toServer))
    BY <1>2, <2>1
  <2> QED
    BY <1>2, <2>2 DEF Asking, ButLast
<1>6. Phase'
  BY <1>1, <1>4, <1>5 DEF Phase, Detached, Attaching, Answered, Attached, Leaving, Left
<1>7. state # "attached"
  BY <1>1 DEF Phase, Attached
<1> QED
  BY <1>1, <1>3, <1>6, <1>7
     DEF Inv, BufferOK, SocketOK, SendingOK, NextOK, WindowOK, Verbatim

(* A transfer the link takes leaves the others in the socket following as  *)
(* they did, after the one now buffered or after none.                     *)
LEMMA SocketShrinks ==
  ASSUME Inv, Take("transfer"), linked, NEW c, c = toServer[1].chunk,
         UNCHANGED <<linked, state, sending>>,
         Buffered' = IF Final(c) THEN Nothing ELSE c
  PROVE  /\ SocketOK' /\ NextOK' /\ SendingOK'
         /\ Follows(Buffered, c)
         /\ state = "attached" \/ (state = "detaching" /\ Leaving)
         /\ Attached => AllTransfers(toServer')
         /\ AllReplies(toClient') /\ Leaving => Leaving'
<1>1. Inv /\ Types /\ Phase /\ state \in {"detached", "attaching", "attached", "detaching"}
  BY DEF Inv, Types
<1>2. /\ toServer[1] \in Transfers /\ 1 \in DOMAIN toServer /\ Len(toServer') = Len(toServer) - 1
      /\ DOMAIN toServer = 1..Len(toServer) /\ toServer # <<>>
      /\ Len(toServer) \in Nat \ {0} /\ DOMAIN toServer' = 1..(Len(toServer) - 1)
      /\ \A i \in DOMAIN toServer' : i + 1 \in DOMAIN toServer /\ toServer'[i] = toServer[i + 1]
  BY <1>1, TakeIs, Transferred
<1>3. state = "attached" \/ (state = "detaching" /\ Leaving)
  BY <1>1, <1>2 DEF Phase, Detached, Attaching, Asking, Answered, Left
<1>4. Attached => AllTransfers(toServer')
  BY <1>2 DEF Attached, AllTransfers
<1>5. AllReplies(toClient') /\ Leaving => Leaving'
  <2> SUFFICES ASSUME AllReplies(toClient'), Leaving PROVE Leaving'
    OBVIOUS
  <2>1. PICK d \in DOMAIN toServer : /\ toServer[d] = Detach
                                     /\ \A i \in DOMAIN toServer \ {d} : toServer[i] \in Transfers
    BY DEF Leaving
  <2>2. d # 1
    BY <1>2, <2>1, TransferIs
  <2>3. PICK e \in DOMAIN toServer' : e + 1 = d
    <3>1. d - 1 \in DOMAIN toServer' /\ (d - 1) + 1 = d
      BY <1>2, <2>2
    <3> QED
      BY <3>1
  <2>4. \A i \in DOMAIN toServer' \ {e} : i + 1 # d
    BY <1>2, <2>3
  <2>5. toServer'[e] = Detach /\ \A i \in DOMAIN toServer' \ {e} : toServer'[i] \in Transfers
    BY <1>2, <2>1, <2>3, <2>4
  <2> QED
    BY <2>5 DEF Leaving
<1>6. Follows(Buffered, c)
  <2>1. \A j \in 1..1 : toServer[j] \in Transfers
    BY <1>2
  <2> QED
    BY <1>1, <1>2, <2>1 DEF Inv, SocketOK, Before
<1>7. /\ Final(Buffered') <=> Final(c)
      /\ \A x : Follows(Buffered', x) <=> Follows(c, x)
  <2>1. Final(Nothing)
    BY DEF Nothing, Final
  <2> QED
    BY <2>1 DEF Follows
<1>8. SocketOK'
  <2> SUFFICES ASSUME NEW i \in DOMAIN toServer', \A j \in 1..i : toServer'[j] \in Transfers
               PROVE  Follows(Before(i)', toServer'[i].chunk)
    BY DEF SocketOK
  <2>1. i \in Nat \ {0} /\ i + 1 \in DOMAIN toServer /\ toServer'[i] = toServer[i + 1]
        /\ i + 1 # 1 /\ (i + 1) - 1 = i
    BY <1>2
  <2>2. ASSUME NEW j \in 1..(i + 1) PROVE toServer[j] \in Transfers
    <3>1. CASE j = 1
      BY <1>2, <3>1
    <3>2. CASE j # 1
      <4>1. j - 1 \in 1..i /\ j - 1 \in DOMAIN toServer' /\ (j - 1) + 1 = j
        BY <1>2, <2>1, <3>2
      <4> QED
        BY <1>2, <4>1
    <3> QED
      BY <3>1, <3>2
  <2>3. Follows(Before(i + 1), toServer[i + 1].chunk)
    BY <1>1, <2>1, <2>2 DEF Inv, SocketOK
  <2>4. Before(i + 1) = toServer[i].chunk
    BY <2>1 DEF Before
  <2>5. CASE i = 1
    BY <1>7, <2>1, <2>3, <2>4, <2>5 DEF Before
  <2>6. CASE i # 1
    <3>1. i - 1 \in DOMAIN toServer' /\ (i - 1) + 1 = i
      BY <1>2, <2>1, <2>6
    <3>2. Before(i)' = toServer[i].chunk
      BY <1>2, <2>6, <3>1 DEF Before
    <3> QED
      BY <2>1, <2>3, <2>4, <3>2
  <2> QED
    BY <2>5, <2>6
<1>9. NextOK'
  <2> SUFFICES ASSUME state = "attached" PROVE NextOK'
    BY DEF NextOK
  <2>1. Before(Len(toServer) + 1) = toServer[Len(toServer)].chunk
    <3>1. Len(toServer) + 1 # 1 /\ (Len(toServer) + 1) - 1 = Len(toServer)
      BY <1>2
    <3> QED
      BY <3>1 DEF Before
  <2>2. /\ Final(Before(Len(toServer) + 1)') <=> Final(toServer[Len(toServer)].chunk)
        /\ \A x : Follows(Before(Len(toServer) + 1)', x) <=> Follows(toServer[Len(toServer)].chunk, x)
    <3>1. CASE Len(toServer) = 1
      <4>1. Len(toServer') + 1 = 1
        BY <1>2, <3>1
      <4>2. Before(Len(toServer) + 1)' = Buffered'
        BY <4>1 DEF Before
      <4> QED
        BY <1>7, <3>1, <4>2
    <3>2. CASE Len(toServer) # 1
      <4>1. /\ Len(toServer') + 1 # 1 /\ (Len(toServer') + 1) - 1 = Len(toServer')
            /\ Len(toServer') \in DOMAIN toServer' /\ Len(toServer') + 1 = Len(toServer)
        BY <1>2, <3>2
      <4>2. Before(Len(toServer) + 1)' = toServer'[Len(toServer')].chunk
        BY <4>1 DEF Before
      <4> QED
        BY <1>2, <4>1, <4>2
    <3> QED
      BY <3>1, <3>2
  <2>3. NextOK
    BY <1>1 DEF Inv
  <2> QED
    BY <2>1, <2>2, <2>3 DEF NextOK
<1>10. SendingOK'
  BY <1>1 DEF Inv, SendingOK
<1> QED
  BY <1>3, <1>4, <1>5, <1>6, <1>8, <1>9, <1>10

(* What is buffered, and the chunk that comes next.                        *)
LEMMA BufferAppend ==
  ASSUME Inv, linked, NEW c \in Chunk, Follows(Buffered, c)
  PROVE  \E id \in Count, k \in 1..MaxFrames :
           /\ c = <<id, Len(partial) + 1, k>> /\ Len(partial) + 1 <= k
           /\ \A j \in DOMAIN partial : partial[j] = <<id, j, k>>
<1>1. Inv /\ Types /\ BufferOK /\ partial \in Seq(Chunk) /\ Len(partial) \in Nat
  BY DEF Inv, Types
<1>2. /\ c = <<c[1], c[2], c[3]>> /\ c[1] \in Count /\ c[2] \in 1..MaxFrames
      /\ c[3] \in 1..MaxFrames /\ c[2] <= c[3]
  BY DEF Chunk
<1>3. CASE partial = <<>>
  <2>1. c[2] = 1 /\ Len(partial) + 1 = 1 /\ DOMAIN partial = {}
    BY <1>3 DEF Buffered, Nothing, Final, Follows
  <2> QED
    BY <1>2, <2>1
<1>4. CASE partial # <<>>
  <2>1. PICK id \in Count, k \in 1..MaxFrames :
          Len(partial) < k /\ \A j \in DOMAIN partial : partial[j] = <<id, j, k>>
    BY <1>1, <1>4 DEF BufferOK
  <2>2. Len(partial) \in DOMAIN partial
    BY <1>1, <1>4
  <2>3. Buffered = <<id, Len(partial), k>>
    BY <1>4, <2>1, <2>2 DEF Buffered
  <2>4. ~Final(Buffered)
    BY <1>1, <2>1, <2>3 DEF Final
  <2>5. c = <<id, Len(partial) + 1, k>>
    BY <2>3, <2>4 DEF Follows
  <2>6. Len(partial) + 1 <= k
    BY <1>1, <2>1
  <2> QED
    BY <2>1, <2>5, <2>6
<1> QED
  BY <1>3, <1>4

LEMMA BufferedKeeps ==
  ASSUME Inv, Take("transfer"), linked, toServer[1].more,
         partial' = Append(partial, toServer[1].chunk),
         UNCHANGED <<toClient, received, sinceFlow, body, linked, clientVars>>
  PROVE  Inv'
<1>1. Inv /\ Types /\ UNCHANGED <<state, sending, nextId, started, allowed>>
  BY DEF Inv, clientVars
<1>2. PICK c : c = toServer[1].chunk
  OBVIOUS
<1>3. /\ c \in Chunk /\ ~Final(c) /\ toServer[1].kind = "transfer"
      /\ toServer' \in Seq(ToServer) /\ toServer' = Tail(toServer) /\ toServer # <<>>
  <2>1. /\ toServer[1].kind = "transfer" /\ 1 \in DOMAIN toServer
        /\ toServer' \in Seq(ToServer) /\ toServer' = Tail(toServer) /\ toServer # <<>>
    BY <1>1, TakeIs
  <2>2. toServer[1] \in Transfers
    BY <1>1, <2>1, Transferred
  <2> QED
    BY <1>2, <2>1, <2>2, TransferIs
<1>4. /\ partial' \in Seq(Chunk) /\ Len(partial') = Len(partial) + 1 /\ Len(partial) \in Nat
      /\ DOMAIN partial = 1..Len(partial) /\ DOMAIN partial' = 1..(Len(partial) + 1)
      /\ \A j \in DOMAIN partial : partial'[j] = partial[j]
      /\ partial'[Len(partial) + 1] = c /\ partial' # <<>>
  <2>1. partial' = Append(partial, c) /\ partial \in Seq(Chunk) /\ c \in Chunk
    BY <1>1, <1>2, <1>3 DEF Types
  <2> QED
    BY <2>1, AtEnd
<1>5. Buffered' = IF Final(c) THEN Nothing ELSE c
  BY <1>3, <1>4 DEF Buffered
<1>6. /\ SocketOK' /\ NextOK' /\ SendingOK'
      /\ Follows(Buffered, c)
      /\ state = "attached" \/ (state = "detaching" /\ Leaving)
      /\ Attached => AllTransfers(toServer')
      /\ AllReplies(toClient') /\ Leaving => Leaving'
  BY <1>1, <1>2, <1>5, SocketShrinks
<1>7. Types'
  BY <1>1, <1>3, <1>4 DEF Types
<1>8. Phase'
  BY <1>1, <1>6 DEF Inv, Phase, Attached, Leaving
<1>9. BufferOK'
  <2>1. PICK id \in Count, k \in 1..MaxFrames :
           /\ c = <<id, Len(partial) + 1, k>> /\ Len(partial) + 1 <= k
           /\ \A j \in DOMAIN partial : partial[j] = <<id, j, k>>
    BY <1>1, <1>3, <1>6, BufferAppend
  <2>2. Len(partial) + 1 # k
    BY <1>3, <2>1 DEF Final
  <2>3. Len(partial') < k
    BY <1>4, <2>1, <2>2
  <2>4. \A j \in DOMAIN partial' : j \in DOMAIN partial \/ j = Len(partial) + 1
    BY <1>4
  <2>5. \A j \in DOMAIN partial' : partial'[j] = <<id, j, k>>
    BY <1>4, <2>1, <2>4
  <2> QED
    BY <2>3, <2>5 DEF BufferOK
<1>10. Outstanding' = Outstanding
  <2>1. Cardinality(Finals(toServer)) = Cardinality(Finals(toServer')) + 0
    BY <1>1, <1>3, FinalsTail DEF Types
  <2>2. Cardinality(Finals(toServer')) \in Nat
    BY <1>3, FinalsFinite
  <2> QED
    BY <1>1, <2>1, <2>2 DEF Outstanding
<1>11. WindowOK'
  BY <1>1, <1>10, WindowStays
<1>12. Verbatim'
  BY <1>1 DEF Inv, Verbatim
<1> QED
  BY <1>6, <1>7, <1>8, <1>9, <1>11, <1>12 DEF Inv

(* A delivery that is complete is handed to the broker as it was sent.     *)
LEMMA CompletedIs ==
  ASSUME Inv, linked, NEW c \in Chunk, Final(c), Follows(Buffered, c)
  PROVE  /\ Append(partial, c) # <<>>
         /\ \E id \in Count, k \in 1..MaxFrames : Append(partial, c) = Delivery(id, k)
<1>1. partial \in Seq(Chunk)
  BY DEF Inv, Types
<1>2. PICK id \in Count, k \in 1..MaxFrames :
         /\ c = <<id, Len(partial) + 1, k>> /\ Len(partial) + 1 <= k
         /\ \A j \in DOMAIN partial : partial[j] = <<id, j, k>>
  BY BufferAppend
<1>3. PICK b : b = Append(partial, c)
  OBVIOUS
<1>4. /\ b \in Seq(Chunk) /\ Len(b) = Len(partial) + 1 /\ b # <<>>
      /\ DOMAIN partial = 1..Len(partial) /\ Len(partial) \in Nat
      /\ (\A j \in DOMAIN partial : b[j] = partial[j]) /\ b[Len(partial) + 1] = c
  BY <1>1, <1>3, AtEnd
<1>5. Len(partial) + 1 = k
  BY <1>2 DEF Final
<1>6. \A j \in 1..k : b[j] = <<id, j, k>>
  <2>1. \A j \in 1..k : j \in DOMAIN partial \/ j = k
    BY <1>4, <1>5
  <2> QED
    BY <1>2, <1>4, <1>5, <2>1
<1>7. b = Delivery(id, k)
  <2>1. b = [j \in 1..k |-> b[j]]
    BY <1>4, <1>5
  <2> QED
    BY <1>6, <2>1 DEF Delivery
<1> QED
  BY <1>3, <1>4, <1>7

(* The replies to it, and the flows among them.                            *)
LEMMA RepliesGrow ==
  ASSUME Inv, recordReceived
  PROVE  /\ toClient' \in Seq(ToClient) /\ received' = Inc(received) /\ received' \in Count
         /\ sinceFlow' \in 0..(Threshold - 1)
         /\ AllReplies(toClient) => AllReplies(toClient')
         /\ Len(toClient) \in Nat /\ Flows \subseteq 1..Len(toClient)
         /\ \A i \in Flows : toClient'[i] = toClient[i]
         /\ \/ sinceFlow' = sinceFlow + 1 /\ Flows' = Flows
            \/ /\ sinceFlow' = 0 /\ Flows' = Flows \cup {Len(toClient) + 1}
               /\ toClient'[Len(toClient) + 1] = FlowFrame(received', InitialCredit)
<1>1. /\ Types /\ toClient \in Seq(ToClient) /\ received \in Count
      /\ sinceFlow \in Nat /\ sinceFlow < Threshold
  BY Counters DEF Inv, Types
<1>2. received' = Inc(received) /\ received' \in Count
  BY <1>1, IncIs DEF recordReceived
<1>3. PICK r \in Count : r = received'
  BY <1>2
<1>4. PICK g \in Replies : g = FlowFrame(r, InitialCredit) /\ g.kind = "flow"
  BY FlowIs
<1>5. Settled \in Replies /\ Settled.kind # "flow" /\ Settled \in ToClient /\ g \in ToClient
  BY Kinds, ReplyIs
<1>6. PICK l \in Nat : l = Len(toClient) /\ DOMAIN toClient = 1..l
  BY <1>1
<1>7. CASE sinceFlow + 1 >= Threshold
  <2>1. PICK t : t = Append(toClient, g)
    OBVIOUS
  <2>2. /\ t \in Seq(ToClient) /\ Len(t) = l + 1 /\ DOMAIN t = 1..(l + 1)
        /\ (\A i \in DOMAIN toClient : t[i] = toClient[i]) /\ t[l + 1] = g
    BY <1>1, <1>5, <1>6, <2>1, AtEnd
  <2>3. sinceFlow' = 0 /\ toClient' = Append(t, Settled)
    <3>1. sinceFlow' = 0 /\ toClient' = toClient \o <<g, Settled>>
      BY <1>3, <1>4, <1>7 DEF recordReceived
    <3>2. toClient \o <<g, Settled>> = Append(Append(toClient, g), Settled)
      BY <1>1, <1>5
    <3> QED
      BY <2>1, <3>1, <3>2
  <2>4. /\ toClient' \in Seq(ToClient) /\ DOMAIN toClient' = 1..(l + 2)
        /\ (\A i \in 1..(l + 1) : toClient'[i] = t[i]) /\ toClient'[l + 2] = Settled
    <3>1. (l + 1) + 1 = l + 2
      OBVIOUS
    <3> QED
      BY <1>5, <2>2, <2>3, <3>1, AtEnd
  <2>5. (\A i \in 1..l : toClient'[i] = toClient[i]) /\ toClient'[l + 1] = g
    BY <1>6, <2>2, <2>4
  <2>6. Flows' = Flows \cup {l + 1}
    BY <1>4, <1>5, <1>6, <2>4, <2>5 DEF Flows
  <2>7. AllReplies(toClient) => AllReplies(toClient')
    <3>1. \A i \in 1..(l + 2) : i \in 1..l \/ i = l + 1 \/ i = l + 2
      OBVIOUS
    <3> QED
      BY <1>5, <1>6, <2>4, <2>5, <3>1 DEF AllReplies
  <2>8. 0 \in 0..(Threshold - 1)
    BY Counters
  <2> QED
    BY <1>2, <1>3, <1>4, <1>6, <2>3, <2>4, <2>5, <2>6, <2>7, <2>8 DEF Flows
<1>8. CASE ~(sinceFlow + 1 >= Threshold)
  <2>1. sinceFlow' = sinceFlow + 1 /\ toClient' = Append(toClient, Settled)
    BY <1>8 DEF recordReceived
  <2>2. /\ toClient' \in Seq(ToClient) /\ DOMAIN toClient' = 1..(l + 1)
        /\ (\A i \in DOMAIN toClient : toClient'[i] = toClient[i]) /\ toClient'[l + 1] = Settled
    BY <1>1, <1>5, <1>6, <2>1, AtEnd
  <2>3. Flows' = Flows
    BY <1>5, <1>6, <2>2 DEF Flows
  <2>4. AllReplies(toClient) => AllReplies(toClient')
    BY <1>5, <1>6, <2>2 DEF AllReplies
  <2>5. sinceFlow' \in 0..(Threshold - 1)
    BY <1>1, <1>8, <2>1, Counters
  <2> QED
    BY <1>2, <1>6, <2>1, <2>2, <2>3, <2>4, <2>5 DEF Flows
<1> QED
  BY <1>7, <1>8

(* The window after a delivery is complete: one less is outstanding, and   *)
(* the flow that gives the window back goes behind those in flight.        *)
LEMMA CompletedWindow ==
  ASSUME Inv, state = "attached", recordReceived,
         Outstanding > 0, Outstanding' = Outstanding - 1,
         UNCHANGED <<state, started, allowed>>
  PROVE  WindowOK'
<1>1. /\ Types /\ AllReplies(toClient) /\ Less(started, received) = Outstanding /\ Grants
      /\ started \in Count /\ received \in Count /\ allowed \in Count
  BY DEF Inv, Phase, Attached, WindowOK, Types
<1>2. /\ \A i \in Flows : Ahead(i) \in Nat
      /\ Less(allowed, started) \in Nat
  BY <1>1, AheadIs
<1>3. PICK n \in Nat : n = Outstanding /\ n > 0
  BY <1>1, OutstandingIs
<1>4. sinceFlow \in Nat /\ InitialCredit \in Nat
  BY <1>1, Counters DEF Types
<1>5. n <= InitialCredit
  BY <1>1, <1>2, <1>3, <1>4 DEF Grants
<1>6. /\ received' = Inc(received) /\ received' \in Count
      /\ Len(toClient) \in Nat /\ Flows \subseteq 1..Len(toClient)
      /\ \A i \in Flows : toClient'[i] = toClient[i]
      /\ \/ sinceFlow' = sinceFlow + 1 /\ Flows' = Flows
         \/ /\ sinceFlow' = 0 /\ Flows' = Flows \cup {Len(toClient) + 1}
            /\ toClient'[Len(toClient) + 1] = FlowFrame(received', InitialCredit)
  BY RepliesGrow
<1>7. Less(started', received') = n - 1
  BY <1>1, <1>3, <1>6, LessInc
<1>8. \A i \in Flows : Ahead(i)' = Ahead(i)
  BY <1>6 DEF Ahead
<1>9. Less(allowed', started') = Less(allowed, started)
  OBVIOUS
<1>10. /\ Less(allowed, started) + n + sinceFlow <= InitialCredit
       /\ \A i \in Flows : /\ Less(allowed, started) <= Ahead(i)
                             /\ Ahead(i) + n + sinceFlow <= InitialCredit
       /\ \A i, j \in Flows : i < j => Ahead(i) <= Ahead(j)
       /\ Flows = {} => Less(allowed, started) + n + sinceFlow = InitialCredit
       /\ \A i \in Flows :
            (\A j \in Flows : j <= i) => Ahead(i) + n + sinceFlow = InitialCredit
  BY <1>1, <1>3 DEF Grants
<1>11. Grants'
  <2>1. CASE sinceFlow' = sinceFlow + 1 /\ Flows' = Flows
    <3>1. \A x \in Nat : x + (n - 1) + (sinceFlow + 1) = x + n + sinceFlow
      BY <1>3, <1>4
    <3>2. Outstanding' = n - 1
      BY <1>3
    <3> QED
      BY <1>2, <1>8, <1>9, <1>10, <2>1, <3>1, <3>2 DEF Grants
  <2>2. CASE /\ sinceFlow' = 0 /\ Flows' = Flows \cup {Len(toClient) + 1}
             /\ toClient'[Len(toClient) + 1] = FlowFrame(received', InitialCredit)
    <3>1. PICK l \in Nat : l = Len(toClient) + 1 /\ \A i \in Flows : i < l /\ i \in Nat
      BY <1>6
    <3>2. Ahead(l)' = InitialCredit - (n - 1)
      <4>1. Less(started, received') <= InitialCredit
        BY <1>3, <1>4, <1>5, <1>7
      <4>2. Less(Granted(FlowFrame(received', InitialCredit)), started) =
              InitialCredit - Less(started, received')
        BY <1>1, <1>6, <4>1, GrantIs
      <4> QED
        BY <1>7, <2>2, <3>1, <4>2 DEF Ahead
    <3>3. Outstanding' = n - 1 /\ sinceFlow' = 0 /\ Flows' = Flows \cup {l} /\ l \notin Flows
      BY <1>3, <2>2, <3>1
    <3>4. \A x \in Nat : x + n + sinceFlow <= InitialCredit =>
                            x + (n - 1) + 0 <= InitialCredit /\ x <= InitialCredit - (n - 1)
      BY <1>3, <1>4
    <3>5. Less(allowed, started) <= InitialCredit - (n - 1)
          /\ Less(allowed, started) + (n - 1) + 0 <= InitialCredit
      BY <1>2, <1>10, <3>4
    <3>6. /\ (InitialCredit - (n - 1)) + (n - 1) + 0 = InitialCredit
          /\ InitialCredit - (n - 1) <= InitialCredit - (n - 1)
      BY <1>3, <1>4
    <3>7. \A i \in Flows : Ahead(i) + (n - 1) + 0 <= InitialCredit
                           /\ Ahead(i) <= InitialCredit - (n - 1)
      BY <1>2, <1>10, <3>4
    <3>8. \A i \in Flows' : /\ Less(allowed', started') <= Ahead(i)'
                            /\ Ahead(i)' + Outstanding' + sinceFlow' <= InitialCredit
      BY <1>8, <1>9, <1>10, <3>2, <3>3, <3>5, <3>6, <3>7, <1>3, <1>4
    <3>9. \A i, j \in Flows' : i < j => Ahead(i)' <= Ahead(j)'
      <4> SUFFICES ASSUME NEW i \in Flows', NEW j \in Flows', i < j PROVE Ahead(i)' <= Ahead(j)'
        OBVIOUS
      <4>1. i \in Flows
        BY <3>1, <3>3
      <4>2. CASE j \in Flows
        BY <1>8, <1>10, <4>1, <4>2
      <4>3. CASE j = l
        BY <1>8, <3>2, <3>7, <4>1, <4>3
      <4> QED
        BY <3>3, <4>2, <4>3
    <3>10. ASSUME NEW i \in Flows', \A j \in Flows' : j <= i
           PROVE  Ahead(i)' + Outstanding' + sinceFlow' = InitialCredit
      <4>1. i = l
        BY <3>1, <3>3, <3>10
      <4> QED
        BY <3>2, <3>3, <3>6, <4>1
    <3>11. Flows' # {}
      BY <3>3
    <3> QED
      BY <1>9, <3>3, <3>5, <3>8, <3>9, <3>10, <3>11 DEF Grants
  <2> QED
    BY <1>6, <2>1, <2>2
<1> QED
  BY <1>3, <1>7, <1>11 DEF WindowOK

LEMMA CompletedKeeps ==
  ASSUME Inv, Take("transfer"), linked, ~toServer[1].more,
         takePartial(toServer[1].chunk), recordReceived, UNCHANGED <<linked, clientVars>>
  PROVE  Inv'
<1>1. Inv /\ Types /\ UNCHANGED <<state, sending, nextId, started, allowed>>
  BY DEF Inv, clientVars
<1>2. PICK c : c = toServer[1].chunk
  OBVIOUS
<1>3. /\ c \in Chunk /\ Final(c) /\ toServer[1].kind = "transfer"
      /\ toServer' \in Seq(ToServer) /\ toServer' = Tail(toServer) /\ toServer # <<>>
  <2>1. /\ toServer[1].kind = "transfer" /\ 1 \in DOMAIN toServer
        /\ toServer' \in Seq(ToServer) /\ toServer' = Tail(toServer) /\ toServer # <<>>
    BY <1>1, TakeIs
  <2>2. toServer[1] \in Transfers
    BY <1>1, <2>1, Transferred
  <2> QED
    BY <1>2, <2>1, <2>2, TransferIs
<1>4. body' = Append(partial, c) /\ partial' = <<>>
  BY <1>2 DEF takePartial
<1>5. Buffered' = IF Final(c) THEN Nothing ELSE c
  BY <1>3, <1>4 DEF Buffered
<1>6. /\ SocketOK' /\ NextOK' /\ SendingOK'
      /\ Follows(Buffered, c)
      /\ state = "attached" \/ (state = "detaching" /\ Leaving)
      /\ Attached => AllTransfers(toServer')
      /\ AllReplies(toClient') /\ Leaving => Leaving'
  BY <1>1, <1>2, <1>5, SocketShrinks
<1>7. /\ toClient' \in Seq(ToClient) /\ received' \in Count /\ sinceFlow' \in 0..(Threshold - 1)
      /\ AllReplies(toClient) => AllReplies(toClient')
  BY RepliesGrow
<1>8. Types'
  <2>1. partial' \in Seq(Chunk)
    BY <1>4
  <2> QED
    BY <1>1, <1>3, <1>7, <2>1 DEF Types
<1>9. Phase'
  <2>1. Leaving => AllReplies(toClient)
    BY DEF Leaving
  <2> QED
    BY <1>1, <1>6, <1>7, <2>1 DEF Inv, Phase, Attached
<1>10. BufferOK'
  BY <1>4 DEF BufferOK
<1>11. WindowOK'
  <2>1. CASE state = "attached"
    <3>1. Cardinality(Finals(toServer)) = Cardinality(Finals(toServer')) + 1
      BY <1>1, <1>3, FinalsTail DEF Types
    <3>2. Cardinality(Finals(toServer')) \in Nat
      BY <1>3, FinalsFinite
    <3>3. Outstanding > 0 /\ Outstanding' = Outstanding - 1
      BY <1>1, <3>1, <3>2 DEF Outstanding
    <3> QED
      BY <1>1, <2>1, <3>3, CompletedWindow
  <2>2. CASE state # "attached"
    BY <1>1, <2>2 DEF WindowOK
  <2> QED
    BY <2>1, <2>2
<1>12. Verbatim'
  <2>1. \E id \in Count, k \in 1..MaxFrames : body' = Delivery(id, k)
    BY <1>3, <1>4, <1>6, CompletedIs
  <2> QED
    BY <2>1 DEF Verbatim, Count
<1> QED
  BY <1>6, <1>8, <1>9, <1>10, <1>11, <1>12 DEF Inv

LEMMA onTransferKeeps ==
  ASSUME Inv, onTransfer PROVE Inv'
<1>1. Take("transfer") /\ UNCHANGED <<linked, clientVars>> /\ Head(toServer) = toServer[1]
  BY TakeIs DEF onTransfer, Inv
<1>2. \/ /\ ~linked
         /\ UNCHANGED <<toClient, partial, received, sinceFlow, body>>
      \/ /\ linked /\ toServer[1].more
         /\ partial' = Append(partial, toServer[1].chunk)
         /\ UNCHANGED <<toClient, received, sinceFlow, body>>
      \/ /\ linked /\ ~toServer[1].more
         /\ takePartial(toServer[1].chunk)
         /\ recordReceived
  BY <1>1 DEF onTransfer
<1> QED
  BY <1>1, <1>2, IgnoredKeeps, BufferedKeeps, CompletedKeeps

LEMMA StutterKeeps ==
  ASSUME Inv, UNCHANGED vars PROVE Inv'
<1>1. UNCHANGED <<toServer, toClient, linked, partial, received, sinceFlow, body, state,
                  sending, nextId, started, allowed>>
  BY DEF vars, serverVars, clientVars
<1>2. Types' /\ Phase' /\ SendingOK'
  BY <1>1 DEF Inv, Types, Phase, Detached, Attaching, Asking, Answered, Attached, Leaving, Left,
              SendingOK
<1>3. BufferOK' /\ SocketOK' /\ Verbatim' /\ \A i : Before(i)' = Before(i)
  BY <1>1, ChunksStay
<1>4. NextOK'
  BY <1>1, <1>3 DEF Inv, NextOK
<1>5. WindowOK'
  <2>1. Outstanding' = Outstanding
    BY <1>1 DEF Outstanding
  <2> QED
    BY <1>1, <2>1, WindowStays
<1> QED
  BY <1>2, <1>3, <1>4, <1>5 DEF Inv

LEMMA Invariance == Spec => []Inv
<1>1. Inv /\ [Next]_vars => Inv'
  <2> SUFFICES ASSUME Inv, [Next]_vars PROVE Inv'
    OBVIOUS
  <2>1. CASE ClientAttach
    BY <2>1, ClientAttachKeeps
  <2>2. CASE ClientSend
    BY <2>2, ClientSendKeeps
  <2>3. CASE ClientDetach
    BY <2>3, ClientDetachKeeps
  <2>4. CASE ClientReceive
    BY <2>4, ClientReceiveKeeps
  <2>5. CASE \E n \in 1..MaxFrames : ClientStart(n)
    BY <2>5, ClientStartKeeps
  <2>6. CASE Server
    BY <2>6, onAttachKeeps, onTransferKeeps, onDetachKeeps DEF Server
  <2>7. CASE UNCHANGED vars
    BY <2>7, StutterKeeps
  <2> QED
    BY <2>1, <2>2, <2>3, <2>4, <2>5, <2>6, <2>7 DEF Next
<1> QED
  BY InitOK, <1>1, PTL DEF Spec

(* The last of the frames of a kind.                                       *)
LEMMA LastIs ==
  ASSUME NEW n \in Nat, NEW S, S \subseteq 1..n, S # {}
  PROVE  Max(S) \in S /\ \A j \in S : j <= Max(S)
<1> DEFINE R == {ss \in Nat \X Nat : ss[1] < ss[2]}
           T == {d \in Nat : n - d \in S}
<1>1. IsWellFoundedOn(R, Nat)
  BY NatLessThanWellFounded DEF OpToRel
<1>2. \A i \in S : i \in Int /\ i <= n /\ n - i \in Nat /\ n - (n - i) = i /\ n - i \in T
  OBVIOUS
<1>3. PICK d \in T : \A e \in T : <<e, d>> \notin R
  <2>1. T \subseteq Nat /\ T # {}
    BY <1>2
  <2> HIDE DEF R, T
  <2> QED
    BY <1>1, <2>1, WFMin
<1>4. d \in Nat /\ n - d \in S
  BY <1>3
<1>5. \A j \in S : j <= n - d
  <2> SUFFICES ASSUME NEW j \in S PROVE j <= n - d
    OBVIOUS
  <2>1. ~(n - j < d)
    BY <1>2, <1>3, <1>4
  <2> QED
    BY <1>2, <1>4, <2>1
<1>6. \E x \in S : \A y \in S : x >= y
  BY <1>2, <1>4, <1>5
<1>7. Max(S) \in S /\ \A y \in S : Max(S) >= y
  BY <1>6 DEF Max
<1> QED
  BY <1>2, <1>7

-----------------------------------------------------------------------------
(* The theorems.                                                           *)

(* conn.go onTransfer, link.go appendPartial and takePartial: every body   *)
(* handed to the broker is one whole delivery of the client, its frames    *)
(* all there, once each and in order, whatever deliveries were given up by *)
(* a detach and however often the link was attached anew.                  *)
THEOREM MessagesAreWhole == Spec => []Verbatim
<1>1. Inv => Verbatim
  BY DEF Inv
<1> QED
  BY Invariance, <1>1, PTL

(* link.go recordReceived and conn.go onAttach, grantCredit: while a link  *)
(* is attached the client's window, the deliveries on their way and those  *)
(* since the last flow make up the initial credit, over any wrap of the    *)
(* counters and any batch of flows the client has still to read.           *)
THEOREM WindowIsConserved == Spec => []WindowSound
<1>1. Inv => WindowSound
  <2> SUFFICES ASSUME Inv PROVE WindowSound
    OBVIOUS
  <2>1. Types
    BY DEF Inv
  <2>2. TypeOK
    BY <2>1 DEF Types, TypeOK, Count
  <2>3. ASSUME state = "attached"
        PROVE  ((LastFlow - started) % Width) + Outstanding + sinceFlow = InitialCredit
    <3>1. Grants /\ AllReplies(toClient)
      BY <2>3 DEF Inv, WindowOK, Phase, Attached
    <3>2. CASE Flows = {}
      BY <3>1, <3>2 DEF Grants, LastFlow, Less
    <3>3. CASE Flows # {}
      <4>1. Flows \subseteq 1..Len(toClient) /\ Len(toClient) \in Nat
        BY <2>1 DEF Types, Flows
      <4>2. Max(Flows) \in Flows /\ \A j \in Flows : j <= Max(Flows)
        BY <3>3, <4>1, LastIs
      <4>3. Ahead(Max(Flows)) + Outstanding + sinceFlow = InitialCredit
        BY <3>1, <4>2 DEF Grants
      <4> QED
        BY <3>3, <4>3 DEF LastFlow, Ahead, Less
    <3> QED
      BY <3>2, <3>3
  <2> QED
    BY <2>2, <2>3 DEF WindowSound, WindowConserved
<1> QED
  BY Invariance, <1>1, PTL
=============================================================================
