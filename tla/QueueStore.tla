----------------------------- MODULE QueueStore -----------------------------
(***************************************************************************)
(* The Queue storage of one account: internal/stores/queuestore, with the  *)
(* requests internal/servers/queueserver makes of it.                      *)
(*                                                                         *)
(* A request holds the store's mutex while it changes memory and while it  *)
(* writes the snapshot, so it is two steps with nothing between them but   *)
(* the end of the process.  The write replaces the snapshot or leaves it   *)
(* alone (AtomicFile); its error is ignored.                               *)
(***************************************************************************)
EXTENDS Integers, SequencesExt

CONSTANTS
  Queue,           \* queue names
  Metadata,        \* metadata maps
  Visibility,      \* the visibility timeouts clients ask for, in ticks: Nat
  TTL,             \* the times to live they ask for; Infinite, those below 0
  Infinite,
  MaxMsg,          \* bound: how many messages are enqueued
  MaxReceipt,      \* bound: how many pop receipts are handed out
  MaxTime,         \* bound: the clock
  NoQueue, None, Nobody

VARIABLES
  mem,        \* Store.accounts: each queue's metadata and messages
  disk,       \* queues.json
  up,         \* whether the process runs
  request,    \* the request that is at persistLocked: see Request; None
  issued, receipts,   \* how many message ids and pop receipts were drawn
  now,
  \* History.
  kept,       \* messages on disk and not removed by a request since
  gone,       \* messages whose removal is on disk
  holder      \* for each message, the receipt and deadline last handed out and
              \* on disk; Nobody, none or another is being handed out

vars == <<mem, disk, up, request, issued, receipts, now, kept, gone, holder>>

Msg == 1..MaxMsg
NoReceipt == 0
Message == [id : Msg, visible : Nat, expires : Nat \cup {Infinite},
            receipt : 0..MaxReceipt]
Content == [meta : Metadata, messages : Seq(Message)]

\* Messages handed out, added, and removed, and the receipt it was done with.
Request(handed, added, removed, by) ==
  [handed |-> handed, added |-> added, removed |-> removed, by |-> by]

Ids(ms) == {ms[i].id : i \in DOMAIN ms}
MessagesOf(content) == IF content = NoQueue THEN <<>> ELSE content.messages

Init ==
  /\ mem = [q \in Queue |-> NoQueue]
  /\ disk = mem
  /\ up = TRUE
  /\ request = None
  /\ issued = 0 /\ receipts = 0
  /\ now = 0
  /\ kept = {} /\ gone = {}
  /\ holder = [m \in Msg |-> Nobody]

-----------------------------------------------------------------------------
expired(m) == m.expires # Infinite /\ now > m.expires

MutVisibleIgnored(m) == TRUE

visible(m) == now >= m.visible

evictExpired(ms) ==
  LET rest[i \in 0..Len(ms)] ==
        IF i = 0 THEN <<>>
        ELSE IF expired(ms[i]) THEN rest[i - 1] ELSE Append(rest[i - 1], ms[i])
  IN  rest[Len(ms)]

(* lookupLocked: the queue's messages after evictExpired.                  *)
Alive(q) == evictExpired(mem[q].messages)

(* The first num visible messages of ms, as positions.                     *)
FirstVisible(ms, num) ==
  LET V == {i \in DOMAIN ms : visible(ms[i])}
  IN  {i \in V : Cardinality({j \in V : j < i}) < num}

(* A request that changed memory, about to write the snapshot.             *)
Change(q, content, req) ==
  /\ mem' = [mem EXCEPT ![q] = content]
  /\ request' = req
  /\ kept' = {k \in kept : k.id \notin req.removed}
  /\ holder' = [m \in Msg |-> IF m \in {h.id : h \in req.handed} THEN Nobody
                              ELSE holder[m]]
  /\ UNCHANGED <<disk, up, now, gone>>

Messages(q, ms) == [mem[q] EXCEPT !.messages = ms]

(* Both ways in: the store is up and its mutex free.                       *)
Serving == up /\ request = None
Found(q) == Serving /\ mem[q] # NoQueue

(* CreateQueue of a new name; of an existing one it changes nothing.       *)
CreateQueue(q, meta) ==
  /\ Serving
  /\ mem[q] = NoQueue
  /\ Change(q, [meta |-> meta, messages |-> <<>>], Request({}, {}, {}, NoReceipt))
  /\ UNCHANGED <<issued, receipts>>

DeleteQueue(q) ==
  /\ Found(q)
  /\ Change(q, NoQueue, Request({}, {}, Ids(mem[q].messages), NoReceipt))
  /\ UNCHANGED <<issued, receipts>>

(* Every request that finds its queue and changes no message evicts all    *)
(* the same, and writes nothing: GetMetadata, Peek, a Dequeue that returns *)
(* nothing, a DeleteMessage or UpdateMessage refused.  ListQueues does so  *)
(* to all the queues with its prefix.                                      *)
Look(qs) ==
  /\ \A q \in qs : Found(q)
  /\ mem' = [q \in Queue |-> IF q \in qs THEN Messages(q, Alive(q)) ELSE mem[q]]
  /\ UNCHANGED <<disk, up, request, issued, receipts, now, kept, gone, holder>>

SetMetadata(q, meta) ==
  /\ Found(q)
  /\ Change(q, [meta |-> meta, messages |-> Alive(q)], Request({}, {}, {}, NoReceipt))
  /\ UNCHANGED <<issued, receipts>>

Enqueue(q, visibility, ttl) ==
  LET m == [id |-> issued + 1, visible |-> now + visibility,
            expires |-> IF ttl = Infinite THEN Infinite ELSE now + ttl,
            receipt |-> NoReceipt] IN
  /\ Found(q)
  /\ issued < MaxMsg
  /\ issued' = issued + 1
  /\ Change(q, Messages(q, Append(Alive(q), m)), Request({}, {m}, {}, NoReceipt))
  /\ UNCHANGED receipts

Dequeue(q, num, visibility) ==
  LET ms == Alive(q)
      taken == FirstVisible(ms, num)
      out == [i \in DOMAIN ms |->
                IF i \in taken
                THEN [ms[i] EXCEPT !.visible = now + visibility,
                        !.receipt = receipts + Cardinality({j \in taken : j <= i})]
                ELSE ms[i]] IN
  /\ Found(q)
  /\ taken # {}
  /\ receipts' = receipts + Cardinality(taken)
  /\ receipts' <= MaxReceipt
  /\ Change(q, Messages(q, out), Request({out[i] : i \in taken}, {}, {}, NoReceipt))
  /\ UNCHANGED issued

(* The receipt a request presents must be the message's; a message nobody  *)
(* has dequeued has the empty one.                                         *)
Matches(m, receipt) == m.receipt = receipt

MutDeleteLeavesHole(q, id, receipt) ==
  /\ Found(q)
  /\ \E i \in DOMAIN Alive(q) :
       /\ Alive(q)[i].id = id
       /\ Matches(Alive(q)[i], receipt)
       /\ Change(q, Messages(q, [Alive(q) EXCEPT ![i] = Nobody]),
                 Request({}, {}, {id}, receipt))
  /\ UNCHANGED <<issued, receipts>>

DeleteMessage(q, id, receipt) ==
  LET ms == Alive(q) IN
  /\ Found(q)
  /\ \E i \in DOMAIN ms :
       /\ ms[i].id = id
       /\ Matches(ms[i], receipt)
       /\ Change(q, Messages(q, RemoveAt(ms, i)), Request({}, {}, {id}, receipt))
  /\ UNCHANGED <<issued, receipts>>

UpdateMessage(q, id, receipt, visibility) ==
  LET ms == Alive(q) IN
  /\ Found(q)
  /\ receipts < MaxReceipt
  /\ receipts' = receipts + 1
  /\ \E i \in DOMAIN ms :
       LET m == [ms[i] EXCEPT !.receipt = receipts + 1, !.visible = now + visibility] IN
       /\ m.id = id
       /\ Matches(ms[i], receipt)
       /\ Change(q, Messages(q, [ms EXCEPT ![i] = m]), Request({m}, {}, {}, receipt))
  /\ UNCHANGED issued

ClearMessages(q) ==
  /\ Found(q)
  /\ Change(q, Messages(q, <<>>), Request({}, {}, Ids(mem[q].messages), NoReceipt))
  /\ UNCHANGED <<issued, receipts>>

-----------------------------------------------------------------------------
(* persistLocked: the snapshot is memory, or the write failed.             *)
MutPersistNoRemovals ==
  /\ request # None
  /\ request' = None
  /\ disk' = IF request.removed = {} THEN mem ELSE disk
  /\ kept' = kept \cup request.added
  /\ gone' = gone \cup request.removed
  /\ holder' = [m \in Msg |-> IF \E h \in request.handed : h.id = m
                              THEN CHOOSE h \in request.handed : h.id = m
                              ELSE holder[m]]
  /\ UNCHANGED <<mem, up, issued, receipts, now>>

persistLocked ==
  /\ request # None
  /\ request' = None
  /\ \/ /\ disk' = mem
        /\ kept' = kept \cup request.added
        /\ gone' = gone \cup request.removed
        /\ holder' = [m \in Msg |-> IF \E h \in request.handed : h.id = m
                                    THEN CHOOSE h \in request.handed : h.id = m
                                    ELSE holder[m]]
     \/ UNCHANGED <<disk, kept, gone, holder>>
  /\ UNCHANGED <<mem, up, issued, receipts, now>>

(* The process ends, in a request or between two.                          *)
Stop ==
  /\ up
  /\ up' = FALSE
  /\ request' = None
  /\ mem' = [q \in Queue |-> NoQueue]
  /\ UNCHANGED <<disk, issued, receipts, now, kept, gone, holder>>

(* New, with load: a missing snapshot is an empty store.                   *)
load ==
  /\ ~up
  /\ up' = TRUE
  /\ mem' = disk
  /\ UNCHANGED <<disk, request, issued, receipts, now, kept, gone, holder>>

Tick ==
  /\ now < MaxTime
  /\ now' = now + 1
  /\ UNCHANGED <<mem, disk, up, request, issued, receipts, kept, gone, holder>>

(* The requests the server makes of the store.                             *)
handleAccount == \E qs \in SUBSET Queue : Look(qs)

handleQueue(q) ==
  \/ \E meta \in Metadata : CreateQueue(q, meta) \/ SetMetadata(q, meta)
  \/ DeleteQueue(q)

putMessage(q) == \E v \in Visibility, ttl \in TTL : Enqueue(q, v, ttl)

getMessages(q) == \E num \in 1..MaxMsg, v \in Visibility : Dequeue(q, num, v)

(* A client names any message and presents any receipt.                    *)
handleMessage(q) ==
  \E id \in Msg, r \in 0..MaxReceipt :
    \/ DeleteMessage(q, id, r)
    \/ \E v \in Visibility : UpdateMessage(q, id, r, v)

handleMessages(q) ==
  putMessage(q) \/ getMessages(q) \/ ClearMessages(q) \/ handleMessage(q)

Next ==
  \/ handleAccount
  \/ \E q \in Queue : handleQueue(q) \/ handleMessages(q)
  \/ persistLocked \/ Stop \/ load \/ Tick

Spec == Init /\ [][Next]_vars

-----------------------------------------------------------------------------
(* Properties.                                                             *)

(* Memory and disk hold queues of messages; nothing is lost from the types *)
(* by any order of requests.                                               *)
TypeOK ==
  /\ mem \in [Queue -> Content \cup {NoQueue}]
  /\ disk \in [Queue -> Content \cup {NoQueue}]
  /\ up \in BOOLEAN
  /\ issued \in 0..MaxMsg /\ receipts \in 0..MaxReceipt /\ now \in 0..MaxTime
  /\ kept \subseteq Message /\ gone \subseteq Msg
  /\ holder \in [Msg -> Message \cup {Nobody}]

Stored(content, id) == id \in Ids(MessagesOf(content))

(* A message whose enqueue was written is there, in memory and after any   *)
(* number of restarts, until it expires or a request removes it, whatever  *)
(* writes failed in between (persistLocked writes the whole state).        *)
Kept ==
  \A k \in kept : ~expired(k) =>
    /\ \E q \in Queue : Stored(disk[q], k.id)
    /\ up => \E q \in Queue : Stored(mem[q], k.id)

(* A message whose removal was written never comes back.                   *)
NoReturn ==
  \A id \in gone, q \in Queue : ~Stored(mem[q], id) /\ ~Stored(disk[q], id)

(* Whoever was handed a message last, in a dequeue or an update that was   *)
(* written, finds it with that receipt and hidden until that time, across  *)
(* evictions, failed writes of other requests and restarts.                *)
HolderKeeps ==
  \A content \in {mem[q] : q \in Queue} \cup {disk[q] : q \in Queue} :
    \A i \in DOMAIN MessagesOf(content) :
      LET m == content.messages[i] IN holder[m.id] # Nobody => m = holder[m.id]

(* While it is hidden, only its holder's receipt changes a message's state: *)
(* nobody else is handed it, and no older receipt deletes or updates it.   *)
Exclusive ==
  [][\A m \in Msg :
       /\ request = None /\ request' # None
       /\ holder[m] # Nobody /\ now < holder[m].visible
       /\ \/ \E h \in request'.handed : h.id = m
          \/ request'.removed = {m} /\ request'.by # NoReceipt
       => request'.by = holder[m].receipt]_vars
=============================================================================
