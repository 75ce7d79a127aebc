------------------------------ MODULE WebPubSub ------------------------------
(***************************************************************************)
(* One hub of Web PubSub: internal/servers/wpsserver.  Every connection    *)
(* has a goroutine that reads the client's requests and another that       *)
(* writes its outbound queue to the socket; REST calls run beside them.    *)
(*                                                                         *)
(* The hub's lock is an RWMutex.  Whoever publishes holds it for reading   *)
(* from the first connection to the last; what changes the hub takes it    *)
(* for writing, for a single step.                                         *)
(***************************************************************************)
EXTENDS Integers, SequencesExt

CONSTANTS
  Conn,            \* connections; an id is drawn anew for each and not used again
  Group, User,
  user,            \* the user each connection's token names
  Call,            \* the REST calls that publish
  outboundBuffer,  \* the length of a connection's queue
  Target,          \* whom REST calls publish to
  Request,         \* the requests clients make
  MaxEvent,        \* bound: how many requests clients make, REST calls change
                   \* groups, and clients, errors or REST calls end connections
  None

\* A publisher is a REST call or a client's sendToGroup request.
Publisher == Call \cup Conn
ToAll == [kind |-> "all"]
ToGroup(g) == [kind |-> "group", group |-> g]
ToUser(u) == [kind |-> "user", user |-> u]
ToConn(c) == [kind |-> "conn", conn |-> c]
Targets == {ToAll} \cup {ToGroup(g) : g \in Group} \cup {ToUser(u) : u \in User}
             \cup {ToConn(c) : c \in Conn}

\* The messages of one publisher are numbered.
Message(p, n, to) == [type |-> "message", by |-> p, n |-> n, to |-> to]
Messages == [type : {"message"}, by : Publisher, n : Nat, to : Targets]
Connected == [type |-> "connected"]
Ack(n, success) == [type |-> "ack", n |-> n, success |-> success]
Frames == Messages \cup {Connected} \cup [type : {"ack"}, n : Nat, success : BOOLEAN]

Requests ==
  [type : {"joinGroup", "leaveGroup", "sendToGroup"}, group : Group, ack : BOOLEAN]
    \cup [type : {"event", "unsupported"}, ack : BOOLEAN]

ASSUME WebPubSubAssumption ==
  /\ user \in [Conn -> User]
  /\ outboundBuffer \in Nat \ {0}
  /\ Target \subseteq Targets /\ Request \subseteq Requests
  /\ MaxEvent \in Nat
  /\ None \notin Conn \cup Frames /\ Conn \cap Call = {}

VARIABLES
  conns, groups,  \* the hub
  outbound,       \* each connection's queue
  quit,           \* whether closeNow has been called on it, and so on its socket
  reader,         \* where its reading goroutine is
  initial,        \* the token's groups it has still to join
  request,        \* the request it handles
  requests,       \* how many it has read
  writer,         \* where its writing goroutine is
  writing,        \* the frame that one writes
  delivering,     \* the frame each publisher delivers, under the lock; None
  left,           \* the connections it has still to send it to
  events,         \* how much of MaxEvent is used
  \* History.
  written,        \* the frames each client has got
  due,            \* the frames published to a connection that was there
  before,         \* for each frame, those whose publication was over when its began
  ghosts          \* the memberships REST made of connections that were not there

hub == <<conns, groups>>
sockets == <<outbound, quit, writer, writing, written>>
readers == <<reader, initial, request, requests>>
publishing == <<delivering, left, due, before>>
vars == <<hub, sockets, readers, publishing, events, ghosts>>

Init ==
  /\ conns = {}
  /\ groups = [g \in Group |-> {}]
  /\ outbound = [c \in Conn |-> <<>>]
  /\ quit = [c \in Conn |-> FALSE]
  /\ reader = [c \in Conn |-> "none"]
  /\ initial = [c \in Conn |-> {}]
  /\ request = [c \in Conn |-> None]
  /\ requests = [c \in Conn |-> 0]
  /\ writer = [c \in Conn |-> "none"]
  /\ writing = [c \in Conn |-> None]
  /\ delivering = [p \in Publisher |-> None]
  /\ left = [p \in Publisher |-> {}]
  /\ events = 0
  /\ written = [c \in Conn |-> <<>>]
  /\ due = [c \in Conn |-> {}]
  /\ before = <<>>
  /\ ghosts = {}

-----------------------------------------------------------------------------
(* The hub.                                                                *)

MutUnlockedAlways == TRUE

\* The lock can be taken for writing.
Unlocked == \A p \in Publisher : delivering[p] = None

add(c) == Unlocked /\ conns' = conns \cup {c} /\ UNCHANGED groups

MutRemoveKeepsGroups(c) ==
  /\ Unlocked
  /\ conns' = conns \ {c}
  /\ UNCHANGED groups

remove(c) ==
  /\ Unlocked
  /\ conns' = conns \ {c}
  /\ groups' = [g \in Group |-> groups[g] \ {c}]

join(g, c) ==
  /\ Unlocked
  /\ groups' = [groups EXCEPT ![g] = @ \cup {c}]
  /\ UNCHANGED conns

leave(g, c) ==
  /\ Unlocked
  /\ groups' = [groups EXCEPT ![g] = @ \ {c}]
  /\ UNCHANGED conns

(* Whom broadcast, sendGroup, sendUser and sendConn send to.               *)
Audience(to) ==
  CASE to.kind = "all" -> conns
    [] to.kind = "group" -> groups[to.group] \cap conns
    [] to.kind = "user" -> {c \in conns : user[c] = to.user}
    [] to.kind = "conn" -> {to.conn} \cap conns

-----------------------------------------------------------------------------
(* A connection's queue.                                                   *)

closeNow(c) == quit' = [quit EXCEPT ![c] = TRUE]

Event == events < MaxEvent /\ events' = events + 1

(* Something other than a full queue ends a connection that lives.         *)
Break(c) ==
  /\ closeNow(c)
  /\ IF quit[c] THEN UNCHANGED events ELSE Event

MutSendDrops(c, frame) ==
  /\ outbound' = IF Len(outbound[c]) < outboundBuffer
                 THEN [outbound EXCEPT ![c] = Append(@, frame)] ELSE outbound
  /\ UNCHANGED quit

MutSendWaits(c, frame) ==
  /\ Len(outbound[c]) < outboundBuffer
  /\ outbound' = [outbound EXCEPT ![c] = Append(@, frame)]
  /\ UNCHANGED quit

(* select takes either case that is ready, and the default if none is.     *)
send(c, frame) ==
  \/ quit[c] /\ UNCHANGED <<outbound, quit>>
  \/ /\ Len(outbound[c]) < outboundBuffer
     /\ outbound' = [outbound EXCEPT ![c] = Append(@, frame)]
     /\ UNCHANGED quit
  \/ /\ ~quit[c] /\ Len(outbound[c]) = outboundBuffer
     /\ closeNow(c)
     /\ UNCHANGED outbound

MutTakeFrameIgnoresQuit(c) ==
  /\ writer[c] = "wait" /\ outbound[c] # <<>>
  /\ writer' = [writer EXCEPT ![c] = "write"]
  /\ writing' = [writing EXCEPT ![c] = Head(outbound[c])]
  /\ outbound' = [outbound EXCEPT ![c] = Tail(@)]
  /\ UNCHANGED <<quit, written, hub, readers, publishing, events, ghosts>>

(* startWriter's goroutine: the select, and the write.                     *)
takeFrame(c) ==
  /\ writer[c] = "wait"
  /\ \/ /\ quit[c]
        /\ writer' = [writer EXCEPT ![c] = "end"]
        /\ UNCHANGED <<outbound, writing>>
     \/ /\ outbound[c] # <<>>
        /\ writer' = [writer EXCEPT ![c] = "write"]
        /\ writing' = [writing EXCEPT ![c] = Head(outbound[c])]
        /\ outbound' = [outbound EXCEPT ![c] = Tail(@)]
  /\ UNCHANGED <<quit, written, hub, readers, publishing, events, ghosts>>

MutWriteRetries(c) ==
  /\ writer[c] = "write"
  /\ writing' = [writing EXCEPT ![c] = None]
  /\ writer' = [writer EXCEPT ![c] = "wait"]
  /\ \/ written' = [written EXCEPT ![c] = Append(@, writing[c])] /\ UNCHANGED outbound
     \/ outbound' = [outbound EXCEPT ![c] = Append(@, writing[c])] /\ UNCHANGED written
  /\ UNCHANGED <<quit, hub, readers, publishing, events, ghosts>>

writeFrame(c) ==
  /\ writer[c] = "write"
  /\ writing' = [writing EXCEPT ![c] = None]
  /\ \/ /\ written' = [written EXCEPT ![c] = Append(@, writing[c])]
        /\ writer' = [writer EXCEPT ![c] = "wait"]
        /\ UNCHANGED <<quit, events>>
     \/ /\ Break(c)
        /\ writer' = [writer EXCEPT ![c] = "end"]
        /\ UNCHANGED written
  /\ UNCHANGED <<outbound, hub, readers, publishing, ghosts>>

-----------------------------------------------------------------------------
(* Publishing.                                                             *)

Publish(p, message) ==
  /\ delivering[p] = None
  /\ delivering' = [delivering EXCEPT ![p] = message]
  /\ left' = [left EXCEPT ![p] = Audience(message.to)]
  /\ before' = [m \in DOMAIN before \cup {message} |->
                  IF m = message THEN UNION {due[c] : c \in Conn} ELSE before[m]]

(* One connection after another, in the order of a Go map: any.            *)
sendEach(p) ==
  /\ \E c \in left[p] :
       /\ send(c, delivering[p])
       /\ left' = [left EXCEPT ![p] = @ \ {c}]
  /\ UNCHANGED <<delivering, due, before, writer, writing, written, hub, readers, events, ghosts>>

Published(p) ==
  /\ delivering[p] # None
  /\ left[p] = {}
  /\ delivering' = [delivering EXCEPT ![p] = None]
  /\ due' = [c \in Conn |-> IF c \in Audience(delivering[p].to)
                            THEN due[c] \cup {delivering[p]} ELSE due[c]]
  /\ UNCHANGED <<left, before>>

(* The REST calls.                                                         *)
publish(p, to) ==
  /\ \A t \in Targets : Message(p, 1, t) \notin DOMAIN before
  /\ Publish(p, Message(p, 1, to))
  /\ UNCHANGED <<due, hub, sockets, readers, events, ghosts>>

publishDone(p) == Published(p) /\ UNCHANGED <<hub, sockets, readers, events, ghosts>>

\* Only the client is told a connection's id, when it is connected.
KnownId(c) == Connected \in ToSet(written[c])

serveREST(c) ==
  /\ KnownId(c)
  /\ \/ /\ Event
        /\ \E g \in Group :
             \/ join(g, c) /\ ghosts' = IF c \in conns THEN ghosts ELSE ghosts \cup {<<g, c>>}
             \/ leave(g, c) /\ UNCHANGED ghosts
        /\ UNCHANGED sockets
     \/ /\ c \in conns
        /\ Break(c)
        /\ UNCHANGED <<hub, outbound, writer, writing, written, ghosts>>
  /\ UNCHANGED <<readers, publishing>>

-----------------------------------------------------------------------------
(* A connection's reading goroutine.                                       *)

GoTo(c, place) == reader' = [reader EXCEPT ![c] = place]

(* serveClient draws the id and starts run, which starts the writer.       *)
serveClient(c, gs) ==
  /\ reader[c] = "none"
  /\ GoTo(c, "add")
  /\ initial' = [initial EXCEPT ![c] = gs]
  /\ writer' = [writer EXCEPT ![c] = "wait"]
  /\ UNCHANGED <<request, requests, outbound, quit, writing, written, hub, publishing, events, ghosts>>

enter(c) ==
  /\ reader[c] = "add"
  /\ add(c)
  /\ GoTo(c, "greet")
  /\ UNCHANGED <<initial, request, requests, sockets, publishing, events, ghosts>>

greet(c) ==
  /\ reader[c] = "greet"
  /\ send(c, Connected)
  /\ GoTo(c, IF initial[c] = {} THEN "read" ELSE "join")
  /\ UNCHANGED <<initial, request, requests, writer, writing, written, hub, publishing, events, ghosts>>

joinInitial(c) ==
  /\ reader[c] = "join"
  /\ \E g \in initial[c] : /\ join(g, c)
                          /\ initial' = [initial EXCEPT ![c] = @ \ {g}]
  /\ GoTo(c, IF initial'[c] = {} THEN "read" ELSE "join")
  /\ UNCHANGED <<request, requests, sockets, publishing, events, ghosts>>

(* A request (one that is not JSON is passed over), which may still come   *)
(* out of the buffer when the socket is closed.                            *)
ReadMessage(c) ==
  /\ reader[c] = "read"
  /\ Event
  /\ \E r \in Request : request' = [request EXCEPT ![c] = r]
  /\ requests' = [requests EXCEPT ![c] = @ + 1]
  /\ GoTo(c, "handle")
  /\ UNCHANGED <<initial, sockets, hub, publishing, ghosts>>

(* Or an error: closed by either side, or the message was too long.  The   *)
(* first of run's deferred calls comes at once.                            *)
ReadError(c) ==
  /\ reader[c] = "read"
  /\ Break(c)
  /\ GoTo(c, "remove")
  /\ UNCHANGED <<initial, request, requests, outbound, writer, writing, written, hub,
                 publishing, ghosts>>

(* handle, up to the acknowledgement.                                      *)
handle(c) ==
  LET r == request[c] IN
  /\ reader[c] = "handle"
  /\ CASE r.type = "joinGroup" -> join(r.group, c) /\ GoTo(c, "ack") /\ UNCHANGED publishing
       [] r.type = "leaveGroup" -> leave(r.group, c) /\ GoTo(c, "ack") /\ UNCHANGED publishing
       [] r.type = "sendToGroup" -> /\ Publish(c, Message(c, requests[c], ToGroup(r.group)))
                                    /\ GoTo(c, "publish")
                                    /\ UNCHANGED <<due, hub>>
       [] OTHER -> GoTo(c, "ack") /\ UNCHANGED <<hub, publishing>>
  /\ UNCHANGED <<initial, request, requests, sockets, events, ghosts>>

handlePublished(c) ==
  /\ reader[c] = "publish"
  /\ Published(c)
  /\ GoTo(c, "ack")
  /\ UNCHANGED <<initial, request, requests, sockets, hub, events, ghosts>>

ack(c) ==
  /\ reader[c] = "ack"
  /\ IF request[c].ack THEN send(c, Ack(requests[c], request[c].type # "unsupported"))
                       ELSE UNCHANGED <<outbound, quit>>
  /\ request' = [request EXCEPT ![c] = None]
  /\ GoTo(c, "read")
  /\ UNCHANGED <<initial, requests, writer, writing, written, hub, publishing, events, ghosts>>

(* The second of them.                                                     *)
exit(c) ==
  /\ reader[c] = "remove"
  /\ remove(c)
  /\ GoTo(c, "end")
  /\ UNCHANGED <<initial, request, requests, sockets, publishing, events, ghosts>>

-----------------------------------------------------------------------------
Reading(c) ==
  enter(c) \/ greet(c) \/ joinInitial(c) \/ handle(c) \/ handlePublished(c) \/ ack(c) \/ exit(c)

Writing(c) == takeFrame(c) \/ writeFrame(c)

Next ==
  \/ \E c \in Conn, gs \in SUBSET Group : serveClient(c, gs)
  \/ \E c \in Conn : Reading(c) \/ ReadMessage(c) \/ ReadError(c) \/ Writing(c) \/ serveREST(c)
  \/ \E p \in Call, to \in Target : publish(p, to)
  \/ \E p \in Call : publishDone(p)
  \/ \E p \in Publisher : sendEach(p)

(* Goroutines run.  A read ends in an error once the socket is closed; a   *)
(* client need not send, nor a REST call come.  A write ends by writeWait. *)
Fairness ==
  /\ \A c \in Conn : /\ WF_vars(Reading(c)) /\ WF_vars(Writing(c))
                     /\ WF_vars(quit[c] /\ ReadError(c))
  /\ \A p \in Publisher : WF_vars(sendEach(p))
  /\ \A p \in Call : WF_vars(publishDone(p))

Spec == Init /\ [][Next]_vars /\ Fairness

-----------------------------------------------------------------------------
(* Properties.                                                             *)

\* Frames the client of c has got, is getting and will get if c lives.
Accepted(c) ==
  written[c] \o (IF writing[c] = None THEN <<>> ELSE <<writing[c]>>) \o outbound[c]

(* Queues hold frames and no more of them than they may; a connection that *)
(* is gone is in no table.                                                 *)
TypeOK ==
  /\ conns \subseteq Conn
  /\ groups \in [Group -> SUBSET Conn]
  /\ \A c \in Conn : /\ Len(outbound[c]) <= outboundBuffer
                     /\ ToSet(Accepted(c)) \subseteq Frames
                     /\ due[c] \subseteq Messages
  /\ quit \in [Conn -> BOOLEAN]
  /\ request \in [Conn -> Requests \cup {None}]
  /\ requests \in [Conn -> 0..MaxEvent] /\ events \in 0..MaxEvent
  /\ delivering \in [Publisher -> Messages \cup {None}]
  /\ left \in [Publisher -> SUBSET conns]
  /\ \A c \in Conn : c \in conns <=> reader[c] \notin {"none", "add", "end"}

(* A message published to a connection that is there is accepted for it    *)
(* exactly once, however full its queue was, or the connection is closed   *)
(* (send closes it instead of skipping a frame).                           *)
NothingSkipped ==
  \A c \in Conn :
    /\ ~quit[c] => due[c] \subseteq ToSet(Accepted(c))
    /\ \A i, j \in DOMAIN Accepted(c) : Accepted(c)[i] = Accepted(c)[j] => i = j

(* A client gets a message before those published after that publication   *)
(* was answered, its own message before the acknowledgement of it, and its *)
(* acknowledgements in the order of its requests: two goroutines and the   *)
(* REST calls share the queue.                                             *)
InOrder ==
  \A c \in Conn : \A i, j \in DOMAIN Accepted(c) :
    LET first == Accepted(c)[i]
        second == Accepted(c)[j]
    IN  i < j =>
          /\ first.type = "message" /\ second.type = "message" => second \notin before[first]
          /\ first.type = "ack" /\ second.type = "ack" => first.n < second.n
          /\ first.type = "ack" /\ second.type = "message" /\ second.by = c => first.n < second.n

(* A message is queued only for who is a member, or is there, at that      *)
(* moment: once a leave is acknowledged the group is not heard again.      *)
OnlyTheAudience ==
  [][\A c \in Conn :
       /\ Len(outbound'[c]) > Len(outbound[c])
       /\ Last(outbound'[c]).type = "message"
       => c \in Audience(Last(outbound'[c]).to)]_vars

(* No connection that is gone stays in a group, unless a REST call has put *)
(* it there when it was not in the hub: join does not look.                *)
NoGhost ==
  \A g \in Group : \A c \in groups[g] : c \in conns \/ <<g, c>> \in ghosts

(* The hub is well-formed: a connection is in it exactly while its reader  *)
(* lives, and no group keeps one that is gone (hub.go: add, remove, join). *)
HubSound == TypeOK /\ NoGhost

(* "one slow consumer never stalls a broadcast or holds the hub lock": the *)
(* lock is let go again and again, so that each publication ends, whatever *)
(* its clients' sockets do.                                                *)
PublishEnds == []<>(\A p \in Publisher : delivering[p] = None)

(* A closed connection, by whichever of the goroutines, ends both of its   *)
(* own and leaves the hub.                                                 *)
CleanedUp == <>[](\A c \in Conn : quit[c] => reader[c] = "end" /\ writer[c] = "end")
=============================================================================
