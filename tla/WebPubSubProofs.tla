--------------------------- MODULE WebPubSubProofs ---------------------------
(***************************************************************************)
(* The hub is well-formed, its messages reach nobody but their audience,   *)
(* and no client misses a frame, gets one twice or out of order, for any   *)
(* connections, groups, users, calls and queue length.                     *)
(***************************************************************************)
EXTENDS WebPubSub, SequenceTheorems, TLAPS

Places == {"none", "add", "greet", "join", "read", "handle", "publish", "ack", "remove", "end"}

FramesOK ==
  /\ outbound \in [Conn -> Seq(Frames)]
  /\ \A c \in Conn : Len(outbound[c]) <= outboundBuffer
  /\ quit \in [Conn -> BOOLEAN]
  /\ written \in [Conn -> Seq(Frames)]
  /\ writing \in [Conn -> Frames \cup {None}]
  /\ writer \in [Conn -> {"none", "wait", "write", "end"}]
  /\ \A c \in Conn : writer[c] = "write" => writing[c] \in Frames

ReadersOK ==
  /\ reader \in [Conn -> Places]
  /\ initial \in [Conn -> SUBSET Group]
  /\ request \in [Conn -> Requests \cup {None}]
  /\ \A c \in Conn : reader[c] \in {"handle", "publish", "ack"} => request[c] \in Requests
  /\ events \in 0..MaxEvent
  /\ requests \in [Conn -> Nat]
  /\ \A c \in Conn : requests[c] <= events

(* A connection is in the hub while its reader lives, and a group's member *)
(* in the hub unless a REST call has put it there.                         *)
HubOK ==
  /\ conns \subseteq Conn
  /\ groups \in [Group -> SUBSET Conn]
  /\ \A c \in Conn : c \in conns <=> reader[c] \notin {"none", "add", "end"}
  /\ NoGhost

(* What a publisher has still to send, it sends to members: the hub stays  *)
(* as it is while the lock is held.                                        *)
LockOK ==
  /\ due \in [Conn -> SUBSET Messages]
  /\ delivering \in [Publisher -> Messages \cup {None}]
  /\ left \in [Publisher -> SUBSET Conn]
  /\ \A p \in Publisher : left[p] # {} =>
       /\ delivering[p] # None
       /\ left[p] \subseteq Audience(delivering[p].to)

Inv == FramesOK /\ ReadersOK /\ HubOK /\ LockOK

LEMMA InitInv == Init => Inv
<1> SUFFICES ASSUME Init PROVE Inv
  OBVIOUS
<1> USE WebPubSubAssumption DEF Init
<1>1. FramesOK
  BY DEF FramesOK
<1>2. ReadersOK
  BY DEF ReadersOK, Places
<1>3. HubOK
  BY DEF HubOK, NoGhost
<1>4. LockOK
  BY DEF LockOK
<1> QED
  BY <1>1, <1>2, <1>3, <1>4 DEF Inv

-----------------------------------------------------------------------------
(* What the pieces of the actions do.                                      *)

LEMMA AudienceIsThere ==
  ASSUME NEW to \in Targets PROVE Audience(to) \subseteq conns
<1>1. CASE to = ToAll
  BY <1>1 DEF Audience, ToAll
<1>2. ASSUME NEW g \in Group, to = ToGroup(g) PROVE Audience(to) \subseteq conns
  BY <1>2 DEF Audience, ToGroup
<1>3. ASSUME NEW u \in User, to = ToUser(u) PROVE Audience(to) \subseteq conns
  BY <1>3 DEF Audience, ToUser
<1>4. ASSUME NEW c \in Conn, to = ToConn(c) PROVE Audience(to) \subseteq conns
  BY <1>4 DEF Audience, ToConn
<1> QED
  BY <1>1, <1>2, <1>3, <1>4 DEF Targets

LEMMA Sent ==
  ASSUME FramesOK, NEW c \in Conn, NEW frame \in Frames, send(c, frame),
         UNCHANGED <<writer, writing, written>>
  PROVE  FramesOK'
<1> USE WebPubSubAssumption DEF FramesOK
<1>1. CASE quit[c] /\ UNCHANGED <<outbound, quit>>
  BY <1>1
<1>2. CASE /\ Len(outbound[c]) < outboundBuffer
           /\ outbound' = [outbound EXCEPT ![c] = Append(@, frame)]
           /\ UNCHANGED quit
  BY <1>2
<1>3. CASE closeNow(c) /\ UNCHANGED outbound
  BY <1>3 DEF closeNow
<1> QED
  BY <1>1, <1>2, <1>3 DEF send

(* A frame is queued for whom it is sent to, and is then the last.         *)
LEMMA SentTo ==
  ASSUME FramesOK, NEW c \in Conn, NEW frame \in Frames, send(c, frame),
         NEW d \in Conn, Len(outbound'[d]) > Len(outbound[d])
  PROVE  d = c /\ Last(outbound'[d]) = frame
<1>1. outbound' = [outbound EXCEPT ![c] = Append(@, frame)]
  BY DEF FramesOK, send
<1>2. d = c
  BY <1>1 DEF FramesOK
<1> QED
  BY <1>1, <1>2 DEF FramesOK, Last

LEMMA Broken ==
  ASSUME FramesOK, ReadersOK, NEW c \in Conn, Break(c)
  PROVE  /\ quit' \in [Conn -> BOOLEAN]
         /\ events' \in 0..MaxEvent /\ events <= events'
  BY WebPubSubAssumption DEF FramesOK, ReadersOK, Break, closeNow, Event

(* The hub changes under the lock, when nobody has anything left to send.  *)
LEMMA LockTaken ==
  ASSUME LockOK, Unlocked, UNCHANGED publishing PROVE LockOK'
  BY DEF LockOK, Unlocked, publishing

LEMMA HubUntouched ==
  ASSUME LockOK, UNCHANGED <<hub, publishing>> PROVE LockOK'
  BY DEF LockOK, hub, publishing, Audience

(* What a message and an acknowledgement are.                              *)
LEMMA Made ==
  /\ \A p \in Publisher, n \in Nat, to \in Targets :
       /\ Message(p, n, to) \in Messages
       /\ Message(p, n, to).by = p /\ Message(p, n, to).n = n /\ Message(p, n, to).to = to
  /\ \A n \in Nat, success \in BOOLEAN :
       Ack(n, success) \in Frames /\ Ack(n, success).type = "ack" /\ Ack(n, success).n = n
  BY DEF Message, Messages, Frames, Ack

LEMMA SomeMessage == \A m \in Messages : m # None
  BY WebPubSubAssumption DEF Frames

LEMMA MessageSent ==
  ASSUME LockOK, HubOK, NEW p \in Publisher, NEW n \in Nat, NEW to \in Targets,
         Publish(p, Message(p, n, to)), UNCHANGED <<hub, due>>
  PROVE  LockOK'
<1> DEFINE m == Message(p, n, to)
<1>1. m \in Messages /\ m # None /\ m.to = to
  BY Made, SomeMessage
<1>2. Audience(to) \subseteq Conn
  BY AudienceIsThere DEF HubOK
<1>3. \A t : Audience(t)' = Audience(t)
  BY DEF Audience, hub
<1>4. /\ delivering' = [delivering EXCEPT ![p] = m]
      /\ left' = [left EXCEPT ![p] = Audience(to)]
  BY <1>1 DEF Publish
<1> HIDE DEF m
<1>5. /\ delivering' \in [Publisher -> Messages \cup {None}]
      /\ left' \in [Publisher -> SUBSET Conn]
  BY <1>1, <1>2, <1>4 DEF LockOK
<1>6. ASSUME NEW r \in Publisher, left'[r] # {}
      PROVE  delivering'[r] # None /\ left'[r] \subseteq Audience(delivering[r].to)'
  <2>1. CASE r = p
    BY <1>1, <1>3, <1>4, <2>1 DEF LockOK
  <2>2. CASE r # p
    BY <1>3, <1>4, <1>6, <2>2 DEF LockOK
  <2> QED
    BY <2>1, <2>2
<1> QED
  BY <1>5, <1>6 DEF LockOK

LEMMA AllSent ==
  ASSUME LockOK, NEW p \in Publisher, Published(p), UNCHANGED hub PROVE LockOK'
<1>1. due' \in [Conn -> SUBSET Messages]
  BY DEF LockOK, Published
<1>2. \A t : Audience(t)' = Audience(t)
  BY DEF Audience, hub
<1> QED
  BY <1>1, <1>2 DEF LockOK, Published

(* A member is in the hub when it joins by itself.                         *)
LEMMA Joined ==
  ASSUME HubOK, NEW g \in Group, NEW c \in conns, join(g, c), UNCHANGED ghosts
  PROVE  groups' \in [Group -> SUBSET Conn] /\ NoGhost'
  BY DEF HubOK, NoGhost, join

LEMMA Left ==
  ASSUME HubOK, NEW g \in Group, NEW c \in Conn, leave(g, c), UNCHANGED ghosts
  PROVE  groups' \in [Group -> SUBSET Conn] /\ NoGhost'
  BY DEF HubOK, NoGhost, leave

(* A reader goes from one place in which it is in the hub to another.      *)
LEMMA Moved ==
  ASSUME HubOK, ReadersOK, NEW c \in conns, NEW place \in Places \ {"none", "add", "end"},
         GoTo(c, place), UNCHANGED conns,
         groups' \in [Group -> SUBSET Conn], NoGhost'
  PROVE  HubOK'
  BY DEF HubOK, ReadersOK, GoTo

LEMMA Stayed ==
  ASSUME HubOK, ReadersOK, NEW c \in conns, NEW place \in Places \ {"none", "add", "end"},
         GoTo(c, place), UNCHANGED <<hub, ghosts>>
  PROVE  HubOK'
  BY Moved DEF hub, HubOK, NoGhost

-----------------------------------------------------------------------------
(* The reading goroutine.                                                  *)

LEMMA ServeClientInv ==
  ASSUME Inv, NEW c \in Conn, NEW gs \in SUBSET Group, serveClient(c, gs) PROVE Inv'
<1> USE DEF Inv, serveClient
<1>1. FramesOK'
  BY DEF FramesOK
<1>2. ReadersOK'
  BY DEF ReadersOK, GoTo, Places
<1>3. HubOK'
  BY DEF HubOK, ReadersOK, NoGhost, GoTo, hub
<1>4. LockOK'
  BY HubUntouched
<1> QED
  BY <1>1, <1>2, <1>3, <1>4

LEMMA EnterInv == ASSUME Inv, NEW c \in Conn, enter(c) PROVE Inv'
<1> USE DEF Inv, enter
<1>1. FramesOK'
  BY DEF FramesOK, sockets
<1>2. ReadersOK'
  BY DEF ReadersOK, GoTo, Places
<1>3. HubOK'
  BY DEF HubOK, ReadersOK, NoGhost, GoTo, add
<1>4. LockOK'
  BY LockTaken DEF add
<1> QED
  BY <1>1, <1>2, <1>3, <1>4

LEMMA GreetInv == ASSUME Inv, NEW c \in Conn, greet(c) PROVE Inv'
<1> USE DEF Inv, greet
<1>1. FramesOK'
  BY Sent DEF Frames
<1>2. PICK place \in {"read", "join"} : GoTo(c, place)
  OBVIOUS
<1>3. ReadersOK'
  BY <1>2 DEF ReadersOK, GoTo, Places
<1>4. HubOK'
  BY <1>2, Stayed DEF HubOK, Places
<1>5. LockOK'
  BY HubUntouched
<1> QED
  BY <1>1, <1>3, <1>4, <1>5

LEMMA JoinInitialInv == ASSUME Inv, NEW c \in Conn, joinInitial(c) PROVE Inv'
<1> USE DEF Inv, joinInitial
<1>1. FramesOK'
  BY DEF FramesOK, sockets
<1>2. PICK place \in {"read", "join"} : GoTo(c, place)
  OBVIOUS
<1>3. PICK g \in initial[c] : join(g, c) /\ initial' = [initial EXCEPT ![c] = @ \ {g}]
  OBVIOUS
<1>4. g \in Group /\ c \in conns
  BY DEF ReadersOK, HubOK
<1>5. ReadersOK'
  BY <1>2, <1>3 DEF ReadersOK, GoTo, Places
<1>6. HubOK'
  BY <1>2, <1>3, <1>4, Joined, Moved DEF join, Places
<1>7. LockOK'
  BY <1>3, LockTaken DEF join
<1> QED
  BY <1>1, <1>5, <1>6, <1>7

LEMMA ReadMessageInv == ASSUME Inv, NEW c \in Conn, ReadMessage(c) PROVE Inv'
<1> USE DEF Inv, ReadMessage
<1>1. FramesOK'
  BY DEF FramesOK, sockets
<1>2. PICK r \in Requests : request' = [request EXCEPT ![c] = r]
  BY WebPubSubAssumption
<1>3. events' = events + 1 /\ events' \in 0..MaxEvent
  BY WebPubSubAssumption DEF Event, ReadersOK
<1>4. ReadersOK'
  BY <1>2, <1>3 DEF ReadersOK, GoTo, Places
<1>5. HubOK'
  BY Stayed DEF HubOK, Places
<1>6. LockOK'
  BY HubUntouched
<1> QED
  BY <1>1, <1>4, <1>5, <1>6

LEMMA ReadErrorInv == ASSUME Inv, NEW c \in Conn, ReadError(c) PROVE Inv'
<1> USE DEF Inv, ReadError
<1>1. FramesOK'
  BY Broken DEF FramesOK
<1>2. ReadersOK'
  BY Broken DEF ReadersOK, GoTo, Places
<1>3. HubOK'
  BY Stayed DEF HubOK, Places
<1>4. LockOK'
  BY HubUntouched
<1> QED
  BY <1>1, <1>2, <1>3, <1>4

LEMMA RequestGroups ==
  ASSUME NEW r \in Requests, r.type \in {"joinGroup", "leaveGroup", "sendToGroup"}
  PROVE  r.group \in Group
  BY DEF Requests

LEMMA HandleInv == ASSUME Inv, NEW c \in Conn, handle(c) PROVE Inv'
<1> DEFINE r == request[c]
<1> USE DEF Inv
<1>0. /\ reader[c] = "handle" /\ c \in conns /\ r \in Requests
      /\ UNCHANGED <<initial, request, requests, sockets, events, ghosts>>
  BY DEF handle, HubOK, ReadersOK
<1>1. FramesOK'
  BY <1>0 DEF FramesOK, sockets
<1>2. ASSUME NEW place \in {"ack", "publish"}, GoTo(c, place) PROVE ReadersOK'
  BY <1>0, <1>2 DEF ReadersOK, GoTo, Places
<1>3. CASE r.type = "joinGroup"
  <2>1. r.group \in Group /\ join(r.group, c) /\ GoTo(c, "ack") /\ UNCHANGED publishing
    BY <1>0, <1>3, RequestGroups DEF handle
  <2>2. HubOK'
    BY <1>0, <2>1, Joined, Moved DEF join, Places
  <2>3. LockOK'
    BY <2>1, LockTaken DEF join
  <2> QED
    BY <1>1, <1>2, <2>1, <2>2, <2>3
<1>4. CASE r.type = "leaveGroup"
  <2>1. r.group \in Group /\ leave(r.group, c) /\ GoTo(c, "ack") /\ UNCHANGED publishing
    BY <1>0, <1>4, RequestGroups DEF handle
  <2>2. HubOK'
    BY <1>0, <2>1, Left, Moved DEF leave, Places
  <2>3. LockOK'
    BY <2>1, LockTaken DEF leave
  <2> QED
    BY <1>1, <1>2, <2>1, <2>2, <2>3
<1>5. CASE r.type = "sendToGroup"
  <2>1. /\ r.group \in Group /\ Publish(c, Message(c, requests[c], ToGroup(r.group)))
        /\ GoTo(c, "publish") /\ UNCHANGED <<due, hub>>
    BY <1>0, <1>5, RequestGroups DEF handle
  <2>2. HubOK'
    BY <1>0, <2>1, Stayed DEF Places
  <2>3. c \in Publisher /\ requests[c] \in Nat /\ ToGroup(r.group) \in Targets
    BY <2>1 DEF Publisher, ReadersOK, Targets
  <2>4. LockOK'
    BY <2>1, <2>3, MessageSent
  <2> QED
    BY <1>1, <1>2, <2>1, <2>2, <2>4
<1>6. CASE r.type \notin {"joinGroup", "leaveGroup", "sendToGroup"}
  <2>1. GoTo(c, "ack") /\ UNCHANGED <<hub, publishing>>
    BY <1>0, <1>6 DEF handle
  <2>2. HubOK'
    BY <1>0, <2>1, Stayed DEF Places
  <2>3. LockOK'
    BY <2>1, HubUntouched
  <2> QED
    BY <1>1, <1>2, <2>1, <2>2, <2>3
<1> QED
  BY <1>3, <1>4, <1>5, <1>6

LEMMA HandlePublishedInv == ASSUME Inv, NEW c \in Conn, handlePublished(c) PROVE Inv'
<1> USE DEF Inv, handlePublished
<1>1. FramesOK'
  BY DEF FramesOK, sockets
<1>2. ReadersOK'
  BY DEF ReadersOK, GoTo, Places
<1>3. HubOK'
  BY Stayed DEF HubOK, Places
<1>4. LockOK'
  BY AllSent DEF Publisher
<1> QED
  BY <1>1, <1>2, <1>3, <1>4

LEMMA AckInv == ASSUME Inv, NEW c \in Conn, ack(c) PROVE Inv'
<1> USE DEF Inv, ack
<1>1. FramesOK'
  <2>1. CASE request[c].ack
    BY <2>1, Sent DEF Frames, Ack, ReadersOK
  <2>2. CASE ~request[c].ack
    BY <2>2 DEF FramesOK
  <2> QED
    BY <2>1, <2>2
<1>2. ReadersOK'
  BY DEF ReadersOK, GoTo, Places
<1>3. HubOK'
  BY Stayed DEF HubOK, Places
<1>4. LockOK'
  BY HubUntouched
<1> QED
  BY <1>1, <1>2, <1>3, <1>4

LEMMA ExitInv == ASSUME Inv, NEW c \in Conn, exit(c) PROVE Inv'
<1> USE DEF Inv, exit
<1>1. FramesOK'
  BY DEF FramesOK, sockets
<1>2. ReadersOK'
  BY DEF ReadersOK, GoTo, Places
<1>3. HubOK'
  BY DEF HubOK, ReadersOK, NoGhost, GoTo, remove
<1>4. LockOK'
  BY LockTaken DEF remove
<1> QED
  BY <1>1, <1>2, <1>3, <1>4

-----------------------------------------------------------------------------
(* The writing goroutine, the REST calls, and deliveries.                  *)

LEMMA HubAlone ==
  ASSUME HubOK, UNCHANGED <<hub, reader, ghosts>> PROVE HubOK'
  BY DEF HubOK, NoGhost, hub

LEMMA TakeFrameInv == ASSUME Inv, NEW c \in Conn, takeFrame(c) PROVE Inv'
<1> USE DEF Inv, takeFrame
<1>1. FramesOK'
  <2>1. CASE writer' = [writer EXCEPT ![c] = "end"] /\ UNCHANGED <<outbound, writing>>
    BY <2>1 DEF FramesOK
  <2>2. CASE /\ outbound[c] # <<>>
             /\ writer' = [writer EXCEPT ![c] = "write"]
             /\ writing' = [writing EXCEPT ![c] = Head(outbound[c])]
             /\ outbound' = [outbound EXCEPT ![c] = Tail(@)]
    <3>1. /\ outbound[c] \in Seq(Frames) /\ Head(outbound[c]) \in Frames
          /\ Tail(outbound[c]) \in Seq(Frames)
          /\ Len(Tail(outbound[c])) = Len(outbound[c]) - 1 /\ Len(outbound[c]) \in Nat
      BY <2>2 DEF FramesOK
    <3>2. /\ outbound' \in [Conn -> Seq(Frames)]
          /\ writing' \in [Conn -> Frames \cup {None}]
          /\ writer' \in [Conn -> {"none", "wait", "write", "end"}]
          /\ \A d \in Conn : writer'[d] = "write" => writing'[d] \in Frames
      BY <2>2, <3>1 DEF FramesOK
    <3>3. ASSUME NEW d \in Conn PROVE Len(outbound'[d]) <= outboundBuffer
      <4>1. CASE d = c
        <5>1. outbound'[d] = Tail(outbound[c])
          BY <2>2, <4>1 DEF FramesOK
        <5>2. outboundBuffer \in Nat /\ Len(outbound[c]) <= outboundBuffer
          BY WebPubSubAssumption DEF FramesOK
        <5> QED
          BY <3>1, <5>1, <5>2
      <4>2. CASE d # c
        BY <2>2, <4>2 DEF FramesOK
      <4> QED
        BY <4>1, <4>2
    <3> QED
      BY <3>2, <3>3 DEF FramesOK
  <2> QED
    BY <2>1, <2>2
<1>2. ReadersOK'
  BY DEF ReadersOK, readers
<1>3. HubOK'
  BY HubAlone DEF readers
<1>4. LockOK'
  BY HubUntouched
<1> QED
  BY <1>1, <1>2, <1>3, <1>4

LEMMA WriteFrameInv == ASSUME Inv, NEW c \in Conn, writeFrame(c) PROVE Inv'
<1> USE DEF Inv
<1>0. /\ writer[c] = "write" /\ writing' = [writing EXCEPT ![c] = None]
      /\ UNCHANGED <<outbound, hub, readers, publishing, ghosts>>
  BY DEF writeFrame
<1>1. CASE /\ written' = [written EXCEPT ![c] = Append(@, writing[c])]
           /\ writer' = [writer EXCEPT ![c] = "wait"]
           /\ UNCHANGED <<quit, events>>
  <2>1. FramesOK'
    BY <1>0, <1>1 DEF FramesOK
  <2>2. ReadersOK'
    BY <1>0, <1>1 DEF ReadersOK, readers
  <2> QED
    BY <1>0, <2>1, <2>2, HubAlone, HubUntouched DEF readers
<1>2. CASE Break(c) /\ writer' = [writer EXCEPT ![c] = "end"] /\ UNCHANGED written
  <2>1. FramesOK'
    BY <1>0, <1>2, Broken DEF FramesOK
  <2>2. ReadersOK'
    BY <1>0, <1>2, Broken DEF ReadersOK, readers
  <2> QED
    BY <1>0, <2>1, <2>2, HubAlone, HubUntouched DEF readers
<1> QED
  BY <1>1, <1>2 DEF writeFrame

LEMMA ServeRESTInv == ASSUME Inv, NEW c \in Conn, serveREST(c) PROVE Inv'
<1> USE DEF Inv
<1>0. UNCHANGED <<readers, publishing>>
  BY DEF serveREST
<1>1. ASSUME Event, NEW g \in Group, UNCHANGED sockets,
             \/ join(g, c) /\ ghosts' = IF c \in conns THEN ghosts ELSE ghosts \cup {<<g, c>>}
             \/ leave(g, c) /\ UNCHANGED ghosts
      PROVE  Inv'
  <2>1. FramesOK'
    BY <1>1 DEF FramesOK, sockets
  <2>2. ReadersOK'
    BY <1>0, <1>1, WebPubSubAssumption DEF ReadersOK, readers, Event
  <2>3. HubOK'
    BY <1>0, <1>1 DEF HubOK, NoGhost, join, leave, readers
  <2>4. LockOK'
    BY <1>0, <1>1, LockTaken DEF join, leave
  <2> QED
    BY <2>1, <2>2, <2>3, <2>4
<1>2. CASE Break(c) /\ UNCHANGED <<hub, outbound, writer, writing, written, ghosts>>
  <2>1. FramesOK'
    BY <1>2, Broken DEF FramesOK
  <2>2. ReadersOK'
    BY <1>0, <1>2, Broken DEF ReadersOK, readers
  <2> QED
    BY <1>0, <1>2, <2>1, <2>2, HubAlone, HubUntouched DEF readers
<1> QED
  BY <1>1, <1>2 DEF serveREST

LEMMA PublishInv ==
  ASSUME Inv, NEW p \in Call, NEW to \in Target, publish(p, to) PROVE Inv'
<1> USE DEF Inv, publish
<1>1. FramesOK'
  BY DEF FramesOK, sockets
<1>2. ReadersOK'
  BY DEF ReadersOK, readers
<1>3. HubOK'
  BY HubAlone DEF readers
<1>4. LockOK'
  BY MessageSent, WebPubSubAssumption DEF Publisher
<1> QED
  BY <1>1, <1>2, <1>3, <1>4

LEMMA PublishDoneInv == ASSUME Inv, NEW p \in Call, publishDone(p) PROVE Inv'
<1> USE DEF Inv, publishDone
<1>1. FramesOK'
  BY DEF FramesOK, sockets
<1>2. ReadersOK'
  BY DEF ReadersOK, readers
<1>3. HubOK'
  BY HubAlone DEF readers
<1>4. LockOK'
  BY AllSent DEF Publisher
<1> QED
  BY <1>1, <1>2, <1>3, <1>4

LEMMA SendEachInv == ASSUME Inv, NEW p \in Publisher, sendEach(p) PROVE Inv'
<1> USE DEF Inv
<1>0. /\ UNCHANGED <<delivering, due, before, writer, writing, written>>
      /\ UNCHANGED <<hub, readers, events, ghosts>>
  BY DEF sendEach
<1>1. PICK c \in left[p] : send(c, delivering[p]) /\ left' = [left EXCEPT ![p] = @ \ {c}]
  BY DEF sendEach
<1>2. c \in Conn /\ delivering[p] \in Frames
  BY <1>1 DEF LockOK, Frames
<1>3. FramesOK'
  BY <1>0, <1>1, <1>2, Sent
<1>4. ReadersOK'
  BY <1>0 DEF ReadersOK, readers
<1>5. HubOK'
  BY <1>0, HubAlone DEF readers
<1>6. LockOK'
  <2>1. \A t : Audience(t)' = Audience(t)
    BY <1>0 DEF Audience, hub
  <2>2. /\ due' \in [Conn -> SUBSET Messages]
        /\ delivering' \in [Publisher -> Messages \cup {None}]
        /\ left' \in [Publisher -> SUBSET Conn]
    BY <1>0, <1>1 DEF LockOK
  <2>3. ASSUME NEW r \in Publisher, left'[r] # {}
        PROVE  delivering'[r] # None /\ left'[r] \subseteq Audience(delivering[r].to)'
    <3>1. left'[r] \subseteq left[r] /\ left[r] # {}
      BY <1>1, <2>3 DEF LockOK
    <3>2. delivering[r] # None /\ left[r] \subseteq Audience(delivering[r].to)
      BY <3>1 DEF LockOK
    <3>3. Audience(delivering[r].to)' = Audience(delivering[r].to)
      BY <1>0, <2>1
    <3> QED
      BY <1>0, <3>1, <3>2, <3>3
  <2> QED
    BY <2>2, <2>3 DEF LockOK
<1> QED
  BY <1>3, <1>4, <1>5, <1>6

LEMMA StutterInv == ASSUME Inv, UNCHANGED vars PROVE Inv'
<1> USE DEF Inv, vars
<1>1. FramesOK'
  BY DEF FramesOK, sockets
<1>2. ReadersOK'
  BY DEF ReadersOK, readers
<1>3. HubOK'
  BY HubAlone DEF readers
<1>4. LockOK'
  BY HubUntouched
<1> QED
  BY <1>1, <1>2, <1>3, <1>4

LEMMA StepInv == Inv /\ [Next]_vars => Inv'
  BY ServeClientInv, EnterInv, GreetInv, JoinInitialInv, ReadMessageInv, ReadErrorInv, HandleInv,
     HandlePublishedInv, AckInv, ExitInv, TakeFrameInv, WriteFrameInv, ServeRESTInv, PublishInv,
     PublishDoneInv, SendEachInv, StutterInv
  DEF Next, Reading, Writing

LEMMA Invariance == Spec => []Inv
  BY InitInv, StepInv, PTL DEF Spec

-----------------------------------------------------------------------------
LEMMA AcceptedSeq ==
  ASSUME FramesOK, NEW c \in Conn PROVE Accepted(c) \in Seq(Frames)
<1> DEFINE w == IF writing[c] = None THEN <<>> ELSE <<writing[c]>>
<1>1. w \in Seq(Frames)
  <2>1. CASE writing[c] = None
    BY <2>1
  <2>2. CASE writing[c] # None
    BY <2>2 DEF FramesOK
  <2> QED
    BY <2>1, <2>2
<1>2. written[c] \in Seq(Frames) /\ outbound[c] \in Seq(Frames)
  BY DEF FramesOK
<1>3. Accepted(c) = written[c] \o w \o outbound[c]
  BY DEF Accepted
<1> HIDE DEF w
<1> QED
  BY <1>1, <1>2, <1>3

LEMMA AcceptedFrames ==
  ASSUME FramesOK, NEW c \in Conn PROVE ToSet(Accepted(c)) \subseteq Frames
  BY AcceptedSeq DEF ToSet

(* Queues never exceed outboundBuffer and hold frames only; a connection   *)
(* is in the hub exactly while its reader lives, a publisher holding the   *)
(* lock has only such connections left, and one that is gone is in no      *)
(* group unless a REST call has joined it when it was not there (HubSound; *)
(* send, run, broadcast, remove, join).                                    *)
THEOREM HubIsSound == Spec => []HubSound
<1>1. Inv => TypeOK
  <2> SUFFICES ASSUME Inv PROVE TypeOK
    OBVIOUS
  <2>1. \A c \in Conn : /\ Len(outbound[c]) <= outboundBuffer
                        /\ ToSet(Accepted(c)) \subseteq Frames
                        /\ due[c] \subseteq Messages
    BY AcceptedFrames DEF Inv, FramesOK, LockOK
  <2>2. requests \in [Conn -> 0..MaxEvent] /\ events \in 0..MaxEvent
    BY WebPubSubAssumption DEF Inv, ReadersOK
  <2>3. left \in [Publisher -> SUBSET conns]
    <3>1. ASSUME NEW p \in Publisher PROVE left[p] \subseteq conns
      <4>1. CASE left[p] = {}
        BY <4>1
      <4>2. CASE left[p] # {}
        <5>1. delivering[p] \in Messages /\ left[p] \subseteq Audience(delivering[p].to)
          BY <4>2 DEF Inv, LockOK
        <5>2. delivering[p].to \in Targets
          BY <5>1 DEF Messages
        <5> QED
          BY <5>1, <5>2, AudienceIsThere
      <4> QED
        BY <4>1, <4>2
    <3> QED
      BY <3>1 DEF Inv, LockOK
  <2> QED
    BY <2>1, <2>2, <2>3 DEF Inv, TypeOK, FramesOK, ReadersOK, HubOK, LockOK
<1>2. Inv => HubSound
  BY <1>1 DEF HubSound, Inv, HubOK
<1> QED
  BY Invariance, <1>2, PTL

(* The frame a reader queues for its own client is not a message.          *)
LEMMA OwnFrames ==
  /\ Connected \in Frames /\ Connected.type # "message"
  /\ \A n \in Nat, success \in BOOLEAN : /\ Ack(n, success) \in Frames
                                          /\ Ack(n, success).type # "message"
  BY DEF Frames, Connected, Ack

LEMMA QueuesGrow ==
  ASSUME Inv, [Next]_vars, NEW d \in Conn, Len(outbound'[d]) > Len(outbound[d]),
         Last(outbound'[d]).type = "message"
  PROVE  d \in Audience(Last(outbound'[d]).to)
<1>0. Len(outbound[d]) \in Nat
  BY DEF Inv, FramesOK
<1>1. ASSUME UNCHANGED outbound PROVE FALSE
  BY <1>0, <1>1
<1>2. \A c \in Conn : ~greet(c)
  BY OwnFrames, SentTo DEF greet, Inv
<1>3. ASSUME NEW c \in Conn, ack(c) PROVE FALSE
  <2>1. requests[c] \in Nat /\ (request[c].type # "unsupported") \in BOOLEAN
    BY DEF Inv, ReadersOK
  <2>2. send(c, Ack(requests[c], request[c].type # "unsupported"))
    BY <1>1, <1>3 DEF ack
  <2> QED
    BY <2>1, <2>2, OwnFrames, SentTo DEF Inv
<1>4. ASSUME NEW c \in Conn, takeFrame(c) PROVE FALSE
  <2>1. outbound[c] # <<>> /\ outbound' = [outbound EXCEPT ![c] = Tail(@)]
    BY <1>1, <1>4 DEF takeFrame
  <2>2. outbound[c] \in Seq(Frames)
    BY DEF Inv, FramesOK
  <2>3. Len(Tail(outbound[c])) = Len(outbound[c]) - 1
    BY <2>1, <2>2
  <2>4. CASE d = c
    BY <1>0, <2>1, <2>3, <2>4 DEF Inv, FramesOK
  <2>5. CASE d # c
    BY <1>0, <2>1, <2>5 DEF Inv, FramesOK
  <2> QED
    BY <2>4, <2>5
<1>5. ASSUME NEW p \in Publisher, sendEach(p) PROVE d \in Audience(Last(outbound'[d]).to)
  <2>1. PICK c \in left[p] : send(c, delivering[p])
    BY <1>5 DEF sendEach
  <2>2. /\ c \in Conn /\ delivering[p] \in Frames
        /\ c \in Audience(delivering[p].to)
    BY <2>1 DEF Inv, LockOK, Frames
  <2>3. d = c /\ Last(outbound'[d]) = delivering[p]
    BY <2>1, <2>2, SentTo DEF Inv
  <2> QED
    BY <2>2, <2>3
<1>6. /\ \A c \in Conn : /\ \A gs \in SUBSET Group : ~serveClient(c, gs)
                         /\ ~enter(c) /\ ~joinInitial(c) /\ ~handle(c) /\ ~handlePublished(c)
                         /\ ~exit(c) /\ ~ReadMessage(c) /\ ~ReadError(c)
                         /\ ~writeFrame(c) /\ ~serveREST(c)
      /\ \A p \in Call : ~publishDone(p) /\ \A to \in Target : ~publish(p, to)
      /\ ~UNCHANGED vars
  BY <1>1
  DEF serveClient, enter, joinInitial, handle, handlePublished, exit, ReadMessage, ReadError,
      writeFrame, serveREST, publishDone, publish, sockets, vars
<1> QED
  BY <1>2, <1>3, <1>4, <1>5, <1>6 DEF Next, Reading, Writing

(* A message is queued for a member of its audience at that moment, as no  *)
(* connection leaves a group while a message to it is being delivered      *)
(* (OnlyTheAudience; sendEach under the read lock, leave, remove).         *)
THEOREM OnlyMembersHear == Spec => OnlyTheAudience
<1>1. Inv /\ [Next]_vars =>
        [\A c \in Conn :
           /\ Len(outbound'[c]) > Len(outbound[c])
           /\ Last(outbound'[c]).type = "message"
           => c \in Audience(Last(outbound'[c]).to)]_vars
  BY QueuesGrow
<1> QED
  BY Invariance, <1>1, PTL DEF Spec, OnlyTheAudience

-----------------------------------------------------------------------------
(* Sequences in which every element and every later one are related.       *)

Chain(s, R) == \A i, j \in 1..Len(s) : i < j => <<s[i], s[j]>> \in R

LEMMA ElementsOf ==
  ASSUME NEW S, NEW s \in Seq(S)
  PROVE  ToSet(s) = {s[i] : i \in 1..Len(s)} /\ ToSet(s) \subseteq S
<1>1. ToSet(s) = {s[i] : i \in 1..Len(s)}
  BY LenProperties DEF ToSet
<1> QED
  BY <1>1, ElementOfSeq

LEMMA ChainKept ==
  ASSUME NEW S, NEW s \in Seq(S), NEW R, NEW T, Chain(s, R),
         \A x, y \in ToSet(s) : <<x, y>> \in R => <<x, y>> \in T
  PROVE  Chain(s, T)
<1>1. \A i \in 1..Len(s) : s[i] \in ToSet(s)
  BY ElementsOf
<1> QED
  BY <1>1 DEF Chain

LEMMA ChainAppend ==
  ASSUME NEW S, NEW s \in Seq(S), NEW e \in S, NEW R
  PROVE  /\ ToSet(Append(s, e)) = ToSet(s) \cup {e}
         /\ Append(s, e) \in Seq(S)
         /\ Chain(s, R) /\ (\A x \in ToSet(s) : <<x, e>> \in R) => Chain(Append(s, e), R)
<1> DEFINE n == Len(s)
           t == Append(s, e)
<1>1. /\ n \in Nat /\ Len(t) = n + 1 /\ t[n + 1] = e /\ t \in Seq(S)
      /\ \A i \in 1..n : t[i] = s[i]
  BY AppendProperties, LenProperties
<1>2. /\ ToSet(s) = {s[i] : i \in 1..n}
      /\ ToSet(t) = {t[i] : i \in 1..Len(t)}
      /\ Chain(s, R) <=> \A i, j \in 1..n : i < j => <<s[i], s[j]>> \in R
      /\ Chain(t, R) <=> \A i, j \in 1..Len(t) : i < j => <<t[i], t[j]>> \in R
  BY <1>1, ElementsOf DEF Chain
<1> HIDE DEF n, t
<1>3. 1..(n + 1) = 1..n \cup {n + 1}
  BY <1>1
<1>4. ToSet(t) = ToSet(s) \cup {e}
  BY <1>1, <1>2, <1>3
<1>5. ASSUME Chain(s, R), \A x \in ToSet(s) : <<x, e>> \in R PROVE Chain(t, R)
  <2>1. ASSUME NEW i \in 1..(n + 1), NEW j \in 1..(n + 1), i < j
        PROVE  <<t[i], t[j]>> \in R
    <3>1. i \in 1..n /\ s[i] \in ToSet(s) /\ t[i] = s[i]
      BY <1>1, <1>2, <2>1
    <3>2. CASE j = n + 1
      BY <1>1, <1>5, <3>1, <3>2
    <3>3. CASE j # n + 1
      BY <1>1, <1>2, <1>5, <2>1, <3>1, <3>3
    <3> QED
      BY <3>2, <3>3
  <2> QED
    BY <1>1, <1>2, <2>1
<1> QED
  BY <1>1, <1>4, <1>5 DEF t

LEMMA ChainCut ==
  ASSUME NEW S, NEW s \in Seq(S), NEW e \in S, NEW u \in Seq(S), NEW R
  PROVE  LET before_ == (s \o <<e>>) \o u
             after_ == s \o u IN
         /\ ToSet(after_) \subseteq ToSet(before_)
         /\ Chain(before_, R) => Chain(after_, R)
<1> DEFINE k == Len(s)
           n == Len(u)
           long == (s \o <<e>>) \o u
           short == s \o u
           g(i) == IF i <= k THEN i ELSE i + 1
<1>1. k \in Nat /\ n \in Nat
  BY LenProperties
<1>2. /\ s \o <<e>> \in Seq(S) /\ Len(s \o <<e>>) = k + 1
      /\ \A i \in 1..(k + 1) : (s \o <<e>>)[i] = IF i <= k THEN s[i] ELSE <<e>>[i - k]
  <2>1. <<e>> \in Seq(S) /\ Len(<<e>>) = 1
    OBVIOUS
  <2> QED
    BY <2>1, ConcatProperties
<1>3. /\ long \in Seq(S) /\ Len(long) = k + 1 + n
      /\ \A i \in 1..(k + 1 + n) :
           long[i] = IF i <= k + 1 THEN (s \o <<e>>)[i] ELSE u[i - (k + 1)]
  BY <1>2, ConcatProperties
<1>4. /\ short \in Seq(S) /\ Len(short) = k + n
      /\ \A i \in 1..(k + n) : short[i] = IF i <= k THEN s[i] ELSE u[i - k]
  BY ConcatProperties
<1>5. /\ ToSet(long) = {long[i] : i \in 1..(k + 1 + n)}
      /\ ToSet(short) = {short[i] : i \in 1..(k + n)}
      /\ Chain(long, R) <=> \A i, j \in 1..(k + 1 + n) : i < j => <<long[i], long[j]>> \in R
      /\ Chain(short, R) <=> \A i, j \in 1..(k + n) : i < j => <<short[i], short[j]>> \in R
  BY <1>3, <1>4, ElementsOf DEF Chain
<1> DEFINE se == s \o <<e>>
<1>6. /\ \A i \in 1..(k + 1) : i <= k => se[i] = s[i]
      /\ \A i \in 1..(k + 1 + n) : long[i] = IF i <= k + 1 THEN se[i] ELSE u[i - (k + 1)]
  BY <1>2, <1>3
<1> HIDE DEF k, n, long, short, se
<1>7. ASSUME NEW i \in 1..(k + n)
      PROVE  g(i) \in 1..(k + 1 + n) /\ short[i] = long[g(i)]
  <2>1. CASE i <= k
    <3>1. i \in 1..(k + 1) /\ i \in 1..(k + 1 + n) /\ i <= k + 1
      BY <1>1, <2>1
    <3> QED
      BY <1>4, <1>6, <2>1, <3>1
  <2>2. CASE ~(i <= k)
    <3>1. /\ i + 1 \in 1..(k + 1 + n) /\ ~(i + 1 <= k + 1)
          /\ (i + 1) - (k + 1) = i - k
      BY <1>1, <2>2
    <3> QED
      BY <1>4, <1>6, <2>2, <3>1
  <2> QED
    BY <2>1, <2>2
<1>8. ToSet(short) \subseteq ToSet(long)
  BY <1>5, <1>7
<1>9. ASSUME Chain(long, R) PROVE Chain(short, R)
  <2>1. ASSUME NEW i \in 1..(k + n), NEW j \in 1..(k + n), i < j
        PROVE  <<short[i], short[j]>> \in R
    <3>1. g(i) < g(j)
      BY <1>1, <2>1
    <3>2. <<long[g(i)], long[g(j)]>> \in R
      BY <1>5, <1>7, <1>9, <3>1
    <3> QED
      BY <1>7, <3>2
  <2> QED
    BY <1>5, <2>1
<1> QED
  BY <1>8, <1>9 DEF long, short

-----------------------------------------------------------------------------
(* What the queue's two ends do to the frames accepted for a client.       *)

LEMMA AcceptedSame ==
  ASSUME NEW c, outbound'[c] = outbound[c], written'[c] = written[c], writing'[c] = writing[c]
  PROVE  Accepted(c)' = Accepted(c)
  BY DEF Accepted

LEMMA AppendLater ==
  ASSUME NEW S, NEW s \in Seq(S), NEW t \in Seq(S), NEW e \in S
  PROVE  s \o Append(t, e) = Append(s \o t, e)
<1>1. <<e>> \in Seq(S) /\ s \o t \in Seq(S)
  BY ConcatProperties
<1>2. Append(t, e) = t \o <<e>> /\ Append(s \o t, e) = (s \o t) \o <<e>>
  BY <1>1, AppendIsConcat
<1> QED
  BY <1>1, <1>2, ConcatAssociative

(* send queues the frame behind all others, or the connection is closed.   *)
Received(c, frame) ==
  /\ \A d \in Conn : d # c => Accepted(d)' = Accepted(d) /\ quit'[d] = quit[d]
  /\ \/ Accepted(c)' = Append(Accepted(c), frame) /\ quit'[c] = quit[c]
     \/ Accepted(c)' = Accepted(c) /\ quit'[c]

LEMMA SendReceived ==
  ASSUME FramesOK, NEW c \in Conn, NEW frame \in Frames, send(c, frame),
         UNCHANGED <<writing, written>>
  PROVE  Received(c, frame)
<1>0. quit \in [Conn -> BOOLEAN] /\ outbound \in [Conn -> Seq(Frames)]
  BY DEF FramesOK
<1>1. CASE quit[c] /\ UNCHANGED <<outbound, quit>>
  BY <1>1, AcceptedSame DEF Received
<1>2. CASE outbound' = [outbound EXCEPT ![c] = Append(@, frame)] /\ UNCHANGED quit
  <2> DEFINE w == IF writing[c] = None THEN <<>> ELSE <<writing[c]>>
             head == written[c] \o w
  <2>1. outbound'[c] = Append(outbound[c], frame) /\ \A d \in Conn : d # c => outbound'[d] = outbound[d]
    BY <1>0, <1>2
  <2>2. w \in Seq(Frames) /\ written[c] \in Seq(Frames)
    BY DEF FramesOK
  <2>3. head \in Seq(Frames) /\ outbound[c] \in Seq(Frames)
    BY <2>2, ConcatProperties DEF FramesOK
  <2>4. Accepted(c) = head \o outbound[c] /\ Accepted(c)' = head \o Append(outbound[c], frame)
    BY <2>1 DEF Accepted
  <2> HIDE DEF head
  <2>5. Accepted(c)' = Append(Accepted(c), frame)
    BY <2>3, <2>4, AppendLater
  <2> QED
    BY <1>2, <2>1, <2>5, AcceptedSame DEF Received
<1>3. CASE closeNow(c) /\ UNCHANGED outbound
  BY <1>0, <1>3, AcceptedSame DEF Received, closeNow
<1> QED
  BY <1>1, <1>2, <1>3 DEF send

(* Taking a frame from the queue and writing it moves it along.            *)
LEMMA TakeAccepted ==
  ASSUME FramesOK, NEW c \in Conn, takeFrame(c), writing[c] = None
  PROVE  \A d \in Conn : Accepted(d)' = Accepted(d)
<1>0. /\ outbound \in [Conn -> Seq(Frames)] /\ writing \in [Conn -> Frames \cup {None}]
      /\ written[c] \in Seq(Frames) /\ UNCHANGED written
      /\ None \notin Frames
  BY WebPubSubAssumption DEF FramesOK, takeFrame
<1>1. CASE UNCHANGED <<outbound, writing>>
  BY <1>0, <1>1, AcceptedSame
<1>2. CASE /\ outbound[c] # <<>>
           /\ writing' = [writing EXCEPT ![c] = Head(outbound[c])]
           /\ outbound' = [outbound EXCEPT ![c] = Tail(@)]
  <2>1. Head(outbound[c]) \in Frames /\ Tail(outbound[c]) \in Seq(Frames)
    BY <1>0, <1>2, HeadTailProperties
  <2>2. /\ writing'[c] = Head(outbound[c]) /\ outbound'[c] = Tail(outbound[c])
        /\ \A d \in Conn : d # c => writing'[d] = writing[d] /\ outbound'[d] = outbound[d]
    BY <1>0, <1>2
  <2> DEFINE W == written[c]
             h == Head(outbound[c])
             t == Tail(outbound[c])
  <2>3. Accepted(c) = (W \o <<>>) \o outbound[c] /\ Accepted(c)' = (W \o <<h>>) \o t
    BY <1>0, <2>1, <2>2 DEF Accepted
  <2>4. W \o <<>> = W
    BY <1>0, ConcatEmptySeq
  <2>5. outbound[c] = <<h>> \o t
    BY <1>0, <1>2
  <2>6. <<h>> \in Seq(Frames)
    BY <2>1
  <2> HIDE DEF W, h, t
  <2>7. (W \o <<h>>) \o t = W \o (<<h>> \o t)
    BY <1>0, <2>1, <2>6, ConcatAssociative DEF W, t
  <2>8. Accepted(c)' = Accepted(c)
    BY <2>3, <2>4, <2>5, <2>7
  <2> QED
    BY <1>0, <2>2, <2>8, AcceptedSame
<1> QED
  BY <1>1, <1>2 DEF takeFrame

LEMMA WriteAccepted ==
  ASSUME FramesOK, NEW c \in Conn, writeFrame(c)
  PROVE  /\ \A d \in Conn : d # c => Accepted(d)' = Accepted(d) /\ quit'[d] = quit[d]
         /\ \/ Accepted(c)' = Accepted(c) /\ quit' = quit
            \/ /\ quit'[c]
               /\ ToSet(Accepted(c)') \subseteq ToSet(Accepted(c))
               /\ \A R : Chain(Accepted(c), R) => Chain(Accepted(c)', R)
<1> DEFINE W == written[c]
           f == writing[c]
           t == outbound[c]
<1>0. /\ quit \in [Conn -> BOOLEAN] /\ written \in [Conn -> Seq(Frames)]
      /\ f \in Frames /\ W \in Seq(Frames) /\ t \in Seq(Frames) /\ None \notin Frames
      /\ writing \in [Conn -> Frames \cup {None}]
      /\ writing' = [writing EXCEPT ![c] = None] /\ UNCHANGED outbound
  BY WebPubSubAssumption DEF FramesOK, writeFrame
<1>1. writing'[c] = None /\ \A d \in Conn : d # c => writing'[d] = writing[d]
  BY <1>0
<1>2. Accepted(c) = (W \o <<f>>) \o t
  BY <1>0 DEF Accepted
<1>3. CASE written' = [written EXCEPT ![c] = Append(@, writing[c])] /\ UNCHANGED quit
  <2>1. /\ written'[c] = Append(W, f)
        /\ \A d \in Conn : d # c => written'[d] = written[d]
    BY <1>0, <1>3
  <2>2. Append(W, f) \in Seq(Frames)
    BY <1>0, AppendProperties
  <2>3. Accepted(c)' = (Append(W, f) \o <<>>) \o t
    BY <1>0, <1>1, <2>1 DEF Accepted
  <2> HIDE DEF W, f, t
  <2>4. Append(W, f) \o <<>> = Append(W, f) /\ Append(W, f) = W \o <<f>>
    BY <1>0, <2>2, ConcatEmptySeq, AppendIsConcat
  <2>5. Accepted(c)' = Accepted(c)
    BY <1>2, <2>3, <2>4
  <2> QED
    BY <1>0, <1>1, <1>3, <2>1, <2>5, AcceptedSame
<1>4. CASE Break(c) /\ UNCHANGED written
  <2>1. quit'[c] /\ \A d \in Conn : d # c => quit'[d] = quit[d]
    BY <1>0, <1>4 DEF Break, closeNow
  <2>2. Accepted(c)' = (W \o <<>>) \o t
    BY <1>0, <1>1, <1>4 DEF Accepted
  <2>3. W \o <<>> = W
    BY <1>0, ConcatEmptySeq
  <2>4. \A d \in Conn : d # c => Accepted(d)' = Accepted(d)
    BY <1>0, <1>1, <1>4, AcceptedSame
  <2> HIDE DEF W, f, t
  <2>5. /\ ToSet(W \o t) \subseteq ToSet((W \o <<f>>) \o t)
        /\ \A R : Chain((W \o <<f>>) \o t, R) => Chain(W \o t, R)
    BY <1>0, ChainCut
  <2> QED
    BY <1>2, <2>1, <2>2, <2>3, <2>4, <2>5
<1> QED
  BY <1>3, <1>4 DEF writeFrame

-----------------------------------------------------------------------------
(* Why no frame is skipped, doubled or overtaken.                          *)

Early == {"none", "add", "greet"}
Busy == {"handle", "publish", "ack"}

(* One frame may be before another in the queue of c.                      *)
MayPrecede(first, second, c, earlier) ==
  /\ first # second
  /\ first.type = "message" /\ second.type = "message" => second \notin earlier[first]
  /\ first.type = "ack" /\ second.type = "ack" => first.n < second.n
  /\ first.type = "ack" /\ second.type = "message" /\ second.by = c => first.n < second.n

Fine(c, earlier) == {p \in Frames \X Frames : MayPrecede(p[1], p[2], c, earlier)}

(* A frame is in the queue of c only when it was published, its request    *)
(* has been handled, or the client been greeted.                           *)
Due(f, c) ==
  /\ f.type = "message" => f \in DOMAIN before
  /\ f.type = "ack" => f.n <= requests[c] /\ (reader[c] \in Busy => f.n < requests[c])
  /\ f.type = "connected" => reader[c] \notin Early

QueueAt(c) ==
  /\ Chain(Accepted(c), Fine(c, before))
  /\ \A f \in ToSet(Accepted(c)) : Due(f, c)

(* What was published is numbered by the requests read so far.             *)
KnownOK ==
  /\ DOMAIN before \subseteq Messages
  /\ \A c \in Conn : due[c] \subseteq DOMAIN before
  /\ \A f \in DOMAIN before : before[f] \subseteq UNION {due[c] : c \in Conn}
  /\ \A m \in DOMAIN before : m.by \in Conn =>
       m.n <= requests[m.by] /\ (reader[m.by] = "handle" => m.n < requests[m.by])

(* A publication under way: nobody has its message but whom it has been    *)
(* sent to, and they have it or are closed.                                *)
DeliveryAt(p) ==
  delivering[p] # None =>
    /\ delivering[p].by = p /\ delivering[p] \in DOMAIN before
    /\ \A c \in Conn : delivering[p] \notin due[c]
    /\ p \in Conn => reader[p] = "publish" /\ delivering[p].n = requests[p]
    /\ \A c \in left[p] : delivering[p] \notin ToSet(Accepted(c))
    /\ \A c \in Audience(delivering[p].to) \ left[p] :
         quit[c] \/ delivering[p] \in ToSet(Accepted(c))

DueAt(c) == ~quit[c] => due[c] \subseteq ToSet(Accepted(c))

(* The writing goroutine is started by the reading one.                    *)
WritersOK ==
  \A c \in Conn : /\ writer[c] # "write" => writing[c] = None
                  /\ reader[c] = "none" => writer[c] = "none"

QueuesOK ==
  /\ WritersOK
  /\ \A c \in Conn : QueueAt(c) /\ DueAt(c)
  /\ KnownOK
  /\ \A p \in Publisher : DeliveryAt(p)

-----------------------------------------------------------------------------
(* A reader only goes on: it leaves the early places for good, and is busy *)
(* with a request only after having counted it.                            *)
OnwardAt(c) ==
  /\ requests'[c] \in Nat /\ requests[c] \in Nat /\ requests[c] <= requests'[c]
  /\ reader'[c] = "none" => reader[c] = "none"
  /\ reader'[c] \in Early => reader[c] \in Early
  /\ reader'[c] \in Busy => \/ reader[c] \in Busy /\ requests'[c] = requests[c]
                            \/ requests[c] < requests'[c]
  /\ reader'[c] = "handle" => \/ reader[c] = "handle" /\ requests'[c] = requests[c]
                              \/ requests[c] < requests'[c]

StillPublishing(c) ==
  reader[c] = "publish" => reader'[c] = "publish" /\ requests'[c] = requests[c]

Onward == \A c \in Conn : OnwardAt(c)

(* The frames accepted for c stay, but for some of a closed connection.    *)
LessAt(c) ==
  /\ quit[c] => quit'[c]
  /\ ToSet(Accepted(c)') \subseteq ToSet(Accepted(c))
  /\ Chain(Accepted(c), Fine(c, before)) => Chain(Accepted(c)', Fine(c, before))
  /\ quit'[c] \/ ToSet(Accepted(c)') = ToSet(Accepted(c))

LEMMA DueKept ==
  ASSUME NEW c \in Conn, NEW f \in Frames, Due(f, c), OnwardAt(c),
         DOMAIN before \subseteq DOMAIN before'
  PROVE  Due(f, c)'
<1>1. f.type = "ack" => f.n \in Nat
  BY DEF Frames, Messages, Connected
<1>2. f.type = "message" => f \in DOMAIN before'
  BY DEF Due
<1>3. f.type = "connected" => reader'[c] \notin Early
  BY DEF Due, OnwardAt
<1>4. ASSUME f.type = "ack" PROVE f.n <= requests'[c] /\ (reader'[c] \in Busy => f.n < requests'[c])
  BY <1>1, <1>4 DEF Due, OnwardAt
<1> QED
  BY <1>2, <1>3, <1>4 DEF Due

LEMMA QueueLess ==
  ASSUME FramesOK, NEW c \in Conn, QueueAt(c), LessAt(c), OnwardAt(c), UNCHANGED before
  PROVE  QueueAt(c)'
<1>1. Accepted(c) \in Seq(Frames)
  BY AcceptedSeq
<1>2. \A f \in ToSet(Accepted(c)) : f \in Frames /\ Due(f, c)
  BY <1>1, ElementsOf DEF QueueAt
<1>3. \A f \in ToSet(Accepted(c)) : Due(f, c)'
  BY <1>2, DueKept
<1>4. Chain(Accepted(c)', Fine(c, before'))
  BY DEF QueueAt, LessAt
<1> QED
  BY <1>3, <1>4 DEF QueueAt, LessAt

(* A frame that may follow all there is can be queued.                     *)
LEMMA QueueMore ==
  ASSUME FramesOK, NEW c \in Conn, NEW frame \in Frames, QueueAt(c), Received(c, frame),
         OnwardAt(c), UNCHANGED before, Due(frame, c)',
         \A f \in ToSet(Accepted(c)) : f \in Frames => MayPrecede(f, frame, c, before)
  PROVE  QueueAt(c)'
<1>1. Accepted(c) \in Seq(Frames)
  BY AcceptedSeq
<1>2. \A f \in ToSet(Accepted(c)) : f \in Frames /\ Due(f, c)
  BY <1>1, ElementsOf DEF QueueAt
<1>3. \A f \in ToSet(Accepted(c)) : Due(f, c)'
  BY <1>2, DueKept
<1>4. CASE Accepted(c)' = Accepted(c)
  BY <1>3, <1>4 DEF QueueAt
<1>5. CASE Accepted(c)' = Append(Accepted(c), frame)
  <2>1. \A f \in ToSet(Accepted(c)) : <<f, frame>> \in Fine(c, before)
    BY <1>2 DEF Fine
  <2>2. Chain(Accepted(c), Fine(c, before))
    BY DEF QueueAt
  <2>3. /\ ToSet(Append(Accepted(c), frame)) = ToSet(Accepted(c)) \cup {frame}
        /\ Chain(Append(Accepted(c), frame), Fine(c, before))
    BY <1>1, <2>1, <2>2, ChainAppend
  <2>4. \A f \in ToSet(Accepted(c)') : Due(f, c)'
    BY <1>3, <1>5, <2>3
  <2>5. Chain(Accepted(c)', Fine(c, before'))
    BY <1>5, <2>3
  <2> QED
    BY <2>4, <2>5 DEF QueueAt
<1> QED
  BY <1>4, <1>5 DEF Received

LEMMA DueKeptLess ==
  ASSUME NEW c \in Conn, DueAt(c), LessAt(c), UNCHANGED due PROVE DueAt(c)'
  BY DEF DueAt, LessAt

LEMMA ReceivedMore ==
  ASSUME FramesOK, NEW c \in Conn, NEW frame \in Frames, Received(c, frame)
  PROVE  \A d \in Conn :
           /\ quit[d] => quit'[d]
           /\ quit'[d] \/ ToSet(Accepted(d)) \subseteq ToSet(Accepted(d)')
           /\ ToSet(Accepted(d)') \subseteq ToSet(Accepted(d)) \cup {frame}
           /\ d = c => quit'[d] \/ frame \in ToSet(Accepted(d)')
           /\ d # c => Accepted(d)' = Accepted(d)
<1>1. Accepted(c) \in Seq(Frames)
  BY AcceptedSeq
<1>2. ToSet(Append(Accepted(c), frame)) = ToSet(Accepted(c)) \cup {frame}
  BY <1>1, ChainAppend
<1> QED
  BY <1>2 DEF Received

LEMMA KnownKept ==
  ASSUME KnownOK, Onward, UNCHANGED <<due, before>> PROVE KnownOK'
<1>1. ASSUME NEW m \in DOMAIN before, m.by \in Conn
      PROVE  m.n <= requests'[m.by] /\ (reader'[m.by] = "handle" => m.n < requests'[m.by])
  <2>1. m.n \in Nat /\ OnwardAt(m.by)
    BY <1>1 DEF KnownOK, Messages, Onward
  <2> QED
    BY <1>1, <2>1 DEF KnownOK, OnwardAt
<1> QED
  BY <1>1 DEF KnownOK

LEMMA WritersKept ==
  ASSUME WritersOK, Onward, UNCHANGED <<writer, writing>> PROVE WritersOK'
  BY DEF WritersOK, Onward, OnwardAt

LEMMA SameAudience ==
  ASSUME UNCHANGED hub PROVE \A to : Audience(to)' = Audience(to)
  BY DEF Audience, hub

LEMMA DeliveryKept ==
  ASSUME NEW p \in Publisher, DeliveryAt(p), delivering[p] # None,
         UNCHANGED <<hub, delivering, left, due, before>>,
         \A c \in Conn : LessAt(c) /\ StillPublishing(c),
         left[p] \subseteq Conn, Audience(delivering[p].to) \subseteq Conn
  PROVE  DeliveryAt(p)'
<1>1. Audience(delivering[p].to)' = Audience(delivering[p].to)
  BY SameAudience
<1>2. \A c \in left[p] : delivering[p] \notin ToSet(Accepted(c)')
  BY DEF DeliveryAt, LessAt
<1>3. \A c \in Audience(delivering[p].to) \ left[p] :
        quit'[c] \/ delivering[p] \in ToSet(Accepted(c)')
  BY DEF DeliveryAt, LessAt
<1>4. p \in Conn => reader'[p] = "publish" /\ delivering[p].n = requests'[p]
  BY DEF DeliveryAt, StillPublishing
<1> QED
  BY <1>1, <1>2, <1>3, <1>4 DEF DeliveryAt

LEMMA DeliveryTargets ==
  ASSUME Inv, NEW p \in Publisher, delivering[p] # None
  PROVE  /\ left[p] \subseteq Conn /\ Audience(delivering[p].to) \subseteq Conn
         /\ delivering[p] \in Messages /\ delivering[p] \in Frames
         /\ delivering[p].type = "message"
<1>1. delivering[p] \in Messages /\ left[p] \subseteq Conn
  BY DEF Inv, LockOK
<1>2. delivering[p].to \in Targets /\ delivering[p].type = "message"
  BY <1>1 DEF Messages
<1> QED
  BY <1>1, <1>2, AudienceIsThere DEF Inv, HubOK, Frames

(* Steps that publish, queue and send nothing.                             *)
Quiet ==
  /\ \A c \in Conn : LessAt(c) /\ OnwardAt(c) /\ StillPublishing(c)
  /\ UNCHANGED publishing
  /\ UNCHANGED hub \/ Unlocked
  /\ WritersOK'

LEMMA QuietStep ==
  ASSUME Inv, QueuesOK, Quiet PROVE QueuesOK'
<1>1. \A c \in Conn : QueueAt(c)' /\ DueAt(c)'
  BY QueueLess, DueKeptLess DEF Quiet, QueuesOK, Inv, publishing
<1>2. KnownOK'
  BY KnownKept DEF Quiet, QueuesOK, Onward, publishing
<1>3. ASSUME NEW p \in Publisher PROVE DeliveryAt(p)'
  <2>0. UNCHANGED <<delivering, left, due, before>>
    BY DEF Quiet, publishing
  <2>1. CASE delivering[p] = None
    BY <2>0, <2>1 DEF DeliveryAt
  <2>2. CASE delivering[p] # None
    <3>1. UNCHANGED hub
      BY <2>2 DEF Quiet, Unlocked
    <3> QED
      BY <2>0, <2>2, <3>1, DeliveryKept, DeliveryTargets DEF Quiet, QueuesOK
  <2> QED
    BY <2>1, <2>2
<1> QED
  BY <1>1, <1>2, <1>3 DEF QueuesOK, Quiet

-----------------------------------------------------------------------------
(* A client is greeted, its request acknowledged, a message sent to it.    *)

LEMMA FrameTypes ==
  ASSUME NEW f \in Frames
  PROVE  /\ f.type \in {"message", "connected", "ack"}
         /\ f.type = "message" => f \in Messages
         /\ f.type = "ack" => f.n \in Nat
  BY DEF Frames, Messages, Connected

LEMMA Alone ==
  ASSUME Inv, QueuesOK, NEW c \in Conn, NEW frame \in Frames, frame.type # "message",
         Received(c, frame), Onward, \A d \in Conn : StillPublishing(d),
         UNCHANGED <<hub, publishing, writer, writing>>, Due(frame, c)',
         \A f \in ToSet(Accepted(c)) : f \in Frames => MayPrecede(f, frame, c, before)
  PROVE  QueuesOK'
<1>0. UNCHANGED <<delivering, left, due, before>> /\ FramesOK /\ UNCHANGED hub
  BY DEF publishing, Inv
<1>1. \A d \in Conn :
        /\ quit[d] => quit'[d]
        /\ quit'[d] \/ ToSet(Accepted(d)) \subseteq ToSet(Accepted(d)')
        /\ ToSet(Accepted(d)') \subseteq ToSet(Accepted(d)) \cup {frame}
        /\ d # c => Accepted(d)' = Accepted(d)
  BY <1>0, ReceivedMore
<1>2. ASSUME NEW d \in Conn PROVE QueueAt(d)'
  <2>1. CASE d = c
    BY <1>0, <2>1, QueueMore DEF QueuesOK, Onward
  <2>2. CASE d # c
    <3>1. LessAt(d)
      BY <1>1, <2>2 DEF LessAt
    <3> QED
      BY <1>0, <3>1, QueueLess DEF QueuesOK, Onward
  <2> QED
    BY <2>1, <2>2
<1>3. \A d \in Conn : DueAt(d)'
  BY <1>0, <1>1 DEF QueuesOK, DueAt
<1>4. KnownOK'
  BY <1>0, KnownKept DEF QueuesOK
<1>5. ASSUME NEW p \in Publisher, delivering[p] # None PROVE DeliveryAt(p)'
  <2>1. /\ left[p] \subseteq Conn /\ Audience(delivering[p].to) \subseteq Conn
        /\ delivering[p] # frame
    BY <1>5, DeliveryTargets
  <2>2. DeliveryAt(p)
    BY DEF QueuesOK
  <2>6. Audience(delivering[p].to)' = Audience(delivering[p].to)
    BY <1>0, SameAudience
  <2>3. \A d \in left[p] : delivering[p] \notin ToSet(Accepted(d)')
    BY <1>1, <1>5, <2>1, <2>2 DEF DeliveryAt
  <2>4. \A d \in Audience(delivering[p].to) \ left[p] :
          quit'[d] \/ delivering[p] \in ToSet(Accepted(d)')
    BY <1>1, <1>5, <2>1, <2>2 DEF DeliveryAt
  <2>5. p \in Conn => reader'[p] = "publish" /\ delivering[p].n = requests'[p]
    BY <1>5, <2>2 DEF DeliveryAt, StillPublishing
  <2> QED
    BY <1>0, <1>5, <2>2, <2>3, <2>4, <2>5, <2>6 DEF DeliveryAt
<1>6. \A p \in Publisher : DeliveryAt(p)'
  BY <1>0, <1>5 DEF DeliveryAt
<1>7. WritersOK'
  BY WritersKept DEF QueuesOK
<1> QED
  BY <1>2, <1>3, <1>4, <1>6, <1>7 DEF QueuesOK

LEMMA ReadersOnward ==
  ASSUME UNCHANGED readers, ReadersOK
  PROVE  Onward /\ \A d \in Conn : StillPublishing(d)
  BY DEF readers, ReadersOK, Onward, OnwardAt, StillPublishing

LEMMA SendEachQueues ==
  ASSUME Inv, QueuesOK, NEW p \in Publisher, sendEach(p) PROVE QueuesOK'
<1>0. /\ UNCHANGED <<delivering, due, before, writer, writing, written, hub, readers>>
      /\ FramesOK /\ ReadersOK
  BY DEF sendEach, Inv
<1>1. PICK c \in left[p] : send(c, delivering[p]) /\ left' = [left EXCEPT ![p] = @ \ {c}]
  BY DEF sendEach
<1>2. PICK m \in Messages : m = delivering[p]
  BY <1>1 DEF Inv, LockOK
<1>3. /\ m # None /\ m \in Frames /\ m.type = "message" /\ m.n \in Nat
      /\ left[p] \subseteq Conn /\ Audience(m.to) \subseteq Conn /\ c \in Conn
  BY <1>1, <1>2, DeliveryTargets, WebPubSubAssumption DEF Messages, Frames
<1>4. /\ m.by = p /\ m \in DOMAIN before
      /\ \A d \in Conn : m \notin due[d]
      /\ p \in Conn => reader[p] = "publish" /\ m.n = requests[p]
      /\ \A d \in left[p] : m \notin ToSet(Accepted(d))
      /\ \A d \in Audience(m.to) \ left[p] : quit[d] \/ m \in ToSet(Accepted(d))
  BY <1>2, <1>3 DEF QueuesOK, DeliveryAt
<1>5. Received(c, m)
  BY <1>0, <1>1, <1>2, <1>3, SendReceived
<1>6. \A d \in Conn :
        /\ quit[d] => quit'[d]
        /\ quit'[d] \/ ToSet(Accepted(d)) \subseteq ToSet(Accepted(d)')
        /\ ToSet(Accepted(d)') \subseteq ToSet(Accepted(d)) \cup {m}
        /\ d = c => quit'[d] \/ m \in ToSet(Accepted(d)')
        /\ d # c => Accepted(d)' = Accepted(d)
  BY <1>0, <1>3, <1>5, ReceivedMore
<1>7. Onward /\ \A d \in Conn : StillPublishing(d)
  BY <1>0, ReadersOnward
<1>8. ASSUME NEW d \in Conn PROVE QueueAt(d)'
  <2>1. CASE d = c
    <3>1. ASSUME NEW f \in ToSet(Accepted(c)), f \in Frames PROVE MayPrecede(f, m, c, before)
      <4>1. f # m /\ Due(f, c)
        BY <1>1, <1>3, <1>4, <3>1 DEF QueuesOK, QueueAt
      <4>2. f.type = "message" => m \notin before[f]
        BY <1>4, <4>1 DEF Due, QueuesOK, KnownOK
      <4>3. ASSUME f.type = "ack", m.by = c PROVE f.n < m.n
        BY <1>1, <1>3, <1>4, <4>1, <4>3 DEF Due, Busy
      <4> QED
        BY <1>3, <4>1, <4>2, <4>3 DEF MayPrecede
    <3>2. Due(m, c)'
      BY <1>0, <1>3, <1>4 DEF Due
    <3> QED
      BY <1>0, <1>3, <1>5, <1>7, <2>1, <3>1, <3>2, QueueMore DEF QueuesOK, Onward
  <2>2. CASE d # c
    <3>1. LessAt(d)
      BY <1>6, <2>2 DEF LessAt
    <3> QED
      BY <1>0, <1>7, <3>1, QueueLess DEF QueuesOK, Onward
  <2> QED
    BY <2>1, <2>2
<1>9. \A d \in Conn : DueAt(d)'
  BY <1>0, <1>6 DEF QueuesOK, DueAt
<1>10. KnownOK'
  BY <1>0, <1>7, KnownKept DEF QueuesOK
<1>11. ASSUME NEW q \in Publisher, delivering[q] # None PROVE DeliveryAt(q)'
  <2>1. PICK k \in Messages : k = delivering[q]
    BY <1>11 DEF Inv, LockOK
  <2>2. /\ k # None /\ left[q] \subseteq Conn /\ Audience(k.to) \subseteq Conn
        /\ Audience(k.to)' = Audience(k.to)
    BY <1>0, <1>11, <2>1, DeliveryTargets, SameAudience
  <2>3. /\ k.by = q /\ k \in DOMAIN before
        /\ \A d \in Conn : k \notin due[d]
        /\ q \in Conn => reader[q] = "publish" /\ k.n = requests[q]
        /\ \A d \in left[q] : k \notin ToSet(Accepted(d))
        /\ \A d \in Audience(k.to) \ left[q] : quit[d] \/ k \in ToSet(Accepted(d))
    BY <1>11, <2>1 DEF QueuesOK, DeliveryAt
  <2>4. q # p => k # m
    BY <1>4, <2>3
  <2>5. left'[q] = IF q = p THEN left[q] \ {c} ELSE left[q]
    BY <1>1 DEF Inv, LockOK
  <2>6. \A d \in left'[q] : k \notin ToSet(Accepted(d)')
    BY <1>6, <2>2, <2>3, <2>4, <2>5
  <2>7. \A d \in Audience(k.to) \ left'[q] : quit'[d] \/ k \in ToSet(Accepted(d)')
    BY <1>2, <1>6, <2>1, <2>2, <2>3, <2>5
  <2> QED
    BY <1>0, <2>1, <2>2, <2>3, <2>6, <2>7 DEF DeliveryAt, readers
<1>12. \A q \in Publisher : DeliveryAt(q)'
  BY <1>0, <1>11 DEF DeliveryAt
<1>13. WritersOK'
  BY <1>0, <1>7, WritersKept DEF QueuesOK
<1> QED
  BY <1>8, <1>9, <1>10, <1>12, <1>13 DEF QueuesOK

-----------------------------------------------------------------------------
(* A publication begins and ends.                                          *)

LEMMA PublishQueues ==
  ASSUME Inv, QueuesOK, NEW p \in Publisher, NEW m \in Messages, m.by = p,
         Publish(p, m), UNCHANGED <<due, hub, sockets>>, m \notin DOMAIN before,
         Onward, \A d \in Conn : StillPublishing(d),
         p \in Conn => /\ reader'[p] = "publish"
                       /\ m.n = requests'[p]
  PROVE  QueuesOK'
<1>0. /\ UNCHANGED <<due, hub, outbound, quit, writer, writing, written>> /\ FramesOK
      /\ m # None /\ m \in Frames /\ m.to \in Targets /\ UNCHANGED hub
      /\ delivering[p] = None
  BY WebPubSubAssumption DEF sockets, Inv, Frames, Messages, Publish
<1>1. \A d \in Conn : Accepted(d)' = Accepted(d) /\ Accepted(d) \in Seq(Frames)
  BY <1>0, AcceptedSame, AcceptedSeq
<1>2. /\ DOMAIN before' = DOMAIN before \cup {m}
      /\ before'[m] = UNION {due[c] : c \in Conn}
      /\ \A f \in DOMAIN before : before'[f] = before[f]
  BY <1>0 DEF Publish
<1>3. \A d \in Conn : \A f \in ToSet(Accepted(d)) : f \in Frames /\ Due(f, d) /\ f # m
  <2>1. ASSUME NEW d \in Conn, NEW f \in ToSet(Accepted(d))
        PROVE  f \in Frames /\ Due(f, d)
    BY <1>1, <2>1, ElementsOf DEF QueuesOK, QueueAt
  <2>2. m.type = "message"
    BY DEF Messages
  <2> QED
    BY <1>0, <2>1, <2>2 DEF Due
<1>4. ASSUME NEW d \in Conn PROVE QueueAt(d)'
  <2>1. ASSUME NEW x \in ToSet(Accepted(d)), NEW y \in ToSet(Accepted(d)),
               <<x, y>> \in Fine(d, before)
        PROVE  <<x, y>> \in Fine(d, before')
    <3>1. MayPrecede(x, y, d, before) /\ x \in Frames /\ y \in Frames
      BY <2>1 DEF Fine
    <3>2. x.type = "message" => before'[x] = before[x]
      BY <1>2, <1>3 DEF Due
    <3>3. MayPrecede(x, y, d, before')
      BY <3>1, <3>2 DEF MayPrecede
    <3> QED
      BY <3>1, <3>3 DEF Fine
  <2>2. Chain(Accepted(d), Fine(d, before))
    BY DEF QueuesOK, QueueAt
  <2>3. Chain(Accepted(d), Fine(d, before'))
    BY <1>1, <2>1, <2>2, ChainKept
  <2>4. \A f \in ToSet(Accepted(d)) : Due(f, d)'
    BY <1>2, <1>3, DueKept DEF Onward
  <2> QED
    BY <1>1, <2>3, <2>4 DEF QueueAt
<1>5. \A d \in Conn : DueAt(d)'
  BY <1>0, <1>1 DEF QueuesOK, DueAt
<1>6. KnownOK'
  <2>1. DOMAIN before' \subseteq Messages /\ \A c \in Conn : due'[c] \subseteq DOMAIN before'
    BY <1>0, <1>2 DEF QueuesOK, KnownOK
  <2>2. \A f \in DOMAIN before' : before'[f] \subseteq UNION {due'[c] : c \in Conn}
    BY <1>0, <1>2 DEF QueuesOK, KnownOK
  <2>3. ASSUME NEW k \in DOMAIN before', k.by \in Conn
        PROVE  k.n <= requests'[k.by] /\ (reader'[k.by] = "handle" => k.n < requests'[k.by])
    <3>1. k.n \in Nat /\ OnwardAt(k.by)
      BY <2>1, <2>3 DEF Messages, Onward
    <3>2. CASE k = m
      BY <2>3, <3>1, <3>2
    <3>3. CASE k \in DOMAIN before
      BY <2>3, <3>1, <3>3 DEF QueuesOK, KnownOK, OnwardAt
    <3> QED
      BY <1>2, <3>2, <3>3
  <2> QED
    BY <2>1, <2>2, <2>3 DEF KnownOK
<1>7. ASSUME NEW q \in Publisher PROVE DeliveryAt(q)'
  <2>0. /\ delivering' = [delivering EXCEPT ![p] = m]
        /\ left' = [left EXCEPT ![p] = Audience(m.to)]
        /\ delivering \in [Publisher -> Messages \cup {None}]
        /\ left \in [Publisher -> SUBSET Conn]
    BY DEF Publish, Inv, LockOK
  <2>1. CASE q = p
    <3>1. delivering'[q] = m /\ left'[q] = Audience(m.to) /\ Audience(m.to)' = Audience(m.to)
      BY <1>0, <2>0, <2>1, SameAudience
    <3>2. Audience(m.to) \subseteq Conn
      BY <1>0, AudienceIsThere DEF Inv, HubOK
    <3>3. \A c \in Conn : m \notin due'[c]
      BY <1>0 DEF QueuesOK, KnownOK
    <3>4. \A c \in left'[q] : m \notin ToSet(Accepted(c)')
      BY <1>1, <1>3, <3>1, <3>2
    <3> QED
      BY <1>2, <2>1, <3>1, <3>3, <3>4 DEF DeliveryAt
  <2>2. CASE q # p /\ delivering[q] # None
    <3>1. /\ delivering'[q] = delivering[q] /\ left'[q] = left[q]
          /\ left[q] \subseteq Conn /\ Audience(delivering[q].to) \subseteq Conn
      BY <2>0, <2>2, DeliveryTargets
    <3>2. Audience(delivering[q].to)' = Audience(delivering[q].to)
      <4>1. PICK to : to = delivering[q].to
        OBVIOUS
      <4>2. to = delivering'[q].to
        BY <3>1, <4>1
      <4> QED
        BY <1>0, <4>1, <4>2, SameAudience
    <3>3. DeliveryAt(q)
      BY DEF QueuesOK
    <3>4. q \in Conn => reader'[q] = "publish" /\ delivering[q].n = requests'[q]
      BY <2>2, <3>3 DEF DeliveryAt, StillPublishing
    <3> QED
      BY <1>0, <1>1, <1>2, <2>2, <3>1, <3>2, <3>3, <3>4 DEF DeliveryAt
  <2>3. CASE q # p /\ delivering[q] = None
    BY <2>0, <2>3 DEF DeliveryAt
  <2> QED
    BY <2>1, <2>2, <2>3
<1>8. WritersOK'
  BY <1>0, WritersKept DEF QueuesOK
<1> QED
  BY <1>4, <1>5, <1>6, <1>7, <1>8 DEF QueuesOK

LEMMA PublishedQueues ==
  ASSUME Inv, QueuesOK, NEW p \in Publisher, Published(p), UNCHANGED <<hub, sockets>>,
         Onward, \A d \in Conn : d # p => StillPublishing(d)
  PROVE  QueuesOK'
<1>0. /\ UNCHANGED <<left, before, outbound, quit, writer, writing, written>> /\ FramesOK
      /\ UNCHANGED before /\ UNCHANGED hub
      /\ delivering' = [delivering EXCEPT ![p] = None]
      /\ delivering \in [Publisher -> Messages \cup {None}]
      /\ left \in [Publisher -> SUBSET Conn] /\ left[p] = {}
  BY DEF sockets, Inv, LockOK, Published
<1>1. PICK m \in Messages : m = delivering[p]
  BY DEF Inv, LockOK, Published
<1>2. /\ \A c \in Conn : due'[c] = IF c \in Audience(m.to) THEN due[c] \cup {m} ELSE due[c]
      /\ m # None
  BY <1>1 DEF Published
<1>3. /\ m.by = p /\ m \in DOMAIN before
      /\ \A c \in Audience(m.to) : quit[c] \/ m \in ToSet(Accepted(c))
  BY <1>0, <1>1, <1>2 DEF QueuesOK, DeliveryAt
<1>4. \A d \in Conn : Accepted(d)' = Accepted(d)
  BY <1>0, AcceptedSame
<1>5. ASSUME NEW d \in Conn PROVE QueueAt(d)'
  <2>1. LessAt(d)
    BY <1>0, <1>4 DEF LessAt
  <2> QED
    BY <1>0, <2>1, QueueLess DEF QueuesOK, Onward
<1>6. ASSUME NEW d \in Conn PROVE DueAt(d)'
  <2>1. DueAt(d) /\ quit'[d] = quit[d] /\ Accepted(d)' = Accepted(d)
    BY <1>0, <1>4 DEF QueuesOK
  <2>2. CASE d \in Audience(m.to)
    <3>1. due'[d] = due[d] \cup {m} /\ (quit[d] \/ m \in ToSet(Accepted(d)))
      BY <1>2, <1>3, <2>2
    <3>2. ~quit'[d] => ~quit[d]
      BY <2>1
    <3>3. ~quit'[d] => due'[d] \subseteq ToSet(Accepted(d))
      BY <2>1, <3>1, <3>2 DEF DueAt
    <3> QED
      BY <2>1, <3>3 DEF DueAt
  <2>3. CASE d \notin Audience(m.to)
    BY <1>2, <2>1, <2>3 DEF DueAt
  <2> QED
    BY <2>2, <2>3
<1>7. KnownOK'
  <2>1. /\ \A c \in Conn : due'[c] \subseteq DOMAIN before
        /\ UNION {due[c] : c \in Conn} \subseteq UNION {due'[c] : c \in Conn}
    BY <1>2, <1>3 DEF QueuesOK, KnownOK
  <2>2. \A f \in DOMAIN before : before[f] \subseteq UNION {due'[c] : c \in Conn}
    BY <2>1 DEF QueuesOK, KnownOK
  <2>3. ASSUME NEW k \in DOMAIN before, k.by \in Conn
        PROVE  k.n <= requests'[k.by] /\ (reader'[k.by] = "handle" => k.n < requests'[k.by])
    <3>1. k.n \in Nat /\ OnwardAt(k.by)
      BY <2>3 DEF QueuesOK, KnownOK, Messages, Onward
    <3> QED
      BY <2>3, <3>1 DEF QueuesOK, KnownOK, OnwardAt
  <2> QED
    BY <1>0, <2>1, <2>2, <2>3 DEF QueuesOK, KnownOK
<1>8. ASSUME NEW q \in Publisher PROVE DeliveryAt(q)'
  <2>1. CASE q = p \/ delivering[q] = None
    BY <1>0, <2>1 DEF DeliveryAt
  <2>2. CASE q # p /\ delivering[q] # None
    <3>1. PICK k \in Messages : k = delivering[q]
      BY <1>0, <2>2
    <3>2. /\ delivering'[q] = k /\ left'[q] = left[q] /\ k # None
          /\ Audience(k.to)' = Audience(k.to)
          /\ left[q] \subseteq Conn /\ Audience(k.to) \subseteq Conn
      <4>1. delivering'[q] = k /\ left'[q] = left[q] /\ k # None
        BY <1>0, <2>2, <3>1
      <4>2. Audience(k.to)' = Audience(k.to)
        BY <1>0, SameAudience
      <4> QED
        BY <2>2, <3>1, <4>1, <4>2, DeliveryTargets
    <3>3. /\ k.by = q /\ k \in DOMAIN before
          /\ \A c \in Conn : k \notin due[c]
          /\ q \in Conn => reader[q] = "publish" /\ k.n = requests[q]
          /\ \A c \in left[q] : k \notin ToSet(Accepted(c))
          /\ \A c \in Audience(k.to) \ left[q] : quit[c] \/ k \in ToSet(Accepted(c))
      BY <2>2, <3>1 DEF QueuesOK, DeliveryAt
    <3>4. \A c \in Conn : k \notin due'[c]
      <4>1. k # m
        BY <1>3, <2>2, <3>3
      <4>2. \A c \in Conn : due'[c] \subseteq due[c] \cup {m}
        BY <1>2
      <4> QED
        BY <3>3, <4>1, <4>2
    <3>5. q \in Conn => reader'[q] = "publish" /\ k.n = requests'[q]
      BY <2>2, <3>3 DEF StillPublishing
    <3>6. /\ \A c \in left'[q] : k \notin ToSet(Accepted(c)')
          /\ \A c \in Audience(k.to) \ left'[q] : quit'[c] \/ k \in ToSet(Accepted(c)')
      BY <1>0, <1>4, <3>2, <3>3
    <3> QED
      BY <1>0, <3>2, <3>3, <3>4, <3>5, <3>6 DEF DeliveryAt
  <2> QED
    BY <2>1, <2>2
<1>9. WritersOK'
  BY <1>0, WritersKept DEF QueuesOK
<1> QED
  BY <1>5, <1>6, <1>7, <1>8, <1>9 DEF QueuesOK

-----------------------------------------------------------------------------
LEMMA InitQueues == Init => QueuesOK
<1> SUFFICES ASSUME Init PROVE QueuesOK
  OBVIOUS
<1>1. ASSUME NEW c \in Conn PROVE QueueAt(c) /\ DueAt(c)
  <2>1. outbound[c] = <<>> /\ written[c] = <<>> /\ writing[c] = None /\ due[c] = {}
    BY DEF Init
  <2>2. Accepted(c) = <<>>
    BY <2>1 DEF Accepted
  <2>3. Len(<<>>) = 0 /\ ToSet(<<>>) = {}
    BY DEF ToSet
  <2> QED
    BY <2>1, <2>2, <2>3 DEF QueueAt, DueAt, Chain
<1>2. KnownOK
  BY DEF Init, KnownOK
<1>3. \A p \in Publisher : DeliveryAt(p)
  BY DEF Init, DeliveryAt
<1> QED
  BY <1>1, <1>2, <1>3 DEF QueuesOK, WritersOK, Init

-----------------------------------------------------------------------------
(* Every step is one of these.                                             *)

LEMMA SocketsSame ==
  ASSUME UNCHANGED sockets, Onward, QueuesOK
  PROVE  WritersOK' /\ \A c \in Conn : LessAt(c)
<1>1. UNCHANGED <<quit, writer, writing>> /\ \A c \in Conn : Accepted(c)' = Accepted(c)
  BY AcceptedSame DEF sockets
<1> QED
  BY <1>1, WritersKept DEF LessAt, QueuesOK

LEMMA ClosedSame ==
  ASSUME FramesOK, NEW c \in Conn, Break(c), UNCHANGED <<outbound, writer, writing, written>>,
         Onward, QueuesOK
  PROVE  WritersOK' /\ \A d \in Conn : LessAt(d)
<1>1. \A d \in Conn : Accepted(d)' = Accepted(d)
  BY AcceptedSame
<1>2. \A d \in Conn : quit[d] => quit'[d]
  BY DEF Break, closeNow, FramesOK
<1> QED
  BY <1>1, <1>2, WritersKept DEF LessAt, QueuesOK

(* A reader that goes from one place to another with the same request.     *)
LEMMA ReaderMoves ==
  ASSUME ReadersOK, NEW c \in Conn, NEW place \in Places \ {"none", "handle"}, GoTo(c, place), UNCHANGED requests,
         place \in Early => reader[c] \in Early,
         place \in Busy => reader[c] \in Busy
  PROVE  /\ Onward
         /\ \A d \in Conn : d # c => StillPublishing(d)
         /\ reader[c] # "publish" => \A d \in Conn : StillPublishing(d)
<1>0. \A d \in Conn : reader'[d] = (IF d = c THEN place ELSE reader[d]) /\ requests'[d] = requests[d]
  BY DEF ReadersOK, GoTo
<1>1. \A d \in Conn : requests[d] \in Nat
  BY DEF ReadersOK
<1> QED
  BY <1>0, <1>1 DEF Onward, OnwardAt, StillPublishing

LEMMA QuietReader ==
  ASSUME Inv, QueuesOK, NEW c \in Conn, NEW place \in Places \ {"none", "handle"}, GoTo(c, place),
         UNCHANGED <<requests, publishing>>, UNCHANGED sockets,
         UNCHANGED hub \/ Unlocked,
         place \in Early => reader[c] \in Early,
         place \in Busy => reader[c] \in Busy,
         reader[c] # "publish"
  PROVE  QueuesOK'
<1>1. Onward /\ \A d \in Conn : StillPublishing(d)
  BY ReaderMoves DEF Inv
<1>2. WritersOK' /\ \A d \in Conn : LessAt(d)
  BY <1>1, SocketsSame
<1> QED
  BY <1>1, <1>2, QuietStep DEF Quiet, Onward

LEMMA ServeClientQueues ==
  ASSUME Inv, QueuesOK, NEW c \in Conn, NEW gs \in SUBSET Group, serveClient(c, gs)
  PROVE  QueuesOK'
<1>0. /\ reader[c] = "none" /\ GoTo(c, "add") /\ writer' = [writer EXCEPT ![c] = "wait"]
      /\ UNCHANGED <<requests, outbound, quit, writing, written, hub, publishing>>
      /\ UNCHANGED hub /\ UNCHANGED publishing
  BY DEF serveClient
<1>1. Onward /\ \A d \in Conn : StillPublishing(d)
  BY <1>0, ReaderMoves DEF Inv, Places, Early, Busy
<1>2. \A d \in Conn : LessAt(d)
  BY <1>0, AcceptedSame DEF LessAt
<1>3. WritersOK'
  <2>1. writing[c] = None /\ UNCHANGED writing
    BY <1>0 DEF QueuesOK, WritersOK
  <2>2. \A d \in Conn : d # c => writer'[d] = writer[d] /\ reader'[d] = reader[d]
    BY <1>0 DEF Inv, FramesOK, ReadersOK, GoTo
  <2>3. reader'[c] = "add"
    BY <1>0 DEF Inv, ReadersOK, GoTo
  <2> QED
    BY <2>1, <2>2, <2>3 DEF QueuesOK, WritersOK
<1> QED
  BY <1>0, <1>1, <1>2, <1>3, QuietStep DEF Quiet, Onward

LEMMA EnterQueues == ASSUME Inv, QueuesOK, NEW c \in Conn, enter(c) PROVE QueuesOK'
  BY QuietReader DEF enter, add, Places, Early, Busy

LEMMA JoinInitialQueues ==
  ASSUME Inv, QueuesOK, NEW c \in Conn, joinInitial(c) PROVE QueuesOK'
<1>1. PICK place \in {"read", "join"} : GoTo(c, place)
  BY DEF joinInitial
<1>2. reader[c] = "join" /\ UNCHANGED <<requests, publishing>> /\ UNCHANGED sockets /\ Unlocked
  BY DEF joinInitial, join
<1> QED
  BY <1>1, <1>2, QuietReader DEF Places, Early, Busy

LEMMA ExitQueues == ASSUME Inv, QueuesOK, NEW c \in Conn, exit(c) PROVE QueuesOK'
  BY QuietReader DEF exit, remove, Places, Early, Busy

LEMMA ReadMessageQueues ==
  ASSUME Inv, QueuesOK, NEW c \in Conn, ReadMessage(c) PROVE QueuesOK'
<1>0. /\ reader[c] = "read" /\ GoTo(c, "handle") /\ requests' = [requests EXCEPT ![c] = @ + 1]
      /\ UNCHANGED <<hub, publishing>> /\ UNCHANGED sockets /\ UNCHANGED hub
      /\ UNCHANGED publishing /\ ReadersOK
  BY DEF ReadMessage, Inv
<1>1. \A d \in Conn : /\ reader'[d] = (IF d = c THEN "handle" ELSE reader[d])
                      /\ requests'[d] = (IF d = c THEN requests[d] + 1 ELSE requests[d])
                      /\ requests[d] \in Nat
  BY <1>0 DEF ReadersOK, GoTo
<1>2. Onward /\ \A d \in Conn : StillPublishing(d)
  BY <1>0, <1>1 DEF Onward, OnwardAt, StillPublishing, Early, Busy
<1>3. WritersOK' /\ \A d \in Conn : LessAt(d)
  BY <1>0, <1>2, SocketsSame
<1> QED
  BY <1>0, <1>2, <1>3, QuietStep DEF Quiet, Onward

LEMMA ReadErrorQueues ==
  ASSUME Inv, QueuesOK, NEW c \in Conn, ReadError(c) PROVE QueuesOK'
<1>0. /\ reader[c] = "read" /\ GoTo(c, "remove") /\ UNCHANGED requests
      /\ UNCHANGED <<outbound, writer, writing, written>> /\ Break(c)
      /\ UNCHANGED hub /\ UNCHANGED publishing
  BY DEF ReadError
<1>1. Onward /\ \A d \in Conn : StillPublishing(d)
  BY <1>0, ReaderMoves DEF Inv, Places, Early, Busy
<1>2. WritersOK' /\ \A d \in Conn : LessAt(d)
  BY <1>0, <1>1, ClosedSame DEF Inv
<1> QED
  BY <1>0, <1>1, <1>2, QuietStep DEF Quiet, Onward

LEMMA GreetQueues == ASSUME Inv, QueuesOK, NEW c \in Conn, greet(c) PROVE QueuesOK'
<1>0. /\ reader[c] = "greet" /\ send(c, Connected)
      /\ UNCHANGED <<requests, writer, writing, written, hub, publishing>>
      /\ Connected \in Frames /\ Connected.type = "connected"
  BY DEF greet, Frames, Connected
<1>1. PICK place \in {"read", "join"} : GoTo(c, place)
  BY DEF greet
<1>2. Onward /\ \A d \in Conn : StillPublishing(d)
  BY <1>0, <1>1, ReaderMoves DEF Inv, Places, Early, Busy
<1>3. Received(c, Connected)
  BY <1>0, SendReceived DEF Inv
<1>4. Due(Connected, c)'
  BY <1>0, <1>1 DEF Due, Inv, ReadersOK, GoTo, Early
<1>5. ASSUME NEW f \in ToSet(Accepted(c)) PROVE MayPrecede(f, Connected, c, before)
  <2>1. f.type # "connected"
    BY <1>0 DEF QueuesOK, QueueAt, Due, Early
  <2> QED
    BY <1>0, <2>1 DEF MayPrecede
<1> QED
  BY <1>0, <1>2, <1>3, <1>4, <1>5, Alone

LEMMA AckQueues == ASSUME Inv, QueuesOK, NEW c \in Conn, ack(c) PROVE QueuesOK'
<1>0. /\ reader[c] = "ack" /\ GoTo(c, "read")
      /\ UNCHANGED <<requests, writer, writing, written, hub, publishing>>
      /\ requests[c] \in Nat
  BY DEF ack, Inv, ReadersOK
<1>1. Onward /\ \A d \in Conn : StillPublishing(d)
  BY <1>0, ReaderMoves DEF Inv, Places, Early, Busy
<1>2. CASE request[c].ack
  <2> DEFINE answer == Ack(requests[c], request[c].type # "unsupported")
  <2>1. PICK a \in Frames : a = answer /\ a.type = "ack" /\ a.n = requests[c]
    <3>1. (request[c].type # "unsupported") \in BOOLEAN
      OBVIOUS
    <3> QED
      BY <1>0, <3>1, Made
  <2>2. send(c, a)
    BY <1>2, <2>1 DEF ack
  <2> HIDE DEF answer
  <2>3. Received(c, a)
    BY <1>0, <2>2, SendReceived DEF Inv
  <2>4. Due(a, c)'
    BY <1>0, <2>1 DEF Due, Inv, ReadersOK, GoTo, Busy
  <2>5. ASSUME NEW f \in ToSet(Accepted(c)) PROVE MayPrecede(f, a, c, before)
    <3>1. f.type = "ack" => f.n < requests[c]
      BY <1>0 DEF QueuesOK, QueueAt, Due, Busy
    <3>2. f # a
      BY <1>0, <2>1, <3>1
    <3> QED
      BY <2>1, <3>1, <3>2 DEF MayPrecede
  <2> QED
    BY <1>0, <1>1, <2>1, <2>3, <2>4, <2>5, Alone
<1>3. CASE ~request[c].ack
  <2>1. UNCHANGED sockets /\ UNCHANGED hub /\ UNCHANGED publishing
    BY <1>0, <1>3 DEF ack, sockets
  <2> QED
    BY <1>0, <2>1, QuietReader DEF Places, Early, Busy
<1> QED
  BY <1>2, <1>3

LEMMA HandleQueues == ASSUME Inv, QueuesOK, NEW c \in Conn, handle(c) PROVE QueuesOK'
<1> DEFINE r == request[c]
<1>0. /\ reader[c] = "handle" /\ r \in Requests /\ UNCHANGED requests /\ UNCHANGED sockets
  BY DEF handle, Inv, ReadersOK
<1>1. CASE r.type # "sendToGroup"
  <2>1. GoTo(c, "ack") /\ UNCHANGED publishing /\ (UNCHANGED hub \/ Unlocked)
    <3>1. CASE r.type = "joinGroup"
      BY <3>1 DEF handle, join
    <3>2. CASE r.type = "leaveGroup"
      BY <3>2 DEF handle, leave
    <3>3. CASE r.type \notin {"joinGroup", "leaveGroup", "sendToGroup"}
      BY <3>3 DEF handle
    <3> QED
      BY <1>1, <3>1, <3>2, <3>3
  <2> QED
    BY <1>0, <2>1, QuietReader DEF Places, Early, Busy
<1>2. CASE r.type = "sendToGroup"
  <2>1. /\ Publish(c, Message(c, requests[c], ToGroup(r.group)))
        /\ GoTo(c, "publish") /\ UNCHANGED <<due, hub>> /\ r.group \in Group
    BY <1>0, <1>2, RequestGroups DEF handle
  <2>2. /\ c \in Publisher /\ requests[c] \in Nat /\ ToGroup(r.group) \in Targets
        /\ ReadersOK
    BY <2>1 DEF Publisher, Inv, ReadersOK, Targets
  <2>3. PICK m \in Messages : /\ m = Message(c, requests[c], ToGroup(r.group))
                              /\ m.by = c /\ m.n = requests[c]
    BY <2>2, Made
  <2>4. m \notin DOMAIN before
    BY <1>0, <2>2, <2>3 DEF QueuesOK, KnownOK
  <2>5. Onward /\ \A d \in Conn : StillPublishing(d)
    BY <1>0, <2>1, <2>2, ReaderMoves DEF Places, Early, Busy
  <2>6. reader'[c] = "publish" /\ m.n = requests'[c]
    BY <1>0, <2>1, <2>2, <2>3 DEF GoTo, ReadersOK
  <2> QED
    BY <1>0, <2>1, <2>2, <2>3, <2>4, <2>5, <2>6, PublishQueues
<1> QED
  BY <1>1, <1>2

LEMMA HandlePublishedQueues ==
  ASSUME Inv, QueuesOK, NEW c \in Conn, handlePublished(c) PROVE QueuesOK'
<1>0. /\ reader[c] = "publish" /\ GoTo(c, "ack") /\ Published(c) /\ UNCHANGED requests
      /\ UNCHANGED <<hub, sockets>> /\ c \in Publisher
  BY DEF handlePublished, Publisher
<1>1. Onward /\ \A d \in Conn : d # c => StillPublishing(d)
  BY <1>0, ReaderMoves DEF Inv, Places, Early, Busy
<1> QED
  BY <1>0, <1>1, PublishedQueues

LEMMA TakeFrameQueues == ASSUME Inv, QueuesOK, NEW c \in Conn, takeFrame(c) PROVE QueuesOK'
<1>0. /\ writer[c] = "wait" /\ UNCHANGED quit /\ UNCHANGED readers /\ UNCHANGED publishing
      /\ UNCHANGED hub /\ ReadersOK /\ FramesOK
  BY DEF takeFrame, Inv
<1>1. Onward /\ \A d \in Conn : StillPublishing(d)
  BY <1>0, ReadersOnward
<1>2. writing[c] = None
  BY <1>0 DEF QueuesOK, WritersOK
<1>3. \A d \in Conn : LessAt(d)
  BY <1>0, <1>2, TakeAccepted DEF LessAt
<1>4. WritersOK'
  <2>1. \A d \in Conn : d # c => writer'[d] = writer[d] /\ writing'[d] = writing[d]
    BY DEF takeFrame, Inv, FramesOK
  <2>2. /\ writer'[c] = "write" \/ writing'[c] = None
        /\ reader'[c] # "none"
    BY <1>0, <1>2 DEF takeFrame, FramesOK, QueuesOK, WritersOK, readers
  <2> QED
    BY <1>0, <2>1, <2>2 DEF QueuesOK, WritersOK, readers
<1> QED
  BY <1>0, <1>1, <1>3, <1>4, QuietStep DEF Quiet, Onward

LEMMA WriteFrameQueues == ASSUME Inv, QueuesOK, NEW c \in Conn, writeFrame(c) PROVE QueuesOK'
<1>0. /\ writer[c] = "write" /\ UNCHANGED readers /\ UNCHANGED publishing
      /\ UNCHANGED hub /\ ReadersOK /\ FramesOK
      /\ writing' = [writing EXCEPT ![c] = None]
      /\ \E place \in {"wait", "end"} : writer' = [writer EXCEPT ![c] = place]
  BY DEF writeFrame, Inv
<1>1. Onward /\ \A d \in Conn : StillPublishing(d)
  BY <1>0, ReadersOnward
<1>2. \A d \in Conn : LessAt(d)
  BY <1>0, WriteAccepted DEF LessAt
<1>3. WritersOK'
  <2>1. \A d \in Conn : d # c => writer'[d] = writer[d] /\ writing'[d] = writing[d]
    BY <1>0 DEF FramesOK
  <2>2. writing'[c] = None /\ reader'[c] # "none"
    BY <1>0 DEF FramesOK, QueuesOK, WritersOK, readers
  <2> QED
    BY <1>0, <2>1, <2>2 DEF QueuesOK, WritersOK, readers
<1> QED
  BY <1>0, <1>1, <1>2, <1>3, QuietStep DEF Quiet, Onward

LEMMA ServeRESTQueues == ASSUME Inv, QueuesOK, NEW c \in Conn, serveREST(c) PROVE QueuesOK'
<1>0. UNCHANGED readers /\ UNCHANGED publishing /\ ReadersOK /\ FramesOK
  BY DEF serveREST, Inv
<1>1. Onward /\ \A d \in Conn : StillPublishing(d)
  BY <1>0, ReadersOnward
<1>2. CASE Unlocked /\ UNCHANGED sockets
  BY <1>0, <1>1, <1>2, SocketsSame, QuietStep DEF Quiet, Onward
<1>3. CASE Break(c) /\ UNCHANGED <<hub, outbound, writer, writing, written>>
  <2>1. UNCHANGED hub /\ UNCHANGED <<outbound, writer, writing, written>>
    BY <1>3
  <2>2. WritersOK' /\ \A d \in Conn : LessAt(d)
    BY <1>0, <1>1, <1>3, <2>1, ClosedSame
  <2> QED
    BY <1>0, <1>1, <2>1, <2>2, QuietStep DEF Quiet, Onward
<1> QED
  BY <1>2, <1>3 DEF serveREST, join, leave

LEMMA PublishCallQueues ==
  ASSUME Inv, QueuesOK, NEW p \in Call, NEW to \in Target, publish(p, to) PROVE QueuesOK'
<1>0. /\ UNCHANGED <<due, hub, sockets>> /\ UNCHANGED readers /\ ReadersOK
      /\ p \in Publisher /\ p \notin Conn /\ to \in Targets
  BY WebPubSubAssumption DEF publish, Publisher, Inv
<1>1. PICK m \in Messages : m = Message(p, 1, to) /\ m.by = p
  BY <1>0, 1 \in Nat, Made
<1>2. Publish(p, m) /\ m \notin DOMAIN before
  BY <1>0, <1>1 DEF publish
<1>3. Onward /\ \A d \in Conn : StillPublishing(d)
  BY <1>0, ReadersOnward
<1> QED
  BY <1>0, <1>1, <1>2, <1>3, PublishQueues

LEMMA PublishDoneQueues == ASSUME Inv, QueuesOK, NEW p \in Call, publishDone(p) PROVE QueuesOK'
<1>0. /\ UNCHANGED <<hub, sockets>> /\ UNCHANGED readers /\ ReadersOK /\ p \in Publisher
      /\ Published(p)
  BY DEF publishDone, Publisher, Inv
<1>1. Onward /\ \A d \in Conn : StillPublishing(d)
  BY <1>0, ReadersOnward
<1> QED
  BY <1>0, <1>1, PublishedQueues

LEMMA StutterQueues == ASSUME Inv, QueuesOK, UNCHANGED vars PROVE QueuesOK'
<1>0. UNCHANGED sockets /\ UNCHANGED readers /\ UNCHANGED publishing /\ UNCHANGED hub
  BY DEF vars
<1>1. Onward /\ \A d \in Conn : StillPublishing(d)
  BY <1>0, ReadersOnward DEF Inv
<1> QED
  BY <1>0, <1>1, SocketsSame, QuietStep DEF Quiet, Onward

LEMMA StepQueues == Inv /\ QueuesOK /\ [Next]_vars => QueuesOK'
  BY ServeClientQueues, EnterQueues, GreetQueues, JoinInitialQueues, ReadMessageQueues,
     ReadErrorQueues, HandleQueues, HandlePublishedQueues, AckQueues, ExitQueues,
     TakeFrameQueues, WriteFrameQueues, ServeRESTQueues, PublishCallQueues, PublishDoneQueues,
     SendEachQueues, StutterQueues
  DEF Next, Reading, Writing

LEMMA QueuesHold == Spec => []QueuesOK
  BY Invariance, InitQueues, StepQueues, PTL DEF Spec

(* What the chain of a queue says of the frames in it.                     *)
LEMMA ChainOrders ==
  ASSUME FramesOK, NEW c \in Conn, QueueAt(c)
  PROVE  \A i, j \in DOMAIN Accepted(c) : i < j =>
           MayPrecede(Accepted(c)[i], Accepted(c)[j], c, before)
<1>1. Accepted(c) \in Seq(Frames)
  BY AcceptedSeq
<1>2. DOMAIN Accepted(c) = 1..Len(Accepted(c))
  BY <1>1, LenProperties
<1> QED
  BY <1>2 DEF QueueAt, Chain, Fine

(* A message published to a connection that is there is accepted for it,   *)
(* and no frame twice, unless the connection is closed (NothingSkipped;    *)
(* send, which closes the connection when the queue is full).              *)
THEOREM NoFrameSkipped == Spec => []NothingSkipped
<1>1. Inv /\ QueuesOK => NothingSkipped
  <2> SUFFICES ASSUME Inv, QueuesOK, NEW c \in Conn
               PROVE  /\ ~quit[c] => due[c] \subseteq ToSet(Accepted(c))
                      /\ \A i, j \in DOMAIN Accepted(c) :
                           Accepted(c)[i] = Accepted(c)[j] => i = j
    BY DEF NothingSkipped
  <2>1. ~quit[c] => due[c] \subseteq ToSet(Accepted(c))
    BY DEF QueuesOK, DueAt
  <2>2. ASSUME NEW i \in DOMAIN Accepted(c), NEW j \in DOMAIN Accepted(c), i # j
        PROVE  Accepted(c)[i] # Accepted(c)[j]
    <3>1. i \in Int /\ j \in Int
      BY AcceptedSeq, LenProperties DEF Inv
    <3>2. i < j \/ j < i
      BY <2>2, <3>1
    <3> QED
      BY <3>2, ChainOrders DEF Inv, QueuesOK, MayPrecede
  <2> QED
    BY <2>1, <2>2
<1> QED
  BY Invariance, QueuesHold, <1>1, PTL

(* A client gets a message before those published after that publication   *)
(* was answered, and its own requests' messages and acknowledgements in    *)
(* order (InOrder; send from the reading goroutines and the REST calls).   *)
THEOREM FramesInOrder == Spec => []InOrder
<1>1. Inv /\ QueuesOK => InOrder
  BY ChainOrders DEF Inv, QueuesOK, InOrder, MayPrecede
<1> QED
  BY Invariance, QueuesHold, <1>1, PTL
=============================================================================
