# localaz in TLA+

A verification project for localaz, the Azure emulator in this repository
(`src/`, Go): TLA+ modules of its core, TLC runs on small instances, and
proofs checked by TLAPS.

| what | where |
|---|---|
| the Service Bus broker, its AMQP connections and delivery loops | `SBBroker`, `ServiceBus`, `MCServiceBus` |
| what broker and connections promise, abstractly | `SBRelay` |
| one sending link: credit window and multi-frame messages | `SBSender` |
| Event Grid pull delivery | `EventGrid`, `MCEventGrid` |
| crash-safe file writes | `AtomicFile` |
| Queue storage, Table storage, Key Vault, with restarts | `QueueStore`, `TableStore`, `KeyVault` |
| Blob storage, with a crash or an error at any file | `BlobStore`, `MCBlobStore` |
| lists fetched page by page | `BlobListing` |
| filters of tables, queries of logs | `TableFilter`, `LogQuery` |
| Web PubSub: a hub, its connections and REST calls | `WebPubSub`, `MCWebPubSub` |
| start and stop of the process, and its signing key | `Process` |
| the stores, the queries and the process together | `Stores`, `MCStores` |
| proofs about Event Grid | `EventGridProofs` |
| proofs about the Service Bus | `ServiceBusProofs`, `SBSenderProofs` |
| proofs about queues | `QueueProofs` |
| proofs about file writes, the other stores, lists, the signing key and the shutdown | `StoresProofs` |
| proofs about filters and log queries | `QueryProofs` |
| proofs about Web PubSub | `WebPubSubProofs` |
| proofs about Blob storage | `BlobStoreProofs` |

Run `tlc -config SBQueue.cfg MCServiceBus.tla` (each run's module is given
below) and `tlapm EventGridProofs.tla`.

## 1. Inventory

localaz is one process with one HTTP (or TLS) listener per emulated service
and a raw TCP listener for AMQP. Each service is a *server* (decodes requests)
over a *store* (holds the state). Every store guards its state with one mutex
and each exported method holds it throughout, so a store operation is atomic
in memory. What interleaves is:

* requests, one goroutine each, between store operations;
* in the AMQP server, one reader goroutine per connection and one delivery
  loop per receiving link, over the broker's, the connection's, each link's
  and the socket's mutexes;
* in Web PubSub, a reader and a writer per connection, REST calls, and the hub;
* steps on disk, with a crash between any two.

| component | state | operations | hard behaviour | what makes it correct |
|---|---|---|---|---|
| Service Bus broker (`sbstore/broker.go`) | queues, topic registrations, waiting channels | RegisterSubscription, Send, Dequeue, Requeue, WaitChan | wakeups; a message in a loop's hand | no copy lost or doubled; order; no lost wakeup |
| AMQP connections (`sbserver/conn.go`, `link.go`) | link table, per link credit, delivery count, closed; loops' position and message | attach, flow, drain, transfer, disposition, detach, end of connection; the loop | everything above interleaves; the client vanishes | credit respected; loops end; fan-out; settlement; window conserved |
| CBS node (`sbserver/cbs.go`) | none of its own | put-token request and response | delivery ids shared with loops; credit never replenished | every request answered |
| Event Grid (`egstore`, `egserver`) | backlog, subscriptions with available and locked deliveries | publish, receive, acknowledge, release, reject, renew | lazy expiry, stale and repeated tokens, late subscriptions | each event in one place; locks honoured; order of first deliveries |
| Queue storage (`queuestore`, `queueserver`) | queues of messages with visibility, expiry, pop receipt; one JSON file | queue and message operations, reload | receipts that outlive visibility; persist errors ignored; crash | a stale receipt never settles; what was answered survives |
| Blob storage (`blobstore/fsstore`, `blobserver`) | containers and blobs in memory; data, metadata and block files | put, get, blocks, lists, containers, reload | data and metadata in separate files; crash between them | what reload builds is a state some sequence of requests left |
| Table storage (`tablestore`, `tableserver`) | tables of entities with ETags; one JSON file | CRUD with If-Match, queries, filters | ETag from the clock | no lost update; filters mean what OData says |
| Key Vault (`keyvaultstore`, `kvserver`) | versions of secrets; one JSON file | set, get, update, delete, list | reload | versions never vanish but by delete |
| Resource Manager (`armstore`, `armserver`) | resource groups, resources, in memory | put, get, delete | none | a lookup finds what was put |
| Web PubSub (`wpsserver`) | hubs: connections, groups; per connection a bounded buffer | join, leave, send, broadcast, REST, close | slow consumers, dangling members | no hub stall; closed connections leave |
| Monitor logs (`monitorstore`, `monitorserver`) | tables of rows | ingest, query (KQL) | evaluation | a query means what KQL says |
| Entra tokens (`aadserver`) | a signing key file | sign, publish keys | first write of the key file, crash | a key that opens after a restart |
| start and stop (`cmd/localaz`) | listeners, readiness flag | run, shutdown | a listener that fails while others start | ready only when all listen; shutdown stops all |
| atomic file writes (`utils/atomicfile`) | a file and its temporary | Write | crash between steps | old or new content, never a mixture |

The AMQP codec, HTTP helpers, error wording, certificate generation and the
claims in tokens are data without control; section 11 says what else is not
modelled.

PROJECT.json lists every hazard found while reading, at its line, with the
property that guards it or the reason why none does yet.

## 2. Plan

1. Service Bus: broker, connections, loops, relay; the sender's window; proofs
   of type correctness, wakeups, drains, the end of links, bounded loss, order,
   fan-out, the relay, whole messages and the window. *Done.*
2. Event Grid, with its proofs. *Done.*
3. The atomic file with its proofs; the stores over it: queues, tables,
   secrets, with proofs about each. *Done.*
4. Blob storage on disk: data file, metadata file, blocks and index as separate
   states, an error or a crash at any file, reload. *Done.*
5. Web PubSub: hub, connections with bounded buffers, REST, with its proofs.
   *Done.*
6. Algorithms against reference definitions: list paging,
   `parseRange`, table filters and log queries, with proofs. *Done.*
7. Process start and stop; the Entra key file, with the proofs that one key
   signs and that the shutdown leaves nothing behind. *Done.*
8. Left: delivery ids on the wire with the CBS node, and a socket that blocks,
   in `ServiceBus`.

## 3. Service Bus

### Modules and code

`SBBroker` has one operator per exported method of `Broker`; it is passive, so
it has no next-state relation. A message is a number, given in the order in
which the broker takes messages, and addresses are model values. A channel of
`waiters` is represented by the loop that waits on it: it is open as long as
the loop is in the set.

`ServiceBus` EXTENDS it with connections and loops. One action is one critical
section or one write to the socket, in the code's order:

| action | code |
|---|---|
| `Attach`, `AttachEcho` | `onAttach` to the registration, and from the echo on; the loop starts after the echo |
| `Transfer` | `onTransfer` of a complete message |
| `Flow`, `Drain`, `DrainEcho` | `onFlow`; the drain's echo is written after the link's lock is released |
| `Disposition` | `onDisposition`, which only confirms |
| `Detach` | `onDetach` |
| `StopServing`, `NetClose` | the two deferred calls of `serve` |
| `Drop` | the client's end goes; the server notices at its next read or write |
| `LoopDequeue`, `LoopWaitChan`, `LoopWake`, `LoopQuit`, `takeCredit`, `LoopReturn`, `LoopDeliver` | `deliverLoop`, `takeCredit` and `deliver`, cut at their locks |

A loop that waits for credit is in `sleep` and leaves it only by a broadcast.
An attach names a link that was never attached (`Spot` fixes its connection
and handle), so that "the same handle again" is another link object, as in the
code. Variables below the line in `VARIABLES` are history: what clients sent
and got. `limit` and `drained` are the client's view of the last flow or drain
echo.

Abstractions: a transfer counts as delivered when it is written while the
client is connected and has not been told that the link is closed, else as
lost. The echo of a detach is part of `Detach`. A write to a client that
vanished succeeds or fails, as the kernel likes. An open link's socket always
accepts a write. Disposition confirmations change no state. Negotiation,
open, begin and end change no state either. Delivery ids are not modelled.
A flow of zero credit is left out: the code adds nothing and a sleeping loop
sleeps on. `onTransfer` does not look at a link's role; clients are taken to
transfer only on the links they attached to send on (on one that receives from
a subscription it would put messages there beside the topic). Credits are
`uint32` in the code; `MaxCredit` keeps their sums from wrapping.

`SBRelay` is the abstraction: copies of a message move from unsent to queued
(at all their addresses at once), between queued and held, and from held to
delivered or lost. `ServiceBus!RelaySpec` instantiates it with the place of
each copy as refinement mapping.

`SBSender` is one link on which the client sends, with both directions of the
connection as sequences of frames. A delivery is the chunks
`<<number, position, total>>`. The client attaches, starts a delivery when its
window allows, sends frame by frame, and may detach half-way. The server side
is `onAttach`, `onTransfer` with `appendPartial`, `takePartial`,
`recordReceived` and `grantCredit`, and `onDetach`. All counters wrap at
`Width` (2^32 in the code), so the link runs for ever in a finite model. Aborted
deliveries are left out: `onTransfer` does not know the flag.

### Runs

`MCServiceBus` fixes two receivers, one sender, two messages.

| run | instance | shows |
|---|---|---|
| `SBQueue` | two connections, one queue | `TypeOK` (no credit below zero), `ExactlyOnePlace`, `NoOrphan`, `LossIsBounded`, `InOrder`, `NoLostWakeup`, `DrainAccounted` |
| `SBTopic` | a topic with two subscriptions, whose receivers follow each other at one handle, also while it is in use | `FanOut`, `RelaySpec` |
| `SBLiveness` | two receivers side by side on one connection, fair | `NoStarvation`, `LoopsEnd` |
| `SBSender` (module `SBSender`) | window 4, replenished every 2, counters mod 6, up to 3 frames | `Verbatim`, `WindowSound` (`WindowConserved` with the type), `NeverStuck` |
| `SBPeekLock`, `SBDrainRace`, `SBCredit` | violations, see Findings | |

Bounds: two receivers are the least with competition and replacement; two
messages the least with an order to invert and with one message in hand while
another is queued; a topic's copies are two of one message. Credit is 1, so that a loop must sleep between two
deliveries; `SBCredit` has 2, the least at which a second flow adds to a first,
and the proofs any.

In `SBSender` the counters must wrap at a value that is no multiple of the
threshold's, and a window of 4 replenished at 2 keeps the code's ratio
(5000 and 2500); three frames are the least with a chunk neither first nor
last.

`CHECK_DEADLOCK FALSE` is set where clients may all be gone, every link used
once and every message sent: the system then rests.

### Fairness

Weak fairness of each delivery loop and of the reader between two frames: Go
runs every goroutine that can run, and a `sync.Mutex` is not held for ever by
any of them in the model (see the blocking socket above). No client action is
fair, so a reader may wait for a frame for ever, except that a read from a
client that is gone fails. In `SBSender` the reader, TCP and the SDK's
reading and sending of frames it started are fair; starting a delivery is not.
Loops left behind on a reused handle (`ReuseHandles`) really never end and
are excluded from the liveness run.

## 4. Event Grid

`EventGrid` models one topic; topics share only the mutex. Every method of the
store is one action. The n-th event is the number n, and the n-th token handed
out the number n: tokens are 128 random bits in the code, which the model takes
to be fresh. A delivery record exists per subscription and event, so its two
fields are functions of both. `Receive` includes the sweep of expired locks;
Go's map order is any ordering of the expired events (`Orderings`).
`Acknowledge` stands for `Reject` too: the code gives both the same body.
Requests name any tokens, repeated, stale or never handed out, and none at
all; a subscription comes to be with whatever names it first. `resolved` is
history.

| run (module `MCEventGrid`) | instance | shows |
|---|---|---|
| `EGDelivery` | two subscriptions (symmetric: they share only the backlog), 3 events, 3 tokens, batches of 2, 4 ticks | `TypeOK`, `ExactlyOnePlace`, `FreshInOrder`, `LockHonoured`, `TokenLost` |

Three tokens allow a redelivery with another event in flight; four ticks allow
an expiry, a redelivery and a second expiry with `LockDuration` 1.
`CHECK_DEADLOCK FALSE`: time, tokens and events are bounded.

## 5. Files and queues

`AtomicFile` takes `Write` step by step: open or truncate `path.tmp`, write,
sync, rename, sync the directory, and the removal of `path.tmp` after an error.
The n-th call writes the contents n; anything incomplete is `Torn`. The file
system, external to the repository, has a volatile and a durable copy of the
two directory entries and of the data; it may write any of it back early
(`WriteBack`), but not half of a rename, which file systems journal. A process
is killed (`Kill`) with the volatile copy intact; a power failure leaves the
durable one. Calls for one path do not overlap: every store calls `Write` under
its mutex.

`QueueStore` is one account; accounts share the mutex and the file only. Each
method of the store is an action that changes memory and leaves `request` set;
`persistLocked` follows with nothing between but the end of the process, and
writes the snapshot or, its error being ignored, does not. That a write is all
or nothing is what `AtomicFile` shows; `Stop` is the end of the process, not a
power failure, which could also undo a write whose directory was not synced.
`Look` stands for every request that only evicts expired messages, in memory.
The queue server's handlers say which requests there are; they check names and
bodies before they call the store, and hold no state. A client presents any id
and any receipt, stale, current or empty, so that a guess succeeds as well.
Receipts and ids, random in the code, are numbers never drawn twice. Time
passes between requests, and the readings of the clock within one request are
taken to be equal. A negative visibility timeout acts like 0, the default
TTL like any other. Texts and dequeue counts are left out. A message that
nobody dequeued has the empty receipt, so a request without one may delete it;
`Exclusive` therefore speaks of messages that were handed out.

`TableStore` and `KeyVault` have the same shape, `persistLocked` being part of
each action: a request either writes the snapshot or, its error being ignored,
does not, and a restart goes back to what was written. In `TableStore` clients
read an entity and write it later on the condition of its ETag. An ETag is the
time in seven digits; the model takes the clock to move on between two entities,
the first being synced to disk before the second is built, and not to be set
back (two versions built within 100 ns would share one). `NoLostUpdate` then
says that a conditional write meets the very entity its client was answered
with. In `KeyVault` a version is drawn anew; `VersionsSound` holds of memory and
file, `NeverBack` of the versions whose removal is on disk.

The run is `Stores`, see section 8. Three calls of `Write` let the leftover of a first meet a second while a third overtakes
it; five inodes are as many as the four entries and a new file. Two messages
let one be removed or dequeued beside another, two receipts let both
be in hand, or one be handed out again while the first receipt is still about
(`HandedToOne` is for any number), two ticks let a message expire and a visibility end. A second queue adds only the choice of where: nothing
relates two queues but the file. Two clients, one table and one key let a
condition go stale by an update, a removal, an insertion and a restart; three
entities let a stale client meet the third. Two secrets and three versions let
a name be set, removed and set anew beside another.

## 6. Blob storage

`BlobStore` is one account. Whoever changes something holds the store's lock
from its first file to its last (`busy` is that request and the file it is at),
so requests are serial, and each file is a step: it may fail, and the process
may stop before it (`Stop`; `load` is the next start). A file is replaced whole
or not at all, by `streamToFile` as by `atomicfile`; power failures are
`AtomicFile`'s subject. `settled` is history: what the requests that went
through have made of each blob, or `Unsure` where one failed or was cut off
after its first file. `PutBlob` replaces the data file before the metadata, so
such a request may leave new data under an old length and ETag; `Served` speaks
of all other blobs. `RemoveAll`, which goes on to remove what it can after an
error, may leave any of a container's files or of a blob's blocks
(`RemoveEntry`, `BlocksRemoved`). The payload is served by `getBlob`, ranges included, which
must be the bytes the range asks for, under their own length and MD5.

| run (module `MCBlobStore`) | instance | shows |
|---|---|---|
| `BlobStore` | one container, two names, one of them sent in two blocks, a body below the cap and one above | `Served`, `IndexSound` (`Gone` with the type) |
| `BlobStartsAgain` | the same | violation, see Findings |

Two names are the least of which one is broken while the other must be served;
two blocks the least with an order. Ranges reach from nothing to beyond the
payload.

`BlobListing` is a client that fetches a list page by page, of blobs (with or
without a delimiter) or containers, while others put and delete names. Names
are numbers in their order; `virtual` and `dir`, chosen at the start, say which
of them hold the delimiter and in which directory. Four names, pages of 1, 2 and
the cap (3), and two changes let a directory fall on both sides of a page's end
and names come and go before and behind the marker. The loops of `ListBlobs` and
`ListContainers` are recursive functions over the names, `Visit` and
`VisitContainer` their bodies. `NothingTwice`, `Complete` and `NoEmptyPage`
together are `Pages` of `Stores`.

## 7. Web PubSub

`WebPubSub` is one hub. Each connection has a goroutine that reads (`enter`,
`greet`, `joinInitial`, `ReadMessage`, `ReadError`, `handle`, `ack`, `exit`) and
one that writes its queue to the socket (`takeFrame`, `writeFrame`); REST calls
publish, join, leave and close beside them. A publication holds the hub's lock
for reading from the first connection to the last, one step each (`sendEach`);
what changes the hub needs the lock for writing, so it waits for them
(`Unlocked`). `RWMutex` also lets a waiting writer go before new readers; the
model has no such preference, and so more behaviours. `send` takes any case of
its select that is ready.

| run (module `MCWebPubSub`) | instance | shows |
|---|---|---|
| `WebPubSub` | two connections with a queue of one frame, one group, one publishing call, one request, change or end | `HubSound` (`NoGhost` with the type), `NothingSkipped`, `InOrder`, `OnlyTheAudience`, `PublishEnds`, `CleanedUp` |

A queue of one frame is the least that can be full; the greeting fills it. Two
connections are the least of which one is slow or gone while the other is sent
to. One event (`MaxEvent`) besides the publication is a join, a leave, a message
of a client, a REST change, or the end of a connection; with the tokens' groups
joined at the start these meet the publication in every order. That a client's
second acknowledgement follows its first, a part of `InOrder`, needs two events:
no run has it, the theorem `FramesInOrder` does, for any number.

Fairness: Go runs every goroutine that can run; a read ends in an error once
the socket is closed; a write ends by its deadline (`writeWait`). Clients need
not send, and REST calls need not come. `CHECK_DEADLOCK FALSE`: with all
requests made the hub rests.

`NoGhost` and `ghosts`: REST's join does not look whether the connection is
(still) in the hub (`hub.join`), so a membership may outlive it. Such a member
is sent nothing but makes `groupExists` true; `NoGhost` says that there are no
others. `protocol.go:11` says that a system message is also sent on disconnect;
no code does, and nothing in the model stands for it.

## 8. Queries, the process, and the run `Stores`

`TableFilter` is the recursive-descent parser of `$filter` on tokens; what the
code compiles to a function is here the set of entities accepted.
`MeansWhatItSays` compares it with `Meaning`, which splits an expression at its
last `or`, then `and`, outside of parentheses. Expressions are all sequences of
up to seven phrases (two comparisons, `and`, `or` and parentheses), groups may
nest once (`maxFilterDepth`); the theorem `FiltersAccept` is for any expression
and any depth. `parseOr` calls itself through `parseAnd` and `parsePrimary`, so
the parser is a recursive function of where it is, a position and a depth
(`At`), and each of the three is given that function for the calls it makes. The
loops of `parseOr` and `parseAnd` are one definition (`Loop`).

`LogQuery` is a log table, ingestion, and a query that works on its copy stage
after stage. `kept` and `sorts` are what the stages say, in words rather than
by what they do; `StagesMean` compares rows and their order with them. Values
that are unlike or absent count as equal (`literal.go:57-59`), so a sort by
such a column may leave comparable rows out of order; the property stops there.
Three rows and three stages let two sorts meet a filter, a cut, or a tie.

`Process` is `main`: the signing key is read, or drawn and written in place;
then `run` binds each listener (`Bind`, or `closeListeners` at the first that
fails), starts their goroutines (`Go`), waits for a signal or an error
(`Select`), shuts the servers down one by one, closes the AMQP listener, and
waits for the goroutines. A signal reaches `run` only once `main` has asked to
be told (`Cancel`); before, while the key is read or written, it ends the
process, as `Kill` does. `HealthTells` is about listeners, and about a process
of which none has failed: when the health endpoint says 200, all are bound.
`management.go:17` says "bound and serving": a goroutine `run` has started may
not have come to `Serve` yet, and its clients wait in the listener's backlog
until it does. `net/http` is modelled by what `run` needs of it:
`Serve` closes its listener when it returns and refuses when the server is
shutting down already. Requests in progress are not modelled: `Shutdown` waits
for them at most ten seconds and goes on. `Kill` is SIGKILL at any step; what
was written stays. Four listeners are the management server, two services
(one before the other in the shutdown) and AMQP; two starts are the least with
a restart.

| run (module `MCStores`) | instance | shows |
|---|---|---|
| `Stores` | three calls of `Write` over five inodes; one queue, two messages, two receipts, two ticks; two clients, one table, three entities; two secrets, three versions; four names; seven phrases; three rows; four listeners, two starts | `CrashSafe` (`Intact`, `Survives`), `NeverOlder` of `AtomicFile`; `SnapshotsSound` (`Saved`, `Kept`, `NoReturn`, `HolderKeeps`, `VersionsSound` of the three stores), `Exclusive`, `NoLostUpdate`, `NeverBack`; `Pages` (`NothingTwice`, `Complete`, `NoEmptyPage`); `FiltersMean` (`MeansWhatItSays`), `StagesMean`; `StopsWell` (`NothingLeft`, `TellsWhy`, `HealthTells`), `NeverHangs`, `OneKey`; `TypesOK` |

The services share no state, so their product would show nothing their sum does
not: a behaviour is one of a single service (`service`), with the others at
their initial states. `Stores` instantiates their modules, is what the proofs
are about, and states the properties; `MCStores` adds the values for TLC.
`CHECK_DEADLOCK FALSE`: messages, versions, pages, phrases and starts run out.

## 9. What is proved

`EventGridProofs`, from `EventGridAssumption` alone (the bounds are naturals;
`Sub` is any set), for all values of the constants: type correctness and each
of the four properties of `EGDelivery`.

* `Inv` is the inductive invariant. `ExactlyOnePlace` speaks of the
  subscriptions that exist, and the step that creates one would have nothing to
  stand on; `Partitioned` states the same of `AvailableIn(s)`, which is the
  backlog for a subscription that does not exist. `FreshTokens` says that no
  token ahead of `issued` holds an event: without it, a receive could overwrite
  a lock.
* `NumbersProperties`, `NumbersJoin`, `Concatenation`, `Splitting` and
  `OrderingsProperties` say what the sequence operators do to the elements of
  a queue; `PublishedView` and `Received` say what a publication and a receive
  do in these terms.
* `TokensAreLost` and `LocksAreHonoured` are step properties under `Inv`.
* `FreshEventsInOrder` needs `OrderInv`: the events never handed out are all
  available and in order there, and whatever returns to the queue is behind
  and has been handed out before (`StaleAtTheBack`).

`ServiceBusProofs`, from `BrokerAssumption` and `ServiceBusAssumption`, for
any connections, handles, links, addresses and messages:

* `TypeCorrect` over `TypeInv`, which adds to `TypeOK` that a loop has a
  message in hand exactly at the positions where `deliverLoop` holds one
  (`HandOK`: what it requeues or writes is a message) and that a link being
  attached has not started its loop (`AttachingOK`).
* `NoWakeupLost`: `WaitersOK` and `SleepersOK` are inductive over `TypeInv`.
* `DrainCovers`: `CountOK` counts the message whose credit is taken and whose
  transfer is not written yet; `DrainOK` says that from the drain to the next
  grant the link has no credit, hence the count in the echo stays its delivery
  count. It rests on `SpotOK`: a link is in one connection's table only, so no
  other reader can grant while this one writes the echo.
* `LinksEndWithConnection` and `LossBounded` assume `ReuseHandles = FALSE`,
  without which they are false. `LinkedOK` says that an open link is in its
  connection's table; `LossOK` that a link that lost a message is closed and
  past writing, so that it cannot lose a second one.
* `NothingTwice`: `PlacesOK` says where copies may be, with sets instead of
  numbers: no queue or socket holds a copy twice, no two of the queue, the loops'
  hands, sockets and losses of an address have one in common (`Apart`), and what
  the broker took is the union of them (`Accounted`). Only five steps move a copy (`MovingSteps`); each
  takes it from one place to another. The number `ExactlyOnePlace` counts
  follows from the two.
* `ServerRelays` is the refinement of `SBRelay`, from the same invariant: the
  five steps are the relay's `Publish` and its four kinds of `Move`, all others
  stutter.
* `OrderKept`: `OrderOK` says of an address that one loop at a time has served
  that what its sockets got, what the loop holds and what is queued are in
  order one after the other (`OrderAt`), that no other loop runs beside one that
  does nor got anything later (`AloneAt`), and that a loop that has not started
  got nothing (`FreshOK`); `Requeue` puts a message back to the front, which is
  its place.
* `TopicsFanOut` assumes that no client sends to a subscription's own address:
  there the property would be false, as the broker treats such an address as a
  queue. `RegisteredOK` says that what is registered under a topic are its
  subscriptions, those that were ever attached to among them.

`SBSenderProofs`, from `SenderAssumption`, for any width of the counters, any
window and threshold below it and any number of frames: `MessagesAreWhole` and
`WindowIsConserved`, of one inductive invariant with `Verbatim` in it.

* `Phase` says how far an attach or a detach has come and what may be in flight
  then. It is why what a detach left half-way does no harm: transfers of the
  client's sending thread behind the detach find no link, and they are all in
  front of the next attach, whose link starts empty.
* `BufferOK`, `SocketOK`, `SendingOK` and `NextOK` follow a link's chunks from
  the buffer through the socket to those not yet written: each comes after the
  one before it in its delivery, or starts one after a last (`Follows`).
  `CompletedIs` is the step to `Verbatim`.
* `Grants` is about all the flows on their way: the windows they leave the
  client grow from the one it has to the last one's, which is what
  `WindowConserved` speaks of. Beside it the client is ahead of `received` by
  what is outstanding, which a new flow gives back (`GrantIs`). `LessInc` does
  the arithmetic of counters that wrap; it needs the window to be smaller than
  the width, as 5000 is smaller than 2^32.

`WebPubSubProofs`, from `WebPubSubAssumption` (bounds are naturals; the mark for
"none" is neither a connection nor a frame), for any connections, groups,
users, calls and length of the queues: `HubIsSound`, `OnlyMembersHear`,
`NoFrameSkipped` and `FramesInOrder`. The invariant has four parts, one for each owner of state: `FramesOK` (the queues
and the writers), `ReadersOK` (the readers; a client's requests count among
the events), `HubOK` (a connection is in the hub while its reader is between
`enter` and `exit`, hence joins only while it is there) and `LockOK`. The last
is what the RWMutex is for: what a publisher has still to send, it sends to
members of the audience as it is now, since whatever changes the hub finds
nothing left to send (`LockTaken`). `OnlyMembersHear` follows from it and
`SentTo`. The last two theorems need `QueuesOK` as well: any two frames accepted
for a connection are distinct and may follow each other (`QueueAt`), a publisher
that has a connection still to send to has not sent to it (`DeliveryAt`), what
is due has been accepted (`DueAt`), and the publications known to precede a
frame are complete (`KnownOK`). A frame that is accepted goes behind all others,
so a step has to show only that each of them may precede it (`MayPrecede`).

`BlobStoreProofs`, from `BlobStoreAssumption` (bodies and block lists are
sequences, the marks for "absent" and "unsure" are no value of the store), for
any containers, names, blocks, bodies and cap: `IndexIsSound` and `BlobsServed`.
The inductive invariant `FilesOK` says, of each container and blob, what memory
and files hold given what `settled` says and which request is at which of its
files: `ContainerAt` of a container that is there or was removed, `RemovedAt` of
a blob that was removed, `WrittenAt` of one that was written, and `BusyOK` and
`UnlinkOK` of the request itself. Between the data file and the metadata file
of a blob (`Between`) memory is all that is left of the old one. Each action has
a lemma; most follow from the blobs the action leaves alone (`BlobKept`). What
`assembleBlocks` concatenates is what the client asked for (`Assembled`), by
induction over the number of blocks: the set of counts that are wrong has no
least element (`SetInduction`), which needs no operator as a parameter.
`SliceIs`, `RangeStands` and `SentIs` are about ranges: the bytes that go out
are those asked for, and no range reaches beyond the payload.

`QueueProofs`, `QueryProofs` and `StoresProofs` are about `Stores`, from
`StoresAssumption` (the bounds are naturals, a page has room for one entry and
there is a page size, there are two listeners or more, `None` is no number),
`QueueAssumption` (the mark for a queue that is not there is no queue),
`AtomicFileAssumption`, `FiltersAssumption` (phrases are sequences of tokens, the
greatest depth is a natural) and `LogsAssumption` (literals have numbers, records
have one or nothing in each column, predicates have a keyword between every two
comparisons and nowhere else, which is what the code does not refuse). A
step of `AnySpec` is a step of each service or none of its (`Steps`), so each
service has an invariant of its own, and the theorems combine them.

* Loops over a sequence or a range are recursive functions. `NatSets` is
  induction over the naturals in terms of a set; from it `Iterates` shows that a
  function defined step by step exists, and the same step by step shows what
  `evictExpired` (`Evicted`), `ListBlobs` (`BlobsReach`) and `ListContainers`
  (`ContainersPass`) come to.
* `WriteIsCrashSafe` and `DiskMovesOn`, for any inodes and number of calls:
  `FileInv` adds to the properties that `path.tmp` and `path` never share a file,
  in either copy of the directory (`Apart`), that what `path` names has been
  synced and is no older than what the disk names (`Settled`), and how far the
  contents have come at each step (`InStep`).
* `FiltersAccept`, for any expression and depth. `MeaningIs` and `ParserIs` show
  that the two recursive functions exist, by induction over the length of a
  segment and over the depth that is left. What has a meaning closes the
  parentheses it opens and no others (`Whole`), so a keyword outside of
  parentheses in a part is outside of them in the whole (`OutsideJoin`).
  `Class` are the segments with a meaning and without given keywords outside of
  parentheses: those without `or` and `and` are what `parsePrimary` is to read,
  those without `or` what `parseAnd` is, and all of them what `parseOr` is. A
  segment of one class is one of the narrower class, or one and a keyword and
  one of the narrower (`ClassSplit`, `ClassJoin`). `Reads` says of a parser at a
  depth that, wherever it starts, it stops behind a segment of its class, at
  none of the keywords it goes on at, with what the segment means (`SoundAt`);
  and that it does so whenever there is such a segment, nested no deeper than
  is left (`CompleteAt`, `Low`). `PrimaryReads` shows it from `parseOr` one
  deeper, `LoopReads` of each loop from its operand (`RoundsSound`, and
  `RoundsCome` by induction over where the segment ends), and `ParserReads`
  by induction over the depth.
* `AnswersAreMeant`, for any records, predicates and stages: `QueryOK` says that
  the rows are those copied that should be there (`FromSeen`), each once, in the
  order the sorts say (`Ordered`), as long as they say one. `PredicateSays` shows
  that the groups `parsePredicate` cuts at the keywords are the runs of
  comparisons `Says` speaks of, `Matched` what the loop of where keeps, `Sorted`
  that sorting by insertion puts the rows in order and leaves ties as they were,
  `PrecedesCons` what one sort more does to `Precedes`, and `PrecedeCount` that
  of rows in order the first are those that fewer precede, which is how a take is
  said. For more than 20 rows Go's stable sort merges blocks; where all values
  are alike, and only there does `StagesMean` speak, every stable sort comes to
  what insertion does.
* `HandedToOne` and the queues' part of `SnapshotsAgree` and `TypesHold` rest on
  `QueueInv`. `SnapshotsSound` is not inductive alone: an id must be in one place
  of one queue (`ApartIn`) and no higher than the last drawn (`Numbered`), or a
  request could remove one copy of two; the copies of a message in memory and on
  disk agree on its expiry (`SameExpiry`); and what `persistLocked` will write
  must account for the request (`Pending`: what it added is there, what it
  removed is not, what it handed out is as it was handed out). `KeptThere`,
  `GoneAway` and `HoldersHave` are the properties themselves, without the
  positions. Every request is shown to leave the queue with the messages it had,
  less those it removes, with those it adds or changes (`Moves`), and
  `ChangeKeeps` shows once that this keeps the invariant.
* `UpdatesAreNotLost` is about `Known`, the entities in memory, in `tables.json`
  and in the clients' hands: none of them is ahead of the clock (`Past`) and no
  two share a timestamp (`OneEach`), so an ETag that matches names the entity its
  client has seen, one that came back with an old snapshot included
  (`ConditionMet`). It rests on the clock moving on between two entities, which
  is how `buildEntity` is modelled.
* `DeletedStaysAway`: no version in memory or in `secrets.json` is ahead of those
  set or one whose removal is on disk (`VaultInv`). The vault's part of
  `SnapshotsAgree` is `SecretsOK`: an entry's versions, in memory and on disk,
  are those its `Order` lists, in the order they were set, each with the value it
  was set to.
* `PagesJoin`: `PageOK` says what a page holds when the loop has seen the names
  up to some number: those among them behind the marker, in order, or the page
  ends before them at a name that is left for the next one. `Reaches` and
  `Passes` add the loop's other variables, for blobs and for containers.
  `ListInv` says the same of the pages joined: what has been there throughout
  is listed up to the marker.
* `OneKeySigns`: by `KeyOK` a token is signed only when the key is on disk whole,
  and the file is written only while no token has been signed; a torn one stops
  every later start.
* `RunStops`: `Before`, `Serving` and `Served` say how far `run` has come with
  each listener and its goroutine. A goroutine that has not come to its `Serve`
  when its server is shut down leaves its listener open until it does; that it
  is `done`, hence its listener closed, is what `Wait` waits for. `Reasons` says
  that an error in the channel or returned is of a listener that failed, and
  that `run` goes on from its select for a reason.

Only model-checked: all liveness (out of the provers' reach), and `NeverHangs`,
which speaks of `ENABLED`. `NobodyStuck` proves what it comes to in terms of the
state: each goroutine `run` waits for is done, or at a step that waits for
nobody.

## 10. Findings

1. *Peek-lock* (`SBPeekLock`). `docs/content/services/service-bus.md:22`
   promises peek-lock delivery and disposition-based settlement; the loop takes
   a message off the queue for good and dispositions are only confirmed. A
   message released, or not settled when the link closes, is gone.
2. *Drain* (`SBDrainRace`). The comment of `takeCredit` says that a drain can
   never be raced into a delivery; the transfer is written after the lock is
   released, so it may follow the drain's echo. The count in the echo includes
   it (`DrainAccounted`).
3. *Credit* (`SBCredit`). The loop is to deliver "as credit allows", but
   `onFlow` adds a flow's absolute link-credit to what is left.
4. *Restart* (`BlobStartsAgain`). The comment of the blob store promises that a
   restart preserves state; when the process ends between a container's
   directory and its metadata file, or within a container's removal, the store
   does not open again.

Met while modelling and not checked by a run:

* A handle attached again while in use leaves the old link out of the table, and
  `closeAllLinks` never closes it (with `ReuseHandles = TRUE`, `NoOrphan`
  fails); nothing in the repository promises otherwise.
* `types.go:40-42` of `egstore` says that a delivery's lock deadline is unset
  while available; `Release` (`store.go:112-114`) leaves it set. Nobody reads it.
* A body above the cap is cut off and stored without a word (`blobserver/blobs.go:17`).
* A CBS link gets its window once: after some 5000 token renewals a connection
  can renew no more (`sbserver/conn.go:292`).
* A signing key torn by a kill during its first write keeps the process from
  ever starting again (`signer.go:50-59`).
* A signal at the moment of a listener's failure may win the select, and `run`
  then returns no error (`server.go:144-147`).
* `splitPipeline` splits a query at every `|`, one within a string included,
  where its comment speaks of top-level ones (`kql.go:59-61`).

## 11. Not modelled

* The AMQP codec, the text of filters and queries, XML, JSON and HTTP headers,
  certificates and token contents: data without control.
* The CBS node and delivery ids. A CBS answer is written by the reader itself
  and changes nothing but the id counter. That two loops may write their
  transfers out of id order is the gap between `takeCredit` and `LoopDeliver`,
  which the model has; ids would multiply its states.
* A socket that blocks its writer: the model's sockets accept every write, or
  fail. A client that does not read stalls its own connection.
* The Resource Manager: a map under a mutex, in memory, with requests that are
  a lookup or an assignment each.
* Requests in progress during a shutdown, and what the server does with bodies
  that arrive slowly.

## 12. Mutants

Every property of a passing run is violated when one definition is replaced by
the `Mut...` operator defined just before it, a plausible bug in that code:
PROJECT.json pairs them.
