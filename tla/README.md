# Galene in TLA+

Galene is a videoconferencing server: browsers connect over WebSockets, join
groups, and exchange audio, video and messages through the server, which
forwards but does not transcode.  This directory holds TLA+ modules for the
parts of the server where goroutines, browsers and administrators meet, the TLC
configurations that check them on small instances, and proofs, checked by
TLAPS, that some of their properties hold for all instances.

Line numbers refer to the files of the repository this directory belongs to.


## 1. The system

### Components, their state and what is hard about them

| component | state | operations | hard |
|---|---|---|---|
| unbounded channel (`unbounded/`) | a queue under a mutex; a channel of capacity 1 | `Put`, `Get` | `Put` signals after it has released the mutex |
| groups (`group/group.go`) | the registry `groups.groups` under `groups.mu`; per group `description`, `locked`, `clients`, `history`, `data`, `timestamp` under `g.mu` | `Add`, `AddClient`, `DelClient`, `autoLockKick`, `SetLocked`, `Delete`, `Update`, `Shutdown`, chat history | locks are released in the middle of operations; a group may be deleted and created again while clients still hold the old object |
| group descriptions (`group/description.go`, `group/client.go`) | JSON files, one per group; ETags made of size and date | read, conditional update, deletion | files change under the server; the same description is cached in the group |
| web client, control (`rtpconn/webclient.go`) | `group`, `permissions`, the queue of actions, the browser's state | the loop of a connection, join, leave, kick, lock, change of permissions | messages and actions interleave; actions are handled long after they were queued |
| web client, streams (`rtpconn/webclient.go`, `rtpconn/rtpconn.go`) | `up`, `down`, `requested` per client; `local` per up connection | `addUpConn`, `delUpConn`, `pushConn`, `pushDownConn`, `requestConns`, `negotiate`, `gotOffer`, `gotAnswer` | announcements are delayed by 200 ms and carry a list of clients; connections replace one another; only one offer may be outstanding |
| RTP writers, readers, bitrates (`rtpconn/`) | a pool of writers per track, RTCP statistics, layers | `rtpWriterPool`, `rtpWriterLoop`, `readLoop`, NACK, PLI, REMB | writers die while tracks are added; indices into the cache are used after it was resized |
| WHIP clients, disk writer (`rtpconn/whipclient.go`, `diskwriter/`) | one connection each; a recording | `NewConnection`, `Close`, `Kick`, `PushConn` | they call back into the group, possibly with its lock held |
| packet map, packet cache (`packetmap/`, `packetcache/`) | intervals of sequence numbers; a ring of packets and a bitmap | `Map`, `Reverse`, `Drop`; `Store`, `Get`, `GetAt`, `Resize` | arithmetic modulo 2^16; reordering; resizing |
| tokens (`token/`) | a file of tokens and its cache; JSON web tokens | `Check`, `Update`, `Delete`, `Expire` | the file may be edited by others; the cache is validated by size and date |
| estimators (`estimator/`, `jitter/`, `rtptime/`) | counters | `Accumulate`, `Estimate` | saturation, clocks that go back |
| codecs, SDP fragments, ICE, TURN, limits, statistics | configuration; no shared state of their own | parsers and getters | little |
| web server, API (`webserver/`) | none | HTTP handlers, conditional requests | they share groups, tokens and files with the clients |
| main program (`galene.go`) | none | starts everything, calls `group.Update` and `token.Expire` every 15 minutes, shuts down | the order of shutting down |
| browser client (`static/protocol.js`; its user interface is the rest of `static/`) | users and streams that the browser shows | `protocol.js` handles the server's messages | it sees only what it is told, in the order it is told |
| `galenectl` | none | calls the HTTP API | it reads an object, changes it and puts it back |

### How they interact

* A **group** keeps a table from identifiers to clients.  What it has to say to
  a client (somebody joined or left, the group was locked, you are kicked) it
  says by calling a method of the interface `Client`; for web clients these
  methods `Put` an action on the client's **unbounded channel** and return.
* The goroutine that runs a **web client**'s loop (`clientLoop`) is the only one
  that changes its group and permissions.  It selects between messages from the
  browser, its queue of actions, and a ticker.  While it handles one of these it
  calls into the group: `AddClient`, `DelClient`, `SetLocked`, `GetClients`.
* **Streams** go the other way round: an up connection notifies every client of
  the group (`pushConn`) and each of them decides in its own loop whether it
  wants a down connection; RTP packets then flow from the reader's goroutine
  through the **packet cache** to the **writers**, without the loops.
* **HTTP handlers**, the periodic **update** and the clients' loops all call
  `group.Add`, which reads the **description** again if the file has changed.

### What makes each component correct

* Unbounded channel: no element and no wakeup is lost; order is kept.
* Groups: one client per identifier; who is in a group is in its table until it
  leaves and not a moment longer; limits hold however logins interleave; the
  group that clients are in is the one that others find; a group without an
  operator ends up locked or empty if it is to be; descriptions converge.
* Web client: a browser knows exactly the users of its group; a kick takes
  effect; a closed connection leaves nothing behind; no order of messages and
  actions ends the server.
* Streams: a client that asked for a stream gets it as long as it exists, and
  every down connection ends when its source does; a replaced stream is closed
  once; no negotiation is lost.
* Packet map and cache: two packets never get the same number; `Reverse` undoes
  `Map`; an index never yields another packet's contents.
* Tokens and descriptions: no update is lost to a concurrent one; the cache
  never outlives the file's contents; what is acknowledged is on disk.
* WHIP clients and recorders: one that was closed is not in the group and
  receives nothing; the mutexes block nobody for ever.

The hazards that these properties answer to are listed, each at its line, in
`PROJECT.json`, those that no property covers included.


## 2. The modules

| module | models |
|---|---|
| `Fifo` | what an unbounded channel promises |
| `UnboundedChannel` | `unbounded.go`; `ImplementsFifo` states that it implements `Fifo` |
| `UnboundedChannelProofs` | its theorems |
| `Group` | the registry, the tables of clients and the periodic update |
| `GroupProofs` | its theorems |
| `WebClient` | the loops of web clients, on top of the operations of `Group` |
| `WebClientProofs` | its theorems, with those of `GroupProofs` for the group that the loops use |
| `Streams` | how streams that one client publishes reach the others |
| `StreamsProofs` | its theorems |
| `Whip` | WHIP clients and recorders, and the mutexes that they and the group take of one another |
| `WhipProofs` | its theorems |
| `Galenectl` | the requests that administrators' commands and members' messages make |
| `DescriptionRegister` | what the administration of a group promises |
| `Descriptions` | the definition of a group: its file, its copy in memory, the API |
| `DescriptionsProofs` | its theorems |
| `TokenRegister` | what the store of tokens promises |
| `TokenStore` | the store, and those who use it |
| `TokenStoreProofs` | its theorems |
| `PacketMap` | `packetmap.go`, as operators |
| `PacketCache` | `packetcache.go`, as operators |
| `Forwarding` | the goroutines between a publisher's track and a receiver's, on top of these two |
| `ForwardingProofs` | its theorems, with the lemmas on maps, bitmaps and rings |
| `MC...` | instances for TLC |

Operators marked "Mutation" are no part of the models.  Each is a plausible
mistake in the definition that follows it; substituting it for that definition
makes TLC report a violation of one of the properties, which shows that the
property depends on the code.  `PROJECT.json` pairs them.

### UnboundedChannel

`PutLocked` is `Put` up to the unlock, `PutSignal` the non-blocking send after
it, `Receive` the consumer's `select` and `Get` the call that follows it.  As
`Get` "may be called at any time", it is not tied to `Receive`.  `puts` and
`delivered` are history: who has put how much, and everything `Get` returned.

### Group

All state of different groups is independent, so the module follows a single
group name.  `Objs` are the objects (`*Group`) that bear this name over time;
`registry` says which of them, if any, `groups.groups` has.  An object that
nothing refers to any more may be allocated again.

A step is a section of code under `groups.mu` or `g.mu`; the mutexes are
thereby implicit.  Where an operation releases them and continues, `pc` says so:

| code | steps |
|---|---|
| `Add`, `add` | `AddSucceeds`/`AddFails`, with `autoLockKick`, which is called under the lock here |
| `AddClient` | `AddClient` (which calls `Add`; `pc` = "added"), then `Admit` or `Refuse` under `g.mu`; `Admit` includes the assignment `c.group = g` in `handleClientMessage` |
| `DelClient` | `DelClient` ("removed"), `TellDeleted` ("told"), `ScanForOps` ("locking"), `LockAndKick`: `autoLockKick` is called without the lock here |
| `Update` | `UpdateCheck`, `UpdateDelete`, `UpdateAdd` for a group that is in memory; `UpdateRead`, `UpdatePublic` for the walk over the directory |
| `SetLocked`, `kickClient` | `SetLocked`, `KickUser` |
| goroutines started by `autoLockKick` | `KickOne`, for each client in `toKick` |

The environment edits or removes the description file (`EditDescription`) and
makes HTTP requests (`Request`).  The credentials of a client either entitle it
to "op" or they do not (`LoginOp`); of a description, the fields that
`AddClient`, `autoLockKick` and `Update` look at are kept.  Time does not occur:
whether a group is old enough to expire, or a login within the hours of the
group, is a nondeterministic choice.

Abstractions that deserve a remark:

* `Add` tells the clients of a changed description after it has released the
  locks.  Those messages are put on the queues in the step that changes the
  description; they do not change the receivers' rosters.
* A second kick behind one that is still queued has no effect, and is not
  queued.
* Only the queues of the clients in `Watched` are followed.
* Recorders and WHIP clients are not among the clients; they are in `Whip`.
* `autoLockKick` reads the table of clients without the lock when `DelClient`
  calls it.  The scan is one step; that the Go runtime may detect the
  concurrent access to the map and stop the program is not modelled.

### WebClient

One goroutine per client: `Message` is what it does for its browser,
`GetActions` takes the queue, `Handle` handles the actions taken one at a
time, and `CloseLeave`, `Leaving` and `Close` are the deferred functions of a
loop that has returned. Leaving a group in the middle is `Group`'s business:
while `pc[c]` is not "idle" the loop can do nothing else.  To the variables of
`Group` the module adds the batch of actions taken, the state of the
connection, the goroutines that `permissionsChangedAction` starts (`pushers`),
the list of users that `protocol.js` builds from the messages (`roster`), and
whether a goroutine has panicked, after which nothing happens any more.

`Mapped` is the instance of `Group` that one gets by hiding the actions that are
none of the group's; the property `UsesGroup` states that every step of the
composed system is a step of `Group`, or leaves its variables alone.  What is
shown of groups, by TLC or by proof, thus holds where web clients are the
groups' users.  The messages that a loop writes to its browser go
through a channel and a writer; they arrive in order, so the roster is updated
when the action is handled.  Consecutive actions that only tell the browser
something are handled in one step, and `Told` says what the browser makes of
all of them: of each user, what was told last is what counts.

### Streams

The module takes a group for granted: `members` is the table of `Group`, and
leaving is split only where it closes streams (`Leave`, `LeaveCloses`,
`LeaveDone`).  Everything else is the life of an up connection, of the
announcements that it causes, and of the down connections at the receivers:

| code | steps |
|---|---|
| `gotOffer`, `addUpConn` | `Offer` up to the call of `pushConn` in `newUpConn`, then `OfferAccepted` for the stream that is replaced |
| `delUpConn` | `CloseUp`, `LeaveCloses`; without announcement, within `OfferAccepted` |
| the OnTrack callback | `TrackAdded` under `up.mu`, then `TrackAnnounced` |
| `pushConn`, `pushConnNow` | a member of `timers`; `TimerFires` when the 200 ms have passed, `TimerTells` for the loop without the mutex |
| `setRequested`, `setRequestedStream`, `requestConns` | `SetRequested`, `SetRequestedStream` |
| `pushDownConn`, `requestedTracks`, `addDownConn`, `replaceTracks` | `HandlePush` |
| `requestConnsAction`, `connectionFailedAction` | `HandleRequest`, `HandleFailed` |
| actions of another group | `HandleWrongGroup` |
| `negotiate`, `gotAnswer`, "renegotiate", "abort" | `Negotiate` (an operator), `Answer`, `Renegotiate`, `Abort` |

A down connection keeps what the browser was last offered (`sent`, history),
`browser` is the set of streams that the browser was offered and not told to
close.  `offered` is the WebRTC library's signalling state, `needed` the flag
`negotiationNeeded`.

Abstractions that deserve a remark:

* Stream identifiers are not used twice, and an offer for a stream that exists
  already is not made again.  Tracks are added while the stream is up.
* All streams have one label, so `requested` is a set of kinds of tracks; the
  choice between "video" and "video-low" is left out.
* `TimerFires` merges the two critical sections of `pushConn` and
  `pushConnNow`; nothing of what will be pushed is read in the first.
* `DelUp` merges the removal from `c.up`, the setting of `closed` and the calls
  of `PushConn`.  A receiver that adds itself before `closed` is set is in the
  list that is read afterwards, or is not in the group.
* A request for a stream that has just been closed ends the connection of
  the client that makes it (`webclient.go:1469`); the step has a guard instead.
* `TrackAnnounced` sets `panicked` when the callback finds that its client has
  left: `c.Group()` is nil then (`rtpconn.go:689`).  It is a race that needs a
  track and a departure within microseconds; no property is about it.

### Whip

Group, WHIP clients and recorders call one another with mutexes held, which is
the reason why here, unlike in `Group`, the mutexes are variables: `groupMu`
and `mu[w]` say which goroutine holds `g.mu` and `c.mu`.  A step ends where
its goroutine has to wait for a mutex, or goes on with what it read under one.

| code | steps |
|---|---|
| `AddClient`, of clients of all kinds | `AddLocks`, then `AddAsks` for each WHIP client whose `Permissions` it calls, then `Added` or `Refused` |
| `whipEndpointHandler`, `NewConnection` | `PostCreates` or `PostFails`, `PostConnects`, `PostAnswers` or `PostGivesUp`, `PostRemoves` |
| `WhipClient.Close`, for a DELETE, a kick or a failure | `CloseStarts`, `CloseLocks`, `CloseTells`, `CloseDeletes`, `CloseScans` (`autoLockKick`), `CloseReturns` |
| `requestConns`, `WhipClient.RequestConns` | `RequestConns`, `Requested` under `c.mu`, `RequestPushes` without it |
| OnTrack, `pushConn` | `OnTrack`, `TrackAnnounced`, `TimerFires` |
| `diskwriter.Client.Close`, `Kick`, `PushConn` | `RecorderCloses`, `RecorderDeleted`, `PushConn` (an operator) |
| `group.Shutdown`, `kickall` | `ShutdownStarts`, `ShutdownKicksWhip`, `ShutdownKicksRecorder`, `ShutdownEnds` |

Clients that may hold a mutex of their own while they are asked for their
permissions are WHIP clients only; web clients and recorders answer at once.
All closers of one client other than the failure callback do the same thing,
and are one goroutine, "delete".  `CloseStarts` of that goroutine requires
that the client is in the group when it is looked up; what it does may happen
much later.  `stuck` is where `kickall` calls a method that waits for the
mutex that it holds itself.

### Galenectl, Descriptions, DescriptionRegister

`Galenectl` says of each command which requests it makes: whether it gets the
object first, the method, what the request is about, the precondition that
goes with it, and what the body sets.  The page `management.js`, programs that
set keys, and the members' messages about tokens have requests in it too.
`AllCommands` is all that anyone may ask of the API about a group.

In `Descriptions` a command is a small program (`req[a].pc`):

| code | steps |
|---|---|
| `galenectl`: a command begins | `Start` |
| `GetDescription` | `CacheHit` when `descriptionUnchanged`, then `CacheRead`, which reads `g.description` a second time; or `ReadDisk` |
| `apiGroupHandler`, `userHandler`, up to `checkPreconditions` | `StatTag` for a group; `Check` in `CacheRead` or `ReadDisk` for a user; `NoTagNeeded` for passwords and keys |
| `UpdateDescription`, `DeleteDescription`, `UpdateUser`, `DeleteUser`, `SetUserPassword`, `SetKeys` | `Commit`, or `Error` |
| the handlers answer | `Answer` |
| `add`, `Delete`, `Update` | `Refresh`, `Forget`, `UpdateReads` and `UpdateAdds` |
| the server is restarted | `Restart` |

The tag is size and date, as in `makeETag`.  `Precise` says that a write of
the file always changes its date.  Dates of files may be as coarse as a few
milliseconds, so this is an assumption of the run, without which
`TagsFaithful` and `AtomicUpdates` do not hold: two writes of equal size
within one tick of the clock are the same to the code.  `DescriptionRegister`
is the specification that `Descriptions` implements (`AtomicUpdates`): one
variable, the definition, and one step per command that changes it.

A change is made in `Commit`, and acknowledged in `Answer`.  In between, the
server may be restarted, or the connection may break: the program then sees a
failure although the change was made.  So the register has three steps for a
command: `Perform`, then `Answer`, whose outcome may be "failed"; or the command
fails without any effect (`FailAll` for a restart).  `AtomicUpdates` promises
that a command that is acknowledged took effect exactly once, and that one that
failed took effect at most once, in one step.

Abstractions that deserve a remark: a file is read and written whole, because
`rewriteDescriptionFile` renames a temporary file; a `GET` is not followed by a
conditional one; hashing and the permission to write are not
modelled; an error of any kind is `Error`, at any time.

### TokenStore, TokenRegister

Every operation of `state` holds its mutex and is one step; it begins with
`load`, which is the operator `Loaded`.  `file` has the tokens, a tag for size
and date, and whether the last line is torn.  Handlers that read and then
write (`CheckToken`, `EditGets`, then `Commit`) release the mutex in between,
programs that do (`GetToken`, then `CheckToken`, then `Commit`) do so twice.
`PostTears` is an append of which only a part reached the disk,
`PeriodicExpiryFails` a rewrite that failed after `Expire` had deleted the
tokens from memory.  `Edit` is somebody with an editor.  Such an edit is an
atomic step outside the sections of the store: `stateful.go:45` says that
nothing is done about a writer between `load` and the write that follows.  A
line is whole or torn; one that lacks nothing but its newline is not modelled.

A tag is the size of the file and its date (`Version`), which is all that
`load` and `etag` look at.  As for descriptions, `Precise` says that a write
changes the date, and is an assumption of the run and of the theorems.  Without
it, two versions of one size within a tick of the file system's clock have the
same tag: with `Precise = FALSE`, TLC finds `InSync` violated, and
`AtomicTokens` too, since an update may overwrite one that it has not seen.

Writing the file and answering the caller are two steps here too (`Commit`
or `PostToken`, then `Answer`), with the same consequences for
`TokenRegister`.

`TokenRegister` is the specification that it implements (`AtomicTokens`): a
table of tokens, of which those that expired more than a week ago may vanish
at any time.

### PacketMap, PacketCache, Forwarding

The two libraries are operators on records, to be used in the actions of
`Forwarding` under the mutex that the code takes around each call.  Their
constants are those of the code, scaled: `Window` is 8 * 1024 there, and the
number space, `Mod`, is `8 * Window` as it is in the code.

| code | steps |
|---|---|
| `readLoop`, `packetcache.Store`, `rtpWriterPool.write` | `Read`, with `Nacked` and `AfterNack` for the NACKs that it sends, `Enqueue` |
| `updateUpTrack` | `UpdateUpTrack`, which resizes the cache |
| `rtpWriterLoop`, when a receiver comes | `AddTrack` up to the answer to the reader, which goes on from there; `FindLast` and `StartSequence` for the two calls that look at the cache |
| `rtpWriterLoop`, for a packet | `WriterTakes` |
| `sendSequence` | `SequenceTakes` |
| `gotNACK`, `rtpUpTrack.GetPacket` | `GotNACK`, `BufferNack` |
| `nackWriter` | `NackWriter` |
| `rtpDownTrack.Write` | `CheckLayer`, in the step that takes the packet, up to the call of `packetmap.Map`; then `Write` |

What the network in front of the reader does is in `Arriving`: packets may be
late by `Reorder`, and as many may be missing in a row.  No packet arrives
twice.  A goroutine that holds a packet (`hand`) is not delayed for more than
`Window` packets.  Layers are temporal; `Adjusted` picks any layer that
`adjustLayer` could pick for some bit rate.  `received`, `stored`, `delivered`
and `dropped` are history.


## 3. What is checked

| run | instance | properties |
|---|---|---|
| `unbounded_channel` | three producers, two puts each | `TypeOK`, `NoLostWakeup`, `ProducerOrder`, `ImplementsFifo` |
| `group` | an operator and two users, one with the operator's identifier; two objects; three logins, edits, locks or requests | `TypeOK`, `StaysMember`, `NoGhost`, `MaxClientsRespected`, `AutolockEventually`, `DescriptionConverges` |
| `web_permissions` | an operator and a user, both in an autokick group; one change of permissions | `TypeOK`, `UsesGroup`, `KickedLeave`, `AutokickEmpties` |
| `web_joins` | an operator in the group and two users outside; two logins, edits, locks or kicks | `RosterComplete`, `ClosedLeft`, `KickedLeave` |
| `web_panic` | two users | `NeverPanics` is **violated** |
| `streams` | a publisher and a receiver, one stream of up to two tracks, any four outside events | `TypeOK`, `OfferCurrent`, `BrowserExact` |
| `streams_replacement` | the same with two streams, and two events | `NoOrphan`, `BrowserExact` |
| `descriptions` | two administrators, three commands out of fifteen; a group with two fields, a user, a password and keys | `TypeOK`, `TagsFaithful`, `AtomicUpdates` |
| `tokens` | two callers, two commands out of ten; two names; one edit by hand, one failed write, expiry | `TypeOK`, `InSync`, `AtomicTokens` |
| `forwarding` | four packets, the second and third a frame of the upper layer, the fourth the beginning of another frame; numbers that wrap; a cache of two or four packets | `TypeOK`, `NumberingExact`, `RetransmissionExact`, `NacksMissing`, `CacheRecent`, `NacksScheduled` |
| `forwarding_wrap` | ten packets in order, one of them dropped, in a number space of eight | `RetransmissionExact` is **violated** |
| `whip` | a publisher comes to a group with autolock, another publisher, a web client and a recorder | `TypeOK`, `EndedLeft`, `ClosedRecordNothing`, `SomeoneRuns`, `EveryoneReturns` |

`CHECK_DEADLOCK FALSE` is set where the system may come to rest: the budgets
bound it, a file may be missing, every connection may be closed.

### The bounds

`MaxPuts`: two puts make a producer meet the queue empty, non-empty, and
emptied between its two critical sections.  `MaxBudget` bounds what comes from
outside and only that: everything that follows from it, and departures, are
unbounded.  With three units, three clients may join, or two may while the
file is edited between the two halves of `AddClient`.  Two objects are enough
for a group to be deleted and created while a client holds the first.  In the
`group` run only the operator's queue is followed, since the queue of another
client contains the same kinds of messages.  The groups admit one ordinary
user at a time, and operators beyond that, so that the limit is met at once.
`MaxOrders` bounds changes of permissions in the same way; the web runs start
with clients that have joined (`Present`), so that the budget is not spent
before anything of interest can happen.  A kick by an operator costs a unit:
`web_permissions`, which has none, checks `KickedLeave` for kicks by
`autoLockKick`, and `web_joins` for those by an operator.  `KickedLeave` follows
a kick from where it is decided (`toKick`), or queued, to where the client has
left.

In the runs of `Streams` the budget pays for joins, departures, requests,
tracks and failures.  Offers, answers and closing are free, because they can
happen only once per stream, or once per offer.  Four events are enough for a
track to arrive, its stream to be requested, adjusted or renegotiated, fail,
and be closed with an announcement or an answer still under way; two suffice
for the second stream, whose own life adds the rest.  Tracks and streams are
symmetric.  Receivers influence one another only in that the announcements for
some make those for others superfluous; one receiver that joins late is enough
for that.

In the run of `Descriptions` three commands are one more than is needed for an
update to be overtaken between its two requests, or between the check and the
commit of the second one; the third meets what these two have left.  Updates
from memory (`Refresh`, `UpdateReads`, `UpdateAdds`, `Forget`) and restarts
are free.  All documents that the commands can make are reached: the group
with and without its user, keys and password, and both fields changed.  In the
run of `TokenStore` a file with a token that is about to expire is used until
`MaxTime`, more than `Week` after that; one failure and one edit are enough
for memory and file to disagree in every way that the store distinguishes.

In the runs of `Forwarding` everything is scaled, and what matters of the
proportions kept: the window is an eighth of the number space; numbers start
just below the wrap; the ring is smaller than what is sent and is resized both
ways; `BitmapSize` and `TooOld` are so small that the bitmap slides and starts
again. A writer whose queue is full at the beginning of a frame of two packets
drops the rest of it, up to the marker, which may be late or lost itself. Four
packets give the map two intervals; that it overwrites the oldest one is left
to the theorems, which are about any number of packets and intervals.
`forwarding_wrap` scales the number space down to eight, so that ten packets go
round it.

In the run of `Whip` there is one client of each kind for every role: one WHIP
client that publishes and may fail, one that is in the group already, one that
joins, one that records.  Every operation happens at most once for each, which
is all that happens to a WHIP client in its life.

`NoOrphan` speaks of moments when everything has settled, `BrowserExact` of
all; both exempt streams that were replaced.  `gotOffer` takes the list of
those who will hear of the new stream before it deletes the old one, and a
client that joins in between may keep receiving the old one.  Why a browser may
keep one is told below (13).

### Fairness

* A goroutine that is not blocked runs: weak fairness of what a client does
  once it has begun (`Proceed`, `Loop`), of `KickOne`, `PushChange`,
  `PutSignal`, `Receive` and the `Get` that follows it.  Go's `select` picks
  among ready cases at random, so a ready queue is not passed over for ever.
* `galene.go` calls `group.Update` every 15 minutes, for ever: weak fairness
  of `UpdateDelete` and `UpdatePublic`, and strong fairness of `UpdateAdd`, as
  the rounds of the update alternate between different steps and a group that
  is not deleted is added in each of them.
* In `Whip`, as long as some goroutine that has been started can run, some do:
  weak fairness of the disjunction of their steps, which is less than the Go
  scheduler provides.  It suffices because no goroutine there runs in a
  circle.
* Nothing is assumed of users, browsers and administrators.

### Where the code and its documentation differ

Two of these are runs that TLC finds violated; the others came up while the
modules were written, and are told from the traces or from the code.

1. **`web_panic`.**  `DelClient` tells a list of clients that it took before it
   released the lock.  A client of that list may have left when it handles the
   action; `pushClientAction` then calls `Name` on a nil group, although the
   branch that follows is meant for actions of another group.
2. **`forwarding_wrap`.**  Once a packet has been dropped on purpose, the last
   interval of the map grows with every packet that is not.  After half of the
   number space without another drop its length no longer compares as
   positive: late packets are refused, and so are requests.  In the last
   eighth of a turn before the beginning of that interval comes round,
   `direct` and `Reverse` find the interval that was made for the packets
   before the first drop, and apply its shift of zero.  The receiver is sent
   another packet than it asked for.
3. **A group that nobody finds.**  `AddClient` calls `Add`, which releases all
   locks, and then locks the group without looking whether it is still
   registered.  If the file has been removed and another `Add` deletes the
   empty group in between, the client joins a group that `group.Get` does not
   find; `joinedAction` then logs what it says should not happen
   (`webclient.go:1198`).
4. **Redirection.**  When the group redirects, `handleClientMessage` returns
   after `AddClient` has put the client into the table, before it sets
   `c.group`. `leaveGroup` later sees no group and does nothing.  The entry
   stays. `NoGhost` fails in `MCGroup` if its descriptions are replaced by
   `MCRedirectDescs`.
5. **A user that has left is listed.**  `permissionsChangedAction` announces
   the new permissions from a goroutine.  If its user leaves before, the
   others hear of the change after the departure, and `protocol.js` lists the
   user again. `RosterComplete` therefore says that nobody is missing, and not
   that nobody is too many.
6. **A track that is not announced.**  Every call of `pushConn` starts a
   goroutine that sleeps for 200 ms with the list of clients of that moment,
   and the one that wakes up first makes all others give up, although their
   lists may differ.  A client joins after the stream was offered and requests
   it before its first track arrives; that track's announcement has the client
   on its list, but the first one, which has not, fires before and sets
   `pushed`.  The client is not told of the track until something else
   changes.
7. **Mutexes in opposite orders.**  `WhipClient.Close` holds `c.mu` and takes
   `g.mu`; `AddClient` holds `g.mu` and calls `Permissions`, which takes
   `c.mu`.  Four steps, one of them a client that joins, block the group for
   ever, and `group.Update` with it.  `SomeoneRuns` and `EveryoneReturns` name
   this case (`Deadlocked`), and say that there is no other but the next one.
8. **`kickall`** calls `Kick` with the group's mutex held.  The `Kick` of a
   recorder or a WHIP client takes it again.  It is called at the end of the
   program only, which then exits with the rest of the clients not kicked.
9. **WHIP streams that outlive their client.**  `Close` does not set
   `up.closed`, on which `AddLocal` relies (`rtpconn.go:556`).  An
   announcement that was delayed, or an answer to a request, gives its
   receiver a connection to a stream that has ended, which nobody closes.  And
   a `Close` between the creation of the connection and `NewConnection` leaves
   a peer connection that nobody closes either; when it has a track, the
   OnTrack callback dereferences a nil group, outside of any HTTP handler.
10. **Stateful tokens.**  A line that was appended in part makes every later
    load fail, until somebody repairs the file.  If the rewrite in `Expire`
    fails, the tokens stay in the file, since nothing compares memory and file
    again.  Both are allowed for in `InSync` and `AtomicTokens`.  A `PUT` of a
    token that does not exist dereferences nil (`api.go:698`); `net/http`
    recovers.
11. **The cache's `ResizeCond`** says that it avoids invalidating indices that
    were handed out recently.  It does not when the tail is near the start of
    the ring; `GetAt` compares the number, so that the packet is then skipped,
    not confused.
12. **`management.js`** sends an update without a body (`updateObject`), which
    the server refuses.
13. **A replaced stream that a browser keeps.**  `pushDownConn` deletes the
    connection that is replaced and leaves it to the next offer to tell the
    browser.  If the new connection has an offer unanswered, `negotiate` only
    notes that another is needed, and returns nil; `replace` is cleared as if it
    had been sent, and the offer that follows the answer has none
    (`webclient.go:1518`).  It takes a receiver that was sent the new stream on
    request while the announcement that replaces the old one was being
    delivered.  The server then sends nothing to a stream that the browser still
    shows.
14. **A new map expects number 0.**  A packet up to `8 * 1024` before it does
    not move `next`, one that is further away does (`packetmap.go:34`).  So, in
    a stream that begins just before 57344 = 2^16 - 8192, a packet after that
    number that is sent before a late one from the other side of it leaves
    `next` at the late packet, behind what was sent; a packet in between may then
    be dropped, and the numbers that follow are shifted although they were used
    without the shift.  TLC violates `NumberingExact` in eleven steps when
    `forwarding` is run with `Window = 2` and `Start = 12`.


## 4. What is proved

For all values of the constants that satisfy the modules' named assumptions:

| theorem | statement |
|---|---|
| `UnboundedChannelProofs!TypeCorrect` | `Spec => []TypeOK` |
| `UnboundedChannelProofs!OrderKept` | `Spec => []ProducerOrder` |
| `UnboundedChannelProofs!WakeupSafety` | `Spec => []NoLostWakeup` |
| `UnboundedChannelProofs!RefinesFifo` | `Spec => Abstract!Safety`: the channel implements the queue, up to liveness |
| `GroupProofs!TypeCorrect` | `Safety => []TypeOK` |
| `GroupProofs!MembersStay` | `Safety => []StaysMember` |
| `GroupProofs!NobodyLeftBehind` | `Safety => []NoGhost`, if no description redirects |
| `GroupProofs!ClientsBounded` | `Safety => []MaxClientsRespected` |
| `StreamsProofs!TypeCorrect` | `Spec => []TypeOK` |
| `StreamsProofs!OffersCurrent` | `Spec => []OfferCurrent` |
| `StreamsProofs!NoneOrphaned` | `Spec => []NoOrphan` |
| `StreamsProofs!BrowsersExact` | `Spec => []BrowserExact` |
| `DescriptionsProofs!TypeCorrect` | `Spec => []TypeOK` |
| `DescriptionsProofs!TagsAreFaithful` | `Spec => []TagsFaithful`, if dates are precise |
| `DescriptionsProofs!AdministrationAtomic` | `Spec => AtomicUpdates`: it implements `DescriptionRegister`, if dates are precise |
| `TokenStoreProofs!TypeCorrect` | `Spec => []TypeOK`, if dates are precise |
| `TokenStoreProofs!MemoryInSync` | `Spec => []InSync`, if dates are precise |
| `TokenStoreProofs!TokensAtomic` | `Spec => AtomicTokens`: it implements `TokenRegister`, if dates are precise |
| `WebClientProofs!TypeCorrect` | `Spec => []TypeOK` |
| `WebClientProofs!GroupsUsed` | `Spec => UsesGroup`: its steps are steps of `Group` |
| `WebClientProofs!ClosedHaveLeft` | `Spec => []ClosedLeft`, if no description redirects |
| `WebClientProofs!RostersComplete` | `Spec => []RosterComplete`, if moreover identifiers are distinct |
| `WhipProofs!TypeCorrect` | `Spec => []TypeOK` |
| `WhipProofs!EndedHaveLeft` | `Spec => []EndedLeft` |
| `WhipProofs!ClosedRecordersSilent` | `Spec => []ClosedRecordNothing` |
| `WhipProofs!NoOtherDeadlock` | `Spec => []SomeoneRuns` |
| `ForwardingProofs!TypeCorrect` | `Spec => []TypeOK` |
| `ForwardingProofs!RequestsScheduled` | `Spec => []NacksScheduled` |
| `ForwardingProofs!RecentCached` | `Spec => []CacheRecent`, if numbers do not come round in the cache (`Holdable`) |
| `ForwardingProofs!OnlyMissingAsked` | `Spec => []NacksMissing`, if packets are not too late (`Timely`) |
| `ForwardingProofs!NumbersExact` | `Spec => []NumberingExact`, if the stream is always steady (`Steady`) |
| `ForwardingProofs!RetransmissionsExact` | `Spec => []RetransmissionExact`, if the stream is always steady |
| `ForwardingProofs!ShortStreamsExact` | `Spec => [](Steady /\ NumberingExact /\ RetransmissionExact)`, if the stream is short (`Short`) |

The arguments:

* `NoLostWakeup` is inductive together with the type invariant: only `Put` makes
  the queue non-empty, and if it was empty before, the producer is then in
  `signalling`; only `Receive` takes the token, and it is then `fetching`; and
  only `Get` ends that, with an empty queue.
* `ProducerOrder` says of the elements delivered and queued, one after the
  other, that those of each producer are numbered from one, in order and
  without holes.  `Put` adds the next number at the end; `Get` moves the border
  between the two sequences and nothing else.
* `TypeOK` is not inductive by itself: after `AddClient` the operation uses
  `at[c]`, which must be an object (`Located`).
* `StaysMember` needs that a client that is being admitted is in no group
  (`Entering`): otherwise `Admit` would replace the group of a client that is
  still in another table.  The table entry of a member is then changed by
  `Admit` only if it was free, and by `DelClient` only for the client itself.
* `NoGhost` needs that a client is filed under its own identifier (`Filed`), so
  that `DelClient` finds it, and, for the hypothesis on redirects to be of use,
  that the group a client enters has a description (`Described`).  Without the
  hypothesis it is false: see section 3.
* `MaxClientsRespected` holds because the table is compared with the limit under
  the lock under which it is changed, and because no other step adds to it.
* `OfferCurrent` is inductive together with the type invariant, because every
  change of `tracks` goes through `Negotiate`, which makes the connection
  current whatever it was before, and because an answer that leaves the flag
  unset does so only when the last offer had all the tracks.
* `NoOrphan` speaks of quiet moments only and is far from inductive.  Its
  inductive form, `Accounted`, says at all times that a connection to a closed
  stream has the announcement of the closing in its client's queue.  A
  connection can be opened only while the stream is up; when the stream is
  closed, every member but the owner is told; and a client that handles the
  announcement closes the connection.  That the owner is left out does no harm
  because no client is ever told of its own streams or asked for them by itself
  (`Addressed`), which needs to be known of queues and of sleeping goroutines.
* `BrowserExact` is inductive for all steps but one: the push of a stream that
  replaces another deletes the connection to this one, and may leave it to an
  offer that is never made (13 in section 3) to tell the browser.  It must
  then be a stream that was replaced, not one that was closed.  Only a stream
  that is not up any more is ever replaced (`Superseded`), so it was closed
  before; its closing was announced before the push was, and queues keep the
  order (`Announced`).  So a connection to it would still have the
  announcement of the closing before it, by `Accounted`, and it has not.
* `TypeOK` of `Descriptions` needs `Shown`: a program that updates what it was
  shown was shown something, so that there is a definition to put its change
  into.  It needs nothing about dates.
* `TagsFaithful` is inductive once it is known that whatever anybody has in
  hand (the group in memory, a reader, a request, a program) came from the file
  and has a date that is not after the clock (`Dated`); what is written has a
  later date, if dates are precise (`Precise`).  Without that it is false, and
  the code has nothing else to tell two versions of one size apart: see
  section 2.
* `AtomicUpdates` needs in addition that a handler that is about to write holds
  the tag it has compared (`Agreed`).  When it finds that tag on the file, the
  content is, by `TagsFaithful`, still what the program was shown, and writing
  it back with a change is what the command does to the present definition
  (`CommitEffect`).  Every other step is invisible, an answer, the failure of a
  command, or the success of one that only reads.
* `InSync` and `AtomicTokens` are shown by one invariant.  What is in the file
  has a name that was used (`Named`), so that a token that is created is new; a
  torn file is never the one that memory holds (`Whole`), so that the store
  does not work on the half of it; and a request that changes a token has that
  token and a tag under which the file, if it still has that tag, still has
  that token (`Informed`).  A step that writes is then the command's effect on
  the present tokens; `Expire` and the failures of writes take away only
  what `TokenRegister` lets vanish.  The invariant rests on `Precise` throughout,
  and includes the types, which is why `TypeCorrect` assumes it too; TLC finds
  `TypeOK` unharmed without it.
* `EndedLeft` needs that a client is closed only after it was added, and added
  only once (`Entered`): otherwise a `Close` that overtakes the `POST` would
  leave a client behind that is added later.  `ClosedRecordNothing` is inductive,
  because `PushConn` looks at `closed` under the mutex under which `Close` sets
  it.
* `SomeoneRuns` is the absence of deadlocks.  Whoever holds the group's mutex
  or a client's is one of a few kinds of goroutines, at one of a few places
  (`GroupLocked`, `ClientLocked`).  What remains is a circle of closers that
  have left the group, each asking the others for their permissions in
  `autoLockKick`.  There is none, because among any of them the last one to
  leave asks none of the others (`Acyclic`): they had left before it listed the
  members.
* `UsesGroup` is shown by naming, for each step of a loop, the operation of
  `Group` that it is, with the queues as the group sees them (`View`), and by the
  fact that what the loops queue for one another is not seen there.  The
  invariants of `GroupProofs` then hold of the server, because they are proved
  for any system whose steps are those of `Group`, and are cited for this one
  (`GP`).
* `ClosedLeft` follows from `NoGhost`, since a closed connection has no group
  (`Departed`): the loop's deferred call of `leaveGroup` comes first.
* `RosterComplete` speaks of clients that have been told everything.  Its
  inductive form (`Informed`) says at all times that every client of the group
  is among the users that the browser will list after the rest of the batch
  and of the queue (`Expected`).  A client that is admitted is told of all and
  they of it under one lock; a client that has left, and of whom the others
  are told later, without the lock, is in no table any more, and nobody in a
  table has its identifier, if identifiers are distinct (`DistinctIds`).
  Browsers draw theirs at random (`protocol.js`).  Without that it is false: a
  client that joins under an identifier just given up may be taken off the
  lists by the departure of the one that had it.
* The theorems on `Forwarding`, except for `ShortStreamsExact`, are about
  streams of any length, so the numbers of packets come round any number of
  times in them.  What the code computes from
  numbers is first related to places in the stream, which do not: differences
  of numbers are differences of places, as long as the places are less than a
  turn apart, and comparisons are right for less than half a turn
  (`NumberMinus`, `InOrder`).
* `TypeOK` of `Forwarding` needs no more than itself and what it implies for
  the ring and the intervals of the map (`TypeInv`).
* `CacheRecent` needs that the newest entries of the ring, going back from its
  tail, are the packets stored last (`Ordered`), which `Store` moves on by one
  and a change of size copies.  That is not enough to find a packet by its
  number: an entry from an earlier turn may have the same one, and `Get` takes
  the first it meets.  So the age of an entry is bounded by its place
  (`Aged`): a packet is at most `Reorder + 1` after the one that came before it.
  `Holdable` then says that the entries of the largest cache are less than a
  turn apart; the cache has at most 1024 (`rtpconn.go:1279`), so that 63 packets
  in a row may be missing or late.
* `NacksMissing` holds because the bitmap has exactly the packets received, from
  some place on which is not after the next packet (`Recorded`): `set` slides
  it over what has come only, and `BitmapGet` over what it returns or what has
  come.  `Timely` says that a packet is less late than `set` takes for a new
  stream (`TooOld`, 256 in the code), and that the bitmap (32) and what may come
  late are less than half a turn.  For a later packet it is false, as the bitmap
  starts again from it.
* `NumberingExact` and `RetransmissionExact` follow from one invariant of the map
  (`MapExact`).  As long as nothing has been dropped, the map is empty and packets
  keep their numbers (`Unshifted`).  Afterwards, `next` is the number of a place
  n that comes after all that was sent or dropped, and `delta` is minus the
  number of packets dropped (`Shifting`).  Each interval covers places before n
  of which none was dropped and before each of which exactly c packets were,
  and its shift is -c (`Covers`).  The c of the last interval and the places
  between its end and n, all of which were dropped, are together all that was
  dropped (`Ranges`): so `addMapping` is right to begin a new interval where it
  does, at n.  A packet that `direct` finds in an interval gets the number that
  it would have got in its place.  `Reverse` finds the right packet, or none,
  because place less packets dropped before is strictly increasing over those
  that were not dropped (`SkippedOrder`), and the counts of two places
  differ by no more than the places between them (`SkippedApart`).  It does not
  matter in which order the intervals are searched, nor which of them have been
  overwritten, which only makes the search fail.
* Numbers come round, so all this is about places that are close together: an
  interval begins at most three windows before n, or `4 * Window + 1` just after
  a step has moved n (`Exact`), and half a turn is four windows.  `Steady` is the
  condition, in every state, for which this holds, and says of a state what the
  code assumes of its peers and of its own goroutines:
  - once something has been sent or dropped, the map takes no packet in hand for
    one of another stream (`SameStream`, the comparison with `8 * 1024` of
    `packetmap.go:34`), or it would be reset or its `next` be left behind (14 in
    section 3);
  - the packets in hand and in the cache are within three windows of the last
    packet handled, 24576 in the code.  Otherwise the number of a packet that is
    about a turn away would be taken for that of one close by;
  - the intervals remembered are within three windows of `next`
    (`RecentIntervals`).  The code never forgets one because it is old, and
    `RetransmissionExact` is false if one is found a turn later, as
    `forwarding_wrap` shows.

  Only states before a step are assumed to be steady in its proof; the last part
  then brings the bound of `Exact` back to three windows (`Tightened`).
* `Short` says that the stream has at most `Window` packets, 8192 in the code,
  and that no packet but the first has the number `Mod - Window`, without which
  `NumberingExact` is false (14 in section 3).  Such a stream is always steady
  (`ShortSteady`), which is proved from the invariant itself, so its theorem has
  no condition on the states that are reached.

What filters of sequences return, and what a browser makes of any sequence of
messages, is shown by induction in `WebClientProofs`.  The theorems on
induction of the library cannot be used, as they have operators as parameters;
the same is stated there of sets, of numbers and of sequences (`Induction`,
`SequenceInduction`), and follows from the order of the numbers being
well-founded.

Left to TLC: the liveness properties (`AutolockEventually`,
`DescriptionConverges`, `KickedLeave`, `AutokickEmpties`, `EveryoneReturns`,
and the liveness part of `ImplementsFifo`), which need fairness and are out of
the prover's reach.  Nothing is claimed of the numbering of streams that are not
steady: `RetransmissionExact` is false of some, as the run `forwarding_wrap`
shows.


## 5. What is not modelled, and the plan

Not modelled, because it is sequential or I/O, and tests reach it:
cryptography, passwords and JSON web tokens; parsers of requests,
descriptions, codecs and SDP fragments; the numerical estimators; the contents
of WebM files; TURN and ICE configuration; the rest of the user interface, and
the output and set-up of `galenectl`.

Not modelled, although it is stateful:

* the chat history and the data of a group, and the chat messages themselves;
* the configuration file, and who may use the API;
* the write channel of a web client: `write` gives up after half a second, so
  that a client that does not read is closed and blocks nobody for longer;
* the choice of a layer by bit rate, spatial layers, picture numbers, the
  reports of receivers and how receivers are spread over the writers of a
  pool;
* `PATCH` of WHIP clients;
* that the Go runtime stops a program in which it sees a map changed and
  read at the same time, as the unlocked call of `autoLockKick` may.

That a long stream is steady is an assumption, not a result: it is about how far
apart the writers of a track are, how late packets come and how often the server
drops some, which depends on the scheduler and on the network.
