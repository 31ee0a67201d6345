# A verification project for realtime-modules

TLA+ specifications of the core of `@connorhoehn/realtime-modules` (its server, the
browser's end of the socket, and the seats of its calls), TLC
configurations that check them on small instances, and TLAPS proofs about them
for every value of their constants. Paths are relative to the repository
(`src/server/router.ts` is `src/src/server/router.ts` in `PROJECT.json`).

- [The system](#the-system): its parts, their state and operations, and how they meet
- [The modules](#the-modules): what each models and how it corresponds to the code
- [The runs](#the-runs): what each checks, its bounds and why they are enough
- [The proofs](#the-proofs): invariants, assumptions, arguments
- [What the checks found](#what-the-checks-found)
- [What is not modelled](#what-is-not-modelled)
- [Plan](#plan)

To check a module, run `tlc -config X.cfg M` with the pairs of the table under
[The runs](#the-runs); to check a proof, run `tlapm M.tla`.

## The system

The package is a set of realtime features over one WebSocket gateway. A host
attaches features to an HTTP server with `attachRealtime`; it brings the
authentication and the `authorize` hook. The parts, from the wire inwards:

```
 browser                         one node                               others
+-----------------+   frames   +--------------------+
| useWebSocket    |<---------->| createWsHandler    |  upgrade, register, lanes,
| shared socket   |            |  + inbound budget  |  drain, cleanup, dispose
| feature hooks   |            +---------+----------+
+-----------------+                      | onClientConnect / handleAction /
                                         | onClientDisconnect
                               +---------v----------+
                               | services: chat,    |
                               | presence, room,    |
                               | call, crdt, ...    |
                               +---------+----------+
                                         | subscribe, sendToChannel
                               +---------v----------+   pub/sub    +---------+
        host: authorize <------| LocalRealtimeRouter|<------------>| Redis   |
          ^                    | RedisRealtimeRouter|  directory   | + peers |
          +-- verdict cache    +--------------------+              +---------+
```

| Part | State it keeps | Operations | What is hard | What makes it correct |
|---|---|---|---|---|
| WebSocket handler (`server-ws/createWsHandler.ts`) | `clients`, `wsToId`, `initialFrames`, lanes, `registering`, `closing`, heartbeats | upgrade, register, frames, close, drain, cleanup, dispose | every hook and handler is awaited; the socket may close and the handler be disposed in each wait; handlers may never return | hooks are paired, one holder per id, frames take effect in order, nothing outlives its cleanup, dispose waits and returns |
| Inbound budget (`admitFrame`, same file) | tokens, time of refill, end of the notice window | one per frame | rounding, refills by dropped frames | rate, spacing of notices, truth of `retryAfterMs` |
| Local router (`server/router.ts`) | `channelMembers`, `clientChannels`, `subscriptionTokens`, `pendingSubscriptions` | subscribe, unsubscribe, fan-out, publish check, filter, removal | admission and delivery are asynchronous; leaving and coming back in between looks like staying | no delivery to a lapsed subscription, none without a current permission, no revived membership, mirrors agree |
| Verdict cache (`server/authority/verdictCache.ts`) | entries, three indexes, calls in flight | check, invalidate, disconnect | a host read overtaken by a write, an epoch bump or a disconnect | a served verdict is current; indexes and bound hold; no call that runs at the disconnect leaves an entry |
| Redis peer router (`server/RedisRealtimeRouter.ts`) | lease, registrations, user index, seen frames, pending requests | start, register, remove, look up, send, receive, receipt, shutdown | crashes and fencing between any two commands; lost, late and duplicated frames; ids that move between nodes | one serving connection per client; complete index; at-most-once writes to the captured connection; honest receipts; live origins |
| Collaborative documents (`server/CRDTService.ts`, `SnapshotManager.ts`, `IdleEvictionManager.ts`) | `channelStates`, remote buffer, write queue, dirty counter, timers, hot cache | subscribe, update, save, restore, clear, delete, evict, sweep | the document changes while a snapshot of it is written; failing stores; eviction | clean means stored; acknowledged means stored; the rest is flushed |
| Operation scopes (`server-ws/authorityScope.ts`) | memo of proofs per operation, publish proofs | share, invalidate, retain, close | invalidation while a proof is computed | no proof outlives its operation or a revocation |
| Authority engine (`server/authority/engine.ts`, `families.ts`, `bearer.ts`) | none between checks | decide | - | answers of the rules |
| Calls (`call/CallService.ts`, `CallStateStore.ts`) | calls, seats, invitations, rejoin grace, per node and shared | invite, accept, seat, leave, rejoin, sweep | two tabs or nodes for one seat; the grace against a rejoin; a store that fails; departures told across nodes | one seat per user; whoever is gone is off the roster; seats and indexes agree |
| Client socket (`client/useWebSocket.ts`, `sharedSocketTransport.ts`) | current socket, session gate, queue, fallback and backoff timers; held channels with the session they were asked in | connect, reconnect, disconnect, send, hold, release | events of replaced sockets, timers left armed, deferred releases, sessions that begin between a hold and its answer | one socket; the server's subscriptions are the held channels |
| Live views (`client/liveRefresh.ts`, `useLiveRefresh.ts`) | read in flight, queued read, timers, liveness | hint, poll, read, mount, unmount | hints lost with a socket or merged into a read that began before them | a view that says live is subscribed, and shows the record as it is |
| Chat (`chat/`) | caches, stores, receipts, unread | join, send, history, read | rechecks after persisting | only current readers see a message |
| Presence (`presence/`) | three mirrors, stored entries | set, subscribe, disconnect, sweep | disconnects against sets | no ghosts; only authorized entries |
| Rooms (`room/`) | members per node, shared store, occupancy cache | join, leave, list, deltas | two sources merged, debounce | occupancy converges |
| Meetings (`meeting/`) | document per meeting, promise chain, timers | host commands, breakouts, hands | read, change and write across nodes | no lost command; timers end breakouts |
| Documents' side state (`server/DocumentPresenceService.ts`, `Awareness*.ts`) | presence, awareness ids, batches | update, coalesce, leave | a leave against a coalesced batch | no awareness after leaving |
| File uploads, notifications, reactions, cursors, activity, social, ingest, typed documents, pipelines, agent streams, work graph | small maps each | relay, replay, resume | replay against live events | order and completeness per viewer |
| Stores, composition | persistence; resources | read and write; start and clean up in reverse | I/O | contracts assumed by the parts above |
| Browser hooks, video, voice, effects, editors, decks | view state | rendering, media | I/O | - |

How they interact: the handler calls a service's `onClientConnect`, `handleAction`
and `onClientDisconnect`; services call the router's `subscribe`, `unsubscribe`
and `sendToChannel`; the handler's cleanup ends in the router's `removeClient`;
the router asks `authorize`, which the host may have wrapped in the verdict
cache, before an admission, before a publish and again per recipient; the local
router hands its frames to the Redis router, which hands frames of peers to the
local router of their node. `CRDTService` is one of the services and sends its
updates through the router. The code runs on one thread per node: what
interleaves are the stretches between awaits, and those are the actions here.

`PROJECT.json` lists every part under `components`, and under `hazards` the
places in the code where such an interleaving, a failure or a boundary bites,
each with the properties that watch it.

## The modules

| Module | Code | Proofs | Constants for TLC |
|---|---|---|---|
| `VerdictCache` | `server/authority/verdictCache.ts` | `VerdictCacheProofs` | `MCVerdictCache` |
| `LocalRouter` | `server/router.ts` | `LocalRouterProofs` | `MCLocalRouter` |
| `WsConnection` | `server-ws/createWsHandler.ts` | `WsConnectionProofs` | `MCWsConnection` |
| `InboundBudget` | `admitFrame` of the same file | `InboundBudgetProofs` | in the `.cfg` |
| `ClusterRouter` | `server/RedisRealtimeRouter.ts` | `ClusterRouterProofs` | `MCClusterRouter` |
| `CrdtDocument` | `server/CRDTService.ts`, `SnapshotManager.ts`, `IdleEvictionManager.ts` | `CrdtDocumentProofs` | in the `.cfg` |
| `SharedSubscription` | what the shared transport promises; implemented by `ClientSocket` | `ClientSocketProofs` | - |
| `ClientSocket` | `client/useWebSocket.ts`, `sharedSocketTransport.ts`, with the server's session frame and subscribe service | `ClientSocketProofs` | in the `.cfg` |
| `LiveView` (extends `ClientSocket`) | `client/liveRefresh.ts`, `useLiveRefresh.ts` | `ClientSocketProofs` | in the `.cfg` |
| `CallSeats` | `call/CallService.ts`, `CallStateStore.ts` | `CallSeatsProofs` | `MCCallSeats` |

An action is the code between two awaits. A few definitions stand beside the
one the model uses and say what a plausible mistake there would do
(`LocalRouter` has the admission that ignores an unsubscribe, `ClusterRouter`
`PruneBlindly` beside `Prune`, `WsConnection` `HandlerReturnsAnyOrder` beside
`HandlerReturns`); `PROJECT.json` lists them under `mutants`, each with the
property that then fails.

### VerdictCache

A check either finds an entry that is young enough and was proved under the
context and the epoch of now, or starts a host call (`inFlight`). Nothing there asks
whether the connection is still open, and its caller may carry any context the
connection has had (`ctx`); `late` is history and marks a check that began after the
connection's disconnect ran `invalidateConnection`. The host reads its rows in a step of
its own, and the return stores a positive answer unless the call was tainted meanwhile.
Around it the host writes memberships
(and announces the write later, with `invalidate`), bumps epochs, replaces
contexts and closes connections. `grants` is what the host's rows say;
`dueBase`, `dueUser` are writes announced to nobody yet: the cache can only
be as fresh as the announcements, and `ServableVerdictsAreCurrent` says it is.
A batch check is its recipients' checks run back to back.

### LocalRouter

`members`, `joined` and `token` are the three maps of a subscription.
`admission` holds the subscribes waiting for `authorize`, `frame` the fan-outs:
publish check, capture of recipients, the check of each, the filter, the
hand-over. Contexts and subscription tokens are JavaScript objects compared by
identity; a new one is any value nothing refers to. `lapsed`, `allowed`,
`asked`, `got` are history: what happened to a recipient since the frame took it.
The environment closes and reopens sockets, and changes what the host allows.

### WsConnection

`phase` is where a connection is: authenticating, in the `before` hook, telling
services one by one, rolling that back, up, draining, cleaning up, done. Frames
wait in `queue`, in the order they were accepted, for their lane: a service named in
`independentServices` has its own, the others share one; only a lane's first frame is
being handled (`Started`). The drain waits
for all lanes or for its five seconds, whichever is first. `stage` follows
`dispose` through closing the sockets, the registrations, the cleanups. A
service is reduced to the clients it `known`s, which is what ghosts are about.
Time and tokens are in `InboundBudget`.

### InboundBudget

Tokens are counted in `1/Unit`s of a frame, of which `Rate` come back each millisecond.
The code adds doubles, so a refill (`Refills`) and the time a notice tells (`Notify`)
may each come out up to `Err` such parts to either side of the exact value. Assumed of
`Err` is only what makes doubles good enough: all the roundings of one wait (`Slack`) come
to no more than what a millisecond brings back. `Math.ceil` of the missing tokens is
`RetryAfter`. `Date.now` is assumed not to step back.

### ClusterRouter

An incarnation (`Instances`) acquires its node's owner key, is live, and ends by
a fence, a crash or a shutdown; the node may start again as another incarnation.
Redis is `owner`, `reg` and `index`; each command or script is one atomic step and
anything may happen before its reply is handled. A connection goes through
`conn`: added locally, registered, up, leaving. A frame, once published, stays on
`wire`: it may be received late, twice or never. `msg` is the sender's view,
`seen` each receiver's, `receipts` what came back. A send whose registration is the node's
own is written on the spot, to whatever connection has the id then
(`SendToClient`, `RedisRealtimeRouter.ts:427-430`): the registration is what it looked up,
not what it compares.

Assumed: the lease (`FencedLease` of distributed-core) is external, and an
incarnation that believes it is live still has its keys; a registration's
reply comes within the lease; the seen-frame memory and the user index do not
expire within a behaviour; a lookup's second read is taken at once.

### CrdtDocument

`states` are the `ChannelState` objects of one channel, `resident` the one in the
map: after an eviction or a delete a new one is created while old handlers may
still hold the old. A Yjs document is the set of updates merged into it. `queue`
is the chain of snapshot writes; the first is running and has `took` what it
writes. When it ends, its caller continues (`turn`) before any other event, but
after the next write has read the document: that is the order of microtasks the
code produces, and the model keeps it. `ops` is the dirty counter, `buffer` the
peer updates that arrive before hydration is over.

Assumed: the idle period (ten minutes) is longer than a load or a write, so one
eviction is under way at a time; the store's contract is that a write is kept or
fails. The hot cache may fail at any call (what it had stays) and expire at any time.

### SharedSubscription, ClientSocket

`SharedSubscription` is the abstract promise: consumers want channels (`wanted`); the
present session has been `asked` for channels, only for wanted ones, and leaves
only unwanted ones; and another session may take its place, asked for nothing.

`ClientSocket` has every socket the hook ever made (`phase`), of which `current` is
`wsRef`; the events of the others are ignored, as in the code. `established` is
the session gate, opened by the session frame or by the `fallback` timer; frames
before it wait in `queue`. `backoff` is the reconnect timer. What the hook sets
(`react`) reaches the transport (`shown`) in `Commit`, a step of its own, because
React renders later. The transport keeps, by channel, the count of holds, the
session the subscribe was sent in and the last answer (`held`); the last release
waits in `pending` for the microtask `Flush`. `InMicrotask` says that no timer or
event comes before that microtask, which is so for the default
`scheduleRelease` and not for one the host brings; without it
`SubscriptionsFollowHolds` fails, in the model as in the code. The server end greets a socket
(`greeted`), serves its frames in order and answers (`subs`, `replies`).
`wire` and `replies` are per socket, in order, and lost when it closes.

In the refinement, `wanted` is the channels with a positive count, `session` the
current socket, and `asked` is what the session's server will have answered once the frames already on
the wire are served (`AskedBy`): a frame sent counts, since it cannot be
overtaken. A frame that waits for the session holds no subscription, because the
transport learns of a session only after the gate is open.

`doubted` is history: an answer carries a channel and nothing that says which
subscribe it answers, and `sharedSocketTransport.ts:264` takes it for the last
(the comment at `:195` says so). A channel is in doubt from an answer with a later frame
about it still on its way, or that frame's answer, until the answer to the last frame
arrives.

Assumed: React commits before the next socket of the hook opens; the constructor of a
socket throws only when no socket is current; other consumers of
`send` publish only (`Publish`), before the session. Left out: `autoResubscribe`, which the
shared transport does not use, session persistence, error frames, the pipelines'
adapters, the server refusing without an answer, and the overflow
of the server's thirty-two buffered frames.

### LiveView

`reading` is the read in flight, which the record's service answers (`Answer`)
before the view handles it (`ReadEnds`), so a write may come in between; `queued`
is the one behind it. `seen` is what the listener of channel states last set,
`seenShown` the same as rendered, `Live` what the render finds and `live` what its
passive effect has told the loop. `blind` is history: the record moved while the channel
was in doubt and the server had it unsubscribed, so that no frame told the view, and no
read has been answered since. A frame of the channel is a hint (`Hints`), read at
once or after `coalescing`. A hidden document, `isRefusal` and changes of `key` are
left out.

### CallSeats

One page huddle: one call id, which a lobby's claim gives the first joiners, later ones adopt
and a client that outlived a huddle may bring back. `store` is the shared record:
the call, its `roster`, the accepted `seat` of each user, the indexes by client and
user, the accepted marker. `entry` is each node's `activeCalls.get(callId)`, and
`hand` the handler of a client's present frame or close:

- `call_join`: `JoinLooks` (does the store know the call?), `JoinReaps` (probe and reap
  the dead), `JoinReads`, `JoinClaims` (`claimAcceptedSeat`), `JoinCreates`,
  `JoinReplaces` (the seat was another socket's), `JoinUndoes` (it lost);
- `call_rejoin`: `RejoinReads`, `RejoinResumes` (`resumeParticipant`), `RejoinSeats`;
- the terminal verbs: `LeaveRemoves`, `LeaveEnds`;
- a closed socket: `Disconnects`, `DropEnds`, and `DepartureHeard` on the other nodes;
- the rejoin grace: `GraceExpires`, `GraceTells`, `GraceForgets`.

A handler's step is one awaited store command with all the node does on its answer, up to
the next. Nothing is lost by that: a node's commands reach the store in the order
they were sent and their answers come back in that order, so what happens at the node
between a command and its answer could as well have happened before the command.
Commands nobody awaits are in `queue[n]` and run in that same order (`StoreRuns`).
`Probed` is what the liveness probe may find: a node knows its own closed sockets;
another's lease may or may not have run out. Departures may overtake each other and
are not lost.

Assumed: a store command is one step, as in `InMemoryCallStateStore` (Redis's
claim and resume are Lua scripts; its register, remove and forget are several
commands); the handlers of a socket have drained when its close is handled (the
five-second bound is not reached); one expired grace is handled at a time on a
node; the user index does not shrink; a node's rosters are either restored or
not yet at a restart, and both are allowed. `publish` is awaited only where it
decides the order, in the grace; `take` and `forget` of one handler are one command,
as are the removals of several moved seats. Left out: the paths
before the store is ready, calls of the other kinds (two-party, document, room),
invitations, expiry of the store's keys, young seats that are not yet mirrored.

## The runs

| Run | Module, cfg | Distinct states | Checks |
|---|---|---|---|
| `verdict_cache` | `MCVerdictCache`, `VerdictCache.cfg` | 723,240 | `ServableVerdictsAreCurrent`, `IndexesAgree`, `OneProofPerConnection`, `SizeBound`, `NothingAfterDisconnect` |
| `local_router` | `MCLocalRouter`, `LocalRouter.cfg` | 137,992 | `DeliveredToUnbroken`, `DeliveredToAllowed`, `MirrorsAgree`, `MembersAsked` |
| `ws_one` | `MCWsConnection`, `WsConnectionOne.cfg` | 8,023 | `NoGhosts`, `LastFrameWins`, `ClosedIsCleaned`, `DisposeReturns` |
| `ws_two` | `MCWsConnection`, `WsConnectionTwo.cfg` | 422,549 | `TypeOK`, `OneOwner`, `ToldOnce`, `NothingHeldWhileDisposing`, `DisposedIsQuiet` |
| `inbound_budget` | `InboundBudget`, `InboundBudget.cfg` | 453,727 | `RateKept`, `NoticesSpaced`, `PromiseKept` |
| `cluster_directory` | `MCClusterRouter`, `ClusterRouterDirectory.cfg` | 716,160 | `TypeOK`, `IndexComplete`, `OneConnectionPerClient` |
| `cluster_sends` | `MCClusterRouter`, `ClusterRouterSends.cfg` | 975,411 | `WrittenOnceToCaptured`, `HonestReceipts`, `DeliveredFromLiveOrigin` |
| `crdt_document` | `CrdtDocument`, `CrdtDocument.cfg` | 933,294 | `CleanIsStored`, `AckedIsStored`, `UnsavedIsFlushed` |
| `crdt_eviction` | `CrdtDocument`, `CrdtDocumentEvict.cfg` | violated | `EditsStayDirty` |
| `live_view` | `LiveView`, `LiveView.cfg` | 497,629 | `LiveIsTrue`, `LiveIsFresh`, `SubscriptionsFollowHolds`, `FramesStayOnTheirSocket`, `FollowsThePromise`, `HeldIsAsked`, `WritesAreShown` |
| `client_reconnect` | `ClientSocket`, `ClientSocketReconnect.cfg` | violated | `OneOpenSocket` |
| `call_seats` | `MCCallSeats`, `CallSeats.cfg` | 4,035,803 | `OneSeat`, `NoGhosts`, `SeatsKnown` |

### Bounds, and why they are enough

- `verdict_cache`: one connection, three router names of one base channel, two
  contexts (one without a user), a cache of two entries, one host call at a time,
  an epoch that moves once and a clock that moves once. Entries of different
  connections meet only in the indexes and in eviction; three names in two slots
  make each store evict, the shared base makes each invalidation touch several
  entries. Calls of several keys share nothing but the taint that every
  invalidation applies to each.
- `local_router`: one client, one channel, two overlapping admissions, one frame.
  Every fence is per client and channel; what makes them fail is the same client
  leaving and returning, for which there are enough contexts (four) and tokens
  (three) that a fresh one always exists. The host may answer synchronously
  and a filter is configured, so both orders are there.
- `ws_one`: one connection on two lanes with three frames, a buffer of two: a
  frame is refused by the full buffer, a lane has a running and a waiting frame.
  Ids are not reused here, which `NoGhosts` and `LastFrameWins` need.
- `ws_two`: two connections whose generator may repeat an id, buffered frames off
  (`BufferMax` 0), one frame each: enough for a handler to outlive a drain.
- `inbound_budget`: a frame costs 20 units, 9 come back per millisecond, so refills
  are fractional at every step, and each may be off by one, which over the three
  milliseconds of a wait is `Slack` = 4 units: coarse beside doubles, and enough for frames
  dropped in between to lose the token; a bucket of two frames, a window of four ms, and
  fourteen ms: an empty bucket fills and empties again and several windows pass.
- `cluster_directory`: node `a` in two incarnations, node `b` in one, two
  connections of one client, each wherever it likes, one lookup per asker at a
  time, one incarnation that ends. The directory is kept per client; a
  takeover, a late removal and a prune need two connections and one end.
- `cluster_sends`: one message, direct, channel or event, between two nodes, with the far
  connection replaced by a second one, also between its loss of the id and its removal
  from the directory, and either router ending once. A message's
  writes, receipts and seen-state are its own.
- `crdt_document`: an editor and a manager (roles bound who does what), one own
  and one peer edit, two channel states (so one eviction or delete and a
  reload), one store failure, one command (save, restore, clear, delete or
  restart), a write queue of two, snapshots after two operations, a buffer of one
  peer update. `MaxFailures` also means that the store fails finitely often,
  without which `UnsavedIsFlushed` could not hold.
- `live_view`: a view and at most one more hold of its channel, so a release may or
  may not be the last and may be undone before its flush; two sockets and one retry, so a session is
  lost and another begins, or none; one write, before, during or after any of it; a
  queue of one, which other frames overflow. The second channel is held, flushed and
  subscribed beside the view's (only while the view is not mounted, `Others`, and without
  frames of its own, `Spoken`): it is there because what one channel's release or
  re-subscription does must leave the other alone. `CoalesceFires`, polls and failures are nondeterministic.
- `call_seats`: three clients of two people on two nodes, one person with a tab at each
  (the case of every claim, replacement and resume), the other with two frames (so
  it can join or return and leave), the tabs with one each. A huddle is
  begun, grows to two people, is left by hang-up and by drop in either order, its
  grace runs on either node, and it is begun again. Larger instances (two frames
  for a tab, both tabs on one node) were also run and found nothing else.
- `client_reconnect` uses the smallest instance in which the case arises;
  `crdt_eviction` one editor with two edits and snapshots only after fifty operations (the
  default, `config.ts`), so that the second edit does not queue a write by its count.

Where `CHECK_DEADLOCK FALSE` is given the system may really stop: a disposed
handler (`ws_*`), incarnations that all ended (`cluster_*`), a document whose
bounded edits and commands are used up (`crdt_*`), a client whose retries are used
up (`live_view`, `client_reconnect`), a huddle whose frames are (`call_seats`).

### What the properties say

Each is stated above its definition. In short:

- **Freshness.** `ServableVerdictsAreCurrent`: whatever the cache would serve now is
  what the host would answer, unless the write that changed it is still to be
  announced. `DeliveredToAllowed`: who got a frame was allowed during that very
  fan-out. `DeliveredFromLiveOrigin`: a peer's frame was checked against an owner
  and a publisher that stood when it arrived.
- **No resurrection.** `DeliveredToUnbroken`, `MembersAsked`, `NoGhosts`,
  `NothingAfterDisconnect` (of verdicts asked for before the disconnect),
  `NothingHeldWhileDisposing`: what ended does not come
  back through an answer that was on its way. `PromiseKept`: a client that waits as told is
  not put off by what was dropped meanwhile. `CallSeats!NoGhosts`: once all is
  handled, no closed client is on a roster.
- **Exactly once, one owner.** `ToldOnce`, `OneOwner`, `WrittenOnceToCaptured`,
  `HonestReceipts`, `OneConnectionPerClient`, `OneSeat` (of a person in a huddle),
  `FramesStayOnTheirSocket`.
- **Pieces of state that must agree.** `IndexesAgree`, `OneProofPerConnection`,
  `MirrorsAgree`, `IndexComplete`, `CleanIsStored`, `SubscriptionsFollowHolds`
  (server and transport at rest), `SeatsKnown` (a node's own seats and the store's
  roster), `LiveIsTrue` and `LiveIsFresh` (what a view says and shows, against
  the server and the record).
- **Implementation.** `FollowsThePromise`: `ClientSocket` implements `SharedSubscription`.
- **Progress.** `ClosedIsCleaned`, `DisposeReturns`, `UnsavedIsFlushed`, `HeldIsAsked`,
  `WritesAreShown`.

### Limits of the properties

- `NoGhosts` excludes a connection cleaned up by the drain timeout
  (`late`): the comment at `createWsHandler.ts:418` accepts that a handler that
  outlives five seconds may still run. `NoGhosts` and `LastFrameWins` are for ids
  that are not reused: with a repeating generator the hooks still running for the
  first holder forget the second (a hazard with a note).
- `AckedIsStored` speaks of edits that the live document holds, when that is the document
  the handler merged the edit into. A save whose document was dropped resolves without
  writing: see *An acknowledged edit of a dropped document* below.
- The hot cache is not compared with the store on reload: with the eviction that
  overlaps a reload it can be the older of the two (a hazard with a note).
- `CallSeats!NoGhosts` and `SeatsKnown` leave out the clients of `stranded`: see
  *A seat granted to a rejoin the node refuses* below.
- `LiveIsTrue` is said of a render with nothing more to render, that is, while neither the
  socket's state nor a refusal waits for one, and leaves out a channel whose last
  answer was to an earlier frame (`doubted`), until the answer to the last one.
  `LiveIsFresh` and `WritesAreShown` have no such exception for the channel, only for a write
  made unheard in that time (`blind`): see *A live view that missed a write* below.
- `NothingAfterDisconnect` leaves out checks that begin after the disconnect, and
  `PromiseKept` is true to the millisecond: see *A check after the disconnect* and *A retry
  a rounding too early* below.
- `WrittenOnceToCaptured` allows a send on the spot to be written to a connection other
  than the registered one, if that one has left the handler: see *A message for the
  next connection*.

### Fairness

- `WsConnection`: hooks return, timers fire, a destroyed or closing socket closes,
  each weakly fair: they are awaited promises of code that returns, Node timers
  and `ws`, which closes a closing socket itself after thirty seconds. Frame
  handlers and authentications have no fairness, since the drain timeout is there
  for handlers that never return; nobody has to connect, send, close or dispose.
- `CrdtDocument`: continuations of ended writes, the store's answers and the
  sweep's interval, weakly fair. That a store fails is not fair, and is bounded.
- `LiveView`: microtasks run, React commits and runs effects, timers fire, the server
  greets and serves an open socket and what it sends arrives while the socket
  lasts, each weakly fair; a read succeeds if it is made again and again (strong
  fairness of `ReadEnds(FALSE)`), since a record's service that always fails shows
  nothing. Nothing obliges a socket to close, a user to mount, hold, release,
  publish or reconnect, or the record to be written.
- The others state safety only. A send need not end in Redis, a host need not
  answer, and the code promises nothing then.

## The proofs

Every theorem is for all values of the constants that satisfy the `ASSUME` of
its module; TLC evaluates each `ASSUME` in the passing runs. Each proof has the same
shape: an inductive invariant, one lemma per group of actions that says which
part of it they can disturb, a step theorem by cases on `Next`, and one temporal
step (`PTL`).

| Theorem | States | Inductive invariant |
|---|---|---|
| `VerdictCacheProofs!TypeCorrect` | type correctness | `TypeOK` |
| `VerdictCacheProofs!VerdictsCurrent`, `IndexesCorrect`, `DisconnectFinal` | `ServableVerdictsAreCurrent`, `IndexesAgree`, `NothingAfterDisconnect` | `CurrentInv` |
| `VerdictCacheProofs!OneProof`, `Bounded` | `OneProofPerConnection`, `SizeBound` | the property itself, `Sized` |
| `LocalRouterProofs!Deliveries`, `Mirrors` | `DeliveredToUnbroken`, `MirrorsAgree` | `DeliveryInv` |
| `LocalRouterProofs!Asked` | `MembersAsked` | `AskedInv` |
| `LocalRouterProofs!Allowed` | `DeliveredToAllowed` | `AllowedInv` |
| `WsConnectionProofs!SingleOwner`, `NothingHeld` | `OneOwner`, `NothingHeldWhileDisposing` | `Registrations` |
| `WsConnectionProofs!Quiet` | `DisposedIsQuiet` | `Disposal` |
| `WsConnectionProofs!HooksPaired` | `ToldOnce` | `Hooks` |
| `WsConnectionProofs!Typed` | `TypeOK` | `Types` |
| `WsConnectionProofs!NoGhostsLeft` | `NoGhosts`, assuming `[]NeverReused` | `Hooks`, `Ghosts` |
| `WsConnectionProofs!LastFrameStays` | `LastFrameWins`, assuming `[]NeverReused` | `Ghosts`, `Types`, `Follows` |
| `InboundBudgetProofs!Rated`, `Noticed`, `Promised` | `RateKept`, `NoticesSpaced`, `PromiseKept` | `Paid`, `Spaced`, `Promise` |
| `ClusterRouterProofs!Indexed`, `ServedOnce` | `IndexComplete`, `OneConnectionPerClient` | `Directory` |
| `ClusterRouterProofs!Typed`, `WrittenOnce`, `Honest`, `LiveOrigin` | `TypeOK`, `WrittenOnceToCaptured`, `HonestReceipts`, `DeliveredFromLiveOrigin` | `Messages` |
| `CrdtDocumentProofs!DocumentsHold`, `CleanDocumentsAreStored` | the invariant itself, `CleanIsStored` | `Documents` |
| `CrdtDocumentProofs!Answered`, `Acknowledged` | the invariant itself, `AckedIsStored` | `Documents`, `Acknowledging` |
| `ClientSocketProofs!Gated`, `FramesStay` | the invariant itself, `FramesStayOnTheirSocket` | `GateInv` |
| `ClientSocketProofs!Promise` | `FollowsThePromise`: `ClientSocket` implements `SharedSubscription` | `GateInv` |
| `ClientSocketProofs!Subscribed` | `SubscriptionsFollowHolds`, assuming `InMicrotask` | `GateInv`, `FollowInv` |
| `ClientSocketProofs!Viewed`, `ViewTyped` | the invariant itself, `ViewTypeOK`, assuming `InMicrotask` | `GateInv`, `FollowInv`, `ViewInv` |
| `ClientSocketProofs!LiveTrue`, `LiveFresh` | `LiveIsTrue`, `LiveIsFresh`, assuming `InMicrotask` | the same |
| `ClientSocketProofs!ViewImplementsSocket` | `LiveView` implements `ClientSocket`: what holds of the socket holds under the view | - |
| `CallSeatsProofs!Typed`, `OnePersonOneSeat` | `TypeOK`, `OneSeat` | `IndInv` |
| `CallSeatsProofs!NoGhostCalls`, `SeatedClientsKnown` | `NoGhosts`, `SeatsKnown` | `SeatsInv` |

Why the strengthenings are needed:

- *Verdict cache.* A served entry is current only because every entry, served or
  not, was proved under an epoch its principal has had (`EntriesFaithful`) and
  is granted, or about to be revoked by an announcement still due, under the
  present one (`EntriesCurrent`). That survives the store at the end of a host
  call because the same holds of the calls in flight that are not tainted
  (`CallsCurrent`), and an announcement reaches all of an entry's copies
  because the indexes are exact (`IndexesAgree`). After a disconnect every call that runs for
  the connection is tainted, or began late and marks its entry so (`PurgedCallsTainted`). One proof per connection follows by
  itself, since `store` drops a connection's entries of another proof before it adds;
  the bound needs only that the map stays finite (`Sized`).
- *Local router.* A recipient whose subscription lapsed still waits in the
  fan-out; what stops it is that the context or token it captured no longer is
  the present one (`LapsedCannotPass`). Freshness of new objects keeps it so
  when the client returns, and a lapse that changed neither is excluded by
  `MirrorsAgree`. That members asked holds because every leave cancels the
  admissions under way (`PendingAsked`); that recipients were allowed, because whom the host
  has said yes to, and whom it allows while hand-overs are decided, is in the
  frame's history (`FrameAllowed`).
- *WebSocket handler.* One holder per id follows from the registry naming each
  connection that holds an id until `dispose` clears it (`Owned`); that nothing is
  held while disposing, from every step that registers or starts a keepalive
  looking at `disposing` after its last await. An auxiliary invariant (`Tracked`)
  says that a close is handled only for connections that hold their id, so that
  a cleanup frees no other's. For `dispose`, each stage waits for a set captured at its
  start, so what is invariant is that from that stage on nothing outside the set
  can be where the stage waits (`Disposal`). Who was told of a client's end is read off
  how far the list of hooks has come (`Hooks`: `Left` is what it still
  holds, `Told` whom it has told). A ghost is excluded because whoever
  knows a client is on that list, and nothing is queued for it before it is up or after
  its drain (`Ghosts`); this needs ids that are never reused, which the code leaves to the
  host's generator.
- *Order of frames.* Frames of different lanes overtake each other, those of one service
  never do. What is invariant for each service is that the last of its frames among those
  waiting is the last one accepted, or, when none waits, that it has had its effect
  (`Follows`). Taking a frame out of the middle of the queue keeps that because a started
  frame has none of its lane, so none of its service, before it.
- *Inbound budget.* The admitted frames alone are not bounded inductively: the most
  the bucket may hold after a refill (`Most`) must be counted with them (`Paid`). For the
  promise, what may be missing at each moment of a wait is bounded by what was missing at the
  notice, less what came back, plus a rounding for each millisecond gone by, however many
  frames were dropped in them (`Promise`). The arithmetic
  is linear once the refill is split at the brim.
- *Peer router.* Two live routers cannot both serve a client because what a live
  router serves over an open socket is what Redis has registered (`Current`), and
  a registration has room for one. `Current` is kept by a late reply, removal or
  expiry because a router holds registrations of its own connections only, under
  their client id (`Held`, `Placed`), and a removal script runs only for one it
  no longer holds (`Removing`).
- *Frames between peers.* The properties speak of one side of a message each; what is
  invariant ties the two (`Messages`). What was written of a message is read off its
  receiver's verdict on the frame, or the sender's result if it never left
  (`Wrote`): so it is written once because a frame is seen once, and a receipt is true
  because it tells that verdict. Which connection that can be is `Reached`: over the wire
  the target, on the spot whichever has the id, which is the target unless the target has
  left, since of two connections with one id only one is in its handler's map
  (`OneEntry`). That the frame can only be written at the incarnation it was addressed to
  needs registrations to stay where they were made (`Known`, `Moves`). A frame that was not sound on its arrival cannot pass the later checks
  since neither an ownership nor a registration comes back (`Sound`).
- *Documents.* The end of a write subtracts the operations it took from the
  counter. `Covers` says that if the document is still of the edition the write
  took and has counted no operation since, then all it holds is in the store, in
  what it was loaded with, or in the write: only then does the subtraction give
  zero. `Handlers` keeps the documents that handlers hold among those created,
  and a restore's target among the stored versions.
- *Acknowledgements.* What `handleUpdate` awaits is a write of whatever document is live when
  its turn comes. If that is the document it merged into, it has been live since, because a
  document that was dropped never comes back (`Moves`); the handler is in the line once,
  behind its merge (`InLine`), so what the write captured holds the update or the update
  was taken out by a restore or a clear, which bring back only what is stored. An
  update that is live and not stored is therefore in the running write, waits for the
  next, or has been told that its write failed (`InDoubt`, `Sure`). No other handler brings
  the same update in meanwhile (`SentOnce`).
- *Client socket.* What waits for a session waits on the open current socket and
  holds no subscription (`GateInv`): the gate of a session opens before React tells
  the transport of it, and each step that changes the current socket empties the
  queue. So only frames on the current socket's wire count for `asked`, and each
  step of the transport adds frames of one kind there, which `AskedBy` composes
  over (the lemmas on concatenation and on the head).
- *Subscriptions.* That holds and subscriptions agree at rest needs to be known
  on the way: in a session the transport knows (`Knows`), the frames and answers
  under way about each channel end in what its hold says (`Follows`: the last frame on
  the wire, or else the last answer). `Counted` ties the map to the counts and to
  what waits for the flush; `Told` and `Unasked` say that no session is known
  before it is shown and that nothing is under way in one that is not. The flush
  must come before the next event: that is `InMicrotask`.
- *The view.* `LiveIsTrue` compares a render with the server, which hear of each other over
  two queues. An answer that is not in doubt, in a session the transport knows, answers the last
  frame about its channel, so nothing about the channel is under way (`Answered`), and from
  `Follows` it is what the server has. `Rendered` says that a channel a render shows as
  answered, in the session it shows, still is answered; a new session forgets every
  answer, and `Dated` keeps sessions from coming back. `LiveIsFresh` says that nothing
  was missed but what moved unheard, so the invariant lists, of a view that is not `blind`,
  how it may still come to read (`Catches`): the read under way was answered with the
  present version, another read is asked for or queued, or a hint is coalescing or among
  the replies still to arrive; a write to a subscribed channel adds that hint. Becoming live asks for a read itself (`SetLive`).
- *Seats.* `OneSeat` is about two clients of one user on a roster; the invariant is
  about each alone: who is on the roster and past its claim is whom the seat of its user
  names (`SeatsHeld`). Each store command keeps it by itself (the first six
  lemmas), whichever order the nodes' commands arrive in; a client whose claim is
  under way (`Undecided`) is the exception, and ends as such by winning,
  or by the undo. `NoGhosts` and `SeatsKnown` speak of a moment when all is handled; what
  holds before is an account of the roster (`Accounted`): who is on it is in the entry of its own
  node, or a command that takes it out is queued there, or its own handler is about to
  seat it or to take it back, unless it is `stranded`.

Model-checked only: the five liveness properties (`ClosedIsCleaned`, `DisposeReturns`,
`UnsavedIsFlushed`, `HeldIsAsked`, `WritesAreShown`), since fairness and `ENABLED` are out of
the prover's reach. Every invariant and action property of the passing runs is a theorem, and so is
`FollowsThePromise`. No module uses a `RECURSIVE` operator, and no theorem needs
induction over data.

## What the checks found

- **An edit is lost to the idle eviction** (`crdt_eviction`,
  `src/server/CRDTService.ts:203`). The eviction callback checks that nobody is
  subscribed, awaits a final snapshot, and then drops the document
  unconditionally. An edit without an `updateId` applied during that write is neither in the
  snapshot nor in memory afterwards; its debounce timer, which was to write it, is cancelled.
  Only the hot cache may still have it, where there is one, the save to it succeeded and
  it has not expired; in the run's trace that save fails. `CHANGELOG.md:2210`
  says that edits arriving during a write remain dirty.
- **A second socket after `reconnect()`** (`client_reconnect`,
  `src/client/useWebSocket.ts:786`). `reconnect()` leaves a backoff timer that is already
  armed; its firing replaces the socket `reconnect()` made without closing it. The
  comment says "close existing socket", and `docs/USAGE-PATTERNS.md:20` that the
  provider owns a single connection.

Remarks without a run of their own:

- *A miss keeps old entries.* `verdictCache.ts:17` says that a different epoch "is a
  miss and drops every entry of that connection"; `lookup` returns before that
  (line 183) when the key itself has no entry. The entries kept are never served
  (`ServableVerdictsAreCurrent` holds): a disagreement of words.
- *A check after the disconnect.* `check` has no test of the connection
  (`verdictCache.ts:236-262`), and the wrapper that revalidates the principal awaits
  before it calls the cache (`principal.ts:83-112`). A check delayed there until after the
  close and `invalidateConnection` has nothing in flight to be tainted, and its
  answer is stored, although `verdictCache.ts:38` says "The connection's entries are dropped
  when it closes". The entry is not served wrongly (`ServableVerdictsAreCurrent` holds, and
  `IndexesAgree`), but only an eviction, an invalidation of its channel or user, or a later lookup
  for the same connection takes it out.
- *A retry a rounding too early.* `tokens + ((now - refilledAt) / 1000) * rate` is in doubles
  (`createWsHandler.ts:353`). At fifty frames a second an empty bucket says 20 ms; frames
  dropped every 2 ms add 0.1 ten times, which makes 0.9999999999999999 < 1, and the
  frame at the promised time is dropped. A millisecond later it is admitted: `PromiseKept`
  says that this is the worst case.
- *A message for the next connection.* The handler frees a client's id before it awaits
  its disconnect hooks (`createWsHandler.ts:429`), so another connection may take the id
  while the directory still has the old one's registration. A send from the same node finds that
  registration, writes to whatever connection has the id, and reports success
  (`RedisRealtimeRouter.ts:427-430`); from a peer the frame names the registered connection and
  is written to it or to none.
- *A live view that missed a write.* Subscribe, unsubscribe and subscribe again, with the
  first answer arriving after the last frame was sent: the transport takes it for
  the answer to that frame (`sharedSocketTransport.ts:264`), and the view becomes live and
  reads. A write that follows while the server still has the channel unsubscribed sends
  the view no frame, and the second answer changes no state (`:179`), so nothing reads again
  until the next hint, the safety read or a poll. With `livePollMs` 0 the view stays live and
  old, against the catch-up `liveRefresh.ts:12` describes. TLC finds it as a violation of
  `LiveIsFresh` and `WritesAreShown` when `blind` is taken out.
- *A seat granted to a rejoin the node refuses.* The last local hang-up deletes a
  node's entry between a cold rejoin's `resumeParticipant` and its confirmation. The rejoin is
  refused, its seat in the store stays, and at the socket's close `handleDisconnect`
  finds no entry and, with nobody else counted, unlinks the reverse index only
  (`CallService.ts:3036`), of which the comment above it says that it would leave "a
  ghost call". The closed client stays on the roster until a status query reaps it or the
  key expires. TLC finds this as a violation of `NoGhosts` when the `stranded`
  exception is taken out, with two frames for each client.
- *A huddle of two and the grace.* `CHANGELOG.md:875` says "one leaver never ends it
  for the rest" and `CallService.ts:2643` that a lobby call is live while anyone is
  seated; a drop that leaves one person starts the grace all the same, whose
  expiry ends the huddle for that person. The model has this as the code does it.
- *An acknowledged edit of a dropped document.* `handleUpdate` answers `crdt:persisted` when
  its write resolves, whichever document was live then, and saves the document it
  holds to the hot cache afterwards (`CRDTService.ts:808-819`). With two deletes of
  the document while two writes are waiting, an edit merged into the first document is
  cached by the other handler, loaded with the third document, and answered when the write of
  the second one, which lacks it, has ended: it is live, acknowledged and in no stored version
  until the next write. The proof of `AckedIsStored` for all live edits failed there; TLC
  finds it with four clients, two edits, three channel states and two deletes. The property is
  therefore about the document the edit was merged into.
- *The end of a call can go untold.* "Fire onCallEnded exactly once" (`CallService.ts:733`)
  rests on who removed the last participant; a losing joiner that is undone after
  the last leaver looked makes each see one remaining. Also, the `forgetCall`
  of a last drop may take the seat of a client that joined since its count.

## What is not modelled

Within the modelled parts: direct sends and lookups of the handler and the local
router that read the same state under the same fences and change nothing; plugin
hooks and statistics; subscription checks, membership hints, peer-operation
scopes and the bound on seen frames of the peer router; seeding, copying, section
deduplication, metadata, awareness and the broadcast to subscribers of documents,
and their graceful shutdown. The composition of the local and peer router is
through their interface only: a delivered peer frame is a `Frame` of `LocalRouter`.

Of the browser's end: the hook's own `autoResubscribe`, session persistence, error
frames and the adapters. Of calls: everything but a huddle's seats (invitations
and their sweep, the endings of two-party calls, document calls, rooms, the state
of participants, lobby occupancy, the call-ended hooks).

Whole parts, with the reason in `PROJECT.json`: operation scopes are planned; chat,
presence, rooms, meetings, notifications, file uploads and the work graph are
candidates after them; reactions, cursors, activity and the other relays keep no
state that actors contend for; the authority engine, deck rendering and planning
functions are pure; stores, media and editor bindings are I/O against interfaces
the repository does not define. The committed `dist/` is build output.

## Plan

Done, in this order: `VerdictCache`, `LocalRouter`, `WsConnection` and
`InboundBudget`, `ClusterRouter`, `CrdtDocument`, `ClientSocket` with its
refinement, `LiveView` on top of it, `CallSeats`, each with its proofs.

Next:

1. `AuthorityScope`: sharing and invalidation of proofs, publish proofs. Properties:
   no proof is shared past its scope, its age or an invalidation that came before.
2. Of chat, presence and meetings, the one whose interleavings the survey
   of its code shows to be the least tested.
3. Of calls, the invitations: a ring answered, cancelled and swept at once.

More to prove: of what the runs check, only liveness has no theorem. The next theorems come
with the next modules. Of the present ones, two refinements would each state in one formula what
several invariants say now: the lane of one service as a queue, and the documents'
line of writes as one atomic save.
