# axona-bridge: specification and proofs

The bridge is a single Node.js process. Browsers and relays (*clients*, or
*peers*) open a WebSocket to it, pass a version gate, are introduced to each
other, exchange WebRTC signalling through it and, once they have a mesh of their
own, are released. An Axona node runs inside the same process, authenticates the
clients and talks to them over the same sockets. This directory specifies that
process in TLA+, model-checks it with TLC and proves part of it with TLAPS.

Source paths below are relative to the repository (`src/server.js` is the file
that `PROJECT.json` calls `src/src/server.js`).

## 1. Inventory

| Component | Source | State | Operations | Model |
|---|---|---|---|---|
| Door | `src/server.js` 589-618, 1244-1732 | `connections`: per connection its socket, `admitted`, `turnRefreshOnly`; the frames queued on each socket | connect, hello timeout, client-hello (refused, admitted, credential-only), peer-list-request, signal, the bridge's and the client's close, the `close` event | `BridgeDoor`, refines `PeerPresence` |
| Timers | `src/server.js` 340-400, 1277-1310, 1733-1797 | `lastHeartbeatAt`, `lastStallEndAt`; per connection `since`, `lastSeenAt`, `helloTimer`, `helloRetried` | stall sampler, hello timer with one grace, idle sweep, unbound kick | `DoorTimers` |
| Transport | `src/ws_transport.js` | `_connIdByNodeId`, `_nodeIdByConnId`, `_pending` with a timer per request | bind, unbind, supersede, send, response, timeout, close, stop | `DoorHandshake` |
| Handshake | `src/bridge_axona_node.js` 641-947 | `_helloByConnId`, verifications in flight | sendHello, verifyPeerHello (async), _completeHandshake, handleConnClosed | `DoorHandshake` |
| Graduation | `src/server.js` 420-745, `src/graduation_select.js` | `lastGraduationAt`, `graduatedRecently`; per connection region, mesh size, introduction record, bound channel | maybeGraduate, selectGraduate, recordIntroduction, rule 4 | `Graduation` |
| Registry | `src/graduated_registry.js` | an insertion-ordered map, identity to time | note, prune, sample | `GraduatedRegistry` |
| Anchor selection | `src/anchor_select.js`, `src/server.js` 1350-1382 | `anchorUses` per connection | selectAnchors; orderSameRegionFirst | `AnchorNursery`; the order of a list is not modelled |
| Door mesh | `src/socket_bootstrap.js`, `src/bridge_axona_node.js` 364-530, 645-662 | `_doorChannelBound`, `SlidingBudget`, `RecentlyRetired`, deferred closes | bind policy, route change, door signals, rule 4 | `DoorMesh` |
| Directory feed | `src/directory_feed.js`, `src/server.js` 764-775 | handlers, pending deliveries, generation | request, deferred delivery, stop, subscriptions | `DirectoryFeed` |
| Signal meter | `src/server.js` 1651-1665 | window start and count per socket | one count per relayed signal | the environment's choice in `BridgeDoor` |
| Fill arming | `src/fill_arming.js`, and the resolvers of `src/uplink.js`, `src/identity.js`, `src/socket_bootstrap.js` | none: decisions about the environment and the kernel | resolveFillArming, assertArmedModules, poolsFromEnv, assertRegionApplied, assertKernelSurfaces | `Arming` |
| Boot, isolation gate, shutdown | `src/server.js` 742-889, 1799-1866, `src/bridge_axona_node.js` 74-341 | the process itself: constructed, started, at the gate, serving, leaving | construct, start, gate, exit, signal, leave, close | `BridgeLaunch` |
| Uplink | `src/uplink.js`, `src/uplink_policy.js` | `_uplink`; the candidates not yet probed | resolveSeeds, planUplink, buildUplink, startUplink | `BridgeLaunch` |
| Directory publisher | `src/bridge_directory.js`, `src/server.js` 804-822 | the author key and its file, the task's progress, the hourly timer, subscriptions | ensureAuthor, whenEstablished, publish from three callers, subscribe, stop | `BridgeDirectory` |
| Book store | `src/bridge_book_store.js` | `_entries` and `bridges.json` | load, merge, save, candidates | `BridgeDirectory` |
| Configuration, polyfill | `src/config.js`, `src/polyfill.js` | none after start | run once | not modelled |
| TURN, engine, kernel log, HTTP surface | `src/bridge_engine.js`, `src/kernel_log.js`, `src/server.js` | counters | adapters and reports | not modelled |

How they interact. The door calls the embedded node when a connection is
admitted (`sendHello`), when an `axona` frame arrives (`handleAxonaFrame`) and
when a connection closes (`handleConnClosed`). The node asks the door whether a
connection is there (`isConnOpen`) and to close it. Graduation reads the door's
map and the node's bindings, closes sockets with code 4200, and writes the
registry, which the door samples when it introduces a newcomer. The timers close
sockets on their own. Everything ends in the one `close` event handler of the
door. The embedded node's mesh, armed with `BRIDGE_SOCKET_IS_BOOTSTRAP`, negotiates
channels with clients by signals that come and go over the door's sockets, and
tells the door which channels have bound. The kernel's fill asks the directory
feed, which reads the door's map. At a launch the arming decides whether there is to
be a bridge at all; then the node starts, the uplink looks for another bridge
(through the gate or in the background), and the publisher signs and publishes
entries through the node and fills the book, from which a later launch takes its
candidates.

What is hard. Node runs one callback at a time, so there are no data races, but:

* a socket that is being closed stays in `connections`, still admitted, until its
  `close` event, up to the 30 s of the ws close timeout later, and still
  delivers the client's messages meanwhile;
* frames queue on each socket, and a client reads lists, announcements and
  departures that were computed at different moments;
* verification of an identity proof awaits, and the connection may close or the
  identity bind elsewhere before it resumes;
* the loop may be blocked while frames wait in socket buffers, and due timers run
  before those frames are read;
* a client may dial again while its old socket is still there;
* a refused channel is closed, and a directory request answered, one turn later,
  when the channel, the identity, the handlers or the feed may be others;
* the publisher's task awaits the kernel at every region, and its hourly timer, the
  uplink and a stop come in between;
* a process may end anywhere, in the middle of a write included, and the next one,
  perhaps in another mode, starts from the two files it left.

## 2. Modules

| Module | What it is |
|---|---|
| `PeerPresence` | Abstract: peers come and go, a watcher learns of peers, and forgets with their departure every peer that left. |
| `BridgeDoor` | The door. One action per handler of `server.js`; a queue of frames per socket; a close in two steps. |
| `BridgeDoor_proofs` | Theorems about the door. |
| `DoorHandshake` | The handshake and the transport: maps, verifications in flight, requests with timers. |
| `DoorHandshake_proofs` | Theorems about them. |
| `DoorTimers` | The event loop (timers, poll, wait), the stall sampler and the three judgements over a discrete clock. |
| `Graduation` | Who is released when the door is above its cap, with rule 4 and re-dials. |
| `GraduatedRegistry` | The bounded registry of graduated identities. |
| `GraduatedRegistry_proofs` | Theorems about it. |
| `DoorMesh` | Channels between clients and the bridge: policy, budget, cooldowns, deferred closes, the mark. |
| `AnchorNursery` | The passes of the anchor selection, and the usage that accumulates over introductions. |
| `DirectoryFeed` | Requests of the kernel's fill and their deferred answers. |
| `HandedOut_proofs` | Theorems about the two components that choose whom to hand out: the directory feed and the anchor selection. |
| `Arming` | What a bridge makes of its environment and kernel: pure decisions. |
| `BridgeDirectory` | The publisher, its author key, the book: the part of one process that the directory is. Extended by the next. |
| `BridgeLaunch` | The life of a bridge over launches: refusals, the gate, the uplink, the publisher, crash and shutdown. Composes `Arming` and `BridgeDirectory`. |
| `BridgeLaunch_proofs` | Theorems about it and what it composes. |
| `DoorMesh_proofs`, `DoorTimers_proofs`, `Graduation_proofs` | Theorems about those modules. |
| `MC...` | Instances for TLC: model values, symmetry, the regions of identities. |

Each module keeps the names of the source in its comments beside each variable
and action; `PROJECT.json` maps each definition to its lines. Operators whose
comment begins with "Fault:" are the ways the code could go wrong against
which the properties have been tried; no specification uses them.

### BridgeDoor

`sock[c]` is `idle`, `open`, `closing` (a close has begun) or `gone` (the close
event has run); `connections` is the set of open and closing ones. `inbox[c]` is
what the bridge has written and the client has not read; `view[c]` what the
client believes after reading, `dials[c]` whom it offers to. A write to a closing
socket is discarded, as ws does; a message from one is still handled, as ws does.
`RefuseHello` keeps the connection in the map and closes it; a later hello on the
same connection may be admitted, as in the code. `Connect` writes the version-gate
frame, which names nobody. `timer[c]` is off, in its first window, or in the second one
that `helloRetried` records; once it is off nothing reads that flag. `AnchorK` and
`MinPool` are the nursery's; the anchors are any `AnchorK` eligible peers. `MaxSends`
bounds the peer-list-requests and relayed signals of a behaviour, not a limit of the code.

A signal may be addressed to any connection, as in the code: the relay asks only whether
the recipient is in `connections`, not whether it has been admitted nor whether the sender
was told of it. So a connection at the gate can be signalled, and it then believes in
its correspondent; but a farewell goes to admitted peers, so if the correspondent leaves
first it never hears of that. `early` is the history of the connections signalled while
open and not yet admitted. `NoGhosts` and `DepartureHeard` except them by name, and the
refinement mapping counts, of what such a client believes, the peers still there;
nothing is assumed of what clients send. `rewarmed` is the history of the clients that
asked for their list again, of which `FirstRolesAgree` says nothing.

The reserved id and the graduated sample in a list, the in-band TURN refresh, the
pong and the meter are left out: they name no connection and change nothing
another client hears.

### DoorHandshake

`verifying` holds the hellos whose verification awaits, `fwd` and `rev` the two maps
of the transport, `pending` the requests in `_pending` and `timer` those whose timeout is
armed, `promise` what the caller of each request has been told, `carrier` the connection
on which its peer has yet to answer. `spoke[c]` is a history: the identities bound to `c`
while it was at the door. `reportBound` stands for a bridge armed to fill: `bindPeer`
then reports to the kernel's composite, and `closeConnection` keeps the binding.
`supersedePeer` is called by the composite, when an identity binds on a mesh channel,
and never by the handshake itself; the model lets it come at any time.
The wrap of request ids at 2^31 - 1 is not modelled: ids are never reused here,
at most `MaxReqId` are. The catch of `send` around `_sendToConn` is unreachable:
`sendTo` catches what ws throws.

### DoorTimers

Time is discrete. The loop waits, polls or runs timers; a stall blocks it in a
poll or a wait, and frames arrive in the buffers meanwhile. Timer callbacks
themselves are short. Due timers run earliest first, ties in either order, before
any buffered frame is read, which is the order Node gives. `terminate()` of an
idle socket is taken with its close event at once.

### Graduation

Doors of the instances are below the nursery's minimum pool, so an introduction
lists every admitted peer and `since` is the time of admission. A region is the
top byte of a bound identity. `CloseTime` bounds how long a close handshake
takes; `Tick` waits for closes that are due. `freed` is a history of the connections
that rule 4 released. Rule 4 looks at no region, and a client it has released still
reports its mesh size while its socket closes, a smaller one included, so that it
counts in its region, and may be the one that counts, until it has gone;
`RegionKeepsOne` therefore says nothing of a region while such a client is in it.

### GraduatedRegistry

The map's insertion order is a rank: `rank[n]` is the number of the last insertion
of `n`, `at[n]` the time stored with it; both stay as history when the entry goes,
so that one can say who ought to be remembered. The clock never steps back, as
the comment of the source assumes.

### DoorMesh

A key of the mesh is a door key, which here is the connection it carries, or that
of a peer met through the upstream (`Far`). `chan[k]` is the state of the channel
under a key, `inc[k]` its incarnation, `who[k]` the identity bound on it and
`route[n]` the composite's route for an identity. The kernel's mesh and composite
are not in this repository: they are the surfaces the bridge calls
(`retireForNewcomer`, `incFor`, `nodeIdFor`, `routeOf`) and the notices it gets
(bind, route changed), so a channel may open, die, or be given up at any time, the
kernel's gate may refuse anybody, and any counted channel may be the one retired.
One thing is assumed of the kernel: it binds an identity on one channel at a time, apart
from one that a refusal has left without a route, so that the route of an identity moves
to a door channel from its socket (`_onRouteToDoor`) and never from another channel, far
or door. What the composite does with two bound channels of one identity cannot be read
from this repository, and that switch is not covered.
`doomed` holds the refusals whose deferred close has not run; they run before time
passes. The release of a socket is taken at any heartbeat: the size a client reports
and its kernel's version are `Graduation`'s.

### AnchorNursery

Every connection is admitted when it connects. The four passes are sets: `Top(S, T, n)`
is the first `n` of `T` in the ranking of the eligible `S`. Scores are multiplied out
to integers; the code compares floating-point numbers, which may order two scores
that are equal here either way. A name of `Conn` stands for one connection after
another, which `number` tells apart and which is the order of the door's map. The
specification is `NurserySpec`, with names of its own for its parts, so that one
module can be about it and the feed.

### DirectoryFeed

A request has a name, which the code does not give it, and fares as `asked[r]` says.
The source set by `server.js` always returns a list; the feed guards against one
that throws or returns something else, and so does the model.

### Arming, BridgeDirectory, BridgeLaunch

`env` and `kernel` are an installation, chosen at every launch: what an operator may
change between two of them. A number in the environment is its form and its value,
so that the loose parser of the legacy cap and the strict one of the armed cap can
be told apart. `phase` says how far the process is, `link` how far its uplink,
`pc` how far the publisher's own task. A round of publishing is the set of regions a
caller has yet to publish in (`todo`), so that rounds of all three callers and
everything else interleave at each await. A write is what `writeFileSync` may leave:
the new file, the old one, or part of one (`Torn`), which the readers take for no
file. An entry in the book is the time it was issued and the time its bridge was
first heard of.

The order in which the kernel ranks the candidates is any order; a probe answers or
not; the kernel's calls may fail; `peers()` may change at any time (`meshed`). Of
`validateBridgeEntry` nothing is assumed but that an entry is not from the future
and names its bridge; of `createAuthorIdentity`, that it returns what the store
holds, stores a new key before it returns it, and rejects when the store throws; of
`pub` without a key, that it fails or signs with none. A process whose
`httpServer.listen` has failed is not told from one that serves. An hour is the
clock's unit, and `MaxAge` and `MinUptime` are counted in it.

## 3. Runs

| Run | Bounds | Shows |
|---|---|---|
| `door_safety` | 3 clients, nursery on with one anchor, 1 re-warm or signal | `NoGhosts`, `Introduced`, `GateKeepsApart`, `FirstRolesAgree` |
| `door_live` | 2 clients, 2 re-warms or signals, fairness | `ImplementsPresence`, `DepartureHeard`, `SeatFreed` |
| `handshake` | 2 connections, 2 identities, 2 requests, armed to fill or not, fairness | `BindingsAgree`, `NobodyForgotten`, `NoOrphanRequest`, `OneIdentityPerConn`, `StaleCloseHarmless`, `EveryRequestSettles` |
| `handshake_phantom` | 2 connections, 1 identity | violates `NoPhantomBinding` |
| `timers` | 1 connection, 14 ticks, 2 stalls of at most 5 | `SilentIsKicked`, `GateIsTimed`, `NoVerdictForOurStall` |
| `graduation` | 3 sockets, 2 identities of 2 regions, 2 ticks | `RegionKeepsOne`, `CooldownHolds` |
| `graduation_slow_close` | the same with 3 identities and closes longer than an interval | violates `RegionKeepsOne` |
| `registry` | 4 identities, bound 2, 6 notes, 6 ticks | `Bounded`, `SampleIsFresh`, `RemembersRecent` |
| `door_mesh` | 2 clients, 1 peer of the upstream, 2 identities, cap 1, budget 1 in 2 ticks, 3 ticks, 2 incarnations of a door key | `BudgetHolds`, `RefusalSparesRoutes`, `RefusedIsDoomed`, `RoutedIsMarked` |
| `anchors` | 5 names, 6 connections, 2 regions, 2 anchors of at least 3 eligible, times 0, 5 and 10 | `NoPileUp`, `Diverse`, `UnboundLast`, `PlacesFilled` |
| `directory_feed` | 2 requests, 2 handlers, 3 identities, sample of 1, 1 stop, fairness | `HonestAnswer`, `NothingAfterStop`, `UnsubscribedUnheard`, `EverySentIsAnswered` |
| `launch` | 2 launches, 65 installations, 2 other bridges of which 1 advertises, 3 regions, 3 hours, 2 keys, fairness | `Isolated`, `ServesAsAsked`, `AuthorIsDurable`, `BookMovesForward`, `EstablishedFirst`, `NothingLingers`, `Advertised` |

Why the bounds are enough. A ghost, a missed introduction or a clash of roles
involves two clients and, with the nursery, a third that is the anchor; one signal
reaches a third client at the gate while the two are introduced, and two of them,
or a signal and a re-warm, meet in `door_live`. A stale
close, a supersede and a request involve one identity on two connections; a second
identity contends for either. Connections are
independent in the timers, so one is enough there; two stalls are one more than
the grace. A region is lost with two members and a door over its cap; the third
socket is the other region. The registry's eviction needs its bound plus one. At a
mesh cap of one the second bind needs room, a budget of one is spent by it, and the
window's two ticks lie inside the clock's three; a second incarnation of a key is
what a deferred close may hit by mistake. Two anchors are the fewest with a half
for the newcomer's region and a half for the others; the times are below the longevity's
saturation, at it, and zero, which is not eligible. One request before a stop and
one after it are all that a stop can confuse. A second launch is what the first one's
files can harm; a second key is the one that must not be used. Of the two other
bridges one is a default and in the directory, the other only an operator names, so
that a named upstream and a learnt one differ. With an age and an uptime of one hour,
three hours see an entry replaced and dropped, and a bridge established and shut
down. The installations are a public bridge, isolated ones (one that names only
itself), one off the directory, and around it the switches, caps, pools and flags
that are refused or come apart. The type invariant is a theorem of every module with
a state, so that no run spends time on it.

Fairness (`FairSpec`). Node's timers fire, a close handshake ends (ws cuts it
after 30 s) and TCP delivers or breaks: weak fairness of the hello timer, the
release timer, the end of a close, the close event and the reading of a queue; of
a request's timer in the transport; of the feed's deferred delivery. In a launch:
of a probe (its timer is 4 s), of the gate's answer, of the departure (1.5 s) and the
forced exit (5 s), and of the publisher's own task while the process runs. The start
of the uplink's transport is not fair: nothing here bounds it. No fairness is put on clients: none need say
hello, answer or leave.

Deadlock is not checked where a behaviour may end: connections are not reused, and
the clocks and counters are bounded.

## 4. Proofs

`BridgeDoor_proofs` proves for any number of clients and queue lengths:
`TypeCorrect`, `GateApart` (`GateKeepsApart`), `DoorImplementsPresence`, `GhostFree`, `NobodyMissed`
(`Introduced`) and `OneInitiatorPerPair` (`FirstRolesAgree`). The
invariant behind them (`DoorInv`) says, beside the types, that a connection which is
not at the door has no record and no timer (`Absent`), that nothing has been sent to a connection before its admission but the gate's frame and signals (`AtTheGate`, `Quiet`),
so that only one in `early` believes anything yet, and that whoever is named to a client
was admitted (`NamedWereAdmitted`). Each queue is read through
two operators, what it tells and what its reader will know in the end, with a lemma
for each on appending and on reading a frame. The refinement is a simulation: a
connection's admission is an arrival, a list a refresh, the begin of a close the end of its
watching, a close event a departure, all else a stutter. `GhostFree` follows
from the presence service's own invariant (`PresenceStep`) through the refinement.
`NobodyMissed` is inductive over the same mapping: an announced arrival is known to
every watcher, and between watchers that stay no step takes knowledge away but a
departure of the one known. `OneInitiatorPerPair` rests on `RolesInv`: of the clients that
have not asked for their list again, whoever offers, or has a list on its way that will
make it offer, and whoever it offers to, have been admitted, so that at an admission
none of them offers to the newcomer yet; a re-warm takes its client out of the claim, and a
signal or the gate's frame makes nobody offer (`NoOffer`). The only assumption is
`DoorAssumption`.

`DoorHandshake_proofs` proves `TypeCorrect`, `MapsAgree` (`BindingsAgree`),
`CallersRemembered` (`NobodyForgotten`), `NoOrphans` (`NoOrphanRequest`),
`SpeaksForOne` (`OneIdentityPerConn`) and `StaleCloseSpares`
(`StaleCloseHarmless`). A request is not orphaned only because the supersede and the
close of the bound connection both settle it. That a connection speaks for one identity
is inductive with the fact that whatever was bound to it at the door had completed its
handshake (`SpokeIsComplete`), after which no verification binds it anew; the
record of the handshake goes with the close event, and what a late verification binds
after that is outside the claim, which is about a connection at the door. The invariant
is the conjunction of all these.

`GraduatedRegistry_proofs` proves `RegistryBounded`, `SamplesFresh` and
`RecentRemembered` for any set of identities, bound and expiry. The invariant is that
ranks are unique (`RanksUnique`) and ordered like the times (`RankIsAge`), from which a
sweep that stops at the first live entry removes exactly the expired ones
(`SweepIsExact`), and that whoever was evicted has at least the bound's number of
identities ranked after it, a count that later insertions never lower (`SinceGrows`).

`HandedOut_proofs` proves of the feed `TypeCorrect`, `AnswersHonest`, `StopIsFinal` and
`OnlySubscribersHear` for any number of requests and handlers, from the invariant that
a request is on its way at most once, and only while it is promised and not cut off.

Of the anchor selection it proves `NurseryTypeCorrect`, `UsageSpreads` (`NoPileUp`),
`RegionsHeard` (`Diverse`), `BoundBeforeUnbound` (`UnboundLast`) and `PlacesTaken`
(`PlacesFilled`) for any number of connections, regions and anchors. The invariant is
small: the connections at the door have numbers of their own (`NumbersUnique`). From it
the ranking of any eligible set is a strict total order (`Ranked`), although scores may
tie, and the rest is about the first `n` of a set in such an order. They are no more than
`n` (`TopSmall`) and no fewer unless the set is exhausted (`TopFull`); whoever is ahead
of one of them is one of them. `TopFull` needs the first of what was left out, which
exists because the number of those ahead of each is a natural number, and the naturals
have a least (`LeastNat`, `FirstExists`). From the two, each pass fills its places
(`Filling`, `PassesFill`): an unbound peer takes a place only in the last pass, which
comes to it only when the one before has run out of bound ones. Diversity is the
same count over the delegates: were a region unheard and a place left, its first would
have been a delegate.

`DoorTimers_proofs` proves `TypeCorrect`, `GateTimed` (`GateIsTimed`), `SilentKicked`
(`SilentIsKicked`) and `StallsExcuse` (`NoVerdictForOurStall`) for any timeouts,
checks and stalls. A silent connection goes in time because at the last sweep it had
been heard within the timeout, or a stall had ended within it, or one is about to be
recorded (`HeardAtSweep`), and sweeps are at most a check apart (`Intervals`). A stall
excuses because what has sat in a buffer for its length did so in a stall which the
sampler has just recorded or is about to see (`Excused`).

`Graduation_proofs` proves `TypeCorrect` and `NoRegraduation` (`CooldownHolds`): a
graduation over the cap leaves a stamp no earlier than itself, and a later stamp only
prolongs the cooling (`CoolsSince`). `RegionRepresented` proves `RegionKeepsOne` for any
door, under the condition `CloseTime < Interval`. A graduate's region counts another
candidate (`AnotherMate`), which is open or closing; if closing, and not by rule 4, an
earlier graduation closed it, and that was an interval ago at least; but whoever closes
is at the door no longer than a close may take (`ClosingInTime`). The condition is one on
clients and not on the code: the default interval is 3 s, an ordinary client answers a
close frame in a round trip, and ws waits 30 s for one that does not. Without it the
property is false, which is what `graduation_slow_close` shows.

`DoorMesh_proofs` proves `RefusalSpares`, `RefusedAreDoomed`, `RoutedAreMarked`,
`BudgetKept` and `TypeCorrect`. The first three hold together: a refused channel may be
closed by its key only because an incarnation is never used again (`ClosesArePast`) and
an identity sits on the channel that is its route (`RoutesBound`). The budget's queue is
the end of the history of spends, and what it has forgotten is out of the window
(`Remembers`), so that a window with more spends than the budget would have all of them
in the queue.

`BridgeLaunch_proofs` proves `ServedAsAsked` (`ServesAsAsked`), `NamedIsIsolated`
(`Isolated`), `OneAuthor` (`AuthorIsDurable`), `GateBeforePublish` (`EstablishedFirst`),
`BookIsMonotone` (`BookMovesForward`) and `TypeCorrect` for any installations, bridges,
regions and launches. `LaunchInv` says what each phase has left behind it (`Passed`),
what a built uplink carries (`Linked`) and to whom it goes (`Confined`); `KeyInv`, that
the first key is stored before it is used, so there is no second; `RoundInv`, that no
round is under way before its time; `BookInv`, that a running process knows of each
bridge at least what the file says, but for what is too old to be kept.

The assumptions are those each module states of its constants (`DoorAssumption`,
`TimersAssumption`, `LaunchAssumption` and their like), which every run evaluates.

Model-checked only: the liveness properties (`DepartureHeard`, `SeatFreed`,
`EveryRequestSettles`, `EverySentIsAnswered`, `NothingLingers`, `Advertised`), which are out
of the prover's reach, as are ENABLED, induction over data and RECURSIVE operators (no
module here has one). Every safety property that a passing run checks is a theorem.

## 5. Where code and documents differ

Runs marked "violates" check what a document or comment says and find it untrue
of the code; `PROJECT.json` quotes the lines.

* `handshake_phantom`: `_completeHandshake` binds after the await without asking
  whether the connection is still there. By the same path a connection that was bound,
  and has closed, may be bound again to another identity when a second hello of it was
  still being verified: the close has dropped the record that would have stopped it
  (`bridge_axona_node.js` 649, 909).
* `graduation_slow_close`: a closing socket counts as its region's last.

Also seen while modelling, without a run of its own: of two sockets of one identity,
the newer one's close leaves the older one open and bound nowhere (`ws_transport.js`
126 against the comment at 198); after a peer-list-request both ends of a pair may
hold the other in a list and offer, where the README says that cannot happen
(`server.js` 1555; `FirstRolesAgree` says where it does hold); the relay asks only
whether the recipient is in `connections`, so a client still at the gate may be signalled
by a peer that leaves before its admission, and is not told of that departure (1644); the gate removes held peers before the regions are counted (678
against `graduation_select.js` 43); the mark that rule 4 reads outlives the channel, so
that a socket may be released "as bound" after its channel has gone or was retired
(`bridge_axona_node.js` 485, `server.js` 727), and a channel that binds after its socket
has closed leaves a mark that nothing takes away; a credential-only socket is
listed to a newcomer that arrives before its release (`server.js` 1361 against the
comment at 482); the hello timer's grace is given once, so a second stall closes a
client whose hello waits (1294 against 358); the unbound kick counts from the
connection and not from the admission (1773 against 1782); a closing socket counts
toward the overage, so graduation goes on below the band (656 against 709); the
comment at 1277 names the upgrade code where the timer closes with 4408; a
heartbeat on a socket that rule 4 is already closing counts it again (732).

Of the launch: a malformed or contradicting `BRIDGE_MESH_POOLS` is "refused at start"
(`uplink.js` 63), but `startUplink` catches the refusal and a bridge in the default mode
goes on without an uplink (`bridge_axona_node.js` 318); "never publish while
unestablished, whatever the caller" is asked once per round, so that the later regions
of a round may be published after the peers have gone (`bridge_directory.js` 181);
`stop()` stops neither the task under way nor the publish after the uplink, and when one
subscription fails those before it stay, out of its reach (225, 251); a bridge
subscribes in the regions it knows at that moment, and never in one it learns of later
(225); the isolation gate awaits the transport's start with no bound of its own
(`bridge_axona_node.js` 330); a bridge without `BRIDGE_PUBLIC_URL` cannot leave itself
out of its seeds (`server.js` 805).

## 6. Not modelled

* The signal meter is a counter per socket that resets by the clock; the door's model
  lets it refuse any signal. TURN credentials, their in-band refresh and the HTTP
  surface answer each request by itself and leave nothing behind. The engine adapts the
  kernel to one node; its state is the kernel's. The kernel log formats. `config.js` and
  `polyfill.js` are constants.
* The order of a newcomer's list (`orderSameRegionFirst`) and the parsing of the region
  claim: no property tells two orders apart.
* The transports, the mesh, the composite and the pub/sub of `@axona/protocol` are not
  in this repository; each module says what it takes them to do.
* The composition of the anchor selection with the door: `BridgeDoor` takes any anchors,
  which is more than any selection gives.

What would come next: an abstract request service that `DoorHandshake` implements.
