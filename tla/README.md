# A TLA+ model of pmd

pmd is a port-mapper daemon: every host runs one, the daemons connect to each
other over TLS, and each keeps a replicated registry of nodes and services in a
delta-state CRDT. This directory models the part of it that decides who is a
member and who hears of it: the registry, the sessions that carry it between daemons
and the frames below them, the failure detector that ends them, the main loop with its
discovery plugins, which starts them, the control socket's event stream, and the files
that daemons of one home share when they start and stop. TLC checks the models on small
instances; TLAPS proves their safety properties, and that sessions implement the
registry's abstract specification, for any number of daemons, connections and clients.

Run from this directory: `tlc -config SessionPair.cfg MCPeerSession` (any row of the
table of runs), `tlapm PeerSessionProofs.tla` (any module whose name ends in
`Proofs`).

## 1. The system

| Component | State | Operations | Talks to |
|---|---|---|---|
| Membership registry, `daemon/membership.rs` | a CRDT document: `/nodes/<id>`, `/services/<id>/<name>` | add_node, remove_node, register/unregister_service, merge_remote, delta_for_peer, full_delta, members, lookup_service | called by every other part, under the daemon's mutex |
| concordat crate (external) | dots, version vector | set, remove, delta_since, merge_delta, materialize | the registry |
| Peer sessions, `daemon/peer.rs`, `daemon/server.rs` | one task per connection end; `DaemonState::peers`, one handle per remote daemon (last_vv, detector, signal channel of capacity 1) | handshake both ways, duplicate check and registration, initial full delta, message loop, cleanup | the other daemon (frames), the registry, the event channel |
| Failure detector, `daemon/failure_detector.rs` | window of inter-arrival times | heartbeat, phi | the message loop |
| Main loop, `daemon/mod.rs` | pending_joins, pending_leaves, shutdown flag and token | 500 ms tick, gossip tick, mesh expansion, graceful shutdown | starts sessions, signals them, cancels them |
| Control socket, `daemon/control.rs` | a broadcast channel of 256 events, a receiver per subscriber | join, leave, register, unregister, lookup, nodes, subscribe, stop | main loop (queues), registry, clients |
| Wire protocol, `protocol.rs` | a partly read or written frame; the reader task's channel of 32 | read_frame, write_frame, cookie HMAC | sessions |
| Discovery, `pmd-broadcast`, `pmd-azure`, `pmd-discovery` | known_peers | announce, poll | main loop, through a channel of 64 |
| Startup, `main.rs`, `mod.rs`, `tls.rs`, `config.rs` | cookie, certificate and key, shared by the daemons of a home; socket and PID file of each port | probe, daemonise, load or generate, bind, remove | file system, other starts |
| Metrics, command line | none | read, print | registry, control socket |

What is hard here:

* **Concurrency.** The tasks of one daemon share the document and the table of
  handles and release the mutex at every write to the network. Two daemons may
  dial each other at the same moment; a daemon may be dialled twice.
* **Lost knowledge.** A sync that was sent may never be read, and nothing
  acknowledges it. The sender decides what to send next from `last_vv`, a value
  which may come from another session or from before a reconnection.
* **Removal.** Any daemon may tombstone any other. Tombstones, addresses and
  services reach a daemon by different routes and in any order; a daemon writes
  its own address once and never again.
* **Endings.** A session ends by end of file, by an error in any of its writes, by
  suspicion, by shutdown or with the process, in any state it can be in; `pmd leave`
  takes the handle away and leaves the session running. In its handshake it has no time
  limit and no heartbeat.
* **Full buffers.** A loop does nothing else while it writes; a subscriber that stops
  reading blocks its task; the broadcast channel overwrites what a slow receiver has
  not read.
* **Files without atomicity.** Every file is created, then filled; what exists is checked
  before it is made; files are removed by name; a process may be killed in between.

What makes each component correct, and where that is stated:

* registry: a version vector never claims a write the document lacks (`NoGap`);
  equal vectors give equal answers (`Convergence`); a removed node stays removed
  (`RemovalIsFinal`); a lookup never meets a tombstone (`NoGhostService`);
* sessions: one registered session per peer (`OneSession`); a handle always has a
  session (`HandleIsSession`), and one that reached its loop takes it along
  (`LoopTakesHandle`); healthy daemons are not tombstoned
  (`OnlyGoneRemoved`); events add up to the member list (`EventsTrackMembers`);
  clusters stay apart (`Isolation`); the deltas they send are the ones the registry
  needs (`Refinement`); linked daemons converge (`GossipConverges`) and sessions
  on dead connections end, but for a handshake that hangs (`SessionsEnd`);
* detector: no live peer is declared dead (`NoFalseSuspicion`), a silent one is,
  in time (`DetectsInTime`);
* frames: whole, in order, without a gap (`FramesIntact`); they arrive unless both
  ends block each other (`FrameArrives`); when one end closes so does the other
  (`EndsTogether`);
* event stream: no gaps (`StreamIsGapless`); a listing completed by events is the member
  list (`SnapshotThenReplay`); a client that reads gets every event or sees its stream
  end, whatever the others do (`EventArrives`); a client that is gone is noticed
  with the next event (`GoneIsNoticed`);
* startup: a daemon that is up owns its socket (`Reachable`), stale files stop nobody
  (`RestartSucceeds`), no partial cookie is used (`WholeCookie`), the daemons of a home
  share the cookie (`SameCookie`, which does not hold);
* main loop and discovery: plugins and mesh queue an address once (`QueuedOnce`); a daemon
  dials itself unasked only by way of a process whose advertised address leads back to it
  (`NoSelfDial`); a socket address that is queued is dialled (`JoinsAreDialled`), a stop stops
  (`StopHappens`), and the mesh reaches the density the code aims at (`MeshFills`).

`PROJECT.json` lists the hazards line by line, with the property that watches
each one.

## 2. The modules

```
Crdt ── Membership ──┬── Replication ──┬── MCReplication
                     │        ▲        └── ReplicationProofs ─┐
                     ├── MembershipProofs                     │ instance
                     │        │ refines                       │
                     └── PeerSession ──┬── MCPeerSession      ▼
                                       └── PeerSessionProofs
FailureDetector ── FailureDetectorProofs
MainLoop ── MCMainLoop, MainLoopProofs        Events ── EventsProofs
Wire ────── MCWire, WireProofs                Startup ─ MCStartup, StartupProofs
```

**Crdt** is concordat, seen through its use in membership.rs: a document is a set of
writes and a version vector. Assumed of it: calls made under one lock take one
counter value; `set` supersedes everything its replica has seen at the path;
`remove` supersedes only what its own replica wrote there (the comment and the
tombstones in `remove_node` exist because of this); concurrent writes are settled
by a fixed order of replicas (`Rank`); a delta is the writes beyond a vector plus
the sender's whole vector, and merging takes the union and the join.

**Membership** is membership.rs, one operator per method. A value is only its kind:
`addr`, `port`, `dead` (the tombstone object) or `removed`; addresses, ports,
metadata and timestamps decide nothing in this code. `IsMember` keeps the filter of
`members()`; `LookupService` keeps the fact that `lookup_service` looks at the
node's address and never at the service's own tombstone.

**Replication** is the abstract specification: what synchronisation promises,
whatever carries it. Daemons call the registry (`Start`, `Register`, `Unregister`,
`Remove`), and exchange deltas (`Send`, `Deliver`) over a transport that loses,
delays, reorders and repeats messages. Its one obligation on the transport is in
`Send`: a delta is computed against a vector its receiver had already reached.

**PeerSession** is peer.rs, server.rs and the parts of mod.rs and control.rs that
drive sessions. A connection has two ends; `pc[e]` is where the task of end `e` is:

| `pc[e]` | the task is |
|---|---|
| `hello` | reading the Handshake (`run_inbound`) or the HandshakeAck (`connect_to_peer`) |
| `opening` | registered, about to send the full delta |
| `loop` | in `peer_message_loop` |
| `cleanup` | past the loop, about to take the lock for its cleanup |
| `closed` | over |

A step is what a task does between two releases of the mutex. `peers[i][j]` is
`DaemonState::peers`: the end whose channel the handle holds and `last_vv`.
`sig[e]` is the signal channel. `view[i]` replays the events broadcast so far.
`Dial` is a pending join taken by `process_tick` up to its Handshake, with the accept
loop of the other side; `Leave` is a pending leave; `BeginShutdown`, `Cancel` and
`Exit` are the three stages of the graceful shutdown. Faults are `Crash`, `Break`
(a connection stops working) and `Suspect` (the detector is wrong).
What the abstraction does:

* a frame written to an end that is closed or cut may vanish, or the write may
  fail; both are alternatives of each writing action;
* a full buffer blocks a write by disabling the action. The code computes the delta
  first and then waits; that delta is one more buffered frame, so `MaxInbox = n`
  stands for `n - 1` buffered frames and one waiting. An end whose write is disabled may
  still read here, and in the code it may not, in its loop or while it writes its initial
  delta: the mutual block is Wire's subject, and `GossipConverges` holds for frames that
  arrive (`FrameArrives`);
* `view[i]` starts with the daemon itself, which no event announces: it is what a client has
  that starts from the daemon's own entry. `EventsTrackMembers` speaks of daemons that have
  not begun to shut down;
* heartbeats appear only as what they cause: a failed heartbeat is part of
  `EndOfStream`, the detector's verdict is `Suspect` at any time. Their timing is
  FailureDetector's subject;
* a cookie stands for the pair cookie and protocol version; HMAC and TLS are below
  the model; a malformed frame ends a session like an error does;
* a node id is a fresh UUID for each process, so a daemon that exits does not come
  back: a restart is another node.

**FailureDetector** is failure_detector.rs with the three branches of the message
loop that drive it, in integers. `phi > threshold` holds exactly when
`(elapsed - mean) / max(std_dev, min)` exceeds a constant, so both sides are squared
and multiplied by the window's length, and no logarithm is needed.

**MainLoop** is the loop of mod.rs, the queues that the control socket and the plugins
fill, and both plugins, for the one daemon `Self`. `pendingJoins`, `pendingLeaves`,
`stop` and `peers` are the fields of `DaemonState`; `found` is the channel of
discovered addresses; `known` holds each plugin's `known_peers`, and `waiting` the address
a plugin cannot send because the channel is full; `leaving` is what
`process_tick` has drained and not yet handled; `dialling[a]` counts the
`connect_to_peer` tasks that have not registered yet. Sessions appear by what they do to
the peer table and the registry (`Connects`, `Inbound`, `Learn`, `LearnRemoval`,
`SessionEnds`); their inside is PeerSession. What the abstraction does:

* a daemon can be reached at one address, `At[n]`, and advertises the one it is bound to,
  `AddrOf[n]`: the same, or a wildcard. Connecting to the wildcard from the host of a
  daemon that is bound to it reaches that daemon;
* an operator may give any string to `pmd join` (`Asked`); one that is no socket address
  (`Name`) is queued, answered Ok and dropped by the tick, like the branch at mod.rs:245;
* a restart is another node id at the same address; the earlier process is over;
* the broadcast plugin sees running daemons and remembers node ids, the Azure plugin
  sees tagged machines, whether or not a daemon runs on them, and remembers addresses;
* SIGINT (`Interrupt`) ends the loop where it waits in its `select!`, and is lost anywhere
  else; the stages of the shutdown are PeerSession's;
* a tick waits while more than `MaxDials` connects to one address would be under way.

**Events** is what a client of the control socket can know of the members: the broadcast
channel, `handle_control_client` for a Subscribe request, the answer to Nodes, and the
client of `pmd subscribe`. `log` is every event ever sent and `pos[c]` a receiver's place in
it; the channel holds the last `ChannelCap` of them. `task[c]` is where the serving task is
(`subscribed`: about to confirm; `recv`; `write`: holding one event it cannot write yet;
`done`). `Merge` and `Cleanup` are the two places that change members and announce it, by their
effect; `RecvLagged` is the loop's end when the next event has been overwritten.
The client of the model subscribes, lists the nodes once it is confirmed and replays
events on that list: the two commands a user has for following a cluster.

**Wire** is one connection below the level of PeerSession: a frame is a length and pieces of
payload, a read or a write may stop between any two, `wire` and `chan` are bounded, and the
reader task and the loop are two tasks. An end first writes its initial delta
(`SendInitial`), with no reader task (`reader[e] = "none"`), and then enters its loop
(`EnterLoop`). `loop[e]` is `run`, `ended` (past the loop, in its cleanup) or `closed`; `out[e]` is what is left of the frame being written, during which the
loop does nothing else. A frame above 16 MiB (`huge`) is written and not read. In
PeerSession a whole frame is one step, which `FramesIntact` justifies.

**Startup** is the life of `pmd start` commands that share a home: the probe and the fork of
main.rs, the beginning and the end of `run`, tls.rs. `pc[x]` is the next step of process `x`.
`file[f]` says who wrote the cookie, the certificate or the key (`empty` between creation and
contents), `sock`, `pid`, `lock` and `tcp` are the socket file, the PID file with the lock the
daemonize crate holds on it, and the listening port. A process may be killed between any
two steps; the kernel then closes its files and leaves them in place. Files go by the port
alone, the listener by address and port. TLS is reduced to one
rule of rustls, that the key must belong to the certificate.

**Budgets.** PeerSession and MainLoop carry a `budget`, chosen in Init from `Budgets`: how many
faults, leaves, service calls or joins a behaviour may have, who may be stopped, which
plugins run, and in MainLoop who else there is. One run thus covers several scenarios that would not fit together.
Startup's `setting` does the same for what the home holds at first and who is started, and
how. The MC modules only name instances (ranks, cookies, budgets, who dials whom).

## 3. Runs

| Run | Checks | Instance |
|---|---|---|
| replication | TypeOK, NoGap, Convergence, NoGhostService, RemovalIsFinal | 2 daemons with 2 and 3 locked calls, one message in flight |
| session_pair | OneSession, EventsTrackMembers, Refinement, LoopTakesHandle | 2 daemons dialling each other, 2 connections; 1 fault and 1 leave, or a shutdown |
| session_ring | TypeOK, Isolation, OnlyGoneRemoved, HandleIsSession, Refinement | 3 daemons, 2 cookies, dialling in a ring, 2 connections, 1 service call |
| session_live | GossipConverges, SessionsEnd | a link with 2 service calls, or 1 fault, or a shutdown; fair |
| failure_detector | TypeOK, NoFalseSuspicion, DetectsInTime | every pattern of delays, window of 4 |
| main_loop | TypeOK, QueuedOnce, NoSelfDial, JoinsAreDialled, StopHappens, MeshFills | 3 daemons, one of which may end, a channel of 1; two of 1 join (of an address or of a name), 1 leave and the broadcast plugin, or 1 fault and the Azure plugin; or both plugins, another daemon bound to 0.0.0.0 like this one and an earlier process at its address; fair |
| events | TypeOK, StreamIsGapless, SnapshotThenReplay, EventArrives, GoneIsNoticed | 2 nodes, 2 clients of which one may stall, 3 events, channel and socket of 1; fair |
| wire | TypeOK, FramesIntact, FrameArrives, EndsTogether | an initial delta that fits the connection or not, then 2 frames of its own from one end and 3 from the other, a channel of 1, a connection of 2 pieces; fair |
| startup | TypeOK, Reachable, RestartSucceeds, WholeCookie | first starts of 2 daemons of one port or of two; 3 starts of one port, or 2 or 3 of one port on two addresses, in a home that is ready; with and without `--foreground` |
| cross_join | OnlyGoneRemoved (violated) | 2 daemons dial each other, nothing fails |
| stale_handle | HandleIsSession (violated) | one fault |
| first_start | SameCookie (violated) | 2 daemons of two ports start in an empty home, nothing fails |

**Why the bounds are enough.** Duplicates, cross-dialling, a handle replaced under a
running session and a cleanup that meets another session's handle all need two
connections and two daemons. State that travels through a third party
(`Isolation`, the spreading of a tombstone) needs three daemons and two connections.
One fault already reaches every error branch, because a broken connection, a crash
and a wrong suspicion may each come at any step of any session. One leave takes a
handle away under its session, and together with a fault on the other side lets a
second session run beside the first; `OneSession` is stated for the time before a
leave. `Refinement` is checked twice: session_pair has the lost connections and
the replaced handles, session_ring the writes made between two syncs, without which
a wrong `last_vv` would do no harm. Where section 4 has a theorem the bounds only matter
to TLC.
In MainLoop three daemons are the fewest for which the rounding of the mesh's target
matters, a channel of 1 makes the plugins wait, and two connects at a time let an
address be dialled again while it is being dialled. A failed connect, a lost session and a
removal by somebody else (of the daemon itself, too) are the faults; the scenario with a
fault has no commands, and no scenario has a join, a leave and a plugin, to keep
the liveness check within minutes. The last scenario has one process for each way in which an
advertised address may lead back to the daemon; both lead to a connect to itself.
In Events a channel of 1 makes a receiver lag after two events while its task waits in a write,
so the third event is the first that can be missed and noticed; one client that may stall
and one that reads suffice for one to hold up the other. In Wire the connection holds one
frame of the shortest kind, so that a large one does not fit: two large initial deltas
block each other, a large and a small one do not, and both loops block in writes with three
frames each; a huge frame comes only from one end. Startup needs three
starts of one port for a daemon to end, its successor to come up and a third to contend with
both, or for a daemon in the foreground to take the lock away under two others on
different addresses; ports other than the contended one matter only through the cookie and
the identity, for which two processes suffice.
The detector's constants scale the defaults down; what they must satisfy is the
module's assumption: the jitter is covered by the floor of the deviation, and the
bound on detection leaves room for the widest deviation a window of live answers
can have.

Deadlock is not checked: with every connection used and every bound spent, the
daemons have nothing left to do, and a detector that has declared its peer dead
stops. The one deadlock of the code itself, two loops that wait in writes for each
other, is a disjunct of `FrameArrives` (with its variant before the loops).

**Fairness.** In PeerSession each end has weak fairness for its straight-line steps, its
reads, its end of stream and its observation of a shutdown together; a read of the handshake
that fails or finds end of file is among them unless the connection is cut, since a cut
need not be noticed there (peer.rs:66 and 234 have no time limit). Weakly fair by themselves
are the branch that answers a gossip signal, the gossip tick of each pair and the stages
of a shutdown: tokio polls every ready task, `select!` picks among its ready branches at
random, `gossip_sync_random_peer` picks at random among the peers, and timers fire.
Dialling, leaving, service calls, stopping and faults are free.
In MainLoop the ticks, the forwarding task, a plugin that waits for room and the loop over
the leaves are weakly fair for the same reasons, and a session with a daemon that is over is
noticed (`SessionsEnd`). A connect comes to an end: one that hangs in its handshake holds
nothing up in the code, where each is a task of its own, and is needed to end only because
the model counts them against `MaxDials`. The mesh's random
choice needs no more than that some choice is made. No plugin has to find anybody,
and no daemon has to start. In Events every serving task goes on when it can, and the
clients in `Prompt` keep reading; the others may stall with their connection open. In Wire
the loop and the reader task of an end are two tasks, each weakly fair; nobody has to
send, stop or crash. Startup states safety only.

### What the violations show

* **cross_join.** Both daemons register the other's inbound connection, then each
  drops its own outbound one as a duplicate (peer.rs:266). Both connections close,
  both cleanups tombstone a healthy daemon, and no call of the code writes that
  daemon's address again. The broadcast plugin lets both sides find each other, so
  this is an ordinary start-up.
* **stale_handle.** A write that fails between registration and the loop returns with
  `?` past the cleanup (peer.rs:142, 157, 302). The handle stays, and every later
  connection with that daemon is refused as a duplicate.
* **first_start.** `load_or_generate_cookie` tests for the file and then writes it (mod.rs:336,
  347). Two first starts that overlap both generate; one runs with the cookie that the
  other has overwritten, and their handshakes fail until one is restarted.
  `examples/cluster_10.sh` starts ten daemons in a row on one home, each of which goes
  on in the background.

### Also seen

Behaviours the models have and no run reports as a violation of its own. Each was reached
in TLC with the instance named.

* **A stop spreads.** After the shutdown token is cancelled, each session of the stopping
  daemon tombstones its healthy peer in its cleanup (peer.rs:321) and signals the sessions
  that still run, one of which may send the tombstone out: with `Joins` a star of three
  daemons and the hub in `stops`, `OnlyGoneRemoved` fails.
* **Leave leaves.** `pmd leave` removes the handle only (mod.rs:260), although README.md:31
  says "Disconnect from a peer". The session goes on, and the other daemon goes on refusing
  a new one. If it dials all the same, the daemon that left accepts, is refused when its Ack
  arrives, and its cleanup tombstones a healthy peer: with one leave and no fault, `Joins` one
  way, `OnlyGoneRemoved` fails, and `HandleIsSession` too.
* **A daemon dials itself.** A daemon enters the address of its listener into the registry
  (mod.rs:60-66); with the default `--bind` (README.md:44) that is 0.0.0.0:4369 for all of
  them. Mesh expansion, there to "connect to an indirect node" (mod.rs:164), leaves out the
  local node by its id (mod.rs:318) and queues another node's 0.0.0.0:4369, which leads to
  the daemon itself: its inbound end registers, its outbound end is dropped as a duplicate,
  and the cleanup of the first tombstones the daemon in its own registry
  (`ConnectsToSelf`). The broadcast plugin's beacons carry the same address. A daemon that
  is started again at its address dials itself in the same way while its predecessor, an id
  of its own (main.rs:53), is still listed; so does one told to by `pmd join`. The last
  scenario of main_loop has both: `NoSelfDial` without its second half fails there, once
  through each. What `NoSelfDial` shows is that there is no other way to it.
* **A silent handshake.** A connection that is cut without a word while one end waits for the
  Handshake or its Ack leaves that task waiting for ever (peer.rs:66, 234): `SessionsEnd`
  without `Hangs` fails.
* **Names.** `pmd join` says "host:port" (cli.rs:57) and answers Ok to any string; a host name
  is not resolved but dropped at the next tick, with a line in the log (mod.rs:245).
* **A lagging subscriber is cut off** and sees the end of the stream, as if the daemon had
  stopped; cli.rs:105 says "streams events until interrupted". The alternative, going on
  with what is left, is what `StreamIsGapless` excludes.
* **A mutual block.** Both loops may wait in a write for the other to read, with both readers
  waiting for room in their channels, or one given up on a huge frame whose error its
  loop never gets to see. Two initial deltas larger than the connection's buffers do the same,
  since no reader task exists before the loop (peer.rs:157, 302, 370). Neither loop checks phi meanwhile. Only the end of a process or of
  the connection resolves it (`EndsTogether`).
* **An empty cookie.** A kill between creating and filling the cookie leaves an empty file, and
  every later start fails until somebody deletes it. A certificate or a key left empty does
  the same, and so does a certificate with another process's key, which overlapping first
  starts can leave.
* **Foreground daemons.** Without the lock of the PID file a stopping daemon may remove the
  socket file of its successor, and a late background start may overwrite the PID of a
  running foreground daemon before it finds the port taken. Daemons of one port on two
  addresses of the host (`--bind`) share the socket file: the later one takes it from the
  earlier one, or fails to bind it. These are the exceptions in `Reachable` and
  `RestartSucceeds`.
* **Signals.** ROADMAP.md:11 promises a SIGTERM handler; the loop listens for SIGINT only
  (mod.rs:169), and misses one that comes while a branch runs.
* **Reconnection.** ROADMAP.md:12 lists automatic reconnection as done; the code has none:
  known_peers never forgets, and a tombstoned daemon is no candidate for mesh expansion.

## 4. Proofs

All theorems hold for every value of the constants that satisfies the assumptions named
below; nothing else is assumed.

| Module | Theorem | States |
|---|---|---|
| ReplicationProofs | `Invariance`, `TypeCorrect` | `Spec => []IInv`, `[]TypeOK` |
| | `NoGapTheorem`, `ConvergenceTheorem` | `Spec => []NoGap`, `[]Convergence` |
| | `RemovalIsFinalTheorem`, `NoGhostServiceTheorem` | `Spec => RemovalIsFinal`, `[]NoGhostService` |
| PeerSessionProofs | `Invariance`, `TypeCorrect` | `Spec => []IInv`, `[]TypeOK` |
| | `OneSessionTheorem`, `IsolationTheorem`, `EventsTheorem` | `Spec => []OneSession`, `[]Isolation`, `[]EventsTrackMembers` |
| | `OnlyGoneRemovedTheorem`, `HandleIsSessionTheorem` | `Spec => [](Calm => OnlyGoneRemoved)`, `[](Calm => HandleIsSession)` |
| | `LoopTakesHandleTheorem` | `Spec => LoopTakesHandle` |
| | `RefinementTheorem` | `Spec => Refinement`: PeerSession implements Replication |
| | `SessionNoGapTheorem`, `SessionConvergenceTheorem`, `SessionRemovalTheorem`, `SessionGhostTheorem` | PeerSession's `Spec` implies Replication's four properties |
| FailureDetectorProofs | `TypeCorrect` | `Spec => []TypeOK` |
| | `NoFalseSuspicionTheorem`, `DetectsInTimeTheorem` | `Spec => []NoFalseSuspicion`, `[]DetectsInTime` |
| WireProofs | `TypeCorrect`, `FramesIntactTheorem` | `Spec => []TypeOK`, `[]FramesIntact` |
| EventsProofs | `TypeCorrect`, `GaplessTheorem`, `SnapshotTheorem` | `Spec => []TypeOK`, `[]StreamIsGapless`, `[]SnapshotThenReplay` |
| StartupProofs | `TypeCorrect`, `ReachableTheorem`, `RestartSucceedsTheorem`, `WholeCookieTheorem` | `Spec => []TypeOK`, `[]Reachable`, `[]RestartSucceeds`, `[]WholeCookie` |
| MainLoopProofs | `TypeCorrect`, `QueuedOnceTheorem` | `Spec => []TypeOK`, `[]QueuedOnce` |
| | `NoSelfDialTheorem` | `Spec => []NoSelfDial` |

MembershipProofs has the lemmas about the operators of Crdt and Membership (types, what a
call writes, which vectors cover which writes, what it does to the member list) that the
modules above it share. Each invariant was checked by TLC on an instance of its
run's size before it was proved.

**Assumptions.** `RankAssumption`: the order of replicas is total. `ServiceAssumption`: a
service path is not a node path. The other named assumptions say what kind of thing the
constants are. Two clauses of `SessionAssumption` go further: `Conn` is finite and some
budget allows the most service calls, because the refinement mapping computes from them
the number of writes and messages that Replication has to allow. `WireAssumption` says that a
frame has at least one piece of payload and that buffers hold something. `MainLoopAssumption`
says that a string is an address or a name, and that nobody is reached at a wildcard that
somebody advertises; any processes may share addresses.
`DetectorAssumption` relates the configuration to the network: answers come within one
period, `min_std_deviation` covers their jitter at the configured threshold, and
`DetectBound` is a silence that exceeds the threshold for any window of such answers.
`Calm` is no assumption about the constants but part of the statement: it is a state
predicate that says what has not happened yet (see "Until something goes wrong").

### Registry

`NoGap` is not inductive by itself, and the invariant grows along the ways a write
can be claimed and not held:

* `WritesCovered`: a document's vector covers its writes, so a vector can be used to
  decide what is new; `OwnVV`: nobody knows more of a daemon's calls than the daemon
  itself, so a new counter value is new everywhere;
* `MsgVV`, `MsgFrom`, `MsgNoGap`: the same three facts for a message in flight, measured
  against its receiver. `MsgNoGap` is where the obligation on `last_vv` enters: what a
  message claims is in the message or already with the receiver, now and later.

With these, two daemons with equal vectors hold equal sets of writes, and
`Convergence` follows. The other two theorems need three facts about the writes
themselves: `AddOnce` (a node's address is written once, by the node, with its first
counter value), `SvcValues` (only a node writes ports of its services) and `Sibling` (a
service's tombstone comes with its node's, in the same call and with the same
context). From `AddOnce`, a tombstone whose author had received the address supersedes
it wherever both meet. From `Sibling` and `NoGap`, a daemon that has a service's
tombstone has the node's too, and the author of both had seen the address.

### Sessions

`OneSession` follows from `Registered`: while nobody leaves, a session that is past its
handshake owns the handle for its peer, so two of them with one peer are the same. That is
kept because check and insertion are one step and a cleanup takes its own handle. It needs
to know who the peer is, hence `Frames` (a Handshake or an Ack names the daemon at the other
end), `Wired` (both ends of a connection are used or neither) and `Alive` (only a running
daemon has tasks). `Isolation` needs `Trusted` (both ends of a session have one cookie) and,
in `Frames`, that a delta on its way to a daemon holds writes of that daemon's cluster only.
`EventsTrackMembers` needs `DocsCovered`: a document's vector covers its writes, so a
cleanup's tombstone supersedes every address the daemon had, and its one NodeLeft is the
whole difference.

### Until something goes wrong

`OnlyGoneRemoved` and `HandleIsSession` are false in general; cross_join and stale_handle show
how. The theorems say what it takes to break them. A state is `Calm` when so far no fault has
happened, nobody has left or stopped, and no two daemons have dialled each other; in every such
state of every behaviour, of a cluster of any size with any number of duplicate dials under
way, both properties hold. Each clause of `Calm` is needed: without the last, cross_join; with
faults, stale_handle; with a shutdown, "A stop spreads" in section 3; with a leave, "Leave
leaves" there.

`CalmInv` is the invariant. A connection ends only because its responder refuses it, and then no
end has got past the handshake: `Sound` says that an end with a session has no closed partner,
so no read ends and no write fails, and that an initiator stays in its handshake while its
responder does. `Fitting` says that an Ack waits only for an initiator whose responder has a
session, and that no frame carries a tombstone; `Held` that a handle belongs to a session of
its daemon with its peer; `NoneDead` that no document holds a tombstone. The step that needs
all of it is an initiator which reads its Ack (`AckAccepted`): were it connected already, the
handle would be that of another connection it dialled itself, because nobody dialled back;
that connection's responder would have a session too, a second one of one daemon with one peer,
against `Registered`. So connect_to_peer's duplicate check (peer.rs:263) never fires in a calm
cluster, and the other one, of run_inbound, refuses before anything is registered.

`LoopTakesHandle` holds whatever happens. It needs `Placed`: a handle, stale or not, is in the
table of its session's daemon under its session's peer. A task leaves the loop by its cleanup,
which empties that entry, or with its process, which has no table any more. Together with
`HandleIsSession` this locates the finding of stale_handle: only the returns between the
insertion and the loop leave a handle behind.

### Sessions implement the registry

Replication asks two things of a session, each with an invariant (`RInv`) of its own.

* A delta is computed against a vector its receiver has reached. `LastReached`: the
  `last_vv` of a handle for `j` is at most `j`'s vector, whichever session put it there.
  It comes from Acks and deltas, so `FramesTruthful` says of frames on their way that what
  they claim is true of their sender, and since vectors only grow it stays true while they
  wait. A handle that survives its session, is taken by `pmd leave` or replaced by another
  session's changes nothing: `last_vv` may be old, and never too high.
* The bounds of Replication are not what stops a session. `InRoom` limits the syncs in a
  buffer, and so the messages in flight; `WritesCounted` charges a daemon's writes to its
  start, its shutdown, service calls and ends that closed. `OwnFirst` (a merge never raises a
  daemon's own counter) and `Begun` (who is connected has an entry of its own) complete it.

Then each action maps to one of Replication: a sync written to `Send`, a sync read to `Deliver`,
a cleanup or the begin of a shutdown to `Remove`, everything else to losing the messages that
were dropped, or to nothing. What a daemon connected to itself sends is no message of
Replication, and reading it changes nothing. The last part of the module instantiates
ReplicationProofs with the same mapping, which carries its four theorems over to the
documents that sessions keep.

### Detector

Two things have to be known of a window: what its sums are worth and when the checks come.

* `Sum` and `SumSquares` are folds over a function, which is a recursive definition over the
  subsets of its domain. Induction over it is done by a least element instead of an induction
  theorem: `FoldExists` shows that a set of indices with no fold would have a smallest
  cardinality (`Least`), and `SumsOfJitter` argues the same way from a set whose sums leave
  their bounds. For n intervals that lie between `Low` and `High` (a period less or more the
  jitter), the sum `S` is between n·Low and n·High, and n·Q − S², which is n² times the
  variance, is at most n²·MaxDelay².
* With these, `HeardIsTrusted`: while a live peer's last answer is no older than it can be at a
  check, the lateness is at most the jitter, and the floor covers that. And
  `SilenceIsSuspicious`: after `DetectBound` ticks the lateness exceeds the threshold both for the
  floor and for the largest variance a window of answers can have.
* The invariant is about timing. `Jitter`: the window holds intervals of answers. `Due`,
  `Answering` and `Answered`: where in its period each heartbeat, its answer and the clock since
  the last answer are. `Silent`: the detector misses at most the answer that was on its way.
  `Deadline`: a check that did not declare the peer dead came before the threshold was reached,
  and the next one is at most a period away.

### Frames, events, startup, main loop

**Wire.** `FramesIntact` needs to know where each piece in transit belongs. `Pipe` numbers the
pieces of the connection and of the rest being written: with each comes the frame it belongs to
and its place in it, starting where the reader is (`Continued`). `Assembled` says the same of
the part already read, `Arrived` of whole frames. Reading a piece moves the numbering on by one;
that a writer stops in the middle only shortens it.

**Events.** What a client has read, what is in its socket and what its task is writing are
consecutive pieces of the log ending at the receiver's position (`Read`, `Stream`, `Position`),
which is `StreamIsGapless`. For `SnapshotThenReplay`, `Announced` says that the last event
about a node says whether it is a member and `Followed` that a client is right about every
node it has no event to come of: both are per node, because the event of a merge and the
listing may come in either order.

**Startup.** The exceptions of `Reachable` are those of the invariant: `LockHeld` and `TcpHeld` say
who holds the lock and the listener at which step, `SockHeld`, `SockFree` and `PidHeld` what
follows for the files unless a daemon in the foreground is involved. `Loading`, `Ready`, `Fresh`
and `HasCookie` follow the cookie from its file to the daemon. `TypeOK` alone is not inductive:
a process that reads a certificate has to know that one is there (`CertThere`). A first
version of `RestartSucceeds` blamed a failed bind of the socket on a rival that runs in the
foreground; its proof failed on a state that three processes reach, in which the daemon in
the foreground is already over, has removed the PID file and with it the lock, and two
background starts on different addresses meet. The property now says so, and the run has
that setting.

**MainLoop.** `QueuedOnce` is inductive with `TypeOK`: the forwarding task and mesh expansion look
into the queue under the lock under which they push. `NoSelfDial` needs the daemon's addresses to
be absent from every stage on the way (`OwnAddressKeptOut`: plugins that wait, channel, queue,
connect tasks) until the daemon is `Misled`: until it has heard, by a sync or a beacon, of a
process that advertises one of them. That it stays so is `NothingForgotten`: neither
known_peers nor the registry loses an id while the daemon runs, and when it ends all stages
are emptied. A step that is not misled puts no own address in: mesh expansion and beacons
report another listed or seen process's address, the Azure plugin one whose IP is not the
daemon's.

### Only model-checked

Every invariant, action property and refinement that a passing run checks is proved. What is
left to TLC:

* Liveness, which is outside the proof system's reach: `GossipConverges`, `SessionsEnd`,
  `JoinsAreDialled`, `StopHappens`, `MeshFills`, `EventArrives`, `GoneIsNoticed`, `FrameArrives`,
  `EndsTogether`.
* What holds of `OnlyGoneRemoved` and `HandleIsSession` outside `Calm`: session_ring has instances
  without faults only, and the violations are runs of their own.

## 5. What is not modelled

Not modelled:

* what TLS and the HMAC do (cryptography): a cookie is compared, a key matches or not;
* metrics (metrics.rs formats one locked read of the state) and the printing and argument
  parsing of the command line;
* config.toml and file permissions;
* the beacons' format and Azure's HTTP queries (their effect is a discovered address);
* errors of `accept` (server.rs:33), after which a daemon no longer listens: the kernel
  decides when they come, and the code does nothing but end the task;
* the detector's `last_heartbeat_epoch` and the addresses, ports and metadata of entries, which
  are only displayed.
