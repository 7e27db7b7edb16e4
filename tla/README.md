# vnts: specifications, model checks and proofs

This directory specifies the `vnts` relay server (`src/`) in TLA+. TLC checks the
specifications on small instances. TLAPS proves the most important properties for every
value of the constants. `PROJECT.json` lists runs, mutants, theorems and hazards and gives
the source lines of every definition.

Contents: [the system](#the-system), [modules](#modules), [runs](#runs),
[fairness](#fairness), [proofs](#proofs), [what does not hold](#what-does-not-hold),
[what is left out](#what-is-left-out), [not modelled](#not-modelled), [how to run](#how-to-run).

## The system

A `vnts` server relays packets between the clients of virtual networks. Paths are below
`src/src/`.

| Part | Source | What it does |
|---|---|---|
| Control service | `server/control_server/{service,handler}.rs` | A client connects over TCP, TLS, QUIC or WebSocket and registers a *session* in a network. The session is a link; dropping it (`Drop for Session`) takes the link away. Administrators edit devices through the same service. |
| Network state | `server/network_state_provider.rs` | Per network: devices with addresses (*leases*), the *pool* of links published at an address, statistics, and the versioned device list. One mutex (`lease_state`) guards the leases; pools and statistics are concurrent maps beside it. |
| Subscriptions | `service.rs`, `http/web_server.rs`, `server/control_server/db.rs` | A managed device has a configuration row with a revision. Control connections receive it, apply it, acknowledge it. |
| Tunnel engines | `server/wireguard.rs`, `server/ikev2.rs` | One task per service. It handles a UDP packet, a command or a timer to the end, then the next. A handshake registers a session like any client. |
| Cluster | `server/peer_server.rs` | Connections to other servers, pulled every 30 s for their clients; packets follow the best route. |
| Console | `http/web_server.rs`, `utils/{config,ikev2_cert}.rs` | Administrator requests: networks, devices, managed configurations, tunnel settings and their certificate, lists, peers. |
| Database | `server/control_server/db.rs` | Rows of networks, devices, managed configurations and peers. Memory comes first and the row later. |
| Transports, formats, start-up | `server/{tcp,quic,websocket,tcp_websocket}.rs`, `protocol/`, `utils/`, `main.rs` | I/O around the above. |

They meet in six places, and that is where the hazards are:

* **Sessions and edits.** Registrations, drops and expiry race with administrator edits
  that hold a per-network mutation lock across database writes.
* **Edits and engines.** An edit sends commands to an engine and waits, holding the lock
  that the engine needs to register a handshake.
* **Rows and connections.** A configuration is stored, pushed and acknowledged by
  different tasks, while connections come and go.
* **Memory and rows.** An address or a network exists in memory before its row is written,
  by the request itself or by a spawned task, and a restart begins from the rows.
* **Settings and services.** A setting is saved, its certificate files rewritten and its
  service restarted one after another, and all three are undone when the last fails.
* **Servers and servers.** Routes describe where clients were some time ago.

## Modules

| Module | Models | Proofs |
|---|---|---|
| `NetworkState` | one network: leases, pools, sessions, device edits | `NetworkStateProofs` |
| `LeaseBook` | what a network promises about addresses; `NetworkState` implements it | `NetworkStateProofs` |
| `DeviceRows` | `NetworkState` plus the rows of its devices, restarts and reloads | `DeviceRowsProofs` |
| `Networks` | one network code: configuration, row, loaded state, and who depends on them | `ConsoleProofs` |
| `ClientListSync` | `NetworkState` plus a client that keeps its device list up to date | `ClientListSyncProofs` |
| `TunnelControl` | edits and service changes against a tunnel engine | `TunnelControlProofs` |
| `Ikev2Engine` | the IKEv2 engine's tables | `EngineProofs` |
| `EspInbound` | the anti-replay window of a child SA | `EngineProofs` |
| `WireguardEngine` | the WireGuard engine's peers, receiver index and relay queue | `EngineProofs` |
| `Subscription` | one managed device's row, connections, pushes, acknowledgements | `ConsoleProofs` |
| `Settings` | configuration file, certificate files, services, lists, start of the process | `SettingsProofs` |
| `PeerServer` | connections to other servers and the routes learnt through them | `PeerServerProofs` |
| `Forwarding` | unicast packets across a cluster | `EngineProofs` |

`MC…` modules add the sets, symmetries and views that TLC needs. `MCEngines` holds the three
packet engines and `MCConsole` the settings, a managed device and a network code: the
variable `part` says which of them an execution is about, and the others stay in their
initial state. `Forwarding` is run directly. A definition whose comment
says `mutant:` is a plausible bug. No specification uses it. Replacing the definition
below it by it must make a run fail, which shows that the property looks at that code.

### NetworkState

State: `device_map`, `device_ip_map`, `active_ip_map`, `sender_map`, `traffic_stats_map`
and the two version counters are the fields of `struct NetworkState`. A pool is named by
the session that created it, `links` gives its members. `session` holds the `Session`
values with their phase. `admin` is the edit that holds the mutation lock, with the entry
it would put back. `managed` is a managed-configuration edit that may still roll back.

A step is one critical section of `lease_state`, or one access to a concurrent map outside
of it. So a drop is three steps, as in the code: `OfflineLookup` (find the pool),
`RemoveLink`, `FinalizeOffline` (re-check under the lock). The release of a
pre-registration is two: `ReleasePreRegistered`, `ReleaseTail`. An edit is `UpsertDevice`
and then `UpsertSaved` or `UpsertSaveFails`. The other actions are `Register`,
`ConfirmRegistration`, `FastRegisterAgain`, `FastRegisterMove` and `FollowPool` (the three
outcomes of `fast_register`), `DeleteDevice`, `ReleaseExpired`, `UpdateRuntimeMetadata`,
`DisconnectSubscription` and `ManagedSnapshot`/`ManagedCommit`/`ManagedRollback`.

Addresses are integers, because the server assigns the lowest free one. Clocks are left
out: any set of offline devices with dynamic addresses may be found expired.

### LeaseBook

Two variables, the address a device is assigned and the one it is live on, and five kinds of
change. An address is taken only while it is nobody else's, so it passes from one device to
another only through a state in which it is nobody's. `BookKept` instantiates the book with
`device_map` and `active_ip_map`; every step of `NetworkState` is a step of the book or
leaves it alone.

### DeviceRows

Adds to `NetworkState` the rows, the write that the holder of the mutation lock awaits
(`holding`) and those that run without it (`writes`: the confirmation of a pre-registration
and the task spawned by a drop). `RegisterRow`, `FastRegisterRow`, `UpsertRow`, `DeleteRow`
and the others are `NetworkState`'s actions with the write that follows them;
`…Completes` and `…Fails` are the ends of a statement. `Restart` and `ReleaseNetwork` forget
memory and load the rows. `behind` is a history variable: the devices whose row the code lets
fall behind memory; `restored` says that a managed edit was rolled back or that rows with one
address were loaded.

### Networks

`db_nets` is the configuration in memory, `net_row` its row, `state` the loaded network state
with the addresses of its devices, `device_rows` their rows. What an address is abstracts to
the network it belongs to. A registration is `RegisterLocked` (takes the mutation lock and
creates the network if nobody has), the fetch of the state (`Found`, or `BeginLoad` and
`EndLoad` under the init lock), `Allocate` and the await of its row; `TunnelBegins` is the
part of a tunnel registration that runs before the lock. `add_network`, `update_network` and
`delete_network` are a check, the statement (`NetworkWritten`) and the change of memory
(`NetworkApplied`). `release_network` is the look and the removal. `Restart` may come at any
moment. `slips` is a history variable, explained [below](#what-does-not-hold).

### ClientListSync

Extends `NetworkState` with one observer: `known` (list and version) and `answers` under
way. `Ping` is `changed_client_simple_list` for the version the client sends; `Receive` is
the client, external to this repository, which replaces or merges and takes the version.
`edited` is a history variable: addresses changed by editing a connected device, which the
code does not publish (see [below](#what-does-not-hold)).

### TunnelControl

One specification for both engines, by the variable `kind`. A configuration is a model
value (an address, or a password). `config` is the state in memory, `db` the row, `table`
what the engine uses, `peers` the configuration each connected peer was captured with.
`cmds` is the engine's channel, `answered` the one-shot replies. An administrator request
steps through `admin[a].pc` the way `upsert_device` and `delete_device` do, with the locks
in the code's order. The console's service changes are `WithdrawEngine`,
`ReloadSettings` and `WebStep`.

### Ikev2Engine, EspInbound and WireguardEngine

The engine's maps are variables; every handler that changes one is an action. The client
and the network are not modelled: any message may arrive at any time, again, or never. Ages
are one bit, `old`, set by a step of its own and tested by `cleanup`. `link` is the link
that the device's last registration published in the network. `EspInbound` is the 64-bit
`ReplayWindow` with the width as a constant and the bitmap as a set of distances;
`accepted` is a history variable.

`WireguardEngine` has `devices` (the configured table), `peers`, `receiver_to_peer` and the
relay queue. Its actions are the handlers of a datagram (by handshake or by index), of a
relayed packet, of the two commands and of the tick. The protocol is the library's: a tunnel
may answer anything with a handshake message that carries a fresh sender index. `silent` is
the environment: peers of which nothing authentic arrives any more.

### Subscription

`revision`/`broken` are the row; `entry` the value in `subscription_sessions`; `conn`,
`queue` and `acks` the control connections. The two writers (edit of the
configuration, change of access) commit, re-read, pick a target and deliver in separate
steps, since the code awaits between them. An acknowledgement is `BeginAck`, which reads the
row, and `FinishAck`, which updates the entry. `applied` is a history variable: what each
client run has applied.

### Settings

`file` is the text of the configuration by section, `disk` the four files of the managed
certificate, `engine` and `manager` the two services, `request` a service update with its
position, `saving` an update of a list. Every file is written by a step of its own
(`WriteFile`) and may fail; `restore` is the sequence of writes that puts a backup back.
`Boot…` is `main`. A stop may come between any two steps and may tear the file being
written. `lossy` is a history variable: what could not be put back.

### PeerServer and Forwarding

`PeerServer` has the connection tasks, the loop of each connection, the routes and the
console's two requests; other servers answer anything. A removal cancels a loop wherever it
stands. `Forwarding` leaves the life of connections aside (both ends see one go up or down
separately) and follows a packet: own client, best route, hand-over, delivery. `Sync` is a
pull and its answer.

## Runs

Passing runs check deadlock unless the instance really stops: a session id, connection or
engine is used once, so those instances end (`CHECK_DEADLOCK FALSE`). `console` ends where the
revisions are used up, and its network code can also meet the deadlock of `tunnel_deadlock`.

| Run | Question | Properties |
|---|---|---|
| `network_leases` | Registrations in both modes, several links per client, edits whose write may fail, deletions, expiry: does every address keep one owner, and is every step one of the address book? | `AddressExclusive` `BookKept` |
| `network_rollback` | With WireGuard devices and managed edits that roll back: is a device live once, and does a packet still reach the device that holds the address? | `SingleLease` `DeliveryMatchesLease` |
| `network_ghost` | *Violated.* Is a device offline once its last link has gone? | `OnlineHasSession` |
| `device_rows` | Writes in flight, failed statements, restarts, reloads: are rows what memory says, and do addresses stay exclusive after a restart? | `RowsCurrent` `RowsExclusive` `ExclusiveOverRestarts` |
| `client_list_sync` | Does a client with the current version have the current list? Does the online flag follow the links? | `ListExact` `LiveLinkStaysOnline` `LegacyGoesOffline` |
| `tunnel` | Edits and removals against handshakes, failing writes and service restarts, for either tunnel: does the engine use the configured table, is nobody connected under a replaced one or without state, does no caller wait for a stopped engine? | `EngineTableCurrent` `NoStalePeer` `NoOrphanPeer` `NoLostAnswer` |
| `tunnel_deadlock` | *Violated.* Does every edit end? | `EditCompletes` |
| `engines` | IKEv2: are tables, indexes and links consistent under handshakes, rekeys, deletions and timeouts in any order, and do half-open exchanges end? ESP: is no packet accepted twice, none within the window lost? WireGuard: does the index name the current peers, are peers configured, are relayed packets for the present address, does a silent peer go? | `TablesAgree` `LinkExact` `HalfOpenEnds`; `NoReplay` `LatePacketAccepted`; `IndexRouting` `PeersConfigured` `RelayCurrent` `SilentPeerGoes` |
| `console` | Settings: do services run what the file says, can every state be started again, does a failed update leave no trace? Managed device: is the applied revision shown real and monotone, does the end of an old connection spare the new one? Network code: is the loaded state that of the present configuration, is every session in it, does every address fit? | `SavedServiceRuns` `ListsCurrent` `Bootable` `IssuerOffered` `RollbackExact`; `TruthfulStatus` `AckMonotone` `LiveSessionKept`; `StateCurrent` `SessionsListed` `AddressesFit` |
| `settings_restore` | *Violated.* Is the former service kept when an update cannot be applied? | `OldServiceKept` |
| `peer_server` | Peers added, removed, lost, reconnected: no route outlives its connection or the last report; a peer survives a restart. | `NoDanglingRoute` `RouteIsLatest` `TaskHasRow` |
| `forwarding` | A client that comes, goes and roams: do routes catch up, does a packet then find it, does nobody get a packet they do not accept? | `OnlyAccepted` `SettledReach` `RoutesSettle` |

### Bounds

| Run | Instance | Why it is enough |
|---|---|---|
| `network_*` | 2 devices, 3 sessions, 2 assignable addresses and the gateway, `data_version` up to 3 for client operations | Two devices contend for an address; three sessions are a registration, its successor and another link, or a competitor during a drop; a third address would remove the contention. The lease properties are proved without the bounds. |
| `device_rows` | 2 devices, 2 sessions, 2 addresses, `MaxFaults` = 1 restart, reload or failed statement | A late write needs a session that has ended, one that follows and a restart. |
| `client_list_sync` | 2 devices, 2 sessions, 1 client instance, 1 answer under way | The proof covers any number of answers. |
| `tunnel` | 2 devices, 2 configurations, 2 requests, 2 handshakes, 2 starts of the engine (1 each for the deadlock) | Each property needs one edit, one handshake and one competitor. |
| `engines`, IKEv2 | 3 IKE SAs, 2 child SPIs, 2 devices, 2-part messages, at most 2 incomplete | An established association, its replacement and a rekey use three IKE SAs. |
| `engines`, ESP | width 3, sequence numbers up to 7, 1 rekey | All shifts below, at and beyond the width; proved for every width. |
| `engines`, WireGuard | 3 keys of 2 devices, 2 addresses, 3 sender indexes, relay queue of 1 | A device whose key is replaced, beside another that may get its address. |
| `console`, settings | 2 addresses, 2 identities (one with the administrator's certificate), 1 fault | The two services can collide on an address, and an update can change address and identity together. |
| `console`, managed device | 2 connections of one client run, queue of 1, 2 revisions, 3 changes of the row | A reconnect under an edit, a late acknowledgement, a full queue. |
| `console`, network code | 1 VNT and 1 tunnel device, 2 configurations, with and without one in the file | The two ways of registering, an edit and a spawned write of the former configuration. TLC stops at a slip, after which the three properties say nothing. |
| `peer_server` | 1 address, 2 connections, 2 tasks, 2 requests, 2 networks, 1 client address, queue of 1 | A peer removed and added again, beside an inbound connection. Proved without the bounds. |
| `forwarding` | 2 servers, 1 client address, latencies 1 and 30 around the default 10 | A client on either or both, each way the faster one. |

Symmetry is used for sets whose members are interchangeable, and in no run that checks a
liveness property. The views leave out what no action and no property of the run reads: the
versions (`LeaseView`, `RowsView`), the reported errors (`SettingsView`) and the parts that
stand still (`MCView`).

## Fairness

Four properties are liveness properties, and each assumes no more than the code schedules:

* `HalfOpenEnds`: weak fairness of `cleanup`, which a timer of the engine calls, and of
  time passing for an entry. Nothing is assumed of clients.
* `SilentPeerGoes`: weak fairness of the engine's tick, and of time passing for a peer of
  which nothing authentic arrives. Packets that only name its index may keep coming.
* `RoutesSettle`: weak fairness of `Sync` between connected servers (the pull interval) and
  of `Expire` (the end of a broken connection is noticed). The premise is that from some
  time on clients no longer change and connections that are lost do not come back.
* `EditCompletes`, violated: strong fairness of the engine's steps and of the requests, as
  tokio's fair mutex and channel queues give, weak fairness of the others. It fails all the
  same because everyone waits.

## Proofs

All are for arbitrary constants under the module's named assumption: the placeholders
(`None`, `Nil`, `Absent`, `Torn`) are none of the values, sets of actors are disjoint, the
bounds are numbers. Three ask for more. `EngineAssumption`: the set of associations is finite.
`SettingsAssumption`: whatever six keys the files, a backup and a candidate hold, another one
can be generated. `NetworksAssumption`: the default network is a network. A theorem with a
hypothesis of its own names it below. TLC evaluates each assumption on the runs of its module.

**Leases** (`NetworkStateProofs`; `NoRollback`: the event `managed_rollback` does not occur).
`AddressExclusive` alone is not inductive. A failed write puts back an old entry without
validation, so the address of that entry must not have been taken: `EditRevertible` says
that, and it holds because registrations respect the mutation lock. Delivery needs
`PoolsMatchLeases`, which says what is true of a pool *while* its address is being released,
`PublishedOnce`, `SessionsNamed` and `LinksRegistered`. Together with `TypeOK` they are
`LeasesHold`, and with no managed edit under way they are `LeaseInvariant`. There is one lemma
per action, and `StepKeepsLeases` puts them together: every step but a managed rollback
(`LastingStep`) preserves `LeasesHold`, managed edits that are not rolled back included.
`LeasesInductive` follows, and from it `AddressExclusiveAlways`, `SingleLeaseAlways`,
`DeliveryMatchesLeaseAlways` and `TrafficCreditedAlways`.

**Address book** (`NetworkStateProofs`, same hypothesis). `NetworkKeepsBook` shows that
`NetworkState` implements `LeaseBook`. Every action is one of the book's five changes or
none; `LeaseInvariant` gives what the mapping needs, that a device is live on one address and
that the address of an entry is the entry's in `device_ip_map`.

**Device rows** (`DeviceRowsProofs`; no hypothesis: managed edits may be rolled back and any
number of faults may happen). `RowsKept` relates every write in flight to the entry it was
made from: a record on its way is that of the entry as it is, or it is marked late
(`WritesTrue`, `HoldTrue`); a row that is not behind is what memory says, or it is one the
holder of the mutation lock is about to write, and while addresses are being released only
the address is missing from it (`RowsTrue`). It rests on `MemoryTyped`, the part of the types
that survives a rollback, where `LeasesHold` does not. `RowsCurrentAlways` follows.
For the addresses `Separate` says that, until a rollback or the loading of a shared address,
the leases hold, the address in a true row is no other device's in memory (`RowsApart`) and in
no other true row (`NoneShared`). Neither of the last two follows from `RowsKept`: while a
device's row waits to be written it still has the address the device gave up. They are
preserved because a row under a write keeps its address only while no other entry gets a new
one (`Settling`), which every step lemma shows beside `RowsKept`; the leases are preserved by
`StepKeepsLeases`, and made afresh from the rows by a restart or a reload (`LoadedLeases`).
`RowsInductive` is the conjunction; `RowsExclusiveAlways` and `ExclusiveOverRestartsAlways`
follow.

**Device lists** (`ClientListSyncProofs`; `NoRollback`). `ListExact` speaks of a client
that is up to date. The invariant says what a client of *any* version knows: if its version
is not below `full_sync_version`, every address is listed as it is, or the entry there has a
newer version (`KnownAgrees`). The same is said of answers under way (`AnswerAgrees`), and
that answers are ordered. `SyncInductive` proves it on top of `LeaseInvariant`.

**Online flag** (`ClientListSyncProofs`; `NoRollback` and `NoPreRegister`: clients register in
one phase). `LiveLinkAlwaysOnline` proves `LiveLinkStaysOnline` through the leases: a device
that holds a lease is online, also after the edit under way is taken back (`LeasesOnline`),
and a published pool is its lease holder's. The drop that turns a device offline takes its
lease in the same step; that it is the *same* device's needs `LinksTogether` and `DrainsOwn`:
a pool's links, and the link that drained it, are of the device that created it.
`LegacyAlwaysGoesOffline` (also `Undisturbed`: no write of an edit fails, no subscription is
disconnected) proves `LegacyGoesOffline`. Its invariant names, for every online device whose
sessions have no instance id, the session that will take it offline (`Held`): it published
the pool at the lease's address, is on that address, and is the pool's only link until it
drains it. A move of the pool moves that session too, because a pool without an instance id
has no second link (`LoneLinks`). Both hypotheses of `Undisturbed` are needed: a failed write
may put back an entry that was online, and a disconnected subscription leaves no pool to find.

**Network code** (`ConsoleProofs`). `StateCurrentAlways`, `SessionsListedAlways` and
`AddressesFitAlways` follow from `NetworkInvariant`, which has two layers. Who holds which
lock at each step (`Sequenced`) holds always. The rest holds until a slip: every copy of the
configuration in use is the configured one, wherever it is, in a state, a row, a load or a
request (`Copies`); what an edit of the network found when it looked is still so when it
changes memory (`Checked`); and a tunnel device without a row is in no engine's table, or the
administrator's request is about to refresh that table (`Created`). `Created` is what keeps
the part of a tunnel registration that runs before the lock from reviving a deleted device.

**Edits and engines** (`TunnelControlProofs`). `TunnelInvariant` says who holds the locks
(`Requests`), how an engine lives and dies as the console sees it (`EngineLife`), that a
request waits exactly while its command is in the channel or its answer is there (`Channel`,
`NoLostAnswer`), that a connected device has its state (`Served`), and, unless `disturbed`,
what the table, the reloads in the channel and the captured peers are for every device that
is not being edited (`Current`). `EngineTableCurrentHolds`, `NoStalePeerHolds`,
`NoOrphanPeerHolds` and `NoLostAnswerHolds` follow.

**IKEv2 engine** (`EngineProofs`). `TablesAgree`, `OneAssociation`, `OnePhase` and
`LinkExact` need each other, and three more: session ids and fresh child SPIs are not in
use elsewhere (`IdsApart`, `ChildrenApart`), and an exchange that has not registered was not
overtaken (`Unregistered`). `EngineInductive` proves the conjunction and the four follow.
`EngineTyped` adds the limit on incomplete messages, by counting.

**Replay window** (`EngineProofs`). `WindowExact` says that the bitmap marks exactly
the accepted packets among the last `Width`; `NoReplayAlways` and
`LatePacketAcceptedAlways` follow for every width and sequence space.

**WireGuard engine** (`EngineProofs`). `IndexRouting` is inductive by itself.
`RelayCurrent` is not: the destination check of `handle_relay` compares with the peer's
address, which is the device's only because of `PeersConfigured`. `WgInvariant` is their
conjunction with the types.

**Packets across a cluster** (`EngineProofs`). `OnlyAcceptedAlways` is inductive by itself.
`SettledReachAlways` follows from the types: with settled routes there is a best route, since
latencies are natural numbers and a nonempty set of them has a least element (`LeastNumber`,
from the library's theorem on minimal elements), it leads to a server that has the client, and
that server delivers what the client accepts.

**Cluster connections** (`PeerServerProofs`; `Exclusive`: requests about one address are made
one at a time). `PeerInvariant` adds that a live task is the one kept for its address or one
that a removal waits for (`TasksKept`, `RequestsApart`), that a listed connection has a running
loop or a removal that has yet to sweep it (`LinksListed`), and that routes lead through listed
connections (`RoutesListed`). Four theorems follow: `RoutesNeverDangle`,
`RoutesAlwaysLatest`, `AlwaysOneConnection`, `TasksAlwaysHaveRows`.

**Settings** (`SettingsProofs`). `SettingsInvariant` says what a request has filled in at each step
(`Shaped`), which of two texts each service runs from (`Running`), where each list is
(`ListsInStep`), and what is left to write of the certificate (`CertificateKept`): the writes
still to do make the files complete (`Completing`) or equal to the backup (`Restoring`), so the
files are whole whenever none is left. `SavedServiceRunsAlways`, `ListsCurrentAlways`,
`BootableAlways`, `IssuerOfferedAlways` and `RollbackExactAlways`, an action property, follow.

**Managed devices** (`ConsoleProofs`). `StatusNeverGoesBack` and `SessionsAlwaysKept` are
action properties and rest on `SessionInvariant`: a connection enters the session entry once.
`StatusAlwaysTrue` (under `OneRun`: one client run) needs `SuccessesApplied`: every success on
its way to the entry, in a queue or inside an acknowledgement, has been applied.

Proved and no longer checked by a run: `TrafficCredited`, `OneAssociation`, `OnePhase`,
`OneConnection`, `WindowExact` and the type invariants.

Only model-checked: the liveness properties (`HalfOpenEnds`, `SilentPeerGoes`,
`RoutesSettle`), since fairness is out of the prover's reach. Every safety property of a
passing run is proved.

## What does not hold

Three runs end in a counterexample and are findings in `PROJECT.json`:

* `network_ghost`: each link of a client keeps its own copy of the address. When one link
  moves the pool (`fast_register`), another that ends later looks at its stale address,
  finds no pool and returns. When the moving link ends too, the pool still holds the dead
  link: the device stays online with no session left.
* `tunnel_deadlock`: `upsert_device` waits for the engine's answer while it holds the
  network's mutation lock; the engine may be inside a registration that waits for that
  lock.
* `settings_restore`: an IKEv2 update changes address and identity and the new address cannot
  be bound. The former service is started again from certificate files that already carry
  the new identity, and does not start; the files are put back afterwards. The message says
  that the old service was kept.

The following are stated in the modules or are known limits of a passing run. They concern
what no document, comment or test of the repository promises, so they are not findings.

* `ReleaseSparesLiveLinks` (`NetworkState`): a released pre-registration clears the pool map
  after giving up the lock and can take away the pool of a newcomer.
* `AddressExclusive` and `LiveLinkStaysOnline` do not survive a managed rollback, which
  restores an address without validation (hence `NoRollback`).
* `LiveLinkStaysOnline` is checked without pre-registrations; with them and an edit in
  between it fails.
* `ListExact` leaves out addresses changed by editing a connected device: the edit does not
  publish a version.
* `EngineTableCurrent` excepts (`disturbed`) a service that was started during an edit, which
  starts from devices read before it, and a write that failed after a handshake had read the
  edited entry.
* `RowsCurrent` and `RowsExclusive` except the devices in `behind`: the row written by a drop races with every
  later one, a failed statement is not repeated, an expired address stays in the row of a
  device with a managed configuration.
* `StateCurrent`, `SessionsListed` and `AddressesFit` hold until one of three slips.
  *released*: `release_network` removes a state that a registration has fetched since it
  looked. *late*: the row written by a drop lands after its device, and perhaps its network,
  was removed. *lost*: a restart brings back another network than the one in memory, because
  the row of a network created by a registration is written by a spawned task, or by nobody
  when that registration is refused.
* `SavedServiceRuns` and `Bootable` except what could not be put back (`lossy`). A handler
  that is dropped because its client disconnects is not modelled; nothing then undoes a saved
  update.
* IKEv2: `ReloadCredentials` keeps established associations and `DisconnectDevice` ends only
  those, so an EAP exchange that completes between the two stays connected under the replaced
  configuration. At the limit of incomplete messages the missing parts of a message already
  begun are refused too.
* A tunnel client that moves to another server is refused there (WireGuard) or given another
  address (IKEv2) for as long as routes name its former connection.
* `PeerServer` has a loop that waits for room in the queue it empties itself; no property
  forbids it.
* `SyncConverges` (`Subscription`): a push between the read of the row and the insertion of
  the entry finds no session, and a control connection is not caught up later.
* `TruthfulStatus` is checked for one client run; when another run registers during an
  acknowledgement, its entry is credited with a revision it has not applied.
* `peer_server` assumes that requests about one address are made one at a time
  (`Exclusive`): `add_outbound_peer` checks and inserts without a lock across.
* `SettledReach` leaves out a server whose entry keeps the latency of a client that has left
  (`LatencyLeft`). Such a packet may be dropped although a route exists.

## What is left out

* Cryptography, key agreement, payload formats, TLS and certificates: a message that fails
  its checks is one that does not arrive.
* Names, key signs, byte counts, log lines: no property tells them apart.
* Accept loops and framing: a transport is a session that may end at any time.
* Clocks: a timeout may strike whenever its entry is idle.
* Clients: external, modelled by what the server's handlers accept and expect.

`PROJECT.json` lists each part with its status.

## Not modelled

* *Subnet advertisements.* The snapshot is computed afresh from the online devices and the
  routes for every request, by a pure function (sort, the smallest address wins a duplicate,
  hash), and is sent when its hash is not the client's. Nothing is kept between requests; the
  state it reads is in `NetworkState` and `PeerServer`. Its unit test covers the function.
* *Broadcasts and RPC over a session.* Relayed to the links of a network with no state of
  their own.
* *Transports, message formats, logging.* I/O and encodings around the handlers.
* *Validation in the console's handlers, listings, login.* Sequential checks of one request;
  a rejected request changes nothing.
* *Cancelled handlers*, and the migration of managed rows at the start: the former come from
  the HTTP library, the latter is a sequence of idempotent statements before anything runs.
* *Several networks at once.* Networks share no state but the engines and the connections to
  other servers, which `TunnelControl`, the engine modules and `PeerServer` have.

## How to run

    tlc -workers 2 -config NetworkLeases.cfg MCNetworkState
    tlc -workers 2 -config Console.cfg MCConsole
    tlc -workers 2 -config Forwarding.cfg Forwarding
    tlapm NetworkStateProofs.tla

Every passing run takes two to three minutes at most on two cores. The longest proofs,
`NetworkStateProofs` and `ClientListSyncProofs`, take six to eight minutes.
