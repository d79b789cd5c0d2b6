# TLA+ models of sapphire-framework

sapphire-framework keeps directories of plain files ("workspaces") in step between a
user's devices without a server, and indexes them for search. This directory models the
parts of it whose correctness depends on the order in which processes, tasks, devices and
failures act: replication of files, the sessions that carry it, the runtime that holds the
sessions, the bridge that routes streams between devices, membership of a workgroup, the
settings of two processes, and the search index. The models are checked with TLC on small
instances; the facts that replication leans on are proved with TLAPS for all instances.

## The system

One process owns each piece of state (docs/ARCHITECTURE.md). An *app server* owns the
replicas and the index of its workspaces; a *bridge* per host owns the network and hands
streams to app servers; clients talk to both over a local socket.

| component | state | operations | talks to | what is hard |
|---|---|---|---|---|
| `vv`, `hlc`, `merge` | none | `covers`, `merge`, `tick`, `observe`, `winner`, `join` | replica | order of joins, ties |
| replica (`replica.rs`, `store.rs`, `staging.rs`) | path states, counter, clock, vector, pending writes, staged contents; the files themselves | `scan`, `apply`, `fetch_missing`, `commit_session`, `delta_for`, `unavailable`, `collect_staging`, `open` | called by sessions and the watcher under one lock | users edit files between any two steps; crash anywhere; missing roots |
| session (`session.rs`, `writer.rs`, `incoming.rs`, `live.rs`) | what is wanted, whether the peer is done and settled, the open blob, two outgoing queues; batches waiting for content, the `open` flag | `run_session`, `initial_exchange`, `close`, `refuse`, `open_live_session`, `push`, drop | replica; the peer's session; app server | two loops and two writers over bounded streams, cuts, timeouts; noticing the end |
| app server sync (`server/src/sync`) | live sessions per peer, dial claims, the synced, pending and stopped roots | `dial_loop`, `insert`, `fan_out`, `catch_up`, `enable`, `disable`, `release`, `attach`, `reregister` | session, bridge | both ends dial; star topology; a reconnection beside an operation |
| current workspace (`server/src/current.rs`, `selection.rs`, `host.rs`) | the selected workspace, `workspace.toml` | `select`, `map`, `relocate`, `remove`, `enable_sync`, `disable_sync`, `restore` | app server sync | switching while tasks hold the store |
| election (`bridge/src/election.rs`, `hello.rs`) | claims, heard Hellos | `step`, `elect` | peers, by lossy Hellos | disagreeing views, start-up wait |
| data plane (`bridge/src/data.rs`, `control.rs`, `routes.rs`) | tickets, parked streams, owners, routes | `park`, `hold`, `claim`, `announce`, `register` | app servers, network | expiry racing a claim, two connections of one server |
| membership (`bridge/src/invite.rs`, `pairing.rs`, `workgroup.rs`, `wgsync.rs`, `registry`) | invite file, device ledger | `create`, `redeem`, `join`, `retire`, `set_priority`, ledger sessions | peers | single use, ledgers that have not met, crash |
| settings (`settings`, `server/src/settings.rs`, `config_methods.rs`, `bridge/src/embed.rs`) | settings files, values in use, start state | `config.set`, `refresh`, `reload_embed` | app server, bridge | one batch over two processes, overlapping reads |
| index (`workspace`, `track`, `retrieve`, `bridge_embedder.rs`) | records, stamps, full text, vectors, vector files | sweep, file handlers, embedding pass, search | app server, bridge | buffered full text, models that change |
| IPC (`ipc`) | connections, outstanding requests | call, notify, reconnect | everything | reconnects |
| CLIs, GUI, MCP, service, update | none of their own | - | app server, bridge | - |

`PROJECT.json` lists the same components with their files and status, and the hazards of
this code with the line where each bites and the property that would catch it.

## Modules

| module | what it is |
|---|---|
| `VersionVectors`, `Hlc`, `Merge` | the operators of `vv.rs`, `hlc.rs`, `merge.rs` |
| `Replication` | the abstract specification of synchronisation: who knows which writes, and what a vector may claim |
| `Replica` | the replicas of one workspace, their files, users, crashes and what a session does to them |
| `Session` | both sides of one stream: read loops, writer tasks, queues, frames, the live phase |
| `LivePeers` | the live sessions of one workspace on all hosts: dialling, the tables, fan-out, forwarding, the star |
| `Serving` | one app server's current workspace, the opening and closing of replica stores, registration |
| `Election` | which devices become the hubs of the star |
| `DataPlane` | how a peer's stream reaches the app server that owns its workspace |
| `Membership` | invites, pairing, the device ledger and its replication |
| `Settings` | batches of settings over the app server's and the bridge's files |
| `Index`, `Ann` | records, full text and vectors of a workspace; the approximate index beside the vectors |
| `ReplicaProofs`, `SessionProofs`, `LivePeersProofs` (with those of `Replication`), `ServingProofs`, `BridgeProofs` (of `DataPlane` and `Election`), `IndexProofs` (and of `Ann`), `MembershipProofs`, `SettingsProofs` | the theorems |
| `MC...` | one per checked module: the instances TLC checks |

How they compose. `Replica` builds on `Merge` on `VersionVectors` and `Hlc`. `Replica` and
`LivePeers` both implement `Replication` (below): the first shows that what a store holds
after any crash still is a replica in that sense, the second that live sessions, catching
up and forwarding carry updates between such replicas without inventing or skipping one.
`Session` is what `LivePeers` assumes of one stream: that each end offers what the other's
Hello lacks, that a completed exchange has brought it, and that both then go live. `Replica`
needs of a session only which vector was said when, that pages come in path order, and that
it may end anywhere; `Session` needs of a replica only which contents it has. `Election`
produces the roles that `LivePeers` reads; `Serving` stands for one row of the routes that
`DataPlane` serves.

The modules `LivePeers`, `Serving`, `Election`, `Membership`, `Settings` and `Index` take a
constant `Setups`, a function from names to instances: who there is, what users do, which
faults happen and the bounds. The initial state picks one, and nothing ever changes it.
So one run covers several instances, each small enough to be checked completely, and a
liveness property is checked in each. `Replica` does the same with `Starts`. An instance
that is not in the run's `MCSetups` has a definition of its own in the MC module, and shows
a disagreement between the code and what it says of itself: see "Divergences".

### Replica

A call (`scan`, `apply`, `fetch_missing`) holds the replica's lock but not the file system,
so its steps are cut where it reads or changes the disk or the store, and users, crashes
and the peer's sessions run in between:

* `mem` is what the call sees: the pending states over the stored ones, and the metadata;
  `store` is what the last transaction wrote, hence what `Crash` (the process stops and
  `open`s again) finds. `CommitState`, `Flush` and `FlushVersions` are `commit_state`,
  `flush` and `flush_versions`, with `MAX_PENDING` as `MaxPending`.
* `StartScan`, `StartApply`, `StartFetch` collect the paths; `Take` picks the next, in path
  order; the `Reconcile...` actions are what `reconcile_path` decides about it: nothing to
  do, the file as recorded, the winner's bytes placed already, an edit, or no file. That last
  is two steps, as in the code: `ReconcileMissing` is the stat that finds nothing, and
  `ReconcilePaused` or `ReconcileDelete` the later look at the root, which may have come back
  in between (the constant `BackAnytime`). `CopySkip`, `CopyError`, `CopyLoser` are the turns of `ensure_conflict_copies`;
  `SettleSame`, `SettleSkip`, `SettleWrite` the outcomes of `settle`. `apply` then joins
  (`JoinUpdate`) and, once all updates are joined, settles the joined paths
  (`SettleJoined`). `Finish` flushes and lets the lock go.
* `Hello`, `Pages`, `Content`, `CommitSession`, `EndSession` are the points at which a
  session reads or changes a replica: each is one hold of the lock in `session.rs`.

Placing a file and recording that it was placed are one step. A crash between them is still
covered, because what is recorded is only pending: the file is there and the store does not
say so. `apply_updates` reads the clock once per call; the model lets it differ from path to
path, which allows more behaviours than the code has.

Content is identified with its hash, a path with a number, a conflict copy's path with the
number and the loser's dot. Left out: size limits, `.sapphireignore`, names an OS cannot
hold, case collisions, symbolic links, the mtime pre-filter (a file is always read).
Users delete conflict copies but do not edit them.

### Session

Each side has a read loop (`loop`), two unbounded queues and a writer (`urgent`, `bulk`,
`sending`), and a stream of `WireSize` frames to the other (`wire`), on which a full stream
makes the writer, never the reader, wait. `ReadHello` builds the pages, in the order of
`Outgoing`, each with the small contents that are looked up for it then and go out ahead of
it; `StartBlob` opens a content's file, or denies the content if there is none any more. The `Read...` actions are the arms of the exchange's loop and `Handled` its
tail, which says `Settled`. `Commit` is `materialise` and the commit; a side in `once` then
closes (`run_session`), the other goes live (`open_live_session`), where `ReadLive`,
`LiveWant`, `LiveLacked`, `LiveBlob` and `LiveEnd` are the arms of the live loop,
`HandledLive` announces, and `Drop` drops the `LiveSession`. `Cut` breaks the stream, with
what was received still readable or not; `Timeout` is either of the two timeouts or the one
of `close`. Frames that the code answers with a protocol error have no action: `PeersComply`
shows that two hosts running this code never send them.

### Replication

Per replica, path and author, the number of the author's last write that the replica has
merged (`Entry`'s `seen`), and the replica's version vector. A step of a replica may record
writes of its own under fresh numbers, merge writes that exist, and claim only what it has:
that is all a step may do. It has no sessions, no crashes and no files.

### LivePeers

`Edit` is a user's change and `Scan` its recording; `FanOut` is `fan_out`, which pushes to
every live session what the session's `peerVV` does not cover. `Choose`, `Dial` and
`DialNothing` are the parts of `dial_loop` and `sync_now` between which the table may
change; `Accept` or `Skip` the accepting end; `Offer` and `GoLive` the exchange at each end;
`Insert` and `CatchUp` are `insert` and `catch_up`; `Receive` and `Answered` the live reader,
`Forward` the task of `spawn_reader` that forwards. `Elect`, `Ask`, `CheckSkipped` and
`CloseSkipped` are the bridge's answer to `last_peers` and the closing of sessions that the
star does not need; `Cut` and `Notice` the end of a stream. `GoLive` applies all of the pages
at once where the code applies them one by one: what a host is seen to know then is a part
of what it is about to know, and its vector moves only at the commit. A path's
state is the vector of the versions joined, which by `SameSeenSameVersions` of `Replica`
determines it.

### Serving

`op` is the operation that holds `Current`'s switching lock and `keep` the task
`keep_connected`. `plan` is what is left of an operation, `proc` the call of the sync runtime
each is in. `select`, `init`, `map` and the task that restores the sync of the start read
something before they wait for the lock: `AskSelect` and `AskMap` put the request and what it
has read into `asked`, and `Select`, `Map` and `Restores` are its turn, with anything in
between (`overtaken`; where it is false, operations come one after the other). `Enable`, `Open`, `OpenStore`, `Read`, `DeviceId`, `Register` are the awaits of
`enable`; `Stop`, `Take`, `Disable`, `Release` those of `disable` and `release`; `Handle`
the bridge's handler, which may take calls of the two processes in either order. A replica
store is a database that can be opened once: `TaskStarts`, `TaskEnds`, `Closed` are the tasks
that keep it open and the moment it takes to close; `slow` says whether a task may outlast
`RELEASE_LIMIT`, a store the call that closed it, or even the retries of `enable`.

### Election, DataPlane, Membership

`Election`: `Round` is a round of `step` with `elect` inside, `Hear` the arrival of the Hello
the peer publishes now (one that is lost is one that is not heard yet), `LinkLost`,
`LinkBack`, `ServerOffline`, `Restart` and `Retire` the faults. Priority, tier and id are one
rank; three silent intervals and the end of a link are one step.

`DataPlane`: `Park`, `FindOwner`, `Announce`, `Hold`, `NobodyHome` are the steps of the
inbound loop between its locks, `Check`, `Publish`, `OwnerConnect`, `Drain`, `AnnounceHeld`
those of a `register` handler, `ConnectionGone` the end of `serve_connection`. An instance
has its peers, and its `faults` say what may come late or fail: the end of a connection may be
noticed after the server's next one has registered, a handler may outlive its connection.

`Membership`: `InviteRead` and `InviteSave` are the two halves of `Invites::create`; `Answer`
is the inviter's `answer_pairing` up to where it waits for the request, with its own record
read by then, `Take` and `Admit` what follows; `MakeDir`, `NameIt`, `WriteOwn` and
`Materialize` are the steps of the joiner's `materialize`, the two records one after the
other. `Crash` ends a bridge with whatever it has under way: its own joins, the pairings it
answers, an invite it is writing; `CreateDies` is a founding that stops at any of its steps.
`Session(a, b, w)` is a whole session of the workgroup's own workspace: the dialler is picked
by `Dials`, authorised by `Authorizes`, and of each record the later written wins.

### Settings, Index, Ann

`Settings`: five keys stand for the kinds there are, a live and a restart key of the
workspace's file (the live one overridable by the device), a restart key of the device's file, a live and a restart key
of the bridge's. An owner's `validate` sees the values of all its keys, as the edited files
and those on disk beside them give them: `Refused` is what it does not accept together.
`ConfigSet` is `config.set` or `config.unset`, and `Write` each step of it from the check at
the server over the bridge's check and write to the server's check, writes file by file, refresh
and listing of pending keys. `Change` is a session or an editor at the workspace's file, `Edit` a
user at the device's, `Select` a change of selection. `TaskRead` and `TaskSwap` are the two
halves of a `refresh` by another task, `ReloadRead` and `ReloadApply` of a reload of the
embedding provider, `LoadRead` and `LoadCapture` of the server's start, which a restart or
the death of the process at any step leads to.

`Index`: `Sweep...` are the steps of `sync_inner`, `Writer...` those of `on_file_updated` and
its siblings, `Pass...` those of `embed_pending`. `fts` is what tantivy has committed,
`buffered` what it will have after the next commit. `Ann` has the approximate index: `Commit`
and `Mark` are a change of a vector and its mark, `SearchBegin` may start a build, `Snapshot`
and `Finish` are its two ends.

## Runs

All runs set `CHECK_DEADLOCK FALSE`: users may stop editing, streams and operations end.

| run | instances | checks |
|---|---|---|
| `replica` | one file; `MCStarts`: 2 replicas with 3 edits; 2 edits and 1 crash; 1 edit, 1 crash and 1 lost session; 2 edits and a root that goes away while its replica is settled; 2 edits that travel through a third replica | joins agree (`SameSeenSameVersions`); no local write supersedes, and no call overwrites, bytes that were not kept (`LocalWriteSpares`, `OverwriteSpares`); no dot is known beyond what its author's store has (`NoDotEscapes`); a vector claims only what is merged (`VectorIsHonest`); what is recorded as a write was typed by a user (`WritesAreUsers`); `TypeOK` |
| `replica_converges` | `MCLosses`: a lost session, a crash, or a root that goes away and may be back at any step; fairness | `Converges`, if roots stay in the end; no file stays deleted that no user deleted (`AbsenceHeals`); `StoreSpreadsWrites` (below) |
| `session` | 2 and 1 pages, a small and a large content, an owed one, 1 and 2 batches, 1 file changed, 1 cut, timeout or drop; one-shot and live sides mixed | `PeersComply`, `CommitsWhatItHas`, `NobodyStranded`, `AnnouncedIsServed`, `BothCatchUp` |
| `live` | `Pair` (2 hosts edit, dial, are cut), `Dials` (both tasks dial one peer), `NewHub` (3 hosts hear of a new hub at different times), `Forwarded` (a star with edits everywhere) | every pair settles on one stream (`SettlesOnOneStream`); every edit arrives (`Delivered`); a session's peer vector covers nothing the peer lacks (`PeerVVIsHonest`); `SpreadsWrites` (below) |
| `serving` | `Moves` (3 folders, operations one after the other), `Overtaken` (3 folders, requests overtaken by other operations), `Switch` (2 folders, `map` and `remove`), `Toggle` (stores slow to close), `Reconnect` (the bridge comes late and goes away) | only the current workspace syncs (`OnlyTheCurrentSyncs`); what is remembered as synced syncs or waits (`SyncedOrWaiting`); nothing is moved with its store open, where operations come one after the other (`MovedStoreIsClosed`); a move keeps sync, once the start has restored it (`MoveKeepsSync`); the bridge's rows come to be the synced set (`RoutesFollow`) |
| `data_plane` | 2 peers and nothing late; 1 peer and ends that are noticed late; 1 peer and handlers that outlive connections too; in each 3 connections, 2 stops of the server, waking | streams are announced to no connection that is gone, where no handler outlives one (`EndedOwnerLeaves`); a peer that keeps dialling is served (`Served`), where something is late if the server is known as connected in the end |
| `election` | `pair` (2 faults), `trio` (three start at once, one with priority 0) | once faults stop all report the same roles and the named claim them (`Agreement`); a primary that is heard keeps its role whoever turns up (`RoleIsKept`) |
| `index` | `Application` (handlers, users, a switch of models), `Server` (sweeps and passes side by side), `Reset` (the store is wiped) | every vector is of what it stands for (`VectorsAreTrue`); a search finds what is on disk (`Searchable`); documents come to have vectors (`VectorsCatchUp`) |
| `ann` | 2 ids, 2 writers, 3 changes, 1 switch of models | a search uses only vectors that were current during it (`SearchesAreCurrent`) |
| `member` | `Grows` (3 hosts, 1 retired), `Joining` (a ticket expires, a name is mistyped), `Failing` (a lost answer, a failing write, or a bridge that stops at any step of a founding, an invitation or a join, and a changed priority) | ledgers stay readable (`LedgerReadable`); those of members whose join was carried through meet (`EveryoneLearns`); a retirement stays (`RetiredForGood`); a host that keeps trying gets in (`EveryHostJoins`, of `Joining`) |
| `settings` | `Writes` (2 clients, a restart or a death), `Restarts` (2 clients, 3 calls, a restart), `AtBridge` (the bridge's own writers, its end), `Moves` (edits, sessions and selections move files under a batch), `Events` (files are garbled and writes fail as well) | batches are whole (`BatchesAreWhole`: over both processes in `Writes`, over two files in `Restarts` and `Moves`); callers are told what was written (`AnswersAreTrue`; `Events` checks the part of it about successes and partial writes), and which keys wait for a restart (`PendingIsTold`: `Writes`, `Restarts`, `AtBridge`); the provider follows its settings (`ProviderFollows`) |
| `replica_vanishing_root` | 2 files, the root gone at any time | violated: see "Divergences" |

The modules define further properties that no run lists, to be added to a cfg when one works
on that part: the `TypeOK` of every module, `SettledAsksNothing` (`Session`), `NoCallFails`
(`Serving`), `StarNeedsClaim` (`Election`), `IndexIsCurrent` (`Ann`), `LiveKeysFollow` (`Settings`,
proved below), and those of the table
under "Divergences".

Why the bounds are enough. *Replica*: one path is the unit of merging, and a path interacts
with others only through the pending set, the pages and its conflict copies: with one file
in conflict there are two or three paths, more than one page (`PageSize` 1), and more
pending states than `MaxPending`. Three edits make a write that has seen one of two
concurrent ones; two contents make equal and different siblings. One replica calls and one
session pulls at a time (`MaxCalls`, `MaxSessions`): replicas share nothing but what sessions
carry, and each of these steps commutes with those of another replica's call; users' edits,
crashes and content are not restricted by it. With one clock value every pair of writes is
concurrent in time unless their clocks were exchanged, which is the case in which ties
decide. *Session*: `WireSize` 2 makes writers wait in the middle of a blob and lets the two
directions block each other. *LivePeers*: three hosts are the smallest star with two hosts
outside the hub; two streams of a pair make crossing dials and replacement, a third one a
change of hub; a queue of one batch makes readers lag. *Serving*: two workspaces make a
switch, a third one a move to a new place; five operations bring every operation after every
other. In no instance of the run does the reconnection act beside a switch of workspaces
(`Reconnect` has one workspace): that is where `MCLateEnable` goes wrong. *DataPlane*: where
ends are noticed late, three connections let an old and a new one overlap twice; where nothing
is late they follow each other, and two peers wait at once. *Election*: two hosts are the smallest that can disagree,
three the smallest with a primary, a secondary and an outsider. *Membership*: three hosts are an inviter, a joiner and
one that hears of it late. *Settings*: two values tell old from new; two clients overlap; three
calls in a row bring a write after a restart after a write.
*Index*: one path, and a second one for what is wiped together; two models. *Ann*: the
properties are of single ids, a second id makes the index stale by another's change.

### Fairness

* `Replica`: a call under way runs on (`WF`; it is a synchronous function), each root is
  scanned again and again (`SF`: the watcher, `server/src/sync/watch.rs`, reports every change
  of a file, those a call makes included, and the scan waits for a fair lock), each linked
  pair has sessions again and again (`SF`: `dial_loop` walks every `DIAL_INTERVAL`, 5 s, and
  `sync_now`), and content asked for again and again by a session from a peer that has it
  comes across (`SF`). Neither streams nor processes are assumed to hold.
* `Session`: both tasks of each side are scheduled and a host pushes what it committed.
  `BothCatchUp` is conditional on no failure.
* `LivePeers`: the tasks run on, the watcher's scan comes, roles settle; `Dial` is strongly
  fair because the dial loop walks for ever and a stream can be opened again and again.
  Nothing is assumed of streams that exist, and users need not edit.
* `Serving`: operations and calls go on, the bridge answers while it is there, a task that
  holds a replica ends and a store closes. `DataPlane`: the bridge's and the server's tasks
  run, peers dial again, tickets expire; parking is strongly fair, because the inbound loop
  takes the streams in turn. `Election`: a round per interval and a Hello on every link, as
  `hello.rs` sends them; broken links are dialled again.
* `Index`: a sweep or pass under way goes on, and both begin again and again, as every commit
  of a session and the watcher start them. `Membership`: ready tasks run and the driver
  sweeps; that users go on inviting and trying is assumed only in instances with `persistent`.
* `Settings` and `Ann` have safety properties only.

### Refinement

`Replication` is implemented twice, and TLC checks both as the property `Durable!Spec`:

* `StoreSpreadsWrites` (`Replica`): `know` is the `seen` of a store's states, `vv` the
  store's vector, over the paths in `NamedPaths` (any set of them; TLC takes those its
  instances come to). Calls and sessions change memory; only `flush`, `commit_session` and the
  like change the store, and `Crash` changes nothing of it. So whatever a crash cuts off,
  what the next start opens is a replica that never forgot and claims nothing it lacks.
  Proved as `StoresSpreadWrites`, below.
* `SpreadsWrites` (`LivePeers`): `know` and `vv` are the hosts' own. Exchanges, catching up,
  fan-out and forwarding in any order over streams that break are steps of `Replication`;
  `GoLive`, which claims the vector the peer said, is the step that could go wrong. Proved
  as `SessionsSpreadWrites`, below.

What `Replication` promises is proved (below), so it holds of both in every instance in
which they implement it.

## Divergences

In each row the code does what its comment or document excludes. `PROJECT.json` quotes the
text under `findings`. To see one, give the module's cfg the named instance in place of
`MCSetups` (`Setups <- ...`) and list the property alone.

| where | instance | property | what happens |
|---|---|---|---|
| replica | run `replica_vanishing_root` | `MissingRootDeletesNothing` | a root that goes away while files are being placed gets them in the bare mount point; once it is back they are recorded as deleted |
| replica | `replica_vanishing_root.cfg` with `Starts <- MCConflicts`, `Types <- MCStrayTypes`, `Strays <- MCStrays`, `Files = {1}`, `VanishAnytime = FALSE` | `OverwriteSpares` | the copy's name is taken by an unrelated file, and `settle` overwrites the loser's bytes |
| replica | `replica_vanishing_root.cfg` with `VanishAnytime = FALSE`, `BackAnytime = TRUE` | `MissingRootDeletesNothing` | a root that is back between the stat that misses a file and the look at the root has a delete recorded, which peers may carry out until the next scan records the file again |
| replica | `replica_vanishing_root.cfg` with `Starts <- MCCrashAway`, `VanishAnytime = FALSE` | `WritesAreUsers` | a file is placed, the root goes away, the process stops before the record is flushed: no recorded file is left to pause for, so the path is merged on without its file, and when the root is back the old bytes are recorded as a local edit |
| session | `session.cfg` | `EndedIsNoticed` | a live reader that returns early leaves `is_open` true for ever |
| session | `session.cfg` with `Delta <- MCTwice`, `Holds <- MCTwiceHolds`, `Owed <- MCNoneOwed`, `Batches <- MCNoBatches`, `Small = {small, big}`, `MaxFailures = 0`, and `MaxEdits` 1 or 2 | `SettledIsAnswered`, `NeverStranded` | a small content that two pages inline is lost and denied twice: the second denial passes for the answer to a Want, so a side settles before it is answered and the other may find it gone |
| live | `MCHubExchange` | `Delivered` | what a hub receives in an exchange is forwarded to nobody |
| live | `MCSamePath` | `Delivered` | an edit recorded by a live `apply` is pushed to nobody |
| live | `MCLag` | `Delivered` | a batch dropped from a full announcement queue is not forwarded later |
| live | `MCPeerVV` | `PeerVVIsHonest` | `seen` of one path is merged into the vector of the session |
| serving | `MCLateEnable` | `OnlyTheCurrentSyncs` | `attach` enables a root that a switch has just left |
| serving | `MCLostDevice`, `MCReleaseLimit`, `MCSlowClose` | `SyncedOrWaiting` | a workspace ends neither synced nor waiting: connection lost before the device id; `release` at its limit; a store still closing when it is enabled again |
| serving | `MCStaleRegister`, `MCOfflineDisable` | `RoutesFollow` | an older set arrives last; a root disabled without the bridge stays routed |
| serving | `MCMoveDisabled` | `MovedStoreIsClosed` | a store still held by a task is moved |
| serving | `MCMoveWaiting` | `MoveKeepsSync` | a waiting workspace is moved as not synced |
| serving | `MCStaleSelect` | `UnsyncedIsRemembered` | a select that looked for a sync id before `enable_sync` made one remembers a workspace that syncs as one that does not; it is not restored at the next start |
| serving | `MCRetries` | `NoCallFails` | a store that closes later than `enable` retries leaves the workspace without sync |
| serving | `MCMapRace` | `MapEnablesItsOwn` | `map` enables whatever is current by then |
| data plane | `Instances <- MCInTime`, `MaxConns = 1`, `MaxStops = 0` | `NothingHeld` | an announcement is held just after the registration that would deliver it |
| data plane | `Instances <- MCLateEnd`, `MaxConns = 2`, `MaxStops = 1` | `ConnectedIsOwner` | the late end of the old connection removes the new one's handle |
| data plane | `Instances <- MCLateHandler`, `MaxConns = 1`, `MaxStops = 1` | `OwnerIsConnected` | a handler that outlives its connection registers it |
| data plane | `Instances <- MCUnpublished`, `MaxConns = 1`, `MaxStops = 0`, `Registered = FALSE` | `RefusedLeavesNoRoute` | a refused registration leaves its routes |
| index | `MCCrash`, `MCRace` | `Searchable` | stamps outlive the buffered text; a sweep's older text wins over a handler's |
| index | `MCStaleVector` | `VectorsMatch` | the vector of an older text is stored for a newer one |
| index | `MCImage`, `MCSettings` | `FilesAreWhatTheySay` | a vector file is named by an older hash or profile than its vector |
| member | `MCRace` | `TicketsWork` | two savers of the invite file lose an invite |
| member | `MCNames` | `LedgerReadable` | two inviters admit one name, and no ledger opens any more (deep: `tlc -simulate` finds it sooner than the search) |
| member | `MCPriority`, `MCSeed`, `MCFounder` | `RetiredForGood` | an older record is written again with a newer time |
| member | `MCMutual` | `RetiredLearns` | two devices that retire each other never talk again |
| member | `MCReply` | `EveryHostJoins` | after a lost answer the joiner is refused for ever |
| member | `MCCrash` | `NoHalfWorkgroup`, `EveryOwnerLearns` | a crash leaves a directory that every later start trips over, or a member that knows nobody but itself and lets nobody in |
| member | `MCTwo` | `OneWorkgroup` | two joins at once enter two workgroups |
| settings | `MCRefresh`, `MCTwoFiles` | `LiveKeysAreCurrent` | of two refreshes the older reading is stored last; after an error at the second file the first is not read again |
| settings | `MCMixed` | `BothOrNeither` | a user's edit of another file makes the second check fail: the bridge's part is written, the server's is not |
| settings | `MCTwoFiles`, `MCKilled` | `TwoFilesOrNone` | an error at the second rename, or the end of the process before it, leaves the first |
| settings | `MCGarbled` | `RefusedWroteNothing` | a batch that was written is reported as refused |
| settings | `MCStart` | `StartIsWhatRuns` | a file edited between the reading of the values and that of the start state |

The passing runs leave out, by their instances or by a premise of the property, what these
rows need: outside of these cases the properties hold. So some of the hazards that
`PROJECT.json` lists are reached by the instance of a row only, and not by a run; its note
then says which. One more case is excluded without a row: a move that overtakes the task
which restores the sync of the start loses that sync, since `let_go` looks only at what syncs
already (`Restored` in `MoveKeepsSync`); it is `MCMoveWaiting` again, waiting for another reason.

## Proofs

Assumptions: the `ASSUME`s of the modules, i.e. replica ids and clocks are naturals, `None`
is neither a content nor a dot, a replica has no session with itself, `MaxPending` and
`PageSize` are positive, `Nobody` is no device's record, and the names of settings' files, of their
writers and of the mark of a garbled file differ. Nothing is assumed of how many replicas, files, contents, edits, crashes, drops,
sessions or calls there are. `Ids` of `Ann` is finite, as a table's rows are.

* `ReplicaProofs` starts with what needs no variables: `WinnerExists` (the order of `winner_key` is total on versions with
  distinct dots, so a nonempty finite set has a maximum: by the least cardinality of a set
  without one), `MergeVVIsJoin` (`merge` is the least upper bound), `TickIsLater`.
* `ReplicaProofs`, of the replica: `TypeCorrect == Spec => []TypeOK`. `TypeOK` is not inductive: that a
  recorded state has a version depends on updates on the way having one, on `Join` never
  returning an empty set, and on a call's path having a state when it is settled. `TypeInv`
  adds those: `DataInv` for the disk and the store, `CallInv` for what a call under way
  relies on, `SessInv` for sessions. One lemma per action, then `TypeInvariant` by `PTL`.
* Also in its first part `DotsDoNotEscape == Spec => []NoDotEscapes`. Counters are assigned in memory
  and lost in a crash; that nobody ever saw a lost one is a global argument. `DotInv` says:
  every vector anywhere (`DataDots` for views, `ToldDots` for sessions' `heard` vectors and
  pages) knows of replica x at most the counter in x's store; and a replica between calls
  has nothing pending (`IdleFlushed`), so the vector that `Hello` reads from memory and the
  states that `delta_for` reads from the store are within it. Stored counters only grow
  (`WriteBack`), so what was told stays bounded (`ToldKept`).
* `ReplicaProofs`, second part: what replicas hold of each other's writes. `HistInv`, together
  with the two invariants above, is inductive (`HistoryInvariant`) and gives three results.
  `SameSeenSameVersionsAlways` (convergence): of all states of a path there are, in memories,
  in stores and in pages on their way, one that has seen a write and does not hold it holds a
  write that supersedes it in every one of them (`Causal`), so two that have seen the same
  hold the same. `Join` and local writes keep this; that is a lemma about sets of states
  among those that the module begins with. `VectorsAreHonest` (no delta leaves out what is lacking): besides `Honest`
  itself it needs that an author's store has a write before anyone else does
  (`AuthorsFirst`), that a store is behind its memory and never beside it (`StoreBehind`),
  and of a session that everything the `heard` vector claims has come or is still on its way
  in path order (`Promise`, `InOrder`): then claiming `heard` at the commit is honest.
  `StoresSpreadWrites`: the stores refine `Replication`; every flush, commit and crash is a
  step of it or a stutter, for any `NamedPaths`.
* `ReplicaProofs`, third part: what is recorded was a user's. `WritesAreUsersAlways`
  rests on `FileInv`. The invariant says of each file that
  it is as its users may have left it, or as its record has it, or as the winner of its
  versions has it, and says so of memory and of the store alike (`Filed`): between placing a
  file and the flush of its record, `reconcile_path` finds the winner's bytes, in the call
  and after a crash, and does not take them for an edit. That needs the store to hold the
  versions that calls see unless joined ones are still unflushed (`StoreSays`, why
  `flush_versions` precedes `settle`), the files of reconciled paths to stay explained while
  the call goes on (`AtHand`), and a root that is away to have all settled and at least one
  file recorded (`Away`), so that `pause_reason` pauses. The hypothesis `RootsLeaveInPeace`
  says that roots do not go away while there are files to place, nor in a behaviour with
  crashes, and that none is back between a stat that misses a file and the look at the root.
  Each part is needed (the rows of the table of divergences on `MissingRootDeletesNothing`
  and `WritesAreUsers`). The instances of run `replica` satisfy it; those of
  `replica_converges` drop the third part, and there `AbsenceHeals` says what is left:
  the file is still there, so a later scan records it again over the delete.
* `LivePeersProofs`, first part, of `Replication`: `Promise`: in every behaviour of `Replication` nothing is known before
  its author wrote it (`NothingInvented`), no two writes share a dot (`DotsAreUnique`), and a
  vector that covers a write means that it, or a later one of its path, is merged
  (`ClaimsAreTrue`). The three and the types are inductive together: the lemmas
  state them of values (`Sound`, for knowledge and vectors), and that a step (`Moves`) keeps
  them (`MoveKeepsSound`); the refinement below uses them too. A claim is kept when its author writes again because the new number
  is beyond all that was claimed, which needs `NothingInvented`. `AgreementOnceCaughtUp`: two
  replicas whose vectors cover every write know the same versions of every path, which is what
  makes an empty delta mean that there is nothing left to send.
* `LivePeersProofs`, second part: `SessionsSpreadWrites == Spec => SpreadsWrites`, the refinement. What
  hosts know and claim is not enough to show it: what is on the way counts. `Inv` says that
  every batch in a queue or waiting for its content is no newer than its authors' knowledge
  (`TellsTrue`, `EndsHold`), so merging it is a `Learns`; that an end has said only what its
  host has; that the page it has offered holds whatever of that the peer lacks (`Brings`), so
  that `GoLive` may claim the vector said with it, however much was edited, merged or cut in
  between; and `Sound`. `MergeMoves` shows that such a merge is a step of `Replication`,
  `Scan` is one that writes, and every other action leaves knowledge and vectors alone.
* `ServingProofs`: which workspace a server serves and syncs while the bridge is
  there from the start and stays (`BridgeStays`), for any folders, operations and bounds.
  The hypotheses speak of the instance that the initial state picks. `OnlyTheCurrent ==
  BridgeStays /\ Spec => []OnlyTheCurrentSyncs` allows slow tasks and stores. `WhatIsRememberedSyncs`
  (`SyncedOrWaiting`) and `CallsSucceed` (`NoCallFails`) ask besides that tasks and stores end in
  time (`Slow = {}`), and so does `MovedWorkspaceSyncs` (`MoveKeepsSync`), which covers requests
  that were overtaken between what they read and their turn; `MovedIsClosed`
  (`MovedStoreIsClosed`, whose premise is that requests are not overtaken) asks besides that
  nothing is mapped and sync is not turned off. `MCLateEnable` in the
  table of divergences shows what happens without `BridgeStays`, `MCReleaseLimit`,
  `MCSlowClose` and `MCRetries` without `Slow = {}`, `MCMoveDisabled` with `disable_sync`. With `map`
  TLC finds the last violated as well: the workspace that a mapped one took the place of has a
  sync id and a task that may still hold its replica. `Moves` satisfies all of the
  hypotheses, `Overtaken`, `Switch` and `Toggle` some; `Reconnect` stays with TLC. What holds between operations is not
  inductive, for an operation lets go, moves, enables and notes in steps, with tasks taking
  hold of replicas in between. `Inv` says where each is going (`Heading`): a plan passes its
  stages in order; the workspace that will be current when it is done is the one its steps
  are about, and whatever else syncs has its end planned or under way (`Course`); what is
  going to be remembered as synced is going to sync, with no store in its way, which is what
  `reclaim` is for (`Smooth`); what is going to sync is going to be remembered (`Exact`); and
  a folder to be moved or deleted is let go of first (`Kept`).
* `BridgeProofs`, first part: `EndedOwnersLeave == Spec => []EndedOwnerLeaves`, of
  `DataPlane`, with no hypothesis but the property's own premise that no handler outlives its
  connection (`MCLateHandler` shows why). Ends may be noticed after newer connections have
  registered: what is announced to is always in the list of a connection whose end is still
  to be handled (`ListedInv`), since a registration is recorded as it is made and the end of
  any connection takes the owner away with it, too often (`MCLateEnd`) but never too seldom.
* `BridgeProofs`, second part, of `Election`, with no hypothesis. `PrimaryKeepsItsRole ==
  ElectionSpec => RoleIsKept`: whoever turns up with whatever rank, a primary that everybody
  hears keeps the role while there is no fault. What a third device claims may be out of date in what a host
  has heard, so not everybody needs to elect the holder; but some claimant is elected
  (`ClaimantIsElected`), and apart from the holder nobody is one. It needs that a best
  candidate exists at all (`BestIsOne`, from finiteness and unlike ranks, by the least
  cardinality of a set without one) and three facts of the state (`ElectionInv`): a device
  that claims a role also says that it hosts the workspace, one of priority 0 claims none, and
  one that has seen no claim reports no star. `StarFollowsClaim == ElectionSpec =>
  StarNeedsClaim`: no first star without a claim to be its hub, in what the host heard or in
  its own round. It has no run, for the theorem says it of every instance.

* `IndexProofs`, first part: `OneModelAlways == Spec => []VectorsOfOneModel`, without a hypothesis: all
  vectors that a search compares are of the model that the store is configured for, whatever
  the bridge switches to while a pass is embedding. `VectorsStayTrue` gives `VectorsAreTrue`, all
  of what run `index` checks, under `ImagesAside` (no file is an image, whose bytes are read
  again when it is embedded) and `NamesTell` (two models do not share a name). Each is needed:
  `MCImage` and `MCSettings` in the table of divergences. `Inv` says of the store and of the vector files what is
  to be shown, and of a pass what it carries from step to step: the texts it took up are in an
  application still those recorded (`Collected`; an application does one thing at a time,
  `OneThread`), and the answer in hand is of the installed model and of the text taken up
  (`Answered`), so that it may be put and filed. A server's passes and sweeps overlap, and
  there `VectorOfItsDocument` says nothing: `MCStaleVector` shows why.
* `IndexProofs`, second part: `SearchesStayCurrent == AnnSpec => []SearchesAreCurrent`, of `Ann`.
  `AnnInv` says of what the
  index holds of an id without a mark, and of what a build in flight holds of an id that will
  have no mark once it is installed (`IndexKnown`): it is the table's vector, or a change of it
  is committed and not yet marked, or everything is being dropped. `SearchKnown` adds that each
  was current at some time during the search under way. A build of an earlier generation is
  never installed, and of the current one there is at most one, so no other needs bounding.
* `MembershipProofs`: `LedgersStayReadable == OneInviter => (Spec => []LedgerReadable)`. While
  one device invites, a name is looked up in the one ledger that has them all: `NamesInv` says
  that an id and a name go together wherever they are known (`OneName`), that the inviter knows all
  that any other ledger does (`InviterKnows`), answers on their way included (`AnswersKnown`),
  and that what a ledger says is of a workgroup that the inviter serves or whose founder is
  alone (`Founded`). `RetirementIsForGood == Spec /\ InformedWrites => RetiredForGood`. A
  retirement stays because it is the newest record of its device anywhere
  (`RetiredIsNewest`): sessions move records but write none, so an older one never wins. Who
  writes a record anew, as of now, is a user who retires a device or sets its priority, an
  inviter who admits one and a joiner who writes down the answer; `InformedWrites` says that
  such a write of a device that some ledger has as retired says so itself. Hosts may join,
  crash, found and edit in any order besides. The rows on `RetiredForGood` in the table of
  divergences are the uninformed writes that the code allows, one by a priority (`MCPriority`) and two by a
  join whose answer has aged (`MCSeed`, `MCFounder`).
* `SettingsProofs`: `BatchesStayWhole`, `AnswersStayTrue` and `ProviderStaysCurrent`, the invariants that run
  `settings` checks, and `LiveKeysStayCurrent` (`LiveKeysFollow`), which no run lists, with no hypothesis beyond
  the premises that the properties have in them. `Inv` says of each call what it has written
  at its step and owes still (`Steps`), what its answer says of that (`Whole`), and that only
  the holder of `writing` is past the check of its part (`Locked`). Between the check and the
  second one at `apply` sessions, edits and selections may move any file an owner reads, and
  then the second check may fail: the batch ends as `partial`, and that is told
  (`AnswersStayTrue` needs no premise there). Where nobody but clients through the server
  moves the server's files, the lock keeps what has passed the check passing (`Checked`), for
  the check reads only the server's part of the disk and the bridge writes only its own; so
  both parts are written (`BothOrNeither`) as long as the bridge does not end. Of the
  provider `ProviderInv` says that a reloader has yet to read the settings, or the one that
  holds `embed.applied` has read what they are, or the provider is of them: each writer
  reloads after it has written, so the last reading is new enough. The table of divergences
  has an instance for what each premise excludes; `BothOrNeither` also fails in
  `MCMixed` with one fault and `io` or `bridge` as its only kind. `PendingIsTold`, an action property, is
  left to TLC.

* `SessionProofs`: `Complies == Spec => []PeersComply`, `Commits == Spec =>
  []CommitsWhatItHas`, `Serves == Spec => []AnnouncedIsServed`, and `TypeCorrect`, with no
  hypothesis. They follow from `Inv`, of both sides (`Of`). Its core is `Hears`: of each
  direction, whatever its reader has heard (`Heard`), the frames on the wire are legal one
  after the other from there on, and lead to a state from which the open blob is the one the
  writer is sending, and from which what is queued leads to where all is said: one Hello, the
  pages in order and then Done, one Settled, live batches only after it (`Stream`; `Legal`
  says what one frame does, `Run` what a sequence does, as a path of states, so that taking a
  frame off and putting one at the end need no induction). This is what a property of the
  next frame alone lacks: that the frames behind it will be legal when they come. A writer
  that has stopped owes nothing, unless nothing failed and its loop left in order (`Whole`).
  To it belong `Truthful` (a Settled under way means that its sender is settled, and so on)
  and `Alone` (without a failure a writer stops early only if nobody reads). For the commit,
  `Accounted`: every page heard is had, taken away, denied or still asked for, and so is what
  was owed, once Done is heard; `Complete` has nothing asked for and, by `Sane`, all pages.
  `Awaited` is the same of a live batch: what it needs and nobody has is outstanding.
  `Strands == Spec => []NobodyStranded` needs a second invariant, `IInv`, since a side may
  leave only if nothing is asked of it, and that is said by both directions together. `Asks`
  counts: for each content, the wants of p on their way and the answers of s to them, on the
  way or about to be written, are at most one, and none if p no longer lists it as wanted; so p,
  with nothing wanted, has asked for nothing that s has yet to read (`Quiet` keeps that after p
  has left). Small contents written ahead of a page would spoil the count, since they come unasked
  and p would take one for an answer to its want: `Arrives` says that p never wants one, as
  it is there, or on the wire before the page that names it (`Ahead`), and `Keeps` that s
  has it to send. Both are false once a small content is lost, and p is then
  really left (`NeverStranded` in the table of divergences); `Ends` says that there is no other way
  to stop early without a failure.

Only model-checked: liveness, which is beyond the prover; the other properties of `LivePeers`
but its refinement; `AbsenceHeals`; `Serving` while the bridge comes and goes; `PendingIsTold`; `Election`'s `Agreement`; every module's `TypeOK`
but those of `Replica` and `Session`. `LocalWriteSpares` and `OverwriteSpares` of `Replica` are bounded
checks by nature and are not expected of every instance: a user who overwrites by hand a foreign
version with the very bytes of the winner, just before that version is copied aside and the
replica crashes, would make `reconcile_path` take the file for placed. The runs bound the
edits below that. No module of a theorem declares a recursive operator.

## Not modelled

* The string rules of paths, filters and keys; hashing, framing and file formats; ranking and
  snippets of search results.
* In `Replica`, the mtime pre-filter and a user's save in the window between `occupied` and
  `place`; a crash, a missing root and a peer's delete in one behaviour.
* In `Settings`, the death of a server whose next start is refused because its files no longer
  pass the check (`startup_check`): the model's server starts only from files that do.
* Backoff and intervals: anything that is retried may be retried at once or late.
* IPC but for what `DataPlane` says of connections and handlers; relayed dials and the
  transport's own guarantees (a stream delivers in order until it ends).
* Command lines, GUI, MCP, services, updates and logging: input and output around the parts
  above, with no shared state of their own.

## Plan

Theorems next: `Serving` where the bridge comes and goes.

Models next: reconnection and replay of requests in `ipc`; the composition of `Election` and
`LivePeers`, so that roles change at any time.
