------------------------------ MODULE Serving -------------------------------
(***************************************************************************)
(* Which workspace a server serves and syncs (sapphire-framework-server:   *)
(* current.rs, selection.rs, host.rs), and how its sync runtime keeps to   *)
(* that while it loses and regains the bridge (sync/mod.rs: enable,        *)
(* disable, release, keep_connected, attach, reregister; bridge            *)
(* control.rs: register, unregister; routes.rs).                           *)
(*                                                                         *)
(* Two processes run: "op", the operation that holds Current's switching   *)
(* lock, and "keep", the keep_connected task, which attaches a connection  *)
(* and enables what waited for it without that lock.  A call to the bridge *)
(* is handled on a task of its own, so calls of the two are handled in any *)
(* order.                                                                  *)
(*                                                                         *)
(* A replica store is a redb database: it can be opened once, and is open  *)
(* while anybody holds the replica: the runtime's map, the operation that  *)
(* is stopping it, or a task (a scan, a session, the first dial).          *)
(*                                                                         *)
(* Left out: what the workspace's index, its watcher and its live sessions *)
(* do (modules LivePeers, Watch), paths that cannot be resolved, and a     *)
(* move that the file system refuses.                                      *)
(***************************************************************************)
EXTENDS Naturals, Sequences, FiniteSets

CONSTANTS
  Folders,      \* every folder there may be
  NoRoot,       \* no folder
  Setups        \* the instances a behaviour may be of: a function from their names

\* One instance: what there is when the server starts, what happens, and the bounds.
IsSetup(x) ==
  /\ x.roots \subseteq Folders
  /\ x.before \subseteq x.roots  \* the folders that have synced before
  /\ x.first \in x.before        \* the one selected and synced when the server starts
  /\ x.device \in BOOLEAN        \* whether the bridge has told this runtime its device id already
  /\ x.connected \in BOOLEAN     \* whether the bridge is there when the server starts
  \* The operations clients call.
  /\ x.operations \subseteq
       {"select", "enable_sync", "disable_sync", "relocate", "remove", "delete", "map"}
  /\ x.overtaken \in BOOLEAN  \* whether operations come between what a request reads and its turn
  \* What is slow: tasks end after RELEASE_LIMIT, stores close after their last holder went, or
  \* only after all the retries of who opens them.
  /\ x.slow \subseteq {"tasks", "close", "retries"}
  /\ x.ops \in Nat /\ x.conns \in Nat         \* bounds: operations, connections to the bridge

ASSUME ServingAssumption ==
  NoRoot \notin Folders /\ \A n \in DOMAIN Setups : IsSetup(Setups[n])

Processes == {"op", "keep"}

VARIABLES
  setup,      \* the instance this behaviour is of
  disk,       \* the folders that hold a workspace
  ids,        \* those that have a sync id
  root,       \* the workspace the host has
  saved,      \* workspace.toml: the root, and whether it syncs
  plan,       \* what is left to do of the operation that holds the switching lock
  proc,       \* per process: the call of the runtime it is in
  lock,       \* who holds the map of synced workspaces across an await
  pending,    \* the roots to enable once the bridge is back
  waiting,    \* those that attach took and has not enabled yet
  synced,     \* the synced roots
  stopped,    \* the roots that disable let go of
  held,       \* the roots whose replica a task holds
  closing,    \* the roots whose store its last holder is closing
  device,     \* whether the device id is known
  slot,       \* the connection the runtime uses, 0 for none
  open,       \* whether that connection is open
  conns,      \* how many connections there have been
  routes,     \* the roots the bridge's table has for this application
  ops,        \* how many operations there have been
  mapping,    \* the folder a map has selected and not enabled yet
  asked       \* the requests that wait for the switching lock, and what they read before

vars == <<setup, disk, ids, root, saved, plan, proc, lock, pending, waiting, synced, stopped, held,
          closing, device, slot, open, conns, routes, ops, mapping, asked>>
files == <<disk, ids>>
bridge == <<setup, slot, open, conns>>
requests == <<ops, mapping, asked>>
stores == <<stopped, held, closing>>

Roots == Setups[setup].roots
Slow == Setups[setup].slow
Orderly == ~Setups[setup].overtaken
-----------------------------------------------------------------------------
\* A process between calls: how its last call ended.
Idle(res) == [pc |-> "idle", call |-> "none", w |-> NoRoot, res |-> res,
              set |-> {}, conn |-> 0, handled |-> FALSE, retry |-> FALSE]
Call(name, w) == [Idle("ok") EXCEPT !.call = name, !.w = w,
                    !.pc = IF name = "enable" THEN "enable"
                           ELSE IF name = "reregister" THEN "read" ELSE "stop"]

Up == slot # 0 /\ open
Goto(p, pc) == proc' = [proc EXCEPT ![p].pc = pc]
Return(p, res) == proc' = [proc EXCEPT ![p] = Idle(res)]

\* A request on the current connection: the bridge handles it on a task of its own.
Send(p, pc, set) ==
  proc' = [proc EXCEPT ![p].pc = pc, ![p].set = set, ![p].conn = slot, ![p].handled = FALSE]
Cut(p) == ~Up \/ proc[p].conn # slot

\* The replica that stop took out of the map is held until disable or release returns.
Stopping(w) == \E p \in Processes : /\ proc[p].w = w /\ proc[p].call \in {"disable", "release"}
                                    /\ proc[p].pc \notin {"stop", "take"}
StoreOpen(w) == w \in synced \cup held \cup closing \/ Stopping(w)

Task(name, w, sync) == [task |-> name, w |-> w, sync |-> sync]
Request(name, w, sync) == [op |-> name, w |-> w, sync |-> sync]

Init ==
  /\ setup \in DOMAIN Setups
  /\ disk = Setups[setup].before /\ ids = disk /\ root = Setups[setup].first
  /\ saved = [root |-> root, sync |-> TRUE]
  /\ plan = <<>> /\ asked = {Request("restore", root, TRUE)}      \* Current::restore's task
  /\ proc = [p \in Processes |-> Idle("ok")]
  /\ lock = "none" /\ pending = {} /\ waiting = {} /\ synced = {} /\ stopped = {}
  /\ held = {} /\ closing = {} /\ device = Setups[setup].device
  /\ open = Setups[setup].connected /\ slot = (IF open THEN 1 ELSE 0) /\ conns = slot
  /\ routes = {} /\ ops = 0 /\ mapping = NoRoot
-----------------------------------------------------------------------------
\* The operations of Current.  Each takes the switching lock and sets out its plan; select, map
\* and the task that restores the sync of the start have read before what they ask it for.

May(name) == /\ name \in Setups[setup].operations /\ ops < Setups[setup].ops
             /\ Orderly => asked = {} /\ plan = <<>> /\ proc["op"].pc = "idle"
Free == plan = <<>> /\ proc["op"].pc = "idle"

Start(name, steps) ==
  /\ May(name) /\ Free
  /\ plan' = steps /\ ops' = ops + 1
  /\ UNCHANGED <<root, saved, proc, lock, pending, waiting, synced, stores, device, bridge,
                 routes, mapping, asked>>

\* A request is made while nothing is being moved to its folder: relocate does not wait for what
\* another operation has put there, it fails.
Ask(name, w, sync) ==
  /\ May(name) /\ \A i \in DOMAIN plan : plan[i].task # "rename" \/ plan[i].w # w
  /\ asked' = asked \cup {Request(name, w, sync)} /\ ops' = ops + 1 /\ disk' = disk \cup {w}
  /\ UNCHANGED <<root, saved, plan, proc, lock, pending, waiting, synced, stores, device, bridge,
                 routes, mapping>>

\* What follows when request q has its turn.
Turn(q, steps) ==
  /\ Free /\ q \in asked /\ asked' = asked \ {q} /\ plan' = steps
  /\ UNCHANGED <<files, root, saved, proc, lock, pending, waiting, synced, stores, device, bridge,
                 routes, ops>>

\* A mutant of StopPrevious: the workspace that was current goes on syncing.
StopNothing(w) == <<>>

\* switch: the workspace that was current stops syncing.
StopPrevious(w) == IF root \in Roots \ {w} THEN <<Task("disable", root, FALSE)>> ELSE <<>>

\* select, init: the folder is made if need be, and whether it has synced before is read.
AskSelect(w) == Ask("select", w, w \in ids) /\ UNCHANGED ids

\* switch: a workspace that does not open leaves the previous one current; else it syncs if it
\* had synced before.
Select(q) ==
  /\ q.op = "select" /\ UNCHANGED mapping
  /\ Turn(q, IF q.w \notin disk THEN <<>>
             ELSE <<Task("host", q.w, q.sync)>> \o StopPrevious(q.w)
                  \o (IF q.sync THEN <<Task("enable", q.w, TRUE)>> ELSE <<>>)
                  \o <<Task("remember", q.w, q.sync)>>)

\* restore's task: a switch that landed first wins.
Restores(q) ==
  /\ q.op = "restore" /\ UNCHANGED mapping
  /\ Turn(q, IF root = q.w THEN <<Task("enable", q.w, TRUE)>> ELSE <<>>)

EnableSync ==
  /\ root # NoRoot /\ UNCHANGED files
  /\ Start("enable_sync", <<Task("enable", root, TRUE), Task("enabled", root, TRUE)>>)

\* map: place gives the folder the identity that the workgroup has for it, the folder is
\* selected without sync, and enable_sync takes the switching lock anew.  One map at a time.
AskMap(w) ==
  /\ Up /\ mapping = NoRoot /\ \A q \in asked : q.op # "map"
  /\ Ask("map", w, FALSE) /\ ids' = ids \cup {w}

Map(q) ==
  /\ q.op = "map" /\ mapping' = IF q.w \in disk THEN q.w ELSE mapping
  /\ Turn(q, IF q.w \notin disk THEN <<>>
             ELSE <<Task("host", q.w, FALSE)>> \o StopPrevious(q.w)
                  \o <<Task("remember", q.w, FALSE)>>)

MapEnables ==
  /\ mapping # NoRoot /\ root # NoRoot /\ Free /\ (Orderly => asked = {})
  /\ plan' = <<Task("enable", root, TRUE), Task("enabled", root, TRUE)>>
  /\ mapping' = NoRoot
  /\ UNCHANGED <<files, root, saved, proc, lock, pending, waiting, synced, stores, device, bridge,
                 routes, ops, asked>>

DisableSync ==
  /\ root # NoRoot /\ UNCHANGED files
  /\ Start("disable_sync", <<Task("disable", root, FALSE), Task("disabled", root, FALSE)>>)

\* A mutant of WasSynced: asked after the store was let go of.
WasSyncedAfter(w) == FALSE

\* let_go's answer: the map has the root.
WasSynced(w) == w \in synced

\* A mutant of LetGo: sync stops, and nobody waits for the store.
LetGoAtOnce(w) == IF w \in synced THEN <<Task("disable", w, FALSE)>> ELSE <<>>

\* let_go: stop syncing and wait until the store is closed; at the limit, sync again.
LetGo(w) == IF w \in synced THEN <<Task("release", w, FALSE), Task("released", w, TRUE)>> ELSE <<>>

\* relocate, to a folder that does not exist yet.
Relocate(to) ==
  LET sync == WasSynced(root) IN
  /\ root # NoRoot /\ to \notin disk /\ lock = "none" /\ UNCHANGED files
  /\ Start("relocate", LetGo(root) \o <<Task("rename", to, sync)>>
                       \o (IF sync THEN <<Task("enable", to, TRUE)>> ELSE <<>>)
                       \o <<Task("remember", to, sync)>>)

Remove ==
  /\ root # NoRoot /\ UNCHANGED files
  /\ Start("remove", <<Task("disable", root, FALSE), Task("forget", root, FALSE)>>)

Delete ==
  /\ root # NoRoot /\ lock = "none" /\ UNCHANGED files
  /\ Start("delete", LetGo(root) \o <<Task("forget", root, FALSE), Task("delete", root, FALSE)>>)
-----------------------------------------------------------------------------
\* The steps of a plan.

Now == Head(plan)
Do(names) == /\ plan # <<>> /\ Now.task \in names /\ proc["op"].pc = "idle"
             /\ UNCHANGED <<lock, pending, waiting, synced, stores, device, bridge, routes, requests>>

CallRuntime ==
  /\ Do({"enable", "disable", "release"})
  /\ plan' = Tail(plan) /\ proc' = [proc EXCEPT !["op"] = Call(Now.task, Now.w)]
  /\ UNCHANGED <<files, root, saved>>

Released ==
  /\ Do({"released"})
  /\ plan' = IF proc["op"].res = "ok" THEN Tail(plan) ELSE <<Task("enable", Now.w, TRUE)>>
  /\ UNCHANGED <<files, root, saved, proc>>

HostSelect ==
  /\ Do({"host"})
  /\ plan' = Tail(plan) /\ root' = Now.w
  /\ UNCHANGED <<files, saved, proc>>

\* remember; enable_sync and disable_sync return early when their call failed, but for the
\* failure that leaves the workspace to the reconnection.
Remember ==
  /\ Do({"remember", "enabled", "disabled"})
  /\ plan' = Tail(plan)
  /\ saved' = IF \/ Now.task = "remember" \/ proc["op"].res = "ok"
                 \/ Now.task = "enabled" /\ proc["op"].res = "disconnected"
              THEN [root |-> Now.w, sync |-> Now.sync] ELSE saved
  /\ UNCHANGED <<files, root, proc>>

Forget ==
  /\ Do({"forget"})
  /\ plan' = Tail(plan) /\ root' = NoRoot /\ saved' = [root |-> NoRoot, sync |-> FALSE]
  /\ UNCHANGED <<files, proc>>

\* The folder is renamed, its sync id with it, and opened again where it is now.
Rename ==
  /\ Do({"rename"})
  /\ plan' = Tail(plan) /\ root' = Now.w
  /\ disk' = (disk \ {root}) \cup {Now.w}
  /\ ids' = (ids \ {root}) \cup (IF root \in ids THEN {Now.w} ELSE {})
  /\ UNCHANGED <<saved, proc>>

DeleteFolder ==
  /\ Do({"delete"})
  /\ plan' = Tail(plan) /\ disk' = disk \ {Now.w} /\ ids' = ids \ {Now.w}
  /\ UNCHANGED <<root, saved, proc>>
-----------------------------------------------------------------------------
\* SyncRuntime::enable.

\* A mutant of KeepForLater: the workspace is not kept for the reconnection.
KeepNothing(w) == pending

\* The workspaces that wait for the bridge, once enable has found it away.
KeepForLater(w) == pending \cup {w}

Enable(p) ==
  LET w == proc[p].w IN
  /\ proc[p].pc = "enable"
  /\ \/ /\ w \notin disk /\ Return(p, "failed") /\ UNCHANGED <<ids, pending>>
     \/ /\ w \in disk /\ ids' = ids \cup {w}
        /\ IF Up THEN Goto(p, "open") /\ pending' = pending \ {w}
                 ELSE Return(p, "disconnected") /\ pending' = KeepForLater(w)
  /\ UNCHANGED <<disk, root, saved, plan, lock, waiting, synced, stores, device, bridge, routes, requests>>

\* reclaim: what disable let go of is taken back while something else holds it.
Reclaim(w) == w \in stopped /\ (w \in held \/ Stopping(w))

\* The map is locked until the replica is in it.  The device id is the answer to a
\* registration of nothing, asked for once.
Open(p) ==
  LET w == proc[p].w IN
  /\ proc[p].pc = "open" /\ lock = "none"
  /\ \/ /\ w \in synced /\ Return(p, "ok") /\ UNCHANGED <<synced, stopped, lock>>
     \/ /\ w \notin synced /\ Reclaim(w)
        /\ synced' = synced \cup {w} /\ stopped' = stopped \ {w}
        /\ Goto(p, "read") /\ UNCHANGED lock
     \/ /\ w \notin synced /\ ~Reclaim(w) /\ stopped' = stopped \ {w} /\ UNCHANGED synced
        /\ \/ /\ device /\ lock' = p
              /\ proc' = [proc EXCEPT ![p].pc = "store", ![p].retry = w \in stopped]
           \/ /\ ~device /\ Up /\ lock' = p
              /\ proc' = [proc EXCEPT ![p].pc = "device", ![p].set = {}, ![p].conn = slot,
                                      ![p].handled = FALSE, ![p].retry = w \in stopped]
           \/ /\ ~device /\ ~Up /\ Return(p, "disconnected") /\ UNCHANGED lock
  /\ UNCHANGED <<files, root, saved, plan, pending, waiting, held, closing, device, bridge, routes, requests>>

DeviceId(p) ==
  /\ proc[p].pc = "device"
  /\ \/ proc[p].handled /\ device' = TRUE /\ Goto(p, "store") /\ UNCHANGED lock
     \/ Cut(p) /\ Return(p, "failed") /\ lock' = "none" /\ UNCHANGED device
  /\ UNCHANGED <<files, root, saved, plan, pending, waiting, synced, stores, bridge, routes, requests>>

\* Who has the map locked once the replica is open.
AfterOpen(p) == "none"

\* Replica::open: a store that is open is refused, by one that disable let go of only once the
\* retries are over (CLOSING_RETRIES).
OpenStore(p) ==
  LET w == proc[p].w IN
  /\ proc[p].pc = "store"
  /\ \/ ~StoreOpen(w) /\ synced' = synced \cup {w} /\ Goto(p, "read")
     \/ /\ StoreOpen(w) /\ (proc[p].retry /\ "retries" \notin Slow => w \notin closing)
        /\ Return(p, "failed") /\ UNCHANGED synced
  /\ lock' = AfterOpen(p)
  /\ UNCHANGED <<files, root, saved, plan, pending, waiting, stores, device, bridge, routes, requests>>

\* A mutant of CompleteSet: the set from before the workspace is in the map.
SetBeforeInsert(p) == synced \ {proc[p].w}

\* What reregister tells the bridge.
CompleteSet(p) == synced

\* reregister: read the set, then send it on the connection there is by then.
Read(p) ==
  /\ proc[p].pc = "read" /\ lock = "none"
  /\ proc' = [proc EXCEPT ![p].pc = "send", ![p].set = CompleteSet(p)]
  /\ UNCHANGED <<files, root, saved, plan, lock, pending, waiting, synced, stores, device, bridge,
                 routes, requests>>

\* What follows the last request of a call.
After(p, res) ==
  IF proc[p].call \in {"disable", "release"}
  THEN proc' = [proc EXCEPT ![p].pc = proc[p].call, ![p].res = res]
  ELSE Return(p, res)

Register(p) ==
  /\ proc[p].pc = "send"
  /\ IF Up THEN Send(p, "await", proc[p].set) ELSE After(p, "disconnected")
  /\ UNCHANGED <<files, root, saved, plan, lock, pending, waiting, synced, stores, device, bridge,
                 routes, requests>>

Answered(p) ==
  /\ \/ /\ proc[p].pc = "await"
        /\ \/ proc[p].handled /\ After(p, "ok")
           \/ Cut(p) /\ After(p, "failed")
     \/ /\ proc[p].pc = "unregister"
        /\ \/ proc[p].handled /\ Goto(p, "read")
           \/ Cut(p) /\ After(p, "failed")
  /\ UNCHANGED <<files, root, saved, plan, lock, pending, waiting, synced, stores, device, bridge,
                 routes, requests>>
-----------------------------------------------------------------------------
\* SyncRuntime::stop, disable and release.

Stop(p) ==
  /\ proc[p].pc = "stop"
  /\ pending' = pending \ {proc[p].w} /\ Goto(p, "take")
  /\ UNCHANGED <<files, root, saved, plan, lock, waiting, synced, stores, device, bridge, routes, requests>>

Take(p) ==
  LET w == proc[p].w IN
  /\ proc[p].pc = "take" /\ lock = "none"
  /\ synced' = synced \ {w}
  /\ \/ w \notin synced /\ Return(p, "ok")
     \/ w \in synced /\ Up /\ Send(p, "unregister", {w})
     \/ w \in synced /\ ~Up /\ After(p, "ok")
  /\ UNCHANGED <<files, root, saved, plan, lock, pending, waiting, stores, device, bridge, routes, requests>>

\* The store closes with its last holder, at once or slowly.
Closes(w) == IF Slow \cap {"close", "retries"} # {} THEN closing \cup {w} ELSE closing

Disable(p) ==
  LET w == proc[p].w IN
  /\ proc[p].pc = "disable"
  /\ stopped' = {r \in stopped : r \in held \/ Stopping(r)} \cup {w}
  /\ closing' = IF w \in held THEN closing ELSE Closes(w)
  /\ Return(p, proc[p].res)
  /\ UNCHANGED <<files, root, saved, plan, lock, pending, waiting, synced, held, device, bridge,
                 routes, requests>>

Release(p) ==
  LET w == proc[p].w IN
  /\ proc[p].pc = "release"
  /\ \/ w \notin held /\ Return(p, "ok")
     \/ w \in held /\ "tasks" \in Slow /\ Return(p, "failed")       \* RELEASE_LIMIT
  /\ UNCHANGED <<files, root, saved, plan, lock, pending, waiting, synced, stores, device, bridge,
                 routes, requests>>

\* A scan, a session or the first dial takes hold of a synced workspace's replica.
TaskStarts(w) ==
  /\ w \in synced \ held /\ lock = "none" /\ held' = held \cup {w}
  /\ UNCHANGED <<files, root, saved, plan, proc, lock, pending, waiting, synced, stopped, closing,
                 device, bridge, routes, requests>>

TaskEnds(w) ==
  /\ w \in held /\ held' = held \ {w}
  /\ closing' = IF w \in synced \/ Stopping(w) THEN closing ELSE Closes(w)
  /\ UNCHANGED <<files, root, saved, plan, proc, lock, pending, waiting, synced, stopped,
                 device, bridge, routes, requests>>

Closed(w) ==
  /\ w \in closing /\ closing' = closing \ {w}
  /\ UNCHANGED <<files, root, saved, plan, proc, lock, pending, waiting, synced, stopped, held,
                 device, bridge, routes, requests>>
-----------------------------------------------------------------------------
\* keep_connected, attach, and the bridge.

\* The bridge's register replaces the application's rows, its unregister removes one.
Handle(p) ==
  /\ proc[p].pc \in {"await", "device", "unregister"} /\ ~proc[p].handled /\ ~Cut(p)
  /\ routes' = IF proc[p].pc = "unregister" THEN routes \ proc[p].set ELSE proc[p].set
  /\ proc' = [proc EXCEPT ![p].handled = TRUE]
  /\ UNCHANGED <<files, root, saved, plan, lock, pending, waiting, synced, stores, device, bridge, requests>>

\* The bridge stops, or the connection to it breaks.
Lose ==
  /\ Up /\ conns < Setups[setup].conns /\ open' = FALSE
  /\ UNCHANGED <<files, root, saved, plan, proc, lock, pending, waiting, synced, stores, device, setup,
                 slot, conns, routes, requests>>

KeepIdle == proc["keep"].pc = "idle" /\ waiting = {}

\* attach: the slot is swapped and the waiting roots are taken under the pending lock.
Attach ==
  /\ KeepIdle /\ ~Up /\ conns < Setups[setup].conns /\ lock = "none"
  /\ slot' = conns + 1 /\ conns' = conns + 1 /\ open' = TRUE
  /\ waiting' = pending /\ pending' = {}
  /\ proc' = IF synced = {} THEN proc
             ELSE [proc EXCEPT !["keep"] = Call("reregister", NoRoot)]
  /\ UNCHANGED <<setup, files, root, saved, plan, lock, synced, stores, device, routes, requests>>

EnableWaiting ==
  /\ proc["keep"].pc = "idle"
  /\ \E w \in waiting :
       /\ waiting' = waiting \ {w}
       /\ proc' = [proc EXCEPT !["keep"] = Call("enable", w)]
  /\ UNCHANGED <<files, root, saved, plan, lock, pending, synced, stores, device, bridge, routes, requests>>

TakeTurn == \E q \in asked : Restores(q) \/ Select(q) \/ Map(q)
Operation == \/ \E w \in Roots : AskSelect(w) \/ AskMap(w) \/ Relocate(w)
             \/ TakeTurn \/ MapEnables \/ EnableSync \/ DisableSync \/ Remove \/ Delete
PlanStep == CallRuntime \/ Released \/ HostSelect \/ Remember \/ Forget \/ Rename \/ DeleteFolder
RuntimeStep(p) == \/ Enable(p) \/ Open(p) \/ DeviceId(p) \/ OpenStore(p) \/ Read(p) \/ Register(p)
                  \/ Answered(p) \/ Stop(p) \/ Take(p) \/ Disable(p) \/ Release(p) \/ Handle(p)

Next ==
  \/ Operation \/ PlanStep \/ Lose \/ Attach \/ EnableWaiting
  \/ \E p \in Processes : RuntimeStep(p)
  \/ \E w \in Roots : TaskStarts(w) \/ TaskEnds(w) \/ Closed(w)

Spec == Init /\ [][Next]_vars

\* The tasks run: a plan and its calls go on, the bridge answers, a task ends, a store closes,
\* and keep_connected tries again.
FairSpec ==
  /\ Spec /\ WF_vars(PlanStep) /\ WF_vars(TakeTurn) /\ WF_vars(MapEnables) /\ WF_vars(Attach) /\ WF_vars(EnableWaiting)
  /\ \A p \in Processes : WF_vars(RuntimeStep(p))
  /\ \A w \in Folders : WF_vars(TaskEnds(w)) /\ WF_vars(Closed(w))
-----------------------------------------------------------------------------
TypeOK ==
  /\ disk \subseteq Roots /\ ids \subseteq disk
  /\ root \in Roots \cup {NoRoot} /\ saved.root \in Roots \cup {NoRoot}
  /\ pending \subseteq Roots /\ synced \subseteq Roots /\ routes \subseteq Roots
  /\ waiting \subseteq Roots /\ held \subseteq Roots /\ stopped \subseteq Roots
  /\ lock \in Processes \cup {"none"} /\ (lock = "none" \/ proc[lock].pc \in {"device", "store"})

\* status: a root that waits for the bridge is reported as enabled too.
Enabled(w) == w \in synced \cup pending

\* Nobody is in the middle of anything.
Quiet == plan = <<>> /\ asked = {} /\ waiting = {} /\ \A p \in Processes : proc[p].pc = "idle"

\* Selecting another workspace ends the sync of the one that was current (switch): whatever was
\* asked for while operations were under way, only the current one syncs, or waits to.  Where the
\* reconnection acts beside a switch, it can bring the previous one back.
OnlyTheCurrentSyncs == Quiet => synced \cup pending \subseteq {root}

\* A workspace that is remembered as synced does sync, or waits for the bridge: no order of
\* switching, moving, losing the bridge and regaining it leaves it neither way (enable).
SyncedOrWaiting == Quiet /\ saved.sync => Enabled(saved.root)

\* Where the bridge is there from the start and stays, no call fails: turning sync off and on
\* again in particular, however long a task keeps the replica, where the store closes before the
\* retries of who opens it are over (disable, reclaim, enable).
BridgeStays == Setups[setup].connected /\ Setups[setup].conns = 1

NoCallFails == BridgeStays => proc["op"].res = "ok"

\* map turns on the sync of the workspace it placed, whatever is selected in between.
MapEnablesItsOwn == [][mapping # NoRoot /\ mapping' = NoRoot => root = mapping]_vars

\* A folder moves or goes only when nothing has its replica store open (let_go, release), where
\* no operation overtakes a request that has read whether its folder syncs.
MovedStoreIsClosed == [][Orderly => \A w \in disk \ disk' : ~StoreOpen(w)]_vars

\* The sync of the start is restored.
Restored == \A q \in asked : q.op # "restore"

\* A workspace that moves goes on syncing from its new folder (relocate): what is remembered in
\* place of a folder that is gone keeps its sync, whatever its selection had been overtaken by.
MoveKeepsSync ==
  [][Restored /\ saved.root \in Roots \ disk /\ saved.sync =>
       saved'.sync \/ saved'.root = saved.root]_vars

\* What is remembered as not synced does not sync.
UnsyncedIsRemembered == Quiet /\ saved.root = root /\ ~saved.sync => root \notin synced

\* While it is connected the bridge comes to have exactly the synced workspaces as the
\* application's rows, in whatever order its calls are handled (reregister).
RoutesFollow == <>[](Up => routes = synced)
=============================================================================
