------------------------------ MODULE Settings ------------------------------
(***************************************************************************)
(* Settings, as an app server and the bridge read and write them           *)
(* (sapphire-framework-settings: store.rs, read.rs; sapphire-framework-    *)
(* server: settings.rs, config_methods.rs, current.rs, command/config.rs;  *)
(* sapphire-framework-bridge: control.rs, embed.rs, embed_settings.rs).    *)
(*                                                                         *)
(* The server's settings are in a device file and in the file of the       *)
(* selected workspace, the bridge's in a file of its own.  A batch of       *)
(* config.set goes to the server, which checks its part, has the bridge    *)
(* check and write its part, and writes its own.  Sync sessions, users'    *)
(* edits and a change of selection move the workspace's settings as well,  *)
(* and after each of them a task of the server reads the files again.      *)
(*                                                                         *)
(* Five keys stand for the kinds there are: "live" (the workspace's,       *)
(* overridable by the device, applies live), "later" (the workspace's,     *)
(* applies on a restart), "restart" (the device's, applies on a restart),  *)
(* and the bridge's "embed" (live) and "net" (restart).  The server's are  *)
(* the application's, which checks its files together.  The runtime is     *)
(* multi-threaded, so a function without an await is interleaved with the  *)
(* others at its reads and writes of files.                                *)
(***************************************************************************)
EXTENDS Naturals, FiniteSets

CONSTANTS
  AllClients,  \* callers of config.set and config.unset on the server
  AllWorkspaces, Vals,
  Refused,     \* what an owner's validate refuses: values of its keys that may not be together, as functions
  Unset, Bad,  \* a key no file has; a file that does not parse
  Nobody,      \* no holder of a lock; no selected workspace
  Setups       \* the instances a behaviour may be of: a function from their names

Mine == {"live", "later", "restart"}
Theirs == {"embed", "net"}
Keys == Mine \cup Theirs
LiveKeys == {"live", "embed"}

Value == Vals \cup {Unset}
Content == [Keys -> Value] \cup {Bad}
Empty == [k \in Keys |-> Unset]

\* One instance.
IsSetup(x) ==
  /\ x.clients \subseteq AllClients /\ x.workspaces \subseteq AllWorkspaces
  \* The batches clients send, each a function from keys to values or Unset, and the scopes
  \* they name: "home" if none.
  /\ x.batches \subseteq UNION {[D -> Value] : D \in (SUBSET Keys) \ {{}}}
  /\ x.scopes \subseteq {"home", "device"}
  \* The server's tasks that read the files again, and who else writes or reloads at the bridge.
  /\ x.refreshers \subseteq {"watch", "reindex", "current"}
  /\ x.tasks \subseteq {"cli", "embed", "tick"}
  /\ x.kinds \subseteq {"io", "bridge", "remove", "garbled", "restart", "kill", "offline", "edit"}  \* faults and events
  /\ {x.calls, x.events, x.faults} \subseteq Nat  \* bounds

ASSUME SettingsAssumption ==
  /\ {"device", "bridge", Nobody} \cap AllWorkspaces = {} /\ Nobody \notin {"device", "bridge"}
  /\ {"cli", "embed", "tick", Nobody} \cap AllClients = {}
  /\ Bad \notin [Keys -> Value]
  /\ \A n \in DOMAIN Setups : IsSetup(Setups[n])

VARIABLES
  setup,     \* the instance this behaviour is of
  disk,      \* the content of every file
  selected,  \* the selected workspace, or Nobody
  loading,   \* what the starting server has read, as a set; {} once it serves
  values,    \* Inner.values: the effective values the server answers with
  start,     \* StartState
  writing,   \* the holder of Config.writing
  call,      \* per client: its config.set in progress
  task,      \* per refresher: {} or the files it has read, as a set
  due,       \* the refreshers that a change has woken
  up,        \* whether the bridge runs
  bstart,    \* the bridge's StartState
  provider,  \* what the bridge's embedding provider was built from
  wlock,     \* the holder of settings_write
  alock,     \* the holder of embed.applied and what it has read, as a set
  btask,     \* per other task of the bridge: "idle", "reload"
  calls, events, faults

server == <<loading, values, start>>
bridge == <<up, bstart, provider, wlock, alock, btask>>
bounds == <<calls, events, faults>>
vars == <<setup, disk, selected, server, writing, call, task, due, bridge, bounds>>

My == Setups[setup]
Clients == My.clients
Workspaces == My.workspaces
Refreshers == My.refreshers
BridgeTasks == My.tasks
Files == Workspaces \cup {"device", "bridge"}

Idle == [pc |-> "idle", batch |-> Empty, scope |-> "home", staged |-> [f \in {} |-> Empty], wrote |-> {},
         read |-> {}, answer |-> "none", pending |-> {}]
-----------------------------------------------------------------------------
(* The store: scopes, layers, and the checks of a batch *)

\* resolve: the device's value of an overridable key, then the home scope's, then the default.
Effective(d, s, k) ==
  CASE k = "live" /\ d["device"][k] # Unset -> d["device"][k]
    [] k = "live" /\ d["device"][k] = Unset -> IF s = Nobody THEN Unset ELSE d[s][k]
    [] k = "later" -> IF s = Nobody THEN Unset ELSE d[s][k]
    [] k = "restart" -> d["device"][k]
    [] k \in Theirs -> d["bridge"][k]

\* list fails when a file that it reads does not parse.
Listable(d, s) == d["device"] # Bad /\ (s # Nobody => d[s] # Bad)

ReadOwn(d, s) == [k \in Mine |-> Effective(d, s, k)]

\* target_scope and the owners' file
FileOf(k, scope, s) ==
  CASE k \in Theirs -> "bridge"
    [] k = "restart" -> "device"
    [] k = "later" -> s
    [] k = "live" -> IF scope = "device" THEN "device" ELSE s

Part(b, owner) == [k \in DOMAIN b \cap owner |-> b[k]]
Touched(b, scope, s) == {FileOf(k, scope, s) : k \in DOMAIN b}

\* set and unset on the documents loaded from disk
Edited(d, b, scope, s) ==
  [f \in Touched(b, scope, s) |->
     [k \in Keys |-> IF k \in DOMAIN b /\ FileOf(k, scope, s) = f THEN b[k] ELSE d[f][k]]]

Put(d, e) == [f \in DOMAIN d |-> IF f \in DOMAIN e THEN e[f] ELSE d[f]]

\* An owner's validate: it reads its files whole, and refuses one it cannot parse.
Accepted(d, s, owner) ==
  /\ owner = Mine => Listable(d, s)
  /\ \A r \in Refused : DOMAIN r \subseteq owner => \E k \in DOMAIN r : Effective(d, s, k) # r[k]

\* run_checks, of the part of a batch that is one process's: the owner sees the edited files, and those
\* on disk where the batch has no edit.
Passes(d, b, scope, s) ==
  DOMAIN b # {} =>
    /\ Nobody \notin Touched(b, scope, s) /\ ~("later" \in DOMAIN b /\ scope = "device")
    /\ \A f \in Touched(b, scope, s) : d[f] # Bad
    /\ Accepted(Put(d, Edited(d, b, scope, s)), s, IF DOMAIN b \subseteq Theirs THEN Theirs ELSE Mine)

Init ==
  /\ setup \in DOMAIN Setups
  /\ disk = [f \in Files |-> Empty]
  /\ selected \in Workspaces
  /\ loading = {} /\ values = [k \in Mine |-> Unset] /\ start = [k \in Mine \ LiveKeys |-> Unset]
  /\ writing = Nobody /\ call = [c \in Clients |-> Idle]
  /\ task = [t \in Refreshers |-> {}] /\ due = {}
  /\ up = TRUE /\ bstart = [k \in Theirs \ LiveKeys |-> Unset] /\ provider = Unset
  /\ wlock = Nobody /\ alock = {} /\ btask = [t \in BridgeTasks |-> "idle"]
  /\ calls = 0 /\ events = 0 /\ faults = 0

Fault(kind) == kind \in My.kinds /\ faults < My.faults /\ faults' = faults + 1
Event == events < My.events /\ events' = events + 1
-----------------------------------------------------------------------------
(* config.set on the app server: Config::write *)

Goto(c, pc) == call' = [call EXCEPT ![c].pc = pc]

\* The call ends with an error; the lock is let go.
Fail(c, answer) ==
  /\ call' = [call EXCEPT ![c].pc = "done", ![c].answer = answer]
  /\ writing' = Nobody

OwnPart(c) == Part(call[c].batch, Mine)
BridgePart(c) == Part(call[c].batch, Theirs)
IsMixed(c) == DOMAIN OwnPart(c) # {} /\ DOMAIN BridgePart(c) # {}

ConfigSet(c, b, scope) ==
  /\ loading = {} /\ call[c].pc \in {"idle", "done"} /\ calls < My.calls /\ calls' = calls + 1
  /\ call' = [call EXCEPT ![c] = [Idle EXCEPT !.pc = "called", !.batch = b, !.scope = scope]]
  /\ UNCHANGED <<setup, disk, selected, server, writing, task, due, bridge, events, faults>>

\* What follows the check of the server's part.
AfterCheck(c) ==
  CASE DOMAIN BridgePart(c) = {} -> "apply"
    [] IsMixed(c) -> "bridge check"
    [] OTHER -> "bridge write"

\* A mutant of CheckOwn: the lock is not taken.
CheckOwnUnlocked(c) ==
  /\ call[c].pc = "called"
  /\ \/ Passes(disk, OwnPart(c), call[c].scope, selected) /\ Goto(c, AfterCheck(c)) /\ UNCHANGED writing
     \/ ~Passes(disk, OwnPart(c), call[c].scope, selected) /\ Fail(c, "refused")
  /\ UNCHANGED <<setup, disk, selected, server, task, due, bridge, bounds>>

CheckOwn(c) ==
  /\ call[c].pc = "called" /\ writing = Nobody
  /\ \/ Passes(disk, OwnPart(c), call[c].scope, selected) /\ Goto(c, AfterCheck(c)) /\ writing' = c
     \/ ~Passes(disk, OwnPart(c), call[c].scope, selected) /\ Fail(c, "refused")
  /\ UNCHANGED <<setup, disk, selected, server, task, due, bridge, bounds>>

\* The bridge's part, with dry_run.
BridgeCheck(c) ==
  /\ call[c].pc = "bridge check"
  /\ \/ ~up /\ Fail(c, "not running")
     \/ up /\ wlock = Nobody /\ ~Passes(disk, BridgePart(c), "home", selected) /\ Fail(c, "refused")
     \/ /\ up /\ wlock = Nobody /\ Passes(disk, BridgePart(c), "home", selected)
        /\ Goto(c, "bridge write") /\ UNCHANGED writing
  /\ UNCHANGED <<setup, disk, selected, server, task, due, bridge, bounds>>

\* config_write at the bridge: the batch is applied, and a live change reloaded, under settings_write.
BridgeWrite(c) ==
  /\ call[c].pc = "bridge write"
  /\ \/ ~up /\ Fail(c, "not running") /\ UNCHANGED <<setup, disk, wlock>>
     \/ /\ up /\ wlock = Nobody /\ ~Passes(disk, BridgePart(c), "home", selected)
        /\ Fail(c, "refused") /\ UNCHANGED <<setup, disk, wlock>>
     \/ /\ up /\ wlock = Nobody /\ Passes(disk, BridgePart(c), "home", selected)
        /\ disk' = Put(disk, Edited(disk, BridgePart(c), "home", selected))
        /\ wlock' = IF DOMAIN BridgePart(c) \cap LiveKeys = {} THEN Nobody ELSE c
        /\ call' = [call EXCEPT ![c].wrote = @ \cup {"bridge"},
                                ![c].pc = IF DOMAIN BridgePart(c) \cap LiveKeys = {} THEN "bridge answer" ELSE "reload"]
        /\ UNCHANGED writing
  /\ UNCHANGED <<setup, selected, server, task, due, up, bstart, provider, alock, btask, bounds>>

\* mark_pending, at the bridge; its answer carries the keys.
BridgePending == {k \in DOMAIN bstart : bstart[k] # disk["bridge"][k]}

BridgeAnswer(c) ==
  /\ call[c].pc = "bridge answer"
  /\ call' = [call EXCEPT ![c].pc = IF DOMAIN OwnPart(c) = {} THEN "list" ELSE "apply", ![c].pending = BridgePending]
  /\ UNCHANGED <<setup, disk, selected, server, writing, task, due, bridge, bounds>>

\* A mutant of Apply: a part that no longer passes is refused like one that never did.
ApplyRefuses(c) ==
  /\ call[c].pc = "apply"
  /\ LET scope == call[c].scope
         passes == Passes(disk, OwnPart(c), scope, selected)
     IN \/ ~passes /\ Fail(c, "refused")
        \/ /\ passes
           /\ call' = [call EXCEPT ![c].pc = "write", ![c].staged = Edited(disk, OwnPart(c), scope, selected)]
           /\ UNCHANGED writing
  /\ UNCHANGED <<setup, disk, selected, server, task, due, bridge, bounds>>

\* apply: the checks again, on the files as they are now.
Apply(c) ==
  /\ call[c].pc = "apply"
  /\ LET scope == call[c].scope
         passes == Passes(disk, OwnPart(c), scope, selected)
     IN \/ ~passes /\ Fail(c, IF DOMAIN BridgePart(c) = {} THEN "refused" ELSE "partial")
        \/ /\ passes
           /\ call' = [call EXCEPT ![c].pc = "write", ![c].staged = Edited(disk, OwnPart(c), scope, selected)]
           /\ UNCHANGED writing
  /\ UNCHANGED <<setup, disk, selected, server, task, due, bridge, bounds>>

\* The staged files, one at a time.
WriteFile(c, f) ==
  /\ call[c].pc = "write" /\ f \in DOMAIN call[c].staged
  /\ LET rest == [g \in DOMAIN call[c].staged \ {f} |-> call[c].staged[g]]
     IN \/ /\ disk' = [disk EXCEPT ![f] = call[c].staged[f]]
           /\ call' = [call EXCEPT ![c].staged = rest, ![c].wrote = @ \cup {f},
                                   ![c].pc = IF DOMAIN rest = {} THEN "refresh" ELSE "write"]
           /\ UNCHANGED <<setup, writing, faults>>
        \/ /\ Fault("io") /\ UNCHANGED disk
           /\ Fail(c, IF DOMAIN BridgePart(c) = {} THEN "refused" ELSE "partial")
  /\ UNCHANGED <<setup, selected, server, task, due, bridge, calls, events>>

\* refresh, its second half: the live keys take the values that were read.
Refreshed(v, new) == [k \in Mine |-> IF k \in LiveKeys THEN new[k] ELSE v[k]]

RefreshRead(c) ==
  /\ call[c].pc = "refresh"
  /\ \/ /\ Listable(disk, selected)
        /\ call' = [call EXCEPT ![c].pc = "swap", ![c].read = {ReadOwn(disk, selected)}]
     \/ ~Listable(disk, selected) /\ Goto(c, "list")
  /\ UNCHANGED <<setup, disk, selected, server, writing, task, due, bridge, bounds>>

RefreshSwap(c) ==
  /\ call[c].pc = "swap"
  /\ \E new \in call[c].read : values' = Refreshed(values, new)
  /\ call' = [call EXCEPT ![c].pc = "list", ![c].read = {}]
  /\ UNCHANGED <<setup, disk, selected, loading, start, writing, task, due, bridge, bounds>>

\* mark_pending
OwnPending == {k \in DOMAIN start : start[k] # Effective(disk, selected, k)}

\* The call has succeeded; the lock is let go.
Succeed(c, pending) ==
  /\ call' = [call EXCEPT ![c].pc = "done", ![c].answer = "ok", ![c].pending = @ \cup pending]
  /\ writing' = Nobody

\* The server's pending keys are listed; the bridge's came with its answer, or are still to be asked for.
List(c) ==
  /\ call[c].pc = "list"
  /\ \/ ~Listable(disk, selected) /\ Fail(c, "refused")
     \/ Listable(disk, selected) /\ DOMAIN BridgePart(c) # {} /\ Succeed(c, OwnPending)
     \/ /\ Listable(disk, selected) /\ DOMAIN BridgePart(c) = {}
        /\ call' = [call EXCEPT ![c].pc = "ask", ![c].pending = @ \cup OwnPending]
        /\ UNCHANGED writing
  /\ UNCHANGED <<setup, disk, selected, server, task, due, bridge, bounds>>

Ask(c) ==
  /\ call[c].pc = "ask" /\ Succeed(c, IF up THEN BridgePending ELSE {})
  /\ UNCHANGED <<setup, disk, selected, server, task, due, bridge, bounds>>

Write(c) ==
  \/ CheckOwn(c) \/ BridgeCheck(c) \/ BridgeWrite(c) \/ BridgeAnswer(c) \/ Apply(c)
  \/ \E f \in Files : WriteFile(c, f)
  \/ RefreshRead(c) \/ RefreshSwap(c) \/ List(c) \/ Ask(c)
-----------------------------------------------------------------------------
(* What else changes the files and reads them again *)

\* A session places the workspace's config.toml, or a user edits it: the task for it is woken.
Change(w, k, v, t) ==
  /\ t \in Refreshers \cap {"watch", "reindex"} /\ Event
  /\ \/ disk[w] # Bad /\ disk' = [disk EXCEPT ![w][k] = v] /\ UNCHANGED faults
     \/ disk[w] = Bad /\ disk' = [disk EXCEPT ![w] = [Empty EXCEPT ![k] = v]] /\ UNCHANGED faults
     \/ Fault("garbled") /\ disk' = [disk EXCEPT ![w] = Bad]
  /\ due' = due \cup {t}
  /\ UNCHANGED <<setup, selected, server, writing, call, task, bridge, calls>>

\* A user edits the device's config.toml, which no task watches.
Edit(k, v) ==
  /\ "edit" \in My.kinds /\ Event
  /\ disk' = [disk EXCEPT !["device"][k] = v]
  /\ UNCHANGED <<setup, selected, server, writing, call, task, due, bridge, calls, faults>>

\* Current::remember, or remove: the selection is saved, then the settings are read.
Select(s) ==
  /\ "current" \in Refreshers \ due /\ task["current"] = {} /\ Event
  /\ s # selected /\ selected' = s
  /\ s = Nobody => "remove" \in My.kinds
  /\ due' = due \cup {"current"}
  /\ UNCHANGED <<setup, disk, server, writing, call, task, bridge, calls, faults>>

TaskRead(t) ==
  /\ loading = {} /\ t \in due /\ task[t] = {} /\ due' = due \ {t}
  /\ task' = [task EXCEPT ![t] = IF Listable(disk, selected) THEN {ReadOwn(disk, selected)} ELSE {}]
  /\ UNCHANGED <<setup, disk, selected, server, writing, call, bridge, bounds>>

TaskSwap(t) ==
  /\ \E new \in task[t] : values' = Refreshed(values, new)
  /\ task' = [task EXCEPT ![t] = {}]
  /\ UNCHANGED <<setup, disk, selected, loading, start, writing, call, due, bridge, bounds>>

\* server.restart: the calls end at their next await (from the writes to the listing there is none), or the
\* process dies at any point; a reload at the bridge goes on.  The settings are checked, and read for the
\* values, then for the start state.
LoadRead ==
  /\ loading = {} /\ Accepted(disk, selected, Mine)
  /\ \/ Fault("restart") /\ \A c \in Clients : call[c].pc \notin {"write", "refresh", "swap", "list"}
     \/ Fault("kill")
  /\ loading' = {ReadOwn(disk, selected)}
  /\ call' = [c \in Clients |->
               CASE call[c].pc \in {"idle", "done"} -> call[c]
                 [] call[c].pc = "reload" -> [call[c] EXCEPT !.answer = "lost"]
                 [] OTHER -> [call[c] EXCEPT !.pc = "done", !.answer = "lost"]]
  /\ writing' = Nobody /\ task' = [t \in Refreshers |-> {}] /\ due' = {}
  /\ UNCHANGED <<setup, disk, selected, values, start, bridge, calls, events>>

\* A mutant of LoadCapture: the start state is the one of the first start.
LoadCaptureForgets ==
  /\ \E new \in loading : values' = new
  /\ start' = start /\ loading' = {}
  /\ UNCHANGED <<setup, disk, selected, writing, call, task, due, bridge, bounds>>

LoadCapture ==
  /\ Listable(disk, selected)
  /\ \E new \in loading : values' = new
  /\ start' = [k \in Mine \ LiveKeys |-> Effective(disk, selected, k)] /\ loading' = {}
  /\ UNCHANGED <<setup, disk, selected, writing, call, task, due, bridge, bounds>>

\* The command line writes the files itself while no server answers.
OfflineSet(b, scope) ==
  /\ "offline" \in My.kinds /\ loading # {} /\ Event /\ DOMAIN b \subseteq Mine
  /\ Passes(disk, b, scope, selected)
  /\ disk' = Put(disk, Edited(disk, b, scope, selected))
  /\ UNCHANGED <<setup, selected, server, writing, call, task, due, bridge, calls, faults>>
-----------------------------------------------------------------------------
(* The bridge *)

\* sapphire-bridge config and embed.*: the first reloads under settings_write, the second after it.
BridgeSet(t, k, v) ==
  /\ t \in BridgeTasks \cap {"cli", "embed"} /\ up /\ btask[t] = "idle" /\ wlock = Nobody /\ Event
  /\ t = "embed" => k = "embed"
  /\ Passes(disk, [x \in {k} |-> v], "home", selected)
  /\ disk' = [disk EXCEPT !["bridge"][k] = v]
  /\ IF k \in LiveKeys
     THEN btask' = [btask EXCEPT ![t] = "reload"] /\ wlock' = IF t = "cli" THEN t ELSE Nobody
     ELSE UNCHANGED <<setup, btask, wlock>>
  /\ UNCHANGED <<setup, selected, server, writing, call, task, due, up, bstart, provider, alock, calls, faults>>

\* watch_embed_settings
Tick ==
  /\ up /\ "tick" \in BridgeTasks /\ btask["tick"] = "idle" /\ Event
  /\ btask' = [btask EXCEPT !["tick"] = "reload"]
  /\ UNCHANGED <<setup, disk, selected, server, writing, call, task, due, up, bstart, provider, wlock, alock, calls, faults>>

Reloading(p) == IF p \in Clients THEN call[p].pc = "reload" ELSE btask[p] = "reload"

\* A mutant of ReloadRead: the settings are read without the lock.
ReloadReadUnlocked(p) ==
  /\ up /\ Reloading(p) /\ \A a \in alock : a.who # p
  /\ alock' = alock \cup {[who |-> p, config |-> disk["bridge"]["embed"]]}
  /\ UNCHANGED <<setup, disk, selected, server, writing, call, task, due, up, bstart, provider, wlock, btask, bounds>>

\* reload_embed: the settings are read holding embed.applied, and the provider replaced.
ReloadRead(p) ==
  /\ up /\ Reloading(p) /\ alock = {}
  /\ alock' = {[who |-> p, config |-> disk["bridge"]["embed"]]}
  /\ UNCHANGED <<setup, disk, selected, server, writing, call, task, due, up, bstart, provider, wlock, btask, bounds>>

ReloadApply(p) ==
  /\ \E a \in alock : a.who = p /\ provider' = a.config /\ alock' = alock \ {a}
  /\ wlock' = IF wlock = p THEN Nobody ELSE wlock
  /\ IF p \in Clients THEN Goto(p, IF call[p].answer = "lost" THEN "done" ELSE "bridge answer") /\ UNCHANGED btask
                      ELSE btask' = [btask EXCEPT ![p] = "idle"] /\ UNCHANGED call
  /\ UNCHANGED <<setup, disk, selected, server, writing, task, due, up, bstart, bounds>>

\* The bridge ends under its callers: for the server's call, it is not running.
BridgeEnds ==
  /\ up /\ Fault("bridge") /\ up' = FALSE
  /\ wlock' = Nobody /\ alock' = {} /\ btask' = [t \in BridgeTasks |-> "idle"]
  /\ LET lost == {c \in Clients : call[c].pc \in {"reload", "bridge answer"}}
     IN /\ call' = [c \in Clients |-> IF c \in lost THEN [call[c] EXCEPT !.pc = "done", !.answer = IF @ = "lost" THEN @ ELSE "not running"] ELSE call[c]]
        /\ writing' = IF writing \in lost THEN Nobody ELSE writing
  /\ UNCHANGED <<setup, disk, selected, server, task, due, bstart, provider, calls, events>>

\* serve_loops: the start state is captured and the provider built before anyone can write.
BridgeStarts ==
  /\ ~up /\ up' = TRUE
  /\ bstart' = [k \in Theirs \ LiveKeys |-> disk["bridge"][k]] /\ provider' = disk["bridge"]["embed"]
  /\ UNCHANGED <<setup, disk, selected, server, writing, call, task, due, wlock, alock, btask, bounds>>

Next ==
  \/ \E c \in Clients : Write(c) \/ \E b \in My.batches, s \in My.scopes : ConfigSet(c, b, s)
  \/ \E t \in Refreshers : TaskRead(t) \/ TaskSwap(t) \/ \E w \in Workspaces, k \in {"live", "later"}, v \in Value : Change(w, k, v, t)
  \/ \E k \in {"live", "restart"}, v \in Value : Edit(k, v)
  \/ \E s \in Workspaces \cup {Nobody} : Select(s)
  \/ LoadRead \/ LoadCapture \/ \E b \in My.batches, s \in My.scopes : OfflineSet(b, s)
  \/ \E t \in BridgeTasks, k \in Theirs, v \in Value : BridgeSet(t, k, v)
  \/ Tick \/ BridgeEnds \/ BridgeStarts
  \/ \E p \in Clients \cup BridgeTasks : ReloadRead(p) \/ ReloadApply(p)

Spec == Init /\ [][Next]_vars
-----------------------------------------------------------------------------
(* Properties *)

\* Every variable has its type.
TypeOK ==
  /\ disk \in [Files -> Content] /\ selected \in Workspaces \cup {Nobody}
  /\ values \in [Mine -> Value] /\ start \in [Mine \ LiveKeys -> Value] /\ writing \in Clients \cup {Nobody}
  /\ \A c \in Clients : /\ call[c].pc \in {"idle", "called", "bridge check", "bridge write", "reload", "bridge answer",
                                           "apply", "write", "refresh", "swap", "list", "ask", "done"}
                        /\ call[c].wrote \subseteq Files
                        /\ call[c].answer \in {"none", "ok", "refused", "partial", "not running", "lost"}
  /\ due \subseteq Refreshers /\ up \in BOOLEAN /\ provider \in Value /\ bstart \in [Theirs \ LiveKeys -> Value]
  /\ wlock \in Clients \cup BridgeTasks \cup {Nobody} /\ btask \in [BridgeTasks -> {"idle", "reload"}]

\* The code keeps the properties below where nothing interferes in the way each names.
May(kind) == kind \in My.kinds

\* Nobody but clients, through the server, writes the server's files or moves the selection.
Undisturbed == Refreshers = {} /\ ~May("edit") /\ ~May("io")

\* "any error in the checks fails the whole batch and nothing is written": a batch that is refused
\* (config_methods.rs, write) has written no file of either process.
RefusedWroteNothing == \A c \in Clients : call[c].answer = "refused" => call[c].wrote = {}

\* What a caller is told is so, whatever moves under the call between its check, the bridge's write and the
\* server's (config_methods.rs, write): a refused batch has written nothing, while files parse and writes
\* succeed; one that succeeded has written for each process it has keys of; one that failed in the middle
\* has written the bridge's part.
AnswersAreTrue ==
  /\ ~May("garbled") /\ ~May("io") => RefusedWroteNothing
  /\ \A c \in Clients :
       /\ call[c].answer = "ok" => /\ "bridge" \in call[c].wrote <=> DOMAIN BridgePart(c) # {}
                                   /\ call[c].wrote \ {"bridge"} # {} <=> DOMAIN OwnPart(c) # {}
       /\ call[c].answer = "partial" => "bridge" \in call[c].wrote

\* The parts of a batch of both processes' keys that has been answered are both written or neither
\* is (config_methods.rs, write): a batch of another client must not move a file that an owner reads
\* beside the ones a batch edits, between the check of the server's part and its write.
BothOrNeither ==
  \A c \in Clients : call[c].pc = "done" /\ call[c].answer # "lost" /\ IsMixed(c)
    => ("bridge" \in call[c].wrote <=> \E f \in call[c].wrote : f # "bridge")

\* A batch of the server's own keys in two files that ended is in both files or in neither, unless
\* a write fails or the process dies between them (store.rs, apply).
TwoFilesOrNone ==
  \A c \in Clients :
    call[c].pc = "done" /\ DOMAIN BridgePart(c) = {} /\ "restart" \in DOMAIN OwnPart(c)
      /\ DOMAIN OwnPart(c) # {"restart"} /\ call[c].scope = "home"
      => Cardinality(call[c].wrote) \in {0, 2}

\* A batch is written whole or not at all, as far as the claims above hold.
BatchesAreWhole ==
  /\ Undisturbed /\ ~May("bridge") => BothOrNeither
  /\ ~May("io") /\ ~May("kill") => TwoFilesOrNone

Refreshing == due # {} \/ \E t \in Refreshers : task[t] # {}
Settled == ~Refreshing /\ loading = {} /\ \A c \in Clients : call[c].pc \in {"idle", "done"}

\* When no call and no task of the server is under way, every key that applies live has the value
\* the files give it, where only config.set reads them again (settings.rs, refresh).
LiveKeysAreCurrent ==
  Settled /\ Listable(disk, selected) => \A k \in Mine \cap LiveKeys : values[k] = Effective(disk, selected, k)

LiveKeysFollow == Undisturbed /\ ~May("offline") => LiveKeysAreCurrent

\* When no reload is under way, the provider is the one the bridge's settings ask for, whoever
\* writes them and asks for a reload at once (embed.rs, reload_embed).
ProviderFollows ==
  up /\ (\A p \in Clients \cup BridgeTasks : ~Reloading(p)) => provider = disk["bridge"]["embed"]

\* A caller whose batch succeeds is told which of its restart keys wait for a restart: those that the
\* server runs with another value of (read.rs, mark_pending), whichever batches and restarts came before.
PendingIsTold ==
  [][Undisturbed /\ ~May("offline") =>
       \A c \in Clients : call[c].answer # "ok" /\ call'[c].answer = "ok" =>
         \A k \in DOMAIN OwnPart(c) \ LiveKeys : k \in call'[c].pending <=> call[c].batch[k] # values[k]]_vars

\* What counts as pending is measured against what the server runs with (settings.rs, load_with).
StartIsWhatRuns == loading = {} => \A k \in DOMAIN start : start[k] = values[k]
=============================================================================
