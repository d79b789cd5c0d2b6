---------------------------- MODULE ServingProofs ----------------------------
(* What a server serves and syncs while the bridge stays, for any folders,   *)
(* any operations and any tasks that hold replicas.  The argument: an        *)
(* operation has a heading, the workspace that is current once its plan is   *)
(* done, and every step of the plan and of its calls keeps to it (Heading):  *)
(* what else syncs has its end planned (Course), what is going to be         *)
(* remembered as synced is going to sync (Smooth), through a move too        *)
(* (Exact), and what moves is let go of first where sync is not turned off   *)
(* and no request is overtaken (Kept).                                       *)
EXTENDS Serving, TLAPS

Places == Roots \cup {NoRoot}
Op == proc["op"]

\* What is left of a plan, in the order of these stages: a plan passes each of them once.
Ahead(q) == {q[i] : i \in 1..Len(q)}

Stage(task) ==
  IF task = "release" THEN 1
  ELSE IF task = "released" THEN 2
  ELSE IF task \in {"host", "rename"} THEN 3
  ELSE IF task = "disable" THEN 4
  ELSE IF task = "enable" THEN 5
  ELSE IF task = "delete" THEN 7 ELSE 6

Ordered(q) == \A i, j \in 1..Len(q) : i < j => Stage(q[i].task) < Stage(q[j].task)

Turns == {"host", "rename", "forget"}                    \* another workspace becomes current
Notes == {"remember", "enabled", "disabled", "forget"}   \* it is written down
Stops == {"disable", "release"}                          \* a workspace stops syncing
TaskNames == Turns \cup Notes \cup Stops \cup {"released", "enable", "delete"}

To(t) == IF t.task = "forget" THEN NoRoot ELSE t.w
Said(t) == t.task # "forget" /\ t.sync
Plans(task) == \E t \in Ahead(plan) : t.task = task

Steps == [task : TaskNames, w : Roots, sync : BOOLEAN]
Requests == [op : {"restore"} \cup Setups[setup].operations, w : Roots, sync : BOOLEAN]

Phases == {"idle", "enable", "open", "device", "store", "read", "send", "await", "stop", "take",
           "unregister", "disable", "release"}
Calls == [pc : Phases, call : {"none", "enable", "disable", "release"}, w : Places,
          res : {"ok", "disconnected", "failed"}, set : SUBSET Roots, conn : Nat,
          handled : BOOLEAN, retry : BOOLEAN]

Typed ==
  /\ setup \in DOMAIN Setups
  /\ disk \subseteq Roots /\ ids \subseteq Roots /\ root \in Places
  /\ saved \in [root : Places, sync : BOOLEAN]
  /\ plan \in Seq(Steps) /\ proc \in [Processes -> Calls]
  /\ synced \subseteq Roots /\ asked \subseteq Requests

\* The connection of the start stays, so that keep_connected has nothing to do.
Wired ==
  /\ BridgeStays /\ open /\ slot = 1 /\ conns = 1
  /\ proc["keep"] = Idle("ok") /\ waiting = {} /\ pending = {}
  /\ lock \in {"none", "op"} /\ (lock = "op" <=> Op.pc \in {"device", "store"})
  /\ Op.pc \in {"device", "await", "unregister"} => Op.conn = 1

\* Where an operation's call is.
Phased ==
  \/ Op.call = "none" /\ Op.pc = "idle"
  \/ Op.call = "enable" /\ Op.w \in Roots
     /\ Op.pc \in {"enable", "open", "device", "store", "read", "send", "await"}
  \/ Op.call \in Stops /\ Op.w \in Roots
     /\ Op.pc \in {"stop", "take", "unregister", "read", "send", "await", Op.call}

\* Where requests are not overtaken, one waits at a time, for its turn at once.
Queued ==
  Orderly => /\ asked = {} \/ (plan = <<>> /\ Op.pc = "idle")
             /\ \A x, y \in asked : x = y
             /\ \A q \in asked : q.op = "select" => (q.sync <=> q.w \in ids)

Leaving(v) == Op.call \in Stops /\ Op.pc \in {"stop", "take"} /\ Op.w = v

\* Where an operation is going: r is current once its plan is done, and whatever else syncs has its
\* end planned.
Course(r) ==
  /\ Ordered(plan)
  /\ Op.call # "none" => \A t \in Ahead(plan) : Stage(Op.call) < Stage(t.task)
  /\ \A t \in Ahead(plan) :
       /\ t.task \in Turns => To(t) = r
       /\ t.task \in {"enable", "enabled", "disabled", "remember"} => t.w = r
       /\ t.task = "released" => t.w = root /\ synced \subseteq {root}
       /\ t.task = "delete" => r = NoRoot
  /\ (\A t \in Ahead(plan) : t.task \notin Turns) => root = r
  /\ Op.call = "enable" => Op.w = r
  /\ \A v \in synced \ {r} : Leaving(v) \/ \E t \in Ahead(plan) : t.task \in Stops /\ t.w = v

\* Whether r syncs once the plan is done.
WillSync(r) ==
  \/ Plans("enable") \/ Op.call = "enable"
  \/ r \in synced /\ ~Leaving(r) /\ \A t \in Ahead(plan) : t.task \in Stops => t.w # r

\* The sync of the start, which is not restored yet, is r's.
Owed(r) == \E q \in asked : q.op = "restore" /\ q.w = r

\* No call fails, and what is going to be remembered as synced is going to sync.
Smooth(r) ==
  /\ closing = {} /\ Op.res = "ok"
  /\ synced \subseteq ids /\ ids \subseteq disk /\ root \in disk \cup {NoRoot}
  /\ Plans("rename") => root \in disk /\ r \notin disk /\ ~Plans("disable")
  /\ r \in disk \cup {NoRoot} \/ Plans("rename")
  /\ Op.call = "enable" => Op.w \in disk /\ (Op.pc = "enable" \/ Op.w \in ids)
  /\ Op.call = "enable" /\ Op.pc \in {"read", "send", "await"} => Op.w \in synced
  /\ Op.call \in Stops /\ Op.pc \notin {"stop", "take"} => Op.w \notin synced
  /\ Op.pc \in {"device", "store"} => Op.w \notin synced \cup held
  /\ \A v \in held : \/ v \in synced \cup stopped
                     \/ Op.call \in Stops /\ Op.pc \notin {"stop", "take"} /\ Op.w = v
  /\ \A t \in Ahead(plan) : t.task \in Notes => (Said(t) => WillSync(r))
  /\ (\A t \in Ahead(plan) : t.task \notin Notes) => saved.root = r /\ (saved.sync => WillSync(r) \/ Owed(r))

\* What is remembered as synced is so through a move too.
Exact(r) ==
  /\ Plans("rename") => saved.root = root
  /\ Plans("rename") \/ saved.root \in Roots \ disk =>
       \A t \in Ahead(plan) :
         t.task \in Notes => t.task # "forget" /\ (Restored /\ saved.sync => t.sync)

Moving(v) == (Plans("rename") /\ v = root) \/ \E t \in Ahead(plan) : t.task = "delete" /\ t.w = v
Releases(v) == Op.call = "release" /\ Op.w = v

\* Where sync is not turned off and no request is overtaken: a workspace with a sync id syncs, and is let go of before it
\* moves.
Kept(r) ==
  /\ held \subseteq ids
  /\ Plans("rename") /\ root \in ids => WillSync(r)
  /\ ~Plans("rename") /\ r \in ids => WillSync(r) \/ Owed(r)
  /\ \A v \in Roots : Op.pc \in {"stop", "take"} /\ Releases(v) => v \in synced
  /\ \A t \in Ahead(plan) : t.task = "release" => t.w \in synced
  /\ \A v \in synced \cup held : Moving(v) =>
       Releases(v) \/ \E t \in Ahead(plan) : t.task = "release" /\ t.w = v

Without(names) == Setups[setup].operations \cap names = {}

Heading(r) ==
  /\ Course(r)
  /\ Slow = {} =>
       /\ Smooth(r) /\ Exact(r)
       /\ Orderly /\ Without({"map", "disable_sync"}) => Kept(r)

Inv == Typed /\ Wired /\ Phased /\ Queued /\ \E r \in Places : Heading(r)
-----------------------------------------------------------------------------
\* Plans.

LEMMA Pieces ==
  ASSUME NEW s \in Seq(Steps), NEW t \in Seq(Steps)
  PROVE  /\ s \o t \in Seq(Steps) /\ Ahead(s \o t) = Ahead(s) \cup Ahead(t)
         /\ \/ ~Ordered(s) \/ ~Ordered(t)
            \/ \E x \in Ahead(s), y \in Ahead(t) : ~(Stage(x.task) < Stage(y.task))
            \/ Ordered(s \o t)
  <1> DEFINE q == s \o t
  <1>1. q \in Seq(Steps) /\ Len(q) = Len(s) + Len(t) /\ Len(s) \in Nat /\ Len(t) \in Nat
    OBVIOUS
  <1>2. \A i \in 1..Len(s) : q[i] = s[i] /\ i \in 1..Len(q)
    OBVIOUS
  <1>3. \A i \in 1..Len(t) : q[Len(s) + i] = t[i] /\ Len(s) + i \in 1..Len(q)
    OBVIOUS
  <1>4. \A i \in 1..Len(q) : \/ i \in 1..Len(s) /\ q[i] = s[i]
                             \/ i - Len(s) \in 1..Len(t) /\ q[i] = t[i - Len(s)]
    OBVIOUS
  <1> HIDE DEF q
  <1>5. Ahead(q) = Ahead(s) \cup Ahead(t)
    <2>1. ASSUME NEW x \in Ahead(q) PROVE x \in Ahead(s) \cup Ahead(t)
      BY <1>4, <2>1 DEF Ahead
    <2>2. ASSUME NEW x \in Ahead(s) PROVE x \in Ahead(q)
      BY <1>2, <2>2 DEF Ahead
    <2>3. ASSUME NEW x \in Ahead(t) PROVE x \in Ahead(q)
      BY <1>3, <2>3 DEF Ahead
    <2> QED
      BY <2>1, <2>2, <2>3
  <1>6. ASSUME Ordered(s), Ordered(t), \A x \in Ahead(s), y \in Ahead(t) : Stage(x.task) < Stage(y.task)
        PROVE  Ordered(q)
    <2> SUFFICES ASSUME NEW i \in 1..Len(q), NEW j \in 1..Len(q), i < j
                 PROVE  Stage(q[i].task) < Stage(q[j].task)
      BY DEF Ordered
    <2>1. CASE i \in 1..Len(s) /\ j \in 1..Len(s)
      BY <1>2, <1>6, <2>1 DEF Ordered
    <2>2. CASE i \in 1..Len(s) /\ j \notin 1..Len(s)
      BY <1>2, <1>4, <1>6, <2>2 DEF Ahead
    <2>3. CASE i \notin 1..Len(s)
      <3>1. /\ i - Len(s) \in 1..Len(t) /\ q[i] = t[i - Len(s)]
            /\ j - Len(s) \in 1..Len(t) /\ q[j] = t[j - Len(s)] /\ i - Len(s) < j - Len(s)
        BY <1>1, <1>4, <2>3
      <3> QED
        BY <1>6, <3>1 DEF Ordered
    <2> QED
      BY <2>1, <2>2, <2>3
  <1> QED
    BY <1>1, <1>5, <1>6 DEF q

LEMMA OneTask ==
  ASSUME NEW t \in Steps
  PROVE  <<t>> \in Seq(Steps) /\ Ahead(<<t>>) = {t} /\ Ordered(<<t>>)
  BY DEF Ahead, Ordered

LEMMA NoTask == <<>> \in Seq(Steps) /\ Ahead(<<>>) = {} /\ Ordered(<<>>)
  BY DEF Ahead, Ordered

\* The task at hand is at an earlier stage than the rest.
LEMMA Rest ==
  ASSUME NEW q \in Seq(Steps), q # <<>>
  PROVE  /\ Tail(q) \in Seq(Steps) /\ Head(q) \in Steps /\ Ahead(q) = {Head(q)} \cup Ahead(Tail(q))
         /\ Ordered(q) => /\ Ordered(Tail(q))
                          /\ \A t \in Ahead(Tail(q)) : Stage(Head(q).task) < Stage(t.task)
  <1>1. Len(q) \in Nat \ {0} /\ Len(Tail(q)) = Len(q) - 1 /\ Tail(q) \in Seq(Steps)
        /\ Head(q) = q[1] /\ Head(q) \in Steps
    OBVIOUS
  <1>2. \A i \in 1..Len(Tail(q)) : Tail(q)[i] = q[i + 1] /\ i + 1 \in 1..Len(q)
    OBVIOUS
  <1>3. \A i \in 1..Len(q) : i = 1 \/ (i - 1 \in 1..Len(Tail(q)) /\ q[i] = Tail(q)[i - 1])
    OBVIOUS
  <1>4. Ahead(q) = {Head(q)} \cup Ahead(Tail(q))
    <2>1. ASSUME NEW x \in Ahead(q) PROVE x \in {Head(q)} \cup Ahead(Tail(q))
      BY <1>1, <1>3, <2>1 DEF Ahead
    <2>2. Head(q) \in Ahead(q)
      BY <1>1 DEF Ahead
    <2>3. ASSUME NEW x \in Ahead(Tail(q)) PROVE x \in Ahead(q)
      BY <1>2, <2>3 DEF Ahead
    <2> QED
      BY <2>1, <2>2, <2>3
  <1>5. ASSUME Ordered(q)
        PROVE  /\ Ordered(Tail(q))
               /\ \A t \in Ahead(Tail(q)) : Stage(Head(q).task) < Stage(t.task)
    BY <1>1, <1>2, <1>5 DEF Ordered, Ahead
  <1> QED
    BY <1>1, <1>4, <1>5

\* The instance of a behaviour.
LEMMA InstanceFacts ==
  ASSUME Typed
  PROVE  /\ IsSetup(Setups[setup]) /\ NoRoot \notin Roots /\ Slow \subseteq {"tasks", "close", "retries"}
         /\ Setups[setup].first \in Roots
  BY ServingAssumption DEF Typed, IsSetup, Roots, Slow
-----------------------------------------------------------------------------
\* The steps of a call.

LEMMA OpFacts ==
  ASSUME Inv
  PROVE  /\ Typed /\ Wired /\ Phased /\ Up /\ Op \in Calls /\ proc["keep"].pc = "idle"
         /\ proc["keep"].call = "none" /\ NoRoot \notin Roots /\ Slow \subseteq {"tasks", "close", "retries"}
         /\ \A w \in Roots : Stopping(w) <=>
              Op.call \in Stops /\ Op.pc \notin {"stop", "take"} /\ Op.w = w
  <1>1. Typed /\ Wired /\ Phased /\ NoRoot \notin Roots /\ Slow \subseteq {"tasks", "close", "retries"}
    BY InstanceFacts DEF Inv
  <1>2. Up /\ Op \in Calls /\ proc["keep"].pc = "idle" /\ proc["keep"].call = "none"
    BY <1>1 DEF Typed, Wired, Up, Processes, Idle, Op
  <1>3. ASSUME NEW w \in Roots
        PROVE  Stopping(w) <=> Op.call \in Stops /\ Op.pc \notin {"stop", "take"} /\ Op.w = w
    BY <1>2 DEF Stopping, Processes, Stops, Op
  <1> QED
    BY <1>1, <1>2, <1>3

\* What a step of a call leaves alone.
Elsewhere == UNCHANGED <<setup, disk, root, saved, plan, waiting, pending, slot, open, conns, asked>>

\* The operation's call goes on with another step, or returns.
Goes(o) ==
  /\ o \in Calls /\ proc' = [proc EXCEPT !["op"] = o]
  /\ o.call \in {Op.call, "none"} /\ (o.call = "none" \/ o.w = Op.w)
  /\ o.pc \in {"device", "await", "unregister"} => o.conn = 1
Locks == lock' = IF Op'.pc \in {"device", "store"} THEN "op" ELSE "none"

LEMMA Calling ==
  ASSUME Inv
  PROVE  /\ \A pc \in Phases \ {"device", "await", "unregister"} : LET o == [Op EXCEPT !.pc = pc] IN
              /\ o \in Calls /\ o.pc = pc /\ o.call = Op.call /\ o.w = Op.w /\ o.res = Op.res
              /\ o.conn = Op.conn
              /\ proc' = [proc EXCEPT !["op"].pc = pc] => Goes(o) /\ Op' = o
         /\ \A res \in {"ok", "failed", "disconnected"} : LET o == Idle(res) IN
              /\ o \in Calls /\ o.pc = "idle" /\ o.call = "none" /\ o.res = res
              /\ proc' = [proc EXCEPT !["op"] = o] => Goes(o) /\ Op' = o
  <1>1. Op \in Calls /\ Op = proc["op"] /\ proc \in [Processes -> Calls] /\ "op" \in Processes
    BY OpFacts DEF Typed, Op, Processes
  <1>2. ASSUME NEW o \in Calls, proc' = [proc EXCEPT !["op"] = o] PROVE Op' = o
    BY <1>1, <1>2 DEF Op
  <1>3. ASSUME NEW pc \in Phases \ {"device", "await", "unregister"}, NEW o, o = [Op EXCEPT !.pc = pc]
        PROVE  /\ o \in Calls /\ o.pc = pc /\ o.call = Op.call /\ o.w = Op.w /\ o.res = Op.res
               /\ o.conn = Op.conn
               /\ proc' = [proc EXCEPT !["op"].pc = pc] => Goes(o) /\ Op' = o
    <2>1. o \in Calls /\ o.pc = pc
      BY <1>1, <1>3 DEF Calls
    <2>2. o.call = Op.call /\ o.w = Op.w /\ o.res = Op.res /\ o.conn = Op.conn
      BY <1>1, <1>3 DEF Calls
    <2>3. ASSUME proc' = [proc EXCEPT !["op"].pc = pc] PROVE Goes(o) /\ Op' = o
      <3>1. proc' = [proc EXCEPT !["op"] = o]
        BY <1>1, <1>3, <2>3
      <3> QED
        BY <1>2, <1>3, <2>1, <2>2, <3>1 DEF Goes
    <2> QED
      BY <2>1, <2>2, <2>3
  <1>4. ASSUME NEW res \in {"ok", "failed", "disconnected"}, NEW o, o = Idle(res)
        PROVE  /\ o \in Calls /\ o.pc = "idle" /\ o.call = "none" /\ o.res = res
               /\ proc' = [proc EXCEPT !["op"] = o] => Goes(o) /\ Op' = o
    <2>1. o \in Calls
      BY <1>4 DEF Calls, Idle, Phases, Places
    <2>2. o.pc = "idle" /\ o.call = "none" /\ o.res = res
      BY <1>4 DEF Idle
    <2> QED
      BY <1>2, <2>1, <2>2 DEF Goes
  <1> QED
    BY <1>3, <1>4

\* Whether what o holds of a call is its step pc, of the same workspace.
At(o, pc) ==
  /\ o \in Calls /\ o.pc = pc /\ o.call = Op.call /\ o.w = Op.w /\ o.res = Op.res
  /\ proc' = [proc EXCEPT !["op"] = o]

LEMMA Retrying ==
  ASSUME Typed, NEW pc \in Phases, NEW retry \in BOOLEAN,
         proc' = [proc EXCEPT !["op"].pc = pc, !["op"].retry = retry]
  PROVE  \E o : At(o, pc)
  <1>1. proc \in [Processes -> Calls] /\ "op" \in Processes /\ Op \in Calls /\ Op = proc["op"]
    BY DEF Typed, Op, Processes
  <1>2. At([Op EXCEPT !.pc = pc, !.retry = retry], pc)
    BY <1>1 DEF Calls, At
  <1> QED
    BY <1>2

LEMMA Sending ==
  ASSUME Typed, slot = 1, NEW pc \in Phases, NEW set \in SUBSET Roots,
         proc' = [proc EXCEPT !["op"].pc = pc, !["op"].set = set, !["op"].conn = slot, !["op"].handled = FALSE]
  PROVE  \E o : At(o, pc) /\ o.conn = 1
  <1>1. proc \in [Processes -> Calls] /\ "op" \in Processes /\ Op \in Calls /\ Op = proc["op"]
    BY DEF Typed, Op, Processes
  <1> DEFINE o == [Op EXCEPT !.pc = pc, !.set = set, !.conn = slot, !.handled = FALSE]
  <1>2. At(o, pc) /\ o.conn = 1
    BY <1>1 DEF Calls, At
  <1> QED
    BY <1>2

LEMMA Asking ==
  ASSUME Typed, slot = 1, NEW retry \in BOOLEAN,
         proc' = [proc EXCEPT !["op"].pc = "device", !["op"].set = {}, !["op"].conn = slot,
                              !["op"].handled = FALSE, !["op"].retry = retry]
  PROVE  \E o : At(o, "device") /\ o.conn = 1
  <1>1. proc \in [Processes -> Calls] /\ "op" \in Processes /\ Op \in Calls /\ Op = proc["op"]
    BY DEF Typed, Op, Processes
  <1> DEFINE o == [Op EXCEPT !.pc = "device", !.set = {}, !.conn = slot, !.handled = FALSE, !.retry = retry]
  <1>2. "device" \in Phases
    BY DEF Phases
  <1>3. o \in Calls
    BY <1>1, <1>2 DEF Calls
  <1>4. o.pc = "device" /\ o.call = Op.call /\ o.w = Op.w /\ o.res = Op.res /\ o.conn = 1
    BY <1>1 DEF Calls
  <1>5. proc' = [proc EXCEPT !["op"] = o]
    BY <1>1
  <1>6. At(o, "device") /\ o.conn = 1
    BY <1>3, <1>4, <1>5 DEF At
  <1> QED
    BY <1>6

\* What is left once a workspace is being enabled is to write it down.
LEMMA Enabling ==
  ASSUME Inv, NEW r \in Places, Heading(r), Op.call = "enable"
  PROVE  /\ Op.w = r /\ r \in Roots /\ root = r
         /\ \A t \in Ahead(plan) : t.task \in {"remember", "enabled", "disabled"}
         /\ \A v \in Roots : ~Moving(v) /\ ~Leaving(v)
  <1>1. Op.w = r /\ r \in Roots /\ r # NoRoot
    BY OpFacts DEF Heading, Course, Phased, Stops
  <1>2. ASSUME NEW t \in Ahead(plan) PROVE t.task \in {"remember", "enabled", "disabled"}
    <2>1. t.task \in TaskNames
      <3>1. plan \in Seq(Steps)
        BY OpFacts DEF Typed
      <3>2. PICK i \in 1..Len(plan) : t = plan[i]
        BY DEF Ahead
      <3>3. t \in Steps
        BY <3>1, <3>2
      <3> QED
        BY <3>3 DEF Steps
    <2>2. Stage(t.task) > 5 /\ t.task # "forget" /\ t.task # "delete"
      BY <1>1 DEF Heading, Course, Stage, To, Turns
    <2> QED
      BY <2>1, <2>2 DEF Stage, TaskNames, Turns, Notes, Stops
  <1> QED
    BY <1>1, <1>2 DEF Heading, Course, Turns, Moving, Plans, Leaving, Stops

\* A call takes a workspace out of the map or puts the one it enables there.
LEMMA StepsOfCalls ==
  ASSUME Inv, NEW r \in Places, Heading(r), Elsewhere, NEW o, Goes(o),
         Phased', Locks, ids' \subseteq Roots, ids' = ids \/ Op.call = "enable", synced' \subseteq synced \cup {Op.w},
         synced' \subseteq synced \/ Op.call = "enable",
         \A v \in synced' \ {r} : Leaving(v) => Leaving(v)',
         Slow = {} => /\ Smooth(r)' /\ (WillSync(r)' <=> WillSync(r))
                      /\ Kept(r) => Kept(r)'
  PROVE  Inv'
  <1>1. Ahead(plan)' = Ahead(plan)
    BY DEF Elsewhere, Ahead
  <1>2. Op' = o /\ proc' \in [Processes -> Calls] /\ proc'["keep"] = proc["keep"] /\ r \in Places'
    BY OpFacts DEF Goes, Typed, Op, Processes, Elsewhere, Places, Roots
  <1>3. Typed'
    BY <1>2, OpFacts DEF Typed, Elsewhere, Roots, Places, Steps, Calls, Phased, Requests
  <1>4. Wired'
    BY <1>2, OpFacts DEF Wired, Elsewhere, Locks, BridgeStays, Goes
  <1>5. Course(r)'
    <2>1. Course(r) /\ UNCHANGED <<plan, root>> /\ (Op'.call = "none" \/ (Op'.call = Op.call /\ Op'.w = Op.w))
      BY <1>2 DEF Heading, Elsewhere, Goes
    <2>2. \A v \in synced' \ {r} : Leaving(v)' \/ \E t \in Ahead(plan)' : t.task \in Stops /\ t.w = v
      BY <1>1, <2>1 DEF Course
    <2>3. ASSUME NEW t \in Ahead(plan), t.task = "released" PROVE t.w = root /\ synced' \subseteq {root}
      <3>1. Op.call # "enable"
        BY <2>1, <2>3 DEF Course, Stage
      <3> QED
        BY <2>1, <2>3, <3>1 DEF Course
    <2> QED
      BY <1>1, <2>1, <2>2, <2>3 DEF Course
  <1>6. Exact(r) => Exact(r)'
    BY <1>1 DEF Exact, Elsewhere, Plans, Roots, Restored
  <1>7. Heading(r)'
    BY <1>5, <1>6 DEF Heading, Elsewhere, Slow, Without, Orderly
  <1>8. Queued'
    <2>1. Queued /\ UNCHANGED <<setup, plan, asked>> /\ (Op.pc = "idle" => Op'.pc = "idle")
      BY <1>2, OpFacts DEF Inv, Elsewhere, Goes, Phased, Stops
    <2>2. Op.call = "enable" => Op.pc # "idle"
      BY OpFacts DEF Phased, Stops
    <2> QED
      BY <2>1, <2>2 DEF Queued, Orderly
  <1> QED
    BY <1>2, <1>3, <1>4, <1>7, <1>8 DEF Inv

LEMMA EnableKeeps ==
  ASSUME Inv, Enable("op")
  PROVE  Inv'
  <1>0. PICK r \in Places : Heading(r)
    BY DEF Inv
  <1>1. Op.call = "enable" /\ Op.w \in Roots /\ Op.w = r /\ Op.pc = "enable" /\ lock = "none"
    BY OpFacts, <1>0 DEF Enable, Phased, Stops, Op, Heading, Course, Wired
  <1>2. Ahead(plan)' = Ahead(plan) /\ Elsewhere /\ UNCHANGED <<lock, synced, stopped, held, closing>>
    BY OpFacts DEF Enable, Ahead, bridge, Elsewhere, stores, Wired, requests
  <1>3. CASE Op.w \notin disk
    <2>1. Goes(Idle("failed")) /\ Op' = Idle("failed") /\ UNCHANGED ids
      BY <1>3, Calling DEF Enable, Return, Op
    <2>2. Phased' /\ Locks /\ \A v \in Roots : ~Leaving(v)
      BY <1>1, <1>2, <2>1 DEF Phased, Locks, Leaving, Idle, Stops
    <2>3. Slow # {}
      BY <1>0, <1>1, <1>3 DEF Heading, Smooth, Owed
    <2> QED
      BY OpFacts, <1>0, <1>1, <1>2, <2>1, <2>2, <2>3, StepsOfCalls DEF Typed
  <1>4. CASE Op.w \in disk
    <2> DEFINE o == [Op EXCEPT !.pc = "open"]
    <2>1. Goes(o) /\ Op' = o /\ o.pc = "open" /\ o.call = Op.call /\ o.w = Op.w /\ o.res = Op.res
          /\ ids' = ids \cup {r}
      BY <1>1, <1>4, OpFacts, Calling DEF Enable, Goto, Phases, Op
    <2> HIDE DEF o
    <2>2. Phased' /\ Locks /\ \A v \in Roots : ~Leaving(v)
      BY <1>1, <1>2, <2>1 DEF Phased, Locks, Leaving, Stops, Elsewhere, Roots
    <2>3. WillSync(r)' /\ WillSync(r)
      BY <1>1, <2>1, OpFacts DEF WillSync
    <2>4. Smooth(r) => Smooth(r)'
      BY <1>0, <1>1, <1>2, <1>4, <2>1, <2>3, OpFacts DEF Smooth, Elsewhere, Plans, Stops, Owed
    <2>5. Kept(r) => Kept(r)'
      BY <1>0, <1>1, <1>2, <1>4, <2>1, <2>3, OpFacts
      DEF Kept, Elsewhere, Plans, Stops, Moving, Releases, Roots, Owed
    <2> QED
      BY OpFacts, <1>0, <1>1, <1>2, <2>1, <2>2, <2>3, <2>4, <2>5, StepsOfCalls DEF Typed, Heading
  <1> QED
    BY <1>3, <1>4

LEMMA OpenKeeps ==
  ASSUME Inv, Open("op")
  PROVE  Inv'
  <1>0. PICK r \in Places : Heading(r)
    BY DEF Inv
  <1>1. Op.call = "enable" /\ Op.w \in Roots /\ Op.w = r /\ Op.pc = "open" /\ lock = "none"
    BY OpFacts, <1>0 DEF Open, Phased, Stops, Op, Heading, Course, Wired
  <1>2. Ahead(plan)' = Ahead(plan) /\ Elsewhere /\ UNCHANGED <<ids, held, closing>>
    BY DEF Open, Ahead, bridge, Elsewhere, files, requests
  <1>3. CASE r \in synced /\ Return("op", "ok") /\ UNCHANGED <<synced, stopped, lock>>
    <2> DEFINE o == Idle("ok")
    <2>1. Goes(o) /\ Op' = o /\ o.pc = "idle" /\ o.call = "none" /\ o.res = "ok"
      BY <1>3, Calling DEF Return
    <2> HIDE DEF o
    <2>2. Phased' /\ Locks /\ \A v \in Roots : ~Leaving(v) /\ ~Leaving(v)'
      BY <1>1, <1>3, <2>1 DEF Phased, Locks, Leaving, Stops
    <2>3. WillSync(r)' /\ WillSync(r)
      <3>1. \A t \in Ahead(plan) : t.task \notin Stops
        BY <1>0, <1>1 DEF Heading, Course, Stage, Stops
      <3> QED
        BY <1>1, <1>2, <1>3, <2>1, <2>2, <3>1, OpFacts DEF WillSync
    <2>4. Smooth(r) => Smooth(r)'
      BY <1>0, <1>1, <1>2, <1>3, <2>1, <2>3, OpFacts DEF Smooth, Elsewhere, Plans, Stops, Owed
    <2>5. Kept(r) => Kept(r)'
      BY <1>0, <1>1, <1>2, <1>3, <2>1, <2>3, OpFacts
      DEF Kept, Elsewhere, Plans, Stops, Moving, Releases, Roots, Owed
    <2> QED
      BY OpFacts, <1>0, <1>1, <1>2, <1>3, <2>1, <2>2, <2>3, <2>4, <2>5, StepsOfCalls DEF Typed, Heading
  <1>4. CASE /\ synced' = synced \cup {r} /\ stopped' = stopped \ {r}
             /\ Goto("op", "read") /\ UNCHANGED lock
    <2> DEFINE o == [Op EXCEPT !.pc = "read"]
    <2>1. Goes(o) /\ Op' = o /\ o.pc = "read" /\ o.call = Op.call /\ o.w = Op.w /\ o.res = Op.res
      BY <1>4, Calling DEF Goto, Phases
    <2> HIDE DEF o
    <2>2. Phased' /\ Locks /\ \A v \in Roots : ~Leaving(v)
      BY <1>1, <1>2, <1>4, <2>1 DEF Phased, Locks, Leaving, Stops, Elsewhere, Roots
    <2>3. WillSync(r)' /\ WillSync(r)
      BY <1>1, <2>1, OpFacts DEF WillSync
    <2>4. Smooth(r) => Smooth(r)'
      BY <1>0, <1>1, <1>2, <1>4, <2>1, <2>3, OpFacts DEF Smooth, Elsewhere, Plans, Stops, Owed
    <2>5. Kept(r) => Kept(r)'
      BY <1>0, <1>1, <1>2, <1>4, <2>1, <2>3, OpFacts, Enabling
      DEF Kept, Elsewhere, Plans, Stops, Moving, Releases, Roots, Owed
    <2> QED
      BY OpFacts, <1>0, <1>1, <1>2, <1>4, <2>1, <2>2, <2>3, <2>4, <2>5, StepsOfCalls DEF Typed, Heading
  <1>5. ASSUME ~Reclaim(r), r \notin synced, lock' = "op", stopped' = stopped \ {r}, synced' = synced,
               NEW pc \in {"store", "device"}, NEW o, At(o, pc), pc = "device" => o.conn = 1
        PROVE  Inv'
    <2>1. /\ Goes(o) /\ Op' = o /\ o.pc = pc /\ o.call = Op.call /\ o.w = Op.w /\ o.res = Op.res
          /\ ~(r \in stopped /\ r \in held)
      BY <1>5, OpFacts DEF At, Goes, Typed, Op, Processes, Reclaim
    <2>2. Phased' /\ Locks /\ \A v \in Roots : ~Leaving(v)
      BY <1>1, <1>2, <1>5, <2>1 DEF Phased, Locks, Leaving, Stops, Elsewhere, Roots
    <2>3. WillSync(r)' /\ WillSync(r)
      BY <1>1, <1>5, <2>1, OpFacts DEF WillSync
    <2>4. Smooth(r) => Smooth(r)'
      BY <1>0, <1>1, <1>2, <1>5, <2>1, <2>3, OpFacts DEF Smooth, Elsewhere, Plans, Stops, Owed
    <2>5. Kept(r) => Kept(r)'
      BY <1>0, <1>1, <1>2, <1>5, <2>1, <2>3, OpFacts
      DEF Kept, Elsewhere, Plans, Stops, Moving, Releases, Roots, Owed
    <2> QED
      BY OpFacts, <1>0, <1>1, <1>2, <1>5, <2>1, <2>2, <2>3, <2>4, <2>5, StepsOfCalls DEF Typed, Heading
  <1>6. ASSUME r \notin synced, ~Reclaim(r), stopped' = stopped \ {r}, UNCHANGED synced, lock' = "op",
               NEW retry \in BOOLEAN, proc' = [proc EXCEPT !["op"].pc = "store", !["op"].retry = retry]
        PROVE  Inv'
    <2>1. \E o : At(o, "store")
      BY <1>6, OpFacts, Retrying DEF Phases
    <2> QED
      BY <1>5, <1>6, <2>1
  <1>7. ASSUME r \notin synced, ~Reclaim(r), stopped' = stopped \ {r}, UNCHANGED synced, lock' = "op",
               NEW retry \in BOOLEAN,
               proc' = [proc EXCEPT !["op"].pc = "device", !["op"].set = {}, !["op"].conn = slot,
                                    !["op"].handled = FALSE, !["op"].retry = retry]
        PROVE  Inv'
    <2>1. \E o : At(o, "device") /\ o.conn = 1
      BY <1>7, OpFacts, Asking DEF Wired
    <2> QED
      BY <1>5, <1>7, <2>1
  <1>8. CASE (r \in stopped) = TRUE
    <2>1. \A x : [proc EXCEPT !["op"].pc = x, !["op"].retry = r \in stopped]
                 = [proc EXCEPT !["op"].pc = x, !["op"].retry = TRUE]
      BY <1>8
    <2>2. [proc EXCEPT !["op"].pc = "device", !["op"].set = {}, !["op"].conn = slot,
                       !["op"].handled = FALSE, !["op"].retry = r \in stopped]
          = [proc EXCEPT !["op"].pc = "device", !["op"].set = {}, !["op"].conn = slot,
                         !["op"].handled = FALSE, !["op"].retry = TRUE]
      BY <1>8
    <2> QED
      BY <1>1, <1>3, <1>4, <1>6, <1>7, <2>1, <2>2, OpFacts DEF Open, Op
  <1>9. CASE (r \in stopped) = FALSE
    <2>1. \A x : [proc EXCEPT !["op"].pc = x, !["op"].retry = r \in stopped]
                 = [proc EXCEPT !["op"].pc = x, !["op"].retry = FALSE]
      BY <1>9
    <2>2. [proc EXCEPT !["op"].pc = "device", !["op"].set = {}, !["op"].conn = slot,
                       !["op"].handled = FALSE, !["op"].retry = r \in stopped]
          = [proc EXCEPT !["op"].pc = "device", !["op"].set = {}, !["op"].conn = slot,
                         !["op"].handled = FALSE, !["op"].retry = FALSE]
      BY <1>9
    <2> QED
      BY <1>1, <1>3, <1>4, <1>6, <1>7, <2>1, <2>2, OpFacts DEF Open, Op
  <1>10. (r \in stopped) = TRUE \/ (r \in stopped) = FALSE
    OBVIOUS
  <1> QED
    BY <1>8, <1>9, <1>10

\* A step that only goes on.
LEMMA StepsInPlace ==
  ASSUME Inv, Elsewhere, UNCHANGED <<ids, synced, stopped, held, closing>>, NEW o, Goes(o),
         o.call = Op.call, Op.call # "none", Phased', Locks, Slow = {} => o.res = "ok",
         o.pc \in {"stop", "take"} <=> Op.pc \in {"stop", "take"},
         o.pc \in {"device", "store"} => Op.pc \in {"device", "store"},
         Op.call = "enable" => /\ o.pc \in {"read", "send", "await"} <=> Op.pc \in {"read", "send", "await"}
                               /\ Op.pc = "enable" <=> o.pc = "enable"
  PROVE  Inv'
  <1>0. PICK r \in Places : Heading(r)
    BY DEF Inv
  <1>1. Op' = o /\ Ahead(plan)' = Ahead(plan)
    BY OpFacts DEF Goes, Typed, Op, Processes, Elsewhere, Ahead
  <1>3. o.w = Op.w
    BY DEF Goes
  <1>4. \A v : Leaving(v)' <=> Leaving(v)
    BY <1>1, <1>3 DEF Leaving
  <1>5. WillSync(r)' <=> WillSync(r)
    BY <1>1, <1>4 DEF WillSync, Plans
  <1>6. Slow = {} /\ Smooth(r) => Smooth(r)'
    BY <1>1, <1>3, <1>5 DEF Smooth, Elsewhere, Plans, Owed
  <1>7. Kept(r) => Kept(r)'
    BY <1>1, <1>3, <1>5 DEF Kept, Elsewhere, Plans, Moving, Releases, Roots, Owed
  <1> QED
    BY OpFacts, <1>0, <1>4, <1>5, <1>6, <1>7, StepsOfCalls DEF Typed, Heading

LEMMA DeviceIdKeeps ==
  ASSUME Inv, DeviceId("op")
  PROVE  Inv'
  <1>0. PICK r \in Places : Heading(r)
    BY DEF Inv
  <1>1. Op.call = "enable" /\ Op.w \in Roots /\ Op.w = r /\ Op.pc = "device" /\ lock = "op"
    BY OpFacts, <1>0 DEF DeviceId, Phased, Stops, Op, Heading, Course, Wired
  <1>2. Elsewhere /\ UNCHANGED <<ids, synced, stopped, held, closing>> /\ Roots' = Roots
    BY DEF DeviceId, bridge, Elsewhere, files, stores, Roots, requests
  <1>3. CASE Goto("op", "store") /\ UNCHANGED lock
    <2> DEFINE o == [Op EXCEPT !.pc = "store"]
    <2>1. Goes(o) /\ Op' = o /\ o.pc = "store" /\ o.call = Op.call /\ o.w = Op.w /\ o.res = Op.res
      BY <1>3, Calling DEF Goto, Phases
    <2> HIDE DEF o
    <2>2. Phased' /\ Locks /\ (Slow = {} => o.res = "ok")
      BY <1>0, <1>1, <1>2, <1>3, <2>1 DEF Phased, Locks, Heading, Smooth, Owed
    <2> QED
      BY <1>1, <1>2, <2>1, <2>2, StepsInPlace
  <1>4. ~Cut("op")
    BY <1>1, OpFacts DEF Wired, Cut, Op
  <1> QED
    BY <1>3, <1>4 DEF DeviceId

LEMMA OpenStoreKeeps ==
  ASSUME Inv, OpenStore("op")
  PROVE  Inv'
  <1>0. PICK r \in Places : Heading(r)
    BY DEF Inv
  <1>1. Op.call = "enable" /\ Op.w \in Roots /\ Op.w = r /\ Op.pc = "store" /\ lock' = "none"
    BY OpFacts, <1>0 DEF OpenStore, AfterOpen, Phased, Stops, Op, Heading, Course
  <1>2. Elsewhere /\ UNCHANGED <<ids, stopped, held, closing>> /\ Roots' = Roots
        /\ Ahead(plan)' = Ahead(plan)
    BY DEF OpenStore, bridge, Elsewhere, files, stores, Roots, Ahead, requests
  <1>3. CASE synced' = synced \cup {r} /\ Goto("op", "read")
    <2> DEFINE o == [Op EXCEPT !.pc = "read"]
    <2>1. Goes(o) /\ Op' = o /\ o.pc = "read" /\ o.call = Op.call /\ o.w = Op.w /\ o.res = Op.res
      BY <1>3, Calling DEF Goto, Phases
    <2> HIDE DEF o
    <2>2. Phased' /\ Locks /\ \A v \in Roots : ~Leaving(v)
      BY <1>1, <1>2, <1>3, <2>1 DEF Phased, Locks, Leaving, Stops
    <2>3. WillSync(r)' /\ WillSync(r)
      BY <1>1, <2>1, OpFacts DEF WillSync
    <2>4. Smooth(r) => Smooth(r)'
      BY <1>0, <1>1, <1>2, <1>3, <2>1, <2>3, OpFacts DEF Smooth, Elsewhere, Plans, Stops, Owed
    <2>5. Kept(r) => Kept(r)'
      BY <1>0, <1>1, <1>2, <1>3, <2>1, <2>3, OpFacts, Enabling
      DEF Kept, Elsewhere, Plans, Stops, Moving, Releases, Roots, Owed
    <2> QED
      BY OpFacts, <1>0, <1>1, <1>2, <1>3, <2>1, <2>2, <2>3, <2>4, <2>5, StepsOfCalls DEF Typed, Heading
  <1>4. CASE StoreOpen(r) /\ Return("op", "failed") /\ UNCHANGED synced
    <2> DEFINE o == Idle("failed")
    <2>1. Goes(o) /\ Op' = o /\ o.pc = "idle" /\ o.call = "none"
      BY <1>4, Calling DEF Return
    <2> HIDE DEF o
    <2>2. Phased' /\ Locks /\ \A v \in Roots : ~Leaving(v)
      BY <1>1, <1>4, <2>1 DEF Phased, Locks, Leaving, Stops
    <2>3. Slow # {}
      BY <1>0, <1>1, <1>4, OpFacts DEF Heading, Smooth, StoreOpen, Stops, Owed
    <2> QED
      BY OpFacts, <1>0, <1>1, <1>2, <1>4, <2>1, <2>2, <2>3, StepsOfCalls DEF Typed
  <1> QED
    BY <1>1, <1>3, <1>4 DEF OpenStore, Op

LEMMA ReadKeeps ==
  ASSUME Inv, Read("op")
  PROVE  Inv'
  <1>1. Op.pc = "read" /\ Op.call # "none" /\ lock = "none" /\ lock' = "none" /\ synced \subseteq Roots
    BY OpFacts DEF Read, Phased, Stops, Op, Typed
  <1>2. Elsewhere /\ UNCHANGED <<ids, synced, stopped, held, closing>> /\ Roots' = Roots
    BY DEF Read, bridge, Elsewhere, files, stores, Roots, requests
  <1> DEFINE o == [Op EXCEPT !.pc = "send", !.set = synced]
  <1>3. /\ Goes(o) /\ Op' = o /\ o.pc = "send" /\ o.call = Op.call /\ o.w = Op.w /\ o.res = Op.res
    BY <1>1, OpFacts DEF Read, CompleteSet, Goes, Calls, Phases, Typed, Op, Processes
  <1> HIDE DEF o
  <1>4. Phased' /\ Locks /\ (Slow = {} => o.res = "ok")
    BY <1>1, <1>2, <1>3 DEF Inv, Phased, Locks, Heading, Smooth, Owed
  <1> QED
    BY <1>1, <1>2, <1>3, <1>4, StepsInPlace

\* The end of a call that stops nothing.
LEMMA Returns ==
  ASSUME Inv, Elsewhere, UNCHANGED <<ids, synced, held>>, lock' = "none",
         Slow = {} => closing' = closing /\ stopped \cap held \subseteq stopped',
         NEW res \in {"ok", "disconnected", "failed"}, proc' = [proc EXCEPT !["op"] = Idle(res)],
         Slow = {} => res = "ok" /\ (Op.call = "enable" => Op.pc \in {"read", "send", "await"}),
         Op.pc \notin {"idle", "stop", "take"},
         Slow = {} /\ Op.call \in Stops => Op.w \in stopped' \/ Op.w \notin held,
         Slow = {} /\ Op.call = "release" => Op.w \notin held
  PROVE  Inv'
  <1>0. PICK r \in Places : Heading(r)
    BY DEF Inv
  <1> DEFINE o == Idle(res)
  <1>1. Goes(o) /\ Op' = o /\ o.pc = "idle" /\ o.call = "none" /\ o.res = res
    BY Calling
  <1>2. Ahead(plan)' = Ahead(plan)
    BY DEF Elsewhere, Ahead
  <1> HIDE DEF o
  <1>3. Phased' /\ Locks /\ \A v \in Roots : ~Leaving(v) /\ ~Leaving(v)'
    BY <1>1 DEF Phased, Locks, Leaving, Stops
  <1>4. ASSUME Slow = {} PROVE WillSync(r)' <=> WillSync(r)
    <2>1. CASE Op.call = "enable"
      <3>1. r \in synced /\ r \in Roots /\ \A t \in Ahead(plan) : t.task \notin Stops
        BY <1>0, <1>4, <2>1, Enabling DEF Heading, Smooth, Stops, Owed
      <3> QED
        BY <1>1, <1>2, <1>3, <2>1, <3>1 DEF WillSync
    <2>2. CASE Op.call # "enable"
      BY <1>1, <1>2, <1>3, <2>2, OpFacts DEF WillSync, Plans, Typed
    <2> QED
      BY <2>1, <2>2
  <1>5. Slow = {} /\ Smooth(r) => Smooth(r)'
    <2> SUFFICES ASSUME Slow = {}, Smooth(r) PROVE Smooth(r)'
      OBVIOUS
    <2>1. ASSUME NEW v \in held PROVE v \in synced \cup stopped'
      BY DEF Smooth, Owed
    <2> QED
      BY <1>1, <1>2, <1>4, <2>1 DEF Smooth, Elsewhere, Plans, Stops, Owed
  <1>6. Slow = {} /\ Smooth(r) /\ Kept(r) => Kept(r)'
    <2> SUFFICES ASSUME Slow = {}, Smooth(r), Kept(r) PROVE Kept(r)'
      OBVIOUS
    <2>1. ASSUME NEW v \in synced \cup held, Moving(v), Releases(v)
          PROVE  FALSE
      BY <2>1 DEF Smooth, Releases, Stops, Owed
    <2> QED
      BY <1>1, <1>2, <1>4, <2>1 DEF Kept, Elsewhere, Plans, Moving, Releases, Roots, Owed
  <1> QED
    BY OpFacts, <1>0, <1>1, <1>2, <1>3, <1>4, <1>5, <1>6, StepsOfCalls DEF Typed, Heading

LEMMA RegisterKeeps ==
  ASSUME Inv, Register("op")
  PROVE  Inv'
  <1>1. Op.pc = "send" /\ Op.call # "none" /\ lock = "none" /\ lock' = "none" /\ Op.set \in SUBSET Roots
    BY OpFacts DEF Register, Phased, Stops, Op, Wired, Calls
  <1>2. Elsewhere /\ UNCHANGED <<ids, synced, stopped, held, closing>> /\ Roots' = Roots
    BY DEF Register, bridge, Elsewhere, files, stores, Roots, requests
  <1>3. PICK o : At(o, "await") /\ o.conn = 1
    BY <1>1, OpFacts, Sending DEF Register, Send, Phases, Op, Wired
  <1>4. Goes(o) /\ Op' = o /\ o.pc = "await" /\ o.call = Op.call /\ o.w = Op.w /\ o.res = Op.res
    BY <1>3, OpFacts DEF At, Goes, Typed, Op, Processes
  <1>5. Phased' /\ Locks /\ (Slow = {} => o.res = "ok")
    BY <1>1, <1>2, <1>4 DEF Inv, Phased, Locks, Heading, Smooth, Owed
  <1> QED
    BY <1>1, <1>2, <1>4, <1>5, StepsInPlace

LEMMA AnsweredKeeps ==
  ASSUME Inv, Answered("op")
  PROVE  Inv'
  <1>1. Op.pc \in {"await", "unregister"} /\ Op.call # "none" /\ lock = "none" /\ lock' = "none"
        /\ ~Cut("op")
    BY OpFacts DEF Answered, Phased, Stops, Op, Wired, Cut
  <1>2. Elsewhere /\ UNCHANGED <<ids, synced, stopped, held, closing>> /\ Roots' = Roots
    BY DEF Answered, bridge, Elsewhere, files, stores, Roots, requests
  <1>3. CASE Op.pc = "await" /\ After("op", "ok")
    <2>1. CASE Op.call \in Stops
      <3> DEFINE o == [Op EXCEPT !.pc = Op.call, !.res = "ok"]
      <3>1. Goes(o) /\ Op' = o /\ o.pc = Op.call /\ o.call = Op.call /\ o.w = Op.w /\ o.res = "ok"
        <4>1. Op \in Calls /\ Op = proc["op"] /\ proc \in [Processes -> Calls] /\ "op" \in Processes
          BY OpFacts DEF Typed, Op, Processes
        <4>2. Op.call \in {"disable", "release"} /\ Op.call \in Phases
          BY <2>1 DEF Stops, Phases
        <4>3. o \in Calls
          BY <4>1, <4>2 DEF Calls
        <4>4. o.pc = Op.call /\ o.call = Op.call /\ o.w = Op.w /\ o.res = "ok"
          BY <4>1 DEF Calls
        <4>5. proc' = [proc EXCEPT !["op"] = o]
          BY <1>3, <4>1, <4>2 DEF After
        <4>6. Op' = o
          BY <4>1, <4>3, <4>5 DEF Op
        <4> QED
          BY <4>2, <4>3, <4>4, <4>5, <4>6 DEF Goes
      <3> HIDE DEF o
      <3>2. Phased' /\ Locks
        BY <1>1, <1>2, <2>1, <3>1, OpFacts DEF Phased, Locks, Stops
      <3> QED
        BY <1>1, <1>2, <1>3, <2>1, <3>1, <3>2, StepsInPlace DEF Stops
    <2>2. CASE Op.call \notin Stops
      <3>1. Op.call = "enable" /\ proc' = [proc EXCEPT !["op"] = Idle("ok")]
        BY <1>1, <1>3, <2>2, OpFacts DEF Phased, After, Return, Op, Stops
      <3> QED
        BY <1>1, <1>2, <1>3, <3>1, Returns DEF Stops
    <2> QED
      BY <2>1, <2>2
  <1>4. CASE Op.pc = "unregister" /\ Goto("op", "read")
    <2> DEFINE o == [Op EXCEPT !.pc = "read"]
    <2>1. Goes(o) /\ Op' = o /\ o.pc = "read" /\ o.call = Op.call /\ o.w = Op.w /\ o.res = Op.res
      BY <1>4, Calling DEF Goto, Phases
    <2> HIDE DEF o
    <2>2. Phased' /\ Locks /\ (Slow = {} => o.res = "ok") /\ Op.call # "enable"
      BY <1>1, <1>2, <1>4, <2>1 DEF Inv, Phased, Locks, Heading, Smooth, Stops, Owed
    <2> QED
      BY <1>1, <1>2, <1>4, <2>1, <2>2, StepsInPlace
  <1> QED
    BY <1>1, <1>3, <1>4 DEF Answered, Op

LEMMA HandleKeeps ==
  ASSUME Inv, Handle("op")
  PROVE  Inv'
  <1>1. Op.pc \in {"await", "device", "unregister"} /\ Op.call # "none" /\ UNCHANGED lock
    BY OpFacts DEF Handle, Phased, Op, Stops
  <1>2. Elsewhere /\ UNCHANGED <<ids, synced, stopped, held, closing>> /\ Roots' = Roots
    BY DEF Handle, bridge, Elsewhere, files, stores, Roots, requests
  <1> DEFINE o == [Op EXCEPT !.handled = TRUE]
  <1>3. /\ Goes(o) /\ Op' = o /\ o.pc = Op.pc /\ o.call = Op.call /\ o.w = Op.w /\ o.res = Op.res
    BY <1>1, OpFacts DEF Handle, Goes, Calls, Typed, Op, Processes, Wired
  <1> HIDE DEF o
  <1>4. Phased' /\ Locks /\ (Slow = {} => o.res = "ok")
    BY <1>1, <1>2, <1>3, OpFacts DEF Inv, Phased, Locks, Heading, Smooth, Wired, Owed
  <1> QED
    BY <1>1, <1>2, <1>3, <1>4, StepsInPlace

LEMMA StopKeeps ==
  ASSUME Inv, Stop("op")
  PROVE  Inv'
  <1>1. Op.pc = "stop" /\ Op.call \in Stops /\ lock = "none" /\ lock' = "none" /\ pending' = {}
    BY OpFacts DEF Stop, Phased, Op, Wired
  <1>2. Elsewhere /\ UNCHANGED <<ids, synced, stopped, held, closing>> /\ Roots' = Roots
    BY <1>1, OpFacts DEF Stop, bridge, Elsewhere, files, stores, Roots, Wired, requests
  <1> DEFINE o == [Op EXCEPT !.pc = "take"]
  <1>3. Goes(o) /\ Op' = o /\ o.pc = "take" /\ o.call = Op.call /\ o.w = Op.w /\ o.res = Op.res
    BY Calling DEF Stop, Goto, Phases
  <1> HIDE DEF o
  <1>4. Phased' /\ Locks /\ (Slow = {} => o.res = "ok")
    BY <1>1, <1>2, <1>3, OpFacts DEF Inv, Phased, Locks, Heading, Smooth, Wired, Owed
  <1> QED
    BY <1>1, <1>2, <1>3, <1>4, StepsInPlace DEF Stops

LEMMA DisableKeeps ==
  ASSUME Inv, Disable("op")
  PROVE  Inv'
  <1>1. Op.pc = "disable" /\ Op.call = "disable" /\ lock' = "none"
        /\ Op.res \in {"ok", "disconnected", "failed"}
    BY OpFacts DEF Disable, Phased, Stops, Op, Wired, Calls
  <1>2. Elsewhere /\ UNCHANGED <<ids, synced, held>>
    BY DEF Disable, bridge, Elsewhere, files, requests
  <1>3. Op.w \in stopped' /\ stopped \cap held \subseteq stopped'
    BY DEF Disable, Op
  <1>4. Slow = {} => closing' = closing /\ Op.res = "ok"
    BY DEF Disable, Closes, Inv, Heading, Smooth, Owed
  <1>5. proc' = [proc EXCEPT !["op"] = Idle(Op.res)]
    BY DEF Disable, Return, Op
  <1> QED
    BY <1>1, <1>2, <1>3, <1>4, <1>5, Returns

LEMMA ReleaseKeeps ==
  ASSUME Inv, Release("op")
  PROVE  Inv'
  <1>1. Op.pc = "release" /\ Op.call = "release" /\ lock' = "none"
    BY OpFacts DEF Release, Phased, Stops, Op, Wired
  <1>2. Elsewhere /\ UNCHANGED <<ids, synced, held, closing, stopped>>
    BY DEF Release, bridge, Elsewhere, files, stores, requests
  <1>3. CASE Op.w \notin held /\ Return("op", "ok")
    BY <1>1, <1>2, <1>3, Returns DEF Return
  <1>4. CASE "tasks" \in Slow /\ Return("op", "failed")
    BY <1>1, <1>2, <1>4, Returns DEF Return
  <1> QED
    BY <1>3, <1>4 DEF Release, Op

LEMMA TakeKeeps ==
  ASSUME Inv, Take("op")
  PROVE  Inv'
  <1>0. PICK r \in Places : Heading(r)
    BY DEF Inv
  <1>1. Op.pc = "take" /\ Op.call \in Stops /\ Op.w \in Roots /\ lock = "none" /\ lock' = "none"
    BY OpFacts DEF Take, Phased, Op
  <1>2. Elsewhere /\ UNCHANGED <<ids, held, closing, stopped>> /\ Roots' = Roots
        /\ Ahead(plan)' = Ahead(plan) /\ synced' = synced \ {Op.w}
    BY DEF Take, bridge, Elsewhere, files, stores, Roots, Ahead, Op, requests
  <1>3. CASE Op.w \notin synced /\ Return("op", "ok")
    <2> DEFINE o == Idle("ok")
    <2>1. Goes(o) /\ Op' = o /\ o.pc = "idle" /\ o.call = "none" /\ o.res = "ok"
      BY <1>3, Calling DEF Return
    <2> HIDE DEF o
    <2>2. Phased' /\ Locks /\ synced' = synced /\ \A v : ~Leaving(v)'
      BY <1>1, <1>2, <1>3, <2>1 DEF Phased, Locks, Leaving, Stops
    <2>3. WillSync(r)' <=> WillSync(r)
      BY <1>1, <1>2, <1>3, <2>1, <2>2 DEF WillSync, Plans, Leaving, Stops
    <2>4. Smooth(r) => Smooth(r)'
      BY <1>1, <1>2, <1>3, <2>1, <2>2, <2>3 DEF Smooth, Elsewhere, Plans, Stops, Owed
    <2>5. Kept(r) => Kept(r)'
      BY <1>1, <1>2, <1>3, <2>1, <2>2, <2>3 DEF Kept, Elsewhere, Plans, Moving, Releases, Roots, Owed
    <2> QED
      BY OpFacts, <1>0, <1>1, <1>2, <1>3, <2>1, <2>2, <2>3, <2>4, <2>5, StepsOfCalls
      DEF Typed, Heading, Leaving
  <1>4. ASSUME Op.w \in synced, NEW o, Goes(o), o.call = Op.call, o.pc \in {"unregister", Op.call},
               Slow = {} => o.res = "ok"
        PROVE  Inv'
    <2>1. Op' = o /\ o.w = Op.w
      BY <1>1, <1>4, OpFacts DEF Goes, Typed, Op, Processes, Stops
    <2>2. Phased' /\ Locks
      BY <1>1, <1>2, <1>4, <2>1 DEF Phased, Locks, Stops
    <2>3. \A v \in synced' : ~Leaving(v)
      BY <1>2 DEF Leaving
    <2>4. WillSync(r)' <=> WillSync(r)
      BY <1>1, <1>2, <1>4, <2>1 DEF WillSync, Plans, Leaving, Stops
    <2>5. Slow = {} /\ Smooth(r) => Smooth(r)'
      BY <1>1, <1>2, <1>4, <2>1, <2>4 DEF Smooth, Elsewhere, Plans, Stops, Owed
    <2>6. Kept(r) => Kept(r)'
      <3>1. \A t \in Ahead(plan) : t.task # "release"
        BY <1>0, <1>1 DEF Heading, Course, Stage, Stops
      <3> QED
        BY <1>1, <1>2, <1>4, <2>1, <2>4, <3>1 DEF Kept, Elsewhere, Plans, Moving, Releases, Roots, Stops, Owed
    <2> QED
      BY OpFacts, <1>0, <1>1, <1>2, <1>4, <2>2, <2>3, <2>4, <2>5, <2>6, StepsOfCalls DEF Typed, Heading
  <1>5. CASE Op.w \in synced /\ Send("op", "unregister", {Op.w})
    <2>1. PICK o : At(o, "unregister") /\ o.conn = 1
      <3>1. {Op.w} \in SUBSET Roots /\ "unregister" \in Phases /\ slot = 1 /\ Typed
        BY <1>1, OpFacts DEF Phases, Wired
      <3> QED
        BY <1>5, <3>1, Sending DEF Send
    <2>2. Goes(o) /\ o.pc = "unregister" /\ o.call = Op.call /\ o.res = Op.res
      BY <2>1 DEF At, Goes
    <2> QED
      BY <1>0, <1>4, <1>5, <2>2 DEF Heading, Smooth, Owed
  <1> QED
    BY <1>3, <1>5, OpFacts DEF Take, Op
-----------------------------------------------------------------------------
\* The tasks that hold a replica.

LEMMA TaskStartsKeeps ==
  ASSUME Inv, NEW w \in Roots, TaskStarts(w)
  PROVE  Inv'
  <1>0. PICK r \in Places : Heading(r)
    BY DEF Inv
  <1>1. /\ w \in synced \ held /\ lock = "none" /\ held' = held \cup {w} /\ Elsewhere /\ proc' = proc
        /\ UNCHANGED <<ids, synced, stopped, closing, lock>> /\ Roots' = Roots
        /\ Ahead(plan)' = Ahead(plan) /\ Op' = Op
    BY DEF TaskStarts, bridge, Elsewhere, files, Roots, Ahead, Op, requests
  <1>2. Goes(Op) /\ Phased' /\ Locks
    BY <1>1, OpFacts DEF Goes, Typed, Op, Processes, Phased, Locks, Wired
  <1>3. WillSync(r)' <=> WillSync(r)
    BY <1>1 DEF WillSync, Plans, Leaving
  <1>4. Slow = {} /\ Smooth(r) => Smooth(r)'
    BY <1>1, <1>3, OpFacts DEF Smooth, Elsewhere, Plans, Wired, Owed
  <1>5. Smooth(r) /\ Kept(r) => Kept(r)'
    BY <1>1, <1>3 DEF Smooth, Kept, Elsewhere, Plans, Moving, Releases, Owed
  <1> QED
    BY OpFacts, <1>0, <1>1, <1>2, <1>3, <1>4, <1>5, StepsOfCalls DEF Typed, Heading, Leaving

LEMMA TaskEndsKeeps ==
  ASSUME Inv, NEW w \in Roots, TaskEnds(w) \/ Closed(w)
  PROVE  Inv'
  <1>0. PICK r \in Places : Heading(r)
    BY DEF Inv
  <1>1. /\ held' \subseteq held /\ Elsewhere /\ proc' = proc /\ (Slow = {} => closing' \subseteq closing)
        /\ UNCHANGED <<ids, synced, stopped, lock>> /\ Roots' = Roots
        /\ Ahead(plan)' = Ahead(plan) /\ Op' = Op
    BY DEF TaskEnds, Closed, bridge, Elsewhere, files, Roots, Ahead, Op, Closes, requests
  <1>2. Goes(Op) /\ Phased' /\ Locks
    BY <1>1, OpFacts DEF Goes, Typed, Op, Processes, Phased, Locks, Wired
  <1>3. WillSync(r)' <=> WillSync(r)
    BY <1>1 DEF WillSync, Plans, Leaving
  <1>4. Slow = {} /\ Smooth(r) => Smooth(r)'
    BY <1>1, <1>3 DEF Smooth, Elsewhere, Plans, Owed
  <1>5. Kept(r) => Kept(r)'
    BY <1>1, <1>3 DEF Kept, Elsewhere, Plans, Moving, Releases, Owed
  <1> QED
    BY OpFacts, <1>0, <1>1, <1>2, <1>3, <1>4, <1>5, StepsOfCalls DEF Typed, Heading, Leaving
-----------------------------------------------------------------------------
\* The steps of a plan.

LEMMA AtHand ==
  ASSUME Inv, NEW names, Do(names)
  PROVE  /\ Now \in Steps /\ Now.task \in names /\ Op.call = "none" /\ Op.pc = "idle" /\ lock = "none"
         /\ Tail(plan) \in Seq(Steps) /\ Ahead(plan) = {Now} \cup Ahead(Tail(plan))
         /\ UNCHANGED <<lock, pending, waiting, synced, stopped, held, closing, setup, slot, open, conns, asked>>
         /\ \A r : Course(r) => /\ Ordered(Tail(plan))
                                /\ \A t \in Ahead(Tail(plan)) : Stage(Now.task) < Stage(t.task)
         /\ \A v : ~Leaving(v)
         /\ asked' = asked /\ (Orderly => asked = {})
  <1>1. plan \in Seq(Steps) /\ plan # <<>> /\ Op.pc = "idle" /\ Now.task \in names
    BY OpFacts DEF Do, Typed, Op
  <1>2. Op.call = "none" /\ lock = "none"
    BY <1>1, OpFacts DEF Phased, Wired, Stops
  <1> QED
    BY <1>1, <1>2, Rest DEF Do, Now, Course, stores, bridge, Leaving, Stops, requests, Inv, Queued

\* A step of the plan that calls nothing: what it was at is done.
LEMMA StepsOfPlans ==
  ASSUME Inv, NEW names, Do(names), plan' = Tail(plan), proc' = proc, NEW r \in Places, Heading(r),
         disk' \subseteq Roots, ids' \subseteq Roots, root' \in Places,
         saved' \in [root : Places, sync : BOOLEAN],
         Heading(r)'
  PROVE  Inv'
  <1>1. Typed' /\ Wired' /\ Phased' /\ r \in Places'
    <2>1. /\ Typed /\ Wired /\ Phased /\ setup' = setup /\ Op' = Op /\ Tail(plan) \in Seq(Steps)
          /\ UNCHANGED <<lock, pending, waiting, synced, slot, open, conns, asked>>
      BY AtHand, OpFacts DEF Op
    <2>2. /\ Roots' = Roots /\ Places' = Places /\ Steps' = Steps /\ Calls' = Calls
          /\ BridgeStays' = BridgeStays /\ Requests' = Requests
      BY <2>1 DEF Places, Roots, Steps, Calls, BridgeStays, Requests
    <2>3. Typed'
      BY <2>1, <2>2 DEF Typed
    <2>4. Wired'
      BY <2>1, <2>2 DEF Wired
    <2>5. Phased'
      BY <2>1, <2>2 DEF Phased
    <2> QED
      BY <2>2, <2>3, <2>4, <2>5
  <1>2. Queued'
    BY AtHand DEF Queued, Orderly
  <1> QED
    BY <1>1, <1>2 DEF Inv

LEMMA CallRuntimeKeeps ==
  ASSUME Inv, CallRuntime
  PROVE  Inv'
  <1>0. PICK r \in Places : Heading(r)
    BY DEF Inv
  <1> DEFINE o == Call(Now.task, Now.w)
             names == {"enable", "disable", "release"}
  <1>1. /\ Do(names) /\ plan' = Tail(plan) /\ proc' = [proc EXCEPT !["op"] = o]
        /\ UNCHANGED <<disk, ids, root, saved>>
    BY DEF CallRuntime, files
  <1>2. /\ Now \in Steps /\ Now.task \in names /\ Op.call = "none" /\ Op.pc = "idle" /\ lock = "none"
        /\ Tail(plan) \in Seq(Steps) /\ Ahead(plan) = {Now} \cup Ahead(Tail(plan))
        /\ UNCHANGED <<lock, pending, waiting, synced, stopped, held, closing, setup, slot, open, conns, asked>>
        /\ Ordered(Tail(plan)) /\ \A t \in Ahead(Tail(plan)) : Stage(Now.task) < Stage(t.task)
        /\ \A v : ~Leaving(v)
    BY <1>0, <1>1, AtHand DEF Heading
  <1>3. /\ o \in Calls /\ o.call = Now.task /\ o.w = Now.w /\ o.w \in Roots /\ o.res = "ok"
        /\ o.pc = IF Now.task = "enable" THEN "enable" ELSE "stop"
    BY <1>2 DEF Call, Idle, Calls, Steps, Phases, Places
  <1> HIDE DEF o
  <1>4. Op' = o /\ Ahead(plan)' = Ahead(Tail(plan)) /\ proc' \in [Processes -> Calls]
        /\ proc'["keep"] = proc["keep"]
    BY <1>1, <1>3, OpFacts DEF Op, Typed, Processes, Ahead
  <1>5. Typed' /\ Wired' /\ Phased' /\ r \in Places'
    BY <1>1, <1>2, <1>3, <1>4, OpFacts
    DEF Typed, Wired, Phased, Places, Roots, Steps, Calls, BridgeStays, Stops, Requests
  <1>12. Queued'
    BY <1>1, AtHand DEF Queued, Orderly
  <1>6. Course(r)'
    BY <1>0, <1>1, <1>2, <1>3, <1>4 DEF Heading, Course, Leaving, Stops, To, Turns
  <1>7. WillSync(r)' <=> WillSync(r)
    BY <1>0, <1>2, <1>3, <1>4 DEF WillSync, Plans, Leaving, Stops, Stage
  <1>8. Smooth(r) => Smooth(r)'
    <2> SUFFICES ASSUME Smooth(r) PROVE Smooth(r)'
      OBVIOUS
    <2>1. ASSUME Now.task = "enable" PROVE Now.w = r /\ r \in disk
      <3>1. Now.w = r /\ ~Plans("rename")
        BY <1>0, <1>2, <2>1 DEF Heading, Course, Plans, Stage
      <3> QED
        BY <1>2, <1>3, <3>1, OpFacts DEF Smooth, Owed
    <2>2. Plans("rename")' => Plans("rename")
      BY <1>2, <1>4 DEF Plans
    <2>3. Plans("rename") => Plans("rename")'
      BY <1>2, <1>4 DEF Plans
    <2>4. \A t \in Ahead(plan) : t.task \in Notes => t \in Ahead(Tail(plan))
      BY <1>2 DEF Notes
    <2>5. Plans("disable")' => Plans("disable")
      BY <1>2, <1>4 DEF Plans
    <2> QED
      BY <1>1, <1>2, <1>3, <1>4, <1>7, <2>1, <2>2, <2>3, <2>4, <2>5 DEF Smooth, Stops, Owed
  <1>9. Exact(r) => Exact(r)'
    <2>1. Plans("rename")' <=> Plans("rename")
      BY <1>2, <1>4 DEF Plans
    <2>2. \A t \in Ahead(plan) : t.task \in Notes => t \in Ahead(Tail(plan))
      BY <1>2 DEF Notes
    <2> QED
      BY <1>1, <1>2, <1>4, <1>7, <2>1, <2>2 DEF Exact, Roots, Restored
  <1>10. Kept(r) => Kept(r)'
    <2>1. Plans("rename")' <=> Plans("rename")
      BY <1>2, <1>4 DEF Plans
    <2>2. \A v : Moving(v)' <=> Moving(v)
      BY <1>1, <1>2, <1>4, <2>1 DEF Moving
    <2> QED
      BY <1>1, <1>2, <1>3, <1>4, <1>7, <2>1, <2>2 DEF Kept, Roots, Releases, Owed
  <1>11. Heading(r)'
    BY <1>0, <1>1, <1>2, <1>6, <1>8, <1>9, <1>10 DEF Heading, Slow, Without, Orderly
  <1> QED
    BY <1>5, <1>11, <1>12 DEF Inv

LEMMA HostSelectKeeps ==
  ASSUME Inv, HostSelect
  PROVE  Inv'
  <1>0. PICK r \in Places : Heading(r)
    BY DEF Inv
  <1>1. /\ Do({"host"}) /\ plan' = Tail(plan) /\ proc' = proc /\ root' = Now.w
        /\ UNCHANGED <<disk, ids, saved>> /\ Op' = Op /\ Ahead(plan)' = Ahead(Tail(plan))
    BY DEF HostSelect, files, Op, Ahead
  <1>2. /\ Now \in Steps /\ Now.task = "host" /\ Op.call = "none" /\ Op.pc = "idle" /\ lock = "none"
        /\ Tail(plan) \in Seq(Steps) /\ Ahead(plan) = {Now} \cup Ahead(Tail(plan))
        /\ UNCHANGED <<lock, pending, waiting, synced, stopped, held, closing, setup, slot, open, conns, asked>>
        /\ Ordered(Tail(plan)) /\ \A t \in Ahead(Tail(plan)) : Stage(Now.task) < Stage(t.task)
        /\ \A v : ~Leaving(v)
    BY <1>0, <1>1, AtHand DEF Heading
  <1>3. Now.w = r /\ r \in Roots /\ \A t \in Ahead(Tail(plan)) : Stage(t.task) > 3
    BY <1>0, <1>2 DEF Heading, Course, Turns, To, Stage, Steps
  <1>4. Course(r)'
    BY <1>0, <1>1, <1>2, <1>3 DEF Heading, Course, Leaving, Stops, To, Turns, Stage
  <1>5. WillSync(r)' <=> WillSync(r)
    BY <1>1, <1>2 DEF WillSync, Plans, Leaving, Stops
  <1>6. ~Plans("rename") /\ ~Plans("rename")'
    BY <1>1, <1>2, <1>3 DEF Plans, Stage
  <1>7. \A t \in Ahead(plan) : t.task \in Notes => t \in Ahead(Tail(plan))
    BY <1>2 DEF Notes
  <1>8. Smooth(r) => Smooth(r)'
    BY <1>1, <1>2, <1>3, <1>5, <1>6, <1>7, OpFacts DEF Smooth, Stops, Owed
  <1>9. Exact(r) => Exact(r)'
    BY <1>1, <1>2, <1>5, <1>6, <1>7 DEF Exact, Roots, Restored
  <1>10. Kept(r) => Kept(r)'
    <2>1. \A v : Moving(v)' <=> Moving(v)
      BY <1>1, <1>2, <1>6 DEF Moving
    <2> QED
      BY <1>1, <1>2, <1>5, <1>6, <2>1 DEF Kept, Roots, Releases, Owed
  <1>11. Heading(r)'
    BY <1>0, <1>1, <1>2, <1>4, <1>8, <1>9, <1>10 DEF Heading, Slow, Without, Orderly
  <1> QED
    BY <1>0, <1>1, <1>2, <1>3, <1>11, OpFacts, StepsOfPlans DEF Typed, Places

LEMMA ForgetKeeps ==
  ASSUME Inv, Forget
  PROVE  Inv'
  <1>0. PICK r \in Places : Heading(r)
    BY DEF Inv
  <1>1. /\ Do({"forget"}) /\ plan' = Tail(plan) /\ proc' = proc /\ root' = NoRoot
        /\ saved' = [root |-> NoRoot, sync |-> FALSE]
        /\ UNCHANGED <<disk, ids>> /\ Op' = Op /\ Ahead(plan)' = Ahead(Tail(plan))
    BY DEF Forget, files, Op, Ahead
  <1>2. /\ Now \in Steps /\ Now.task = "forget" /\ Op.call = "none" /\ Op.pc = "idle" /\ lock = "none"
        /\ Tail(plan) \in Seq(Steps) /\ Ahead(plan) = {Now} \cup Ahead(Tail(plan))
        /\ UNCHANGED <<lock, pending, waiting, synced, stopped, held, closing, setup, slot, open, conns, asked>>
        /\ Ordered(Tail(plan)) /\ \A t \in Ahead(Tail(plan)) : Stage(Now.task) < Stage(t.task)
        /\ \A v : ~Leaving(v)
    BY <1>0, <1>1, AtHand DEF Heading
  <1>3. r = NoRoot /\ r \notin Roots /\ \A t \in Ahead(Tail(plan)) : t.task = "delete"
    <2>1. r = NoRoot /\ r \notin Roots /\ \A t \in Ahead(Tail(plan)) : Stage(t.task) > 6
      BY <1>0, <1>2, OpFacts DEF Heading, Course, Turns, To, Stage
    <2> QED
      BY <2>1 DEF Stage
  <1>4. Course(r)'
    BY <1>0, <1>1, <1>2, <1>3 DEF Heading, Course, Leaving, Stops, To, Turns, Stage
  <1>5. ~WillSync(r)' /\ ~WillSync(r)
    BY <1>1, <1>2, <1>3, OpFacts DEF WillSync, Plans, Leaving, Stops, Typed
  <1>6. ~Plans("rename") /\ ~Plans("rename")'
    BY <1>1, <1>2, <1>3 DEF Plans
  <1>8. Smooth(r) => Smooth(r)'
    BY <1>1, <1>2, <1>3, <1>5, <1>6, OpFacts DEF Smooth, Stops, Notes, Owed
  <1>9. Exact(r)'
    BY <1>1, <1>2, <1>3, <1>5, <1>6, OpFacts DEF Exact, Roots, Notes, Restored
  <1>10. Kept(r) => Kept(r)'
    <2>1. \A v : Moving(v)' <=> Moving(v)
      BY <1>1, <1>2, <1>6 DEF Moving
    <2> QED
      BY <1>1, <1>2, <1>3, <1>5, <1>6, <2>1 DEF Kept, Roots, Releases, Owed
  <1>11. Heading(r)'
    BY <1>0, <1>1, <1>2, <1>4, <1>8, <1>9, <1>10 DEF Heading, Slow, Without, Orderly
  <1> QED
    BY <1>0, <1>1, <1>2, <1>3, <1>11, OpFacts, StepsOfPlans DEF Typed, Places

LEMMA RememberKeeps ==
  ASSUME Inv, Remember
  PROVE  Inv'
  <1>0. PICK r \in Places : Heading(r)
    BY DEF Inv
  <1>1. /\ Do({"remember", "enabled", "disabled"}) /\ plan' = Tail(plan) /\ proc' = proc
        /\ saved' \in {saved, [root |-> Now.w, sync |-> Now.sync]}
        /\ Op.res = "ok" => saved' = [root |-> Now.w, sync |-> Now.sync]
        /\ UNCHANGED <<disk, ids, root>> /\ Op' = Op /\ Ahead(plan)' = Ahead(Tail(plan))
    BY DEF Remember, files, Op, Ahead
  <1>2. /\ Now \in Steps /\ Now.task \in {"remember", "enabled", "disabled"} /\ Op.call = "none" /\ Op.pc = "idle" /\ lock = "none"
        /\ Tail(plan) \in Seq(Steps) /\ Ahead(plan) = {Now} \cup Ahead(Tail(plan))
        /\ UNCHANGED <<lock, pending, waiting, synced, stopped, held, closing, setup, slot, open, conns, asked>>
        /\ Ordered(Tail(plan)) /\ \A t \in Ahead(Tail(plan)) : Stage(Now.task) < Stage(t.task)
        /\ \A v : ~Leaving(v)
    BY <1>0, <1>1, AtHand DEF Heading
  <1>3. Now.w = r /\ r \in Roots /\ Now.sync \in BOOLEAN
        /\ \A t \in Ahead(Tail(plan)) : t.task = "delete"
    <2>1. Now.w = r /\ r \in Roots /\ Now.sync \in BOOLEAN /\ \A t \in Ahead(Tail(plan)) : Stage(t.task) > 6
      BY <1>0, <1>2 DEF Heading, Course, Stage, Steps
    <2> QED
      BY <2>1 DEF Stage
  <1>4. Course(r)'
    BY <1>0, <1>1, <1>2, <1>3 DEF Heading, Course, Leaving, Stops, Turns, Stage
  <1>5. WillSync(r)' <=> WillSync(r)
    BY <1>1, <1>2, <1>3 DEF WillSync, Plans, Leaving, Stops
  <1>6. ~Plans("rename") /\ ~Plans("rename")'
    BY <1>1, <1>2, <1>3 DEF Plans
  <1>8. Smooth(r) => Smooth(r)'
    BY <1>1, <1>2, <1>3, <1>5, <1>6, OpFacts DEF Smooth, Stops, Notes, Said, Owed
  <1>9. Smooth(r) /\ Exact(r) => Exact(r)'
    BY <1>1, <1>2, <1>3, <1>5, <1>6, OpFacts DEF Smooth, Exact, Roots, Notes, Said, Owed, Restored
  <1>10. Kept(r) => Kept(r)'
    <2>1. \A v : Moving(v)' <=> Moving(v)
      BY <1>1, <1>2, <1>6 DEF Moving
    <2> QED
      BY <1>1, <1>2, <1>3, <1>5, <1>6, <2>1 DEF Kept, Roots, Releases, Owed
  <1>11. Heading(r)'
    BY <1>0, <1>1, <1>2, <1>4, <1>8, <1>9, <1>10 DEF Heading, Slow, Without, Orderly
  <1> QED
    BY <1>0, <1>1, <1>2, <1>3, <1>11, OpFacts, StepsOfPlans DEF Typed, Places

LEMMA RenameKeeps ==
  ASSUME Inv, Rename
  PROVE  Inv'
  <1>0. PICK r \in Places : Heading(r)
    BY DEF Inv
  <1>1. /\ Do({"rename"}) /\ plan' = Tail(plan) /\ proc' = proc /\ root' = Now.w
        /\ disk' = (disk \ {root}) \cup {Now.w}
        /\ ids' = (ids \ {root}) \cup (IF root \in ids THEN {Now.w} ELSE {})
        /\ UNCHANGED saved /\ Op' = Op /\ Ahead(plan)' = Ahead(Tail(plan))
    BY DEF Rename, Op, Ahead
  <1>2. /\ Now \in Steps /\ Now.task = "rename" /\ Op.call = "none" /\ Op.pc = "idle" /\ lock = "none"
        /\ Tail(plan) \in Seq(Steps) /\ Ahead(plan) = {Now} \cup Ahead(Tail(plan))
        /\ UNCHANGED <<lock, pending, waiting, synced, stopped, held, closing, setup, slot, open, conns, asked>>
        /\ Ordered(Tail(plan)) /\ \A t \in Ahead(Tail(plan)) : Stage(Now.task) < Stage(t.task)
        /\ \A v : ~Leaving(v)
    BY <1>0, <1>1, AtHand DEF Heading
  <1>3. Now.w = r /\ r \in Roots /\ \A t \in Ahead(Tail(plan)) : Stage(t.task) > 3
    BY <1>0, <1>2 DEF Heading, Course, Turns, To, Stage, Steps
  <1>4. Course(r)'
    BY <1>0, <1>1, <1>2, <1>3 DEF Heading, Course, Leaving, Stops, To, Turns, Stage
  <1>5. WillSync(r)' <=> WillSync(r)
    BY <1>1, <1>2 DEF WillSync, Plans, Leaving, Stops
  <1>6. Plans("rename") /\ ~Plans("rename")'
    BY <1>1, <1>2, <1>3 DEF Plans, Stage
  <1>7. \A t \in Ahead(plan) : t.task \in Notes => t \in Ahead(Tail(plan))
    BY <1>2 DEF Notes
  <1>8. Smooth(r) => Smooth(r)'
    <2> SUFFICES ASSUME Smooth(r) PROVE Smooth(r)'
      OBVIOUS
    <2>1. root \notin synced
      <3>1. \A t \in Ahead(plan) : t.task \notin Stops
        BY <1>2, <1>3, <1>6 DEF Smooth, Plans, Stage, Stops, Owed
      <3> QED
        BY <1>0, <1>2, <1>6, <3>1 DEF Heading, Course, Smooth, Owed
    <2> QED
      BY <1>1, <1>2, <1>3, <1>5, <1>6, <1>7, <2>1, OpFacts DEF Smooth, Stops, Owed
  <1>9. Smooth(r) /\ Exact(r) => Exact(r)'
    BY <1>1, <1>2, <1>3, <1>5, <1>6, <1>7, OpFacts DEF Smooth, Exact, Roots, Owed, Restored
  <1>10. Smooth(r) /\ Kept(r) => Kept(r)'
    BY <1>1, <1>2, <1>3, <1>5, <1>6, OpFacts DEF Smooth, Kept, Roots, Releases, Moving, Stage, Owed
  <1>11. Heading(r)'
    BY <1>0, <1>1, <1>2, <1>4, <1>8, <1>9, <1>10 DEF Heading, Slow, Without, Orderly
  <1> QED
    BY <1>0, <1>1, <1>2, <1>3, <1>11, OpFacts, StepsOfPlans DEF Typed, Places

LEMMA DeleteFolderKeeps ==
  ASSUME Inv, DeleteFolder
  PROVE  Inv'
  <1>0. PICK r \in Places : Heading(r)
    BY DEF Inv
  <1>1. /\ Do({"delete"}) /\ plan' = Tail(plan) /\ proc' = proc
        /\ disk' = disk \ {Now.w} /\ ids' = ids \ {Now.w}
        /\ UNCHANGED <<root, saved>> /\ Op' = Op /\ Ahead(plan)' = Ahead(Tail(plan))
    BY DEF DeleteFolder, Op, Ahead
  <1>2. /\ Now \in Steps /\ Now.task = "delete" /\ Op.call = "none" /\ Op.pc = "idle" /\ lock = "none"
        /\ Tail(plan) \in Seq(Steps) /\ Ahead(plan) = {Now} \cup Ahead(Tail(plan))
        /\ UNCHANGED <<lock, pending, waiting, synced, stopped, held, closing, setup, slot, open, conns, asked>>
        /\ Ordered(Tail(plan)) /\ \A t \in Ahead(Tail(plan)) : Stage(Now.task) < Stage(t.task)
        /\ \A v : ~Leaving(v)
    BY <1>0, <1>1, AtHand DEF Heading
  <1>3. Now.w \in Roots /\ r = NoRoot /\ r \notin Roots /\ Ahead(Tail(plan)) = {}
    <2>1. Now.w \in Roots /\ r = NoRoot /\ r \notin Roots /\ \A t \in Ahead(Tail(plan)) : Stage(t.task) > 7
      BY <1>0, <1>2, OpFacts DEF Heading, Course, Stage, Steps
    <2> QED
      BY <2>1 DEF Stage
  <1>4. Course(r)'
    BY <1>0, <1>1, <1>2, <1>3 DEF Heading, Course, Leaving, Stops, To, Turns, Stage
  <1>5. ~WillSync(r)' /\ ~WillSync(r)
    BY <1>1, <1>2, <1>3, OpFacts DEF WillSync, Plans, Leaving, Stops, Typed
  <1>6. ~Plans("rename") /\ ~Plans("rename")' /\ root = NoRoot
    BY <1>0, <1>1, <1>2, <1>3 DEF Plans, Heading, Course, Turns
  <1>7. Now.w \notin synced
    BY <1>0, <1>2, <1>3 DEF Heading, Course, Stops
  <1>8. Smooth(r) => Smooth(r)'
    BY <1>1, <1>2, <1>3, <1>5, <1>6, <1>7, OpFacts DEF Smooth, Stops, Notes, Owed
  <1>9. Smooth(r) /\ Exact(r) => Exact(r)'
    BY <1>1, <1>2, <1>3, <1>5, <1>6, OpFacts DEF Smooth, Exact, Roots, Notes, Owed, Restored
  <1>10. Kept(r) => Kept(r)'
    <2>1. Kept(r) => Now.w \notin held
      <3>1. Moving(Now.w) /\ ~Releases(Now.w) /\ \A t \in Ahead(plan) : t.task # "release"
        BY <1>2, <1>3 DEF Moving, Releases
      <3> QED
        BY <3>1 DEF Kept, Owed
    <2> QED
      BY <1>1, <1>2, <1>3, <1>5, <1>6, <2>1 DEF Kept, Roots, Releases, Moving, Owed
  <1>11. Heading(r)'
    BY <1>0, <1>1, <1>2, <1>4, <1>8, <1>9, <1>10 DEF Heading, Slow, Without, Orderly
  <1> QED
    BY <1>0, <1>1, <1>2, <1>3, <1>11, OpFacts, StepsOfPlans DEF Typed, Places

LEMMA ReleasedKeeps ==
  ASSUME Inv, Released
  PROVE  Inv'
  <1>0. PICK r \in Places : Heading(r)
    BY DEF Inv
  <1>1. /\ Do({"released"}) /\ proc' = proc /\ UNCHANGED <<disk, ids, root, saved>> /\ Op' = Op
        /\ plan' = IF Op.res = "ok" THEN Tail(plan) ELSE <<Task("enable", Now.w, TRUE)>>
    BY DEF Released, Op, files
  <1>2. /\ Now \in Steps /\ Now.task = "released" /\ Op.call = "none" /\ Op.pc = "idle" /\ lock = "none"
        /\ Tail(plan) \in Seq(Steps) /\ Ahead(plan) = {Now} \cup Ahead(Tail(plan))
        /\ UNCHANGED <<lock, pending, waiting, synced, stopped, held, closing, setup, slot, open, conns, asked>>
        /\ Ordered(Tail(plan)) /\ \A t \in Ahead(Tail(plan)) : Stage(Now.task) < Stage(t.task)
        /\ \A v : ~Leaving(v)
    BY <1>0, <1>1, AtHand DEF Heading
  <1>3. CASE Op.res = "ok"
    <2>1. plan' = Tail(plan) /\ Ahead(plan)' = Ahead(Tail(plan))
      BY <1>1, <1>3 DEF Ahead
    <2>2. Course(r)'
      BY <1>0, <1>1, <1>2, <2>1 DEF Heading, Course, Leaving, Stops, To, Turns
    <2>3. WillSync(r)' <=> WillSync(r)
      BY <1>1, <1>2, <2>1 DEF WillSync, Plans, Leaving, Stops
    <2>4. Plans("rename")' <=> Plans("rename")
      BY <1>1, <1>2, <2>1 DEF Plans
    <2>5. \A t \in Ahead(plan) : t.task \in Notes => t \in Ahead(Tail(plan))
      BY <1>2 DEF Notes
    <2>6. Smooth(r) => Smooth(r)'
      <3>1. Plans("disable")' => Plans("disable")
        BY <1>2, <2>1 DEF Plans
      <3> QED
        BY <1>1, <1>2, <2>1, <2>3, <2>4, <2>5, <3>1 DEF Smooth, Stops, Owed
    <2>7. Exact(r) => Exact(r)'
      BY <1>1, <1>2, <2>1, <2>3, <2>4, <2>5 DEF Exact, Roots, Restored
    <2>8. Kept(r) => Kept(r)'
      <3>1. \A v : Moving(v)' <=> Moving(v)
        BY <1>1, <1>2, <2>1, <2>4 DEF Moving
      <3> QED
        BY <1>1, <1>2, <2>1, <2>3, <2>4, <3>1 DEF Kept, Roots, Releases, Owed
    <2>9. Heading(r)'
      BY <1>0, <1>1, <1>2, <2>2, <2>6, <2>7, <2>8 DEF Heading, Slow, Without, Orderly
    <2> QED
      BY <1>0, <1>1, <1>2, <2>1, <2>9, OpFacts, StepsOfPlans DEF Typed, Places
  <1>4. CASE Op.res # "ok"
    <2> DEFINE t == Task("enable", Now.w, TRUE)
    <2>1. Slow # {}
      BY <1>0, <1>4 DEF Heading, Smooth, Owed
    <2>2. t \in Steps /\ t.task = "enable" /\ t.w = Now.w /\ Now.w = root /\ synced \subseteq {root}
      BY <1>0, <1>2 DEF Task, Steps, TaskNames, Heading, Course
    <2> HIDE DEF t
    <2>3. plan' = <<t>> /\ plan' \in Seq(Steps) /\ Ahead(plan)' = {t} /\ Ordered(plan')
      <3>1. plan' = <<t>>
        BY <1>1, <1>4 DEF t
      <3> QED
        BY <2>2, <3>1, OneTask DEF Ahead
    <2>4. Course(root)'
      BY <1>1, <1>2, <2>2, <2>3 DEF Course, Leaving, Stops, Turns
    <2>5. Typed' /\ Wired' /\ Phased' /\ root' \in Places'
      BY <1>1, <1>2, <2>3, OpFacts
      DEF Typed, Wired, Phased, Places, Roots, Steps, Calls, Op, BridgeStays, Requests
    <2>6. Queued'
      BY <1>1, AtHand DEF Queued, Orderly
    <2> QED
      BY <1>1, <1>2, <2>1, <2>4, <2>5, <2>6 DEF Inv, Heading, Slow
  <1> QED
    BY <1>3, <1>4
-----------------------------------------------------------------------------
\* The operations.

\* Plans of the stages from a to b.
Within(q, a, b) ==
  /\ q \in Seq(Steps) /\ Ordered(q) /\ a <= b
  /\ \A t \in Ahead(q) : a <= Stage(t.task) /\ Stage(t.task) <= b

LEMMA Join ==
  ASSUME NEW s, NEW t, NEW a \in Nat, NEW b \in Nat, NEW c \in Nat, NEW d \in Nat,
         Within(s, a, b), Within(t, c, d), b < c
  PROVE  Within(s \o t, a, d) /\ Ahead(s \o t) = Ahead(s) \cup Ahead(t)
  <1>1. \A x \in Ahead(s), y \in Ahead(t) : Stage(x.task) < Stage(y.task)
    <2> SUFFICES ASSUME NEW x \in Ahead(s), NEW y \in Ahead(t) PROVE Stage(x.task) < Stage(y.task)
      OBVIOUS
    <2>1. Stage(x.task) \in Nat /\ Stage(y.task) \in Nat
      BY DEF Stage
    <2> QED
      BY <2>1 DEF Within
  <1>2. /\ s \o t \in Seq(Steps) /\ Ahead(s \o t) = Ahead(s) \cup Ahead(t) /\ Ordered(s \o t)
    BY <1>1, Pieces DEF Within
  <1>3. ASSUME NEW x \in Ahead(s) \cup Ahead(t) PROVE a <= Stage(x.task) /\ Stage(x.task) <= d
    <2>1. Stage(x.task) \in Nat
      BY DEF Stage
    <2> QED
      BY <1>3, <2>1 DEF Within
  <1> QED
    BY <1>2, <1>3 DEF Within

LEMMA Single ==
  ASSUME NEW t \in Steps
  PROVE  Within(<<t>>, Stage(t.task), Stage(t.task)) /\ Ahead(<<t>>) = {t}
  <1>1. Stage(t.task) \in Nat
    BY DEF Stage
  <1> QED
    BY <1>1, OneTask DEF Within

LEMMA Nothing ==
  ASSUME NEW a \in Nat, NEW b \in Nat, a <= b
  PROVE  Within(<<>>, a, b) /\ Ahead(<<>>) = {}
  BY NoTask DEF Within

\* Nothing is going on: what is current is what syncs.
LEMMA AtRest ==
  ASSUME Inv, plan = <<>>, proc["op"].pc = "idle"
  PROVE  /\ Op.call = "none" /\ Op.pc = "idle" /\ lock = "none" /\ synced \subseteq {root} /\ Heading(root)
         /\ Ahead(plan) = {} /\ (WillSync(root) <=> root \in synced) /\ (root = NoRoot => synced = {})
         /\ root \in Places /\ NoRoot \notin Roots
  <1>0. PICK r \in Places : Heading(r)
    BY DEF Inv
  <1>1. Ahead(plan) = {} /\ Op.call = "none" /\ Op.pc = "idle" /\ lock = "none"
    BY NoTask, OpFacts DEF Phased, Wired, Op, Stops
  <1>2. r = root /\ synced \subseteq {root}
    BY <1>0, <1>1 DEF Heading, Course, Leaving, Stops
  <1>3. WillSync(root) <=> root \in synced
    BY <1>1 DEF WillSync, Plans, Leaving, Stops
  <1> QED
    BY <1>0, <1>1, <1>2, <1>3, OpFacts DEF Typed

LEMMA Begins ==
  ASSUME Inv, plan' \in Seq(Steps), disk' \subseteq Roots, ids' \subseteq Roots,
         UNCHANGED <<setup, root, saved, proc, lock, pending, waiting, synced, slot, open, conns>>,
         asked' \subseteq asked, Orderly => asked' = {},
         NEW r \in Places, Heading(r)'
  PROVE  Inv'
  <1>1. Typed' /\ Wired' /\ Phased' /\ r \in Places'
    BY OpFacts DEF Typed, Wired, Phased, Places, Roots, Steps, Calls, Op, BridgeStays, Requests
  <1>2. Queued'
    BY DEF Queued, Orderly
  <1> QED
    BY <1>1, <1>2 DEF Inv

LEMMA TaskFacts ==
  ASSUME NEW name \in TaskNames, NEW w \in Roots, NEW sync \in BOOLEAN
  PROVE  LET t == Task(name, w, sync)
         IN  t \in Steps /\ t.task = name /\ t.w = w /\ t.sync = sync
  BY DEF Task, Steps

LEMMA StageNumbers ==
  /\ Stage("release") = 1 /\ Stage("released") = 2 /\ Stage("host") = 3 /\ Stage("rename") = 3
  /\ Stage("disable") = 4 /\ Stage("enable") = 5 /\ Stage("remember") = 6 /\ Stage("enabled") = 6
  /\ Stage("disabled") = 6 /\ Stage("forget") = 6 /\ Stage("delete") = 7
  /\ TaskNames = {"host", "rename", "forget", "remember", "enabled", "disabled", "disable", "release",
                  "released", "enable", "delete"}
  BY DEF Stage, TaskNames, Turns, Notes, Stops

LEMMA Lone ==
  ASSUME NEW name \in TaskNames, NEW w \in Roots, NEW sync \in BOOLEAN
  PROVE  /\ Within(<<Task(name, w, sync)>>, Stage(name), Stage(name))
         /\ Ahead(<<Task(name, w, sync)>>) = {Task(name, w, sync)}
  <1>1. PICK t : t = Task(name, w, sync)
    OBVIOUS
  <1>2. t \in Steps /\ t.task = name
    BY <1>1, TaskFacts
  <1> QED
    BY <1>1, <1>2, Single

\* The plans' single steps, each at its stage.
LEMMA LoneSteps ==
  ASSUME NEW w \in Roots, NEW sync \in BOOLEAN
  PROVE  LET In(name, n) == LET q == <<Task(name, w, sync)>>
                            IN  Within(q, n, n) /\ Ahead(q) = {Task(name, w, sync)}
         IN  In("host", 3) /\ In("rename", 3) /\ In("disable", 4) /\ In("enable", 5) /\ In("remember", 6)
  <1>1. "host" \in TaskNames /\ Stage("host") = 3
    BY StageNumbers
  <1>2. "rename" \in TaskNames /\ Stage("rename") = 3
    BY StageNumbers
  <1>3. "disable" \in TaskNames /\ Stage("disable") = 4
    BY StageNumbers
  <1>4. "enable" \in TaskNames /\ Stage("enable") = 5
    BY StageNumbers
  <1>5. "remember" \in TaskNames /\ Stage("remember") = 6
    BY StageNumbers
  <1> DEFINE In(name, n) == LET q == <<Task(name, w, sync)>>
                            IN  Within(q, n, n) /\ Ahead(q) = {Task(name, w, sync)}
  <1>6. \A name \in TaskNames : In(name, Stage(name))
    BY Lone
  <1> HIDE DEF In
  <1>7. In("host", 3) /\ In("rename", 3) /\ In("disable", 4) /\ In("enable", 5) /\ In("remember", 6)
    BY <1>1, <1>2, <1>3, <1>4, <1>5, <1>6
  <1> QED
    BY <1>7 DEF In

SelectSteps(w, sync) ==
  <<Task("host", w, sync)>> \o StopPrevious(w)
    \o (IF sync THEN <<Task("enable", w, TRUE)>> ELSE <<>>) \o <<Task("remember", w, sync)>>

LEMMA SelectPlan ==
  ASSUME Typed, NEW w \in Roots, NEW sync \in BOOLEAN
  PROVE  LET q == SelectSteps(w, sync)
             d == Task("disable", root, FALSE)
         IN  /\ Within(q, 3, 6)
             /\ Ahead(q) = (({Task("host", w, sync)} \cup (IF root \in Roots \ {w} THEN {d} ELSE {}))
                            \cup (IF sync THEN {Task("enable", w, TRUE)} ELSE {}))
                           \cup {Task("remember", w, sync)}
  <1> DEFINE h == Task("host", w, sync)
             d == Task("disable", root, FALSE)
             e == Task("enable", w, TRUE)
             m == Task("remember", w, sync)
             E == IF sync THEN <<e>> ELSE <<>>
  <1>1. /\ Within(<<h>>, 3, 3) /\ Ahead(<<h>>) = {h}
        /\ Within(<<e>>, 5, 5) /\ Ahead(<<e>>) = {e}
        /\ Within(<<m>>, 6, 6) /\ Ahead(<<m>>) = {m}
    BY LoneSteps
  <1>2. Within(StopPrevious(w), 4, 4) /\ Ahead(StopPrevious(w)) = IF root \in Roots \ {w} THEN {d} ELSE {}
    <2>1. CASE root \in Roots \ {w}
      BY <2>1, LoneSteps DEF StopPrevious
    <2>2. CASE root \notin Roots \ {w}
      <3>1. Within(<<>>, 4, 4) /\ Ahead(<<>>) = {}
        BY Nothing
      <3> QED
        BY <2>2, <3>1 DEF StopPrevious
    <2> QED
      BY <2>1, <2>2
  <1>3. Within(E, 5, 5) /\ Ahead(E) = IF sync THEN {e} ELSE {}
    <2>1. Within(<<>>, 5, 5) /\ Ahead(<<>>) = {}
      BY Nothing
    <2> QED
      BY <1>1, <2>1
  <1> HIDE DEF h, d, e, m, E
  <1>4. Within(<<h>> \o StopPrevious(w), 3, 4)
        /\ Ahead(<<h>> \o StopPrevious(w)) = {h} \cup (IF root \in Roots \ {w} THEN {d} ELSE {})
    BY <1>1, <1>2, Join
  <1>5. Within((<<h>> \o StopPrevious(w)) \o E, 3, 5)
        /\ Ahead((<<h>> \o StopPrevious(w)) \o E)
             = ({h} \cup (IF root \in Roots \ {w} THEN {d} ELSE {})) \cup (IF sync THEN {e} ELSE {})
    BY <1>3, <1>4, Join
  <1>6. Within(((<<h>> \o StopPrevious(w)) \o E) \o <<m>>, 3, 6)
        /\ Ahead(((<<h>> \o StopPrevious(w)) \o E) \o <<m>>)
             = (({h} \cup (IF root \in Roots \ {w} THEN {d} ELSE {})) \cup (IF sync THEN {e} ELSE {})) \cup {m}
    BY <1>1, <1>5, Join
  <1> QED
    BY <1>6 DEF SelectSteps, h, d, e, m, E

\* What every operation leaves alone when it begins.
Begun(q) ==
  /\ plan = <<>> /\ proc["op"].pc = "idle" /\ plan' = q
  /\ UNCHANGED <<setup, disk, ids, root, saved, proc, lock, pending, waiting, synced, slot, open, conns,
                 stopped, held, closing>>
  /\ asked' \subseteq asked /\ \A x \in asked \ asked' : x.op # "restore"
  /\ Orderly => asked' = {}

\* An operation that asked for nothing before.
LEMMA StartsNow ==
  ASSUME NEW name, NEW q, Start(name, q), UNCHANGED <<disk, ids>>
  PROVE  Begun(q) /\ (Orderly => asked = {}) /\ name \in Setups[setup].operations
  BY DEF Start, May, Free, Begun, bridge, stores

\* A request that has its turn.
LEMMA TurnOf ==
  ASSUME Inv, NEW q \in asked, NEW steps, Turn(q, steps)
  PROVE  /\ plan = <<>> /\ proc["op"].pc = "idle" /\ plan' = steps /\ asked' = asked \ {q}
         /\ UNCHANGED <<setup, disk, ids, root, saved, proc, lock, pending, waiting, synced, slot, open,
                        conns, stopped, held, closing>>
         /\ q.op # "restore" => Begun(steps)
         /\ (Orderly => asked' = {}) /\ q \in Requests
         /\ Orderly => (q.op = "select" => (q.sync <=> q.w \in ids))
  <1>1. /\ plan = <<>> /\ proc["op"].pc = "idle" /\ plan' = steps /\ asked' = asked \ {q}
        /\ UNCHANGED <<setup, disk, ids, root, saved, proc, lock, pending, waiting, synced, slot, open,
                        conns, stopped, held, closing>>
    BY DEF Turn, Free, bridge, stores, files
  <1>2. (Orderly => asked' = {}) /\ (Orderly => (q.op = "select" => (q.sync <=> q.w \in ids)))
    BY <1>1 DEF Inv, Queued
  <1>3. q \in Requests
    BY DEF Inv, Typed
  <1> QED
    BY <1>1, <1>2, <1>3 DEF Begun

\* A plan of its own makes the heading.
LEMMA Headings ==
  ASSUME Inv, NEW q, Begun(q), NEW a \in Nat, NEW b \in Nat, Within(q, a, b), NEW r \in Places,
         \A t \in Ahead(q) :
           /\ t.task \in Turns => To(t) = r
           /\ t.task \in {"enable", "enabled", "disabled", "remember"} => t.w = r
           /\ t.task = "released" => t.w = root
           /\ t.task = "delete" => r = NoRoot,
         (\A t \in Ahead(q) : t.task \notin Turns) => root = r,
         root \in synced => root = r \/ \E t \in Ahead(q) : t.task \in Stops /\ t.w = root
  PROVE  /\ Course(r)' /\ q \in Seq(Steps) /\ Ahead(plan)' = Ahead(q) /\ Op' = Op
         /\ WillSync(r)' <=> \/ \E t \in Ahead(q) : t.task = "enable"
                             \/ r \in synced /\ \A t \in Ahead(q) : t.task \in Stops => t.w # r
         /\ \A name : Plans(name)' <=> \E t \in Ahead(q) : t.task = name
  <1>1. plan' = q /\ Ahead(plan)' = Ahead(q) /\ Op' = Op /\ Ordered(q) /\ q \in Seq(Steps)
    BY DEF Begun, Ahead, Op, Within
  <1>2. Op.call = "none" /\ Op.pc = "idle" /\ synced \subseteq {root} /\ \A v : ~Leaving(v)'
    BY <1>1, AtRest DEF Begun, Leaving, Stops
  <1>3. Course(r)'
    BY <1>1, <1>2 DEF Course, Begun
  <1>4. WillSync(r)' <=> \/ \E t \in Ahead(q) : t.task = "enable"
                         \/ r \in synced /\ \A t \in Ahead(q) : t.task \in Stops => t.w # r
    BY <1>1, <1>2 DEF WillSync, Plans, Begun
  <1> QED
    BY <1>1, <1>3, <1>4 DEF Plans

LEMMA SelectSyncs ==
  ASSUME Inv, NEW w \in Roots, w \in disk, NEW sync \in BOOLEAN, Begun(SelectSteps(w, sync)),
         Orderly /\ Without({"map", "disable_sync"}) => (sync <=> w \in ids)
  PROVE  Inv'
  <1> DEFINE q == SelectSteps(w, sync)
             h == Task("host", w, sync)
             d == Task("disable", root, FALSE)
             e == Task("enable", w, TRUE)
             m == Task("remember", w, sync)
  <1>1. Within(q, 3, 6) /\ Ahead(q) = (({h} \cup (IF root \in Roots \ {w} THEN {d} ELSE {}))
                                       \cup (IF sync THEN {e} ELSE {})) \cup {m}
    BY OpFacts, SelectPlan
  <1>2. /\ Op.call = "none" /\ Op.pc = "idle" /\ lock = "none" /\ synced \subseteq {root} /\ Heading(root)
        /\ Ahead(plan) = {} /\ (WillSync(root) <=> root \in synced) /\ (root = NoRoot => synced = {})
        /\ root \in Places /\ NoRoot \notin Roots
    BY AtRest DEF Begun
  <1>3. /\ h.task = "host" /\ h.w = w /\ e.task = "enable" /\ e.w = w
        /\ m.task = "remember" /\ m.w = w /\ m.sync = sync /\ d.task = "disable" /\ d.w = root
    BY DEF Task
  <1>4. Begun(q)
    OBVIOUS
  <1> HIDE DEF q, h, d, e, m
  <1>5. /\ Course(w)' /\ q \in Seq(Steps) /\ Ahead(plan)' = Ahead(q) /\ Op' = Op
        /\ WillSync(w)' <=> \/ \E t \in Ahead(q) : t.task = "enable"
                            \/ w \in synced /\ \A t \in Ahead(q) : t.task \in Stops => t.w # w
        /\ \A name : Plans(name)' <=> \E t \in Ahead(q) : t.task = name
    <2>1. w \in Places /\ (root \in synced => root \in Roots)
      BY OpFacts DEF Places, Typed
    <2> QED
      BY <1>1, <1>2, <1>3, <1>4, <2>1, Headings DEF Turns, To, Stops
  <1>6. ~Plans("rename")' /\ \A v : ~Moving(v)'
    BY <1>1, <1>3, <1>5 DEF Moving
  <1>7. sync => WillSync(w)'
    BY <1>1, <1>3, <1>5
  <1>8. Slow = {} /\ Smooth(root) => Smooth(w)'
    BY <1>1, <1>2, <1>3, <1>4, <1>5, <1>6, <1>7, OpFacts
    DEF Smooth, Begun, Stops, Notes, Said, Owed
  <1>9. Slow = {} /\ Smooth(root) /\ Exact(root) => Exact(w)'
    BY <1>1, <1>2, <1>3, <1>4, <1>5, <1>6, <1>7, OpFacts
    DEF Smooth, Exact, Begun, Notes, Said, Roots, Owed, Restored
  <1>10. Slow = {} /\ Smooth(root) /\ Kept(root) /\ (sync <=> w \in ids) => Kept(w)'
    BY <1>1, <1>2, <1>3, <1>4, <1>5, <1>6, <1>7, OpFacts
    DEF Smooth, Kept, Begun, Releases, Owed
  <1>11. Heading(w)'
    BY <1>2, <1>4, <1>5, <1>8, <1>9, <1>10 DEF Heading, Slow, Without, Begun, Orderly
  <1> QED
    BY <1>4, <1>5, <1>11, OpFacts, Begins DEF Begun, Typed, Places

\* A request that has its turn and changes nothing: its folder is gone, or no longer current.
LEMMA NothingKeeps ==
  ASSUME Inv, NEW q \in asked, Turn(q, <<>>), q.op = "restore" => root # q.w
  PROVE  Inv'
  <1>1. /\ plan = <<>> /\ proc["op"].pc = "idle" /\ plan' = plan /\ asked' = asked \ {q}
        /\ UNCHANGED <<setup, disk, ids, root, saved, proc, lock, pending, waiting, synced, slot, open,
                       conns, stopped, held, closing>>
        /\ (Orderly => asked' = {})
    BY TurnOf
  <1>2. Heading(root) /\ root \in Places /\ Ahead(plan) = {} /\ plan \in Seq(Steps)
    BY <1>1, AtRest, OpFacts DEF Typed
  <1>3. Ahead(plan)' = {} /\ Op' = Op
    BY <1>1, <1>2 DEF Ahead, Op
  <1>4. /\ \A name : ~Plans(name)' /\ ~Plans(name)
        /\ \A v : (Leaving(v)' <=> Leaving(v)) /\ (Releases(v)' <=> Releases(v)) /\ ~Moving(v)'
    BY <1>1, <1>2, <1>3 DEF Plans, Leaving, Releases, Moving
  <1>5. (WillSync(root)' <=> WillSync(root)) /\ (Owed(root) => Owed(root)')
    BY <1>1, <1>2, <1>3, <1>4 DEF WillSync, Owed
  <1>6. Course(root)'
    BY <1>1, <1>2, <1>3, <1>4 DEF Heading, Course
  <1>7. Smooth(root) => Smooth(root)'
    BY <1>1, <1>2, <1>3, <1>4, <1>5 DEF Smooth
  <1>8. Exact(root)'
    BY <1>1, <1>3, <1>4 DEF Exact
  <1>9. Kept(root) => Kept(root)'
    BY <1>1, <1>2, <1>3, <1>4, <1>5 DEF Kept, Roots
  <1>10. Heading(root)'
    BY <1>1, <1>2, <1>6, <1>7, <1>8, <1>9 DEF Heading, Slow, Without, Orderly
  <1> QED
    BY <1>1, <1>2, <1>10, OpFacts, Begins DEF Typed

LEMMA SelectKeeps ==
  ASSUME Inv, NEW q \in asked, Select(q)
  PROVE  Inv'
  <1>1. CASE q.w \notin disk
    BY <1>1, NothingKeeps DEF Select
  <1>2. CASE q.w \in disk
    <2>1. Turn(q, SelectSteps(q.w, q.sync)) /\ q.op = "select"
      BY <1>2 DEF Select, SelectSteps
    <2>2. /\ Begun(SelectSteps(q.w, q.sync)) /\ q.w \in Roots /\ q.sync \in BOOLEAN
          /\ Orderly => (q.sync <=> q.w \in ids)
      BY <2>1, TurnOf DEF Requests
    <2> QED
      BY <1>2, <2>2, SelectSyncs
  <1> QED
    BY <1>1, <1>2

\* The sync of the start begins.
LEMMA RestoresKeeps ==
  ASSUME Inv, NEW q \in asked, Restores(q)
  PROVE  Inv'
  <1>1. CASE root # q.w
    BY <1>1, NothingKeeps DEF Restores
  <1>2. CASE root = q.w
    <2> DEFINE t == Task("enable", root, TRUE)
    <2>1. Turn(q, <<t>>) /\ root \in Roots
      BY <1>2, TurnOf DEF Restores, Requests
    <2>2. /\ plan = <<>> /\ proc["op"].pc = "idle" /\ plan' = <<t>> /\ asked' = asked \ {q}
          /\ UNCHANGED <<setup, disk, ids, root, saved, proc, lock, pending, waiting, synced, slot, open,
                         conns, stopped, held, closing>>
          /\ (Orderly => asked' = {})
      BY <2>1, TurnOf
    <2>3. t \in Steps /\ t.task = "enable" /\ t.w = root
      BY <2>1 DEF Task, Steps, TaskNames
    <2> HIDE DEF t
    <2>4. plan' \in Seq(Steps) /\ Ahead(plan)' = {t} /\ Ordered(plan)' /\ Op' = Op
      BY <2>2, <2>3, OneTask DEF Ahead, Op, Ordered
    <2>5. /\ Op.call = "none" /\ Op.pc = "idle" /\ synced \subseteq {root} /\ Heading(root)
          /\ Ahead(plan) = {} /\ root \in Places
      BY <2>2, AtRest
    <2>6. /\ WillSync(root)' /\ ~Plans("rename")' /\ ~Plans("disable")' /\ \A v : ~Moving(v)'
      BY <2>3, <2>4 DEF WillSync, Plans, Moving
    <2>7. Course(root)'
      BY <2>2, <2>3, <2>4, <2>5 DEF Heading, Course, Turns, Stops
    <2>8. Smooth(root) => Smooth(root)'
      <3>1. ~Plans("rename")
        BY <2>5 DEF Plans
      <3> QED
        BY <2>2, <2>3, <2>4, <2>5, <2>6, <3>1 DEF Smooth, Notes, Stops
    <2>9. Exact(root)'
      BY <2>3, <2>4, <2>6 DEF Exact, Notes
    <2>10. Kept(root) => Kept(root)'
      BY <2>2, <2>3, <2>4, <2>5, <2>6 DEF Kept, Releases
    <2>11. Heading(root)'
      BY <2>2, <2>5, <2>7, <2>8, <2>9, <2>10 DEF Heading, Slow, Without, Orderly
    <2> QED
      BY <2>2, <2>4, <2>5, <2>11, OpFacts, Begins DEF Typed
  <1> QED
    BY <1>1, <1>2

\* A request is made: nothing that is under way minds.
LEMMA AskKeeps ==
  ASSUME Inv, NEW w \in Roots, AskSelect(w) \/ AskMap(w)
  PROVE  Inv'
  <1>0. PICK r \in Places : Heading(r)
    BY DEF Inv
  <1>1. PICK q \in Requests :
          /\ asked' = asked \cup {q} /\ q.op \in {"select", "map"} /\ q.w = w
          /\ ids' \in {ids, ids \cup {w}} /\ (Without({"map"}) => ids' = ids)
          /\ q.op = "select" => ids' = ids /\ (q.sync <=> w \in ids)
    <2>1. CASE AskSelect(w)
      <3> DEFINE q == Request("select", w, w \in ids)
      <3>1. /\ q.op = "select" /\ q.w = w /\ (q.sync <=> w \in ids)
            /\ q = [op |-> "select", w |-> w, sync |-> w \in ids]
        BY DEF Request
      <3>2. q \in Requests
        <4>1. "select" \in Setups[setup].operations
          BY <2>1 DEF AskSelect, Ask, May
        <4>2. \A b \in BOOLEAN : [op |-> "select", w |-> w, sync |-> b] \in Requests
          BY <4>1 DEF Requests
        <4>3. (w \in ids) = TRUE \/ (w \in ids) = FALSE
          BY SMT
        <4> QED
          BY <3>1, <4>2, <4>3
      <3>3. asked' = asked \cup {q} /\ ids' = ids
        BY <2>1 DEF AskSelect, Ask
      <3> HIDE DEF q
      <3> QED
        BY <3>1, <3>2, <3>3
    <2>2. CASE AskMap(w)
      <3> DEFINE q == Request("map", w, FALSE)
      <3>1. /\ q \in Requests /\ q.op = "map" /\ q.w = w /\ ~Without({"map"})
        BY <2>2 DEF AskMap, Ask, May, Requests, Request, Without
      <3>2. asked' = asked \cup {q} /\ ids' = ids \cup {w}
        BY <2>2 DEF AskMap, Ask
      <3> HIDE DEF q
      <3> QED
        BY <3>1, <3>2
    <2> QED
      BY <2>1, <2>2
  <1>2. /\ disk' = disk \cup {w} /\ \A t \in Ahead(plan) : t.task # "rename" \/ t.w # w
        /\ UNCHANGED <<setup, root, saved, plan, proc, lock, pending, waiting, synced, slot, open, conns,
                       stopped, held, closing>>
        /\ Orderly => asked = {} /\ plan = <<>> /\ Op.pc = "idle"
    <2>1. plan \in Seq(Steps)
      BY OpFacts DEF Typed
    <2>2. \E name, sync : Ask(name, w, sync)
      BY DEF AskSelect, AskMap
    <2>3. PICK name, sync : Ask(name, w, sync)
      BY <2>2
    <2>4. /\ disk' = disk \cup {w} /\ \A i \in DOMAIN plan : plan[i].task # "rename" \/ plan[i].w # w
          /\ UNCHANGED <<setup, root, saved, plan, proc, lock, pending, waiting, synced, slot, open, conns,
                         stopped, held, closing>>
          /\ Orderly => asked = {} /\ plan = <<>> /\ Op.pc = "idle"
      BY <2>3 DEF Ask, May, bridge, stores, Op
    <2> QED
      BY <2>1, <2>4 DEF Ahead
  <1>3. /\ Ahead(plan)' = Ahead(plan) /\ Op' = Op /\ Roots' = Roots
        /\ Restored' = Restored /\ (Owed(r)' <=> Owed(r))
    BY <1>1, <1>2 DEF Ahead, Op, Roots, Restored, Owed
  <1>4. /\ \A name : Plans(name)' <=> Plans(name)
        /\ \A v : (Leaving(v)' <=> Leaving(v)) /\ (Releases(v)' <=> Releases(v)) /\ (Moving(v)' <=> Moving(v))
        /\ WillSync(r)' <=> WillSync(r)
    BY <1>2, <1>3 DEF Plans, Leaving, Releases, Moving, WillSync
  <1>5. Course(r)'
    BY <1>0, <1>2, <1>3, <1>4 DEF Heading, Course
  <1>6. Smooth(r) => Smooth(r)'
    <2> SUFFICES ASSUME Smooth(r) PROVE Smooth(r)'
      OBVIOUS
    <2>1. Plans("rename") => r # w
      BY <1>0, <1>2 DEF Heading, Course, Plans, Turns, To
    <2> QED
      BY <1>1, <1>2, <1>3, <1>4, <2>1 DEF Smooth
  <1>7. Exact(r) => Exact(r)'
    BY <1>1, <1>2, <1>3, <1>4 DEF Exact
  <1>8. Kept(r) /\ ids' = ids => Kept(r)'
    BY <1>2, <1>3, <1>4 DEF Kept
  <1>9. Heading(r)'
    BY <1>0, <1>1, <1>2, <1>5, <1>6, <1>7, <1>8 DEF Heading, Slow, Without, Orderly
  <1>10. Typed' /\ Wired' /\ Phased' /\ r \in Places'
    BY <1>1, <1>2, <1>3, OpFacts
    DEF Typed, Wired, Phased, BridgeStays, Places, Roots, Steps, Calls, Requests
  <1>11. Queued'
    BY <1>1, <1>2, <1>3 DEF Queued, Orderly
  <1> QED
    BY <1>9, <1>10, <1>11 DEF Inv

LEMMA Two ==
  ASSUME NEW m \in TaskNames, NEW n \in TaskNames, NEW v \in Roots, NEW w \in Roots,
         NEW x \in BOOLEAN, NEW y \in BOOLEAN, Stage(m) < Stage(n)
  PROVE  /\ Within(<<Task(m, v, x), Task(n, w, y)>>, Stage(m), Stage(n))
         /\ Ahead(<<Task(m, v, x), Task(n, w, y)>>) = {Task(m, v, x), Task(n, w, y)}
  <1> DEFINE s == Task(m, v, x)
             t == Task(n, w, y)
  <1>1. /\ s \in Steps /\ t \in Steps /\ s.task = m /\ t.task = n
        /\ Stage(m) \in Nat /\ Stage(n) \in Nat
    BY TaskFacts DEF Stage
  <1> HIDE DEF s, t
  <1> DEFINE q == <<s, t>>
  <1>2. q \in Seq(Steps) /\ Len(q) = 2 /\ q[1] = s /\ q[2] = t
    BY <1>1
  <1> HIDE DEF q
  <1>3. Ahead(q) = {s, t}
    <2>1. s \in Ahead(q) /\ t \in Ahead(q)
      BY <1>2 DEF Ahead
    <2>2. ASSUME NEW u \in Ahead(q) PROVE u \in {s, t}
      BY <1>2, <2>2 DEF Ahead
    <2> QED
      BY <2>1, <2>2
  <1>4. Within(q, Stage(m), Stage(n))
    BY <1>1, <1>2, <1>3 DEF Within, Ordered
  <1> QED
    BY <1>3, <1>4 DEF q, s, t

\* Two tasks about the current workspace.
LEMMA TwoSteps ==
  ASSUME Inv, root # NoRoot, NEW m \in TaskNames, NEW n \in TaskNames,
         NEW x \in BOOLEAN, NEW y \in BOOLEAN, Stage(m) < Stage(n),
         Begun(<<Task(m, root, x), Task(n, root, y)>>),
         \/ m = "enable" /\ n = "enabled" /\ y = TRUE
         \/ m = "disable" /\ n = "disabled" /\ y = FALSE
         \/ m = "disable" /\ n = "forget"
  PROVE  \/ Inv'
         \/ m = "disable" /\ n = "disabled" /\ Without({"map", "disable_sync"}) /\ Slow = {}
  <1> DEFINE s == Task(m, root, x)
             t == Task(n, root, y)
             q == <<s, t>>
  <1>0. PICK r \in Places : r = IF n = "forget" THEN NoRoot ELSE root
    BY OpFacts DEF Typed, Places
  <1>1. root \in Roots
    BY OpFacts DEF Typed, Places
  <1>2. Within(q, Stage(m), Stage(n)) /\ Ahead(q) = {s, t} /\ Stage(m) \in Nat /\ Stage(n) \in Nat
    BY <1>0, <1>1, Two DEF Stage
  <1>3. /\ s.task = m /\ s.w = root /\ t.task = n /\ t.w = root /\ t.sync = y
    BY DEF Task
  <1>4. /\ Op.call = "none" /\ Op.pc = "idle" /\ lock = "none" /\ synced \subseteq {root} /\ Heading(root)
        /\ Ahead(plan) = {} /\ (WillSync(root) <=> root \in synced)
        /\ root \in Places /\ NoRoot \notin Roots
    BY AtRest DEF Begun
  <1>5. Begun(q)
    OBVIOUS
  <1> HIDE DEF q, s, t
  <1>6. /\ Course(r)' /\ q \in Seq(Steps) /\ Ahead(plan)' = Ahead(q) /\ Op' = Op
        /\ WillSync(r)' <=> \/ \E u \in Ahead(q) : u.task = "enable"
                            \/ r \in synced /\ \A u \in Ahead(q) : u.task \in Stops => u.w # r
        /\ \A name : Plans(name)' <=> \E u \in Ahead(q) : u.task = name
    BY <1>0, <1>2, <1>3, <1>4, <1>5, Headings DEF Turns, To, Stops
  <1>7. ~Plans("rename")' /\ \A v : ~Moving(v)'
    BY <1>2, <1>3, <1>6 DEF Moving
  <1>8. WillSync(r)' <=> m = "enable"
    BY <1>0, <1>1, <1>2, <1>3, <1>4, <1>6 DEF Stops
  <1>9. Slow = {} /\ Smooth(root) => Smooth(r)'
    BY <1>0, <1>1, <1>2, <1>3, <1>4, <1>5, <1>6, <1>7, <1>8
    DEF Smooth, Begun, Stops, Notes, Said, Owed
  <1>10. Slow = {} /\ Smooth(root) => Exact(r)'
    <2> SUFFICES ASSUME Slow = {}, Smooth(root) PROVE Exact(r)'
      OBVIOUS
    <2>1. saved'.root \notin Roots' \ disk'
      BY <1>4, <1>5 DEF Smooth, Begun, Roots
    <2> QED
      BY <1>7, <2>1 DEF Exact
  <1>11. Slow = {} /\ Smooth(root) /\ Kept(root) /\ n # "disabled" => Kept(r)'
    BY <1>0, <1>1, <1>2, <1>3, <1>4, <1>5, <1>6, <1>7, <1>8, OpFacts
    DEF Smooth, Kept, Begun, Releases, Typed, Owed
  <1>12. \/ Heading(r)'
         \/ m = "disable" /\ n = "disabled" /\ Without({"map", "disable_sync"}) /\ Slow = {}
    BY <1>4, <1>5, <1>6, <1>9, <1>10, <1>11 DEF Heading, Slow, Without, Begun, Orderly
  <1> QED
    BY <1>5, <1>6, <1>12, OpFacts, Begins DEF Begun, Typed

LEMMA SyncStepsKeep ==
  ASSUME Inv, EnableSync \/ MapEnables \/ DisableSync \/ Remove
  PROVE  Inv'
  <1>1. CASE EnableSync \/ MapEnables
    <2> DEFINE q == <<Task("enable", root, TRUE), Task("enabled", root, TRUE)>>
    <2>1. root # NoRoot /\ Begun(q)
      <3>1. CASE EnableSync
        <4>1. Start("enable_sync", q) /\ root # NoRoot /\ UNCHANGED <<disk, ids>>
          BY <3>1 DEF EnableSync, files
        <4> QED
          BY <4>1, StartsNow
      <3>2. CASE MapEnables
        BY <3>2 DEF MapEnables, Free, Begun, bridge, stores, files
      <3> QED
        BY <1>1, <3>1, <3>2
    <2>2. "enable" \in TaskNames /\ "enabled" \in TaskNames /\ Stage("enable") < Stage("enabled")
      BY StageNumbers
    <2> QED
      BY <2>1, <2>2, TwoSteps
  <1>2. CASE DisableSync
    <2> DEFINE q == <<Task("disable", root, FALSE), Task("disabled", root, FALSE)>>
    <2>1. Start("disable_sync", q) /\ root # NoRoot /\ UNCHANGED <<disk, ids>>
      BY <1>2 DEF DisableSync, files
    <2>2. Begun(q) /\ ~Without({"map", "disable_sync"})
      BY <2>1, StartsNow DEF Without
    <2>3. "disable" \in TaskNames /\ "disabled" \in TaskNames /\ Stage("disable") < Stage("disabled")
      BY StageNumbers
    <2> QED
      BY <2>1, <2>2, <2>3, TwoSteps
  <1>3. CASE Remove
    <2> DEFINE q == <<Task("disable", root, FALSE), Task("forget", root, FALSE)>>
    <2>1. Start("remove", q) /\ root # NoRoot /\ UNCHANGED <<disk, ids>>
      BY <1>3 DEF Remove, files
    <2>2. Begun(q)
      BY <2>1, StartsNow
    <2>3. "disable" \in TaskNames /\ "forget" \in TaskNames /\ Stage("disable") < Stage("forget")
      BY StageNumbers
    <2> QED
      BY <2>1, <2>2, <2>3, TwoSteps
  <1> QED
    BY <1>1, <1>2, <1>3

LEMMA MapSyncs ==
  ASSUME Inv, NEW w \in Roots, w \in disk, ~Without({"map"}),
         Begun(<<Task("host", w, FALSE)>> \o StopPrevious(w) \o <<Task("remember", w, FALSE)>>)
  PROVE  Inv'
  <1> DEFINE h == Task("host", w, FALSE)
             d == Task("disable", root, FALSE)
             m == Task("remember", w, FALSE)
             q == (<<h>> \o StopPrevious(w)) \o <<m>>
  <1>1. Begun(q) /\ ~Without({"map", "disable_sync"})
    BY DEF Without
  <1>2. Within(q, 3, 6) /\ Ahead(q) = ({h} \cup (IF root \in Roots \ {w} THEN {d} ELSE {})) \cup {m}
    <2>1. /\ Within(<<h>>, 3, 3) /\ Ahead(<<h>>) = {h}
          /\ Within(<<m>>, 6, 6) /\ Ahead(<<m>>) = {m}
      BY LoneSteps
    <2>2. /\ Within(StopPrevious(w), 4, 4)
          /\ Ahead(StopPrevious(w)) = IF root \in Roots \ {w} THEN {d} ELSE {}
      <3>1. CASE root \in Roots \ {w}
        BY <3>1, LoneSteps DEF StopPrevious
      <3>2. CASE root \notin Roots \ {w}
        <4>1. Within(<<>>, 4, 4) /\ Ahead(<<>>) = {}
          BY Nothing
        <4> QED
          BY <3>2, <4>1 DEF StopPrevious
      <3> QED
        BY <3>1, <3>2
    <2> HIDE DEF h, d, m
    <2>3. Within(<<h>> \o StopPrevious(w), 3, 4)
          /\ Ahead(<<h>> \o StopPrevious(w)) = {h} \cup (IF root \in Roots \ {w} THEN {d} ELSE {})
      BY <2>1, <2>2, Join
    <2> QED
      BY <2>1, <2>3, Join
  <1>3. /\ Op.call = "none" /\ Op.pc = "idle" /\ lock = "none" /\ synced \subseteq {root} /\ Heading(root)
        /\ Ahead(plan) = {} /\ root \in Places /\ NoRoot \notin Roots
    BY <1>1, AtRest DEF Begun
  <1>4. /\ h.task = "host" /\ h.w = w /\ m.task = "remember" /\ m.w = w /\ m.sync = FALSE
        /\ d.task = "disable" /\ d.w = root
    BY DEF Task
  <1> HIDE DEF q, h, d, m
  <1>5. /\ Course(w)' /\ q \in Seq(Steps) /\ Ahead(plan)' = Ahead(q) /\ Op' = Op
        /\ \A name : Plans(name)' <=> \E t \in Ahead(q) : t.task = name
    <2>1. w \in Places /\ (root \in synced => root \in Roots)
      BY OpFacts DEF Places, Typed
    <2> QED
      BY <1>1, <1>2, <1>3, <1>4, <2>1, Headings DEF Turns, To, Stops
  <1>6. ~Plans("rename")'
    BY <1>2, <1>4, <1>5
  <1>7. Slow = {} /\ Smooth(root) => Smooth(w)'
    BY <1>1, <1>2, <1>3, <1>4, <1>5, <1>6, OpFacts DEF Smooth, Begun, Stops, Notes, Said, Owed
  <1>8. Slow = {} /\ Smooth(root) => Exact(w)'
    <2> SUFFICES ASSUME Slow = {}, Smooth(root) PROVE Exact(w)'
      OBVIOUS
    <2>1. ~Plans("rename")
      BY <1>3 DEF Plans
    <2>2. saved'.root \notin Roots' \ disk'
      BY <1>1, <1>3, <2>1 DEF Smooth, Begun, Roots
    <2> QED
      BY <1>6, <2>2 DEF Exact
  <1>9. Heading(w)'
    BY <1>1, <1>3, <1>5, <1>7, <1>8 DEF Heading, Slow, Without, Begun, Orderly
  <1> QED
    BY <1>1, <1>5, <1>9, OpFacts, Begins DEF Begun, Typed, Places

LEMMA MapKeeps ==
  ASSUME Inv, NEW q \in asked, Map(q)
  PROVE  Inv'
  <1>1. CASE q.w \notin disk
    BY <1>1, NothingKeeps DEF Map
  <1>2. CASE q.w \in disk
    <2> DEFINE steps == <<Task("host", q.w, FALSE)>> \o StopPrevious(q.w) \o <<Task("remember", q.w, FALSE)>>
    <2>1. Turn(q, steps) /\ q.op = "map"
      BY <1>2 DEF Map
    <2>2. Begun(steps) /\ q.w \in Roots /\ ~Without({"map"})
      BY <2>1, TurnOf DEF Requests, Without
    <2> QED
      BY <1>2, <2>2, MapSyncs
  <1> QED
    BY <1>1, <1>2

RelocateSteps(to, sync) ==
  (IF sync THEN <<Task("release", root, FALSE), Task("released", root, TRUE)>> ELSE <<>>)
    \o <<Task("rename", to, sync)>> \o (IF sync THEN <<Task("enable", to, TRUE)>> ELSE <<>>)
    \o <<Task("remember", to, sync)>>

\* let_go of a workspace that syncs.
LEMMA FreeSteps ==
  ASSUME root \in Roots
  PROVE  LET q == <<Task("release", root, FALSE), Task("released", root, TRUE)>>
         IN  /\ Within(q, 1, 2)
             /\ Ahead(q) = {Task("release", root, FALSE), Task("released", root, TRUE)}
  <1>1. /\ "release" \in TaskNames /\ "released" \in TaskNames
        /\ Stage("release") = 1 /\ Stage("released") = 2
    BY StageNumbers
  <1>2. ASSUME NEW m \in TaskNames, NEW n \in TaskNames, NEW v \in Roots, NEW x \in BOOLEAN, NEW y \in BOOLEAN,
               m = "release", n = "released"
        PROVE  Within(<<Task(m, v, x), Task(n, v, y)>>, 1, 2)
               /\ Ahead(<<Task(m, v, x), Task(n, v, y)>>) = {Task(m, v, x), Task(n, v, y)}
    <2>1. Stage(m) < Stage(n) /\ Stage(m) = 1 /\ Stage(n) = 2
      BY <1>1, <1>2
    <2>2. /\ Within(<<Task(m, v, x), Task(n, v, y)>>, Stage(m), Stage(n))
          /\ Ahead(<<Task(m, v, x), Task(n, v, y)>>) = {Task(m, v, x), Task(n, v, y)}
      BY <2>1, Two
    <2> QED
      BY <2>1, <2>2
  <1> QED
    BY <1>1, <1>2

LEMMA RelocatePlan ==
  ASSUME root \in Roots, NEW to \in Roots, NEW sync \in BOOLEAN
  PROVE  /\ Within(RelocateSteps(to, sync), 1, 6)
         /\ Ahead(RelocateSteps(to, sync)) =
              (((IF sync THEN {Task("release", root, FALSE), Task("released", root, TRUE)} ELSE {})
                \cup {Task("rename", to, sync)}) \cup (IF sync THEN {Task("enable", to, TRUE)} ELSE {}))
              \cup {Task("remember", to, sync)}
  <1> DEFINE let == Task("release", root, FALSE)
             done == Task("released", root, TRUE)
             move == Task("rename", to, sync)
             on == Task("enable", to, TRUE)
             note == Task("remember", to, sync)
             L == IF sync THEN <<let, done>> ELSE <<>>
             E == IF sync THEN <<on>> ELSE <<>>
  <1>1. /\ Within(<<move>>, 3, 3) /\ Ahead(<<move>>) = {move}
        /\ Within(<<on>>, 5, 5) /\ Ahead(<<on>>) = {on}
        /\ Within(<<note>>, 6, 6) /\ Ahead(<<note>>) = {note}
    BY LoneSteps
  <1>2. Within(<<let, done>>, 1, 2) /\ Ahead(<<let, done>>) = {let, done}
    BY FreeSteps
  <1>3. Within(<<>>, 1, 2) /\ Within(<<>>, 5, 5) /\ Ahead(<<>>) = {}
    BY Nothing
  <1>4. /\ Within(L, 1, 2) /\ Ahead(L) = IF sync THEN {let, done} ELSE {}
        /\ Within(E, 5, 5) /\ Ahead(E) = IF sync THEN {on} ELSE {}
    BY <1>1, <1>2, <1>3
  <1> HIDE DEF let, done, move, on, note, L, E
  <1>5. Within(L \o <<move>>, 1, 3) /\ Ahead(L \o <<move>>) = (IF sync THEN {let, done} ELSE {}) \cup {move}
    <2>1. Within(L, 1, 2) /\ Within(<<move>>, 3, 3) /\ 2 < 3 /\ 1 \in Nat /\ 2 \in Nat /\ 3 \in Nat
      BY <1>1, <1>4
    <2>2. Within(L \o <<move>>, 1, 3) /\ Ahead(L \o <<move>>) = Ahead(L) \cup Ahead(<<move>>)
      BY ONLY <2>1, Join
    <2> QED
      BY <1>1, <1>4, <2>2
  <1>6. Within((L \o <<move>>) \o E, 1, 5)
        /\ Ahead((L \o <<move>>) \o E) = ((IF sync THEN {let, done} ELSE {}) \cup {move}) \cup (IF sync THEN {on} ELSE {})
    BY <1>4, <1>5, Join
  <1>7. Within(((L \o <<move>>) \o E) \o <<note>>, 1, 6)
        /\ Ahead(((L \o <<move>>) \o E) \o <<note>>)
             = (((IF sync THEN {let, done} ELSE {}) \cup {move}) \cup (IF sync THEN {on} ELSE {})) \cup {note}
    BY <1>1, <1>6, Join
  <1> QED
    BY <1>7 DEF RelocateSteps, let, done, move, on, note, L, E

LEMMA RelocateSyncs ==
  ASSUME Inv, root # NoRoot, NEW to \in Roots, to \notin disk, NEW sync \in BOOLEAN, sync <=> root \in synced,
         Begun(RelocateSteps(to, sync)), Orderly => asked = {}
  PROVE  Inv'
  <1> DEFINE l == Task("release", root, FALSE)
             d == Task("released", root, TRUE)
             n == Task("rename", to, sync)
             e == Task("enable", to, TRUE)
             m == Task("remember", to, sync)
             q == RelocateSteps(to, sync)
  <1>0. root \in Roots
    BY OpFacts DEF Typed, Places
  <1>1. Within(q, 1, 6)
        /\ Ahead(q) = (((IF sync THEN {l, d} ELSE {}) \cup {n}) \cup (IF sync THEN {e} ELSE {})) \cup {m}
    BY <1>0, RelocatePlan
  <1>2. /\ Op.call = "none" /\ Op.pc = "idle" /\ lock = "none" /\ synced \subseteq {root} /\ Heading(root)
        /\ Ahead(plan) = {} /\ (WillSync(root) <=> root \in synced) /\ root \in Places /\ NoRoot \notin Roots
    BY AtRest DEF Begun
  <1>3. /\ l.task = "release" /\ l.w = root /\ d.task = "released" /\ d.w = root
        /\ n.task = "rename" /\ n.w = to /\ e.task = "enable" /\ e.w = to
        /\ m.task = "remember" /\ m.w = to /\ m.sync = sync
    BY DEF Task
  <1>4. Begun(q)
    OBVIOUS
  <1> HIDE DEF q, l, d, n, e, m
  <1>5. /\ Course(to)' /\ q \in Seq(Steps) /\ Ahead(plan)' = Ahead(q) /\ Op' = Op
        /\ WillSync(to)' <=> \/ \E t \in Ahead(q) : t.task = "enable"
                             \/ to \in synced /\ \A t \in Ahead(q) : t.task \in Stops => t.w # to
        /\ \A name : Plans(name)' <=> \E t \in Ahead(q) : t.task = name
    <2>1. to \in Places
      BY DEF Places
    <2> QED
      BY <1>1, <1>2, <1>3, <1>4, <2>1, Headings DEF Turns, To, Stops
  <1>6. Plans("rename")' /\ ~Plans("disable")' /\ \A v : Moving(v)' => v = root'
    BY <1>1, <1>3, <1>5 DEF Moving
  <1>7. Slow = {} /\ Smooth(root) => (WillSync(to)' <=> sync)
    BY <1>0, <1>1, <1>2, <1>3, <1>5 DEF Smooth, Stops, Owed
  <1>8. Slow = {} /\ Smooth(root) => Smooth(to)'
    BY <1>0, <1>1, <1>2, <1>3, <1>4, <1>5, <1>6, <1>7 DEF Smooth, Begun, Stops, Notes, Said, Owed
  <1>9. Slow = {} /\ Smooth(root) => Exact(to)'
    <2> SUFFICES ASSUME Slow = {}, Smooth(root) PROVE Exact(to)'
      OBVIOUS
    <2>1. saved'.root = root' /\ (saved.sync => sync \/ Owed(root)) /\ saved' = saved
      BY <1>2, <1>4 DEF Smooth, Begun
    <2>2. Restored' => ~Owed(root)
      BY <1>4 DEF Restored, Owed, Begun
    <2>3. \A t \in Ahead(q) : t.task \in Notes => t.task # "forget" /\ t.sync = sync
      BY <1>1, <1>3 DEF Notes
    <2> QED
      BY <1>5, <2>1, <2>2, <2>3 DEF Exact
  <1>10. Slow = {} /\ Orderly /\ Smooth(root) /\ Kept(root) => Kept(to)'
    <2>1. Orderly => ~Owed(root)
      BY DEF Owed
    <2> QED
      BY <1>0, <1>1, <1>2, <1>3, <1>4, <1>5, <1>6, <1>7, <2>1
      DEF Smooth, Kept, Begun, Releases, Stops, Plans
  <1>11. Heading(to)'
    BY <1>2, <1>4, <1>5, <1>8, <1>9, <1>10 DEF Heading, Slow, Without, Begun, Orderly
  <1> QED
    BY <1>4, <1>5, <1>11, OpFacts, Begins DEF Begun, Typed, Places

LEMMA RelocateKeeps ==
  ASSUME Inv, NEW to \in Roots, Relocate(to)
  PROVE  Inv'
  <1>1. (root \in synced) = TRUE \/ (root \in synced) = FALSE
    OBVIOUS
  <1>2. ASSUME NEW sync \in BOOLEAN, (root \in synced) = sync PROVE Inv'
    <2>1. /\ Start("relocate", RelocateSteps(to, sync)) /\ UNCHANGED <<disk, ids>>
          /\ root # NoRoot /\ to \notin disk
      BY <1>2 DEF Relocate, LetGo, WasSynced, files, RelocateSteps
    <2>2. Begun(RelocateSteps(to, sync)) /\ (Orderly => asked = {})
      BY <2>1, StartsNow
    <2> QED
      BY <1>2, <2>1, <2>2, RelocateSyncs
  <1> QED
    BY <1>1, <1>2

DeleteSteps(sync) ==
  (IF sync THEN <<Task("release", root, FALSE), Task("released", root, TRUE)>> ELSE <<>>)
    \o <<Task("forget", root, FALSE), Task("delete", root, FALSE)>>

LEMMA DeletePlan ==
  ASSUME root \in Roots, NEW sync \in BOOLEAN
  PROVE  /\ Within(DeleteSteps(sync), 1, 7)
         /\ Ahead(DeleteSteps(sync)) =
              (IF sync THEN {Task("release", root, FALSE), Task("released", root, TRUE)} ELSE {})
                \cup {Task("forget", root, FALSE), Task("delete", root, FALSE)}
  <1> DEFINE free == Task("release", root, FALSE)
             done == Task("released", root, TRUE)
             gone == Task("forget", root, FALSE)
             rm == Task("delete", root, FALSE)
             L == IF sync THEN <<free, done>> ELSE <<>>
  <1>1. Within(<<gone, rm>>, 6, 7) /\ Ahead(<<gone, rm>>) = {gone, rm}
    <2>1. /\ "forget" \in TaskNames /\ "delete" \in TaskNames
          /\ Stage("forget") = 6 /\ Stage("delete") = 7
      BY StageNumbers
    <2>2. ASSUME NEW m \in TaskNames, NEW n \in TaskNames, NEW v \in Roots, NEW x \in BOOLEAN,
                 m = "forget", n = "delete"
          PROVE  Within(<<Task(m, v, x), Task(n, v, x)>>, 6, 7)
                 /\ Ahead(<<Task(m, v, x), Task(n, v, x)>>) = {Task(m, v, x), Task(n, v, x)}
      <3>1. Stage(m) < Stage(n) /\ Stage(m) = 6 /\ Stage(n) = 7
        BY <2>1, <2>2
      <3>2. /\ Within(<<Task(m, v, x), Task(n, v, x)>>, Stage(m), Stage(n))
            /\ Ahead(<<Task(m, v, x), Task(n, v, x)>>) = {Task(m, v, x), Task(n, v, x)}
        BY <3>1, Two
      <3> QED
        BY <3>1, <3>2
    <2> QED
      BY <2>1, <2>2
  <1>2. Within(L, 1, 2) /\ Ahead(L) = IF sync THEN {free, done} ELSE {}
    <2>1. Within(<<>>, 1, 2) /\ Ahead(<<>>) = {}
      BY Nothing
    <2>2. Within(<<free, done>>, 1, 2) /\ Ahead(<<free, done>>) = {free, done}
      BY FreeSteps
    <2> QED
      BY <2>1, <2>2
  <1> HIDE DEF free, done, gone, rm, L
  <1>3. Within(L, 1, 2) /\ Within(<<gone, rm>>, 6, 7) /\ 2 < 6 /\ 1 \in Nat /\ 2 \in Nat /\ 6 \in Nat /\ 7 \in Nat
    BY <1>1, <1>2
  <1>4. Within(L \o <<gone, rm>>, 1, 7) /\ Ahead(L \o <<gone, rm>>) = Ahead(L) \cup Ahead(<<gone, rm>>)
    BY ONLY <1>3, Join
  <1> QED
    BY <1>1, <1>2, <1>4 DEF DeleteSteps, free, done, gone, rm, L

LEMMA DeleteSyncs ==
  ASSUME Inv, root # NoRoot, NEW sync \in BOOLEAN, sync <=> root \in synced,
         Begun(DeleteSteps(sync)), Orderly => asked = {}
  PROVE  Inv'
  <1> DEFINE l == Task("release", root, FALSE)
             d == Task("released", root, TRUE)
             f == Task("forget", root, FALSE)
             k == Task("delete", root, FALSE)
             q == DeleteSteps(sync)
  <1>0. root \in Roots
    BY OpFacts DEF Typed, Places
  <1>1. Within(q, 1, 7) /\ Ahead(q) = (IF sync THEN {l, d} ELSE {}) \cup {f, k}
    BY <1>0, DeletePlan
  <1>2. /\ Op.call = "none" /\ Op.pc = "idle" /\ lock = "none" /\ synced \subseteq {root} /\ Heading(root)
        /\ Ahead(plan) = {} /\ (WillSync(root) <=> root \in synced) /\ root \in Places /\ NoRoot \notin Roots
    BY AtRest DEF Begun
  <1>3. /\ l.task = "release" /\ l.w = root /\ d.task = "released" /\ d.w = root
        /\ f.task = "forget" /\ f.w = root /\ k.task = "delete" /\ k.w = root
    BY DEF Task
  <1>4. Begun(q) /\ NoRoot \notin synced
    BY <1>2, OpFacts DEF Typed
  <1> HIDE DEF q, l, d, f, k
  <1>5. /\ Course(NoRoot)' /\ q \in Seq(Steps) /\ Ahead(plan)' = Ahead(q) /\ Op' = Op
        /\ WillSync(NoRoot)' <=> \/ \E t \in Ahead(q) : t.task = "enable"
                                 \/ NoRoot \in synced /\ \A t \in Ahead(q) : t.task \in Stops => t.w # NoRoot
        /\ \A name : Plans(name)' <=> \E t \in Ahead(q) : t.task = name
    <2>1. PICK r \in Places : r = NoRoot
      BY DEF Places
    <2> QED
      BY <1>1, <1>2, <1>3, <1>4, <2>1, Headings DEF Turns, To, Stops
  <1>6. ~Plans("rename")' /\ ~WillSync(NoRoot)' /\ \A v : Moving(v)' => v = root
    BY <1>1, <1>3, <1>4, <1>5 DEF Moving
  <1>7. Slow = {} /\ Smooth(root) => Smooth(NoRoot)'
    BY <1>0, <1>1, <1>2, <1>3, <1>4, <1>5, <1>6 DEF Smooth, Begun, Stops, Notes, Said, Owed
  <1>8. Slow = {} /\ Smooth(root) => Exact(NoRoot)'
    <2> SUFFICES ASSUME Slow = {}, Smooth(root) PROVE Exact(NoRoot)'
      OBVIOUS
    <2>1. saved'.root \notin Roots' \ disk'
      BY <1>2, <1>4 DEF Smooth, Begun, Roots
    <2> QED
      BY <1>6, <2>1 DEF Exact
  <1>9. Slow = {} /\ Orderly /\ Smooth(root) /\ Kept(root) => Kept(NoRoot)'
    <2> SUFFICES ASSUME Slow = {}, Orderly, Smooth(root), Kept(root) PROVE Kept(NoRoot)'
      OBVIOUS
    <2>1. held' = held /\ ids' = ids /\ held \subseteq ids /\ NoRoot \notin ids /\ synced' = synced
      BY <1>2, <1>4, OpFacts DEF Kept, Begun, Typed, Owed
    <2>2. root \in ids => root \in synced
      <3>1. Ahead(plan) = {} /\ ~Owed(root)
        BY <1>2 DEF Owed
      <3> QED
        BY <1>2, <3>1 DEF Kept, Plans
    <2>3. root \in synced \cup held => sync
      BY <2>1, <2>2
    <2>4. sync => \E t \in Ahead(q) : t.task = "release" /\ t.w = root
      BY <1>1, <1>3
    <2>5. \A t \in Ahead(q) : t.task = "release" => sync /\ t.w = root
      BY <1>1, <1>3
    <2> QED
      BY <1>2, <1>5, <1>6, <2>1, <2>3, <2>4, <2>5 DEF Kept, Releases, Owed
  <1>10. Heading(NoRoot)'
    BY <1>2, <1>4, <1>5, <1>7, <1>8, <1>9 DEF Heading, Slow, Without, Begun, Orderly
  <1>11. NoRoot \in Places
    BY DEF Places
  <1> QED
    BY <1>4, <1>5, <1>10, <1>11, OpFacts, Begins DEF Begun, Typed

LEMMA DeleteKeeps ==
  ASSUME Inv, Delete
  PROVE  Inv'
  <1>1. (root \in synced) = TRUE \/ (root \in synced) = FALSE
    OBVIOUS
  <1>2. ASSUME NEW sync \in BOOLEAN, (root \in synced) = sync PROVE Inv'
    <2>1. Start("delete", DeleteSteps(sync)) /\ root # NoRoot /\ UNCHANGED <<disk, ids>>
      BY <1>2 DEF Delete, LetGo, files, DeleteSteps
    <2>2. Begun(DeleteSteps(sync)) /\ (Orderly => asked = {})
      BY <2>1, StartsNow
    <2> QED
      BY <1>2, <2>1, <2>2, DeleteSyncs
  <1> QED
    BY <1>1, <1>2

-----------------------------------------------------------------------------
\* The invariant.

LEMMA Starts ==
  ASSUME BridgeStays, Init
  PROVE  Inv
  <1> DEFINE q == Request("restore", root, TRUE)
  <1>1. /\ setup \in DOMAIN Setups /\ root \in Roots /\ root # NoRoot /\ disk \subseteq Roots /\ root \in disk
        /\ ids = disk
    BY ServingAssumption DEF Init, IsSetup, Roots
  <1>2. q \in Requests /\ q.op = "restore" /\ q.w = root
    BY <1>1 DEF Requests, Request
  <1>3. plan = <<>> /\ asked = {q} /\ \A p \in Processes : proc[p] = Idle("ok")
    BY DEF Init
  <1> HIDE DEF q
  <1>4. plan \in Seq(Steps) /\ Ahead(plan) = {} /\ Ordered(plan)
    BY <1>3, NoTask
  <1>5. /\ Idle("ok") \in Calls /\ Op = Idle("ok") /\ Op.call = "none" /\ Op.pc = "idle" /\ Op.res = "ok"
        /\ proc["keep"] = Idle("ok")
    BY <1>3 DEF Idle, Calls, Phases, Places, Op, Processes
  <1>6. Typed
    BY <1>1, <1>2, <1>3, <1>4, <1>5 DEF Typed, Init, Places
  <1>7. Wired /\ Phased
    BY <1>5 DEF Wired, Phased, BridgeStays, Init
  <1>8. Course(root)
    BY <1>4, <1>5 DEF Course, Init
  <1>9. Owed(root) /\ Queued
    BY <1>2, <1>3, <1>5 DEF Owed, Queued
  <1>10. /\ \A name : ~Plans(name)
         /\ \A v : ~Moving(v)
    BY <1>4 DEF Plans, Moving
  <1>11. Smooth(root)
    BY <1>1, <1>4, <1>5, <1>9, <1>10 DEF Smooth, Init, Stops
  <1>12. Exact(root)
    BY <1>1, <1>4, <1>10 DEF Exact, Init
  <1>13. Kept(root)
    BY <1>4, <1>5, <1>9, <1>10 DEF Kept, Init
  <1> QED
    BY <1>1, <1>6, <1>7, <1>8, <1>9, <1>11, <1>12, <1>13 DEF Inv, Heading, Places

\* While the bridge stays the reconnection has nothing to do.
LEMMA NoReconnection ==
  ASSUME Inv
  PROVE  ~Lose /\ ~Attach /\ ~EnableWaiting /\ ~RuntimeStep("keep")
  <1>1. ~Lose /\ ~Attach /\ ~EnableWaiting
    BY OpFacts DEF Lose, Attach, EnableWaiting, Wired, BridgeStays
  <1>2. ~RuntimeStep("keep")
    BY OpFacts DEF RuntimeStep, Enable, Open, DeviceId, OpenStore, Read, Register, Answered, Stop, Take,
       Disable, Release, Handle
  <1> QED
    BY <1>1, <1>2

LEMMA Standstill ==
  ASSUME Inv, UNCHANGED vars
  PROVE  Inv'
  <1>1. PICK r \in Places : Heading(r)
    BY DEF Inv
  <1>2. /\ Ahead(plan)' = Ahead(plan) /\ Op' = Op /\ Roots' = Roots /\ Slow' = Slow
        /\ UNCHANGED <<setup, disk, ids, root, saved, plan, proc, lock, pending, waiting, synced, stopped,
                       held, closing, slot, open, conns, asked>>
    BY DEF vars, Ahead, Op, Roots, Slow
  <1>3. /\ \A name : Plans(name)' <=> Plans(name)
        /\ \A v : (Leaving(v)' <=> Leaving(v)) /\ (Releases(v)' <=> Releases(v))
    BY <1>2 DEF Plans, Leaving, Releases
  <1>4. WillSync(r)' <=> WillSync(r)
    BY <1>2, <1>3 DEF WillSync
  <1>5. \A v : Moving(v)' <=> Moving(v)
    BY <1>2, <1>3 DEF Moving
  <1>6. Course(r)'
    BY <1>1, <1>2, <1>3 DEF Heading, Course
  <1>7. Smooth(r) => Smooth(r)'
    BY <1>2, <1>3, <1>4 DEF Smooth, Owed
  <1>8. Exact(r) => Exact(r)'
    BY <1>2, <1>3, <1>4 DEF Exact, Restored
  <1>9. Kept(r) => Kept(r)'
    BY <1>2, <1>3, <1>4, <1>5 DEF Kept, Owed
  <1>10. Heading(r)'
    BY <1>1, <1>2, <1>6, <1>7, <1>8, <1>9 DEF Heading, Without, Orderly
  <1>11. Typed' /\ Wired' /\ Phased' /\ Queued' /\ r \in Places'
    BY <1>2, OpFacts
    DEF Inv, Typed, Wired, Phased, Queued, Orderly, BridgeStays, Places, Roots, Steps, Calls, Requests
  <1> QED
    BY <1>10, <1>11 DEF Inv

LEMMA NextKeeps ==
  ASSUME Inv, [Next]_vars
  PROVE  Inv'
  <1>1. CASE Operation
    <2>1. ASSUME NEW w \in Roots, AskSelect(w) \/ AskMap(w) \/ Relocate(w) PROVE Inv'
      BY <2>1, AskKeeps, RelocateKeeps
    <2>2. CASE TakeTurn
      BY <2>2, RestoresKeeps, SelectKeeps, MapKeeps DEF TakeTurn
    <2> QED
      BY <1>1, <2>1, <2>2, SyncStepsKeep, DeleteKeeps DEF Operation
  <1>2. CASE PlanStep
    BY <1>2, CallRuntimeKeeps, ReleasedKeeps, HostSelectKeeps, RememberKeeps, ForgetKeeps, RenameKeeps,
       DeleteFolderKeeps
    DEF PlanStep
  <1>3. CASE RuntimeStep("op")
    BY <1>3, EnableKeeps, OpenKeeps, DeviceIdKeeps, OpenStoreKeeps, ReadKeeps, RegisterKeeps, AnsweredKeeps,
       StopKeeps, TakeKeeps, DisableKeeps, ReleaseKeeps, HandleKeeps
    DEF RuntimeStep
  <1>4. ASSUME NEW w \in Roots, TaskStarts(w) \/ TaskEnds(w) \/ Closed(w) PROVE Inv'
    BY <1>4, TaskStartsKeeps, TaskEndsKeeps
  <1>5. CASE UNCHANGED vars
    BY <1>5, Standstill
  <1> QED
    BY <1>1, <1>2, <1>3, <1>4, <1>5, NoReconnection DEF Next, Processes

\* Nothing changes the instance.
LEMMA SetupStays ==
  ASSUME [Next]_vars
  PROVE  setup' = setup
  <1> DEFINE Same == setup' = setup
  <1>1. ASSUME NEW w \in Roots, AskSelect(w) \/ AskMap(w) \/ Relocate(w) PROVE Same
    BY <1>1 DEF AskSelect, AskMap, Ask, Relocate, Start, bridge
  <1>12. CASE TakeTurn
    BY <1>12 DEF TakeTurn, Restores, Select, Map, Turn, bridge
  <1>2. CASE MapEnables \/ EnableSync \/ DisableSync
    BY <1>2 DEF MapEnables, EnableSync, DisableSync, Start, bridge
  <1>3. CASE Remove \/ Delete
    BY <1>3 DEF Remove, Delete, Start, bridge
  <1>4. CASE CallRuntime \/ Released \/ HostSelect
    BY <1>4 DEF CallRuntime, Released, HostSelect, Do, bridge, requests
  <1>5. CASE Remember \/ Forget \/ Rename \/ DeleteFolder
    BY <1>5 DEF Remember, Forget, Rename, DeleteFolder, Do, bridge, requests
  <1>6. CASE Lose \/ Attach \/ EnableWaiting
    BY <1>6 DEF Lose, Attach, EnableWaiting, bridge, requests
  <1>7. ASSUME NEW p \in Processes, Enable(p) \/ Open(p) \/ DeviceId(p) \/ OpenStore(p) PROVE Same
    BY <1>7 DEF Enable, Open, DeviceId, OpenStore, bridge, requests
  <1>8. ASSUME NEW p \in Processes, Read(p) \/ Register(p) \/ Answered(p) \/ Stop(p) PROVE Same
    BY <1>8 DEF Read, Register, Answered, Stop, bridge, requests
  <1>9. ASSUME NEW p \in Processes, Take(p) \/ Disable(p) \/ Release(p) \/ Handle(p) PROVE Same
    BY <1>9 DEF Take, Disable, Release, Handle, bridge, requests
  <1>10. ASSUME NEW w \in Roots, TaskStarts(w) \/ TaskEnds(w) \/ Closed(w) PROVE Same
    BY <1>10 DEF TaskStarts, TaskEnds, Closed, bridge, requests
  <1>11. CASE UNCHANGED vars
    BY <1>11 DEF vars, bridge, requests
  <1> QED
    BY <1>1, <1>2, <1>3, <1>4, <1>5, <1>6, <1>7, <1>8, <1>9, <1>10, <1>11,
       <1>12
       DEF Next, Operation, PlanStep, RuntimeStep

\* Only a note changes what is remembered, and only a move or a removal takes a folder away.
LEMMA WhatChanges ==
  ASSUME [Next]_vars
  PROVE  /\ saved' = saved \/ Remember \/ Forget
         /\ disk \subseteq disk' \/ Rename \/ DeleteFolder
  <1> DEFINE Same == /\ saved' = saved \/ Remember \/ Forget
                     /\ disk \subseteq disk' \/ Rename \/ DeleteFolder
  <1>1. ASSUME NEW w \in Roots, AskSelect(w) \/ AskMap(w) \/ Relocate(w) PROVE Same
    BY <1>1 DEF AskSelect, AskMap, Ask, Relocate, Start, files
  <1>12. CASE TakeTurn
    BY <1>12 DEF TakeTurn, Restores, Select, Map, Turn, files
  <1>2. CASE MapEnables \/ EnableSync \/ DisableSync
    BY <1>2 DEF MapEnables, EnableSync, DisableSync, Start, files
  <1>3. CASE Remove \/ Delete
    BY <1>3 DEF Remove, Delete, Start, files
  <1>4. CASE CallRuntime \/ Released \/ HostSelect
    BY <1>4 DEF CallRuntime, Released, HostSelect, Do, files
  <1>5. CASE Remember \/ Forget \/ Rename \/ DeleteFolder
    BY <1>5 DEF Remember, Forget, Rename, DeleteFolder, Do, files
  <1>6. CASE Lose \/ Attach \/ EnableWaiting
    BY <1>6 DEF Lose, Attach, EnableWaiting, files
  <1>7. ASSUME NEW p \in Processes, Enable(p) \/ Open(p) \/ DeviceId(p) \/ OpenStore(p) PROVE Same
    BY <1>7 DEF Enable, Open, DeviceId, OpenStore, files
  <1>8. ASSUME NEW p \in Processes, Read(p) \/ Register(p) \/ Answered(p) \/ Stop(p) PROVE Same
    BY <1>8 DEF Read, Register, Answered, Stop, files
  <1>9. ASSUME NEW p \in Processes, Take(p) \/ Disable(p) \/ Release(p) \/ Handle(p) PROVE Same
    BY <1>9 DEF Take, Disable, Release, Handle, files
  <1>10. ASSUME NEW w \in Roots, TaskStarts(w) \/ TaskEnds(w) \/ Closed(w) PROVE Same
    BY <1>10 DEF TaskStarts, TaskEnds, Closed, files
  <1>11. CASE UNCHANGED vars
    BY <1>11 DEF vars, files
  <1> QED
    BY <1>1, <1>2, <1>3, <1>4, <1>5, <1>6, <1>7, <1>8, <1>9, <1>10, <1>11,
       <1>12
       DEF Next, Operation, PlanStep, RuntimeStep

LEMMA MovesKeepSync ==
  ASSUME Inv, Slow = {}, [Next]_vars
  PROVE  Restored /\ saved.root \in Roots \ disk /\ saved.sync => saved'.sync \/ saved'.root = saved.root
  <1> SUFFICES ASSUME Restored, saved.root \in Roots \ disk, saved.sync, saved' # saved
               PROVE  saved'.sync
    OBVIOUS
  <1>1. PICK r \in Places : Exact(r)
    BY DEF Inv, Heading
  <1>2. plan # <<>> /\ Now.task \in Notes /\ (Remember \/ Forget)
    BY WhatChanges DEF Remember, Forget, Do, Notes
  <1>3. Now \in Ahead(plan)
    BY <1>2, Rest, OpFacts DEF Typed, Now
  <1>4. Now.task # "forget" /\ Now.sync
    BY <1>1, <1>2, <1>3 DEF Exact
  <1> QED
    BY <1>2, <1>4 DEF Remember, Forget, Do

LEMMA MovesAreClosed ==
  ASSUME Inv, Slow = {}, Orderly, Without({"map", "disable_sync"}), [Next]_vars
  PROVE  \A w \in disk \ disk' : ~StoreOpen(w)
  <1> SUFFICES ASSUME NEW w \in disk, w \notin disk' PROVE ~StoreOpen(w)
    OBVIOUS
  <1>1. PICK r \in Places : Course(r) /\ Smooth(r) /\ Kept(r)
    BY DEF Inv, Heading, Without, Orderly
  <1>2. /\ plan # <<>> /\ Op.pc = "idle" /\ w \in Roots
        /\ \/ Now.task = "rename" /\ w = root
           \/ Now.task = "delete" /\ w = Now.w
    BY WhatChanges, OpFacts DEF Rename, DeleteFolder, Do, Op, Typed
  <1>3. /\ Now \in Ahead(plan) /\ Ahead(plan) = {Now} \cup Ahead(Tail(plan))
        /\ \A t \in Ahead(Tail(plan)) : Stage(Now.task) < Stage(t.task)
    BY <1>1, <1>2, Rest, OpFacts DEF Typed, Now, Course
  <1>4. Moving(w) /\ \A t \in Ahead(plan) : t.task # "release"
    BY <1>2, <1>3 DEF Moving, Plans, Stage
  <1>5. Op.call = "none"
    BY <1>2, OpFacts DEF Phased, Stops
  <1>6. w \notin synced \cup held /\ closing = {} /\ ~Stopping(w)
    BY <1>1, <1>2, <1>4, <1>5, OpFacts DEF Kept, Releases, Smooth, Stops, Owed
  <1> QED
    BY <1>6 DEF StoreOpen

\* Nobody is in the middle of anything: what is current is what syncs, and what is remembered.
LEMMA AtEase ==
  ASSUME Inv
  PROVE  OnlyTheCurrentSyncs /\ (Slow = {} => SyncedOrWaiting /\ NoCallFails)
  <1>0. Slow = {} => NoCallFails
    BY DEF Inv, Heading, Smooth, NoCallFails, Op, Owed
  <1> SUFFICES ASSUME Quiet
               PROVE  synced \cup pending \subseteq {root} /\ (Slow = {} /\ saved.sync => Enabled(saved.root))
    BY <1>0 DEF OnlyTheCurrentSyncs, SyncedOrWaiting
  <1>1. /\ synced \subseteq {root} /\ Heading(root) /\ Ahead(plan) = {}
        /\ (WillSync(root) <=> root \in synced) /\ pending = {} /\ ~Owed(root)
    BY AtRest, OpFacts DEF Quiet, Processes, Wired, Owed
  <1> QED
    BY <1>1 DEF Heading, Smooth, Enabled, Owed

-----------------------------------------------------------------------------
\* The bridge is there from the start and stays: once nobody is in the middle of anything, only
\* the current workspace syncs, for any folders and any order of switching, moving, removing and
\* mapping, however slow its tasks are (switch, let_go).
THEOREM OnlyTheCurrent == BridgeStays /\ Spec => []OnlyTheCurrentSyncs
  <1>1. BridgeStays /\ Init => Inv
    BY Starts
  <1>2. Inv /\ [Next]_vars => Inv'
    BY NextKeeps
  <1>3. Inv => OnlyTheCurrentSyncs
    BY AtEase
  <1> QED
    BY <1>1, <1>2, <1>3, PTL DEF Spec

\* Where its tasks and stores close in time too, what workspace.toml says syncs does sync: no
\* call fails on the way, and what an operation writes down is what it has done (remember).
THEOREM WhatIsRememberedSyncs == BridgeStays /\ Slow = {} /\ Spec => []SyncedOrWaiting
  <1> DEFINE I == Inv /\ Slow = {}
  <1>1. BridgeStays /\ Slow = {} /\ Init => I
    BY Starts
  <1>2. I /\ [Next]_vars => I'
    BY NextKeeps, SetupStays DEF Slow
  <1>3. I => SyncedOrWaiting
    BY AtEase
  <1> HIDE DEF I
  <1> QED
    BY <1>1, <1>2, <1>3, PTL DEF Spec

\* Nor does a call fail where tasks and stores end in time: in whatever order workspaces are
\* selected, moved, removed, mapped, and synced again, enable finds the store of what it opens
\* closed, or takes back the replica that disable let go of (reclaim), and release is in time.
THEOREM CallsSucceed == BridgeStays /\ Slow = {} /\ Spec => []NoCallFails
  <1> DEFINE I == Inv /\ Slow = {}
  <1>1. BridgeStays /\ Slow = {} /\ Init => I
    BY Starts
  <1>2. I /\ [Next]_vars => I'
    BY NextKeeps, SetupStays DEF Slow
  <1>3. I => NoCallFails
    BY AtEase
  <1> HIDE DEF I
  <1> QED
    BY <1>1, <1>2, <1>3, PTL DEF Spec

\* There, a workspace that moves goes on syncing, whatever operations overtake each other: what
\* relocate writes down for the new folder keeps the sync that was remembered of the old one, once
\* the sync of the start is restored (relocate, let_go).
THEOREM MovedWorkspaceSyncs == BridgeStays /\ Slow = {} /\ Spec => MoveKeepsSync
  <1> DEFINE I == Inv /\ Slow = {}
  <1>1. BridgeStays /\ Slow = {} /\ Init => I
    BY Starts
  <1>2. I /\ [Next]_vars => I'
    BY NextKeeps, SetupStays DEF Slow
  <1>3. I /\ [Next]_vars =>
          [Restored /\ saved.root \in Roots \ disk /\ saved.sync =>
             saved'.sync \/ saved'.root = saved.root]_vars
    BY MovesKeepSync
  <1> HIDE DEF I
  <1> QED
    BY <1>1, <1>2, <1>3, PTL DEF Spec, MoveKeepsSync

\* Where sync is not turned off either, which closes a store in its own time, and nothing is mapped,
\* nobody has a replica open when its folder moves or is deleted, where no select is overtaken
\* between reading whether its folder syncs and its turn (let_go, release).
THEOREM MovedIsClosed ==
  BridgeStays /\ Slow = {} /\ Without({"map", "disable_sync"}) /\ Spec => MovedStoreIsClosed
  <1> DEFINE I == Inv /\ Slow = {} /\ Without({"map", "disable_sync"})
  <1>1. BridgeStays /\ Slow = {} /\ Without({"map", "disable_sync"}) /\ Init => I
    BY Starts
  <1>2. I /\ [Next]_vars => I'
    BY NextKeeps, SetupStays DEF Slow, Without
  <1>3. I /\ [Next]_vars => [Orderly => \A w \in disk \ disk' : ~StoreOpen(w)]_vars
    BY MovesAreClosed
  <1> HIDE DEF I
  <1> QED
    BY <1>1, <1>2, <1>3, PTL DEF Spec, MovedStoreIsClosed
=============================================================================
