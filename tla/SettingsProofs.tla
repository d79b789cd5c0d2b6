--------------------------- MODULE SettingsProofs ---------------------------
(* What callers and tasks may rely on, for any clients, workspaces, batches  *)
(* and instances: batches are whole, callers are told what was written, live *)
(* keys and the provider follow the files.  The argument: only the holder of *)
(* `writing` is past the check of its part; what an owner reads, in the files *)
(* a batch edits and in those it does not, is then moved by nobody but users, *)
(* sessions and selections, so that without them the check passes again at   *)
(* apply (Checked), and what is written is what the steps owe (Steps).       *)
(* Whoever reloads the provider holds its lock from the read to the swap, and *)
(* each writer of a live key reloads after it (ProviderInv).                 *)
EXTENDS Settings, FiniteSetTheorems, TLAPS

Doc == [Keys -> Value]
Batch == UNION { [D -> Value] : D \in SUBSET Keys }
OwnFiles == Workspaces \cup {"device"}

Pcs == {"idle", "called", "bridge check", "bridge write", "reload", "bridge answer", "apply", "write",
        "refresh", "swap", "list", "ask", "done"}

Calls == [pc : Pcs, batch : Batch, scope : {"home", "device"},
          staged : UNION { [D -> Doc] : D \in SUBSET OwnFiles }, wrote : SUBSET Files,
          read : SUBSET [Mine -> Value], answer : {"none", "ok", "refused", "partial", "not running", "lost"},
          pending : SUBSET Keys]

Typed ==
  /\ setup \in DOMAIN Setups /\ DOMAIN disk = Files
  /\ \A f \in Files : disk[f] \in Doc \/ (f \in Workspaces /\ May("garbled") /\ disk[f] = Bad)
  /\ selected \in Workspaces \cup {Nobody} /\ (selected = Nobody => May("remove"))
  /\ loading \in SUBSET [Mine -> Value] /\ values \in [Mine -> Value]
  /\ DOMAIN start = {"later", "restart"} /\ DOMAIN bstart = {"net"} /\ DOMAIN btask = BridgeTasks
  /\ task \in [Refreshers -> SUBSET [Mine -> Value]]
  /\ call \in [Clients -> Calls]

-----------------------------------------------------------------------------
(* The invariant *)

\* What a call has written, at each of its steps, and what its end says of it.
BridgeFile(x) == IF DOMAIN Part(x.batch, Theirs) = {} THEN {} ELSE {"bridge"}
OwnTouched(x, s) == Touched(Part(x.batch, Mine), x.scope, s)

Steps(x) ==
  /\ x.pc \in {"bridge check", "bridge write", "reload", "bridge answer"} => DOMAIN Part(x.batch, Theirs) # {}
  /\ x.pc \in {"idle", "called", "bridge check", "bridge write"} => x.wrote = {}
  /\ x.pc \in {"reload", "bridge answer"} => x.wrote = {"bridge"}
  /\ x.pc = "apply" => x.wrote = BridgeFile(x)
  /\ x.pc \in {"write", "refresh", "swap", "list", "ask"} =>
       \E s \in Workspaces \cup {Nobody} : x.wrote \cup DOMAIN x.staged = BridgeFile(x) \cup OwnTouched(x, s)
  /\ x.pc # "write" => DOMAIN x.staged = {} \/ x.pc = "done"
  /\ x.answer # "none" => x.pc = "done" \/ (x.pc = "reload" /\ x.answer = "lost")

Whole(x) ==
  /\ ~May("garbled") /\ ~May("io") => (x.answer = "refused" => x.wrote = {})
  /\ x.answer = "ok" => /\ ("bridge" \in x.wrote) <=> (DOMAIN Part(x.batch, Theirs) # {})
                        /\ (x.wrote \ {"bridge"} # {}) <=> (DOMAIN Part(x.batch, Mine) # {})
  /\ x.answer = "partial" => "bridge" \in x.wrote
  /\ Undisturbed /\ ~May("bridge") =>
       (x.pc = "done" /\ x.answer # "lost" /\ DOMAIN Part(x.batch, Mine) # {} /\ DOMAIN Part(x.batch, Theirs) # {}
          => (("bridge" \in x.wrote) <=> (\E f \in x.wrote : f # "bridge")))
  /\ ~May("io") /\ ~May("kill") =>
       (x.pc = "done" /\ DOMAIN Part(x.batch, Theirs) = {} /\ "restart" \in DOMAIN Part(x.batch, Mine)
          /\ DOMAIN Part(x.batch, Mine) # {"restart"} /\ x.scope = "home"
          => x.wrote = {} \/ \E w \in Workspaces : x.wrote = {w, "device"})

\* Who has got past the check of its own part holds `writing`; nobody has while the server starts.
Holding(c) ==
  call[c].pc \in {"bridge check", "bridge write", "reload", "bridge answer", "apply", "write", "refresh", "swap", "list", "ask"}
    /\ call[c].answer # "lost"
Locked ==
  /\ \A c \in Clients : Holding(c) => writing = c
  /\ loading # {} => \A c \in Clients : call[c].pc \in {"idle", "done", "reload"} /\ ~Holding(c)

CallsInv == Locked /\ \A c \in Clients : Steps(call[c]) /\ Whole(call[c])

\* What has passed the check passes it again, where nobody but clients moves the server's files.
Checked ==
  /\ ~May("bridge") => up
  /\ Undisturbed => \A c \in Clients :
       Holding(c) /\ call[c].pc \in {"bridge check", "bridge write", "reload", "bridge answer", "apply"}
         => Passes(disk, OwnPart(c), call[c].scope, selected)

Alone == Undisturbed /\ ~May("offline")
LiveInv ==
  Alone =>
    /\ \A f \in Files : disk[f] # Bad
    /\ \A new \in loading : new["live"] = Effective(disk, selected, "live")
    /\ \A c \in Clients : call[c].pc = "swap" =>
         \A new \in call[c].read : new["live"] = Effective(disk, selected, "live")
    /\ loading = {} /\ (\A c \in Clients : call[c].pc \notin {"write", "refresh", "swap"})
         => values["live"] = Effective(disk, selected, "live")

\* Somebody is yet to read the bridge's settings, or has read what they are, or the provider is of them.
Reloaders == {p \in Clients \cup BridgeTasks : Reloading(p)}
ProviderInv ==
  /\ up => \/ \E p \in Reloaders : \A r \in alock : r.who # p
           \/ alock # {} /\ \A r \in alock : r.config = disk["bridge"]["embed"]
           \/ alock = {} /\ provider = disk["bridge"]["embed"]
  /\ \A r, q \in alock : r = q
  /\ \A r \in alock : r.who \in Reloaders
  /\ ~up => Reloaders = {}

Inv == Typed /\ CallsInv /\ Checked /\ LiveInv /\ ProviderInv

-----------------------------------------------------------------------------
LEMMA Names ==
  ASSUME setup \in DOMAIN Setups
  PROVE  /\ Workspaces \subseteq AllWorkspaces /\ Clients \subseteq AllClients
         /\ My.batches \subseteq Batch /\ My.scopes \subseteq {"home", "device"}
         /\ \A b \in My.batches : DOMAIN b # {}
         /\ BridgeTasks \subseteq {"cli", "embed", "tick"}
         /\ "device" \notin Workspaces /\ "bridge" \notin Workspaces /\ Nobody \notin Files
         /\ BridgeTasks \cap Clients = {} /\ Nobody \notin Clients
  <1>1. IsSetup(My)
    BY SettingsAssumption DEF My
  <1>2. ASSUME NEW b \in My.batches
        PROVE  b \in Batch /\ DOMAIN b # {}
    BY <1>1, <1>2 DEF IsSetup, Batch
  <1>3. /\ Workspaces \subseteq AllWorkspaces /\ Clients \subseteq AllClients
        /\ My.scopes \subseteq {"home", "device"} /\ BridgeTasks \subseteq {"cli", "embed", "tick"}
    BY <1>1 DEF IsSetup, Workspaces, Clients, BridgeTasks
  <1>4. "device" \notin Workspaces /\ "bridge" \notin Workspaces /\ Nobody \notin Files
    BY <1>3, SettingsAssumption DEF Files
  <1>5. BridgeTasks \cap Clients = {} /\ Nobody \notin Clients
    BY <1>3, SettingsAssumption
  <1> QED
    BY <1>2, <1>3, <1>4, <1>5

LEMMA EffectiveType ==
  ASSUME Typed, Listable(disk, selected)
  PROVE  /\ ReadOwn(disk, selected) \in [Mine -> Value]
         /\ ReadOwn(disk, selected)["live"] = Effective(disk, selected, "live")
  <1>1. /\ disk["device"] \in Doc
        /\ selected # Nobody => disk[selected] \in Doc
    BY Names DEF Typed, Listable, Files
  <1> QED
    BY <1>1 DEF ReadOwn, Effective, Mine, Keys, Doc, Value, LiveKeys, Theirs

\* What a batch makes of the files it touches.
LEMMA EditedHolds ==
  ASSUME Typed, NEW b \in Batch, NEW scope \in {"home", "device"}, Passes(disk, b, scope, selected)
  PROVE  /\ Touched(b, scope, selected) \subseteq Files
         /\ DOMAIN Edited(disk, b, scope, selected) = Touched(b, scope, selected)
         /\ \A f \in Touched(b, scope, selected) :
              /\ Edited(disk, b, scope, selected)[f] \in Doc
              /\ \A k \in Keys : (~(k \in DOMAIN b /\ FileOf(k, scope, selected) = f))
                   => Edited(disk, b, scope, selected)[f][k] = disk[f][k]
  <1>1. DOMAIN b \subseteq Keys /\ \A k \in DOMAIN b : b[k] \in Value
    BY DEF Batch
  <1>2. ASSUME NEW k \in DOMAIN b
        PROVE  FileOf(k, scope, selected) \in Files \cup {Nobody}
    <2>1. k \in {"live", "later", "restart", "embed", "net"}
      BY <1>1 DEF Keys, Mine, Theirs
    <2> QED
      BY <2>1 DEF Typed, FileOf, Theirs, Files
  <1>3. Nobody \notin Touched(b, scope, selected) /\ \A f \in Touched(b, scope, selected) : disk[f] # Bad
    <2>1. CASE DOMAIN b = {}
      BY <2>1 DEF Touched
    <2>2. CASE DOMAIN b # {}
      BY <2>2 DEF Passes
    <2> QED
      BY <2>1, <2>2
  <1>4. Touched(b, scope, selected) \subseteq Files
    BY <1>2, <1>3 DEF Touched
  <1>5. ASSUME NEW f \in Touched(b, scope, selected)
        PROVE  /\ Edited(disk, b, scope, selected)[f] \in Doc
               /\ \A k \in Keys : (~(k \in DOMAIN b /\ FileOf(k, scope, selected) = f))
                    => Edited(disk, b, scope, selected)[f][k] = disk[f][k]
    <2>1. disk[f] \in Doc
      BY <1>3, <1>4 DEF Typed
    <2>2. Edited(disk, b, scope, selected)[f]
            = [k \in Keys |-> IF k \in DOMAIN b /\ FileOf(k, scope, selected) = f THEN b[k] ELSE disk[f][k]]
      BY DEF Edited
    <2> QED
      BY <1>1, <2>1, <2>2 DEF Doc
  <1> QED
    BY <1>4, <1>5 DEF Edited

LEMMA PartType ==
  ASSUME NEW b \in Batch
  PROVE  /\ Part(b, Mine) \in Batch /\ DOMAIN Part(b, Mine) = DOMAIN b \cap Mine
         /\ Part(b, Theirs) \in Batch /\ DOMAIN Part(b, Theirs) = DOMAIN b \cap Theirs
         /\ \A scope, s : "bridge" \notin Workspaces /\ s \in Workspaces \cup {Nobody}
              => /\ Touched(Part(b, Mine), scope, s) \subseteq OwnFiles \cup {Nobody}
                 /\ Touched(Part(b, Theirs), scope, s) \subseteq {"bridge"}
                 /\ DOMAIN b \cap Theirs # {} => Touched(Part(b, Theirs), scope, s) = {"bridge"}
                 /\ DOMAIN b \cap Mine # {} => Touched(Part(b, Mine), scope, s) # {}
  <1>1. PICK D \in SUBSET Keys : b \in [D -> Value]
    BY DEF Batch
  <1>2. /\ Part(b, Mine) \in [D \cap Mine -> Value] /\ Part(b, Theirs) \in [D \cap Theirs -> Value]
    BY <1>1 DEF Part
  <1>3. D \cap Mine \in SUBSET Keys /\ D \cap Theirs \in SUBSET Keys
    OBVIOUS
  <1> QED
    BY <1>1, <1>2, <1>3 DEF Batch, Touched, FileOf, Mine, Theirs, OwnFiles

\* The check of the server's own part reads the device's file and the selected workspace's, whole.
LEMMA PassesAgain ==
  ASSUME setup \in DOMAIN Setups, NEW d, NEW e, DOMAIN d = Files, DOMAIN e = Files, NEW s \in Workspaces \cup {Nobody},
         \A f \in OwnFiles : e[f] = d[f], NEW b \in Batch, DOMAIN b \subseteq Mine, NEW scope \in {"home", "device"},
         Passes(d, b, scope, s)
  PROVE  Passes(e, b, scope, s)
  <1>1. CASE DOMAIN b = {}
    BY <1>1 DEF Passes
  <1>2. CASE DOMAIN b # {}
    <2>1. "bridge" \notin Workspaces /\ "device" \in OwnFiles /\ OwnFiles \subseteq Files /\ Nobody \notin OwnFiles
      BY Names DEF OwnFiles, Files
    <2>2. /\ Nobody \notin Touched(b, scope, s) /\ ~("later" \in DOMAIN b /\ scope = "device")
          /\ \A f \in Touched(b, scope, s) : d[f] # Bad
          /\ Accepted(Put(d, Edited(d, b, scope, s)), s, IF DOMAIN b \subseteq Theirs THEN Theirs ELSE Mine)
      BY <1>2 DEF Passes
    <2>3. \A k \in DOMAIN b : k = "live" \/ k = "later" \/ k = "restart"
      BY DEF Mine
    <2>4. Touched(b, scope, s) \subseteq OwnFiles
      BY <2>1, <2>2, <2>3 DEF Touched, FileOf, Theirs, OwnFiles
    <2>5. ASSUME NEW f \in Touched(b, scope, s)
          PROVE  Edited(e, b, scope, s)[f] = Edited(d, b, scope, s)[f]
      BY <2>4 DEF Edited
    <2>6. DOMAIN Edited(e, b, scope, s) = Touched(b, scope, s) /\ DOMAIN Edited(d, b, scope, s) = Touched(b, scope, s)
      BY DEF Edited
    <2> DEFINE D == Put(d, Edited(d, b, scope, s))
               E == Put(e, Edited(e, b, scope, s))
    <2>7. \A f \in OwnFiles : E[f] = D[f]
      BY <2>1, <2>5, <2>6 DEF Put
    <2>8. ~(DOMAIN b \subseteq Theirs)
      BY <1>2, <2>3 DEF Theirs
    <2>9. Accepted(D, s, Mine)
      BY <2>2, <2>8
    <2> HIDE DEF D, E
    <2>10. E["device"] = D["device"] /\ (s # Nobody => E[s] = D[s])
      BY <2>1, <2>7 DEF OwnFiles
    <2>11. \A k \in Mine : Effective(E, s, k) = Effective(D, s, k)
      BY <2>10 DEF Effective, Mine, Theirs
    <2>12. Accepted(E, s, Mine)
      BY <2>9, <2>10, <2>11 DEF Accepted, Listable
    <2> USE DEF D, E
    <2> QED
      BY <1>2, <2>2, <2>4, <2>8, <2>12 DEF Passes
  <1> QED
    BY <1>1, <1>2

-----------------------------------------------------------------------------
(* What steps leave alone *)

LEMMA SameSetup ==
  ASSUME setup' = setup
  PROVE  /\ My' = My /\ Clients' = Clients /\ Workspaces' = Workspaces /\ Refreshers' = Refreshers
         /\ BridgeTasks' = BridgeTasks /\ Files' = Files /\ OwnFiles' = OwnFiles /\ Calls' = Calls
         /\ \A kind : May(kind)' = May(kind)
         /\ (Alone' <=> Alone) /\ (Undisturbed' <=> Undisturbed)
  BY DEF My, Clients, Workspaces, Refreshers, BridgeTasks, Files, OwnFiles, Calls, May, Alone, Undisturbed

\* The server's part of the files reads the same.
LEMMA OwnReads ==
  ASSUME Typed, setup' = setup, selected' = selected, \A f \in OwnFiles : disk'[f] = disk[f]
  PROVE  /\ \A k \in Mine : Effective(disk', selected', k) = Effective(disk, selected, k)
         /\ ReadOwn(disk', selected') = ReadOwn(disk, selected)
         /\ Listable(disk', selected') = Listable(disk, selected)
  <1>1. disk'["device"] = disk["device"] /\ (selected # Nobody => disk'[selected] = disk[selected])
    BY DEF Typed, OwnFiles
  <1>2. ASSUME NEW k \in Mine
        PROVE  Effective(disk', selected', k) = Effective(disk, selected, k)
    BY <1>1 DEF Effective, Mine, Theirs
  <1> QED
    BY <1>1, <1>2 DEF ReadOwn, Listable

\* The steps past the check of the own part, those that write the own files and read them again, and
\* whether a call holds `writing`.
Past == {"bridge check", "bridge write", "reload", "bridge answer", "apply"}
Writing == {"write", "refresh", "swap"}
HasLock(x) == x.pc \in Past \cup Writing \cup {"list", "ask"} /\ x.answer # "lost"

\* What x keeps of the lock: it goes on holding it, takes it, or ends and lets it go.
Locks(c, x) ==
  \/ writing' = writing /\ (HasLock(x) => Holding(c))
  \/ writing = Nobody /\ writing' = c
  \/ (writing = Nobody \/ Holding(c)) /\ writing' = Nobody /\ x.pc = "done"

LEMMA HoldsIsHolding ==
  ASSUME NEW c
  PROVE  Holding(c) <=> HasLock(call[c])
  BY DEF Holding, HasLock, Past, Writing

LEMMA OneHolds ==
  ASSUME Inv, NEW c \in Clients, Holding(c), NEW d \in Clients, Holding(d)
  PROVE  c = d
  BY DEF Inv, CallsInv, Locked

\* What is said of a call does not depend on what else has changed.
LEMMA SameSaid ==
  ASSUME setup' = setup, NEW d
  PROVE  (Steps(call[d])' <=> Steps(call'[d])) /\ (Whole(call[d])' <=> Whole(call'[d]))
  <1>1. Workspaces' = Workspaces /\ \A kind : May(kind)' = May(kind)
    BY SameSetup
  <1>2. Steps(call[d])' <=> Steps(call'[d])
    BY <1>1 DEF Steps, OwnTouched, BridgeFile, Touched, FileOf
  <1>3. Whole(call[d])' <=> Whole(call'[d])
    BY <1>1, SameSetup DEF Whole
  <1> QED
    BY <1>2, <1>3

LEMMA TurnsCalls ==
  ASSUME Inv, setup' = setup, loading' = loading, NEW c \in Clients, NEW x \in Calls,
         call' = [call EXCEPT ![c] = x], Locks(c, x), Steps(x), Whole(x),
         loading # {} => x.pc \in {"idle", "done", "reload"} /\ ~HasLock(x)
  PROVE  CallsInv'
  <1>1. /\ Clients' = Clients /\ call' \in [Clients -> Calls] /\ call'[c] = x
        /\ \A d \in Clients \ {c} : call'[d] = call[d]
    BY SameSetup DEF Inv, Typed
  <1>2. ASSUME NEW d \in Clients
        PROVE  (Steps(call[d]) /\ Whole(call[d]))'
    <2>1. Steps(call'[d]) /\ Whole(call'[d])
      BY <1>1 DEF Inv, CallsInv
    <2> QED
      BY <2>1, SameSaid
  <1>3. ASSUME NEW d \in Clients, HasLock(call'[d])
        PROVE  writing' = d
    <2>1. CASE d = c
      BY <1>1, <1>3, <2>1, HoldsIsHolding DEF Locks, Inv, CallsInv, Locked, HasLock, Past, Writing
    <2>2. CASE d # c
      <3>1. Holding(d) /\ writing = d
        BY <1>1, <1>3, <2>2, HoldsIsHolding DEF Inv, CallsInv, Locked
      <3>2. writing # Nobody /\ ~Holding(c)
        BY <2>2, <3>1, OneHolds, Names DEF Inv, Typed
      <3> QED
        BY <3>1, <3>2 DEF Locks
    <2> QED
      BY <2>1, <2>2
  <1>4. loading' # {} => \A d \in Clients : call'[d].pc \in {"idle", "done", "reload"} /\ ~HasLock(call'[d])
    BY <1>1, HoldsIsHolding DEF Inv, CallsInv, Locked
  <1>5. Locked'
    BY <1>1, <1>3, <1>4 DEF Locked, Holding, HasLock, Past, Writing
  <1> QED
    BY <1>1, <1>2, <1>5 DEF CallsInv

\* A step of a client's call that changes nothing but the call and the lock.
Quietly == UNCHANGED <<setup, disk, selected, server, task, due, bridge>>

LEMMA QuietTurn ==
  ASSUME Inv, Quietly, NEW c \in Clients, NEW x \in Calls,
         call' = [call EXCEPT ![c] = x], Locks(c, x), Steps(x), Whole(x),
         loading # {} => x.pc \in {"idle", "done", "reload"} /\ ~HasLock(x),
         x.pc \in Past /\ x.answer # "lost" =>
           (Holding(c) /\ call[c].pc \in Past /\ x.batch = call[c].batch /\ x.scope = call[c].scope)
             \/ Passes(disk, Part(x.batch, Mine), x.scope, selected),
         Alone => /\ call[c].pc \in Writing => x.pc \in Writing
                  /\ x.pc = "swap" => \A new \in x.read : new["live"] = Effective(disk, selected, "live"),
         x.pc # "reload", call[c].pc # "reload"
  PROVE  Inv'
  <1>1. /\ UNCHANGED <<setup, disk, selected, loading, values, start, task, up, bstart, provider, alock, btask>>
        /\ Clients' = Clients /\ call' \in [Clients -> Calls] /\ call'[c] = x
        /\ \A d \in Clients \ {c} : call'[d] = call[d]
    BY SameSetup DEF Inv, Typed, Quietly, server, bridge
  <1>2. Typed'
    BY <1>1, SameSetup DEF Inv, Typed
  <1>3. CallsInv'
    BY <1>1, TurnsCalls
  <1>4. Checked'
    <2>1. ASSUME Undisturbed, NEW d \in Clients, call'[d].pc \in Past, call'[d].answer # "lost"
          PROVE  Passes(disk, Part(call'[d].batch, Mine), call'[d].scope, selected)
      <3>1. CASE d # c
        BY <1>1, <2>1, <3>1 DEF Inv, Checked, Holding, Past, OwnPart
      <3>2. CASE d = c
        BY <1>1, <2>1, <3>2 DEF Inv, Checked, Past, OwnPart
      <3> QED
        BY <3>1, <3>2
    <2>2. ASSUME Undisturbed, NEW d \in Clients, call'[d].pc \in Past, call'[d].answer # "lost"
          PROVE  Passes(disk, OwnPart(d), call[d].scope, selected)'
      <3>1. PICK y : y = call'[d]
        OBVIOUS
      <3>2. Passes(disk, Part(y.batch, Mine), y.scope, selected)
        BY <2>1, <2>2, <3>1
      <3>3. Passes(disk, Part(y.batch, Mine), y.scope, selected)'
        BY <1>1, <3>2
      <3> QED
        BY <3>1, <3>3 DEF OwnPart
    <2>3. (~May("bridge") => up)'
      BY <1>1 DEF Inv, Checked, May, My
    <2>4. ASSUME Undisturbed, NEW d \in Clients,
                 (Holding(d) /\ call[d].pc \in {"bridge check", "bridge write", "reload", "bridge answer", "apply"})'
          PROVE  Passes(disk, OwnPart(d), call[d].scope, selected)'
      BY <2>2, <2>4 DEF Holding, Past
    <2>5. Undisturbed' <=> Undisturbed
      BY <1>1, SameSetup
    <2> QED
      BY <1>1, <2>3, <2>4, <2>5 DEF Checked
  <1>5. LiveInv'
    <2>1. \A k : Effective(disk', selected', k) = Effective(disk, selected, k)
      BY <1>1
    <2> QED
      BY <1>1, <2>1, SameSetup DEF Inv, LiveInv, Writing
  <1>7. ProviderInv'
    <2>1. Reloaders' = Reloaders
      BY <1>1, SameSetup DEF Reloaders, Reloading
    <2> QED
      BY <1>1, <2>1 DEF Inv, ProviderInv
  <1> QED
    BY <1>2, <1>3, <1>4, <1>5, <1>7 DEF Inv
-----------------------------------------------------------------------------
(* A call's steps that change nothing but the call and the lock *)

LEMMA CallFacts ==
  ASSUME Inv, NEW c \in Clients
  PROVE  /\ call[c] \in Calls /\ Steps(call[c]) /\ Whole(call[c])
         /\ DOMAIN call = Clients
         /\ loading # {} => call[c].pc \in {"idle", "done", "reload"} /\ ~HasLock(call[c])
         /\ call[c].pc \notin {"done", "reload"} => call[c].answer = "none"
         /\ OwnPart(c) \in Batch /\ DOMAIN OwnPart(c) = DOMAIN call[c].batch \cap Mine
         /\ BridgePart(c) \in Batch /\ DOMAIN BridgePart(c) = DOMAIN call[c].batch \cap Theirs
  <1>1. call[c] \in Calls /\ Steps(call[c]) /\ Whole(call[c]) /\ DOMAIN call = Clients
    BY DEF Inv, Typed, CallsInv
  <1>2. loading # {} => call[c].pc \in {"idle", "done", "reload"} /\ ~HasLock(call[c])
    BY HoldsIsHolding DEF Inv, CallsInv, Locked
  <1>3. call[c].pc \notin {"done", "reload"} => call[c].answer = "none"
    BY <1>1 DEF Steps
  <1>4. call[c].batch \in Batch
    BY <1>1 DEF Calls
  <1> QED
    BY <1>1, <1>2, <1>3, <1>4, PartType DEF OwnPart, BridgePart

\* The staged files are the server's.
LEMMA StagedType ==
  ASSUME NEW y \in Calls
  PROVE  \E D \in SUBSET OwnFiles : y.staged \in [D -> Doc]
  <1>1. y.staged \in UNION { [D -> Doc] : D \in SUBSET OwnFiles }
    BY DEF Calls
  <1> QED
    BY <1>1

LEMMA ConfigSetKeeps ==
  ASSUME Inv, NEW c \in Clients, NEW b \in My.batches, NEW scope \in My.scopes, ConfigSet(c, b, scope)
  PROVE  Inv'
  <1>1. PICK x : x = [Idle EXCEPT !.pc = "called", !.batch = b, !.scope = scope]
    OBVIOUS
  <1>2. /\ x.pc = "called" /\ x.batch = b /\ x.scope = scope /\ x.staged = [f \in {} |-> Empty]
        /\ x.wrote = {} /\ x.answer = "none"
    BY <1>1 DEF Idle
  <1>3. b \in Batch /\ scope \in {"home", "device"}
    BY Names DEF Inv, Typed
  <1>4. x \in Calls
    <2>1. [f \in {} |-> Empty] \in [{} -> Doc]
      OBVIOUS
    <2> QED
      BY <1>1, <1>3, <2>1 DEF Idle, Calls, Pcs
  <1>5. Steps(x) /\ Whole(x) /\ ~HasLock(x)
    BY <1>2 DEF Steps, Whole, HasLock, Past, Writing
  <1>6. Locks(c, x)
    BY <1>5 DEF Locks, ConfigSet
  <1>7. Quietly /\ call' = [call EXCEPT ![c] = x] /\ loading = {} /\ call[c].pc \in {"idle", "done"}
    BY <1>1 DEF ConfigSet, Quietly
  <1> QED
    BY <1>2, <1>4, <1>5, <1>6, <1>7, QuietTurn DEF Past, Writing

LEMMA CheckOwnKeeps ==
  ASSUME Inv, NEW c \in Clients, CheckOwn(c)
  PROVE  Inv'
  <1>1. Quietly /\ call[c].pc = "called" /\ writing = Nobody /\ call[c].answer = "none" /\ loading = {}
        /\ call[c].wrote = {} /\ DOMAIN call[c].staged = {}
    BY CallFacts DEF CheckOwn, Quietly, Steps
  <1>2. CASE Passes(disk, OwnPart(c), call[c].scope, selected) /\ Goto(c, AfterCheck(c)) /\ writing' = c
    <2>1. PICK x : x = [call[c] EXCEPT !.pc = AfterCheck(c)]
      OBVIOUS
    <2>2. /\ AfterCheck(c) \in {"apply", "bridge check", "bridge write"}
          /\ AfterCheck(c) = "apply" <=> DOMAIN BridgePart(c) = {}
      BY DEF AfterCheck, IsMixed
    <2>3. /\ x \in Calls /\ x.pc = AfterCheck(c) /\ x.batch = call[c].batch /\ x.scope = call[c].scope
          /\ x.staged = call[c].staged /\ x.wrote = {} /\ x.answer = "none"
      BY <1>1, <2>1, <2>2, CallFacts DEF Calls, Pcs
    <2>4. Steps(x) /\ Whole(x) /\ Locks(c, x)
      BY <1>1, <1>2, <2>2, <2>3 DEF Steps, Whole, BridgeFile, BridgePart, Locks
    <2>5. call' = [call EXCEPT ![c] = x]
      BY <1>2, <2>1, CallFacts DEF Goto
    <2> QED
      BY <1>1, <1>2, <2>2, <2>3, <2>4, <2>5, CallFacts, QuietTurn DEF OwnPart, Past, Writing
  <1>3. CASE Fail(c, "refused")
    <2>1. PICK x : x = [call[c] EXCEPT !.pc = "done", !.answer = "refused"]
      OBVIOUS
    <2>2. /\ x \in Calls /\ x.pc = "done" /\ x.batch = call[c].batch /\ x.scope = call[c].scope
          /\ x.staged = call[c].staged /\ x.wrote = {} /\ x.answer = "refused"
      BY <1>1, <2>1, CallFacts DEF Calls, Pcs
    <2>3. Steps(x) /\ Whole(x) /\ Locks(c, x) /\ ~HasLock(x)
      BY <1>1, <1>3, <2>2 DEF Steps, Whole, Locks, Fail, HasLock, Past, Writing
    <2>4. call' = [call EXCEPT ![c] = x]
      BY <1>3, <2>1, CallFacts DEF Fail
    <2> QED
      BY <1>1, <2>2, <2>3, <2>4, CallFacts, QuietTurn DEF Past, Writing
  <1> QED
    BY <1>2, <1>3 DEF CheckOwn

\* What a call's failure makes of it.
Failed(c, answer) == [call[c] EXCEPT !.pc = "done", !.answer = answer]

LEMMA FailedIsWhole ==
  ASSUME Inv, NEW c \in Clients, NEW answer \in {"refused", "not running"}, call[c].wrote = {}
  PROVE  Whole(Failed(c, answer))
  <1>1. PICK x : x = Failed(c, answer)
    OBVIOUS
  <1>2. x.pc = "done" /\ x.batch = call[c].batch /\ x.scope = call[c].scope /\ x.wrote = {} /\ x.answer = answer
    BY <1>1, CallFacts DEF Calls, Failed
  <1>3. Whole(x)
    BY <1>2 DEF Whole
  <1> QED
    BY <1>1, <1>3

LEMMA FailKeeps ==
  ASSUME Inv, NEW c \in Clients, NEW answer \in {"refused", "partial", "not running"}, Quietly, Fail(c, answer),
         call[c].pc # "reload", Holding(c) \/ writing = Nobody, loading = {} \/ call[c].pc \notin {"write", "refresh", "swap"},
         Whole(Failed(c, answer)), ~(Alone /\ call[c].pc \in Writing)
  PROVE  Inv'
  <1>1. PICK x : x = Failed(c, answer)
    OBVIOUS
  <1>2. /\ x \in Calls /\ x.pc = "done" /\ x.batch = call[c].batch /\ x.scope = call[c].scope
        /\ x.staged = call[c].staged /\ x.wrote = call[c].wrote /\ x.answer = answer
    BY <1>1, CallFacts DEF Calls, Pcs, Failed
  <1>3. Steps(x) /\ Whole(x) /\ Locks(c, x) /\ ~HasLock(x)
    BY <1>1, <1>2 DEF Steps, Locks, Fail, HasLock, Past, Writing
  <1>4. call' = [call EXCEPT ![c] = x]
    BY <1>1, CallFacts DEF Fail, Failed
  <1> QED
    BY <1>2, <1>3, <1>4, CallFacts, QuietTurn DEF Past, Writing

LEMMA HoldsWriting ==
  ASSUME Inv, NEW c \in Clients, call[c].pc \in {"bridge check", "bridge write", "bridge answer", "apply", "write", "refresh", "swap", "list", "ask"}
  PROVE  Holding(c) /\ loading = {} /\ call[c].answer = "none" /\ writing = c
  BY CallFacts DEF Holding, Inv, CallsInv, Locked

LEMMA BridgeCheckKeeps ==
  ASSUME Inv, NEW c \in Clients, BridgeCheck(c)
  PROVE  Inv'
  <1>1. /\ Quietly /\ call[c].pc = "bridge check" /\ Holding(c) /\ loading = {} /\ call[c].answer = "none"
        /\ call[c].wrote = {} /\ DOMAIN call[c].staged = {} /\ DOMAIN Part(call[c].batch, Theirs) # {}
    BY CallFacts, HoldsWriting DEF BridgeCheck, Quietly, Steps
  <1>2. ASSUME NEW answer \in {"refused", "not running"}, Fail(c, answer)
        PROVE  Inv'
    <2>1. Whole(Failed(c, answer))
      BY <1>1, FailedIsWhole
    <2> QED
      BY <1>1, <1>2, <2>1, FailKeeps DEF Writing
  <1>3. CASE Goto(c, "bridge write") /\ writing' = writing
    <2>1. PICK x : x = [call[c] EXCEPT !.pc = "bridge write"]
      OBVIOUS
    <2>2. /\ x \in Calls /\ x.pc = "bridge write" /\ x.batch = call[c].batch /\ x.scope = call[c].scope
          /\ x.staged = call[c].staged /\ x.wrote = {} /\ x.answer = "none"
      BY <1>1, <2>1, CallFacts DEF Calls, Pcs
    <2>3. Steps(x) /\ Whole(x) /\ Locks(c, x)
      BY <1>1, <1>3, <2>2 DEF Steps, Whole, Locks
    <2>4. call' = [call EXCEPT ![c] = x]
      BY <1>3, <2>1, CallFacts DEF Goto
    <2> QED
      BY <1>1, <2>2, <2>3, <2>4, CallFacts, QuietTurn DEF Past, Writing
  <1> QED
    BY <1>2, <1>3 DEF BridgeCheck

LEMMA BridgeAnswerKeeps ==
  ASSUME Inv, NEW c \in Clients, BridgeAnswer(c)
  PROVE  Inv'
  <1>1. /\ Quietly /\ call[c].pc = "bridge answer" /\ Holding(c) /\ loading = {} /\ call[c].answer = "none"
        /\ call[c].wrote = {"bridge"} /\ DOMAIN call[c].staged = {} /\ DOMAIN Part(call[c].batch, Theirs) # {}
        /\ writing' = writing
    BY CallFacts, HoldsWriting DEF BridgeAnswer, Quietly, Steps
  <1>2. PICK x : x = [call[c] EXCEPT !.pc = IF DOMAIN OwnPart(c) = {} THEN "list" ELSE "apply", !.pending = BridgePending]
    OBVIOUS
  <1>3. /\ x \in Calls /\ x.batch = call[c].batch /\ x.scope = call[c].scope
        /\ x.staged = call[c].staged /\ x.wrote = {"bridge"} /\ x.answer = "none"
        /\ x.pc = IF DOMAIN OwnPart(c) = {} THEN "list" ELSE "apply"
    <2>1. PICK pc : pc = IF DOMAIN OwnPart(c) = {} THEN "list" ELSE "apply"
      OBVIOUS
    <2>2. pc \in Pcs /\ BridgePending \subseteq Keys
      BY <2>1 DEF Pcs, BridgePending, Inv, Typed, Keys, Theirs
    <2>3. PICK y : y = call[c]
      OBVIOUS
    <2>4. y \in Calls /\ x = [y EXCEPT !.pc = pc, !.pending = BridgePending]
      BY <1>2, <2>1, <2>3, CallFacts
    <2>5. /\ x \in Calls /\ x.batch = y.batch /\ x.scope = y.scope /\ x.staged = y.staged
          /\ x.wrote = y.wrote /\ x.answer = y.answer /\ x.pc = pc
      BY <2>2, <2>4 DEF Calls
    <2> QED
      BY <1>1, <2>1, <2>3, <2>5
  <1>4. Steps(x)
    <2>1. BridgeFile(x) = {"bridge"}
      BY <1>1, <1>3 DEF BridgeFile
    <2>2. CASE x.pc = "list"
      <3>1. \A s : OwnTouched(x, s) = {}
        BY <1>3, <2>2 DEF OwnTouched, Touched, OwnPart
      <3>2. x.wrote \cup DOMAIN x.staged = BridgeFile(x) \cup OwnTouched(x, Nobody)
        BY <1>1, <1>3, <2>1, <3>1
      <3> QED
        BY <1>1, <1>3, <2>2, <3>2 DEF Steps
    <2>3. CASE x.pc = "apply"
      BY <1>1, <1>3, <2>1, <2>3 DEF Steps
    <2> QED
      BY <1>3, <2>2, <2>3
  <1>5. Whole(x) /\ Locks(c, x)
    BY <1>1, <1>3 DEF Whole, Locks
  <1>6. call' = [call EXCEPT ![c] = x]
    BY <1>2, CallFacts DEF BridgeAnswer, Goto
  <1> QED
    BY <1>1, <1>3, <1>4, <1>5, <1>6, CallFacts, QuietTurn DEF Past, Writing

LEMMA ApplyKeeps ==
  ASSUME Inv, NEW c \in Clients, Apply(c)
  PROVE  Inv'
  <1>1. /\ Quietly /\ call[c].pc = "apply" /\ Holding(c) /\ loading = {} /\ call[c].answer = "none"
        /\ call[c].wrote = BridgeFile(call[c]) /\ DOMAIN call[c].staged = {}
    BY CallFacts, HoldsWriting DEF Apply, Quietly, Steps
  <1>2. CASE /\ ~Passes(disk, OwnPart(c), call[c].scope, selected)
             /\ Fail(c, IF DOMAIN BridgePart(c) = {} THEN "refused" ELSE "partial")
    <2>1. PICK answer \in {"refused", "partial"} :
            /\ answer = "refused" <=> DOMAIN BridgePart(c) = {}
            /\ Fail(c, answer)
      BY <1>2
    <2>2. ~Undisturbed
      BY <1>1, <1>2 DEF Inv, Checked
    <2>3. Whole(Failed(c, answer))
      <3>1. PICK x : x = Failed(c, answer)
        OBVIOUS
      <3>2. /\ x.batch = call[c].batch /\ x.wrote = BridgeFile(x) /\ x.answer = answer
        BY <1>1, <3>1, CallFacts DEF Failed, Calls, BridgeFile
      <3> QED
        BY <2>1, <2>2, <3>1, <3>2 DEF Whole, BridgeFile, BridgePart
    <2> QED
      BY <1>1, <2>1, <2>3, FailKeeps DEF Writing
  <1>3. CASE /\ Passes(disk, OwnPart(c), call[c].scope, selected) /\ UNCHANGED writing
             /\ call' = [call EXCEPT ![c].pc = "write",
                                     ![c].staged = Edited(disk, OwnPart(c), call[c].scope, selected)]
    <2>1. PICK e : e = Edited(disk, OwnPart(c), call[c].scope, selected)
      OBVIOUS
    <2>2. PICK x : x = [call[c] EXCEPT !.pc = "write", !.staged = e]
      OBVIOUS
    <2>3. /\ DOMAIN e = OwnTouched(call[c], selected) /\ DOMAIN e \subseteq OwnFiles
          /\ \A f \in DOMAIN e : e[f] \in Doc
          /\ e = [f \in DOMAIN e |-> e[f]]
      <3>1. call[c].scope \in {"home", "device"} /\ call[c].batch \in Batch
        BY CallFacts DEF Calls
      <3>2. DOMAIN e = OwnTouched(call[c], selected) /\ DOMAIN e \subseteq Files
            /\ \A f \in DOMAIN e : e[f] \in Doc
        <4>1. PICK b : b = OwnPart(c)
          OBVIOUS
        <4>2. b \in Batch /\ Typed /\ Passes(disk, b, call[c].scope, selected)
          BY <1>3, <4>1, CallFacts DEF Inv
        <4>3. /\ Touched(b, call[c].scope, selected) \subseteq Files
              /\ DOMAIN e = Touched(b, call[c].scope, selected)
              /\ \A f \in Touched(b, call[c].scope, selected) : e[f] \in Doc
          BY <2>1, <3>1, <4>1, <4>2, EditedHolds
        <4> QED
          BY <4>1, <4>3 DEF OwnTouched, OwnPart
      <3>3. DOMAIN e \subseteq OwnFiles
        <4>1. "bridge" \notin Workspaces /\ Nobody \notin Files /\ selected \in Workspaces \cup {Nobody}
          BY Names DEF Inv, Typed
        <4>2. Touched(Part(call[c].batch, Mine), call[c].scope, selected) \subseteq OwnFiles \cup {Nobody}
          BY <3>1, <4>1, PartType
        <4> QED
          BY <3>2, <4>1, <4>2 DEF OwnTouched
      <3>4. e = [f \in DOMAIN e |-> e[f]]
        BY <2>1 DEF Edited
      <3> QED
        BY <3>2, <3>3, <3>4
    <2>4. e \in UNION { [D -> Doc] : D \in SUBSET OwnFiles }
      BY <2>3
    <2>5. /\ x \in Calls /\ x.pc = "write" /\ x.batch = call[c].batch /\ x.scope = call[c].scope
          /\ x.staged = e /\ x.wrote = call[c].wrote /\ x.answer = "none"
      BY <1>1, <2>2, <2>4, CallFacts DEF Calls, Pcs
    <2>6. x.wrote \cup DOMAIN x.staged = BridgeFile(x) \cup OwnTouched(x, selected)
      BY <1>1, <2>3, <2>5 DEF BridgeFile, OwnTouched
    <2>7. Steps(x) /\ Whole(x) /\ Locks(c, x)
      BY <1>1, <1>3, <2>5, <2>6 DEF Steps, Whole, Locks, Inv, Typed
    <2>8. call' = [call EXCEPT ![c] = x]
      BY <1>3, <2>1, <2>2, CallFacts
    <2> QED
      BY <1>1, <2>3, <2>5, <2>7, <2>8, QuietTurn DEF Past, Writing
  <1> QED
    BY <1>2, <1>3 DEF Apply

LEMMA ListableWhenWhole ==
  ASSUME Inv, \A f \in Files : disk[f] # Bad
  PROVE  Listable(disk, selected)
  BY DEF Inv, Typed, Listable, Files

\* A call that is writing its files goes on.
LEMMA GoesOnWriting ==
  ASSUME Inv, NEW c \in Clients, call[c].pc \in Writing, NEW x \in Calls, x.pc \in Writing \cup {"list"},
         x.batch = call[c].batch, x.scope = call[c].scope, x.answer = "none",
         x.wrote \cup DOMAIN x.staged = call[c].wrote \cup DOMAIN call[c].staged,
         x.pc # "write" => DOMAIN x.staged = {}
  PROVE  Steps(x) /\ Whole(x)
  <1>1. PICK s \in Workspaces \cup {Nobody} :
          call[c].wrote \cup DOMAIN call[c].staged = BridgeFile(call[c]) \cup OwnTouched(call[c], s)
    BY CallFacts DEF Steps, Writing
  <1>2. x.wrote \cup DOMAIN x.staged = BridgeFile(x) \cup OwnTouched(x, s)
    BY <1>1 DEF BridgeFile, OwnTouched
  <1>3. Steps(x)
    BY <1>2 DEF Steps, Writing
  <1> QED
    BY <1>3 DEF Whole, Writing

LEMMA RefreshReadKeeps ==
  ASSUME Inv, NEW c \in Clients, RefreshRead(c)
  PROVE  Inv'
  <1>1. /\ Quietly /\ call[c].pc = "refresh" /\ Holding(c) /\ loading = {} /\ call[c].answer = "none"
        /\ DOMAIN call[c].staged = {} /\ writing' = writing
    BY CallFacts, HoldsWriting DEF RefreshRead, Quietly, Steps
  <1>2. CASE /\ Listable(disk, selected)
             /\ call' = [call EXCEPT ![c].pc = "swap", ![c].read = {ReadOwn(disk, selected)}]
    <2>1. PICK new : new = ReadOwn(disk, selected)
      OBVIOUS
    <2>2. PICK x : x = [call[c] EXCEPT !.pc = "swap", !.read = {new}]
      OBVIOUS
    <2>3. new \in [Mine -> Value] /\ new["live"] = Effective(disk, selected, "live")
      BY <1>2, <2>1, EffectiveType DEF Inv
    <2>4. /\ x \in Calls /\ x.pc = "swap" /\ x.batch = call[c].batch /\ x.scope = call[c].scope
          /\ x.staged = call[c].staged /\ x.wrote = call[c].wrote /\ x.answer = "none" /\ x.read = {new}
      BY <1>1, <2>2, <2>3, CallFacts DEF Calls, Pcs
    <2>5. Steps(x) /\ Whole(x) /\ Locks(c, x)
      BY <1>1, <2>4, GoesOnWriting DEF Locks, Writing
    <2>6. call' = [call EXCEPT ![c] = x]
      BY <1>2, <2>1, <2>2, CallFacts
    <2> QED
      BY <1>1, <2>3, <2>4, <2>5, <2>6, CallFacts, QuietTurn DEF Past, Writing
  <1>3. CASE ~Listable(disk, selected) /\ Goto(c, "list")
    <2>1. ~Alone
      BY <1>3, ListableWhenWhole DEF Inv, LiveInv
    <2>2. PICK x : x = [call[c] EXCEPT !.pc = "list"]
      OBVIOUS
    <2>3. /\ x \in Calls /\ x.pc = "list" /\ x.batch = call[c].batch /\ x.scope = call[c].scope
          /\ x.staged = call[c].staged /\ x.wrote = call[c].wrote /\ x.answer = "none"
      BY <1>1, <2>2, CallFacts DEF Calls, Pcs
    <2>4. Steps(x) /\ Whole(x) /\ Locks(c, x)
      BY <1>1, <2>3, GoesOnWriting DEF Locks, Writing
    <2>5. call' = [call EXCEPT ![c] = x]
      BY <1>3, <2>2, CallFacts DEF Goto
    <2> QED
      BY <1>1, <2>1, <2>3, <2>4, <2>5, CallFacts, QuietTurn DEF Past
  <1> QED
    BY <1>2, <1>3 DEF RefreshRead

\* A call whose files are all written is whole, whatever it answers then.
LEMMA ListIsWhole ==
  ASSUME Inv, NEW c \in Clients, call[c].pc \in {"list", "ask"}, NEW x \in Calls, x.batch = call[c].batch,
         x.scope = call[c].scope, x.wrote = call[c].wrote, ~May("garbled") => x.answer # "refused", x.answer # "partial"
  PROVE  Whole(x)
  <1>1. PICK s \in Workspaces \cup {Nobody} : x.wrote = BridgeFile(x) \cup OwnTouched(x, s)
    <2>1. DOMAIN call[c].staged = {} /\ \E s \in Workspaces \cup {Nobody} :
            call[c].wrote \cup DOMAIN call[c].staged = BridgeFile(call[c]) \cup OwnTouched(call[c], s)
      BY CallFacts DEF Steps
    <2> QED
      BY <2>1 DEF BridgeFile, OwnTouched
  <1>2. /\ "bridge" \notin Workspaces /\ Nobody \notin Files /\ x.wrote \subseteq Files /\ x.batch \in Batch
        /\ x.scope \in {"home", "device"}
    BY Names DEF Inv, Typed, Calls
  <1>3. /\ "bridge" \notin OwnTouched(x, s)
        /\ DOMAIN Part(x.batch, Mine) # {} => OwnTouched(x, s) # {}
        /\ DOMAIN Part(x.batch, Mine) = {} => OwnTouched(x, s) = {}
    <2>1. OwnTouched(x, s) \subseteq OwnFiles \cup {Nobody}
          /\ (DOMAIN x.batch \cap Mine # {} => OwnTouched(x, s) # {}) /\ DOMAIN Part(x.batch, Mine) = DOMAIN x.batch \cap Mine
      BY <1>2, PartType DEF OwnTouched
    <2>2. Nobody \notin OwnTouched(x, s)
      BY <1>1, <1>2
    <2>3. DOMAIN Part(x.batch, Mine) = {} => OwnTouched(x, s) = {}
      BY DEF OwnTouched, Touched
    <2> QED
      BY <1>2, <2>1, <2>2, <2>3 DEF OwnFiles
  <1>4. /\ ("bridge" \in x.wrote) <=> (DOMAIN Part(x.batch, Theirs) # {})
        /\ (x.wrote \ {"bridge"} # {}) <=> (DOMAIN Part(x.batch, Mine) # {})
    BY <1>1, <1>3 DEF BridgeFile
  <1>5. ASSUME DOMAIN Part(x.batch, Theirs) = {}, "restart" \in DOMAIN Part(x.batch, Mine),
               DOMAIN Part(x.batch, Mine) # {"restart"}, x.scope = "home"
        PROVE  \E w \in Workspaces : x.wrote = {w, "device"}
    <2>1. PICK b : b = Part(x.batch, Mine)
      OBVIOUS
    <2>2. DOMAIN b \subseteq {"live", "later", "restart"} /\ "restart" \in DOMAIN b /\ \E k \in DOMAIN b : k # "restart"
      BY <1>5, <2>1 DEF Part, Mine
    <2>3. OwnTouched(x, s) = {FileOf(k, "home", s) : k \in DOMAIN b}
      BY <1>5, <2>1 DEF OwnTouched, Touched
    <2>4. \A k \in DOMAIN b : FileOf(k, "home", s) = IF k = "restart" THEN "device" ELSE s
      BY <2>2 DEF FileOf, Theirs
    <2>5. OwnTouched(x, s) = {s, "device"}
      BY <2>2, <2>3, <2>4
    <2>6. x.wrote = {s, "device"}
      BY <1>1, <1>5, <2>5 DEF BridgeFile
    <2> QED
      BY <1>2, <2>6
  <1>6. ASSUME DOMAIN Part(x.batch, Mine) # {}, DOMAIN Part(x.batch, Theirs) # {}
        PROVE  ("bridge" \in x.wrote) <=> (\E f \in x.wrote : f # "bridge")
    BY <1>4, <1>6
  <1> QED
    BY <1>4, <1>5, <1>6 DEF Whole

LEMMA OwnPendingType ==
  ASSUME Inv
  PROVE  OwnPending \subseteq Keys /\ BridgePending \subseteq Keys
  BY DEF OwnPending, BridgePending, Inv, Typed, Keys, Mine, Theirs

\* A call that has listed what it must succeeds.
LEMMA SucceedKeeps ==
  ASSUME Inv, NEW c \in Clients, NEW p \in SUBSET Keys, Quietly, call[c].pc \in {"list", "ask"}, Succeed(c, p)
  PROVE  Inv'
  <1>1. Holding(c) /\ loading = {} /\ call[c].answer = "none" /\ DOMAIN call[c].staged = {} /\ writing' = Nobody
    BY CallFacts, HoldsWriting DEF Steps, Succeed
  <1>2. PICK x : x = [call[c] EXCEPT !.pc = "done", !.answer = "ok", !.pending = @ \cup p]
    OBVIOUS
  <1>3. /\ x \in Calls /\ x.pc = "done" /\ x.batch = call[c].batch /\ x.scope = call[c].scope
        /\ x.staged = call[c].staged /\ x.wrote = call[c].wrote /\ x.answer = "ok"
    BY <1>2, CallFacts DEF Calls, Pcs
  <1>4. Whole(x)
    BY <1>3, ListIsWhole
  <1>5. Steps(x) /\ Locks(c, x) /\ ~HasLock(x)
    BY <1>1, <1>3 DEF Steps, Locks, HasLock, Past, Writing
  <1>6. call' = [call EXCEPT ![c] = x]
    BY <1>2, CallFacts DEF Succeed
  <1> QED
    BY <1>1, <1>3, <1>4, <1>5, <1>6, QuietTurn DEF Past, Writing

LEMMA AskKeeps ==
  ASSUME Inv, NEW c \in Clients, Ask(c)
  PROVE  Inv'
  <1>1. PICK p : p = IF up THEN BridgePending ELSE {}
    OBVIOUS
  <1>2. p \in SUBSET Keys /\ Succeed(c, p) /\ Quietly /\ call[c].pc = "ask"
    BY <1>1, OwnPendingType DEF Ask, Quietly
  <1> QED
    BY <1>2, SucceedKeeps

LEMMA ListKeeps ==
  ASSUME Inv, NEW c \in Clients, List(c)
  PROVE  Inv'
  <1>1. /\ Quietly /\ call[c].pc = "list" /\ Holding(c) /\ loading = {} /\ call[c].answer = "none"
        /\ DOMAIN call[c].staged = {}
    BY CallFacts, HoldsWriting DEF List, Quietly, Steps
  <1>2. CASE ~Listable(disk, selected) /\ Fail(c, "refused")
    <2>1. May("garbled")
      <3>1. SUFFICES ASSUME ~May("garbled")
                     PROVE  FALSE
        OBVIOUS
      <3>2. \A f \in Files : disk[f] # Bad
        BY <3>1, SettingsAssumption DEF Inv, Typed, Doc
      <3> QED
        BY <1>2, <3>2, ListableWhenWhole
    <2>2. PICK x : x = Failed(c, "refused")
      OBVIOUS
    <2>3. /\ x \in Calls /\ x.batch = call[c].batch /\ x.scope = call[c].scope /\ x.wrote = call[c].wrote
          /\ x.answer = "refused"
      BY <2>2, CallFacts DEF Failed, Calls, Pcs
    <2>4. Whole(Failed(c, "refused"))
      BY <1>1, <2>1, <2>2, <2>3, ListIsWhole
    <2> QED
      BY <1>1, <1>2, <2>4, FailKeeps DEF Writing
  <1>3. CASE Succeed(c, OwnPending)
    BY <1>1, <1>3, OwnPendingType, SucceedKeeps
  <1>4. CASE /\ call' = [call EXCEPT ![c].pc = "ask", ![c].pending = @ \cup OwnPending]
             /\ UNCHANGED writing
    <2>1. PICK p \in SUBSET Keys : p = OwnPending
      BY OwnPendingType
    <2>2. PICK x : x = [call[c] EXCEPT !.pc = "ask", !.pending = @ \cup p]
      OBVIOUS
    <2>3. /\ x \in Calls /\ x.pc = "ask" /\ x.batch = call[c].batch /\ x.scope = call[c].scope
          /\ x.staged = call[c].staged /\ x.wrote = call[c].wrote /\ x.answer = "none"
      BY <1>1, <2>2, CallFacts DEF Calls, Pcs
    <2>4. Whole(x)
      BY <1>1, <2>3, ListIsWhole
    <2>5. \E s \in Workspaces \cup {Nobody} : x.wrote \cup DOMAIN x.staged = BridgeFile(x) \cup OwnTouched(x, s)
      <3>1. PICK s \in Workspaces \cup {Nobody} :
              call[c].wrote \cup DOMAIN call[c].staged = BridgeFile(call[c]) \cup OwnTouched(call[c], s)
        BY <1>1, CallFacts DEF Steps
      <3>2. x.wrote \cup DOMAIN x.staged = BridgeFile(x) \cup OwnTouched(x, s)
        BY <2>3, <3>1 DEF BridgeFile, OwnTouched
      <3> QED
        BY <3>2
    <2>6. Steps(x) /\ Locks(c, x)
      BY <1>1, <1>4, <2>3, <2>5 DEF Steps, Locks
    <2>7. call' = [call EXCEPT ![c] = x]
      BY <1>4, <2>1, <2>2, CallFacts
    <2> QED
      BY <1>1, <2>3, <2>4, <2>6, <2>7, QuietTurn DEF Past, Writing
  <1> QED
    BY <1>2, <1>3, <1>4 DEF List

-----------------------------------------------------------------------------
(* What the other steps leave alone of the invariant *)

LEMMA SameCalls ==
  ASSUME Inv, UNCHANGED <<setup, call, writing, loading>>
  PROVE  CallsInv'
  <1>1. Clients' = Clients
    BY SameSetup
  <1>2. ASSUME NEW d \in Clients
        PROVE  (Steps(call[d]) /\ Whole(call[d]))'
    <2>1. Steps(call'[d]) /\ Whole(call'[d])
      BY DEF Inv, CallsInv
    <2>2. Steps(call[d])'
      BY <2>1, SameSetup DEF Steps, OwnTouched, BridgeFile, Touched, FileOf
    <2>3. Whole(call[d])'
      BY <2>1, SameSetup DEF Whole
    <2> QED
      BY <2>2, <2>3
  <1>3. Locked'
    BY <1>1 DEF Inv, CallsInv, Locked, Holding
  <1> QED
    BY <1>1, <1>2, <1>3 DEF CallsInv

\* Nobody but users, sessions and selections moves what the check of the own part has read; nobody gets
\* past the check.
LEMMA StillChecked ==
  ASSUME Inv, setup' = setup, ~May("bridge") => up',
         DOMAIN disk' = Files, Undisturbed => selected' = selected /\ \A f \in OwnFiles : disk'[f] = disk[f],
         \A d \in Clients : HasLock(call'[d]) /\ call'[d].pc \in Past =>
           /\ Holding(d) /\ call[d].pc \in Past
           /\ call'[d].batch = call[d].batch /\ call'[d].scope = call[d].scope
  PROVE  Checked'
  <1>1. (~May("bridge") => up)'
    BY DEF May, My
  <1>2. ASSUME Undisturbed, NEW d \in Clients, HasLock(call'[d]), call'[d].pc \in Past
        PROVE  Passes(disk, OwnPart(d), call[d].scope, selected)'
    <2>1. PICK y : y = call'[d]
      OBVIOUS
    <2>2. PICK e : e = disk'
      OBVIOUS
    <2>3. PICK g : g = disk
      OBVIOUS
    <2>4. PICK t : t = selected
      OBVIOUS
    <2>5. /\ Passes(g, Part(y.batch, Mine), y.scope, t)
          /\ y.batch \in Batch /\ y.scope \in {"home", "device"}
      BY <1>2, <2>1, <2>3, <2>4, CallFacts DEF Inv, Checked, Past, OwnPart, Calls
    <2>6. /\ \A f \in OwnFiles : e[f] = g[f]
          /\ DOMAIN e = Files /\ DOMAIN g = Files /\ t \in Workspaces \cup {Nobody} /\ selected' = t
          /\ setup \in DOMAIN Setups
      BY <1>2, <2>2, <2>3, <2>4 DEF Inv, Typed
    <2>7. Part(y.batch, Mine) \in Batch /\ DOMAIN Part(y.batch, Mine) \subseteq Mine
      BY <2>5, PartType
    <2>8. Passes(e, Part(y.batch, Mine), y.scope, t)
      BY <2>5, <2>6, <2>7, PassesAgain
    <2> QED
      BY <2>1, <2>2, <2>6, <2>8 DEF OwnPart
  <1>3. ASSUME Undisturbed, NEW d \in Clients,
               (Holding(d) /\ call[d].pc \in {"bridge check", "bridge write", "reload", "bridge answer", "apply"})'
        PROVE  Passes(disk, OwnPart(d), call[d].scope, selected)'
    BY <1>2, <1>3 DEF Holding, HasLock, Past
  <1>4. Clients' = Clients /\ (Undisturbed' <=> Undisturbed)
    BY SameSetup DEF Undisturbed, May, My, Refreshers
  <1> QED
    BY <1>1, <1>3, <1>4 DEF Checked

LEMMA SameChecked ==
  ASSUME Inv, UNCHANGED <<setup, disk, selected, call, up>>
  PROVE  Checked'
  <1>1. (~May("bridge") => up)'
    BY DEF Inv, Checked, May, My
  <1>2. ASSUME Undisturbed, NEW d \in Clients,
               (Holding(d) /\ call[d].pc \in {"bridge check", "bridge write", "reload", "bridge answer", "apply"})'
        PROVE  Passes(disk, OwnPart(d), call[d].scope, selected)'
    <2>1. Passes(disk, OwnPart(d), call[d].scope, selected)
      BY <1>2 DEF Inv, Checked, Holding
    <2> QED
      BY <2>1 DEF OwnPart
  <1>3. Clients' = Clients /\ (Undisturbed' <=> Undisturbed)
    BY SameSetup DEF Undisturbed, May, My, Refreshers
  <1> QED
    BY <1>1, <1>2, <1>3 DEF Checked

LEMMA SameLive ==
  ASSUME Inv, UNCHANGED <<setup, selected, loading, values>>, \A f \in OwnFiles : disk'[f] = disk[f],
         disk'["bridge"] # Bad,
         \A d \in Clients : /\ call'[d].pc \in Writing <=> call[d].pc \in Writing
                            /\ call'[d].pc = "swap" => call[d].pc = "swap" /\ call'[d].read = call[d].read
  PROVE  LiveInv'
  <1>1. Effective(disk, selected, "live")' = Effective(disk, selected, "live")
    BY OwnReads DEF Mine, Inv
  <1>2. ASSUME Alone
        PROVE  \A f \in Files : disk'[f] # Bad
    BY <1>2 DEF Inv, LiveInv, Files, OwnFiles
  <1>3. Files' = Files /\ Clients' = Clients /\ (Alone' <=> Alone)
    BY SameSetup DEF Alone, Undisturbed, May, My, Refreshers
  <1> QED
    BY <1>1, <1>2, <1>3 DEF Inv, LiveInv, Writing

LEMMA SameProvider ==
  ASSUME Inv, UNCHANGED <<setup, up, alock, provider, btask>>, disk'["bridge"]["embed"] = disk["bridge"]["embed"],
         \A d \in Clients : call'[d].pc = "reload" <=> call[d].pc = "reload"
  PROVE  ProviderInv'
  <1>1. Reloaders' = Reloaders
    BY SameSetup DEF Reloaders, Reloading
  <1> QED
    BY <1>1 DEF Inv, ProviderInv

LEMMA DiskTyped ==
  ASSUME Inv, UNCHANGED <<setup, selected, loading, values, start, bstart, task, call>>, DOMAIN btask' = DOMAIN btask,
         DOMAIN disk' = Files,
         \A f \in Files : disk'[f] \in Doc \/ (f \in Workspaces /\ May("garbled") /\ disk'[f] = Bad)
  PROVE  Typed'
  BY SameSetup DEF Inv, Typed, May, My

-----------------------------------------------------------------------------
(* The tasks, the sessions and the loads of the server *)

LEMMA TaskReadKeeps ==
  ASSUME Inv, NEW t \in Refreshers, TaskRead(t)
  PROVE  Inv'
  <1>1. /\ UNCHANGED <<setup, disk, selected, loading, values, start, bstart, up, alock, provider, btask, call, writing>>
        /\ task' = [task EXCEPT ![t] = IF Listable(disk, selected) THEN {ReadOwn(disk, selected)} ELSE {}]
    BY DEF TaskRead, server, bridge
  <1>2. Typed'
    <2>1. task' \in [Refreshers -> SUBSET [Mine -> Value]]
      BY <1>1, EffectiveType DEF Inv, Typed
    <2> QED
      BY <1>1, <2>1, SameSetup DEF Inv, Typed, May, My
  <1>3. CallsInv'
    BY <1>1, SameCalls
  <1>4. Checked'
    BY <1>1, SameChecked
  <1>5. LiveInv' /\ ProviderInv'
    <2>1. disk["bridge"] # Bad
      BY SettingsAssumption, Names DEF Inv, Typed, Doc, Files
    <2> QED
      BY <1>1, <2>1, SameLive, SameProvider
  <1> QED
    BY <1>2, <1>3, <1>4, <1>5 DEF Inv

LEMMA TaskSwapKeeps ==
  ASSUME Inv, NEW t \in Refreshers, TaskSwap(t)
  PROVE  Inv'
  <1>1. /\ UNCHANGED <<setup, disk, selected, loading, start, bstart, up, alock, provider, btask, call, writing>>
        /\ task' = [task EXCEPT ![t] = {}]
    BY DEF TaskSwap, bridge
  <1>2. PICK new \in task[t] : values' = Refreshed(values, new)
    BY DEF TaskSwap
  <1>3. values' \in [Mine -> Value]
    BY <1>2 DEF Inv, Typed, Refreshed, Mine, LiveKeys
  <1>4. Typed'
    <2>1. task' \in [Refreshers -> SUBSET [Mine -> Value]]
      BY <1>1 DEF Inv, Typed
    <2> QED
      BY <1>1, <1>3, <2>1, SameSetup DEF Inv, Typed
  <1>5. CallsInv'
    BY <1>1, SameCalls
  <1>6. Checked'
    BY <1>1, SameChecked
  <1>7. LiveInv'
    BY <1>1 DEF LiveInv, Alone, Undisturbed, Refreshers, My
  <1>8. ProviderInv'
    BY <1>1, <1>3, SameProvider
  <1> QED
    BY <1>4, <1>5, <1>6, <1>7, <1>8 DEF Inv

LEMMA ChangeKeeps ==
  ASSUME Inv, NEW t \in Refreshers, NEW w \in Workspaces, NEW k \in {"live", "later"}, NEW v \in Value, Change(w, k, v, t)
  PROVE  Inv'
  <1>1. UNCHANGED <<setup, selected, loading, values, start, bstart, up, alock, provider, btask, call, task, writing>>
    BY DEF Change, server, bridge
  <1>2. /\ w \in Files /\ w # "device" /\ w # "bridge" /\ "device" \in Files /\ "bridge" \in Files
        /\ "device" \notin Workspaces /\ "bridge" \notin Workspaces
    BY Names DEF Inv, Typed, Files
  <1>3. /\ DOMAIN disk' = Files /\ \A f \in Files \ {w} : disk'[f] = disk[f]
        /\ disk'[w] \in Doc \/ (May("garbled") /\ disk'[w] = Bad)
    <2>1. CASE disk[w] # Bad /\ disk' = [disk EXCEPT ![w][k] = v]
      <3>1. disk[w] \in Doc
        BY <1>2, <2>1 DEF Inv, Typed
      <3>2. disk'[w] = [disk[w] EXCEPT ![k] = v]
        BY <1>2, <2>1 DEF Inv, Typed
      <3>3. disk'[w] \in Doc
        BY <3>1, <3>2 DEF Doc, Keys, Mine
      <3> QED
        BY <1>2, <2>1, <3>3 DEF Inv, Typed
    <2>2. CASE disk' = [disk EXCEPT ![w] = [Empty EXCEPT ![k] = v]]
      <3>1. [Empty EXCEPT ![k] = v] \in Doc
        BY DEF Empty, Doc, Keys, Mine, Theirs, Value
      <3> QED
        BY <1>2, <2>2, <3>1 DEF Inv, Typed
    <2>3. CASE Fault("garbled") /\ disk' = [disk EXCEPT ![w] = Bad]
      BY <1>2, <2>3 DEF Inv, Typed, Fault, May
    <2> QED
      BY <2>1, <2>2, <2>3 DEF Change
  <1>4. Typed'
    BY <1>1, <1>3, DiskTyped DEF Inv, Typed
  <1>5. CallsInv'
    BY <1>1, SameCalls
  <1>6. Checked'
    <2>1. ~May("bridge") => up'
      BY <1>1 DEF Inv, Checked
    <2>2. ~Undisturbed
      BY DEF Undisturbed
    <2> QED
      BY <1>1, <1>3, <2>1, <2>2, StillChecked, HoldsIsHolding
  <1>7. LiveInv'
    BY <1>1 DEF LiveInv, Alone, Undisturbed, Refreshers, My
  <1>8. ProviderInv'
    BY <1>1, <1>2, <1>3, SameProvider
  <1> QED
    BY <1>4, <1>5, <1>6, <1>7, <1>8 DEF Inv

LEMMA EditKeeps ==
  ASSUME Inv, NEW k \in {"live", "restart"}, NEW v \in Value, Edit(k, v)
  PROVE  Inv'
  <1>1. /\ UNCHANGED <<setup, selected, loading, values, start, bstart, up, alock, provider, btask, call, task, writing>>
        /\ May("edit") /\ disk' = [disk EXCEPT !["device"][k] = v]
    BY DEF Edit, server, bridge, May
  <1>2. "device" \in Files /\ "bridge" \in Files /\ "device" # "bridge" /\ disk["device"] \in Doc
    BY Names DEF Inv, Typed, Files
  <1>3. DOMAIN disk' = Files /\ (\A f \in Files \ {"device"} : disk'[f] = disk[f]) /\ disk'["device"] \in Doc
    <2>1. disk'["device"] = [disk["device"] EXCEPT ![k] = v] /\ k \in Keys
      BY <1>1, <1>2 DEF Inv, Typed, Keys, Mine
    <2>2. disk'["device"] \in Doc
      BY <1>2, <2>1 DEF Doc
    <2> QED
      BY <1>1, <2>2 DEF Inv, Typed
  <1>4. Typed'
    BY <1>1, <1>3, DiskTyped DEF Inv, Typed
  <1>5. CallsInv'
    BY <1>1, SameCalls
  <1>6. Checked'
    <2>1. ~May("bridge") => up'
      BY <1>1 DEF Inv, Checked
    <2>2. ~Undisturbed
      BY <1>1 DEF Undisturbed
    <2> QED
      BY <1>1, <1>3, <2>1, <2>2, StillChecked, HoldsIsHolding
  <1>7. LiveInv'
    BY <1>1, SameSetup DEF LiveInv, Alone, Undisturbed
  <1>8. ProviderInv'
    BY <1>1, <1>2, <1>3, SameProvider
  <1> QED
    BY <1>4, <1>5, <1>6, <1>7, <1>8 DEF Inv

LEMMA SelectKeeps ==
  ASSUME Inv, NEW s \in Workspaces \cup {Nobody}, Select(s)
  PROVE  Inv'
  <1>1. /\ UNCHANGED <<setup, disk, loading, values, start, bstart, up, alock, provider, btask, call, task, writing>>
        /\ selected' = s /\ (s = Nobody => May("remove")) /\ Refreshers # {}
    BY DEF Select, server, bridge, May
  <1>2. Typed'
    BY <1>1, SameSetup DEF Inv, Typed, May, My
  <1>3. CallsInv'
    BY <1>1, SameCalls
  <1>4. Checked'
    <2>1. ~May("bridge") => up'
      BY <1>1 DEF Inv, Checked
    <2>2. ~Undisturbed /\ DOMAIN disk' = Files
      BY <1>1 DEF Inv, Typed, Undisturbed
    <2> QED
      BY <1>1, <2>1, <2>2, StillChecked, HoldsIsHolding
  <1>5. LiveInv'
    BY <1>1 DEF LiveInv, Alone, Undisturbed, Refreshers, My
  <1>6. ProviderInv'
    BY <1>1, SameProvider
  <1> QED
    BY <1>2, <1>3, <1>4, <1>5, <1>6 DEF Inv

LEMMA LoadCaptureKeeps ==
  ASSUME Inv, LoadCapture
  PROVE  Inv'
  <1>1. /\ UNCHANGED <<setup, disk, selected, bstart, up, alock, provider, btask, call, task, writing>>
        /\ Listable(disk, selected) /\ loading' = {}
        /\ start' = [k \in Mine \ LiveKeys |-> Effective(disk, selected, k)]
    BY DEF LoadCapture, bridge
  <1>2. PICK new \in loading : values' = new
    BY DEF LoadCapture
  <1>3. DOMAIN start' = {"later", "restart"}
    BY <1>1 DEF Mine, LiveKeys
  <1>4. Typed'
    BY <1>1, <1>2, <1>3, SameSetup DEF Inv, Typed, May, My
  <1>5. CallsInv'
    <2>1. Clients' = Clients
      BY <1>1, SameSetup
    <2>2. ASSUME NEW d \in Clients
          PROVE  (Steps(call[d]) /\ Whole(call[d]))'
      <3>1. Steps(call'[d]) /\ Whole(call'[d])
        BY <1>1 DEF Inv, CallsInv
      <3>2. Steps(call[d])'
        BY <1>1, <3>1, SameSetup DEF Steps, OwnTouched, BridgeFile, Touched, FileOf
      <3>3. Whole(call[d])'
        BY <1>1, <3>1, SameSetup DEF Whole
      <3> QED
        BY <3>2, <3>3
    <2>3. Locked'
      BY <1>1, <2>1 DEF Inv, CallsInv, Locked, Holding
    <2> QED
      BY <2>1, <2>2, <2>3 DEF CallsInv
  <1>6. Checked'
    BY <1>1, SameChecked
  <1>7. LiveInv'
    <2>1. Effective(disk, selected, "live")' = Effective(disk, selected, "live")
      BY <1>1
    <2>2. Alone => /\ \A f \in Files : disk[f] # Bad
                   /\ values'["live"] = Effective(disk, selected, "live")
      BY <1>2 DEF Inv, LiveInv
    <2>3. \A c \in Clients : call'[c].pc # "swap"
      BY <1>1, <1>2 DEF Inv, CallsInv, Locked
    <2>4. Files' = Files /\ Clients' = Clients /\ (Alone' <=> Alone)
      BY <1>1, SameSetup DEF Alone, Undisturbed, May, My, Refreshers
    <2> QED
      BY <1>1, <2>1, <2>2, <2>3, <2>4 DEF LiveInv
  <1>8. ProviderInv'
    BY <1>1, SameProvider
  <1> QED
    BY <1>4, <1>5, <1>6, <1>7, <1>8 DEF Inv

\* What the server's restart makes of a call.
Cut(x) ==
  CASE x.pc \in {"idle", "done"} -> x
    [] x.pc = "reload" -> [x EXCEPT !.answer = "lost"]
    [] OTHER -> [x EXCEPT !.pc = "done", !.answer = "lost"]

LEMMA CutFacts ==
  ASSUME Inv, NEW c \in Clients, call[c].pc \notin {"write", "refresh", "swap", "list"} \/ May("kill"), NEW x, x = Cut(call[c])
  PROVE  /\ x \in Calls /\ Steps(x) /\ Whole(x) /\ x.pc \in {"idle", "done", "reload"} /\ ~HasLock(x)
         /\ x.staged = call[c].staged /\ (x.pc = "reload" <=> call[c].pc = "reload")
  <1>1. PICK y : y = call[c]
    OBVIOUS
  <1>2. y \in Calls /\ Steps(y) /\ Whole(y) /\ (y.pc \notin {"done", "reload"} => y.answer = "none")
    BY <1>1, CallFacts
  <1>3. CASE y.pc \in {"idle", "done"}
    <2>1. x = y
      BY <1>1, <1>3 DEF Cut
    <2> QED
      BY <1>1, <1>2, <1>3, <2>1 DEF HasLock, Past, Writing
  <1>4. CASE y.pc = "reload"
    <2>1. x = [y EXCEPT !.answer = "lost"]
      BY <1>1, <1>4 DEF Cut
    <2>2. /\ x \in Calls /\ x.pc = "reload" /\ x.batch = y.batch /\ x.scope = y.scope /\ x.staged = y.staged
          /\ x.wrote = y.wrote /\ x.answer = "lost"
      BY <1>2, <1>4, <2>1 DEF Calls
    <2>3. Steps(x) /\ Whole(x)
      BY <1>2, <1>4, <2>2 DEF Steps, Whole
    <2> QED
      BY <1>1, <1>4, <2>2, <2>3 DEF HasLock
  <1>5. CASE y.pc \notin {"idle", "done", "reload"}
    <2>1. x = [y EXCEPT !.pc = "done", !.answer = "lost"]
      BY <1>1, <1>5 DEF Cut
    <2>2. /\ x \in Calls /\ x.pc = "done" /\ x.batch = y.batch /\ x.scope = y.scope /\ x.staged = y.staged
          /\ x.wrote = y.wrote /\ x.answer = "lost"
      BY <1>2, <2>1 DEF Calls, Pcs
    <2>3. Steps(x)
      BY <2>2 DEF Steps
    <2>4. ASSUME y.pc \in {"called", "bridge check", "bridge write", "bridge answer", "apply"}
          PROVE  Whole(x)
      <3>1. DOMAIN Part(y.batch, Theirs) = {} => y.wrote = {}
        BY <1>2, <2>4 DEF Steps, BridgeFile
      <3> QED
        BY <2>2, <3>1 DEF Whole
    <2>5. ASSUME y.pc = "ask"
          PROVE  Whole(x)
      BY <1>1, <2>2, <2>5, ListIsWhole
    <2>6. ASSUME May("kill")
          PROVE  Whole(x)
      BY <2>2, <2>6 DEF Whole
    <2>7. Whole(x)
      BY <1>1, <1>2, <1>5, <2>4, <2>5, <2>6 DEF Calls, Pcs
    <2> QED
      BY <1>1, <1>5, <2>2, <2>3, <2>7 DEF HasLock
  <1> QED
    BY <1>3, <1>4, <1>5

LEMMA LoadReadKeeps ==
  ASSUME Inv, LoadRead
  PROVE  Inv'
  <1>1. /\ UNCHANGED <<setup, disk, selected, values, start, bstart, up, alock, provider, btask>>
        /\ loading = {} /\ Listable(disk, selected) /\ loading' = {ReadOwn(disk, selected)}
        /\ writing' = Nobody /\ task' = [t \in Refreshers |-> {}]
    BY DEF LoadRead, bridge, Accepted
  <1>2. call' = [c \in Clients |-> Cut(call[c])]
    BY DEF LoadRead, Cut
  <1>3. ASSUME NEW c \in Clients
        PROVE  /\ call'[c] \in Calls /\ Steps(call'[c]) /\ Whole(call'[c]) /\ ~HasLock(call'[c])
               /\ call'[c].pc \in {"idle", "done", "reload"} /\ call'[c].staged = call[c].staged
               /\ call'[c].pc = "reload" <=> call[c].pc = "reload"
    <2>1. call'[c] = Cut(call[c]) /\ (call[c].pc \notin {"write", "refresh", "swap", "list"} \/ May("kill"))
      BY <1>2 DEF LoadRead, Fault, May
    <2>2. PICK x : x = call'[c]
      OBVIOUS
    <2>3. x = Cut(call[c])
      BY <2>1, <2>2
    <2>4. /\ x \in Calls /\ Steps(x) /\ Whole(x) /\ x.pc \in {"idle", "done", "reload"} /\ ~HasLock(x)
          /\ x.staged = call[c].staged /\ (x.pc = "reload" <=> call[c].pc = "reload")
      BY <2>1, <2>3, CutFacts
    <2> QED
      BY <2>2, <2>4
  <1>4. Clients' = Clients /\ Files' = Files /\ (Alone' <=> Alone) /\ Refreshers' = Refreshers
    BY <1>1, SameSetup DEF Alone, Undisturbed, May, My, Refreshers
  <1>5. PICK new \in [Mine -> Value] : loading' = {new} /\ new["live"] = Effective(disk, selected, "live")
    BY <1>1, EffectiveType DEF Inv
  <1>6. Typed'
    <2>1. call' \in [Clients -> Calls]
      BY <1>2, <1>3
    <2>2. task' \in [Refreshers -> SUBSET [Mine -> Value]]
      BY <1>1
    <2>3. loading' \in SUBSET [Mine -> Value]
      BY <1>5
    <2>4. /\ setup \in DOMAIN Setups /\ DOMAIN disk = Files /\ selected \in Workspaces \cup {Nobody}
          /\ \A f \in Files : disk[f] \in Doc \/ (f \in Workspaces /\ May("garbled") /\ disk[f] = Bad)
          /\ (selected = Nobody => May("remove")) /\ values \in [Mine -> Value]
          /\ DOMAIN start = {"later", "restart"} /\ DOMAIN bstart = {"net"} /\ DOMAIN btask = BridgeTasks
      BY DEF Inv, Typed
    <2> QED
      BY <1>1, <2>1, <2>2, <2>3, <2>4, SameSetup DEF Typed
  <1>7. CallsInv'
    <2>1. ASSUME NEW d \in Clients
          PROVE  (Steps(call[d]) /\ Whole(call[d]))'
      <3>1. Steps(call'[d]) /\ Whole(call'[d])
        BY <1>3
      <3>2. Steps(call[d])'
        BY <1>1, <3>1, SameSetup DEF Steps, OwnTouched, BridgeFile, Touched, FileOf
      <3>3. Whole(call[d])'
        BY <1>1, <3>1, SameSetup DEF Whole
      <3> QED
        BY <3>2, <3>3
    <2>2. Locked'
      BY <1>3, <1>4 DEF Locked, Holding, HasLock, Past, Writing
    <2> QED
      BY <1>4, <2>1, <2>2 DEF CallsInv
  <1>8. Checked'
    <2>1. ~May("bridge") => up'
      BY <1>1 DEF Inv, Checked
    <2>2. Clients' = Clients /\ ((~May("bridge"))' <=> ~May("bridge"))
      BY <1>1, <1>4 DEF May, My
    <2>3. \A d \in Clients : ~Holding(d)'
      BY <1>3 DEF Holding, HasLock, Past, Writing
    <2> QED
      BY <2>1, <2>2, <2>3 DEF Checked
  <1>9. LiveInv'
    <2>1. Effective(disk, selected, "live")' = Effective(disk, selected, "live")
      BY <1>1
    <2>2. Alone => \A f \in Files : disk[f] # Bad
      BY DEF Inv, LiveInv
    <2> QED
      BY <1>1, <1>3, <1>4, <1>5, <2>1, <2>2 DEF LiveInv
  <1>10. ProviderInv'
    BY <1>1, <1>3, SameProvider
  <1> QED
    BY <1>6, <1>7, <1>8, <1>9, <1>10 DEF Inv

LEMMA OfflineSetKeeps ==
  ASSUME Inv, NEW b \in My.batches, NEW scope \in My.scopes, OfflineSet(b, scope)
  PROVE  Inv'
  <1>1. /\ UNCHANGED <<setup, selected, loading, values, start, bstart, up, alock, provider, btask, call, task, writing>>
        /\ May("offline") /\ loading # {} /\ DOMAIN b \subseteq Mine /\ Passes(disk, b, scope, selected)
        /\ disk' = Put(disk, Edited(disk, b, scope, selected))
    BY DEF OfflineSet, server, bridge, May
  <1>2. b \in Batch /\ scope \in {"home", "device"} /\ "bridge" \notin Workspaces
    BY Names DEF Inv, Typed
  <1>3. /\ DOMAIN Edited(disk, b, scope, selected) = Touched(b, scope, selected)
        /\ \A f \in Touched(b, scope, selected) : Edited(disk, b, scope, selected)[f] \in Doc
        /\ Touched(b, scope, selected) \subseteq Files
    BY <1>1, <1>2, EditedHolds DEF Inv
  <1>4. "bridge" \notin Touched(b, scope, selected)
    BY <1>1, <1>2, Names DEF Touched, FileOf, Mine, Theirs, Inv, Typed, Files
  <1>5. /\ DOMAIN disk' = Files /\ disk'["bridge"] = disk["bridge"]
        /\ \A f \in Files : disk'[f] = disk[f] \/ disk'[f] \in Doc
    BY <1>1, <1>3, <1>4 DEF Put, Files, Inv, Typed
  <1>6. Typed'
    BY <1>1, <1>5, DiskTyped DEF Inv, Typed
  <1>7. CallsInv'
    BY <1>1, SameCalls
  <1>8. Checked'
    <2>1. \A d \in Clients : ~Holding(d)
      BY <1>1 DEF Inv, CallsInv, Locked
    <2>2. ~May("bridge") => up'
      BY <1>1 DEF Inv, Checked
    <2>3. Clients' = Clients /\ ((~May("bridge"))' <=> ~May("bridge")) /\ \A d \in Clients : Holding(d)' <=> Holding(d)
      BY <1>1, SameSetup DEF May, My, Holding
    <2> QED
      BY <2>1, <2>2, <2>3 DEF Checked
  <1>9. LiveInv'
    BY <1>1, SameSetup DEF LiveInv, Alone
  <1>10. ProviderInv'
    BY <1>1, <1>5, SameProvider
  <1> QED
    BY <1>6, <1>7, <1>8, <1>9, <1>10 DEF Inv

-----------------------------------------------------------------------------
(* The bridge *)

LEMMA BridgeSetKeeps ==
  ASSUME Inv, NEW t \in BridgeTasks, NEW k \in Theirs, NEW v \in Value, BridgeSet(t, k, v)
  PROVE  Inv'
  <1>1. /\ UNCHANGED <<setup, selected, loading, values, start, bstart, up, alock, provider, call, task, writing>>
        /\ disk' = [disk EXCEPT !["bridge"][k] = v] /\ up /\ btask[t] = "idle"
        /\ k \in LiveKeys => btask' = [btask EXCEPT ![t] = "reload"]
        /\ k \notin LiveKeys => btask' = btask
    BY DEF BridgeSet, server
  <1>2. /\ "bridge" \in Files /\ "bridge" \notin OwnFiles /\ "device" \in OwnFiles /\ OwnFiles \subseteq Files
        /\ Files = OwnFiles \cup {"bridge"} /\ t \notin Clients
    BY Names DEF Inv, Typed, Files, OwnFiles
  <1>3. /\ DOMAIN disk' = Files /\ \A f \in OwnFiles : disk'[f] = disk[f]
        /\ disk'["bridge"] \in Doc /\ disk'["bridge"] # Bad
        /\ k # "embed" => disk'["bridge"]["embed"] = disk["bridge"]["embed"]
    <2>1. disk["bridge"] \in Doc /\ "bridge" \notin Workspaces
      BY <1>2 DEF Inv, Typed, OwnFiles
    <2>2. disk'["bridge"] = [disk["bridge"] EXCEPT ![k] = v] /\ \A f \in OwnFiles : disk'[f] = disk[f]
      BY <1>1, <1>2 DEF Inv, Typed
    <2>3. disk'["bridge"] \in Doc
      BY <2>1, <2>2 DEF Doc
    <2>4. k # "embed" => disk'["bridge"]["embed"] = disk["bridge"]["embed"]
      BY <2>1, <2>2 DEF Doc, Keys, Theirs
    <2> QED
      BY <1>1, <2>2, <2>3, <2>4, SettingsAssumption DEF Inv, Typed, Doc
  <1>4. Typed'
    BY <1>1, <1>2, <1>3, DiskTyped DEF Inv, Typed
  <1>5. CallsInv'
    BY <1>1, SameCalls
  <1>6. Checked'
    <2>1. ~May("bridge") => up'
      BY <1>1
    <2>2. DOMAIN disk' = Files /\ selected' = selected /\ \A f \in OwnFiles : disk'[f] = disk[f]
      BY <1>1, <1>3
    <2> QED
      BY <1>1, <2>1, <2>2, StillChecked, HoldsIsHolding
  <1>7. LiveInv'
    BY <1>1, <1>2, <1>3, SameLive
  <1>8. ProviderInv'
    <2>1. CASE k \in LiveKeys
      <3>1. btask' = [btask EXCEPT ![t] = "reload"] /\ Clients' = Clients /\ BridgeTasks' = BridgeTasks
        BY <1>1, <2>1, SameSetup
      <3>2. t \notin Reloaders
        BY <1>1, <1>2 DEF Reloaders, Reloading
      <3>3. t \in Reloaders'
        BY <1>2, <3>1 DEF Reloaders, Reloading, Inv, Typed
      <3>4. Reloaders \subseteq Reloaders'
        BY <1>1, <1>2, <3>1 DEF Reloaders, Reloading, Inv, Typed
      <3> QED
        BY <1>1, <3>2, <3>3, <3>4 DEF Inv, ProviderInv
    <2>2. CASE k \notin LiveKeys
      <3>1. k # "embed"
        BY <2>2 DEF LiveKeys
      <3> QED
        BY <1>1, <1>3, <2>2, <3>1, SameProvider
    <2> QED
      BY <2>1, <2>2
  <1> QED
    BY <1>4, <1>5, <1>6, <1>7, <1>8 DEF Inv

LEMMA TickKeeps ==
  ASSUME Inv, Tick
  PROVE  Inv'
  <1>1. /\ UNCHANGED <<setup, disk, selected, loading, values, start, bstart, up, alock, provider, call, task, writing>>
        /\ up /\ "tick" \in BridgeTasks /\ btask["tick"] = "idle" /\ btask' = [btask EXCEPT !["tick"] = "reload"]
    BY DEF Tick, server
  <1>2. "tick" \notin Clients /\ Clients' = Clients /\ BridgeTasks' = BridgeTasks
    BY <1>1, Names, SameSetup DEF Inv, Typed
  <1>3. Typed'
    BY <1>1, DiskTyped DEF Inv, Typed
  <1>4. CallsInv' /\ Checked'
    BY <1>1, SameCalls, SameChecked
  <1>5. LiveInv'
    <2>1. disk["bridge"] # Bad
      BY SettingsAssumption, Names DEF Inv, Typed, Doc, Files
    <2> QED
      BY <1>1, <2>1, SameLive
  <1>6. ProviderInv'
    <2>1. "tick" \notin Reloaders
      BY <1>1, <1>2 DEF Reloaders, Reloading
    <2>2. "tick" \in Reloaders' /\ Reloaders \subseteq Reloaders'
      BY <1>1, <1>2 DEF Reloaders, Reloading, Inv, Typed
    <2> QED
      BY <1>1, <2>1, <2>2 DEF Inv, ProviderInv
  <1> QED
    BY <1>3, <1>4, <1>5, <1>6 DEF Inv

LEMMA BridgeStartsKeeps ==
  ASSUME Inv, BridgeStarts
  PROVE  Inv'
  <1>1. /\ UNCHANGED <<setup, disk, selected, loading, values, start, alock, btask, call, task, writing>>
        /\ ~up /\ up' = TRUE /\ provider' = disk["bridge"]["embed"]
        /\ bstart' = [k \in Theirs \ LiveKeys |-> disk["bridge"][k]]
    BY DEF BridgeStarts, server
  <1>2. Typed'
    <2>1. DOMAIN bstart' = {"net"}
      BY <1>1 DEF Theirs, LiveKeys
    <2> QED
      BY <1>1, <2>1, SameSetup DEF Inv, Typed, May, My
  <1>3. CallsInv'
    BY <1>1, SameCalls
  <1>4. Checked'
    <2>1. \A d \in Clients : HasLock(call'[d]) /\ call'[d].pc \in Past => Holding(d) /\ call[d].pc \in Past
      BY <1>1, HoldsIsHolding
    <2>2. (~May("bridge") => up)'
      BY <1>1
    <2>3. ASSUME Undisturbed, NEW d \in Clients,
                 (Holding(d) /\ call[d].pc \in {"bridge check", "bridge write", "reload", "bridge answer", "apply"})'
          PROVE  Passes(disk, OwnPart(d), call[d].scope, selected)'
      <3>1. Passes(disk, OwnPart(d), call[d].scope, selected)
        BY <1>1, <2>3 DEF Inv, Checked, Holding
      <3> QED
        BY <1>1, <3>1 DEF OwnPart
    <2>4. Clients' = Clients /\ (Undisturbed' <=> Undisturbed)
      BY <1>1, SameSetup DEF Undisturbed, May, My, Refreshers
    <2> QED
      BY <2>2, <2>3, <2>4 DEF Checked
  <1>5. LiveInv'
    <2>1. disk["bridge"] # Bad
      BY SettingsAssumption, Names DEF Inv, Typed, Doc, Files
    <2> QED
      BY <1>1, <2>1, SameLive
  <1>6. ProviderInv'
    <2>1. alock = {}
      BY <1>1 DEF Inv, ProviderInv
    <2> QED
      BY <1>1, <2>1 DEF ProviderInv
  <1> QED
    BY <1>2, <1>3, <1>4, <1>5, <1>6 DEF Inv

LEMMA ReloadReadKeeps ==
  ASSUME Inv, NEW p \in Clients \cup BridgeTasks, ReloadRead(p)
  PROVE  Inv'
  <1>1. /\ UNCHANGED <<setup, disk, selected, loading, values, start, bstart, up, provider, btask, call, task, writing>>
        /\ up /\ Reloading(p) /\ alock' = {[who |-> p, config |-> disk["bridge"]["embed"]]}
    BY DEF ReloadRead, server
  <1>2. Typed'
    BY <1>1, DiskTyped DEF Inv, Typed
  <1>3. CallsInv' /\ Checked'
    BY <1>1, SameCalls, SameChecked
  <1>4. LiveInv'
    <2>1. disk["bridge"] # Bad
      BY SettingsAssumption, Names DEF Inv, Typed, Doc, Files
    <2> QED
      BY <1>1, <2>1, SameLive
  <1>5. ProviderInv'
    <2>1. Reloaders' = Reloaders /\ p \in Reloaders
      BY <1>1, SameSetup DEF Reloaders, Reloading
    <2> QED
      BY <1>1, <2>1 DEF ProviderInv
  <1> QED
    BY <1>2, <1>3, <1>4, <1>5 DEF Inv

-----------------------------------------------------------------------------
(* The steps of a call that write files or values, or let the bridge's reload go *)

LEMMA TurnTyped ==
  ASSUME Inv, UNCHANGED <<setup, selected, loading, start, bstart, task>>, values' \in [Mine -> Value],
         DOMAIN btask' = BridgeTasks, DOMAIN disk' = Files,
         \A f \in Files : disk'[f] \in Doc \/ (f \in Workspaces /\ May("garbled") /\ disk'[f] = Bad),
         NEW c \in Clients, NEW x \in Calls, call' = [call EXCEPT ![c] = x]
  PROVE  Typed'
  <1>1. call' \in [Clients -> Calls]
    BY DEF Inv, Typed
  <1>2. /\ setup \in DOMAIN Setups /\ selected \in Workspaces \cup {Nobody}
        /\ (selected = Nobody => May("remove")) /\ loading \in SUBSET [Mine -> Value]
        /\ DOMAIN start = {"later", "restart"} /\ DOMAIN bstart = {"net"} /\ task \in [Refreshers -> SUBSET [Mine -> Value]]
    BY DEF Inv, Typed
  <1> QED
    BY <1>1, <1>2, SameSetup DEF Typed

LEMMA OnlyHolder ==
  ASSUME Inv, NEW c \in Clients, Holding(c), NEW d \in Clients, d # c
  PROVE  call[d].pc \in {"idle", "called", "done", "reload"} /\ ~Holding(d)
  <1>1. ~Holding(d)
    BY OneHolds
  <1> QED
    BY <1>1, CallFacts DEF Holding, Calls, Pcs

LEMMA RefreshSwapKeeps ==
  ASSUME Inv, NEW c \in Clients, RefreshSwap(c)
  PROVE  Inv'
  <1>1. /\ UNCHANGED <<setup, disk, selected, loading, start, bstart, up, alock, provider, btask, task, writing>>
        /\ call[c].pc = "swap" /\ Holding(c) /\ loading = {} /\ call[c].answer = "none"
        /\ DOMAIN call[c].staged = {}
    BY CallFacts, HoldsWriting DEF RefreshSwap, bridge, Steps
  <1>2. PICK new \in call[c].read : values' = Refreshed(values, new)
    BY DEF RefreshSwap
  <1>3. values' \in [Mine -> Value] /\ values'["live"] = new["live"]
    <2>1. call[c].read \subseteq [Mine -> Value] /\ values \in [Mine -> Value]
      BY CallFacts DEF Inv, Typed, Calls
    <2> QED
      BY <1>2, <2>1 DEF Refreshed, Mine, LiveKeys
  <1>4. PICK x : x = [call[c] EXCEPT !.pc = "list", !.read = {}]
    OBVIOUS
  <1>5. /\ x \in Calls /\ x.pc = "list" /\ x.batch = call[c].batch /\ x.scope = call[c].scope
        /\ x.staged = call[c].staged /\ x.wrote = call[c].wrote /\ x.answer = "none"
    BY <1>1, <1>4, CallFacts DEF Calls, Pcs
  <1>6. call' = [call EXCEPT ![c] = x] /\ call'[c] = x /\ \A d \in Clients \ {c} : call'[d] = call[d]
    BY <1>4, CallFacts DEF RefreshSwap
  <1>7. Typed'
    <2>1. /\ DOMAIN btask' = BridgeTasks /\ DOMAIN disk' = Files
          /\ \A f \in Files : disk'[f] \in Doc \/ (f \in Workspaces /\ May("garbled") /\ disk'[f] = Bad)
      BY <1>1 DEF Inv, Typed
    <2> QED
      BY <1>1, <1>3, <1>5, <1>6, <2>1, TurnTyped
  <1>8. CallsInv'
    BY <1>1, <1>5, <1>6, GoesOnWriting, TurnsCalls DEF Writing, Locks
  <1>9. Checked'
    <2>1. ~May("bridge") => up'
      BY <1>1 DEF Inv, Checked
    <2>2. \A d \in Clients : ~(HasLock(call'[d]) /\ call'[d].pc \in Past)
      BY <1>1, <1>5, <1>6, OnlyHolder, HoldsIsHolding DEF Past
    <2>3. Clients' = Clients /\ ((~May("bridge"))' <=> ~May("bridge"))
      BY <1>1, SameSetup DEF May, My
    <2> QED
      BY <2>1, <2>2, <2>3 DEF Checked, Holding, HasLock, Past
  <1>10. LiveInv'
    <2>1. Effective(disk, selected, "live")' = Effective(disk, selected, "live")
      BY <1>1
    <2>2. Alone => /\ \A f \in Files : disk[f] # Bad
                   /\ values'["live"] = Effective(disk, selected, "live")
      BY <1>1, <1>2, <1>3 DEF Inv, LiveInv
    <2>3. \A d \in Clients : call'[d].pc # "swap"
      BY <1>1, <1>5, <1>6, OnlyHolder
    <2>4. Files' = Files /\ Clients' = Clients /\ (Alone' <=> Alone)
      BY <1>1, SameSetup DEF Alone, Undisturbed, May, My, Refreshers
    <2> QED
      BY <1>1, <2>1, <2>2, <2>3, <2>4 DEF LiveInv
  <1>11. ProviderInv'
    BY <1>1, <1>5, <1>6, SameProvider
  <1> QED
    BY <1>7, <1>8, <1>9, <1>10, <1>11 DEF Inv

LEMMA WriteFileKeeps ==
  ASSUME Inv, NEW c \in Clients, NEW f \in Files, WriteFile(c, f)
  PROVE  Inv'
  <1>1. /\ UNCHANGED <<setup, selected, loading, values, start, bstart, up, alock, provider, btask, task>>
        /\ call[c].pc = "write" /\ f \in DOMAIN call[c].staged /\ Holding(c) /\ loading = {} /\ call[c].answer = "none"
    BY HoldsWriting DEF WriteFile, server, bridge
  <1>2. CASE Fault("io") /\ UNCHANGED disk /\ Fail(c, IF DOMAIN BridgePart(c) = {} THEN "refused" ELSE "partial")
    <2>1. PICK answer \in {"refused", "partial"} :
            Fail(c, answer) /\ (answer = "partial" => DOMAIN BridgePart(c) # {})
      BY <1>2
    <2>2. May("io") /\ ~Alone /\ ~Undisturbed
      BY <1>2 DEF Fault, May, Alone, Undisturbed
    <2>3. Whole(Failed(c, answer))
      <3>1. PICK x : x = Failed(c, answer)
        OBVIOUS
      <3>2. x.wrote = call[c].wrote /\ x.answer = answer
        BY <3>1, CallFacts DEF Failed, Calls
      <3>3. DOMAIN BridgePart(c) # {} => "bridge" \in call[c].wrote
        <4>1. "bridge" \notin DOMAIN call[c].staged
          <5>1. "bridge" \notin OwnFiles
            BY Names DEF OwnFiles, Inv, Typed
          <5>2. PICK staged : staged = call[c].staged
            OBVIOUS
          <5>3. PICK D \in SUBSET OwnFiles : staged \in [D -> Doc]
            BY <5>2, CallFacts, StagedType
          <5> QED
            BY <5>1, <5>2, <5>3
        <4>2. BridgeFile(call[c]) \subseteq call[c].wrote \cup DOMAIN call[c].staged
          BY <1>1, CallFacts DEF Steps
        <4> QED
          BY <4>1, <4>2 DEF BridgeFile, BridgePart
      <3> QED
        BY <2>1, <2>2, <3>1, <3>2, <3>3 DEF Whole
    <2>4. Quietly
      BY <1>2 DEF WriteFile, Quietly
    <2> QED
      BY <1>1, <2>1, <2>2, <2>3, <2>4, FailKeeps
  <1>3. ASSUME disk' = [disk EXCEPT ![f] = call[c].staged[f]], writing' = writing,
               NEW rest, rest = [g \in DOMAIN call[c].staged \ {f} |-> call[c].staged[g]],
               call' = [call EXCEPT ![c].staged = rest, ![c].wrote = @ \cup {f},
                                    ![c].pc = IF DOMAIN rest = {} THEN "refresh" ELSE "write"]
        PROVE  Inv'
    <2>1. PICK staged : staged = call[c].staged
      OBVIOUS
    <2>2. PICK D \in SUBSET OwnFiles : staged \in [D -> Doc]
      BY <2>1, CallFacts, StagedType
    <2>3. /\ rest \in [D \ {f} -> Doc] /\ D \ {f} \in SUBSET OwnFiles
          /\ DOMAIN rest = DOMAIN staged \ {f} /\ \A g \in DOMAIN rest : rest[g] = staged[g]
      BY <1>3, <2>1, <2>2
    <2>4. PICK x : x = [call[c] EXCEPT !.staged = rest, !.wrote = @ \cup {f},
                                       !.pc = IF DOMAIN rest = {} THEN "refresh" ELSE "write"]
      OBVIOUS
    <2>5. x \in Calls
      <3>1. rest \in UNION { [E -> Doc] : E \in SUBSET OwnFiles }
        BY <2>3
      <3>2. call[c] \in Calls /\ call[c].wrote \cup {f} \in SUBSET Files
        BY CallFacts DEF Calls
      <3>3. (IF DOMAIN rest = {} THEN "refresh" ELSE "write") \in Pcs
        BY DEF Pcs
      <3> QED
        BY <2>4, <3>1, <3>2, <3>3 DEF Calls
    <2>6. /\ x.pc = (IF DOMAIN rest = {} THEN "refresh" ELSE "write") /\ x.batch = call[c].batch
          /\ x.scope = call[c].scope /\ x.staged = rest /\ x.wrote = call[c].wrote \cup {f} /\ x.answer = "none"
      BY <1>1, <2>4, CallFacts DEF Calls
    <2>7. call' = [call EXCEPT ![c] = x] /\ call'[c] = x /\ \A d \in Clients \ {c} : call'[d] = call[d]
      BY <1>3, <2>4, CallFacts
    <2>8. /\ f \in OwnFiles /\ staged[f] \in Doc /\ "bridge" # f
      BY <1>1, <2>1, <2>2, CallFacts, Names DEF OwnFiles, Inv, Typed
    <2>9. /\ DOMAIN disk' = Files /\ disk'[f] = staged[f] /\ \A g \in Files \ {f} : disk'[g] = disk[g]
      BY <1>3, <2>1 DEF Inv, Typed
    <2>10. Typed'
      <3>1. /\ DOMAIN btask' = BridgeTasks /\ values' \in [Mine -> Value]
            /\ \A g \in Files : disk'[g] \in Doc \/ (g \in Workspaces /\ May("garbled") /\ disk'[g] = Bad)
        BY <1>1, <2>8, <2>9 DEF Inv, Typed
      <3> QED
        BY <1>1, <2>5, <2>6, <2>7, <2>9, <3>1, TurnTyped
    <2>11. CallsInv'
      <3>1. x.wrote \cup DOMAIN x.staged = call[c].wrote \cup DOMAIN call[c].staged
        BY <1>1, <2>1, <2>3, <2>6
      <3>2. Steps(x) /\ Whole(x)
        BY <1>1, <2>5, <2>6, <3>1, GoesOnWriting DEF Writing
      <3> QED
        BY <1>1, <1>3, <2>5, <2>7, <3>2, TurnsCalls DEF Locks
    <2>12. Checked'
      <3>1. ~May("bridge") => up'
        BY <1>1 DEF Inv, Checked
      <3>2. \A d \in Clients : ~(HasLock(call'[d]) /\ call'[d].pc \in Past)
        BY <1>1, <2>6, <2>7, OnlyHolder, HoldsIsHolding DEF Past
      <3>3. Clients' = Clients /\ ((~May("bridge"))' <=> ~May("bridge"))
        BY <1>1, SameSetup DEF May, My
      <3> QED
        BY <3>1, <3>2, <3>3 DEF Checked, Holding, HasLock, Past
    <2>13. LiveInv'
      <3>1. Alone => \A g \in Files : disk'[g] # Bad
        BY <2>8, <2>9, SettingsAssumption DEF Inv, LiveInv, Doc
      <3>2. \A d \in Clients : call'[d].pc # "swap"
        BY <1>1, <2>6, <2>7, OnlyHolder
      <3>3. Files' = Files /\ Clients' = Clients /\ (Alone' <=> Alone)
        BY <1>1, SameSetup DEF Alone, Undisturbed, May, My, Refreshers
      <3>4. call'[c].pc \in {"write", "refresh", "swap"}
        BY <2>6, <2>7
      <3> QED
        BY <1>1, <3>1, <3>2, <3>3, <3>4 DEF LiveInv
    <2>14. ProviderInv'
      <3>1. disk'["bridge"] = disk["bridge"]
        BY <2>8, <2>9 DEF Files
      <3> QED
        BY <1>1, <2>6, <2>7, <3>1, SameProvider
    <2> QED
      BY <2>10, <2>11, <2>12, <2>13, <2>14 DEF Inv
  <1> QED
    BY <1>2, <1>3 DEF WriteFile

LEMMA BridgeWriteKeeps ==
  ASSUME Inv, NEW c \in Clients, BridgeWrite(c)
  PROVE  Inv'
  <1>1. /\ UNCHANGED <<setup, selected, loading, values, start, bstart, up, alock, provider, btask, task>>
        /\ call[c].pc = "bridge write" /\ Holding(c) /\ loading = {} /\ call[c].answer = "none"
        /\ call[c].wrote = {} /\ DOMAIN call[c].staged = {} /\ DOMAIN Part(call[c].batch, Theirs) # {}
    BY HoldsWriting, CallFacts DEF BridgeWrite, server, Steps
  <1>2. ASSUME NEW answer \in {"refused", "not running"}, Fail(c, answer), UNCHANGED <<setup, disk, wlock>>
        PROVE  Inv'
    <2>1. Whole(Failed(c, answer))
      BY <1>1, FailedIsWhole
    <2>2. Quietly
      BY <1>2 DEF BridgeWrite, Quietly, bridge
    <2> QED
      BY <1>1, <1>2, <2>1, <2>2, FailKeeps DEF Writing
  <1>3. ASSUME up, Passes(disk, BridgePart(c), "home", selected), writing' = writing,
               disk' = Put(disk, Edited(disk, BridgePart(c), "home", selected)),
               call' = [call EXCEPT ![c].wrote = @ \cup {"bridge"},
                                    ![c].pc = IF DOMAIN BridgePart(c) \cap LiveKeys = {} THEN "bridge answer" ELSE "reload"]
        PROVE  Inv'
    <2>1. PICK x : x = [call[c] EXCEPT !.wrote = @ \cup {"bridge"},
                          !.pc = IF DOMAIN BridgePart(c) \cap LiveKeys = {} THEN "bridge answer" ELSE "reload"]
      OBVIOUS
    <2>2. "bridge" \in Files /\ "bridge" \notin Workspaces /\ "bridge" \notin OwnFiles /\ "device" \in OwnFiles
          /\ Files = OwnFiles \cup {"bridge"}
      BY Names DEF Inv, Typed, Files, OwnFiles
    <2>3. /\ x \in Calls /\ x.batch = call[c].batch /\ x.scope = call[c].scope /\ x.staged = call[c].staged
          /\ x.wrote = {"bridge"} /\ x.answer = "none"
          /\ x.pc = IF DOMAIN BridgePart(c) \cap LiveKeys = {} THEN "bridge answer" ELSE "reload"
      <3>1. call[c] \in Calls /\ {"bridge"} \in SUBSET Files
        BY <2>2, CallFacts
      <3>2. x = [call[c] EXCEPT !.wrote = {"bridge"},
                          !.pc = IF DOMAIN BridgePart(c) \cap LiveKeys = {} THEN "bridge answer" ELSE "reload"]
        BY <1>1, <2>1, CallFacts DEF Calls
      <3> QED
        BY <1>1, <3>1, <3>2 DEF Calls, Pcs
    <2>4. call' = [call EXCEPT ![c] = x] /\ call'[c] = x /\ \A d \in Clients \ {c} : call'[d] = call[d]
      BY <1>3, <2>1, CallFacts
    <2>5. PICK e : e = Edited(disk, BridgePart(c), "home", selected)
      OBVIOUS
    <2>6. DOMAIN e = {"bridge"} /\ e["bridge"] \in Doc
          /\ ("embed" \notin DOMAIN BridgePart(c) => e["bridge"]["embed"] = disk["bridge"]["embed"])
      <3>1. call[c].batch \in Batch /\ selected \in Workspaces \cup {Nobody}
        BY CallFacts DEF Calls, Inv, Typed
      <3>2. PICK b : b = BridgePart(c)
        OBVIOUS
      <3>3. Touched(b, "home", selected) = {"bridge"}
        BY <1>1, <2>2, <3>1, <3>2, PartType DEF BridgePart
      <3>4. b \in Batch /\ Typed /\ Passes(disk, b, "home", selected)
        BY <1>3, <3>2, CallFacts DEF Inv
      <3>5. /\ DOMAIN e = Touched(b, "home", selected)
            /\ \A f \in Touched(b, "home", selected) :
                 /\ e[f] \in Doc
                 /\ \A k \in Keys : (~(k \in DOMAIN b /\ FileOf(k, "home", selected) = f)) => e[f][k] = disk[f][k]
        BY <2>5, <3>2, <3>4, EditedHolds
      <3> QED
        BY <3>2, <3>3, <3>5 DEF Keys, Theirs
    <2>7. /\ DOMAIN disk' = Files /\ disk'["bridge"] = e["bridge"] /\ \A f \in OwnFiles : disk'[f] = disk[f]
      BY <1>3, <2>2, <2>5, <2>6 DEF Put, Inv, Typed
    <2>8. disk'["bridge"] # Bad
      BY <2>6, <2>7, SettingsAssumption DEF Doc
    <2>9. Typed'
      <3>1. /\ DOMAIN btask' = BridgeTasks /\ values' \in [Mine -> Value]
            /\ \A f \in Files : disk'[f] \in Doc \/ (f \in Workspaces /\ May("garbled") /\ disk'[f] = Bad)
        BY <1>1, <2>2, <2>6, <2>7 DEF Inv, Typed
      <3> QED
        BY <1>1, <2>3, <2>4, <2>7, <3>1, TurnTyped
    <2>10. CallsInv'
      <3>1. Steps(x) /\ Whole(x) /\ Locks(c, x)
        BY <1>1, <1>3, <2>3 DEF Steps, Whole, Locks
      <3> QED
        BY <1>1, <2>3, <2>4, <3>1, TurnsCalls
    <2>11. Checked'
      <3>1. ~May("bridge") => up'
        BY <1>1, <1>3
      <3>2. DOMAIN disk' = Files /\ selected' = selected /\ \A f \in OwnFiles : disk'[f] = disk[f]
        BY <1>1, <2>7
      <3>3. \A d \in Clients : HasLock(call'[d]) /\ call'[d].pc \in Past =>
              /\ Holding(d) /\ call[d].pc \in Past
              /\ call'[d].batch = call[d].batch /\ call'[d].scope = call[d].scope
        BY <1>1, <2>3, <2>4, HoldsIsHolding DEF Past
      <3> QED
        BY <1>1, <3>1, <3>2, <3>3, StillChecked
    <2>12. LiveInv'
      <3>1. \A d \in Clients : /\ call'[d].pc \in Writing <=> call[d].pc \in Writing
                               /\ call'[d].pc = "swap" => call[d].pc = "swap" /\ call'[d].read = call[d].read
        BY <1>1, <2>3, <2>4 DEF Writing
      <3> QED
        BY <1>1, <2>2, <2>7, <2>8, <3>1, SameLive
    <2>13. ProviderInv'
      <3>1. CASE "embed" \notin DOMAIN BridgePart(c)
        <4>1. DOMAIN BridgePart(c) \cap LiveKeys = {}
          BY <3>1, CallFacts DEF LiveKeys, Theirs
        <4>2. \A d \in Clients : call'[d].pc = "reload" <=> call[d].pc = "reload"
          BY <1>1, <2>3, <2>4, <4>1
        <4> QED
          BY <1>1, <2>6, <2>7, <3>1, <4>2, SameProvider
      <3>2. CASE "embed" \in DOMAIN BridgePart(c)
        <4>1. x.pc = "reload"
          BY <2>3, <3>2 DEF LiveKeys
        <4>2. Clients' = Clients /\ BridgeTasks' = BridgeTasks
          BY <1>1, SameSetup
        <4>3. c \notin Reloaders /\ c \in Reloaders' /\ Reloaders \subseteq Reloaders'
          BY <1>1, <2>4, <4>1, <4>2 DEF Reloaders, Reloading
        <4>4. up' /\ alock' = alock
          BY <1>1, <1>3
        <4>5. \A r \in alock' : r.who \in Reloaders' /\ r.who # c
          BY <4>3, <4>4 DEF Inv, ProviderInv
        <4>6. \A r, q \in alock' : r = q
          BY <4>4 DEF Inv, ProviderInv
        <4> QED
          BY <4>3, <4>4, <4>5, <4>6 DEF ProviderInv
      <3> QED
        BY <3>1, <3>2
    <2> QED
      BY <2>9, <2>10, <2>11, <2>12, <2>13 DEF Inv
  <1> QED
    BY <1>2, <1>3 DEF BridgeWrite

LEMMA ReloadApplyKeeps ==
  ASSUME Inv, NEW p \in Clients \cup BridgeTasks, ReloadApply(p)
  PROVE  Inv'
  <1>1. /\ UNCHANGED <<setup, disk, selected, loading, values, start, bstart, up, task, writing>>
        /\ (p \in Clients => UNCHANGED btask) /\ (p \notin Clients => btask' = [btask EXCEPT ![p] = "idle"] /\ UNCHANGED call)
        /\ (p \in Clients => call' = [call EXCEPT ![p].pc = IF call[p].answer = "lost" THEN "done" ELSE "bridge answer"])
    BY DEF ReloadApply, server, Goto
  <1>2. PICK a \in alock : a.who = p /\ provider' = a.config /\ alock' = alock \ {a}
    BY DEF ReloadApply
  <1>3. alock = {a} /\ alock' = {} /\ p \in Reloaders /\ up
    BY <1>2 DEF Inv, ProviderInv
  <1>4. Clients' = Clients /\ BridgeTasks' = BridgeTasks
    BY <1>1, SameSetup
  <1>5. disk["bridge"] # Bad
    BY SettingsAssumption, Names DEF Inv, Typed, Doc, Files
  <1>6. ASSUME Reloaders \ {p} \subseteq Reloaders'
        PROVE  ProviderInv'
    <2>1. CASE \E q \in Reloaders : \A r \in alock : r.who # q
      BY <1>1, <1>2, <1>3, <1>6, <2>1 DEF ProviderInv
    <2>2. CASE \A r \in alock : r.config = disk["bridge"]["embed"]
      BY <1>1, <1>2, <1>3, <2>2 DEF ProviderInv
    <2> QED
      BY <1>3, <2>1, <2>2 DEF Inv, ProviderInv
  <1>7. CASE p \in Clients
    <2>1. PICK x : x = [call[p] EXCEPT !.pc = IF call[p].answer = "lost" THEN "done" ELSE "bridge answer"]
      OBVIOUS
    <2>2. call[p].pc = "reload"
      BY <1>3, <1>7 DEF Reloaders, Reloading
    <2>3. /\ x \in Calls /\ x.batch = call[p].batch /\ x.scope = call[p].scope /\ x.staged = call[p].staged
          /\ x.wrote = call[p].wrote /\ x.answer = call[p].answer
          /\ x.pc = IF call[p].answer = "lost" THEN "done" ELSE "bridge answer"
      BY <1>7, <2>1, CallFacts DEF Calls, Pcs
    <2>4. call' = [call EXCEPT ![p] = x] /\ call'[p] = x /\ \A d \in Clients \ {p} : call'[d] = call[d]
      BY <1>1, <1>7, <2>1, CallFacts
    <2>5. /\ call[p].answer # "none" => call[p].answer = "lost"
          /\ DOMAIN Part(call[p].batch, Theirs) # {} /\ call[p].wrote = {"bridge"} /\ DOMAIN call[p].staged = {}
      BY <1>7, <2>2, CallFacts DEF Steps
    <2>6. Steps(x) /\ Whole(x)
      BY <2>3, <2>5 DEF Steps, Whole
    <2>7. HasLock(x) => Holding(p)
      BY <2>2, <2>3 DEF HasLock, Holding
    <2>8. loading # {} => x.pc \in {"idle", "done", "reload"} /\ ~HasLock(x)
      <3>1. loading # {} => call[p].answer = "lost"
        BY <1>7, <2>2, CallFacts DEF HasLock, Past
      <3> QED
        BY <2>3, <3>1 DEF HasLock
    <2>9. Typed'
      <3>1. /\ DOMAIN btask' = BridgeTasks /\ values' \in [Mine -> Value] /\ DOMAIN disk' = Files
            /\ \A f \in Files : disk'[f] \in Doc \/ (f \in Workspaces /\ May("garbled") /\ disk'[f] = Bad)
        BY <1>1, <1>7 DEF Inv, Typed
      <3> QED
        BY <1>1, <1>7, <2>3, <2>4, <3>1, TurnTyped
    <2>10. CallsInv'
      BY <1>1, <1>7, <2>3, <2>4, <2>6, <2>7, <2>8, TurnsCalls DEF Locks
    <2>11. Checked'
      <3>1. ~May("bridge") => up'
        BY <1>1, <1>3
      <3>2. DOMAIN disk' = Files /\ selected' = selected /\ \A f \in OwnFiles : disk'[f] = disk[f]
        BY <1>1 DEF Inv, Typed
      <3>3. \A d \in Clients : HasLock(call'[d]) /\ call'[d].pc \in Past =>
              /\ Holding(d) /\ call[d].pc \in Past
              /\ call'[d].batch = call[d].batch /\ call'[d].scope = call[d].scope
        BY <2>2, <2>3, <2>4, <2>7, HoldsIsHolding DEF Past
      <3> QED
        BY <1>1, <3>1, <3>2, <3>3, StillChecked
    <2>12. LiveInv'
      <3>1. \A d \in Clients : /\ call'[d].pc \in Writing <=> call[d].pc \in Writing
                               /\ call'[d].pc = "swap" => call[d].pc = "swap" /\ call'[d].read = call[d].read
        BY <2>2, <2>3, <2>4 DEF Writing
      <3> QED
        BY <1>1, <1>5, <3>1, SameLive
    <2>13. ProviderInv'
      <3>1. Reloaders \ {p} \subseteq Reloaders'
        BY <1>1, <1>4, <1>7, <2>4 DEF Reloaders, Reloading
      <3> QED
        BY <1>6, <3>1
    <2> QED
      BY <2>9, <2>10, <2>11, <2>12, <2>13 DEF Inv
  <1>8. CASE p \notin Clients
    <2>1. UNCHANGED call /\ btask' = [btask EXCEPT ![p] = "idle"]
      BY <1>1, <1>8
    <2>2. Typed'
      BY <1>1, <2>1, DiskTyped DEF Inv, Typed
    <2>3. CallsInv' /\ Checked'
      BY <1>1, <2>1, SameCalls, SameChecked
    <2>4. LiveInv'
      BY <1>1, <1>5, <2>1, SameLive
    <2>5. ProviderInv'
      <3>1. Reloaders \ {p} \subseteq Reloaders'
        BY <1>4, <2>1 DEF Reloaders, Reloading, Inv, Typed
      <3> QED
        BY <1>6, <3>1
    <2> QED
      BY <2>2, <2>3, <2>4, <2>5 DEF Inv
  <1> QED
    BY <1>7, <1>8

\* What the end of the bridge makes of a call.
Dropped(x) ==
  IF x.pc \in {"reload", "bridge answer"}
  THEN [x EXCEPT !.pc = "done", !.answer = IF @ = "lost" THEN @ ELSE "not running"] ELSE x

LEMMA DroppedFacts ==
  ASSUME Inv, NEW c \in Clients, NEW x, x = Dropped(call[c]), May("bridge")
  PROVE  /\ x \in Calls /\ Steps(x) /\ Whole(x) /\ x.staged = call[c].staged
         /\ x = call[c] \/ (x.pc = "done" /\ call[c].pc \in {"reload", "bridge answer"})
         /\ x.pc # "reload"
  <1>1. PICK y : y = call[c]
    OBVIOUS
  <1>2. y \in Calls /\ Steps(y) /\ Whole(y)
    BY <1>1, CallFacts
  <1>3. CASE y.pc \in {"reload", "bridge answer"}
    <2>1. x = [y EXCEPT !.pc = "done", !.answer = IF @ = "lost" THEN @ ELSE "not running"]
      BY <1>1, <1>3 DEF Dropped
    <2>2. /\ x \in Calls /\ x.pc = "done" /\ x.batch = y.batch /\ x.scope = y.scope /\ x.staged = y.staged
          /\ x.wrote = y.wrote /\ x.answer \in {"lost", "not running"}
      BY <1>2, <2>1 DEF Calls, Pcs
    <2>3. DOMAIN Part(y.batch, Theirs) # {} /\ DOMAIN y.staged = {}
      BY <1>2, <1>3 DEF Steps
    <2>4. Steps(x) /\ Whole(x)
      BY <2>2, <2>3 DEF Steps, Whole
    <2> QED
      BY <1>1, <1>3, <2>2, <2>4
  <1>4. CASE y.pc \notin {"reload", "bridge answer"}
    BY <1>1, <1>2, <1>4 DEF Dropped
  <1> QED
    BY <1>3, <1>4

LEMMA BridgeEndsKeeps ==
  ASSUME Inv, BridgeEnds
  PROVE  Inv'
  <1>1. /\ UNCHANGED <<setup, disk, selected, loading, values, start, bstart, provider, task>>
        /\ up' = FALSE /\ alock' = {} /\ btask' = [t \in BridgeTasks |-> "idle"] /\ May("bridge")
    BY DEF BridgeEnds, server, Fault, May
  <1>2. PICK lost : /\ lost = {c \in Clients : call[c].pc \in {"reload", "bridge answer"}}
                    /\ writing' = IF writing \in lost THEN Nobody ELSE writing
    BY DEF BridgeEnds
  <1>3. call' = [c \in Clients |-> Dropped(call[c])]
    BY DEF BridgeEnds, Dropped
  <1>4. ASSUME NEW c \in Clients
        PROVE  /\ call'[c] \in Calls /\ Steps(call'[c]) /\ Whole(call'[c]) /\ call'[c].staged = call[c].staged
               /\ call'[c] = call[c] \/ (call'[c].pc = "done" /\ call[c].pc \in {"reload", "bridge answer"})
               /\ call'[c].pc # "reload"
    <2>1. PICK x : x = call'[c]
      OBVIOUS
    <2>2. x = Dropped(call[c])
      BY <1>3, <2>1
    <2>3. /\ x \in Calls /\ Steps(x) /\ Whole(x) /\ x.staged = call[c].staged
          /\ x = call[c] \/ (x.pc = "done" /\ call[c].pc \in {"reload", "bridge answer"})
          /\ x.pc # "reload"
      BY <1>1, <2>2, DroppedFacts
    <2> QED
      BY <2>1, <2>3
  <1>5. Clients' = Clients /\ BridgeTasks' = BridgeTasks
    BY <1>1, SameSetup
  <1>6. Typed'
    <2>1. call' \in [Clients -> Calls]
      BY <1>3, <1>4
    <2>2. /\ setup \in DOMAIN Setups /\ DOMAIN disk = Files /\ selected \in Workspaces \cup {Nobody}
          /\ \A f \in Files : disk[f] \in Doc \/ (f \in Workspaces /\ May("garbled") /\ disk[f] = Bad)
          /\ (selected = Nobody => May("remove")) /\ values \in [Mine -> Value] /\ loading \in SUBSET [Mine -> Value]
          /\ DOMAIN start = {"later", "restart"} /\ DOMAIN bstart = {"net"} /\ task \in [Refreshers -> SUBSET [Mine -> Value]]
      BY DEF Inv, Typed
    <2>3. DOMAIN btask' = BridgeTasks
      BY <1>1
    <2> QED
      BY <1>1, <2>1, <2>2, <2>3, SameSetup DEF Typed
  <1>7. CallsInv'
    <2>1. ASSUME NEW d \in Clients
          PROVE  (Steps(call[d]) /\ Whole(call[d]))'
      <3>1. Steps(call'[d]) /\ Whole(call'[d])
        BY <1>4
      <3>2. Steps(call[d])'
        BY <1>1, <3>1, SameSetup DEF Steps, OwnTouched, BridgeFile, Touched, FileOf
      <3>3. Whole(call[d])'
        BY <1>1, <3>1, SameSetup DEF Whole
      <3> QED
        BY <3>2, <3>3
    <2>2. ASSUME NEW d \in Clients, HasLock(call'[d])
          PROVE  writing' = d
      <3>1. call'[d] = call[d] /\ call[d].pc \notin {"reload", "bridge answer"}
        <4>1. call'[d] = Dropped(call[d]) /\ call'[d].pc # "done"
          BY <1>3, <2>2 DEF HasLock, Past, Writing
        <4>2. call'[d] = call[d]
          BY <1>4, <4>1
        <4>3. PICK x : x = call[d]
          OBVIOUS
        <4>4. x \in Calls /\ Dropped(x).pc # "done"
          BY <4>1, <4>3, CallFacts
        <4>5. x.pc \notin {"reload", "bridge answer"}
          BY <4>4 DEF Dropped, Calls
        <4> QED
          BY <4>2, <4>3, <4>5
      <3>2. Holding(d) /\ writing = d
        BY <2>2, <3>1, HoldsIsHolding DEF Inv, CallsInv, Locked
      <3> QED
        BY <1>2, <3>1, <3>2
    <2>3. loading' # {} => \A d \in Clients : call'[d].pc \in {"idle", "done", "reload"} /\ ~HasLock(call'[d])
      BY <1>1, <1>4, CallFacts DEF HasLock, Past, Writing
    <2>4. Locked'
      BY <1>5, <2>2, <2>3 DEF Locked, Holding, HasLock, Past, Writing
    <2> QED
      BY <1>5, <2>1, <2>4 DEF CallsInv
  <1>8. Checked'
    <2>1. ~May("bridge") => up'
      BY <1>1
    <2>2. DOMAIN disk' = Files /\ selected' = selected /\ \A f \in OwnFiles : disk'[f] = disk[f]
      BY <1>1 DEF Inv, Typed
    <2>3. \A d \in Clients : HasLock(call'[d]) /\ call'[d].pc \in Past =>
            /\ Holding(d) /\ call[d].pc \in Past
            /\ call'[d].batch = call[d].batch /\ call'[d].scope = call[d].scope
      BY <1>4, HoldsIsHolding DEF Past
    <2> QED
      BY <1>1, <2>1, <2>2, <2>3, StillChecked
  <1>9. LiveInv'
    <2>1. \A d \in Clients : /\ call'[d].pc \in Writing <=> call[d].pc \in Writing
                             /\ call'[d].pc = "swap" => call[d].pc = "swap" /\ call'[d].read = call[d].read
      BY <1>4 DEF Writing
    <2>2. disk["bridge"] # Bad
      BY SettingsAssumption, Names DEF Inv, Typed, Doc, Files
    <2> QED
      BY <1>1, <2>1, <2>2, SameLive
  <1>10. ProviderInv'
    <2>1. Reloaders' = {}
      BY <1>1, <1>4, <1>5 DEF Reloaders, Reloading
    <2> QED
      BY <1>1, <2>1 DEF ProviderInv
  <1> QED
    BY <1>6, <1>7, <1>8, <1>9, <1>10 DEF Inv

-----------------------------------------------------------------------------
(* The theorems *)

LEMMA InitHolds ==
  ASSUME Init
  PROVE  Inv
  <1>1. /\ setup \in DOMAIN Setups /\ disk = [f \in Files |-> Empty] /\ selected \in Workspaces /\ loading = {}
        /\ values = [k \in Mine |-> Unset] /\ start = [k \in Mine \ LiveKeys |-> Unset]
        /\ call = [c \in Clients |-> Idle] /\ task = [t \in Refreshers |-> {}]
        /\ up = TRUE /\ bstart = [k \in Theirs \ LiveKeys |-> Unset] /\ provider = Unset /\ alock = {}
        /\ btask = [t \in BridgeTasks |-> "idle"]
    BY DEF Init
  <1>2. \A f \in Files : Empty \in Doc
    BY DEF Empty, Doc, Keys, Value
  <1>3. Idle \in Calls /\ Idle.pc = "idle" /\ Idle.answer = "none" /\ Idle.wrote = {} /\ DOMAIN Idle.staged = {}
    <2>1. [f \in {} |-> Empty] \in [{} -> Doc]
      OBVIOUS
    <2>2. Empty \in Batch
      BY DEF Empty, Batch, Value
    <2> QED
      BY <2>1, <2>2 DEF Idle, Calls, Pcs
  <1>4. Typed
    <2>1. DOMAIN start = {"later", "restart"} /\ DOMAIN bstart = {"net"}
      BY <1>1 DEF Mine, LiveKeys, Theirs
    <2>3. values \in [Mine -> Value] /\ loading \in SUBSET [Mine -> Value] /\ task \in [Refreshers -> SUBSET [Mine -> Value]]
      BY <1>1 DEF Value
    <2>4. call \in [Clients -> Calls]
      BY <1>1, <1>3
    <2>5. DOMAIN disk = Files /\ (\A f \in Files : disk[f] \in Doc) /\ DOMAIN btask = BridgeTasks
      BY <1>1, <1>2
    <2>6. selected # Nobody
      BY <1>1, Names DEF Files
    <2> QED
      BY <1>1, <2>1, <2>3, <2>4, <2>5, <2>6 DEF Typed
  <1>5. CallsInv
    <2>1. Steps(Idle) /\ Whole(Idle)
      BY <1>3 DEF Steps, Whole
    <2> QED
      BY <1>1, <1>3, <2>1 DEF CallsInv, Locked, Holding
  <1>6. Checked
    BY <1>1, <1>3 DEF Checked, Holding
  <1>7. LiveInv
    <2>1. "live" \in Mine /\ "device" \in Files
      BY DEF Mine, Files
    <2>2. Effective(disk, selected, "live") = Unset
      BY <1>1, <2>1 DEF Effective, Theirs, Empty, Keys, Files, Mine
    <2>3. \A f \in Files : disk[f] # Bad
      BY <1>1, <1>2, SettingsAssumption DEF Doc
    <2>4. values["live"] = Unset
      BY <1>1, <2>1
    <2>5. \A c \in Clients : call[c].pc # "swap"
      BY <1>1, <1>3
    <2> QED
      BY <1>1, <2>2, <2>3, <2>4, <2>5 DEF LiveInv
  <1>8. ProviderInv
    <2>1. disk["bridge"]["embed"] = Unset
      BY <1>1 DEF Files, Empty, Keys, Theirs
    <2> QED
      BY <1>1, <2>1 DEF ProviderInv
  <1> QED
    BY <1>4, <1>5, <1>6, <1>7, <1>8 DEF Inv

LEMMA NextHolds ==
  ASSUME Inv, [Next]_vars
  PROVE  Inv'
  <1>1. ASSUME NEW c \in Clients, Write(c)
        PROVE  Inv'
    BY <1>1, CheckOwnKeeps, BridgeCheckKeeps, BridgeWriteKeeps, BridgeAnswerKeeps, ApplyKeeps, WriteFileKeeps,
       RefreshReadKeeps, RefreshSwapKeeps, ListKeeps, AskKeeps DEF Write
  <1>2. ASSUME NEW c \in Clients, NEW b \in My.batches, NEW s \in My.scopes, ConfigSet(c, b, s)
        PROVE  Inv'
    BY <1>2, ConfigSetKeeps
  <1>3. ASSUME NEW t \in Refreshers, TaskRead(t) \/ TaskSwap(t)
                                   \/ \E w \in Workspaces, k \in {"live", "later"}, v \in Value : Change(w, k, v, t)
        PROVE  Inv'
    BY <1>3, TaskReadKeeps, TaskSwapKeeps, ChangeKeeps
  <1>4. CASE (\E s \in Workspaces \cup {Nobody} : Select(s)) \/ \E k \in {"live", "restart"}, v \in Value : Edit(k, v)
    BY <1>4, SelectKeeps, EditKeeps
  <1>5. CASE LoadRead \/ LoadCapture \/ \E b \in My.batches, s \in My.scopes : OfflineSet(b, s)
    BY <1>5, LoadReadKeeps, LoadCaptureKeeps, OfflineSetKeeps
  <1>6. CASE \E t \in BridgeTasks, k \in Theirs, v \in Value : BridgeSet(t, k, v)
    BY <1>6, BridgeSetKeeps
  <1>7. CASE Tick \/ BridgeEnds \/ BridgeStarts
    BY <1>7, TickKeeps, BridgeEndsKeeps, BridgeStartsKeeps
  <1>8. CASE \E p \in Clients \cup BridgeTasks : ReloadRead(p) \/ ReloadApply(p)
    BY <1>8, ReloadReadKeeps, ReloadApplyKeeps
  <1>9. CASE UNCHANGED vars
    <2>1. /\ UNCHANGED <<setup, disk, selected, loading, values, start, bstart, up, alock, provider, btask, call, task, writing>>
      BY <1>9 DEF vars, server, bridge
    <2>2. disk["bridge"] # Bad
      BY SettingsAssumption, Names DEF Inv, Typed, Doc, Files
    <2>3. Typed'
      BY <2>1, DiskTyped DEF Inv, Typed
    <2> QED
      BY <2>1, <2>2, <2>3, SameCalls, SameChecked, SameLive, SameProvider DEF Inv
  <1> QED
    BY <1>1, <1>2, <1>3, <1>4, <1>5, <1>6, <1>7, <1>8, <1>9 DEF Next

\* Inv holds in every state of every instance: who holds the lock and what each call has written
\* at its step, what a check that has passed still promises, and what the values and the provider
\* are read from (config_methods.rs, write; settings.rs, refresh; embed.rs).
THEOREM SettingsInvariant == Spec => []Inv
  <1>1. Init => Inv
    BY InitHolds
  <1>2. Inv /\ [Next]_vars => Inv'
    BY NextHolds
  <1> QED
    BY <1>1, <1>2, PTL DEF Spec

LEMMA TwoFiles ==
  ASSUME NEW w \in Workspaces, "device" \notin Workspaces
  PROVE  Cardinality({w, "device"}) = 2
  <1>1. IsFiniteSet({w}) /\ Cardinality({w}) = 1
    BY FS_Singleton
  <1>2. "device" \notin {w} /\ {w, "device"} = {w} \cup {"device"}
    OBVIOUS
  <1>3. Cardinality({w} \cup {"device"}) = Cardinality({w}) + 1
    BY <1>1, <1>2, FS_AddElement
  <1> QED
    BY <1>1, <1>2, <1>3

\* A batch is written whole or not at all, in whatever order calls, sessions, edits and restarts of
\* both processes come, as far as each claim of config_methods.rs holds (write; store.rs, apply).
THEOREM BatchesStayWhole == Spec => []BatchesAreWhole
  <1>1. ASSUME Inv
        PROVE  BatchesAreWhole
    <2>1. \A c \in Clients : Whole(call[c])
      BY <1>1 DEF Inv, CallsInv
    <2>2. \A c \in Clients : DOMAIN OwnPart(c) = DOMAIN Part(call[c].batch, Mine)
                             /\ DOMAIN BridgePart(c) = DOMAIN Part(call[c].batch, Theirs)
      BY DEF OwnPart, BridgePart
    <2>3. Undisturbed /\ ~May("bridge") => BothOrNeither
      BY <2>1, <2>2 DEF Whole, BothOrNeither, IsMixed
    <2>4. ~May("io") /\ ~May("kill") => TwoFilesOrNone
      <3>1. SUFFICES ASSUME ~May("io"), ~May("kill"), NEW c \in Clients, call[c].pc = "done", DOMAIN BridgePart(c) = {},
                            "restart" \in DOMAIN OwnPart(c), DOMAIN OwnPart(c) # {"restart"}, call[c].scope = "home"
                     PROVE  Cardinality(call[c].wrote) \in {0, 2}
        BY DEF TwoFilesOrNone
      <3>2. call[c].wrote = {} \/ \E w \in Workspaces : call[c].wrote = {w, "device"}
        BY <2>1, <2>2, <3>1 DEF Whole
      <3>3. "device" \notin Workspaces
        BY <1>1, Names DEF Inv, Typed
      <3> QED
        BY <3>2, <3>3, TwoFiles, FS_EmptySet
    <2> QED
      BY <2>3, <2>4 DEF BatchesAreWhole
  <1> QED
    BY <1>1, SettingsInvariant, PTL

\* A caller is told what was written, whatever moves under its call: sessions, edits, selections, other
\* calls, the end of the bridge, restarts (config_methods.rs, write).
THEOREM AnswersStayTrue == Spec => []AnswersAreTrue
  <1>1. ASSUME Inv
        PROVE  AnswersAreTrue
    <2>1. \A c \in Clients : Whole(call[c])
      BY <1>1 DEF Inv, CallsInv
    <2>2. ~May("garbled") /\ ~May("io") => RefusedWroteNothing
      BY <2>1 DEF Whole, RefusedWroteNothing
    <2> QED
      BY <2>1, <2>2 DEF Whole, AnswersAreTrue, OwnPart, BridgePart
  <1> QED
    BY <1>1, SettingsInvariant, PTL

\* Where only config.set reads the files again, the live keys are the files' whenever nothing is
\* under way (settings.rs, refresh).
THEOREM LiveKeysStayCurrent == Spec => []LiveKeysFollow
  <1>1. ASSUME Inv
        PROVE  LiveKeysFollow
    BY <1>1 DEF Inv, LiveInv, Alone, LiveKeysFollow, LiveKeysAreCurrent, Settled, Mine, LiveKeys
  <1> QED
    BY <1>1, SettingsInvariant, PTL

\* Whoever writes the bridge's settings and asks for a reload, in any number: with none under way
\* the provider is the one the settings ask for (embed.rs, reload_embed).
THEOREM ProviderStaysCurrent == Spec => []ProviderFollows
  <1>1. ASSUME Inv
        PROVE  ProviderFollows
    BY <1>1 DEF Inv, ProviderInv, ProviderFollows, Reloaders
  <1> QED
    BY <1>1, SettingsInvariant, PTL

=============================================================================
