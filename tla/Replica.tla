------------------------------ MODULE Replica -------------------------------
(***************************************************************************)
(* The replicas of one workspace (sapphire-framework-sync/src/replica.rs): *)
(* files on disk, the store that remembers them, and the calls -- scan,    *)
(* apply, fetch_missing, commit_session -- that bring the two together.    *)
(*                                                                         *)
(* A call holds the replica's lock but not the file system: users edit     *)
(* files between any two of its steps, and the process may crash there.    *)
(* Its steps are cut at the points where the disk or the store changes.    *)
(* Path states are written back: `mem` is what the call sees (pending      *)
(* states first), `store` what a restart finds.                            *)
(*                                                                         *)
(* A replica pulls from a peer in a session: hello, the peer's delta, its  *)
(* pages applied in any split, content arriving or not, fetch_missing,     *)
(* commit.  Module Session has the frames that carry it; here a session    *)
(* may also end at any point.                                              *)
(*                                                                         *)
(* Left out: size limits, .sapphireignore, names the OS cannot hold, case  *)
(* collisions, and the mtime shortcut (a file is always read).  Users do   *)
(* not edit conflict copies, they delete them, so a copy never has a       *)
(* conflict copy of its own.                                               *)
(***************************************************************************)
EXTENDS Merge

CONSTANTS
  Files,         \* the workspace's own paths; a path orders like its number
  CopiesFirst,   \* whether "<stem>.conflict-..." sorts before the path itself
  Strays,        \* conflict-copy paths where a user may put an unrelated file
  Types,         \* per replica: what its users write into files
  Deleters,      \* the replicas whose users delete files
  Clocks,        \* what the wall clock may read
  MaxPending,    \* MAX_PENDING: how many pending states force a flush
  PageSize,      \* PAGE: how many updates a session sends in one message
  MaxCalls,      \* bound: calls of different replicas under way at once
  MaxSessions,   \* bound: sessions under way at once, each pulling one way
  Starts,        \* bounds: what may happen in a behaviour (see left), one record per instance
  VanishAnytime, \* whether a root may disappear while there are files to place
  BackAnytime,   \* whether a root may be back between a call's miss of a file and its pause_reason
  NamedPaths     \* paths whose writes StoreSpreadsWrites counts (TLC needs finitely many)

VARIABLES
  file,      \* per replica: what the root's files hold (a partial function of paths)
  mounted,   \* per replica: whether the root and its marker are there
  mem,       \* per replica: the index and metadata as its calls see them
  store,     \* per replica: what the last transaction wrote
  pending,   \* per replica: the paths whose state `store` may lack
  unflushed, \* per replica: pending_versions
  staged,    \* per replica: the contents in its staging directory
  call,      \* per replica: the call that holds the lock
  sess,      \* per replica: the session it pulls in
  left       \* how many edits, crashes, unmounted roots and lost sessions may still come,
             \* and the links: the pairs <<r, s>> such that r has sessions with s (topology::link)

disks == <<file, mounted, staged>>
vars == <<file, mounted, mem, store, pending, unflushed, staged, call, sess, left>>

-----------------------------------------------------------------------------
(* Paths, path states and views *)

Own(f) == [base |-> f, copyOf |-> None]

\* conflict_path: the copy's name tells the path and the loser's dot.
CopyPath(p, d) == [base |-> p.base, copyOf |-> d]

IsCopy(p) == p.copyOf # None

Paths == [base : Files, copyOf : Dot \cup {None}]

ASSUME ReplicaAssumption ==
  /\ Files \subseteq Nat /\ None \notin Dot
  /\ CopiesFirst \in BOOLEAN
  /\ Strays \subseteq Paths /\ NamedPaths \subseteq Paths
  /\ VanishAnytime \in BOOLEAN /\ BackAnytime \in BOOLEAN
  /\ Types \in [Replicas -> SUBSET Contents] /\ Deleters \subseteq Replicas
  /\ Clocks \subseteq Nat
  /\ MaxPending \in Nat \ {0} /\ PageSize \in Nat \ {0} 
  /\ MaxCalls \in Nat \ {0} /\ MaxSessions \in Nat \ {0}
  /\ Starts \subseteq [edits : Nat, crashes : Nat, unmounts : Nat, drops : Nat,
                       links : SUBSET (Replicas \X Replicas)]

\* The order of path names, in which the store lists them and calls visit them:
\* a path and its copies together, the copies by their dots.
Before(p, q) ==
  \/ p.base < q.base
  \/ /\ p.base = q.base
     /\ \/ IsCopy(p) /\ ~IsCopy(q) /\ CopiesFirst
        \/ ~IsCopy(p) /\ IsCopy(q) /\ ~CopiesFirst
        \/ /\ IsCopy(p) /\ IsCopy(q)
           /\ \/ p.copyOf.replica < q.copyOf.replica
              \/ /\ p.copyOf.replica = q.copyOf.replica
                 /\ p.copyOf.counter < q.copyOf.counter

\* p comes first among the paths of S.
FirstOf(p, S) == p \in S /\ \A q \in S \ {p} : Before(p, q)

DiskContent == Contents \cup {None}

PathState == [versions : SUBSET Entry, seen : VersionVector,
              hash : DiskContent, diskSeen : VersionVector]

Update == [path : Paths, versions : SUBSET Entry, seen : VersionVector]

\* A path with no state: nothing recorded, nothing on disk.
NoState == [versions |-> {}, seen |-> NoVersions, hash |-> None, diskSeen |-> NoVersions]

Known(view) == DOMAIN view.st

StateOf(view, p) == IF p \in Known(view) THEN view.st[p] ELSE NoState

With(f, x, v) == [y \in DOMAIN f \cup {x} |-> IF y = x THEN v ELSE f[y]]

Without(f, x) == [y \in DOMAIN f \ {x} |-> f[y]]

EmptyView == [st |-> [p \in {} |-> NoState], counter |-> 0, hlc |-> Epoch, vv |-> NoVersions]

\* What reading the path finds: None for a missing file, and a root that is not
\* mounted has no files.
OnDisk(r, p) == IF mounted[r] /\ p \in DOMAIN file[r] THEN file[r][p] ELSE None

\* A mutant of Paused: no guard against a missing root.
NeverPaused(r) == FALSE

\* pause_reason: files were written, and the root or its marker is missing.
Paused(r) == ~mounted[r] /\ \E p \in Known(mem[r]) : mem[r].st[p].hash # None

\* content_path: a synced file that still holds the content, else a staged one.
Has(r, c) ==
  \/ \E p \in Known(mem[r]) : mem[r].st[p].hash = c /\ OnDisk(r, p) = c
  \/ c \in staged[r]

-----------------------------------------------------------------------------
(* Losers and conflict copies *)

\* The losing versions of `p` that must be kept next to the winner.
Losers(p, s) ==
  IF ~IsCopy(p)
    THEN { e \in s.versions : e # Winner(s.versions) /\ NeedsCopy(e, Winner(s.versions)) }
    ELSE {}

\* Losers whose copy this replica has never recorded.
Uncopied(view, p, s) == { e \in Losers(p, s) : CopyPath(p, e.dot) \notin Known(view) }

\* Mutants of DiskSeen: a wrong bound, and losers that are not held back.
DiskSeenTwoBefore(view, p, s) ==
  [q \in Replicas |->
     LET pinned == { e.dot.counter : e \in { l \in Uncopied(view, p, s) : l.dot.replica = q } }
         least  == CHOOSE n \in pinned : \A m \in pinned : n <= m
     IN  IF pinned # {} /\ least - 2 < s.seen[q] THEN least - 2 ELSE s.seen[q]]

DiskSeenAll(view, p, s) == s.seen

\* disk_seen: everything merged, except that a replica with an uncopied loser
\* counts only up to the write before it.
DiskSeen(view, p, s) ==
  [q \in Replicas |->
     LET pinned == { e.dot.counter : e \in { l \in Uncopied(view, p, s) : l.dot.replica = q } }
         least  == CHOOSE n \in pinned : \A m \in pinned : n <= m
     IN  IF pinned # {} /\ least - 1 < s.seen[q] THEN least - 1 ELSE s.seen[q]]

\* A mutant of Unavailable: what an earlier session did not get is not asked for again.
NothingUnavailable(r) == {}

\* Content wanted on disk and held nowhere here (`unavailable`).
Unavailable(r) ==
  { c \in Contents :
      /\ ~Has(r, c)
      /\ \E p \in Known(mem[r]) : LET s == mem[r].st[p] IN
           /\ c # s.hash
           /\ \/ c = Winner(s.versions).content
              \/ \E e \in Uncopied(mem[r], p, s) : e.content = c }

\* delta_for: the stored states `peer` has not merged.
DeltaFor(view, peer) ==
  { [path |-> p, versions |-> view.st[p].versions, seen |-> view.st[p].seen] :
      p \in { q \in Known(view) : ~Covers(peer, view.st[q].seen) } }
-----------------------------------------------------------------------------
(* Initial state *)

Idle == [kind |-> "idle", pc |-> "pick", cur |-> None, todo |-> {}, joined |-> {},
         losers |-> {}, page |-> {}]

NoSession == [from |-> 0, said |-> NoVersions, heard |-> NoVersions, sent |-> FALSE,
              fetched |-> FALSE, updates |-> {}]

Init ==
  /\ file = [r \in Replicas |-> [p \in {} |-> None]]
  /\ mounted = [r \in Replicas |-> TRUE]
  /\ mem = [r \in Replicas |-> EmptyView]
  /\ store = [r \in Replicas |-> EmptyView]
  /\ pending = [r \in Replicas |-> {}]
  /\ unflushed = [r \in Replicas |-> FALSE]
  /\ staged = [r \in Replicas |-> {}]
  /\ call = [r \in Replicas |-> Idle]
  /\ sess = [r \in Replicas |-> NoSession]
  /\ left \in Starts

-----------------------------------------------------------------------------
(* Writing back *)

\* commit_state: the state is pending, and flushed with the others once MaxPending
\* are.  A state with newly joined versions (`versionsJoined`) leaves
\* pending_versions set, even after a flush it forced.
CommitState(r, view, p, versionsJoined) ==
  LET dirty == pending[r] \cup {p}
      full  == Cardinality(dirty) >= MaxPending
  IN  /\ mem' = [mem EXCEPT ![r] = view]
      /\ store' = IF full THEN [store EXCEPT ![r] = view] ELSE store
      /\ pending' = [pending EXCEPT ![r] = IF full THEN {} ELSE dirty]
      /\ unflushed' = [unflushed EXCEPT ![r] = versionsJoined \/ (@ /\ ~full)]

\* A mutant of Flush: the counter is not among the metadata written.
FlushWithoutCounter(r) ==
  IF pending[r] = {}
    THEN UNCHANGED <<store, pending, unflushed>>
    ELSE /\ store' = [store EXCEPT ![r] = [mem[r] EXCEPT !.counter = store[r].counter]]
         /\ pending' = [pending EXCEPT ![r] = {}]
         /\ unflushed' = [unflushed EXCEPT ![r] = FALSE]

\* flush: the pending states and the metadata in one transaction; without a
\* pending state it does nothing at all.
Flush(r) ==
  IF pending[r] = {}
    THEN UNCHANGED <<store, pending, unflushed>>
    ELSE /\ store' = [store EXCEPT ![r] = mem[r]]
         /\ pending' = [pending EXCEPT ![r] = {}]
         /\ unflushed' = [unflushed EXCEPT ![r] = FALSE]

\* A mutant of MustFlush: files are written before the states that explain them.
NeverMustFlush(r) == FALSE

\* flush_versions has something to write before the workspace may change.
MustFlush(r) == unflushed[r] /\ pending[r] # {}

\* Placing a file moves it out of staging.  With no root, it goes to a directory
\* that the real root hides again when it is back.
Place(r, p, c) ==
  /\ file' = IF mounted[r] THEN [file EXCEPT ![r] = With(@, p, c)] ELSE file
  /\ staged' = [staged EXCEPT ![r] = @ \ {c}]

-----------------------------------------------------------------------------
(* Users and the world outside *)

UserWrite(r, p, c) ==
  /\ mounted[r]
  /\ left.edits > 0
  /\ OnDisk(r, p) # c
  /\ file' = [file EXCEPT ![r] = With(@, p, c)]
  /\ left' = [left EXCEPT !.edits = @ - 1]
  /\ UNCHANGED <<mounted, staged, mem, store, pending, unflushed, call, sess>>

UserDelete(r, p) ==
  /\ mounted[r]
  /\ left.edits > 0
  /\ r \in Deleters
  /\ p \in DOMAIN file[r]
  /\ file' = [file EXCEPT ![r] = Without(@, p)]
  /\ left' = [left EXCEPT !.edits = @ - 1]
  /\ UNCHANGED <<mounted, staged, mem, store, pending, unflushed, call, sess>>

\* Every path holds its winner and has its copies.
AllSettled(r) ==
  \A p \in Known(mem[r]) : LET s == mem[r].st[p] IN
    s.hash = Winner(s.versions).content /\ Uncopied(mem[r], p, s) = {}

\* The root or its marker disappears.  A replica that has written no file is not
\* paused without a root, by design, so the roots considered hold a synced file.
Unmount(r) ==
  /\ mounted[r]
  /\ \E p \in Known(mem[r]) : mem[r].st[p].hash # None
  /\ VanishAnytime \/ (AllSettled(r) /\ call[r].kind \in {"idle", "scan"})
  /\ left.unmounts > 0
  /\ mounted' = [mounted EXCEPT ![r] = FALSE]
  /\ left' = [left EXCEPT !.unmounts = @ - 1]
  /\ UNCHANGED <<file, staged, mem, store, pending, unflushed, call, sess>>

\* It is back, with the files it had.
Mount(r) ==
  /\ ~mounted[r]
  /\ BackAnytime \/ call[r].pc # "gone"
  /\ mounted' = [mounted EXCEPT ![r] = TRUE]
  /\ UNCHANGED <<file, staged, mem, store, pending, unflushed, call, sess, left>>

\* Staged content no stored version refers to, or that a file holds.  Its age
\* decides whether collect_staging takes it, so it takes any part of it.
Collectable(r, view) ==
  { c \in staged[r] :
      \/ \A p \in Known(view) : \A e \in view.st[p].versions : e.content # c
      \/ \E p \in Known(view) : view.st[p].hash = c /\ OnDisk(r, p) = c }

\* The process stops; `open` finds the store, the files and what was staged.
Crash(r) ==
  /\ left.crashes > 0
  /\ left' = [left EXCEPT !.crashes = @ - 1]
  /\ mem' = [mem EXCEPT ![r] = store[r]]
  /\ pending' = [pending EXCEPT ![r] = {}]
  /\ unflushed' = [unflushed EXCEPT ![r] = FALSE]
  /\ call' = [call EXCEPT ![r] = Idle]
  /\ sess' = [q \in Replicas |->
        IF q = r \/ (sess[q].from = r /\ ~sess[q].sent) THEN NoSession ELSE sess[q]]
  /\ \E gone \in SUBSET Collectable(r, store[r]) :
        staged' = [staged EXCEPT ![r] = @ \ gone]
  /\ UNCHANGED <<file, mounted, store>>

-----------------------------------------------------------------------------
(* Calls: where they start *)

StartCall(r, kind, todo, page) ==
  /\ call[r] = Idle
  /\ Cardinality({ q \in Replicas : call[q] # Idle }) < MaxCalls
  /\ ~Paused(r)
  /\ call' = [call EXCEPT ![r] = [Idle EXCEPT !.kind = kind, !.todo = todo, !.page = page]]
  /\ UNCHANGED <<disks, mem, store, pending, unflushed, sess, left>>

\* Every file under the root and every path with a state.
StartScan(r) ==
  StartCall(r, "scan", (IF mounted[r] THEN DOMAIN file[r] ELSE {}) \cup Known(mem[r]), {})

\* The next PageSize updates, in path order.
StartApply(r) ==
  LET page == { u \in sess[r].updates :
                  Cardinality({ v \in sess[r].updates : Before(v.path, u.path) }) < PageSize }
  IN  /\ sess[r].sent /\ page # {}
      /\ StartCall(r, "apply", { u.path : u \in page }, page)

\* `materialise`, once every page is in.
StartFetch(r) ==
  /\ sess[r].sent /\ sess[r].updates = {} /\ ~sess[r].fetched
  /\ StartCall(r, "fetch", Known(mem[r]), {})

-----------------------------------------------------------------------------
(* Calls: one path at a time *)

\* The update of the page that carries p.
UpdateOf(r, p) == CHOOSE u \in call[r].page : u.path = p

\* The next path of the call.  apply_updates first folds the clock of each of the
\* update's versions into its own: the latest one stands.
Take(r, p) ==
  /\ call[r].pc = "pick" /\ FirstOf(p, call[r].todo)
  /\ call' = [call EXCEPT ![r].pc = "reconcile", ![r].cur = p]
  /\ IF call[r].kind = "apply"
       THEN \E now \in Clocks :
              LET heard == { Clamped(e.hlc, now) : e \in UpdateOf(r, p).versions }
              IN  \E h \in heard \cup {mem[r].hlc} :
                    /\ \A g \in heard \cup {mem[r].hlc} : ~Earlier(h, g)
                    /\ mem' = [mem EXCEPT ![r].hlc = h]
       ELSE UNCHANGED mem
  /\ UNCHANGED <<disks, store, pending, unflushed, sess, left>>

\* After reconcile_path with the path in state s: its losers get their copies,
\* then it is settled.
ToCopies(r, s) ==
  call' = [call EXCEPT ![r].pc = "copies", ![r].losers = Losers(call[r].cur, s)]

\* The call is done with its path; apply joins the update it has reconciled for.
Leave(r) ==
  LET c == call[r]
  IN  call' = [call EXCEPT ![r] =
        IF c.kind = "apply" /\ c.cur \in c.todo
          THEN [c EXCEPT !.pc = "join", !.losers = {}]
          ELSE [c EXCEPT !.pc = "pick", !.cur = None, !.losers = {}, !.todo = @ \ {c.cur}]]

-----------------------------------------------------------------------------
(* Calls: reconcile_path, compare the path's file with its state *)

\* next_entry for `content` found at p, joined with what the state holds.  Its
\* context is what the file it replaces reflected.
LocalWrite(r, view, p, content, now) ==
  LET s     == StateOf(view, p)
      dot   == [replica |-> r, counter |-> view.counter + 1]
      hlc   == Tick(view.hlc, now)
      seen  == AddDot(s.diskSeen, dot)
      all   == Join(s, [versions |-> {[dot |-> dot, content |-> content, hlc |-> hlc]},
                        seen |-> seen])
  IN  [st      |-> With(view.st, p, [versions |-> all.versions, seen |-> all.seen,
                                     hash |-> content, diskSeen |-> seen]),
       counter |-> view.counter + 1,
       hlc     |-> hlc,
       vv      |-> AddDot(view.vv, dot)]

\* No file and no state: nothing to do.
ReconcileNothing(r) ==
  LET p == call[r].cur IN
  /\ call[r].pc = "reconcile"
  /\ p \notin Known(mem[r]) /\ OnDisk(r, p) = None
  /\ Leave(r)
  /\ UNCHANGED <<disks, mem, store, pending, unflushed, sess, left>>

\* The file is what the state says it is.
ReconcileSame(r) ==
  LET p == call[r].cur IN
  /\ call[r].pc = "reconcile"
  /\ p \in Known(mem[r]) /\ OnDisk(r, p) = mem[r].st[p].hash
  /\ ToCopies(r, mem[r].st[p])
  /\ UNCHANGED <<disks, mem, store, pending, unflushed, sess, left>>

\* A mutant of Materialised: a file found where a delete won is one yet to be removed, not an edit.
DeleteCarriedOut(r, p) ==
  /\ p \in Known(mem[r])
  /\ OnDisk(r, p) # mem[r].st[p].hash
  /\ LET w == Winner(mem[r].st[p].versions) IN OnDisk(r, p) = w.content \/ IsTombstone(w)

\* The winner was written, or carried out as a delete, but not recorded.
Materialised(r, p) ==
  /\ p \in Known(mem[r])
  /\ OnDisk(r, p) # mem[r].st[p].hash
  /\ OnDisk(r, p) = Winner(mem[r].st[p].versions).content

ReconcileMaterialised(r) ==
  LET p == call[r].cur IN
  /\ call[r].pc = "reconcile"
  /\ Materialised(r, p)
  /\ CommitState(r, [mem[r] EXCEPT !.st[p].hash = OnDisk(r, p)], p, FALSE)
  /\ ToCopies(r, mem[r].st[p])
  /\ UNCHANGED <<disks, sess, left>>

\* The file was edited or deleted.
Edited(r, p) == OnDisk(r, p) # StateOf(mem[r], p).hash /\ ~Materialised(r, p)

\* The file is not there.  Whether its root is, is asked next.
ReconcileMissing(r) ==
  LET p == call[r].cur IN
  /\ call[r].pc = "reconcile"
  /\ Edited(r, p) /\ OnDisk(r, p) = None
  /\ call' = [call EXCEPT ![r].pc = "gone"]
  /\ UNCHANGED <<disks, mem, store, pending, unflushed, sess, left>>

\* The root disappeared under the call: what looks like a delete stops it.
ReconcilePaused(r) ==
  /\ call[r].pc = "gone"
  /\ Paused(r)
  /\ Flush(r)
  /\ call' = [call EXCEPT ![r] = Idle]
  /\ sess' = [sess EXCEPT ![r] = IF call[r].kind = "scan" THEN @ ELSE NoSession]
  /\ UNCHANGED <<disks, mem, left>>

\* The path's file holds `content`, None when it was missed: a local write.
RecordWrite(r, content) ==
  LET p == call[r].cur IN
  /\ \E now \in Clocks :
       LET written == LocalWrite(r, mem[r], p, content, now)
       IN  /\ CommitState(r, written, p, TRUE)
           /\ ToCopies(r, written.st[p])
  /\ UNCHANGED <<disks, sess, left>>

ReconcileDelete(r) ==
  /\ call[r].pc = "gone"
  /\ ~Paused(r)
  /\ RecordWrite(r, None)

ReconcileEdit(r) ==
  LET c == OnDisk(r, call[r].cur) IN
  /\ call[r].pc = "reconcile"
  /\ Edited(r, call[r].cur) /\ c # None
  /\ RecordWrite(r, c)

-----------------------------------------------------------------------------
(* Calls: ensure_conflict_copies and settle *)

\* The bytes of the loser e can be copied: from the file itself while it is what
\* the path's file should hold, else from wherever they are.
CanCopy(r, e) ==
  IF mem[r].st[call[r].cur].hash = e.content
    THEN OnDisk(r, call[r].cur) = e.content
    ELSE Has(r, e.content)

\* The loser's copy is written: it was never recorded, and nothing is at its path.
Writes(r, e) ==
  LET c == CopyPath(call[r].cur, e.dot)
  IN  c \notin Known(mem[r]) /\ OnDisk(r, c) = None /\ CanCopy(r, e)

\* Opening the file to copy it fails: the path is given up for this call.
Unreadable(r, e) ==
  LET c == CopyPath(call[r].cur, e.dot)
  IN  /\ c \notin Known(mem[r]) /\ OnDisk(r, c) = None
      /\ mem[r].st[call[r].cur].hash = e.content
      /\ OnDisk(r, call[r].cur) = None

CopyError(r, e) ==
  /\ call[r].pc = "copies" /\ e \in call[r].losers
  /\ Unreadable(r, e)
  /\ Leave(r)
  /\ UNCHANGED <<disks, mem, store, pending, unflushed, sess, left>>

\* The copy was recorded before (and perhaps deleted), or an unrelated file is in
\* its place, or the content cannot be had.
CopySkip(r, e) ==
  LET c == CopyPath(call[r].cur, e.dot) IN
  /\ call[r].pc = "copies" /\ e \in call[r].losers
  /\ \/ c \in Known(mem[r])
     \/ OnDisk(r, c) \notin {None, e.content}
     \/ OnDisk(r, c) = None /\ ~CanCopy(r, e) /\ ~Unreadable(r, e)
  /\ call' = [call EXCEPT ![r].losers = @ \ {e}]
  /\ UNCHANGED <<disks, mem, store, pending, unflushed, sess, left>>

\* The copy, written now or found in place, is recorded as a local write.
CopyLoser(r, e) ==
  LET c == CopyPath(call[r].cur, e.dot) IN
  /\ call[r].pc = "copies" /\ e \in call[r].losers
  /\ \/ Writes(r, e) /\ ~MustFlush(r) /\ Place(r, c, e.content)
     \/ /\ c \notin Known(mem[r]) /\ OnDisk(r, c) = e.content
        /\ UNCHANGED <<file, staged>>
  /\ \E now \in Clocks : CommitState(r, LocalWrite(r, mem[r], c, e.content, now), c, TRUE)
  /\ call' = [call EXCEPT ![r].losers = @ \ {e}]
  /\ UNCHANGED <<mounted, sess, left>>

\* A mutant of Unsettled: the winner is written before the losers are copied.
UnsettledAtOnce(r) ==
  LET s == mem[r].st[call[r].cur]
  IN  /\ call[r].pc = "copies"
      /\ Winner(s.versions).content # s.hash
      /\ OnDisk(r, call[r].cur) \in {None, s.hash}

\* settle: the file does not hold the winner, and nothing unrecorded is in the way.
Unsettled(r) ==
  LET s == mem[r].st[call[r].cur]
  IN  /\ call[r].pc = "copies" /\ call[r].losers = {}
      /\ Winner(s.versions).content # s.hash
      /\ OnDisk(r, call[r].cur) \in {None, s.hash}

SettleReady(r) ==
  LET w == Winner(mem[r].st[call[r].cur].versions)
  IN  Unsettled(r) /\ (IsTombstone(w) \/ Has(r, w.content))

\* The state settle commits once the file holds `content`.
Settled(r, content) ==
  LET p == call[r].cur
      s == mem[r].st[p]
  IN  [mem[r] EXCEPT !.st[p].hash = content, !.st[p].diskSeen = DiskSeen(mem[r], p, s)]

\* The file is the winner already; what it reflects may have grown.
SettleSame(r) ==
  LET p == call[r].cur
      s == mem[r].st[p]
  IN
  /\ call[r].pc = "copies" /\ call[r].losers = {}
  /\ Winner(s.versions).content = s.hash
  /\ IF s.diskSeen = DiskSeen(mem[r], p, s)
       THEN UNCHANGED <<mem, store, pending, unflushed>>
       ELSE CommitState(r, Settled(r, s.hash), p, FALSE)
  /\ Leave(r)
  /\ UNCHANGED <<disks, sess, left>>

\* Occupied, or the winner's content cannot be had.
SettleSkip(r) ==
  /\ call[r].pc = "copies" /\ call[r].losers = {}
  /\ Winner(mem[r].st[call[r].cur].versions).content # mem[r].st[call[r].cur].hash
  /\ ~SettleReady(r)
  /\ Leave(r)
  /\ UNCHANGED <<disks, mem, store, pending, unflushed, sess, left>>

SettleWrite(r) ==
  LET p == call[r].cur
      w == Winner(mem[r].st[p].versions)
  IN
  /\ SettleReady(r) /\ ~MustFlush(r)
  /\ IF IsTombstone(w)
       THEN /\ file' = IF mounted[r] THEN [file EXCEPT ![r] = Without(@, p)] ELSE file
            /\ UNCHANGED staged
       ELSE Place(r, p, w.content)
  /\ CommitState(r, Settled(r, w.content), p, FALSE)
  /\ Leave(r)
  /\ UNCHANGED <<mounted, sess, left>>

\* flush_versions, before the workspace changes.
FlushVersions(r) ==
  /\ MustFlush(r)
  /\ \/ call[r].pc = "copies" /\ \E e \in call[r].losers : Writes(r, e)
     \/ SettleReady(r)
  /\ Flush(r)
  /\ UNCHANGED <<disks, mem, call, sess, left>>

-----------------------------------------------------------------------------
(* Calls: the rest of apply_updates, and the end of every call *)

JoinUpdate(r) ==
  LET p == call[r].cur
      s == StateOf(mem[r], p)
      j == Join(s, UpdateOf(r, p))
      changed == j.versions # s.versions \/ j.seen # s.seen
      joined == [s EXCEPT !.versions = j.versions, !.seen = j.seen]
  IN
  /\ call[r].pc = "join"
  /\ IF changed
       THEN CommitState(r, [mem[r] EXCEPT !.st = With(@, p, joined)], p, TRUE)
       ELSE UNCHANGED <<mem, store, pending, unflushed>>
  /\ call' = [call EXCEPT ![r].pc = "pick", ![r].cur = None, ![r].todo = @ \ {p},
                          ![r].joined = IF changed THEN @ \cup {p} ELSE @]
  /\ UNCHANGED <<disks, sess, left>>

\* Once every update of the page is joined, the joined paths are settled.
SettleJoined(r, p) ==
  /\ call[r].pc = "pick" /\ call[r].todo = {} /\ FirstOf(p, call[r].joined)
  /\ call' = [call EXCEPT ![r].pc = "copies", ![r].cur = p, ![r].joined = @ \ {p},
                          ![r].losers = Losers(p, mem[r].st[p])]
  /\ UNCHANGED <<disks, mem, store, pending, unflushed, sess, left>>

\* finish: flush, and let the lock go.
Finish(r) ==
  /\ call[r] # Idle
  /\ call[r].pc = "pick" /\ call[r].todo = {} /\ call[r].joined = {}
  /\ Flush(r)
  /\ call' = [call EXCEPT ![r] = Idle]
  /\ IF call[r].kind = "scan"
       THEN \E gone \in SUBSET Collectable(r, mem[r]) :
              staged' = [staged EXCEPT ![r] = @ \ gone]
       ELSE UNCHANGED staged
  /\ sess' = [sess EXCEPT ![r].updates = @ \ call[r].page,
                          ![r].fetched = @ \/ call[r].kind = "fetch"]
  /\ UNCHANGED <<file, mounted, mem, left>>

-----------------------------------------------------------------------------
(* Sessions: what r pulls from a peer *)

\* Both Hellos: what r says it has merged, and what its peer s says.  A session in
\* which r lacks neither writes nor content would change nothing and is left out.
Hello(r, s) ==
  /\ r # s /\ <<r, s>> \in left.links /\ sess[r] = NoSession
  /\ Cardinality({ q \in Replicas : sess[q] # NoSession }) < MaxSessions
  /\ call[r] = Idle /\ call[s] = Idle
  /\ ~Covers(mem[r].vv, mem[s].vv) \/ Unavailable(r) # {}
  /\ sess' = [sess EXCEPT ![r] =
        [NoSession EXCEPT !.from = s, !.said = mem[r].vv, !.heard = mem[s].vv]]
  /\ UNCHANGED <<disks, mem, store, pending, unflushed, call, left>>

\* The peer's pages, all built in one hold of its lock some time later.
Pages(r) ==
  LET s == sess[r].from IN
  /\ s # 0 /\ ~sess[r].sent
  /\ call[s] = Idle
  /\ sess' = [sess EXCEPT ![r].sent = TRUE, ![r].updates = DeltaFor(store[s], sess[r].said)]
  /\ UNCHANGED <<disks, mem, store, pending, unflushed, call, left>>

\* Content r lacks for a page or asks for, from what its peer has at that moment.
Content(r, c) ==
  /\ sess[r].sent
  /\ ~Has(r, c)
  /\ c \in Unavailable(r) \/ \E u \in sess[r].updates : \E e \in u.versions : e.content = c
  /\ call[sess[r].from] = Idle /\ Has(sess[r].from, c)
  /\ staged' = [staged EXCEPT ![r] = @ \cup {c}]
  /\ UNCHANGED <<file, mounted, mem, store, pending, unflushed, call, sess, left>>

\* A mutant of CommitSession: it claims what the peer has by now.
CommitPresent(r) ==
  /\ call[r] = Idle
  /\ sess[r].fetched
  /\ LET view == [mem[r] EXCEPT !.vv = MergeVV(@, mem[sess[r].from].vv)]
     IN  mem' = [mem EXCEPT ![r] = view] /\ store' = [store EXCEPT ![r] = view]
  /\ pending' = [pending EXCEPT ![r] = {}]
  /\ unflushed' = [unflushed EXCEPT ![r] = @ /\ pending[r] = {}]
  /\ sess' = [sess EXCEPT ![r] = NoSession]
  /\ UNCHANGED <<disks, call, left>>

\* commit_session: r has what its peer said it had.
CommitSession(r) ==
  /\ call[r] = Idle
  /\ sess[r].fetched
  /\ LET view == [mem[r] EXCEPT !.vv = MergeVV(@, sess[r].heard)]
     IN  mem' = [mem EXCEPT ![r] = view] /\ store' = [store EXCEPT ![r] = view]
  /\ pending' = [pending EXCEPT ![r] = {}]
  /\ unflushed' = [unflushed EXCEPT ![r] = @ /\ pending[r] = {}]
  /\ sess' = [sess EXCEPT ![r] = NoSession]
  /\ UNCHANGED <<disks, call, left>>

\* The stream ended first: nothing is committed.
EndSession(r) ==
  /\ call[r] = Idle
  /\ sess[r] # NoSession
  /\ left.drops > 0
  /\ left' = [left EXCEPT !.drops = @ - 1]
  /\ sess' = [sess EXCEPT ![r] = NoSession]
  /\ UNCHANGED <<disks, mem, store, pending, unflushed, call>>

-----------------------------------------------------------------------------

UserEdit(r) ==
  \/ \E p \in { Own(f) : f \in Files } \cup Strays, c \in Types[r] : UserWrite(r, p, c)
  \/ \E p \in DOMAIN file[r] : UserDelete(r, p)

\* A step of the call that holds r's lock.
CallStep(r) ==
  \/ \E p \in call[r].todo : Take(r, p)
  \/ ReconcileNothing(r) \/ ReconcileSame(r) \/ ReconcileMaterialised(r)
  \/ ReconcileMissing(r) \/ ReconcilePaused(r) \/ ReconcileDelete(r) \/ ReconcileEdit(r)
  \/ \E e \in call[r].losers : CopyError(r, e) \/ CopySkip(r, e) \/ CopyLoser(r, e)
  \/ FlushVersions(r)
  \/ SettleSame(r) \/ SettleSkip(r) \/ SettleWrite(r)
  \/ JoinUpdate(r)
  \/ \E p \in call[r].joined : SettleJoined(r, p)
  \/ Finish(r)

SomeContent(r) == \E c \in Contents : Content(r, c)

SessionStep(r) ==
  \/ \E s \in Replicas : Hello(r, s)
  \/ Pages(r)
  \/ StartApply(r) \/ StartFetch(r)
  \/ CommitSession(r)

Next ==
  \E r \in Replicas :
    \/ UserEdit(r)
    \/ Unmount(r) \/ Mount(r) \/ Crash(r)
    \/ StartScan(r) \/ CallStep(r)
    \/ SessionStep(r) \/ SomeContent(r) \/ EndSession(r)

Spec == Init /\ [][Next]_vars

\* What the app server provides: a call that holds the lock runs to its end; every
\* root is scanned and every pair of replicas has a session again and again (the
\* watcher, dial_loop), though they contend for the lock; and a peer that keeps
\* being asked for content it has gets it across.
Fairness ==
  \A r \in Replicas :
    /\ WF_vars(CallStep(r))
    /\ SF_vars(StartScan(r))
    /\ SF_vars(SessionStep(r))
    /\ SF_vars(SomeContent(r))

FairSpec == Spec /\ Fairness

-----------------------------------------------------------------------------
(* Properties *)

\* The variables hold what the code's types say they do.
ViewOK(view) ==
  /\ \A p \in Known(view) : p \in Paths /\ view.st[p] \in PathState /\ view.st[p].versions # {}
  /\ view.counter \in Nat /\ view.hlc \in Timestamp /\ view.vv \in VersionVector

TypeOK ==
  \A r \in Replicas :
    /\ DOMAIN file[r] \subseteq Paths /\ \A p \in DOMAIN file[r] : file[r][p] \in Contents
    /\ mounted[r] \in BOOLEAN /\ unflushed[r] \in BOOLEAN
    /\ ViewOK(mem[r]) /\ ViewOK(store[r])
    /\ pending[r] \subseteq Known(mem[r])
    /\ staged[r] \subseteq Contents

\* Whoever holds a write's dot holds that write: nobody but r itself knows more of
\* r's writes than r's store does, so a counter that a crash takes back was never
\* seen by anyone (delta_for and Hello read what is flushed).
Vectors(view) == {view.vv} \cup { view.st[p].seen : p \in Known(view) }

NoDotEscapes ==
  \A r \in Replicas :
    /\ \A v \in Vectors(mem[r]) : v[r] <= mem[r].counter
    /\ \A v \in Vectors(store[r]) : v[r] <= store[r].counter
    /\ \A q \in Replicas \ {r} : \A v \in Vectors(mem[q]) : v[r] <= store[r].counter

\* A version vector is honest: a version some replica holds, and whose dot r's vector
\* covers, has been merged into r's own state of that path.  It holds of the store as
\* well, so a crash never leaves a claim behind that no peer will send again.
VectorIsHonest ==
  \A r, q \in Replicas : \A p \in Known(mem[q]) : \A e \in mem[q].st[p].versions :
    \A view \in {mem[r], store[r]} :
      CoversDot(view.vv, e.dot) => CoversDot(StateOf(view, p).seen, e.dot)

\* A root that is missing for a while makes no replica record deletes.
MissingRootDeletesNothing ==
  \A q \in Replicas : \A p \in Known(mem[q]) : \A e \in mem[q].st[p].versions :
    IsTombstone(e) => e.dot.replica \in Deleters

\* Two replicas that have merged the same writes of a path hold the same versions of
\* it, in whatever order they came and whatever crashed in between.
SameSeenSameVersions ==
  \A r, q \in Replicas : \A p \in Known(mem[r]) \cap Known(mem[q]) :
    mem[r].st[p].seen = mem[q].st[p].seen
      => mem[r].st[p].versions = mem[q].st[p].versions

\* A local write is a user's: what a replica records of its own paths was typed
\* there, and it records a delete only where users delete.  Content a call placed, or
\* a file it removed, before a crash is never taken for an edit, nor a missing root
\* for deletes (flush_versions, pause_reason).
WritesAreUsers ==
  \A q \in Replicas : \A p \in Known(mem[q]) : \A e \in mem[q].st[p].versions :
    IF IsTombstone(e) THEN e.dot.replica \in Deleters
    ELSE ~IsCopy(p) => e.content \in Types[e.dot.replica]

\* A local write supersedes a version only if its bytes were preserved: they were
\* what the file held last, or there is (or was) a conflict copy of it, or the winner
\* has the same content, or it was written here and a user has overwritten it since
\* (disk_seen, ensure_conflict_copies).
LocalWriteSpares ==
  [][\A r \in Replicas : mem'[r].counter > mem[r].counter =>
       \A p \in { q \in Known(mem[r]) : ~IsCopy(q) } :
         \A e \in mem[r].st[p].versions \ mem'[r].st[p].versions :
           \/ IsTombstone(e)
           \/ e.content \in {mem[r].st[p].hash, Winner(mem[r].st[p].versions).content}
           \/ CopyPath(p, e.dot) \in Known(mem[r])
           \/ e.dot.replica = r /\ ~Has(r, e.content)]_vars

\* A call overwrites or removes the bytes of a version that has lost only when they
\* stay somewhere on this replica, or a conflict copy of them was recorded.
Holds(files, p, c) == p \in DOMAIN files /\ files[p] = c

OverwriteSpares ==
  [][left' = left =>
       \A r \in Replicas : \A p \in Known(mem[r]) : \A e \in Losers(p, mem[r].st[p]) :
         Holds(file[r], p, e.content) /\ ~Holds(file'[r], p, e.content)
           => Has(r, e.content)' \/ CopyPath(p, e.dot) \in Known(mem[r])]_vars

\* Once users leave the files alone and the roots stay where they are, every replica's
\* root comes to hold the same files, conflict copies included, and every file its
\* path's winner.
Agree ==
  \A r \in Replicas :
    /\ \A q \in Replicas : file[r] = file[q]
    /\ \A p \in Known(mem[r]) : OnDisk(r, p) = Winner(mem[r].st[p].versions).content

RootsStay == <>[](\A r \in Replicas : mounted[r])

Converges == RootsStay => <>[]Agree

\* No file stays deleted that no user deleted.  A root that is back right after a scan
\* missed its file has a delete recorded for it (reconcile_path asks pause_reason last),
\* which peers may carry out; the file is still there, so a later scan records it again,
\* as a write that supersedes that delete, and it comes back to them.
NoDeletesButUsers ==
  \A r \in Replicas : \A p \in Known(mem[r]) :
    LET w == Winner(mem[r].st[p].versions) IN IsTombstone(w) => w.dot.replica \in Deleters

AbsenceHeals == RootsStay => <>[]NoDeletesButUsers

Durable == INSTANCE Replication WITH
  Paths <- NamedPaths,
  know <- [r \in Replicas |-> [p \in NamedPaths |-> StateOf(store[r], p).seen]],
  vv <- [r \in Replicas |-> store[r].vv]

\* What a restart finds of a replica, its store, only ever gains the writes there are, and claims none
\* that it lacks, whatever its calls had under way when it crashed (flush, commit_session, delta_for).
StoreSpreadsWrites == Durable!Spec
=============================================================================
