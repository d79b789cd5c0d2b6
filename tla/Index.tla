------------------------------- MODULE Index --------------------------------
(***************************************************************************)
(* The search index of a workspace: records, full text and vectors         *)
(* (workspace_state.rs, indexer.rs and vectors.rs of                       *)
(* sapphire-framework-workspace, sapphire-framework-track, redb_store.rs   *)
(* of sapphire-framework-retrieve, and the passes of                       *)
(* sapphire-framework-server's sync/mod.rs).                               *)
(*                                                                         *)
(* Users and sessions change files; a file handler changes one and indexes *)
(* it; a sweep compares every file's stamp with the tracked one; an        *)
(* embedding pass gives the documents without a vector one, from the       *)
(* synced vector files or from the bridge, whose model may be switched at  *)
(* any time.  The records, the stamps and the vectors are committed as     *)
(* they are written; the full text is buffered until rebuild_fts.          *)
(*                                                                         *)
(* A file's content is its text, so equal contents have equal hashes.  The *)
(* look at a record and the transaction that replaces it are one step.     *)
(***************************************************************************)
EXTENDS Naturals, FiniteSets

CONSTANTS
  AllPaths,    \* the files there may be
  Texts,       \* the contents that are documents
  Binary,      \* a content that is not
  None,        \* no file, no record, no stamp, no vector, no model
  Models,      \* what the bridge may serve: a model and its settings
  Setups       \* the instances a behaviour may be of: a function from their names

\* One instance.
IsSetup(x) ==
  /\ x.paths \subseteq AllPaths
  /\ x.images \subseteq x.paths  \* those that are images: embedded from their bytes
  /\ x.mine \subseteq x.paths    \* the paths this host computes vectors for
  /\ DOMAIN x.name = Models      \* what configure_vectors and an answer name of a model
  /\ x.app \in BOOLEAN           \* TRUE: one thread does everything, as in sync_and_embed
  /\ x.handles \subseteq Texts \cup {Binary}  \* the contents file handlers write
  /\ x.reopens \subseteq {"kept", "wiped"}    \* how the store is found after a crash
  /\ {x.writes, x.switches, x.crashes} \subseteq Nat  \* bounds: changes of files, of models, crashes

ASSUME IndexAssumption ==
  /\ None \notin Texts \cup {Binary} \cup Models /\ Binary \notin Texts
  /\ \A n \in DOMAIN Setups : IsSetup(Setups[n])

Contents == Texts \cup {Binary}
Vectors == [of : Texts, model : Models]
VectorFiles == [hash : Texts, profile : Models, of : Texts, model : Models]

VARIABLES
  setup,     \* the instance this behaviour is of
  disk,      \* per path: the content
  stamp,     \* per path: its stamp, new with every change
  docs,      \* per path: the text of its record
  fts,       \* per path: the text the full-text index finds
  buffered,  \* per path: the text it will find after the next commit
  track,     \* per path: the stamp that has been indexed
  vecs,      \* per path: its vector
  meta,      \* the model the store is configured for
  files,     \* the vector files
  bridge,    \* the model the bridge serves
  installed, \* the model of the installed embedder
  sweep, writer, pass,  \* the threads
  writes, switches, crashes

vars == <<setup, disk, stamp, docs, fts, buffered, track, vecs, meta, files, bridge, installed,
          sweep, writer, pass, writes, switches, crashes>>

Paths == Setups[setup].paths
Mine == Setups[setup].mine
App == Setups[setup].app
Handles == Setups[setup].handles

world == <<disk, stamp, bridge, writes, switches, crashes>>
store == <<docs, buffered, vecs>>
vectors == <<meta, files, installed>>

Idle == [pc |-> "idle"]
Unknown == [p \in Paths |-> None]

Init ==
  /\ setup \in DOMAIN Setups
  /\ disk = Unknown /\ stamp = [p \in Paths |-> 0]
  /\ docs = Unknown /\ fts = Unknown /\ buffered = Unknown /\ track = Unknown /\ vecs = Unknown
  /\ meta = None /\ files = {} /\ bridge \in Models /\ installed = None
  /\ sweep = Idle /\ writer = Idle /\ pass = Idle
  /\ writes = 0 /\ switches = 0 /\ crashes = 0

\* In an application that calls sync_and_embed there is one thread.
Free == App => sweep = Idle /\ writer = Idle /\ pass = Idle
-----------------------------------------------------------------------------
\* The store.

IsDocument(c) == c \in Texts

\* A mutant of KeepsVector: a record keeps its vector when its text changes.
KeepsVectorAlways(p, c) == docs[p] # None

\* The vector of an unchanged record is kept.
KeepsVector(p, c) == docs[p] = c

\* upsert_document: the record is committed, the full text buffered.
Upsert(p, c) ==
  /\ docs' = [docs EXCEPT ![p] = c] /\ buffered' = [buffered EXCEPT ![p] = c]
  /\ vecs' = IF KeepsVector(p, c) THEN vecs ELSE [vecs EXCEPT ![p] = None]

Remove(p) ==
  /\ docs' = [docs EXCEPT ![p] = None] /\ buffered' = [buffered EXCEPT ![p] = None]
  /\ vecs' = [vecs EXCEPT ![p] = None]

RebuildFts == fts' = buffered

\* configure_vectors: another model or dimension drops every vector.
Configure(m) ==
  /\ meta' = m
  /\ vecs' = IF meta # None /\ Setups[setup].name[meta] = Setups[setup].name[m] THEN vecs ELSE Unknown
-----------------------------------------------------------------------------
\* The world: users and sessions write files, the bridge switches models.

Change(p, c) ==
  /\ writes < Setups[setup].writes /\ writes' = writes + 1 /\ c # disk[p]
  /\ disk' = [disk EXCEPT ![p] = c] /\ stamp' = [stamp EXCEPT ![p] = @ + 1]

UserWrite(p, c) ==
  /\ Change(p, c)
  /\ UNCHANGED <<setup, store, fts, track, vectors, bridge, sweep, writer, pass, switches, crashes>>

Switch(m) ==
  /\ switches < Setups[setup].switches /\ switches' = switches + 1 /\ m # bridge /\ bridge' = m
  /\ UNCHANGED <<setup, disk, stamp, store, fts, track, vectors, sweep, writer, pass, writes, crashes>>
-----------------------------------------------------------------------------
\* write_file, append_file, write_bytes and delete_file, with on_file_updated.

HandlerWrite(p, c) ==
  /\ writer = Idle /\ Free /\ Change(p, c)
  /\ writer' = IF c = None THEN [pc |-> "remove", p |-> p] ELSE [pc |-> "stamp", p |-> p]
  /\ UNCHANGED <<setup, store, fts, track, vectors, bridge, sweep, pass, switches, crashes>>

WriterStamp ==
  /\ writer.pc = "stamp"
  /\ writer' = [pc |-> "read", p |-> writer.p, st |-> stamp[writer.p]]
  /\ UNCHANGED <<setup, world, store, fts, track, vectors, sweep, pass>>

\* A file that is gone is an error; one that is not text leaves the index.
WriterRead ==
  /\ writer.pc = "read"
  /\ writer' = CASE IsDocument(disk[writer.p]) -> [pc |-> "upsert", p |-> writer.p, st |-> writer.st, c |-> disk[writer.p]]
                 [] disk[writer.p] = Binary -> [pc |-> "remove", p |-> writer.p]
                 [] OTHER -> Idle
  /\ UNCHANGED <<setup, world, store, fts, track, vectors, sweep, pass>>

WriterUpsert ==
  /\ writer.pc = "upsert" /\ Upsert(writer.p, writer.c)
  /\ writer' = [pc |-> "commit", p |-> writer.p, st |-> writer.st]
  /\ UNCHANGED <<setup, world, fts, track, vectors, sweep, pass>>

WriterRemove ==
  /\ writer.pc = "remove" /\ Remove(writer.p)
  /\ writer' = [pc |-> "commit", p |-> writer.p, st |-> None]
  /\ UNCHANGED <<setup, world, fts, track, vectors, sweep, pass>>

WriterCommit ==
  /\ writer.pc = "commit" /\ RebuildFts /\ writer' = [writer EXCEPT !.pc = "track"]
  /\ UNCHANGED <<setup, world, store, track, vectors, sweep, pass>>

WriterTrack ==
  /\ writer.pc = "track" /\ track' = [track EXCEPT ![writer.p] = writer.st] /\ writer' = Idle
  /\ UNCHANGED <<setup, world, store, fts, vectors, sweep, pass>>
-----------------------------------------------------------------------------
\* sync_inner, incremental: what sync_retrieve and the server's reindex run.

SweepBegin ==
  /\ sweep = Idle /\ Free
  /\ sweep' = [pc |-> "ids", known |-> track]
  /\ UNCHANGED <<setup, world, store, fts, track, vectors, writer, pass>>

SweepIds ==
  /\ sweep.pc = "ids"
  /\ sweep' = [pc |-> "walk", known |-> sweep.known, ids |-> {p \in Paths : docs[p] # None}]
  /\ UNCHANGED <<setup, world, store, fts, track, vectors, writer, pass>>

SweepWalk ==
  /\ sweep.pc = "walk"
  /\ LET found == {p \in Paths : disk[p] # None}
         gone == {p \in Paths \ found : sweep.known[p] # None \/ p \in sweep.ids}
     IN sweep' = [pc |-> "files", known |-> sweep.known, ids |-> sweep.ids, todo |-> found,
                  gone |-> gone, changed |-> FALSE]
  /\ UNCHANGED <<setup, world, store, fts, track, vectors, writer, pass>>

\* The stamp of a file that is gone is zero.
StampOf(p) == IF disk[p] = None THEN 0 ELSE stamp[p]

\* A mutant of Unchanged: a file that has been indexed is not looked at again.
UnchangedOnceKnown(p) == sweep.known[p] # None

Unchanged(p) == sweep.known[p] = StampOf(p)

\* The thread goes on with path p at pc.
SweepAt(pc, p) ==
  [pc |-> pc, known |-> sweep.known, ids |-> sweep.ids, todo |-> sweep.todo \ {p},
   gone |-> sweep.gone \ {p}, changed |-> sweep.changed, p |-> p, st |-> StampOf(p), c |-> None]

SweepFiles(changed) ==
  [pc |-> "files", known |-> sweep.known, ids |-> sweep.ids, todo |-> sweep.todo,
   gone |-> sweep.gone, changed |-> changed]

SweepStat(p) ==
  /\ sweep.pc = "files" /\ p \in sweep.todo
  /\ sweep' = IF Unchanged(p) THEN [sweep EXCEPT !.todo = @ \ {p}] ELSE SweepAt("read", p)
  /\ UNCHANGED <<setup, world, store, fts, track, vectors, writer, pass>>

\* A file that cannot be read or is not text leaves the index as it is.
SweepRead ==
  /\ sweep.pc = "read"
  /\ sweep' = IF IsDocument(disk[sweep.p]) THEN [sweep EXCEPT !.pc = "upsert", !.c = disk[sweep.p]]
              ELSE SweepFiles(sweep.changed)
  /\ UNCHANGED <<setup, world, store, fts, track, vectors, writer, pass>>

SweepUpsert ==
  /\ sweep.pc = "upsert" /\ Upsert(sweep.p, sweep.c) /\ sweep' = [sweep EXCEPT !.pc = "track"]
  /\ UNCHANGED <<setup, world, fts, track, vectors, writer, pass>>

SweepTrack ==
  /\ sweep.pc = "track" /\ track' = [track EXCEPT ![sweep.p] = sweep.st]
  /\ sweep' = SweepFiles(TRUE)
  /\ UNCHANGED <<setup, world, store, fts, vectors, writer, pass>>

SweepGone(p) ==
  /\ sweep.pc = "files" /\ sweep.todo = {} /\ p \in sweep.gone
  /\ IF p \in sweep.ids THEN Remove(p) ELSE UNCHANGED store
  /\ sweep' = [SweepAt("untrack", p) EXCEPT !.changed = @ \/ p \in sweep.ids]
  /\ UNCHANGED <<setup, world, fts, track, vectors, writer, pass>>

SweepUntrack ==
  /\ sweep.pc = "untrack"
  /\ track' = IF sweep.known[sweep.p] = None THEN track ELSE [track EXCEPT ![sweep.p] = None]
  /\ sweep' = SweepFiles(sweep.changed)
  /\ UNCHANGED <<setup, world, store, fts, vectors, writer, pass>>

SweepEnd ==
  /\ sweep.pc = "files" /\ sweep.todo = {} /\ sweep.gone = {}
  /\ IF sweep.changed THEN RebuildFts ELSE UNCHANGED fts
  /\ sweep' = Idle
  /\ UNCHANGED <<setup, world, store, track, vectors, writer, pass>>
-----------------------------------------------------------------------------
\* The embedding pass: refresh_embedder, then embed_pending over the vector files.

\* A mutant of Served: the bridge is asked once.
ServedOnce == IF installed = None THEN bridge ELSE installed

\* The model the bridge names when it is asked.
Served == bridge

\* The store is configured for a model that is not the installed one.
InstallEmbedder(m) ==
  /\ IF installed = m THEN UNCHANGED <<setup, meta, vecs>> ELSE Configure(m)
  /\ installed' = m

\* refresh_embedder: the store follows the model the bridge serves.
PassBegin ==
  /\ pass = Idle /\ Free
  /\ InstallEmbedder(Served) /\ pass' = [pc |-> "collect"]
  /\ UNCHANGED <<setup, world, docs, buffered, fts, track, files, sweep, writer>>

PassCollect ==
  /\ pass.pc = "collect"
  /\ pass' = [pc |-> "find", pending |-> [p \in {q \in Paths : docs[q] # None /\ vecs[q] = None} |-> docs[p]]]
  /\ UNCHANGED <<setup, world, store, fts, track, vectors, sweep, writer>>

\* A file is named by its content's hash and stands in its profile's directory.
FilesFor(c) == {f \in files : f.hash = c /\ f.profile = installed}

\* What the vector files have is stored as it is; the rest is computed if it is this host's.
PassFind ==
  /\ pass.pc = "find"
  /\ LET found == {p \in DOMAIN pass.pending : FilesFor(pass.pending[p]) # {}}
         VectorIn(p) == LET f == CHOOSE g \in FilesFor(pass.pending[p]) : TRUE IN [of |-> f.of, model |-> f.model]
     IN /\ vecs' = [p \in Paths |-> IF p \in found THEN VectorIn(p) ELSE vecs[p]]
        /\ pass' = [pc |-> "next", pending |-> pass.pending, todo |-> (DOMAIN pass.pending \ found) \cap Mine]
  /\ UNCHANGED <<setup, world, docs, buffered, fts, track, vectors, sweep, writer>>

\* check: the answer names the model and its dimension.
Check(m) == Setups[setup].name[m] = Setups[setup].name[installed]

\* An image is read from its file now.
Embedded(p) == IF p \in Setups[setup].images THEN disk[p] ELSE pass.pending[p]

\* The bridge answers with the model it serves.
PassEmbed(p) ==
  /\ pass.pc = "next" /\ p \in pass.todo /\ IsDocument(Embedded(p)) /\ Check(bridge)
  /\ pass' = [pc |-> "put", pending |-> pass.pending, todo |-> pass.todo \ {p}, p |-> p,
              v |-> [of |-> Embedded(p), model |-> bridge]]
  /\ UNCHANGED <<setup, world, store, fts, track, vectors, sweep, writer>>

\* A batch that fails as a whole ends the pass.
PassFails(p) ==
  /\ pass.pc = "next" /\ p \in pass.todo
  /\ pass' = Idle
  /\ UNCHANGED <<setup, world, store, fts, track, vectors, sweep, writer>>

PassPut ==
  /\ pass.pc = "put" /\ vecs' = [vecs EXCEPT ![pass.p] = pass.v]
  /\ pass' = [pass EXCEPT !.pc = "file"]
  /\ UNCHANGED <<setup, world, docs, buffered, fts, track, vectors, sweep, writer>>

\* The profile of the installed embedder names the directory.
Profile == installed

\* embedded: the vector's file, for the other devices.
PassFile ==
  /\ pass.pc = "file"
  /\ LET name == [hash |-> pass.pending[pass.p], profile |-> Profile]
     IN files' = {f \in files : f.hash # name.hash \/ f.profile # name.profile}
                   \cup {[hash |-> name.hash, profile |-> name.profile, of |-> pass.v.of, model |-> pass.v.model]}
  /\ pass' = [pc |-> "next", pending |-> pass.pending, todo |-> pass.todo]
  /\ UNCHANGED <<setup, world, store, fts, track, meta, installed, sweep, writer>>

PassEnd ==
  /\ pass.pc = "next" /\ pass.todo = {} /\ pass' = Idle
  /\ UNCHANGED <<setup, world, store, fts, track, vectors, sweep, writer>>
-----------------------------------------------------------------------------
\* WorkspaceState::open: an empty store beside recorded stamps forgets them.
OpenTrack(recs) == IF recs = Unknown THEN Unknown ELSE track

\* The process ends and opens the workspace again; a store in an older shape is wiped.
Crash(found) ==
  /\ crashes < Setups[setup].crashes /\ crashes' = crashes + 1
  /\ LET recs == IF found = "wiped" THEN Unknown ELSE docs
         text == IF found = "wiped" THEN Unknown ELSE fts
     IN docs' = recs /\ track' = OpenTrack(recs) /\ fts' = text /\ buffered' = text
  /\ vecs' = (IF found = "wiped" THEN Unknown ELSE vecs) /\ meta' = (IF found = "wiped" THEN None ELSE meta)
  /\ installed' = None /\ sweep' = Idle /\ writer' = Idle /\ pass' = Idle
  /\ UNCHANGED <<setup, disk, stamp, bridge, writes, switches, files>>

SweepStep == SweepBegin \/ SweepIds \/ SweepWalk \/ SweepRead \/ SweepUpsert \/ SweepTrack
             \/ SweepUntrack \/ SweepEnd \/ \E p \in Paths : SweepStat(p) \/ SweepGone(p)
WriterStep == WriterStamp \/ WriterRead \/ WriterUpsert \/ WriterRemove \/ WriterCommit \/ WriterTrack
PassStep == PassBegin \/ PassCollect \/ PassFind \/ PassPut \/ PassFile \/ PassEnd
            \/ \E p \in Paths : PassEmbed(p)

Next ==
  \/ \E p \in Paths, c \in Contents \cup {None} : UserWrite(p, c)
  \/ \E p \in Paths, c \in Handles \cup {None} : Handles # {} /\ HandlerWrite(p, c)
  \/ \E m \in Models : Switch(m)
  \/ \E found \in Setups[setup].reopens : Crash(found)
  \/ SweepStep \/ WriterStep \/ PassStep \/ \E p \in Paths : PassFails(p)

Spec == Init /\ [][Next]_vars

\* A change of a file, by a user or by a session, is followed by a sweep, and a sweep by a pass.
FairSpec ==
  /\ Spec /\ WF_vars(SweepStep /\ sweep # Idle) /\ WF_vars(WriterStep)
  /\ WF_vars((PassStep /\ pass # Idle) \/ \E p \in Paths : PassFails(p))
  /\ SF_vars(SweepBegin) /\ SF_vars(PassBegin)
  /\ \A p \in AllPaths : SF_vars(p \in Paths /\ PassEmbed(p))
-----------------------------------------------------------------------------
TypeOK ==
  /\ disk \in [Paths -> Contents \cup {None}] /\ stamp \in [Paths -> 0..writes]
  /\ {docs, fts, buffered} \subseteq [Paths -> Texts \cup {None}]
  /\ track \in [Paths -> 0..writes \cup {None}] /\ vecs \in [Paths -> Vectors \cup {None}]
  /\ {meta, installed} \subseteq Models \cup {None} /\ bridge \in Models /\ files \subseteq VectorFiles
  /\ (pass # Idle => installed # None)
  /\ (installed # None => meta # None)

\* Once files stop changing, a search finds every text as it is on disk and no file that is
\* gone (sync_inner, on_file_updated, open).
Searchable ==
  <>[](\A p \in Paths : disk[p] # Binary => fts[p] = disk[p] /\ docs[p] = disk[p])

\* Where one thread indexes and embeds, the vector of a document is of its text as it is
\* recorded (upsert_document, put_vectors).
VectorsMatch == \A p \in Paths : vecs[p] # None => vecs[p].of = docs[p]

VectorOfItsDocument == App => VectorsMatch

\* Vectors of different models never stand side by side (configure_vectors, check).
VectorsOfOneModel == \A p \in Paths : vecs[p] # None => Setups[setup].name[vecs[p].model] = Setups[setup].name[meta]

\* A vector file holds the vector of the content and the settings it is named by, for other
\* devices trust the name (vectors.rs).
FilesAreWhatTheySay == \A f \in files : f.of = f.hash /\ f.model = f.profile

\* Every vector, in the store and in its file, is of what it stands for.
VectorsAreTrue == VectorOfItsDocument /\ VectorsOfOneModel /\ FilesAreWhatTheySay

\* Once files and models stop changing, every document this host answers for has a vector of
\* its text, where one thread indexes and embeds (embed_pending).
VectorsCatchUp ==
  <>[](App => \A p \in Mine : IsDocument(disk[p]) => vecs[p] # None /\ vecs[p].of = disk[p])
=============================================================================
