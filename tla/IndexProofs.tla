---------------------------- MODULE IndexProofs -----------------------------
(* That every vector, in the store and in its file, is of what it stands     *)
(* for, for any files, texts, models and instances: what an embedding pass   *)
(* carries between its steps is bounded as well as what is stored.  And that *)
(* a search uses only vectors that were current during it, whatever the      *)
(* approximate index beside them is at: what a build in flight has seen must *)
(* stay good until it is installed.                                          *)
EXTENDS Index, Ann, TLAPS

NameOf(m) == Setups[setup].name[m]

\* No file is an image, whose bytes are read again when it is embedded.
ImagesAside == \A n \in DOMAIN Setups : Setups[n].images = {}

\* The name that a bridge answers with tells its model and its settings.
NamesTell == \A n \in DOMAIN Setups : \A m, k \in Models : Setups[n].name[m] = Setups[n].name[k] => m = k

\* The types, as the steps need them.
Typed ==
  /\ setup \in DOMAIN Setups
  /\ docs \in [Paths -> Texts \cup {None}] /\ vecs \in [Paths -> Vectors \cup {None}]
  /\ meta \in Models \cup {None} /\ bridge \in Models /\ installed \in Models \cup {None}
  /\ files \subseteq VectorFiles
  /\ sweep.pc \in {"read", "upsert", "track", "untrack"} => sweep.p \in Paths
  /\ sweep.pc \notin {"idle", "ids", "walk"} => sweep.todo \cup sweep.gone \subseteq Paths
  /\ sweep.pc = "upsert" => sweep.c \in Texts
  /\ writer.pc # "idle" => writer.p \in Paths
  /\ writer.pc = "upsert" => writer.c \in Texts

\* An application does one thing at a time.
OneThread ==
  App => /\ sweep = Idle \/ writer = Idle
         /\ pass = Idle \/ (sweep = Idle /\ writer = Idle)

\* The store is configured for the installed model, and a pass runs under it.
Configured == (installed # None => meta = installed) /\ (pass # Idle => installed # None)

\* What a pass took up are texts, in an application those that are still recorded.
Collected ==
  pass.pc \in {"find", "next", "put", "file"} =>
    /\ DOMAIN pass.pending \subseteq Paths
    /\ \A p \in DOMAIN pass.pending : pass.pending[p] \in Texts /\ (App => pass.pending[p] = docs[p])

Todo == pass.pc \in {"next", "put", "file"} => pass.todo \subseteq DOMAIN pass.pending

\* The answer in hand is of the installed model's name, and of the text taken up.
Answered ==
  pass.pc \in {"put", "file"} =>
    /\ pass.p \in DOMAIN pass.pending /\ pass.v \in Vectors
    /\ NameOf(pass.v.model) = NameOf(installed)
    /\ ImagesAside => pass.v.of = pass.pending[pass.p]

\* The files too are of their profile's name and, but for images, of their text.
FilesKept == \A f \in files : NameOf(f.model) = NameOf(f.profile) /\ (ImagesAside => f.of = f.hash)

StoreKept == VectorsOfOneModel /\ (ImagesAside => VectorOfItsDocument)

PassKept == Configured /\ Collected /\ Todo /\ Answered

Inv == Typed /\ OneThread /\ PassKept /\ FilesKept /\ StoreKept

USE IndexAssumption

LEMMA InitInv == Init => Inv
  <1> SUFFICES ASSUME Init PROVE Inv
    OBVIOUS
  <1>1. /\ setup \in DOMAIN Setups /\ docs = [p \in Paths |-> None] /\ vecs = [p \in Paths |-> None]
        /\ meta = None /\ files = {} /\ bridge \in Models /\ installed = None
        /\ sweep = Idle /\ writer = Idle /\ pass = Idle /\ Idle.pc = "idle"
    BY DEF Init, Unknown, Idle
  <1>2. Typed
    BY <1>1 DEF Typed
  <1>3. OneThread /\ PassKept /\ FilesKept
    BY <1>1 DEF OneThread, PassKept, Configured, Collected, Todo, Answered, FilesKept
  <1>4. StoreKept
    BY <1>1 DEF StoreKept, VectorsOfOneModel, VectorOfItsDocument, VectorsMatch
  <1> QED
    BY <1>2, <1>3, <1>4 DEF Inv

-----------------------------------------------------------------------------
(* The threads that index *)

\* The pass goes on as it was.
PassStill == UNCHANGED <<setup, pass, meta, files, installed>>

LEMMA PassStillKept ==
  ASSUME Inv, PassStill, pass = Idle \/ ~App \/ docs' = docs
  PROVE  PassKept' /\ FilesKept'
  <1>1. Configured' /\ Todo' /\ Answered' /\ FilesKept'
    BY DEF Inv, PassKept, PassStill, Configured, Todo, Answered, FilesKept, NameOf
  <1>2. Collected'
    BY DEF Inv, PassKept, PassStill, Collected, App, Paths, Idle
  <1> QED
    BY <1>1, <1>2 DEF PassKept

\* Nothing that is stored or in hand changes.
LEMMA StoreStill ==
  ASSUME Inv, PassStill, docs' = docs, vecs' = vecs
  PROVE  PassKept' /\ FilesKept' /\ StoreKept'
  <1>1. StoreKept'
    BY DEF Inv, PassStill, StoreKept, VectorsOfOneModel, VectorOfItsDocument, VectorsMatch, Paths, App
  <1> QED
    BY <1>1, PassStillKept

\* A record is replaced or removed: its vector stays only with its text (KeepsVector).
LEMMA RecordKept ==
  ASSUME Inv, PassStill, pass = Idle \/ ~App,
         NEW p \in Paths, NEW c \in Texts \cup {None}, docs' = [docs EXCEPT ![p] = c],
         \/ vecs' = [vecs EXCEPT ![p] = None]
         \/ docs[p] = c /\ vecs' = vecs
  PROVE  /\ docs' \in [Paths -> Texts \cup {None}] /\ vecs' \in [Paths -> Vectors \cup {None}]
         /\ PassKept' /\ FilesKept' /\ StoreKept'
  <1>1. docs \in [Paths -> Texts \cup {None}] /\ vecs \in [Paths -> Vectors \cup {None}]
    BY DEF Inv, Typed
  <1>2. docs' \in [Paths -> Texts \cup {None}] /\ vecs' \in [Paths -> Vectors \cup {None}]
    BY <1>1
  <1>3. \A q \in Paths : vecs'[q] # None => vecs'[q] = vecs[q] /\ docs'[q] = docs[q]
    BY <1>1
  <1>4. StoreKept'
    BY <1>3 DEF Inv, PassStill, StoreKept, VectorsOfOneModel, VectorOfItsDocument, VectorsMatch, Paths, App
  <1> QED
    BY <1>2, <1>4, PassStillKept

LEMMA UpsertGives ==
  ASSUME NEW p, NEW c, Upsert(p, c)
  PROVE  /\ docs' = [docs EXCEPT ![p] = c]
         /\ vecs' = [vecs EXCEPT ![p] = None] \/ (docs[p] = c /\ vecs' = vecs)
  BY DEF Upsert, KeepsVector

\* The world, and what a crash leaves.
LEMMA WorldKept ==
  ASSUME Inv, \/ \E p \in Paths, c \in Contents \cup {None} : UserWrite(p, c)
              \/ \E m \in Models : Switch(m)
  PROVE  Inv'
  <1>1. PassStill /\ docs' = docs /\ vecs' = vecs /\ sweep' = sweep /\ writer' = writer /\ bridge' \in Models
    BY DEF Inv, Typed, UserWrite, Change, Switch, store, vectors, PassStill
  <1>2. Typed' /\ OneThread'
    BY <1>1 DEF Inv, Typed, OneThread, PassStill, Paths, App
  <1> QED
    BY <1>1, <1>2, StoreStill DEF Inv

LEMMA CrashKept ==
  ASSUME Inv, NEW found, Crash(found)
  PROVE  Inv'
  <1>1. /\ UNCHANGED <<setup, bridge, files>> /\ installed' = None
        /\ sweep' = Idle /\ writer' = Idle /\ pass' = Idle /\ Idle.pc = "idle"
    BY DEF Crash, Idle
  <1>2. \/ docs' = [p \in Paths |-> None] /\ vecs' = [p \in Paths |-> None] /\ meta' = None
        \/ docs' = docs /\ vecs' = vecs /\ meta' = meta
    BY DEF Crash, Unknown
  <1>3. Typed'
    BY <1>1, <1>2 DEF Inv, Typed, Paths
  <1>4. OneThread' /\ PassKept' /\ FilesKept'
    BY <1>1 DEF Inv, OneThread, PassKept, Configured, Collected, Todo, Answered, FilesKept, NameOf
  <1>5. StoreKept'
    BY <1>1, <1>2 DEF Inv, StoreKept, VectorsOfOneModel, VectorOfItsDocument, VectorsMatch, Paths, App
  <1> QED
    BY <1>3, <1>4, <1>5 DEF Inv

LEMMA HandlerKept ==
  ASSUME Inv, NEW p \in Paths, NEW c, HandlerWrite(p, c)
  PROVE  Inv'
  <1>1. /\ PassStill /\ docs' = docs /\ vecs' = vecs /\ bridge' = bridge /\ sweep' = sweep /\ Free
        /\ writer'.pc \in {"remove", "stamp"} /\ writer'.p = p
    BY DEF HandlerWrite, Change, store, vectors, PassStill
  <1>2. Typed' /\ OneThread'
    BY <1>1 DEF Inv, Typed, OneThread, Free, PassStill, Paths, App
  <1> QED
    BY <1>1, <1>2, StoreStill DEF Inv

\* Of the writer's steps, those that touch no record.
LEMMA WriterStill ==
  ASSUME Inv, PassStill, docs' = docs, vecs' = vecs, bridge' = bridge, sweep' = sweep, writer # Idle,
         writer'.pc # "idle" => writer'.p \in Paths,
         writer'.pc = "upsert" => writer'.c \in Texts
  PROVE  Inv'
  <1>1. Typed' /\ OneThread'
    BY DEF Inv, Typed, OneThread, PassStill, Paths, App
  <1> QED
    BY <1>1, StoreStill DEF Inv

LEMMA WriterKept == ASSUME Inv, WriterStep PROVE Inv'
  <1> USE DEF store, vectors, world, PassStill
  <1>1. ASSUME WriterStamp PROVE Inv'
    BY <1>1, WriterStill DEF Inv, Typed, WriterStamp, Idle
  <1>2. ASSUME WriterRead PROVE Inv'
    <2>1. /\ PassStill /\ docs' = docs /\ vecs' = vecs /\ bridge' = bridge /\ sweep' = sweep
          /\ writer # Idle /\ writer.p \in Paths
      BY <1>2 DEF Inv, Typed, WriterRead, Idle
    <2>2. \/ /\ writer' = [pc |-> "upsert", p |-> writer.p, st |-> writer.st, c |-> disk[writer.p]]
             /\ disk[writer.p] \in Texts
          \/ writer' = [pc |-> "remove", p |-> writer.p]
          \/ writer' = [pc |-> "idle"]
      BY <1>2 DEF WriterRead, IsDocument, Idle
    <2> QED
      BY <2>1, <2>2, WriterStill DEF Paths
  <1>3. ASSUME WriterUpsert PROVE Inv'
    <2>1. /\ PassStill /\ bridge' = bridge /\ sweep' = sweep /\ writer # Idle /\ (pass = Idle \/ ~App)
          /\ writer.p \in Paths /\ writer.c \in Texts /\ Upsert(writer.p, writer.c)
          /\ writer'.pc = "commit" /\ writer'.p = writer.p
      BY <1>3 DEF Inv, Typed, OneThread, WriterUpsert, Idle
    <2>2. /\ docs' \in [Paths -> Texts \cup {None}] /\ vecs' \in [Paths -> Vectors \cup {None}]
          /\ PassKept' /\ FilesKept' /\ StoreKept'
      BY <2>1, UpsertGives, RecordKept
    <2>3. Typed' /\ OneThread'
      BY <2>1, <2>2 DEF Inv, Typed, OneThread, Paths, App
    <2> QED
      BY <2>2, <2>3 DEF Inv
  <1>4. ASSUME WriterRemove PROVE Inv'
    <2>1. /\ PassStill /\ bridge' = bridge /\ sweep' = sweep /\ writer # Idle /\ (pass = Idle \/ ~App)
          /\ writer.p \in Paths /\ docs' = [docs EXCEPT ![writer.p] = None]
          /\ vecs' = [vecs EXCEPT ![writer.p] = None]
          /\ writer'.pc = "commit" /\ writer'.p = writer.p
      BY <1>4 DEF Inv, Typed, OneThread, WriterRemove, Remove, Idle
    <2>2. /\ docs' \in [Paths -> Texts \cup {None}] /\ vecs' \in [Paths -> Vectors \cup {None}]
          /\ PassKept' /\ FilesKept' /\ StoreKept'
      BY <2>1, RecordKept
    <2>3. Typed' /\ OneThread'
      BY <2>1, <2>2 DEF Inv, Typed, OneThread, Paths, App
    <2> QED
      BY <2>2, <2>3 DEF Inv
  <1>5. ASSUME WriterCommit PROVE Inv'
    <2>1. /\ writer.pc = "commit" /\ writer'.pc \in {"track", writer.pc}
          /\ writer' = [writer EXCEPT !.pc = "track"]
      BY <1>5 DEF WriterCommit
    <2>2. writer'.pc # "upsert" /\ writer'.p = writer.p
      BY <2>1
    <2> QED
      BY <1>5, <2>2, WriterStill DEF Inv, Typed, WriterCommit, Idle, Paths
  <1>6. ASSUME WriterTrack PROVE Inv'
    BY <1>6, WriterStill DEF WriterTrack, Idle
  <1> QED
    BY <1>1, <1>2, <1>3, <1>4, <1>5, <1>6 DEF WriterStep

\* Of the sweep's steps, those that touch no record.
LEMMA SweepStill ==
  ASSUME Inv, PassStill, docs' = docs, vecs' = vecs, bridge' = bridge, writer' = writer,
         sweep # Idle \/ Free,
         sweep'.pc \in {"read", "upsert", "track", "untrack"} => sweep'.p \in Paths,
         sweep'.pc \notin {"idle", "ids", "walk"} => sweep'.todo \cup sweep'.gone \subseteq Paths,
         sweep'.pc = "upsert" => sweep'.c \in Texts
  PROVE  Inv'
  <1>1. Typed' /\ OneThread'
    BY DEF Inv, Typed, OneThread, PassStill, Paths, App, Free
  <1> QED
    BY <1>1, StoreStill DEF Inv

LEMMA SweepReads ==
  ASSUME Inv, \/ SweepBegin \/ SweepIds \/ SweepWalk \/ SweepRead \/ SweepTrack \/ SweepUntrack \/ SweepEnd
              \/ \E p \in Paths : SweepStat(p)
  PROVE  Inv'
  <1> USE DEF store, vectors, world, PassStill
  <1> DEFINE Same == /\ PassStill /\ docs' = docs /\ vecs' = vecs /\ bridge' = bridge /\ writer' = writer
                     /\ sweep # Idle
  <1>1. ASSUME SweepBegin PROVE Inv'
    BY <1>1, SweepStill DEF SweepBegin
  <1>2. ASSUME SweepIds PROVE Inv'
    BY <1>2, SweepStill DEF SweepIds, Idle
  <1>3. ASSUME SweepWalk PROVE Inv'
    <2>1. Same /\ sweep'.pc = "files" /\ sweep'.todo \cup sweep'.gone \subseteq Paths
      BY <1>3 DEF SweepWalk, Idle
    <2> QED
      BY <2>1, SweepStill DEF Paths
  <1>4. ASSUME SweepRead PROVE Inv'
    <2>1. Same /\ sweep.p \in Paths /\ sweep.todo \cup sweep.gone \subseteq Paths
      BY <1>4 DEF Inv, Typed, SweepRead, Idle
    <2> QED
      BY <1>4, <2>1, SweepStill DEF SweepRead, SweepFiles, IsDocument, Paths
  <1>5. ASSUME SweepTrack PROVE Inv'
    BY <1>5, SweepStill DEF Inv, Typed, SweepTrack, SweepFiles, Idle, Paths
  <1>6. ASSUME SweepUntrack PROVE Inv'
    BY <1>6, SweepStill DEF Inv, Typed, SweepUntrack, SweepFiles, Idle, Paths
  <1>7. ASSUME SweepEnd PROVE Inv'
    <2>1. Same /\ sweep'.pc = "idle"
      BY <1>7 DEF SweepEnd, RebuildFts, Idle
    <2> QED
      BY <2>1, SweepStill
  <1>8. ASSUME NEW p \in Paths, SweepStat(p) PROVE Inv'
    <2>1. Same /\ sweep.todo \cup sweep.gone \subseteq Paths
      BY <1>8 DEF Inv, Typed, SweepStat, Idle
    <2> QED
      BY <1>8, <2>1, SweepStill DEF SweepStat, SweepAt, Paths
  <1> QED
    BY <1>1, <1>2, <1>3, <1>4, <1>5, <1>6, <1>7, <1>8

LEMMA SweepUpsertKept == ASSUME Inv, SweepUpsert PROVE Inv'
  <1>1. /\ PassStill /\ bridge' = bridge /\ writer' = writer /\ sweep # Idle /\ (pass = Idle \/ ~App)
        /\ sweep.p \in Paths /\ sweep.c \in Texts /\ Upsert(sweep.p, sweep.c)
        /\ sweep'.pc = "track" /\ sweep'.p = sweep.p
        /\ sweep'.todo \cup sweep'.gone \subseteq Paths
    BY DEF Inv, Typed, OneThread, SweepUpsert, Idle, PassStill, vectors, world
  <1>2. /\ docs' \in [Paths -> Texts \cup {None}] /\ vecs' \in [Paths -> Vectors \cup {None}]
        /\ PassKept' /\ FilesKept' /\ StoreKept'
    BY <1>1, UpsertGives, RecordKept
  <1>3. Typed' /\ OneThread'
    BY <1>1, <1>2 DEF Inv, Typed, OneThread, PassStill, Paths, App
  <1> QED
    BY <1>2, <1>3 DEF Inv

LEMMA SweepGoneKept == ASSUME Inv, NEW p \in Paths, SweepGone(p) PROVE Inv'
  <1>1. /\ PassStill /\ bridge' = bridge /\ writer' = writer /\ sweep # Idle /\ (pass = Idle \/ ~App)
        /\ sweep'.pc = "untrack" /\ sweep'.p = p
        /\ sweep'.todo \cup sweep'.gone \subseteq Paths
    BY DEF Inv, Typed, OneThread, SweepGone, SweepAt, Idle, PassStill, vectors, world
  <1>2. \/ docs' = [docs EXCEPT ![p] = None] /\ vecs' = [vecs EXCEPT ![p] = None]
        \/ docs' = docs /\ vecs' = vecs
    BY DEF SweepGone, Remove, store
  <1>3. /\ docs' \in [Paths -> Texts \cup {None}] /\ vecs' \in [Paths -> Vectors \cup {None}]
        /\ PassKept' /\ FilesKept' /\ StoreKept'
    BY <1>1, <1>2, RecordKept, StoreStill DEF Inv, Typed
  <1>4. Typed' /\ OneThread'
    BY <1>1, <1>3 DEF Inv, Typed, OneThread, PassStill, Paths, App
  <1> QED
    BY <1>3, <1>4 DEF Inv

-----------------------------------------------------------------------------
(* The embedding pass *)

\* Nothing that indexes is disturbed by a pass.
IndexStill == UNCHANGED <<setup, docs, bridge, sweep, writer>>

\* Of the pass's steps, those that store nothing.
LEMMA PassOn ==
  ASSUME Inv, IndexStill, UNCHANGED <<vecs, meta, files, installed>>, pass # Idle,
         Collected', Todo', Answered'
  PROVE  Inv'
  <1>1. Typed' /\ OneThread' /\ Configured' /\ FilesKept'
    BY DEF Inv, PassKept, Typed, OneThread, Configured, FilesKept, NameOf, IndexStill, Paths, App
  <1>2. StoreKept'
    BY DEF Inv, IndexStill, StoreKept, VectorsOfOneModel, VectorOfItsDocument, VectorsMatch, Paths, App
  <1> QED
    BY <1>1, <1>2 DEF Inv, PassKept

LEMMA PassBeginKept == ASSUME Inv, PassBegin PROVE Inv'
  <1>1. /\ IndexStill /\ files' = files /\ pass = Idle /\ Free
        /\ pass' = [pc |-> "collect"] /\ installed' = bridge /\ bridge \in Models
    BY DEF Inv, Typed, PassBegin, InstallEmbedder, Served, IndexStill, world
  <1>2. \/ meta' = meta /\ vecs' = vecs /\ installed = bridge
        \/ /\ meta' = bridge
           /\ vecs' = [p \in Paths |-> None] \/ (vecs' = vecs /\ meta # None /\ NameOf(meta) = NameOf(bridge))
    BY DEF PassBegin, InstallEmbedder, Configure, Served, Unknown, NameOf
  <1>3. meta' = bridge
    BY <1>1, <1>2 DEF Inv, PassKept, Configured
  <1>4. Typed'
    BY <1>1, <1>2, <1>3 DEF Inv, Typed, IndexStill, Paths
  <1>5. OneThread'
    BY <1>1 DEF Inv, OneThread, IndexStill, App, Free
  <1>6. PassKept' /\ FilesKept'
    BY <1>1, <1>3 DEF Inv, PassKept, Configured, Collected, Todo, Answered, FilesKept, NameOf, IndexStill
  <1>7. StoreKept'
    BY <1>1, <1>2, <1>3
    DEF Inv, PassKept, Configured, IndexStill, StoreKept, VectorsOfOneModel, VectorOfItsDocument, VectorsMatch,
        Paths, App, NameOf
  <1> QED
    BY <1>4, <1>5, <1>6, <1>7 DEF Inv

LEMMA PassCollectKept == ASSUME Inv, PassCollect PROVE Inv'
  <1>1. IndexStill /\ UNCHANGED <<vecs, meta, files, installed>> /\ pass # Idle
    BY DEF PassCollect, IndexStill, world, store, vectors, Idle
  <1>2. /\ pass'.pc = "find"
        /\ pass'.pending = [p \in {q \in Paths : docs[q] # None /\ vecs[q] = None} |-> docs[p]]
    BY DEF PassCollect
  <1>3. docs \in [Paths -> Texts \cup {None}] /\ docs' = docs /\ Paths' = Paths
    BY <1>1 DEF Inv, Typed, IndexStill, Paths
  <1>4. Collected'
    BY <1>2, <1>3 DEF Collected
  <1>5. Todo' /\ Answered'
    BY <1>2 DEF Todo, Answered
  <1> QED
    BY <1>1, <1>4, <1>5, PassOn

LEMMA PassFindKept == ASSUME Inv, PassFind PROVE Inv'
  <1> DEFINE found == {p \in DOMAIN pass.pending : FilesFor(pass.pending[p]) # {}}
             file(p) == CHOOSE g \in FilesFor(pass.pending[p]) : TRUE
             vector(p) == [of |-> file(p).of, model |-> file(p).model]
  <1>1. /\ IndexStill /\ UNCHANGED <<meta, files, installed>> /\ pass.pc = "find" /\ pass # Idle
        /\ pass'.pc = "next" /\ pass'.pending = pass.pending
        /\ pass'.todo \subseteq DOMAIN pass.pending
        /\ vecs' = [p \in Paths |-> IF p \in found THEN vector(p) ELSE vecs[p]]
    BY DEF PassFind, IndexStill, world, vectors, Idle
  <1>2. ASSUME NEW p \in found
        PROVE  /\ vector(p) \in Vectors /\ NameOf(vector(p).model) = NameOf(meta)
               /\ ImagesAside /\ App => vector(p).of = docs[p]
    <2>1. p \in DOMAIN pass.pending /\ file(p) \in FilesFor(pass.pending[p])
      OBVIOUS
    <2>2. file(p) \in files /\ file(p).hash = pass.pending[p] /\ file(p).profile = installed
      BY <2>1 DEF FilesFor
    <2> HIDE DEF file
    <2>3. file(p) \in VectorFiles /\ NameOf(file(p).model) = NameOf(file(p).profile)
      BY <2>2 DEF Inv, Typed, FilesKept
    <2>4. meta = installed
      BY <1>1 DEF Inv, PassKept, Configured
    <2>5. ImagesAside /\ App => file(p).of = docs[p]
      BY <1>1, <2>1, <2>2 DEF Inv, PassKept, Collected, FilesKept
    <2> QED
      BY <2>2, <2>3, <2>4, <2>5 DEF VectorFiles, Vectors
  <1> HIDE DEF vector, found
  <1>3. vecs \in [Paths -> Vectors \cup {None}]
    BY DEF Inv, Typed
  <1>4. vecs' \in [Paths -> Vectors \cup {None}]
    BY <1>1, <1>2, <1>3
  <1>5. Typed' /\ OneThread'
    BY <1>1, <1>4 DEF Inv, Typed, OneThread, IndexStill, Paths, App
  <1>6. PassKept' /\ FilesKept'
    BY <1>1 DEF Inv, PassKept, Configured, Collected, Todo, Answered, FilesKept, NameOf, IndexStill, Paths, App
  <1>7. \A p \in Paths : vecs'[p] # None => NameOf(vecs'[p].model) = NameOf(meta)
    BY <1>1, <1>2 DEF Inv, StoreKept, VectorsOfOneModel, NameOf
  <1>8. ImagesAside /\ App => \A p \in Paths : vecs'[p] # None => vecs'[p].of = docs[p]
    BY <1>1, <1>2 DEF Inv, StoreKept, VectorOfItsDocument, VectorsMatch
  <1>9. StoreKept'
    BY <1>1, <1>7, <1>8 DEF StoreKept, VectorsOfOneModel, VectorOfItsDocument, VectorsMatch, NameOf, IndexStill, Paths, App
  <1> QED
    BY <1>5, <1>6, <1>9 DEF Inv

LEMMA PassEmbedKept == ASSUME Inv, NEW p \in Paths, PassEmbed(p) PROVE Inv'
  <1>1. /\ IndexStill /\ UNCHANGED <<vecs, meta, files, installed>> /\ pass # Idle /\ pass.pc = "next"
        /\ pass'.pc = "put" /\ pass'.pending = pass.pending /\ pass'.todo \subseteq pass.todo
        /\ pass'.p = p /\ pass'.v = [of |-> Embedded(p), model |-> bridge] /\ p \in pass.todo
        /\ Embedded(p) \in Texts /\ NameOf(bridge) = NameOf(installed) /\ bridge \in Models
    BY DEF Inv, Typed, PassEmbed, IndexStill, world, store, vectors, Idle, IsDocument, Check, NameOf
  <1>2. ImagesAside => Embedded(p) = pass.pending[p]
    BY DEF Inv, Typed, ImagesAside, Embedded
  <1>3. Collected' /\ Todo'
    BY <1>1 DEF Inv, PassKept, Collected, Todo, IndexStill, Paths, App
  <1>4. Answered'
    <2>1. p \in DOMAIN pass.pending
      BY <1>1 DEF Inv, PassKept, Todo
    <2> QED
      BY <1>1, <1>2, <2>1 DEF Answered, NameOf, IndexStill, Vectors
  <1> QED
    BY <1>1, <1>3, <1>4, PassOn

LEMMA PassPutKept == ASSUME Inv, PassPut PROVE Inv'
  <1>1. /\ IndexStill /\ UNCHANGED <<meta, files, installed>> /\ pass.pc = "put" /\ pass # Idle
        /\ vecs' = [vecs EXCEPT ![pass.p] = pass.v] /\ pass' = [pass EXCEPT !.pc = "file"]
    BY DEF PassPut, IndexStill, world, vectors, Idle
  <1>2. /\ pass'.pc = "file" /\ pass'.pending = pass.pending /\ pass'.todo = pass.todo
        /\ pass'.p = pass.p /\ pass'.v = pass.v
    BY <1>1
  <1>3. /\ pass.p \in Paths /\ pass.v \in Vectors /\ NameOf(pass.v.model) = NameOf(meta)
        /\ ImagesAside /\ App => pass.v.of = docs[pass.p]
    BY <1>1 DEF Inv, PassKept, Configured, Collected, Answered
  <1>4. vecs \in [Paths -> Vectors \cup {None}]
    BY DEF Inv, Typed
  <1>5. vecs' \in [Paths -> Vectors \cup {None}]
    BY <1>1, <1>3, <1>4
  <1>6. Typed' /\ OneThread'
    BY <1>1, <1>5 DEF Inv, Typed, OneThread, IndexStill, Paths, App
  <1>7. PassKept' /\ FilesKept'
    BY <1>1, <1>2 DEF Inv, PassKept, Configured, Collected, Todo, Answered, FilesKept, NameOf, IndexStill, Paths, App, Idle
  <1>8. \A p \in Paths : vecs'[p] # None =>
          NameOf(vecs'[p].model) = NameOf(meta) /\ (ImagesAside /\ App => vecs'[p].of = docs[p])
    BY <1>1, <1>3, <1>4 DEF Inv, StoreKept, VectorsOfOneModel, VectorOfItsDocument, VectorsMatch, NameOf
  <1>9. StoreKept'
    BY <1>1, <1>8 DEF StoreKept, VectorsOfOneModel, VectorOfItsDocument, VectorsMatch, NameOf, IndexStill, Paths, App
  <1> QED
    BY <1>6, <1>7, <1>9 DEF Inv

LEMMA PassFileKept == ASSUME Inv, PassFile PROVE Inv'
  <1> DEFINE new == [hash |-> pass.pending[pass.p], profile |-> installed, of |-> pass.v.of, model |-> pass.v.model]
  <1>1. /\ IndexStill /\ UNCHANGED <<vecs, meta, installed>> /\ pass.pc = "file" /\ pass # Idle
        /\ pass' = [pc |-> "next", pending |-> pass.pending, todo |-> pass.todo]
        /\ files' \subseteq files \cup {new}
    BY DEF PassFile, Profile, IndexStill, world, store, Idle
  <1>2. /\ new \in VectorFiles /\ NameOf(new.model) = NameOf(new.profile)
        /\ ImagesAside => new.of = new.hash
    BY <1>1 DEF Inv, Typed, PassKept, Configured, Collected, Answered, Vectors, VectorFiles
  <1> HIDE DEF new
  <1>3. Typed' /\ OneThread'
    BY <1>1, <1>2 DEF Inv, Typed, OneThread, IndexStill, Paths, App
  <1>4. PassKept'
    BY <1>1 DEF Inv, PassKept, Configured, Collected, Todo, Answered, IndexStill, Paths, App, Idle
  <1>5. FilesKept'
    BY <1>1, <1>2 DEF Inv, FilesKept, NameOf, IndexStill
  <1>6. StoreKept'
    BY <1>1 DEF Inv, IndexStill, StoreKept, VectorsOfOneModel, VectorOfItsDocument, VectorsMatch, Paths, App
  <1> QED
    BY <1>3, <1>4, <1>5, <1>6 DEF Inv

\* PassEnd, and a batch that fails.
LEMMA PassOverKept ==
  ASSUME Inv, PassEnd \/ \E p \in Paths : PassFails(p)
  PROVE  Inv'
  <1>1. IndexStill /\ UNCHANGED <<vecs, meta, files, installed>> /\ pass # Idle /\ pass' = Idle
    BY DEF PassEnd, PassFails, IndexStill, world, store, vectors, Idle
  <1>2. Collected' /\ Todo' /\ Answered'
    BY <1>1 DEF Collected, Todo, Answered, Idle
  <1> QED
    BY <1>1, <1>2, PassOn

-----------------------------------------------------------------------------

LEMMA StepInv == Inv /\ [Next]_vars => Inv'
  <1> SUFFICES ASSUME Inv, [Next]_vars PROVE Inv'
    OBVIOUS
  <1>1. CASE UNCHANGED vars
    <2>1. PassStill /\ docs' = docs /\ vecs' = vecs /\ sweep' = sweep /\ writer' = writer /\ bridge' = bridge
      BY <1>1 DEF vars, PassStill
    <2>2. Typed' /\ OneThread'
      BY <2>1 DEF Inv, Typed, OneThread, PassStill, Paths, App
    <2> QED
      BY <2>1, <2>2, StoreStill DEF Inv
  <1>2. ASSUME SweepStep PROVE Inv'
    BY <1>2, SweepReads, SweepUpsertKept, SweepGoneKept DEF SweepStep
  <1>3. ASSUME PassStep PROVE Inv'
    BY <1>3, PassBeginKept, PassCollectKept, PassFindKept, PassPutKept, PassFileKept, PassOverKept, PassEmbedKept
    DEF PassStep
  <1> QED
    BY <1>1, <1>2, <1>3, WorldKept, HandlerKept, CrashKept, WriterKept, PassOverKept DEF Next

LEMMA Invariant == Spec => []Inv
  BY InitInv, StepInv, PTL DEF Spec

\* In every instance: all stored vectors are of the model the store is configured for, by the name its
\* server gives, whatever is embedded while the bridge switches (configure_vectors, refresh_embedder, check).
THEOREM OneModelAlways == Spec => []VectorsOfOneModel
  <1>1. Inv => VectorsOfOneModel
    BY DEF Inv, StoreKept
  <1> QED
    BY <1>1, Invariant, PTL

\* And where no file is an image and names tell models apart, each vector in the store, and each vector
\* file that other devices will trust, is of the text it stands for (embed_pending, vectors.rs); the
\* instances that lack either show why both are needed.
THEOREM VectorsStayTrue == ASSUME ImagesAside, NamesTell PROVE Spec => []VectorsAreTrue
  <1>1. Inv => VectorsAreTrue
    <2> SUFFICES ASSUME Inv PROVE VectorsAreTrue
      OBVIOUS
    <2>1. FilesAreWhatTheySay
      BY DEF Inv, Typed, FilesKept, NameOf, NamesTell, VectorFiles, FilesAreWhatTheySay
    <2> QED
      BY <2>1 DEF Inv, StoreKept, VectorsAreTrue
  <1> QED
    BY <1>1, Invariant, PTL
-----------------------------------------------------------------------------
\* The approximate index.

USE AnnAssumption

Vecs == Values \cup {NoValue}
Current(b) == b.generation = generation

\* The types, as the steps need them; of the builds of this generation there is at most one.
AnnTyped ==
  /\ table \in Tables /\ built \in Tables \cup {NotBuilt} /\ search \in Tables \cup {Nothing}
  /\ writing \in [Writers -> Changes \cup {Nothing}] /\ building \in BOOLEAN /\ clearing \in BOOLEAN
  /\ seq \in Nat /\ generation \in Nat
  /\ builds \subseteq [generation : Nat, seq : Nat, snapshot : Tables \cup {NotBuilt}]
  /\ \A b \in builds : b.generation <= generation /\ (Current(b) => building /\ b.seq <= seq)
  /\ \A b, c \in builds : Current(b) /\ Current(c) => b = c
  /\ DOMAIN window = Ids

\* Vector x of id i is what the table has, or a change of it has been committed and not marked,
\* or all are being dropped.
Known(i, x) ==
  \/ x = table[i]
  \/ \E w \in Writers : writing[w] # Nothing /\ writing[w].id = i /\ writing[w].old = x
  \/ clearing

Unmarked(i) == i \notin DOMAIN changed
UnmarkedSince(b, i) == i \in DOMAIN changed => ~(changed[i] > b.seq)

\* What the index holds of an id without a mark is known, and the same goes for a snapshot that
\* may be installed and the marks that will then stay.
IndexKnown ==
  /\ built # NotBuilt => \A i \in Ids : Unmarked(i) => Known(i, built[i])
  /\ \A b \in builds : Current(b) /\ b.snapshot # NotBuilt =>
       \A i \in Ids : UnmarkedSince(b, i) => Known(i, b.snapshot[i])

\* Each of them was current during the search under way, as are the table and its snapshot.
SearchKnown ==
  search # Nothing =>
    /\ \A i \in Ids : search[i] \in window[i] /\ table[i] \in window[i]
    /\ built # NotBuilt => \A i \in Ids : Unmarked(i) => built[i] \in window[i]
    /\ \A b \in builds : Current(b) /\ b.snapshot # NotBuilt =>
         \A i \in Ids : UnmarkedSince(b, i) => b.snapshot[i] \in window[i]

\* While everything is dropped there is nothing.
Dropped == clearing => \A i \in Ids : table[i] = NoValue

AnnInv == AnnTyped /\ Dropped /\ IndexKnown /\ SearchKnown /\ SearchesAreCurrent

LEMMA AnnInitInv == AnnInit => AnnInv
  <1> SUFFICES ASSUME AnnInit PROVE AnnInv
    OBVIOUS
  <1>1. AnnTyped
    BY DEF AnnInit, AnnTyped, Tables
  <1> QED
    BY <1>1 DEF AnnInit, AnnInv, Dropped, IndexKnown, SearchKnown, SearchesAreCurrent

LEMMA CommitKeeps ==
  ASSUME AnnInv, NEW w \in Writers, NEW i \in Ids, NEW v \in Vecs, Commit(w, i, v)
  PROVE  AnnInv'
  <1> USE DEF AnnInv, Commit, state
  <1>1. AnnTyped'
    BY DEF AnnTyped, Tables, Changes, Vecs, Current, Seen
  <1>2. Dropped'
    BY DEF Dropped, AnnTyped, Tables, Vecs
  <1>3. \A j \in Ids, x \in Vecs : Known(j, x) => Known(j, x)'
    <2> SUFFICES ASSUME NEW j \in Ids, NEW x \in Vecs, Known(j, x) PROVE Known(j, x)'
      OBVIOUS
    <2>1. CASE x = table[j] /\ j = i
      <3>1. writing'[w] = [id |-> i, old |-> table[i], new |-> v] /\ writing'[w] \in Changes
        BY <1>1 DEF AnnTyped, Tables, Changes, Vecs
      <3> QED
        BY <2>1, <3>1 DEF Known
    <2>2. CASE x = table[j] /\ j # i
      BY <2>2 DEF Known, AnnTyped, Tables
    <2>3. CASE clearing
      BY <2>3 DEF Known
    <2>4. ASSUME NEW u \in Writers, writing[u] # Nothing, writing[u].id = j, writing[u].old = x
          PROVE  Known(j, x)'
      BY <2>4 DEF Known, AnnTyped
    <2> QED
      BY <2>1, <2>2, <2>3, <2>4 DEF Known
  <1>4. IndexKnown'
    BY <1>3 DEF IndexKnown, AnnTyped, Tables, Vecs, Current, Unmarked, UnmarkedSince
  <1>5. \A j \in Ids : search # Nothing => window[j] \subseteq window'[j] /\ table'[j] \in window'[j]
    BY DEF AnnTyped, Tables, Seen, SearchKnown
  <1>6. SearchKnown'
    BY <1>5 DEF SearchKnown, AnnTyped, Current, Unmarked, UnmarkedSince
  <1> QED
    BY <1>1, <1>2, <1>4, <1>6 DEF SearchesAreCurrent

LEMMA MarkKeeps ==
  ASSUME AnnInv, NEW w \in Writers, Mark(w)
  PROVE  AnnInv'
  <1> USE DEF AnnInv, Mark
  <1>1. AnnTyped'
    BY DEF AnnTyped, Current, Tables, Changes
  <1>2. ASSUME Marked PROVE changed'[writing[w].id] = seq + 1 /\ DOMAIN changed' = DOMAIN changed \cup {writing[w].id}
                            /\ \A i \in DOMAIN changed : i # writing[w].id => changed'[i] = changed[i]
    BY <1>2
  <1>3. ASSUME NEW j \in Ids, NEW x \in Vecs, Known(j, x), j # writing[w].id
        PROVE  Known(j, x)'
    BY <1>3 DEF Known, AnnTyped
  <1>4. ASSUME NEW b \in builds, Current(b), NEW j \in Ids, UnmarkedSince(b, j)'
        PROVE  j # writing[w].id /\ UnmarkedSince(b, j)
    BY <1>2, <1>4 DEF UnmarkedSince, AnnTyped, Marked
  <1>5. ASSUME built # NotBuilt, NEW j \in Ids, Unmarked(j)'
        PROVE  j # writing[w].id /\ Unmarked(j)
    BY <1>2, <1>5 DEF Unmarked, AnnTyped, Marked
  <1>6. IndexKnown'
    BY <1>3, <1>4, <1>5 DEF IndexKnown, Current, AnnTyped, Tables, Vecs
  <1>7. SearchKnown'
    BY <1>4, <1>5 DEF SearchKnown, Current
  <1> QED
    BY <1>1, <1>6, <1>7 DEF Dropped, SearchesAreCurrent

LEMMA DropKeeps == ASSUME AnnInv, Drop PROVE AnnInv'
  <1> USE DEF AnnInv, Drop, state
  <1>1. AnnTyped'
    BY DEF AnnTyped, Tables, Current, Seen
  <1>2. IndexKnown'
    BY DEF IndexKnown, Known
  <1>3. \A j \in Ids : search # Nothing => window[j] \subseteq window'[j] /\ table'[j] \in window'[j]
    BY DEF Seen
  <1>4. SearchKnown'
    BY <1>3 DEF SearchKnown, Current, Unmarked, UnmarkedSince
  <1> QED
    BY <1>1, <1>2, <1>4 DEF Dropped, SearchesAreCurrent

LEMMA ClearKeeps == ASSUME AnnInv, Clear PROVE AnnInv'
  <1> USE DEF AnnInv, Clear, NextGeneration
  <1>1. \A b \in builds : b.generation \in Nat /\ b.generation <= generation
    BY DEF AnnTyped
  <1>2. generation \in Nat
    BY DEF AnnTyped
  <1>3. generation' \in Nat /\ \A b \in builds' : ~Current(b)' /\ b.generation <= generation'
    BY <1>1, <1>2 DEF Current
  <1>4. AnnTyped'
    BY <1>3 DEF AnnTyped
  <1> QED
    BY <1>3, <1>4 DEF Dropped, IndexKnown, SearchKnown, SearchesAreCurrent

\* A search begins with everything that is known in its window.
LEMMA SearchBeginKeeps == ASSUME AnnInv, SearchBegin PROVE AnnInv'
  <1> USE DEF AnnInv, SearchBegin
  <1>1. AnnTyped'
    <2>1. CASE builds' = builds /\ building' = building
      BY <2>1 DEF AnnTyped, Current
    <2>2. CASE ~building /\ building' = TRUE /\
               builds' = builds \cup {[generation |-> generation, seq |-> seq, snapshot |-> NotBuilt]}
      BY <2>2 DEF AnnTyped, Current
    <2> QED
      BY <2>1, <2>2 DEF AnnTyped
  <1>2. \A b \in builds' : Current(b)' /\ b.snapshot # NotBuilt => b \in builds /\ Current(b)
    BY DEF Current, AnnTyped
  <1>3. IndexKnown'
    BY <1>2 DEF IndexKnown, Known, Unmarked, UnmarkedSince
  <1>4. ASSUME NEW i \in Ids, NEW x \in Vecs, Known(i, x) PROVE x \in window'[i]
    <2>1. CASE x = table[i]
      BY <2>1
    <2>2. CASE clearing
      BY <2>2, <1>4 DEF Dropped, Vecs
    <2>3. ASSUME NEW u \in Writers, writing[u] # Nothing, writing[u].id = i, writing[u].old = x
          PROVE  x \in window'[i]
      BY <2>3
    <2> QED
      BY <1>4, <2>1, <2>2, <2>3 DEF Known
  <1>5. \A i \in Ids : table[i] \in Vecs /\ (built # NotBuilt => built[i] \in Vecs)
    BY DEF AnnTyped, Tables, Vecs
  <1>6. \A b \in builds : b.snapshot # NotBuilt => \A i \in Ids : b.snapshot[i] \in Vecs
    BY DEF AnnTyped, Tables, Vecs
  <1>7. SearchKnown'
    BY <1>2, <1>4, <1>5, <1>6 DEF SearchKnown, IndexKnown, Known, Unmarked, UnmarkedSince
  <1> QED
    BY <1>1, <1>3, <1>7 DEF Dropped, SearchesAreCurrent

LEMMA SnapshotKeeps == ASSUME AnnInv, NEW b \in builds, Snapshot(b) PROVE AnnInv'
  <1> USE DEF AnnInv, Snapshot, state
  <1>1. AnnTyped'
    BY DEF AnnTyped, Current
  <1>2. \A c \in builds' : c \in builds \/ c.snapshot = table
    BY DEF AnnTyped
  <1>3. IndexKnown'
    BY <1>2 DEF IndexKnown, Known, Current, Unmarked, UnmarkedSince
  <1>4. SearchKnown'
    BY <1>2 DEF SearchKnown, Current, Unmarked, UnmarkedSince
  <1> QED
    BY <1>1, <1>3, <1>4 DEF Dropped, SearchesAreCurrent

LEMMA FinishKeeps == ASSUME AnnInv, NEW b \in builds, Finish(b) PROVE AnnInv'
  <1> USE DEF AnnInv, Finish
  <1>1. CASE b.generation # generation
    BY <1>1 DEF AnnTyped, Current, Dropped, IndexKnown, Known, SearchKnown, SearchesAreCurrent, Unmarked, UnmarkedSince
  <1>2. CASE b.generation = generation
    <2>1. AnnTyped' /\ \A c \in builds' : ~Current(c)'
      BY <1>2 DEF AnnTyped, Current
    <2>2. \A i \in Ids : Unmarked(i)' => UnmarkedSince(b, i)
      BY <1>2 DEF Unmarked, UnmarkedSince, KeptChanges
    <2>3. IndexKnown'
      BY <1>2, <2>1, <2>2 DEF IndexKnown, Known, Current
    <2>4. SearchKnown'
      BY <1>2, <2>1, <2>2 DEF SearchKnown, Current
    <2> QED
      BY <1>2, <2>1, <2>3, <2>4 DEF Dropped, SearchesAreCurrent
  <1> QED
    BY <1>1, <1>2

LEMMA BuildFailsKeeps == ASSUME AnnInv, NEW b \in builds, BuildFails(b) PROVE AnnInv'
  <1> USE DEF AnnInv, BuildFails
  <1>1. AnnTyped'
    BY DEF AnnTyped, Current
  <1> QED
    BY <1>1 DEF Current, Dropped, IndexKnown, Known, SearchKnown, SearchesAreCurrent, Unmarked, UnmarkedSince

LEMMA SearchEndKeeps == ASSUME AnnInv, SearchEnd PROVE AnnInv'
  <1> USE DEF AnnInv, SearchEnd, state
  <1>1. \A i \in Ids : Used(i) \in window[i]
    BY DEF Used, SearchKnown, Unmarked
  <1>2. SearchesAreCurrent'
    BY <1>1 DEF SearchesAreCurrent
  <1>3. AnnTyped' /\ SearchKnown'
    BY DEF AnnTyped, Current, SearchKnown
  <1> QED
    BY <1>2, <1>3 DEF Dropped, IndexKnown, Known, Current, Unmarked, UnmarkedSince

LEMMA StepKeeps == AnnInv /\ [AnnNext]_annVars => AnnInv'
  <1> SUFFICES ASSUME AnnInv, [AnnNext]_annVars PROVE AnnInv'
    OBVIOUS
  <1>1. ASSUME NEW w \in Writers, Mark(w) PROVE AnnInv'
    BY <1>1, MarkKeeps
  <1>2. ASSUME NEW w \in Writers, NEW i \in Ids, NEW v \in Vecs, Commit(w, i, v) PROVE AnnInv'
    BY <1>2, CommitKeeps
  <1>3. ASSUME NEW b \in builds, Snapshot(b) \/ Finish(b) \/ BuildFails(b) PROVE AnnInv'
    BY <1>3, SnapshotKeeps, FinishKeeps, BuildFailsKeeps
  <1>4. ASSUME Drop \/ Clear \/ SearchBegin \/ SearchEnd PROVE AnnInv'
    BY <1>4, DropKeeps, ClearKeeps, SearchBeginKeeps, SearchEndKeeps
  <1>5. CASE UNCHANGED annVars
    BY <1>5 DEF annVars, AnnInv, AnnTyped, Current, Dropped, IndexKnown, Known, SearchKnown, SearchesAreCurrent, Unmarked, UnmarkedSince
  <1> QED
    BY <1>1, <1>2, <1>3, <1>4, <1>5 DEF AnnNext, Vecs

\* A search uses, of every id, a vector it had at some time during the search: whatever is
\* written, built, installed, given up or cleared meanwhile (search_similar, changed, finish).
THEOREM SearchesStayCurrent == AnnSpec => []SearchesAreCurrent
  <1>1. AnnInv => SearchesAreCurrent
    BY DEF AnnInv
  <1> QED
    BY <1>1, AnnInitInv, StepKeeps, PTL DEF AnnSpec
=============================================================================
