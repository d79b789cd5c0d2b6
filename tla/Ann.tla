-------------------------------- MODULE Ann ---------------------------------
(***************************************************************************)
(* The approximate index beside the vectors                                *)
(* (sapphire-framework-retrieve: ann.rs and its use in redb_store.rs).     *)
(*                                                                         *)
(* Threads commit changes of vectors and mark them afterwards; a search    *)
(* may start a build, which takes a snapshot on a thread of its own and is *)
(* installed when it is done; a switch of models drops every vector and    *)
(* then clears the index.  A search reads a snapshot of the vectors, then  *)
(* the index.                                                              *)
(*                                                                         *)
(* The index returns every vector it holds: that it is approximate is left *)
(* out.                                                                    *)
(***************************************************************************)
EXTENDS Integers, FiniteSets

CONSTANTS
  Ids,
  Values,       \* the vectors
  NoValue,      \* no vector
  NotBuilt,     \* there is no index, or no snapshot yet
  Nothing,      \* a thread or the search has nothing under way
  Writers,      \* the threads that change vectors
  Min,          \* the number of vectors at which a build starts
  MaxSeq,       \* bound: marked changes
  MaxClears     \* bound: switches of models

Tables == [Ids -> Values \cup {NoValue}]
Changes == [id : Ids, old : Values \cup {NoValue}, new : Values \cup {NoValue}]

ASSUME AnnAssumption ==
  /\ IsFiniteSet(Ids) /\ NoValue \notin Values /\ {Min, MaxSeq, MaxClears} \subseteq Nat /\ Min > 0
  /\ NotBuilt \notin Tables /\ Nothing \notin Tables \cup Changes

VARIABLES
  table,       \* per id: its vector
  built,       \* the index: the table its snapshot was
  building,    \* whether a build is running
  generation, seq,
  changed,     \* per changed id: the number of its last change
  builds,      \* the builds in flight: their tickets and snapshots
  writing,     \* per thread: the change it has committed and not marked, with the old vector
  clearing,    \* configure_vectors has dropped the vectors and not cleared the index
  search,      \* the snapshot of a search under way, or Nothing
  window,      \* per id: the vectors it has had since the search began
  answer       \* per id: the vector the last search used

annVars == <<table, built, building, generation, seq, changed, builds, writing, clearing, search, window, answer>>
state == <<built, building, generation, seq, changed>>

AnnInit ==
  /\ table = [i \in Ids |-> NoValue] /\ built = NotBuilt /\ building = FALSE
  /\ generation = 0 /\ seq = 0 /\ changed = [i \in {} |-> 0] /\ builds = {}
  /\ writing = [w \in Writers |-> Nothing] /\ clearing = FALSE
  /\ search = Nothing /\ window = [i \in Ids |-> {}] /\ answer = [i \in Ids |-> {}]

CountOf(t) == Cardinality({i \in Ids : t[i] # NoValue})
Larger(a, b) == IF a >= b THEN a ELSE b
Seen(S) == [i \in Ids |-> IF search = Nothing THEN {} ELSE window[i] \cup S[i]]
-----------------------------------------------------------------------------
\* put_vectors holds the dimension's lock until it has marked; upsert_document and
\* remove_document, which drop a vector, do not.
Commit(w, i, v) ==
  /\ writing[w] = Nothing /\ table[i] # v
  /\ v # NoValue => ~clearing /\ \A x \in Writers : writing[x] # Nothing => writing[x].new = NoValue
  /\ table' = [table EXCEPT ![i] = v]
  /\ writing' = [writing EXCEPT ![w] = [id |-> i, old |-> table[i], new |-> v]]
  /\ window' = Seen([j \in Ids |-> IF j = i THEN {v} ELSE {}])
  /\ UNCHANGED <<state, builds, clearing, search, answer>>

\* A mutant of Marked: a change is marked only beside an index.
MarkedBuilt == built # NotBuilt

\* A change is marked while there is an index or a build.
Marked == built # NotBuilt \/ building

Mark(w) ==
  /\ writing[w] # Nothing /\ writing' = [writing EXCEPT ![w] = Nothing]
  /\ IF Marked
     THEN /\ seq < MaxSeq /\ seq' = seq + 1
          /\ changed' = [i \in DOMAIN changed \cup {writing[w].id} |->
                           IF i = writing[w].id THEN seq + 1 ELSE changed[i]]
     ELSE UNCHANGED <<seq, changed>>
  /\ UNCHANGED <<table, built, building, generation, builds, clearing, search, window, answer>>

\* configure_vectors, under the dimension's lock.
Drop ==
  /\ ~clearing /\ generation < MaxClears
  /\ \A x \in Writers : writing[x] # Nothing => writing[x].new = NoValue
  /\ clearing' = TRUE /\ table' = [i \in Ids |-> NoValue]
  /\ window' = Seen([i \in Ids |-> {NoValue}])
  /\ UNCHANGED <<state, builds, writing, search, answer>>

NextGeneration == generation + 1

Clear ==
  /\ clearing /\ clearing' = FALSE /\ generation' = NextGeneration
  /\ built' = NotBuilt /\ building' = FALSE /\ seq' = 0 /\ changed' = [i \in {} |-> 0]
  /\ UNCHANGED <<table, builds, writing, search, window, answer>>
-----------------------------------------------------------------------------
\* start: none is running, and there is no index or a tenth of it has changed.
Stale ==
  built = NotBuilt \/ Cardinality(DOMAIN changed) * 10 > Larger(CountOf(built), 1)

SearchBegin ==
  /\ search = Nothing /\ search' = table
  /\ window' = [i \in Ids |-> {table[i]} \cup {writing[w].old : w \in {x \in Writers : writing[x] # Nothing /\ writing[x].id = i}}
                                        \cup (IF clearing THEN Values ELSE {})]
  /\ LET starts == CountOf(table) >= Min /\ ~building /\ Stale
     IN /\ building' = (building \/ starts)
        /\ builds' = IF starts THEN builds \cup {[generation |-> generation, seq |-> seq, snapshot |-> NotBuilt]} ELSE builds
  /\ UNCHANGED <<table, built, generation, seq, changed, writing, clearing, answer>>

Snapshot(b) ==
  /\ b \in builds /\ b.snapshot = NotBuilt
  /\ builds' = (builds \ {b}) \cup {[b EXCEPT !.snapshot = table]}
  /\ UNCHANGED <<table, state, writing, clearing, search, window, answer>>

\* A mutant of KeptChanges: the new index has every change.
KeptChangesNone(b) == {}

\* The changes after the ticket may or may not be in the snapshot.
KeptChanges(b) == {i \in DOMAIN changed : changed[i] > b.seq}

Finish(b) ==
  /\ b \in builds /\ b.snapshot # NotBuilt /\ builds' = builds \ {b}
  /\ IF b.generation = generation
     THEN /\ building' = FALSE /\ built' = b.snapshot
          /\ changed' = [i \in KeptChanges(b) |-> changed[i]]
     ELSE UNCHANGED <<building, built, changed>>
  /\ UNCHANGED <<table, generation, seq, writing, clearing, search, window, answer>>

\* A build that cannot read the table is given up.
BuildFails(b) ==
  /\ b \in builds /\ b.snapshot = NotBuilt /\ builds' = builds \ {b}
  /\ building' = (building /\ b.generation # generation)
  /\ UNCHANGED <<table, built, generation, seq, changed, writing, clearing, search, window, answer>>

\* search_similar: the index for what has not changed, the snapshot for what has.
Used(i) == IF CountOf(search) >= Min /\ built # NotBuilt /\ i \notin DOMAIN changed THEN built[i] ELSE search[i]

SearchEnd ==
  /\ search # Nothing /\ search' = Nothing
  /\ answer' = [i \in Ids |-> {Used(i)} \ window[i]] /\ window' = [i \in Ids |-> {}]
  /\ UNCHANGED <<table, state, builds, writing, clearing>>

AnnNext ==
  \/ \E w \in Writers : Mark(w) \/ \E i \in Ids, v \in Values \cup {NoValue} : Commit(w, i, v)
  \/ \E b \in builds : Snapshot(b) \/ Finish(b) \/ BuildFails(b)
  \/ Drop \/ Clear \/ SearchBegin \/ SearchEnd

AnnSpec == AnnInit /\ [][AnnNext]_annVars
-----------------------------------------------------------------------------
AnnTypeOK ==
  /\ table \in Tables /\ built \in Tables \cup {NotBuilt} /\ building \in BOOLEAN
  /\ generation \in Nat /\ seq \in Nat
  /\ DOMAIN changed \subseteq Ids /\ \A i \in DOMAIN changed : changed[i] \in 1..seq
  /\ \A b \in builds : b.generation <= generation /\ (b.generation = generation => b.seq <= seq)
  /\ Cardinality({b \in builds : b.generation = generation}) = (IF building THEN 1 ELSE 0)

InFlight(i) == \E w \in Writers : writing[w] # Nothing /\ writing[w].id = i

\* Where nothing is being written, what the index holds of an id that has not changed is its
\* vector: no change slips between a snapshot and the marks (changed, start, finish).
IndexIsCurrent ==
  \A i \in Ids : built # NotBuilt /\ ~clearing /\ i \notin DOMAIN changed /\ ~InFlight(i)
                   => built[i] = table[i]

\* A search uses, of every id, a vector that it had at some time during the search; a change
\* that is not marked yet counts as under way (search_similar).
SearchesAreCurrent == \A i \in Ids : answer[i] = {}
=============================================================================
