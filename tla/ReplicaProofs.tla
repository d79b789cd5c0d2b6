---------------------------- MODULE ReplicaProofs ---------------------------
(***************************************************************************)
(* Replicas are type correct, no dot escapes a crash (NoDotEscapes), and   *)
(* what replicas hold of each other's writes and record as their users' is *)
(* right, for every set of replicas, files and contents and every bound.   *)
(* Before that, facts about version vectors and merging: what they compute *)
(* and what merging keeps of the order in which versions supersede each    *)
(* other.                                                                  *)
(*                                                                         *)
(* The argument for NoDotEscapes: its counter in a replica's store bounds  *)
(* what anybody else knows of its writes, what is on the way in a session  *)
(* included, because all of it was read from the store, or from metadata   *)
(* while no state was pending -- when the counter in memory is the one in  *)
(* the store.                                                              *)
(***************************************************************************)
EXTENDS Replica, FiniteSetTheorems, WellFoundedInduction, TLAPS

-----------------------------------------------------------------------------
(* Facts about version vectors and merging, which need no variables *)

\* A set of versions as a path's state holds it: finite, and one version per dot.
VersionSet(S) ==
  /\ S \subseteq Entry
  /\ IsFiniteSet(S)
  /\ \A e, f \in S : e.dot = f.dot => e = f

-----------------------------------------------------------------------------
(* Least and greatest elements *)

\* Every nonempty set of naturals has a least element.
LEMMA LeastNat ==
  ASSUME NEW S \in SUBSET Nat, S # {}
  PROVE  \E n \in S : \A m \in S : n <= m
<1>1. \E x \in S : \A y \in S : ~(<<y, x>> \in OpToRel(<, Nat))
  BY NatLessThanWellFounded, WFMin
<1>2. PICK x \in S : \A y \in S : ~(<<y, x>> \in OpToRel(<, Nat))
  BY <1>1
<1>3. \A y \in S : y < x => <<y, x>> \in OpToRel(<, Nat)
  <2>1. SUFFICES ASSUME NEW y \in S, y < x PROVE <<y, x>> \in OpToRel(<, Nat)
    OBVIOUS
  <2>2. <<y, x>> \in Nat \X Nat /\ <<y, x>>[1] = y /\ <<y, x>>[2] = x
    OBVIOUS
  <2> QED
    BY <2>1, <2>2, Zenon DEF OpToRel
<1>4. \A y \in S : ~(y < x)
  BY <1>2, <1>3, Zenon
<1> QED
  BY <1>4

LEMMA BeatsTransitive ==
  ASSUME NEW e \in Entry, NEW f \in Entry, NEW g \in Entry, Beats(e, f), Beats(f, g)
  PROVE  Beats(e, g)
<1>1. \A x \in Entry : /\ x.dot.replica \in Nat /\ x.dot.counter \in Nat
                       /\ x.hlc \in Timestamp /\ x.hlc.wall \in Nat /\ x.hlc.logical \in Nat
  BY ReplicasAssumption DEF Entry, Dot, Timestamp
<1> QED
  BY <1>1 DEF Beats, IsTombstone, Earlier, Timestamp

\* Of two versions with different dots one beats the other (winner_key is a total order).
LEMMA BeatsTotal ==
  ASSUME NEW e \in Entry, NEW f \in Entry, e.dot # f.dot
  PROVE  Beats(e, f) \/ Beats(f, e)
<1>1. \A x \in Entry : /\ x.dot \in Dot /\ x.dot.replica \in Nat /\ x.dot.counter \in Nat
                       /\ x.hlc \in Timestamp /\ x.hlc.wall \in Nat /\ x.hlc.logical \in Nat
  BY ReplicasAssumption DEF Entry, Dot, Timestamp
<1>2. e.dot.replica # f.dot.replica \/ e.dot.counter # f.dot.counter
  BY <1>1 DEF Dot
<1>3. e.hlc = f.hlc \/ e.hlc.wall # f.hlc.wall \/ e.hlc.logical # f.hlc.logical
  BY <1>1 DEF Timestamp
<1> QED
  BY <1>1, <1>2, <1>3 DEF Beats, IsTombstone, Earlier

\* A nonempty set of versions has a winner, whatever the order they were joined in.
THEOREM WinnerExists ==
  ASSUME NEW S, VersionSet(S), S # {}
  PROVE  /\ Winner(S) \in S
         /\ \A f \in S \ {Winner(S)} : Beats(Winner(S), f)
<1> DEFINE Won(T) == \E e \in T : \A f \in T \ {e} : Beats(e, f)
           Bad == { n \in Nat : \E T \in SUBSET S : T # {} /\ Cardinality(T) = n /\ ~Won(T) }
<1>1. Bad = {}
  <2>1. SUFFICES ASSUME Bad # {} PROVE FALSE
    OBVIOUS
  <2>2. PICK n \in Bad : \A m \in Bad : n <= m
    <3>1. Bad \in SUBSET Nat
      OBVIOUS
    <3> QED
      BY <2>1, <3>1, LeastNat
  <2>3. PICK T \in SUBSET S : T # {} /\ Cardinality(T) = n /\ ~Won(T)
    BY <2>2
  <2>4. PICK x \in T : TRUE
    BY <2>3
  <2>5. IsFiniteSet(T) /\ T \subseteq Entry /\ \A e, f \in T : e.dot = f.dot => e = f
    BY <2>3, FS_Subset DEF VersionSet
  <2>6. T \ {x} # {}
    <3>1. SUFFICES ASSUME T \ {x} = {} PROVE FALSE
      OBVIOUS
    <3> QED
      BY <2>3, <2>4, <3>1
  <2>7. Cardinality(T \ {x}) = n - 1 /\ Cardinality(T \ {x}) \in Nat
    BY <2>3, <2>4, <2>5, FS_RemoveElement, FS_CardinalityType
  <2>8. Won(T \ {x})
    <3>1. Cardinality(T \ {x}) \notin Bad
      BY <2>2, <2>7
    <3>2. T \ {x} \in SUBSET S
      BY <2>3
    <3> QED
      BY <2>6, <2>7, <3>1, <3>2, Zenon
  <2>9. PICK e \in T \ {x} : \A f \in (T \ {x}) \ {e} : Beats(e, f)
    BY <2>8
  <2>10. e.dot # x.dot /\ e \in Entry /\ x \in Entry
    BY <2>4, <2>5, <2>9
  <2>11. CASE Beats(e, x)
    BY <2>3, <2>9, <2>11
  <2>12. CASE Beats(x, e)
    <3>1. \A f \in T \ {x} : Beats(x, f)
      BY <2>5, <2>9, <2>10, <2>12, BeatsTransitive
    <3> QED
      BY <2>3, <2>4, <3>1
  <2> QED
    BY <2>10, <2>11, <2>12, BeatsTotal
<1>2. Won(S)
  <2>1. Cardinality(S) \in Nat
    BY FS_CardinalityType DEF VersionSet
  <2> QED
    BY <1>1, <2>1
<1> QED
  BY <1>2 DEF Winner

-----------------------------------------------------------------------------
(* Version vectors *)

LEMMA MergeVVType ==
  ASSUME NEW v \in VersionVector, NEW w \in VersionVector
  PROVE  MergeVV(v, w) \in VersionVector
BY DEF MergeVV, VersionVector

\* merge gives the least vector that covers both.
THEOREM MergeVVIsJoin ==
  ASSUME NEW v \in VersionVector, NEW w \in VersionVector
  PROVE  /\ Covers(MergeVV(v, w), v) /\ Covers(MergeVV(v, w), w)
         /\ \A u \in VersionVector : Covers(u, v) /\ Covers(u, w) => Covers(u, MergeVV(v, w))
BY DEF MergeVV, VersionVector, Covers

LEMMA AddDotType ==
  ASSUME NEW v \in VersionVector, NEW d \in Dot
  PROVE  AddDot(v, d) \in VersionVector
BY DEF AddDot, VersionVector, Dot

LEMMA NoVersionsType == NoVersions \in VersionVector /\ \A d \in Dot : ~CoversDot(NoVersions, d)
BY ReplicasAssumption DEF NoVersions, VersionVector, Dot, CoversDot

-----------------------------------------------------------------------------
(* Joining *)

LEMMA JoinedVersionsType ==
  ASSUME NEW L, NEW I, VersionSet(L), VersionSet(I), NEW ls, NEW is
  PROVE  VersionSet(JoinedVersions(L, ls, I, is))
<1> DEFINE kept  == Unsuperseded(L, I, is)
           added == { e \in Unsuperseded(I, L, ls) : \A k \in kept : k.dot # e.dot }
<1>1. kept \in SUBSET L /\ added \in SUBSET I
  BY DEF Unsuperseded
<1>2. IsFiniteSet(kept) /\ IsFiniteSet(added)
  BY <1>1, FS_Subset DEF VersionSet
<1>3. IsFiniteSet(kept \cup added)
  BY <1>2, FS_Union
<1>4. \A e, f \in kept \cup added : e.dot = f.dot => e = f
  BY <1>1 DEF VersionSet
<1> QED
  BY <1>1, <1>3, <1>4 DEF VersionSet, JoinedVersions

\* What a join may do to a path's versions: it keeps them well formed, it invents
\* none, and it never leaves a path without one.
LEMMA JoinType ==
  ASSUME NEW local, VersionSet(local.versions), local.seen \in VersionVector,
         local.versions = {} => local.seen = NoVersions,
         NEW incoming, VersionSet(incoming.versions), incoming.versions # {},
         incoming.seen \in VersionVector
  PROVE  /\ VersionSet(Join(local, incoming).versions)
         /\ Join(local, incoming).versions # {}
         /\ Join(local, incoming).versions \subseteq local.versions \cup incoming.versions
         /\ Join(local, incoming).seen \in {local.seen, MergeVV(local.seen, incoming.seen)}
<1> DEFINE L == local.versions
           I == incoming.versions
           V == JoinedVersions(L, local.seen, I, incoming.seen)
<1>1. VersionSet(V)
  BY JoinedVersionsType, Zenon
<1>2. V \subseteq L \cup I
  BY DEF JoinedVersions, Unsuperseded
<1>3. V = {} => L # {}
  <2>1. SUFFICES ASSUME L = {} PROVE V # {}
    OBVIOUS
  <2>2. PICK e \in I : TRUE
    OBVIOUS
  <2>3. e.dot \in Dot
    BY DEF VersionSet, Entry
  <2>4. ~CoversDot(local.seen, e.dot)
    BY <2>1, <2>3, NoVersionsType
  <2>5. Unsuperseded(L, I, incoming.seen) = {} /\ e \in Unsuperseded(I, L, local.seen)
    BY <2>1, <2>4 DEF Unsuperseded
  <2>6. e \in V
    BY <2>5 DEF JoinedVersions
  <2> QED
    BY <2>6
<1>4. Join(local, incoming) =
        IF V = {} THEN [versions |-> L, seen |-> local.seen]
                  ELSE [versions |-> V, seen |-> MergeVV(local.seen, incoming.seen)]
  BY DEF Join
<1> HIDE DEF V
<1> QED
  BY <1>1, <1>2, <1>3, <1>4

-----------------------------------------------------------------------------
(* The hybrid logical clock *)

LEMMA TickType ==
  ASSUME NEW h \in Timestamp, NEW now \in Nat
  PROVE  Tick(h, now) \in Timestamp
BY DEF Tick, Timestamp

\* A local event is later than everything the clock has seen.
THEOREM TickIsLater ==
  ASSUME NEW h \in Timestamp, NEW now \in Nat
  PROVE  Earlier(h, Tick(h, now))
BY DEF Tick, Timestamp, Earlier

LEMMA ClampedType ==
  ASSUME NEW h \in Timestamp, NEW now \in Nat
  PROVE  Clamped(h, now) \in Timestamp
BY HlcAssumption DEF Clamped, Timestamp

-----------------------------------------------------------------------------
(* What the states of one path, wherever they are, say of each other *)

Records == [versions : SUBSET Entry, seen : VersionVector]

\* A state has seen the versions it holds, and a dot names one version.
Dotted(O) ==
  /\ O \subseteq Records
  /\ \A A \in O : \A e \in A.versions : CoversDot(A.seen, e.dot)
  /\ \A A, B \in O : \A e \in A.versions, f \in B.versions : e.dot = f.dot => e = f

\* Who has seen g has seen e, and holds it no longer.
Supersedes(O, g, e) ==
  \A D \in O : CoversDot(D.seen, g.dot) => CoversDot(D.seen, e.dot) /\ e \notin D.versions

\* A state that has seen a version and does not hold it holds one that supersedes it.
Explained(O) ==
  \A A, C \in O : \A e \in A.versions :
    CoversDot(C.seen, e.dot) /\ e \notin C.versions => \E g \in C.versions : Supersedes(O, g, e)

Causal(O) == Dotted(O) /\ Explained(O)

LEMMA RecordElim ==
  ASSUME NEW O, Dotted(O), NEW A \in O
  PROVE  /\ A.seen \in VersionVector /\ A.versions \subseteq Entry
         /\ \A e \in A.versions : e \in Entry /\ e.dot \in Dot
  BY DEF Dotted, Records, Entry

\* Fewer states: the same holds of them.
LEMMA CausalSubset ==
  ASSUME NEW O, NEW Q, Causal(O), Q \subseteq O
  PROVE  Causal(Q)
  BY DEF Causal, Dotted, Explained, Supersedes

\* States that have seen the same writes hold the same versions.
LEMMA CausalAgree ==
  ASSUME NEW O, Causal(O), NEW A \in O, NEW C \in O, A.seen = C.seen
  PROVE  A.versions = C.versions
  <1>1. ASSUME NEW B \in O, NEW D \in O, B.seen = D.seen, NEW e \in B.versions
        PROVE  e \in D.versions
    <2>1. CoversDot(B.seen, e.dot) /\ CoversDot(D.seen, e.dot)
      BY <1>1 DEF Causal, Dotted
    <2>2. ASSUME NEW g \in D.versions, Supersedes(O, g, e)
          PROVE  FALSE
      <3>1. CoversDot(B.seen, g.dot)
        BY <1>1, <2>2 DEF Causal, Dotted
      <3> QED
        BY <1>1, <2>2, <3>1 DEF Supersedes
    <2> QED
      BY <1>1, <2>1, <2>2 DEF Causal, Explained
  <1>2. A.versions \subseteq C.versions
    BY <1>1
  <1>3. C.versions \subseteq A.versions
    BY <1>1
  <1> QED
    BY <1>2, <1>3

LEMMA MergeCovers ==
  ASSUME NEW v \in VersionVector, NEW w \in VersionVector, NEW d \in Dot
  PROVE  CoversDot(MergeVV(v, w), d) <=> CoversDot(v, d) \/ CoversDot(w, d)
  BY DEF CoversDot, MergeVV, VersionVector, Dot

\* Of a held version, a join keeps what neither side has superseded.
LEMMA JoinedElements ==
  ASSUME NEW A, NEW B, NEW e,
         \A x \in A.versions, y \in B.versions : x.dot = y.dot => x = y
  PROVE  e \in JoinedVersions(A.versions, A.seen, B.versions, B.seen) <=>
           \/ e \in A.versions /\ (CoversDot(B.seen, e.dot) => e \in B.versions)
           \/ e \in B.versions /\ (CoversDot(A.seen, e.dot) => e \in A.versions)
  BY DEF JoinedVersions, Unsuperseded

\* What has seen a version and does not hold it takes it out of every join.
LEMMA JoinLoses ==
  ASSUME NEW O, Dotted(O), NEW A \in O, NEW B \in O, NEW e, e.dot \in Dot
  PROVE  LET V == JoinedVersions(A.versions, A.seen, B.versions, B.seen) IN
         /\ \A C \in {A, B} : CoversDot(C.seen, e.dot) /\ e \notin C.versions => e \notin V
         /\ CoversDot(MergeVV(A.seen, B.seen), e.dot) /\ e \notin V =>
              \E C \in {A, B} : CoversDot(C.seen, e.dot) /\ e \notin C.versions
         /\ CoversDot(MergeVV(A.seen, B.seen), e.dot) <=> CoversDot(A.seen, e.dot) \/ CoversDot(B.seen, e.dot)
  <1>1. \A x \in A.versions, y \in B.versions : x.dot = y.dot => x = y
    BY DEF Dotted
  <1>2. A.seen \in VersionVector /\ B.seen \in VersionVector
    BY RecordElim
  <1> QED
    BY <1>1, <1>2, JoinedElements, MergeCovers

\* A join of two states explains what it no longer holds by a version that it holds, so it holds one.
LEMMA JoinExplains ==
  ASSUME NEW O, Causal(O), NEW A \in O, NEW B \in O
  PROVE  LET V == JoinedVersions(A.versions, A.seen, B.versions, B.seen) IN
         /\ \A X \in O : \A e \in X.versions :
              CoversDot(MergeVV(A.seen, B.seen), e.dot) /\ e \notin V => \E g \in V : Supersedes(O, g, e)
         /\ A.versions \cup B.versions # {} => V # {}
  <1> DEFINE V == JoinedVersions(A.versions, A.seen, B.versions, B.seen)
  <1>1. Dotted(O) /\ Explained(O)
    BY DEF Causal
  <1>2. ASSUME NEW X \in O, NEW e \in X.versions
        PROVE  /\ e.dot \in Dot
               /\ \A C \in {A, B} : CoversDot(C.seen, e.dot) /\ e \notin C.versions => e \notin V
               /\ CoversDot(MergeVV(A.seen, B.seen), e.dot) /\ e \notin V =>
                    \E C \in {A, B} : CoversDot(C.seen, e.dot) /\ e \notin C.versions
               /\ CoversDot(MergeVV(A.seen, B.seen), e.dot) <=> CoversDot(A.seen, e.dot) \/ CoversDot(B.seen, e.dot)
               /\ CoversDot(X.seen, e.dot)
    <2>1. e.dot \in Dot
      BY <1>1, RecordElim
    <2>2. CoversDot(X.seen, e.dot)
      BY <1>1 DEF Dotted
    <2> QED
      BY <1>1, <2>1, <2>2, JoinLoses
  <1> HIDE DEF V
  <1>3. ASSUME NEW C \in {A, B}, NEW g \in C.versions, g \notin V
        PROVE  \E h \in V : Supersedes(O, h, g)
    <2>1. C \in O
      OBVIOUS
    <2>2. PICK D \in {A, B} : CoversDot(D.seen, g.dot) /\ g \notin D.versions
      BY <1>2, <1>3, <2>1
    <2>3. PICK h \in D.versions : Supersedes(O, h, g)
      BY <1>1, <2>1, <2>2 DEF Explained
    <2>4. h \in V
      <3>1. SUFFICES ASSUME h \notin V PROVE FALSE
        OBVIOUS
      <3>2. PICK F \in {A, B} : CoversDot(F.seen, h.dot) /\ h \notin F.versions
        BY <1>2, <2>3, <3>1
      <3>3. F = C
        BY <1>3, <2>2, <2>3, <3>2
      <3> QED
        BY <1>3, <2>1, <2>3, <3>2, <3>3 DEF Supersedes
    <2> QED
      BY <2>3, <2>4
  <1>4. ASSUME NEW X \in O, NEW e \in X.versions, CoversDot(MergeVV(A.seen, B.seen), e.dot), e \notin V
        PROVE  \E g \in V : Supersedes(O, g, e)
    <2>1. PICK C \in {A, B} : CoversDot(C.seen, e.dot) /\ e \notin C.versions
      BY <1>2, <1>4
    <2>2. PICK g \in C.versions : Supersedes(O, g, e)
      BY <1>1, <2>1 DEF Explained
    <2>3. CASE g \in V
      BY <2>2, <2>3
    <2>4. CASE g \notin V
      <3>1. PICK h \in V : Supersedes(O, h, g)
        BY <1>3, <2>4
      <3>2. Supersedes(O, h, e)
        BY <2>2, <3>1 DEF Supersedes
      <3> QED
        BY <3>2
    <2> QED
      BY <2>3, <2>4
  <1>5. ASSUME NEW C \in {A, B}, NEW e \in C.versions
        PROVE  V # {}
    BY <1>3, <1>5
  <1> QED
    BY <1>4, <1>5 DEF V

\* Joining two of the states adds one that fits with all of them.
LEMMA JoinCausal ==
  ASSUME NEW O, Causal(O), NEW A \in O, NEW B \in O, A.versions \cup B.versions # {}
  PROVE  /\ Join(A, B).versions # {} /\ Join(A, B).versions \subseteq A.versions \cup B.versions
         /\ Join(A, B).seen = MergeVV(A.seen, B.seen)
         /\ Causal(O \cup {Join(A, B)})
  <1> DEFINE V == JoinedVersions(A.versions, A.seen, B.versions, B.seen)
             J == [versions |-> V, seen |-> MergeVV(A.seen, B.seen)]
  <1>1. Dotted(O) /\ Explained(O)
    BY DEF Causal
  <1>2. V # {} /\ V \subseteq A.versions \cup B.versions
    BY JoinExplains DEF JoinedVersions, Unsuperseded
  <1>3. Join(A, B) = J
    BY <1>2 DEF Join
  <1>4. ASSUME NEW e, e.dot \in Dot
        PROVE  /\ \A C \in {A, B} : CoversDot(C.seen, e.dot) /\ e \notin C.versions => e \notin V
               /\ CoversDot(J.seen, e.dot) <=> CoversDot(A.seen, e.dot) \/ CoversDot(B.seen, e.dot)
    BY <1>1, <1>4, JoinLoses
  <1>5. \A X \in O : \A e \in X.versions :
          CoversDot(J.seen, e.dot) /\ e \notin V => \E g \in V : Supersedes(O, g, e)
    BY JoinExplains
  <1>6. J \in Records /\ J.versions = V
    BY <1>1, <1>2, RecordElim, MergeVVType DEF Records
  <1>7. \A e \in V : \E X \in O : e \in X.versions
    BY <1>2
  <1>8. \A X \in O : \A e \in X.versions : e.dot \in Dot
    BY <1>1, RecordElim
  <1> HIDE DEF V, J
  <1>9. Dotted(O \cup {J})
    <2>1. \A e \in V : CoversDot(J.seen, e.dot)
      BY <1>1, <1>2, <1>4, <1>8 DEF Dotted
    <2>2. \A X, Y \in O \cup {J} : \A e \in X.versions, f \in Y.versions : e.dot = f.dot => e = f
      BY <1>1, <1>6, <1>7 DEF Dotted
    <2> QED
      BY <1>1, <1>6, <2>1, <2>2 DEF Dotted
  <1>10. ASSUME NEW X \in O, NEW e \in X.versions, NEW Y \in O, NEW g \in Y.versions, Supersedes(O, g, e)
         PROVE  Supersedes(O \cup {J}, g, e)
    BY <1>4, <1>6, <1>8, <1>10 DEF Supersedes
  <1>11. Explained(O \cup {J})
    <2> SUFFICES ASSUME NEW X \in O \cup {J}, NEW C \in O \cup {J}, NEW e \in X.versions,
                        CoversDot(C.seen, e.dot), e \notin C.versions
                 PROVE  \E g \in C.versions : Supersedes(O \cup {J}, g, e)
      BY DEF Explained
    <2>1. PICK Z \in O : e \in Z.versions
      BY <1>6, <1>7
    <2>2. \E g \in C.versions : Supersedes(O, g, e)
      BY <1>1, <1>5, <1>6, <2>1 DEF Explained
    <2>3. \A g \in C.versions : \E Y \in O : g \in Y.versions
      BY <1>6, <1>7
    <2> QED
      BY <1>10, <2>1, <2>2, <2>3
  <1> QED
    BY <1>2, <1>3, <1>6, <1>9, <1>11 DEF Causal, J, V

\* A write that nobody has seen, of an author whose own state A has seen all its others.
LEMMA WriteCausal ==
  ASSUME NEW O, Causal(O), NEW A \in O, NEW e \in Entry, NEW c \in VersionVector,
         CoversDot(c, e.dot), \A D \in O : ~CoversDot(D.seen, e.dot),
         \A x \in Replicas \ {e.dot.replica} : c[x] <= A.seen[x],
         \A D \in O : D.seen[e.dot.replica] <= A.seen[e.dot.replica]
  PROVE  LET J == Join(A, [versions |-> {e}, seen |-> c]) IN
         /\ e \in J.versions /\ J.versions \subseteq A.versions \cup {e}
         /\ J.seen = MergeVV(A.seen, c)
         /\ Causal(O \cup {J})
  <1> DEFINE B == [versions |-> {e}, seen |-> c]
             V == JoinedVersions(A.versions, A.seen, {e}, c)
             J == [versions |-> V, seen |-> MergeVV(A.seen, c)]
             r == e.dot.replica
  <1>1. Dotted(O) /\ Explained(O) /\ e.dot \in Dot /\ r \in Replicas /\ A.seen \in VersionVector
    BY RecordElim DEF Causal, Entry, Dot
  <1>2. \A X \in O : \A f \in X.versions : f.dot \in Dot /\ f.dot # e.dot /\ f # e /\ CoversDot(X.seen, f.dot)
    BY <1>1, RecordElim DEF Dotted
  <1>3. /\ e \in V /\ V \subseteq A.versions \cup {e}
        /\ \A f \in A.versions : f \in V <=> ~CoversDot(c, f.dot)
    BY <1>2 DEF JoinedVersions, Unsuperseded
  <1>4. Join(A, B) = J
    BY <1>3 DEF Join
  <1>5. \A d \in Dot : CoversDot(J.seen, d) <=> CoversDot(A.seen, d) \/ CoversDot(c, d)
    BY <1>1, MergeCovers
  <1>6. J \in Records /\ J.versions = V /\ J.seen = MergeVV(A.seen, c)
    BY <1>1, <1>3, RecordElim, MergeVVType DEF Records
  <1>7. ASSUME NEW X \in O, NEW f \in X.versions, CoversDot(c, f.dot)
        PROVE  CoversDot(A.seen, f.dot)
    <2>1. f.dot \in Dot /\ X.seen \in VersionVector /\ CoversDot(X.seen, f.dot)
      BY <1>1, <1>2, RecordElim
    <2>2. X.seen[r] <= A.seen[r] /\ \A x \in Replicas \ {r} : c[x] <= A.seen[x]
      OBVIOUS
    <2> QED
      BY <1>1, <1>7, <2>1, <2>2 DEF CoversDot, Dot, VersionVector
  <1> HIDE DEF V, J, r, B
  <1>8. Dotted(O \cup {J})
    <2>1. \A f \in V : CoversDot(J.seen, f.dot)
      BY <1>1, <1>2, <1>3, <1>5
    <2>2. \A X \in O : \A f \in X.versions, g \in V : f.dot = g.dot => f = g
      BY <1>1, <1>2, <1>3 DEF Dotted
    <2>3. \A f, g \in V : f.dot = g.dot => f = g
      BY <1>1, <1>2, <1>3 DEF Dotted
    <2> QED
      BY <1>1, <1>6, <2>1, <2>2, <2>3 DEF Dotted
  <1>9. ASSUME NEW X \in O, NEW f \in X.versions, NEW Y \in O, NEW g \in Y.versions, Supersedes(O, g, f)
        PROVE  Supersedes(O \cup {J}, g, f)
    <2>1. CoversDot(J.seen, g.dot) => CoversDot(A.seen, g.dot)
      BY <1>2, <1>5, <1>7
    <2>2. CoversDot(A.seen, g.dot) => CoversDot(J.seen, f.dot) /\ f \notin V
      BY <1>2, <1>3, <1>5, <1>9 DEF Supersedes
    <2> QED
      BY <1>6, <1>9, <2>1, <2>2 DEF Supersedes
  <1>10. ASSUME NEW X \in O, NEW f \in X.versions, CoversDot(J.seen, f.dot), f \notin V
         PROVE  Supersedes(O \cup {J}, e, f)
    BY <1>6, <1>10 DEF Supersedes
  <1>11. Explained(O \cup {J})
    <2> SUFFICES ASSUME NEW X \in O \cup {J}, NEW C \in O \cup {J}, NEW f \in X.versions,
                        CoversDot(C.seen, f.dot), f \notin C.versions
                 PROVE  \E g \in C.versions : Supersedes(O \cup {J}, g, f)
      BY DEF Explained
    <2>1. f # e
      BY <1>3, <1>6
    <2>2. PICK Z \in O : f \in Z.versions
      BY <1>3, <1>6, <2>1
    <2>3. CASE C = J
      BY <1>3, <1>6, <1>10, <2>2, <2>3
    <2>4. CASE C \in O
      <3>1. PICK g \in C.versions : Supersedes(O, g, f)
        BY <1>1, <2>2, <2>4 DEF Explained
      <3> QED
        BY <1>9, <2>2, <2>4, <3>1
    <2> QED
      BY <2>3, <2>4
  <1> QED
    BY <1>3, <1>4, <1>6, <1>8, <1>11 DEF Causal, B

-----------------------------------------------------------------------------
(* What the variables hold *)

\* Partial functions of paths.
PathMap(S) == UNION { [D -> S] : D \in SUBSET Paths }

\* A recorded state has versions, one per dot.
States == { s \in PathState : VersionSet(s.versions) /\ s.versions # {} }

Updates == { u \in Update : VersionSet(u.versions) /\ u.versions # {} }

Views == [st : PathMap(States), counter : Nat, hlc : Timestamp, vv : VersionVector]

Calls == [kind : {"idle", "scan", "apply", "fetch"},
          pc : {"pick", "reconcile", "gone", "copies", "join"},
          cur : Paths \cup {None}, todo : SUBSET Paths, joined : SUBSET Paths,
          losers : SUBSET { e \in Entry : ~IsTombstone(e) }, page : SUBSET Updates]

Sessions == [from : Replicas \cup {0}, said : VersionVector, heard : VersionVector,
             sent : BOOLEAN, fetched : BOOLEAN, updates : SUBSET Updates]

\* The disk and the store.
DataInv ==
  /\ file \in [Replicas -> PathMap(Contents)]
  /\ mounted \in [Replicas -> BOOLEAN]
  /\ mem \in [Replicas -> Views] /\ store \in [Replicas -> Views]
  /\ pending \in [Replicas -> SUBSET Paths]
  /\ \A r \in Replicas : pending[r] \subseteq Known(mem[r])
  /\ unflushed \in [Replicas -> BOOLEAN]
  /\ staged \in [Replicas -> SUBSET Contents]

\* What a call relies on between two of its steps: the path it is at has a state once
\* it was reconciled, so have the paths it joined, and the path it joins has an update.
CallOK(c, known) ==
  /\ c.pc # "pick" => c.cur \in Paths
  /\ c.pc = "copies" => c.cur \in known
  /\ c.joined \subseteq known
  /\ c.kind = "apply" => \A p \in c.todo : \E u \in c.page : u.path = p
  /\ c.pc = "join" => c.kind = "apply" /\ c.cur \in c.todo

CallInv ==
  /\ call \in [Replicas -> Calls]
  /\ \A r \in Replicas : CallOK(call[r], Known(mem[r]))

SessInv ==
  /\ sess \in [Replicas -> Sessions]
  /\ \A r \in Replicas : sess[r].from # r

TypeInv == DataInv /\ CallInv /\ SessInv

-----------------------------------------------------------------------------
(* Partial functions and views *)

LEMMA PathMapElim ==
  ASSUME NEW S, NEW f \in PathMap(S)
  PROVE  DOMAIN f \subseteq Paths /\ f \in [DOMAIN f -> S]
<1>1. PICK D \in SUBSET Paths : f \in [D -> S]
  BY DEF PathMap
<1> QED
  BY <1>1

LEMMA PathMapIntro ==
  ASSUME NEW S, NEW D \in SUBSET Paths, NEW f \in [D -> S]
  PROVE  f \in PathMap(S)
BY DEF PathMap

LEMMA WithType ==
  ASSUME NEW S, NEW f \in PathMap(S), NEW p \in Paths, NEW x \in S
  PROVE  /\ With(f, p, x) \in PathMap(S)
         /\ DOMAIN With(f, p, x) = DOMAIN f \cup {p}
         /\ With(f, p, x)[p] = x
         /\ \A q \in DOMAIN f : q # p => With(f, p, x)[q] = f[q]
<1>1. DOMAIN f \subseteq Paths /\ f \in [DOMAIN f -> S]
  BY PathMapElim
<1>2. With(f, p, x) \in [DOMAIN f \cup {p} -> S] /\ DOMAIN f \cup {p} \in SUBSET Paths
  BY <1>1 DEF With
<1>3. With(f, p, x) \in PathMap(S)
  BY <1>2, PathMapIntro
<1> QED
  BY <1>3 DEF With

LEMMA WithoutType ==
  ASSUME NEW S, NEW f \in PathMap(S), NEW p
  PROVE  Without(f, p) \in PathMap(S)
<1>1. DOMAIN f \subseteq Paths /\ f \in [DOMAIN f -> S]
  BY PathMapElim
<1>2. Without(f, p) \in [DOMAIN f \ {p} -> S] /\ DOMAIN f \ {p} \in SUBSET Paths
  BY <1>1 DEF Without
<1> QED
  BY <1>2, PathMapIntro

LEMMA ViewElim ==
  ASSUME NEW view \in Views
  PROVE  /\ Known(view) \subseteq Paths
         /\ \A p \in Known(view) : view.st[p] \in States
         /\ view.counter \in Nat /\ view.hlc \in Timestamp /\ view.vv \in VersionVector
<1>1. view.st \in PathMap(States)
  BY DEF Views
<1>2. DOMAIN view.st \subseteq Paths /\ view.st \in [DOMAIN view.st -> States]
  BY <1>1, PathMapElim
<1> QED
  BY <1>2 DEF Views, Known

LEMMA StateElim ==
  ASSUME NEW s \in States
  PROVE  /\ VersionSet(s.versions) /\ s.versions # {} /\ s.versions \subseteq Entry
         /\ s.seen \in VersionVector /\ s.diskSeen \in VersionVector
         /\ s.hash \in Contents \cup {None}
BY DEF States, PathState, DiskContent

\* A state's winner is one of its versions.
LEMMA WinnerType ==
  ASSUME NEW s \in States
  PROVE  /\ Winner(s.versions) \in s.versions
         /\ Winner(s.versions) \in Entry
         /\ Winner(s.versions).content \in Contents \cup {None}
<1>1. VersionSet(s.versions) /\ s.versions # {} /\ s.versions \subseteq Entry
  BY StateElim
<1>2. Winner(s.versions) \in s.versions
  BY <1>1, WinnerExists
<1> QED
  BY <1>1, <1>2 DEF Entry

\* Recording a new state of a path.
WithState(view, p, s) == [view EXCEPT !.st = With(@, p, s)]

LEMMA RecordType ==
  ASSUME NEW view \in Views, NEW p \in Paths, NEW s \in States
  PROVE  /\ WithState(view, p, s) \in Views
         /\ Known(WithState(view, p, s)) = Known(view) \cup {p}
         /\ WithState(view, p, s).counter = view.counter
         /\ WithState(view, p, s).vv = view.vv
         /\ WithState(view, p, s).st[p] = s
         /\ \A q \in Known(view) : q # p => WithState(view, p, s).st[q] = view.st[q]
<1> DEFINE w == WithState(view, p, s)
<1>1. view.st \in PathMap(States)
  BY DEF Views
<1>2. With(view.st, p, s) \in PathMap(States)
  BY <1>1, WithType
<1>3. /\ DOMAIN With(view.st, p, s) = DOMAIN view.st \cup {p}
      /\ With(view.st, p, s)[p] = s
      /\ \A q \in DOMAIN view.st : q # p => With(view.st, p, s)[q] = view.st[q]
  BY DEF With
<1>4. w.st = With(view.st, p, s) /\ w.counter = view.counter /\ w.vv = view.vv /\ w \in Views
  BY <1>2 DEF Views, WithState
<1> HIDE DEF w
<1>5. /\ Known(w) = Known(view) \cup {p} /\ w.st[p] = s
      /\ \A q \in Known(view) : q # p => w.st[q] = view.st[q]
  BY <1>3, <1>4 DEF Known
<1> QED
  BY <1>4, <1>5 DEF w

\* Recording what a path's file holds and reflects.
WithDisk(view, p, h, d) == [view EXCEPT !.st[p].hash = h, !.st[p].diskSeen = d]

LEMMA RecordDiskType ==
  ASSUME NEW view \in Views, NEW p \in Known(view),
         NEW h \in Contents \cup {None}, NEW d \in VersionVector
  PROVE  /\ WithDisk(view, p, h, d) \in Views
         /\ Known(WithDisk(view, p, h, d)) = Known(view)
         /\ WithDisk(view, p, h, d).counter = view.counter
         /\ WithDisk(view, p, h, d).vv = view.vv
         /\ \A q \in Known(view) :
              /\ WithDisk(view, p, h, d).st[q].versions = view.st[q].versions
              /\ WithDisk(view, p, h, d).st[q].seen = view.st[q].seen
              /\ WithDisk(view, p, h, d).st[q].diskSeen
                   = IF q = p THEN d ELSE view.st[q].diskSeen
<1> DEFINE w == WithDisk(view, p, h, d)
           s == [view.st[p] EXCEPT !.hash = h, !.diskSeen = d]
<1>1. view.st \in PathMap(States) /\ p \in DOMAIN view.st
  BY DEF Views, Known
<1>2. DOMAIN view.st \in SUBSET Paths /\ view.st \in [DOMAIN view.st -> States]
  BY <1>1, PathMapElim
<1>3. view.st[p] \in States
  BY <1>1, <1>2
<1>4. /\ s \in States /\ s.versions = view.st[p].versions
      /\ s.seen = view.st[p].seen /\ s.diskSeen = d
  BY <1>3 DEF States, PathState, DiskContent
<1>5. w.st = [view.st EXCEPT ![p] = s] /\ w = [view EXCEPT !.st = [view.st EXCEPT ![p] = s]]
  BY <1>1, <1>2 DEF Views, WithDisk
<1> HIDE DEF s, w
<1>6. w.st \in [DOMAIN view.st -> States]
  BY <1>1, <1>2, <1>4, <1>5
<1>7. w.st \in PathMap(States)
  BY <1>2, <1>6, PathMapIntro
<1>8. w \in Views /\ w.counter = view.counter /\ w.vv = view.vv
  BY <1>5, <1>7 DEF Views
<1>9. Known(w) = Known(view)
  BY <1>6 DEF Known
<1>10. \A q \in Known(view) : w.st[q] = IF q = p THEN s ELSE view.st[q]
  BY <1>2, <1>5 DEF Known
<1>11. \A q \in Known(view) : /\ w.st[q].versions = view.st[q].versions
                             /\ w.st[q].seen = view.st[q].seen
                             /\ w.st[q].diskSeen = IF q = p THEN d ELSE view.st[q].diskSeen
  BY <1>4, <1>10
<1> QED
  BY <1>8, <1>9, <1>11 DEF w

\* The same when only the recorded hash changes.
WithHash(view, p, h) == [view EXCEPT !.st[p].hash = h]

LEMMA RecordHashType ==
  ASSUME NEW view \in Views, NEW p \in Known(view),
         NEW h \in Contents \cup {None}
  PROVE  /\ WithHash(view, p, h) \in Views
         /\ Known(WithHash(view, p, h)) = Known(view)
         /\ WithHash(view, p, h).counter = view.counter
         /\ WithHash(view, p, h).vv = view.vv
         /\ \A q \in Known(view) :
              /\ WithHash(view, p, h).st[q].versions = view.st[q].versions
              /\ WithHash(view, p, h).st[q].seen = view.st[q].seen
              /\ WithHash(view, p, h).st[q].diskSeen = view.st[q].diskSeen
<1> DEFINE w == WithHash(view, p, h)
           s == [view.st[p] EXCEPT !.hash = h]
<1>1. view.st \in PathMap(States) /\ p \in DOMAIN view.st
  BY DEF Views, Known
<1>2. DOMAIN view.st \in SUBSET Paths /\ view.st \in [DOMAIN view.st -> States]
  BY <1>1, PathMapElim
<1>3. view.st[p] \in States
  BY <1>1, <1>2
<1>4. /\ s \in States /\ s.versions = view.st[p].versions
      /\ s.seen = view.st[p].seen /\ s.diskSeen = view.st[p].diskSeen
  BY <1>3 DEF States, PathState, DiskContent
<1>5. w.st = [view.st EXCEPT ![p] = s] /\ w = [view EXCEPT !.st = [view.st EXCEPT ![p] = s]]
  BY <1>1, <1>2 DEF Views, WithHash
<1> HIDE DEF w, s
<1>6. w.st \in [DOMAIN view.st -> States]
  BY <1>1, <1>2, <1>4, <1>5
<1>7. w.st \in PathMap(States)
  BY <1>2, <1>6, PathMapIntro
<1>8. w \in Views /\ w.counter = view.counter /\ w.vv = view.vv
  BY <1>5, <1>7 DEF Views
<1>9. Known(w) = Known(view)
  BY <1>6 DEF Known
<1>10. \A q \in Known(view) : w.st[q] = IF q = p THEN s ELSE view.st[q]
  BY <1>2, <1>5 DEF Known
<1>11. \A q \in Known(view) : /\ w.st[q].versions = view.st[q].versions
                             /\ w.st[q].seen = view.st[q].seen
                             /\ w.st[q].diskSeen = view.st[q].diskSeen
  BY <1>4, <1>10
<1> QED
  BY <1>8, <1>9, <1>11 DEF w

\* The losers of a recorded state are live versions of it.
LEMMA LosersType ==
  ASSUME NEW s \in States, NEW p
  PROVE  Losers(p, s) \subseteq { e \in Entry : ~IsTombstone(e) } /\ Losers(p, s) \subseteq s.versions
<1>1. s.versions \subseteq Entry
  BY StateElim
<1> QED
  BY <1>1 DEF Losers, NeedsCopy

\* What a file may be said to reflect is part of what its path has merged.
LEMMA DiskSeenType ==
  ASSUME NEW view \in Views, NEW p \in Known(view), NEW s \in States
  PROVE  DiskSeen(view, p, s) \in VersionVector /\ Covers(s.seen, DiskSeen(view, p, s))
<1> DEFINE pinned(q) == { e.dot.counter : e \in { l \in Uncopied(view, p, s) : l.dot.replica = q } }
           least(q)  == CHOOSE n \in pinned(q) : \A m \in pinned(q) : n <= m
<1>1. s.seen \in VersionVector
  BY StateElim
<1>2. ASSUME NEW q \in Replicas, pinned(q) # {}
      PROVE  least(q) \in Nat \ {0}
  <2>1. \A e \in Uncopied(view, p, s) : e.dot.counter \in Nat \ {0}
    BY LosersType DEF Uncopied, Entry, Dot
  <2>2. pinned(q) \subseteq Nat \ {0}
    BY <2>1
  <2>3. \E n \in pinned(q) : \A m \in pinned(q) : n <= m
    <3>1. pinned(q) \in SUBSET Nat
      BY <2>2
    <3> HIDE DEF pinned
    <3> QED
      BY <1>2, <3>1, LeastNat
  <2> HIDE DEF pinned
  <2>4. least(q) \in pinned(q)
    BY <2>3
  <2> QED
    BY <2>2, <2>4
<1>3. DiskSeen(view, p, s) = [q \in Replicas |->
        IF pinned(q) # {} /\ least(q) - 1 < s.seen[q] THEN least(q) - 1 ELSE s.seen[q]]
  BY Zenon DEF DiskSeen
<1> HIDE DEF pinned, least
<1> QED
  BY <1>1, <1>2, <1>3 DEF VersionVector, Covers

LEMMA NoStateType ==
  /\ NoState.versions = {} /\ NoState.seen = NoVersions /\ NoState.diskSeen = NoVersions
  /\ NoState.hash = None
BY DEF NoState

\* A path's state, or none, as a join takes it.
LEMMA StateOfType ==
  ASSUME NEW view \in Views, NEW p
  PROVE  LET s == StateOf(view, p)
         IN  /\ VersionSet(s.versions)
             /\ s.versions = {} => s.seen = NoVersions
             /\ s.seen \in VersionVector /\ s.diskSeen \in VersionVector
             /\ s.hash \in Contents \cup {None}
             /\ s \in PathState
<1>1. CASE p \in Known(view)
  <2>1. view.st[p] \in States
    BY <1>1, ViewElim
  <2> QED
    BY <1>1, <2>1, StateElim DEF StateOf, States
<1>2. CASE p \notin Known(view)
  <2>1. VersionSet({})
    BY FS_EmptySet DEF VersionSet
  <2>2. NoState \in PathState
    BY NoVersionsType DEF NoState, PathState, DiskContent
  <2> QED
    BY <1>2, <2>1, <2>2, NoStateType, NoVersionsType DEF StateOf
<1> QED
  BY <1>1, <1>2

\* A view whose path p has a new state and whose metadata is new.
LEMMA RecordWriteType ==
  ASSUME NEW view \in Views, NEW p \in Paths, NEW t \in States,
         NEW n \in Nat, NEW h \in Timestamp, NEW v \in VersionVector,
         NEW w, w = [st |-> With(view.st, p, t), counter |-> n, hlc |-> h, vv |-> v]
  PROVE  /\ w \in Views /\ Known(w) = Known(view) \cup {p}
         /\ w.counter = n /\ w.vv = v
         /\ w.st[p] = t /\ \A q \in Known(view) : q # p => w.st[q] = view.st[q]
<1>1. view.st \in PathMap(States)
  BY DEF Views
<1>2. With(view.st, p, t) \in PathMap(States)
  BY <1>1, WithType
<1>3. /\ DOMAIN With(view.st, p, t) = DOMAIN view.st \cup {p}
      /\ With(view.st, p, t)[p] = t
      /\ \A q \in DOMAIN view.st : q # p => With(view.st, p, t)[q] = view.st[q]
  BY DEF With
<1> QED
  BY <1>2, <1>3 DEF Views, Known

NextDot(r, view) == [replica |-> r, counter |-> view.counter + 1]

\* What the file at p reflects once it holds a local write.
Reflects(r, view, p) == AddDot(StateOf(view, p).diskSeen, NextDot(r, view))

\* A local write records one path and takes the replica's next dot.
LEMMA LocalWriteType ==
  ASSUME NEW r \in Replicas, NEW view \in Views, NEW p \in Paths,
         NEW content \in Contents \cup {None}, NEW now \in Clocks
  PROVE  /\ LocalWrite(r, view, p, content, now) \in Views
         /\ Known(LocalWrite(r, view, p, content, now)) = Known(view) \cup {p}
         /\ LocalWrite(r, view, p, content, now).counter = view.counter + 1
         /\ LocalWrite(r, view, p, content, now).vv = AddDot(view.vv, NextDot(r, view))
         /\ LocalWrite(r, view, p, content, now).st[p] \in States
         /\ LocalWrite(r, view, p, content, now).st[p].seen
              \in {StateOf(view, p).seen, MergeVV(StateOf(view, p).seen, Reflects(r, view, p))}
         /\ LocalWrite(r, view, p, content, now).st[p].diskSeen = Reflects(r, view, p)
         /\ \A q \in Known(view) :
              q # p => LocalWrite(r, view, p, content, now).st[q] = view.st[q]
<1> DEFINE s   == StateOf(view, p)
           dot == [replica |-> r, counter |-> view.counter + 1]
           hlc == Tick(view.hlc, now)
           new == AddDot(s.diskSeen, dot)
           e   == [dot |-> dot, content |-> content, hlc |-> hlc]
           in  == [versions |-> {e}, seen |-> new]
           all == Join(s, in)
           t   == [versions |-> all.versions, seen |-> all.seen,
                   hash |-> content, diskSeen |-> new]
           w   == LocalWrite(r, view, p, content, now)
<1>1. /\ view.counter \in Nat /\ view.hlc \in Timestamp /\ view.vv \in VersionVector
      /\ view.st \in PathMap(States)
  BY DEF Views
<1>2. dot \in Dot
  BY <1>1 DEF Dot
<1>3. hlc \in Timestamp
  BY <1>1, ReplicaAssumption, TickType
<1>4. VersionSet({e})
  <2>1. e \in Entry
    BY <1>2, <1>3 DEF Entry
  <2> QED
    BY <2>1, FS_Singleton DEF VersionSet
<1>5. /\ VersionSet(s.versions) /\ (s.versions = {} => s.seen = NoVersions)
      /\ s.seen \in VersionVector /\ s.diskSeen \in VersionVector
  BY StateOfType
<1>6. new \in VersionVector /\ AddDot(view.vv, dot) \in VersionVector
  BY <1>1, <1>2, <1>5, AddDotType
<1>7. in.versions = {e} /\ in.seen = new
  OBVIOUS
<1>8. /\ VersionSet(all.versions) /\ all.versions # {}
      /\ all.seen \in {s.seen, MergeVV(s.seen, new)}
  <2>1. VersionSet(in.versions) /\ in.versions # {} /\ in.seen \in VersionVector
    BY <1>4, <1>6
  <2> HIDE DEF s, in
  <2>2. /\ VersionSet(all.versions) /\ all.versions # {}
        /\ all.seen \in {s.seen, MergeVV(s.seen, in.seen)}
    BY <1>5, <2>1, JoinType
  <2> QED
    BY <1>7, <2>2
<1>9. all.seen \in VersionVector
  BY <1>5, <1>6, <1>8, MergeVVType
<1>10. t \in States
  <2>1. all.versions \in SUBSET Entry
    BY <1>8 DEF VersionSet
  <2> HIDE DEF all, new
  <2> QED
    BY <1>6, <1>8, <1>9, <2>1 DEF States, PathState, DiskContent
<1>11. w = [st |-> With(view.st, p, t), counter |-> view.counter + 1,
            hlc |-> hlc, vv |-> AddDot(view.vv, dot)]
  BY DEF LocalWrite
<1>12. t.seen = all.seen /\ t.diskSeen = new
  OBVIOUS
<1> HIDE DEF t, all, hlc, new, dot, s, w
<1>13. /\ w \in Views /\ Known(w) = Known(view) \cup {p}
       /\ w.counter = view.counter + 1 /\ w.vv = AddDot(view.vv, dot)
       /\ w.st[p] = t /\ \A q \in Known(view) : q # p => w.st[q] = view.st[q]
  BY <1>1, <1>3, <1>6, <1>10, <1>11, RecordWriteType
<1> QED
  BY <1>8, <1>10, <1>12, <1>13 DEF w, new, dot, s, Reflects, NextDot

-----------------------------------------------------------------------------
(* Writing back *)

\* What commit_state does to the store, for a view that forgets no path.
LEMMA CommitStateType ==
  ASSUME DataInv, NEW r \in Replicas, NEW view \in Views, NEW p \in Known(view), NEW b \in BOOLEAN,
         Known(mem[r]) \subseteq Known(view), CommitState(r, view, p, b)
  PROVE  /\ mem' = [mem EXCEPT ![r] = view] /\ mem' \in [Replicas -> Views]
         /\ store' \in {store, [store EXCEPT ![r] = view]} /\ store' \in [Replicas -> Views]
         /\ pending' \in [Replicas -> SUBSET Paths]
         /\ \A q \in Replicas : pending'[q] \subseteq Known(mem'[q])
         /\ \A q \in Replicas : Known(mem[q]) \subseteq Known(mem'[q])
         /\ unflushed' \in [Replicas -> BOOLEAN]
         /\ pending'[r] = {} => store' = [store EXCEPT ![r] = view]
         /\ \A q \in Replicas \ {r} : pending'[q] = pending[q]
<1> DEFINE dirty == pending[r] \cup {p}
           full  == Cardinality(dirty) >= MaxPending
<1> USE DEF DataInv
<1>1. /\ mem' = [mem EXCEPT ![r] = view]
      /\ store' = IF full THEN [store EXCEPT ![r] = view] ELSE store
      /\ pending' = [pending EXCEPT ![r] = IF full THEN {} ELSE dirty]
      /\ unflushed' = [unflushed EXCEPT ![r] = b \/ (@ /\ ~full)]
  BY DEF CommitState
<1> HIDE DEF full
<1>2. dirty \subseteq Known(view) /\ dirty \in SUBSET Paths /\ dirty # {}
  BY ViewElim
<1> HIDE DEF dirty
<1> QED
  BY <1>1, <1>2

LEMMA FlushType ==
  ASSUME DataInv, NEW r \in Replicas, Flush(r)
  PROVE  /\ store' \in {store, [store EXCEPT ![r] = mem[r]]} /\ store' \in [Replicas -> Views]
         /\ pending' \in [Replicas -> SUBSET Paths]
         /\ pending'[r] = {} /\ \A q \in Replicas \ {r} : pending'[q] = pending[q]
         /\ \A q \in Replicas : pending'[q] \subseteq Known(mem[q])
         /\ unflushed' \in [Replicas -> BOOLEAN]
         /\ pending[r] = {} => store' = store
         /\ pending[r] # {} => store' = [store EXCEPT ![r] = mem[r]]
BY DEF DataInv, Flush

-----------------------------------------------------------------------------
(* What a step leaves of the invariant's parts *)

LEMMA OnDiskType ==
  ASSUME DataInv, NEW r \in Replicas, NEW p
  PROVE  OnDisk(r, p) \in Contents \cup {None}
<1>1. file[r] \in PathMap(Contents)
  BY DEF DataInv
<1>2. file[r] \in [DOMAIN file[r] -> Contents]
  BY <1>1, PathMapElim
<1> QED
  BY <1>2 DEF OnDisk

LEMMA CurrentState ==
  ASSUME DataInv, NEW r \in Replicas, NEW p \in Known(mem[r])
  PROVE  mem[r].st[p] \in States /\ p \in Paths
BY ViewElim DEF DataInv

\* Nothing a call relies on is lost while states are only added.
LEMMA CallKept ==
  ASSUME CallInv, \A q \in Replicas : Known(mem[q]) \subseteq Known(mem'[q]),
         NEW r \in Replicas, NEW c \in Calls, CallOK(c, Known(mem'[r])),
         call' = [call EXCEPT ![r] = c]
  PROVE  CallInv'
<1>1. call' \in [Replicas -> Calls] /\ call'[r] = c /\ \A q \in Replicas \ {r} : call'[q] = call[q]
  BY DEF CallInv
<1>2. ASSUME NEW q \in Replicas \ {r} PROVE CallOK(call'[q], Known(mem'[q]))
  BY <1>1 DEF CallInv, CallOK
<1> QED
  BY <1>1, <1>2 DEF CallInv

LEMMA CallUnchanged ==
  ASSUME CallInv, \A q \in Replicas : Known(mem[q]) \subseteq Known(mem'[q]), call' = call
  PROVE  CallInv'
BY DEF CallInv, CallOK

LEMMA LeaveType ==
  ASSUME CallInv, \A q \in Replicas : Known(mem[q]) \subseteq Known(mem'[q]),
         NEW r \in Replicas, call[r].pc # "pick", Leave(r)
  PROVE  CallInv'
<1>1. call[r] \in Calls /\ CallOK(call[r], Known(mem[r])) /\ Known(mem[r]) \subseteq Known(mem'[r])
  BY DEF CallInv
<1>2. CASE call[r].kind = "apply" /\ call[r].cur \in call[r].todo
  <2> DEFINE c == [call[r] EXCEPT !.pc = "join", !.losers = {}]
  <2>1. call' = [call EXCEPT ![r] = c]
    BY <1>2 DEF Leave
  <2>2. c \in Calls /\ CallOK(c, Known(mem'[r]))
    BY <1>1, <1>2 DEF Calls, CallOK
  <2> HIDE DEF c
  <2> QED
    BY <2>1, <2>2, CallKept
<1>3. CASE ~(call[r].kind = "apply" /\ call[r].cur \in call[r].todo)
  <2> DEFINE c == [call[r] EXCEPT !.pc = "pick", !.cur = None, !.losers = {}, !.todo = @ \ {call[r].cur}]
  <2>1. call' = [call EXCEPT ![r] = c]
    BY <1>3, Zenon DEF Leave
  <2>2. c \in Calls /\ CallOK(c, Known(mem'[r]))
    BY <1>1 DEF Calls, CallOK
  <2> HIDE DEF c
  <2> QED
    BY <2>1, <2>2, CallKept
<1> QED
  BY <1>2, <1>3

LEMMA ToCopiesType ==
  ASSUME CallInv, \A q \in Replicas : Known(mem[q]) \subseteq Known(mem'[q]),
         NEW r \in Replicas, call[r].pc # "pick", call[r].cur \in Known(mem'[r]),
         NEW s \in States, ToCopies(r, s)
  PROVE  CallInv'
<1> DEFINE c == [call[r] EXCEPT !.pc = "copies", !.losers = Losers(call[r].cur, s)]
<1>1. call[r] \in Calls /\ CallOK(call[r], Known(mem[r])) /\ Known(mem[r]) \subseteq Known(mem'[r])
  BY DEF CallInv
<1>2. call' = [call EXCEPT ![r] = c]
  BY DEF ToCopies, CallInv
<1>3. c \in Calls /\ CallOK(c, Known(mem'[r]))
  BY <1>1, LosersType DEF Calls, CallOK
<1> HIDE DEF c
<1> QED
  BY <1>2, <1>3, CallKept

LEMMA IdleType == Idle \in Calls /\ \A known : CallOK(Idle, known)
BY DEF Idle, Calls, CallOK

LEMMA NoSessionType ==
  /\ NoSession \in Sessions /\ NoSession.from = 0 /\ NoSession.heard = NoVersions
  /\ NoSession.updates = {} /\ 0 \notin Replicas
BY NoVersionsType, ReplicasAssumption DEF NoSession, Sessions

LEMMA PlaceType ==
  ASSUME DataInv, NEW r \in Replicas, NEW p \in Paths, NEW c \in Contents, Place(r, p, c)
  PROVE  file' \in [Replicas -> PathMap(Contents)] /\ staged' \in [Replicas -> SUBSET Contents]
<1>1. file[r] \in PathMap(Contents)
  BY DEF DataInv
<1>2. With(file[r], p, c) \in PathMap(Contents)
  BY <1>1, WithType
<1> QED
  BY <1>2 DEF Place, DataInv

-----------------------------------------------------------------------------
(* Type correctness, one action at a time *)

LEMMA InitType == Init => TypeInv
<1> SUFFICES ASSUME Init PROVE TypeInv
  OBVIOUS
<1>1. [p \in {} |-> None] \in PathMap(Contents) /\ [p \in {} |-> NoState] \in PathMap(States)
  <2>1. [p \in {} |-> None] \in [{} -> Contents] /\ [p \in {} |-> NoState] \in [{} -> States]
    OBVIOUS
  <2>2. {} \in SUBSET Paths
    OBVIOUS
  <2> QED
    BY <2>1, <2>2, PathMapIntro, Zenon
<1>2. EmptyView \in Views
  BY <1>1, NoVersionsType DEF EmptyView, Views, Epoch, Timestamp
<1>3. DataInv
  BY <1>1, <1>2 DEF Init, DataInv
<1>4. CallInv
  BY IdleType DEF Init, CallInv
<1>5. SessInv
  BY NoSessionType DEF Init, SessInv
<1> QED
  BY <1>3, <1>4, <1>5 DEF TypeInv

LEMMA UserEditType ==
  ASSUME TypeInv, NEW r \in Replicas, UserEdit(r)
  PROVE  TypeInv'
<1>1. file[r] \in PathMap(Contents)
  BY DEF TypeInv, DataInv
<1>2. file' \in [Replicas -> PathMap(Contents)]
  <2>1. ASSUME NEW p \in { Own(f) : f \in Files } \cup Strays, NEW c \in Types[r], UserWrite(r, p, c)
        PROVE  file' \in [Replicas -> PathMap(Contents)]
    <3>1. p \in Paths /\ c \in Contents
      BY ReplicaAssumption DEF Own, Paths
    <3>2. With(file[r], p, c) \in PathMap(Contents)
      BY <1>1, <3>1, WithType
    <3> QED
      BY <2>1, <3>2 DEF UserWrite, TypeInv, DataInv
  <2>2. ASSUME NEW p \in DOMAIN file[r], UserDelete(r, p)
        PROVE  file' \in [Replicas -> PathMap(Contents)]
    <3>1. Without(file[r], p) \in PathMap(Contents)
      BY <1>1, WithoutType
    <3> QED
      BY <2>2, <3>1 DEF UserDelete, TypeInv, DataInv
  <2> QED
    BY <2>1, <2>2 DEF UserEdit
<1>3. UNCHANGED <<mounted, staged, mem, store, pending, unflushed, call, sess>>
  BY DEF UserEdit, UserWrite, UserDelete
<1> QED
  BY <1>2, <1>3 DEF TypeInv, DataInv, CallInv, SessInv

LEMMA MountType ==
  ASSUME TypeInv, NEW r \in Replicas, Unmount(r) \/ Mount(r)
  PROVE  TypeInv'
<1>1. /\ mounted' \in [Replicas -> BOOLEAN]
      /\ UNCHANGED <<file, staged, mem, store, pending, unflushed, call, sess>>
  BY DEF Unmount, Mount, TypeInv, DataInv
<1> QED
  BY <1>1 DEF TypeInv, DataInv, CallInv, SessInv

LEMMA CrashType ==
  ASSUME TypeInv, NEW r \in Replicas, Crash(r)
  PROVE  TypeInv'
<1> USE DEF TypeInv
<1>1. DataInv'
  <2>1. staged' \in [Replicas -> SUBSET Contents]
    BY DEF Crash, DataInv
  <2>2. /\ mem' \in [Replicas -> Views] /\ pending' \in [Replicas -> SUBSET Paths]
        /\ \A q \in Replicas : pending'[q] \subseteq Known(mem'[q])
        /\ unflushed' \in [Replicas -> BOOLEAN]
    BY DEF Crash, DataInv
  <2> QED
    BY <2>1, <2>2 DEF Crash, DataInv
<1>2. CallInv'
  BY IdleType DEF Crash, CallInv, DataInv
<1>3. SessInv'
  BY NoSessionType DEF Crash, SessInv
<1> QED
  BY <1>1, <1>2, <1>3

LEMMA StartCallType ==
  ASSUME TypeInv, NEW r \in Replicas, NEW kind \in {"scan", "apply", "fetch"},
         NEW todo \in SUBSET Paths, NEW page \in SUBSET Updates,
         kind = "apply" => \A p \in todo : \E u \in page : u.path = p,
         StartCall(r, kind, todo, page)
  PROVE  TypeInv'
<1> USE DEF TypeInv
<1> DEFINE c == [Idle EXCEPT !.kind = kind, !.todo = todo, !.page = page]
<1>1. call' = [call EXCEPT ![r] = c] /\ mem' = mem
  BY DEF StartCall
<1>2. c \in Calls /\ CallOK(c, Known(mem'[r]))
  BY DEF Idle, Calls, CallOK
<1> HIDE DEF c
<1>3. CallInv'
  BY <1>1, <1>2, CallKept
<1> QED
  BY <1>3 DEF StartCall, disks, DataInv, SessInv

LEMMA StartScanType ==
  ASSUME TypeInv, NEW r \in Replicas, StartScan(r)
  PROVE  TypeInv'
<1> DEFINE todo == (IF mounted[r] THEN DOMAIN file[r] ELSE {}) \cup Known(mem[r])
<1>1. todo \in SUBSET Paths
  BY PathMapElim, ViewElim DEF TypeInv, DataInv
<1>2. StartCall(r, "scan", todo, {})
  BY DEF StartScan
<1> HIDE DEF todo
<1> QED
  BY <1>1, <1>2, StartCallType

LEMMA StartApplyType ==
  ASSUME TypeInv, NEW r \in Replicas, StartApply(r)
  PROVE  TypeInv'
<1>1. PICK page \in SUBSET sess[r].updates : StartCall(r, "apply", { u.path : u \in page }, page)
  BY DEF StartApply
<1>2. page \in SUBSET Updates
  BY DEF TypeInv, SessInv, Sessions
<1>3. { u.path : u \in page } \in SUBSET Paths
  BY <1>2 DEF Updates, Update
<1>4. \A p \in { u.path : u \in page } : \E u \in page : u.path = p
  OBVIOUS
<1> QED
  BY <1>1, <1>2, <1>3, <1>4, StartCallType

LEMMA StartFetchType ==
  ASSUME TypeInv, NEW r \in Replicas, StartFetch(r)
  PROVE  TypeInv'
<1>1. Known(mem[r]) \in SUBSET Paths
  BY ViewElim DEF TypeInv, DataInv
<1> QED
  BY <1>1, StartCallType DEF StartFetch

\* A step that commits one state of r, keeps its files and moves the call on.
LEMMA DataCommit ==
  ASSUME DataInv, NEW r \in Replicas, NEW view \in Views, NEW p \in Known(view),
         NEW b \in BOOLEAN, Known(mem[r]) \subseteq Known(view), CommitState(r, view, p, b),
         file' \in [Replicas -> PathMap(Contents)], staged' \in [Replicas -> SUBSET Contents],
         mounted' = mounted
  PROVE  /\ DataInv' /\ mem'[r] = view
         /\ \A q \in Replicas : Known(mem[q]) \subseteq Known(mem'[q])
<1>1. mem' = [mem EXCEPT ![r] = view] /\ mem' \in [Replicas -> Views]
  BY CommitStateType
<1>2. store' \in [Replicas -> Views] /\ unflushed' \in [Replicas -> BOOLEAN]
  BY CommitStateType
<1>3. /\ pending' \in [Replicas -> SUBSET Paths]
      /\ \A q \in Replicas : pending'[q] \subseteq Known(mem'[q])
      /\ \A q \in Replicas : Known(mem[q]) \subseteq Known(mem'[q])
  BY CommitStateType
<1> QED
  BY <1>1, <1>2, <1>3 DEF DataInv

LEMMA TakeType ==
  ASSUME TypeInv, NEW r \in Replicas, NEW p \in call[r].todo, Take(r, p)
  PROVE  TypeInv'
<1> USE DEF TypeInv
<1>1. /\ mem' \in [Replicas -> Views]
      /\ \A q \in Replicas : Known(mem'[q]) = Known(mem[q])
  <2>1. CASE call[r].kind = "apply"
    <3>1. PICK now \in Clocks :
            \E h \in { Clamped(e.hlc, now) : e \in UpdateOf(r, p).versions } \cup {mem[r].hlc} :
              mem' = [mem EXCEPT ![r].hlc = h]
      BY <2>1 DEF Take
    <3> PICK h \in { Clamped(e.hlc, now) : e \in UpdateOf(r, p).versions } \cup {mem[r].hlc} :
          mem' = [mem EXCEPT ![r].hlc = h]
      BY <3>1
    <3>2. UpdateOf(r, p) \in call[r].page
      BY <2>1 DEF CallInv, CallOK, UpdateOf
    <3>3. \A e \in UpdateOf(r, p).versions : e.hlc \in Timestamp
      BY <3>2 DEF CallInv, Calls, Updates, Update, Entry
    <3>4. now \in Nat
      BY ReplicaAssumption
    <3>5. h \in Timestamp
      BY <3>3, <3>4, ClampedType DEF DataInv, Views
    <3>6. mem \in [Replicas -> Views]
      BY DEF DataInv
    <3>7. [mem[r] EXCEPT !.hlc = h] \in Views /\ [mem[r] EXCEPT !.hlc = h].st = mem[r].st
      BY <3>5, <3>6 DEF Views
    <3>8. mem' = [mem EXCEPT ![r] = [mem[r] EXCEPT !.hlc = h]]
      BY <3>6
    <3> QED
      BY <3>6, <3>7, <3>8 DEF Known
  <2>2. CASE call[r].kind # "apply"
    BY <2>2 DEF Take, DataInv
  <2> QED
    BY <2>1, <2>2
<1>2. DataInv'
  BY <1>1 DEF Take, disks, DataInv
<1>3. CallInv'
  <2> DEFINE c == [call[r] EXCEPT !.pc = "reconcile", !.cur = p]
  <2>1. call' = [call EXCEPT ![r] = c]
    BY DEF Take, CallInv
  <2>2. call[r] \in Calls /\ CallOK(call[r], Known(mem[r]))
    BY DEF CallInv
  <2>3. c \in Calls /\ CallOK(c, Known(mem'[r]))
    BY <1>1, <2>2 DEF Calls, CallOK
  <2> HIDE DEF c
  <2> QED
    BY <1>1, <2>1, <2>3, CallKept
<1>4. SessInv'
  BY DEF Take, SessInv
<1> QED
  BY <1>2, <1>3, <1>4

\* Both records of a local write, one of a file and one of a file that is gone.
LEMMA RecordsWrite ==
  ASSUME TypeInv, NEW r \in Replicas, ReconcileDelete(r) \/ ReconcileEdit(r)
  PROVE  \E c \in Contents \cup {None} : RecordWrite(r, c)
<1>1. OnDisk(r, call[r].cur) \in Contents \cup {None}
  BY OnDiskType DEF TypeInv
<1> QED
  BY <1>1 DEF ReconcileDelete, ReconcileEdit

\* Missing a file only moves the call on.
LEMMA MissingMoves ==
  ASSUME TypeInv, NEW r \in Replicas, ReconcileMissing(r)
  PROVE  /\ UNCHANGED <<file, mounted, staged, mem, store, pending, unflushed, sess, left>>
         /\ \A x \in Replicas \ {r} : call'[x] = call[x]
         /\ call' = [call EXCEPT ![r] = [call[r] EXCEPT !.pc = "gone"]]
         /\ call[r].pc = "reconcile" /\ call'[r].pc = "gone" /\ call'[r].kind = call[r].kind
         /\ call'[r].cur = call[r].cur /\ call'[r].todo = call[r].todo /\ call'[r].joined = call[r].joined
         /\ call'[r].losers = call[r].losers /\ call'[r].page = call[r].page
<1>1. call \in [Replicas -> Calls] /\ call[r] \in Calls
  BY DEF TypeInv, CallInv
<1>2. call' = [call EXCEPT ![r] = [call[r] EXCEPT !.pc = "gone"]] /\ call[r].pc = "reconcile"
  BY DEF ReconcileMissing
<1>3. /\ call'[r] = [call[r] EXCEPT !.pc = "gone"]
      /\ \A x \in Replicas \ {r} : call'[x] = call[x]
  BY <1>1, <1>2
<1> QED
  BY <1>1, <1>2, <1>3 DEF ReconcileMissing, disks, Calls

LEMMA ReconcileType ==
  ASSUME TypeInv, NEW r \in Replicas,
         ReconcileNothing(r) \/ ReconcileSame(r) \/ ReconcileMaterialised(r) \/ ReconcileMissing(r)
           \/ ReconcilePaused(r) \/ ReconcileDelete(r) \/ ReconcileEdit(r)
  PROVE  TypeInv'
<1> USE DEF TypeInv
<1> DEFINE p == call[r].cur
<1>1. p \in Paths /\ call[r].pc \in {"reconcile", "gone"} /\ call[r].pc # "pick"
  BY DEF ReconcileNothing, ReconcileSame, ReconcileMaterialised, ReconcileMissing, ReconcilePaused,
         ReconcileDelete, ReconcileEdit, CallInv, CallOK
<1>2. OnDisk(r, p) \in Contents \cup {None}
  BY OnDiskType
<1>3. mem[r] \in Views
  BY DEF DataInv
<1>4. CASE ReconcileNothing(r)
  <2>1. CallInv'
    BY <1>1, <1>4, LeaveType DEF ReconcileNothing
  <2> QED
    BY <1>4, <2>1 DEF ReconcileNothing, disks, DataInv, SessInv
<1>5. CASE ReconcileSame(r)
  <2>1. p \in Known(mem[r]) /\ mem[r].st[p] \in States /\ mem' = mem
    BY <1>5, CurrentState DEF ReconcileSame
  <2>2. CallInv'
    BY <1>1, <1>5, <2>1, ToCopiesType DEF ReconcileSame
  <2> QED
    BY <1>5, <2>2 DEF ReconcileSame, disks, DataInv, SessInv
<1>6. CASE ReconcileMaterialised(r)
  <2> DEFINE view == WithHash(mem[r], p, OnDisk(r, p))
  <2>1. p \in Known(mem[r]) /\ mem[r].st[p] \in States
    BY <1>6, CurrentState DEF ReconcileMaterialised, Materialised
  <2>2. view \in Views /\ Known(view) = Known(mem[r])
    BY <1>2, <1>3, <2>1, RecordHashType
  <2>3. CommitState(r, view, p, FALSE) /\ ToCopies(r, mem[r].st[p])
    BY <1>6 DEF ReconcileMaterialised, WithHash
  <2>4. UNCHANGED <<file, mounted, staged, sess>>
    BY <1>6 DEF ReconcileMaterialised, disks
  <2>5. file' \in [Replicas -> PathMap(Contents)] /\ staged' \in [Replicas -> SUBSET Contents]
    BY <2>4 DEF DataInv
  <2> HIDE DEF view
  <2>6. DataInv' /\ mem'[r] = view /\ \A q \in Replicas : Known(mem[q]) \subseteq Known(mem'[q])
    BY <2>1, <2>2, <2>3, <2>4, <2>5, DataCommit
  <2>7. CallInv'
    BY <1>1, <2>1, <2>2, <2>3, <2>6, ToCopiesType
  <2> QED
    BY <2>4, <2>6, <2>7 DEF SessInv
<1>7. CASE ReconcilePaused(r)
  <2>1. Flush(r) /\ UNCHANGED <<file, mounted, staged, mem>>
    BY <1>7 DEF ReconcilePaused, disks
  <2>2. DataInv'
    BY <2>1, FlushType DEF DataInv
  <2>3. CallInv'
    BY <1>7, <2>1, IdleType DEF ReconcilePaused, CallInv
  <2>4. SessInv'
    BY <1>7, NoSessionType DEF ReconcilePaused, SessInv
  <2> QED
    BY <2>2, <2>3, <2>4
<1>8. CASE ReconcileDelete(r) \/ ReconcileEdit(r)
  <2>0. PICK c \in Contents \cup {None} : RecordWrite(r, c)
    BY <1>8, RecordsWrite
  <2>1. PICK now \in Clocks :
          /\ CommitState(r, LocalWrite(r, mem[r], p, c, now), p, TRUE)
          /\ ToCopies(r, LocalWrite(r, mem[r], p, c, now).st[p])
    BY <2>0 DEF RecordWrite
  <2> DEFINE view == LocalWrite(r, mem[r], p, c, now)
  <2>2. view \in Views /\ Known(view) = Known(mem[r]) \cup {p} /\ view.st[p] \in States
    BY <1>1, <1>3, LocalWriteType
  <2>3. UNCHANGED <<file, mounted, staged, sess>>
    BY <2>0 DEF RecordWrite, disks
  <2>4. file' \in [Replicas -> PathMap(Contents)] /\ staged' \in [Replicas -> SUBSET Contents]
    BY <2>3 DEF DataInv
  <2>5. CommitState(r, view, p, TRUE) /\ ToCopies(r, view.st[p])
    BY <2>1
  <2> HIDE DEF view
  <2>6. DataInv' /\ mem'[r] = view /\ \A q \in Replicas : Known(mem[q]) \subseteq Known(mem'[q])
    BY <2>2, <2>3, <2>4, <2>5, DataCommit
  <2>7. CallInv'
    BY <1>1, <2>2, <2>5, <2>6, ToCopiesType
  <2> QED
    BY <2>3, <2>6, <2>7 DEF SessInv
<1>9. CASE ReconcileMissing(r)
  <2> DEFINE c == [call[r] EXCEPT !.pc = "gone"]
  <2>1. /\ UNCHANGED <<file, mounted, staged, mem, store, pending, unflushed, sess>>
        /\ call' = [call EXCEPT ![r] = c] /\ call[r].pc = "reconcile"
    BY <1>9, MissingMoves
  <2>2. call[r] \in Calls /\ CallOK(call[r], Known(mem[r]))
    BY DEF CallInv
  <2>3. c \in Calls /\ CallOK(c, Known(mem'[r]))
    BY <2>1, <2>2 DEF Calls, CallOK
  <2> HIDE DEF c
  <2>4. CallInv'
    BY <2>1, <2>3, CallKept
  <2> QED
    BY <2>1, <2>4 DEF DataInv, SessInv
<1> QED
  BY <1>4, <1>5, <1>6, <1>7, <1>8, <1>9

\* A call takes one loser off its list.
LEMMA LoserDone ==
  ASSUME CallInv, \A q \in Replicas : Known(mem[q]) \subseteq Known(mem'[q]),
         NEW r \in Replicas, NEW e, call' = [call EXCEPT ![r].losers = @ \ {e}]
  PROVE  CallInv'
<1> DEFINE c == [call[r] EXCEPT !.losers = @ \ {e}]
<1>1. call[r] \in Calls /\ CallOK(call[r], Known(mem[r])) /\ Known(mem[r]) \subseteq Known(mem'[r])
  BY DEF CallInv
<1>2. call' = [call EXCEPT ![r] = c]
  BY DEF CallInv
<1>3. c \in Calls /\ CallOK(c, Known(mem'[r]))
  BY <1>1 DEF Calls, CallOK
<1> HIDE DEF c
<1> QED
  BY <1>2, <1>3, CallKept

LEMMA CopyType ==
  ASSUME TypeInv, NEW r \in Replicas, NEW e \in call[r].losers,
         CopyError(r, e) \/ CopySkip(r, e) \/ CopyLoser(r, e)
  PROVE  TypeInv'
<1> USE DEF TypeInv
<1>1. CASE CopyError(r, e)
  <2>1. CallInv'
    BY <1>1, LeaveType DEF CopyError
  <2> QED
    BY <1>1, <2>1 DEF CopyError, disks, DataInv, SessInv
<1>2. CASE CopySkip(r, e)
  <2>1. CallInv'
    BY <1>2, LoserDone DEF CopySkip
  <2> QED
    BY <1>2, <2>1 DEF CopySkip, disks, DataInv, SessInv
<1>3. CASE CopyLoser(r, e)
  <2> DEFINE c == CopyPath(call[r].cur, e.dot)
  <2>1. e \in Entry /\ e.content \in Contents /\ e.dot \in Dot
    BY DEF CallInv, Calls, Entry, IsTombstone
  <2>2. c \in Paths
    <3>1. call[r].pc = "copies" /\ call[r].cur \in Paths
      BY <1>3 DEF CopyLoser, CallInv, CallOK
    <3> QED
      BY <2>1, <3>1 DEF Paths, CopyPath
  <2>3. /\ Place(r, c, e.content) \/ UNCHANGED <<file, staged>>
        /\ call' = [call EXCEPT ![r].losers = @ \ {e}]
        /\ UNCHANGED <<mounted, sess>>
    BY <1>3 DEF CopyLoser
  <2>4. PICK now \in Clocks : CommitState(r, LocalWrite(r, mem[r], c, e.content, now), c, TRUE)
    BY <1>3 DEF CopyLoser
  <2> DEFINE view == LocalWrite(r, mem[r], c, e.content, now)
  <2> HIDE DEF c
  <2>5. file' \in [Replicas -> PathMap(Contents)] /\ staged' \in [Replicas -> SUBSET Contents]
    BY <2>1, <2>2, <2>3, PlaceType DEF DataInv
  <2>6. mem[r] \in Views
    BY DEF DataInv
  <2>7. view \in Views /\ Known(view) = Known(mem[r]) \cup {c}
    BY <2>1, <2>2, <2>6, LocalWriteType
  <2>8. CommitState(r, view, c, TRUE)
    BY <2>4
  <2> HIDE DEF view
  <2>9. DataInv' /\ \A q \in Replicas : Known(mem[q]) \subseteq Known(mem'[q])
    BY <2>3, <2>5, <2>7, <2>8, DataCommit
  <2>10. CallInv'
    BY <2>3, <2>9, LoserDone
  <2> QED
    BY <2>3, <2>9, <2>10 DEF SessInv
<1> QED
  BY <1>1, <1>2, <1>3

LEMMA FlushVersionsType ==
  ASSUME TypeInv, NEW r \in Replicas, FlushVersions(r)
  PROVE  TypeInv'
<1> USE DEF TypeInv
<1>1. Flush(r) /\ UNCHANGED <<file, mounted, staged, mem, call, sess>>
  BY DEF FlushVersions, disks
<1>2. DataInv'
  BY <1>1, FlushType DEF DataInv
<1> QED
  BY <1>1, <1>2 DEF CallInv, SessInv

\* What settle commits.
LEMMA SettledType ==
  ASSUME DataInv, NEW r \in Replicas, call[r].cur \in Known(mem[r]), NEW h \in Contents \cup {None}
  PROVE  /\ Settled(r, h) \in Views /\ Known(Settled(r, h)) = Known(mem[r])
         /\ Settled(r, h).counter = mem[r].counter /\ Settled(r, h).vv = mem[r].vv
         /\ \A q \in Known(mem[r]) :
              /\ Settled(r, h).st[q].versions = mem[r].st[q].versions
              /\ Settled(r, h).st[q].seen = mem[r].st[q].seen
              /\ \/ Settled(r, h).st[q].diskSeen = mem[r].st[q].diskSeen
                 \/ Covers(mem[r].st[q].seen, Settled(r, h).st[q].diskSeen)
<1> DEFINE p == call[r].cur
           d == DiskSeen(mem[r], p, mem[r].st[p])
<1>1. mem[r] \in Views /\ mem[r].st[p] \in States
  BY CurrentState DEF DataInv
<1>2. d \in VersionVector /\ Covers(mem[r].st[p].seen, d)
  BY <1>1, DiskSeenType
<1>3. Settled(r, h) = WithDisk(mem[r], p, h, d)
  BY DEF Settled, WithDisk
<1>4. p \in Known(mem[r])
  OBVIOUS
<1> HIDE DEF d, p
<1>5. /\ WithDisk(mem[r], p, h, d) \in Views
      /\ Known(WithDisk(mem[r], p, h, d)) = Known(mem[r])
      /\ WithDisk(mem[r], p, h, d).counter = mem[r].counter
      /\ WithDisk(mem[r], p, h, d).vv = mem[r].vv
      /\ \A q \in Known(mem[r]) :
           /\ WithDisk(mem[r], p, h, d).st[q].versions = mem[r].st[q].versions
           /\ WithDisk(mem[r], p, h, d).st[q].seen = mem[r].st[q].seen
           /\ WithDisk(mem[r], p, h, d).st[q].diskSeen = IF q = p THEN d ELSE mem[r].st[q].diskSeen
  BY <1>1, <1>2, <1>4, RecordDiskType
<1> QED
  BY <1>2, <1>3, <1>5

LEMMA SettleType ==
  ASSUME TypeInv, NEW r \in Replicas, SettleSame(r) \/ SettleSkip(r) \/ SettleWrite(r)
  PROVE  TypeInv'
<1> USE DEF TypeInv
<1> DEFINE p == call[r].cur
           s == mem[r].st[p]
           w == Winner(s.versions)
<1>1. call[r].pc = "copies"
  BY DEF SettleSame, SettleSkip, SettleWrite, SettleReady, Unsettled
<1>2. call[r].pc # "pick" /\ p \in Known(mem[r]) /\ p \in Paths
  BY <1>1 DEF CallInv, CallOK
<1>3. s \in States
  BY <1>2, CurrentState
<1>4. w.content \in Contents \cup {None} /\ s.hash \in Contents \cup {None}
  BY <1>3, WinnerType, StateElim
<1>5. Leave(r) /\ UNCHANGED <<mounted, sess>>
  BY DEF SettleSame, SettleSkip, SettleWrite, disks
<1>6. CASE UNCHANGED <<file, staged, mem, store, pending, unflushed>>
  <2>1. CallInv'
    BY <1>2, <1>5, <1>6, LeaveType
  <2> QED
    BY <1>5, <1>6, <2>1 DEF DataInv, SessInv
<1>7. ASSUME NEW h \in Contents \cup {None}, CommitState(r, Settled(r, h), p, FALSE),
             file' \in [Replicas -> PathMap(Contents)], staged' \in [Replicas -> SUBSET Contents]
      PROVE  TypeInv'
  <2>1. Settled(r, h) \in Views /\ Known(Settled(r, h)) = Known(mem[r])
    BY <1>2, SettledType
  <2>2. DataInv' /\ \A q \in Replicas : Known(mem[q]) \subseteq Known(mem'[q])
    BY <1>2, <1>5, <1>7, <2>1, DataCommit
  <2>3. CallInv'
    BY <1>2, <1>5, <2>2, LeaveType
  <2> QED
    BY <1>5, <2>2, <2>3 DEF SessInv
<1>8. CASE SettleSame(r)
  <2>1. UNCHANGED <<file, staged>>
    BY <1>8 DEF SettleSame, disks
  <2>2. UNCHANGED <<mem, store, pending, unflushed>> \/ CommitState(r, Settled(r, s.hash), p, FALSE)
    BY <1>8 DEF SettleSame
  <2>3. file' \in [Replicas -> PathMap(Contents)] /\ staged' \in [Replicas -> SUBSET Contents]
    BY <2>1 DEF DataInv
  <2> HIDE DEF s
  <2> QED
    BY <1>4, <1>6, <1>7, <2>1, <2>2, <2>3
<1>9. CASE SettleSkip(r)
  BY <1>6, <1>9 DEF SettleSkip, disks
<1>10. CASE SettleWrite(r)
  <2>1. CommitState(r, Settled(r, w.content), p, FALSE)
    BY <1>10 DEF SettleWrite
  <2>2. file' \in [Replicas -> PathMap(Contents)] /\ staged' \in [Replicas -> SUBSET Contents]
    <3>1. CASE IsTombstone(w)
      <4>1. file[r] \in PathMap(Contents)
        BY DEF DataInv
      <4>2. Without(file[r], p) \in PathMap(Contents)
        BY <4>1, WithoutType
      <4> QED
        BY <1>10, <3>1, <4>2 DEF SettleWrite, DataInv
    <3>2. CASE ~IsTombstone(w)
      <4>1. Place(r, p, w.content) /\ w.content \in Contents
        BY <1>4, <1>10, <3>2 DEF SettleWrite, IsTombstone
      <4> QED
        BY <1>2, <4>1, PlaceType
    <3> QED
      BY <3>1, <3>2
  <2> HIDE DEF w
  <2> QED
    BY <1>4, <1>7, <2>1, <2>2
<1> QED
  BY <1>8, <1>9, <1>10

\* The state apply joins an update into.
JoinedState(s, u) == [s EXCEPT !.versions = Join(s, u).versions, !.seen = Join(s, u).seen]

LEMMA JoinedStateType ==
  ASSUME NEW view \in Views, NEW p, NEW u \in Updates
  PROVE  /\ JoinedState(StateOf(view, p), u) \in States
         /\ JoinedState(StateOf(view, p), u).versions = Join(StateOf(view, p), u).versions
         /\ JoinedState(StateOf(view, p), u).seen = Join(StateOf(view, p), u).seen
         /\ JoinedState(StateOf(view, p), u).seen
              \in {StateOf(view, p).seen, MergeVV(StateOf(view, p).seen, u.seen)}
         /\ JoinedState(StateOf(view, p), u).diskSeen = StateOf(view, p).diskSeen
         /\ JoinedState(StateOf(view, p), u).hash = StateOf(view, p).hash
<1> DEFINE s == StateOf(view, p)
           j == Join(s, u)
<1>1. /\ VersionSet(s.versions) /\ (s.versions = {} => s.seen = NoVersions)
      /\ s.seen \in VersionVector /\ s \in PathState
  BY StateOfType
<1>2. VersionSet(u.versions) /\ u.versions # {} /\ u.seen \in VersionVector
  BY DEF Updates, Update
<1> HIDE DEF s
<1>3. /\ VersionSet(j.versions) /\ j.versions # {}
      /\ j.seen \in {s.seen, MergeVV(s.seen, u.seen)}
  BY <1>1, <1>2, JoinType
<1>4. j.seen \in VersionVector
  BY <1>1, <1>2, <1>3, MergeVVType
<1>5. j.versions \in SUBSET Entry
  BY <1>3 DEF VersionSet
<1> HIDE DEF j
<1>6. JoinedState(s, u) = [s EXCEPT !.versions = j.versions, !.seen = j.seen]
  BY DEF JoinedState, j
<1>7. /\ JoinedState(s, u) \in PathState
      /\ JoinedState(s, u).versions = j.versions
      /\ JoinedState(s, u).seen = j.seen
      /\ JoinedState(s, u).diskSeen = s.diskSeen
      /\ JoinedState(s, u).hash = s.hash
  BY <1>1, <1>4, <1>5, <1>6 DEF PathState
<1> QED
  BY <1>3, <1>7 DEF States, s, j

LEMMA JoinUpdateType ==
  ASSUME TypeInv, NEW r \in Replicas, JoinUpdate(r)
  PROVE  TypeInv'
<1> USE DEF TypeInv
<1> DEFINE p == call[r].cur
           t == JoinedState(StateOf(mem[r], p), UpdateOf(r, p))
           view == WithState(mem[r], p, t)
<1>1. call[r] \in Calls /\ CallOK(call[r], Known(mem[r])) /\ call[r].pc = "join" /\ mem[r] \in Views
  BY DEF CallInv, JoinUpdate, DataInv
<1>2. p \in Paths /\ UpdateOf(r, p) \in Updates
  <2>1. p \in Paths /\ \E u \in call[r].page : u.path = p
    BY <1>1 DEF CallOK
  <2>2. UpdateOf(r, p) \in call[r].page
    BY <2>1 DEF UpdateOf
  <2> QED
    BY <1>1, <2>1, <2>2 DEF Calls
<1>3. t \in States
  BY <1>1, <1>2, JoinedStateType
<1>4. view \in Views /\ Known(view) = Known(mem[r]) \cup {p}
  BY <1>1, <1>2, <1>3, RecordType
<1>5. UNCHANGED <<file, mounted, staged, sess>>
  BY DEF JoinUpdate, disks
<1>6. PICK changed \in BOOLEAN :
        /\ IF changed THEN CommitState(r, view, p, TRUE)
                      ELSE UNCHANGED <<mem, store, pending, unflushed>>
        /\ call' = [call EXCEPT ![r].pc = "pick", ![r].cur = None, ![r].todo = @ \ {p},
                                ![r].joined = IF changed THEN @ \cup {p} ELSE @]
  BY DEF JoinUpdate, JoinedState, WithState
<1> HIDE DEF t, view
<1>7. DataInv' /\ (\A q \in Replicas : Known(mem[q]) \subseteq Known(mem'[q]))
        /\ (changed => p \in Known(mem'[r]))
  <2>1. file' \in [Replicas -> PathMap(Contents)] /\ staged' \in [Replicas -> SUBSET Contents]
    BY <1>5 DEF DataInv
  <2>2. CASE changed
    BY <1>4, <1>5, <1>6, <2>1, <2>2, DataCommit
  <2>3. CASE ~changed
    BY <1>5, <1>6, <2>3 DEF DataInv
  <2> QED
    BY <2>2, <2>3
<1>8. CallInv'
  <2> DEFINE c == [call[r] EXCEPT !.pc = "pick", !.cur = None, !.todo = @ \ {p},
                                  !.joined = IF changed THEN @ \cup {p} ELSE @]
  <2>1. call' = [call EXCEPT ![r] = c]
    BY <1>6 DEF CallInv
  <2>2. c \in Calls
    BY <1>1, <1>2 DEF Calls
  <2>3. CallOK(c, Known(mem'[r]))
    BY <1>1, <1>7 DEF Calls, CallOK
  <2> HIDE DEF c
  <2> QED
    BY <1>7, <2>1, <2>2, <2>3, CallKept
<1> QED
  BY <1>5, <1>7, <1>8 DEF SessInv

LEMMA SettleJoinedType ==
  ASSUME TypeInv, NEW r \in Replicas, NEW p \in call[r].joined, SettleJoined(r, p)
  PROVE  TypeInv'
<1> USE DEF TypeInv
<1> DEFINE s == mem[r].st[p]
           c == [call[r] EXCEPT !.pc = "copies", !.cur = p, !.joined = @ \ {p}, !.losers = Losers(p, s)]
<1>1. call[r] \in Calls /\ CallOK(call[r], Known(mem[r])) /\ p \in Known(mem[r])
  BY DEF CallInv, CallOK
<1>2. s \in States /\ p \in Paths
  BY <1>1, CurrentState
<1>3. Losers(p, s) \subseteq { e \in Entry : ~IsTombstone(e) }
  BY <1>2, LosersType
<1>4. call' = [call EXCEPT ![r] = c] /\ mem' = mem
  BY DEF SettleJoined, CallInv
<1>5. c \in Calls /\ CallOK(c, Known(mem'[r]))
  <2> HIDE DEF s
  <2> QED
    BY <1>1, <1>2, <1>3, <1>4 DEF Calls, CallOK
<1> HIDE DEF c
<1>6. CallInv'
  BY <1>4, <1>5, CallKept
<1> QED
  BY <1>6 DEF SettleJoined, disks, DataInv, SessInv

LEMMA FinishType ==
  ASSUME TypeInv, NEW r \in Replicas, Finish(r)
  PROVE  TypeInv'
<1> USE DEF TypeInv
<1>1. Flush(r) /\ UNCHANGED <<file, mounted, mem>> /\ call' = [call EXCEPT ![r] = Idle]
  BY DEF Finish
<1>2. staged' \in [Replicas -> SUBSET Contents]
  BY DEF Finish, DataInv
<1>3. DataInv'
  BY <1>1, <1>2, FlushType DEF DataInv
<1>4. CallInv'
  BY <1>1, IdleType, CallKept
<1>5. SessInv'
  <2>1. sess \in [Replicas -> Sessions] /\ \A q \in Replicas : sess[q].from # q
    BY DEF SessInv
  <2>2. PICK u, f : u = sess[r].updates \ call[r].page /\ f = (sess[r].fetched \/ call[r].kind = "fetch")
    OBVIOUS
  <2>3. PICK s : s = [sess[r] EXCEPT !.updates = u, !.fetched = f]
    OBVIOUS
  <2>4. sess[r] \in Sessions /\ u \in SUBSET Updates /\ f \in BOOLEAN
    BY <2>1, <2>2 DEF Sessions
  <2>5. s \in Sessions /\ s.from = sess[r].from
    BY <2>3, <2>4 DEF Sessions
  <2>6. sess' = [sess EXCEPT ![r] = s]
    BY <2>1, <2>2, <2>3 DEF Finish
  <2> QED
    BY <2>1, <2>5, <2>6 DEF SessInv
<1> QED
  BY <1>3, <1>4, <1>5

\* A replica's delta consists of well-formed updates.
LEMMA DeltaForType ==
  ASSUME NEW view \in Views, NEW peer
  PROVE  DeltaFor(view, peer) \subseteq Updates
<1>1. ASSUME NEW p \in Known(view)
      PROVE  [path |-> p, versions |-> view.st[p].versions, seen |-> view.st[p].seen] \in Updates
  <2>1. p \in Paths /\ view.st[p] \in States
    BY ViewElim
  <2>2. /\ VersionSet(view.st[p].versions) /\ view.st[p].versions # {}
        /\ view.st[p].versions \in SUBSET Entry /\ view.st[p].seen \in VersionVector
    BY <2>1, StateElim
  <2> QED
    BY <2>1, <2>2 DEF Updates, Update
<1> QED
  BY <1>1 DEF DeltaFor

LEMMA SessionType ==
  ASSUME TypeInv, NEW r \in Replicas,
         (\E s \in Replicas : Hello(r, s)) \/ Pages(r) \/ EndSession(r)
  PROVE  TypeInv'
<1> USE DEF TypeInv
<1>1. UNCHANGED <<file, mounted, staged, mem, store, pending, unflushed, call>>
  BY DEF Hello, Pages, EndSession, disks
<1>2. DataInv' /\ CallInv'
  BY <1>1 DEF DataInv, CallInv
<1>3. SessInv'
  <2>1. ASSUME NEW s \in Replicas, Hello(r, s)
        PROVE  SessInv'
    <3>1. r # s
      BY <2>1 DEF Hello
    <3>2. mem[r].vv \in VersionVector /\ mem[s].vv \in VersionVector
      BY DEF DataInv, Views
    <3> QED
      BY <2>1, <3>1, <3>2, NoSessionType DEF Hello, SessInv, Sessions
  <2>2. CASE Pages(r)
    <3>1. sess[r].from \in Replicas
      BY <2>2 DEF Pages, SessInv, Sessions
    <3>2. DeltaFor(store[sess[r].from], sess[r].said) \subseteq Updates
      BY <3>1, DeltaForType DEF DataInv
    <3>3. PICK u : u = DeltaFor(store[sess[r].from], sess[r].said)
      OBVIOUS
    <3>4. PICK s : s = [sess[r] EXCEPT !.sent = TRUE, !.updates = u]
      OBVIOUS
    <3>5. sess \in [Replicas -> Sessions] /\ \A q \in Replicas : sess[q].from # q
      BY DEF SessInv
    <3>6. s \in Sessions /\ s.from = sess[r].from
      <4>1. sess[r] \in Sessions /\ u \in SUBSET Updates
        BY <3>2, <3>3, <3>5
      <4> QED
        BY <3>4, <4>1 DEF Sessions
    <3>7. sess' = [sess EXCEPT ![r] = s]
      BY <2>2, <3>3, <3>4, <3>5 DEF Pages
    <3> QED
      BY <3>5, <3>6, <3>7 DEF SessInv
  <2>3. CASE EndSession(r)
    BY <2>3, NoSessionType DEF EndSession, SessInv
  <2> QED
    BY <2>1, <2>2, <2>3
<1> QED
  BY <1>2, <1>3

LEMMA ContentType ==
  ASSUME TypeInv, NEW r \in Replicas, SomeContent(r)
  PROVE  TypeInv'
<1>1. /\ staged' \in [Replicas -> SUBSET Contents]
      /\ UNCHANGED <<file, mounted, mem, store, pending, unflushed, call, sess>>
  BY DEF SomeContent, Content, TypeInv, DataInv
<1> QED
  BY <1>1 DEF TypeInv, DataInv, CallInv, SessInv

\* What commit_session records.
WithVector(view, v) == [view EXCEPT !.vv = MergeVV(@, v)]

LEMMA WithVectorType ==
  ASSUME NEW view \in Views, NEW v \in VersionVector
  PROVE  /\ WithVector(view, v) \in Views /\ Known(WithVector(view, v)) = Known(view)
         /\ WithVector(view, v).st = view.st /\ WithVector(view, v).counter = view.counter
         /\ WithVector(view, v).vv = MergeVV(view.vv, v)
<1>1. view.vv \in VersionVector
  BY DEF Views
<1>2. MergeVV(view.vv, v) \in VersionVector
  BY <1>1, MergeVVType
<1> QED
  BY <1>2 DEF WithVector, Views, Known

LEMMA CommitSessionType ==
  ASSUME TypeInv, NEW r \in Replicas, CommitSession(r)
  PROVE  TypeInv'
<1> USE DEF TypeInv
<1> DEFINE view == WithVector(mem[r], sess[r].heard)
<1>1. /\ mem' = [mem EXCEPT ![r] = view] /\ store' = [store EXCEPT ![r] = view]
      /\ pending' = [pending EXCEPT ![r] = {}]
      /\ UNCHANGED <<file, mounted, staged, call>>
  BY DEF CommitSession, WithVector, disks
<1>2. view \in Views /\ Known(view) = Known(mem[r])
  BY WithVectorType DEF DataInv, SessInv, Sessions
<1> HIDE DEF view
<1>3. unflushed' \in [Replicas -> BOOLEAN]
  BY DEF CommitSession, DataInv
<1>4. DataInv'
  BY <1>1, <1>2, <1>3 DEF DataInv
<1>5. CallInv'
  BY <1>1, <1>2, CallUnchanged DEF DataInv
<1>6. SessInv'
  BY NoSessionType DEF CommitSession, SessInv
<1> QED
  BY <1>4, <1>5, <1>6

LEMMA NextType == TypeInv /\ [Next]_vars => TypeInv'
<1> SUFFICES ASSUME TypeInv, [Next]_vars PROVE TypeInv'
  OBVIOUS
<1>1. CASE UNCHANGED vars
  BY <1>1 DEF vars, TypeInv, DataInv, CallInv, SessInv
<1>2. ASSUME NEW r \in Replicas, CallStep(r)
      PROVE  TypeInv'
  BY <1>2, TakeType, ReconcileType, CopyType, FlushVersionsType, SettleType, JoinUpdateType,
     SettleJoinedType, FinishType DEF CallStep
<1>3. ASSUME NEW r \in Replicas, SessionStep(r)
      PROVE  TypeInv'
  BY <1>3, SessionType, StartApplyType, StartFetchType, CommitSessionType DEF SessionStep
<1> QED
  BY <1>1, <1>2, <1>3, UserEditType, MountType, CrashType, StartScanType, ContentType, SessionType
     DEF Next

\* The inductive invariant behind TypeCorrect: what each variable holds, what a call
\* under way works on (its page, its path, its losers), and what a session carries.
THEOREM TypeInvariant == Spec => []TypeInv
BY InitType, NextType, PTL DEF Spec

LEMMA TypeInvGivesTypeOK == TypeInv => TypeOK
<1> SUFFICES ASSUME TypeInv, NEW r \in Replicas
             PROVE  /\ DOMAIN file[r] \subseteq Paths /\ \A p \in DOMAIN file[r] : file[r][p] \in Contents
                    /\ mounted[r] \in BOOLEAN /\ unflushed[r] \in BOOLEAN
                    /\ ViewOK(mem[r]) /\ ViewOK(store[r])
                    /\ pending[r] \subseteq Known(mem[r])
                    /\ staged[r] \subseteq Contents
  BY DEF TypeOK
<1> USE DEF TypeInv, DataInv
<1>1. ASSUME NEW view \in Views PROVE ViewOK(view)
  BY ViewElim DEF ViewOK, States
<1>2. file[r] \in PathMap(Contents)
  OBVIOUS
<1>3. DOMAIN file[r] \subseteq Paths /\ file[r] \in [DOMAIN file[r] -> Contents]
  BY <1>2, PathMapElim
<1> QED
  BY <1>1, <1>3

\* The variables always hold what the code's types say: in particular a recorded
\* state always has a version, so Winner is defined wherever settle asks for it, and
\* every pending path has a state to write.
THEOREM TypeCorrect == Spec => []TypeOK
BY TypeInvariant, TypeInvGivesTypeOK, PTL

-----------------------------------------------------------------------------
(* Dots: who may know of which writes *)

\* The view knows x's writes up to the n-th.
Bounded(view, x, n) ==
  /\ view.vv[x] <= n
  /\ \A p \in Known(view) : view.st[p].seen[x] <= n /\ view.st[p].diskSeen[x] <= n

\* The view may be r's: it knows its own writes up to its counter, and those of the
\* others up to what they have stored.
Fits(view, r) ==
  /\ Bounded(view, r, view.counter)
  /\ \A x \in Replicas \ {r} : Bounded(view, x, store[x].counter)

DataDots ==
  \A r \in Replicas :
    /\ store[r].counter <= mem[r].counter
    /\ Fits(mem[r], r) /\ Fits(store[r], r)
    /\ pending[r] = {} => mem[r].counter = store[r].counter

\* What is on the way to q, or what its call works on.
Told(q) ==
  \A x \in Replicas :
    /\ sess[q].heard[x] <= store[x].counter
    /\ \A u \in sess[q].updates \cup call[q].page : u.seen[x] <= store[x].counter

ToldDots == \A q \in Replicas : Told(q)

\* Between two calls nothing is pending.
IdleFlushed ==
  \A r \in Replicas : call[r].kind = "idle" => call[r] = Idle /\ pending[r] = {}

DotInv == DataDots /\ ToldDots /\ IdleFlushed

-----------------------------------------------------------------------------
(* Bounds *)

LEMMA ViewVectors ==
  ASSUME NEW view \in Views, NEW x \in Replicas
  PROVE  /\ view.vv[x] \in Nat /\ view.counter \in Nat
         /\ \A p \in Known(view) : view.st[p].seen[x] \in Nat /\ view.st[p].diskSeen[x] \in Nat
<1>1. view.vv \in VersionVector /\ view.counter \in Nat /\ \A p \in Known(view) : view.st[p] \in States
  BY ViewElim
<1>2. \A p \in Known(view) : view.st[p].seen \in VersionVector /\ view.st[p].diskSeen \in VersionVector
  BY <1>1, StateElim
<1> QED
  BY <1>1, <1>2 DEF VersionVector

LEMMA BoundedLater ==
  ASSUME NEW view \in Views, NEW x \in Replicas, NEW n \in Nat, NEW m \in Nat, n <= m,
         Bounded(view, x, n)
  PROVE  Bounded(view, x, m)
BY ViewVectors DEF Bounded

\* A path without a state has seen nothing.
LEMMA StateOfBounded ==
  ASSUME NEW view \in Views, NEW p, NEW x \in Replicas, NEW n \in Nat, Bounded(view, x, n)
  PROVE  StateOf(view, p).seen[x] <= n /\ StateOf(view, p).diskSeen[x] <= n
<1>1. CASE p \in Known(view)
  BY <1>1 DEF StateOf, Bounded
<1>2. CASE p \notin Known(view)
  BY <1>2, NoStateType DEF StateOf, NoVersions
<1> QED
  BY <1>1, <1>2

LEMMA MergeBounded ==
  ASSUME NEW v, NEW w, NEW x \in Replicas, NEW n, v[x] <= n, w[x] <= n
  PROVE  MergeVV(v, w)[x] <= n
BY DEF MergeVV

LEMMA AddDotBounded ==
  ASSUME NEW v \in VersionVector, NEW d \in Dot, NEW x \in Replicas
  PROVE  /\ AddDot(v, d)[x] \in Nat
         /\ \A n \in Nat : v[x] <= n /\ (d.replica = x => d.counter <= n) => AddDot(v, d)[x] <= n
BY DEF AddDot, VersionVector, Dot

\* A step that gives r a view that fits, and stores that view or nothing, keeps every
\* bound: stored counters only grow.
LEMMA WriteBack ==
  ASSUME TypeInv, DataDots, NEW r \in Replicas, NEW view \in Views,
         mem' = [mem EXCEPT ![r] = view], store' \in {store, [store EXCEPT ![r] = view]},
         mem[r].counter <= view.counter, Fits(view, r),
         pending'[r] = {} => view.counter = store'[r].counter,
         \A q \in Replicas \ {r} : pending'[q] = pending[q]
  PROVE  DataDots' /\ \A x \in Replicas : store[x].counter <= store'[x].counter
<1>1. mem \in [Replicas -> Views] /\ store \in [Replicas -> Views]
  BY DEF TypeInv, DataInv
<1>2. /\ view.counter \in Nat
      /\ \A x \in Replicas : store[x].counter \in Nat /\ mem[x].counter \in Nat
  BY <1>1, ViewElim
<1>3. /\ mem'[r] = view /\ store'[r] \in {store[r], view}
      /\ \A q \in Replicas \ {r} : mem'[q] = mem[q] /\ store'[q] = store[q]
  BY <1>1
<1>4. \A x \in Replicas : store[x].counter <= store'[x].counter /\ store'[x].counter \in Nat
  BY <1>2, <1>3 DEF DataDots
<1>5. ASSUME NEW q \in Replicas, NEW v \in Views, Fits(v, q)
      PROVE  Bounded(v, q, v.counter) /\ \A x \in Replicas \ {q} : Bounded(v, x, store'[x].counter)
  BY <1>2, <1>4, <1>5, BoundedLater DEF Fits
<1>6. ASSUME NEW q \in Replicas
      PROVE  /\ store'[q].counter <= mem'[q].counter
             /\ pending'[q] = {} => mem'[q].counter = store'[q].counter
             /\ Bounded(mem'[q], q, mem'[q].counter)
             /\ Bounded(store'[q], q, store'[q].counter)
             /\ \A x \in Replicas \ {q} : /\ Bounded(mem'[q], x, store'[x].counter)
                                          /\ Bounded(store'[q], x, store'[x].counter)
  <2>1. mem[q] \in Views /\ store[q] \in Views /\ Fits(mem[q], q) /\ Fits(store[q], q)
    BY <1>1 DEF DataDots
  <2>2. CASE q = r
    BY <1>2, <1>3, <1>5, <2>1, <2>2 DEF DataDots
  <2>3. CASE q # r
    BY <1>3, <1>5, <2>1, <2>3 DEF DataDots
  <2> QED
    BY <2>2, <2>3
<1>7. DataDots'
  <2>1. ASSUME NEW q \in Replicas PROVE Fits(mem[q], q)'
    BY <1>6 DEF Fits, Bounded, Known
  <2>2. ASSUME NEW q \in Replicas PROVE Fits(store[q], q)'
    BY <1>6 DEF Fits, Bounded, Known
  <2> QED
    BY <1>6, <2>1, <2>2 DEF DataDots
<1> QED
  BY <1>4, <1>7

\* Sessions and pages only shrink.
LEMMA ToldKept ==
  ASSUME TypeInv, ToldDots, \A x \in Replicas : store[x].counter <= store'[x].counter,
         \A x \in Replicas : store'[x].counter \in Nat,
         \A q \in Replicas : /\ sess'[q].heard \in {sess[q].heard, NoVersions}
                             /\ sess'[q].updates \subseteq sess[q].updates
                             /\ call'[q].page \subseteq call[q].page \cup sess[q].updates
  PROVE  ToldDots'
<1> SUFFICES ASSUME NEW q \in Replicas, NEW x \in Replicas
             PROVE  /\ sess'[q].heard[x] <= store'[x].counter
                    /\ \A u \in sess'[q].updates \cup call'[q].page : u.seen[x] <= store'[x].counter
  BY DEF ToldDots, Told
<1>1. sess[q].heard[x] \in Nat /\ store[x].counter \in Nat
  BY ViewElim DEF TypeInv, DataInv, SessInv, Sessions, VersionVector
<1>2. \A u \in sess[q].updates \cup call[q].page : u.seen[x] \in Nat
  BY DEF TypeInv, SessInv, CallInv, Sessions, Calls, Updates, Update, VersionVector
<1>3. /\ sess[q].heard[x] <= store[x].counter
      /\ \A u \in sess[q].updates \cup call[q].page : u.seen[x] <= store[x].counter
  BY DEF ToldDots, Told
<1>4. sess'[q].heard[x] \in {sess[q].heard[x], 0}
  BY DEF NoVersions
<1> QED
  BY <1>1, <1>2, <1>3, <1>4

\* Nothing but calls and sessions changed.
LEMMA DataKept ==
  ASSUME DataDots, UNCHANGED <<mem, store, pending>>
  PROVE  DataDots'
BY DEF DataDots, Fits, Bounded, Known

-----------------------------------------------------------------------------
(* Views that fit *)

LEMMA LocalWriteFits ==
  ASSUME TypeInv, NEW r \in Replicas, NEW view \in Views, NEW p \in Paths,
         NEW content \in Contents \cup {None}, NEW now \in Clocks, Fits(view, r)
  PROVE  Fits(LocalWrite(r, view, p, content, now), r)
<1> DEFINE w == LocalWrite(r, view, p, content, now)
           d == NextDot(r, view)
           s == StateOf(view, p)
           new == Reflects(r, view, p)
<1>1. view.counter \in Nat /\ view.vv \in VersionVector
  BY ViewElim
<1>2. /\ w \in Views /\ Known(w) = Known(view) \cup {p} /\ w.counter = view.counter + 1
      /\ w.vv = AddDot(view.vv, d)
      /\ w.st[p].seen \in {s.seen, MergeVV(s.seen, new)}
      /\ w.st[p].diskSeen = new
      /\ \A q \in Known(view) : q # p => w.st[q] = view.st[q]
  BY LocalWriteType
<1>3. d \in Dot /\ d.replica = r /\ d.counter = view.counter + 1
  BY <1>1 DEF NextDot, Dot
<1>4. s.seen \in VersionVector /\ s.diskSeen \in VersionVector /\ new = AddDot(s.diskSeen, d)
  BY StateOfType DEF Reflects
<1> HIDE DEF w, d, s, new
<1>5. ASSUME NEW x \in Replicas, NEW n \in Nat, NEW m \in Nat, Bounded(view, x, n), n <= m,
             x = r => view.counter + 1 <= m
      PROVE  Bounded(w, x, m)
  <2>1. Bounded(view, x, m)
    BY <1>5, BoundedLater
  <2>2. s.seen[x] <= m /\ s.diskSeen[x] <= m
    BY <2>1, <1>5, StateOfBounded DEF s
  <2>3. view.vv[x] <= m
    BY <2>1 DEF Bounded
  <2>4. d.replica = x => d.counter <= m
    BY <1>3, <1>5
  <2>5. w.vv[x] <= m /\ new[x] <= m
    BY <1>1, <1>2, <1>3, <1>4, <2>2, <2>3, <2>4, AddDotBounded
  <2>6. w.st[p].seen[x] <= m
    BY <1>2, <2>2, <2>5, MergeBounded
  <2> QED
    BY <1>2, <2>1, <2>5, <2>6 DEF Bounded
<1>6. Bounded(w, r, w.counter)
  BY <1>1, <1>2, <1>5 DEF Fits
<1>7. \A x \in Replicas \ {r} : Bounded(w, x, store[x].counter)
  <2>1. \A x \in Replicas : store[x].counter \in Nat
    BY ViewElim DEF TypeInv, DataInv
  <2> QED
    BY <1>5, <2>1 DEF Fits
<1> QED
  BY <1>6, <1>7 DEF Fits, w

\* A view that knows no more writes than another one, for the same counter, fits too.
LEMMA FitsSame ==
  ASSUME NEW r \in Replicas, NEW view, NEW w, Fits(view, r),
         w.vv = view.vv, w.counter = view.counter, Known(w) = Known(view),
         \A q \in Known(view) : w.st[q].seen = view.st[q].seen /\ w.st[q].diskSeen = view.st[q].diskSeen
  PROVE  Fits(w, r)
BY DEF Fits, Bounded

LEMMA SettledFits ==
  ASSUME TypeInv, NEW r \in Replicas, call[r].cur \in Known(mem[r]), NEW h \in Contents \cup {None},
         Fits(mem[r], r)
  PROVE  Fits(Settled(r, h), r)
<1> DEFINE w == Settled(r, h)
<1>1. mem[r] \in Views
  BY DEF TypeInv, DataInv
<1>2. /\ w \in Views /\ Known(w) = Known(mem[r])
      /\ w.counter = mem[r].counter /\ w.vv = mem[r].vv
      /\ \A q \in Known(mem[r]) :
           /\ w.st[q].seen = mem[r].st[q].seen
           /\ \/ w.st[q].diskSeen = mem[r].st[q].diskSeen
              \/ Covers(mem[r].st[q].seen, w.st[q].diskSeen)
  BY SettledType DEF TypeInv
<1> HIDE DEF w
<1>3. ASSUME NEW x \in Replicas, NEW n \in Nat, Bounded(mem[r], x, n)
      PROVE  Bounded(w, x, n)
  <2>1. \A q \in Known(w) : w.st[q].diskSeen[x] \in Nat /\ w.st[q].seen[x] \in Nat
    BY <1>2, ViewVectors
  <2> QED
    BY <1>2, <1>3, <2>1 DEF Bounded, Covers
<1>4. \A x \in Replicas : store[x].counter \in Nat /\ mem[r].counter \in Nat
  BY ViewElim DEF TypeInv, DataInv
<1> QED
  BY <1>2, <1>3, <1>4 DEF Fits, w

-----------------------------------------------------------------------------
(* Steps of a call *)

\* The call of r goes on, with the page it had.
Moves(r) ==
  /\ call'[r].kind = call[r].kind /\ call'[r].page = call[r].page
  /\ \A q \in Replicas \ {r} : call'[q] = call[q]

LEMMA LeaveMoves ==
  ASSUME CallInv, NEW r \in Replicas, Leave(r)
  PROVE  Moves(r)
<1>1. call[r] \in Calls
  BY DEF CallInv
<1>2. PICK c : /\ call' = [call EXCEPT ![r] = c]
               /\ c \in {[call[r] EXCEPT !.pc = "join", !.losers = {}],
                         [call[r] EXCEPT !.pc = "pick", !.cur = None, !.losers = {},
                                         !.todo = @ \ {call[r].cur}]}
  BY DEF Leave
<1>3. c.kind = call[r].kind /\ c.page = call[r].page
  BY <1>1, <1>2 DEF Calls
<1> QED
  BY <1>2, <1>3 DEF CallInv, Moves

LEMMA ToCopiesMoves ==
  ASSUME CallInv, NEW r \in Replicas, NEW s, ToCopies(r, s)
  PROVE  Moves(r)
BY DEF ToCopies, CallInv, Calls, Moves

LEMMA LoserMoves ==
  ASSUME CallInv, NEW r \in Replicas, NEW e, call' = [call EXCEPT ![r].losers = @ \ {e}]
  PROVE  Moves(r)
BY DEF CallInv, Calls, Moves

\* Only a call that holds the lock has a path, losers or joined paths.
LEMMA Busy ==
  ASSUME IdleFlushed, NEW r \in Replicas,
         call[r].pc # "pick" \/ call[r].todo # {} \/ call[r].joined # {} \/ call[r].losers # {}
  PROVE  call[r].kind # "idle"
BY DEF IdleFlushed, Idle

\* A step of a call that leaves the store alone.
LEMMA StepKeeps ==
  ASSUME TypeInv, DotInv, NEW r \in Replicas, Moves(r), call[r].kind # "idle",
         UNCHANGED <<mem, store, pending, sess>>
  PROVE  DotInv'
<1>1. DataDots'
  BY DataKept DEF DotInv
<1>2. \A x \in Replicas : store[x].counter \in Nat
  BY ViewElim DEF TypeInv, DataInv
<1>3. ToldDots'
  <2>1. \A q \in Replicas : call'[q].page = call[q].page
    BY DEF Moves
  <2> QED
    BY <1>2, <2>1, ToldKept DEF DotInv
<1>4. IdleFlushed'
  BY DEF DotInv, IdleFlushed, Moves
<1> QED
  BY <1>1, <1>3, <1>4 DEF DotInv

\* A step of a call that commits a state.
LEMMA StepCommits ==
  ASSUME TypeInv, DotInv, NEW r \in Replicas, Moves(r), call[r].kind # "idle", sess' = sess,
         NEW view \in Views, NEW p \in Known(view), NEW b \in BOOLEAN,
         Known(mem[r]) \subseteq Known(view), CommitState(r, view, p, b),
         Fits(view, r), mem[r].counter <= view.counter
  PROVE  DotInv'
<1>1. /\ mem' = [mem EXCEPT ![r] = view]
      /\ store' \in {store, [store EXCEPT ![r] = view]} /\ store' \in [Replicas -> Views]
      /\ pending'[r] = {} => store' = [store EXCEPT ![r] = view]
      /\ \A q \in Replicas \ {r} : pending'[q] = pending[q]
  BY CommitStateType DEF TypeInv
<1>2. pending'[r] = {} => view.counter = store'[r].counter
  BY <1>1 DEF TypeInv, DataInv
<1>3. DataDots' /\ \A x \in Replicas : store[x].counter <= store'[x].counter
  BY <1>1, <1>2, WriteBack DEF DotInv
<1>4. \A x \in Replicas : store'[x].counter \in Nat
  BY <1>1, ViewElim
<1>5. ToldDots'
  <2>1. \A q \in Replicas : call'[q].page = call[q].page
    BY DEF Moves
  <2> QED
    BY <1>3, <1>4, <2>1, ToldKept DEF DotInv
<1>6. IdleFlushed'
  BY <1>1 DEF DotInv, IdleFlushed, Moves
<1> QED
  BY <1>3, <1>5, <1>6 DEF DotInv

\* A step that flushes; the call may end with it.
LEMMA StepFlushes ==
  ASSUME TypeInv, DotInv, NEW r \in Replicas, Flush(r), mem' = mem,
         call'[r] = Idle \/ (call'[r] = call[r] /\ call[r].kind # "idle"),
         \A q \in Replicas \ {r} : call'[q] = call[q],
         \A q \in Replicas : /\ sess'[q].heard \in {sess[q].heard, NoVersions}
                             /\ sess'[q].updates \subseteq sess[q].updates
  PROVE  DotInv'
<1>1. mem \in [Replicas -> Views] /\ store \in [Replicas -> Views] /\ mem[r] \in Views
  BY DEF TypeInv, DataInv
<1>2. /\ store' \in {store, [store EXCEPT ![r] = mem[r]]} /\ store' \in [Replicas -> Views]
      /\ pending'[r] = {} /\ \A q \in Replicas \ {r} : pending'[q] = pending[q]
      /\ pending[r] = {} => store' = store
      /\ pending[r] # {} => store' = [store EXCEPT ![r] = mem[r]]
  BY FlushType DEF TypeInv
<1>3. mem[r].counter = store'[r].counter
  BY <1>1, <1>2 DEF DotInv, DataDots
<1>4. mem[r].counter <= mem[r].counter
  BY <1>1, ViewElim
<1>5. mem' = [mem EXCEPT ![r] = mem[r]] /\ Fits(mem[r], r)
  BY <1>1 DEF DotInv, DataDots
<1>6. DataDots' /\ \A x \in Replicas : store[x].counter <= store'[x].counter
  BY <1>1, <1>2, <1>3, <1>4, <1>5, WriteBack DEF DotInv
<1>7. \A x \in Replicas : store'[x].counter \in Nat
  BY <1>2, ViewElim
<1>8. ToldDots'
  <2>1. \A q \in Replicas : call'[q].page \subseteq call[q].page \cup sess[q].updates
    BY DEF Idle
  <2> QED
    BY <1>6, <1>7, <2>1, ToldKept DEF DotInv
<1>9. IdleFlushed'
  BY <1>2 DEF DotInv, IdleFlushed
<1> QED
  BY <1>6, <1>8, <1>9 DEF DotInv

LEMMA InitDots == Init => DotInv
<1> SUFFICES ASSUME Init PROVE DotInv
  OBVIOUS
<1>1. DataDots
  BY DEF Init, DataDots, Fits, Bounded, EmptyView, Known, NoVersions
<1>2. ToldDots
  BY DEF Init, ToldDots, Told, EmptyView, NoSession, Idle, NoVersions
<1>3. IdleFlushed
  BY DEF Init, IdleFlushed
<1> QED
  BY <1>1, <1>2, <1>3 DEF DotInv

LEMMA TakeDots ==
  ASSUME TypeInv, DotInv, NEW r \in Replicas, NEW p \in call[r].todo, Take(r, p)
  PROVE  DotInv'
<1>1. call[r].kind # "idle"
  BY Busy DEF DotInv
<1>2. Moves(r) /\ UNCHANGED <<store, pending, sess>>
  BY DEF Take, TypeInv, CallInv, Calls, Moves
<1>3. PICK h : mem' = [mem EXCEPT ![r] = [mem[r] EXCEPT !.hlc = h]] \/ mem' = mem
  BY DEF Take
<1>4. CASE mem' = mem
  BY <1>1, <1>2, <1>4, StepKeeps
<1>5. CASE mem' = [mem EXCEPT ![r] = [mem[r] EXCEPT !.hlc = h]]
  <2> DEFINE view == [mem[r] EXCEPT !.hlc = h]
  <2>1. mem[r] \in Views /\ mem \in [Replicas -> Views]
    BY DEF TypeInv, DataInv
  <2>2. /\ view.vv = mem[r].vv /\ view.counter = mem[r].counter /\ view.st = mem[r].st
        /\ Known(view) = Known(mem[r])
    BY <2>1 DEF Views, Known
  <2>3. \A q \in Replicas : /\ mem'[q].vv = mem[q].vv /\ mem'[q].counter = mem[q].counter
                            /\ mem'[q].st = mem[q].st
    BY <1>5, <2>1, <2>2
  <2>4. DataDots'
    BY <1>2, <2>3 DEF DotInv, DataDots, Fits, Bounded, Known
  <2>5. \A x \in Replicas : store[x].counter \in Nat
    BY ViewElim DEF TypeInv, DataInv
  <2>6. ToldDots'
    <3>1. \A q \in Replicas : call'[q].page = call[q].page
      BY <1>2 DEF Moves
    <3> QED
      BY <1>2, <2>5, <3>1, ToldKept DEF DotInv
  <2>7. IdleFlushed'
    BY <1>1, <1>2 DEF DotInv, IdleFlushed, Moves
  <2> QED
    BY <2>4, <2>6, <2>7 DEF DotInv
<1> QED
  BY <1>3, <1>4, <1>5

LEMMA ReconcileDots ==
  ASSUME TypeInv, DotInv, NEW r \in Replicas,
         ReconcileNothing(r) \/ ReconcileSame(r) \/ ReconcileMaterialised(r) \/ ReconcileMissing(r)
           \/ ReconcilePaused(r) \/ ReconcileDelete(r) \/ ReconcileEdit(r)
  PROVE  DotInv'
<1> DEFINE p == call[r].cur
<1>1. call[r].pc \in {"reconcile", "gone"}
  BY DEF ReconcileNothing, ReconcileSame, ReconcileMaterialised, ReconcileMissing, ReconcilePaused,
         ReconcileDelete, ReconcileEdit
<1>2. p \in Paths /\ CallInv
  BY <1>1 DEF TypeInv, CallInv, CallOK
<1>3. call[r].kind # "idle"
  BY <1>1, Busy DEF DotInv
<1>4. mem[r] \in Views /\ Fits(mem[r], r) /\ mem[r].counter \in Nat
  BY ViewElim DEF TypeInv, DataInv, DotInv, DataDots
<1>5. OnDisk(r, p) \in Contents \cup {None}
  BY OnDiskType DEF TypeInv
<1>6. CASE ReconcileNothing(r)
  BY <1>2, <1>3, <1>6, LeaveMoves, StepKeeps DEF ReconcileNothing
<1>7. CASE ReconcileSame(r)
  BY <1>2, <1>3, <1>7, ToCopiesMoves, StepKeeps DEF ReconcileSame
<1>8. CASE ReconcileMaterialised(r)
  <2> DEFINE view == WithHash(mem[r], p, OnDisk(r, p))
  <2>1. p \in Known(mem[r])
    BY <1>8 DEF ReconcileMaterialised, Materialised
  <2>2. /\ view \in Views /\ Known(view) = Known(mem[r])
        /\ view.counter = mem[r].counter /\ view.vv = mem[r].vv
        /\ \A q \in Known(mem[r]) : /\ view.st[q].seen = mem[r].st[q].seen
                                    /\ view.st[q].diskSeen = mem[r].st[q].diskSeen
    BY <1>4, <1>5, <2>1, RecordHashType
  <2>3. CommitState(r, view, p, FALSE) /\ ToCopies(r, mem[r].st[p]) /\ sess' = sess
    BY <1>8 DEF ReconcileMaterialised, WithHash
  <2> HIDE DEF view
  <2>4. Fits(view, r)
    BY <1>4, <2>2, FitsSame
  <2>5. Moves(r)
    BY <1>2, <2>3, ToCopiesMoves
  <2>6. p \in Known(view) /\ Known(mem[r]) \subseteq Known(view) /\ mem[r].counter <= view.counter
    BY <1>4, <2>1, <2>2
  <2> QED
    BY <1>3, <2>2, <2>3, <2>4, <2>5, <2>6, StepCommits
<1>9. CASE ReconcilePaused(r)
  <2>1. /\ Flush(r) /\ mem' = mem /\ call' = [call EXCEPT ![r] = Idle]
        /\ sess' = [sess EXCEPT ![r] = IF call[r].kind = "scan" THEN @ ELSE NoSession]
    BY <1>9 DEF ReconcilePaused
  <2>2. /\ call'[r] = Idle /\ \A q \in Replicas \ {r} : call'[q] = call[q]
        /\ \A q \in Replicas : /\ sess'[q].heard \in {sess[q].heard, NoVersions}
                               /\ sess'[q].updates \subseteq sess[q].updates
    BY <2>1, NoSessionType DEF TypeInv, CallInv, SessInv
  <2> QED
    BY <2>1, <2>2, StepFlushes
<1>10. CASE ReconcileDelete(r) \/ ReconcileEdit(r)
  <2>0. PICK c \in Contents \cup {None} : RecordWrite(r, c)
    BY <1>10, RecordsWrite
  <2>1. PICK now \in Clocks :
          /\ CommitState(r, LocalWrite(r, mem[r], p, c, now), p, TRUE)
          /\ ToCopies(r, LocalWrite(r, mem[r], p, c, now).st[p])
    BY <2>0 DEF RecordWrite
  <2> DEFINE view == LocalWrite(r, mem[r], p, c, now)
  <2>2. /\ view \in Views /\ Known(view) = Known(mem[r]) \cup {p}
        /\ view.counter = mem[r].counter + 1
    BY <1>2, <1>4, <2>0, <2>1, LocalWriteType
  <2>3. Fits(view, r)
    BY <1>2, <1>4, LocalWriteFits
  <2>4. CommitState(r, view, p, TRUE) /\ ToCopies(r, view.st[p]) /\ sess' = sess
    BY <2>0, <2>1 DEF RecordWrite
  <2> HIDE DEF view
  <2>5. Moves(r)
    BY <1>2, <2>4, ToCopiesMoves
  <2>6. p \in Known(view) /\ Known(mem[r]) \subseteq Known(view) /\ mem[r].counter <= view.counter
    BY <1>4, <2>2
  <2> QED
    BY <1>3, <2>2, <2>3, <2>4, <2>5, <2>6, StepCommits
<1>11. CASE ReconcileMissing(r)
  <2>1. UNCHANGED <<mem, store, pending, sess>> /\ Moves(r)
    BY <1>2, <1>11, MissingMoves DEF Moves
  <2> QED
    BY <1>3, <2>1, StepKeeps
<1> QED
  BY <1>6, <1>7, <1>8, <1>9, <1>10, <1>11

LEMMA CopyDots ==
  ASSUME TypeInv, DotInv, NEW r \in Replicas, NEW e \in call[r].losers,
         CopyError(r, e) \/ CopySkip(r, e) \/ CopyLoser(r, e)
  PROVE  DotInv'
<1>1. call[r].kind # "idle" /\ CallInv
  BY Busy DEF DotInv, TypeInv
<1>2. CASE CopyError(r, e)
  BY <1>1, <1>2, LeaveMoves, StepKeeps DEF CopyError
<1>3. CASE CopySkip(r, e)
  BY <1>1, <1>3, LoserMoves, StepKeeps DEF CopySkip
<1>4. CASE CopyLoser(r, e)
  <2> DEFINE c == CopyPath(call[r].cur, e.dot)
  <2>1. e \in Entry /\ e.content \in Contents /\ e.dot \in Dot
    BY DEF TypeInv, CallInv, Calls, Entry, IsTombstone
  <2>2. c \in Paths
    <3>1. call[r].pc = "copies" /\ call[r].cur \in Paths
      BY <1>4 DEF CopyLoser, TypeInv, CallInv, CallOK
    <3> QED
      BY <2>1, <3>1 DEF Paths, CopyPath
  <2>3. PICK now \in Clocks : CommitState(r, LocalWrite(r, mem[r], c, e.content, now), c, TRUE)
    BY <1>4 DEF CopyLoser
  <2>4. call' = [call EXCEPT ![r].losers = @ \ {e}] /\ sess' = sess
    BY <1>4 DEF CopyLoser
  <2>5. mem[r] \in Views /\ Fits(mem[r], r) /\ mem[r].counter \in Nat
    BY ViewElim DEF TypeInv, DataInv, DotInv, DataDots
  <2> DEFINE view == LocalWrite(r, mem[r], c, e.content, now)
  <2> HIDE DEF c
  <2>6. /\ view \in Views /\ Known(view) = Known(mem[r]) \cup {c}
        /\ view.counter = mem[r].counter + 1
    BY <2>1, <2>2, <2>5, LocalWriteType
  <2>7. Fits(view, r)
    BY <2>1, <2>2, <2>5, LocalWriteFits
  <2>8. CommitState(r, view, c, TRUE)
    BY <2>3
  <2> HIDE DEF view
  <2>9. Moves(r)
    BY <1>1, <2>4, LoserMoves
  <2>10. c \in Known(view) /\ Known(mem[r]) \subseteq Known(view) /\ mem[r].counter <= view.counter
    BY <2>5, <2>6
  <2> QED
    BY <1>1, <2>4, <2>6, <2>7, <2>8, <2>9, <2>10, StepCommits
<1> QED
  BY <1>2, <1>3, <1>4

LEMMA FlushVersionsDots ==
  ASSUME TypeInv, DotInv, NEW r \in Replicas, FlushVersions(r)
  PROVE  DotInv'
<1>1. Flush(r) /\ UNCHANGED <<mem, call, sess>>
  BY DEF FlushVersions
<1>2. call[r].kind # "idle"
  BY Busy DEF FlushVersions, SettleReady, Unsettled, DotInv
<1> QED
  BY <1>1, <1>2, StepFlushes

LEMMA SettleDots ==
  ASSUME TypeInv, DotInv, NEW r \in Replicas, SettleSame(r) \/ SettleSkip(r) \/ SettleWrite(r)
  PROVE  DotInv'
<1> DEFINE p == call[r].cur
           s == mem[r].st[p]
           w == Winner(s.versions)
<1>1. call[r].pc = "copies" /\ Leave(r) /\ sess' = sess
  BY DEF SettleSame, SettleSkip, SettleWrite, SettleReady, Unsettled
<1>2. p \in Known(mem[r]) /\ call[r].kind # "idle"
  BY <1>1, Busy DEF TypeInv, CallInv, CallOK, DotInv
<1>3. Moves(r)
  BY <1>1, LeaveMoves DEF TypeInv
<1>4. w.content \in Contents \cup {None} /\ s.hash \in Contents \cup {None}
  BY <1>2, CurrentState, WinnerType, StateElim DEF TypeInv
<1>5. ASSUME NEW h \in Contents \cup {None}, CommitState(r, Settled(r, h), p, FALSE)
      PROVE  DotInv'
  <2>1. mem[r].counter \in Nat /\ Fits(mem[r], r)
    BY ViewElim DEF TypeInv, DataInv, DotInv, DataDots
  <2>2. /\ Settled(r, h) \in Views /\ Known(Settled(r, h)) = Known(mem[r])
        /\ Settled(r, h).counter = mem[r].counter
    BY <1>2, SettledType DEF TypeInv
  <2>3. Fits(Settled(r, h), r)
    BY <1>2, <2>1, SettledFits
  <2>4. /\ p \in Known(Settled(r, h)) /\ Known(mem[r]) \subseteq Known(Settled(r, h))
        /\ mem[r].counter <= Settled(r, h).counter
    BY <1>2, <2>1, <2>2
  <2> QED
    BY <1>1, <1>2, <1>3, <1>5, <2>2, <2>3, <2>4, StepCommits
<1>6. CASE UNCHANGED <<mem, store, pending>>
  BY <1>1, <1>2, <1>3, <1>6, StepKeeps
<1>7. CASE SettleSame(r)
  <2>1. UNCHANGED <<mem, store, pending>> \/ CommitState(r, Settled(r, s.hash), p, FALSE)
    BY <1>7 DEF SettleSame
  <2> HIDE DEF s
  <2> QED
    BY <1>4, <1>5, <1>6, <2>1
<1>8. CASE SettleSkip(r)
  BY <1>6, <1>8 DEF SettleSkip
<1>9. CASE SettleWrite(r)
  <2>1. CommitState(r, Settled(r, w.content), p, FALSE)
    BY <1>9 DEF SettleWrite
  <2> HIDE DEF w
  <2> QED
    BY <1>4, <1>5, <2>1
<1> QED
  BY <1>7, <1>8, <1>9

LEMMA JoinUpdateDots ==
  ASSUME TypeInv, DotInv, NEW r \in Replicas, JoinUpdate(r)
  PROVE  DotInv'
<1> DEFINE p == call[r].cur
           u == UpdateOf(r, p)
           t == JoinedState(StateOf(mem[r], p), u)
           view == WithState(mem[r], p, t)
<1>1. call[r] \in Calls /\ CallOK(call[r], Known(mem[r])) /\ call[r].pc = "join"
  BY DEF TypeInv, CallInv, JoinUpdate
<1>2. mem[r] \in Views /\ Fits(mem[r], r) /\ mem[r].counter \in Nat
  BY ViewElim DEF TypeInv, DataInv, DotInv, DataDots
<1>3. p \in Paths /\ u \in call[r].page /\ u \in Updates
  <2>1. p \in Paths /\ \E v \in call[r].page : v.path = p
    BY <1>1 DEF CallOK
  <2>2. UpdateOf(r, p) \in call[r].page
    BY <2>1 DEF UpdateOf
  <2> QED
    BY <1>1, <2>1, <2>2 DEF Calls
<1> HIDE DEF u
<1>4. /\ t \in States
      /\ t.seen \in {StateOf(mem[r], p).seen, MergeVV(StateOf(mem[r], p).seen, u.seen)}
      /\ t.diskSeen = StateOf(mem[r], p).diskSeen
  BY <1>2, <1>3, JoinedStateType
<1>5. PICK changed \in BOOLEAN :
        /\ IF changed THEN CommitState(r, view, p, TRUE)
                      ELSE UNCHANGED <<mem, store, pending>>
        /\ call' = [call EXCEPT ![r].pc = "pick", ![r].cur = None, ![r].todo = @ \ {p},
                                ![r].joined = IF changed THEN @ \cup {p} ELSE @]
  BY DEF JoinUpdate, JoinedState, WithState, u
<1>6. Moves(r) /\ sess' = sess /\ call[r].kind # "idle"
  BY <1>1, <1>5, Busy DEF JoinUpdate, TypeInv, CallInv, Calls, Moves, DotInv
<1> HIDE DEF t
<1>7. /\ view \in Views /\ Known(view) = Known(mem[r]) \cup {p}
      /\ view.counter = mem[r].counter /\ view.vv = mem[r].vv /\ view.st[p] = t
      /\ \A q \in Known(mem[r]) : q # p => view.st[q] = mem[r].st[q]
  BY <1>2, <1>3, <1>4, RecordType
<1> HIDE DEF view
<1>8. ASSUME NEW x \in Replicas, NEW n \in Nat, Bounded(mem[r], x, n), u.seen[x] <= n
      PROVE  Bounded(view, x, n)
  <2>1. StateOf(mem[r], p).seen[x] <= n /\ StateOf(mem[r], p).diskSeen[x] <= n
    BY <1>2, <1>8, StateOfBounded
  <2>2. t.seen[x] <= n /\ t.diskSeen[x] <= n
    BY <1>4, <1>8, <2>1, MergeBounded
  <2> QED
    BY <1>7, <1>8, <2>2 DEF Bounded
<1>9. Fits(view, r)
  <2>1. \A x \in Replicas : store[x].counter \in Nat /\ u.seen[x] \in Nat
    BY <1>3, ViewElim DEF TypeInv, DataInv, Updates, Update, VersionVector
  <2>2. \A x \in Replicas : u.seen[x] <= store[x].counter
    BY <1>3 DEF DotInv, ToldDots, Told
  <2>3. u.seen[r] <= mem[r].counter
    BY <1>2, <2>1, <2>2 DEF DotInv, DataDots
  <2> QED
    BY <1>2, <1>7, <1>8, <2>1, <2>2, <2>3 DEF Fits
<1>10. p \in Known(view) /\ Known(mem[r]) \subseteq Known(view) /\ mem[r].counter <= view.counter
  BY <1>2, <1>7
<1>11. CASE changed
  BY <1>5, <1>6, <1>7, <1>9, <1>10, <1>11, StepCommits
<1>12. CASE ~changed
  BY <1>5, <1>6, <1>12, StepKeeps
<1> QED
  BY <1>11, <1>12

LEMMA SettleJoinedDots ==
  ASSUME TypeInv, DotInv, NEW r \in Replicas, NEW p \in call[r].joined, SettleJoined(r, p)
  PROVE  DotInv'
<1>1. Moves(r) /\ UNCHANGED <<mem, store, pending, sess>>
  BY DEF SettleJoined, TypeInv, CallInv, Calls, Moves
<1>2. call[r].kind # "idle"
  BY Busy DEF DotInv
<1> QED
  BY <1>1, <1>2, StepKeeps

LEMMA FinishDots ==
  ASSUME TypeInv, DotInv, NEW r \in Replicas, Finish(r)
  PROVE  DotInv'
<1>1. Flush(r) /\ mem' = mem /\ call' = [call EXCEPT ![r] = Idle]
  BY DEF Finish
<1>2. /\ call'[r] = Idle /\ \A q \in Replicas \ {r} : call'[q] = call[q]
      /\ \A q \in Replicas : /\ sess'[q].heard \in {sess[q].heard, NoVersions}
                             /\ sess'[q].updates \subseteq sess[q].updates
  BY <1>1 DEF Finish, TypeInv, CallInv, SessInv, Sessions
<1> QED
  BY <1>1, <1>2, StepFlushes

-----------------------------------------------------------------------------
(* Steps of everybody else *)

LEMMA WorldDots ==
  ASSUME TypeInv, DotInv, UNCHANGED <<mem, store, pending, call, sess>>
  PROVE  DotInv'
BY DEF DotInv, DataDots, Fits, Bounded, Known, ToldDots, Told, IdleFlushed

\* A crash takes the counter back to the stored one, which bounds all others know.
LEMMA CrashDots ==
  ASSUME TypeInv, DotInv, NEW r \in Replicas, Crash(r)
  PROVE  DotInv'
<1>1. mem \in [Replicas -> Views] /\ store \in [Replicas -> Views] /\ pending \in [Replicas -> SUBSET Paths]
  BY DEF TypeInv, DataInv
<1>2. /\ store' = store /\ mem' = [mem EXCEPT ![r] = store[r]] /\ pending' = [pending EXCEPT ![r] = {}]
      /\ call' = [call EXCEPT ![r] = Idle]
  BY DEF Crash
<1>3. DataDots'
  <2>1. \A x \in Replicas : store[x].counter \in Nat
    BY <1>1, ViewElim
  <2>2. \A q \in Replicas : mem'[q] = IF q = r THEN store[r] ELSE mem[q]
    BY <1>1, <1>2
  <2>3. \A q \in Replicas : pending'[q] = IF q = r THEN {} ELSE pending[q]
    BY <1>1, <1>2
  <2>4. \A q \in Replicas : /\ store[q].counter <= mem'[q].counter
                            /\ Fits(mem'[q], q) /\ Fits(store[q], q)
                            /\ pending'[q] = {} => mem'[q].counter = store[q].counter
    BY <2>1, <2>2, <2>3 DEF DotInv, DataDots
  <2> QED
    BY <1>2, <2>4 DEF DataDots, Fits, Bounded, Known
<1>4. ToldDots'
  <2>1. \A q \in Replicas : /\ sess'[q].heard \in {sess[q].heard, NoVersions}
                            /\ sess'[q].updates \subseteq sess[q].updates
    BY NoSessionType DEF Crash
  <2>2. \A q \in Replicas : call'[q].page \subseteq call[q].page
    BY <1>2 DEF TypeInv, CallInv, Idle
  <2>3. \A x \in Replicas : store'[x].counter \in Nat /\ store[x].counter <= store'[x].counter
    BY <1>1, <1>2, ViewElim
  <2> QED
    BY <2>1, <2>2, <2>3, ToldKept DEF DotInv
<1>5. IdleFlushed'
  BY <1>1, <1>2 DEF DotInv, IdleFlushed, TypeInv, CallInv
<1> QED
  BY <1>3, <1>4, <1>5 DEF DotInv

LEMMA StartCallDots ==
  ASSUME TypeInv, DotInv, NEW r \in Replicas, NEW kind \in {"scan", "apply", "fetch"},
         NEW todo, NEW page \in SUBSET sess[r].updates, StartCall(r, kind, todo, page)
  PROVE  DotInv'
<1> DEFINE c == [Idle EXCEPT !.kind = kind, !.todo = todo, !.page = page]
<1>1. c.kind = kind /\ c.page = page
  BY DEF Idle
<1>2. call' = [call EXCEPT ![r] = c] /\ UNCHANGED <<mem, store, pending, sess>>
  BY DEF StartCall
<1> HIDE DEF c
<1>3. DataDots'
  BY <1>2, DataKept DEF DotInv
<1>4. ToldDots'
  <2>1. \A q \in Replicas : call'[q].page \subseteq call[q].page \cup sess[q].updates
    BY <1>1, <1>2 DEF TypeInv, CallInv
  <2>2. \A x \in Replicas : store[x].counter \in Nat
    BY ViewElim DEF TypeInv, DataInv
  <2> QED
    BY <1>2, <2>1, <2>2, ToldKept DEF DotInv
<1>5. IdleFlushed'
  BY <1>1, <1>2 DEF DotInv, IdleFlushed, TypeInv, CallInv
<1> QED
  BY <1>3, <1>4, <1>5 DEF DotInv

LEMMA StartDots ==
  ASSUME TypeInv, DotInv, NEW r \in Replicas, StartScan(r) \/ StartApply(r) \/ StartFetch(r)
  PROVE  DotInv'
<1>1. CASE StartScan(r)
  BY <1>1, StartCallDots DEF StartScan
<1>2. CASE StartApply(r)
  <2>1. PICK page \in SUBSET sess[r].updates : StartCall(r, "apply", { u.path : u \in page }, page)
    BY <1>2 DEF StartApply
  <2> QED
    BY <2>1, StartCallDots
<1>3. CASE StartFetch(r)
  BY <1>3, StartCallDots DEF StartFetch
<1> QED
  BY <1>1, <1>2, <1>3

\* What a peer says and sends is bounded by what is stored: it says it while no state
\* of its own is pending, and sends what its store holds.
LEMMA SessionDots ==
  ASSUME TypeInv, DotInv, NEW r \in Replicas,
         (\E s \in Replicas : Hello(r, s)) \/ Pages(r) \/ EndSession(r)
  PROVE  DotInv'
<1>1. UNCHANGED <<mem, store, pending, call>>
  BY DEF Hello, Pages, EndSession
<1>2. DataDots' /\ IdleFlushed'
  BY <1>1, DataKept DEF DotInv, IdleFlushed
<1>3. /\ \A x \in Replicas : store[x].counter \in Nat
      /\ sess \in [Replicas -> Sessions]
  BY ViewElim DEF TypeInv, DataInv, SessInv
<1>4. ASSUME NEW s \in Replicas, Hello(r, s)
      PROVE  ToldDots'
  <2>1. sess' = [sess EXCEPT ![r] = [NoSession EXCEPT !.from = s, !.said = mem[r].vv, !.heard = mem[s].vv]]
    BY <1>4 DEF Hello
  <2>2. sess'[r].heard = mem[s].vv /\ sess'[r].updates = {}
    BY <1>3, <2>1 DEF NoSession
  <2>3. call[s].kind = "idle"
    <3>1. call[s] = Idle
      BY <1>4 DEF Hello
    <3> QED
      BY <3>1 DEF Idle
  <2>4. mem[s].counter = store[s].counter
    BY <2>3 DEF DotInv, IdleFlushed, DataDots
  <2>5. \A x \in Replicas : mem[s].vv[x] <= store[x].counter
    BY <2>4 DEF DotInv, DataDots, Fits, Bounded
  <2>6. \A q \in Replicas \ {r} : sess'[q] = sess[q]
    BY <1>3, <2>1
  <2> QED
    BY <1>1, <2>2, <2>5, <2>6 DEF DotInv, ToldDots, Told
<1>5. ASSUME Pages(r) PROVE ToldDots'
  <2>1. sess[r].from \in Replicas
    BY <1>5 DEF Pages, TypeInv, SessInv, Sessions
  <2>2. sess' = [sess EXCEPT ![r].sent = TRUE,
                             ![r].updates = DeltaFor(store[sess[r].from], sess[r].said)]
    BY <1>5 DEF Pages
  <2>3. /\ sess'[r].heard = sess[r].heard
        /\ sess'[r].updates = DeltaFor(store[sess[r].from], sess[r].said)
        /\ \A q \in Replicas \ {r} : sess'[q] = sess[q]
    BY <1>3, <2>2 DEF Sessions
  <2>4. Fits(store[sess[r].from], sess[r].from)
    BY <2>1 DEF DotInv, DataDots
  <2>5. \A x \in Replicas : \A p \in Known(store[sess[r].from]) :
          store[sess[r].from].st[p].seen[x] <= store[x].counter
    BY <2>4 DEF Fits, Bounded
  <2>6. \A u \in sess'[r].updates : \E p \in Known(store[sess[r].from]) :
          u.seen = store[sess[r].from].st[p].seen
    BY <2>3 DEF DeltaFor
  <2>7. \A x \in Replicas : \A u \in sess'[r].updates : u.seen[x] <= store[x].counter
    BY <2>5, <2>6
  <2> QED
    BY <1>1, <2>3, <2>7 DEF DotInv, ToldDots, Told
<1>6. ASSUME EndSession(r) PROVE ToldDots'
  <2>1. \A q \in Replicas : /\ sess'[q].heard \in {sess[q].heard, NoVersions}
                            /\ sess'[q].updates \subseteq sess[q].updates
    BY <1>3, <1>6, NoSessionType DEF EndSession
  <2> QED
    BY <1>1, <1>3, <2>1, ToldKept DEF DotInv
<1>7. ToldDots'
  BY <1>4, <1>5, <1>6
<1> QED
  BY <1>2, <1>7 DEF DotInv

LEMMA CommitSessionDots ==
  ASSUME TypeInv, DotInv, NEW r \in Replicas, CommitSession(r)
  PROVE  DotInv'
<1> DEFINE view == WithVector(mem[r], sess[r].heard)
<1>1. /\ mem' = [mem EXCEPT ![r] = view] /\ store' = [store EXCEPT ![r] = view]
      /\ pending' = [pending EXCEPT ![r] = {}]
      /\ sess' = [sess EXCEPT ![r] = NoSession] /\ call' = call
  BY DEF CommitSession, WithVector
<1>2. /\ mem[r] \in Views /\ Fits(mem[r], r) /\ mem[r].counter \in Nat
      /\ sess[r].heard \in VersionVector /\ store \in [Replicas -> Views]
      /\ \A x \in Replicas : store[x].counter \in Nat
  BY ViewElim DEF TypeInv, DataInv, DotInv, DataDots, SessInv, Sessions
<1>3. /\ view \in Views /\ Known(view) = Known(mem[r]) /\ view.st = mem[r].st
      /\ view.counter = mem[r].counter /\ view.vv = MergeVV(mem[r].vv, sess[r].heard)
  BY <1>2, WithVectorType
<1> HIDE DEF view
<1>4. Fits(view, r)
  <2>1. \A x \in Replicas : sess[r].heard[x] <= store[x].counter /\ sess[r].heard[x] \in Nat
    BY <1>2 DEF DotInv, ToldDots, Told, VersionVector
  <2>2. sess[r].heard[r] <= mem[r].counter
    BY <1>2, <2>1 DEF DotInv, DataDots
  <2>3. ASSUME NEW x \in Replicas, NEW n \in Nat, Bounded(mem[r], x, n), sess[r].heard[x] <= n
        PROVE  Bounded(view, x, n)
    <3>1. view.vv[x] <= n
      BY <1>3, <2>3, MergeBounded DEF Bounded
    <3> QED
      BY <1>3, <2>3, <3>1 DEF Bounded
  <2> QED
    BY <1>2, <1>3, <2>1, <2>2, <2>3 DEF Fits
<1>5. /\ mem[r].counter <= view.counter /\ view.counter = store'[r].counter
      /\ \A q \in Replicas \ {r} : pending'[q] = pending[q]
  BY <1>1, <1>2, <1>3 DEF TypeInv, DataInv
<1>6. DataDots' /\ \A x \in Replicas : store[x].counter <= store'[x].counter
  BY <1>1, <1>3, <1>4, <1>5, WriteBack DEF DotInv
<1>7. ToldDots'
  <2>1. \A q \in Replicas : /\ sess'[q].heard \in {sess[q].heard, NoVersions}
                            /\ sess'[q].updates \subseteq sess[q].updates
    BY <1>1, NoSessionType DEF TypeInv, SessInv
  <2>2. \A x \in Replicas : store'[x].counter \in Nat
    BY <1>1, <1>2, <1>3
  <2> QED
    BY <1>1, <1>6, <2>1, <2>2, ToldKept DEF DotInv
<1>8. IdleFlushed'
  BY <1>1 DEF DotInv, IdleFlushed, TypeInv, DataInv
<1> QED
  BY <1>6, <1>7, <1>8 DEF DotInv

LEMMA NextDots == TypeInv /\ DotInv /\ [Next]_vars => DotInv'
<1> SUFFICES ASSUME TypeInv, DotInv, [Next]_vars PROVE DotInv'
  OBVIOUS
<1>1. CASE UNCHANGED vars
  BY <1>1, WorldDots DEF vars
<1>2. ASSUME NEW r \in Replicas, CallStep(r)
      PROVE  DotInv'
  BY <1>2, TakeDots, ReconcileDots, CopyDots, FlushVersionsDots, SettleDots, JoinUpdateDots,
     SettleJoinedDots, FinishDots DEF CallStep
<1>3. ASSUME NEW r \in Replicas, SessionStep(r)
      PROVE  DotInv'
  BY <1>3, SessionDots, StartDots, CommitSessionDots DEF SessionStep
<1>4. ASSUME NEW r \in Replicas, UserEdit(r) \/ Unmount(r) \/ Mount(r) \/ SomeContent(r)
      PROVE  DotInv'
  BY <1>4, WorldDots DEF UserEdit, UserWrite, UserDelete, Unmount, Mount, SomeContent, Content
<1> QED
  BY <1>1, <1>2, <1>3, <1>4, CrashDots, StartDots, SessionDots DEF Next

\* The inductive invariant behind DotsDoNotEscape: the counter in r's store bounds what
\* every other replica, session and page knows of r's writes, and an idle replica has
\* nothing pending but its clock, so what Hello and delta_for say is in the store.
THEOREM DotInvariant == Spec => [](TypeInv /\ DotInv)
<1>1. Init => TypeInv /\ DotInv
  BY InitType, InitDots
<1>2. TypeInv /\ DotInv /\ [Next]_vars => (TypeInv /\ DotInv)'
  BY NextType, NextDots
<1> QED
  BY <1>1, <1>2, PTL DEF Spec

LEMMA DotInvGivesNoDotEscapes == DotInv => NoDotEscapes
BY DEF DotInv, DataDots, Fits, Bounded, NoDotEscapes, Vectors

\* A dot a crash takes back was never seen outside: whatever is pending, whoever
\* crashes and whatever sessions are under way, no other replica knows more of r's
\* writes than r's store does, so the dots next_entry assigns after a restart are new
\* to everybody.
THEOREM DotsDoNotEscape == Spec => []NoDotEscapes
BY DotInvariant, DotInvGivesNoDotEscapes, PTL

-----------------------------------------------------------------------------
(***************************************************************************)
(* What replicas hold of each other's writes: states that have seen the    *)
(* same hold the same (SameSeenSameVersions), vectors are honest           *)
(* (VectorIsHonest), and the stores implement module Replication           *)
(* (StoreSpreadsWrites).                                                   *)
(*                                                                         *)
(* The argument: take every state of a path there is, in memory, in a      *)
(* store or on its way in a session.  One that has seen a version and no   *)
(* longer holds it holds one that supersedes it in all of them (Causal),   *)
(* which Join and local writes keep.  A write is known abroad only when    *)
(* its author's store has it (AuthorsFirst), so a crash takes back nothing *)
(* that others know; stores are behind memory, never beside it             *)
(* (StoreBehind); no vector claims a write of a path that the path's state *)
(* has not merged (Honest).  The last needs what a session owes: whatever  *)
(* the vector it heard claims has come or is still on its way (Promise),   *)
(* for delta_for left out only what the replica said it has, so that       *)
(* claiming the vector at the commit is honest.                            *)
(*                                                                         *)
(* And of what is recorded: every version is one its author's users made   *)
(* (WritesAreUsers, MissingRootDeletesNothing).  A file is as its users    *)
(* may leave it, or as its record or its winner explains it, of memory and *)
(* of the store alike (Filed), so no call and no start after a crash takes *)
(* what the program itself placed for an edit.                             *)
(***************************************************************************)

(* Where states of a path are *)

\* What a state says of writes.
Pure(s) == [versions |-> s.versions, seen |-> s.seen]

Of(view, p) == Pure(StateOf(view, p))

Transit(p) == { Pure(u) : u \in { v \in UNION { sess[q].updates : q \in Replicas } : v.path = p } }

Objs(p) == { Of(mem[q], p) : q \in Replicas } \cup { Of(store[q], p) : q \in Replicas } \cup Transit(p)

\* The same without what x's calls see: what is left when x crashes.
Abroad(x, p) ==
  { Of(mem[q], p) : q \in Replicas \ {x} } \cup { Of(store[q], p) : q \in Replicas } \cup Transit(p)

\* The n-th write of x is one that a state among O holds, or the last it has seen.
Reached(O, x, n) ==
  \E A \in O : n = A.seen[x] \/ \E e \in A.versions : e.dot.replica = x /\ e.dot.counter = n

\* What w says of writes is what v says.
Same(v, w) == w.vv = v.vv /\ w.counter = v.counter /\ \A p \in Paths : Of(w, p) = Of(v, p)

Ahead(v, w) == Covers(w.vv, v.vv) /\ \A p \in Paths : Covers(Of(w, p).seen, Of(v, p).seen)

DiskBehind(view) == \A p \in Known(view) : Covers(view.st[p].seen, view.st[p].diskSeen)

\* Every write of a path that the view's vector claims has been merged into the path.
HonestView(view) ==
  \A p \in Paths, x \in Replicas, n \in Nat :
    Reached(Objs(p), x, n) /\ n <= view.vv[x] => n <= Of(view, p).seen[x]

\* r's own writes of two paths have different numbers.
Apart(r, view) ==
  \A p, q \in Paths : p # q /\ Of(view, p).seen[r] = Of(view, q).seen[r] => Of(view, p).seen[r] = 0

-----------------------------------------------------------------------------
(* The invariant *)

CausalInv == \A p \in Paths : Causal(Objs(p))

AuthorsFirst ==
  \A p \in Paths, x \in Replicas : \A D \in Abroad(x, p) : D.seen[x] <= Of(store[x], p).seen[x]

StoreBehind ==
  \A r \in Replicas :
    /\ Ahead(store[r], mem[r])
    /\ mem[r].vv[r] = mem[r].counter /\ store[r].vv[r] = store[r].counter
    /\ DiskBehind(mem[r]) /\ DiskBehind(store[r])
    /\ pending[r] = {} => Same(store[r], mem[r])

Honest == \A r \in Replicas : HonestView(mem[r]) /\ HonestView(store[r])

OwnWrites ==
  \A r \in Replicas :
    /\ Apart(r, mem[r]) /\ Apart(r, store[r])
    /\ \A p \in Paths : Of(mem[r], p).seen[r] # Of(store[r], p).seen[r]
                          => store[r].counter < Of(mem[r], p).seen[r]

\* What a call and its session agree on.
InOrder(r) ==
  /\ sess[r].fetched => sess[r].sent /\ sess[r].updates = {}
  /\ call[r].kind \in {"apply", "fetch"} => sess[r].sent
  /\ call[r].kind = "fetch" => sess[r].updates = {}
  /\ call[r].kind # "apply" => call[r].page = {}
  /\ call[r].page \subseteq sess[r].updates
  /\ \A u, v \in sess[r].updates : u.path = v.path => u = v
  /\ \A u \in call[r].page : u.path \in call[r].todo \/ Covers(Of(mem[r], u.path).seen, u.seen)

\* x's n-th write, one of p, has come in r's session or is on its way.
Delivered(r, p, x, n) ==
  IF sess[r].sent
    THEN \/ n <= Of(mem[r], p).seen[x]
         \/ \E u \in sess[r].updates : u.path = p /\ n <= u.seen[x]
    ELSE sess[r].from # 0 => n <= Of(store[sess[r].from], p).seen[x]

Promise(r) ==
  /\ Covers(mem[r].vv, sess[r].said)
  /\ \A p \in Paths, x \in Replicas, n \in Nat :
       Reached(Objs(p), x, n) /\ n <= sess[r].heard[x] => Delivered(r, p, x, n)

DataHist == CausalInv /\ AuthorsFirst /\ StoreBehind /\ Honest /\ OwnWrites

SessHist == \A r \in Replicas : InOrder(r) /\ Promise(r)

HistInv == DataHist /\ SessHist

-----------------------------------------------------------------------------
(* States, wherever they are *)

LEMMA CoversTrans ==
  ASSUME NEW u \in VersionVector, NEW v \in VersionVector, NEW w \in VersionVector,
         Covers(u, v), Covers(v, w)
  PROVE  Covers(u, w)
BY DEF Covers, VersionVector

LEMMA OfType ==
  ASSUME NEW view \in Views, NEW p
  PROVE  /\ Of(view, p) \in Records /\ Of(view, p).seen \in VersionVector
         /\ \A x \in Replicas : Of(view, p).seen[x] \in Nat
         /\ p \in Known(view) => Of(view, p) = Pure(view.st[p])
         /\ p \notin Known(view) => Of(view, p).seen = NoVersions
<1>1. /\ StateOf(view, p).seen \in VersionVector
      /\ StateOf(view, p).versions \subseteq Entry
  BY StateOfType DEF PathState
<1> QED
  BY <1>1, NoStateType DEF Of, Pure, Records, StateOf, VersionVector

LEMMA MemoryType ==
  ASSUME TypeInv, NEW r \in Replicas
  PROVE  /\ mem \in [Replicas -> Views] /\ store \in [Replicas -> Views]
         /\ mem[r] \in Views /\ store[r] \in Views
         /\ mem[r].counter \in Nat /\ store[r].counter \in Nat
         /\ mem[r].vv \in VersionVector /\ store[r].vv \in VersionVector
         /\ sess \in [Replicas -> Sessions] /\ sess[r] \in Sessions
         /\ sess[r].heard \in VersionVector /\ sess[r].said \in VersionVector
         /\ \A x \in Replicas : /\ mem[r].vv[x] \in Nat /\ store[r].vv[x] \in Nat
                                /\ sess[r].heard[x] \in Nat /\ sess[r].said[x] \in Nat
BY ViewElim DEF TypeInv, DataInv, SessInv, Sessions, VersionVector

\* A state that is abroad is one of all of them, and so is what x's calls see.
LEMMA Whereabouts ==
  ASSUME NEW p, NEW x \in Replicas
  PROVE  /\ Objs(p) = Abroad(x, p) \cup {Of(mem[x], p)}
         /\ \A q \in Replicas : Of(mem[q], p) \in Objs(p) /\ Of(store[q], p) \in Objs(p)
         /\ \A q \in Replicas : Of(store[q], p) \in Abroad(x, p)
         /\ \A q \in Replicas : q # x => Of(mem[q], p) \in Abroad(x, p)
         /\ \A q \in Replicas : \A u \in sess[q].updates :
              u.path = p => Pure(u) \in Abroad(x, p)
BY DEF Objs, Abroad, Transit

\* r's writes that anybody knows of are within its counter, those known abroad within
\* the counter it has stored.
LEMMA OwnBound ==
  ASSUME TypeInv, DotInv, NEW r \in Replicas, NEW p
  PROVE  /\ \A D \in Objs(p) : D.seen[r] \in Nat /\ D.seen[r] <= mem[r].counter
         /\ \A D \in Abroad(r, p) : D.seen[r] <= store[r].counter
         /\ store[r].counter <= mem[r].counter
<1>1. /\ mem[r].counter \in Nat /\ store[r].counter \in Nat /\ store[r].counter <= mem[r].counter
  BY MemoryType DEF DotInv, DataDots
<1>2. ASSUME NEW q \in Replicas
      PROVE  /\ Of(mem[q], p).seen[r] \in Nat /\ Of(store[q], p).seen[r] \in Nat
             /\ Of(store[q], p).seen[r] <= store[r].counter
             /\ q # r => Of(mem[q], p).seen[r] <= store[r].counter
             /\ Of(mem[r], p).seen[r] <= mem[r].counter
  <2>1. mem[q] \in Views /\ store[q] \in Views /\ mem[r] \in Views /\ store[r] \in Views
    BY MemoryType
  <2>2. /\ Bounded(store[q], r, store[r].counter)
        /\ q # r => Bounded(mem[q], r, store[r].counter)
        /\ Bounded(mem[r], r, mem[r].counter)
    BY DEF DotInv, DataDots, Fits
  <2>3. ASSUME NEW v \in Views, NEW n \in Nat, Bounded(v, r, n)
        PROVE  Of(v, p).seen[r] <= n
    <3>1. StateOf(v, p).seen[r] <= n
      BY <2>3, StateOfBounded
    <3> QED
      BY <3>1 DEF Of, Pure
  <2> QED
    BY <1>1, <2>1, <2>2, <2>3, OfType
<1>3. \A D \in Transit(p) : D.seen[r] \in Nat /\ D.seen[r] <= store[r].counter
  <2>1. \A q \in Replicas : \A u \in sess[q].updates : u.seen[r] \in Nat /\ u.seen[r] <= store[r].counter
    BY MemoryType DEF Sessions, Updates, Update, VersionVector, DotInv, ToldDots, Told
  <2> QED
    BY <2>1 DEF Transit, Pure
<1> QED
  BY <1>1, <1>2, <1>3 DEF Objs, Abroad

\* A write reached is within its author's counter.
LEMMA ReachedBound ==
  ASSUME TypeInv, DotInv, NEW p \in Paths, Causal(Objs(p)), NEW x \in Replicas, NEW n \in Nat,
         Reached(Objs(p), x, n)
  PROVE  n <= mem[x].counter
<1>1. PICK A \in Objs(p) : n = A.seen[x] \/ \E e \in A.versions : e.dot.replica = x /\ e.dot.counter = n
  BY DEF Reached
<1>2. A.seen[x] \in Nat /\ A.seen[x] <= mem[x].counter /\ mem[x].counter \in Nat
  BY <1>1, OwnBound, MemoryType
<1>3. \A e \in A.versions : CoversDot(A.seen, e.dot)
  BY <1>1 DEF Causal, Dotted
<1> QED
  BY <1>1, <1>2, <1>3 DEF CoversDot

-----------------------------------------------------------------------------
(* What one step makes of a path *)

\* B fits as r's next state of p: with all states there are, at least what r has, and new to
\* others at most in a write of r's own.
PathGood(r, p, B) ==
  /\ Causal(Objs(p) \cup {B})
  /\ Covers(B.seen, Of(mem[r], p).seen)
  /\ \A x \in Replicas \ {r} : \E D \in Abroad(x, p) : B.seen[x] <= D.seen[x]
  /\ \A x \in Replicas, n \in Nat :
       Reached({B}, x, n) => \/ Reached(Objs(p), x, n)
                             \/ x = r /\ mem[r].counter < n /\ n <= B.seen[r]
  /\ B.seen[r] = Of(mem[r], p).seen[r] \/ mem[r].counter < B.seen[r]

LEMMA SameGood ==
  ASSUME TypeInv, CausalInv, NEW r \in Replicas, NEW p \in Paths
  PROVE  PathGood(r, p, Of(mem[r], p))
<1> DEFINE B == Of(mem[r], p)
<1>1. B \in Objs(p) /\ \A x \in Replicas \ {r} : B \in Abroad(x, p)
  BY Whereabouts
<1>2. \A x \in Replicas : B.seen[x] \in Nat
  BY MemoryType, OfType
<1>3. Causal(Objs(p) \cup {B})
  <2>1. Objs(p) \cup {B} = Objs(p)
    BY <1>1
  <2> QED
    BY <2>1 DEF CausalInv
<1> HIDE DEF B
<1>4. Covers(B.seen, B.seen) /\ \A x \in Replicas \ {r} : \E D \in Abroad(x, p) : B.seen[x] <= D.seen[x]
  BY <1>1, <1>2 DEF Covers
<1>5. \A x, n : Reached({B}, x, n) => Reached(Objs(p), x, n)
  BY <1>1 DEF Reached
<1> QED
  BY <1>3, <1>4, <1>5 DEF PathGood, B

\* Joining an update that came.
LEMMA JoinGood ==
  ASSUME TypeInv, DotInv, CausalInv, AuthorsFirst, StoreBehind,
         NEW r \in Replicas, NEW u \in sess[r].updates, u.path \in Paths
  PROVE  LET J == Join(Of(mem[r], u.path), Pure(u)) IN
         /\ PathGood(r, u.path, J)
         /\ J.seen = MergeVV(Of(mem[r], u.path).seen, u.seen)
         /\ J.seen[r] = Of(mem[r], u.path).seen[r]
<1> DEFINE p == u.path
           A == Of(mem[r], p)
           B == Pure(u)
           J == Join(A, B)
<1>1. A \in Objs(p) /\ B \in Objs(p) /\ \A x \in Replicas \ {r} : A \in Abroad(x, p)
  BY Whereabouts
<1>2. \A x \in Replicas : B \in Abroad(x, p)
  BY Whereabouts
<1>3. u.versions # {} /\ B.versions = u.versions /\ B.seen = u.seen /\ u.seen \in VersionVector
  BY MemoryType DEF Sessions, Updates, Update, Pure
<1>4. A.seen \in VersionVector
  BY MemoryType, OfType
<1>5. Causal(Objs(p))
  BY DEF CausalInv
<1> HIDE DEF A, B, J
<1>6. /\ J.versions # {} /\ J.versions \subseteq A.versions \cup B.versions
      /\ J.seen = MergeVV(A.seen, B.seen) /\ Causal(Objs(p) \cup {J})
  BY <1>1, <1>3, <1>5, JoinCausal DEF J
<1>7. \A x \in Replicas : /\ J.seen[x] \in {A.seen[x], B.seen[x]}
                          /\ A.seen[x] \in Nat /\ B.seen[x] \in Nat
                          /\ A.seen[x] <= J.seen[x] /\ B.seen[x] <= J.seen[x]
  BY <1>3, <1>4, <1>6 DEF MergeVV, VersionVector
<1>8. Covers(J.seen, A.seen)
  BY <1>7 DEF Covers
<1>9. \A x \in Replicas \ {r} : \E D \in Abroad(x, p) : J.seen[x] <= D.seen[x]
  BY <1>1, <1>2, <1>7
<1>10. \A x \in Replicas, n \in Nat : Reached({J}, x, n) => Reached(Objs(p), x, n)
  BY <1>1, <1>6, <1>7 DEF Reached
<1>11. J.seen[r] = A.seen[r]
  <2>1. B.seen[r] <= Of(store[r], p).seen[r]
    BY <1>2 DEF AuthorsFirst
  <2>2. Of(store[r], p).seen[r] <= A.seen[r] /\ Of(store[r], p).seen[r] \in Nat
    BY MemoryType, OfType DEF StoreBehind, Ahead, Covers, A
  <2> QED
    BY <1>7, <2>1, <2>2
<1>12. PathGood(r, p, J)
  BY <1>6, <1>8, <1>9, <1>10, <1>11 DEF PathGood, A
<1> QED
  BY <1>3, <1>6, <1>11, <1>12 DEF A, B, J

\* A local write: next_entry's dot, in a context of what the path had merged.
LEMMA WriteGood ==
  ASSUME TypeInv, DotInv, CausalInv, AuthorsFirst, StoreBehind,
         NEW r \in Replicas, NEW p \in Paths, NEW e \in Entry, NEW c \in VersionVector,
         e.dot = NextDot(r, mem[r]), c[r] = mem[r].counter + 1,
         \A x \in Replicas \ {r} : c[x] <= Of(mem[r], p).seen[x]
  PROVE  LET J == Join(Of(mem[r], p), [versions |-> {e}, seen |-> c]) IN
         /\ PathGood(r, p, J)
         /\ J.seen[r] = mem[r].counter + 1
<1> DEFINE A == Of(mem[r], p)
           J == Join(A, [versions |-> {e}, seen |-> c])
<1>1. A \in Objs(p) /\ \A x \in Replicas \ {r} : A \in Abroad(x, p)
  BY Whereabouts
<1>2. A.seen \in VersionVector /\ mem[r].counter \in Nat
  BY MemoryType, OfType
<1>3. Causal(Objs(p))
  BY DEF CausalInv
<1>4. e.dot.replica = r /\ e.dot.counter = mem[r].counter + 1
  BY DEF NextDot
<1>5. \A D \in Objs(p) : D.seen[r] \in Nat /\ D.seen[r] <= mem[r].counter /\ D.seen[r] <= A.seen[r]
  <2>1. ASSUME NEW D \in Abroad(r, p)
        PROVE  D.seen[r] <= Of(store[r], p).seen[r]
    BY <2>1 DEF AuthorsFirst
  <2>2. Of(store[r], p).seen[r] <= A.seen[r] /\ Of(store[r], p).seen[r] \in Nat /\ A.seen[r] \in Nat
    BY MemoryType, OfType DEF StoreBehind, Ahead, Covers
  <2>3. \A D \in Objs(p) : D = A \/ D \in Abroad(r, p)
    BY Whereabouts
  <2>4. \A D \in Objs(p) : D.seen[r] \in Nat /\ D.seen[r] <= mem[r].counter
    BY OwnBound
  <2> HIDE DEF A
  <2> QED
    BY <2>1, <2>2, <2>3, <2>4
<1> HIDE DEF A, J
<1>6. CoversDot(c, e.dot) /\ \A D \in Objs(p) : ~CoversDot(D.seen, e.dot)
  BY <1>2, <1>4, <1>5 DEF CoversDot
<1>7. \A x \in Replicas \ {r} : c[x] <= A.seen[x]
  BY DEF A
<1>8. /\ e \in J.versions /\ J.versions \subseteq A.versions \cup {e}
      /\ J.seen = MergeVV(A.seen, c)
      /\ Causal(Objs(p) \cup {J})
  BY <1>1, <1>3, <1>4, <1>5, <1>6, <1>7, WriteCausal DEF J
<1>9. /\ \A x \in Replicas \ {r} : J.seen[x] = A.seen[x] /\ A.seen[x] \in Nat
      /\ J.seen[r] = mem[r].counter + 1 /\ A.seen[r] <= J.seen[r] /\ A.seen[r] \in Nat
  BY <1>1, <1>2, <1>5, <1>7, <1>8 DEF MergeVV, VersionVector
<1>10. Covers(J.seen, A.seen)
  BY <1>2, <1>9 DEF Covers
<1>11. \A x \in Replicas \ {r} : \E D \in Abroad(x, p) : J.seen[x] <= D.seen[x]
  BY <1>1, <1>9
<1>12. ASSUME NEW x \in Replicas, NEW n \in Nat, Reached({J}, x, n)
       PROVE  \/ Reached(Objs(p), x, n)
              \/ x = r /\ mem[r].counter < n /\ n <= J.seen[r]
  <2>1. CASE n = J.seen[x]
    <3>1. CASE x = r
      BY <1>2, <1>9, <2>1, <3>1
    <3>2. CASE x # r
      BY <1>1, <1>9, <2>1, <3>2 DEF Reached
    <3> QED
      BY <3>1, <3>2
  <2>2. CASE \E f \in J.versions : f.dot.replica = x /\ f.dot.counter = n
    BY <1>1, <1>2, <1>4, <1>8, <1>9, <2>2 DEF Reached
  <2> QED
    BY <1>12, <2>1, <2>2 DEF Reached
<1>13. mem[r].counter < J.seen[r]
  BY <1>2, <1>9
<1>14. PathGood(r, p, J)
  BY <1>8, <1>10, <1>11, <1>12, <1>13 DEF PathGood, A
<1> QED
  BY <1>9, <1>14 DEF A, J

-----------------------------------------------------------------------------
(* What one step makes of a replica's memory *)

\* Recorded: p has a write of r's own, or what r's session brought; or r claims what it heard.
Wrote(r, w, p) ==
  /\ w.counter = mem[r].counter + 1 /\ w.vv = AddDot(mem[r].vv, NextDot(r, mem[r]))
  /\ \E e \in Entry, c \in VersionVector :
       /\ e.dot = NextDot(r, mem[r]) /\ c[r] = mem[r].counter + 1
       /\ \A x \in Replicas \ {r} : c[x] <= Of(mem[r], p).seen[x]
       /\ Of(w, p) = Join(Of(mem[r], p), [versions |-> {e}, seen |-> c])
  /\ \A q \in Paths \ {p} : Of(w, q) = Of(mem[r], q)

Joined(r, w, u) ==
  /\ w.counter = mem[r].counter /\ w.vv = mem[r].vv
  /\ Of(w, u.path) = Join(Of(mem[r], u.path), Pure(u))
  /\ \A q \in Paths \ {u.path} : Of(w, q) = Of(mem[r], q)

Claimed(r, w) ==
  /\ w.counter = mem[r].counter /\ w.vv = MergeVV(mem[r].vv, sess[r].heard)
  /\ sess[r].fetched
  /\ \A q \in Paths : Of(w, q) = Of(mem[r], q)

Evolved(r, w) ==
  /\ w \in Views /\ DiskBehind(w)
  /\ \/ Same(mem[r], w)
     \/ \E p \in Paths : Wrote(r, w, p)
     \/ \E u \in sess[r].updates : Joined(r, w, u)
     \/ Claimed(r, w)

\* What all of these have in common.
Good(r, w) ==
  /\ w \in Views /\ DiskBehind(w)
  /\ w.vv[r] = w.counter /\ Covers(w.vv, mem[r].vv)
  /\ \A p \in Paths : PathGood(r, p, Of(w, p))
  /\ \A p \in Paths, x \in Replicas, n \in Nat :
       Reached(Objs(p), x, n) /\ n <= w.vv[x] => n <= Of(w, p).seen[x]
  /\ \A p, q \in Paths : p # q /\ Of(w, p).seen[r] # Of(mem[r], p).seen[r]
                           => Of(w, q).seen[r] = Of(mem[r], q).seen[r]

\* Only a write has marks of its own under r's vector.
LEMMA NewMarks ==
  ASSUME NEW r, NEW w, \A p \in Paths : PathGood(r, p, Of(w, p)),
         \A p \in Paths, x \in Replicas, n \in Nat :
            Reached(Objs(p), x, n) /\ n <= mem[r].vv[x] => n <= Of(mem[r], p).seen[x],
         w \in Views, mem[r] \in Views
  PROVE  \A p \in Paths, x \in Replicas, n \in Nat :
            Reached(Objs(p), x, n) /\ n <= mem[r].vv[x] => n <= Of(w, p).seen[x]
<1> SUFFICES ASSUME NEW p \in Paths, NEW x \in Replicas, NEW n \in Nat,
                    Reached(Objs(p), x, n), n <= mem[r].vv[x]
             PROVE  n <= Of(w, p).seen[x]
  OBVIOUS
<1>1. n <= Of(mem[r], p).seen[x] /\ Of(mem[r], p).seen[x] <= Of(w, p).seen[x]
  BY DEF PathGood, Covers
<1>2. Of(mem[r], p).seen[x] \in Nat /\ Of(w, p).seen[x] \in Nat
  BY OfType
<1> QED
  BY <1>1, <1>2

LEMMA EvolvedGood ==
  ASSUME TypeInv, DotInv, HistInv, NEW r \in Replicas, NEW w, Evolved(r, w)
  PROVE  Good(r, w)
<1>1. /\ w \in Views /\ mem[r] \in Views /\ DiskBehind(w)
      /\ mem[r].vv \in VersionVector /\ mem[r].counter \in Nat /\ mem[r].vv[r] = mem[r].counter
      /\ \A x \in Replicas : mem[r].vv[x] \in Nat /\ sess[r].heard[x] \in Nat
      /\ \A p \in Paths : PathGood(r, p, Of(mem[r], p))
      /\ \A p \in Paths, x \in Replicas, n \in Nat :
           Reached(Objs(p), x, n) /\ n <= mem[r].vv[x] => n <= Of(mem[r], p).seen[x]
  BY MemoryType, SameGood DEF Evolved, HistInv, DataHist, StoreBehind, Honest, HonestView
<1>2. Covers(mem[r].vv, mem[r].vv)
  BY <1>1 DEF Covers
<1>3. CASE Same(mem[r], w)
  BY <1>1, <1>2, <1>3 DEF Same, Good
<1>4. ASSUME NEW p \in Paths, Wrote(r, w, p)
      PROVE  Good(r, w)
  <2>1. PathGood(r, p, Of(w, p)) /\ Of(w, p).seen[r] = mem[r].counter + 1
    BY <1>4, WriteGood DEF Wrote, HistInv, DataHist
  <2>2. /\ w.counter = mem[r].counter + 1 /\ w.vv = AddDot(mem[r].vv, NextDot(r, mem[r]))
        /\ \A q \in Paths \ {p} : Of(w, q) = Of(mem[r], q)
    BY <1>4 DEF Wrote
  <2>3. \A q \in Paths : PathGood(r, q, Of(w, q))
    BY <1>1, <2>1, <2>2
  <2>4. /\ w.vv[r] = w.counter /\ \A x \in Replicas \ {r} : w.vv[x] = mem[r].vv[x]
    BY <1>1, <2>2 DEF AddDot, NextDot, VersionVector
  <2>5. Covers(w.vv, mem[r].vv)
    BY <1>1, <2>2, <2>4 DEF Covers
  <2>6. \A q \in Paths, x \in Replicas, n \in Nat :
          Reached(Objs(q), x, n) /\ n <= mem[r].vv[x] => n <= Of(w, q).seen[x]
    BY <1>1, <2>3, NewMarks
  <2>7. ASSUME NEW q \in Paths, NEW x \in Replicas, NEW n \in Nat, Reached(Objs(q), x, n), n <= w.vv[x]
        PROVE  n <= Of(w, q).seen[x]
    <3>1. CASE x # r
      BY <2>4, <2>6, <2>7, <3>1
    <3>2. CASE x = r
      <4>1. n <= mem[r].counter
        BY <2>7, <3>2, ReachedBound DEF HistInv, DataHist, CausalInv
      <4> QED
        BY <1>1, <2>6, <2>7, <3>2, <4>1
    <3> QED
      BY <3>1, <3>2
  <2>8. \A q, s \in Paths : q # s /\ Of(w, q).seen[r] # Of(mem[r], q).seen[r]
                              => Of(w, s).seen[r] = Of(mem[r], s).seen[r]
    BY <2>2
  <2> QED
    BY <1>1, <2>3, <2>4, <2>5, <2>7, <2>8 DEF Good
<1>5. ASSUME NEW u \in sess[r].updates, Joined(r, w, u)
      PROVE  Good(r, w)
  <2>1. u.path \in Paths
    BY MemoryType DEF Sessions, Updates, Update
  <2>2. PathGood(r, u.path, Of(w, u.path)) /\ Of(w, u.path).seen[r] = Of(mem[r], u.path).seen[r]
    BY <1>5, <2>1, JoinGood DEF Joined, HistInv, DataHist
  <2>3. /\ w.counter = mem[r].counter /\ w.vv = mem[r].vv
        /\ \A q \in Paths \ {u.path} : Of(w, q) = Of(mem[r], q)
    BY <1>5 DEF Joined
  <2>4. \A q \in Paths : PathGood(r, q, Of(w, q)) /\ Of(w, q).seen[r] = Of(mem[r], q).seen[r]
    BY <1>1, <2>2, <2>3
  <2>5. \A q \in Paths, x \in Replicas, n \in Nat :
          Reached(Objs(q), x, n) /\ n <= mem[r].vv[x] => n <= Of(w, q).seen[x]
    BY <1>1, <2>4, NewMarks
  <2> QED
    BY <1>1, <1>2, <2>3, <2>4, <2>5 DEF Good
<1>6. CASE Claimed(r, w)
  <2>1. /\ w.counter = mem[r].counter /\ w.vv = MergeVV(mem[r].vv, sess[r].heard)
        /\ sess[r].fetched
        /\ \A q \in Paths : Of(w, q) = Of(mem[r], q)
    BY <1>6 DEF Claimed
  <2>2. sess[r].heard[r] <= mem[r].counter
    <3>1. sess[r].heard[r] <= store[r].counter /\ store[r].counter <= mem[r].counter
      BY DEF DotInv, ToldDots, Told, DataDots
    <3> QED
      BY <1>1, <3>1, MemoryType
  <2>3. w.vv[r] = w.counter /\ Covers(w.vv, mem[r].vv)
    BY <1>1, <2>1, <2>2 DEF MergeVV, Covers
  <2>4. \A x \in Replicas : w.vv[x] \in {mem[r].vv[x], sess[r].heard[x]}
    BY <2>1 DEF MergeVV
  <2>5. ASSUME NEW q \in Paths, NEW x \in Replicas, NEW n \in Nat, Reached(Objs(q), x, n), n <= w.vv[x]
        PROVE  n <= Of(w, q).seen[x]
    <3>1. CASE n <= mem[r].vv[x]
      BY <1>1, <2>1, <2>5, <3>1
    <3>2. CASE n <= sess[r].heard[x]
      <4>1. sess[r].sent /\ sess[r].updates = {}
        BY <2>1 DEF HistInv, SessHist, InOrder
      <4>2. Delivered(r, q, x, n)
        BY <2>5, <3>2 DEF HistInv, SessHist, Promise
      <4> QED
        BY <2>1, <4>1, <4>2 DEF Delivered
    <3> QED
      BY <2>4, <2>5, <3>1, <3>2
  <2> QED
    BY <1>1, <2>1, <2>3, <2>5 DEF Good
<1> QED
  BY <1>3, <1>4, <1>5, <1>6 DEF Evolved

-----------------------------------------------------------------------------
(* Steps that write back *)

\* r's memory is w, and it is stored or nothing is.
WroteBack(r, w) ==
  /\ mem' = [mem EXCEPT ![r] = w]
  /\ store' \in {store, [store EXCEPT ![r] = w]}
  /\ \A q \in Replicas \ {r} : pending'[q] = pending[q]
  /\ pending'[r] = {} => Same(store'[r], w)

\* What is sent comes from a store.
FromStores ==
  \A q \in Replicas : \A u \in sess'[q].updates :
    u \in sess[q].updates \/ \E s \in Replicas : Pure(u) = Of(store[s], u.path)

\* Marks of writes that a step adds are of r's own and new.
Fresh(r, w) ==
  \A p \in Paths, x \in Replicas, n \in Nat :
    Reached(Objs(p)', x, n) =>
      \/ Reached(Objs(p), x, n)
      \/ x = r /\ mem[r].counter < n /\ n <= Of(w, p).seen[r]

LEMMA AheadTrans ==
  ASSUME NEW u \in Views, NEW v \in Views, NEW w \in Views, Ahead(u, v), Ahead(v, w)
  PROVE  Ahead(u, w) /\ Ahead(w, w)
<1>1. /\ \A x \in Replicas : u.vv[x] \in Nat /\ v.vv[x] \in Nat /\ w.vv[x] \in Nat
      /\ \A p \in Paths, x \in Replicas :
           Of(u, p).seen[x] \in Nat /\ Of(v, p).seen[x] \in Nat /\ Of(w, p).seen[x] \in Nat
  BY ViewElim, OfType DEF VersionVector
<1> QED
  BY <1>1 DEF Ahead, Covers

LEMMA Elsewhere ==
  ASSUME TypeInv, NEW r \in Replicas, NEW w, WroteBack(r, w), FromStores, NEW p
  PROVE  /\ Objs(p)' \subseteq Objs(p) \cup {Of(w, p)}
         /\ \A x \in Replicas : \A D \in Abroad(x, p)' :
              \/ D \in Abroad(x, p)
              \/ D = Of(w, p) /\ x # r
              \/ D = Of(store'[x], p)
         /\ mem'[r] = w /\ store'[r] \in {store[r], w}
         /\ \A q \in Replicas \ {r} : mem'[q] = mem[q] /\ store'[q] = store[q]
<1>1. /\ mem'[r] = w /\ store'[r] \in {store[r], w}
      /\ \A q \in Replicas \ {r} : mem'[q] = mem[q] /\ store'[q] = store[q]
  BY MemoryType DEF WroteBack
<1>2. \A D \in Transit(p)' : D \in Transit(p) \/ \E s \in Replicas : D = Of(store[s], p)
  BY DEF Transit, FromStores
<1>3. Objs(p)' \subseteq Objs(p) \cup {Of(w, p)}
  BY <1>1, <1>2 DEF Objs
<1>4. ASSUME NEW x \in Replicas, NEW D \in Abroad(x, p)'
      PROVE  \/ D \in Abroad(x, p)
             \/ D = Of(w, p) /\ x # r
             \/ D = Of(store'[x], p)
  <2>1. CASE \E q \in Replicas \ {x} : D = Of(mem'[q], p)
    BY <1>1, <2>1 DEF Abroad
  <2>2. CASE \E q \in Replicas : D = Of(store'[q], p)
    BY <1>1, <2>2 DEF Abroad
  <2>3. CASE D \in Transit(p)'
    BY <1>2, <2>3 DEF Abroad
  <2> QED
    BY <1>4, <2>1, <2>2, <2>3 DEF Abroad
<1> QED
  BY <1>1, <1>3, <1>4

LEMMA MarksFresh ==
  ASSUME TypeInv, NEW r \in Replicas, NEW w, Good(r, w), WroteBack(r, w), FromStores
  PROVE  Fresh(r, w)
<1> SUFFICES ASSUME NEW p \in Paths, NEW x \in Replicas, NEW n \in Nat, Reached(Objs(p)', x, n)
             PROVE  \/ Reached(Objs(p), x, n)
                    \/ x = r /\ mem[r].counter < n /\ n <= Of(w, p).seen[r]
  BY DEF Fresh
<1>1. Objs(p)' \subseteq Objs(p) \cup {Of(w, p)}
  BY Elsewhere
<1>2. Reached(Objs(p), x, n) \/ Reached({Of(w, p)}, x, n)
  BY <1>1 DEF Reached
<1> QED
  BY <1>2 DEF Good, PathGood

LEMMA AheadStep ==
  ASSUME TypeInv, HistInv, NEW r \in Replicas, NEW w, Good(r, w), WroteBack(r, w), FromStores
  PROVE  /\ Ahead(mem[r], w) /\ Ahead(store[r], w)
         /\ \A q \in Replicas : Ahead(mem[q], mem'[q]) /\ Ahead(store[q], store'[q])
<1>1. /\ mem'[r] = w /\ store'[r] \in {store[r], w} /\ w \in Views
      /\ \A q \in Replicas \ {r} : mem'[q] = mem[q] /\ store'[q] = store[q]
      /\ \A q \in Replicas : mem[q] \in Views /\ store[q] \in Views
  BY Elsewhere, MemoryType DEF Good
<1>2. \A q \in Replicas : Ahead(store[q], mem[q])
  BY DEF HistInv, DataHist, StoreBehind
<1>3. Ahead(mem[r], w)
  BY DEF Good, PathGood, Ahead
<1>4. ASSUME NEW v \in Views PROVE Ahead(v, v)
  BY ViewElim, OfType DEF VersionVector, Ahead, Covers
<1> QED
  BY <1>1, <1>2, <1>3, <1>4, AheadTrans

\* What a step may do to the stores: write one back, once its path states are Good.
Stored == store' = store \/ \E r \in Replicas, w \in Views : Good(r, w) /\ WroteBack(r, w)

LEMMA DataStep ==
  ASSUME TypeInv, DotInv, HistInv, NEW r \in Replicas, NEW w, Good(r, w), WroteBack(r, w), FromStores
  PROVE  DataHist' /\ Stored
<1>1. /\ mem'[r] = w /\ store'[r] \in {store[r], w} /\ w \in Views
      /\ \A q \in Replicas \ {r} : mem'[q] = mem[q] /\ store'[q] = store[q]
      /\ \A q \in Replicas : mem[q] \in Views /\ store[q] \in Views
      /\ mem'[r] \in Views /\ store'[r] \in Views
  BY Elsewhere, MemoryType DEF Good
<1>2. /\ Ahead(mem[r], w) /\ Ahead(store[r], w)
      /\ \A q \in Replicas : Ahead(mem[q], mem'[q]) /\ Ahead(store[q], store'[q])
  BY AheadStep
<1>3. CausalInv'
  <2>1. ASSUME NEW p \in Paths PROVE Causal(Objs(p))'
    <3>1. Causal(Objs(p) \cup {Of(w, p)}) /\ Objs(p)' \subseteq Objs(p) \cup {Of(w, p)}
      BY Elsewhere DEF Good, PathGood
    <3> QED
      BY <3>1, CausalSubset
  <2> QED
    BY <2>1 DEF CausalInv
<1>4. AuthorsFirst'
  <2> SUFFICES ASSUME NEW p \in Paths, NEW x \in Replicas, NEW D \in Abroad(x, p)'
               PROVE  D.seen[x] <= Of(store'[x], p).seen[x]
    BY DEF AuthorsFirst
  <2>1. /\ Of(store[x], p).seen[x] <= Of(store'[x], p).seen[x]
        /\ Of(store[x], p).seen[x] \in Nat /\ Of(store'[x], p).seen[x] \in Nat
    BY <1>1, <1>2, OfType DEF Ahead, Covers
  <2>2. ASSUME NEW E \in Abroad(x, p)
        PROVE  E.seen[x] \in Nat /\ E.seen[x] <= Of(store'[x], p).seen[x]
    <3>1. E.seen[x] \in Nat
      BY Whereabouts, OwnBound
    <3>2. E.seen[x] <= Of(store[x], p).seen[x]
      BY DEF HistInv, DataHist, AuthorsFirst
    <3> QED
      BY <2>1, <3>1, <3>2
  <2>3. CASE D = Of(w, p) /\ x # r
    <3>1. PICK E \in Abroad(x, p) : Of(w, p).seen[x] <= E.seen[x]
      BY <2>3 DEF Good, PathGood
    <3>2. Of(w, p).seen[x] \in Nat
      BY <1>1, OfType
    <3> QED
      BY <2>1, <2>2, <2>3, <3>1, <3>2
  <2>4. CASE D = Of(store'[x], p)
    BY <2>1, <2>4
  <2> QED
    BY <2>2, <2>3, <2>4, Elsewhere
<1>5. StoreBehind'
  <2>1. ASSUME NEW q \in Replicas
        PROVE  /\ Ahead(store'[q], mem'[q])
               /\ mem'[q].vv[q] = mem'[q].counter /\ store'[q].vv[q] = store'[q].counter
               /\ DiskBehind(mem'[q]) /\ DiskBehind(store'[q])
               /\ pending'[q] = {} => Same(store'[q], mem'[q])
    <3>1. /\ Ahead(store[q], mem[q])
          /\ mem[q].vv[q] = mem[q].counter /\ store[q].vv[q] = store[q].counter
          /\ DiskBehind(mem[q]) /\ DiskBehind(store[q])
          /\ pending[q] = {} => Same(store[q], mem[q])
      BY DEF HistInv, DataHist, StoreBehind
    <3>2. CASE q # r
      BY <1>1, <3>1, <3>2 DEF WroteBack
    <3>3. CASE q = r
      <4>1. Ahead(w, w)
        BY <1>1, <1>2, <3>1, <3>3, AheadTrans
      <4>2. w.vv[r] = w.counter /\ DiskBehind(w)
        BY DEF Good
      <4>3. pending'[r] = {} => Same(store'[r], w)
        BY DEF WroteBack
      <4> QED
        BY <1>1, <1>2, <3>1, <3>3, <4>1, <4>2, <4>3
    <3> QED
      BY <3>2, <3>3
  <2> QED
    BY <2>1 DEF StoreBehind
<1>6. Honest'
  <2>1. ASSUME NEW v \in Views, HonestView(v), v.vv[r] <= mem[r].counter,
               NEW p \in Paths, NEW x \in Replicas, NEW n \in Nat, Reached(Objs(p)', x, n), n <= v.vv[x]
        PROVE  n <= Of(v, p).seen[x]
    <3>1. Reached(Objs(p), x, n) \/ (x = r /\ mem[r].counter < n)
      BY <2>1, MarksFresh DEF Fresh
    <3>2. v.vv[r] \in Nat /\ mem[r].counter \in Nat
      BY <2>1, ViewVectors, MemoryType
    <3> QED
      BY <2>1, <3>1, <3>2 DEF HonestView
  <2>2. ASSUME NEW p \in Paths, NEW x \in Replicas, NEW n \in Nat, Reached(Objs(p)', x, n), n <= w.vv[x]
        PROVE  n <= Of(w, p).seen[x]
    BY <2>2, MarksFresh DEF Fresh, Good
  <2>3. ASSUME NEW q \in Replicas
        PROVE  /\ HonestView(mem[q]) /\ HonestView(store[q])
               /\ mem[q].vv[r] <= mem[r].counter /\ store[q].vv[r] <= mem[r].counter
    <3>1. /\ Bounded(mem[r], r, mem[r].counter) /\ Bounded(store[r], r, store[r].counter)
          /\ q # r => Bounded(mem[q], r, store[r].counter) /\ Bounded(store[q], r, store[r].counter)
          /\ store[r].counter <= mem[r].counter
      BY DEF DotInv, DataDots, Fits
    <3>2. /\ store[r].counter \in Nat /\ mem[r].counter \in Nat
          /\ mem[q].vv[r] \in Nat /\ store[q].vv[r] \in Nat
      BY MemoryType
    <3>3. HonestView(mem[q]) /\ HonestView(store[q])
      BY DEF HistInv, DataHist, Honest
    <3> QED
      BY <3>1, <3>2, <3>3 DEF Bounded
  <2>4. ASSUME NEW q \in Replicas, NEW v \in {mem'[q], store'[q]}, NEW p \in Paths, NEW x \in Replicas,
               NEW n \in Nat, Reached(Objs(p)', x, n), n <= v.vv[x]
        PROVE  n <= Of(v, p).seen[x]
    <3>1. v = w \/ v = mem[q] \/ v = store[q]
      BY <1>1, <2>4
    <3> QED
      BY <1>1, <2>1, <2>2, <2>3, <2>4, <3>1
  <2> QED
    BY <2>4 DEF Honest, HonestView
<1>7. OwnWrites'
  <2>1. ASSUME NEW q \in Replicas
        PROVE  /\ Apart(q, mem[q]) /\ Apart(q, store[q])
               /\ \A p \in Paths : Of(mem[q], p).seen[q] # Of(store[q], p).seen[q]
                                     => store[q].counter < Of(mem[q], p).seen[q]
    BY DEF HistInv, DataHist, OwnWrites
  <2>2. ASSUME NEW p \in Paths
        PROVE  /\ Of(mem[r], p).seen[r] \in Nat /\ Of(w, p).seen[r] \in Nat
               /\ mem[r].counter \in Nat /\ store[r].counter \in Nat
               /\ store[r].counter <= mem[r].counter
               /\ Of(mem[r], p).seen[r] <= mem[r].counter
               /\ Of(w, p).seen[r] # Of(mem[r], p).seen[r] => mem[r].counter < Of(w, p).seen[r]
    BY <1>1, MemoryType, OfType, OwnBound, Whereabouts DEF Good, PathGood
  <2>3. Apart(r, w)
    <3> SUFFICES ASSUME NEW p \in Paths, NEW q \in Paths, p # q, Of(w, p).seen[r] = Of(w, q).seen[r]
                 PROVE  Of(w, p).seen[r] = 0
      BY DEF Apart
    <3>1. \/ Of(w, p).seen[r] = Of(mem[r], p).seen[r] /\ Of(w, q).seen[r] = Of(mem[r], q).seen[r]
          \/ Of(w, p).seen[r] # Of(mem[r], p).seen[r] /\ Of(w, q).seen[r] = Of(mem[r], q).seen[r]
          \/ Of(w, q).seen[r] # Of(mem[r], q).seen[r] /\ Of(w, p).seen[r] = Of(mem[r], p).seen[r]
      BY DEF Good
    <3> QED
      BY <2>1, <2>2, <3>1 DEF Apart
  <2>4. \A p \in Paths : Of(w, p).seen[r] # Of(store'[r], p).seen[r]
                           => store'[r].counter < Of(w, p).seen[r]
    BY <1>1, <2>1, <2>2
  <2>5. ASSUME NEW q \in Replicas
        PROVE  /\ Apart(q, mem'[q]) /\ Apart(q, store'[q])
               /\ \A p \in Paths : Of(mem'[q], p).seen[q] # Of(store'[q], p).seen[q]
                                     => store'[q].counter < Of(mem'[q], p).seen[q]
    BY <1>1, <2>1, <2>3, <2>4
  <2> QED
    BY <2>5 DEF OwnWrites
<1>8. Stored
  BY <1>1 DEF Stored
<1> QED
  BY <1>3, <1>4, <1>5, <1>6, <1>7, <1>8 DEF DataHist

\* What a session was promised is kept while its replica and the peer's store only gain.
LEMMA PromiseKept ==
  ASSUME TypeInv, DotInv, HistInv, NEW r \in Replicas, NEW w, Good(r, w), WroteBack(r, w), FromStores,
         NEW q \in Replicas,
         sess'[q].from = sess[q].from, sess'[q].said = sess[q].said, sess'[q].heard = sess[q].heard,
         sess'[q].sent = sess[q].sent,
         \A u \in sess[q].updates :
           u \in sess'[q].updates \/ Covers(Of(mem'[q], u.path).seen, u.seen)
  PROVE  Promise(q)'
<1>1. /\ \A s \in Replicas : Ahead(mem[s], mem'[s]) /\ Ahead(store[s], store'[s])
      /\ mem'[r] = w /\ store'[r] \in {store[r], w} /\ w \in Views
      /\ \A s \in Replicas \ {r} : mem'[s] = mem[s] /\ store'[s] = store[s]
      /\ \A s \in Replicas : mem[s] \in Views /\ store[s] \in Views
      /\ sess[q] \in Sessions
  BY AheadStep, Elsewhere, MemoryType DEF Good
<1>2. \A s \in Replicas : mem'[s] \in Views /\ store'[s] \in Views
  BY <1>1
<1>3. Covers(mem'[q].vv, sess[q].said)
  <2>1. Covers(mem[q].vv, sess[q].said) /\ Covers(mem'[q].vv, mem[q].vv)
    BY <1>1 DEF HistInv, SessHist, Promise, Ahead
  <2>2. \A x \in Replicas : mem[q].vv[x] \in Nat /\ mem'[q].vv[x] \in Nat /\ sess[q].said[x] \in Nat
    BY <1>1, <1>2, ViewVectors, MemoryType
  <2> QED
    BY <2>1, <2>2 DEF Covers
<1>4. ASSUME NEW p \in Paths, NEW x \in Replicas, NEW n \in Nat,
             Reached(Objs(p)', x, n), n <= sess[q].heard[x]
      PROVE  Delivered(q, p, x, n)'
  <2>1. Reached(Objs(p), x, n)
    <3>1. SUFFICES ASSUME x = r, mem[r].counter < n PROVE FALSE
      BY <1>4, MarksFresh DEF Fresh
    <3>2. sess[q].heard[r] <= store[r].counter /\ store[r].counter <= mem[r].counter
      BY DEF DotInv, ToldDots, Told, DataDots
    <3>3. sess[q].heard[r] \in Nat /\ store[r].counter \in Nat /\ mem[r].counter \in Nat
      BY MemoryType
    <3> QED
      BY <1>4, <3>1, <3>2, <3>3
  <2>2. Delivered(q, p, x, n)
    BY <1>4, <2>1 DEF HistInv, SessHist, Promise
  <2>3. ASSUME NEW s \in Replicas
        PROVE  /\ n <= Of(mem[s], p).seen[x] => n <= Of(mem'[s], p).seen[x]
               /\ n <= Of(store[s], p).seen[x] => n <= Of(store'[s], p).seen[x]
    <3>1. /\ Of(mem[s], p).seen[x] <= Of(mem'[s], p).seen[x]
          /\ Of(store[s], p).seen[x] <= Of(store'[s], p).seen[x]
      BY <1>1 DEF Ahead, Covers
    <3>2. /\ Of(mem[s], p).seen[x] \in Nat /\ Of(mem'[s], p).seen[x] \in Nat
          /\ Of(store[s], p).seen[x] \in Nat /\ Of(store'[s], p).seen[x] \in Nat
      BY <1>1, <1>2, OfType
    <3> QED
      BY <3>1, <3>2
  <2>4. CASE sess[q].sent
    <3>1. CASE n <= Of(mem[q], p).seen[x]
      BY <2>3, <2>4, <3>1 DEF Delivered
    <3>2. ASSUME NEW u \in sess[q].updates, u.path = p, n <= u.seen[x]
          PROVE  Delivered(q, p, x, n)'
      <4>1. CASE u \in sess'[q].updates
        BY <2>4, <3>2, <4>1 DEF Delivered
      <4>2. CASE Covers(Of(mem'[q], p).seen, u.seen)
        <5>1. u.seen[x] <= Of(mem'[q], p).seen[x]
          BY <4>2 DEF Covers
        <5>2. u.seen[x] \in Nat /\ Of(mem'[q], p).seen[x] \in Nat
          BY <1>1, <1>2, OfType DEF Sessions, Updates, Update, VersionVector
        <5> QED
          BY <2>4, <3>2, <5>1, <5>2 DEF Delivered
      <4> QED
        BY <3>2, <4>1, <4>2
    <3> QED
      BY <2>2, <2>4, <3>1, <3>2 DEF Delivered
  <2>5. CASE ~sess[q].sent
    <3>1. sess[q].from \in Replicas \cup {0}
      BY <1>1 DEF Sessions
    <3> QED
      BY <2>2, <2>3, <2>5, <3>1 DEF Delivered
  <2> QED
    BY <2>4, <2>5
<1> QED
  BY <1>3, <1>4 DEF Promise

\* A session that is over promises nothing.
LEMMA NoPromise ==
  ASSUME NEW q \in Replicas, mem'[q] \in Views, sess'[q] = NoSession
  PROVE  Promise(q)' /\ (call'[q] = Idle => InOrder(q)')
<1>1. /\ sess'[q].said = NoVersions /\ sess'[q].heard = NoVersions /\ ~sess'[q].sent
      /\ sess'[q].from = 0 /\ ~sess'[q].fetched /\ sess'[q].updates = {}
  BY DEF NoSession
<1>2. Covers(mem'[q].vv, NoVersions)
  BY ViewVectors DEF Covers, NoVersions
<1>3. call'[q] = Idle => call'[q].kind = "idle" /\ call'[q].page = {}
  BY DEF Idle
<1> QED
  BY <1>1, <1>2, <1>3 DEF Promise, Delivered, InOrder

\* A replica that a step leaves alone.
LEMMA InOrderKept ==
  ASSUME TypeInv, HistInv, NEW q \in Replicas, mem'[q] \in Views, Ahead(mem[q], mem'[q]),
         sess'[q] = sess[q], call'[q].kind = call[q].kind, call'[q].page = call[q].page,
         call[q].kind = "apply" =>
           \A u \in call[q].page : u.path \in call[q].todo =>
              u.path \in call'[q].todo \/ Covers(Of(mem'[q], u.path).seen, u.seen)
  PROVE  InOrder(q)'
<1>1. InOrder(q) /\ mem[q] \in Views /\ call[q] \in Calls
  BY MemoryType DEF HistInv, SessHist, TypeInv, CallInv
<1>2. ASSUME NEW u \in call[q].page, Covers(Of(mem[q], u.path).seen, u.seen)
      PROVE  Covers(Of(mem'[q], u.path).seen, u.seen)
  <2>1. u.path \in Paths /\ u.seen \in VersionVector
    BY <1>1 DEF Calls, Updates, Update
  <2>2. Covers(Of(mem'[q], u.path).seen, Of(mem[q], u.path).seen)
    BY <2>1 DEF Ahead
  <2>3. \A x \in Replicas : /\ u.seen[x] \in Nat /\ Of(mem[q], u.path).seen[x] \in Nat
                            /\ Of(mem'[q], u.path).seen[x] \in Nat
    BY <1>1, <2>1, OfType DEF VersionVector
  <2> QED
    BY <1>2, <2>2, <2>3 DEF Covers
<1>3. \A u \in call[q].page : u.path \in call'[q].todo \/ Covers(Of(mem'[q], u.path).seen, u.seen)
  BY <1>1, <1>2 DEF InOrder
<1> QED
  BY <1>1, <1>3 DEF InOrder

\* A step of r's call in which its page is not done with any update, and its session stays.
GoesOn(r) ==
  /\ Moves(r) /\ sess' = sess
  /\ call[r].kind = "apply" => call'[r].todo = call[r].todo

LEMMA StepOn ==
  ASSUME TypeInv, DotInv, HistInv, NEW r \in Replicas, NEW w, Evolved(r, w), WroteBack(r, w), GoesOn(r)
  PROVE  HistInv' /\ Stored
<1>1. Good(r, w) /\ FromStores
  BY EvolvedGood DEF GoesOn, FromStores
<1>2. DataHist' /\ Stored
  BY <1>1, DataStep
<1>3. \A q \in Replicas : Promise(q)'
  BY <1>1, PromiseKept DEF GoesOn
<1>4. \A q \in Replicas : mem'[q] \in Views /\ Ahead(mem[q], mem'[q])
  <2>1. mem'[r] = w /\ \A q \in Replicas \ {r} : mem'[q] = mem[q]
    BY <1>1, Elsewhere
  <2>2. \A q \in Replicas : mem'[q] \in Views
    BY <1>1, <2>1, MemoryType DEF Good
  <2>3. \A q \in Replicas : Ahead(mem[q], mem'[q])
    BY <1>1, AheadStep
  <2> QED
    BY <2>2, <2>3
<1>5. \A q \in Replicas : InOrder(q)'
  BY <1>4, InOrderKept DEF GoesOn, Moves
<1> QED
  BY <1>2, <1>3, <1>5 DEF HistInv, SessHist

\* Nothing that is recorded changes.
LEMMA MemoryStays ==
  ASSUME TypeInv, HistInv, NEW r \in Replicas, UNCHANGED <<mem, store, pending>>
  PROVE  Evolved(r, mem[r]) /\ WroteBack(r, mem[r])
<1>1. mem[r] \in Views /\ mem \in [Replicas -> Views]
  BY MemoryType
<1>2. Same(mem[r], mem[r])
  BY DEF Same
<1>3. DiskBehind(mem[r]) /\ (pending[r] = {} => Same(store[r], mem[r]))
  BY DEF HistInv, DataHist, StoreBehind
<1> QED
  BY <1>1, <1>2, <1>3 DEF Evolved, WroteBack

LEMMA FlushStays ==
  ASSUME TypeInv, HistInv, NEW r \in Replicas, mem' = mem, Flush(r)
  PROVE  Evolved(r, mem[r]) /\ WroteBack(r, mem[r])
<1>1. mem[r] \in Views /\ mem \in [Replicas -> Views] /\ store \in [Replicas -> Views]
  BY MemoryType
<1>2. Same(mem[r], mem[r])
  BY DEF Same
<1>3. DiskBehind(mem[r]) /\ (pending[r] = {} => Same(store[r], mem[r]))
  BY DEF HistInv, DataHist, StoreBehind
<1>4. /\ store' \in {store, [store EXCEPT ![r] = mem[r]]}
      /\ \A q \in Replicas \ {r} : pending'[q] = pending[q]
      /\ pending[r] = {} => store' = store
      /\ pending[r] # {} => store' = [store EXCEPT ![r] = mem[r]]
  BY FlushType DEF TypeInv
<1> QED
  BY <1>1, <1>2, <1>3, <1>4 DEF Evolved, WroteBack

LEMMA CommitWritesBack ==
  ASSUME TypeInv, NEW r \in Replicas, NEW view \in Views, NEW p \in Known(view), NEW b \in BOOLEAN,
         Known(mem[r]) \subseteq Known(view), CommitState(r, view, p, b)
  PROVE  WroteBack(r, view)
<1>1. store \in [Replicas -> Views]
  BY MemoryType
<1>2. Same(view, view)
  BY DEF Same
<1> QED
  BY <1>1, <1>2, CommitStateType DEF WroteBack, TypeInv

\* Recording what the disk holds changes nothing that is said of writes.
LEMMA SameWrites ==
  ASSUME NEW view \in Views, NEW w \in Views, w.vv = view.vv, w.counter = view.counter,
         Known(w) = Known(view),
         \A q \in Known(view) : w.st[q].versions = view.st[q].versions /\ w.st[q].seen = view.st[q].seen
  PROVE  Same(view, w)
BY DEF Same, Of, Pure, StateOf

-----------------------------------------------------------------------------
(* Steps of a call *)

LEMMA PureJoin ==
  ASSUME NEW s, NEW u
  PROVE  Pure(Join(s, u)) = Join(Pure(s), Pure(u)) /\ Join(s, u) = Join(Pure(s), Pure(u))
BY DEF Pure, Join

LEMMA LocalWriteEvolves ==
  ASSUME TypeInv, DotInv, HistInv, NEW r \in Replicas, NEW p \in Paths,
         NEW content \in Contents \cup {None}, NEW now \in Clocks
  PROVE  Evolved(r, LocalWrite(r, mem[r], p, content, now))
<1> DEFINE w == LocalWrite(r, mem[r], p, content, now)
           d == NextDot(r, mem[r])
           s == StateOf(mem[r], p)
           c == Reflects(r, mem[r], p)
           e == [dot |-> d, content |-> content, hlc |-> Tick(mem[r].hlc, now)]
           J == Join(Of(mem[r], p), [versions |-> {e}, seen |-> c])
<1>1. mem[r] \in Views /\ mem[r].counter \in Nat /\ mem[r].hlc \in Timestamp
  BY MemoryType, ViewElim
<1>2. /\ w \in Views /\ Known(w) = Known(mem[r]) \cup {p} /\ w.counter = mem[r].counter + 1
      /\ w.vv = AddDot(mem[r].vv, d) /\ w.st[p].diskSeen = c
      /\ \A q \in Known(mem[r]) : q # p => w.st[q] = mem[r].st[q]
  BY <1>1, LocalWriteType
<1>3. e \in Entry
  BY <1>1, ReplicaAssumption, TickType DEF Entry, Dot, NextDot
<1>4. Of(w, p) = J
  <2> DEFINE all == Join(s, [versions |-> {e}, seen |-> c])
  <2>1. w.st = With(mem[r].st, p, [versions |-> all.versions, seen |-> all.seen,
                                   hash |-> content, diskSeen |-> c])
    BY DEF LocalWrite, NextDot, Reflects
  <2>2. w.st[p].versions = all.versions /\ w.st[p].seen = all.seen /\ p \in Known(w)
    BY <2>1 DEF With, Known
  <2>3. [versions |-> all.versions, seen |-> all.seen] = J
    BY DEF Join, Of, Pure
  <2> HIDE DEF all, w, J
  <2> QED
    BY <2>2, <2>3 DEF Of, Pure, StateOf
<1>5. /\ s.seen \in VersionVector /\ s.diskSeen \in VersionVector /\ Of(mem[r], p).seen = s.seen
      /\ s.diskSeen[r] <= mem[r].counter /\ Covers(s.seen, s.diskSeen)
  <2>1. Bounded(mem[r], r, mem[r].counter)
    BY DEF DotInv, DataDots, Fits
  <2>2. s.diskSeen[r] <= mem[r].counter
    BY <1>1, <2>1, StateOfBounded
  <2>3. Covers(s.seen, s.diskSeen)
    <3>1. CASE p \in Known(mem[r])
      BY <3>1 DEF HistInv, DataHist, StoreBehind, DiskBehind, StateOf
    <3>2. CASE p \notin Known(mem[r])
      BY <3>2, NoStateType DEF StateOf, Covers, NoVersions
    <3> QED
      BY <3>1, <3>2
  <2> QED
    BY <1>1, <2>2, <2>3, StateOfType DEF Of, Pure
<1>6. /\ c \in VersionVector /\ c[r] = mem[r].counter + 1
      /\ \A x \in Replicas \ {r} : c[x] <= Of(mem[r], p).seen[x]
  BY <1>1, <1>5 DEF Reflects, AddDot, NextDot, VersionVector, Covers
<1>7. e.dot = NextDot(r, mem[r])
  OBVIOUS
<1>8. \A q \in Paths \ {p} : Of(w, q) = Of(mem[r], q)
  BY <1>2 DEF Of, StateOf
<1> HIDE DEF w, d, c, e, J
<1>9. PathGood(r, p, J) /\ J.seen[r] = mem[r].counter + 1
  BY <1>3, <1>6, <1>7, WriteGood DEF HistInv, DataHist, J
<1>10. Wrote(r, w, p)
  BY <1>2, <1>3, <1>4, <1>6, <1>7, <1>8 DEF Wrote, J, d
<1>11. DiskBehind(w)
  <2>1. Covers(Of(w, p).seen, c)
    <3>1. Covers(Of(w, p).seen, Of(mem[r], p).seen) /\ Of(w, p).seen[r] = mem[r].counter + 1
      BY <1>4, <1>9 DEF PathGood
    <3>2. \A x \in Replicas : /\ Of(w, p).seen[x] \in Nat /\ Of(mem[r], p).seen[x] \in Nat /\ c[x] \in Nat
      BY <1>1, <1>2, <1>6, OfType DEF VersionVector
    <3> QED
      BY <1>1, <1>6, <3>1, <3>2 DEF Covers
  <2>2. Of(w, p).seen = w.st[p].seen
    BY <1>2, OfType DEF Pure
  <2>3. \A q \in Known(mem[r]) : Covers(mem[r].st[q].seen, mem[r].st[q].diskSeen)
    BY DEF HistInv, DataHist, StoreBehind, DiskBehind
  <2> QED
    BY <1>2, <2>1, <2>2, <2>3 DEF DiskBehind
<1> QED
  BY <1>2, <1>10, <1>11 DEF Evolved, w

LEMMA LeaveGoesOn ==
  ASSUME CallInv, NEW r \in Replicas, Leave(r), sess' = sess
  PROVE  GoesOn(r)
<1>1. Moves(r)
  BY LeaveMoves
<1>2. call[r].kind = "apply" => call'[r].todo = call[r].todo
  BY DEF Leave, CallInv, Calls
<1> QED
  BY <1>1, <1>2 DEF GoesOn

LEMMA ToCopiesGoesOn ==
  ASSUME CallInv, NEW r \in Replicas, NEW s, ToCopies(r, s), sess' = sess
  PROVE  GoesOn(r)
BY ToCopiesMoves DEF GoesOn, ToCopies, CallInv, Calls

LEMMA StepStays ==
  ASSUME TypeInv, DotInv, HistInv, NEW r \in Replicas, UNCHANGED <<mem, store, pending>>, GoesOn(r)
  PROVE  HistInv' /\ Stored
BY MemoryStays, StepOn

\* A step that commits what the file of a path holds.
LEMMA DiskCommit ==
  ASSUME TypeInv, DotInv, HistInv, NEW r \in Replicas, NEW view \in Views, NEW p \in Known(view),
         view.vv = mem[r].vv, view.counter = mem[r].counter, Known(view) = Known(mem[r]),
         \A q \in Known(mem[r]) : /\ view.st[q].versions = mem[r].st[q].versions
                                  /\ view.st[q].seen = mem[r].st[q].seen
                                  /\ \/ view.st[q].diskSeen = mem[r].st[q].diskSeen
                                     \/ Covers(mem[r].st[q].seen, view.st[q].diskSeen),
         CommitState(r, view, p, FALSE), GoesOn(r)
  PROVE  HistInv' /\ Stored
<1>1. mem[r] \in Views
  BY MemoryType
<1>2. Same(mem[r], view)
  BY <1>1, SameWrites
<1>3. DiskBehind(view)
  BY DEF HistInv, DataHist, StoreBehind, DiskBehind
<1>4. WroteBack(r, view)
  BY CommitWritesBack
<1> QED
  BY <1>2, <1>3, <1>4, StepOn DEF Evolved

LEMMA TakeHist ==
  ASSUME TypeInv, DotInv, HistInv, NEW r \in Replicas, NEW p \in call[r].todo, Take(r, p), TypeInv'
  PROVE  HistInv' /\ Stored
<1>1. GoesOn(r) /\ UNCHANGED <<store, pending>>
  BY DEF Take, TypeInv, CallInv, Calls, Moves, GoesOn
<1>2. PICK h : mem' = [mem EXCEPT ![r] = [mem[r] EXCEPT !.hlc = h]] \/ mem' = mem
  BY DEF Take
<1>3. CASE mem' = mem
  BY <1>1, <1>3, StepStays
<1>4. CASE mem' = [mem EXCEPT ![r] = [mem[r] EXCEPT !.hlc = h]]
  <2> DEFINE view == [mem[r] EXCEPT !.hlc = h]
  <2>1. mem[r] \in Views /\ mem \in [Replicas -> Views]
    BY MemoryType
  <2>2. /\ view.vv = mem[r].vv /\ view.counter = mem[r].counter /\ view.st = mem[r].st
        /\ Known(view) = Known(mem[r])
    BY <2>1 DEF Views, Known
  <2>3. view \in Views
    BY <1>4, <2>1 DEF TypeInv, DataInv
  <2> HIDE DEF view
  <2>4. Same(mem[r], view)
    BY <2>1, <2>2, <2>3, SameWrites
  <2>5. DiskBehind(view) /\ (pending[r] = {} => Same(store[r], mem[r]))
    BY <2>2 DEF HistInv, DataHist, StoreBehind, DiskBehind, Known
  <2>6. pending[r] = {} => Same(store[r], view)
    BY <2>4, <2>5 DEF Same
  <2>7. WroteBack(r, view)
    BY <1>1, <1>4, <2>6 DEF WroteBack, view
  <2>8. Evolved(r, view)
    BY <2>3, <2>4, <2>5 DEF Evolved
  <2> QED
    BY <1>1, <2>7, <2>8, StepOn
<1> QED
  BY <1>2, <1>3, <1>4

LEMMA ReconcileHist ==
  ASSUME TypeInv, DotInv, HistInv, NEW r \in Replicas,
         ReconcileNothing(r) \/ ReconcileSame(r) \/ ReconcileMaterialised(r) \/ ReconcileMissing(r)
           \/ ReconcilePaused(r) \/ ReconcileDelete(r) \/ ReconcileEdit(r)
  PROVE  HistInv' /\ Stored
<1> DEFINE p == call[r].cur
<1>1. call[r].pc \in {"reconcile", "gone"}
  BY DEF ReconcileNothing, ReconcileSame, ReconcileMaterialised, ReconcileMissing, ReconcilePaused,
         ReconcileDelete, ReconcileEdit
<1>2. p \in Paths /\ CallInv /\ mem[r] \in Views
  BY <1>1, MemoryType DEF TypeInv, CallInv, CallOK
<1>3. OnDisk(r, p) \in Contents \cup {None}
  BY OnDiskType DEF TypeInv
<1>4. CASE ReconcileNothing(r)
  BY <1>2, <1>4, LeaveGoesOn, StepStays DEF ReconcileNothing
<1>5. CASE ReconcileSame(r)
  BY <1>2, <1>5, ToCopiesGoesOn, StepStays DEF ReconcileSame
<1>6. CASE ReconcileMaterialised(r)
  <2> DEFINE view == WithHash(mem[r], p, OnDisk(r, p))
  <2>1. p \in Known(mem[r])
    BY <1>6 DEF ReconcileMaterialised, Materialised
  <2>2. /\ view \in Views /\ Known(view) = Known(mem[r])
        /\ view.counter = mem[r].counter /\ view.vv = mem[r].vv
        /\ \A q \in Known(mem[r]) : /\ view.st[q].versions = mem[r].st[q].versions
                                    /\ view.st[q].seen = mem[r].st[q].seen
                                    /\ view.st[q].diskSeen = mem[r].st[q].diskSeen
    BY <1>2, <1>3, <2>1, RecordHashType
  <2>3. CommitState(r, view, p, FALSE) /\ ToCopies(r, mem[r].st[p]) /\ sess' = sess
    BY <1>6 DEF ReconcileMaterialised, WithHash
  <2> HIDE DEF view
  <2>4. GoesOn(r)
    BY <1>2, <2>3, ToCopiesGoesOn
  <2> QED
    BY <2>1, <2>2, <2>3, <2>4, DiskCommit
<1>7. CASE ReconcilePaused(r)
  <2>1. /\ Flush(r) /\ mem' = mem /\ call' = [call EXCEPT ![r] = Idle]
        /\ sess' = [sess EXCEPT ![r] = IF call[r].kind = "scan" THEN @ ELSE NoSession]
    BY <1>7 DEF ReconcilePaused
  <2>2. /\ call'[r] = Idle /\ \A q \in Replicas \ {r} : call'[q] = call[q] /\ sess'[q] = sess[q]
        /\ sess'[r] = IF call[r].kind = "scan" THEN sess[r] ELSE NoSession
    BY <2>1, MemoryType DEF TypeInv, CallInv
  <2>3. FromStores
    BY <2>2 DEF FromStores, NoSession
  <2>4. Evolved(r, mem[r]) /\ WroteBack(r, mem[r])
    BY <2>1, FlushStays
  <2>5. Good(r, mem[r]) /\ DataHist' /\ Stored
    BY <2>3, <2>4, EvolvedGood, DataStep
  <2>6. \A q \in Replicas : mem'[q] \in Views /\ Ahead(mem[q], mem'[q])
    BY <2>1, <2>3, <2>4, <2>5, AheadStep, MemoryType
  <2>7. ASSUME NEW q \in Replicas, sess'[q] = sess[q] PROVE Promise(q)'
    BY <2>3, <2>4, <2>5, <2>7, PromiseKept
  <2>8. \A q \in Replicas \ {r} : InOrder(q)'
    BY <2>2, <2>6, InOrderKept
  <2>9. Promise(r)' /\ InOrder(r)'
    <3>1. CASE call[r].kind = "scan"
      <4>1. InOrder(r) /\ sess'[r] = sess[r]
        BY <2>2, <3>1 DEF HistInv, SessHist
      <4>2. InOrder(r)'
        BY <2>2, <4>1 DEF InOrder, Idle
      <4> QED
        BY <2>7, <4>1, <4>2
    <3>2. CASE call[r].kind # "scan"
      BY <2>2, <2>6, <3>2, NoPromise
    <3> QED
      BY <3>1, <3>2
  <2> QED
    BY <2>2, <2>5, <2>7, <2>8, <2>9 DEF HistInv, SessHist
<1>8. CASE ReconcileDelete(r) \/ ReconcileEdit(r)
  <2>0. PICK c \in Contents \cup {None} : RecordWrite(r, c)
    BY <1>8, RecordsWrite
  <2>1. PICK now \in Clocks :
          /\ CommitState(r, LocalWrite(r, mem[r], p, c, now), p, TRUE)
          /\ ToCopies(r, LocalWrite(r, mem[r], p, c, now).st[p])
    BY <2>0 DEF RecordWrite
  <2> DEFINE view == LocalWrite(r, mem[r], p, c, now)
  <2>2. view \in Views /\ Known(view) = Known(mem[r]) \cup {p}
    BY <1>2, <2>0, <2>1, LocalWriteType
  <2>3. Evolved(r, view)
    BY <1>2, <2>0, <2>1, LocalWriteEvolves
  <2>4. CommitState(r, view, p, TRUE) /\ ToCopies(r, view.st[p]) /\ sess' = sess
    BY <2>0, <2>1 DEF RecordWrite
  <2> HIDE DEF view
  <2>5. GoesOn(r)
    BY <1>2, <2>4, ToCopiesGoesOn
  <2>6. WroteBack(r, view)
    BY <2>2, <2>4, CommitWritesBack
  <2> QED
    BY <2>3, <2>5, <2>6, StepOn
<1>9. CASE ReconcileMissing(r)
  <2>1. UNCHANGED <<mem, store, pending, sess>> /\ GoesOn(r)
    BY <1>2, <1>9, MissingMoves DEF GoesOn, Moves
  <2> QED
    BY <1>2, <1>9, <2>1, MissingMoves, StepStays
<1> QED
  BY <1>4, <1>5, <1>6, <1>7, <1>8, <1>9

LEMMA CopyHist ==
  ASSUME TypeInv, DotInv, HistInv, NEW r \in Replicas, NEW e \in call[r].losers,
         CopyError(r, e) \/ CopySkip(r, e) \/ CopyLoser(r, e)
  PROVE  HistInv' /\ Stored
<1>1. CallInv /\ mem[r] \in Views
  BY MemoryType DEF TypeInv
<1>2. CASE CopyError(r, e)
  BY <1>1, <1>2, LeaveGoesOn, StepStays DEF CopyError
<1>3. ASSUME call' = [call EXCEPT ![r].losers = @ \ {e}], sess' = sess
      PROVE  GoesOn(r)
  BY <1>1, <1>3, LoserMoves DEF GoesOn, CallInv, Calls
<1>4. CASE CopySkip(r, e)
  BY <1>3, <1>4, StepStays DEF CopySkip
<1>5. CASE CopyLoser(r, e)
  <2> DEFINE c == CopyPath(call[r].cur, e.dot)
  <2>1. e \in Entry /\ e.content \in Contents /\ e.dot \in Dot
    BY DEF TypeInv, CallInv, Calls, Entry, IsTombstone
  <2>2. c \in Paths
    <3>1. call[r].pc = "copies" /\ call[r].cur \in Paths
      BY <1>5 DEF CopyLoser, TypeInv, CallInv, CallOK
    <3> QED
      BY <2>1, <3>1 DEF Paths, CopyPath
  <2>3. PICK now \in Clocks : CommitState(r, LocalWrite(r, mem[r], c, e.content, now), c, TRUE)
    BY <1>5 DEF CopyLoser
  <2>4. GoesOn(r)
    BY <1>3, <1>5 DEF CopyLoser
  <2> DEFINE view == LocalWrite(r, mem[r], c, e.content, now)
  <2> HIDE DEF c
  <2>5. view \in Views /\ Known(view) = Known(mem[r]) \cup {c}
    BY <1>1, <2>1, <2>2, LocalWriteType
  <2>6. Evolved(r, view)
    BY <2>1, <2>2, LocalWriteEvolves
  <2>7. CommitState(r, view, c, TRUE)
    BY <2>3
  <2> HIDE DEF view
  <2>8. WroteBack(r, view)
    BY <2>5, <2>7, CommitWritesBack
  <2> QED
    BY <2>4, <2>6, <2>8, StepOn
<1> QED
  BY <1>2, <1>4, <1>5

LEMMA FlushVersionsHist ==
  ASSUME TypeInv, DotInv, HistInv, NEW r \in Replicas, FlushVersions(r)
  PROVE  HistInv' /\ Stored
<1>1. Flush(r) /\ UNCHANGED <<mem, call, sess>>
  BY DEF FlushVersions
<1>2. GoesOn(r)
  BY <1>1 DEF GoesOn, Moves
<1> QED
  BY <1>1, <1>2, FlushStays, StepOn

LEMMA SettleHist ==
  ASSUME TypeInv, DotInv, HistInv, NEW r \in Replicas, SettleSame(r) \/ SettleSkip(r) \/ SettleWrite(r)
  PROVE  HistInv' /\ Stored
<1> DEFINE p == call[r].cur
           s == mem[r].st[p]
           w == Winner(s.versions)
<1>1. call[r].pc = "copies" /\ Leave(r) /\ sess' = sess
  BY DEF SettleSame, SettleSkip, SettleWrite, SettleReady, Unsettled
<1>2. p \in Known(mem[r])
  BY <1>1 DEF TypeInv, CallInv, CallOK
<1>3. GoesOn(r)
  BY <1>1, LeaveGoesOn DEF TypeInv
<1>4. w.content \in Contents \cup {None} /\ s.hash \in Contents \cup {None}
  BY <1>2, CurrentState, WinnerType, StateElim DEF TypeInv
<1>5. ASSUME NEW h \in Contents \cup {None}, CommitState(r, Settled(r, h), p, FALSE)
      PROVE  HistInv' /\ Stored
  <2> DEFINE view == Settled(r, h)
  <2>1. /\ view \in Views /\ Known(view) = Known(mem[r])
        /\ view.counter = mem[r].counter /\ view.vv = mem[r].vv
        /\ \A q \in Known(mem[r]) :
             /\ view.st[q].versions = mem[r].st[q].versions
             /\ view.st[q].seen = mem[r].st[q].seen
             /\ \/ view.st[q].diskSeen = mem[r].st[q].diskSeen
                \/ Covers(mem[r].st[q].seen, view.st[q].diskSeen)
    BY <1>2, SettledType DEF TypeInv
  <2>2. p \in Known(view)
    BY <1>2, <2>1
  <2>3. CommitState(r, view, p, FALSE)
    BY <1>5
  <2> HIDE DEF view, p
  <2> QED
    BY <1>3, <2>1, <2>2, <2>3, DiskCommit
<1>6. CASE UNCHANGED <<mem, store, pending>>
  BY <1>3, <1>6, StepStays
<1>7. CASE SettleSame(r)
  <2>1. UNCHANGED <<mem, store, pending>> \/ CommitState(r, Settled(r, s.hash), p, FALSE)
    BY <1>7 DEF SettleSame
  <2> HIDE DEF s
  <2> QED
    BY <1>4, <1>5, <1>6, <2>1
<1>8. CASE SettleSkip(r)
  BY <1>6, <1>8 DEF SettleSkip
<1>9. CASE SettleWrite(r)
  <2>1. CommitState(r, Settled(r, w.content), p, FALSE)
    BY <1>9 DEF SettleWrite
  <2> HIDE DEF w
  <2> QED
    BY <1>4, <1>5, <2>1
<1> QED
  BY <1>7, <1>8, <1>9

\* The update of a page is in its path's state once it is joined, even if that changed nothing.
LEMMA JoinUpdateHist ==
  ASSUME TypeInv, DotInv, HistInv, NEW r \in Replicas, JoinUpdate(r)
  PROVE  HistInv' /\ Stored
<1> DEFINE p == call[r].cur
           u == UpdateOf(r, p)
           t == JoinedState(StateOf(mem[r], p), u)
           view == WithState(mem[r], p, t)
           J == Join(Of(mem[r], p), Pure(u))
           w == IF J = Of(mem[r], p) THEN mem[r] ELSE view
<1>1. call[r] \in Calls /\ CallOK(call[r], Known(mem[r])) /\ call[r].pc = "join" /\ InOrder(r)
  BY DEF TypeInv, CallInv, JoinUpdate, HistInv, SessHist
<1>2. mem[r] \in Views /\ mem \in [Replicas -> Views] /\ store \in [Replicas -> Views]
  BY MemoryType
<1>3. p \in Paths /\ u \in call[r].page /\ u \in Updates /\ u.path = p /\ u \in sess[r].updates
  <2>1. p \in Paths /\ \E v \in call[r].page : v.path = p
    BY <1>1 DEF CallOK
  <2>2. UpdateOf(r, p) \in call[r].page /\ UpdateOf(r, p).path = p
    BY <2>1 DEF UpdateOf
  <2> QED
    BY <1>1, <2>1, <2>2 DEF Calls, InOrder
<1> HIDE DEF u
<1>4. /\ t \in States /\ t.diskSeen = StateOf(mem[r], p).diskSeen
      /\ t.versions = J.versions /\ t.seen = J.seen /\ Pure(t) = J
  <2>1. /\ t \in States /\ t.diskSeen = StateOf(mem[r], p).diskSeen
        /\ t.versions = Join(StateOf(mem[r], p), u).versions
        /\ t.seen = Join(StateOf(mem[r], p), u).seen
    BY <1>2, <1>3, JoinedStateType
  <2>2. Join(StateOf(mem[r], p), u) = J /\ Pure(J) = J
    BY PureJoin DEF Of
  <2> HIDE DEF t, J
  <2> QED
    BY <2>1, <2>2 DEF Pure
<1>5. /\ J.seen = MergeVV(Of(mem[r], p).seen, u.seen) /\ Covers(J.seen, Of(mem[r], p).seen)
      /\ Covers(J.seen, u.seen) /\ J.seen \in VersionVector
  <2>1. J.seen = MergeVV(Of(mem[r], p).seen, u.seen)
    BY <1>3, JoinGood DEF HistInv, DataHist
  <2>2. Of(mem[r], p).seen \in VersionVector /\ u.seen \in VersionVector
    BY <1>2, <1>3, OfType DEF Updates, Update
  <2> HIDE DEF J
  <2> QED
    BY <2>1, <2>2 DEF MergeVV, Covers, VersionVector
<1>6. /\ view \in Views /\ Known(view) = Known(mem[r]) \cup {p}
      /\ view.counter = mem[r].counter /\ view.vv = mem[r].vv /\ view.st[p] = t
      /\ \A q \in Known(mem[r]) : q # p => view.st[q] = mem[r].st[q]
  BY <1>2, <1>3, <1>4, RecordType
<1>7. /\ IF J = Of(mem[r], p) THEN UNCHANGED <<mem, store, pending>>
                              ELSE CommitState(r, view, p, TRUE)
      /\ call'[r].todo = call[r].todo \ {p} /\ Moves(r) /\ sess' = sess
  <2> DEFINE s == StateOf(mem[r], p)
             j == Join(s, u)
             changed == j.versions # s.versions \/ j.seen # s.seen
  <2>1. /\ IF changed THEN CommitState(r, view, p, TRUE) ELSE UNCHANGED <<mem, store, pending>>
        /\ call' = [call EXCEPT ![r].pc = "pick", ![r].cur = None, ![r].todo = @ \ {p},
                                ![r].joined = IF changed THEN @ \cup {p} ELSE @]
        /\ sess' = sess
    BY DEF JoinUpdate, JoinedState, WithState, u
  <2>2. changed <=> J # Of(mem[r], p)
    BY DEF Join, Of, Pure
  <2>3. call'[r].todo = call[r].todo \ {p} /\ Moves(r)
    BY <2>1 DEF TypeInv, CallInv, Calls, Moves
  <2> HIDE DEF changed, J, view
  <2> QED
    BY <2>1, <2>2, <2>3
<1> HIDE DEF t, J, view
<1>8. Of(view, p) = J /\ \A q \in Paths \ {p} : Of(view, q) = Of(mem[r], q)
  BY <1>3, <1>4, <1>6, OfType DEF Of, StateOf
<1>9. DiskBehind(view)
  <2>1. \A q \in Known(mem[r]) : Covers(mem[r].st[q].seen, mem[r].st[q].diskSeen)
    BY DEF HistInv, DataHist, StoreBehind, DiskBehind
  <2>2. Covers(t.seen, t.diskSeen)
    <3>1. CASE p \in Known(mem[r])
      <4>1. Of(mem[r], p).seen = mem[r].st[p].seen /\ t.diskSeen = mem[r].st[p].diskSeen
        BY <1>4, <3>1 DEF Of, Pure, StateOf
      <4>2. mem[r].st[p].seen \in VersionVector /\ t.diskSeen \in VersionVector
        BY <1>2, <1>4, <3>1, ViewElim, StateElim
      <4>3. Covers(t.seen, mem[r].st[p].seen) /\ t.seen \in VersionVector
        BY <1>4, <1>5, <4>1
      <4>4. Covers(mem[r].st[p].seen, t.diskSeen)
        BY <2>1, <3>1, <4>1
      <4> QED
        BY <4>2, <4>3, <4>4, CoversTrans
    <3>2. CASE p \notin Known(mem[r])
      <4>1. t.diskSeen = NoVersions
        BY <1>4, <3>2, NoStateType DEF StateOf
      <4> QED
        BY <1>4, <1>5, <4>1 DEF Covers, VersionVector, NoVersions
    <3> QED
      BY <3>1, <3>2
  <2> QED
    BY <1>6, <2>1, <2>2 DEF DiskBehind
<1>10. Evolved(r, w) /\ WroteBack(r, w) /\ Of(w, p) = J
  <2>1. CASE J = Of(mem[r], p)
    BY <1>7, <2>1, MemoryStays
  <2>2. CASE J # Of(mem[r], p)
    <3>1. CommitState(r, view, p, TRUE)
      BY <1>7, <2>2
    <3>2. WroteBack(r, view)
      BY <1>6, <3>1, CommitWritesBack
    <3>3. Joined(r, view, u)
      BY <1>3, <1>6, <1>8 DEF Joined, J
    <3> QED
      BY <1>3, <1>6, <1>8, <1>9, <2>2, <3>2, <3>3 DEF Evolved
  <2> QED
    BY <2>1, <2>2
<1> HIDE DEF w
<1>11. FromStores /\ Good(r, w)
  BY <1>7, <1>10, EvolvedGood DEF FromStores
<1>12. DataHist' /\ Stored /\ \A q \in Replicas : Promise(q)'
  BY <1>7, <1>10, <1>11, DataStep, PromiseKept
<1>13. \A q \in Replicas : mem'[q] \in Views /\ Ahead(mem[q], mem'[q])
  BY <1>2, <1>10, <1>11, AheadStep, Elsewhere DEF Good
<1>14. mem'[r] = w
  BY <1>2, <1>10 DEF WroteBack
<1>15. \A v \in call[r].page : v.path \in call[r].todo =>
          v.path \in call'[r].todo \/ Covers(Of(mem'[r], v.path).seen, v.seen)
  BY <1>1, <1>3, <1>5, <1>7, <1>10, <1>14 DEF InOrder
<1>16. \A q \in Replicas : InOrder(q)'
  BY <1>7, <1>13, <1>15, InOrderKept DEF Moves
<1> QED
  BY <1>12, <1>16 DEF HistInv, SessHist

LEMMA SettleJoinedHist ==
  ASSUME TypeInv, DotInv, HistInv, NEW r \in Replicas, NEW p \in call[r].joined, SettleJoined(r, p)
  PROVE  HistInv' /\ Stored
<1>1. GoesOn(r) /\ UNCHANGED <<mem, store, pending>>
  BY DEF SettleJoined, TypeInv, CallInv, Calls, Moves, GoesOn
<1> QED
  BY <1>1, StepStays

\* At the end of apply every update of the page is joined; fetch_missing was the last of a session.
LEMMA FinishHist ==
  ASSUME TypeInv, DotInv, HistInv, NEW r \in Replicas, Finish(r)
  PROVE  HistInv' /\ Stored
<1>1. /\ Flush(r) /\ mem' = mem /\ call' = [call EXCEPT ![r] = Idle]
      /\ sess' = [sess EXCEPT ![r].updates = @ \ call[r].page,
                              ![r].fetched = @ \/ call[r].kind = "fetch"]
      /\ call[r].todo = {}
  BY DEF Finish
<1>2. /\ call'[r] = Idle /\ \A q \in Replicas \ {r} : call'[q] = call[q] /\ sess'[q] = sess[q]
      /\ sess'[r].updates = sess[r].updates \ call[r].page
      /\ sess'[r].fetched = (sess[r].fetched \/ call[r].kind = "fetch")
      /\ sess'[r].from = sess[r].from /\ sess'[r].said = sess[r].said
      /\ sess'[r].heard = sess[r].heard /\ sess'[r].sent = sess[r].sent
  BY <1>1, MemoryType DEF TypeInv, CallInv, Sessions
<1>3. FromStores
  BY <1>2 DEF FromStores
<1>4. Evolved(r, mem[r]) /\ WroteBack(r, mem[r])
  BY <1>1, FlushStays
<1>5. Good(r, mem[r]) /\ DataHist' /\ Stored
  BY <1>3, <1>4, EvolvedGood, DataStep
<1>6. \A q \in Replicas : mem'[q] \in Views /\ Ahead(mem[q], mem'[q])
  BY <1>1, <1>3, <1>4, <1>5, AheadStep, MemoryType
<1>7. InOrder(r)
  BY DEF HistInv, SessHist
<1>8. \A u \in sess[r].updates : u \in sess'[r].updates \/ Covers(Of(mem'[r], u.path).seen, u.seen)
  BY <1>1, <1>2, <1>7 DEF InOrder
<1>9. \A q \in Replicas : Promise(q)'
  <2>1. Promise(r)'
    BY <1>2, <1>3, <1>4, <1>5, <1>8, PromiseKept
  <2>2. \A q \in Replicas \ {r} : Promise(q)'
    BY <1>2, <1>3, <1>4, <1>5, PromiseKept
  <2> QED
    BY <2>1, <2>2
<1>10. \A q \in Replicas \ {r} : InOrder(q)'
  BY <1>2, <1>6, InOrderKept
<1>11. InOrder(r)'
  <2>1. call'[r].kind = "idle" /\ call'[r].page = {}
    BY <1>2 DEF Idle
  <2>2. sess'[r].fetched => sess'[r].sent /\ sess'[r].updates = {}
    BY <1>2, <1>7 DEF InOrder
  <2> QED
    BY <1>2, <1>7, <2>1, <2>2 DEF InOrder
<1> QED
  BY <1>5, <1>9, <1>10, <1>11 DEF HistInv, SessHist

-----------------------------------------------------------------------------
(* Steps of everybody else *)

LEMMA WorldHist ==
  ASSUME HistInv, UNCHANGED <<mem, store, pending, call, sess>>
  PROVE  HistInv' /\ Stored
<1>1. (\A p : Objs(p)' = Objs(p)) /\ \A x, p : Abroad(x, p)' = Abroad(x, p)
  BY DEF Objs, Abroad, Transit
<1>2. CausalInv' /\ AuthorsFirst'
  BY <1>1 DEF HistInv, DataHist, CausalInv, AuthorsFirst
<1>3. StoreBehind' /\ OwnWrites'
  BY DEF HistInv, DataHist, StoreBehind, OwnWrites
<1>4. Honest'
  BY <1>1 DEF HistInv, DataHist, Honest, HonestView
<1>5. ASSUME NEW r \in Replicas PROVE InOrder(r)'
  BY DEF HistInv, SessHist, InOrder
<1>6. ASSUME NEW r \in Replicas PROVE Promise(r)'
  BY <1>1 DEF HistInv, SessHist, Promise, Delivered
<1> QED
  BY <1>2, <1>3, <1>4, <1>5, <1>6 DEF HistInv, DataHist, SessHist, Stored

\* A crash forgets what was not stored; what others know of r's writes was.
LEMMA CrashHist ==
  ASSUME TypeInv, DotInv, HistInv, NEW r \in Replicas, Crash(r)
  PROVE  HistInv' /\ Stored
<1>1. /\ mem \in [Replicas -> Views] /\ store \in [Replicas -> Views]
      /\ store' = store /\ mem' = [mem EXCEPT ![r] = store[r]]
      /\ pending' = [pending EXCEPT ![r] = {}] /\ pending \in [Replicas -> SUBSET Paths]
      /\ call' = [call EXCEPT ![r] = Idle] /\ sess'[r] = NoSession
      /\ \A q \in Replicas : sess'[q] \in {sess[q], NoSession}
  BY MemoryType DEF Crash, TypeInv, DataInv
<1>2. /\ mem'[r] = store[r] /\ pending'[r] = {}
      /\ call'[r] = Idle /\ sess'[r] = NoSession
      /\ \A q \in Replicas \ {r} : /\ mem'[q] = mem[q] /\ pending'[q] = pending[q]
                                   /\ call'[q] = call[q]
  BY <1>1 DEF TypeInv, CallInv
<1>3. ASSUME NEW p
      PROVE  /\ Transit(p)' \subseteq Transit(p) /\ Objs(p)' \subseteq Objs(p)
             /\ \A x \in Replicas : Abroad(x, p)' \subseteq Abroad(x, p)
  <2>1. \A q \in Replicas : sess'[q].updates \subseteq sess[q].updates
    BY <1>1 DEF NoSession
  <2>2. Transit(p)' \subseteq Transit(p)
    BY <2>1 DEF Transit
  <2> QED
    BY <1>1, <1>2, <2>2 DEF Objs, Abroad
<1>4. \A p \in Paths, x \in Replicas, n \in Nat : Reached(Objs(p)', x, n) => Reached(Objs(p), x, n)
  BY <1>3 DEF Reached
<1>5. CausalInv'
  <2>1. \A p \in Paths : Causal(Objs(p)')
    BY <1>3, CausalSubset DEF HistInv, DataHist, CausalInv
  <2> QED
    BY <2>1 DEF CausalInv
<1>6. AuthorsFirst'
  BY <1>1, <1>3 DEF HistInv, DataHist, AuthorsFirst
<1>7. StoreBehind'
  <2>1. Ahead(store[r], store[r])
    BY <1>1, ViewElim, OfType DEF VersionVector, Ahead, Covers
  <2>2. Same(store[r], store[r])
    BY DEF Same
  <2>3. ASSUME NEW q \in Replicas
        PROVE  /\ Ahead(store[q], mem'[q])
               /\ mem'[q].vv[q] = mem'[q].counter /\ store[q].vv[q] = store[q].counter
               /\ DiskBehind(mem'[q]) /\ DiskBehind(store[q])
               /\ pending'[q] = {} => Same(store[q], mem'[q])
    BY <1>2, <2>1, <2>2 DEF HistInv, DataHist, StoreBehind
  <2> QED
    BY <1>1, <2>3 DEF StoreBehind
<1>8. Honest'
  <2>1. ASSUME NEW q \in Replicas, NEW v \in {mem'[q], store[q]}, NEW p \in Paths, NEW x \in Replicas,
               NEW n \in Nat, Reached(Objs(p)', x, n), n <= v.vv[x]
        PROVE  n <= Of(v, p).seen[x]
    <3>1. HonestView(v)
      BY <1>2, <2>1 DEF HistInv, DataHist, Honest
    <3> QED
      BY <1>4, <2>1, <3>1 DEF HonestView
  <2> QED
    BY <1>1, <2>1 DEF Honest, HonestView
<1>9. OwnWrites'
  <2>1. ASSUME NEW q \in Replicas
        PROVE  /\ Apart(q, mem'[q]) /\ Apart(q, store[q])
               /\ \A p \in Paths : Of(mem'[q], p).seen[q] # Of(store[q], p).seen[q]
                                     => store[q].counter < Of(mem'[q], p).seen[q]
    BY <1>2 DEF HistInv, DataHist, OwnWrites
  <2> QED
    BY <1>1, <2>1 DEF OwnWrites
<1>10. InOrder(r)' /\ Promise(r)'
  BY <1>1, <1>2, NoPromise
<1>11. ASSUME NEW q \in Replicas \ {r} PROVE InOrder(q)' /\ Promise(q)'
  <2>1. InOrder(q) /\ Promise(q)
    BY DEF HistInv, SessHist
  <2>2. mem'[q] = mem[q] /\ call'[q] = call[q] /\ mem[q] \in Views
    BY <1>1, <1>2
  <2>3. CASE sess'[q] = sess[q]
    <3>1. InOrder(q)'
      BY <2>1, <2>2, <2>3 DEF InOrder
    <3>2. Promise(q)'
      BY <1>1, <1>4, <2>1, <2>2, <2>3 DEF Promise, Delivered
    <3> QED
      BY <3>1, <3>2
  <2>4. CASE sess'[q] = NoSession /\ sess[q] # NoSession
    <3>1. Promise(q)'
      BY <2>2, <2>4, NoPromise
    <3>2. sess[q].from = r /\ ~sess[q].sent
      BY <2>4 DEF Crash
    <3>3. ~(call[q].kind \in {"apply", "fetch"}) /\ call[q].page = {}
      BY <2>1, <3>2 DEF InOrder
    <3>4. InOrder(q)'
      BY <2>2, <2>4, <3>3 DEF InOrder, NoSession
    <3> QED
      BY <3>1, <3>4
  <2> QED
    BY <1>1, <2>3, <2>4
<1> QED
  BY <1>1, <1>5, <1>6, <1>7, <1>8, <1>9, <1>10, <1>11 DEF HistInv, DataHist, SessHist, Stored

\* Steps that leave what is recorded alone.
LEMMA RecordsStay ==
  ASSUME TypeInv, DotInv, HistInv, NEW r \in Replicas, UNCHANGED <<mem, store, pending>>, FromStores
  PROVE  /\ DataHist' /\ Stored
         /\ \A p \in Paths, x \in Replicas, n \in Nat : Reached(Objs(p)', x, n) => Reached(Objs(p), x, n)
         /\ \A q \in Replicas : /\ sess'[q] = sess[q] => Promise(q)'
                                /\ sess'[q] = sess[q] /\ call'[q] = call[q] => InOrder(q)'
<1>1. Evolved(r, mem[r]) /\ WroteBack(r, mem[r])
  BY MemoryStays
<1>2. Good(r, mem[r])
  BY <1>1, EvolvedGood
<1>3. DataHist' /\ Stored
  BY <1>1, <1>2, DataStep
<1>4. ASSUME NEW p \in Paths, NEW x \in Replicas, NEW n \in Nat, Reached(Objs(p)', x, n)
      PROVE  Reached(Objs(p), x, n)
  <2>1. Objs(p)' \subseteq Objs(p)
    BY <1>1, Elsewhere, Whereabouts
  <2> QED
    BY <1>4, <2>1 DEF Reached
<1>5. ASSUME NEW q \in Replicas, sess'[q] = sess[q]
      PROVE  Promise(q)'
  BY <1>1, <1>2, <1>5, PromiseKept
<1>6. ASSUME NEW q \in Replicas, sess'[q] = sess[q], call'[q] = call[q]
      PROVE  InOrder(q)'
  BY <1>6 DEF HistInv, SessHist, InOrder
<1> QED
  BY <1>3, <1>4, <1>5, <1>6

LEMMA StartHist ==
  ASSUME TypeInv, DotInv, HistInv, NEW r \in Replicas, StartScan(r) \/ StartApply(r) \/ StartFetch(r)
  PROVE  HistInv' /\ Stored
<1>1. PICK kind, page, todo :
        /\ kind \in {"scan", "apply", "fetch"} /\ page \subseteq sess[r].updates
        /\ StartCall(r, kind, todo, page)
        /\ kind # "apply" => page = {}
        /\ kind = "apply" => todo = { u.path : u \in page }
        /\ kind # "scan" => sess[r].sent
        /\ kind = "fetch" => sess[r].updates = {}
  <2>1. CASE StartScan(r)
    BY <2>1 DEF StartScan
  <2>2. CASE StartApply(r)
    <3>1. PICK page \in SUBSET sess[r].updates : StartCall(r, "apply", { u.path : u \in page }, page)
      BY <2>2 DEF StartApply
    <3> QED
      BY <2>2, <3>1 DEF StartApply
  <2>3. CASE StartFetch(r)
    BY <2>3 DEF StartFetch
  <2> QED
    BY <2>1, <2>2, <2>3
<1> DEFINE c == [Idle EXCEPT !.kind = kind, !.todo = todo, !.page = page]
<1>2. c.kind = kind /\ c.page = page /\ c.todo = todo
  BY DEF Idle
<1>3. call' = [call EXCEPT ![r] = c] /\ UNCHANGED <<mem, store, pending, sess>>
  BY <1>1 DEF StartCall
<1> HIDE DEF c
<1>4. call'[r] = c /\ \A q \in Replicas \ {r} : call'[q] = call[q]
  BY <1>3 DEF TypeInv, CallInv
<1>5. FromStores
  BY <1>3 DEF FromStores
<1>6. DataHist' /\ Stored /\ (\A q \in Replicas : Promise(q)') /\ (\A q \in Replicas \ {r} : InOrder(q)')
  BY <1>3, <1>4, <1>5, RecordsStay
<1>7. InOrder(r)'
  <2>1. InOrder(r)
    BY DEF HistInv, SessHist
  <2>2. kind = "apply" => \A u \in page : u.path \in todo
    BY <1>1
  <2> QED
    BY <1>1, <1>2, <1>3, <1>4, <2>1, <2>2 DEF InOrder
<1> QED
  BY <1>6, <1>7 DEF HistInv, SessHist

\* The peer says what it has stored: nothing is pending while no call has its lock.
LEMMA HelloHist ==
  ASSUME TypeInv, DotInv, HistInv, NEW r \in Replicas, NEW s \in Replicas, Hello(r, s)
  PROVE  HistInv' /\ Stored
<1>1. /\ UNCHANGED <<mem, store, pending, call>> /\ call[s] = Idle /\ call[r] = Idle
      /\ sess' = [sess EXCEPT ![r] = [NoSession EXCEPT !.from = s, !.said = mem[r].vv, !.heard = mem[s].vv]]
  BY DEF Hello
<1>2. /\ sess'[r].said = mem[r].vv /\ sess'[r].heard = mem[s].vv /\ sess'[r].from = s
      /\ ~sess'[r].sent /\ ~sess'[r].fetched /\ sess'[r].updates = {}
      /\ \A q \in Replicas \ {r} : sess'[q] = sess[q]
  BY <1>1, MemoryType DEF NoSession
<1>3. FromStores
  BY <1>2 DEF FromStores
<1>4. /\ DataHist' /\ Stored /\ (\A q \in Replicas \ {r} : Promise(q)' /\ InOrder(q)')
      /\ \A p \in Paths, x \in Replicas, n \in Nat : Reached(Objs(p)', x, n) => Reached(Objs(p), x, n)
  BY <1>1, <1>2, <1>3, RecordsStay
<1>5. InOrder(r)'
  <2>1. call[r].kind = "idle" /\ call[r].page = {}
    BY <1>1 DEF Idle
  <2> QED
    BY <1>1, <1>2, <2>1 DEF InOrder
<1>6. Same(store[s], mem[s]) /\ HonestView(mem[s])
  <2>1. call[s].kind = "idle"
    BY <1>1 DEF Idle
  <2>2. pending[s] = {}
    BY <2>1 DEF DotInv, IdleFlushed
  <2> QED
    BY <2>2 DEF HistInv, DataHist, StoreBehind, Honest
<1>7. Promise(r)'
  <2>1. Covers(mem[r].vv, mem[r].vv)
    BY MemoryType DEF Covers
  <2>2. ASSUME NEW p \in Paths, NEW x \in Replicas, NEW n \in Nat, Reached(Objs(p)', x, n), n <= mem[s].vv[x]
        PROVE  n <= Of(store[s], p).seen[x]
    BY <1>4, <1>6, <2>2 DEF Same, HonestView
  <2> QED
    BY <1>1, <1>2, <2>1, <2>2 DEF Promise, Delivered
<1> QED
  BY <1>4, <1>5, <1>7 DEF HistInv, SessHist

\* What delta_for leaves out, r said it has, and r's vector is honest.
LEMMA PagesHist ==
  ASSUME TypeInv, DotInv, HistInv, NEW r \in Replicas, Pages(r)
  PROVE  HistInv' /\ Stored
<1> DEFINE s == sess[r].from
           U == DeltaFor(store[s], sess[r].said)
<1>1. /\ UNCHANGED <<mem, store, pending, call>> /\ s \in Replicas /\ ~sess[r].sent
      /\ sess' = [sess EXCEPT ![r].sent = TRUE, ![r].updates = U]
  BY DEF Pages, TypeInv, SessInv, Sessions
<1>2. /\ sess'[r].said = sess[r].said /\ sess'[r].heard = sess[r].heard /\ sess'[r].from = s
      /\ sess'[r].sent /\ sess'[r].fetched = sess[r].fetched /\ sess'[r].updates = U
      /\ \A q \in Replicas \ {r} : sess'[q] = sess[q]
  BY <1>1, MemoryType DEF Sessions
<1>3. store[s] \in Views /\ mem[r] \in Views
  BY <1>1, MemoryType
<1>4. \A u \in U : u.path \in Known(store[s]) /\ Pure(u) = Of(store[s], u.path)
  <2> SUFFICES ASSUME NEW u \in U PROVE u.path \in Known(store[s]) /\ Pure(u) = Of(store[s], u.path)
    OBVIOUS
  <2>1. PICK p \in Known(store[s]) :
          u = [path |-> p, versions |-> store[s].st[p].versions, seen |-> store[s].st[p].seen]
    BY DEF DeltaFor
  <2> HIDE DEF U, s
  <2>2. u.path = p /\ u.versions = store[s].st[p].versions /\ u.seen = store[s].st[p].seen
    BY <2>1
  <2> QED
    BY <2>2 DEF Pure, Of, StateOf
<1>5. \A u, v \in U : u.path = v.path => u = v
  BY DEF DeltaFor
<1>6. ASSUME NEW p \in Known(store[s]), ~Covers(sess[r].said, store[s].st[p].seen)
      PROVE  \E u \in U : u.path = p /\ u.seen = Of(store[s], p).seen
  <2> DEFINE u == [path |-> p, versions |-> store[s].st[p].versions, seen |-> store[s].st[p].seen]
  <2>1. u \in U
    BY <1>6 DEF DeltaFor
  <2>2. u.path = p /\ u.seen = Of(store[s], p).seen
    BY DEF Of, StateOf, Pure
  <2> QED
    BY <2>1, <2>2
<1> HIDE DEF U
<1>7. FromStores
  BY <1>1, <1>2, <1>4 DEF FromStores
<1>8. /\ DataHist' /\ Stored /\ (\A q \in Replicas \ {r} : Promise(q)' /\ InOrder(q)')
      /\ \A p \in Paths, x \in Replicas, n \in Nat : Reached(Objs(p)', x, n) => Reached(Objs(p), x, n)
  BY <1>1, <1>2, <1>7, RecordsStay
<1>9. InOrder(r) /\ Promise(r)
  BY DEF HistInv, SessHist
<1>10. InOrder(r)'
  <2>1. call[r].kind # "apply" /\ call[r].kind # "fetch" /\ ~sess[r].fetched /\ call[r].page = {}
    BY <1>1, <1>9 DEF InOrder
  <2> QED
    BY <1>1, <1>2, <1>5, <2>1 DEF InOrder
<1>11. ASSUME NEW p \in Paths, NEW x \in Replicas, NEW n \in Nat, Reached(Objs(p)', x, n),
              n <= sess[r].heard[x]
       PROVE  n <= Of(mem[r], p).seen[x] \/ \E u \in U : u.path = p /\ n <= u.seen[x]
  <2>1. Reached(Objs(p), x, n)
    BY <1>8, <1>11
  <2>2. Delivered(r, p, x, n) /\ s # 0
    BY <1>1, <1>9, <1>11, <2>1, ReplicasAssumption DEF Promise
  <2>3. n <= Of(store[s], p).seen[x]
    BY <1>1, <2>2 DEF Delivered
  <2>4. CASE p \notin Known(store[s])
    <3>1. Of(store[s], p).seen[x] = 0
      BY <1>3, <2>4, OfType DEF NoVersions
    <3>2. Of(mem[r], p).seen[x] \in Nat
      BY <1>3, OfType
    <3> QED
      BY <2>3, <3>1, <3>2
  <2>5. CASE p \in Known(store[s]) /\ ~Covers(sess[r].said, store[s].st[p].seen)
    BY <1>6, <2>3, <2>5
  <2>6. CASE p \in Known(store[s]) /\ Covers(sess[r].said, store[s].st[p].seen)
    <3>1. Of(store[s], p).seen[x] <= sess[r].said[x]
      BY <2>6 DEF Covers, Of, StateOf, Pure
    <3>2. sess[r].said[x] <= mem[r].vv[x]
      BY <1>9 DEF Promise, Covers
    <3>3. Of(store[s], p).seen[x] \in Nat /\ sess[r].said[x] \in Nat /\ mem[r].vv[x] \in Nat
      BY <1>3, OfType, MemoryType
    <3>4. n <= mem[r].vv[x]
      BY <2>3, <3>1, <3>2, <3>3
    <3> QED
      BY <2>1, <3>4 DEF HistInv, DataHist, Honest, HonestView
  <2> QED
    BY <2>4, <2>5, <2>6
<1>12. Promise(r)'
  <2>1. Covers(mem[r].vv, sess[r].said)
    BY <1>9 DEF Promise
  <2> QED
    BY <1>1, <1>2, <1>11, <2>1 DEF Promise, Delivered
<1> QED
  BY <1>8, <1>10, <1>12 DEF HistInv, SessHist

LEMMA EndSessionHist ==
  ASSUME TypeInv, DotInv, HistInv, NEW r \in Replicas, EndSession(r)
  PROVE  HistInv' /\ Stored
<1>1. /\ UNCHANGED <<mem, store, pending, call>> /\ call[r] = Idle
      /\ sess' = [sess EXCEPT ![r] = NoSession]
  BY DEF EndSession
<1>2. sess'[r] = NoSession /\ \A q \in Replicas \ {r} : sess'[q] = sess[q]
  BY <1>1, MemoryType
<1>3. FromStores
  BY <1>2 DEF FromStores, NoSession
<1>4. DataHist' /\ Stored /\ (\A q \in Replicas \ {r} : Promise(q)' /\ InOrder(q)')
  BY <1>1, <1>2, <1>3, RecordsStay
<1>5. Promise(r)' /\ InOrder(r)'
  BY <1>1, <1>2, MemoryType, NoPromise
<1> QED
  BY <1>4, <1>5 DEF HistInv, SessHist

LEMMA CommitSessionHist ==
  ASSUME TypeInv, DotInv, HistInv, NEW r \in Replicas, CommitSession(r)
  PROVE  HistInv' /\ Stored
<1> DEFINE view == WithVector(mem[r], sess[r].heard)
<1>1. /\ mem' = [mem EXCEPT ![r] = view] /\ store' = [store EXCEPT ![r] = view]
      /\ pending' = [pending EXCEPT ![r] = {}] /\ call' = call /\ call[r] = Idle
      /\ sess' = [sess EXCEPT ![r] = NoSession] /\ sess[r].fetched
  BY DEF CommitSession, WithVector
<1>2. /\ mem \in [Replicas -> Views] /\ store \in [Replicas -> Views] /\ mem[r] \in Views
      /\ sess[r].heard \in VersionVector /\ pending \in [Replicas -> SUBSET Paths]
  BY MemoryType DEF TypeInv, DataInv
<1>3. /\ view \in Views /\ Known(view) = Known(mem[r]) /\ view.st = mem[r].st
      /\ view.counter = mem[r].counter /\ view.vv = MergeVV(mem[r].vv, sess[r].heard)
  BY <1>2, WithVectorType
<1> HIDE DEF view
<1>4. \A p \in Paths : Of(view, p) = Of(mem[r], p)
  BY <1>3 DEF Of, StateOf
<1>5. DiskBehind(view)
  BY <1>3 DEF HistInv, DataHist, StoreBehind, DiskBehind
<1>6. Evolved(r, view)
  BY <1>1, <1>3, <1>4, <1>5 DEF Evolved, Claimed
<1>7. WroteBack(r, view)
  BY <1>1, <1>2 DEF WroteBack, Same
<1>8. sess'[r] = NoSession /\ \A q \in Replicas \ {r} : sess'[q] = sess[q]
  BY <1>1, MemoryType
<1>9. FromStores
  BY <1>8 DEF FromStores, NoSession
<1>10. Good(r, view) /\ DataHist' /\ Stored
  BY <1>6, <1>7, <1>9, EvolvedGood, DataStep
<1>11. \A q \in Replicas : mem'[q] \in Views /\ Ahead(mem[q], mem'[q])
  BY <1>1, <1>2, <1>3, <1>7, <1>9, <1>10, AheadStep
<1>12. \A q \in Replicas \ {r} : Promise(q)' /\ InOrder(q)'
  BY <1>1, <1>7, <1>8, <1>9, <1>10, <1>11, PromiseKept, InOrderKept
<1>13. Promise(r)' /\ InOrder(r)'
  BY <1>1, <1>8, <1>11, NoPromise
<1> QED
  BY <1>10, <1>12, <1>13 DEF HistInv, SessHist

-----------------------------------------------------------------------------
(* The invariant holds *)

LEMMA InitHist == Init => HistInv
<1> SUFFICES ASSUME Init PROVE HistInv
  OBVIOUS
<1>1. \A r \in Replicas : /\ mem[r] = EmptyView /\ store[r] = EmptyView /\ pending[r] = {}
                          /\ call[r] = Idle /\ sess[r] = NoSession
  BY DEF Init
<1> DEFINE B == [versions |-> {}, seen |-> NoVersions]
<1>2. \A p \in Paths : Of(EmptyView, p) = B
  BY NoStateType DEF Of, Pure, StateOf, EmptyView, Known
<1>3. \A r \in Replicas : sess[r].updates = {}
  BY <1>1 DEF NoSession
<1>4. \A p \in Paths : \A D \in Objs(p) : D = B
  BY <1>1, <1>2, <1>3 DEF Objs, Transit
<1>5. EmptyView.vv = NoVersions /\ EmptyView.counter = 0 /\ Known(EmptyView) = {}
  BY DEF EmptyView, Known
<1>6. B.versions = {} /\ B.seen = NoVersions /\ B \in Records /\ \A x \in Replicas : NoVersions[x] = 0
  BY NoVersionsType DEF Records, NoVersions
<1> HIDE DEF B
<1>7. CausalInv
  BY <1>4, <1>6 DEF CausalInv, Causal, Dotted, Explained
<1>8. AuthorsFirst
  BY <1>1, <1>2, <1>4, <1>6, Whereabouts DEF AuthorsFirst
<1>9. StoreBehind
  BY <1>1, <1>2, <1>5, <1>6 DEF StoreBehind, Ahead, Covers, DiskBehind, Same
<1>10. \A p \in Paths, x \in Replicas, n \in Nat : Reached(Objs(p), x, n) => n = 0
  BY <1>4, <1>6 DEF Reached
<1>11. Honest
  BY <1>1, <1>2, <1>6, <1>10 DEF Honest, HonestView
<1>12. OwnWrites
  BY <1>1, <1>2, <1>6 DEF OwnWrites, Apart
<1>13. ASSUME NEW r \in Replicas PROVE InOrder(r) /\ Promise(r)
  <2>1. call[r].kind = "idle" /\ call[r].page = {}
    BY <1>1 DEF Idle
  <2>2. /\ ~sess[r].sent /\ ~sess[r].fetched /\ sess[r].from = 0
        /\ sess[r].said = NoVersions /\ sess[r].updates = {}
    BY <1>1 DEF NoSession
  <2>3. Covers(mem[r].vv, NoVersions)
    BY <1>1, <1>5, <1>6 DEF Covers
  <2> QED
    BY <2>1, <2>2, <2>3 DEF InOrder, Promise, Delivered
<1> QED
  BY <1>7, <1>8, <1>9, <1>11, <1>12, <1>13 DEF HistInv, DataHist, SessHist

LEMMA NextHist == TypeInv /\ DotInv /\ HistInv /\ [Next]_vars => HistInv' /\ Stored
<1> SUFFICES ASSUME TypeInv, DotInv, HistInv, [Next]_vars PROVE HistInv' /\ Stored
  OBVIOUS
<1>1. TypeInv'
  BY NextType
<1>2. CASE UNCHANGED vars
  BY <1>2, WorldHist DEF vars
<1>3. ASSUME NEW r \in Replicas, CallStep(r)
      PROVE  HistInv' /\ Stored
  BY <1>1, <1>3, TakeHist, ReconcileHist, CopyHist, FlushVersionsHist, SettleHist, JoinUpdateHist,
     SettleJoinedHist, FinishHist DEF CallStep
<1>4. ASSUME NEW r \in Replicas, SessionStep(r)
      PROVE  HistInv' /\ Stored
  BY <1>4, HelloHist, PagesHist, StartHist, CommitSessionHist DEF SessionStep
<1>5. ASSUME NEW r \in Replicas, UserEdit(r) \/ Unmount(r) \/ Mount(r) \/ SomeContent(r)
      PROVE  HistInv' /\ Stored
  BY <1>5, WorldHist DEF UserEdit, UserWrite, UserDelete, Unmount, Mount, SomeContent, Content
<1> QED
  BY <1>2, <1>3, <1>4, <1>5, CrashHist, StartHist, EndSessionHist DEF Next

\* The inductive invariant behind the theorems below, which next_entry, join, commit_state,
\* commit_session and a crash between any two steps of a call keep: the states of a path explain
\* each other, its author's store is first to have a write, vectors are honest, and a session
\* delivers what it heard claimed.
THEOREM HistoryInvariant == Spec => [](TypeInv /\ DotInv /\ HistInv)
<1>1. Init => TypeInv /\ DotInv /\ HistInv
  BY InitType, InitDots, InitHist
<1>2. TypeInv /\ DotInv /\ HistInv /\ [Next]_vars => (TypeInv /\ DotInv /\ HistInv)'
  BY NextType, NextDots, NextHist
<1> QED
  BY <1>1, <1>2, PTL DEF Spec

LEMMA HistInvGivesSameVersions == TypeInv /\ HistInv => SameSeenSameVersions
<1> SUFFICES ASSUME TypeInv, HistInv, NEW r \in Replicas, NEW q \in Replicas,
                    NEW p \in Known(mem[r]) \cap Known(mem[q]), mem[r].st[p].seen = mem[q].st[p].seen
             PROVE  mem[r].st[p].versions = mem[q].st[p].versions
  BY DEF SameSeenSameVersions
<1>1. p \in Paths
  BY MemoryType, ViewElim
<1>2. /\ Of(mem[r], p).seen = mem[r].st[p].seen /\ Of(mem[r], p).versions = mem[r].st[p].versions
      /\ Of(mem[q], p).seen = mem[q].st[p].seen /\ Of(mem[q], p).versions = mem[q].st[p].versions
  BY DEF Of, StateOf, Pure
<1>3. Of(mem[r], p) \in Objs(p) /\ Of(mem[q], p) \in Objs(p) /\ Causal(Objs(p))
  BY <1>1, Whereabouts DEF HistInv, DataHist, CausalInv
<1> QED
  BY <1>2, <1>3, CausalAgree

LEMMA HistInvGivesHonestVectors == TypeInv /\ HistInv => VectorIsHonest
<1> SUFFICES ASSUME TypeInv, HistInv, NEW r \in Replicas, NEW q \in Replicas, NEW p \in Known(mem[q]),
                    NEW e \in mem[q].st[p].versions, NEW view \in {mem[r], store[r]},
                    CoversDot(view.vv, e.dot)
             PROVE  CoversDot(StateOf(view, p).seen, e.dot)
  BY DEF VectorIsHonest
<1>1. p \in Paths /\ mem[q].st[p] \in States
  BY MemoryType, ViewElim
<1>2. e.dot \in Dot
  BY <1>1, StateElim DEF Entry
<1>3. Of(mem[q], p) \in Objs(p) /\ e \in Of(mem[q], p).versions
  BY Whereabouts DEF Of, StateOf, Pure
<1>4. /\ Reached(Objs(p), e.dot.replica, e.dot.counter)
      /\ e.dot.replica \in Replicas /\ e.dot.counter \in Nat /\ e.dot.counter <= view.vv[e.dot.replica]
  <2>1. view.vv \in VersionVector
    BY MemoryType
  <2> QED
    BY <1>2, <1>3, <2>1 DEF Reached, CoversDot, Dot, VersionVector
<1>5. e.dot.counter <= Of(view, p).seen[e.dot.replica] /\ Of(view, p).seen \in VersionVector
  BY <1>1, <1>4, OfType, MemoryType DEF HistInv, DataHist, Honest, HonestView
<1> QED
  BY <1>4, <1>5 DEF CoversDot, Of, Pure, VersionVector

\* Replicas that have merged the same writes of a path hold the same versions of it, whatever the
\* order in which join merged them, whoever relayed them and whatever crashed in between.
THEOREM SameSeenSameVersionsAlways == Spec => []SameSeenSameVersions
BY HistoryInvariant, HistInvGivesSameVersions, PTL

\* A vector, in memory or in a store, covers no version that some replica holds and this one has
\* not merged: what commit_session claims has been applied, so no peer's delta_for leaves out a
\* write that is lacking.
THEOREM VectorsAreHonest == Spec => []VectorIsHonest
BY HistoryInvariant, HistInvGivesHonestVectors, PTL

-----------------------------------------------------------------------------
(* What the stores say, and module Replication *)

Knows(s) == [r \in Replicas |-> [p \in NamedPaths |-> StateOf(s[r], p).seen]]

Vectored(s) == [r \in Replicas |-> s[r].vv]

\* The step of module Replication that writing r's view back is.
LEMMA WriteBackSpreads ==
  ASSUME TypeInv, DotInv, HistInv, TypeInv', DotInv', HistInv', NEW r \in Replicas, NEW w \in Views,
         Good(r, w), mem' = [mem EXCEPT ![r] = w], store' = [store EXCEPT ![r] = w]
  PROVE  Durable!Step(r)
<1> DEFINE k(q, p) == Of(store[q], p).seen
           n(p) == Of(w, p).seen
<1>1. /\ mem'[r] = w /\ store'[r] = w
      /\ \A q \in Replicas \ {r} : store'[q] = store[q]
      /\ \A q \in Replicas : store[q] \in Views /\ mem[q] \in Views
  BY MemoryType
<1>2. /\ NamedPaths \subseteq Paths
      /\ \A p \in NamedPaths : n(p) = StateOf(w, p).seen /\ n(p) \in VersionVector
      /\ \A p \in NamedPaths, q \in Replicas : k(q, p) = StateOf(store[q], p).seen /\ k(q, p) \in VersionVector
  BY <1>1, OfType, ReplicaAssumption DEF Of, Pure
<1>3. /\ Knows(store') = [Knows(store) EXCEPT ![r] = Knows(store')[r]]
      /\ Vectored(store') = [Vectored(store) EXCEPT ![r] = Vectored(store')[r]]
  <2>1. \A q \in Replicas \ {r} : Knows(store')[q] = Knows(store)[q] /\ Vectored(store')[q] = Vectored(store)[q]
    BY <1>1 DEF Knows, Vectored
  <2> DEFINE K == Knows(store)  L == Knows(store')  V == Vectored(store)  W == Vectored(store')
  <2>2. DOMAIN K = Replicas /\ DOMAIN L = Replicas /\ DOMAIN V = Replicas /\ DOMAIN W = Replicas
        /\ K = [q \in Replicas |-> K[q]] /\ L = [q \in Replicas |-> L[q]]
        /\ V = [q \in Replicas |-> V[q]] /\ W = [q \in Replicas |-> W[q]]
    BY DEF Knows, Vectored
  <2> HIDE DEF K, L, V, W
  <2>3. L = [K EXCEPT ![r] = L[r]] /\ W = [V EXCEPT ![r] = W[r]]
    BY <2>1, <2>2 DEF K, L, V, W
  <2> QED
    BY <2>3 DEF K, L, V, W
<1>4. /\ Knows(store')[r] \in [NamedPaths -> VersionVector] /\ Vectored(store')[r] \in VersionVector
      /\ \A q \in Replicas : store[q].vv \in VersionVector
      /\ w.vv \in VersionVector
  BY <1>1, <1>2, ViewElim DEF Knows, Vectored
<1>5. /\ \A q \in Replicas : Vectored(store)[q] = store[q].vv /\ Vectored(store')[r] = w.vv
      /\ \A p \in NamedPaths : /\ \A q \in Replicas : Knows(store)[q][p] = k(q, p)
                               /\ Knows(store')[r][p] = n(p)
  BY <1>1, <1>2 DEF Knows, Vectored
<1>6. Ahead(store[r], w)
  <2>1. Ahead(store[r], mem[r]) /\ Ahead(mem[r], w)
    BY DEF HistInv, DataHist, StoreBehind, Good, PathGood, Ahead
  <2> QED
    BY <1>1, <2>1, AheadTrans
<1>7. /\ store[r].vv[r] = store[r].counter /\ w.vv[r] = w.counter
      /\ store[r].counter \in Nat /\ w.counter \in Nat /\ mem[r].counter \in Nat
      /\ store[r].counter <= mem[r].counter
  BY <1>1, OwnBound, ViewElim DEF HistInv, DataHist, StoreBehind, Good
<1>8. ASSUME NEW p \in NamedPaths, n(p)[r] # k(r, p)[r]
      PROVE  store[r].vv[r] < n(p)[r] /\ n(p)[r] <= w.vv[r]
  <2>1. n(p)[r] \in Nat /\ k(r, p)[r] \in Nat /\ Of(mem[r], p).seen[r] \in Nat
    BY <1>1, <1>2, OfType DEF VersionVector
  <2>2. n(p)[r] <= w.counter
    <3>1. Bounded(w, r, w.counter)
      BY <1>1 DEF DotInv, DataDots, Fits
    <3> QED
      BY <1>1, <1>2, <1>7, <3>1, StateOfBounded
  <2>3. n(p)[r] = Of(mem[r], p).seen[r] \/ mem[r].counter < n(p)[r]
    BY <1>2 DEF Good, PathGood
  <2>4. Of(mem[r], p).seen[r] # k(r, p)[r] => store[r].counter < Of(mem[r], p).seen[r]
    BY <1>2 DEF HistInv, DataHist, OwnWrites
  <2> QED
    BY <1>7, <1>8, <2>1, <2>2, <2>3, <2>4
<1>9. ASSUME NEW p \in NamedPaths, NEW q \in NamedPaths, p # q, n(p)[r] = n(q)[r]
      PROVE  n(p)[r] = 0
  <2>1. Apart(r, store'[r])
    BY DEF HistInv, DataHist, OwnWrites
  <2> QED
    BY <1>1, <1>2, <1>9, <2>1 DEF Apart
<1>10. ASSUME NEW x \in Replicas \ {r}, NEW p \in NamedPaths
       PROVE  /\ k(r, p)[x] <= n(p)[x] /\ n(p)[x] <= k(x, p)[x]
              /\ k(x, p)[x] <= w.vv[x] => k(x, p)[x] <= n(p)[x]
  <2>1. k(r, p)[x] <= n(p)[x]
    BY <1>2, <1>6 DEF Ahead, Covers
  <2>2. Of(store'[r], p) \in Abroad(x, p)'
    BY DEF Abroad
  <2>3. Of(store'[r], p).seen[x] <= Of(store'[x], p).seen[x]
    BY <1>2, <2>2 DEF HistInv, DataHist, AuthorsFirst
  <2>4. k(x, p)[x] \in Nat /\ Reached(Objs(p), x, k(x, p)[x])
    <3>1. k(x, p)[x] \in Nat
      BY <1>2 DEF VersionVector
    <3>2. k(x, p) = Of(store[x], p).seen /\ Of(store[x], p) \in Objs(p)
      BY Whereabouts
    <3> QED
      BY <3>1, <3>2 DEF Reached
  <2> QED
    BY <1>1, <1>2, <2>1, <2>3, <2>4 DEF Good
<1>11. ASSUME NEW x \in Replicas \ {r}
       PROVE  store[r].vv[x] <= w.vv[x] /\ w.vv[x] <= store[x].vv[x]
  <2>1. Bounded(w, x, store[x].counter) /\ store[x].vv[x] = store[x].counter
    BY <1>1 DEF DotInv, DataDots, Fits, HistInv, DataHist, StoreBehind
  <2> QED
    BY <1>6, <2>1 DEF Ahead, Covers, Bounded
<1> HIDE DEF k, n
<1>12. Durable!Writes(r)
  <2>1. store[r].vv[r] <= w.vv[r]
    BY <1>4, <1>6, <1>7 DEF Ahead, Covers, VersionVector
  <2>2. \A p \in NamedPaths : n(p)[r] \in Nat
    BY <1>2 DEF VersionVector
  <2> QED
    BY <1>5, <1>7, <1>8, <1>9, <2>1, <2>2 DEF Durable!Writes, Durable!Written, Knows, Vectored
<1>13. ASSUME NEW x \in Replicas \ {r}
       PROVE  Durable!Learns(r, x) /\ Durable!Claims(r, x)
  BY <1>5, <1>10, <1>11 DEF Durable!Learns, Durable!Claims, Knows, Vectored
<1> QED
  BY <1>3, <1>4, <1>12, <1>13 DEF Durable!Step, Durable!VersionVector, VersionVector, Knows, Vectored

LEMMA StoredSpreads ==
  ASSUME TypeInv, DotInv, HistInv, TypeInv', DotInv', HistInv', Stored
  PROVE  [Durable!Next]_(Durable!vars)
<1>1. CASE store' = store
  BY <1>1 DEF Durable!vars
<1>2. ASSUME NEW r \in Replicas, NEW w \in Views, Good(r, w), WroteBack(r, w), store' # store
      PROVE  Durable!Step(r)
  BY <1>2, WriteBackSpreads DEF WroteBack
<1> QED
  BY <1>1, <1>2 DEF Stored, Durable!Next

LEMMA InitStores == Init => Durable!Init
<1> SUFFICES ASSUME Init PROVE Durable!Init
  OBVIOUS
<1>1. \A r \in Replicas : store[r].vv = NoVersions /\ Known(store[r]) = {}
  BY DEF Init, EmptyView, Known
<1>2. \A r \in Replicas, p \in NamedPaths : StateOf(store[r], p).seen = NoVersions
  BY <1>1 DEF StateOf, NoState
<1> QED
  BY <1>1, <1>2 DEF Durable!Init, Durable!NoVersions, NoVersions

\* The stores implement module Replication: writing states back (flush, commit_state,
\* commit_session), whenever it happens and whatever crashes, records new writes of the replica's
\* own under unused numbers, learns of others' only what their stores have, and claims nothing
\* that it lacks.
THEOREM StoresSpreadWrites == Spec => StoreSpreadsWrites
<1>1. TypeInv /\ DotInv /\ HistInv /\ [Next]_vars => (TypeInv /\ DotInv /\ HistInv)' /\ Stored
  BY NextType, NextDots, NextHist
<1>2. TypeInv /\ DotInv /\ HistInv /\ [Next]_vars => [Durable!Next]_(Durable!vars)
  BY <1>1, StoredSpreads
<1> QED
  BY HistoryInvariant, InitStores, <1>2, PTL DEF Spec, StoreSpreadsWrites, Durable!Spec

-----------------------------------------------------------------------------
(* Files, and what is recorded of them *)

\* What the root holds at p, were it there.
Raw(r, p) == IF p \in DOMAIN file[r] THEN file[r][p] ELSE None

\* What users of r may leave at p; anything, of a conflict copy that is not deleted.
MayLeave(r, p) ==
  (IF IsCopy(p) THEN Contents ELSE Types[r]) \cup (IF r \in Deleters THEN {None} ELSE {})

\* What the view explains at p: the file as recorded, or the winner placed and not yet recorded.
Expected(view, p) ==
  IF p \in Known(view) THEN {view.st[p].hash, Winner(view.st[p].versions).content} ELSE {None}

Filed(r) ==
  \A p \in Paths : \A view \in {mem[r], store[r]} : Raw(r, p) \in MayLeave(r, p) \cup Expected(view, p)

\* A store that lacks no joined versions holds those that calls see.
StoreSays(r) ==
  ~unflushed[r] => \A p \in Paths : StateOf(store[r], p).versions = StateOf(mem[r], p).versions

ByUsers(versions, p) == \A e \in versions : e.content \in MayLeave(e.dot.replica, p)

ViewByUsers(view) == \A p \in Known(view) : ByUsers(view.st[p].versions, p)

\* The paths that r's call has reconciled and not settled.
Hand(r) == call[r].joined \cup (IF call[r].pc \in {"copies", "join"} THEN {call[r].cur} ELSE {})

AtHand(r) == \A p \in Hand(r) : Raw(r, p) \in MayLeave(r, p) \cup {StateOf(mem[r], p).hash}

Away(r) ==
  ~mounted[r] =>
    /\ AllSettled(r) /\ call[r].kind \in {"idle", "scan"} /\ left.crashes = 0
    /\ \E p \in Known(mem[r]) : mem[r].st[p].hash # None

\* Where r's call stands: it copies losers of the path's state, and a file that it missed was a
\* user's to delete, unless the root is away.
Midway(r) ==
  /\ call[r].pc = "copies" => call[r].losers \subseteq Losers(call[r].cur, mem[r].st[call[r].cur])
  /\ call[r].pc = "gone" =>
       \/ ~mounted[r]
       \/ {None, Raw(r, call[r].cur)} \subseteq MayLeave(r, call[r].cur)

Bounds == [edits : Nat, crashes : Nat, unmounts : Nat, drops : Nat, links : SUBSET (Replicas \X Replicas)]

DiskSide(r) == Filed(r) /\ StoreSays(r) /\ ViewByUsers(mem[r]) /\ ViewByUsers(store[r])

CallSide(r) == AtHand(r) /\ Away(r) /\ Midway(r)

SessSide(r) == \A u \in sess[r].updates : ByUsers(u.versions, u.path)

FileInv ==
  /\ left \in Bounds /\ (left.crashes = 0 \/ left.unmounts = 0)
  /\ \A r \in Replicas : DiskSide(r) /\ CallSide(r) /\ SessSide(r)

\* No root goes away while a call still has paths to settle, nor in a behaviour in which replicas
\* crash, and none is back before a scan that missed a file in it asked for it.  The first two are
\* needed as a file is placed and recorded before that is flushed, so a call under way or a crash
\* leaves a file that its record does not explain; a missing root then pauses nothing, and once it is
\* back the old bytes, or their absence, are taken for an edit.  Without the third, the scan takes the
\* root's absence for a delete (AbsenceHeals says what becomes of it).
RootsLeaveInPeace == ~VanishAnytime /\ ~BackAnytime /\ \A s \in Starts : s.unmounts = 0 \/ s.crashes = 0

-----------------------------------------------------------------------------
(* What a step leaves of it *)

\* A step of r's.
Alone(r) ==
  /\ \A x \in Replicas \ {r} : /\ file'[x] = file[x] /\ mem'[x] = mem[x] /\ store'[x] = store[x]
                               /\ unflushed'[x] = unflushed[x] /\ call'[x] = call[x]
  /\ mounted' = mounted /\ left' = left
  /\ \A x \in Replicas : sess'[x].updates \subseteq sess[x].updates

LEMMA OneSide ==
  ASSUME FileInv, NEW r \in Replicas, Alone(r), DiskSide(r)', CallSide(r)'
  PROVE  FileInv'
<1>1. ASSUME NEW x \in Replicas \ {r}
      PROVE  DiskSide(x)' /\ CallSide(x)'
  <2>1. /\ DiskSide(x) /\ CallSide(x) /\ left' = left /\ mounted' = mounted
        /\ file'[x] = file[x] /\ mem'[x] = mem[x] /\ store'[x] = store[x]
        /\ unflushed'[x] = unflushed[x] /\ call'[x] = call[x]
    BY DEF FileInv, Alone
  <2> QED
    BY <2>1 DEF DiskSide, CallSide, Filed, Raw, StoreSays, AtHand, Hand, Away, AllSettled, Midway
<1>2. \A x \in Replicas : SessSide(x)'
  BY DEF FileInv, Alone, SessSide
<1> QED
  BY <1>1, <1>2 DEF FileInv, Alone

\* No recorded state changes; the store may take them all.
LEMMA StillDisk ==
  ASSUME NEW r \in Replicas, DiskSide(r), file'[r] = file[r], mem'[r].st = mem[r].st,
         \/ store'[r].st = store[r].st /\ unflushed'[r] = unflushed[r]
         \/ store'[r].st = mem[r].st
  PROVE  DiskSide(r)'
BY DEF DiskSide, Filed, Raw, Expected, StoreSays, StateOf, ViewByUsers, Known

LEMMA StillAway ==
  ASSUME NEW r \in Replicas, Away(r), mem'[r].st = mem[r].st, mounted' = mounted, left' = left,
         call'[r].kind \in {call[r].kind, "idle"}
  PROVE  Away(r)'
BY DEF Away, AllSettled, Uncopied, Known

\* Nor does it need to while the call only goes on to fewer paths.
LEMMA StillHand ==
  ASSUME NEW r \in Replicas, AtHand(r), file'[r] = file[r], mem'[r].st = mem[r].st, Hand(r)' \subseteq Hand(r)
  PROVE  AtHand(r)'
BY DEF AtHand, Raw, StateOf, Known

\* What commit_state marks: versions that were joined wait for a flush.
LEMMA CommitMarks ==
  ASSUME TypeInv, NEW r \in Replicas, NEW w, NEW p, NEW b \in BOOLEAN, CommitState(r, w, p, b)
  PROVE  /\ mem'[r] = w
         /\ store'[r] = w \/ (store'[r] = store[r] /\ unflushed'[r] = (b \/ unflushed[r]))
         /\ b => unflushed'[r]
         /\ \A x \in Replicas \ {r} :
              mem'[x] = mem[x] /\ store'[x] = store[x] /\ unflushed'[x] = unflushed[x]
<1> DEFINE full == Cardinality(pending[r] \cup {p}) >= MaxPending
<1>1. /\ mem' = [mem EXCEPT ![r] = w]
      /\ store' = IF full THEN [store EXCEPT ![r] = w] ELSE store
      /\ unflushed' = [unflushed EXCEPT ![r] = b \/ (@ /\ ~full)]
  BY DEF CommitState
<1>2. full \in BOOLEAN
  OBVIOUS
<1> HIDE DEF full
<1>3. /\ mem'[r] = w
      /\ store'[r] = IF full THEN w ELSE store[r]
      /\ unflushed'[r] = (b \/ (unflushed[r] /\ ~full))
      /\ \A x \in Replicas \ {r} :
           mem'[x] = mem[x] /\ store'[x] = store[x] /\ unflushed'[x] = unflushed[x]
  BY <1>1 DEF TypeInv, DataInv
<1>4. unflushed[r] \in BOOLEAN
  BY DEF TypeInv, DataInv
<1> QED
  BY <1>2, <1>3, <1>4

\* One path's new state is recorded, and nothing is written but that path's file.
LEMMA CommitSide ==
  ASSUME TypeInv, NEW r \in Replicas, DiskSide(r),
         NEW p \in Paths, NEW w \in Views, NEW b \in BOOLEAN, CommitState(r, w, p, b),
         Known(w) = Known(mem[r]) \cup {p},
         \A q \in Known(mem[r]) \ {p} :
           w.st[q].hash = mem[r].st[q].hash /\ w.st[q].versions = mem[r].st[q].versions,
         b \/ StateOf(w, p).versions = StateOf(mem[r], p).versions,
         ByUsers(w.st[p].versions, p),
         \A q \in Paths \ {p} : Raw(r, q)' = Raw(r, q),
         Raw(r, p)' \in MayLeave(r, p) \cup {w.st[p].hash},
         Raw(r, p)' \in MayLeave(r, p) \cup Expected(store[r], p)
  PROVE  DiskSide(r)' /\ mem'[r] = w
<1>1. /\ mem'[r] = w
      /\ store'[r] = w \/ (store'[r] = store[r] /\ unflushed'[r] = (b \/ unflushed[r]))
      /\ b => unflushed'[r]
  BY CommitMarks
<1>2. ASSUME NEW q \in Paths
      PROVE  Raw(r, q)' \in MayLeave(r, q) \cup Expected(w, q)
  BY DEF DiskSide, Filed, Expected
<1>3. ASSUME NEW q \in Paths
      PROVE  Raw(r, q)' \in MayLeave(r, q) \cup Expected(store[r], q)
  BY DEF DiskSide, Filed
<1>4. Filed(r)'
  BY <1>1, <1>2, <1>3 DEF Filed
<1>5. ViewByUsers(w)
  BY DEF DiskSide, ViewByUsers
<1>6. ASSUME ~b, NEW q \in Paths
      PROVE  StateOf(w, q).versions = StateOf(mem[r], q).versions
  BY <1>6 DEF StateOf
<1>7. StoreSays(r)'
  BY <1>1, <1>6 DEF StoreSays, DiskSide
<1> QED
  BY <1>1, <1>4, <1>5, <1>7 DEF DiskSide

LEMMA CommitHand ==
  ASSUME NEW r \in Replicas, AtHand(r), NEW p \in Paths, NEW w \in Views, mem'[r] = w,
         Known(w) = Known(mem[r]) \cup {p},
         \A q \in Known(mem[r]) \ {p} : w.st[q].hash = mem[r].st[q].hash,
         \A q \in Paths \ {p} : Raw(r, q)' = Raw(r, q),
         Raw(r, p)' \in MayLeave(r, p) \cup {w.st[p].hash},
         Hand(r)' \subseteq (Hand(r) \cup {p}), Hand(r)' \subseteq Paths
  PROVE  AtHand(r)'
BY DEF AtHand, StateOf

-----------------------------------------------------------------------------
(* Steps of a call: who they touch *)

LEMMA CommitAlone ==
  ASSUME TypeInv, NEW r \in Replicas, NEW w, NEW p, NEW b \in BOOLEAN, CommitState(r, w, p, b),
         \A x \in Replicas \ {r} : file'[x] = file[x] /\ call'[x] = call[x],
         mounted' = mounted, left' = left, sess' = sess
  PROVE  Alone(r)
BY CommitMarks DEF Alone

LEMMA StillAlone ==
  ASSUME NEW r \in Replicas, UNCHANGED <<file, mounted, mem, store, unflushed, left>>,
         \A x \in Replicas \ {r} : call'[x] = call[x],
         \A x \in Replicas : sess'[x].updates \subseteq sess[x].updates
  PROVE  Alone(r)
BY DEF Alone

\* What flush and its kin write is what calls see.
LEMMA FlushSide ==
  ASSUME TypeInv, NEW r \in Replicas, Flush(r)
  PROVE  /\ \A x \in Replicas \ {r} : store'[x] = store[x] /\ unflushed'[x] = unflushed[x]
         /\ \/ store'[r].st = store[r].st /\ unflushed'[r] = unflushed[r]
            \/ store'[r].st = mem[r].st
BY DEF Flush, TypeInv, DataInv

\* Where the call goes on from a path.
LEMMA LeaveHand ==
  ASSUME TypeInv, NEW r \in Replicas, Leave(r)
  PROVE  /\ \A x \in Replicas \ {r} : call'[x] = call[x]
         /\ call'[r].kind = call[r].kind /\ call'[r].pc \in {"join", "pick"}
         /\ Hand(r)' \subseteq call[r].joined \cup {call[r].cur}
         /\ call[r].kind # "apply" => Hand(r)' = call[r].joined
<1>1. call \in [Replicas -> Calls] /\ call[r] \in Calls
  BY DEF TypeInv, CallInv
<1>2. CASE call[r].kind = "apply" /\ call[r].cur \in call[r].todo
  <2>1. call' = [call EXCEPT ![r] = [call[r] EXCEPT !.pc = "join", !.losers = {}]]
    BY <1>2 DEF Leave
  <2>2. /\ call'[r].kind = call[r].kind /\ call'[r].pc = "join" /\ call'[r].joined = call[r].joined
        /\ call'[r].cur = call[r].cur /\ \A x \in Replicas \ {r} : call'[x] = call[x]
    BY <1>1, <2>1 DEF Calls
  <2> QED
    BY <1>2, <2>2 DEF Hand
<1>3. CASE ~(call[r].kind = "apply" /\ call[r].cur \in call[r].todo)
  <2>1. call' = [call EXCEPT ![r] =
                   [call[r] EXCEPT !.pc = "pick", !.cur = None, !.losers = {}, !.todo = @ \ {call[r].cur}]]
    BY <1>3 DEF Leave
  <2>2. /\ call'[r].kind = call[r].kind /\ call'[r].pc = "pick" /\ call'[r].joined = call[r].joined
        /\ \A x \in Replicas \ {r} : call'[x] = call[x]
    BY <1>1, <2>1 DEF Calls
  <2> QED
    BY <2>2 DEF Hand
<1> QED
  BY <1>2, <1>3

LEMMA ToCopiesHand ==
  ASSUME TypeInv, NEW r \in Replicas, NEW s, ToCopies(r, s)
  PROVE  /\ \A x \in Replicas \ {r} : call'[x] = call[x]
         /\ call'[r].kind = call[r].kind /\ call'[r].pc = "copies" /\ call'[r].cur = call[r].cur
         /\ call'[r].losers = Losers(call[r].cur, s)
         /\ Hand(r)' \subseteq call[r].joined \cup {call[r].cur}
<1>1. call \in [Replicas -> Calls] /\ call[r] \in Calls
  BY DEF TypeInv, CallInv
<1>2. call' = [call EXCEPT ![r] = [call[r] EXCEPT !.pc = "copies", !.losers = Losers(call[r].cur, s)]]
  BY DEF ToCopies
<1>3. /\ call'[r].kind = call[r].kind /\ call'[r].pc = "copies" /\ call'[r].cur = call[r].cur
      /\ call'[r].losers = Losers(call[r].cur, s) /\ call'[r].joined = call[r].joined
      /\ \A x \in Replicas \ {r} : call'[x] = call[x]
  BY <1>1, <1>2 DEF Calls
<1> QED
  BY <1>3 DEF Hand

\* A call of a root that is away finds every path as it would leave it.
LEMMA AwaySettled ==
  ASSUME NEW r \in Replicas, Away(r), ~mounted[r]
  PROVE  /\ call[r].kind \in {"idle", "scan"} /\ AllSettled(r)
         /\ \A p \in Known(mem[r]) : /\ mem[r].st[p].hash = Winner(mem[r].st[p].versions).content
                                     /\ Uncopied(mem[r], p, mem[r].st[p]) = {}
BY DEF Away, AllSettled

\* The file of a path that is as recorded, or that the call cannot see.
LEMMA AsRecorded ==
  ASSUME TypeInv, NEW r \in Replicas, DiskSide(r), Away(r), NEW p \in Paths,
         OnDisk(r, p) = StateOf(mem[r], p).hash, mounted[r] \/ p \in Known(mem[r])
  PROVE  Raw(r, p) \in MayLeave(r, p) \cup {StateOf(mem[r], p).hash}
<1>1. CASE mounted[r]
  BY <1>1 DEF OnDisk, Raw
<1>2. CASE ~mounted[r]
  <2>1. p \in Known(mem[r]) /\ mem[r].st[p].hash = Winner(mem[r].st[p].versions).content
    BY <1>2, AwaySettled
  <2>2. Raw(r, p) \in MayLeave(r, p) \cup Expected(mem[r], p)
    BY DEF DiskSide, Filed
  <2> QED
    BY <2>1, <2>2 DEF Expected, StateOf
<1> QED
  BY <1>1, <1>2

\* The hashes that materialising or settling a path records.
LEMMA HashesType ==
  ASSUME NEW view \in Views, NEW p \in Known(view), NEW h \in Contents \cup {None}, NEW d \in VersionVector,
         NEW w \in {WithHash(view, p, h), WithDisk(view, p, h, d)}
  PROVE  w.st[p].hash = h /\ \A q \in Known(view) \ {p} : w.st[q].hash = view.st[q].hash
<1>1. view.st \in PathMap(States) /\ p \in DOMAIN view.st
  BY DEF Views, Known
<1>2. view.st \in [DOMAIN view.st -> States]
  BY <1>1, PathMapElim
<1>3. PICK t \in {[view.st[p] EXCEPT !.hash = h], [view.st[p] EXCEPT !.hash = h, !.diskSeen = d]} :
        w.st = [view.st EXCEPT ![p] = t]
  <2>2. ASSUME w = WithHash(view, p, h)
        PROVE  w.st = [view.st EXCEPT ![p] = [view.st[p] EXCEPT !.hash = h]]
    BY <1>1, <1>2, <2>2 DEF Views, WithHash
  <2>3. ASSUME w = WithDisk(view, p, h, d)
        PROVE  w.st = [view.st EXCEPT ![p] = [view.st[p] EXCEPT !.hash = h, !.diskSeen = d]]
    BY <1>1, <1>2, <2>3 DEF Views, WithDisk
  <2> QED
    BY <2>2, <2>3
<1>4. view.st[p] \in States
  BY <1>1, <1>2
<1>5. t.hash = h
  BY <1>3, <1>4 DEF States, PathState
<1>6. w.st[p] = t /\ \A q \in Known(view) \ {p} : w.st[q] = view.st[q]
  BY <1>1, <1>2, <1>3 DEF Known
<1> QED
  BY <1>5, <1>6

-----------------------------------------------------------------------------
(* What a step of a call keeps *)

LEMMA HandType ==
  ASSUME TypeInv, NEW r \in Replicas
  PROVE  /\ Hand(r) \subseteq Paths /\ call[r].joined \subseteq Hand(r) /\ call[r].joined \subseteq Paths
         /\ call[r].joined \subseteq Known(mem[r])
         /\ call[r].pc # "pick" => call[r].cur \in Paths
         /\ call[r].pc = "copies" => call[r].cur \in Known(mem[r]) /\ call[r].cur \in Hand(r)
         /\ call[r].pc = "join" => call[r].kind = "apply" /\ call[r].cur \in Hand(r)
BY DEF TypeInv, CallInv, CallOK, Calls, Hand

LEMMA StillSide ==
  ASSUME FileInv, NEW r \in Replicas, Alone(r), file' = file, mem'[r].st = mem[r].st,
         \/ store'[r].st = store[r].st /\ unflushed'[r] = unflushed[r]
         \/ store'[r].st = mem[r].st,
         call'[r].kind \in {call[r].kind, "idle"}, Midway(r)',
         \A p \in Hand(r)' : \/ p \in Hand(r)
                             \/ Raw(r, p) \in MayLeave(r, p) \cup {StateOf(mem[r], p).hash}
  PROVE  FileInv'
<1>1. DiskSide(r) /\ AtHand(r) /\ Away(r) /\ mounted' = mounted /\ left' = left
  BY DEF FileInv, CallSide, Alone
<1>2. DiskSide(r)'
  BY <1>1, StillDisk
<1>3. Away(r)'
  BY <1>1, StillAway
<1>4. AtHand(r)'
  BY <1>1 DEF AtHand, Raw, StateOf, Known
<1> QED
  BY <1>2, <1>3, <1>4, OneSide DEF CallSide

LEMMA CommitFile ==
  ASSUME TypeInv, FileInv, NEW r \in Replicas, Alone(r),
         NEW p \in Paths, NEW w \in Views, NEW b \in BOOLEAN, CommitState(r, w, p, b),
         Known(w) = Known(mem[r]) \cup {p},
         \A q \in Known(mem[r]) \ {p} :
           w.st[q].hash = mem[r].st[q].hash /\ w.st[q].versions = mem[r].st[q].versions,
         b \/ StateOf(w, p).versions = StateOf(mem[r], p).versions,
         ByUsers(w.st[p].versions, p),
         \A q \in Paths \ {p} : Raw(r, q)' = Raw(r, q),
         Raw(r, p)' \in MayLeave(r, p) \cup {w.st[p].hash},
         Raw(r, p)' \in MayLeave(r, p) \cup Expected(store[r], p),
         Hand(r)' \subseteq Hand(r) \cup {p}, Midway(r)', Away(r)'
  PROVE  FileInv'
<1>1. DiskSide(r) /\ AtHand(r)
  BY DEF FileInv, CallSide
<1>2. DiskSide(r)' /\ mem'[r] = w
  BY <1>1, CommitSide
<1>3. Hand(r)' \subseteq Paths
  BY HandType
<1>4. AtHand(r)'
  BY <1>1, <1>2, <1>3, CommitHand
<1> QED
  BY <1>2, <1>4, OneSide DEF CallSide

LEMMA TakeFile ==
  ASSUME TypeInv, FileInv, NEW r \in Replicas, NEW p \in call[r].todo, Take(r, p)
  PROVE  FileInv'
<1>1. call \in [Replicas -> Calls] /\ mem \in [Replicas -> Views]
  BY DEF TypeInv, CallInv, DataInv
<1>2. UNCHANGED <<file, mounted, store, unflushed, sess, left>>
  BY DEF Take, disks
<1>3. /\ \A x \in Replicas \ {r} : call'[x] = call[x]
      /\ call'[r].kind = call[r].kind /\ call'[r].pc = "reconcile" /\ call'[r].joined = call[r].joined
  BY <1>1 DEF Take, Calls
<1>4. mem'[r].st = mem[r].st /\ \A x \in Replicas \ {r} : mem'[x] = mem[x]
  <2>1. PICK h : mem' = [mem EXCEPT ![r] = [mem[r] EXCEPT !.hlc = h]] \/ mem' = mem
    BY DEF Take
  <2> QED
    BY <1>1, <2>1 DEF Views
<1>5. Alone(r)
  BY <1>2, <1>3, <1>4 DEF Alone
<1>6. Hand(r)' \subseteq Hand(r) /\ Midway(r)'
  BY <1>3 DEF Hand, Midway
<1> QED
  BY <1>2, <1>3, <1>4, <1>5, <1>6, StillSide

LEMMA ReconcileStillFile ==
  ASSUME TypeInv, FileInv, NEW r \in Replicas, ReconcileNothing(r) \/ ReconcileSame(r)
  PROVE  FileInv'
<1> DEFINE p == call[r].cur
<1>1. /\ call[r].pc = "reconcile" /\ UNCHANGED <<file, mounted, mem, store, unflushed, sess, left>>
      /\ OnDisk(r, p) = StateOf(mem[r], p).hash
  BY NoStateType DEF ReconcileNothing, ReconcileSame, disks, StateOf
<1>2. p \in Paths /\ DiskSide(r) /\ Away(r) /\ Midway(r)
  BY <1>1, HandType DEF FileInv, CallSide
<1>3. CASE ReconcileNothing(r)
  <2>1. Leave(r)
    BY <1>3 DEF ReconcileNothing
  <2>2. /\ \A x \in Replicas \ {r} : call'[x] = call[x]
        /\ call'[r].kind = call[r].kind /\ call'[r].pc \in {"join", "pick"}
        /\ Hand(r)' \subseteq call[r].joined \cup {p}
        /\ call[r].kind # "apply" => Hand(r)' = call[r].joined
    BY <2>1, LeaveHand
  <2>3. Alone(r)
    BY <1>1, <2>2, StillAlone
  <2>4. call[r].kind = "apply" => mounted[r]
    BY <1>2, AwaySettled
  <2>5. mounted[r] => Raw(r, p) \in MayLeave(r, p) \cup {StateOf(mem[r], p).hash}
    BY <1>1, <1>2, AsRecorded
  <2>6. Midway(r)'
    BY <2>2 DEF Midway
  <2> QED
    BY <1>1, <2>2, <2>3, <2>4, <2>5, <2>6, StillSide, HandType
<1>4. CASE ReconcileSame(r)
  <2>1. ToCopies(r, mem[r].st[p]) /\ p \in Known(mem[r])
    BY <1>4 DEF ReconcileSame
  <2>2. /\ \A x \in Replicas \ {r} : call'[x] = call[x]
        /\ call'[r].kind = call[r].kind /\ call'[r].pc = "copies" /\ call'[r].cur = p
        /\ call'[r].losers = Losers(p, mem[r].st[p])
        /\ Hand(r)' \subseteq call[r].joined \cup {p}
    BY <2>1, ToCopiesHand
  <2>3. Alone(r)
    BY <1>1, <2>2, StillAlone
  <2>4. Raw(r, p) \in MayLeave(r, p) \cup {StateOf(mem[r], p).hash}
    BY <1>1, <1>2, <2>1, AsRecorded
  <2>5. Midway(r)'
    BY <1>1, <2>2 DEF Midway
  <2> QED
    BY <1>1, <2>2, <2>3, <2>4, <2>5, StillSide, HandType
<1> QED
  BY <1>3, <1>4

\* A state's losers depend on its versions only.
LEMMA SameLosers ==
  ASSUME NEW p, NEW s, NEW t, s.versions = t.versions
  PROVE  Losers(p, s) = Losers(p, t)
BY DEF Losers

LEMMA JoinAdds ==
  ASSUME NEW s, NEW u
  PROVE  Join(s, u).versions \subseteq s.versions \cup u.versions
BY DEF Join, JoinedVersions, Unsuperseded

\* next_entry adds one version, with the content found.
LEMMA LocalWriteAdds ==
  ASSUME NEW r \in Replicas, NEW view \in Views, NEW p \in Paths,
         NEW content \in Contents \cup {None}, NEW now \in Clocks
  PROVE  LET w == LocalWrite(r, view, p, content, now) IN
         /\ w \in Views /\ Known(w) = Known(view) \cup {p} /\ w.st[p].hash = content
         /\ \A q \in Known(view) \ {p} : w.st[q] = view.st[q]
         /\ \A e \in w.st[p].versions :
              e \in StateOf(view, p).versions \/ (e.dot.replica = r /\ e.content = content)
<1> DEFINE s == StateOf(view, p)
           d == [replica |-> r, counter |-> view.counter + 1]
           e == [dot |-> d, content |-> content, hlc |-> Tick(view.hlc, now)]
           seen == AddDot(s.diskSeen, d)
           all == Join(s, [versions |-> {e}, seen |-> seen])
           t == [versions |-> all.versions, seen |-> all.seen, hash |-> content, diskSeen |-> seen]
           w == LocalWrite(r, view, p, content, now)
<1>1. w.st = With(view.st, p, t)
  BY DEF LocalWrite
<1>2. w.st[p] = t
  BY <1>1 DEF With
<1>3. t.hash = content /\ t.versions = all.versions /\ e.dot.replica = r /\ e.content = content
  OBVIOUS
<1>4. all.versions \subseteq s.versions \cup {e}
  <2> HIDE DEF s, e, seen
  <2> QED
    BY JoinAdds
<1>5. w \in Views /\ Known(w) = Known(view) \cup {p} /\ \A q \in Known(view) : q # p => w.st[q] = view.st[q]
  BY LocalWriteType
<1> HIDE DEF w, t, all, e, s
<1> QED
  BY <1>2, <1>3, <1>4, <1>5 DEF w, s

\* The winner was found in place: recording it explains the file.
LEMMA MaterialisedFile ==
  ASSUME TypeInv, FileInv, NEW r \in Replicas, ReconcileMaterialised(r)
  PROVE  FileInv'
<1>0. PICK p : p = call[r].cur
  OBVIOUS
<1> DEFINE c == OnDisk(r, p)
           w == WithHash(mem[r], p, c)
<1>1. /\ call[r].pc = "reconcile" /\ UNCHANGED <<file, mounted, sess, left>>
      /\ p \in Known(mem[r]) /\ c # mem[r].st[p].hash /\ c = Winner(mem[r].st[p].versions).content
      /\ CommitState(r, w, p, FALSE) /\ ToCopies(r, mem[r].st[p])
  BY <1>0 DEF ReconcileMaterialised, Materialised, disks, WithHash
<1>2. p \in Paths /\ DiskSide(r) /\ Away(r) /\ mem[r] \in Views /\ c \in Contents \cup {None}
  BY <1>0, <1>1, HandType, MemoryType, OnDiskType DEF FileInv, CallSide, TypeInv
<1>3. mounted[r] /\ Raw(r, p) = c
  BY <1>1, <1>2, AwaySettled DEF OnDisk, Raw
<1>4. /\ w \in Views /\ Known(w) = Known(mem[r])
      /\ \A q \in Known(mem[r]) : w.st[q].versions = mem[r].st[q].versions
  BY <1>1, <1>2, RecordHashType
<1>5. w.st[p].hash = c /\ \A q \in Known(mem[r]) \ {p} : w.st[q].hash = mem[r].st[q].hash
  BY <1>1, <1>2, NoVersionsType, HashesType
<1> HIDE DEF w, c
<1>6. /\ \A x \in Replicas \ {r} : call'[x] = call[x]
      /\ call'[r].pc = "copies" /\ call'[r].cur = p
      /\ call'[r].losers = Losers(p, mem[r].st[p])
      /\ Hand(r)' \subseteq call[r].joined \cup {p}
  BY <1>0, <1>1, ToCopiesHand
<1>7. Alone(r)
  BY <1>1, <1>6, CommitAlone
<1>8. Away(r)'
  BY <1>1, <1>3 DEF Away
<1>9. Midway(r)'
  <2>1. mem'[r] = w /\ w.st[p].versions = mem[r].st[p].versions
    BY <1>1, <1>4, CommitMarks
  <2>2. Losers(p, w.st[p]) = Losers(p, mem[r].st[p])
    BY <2>1, SameLosers
  <2> QED
    BY <1>6, <2>1, <2>2 DEF Midway
<1>10. StateOf(w, p).versions = StateOf(mem[r], p).versions /\ ByUsers(w.st[p].versions, p)
  BY <1>1, <1>2, <1>4 DEF StateOf, DiskSide, ViewByUsers
<1>11. /\ \A q \in Paths : Raw(r, q)' = Raw(r, q)
       /\ Raw(r, p)' \in MayLeave(r, p) \cup {w.st[p].hash}
       /\ Raw(r, p)' \in MayLeave(r, p) \cup Expected(store[r], p)
  BY <1>1, <1>2, <1>3, <1>5 DEF DiskSide, Filed, Raw
<1>12. Known(w) = Known(mem[r]) \cup {p} /\ Hand(r)' \subseteq Hand(r) \cup {p}
  BY <1>1, <1>4, <1>6, HandType
<1> QED
  BY <1>1, <1>2, <1>4, <1>5, <1>7, <1>8, <1>9, <1>10, <1>11, <1>12, CommitFile

LEMMA PausedFile ==
  ASSUME TypeInv, FileInv, NEW r \in Replicas, ReconcilePaused(r)
  PROVE  FileInv'
<1>1. /\ Flush(r) /\ call' = [call EXCEPT ![r] = Idle] /\ UNCHANGED <<file, mounted, mem, left>>
      /\ sess' = [sess EXCEPT ![r] = IF call[r].kind = "scan" THEN @ ELSE NoSession]
  BY DEF ReconcilePaused, disks
<1>2. call'[r] = Idle /\ \A x \in Replicas \ {r} : call'[x] = call[x]
  BY <1>1 DEF TypeInv, CallInv
<1>3. \A x \in Replicas : sess'[x].updates \subseteq sess[x].updates
  BY <1>1, NoSessionType DEF TypeInv, SessInv
<1>4. Alone(r)
  BY <1>1, <1>2, <1>3, FlushSide DEF Alone
<1>5. call'[r].kind = "idle" /\ Hand(r)' = {} /\ Midway(r)'
  BY <1>2 DEF Idle, Hand, Midway
<1> QED
  BY <1>1, <1>4, <1>5, FlushSide, StillSide

\* What a call records of its path is a user's when the file is, too.
LEMMA WriteFile ==
  ASSUME TypeInv, FileInv, NEW r \in Replicas, NEW p, p = call[r].cur, call[r].pc # "pick", mounted[r],
         NEW c \in Contents \cup {None}, {c, Raw(r, p)} \subseteq MayLeave(r, p), RecordWrite(r, c)
  PROVE  FileInv'
<1>1. PICK now \in Clocks :
        /\ CommitState(r, LocalWrite(r, mem[r], p, c, now), p, TRUE)
        /\ ToCopies(r, LocalWrite(r, mem[r], p, c, now).st[p])
  BY DEF RecordWrite
<1> DEFINE w == LocalWrite(r, mem[r], p, c, now)
<1>2. /\ UNCHANGED <<file, mounted, sess, left>>
      /\ CommitState(r, w, p, TRUE) /\ ToCopies(r, w.st[p])
  BY <1>1 DEF RecordWrite, disks
<1>3. p \in Paths /\ DiskSide(r) /\ Away(r) /\ mem[r] \in Views
  BY HandType, MemoryType DEF FileInv, CallSide, TypeInv
<1>7. /\ w \in Views /\ Known(w) = Known(mem[r]) \cup {p} /\ w.st[p].hash = c
      /\ \A q \in Known(mem[r]) \ {p} : w.st[q] = mem[r].st[q]
      /\ \A e \in w.st[p].versions :
           e \in StateOf(mem[r], p).versions \/ (e.dot.replica = r /\ e.content = c)
  BY <1>3, LocalWriteAdds
<1> HIDE DEF w
<1>8. /\ \A x \in Replicas \ {r} : call'[x] = call[x]
      /\ call'[r].pc = "copies" /\ call'[r].cur = p
      /\ call'[r].losers = Losers(p, w.st[p])
      /\ Hand(r)' \subseteq call[r].joined \cup {p}
  BY <1>2, ToCopiesHand
<1>9. Alone(r)
  BY <1>2, <1>8, CommitAlone
<1>10. Away(r)' /\ Midway(r)'
  <2>1. mem'[r] = w
    BY <1>2, CommitMarks
  <2> QED
    BY <1>2, <1>8, <2>1 DEF Away, Midway
<1>11. ByUsers(w.st[p].versions, p)
  <2>1. ByUsers(StateOf(mem[r], p).versions, p)
    BY <1>3, NoStateType DEF DiskSide, ViewByUsers, ByUsers, StateOf
  <2> QED
    BY <1>7, <2>1 DEF ByUsers
<1>12. /\ \A q \in Paths : Raw(r, q)' = Raw(r, q)
       /\ Raw(r, p)' \in MayLeave(r, p)
  BY <1>2 DEF Raw
<1>13. Hand(r)' \subseteq Hand(r) \cup {p}
  BY <1>8, HandType
<1> QED
  BY <1>2, <1>3, <1>7, <1>9, <1>10, <1>11, <1>12, <1>13, CommitFile

\* What is neither the file as recorded nor the winner was left there by a user, in a root that is there.
LEMMA EditedByUser ==
  ASSUME TypeInv, NEW r \in Replicas, DiskSide(r), NEW p \in Paths, Edited(r, p), mounted[r]
  PROVE  OnDisk(r, p) = Raw(r, p) /\ Raw(r, p) \in MayLeave(r, p)
<1>1. OnDisk(r, p) = Raw(r, p)
  BY DEF OnDisk, Raw
<1>2. Raw(r, p) \in MayLeave(r, p) \cup Expected(mem[r], p)
  BY DEF DiskSide, Filed
<1>3. Raw(r, p) \notin Expected(mem[r], p)
  BY <1>1, NoStateType DEF Expected, Edited, Materialised, StateOf
<1> QED
  BY <1>1, <1>2, <1>3

LEMMA MissingFile ==
  ASSUME TypeInv, FileInv, NEW r \in Replicas, ReconcileMissing(r)
  PROVE  FileInv'
<1>0. PICK p : p = call[r].cur
  OBVIOUS
<1>1. /\ UNCHANGED <<file, mounted, mem, store, unflushed, sess, left>>
      /\ \A x \in Replicas \ {r} : call'[x] = call[x]
      /\ call[r].pc = "reconcile" /\ call'[r].pc = "gone" /\ call'[r].kind = call[r].kind
      /\ call'[r].cur = p /\ call'[r].joined = call[r].joined
  BY <1>0, MissingMoves
<1>2. Edited(r, p) /\ OnDisk(r, p) = None
  BY <1>0 DEF ReconcileMissing
<1>3. p \in Paths /\ DiskSide(r)
  BY <1>0, <1>1, HandType DEF FileInv
<1>4. Alone(r)
  BY <1>1 DEF Alone
<1>5. Hand(r)' \subseteq Hand(r)
  BY <1>1 DEF Hand
<1>6. mounted[r] => {None, Raw(r, p)} \subseteq MayLeave(r, p)
  BY <1>2, <1>3, EditedByUser
<1>7. Midway(r)'
  BY <1>1, <1>6 DEF Midway, Raw
<1> QED
  BY <1>1, <1>4, <1>5, <1>7, StillSide

\* A file that was missed was deleted by a user, since a root that is away pauses the call.
LEMMA DeleteFile ==
  ASSUME TypeInv, FileInv, NEW r \in Replicas, ReconcileDelete(r)
  PROVE  FileInv'
<1>1. call[r].pc = "gone" /\ ~Paused(r) /\ RecordWrite(r, None)
  BY DEF ReconcileDelete
<1>2. mounted[r]
  BY <1>1 DEF FileInv, CallSide, Away, Paused
<1>3. {None, Raw(r, call[r].cur)} \subseteq MayLeave(r, call[r].cur)
  BY <1>1, <1>2 DEF FileInv, CallSide, Midway
<1> QED
  BY <1>1, <1>2, <1>3, WriteFile

\* An edit is a user's: a root that is away holds no file to be read.
LEMMA EditFile ==
  ASSUME TypeInv, FileInv, NEW r \in Replicas, ReconcileEdit(r)
  PROVE  FileInv'
<1>0. PICK p : p = call[r].cur
  OBVIOUS
<1>1. call[r].pc = "reconcile" /\ Edited(r, p) /\ OnDisk(r, p) # None /\ RecordWrite(r, OnDisk(r, p))
  BY <1>0 DEF ReconcileEdit
<1>2. mounted[r]
  BY <1>1 DEF OnDisk
<1>3. p \in Paths /\ DiskSide(r) /\ OnDisk(r, p) \in Contents \cup {None}
  BY <1>0, <1>1, HandType, OnDiskType DEF FileInv, TypeInv
<1>4. OnDisk(r, p) = Raw(r, p) /\ Raw(r, p) \in MayLeave(r, p)
  BY <1>1, <1>2, <1>3, EditedByUser
<1> QED
  BY <1>0, <1>1, <1>2, <1>3, <1>4, WriteFile

LEMMA LoserHand ==
  ASSUME TypeInv, NEW r \in Replicas, NEW e, call' = [call EXCEPT ![r].losers = @ \ {e}]
  PROVE  /\ \A x \in Replicas \ {r} : call'[x] = call[x]
         /\ call'[r].kind = call[r].kind /\ call'[r].pc = call[r].pc /\ call'[r].cur = call[r].cur
         /\ call'[r].losers \subseteq call[r].losers /\ Hand(r)' = Hand(r)
<1>1. call \in [Replicas -> Calls] /\ call[r] \in Calls
  BY DEF TypeInv, CallInv
<1>2. /\ call'[r].kind = call[r].kind /\ call'[r].pc = call[r].pc /\ call'[r].cur = call[r].cur
      /\ call'[r].losers \subseteq call[r].losers /\ call'[r].joined = call[r].joined
      /\ \A x \in Replicas \ {r} : call'[x] = call[x]
  BY <1>1 DEF Calls
<1> QED
  BY <1>2 DEF Hand

LEMMA CopyStillFile ==
  ASSUME TypeInv, FileInv, NEW r \in Replicas, NEW e \in call[r].losers, CopyError(r, e) \/ CopySkip(r, e)
  PROVE  FileInv'
<1>1. call[r].pc = "copies" /\ UNCHANGED <<file, mounted, mem, store, unflushed, sess, left>>
  BY DEF CopyError, CopySkip, disks
<1>2. Midway(r) /\ call[r].cur \in Hand(r) /\ call[r].joined \subseteq Hand(r)
  BY <1>1, HandType DEF FileInv, CallSide
<1>3. CASE CopyError(r, e)
  <2>1. /\ \A x \in Replicas \ {r} : call'[x] = call[x]
        /\ call'[r].kind = call[r].kind /\ call'[r].pc \in {"join", "pick"}
        /\ Hand(r)' \subseteq Hand(r)
    BY <1>2, <1>3, LeaveHand DEF CopyError
  <2>2. Alone(r) /\ Midway(r)'
    BY <1>1, <2>1, StillAlone DEF Midway
  <2> QED
    BY <1>1, <2>1, <2>2, StillSide
<1>4. CASE CopySkip(r, e)
  <2>1. /\ \A x \in Replicas \ {r} : call'[x] = call[x]
        /\ call'[r].kind = call[r].kind /\ call'[r].pc = call[r].pc /\ call'[r].cur = call[r].cur
        /\ call'[r].losers \subseteq call[r].losers /\ Hand(r)' = Hand(r)
    BY <1>4, LoserHand DEF CopySkip
  <2>2. Alone(r) /\ Midway(r)'
    BY <1>1, <1>2, <2>1, StillAlone DEF Midway
  <2> QED
    BY <1>1, <2>1, <2>2, StillSide
<1> QED
  BY <1>3, <1>4

\* A conflict copy, written or found in place, holds the loser's content, which is what users of
\* some replica typed.
LEMMA CopyLoserFile ==
  ASSUME TypeInv, FileInv, NEW r \in Replicas, NEW e \in call[r].losers, CopyLoser(r, e)
  PROVE  FileInv'
<1>0. PICK c : c = CopyPath(call[r].cur, e.dot)
  OBVIOUS
<1>1. PICK now \in Clocks : CommitState(r, LocalWrite(r, mem[r], c, e.content, now), c, TRUE)
  BY <1>0 DEF CopyLoser
<1> DEFINE p == call[r].cur
           w == LocalWrite(r, mem[r], c, e.content, now)
<1>2. /\ call[r].pc = "copies" /\ UNCHANGED <<mounted, sess, left>>
      /\ call' = [call EXCEPT ![r].losers = @ \ {e}]
      /\ CommitState(r, w, c, TRUE)
      /\ c \notin Known(mem[r])
      /\ \/ OnDisk(r, c) = None /\ Place(r, c, e.content)
         \/ OnDisk(r, c) = e.content /\ UNCHANGED file
  BY <1>0, <1>1 DEF CopyLoser, Writes
<1>3. /\ e \in Losers(p, mem[r].st[p]) /\ DiskSide(r) /\ Away(r) /\ p \in Known(mem[r]) /\ p \in Paths
      /\ mem[r] \in Views
  BY <1>2, HandType, MemoryType DEF FileInv, CallSide, Midway
<1>4. e \in Entry /\ e.content \in Contents /\ e.dot \in Dot /\ ~IsCopy(p)
  BY <1>3, LosersType, ViewElim DEF Losers, Entry, IsTombstone
<1>5. c \in Paths /\ IsCopy(c) /\ c # p
  BY <1>0, <1>3, <1>4, ReplicaAssumption DEF Paths, CopyPath, IsCopy
<1>6. mounted[r]
  <2>1. e \in Uncopied(mem[r], p, mem[r].st[p])
    BY <1>0, <1>2, <1>3 DEF Uncopied
  <2> QED
    BY <1>3, <2>1, AwaySettled
<1>7. /\ w \in Views /\ Known(w) = Known(mem[r]) \cup {c}
      /\ \A q \in Known(mem[r]) \ {c} : w.st[q] = mem[r].st[q]
      /\ \A d \in w.st[c].versions :
           d \in StateOf(mem[r], c).versions \/ (d.dot.replica = r /\ d.content = e.content)
  <2> HIDE DEF p
  <2> QED
    BY <1>3, <1>4, <1>5, LocalWriteAdds
<1> HIDE DEF w
<1>8. /\ \A x \in Replicas \ {r} : call'[x] = call[x]
      /\ call'[r].kind = call[r].kind /\ call'[r].pc = call[r].pc /\ call'[r].cur = call[r].cur
      /\ call'[r].losers \subseteq call[r].losers /\ Hand(r)' = Hand(r)
  BY <1>2, LoserHand
<1>9. e.content \in MayLeave(r, c)
  BY <1>4, <1>5 DEF MayLeave
<1>10. ByUsers(w.st[c].versions, c)
  <2>1. StateOf(mem[r], c).versions = {}
    BY <1>2, NoStateType DEF StateOf
  <2> QED
    BY <1>7, <1>9, <2>1 DEF ByUsers
<1>11. /\ \A x \in Replicas \ {r} : file'[x] = file[x]
       /\ \A q \in Paths \ {c} : Raw(r, q)' = Raw(r, q)
       /\ Raw(r, c)' \in MayLeave(r, c)
  <2>1. file \in [Replicas -> PathMap(Contents)]
    BY DEF TypeInv, DataInv
  <2>2. CASE Place(r, c, e.content)
    <3>1. file' = [file EXCEPT ![r] = With(file[r], c, e.content)]
      BY <1>6, <2>2 DEF Place
    <3>2. file'[r] = With(file[r], c, e.content) /\ \A x \in Replicas \ {r} : file'[x] = file[x]
      BY <2>1, <3>1
    <3>3. /\ DOMAIN file'[r] = DOMAIN file[r] \cup {c} /\ file'[r][c] = e.content
          /\ \A q \in DOMAIN file[r] : q # c => file'[r][q] = file[r][q]
      <4> DEFINE g == With(file[r], c, e.content)
      <4>1. /\ DOMAIN g = DOMAIN file[r] \cup {c} /\ g[c] = e.content
            /\ \A q \in DOMAIN file[r] : q # c => g[q] = file[r][q]
        BY DEF With
      <4>2. file'[r] = g
        BY <3>2
      <4> HIDE DEF g
      <4> QED
        BY <4>1, <4>2
    <3>4. Raw(r, c)' = e.content
      BY <3>3 DEF Raw
    <3>5. \A q \in Paths \ {c} : Raw(r, q)' = Raw(r, q)
      BY <3>3 DEF Raw
    <3> QED
      BY <1>9, <3>2, <3>4, <3>5
  <2>3. CASE OnDisk(r, c) = e.content /\ UNCHANGED file
    BY <1>6, <1>9, <2>3 DEF Raw, OnDisk
  <2> QED
    BY <1>2, <2>2, <2>3
<1>12. Alone(r)
  BY <1>2, <1>8, <1>11, CommitAlone
<1>13. Away(r)'
  BY <1>2, <1>6 DEF Away
<1>14. Midway(r)'
  <2>1. mem'[r] = w /\ w.st[p] = mem[r].st[p] /\ Midway(r)
    BY <1>2, <1>3, <1>5, <1>7, CommitMarks DEF FileInv, CallSide
  <2>2. call[r].losers \subseteq Losers(call[r].cur, mem'[r].st[call[r].cur])
    BY <1>2, <2>1 DEF Midway
  <2>3. call'[r].losers \subseteq Losers(call'[r].cur, mem'[r].st[call'[r].cur])
    BY <1>8, <2>2
  <2> QED
    BY <1>2, <1>8, <2>3 DEF Midway
<1> QED
  BY <1>2, <1>5, <1>7, <1>8, <1>10, <1>11, <1>12, <1>13, <1>14, CommitFile

LEMMA FlushVersionsFile ==
  ASSUME TypeInv, FileInv, NEW r \in Replicas, FlushVersions(r)
  PROVE  FileInv'
<1>1. Flush(r) /\ UNCHANGED <<file, mounted, mem, call, sess, left>>
  BY DEF FlushVersions, disks
<1>2. Alone(r)
  BY <1>1, FlushSide DEF Alone
<1>3. Midway(r)' /\ Hand(r)' = Hand(r)
  BY <1>1 DEF FileInv, CallSide, Midway, Hand, Raw
<1> QED
  BY <1>1, <1>2, <1>3, FlushSide, StillSide

LEMMA SettledRecords ==
  ASSUME TypeInv, NEW r \in Replicas, call[r].cur \in Known(mem[r]), NEW h \in Contents \cup {None}
  PROVE  /\ Settled(r, h) \in Views /\ Known(Settled(r, h)) = Known(mem[r])
         /\ \A q \in Known(mem[r]) : Settled(r, h).st[q].versions = mem[r].st[q].versions
         /\ Settled(r, h).st[call[r].cur].hash = h
         /\ \A q \in Known(mem[r]) \ {call[r].cur} : Settled(r, h).st[q].hash = mem[r].st[q].hash
<1> DEFINE p == call[r].cur
           d == DiskSeen(mem[r], p, mem[r].st[p])
           w == Settled(r, h)
<1>1. mem[r] \in Views /\ mem[r].st[p] \in States
  BY CurrentState, MemoryType DEF TypeInv
<1>2. d \in VersionVector
  BY <1>1, DiskSeenType
<1>3. w = WithDisk(mem[r], p, h, d)
  BY DEF Settled, WithDisk
<1>4. /\ w \in Views /\ Known(w) = Known(mem[r])
      /\ \A q \in Known(mem[r]) : w.st[q].versions = mem[r].st[q].versions
  BY SettledType DEF TypeInv
<1> HIDE DEF d, w, p
<1>5. w.st[p].hash = h /\ \A q \in Known(mem[r]) \ {p} : w.st[q].hash = mem[r].st[q].hash
  BY <1>1, <1>2, <1>3, HashesType DEF p
<1> QED
  BY <1>4, <1>5 DEF w, p

\* A settled path's new state, once its file is as the state says.
LEMMA SettledFile ==
  ASSUME TypeInv, FileInv, NEW r \in Replicas, NEW p \in Known(mem[r]), p = call[r].cur, call[r].pc = "copies",
         NEW h \in Contents \cup {None}, CommitState(r, Settled(r, h), p, FALSE), Leave(r),
         UNCHANGED <<mounted, sess, left>>, \A x \in Replicas \ {r} : file'[x] = file[x],
         \A q \in Paths \ {p} : Raw(r, q)' = Raw(r, q),
         Raw(r, p)' \in MayLeave(r, p) \cup {h}, Raw(r, p)' \in MayLeave(r, p) \cup Expected(store[r], p),
         mounted[r] \/ h = mem[r].st[p].hash
  PROVE  FileInv'
<1> DEFINE w == Settled(r, h)
<1>1. p \in Paths /\ DiskSide(r) /\ Away(r) /\ p \in Hand(r) /\ call[r].joined \subseteq Hand(r)
  BY HandType DEF FileInv, CallSide
<1>2. /\ w \in Views /\ Known(w) = Known(mem[r])
      /\ \A q \in Known(mem[r]) : w.st[q].versions = mem[r].st[q].versions
      /\ w.st[p].hash = h /\ \A q \in Known(mem[r]) \ {p} : w.st[q].hash = mem[r].st[q].hash
  BY SettledRecords
<1>3. CommitState(r, w, p, FALSE)
  OBVIOUS
<1> HIDE DEF w
<1>4. /\ \A x \in Replicas \ {r} : call'[x] = call[x]
      /\ call'[r].kind = call[r].kind /\ call'[r].pc \in {"join", "pick"} /\ Hand(r)' \subseteq Hand(r)
  BY <1>1, LeaveHand
<1>5. Alone(r) /\ Midway(r)' /\ mem'[r] = w
  <2>1. mem'[r] = w
    BY <1>3, CommitMarks
  <2>2. \A x \in Replicas \ {r} : file'[x] = file[x] /\ call'[x] = call[x]
    BY <1>4
  <2>3. Alone(r)
    BY <1>3, <2>2, CommitAlone
  <2>4. Midway(r)'
    BY <1>4 DEF Midway
  <2> QED
    BY <2>1, <2>3, <2>4
<1>6. Away(r)'
  <2>1. CASE mounted[r]
    BY <2>1 DEF Away
  <2>2. CASE ~mounted[r]
    <3>1. \A q \in Known(mem[r]) : w.st[q].hash = mem[r].st[q].hash /\ w.st[q].versions = mem[r].st[q].versions
      BY <1>2, <2>2
    <3>2. \A q \in Known(mem[r]) : Losers(q, w.st[q]) = Losers(q, mem[r].st[q])
      BY <3>1, SameLosers
    <3>3. \A q \in Known(mem[r]) : Uncopied(w, q, w.st[q]) = Uncopied(mem[r], q, mem[r].st[q])
      BY <1>2, <3>2 DEF Uncopied
    <3>4. AllSettled(r)'
      <4>1. \A q \in Known(mem[r]) : /\ mem[r].st[q].hash = Winner(mem[r].st[q].versions).content
                                    /\ Uncopied(mem[r], q, mem[r].st[q]) = {}
        BY <1>1, <2>2, AwaySettled
      <4>2. \A q \in Known(w) : w.st[q].hash = Winner(w.st[q].versions).content /\ Uncopied(w, q, w.st[q]) = {}
        BY <1>2, <3>1, <3>3, <4>1
      <4> QED
        BY <1>5, <4>2 DEF AllSettled
    <3> QED
      BY <1>1, <1>2, <1>4, <1>5, <2>2, <3>1, <3>4 DEF Away
  <2> QED
    BY <2>1, <2>2
<1>7. StateOf(w, p).versions = StateOf(mem[r], p).versions /\ ByUsers(w.st[p].versions, p)
  BY <1>1, <1>2 DEF StateOf, DiskSide, ViewByUsers
<1>8. Known(w) = Known(mem[r]) \cup {p}
  BY <1>2
<1> QED
  BY <1>1, <1>2, <1>3, <1>4, <1>5, <1>6, <1>7, <1>8, CommitFile

LEMMA SettleStillFile ==
  ASSUME TypeInv, FileInv, NEW r \in Replicas, call[r].pc = "copies", Leave(r),
         UNCHANGED <<file, mounted, mem, store, unflushed, sess, left>>
  PROVE  FileInv'
<1>1. /\ \A x \in Replicas \ {r} : call'[x] = call[x]
      /\ call'[r].kind = call[r].kind /\ call'[r].pc \in {"join", "pick"}
      /\ Hand(r)' \subseteq Hand(r)
  BY LeaveHand, HandType
<1>2. Alone(r) /\ Midway(r)'
  BY <1>1, StillAlone DEF Midway
<1> QED
  BY <1>1, <1>2, StillSide

LEMMA SettleSameFile ==
  ASSUME TypeInv, FileInv, NEW r \in Replicas, SettleSame(r)
  PROVE  FileInv'
<1>0. PICK p : p = call[r].cur
  OBVIOUS
<1> DEFINE h == mem[r].st[p].hash
<1>1. /\ call[r].pc = "copies" /\ Leave(r) /\ UNCHANGED <<file, mounted, staged, sess, left>>
      /\ UNCHANGED <<mem, store, pending, unflushed>> \/ CommitState(r, Settled(r, h), p, FALSE)
  BY <1>0 DEF SettleSame, disks
<1>2. CASE UNCHANGED <<mem, store, pending, unflushed>>
  BY <1>1, <1>2, SettleStillFile
<1>3. CASE CommitState(r, Settled(r, h), p, FALSE)
  <2>1. p \in Known(mem[r]) /\ p \in Hand(r) /\ p \in Paths
    BY <1>0, <1>1, HandType
  <2>2. mem[r].st[p] \in States
    BY <2>1, CurrentState DEF TypeInv
  <2>3. h \in Contents \cup {None}
    BY <2>2, StateElim
  <2>4. Raw(r, p) \in MayLeave(r, p) \cup {h} /\ Raw(r, p) \in MayLeave(r, p) \cup Expected(store[r], p)
    BY <2>1 DEF FileInv, CallSide, DiskSide, AtHand, Filed, StateOf
  <2>5. \A q \in Paths : Raw(r, q)' = Raw(r, q)
    BY <1>1 DEF Raw
  <2> QED
    BY <1>0, <1>1, <1>3, <2>1, <2>3, <2>4, <2>5, SettledFile
<1> QED
  BY <1>1, <1>2, <1>3

\* settle writes the winner only when the store knows it: a crash before the state is recorded
\* finds a file that the stored state explains (flush_versions).
LEMMA SettleWriteFile ==
  ASSUME TypeInv, HistInv, FileInv, NEW r \in Replicas, SettleWrite(r)
  PROVE  FileInv'
<1>0. PICK p : p = call[r].cur
  OBVIOUS
<1> DEFINE h == Winner(mem[r].st[p].versions).content
<1>1. /\ call[r].pc = "copies" /\ Leave(r) /\ UNCHANGED <<mounted, sess, left>>
      /\ h # mem[r].st[p].hash /\ ~MustFlush(r)
      /\ CommitState(r, Settled(r, h), p, FALSE)
      /\ IF h = None
           THEN file' = IF mounted[r] THEN [file EXCEPT ![r] = Without(@, p)] ELSE file
           ELSE Place(r, p, h)
  BY <1>0 DEF SettleWrite, SettleReady, Unsettled, IsTombstone
<1>2. p \in Known(mem[r]) /\ p \in Paths /\ DiskSide(r) /\ Away(r)
  BY <1>0, <1>1, HandType DEF FileInv, CallSide
<1>3. mem[r].st[p] \in States
  BY <1>2, CurrentState DEF TypeInv
<1>4. h \in Contents \cup {None}
  BY <1>3, WinnerType
<1>5. mounted[r]
  BY <1>1, <1>2, AwaySettled
<1>6. /\ \A x \in Replicas \ {r} : file'[x] = file[x]
      /\ \A q \in Paths \ {p} : Raw(r, q)' = Raw(r, q)
      /\ Raw(r, p)' = h
  <2>1. file \in [Replicas -> PathMap(Contents)]
    BY DEF TypeInv, DataInv
  <2>2. CASE h = None
    <3>1. file'[r] = Without(file[r], p) /\ \A x \in Replicas \ {r} : file'[x] = file[x]
      BY <1>1, <1>5, <2>1, <2>2
    <3>2. DOMAIN file'[r] = DOMAIN file[r] \ {p} /\ \A q \in DOMAIN file[r] \ {p} : file'[r][q] = file[r][q]
      BY <3>1 DEF Without
    <3>3. Raw(r, p)' = h
      BY <2>2, <3>2 DEF Raw
    <3>4. \A q \in Paths \ {p} : Raw(r, q)' = Raw(r, q)
      BY <3>2 DEF Raw
    <3> QED
      BY <3>1, <3>3, <3>4
  <2>3. CASE h # None
    <3>1. file'[r] = With(file[r], p, h) /\ \A x \in Replicas \ {r} : file'[x] = file[x]
      BY <1>1, <1>5, <2>1, <2>3 DEF Place
    <3>2. /\ DOMAIN file'[r] = DOMAIN file[r] \cup {p} /\ file'[r][p] = h
          /\ \A q \in DOMAIN file[r] : q # p => file'[r][q] = file[r][q]
      <4> HIDE DEF h
      <4> QED
        BY <3>1 DEF With
    <3> HIDE DEF h
    <3>3. Raw(r, p)' = h
      BY <3>2 DEF Raw
    <3>4. \A q \in Paths \ {p} : Raw(r, q)' = Raw(r, q)
      BY <3>2 DEF Raw
    <3> QED
      BY <3>1, <3>3, <3>4
  <2> QED
    BY <2>2, <2>3
<1>7. h \in Expected(store[r], p)
  <2>1. StateOf(store[r], p).versions = StateOf(mem[r], p).versions
    <3>1. CASE ~unflushed[r]
      BY <1>2, <3>1 DEF DiskSide, StoreSays
    <3>2. CASE pending[r] = {}
      BY <1>2, <3>2 DEF HistInv, DataHist, StoreBehind, Same, Of, Pure
    <3> QED
      BY <1>1, <3>1, <3>2 DEF MustFlush
  <2>2. StateOf(store[r], p).versions = mem[r].st[p].versions /\ mem[r].st[p].versions # {}
    BY <1>2, <1>3, <2>1, StateElim DEF StateOf
  <2>3. p \in Known(store[r]) /\ store[r].st[p].versions = mem[r].st[p].versions
    BY <2>2, NoStateType DEF StateOf
  <2> QED
    BY <2>3 DEF Expected
<1> HIDE DEF h
<1> QED
  BY <1>0, <1>1, <1>2, <1>4, <1>5, <1>6, <1>7, SettledFile

LEMMA SettleJoinedFile ==
  ASSUME TypeInv, FileInv, NEW r \in Replicas, NEW p \in call[r].joined, SettleJoined(r, p)
  PROVE  FileInv'
<1>1. call \in [Replicas -> Calls] /\ UNCHANGED <<file, mounted, mem, store, unflushed, sess, left>>
  BY DEF SettleJoined, disks, TypeInv, CallInv
<1>2. /\ \A x \in Replicas \ {r} : call'[x] = call[x]
      /\ call'[r].kind = call[r].kind /\ call'[r].pc = "copies" /\ call'[r].cur = p
      /\ call'[r].joined = call[r].joined \ {p} /\ call'[r].losers = Losers(p, mem[r].st[p])
  BY <1>1 DEF SettleJoined, Calls
<1>3. Alone(r)
  BY <1>1, <1>2, StillAlone
<1>4. Hand(r)' \subseteq Hand(r)
  BY <1>2 DEF Hand
<1>5. Midway(r)'
  BY <1>1, <1>2 DEF Midway
<1> QED
  BY <1>1, <1>2, <1>3, <1>4, <1>5, StillSide

LEMMA FinishFile ==
  ASSUME TypeInv, FileInv, NEW r \in Replicas, Finish(r)
  PROVE  FileInv'
<1>1. /\ Flush(r) /\ UNCHANGED <<file, mounted, mem, left>> /\ call' = [call EXCEPT ![r] = Idle]
      /\ sess' = [sess EXCEPT ![r].updates = @ \ call[r].page,
                              ![r].fetched = @ \/ call[r].kind = "fetch"]
  BY DEF Finish
<1>2. call'[r] = Idle /\ \A x \in Replicas \ {r} : call'[x] = call[x]
  BY <1>1 DEF TypeInv, CallInv
<1>3. \A x \in Replicas : sess'[x].updates \subseteq sess[x].updates
  BY <1>1 DEF TypeInv, SessInv, Sessions
<1>4. Alone(r)
  BY <1>1, <1>2, <1>3, FlushSide DEF Alone
<1>5. call'[r].kind = "idle" /\ Hand(r)' = {} /\ Midway(r)'
  BY <1>2 DEF Idle, Hand, Midway
<1> QED
  BY <1>1, <1>4, <1>5, FlushSide, StillSide

\* A joined update brings versions that users typed; the path's file is as recorded until
\* settle places the new winner.
LEMMA JoinUpdateFile ==
  ASSUME TypeInv, HistInv, FileInv, NEW r \in Replicas, JoinUpdate(r)
  PROVE  FileInv'
<1>0. PICK p : p = call[r].cur
  OBVIOUS
<1> DEFINE u == UpdateOf(r, p)
           s == StateOf(mem[r], p)
           t == JoinedState(s, u)
           w == WithState(mem[r], p, t)
           changed == Join(s, u).versions # s.versions \/ Join(s, u).seen # s.seen
<1>1. /\ call[r].pc = "join" /\ UNCHANGED <<file, mounted, staged, sess, left>>
      /\ IF changed THEN CommitState(r, w, p, TRUE) ELSE UNCHANGED <<mem, store, pending, unflushed>>
      /\ call' = [call EXCEPT ![r].pc = "pick", ![r].cur = None, ![r].todo = @ \ {p},
                              ![r].joined = IF changed THEN @ \cup {p} ELSE @]
  BY <1>0 DEF JoinUpdate, JoinedState, WithState, disks
<1>2. /\ call[r] \in Calls /\ CallOK(call[r], Known(mem[r])) /\ InOrder(r) /\ mem[r] \in Views
      /\ DiskSide(r) /\ Away(r) /\ p \in Hand(r) /\ p \in Paths /\ AtHand(r)
  BY <1>0, <1>1, HandType, MemoryType DEF TypeInv, CallInv, HistInv, SessHist, FileInv, CallSide
<1>3. u \in call[r].page /\ u \in Updates /\ u.path = p /\ u \in sess[r].updates
  <2>1. \E v \in call[r].page : v.path = p
    BY <1>0, <1>1, <1>2 DEF CallOK
  <2>2. UpdateOf(r, p) \in call[r].page /\ UpdateOf(r, p).path = p
    BY <2>1 DEF UpdateOf
  <2> QED
    BY <1>2, <2>2 DEF Calls, InOrder
<1>4. mounted[r]
  BY <1>1, <1>2, AwaySettled DEF CallOK
<1> HIDE DEF u, s
<1>5. changed \in BOOLEAN
  OBVIOUS
<1>6. /\ \A x \in Replicas \ {r} : call'[x] = call[x]
      /\ call'[r].kind = call[r].kind /\ call'[r].pc = "pick"
      /\ call'[r].joined \subseteq call[r].joined \cup {p}
  <2> HIDE DEF changed
  <2> QED
    BY <1>1, <1>2 DEF TypeInv, CallInv, Calls
<1>7. Hand(r)' \subseteq Hand(r) /\ Midway(r)'
  BY <1>2, <1>6 DEF Hand, Midway
<1>8. CASE ~changed
  <2>1. UNCHANGED <<mem, store, pending, unflushed>>
    BY <1>1, <1>8
  <2>2. Alone(r)
    BY <1>1, <1>6, <2>1, StillAlone
  <2> QED
    BY <1>1, <1>6, <1>7, <2>1, <2>2, StillSide
<1>9. CASE changed
  <2>1. CommitState(r, w, p, TRUE)
    BY <1>1, <1>9
  <2>2. t \in States /\ t.versions = Join(s, u).versions /\ t.hash = s.hash
    BY <1>2, <1>3, JoinedStateType DEF s
  <2> HIDE DEF t
  <2>3. /\ w \in Views /\ Known(w) = Known(mem[r]) \cup {p} /\ w.st[p] = t
        /\ \A q \in Known(mem[r]) : q # p => w.st[q] = mem[r].st[q]
    BY <1>2, <2>2, RecordType
  <2> HIDE DEF w, changed
  <2>4. Alone(r)
    BY <1>1, <1>6, <2>1, CommitAlone
  <2>5. ByUsers(w.st[p].versions, p)
    <3>1. ByUsers(s.versions, p)
      BY <1>2, NoStateType DEF DiskSide, ViewByUsers, ByUsers, StateOf, s
    <3>2. ByUsers(u.versions, p)
      BY <1>3 DEF FileInv, SessSide
    <3> QED
      BY <2>2, <2>3, <3>1, <3>2, JoinAdds DEF ByUsers
  <2>6. /\ \A q \in Paths : Raw(r, q)' = Raw(r, q)
        /\ Raw(r, p) \in MayLeave(r, p) \cup {w.st[p].hash}
        /\ Raw(r, p) \in MayLeave(r, p) \cup Expected(store[r], p)
    BY <1>1, <1>2, <2>2, <2>3 DEF Raw, AtHand, DiskSide, Filed, s
  <2>7. Away(r)'
    BY <1>1, <1>4 DEF Away
  <2> QED
    BY <1>2, <1>7, <2>1, <2>3, <2>4, <2>5, <2>6, <2>7, CommitFile
<1> QED
  BY <1>8, <1>9

-----------------------------------------------------------------------------
(* The other steps *)

LEMMA StartFile ==
  ASSUME TypeInv, FileInv, NEW r \in Replicas, StartScan(r) \/ StartApply(r) \/ StartFetch(r)
  PROVE  FileInv'
<1>1. PICK kind, todo, page : StartCall(r, kind, todo, page)
  BY DEF StartScan, StartApply, StartFetch
<1>2. /\ ~Paused(r) /\ UNCHANGED <<file, mounted, mem, store, unflushed, sess, left>>
      /\ call' = [call EXCEPT ![r] = [Idle EXCEPT !.kind = kind, !.todo = todo, !.page = page]]
  BY <1>1 DEF StartCall, disks
<1>3. /\ call'[r].pc = "pick" /\ call'[r].joined = {} /\ \A x \in Replicas \ {r} : call'[x] = call[x]
  BY <1>2 DEF TypeInv, CallInv, Idle
<1>4. DiskSide(r) /\ Away(r)
  BY DEF FileInv, CallSide
<1>5. mounted[r]
  BY <1>2, <1>4 DEF Away, Paused
<1>6. Alone(r)
  BY <1>2, <1>3, StillAlone
<1>7. DiskSide(r)'
  BY <1>2, <1>4, StillDisk
<1>8. CallSide(r)'
  BY <1>2, <1>3, <1>5 DEF CallSide, AtHand, Hand, Away, Midway
<1> QED
  BY <1>6, <1>7, <1>8, OneSide

LEMMA WorldKept ==
  ASSUME FileInv, UNCHANGED <<file, mounted, mem, store, unflushed, call>>, left' \in Bounds,
         left'.crashes = left.crashes, left'.unmounts = left.unmounts,
         \A r \in Replicas : SessSide(r)'
  PROVE  FileInv'
<1>1. ASSUME NEW r \in Replicas
      PROVE  DiskSide(r)' /\ CallSide(r)'
  <2>1. DiskSide(r) /\ CallSide(r)
    BY DEF FileInv
  <2>2. DiskSide(r)'
    BY <2>1, StillDisk
  <2> QED
    BY <2>1, <2>2 DEF CallSide, Raw, AtHand, Hand, Away, AllSettled, Midway
<1> QED
  BY <1>1 DEF FileInv

LEMMA SessionFile ==
  ASSUME TypeInv, FileInv, NEW r \in Replicas,
         (\E s \in Replicas : Hello(r, s)) \/ Pages(r) \/ EndSession(r)
  PROVE  FileInv'
<1>1. sess \in [Replicas -> Sessions] /\ left \in Bounds /\ \A q \in Replicas : SessSide(q)
  BY DEF TypeInv, SessInv, FileInv
<1>2. UNCHANGED <<file, mounted, mem, store, unflushed, call>>
  BY DEF Hello, Pages, EndSession, disks
<1>3. left' \in Bounds /\ left'.crashes = left.crashes /\ left'.unmounts = left.unmounts
  <2>1. CASE EndSession(r)
    <3>1. left.drops \in Nat /\ left.drops - 1 \in Nat /\ left' = [left EXCEPT !.drops = left.drops - 1]
      BY <1>1, <2>1 DEF EndSession, Bounds
    <3> QED
      BY <1>1, <3>1 DEF Bounds
  <2>2. CASE ~EndSession(r)
    BY <1>1, <2>2 DEF Hello, Pages
  <2> QED
    BY <2>1, <2>2
<1>4. \A q \in Replicas : SessSide(q)'
  <2>1. CASE \E s \in Replicas : Hello(r, s)
    <3>1. sess'[r].updates = {} /\ \A q \in Replicas \ {r} : sess'[q] = sess[q]
      BY <1>1, <2>1 DEF Hello, NoSession
    <3> QED
      BY <1>1, <3>1 DEF SessSide
  <2>2. CASE Pages(r)
    <3> DEFINE s == sess[r].from
               U == DeltaFor(store[s], sess[r].said)
    <3>1. s \in Replicas /\ sess' = [sess EXCEPT ![r].sent = TRUE, ![r].updates = U]
      BY <1>1, <2>2 DEF Pages, Sessions
    <3>2. sess'[r].updates = U /\ \A q \in Replicas \ {r} : sess'[q] = sess[q]
      BY <1>1, <3>1 DEF Sessions
    <3>3. \A u \in U : ByUsers(u.versions, u.path)
      BY <3>1 DEF FileInv, DiskSide, ViewByUsers, DeltaFor
    <3> QED
      BY <1>1, <3>2, <3>3 DEF SessSide
  <2>3. CASE EndSession(r)
    <3>1. sess'[r].updates = {} /\ \A q \in Replicas \ {r} : sess'[q] = sess[q]
      BY <1>1, <2>3 DEF EndSession, NoSession
    <3> QED
      BY <1>1, <3>1 DEF SessSide
  <2> QED
    BY <2>1, <2>2, <2>3
<1> QED
  BY <1>2, <1>3, <1>4, WorldKept

LEMMA CommitSessionFile ==
  ASSUME TypeInv, FileInv, NEW r \in Replicas, CommitSession(r)
  PROVE  FileInv'
<1> DEFINE w == WithVector(mem[r], sess[r].heard)
<1>1. /\ mem' = [mem EXCEPT ![r] = w] /\ store' = [store EXCEPT ![r] = w]
      /\ unflushed' = [unflushed EXCEPT ![r] = @ /\ pending[r] = {}]
      /\ sess' = [sess EXCEPT ![r] = NoSession] /\ UNCHANGED <<file, mounted, call, left>>
  BY DEF CommitSession, WithVector, disks
<1>2. w.st = mem[r].st
  BY MemoryType, WithVectorType
<1> HIDE DEF w
<1>3. /\ mem'[r].st = mem[r].st /\ store'[r].st = mem[r].st
      /\ \A x \in Replicas \ {r} :
           mem'[x] = mem[x] /\ store'[x] = store[x] /\ unflushed'[x] = unflushed[x]
  BY <1>1, <1>2 DEF TypeInv, DataInv
<1>4. \A x \in Replicas : sess'[x].updates \subseteq sess[x].updates
  BY <1>1, NoSessionType DEF TypeInv, SessInv
<1>5. Alone(r)
  BY <1>1, <1>3, <1>4 DEF Alone
<1>6. Midway(r)' /\ Hand(r)' = Hand(r)
  BY <1>1, <1>3 DEF FileInv, CallSide, Midway, Hand, Raw
<1> QED
  BY <1>1, <1>3, <1>5, <1>6, StillSide

LEMMA ContentFile ==
  ASSUME FileInv, NEW r \in Replicas, SomeContent(r)
  PROVE  FileInv'
BY WorldKept DEF SomeContent, Content, FileInv, SessSide

\* Users leave at a path what they may leave there.
LEMMA UserEditFile ==
  ASSUME TypeInv, FileInv, NEW r \in Replicas, UserEdit(r)
  PROVE  FileInv'
<1>1. /\ UNCHANGED <<mounted, mem, store, unflushed, call, sess>>
      /\ left.edits > 0 /\ left' = [left EXCEPT !.edits = left.edits - 1] /\ left \in Bounds
  BY DEF UserEdit, UserWrite, UserDelete, FileInv
<1>2. left' \in Bounds /\ left'.crashes = left.crashes /\ left'.unmounts = left.unmounts
  <2>1. left.edits - 1 \in Nat
    BY <1>1 DEF Bounds
  <2> QED
    BY <1>1, <2>1 DEF Bounds
<1>3. file \in [Replicas -> PathMap(Contents)]
  BY DEF TypeInv, DataInv
<1>4. ASSUME NEW x \in Replicas, NEW p \in Paths
      PROVE  Raw(x, p)' = Raw(x, p) \/ Raw(x, p)' \in MayLeave(x, p)
  <2>1. ASSUME NEW q, NEW c \in Types[r], UserWrite(r, q, c)
        PROVE  Raw(x, p)' = Raw(x, p) \/ Raw(x, p)' \in MayLeave(x, p)
    <3>1. file' = [file EXCEPT ![r] = With(file[r], q, c)]
      BY <2>1 DEF UserWrite
    <3>2. file'[r] = With(file[r], q, c) /\ (x # r => file'[x] = file[x])
      BY <1>3, <3>1
    <3>3. c \in MayLeave(r, q)
      BY ReplicaAssumption DEF MayLeave
    <3>4. /\ DOMAIN file'[r] = DOMAIN file[r] \cup {q} /\ file'[r][q] = c
          /\ \A y \in DOMAIN file[r] : y # q => file'[r][y] = file[r][y]
      BY <3>2 DEF With
    <3> QED
      BY <3>2, <3>3, <3>4 DEF Raw
  <2>2. ASSUME NEW q, UserDelete(r, q)
        PROVE  Raw(x, p)' = Raw(x, p) \/ Raw(x, p)' \in MayLeave(x, p)
    <3>1. file' = [file EXCEPT ![r] = Without(file[r], q)]
      BY <2>2 DEF UserDelete
    <3>2. file'[r] = Without(file[r], q) /\ (x # r => file'[x] = file[x])
      BY <1>3, <3>1
    <3>3. None \in MayLeave(r, q)
      BY <2>2 DEF UserDelete, MayLeave
    <3>4. DOMAIN file'[r] = DOMAIN file[r] \ {q} /\ \A y \in DOMAIN file[r] \ {q} : file'[r][y] = file[r][y]
      BY <3>2 DEF Without
    <3> QED
      BY <3>2, <3>3, <3>4 DEF Raw
  <2> QED
    BY <2>1, <2>2 DEF UserEdit
<1>5. ASSUME NEW x \in Replicas
      PROVE  DiskSide(x)' /\ CallSide(x)' /\ SessSide(x)'
  <2>1. DiskSide(x) /\ CallSide(x) /\ SessSide(x)
    BY DEF FileInv
  <2>2. Filed(x)'
    BY <1>1, <1>4, <2>1 DEF Filed, DiskSide, Expected
  <2>3. AtHand(x)'
    <3>1. Hand(x)' = Hand(x) /\ Hand(x) \subseteq Paths
      BY <1>1, HandType DEF Hand
    <3> QED
      BY <1>1, <1>4, <2>1, <3>1 DEF AtHand, CallSide
  <2>4. StoreSays(x)' /\ ViewByUsers(mem[x])' /\ ViewByUsers(store[x])' /\ SessSide(x)'
    BY <1>1, <2>1 DEF DiskSide, StoreSays, SessSide
  <2>5. Away(x)'
    BY <1>1, <1>2, <2>1 DEF CallSide, Away, AllSettled
  <2>6. Midway(x)'
    <3>1. Midway(x) /\ mem' = mem /\ call' = call /\ mounted' = mounted
      BY <1>1, <2>1 DEF CallSide
    <3>2. CASE call[x].pc # "gone" \/ ~mounted[x]
      BY <3>1, <3>2 DEF Midway
    <3>3. CASE call[x].pc = "gone" /\ mounted[x]
      <4>1. call[x].cur \in Paths
        BY <3>3, HandType
      <4>2. {None, Raw(x, call[x].cur)} \subseteq MayLeave(x, call[x].cur)
        BY <3>1, <3>3 DEF Midway
      <4>3. Raw(x, call[x].cur)' \in MayLeave(x, call[x].cur)
        BY <1>4, <3>1, <4>1, <4>2
      <4>4. {None, Raw(x, call[x].cur)'} \subseteq MayLeave(x, call[x].cur)
        BY <4>2, <4>3
      <4> QED
        BY <3>1, <3>3, <4>4 DEF Midway
    <3> QED
      BY <3>2, <3>3
  <2> QED
    BY <2>2, <2>3, <2>4, <2>5, <2>6 DEF DiskSide, CallSide
<1> QED
  BY <1>2, <1>5 DEF FileInv

\* The root that goes away has every path settled, and is back before another crash.
LEMMA MountFile ==
  ASSUME RootsLeaveInPeace, TypeInv, FileInv, NEW r \in Replicas, Unmount(r) \/ Mount(r)
  PROVE  FileInv'
<1>1. UNCHANGED <<file, mem, store, unflushed, call, sess>> /\ mounted \in [Replicas -> BOOLEAN]
      /\ left \in Bounds
  BY DEF Unmount, Mount, TypeInv, DataInv, FileInv
<1>2. /\ left' \in Bounds /\ left'.crashes = left.crashes
      /\ left'.unmounts = left.unmounts \/ (left.unmounts # 0 /\ left'.unmounts \in Nat)
  <2>1. CASE Unmount(r)
    <3>1. left' = [left EXCEPT !.unmounts = left.unmounts - 1] /\ left.unmounts # 0 /\ left.unmounts - 1 \in Nat
      BY <1>1, <2>1 DEF Unmount, Bounds
    <3> QED
      BY <1>1, <3>1 DEF Bounds
  <2>2. CASE Mount(r)
    BY <1>1, <2>2 DEF Mount
  <2> QED
    BY <2>1, <2>2
<1>3. ASSUME NEW x \in Replicas
      PROVE  Away(x)'
  <2>1. CASE mounted'[x]
    BY <2>1 DEF Away
  <2>2. CASE ~mounted'[x] /\ ~mounted[x]
    BY <1>1, <1>2, <2>2 DEF FileInv, CallSide, Away, AllSettled
  <2>3. CASE ~mounted'[x] /\ mounted[x]
    <3>1. x = r /\ Unmount(r)
      BY <1>1, <2>3 DEF Unmount, Mount
    <3>2. /\ AllSettled(r) /\ call[r].kind \in {"idle", "scan"}
          /\ \E p \in Known(mem[r]) : mem[r].st[p].hash # None
          /\ left.unmounts > 0
      BY <3>1 DEF Unmount, RootsLeaveInPeace
    <3>3. left'.crashes = 0
      BY <1>2, <3>2 DEF FileInv
    <3> QED
      BY <1>1, <3>1, <3>2, <3>3 DEF Away, AllSettled
  <2> QED
    BY <2>1, <2>2, <2>3
<1>4. ASSUME NEW x \in Replicas
      PROVE  DiskSide(x)' /\ CallSide(x)' /\ SessSide(x)'
  <2>1. DiskSide(x) /\ CallSide(x) /\ SessSide(x)
    BY DEF FileInv
  <2>2. DiskSide(x)'
    BY <1>1, <2>1, StillDisk
  <2>3. Midway(x)'
    <3>1. CASE call[x].pc # "gone"
      BY <1>1, <2>1, <3>1 DEF CallSide, Midway
    <3>2. CASE call[x].pc = "gone"
      <4>1. mounted'[x] => mounted[x]
        BY <1>1, <3>2 DEF Unmount, Mount, RootsLeaveInPeace, TypeInv, DataInv
      <4> QED
        BY <1>1, <2>1, <3>2, <4>1 DEF CallSide, Midway, Raw
    <3> QED
      BY <3>1, <3>2
  <2> QED
    BY <1>1, <1>3, <2>1, <2>2, <2>3 DEF CallSide, AtHand, Raw, Hand, SessSide
<1> QED
  BY <1>2, <1>4 DEF FileInv

\* A restart finds files that the stored states explain.
LEMMA CrashFile ==
  ASSUME TypeInv, FileInv, NEW r \in Replicas, Crash(r)
  PROVE  FileInv'
<1>1. /\ mem' = [mem EXCEPT ![r] = store[r]] /\ unflushed' = [unflushed EXCEPT ![r] = FALSE]
      /\ call' = [call EXCEPT ![r] = Idle] /\ UNCHANGED <<file, mounted, store>>
      /\ left' = [left EXCEPT !.crashes = left.crashes - 1] /\ left.crashes > 0
      /\ sess' = [q \in Replicas |->
            IF q = r \/ (sess[q].from = r /\ ~sess[q].sent) THEN NoSession ELSE sess[q]]
  BY DEF Crash
<1>2. /\ mem'[r] = store[r] /\ call'[r] = Idle
      /\ \A x \in Replicas \ {r} : mem'[x] = mem[x] /\ unflushed'[x] = unflushed[x] /\ call'[x] = call[x]
  BY <1>1 DEF TypeInv, DataInv, CallInv
<1>3. left' \in Bounds /\ left.crashes # 0 /\ left'.unmounts = 0
  <2>1. left \in Bounds /\ left.crashes \in Nat /\ left.crashes - 1 \in Nat /\ left.unmounts = 0
    BY <1>1 DEF FileInv, Bounds
  <2> QED
    BY <1>1, <2>1 DEF Bounds
<1>4. \A x \in Replicas : mounted[x]
  BY <1>3 DEF FileInv, CallSide, Away
<1>5. ASSUME NEW x \in Replicas
      PROVE  DiskSide(x)' /\ CallSide(x)' /\ SessSide(x)'
  <2>1. DiskSide(x) /\ CallSide(x) /\ SessSide(x)
    BY DEF FileInv
  <2>2. SessSide(x)'
    BY <1>1, <2>1, NoSessionType DEF SessSide
  <2>3. Away(x)'
    BY <1>1, <1>4 DEF Away
  <2>4. CASE x = r
    <3>1. DiskSide(r)'
      BY <1>1, <1>2, <2>1, <2>4 DEF DiskSide, Filed, Raw, Expected, StoreSays
    <3>2. Hand(r)' = {} /\ Midway(r)'
      BY <1>2 DEF Idle, Hand, Midway
    <3> QED
      BY <2>2, <2>3, <2>4, <3>1, <3>2 DEF CallSide, AtHand
  <2>5. CASE x # r
    <3>1. DiskSide(x)'
      BY <1>1, <1>2, <2>1, <2>5, StillDisk
    <3> QED
      BY <1>1, <1>2, <2>1, <2>2, <2>3, <2>5, <3>1 DEF CallSide, AtHand, Raw, Hand, Midway
  <2> QED
    BY <2>4, <2>5
<1> QED
  BY <1>3, <1>5 DEF FileInv

LEMMA InitFile == RootsLeaveInPeace /\ Init => FileInv
<1> SUFFICES ASSUME RootsLeaveInPeace, Init PROVE FileInv
  OBVIOUS
<1>1. left \in Bounds /\ (left.crashes = 0 \/ left.unmounts = 0)
  BY ReplicaAssumption DEF Init, RootsLeaveInPeace, Bounds
<1>2. ASSUME NEW r \in Replicas
      PROVE  DiskSide(r) /\ CallSide(r) /\ SessSide(r)
  <2>1. /\ mem[r] = EmptyView /\ store[r] = EmptyView /\ mounted[r] /\ call[r] = Idle /\ sess[r] = NoSession
        /\ file[r] = [p \in {} |-> None]
    BY <1>2 DEF Init
  <2>2. Known(EmptyView) = {}
    BY DEF Known, EmptyView
  <2>3. DiskSide(r)
    BY <2>1, <2>2 DEF DiskSide, Filed, Raw, Expected, StoreSays, ViewByUsers
  <2>4. CallSide(r)
    BY <2>1 DEF CallSide, AtHand, Hand, Idle, Away, Midway
  <2> QED
    BY <2>1, <2>3, <2>4 DEF SessSide, NoSession
<1> QED
  BY <1>1, <1>2 DEF FileInv

LEMMA NextFile ==
  RootsLeaveInPeace /\ TypeInv /\ HistInv /\ FileInv /\ [Next]_vars => FileInv'
<1> SUFFICES ASSUME RootsLeaveInPeace, TypeInv, HistInv, FileInv, [Next]_vars PROVE FileInv'
  OBVIOUS
<1>1. CASE UNCHANGED vars
  BY <1>1, WorldKept DEF vars, FileInv, SessSide
<1>2. ASSUME NEW r \in Replicas, CallStep(r)
      PROVE  FileInv'
  <2>1. ASSUME SettleSkip(r) PROVE FileInv'
    BY <2>1, SettleStillFile DEF SettleSkip, disks
  <2> QED
    BY <1>2, <2>1, TakeFile, ReconcileStillFile, MaterialisedFile, PausedFile, MissingFile, DeleteFile, EditFile, CopyStillFile,
       CopyLoserFile, FlushVersionsFile, SettleSameFile, SettleWriteFile, JoinUpdateFile,
       SettleJoinedFile, FinishFile DEF CallStep
<1>3. ASSUME NEW r \in Replicas, SessionStep(r)
      PROVE  FileInv'
  BY <1>3, SessionFile, StartFile, CommitSessionFile DEF SessionStep
<1> QED
  BY <1>1, <1>2, <1>3, UserEditFile, MountFile, CrashFile, StartFile, SessionFile, ContentFile DEF Next

LEMMA FileInvGivesUsersWrites == TypeInv /\ FileInv => WritesAreUsers
<1> SUFFICES ASSUME TypeInv, FileInv, NEW q \in Replicas, NEW p \in Known(mem[q]),
                    NEW e \in mem[q].st[p].versions
             PROVE  /\ IsTombstone(e) => e.dot.replica \in Deleters
                    /\ ~IsTombstone(e) /\ ~IsCopy(p) => e.content \in Types[e.dot.replica]
  BY DEF WritesAreUsers
<1>1. e.content \in MayLeave(e.dot.replica, p)
  BY DEF FileInv, DiskSide, ViewByUsers, ByUsers
<1>2. mem[q].st[p] \in States
  BY CurrentState DEF TypeInv
<1>3. e \in Entry
  BY <1>2, StateElim
<1>4. Types[e.dot.replica] \subseteq Contents
  BY <1>3, ReplicaAssumption DEF Entry, Dot
<1> QED
  BY <1>1, <1>4, ContentsAssumption DEF MayLeave, IsTombstone

\* FileInv is inductive: reconcile_path and settle leave each file as its users may, or as memory and
\* the store both explain it, and pause_reason keeps a scan from reading a root that is not there.
LEMMA FileInvariant == ASSUME RootsLeaveInPeace PROVE Spec => [](TypeInv /\ FileInv)
<1>1. Init => FileInv
  BY InitFile
<1>2. TypeInv /\ HistInv /\ FileInv /\ [Next]_vars => FileInv'
  BY NextFile
<1> QED
  BY <1>1, <1>2, HistoryInvariant, PTL DEF Spec

\* Every version that a replica holds is one that a user's save or deletion could have made: what
\* settle and place write, what a peer's session brings, and what a crash leaves of either is never
\* recorded by reconcile_path as a local edit (but for conflict copies, which copy any content).
THEOREM WritesAreUsersAlways == ASSUME RootsLeaveInPeace PROVE Spec => []WritesAreUsers
<1>1. TypeInv /\ FileInv => WritesAreUsers
  BY FileInvGivesUsersWrites
<1> QED
  BY <1>1, FileInvariant, PTL

=============================================================================
