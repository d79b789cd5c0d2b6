-------------------------- MODULE LivePeersProofs ---------------------------
(* That live sessions implement Replication, in any instance: any hosts,     *)
(* files, streams and roles.  A batch or a page on the way is no newer than  *)
(* its authors; what an end has said it has, its page holds unless the other *)
(* end has it too.                                                           *)
EXTENDS LivePeers, FiniteSetTheorems, TLAPS

\* What a step of Replication keeps, of values: knowledge k and vectors v before it, m and w
\* after it, for a set P of paths.

AreVectors(P, k, v) == k \in [Replicas -> [P -> VersionVector]] /\ v \in [Replicas -> VersionVector]

WithinAuthors(P, k, v) ==
  \A g, r \in Replicas :
    /\ v[g][r] <= v[r][r]
    /\ \A p \in P : k[g][p][r] <= k[r][p][r] /\ k[r][p][r] <= v[r][r]

DistinctDots(P, k) ==
  \A r \in Replicas : \A p, q \in P : p # q /\ k[r][p][r] = k[r][q][r] => k[r][p][r] = 0

TrueClaims(P, k, v) ==
  \A g, r \in Replicas : \A p \in P : k[r][p][r] <= v[g][r] => k[g][p][r] = k[r][p][r]

Sound(P, k, v) == AreVectors(P, k, v) /\ WithinAuthors(P, k, v) /\ DistinctDots(P, k) /\ TrueClaims(P, k, v)

\* Step(h) of Replication.
NewOf(P, h, k, m) == {p \in P : m[h][p][h] # k[h][p][h]}

Numbered(P, h, k, v, m, w) ==
  /\ v[h][h] <= w[h][h]
  /\ \A p \in NewOf(P, h, k, m) :
       /\ v[h][h] < m[h][p][h] /\ m[h][p][h] <= w[h][h]
       /\ \A q \in NewOf(P, h, k, m) \ {p} : m[h][q][h] # m[h][p][h]

Learnt(P, h, r, k, m) == \A p \in P : k[h][p][r] <= m[h][p][r] /\ m[h][p][r] <= k[r][p][r]

Claimable(P, h, r, k, v, m, w) ==
  /\ v[h][r] <= w[h][r] /\ w[h][r] <= v[r][r]
  /\ \A p \in P : k[r][p][r] <= w[h][r] => k[r][p][r] <= m[h][p][r]

Moves(P, h, k, v, m, w) ==
  /\ m = [k EXCEPT ![h] = m[h]] /\ w = [v EXCEPT ![h] = w[h]]
  /\ m[h] \in [P -> VersionVector] /\ w[h] \in VersionVector
  /\ Numbered(P, h, k, v, m, w)
  /\ \A r \in Replicas \ {h} : Learnt(P, h, r, k, m) /\ Claimable(P, h, r, k, v, m, w)

LEMMA SoundNumbers ==
  ASSUME NEW P, NEW k, NEW v, AreVectors(P, k, v)
  PROVE  /\ \A g, r \in Replicas : v[g][r] \in Nat
         /\ \A g, r \in Replicas, p \in P : k[g][p][r] \in Nat
  BY DEF AreVectors, VersionVector

LEMMA MoveTypes ==
  ASSUME NEW P, NEW k, NEW v, NEW m, NEW w, NEW h \in Replicas,
         AreVectors(P, k, v), Moves(P, h, k, v, m, w)
  PROVE  /\ AreVectors(P, m, w)
         /\ \A g \in Replicas \ {h} : m[g] = k[g] /\ w[g] = v[g]
  BY DEF AreVectors, Moves

\* An author's knowledge of its own writes only grows, stays within its numbers, and what is
\* new of it is beyond what it had numbered.
LEMMA AuthorGrows ==
  ASSUME NEW P, NEW k, NEW v, NEW m, NEW w, NEW h \in Replicas,
         Sound(P, k, v), Moves(P, h, k, v, m, w), NEW r \in Replicas, NEW p \in P
  PROVE  /\ k[r][p][r] <= m[r][p][r] /\ m[r][p][r] <= w[r][r]
         /\ v[r][r] <= w[r][r]
         /\ m[r][p][r] <= v[r][r] => m[r][p][r] = k[r][p][r]
  <1>1. /\ k[r][p][r] \in Nat /\ v[r][r] \in Nat /\ m[r][p][r] \in Nat /\ w[r][r] \in Nat
        /\ k[r][p][r] <= v[r][r]
    BY MoveTypes, SoundNumbers DEF Sound, WithinAuthors
  <1>2. CASE r = h
    <2>1. Numbered(P, r, k, v, m, w)
      BY <1>2 DEF Moves
    <2>2. CASE p \in NewOf(P, r, k, m)
      BY <1>1, <2>1, <2>2 DEF Numbered
    <2>3. CASE p \notin NewOf(P, r, k, m)
      BY <1>1, <2>1, <2>3 DEF Numbered, NewOf
    <2> QED
      BY <2>2, <2>3
  <1>3. CASE r # h
    BY <1>1, <1>3, MoveTypes DEF Sound
  <1> QED
    BY <1>2, <1>3

\* Nobody forgets, and no vector shrinks.
LEMMA NothingShrinks ==
  ASSUME NEW P, NEW k, NEW v, NEW m, NEW w, NEW h \in Replicas,
         Sound(P, k, v), Moves(P, h, k, v, m, w), NEW g \in Replicas, NEW r \in Replicas
  PROVE  v[g][r] <= w[g][r] /\ \A p \in P : k[g][p][r] <= m[g][p][r]
  <1>1. CASE g = h /\ r = h
    BY <1>1, AuthorGrows DEF Moves, Numbered
  <1>2. CASE g = h /\ r # h
    BY <1>2 DEF Moves, Learnt, Claimable
  <1>3. CASE g # h
    BY <1>3, MoveTypes, SoundNumbers DEF Sound
  <1> QED
    BY <1>1, <1>2, <1>3

LEMMA KeepsWithinAuthors ==
  ASSUME NEW P, NEW k, NEW v, NEW m, NEW w, NEW h \in Replicas,
         Sound(P, k, v), Moves(P, h, k, v, m, w)
  PROVE  WithinAuthors(P, m, w)
  <1>1. SUFFICES ASSUME NEW g \in Replicas, NEW r \in Replicas
                 PROVE  /\ w[g][r] <= w[r][r]
                        /\ \A p \in P : m[g][p][r] <= m[r][p][r] /\ m[r][p][r] <= w[r][r]
    BY DEF WithinAuthors
  <1>2. AreVectors(P, k, v) /\ AreVectors(P, m, w)
        /\ \A x \in Replicas \ {h} : m[x] = k[x] /\ w[x] = v[x]
    BY MoveTypes DEF Sound
  <1>3. v[g][r] \in Nat /\ w[g][r] \in Nat /\ v[r][r] \in Nat /\ w[r][r] \in Nat
    BY <1>2, SoundNumbers
  <1>4. w[g][r] <= w[r][r]
    <2>1. v[r][r] <= w[r][r]
      BY NothingShrinks
    <2>2. CASE g = r
      BY <1>3, <2>2
    <2>3. CASE g = h /\ g # r
      BY <1>3, <2>1, <2>3 DEF Moves, Claimable
    <2>4. CASE g # h /\ g # r
      BY <1>2, <1>3, <2>1, <2>4 DEF Sound, WithinAuthors
    <2> QED
      BY <2>2, <2>3, <2>4
  <1>5. ASSUME NEW p \in P
        PROVE  m[g][p][r] <= m[r][p][r] /\ m[r][p][r] <= w[r][r]
    <2>1. k[r][p][r] <= m[r][p][r] /\ m[r][p][r] <= w[r][r]
      BY AuthorGrows
    <2>2. k[g][p][r] \in Nat /\ m[g][p][r] \in Nat /\ k[r][p][r] \in Nat /\ m[r][p][r] \in Nat
      BY <1>2, SoundNumbers
    <2>3. CASE g = r
      BY <2>1, <2>2, <2>3
    <2>4. CASE g = h /\ g # r
      BY <2>1, <2>2, <2>4 DEF Moves, Learnt
    <2>5. CASE g # h /\ g # r
      BY <1>2, <2>1, <2>2, <2>5 DEF Sound, WithinAuthors
    <2> QED
      BY <2>1, <2>3, <2>4, <2>5
  <1> QED
    BY <1>4, <1>5

LEMMA KeepsDistinctDots ==
  ASSUME NEW P, NEW k, NEW v, NEW m, NEW w, NEW h \in Replicas,
         Sound(P, k, v), Moves(P, h, k, v, m, w)
  PROVE  DistinctDots(P, m)
  <1>1. SUFFICES ASSUME NEW r \in Replicas, NEW p \in P, NEW q \in P, p # q,
                        m[r][p][r] = m[r][q][r]
                 PROVE  m[r][p][r] = 0
    BY DEF DistinctDots
  <1>2. AreVectors(P, k, v) /\ AreVectors(P, m, w) /\ \A x \in Replicas \ {h} : m[x] = k[x]
    BY MoveTypes DEF Sound
  <1>3. /\ k[r][p][r] \in Nat /\ k[r][q][r] \in Nat /\ v[r][r] \in Nat
        /\ m[r][p][r] \in Nat /\ m[r][q][r] \in Nat
        /\ k[r][p][r] <= v[r][r] /\ k[r][q][r] <= v[r][r]
    BY <1>2, SoundNumbers DEF Sound, WithinAuthors
  <1>4. CASE r # h
    BY <1>1, <1>2, <1>4 DEF Sound, DistinctDots
  <1>5. CASE r = h
    <2>1. Numbered(P, r, k, v, m, w)
      BY <1>5 DEF Moves
    <2>2. CASE p \in NewOf(P, r, k, m) /\ q \in NewOf(P, r, k, m)
      BY <1>1, <2>1, <2>2 DEF Numbered
    <2>3. CASE p \in NewOf(P, r, k, m) /\ q \notin NewOf(P, r, k, m)
      BY <1>1, <1>3, <2>1, <2>3 DEF Numbered, NewOf
    <2>4. CASE p \notin NewOf(P, r, k, m) /\ q \in NewOf(P, r, k, m)
      BY <1>1, <1>3, <2>1, <2>4 DEF Numbered, NewOf
    <2>5. CASE p \notin NewOf(P, r, k, m) /\ q \notin NewOf(P, r, k, m)
      BY <1>1, <2>5 DEF NewOf, Sound, DistinctDots
    <2> QED
      BY <2>2, <2>3, <2>4, <2>5
  <1> QED
    BY <1>4, <1>5

LEMMA KeepsTrueClaims ==
  ASSUME NEW P, NEW k, NEW v, NEW m, NEW w, NEW h \in Replicas,
         Sound(P, k, v), Moves(P, h, k, v, m, w)
  PROVE  TrueClaims(P, m, w)
  <1>1. SUFFICES ASSUME NEW g \in Replicas, NEW r \in Replicas, NEW p \in P, m[r][p][r] <= w[g][r]
                 PROVE  m[g][p][r] = m[r][p][r]
    BY DEF TrueClaims
  <1>2. AreVectors(P, k, v) /\ AreVectors(P, m, w)
        /\ \A x \in Replicas \ {h} : m[x] = k[x] /\ w[x] = v[x]
    BY MoveTypes DEF Sound
  <1>3. /\ k[g][p][r] \in Nat /\ m[g][p][r] \in Nat /\ k[r][p][r] \in Nat
        /\ m[r][p][r] \in Nat /\ v[g][r] \in Nat /\ w[g][r] \in Nat /\ v[r][r] \in Nat
    BY <1>2, SoundNumbers
  <1>4. m[g][p][r] <= m[r][p][r]
    BY KeepsWithinAuthors DEF WithinAuthors
  <1>5. CASE g = r
    BY <1>5
  \* The stepping replica claims: it has what it claims.
  <1>6. CASE g = h /\ g # r
    <2>1. m[r] = k[r]
      BY <1>2, <1>6
    <2>2. k[r][p][r] <= w[g][r] => k[r][p][r] <= m[g][p][r]
      BY <1>6 DEF Moves, Claimable
    <2> QED
      BY <1>1, <1>3, <1>4, <2>1, <2>2
  \* The author steps: what it writes now is beyond what others claim.
  <1>7. CASE g # h /\ r = h
    <2>1. w[g] = v[g] /\ m[g] = k[g] /\ v[g][r] <= v[r][r]
      BY <1>2, <1>7 DEF Sound, WithinAuthors
    <2>2. m[r][p][r] = k[r][p][r]
      BY <1>1, <1>3, <2>1, AuthorGrows
    <2> QED
      BY <1>1, <2>1, <2>2 DEF Sound, TrueClaims
  <1>8. CASE g # h /\ r # h
    BY <1>1, <1>2, <1>8 DEF Sound, TrueClaims
  <1> QED
    BY <1>5, <1>6, <1>7, <1>8

LEMMA MoveKeepsSound ==
  ASSUME NEW P, NEW k, NEW v, NEW m, NEW w, NEW h \in Replicas,
         Sound(P, k, v), Moves(P, h, k, v, m, w)
  PROVE  Sound(P, m, w)
  BY MoveTypes, KeepsWithinAuthors, KeepsDistinctDots, KeepsTrueClaims DEF Sound

-----------------------------------------------------------------------------
\* Writes and merges, of values (Recorded, OwnVV, Joined).

Rank(ps, p) == Cardinality({q \in ps : q <= p})

LEMMA RanksDiffer ==
  ASSUME NEW ps \in SUBSET Nat, IsFiniteSet(ps)
  PROVE  /\ Cardinality(ps) \in Nat
         /\ \A p \in ps : Rank(ps, p) \in Nat /\ 1 <= Rank(ps, p) /\ Rank(ps, p) <= Cardinality(ps)
         /\ \A p, q \in ps : p # q => Rank(ps, p) # Rank(ps, q)
  <1> DEFINE upto(p) == {q \in ps : q <= p}
  <1>1. ASSUME NEW p \in ps
        PROVE  IsFiniteSet(upto(p)) /\ Cardinality(upto(p)) \in Nat
               /\ Cardinality(upto(p)) <= Cardinality(ps) /\ Cardinality(upto(p)) # 0
    <2>1. upto(p) \in SUBSET ps
      OBVIOUS
    <2>2. IsFiniteSet(upto(p)) /\ Cardinality(upto(p)) <= Cardinality(ps)
      BY <2>1, FS_Subset
    <2>3. p \in upto(p)
      OBVIOUS
    <2>4. upto(p) # {}
      BY <2>3
    <2> HIDE DEF upto
    <2> QED
      BY <2>2, <2>4, FS_EmptySet, FS_CardinalityType
  <1>2. ASSUME NEW p \in ps, NEW q \in ps, p < q
        PROVE  Rank(ps, p) # Rank(ps, q)
    <2>1. ASSUME NEW x \in upto(p) PROVE x \in upto(q)
      BY <1>2
    <2>2. q \in upto(q) /\ q \notin upto(p)
      BY <1>2
    <2>3. upto(p) \in SUBSET upto(q) /\ upto(p) # upto(q) /\ IsFiniteSet(upto(q))
      BY <2>1, <2>2, <1>1
    <2> HIDE DEF upto
    <2>4. Cardinality(upto(p)) # Cardinality(upto(q))
      BY <2>3, FS_Subset
    <2> USE DEF upto
    <2> QED
      BY <2>4 DEF Rank
  <1>3. ASSUME NEW p \in ps
        PROVE  Rank(ps, p) \in Nat /\ 1 <= Rank(ps, p) /\ Rank(ps, p) <= Cardinality(ps)
    BY <1>1 DEF Rank
  <1>4. ASSUME NEW p \in ps, NEW q \in ps, p # q
        PROVE  Rank(ps, p) # Rank(ps, q)
    <2>1. p < q \/ q < p
      BY <1>4
    <2> QED
      BY <2>1, <1>2
  <1>5. Cardinality(ps) \in Nat
    BY FS_CardinalityType
  <1> QED
    BY <1>3, <1>4, <1>5

\* What h knows of path p with its write of it recorded, if it is in ps.
WithWrite(h, k, v, ps, p) ==
  IF p \in ps THEN AddDot(k[h][p], [replica |-> h, counter |-> v[h][h] + Rank(ps, p)]) ELSE k[h][p]

WithBatch(h, k, v, ps, b, p) ==
  IF p \in DOMAIN b THEN MergeVV(WithWrite(h, k, v, ps, p), b[p]) ELSE WithWrite(h, k, v, ps, p)

\* A batch of paths in P that is no newer than its authors.
Batches(P, k) ==
  {b \in UNION {[D -> VersionVector] : D \in SUBSET P} :
     \A p \in DOMAIN b : \A r \in Replicas : b[p][r] <= k[r][p][r]}

\* Of what vector c covers, h has every write or batch b brings it.
Brings(P, h, k, b, c) ==
  \A p \in P : \A r \in Replicas : k[r][p][r] <= c[r] =>
    k[r][p][r] <= k[h][p][r] \/ (p \in DOMAIN b /\ k[r][p][r] <= b[p][r])

\* h may record writes of ps, and merge batch b.
CanWrite(P, h, k, v, ps) ==
  P \subseteq Nat /\ Sound(P, k, v) /\ h \in Replicas /\ ps \subseteq P /\ IsFiniteSet(ps)
CanMerge(P, h, k, v, ps, b) == CanWrite(P, h, k, v, ps) /\ b \in Batches(P, k)

LEMMA WriteNumbers ==
  ASSUME NEW P, NEW k, NEW v, NEW h, NEW ps, CanWrite(P, h, k, v, ps), NEW p \in P
  PROVE  /\ WithWrite(h, k, v, ps, p) \in VersionVector
         /\ \A r \in Replicas \ {h} : WithWrite(h, k, v, ps, p)[r] = k[h][p][r]
         /\ p \notin ps => WithWrite(h, k, v, ps, p)[h] = k[h][p][h]
         /\ p \in ps => WithWrite(h, k, v, ps, p)[h] = v[h][h] + Rank(ps, p)
         /\ k[h][p][h] <= WithWrite(h, k, v, ps, p)[h]
  <1>1. k[h][p] \in VersionVector /\ v[h][h] \in Nat /\ k[h][p][h] \in Nat /\ k[h][p][h] <= v[h][h]
    BY SoundNumbers, ReplicasAssumption DEF CanWrite, Sound, AreVectors, WithinAuthors
  <1>2. CASE p \notin ps
    BY <1>1, <1>2 DEF WithWrite, CanWrite
  <1>3. CASE p \in ps
    <2> DEFINE n == v[h][h] + Rank(ps, p)
    <2>1. n \in Nat /\ k[h][p][h] < n
      <3>1. ps \in SUBSET Nat /\ IsFiniteSet(ps)
        BY DEF CanWrite
      <3> QED
        BY <1>1, <1>3, <3>1, RanksDiffer
    <2> HIDE DEF n
    <2>2. WithWrite(h, k, v, ps, p) = [k[h][p] EXCEPT ![h] = IF @ >= n THEN @ ELSE n]
      BY <1>3 DEF WithWrite, AddDot, n
    <2>3. WithWrite(h, k, v, ps, p) = [k[h][p] EXCEPT ![h] = n]
      BY <1>1, <2>1, <2>2
    <2> QED
      BY <1>1, <1>3, <2>1, <2>3 DEF VersionVector, n, CanWrite
  <1> QED
    BY <1>2, <1>3

LEMMA BatchNumbers ==
  ASSUME NEW P, NEW k, NEW v, NEW h, NEW ps, NEW b, CanMerge(P, h, k, v, ps, b), NEW p \in P
  PROVE  /\ WithBatch(h, k, v, ps, b, p) \in VersionVector
         /\ WithBatch(h, k, v, ps, b, p)[h] = WithWrite(h, k, v, ps, p)[h]
         /\ \A r \in Replicas \ {h} :
              /\ k[h][p][r] <= WithBatch(h, k, v, ps, b, p)[r]
              /\ WithBatch(h, k, v, ps, b, p)[r] <= k[r][p][r]
              /\ p \in DOMAIN b => b[p][r] <= WithBatch(h, k, v, ps, b, p)[r]
  <1> DEFINE a == WithWrite(h, k, v, ps, p)
  <1>0. CanWrite(P, h, k, v, ps) /\ Sound(P, k, v) /\ AreVectors(P, k, v) /\ h \in Replicas
    BY DEF CanMerge, CanWrite, Sound
  <1>1. /\ a \in VersionVector /\ k[h][p][h] <= a[h]
        /\ \A r \in Replicas \ {h} : a[r] = k[h][p][r]
    BY <1>0, WriteNumbers
  <1>2. \A r \in Replicas : /\ k[h][p][r] \in Nat /\ k[r][p][r] \in Nat
                            /\ k[h][p][r] <= k[r][p][r]
    BY <1>0, SoundNumbers, ReplicasAssumption DEF Sound, WithinAuthors
  <1>3. p \in DOMAIN b => b[p] \in VersionVector /\ \A r \in Replicas : b[p][r] <= k[r][p][r]
    BY DEF CanMerge, Batches
  <1>4. WithBatch(h, k, v, ps, b, p) = IF p \in DOMAIN b THEN MergeVV(a, b[p]) ELSE a
    BY DEF WithBatch
  <1>5. CASE p \in DOMAIN b
    BY <1>0, <1>1, <1>2, <1>3, <1>4, <1>5 DEF MergeVV, VersionVector
  <1>6. CASE p \notin DOMAIN b
    BY <1>0, <1>1, <1>2, <1>4, <1>6 DEF VersionVector
  <1> QED
    BY <1>5, <1>6

\* Recording its writes, merging a batch and claiming what it brings is a step of Replication.
LEMMA MergeMoves ==
  ASSUME NEW P, NEW k, NEW v, NEW h, NEW ps, NEW b, CanMerge(P, h, k, v, ps, b),
         NEW c \in VersionVector, \A r \in Replicas : c[r] <= v[r][r], Brings(P, h, k, b, c),
         NEW m, NEW w, m = [k EXCEPT ![h] = m[h]], w = [v EXCEPT ![h] = w[h]],
         m[h] = [p \in P |-> WithBatch(h, k, v, ps, b, p)],
         w[h] = MergeVV([v[h] EXCEPT ![h] = @ + Cardinality(ps)], c)
  PROVE  Moves(P, h, k, v, m, w)
  <1>1. /\ ps \in SUBSET Nat /\ IsFiniteSet(ps) /\ ps \subseteq P /\ h \in Replicas
        /\ CanWrite(P, h, k, v, ps) /\ Sound(P, k, v) /\ AreVectors(P, k, v)
    BY DEF CanMerge, CanWrite, Sound
  <1>2. /\ Cardinality(ps) \in Nat /\ v[h] \in VersionVector
        /\ \A g, r \in Replicas : v[g][r] \in Nat
        /\ \A r \in Replicas : c[r] \in Nat
    BY <1>1, RanksDiffer, SoundNumbers, ReplicasAssumption DEF AreVectors, VersionVector
  <1>3. /\ w[h] \in VersionVector /\ w[h][h] = v[h][h] + Cardinality(ps)
        /\ \A r \in Replicas \ {h} : w[h][r] = IF v[h][r] >= c[r] THEN v[h][r] ELSE c[r]
    BY <1>1, <1>2 DEF MergeVV, VersionVector
  <1>4. \A p \in P : m[h][p] = WithBatch(h, k, v, ps, b, p)
    OBVIOUS
  <1>5. m[h] \in [P -> VersionVector]
    <2>1. \A p \in P : WithBatch(h, k, v, ps, b, p) \in VersionVector
      BY BatchNumbers
    <2> QED
      BY <2>1
  <1>6. \A p \in P : /\ m[h][p][h] = IF p \in ps THEN v[h][h] + Rank(ps, p) ELSE k[h][p][h]
    <2> SUFFICES ASSUME NEW p \in P
                 PROVE  m[h][p][h] = IF p \in ps THEN v[h][h] + Rank(ps, p) ELSE k[h][p][h]
      OBVIOUS
    <2>1. m[h][p] = WithBatch(h, k, v, ps, b, p)
      BY <1>4
    <2>2. m[h][p][h] = WithWrite(h, k, v, ps, p)[h]
      BY <2>1, BatchNumbers
    <2>3. WithWrite(h, k, v, ps, p)[h] = IF p \in ps THEN v[h][h] + Rank(ps, p) ELSE k[h][p][h]
      <3>1. CASE p \in ps
        BY <1>1, <3>1, WriteNumbers
      <3>2. CASE p \notin ps
        BY <1>1, <3>2, WriteNumbers
      <3> QED
        BY <3>1, <3>2
    <2> QED
      BY <2>2, <2>3
  <1>7. Numbered(P, h, k, v, m, w)
    <2>1. v[h][h] <= w[h][h]
      BY <1>1, <1>2, <1>3
    <2>2. NewOf(P, h, k, m) \subseteq ps
      BY <1>6 DEF NewOf
    <2>3. ASSUME NEW p \in ps, NEW q \in ps
          PROVE  /\ v[h][h] < m[h][p][h] /\ m[h][p][h] <= w[h][h]
                 /\ p # q => m[h][q][h] # m[h][p][h]
      BY <1>1, <1>2, <1>3, <1>6, RanksDiffer
    <2> QED
      BY <2>1, <2>2, <2>3 DEF Numbered
  <1>8. ASSUME NEW r \in Replicas \ {h}
        PROVE  Learnt(P, h, r, k, m)
    <2>1. SUFFICES ASSUME NEW p \in P PROVE k[h][p][r] <= m[h][p][r] /\ m[h][p][r] <= k[r][p][r]
      BY DEF Learnt
    <2>2. m[h][p] = WithBatch(h, k, v, ps, b, p)
      BY <1>4
    <2> QED
      BY <2>2, BatchNumbers
  <1>9. ASSUME NEW r \in Replicas \ {h}
        PROVE  Claimable(P, h, r, k, v, m, w)
    <2>1. v[h][r] <= v[r][r]
      BY <1>1 DEF Sound, WithinAuthors
    <2>2. v[h][r] <= w[h][r] /\ w[h][r] <= v[r][r]
      BY <1>1, <1>2, <1>3, <2>1
    <2>3. ASSUME NEW p \in P, k[r][p][r] <= w[h][r]
          PROVE  k[r][p][r] <= m[h][p][r]
      <3>1. /\ k[r][p][r] \in Nat /\ k[h][p][r] \in Nat /\ m[h][p][r] \in Nat
            /\ k[h][p][r] <= m[h][p][r] /\ (p \in DOMAIN b => b[p][r] <= m[h][p][r] /\ b[p][r] \in Nat)
        <4>1. p \in DOMAIN b => b[p] \in VersionVector
          BY DEF CanMerge, Batches
        <4>2. m[h][p] = WithBatch(h, k, v, ps, b, p)
          BY <1>4
        <4> QED
          BY <1>1, <1>5, <4>1, <4>2, BatchNumbers, SoundNumbers, ReplicasAssumption DEF VersionVector
      <3>2. CASE k[r][p][r] <= v[h][r]
        BY <1>1, <3>1, <3>2 DEF Sound, TrueClaims
      <3>3. CASE k[r][p][r] <= c[r]
        BY <3>1, <3>3 DEF Brings
      <3> QED
        BY <1>1, <1>2, <1>3, <2>3, <3>2, <3>3
    <2> QED
      BY <2>2, <2>3 DEF Claimable
  <1> QED
    BY <1>1, <1>3, <1>5, <1>7, <1>8, <1>9 DEF Moves
-----------------------------------------------------------------------------
\* Sequences.
LEMMA SequenceReads ==
  ASSUME NEW S, NEW s \in Seq(S)
  PROVE  DOMAIN s = 1..Len(s) /\ Len(s) \in Nat /\ \A i \in 1..Len(s) : s[i] \in S
  OBVIOUS

LEMMA SequenceOfMore == ASSUME NEW S, NEW T, S \subseteq T, NEW s \in Seq(S) PROVE s \in Seq(T)
  OBVIOUS

LEMMA SequenceOps ==
  ASSUME NEW S, NEW s \in Seq(S)
  PROVE  /\ <<>> \in Seq(S) /\ \A x \in S : Append(s, x) \in Seq(S)
         /\ s # <<>> => Tail(s) \in Seq(S) /\ Head(s) \in S
  OBVIOUS
-----------------------------------------------------------------------------
\* The invariant.

\* An end e of host h whose peer is y: what waits in it is no newer than its authors, its host
\* has all that it has said it has, and its page holds what of that the peer may lack.
Holds(P, k, v, h, y, e) ==
  /\ DOMAIN e = DOMAIN NoEnd
  /\ e.said \in VersionVector /\ \A r \in Replicas : e.said[r] <= v[h][r]
  /\ e.delta \in Batches(P, k) /\ e.waiting \subseteq Batches(P, k)
  /\ e.inbox \in Seq(Batches(P, k)) /\ e.heard \in Seq(Batches(P, k))
  /\ e.pc \in {"offered", "live"} => y \in Replicas /\ Brings(AllPaths, y, k, e.delta, e.said)

IsStream(s) ==
  /\ DOMAIN s = {"from", "to", "broken"}
  /\ {s.from, s.to} \subseteq Hosts \/ (s.from = NoDevice /\ s.to = NoDevice)

Typed ==
  /\ setup \in DOMAIN Setups /\ edited \in [Hosts -> SUBSET Paths]
  /\ know \in [Hosts -> [Paths -> VersionVector]] /\ vv \in [Hosts -> VersionVector]
  /\ DOMAIN outgoing = Hosts
  /\ DOMAIN stream = Ids /\ \A i \in Ids : IsStream(stream[i])
  /\ DOMAIN end = Ids /\ \A i \in Ids : DOMAIN end[i] = Hosts

TellsTrue == \A h \in Hosts : \A o \in outgoing[h] : o.batch \in Batches(Paths, Knowledge)
EndsHold == \A i \in Ids, h \in Hosts : Holds(Paths, Knowledge, Vectors, h, Other(i, h), end[i][h])

Inv == Typed /\ TellsTrue /\ EndsHold /\ Sound(AllPaths, Knowledge, Vectors)

LEMMA SetupFacts ==
  ASSUME setup \in DOMAIN Setups
  PROVE  /\ Hosts \subseteq Replicas /\ NoDevice \notin Hosts /\ Paths \subseteq AllPaths
         /\ AllPaths \subseteq Nat /\ IsFiniteSet(Paths)
         /\ Setups[setup].open \in Seq([from : Hosts, to : Hosts])
         /\ Ids = 1..Setups[setup].streams /\ Setups[setup].streams \in Nat
         /\ Len(Setups[setup].open) <= Setups[setup].streams
  BY LivePeersAssumption DEF IsSetup, Hosts, Paths, AllPaths, Ids

LEMMA Readings ==
  ASSUME Typed
  PROVE  /\ AreVectors(AllPaths, Knowledge, Vectors)
         /\ \A h \in Hosts : Vectors[h] = vv[h]
         /\ \A h \in Hosts, p \in Paths : Knowledge[h][p] = know[h][p]
         /\ \A h \in Replicas, p \in AllPaths : p \notin Paths => Knowledge[h][p] = NoVersions
  <1>1. Hosts \subseteq Replicas /\ Paths \subseteq AllPaths
    BY SetupFacts DEF Typed
  <1>2. NoVersions \in VersionVector
    BY DEF NoVersions, VersionVector
  <1> QED
    BY <1>1, <1>2 DEF Typed, Knowledge, Vectors, AreVectors

LEMMA NothingHolds ==
  ASSUME NEW k, NEW v, AreVectors(AllPaths, k, v), NEW h \in Replicas, NEW y
  PROVE  NoBatch \in Batches(Paths, k) /\ Holds(Paths, k, v, h, y, NoEnd)
  <1>1. NoBatch \in Batches(Paths, k)
    <2>1. DOMAIN NoBatch = {} /\ NoBatch \in [{} -> VersionVector]
      BY DEF NoBatch
    <2> QED
      BY <2>1 DEF Batches
  <1>2. \A r \in Replicas : v[h][r] \in Nat
    BY DEF AreVectors, VersionVector
  <1> QED
    BY <1>1, <1>2 DEF Holds, NoEnd, NoVersions, VersionVector

LEMMA InitInv == Init => Inv
  <1> SUFFICES ASSUME Init PROVE Inv
    OBVIOUS
  <1> DEFINE Open0 == Setups[setup].open
  <1>1. setup \in DOMAIN Setups
    BY DEF Init
  <1>2. NoVersions \in VersionVector
    BY DEF NoVersions, VersionVector
  <1>3. DOMAIN Open0 \subseteq Ids /\ \A i \in DOMAIN Open0 : Open0[i].from \in Hosts /\ Open0[i].to \in Hosts
    <2>1. /\ Open0 \in Seq([from : Hosts, to : Hosts]) /\ Len(Open0) <= Setups[setup].streams
          /\ Ids = 1..Setups[setup].streams /\ Setups[setup].streams \in Nat
      BY <1>1, SetupFacts
    <2> HIDE DEF Open0
    <2>2. DOMAIN Open0 = 1..Len(Open0) /\ Len(Open0) \in Nat
          /\ \A i \in 1..Len(Open0) : Open0[i] \in [from : Hosts, to : Hosts]
      BY <2>1, SequenceReads
    <2> QED
      BY <2>1, <2>2
  <1>4. Typed
    <2>1. edited \in [Hosts -> SUBSET Paths] /\ know \in [Hosts -> [Paths -> VersionVector]]
          /\ vv \in [Hosts -> VersionVector] /\ DOMAIN outgoing = Hosts
      <3>1. /\ edited = [h \in Hosts |-> {}] /\ vv = [h \in Hosts |-> NoVersions]
            /\ know = [h \in Hosts |-> [p \in Paths |-> NoVersions]]
            /\ outgoing = [h \in Hosts |-> {}]
        BY DEF Init
      <3> QED
        BY <1>2, <3>1
    <2>2. DOMAIN end = Ids /\ \A i \in Ids : DOMAIN end[i] = Hosts
      BY DEF Init
    <2>3. DOMAIN stream = Ids
      BY DEF Init
    <2>4. ASSUME NEW i \in Ids PROVE IsStream(stream[i])
      BY <1>3 DEF Init, IsStream
    <2> QED
      BY <1>1, <2>1, <2>2, <2>3, <2>4 DEF Typed
  <1>5. Sound(AllPaths, Knowledge, Vectors)
    <2>1. \A h \in Replicas : Vectors[h] = NoVersions /\ \A p \in AllPaths : Knowledge[h][p] = NoVersions
      BY DEF Init, Knowledge, Vectors
    <2> QED
      BY <1>4, <2>1, Readings DEF Sound, WithinAuthors, DistinctDots, TrueClaims, NoVersions
  <1>6. ASSUME NEW i \in Ids, NEW h \in Hosts
        PROVE  Holds(Paths, Knowledge, Vectors, h, Other(i, h), end[i][h])
    <2> DEFINE live == [NoEnd EXCEPT !.pc = "live", !.task = "read", !.subscribed = TRUE]
    <2>1. h \in Replicas /\ AreVectors(AllPaths, Knowledge, Vectors)
      BY <1>1, <1>4, SetupFacts, Readings
    <2>2. CASE end[i][h] = NoEnd
      BY <2>1, <2>2, NothingHolds
    <2>3. CASE i \in DOMAIN Open0 /\ h \in {Open0[i].from, Open0[i].to}
      <3>1. end[i][h] = live /\ Other(i, h) \in Replicas
        BY <1>1, <1>3, <2>3, SetupFacts DEF Init, Other
      <3>2. Brings(AllPaths, Other(i, h), Knowledge, NoBatch, NoVersions)
        BY <1>5, <3>1, SoundNumbers, ReplicasAssumption DEF Sound, Brings, NoVersions
      <3>3. Holds(Paths, Knowledge, Vectors, h, Other(i, h), NoEnd)
        BY <2>1, NothingHolds
      <3> QED
        BY <3>1, <3>2, <3>3 DEF Holds, NoEnd
    <2> QED
      BY <2>2, <2>3 DEF Init
  <1> QED
    BY <1>4, <1>5, <1>6 DEF Inv, TellsTrue, EndsHold, Init
-----------------------------------------------------------------------------
\* What every step keeps.

LEMMA BatchesGrow ==
  ASSUME Typed, NEW k, NEW v, NEW m, NEW w, Sound(AllPaths, k, v),
         NEW h \in Replicas, Moves(AllPaths, h, k, v, m, w)
  PROVE  Batches(Paths, k) \subseteq Batches(Paths, m)
  <1> SUFFICES ASSUME NEW b \in Batches(Paths, k), NEW p \in DOMAIN b, NEW r \in Replicas
               PROVE  b[p][r] <= m[r][p][r]
    BY DEF Batches
  <1>1. p \in AllPaths /\ b[p][r] \in Nat /\ b[p][r] <= k[r][p][r]
    BY SetupFacts DEF Typed, Batches, VersionVector
  <1>2. k[r][p][r] \in Nat /\ m[r][p][r] \in Nat
    <2>1. AreVectors(AllPaths, k, v) /\ AreVectors(AllPaths, m, w)
      BY MoveTypes, ReplicasAssumption DEF Sound
    <2> QED
      BY <1>1, <2>1, SoundNumbers, ReplicasAssumption
  <1>3. k[r][p][r] <= m[r][p][r]
    BY <1>1, NothingShrinks, ReplicasAssumption
  <1> QED
    BY <1>1, <1>2, <1>3

\* What an author writes now is beyond all that an end has said.
LEMMA HoldsGrows ==
  ASSUME Typed, NEW k, NEW v, NEW m, NEW w, Sound(AllPaths, k, v),
         NEW h \in Replicas, Moves(AllPaths, h, k, v, m, w),
         NEW g \in Replicas, NEW y, NEW e, Holds(Paths, k, v, g, y, e)
  PROVE  Holds(Paths, m, w, g, y, e)
  <1>1. AreVectors(AllPaths, k, v) /\ AreVectors(AllPaths, m, w)
    BY MoveTypes, ReplicasAssumption DEF Sound
  <1>2. Batches(Paths, k) \subseteq Batches(Paths, m)
    BY BatchesGrow
  <1>3. \A r \in Replicas : e.said[r] \in Nat /\ v[g][r] \in Nat /\ w[g][r] \in Nat /\ v[r][r] \in Nat
                            /\ e.said[r] <= v[g][r] /\ v[g][r] <= v[r][r]
    BY <1>1, SoundNumbers, ReplicasAssumption DEF Holds, Sound, WithinAuthors, VersionVector
  <1>4. ASSUME NEW r \in Replicas PROVE e.said[r] <= w[g][r]
    <2>1. v[g][r] <= w[g][r]
      BY NothingShrinks, ReplicasAssumption
    <2> QED
      BY <1>3, <2>1
  <1>5. ASSUME y \in Replicas, Brings(AllPaths, y, k, e.delta, e.said)
        PROVE  Brings(AllPaths, y, m, e.delta, e.said)
    <2>1. SUFFICES ASSUME NEW p \in AllPaths, NEW r \in Replicas, m[r][p][r] <= e.said[r]
                   PROVE  m[r][p][r] <= m[y][p][r] \/ (p \in DOMAIN e.delta /\ m[r][p][r] <= e.delta[p][r])
      BY DEF Brings
    <2>2. /\ k[r][p][r] \in Nat /\ m[r][p][r] \in Nat /\ k[y][p][r] \in Nat /\ m[y][p][r] \in Nat
      BY <1>1, <1>5, SoundNumbers, ReplicasAssumption
    <2>3. m[r][p][r] = k[r][p][r]
      BY <1>3, <2>1, <2>2, AuthorGrows, ReplicasAssumption
    <2>4. k[y][p][r] <= m[y][p][r]
      BY <1>5, NothingShrinks, ReplicasAssumption
    <2> QED
      BY <1>5, <2>1, <2>2, <2>3, <2>4 DEF Brings
  <1>6. e.inbox \in Seq(Batches(Paths, m)) /\ e.heard \in Seq(Batches(Paths, m))
    BY <1>2, SequenceOfMore DEF Holds
  <1> QED
    BY <1>2, <1>4, <1>5, <1>6 DEF Holds

\* Of a step: the writes there are stay sound, and what is on the way stays good.
Kept ==
  /\ setup' = setup /\ Sound(AllPaths, Knowledge', Vectors')
  /\ Batches(Paths, Knowledge) \subseteq Batches(Paths, Knowledge')
  /\ \A i \in Ids, h \in Hosts : Holds(Paths, Knowledge', Vectors', h, Other(i, h), end[i][h])

LEMMA KeptKeeps ==
  ASSUME Inv, Kept, Typed',
         \A h \in Hosts : \A o \in outgoing'[h] :
           o \in outgoing[h] \/ o.batch \in Batches(Paths, Knowledge'),
         \A i \in Ids, h \in Hosts :
           \/ end'[i][h] = end[i][h] /\ Other(i, h)' = Other(i, h)
           \/ Holds(Paths, Knowledge', Vectors', h, Other(i, h)', end'[i][h])
  PROVE  Inv'
  <1>1. Hosts' = Hosts /\ Ids' = Ids /\ Paths' = Paths
    BY DEF Kept, Hosts, Ids, Paths
  <1>2. TellsTrue'
    BY <1>1 DEF Inv, Kept, TellsTrue
  <1>3. EndsHold'
    BY <1>1 DEF Kept, EndsHold
  <1> QED
    BY <1>2, <1>3 DEF Inv, Kept

LEMMA QuietKept ==
  ASSUME Inv, UNCHANGED <<setup, know, vv>>
  PROVE  Kept /\ Knowledge' = Knowledge /\ Vectors' = Vectors
  <1>1. Hosts' = Hosts /\ Ids' = Ids /\ Paths' = Paths
    BY DEF Hosts, Ids, Paths
  <1>2. Knowledge' = Knowledge /\ Vectors' = Vectors
    BY <1>1 DEF Knowledge, Vectors
  <1> QED
    BY <1>2 DEF Inv, Kept, EndsHold

LEMMA MoveKept ==
  ASSUME Inv, setup' = setup, NEW h \in Replicas,
         Moves(AllPaths, h, Knowledge, Vectors, Knowledge', Vectors')
  PROVE  Kept
  <1>1. Typed /\ Sound(AllPaths, Knowledge, Vectors) /\ Hosts \subseteq Replicas
    BY SetupFacts DEF Inv, Typed
  <1>2. Sound(AllPaths, Knowledge', Vectors')
    BY <1>1, MoveKeepsSound, ReplicasAssumption
  <1>3. Batches(Paths, Knowledge) \subseteq Batches(Paths, Knowledge')
    BY <1>1, BatchesGrow
  <1>4. ASSUME NEW i \in Ids, NEW g \in Hosts
        PROVE  Holds(Paths, Knowledge', Vectors', g, Other(i, g), end[i][g])
    BY <1>1, HoldsGrows DEF Inv, EndsHold
  <1> QED
    BY <1>2, <1>3, <1>4 DEF Kept
-----------------------------------------------------------------------------
\* Steps that record and merge: Scan, GoLive, Receive.

LEMMA AppliedMoves ==
  ASSUME Inv, setup' = setup, NEW h \in Hosts, NEW ps \in SUBSET Paths,
         NEW b \in Batches(Paths, Knowledge), NEW c \in VersionVector,
         \A r \in Replicas : c[r] <= Vectors[r][r], Brings(AllPaths, h, Knowledge, b, c),
         know' = [know EXCEPT ![h] = Joined(Recorded(h, @, ps), b)],
         vv' = [vv EXCEPT ![h] = MergeVV(OwnVV(h, ps), c)]
  PROVE  /\ Moves(AllPaths, h, Knowledge, Vectors, Knowledge', Vectors')
         /\ know' \in [Hosts -> [Paths -> VersionVector]] /\ vv' \in [Hosts -> VersionVector]
  <1>1. /\ Hosts' = Hosts /\ Paths' = Paths /\ Hosts \subseteq Replicas /\ Paths \subseteq AllPaths
        /\ AllPaths \subseteq Nat /\ IsFiniteSet(Paths) /\ h \in Replicas
    BY SetupFacts DEF Inv, Typed, Hosts, Paths
  <1>2. /\ Typed /\ Sound(AllPaths, Knowledge, Vectors)
        /\ know \in [Hosts -> [Paths -> VersionVector]] /\ vv \in [Hosts -> VersionVector]
    BY DEF Inv, Typed
  <1>3. CanMerge(AllPaths, h, Knowledge, Vectors, ps, b)
    <2>1. IsFiniteSet(ps)
      BY <1>1, FS_Subset
    <2>2. b \in Batches(AllPaths, Knowledge)
      BY <1>1 DEF Batches
    <2> QED
      BY <1>1, <1>2, <2>1, <2>2 DEF CanMerge, CanWrite
  <1>4. ASSUME NEW p \in Paths
        PROVE  know'[h][p] = WithBatch(h, Knowledge, Vectors, ps, b, p)
    <2>1. Knowledge[h][p] = know[h][p] /\ Vectors[h] = vv[h]
      BY <1>2, Readings
    <2>2. Recorded(h, know[h], ps)[p] = WithWrite(h, Knowledge, Vectors, ps, p)
      BY <2>1 DEF Recorded, WithWrite, Rank
    <2>3. know'[h] = Joined(Recorded(h, know[h], ps), b)
      BY <1>2
    <2> QED
      BY <2>2, <2>3 DEF Joined, WithBatch
  <1>5. Knowledge'[h] = [p \in AllPaths |-> WithBatch(h, Knowledge, Vectors, ps, b, p)]
    <2>1. ASSUME NEW p \in AllPaths
          PROVE  (IF p \in Paths THEN know'[h][p] ELSE NoVersions) = WithBatch(h, Knowledge, Vectors, ps, b, p)
      <3>1. CASE p \in Paths
        BY <1>4, <3>1
      <3>2. CASE p \notin Paths
        <4>1. p \notin ps /\ p \notin DOMAIN b
          BY <3>2 DEF Batches
        <4>2. Knowledge[h][p] = NoVersions
          BY <1>1, <1>2, <3>2, Readings
        <4> QED
          BY <3>2, <4>1, <4>2 DEF WithBatch, WithWrite
      <3> QED
        BY <3>1, <3>2
    <2>2. Knowledge'[h] = [p \in AllPaths |-> IF p \in Paths THEN know'[h][p] ELSE NoVersions]
      BY <1>1 DEF Knowledge
    <2> QED
      BY <2>1, <2>2
  <1>6. Vectors'[h] = MergeVV([Vectors[h] EXCEPT ![h] = @ + Cardinality(ps)], c) /\ Vectors'[h] = vv'[h]
    <2>1. Vectors[h] = vv[h]
      BY <1>2, Readings
    <2>2. vv'[h] = MergeVV(OwnVV(h, ps), c)
      BY <1>2
    <2> QED
      BY <1>1, <2>1, <2>2 DEF OwnVV, Vectors
  <1>7. /\ Knowledge' = [Knowledge EXCEPT ![h] = Knowledge'[h]]
        /\ Vectors' = [Vectors EXCEPT ![h] = Vectors'[h]]
    <2>1. \A g \in Hosts \ {h} : know'[g] = know[g] /\ vv'[g] = vv[g]
      BY <1>2
    <2>2. ASSUME NEW g \in Replicas, g # h
          PROVE  Knowledge'[g] = Knowledge[g] /\ Vectors'[g] = Vectors[g]
      BY <1>1, <2>1, <2>2 DEF Knowledge, Vectors
    <2>3. /\ DOMAIN Knowledge = Replicas /\ DOMAIN Knowledge' = Replicas
          /\ DOMAIN Vectors = Replicas /\ DOMAIN Vectors' = Replicas
      BY DEF Knowledge, Vectors
    <2>4. /\ Knowledge' = [g \in Replicas |-> Knowledge'[g]] /\ Vectors' = [g \in Replicas |-> Vectors'[g]]
      BY <1>1 DEF Knowledge, Vectors
    <2> QED
      BY <1>1, <2>2, <2>3, <2>4
  <1>8. Moves(AllPaths, h, Knowledge, Vectors, Knowledge', Vectors')
    BY <1>3, <1>5, <1>6, <1>7, MergeMoves
  <1>9. know' \in [Hosts -> [Paths -> VersionVector]]
    <2>1. \A p \in Paths : know'[h][p] \in VersionVector
      BY <1>1, <1>3, <1>4, BatchNumbers
    <2>2. know' = [know EXCEPT ![h] = [p \in Paths |-> know'[h][p]]]
      BY <1>2 DEF Joined
    <2> QED
      BY <1>2, <2>1, <2>2
  <1>10. vv' \in [Hosts -> VersionVector]
    <2>1. Vectors'[h] \in VersionVector
      BY <1>8 DEF Moves
    <2> QED
      BY <1>2, <1>6, <2>1
  <1> QED
    BY <1>8, <1>9, <1>10

\* Without an exchange nothing more is claimed.
LEMMA WrittenMoves ==
  ASSUME Inv, setup' = setup, NEW h \in Hosts, NEW ps \in SUBSET Paths,
         NEW b \in Batches(Paths, Knowledge),
         know' = [know EXCEPT ![h] = Joined(Recorded(h, @, ps), b)],
         vv' = [vv EXCEPT ![h] = OwnVV(h, ps)]
  PROVE  /\ Moves(AllPaths, h, Knowledge, Vectors, Knowledge', Vectors')
         /\ know' \in [Hosts -> [Paths -> VersionVector]] /\ vv' \in [Hosts -> VersionVector]
  <1>1. /\ Typed /\ Sound(AllPaths, Knowledge, Vectors) /\ AreVectors(AllPaths, Knowledge, Vectors)
        /\ vv \in [Hosts -> VersionVector] /\ h \in Replicas
    BY SetupFacts DEF Inv, Sound, Typed
  <1>2. NoVersions \in VersionVector /\ \A r \in Replicas : NoVersions[r] <= Vectors[r][r]
    BY <1>1, SoundNumbers, ReplicasAssumption DEF NoVersions, VersionVector
  <1>3. Brings(AllPaths, h, Knowledge, b, NoVersions)
    BY <1>1, SoundNumbers, ReplicasAssumption DEF Brings, NoVersions
  <1>4. MergeVV(OwnVV(h, ps), NoVersions) = OwnVV(h, ps)
    <2>1. Cardinality(ps) \in Nat
      BY SetupFacts, FS_Subset, FS_CardinalityType DEF Inv, Typed
    <2>2. OwnVV(h, ps) \in VersionVector
      BY <1>1, <2>1 DEF OwnVV, VersionVector
    <2> QED
      BY <2>2 DEF MergeVV, NoVersions, VersionVector
  <1>5. vv' = [vv EXCEPT ![h] = MergeVV(OwnVV(h, ps), NoVersions)]
    BY <1>4
  <1> QED
    BY <1>2, <1>3, <1>5, AppliedMoves

LEMMA OwnBatch ==
  ASSUME NEW P, NEW Q, Q \subseteq P, NEW k, NEW v, Sound(P, k, v), NEW h \in Replicas, NEW D \in SUBSET Q
  PROVE  [p \in D |-> k[h][p]] \in Batches(Q, k)
  <1>1. \A p \in D : k[h][p] \in VersionVector
    BY DEF Sound, AreVectors
  <1>2. \A p \in D, r \in Replicas : k[h][p][r] <= k[r][p][r]
    BY DEF Sound, WithinAuthors
  <1> QED
    BY <1>1, <1>2 DEF Batches

LEMMA ScanKeeps ==
  ASSUME Inv, NEW h \in Hosts, Scan(h)
  PROVE  Inv' /\ Moves(AllPaths, h, Knowledge, Vectors, Knowledge', Vectors')
  <1>1. /\ h \in Replicas /\ edited[h] \in SUBSET Paths /\ Paths \subseteq AllPaths /\ Typed
        /\ AreVectors(AllPaths, Knowledge, Vectors)
    BY SetupFacts, Readings DEF Inv, Typed
  <1>2. NoBatch \in Batches(Paths, Knowledge)
    BY <1>1, NothingHolds
  <1>3. Joined(Recorded(h, know[h], edited[h]), NoBatch) = Recorded(h, know[h], edited[h])
    BY DEF Joined, Recorded, NoBatch
  <1>4. know' = [know EXCEPT ![h] = Joined(Recorded(h, @, edited[h]), NoBatch)]
    BY <1>1, <1>3 DEF Scan, Typed
  <1>5. /\ Moves(AllPaths, h, Knowledge, Vectors, Knowledge', Vectors')
        /\ know' \in [Hosts -> [Paths -> VersionVector]] /\ vv' \in [Hosts -> VersionVector]
    BY <1>1, <1>2, <1>4, WrittenMoves DEF Scan
  <1>6. Kept
    BY <1>1, <1>5, MoveKept DEF Scan
  <1>7. Typed'
    BY <1>1, <1>5 DEF Scan, Typed, Hosts, Paths, Ids, IsStream
  <1>8. [p \in edited[h] |-> Recorded(h, know[h], edited[h])[p]] \in Batches(Paths, Knowledge')
    <2>1. Recorded(h, know[h], edited[h]) = know'[h] /\ Hosts' = Hosts /\ Paths' = Paths
      BY <1>1 DEF Scan, Typed, Hosts, Paths
    <2>2. \A p \in Paths : know'[h][p] = Knowledge'[h][p]
      BY <1>1, <2>1 DEF Knowledge
    <2>3. [p \in edited[h] |-> Recorded(h, know[h], edited[h])[p]] = [p \in edited[h] |-> Knowledge'[h][p]]
      BY <1>1, <2>1, <2>2
    <2>4. Sound(AllPaths, Knowledge', Vectors')
      BY <1>6 DEF Kept
    <2> QED
      BY <1>1, <2>3, <2>4, OwnBatch
  <1>9. ASSUME NEW g \in Hosts, NEW o \in outgoing'[g]
        PROVE  o \in outgoing[g] \/ o.batch \in Batches(Paths, Knowledge')
    <2> DEFINE own == [batch |-> [p \in edited[h] |-> Recorded(h, know[h], edited[h])[p]], source |-> NoDevice]
    <2>1. outgoing' = [outgoing EXCEPT ![h] = @ \cup {own}]
      BY DEF Scan
    <2>2. own.batch \in Batches(Paths, Knowledge')
      BY <1>8
    <2> HIDE DEF own
    <2> QED
      BY <1>1, <1>9, <2>1, <2>2 DEF Typed
  <1>10. end' = end /\ stream' = stream
    BY DEF Scan
  <1>11. Inv'
    BY <1>6, <1>7, <1>9, <1>10, KeptKeeps DEF Other
  <1> QED
    BY <1>5, <1>11
-----------------------------------------------------------------------------
\* What is done to an end leaves it good.

LEMMA OverHolds ==
  ASSUME NEW k, NEW v, AreVectors(AllPaths, k, v), NEW h \in Replicas, NEW y, NEW e,
         Holds(Paths, k, v, h, y, e)
  PROVE  /\ Holds(Paths, k, v, h, y, Over(e))
         /\ Holds(Paths, k, v, h, y, [Over(e) EXCEPT !.task = "none"])
  <1>1. Holds(Paths, k, v, h, y, NoEnd)
    BY NothingHolds
  <1>2. Holds(Paths, k, v, h, y, Over(e))
    BY <1>1 DEF Holds, Over, NoEnd
  <1>3. Holds(Paths, k, v, h, y, [Over(e) EXCEPT !.task = "none"])
    BY <1>2 DEF Holds, NoEnd
  <1> QED
    BY <1>2, <1>3

LEMMA PushHolds ==
  ASSUME NEW P, NEW k, NEW v, NEW h, NEW y, NEW e, Holds(P, k, v, h, y, e), NEW b \in Batches(P, k)
  PROVE  Holds(P, k, v, h, y, [e EXCEPT !.inbox = Append(@, b)])
  <1>1. Append(e.inbox, b) \in Seq(Batches(P, k))
    BY SequenceOps DEF Holds
  <1> QED
    BY <1>1 DEF Holds, NoEnd

LEMMA AnnounceHolds ==
  ASSUME setup \in DOMAIN Setups, NEW P, NEW k, NEW v, NEW h, NEW y, NEW e, Holds(P, k, v, h, y, e),
         NEW b \in Batches(P, k)
  PROVE  Holds(P, k, v, h, y, Announce(e, b))
  <1> DEFINE queue == Setups[setup].queue
             rest == IF Len(e.heard) = queue THEN Tail(e.heard) ELSE e.heard
  <1>1. queue \in Nat \ {0}
    BY LivePeersAssumption DEF IsSetup
  <1>2. e.heard \in Seq(Batches(P, k))
    BY DEF Holds
  <1>3. rest \in Seq(Batches(P, k))
    BY <1>1, <1>2, SequenceOps
  <1>4. Append(rest, b) \in Seq(Batches(P, k))
    BY <1>3, SequenceOps
  <1>5. CASE ~e.subscribed
    BY <1>5 DEF Announce
  <1>6. CASE e.subscribed
    <2>1. Announce(e, b) = [e EXCEPT !.heard = Append(rest, b)]
      BY <1>6 DEF Announce, Holds, NoEnd
    <2> HIDE DEF rest
    <2> QED
      BY <2>1, <1>4 DEF Holds, NoEnd
  <1> QED
    BY <1>5, <1>6

LEMMA TakenHolds ==
  ASSUME NEW P, NEW k, NEW v, NEW h, NEW y, NEW e, Holds(P, k, v, h, y, e), e.inbox # <<>>, NEW c
  PROVE  /\ Head(e.inbox) \in Batches(P, k)
         /\ Holds(P, k, v, h, y, [e EXCEPT !.inbox = Tail(@), !.peerVV = c])
  <1>1. Tail(e.inbox) \in Seq(Batches(P, k)) /\ Head(e.inbox) \in Batches(P, k)
    BY SequenceOps DEF Holds
  <1> QED
    BY <1>1 DEF Holds, NoEnd

LEMMA WaitHolds ==
  ASSUME NEW P, NEW k, NEW v, NEW h, NEW y, NEW e, Holds(P, k, v, h, y, e), NEW b \in Batches(P, k)
  PROVE  Holds(P, k, v, h, y, [e EXCEPT !.waiting = @ \cup {b}])
  BY DEF Holds, NoEnd
-----------------------------------------------------------------------------
\* The steps of a stream.

\* The two ends of a stream are each other's, and of hosts.
LEMMA OtherFacts ==
  ASSUME Typed, NEW i \in Ids, NEW h \in Hosts, h \in EndsOf(i)
  PROVE  /\ Other(i, h) \in Hosts /\ Other(i, Other(i, h)) = h
         /\ h \in Replicas /\ Other(i, h) \in Replicas
  <1>1. Hosts \subseteq Replicas /\ NoDevice \notin Hosts
    BY SetupFacts DEF Typed
  <1>2. {stream[i].from, stream[i].to} \subseteq Hosts \/ (stream[i].from = NoDevice /\ stream[i].to = NoDevice)
    BY DEF Typed, IsStream
  <1> QED
    BY <1>1, <1>2 DEF EndsOf, Other

\* A stream that breaks still runs between the same hosts.
LEMMA BrokenKeepsEnds ==
  ASSUME Typed, stream' = stream \/ \E j \in Ids : stream' = [stream EXCEPT ![j].broken = TRUE]
  PROVE  DOMAIN stream' = Ids
         /\ \A j \in Ids : /\ IsStream(stream'[j])
                          /\ stream'[j].from = stream[j].from /\ stream'[j].to = stream[j].to
  BY DEF Typed, IsStream

\* A step that changes one end, and whether streams are broken.
LEMMA OneEndKeeps ==
  ASSUME Inv, Kept, NEW i \in Ids, NEW h \in Hosts, NEW e, end' = [end EXCEPT ![i][h] = e],
         Holds(Paths, Knowledge', Vectors', h, Other(i, h), e),
         edited' \in [Hosts -> SUBSET Paths],
         know' \in [Hosts -> [Paths -> VersionVector]], vv' \in [Hosts -> VersionVector],
         stream' = stream \/ \E j \in Ids : stream' = [stream EXCEPT ![j].broken = TRUE],
         DOMAIN outgoing' = Hosts,
         \A g \in Hosts : \A o \in outgoing'[g] :
           o \in outgoing[g] \/ o.batch \in Batches(Paths, Knowledge')
  PROVE  Inv'
  <1>1. Hosts' = Hosts /\ Ids' = Ids /\ Paths' = Paths /\ Typed
    BY DEF Kept, Hosts, Ids, Paths, Inv
  <1>2. DOMAIN stream' = Ids
        /\ \A j \in Ids : /\ IsStream(stream'[j])
                         /\ stream'[j].from = stream[j].from /\ stream'[j].to = stream[j].to
    BY <1>1, BrokenKeepsEnds
  <1>3. \A j \in Ids, g \in Hosts : Other(j, g)' = Other(j, g)
    BY <1>2 DEF Other
  <1>4. DOMAIN end' = Ids /\ \A j \in Ids : DOMAIN end'[j] = Hosts
    BY <1>1 DEF Typed
  <1>5. Typed'
    BY <1>1, <1>2, <1>4 DEF Typed, Kept, IsStream
  <1>6. ASSUME NEW j \in Ids, NEW g \in Hosts
        PROVE  end'[j][g] = end[j][g] \/ (j = i /\ g = h /\ end'[j][g] = e)
    BY <1>1 DEF Typed
  <1> QED
    BY <1>3, <1>5, <1>6, KeptKeeps

LEMMA ReceiveKeeps ==
  ASSUME Inv, NEW i \in Ids, NEW h \in Hosts, Receive(i, h)
  PROVE  Inv' /\ Moves(AllPaths, h, Knowledge, Vectors, Knowledge', Vectors')
  <1> DEFINE b == Head(end[i][h].inbox)
             ps == edited[h] \cap DOMAIN b
             vvs == [r \in Replicas |-> LET ns == {b[p][r] : p \in DOMAIN b} \cup {end[i][h].peerVV[r]}
                                       IN CHOOSE n \in ns : \A m \in ns : m <= n]
             e == [end[i][h] EXCEPT !.inbox = Tail(@), !.peerVV = vvs]
             slow == \E p \in DOMAIN b \cap Large : ~Covers(know[h][p], b[p])
             after == IF slow THEN [e EXCEPT !.waiting = @ \cup {b}] ELSE Announce(e, b)
  <1>1. Typed /\ h \in Replicas /\ edited \in [Hosts -> SUBSET Paths] /\ setup \in DOMAIN Setups
    BY SetupFacts DEF Inv, Typed
  <1>2. end[i][h].inbox # <<>> /\ Holds(Paths, Knowledge, Vectors, h, Other(i, h), end[i][h])
    BY DEF Receive, Inv, EndsHold
  <1>3. b \in Batches(Paths, Knowledge) /\ ps \in SUBSET Paths
    BY <1>1, <1>2, TakenHolds
  <1>4. end' = [end EXCEPT ![i][h] = after]
    BY DEF Receive
  <1>5. /\ know' = [know EXCEPT ![h] = Joined(Recorded(h, @, ps), b)]
        /\ vv' = [vv EXCEPT ![h] = OwnVV(h, ps)] /\ edited' = [edited EXCEPT ![h] = @ \ ps]
        /\ setup' = setup /\ stream' = stream /\ outgoing' = outgoing
    BY DEF Receive, Apply
  <1> HIDE DEF b, ps, vvs, slow
  <1>6. /\ Moves(AllPaths, h, Knowledge, Vectors, Knowledge', Vectors')
        /\ know' \in [Hosts -> [Paths -> VersionVector]] /\ vv' \in [Hosts -> VersionVector]
    BY <1>3, <1>5, WrittenMoves
  <1>7. Kept
    BY <1>1, <1>5, <1>6, MoveKept
  <1>8. Holds(Paths, Knowledge', Vectors', h, Other(i, h), end[i][h])
        /\ b \in Batches(Paths, Knowledge')
    BY <1>3, <1>7 DEF Kept
  <1>9. Holds(Paths, Knowledge', Vectors', h, Other(i, h), e)
    BY <1>2, <1>8, TakenHolds
  <1> HIDE DEF e
  <1>10. Holds(Paths, Knowledge', Vectors', h, Other(i, h), after)
    BY <1>1, <1>8, <1>9, WaitHolds, AnnounceHolds
  <1> HIDE DEF after
  <1>11. edited' \in [Hosts -> SUBSET Paths] /\ DOMAIN outgoing' = Hosts
    BY <1>1, <1>5 DEF Typed
  <1>12. Inv'
    BY <1>4, <1>5, <1>6, <1>7, <1>10, <1>11, OneEndKeeps
  <1> QED
    BY <1>6, <1>12

LEMMA GoLiveKeeps ==
  ASSUME Inv, NEW i \in Ids, NEW h \in Hosts, h \in EndsOf(i), GoLive(i, h)
  PROVE  Inv' /\ Moves(AllPaths, h, Knowledge, Vectors, Knowledge', Vectors')
  <1> DEFINE y == Other(i, h)
             peer == end[i][y]
             ps == edited[h] \cap DOMAIN peer.delta
             mine == [end[i][h] EXCEPT !.pc = "live", !.task = "insert", !.peerVV = PeerVVAtLive(i, h)]
             done(e) == [e EXCEPT !.said = NoVersions, !.sent = NoVersions, !.delta = NoBatch]
  <1>1. /\ Typed /\ edited \in [Hosts -> SUBSET Paths] /\ setup \in DOMAIN Setups
        /\ h \in Replicas /\ y \in Hosts /\ y \in Replicas /\ Other(i, y) = h
    BY OtherFacts DEF Inv, Typed
  <1>2. /\ Holds(Paths, Knowledge, Vectors, h, y, end[i][h]) /\ Holds(Paths, Knowledge, Vectors, y, h, peer)
        /\ end[i][h].pc = "offered" /\ peer.pc \in {"offered", "live"}
    BY <1>1 DEF GoLive, Inv, EndsHold
  <1>3. /\ peer.delta \in Batches(Paths, Knowledge) /\ ps \in SUBSET Paths
        /\ peer.said \in VersionVector /\ Brings(AllPaths, h, Knowledge, peer.delta, peer.said)
        /\ \A r \in Replicas : peer.said[r] <= Vectors[y][r]
    BY <1>1, <1>2 DEF Holds
  <1>4. ASSUME NEW r \in Replicas PROVE peer.said[r] <= Vectors[r][r]
    <2>1. Vectors[y][r] <= Vectors[r][r] /\ AreVectors(AllPaths, Knowledge, Vectors)
      BY <1>1 DEF Inv, Sound, WithinAuthors
    <2>2. peer.said[r] \in Nat /\ Vectors[y][r] \in Nat /\ Vectors[r][r] \in Nat
      BY <1>1, <1>3, <2>1, SoundNumbers, ReplicasAssumption DEF VersionVector
    <2> QED
      BY <1>3, <2>1, <2>2
  <1>5. /\ know' = [know EXCEPT ![h] = Joined(Recorded(h, @, ps), peer.delta)]
        /\ vv' = [vv EXCEPT ![h] = MergeVV(OwnVV(h, ps), peer.said)]
        /\ edited' = [edited EXCEPT ![h] = @ \ ps]
        /\ setup' = setup /\ stream' = stream /\ outgoing' = outgoing
    BY DEF GoLive, Apply, Claimed
  <1>6. end' = [end EXCEPT ![i] = IF peer.pc = "offered" THEN [@ EXCEPT ![h] = mine]
                                  ELSE [@ EXCEPT ![h] = done(mine), ![y] = done(peer)]]
    BY DEF GoLive
  <1> HIDE DEF ps, y, peer
  <1>7. /\ Moves(AllPaths, h, Knowledge, Vectors, Knowledge', Vectors')
        /\ know' \in [Hosts -> [Paths -> VersionVector]] /\ vv' \in [Hosts -> VersionVector]
    BY <1>3, <1>4, <1>5, AppliedMoves
  <1>8. Kept
    BY <1>1, <1>5, <1>7, MoveKept
  <1>9. Holds(Paths, Knowledge', Vectors', h, y, end[i][h]) /\ Holds(Paths, Knowledge', Vectors', y, h, peer)
    BY <1>1, <1>8 DEF Kept, y, peer
  <1>10. Holds(Paths, Knowledge', Vectors', h, y, mine)
    BY <1>1, <1>2, <1>9 DEF Holds, NoEnd
  <1>11. ASSUME NEW g \in Replicas, NEW z \in Replicas, NEW e, Holds(Paths, Knowledge', Vectors', g, z, e)
         PROVE  Holds(Paths, Knowledge', Vectors', g, z, done(e))
    <2>1. AreVectors(AllPaths, Knowledge', Vectors')
      BY <1>8 DEF Kept, Sound
    <2>2. Holds(Paths, Knowledge', Vectors', g, z, NoEnd)
      BY <2>1, NothingHolds
    <2>3. Brings(AllPaths, z, Knowledge', NoBatch, NoVersions)
      BY <1>8, <2>1, SoundNumbers, ReplicasAssumption DEF Kept, Sound, WithinAuthors, Brings, NoVersions
    <2> QED
      BY <1>11, <2>2, <2>3 DEF Holds, NoEnd
  <1> HIDE DEF mine
  <1>12. Holds(Paths, Knowledge', Vectors', h, y, done(mine)) /\ Holds(Paths, Knowledge', Vectors', y, h, done(peer))
    BY <1>1, <1>9, <1>10, <1>11
  <1> HIDE DEF done
  <1>13. DOMAIN end' = Ids /\ \A j \in Ids : DOMAIN end'[j] = Hosts
    BY <1>1, <1>6 DEF Typed
  <1>14. ASSUME NEW j \in Ids, NEW g \in Hosts
         PROVE  end'[j][g] = end[j][g] \/ Holds(Paths, Knowledge', Vectors', g, Other(j, g), end'[j][g])
    <2>1. CASE j # i \/ g \notin {h, y}
      BY <1>1, <1>6, <2>1 DEF Typed
    <2>2. CASE j = i /\ g \in {h, y}
      BY <1>1, <1>6, <1>10, <1>12, <2>2 DEF Typed, y
    <2> QED
      BY <2>1, <2>2
  <1>15. Typed'
    BY <1>1, <1>5, <1>7, <1>13 DEF Typed, Hosts, Paths, Ids, IsStream
  <1>16. Inv'
    BY <1>5, <1>8, <1>14, <1>15, KeptKeeps DEF Other
  <1> QED
    BY <1>7, <1>16
-----------------------------------------------------------------------------
\* Steps that leave what is known.
Quiet == UNCHANGED <<setup, know, vv>>

LEMMA QuietEnd ==
  ASSUME Inv, Quiet, NEW i \in Ids, NEW h \in Hosts, NEW e, end' = [end EXCEPT ![i][h] = e],
         Holds(Paths, Knowledge, Vectors, h, Other(i, h), e), edited' = edited,
         stream' = stream \/ \E j \in Ids : stream' = [stream EXCEPT ![j].broken = TRUE],
         DOMAIN outgoing' = Hosts,
         \A g \in Hosts : \A o \in outgoing'[g] :
           o \in outgoing[g] \/ o.batch \in Batches(Paths, Knowledge)
  PROVE  Inv'
  <1>1. Kept /\ Knowledge' = Knowledge /\ Vectors' = Vectors
    BY QuietKept DEF Quiet
  <1>2. /\ edited' \in [Hosts -> SUBSET Paths]
        /\ know' \in [Hosts -> [Paths -> VersionVector]] /\ vv' \in [Hosts -> VersionVector]
    BY DEF Quiet, Inv, Typed
  <1> QED
    BY <1>1, <1>2, OneEndKeeps

\* The same, of a step that tells nobody anything.
LEMMA SilentEnd ==
  ASSUME Inv, Quiet, NEW i \in Ids, NEW h \in Hosts, NEW e, end' = [end EXCEPT ![i][h] = e],
         Holds(Paths, Knowledge, Vectors, h, Other(i, h), e), UNCHANGED <<edited, outgoing>>,
         stream' = stream \/ \E j \in Ids : stream' = [stream EXCEPT ![j].broken = TRUE]
  PROVE  Inv'
  <1>1. DOMAIN outgoing' = Hosts /\ \A g \in Hosts : outgoing'[g] = outgoing[g]
    BY DEF Inv, Typed
  <1> QED
    BY <1>1, QuietEnd

LEMMA AcceptKeeps ==
  ASSUME Inv, NEW i \in Ids, NEW h \in Hosts, Accept(i, h)
  PROVE  Inv'
  <1> DEFINE e == [end[i][h] EXCEPT !.pc = "hello", !.said = vv[h]]
  <1>1. Holds(Paths, Knowledge, Vectors, h, Other(i, h), end[i][h]) /\ Typed /\ h \in Replicas
    BY SetupFacts DEF Inv, EndsHold, Typed
  <1>2. vv[h] \in VersionVector /\ vv[h] = Vectors[h]
    BY <1>1, Readings DEF Typed
  <1>3. Holds(Paths, Knowledge, Vectors, h, Other(i, h), e)
    BY <1>1, <1>2 DEF Holds, NoEnd, VersionVector
  <1>4. end' = [end EXCEPT ![i][h] = e]
    BY <1>1 DEF Accept, Holds, NoEnd, Typed
  <1> QED
    BY <1>3, <1>4, SilentEnd DEF Accept, Quiet, replicas

LEMMA SkipKeeps ==
  ASSUME Inv, NEW i \in Ids, NEW h \in Hosts, Skip(i, h)
  PROVE  Inv'
  <1> DEFINE e == [end[i][h] EXCEPT !.pc = "gone"]
  <1>1. Holds(Paths, Knowledge, Vectors, h, Other(i, h), end[i][h]) /\ Typed
    BY DEF Inv, EndsHold
  <1>2. Holds(Paths, Knowledge, Vectors, h, Other(i, h), e)
    BY <1>1 DEF Holds, NoEnd
  <1>3. end' = [end EXCEPT ![i][h] = e]
    BY <1>1 DEF Skip, Typed
  <1> QED
    BY <1>2, <1>3, SilentEnd DEF Skip, Quiet, replicas

\* The pages bring all that their host had said and the other end lacks: what the host covers it
\* has, and what it leaves out the other end has said that it has.
LEMMA OfferKeeps ==
  ASSUME Inv, NEW i \in Ids, NEW h \in Hosts, h \in EndsOf(i), Offer(i, h)
  PROVE  Inv'
  <1> DEFINE y == Other(i, h)
             theirs == end[i][y].said
             lacking == {p \in Paths : ~Covers(theirs, know[h][p])}
             delta == [p \in lacking |-> Knowledge[h][p]]
             e == [end[i][h] EXCEPT !.pc = "offered", !.sent = vv[h], !.delta = delta]
  <1>1. /\ Typed /\ Paths \subseteq AllPaths /\ h \in Replicas /\ y \in Hosts /\ y \in Replicas
        /\ Sound(AllPaths, Knowledge, Vectors)
    BY OtherFacts, SetupFacts DEF Inv, Typed
  <1>2. Holds(Paths, Knowledge, Vectors, h, y, end[i][h])
        /\ Holds(Paths, Knowledge, Vectors, y, Other(i, y), end[i][y])
    BY <1>1 DEF Inv, EndsHold
  <1>3. delta = DeltaFor(h, theirs)
    BY <1>1, Readings DEF DeltaFor
  <1>4. delta \in Batches(Paths, Knowledge)
    BY <1>1, OwnBatch
  <1>5. Brings(AllPaths, y, Knowledge, delta, end[i][h].said)
    <2>1. SUFFICES ASSUME NEW p \in AllPaths, NEW r \in Replicas, Knowledge[r][p][r] <= end[i][h].said[r]
                   PROVE  \/ Knowledge[r][p][r] <= Knowledge[y][p][r]
                          \/ p \in DOMAIN delta /\ Knowledge[r][p][r] <= delta[p][r]
      BY DEF Brings
    <2>2. /\ \A g, x \in Replicas : Vectors[g][x] \in Nat /\ Knowledge[g][p][x] \in Nat
          /\ end[i][h].said[r] \in Nat /\ theirs[r] \in Nat
      BY <1>1, <1>2, SoundNumbers, ReplicasAssumption DEF Sound, Holds, VersionVector
    <2>3. end[i][h].said[r] <= Vectors[h][r] /\ theirs[r] <= Vectors[y][r]
      BY <1>2 DEF Holds
    <2>4. Knowledge[h][p][r] = Knowledge[r][p][r]
      <3>1. Knowledge[r][p][r] <= Vectors[h][r]
        BY <2>1, <2>2, <2>3, <1>1
      <3> QED
        BY <3>1, <1>1 DEF Sound, TrueClaims
    <2>5. CASE p \notin Paths
      BY <1>1, <2>2, <2>5, Readings DEF NoVersions
    <2>6. CASE p \in lacking
      BY <2>2, <2>4, <2>6, <1>1
    <2>7. CASE p \in Paths /\ Covers(theirs, know[h][p])
      <3>1. Knowledge[r][p][r] <= theirs[r]
        BY <1>1, <2>2, <2>4, <2>7, Readings DEF Covers
      <3>2. Knowledge[r][p][r] <= Vectors[y][r]
        BY <1>1, <2>2, <2>3, <3>1
      <3>3. Knowledge[y][p][r] = Knowledge[r][p][r]
        BY <1>1, <3>2 DEF Sound, TrueClaims
      <3> QED
        BY <1>1, <2>2, <3>3
    <2> QED
      BY <2>5, <2>6, <2>7
  <1>6. end' = [end EXCEPT ![i][h] = e]
    BY <1>1, <1>2, <1>3 DEF Offer, Holds, NoEnd, Typed
  <1> HIDE DEF delta
  <1>7. Holds(Paths, Knowledge, Vectors, h, y, e)
    BY <1>1, <1>2, <1>4, <1>5 DEF Holds, NoEnd
  <1> QED
    BY <1>6, <1>7, SilentEnd DEF Offer, Quiet, replicas

LEMMA AnsweredKeeps ==
  ASSUME Inv, NEW i \in Ids, NEW h \in Hosts, Answered(i, h)
  PROVE  Inv'
  <1>0. PICK b \in end[i][h].waiting :
          end' = [end EXCEPT ![i][h] = Announce([end[i][h] EXCEPT !.waiting = @ \ {b}], b)]
    BY DEF Answered
  <1> DEFINE e == [end[i][h] EXCEPT !.waiting = @ \ {b}]
  <1>1. Holds(Paths, Knowledge, Vectors, h, Other(i, h), end[i][h]) /\ Typed /\ setup \in DOMAIN Setups
    BY DEF Inv, EndsHold, Typed
  <1>2. b \in Batches(Paths, Knowledge)
    BY <1>1 DEF Holds
  <1>3. Holds(Paths, Knowledge, Vectors, h, Other(i, h), e)
    BY <1>1 DEF Holds, NoEnd
  <1>4. end' = [end EXCEPT ![i][h] = Announce(e, b)]
    BY <1>0
  <1> HIDE DEF e
  <1>5. Holds(Paths, Knowledge, Vectors, h, Other(i, h), Announce(e, b))
    BY <1>1, <1>2, <1>3, AnnounceHolds
  <1> QED
    BY <1>4, <1>5, SilentEnd DEF Answered, Quiet, replicas

LEMMA ForwardKeeps ==
  ASSUME Inv, NEW i \in Ids, NEW h \in Hosts, Forward(i, h)
  PROVE  Inv'
  <1> DEFINE e == [end[i][h] EXCEPT !.heard = Tail(@)]
             o == [batch |-> Head(end[i][h].heard), source |-> Other(i, h)]
  <1>1. Holds(Paths, Knowledge, Vectors, h, Other(i, h), end[i][h]) /\ Typed /\ end[i][h].heard # <<>>
    BY DEF Inv, EndsHold, Forward
  <1>2. Tail(end[i][h].heard) \in Seq(Batches(Paths, Knowledge))
        /\ Head(end[i][h].heard) \in Batches(Paths, Knowledge)
    BY <1>1, SequenceOps DEF Holds
  <1>3. Holds(Paths, Knowledge, Vectors, h, Other(i, h), e)
    BY <1>1, <1>2 DEF Holds, NoEnd
  <1>4. end' = [end EXCEPT ![i][h] = e]
    BY <1>1 DEF Forward, Typed
  <1>5. outgoing' = [outgoing EXCEPT ![h] = @ \cup {o}] /\ o.batch \in Batches(Paths, Knowledge)
    BY <1>2 DEF Forward
  <1> HIDE DEF o
  <1>6. DOMAIN outgoing' = Hosts /\ \A g \in Hosts : outgoing'[g] \subseteq outgoing[g] \cup {o}
    BY <1>1, <1>5 DEF Typed
  <1> QED
    BY <1>3, <1>4, <1>5, <1>6, QuietEnd DEF Forward, Quiet, replicas

LEMMA NoticeKeeps ==
  ASSUME Inv, NEW i \in Ids, NEW h \in Hosts, Notice(i, h)
  PROVE  Inv'
  <1>1. /\ Holds(Paths, Knowledge, Vectors, h, Other(i, h), end[i][h]) /\ Typed /\ h \in Replicas
        /\ AreVectors(AllPaths, Knowledge, Vectors)
    BY SetupFacts DEF Inv, EndsHold, Typed, Sound
  <1>2. Holds(Paths, Knowledge, Vectors, h, Other(i, h), Over(end[i][h]))
    BY <1>1, OverHolds
  <1>3. end' = [end EXCEPT ![i][h] = Over(end[i][h])]
    BY <1>1 DEF Notice, Typed
  <1> QED
    BY <1>2, <1>3, SilentEnd DEF Notice, Quiet, replicas

\* Steps that change several ends: each is as it was or good.
LEMMA QuietEnds ==
  ASSUME Inv, Quiet, edited' \in [Hosts -> SUBSET Paths], DOMAIN outgoing' = Hosts,
         \A h \in Hosts : outgoing'[h] \subseteq outgoing[h],
         DOMAIN stream' = Ids, \A i \in Ids : IsStream(stream'[i]),
         DOMAIN end' = Ids, \A i \in Ids : DOMAIN end'[i] = Hosts,
         \A i \in Ids, h \in Hosts :
           \/ end'[i][h] = end[i][h] /\ Other(i, h)' = Other(i, h)
           \/ Holds(Paths, Knowledge, Vectors, h, Other(i, h)', end'[i][h])
  PROVE  Inv'
  <1>1. Kept /\ Knowledge' = Knowledge /\ Vectors' = Vectors
    BY QuietKept DEF Quiet
  <1>2. Hosts' = Hosts /\ Ids' = Ids /\ Paths' = Paths
    BY DEF Quiet, Hosts, Ids, Paths
  <1>3. Typed'
    BY <1>2 DEF Inv, Typed, Quiet, IsStream
  <1> QED
    BY <1>1, <1>3, KeptKeeps

\* A step that changes no end and no batch.
LEMMA NothingTold ==
  ASSUME Inv, Quiet, edited' \in [Hosts -> SUBSET Paths], UNCHANGED <<outgoing, end>>,
         stream' = stream \/ \E j \in Ids : stream' = [stream EXCEPT ![j].broken = TRUE]
  PROVE  Inv'
  <1>1. DOMAIN stream' = Ids
        /\ \A j \in Ids : /\ IsStream(stream'[j])
                         /\ stream'[j].from = stream[j].from /\ stream'[j].to = stream[j].to
    BY BrokenKeepsEnds DEF Inv
  <1>2. \A j \in Ids, g \in Hosts : Other(j, g)' = Other(j, g)
    BY <1>1 DEF Other
  <1>3. /\ DOMAIN outgoing' = Hosts /\ DOMAIN end' = Ids /\ \A i \in Ids : DOMAIN end'[i] = Hosts
    BY DEF Inv, Typed
  <1> QED
    BY <1>1, <1>2, <1>3, QuietEnds

\* A stream breaks at several places: its ends are over.
LEMMA OverKeeps ==
  ASSUME Inv, Quiet, UNCHANGED <<edited, outgoing>>,
         DOMAIN stream' = Ids, DOMAIN end' = Ids, \A i \in Ids : DOMAIN end'[i] = Hosts,
         \A i \in Ids : stream'[i] = stream[i] \/ stream'[i] = [stream[i] EXCEPT !.broken = TRUE],
         \A i \in Ids, h \in Hosts :
           \/ end'[i][h] = end[i][h] \/ end'[i][h] = Over(end[i][h])
           \/ Holds(Paths, Knowledge, Vectors, h, Other(i, h), end'[i][h])
  PROVE  Inv'
  <1>1. Typed /\ Hosts \subseteq Replicas /\ AreVectors(AllPaths, Knowledge, Vectors)
    BY SetupFacts DEF Inv, Typed, Sound
  <1>2. ASSUME NEW i \in Ids
        PROVE  IsStream(stream'[i]) /\ stream'[i].from = stream[i].from /\ stream'[i].to = stream[i].to
    BY <1>1 DEF Typed, IsStream
  <1>4. \A i \in Ids, h \in Hosts : Other(i, h)' = Other(i, h)
    BY <1>2 DEF Other
  <1>6. ASSUME NEW i \in Ids, NEW h \in Hosts
        PROVE  Holds(Paths, Knowledge, Vectors, h, Other(i, h), Over(end[i][h]))
    BY <1>1, OverHolds DEF Inv, EndsHold
  <1>7. edited' \in [Hosts -> SUBSET Paths] /\ DOMAIN outgoing' = Hosts
        /\ \A h \in Hosts : outgoing'[h] \subseteq outgoing[h]
    BY <1>1 DEF Typed
  <1>8. \A i \in Ids, h \in Hosts :
          \/ end'[i][h] = end[i][h] /\ Other(i, h)' = Other(i, h)
          \/ Holds(Paths, Knowledge, Vectors, h, Other(i, h)', end'[i][h])
    BY <1>4, <1>6
  <1> QED
    BY <1>2, <1>7, <1>8, QuietEnds

LEMMA InsertKeeps ==
  ASSUME Inv, NEW i \in Ids, NEW h \in Hosts, Insert(i, h)
  PROVE  Inv'
  <1> DEFINE old == sessions[h][Other(i, h)]
             drop == IF old \in Ids \ {i} THEN {old} ELSE {}
             kept == [end[i][h] EXCEPT !.task = "catch_up", !.subscribed = TRUE]
             lost == [Over(end[i][h]) EXCEPT !.task = "none"]
  <1>1. /\ Typed /\ Holds(Paths, Knowledge, Vectors, h, Other(i, h), end[i][h]) /\ h \in Replicas
        /\ AreVectors(AllPaths, Knowledge, Vectors)
        /\ Quiet /\ UNCHANGED <<edited, outgoing>>
    BY SetupFacts DEF Inv, EndsHold, Typed, Sound, Insert, Quiet, replicas
  <1>2. Holds(Paths, Knowledge, Vectors, h, Other(i, h), kept)
    BY <1>1 DEF Holds, NoEnd
  <1>3. Holds(Paths, Knowledge, Vectors, h, Other(i, h), lost)
    BY <1>1, OverHolds
  <1>4. CASE Keeps(i, h) /\ end' = [j \in Ids |->
               IF j = i THEN [end[i] EXCEPT ![h].task = "catch_up", ![h].subscribed = TRUE]
               ELSE IF j \in drop THEN [end[j] EXCEPT ![h] = Over(@)] ELSE end[j]]
             /\ stream' = [j \in Ids |-> IF j \in drop THEN [stream[j] EXCEPT !.broken = TRUE] ELSE stream[j]]
    <2>1. [end[i] EXCEPT ![h].task = "catch_up", ![h].subscribed = TRUE] = [end[i] EXCEPT ![h] = kept]
      BY <1>1 DEF Typed, Holds, NoEnd
    <2>2. /\ end'[i] = [end[i] EXCEPT ![h] = kept]
          /\ \A j \in Ids \ {i} : end'[j] = end[j] \/ end'[j] = [end[j] EXCEPT ![h] = Over(@)]
          /\ DOMAIN end' = Ids
      BY <1>4, <2>1
    <2>3. /\ DOMAIN stream' = Ids
          /\ \A j \in Ids : stream'[j] = stream[j] \/ stream'[j] = [stream[j] EXCEPT !.broken = TRUE]
      BY <1>4
    <2> HIDE DEF kept
    <2>4. \A j \in Ids : DOMAIN end'[j] = Hosts
      BY <1>1, <2>2 DEF Typed
    <2>5. ASSUME NEW j \in Ids, NEW g \in Hosts
          PROVE  \/ end'[j][g] = end[j][g] \/ end'[j][g] = Over(end[j][g])
                 \/ Holds(Paths, Knowledge, Vectors, g, Other(j, g), end'[j][g])
      <3>1. CASE j = i
        BY <1>1, <1>2, <2>2, <3>1 DEF Typed
      <3>2. CASE j # i
        BY <1>1, <2>2, <3>2 DEF Typed
      <3> QED
        BY <3>1, <3>2
    <2> QED
      BY <1>1, <2>2, <2>3, <2>4, <2>5, OverKeeps
  <1>5. CASE end' = [end EXCEPT ![i][h] = [Over(@) EXCEPT !.task = "none"]]
             /\ stream' = [stream EXCEPT ![i].broken = TRUE]
    <2>1. end' = [end EXCEPT ![i][h] = lost]
      BY <1>1, <1>5 DEF Typed
    <2> HIDE DEF lost
    <2> QED
      BY <1>1, <1>3, <1>5, <2>1, SilentEnd
  <1> QED
    BY <1>4, <1>5 DEF Insert

LEMMA CatchUpKeeps ==
  ASSUME Inv, NEW i \in Ids, NEW h \in Hosts, CatchUp(i, h)
  PROVE  Inv'
  <1> DEFINE j == sessions[h][Other(i, h)]
             y == Other(j, h)
             delta == Lacks(h, j)
             done == [end[i][h] EXCEPT !.task = "read"]
             read == [end EXCEPT ![i][h].task = "read"]
  <1>1. /\ Typed /\ h \in Replicas /\ Paths \subseteq AllPaths /\ Sound(AllPaths, Knowledge, Vectors)
        /\ AreVectors(AllPaths, Knowledge, Vectors)
        /\ Quiet /\ UNCHANGED <<edited, outgoing, stream>>
    BY SetupFacts DEF Inv, Typed, Sound, CatchUp, Quiet, replicas
  <1>2. \A x \in Ids, g \in Hosts : Holds(Paths, Knowledge, Vectors, g, Other(x, g), end[x][g])
    BY DEF Inv, EndsHold
  <1>3. Holds(Paths, Knowledge, Vectors, h, Other(i, h), done)
    BY <1>2 DEF Holds, NoEnd
  <1>4. read = [end EXCEPT ![i][h] = done]
    BY <1>1, <1>2 DEF Typed, Holds, NoEnd
  <1>5. delta \in Batches(Paths, Knowledge)
    <2> DEFINE lacking == {p \in Paths : ~Covers(end[j][h].peerVV, know[h][p])}
    <2>1. DeltaFor(h, end[j][h].peerVV) = [p \in lacking |-> Knowledge[h][p]]
      BY <1>1, Readings DEF DeltaFor
    <2>2. [p \in lacking |-> Knowledge[h][p]] \in Batches(Paths, Knowledge)
      BY <1>1, OwnBatch
    <2>3. NoBatch \in Batches(Paths, Knowledge)
      BY <1>1, NothingHolds
    <2> QED
      BY <2>1, <2>2, <2>3 DEF Lacks
  <1>6. end' = read \/ end' = Pushed(read, j, h, delta)
    BY DEF CatchUp
  <1> HIDE DEF done, delta, j
  <1>7. CASE end' = read
    BY <1>1, <1>3, <1>4, <1>7, SilentEnd
  <1>8. CASE end' = Pushed(read, j, h, delta)
    <2>1. \A x \in Ids, g \in Hosts : Holds(Paths, Knowledge, Vectors, g, Other(x, g), read[x][g])
      BY <1>1, <1>2, <1>3, <1>4 DEF Typed
    <2>2. DOMAIN read = Ids /\ \A x \in Ids : DOMAIN read[x] = Hosts
      BY <1>1, <1>4 DEF Typed
    <2> HIDE DEF read
    <2>3. DOMAIN end' = Ids /\ \A x \in Ids : DOMAIN end'[x] = Hosts
      BY <1>8, <2>2 DEF Pushed
    <2>4. ASSUME NEW x \in Ids, NEW g \in Hosts
          PROVE  Holds(Paths, Knowledge, Vectors, g, Other(x, g), end'[x][g])
      <3>1. Holds(Paths, Knowledge, Vectors, g, Other(x, g), read[x][g])
        BY <2>1
      <3>2. Holds(Paths, Knowledge, Vectors, g, Other(x, g),
                  [read[x][g] EXCEPT !.inbox = Append(@, delta)])
        BY <1>5, <3>1, PushHolds
      <3>3. Holds(Paths, Knowledge, Vectors, g, Other(x, g), [read[x][g] EXCEPT !.inbox = read[x][g].inbox])
        BY <3>1 DEF Holds, NoEnd
      <3>4. \/ end'[x][g] = read[x][g]
            \/ end'[x][g] = [read[x][g] EXCEPT !.inbox = read[x][g].inbox]
            \/ end'[x][g] = [read[x][g] EXCEPT !.inbox = Append(@, delta)]
        BY <1>8, <2>2 DEF Pushed
      <3> QED
        BY <3>1, <3>2, <3>3, <3>4
    <2>5. \A x \in Ids, g \in Hosts : Other(x, g)' = Other(x, g)
      BY <1>1 DEF Other
    <2>6. edited' \in [Hosts -> SUBSET Paths] /\ DOMAIN outgoing' = Hosts
          /\ \A g \in Hosts : outgoing'[g] \subseteq outgoing[g]
      BY <1>1 DEF Typed
    <2>7. DOMAIN stream' = Ids /\ \A x \in Ids : IsStream(stream'[x])
      BY <1>1 DEF Typed
    <2> QED
      BY <1>1, <2>3, <2>4, <2>5, <2>6, <2>7, QuietEnds
  <1> QED
    BY <1>6, <1>7, <1>8
-----------------------------------------------------------------------------
\* The steps of a host.

\* A new stream takes a place that nothing uses: no end of it has a page to bring.
LEMMA DialKeeps ==
  ASSUME Inv, NEW h \in Hosts, NEW t \in Tasks, NEW d \in Hosts, Dial(h, t, d)
  PROVE  Inv'
  <1> PICK i \in Ids :
        /\ Free(i) /\ stream' = [stream EXCEPT ![i] = [from |-> h, to |-> d, broken |-> FALSE]]
        /\ end' = [end EXCEPT ![i][h] = [NoEnd EXCEPT !.pc = "hello", !.said = vv[h]],
                              ![i][d] = [NoEnd EXCEPT !.pc = "parked"]]
    BY DEF Dial
  <1> DEFINE hello == [NoEnd EXCEPT !.pc = "hello", !.said = vv[h]]
             parked == [NoEnd EXCEPT !.pc = "parked"]
  <1>1. /\ Typed /\ Hosts \subseteq Replicas /\ NoDevice \notin Hosts
        /\ AreVectors(AllPaths, Knowledge, Vectors)
        /\ Quiet /\ UNCHANGED <<edited, outgoing>>
    BY SetupFacts DEF Inv, Typed, Sound, Dial, Quiet, replicas
  <1>2. vv[h] \in VersionVector /\ vv[h] = Vectors[h]
    BY <1>1, Readings DEF Typed
  <1>3. ASSUME NEW g \in Hosts, NEW y
        PROVE  Holds(Paths, Knowledge, Vectors, g, y, parked)
    <2>1. Holds(Paths, Knowledge, Vectors, g, y, NoEnd)
      BY <1>1, NothingHolds
    <2> QED
      BY <2>1 DEF Holds, NoEnd
  <1>4. ASSUME NEW y PROVE Holds(Paths, Knowledge, Vectors, h, y, hello)
    <2>1. Holds(Paths, Knowledge, Vectors, h, y, NoEnd)
      BY <1>1, NothingHolds
    <2> QED
      BY <1>2, <2>1 DEF Holds, NoEnd, VersionVector
  <1>5. ASSUME NEW g \in Hosts, NEW y
        PROVE  Holds(Paths, Knowledge, Vectors, g, y, end[i][g])
    BY DEF Inv, EndsHold, Holds, Free
  <1> HIDE DEF hello, parked
  <1>6. end' = [end EXCEPT ![i][h] = hello, ![i][d] = parked]
    BY DEF hello, parked
  <1>7. DOMAIN end' = Ids /\ \A j \in Ids : DOMAIN end'[j] = Hosts
    BY <1>1, <1>6 DEF Typed
  <1>8. ASSUME NEW j \in Ids, NEW g \in Hosts
        PROVE  \/ end'[j][g] = end[j][g] /\ Other(j, g)' = Other(j, g)
               \/ Holds(Paths, Knowledge, Vectors, g, Other(j, g)', end'[j][g])
    <2>1. CASE j = i
      <3>1. end'[i][g] \in {parked, end[i][g]} \/ (g = h /\ end'[i][g] = hello)
        BY <1>1, <1>6 DEF Typed
      <3> QED
        BY <1>3, <1>4, <1>5, <2>1, <3>1
    <2>2. CASE j # i
      BY <1>1, <1>6, <2>2 DEF Typed, Other
    <2> QED
      BY <2>1, <2>2
  <1>9. DOMAIN stream' = Ids /\ \A j \in Ids : IsStream(stream'[j])
    BY <1>1 DEF Typed, IsStream
  <1>10. edited' \in [Hosts -> SUBSET Paths] /\ DOMAIN outgoing' = Hosts
         /\ \A g \in Hosts : outgoing'[g] \subseteq outgoing[g]
    BY <1>1 DEF Typed
  <1> QED
    BY <1>1, <1>7, <1>8, <1>9, <1>10, QuietEnds

LEMMA FanOutKeeps ==
  ASSUME Inv, NEW h \in Hosts, FanOut(h)
  PROVE  Inv'
  <1>0. PICK o \in outgoing[h] :
        /\ outgoing' = [outgoing EXCEPT ![h] = @ \ {o}]
        /\ end' = [i \in Ids |-> [g \in Hosts |->
             IF \E d \in FanOutTo(h, o) : sessions[h][d] = i /\ g = d /\ end[i][g].pc # "gone"
             THEN [end[i][g] EXCEPT !.inbox = Append(@, o.batch)] ELSE end[i][g]]]
    BY DEF FanOut
  <1>1. /\ Typed /\ Quiet /\ UNCHANGED <<edited, stream>> /\ o.batch \in Batches(Paths, Knowledge)
    BY DEF Inv, TellsTrue, FanOut, Quiet, replicas
  <1>2. ASSUME NEW i \in Ids, NEW g \in Hosts
        PROVE  Holds(Paths, Knowledge, Vectors, g, Other(i, g), end'[i][g])
    <2>1. Holds(Paths, Knowledge, Vectors, g, Other(i, g), end[i][g])
      BY DEF Inv, EndsHold
    <2>2. Holds(Paths, Knowledge, Vectors, g, Other(i, g), [end[i][g] EXCEPT !.inbox = Append(@, o.batch)])
      BY <1>1, <2>1, PushHolds
    <2>3. end'[i][g] \in {end[i][g], [end[i][g] EXCEPT !.inbox = Append(@, o.batch)]}
      BY <1>0
    <2> QED
      BY <2>1, <2>2, <2>3
  <1>3. DOMAIN end' = Ids /\ \A i \in Ids : DOMAIN end'[i] = Hosts
    BY <1>0
  <1>4. \A i \in Ids, g \in Hosts : Other(i, g)' = Other(i, g)
    BY <1>1 DEF Other
  <1>5. edited' \in [Hosts -> SUBSET Paths] /\ DOMAIN outgoing' = Hosts
        /\ \A g \in Hosts : outgoing'[g] \subseteq outgoing[g]
    BY <1>0, <1>1 DEF Typed
  <1>6. DOMAIN stream' = Ids /\ \A x \in Ids : IsStream(stream'[x])
    BY <1>1 DEF Typed
  <1> QED
    BY <1>1, <1>2, <1>3, <1>4, <1>5, <1>6, QuietEnds

LEMMA CloseSkippedKeeps ==
  ASSUME Inv, NEW h \in Hosts, CloseSkipped(h)
  PROVE  Inv'
  <1> DEFINE shut == {d \in Hosts : sessions[h][d] # 0 /\ Link(h, d, RolesOf(closing[h])) = "skip"}
             gone == {sessions[h][d] : d \in shut}
  <1>1. /\ end' = [i \in Ids |-> IF i \in gone THEN [end[i] EXCEPT ![h] = Over(@)] ELSE end[i]]
        /\ stream' = [i \in Ids |-> IF i \in gone THEN [stream[i] EXCEPT !.broken = TRUE] ELSE stream[i]]
        /\ Quiet /\ UNCHANGED <<edited, outgoing>> /\ Typed
    BY DEF CloseSkipped, Quiet, replicas, Inv
  <1> HIDE DEF gone
  <1>2. \A i \in Ids : end'[i] = end[i] \/ end'[i] = [end[i] EXCEPT ![h] = Over(@)]
    BY <1>1
  <1>3. DOMAIN end' = Ids /\ \A i \in Ids : DOMAIN end'[i] = Hosts
    BY <1>1, <1>2 DEF Typed
  <1>4. \A i \in Ids, g \in Hosts : end'[i][g] = end[i][g] \/ end'[i][g] = Over(end[i][g])
    BY <1>1, <1>2 DEF Typed
  <1>5. /\ DOMAIN stream' = Ids
        /\ \A i \in Ids : stream'[i] = stream[i] \/ stream'[i] = [stream[i] EXCEPT !.broken = TRUE]
    BY <1>1
  <1> QED
    BY <1>1, <1>3, <1>4, <1>5, OverKeeps

LEMMA EditKeeps ==
  ASSUME Inv, NEW h \in Hosts, NEW p \in Paths, Edit(h, p)
  PROVE  Inv'
  <1>1. edited' \in [Hosts -> SUBSET Paths]
    BY DEF Inv, Typed, Edit
  <1> QED
    BY <1>1, NothingTold DEF Edit, Quiet

\* Roles, decisions to dial or to close, and cuts.
LEMMA DecisionKeeps ==
  ASSUME Inv, UNCHANGED <<setup, replicas, outgoing, end>>,
         stream' = stream \/ \E i \in Ids : stream' = [stream EXCEPT ![i].broken = TRUE]
  PROVE  Inv'
  <1>1. edited' \in [Hosts -> SUBSET Paths]
    BY DEF Inv, Typed, replicas
  <1> QED
    BY <1>1, NothingTold DEF Quiet, replicas
-----------------------------------------------------------------------------
\* A step of Replication by host h, or none.
Spreads == \/ \E h \in Replicas : Moves(AllPaths, h, Knowledge, Vectors, Knowledge', Vectors')
           \/ Knowledge' = Knowledge /\ Vectors' = Vectors

LEMMA QuietSpreads == ASSUME Inv, Quiet PROVE Spreads
  BY QuietKept DEF Quiet, Spreads

LEMMA StreamStepKeeps ==
  ASSUME Inv, NEW i \in Ids, NEW h \in Hosts, h \in EndsOf(i), StreamStep(i, h)
  PROVE  Inv' /\ Spreads
  <1> h \in Replicas
    BY SetupFacts DEF Inv, Typed
  <1>1. CASE GoLive(i, h)
    BY <1>1, GoLiveKeeps DEF Spreads
  <1>2. CASE Receive(i, h)
    BY <1>2, ReceiveKeeps DEF Spreads
  <1>3. CASE Accept(i, h) \/ Skip(i, h) \/ Offer(i, h)
    BY <1>3, AcceptKeeps, SkipKeeps, OfferKeeps, QuietSpreads DEF Accept, Skip, Offer, Quiet, replicas
  <1>4. CASE Insert(i, h) \/ CatchUp(i, h)
    BY <1>4, InsertKeeps, CatchUpKeeps, QuietSpreads DEF Insert, CatchUp, Quiet, replicas
  <1>5. CASE Answered(i, h) \/ Forward(i, h) \/ Notice(i, h)
    BY <1>5, AnsweredKeeps, ForwardKeeps, NoticeKeeps, QuietSpreads DEF Answered, Forward, Notice, Quiet, replicas
  <1> QED
    BY <1>1, <1>2, <1>3, <1>4, <1>5 DEF StreamStep

LEMMA StepKeeps == Inv /\ [Next]_vars => Inv' /\ Spreads
  <1> SUFFICES ASSUME Inv, [Next]_vars PROVE Inv' /\ Spreads
    OBVIOUS
  <1>1. ASSUME NEW h \in Hosts, NEW p \in Paths, Edit(h, p) PROVE Inv' /\ Spreads
    BY <1>1, EditKeeps, QuietSpreads DEF Edit, Quiet
  <1>2. ASSUME NEW h \in Hosts, Scan(h) PROVE Inv' /\ Spreads
    BY <1>2, ScanKeeps, SetupFacts DEF Spreads, Inv, Typed
  <1>3. ASSUME NEW h \in Hosts, FanOut(h) \/ CloseSkipped(h) PROVE Inv' /\ Spreads
    BY <1>3, FanOutKeeps, CloseSkippedKeeps, QuietSpreads DEF FanOut, CloseSkipped, Quiet, replicas
  <1>4. ASSUME NEW h \in Hosts, Elect(h) \/ Ask(h) \/ CheckSkipped(h) PROVE Inv' /\ Spreads
    BY <1>4, DecisionKeeps, QuietSpreads DEF Elect, Ask, CheckSkipped, Quiet, replicas
  <1>5. ASSUME NEW h \in Hosts, NEW t \in Tasks, NEW d \in Hosts, Choose(h, t, d) \/ DialNothing(h, t, d)
        PROVE  Inv' /\ Spreads
    BY <1>5, DecisionKeeps, QuietSpreads DEF Choose, DialNothing, Quiet, replicas
  <1>6. ASSUME NEW h \in Hosts, NEW t \in Tasks, NEW d \in Hosts, Dial(h, t, d)
        PROVE  Inv' /\ Spreads
    BY <1>6, DialKeeps, QuietSpreads DEF Dial, Quiet, replicas
  <1>7. ASSUME NEW i \in Ids, Cut(i) PROVE Inv' /\ Spreads
    BY <1>7, DecisionKeeps, QuietSpreads DEF Cut, Quiet, replicas
  <1>8. ASSUME NEW i \in Ids, NEW h \in Hosts, h \in EndsOf(i), StreamStep(i, h) PROVE Inv' /\ Spreads
    BY <1>8, StreamStepKeeps
  <1>9. CASE UNCHANGED vars
    BY <1>9, DecisionKeeps, QuietSpreads DEF vars, Quiet, replicas
  <1> QED
    BY <1>1, <1>2, <1>3, <1>4, <1>5, <1>6, <1>7, <1>8, <1>9 DEF Next

LEMMA InitSpreads == Init => Durable!Init
  BY DEF Init, Durable!Init, Durable!NoVersions, Knowledge, Vectors, NoVersions

LEMMA StepSpreads == Spreads => [Durable!Next]_(Durable!vars)
  <1>1. ASSUME NEW h \in Replicas, Moves(AllPaths, h, Knowledge, Vectors, Knowledge', Vectors')
        PROVE  Durable!Step(h)
    BY <1>1 DEF Durable!Step, Durable!VersionVector, VersionVector, Durable!Writes, Durable!Written,
                Durable!Learns, Durable!Claims,
                Moves, Numbered, NewOf, Learnt, Claimable
  <1> QED
    BY <1>1 DEF Spreads, Durable!Next, Durable!vars

\* Whatever hosts, streams and roles there are: exchanges, catching up, fan-out and forwarding only
\* spread the writes there are, and no replica claims one that it lacks (commit_session, delta_for).
THEOREM SessionsSpreadWrites == Spec => SpreadsWrites
  <1>1. Inv /\ [Next]_vars => Inv' /\ [Durable!Next]_(Durable!vars)
    BY StepKeeps, StepSpreads
  <1> QED
    BY InitInv, InitSpreads, <1>1, PTL DEF Spec, SpreadsWrites, Durable!Spec
-----------------------------------------------------------------------------
\* What every implementation of Replication has, for any paths.

CONSTANT Names
VARIABLES known, claimed

Promised == INSTANCE Replication WITH Paths <- Names, know <- known, vv <- claimed

PromiseInv == Sound(Names, known, claimed)

LEMMA PromiseInit == Promised!Init => PromiseInv
  BY DEF Promised!Init, Promised!NoVersions, PromiseInv, Sound, AreVectors, WithinAuthors, DistinctDots,
         TrueClaims, VersionVector

LEMMA PromiseStep == PromiseInv /\ [Promised!Next]_(Promised!vars) => PromiseInv'
  <1>1. ASSUME PromiseInv, NEW h \in Replicas, Promised!Step(h)
        PROVE  PromiseInv'
    <2>1. Promised!VersionVector = VersionVector
      BY DEF Promised!VersionVector, VersionVector
    <2>2. Moves(Names, h, known, claimed, known', claimed')
      BY <1>1, <2>1 DEF Promised!Step, Promised!Writes, Promised!Written, Promised!Learns, Promised!Claims,
                Moves, Numbered, NewOf, Learnt, Claimable
    <2> QED
      BY <1>1, <2>2, MoveKeepsSound DEF PromiseInv
  <1>2. PromiseInv /\ UNCHANGED Promised!vars => PromiseInv'
    BY DEF PromiseInv, Promised!vars
  <1> QED
    BY <1>1, <1>2 DEF Promised!Next

\* Whatever carries the updates: nobody knows of a write before its author does, a number names one
\* write, and a vector that covers a write means that it has been merged.
THEOREM Promise ==
  Promised!Spec => [](Promised!NothingInvented /\ Promised!DotsAreUnique /\ Promised!ClaimsAreTrue)
  <1>1. PromiseInv => Promised!NothingInvented /\ Promised!DotsAreUnique /\ Promised!ClaimsAreTrue
    BY DEF PromiseInv, Sound, WithinAuthors, DistinctDots, TrueClaims, Promised!NothingInvented,
           Promised!DotsAreUnique, Promised!ClaimsAreTrue
  <1> QED
    BY PromiseInit, PromiseStep, <1>1, PTL DEF Promised!Spec

\* Two replicas that lack nobody's writes know the same of every path, so by SameSeenSameVersions
\* of Replica they hold the same versions.
THEOREM AgreementOnceCaughtUp == Promised!Spec => []Promised!CaughtUpAgree
  <1>1. PromiseInv => Promised!CaughtUpAgree
    <2> SUFFICES ASSUME PromiseInv, NEW g \in Replicas, NEW h \in Replicas,
                        Promised!CaughtUp(g), Promised!CaughtUp(h)
                 PROVE  known[g] = known[h]
      BY DEF Promised!CaughtUpAgree
    <2>1. ASSUME NEW k \in Replicas, Promised!CaughtUp(k), NEW p \in Names, NEW r \in Replicas
          PROVE  known[k][p][r] = known[r][p][r]
      <3>1. known[r][p][r] <= claimed[r][r] /\ claimed[r][r] <= claimed[k][r]
        BY <2>1 DEF PromiseInv, Sound, WithinAuthors, Promised!CaughtUp
      <3>2. known[r][p][r] \in Nat /\ claimed[r][r] \in Nat /\ claimed[k][r] \in Nat
        BY SoundNumbers DEF PromiseInv, Sound
      <3> QED
        BY <3>1, <3>2 DEF PromiseInv, Sound, TrueClaims
    <2>2. known[g] \in [Names -> VersionVector] /\ known[h] \in [Names -> VersionVector]
      BY DEF PromiseInv, Sound, AreVectors
    <2>3. ASSUME NEW p \in Names
          PROVE  known[g][p] = known[h][p]
      <3>1. \A r \in Replicas : known[g][p][r] = known[h][p][r]
        BY <2>1
      <3> QED
        BY <2>2, <3>1 DEF VersionVector
    <2> QED
      BY <2>2, <2>3
  <1> QED
    BY PromiseInit, PromiseStep, <1>1, PTL DEF Promised!Spec
=============================================================================
