--------------------------- MODULE SessionProofs ----------------------------
(* What a session guarantees for any pages, contents, batches and bounds.    *)
EXTENDS Session, FiniteSetTheorems, TLAPS

-----------------------------------------------------------------------------
\* What goes one way.

\* How far the frames of one side have come: 0 before its Hello, 1 after it, 2 after Settled;
\* the pages and Done; the blob that is open, which none is before Hello.
States ==
  { x \in [said : 0..2, page : Nat, blob : Hashes \cup {NoHash}] : x.said = 0 => x.blob = NoHash }

\* Side p may say f at x, and it is at y then.
Legal(p, x, f, y) ==
  /\ f.kind # "hello" => x.said > 0
  /\ f.kind = "hello" => x.said = 0 /\ y = [x EXCEPT !.said = 1]
  /\ f.kind = "settled" => x.said = 1 /\ y = [x EXCEPT !.said = 2]
  /\ f.kind = "live" => x.said = 2
  /\ f.kind = "updates" => /\ x.page < Len(Delta[p]) /\ f.page = Delta[p][x.page + 1]
                           /\ x.blob = NoHash /\ y = [x EXCEPT !.page = @ + 1]
  /\ f.kind = "done" => x.page = Len(Delta[p]) /\ x.blob = NoHash /\ y = [x EXCEPT !.page = @ + 1]
  /\ f.kind = "start" => x.blob = NoHash /\ y = [x EXCEPT !.blob = f.hash]
  /\ f.kind = "chunk" => x.blob # NoHash
  /\ f.kind = "end" => x.blob # NoHash /\ y = [x EXCEPT !.blob = NoHash]
  /\ f.kind = "aborted" => x.blob = f.hash /\ y = [x EXCEPT !.blob = NoHash]
  /\ f.kind \notin {"hello", "settled", "updates", "done", "start", "end", "aborted"} => y = x

\* p says the sequence q from x to y.
Run(p, q, x, y) ==
  \E f \in [0..Len(q) -> States] :
    /\ f[0] = x /\ f[Len(q)] = y
    /\ \A i \in 1..Len(q) : Legal(p, f[i - 1], q[i], f[i])

LEMMA LegalOnce ==
  ASSUME NEW p, NEW x, NEW f, NEW y, NEW z, Legal(p, x, f, y), Legal(p, x, f, z)
  PROVE  y = z
  BY DEF Legal

LEMMA RunNone ==
  ASSUME NEW p, NEW x \in States
  PROVE  Run(p, <<>>, x, x)
  <1> DEFINE f == [i \in 0..0 |-> x]
  <1>1. f \in [0..Len(<<>>) -> States] /\ f[0] = x /\ f[Len(<<>>)] = x
    OBVIOUS
  <1>2. \A i \in 1..Len(<<>>) : FALSE
    OBVIOUS
  <1> HIDE DEF f
  <1> QED
    BY <1>1, <1>2 DEF Run

LEMMA RunEnds ==
  ASSUME NEW p, NEW T, NEW q \in Seq(T), NEW x, NEW y, Run(p, q, x, y)
  PROVE  x \in States /\ y \in States
  BY DEF Run

LEMMA RunLast ==
  ASSUME NEW p, NEW T, NEW q \in Seq(T), NEW a \in T, NEW x, NEW y, NEW z \in States,
         Run(p, q, x, y), Legal(p, y, a, z)
  PROVE  Run(p, Append(q, a), x, z)
  <1>1. PICK f \in [0..Len(q) -> States] : /\ f[0] = x /\ f[Len(q)] = y
                                           /\ \A i \in 1..Len(q) : Legal(p, f[i - 1], q[i], f[i])
    BY DEF Run
  <1> DEFINE n == Len(q)
             g == [i \in 0..n + 1 |-> IF i = n + 1 THEN z ELSE f[i]]
  <1>2. n \in Nat /\ Len(Append(q, a)) = n + 1
    OBVIOUS
  <1>3. g \in [0..Len(Append(q, a)) -> States] /\ g[0] = x /\ g[Len(Append(q, a))] = z
    BY <1>1, <1>2
  <1>4. ASSUME NEW i \in 1..n + 1 PROVE Legal(p, g[i - 1], Append(q, a)[i], g[i])
    <2>1. CASE i = n + 1
      <3>1. g[i] = z /\ g[i - 1] = y /\ Append(q, a)[i] = a
        BY <2>1, <1>1, <1>2
      <3> QED
        BY <3>1
    <2>2. CASE i # n + 1
      <3>1. i \in 1..n /\ g[i] = f[i] /\ g[i - 1] = f[i - 1] /\ Append(q, a)[i] = q[i]
        BY <2>2, <1>2
      <3> QED
        BY <3>1, <1>1
    <2> QED
      BY <2>1, <2>2
  <1> QED
    BY <1>2, <1>3, <1>4 DEF Run

LEMMA RunFirst ==
  ASSUME NEW p, NEW T, NEW q \in Seq(T), q # <<>>, NEW x, NEW y, Run(p, q, x, y)
  PROVE  \E z \in States : Legal(p, x, Head(q), z) /\ Run(p, Tail(q), z, y)
  <1>1. PICK f \in [0..Len(q) -> States] : /\ f[0] = x /\ f[Len(q)] = y
                                           /\ \A i \in 1..Len(q) : Legal(p, f[i - 1], q[i], f[i])
    BY DEF Run
  <1> DEFINE n == Len(q)
             g == [i \in 0..n - 1 |-> f[i + 1]]
  <1>2. n \in Nat /\ n > 0 /\ Len(Tail(q)) = n - 1 /\ Head(q) = q[1]
    OBVIOUS
  <1>3. g \in [0..Len(Tail(q)) -> States] /\ g[0] = f[1] /\ g[Len(Tail(q))] = y /\ f[1] \in States
    <2>1. \A i \in 0..n - 1 : i + 1 \in 0..n /\ f[i + 1] \in States
      BY <1>1, <1>2
    <2>2. g \in [0..n - 1 -> States]
      BY <2>1
    <2>3. 0 \in 0..n - 1 /\ n - 1 \in 0..n - 1 /\ (n - 1) + 1 = n /\ 0 + 1 = 1
      BY <1>2
    <2>4. g[0] = f[1] /\ g[n - 1] = f[n] /\ f[1] \in States
      BY <2>1, <2>3
    <2> QED
      BY <1>1, <1>2, <2>2, <2>4
  <1>4. ASSUME NEW i \in 1..n - 1 PROVE Legal(p, g[i - 1], Tail(q)[i], g[i])
    <2>1. i + 1 \in 1..n /\ g[i] = f[i + 1] /\ g[i - 1] = f[(i + 1) - 1] /\ Tail(q)[i] = q[i + 1]
      BY <1>2
    <2> QED
      BY <2>1, <1>1
  <1>5. Run(p, Tail(q), f[1], y)
    BY <1>2, <1>3, <1>4 DEF Run
  <1>6. Legal(p, x, Head(q), f[1])
    <2>1. 1 \in 1..n /\ f[1 - 1] = x
      BY <1>1, <1>2
    <2> QED
      BY <2>1, <1>1, <1>2
  <1> QED
    BY <1>3, <1>5, <1>6

LEMMA RunCat ==
  ASSUME NEW p, NEW T, NEW q \in Seq(T), NEW r \in Seq(T), NEW x, NEW y, NEW z,
         Run(p, q, x, y), Run(p, r, y, z)
  PROVE  Run(p, q \o r, x, z)
  <1>1. PICK f \in [0..Len(q) -> States] : /\ f[0] = x /\ f[Len(q)] = y
                                           /\ \A i \in 1..Len(q) : Legal(p, f[i - 1], q[i], f[i])
    BY DEF Run
  <1>2. PICK g \in [0..Len(r) -> States] : /\ g[0] = y /\ g[Len(r)] = z
                                           /\ \A i \in 1..Len(r) : Legal(p, g[i - 1], r[i], g[i])
    BY DEF Run
  <1> DEFINE n == Len(q)
             m == Len(r)
             h == [i \in 0..n + m |-> IF i <= n THEN f[i] ELSE g[i - n]]
  <1>3. n \in Nat /\ m \in Nat /\ Len(q \o r) = n + m
    OBVIOUS
  <1>4. h \in [0..Len(q \o r) -> States]
    BY <1>1, <1>2, <1>3
  <1>5. h[0] = x /\ h[Len(q \o r)] = z
    <2>1. 0 \in 0..n + m /\ n + m \in 0..n + m /\ (n + m) - n = m /\ 0 <= n
      BY <1>3
    <2>2. h[0] = f[0] /\ h[n + m] = IF n + m <= n THEN f[n + m] ELSE g[m]
      BY <2>1
    <2>3. CASE m = 0
      BY <2>2, <2>3, <1>1, <1>2, <1>3
    <2>4. CASE m # 0
      BY <2>2, <2>4, <1>1, <1>2, <1>3
    <2> QED
      BY <2>3, <2>4
  <1>6. ASSUME NEW i \in 1..n + m PROVE Legal(p, h[i - 1], (q \o r)[i], h[i])
    <2>1. CASE i <= n
      <3>1. i \in 1..n /\ h[i] = f[i] /\ h[i - 1] = f[i - 1] /\ (q \o r)[i] = q[i]
        BY <2>1, <1>3
      <3> QED
        BY <3>1, <1>1
    <2>2. CASE i > n
      <3>1. i - n \in 1..m /\ h[i] = g[i - n] /\ (q \o r)[i] = r[i - n]
        BY <2>2, <1>3
      <3>2. h[i - 1] = g[(i - n) - 1]
        BY <2>2, <1>1, <1>2, <1>3
      <3> QED
        BY <3>1, <3>2, <1>2
    <2> QED
      BY <2>1, <2>2, <1>3
  <1> QED
    BY <1>3, <1>4, <1>5, <1>6 DEF Run

\* What changes nothing may be said any number of times.
LEMMA RunSame ==
  ASSUME NEW p, NEW T, NEW q \in Seq(T), NEW x \in States,
         \A i \in 1..Len(q) : Legal(p, x, q[i], x)
  PROVE  Run(p, q, x, x)
  <1> DEFINE f == [i \in 0..Len(q) |-> x]
  <1>1. f \in [0..Len(q) -> States] /\ f[0] = x /\ f[Len(q)] = x
    OBVIOUS
  <1>2. \A i \in 1..Len(q) : f[i - 1] = x /\ f[i] = x
    OBVIOUS
  <1> QED
    BY <1>1, <1>2 DEF Run

\* A queue that says the same.
LEMMA RunLike ==
  ASSUME NEW p, NEW q, NEW r, NEW x, NEW y, Run(p, q, x, y), Len(q) = Len(r),
         \A i \in 1..Len(q) : \A u, v : Legal(p, u, q[i], v) => Legal(p, u, r[i], v)
  PROVE  Run(p, r, x, y)
  BY DEF Run

\* A blob is nothing that is said in order.
LEMMA RunDrop ==
  ASSUME NEW p, NEW q \in Seq(Entries), q # <<>>, Head(q).kind = "blob", NEW x, NEW y, Run(p, q, x, y)
  PROVE  Run(p, Tail(q), x, y)
  <1>1. PICK z \in States : Legal(p, x, Head(q), z) /\ Run(p, Tail(q), z, y)
    BY RunFirst
  <1>2. z = x
    BY <1>1 DEF Legal
  <1> QED
    BY <1>1, <1>2

-----------------------------------------------------------------------------
\* One direction: what is on the wire brings the reader from what it has heard to where the
\* writer is, and what is queued brings the writer to where all is said.

At(said, page) == [said |-> said, page |-> page, blob |-> NoHash]

Stream(p, heard, w, u, b, blob, isOpen, said, pages) ==
  \E e \in States :
    /\ Run(p, w, heard, e)
    /\ isOpen => /\ e.blob = blob
                 /\ Run(p, u, At(e.said, 0), At(said, 0))
                 /\ Run(p, b, At(1, e.page), At(1, pages))

LEMMA AtIsState ==
  ASSUME NEW n \in 0..2, NEW k \in Nat
  PROVE  At(n, k) \in States
  BY DEF At, States

\* The next frame is read.
LEMMA StreamRead ==
  ASSUME NEW p, NEW heard, NEW w \in Seq(Frames), NEW u, NEW b, NEW blob, NEW isOpen, NEW said,
         NEW pages, w # <<>>, Stream(p, heard, w, u, b, blob, isOpen, said, pages)
  PROVE  \E y \in States : /\ Legal(p, heard, Head(w), y)
                           /\ Stream(p, y, Tail(w), u, b, blob, isOpen, said, pages)
  BY RunFirst DEF Stream

\* A frame is written that moves only the blob.
LEMMA StreamFrame ==
  ASSUME NEW p, NEW heard, NEW w \in Seq(Frames), NEW u, NEW b, NEW blob, NEW said, NEW pages,
         Stream(p, heard, w, u, b, blob, TRUE, said, pages),
         NEW a \in Frames, NEW to \in Hashes \cup {NoHash},
         \A e \in States : e.said > 0 /\ e.blob = blob => Legal(p, e, a, [e EXCEPT !.blob = to]),
         u = <<>> /\ said > 0
  PROVE  Stream(p, heard, Append(w, a), u, b, to, TRUE, said, pages)
  <1>1. PICK e \in States : /\ Run(p, w, heard, e) /\ e.blob = blob
                            /\ Run(p, u, At(e.said, 0), At(said, 0))
                            /\ Run(p, b, At(1, e.page), At(1, pages))
    BY DEF Stream
  <1>2. e.said = said
    BY <1>1 DEF Run, At
  <1>3. PICK z : z = [e EXCEPT !.blob = to]
    OBVIOUS
  <1>4. z \in States /\ z.said = e.said /\ z.page = e.page /\ z.blob = to
    BY <1>2, <1>3 DEF States
  <1>5. Run(p, Append(w, a), heard, z)
    BY <1>1, <1>2, <1>3, <1>4, RunLast
  <1> QED
    BY <1>1, <1>4, <1>5 DEF Stream

\* The same for the end of a blob, which urgent messages wait for.
LEMMA StreamEnd ==
  ASSUME NEW p, NEW heard, NEW w \in Seq(Frames), NEW u, NEW b, NEW blob, NEW said, NEW pages,
         Stream(p, heard, w, u, b, blob, TRUE, said, pages),
         NEW a \in Frames, a.kind \in {"end", "aborted"}, a.kind = "aborted" => a.hash = blob,
         blob # NoHash
  PROVE  Stream(p, heard, Append(w, a), u, b, NoHash, TRUE, said, pages)
  <1>1. PICK e \in States : /\ Run(p, w, heard, e) /\ e.blob = blob
                            /\ Run(p, u, At(e.said, 0), At(said, 0))
                            /\ Run(p, b, At(1, e.page), At(1, pages))
    BY DEF Stream
  <1>2. PICK z : z = [e EXCEPT !.blob = NoHash]
    OBVIOUS
  <1>3. z \in States /\ z.said = e.said /\ z.page = e.page /\ z.blob = NoHash /\ Legal(p, e, a, z)
    BY <1>1, <1>2 DEF States, Legal
  <1>4. Run(p, Append(w, a), heard, z)
    BY <1>1, <1>3, RunLast
  <1> QED
    BY <1>1, <1>3, <1>4 DEF Stream

\* The next urgent message is written.
LEMMA StreamUrgent ==
  ASSUME NEW p, NEW heard, NEW w \in Seq(Frames), NEW u \in Seq(Frames), NEW b, NEW blob,
         NEW said, NEW pages, Stream(p, heard, w, u, b, blob, TRUE, said, pages), u # <<>>,
         Head(u).kind \in {"hello", "refused", "settled", "live", "want", "missing"}
  PROVE  Stream(p, heard, Append(w, Head(u)), Tail(u), b, blob, TRUE, said, pages)
  <1>1. PICK e \in States : /\ Run(p, w, heard, e) /\ e.blob = blob
                            /\ Run(p, u, At(e.said, 0), At(said, 0))
                            /\ Run(p, b, At(1, e.page), At(1, pages))
    BY DEF Stream
  <1>2. PICK y \in States : Legal(p, At(e.said, 0), Head(u), y) /\ Run(p, Tail(u), y, At(said, 0))
    BY <1>1, RunFirst
  <1>3. PICK z : z = [e EXCEPT !.said = y.said]
    OBVIOUS
  <1>4. /\ z \in States /\ z.said = y.said /\ z.page = e.page /\ z.blob = e.blob
        /\ Legal(p, e, Head(u), z) /\ y = At(z.said, 0)
    BY <1>2, <1>3 DEF States, Legal, At
  <1>5. Run(p, Append(w, Head(u)), heard, z)
    <2>1. Head(u) \in Frames
      OBVIOUS
    <2> QED
      BY <2>1, <1>1, <1>4, RunLast
  <1> QED
    BY <1>1, <1>2, <1>4, <1>5 DEF Stream

\* The next page, or Done, is written.
LEMMA StreamBulk ==
  ASSUME NEW p, NEW heard, NEW w \in Seq(Frames), NEW b \in Seq(Entries), NEW u, NEW blob,
         NEW said, NEW pages, Stream(p, heard, w, u, b, blob, TRUE, said, pages), b # <<>>,
         u = <<>> /\ said > 0 /\ blob = NoHash,
         NEW a \in Frames, a.kind \in {"updates", "done"}, a.kind = Head(b).kind,
         a.kind = "updates" => a.page = Head(b).page
  PROVE  Stream(p, heard, Append(w, a), u, Tail(b), blob, TRUE, said, pages)
  <1>1. PICK e \in States : /\ Run(p, w, heard, e) /\ e.blob = blob
                            /\ Run(p, u, At(e.said, 0), At(said, 0))
                            /\ Run(p, b, At(1, e.page), At(1, pages))
    BY DEF Stream
  <1>2. e.said = said
    BY <1>1 DEF Run, At
  <1>3. PICK y \in States : Legal(p, At(1, e.page), Head(b), y) /\ Run(p, Tail(b), y, At(1, pages))
    BY <1>1, RunFirst
  <1>4. PICK z : z = [e EXCEPT !.page = y.page]
    OBVIOUS
  <1>5. /\ z \in States /\ z.said = e.said /\ z.page = y.page /\ z.blob = e.blob
        /\ Legal(p, e, a, z) /\ y = At(1, z.page)
    BY <1>1, <1>2, <1>3, <1>4 DEF States, Legal, At
  <1>6. Run(p, Append(w, a), heard, z)
    BY <1>1, <1>5, RunLast
  <1> QED
    BY <1>1, <1>3, <1>5, <1>6 DEF Stream

\* More is queued.
LEMMA StreamQueue ==
  ASSUME NEW p, NEW heard, NEW w, NEW b \in Seq(Entries), NEW u \in Seq(Frames), NEW blob,
         NEW said, NEW pages, Stream(p, heard, w, u, b, blob, TRUE, said, pages),
         NEW controls \in Seq(Frames), NEW entries \in Seq(Entries), NEW said2, NEW pages2,
         Run(p, controls, At(said, 0), At(said2, 0)), Run(p, entries, At(1, pages), At(1, pages2))
  PROVE  Stream(p, heard, w, u \o controls, b \o entries, blob, TRUE, said2, pages2)
  <1>1. PICK e \in States : /\ Run(p, w, heard, e) /\ e.blob = blob
                            /\ Run(p, u, At(e.said, 0), At(said, 0))
                            /\ Run(p, b, At(1, e.page), At(1, pages))
    BY DEF Stream
  <1>2. Run(p, u \o controls, At(e.said, 0), At(said2, 0))
    BY <1>1, RunCat
  <1>3. Run(p, b \o entries, At(1, e.page), At(1, pages2))
    BY <1>1, RunCat
  <1> QED
    BY <1>1, <1>2, <1>3 DEF Stream

\* The writer is gone.
LEMMA StreamClosed ==
  ASSUME NEW p, NEW heard, NEW w, NEW u, NEW b, NEW blob, NEW isOpen, NEW said, NEW pages,
         Stream(p, heard, w, u, b, blob, isOpen, said, pages),
         NEW u2, NEW b2, NEW blob2, NEW said2, NEW pages2
  PROVE  Stream(p, heard, w, u2, b2, blob2, FALSE, said2, pages2)
  BY DEF Stream

-----------------------------------------------------------------------------
\* The two sides, and what they send.

Pair(s, t) ==
  /\ s \in Sides /\ t \in Sides /\ s # t /\ Sides = {s, t} /\ Peer(s) = t /\ Peer(t) = s

LEMMA PairOf ==
  ASSUME NEW s \in Sides
  PROVE  Pair(s, Peer(s))
  <1>1. PICK x, y \in Sides : x # y /\ Sides = {x, y}
    BY SessionAssumption
  <1>2. \A r \in Sides : \E o \in Sides : o # r
    BY <1>1
  <1>3. \A r \in Sides : Peer(r) \in Sides /\ Peer(r) # r
    BY <1>2 DEF Peer
  <1> QED
    BY <1>1, <1>3 DEF Pair

LEMMA FrameFacts ==
  ASSUME NEW f \in Frames
  PROVE  /\ f.kind \in {"hello", "refused", "done", "settled", "chunk", "end", "updates", "live",
                        "want", "missing", "aborted", "start"}
         /\ f.kind = "hello" => f = Hello
         /\ f.kind \in {"want", "missing", "aborted", "start"} => f.hash \in Hashes
         /\ f.kind \in {"updates", "live"} => f.page \in SUBSET Hashes
  BY DEF Frames, Hello, Refused, Done, Settled, BlobChunk, BlobEnd, Updates, Live, Want, Missing,
         Aborted, BlobStart

LEMMA FramesAre ==
  /\ {Hello, Refused, Done, Settled, BlobChunk, BlobEnd} \subseteq Frames
  /\ \A page \in SUBSET Hashes : Updates(page) \in Frames /\ Live(page) \in Frames
  /\ \A h \in Hashes : {Want(h), Missing(h), Aborted(h), BlobStart(h)} \subseteq Frames
  BY DEF Frames

LEMMA EntryFacts ==
  ASSUME NEW m \in Entries
  PROVE  /\ m.kind \in {"done", "blob", "updates"}
         /\ m.kind = "blob" => m.hash \in Hashes
         /\ m.kind = "updates" => /\ m.page \in SUBSET Hashes /\ m.inline \in SUBSET Hashes
                                  /\ m = Page(m.page, m.inline)
  BY DEF Entries, Done, Blob, Page

LEMMA EntriesAre ==
  /\ Done \in Entries
  /\ \A h \in Hashes : Blob(h) \in Entries
  /\ \A page \in SUBSET Hashes, inline \in SUBSET Hashes : Page(page, inline) \in Entries
  BY DEF Entries

\* A kind of frame in a queue.
Says(q, kind) == \E i \in 1..Len(q) : q[i].kind = kind

LEMMA SaysTail ==
  ASSUME NEW T, NEW q \in Seq(T), q # <<>>, NEW kind
  PROVE  (Says(Tail(q), kind) => Says(q, kind)) /\ (Head(q).kind = kind => Says(q, kind))
  <1>1. ASSUME NEW i \in 1..Len(Tail(q)) PROVE i + 1 \in 1..Len(q) /\ Tail(q)[i] = q[i + 1]
    OBVIOUS
  <1>2. 1 \in 1..Len(q) /\ Head(q) = q[1]
    OBVIOUS
  <1> QED
    BY <1>1, <1>2 DEF Says

LEMMA SaysAppend ==
  ASSUME NEW T, NEW q \in Seq(T), NEW a \in T, NEW kind, Says(Append(q, a), kind)
  PROVE  Says(q, kind) \/ a.kind = kind
  <1>1. PICK i \in 1..Len(q) + 1 : Append(q, a)[i].kind = kind
    BY DEF Says
  <1>2. CASE i = Len(q) + 1
    BY <1>1, <1>2
  <1>3. CASE i # Len(q) + 1
    BY <1>1, <1>3 DEF Says
  <1> QED
    BY <1>2, <1>3

LEMMA SaysCat ==
  ASSUME NEW T, NEW q \in Seq(T), NEW r \in Seq(T), NEW kind, Says(q \o r, kind)
  PROVE  Says(q, kind) \/ Says(r, kind)
  <1>1. PICK i \in 1..Len(q) + Len(r) : (q \o r)[i].kind = kind
    BY DEF Says
  <1>2. CASE i <= Len(q)
    BY <1>1, <1>2 DEF Says
  <1>3. CASE i > Len(q)
    <2>1. i - Len(q) \in 1..Len(r) /\ (q \o r)[i] = r[i - Len(q)]
      BY <1>3
    <2> QED
      BY <1>1, <2>1 DEF Says
  <1> QED
    BY <1>2, <1>3

LEMMA SaysNone == \A kind : ~Says(<<>>, kind)
  BY DEF Says

LEMMA WantsAre ==
  ASSUME NEW hashes \in SUBSET Hashes
  PROVE  /\ Wants(hashes) \in Seq(Frames)
         /\ \A i \in 1..Len(Wants(hashes)) : /\ Wants(hashes)[i].kind = "want"
                                             /\ Wants(hashes)[i].hash \in hashes
  <1>1. IsFiniteSet(hashes)
    BY SessionAssumption, FS_Subset
  <1>2. Cardinality(hashes) \in Nat /\ ExistsBijection(1..Cardinality(hashes), hashes)
    BY <1>1, FS_CardinalityType
  <1>3. \E f \in [1..Cardinality(hashes) -> hashes] : IsInjective(f)
    BY <1>2 DEF ExistsBijection, Bijection, Injection, IsInjective
  <1>4. SetToSeq(hashes) \in [1..Cardinality(hashes) -> hashes]
    BY <1>3 DEF SetToSeq
  <1>5. \A i \in 1..Cardinality(hashes) : SetToSeq(hashes)[i] \in hashes
    BY <1>4
  <1>6. \A i \in 1..Cardinality(hashes) : Want(SetToSeq(hashes)[i]) \in Frames
    BY <1>5, FramesAre
  <1> QED
    BY <1>2, <1>5, <1>6 DEF Wants, Want

-----------------------------------------------------------------------------
\* The invariant.

Loops ==
  [pc : {"hello", "exchange", "live", "ended", "dropped", "closing", "over"},
   stop : {"none", "complete", "gone", "refused", "timeout"},
   pages : Nat, wanted : SUBSET Hashes, lacked : SUBSET Hashes, peerDone : BOOLEAN,
   peerSettled : BOOLEAN, settled : BOOLEAN, blob : Hashes \cup {NoHash}]

Batch == [page : SUBSET Hashes, outstanding : SUBSET Hashes]

Lives ==
  [open : BOOLEAN, pushed : Nat, wanted : SUBSET Hashes, pending : SUBSET Batch,
   announced : SUBSET SUBSET Hashes, lacked : SUBSET Hashes]

Sendings == [hash : Hashes \cup {NoHash}, read : {"no", "right", "wrong"}]

Typed ==
  /\ once \in SUBSET Sides /\ compatible \in BOOLEAN /\ failures \in 0..MaxFailures
  /\ loop \in [Sides -> Loops] /\ live \in [Sides -> Lives] /\ sending \in [Sides -> Sendings]
  /\ \A s \in Sides : sending[s].hash = NoHash => sending[s] = NotSending
  /\ urgent \in [Sides -> Seq(Frames)] /\ wire \in [Sides -> Seq(Frames)]
  /\ \A s \in Sides : Len(wire[s]) <= WireSize
  /\ \A s \in Sides : \A i \in 1..Len(urgent[s]) :
       urgent[s][i].kind \in {"hello", "refused", "settled", "live", "want", "missing"}
  /\ bulk \in [Sides -> Seq(Entries)] /\ open \in [Sides -> BOOLEAN]
  /\ held \in [Sides -> SUBSET Hashes] /\ lost \in [Sides -> SUBSET Hashes]

\* What a read loop may know, in each of its places; n pages come from its peer.
Sane(l, n) ==
  /\ l.pc = "hello" => l = NewLoop
  /\ l.pc = "exchange" => l.stop = "none" /\ compatible
  /\ l.pc \in {"live", "ended", "dropped"} => l.stop = "complete"
  /\ l.pc = "closing" => l.stop \in {"complete", "refused"}
  /\ l.pc = "over" => l.stop # "none"
  /\ l.stop = "complete" => Complete(l) /\ compatible
  /\ l.stop = "refused" => l.pc \in {"closing", "over"} /\ ~l.settled
  /\ l.settled <=> (l.peerDone /\ l.wanted = {})
  /\ l.peerDone => l.pages = n
  /\ l.pages <= n

\* Nothing is said before its time, and what is known of the peer is so.
SaysOn(s, kind) == Says(urgent[s], kind) \/ Says(wire[s], kind)

Truthful(s, t) ==
  /\ loop[t].peerSettled => loop[s].settled
  /\ SaysOn(s, "settled") => loop[s].settled
  /\ SaysOn(s, "refused") => ~compatible
  /\ SaysOn(s, "live") => loop[s].stop = "complete"

\* Where the read loop is in what its peer says, and what the peer will have said once
\* what is queued is written.  It will have, if it still writes, or left when all was.
Heard(l, n) ==
  [said |-> IF l.pc = "hello" THEN 0 ELSE IF l.peerSettled THEN 2 ELSE 1,
   page |-> IF l.peerDone THEN n + 1 ELSE l.pages,
   blob |-> l.blob]

Reading(l) == l.pc \in {"hello", "exchange", "live"}
Whole(l, isOpen, bad) == isOpen \/ (bad = 0 /\ l.stop \in {"complete", "refused"})
QueuedSaid(l) == IF l.settled THEN 2 ELSE 1
QueuedPages(l, n) == IF l.pc = "hello" \/ l.stop = "refused" THEN 0 ELSE n + 1

\* t's read loop hears s.
Hears(t, s) ==
  Reading(loop[t]) =>
    Stream(s, Heard(loop[t], Len(Delta[s])), wire[s], urgent[s], bulk[s], sending[s].hash,
           Whole(loop[s], open[s], failures), QueuedSaid(loop[s]),
           QueuedPages(loop[s], Len(Delta[s])))

\* What s's loop was told of is here, was taken away, is not to be had or is asked for.
Accounted(had, l, s, t) ==
  /\ \A i \in 1..l.pages : Delta[t][i] \subseteq had \cup l.lacked \cup l.wanted
  /\ l.peerDone => Owed[s] \subseteq had \cup l.lacked \cup l.wanted

\* The same for batches.
Awaited(had, l) ==
  /\ \A b \in l.pending : b.page \subseteq had \cup l.lacked \cup b.outstanding
  /\ \A page \in l.announced : page \subseteq had \cup l.lacked

\* While nothing fails, a writer stops before its loop is over only if the other has left.
Alone(s, t) == failures = 0 /\ ~open[s] /\ loop[s].pc # "over" => ~Reading(loop[t])

Of(s, t) ==
  /\ Sane(loop[s], Len(Delta[t]))
  /\ live[s].open => loop[s].stop = "complete"
  /\ Truthful(s, t)
  /\ Hears(s, t) /\ Alone(s, t)
  /\ Accounted(held[s] \cup lost[s], loop[s], s, t)
  /\ Awaited(held[s] \cup lost[s], live[s])

Inv == Typed /\ \A s \in Sides : Of(s, Peer(s))

LEMMA Both ==
  ASSUME Inv, NEW s \in Sides
  PROVE  /\ Pair(s, Peer(s)) /\ Of(s, Peer(s)) /\ Of(Peer(s), s)
         /\ s \in Sides /\ Peer(s) \in Sides
         /\ Typed /\ loop[s] \in Loops /\ live[s] \in Lives /\ sending[s] \in Sendings
         /\ urgent[s] \in Seq(Frames) /\ wire[s] \in Seq(Frames) /\ bulk[s] \in Seq(Entries)
         /\ open[s] \in BOOLEAN /\ held[s] \in SUBSET Hashes /\ lost[s] \in SUBSET Hashes
         /\ Delta[s] \in Seq(SUBSET Hashes) /\ Len(Delta[s]) \in Nat
  <1>1. Pair(s, Peer(s))
    BY PairOf
  <1>2. Delta \in [Sides -> Seq(SUBSET Hashes)]
    BY SessionAssumption
  <1>3. Of(s, Peer(s)) /\ Of(Peer(s), s)
    BY <1>1 DEF Inv, Pair
  <1>4. Typed
    BY DEF Inv
  <1> QED
    BY <1>1, <1>2, <1>3, <1>4 DEF Pair, Typed

LEMMA BothAfter ==
  ASSUME NEW s, NEW t, Pair(s, t), Typed', Of(s, t)', Of(t, s)'
  PROVE  Inv'
  BY DEF Pair, Inv

\* A state of the stream that the loop has heard is one.
LEMMA HeardIsState ==
  ASSUME NEW l \in Loops, NEW n \in Nat, l.pc = "hello" => l = NewLoop
  PROVE  Heard(l, n) \in States
  BY DEF Heard, States, Loops, NewLoop

LEMMA InitInv == Init => Inv
  <1> SUFFICES ASSUME Init PROVE Inv
    OBVIOUS
  <1> USE DEF Init
  <1>1. NewLoop \in Loops /\ NewLive \in Lives /\ NotSending \in Sendings
    BY DEF NewLoop, NewLive, NotSending, Loops, Lives, Sendings
  <1>2. <<Hello>> \in Seq(Frames) /\ <<>> \in Seq(Frames) /\ <<>> \in Seq(Entries)
    BY FramesAre
  <1>3. Len(<<>>) = 0 /\ Len(<<Hello>>) = 1 /\ <<Hello>>[1] = Hello /\ Hello.kind = "hello"
    BY DEF Hello
  <1>4. Typed
    BY <1>1, <1>2, <1>3, SessionAssumption DEF Typed, NotSending
  <1>5. ASSUME NEW s \in Sides PROVE Of(s, Peer(s))
    <2>1. Pair(s, Peer(s)) /\ Peer(s) \in Sides
      BY PairOf DEF Pair
    <2>2. PICK t : t = Peer(s)
      OBVIOUS
    <2>3. t \in Sides /\ Delta[t] \in Seq(SUBSET Hashes) /\ Len(Delta[t]) \in Nat
      BY <2>1, <2>2, SessionAssumption
    <2>4. Sane(loop[s], Len(Delta[t]))
      BY <2>3 DEF Sane, NewLoop, Complete
    <2>5. Truthful(s, t)
      BY <1>3, <2>3 DEF Truthful, SaysOn, Says, NewLoop
    <2>6. Heard(NewLoop, Len(Delta[t])) = At(0, 0)
      BY DEF Heard, NewLoop, At
    <2>7. Run(t, <<>>, At(0, 0), At(0, 0)) /\ Run(t, <<>>, At(1, 0), At(1, 0))
      BY RunNone, AtIsState
    <2>8. Run(t, <<Hello>>, At(0, 0), At(1, 0))
      <3>1. Legal(t, At(0, 0), Hello, At(1, 0))
        BY DEF Legal, Hello, At
      <3>2. <<Hello>> = Append(<<>>, Hello) /\ Hello \in Frames
        BY FramesAre
      <3>3. At(1, 0) \in States
        BY AtIsState
      <3>4. Run(t, Append(<<>>, Hello), At(0, 0), At(1, 0))
        BY <2>7, <3>1, <3>2, <3>3, <1>2, RunLast
      <3> QED
        BY <3>2, <3>4
    <2>9. Hears(s, t)
      <3>1. At(0, 0) \in States /\ At(0, 0).said = 0 /\ At(0, 0).page = 0 /\ At(0, 0).blob = NoHash
        BY AtIsState DEF At
      <3>2. /\ QueuedSaid(NewLoop) = 1 /\ QueuedPages(NewLoop, Len(Delta[t])) = 0
            /\ NotSending.hash = NoHash
        BY DEF QueuedSaid, QueuedPages, NewLoop, NotSending
      <3> QED
        BY <2>3, <2>6, <2>7, <2>8, <3>1, <3>2 DEF Hears, Stream
    <2>10. Accounted(held[s] \cup lost[s], loop[s], s, t)
      BY DEF Accounted, NewLoop
    <2>11. Awaited(held[s] \cup lost[s], live[s]) /\ ~live[s].open
      BY DEF Awaited, NewLive
    <2> QED
      BY <2>2, <2>4, <2>5, <2>9, <2>10, <2>11 DEF Of, Alone
  <1> QED
    BY <1>4, <1>5 DEF Inv

-----------------------------------------------------------------------------
\* The writer's steps.

\* What a writer's step has to do.
LEMMA WriterKeeps ==
  ASSUME Inv, NEW s, NEW t, Pair(s, t), Typed',
         UNCHANGED <<once, compatible, loop, held, live, lost, failures>>,
         urgent'[t] = urgent[t], bulk'[t] = bulk[t], sending'[t] = sending[t],
         wire'[t] = wire[t], open'[t] = open[t], open'[s] = open[s] \/ ~Reading(loop[t]),
         \A kind \in {"settled", "refused", "live"} :
           Says(urgent'[s], kind) \/ Says(wire'[s], kind) => SaysOn(s, kind),
         Reading(loop[t]) =>
           Stream(s, Heard(loop[t], Len(Delta[s])), wire'[s], urgent'[s], bulk'[s], sending'[s].hash,
                  Whole(loop[s], open'[s], failures), QueuedSaid(loop[s]),
                  QueuedPages(loop[s], Len(Delta[s])))
  PROVE  Inv'
  <1>1. Of(s, t) /\ Of(t, s)
    BY Both DEF Pair
  <1>2. Hears(t, s)'
    BY DEF Hears
  <1>3. Hears(s, t)'
    BY <1>1 DEF Hears, Of
  <1>4. Truthful(s, t)' /\ Truthful(t, s)'
    BY <1>1 DEF Truthful, SaysOn, Of
  <1>5. Alone(s, t)' /\ Alone(t, s)'
    BY <1>1 DEF Alone, Of
  <1>6. Of(s, t)' /\ Of(t, s)'
    BY <1>1, <1>2, <1>3, <1>4, <1>5 DEF Of, Sane
  <1> QED
    BY <1>6, BothAfter

LEMMA WriteUrgentKeeps ==
  ASSUME Inv, NEW s \in Sides, WriteUrgent(s)
  PROVE  Inv'
  <1>1. PICK t : t = Peer(s)
    OBVIOUS
  <1>2. /\ Pair(s, t) /\ Of(s, t) /\ Of(t, s) /\ s # t /\ t \in Sides /\ Typed
        /\ urgent[s] \in Seq(Frames) /\ wire[s] \in Seq(Frames)
    BY <1>1, Both DEF Pair
  <1>3. PICK u, w : u = urgent[s] /\ w = wire[s]
    OBVIOUS
  <1>4. u \in Seq(Frames) /\ w \in Seq(Frames) /\ u # <<>> /\ Head(u) \in Frames
    BY <1>2, <1>3 DEF WriteUrgent
  <1>5. /\ urgent' = [urgent EXCEPT ![s] = Tail(u)] /\ wire' = [wire EXCEPT ![s] = Append(w, Head(u))]
        /\ UNCHANGED <<once, compatible, loop, bulk, sending, open, held, live, lost, failures>>
        /\ open[s] /\ Len(w) < WireSize
    BY <1>3 DEF WriteUrgent, Write, CanWrite
  <1>6. /\ Tail(u) \in Seq(Frames) /\ Append(w, Head(u)) \in Seq(Frames)
        /\ urgent'[s] = Tail(u) /\ wire'[s] = Append(w, Head(u))
        /\ urgent'[t] = urgent[t] /\ wire'[t] = wire[t]
    BY <1>2, <1>4, <1>5 DEF Typed
  <1>7. \A i \in 1..Len(u) :
          u[i].kind \in {"hello", "refused", "settled", "live", "want", "missing"}
    BY <1>2, <1>3 DEF Typed
  <1>8. /\ Head(u).kind \in {"hello", "refused", "settled", "live", "want", "missing"}
        /\ \A i \in 1..Len(Tail(u)) :
             Tail(u)[i].kind \in {"hello", "refused", "settled", "live", "want", "missing"}
    <2>1. Head(u) = u[1] /\ 1 \in 1..Len(u)
      BY <1>4
    <2>2. ASSUME NEW i \in 1..Len(Tail(u)) PROVE Tail(u)[i] = u[i + 1] /\ i + 1 \in 1..Len(u)
      BY <1>4
    <2> QED
      BY <1>7, <2>1, <2>2
  <1>9. Typed'
    <2>1. /\ urgent' \in [Sides -> Seq(Frames)] /\ wire' \in [Sides -> Seq(Frames)]
      BY <1>2, <1>5, <1>6 DEF Typed
    <2>2. Len(Append(w, Head(u))) <= WireSize
      BY <1>4, <1>5, SessionAssumption
    <2>3. \A r \in Sides : Len(wire'[r]) <= WireSize
      BY <1>2, <1>5, <2>2 DEF Typed
    <2>4. \A r \in Sides : r # s => urgent'[r] = urgent[r]
      BY <1>2, <1>5 DEF Typed
    <2>5. \A r \in Sides : \A i \in 1..Len(urgent'[r]) :
            urgent'[r][i].kind \in {"hello", "refused", "settled", "live", "want", "missing"}
      BY <1>2, <1>6, <1>8, <2>4 DEF Typed
    <2> QED
      BY <1>2, <1>5, <2>1, <2>3, <2>5 DEF Typed
  <1>10. ASSUME NEW kind, Says(Tail(u), kind) \/ Says(Append(w, Head(u)), kind)
         PROVE  Says(u, kind) \/ Says(w, kind)
    BY <1>4, <1>10, SaysTail, SaysAppend
  <1>11. ASSUME Reading(loop[t])
         PROVE  Stream(s, Heard(loop[t], Len(Delta[s])), Append(w, Head(u)), Tail(u), bulk[s],
                       sending[s].hash, Whole(loop[s], open[s], failures), QueuedSaid(loop[s]),
                       QueuedPages(loop[s], Len(Delta[s])))
    <2>1. Whole(loop[s], open[s], failures) = TRUE
      BY <1>5 DEF Whole
    <2>2. Stream(s, Heard(loop[t], Len(Delta[s])), w, u, bulk[s],
                 sending[s].hash, TRUE, QueuedSaid(loop[s]), QueuedPages(loop[s], Len(Delta[s])))
      BY <1>2, <1>3, <1>11, <2>1 DEF Of, Hears
    <2> QED
      BY <1>4, <1>8, <2>1, <2>2, StreamUrgent
  <1> QED
    BY <1>2, <1>3, <1>5, <1>6, <1>9, <1>10, <1>11, WriterKeeps DEF SaysOn

\* A step that only adds a frame which the urgent queue is not asked for.
LEMMA WriteKeeps ==
  ASSUME Inv, NEW s, NEW t, Pair(s, t), NEW a \in Frames, NEW b \in Seq(Entries),
         NEW sent \in Sendings, sent.hash = NoHash => sent = NotSending,
         a.kind \notin {"settled", "refused", "live"}, CanWrite(s),
         wire' = [wire EXCEPT ![s] = Append(wire[s], a)], bulk' = [bulk EXCEPT ![s] = b],
         sending' = [sending EXCEPT ![s] = sent],
         UNCHANGED <<once, compatible, loop, urgent, open, held, live, lost, failures>>,
         Stream(s, Heard(loop[t], Len(Delta[s])), wire[s], urgent[s], bulk[s], sending[s].hash, TRUE,
                QueuedSaid(loop[s]), QueuedPages(loop[s], Len(Delta[s]))) =>
           Stream(s, Heard(loop[t], Len(Delta[s])), Append(wire[s], a), urgent[s], b, sent.hash, TRUE,
                  QueuedSaid(loop[s]), QueuedPages(loop[s], Len(Delta[s])))
  PROVE  Inv'
  <1>1. /\ Of(s, t) /\ Of(t, s) /\ s # t /\ s \in Sides /\ t \in Sides /\ Typed
        /\ urgent[s] \in Seq(Frames) /\ wire[s] \in Seq(Frames)
    BY Both DEF Pair
  <1>2. PICK w : w = wire[s]
    OBVIOUS
  <1>3. /\ wire'[s] = Append(w, a) /\ bulk'[s] = b /\ sending'[s] = sent /\ wire'[t] = wire[t]
        /\ bulk'[t] = bulk[t] /\ sending'[t] = sending[t]
        /\ w \in Seq(Frames) /\ Append(w, a) \in Seq(Frames) /\ Len(w) < WireSize /\ open[s]
    BY <1>1, <1>2 DEF Typed, CanWrite
  <1>4. Typed'
    <2>1. /\ wire' \in [Sides -> Seq(Frames)] /\ bulk' \in [Sides -> Seq(Entries)]
          /\ sending' \in [Sides -> Sendings]
      BY <1>1, <1>2, <1>3 DEF Typed
    <2>2. Len(Append(w, a)) <= WireSize
      BY <1>3, SessionAssumption
    <2>3. \A r \in Sides : Len(wire'[r]) <= WireSize
      BY <1>1, <1>2, <2>2 DEF Typed
    <2>4. \A r \in Sides : sending'[r].hash = NoHash => sending'[r] = NotSending
      BY <1>1 DEF Typed
    <2> QED
      BY <1>1, <2>1, <2>3, <2>4 DEF Typed
  <1>5. ASSUME NEW kind \in {"settled", "refused", "live"}, Says(Append(w, a), kind)
        PROVE  Says(w, kind)
    BY <1>3, <1>5, SaysAppend
  <1>6. Whole(loop[s], open[s], failures) = TRUE
    BY <1>3 DEF Whole
  <1>7. ASSUME Reading(loop[t])
        PROVE  Stream(s, Heard(loop[t], Len(Delta[s])), Append(w, a), urgent[s], b, sent.hash,
                      Whole(loop[s], open[s], failures), QueuedSaid(loop[s]),
                      QueuedPages(loop[s], Len(Delta[s])))
    BY <1>1, <1>2, <1>6, <1>7 DEF Of, Hears
  <1> QED
    BY <1>1, <1>2, <1>3, <1>4, <1>5, <1>7, WriterKeeps DEF SaysOn

LEMMA WriteBulkKeeps ==
  ASSUME Inv, NEW s \in Sides, WriteBulk(s)
  PROVE  Inv'
  <1>1. PICK t, b, m : t = Peer(s) /\ b = bulk[s] /\ m = Head(bulk[s])
    OBVIOUS
  <1>2. /\ Pair(s, t) /\ b \in Seq(Entries) /\ wire[s] \in Seq(Frames) /\ sending[s] \in Sendings
        /\ Typed
    BY <1>1, Both
  <1>3. /\ b # <<>> /\ CanWrite(s) /\ urgent[s] = <<>> /\ sending[s] = NotSending /\ Contents(m) = {}
    BY <1>1 DEF WriteBulk, WritesBulk
  <1>4. m \in Entries /\ Tail(b) \in Seq(Entries)
    BY <1>1, <1>2, <1>3
  <1>5. m.kind \in {"done", "updates"} /\ (m.kind = "updates" => m.page \in SUBSET Hashes)
    BY <1>3, <1>4, EntryFacts DEF Contents
  <1>6. PICK a : a = IF m.kind = "updates" THEN Updates(m.page) ELSE Done
    OBVIOUS
  <1>7. /\ a \in Frames /\ a.kind = m.kind /\ (a.kind = "updates" => a.page = m.page)
    BY <1>5, <1>6, FramesAre DEF Updates, Done
  <1>8. /\ wire' = [wire EXCEPT ![s] = Append(wire[s], a)] /\ bulk' = [bulk EXCEPT ![s] = Tail(b)]
        /\ UNCHANGED <<once, compatible, loop, urgent, sending, open, held, live, lost, failures>>
    BY <1>1, <1>6 DEF WriteBulk, Write
  <1>9. sending' = [sending EXCEPT ![s] = sending[s]] /\ (sending[s].hash = NoHash => sending[s] = NotSending)
    BY <1>2, <1>8 DEF Typed
  <1>10. QueuedSaid(loop[s]) > 0
    BY DEF QueuedSaid
  <1>11. ASSUME Stream(s, Heard(loop[t], Len(Delta[s])), wire[s], urgent[s], bulk[s], sending[s].hash, TRUE,
                       QueuedSaid(loop[s]), QueuedPages(loop[s], Len(Delta[s])))
         PROVE  Stream(s, Heard(loop[t], Len(Delta[s])), Append(wire[s], a), urgent[s], Tail(b), sending[s].hash,
                       TRUE, QueuedSaid(loop[s]), QueuedPages(loop[s], Len(Delta[s])))
    <2>1. sending[s].hash = NoHash
      BY <1>3 DEF NotSending
    <2> QED
      BY <1>1, <1>2, <1>3, <1>5, <1>7, <1>10, <1>11, <2>1, StreamBulk
  <1>12. a.kind \notin {"settled", "refused", "live"}
    BY <1>5, <1>7
  <1> QED
    BY <1>2, <1>3, <1>4, <1>7, <1>8, <1>9, <1>11, <1>12, WriteKeeps

LEMMA StartBlobKeeps ==
  ASSUME Inv, NEW s \in Sides, NEW h \in Hashes, StartBlob(s, h)
  PROVE  Inv'
  <1>1. PICK t, q, m, b : /\ t = Peer(s) /\ q = bulk[s] /\ m = Head(bulk[s]) /\ b = bulk'[s]
    OBVIOUS
  <1>2. /\ Pair(s, t) /\ q \in Seq(Entries) /\ wire[s] \in Seq(Frames) /\ sending[s] \in Sendings
        /\ Typed
    BY <1>1, Both
  <1>3. /\ q # <<>> /\ CanWrite(s) /\ urgent[s] = <<>> /\ sending[s] = NotSending /\ h \in Contents(m)
        /\ UNCHANGED <<once, compatible, loop, urgent, open, held, live, lost, failures>>
    BY <1>1 DEF StartBlob, WritesBulk
  <1>4. m \in Entries /\ m = q[1] /\ 1 \in 1..Len(q)
    BY <1>1, <1>2, <1>3
  <1>5. QueuedSaid(loop[s]) > 0 /\ h # NoHash /\ NotSending.hash = NoHash
    BY SessionAssumption DEF QueuedSaid, NotSending
  <1>6. /\ b \in Seq(Entries) /\ bulk' = [bulk EXCEPT ![s] = b]
        /\ \A x, y : Run(s, q, x, y) => Run(s, b, x, y)
    <2>1. CASE m.kind = "blob"
      <3>1. bulk' = [bulk EXCEPT ![s] = Tail(q)]
        BY <1>1, <2>1 DEF StartBlob
      <3>2. b = Tail(q) /\ bulk' = [bulk EXCEPT ![s] = b]
        BY <1>1, <1>2, <3>1 DEF Typed
      <3>3. b \in Seq(Entries)
        BY <1>2, <1>3, <3>2
      <3> QED
        BY <1>1, <1>2, <1>3, <2>1, <3>2, <3>3, RunDrop
    <2>2. CASE m.kind # "blob"
      <3>1. m.kind = "updates" /\ m.page \in SUBSET Hashes /\ m.inline \in SUBSET Hashes
            /\ m = Page(m.page, m.inline)
        BY <2>2, <1>3, <1>4, EntryFacts DEF Contents
      <3>2. PICK e : e = Page(m.page, m.inline \ {h})
        OBVIOUS
      <3>3. e \in Entries /\ e.kind = "updates" /\ e.page = m.page
        BY <3>1, <3>2, EntriesAre DEF Page
      <3>4. [m EXCEPT !.inline = @ \ {h}] = e
        <4>1. PICK p, i : p = m.page /\ i = m.inline /\ m = Page(p, i) /\ e = Page(p, i \ {h})
          BY <3>1, <3>2
        <4> QED
          BY <4>1 DEF Page
      <3>5. bulk' = [bulk EXCEPT ![s] = [q EXCEPT ![1] = [q[1] EXCEPT !.inline = @ \ {h}]]]
        BY <1>1, <2>2 DEF StartBlob
      <3>6. b = [q EXCEPT ![1] = e] /\ bulk' = [bulk EXCEPT ![s] = b]
        BY <1>1, <1>2, <1>4, <3>4, <3>5 DEF Typed
      <3>7. b \in Seq(Entries) /\ Len(b) = Len(q) /\ b[1] = e
            /\ \A i \in 1..Len(q) : i # 1 => b[i] = q[i]
        BY <1>2, <1>4, <3>3, <3>6
      <3>8. ASSUME NEW i \in 1..Len(q), NEW u, NEW v, Legal(s, u, q[i], v) PROVE Legal(s, u, b[i], v)
        <4>1. CASE i = 1
          <5>1. q[i] = m /\ b[i] = e
            BY <4>1, <1>4, <3>7
          <5>2. Legal(s, u, m, v)
            BY <5>1, <3>8
          <5>3. Legal(s, u, e, v)
            BY <5>2, <3>1, <3>3 DEF Legal
          <5> QED
            BY <5>1, <5>3
        <4>2. CASE i # 1
          BY <4>2, <3>7, <3>8
        <4> QED
          BY <4>1, <4>2
      <3>9. ASSUME NEW x, NEW y, Run(s, q, x, y) PROVE Run(s, b, x, y)
        BY <3>7, <3>8, <3>9, RunLike
      <3> QED
        BY <3>6, <3>7, <3>9
    <2> QED
      BY <2>1, <2>2
  <1>7. CASE wire' = [wire EXCEPT ![s] = Append(@, BlobStart(h))]
             /\ sending' = [sending EXCEPT ![s] = [hash |-> h, read |-> "no"]]
    <2>1. PICK a, sent : a = BlobStart(h) /\ sent = [hash |-> h, read |-> "no"]
      OBVIOUS
    <2>2. a \in Frames /\ sent \in Sendings /\ sent.hash = h /\ a.kind = "start" /\ a.hash = h
      BY <2>1, FramesAre DEF Sendings, BlobStart
    <2>3. \A e \in States : e.said > 0 /\ e.blob = NoHash => Legal(s, e, a, [e EXCEPT !.blob = h])
      BY <2>2 DEF Legal
    <2>4. /\ wire' = [wire EXCEPT ![s] = Append(wire[s], a)]
          /\ sending' = [sending EXCEPT ![s] = sent]
      BY <1>7, <2>1
    <2>5. ASSUME Stream(s, Heard(loop[t], Len(Delta[s])), wire[s], urgent[s], bulk[s], sending[s].hash, TRUE,
                        QueuedSaid(loop[s]), QueuedPages(loop[s], Len(Delta[s])))
          PROVE  Stream(s, Heard(loop[t], Len(Delta[s])), Append(wire[s], a), urgent[s], b, sent.hash,
                        TRUE, QueuedSaid(loop[s]), QueuedPages(loop[s], Len(Delta[s])))
      <3>1. Stream(s, Heard(loop[t], Len(Delta[s])), Append(wire[s], a), urgent[s], q, h,
                   TRUE, QueuedSaid(loop[s]), QueuedPages(loop[s], Len(Delta[s])))
        BY <1>1, <1>2, <1>3, <1>5, <2>2, <2>3, <2>5, StreamFrame
      <3> QED
        BY <1>6, <2>2, <3>1 DEF Stream
    <2> QED
      BY <1>2, <1>3, <1>5, <1>6, <2>2, <2>4, <2>5, WriteKeeps
  <1>8. CASE wire' = [wire EXCEPT ![s] = Append(@, Missing(h))] /\ UNCHANGED sending
    <2>1. PICK a : a = Missing(h)
      OBVIOUS
    <2>2. a \in Frames /\ a.kind = "missing"
      BY <2>1, FramesAre DEF Missing
    <2>3. \A e \in States : e.said > 0 /\ e.blob = NoHash => Legal(s, e, a, [e EXCEPT !.blob = NoHash])
      BY <2>2 DEF Legal, States
    <2>4. /\ wire' = [wire EXCEPT ![s] = Append(wire[s], a)]
          /\ sending' = [sending EXCEPT ![s] = sending[s]]
      BY <1>2, <1>8, <2>1 DEF Typed
    <2>5. ASSUME Stream(s, Heard(loop[t], Len(Delta[s])), wire[s], urgent[s], bulk[s], sending[s].hash, TRUE,
                        QueuedSaid(loop[s]), QueuedPages(loop[s], Len(Delta[s])))
          PROVE  Stream(s, Heard(loop[t], Len(Delta[s])), Append(wire[s], a), urgent[s], b, sending[s].hash,
                        TRUE, QueuedSaid(loop[s]), QueuedPages(loop[s], Len(Delta[s])))
      <3>1. Stream(s, Heard(loop[t], Len(Delta[s])), Append(wire[s], a), urgent[s], q, NoHash,
                   TRUE, QueuedSaid(loop[s]), QueuedPages(loop[s], Len(Delta[s])))
        BY <1>1, <1>2, <1>3, <1>5, <2>2, <2>3, <2>5, StreamFrame
      <3> QED
        BY <1>3, <1>5, <1>6, <3>1 DEF Stream
    <2> QED
      BY <1>2, <1>3, <1>6, <2>2, <2>4, <2>5, WriteKeeps
  <1> QED
    BY <1>7, <1>8 DEF StartBlob, Write

LEMMA WriteChunkKeeps ==
  ASSUME Inv, NEW s \in Sides, WriteChunk(s)
  PROVE  Inv'
  <1>1. PICK t, a, sent : /\ t = Peer(s) /\ a = BlobChunk
                          /\ sent = [sending[s] EXCEPT !.read = IF sending[s].hash \in held[s] THEN "right" ELSE "wrong"]
    OBVIOUS
  <1>2. /\ Pair(s, t) /\ bulk[s] \in Seq(Entries) /\ wire[s] \in Seq(Frames) /\ sending[s] \in Sendings
        /\ Typed
    BY <1>1, Both
  <1>3. /\ sent \in Sendings /\ sent.hash = sending[s].hash /\ sending[s].hash # NoHash
        /\ sending[s].hash \in Hashes \cup {NoHash}
    BY <1>1, <1>2 DEF Sendings, Typed, WriteChunk
  <1>4. /\ CanWrite(s) /\ urgent[s] = <<>> /\ sending' = [sending EXCEPT ![s] = sent]
        /\ wire' = [wire EXCEPT ![s] = Append(wire[s], a)]
        /\ bulk' = [bulk EXCEPT ![s] = bulk[s]]
        /\ UNCHANGED <<once, compatible, loop, urgent, open, held, live, lost, failures>>
    BY <1>1, <1>2 DEF WriteChunk, Write, Typed
  <1>5. a \in Frames /\ a.kind = "chunk" /\ QueuedSaid(loop[s]) > 0
    BY <1>1, FramesAre DEF BlobChunk, QueuedSaid
  <1>6. \A e \in States : e.said > 0 /\ e.blob = sending[s].hash => Legal(s, e, a, [e EXCEPT !.blob = sending[s].hash])
    BY <1>3, <1>5 DEF Legal, States
  <1>7. ASSUME Stream(s, Heard(loop[t], Len(Delta[s])), wire[s], urgent[s], bulk[s], sending[s].hash, TRUE,
                      QueuedSaid(loop[s]), QueuedPages(loop[s], Len(Delta[s])))
        PROVE  Stream(s, Heard(loop[t], Len(Delta[s])), Append(wire[s], a), urgent[s], bulk[s], sent.hash,
                      TRUE, QueuedSaid(loop[s]), QueuedPages(loop[s], Len(Delta[s])))
    BY <1>2, <1>3, <1>4, <1>5, <1>6, <1>7, StreamFrame
  <1> QED
    BY <1>2, <1>3, <1>4, <1>5, <1>7, WriteKeeps

LEMMA WriteEndKeeps ==
  ASSUME Inv, NEW s \in Sides, WriteEnd(s)
  PROVE  Inv'
  <1>1. PICK t, a : /\ t = Peer(s)
                    /\ a = IF sending[s].read = "right" THEN BlobEnd ELSE Aborted(sending[s].hash)
    OBVIOUS
  <1>2. /\ Pair(s, t) /\ bulk[s] \in Seq(Entries) /\ wire[s] \in Seq(Frames) /\ sending[s] \in Sendings
        /\ Typed
    BY <1>1, Both
  <1>3. sending[s].hash \in Hashes /\ sending[s].hash # NoHash
    BY <1>2, SessionAssumption DEF Sendings, Typed, WriteEnd, NotSending
  <1>4. /\ CanWrite(s) /\ sending' = [sending EXCEPT ![s] = NotSending]
        /\ wire' = [wire EXCEPT ![s] = Append(wire[s], a)]
        /\ bulk' = [bulk EXCEPT ![s] = bulk[s]]
        /\ UNCHANGED <<once, compatible, loop, urgent, open, held, live, lost, failures>>
    BY <1>1, <1>2 DEF WriteEnd, Write, Typed
  <1>5. a \in Frames /\ a.kind \in {"end", "aborted"} /\ (a.kind = "aborted" => a.hash = sending[s].hash)
    BY <1>1, <1>3, FramesAre DEF BlobEnd, Aborted
  <1>6. NotSending \in Sendings /\ NotSending.hash = NoHash
    BY DEF NotSending, Sendings
  <1>7. ASSUME Stream(s, Heard(loop[t], Len(Delta[s])), wire[s], urgent[s], bulk[s], sending[s].hash, TRUE,
                      QueuedSaid(loop[s]), QueuedPages(loop[s], Len(Delta[s])))
        PROVE  Stream(s, Heard(loop[t], Len(Delta[s])), Append(wire[s], a), urgent[s], bulk[s], NotSending.hash,
                      TRUE, QueuedSaid(loop[s]), QueuedPages(loop[s], Len(Delta[s])))
    BY <1>2, <1>3, <1>5, <1>6, <1>7, StreamEnd
  <1>8. a.kind \notin {"settled", "refused", "live"}
    BY <1>5
  <1> QED
    BY <1>2, <1>4, <1>5, <1>6, <1>7, <1>8, WriteKeeps

LEMMA StopTypes ==
  ASSUME Typed, NEW s \in Sides, StopWriter(s)
  PROVE  /\ open' \in [Sides -> BOOLEAN] /\ bulk' \in [Sides -> Seq(Entries)]
         /\ urgent' \in [Sides -> Seq(Frames)] /\ sending' \in [Sides -> Sendings]
         /\ \A r \in Sides : sending'[r].hash = NoHash => sending'[r] = NotSending
         /\ \A r \in Sides : \A i \in 1..Len(urgent'[r]) :
              urgent'[r][i].kind \in {"hello", "refused", "settled", "live", "want", "missing"}
  <1> USE DEF Typed, StopWriter
  <1>1. NotSending \in Sendings /\ Len(<<>>) = 0
    BY DEF NotSending, Sendings
  <1>2. \A r \in Sides : urgent'[r] = <<>> \/ urgent'[r] = urgent[r]
    OBVIOUS
  <1>3. ASSUME NEW r \in Sides, NEW i \in 1..Len(urgent'[r])
        PROVE  urgent'[r][i].kind \in {"hello", "refused", "settled", "live", "want", "missing"}
    <2>1. CASE urgent'[r] = <<>>
      BY <1>3, <2>1
    <2>2. CASE urgent'[r] = urgent[r]
      BY <1>3, <2>2
    <2> QED
      BY <1>2, <2>1, <2>2
  <1> QED
    BY <1>1, <1>3

LEMMA WriteFailsKeeps ==
  ASSUME Inv, NEW s \in Sides, WriteFails(s)
  PROVE  Inv'
  <1>1. PICK t : t = Peer(s)
    OBVIOUS
  <1>2. Pair(s, t) /\ Typed /\ s # t /\ t \in Sides
    BY <1>1, Both DEF Pair
  <1>3. ~Reading(loop[t])
    BY <1>1 DEF WriteFails, HasLeft, Reading
  <1>4. /\ open' = [open EXCEPT ![s] = FALSE] /\ urgent' = [urgent EXCEPT ![s] = <<>>]
        /\ bulk' = [bulk EXCEPT ![s] = <<>>] /\ sending' = [sending EXCEPT ![s] = NotSending]
        /\ UNCHANGED <<once, compatible, loop, wire, held, live, lost, failures>>
    BY DEF WriteFails, StopWriter
  <1>5. Typed'
    <2>1. StopWriter(s)
      BY DEF WriteFails
    <2> QED
      BY <1>2, <1>4, <2>1, StopTypes DEF Typed
  <1>6. \A kind : Says(urgent'[s], kind) \/ Says(wire'[s], kind) => SaysOn(s, kind)
    BY <1>2, <1>4, SaysNone DEF SaysOn, Typed
  <1> QED
    BY <1>2, <1>3, <1>4, <1>5, <1>6, WriterKeeps DEF Typed

-----------------------------------------------------------------------------
\* The ends of a loop.

LEMMA StopKeeps ==
  ASSUME Inv, NEW s \in Sides, NEW t, Pair(s, t), NEW why \in {"complete", "gone", "refused", "timeout"},
         \/ why = loop[s].stop
         \/ loop[s].stop = "none" /\ why \in {"gone", "timeout"},
         StopLoop(s, why), wire' = wire \/ (wire[t] # <<>> /\ Took(s)),
         held' \in [Sides -> SUBSET Hashes], held[s] \subseteq held'[s], held'[t] = held[t],
         failures' \in 0..MaxFailures, failures <= failures',
         UNCHANGED <<once, compatible, live, lost>>,
         Reading(loop[t]) /\ failures' = 0 /\ why \in {"complete", "refused"} => open[s] /\ Drained(s)
  PROVE  Inv'
  <1>1. /\ Of(s, t) /\ Of(t, s) /\ s # t /\ t \in Sides /\ t = Peer(s) /\ Typed /\ loop[s] \in Loops
        /\ urgent[s] \in Seq(Frames) /\ wire[t] \in Seq(Frames)
    BY Both DEF Pair
  <1>2. PICK l : l = [loop[s] EXCEPT !.pc = "over", !.stop = why]
    OBVIOUS
  <1>3. /\ l \in Loops /\ l.pc = "over" /\ l.stop = why /\ l.settled = loop[s].settled
        /\ l.peerSettled = loop[s].peerSettled /\ l.peerDone = loop[s].peerDone
        /\ l.wanted = loop[s].wanted /\ l.lacked = loop[s].lacked /\ l.pages = loop[s].pages
    BY <1>1, <1>2 DEF Loops
  <1>4. /\ loop' = [loop EXCEPT ![s] = l] /\ open' = [open EXCEPT ![s] = FALSE]
        /\ urgent' = [urgent EXCEPT ![s] = <<>>] /\ bulk' = [bulk EXCEPT ![s] = <<>>]
        /\ sending' = [sending EXCEPT ![s] = NotSending]
    BY <1>1, <1>2 DEF StopLoop, StopWriter, Typed
  <1>5. /\ loop'[s] = l /\ loop'[t] = loop[t] /\ open'[s] = FALSE /\ open'[t] = open[t]
        /\ urgent'[s] = <<>> /\ urgent'[t] = urgent[t] /\ bulk'[s] = <<>> /\ bulk'[t] = bulk[t]
        /\ sending'[s] = NotSending /\ sending'[t] = sending[t]
    BY <1>1, <1>4 DEF Typed
  <1>6. NotSending \in Sendings /\ NotSending.hash = NoHash /\ Len(<<>>) = 0
    BY DEF NotSending, Sendings
  <1>7. wire' \in [Sides -> Seq(Frames)] /\ wire'[s] = wire[s]
        /\ (wire'[t] = wire[t] \/ (wire[t] # <<>> /\ wire'[t] = Tail(wire[t])))
        /\ \A r \in Sides : Len(wire'[r]) <= WireSize
    <2>1. CASE wire' = wire
      BY <1>1, <2>1 DEF Typed
    <2>2. CASE wire[t] # <<>> /\ Took(s)
      <3>1. PICK w : w = Tail(wire[t])
        OBVIOUS
      <3>2. w \in Seq(Frames) /\ Len(w) <= Len(wire[t])
        BY <1>1, <2>2, <3>1
      <3>3. wire' = [wire EXCEPT ![t] = w]
        BY <1>1, <2>2, <3>1 DEF Took
      <3>4. Len(w) <= WireSize
        BY <1>1, <3>2, SessionAssumption DEF Typed
      <3> QED
        BY <1>1, <2>2, <3>1, <3>2, <3>3, <3>4 DEF Typed
    <2> QED
      BY <2>1, <2>2
  <1>8. Typed'
    <2>1. StopWriter(s)
      BY DEF StopLoop
    <2>2. loop' \in [Sides -> Loops]
      BY <1>1, <1>3, <1>4 DEF Typed
    <2>3. live' \in [Sides -> Lives] /\ lost' \in [Sides -> SUBSET Hashes] /\ once' \in SUBSET Sides
          /\ compatible' \in BOOLEAN
      BY <1>1 DEF Typed
    <2> QED
      BY <1>1, <1>7, <2>1, <2>2, <2>3, StopTypes DEF Typed
  <1>9. Sane(l, Len(Delta[t]))'
    BY <1>1, <1>3 DEF Of, Sane, Complete
  <1>10. \A kind : Says(wire'[t], kind) => Says(wire[t], kind)
    BY <1>1, <1>7, SaysTail
  <1>11. Truthful(s, t)' /\ Truthful(t, s)'
    BY <1>1, <1>3, <1>5, <1>7, <1>10, SaysNone DEF Of, Truthful, SaysOn
  <1>12. Hears(s, t)' /\ Alone(s, t)' /\ Alone(t, s)'
    BY <1>3, <1>5 DEF Hears, Alone, Reading
  <1>13. Hears(t, s)'
    <2>1. CASE Reading(loop[t]) /\ failures' = 0 /\ why \in {"complete", "refused"}
      <3>1. /\ urgent[s] = <<>> /\ bulk[s] = <<>> /\ sending[s] = NotSending /\ open[s]
            /\ why = loop[s].stop
        BY <2>1 DEF Drained
      <3>2. QueuedSaid(l) = QueuedSaid(loop[s])
        BY <1>3 DEF QueuedSaid
      <3>3. QueuedPages(l, Len(Delta[s])) = QueuedPages(loop[s], Len(Delta[s]))
        BY <1>1, <1>3, <2>1, <3>1 DEF QueuedPages, Of, Sane, NewLoop
      <3>4. Whole(loop[s], open[s], failures)
        BY <3>1 DEF Whole
      <3> QED
        BY <1>1, <1>5, <1>7, <2>1, <3>1, <3>2, <3>3, <3>4 DEF Of, Hears, Stream
    <2>2. CASE ~(failures' = 0 /\ why \in {"complete", "refused"})
      <3>1. Whole(l, FALSE, failures') = FALSE
        BY <1>3, <2>2 DEF Whole
      <3>2. ASSUME Reading(loop[t])
            PROVE  Stream(s, Heard(loop[t], Len(Delta[s])), wire[s], <<>>, <<>>, NotSending.hash,
                          Whole(l, FALSE, failures'), QueuedSaid(l), QueuedPages(l, Len(Delta[s])))
        BY <1>1, <3>1, <3>2, StreamClosed DEF Of, Hears
      <3> QED
        BY <1>5, <1>7, <3>2 DEF Hears
    <2>3. CASE ~Reading(loop[t])
      BY <1>5, <2>3 DEF Hears
    <2> QED
      BY <2>1, <2>2, <2>3
  <1>14. Accounted(held'[s] \cup lost'[s], loop'[s], s, t) /\ Awaited(held'[s] \cup lost'[s], live'[s])
    BY <1>1, <1>3, <1>5 DEF Of, Accounted, Awaited
  <1>15. live[s].open => why = "complete"
    BY <1>1 DEF Of
  <1>16. Of(s, t)'
    BY <1>3, <1>5, <1>9, <1>11, <1>12, <1>14, <1>15 DEF Of
  <1>17. Of(t, s)'
    BY <1>1, <1>5, <1>11, <1>12, <1>13 DEF Of, Sane
  <1> QED
    BY <1>8, <1>16, <1>17, BothAfter

LEMMA ReadEndKeeps ==
  ASSUME Inv, NEW s \in Sides, ReadEnd(s)
  PROVE  Inv'
  <1>1. PICK t : t = Peer(s) /\ Pair(s, t) /\ Of(s, t) /\ Typed
    BY Both
  <1>2. loop[s].stop = "none"
    BY <1>1 DEF Of, Sane, NewLoop, ReadEnd
  <1>3. /\ StopLoop(s, "gone") /\ wire' = wire /\ held' = held /\ failures' = failures
        /\ UNCHANGED <<once, compatible, live, lost>>
    BY DEF ReadEnd
  <1>4. /\ held' \in [Sides -> SUBSET Hashes] /\ held[s] \subseteq held'[s] /\ held'[t] = held[t]
        /\ failures' \in 0..MaxFailures /\ failures <= failures'
    BY <1>1, <1>3, SessionAssumption DEF Typed
  <1> QED
    BY <1>1, <1>2, <1>3, <1>4, StopKeeps

LEMMA CloseKeeps ==
  ASSUME Inv, NEW s \in Sides, Close(s)
  PROVE  Inv'
  <1>1. PICK t : t = Peer(s) /\ Pair(s, t) /\ Of(s, t) /\ Typed
    BY Both
  <1>2. loop[s].stop \in {"complete", "refused"} /\ loop[s].pc # "over"
    BY <1>1 DEF Of, Sane, Close
  <1>3. Reading(loop[t]) /\ failures = 0 => open[s] /\ Drained(s)
    BY <1>1, <1>2 DEF Of, Alone, Close
  <1> QED
    BY <1>1, <1>2, <1>3, StopKeeps DEF Close, Typed

LEMMA TimeoutKeeps ==
  ASSUME Inv, NEW s \in Sides, Timeout(s)
  PROVE  Inv'
  <1>1. PICK t, why : /\ t = Peer(s) /\ Pair(s, t) /\ Of(s, t) /\ Typed
                      /\ why = IF loop[s].pc = "closing" THEN loop[s].stop ELSE "timeout"
    BY Both
  <1>2. /\ StopLoop(s, why) /\ why \in {"complete", "gone", "refused", "timeout"}
        /\ \/ why = loop[s].stop
           \/ loop[s].stop = "none" /\ why \in {"gone", "timeout"}
    BY <1>1 DEF Timeout, Of, Sane, NewLoop
  <1>3. failures' \in 0..MaxFailures /\ failures <= failures' /\ failures' # 0
    BY <1>1, SessionAssumption DEF Timeout, Typed
  <1> QED
    BY <1>1, <1>2, <1>3, StopKeeps DEF Timeout, Typed

-----------------------------------------------------------------------------
\* The loop's other steps: s, which knew loop[s] and live[s], knows l and v after it, having
\* read the next frame or not, and queues controls and entries.

Kinds == {"refused", "settled", "live", "want", "missing"}

LEMMA QueueTypes ==
  ASSUME Typed, NEW s \in Sides, NEW controls \in Seq(Frames), NEW entries \in Seq(Entries),
         Send(s, controls, entries), \A i \in 1..Len(controls) : controls[i].kind \in Kinds
  PROVE  /\ bulk' \in [Sides -> Seq(Entries)] /\ urgent' \in [Sides -> Seq(Frames)]
         /\ \A r \in Sides : \A i \in 1..Len(urgent'[r]) :
              urgent'[r][i].kind \in {"hello", "refused", "settled", "live", "want", "missing"}
         /\ urgent'[s] = urgent[s] \o controls /\ bulk'[s] = bulk[s] \o entries
         /\ \A r \in Sides \ {s} : urgent'[r] = urgent[r] /\ bulk'[r] = bulk[r]
  <1>1. PICK u, b : u = urgent[s] /\ b = bulk[s]
    OBVIOUS
  <1>2. /\ u \in Seq(Frames) /\ b \in Seq(Entries)
        /\ u \o controls \in Seq(Frames) /\ b \o entries \in Seq(Entries)
        /\ \A i \in 1..Len(u) : u[i].kind \in {"hello", "refused", "settled", "live", "want", "missing"}
    BY <1>1 DEF Typed
  <1>3. /\ urgent' = [urgent EXCEPT ![s] = u \o controls] /\ bulk' = [bulk EXCEPT ![s] = b \o entries]
    BY <1>1 DEF Send
  <1>4. /\ urgent'[s] = u \o controls /\ bulk'[s] = b \o entries
        /\ \A r \in Sides \ {s} : urgent'[r] = urgent[r] /\ bulk'[r] = bulk[r]
        /\ bulk' \in [Sides -> Seq(Entries)] /\ urgent' \in [Sides -> Seq(Frames)]
    BY <1>2, <1>3 DEF Typed
  <1>5. ASSUME NEW i \in 1..Len(u \o controls)
        PROVE  (u \o controls)[i].kind \in {"hello", "refused", "settled", "live", "want", "missing"}
    <2>1. CASE i <= Len(u)
      <3>1. i \in 1..Len(u) /\ (u \o controls)[i] = u[i]
        BY <1>2, <2>1
      <3> QED
        BY <1>2, <3>1
    <2>2. CASE i > Len(u)
      <3>1. i - Len(u) \in 1..Len(controls) /\ (u \o controls)[i] = controls[i - Len(u)]
        BY <1>2, <2>2
      <3> QED
        BY <3>1 DEF Kinds
    <2> QED
      BY <1>2, <2>1, <2>2
  <1>6. ASSUME NEW r \in Sides, NEW i \in 1..Len(urgent'[r])
        PROVE  urgent'[r][i].kind \in {"hello", "refused", "settled", "live", "want", "missing"}
    <2>1. CASE r = s
      BY <1>4, <1>5, <1>6, <2>1
    <2>2. CASE r # s
      BY <1>4, <1>6, <2>2 DEF Typed
    <2> QED
      BY <2>1, <2>2
  <1> QED
    BY <1>1, <1>4, <1>6

LEMMA TookTypes ==
  ASSUME Typed, NEW s, NEW t, Pair(s, t), wire' = wire \/ (wire[t] # <<>> /\ Took(s))
  PROVE  /\ wire' \in [Sides -> Seq(Frames)] /\ wire'[s] = wire[s]
         /\ \A r \in Sides : Len(wire'[r]) <= WireSize
         /\ wire' # wire => wire[t] # <<>> /\ Took(s)
         /\ Took(s) => wire'[t] = Tail(wire[t])
         /\ wire' = wire => wire'[t] = wire[t]
         /\ \A kind : Says(wire'[t], kind) => Says(wire[t], kind)
  <1>1. s \in Sides /\ t \in Sides /\ s # t /\ t = Peer(s) /\ wire[t] \in Seq(Frames)
    BY DEF Pair, Typed
  <1>2. CASE wire' = wire
    BY <1>1, <1>2 DEF Typed, Took
  <1>3. CASE wire[t] # <<>> /\ Took(s)
    <2>1. PICK w : w = Tail(wire[t])
      OBVIOUS
    <2>2. w \in Seq(Frames) /\ Len(w) <= Len(wire[t])
      BY <1>1, <1>3, <2>1
    <2>3. wire' = [wire EXCEPT ![t] = w]
      BY <1>1, <1>3, <2>1 DEF Took
    <2>4. Len(w) <= WireSize
      BY <1>1, <2>2, SessionAssumption DEF Typed
    <2>5. \A kind : Says(w, kind) => Says(wire[t], kind)
      BY <1>1, <1>3, <2>1, SaysTail
    <2> QED
      BY <1>1, <1>3, <2>1, <2>2, <2>3, <2>4, <2>5 DEF Typed
  <1> QED
    BY <1>2, <1>3

\* n pages come from t, and m from s.
Turn(s, t, n, m, l, v, controls, entries) ==
  /\ n = Len(Delta[t]) /\ m = Len(Delta[s])
  /\ l \in Loops /\ v \in Lives /\ controls \in Seq(Frames) /\ entries \in Seq(Entries)
  /\ loop' = [loop EXCEPT ![s] = l] /\ live' = [live EXCEPT ![s] = v]
  /\ Send(s, controls, entries) /\ \A i \in 1..Len(controls) : controls[i].kind \in Kinds
  /\ wire' = wire \/ (wire[t] # <<>> /\ Took(s))
  /\ held' \in [Sides -> SUBSET Hashes] /\ held[s] \subseteq held'[s] /\ held'[t] = held[t]
  /\ failures' \in 0..MaxFailures /\ failures <= failures'
  /\ UNCHANGED <<once, compatible, sending, open, lost>>
  /\ Sane(l, n) /\ (v.open => l.stop = "complete")
  /\ (l.peerSettled => loop[t].settled) /\ (loop[s].settled => l.settled)
  /\ (loop[s].stop = "complete" => l.stop = "complete")
  /\ (Says(controls, "settled") => l.settled) /\ (Says(controls, "refused") => ~compatible)
  /\ (Says(controls, "live") => l.stop = "complete")
  /\ (l.pc # "over" => loop[s].pc # "over")
  /\ Reading(l) => /\ Reading(loop[s])
                   /\ wire' = wire => Heard(l, n) = Heard(loop[s], n)
                   /\ wire[t] # <<>> /\ Took(s) =>
                        \A y : Legal(t, Heard(loop[s], n), Head(wire[t]), y) => y = Heard(l, n)
  /\ Reading(loop[t]) /\ Whole(l, open[s], failures') =>
       /\ Whole(loop[s], open[s], failures)
       /\ Run(s, controls, At(QueuedSaid(loop[s]), 0), At(QueuedSaid(l), 0))
       /\ Run(s, entries, At(1, QueuedPages(loop[s], m)), At(1, QueuedPages(l, m)))
  /\ Accounted(held'[s] \cup lost[s], l, s, t) /\ Awaited(held'[s] \cup lost[s], v)

LEMMA TurnKeeps ==
  ASSUME Inv, NEW s, NEW t, Pair(s, t), NEW n, NEW m, NEW l, NEW v, NEW controls, NEW entries,
         Turn(s, t, n, m, l, v, controls, entries)
  PROVE  Inv'
  <1> USE DEF Turn
  <1>1. /\ Of(s, t) /\ Of(t, s) /\ s # t /\ s \in Sides /\ t \in Sides /\ t = Peer(s) /\ Typed
        /\ urgent[s] \in Seq(Frames) /\ wire[t] \in Seq(Frames) /\ bulk[s] \in Seq(Entries)
    BY Both DEF Pair, Typed
  <1>2. /\ loop'[s] = l /\ loop'[t] = loop[t] /\ live'[s] = v /\ live'[t] = live[t]
        /\ open' = open /\ sending' = sending /\ lost' = lost
    BY <1>1 DEF Typed
  <1>3. /\ urgent'[s] = urgent[s] \o controls /\ bulk'[s] = bulk[s] \o entries
        /\ urgent'[t] = urgent[t] /\ bulk'[t] = bulk[t]
        /\ bulk' \in [Sides -> Seq(Entries)] /\ urgent' \in [Sides -> Seq(Frames)]
        /\ \A r \in Sides : \A i \in 1..Len(urgent'[r]) :
             urgent'[r][i].kind \in {"hello", "refused", "settled", "live", "want", "missing"}
    BY <1>1, QueueTypes
  <1>4. Typed'
    <2>1. /\ loop' \in [Sides -> Loops] /\ live' \in [Sides -> Lives]
          /\ sending' \in [Sides -> Sendings] /\ open' \in [Sides -> BOOLEAN]
          /\ lost' \in [Sides -> SUBSET Hashes] /\ once' \in SUBSET Sides /\ compatible' \in BOOLEAN
          /\ \A r \in Sides : sending'[r].hash = NoHash => sending'[r] = NotSending
      BY <1>1 DEF Typed
    <2>2. wire' \in [Sides -> Seq(Frames)] /\ \A r \in Sides : Len(wire'[r]) <= WireSize
      BY <1>1, TookTypes
    <2> QED
      BY <1>3, <2>1, <2>2 DEF Typed
  <1>5. Sane(l, n)' /\ (live'[s].open => loop'[s].stop = "complete")
    BY <1>2 DEF Sane
  <1>6. Truthful(s, t)' /\ Truthful(t, s)'
    <2>1. \A kind : Says(urgent'[s], kind) => Says(urgent[s], kind) \/ Says(controls, kind)
      BY <1>1, <1>3, SaysCat
    <2>2. wire'[s] = wire[s] /\ \A kind : Says(wire'[t], kind) => Says(wire[t], kind)
      BY <1>1, TookTypes
    <2>3. \A kind : SaysOn(s, kind)' => SaysOn(s, kind) \/ Says(controls, kind)
      BY <2>1, <2>2 DEF SaysOn
    <2>4. \A kind : SaysOn(t, kind)' => SaysOn(t, kind)
      BY <1>3, <2>2 DEF SaysOn
    <2> QED
      BY <1>1, <1>2, <2>3, <2>4 DEF Of, Truthful
  <1>7. Hears(s, t)'
    <2> SUFFICES ASSUME Reading(l)
                 PROVE  Stream(t, Heard(l, n), wire'[t], urgent'[t], bulk'[t], sending'[t].hash,
                               Whole(loop[t], open[t], failures'), QueuedSaid(loop[t]),
                               QueuedPages(loop[t], n))
      BY <1>2 DEF Hears
    <2>1. Stream(t, Heard(loop[s], n), wire[t], urgent[t], bulk[t], sending[t].hash,
                 Whole(loop[t], open[t], failures), QueuedSaid(loop[t]), QueuedPages(loop[t], n))
      BY <1>1 DEF Of, Hears
    <2>2. Stream(t, Heard(l, n), wire'[t], urgent[t], bulk[t], sending[t].hash,
                 Whole(loop[t], open[t], failures), QueuedSaid(loop[t]), QueuedPages(loop[t], n))
      <3>1. CASE wire' = wire
        BY <2>1, <3>1
      <3>2. CASE wire' # wire
        <4>1. wire[t] # <<>> /\ Took(s) /\ wire'[t] = Tail(wire[t])
          BY <1>1, <3>2, TookTypes
        <4>2. PICK y \in States :
                /\ Legal(t, Heard(loop[s], n), Head(wire[t]), y)
                /\ Stream(t, y, Tail(wire[t]), urgent[t], bulk[t], sending[t].hash,
                          Whole(loop[t], open[t], failures), QueuedSaid(loop[t]), QueuedPages(loop[t], n))
          <5>1. PICK x, w : x = Heard(loop[s], n) /\ w = wire[t]
            OBVIOUS
          <5>2. w \in Seq(Frames) /\ w # <<>>
            BY <1>1, <4>1, <5>1
          <5>3. PICK whole, said, pages : /\ whole = Whole(loop[t], open[t], failures)
                                          /\ said = QueuedSaid(loop[t]) /\ pages = QueuedPages(loop[t], n)
            OBVIOUS
          <5>4. Stream(t, x, w, urgent[t], bulk[t], sending[t].hash, whole, said, pages)
            BY <2>1, <5>1, <5>3
          <5> QED
            BY <5>1, <5>2, <5>3, <5>4, StreamRead
        <4>3. y = Heard(l, n)
          BY <4>1, <4>2
        <4> QED
          BY <4>1, <4>2, <4>3
      <3> QED
        BY <3>1, <3>2
    <2>3. Whole(loop[t], open[t], failures') => Whole(loop[t], open[t], failures)
      BY <1>1, SessionAssumption DEF Whole, Typed
    <2> QED
      BY <1>2, <1>3, <2>2, <2>3 DEF Stream
  <1>8. Hears(t, s)'
    <2> SUFFICES ASSUME Reading(loop[t])
                 PROVE  Stream(s, Heard(loop[t], m), wire'[s], urgent'[s], bulk'[s], sending'[s].hash,
                               Whole(l, open[s], failures'), QueuedSaid(l), QueuedPages(l, m))
      BY <1>2 DEF Hears
    <2>1. Stream(s, Heard(loop[t], m), wire[s], urgent[s], bulk[s], sending[s].hash,
                 Whole(loop[s], open[s], failures), QueuedSaid(loop[s]), QueuedPages(loop[s], m))
      BY <1>1 DEF Of, Hears
    <2>2. wire'[s] = wire[s] /\ sending'[s] = sending[s]
      BY <1>1, <1>2, TookTypes
    <2>3. CASE Whole(l, open[s], failures')
      <3>1. Stream(s, Heard(loop[t], m), wire[s], urgent[s], bulk[s], sending[s].hash,
                   TRUE, QueuedSaid(loop[s]), QueuedPages(loop[s], m))
        BY <2>1, <2>3 DEF Stream
      <3>2. Stream(s, Heard(loop[t], m), wire[s], urgent[s] \o controls, bulk[s] \o entries,
                   sending[s].hash, TRUE, QueuedSaid(l), QueuedPages(l, m))
        BY <1>1, <2>3, <3>1, StreamQueue
      <3> QED
        BY <1>3, <2>2, <3>2 DEF Stream
    <2>4. CASE ~Whole(l, open[s], failures')
      <3>1. Whole(l, open[s], failures') = FALSE
        BY <2>4 DEF Whole
      <3> QED
        BY <2>1, <2>2, <3>1 DEF Stream
    <2> QED
      BY <2>3, <2>4
  <1>9. Alone(s, t)' /\ Alone(t, s)'
    <2>1. failures' = 0 => failures = 0
      BY <1>1, SessionAssumption DEF Typed
    <2>2. Alone(s, t) /\ Alone(t, s)
      BY <1>1 DEF Of
    <2>3. Alone(s, t)'
      BY <1>2, <2>1, <2>2 DEF Alone
    <2>4. Alone(t, s)'
      BY <1>2, <2>1, <2>2 DEF Alone
    <2> QED
      BY <2>3, <2>4
  <1>10. Of(s, t)'
    BY <1>2, <1>5, <1>6, <1>7, <1>9 DEF Of
  <1>11. Of(t, s)'
    BY <1>1, <1>2, <1>6, <1>8, <1>9 DEF Of, Sane
  <1> QED
    BY <1>4, <1>10, <1>11, BothAfter

-----------------------------------------------------------------------------
\* The exchange.

\* What may be said at any time once Hello was.
LEMMA RunSmall ==
  ASSUME NEW p, NEW T, NEW q \in Seq(T), NEW x \in States, x.said > 0,
         \A i \in 1..Len(q) : q[i].kind \in {"want", "missing", "blob", "refused"}
  PROVE  Run(p, q, x, x)
  <1>1. \A i \in 1..Len(q) : Legal(p, x, q[i], x)
    BY DEF Legal
  <1> QED
    BY <1>1, RunSame

\* s reads the next frame in the exchange: it knows l then, and answers.
Reply(s, t, n, l, controls, entries) ==
  /\ n = Len(Delta[t]) /\ l \in Loops /\ controls \in Seq(Frames) /\ entries \in Seq(Entries)
  /\ loop[s].pc = "exchange" /\ wire[t] # <<>> /\ Handled(s, l, controls, entries) /\ live' = live
  /\ held' \in [Sides -> SUBSET Hashes] /\ held[s] \subseteq held'[s] /\ held'[t] = held[t]
  /\ l.pc = "exchange" /\ l.stop = "none" /\ l.settled = loop[s].settled
  /\ (l.settled => l.peerDone /\ l.wanted = {}) /\ (l.peerDone => l.pages = n) /\ l.pages <= n
  /\ (l.peerSettled => loop[t].settled)
  /\ \A y : Legal(t, Heard(loop[s], n), Head(wire[t]), y) => y = Heard(l, n)
  /\ \A i \in 1..Len(controls) : controls[i].kind \in {"want", "missing"}
  /\ \A i \in 1..Len(entries) : entries[i].kind = "blob"
  /\ Accounted(held'[s] \cup lost[s], l, s, t)

LEMMA ReplyKeeps ==
  ASSUME Inv, NEW s, NEW t, Pair(s, t), NEW n, NEW l, NEW controls, NEW entries,
         Reply(s, t, n, l, controls, entries)
  PROVE  Inv'
  <1> USE DEF Reply
  <1>1. /\ Of(s, t) /\ Of(t, s) /\ s \in Sides /\ t \in Sides /\ Typed /\ loop[s].stop = "none"
    BY Both DEF Pair, Of, Sane
  <1>2. PICK out : out = IF Settles(l) THEN Append(controls, Settled) ELSE controls
    OBVIOUS
  <1>3. /\ Took(s) /\ UNCHANGED <<once, compatible, lost, failures>>
        /\ failures' \in 0..MaxFailures /\ failures <= failures'
    <2>1. Took(s) /\ UNCHANGED <<once, compatible, lost, failures>>
      BY DEF Handled
    <2>2. failures \in 0..MaxFailures /\ failures \in Nat
      BY <1>1, SessionAssumption DEF Typed
    <2> QED
      BY <2>1, <2>2
  <1>4. CASE (out # <<>> \/ entries # <<>>) /\ ~open[s]
    <2>1. StopLoop(s, "gone")
      BY <1>2, <1>4 DEF Handled
    <2> QED
      BY <1>1, <1>3, <2>1, StopKeeps
  <1>5. CASE ~((out # <<>> \/ entries # <<>>) /\ ~open[s])
    <2>1. PICK k : k = [l EXCEPT !.settled = @ \/ Settles(l)]
      OBVIOUS
    <2>2. /\ k \in Loops /\ k.pc = "exchange" /\ k.stop = "none" /\ (k.settled <=> l.settled \/ Settles(l))
          /\ k.peerDone = l.peerDone /\ k.wanted = l.wanted /\ k.lacked = l.lacked /\ k.pages = l.pages
          /\ k.peerSettled = l.peerSettled /\ k.blob = l.blob
      BY <2>1 DEF Loops, Settles
    <2>3. loop' = [loop EXCEPT ![s] = k] /\ Send(s, out, entries) /\ UNCHANGED <<sending, open>>
      BY <1>2, <1>5, <2>1 DEF Handled
    <2>4. Settled \in Frames /\ Settled.kind = "settled"
      BY FramesAre DEF Settled
    <2>5. /\ out \in Seq(Frames) /\ \A i \in 1..Len(out) : out[i].kind \in {"want", "missing", "settled"}
          /\ Says(out, "settled") => k.settled
          /\ ~Says(out, "refused") /\ ~Says(out, "live")
      <3>1. \A kind : Says(controls, kind) => kind \in {"want", "missing"}
        BY DEF Says
      <3>2. CASE ~Settles(l)
        BY <1>2, <3>1, <3>2
      <3>3. CASE Settles(l)
        <4>1. out = Append(controls, Settled) /\ out \in Seq(Frames)
          BY <1>2, <2>4, <3>3
        <4>2. \A kind : Says(out, kind) => kind \in {"want", "missing", "settled"}
          BY <2>4, <3>1, <4>1, SaysAppend
        <4>3. \A i \in 1..Len(out) : Says(out, out[i].kind)
          BY DEF Says
        <4>4. ASSUME NEW i \in 1..Len(out) PROVE out[i].kind \in {"want", "missing", "settled"}
          BY <4>2, <4>3
        <4>5. ~Says(out, "refused") /\ ~Says(out, "live") /\ k.settled
          BY <2>2, <3>3, <4>2
        <4> QED
          BY <4>1, <4>4, <4>5
      <3> QED
        BY <3>2, <3>3
    <2>6. Sane(k, n)
      BY <1>1, <2>2 DEF Of, Sane, Settles, Loops
    <2>7. Heard(k, n) = Heard(l, n)
      BY <2>2 DEF Heard
    <2>8. Run(s, out, At(QueuedSaid(loop[s]), 0), At(QueuedSaid(k), 0))
      <3>1. Run(s, controls, At(QueuedSaid(loop[s]), 0), At(QueuedSaid(loop[s]), 0))
        <4>1. /\ At(QueuedSaid(loop[s]), 0) \in States /\ At(QueuedSaid(loop[s]), 0).said > 0
          BY AtIsState DEF QueuedSaid, At
        <4> QED
          BY <4>1, RunSmall
      <3>2. CASE ~Settles(l)
        <4>1. QueuedSaid(k) = QueuedSaid(loop[s])
          BY <2>2, <3>2 DEF QueuedSaid
        <4> QED
          BY <1>2, <3>1, <3>2, <4>1
      <3>3. CASE Settles(l)
        <4>1. QueuedSaid(loop[s]) = 1 /\ QueuedSaid(k) = 2
          BY <2>2, <3>3 DEF QueuedSaid, Settles
        <4>2. Legal(s, At(1, 0), Settled, At(2, 0)) /\ At(2, 0) \in States
          BY AtIsState DEF Legal, At, Settled
        <4>3. Run(s, Append(controls, Settled), At(1, 0), At(2, 0))
          BY <2>4, <3>1, <4>1, <4>2, RunLast
        <4> QED
          BY <1>2, <3>3, <4>1, <4>3
      <3> QED
        BY <3>2, <3>3
    <2>9. PICK m : m = Len(Delta[s])
      OBVIOUS
    <2>10. QueuedPages(k, m) = QueuedPages(loop[s], m) /\ QueuedPages(k, m) = m + 1
      BY <1>1, <2>2 DEF QueuedPages
    <2>11. Run(s, entries, At(1, QueuedPages(loop[s], m)), At(1, QueuedPages(k, m)))
      <3>1. m \in Nat
        BY <1>1, <2>9, Both
      <3>2. At(1, m + 1) \in States /\ At(1, m + 1).said > 0
        BY <3>1, AtIsState DEF At
      <3> QED
        BY <2>10, <3>2, RunSmall
    <2>12. Whole(k, open[s], failures') => Whole(loop[s], open[s], failures)
      BY <2>2 DEF Whole
    <2>13. Accounted(held'[s] \cup lost[s], k, s, t) /\ Awaited(held'[s] \cup lost[s], live[s])
      BY <1>1, <2>2 DEF Accounted, Awaited, Of
    <2>14. live' = [live EXCEPT ![s] = live[s]] /\ live[s] \in Lives /\ ~live[s].open
      BY <1>1 DEF Typed, Of
    <2>15. Reading(k) /\ Reading(loop[s]) /\ wire' # wire
      <3>1. Tail(wire[t]) # wire[t]
        <4>1. PICK w : w = wire[t]
          OBVIOUS
        <4>2. w \in Seq(Frames) /\ w # <<>>
          BY <1>1, <4>1 DEF Typed
        <4>3. PICK k1, k2 : k1 = Len(w) /\ k2 = Len(Tail(w))
          OBVIOUS
        <4>4. k1 \in Nat /\ k2 = k1 - 1
          BY <4>2, <4>3
        <4>5. k1 # k2
          BY <4>4
        <4> QED
          BY <4>1, <4>3, <4>5
      <3>2. wire'[t] = Tail(wire[t])
        BY <1>1, <1>3 DEF Took, Pair, Typed
      <3> QED
        BY <2>2, <3>1, <3>2 DEF Reading
    <2>16. /\ k.peerSettled => loop[t].settled
           /\ loop[s].settled => k.settled
           /\ \A i \in 1..Len(out) : out[i].kind \in Kinds
      BY <2>2, <2>5 DEF Kinds
    <2>17. Reading(k) => /\ Reading(loop[s])
                         /\ wire' = wire => Heard(k, n) = Heard(loop[s], n)
                         /\ wire[t] # <<>> /\ Took(s) =>
                              \A y : Legal(t, Heard(loop[s], n), Head(wire[t]), y) => y = Heard(k, n)
      BY <2>7, <2>15
    <2>18. Reading(loop[t]) /\ Whole(k, open[s], failures') =>
             /\ Whole(loop[s], open[s], failures)
             /\ Run(s, out, At(QueuedSaid(loop[s]), 0), At(QueuedSaid(k), 0))
             /\ Run(s, entries, At(1, QueuedPages(loop[s], m)), At(1, QueuedPages(k, m)))
      BY <2>8, <2>11, <2>12
    <2>19. /\ live[s].open => k.stop = "complete"
           /\ loop[s].stop = "complete" => k.stop = "complete"
           /\ Says(out, "settled") => k.settled
           /\ Says(out, "refused") => ~compatible
           /\ Says(out, "live") => k.stop = "complete"
           /\ k.pc # "over" => loop[s].pc # "over"
      BY <1>1, <2>5, <2>14
    <2>20. /\ wire' = wire \/ (wire[t] # <<>> /\ Took(s))
           /\ UNCHANGED <<once, compatible, sending, open, lost>>
      BY <1>3, <2>3
    <2> QED
      <3>1. Turn(s, t, n, m, k, live[s], out, entries)
        BY <1>3, <2>2, <2>3, <2>5, <2>6, <2>9, <2>13, <2>14, <2>16, <2>17, <2>18, <2>19, <2>20 DEF Turn
      <3> QED
        BY <3>1, TurnKeeps
  <1> QED
    BY <1>4, <1>5

\* A loop that reads knows what may come.
LEMMA NextFrame ==
  ASSUME Inv, NEW s, NEW t, Pair(s, t), NEW n, n = Len(Delta[t]), Reading(loop[s]), wire[t] # <<>>
  PROVE  /\ Head(wire[t]) \in Frames
         /\ \E y \in States : Legal(t, Heard(loop[s], n), Head(wire[t]), y)
         /\ \A kind \in {"settled", "refused", "live"} : Head(wire[t]).kind = kind => SaysOn(t, kind)
  <1>1. Of(s, t) /\ wire[t] \in Seq(Frames)
    BY Both DEF Pair, Typed
  <1>2. PICK w : w = wire[t]
    OBVIOUS
  <1>3. w \in Seq(Frames) /\ w # <<>> /\ Head(w) \in Frames
    BY <1>1, <1>2
  <1>4. PICK e : Run(t, w, Heard(loop[s], n), e)
    BY <1>1, <1>2 DEF Of, Hears, Stream
  <1>5. \E y \in States : Legal(t, Heard(loop[s], n), Head(w), y)
    BY <1>3, <1>4, RunFirst
  <1>6. \A kind : Head(w).kind = kind => Says(w, kind)
    BY <1>3, SaysTail
  <1> QED
    BY <1>2, <1>3, <1>5, <1>6 DEF SaysOn

\* s, which knows l, has the frame f of t to read in the exchange; n pages come from t.
Facing(s, t, n, f, l) ==
  /\ t = Peer(s) /\ n = Len(Delta[t]) /\ f = Head(wire[t]) /\ l = loop[s] /\ wire[t] # <<>>
  /\ Pair(s, t) /\ s \in Sides /\ t \in Sides /\ s # t
  /\ Typed /\ Of(s, t) /\ Of(t, s) /\ n \in Nat /\ Delta[t] \in Seq(SUBSET Hashes)
  /\ l \in Loops /\ l.pc = "exchange" /\ ~Complete(l) /\ f \in Frames
  /\ l.stop = "none" /\ l.pages <= n /\ (l.peerDone => l.pages = n)
  /\ (l.settled => l.peerDone /\ l.wanted = {}) /\ (l.peerSettled => loop[t].settled)
  /\ held \in [Sides -> SUBSET Hashes] /\ held[s] \in SUBSET Hashes
  /\ Accounted(held[s] \cup lost[s], l, s, t)
  /\ \E y \in States : Legal(t, Heard(l, n), f, y)

LEMMA InExchange ==
  ASSUME Inv, NEW s \in Sides, NEW kind, Reads(s, kind)
  PROVE  \E t, n, f, l : Facing(s, t, n, f, l) /\ f.kind = kind
  <1>1. PICK t, n, f, l : t = Peer(s) /\ n = Len(Delta[t]) /\ f = Head(wire[t]) /\ l = loop[s]
    OBVIOUS
  <1>2. /\ Pair(s, t) /\ Typed /\ Of(s, t) /\ Of(t, s) /\ n \in Nat /\ Delta[t] \in Seq(SUBSET Hashes)
        /\ l \in Loops /\ held[s] \in SUBSET Hashes /\ held \in [Sides -> SUBSET Hashes]
        /\ s \in Sides /\ t \in Sides /\ s # t
    BY <1>1, Both, SessionAssumption DEF Pair, Typed
  <1>3. /\ l.pc = "exchange" /\ ~Complete(l) /\ wire[t] # <<>> /\ f.kind = kind /\ Reading(l)
    BY <1>1 DEF Reads, Incoming, Reading
  <1>4. f \in Frames /\ \E y \in States : Legal(t, Heard(l, n), f, y)
    BY <1>1, <1>2, <1>3, NextFrame
  <1>5. /\ l.stop = "none" /\ l.pages <= n /\ (l.peerDone => l.pages = n)
        /\ (l.settled => l.peerDone /\ l.wanted = {}) /\ (l.peerSettled => loop[t].settled)
        /\ Accounted(held[s] \cup lost[s], l, s, t)
    BY <1>1, <1>2, <1>3 DEF Of, Sane, Truthful
  <1>6. Facing(s, t, n, f, l)
    BY <1>1, <1>2, <1>3, <1>4, <1>5 DEF Facing
  <1> QED
    BY <1>3, <1>6

LEMMA ReadUpdatesKeeps ==
  ASSUME Inv, NEW s \in Sides, ReadUpdates(s)
  PROVE  Inv'
  <1>1. Reads(s, "updates")
    BY DEF ReadUpdates
  <1>2. PICK t, n, f, l : Facing(s, t, n, f, l) /\ f.kind = "updates"
    BY <1>1, InExchange
  <1> USE DEF Facing
  <1>3. f.page \in SUBSET Hashes
    BY <1>2, FrameFacts
  <1>4. l.pages \in Nat /\ ~l.peerDone /\ l.pages < n /\ f.page = Delta[t][l.pages + 1]
    BY <1>2 DEF Legal, Heard, Loops
  <1>5. PICK asked, k : /\ asked = (f.page \ held[s]) \ l.wanted
                        /\ k = [l EXCEPT !.pages = @ + 1, !.wanted = @ \cup asked]
    OBVIOUS
  <1>6. /\ Handled(s, k, Wants(asked), <<>>) /\ live' = live /\ held' = held
    BY <1>2, <1>5 DEF ReadUpdates, Incoming
  <1>7. /\ asked \in SUBSET Hashes /\ k \in Loops /\ k.pc = "exchange" /\ k.stop = "none"
        /\ k.settled = l.settled /\ k.peerDone = l.peerDone /\ k.peerSettled = l.peerSettled
        /\ k.pages = l.pages + 1 /\ k.wanted = l.wanted \cup asked /\ k.lacked = l.lacked
        /\ k.blob = l.blob
    <2>1. PICK p, w : p = l.pages + 1 /\ w = l.wanted \cup asked
      OBVIOUS
    <2>2. p \in Nat /\ asked \in SUBSET Hashes /\ w \in SUBSET Hashes
      BY <1>2, <1>3, <1>4, <1>5, <2>1 DEF Loops
    <2>3. k = [l EXCEPT !.pages = p, !.wanted = w]
      BY <1>5, <2>1
    <2> QED
      BY <1>2, <2>1, <2>2, <2>3 DEF Loops
  <1>8. Wants(asked) \in Seq(Frames) /\ \A i \in 1..Len(Wants(asked)) : Wants(asked)[i].kind = "want"
    BY <1>7, WantsAre
  <1>9. \A z : Legal(t, Heard(l, n), f, z) => z = Heard(k, n)
    BY <1>2, <1>4, <1>7 DEF Legal, Heard
  <1>10. Accounted(held[s] \cup lost[s], k, s, t)
    <2>1. ASSUME NEW i \in 1..k.pages PROVE Delta[t][i] \subseteq (held[s] \cup lost[s]) \cup k.lacked \cup k.wanted
      <3>1. CASE i = l.pages + 1
        BY <1>4, <1>5, <1>7, <3>1
      <3>2. CASE i # l.pages + 1
        <4>1. i \in 1..l.pages
          BY <1>4, <1>7, <3>2
        <4> QED
          BY <1>2, <1>7, <4>1 DEF Accounted
      <3> QED
        BY <3>1, <3>2
    <2> QED
      BY <1>4, <1>7, <2>1 DEF Accounted
  <1>11. /\ held' \in [Sides -> SUBSET Hashes] /\ held[s] \subseteq held'[s] /\ held'[t] = held[t]
    BY <1>2, <1>6 DEF Typed
  <1>12. Reply(s, t, n, k, Wants(asked), <<>>)
    BY <1>2, <1>4, <1>6, <1>7, <1>8, <1>9, <1>10, <1>11 DEF Reply
  <1> QED
    BY <1>2, <1>12, ReplyKeeps

LEMMA ReadDoneKeeps ==
  ASSUME Inv, NEW s \in Sides, ReadDone(s)
  PROVE  Inv'
  <1>1. Reads(s, "done")
    BY DEF ReadDone
  <1>2. PICK t, n, f, l : Facing(s, t, n, f, l) /\ f.kind = "done"
    BY <1>1, InExchange
  <1> USE DEF Facing
  <1>3. l.pages \in Nat /\ ~l.peerDone /\ l.pages = n
    BY <1>2 DEF Legal, Heard, Loops
  <1>4. PICK asked, k : /\ asked = ((Owed[s] \ held[s]) \ l.lacked) \ l.wanted
                        /\ k = [l EXCEPT !.peerDone = TRUE, !.wanted = @ \cup asked]
    OBVIOUS
  <1>5. /\ Handled(s, k, Wants(asked), <<>>) /\ live' = live /\ held' = held
    BY <1>2, <1>4 DEF ReadDone
  <1>6. /\ asked \in SUBSET Hashes /\ k \in Loops /\ k.pc = "exchange" /\ k.stop = "none"
        /\ k.settled = l.settled /\ k.peerDone /\ k.peerSettled = l.peerSettled
        /\ k.pages = l.pages /\ k.wanted = l.wanted \cup asked /\ k.lacked = l.lacked
        /\ k.blob = l.blob
    <2>1. asked \in SUBSET Hashes
      BY <1>2, <1>4, SessionAssumption
    <2>2. PICK w : w = l.wanted \cup asked
      OBVIOUS
    <2>3. w \in SUBSET Hashes /\ k = [l EXCEPT !.peerDone = TRUE, !.wanted = w]
      BY <1>2, <1>4, <2>1, <2>2 DEF Loops
    <2> QED
      BY <1>2, <2>1, <2>2, <2>3 DEF Loops
  <1>7. Wants(asked) \in Seq(Frames) /\ \A i \in 1..Len(Wants(asked)) : Wants(asked)[i].kind = "want"
    BY <1>6, WantsAre
  <1>8. \A z : Legal(t, Heard(l, n), f, z) => z = Heard(k, n)
    BY <1>2, <1>3, <1>6 DEF Legal, Heard
  <1>9. Accounted(held[s] \cup lost[s], k, s, t)
    BY <1>2, <1>4, <1>6 DEF Accounted
  <1>10. /\ held' \in [Sides -> SUBSET Hashes] /\ held[s] \subseteq held'[s] /\ held'[t] = held[t]
    BY <1>2, <1>5
  <1>11. ~l.settled
    BY <1>2, <1>3
  <1>12. Reply(s, t, n, k, Wants(asked), <<>>)
    BY <1>2, <1>3, <1>5, <1>6, <1>7, <1>8, <1>9, <1>10, <1>11 DEF Reply
  <1> QED
    BY <1>2, <1>12, ReplyKeeps

\* What a side that has nothing to ask or answer knows then.
LEMMA NotedKeeps ==
  ASSUME Inv, NEW s, NEW t, NEW n, NEW f, NEW l, Facing(s, t, n, f, l), NEW k \in Loops,
         k.pc = "exchange", k.stop = "none", k.settled = l.settled, k.peerDone = l.peerDone,
         k.pages = l.pages, k.wanted \subseteq l.wanted,
         l.wanted \cup l.lacked \subseteq k.wanted \cup k.lacked \cup held'[s], l.lacked \subseteq k.lacked,
         k.peerSettled => loop[t].settled,
         \A y : Legal(t, Heard(l, n), f, y) => y = Heard(k, n),
         held' \in [Sides -> SUBSET Hashes], held[s] \subseteq held'[s], held'[t] = held[t],
         Handled(s, k, <<>>, <<>>), live' = live
  PROVE  Inv'
  <1> USE DEF Facing
  <1>1. Accounted(held'[s] \cup lost[s], k, s, t)
    BY DEF Accounted
  <1>2. <<>> \in Seq(Frames) /\ <<>> \in Seq(Entries) /\ \A i \in 1..Len(<<>>) : FALSE
    OBVIOUS
  <1>3. Reply(s, t, n, k, <<>>, <<>>)
    BY <1>1, <1>2 DEF Reply
  <1> QED
    BY <1>3, ReplyKeeps

LEMMA ReadSettledKeeps ==
  ASSUME Inv, NEW s \in Sides, ReadSettled(s)
  PROVE  Inv'
  <1>1. Reads(s, "settled")
    BY DEF ReadSettled
  <1>2. PICK t, n, f, l : Facing(s, t, n, f, l) /\ f.kind = "settled"
    BY <1>1, InExchange
  <1>3. PICK k : k = [l EXCEPT !.peerSettled = TRUE]
    OBVIOUS
  <1>4. /\ k \in Loops /\ k.pc = "exchange" /\ k.stop = "none" /\ k.settled = l.settled
        /\ k.peerDone = l.peerDone /\ k.pages = l.pages /\ k.wanted = l.wanted /\ k.lacked = l.lacked
        /\ k.peerSettled /\ k.blob = l.blob
    BY <1>2, <1>3 DEF Loops, Facing
  <1>5. Handled(s, k, <<>>, <<>>) /\ live' = live /\ held' = held
    BY <1>2, <1>3 DEF ReadSettled, Facing
  <1>6. loop[t].settled
    <2>1. Reading(l)
      BY <1>2 DEF Facing, Reading
    <2>2. SaysOn(t, "settled")
      BY <1>2, <2>1, NextFrame DEF Facing
    <2> QED
      BY <1>2, <2>2 DEF Facing, Of, Truthful
  <1>7. \A y : Legal(t, Heard(l, n), f, y) => y = Heard(k, n)
    BY <1>2, <1>4 DEF Legal, Heard, Facing
  <1>8. /\ held' \in [Sides -> SUBSET Hashes] /\ held[s] \subseteq held'[s] /\ held'[t] = held[t]
    BY <1>2, <1>5 DEF Facing
  <1> QED
    BY <1>2, <1>4, <1>5, <1>6, <1>7, <1>8, NotedKeeps

LEMMA ReadWantKeeps ==
  ASSUME Inv, NEW s \in Sides, ReadWant(s)
  PROVE  Inv'
  <1>1. Reads(s, "want")
    BY DEF ReadWant, Incoming
  <1>2. PICK t, n, f, l : Facing(s, t, n, f, l) /\ f.kind = "want"
    BY <1>1, InExchange
  <1> USE DEF Facing
  <1>3. PICK h, controls, entries : h = f.hash /\ controls = Denials(s, h) /\ entries = Answers(s, h)
    OBVIOUS
  <1>4. /\ Handled(s, l, controls, entries) /\ live' = live /\ held' = held
    BY <1>2, <1>3 DEF ReadWant, Incoming
  <1>5. h \in Hashes
    BY <1>2, <1>3, FrameFacts
  <1>6. Missing(h) \in Frames /\ Missing(h).kind = "missing" /\ Blob(h) \in Entries /\ Blob(h).kind = "blob"
    BY <1>5, FramesAre, EntriesAre DEF Missing, Blob
  <1>7. /\ controls \in Seq(Frames) /\ entries \in Seq(Entries)
        /\ \A i \in 1..Len(controls) : controls[i].kind \in {"want", "missing"}
        /\ \A i \in 1..Len(entries) : entries[i].kind = "blob"
    BY <1>3, <1>6 DEF Answers, Denials
  <1>8. \A y : Legal(t, Heard(l, n), f, y) => y = Heard(l, n)
    BY <1>2 DEF Legal
  <1>9. /\ held' \in [Sides -> SUBSET Hashes] /\ held[s] \subseteq held'[s] /\ held'[t] = held[t]
    BY <1>2, <1>4
  <1>10. Reply(s, t, n, l, controls, entries)
    BY <1>2, <1>4, <1>7, <1>8, <1>9 DEF Reply
  <1> QED
    BY <1>2, <1>10, ReplyKeeps

LEMMA ReadMissingKeeps ==
  ASSUME Inv, NEW s \in Sides, ReadMissing(s)
  PROVE  Inv'
  <1>1. Reads(s, "missing")
    BY DEF ReadMissing
  <1>2. PICK t, n, f, l : Facing(s, t, n, f, l) /\ f.kind = "missing"
    BY <1>1, InExchange
  <1>3. PICK h, k : h = f.hash /\ k = [l EXCEPT !.wanted = @ \ {h}, !.lacked = @ \cup {h}]
    OBVIOUS
  <1>4. h \in Hashes
    BY <1>2, <1>3, FrameFacts DEF Facing
  <1>5. /\ k \in Loops /\ k.pc = "exchange" /\ k.stop = "none" /\ k.settled = l.settled
        /\ k.peerDone = l.peerDone /\ k.pages = l.pages /\ k.wanted = l.wanted \ {h}
        /\ k.lacked = l.lacked \cup {h} /\ k.peerSettled = l.peerSettled /\ k.blob = l.blob
    <2>1. l \in Loops /\ l.pc = "exchange" /\ l.stop = "none"
      BY <1>2 DEF Facing
    <2>2. k \in Loops
      BY <1>3, <1>4, <2>1 DEF Loops
    <2>3. /\ k.pc = l.pc /\ k.stop = l.stop /\ k.settled = l.settled /\ k.peerDone = l.peerDone
          /\ k.pages = l.pages /\ k.peerSettled = l.peerSettled /\ k.blob = l.blob
      BY <1>3, <2>1 DEF Loops
    <2>4. k.wanted = l.wanted \ {h} /\ k.lacked = l.lacked \cup {h}
      BY <1>3, <2>1 DEF Loops
    <2> QED
      BY <2>1, <2>2, <2>3, <2>4
  <1>6. Handled(s, k, <<>>, <<>>) /\ live' = live /\ held' = held
    BY <1>2, <1>3 DEF ReadMissing, Facing, Incoming
  <1>7. \A y : Legal(t, Heard(l, n), f, y) => y = Heard(k, n)
    BY <1>2, <1>5 DEF Legal, Heard
  <1>8. /\ held' \in [Sides -> SUBSET Hashes] /\ held[s] \subseteq held'[s] /\ held'[t] = held[t]
        /\ (k.peerSettled => loop[t].settled)
    BY <1>2, <1>5, <1>6 DEF Facing
  <1> QED
    BY <1>2, <1>5, <1>6, <1>7, <1>8, NotedKeeps

LEMMA ReadAbortedKeeps ==
  ASSUME Inv, NEW s \in Sides, ReadAborted(s)
  PROVE  Inv'
  <1>1. Reads(s, "aborted")
    BY DEF ReadAborted
  <1>2. PICK t, n, f, l : Facing(s, t, n, f, l) /\ f.kind = "aborted"
    BY <1>1, InExchange
  <1>3. PICK h, k : h = l.blob /\ k = [l EXCEPT !.wanted = @ \ {h}, !.lacked = @ \cup {h}, !.blob = NoHash]
    OBVIOUS
  <1>4. h \in Hashes /\ f.hash = h
    BY <1>2, <1>3, FrameFacts DEF Facing, ReadAborted, Incoming
  <1>5. /\ k \in Loops /\ k.pc = "exchange" /\ k.stop = "none" /\ k.settled = l.settled
        /\ k.peerDone = l.peerDone /\ k.pages = l.pages /\ k.wanted = l.wanted \ {h}
        /\ k.lacked = l.lacked \cup {h} /\ k.peerSettled = l.peerSettled /\ k.blob = NoHash
    BY <1>2, <1>3, <1>4 DEF Loops, Facing
  <1>6. Handled(s, k, <<>>, <<>>) /\ live' = live /\ held' = held
    BY <1>2, <1>3 DEF ReadAborted, Facing
  <1>7. \A y : Legal(t, Heard(l, n), f, y) => y = Heard(k, n)
    BY <1>2, <1>5 DEF Legal, Heard
  <1>8. /\ held' \in [Sides -> SUBSET Hashes] /\ held[s] \subseteq held'[s] /\ held'[t] = held[t]
        /\ (k.peerSettled => loop[t].settled)
    BY <1>2, <1>5, <1>6 DEF Facing
  <1> QED
    BY <1>2, <1>5, <1>6, <1>7, <1>8, NotedKeeps

LEMMA ReadBlobKeeps ==
  ASSUME Inv, NEW s \in Sides, ReadBlobStart(s) \/ ReadBlobChunk(s) \/ ReadBlobEnd(s)
  PROVE  Inv'
  <1>1. CASE ReadBlobStart(s)
    <2>1. Reads(s, "start")
      BY <1>1 DEF ReadBlobStart
    <2>2. PICK t, n, f, l : Facing(s, t, n, f, l) /\ f.kind = "start"
      BY <2>1, InExchange
    <2>3. PICK k : k = [l EXCEPT !.blob = f.hash]
      OBVIOUS
    <2>4. f.hash \in Hashes
      BY <2>2, FrameFacts DEF Facing
    <2>5. /\ k \in Loops /\ k.pc = "exchange" /\ k.stop = "none" /\ k.settled = l.settled
          /\ k.peerDone = l.peerDone /\ k.pages = l.pages /\ k.wanted = l.wanted
          /\ k.lacked = l.lacked /\ k.peerSettled = l.peerSettled /\ k.blob = f.hash
      BY <2>2, <2>3, <2>4 DEF Loops, Facing
    <2>6. Handled(s, k, <<>>, <<>>) /\ live' = live /\ held' = held
      BY <1>1, <2>2, <2>3 DEF ReadBlobStart, Facing, Incoming
    <2>7. \A y : Legal(t, Heard(l, n), f, y) => y = Heard(k, n)
      BY <2>2, <2>5 DEF Legal, Heard
    <2>8. /\ held' \in [Sides -> SUBSET Hashes] /\ held[s] \subseteq held'[s] /\ held'[t] = held[t]
          /\ (k.peerSettled => loop[t].settled)
      BY <2>2, <2>5, <2>6 DEF Facing
    <2> QED
      BY <2>2, <2>5, <2>6, <2>7, <2>8, NotedKeeps
  <1>2. CASE ReadBlobChunk(s)
    <2>1. Reads(s, "chunk")
      BY <1>2 DEF ReadBlobChunk
    <2>2. PICK t, n, f, l : Facing(s, t, n, f, l) /\ f.kind = "chunk"
      BY <2>1, InExchange
    <2>3. Handled(s, l, <<>>, <<>>) /\ live' = live /\ held' = held
      BY <1>2, <2>2 DEF ReadBlobChunk, Facing
    <2>4. \A y : Legal(t, Heard(l, n), f, y) => y = Heard(l, n)
      BY <2>2 DEF Legal
    <2>5. /\ held' \in [Sides -> SUBSET Hashes] /\ held[s] \subseteq held'[s] /\ held'[t] = held[t]
          /\ (l.peerSettled => loop[t].settled) /\ l \in Loops /\ l.pc = "exchange" /\ l.stop = "none"
      BY <2>2, <2>3 DEF Facing
    <2> QED
      BY <2>2, <2>3, <2>4, <2>5, NotedKeeps
  <1>3. CASE ReadBlobEnd(s)
    <2>1. Reads(s, "end")
      BY <1>3 DEF ReadBlobEnd
    <2>2. PICK t, n, f, l : Facing(s, t, n, f, l) /\ f.kind = "end"
      BY <2>1, InExchange
    <2>3. PICK h, k : h = l.blob /\ k = [l EXCEPT !.wanted = @ \ {h}, !.blob = NoHash]
      OBVIOUS
    <2>4. h \in Hashes
      BY <1>3, <2>2, <2>3 DEF ReadBlobEnd, Facing, Loops
    <2>5. /\ k \in Loops /\ k.pc = "exchange" /\ k.stop = "none" /\ k.settled = l.settled
          /\ k.peerDone = l.peerDone /\ k.pages = l.pages /\ k.wanted = l.wanted \ {h}
          /\ k.lacked = l.lacked /\ k.peerSettled = l.peerSettled /\ k.blob = NoHash
      BY <2>2, <2>3, <2>4 DEF Loops, Facing
    <2>6. Handled(s, k, <<>>, <<>>) /\ live' = live /\ held' = [held EXCEPT ![s] = @ \cup {h}]
      BY <1>3, <2>2, <2>3 DEF ReadBlobEnd, Facing
    <2>7. \A y : Legal(t, Heard(l, n), f, y) => y = Heard(k, n)
      BY <2>2, <2>5 DEF Legal, Heard
    <2>8. /\ held' \in [Sides -> SUBSET Hashes] /\ held[s] \subseteq held'[s] /\ held'[t] = held[t]
          /\ h \in held'[s]
      BY <2>2, <2>4, <2>6 DEF Facing
    <2>9. (k.peerSettled => loop[t].settled) /\ k.wanted \subseteq l.wanted /\ l.lacked \subseteq k.lacked
          /\ l.wanted \cup l.lacked \subseteq k.wanted \cup k.lacked \cup held'[s]
      BY <2>2, <2>5, <2>8 DEF Facing
    <2> QED
      BY <2>2, <2>5, <2>6, <2>7, <2>8, <2>9, NotedKeeps
  <1> QED
    BY <1>1, <1>2, <1>3

-----------------------------------------------------------------------------
\* Before and after the exchange.

LEMMA SendNothing ==
  ASSUME Typed, NEW s \in Sides, UNCHANGED <<urgent, bulk>>
  PROVE  Send(s, <<>>, <<>>)
  <1>1. PICK u, b : u = urgent[s] /\ b = bulk[s]
    OBVIOUS
  <1>2. u \in Seq(Frames) /\ b \in Seq(Entries)
    BY <1>1 DEF Typed
  <1>3. u \o <<>> = u /\ b \o <<>> = b
    BY <1>2
  <1>4. urgent = [urgent EXCEPT ![s] = u \o <<>>] /\ bulk = [bulk EXCEPT ![s] = b \o <<>>]
    BY <1>1, <1>3 DEF Typed
  <1> QED
    BY <1>1, <1>4 DEF Send

LEMMA TookMoves ==
  ASSUME Typed, NEW s, NEW t, Pair(s, t), wire[t] # <<>>, Took(s)
  PROVE  wire' # wire
  <1>1. PICK w : w = wire[t]
    OBVIOUS
  <1>2. w \in Seq(Frames) /\ w # <<>>
    BY <1>1 DEF Typed, Pair
  <1>3. PICK k1, k2 : k1 = Len(w) /\ k2 = Len(Tail(w))
    OBVIOUS
  <1>4. k1 \in Nat /\ k2 = k1 - 1
    BY <1>2, <1>3
  <1>5. k1 # k2
    BY <1>4
  <1>6. wire'[t] = Tail(w)
    BY <1>1 DEF Took, Pair, Typed
  <1> QED
    BY <1>1, <1>3, <1>5, <1>6

LEMMA Empty ==
  /\ <<>> \in Seq(Frames) /\ <<>> \in Seq(Entries) /\ (\A kind : ~Says(<<>>, kind))
  /\ \A i \in 1..Len(<<>>) : FALSE
  /\ \A p, x : x \in States => Run(p, <<>>, x, x)
  BY SaysNone, RunNone

LEMMA QueuedStates ==
  ASSUME NEW l, NEW n \in Nat
  PROVE  /\ At(QueuedSaid(l), 0) \in States /\ At(QueuedSaid(l), 0).said > 0
         /\ At(1, QueuedPages(l, n)) \in States /\ At(1, QueuedPages(l, n)).said > 0
  <1>1. QueuedSaid(l) \in 1..2 /\ QueuedPages(l, n) \in Nat
    BY DEF QueuedSaid, QueuedPages
  <1> QED
    BY <1>1, AtIsState DEF At

\* A step of s that sends nothing and reads nothing.
LEMMA SilentKeeps ==
  ASSUME Inv, NEW s \in Sides, NEW l \in Loops, NEW v \in Lives,
         loop' = [loop EXCEPT ![s] = l], live' = [live EXCEPT ![s] = v],
         UNCHANGED <<once, compatible, queues, held, lost>>,
         failures' \in 0..MaxFailures, failures <= failures',
         l.stop = "complete", loop[s].stop = "complete" \/ (loop[s].pc = "exchange" /\ Complete(loop[s])),
         loop[s].pc # "over", l.pc \in {"live", "ended", "dropped", "closing"},
         l.pc = "live" => loop[s].pc = "exchange",
         l.pages = loop[s].pages, l.wanted = loop[s].wanted, l.lacked = loop[s].lacked,
         l.peerDone = loop[s].peerDone, l.peerSettled = loop[s].peerSettled,
         l.settled = loop[s].settled, l.blob = loop[s].blob,
         v.pending = live[s].pending, v.announced = live[s].announced, v.lacked = live[s].lacked
  PROVE  Inv'
  <1>1. PICK t, n, m : t = Peer(s) /\ n = Len(Delta[t]) /\ m = Len(Delta[s])
    OBVIOUS
  <1>2. /\ Pair(s, t) /\ Of(s, t) /\ Typed /\ t \in Sides /\ loop[s] \in Loops /\ live[s] \in Lives
        /\ m \in Nat /\ n \in Nat
    BY <1>1, Both DEF Pair
  <1>3. Send(s, <<>>, <<>>) /\ UNCHANGED <<sending, open, wire>>
    BY <1>2, SendNothing DEF queues
  <1>4. compatible /\ Complete(loop[s]) /\ loop[s].settled
    BY <1>2 DEF Of, Sane, Complete
  <1>5. Sane(l, n)
    BY <1>1, <1>2, <1>4 DEF Of, Sane, Complete
  <1>6. Reading(l) => Reading(loop[s]) /\ Heard(l, n) = Heard(loop[s], n)
    BY DEF Reading, Heard
  <1>7. wire' = wire /\ ~(wire[t] # <<>> /\ Took(s))
    BY <1>2, <1>3, TookMoves
  <1>8. Reading(loop[t]) /\ Whole(l, open[s], failures') => Whole(loop[s], open[s], failures)
    <2>1. failures' = 0 => failures = 0
      BY <1>2, SessionAssumption DEF Typed
    <2> QED
      BY <1>2, <2>1 DEF Of, Alone, Whole
  <1>9. QueuedSaid(l) = QueuedSaid(loop[s]) /\ QueuedPages(l, m) = QueuedPages(loop[s], m)
    <2>1. loop[s].pc # "hello" /\ loop[s].stop # "refused"
      BY <1>2 DEF Of, Sane, NewLoop
    <2> QED
      BY <2>1 DEF QueuedSaid, QueuedPages
  <1>10. /\ Run(s, <<>>, At(QueuedSaid(loop[s]), 0), At(QueuedSaid(l), 0))
         /\ Run(s, <<>>, At(1, QueuedPages(loop[s], m)), At(1, QueuedPages(l, m)))
    BY <1>2, <1>9, Empty, QueuedStates
  <1>11. Accounted(held'[s] \cup lost[s], l, s, t) /\ Awaited(held'[s] \cup lost[s], v)
    BY <1>2 DEF Of, Accounted, Awaited
  <1>12. (l.peerSettled => loop[t].settled) /\ held' \in [Sides -> SUBSET Hashes]
    <2>1. held' = held /\ held \in [Sides -> SUBSET Hashes]
      BY <1>2 DEF Typed
    <2>2. loop[s].peerSettled => loop[t].settled
      BY <1>1, <1>2, Both DEF Of, Truthful, Pair
    <2> QED
      BY <2>1, <2>2
  <1>13. Turn(s, t, n, m, l, v, <<>>, <<>>)
    BY <1>1, <1>3, <1>5, <1>6, <1>7, <1>8, <1>10, <1>11, <1>12, Empty DEF Turn
  <1> QED
    BY <1>2, <1>13, TurnKeeps

LEMMA CommitKeeps ==
  ASSUME Inv, NEW s \in Sides, Commit(s)
  PROVE  Inv'
  <1>1. loop[s] \in Loops /\ live[s] \in Lives /\ Typed
    BY Both
  <1>2. PICK l, v : /\ l = [loop[s] EXCEPT !.stop = "complete", !.pc = IF s \in once THEN "closing" ELSE "live"]
                    /\ v = [live[s] EXCEPT !.open = s \notin once]
    OBVIOUS
  <1>3. /\ l \in Loops /\ l.stop = "complete" /\ l.pc \in {"live", "closing"}
        /\ l.pages = loop[s].pages /\ l.wanted = loop[s].wanted /\ l.lacked = loop[s].lacked
        /\ l.peerDone = loop[s].peerDone /\ l.peerSettled = loop[s].peerSettled
        /\ l.settled = loop[s].settled /\ l.blob = loop[s].blob
    BY <1>1, <1>2 DEF Loops
  <1>4. /\ v \in Lives /\ v.pending = live[s].pending /\ v.announced = live[s].announced
        /\ v.lacked = live[s].lacked
    <2>1. PICK o : o = (s \notin once) /\ o \in BOOLEAN
      OBVIOUS
    <2> QED
      BY <1>1, <1>2, <2>1 DEF Lives
  <1>5. /\ loop' = [loop EXCEPT ![s] = l] /\ live' = [live EXCEPT ![s] = v]
        /\ UNCHANGED <<once, compatible, queues, held, lost, failures>>
        /\ loop[s].pc = "exchange" /\ Complete(loop[s])
    BY <1>1, <1>2 DEF Commit, Typed
  <1>6. failures' \in 0..MaxFailures /\ failures <= failures'
    BY <1>1, <1>5, SessionAssumption DEF Typed
  <1> QED
    BY <1>3, <1>4, <1>5, <1>6, SilentKeeps

\* The live loop ends, or the session is dropped.
LEMMA LiveOverKeeps ==
  ASSUME Inv, NEW s \in Sides, LiveEnd(s) \/ Drop(s)
  PROVE  Inv'
  <1>1. loop[s] \in Loops /\ live[s] \in Lives /\ Typed /\ Of(s, Peer(s))
    BY Both
  <1>2. PICK l, v : /\ l = [loop[s] EXCEPT !.pc = IF LiveEnd(s) THEN "ended" ELSE "dropped"]
                    /\ v = [live[s] EXCEPT !.open = FALSE]
    OBVIOUS
  <1>3. /\ loop' = [loop EXCEPT ![s] = l] /\ live' = [live EXCEPT ![s] = v]
        /\ UNCHANGED <<once, compatible, queues, held, lost>>
        /\ loop[s].pc \in {"live", "ended"}
    <2>1. CASE LiveEnd(s)
      BY <1>1, <1>2, <2>1 DEF LiveEnd, EndLive, Typed
    <2>2. CASE ~LiveEnd(s)
      BY <1>1, <1>2, <2>2 DEF Drop, Typed
    <2> QED
      BY <2>1, <2>2
  <1>4. failures' \in 0..MaxFailures /\ failures <= failures'
    <2>1. failures' = failures \/ (failures < MaxFailures /\ failures' = failures + 1)
      BY DEF LiveEnd, Drop
    <2> QED
      BY <1>1, <2>1, SessionAssumption DEF Typed
  <1>5. loop[s].stop = "complete"
    BY <1>1, <1>3 DEF Of, Sane
  <1>6. /\ l \in Loops /\ l.stop = "complete" /\ l.pc \in {"ended", "dropped"}
        /\ l.pages = loop[s].pages /\ l.wanted = loop[s].wanted /\ l.lacked = loop[s].lacked
        /\ l.peerDone = loop[s].peerDone /\ l.peerSettled = loop[s].peerSettled
        /\ l.settled = loop[s].settled /\ l.blob = loop[s].blob
    BY <1>1, <1>2, <1>5 DEF Loops
  <1>7. /\ v \in Lives /\ v.pending = live[s].pending /\ v.announced = live[s].announced
        /\ v.lacked = live[s].lacked
    BY <1>1, <1>2 DEF Lives
  <1> QED
    BY <1>3, <1>4, <1>5, <1>6, <1>7, SilentKeeps

LEMMA OutgoingRuns ==
  ASSUME Typed, NEW s \in Sides, NEW m \in Nat, m = Len(Delta[s]), Delta[s] \in Seq(SUBSET Hashes)
  PROVE  Outgoing(s) \in Seq(Entries) /\ Run(s, Outgoing(s), At(1, 0), At(1, m + 1))
  <1>1. PICK q, d : q = Outgoing(s) /\ d = Delta[s]
    OBVIOUS
  <1>2. q = [i \in 1..m + 1 |-> IF i <= m THEN Page(d[i], Inline(s, d[i])) ELSE Done]
    BY <1>1 DEF Outgoing
  <1>3. ASSUME NEW i \in 1..m + 1, i <= m
        PROVE  /\ d[i] \in SUBSET Hashes /\ Inline(s, d[i]) \in SUBSET Hashes
               /\ q[i] \in Entries /\ q[i].kind = "updates" /\ q[i].page = d[i]
    <2>1. d[i] \in SUBSET Hashes
      BY <1>1, <1>3
    <2>2. Inline(s, d[i]) \in SUBSET Hashes
      BY <2>1 DEF Inline
    <2>3. q[i] = Page(d[i], Inline(s, d[i]))
      BY <1>2, <1>3
    <2> QED
      BY <2>1, <2>2, <2>3, EntriesAre DEF Page
  <1>4. q[m + 1] = Done /\ Done \in Entries /\ Done.kind = "done"
    BY <1>2, EntriesAre DEF Done
  <1>5. \A i \in 1..m + 1 : q[i] \in Entries
    BY <1>3, <1>4
  <1>6. q \in Seq(Entries) /\ Len(q) = m + 1
    BY <1>2, <1>5
  <1> DEFINE g == [i \in 0..m + 1 |-> At(1, i)]
  <1>7. g \in [0..Len(q) -> States] /\ g[0] = At(1, 0) /\ g[Len(q)] = At(1, m + 1)
    BY <1>6, AtIsState
  <1>8. ASSUME NEW i \in 1..Len(q) PROVE Legal(s, g[i - 1], q[i], g[i])
    <2>1. PICK x, y, c : x = At(1, i - 1) /\ y = At(1, i) /\ c = q[i]
      OBVIOUS
    <2>2. i \in 1..m + 1 /\ g[i] = y /\ g[i - 1] = x
      BY <1>6, <2>1
    <2>3. x.said = 1 /\ x.page = i - 1 /\ x.blob = NoHash /\ y = [x EXCEPT !.page = i] /\ (i - 1) + 1 = i
      BY <2>1, <2>2 DEF At
    <2>4. CASE i <= m
      <3>1. c.kind = "updates" /\ c.page = Delta[s][i] /\ i - 1 < m
        BY <1>1, <1>3, <2>1, <2>2, <2>4
      <3>2. Legal(s, x, c, y)
        BY <2>3, <3>1 DEF Legal
      <3> QED
        BY <2>1, <2>2, <3>2
    <2>5. CASE i > m
      <3>1. i = m + 1 /\ c.kind = "done"
        BY <1>4, <2>1, <2>2, <2>5
      <3>2. x.page = m
        BY <2>3, <3>1
      <3>3. Legal(s, x, c, y)
        BY <2>3, <3>1, <3>2 DEF Legal
      <3> QED
        BY <2>1, <2>2, <3>3
    <2> QED
      BY <2>2, <2>4, <2>5
  <1> HIDE DEF g
  <1>9. Run(s, q, At(1, 0), At(1, m + 1))
    BY <1>7, <1>8 DEF Run
  <1> QED
    BY <1>1, <1>6, <1>9

LEMMA ReadHelloKeeps ==
  ASSUME Inv, NEW s \in Sides, ReadHello(s)
  PROVE  Inv'
  <1>1. PICK t, n, m, v : t = Peer(s) /\ n = Len(Delta[t]) /\ m = Len(Delta[s]) /\ v = live[s]
    OBVIOUS
  <1>2. /\ Pair(s, t) /\ Of(s, t) /\ Of(t, s) /\ Typed /\ t \in Sides /\ s # t /\ loop[s] \in Loops /\ v \in Lives
        /\ m \in Nat /\ n \in Nat /\ Delta[s] \in Seq(SUBSET Hashes)
    BY <1>1, Both DEF Pair
  <1>3. /\ loop[s] = NewLoop /\ wire[t] # <<>> /\ Head(wire[t]) = Hello /\ Took(s)
        /\ UNCHANGED <<once, compatible, held, live, lost, failures>>
    BY <1>1, <1>2 DEF ReadHello, Of, Sane, Incoming
  <1>4. /\ held' \in [Sides -> SUBSET Hashes] /\ held[s] \subseteq held'[s] /\ held'[t] = held[t]
        /\ failures' \in 0..MaxFailures /\ failures <= failures' /\ live' = [live EXCEPT ![s] = v]
    BY <1>1, <1>2, <1>3, SessionAssumption DEF Typed
  <1>5. CASE compatible /\ ~open[s]
    <2>1. StopLoop(s, "gone")
      BY <1>5 DEF ReadHello
    <2> QED
      BY <1>2, <1>3, <1>4, <2>1, StopKeeps DEF NewLoop
  <1>6. CASE ~(compatible /\ ~open[s])
    <2>1. PICK l, controls, entries :
            /\ l = IF compatible THEN [NewLoop EXCEPT !.pc = "exchange"]
                                 ELSE [NewLoop EXCEPT !.pc = "closing", !.stop = "refused"]
            /\ controls = IF compatible THEN <<>> ELSE <<Refused>>
            /\ entries = IF compatible THEN Outgoing(s) ELSE <<>>
      OBVIOUS
    <2>2. /\ Send(s, controls, entries) /\ loop' = [loop EXCEPT ![s] = l] /\ UNCHANGED <<sending, open>>
      BY <1>2, <1>3, <1>6, <2>1 DEF ReadHello, Typed, NewLoop
    <2>3. /\ NewLoop.pc = "hello" /\ NewLoop.stop = "none" /\ NewLoop.pages = 0 /\ NewLoop.wanted = {}
          /\ NewLoop.lacked = {} /\ ~NewLoop.peerDone /\ ~NewLoop.peerSettled /\ ~NewLoop.settled
          /\ NewLoop.blob = NoHash
      BY DEF NewLoop
    <2>4. /\ l \in Loops /\ l.pages = 0 /\ l.wanted = {} /\ l.lacked = {} /\ ~l.peerDone /\ ~l.peerSettled
          /\ ~l.settled /\ l.blob = NoHash
          /\ l.pc = (IF compatible THEN "exchange" ELSE "closing")
          /\ l.stop = (IF compatible THEN "none" ELSE "refused")
      BY <2>1 DEF NewLoop, Loops
    <2>5. Refused \in Frames /\ Refused.kind = "refused"
      BY FramesAre DEF Refused
    <2>6. /\ controls \in Seq(Frames) /\ \A i \in 1..Len(controls) : controls[i].kind = "refused"
          /\ (controls # <<>> => ~compatible)
      BY <2>1, <2>5
    <2>7. /\ entries \in Seq(Entries)
          /\ Run(s, entries, At(1, QueuedPages(loop[s], m)), At(1, QueuedPages(l, m)))
      <3>1. CASE compatible
        <4>1. QueuedPages(loop[s], m) = 0 /\ QueuedPages(l, m) = m + 1 /\ entries = Outgoing(s)
          BY <1>3, <2>1, <2>3, <2>4, <3>1 DEF QueuedPages
        <4> QED
          BY <1>1, <1>2, <4>1, OutgoingRuns
      <3>2. CASE ~compatible
        <4>1. QueuedPages(loop[s], m) = 0 /\ QueuedPages(l, m) = 0 /\ entries = <<>>
          BY <1>3, <2>1, <2>3, <2>4, <3>2 DEF QueuedPages
        <4>2. At(1, 0) \in States
          BY AtIsState
        <4> QED
          BY <4>1, <4>2, Empty
      <3> QED
        BY <3>1, <3>2
    <2>8. Run(s, controls, At(QueuedSaid(loop[s]), 0), At(QueuedSaid(l), 0))
      <3>1. QueuedSaid(l) = QueuedSaid(loop[s])
        BY <1>3, <2>3, <2>4 DEF QueuedSaid
      <3> QED
        BY <1>2, <2>6, <3>1, RunSmall, QueuedStates
    <2>9. Sane(l, n)
      BY <1>2, <2>4 DEF Sane, Complete
    <2>10. Reading(l) => /\ Reading(loop[s])
                         /\ \A y : Legal(t, Heard(loop[s], n), Head(wire[t]), y) => y = Heard(l, n)
      <3>1. Heard(loop[s], n) = At(0, 0)
        BY <1>3, <2>3 DEF Heard, At
      <3>2. Reading(l) => Heard(l, n) = At(1, 0)
        BY <2>4 DEF Heard, At, Reading
      <3>3. \A y : Legal(t, At(0, 0), Hello, y) => y = At(1, 0)
        BY DEF Legal, At, Hello
      <3> QED
        BY <1>3, <2>3, <3>1, <3>2, <3>3 DEF Reading
    <2>11. Reading(loop[t]) /\ Whole(l, open[s], failures') => Whole(loop[s], open[s], failures)
      BY <1>2, <1>3, <2>3 DEF Of, Alone, Whole
    <2>12. Accounted(held'[s] \cup lost[s], l, s, t) /\ Awaited(held'[s] \cup lost[s], v)
      <3>1. Awaited(held'[s] \cup lost[s], v)
        BY <1>1, <1>2, <1>3 DEF Of
      <3>2. Accounted(held'[s] \cup lost[s], l, s, t)
        BY <2>4 DEF Accounted
      <3> QED
        BY <3>1, <3>2
    <2>13. ~v.open
      BY <1>1, <1>2, <1>3, <2>3 DEF Of
    <2>14. /\ ~Says(controls, "settled") /\ ~Says(controls, "live") /\ (Says(controls, "refused") => ~compatible)
           /\ \A i \in 1..Len(controls) : controls[i].kind \in Kinds
      BY <2>6, Empty DEF Says, Kinds
    <2>15. wire' # wire
      BY <1>2, <1>3, TookMoves
    <2>16. Turn(s, t, n, m, l, v, controls, entries)
      BY <1>1, <1>2, <1>3, <1>4, <2>2, <2>3, <2>4, <2>6, <2>7, <2>8, <2>9, <2>10, <2>11, <2>12, <2>13, <2>14, <2>15
         DEF Turn
    <2> QED
      BY <1>2, <2>16, TurnKeeps
  <1> QED
    BY <1>5, <1>6

LEMMA PushKeeps ==
  ASSUME Inv, NEW s \in Sides, Push(s)
  PROVE  Inv'
  <1>1. PICK t, n, m, l, k : /\ t = Peer(s) /\ n = Len(Delta[t]) /\ m = Len(Delta[s]) /\ l = loop[s]
                             /\ k = live[s].pushed + 1
    OBVIOUS
  <1>2. /\ Pair(s, t) /\ Of(s, t) /\ Of(t, s) /\ Typed /\ t \in Sides /\ s # t /\ l \in Loops /\ live[s] \in Lives
        /\ m \in Nat /\ n \in Nat
    BY <1>1, Both DEF Pair
  <1>3. /\ live[s].open /\ open[s] /\ k <= Len(Batches[s]) /\ k \in Nat /\ k > 0
        /\ UNCHANGED <<once, compatible, loop, sending, wire, open, lost, failures>>
    BY <1>1, <1>2 DEF Push, Lives
  <1>4. PICK batch, v : batch = Batches[s][k] /\ v = [live[s] EXCEPT !.pushed = k]
    OBVIOUS
  <1>5. batch \in SUBSET Hashes
    <2>1. Batches[s] \in Seq(SUBSET Hashes)
      BY SessionAssumption
    <2> QED
      BY <1>3, <1>4, <2>1
  <1>6. /\ Live(batch) \in Frames /\ Live(batch).kind = "live"
    BY <1>5, FramesAre DEF Live
  <1>7. /\ Send(s, <<Live(batch)>>, <<>>) /\ held' = [held EXCEPT ![s] = @ \cup batch]
        /\ live' = [live EXCEPT ![s] = v] /\ loop' = [loop EXCEPT ![s] = l]
    BY <1>1, <1>2, <1>4 DEF Push, Typed
  <1>8. /\ held' \in [Sides -> SUBSET Hashes] /\ held[s] \subseteq held'[s] /\ held'[t] = held[t]
        /\ failures' \in 0..MaxFailures /\ failures <= failures'
    BY <1>2, <1>3, <1>5, <1>7, SessionAssumption DEF Typed
  <1>9. /\ v \in Lives /\ v.open = live[s].open /\ v.pending = live[s].pending
        /\ v.announced = live[s].announced /\ v.lacked = live[s].lacked
    BY <1>2, <1>3, <1>4 DEF Lives
  <1>10. l.stop = "complete" /\ l.settled /\ Sane(l, n) /\ (l.peerSettled => loop[t].settled)
    BY <1>1, <1>2, <1>3 DEF Of, Sane, Complete, Truthful
  <1>11. /\ <<Live(batch)>> \in Seq(Frames) /\ Len(<<Live(batch)>>) = 1
         /\ <<Live(batch)>>[1] = Live(batch)
    BY <1>6
  <1>12. /\ \A i \in 1..Len(<<Live(batch)>>) : <<Live(batch)>>[i].kind = "live"
         /\ ~Says(<<Live(batch)>>, "settled") /\ ~Says(<<Live(batch)>>, "refused")
    BY <1>6, <1>11 DEF Says
  <1>13. Run(s, <<Live(batch)>>, At(QueuedSaid(l), 0), At(QueuedSaid(l), 0))
    <2>1. At(QueuedSaid(l), 0) \in States /\ At(QueuedSaid(l), 0).said = 2
      BY <1>2, <1>10, QueuedStates DEF QueuedSaid, At
    <2>2. \A i \in 1..Len(<<Live(batch)>>) : Legal(s, At(QueuedSaid(l), 0), <<Live(batch)>>[i], At(QueuedSaid(l), 0))
      BY <1>12, <2>1 DEF Legal
    <2> QED
      BY <1>11, <2>1, <2>2, RunSame
  <1>14. Run(s, <<>>, At(1, QueuedPages(l, m)), At(1, QueuedPages(l, m)))
    BY <1>2, QueuedStates, Empty
  <1>15. Accounted(held'[s] \cup lost[s], l, s, t) /\ Awaited(held'[s] \cup lost[s], v)
    BY <1>1, <1>2, <1>8, <1>9 DEF Of, Accounted, Awaited
  <1>16. wire' = wire /\ ~(wire[t] # <<>> /\ Took(s)) /\ failures' = failures
    BY <1>2, <1>3, TookMoves
  <1>17. Turn(s, t, n, m, l, v, <<Live(batch)>>, <<>>)
    BY <1>1, <1>2, <1>3, <1>7, <1>8, <1>9, <1>10, <1>11, <1>12, <1>13, <1>14, <1>15, <1>16, Empty DEF Turn, Kinds
  <1> QED
    BY <1>2, <1>17, TurnKeeps

LEMMA LoseKeeps ==
  ASSUME Inv, NEW s \in Sides, NEW h \in Hashes, Lose(s, h)
  PROVE  Inv'
  <1>1. PICK t : t = Peer(s)
    OBVIOUS
  <1>2. Pair(s, t) /\ Of(s, t) /\ Of(t, s) /\ Typed /\ s # t /\ t \in Sides
    BY <1>1, Both DEF Pair
  <1>3. /\ held' = [held EXCEPT ![s] = @ \ {h}] /\ lost' = [lost EXCEPT ![s] = @ \cup {h}]
        /\ UNCHANGED <<once, compatible, loop, queues, live, failures>>
    BY DEF Lose
  <1>4. UNCHANGED <<urgent, bulk, sending, wire, open>>
    BY <1>3 DEF queues
  <1>5. Typed'
    BY <1>2, <1>3, <1>4 DEF Typed
  <1>6. /\ held[s] \cup lost[s] \subseteq held'[s] \cup lost'[s]
        /\ held'[t] = held[t] /\ lost'[t] = lost[t]
    BY <1>2, <1>3 DEF Typed
  <1>7. Accounted(held'[s] \cup lost'[s], loop[s], s, t) /\ Awaited(held'[s] \cup lost'[s], live[s])
    BY <1>2, <1>6 DEF Of, Accounted, Awaited
  <1>8. /\ Hears(s, t)' /\ Hears(t, s)' /\ Alone(s, t)' /\ Alone(t, s)'
        /\ Truthful(s, t)' /\ Truthful(t, s)'
    BY <1>2, <1>3, <1>4 DEF Of, Hears, Alone, Truthful, SaysOn
  <1>9. Of(s, t)'
    BY <1>2, <1>3, <1>4, <1>7, <1>8 DEF Of, Sane
  <1>10. Of(t, s)'
    BY <1>2, <1>3, <1>4, <1>6, <1>8 DEF Of, Sane
  <1> QED
    BY <1>2, <1>5, <1>9, <1>10, BothAfter

LEMMA CutKeeps ==
  ASSUME Inv, Cut
  PROVE  Inv'
  <1>1. Typed
    BY DEF Inv
  <1>2. /\ failures' \in 0..MaxFailures /\ failures' # 0
    BY <1>1, SessionAssumption DEF Cut, Typed
  <1>3. /\ wire' \in {wire, [s \in Sides |-> <<>>]}
        /\ open' = [s \in Sides |-> FALSE] /\ urgent' = [s \in Sides |-> <<>>]
        /\ bulk' = [s \in Sides |-> <<>>] /\ sending' = [s \in Sides |-> NotSending]
        /\ UNCHANGED <<once, compatible, loop, held, live, lost>>
    BY DEF Cut
  <1>4. \A s \in Sides : wire'[s] = wire[s] \/ wire'[s] = <<>>
    BY <1>3
  <1>5. Typed'
    <2>1. NotSending \in Sendings /\ Len(<<>>) = 0 /\ Len(<<>>) <= WireSize
      BY SessionAssumption DEF NotSending, Sendings
    <2>2. wire' \in [Sides -> Seq(Frames)] /\ \A s \in Sides : Len(wire'[s]) <= WireSize
      BY <1>1, <1>3, <2>1, Empty DEF Typed
    <2>3. \A s \in Sides : \A i \in 1..Len(urgent'[s]) : FALSE
      BY <1>3, <2>1
    <2> QED
      BY <1>1, <1>2, <1>3, <2>1, <2>2, <2>3, Empty DEF Typed
  <1>6. ASSUME NEW s \in Sides PROVE Of(s, Peer(s))'
    <2>1. PICK t : t = Peer(s)
      OBVIOUS
    <2>2. Pair(s, t) /\ Of(s, t) /\ t \in Sides /\ loop[s] \in Loops /\ Len(Delta[t]) \in Nat
      BY <2>1, Both DEF Pair, Typed
    <2>3. \A kind : Says(urgent'[s], kind) \/ Says(wire'[s], kind) => SaysOn(s, kind)
      BY <1>3, <1>4, SaysNone DEF SaysOn
    <2>4. Truthful(s, t)'
      BY <1>3, <2>2, <2>3 DEF Of, Truthful, SaysOn
    <2>5. Alone(s, t)'
      BY <1>2 DEF Alone
    <2>6. Hears(s, t)'
      <3> SUFFICES ASSUME Reading(loop[s]) PROVE Hears(s, t)'
        BY <1>3 DEF Hears
      <3>1. Whole(loop[t], open'[t], failures') = FALSE
        BY <1>2, <1>3, <2>2 DEF Whole
      <3>2. PICK e \in States : Run(t, wire[t], Heard(loop[s], Len(Delta[t])), e)
        BY <2>2 DEF Of, Hears, Stream
      <3>3. Heard(loop[s], Len(Delta[t])) \in States
        BY <2>2, HeardIsState DEF Of, Sane
      <3>4. \E x \in States : Run(t, wire'[t], Heard(loop[s], Len(Delta[t])), x)
        BY <1>4, <2>2, <3>2, <3>3, Empty
      <3> QED
        BY <1>3, <3>1, <3>4 DEF Hears, Stream
    <2>7. Of(s, t)'
      BY <1>3, <2>2, <2>4, <2>5, <2>6 DEF Of, Sane
    <2> QED
      BY <2>1, <2>7
  <1> QED
    BY <1>5, <1>6 DEF Inv

-----------------------------------------------------------------------------
\* The live phase.

\* s reads the next frame while live: it knows v then, blob is open, and it answers.
Answer(s, t, n, v, blob, controls, entries, returns) ==
  /\ n = Len(Delta[t]) /\ v \in Lives /\ blob \in Hashes \cup {NoHash} /\ returns \in BOOLEAN
  /\ controls \in Seq(Frames) /\ entries \in Seq(Entries)
  /\ loop[s].pc = "live" /\ wire[t] # <<>> /\ HandledLive(s, v, blob, controls, entries, returns)
  /\ held' \in [Sides -> SUBSET Hashes] /\ held[s] \subseteq held'[s] /\ held'[t] = held[t]
  /\ \A l : l = [loop[s] EXCEPT !.blob = blob] =>
       \A y : Legal(t, Heard(loop[s], n), Head(wire[t]), y) => y = Heard(l, n)
  /\ \A i \in 1..Len(controls) : controls[i].kind \in {"want", "missing"}
  /\ \A i \in 1..Len(entries) : entries[i].kind = "blob"
  /\ Awaited(held'[s] \cup lost[s], v)

\* A step of the live loop, as a turn.
LEMMA LiveTurn ==
  ASSUME Inv, NEW s, NEW t, Pair(s, t), NEW n, n = Len(Delta[t]), NEW l \in Loops, NEW v \in Lives,
         NEW controls \in Seq(Frames), NEW entries \in Seq(Entries),
         loop[s].pc = "live", wire[t] # <<>>, Took(s),
         UNCHANGED <<once, compatible, sending, open, lost, failures>>,
         loop' = [loop EXCEPT ![s] = l], live' = [live EXCEPT ![s] = v], Send(s, controls, entries),
         held' \in [Sides -> SUBSET Hashes], held[s] \subseteq held'[s], held'[t] = held[t],
         l.pc \in {"live", "ended"}, l.stop = loop[s].stop, l.pages = loop[s].pages,
         l.wanted = loop[s].wanted, l.lacked = loop[s].lacked, l.peerDone = loop[s].peerDone,
         l.peerSettled = loop[s].peerSettled, l.settled = loop[s].settled,
         \A i \in 1..Len(controls) : controls[i].kind \in {"want", "missing"},
         \A i \in 1..Len(entries) : entries[i].kind = "blob",
         l.pc = "live" =>
           \A y : Legal(t, Heard(loop[s], n), Head(wire[t]), y) => y = Heard(l, n),
         Awaited(held'[s] \cup lost[s], v)
  PROVE  Inv'
  <1>1. PICK m : m = Len(Delta[s])
    OBVIOUS
  <1>2. /\ Of(s, t) /\ Of(t, s) /\ s \in Sides /\ t \in Sides /\ Typed /\ m \in Nat /\ n \in Nat
        /\ loop[s] \in Loops
    BY <1>1, Both DEF Pair
  <1>3. loop[s].stop = "complete" /\ Complete(loop[s]) /\ compatible /\ loop[s].settled
    BY <1>2 DEF Of, Sane, Complete
  <1>4. Sane(l, n)
    BY <1>2, <1>3 DEF Of, Sane, Complete
  <1>5. failures' \in 0..MaxFailures /\ failures <= failures'
    BY <1>2, SessionAssumption DEF Typed
  <1>6. Reading(l) => /\ Reading(loop[s])
                      /\ wire' = wire => Heard(l, n) = Heard(loop[s], n)
                      /\ wire[t] # <<>> /\ Took(s) =>
                           \A y : Legal(t, Heard(loop[s], n), Head(wire[t]), y) => y = Heard(l, n)
    <2>1. wire' # wire
      BY <1>2, TookMoves
    <2> QED
      BY <2>1 DEF Reading
  <1>7. QueuedSaid(l) = QueuedSaid(loop[s]) /\ QueuedPages(l, m) = QueuedPages(loop[s], m)
    BY <1>3 DEF QueuedSaid, QueuedPages
  <1>8. /\ Run(s, controls, At(QueuedSaid(loop[s]), 0), At(QueuedSaid(l), 0))
        /\ Run(s, entries, At(1, QueuedPages(loop[s], m)), At(1, QueuedPages(l, m)))
    BY <1>2, <1>7, RunSmall, QueuedStates
  <1>9. Whole(l, open[s], failures') => Whole(loop[s], open[s], failures)
    BY DEF Whole
  <1>10. Accounted(held'[s] \cup lost[s], l, s, t)
    BY <1>2 DEF Of, Accounted
  <1>11. l.peerSettled => loop[t].settled
    BY <1>2 DEF Of, Truthful
  <1>12. ~Says(controls, "settled") /\ ~Says(controls, "refused") /\ ~Says(controls, "live")
    BY DEF Says
  <1>13. \A i \in 1..Len(controls) : controls[i].kind \in Kinds
    BY DEF Kinds
  <1>14. Turn(s, t, n, m, l, v, controls, entries)
    BY <1>1, <1>3, <1>4, <1>5, <1>6, <1>8, <1>9, <1>10, <1>11, <1>12, <1>13 DEF Turn
  <1> QED
    BY <1>14, TurnKeeps

LEMMA AnswerKeeps ==
  ASSUME Inv, NEW s, NEW t, Pair(s, t), NEW n, NEW v, NEW blob, NEW controls, NEW entries, NEW returns,
         Answer(s, t, n, v, blob, controls, entries, returns)
  PROVE  Inv'
  <1> USE DEF Answer
  <1>1. /\ Typed /\ s \in Sides /\ t \in Sides /\ loop[s] \in Loops /\ live[s] \in Lives
        /\ Awaited(held[s] \cup lost[s], live[s])
    BY Both DEF Pair, Of
  <1>2. Took(s) /\ UNCHANGED <<once, compatible, lost, failures>>
    BY DEF HandledLive
  <1>3. CASE (controls # <<>> \/ entries # <<>>) /\ ~open[s]
    <2>1. PICK k, w : k = [loop[s] EXCEPT !.pc = "ended"] /\ w = [live[s] EXCEPT !.open = returns]
      OBVIOUS
    <2>2. /\ loop' = [loop EXCEPT ![s] = k] /\ live' = [live EXCEPT ![s] = w]
          /\ UNCHANGED <<urgent, bulk, sending, open>>
      BY <1>1, <1>3, <2>1 DEF HandledLive, EndLive, Typed
    <2>3. /\ k \in Loops /\ k.pc = "ended" /\ k.stop = loop[s].stop /\ k.pages = loop[s].pages
          /\ k.wanted = loop[s].wanted /\ k.lacked = loop[s].lacked /\ k.peerDone = loop[s].peerDone
          /\ k.peerSettled = loop[s].peerSettled /\ k.settled = loop[s].settled
      BY <1>1, <2>1 DEF Loops
    <2>4. w \in Lives /\ w.pending = live[s].pending /\ w.announced = live[s].announced /\ w.lacked = live[s].lacked
      BY <1>1, <2>1 DEF Lives
    <2>5. Send(s, <<>>, <<>>)
      BY <1>1, <2>2, SendNothing
    <2>6. Awaited(held'[s] \cup lost[s], w)
      BY <1>1, <2>4 DEF Awaited
    <2> QED
      BY <1>2, <2>2, <2>3, <2>4, <2>5, <2>6, Empty, LiveTurn
  <1>4. CASE ~((controls # <<>> \/ entries # <<>>) /\ ~open[s])
    <2>1. PICK ready : ready = { b \in v.pending : b.outstanding = {} }
      OBVIOUS
    <2>2. PICK waits, told : waits = v.pending \ ready /\ told = v.announced \cup { b.page : b \in ready }
      OBVIOUS
    <2>3. PICK k, w : /\ k = [loop[s] EXCEPT !.blob = blob]
                      /\ w = [v EXCEPT !.pending = waits, !.announced = told]
      OBVIOUS
    <2>4. /\ live' = [live EXCEPT ![s] = w] /\ loop' = [loop EXCEPT ![s] = k]
          /\ Send(s, controls, entries) /\ UNCHANGED <<sending, open>>
      BY <1>1, <1>4, <2>1, <2>2, <2>3 DEF HandledLive, Typed
    <2>5. /\ v.pending \in SUBSET Batch /\ v.announced \in SUBSET SUBSET Hashes
      BY DEF Lives
    <2>6. ready \subseteq v.pending /\ \A b \in ready : b.outstanding = {} /\ b.page \in SUBSET Hashes
      BY <2>1, <2>5 DEF Batch
    <2>7. waits \in SUBSET Batch /\ told \in SUBSET SUBSET Hashes
      BY <2>2, <2>5, <2>6
    <2>8. w \in Lives /\ w.pending = waits /\ w.announced = told /\ w.lacked = v.lacked
      BY <2>3, <2>7 DEF Lives
    <2>9. /\ k \in Loops /\ k.pc = "live" /\ k.stop = loop[s].stop /\ k.pages = loop[s].pages
          /\ k.wanted = loop[s].wanted /\ k.lacked = loop[s].lacked /\ k.peerDone = loop[s].peerDone
          /\ k.peerSettled = loop[s].peerSettled /\ k.settled = loop[s].settled
      BY <1>1, <2>3 DEF Loops
    <2>10. Awaited(held'[s] \cup lost[s], w)
      <3>1. \A b \in ready : b.page \subseteq held'[s] \cup lost[s] \cup v.lacked
        BY <2>6 DEF Awaited
      <3>2. \A page \in told : page \subseteq held'[s] \cup lost[s] \cup v.lacked
        BY <2>2, <3>1 DEF Awaited
      <3>3. \A b \in waits : b.page \subseteq held'[s] \cup lost[s] \cup v.lacked \cup b.outstanding
        BY <2>2 DEF Awaited
      <3> QED
        BY <2>8, <3>2, <3>3 DEF Awaited
    <2>11. \A y : Legal(t, Heard(loop[s], n), Head(wire[t]), y) => y = Heard(k, n)
      BY <2>3
    <2> QED
      BY <1>2, <2>4, <2>8, <2>9, <2>10, <2>11, LiveTurn
  <1> QED
    BY <1>3, <1>4

\* s, which knows l and v, has the frame f of t to read while live.
FacingLive(s, t, n, f, l, v) ==
  /\ t = Peer(s) /\ n = Len(Delta[t]) /\ f = Head(wire[t]) /\ l = loop[s] /\ v = live[s]
  /\ wire[t] # <<>> /\ Pair(s, t) /\ Typed /\ n \in Nat /\ s \in Sides /\ t \in Sides /\ s # t
  /\ l \in Loops /\ v \in Lives /\ l.pc = "live" /\ f \in Frames
  /\ held \in [Sides -> SUBSET Hashes] /\ held[s] \in SUBSET Hashes
  /\ Awaited(held[s] \cup lost[s], v)
  /\ \E y \in States : Legal(t, Heard(l, n), f, y)

LEMMA InLive ==
  ASSUME Inv, NEW s \in Sides, NEW kind, ReadsLive(s, kind)
  PROVE  \E t, n, f, l, v : FacingLive(s, t, n, f, l, v) /\ f.kind = kind
  <1>1. PICK t, n, f, l, v :
          t = Peer(s) /\ n = Len(Delta[t]) /\ f = Head(wire[t]) /\ l = loop[s] /\ v = live[s]
    OBVIOUS
  <1>2. /\ Pair(s, t) /\ Typed /\ Of(s, t) /\ n \in Nat
        /\ l \in Loops /\ v \in Lives /\ held[s] \in SUBSET Hashes /\ held \in [Sides -> SUBSET Hashes]
        /\ s \in Sides /\ t \in Sides /\ s # t
    BY <1>1, Both DEF Pair, Typed
  <1>3. l.pc = "live" /\ wire[t] # <<>> /\ f.kind = kind /\ Reading(l)
    BY <1>1 DEF ReadsLive, Incoming, Reading
  <1>4. f \in Frames /\ \E y \in States : Legal(t, Heard(l, n), f, y)
    BY <1>1, <1>2, <1>3, NextFrame
  <1>5. FacingLive(s, t, n, f, l, v)
    BY <1>1, <1>2, <1>3, <1>4 DEF FacingLive, Of
  <1> QED
    BY <1>3, <1>5

LEMMA ReadLiveKeeps ==
  ASSUME Inv, NEW s \in Sides, ReadLive(s)
  PROVE  Inv'
  <1>1. ReadsLive(s, "live")
    BY DEF ReadLive
  <1>2. PICK t, n, f, l, v : FacingLive(s, t, n, f, l, v) /\ f.kind = "live"
    BY <1>1, InLive
  <1> USE DEF FacingLive
  <1>3. PICK page, missing, asked, batch :
          /\ page = f.page /\ missing = page \ held[s] /\ asked = missing \ v.wanted
          /\ batch = [page |-> page, outstanding |-> missing]
    OBVIOUS
  <1>4. page \in SUBSET Hashes /\ missing \in SUBSET Hashes /\ asked \in SUBSET Hashes
    BY <1>2, <1>3, FrameFacts
  <1>5. batch \in Batch /\ batch.page = page /\ batch.outstanding = missing
    BY <1>3, <1>4 DEF Batch
  <1>6. PICK w, p : w = v.wanted \cup missing /\ p = v.pending \cup {batch}
    OBVIOUS
  <1>7. w \in SUBSET Hashes /\ p \in SUBSET Batch
    BY <1>2, <1>4, <1>5, <1>6 DEF Lives
  <1>8. PICK k : k = [v EXCEPT !.wanted = w, !.pending = p]
    OBVIOUS
  <1>9. k \in Lives /\ k.pending = p /\ k.announced = v.announced /\ k.lacked = v.lacked
    BY <1>2, <1>7, <1>8 DEF Lives
  <1>10. HandledLive(s, k, l.blob, Wants(asked), <<>>, TRUE) /\ held' = held
    BY <1>2, <1>3, <1>6, <1>8 DEF ReadLive, Incoming
  <1>11. /\ Wants(asked) \in Seq(Frames) /\ \A i \in 1..Len(Wants(asked)) : Wants(asked)[i].kind \in {"want", "missing"}
    BY <1>4, WantsAre
  <1>12. Awaited(held'[s] \cup lost[s], k)
    <2>1. page \subseteq held[s] \cup missing
      BY <1>3
    <2> QED
      BY <1>2, <1>5, <1>6, <1>9, <1>10, <2>1 DEF Awaited
  <1>13. \A q : q = [l EXCEPT !.blob = l.blob] =>
           \A y : Legal(t, Heard(l, n), f, y) => y = Heard(q, n)
    <2>1. [l EXCEPT !.blob = l.blob] = l
      BY <1>2 DEF Loops
    <2> QED
      BY <1>2, <2>1 DEF Legal
  <1>14. l.blob \in Hashes \cup {NoHash}
    BY <1>2 DEF Loops
  <1>15. Answer(s, t, n, k, l.blob, Wants(asked), <<>>, TRUE)
    BY <1>2, <1>9, <1>10, <1>11, <1>12, <1>13, <1>14, Empty DEF Answer
  <1> QED
    BY <1>2, <1>15, AnswerKeeps

LEMMA LiveWantKeeps ==
  ASSUME Inv, NEW s \in Sides, LiveWant(s)
  PROVE  Inv'
  <1>1. ReadsLive(s, "want")
    BY DEF LiveWant, Incoming
  <1>2. PICK t, n, f, l, v : FacingLive(s, t, n, f, l, v) /\ f.kind = "want"
    BY <1>1, InLive
  <1> USE DEF FacingLive
  <1>3. PICK h, controls, entries : h = f.hash /\ controls = Denials(s, h) /\ entries = Answers(s, h)
    OBVIOUS
  <1>4. HandledLive(s, v, l.blob, controls, entries, FALSE) /\ held' = held
    BY <1>2, <1>3 DEF LiveWant, Incoming
  <1>5. h \in Hashes
    BY <1>2, <1>3, FrameFacts
  <1>6. Missing(h) \in Frames /\ Missing(h).kind = "missing" /\ Blob(h) \in Entries /\ Blob(h).kind = "blob"
    BY <1>5, FramesAre, EntriesAre DEF Missing, Blob
  <1>7. /\ controls \in Seq(Frames) /\ entries \in Seq(Entries)
        /\ \A i \in 1..Len(controls) : controls[i].kind \in {"want", "missing"}
        /\ \A i \in 1..Len(entries) : entries[i].kind = "blob"
    BY <1>3, <1>6 DEF Answers, Denials
  <1>8. \A q : q = [l EXCEPT !.blob = l.blob] =>
           \A y : Legal(t, Heard(l, n), f, y) => y = Heard(q, n)
    <2>1. [l EXCEPT !.blob = l.blob] = l
      BY <1>2 DEF Loops
    <2> QED
      BY <1>2, <2>1 DEF Legal
  <1>9. l.blob \in Hashes \cup {NoHash}
    BY <1>2 DEF Loops
  <1>10. Answer(s, t, n, v, l.blob, controls, entries, FALSE)
    BY <1>2, <1>4, <1>7, <1>8, <1>9 DEF Answer
  <1> QED
    BY <1>2, <1>10, AnswerKeeps

\* What is remembered to be answered is here, or not to be had.
Answered(v, h, more) == [Remember(v, h) EXCEPT !.lacked = @ \cup more]

LEMMA RememberIs ==
  ASSUME NEW v \in Lives, NEW h \in Hashes, NEW had, NEW more \in SUBSET Hashes, Awaited(had, v),
         NEW has, had \subseteq has, h \in has \cup more
  PROVE  Answered(v, h, more) \in Lives /\ Awaited(has, Answered(v, h, more))
  <1> DEFINE k == Answered(v, h, more)
  <1>1. PICK p, w, a : /\ p = { [b EXCEPT !.outstanding = @ \ {h}] : b \in v.pending }
                       /\ w = v.wanted \ {h} /\ a = v.lacked \cup more
    OBVIOUS
  <1>2. k = [v EXCEPT !.wanted = w, !.pending = p, !.lacked = a]
    BY <1>1 DEF Answered, Remember, Lives
  <1>3. v.pending \in SUBSET Batch /\ w \in SUBSET Hashes /\ a \in SUBSET Hashes
    BY <1>1 DEF Lives
  <1>4. ASSUME NEW c \in p
        PROVE  \E b \in v.pending : c \in Batch /\ c.page = b.page /\ b.outstanding \subseteq c.outstanding \cup {h}
    <2>1. PICK b \in v.pending : c = [b EXCEPT !.outstanding = @ \ {h}]
      BY <1>1, <1>4
    <2> QED
      BY <1>3, <2>1 DEF Batch
  <1>5. p \in SUBSET Batch
    BY <1>4
  <1>6. k \in Lives /\ k.pending = p /\ k.announced = v.announced /\ k.lacked = a
    BY <1>2, <1>3, <1>5 DEF Lives
  <1>7. ASSUME NEW c \in p PROVE c.page \subseteq has \cup a \cup c.outstanding
    <2>1. PICK b \in v.pending : c.page = b.page /\ b.outstanding \subseteq c.outstanding \cup {h}
      BY <1>4, <1>7
    <2>2. b.page \subseteq had \cup v.lacked \cup b.outstanding
      BY DEF Awaited
    <2> QED
      BY <1>1, <2>1, <2>2
  <1>8. \A page \in v.announced : page \subseteq has \cup a
    BY <1>1 DEF Awaited
  <1> QED
    BY <1>6, <1>7, <1>8 DEF Awaited

\* A frame that is not answered.
LEMMA HeardLive ==
  ASSUME Inv, NEW s, NEW t, NEW n, NEW f, NEW l, NEW v, FacingLive(s, t, n, f, l, v), NEW k \in Lives,
         NEW blob \in Hashes \cup {NoHash}, HandledLive(s, k, blob, <<>>, <<>>, FALSE),
         held' \in [Sides -> SUBSET Hashes], held[s] \subseteq held'[s], held'[t] = held[t],
         Awaited(held'[s] \cup lost[s], k),
         f.kind \in {"missing", "chunk"} => blob = l.blob, f.kind = "start" => blob = f.hash,
         f.kind \in {"end", "aborted"} => blob = NoHash,
         f.kind \in {"missing", "aborted", "start", "chunk", "end"}
  PROVE  Inv'
  <1> USE DEF FacingLive
  <1>1. ASSUME NEW q, q = [l EXCEPT !.blob = blob], NEW y, Legal(t, Heard(l, n), f, y)
        PROVE  y = Heard(q, n)
    <2>1. /\ q.pc = l.pc /\ q.peerSettled = l.peerSettled /\ q.peerDone = l.peerDone
          /\ q.pages = l.pages /\ q.blob = blob
      BY <1>1 DEF Loops
    <2> QED
      BY <1>1, <2>1 DEF Legal, Heard
  <1>2. Answer(s, t, n, k, blob, <<>>, <<>>, FALSE)
    BY <1>1, Empty DEF Answer
  <1> QED
    BY <1>2, AnswerKeeps

LEMMA LiveLackedKeeps ==
  ASSUME Inv, NEW s \in Sides, LiveLacked(s)
  PROVE  Inv'
  <1>1. PICK kind \in {"missing", "aborted"} : ReadsLive(s, kind)
    BY DEF LiveLacked
  <1>2. PICK t, n, f, l, v : FacingLive(s, t, n, f, l, v) /\ f.kind = kind
    BY <1>1, InLive
  <1> USE DEF FacingLive
  <1>3. PICK h, k, blob : /\ h = f.hash /\ k = [Remember(v, h) EXCEPT !.lacked = @ \cup {h}]
                          /\ blob = IF kind = "missing" THEN l.blob ELSE NoHash
    OBVIOUS
  <1>4. h \in Hashes /\ blob \in Hashes \cup {NoHash}
    BY <1>2, <1>3, FrameFacts DEF Loops
  <1>5. HandledLive(s, k, blob, <<>>, <<>>, FALSE) /\ held' = held
    BY <1>2, <1>3 DEF LiveLacked, Incoming, ReadsLive
  <1>6. k \in Lives /\ Awaited(held[s] \cup lost[s], k)
    <2>1. PICK had, more : had = held[s] \cup lost[s] /\ more = {h}
      OBVIOUS
    <2>2. more \in SUBSET Hashes /\ h \in had \cup more /\ Awaited(had, v) /\ v \in Lives
      BY <1>2, <1>4, <2>1
    <2>3. k = Answered(v, h, more)
      BY <1>3, <2>1 DEF Answered
    <2> HIDE DEF FacingLive
    <2>4. k \in Lives /\ Awaited(had, k)
      BY <1>4, <2>2, <2>3, RememberIs
    <2> QED
      BY <2>1, <2>4
  <1>7. held' \in [Sides -> SUBSET Hashes] /\ held[s] \subseteq held'[s] /\ held'[t] = held[t]
    BY <1>2, <1>5
  <1>8. /\ f.kind \in {"missing", "chunk"} => blob = l.blob
        /\ f.kind = "start" => blob = f.hash
        /\ f.kind \in {"end", "aborted"} => blob = NoHash
        /\ f.kind \in {"missing", "aborted", "start", "chunk", "end"}
    <2> HIDE DEF FacingLive
    <2> QED
      BY <1>1, <1>2, <1>3
  <1>9. Awaited(held'[s] \cup lost[s], k)
    BY <1>5, <1>6
  <1> HIDE DEF FacingLive
  <1>10. FacingLive(s, t, n, f, l, v)
    BY <1>2
  <1>11. k \in Lives /\ blob \in Hashes \cup {NoHash} /\ HandledLive(s, k, blob, <<>>, <<>>, FALSE)
    BY <1>4, <1>5, <1>6
  <1> QED
    BY <1>7, <1>8, <1>9, <1>10, <1>11, HeardLive

LEMMA LiveBlobKeeps ==
  ASSUME Inv, NEW s \in Sides, LiveBlob(s)
  PROVE  Inv'
  <1>1. PICK kind \in {"start", "chunk", "end"} : ReadsLive(s, kind)
    BY DEF LiveBlob
  <1>2. PICK t, n, f, l, v : FacingLive(s, t, n, f, l, v) /\ f.kind = kind
    BY <1>1, InLive
  <1>3. CASE kind = "end"
    <2>1. PICK h, k : h = l.blob /\ k = Remember(v, h)
      OBVIOUS
    <2>2. /\ HandledLive(s, k, NoHash, <<>>, <<>>, FALSE) /\ h # NoHash
          /\ held' = [held EXCEPT ![s] = @ \cup {h}]
      BY <1>2, <1>3, <2>1 DEF LiveBlob, FacingLive, Incoming, ReadsLive
    <2>3. h \in Hashes
      BY <1>2, <2>1, <2>2 DEF FacingLive, Loops
    <2>4. /\ held' \in [Sides -> SUBSET Hashes] /\ held[s] \subseteq held'[s] /\ held'[t] = held[t]
          /\ h \in held'[s]
      BY <1>2, <2>2, <2>3 DEF FacingLive
    <2>5. k = [Remember(v, h) EXCEPT !.lacked = @ \cup {}]
      BY <1>2, <2>1 DEF FacingLive, Remember, Lives
    <2>6. k \in Lives /\ Awaited(held'[s] \cup lost[s], k)
      <3>1. PICK had, has, more : had = held[s] \cup lost[s] /\ has = held'[s] \cup lost[s] /\ more = {}
        OBVIOUS
      <3>2. /\ more \in SUBSET Hashes /\ h \in has \cup more /\ had \subseteq has
            /\ Awaited(had, v) /\ v \in Lives
        BY <1>2, <2>4, <3>1 DEF FacingLive
      <3>3. k = Answered(v, h, more)
        BY <2>5, <3>1 DEF Answered
      <3>4. h \in has \cup more /\ had \subseteq has /\ more \in SUBSET Hashes
        BY <3>2
      <3>5. v \in Lives /\ Awaited(had, v)
        BY <3>2
      <3>6. k \in Lives /\ Awaited(has, k)
        BY <2>3, <3>3, <3>4, <3>5, RememberIs
      <3> QED
        BY <3>1, <3>6
    <2> QED
      BY <1>2, <1>3, <2>2, <2>4, <2>6, HeardLive
  <1>4. CASE kind # "end"
    <2>1. PICK blob : blob = IF kind = "start" THEN f.hash ELSE l.blob
      OBVIOUS
    <2>2. blob \in Hashes \cup {NoHash}
      BY <1>2, <2>1, FrameFacts DEF FacingLive, Loops
    <2>3. HandledLive(s, v, blob, <<>>, <<>>, FALSE) /\ held' = held
      BY <1>2, <1>4, <2>1 DEF LiveBlob, FacingLive, Incoming, ReadsLive
    <2>4. /\ held' \in [Sides -> SUBSET Hashes] /\ held[s] \subseteq held'[s] /\ held'[t] = held[t]
          /\ Awaited(held'[s] \cup lost[s], v) /\ v \in Lives
      BY <1>2, <2>3 DEF FacingLive
    <2> QED
      BY <1>2, <1>4, <2>1, <2>2, <2>3, <2>4, HeardLive
  <1> QED
    BY <1>3, <1>4

-----------------------------------------------------------------------------
\* The theorems.

LEMMA StepKeeps == Inv /\ [Next]_vars => Inv'
  <1> SUFFICES ASSUME Inv, [Next]_vars PROVE Inv'
    OBVIOUS
  <1>1. CASE UNCHANGED vars
    <2>1. UNCHANGED <<once, compatible, loop, urgent, bulk, sending, wire, open, held, live, lost, failures>>
      BY <1>1 DEF vars
    <2>2. Typed'
      BY <2>1 DEF Inv, Typed
    <2>3. ASSUME NEW s \in Sides PROVE Of(s, Peer(s))'
      BY <2>1 DEF Inv, Of, Sane, Truthful, SaysOn, Hears, Alone
    <2> QED
      BY <2>2, <2>3 DEF Inv
  <1>2. CASE Cut
    BY <1>2, CutKeeps
  <1>3. ASSUME NEW s \in Sides, NEW h \in Hashes, Lose(s, h) PROVE Inv'
    BY <1>3, LoseKeeps
  <1>4. ASSUME NEW s \in Sides, Push(s) \/ Drop(s) \/ Timeout(s) PROVE Inv'
    BY <1>4, PushKeeps, LiveOverKeeps, TimeoutKeeps
  <1>5. ASSUME NEW s \in Sides, WriterStep(s) PROVE Inv'
    BY <1>5, WriteUrgentKeeps, WriteBulkKeeps, WriteChunkKeeps, WriteEndKeeps, WriteFailsKeeps,
       StartBlobKeeps DEF WriterStep
  <1>6. ASSUME NEW s \in Sides, LoopStep(s) PROVE Inv'
    BY <1>6, ReadHelloKeeps, ReadUpdatesKeeps, ReadDoneKeeps, ReadSettledKeeps, ReadWantKeeps,
       ReadMissingKeeps, ReadAbortedKeeps, ReadBlobKeeps, ReadEndKeeps, CommitKeeps, CloseKeeps,
       ReadLiveKeeps, LiveWantKeeps, LiveLackedKeeps, LiveBlobKeeps, LiveOverKeeps
       DEF LoopStep, ReadExchange
  <1> QED
    BY <1>1, <1>2, <1>3, <1>4, <1>5, <1>6 DEF Next

\* Inv holds throughout.
THEOREM Invariant == Spec => []Inv
  BY InitInv, StepKeeps, PTL DEF Spec

LEMMA InvIsTyped == Inv => TypeOK
  <1> SUFFICES ASSUME Inv PROVE TypeOK
    OBVIOUS
  <1>1. Typed
    BY DEF Inv
  <1>2. ASSUME NEW s \in Sides
        PROVE  /\ loop[s].pc \in {"hello", "exchange", "live", "ended", "dropped", "closing", "over"}
               /\ loop[s].stop \in {"none", "complete", "gone", "refused", "timeout"}
               /\ loop[s].wanted \cup loop[s].lacked \subseteq Hashes
               /\ loop[s].pages \in 0..Len(Delta[Peer(s)])
               /\ Range(urgent[s]) \cup Range(wire[s]) \subseteq Frames
               /\ Range(bulk[s]) \subseteq Entries
               /\ Len(wire[s]) <= WireSize
               /\ sending[s].hash \in Hashes \cup {NoHash} /\ loop[s].blob \in Hashes \cup {NoHash}
               /\ held[s] \cup lost[s] \subseteq Hashes /\ open[s] \in BOOLEAN
    <2>1. PICK l, u, w, b, x : l = loop[s] /\ u = urgent[s] /\ w = wire[s] /\ b = bulk[s] /\ x = sending[s]
      OBVIOUS
    <2>2. /\ l \in Loops /\ u \in Seq(Frames) /\ w \in Seq(Frames) /\ b \in Seq(Entries) /\ x \in Sendings
          /\ Len(w) <= WireSize
          /\ held[s] \in SUBSET Hashes /\ lost[s] \in SUBSET Hashes /\ open[s] \in BOOLEAN
      BY <1>1, <2>1 DEF Typed
    <2>3. Range(u) \subseteq Frames /\ Range(w) \subseteq Frames /\ Range(b) \subseteq Entries
      BY <2>2 DEF Range
    <2>4. PICK n : n = Len(Delta[Peer(s)])
      OBVIOUS
    <2>5. n \in Nat /\ l.pages <= n
      BY <2>1, <2>4, Both DEF Of, Sane
    <2>6. l.pages \in 0..n
      BY <2>2, <2>5 DEF Loops
    <2> QED
      BY <2>1, <2>2, <2>3, <2>4, <2>6 DEF Loops, Sendings
  <1> QED
    BY <1>1, <1>2 DEF TypeOK, Typed

\* Every variable keeps its type: the queues hold what a session says, and the bounds hold.
THEOREM TypeCorrect == Spec => []TypeOK
  BY Invariant, InvIsTyped, PTL

LEMMA InvComplies == Inv => PeersComply
  <1> SUFFICES ASSUME Inv, NEW s \in Sides, Incoming(s) # <<>>
               PROVE  LET f == Head(Incoming(s)) IN
                      /\ loop[s].pc = "hello" => f = Hello
                      /\ loop[s].pc = "exchange" /\ ~Complete(loop[s]) => f.kind \notin {"hello", "live", "refused"}
                      /\ loop[s].pc = "live" =>
                           f.kind \notin {"hello", "refused", "updates", "done", "settled"}
                      /\ loop[s].pc = "live" \/ (loop[s].pc = "exchange" /\ ~Complete(loop[s])) =>
                           /\ f.kind = "start" => loop[s].blob = NoHash
                           /\ f.kind \in {"chunk", "end"} => loop[s].blob # NoHash
                           /\ f.kind = "aborted" => f.hash = loop[s].blob
    BY DEF PeersComply
  <1>1. PICK t, n, f, l : t = Peer(s) /\ n = Len(Delta[t]) /\ f = Head(wire[t]) /\ l = loop[s]
    OBVIOUS
  <1>2. /\ Pair(s, t) /\ Of(s, t) /\ Of(t, s) /\ n \in Nat /\ l \in Loops /\ loop[t] \in Loops
        /\ wire[t] # <<>> /\ Incoming(s) = wire[t]
    BY <1>1, Both DEF Pair, Incoming, Typed
  <1> SUFFICES ASSUME Reading(l)
               PROVE  /\ l.pc = "hello" => f = Hello
                      /\ l.pc = "exchange" /\ ~Complete(l) => f.kind \notin {"hello", "live", "refused"}
                      /\ l.pc = "live" => f.kind \notin {"hello", "refused", "updates", "done", "settled"}
                      /\ l.pc \in {"live", "exchange"} =>
                           /\ f.kind = "start" => l.blob = NoHash
                           /\ f.kind \in {"chunk", "end"} => l.blob # NoHash
                           /\ f.kind = "aborted" => f.hash = l.blob
    BY <1>1, <1>2 DEF Reading
  <1>3. /\ f \in Frames
        /\ f.kind = "refused" => SaysOn(t, "refused")
        /\ f.kind = "live" => SaysOn(t, "live")
    BY <1>1, <1>2, NextFrame
  <1>4. PICK x, y : x = Heard(l, n) /\ Legal(t, x, f, y)
    BY <1>1, <1>2, NextFrame
  <1>5. /\ x.said = (IF l.pc = "hello" THEN 0 ELSE IF l.peerSettled THEN 2 ELSE 1)
        /\ x.page = (IF l.peerDone THEN n + 1 ELSE l.pages) /\ x.blob = l.blob
    BY <1>4 DEF Heard
  <1>6. l.pc = "hello" => f = Hello
    BY <1>3, <1>4, <1>5, FrameFacts DEF Legal
  <1>7. l.pc \in {"exchange", "live"} => f.kind \notin {"hello", "refused"}
    <2>1. l.pc \in {"exchange", "live"} => compatible
      BY <1>1, <1>2 DEF Of, Sane
    <2>2. f.kind = "refused" => ~compatible
      BY <1>2, <1>3 DEF Of, Truthful
    <2> QED
      BY <1>4, <1>5, <2>1, <2>2 DEF Legal
  <1>8. ASSUME l.pc = "exchange", f.kind = "live" PROVE Complete(l)
    <2>1. l.peerSettled
      BY <1>4, <1>5, <1>8 DEF Legal
    <2>2. loop[t].stop = "complete"
      BY <1>2, <1>3, <1>8 DEF Of, Truthful
    <2>3. loop[t].peerSettled
      BY <1>2, <2>2 DEF Of, Sane, Complete
    <2>4. l.settled
      BY <1>1, <1>2, <2>3 DEF Of, Truthful
    <2> QED
      BY <1>1, <1>2, <2>1, <2>4 DEF Of, Sane, Complete
  <1>9. ASSUME l.pc = "live" PROVE f.kind \notin {"updates", "done", "settled"}
    <2>1. Complete(l)
      BY <1>1, <1>2, <1>9 DEF Of, Sane
    <2>2. x.said = 2 /\ x.page = n + 1
      BY <1>5, <1>9, <2>1 DEF Complete
    <2>3. ~(n + 1 < Len(Delta[t])) /\ n + 1 # Len(Delta[t])
      BY <1>1, <1>2
    <2> QED
      BY <1>4, <2>2, <2>3 DEF Legal
  <1>10. /\ f.kind = "start" => l.blob = NoHash
         /\ f.kind \in {"chunk", "end"} => l.blob # NoHash
         /\ f.kind = "aborted" => f.hash = l.blob
    BY <1>4, <1>5 DEF Legal
  <1> QED
    BY <1>6, <1>7, <1>8, <1>9, <1>10

\* Whatever the interleaving, the contents lost and the failures, no side calls a frame of
\* the other a protocol error (Stop::Protocol).
THEOREM Complies == Spec => []PeersComply
  BY Invariant, InvComplies, PTL

LEMMA InvCommits == Inv => CommitsWhatItHas
  <1> SUFFICES ASSUME Inv, NEW s \in Sides, loop[s].stop = "complete"
               PROVE  /\ loop[s].pages = Len(Delta[Peer(s)])
                      /\ (UNION Range(Delta[Peer(s)])) \cup Owed[s] \subseteq held[s] \cup lost[s] \cup loop[s].lacked
    BY DEF CommitsWhatItHas
  <1>1. PICK t, d, l, had : t = Peer(s) /\ d = Delta[t] /\ l = loop[s] /\ had = held[s] \cup lost[s]
    OBVIOUS
  <1>2. Of(s, t) /\ d \in Seq(SUBSET Hashes)
    BY <1>1, Both
  <1>3. l.pages = Len(d) /\ l.wanted = {} /\ l.peerDone
    BY <1>1, <1>2 DEF Of, Sane, Complete
  <1>4. /\ \A i \in 1..Len(d) : d[i] \subseteq had \cup l.lacked
        /\ Owed[s] \subseteq had \cup l.lacked
    BY <1>1, <1>2, <1>3 DEF Of, Accounted
  <1>5. UNION Range(d) \subseteq had \cup l.lacked
    BY <1>2, <1>4 DEF Range
  <1> QED
    BY <1>1, <1>3, <1>4, <1>5

\* What is committed is backed: all the peer's pages, and every content accounted for.
THEOREM Commits == Spec => []CommitsWhatItHas
  BY Invariant, InvCommits, PTL

LEMMA InvServes == Inv => AnnouncedIsServed
  <1> SUFFICES ASSUME Inv, NEW s \in Sides, NEW page \in live[s].announced
               PROVE  page \subseteq held[s] \cup lost[s] \cup live[s].lacked
    BY DEF AnnouncedIsServed
  <1> QED
    BY Both DEF Of, Awaited

\* No batch is announced ahead of its contents, those that another batch had asked for included.
THEOREM Serves == Spec => []AnnouncedIsServed
  BY Invariant, InvServes, PTL

-----------------------------------------------------------------------------
(* Nobody is stranded.  The invariant above says what went one way; whether  *)
(* a side may leave depends on what goes both ways: every want is counted    *)
(* against what answers it, and a content sent ahead of the pages is there   *)
(* before the page that names it.                                            *)

\* How often a message of a kind, about the content h, is in the queue q.
Times(q, kind, h) == Cardinality({ i \in 1..Len(q) : q[i].kind = kind /\ q[i].hash = h })

\* One, if b holds.
One(b) == IF b THEN 1 ELSE 0

\* The contents s writes ahead of the pages that refer to them.
Given(s) == { h \in Small \cap Holds[s] : \E i \in 1..Len(Delta[s]) : h \in Delta[s][i] }

\* s has not completed, nor stopped.
Early(s) == loop[s].pc \in {"hello", "exchange"}

\* How an exchange ends, what is left of it then, and what is there when it starts.
Ends(s) ==
  /\ loop[s].stop = "timeout" => failures > 0
  /\ loop[s].stop = "refused" => ~compatible
  /\ loop[s].pc = "over" => ~open[s] /\ urgent[s] = <<>> /\ bulk[s] = <<>>
  /\ loop[s].pc = "hello" => held[s] \subseteq Holds[s]

\* s has its small contents, and neither fails to send one nor sends another ahead of a page.
Keeps(s) ==
  /\ Small \cap Holds[s] \subseteq held[s]
  /\ sending[s].read = "wrong" => sending[s].hash \notin Given(s)
  /\ \A i \in 1..Len(wire[s]) : wire[s][i].kind = "aborted" => wire[s][i].hash \notin Given(s)
  /\ \A i \in 1..Len(bulk[s]) : bulk[s][i].kind = "updates" => bulk[s][i].inline \subseteq Given(s)

\* h is here, or is being received, or is in the first n frames to come.
Coming(had, blob, w, n, h) ==
  h \in had \/ blob = h \/ \E j \in 1..n : w[j].kind = "start" /\ w[j].hash = h

\* What s sends ahead of a page is there before the page.
Ahead(h, had, blob, pages, w, b, d) ==
  /\ \A k \in 1..pages : h \in d[k] => h \in had
  /\ \A i \in 1..Len(w) : w[i].kind = "updates" /\ h \in w[i].page => Coming(had, blob, w, i - 1, h)
  /\ \A i \in 1..Len(b) : b[i].kind = "updates" /\ h \in b[i].page =>
       h \in b[i].inline \/ Coming(had, blob, w, Len(w), h)

Arrives(p, s) ==
  Early(p) => \A h \in Given(s) : Ahead(h, held[p], loop[p].blob, loop[p].pages, wire[s], bulk[s], Delta[s])

\* How often p asks for h, and s answers that, on the way.
Asking(p, h) == Times(urgent[p], "want", h) + Times(wire[p], "want", h)

Answering(p, s, h) ==
  Times(urgent[s], "missing", h) + Times(wire[s], "missing", h) + Times(bulk[s], "blob", h)
    + Times(wire[s], "start", h) + One(loop[p].blob = h)

\* p asks only for what it still wants, once, and not for what is sent ahead.
Asks(p, s) ==
  Early(p) => \A h \in Hashes :
    IF h \in Given(s) THEN Asking(p, h) = 0 /\ h \notin loop[p].wanted
    ELSE Asking(p, h) + Answering(p, s, h) <= One(h \in loop[p].wanted)

\* Having completed, p asks for nothing while s has not.
Quiet(p, s) == loop[p].stop = "complete" /\ Early(s) => ~SaysOn(p, "want")

\* What holds of s, facing t, while the stream holds and no small content is lost.
Tidy(s, t) == Keeps(s) /\ Arrives(s, t) /\ Asks(s, t) /\ Quiet(s, t) /\ loop[s].stop # "gone"

\* The second inductive invariant.
IInv == \A s \in Sides : Ends(s) /\ (Steady => Tidy(s, Peer(s)))

-----------------------------------------------------------------------------
\* Counting messages.

LEMMA Shift ==
  ASSUME NEW S \in SUBSET Nat, IsFiniteSet(S), NEW n \in Nat, NEW R, R = { i + n : i \in S }
  PROVE  IsFiniteSet(R) /\ Cardinality(R) = Cardinality(S)
  <1> DEFINE f == [i \in S |-> i + n]
  <1>1. f \in [S -> R]
    OBVIOUS
  <1>2. \A i, j \in S : f[i] = f[j] => i = j
    OBVIOUS
  <1>3. \A r \in R : \E i \in S : f[i] = r
    OBVIOUS
  <1> HIDE DEF f
  <1>4. f \in Bijection(S, R)
    BY <1>1, <1>2, <1>3 DEF Bijection, Injection, Surjection, IsInjective
  <1>5. ExistsBijection(S, R)
    BY <1>4 DEF ExistsBijection
  <1> QED
    BY <1>5, FS_Bijection

\* The places of a kind of message about h.
Places(q, kind, h) == { i \in 1..Len(q) : q[i].kind = kind /\ q[i].hash = h }

LEMMA PlacesAre ==
  ASSUME NEW T, NEW q \in Seq(T), NEW kind, NEW h
  PROVE  /\ Places(q, kind, h) \in SUBSET Nat /\ IsFiniteSet(Places(q, kind, h))
         /\ Cardinality(Places(q, kind, h)) = Times(q, kind, h) /\ Times(q, kind, h) \in Nat
  <1>1. IsFiniteSet(1..Len(q)) /\ Places(q, kind, h) \in SUBSET (1..Len(q))
    BY FS_Interval DEF Places
  <1>2. IsFiniteSet(Places(q, kind, h))
    BY <1>1, FS_Subset
  <1>3. Cardinality(Places(q, kind, h)) = Times(q, kind, h)
    BY DEF Places, Times
  <1>4. Places(q, kind, h) \in SUBSET Nat
    BY DEF Places
  <1> QED
    BY <1>2, <1>3, <1>4, FS_CardinalityType

LEMMA TimesCat ==
  ASSUME NEW T, NEW q \in Seq(T), NEW r \in Seq(T), NEW kind, NEW h
  PROVE  Times(q \o r, kind, h) = Times(q, kind, h) + Times(r, kind, h)
  <1> DEFINE n == Len(q)
             A == Places(q, kind, h)
             B == Places(r, kind, h)
             C == { i + n : i \in B }
  <1>1. n \in Nat /\ q \o r \in Seq(T) /\ Len(q \o r) = n + Len(r)
    OBVIOUS
  <1>2. /\ A \in SUBSET Nat /\ IsFiniteSet(A) /\ B \in SUBSET Nat /\ IsFiniteSet(B)
    BY PlacesAre
  <1>3. IsFiniteSet(C) /\ Cardinality(C) = Cardinality(B)
    <2>1. PICK S, R : S = B /\ R = C
      OBVIOUS
    <2>2. R = { i + n : i \in S }
      BY <2>1
    <2>3. S \in SUBSET Nat /\ IsFiniteSet(S) /\ n \in Nat
      BY <1>1, <1>2, <2>1
    <2> HIDE DEF n, A, B, C
    <2>4. IsFiniteSet(R) /\ Cardinality(R) = Cardinality(S)
      BY <2>2, <2>3, Shift
    <2> QED
      BY <2>1, <2>4
  <1>4. Places(q \o r, kind, h) = A \cup C
    <2>1. ASSUME NEW i \in 1..n + Len(r), i <= n
          PROVE  (q \o r)[i] = q[i] /\ i \in 1..Len(q) /\ i \notin C
      BY <1>1, <2>1 DEF Places
    <2>2. ASSUME NEW i \in 1..n + Len(r), i > n
          PROVE  (q \o r)[i] = r[i - n] /\ i - n \in 1..Len(r) /\ i = (i - n) + n /\ i \notin A
      BY <1>1, <2>2 DEF Places
    <2>3. ASSUME NEW i \in Places(q \o r, kind, h) PROVE i \in A \cup C
      <3>1. i \in 1..n + Len(r)
        BY <1>1 DEF Places
      <3>2. CASE i <= n
        BY <2>1, <3>1, <3>2 DEF Places
      <3>3. CASE i > n
        <4>1. i - n \in B
          BY <2>2, <3>1, <3>3 DEF Places
        <4> QED
          BY <2>2, <3>1, <3>3, <4>1
      <3> QED
        BY <1>1, <3>1, <3>2, <3>3
    <2>4. ASSUME NEW i \in A PROVE i \in Places(q \o r, kind, h)
      <3>1. i \in 1..n /\ i \in 1..n + Len(r) /\ i <= n
        BY <1>1 DEF Places
      <3> QED
        BY <1>1, <2>1, <3>1 DEF Places
    <2>5. ASSUME NEW j \in B PROVE j + n \in Places(q \o r, kind, h)
      <3>1. j \in 1..Len(r) /\ j + n \in 1..n + Len(r) /\ j + n > n /\ (j + n) - n = j
        BY <1>1 DEF Places
      <3> QED
        BY <1>1, <2>2, <3>1 DEF Places
    <2> QED
      BY <2>3, <2>4, <2>5
  <1>5. A \cap C = {}
    <2>1. \A i \in A : i <= n
      BY DEF Places
    <2>2. \A j \in B : j > 0
      BY DEF Places
    <2> QED
      BY <1>1, <1>2, <2>1, <2>2
  <1> HIDE DEF A, B, C
  <1>6. Cardinality(A \cup C) = Cardinality(A) + Cardinality(C)
    <2>1. Cardinality(A \cup C) = Cardinality(A) + Cardinality(C) - Cardinality(A \cap C)
      BY <1>2, <1>3, FS_Union
    <2>2. Cardinality(A \cap C) = 0 /\ Cardinality(A) \in Nat /\ Cardinality(C) \in Nat
      BY <1>2, <1>3, <1>5, FS_EmptySet, FS_CardinalityType
    <2> QED
      BY <2>1, <2>2
  <1>7. /\ Cardinality(A) = Times(q, kind, h) /\ Cardinality(B) = Times(r, kind, h)
        /\ Cardinality(A \cup C) = Times(q \o r, kind, h)
        /\ Times(q, kind, h) \in Nat /\ Times(r, kind, h) \in Nat
    BY <1>1, <1>4, PlacesAre DEF A, B
  <1> QED
    BY <1>3, <1>6, <1>7

LEMMA TimesNone ==
  ASSUME NEW T, NEW q \in Seq(T), NEW kind, NEW h,
         \A i \in 1..Len(q) : ~(q[i].kind = kind /\ q[i].hash = h)
  PROVE  Times(q, kind, h) = 0
  <1>1. Places(q, kind, h) = {}
    BY DEF Places
  <1> QED
    BY <1>1, PlacesAre, FS_EmptySet

LEMMA TimesOne ==
  ASSUME NEW T, NEW a \in T, NEW kind, NEW h
  PROVE  Times(<<a>>, kind, h) = One(a.kind = kind /\ a.hash = h)
  <1>1. <<a>> \in Seq(T) /\ Len(<<a>>) = 1 /\ <<a>>[1] = a
    OBVIOUS
  <1>2. CASE a.kind = kind /\ a.hash = h
    <2>1. Places(<<a>>, kind, h) = {1}
      BY <1>1, <1>2 DEF Places
    <2>2. Cardinality({1}) = 1
      BY FS_Singleton
    <2> QED
      BY <1>1, <1>2, <2>1, <2>2, PlacesAre DEF One
  <1>3. CASE ~(a.kind = kind /\ a.hash = h)
    <2>1. PICK q : q = <<a>>
      OBVIOUS
    <2>2. q \in Seq(T) /\ \A i \in 1..Len(q) : q[i] = a
      BY <1>1, <2>1
    <2>3. Times(q, kind, h) = 0
      BY <1>3, <2>2, TimesNone
    <2> QED
      BY <1>3, <2>1, <2>3 DEF One
  <1> QED
    BY <1>2, <1>3

LEMMA TimesAppend ==
  ASSUME NEW T, NEW q \in Seq(T), NEW a \in T, NEW kind, NEW h
  PROVE  Times(Append(q, a), kind, h) = Times(q, kind, h) + One(a.kind = kind /\ a.hash = h)
  <1>1. PICK r, u : r = <<a>> /\ u = Append(q, a)
    OBVIOUS
  <1>2. u = q \o r /\ r \in Seq(T)
    BY <1>1
  <1>3. Times(q \o r, kind, h) = Times(q, kind, h) + Times(r, kind, h)
    BY <1>2, TimesCat
  <1>4. Times(r, kind, h) = One(a.kind = kind /\ a.hash = h)
    BY <1>1, TimesOne
  <1> QED
    BY <1>1, <1>2, <1>3, <1>4

LEMMA TimesTail ==
  ASSUME NEW T, NEW q \in Seq(T), q # <<>>, NEW kind, NEW h
  PROVE  Times(q, kind, h) = One(Head(q).kind = kind /\ Head(q).hash = h) + Times(Tail(q), kind, h)
  <1>1. PICK a, r, u : a = Head(q) /\ r = Tail(q) /\ u = <<a>>
    OBVIOUS
  <1>2. q = u \o r /\ u \in Seq(T) /\ r \in Seq(T) /\ a \in T
    BY <1>1
  <1>3. Times(u \o r, kind, h) = Times(u, kind, h) + Times(r, kind, h)
    BY <1>2, TimesCat
  <1>4. Times(u, kind, h) = One(a.kind = kind /\ a.hash = h)
    BY <1>1, <1>2, TimesOne
  <1> QED
    BY <1>1, <1>2, <1>3, <1>4

\* A side asks once for each content.
LEMMA TimesWants ==
  ASSUME NEW hashes \in SUBSET Hashes, NEW h
  PROVE  /\ Times(Wants(hashes), "want", h) <= One(h \in hashes)
         /\ \A kind : kind # "want" => Times(Wants(hashes), kind, h) = 0
  <1>1. IsFiniteSet(hashes)
    BY SessionAssumption, FS_Subset
  <1>2. Cardinality(hashes) \in Nat /\ ExistsBijection(1..Cardinality(hashes), hashes)
    BY <1>1, FS_CardinalityType
  <1>3. \E f \in [1..Cardinality(hashes) -> hashes] : IsInjective(f)
    BY <1>2 DEF ExistsBijection, Bijection, Injection, IsInjective
  <1>4. PICK c : c = SetToSeq(hashes)
    OBVIOUS
  <1>5. c \in [1..Cardinality(hashes) -> hashes] /\ IsInjective(c)
    BY <1>3, <1>4 DEF SetToSeq
  <1>6. /\ Wants(hashes) \in Seq(Frames) /\ Len(Wants(hashes)) = Cardinality(hashes)
        /\ \A i \in 1..Len(Wants(hashes)) : Wants(hashes)[i].kind = "want" /\ Wants(hashes)[i].hash = c[i]
    BY <1>2, <1>4, WantsAre DEF Wants, Want
  <1>7. \A kind : kind # "want" => Times(Wants(hashes), kind, h) = 0
    BY <1>6, TimesNone
  <1>8. CASE \E i \in 1..Len(Wants(hashes)) : c[i] = h
    <2>1. PICK i \in 1..Len(Wants(hashes)) : c[i] = h
      BY <1>8
    <2>2. \A j \in 1..Len(Wants(hashes)) : c[j] = h => j = i
      BY <1>5, <1>6, <2>1 DEF IsInjective
    <2>3. Places(Wants(hashes), "want", h) = {i}
      BY <1>6, <2>1, <2>2 DEF Places
    <2>4. h \in hashes
      BY <1>5, <1>6, <2>1
    <2>5. Times(Wants(hashes), "want", h) = Cardinality({i})
      BY <1>6, <2>3, PlacesAre
    <2>6. Cardinality({i}) = 1
      BY FS_Singleton
    <2> QED
      BY <1>7, <2>4, <2>5, <2>6 DEF One
  <1>9. CASE ~\E i \in 1..Len(Wants(hashes)) : c[i] = h
    <2>1. Times(Wants(hashes), "want", h) = 0
      BY <1>6, <1>9, TimesNone
    <2> QED
      BY <1>7, <2>1 DEF One
  <1> QED
    BY <1>8, <1>9

LEMMA AheadAppend ==
  ASSUME NEW w \in Seq(Frames), NEW a \in Frames, NEW h, NEW had, NEW blob, NEW pages \in Nat, NEW q, NEW d,
         Ahead(h, had, blob, pages, w, q, d), NEW r,
         a.kind = "updates" /\ h \in a.page => Coming(had, blob, w, Len(w), h),
         \A i \in 1..Len(r) : r[i].kind = "updates" /\ h \in r[i].page =>
           h \in r[i].inline \/ Coming(had, blob, w, Len(w), h) \/ (a.kind = "start" /\ a.hash = h)
  PROVE  Ahead(h, had, blob, pages, Append(w, a), r, d)
  <1> DEFINE n == Len(w)
             v == Append(w, a)
  <1>1. n \in Nat /\ Len(v) = n + 1 /\ v[n + 1] = a /\ \A i \in 1..n : v[i] = w[i]
    OBVIOUS
  <1> HIDE DEF n, v
  <1>2. ASSUME NEW k \in 0..n, Coming(had, blob, w, k, h)
        PROVE  Coming(had, blob, v, k, h) /\ Coming(had, blob, v, n + 1, h)
    <2>1. \A j \in 1..k : j \in 1..n /\ j \in 1..n + 1 /\ v[j] = w[j]
      BY <1>1
    <2> QED
      BY <1>2, <2>1 DEF Coming
  <1>3. ASSUME NEW i \in 1..n + 1, v[i].kind = "updates", h \in v[i].page
        PROVE  Coming(had, blob, v, i - 1, h)
    <2>1. CASE i = n + 1
      <3>1. Coming(had, blob, w, n, h)
        BY <1>1, <1>3, <2>1 DEF n
      <3>2. i - 1 = n /\ n \in 0..n
        BY <1>1, <2>1
      <3> QED
        BY <1>2, <3>1, <3>2
    <2>2. CASE i # n + 1
      <3>1. i \in 1..n /\ i - 1 \in 0..n
        BY <1>1, <2>2
      <3>2. Coming(had, blob, w, i - 1, h)
        BY <1>1, <1>3, <3>1 DEF Ahead, n
      <3> QED
        BY <1>2, <3>1, <3>2
    <2> QED
      BY <2>1, <2>2
  <1>4. ASSUME NEW i \in 1..Len(r), r[i].kind = "updates", h \in r[i].page, h \notin r[i].inline
        PROVE  Coming(had, blob, v, n + 1, h)
    <2>1. CASE Coming(had, blob, w, n, h)
      <3>1. n \in 0..n
        BY <1>1
      <3> QED
        BY <1>2, <2>1, <3>1
    <2>2. CASE a.kind = "start" /\ a.hash = h
      <3>1. n + 1 \in 1..n + 1
        BY <1>1
      <3> QED
        BY <1>1, <2>2, <3>1 DEF Coming
    <2> QED
      BY <1>4, <2>1, <2>2 DEF n
  <1> QED
    BY <1>1, <1>3, <1>4 DEF Ahead, v

LEMMA AheadTail ==
  ASSUME NEW w \in Seq(Frames), w # <<>>, NEW h, NEW had, NEW blob, NEW pages, NEW q, NEW d,
         Ahead(h, had, blob, pages, w, q, d), NEW had2, NEW blob2, NEW pages2,
         had \subseteq had2, blob = h => blob2 = h \/ h \in had2,
         Head(w).kind = "start" /\ Head(w).hash = h => blob2 = h \/ h \in had2,
         \A k \in 1..pages2 : h \in d[k] => h \in had2
  PROVE  Ahead(h, had2, blob2, pages2, Tail(w), q, d)
  <1> DEFINE n == Len(w)
             v == Tail(w)
  <1>1. /\ n \in Nat /\ n > 0 /\ Len(v) = n - 1 /\ Head(w) = w[1]
        /\ \A i \in 1..n - 1 : v[i] = w[i + 1]
    OBVIOUS
  <1> HIDE DEF n, v
  <1>2. ASSUME NEW k \in 1..n, Coming(had, blob, w, k, h)
        PROVE  Coming(had2, blob2, v, k - 1, h)
    <2>1. CASE h \in had \/ blob = h
      BY <2>1 DEF Coming
    <2>2. CASE \E j \in 1..k : w[j].kind = "start" /\ w[j].hash = h
      <3>1. PICK j \in 1..k : w[j].kind = "start" /\ w[j].hash = h
        BY <2>2
      <3>2. CASE j = 1
        BY <1>1, <3>1, <3>2 DEF Coming
      <3>3. CASE j # 1
        <4>1. j - 1 \in 1..k - 1 /\ j - 1 \in 1..n - 1 /\ (j - 1) + 1 = j
          BY <1>1, <3>3
        <4>2. v[j - 1] = w[j]
          BY <1>1, <4>1
        <4> QED
          BY <3>1, <4>1, <4>2 DEF Coming
      <3> QED
        BY <3>2, <3>3
    <2> QED
      BY <1>2, <2>1, <2>2 DEF Coming
  <1>3. ASSUME NEW i \in 1..n - 1, v[i].kind = "updates", h \in v[i].page
        PROVE  Coming(had2, blob2, v, i - 1, h)
    <2>1. i + 1 \in 1..n /\ (i + 1) - 1 = i /\ i \in 1..n /\ v[i] = w[i + 1]
      BY <1>1
    <2>2. Coming(had, blob, w, i, h)
      BY <1>1, <1>3, <2>1 DEF Ahead, n
    <2> QED
      BY <1>2, <2>1, <2>2
  <1>4. ASSUME NEW i \in 1..Len(q), q[i].kind = "updates", h \in q[i].page, h \notin q[i].inline
        PROVE  Coming(had2, blob2, v, n - 1, h)
    <2>1. Coming(had, blob, w, n, h) /\ n \in 1..n
      BY <1>1, <1>4 DEF Ahead, n
    <2> QED
      BY <1>2, <2>1
  <1> QED
    BY <1>1, <1>3, <1>4 DEF Ahead, v

LEMMA AheadQueue ==
  ASSUME NEW q \in Seq(Entries), NEW r \in Seq(Entries), NEW w, NEW h, NEW had, NEW blob, NEW pages, NEW d,
         Ahead(h, had, blob, pages, w, q, d),
         \A i \in 1..Len(r) : r[i].kind = "updates" /\ h \in r[i].page => h \in r[i].inline
  PROVE  Ahead(h, had, blob, pages, w, q \o r, d)
  <1> DEFINE n == Len(q)
             v == q \o r
  <1>1. ASSUME NEW i \in 1..Len(v)
        PROVE  (i \in 1..n /\ v[i] = q[i]) \/ (i - n \in 1..Len(r) /\ v[i] = r[i - n])
    <2>1. CASE i <= n
      BY <2>1
    <2>2. CASE i > n
      BY <2>2
    <2> QED
      BY <2>1, <2>2
  <1> HIDE DEF n, v
  <1>2. ASSUME NEW i \in 1..Len(v), v[i].kind = "updates", h \in v[i].page
        PROVE  h \in v[i].inline \/ Coming(had, blob, w, Len(w), h)
    BY <1>1, <1>2 DEF Ahead, n
  <1> QED
    BY <1>2 DEF Ahead, v

LEMMA AheadMore ==
  ASSUME NEW w, NEW h, NEW had, NEW had2, NEW blob, NEW pages, NEW q, NEW d,
         Ahead(h, had, blob, pages, w, q, d), h \in had => h \in had2
  PROVE  Ahead(h, had2, blob, pages, w, q, d)
  <1>1. \A n : Coming(had, blob, w, n, h) => Coming(had2, blob, w, n, h)
    BY DEF Coming
  <1> QED
    BY <1>1 DEF Ahead

-----------------------------------------------------------------------------
\* The two sides, and a turn of one.

LEMMA BothTidy ==
  ASSUME Inv, IInv, NEW s, NEW t, Pair(s, t)
  PROVE  /\ Ends(s) /\ Ends(t) /\ (Steady => Tidy(s, t) /\ Tidy(t, s)) /\ Typed /\ Of(s, t) /\ Of(t, s)
         /\ s \in Sides /\ t \in Sides /\ s # t /\ t = Peer(s) /\ s = Peer(t)
         /\ loop[s] \in Loops /\ loop[t] \in Loops /\ sending[s] \in Sendings /\ sending[t] \in Sendings
         /\ urgent[s] \in Seq(Frames) /\ urgent[t] \in Seq(Frames)
         /\ wire[s] \in Seq(Frames) /\ wire[t] \in Seq(Frames)
         /\ bulk[s] \in Seq(Entries) /\ bulk[t] \in Seq(Entries)
         /\ held[s] \in SUBSET Hashes /\ held[t] \in SUBSET Hashes
         /\ Delta[s] \in Seq(SUBSET Hashes) /\ Len(Delta[s]) \in Nat
         /\ Delta[t] \in Seq(SUBSET Hashes) /\ Len(Delta[t]) \in Nat
  <1>1. s \in Sides /\ t \in Sides /\ t = Peer(s) /\ s = Peer(t) /\ s # t
    BY DEF Pair
  <1>2. Ends(s) /\ Ends(t) /\ (Steady => Tidy(s, t) /\ Tidy(t, s))
    BY <1>1 DEF IInv
  <1>3. Typed /\ Of(s, t) /\ Of(t, s)
    BY <1>1, Both
  <1>4. Delta \in [Sides -> Seq(SUBSET Hashes)]
    BY SessionAssumption
  <1> QED
    BY <1>1, <1>2, <1>3, <1>4 DEF Typed

LEMMA TidyAfter ==
  ASSUME NEW s, NEW t, Pair(s, t), Ends(s)', Ends(t)', Steady' => Tidy(s, t)' /\ Tidy(t, s)'
  PROVE  IInv'
  BY DEF Pair, IInv

LEMMA TimesType ==
  ASSUME Typed, NEW s \in Sides, NEW kind, NEW h
  PROVE  /\ Times(urgent[s], kind, h) \in Nat /\ Times(wire[s], kind, h) \in Nat
         /\ Times(bulk[s], kind, h) \in Nat
  BY PlacesAre DEF Typed

LEMMA GivenAre == \A s : Given(s) \subseteq Small \cap Holds[s] /\ Given(s) \subseteq Hashes
  BY SessionAssumption DEF Given

\* What has come once, with nothing more of it to be asked for.
LEMMA AskingType ==
  ASSUME Typed, NEW s, NEW t, Pair(s, t), NEW h
  PROVE  Asking(s, h) \in Nat /\ Answering(s, t, h) \in Nat
  <1>1. s \in Sides /\ t \in Sides
    BY DEF Pair
  <1> QED
    BY <1>1, TimesType DEF Asking, Answering, One

\* A turn of s, which knows l after it, and queues controls and entries.
Move(s, t, l, controls, entries) ==
  /\ l \in Loops /\ controls \in Seq(Frames) /\ entries \in Seq(Entries)
  /\ loop' = [loop EXCEPT ![s] = l] /\ Send(s, controls, entries)
  /\ \A i \in 1..Len(controls) : controls[i].kind \in Kinds
  /\ wire' = wire \/ (wire[t] # <<>> /\ Took(s))
  /\ held' \in [Sides -> SUBSET Hashes] /\ held'[t] = held[t] /\ held[s] \subseteq held'[s]
  /\ UNCHANGED <<compatible, sending, open, lost, failures>>
  /\ l.stop \in {loop[s].stop, "complete"} \/ (l.stop = "refused" /\ ~compatible)
  /\ l.pc # "over" /\ (l.pc = "hello" => loop[s].pc = "hello" /\ held'[s] = held[s])
  /\ l.pc \in {"hello", "exchange"} => Early(s)

\* What that has to do for what goes from s to t, and from t to s.
Sends(s, t, l, controls, entries) ==
  /\ l.stop = "complete" /\ Early(t) => ~SaysOn(s, "want") /\ ~Says(controls, "want")
  /\ \A i \in 1..Len(entries) : entries[i].kind = "updates" =>
       entries[i].inline \subseteq Given(s) /\ entries[i].page \cap Given(s) \subseteq entries[i].inline
  /\ Early(t) => \A h \in Hashes :
       Times(controls, "missing", h) + Times(entries, "blob", h) + Times(wire'[t], "want", h)
         <= Times(wire[t], "want", h)

Receives(s, t, l, controls) ==
  l.pc \in {"hello", "exchange"} => \A h \in Hashes :
    IF h \in Given(t)
    THEN /\ Ahead(h, held'[s], l.blob, l.pages, wire'[t], bulk[t], Delta[t])
         /\ Times(controls, "want", h) = 0 /\ h \notin l.wanted
    ELSE Times(controls, "want", h) + Asking(s, h) + Times(urgent[t], "missing", h)
           + Times(wire'[t], "missing", h) + Times(bulk[t], "blob", h) + Times(wire'[t], "start", h)
           + One(l.blob = h)
         <= One(h \in l.wanted)

LEMMA MoveTidy ==
  ASSUME Inv, IInv, NEW s, NEW t, Pair(s, t), NEW l, NEW controls, NEW entries,
         Move(s, t, l, controls, entries),
         Steady => Sends(s, t, l, controls, entries) /\ Receives(s, t, l, controls)
  PROVE  IInv'
  <1> USE DEF Move
  <1>1. /\ Ends(s) /\ Ends(t) /\ (Steady => Tidy(s, t) /\ Tidy(t, s)) /\ Typed
        /\ s \in Sides /\ t \in Sides /\ s # t /\ t = Peer(s)
        /\ urgent[s] \in Seq(Frames) /\ wire[s] \in Seq(Frames) /\ wire[t] \in Seq(Frames)
        /\ bulk[s] \in Seq(Entries)
    BY BothTidy
  <1>2. /\ urgent'[s] = urgent[s] \o controls /\ bulk'[s] = bulk[s] \o entries
        /\ urgent'[t] = urgent[t] /\ bulk'[t] = bulk[t]
    BY <1>1, QueueTypes
  <1>3. /\ wire'[s] = wire[s] /\ (wire'[t] = wire[t] \/ (wire[t] # <<>> /\ wire'[t] = Tail(wire[t])))
        /\ \A kind : Says(wire'[t], kind) => Says(wire[t], kind)
    BY <1>1, TookTypes
  <1>4. loop'[s] = l /\ loop'[t] = loop[t] /\ sending' = sending /\ open' = open
    BY <1>1 DEF Typed
  <1>5. Ends(s)' /\ Ends(t)'
    BY <1>1, <1>2, <1>4 DEF Ends
  <1> SUFFICES ASSUME Steady' PROVE Tidy(s, t)' /\ Tidy(t, s)'
    BY <1>5, TidyAfter
  <1>6. /\ Tidy(s, t) /\ Tidy(t, s)
        /\ Sends(s, t, l, controls, entries) /\ Receives(s, t, l, controls)
    BY <1>1 DEF Steady
  <1>7. Keeps(s)'
    <2>1. ASSUME NEW i \in 1..Len(bulk'[s]), bulk'[s][i].kind = "updates"
          PROVE  bulk'[s][i].inline \subseteq Given(s)
      <3>1. PICK q : q = bulk[s]
        OBVIOUS
      <3>2. q \in Seq(Entries) /\ i \in 1..Len(q \o entries) /\ bulk'[s][i] = (q \o entries)[i]
        BY <1>1, <1>2, <3>1
      <3>3. CASE i <= Len(q)
        <4>1. i \in 1..Len(q) /\ bulk'[s][i] = q[i]
          BY <3>2, <3>3
        <4> QED
          BY <1>6, <2>1, <3>1, <4>1 DEF Tidy, Keeps
      <3>4. CASE i > Len(q)
        <4>1. i - Len(q) \in 1..Len(entries) /\ bulk'[s][i] = entries[i - Len(q)]
          BY <3>2, <3>4
        <4> QED
          BY <1>6, <2>1, <4>1 DEF Sends
      <3> QED
        BY <3>2, <3>3, <3>4
    <2> QED
      BY <1>3, <1>4, <1>6, <2>1 DEF Tidy, Keeps, Given
  <1>8. Keeps(t)'
    <2>1. ASSUME NEW i \in 1..Len(wire'[t]), wire'[t][i].kind = "aborted"
          PROVE  wire'[t][i].hash \notin Given(t)
      <3>1. PICK w : w = wire[t]
        OBVIOUS
      <3>2. CASE wire'[t] = w
        BY <1>6, <2>1, <3>1, <3>2 DEF Tidy, Keeps
      <3>3. CASE w # <<>> /\ wire'[t] = Tail(w)
        <4>1. i + 1 \in 1..Len(w) /\ wire'[t][i] = w[i + 1]
          BY <1>1, <3>1, <3>3
        <4> QED
          BY <1>6, <2>1, <3>1, <4>1 DEF Tidy, Keeps
      <3> QED
        BY <1>3, <3>1, <3>2, <3>3
    <2> QED
      BY <1>2, <1>4, <1>6, <2>1 DEF Tidy, Keeps, Given
  <1>9. \A kind, h : /\ Times(urgent'[s], kind, h) = Times(urgent[s], kind, h) + Times(controls, kind, h)
                     /\ Times(bulk'[s], kind, h) = Times(bulk[s], kind, h) + Times(entries, kind, h)
                     /\ Times(urgent[s], kind, h) \in Nat /\ Times(controls, kind, h) \in Nat
                     /\ Times(bulk[s], kind, h) \in Nat /\ Times(entries, kind, h) \in Nat
                     /\ Times(wire[s], kind, h) \in Nat /\ Times(wire[t], kind, h) \in Nat
                     /\ Times(wire'[t], kind, h) \in Nat
                     /\ Times(urgent[t], kind, h) \in Nat /\ Times(bulk[t], kind, h) \in Nat
    <2>1. ASSUME NEW kind, NEW h
          PROVE  /\ Times(urgent'[s], kind, h) = Times(urgent[s], kind, h) + Times(controls, kind, h)
                 /\ Times(bulk'[s], kind, h) = Times(bulk[s], kind, h) + Times(entries, kind, h)
      BY <1>1, <1>2, TimesCat
    <2>2. wire'[t] \in Seq(Frames)
      BY <1>1, TookTypes
    <2> QED
      BY <1>1, <2>1, <2>2, PlacesAre, TimesType
  <1>10. Arrives(s, t)'
    BY <1>2, <1>4, <1>6, GivenAre DEF Receives, Arrives, Early, Given
  <1>11. Arrives(t, s)'
    <2> SUFFICES ASSUME Early(t), NEW h \in Given(s)
                 PROVE  Ahead(h, held[t], loop[t].blob, loop[t].pages, wire[s], bulk[s] \o entries, Delta[s])
      BY <1>2, <1>3, <1>4 DEF Arrives, Early, Given
    <2>1. Ahead(h, held[t], loop[t].blob, loop[t].pages, wire[s], bulk[s], Delta[s])
      BY <1>6 DEF Tidy, Arrives
    <2>2. \A i \in 1..Len(entries) : entries[i].kind = "updates" /\ h \in entries[i].page => h \in entries[i].inline
      BY <1>6 DEF Sends
    <2> QED
      BY <1>1, <2>1, <2>2, AheadQueue
  <1>12. Asks(s, t)'
    <2> SUFFICES ASSUME l.pc \in {"hello", "exchange"}, NEW h \in Hashes
                 PROVE  IF h \in Given(t) THEN Asking(s, h)' = 0 /\ h \notin l.wanted
                        ELSE Asking(s, h)' + Answering(s, t, h)' <= One(h \in l.wanted)
      BY <1>4 DEF Asks, Early, Given
    <2>1. Asking(s, h)' = Asking(s, h) + Times(controls, "want", h)
      BY <1>3, <1>9 DEF Asking
    <2>2. Answering(s, t, h)' = Times(urgent[t], "missing", h) + Times(wire'[t], "missing", h)
             + Times(bulk[t], "blob", h) + Times(wire'[t], "start", h) + One(l.blob = h)
      BY <1>2, <1>4 DEF Answering
    <2>3. Asking(s, h) \in Nat /\ One(l.blob = h) \in Nat /\ One(h \in l.wanted) \in Nat
      BY <1>1, AskingType DEF One
    <2>4. CASE h \in Given(t)
      <3>1. Asking(s, h) = 0
        BY <1>6, <2>4 DEF Tidy, Asks
      <3> QED
        BY <1>6, <2>1, <2>3, <2>4, <3>1 DEF Receives
    <2>5. CASE h \notin Given(t)
      <3>1. Times(controls, "want", h) + Asking(s, h) + Times(urgent[t], "missing", h)
              + Times(wire'[t], "missing", h) + Times(bulk[t], "blob", h) + Times(wire'[t], "start", h)
              + One(l.blob = h) <= One(h \in l.wanted)
        BY <1>6, <2>5 DEF Receives
      <3>2. /\ Times(controls, "want", h) \in Nat /\ Times(urgent[t], "missing", h) \in Nat
            /\ Times(wire'[t], "missing", h) \in Nat /\ Times(bulk[t], "blob", h) \in Nat
            /\ Times(wire'[t], "start", h) \in Nat
        BY <1>9
      <3>3. PICK a, b, c, d, e, g, m, o : /\ a = Times(controls, "want", h) /\ b = Times(urgent[t], "missing", h)
                                          /\ c = Times(wire'[t], "missing", h) /\ d = Times(bulk[t], "blob", h)
                                          /\ e = Times(wire'[t], "start", h) /\ g = Asking(s, h)
                                          /\ m = One(l.blob = h) /\ o = One(h \in l.wanted)
        OBVIOUS
      <3>4. /\ a \in Nat /\ b \in Nat /\ c \in Nat /\ d \in Nat /\ e \in Nat /\ g \in Nat
            /\ m \in Nat /\ o \in Nat
        BY <2>3, <3>2, <3>3
      <3>5. a + g + b + c + d + e + m <= o
        BY <3>1, <3>3
      <3>6. (g + a) + (b + c + d + e + m) <= o
        BY <3>4, <3>5
      <3>7. Asking(s, h)' = g + a /\ Answering(s, t, h)' = b + c + d + e + m
        BY <2>1, <2>2, <3>3
      <3>8. Asking(s, h)' + Answering(s, t, h)' <= One(h \in l.wanted)
        BY <3>3, <3>6, <3>7
      <3> QED
        BY <2>5, <3>8
    <2> QED
      BY <2>4, <2>5
  <1>13. Asks(t, s)'
    <2> SUFFICES ASSUME Early(t), NEW h \in Hashes
                 PROVE  IF h \in Given(s) THEN Asking(t, h)' = 0 /\ h \notin loop[t].wanted
                        ELSE Asking(t, h)' + Answering(t, s, h)' <= One(h \in loop[t].wanted)
      BY <1>4 DEF Asks, Early, Given
    <2>1. Asking(t, h)' = Times(urgent[t], "want", h) + Times(wire'[t], "want", h)
      BY <1>2 DEF Asking
    <2>2. Answering(t, s, h)' = Answering(t, s, h) + Times(controls, "missing", h) + Times(entries, "blob", h)
      <3>1. One(loop[t].blob = h) \in Nat
        BY DEF One
      <3>2. /\ Times(urgent'[s], "missing", h) = Times(urgent[s], "missing", h) + Times(controls, "missing", h)
            /\ Times(bulk'[s], "blob", h) = Times(bulk[s], "blob", h) + Times(entries, "blob", h)
            /\ Times(urgent[s], "missing", h) \in Nat /\ Times(controls, "missing", h) \in Nat
            /\ Times(bulk[s], "blob", h) \in Nat /\ Times(entries, "blob", h) \in Nat
            /\ Times(wire[s], "missing", h) \in Nat /\ Times(wire[s], "start", h) \in Nat
        BY <1>9
      <3>3. PICK a, b, c, d, e, g, m : /\ a = Times(controls, "missing", h) /\ b = Times(urgent[s], "missing", h)
                                       /\ c = Times(wire[s], "missing", h) /\ d = Times(bulk[s], "blob", h)
                                       /\ e = Times(wire[s], "start", h) /\ g = Times(entries, "blob", h)
                                       /\ m = One(loop[t].blob = h)
        OBVIOUS
      <3>4. a \in Nat /\ b \in Nat /\ c \in Nat /\ d \in Nat /\ e \in Nat /\ g \in Nat /\ m \in Nat
        BY <3>1, <3>2, <3>3
      <3>5. Answering(t, s, h) = b + c + d + e + m
        BY <3>3 DEF Answering
      <3>6. Answering(t, s, h)' = (b + a) + c + (d + g) + e + m
        BY <1>3, <1>4, <3>2, <3>3 DEF Answering
      <3>7. (b + a) + c + (d + g) + e + m = (b + c + d + e + m) + a + g
        BY <3>4
      <3> QED
        BY <3>3, <3>5, <3>6, <3>7
    <2>3. Times(controls, "missing", h) + Times(entries, "blob", h) + Times(wire'[t], "want", h)
            <= Times(wire[t], "want", h)
      BY <1>6 DEF Sends
    <2>4. /\ Asking(t, h) = Times(urgent[t], "want", h) + Times(wire[t], "want", h)
          /\ Answering(t, s, h) \in Nat /\ One(h \in loop[t].wanted) \in Nat
      BY <1>1, AskingType DEF Asking, One, Pair
    <2>5. IF h \in Given(s) THEN Asking(t, h) = 0 /\ h \notin loop[t].wanted
          ELSE Asking(t, h) + Answering(t, s, h) <= One(h \in loop[t].wanted)
      BY <1>6 DEF Tidy, Asks
    <2>6. /\ Times(controls, "missing", h) \in Nat /\ Times(entries, "blob", h) \in Nat
          /\ Times(wire'[t], "want", h) \in Nat /\ Times(wire[t], "want", h) \in Nat
          /\ Times(urgent[t], "want", h) \in Nat
      BY <1>9
    <2>7. /\ Asking(t, h)' \in Nat /\ Asking(t, h) \in Nat
          /\ Asking(t, h)' + Times(controls, "missing", h) + Times(entries, "blob", h) <= Asking(t, h)
      BY <2>1, <2>3, <2>4, <2>6
    <2>8. PICK a, b, c, d, e, o : /\ a = Asking(t, h)' /\ b = Times(controls, "missing", h)
                                  /\ c = Times(entries, "blob", h) /\ d = Asking(t, h)
                                  /\ e = Answering(t, s, h) /\ o = One(h \in loop[t].wanted)
      OBVIOUS
    <2>9. a \in Nat /\ b \in Nat /\ c \in Nat /\ d \in Nat /\ e \in Nat /\ o \in Nat /\ a + b + c <= d
      BY <2>4, <2>6, <2>7, <2>8
    <2>10. Answering(t, s, h)' = e + b + c
      BY <2>2, <2>8
    <2>11. CASE h \in Given(s)
      <3>1. d = 0 /\ h \notin loop[t].wanted
        BY <2>5, <2>8, <2>11
      <3>2. a = 0
        BY <2>9, <3>1
      <3> QED
        BY <2>8, <2>11, <3>1, <3>2
    <2>12. CASE h \notin Given(s)
      <3>1. d + e <= o
        BY <2>5, <2>8, <2>12
      <3>2. a + (e + b + c) <= o
        BY <2>9, <3>1
      <3> QED
        BY <2>8, <2>10, <2>12, <3>2
    <2> QED
      BY <2>11, <2>12
  <1>14. Quiet(s, t)'
    <2>1. \A kind : SaysOn(s, kind)' => SaysOn(s, kind) \/ Says(controls, kind)
      BY <1>1, <1>2, <1>3, SaysCat DEF SaysOn
    <2> QED
      BY <1>4, <1>6, <2>1 DEF Quiet, Early, Sends
  <1>15. Quiet(t, s)'
    <2>1. \A kind : SaysOn(t, kind)' => SaysOn(t, kind)
      BY <1>2, <1>3 DEF SaysOn
    <2> QED
      BY <1>4, <1>6, <2>1 DEF Tidy, Quiet, Early
  <1>16. loop'[s].stop # "gone" /\ loop'[t].stop # "gone"
    BY <1>4, <1>6 DEF Tidy
  <1> QED
    BY <1>7, <1>8, <1>10, <1>11, <1>12, <1>13, <1>14, <1>15, <1>16 DEF Tidy

\* s writes a, which leaves u and b to write, and is sending x then.
Wrote(s, a, u, b, x) ==
  /\ a \in Frames /\ u \in Seq(Frames) /\ b \in Seq(Entries) /\ CanWrite(s)
  /\ wire' = [wire EXCEPT ![s] = Append(wire[s], a)] /\ urgent' = [urgent EXCEPT ![s] = u]
  /\ bulk' = [bulk EXCEPT ![s] = b] /\ sending' = [sending EXCEPT ![s] = x]
  /\ UNCHANGED <<compatible, loop, open, held, lost, failures>>

\* What that has to do: nothing is asked or answered that was not queued, and what goes ahead
\* of a page does.
Writes(s, t, a, u, b, x) ==
  /\ a.kind = "want" \/ Says(u, "want") => Says(urgent[s], "want")
  /\ x.read = "wrong" => x.hash \notin Given(s)
  /\ a.kind = "aborted" => a.hash \notin Given(s)
  /\ \A i \in 1..Len(b) : b[i].kind = "updates" => b[i].inline \subseteq Given(s)
  /\ \A h \in Hashes :
       One(a.kind = "want" /\ a.hash = h) + Times(u, "want", h) <= Times(urgent[s], "want", h)
  /\ \A h \in Hashes \ Given(s) :
       One(a.kind = "missing" /\ a.hash = h) + One(a.kind = "start" /\ a.hash = h)
         + Times(u, "missing", h) + Times(b, "blob", h)
       <= Times(urgent[s], "missing", h) + Times(bulk[s], "blob", h)
  /\ Early(t) => \A h \in Given(s) :
       Ahead(h, held[t], loop[t].blob, loop[t].pages, Append(wire[s], a), b, Delta[s])

LEMMA WroteTidy ==
  ASSUME Inv, IInv, NEW s, NEW t, Pair(s, t), NEW a, NEW u, NEW b, NEW x, Wrote(s, a, u, b, x),
         Steady => Writes(s, t, a, u, b, x)
  PROVE  IInv'
  <1> USE DEF Wrote
  <1>1. /\ Ends(s) /\ Ends(t) /\ (Steady => Tidy(s, t) /\ Tidy(t, s)) /\ Typed
        /\ s \in Sides /\ t \in Sides /\ s # t
        /\ urgent[s] \in Seq(Frames) /\ wire[s] \in Seq(Frames) /\ bulk[s] \in Seq(Entries)
    BY BothTidy
  <1>2. /\ urgent'[s] = u /\ bulk'[s] = b /\ sending'[s] = x /\ wire'[s] = Append(wire[s], a)
        /\ urgent'[t] = urgent[t] /\ bulk'[t] = bulk[t] /\ sending'[t] = sending[t] /\ wire'[t] = wire[t]
    BY <1>1 DEF Typed
  <1>3. loop[s].pc # "over"
    BY <1>1 DEF Ends, CanWrite
  <1>4. Ends(s)' /\ Ends(t)'
    BY <1>1, <1>2, <1>3 DEF Ends
  <1> SUFFICES ASSUME Steady' PROVE Tidy(s, t)' /\ Tidy(t, s)'
    BY <1>4, TidyAfter
  <1>5. /\ Tidy(s, t) /\ Tidy(t, s) /\ Writes(s, t, a, u, b, x)
    BY <1>1 DEF Steady
  <1>6. \A kind, h : /\ Times(wire'[s], kind, h) = Times(wire[s], kind, h) + One(a.kind = kind /\ a.hash = h)
                     /\ Times(urgent[s], kind, h) \in Nat /\ Times(u, kind, h) \in Nat
                     /\ Times(bulk[s], kind, h) \in Nat /\ Times(b, kind, h) \in Nat
                     /\ Times(wire[s], kind, h) \in Nat /\ One(a.kind = kind /\ a.hash = h) \in Nat
    <2>1. ASSUME NEW kind, NEW h
          PROVE  Times(wire'[s], kind, h) = Times(wire[s], kind, h) + One(a.kind = kind /\ a.hash = h)
      BY <1>1, <1>2, TimesAppend
    <2> QED
      BY <1>1, <2>1, PlacesAre, TimesType DEF One
  <1>7. Keeps(s)'
    <2>1. ASSUME NEW i \in 1..Len(wire'[s]), wire'[s][i].kind = "aborted"
          PROVE  wire'[s][i].hash \notin Given(s)
      <3>1. PICK w : w = wire[s]
        OBVIOUS
      <3>2. (i \in 1..Len(w) /\ wire'[s][i] = w[i]) \/ wire'[s][i] = a
        BY <1>1, <1>2, <3>1
      <3> QED
        BY <1>5, <2>1, <3>1, <3>2 DEF Tidy, Keeps, Writes
    <2> QED
      BY <1>2, <1>5, <2>1 DEF Tidy, Keeps, Writes, Given
  <1>8. Keeps(t)' /\ Arrives(s, t)'
    BY <1>2, <1>5 DEF Tidy, Keeps, Arrives, Early, Given
  <1>9. Arrives(t, s)'
    BY <1>2, <1>5 DEF Arrives, Early, Given, Writes
  <1>10. Asks(s, t)'
    <2>1. ASSUME NEW h \in Hashes PROVE Asking(s, h)' <= Asking(s, h) /\ Asking(s, h)' \in Nat
      <3>1. /\ One(a.kind = "want" /\ a.hash = h) + Times(u, "want", h) <= Times(urgent[s], "want", h)
            /\ Times(wire'[s], "want", h) = Times(wire[s], "want", h) + One(a.kind = "want" /\ a.hash = h)
        BY <1>5, <1>6 DEF Writes
      <3>2. /\ Times(urgent[s], "want", h) \in Nat /\ Times(u, "want", h) \in Nat
            /\ Times(wire[s], "want", h) \in Nat /\ One(a.kind = "want" /\ a.hash = h) \in Nat
        BY <1>6
      <3> QED
        BY <1>2, <3>1, <3>2 DEF Asking
    <2>2. ASSUME NEW h \in Hashes PROVE Answering(s, t, h)' = Answering(s, t, h) /\ Answering(s, t, h) \in Nat
                                        /\ Asking(s, h) \in Nat
      BY <1>1, <1>2, AskingType DEF Answering
    <2>3. ASSUME Early(s), NEW h \in Hashes
          PROVE  IF h \in Given(t) THEN Asking(s, h)' = 0 /\ h \notin loop[s].wanted
                 ELSE Asking(s, h)' + Answering(s, t, h)' <= One(h \in loop[s].wanted)
      <3>1. One(h \in loop[s].wanted) \in Nat
        BY DEF One
      <3> QED
        BY <1>5, <2>1, <2>2, <2>3, <3>1 DEF Tidy, Asks
    <2> QED
      BY <2>3 DEF Asks, Early, Given
  <1>11. Asks(t, s)'
    <2>1. ASSUME NEW h \in Hashes \ Given(s)
          PROVE  Answering(t, s, h)' <= Answering(t, s, h) /\ Answering(t, s, h)' \in Nat
      <3>1. /\ One(a.kind = "missing" /\ a.hash = h) + One(a.kind = "start" /\ a.hash = h)
                 + Times(u, "missing", h) + Times(b, "blob", h)
               <= Times(urgent[s], "missing", h) + Times(bulk[s], "blob", h)
            /\ Times(wire'[s], "missing", h) = Times(wire[s], "missing", h) + One(a.kind = "missing" /\ a.hash = h)
            /\ Times(wire'[s], "start", h) = Times(wire[s], "start", h) + One(a.kind = "start" /\ a.hash = h)
        BY <1>5, <1>6 DEF Writes
      <3>2. /\ Times(urgent[s], "missing", h) \in Nat /\ Times(u, "missing", h) \in Nat
            /\ Times(bulk[s], "blob", h) \in Nat /\ Times(b, "blob", h) \in Nat
            /\ Times(wire[s], "missing", h) \in Nat /\ Times(wire[s], "start", h) \in Nat
            /\ One(a.kind = "missing" /\ a.hash = h) \in Nat /\ One(a.kind = "start" /\ a.hash = h) \in Nat
        BY <1>6
      <3>3. One(loop[t].blob = h) \in Nat
        BY DEF One
      <3>4. urgent'[s] = u /\ bulk'[s] = b /\ loop' = loop
        BY <1>2
      <3>5. Answering(t, s, h)' = Times(u, "missing", h) + Times(wire'[s], "missing", h) + Times(b, "blob", h)
                                    + Times(wire'[s], "start", h) + One(loop[t].blob = h)
        BY <3>4 DEF Answering
      <3>6. Answering(t, s, h) = Times(urgent[s], "missing", h) + Times(wire[s], "missing", h)
              + Times(bulk[s], "blob", h) + Times(wire[s], "start", h) + One(loop[t].blob = h)
        BY DEF Answering
      <3> HIDE DEF Wrote
      <3> QED
        BY <3>1, <3>2, <3>3, <3>5, <3>6
    <2>2. ASSUME NEW h \in Hashes PROVE Asking(t, h)' = Asking(t, h) /\ Asking(t, h) \in Nat
                                        /\ Answering(t, s, h) \in Nat
      BY <1>1, <1>2, AskingType DEF Asking, Pair
    <2>3. ASSUME Early(t), NEW h \in Hashes
          PROVE  IF h \in Given(s) THEN Asking(t, h)' = 0 /\ h \notin loop[t].wanted
                 ELSE Asking(t, h)' + Answering(t, s, h)' <= One(h \in loop[t].wanted)
      <3>1. One(h \in loop[t].wanted) \in Nat
        BY DEF One
      <3> QED
        BY <1>5, <2>1, <2>2, <2>3, <3>1 DEF Tidy, Asks
    <2> QED
      BY <2>3 DEF Asks, Early, Given
  <1>12. Quiet(s, t)' /\ Quiet(t, s)'
    <2>1. SaysOn(s, "want")' => SaysOn(s, "want")
      BY <1>1, <1>2, <1>5, SaysAppend DEF SaysOn, Writes
    <2>2. SaysOn(t, "want")' = SaysOn(t, "want")
      BY <1>2 DEF SaysOn
    <2> QED
      BY <1>5, <2>1, <2>2 DEF Tidy, Quiet, Early
  <1> QED
    BY <1>5, <1>7, <1>8, <1>9, <1>10, <1>11, <1>12 DEF Tidy

\* The writer of s stops, and what it had to write is gone; s knows l then.
Stops(s, t, l) ==
  /\ l \in Loops /\ loop' = [loop EXCEPT ![s] = l] /\ StopWriter(s)
  /\ wire' = wire \/ (wire[t] # <<>> /\ Took(s))
  /\ held' \in [Sides -> SUBSET Hashes] /\ held'[t] = held[t] /\ held[s] \subseteq held'[s]
  /\ UNCHANGED <<compatible, lost, failures>>
  /\ l.stop \in {loop[s].stop, "gone"}
  /\ (l = loop[s] /\ wire' = wire /\ held' = held) \/ l.pc = "over"

LEMMA StopTidy ==
  ASSUME Inv, IInv, NEW s, NEW t, Pair(s, t), NEW l, Stops(s, t, l),
         Steady => l.stop = loop[s].stop
  PROVE  IInv'
  <1> USE DEF Stops
  <1>1. /\ Ends(s) /\ Ends(t) /\ (Steady => Tidy(s, t) /\ Tidy(t, s)) /\ Typed
        /\ s \in Sides /\ t \in Sides /\ s # t /\ t = Peer(s)
        /\ urgent[s] \in Seq(Frames) /\ wire[s] \in Seq(Frames) /\ wire[t] \in Seq(Frames)
        /\ bulk[s] \in Seq(Entries)
    BY BothTidy
  <1>2. /\ urgent'[s] = <<>> /\ bulk'[s] = <<>> /\ sending'[s] = NotSending /\ open'[s] = FALSE
        /\ urgent'[t] = urgent[t] /\ bulk'[t] = bulk[t] /\ sending'[t] = sending[t] /\ open'[t] = open[t]
    BY <1>1 DEF Typed, StopWriter
  <1>3. /\ wire'[s] = wire[s] /\ (wire'[t] = wire[t] \/ (wire[t] # <<>> /\ wire'[t] = Tail(wire[t])))
        /\ \A kind : Says(wire'[t], kind) => Says(wire[t], kind)
    BY <1>1, TookTypes
  <1>4. loop'[s] = l /\ loop'[t] = loop[t]
    BY <1>1 DEF Typed
  <1>5. Ends(s)' /\ Ends(t)'
    BY <1>1, <1>2, <1>4 DEF Ends
  <1> SUFFICES ASSUME Steady' PROVE Tidy(s, t)' /\ Tidy(t, s)'
    BY <1>5, TidyAfter
  <1>6. Tidy(s, t) /\ Tidy(t, s) /\ l.stop = loop[s].stop
    BY <1>1 DEF Steady
  <1>7. Keeps(s)'
    BY <1>2, <1>3, <1>6 DEF Tidy, Keeps, Given, NotSending
  <1>8. Keeps(t)'
    <2>1. ASSUME NEW i \in 1..Len(wire'[t]), wire'[t][i].kind = "aborted"
          PROVE  wire'[t][i].hash \notin Given(t)
      <3>1. PICK w : w = wire[t]
        OBVIOUS
      <3>2. CASE wire'[t] = w
        BY <1>6, <2>1, <3>1, <3>2 DEF Tidy, Keeps
      <3>3. CASE w # <<>> /\ wire'[t] = Tail(w)
        <4>1. i + 1 \in 1..Len(w) /\ wire'[t][i] = w[i + 1]
          BY <1>1, <3>1, <3>3
        <4> QED
          BY <1>6, <2>1, <3>1, <4>1 DEF Tidy, Keeps
      <3> QED
        BY <1>3, <3>1, <3>2, <3>3
    <2> QED
      BY <1>2, <1>6, <2>1 DEF Tidy, Keeps, Given
  <1>9. Arrives(s, t)'
    BY <1>1, <1>2, <1>4, <1>6 DEF Tidy, Arrives, Early, Given
  <1>10. Arrives(t, s)'
    <2>1. ASSUME NEW h, Ahead(h, held[t], loop[t].blob, loop[t].pages, wire[s], bulk[s], Delta[s])
          PROVE  Ahead(h, held[t], loop[t].blob, loop[t].pages, wire[s], <<>>, Delta[s])
      BY <2>1 DEF Ahead
    <2> QED
      BY <1>2, <1>3, <1>4, <1>6, <2>1 DEF Tidy, Arrives, Early, Given
  <1>11. \A kind, h : /\ Times(<<>>, kind, h) = 0
                      /\ Times(urgent[s], kind, h) \in Nat /\ Times(bulk[s], kind, h) \in Nat
                      /\ Times(wire[s], kind, h) \in Nat /\ Times(wire[t], kind, h) \in Nat
                      /\ Times(wire'[t], kind, h) \in Nat
                      /\ Times(wire'[t], kind, h) <= Times(wire[t], kind, h)
    <2>1. <<>> \in Seq(Frames) /\ \A i \in 1..Len(<<>>) : FALSE
      OBVIOUS
    <2>2. \A kind, h : Times(<<>>, kind, h) = 0
      BY <2>1, TimesNone
    <2>3. wire'[t] \in Seq(Frames)
      BY <1>1, TookTypes
    <2>4. ASSUME NEW kind, NEW h PROVE Times(wire'[t], kind, h) <= Times(wire[t], kind, h)
      <3>1. Times(wire'[t], kind, h) \in Nat
        BY <2>3, PlacesAre
      <3>2. CASE wire'[t] = wire[t]
        BY <3>1, <3>2
      <3>3. CASE wire[t] # <<>> /\ wire'[t] = Tail(wire[t])
        <4>1. PICK w : w = wire[t]
          OBVIOUS
        <4>2. w \in Seq(Frames) /\ w # <<>> /\ wire'[t] = Tail(w)
          BY <1>1, <3>3, <4>1
        <4>3. Times(w, kind, h) = One(Head(w).kind = kind /\ Head(w).hash = h) + Times(Tail(w), kind, h)
          BY <4>2, TimesTail
        <4> QED
          BY <3>1, <4>1, <4>2, <4>3 DEF One
      <3> QED
        BY <1>3, <3>2, <3>3
    <2> QED
      BY <1>1, <2>2, <2>3, <2>4, PlacesAre, TimesType
  <1>12. Asks(s, t)'
    <2> SUFFICES ASSUME Early(s), l = loop[s], wire' = wire, NEW h \in Hashes
                 PROVE  IF h \in Given(t) THEN Asking(s, h)' = 0 /\ h \notin l.wanted
                        ELSE Asking(s, h)' + Answering(s, t, h)' <= One(h \in l.wanted)
      BY <1>4 DEF Asks, Early, Given
    <2>1. /\ Asking(s, h)' <= Asking(s, h) /\ Asking(s, h)' \in Nat
      <3>1. /\ Times(<<>>, "want", h) = 0 /\ Times(urgent[s], "want", h) \in Nat
            /\ Times(wire[s], "want", h) \in Nat
        BY <1>11
      <3> QED
        BY <1>2, <1>3, <3>1 DEF Asking
    <2>2. Answering(s, t, h)' = Answering(s, t, h) /\ Answering(s, t, h) \in Nat /\ Asking(s, h) \in Nat
      BY <1>1, <1>2, <1>4, AskingType DEF Answering
    <2>3. One(h \in loop[s].wanted) \in Nat
      BY DEF One
    <2> QED
      BY <1>6, <2>1, <2>2, <2>3 DEF Tidy, Asks
  <1>13. Asks(t, s)'
    <2> SUFFICES ASSUME Early(t), NEW h \in Hashes
                 PROVE  IF h \in Given(s) THEN Asking(t, h)' = 0 /\ h \notin loop[t].wanted
                        ELSE Asking(t, h)' + Answering(t, s, h)' <= One(h \in loop[t].wanted)
      BY <1>4 DEF Asks, Early, Given
    <2>1. /\ Asking(t, h)' <= Asking(t, h) /\ Asking(t, h)' \in Nat /\ Asking(t, h) \in Nat
      <3>1. /\ Times(wire[t], "want", h) \in Nat /\ Times(wire'[t], "want", h) \in Nat
            /\ Times(wire'[t], "want", h) <= Times(wire[t], "want", h) /\ Times(urgent[t], "want", h) \in Nat
        BY <1>1, <1>11, TimesType
      <3> QED
        BY <1>2, <3>1 DEF Asking
    <2>2. Answering(t, s, h)' <= Answering(t, s, h) /\ Answering(t, s, h)' \in Nat /\ Answering(t, s, h) \in Nat
      <3>1. /\ Times(<<>>, "missing", h) = 0 /\ Times(<<>>, "blob", h) = 0
            /\ Times(urgent[s], "missing", h) \in Nat /\ Times(bulk[s], "blob", h) \in Nat
            /\ Times(wire[s], "missing", h) \in Nat /\ Times(wire[s], "start", h) \in Nat
        BY <1>11
      <3>2. One(loop[t].blob = h) \in Nat
        BY DEF One
      <3> QED
        BY <1>2, <1>3, <1>4, <3>1, <3>2 DEF Answering
    <2>3. One(h \in loop[t].wanted) \in Nat
      BY DEF One
    <2> QED
      BY <1>6, <2>1, <2>2, <2>3 DEF Tidy, Asks
  <1>14. Quiet(s, t)' /\ Quiet(t, s)'
    <2>1. SaysOn(s, "want")' => SaysOn(s, "want")
      BY <1>2, <1>3, SaysNone DEF SaysOn
    <2>2. SaysOn(t, "want")' => SaysOn(t, "want")
      BY <1>2, <1>3 DEF SaysOn
    <2> QED
      BY <1>4, <1>6, <2>1, <2>2 DEF Tidy, Quiet, Early
  <1> QED
    BY <1>4, <1>6, <1>7, <1>8, <1>9, <1>10, <1>12, <1>13, <1>14 DEF Tidy

-----------------------------------------------------------------------------
\* The writer's steps keep it.

LEMMA WriteUrgentTidy ==
  ASSUME Inv, IInv, NEW s \in Sides, WriteUrgent(s)
  PROVE  IInv'
  <1>1. PICK t, q, w, b, x : t = Peer(s) /\ q = urgent[s] /\ w = wire[s] /\ b = bulk[s] /\ x = sending[s]
    OBVIOUS
  <1>2. Pair(s, t)
    BY <1>1, PairOf
  <1>3. /\ q \in Seq(Frames) /\ w \in Seq(Frames) /\ b \in Seq(Entries) /\ Typed
        /\ (Steady => Tidy(s, t) /\ Tidy(t, s)) /\ loop[t] \in Loops
    BY <1>1, <1>2, BothTidy
  <1>4. /\ q # <<>> /\ CanWrite(s) /\ x.read = "no"
        /\ UNCHANGED <<once, compatible, loop, bulk, sending, open, held, live, lost, failures>>
    BY <1>1 DEF WriteUrgent
  <1>5. PICK a, u : a = Head(q) /\ u = Tail(q)
    OBVIOUS
  <1>6. a \in Frames /\ u \in Seq(Frames) /\ a.kind \in {"hello", "refused", "settled", "live", "want", "missing"}
    <2>1. a = q[1] /\ 1 \in 1..Len(q) /\ u \in Seq(Frames) /\ a \in Frames
      BY <1>3, <1>4, <1>5
    <2> QED
      BY <1>1, <1>3, <2>1 DEF Typed
  <1>7. Wrote(s, a, u, b, x)
    BY <1>1, <1>3, <1>4, <1>5, <1>6 DEF WriteUrgent, Write, Wrote, Typed
  <1>8. ASSUME Steady PROVE Writes(s, t, a, u, b, x)
    <2>1. a.kind = "want" \/ Says(u, "want") => Says(q, "want")
      BY <1>3, <1>4, <1>5, SaysTail
    <2>2. \A kind, h : Times(q, kind, h) = One(a.kind = kind /\ a.hash = h) + Times(u, kind, h)
      BY <1>3, <1>4, <1>5, TimesTail
    <2>3. \A kind, h : /\ Times(q, kind, h) \in Nat /\ Times(u, kind, h) \in Nat /\ Times(b, kind, h) \in Nat
                       /\ One(a.kind = kind /\ a.hash = h) \in Nat
      BY <1>3, <1>6, PlacesAre DEF One
    <2>4. ASSUME NEW h \in Hashes
          PROVE  /\ One(a.kind = "want" /\ a.hash = h) + Times(u, "want", h) <= Times(q, "want", h)
                 /\ One(a.kind = "missing" /\ a.hash = h) + One(a.kind = "start" /\ a.hash = h)
                      + Times(u, "missing", h) + Times(b, "blob", h) <= Times(q, "missing", h) + Times(b, "blob", h)
      <3>1. One(a.kind = "start" /\ a.hash = h) = 0
        BY <1>6 DEF One
      <3>2. /\ Times(q, "want", h) = One(a.kind = "want" /\ a.hash = h) + Times(u, "want", h)
            /\ Times(q, "missing", h) = One(a.kind = "missing" /\ a.hash = h) + Times(u, "missing", h)
            /\ Times(q, "want", h) \in Nat /\ Times(u, "missing", h) \in Nat /\ Times(b, "blob", h) \in Nat
            /\ One(a.kind = "missing" /\ a.hash = h) \in Nat
        BY <2>2, <2>3
      <3> QED
        BY <3>1, <3>2
    <2>5. \A i \in 1..Len(b) : b[i].kind = "updates" => b[i].inline \subseteq Given(s)
      BY <1>1, <1>3, <1>8 DEF Tidy, Keeps
    <2>6. ASSUME Early(t), NEW h \in Given(s)
          PROVE  Ahead(h, held[t], loop[t].blob, loop[t].pages, Append(w, a), b, Delta[s])
      <3>1. Ahead(h, held[t], loop[t].blob, loop[t].pages, w, b, Delta[s])
        BY <1>1, <1>3, <1>8, <2>6 DEF Tidy, Arrives
      <3>2. \A i \in 1..Len(b) : b[i].kind = "updates" /\ h \in b[i].page =>
              h \in b[i].inline \/ Coming(held[t], loop[t].blob, w, Len(w), h)
        BY <3>1 DEF Ahead
      <3>3. loop[t].pages \in Nat
        BY <1>3 DEF Loops
      <3> QED
        BY <1>3, <1>6, <3>1, <3>2, <3>3, AheadAppend
    <2> QED
      BY <1>1, <1>4, <1>6, <2>1, <2>4, <2>5, <2>6 DEF Writes
  <1> QED
    BY <1>2, <1>7, <1>8, WroteTidy

\* A frame that is neither asked for nor asks: the queues stay.
LEMMA FrameTidy ==
  ASSUME Inv, IInv, NEW s, NEW t, Pair(s, t), NEW a \in Frames, NEW x \in Sendings, CanWrite(s),
         a.kind \in {"chunk", "end", "aborted"},
         Steady => /\ a.kind = "aborted" => a.hash \notin Given(s)
                   /\ x.read = "wrong" => x.hash \notin Given(s),
         wire' = [wire EXCEPT ![s] = Append(wire[s], a)], sending' = [sending EXCEPT ![s] = x],
         UNCHANGED <<compatible, loop, urgent, bulk, open, held, lost, failures>>
  PROVE  IInv'
  <1>1. PICK u, w, b : u = urgent[s] /\ w = wire[s] /\ b = bulk[s]
    OBVIOUS
  <1>2. /\ u \in Seq(Frames) /\ w \in Seq(Frames) /\ b \in Seq(Entries) /\ Typed
        /\ (Steady => Tidy(s, t) /\ Tidy(t, s)) /\ loop[t] \in Loops /\ s \in Sides
    BY <1>1, BothTidy
  <1>3. Wrote(s, a, u, b, x)
    BY <1>1, <1>2 DEF Wrote, Typed
  <1>4. ASSUME Steady PROVE Writes(s, t, a, u, b, x)
    <2>1. ASSUME NEW h \in Hashes
          PROVE  /\ One(a.kind = "want" /\ a.hash = h) + Times(u, "want", h) <= Times(u, "want", h)
                 /\ One(a.kind = "missing" /\ a.hash = h) + One(a.kind = "start" /\ a.hash = h)
                      + Times(u, "missing", h) + Times(b, "blob", h) <= Times(u, "missing", h) + Times(b, "blob", h)
      <3>1. /\ Times(u, "want", h) \in Nat /\ Times(u, "missing", h) \in Nat /\ Times(b, "blob", h) \in Nat
        BY <1>2, PlacesAre
      <3>2. /\ One(a.kind = "want" /\ a.hash = h) = 0 /\ One(a.kind = "missing" /\ a.hash = h) = 0
            /\ One(a.kind = "start" /\ a.hash = h) = 0
        BY DEF One
      <3> QED
        BY <3>1, <3>2
    <2>2. \A i \in 1..Len(b) : b[i].kind = "updates" => b[i].inline \subseteq Given(s)
      BY <1>1, <1>2, <1>4 DEF Tidy, Keeps
    <2>3. ASSUME Early(t), NEW h \in Given(s)
          PROVE  Ahead(h, held[t], loop[t].blob, loop[t].pages, Append(w, a), b, Delta[s])
      <3>1. Ahead(h, held[t], loop[t].blob, loop[t].pages, w, b, Delta[s])
        BY <1>1, <1>2, <1>4, <2>3 DEF Tidy, Arrives
      <3>2. \A i \in 1..Len(b) : b[i].kind = "updates" /\ h \in b[i].page =>
              h \in b[i].inline \/ Coming(held[t], loop[t].blob, w, Len(w), h)
        BY <3>1 DEF Ahead
      <3>3. loop[t].pages \in Nat
        BY <1>2 DEF Loops
      <3> QED
        BY <1>2, <3>1, <3>2, <3>3, AheadAppend
    <2> QED
      BY <1>1, <1>4, <2>1, <2>2, <2>3 DEF Writes
  <1> QED
    BY <1>3, <1>4, WroteTidy

LEMMA WriteBlobTidy ==
  ASSUME Inv, IInv, NEW s \in Sides, WriteChunk(s) \/ WriteEnd(s)
  PROVE  IInv'
  <1>1. PICK t, h, r : t = Peer(s) /\ h = sending[s].hash /\ r = sending[s].read
    OBVIOUS
  <1>2. Pair(s, t)
    BY <1>1, PairOf
  <1>3. /\ (Steady => Tidy(s, t)) /\ sending[s] \in Sendings /\ h \in Hashes \cup {NoHash}
        /\ r \in {"no", "right", "wrong"} /\ sending \in [Sides -> Sendings]
        /\ (r # "no" => h \in Hashes)
    BY <1>1, <1>2, BothTidy DEF Sendings, Typed, NotSending
  <1>4. CASE WriteChunk(s)
    <2>1. PICK x : x = [hash |-> h, read |-> IF h \in held[s] THEN "right" ELSE "wrong"]
      OBVIOUS
    <2>2. x \in Sendings /\ x.hash = h /\ (x.read = "wrong" => h \notin held[s])
      BY <1>3, <2>1 DEF Sendings
    <2>3. sending' = [sending EXCEPT ![s] = x]
      <3>1. sending[s] = [hash |-> h, read |-> r]
        BY <1>1, <1>3 DEF Sendings
      <3>2. [sending[s] EXCEPT !.read = IF h \in held[s] THEN "right" ELSE "wrong"] = x
        BY <2>1, <3>1
      <3> QED
        BY <1>1, <1>4, <3>2 DEF WriteChunk
    <2>4. BlobChunk \in Frames /\ BlobChunk.kind = "chunk"
      BY FramesAre DEF BlobChunk
    <2>5. ASSUME Steady, x.read = "wrong" PROVE x.hash \notin Given(s)
      BY <1>3, <2>2, <2>5, GivenAre DEF Tidy, Keeps
    <2> QED
      BY <1>2, <1>4, <2>2, <2>3, <2>4, <2>5, FrameTidy DEF WriteChunk, Write
  <1>5. CASE WriteEnd(s)
    <2>1. PICK a : a = IF r = "right" THEN BlobEnd ELSE Aborted(h)
      OBVIOUS
    <2>2. r # "no" /\ h \in Hashes
      BY <1>1, <1>3, <1>5 DEF WriteEnd
    <2>3. a \in Frames /\ a.kind \in {"end", "aborted"} /\ (a.kind = "aborted" => a.hash = h /\ r = "wrong")
      BY <1>3, <2>1, <2>2, FramesAre DEF BlobEnd, Aborted
    <2>4. NotSending \in Sendings /\ NotSending.read = "no"
      BY DEF NotSending, Sendings
    <2>5. ASSUME Steady, a.kind = "aborted" PROVE a.hash \notin Given(s)
      BY <1>1, <1>3, <2>3, <2>5 DEF Tidy, Keeps
    <2> QED
      BY <1>1, <1>2, <1>5, <2>1, <2>3, <2>4, <2>5, FrameTidy DEF WriteEnd, Write
  <1> QED
    BY <1>4, <1>5

LEMMA WriteBulkTidy ==
  ASSUME Inv, IInv, NEW s \in Sides, WriteBulk(s)
  PROVE  IInv'
  <1>1. PICK t, u, q, w, x, m, b : /\ t = Peer(s) /\ u = urgent[s] /\ q = bulk[s] /\ w = wire[s]
                                   /\ x = sending[s] /\ m = Head(q) /\ b = Tail(q)
    OBVIOUS
  <1>2. Pair(s, t)
    BY <1>1, PairOf
  <1>3. /\ u \in Seq(Frames) /\ w \in Seq(Frames) /\ q \in Seq(Entries) /\ Typed
        /\ (Steady => Tidy(s, t) /\ Tidy(t, s)) /\ loop[t] \in Loops
    BY <1>1, <1>2, BothTidy
  <1>4. /\ q # <<>> /\ CanWrite(s) /\ x = NotSending /\ Contents(m) = {} /\ u = <<>>
        /\ UNCHANGED <<once, compatible, loop, urgent, sending, open, held, live, lost, failures>>
    BY <1>1 DEF WriteBulk, WritesBulk
  <1>5. /\ m \in Entries /\ b \in Seq(Entries) /\ m = q[1] /\ Len(b) = Len(q) - 1 /\ 1 \in 1..Len(q)
        /\ \A i \in 1..Len(b) : i + 1 \in 1..Len(q) /\ b[i] = q[i + 1]
    BY <1>1, <1>3, <1>4
  <1>6. m.kind \in {"done", "updates"} /\ (m.kind = "updates" => m.page \in SUBSET Hashes /\ m.inline = {})
    BY <1>4, <1>5, EntryFacts DEF Contents
  <1>7. PICK a : a = IF m.kind = "updates" THEN Updates(m.page) ELSE Done
    OBVIOUS
  <1>8. a \in Frames /\ a.kind = m.kind /\ (a.kind = "updates" => a.page = m.page)
    BY <1>6, <1>7, FramesAre DEF Updates, Done
  <1>9. Wrote(s, a, u, b, x)
    BY <1>1, <1>3, <1>4, <1>5, <1>7, <1>8 DEF WriteBulk, Write, Wrote, Typed
  <1>10. ASSUME Steady PROVE Writes(s, t, a, u, b, x)
    <2>1. ASSUME NEW h \in Hashes
          PROVE  /\ One(a.kind = "want" /\ a.hash = h) + Times(u, "want", h) <= Times(u, "want", h)
                 /\ One(a.kind = "missing" /\ a.hash = h) + One(a.kind = "start" /\ a.hash = h)
                      + Times(u, "missing", h) + Times(b, "blob", h) <= Times(u, "missing", h) + Times(q, "blob", h)
      <3>1. /\ Times(u, "want", h) \in Nat /\ Times(u, "missing", h) \in Nat /\ Times(b, "blob", h) \in Nat
        BY <1>3, <1>5, PlacesAre
      <3>2. /\ One(a.kind = "want" /\ a.hash = h) = 0 /\ One(a.kind = "missing" /\ a.hash = h) = 0
            /\ One(a.kind = "start" /\ a.hash = h) = 0 /\ One(m.kind = "blob" /\ m.hash = h) = 0
        BY <1>6, <1>8 DEF One
      <3>3. Times(q, "blob", h) = One(m.kind = "blob" /\ m.hash = h) + Times(b, "blob", h)
        BY <1>1, <1>3, <1>4, TimesTail
      <3> QED
        BY <3>1, <3>2, <3>3
    <2>2. ASSUME NEW i \in 1..Len(b), b[i].kind = "updates" PROVE b[i].inline \subseteq Given(s)
      <3>1. \A j \in 1..Len(q) : q[j].kind = "updates" => q[j].inline \subseteq Given(s)
        BY <1>1, <1>3, <1>10 DEF Tidy, Keeps
      <3> QED
        BY <1>5, <2>2, <3>1
    <2>3. ASSUME Early(t), NEW h \in Given(s)
          PROVE  Ahead(h, held[t], loop[t].blob, loop[t].pages, Append(w, a), b, Delta[s])
      <3>1. Ahead(h, held[t], loop[t].blob, loop[t].pages, w, q, Delta[s])
        BY <1>1, <1>3, <1>10, <2>3 DEF Tidy, Arrives
      <3>2. \A i \in 1..Len(b) : b[i].kind = "updates" /\ h \in b[i].page =>
              h \in b[i].inline \/ Coming(held[t], loop[t].blob, w, Len(w), h)
        BY <1>5, <3>1 DEF Ahead
      <3>3. loop[t].pages \in Nat
        BY <1>3 DEF Loops
      <3>4. a.kind = "updates" /\ h \in a.page => Coming(held[t], loop[t].blob, w, Len(w), h)
        BY <1>5, <1>6, <1>8, <3>1 DEF Ahead
      <3> QED
        BY <1>3, <1>8, <3>1, <3>2, <3>3, <3>4, AheadAppend
    <2>4. x.read # "wrong" /\ ~Says(u, "want")
      BY <1>4, SaysNone DEF NotSending
    <2> QED
      BY <1>1, <1>6, <1>8, <2>1, <2>2, <2>3, <2>4 DEF Writes
  <1> QED
    BY <1>2, <1>9, <1>10, WroteTidy

LEMMA StartBlobTidy ==
  ASSUME Inv, IInv, NEW s \in Sides, NEW g \in Hashes, StartBlob(s, g)
  PROVE  IInv'
  <1>1. PICK t, u, q, w, m, r, b : /\ t = Peer(s) /\ u = urgent[s] /\ q = bulk[s] /\ w = wire[s]
                                   /\ m = Head(q) /\ r = Tail(q) /\ b = bulk'[s]
    OBVIOUS
  <1>2. Pair(s, t)
    BY <1>1, PairOf
  <1>3. /\ u \in Seq(Frames) /\ w \in Seq(Frames) /\ q \in Seq(Entries) /\ Typed
        /\ (Steady => Tidy(s, t) /\ Tidy(t, s)) /\ loop[t] \in Loops
    BY <1>1, <1>2, BothTidy
  <1>4. /\ q # <<>> /\ CanWrite(s) /\ u = <<>> /\ sending[s] = NotSending /\ g \in Contents(m)
        /\ UNCHANGED <<once, compatible, loop, urgent, open, held, live, lost, failures>>
    BY <1>1 DEF StartBlob, WritesBulk
  <1>5. /\ m \in Entries /\ r \in Seq(Entries) /\ m = q[1] /\ Len(r) = Len(q) - 1 /\ 1 \in 1..Len(q)
        /\ \A i \in 1..Len(r) : i + 1 \in 1..Len(q) /\ r[i] = q[i + 1]
        /\ \A i \in 1..Len(q) : i # 1 => i - 1 \in 1..Len(r)
    BY <1>1, <1>3, <1>4
  <1>6. PICK a, x : /\ wire' = [wire EXCEPT ![s] = Append(w, a)] /\ sending' = [sending EXCEPT ![s] = x]
                    /\ a \in {BlobStart(g), Missing(g)} /\ (a = Missing(g) => g \notin held[s])
                    /\ x.read = "no"
    <2>1. CASE /\ wire' = [wire EXCEPT ![s] = Append(@, BlobStart(g))]
               /\ sending' = [sending EXCEPT ![s] = [hash |-> g, read |-> "no"]]
      <3>1. BlobStart(g) # Missing(g)
        BY DEF BlobStart, Missing
      <3>2. PICK c, z : c = BlobStart(g) /\ z = [hash |-> g, read |-> "no"]
        OBVIOUS
      <3>3. z.read = "no" /\ c # Missing(g) /\ c \in {BlobStart(g), Missing(g)}
        BY <3>1, <3>2
      <3>4. wire' = [wire EXCEPT ![s] = Append(w, c)] /\ sending' = [sending EXCEPT ![s] = z]
        BY <1>1, <2>1, <3>2
      <3> QED
        BY <3>3, <3>4
    <2>2. CASE g \notin held[s] /\ wire' = [wire EXCEPT ![s] = Append(@, Missing(g))] /\ UNCHANGED sending
      <3>1. sending' = [sending EXCEPT ![s] = NotSending] /\ NotSending.read = "no"
        BY <1>3, <1>4, <2>2 DEF Typed, NotSending
      <3> QED
        BY <1>1, <2>2, <3>1
    <2> QED
      BY <2>1, <2>2 DEF StartBlob, Write
  <1>7. /\ a \in Frames /\ a.kind \in {"start", "missing"} /\ a.hash = g
        /\ (a.kind = "missing" => g \notin held[s])
    <2>1. /\ BlobStart(g) \in Frames /\ BlobStart(g).kind = "start" /\ BlobStart(g).hash = g
          /\ Missing(g) \in Frames /\ Missing(g).kind = "missing" /\ Missing(g).hash = g
      BY FramesAre DEF BlobStart, Missing
    <2> QED
      BY <1>6, <2>1
  <1>8. CASE m.kind = "blob"
    <2>1. b = r /\ m.hash = g /\ bulk' = [bulk EXCEPT ![s] = b]
      BY <1>1, <1>3, <1>4, <1>8 DEF StartBlob, Contents, Typed
    <2>2. Wrote(s, a, u, b, x)
      BY <1>1, <1>3, <1>4, <1>5, <1>6, <1>7, <2>1 DEF Wrote, Typed
    <2>3. ASSUME Steady PROVE Writes(s, t, a, u, b, x)
      <3>1. ASSUME NEW h \in Hashes
            PROVE  /\ One(a.kind = "want" /\ a.hash = h) + Times(u, "want", h) <= Times(u, "want", h)
                   /\ One(a.kind = "missing" /\ a.hash = h) + One(a.kind = "start" /\ a.hash = h)
                        + Times(u, "missing", h) + Times(b, "blob", h) <= Times(u, "missing", h) + Times(q, "blob", h)
        <4>1. /\ Times(u, "want", h) \in Nat /\ Times(u, "missing", h) \in Nat /\ Times(b, "blob", h) \in Nat
          BY <1>3, <1>5, <2>1, PlacesAre
        <4>2. Times(q, "blob", h) = One(m.kind = "blob" /\ m.hash = h) + Times(b, "blob", h)
          <5>1. q \in Seq(Entries) /\ q # <<>> /\ m = Head(q) /\ b = Tail(q)
            BY <1>1, <1>3, <1>4, <2>1
          <5> QED
            BY <5>1, TimesTail
        <4>3. /\ One(a.kind = "want" /\ a.hash = h) = 0
              /\ One(a.kind = "missing" /\ a.hash = h) + One(a.kind = "start" /\ a.hash = h)
                   <= One(m.kind = "blob" /\ m.hash = h)
              /\ One(a.kind = "missing" /\ a.hash = h) \in Nat /\ One(a.kind = "start" /\ a.hash = h) \in Nat
              /\ One(m.kind = "blob" /\ m.hash = h) \in Nat
          BY <1>7, <1>8, <2>1 DEF One
        <4> QED
          BY <4>1, <4>2, <4>3
      <3>2. \A i \in 1..Len(b) : b[i].kind = "updates" => b[i].inline \subseteq Given(s)
        BY <1>1, <1>3, <1>5, <2>1, <2>3 DEF Tidy, Keeps
      <3>3. ASSUME Early(t), NEW h \in Given(s)
            PROVE  Ahead(h, held[t], loop[t].blob, loop[t].pages, Append(w, a), b, Delta[s])
        <4>1. Ahead(h, held[t], loop[t].blob, loop[t].pages, w, q, Delta[s])
          BY <1>1, <1>3, <2>3, <3>3 DEF Tidy, Arrives
        <4>2. \A i \in 1..Len(b) : b[i].kind = "updates" /\ h \in b[i].page =>
                h \in b[i].inline \/ Coming(held[t], loop[t].blob, w, Len(w), h)
          BY <1>5, <2>1, <4>1 DEF Ahead
        <4>3. loop[t].pages \in Nat /\ a.kind # "updates"
          BY <1>3, <1>7 DEF Loops
        <4> QED
          BY <1>3, <1>7, <4>1, <4>2, <4>3, AheadAppend
      <3>4. ~Says(u, "want")
        BY <1>4, SaysNone
      <3> QED
        BY <1>1, <1>6, <1>7, <3>1, <3>2, <3>3, <3>4 DEF Writes
    <2> QED
      BY <1>2, <2>2, <2>3, WroteTidy
  <1>9. CASE m.kind # "blob"
    <2>1. /\ m.kind = "updates" /\ g \in m.inline /\ m.page \in SUBSET Hashes /\ m.inline \in SUBSET Hashes
          /\ m = Page(m.page, m.inline)
      BY <1>4, <1>5, <1>9, EntryFacts DEF Contents
    <2>2. PICK e : e = Page(m.page, m.inline \ {g})
      OBVIOUS
    <2>3. e \in Entries /\ e.kind = "updates" /\ e.page = m.page /\ e.inline = m.inline \ {g}
      BY <2>1, <2>2, EntriesAre DEF Page
    <2>4. b = [q EXCEPT ![1] = e] /\ bulk' = [bulk EXCEPT ![s] = b]
      <3>1. [m EXCEPT !.inline = @ \ {g}] = e
        <4>1. PICK p, i : p = m.page /\ i = m.inline /\ m = Page(p, i) /\ e = Page(p, i \ {g})
          BY <2>1, <2>2
        <4> QED
          BY <4>1 DEF Page
      <3>2. bulk' = [bulk EXCEPT ![s] = [q EXCEPT ![1] = [q[1] EXCEPT !.inline = @ \ {g}]]]
        BY <1>1, <1>9 DEF StartBlob
      <3> QED
        BY <1>1, <1>3, <1>5, <3>1, <3>2 DEF Typed
    <2>5. /\ b \in Seq(Entries) /\ Len(b) = Len(q) /\ b[1] = e /\ b # <<>> /\ Head(b) = e /\ Tail(b) = r
          /\ \A i \in 1..Len(q) : i # 1 => b[i] = q[i]
      <3>1. b \in Seq(Entries) /\ Len(b) = Len(q) /\ b[1] = e /\ \A i \in 1..Len(q) : i # 1 => b[i] = q[i]
        BY <1>3, <1>5, <2>3, <2>4
      <3>2. b # <<>> /\ Head(b) = e /\ Tail(b) \in Seq(Entries) /\ Len(Tail(b)) = Len(r)
            /\ \A i \in 1..Len(r) : Tail(b)[i] = r[i]
        BY <1>3, <1>4, <1>5, <3>1
      <3>3. Tail(b) = r
        BY <1>5, <3>2
      <3> QED
        BY <3>1, <3>2, <3>3
    <2>6. Wrote(s, a, u, b, x)
      BY <1>1, <1>3, <1>4, <1>6, <1>7, <2>4, <2>5 DEF Wrote, Typed
    <2>7. ASSUME Steady PROVE Writes(s, t, a, u, b, x)
      <3>1. m.inline \subseteq Given(s) /\ g \in Given(s) /\ g \in held[s] /\ a.kind = "start"
        BY <1>1, <1>3, <1>5, <1>7, <2>1, <2>7, GivenAre DEF Tidy, Keeps
      <3>2. ASSUME NEW h \in Hashes
            PROVE  One(a.kind = "want" /\ a.hash = h) + Times(u, "want", h) <= Times(u, "want", h)
        <4>1. Times(u, "want", h) \in Nat /\ One(a.kind = "want" /\ a.hash = h) = 0
          BY <1>3, <1>7, PlacesAre DEF One
        <4> QED
          BY <4>1
      <3>3. ASSUME NEW h \in Hashes \ Given(s)
            PROVE  One(a.kind = "missing" /\ a.hash = h) + One(a.kind = "start" /\ a.hash = h)
                     + Times(u, "missing", h) + Times(b, "blob", h) <= Times(u, "missing", h) + Times(q, "blob", h)
        <4>1. /\ Times(u, "missing", h) \in Nat /\ Times(r, "blob", h) \in Nat
          BY <1>3, <1>5, PlacesAre
        <4>2. Times(q, "blob", h) = One(m.kind = "blob" /\ m.hash = h) + Times(r, "blob", h)
          BY <1>1, <1>3, <1>4, TimesTail
        <4>3. Times(b, "blob", h) = One(e.kind = "blob" /\ e.hash = h) + Times(r, "blob", h)
          <5>1. Times(b, "blob", h) = One(Head(b).kind = "blob" /\ Head(b).hash = h) + Times(Tail(b), "blob", h)
            BY <2>5, TimesTail
          <5> QED
            BY <2>5, <5>1
        <4>4. /\ One(m.kind = "blob" /\ m.hash = h) = 0 /\ One(e.kind = "blob" /\ e.hash = h) = 0
              /\ One(a.kind = "missing" /\ a.hash = h) = 0 /\ One(a.kind = "start" /\ a.hash = h) = 0
          BY <1>7, <2>1, <2>3, <3>1, <3>3 DEF One
        <4> QED
          BY <4>1, <4>2, <4>3, <4>4
      <3>4. \A i \in 1..Len(b) : b[i].kind = "updates" => b[i].inline \subseteq Given(s)
        BY <1>1, <1>3, <2>3, <2>5, <2>7, <3>1 DEF Tidy, Keeps
      <3>5. ASSUME Early(t), NEW h \in Given(s)
            PROVE  Ahead(h, held[t], loop[t].blob, loop[t].pages, Append(w, a), b, Delta[s])
        <4>1. Ahead(h, held[t], loop[t].blob, loop[t].pages, w, q, Delta[s])
          BY <1>1, <1>3, <2>7, <3>5 DEF Tidy, Arrives
        <4>2. ASSUME NEW i \in 1..Len(b), b[i].kind = "updates", h \in b[i].page
              PROVE  h \in b[i].inline \/ Coming(held[t], loop[t].blob, w, Len(w), h)
                       \/ (a.kind = "start" /\ a.hash = h)
          <5>1. CASE i = 1
            <6>1. h \in m.inline \/ Coming(held[t], loop[t].blob, w, Len(w), h)
              BY <1>5, <2>1, <2>3, <2>5, <4>1, <4>2, <5>1 DEF Ahead
            <6> QED
              BY <1>7, <2>3, <2>5, <3>1, <5>1, <6>1
          <5>2. CASE i # 1
            BY <2>5, <4>1, <4>2, <5>2 DEF Ahead
          <5> QED
            BY <5>1, <5>2
        <4>3. loop[t].pages \in Nat /\ a.kind # "updates"
          BY <1>3, <1>7 DEF Loops
        <4> QED
          BY <1>3, <1>7, <4>1, <4>2, <4>3, AheadAppend
      <3>6. ~Says(u, "want")
        BY <1>4, SaysNone
      <3> QED
        BY <1>1, <1>6, <1>7, <3>1, <3>2, <3>3, <3>4, <3>5, <3>6 DEF Writes
    <2> QED
      BY <1>2, <2>6, <2>7, WroteTidy
  <1> QED
    BY <1>8, <1>9

LEMMA WriteFailsTidy ==
  ASSUME Inv, IInv, NEW s \in Sides, WriteFails(s)
  PROVE  IInv'
  <1>1. PICK t : t = Peer(s)
    OBVIOUS
  <1>2. Pair(s, t)
    BY <1>1, PairOf
  <1>3. /\ loop[s] \in Loops /\ Typed /\ held' \in [Sides -> SUBSET Hashes] /\ held' = held /\ wire' = wire
    BY <1>2, BothTidy DEF WriteFails, Typed
  <1>4. loop' = [loop EXCEPT ![s] = loop[s]]
    BY <1>3 DEF WriteFails, Typed
  <1>5. Stops(s, t, loop[s])
    BY <1>3, <1>4 DEF WriteFails, Stops
  <1> QED
    BY <1>2, <1>5, StopTidy

\* The loop stops, which takes a reason if nothing has failed.
LEMMA StopLoopTidy ==
  ASSUME Inv, IInv, NEW s, NEW t, Pair(s, t), NEW why \in {loop[s].stop, "gone"}, StopLoop(s, why),
         wire' = wire \/ (wire[t] # <<>> /\ Took(s)),
         held' \in [Sides -> SUBSET Hashes], held'[t] = held[t], held[s] \subseteq held'[s],
         UNCHANGED <<compatible, lost, failures>>,
         Steady => why = loop[s].stop
  PROVE  IInv'
  <1>1. PICK l : l = [loop[s] EXCEPT !.pc = "over", !.stop = why]
    OBVIOUS
  <1>2. loop[s] \in Loops /\ s \in Sides
    BY BothTidy
  <1>3. l \in Loops /\ l.pc = "over" /\ l.stop = why
    BY <1>1, <1>2 DEF Loops
  <1>4. loop' = [loop EXCEPT ![s] = l] /\ StopWriter(s)
    BY <1>1 DEF StopLoop
  <1>5. Stops(s, t, l)
    BY <1>3, <1>4 DEF Stops
  <1> QED
    BY <1>3, <1>5, StopTidy

LEMMA CloseTidy ==
  ASSUME Inv, IInv, NEW s \in Sides, Close(s)
  PROVE  IInv'
  <1>1. PICK t : t = Peer(s)
    OBVIOUS
  <1>2. Pair(s, t)
    BY <1>1, PairOf
  <1>3. held' \in [Sides -> SUBSET Hashes]
    BY <1>2, BothTidy DEF Close, Typed
  <1> QED
    BY <1>2, <1>3, StopLoopTidy DEF Close

\* Whom a reading side finds gone has completed the exchange, as nothing has failed.
LEMMA GoneIsComplete ==
  ASSUME Inv, IInv, Steady, NEW s, NEW t, Pair(s, t), Reading(loop[s]), ~open[s] \/ ~open[t], compatible
  PROVE  loop[t].stop = "complete" /\ loop[s].settled /\ loop[t].pc # "exchange"
  <1>1. /\ Ends(s) /\ Ends(t) /\ Tidy(s, t) /\ Tidy(t, s) /\ Of(s, t) /\ Of(t, s) /\ failures = 0
        /\ loop[s] \in Loops /\ loop[t] \in Loops
    BY BothTidy DEF Steady
  <1>2. loop[s].pc # "over" /\ (~open[s] => ~Reading(loop[t])) /\ (~open[t] => loop[t].pc = "over")
    BY <1>1 DEF Of, Alone, Reading
  <1>3. ~Reading(loop[t])
    BY <1>2 DEF Reading
  <1>4. loop[t].stop = "complete"
    BY <1>1, <1>3 DEF Of, Sane, Ends, Tidy, Reading, Loops
  <1>5. loop[t].peerSettled
    BY <1>1, <1>4 DEF Of, Sane, Complete
  <1> QED
    BY <1>1, <1>3, <1>4, <1>5 DEF Of, Truthful, Reading

LEMMA ReadEndTidy ==
  ASSUME Inv, IInv, NEW s \in Sides, ReadEnd(s)
  PROVE  IInv'
  <1>1. PICK t, n, l : t = Peer(s) /\ n = Len(Delta[t]) /\ l = loop[s]
    OBVIOUS
  <1>2. Pair(s, t)
    BY <1>1, PairOf
  <1>3. /\ held' \in [Sides -> SUBSET Hashes] /\ held' = held /\ wire' = wire
        /\ wire[t] = <<>> /\ ~open[t] /\ l.pc \in {"hello", "exchange"} /\ (l.pc = "exchange" => ~Complete(l))
        /\ StopLoop(s, "gone") /\ UNCHANGED <<compatible, lost, failures>>
    BY <1>1, <1>2, BothTidy DEF ReadEnd, StreamEnded, Incoming, Typed
  <1>4. /\ Of(s, t) /\ Of(t, s) /\ loop[t] \in Loops /\ l \in Loops /\ n \in Nat /\ Typed
        /\ Ends(t)
    BY <1>1, <1>2, BothTidy
  <1>5. ~Steady
    <2> SUFFICES ASSUME Steady PROVE FALSE
      OBVIOUS
    <2>1. failures = 0 /\ Tidy(t, s) /\ Reading(l)
      BY <1>2, <1>3, BothTidy DEF Steady, Reading
    <2>2. loop[t].pc = "over" /\ loop[t].stop \in {"complete", "refused"}
      BY <1>1, <1>3, <1>4, <2>1 DEF Of, Alone, Sane, Ends, Tidy, Loops
    <2>3. PICK e \in States :
            /\ Run(t, <<>>, Heard(l, n), e)
            /\ Run(t, urgent[t], At(e.said, 0), At(QueuedSaid(loop[t]), 0))
            /\ Run(t, bulk[t], At(1, e.page), At(1, QueuedPages(loop[t], n)))
      BY <1>1, <1>3, <1>4, <2>1, <2>2 DEF Of, Hears, Stream, Whole
    <2>4. urgent[t] = <<>> /\ bulk[t] = <<>>
      BY <1>4, <2>2 DEF Ends
    <2>5. e = Heard(l, n) /\ At(e.said, 0) = At(QueuedSaid(loop[t]), 0)
          /\ At(1, e.page) = At(1, QueuedPages(loop[t], n))
      BY <2>3, <2>4 DEF Run
    <2>6. e.said = QueuedSaid(loop[t]) /\ e.page = QueuedPages(loop[t], n)
      BY <2>5 DEF At
    <2>7. l.pc = "exchange"
      BY <1>3, <2>5, <2>6 DEF Heard, QueuedSaid
    <2>8. compatible /\ l.pages \in Nat /\ l.pages <= n
      BY <1>1, <1>4, <2>7 DEF Of, Sane, Loops
    <2>9. loop[t].stop = "complete" /\ l.settled
      BY <1>1, <1>2, <1>3, <2>1, <2>8, GoneIsComplete
    <2>10. loop[t].settled
      BY <1>4, <2>9 DEF Of, Sane, Complete
    <2>11. l.peerSettled
      BY <2>5, <2>6, <2>7, <2>10 DEF Heard, QueuedSaid
    <2> QED
      BY <1>1, <1>3, <1>4, <2>7, <2>9, <2>11 DEF Of, Sane, Complete
  <1> QED
    BY <1>2, <1>3, <1>5, StopLoopTidy

-----------------------------------------------------------------------------
\* The exchange keeps it.

\* What a reply of s, which knows k then, has to do for what goes each way.
Fits(s, t, f, l, k, controls, entries) ==
  \A h \in Hashes :
    /\ Early(t) => Times(controls, "missing", h) + Times(entries, "blob", h)
                     <= One(f.kind = "want" /\ f.hash = h)
    /\ IF h \in Given(t)
       THEN /\ \A i \in 1..k.pages : h \in Delta[t][i] => h \in held'[s]
            /\ l.blob = h => k.blob = h \/ h \in held'[s]
            /\ f.kind = "start" /\ f.hash = h => k.blob = h
            /\ Times(controls, "want", h) = 0 /\ h \notin k.wanted
       ELSE Times(controls, "want", h) + Asking(s, h) + Answering(s, t, h) + One(k.blob = h)
              <= One(h \in k.wanted) + One(f.kind = "missing" /\ f.hash = h)
                   + One(f.kind = "start" /\ f.hash = h) + One(l.blob = h)

LEMMA ReplyTidy ==
  ASSUME Inv, IInv, NEW s, NEW t, NEW n, NEW f, NEW l, Facing(s, t, n, f, l), NEW k \in Loops,
         k.pc = "exchange", k.stop = "none", k.settled = l.settled,
         NEW controls \in Seq(Frames), NEW entries \in Seq(Entries), Handled(s, k, controls, entries),
         \A i \in 1..Len(controls) : controls[i].kind \in {"want", "missing"},
         \A i \in 1..Len(entries) : entries[i].kind = "blob",
         f.kind \notin {"updates", "done", "want"} => controls = <<>> /\ entries = <<>>,
         held' \in [Sides -> SUBSET Hashes], held'[t] = held[t], held[s] \subseteq held'[s],
         Steady => Fits(s, t, f, l, k, controls, entries)
  PROVE  IInv'
  <1> USE DEF Facing
  <1>1. PICK out, w : out = (IF Settles(k) THEN Append(controls, Settled) ELSE controls) /\ w = wire[t]
    OBVIOUS
  <1>2. /\ Ends(s) /\ Ends(t) /\ (Steady => Tidy(s, t) /\ Tidy(t, s)) /\ w \in Seq(Frames) /\ w # <<>>
        /\ wire[s] \in Seq(Frames) /\ l.stop = loop[s].stop /\ f = Head(w)
    BY <1>1, BothTidy
  <1>3. Took(s) /\ UNCHANGED <<once, compatible, lost, failures>>
    BY DEF Handled
  <1>4. Settled \in Frames /\ Settled.kind = "settled"
    BY FramesAre DEF Settled
  <1>5. /\ out \in Seq(Frames) /\ ~Says(out, "refused") /\ ~Says(out, "live")
        /\ \A i \in 1..Len(out) : out[i].kind \in Kinds
        /\ \A kind \in {"want", "missing"} : \A h : Times(out, kind, h) = Times(controls, kind, h)
    <2>1. CASE ~Settles(k)
      BY <1>1, <2>1 DEF Kinds, Says
    <2>2. CASE Settles(k)
      <3>1. out = Append(controls, Settled) /\ out \in Seq(Frames)
        BY <1>1, <1>4, <2>2
      <3>2. ASSUME NEW i \in 1..Len(out) PROVE out[i].kind \in {"want", "missing", "settled"}
        <4>1. CASE i = Len(controls) + 1
          BY <1>4, <3>1, <4>1
        <4>2. CASE i # Len(controls) + 1
          <5>1. i \in 1..Len(controls) /\ out[i] = controls[i]
            BY <3>1, <4>2
          <5> QED
            BY <5>1
        <4> QED
          BY <4>1, <4>2
      <3>3. ASSUME NEW kind \in {"want", "missing"}, NEW h PROVE Times(out, kind, h) = Times(controls, kind, h)
        <4>1. Times(out, kind, h) = Times(controls, kind, h) + One(Settled.kind = kind /\ Settled.hash = h)
          BY <1>4, <3>1, TimesAppend
        <4>2. One(Settled.kind = kind /\ Settled.hash = h) = 0 /\ Times(controls, kind, h) \in Nat
          BY <1>4, PlacesAre DEF One
        <4> QED
          BY <4>1, <4>2
      <3> QED
        BY <3>1, <3>2, <3>3 DEF Kinds, Says
    <2> QED
      BY <2>1, <2>2
  <1>6. CASE (out # <<>> \/ entries # <<>>) /\ ~open[s]
    <2>1. StopLoop(s, "gone")
      BY <1>1, <1>6 DEF Handled
    <2>2. ~Steady
      <3> SUFFICES ASSUME Steady PROVE FALSE
        OBVIOUS
      <3>1. compatible /\ Reading(loop[s]) /\ Early(s)
        BY DEF Of, Sane, Reading, Early
      <3>2. loop[t].stop = "complete" /\ l.settled
        BY <1>6, <3>1, GoneIsComplete
      <3>3. l.peerDone /\ ~Settles(k)
        BY <3>2 DEF Settles
      <3>4. f.kind # "want"
        <4>1. ~SaysOn(t, "want")
          BY <1>2, <3>1, <3>2 DEF Tidy, Quiet
        <4>2. f.kind = "want" => Says(w, "want")
          BY <1>2, SaysTail
        <4> QED
          BY <1>1, <4>1, <4>2 DEF SaysOn
      <3>5. f.kind \notin {"updates", "done"}
        <4>1. Heard(l, n).page = n + 1
          BY <3>3 DEF Heard
        <4>2. ~(n + 1 < Len(Delta[t])) /\ n + 1 # Len(Delta[t])
          OBVIOUS
        <4> QED
          BY <4>1, <4>2 DEF Legal
      <3> QED
        BY <1>1, <1>6, <3>3, <3>4, <3>5
    <2> QED
      BY <1>2, <1>3, <2>1, <2>2, StopLoopTidy
  <1>7. CASE ~((out # <<>> \/ entries # <<>>) /\ ~open[s])
    <2>1. PICK j : j = [k EXCEPT !.settled = @ \/ Settles(k)]
      OBVIOUS
    <2>2. /\ j \in Loops /\ j.pc = "exchange" /\ j.stop = "none" /\ j.pages = k.pages /\ j.wanted = k.wanted
          /\ j.blob = k.blob
      BY <2>1 DEF Loops, Settles
    <2>3. loop' = [loop EXCEPT ![s] = j] /\ Send(s, out, entries) /\ UNCHANGED <<sending, open>>
      BY <1>1, <1>7, <2>1 DEF Handled
    <2>4. Move(s, t, j, out, entries)
      BY <1>2, <1>3, <1>5, <2>2, <2>3 DEF Move, Early
    <2>5. wire'[t] = Tail(w) /\ wire'[s] = wire[s]
      BY <1>1, <1>2, <1>3, TookTypes
    <2>6. ASSUME NEW kind \in {"want", "missing", "start"}, NEW h \in Hashes
          PROVE  /\ Times(w, kind, h) = One(f.kind = kind /\ f.hash = h) + Times(wire'[t], kind, h)
                 /\ Times(wire'[t], kind, h) \in Nat /\ One(f.kind = kind /\ f.hash = h) \in Nat
      <3>1. PICK v : v = Tail(w)
        OBVIOUS
      <3>2. v \in Seq(Frames) /\ wire'[t] = v
        BY <1>2, <2>5, <3>1
      <3>3. Times(w, kind, h) = One(f.kind = kind /\ f.hash = h) + Times(v, kind, h)
        BY <1>2, <3>1, TimesTail
      <3>4. Times(v, kind, h) \in Nat /\ One(f.kind = kind /\ f.hash = h) \in Nat
        BY <3>2, PlacesAre DEF One
      <3> QED
        BY <3>2, <3>3, <3>4
    <2>7. ASSUME Steady PROVE Sends(s, t, j, out, entries)
      <3>1. ASSUME Early(t), NEW h \in Hashes
            PROVE  Times(out, "missing", h) + Times(entries, "blob", h) + Times(wire'[t], "want", h)
                     <= Times(w, "want", h)
        <4>1. Times(controls, "missing", h) + Times(entries, "blob", h) <= One(f.kind = "want" /\ f.hash = h)
          BY <2>7, <3>1 DEF Fits
        <4>2. Times(controls, "missing", h) \in Nat /\ Times(entries, "blob", h) \in Nat
          BY PlacesAre
        <4>3. Times(out, "missing", h) = Times(controls, "missing", h)
          BY <1>5
        <4>4. /\ Times(w, "want", h) = One(f.kind = "want" /\ f.hash = h) + Times(wire'[t], "want", h)
              /\ Times(wire'[t], "want", h) \in Nat /\ One(f.kind = "want" /\ f.hash = h) \in Nat
          BY <2>6
        <4> QED
          BY <4>1, <4>2, <4>3, <4>4
      <3> QED
        BY <1>1, <2>2, <3>1 DEF Sends
    <2>8. ASSUME Steady PROVE Receives(s, t, j, out)
      <3> SUFFICES ASSUME NEW h \in Hashes
                   PROVE  IF h \in Given(t)
                          THEN /\ Ahead(h, held'[s], k.blob, k.pages, wire'[t], bulk[t], Delta[t])
                               /\ Times(out, "want", h) = 0 /\ h \notin k.wanted
                          ELSE Times(out, "want", h) + Asking(s, h) + Times(urgent[t], "missing", h)
                                 + Times(wire'[t], "missing", h) + Times(bulk[t], "blob", h)
                                 + Times(wire'[t], "start", h) + One(k.blob = h)
                               <= One(h \in k.wanted)
        BY <2>2 DEF Receives
      <3>1. Times(out, "want", h) = Times(controls, "want", h)
        BY <1>5
      <3>2. CASE h \in Given(t)
        <4>1. /\ \A i \in 1..k.pages : h \in Delta[t][i] => h \in held'[s]
              /\ l.blob = h => k.blob = h \/ h \in held'[s]
              /\ f.kind = "start" /\ f.hash = h => k.blob = h
              /\ Times(controls, "want", h) = 0 /\ h \notin k.wanted
          BY <2>8, <3>2 DEF Fits
        <4>2. Ahead(h, held[s], l.blob, l.pages, w, bulk[t], Delta[t])
          BY <1>1, <1>2, <2>8, <3>2 DEF Tidy, Arrives, Early
        <4>3. Ahead(h, held'[s], k.blob, k.pages, Tail(w), bulk[t], Delta[t])
          <5>1. PICK had, had2, blob, blob2, pages, pages2, q, d :
                  /\ had = held[s] /\ had2 = held'[s] /\ blob = l.blob /\ blob2 = k.blob /\ pages = l.pages
                  /\ pages2 = k.pages /\ q = bulk[t] /\ d = Delta[t]
            OBVIOUS
          <5>2. /\ w \in Seq(Frames) /\ w # <<>> /\ Ahead(h, had, blob, pages, w, q, d) /\ had \subseteq had2
                /\ blob = h => blob2 = h \/ h \in had2
                /\ Head(w).kind = "start" /\ Head(w).hash = h => blob2 = h \/ h \in had2
                /\ \A i \in 1..pages2 : h \in d[i] => h \in had2
            BY <1>2, <4>1, <4>2, <5>1
          <5>3. Ahead(h, had2, blob2, pages2, Tail(w), q, d)
            <6> HIDE DEF Facing
            <6> QED
              BY <5>2, AheadTail
          <5> QED
            BY <5>1, <5>3
        <4> QED
          BY <2>5, <3>1, <3>2, <4>1, <4>3
      <3>3. CASE h \notin Given(t)
        <4>1. Times(controls, "want", h) + Asking(s, h) + Answering(s, t, h) + One(k.blob = h)
                <= One(h \in k.wanted) + One(f.kind = "missing" /\ f.hash = h)
                     + One(f.kind = "start" /\ f.hash = h) + One(l.blob = h)
          BY <2>8, <3>3 DEF Fits
        <4>2. Answering(s, t, h) = Times(urgent[t], "missing", h) + Times(w, "missing", h)
                + Times(bulk[t], "blob", h) + Times(w, "start", h) + One(l.blob = h)
          BY <1>1 DEF Answering
        <4>3. /\ Times(w, "missing", h) = One(f.kind = "missing" /\ f.hash = h) + Times(wire'[t], "missing", h)
              /\ Times(w, "start", h) = One(f.kind = "start" /\ f.hash = h) + Times(wire'[t], "start", h)
              /\ Times(wire'[t], "missing", h) \in Nat /\ One(f.kind = "missing" /\ f.hash = h) \in Nat
              /\ Times(wire'[t], "start", h) \in Nat /\ One(f.kind = "start" /\ f.hash = h) \in Nat
          <5>1. "missing" \in {"want", "missing", "start"} /\ "start" \in {"want", "missing", "start"}
            OBVIOUS
          <5>2. /\ Times(w, "missing", h) = One(f.kind = "missing" /\ f.hash = h) + Times(wire'[t], "missing", h)
                /\ Times(wire'[t], "missing", h) \in Nat /\ One(f.kind = "missing" /\ f.hash = h) \in Nat
            BY <2>6, <5>1
          <5>3. /\ Times(w, "start", h) = One(f.kind = "start" /\ f.hash = h) + Times(wire'[t], "start", h)
                /\ Times(wire'[t], "start", h) \in Nat /\ One(f.kind = "start" /\ f.hash = h) \in Nat
            BY <2>6, <5>1
          <5> QED
            BY <5>2, <5>3
        <4>4. /\ Times(urgent[t], "missing", h) \in Nat /\ Times(bulk[t], "blob", h) \in Nat
              /\ Times(controls, "want", h) \in Nat /\ Asking(s, h) \in Nat
              /\ One(k.blob = h) \in Nat /\ One(l.blob = h) \in Nat /\ One(h \in k.wanted) \in Nat
          BY TimesType, PlacesAre, AskingType DEF One
        <4>5. PICK n1, n2, n3, n4, n5, n6, n7, n8, n9 :
                /\ n1 = Times(controls, "want", h) /\ n2 = Asking(s, h) /\ n3 = Times(urgent[t], "missing", h)
                /\ n4 = Times(wire'[t], "missing", h) /\ n5 = Times(bulk[t], "blob", h)
                /\ n6 = Times(wire'[t], "start", h) /\ n7 = One(k.blob = h)
                /\ n8 = One(f.kind = "missing" /\ f.hash = h) /\ n9 = One(f.kind = "start" /\ f.hash = h)
          OBVIOUS
        <4>6. PICK m1, m2 : m1 = One(l.blob = h) /\ m2 = One(h \in k.wanted)
          OBVIOUS
        <4>7. n1 + n2 + (n3 + (n8 + n4) + n5 + (n9 + n6) + m1) + n7 <= m2 + n8 + n9 + m1
          BY <4>1, <4>2, <4>3, <4>5, <4>6
        <4>8. /\ n1 \in Nat /\ n2 \in Nat /\ n3 \in Nat /\ n4 \in Nat /\ n5 \in Nat /\ n6 \in Nat
              /\ n7 \in Nat /\ n8 \in Nat /\ n9 \in Nat /\ m1 \in Nat /\ m2 \in Nat
          BY <4>3, <4>4, <4>5, <4>6
        <4>9. n1 + n2 + n3 + n4 + n5 + n6 + n7 <= m2
          BY <4>7, <4>8
        <4> QED
          BY <3>1, <3>3, <4>5, <4>6, <4>9
      <3> QED
        BY <3>2, <3>3
    <2> QED
      BY <2>4, <2>7, <2>8, MoveTidy
  <1> QED
    BY <1>6, <1>7

\* What s asks for and is sent, before it reads on.
LEMMA FacingTidy ==
  ASSUME Inv, IInv, Steady, NEW s, NEW t, NEW n, NEW f, NEW l, Facing(s, t, n, f, l), NEW h \in Hashes
  PROVE  /\ h \in Given(t) => /\ \A i \in 1..l.pages : h \in Delta[t][i] => h \in held[s]
                              /\ h \notin l.wanted /\ Asking(s, h) = 0
                              /\ f.kind = "updates" /\ h \in f.page => h \in held[s]
                              /\ f.kind = "aborted" => f.hash # h
         /\ h \notin Given(t) => Asking(s, h) + Answering(s, t, h) <= One(h \in l.wanted)
         /\ Asking(s, h) \in Nat /\ Answering(s, t, h) \in Nat
         /\ l.blob = h => Answering(s, t, h) >= 1
         /\ f.kind \in {"missing", "start"} /\ f.hash = h => Answering(s, t, h) >= 1
  <1> USE DEF Facing
  <1>1. PICK w : w = wire[t]
    OBVIOUS
  <1>2. /\ Tidy(s, t) /\ Tidy(t, s) /\ w \in Seq(Frames) /\ w # <<>> /\ f = Head(w)
    BY <1>1, BothTidy
  <1>3. f = w[1] /\ 1 \in 1..Len(w)
    BY <1>2
  <1>4. Asking(s, h) \in Nat /\ Answering(s, t, h) \in Nat
    BY AskingType
  <1>5. /\ Times(urgent[t], "missing", h) \in Nat /\ Times(w, "missing", h) \in Nat
        /\ Times(bulk[t], "blob", h) \in Nat /\ Times(w, "start", h) \in Nat /\ One(l.blob = h) \in Nat
    BY <1>1, TimesType DEF One
  <1>6. Answering(s, t, h) = Times(urgent[t], "missing", h) + Times(w, "missing", h)
          + Times(bulk[t], "blob", h) + Times(w, "start", h) + One(l.blob = h)
    BY <1>1 DEF Answering
  <1>7. l.blob = h => One(l.blob = h) = 1
    BY DEF One
  <1>8. ASSUME NEW kind, f.kind = kind, f.hash = h PROVE Times(w, kind, h) >= 1
    <2>1. Times(w, kind, h) = One(f.kind = kind /\ f.hash = h) + Times(Tail(w), kind, h)
      BY <1>2, TimesTail
    <2>2. Times(Tail(w), kind, h) \in Nat
      <3>1. Tail(w) \in Seq(Frames)
        BY <1>2
      <3> QED
        BY <3>1, PlacesAre
    <2> QED
      BY <1>8, <2>1, <2>2 DEF One
  <1>9. l.blob = h => Answering(s, t, h) >= 1
    BY <1>5, <1>6, <1>7
  <1>10. ASSUME f.kind \in {"missing", "start"}, f.hash = h PROVE Answering(s, t, h) >= 1
    <2>1. Times(w, "missing", h) >= 1 \/ Times(w, "start", h) >= 1
      BY <1>8, <1>10
    <2> QED
      BY <1>5, <1>6, <2>1
  <1>11. ASSUME h \in Given(t)
         PROVE  /\ \A i \in 1..l.pages : h \in Delta[t][i] => h \in held[s]
                /\ h \notin l.wanted /\ Asking(s, h) = 0
                /\ f.kind = "updates" /\ h \in f.page => h \in held[s]
                /\ f.kind = "aborted" => f.hash # h
    <2>1. Ahead(h, held[s], l.blob, l.pages, w, bulk[t], Delta[t])
      BY <1>1, <1>2, <1>11 DEF Tidy, Arrives, Early
    <2>2. ASSUME f.kind = "updates", h \in f.page PROVE h \in held[s]
      <3>1. Coming(held[s], l.blob, w, 1 - 1, h)
        BY <1>3, <2>1, <2>2 DEF Ahead
      <3>2. l.blob = NoHash
        BY <2>2 DEF Legal, Heard
      <3>3. h # NoHash /\ ~\E j \in 1..1 - 1 : TRUE
        BY SessionAssumption
      <3> QED
        BY <3>1, <3>2, <3>3 DEF Coming
    <2>3. f.kind = "aborted" => f.hash # h
      BY <1>1, <1>2, <1>3, <1>11 DEF Tidy, Keeps
    <2>4. h \notin l.wanted /\ Asking(s, h) = 0
      BY <1>2, <1>11 DEF Tidy, Asks, Early
    <2> QED
      BY <2>1, <2>2, <2>3, <2>4 DEF Ahead
  <1>12. h \notin Given(t) => Asking(s, h) + Answering(s, t, h) <= One(h \in l.wanted)
    BY <1>2 DEF Tidy, Asks, Early
  <1> QED
    BY <1>4, <1>9, <1>10, <1>11, <1>12

LEMMA TimesEmpty ==
  ASSUME NEW kind, NEW h
  PROVE  Times(<<>>, kind, h) = 0
  <1>1. <<>> \in Seq(Frames) /\ \A i \in 1..Len(<<>>) : ~(<<>>[i].kind = kind /\ <<>>[i].hash = h)
    BY Empty
  <1> QED
    BY <1>1, TimesNone

\* A frame that is not answered.
LEMMA NotedTidy ==
  ASSUME Inv, IInv, NEW s, NEW t, NEW n, NEW f, NEW l, Facing(s, t, n, f, l), NEW k \in Loops,
         k.pc = "exchange", k.stop = "none", k.settled = l.settled, k.pages = l.pages,
         k.wanted \subseteq l.wanted, Handled(s, k, <<>>, <<>>),
         held' \in [Sides -> SUBSET Hashes], held'[t] = held[t], held[s] \subseteq held'[s],
         \A h \in Hashes : l.blob = h => k.blob = h \/ h \in held'[s] \/ (f.kind = "aborted" /\ f.hash = h),
         f.kind = "start" => k.blob = f.hash,
         \A h \in Hashes : One(h \in l.wanted) + One(k.blob = h)
           <= One(h \in k.wanted) + One(f.kind = "missing" /\ f.hash = h)
                + One(f.kind = "start" /\ f.hash = h) + One(l.blob = h)
  PROVE  IInv'
  <1>1. /\ <<>> \in Seq(Frames) /\ <<>> \in Seq(Entries) /\ \A i \in 1..Len(<<>>) : FALSE
    BY Empty
  <1>2. ASSUME NEW h \in Hashes
        PROVE  Times(<<>>, "missing", h) = 0 /\ Times(<<>>, "blob", h) = 0 /\ Times(<<>>, "want", h) = 0
    BY TimesEmpty
  <1>3. ASSUME Steady PROVE Fits(s, t, f, l, k, <<>>, <<>>)
    <2> SUFFICES ASSUME NEW h \in Hashes
                 PROVE  /\ Times(<<>>, "missing", h) + Times(<<>>, "blob", h) <= One(f.kind = "want" /\ f.hash = h)
                        /\ IF h \in Given(t)
                           THEN /\ \A i \in 1..k.pages : h \in Delta[t][i] => h \in held'[s]
                                /\ l.blob = h => k.blob = h \/ h \in held'[s]
                                /\ f.kind = "start" /\ f.hash = h => k.blob = h
                                /\ Times(<<>>, "want", h) = 0 /\ h \notin k.wanted
                           ELSE Times(<<>>, "want", h) + Asking(s, h) + Answering(s, t, h) + One(k.blob = h)
                                  <= One(h \in k.wanted) + One(f.kind = "missing" /\ f.hash = h)
                                       + One(f.kind = "start" /\ f.hash = h) + One(l.blob = h)
      BY DEF Fits
    <2>1. Times(<<>>, "missing", h) = 0 /\ Times(<<>>, "blob", h) = 0 /\ Times(<<>>, "want", h) = 0
      BY <1>2
    <2>2. 0 + 0 <= One(f.kind = "want" /\ f.hash = h)
      BY DEF One
    <2>3. ASSUME h \in Given(t)
          PROVE  /\ \A i \in 1..k.pages : h \in Delta[t][i] => h \in held'[s]
                 /\ l.blob = h => k.blob = h \/ h \in held'[s]
                 /\ f.kind = "start" /\ f.hash = h => k.blob = h
                 /\ h \notin k.wanted
      BY <1>3, <2>3, FacingTidy
    <2>4. ASSUME h \notin Given(t)
          PROVE  0 + Asking(s, h) + Answering(s, t, h) + One(k.blob = h)
                   <= One(h \in k.wanted) + One(f.kind = "missing" /\ f.hash = h)
                        + One(f.kind = "start" /\ f.hash = h) + One(l.blob = h)
      <3>1. PICK a, b, c, d, e : /\ a = Asking(s, h) /\ b = Answering(s, t, h) /\ c = One(k.blob = h)
                                 /\ d = One(h \in l.wanted)
                                 /\ e = One(h \in k.wanted) + One(f.kind = "missing" /\ f.hash = h)
                                          + One(f.kind = "start" /\ f.hash = h) + One(l.blob = h)
        OBVIOUS
      <3>2. a + b <= d /\ a \in Nat /\ b \in Nat
        BY <1>3, <2>4, <3>1, FacingTidy
      <3>3. d + c <= e /\ c \in Nat /\ d \in Nat
        BY <3>1 DEF One
      <3>4. e \in Nat
        BY <3>1 DEF One
      <3>5. 0 + a + b + c <= e
        BY <3>2, <3>3, <3>4
      <3> QED
        BY <3>1, <3>5
    <2> QED
      BY <2>1, <2>2, <2>3, <2>4
  <1> QED
    BY <1>1, <1>3, ReplyTidy

\* s asks for what the frame needs.
LEMMA AskedTidy ==
  ASSUME Inv, IInv, NEW s, NEW t, NEW n, NEW f, NEW l, Facing(s, t, n, f, l), NEW k \in Loops,
         k.pc = "exchange", k.stop = "none", k.settled = l.settled, k.blob = l.blob,
         NEW asked \in SUBSET Hashes, k.wanted = l.wanted \cup asked, asked \cap l.wanted = {},
         Handled(s, k, Wants(asked), <<>>), held' = held, f.kind \in {"updates", "done"},
         Steady => \A h \in Given(t) :
                     h \notin asked /\ \A i \in 1..k.pages : h \in Delta[t][i] => h \in held[s]
  PROVE  IInv'
  <1>1. /\ <<>> \in Seq(Entries) /\ (\A i \in 1..Len(<<>>) : FALSE)
        /\ Wants(asked) \in Seq(Frames) /\ \A i \in 1..Len(Wants(asked)) : Wants(asked)[i].kind = "want"
    BY Empty, WantsAre
  <1>2. ASSUME NEW h
        PROVE  /\ Times(<<>>, "blob", h) = 0 /\ Times(Wants(asked), "missing", h) = 0
               /\ Times(Wants(asked), "want", h) <= One(h \in asked) /\ Times(Wants(asked), "want", h) \in Nat
    BY <1>1, TimesNone, TimesWants, PlacesAre
  <1>3. ASSUME Steady PROVE Fits(s, t, f, l, k, Wants(asked), <<>>)
    <2> SUFFICES ASSUME NEW h \in Hashes
                 PROVE  /\ Times(Wants(asked), "missing", h) + Times(<<>>, "blob", h) <= One(f.kind = "want" /\ f.hash = h)
                        /\ IF h \in Given(t)
                           THEN /\ \A i \in 1..k.pages : h \in Delta[t][i] => h \in held'[s]
                                /\ l.blob = h => k.blob = h \/ h \in held'[s]
                                /\ f.kind = "start" /\ f.hash = h => k.blob = h
                                /\ Times(Wants(asked), "want", h) = 0 /\ h \notin k.wanted
                           ELSE Times(Wants(asked), "want", h) + Asking(s, h) + Answering(s, t, h) + One(k.blob = h)
                                  <= One(h \in k.wanted) + One(f.kind = "missing" /\ f.hash = h)
                                       + One(f.kind = "start" /\ f.hash = h) + One(l.blob = h)
      BY DEF Fits
    <2>1. /\ Times(<<>>, "blob", h) = 0 /\ Times(Wants(asked), "missing", h) = 0
          /\ Times(Wants(asked), "want", h) <= One(h \in asked) /\ Times(Wants(asked), "want", h) \in Nat
      BY <1>2
    <2>2. 0 + 0 <= One(f.kind = "want" /\ f.hash = h)
      BY DEF One
    <2>3. ASSUME h \in Given(t)
          PROVE  /\ \A i \in 1..k.pages : h \in Delta[t][i] => h \in held'[s]
                 /\ Times(Wants(asked), "want", h) = 0 /\ h \notin k.wanted
      <3>1. h \notin asked /\ \A i \in 1..k.pages : h \in Delta[t][i] => h \in held[s]
        BY <1>3, <2>3
      <3>2. h \notin l.wanted
        BY <1>3, <2>3, FacingTidy
      <3>3. One(h \in asked) = 0
        BY <3>1 DEF One
      <3> QED
        BY <2>1, <3>1, <3>2, <3>3
    <2>4. ASSUME h \notin Given(t)
          PROVE  Times(Wants(asked), "want", h) + Asking(s, h) + Answering(s, t, h) + One(k.blob = h)
                   <= One(h \in k.wanted) + One(f.kind = "missing" /\ f.hash = h)
                        + One(f.kind = "start" /\ f.hash = h) + One(l.blob = h)
      <3>1. PICK a, b, c, d, e, x, y :
              /\ a = Asking(s, h) /\ b = Answering(s, t, h) /\ c = One(l.blob = h)
              /\ d = One(h \in l.wanted) /\ e = One(h \in asked) /\ x = Times(Wants(asked), "want", h)
              /\ y = One(h \in k.wanted)
        OBVIOUS
      <3>2. a + b <= d /\ a \in Nat /\ b \in Nat
        BY <1>3, <2>4, <3>1, FacingTidy
      <3>3. d + e = y /\ c \in Nat /\ d \in Nat /\ e \in Nat
        BY <3>1 DEF One
      <3>4. One(f.kind = "missing" /\ f.hash = h) = 0 /\ One(f.kind = "start" /\ f.hash = h) = 0
        BY DEF One
      <3>5. x <= e /\ x \in Nat
        BY <2>1, <3>1
      <3>6. x + a + b + c <= y + 0 + 0 + c
        BY <3>2, <3>3, <3>5
      <3> QED
        BY <3>1, <3>4, <3>6
    <2> QED
      BY <2>1, <2>2, <2>3, <2>4
  <1>4. held' \in [Sides -> SUBSET Hashes] /\ held'[t] = held[t] /\ held[s] \subseteq held'[s]
    BY DEF Facing
  <1> QED
    BY <1>1, <1>3, <1>4, ReplyTidy

LEMMA ReadUpdatesTidy ==
  ASSUME Inv, IInv, NEW s \in Sides, ReadUpdates(s)
  PROVE  IInv'
  <1>1. Reads(s, "updates")
    BY DEF ReadUpdates
  <1>2. PICK t, n, f, l : Facing(s, t, n, f, l) /\ f.kind = "updates"
    BY <1>1, InExchange
  <1>3. f.page \in SUBSET Hashes
    BY <1>2, FrameFacts DEF Facing
  <1>4. l.pages \in Nat /\ ~l.peerDone /\ f.page = Delta[t][l.pages + 1]
    BY <1>2 DEF Legal, Heard, Loops, Facing
  <1>5. PICK asked, k, p, w : /\ asked = (f.page \ held[s]) \ l.wanted /\ p = l.pages + 1 /\ w = l.wanted \cup asked
                              /\ k = [l EXCEPT !.pages = p, !.wanted = w]
    OBVIOUS
  <1>6. Handled(s, k, Wants(asked), <<>>) /\ held' = held
    BY <1>2, <1>5 DEF ReadUpdates, Incoming, Facing
  <1>7. asked \in SUBSET Hashes /\ w \in SUBSET Hashes /\ p \in Nat /\ asked \cap l.wanted = {}
    BY <1>2, <1>3, <1>4, <1>5 DEF Loops, Facing
  <1>8. /\ k \in Loops /\ k.pc = "exchange" /\ k.stop = "none" /\ k.settled = l.settled
        /\ k.pages = l.pages + 1 /\ k.wanted = l.wanted \cup asked /\ k.blob = l.blob
    <2>1. l \in Loops /\ l.pc = "exchange" /\ l.stop = "none"
      BY <1>2 DEF Facing
    <2>2. k \in Loops
      BY <1>5, <1>7, <2>1 DEF Loops
    <2>3. /\ k.pc = l.pc /\ k.stop = l.stop /\ k.settled = l.settled /\ k.blob = l.blob
          /\ k.pages = p /\ k.wanted = w
      BY <1>5, <2>1 DEF Loops
    <2> QED
      BY <1>5, <2>1, <2>2, <2>3
  <1>9. ASSUME Steady, NEW h \in Given(t)
        PROVE  h \notin asked /\ \A i \in 1..k.pages : h \in Delta[t][i] => h \in held[s]
    <2>1. h \in Hashes
      BY GivenAre
    <2>2. (h \in f.page => h \in held[s]) /\ \A i \in 1..l.pages : h \in Delta[t][i] => h \in held[s]
      BY <1>2, <1>9, <2>1, FacingTidy
    <2>3. \A i \in 1..k.pages : i \in 1..l.pages \/ i = l.pages + 1
      BY <1>4, <1>8
    <2> QED
      BY <1>4, <1>5, <2>2, <2>3
  <1> QED
    BY <1>2, <1>6, <1>7, <1>8, <1>9, AskedTidy

LEMMA ReadDoneTidy ==
  ASSUME Inv, IInv, NEW s \in Sides, ReadDone(s)
  PROVE  IInv'
  <1>1. Reads(s, "done")
    BY DEF ReadDone
  <1>2. PICK t, n, f, l : Facing(s, t, n, f, l) /\ f.kind = "done"
    BY <1>1, InExchange
  <1>3. l.pages \in Nat /\ l.pages = Len(Delta[t])
    BY <1>2 DEF Legal, Heard, Loops, Facing
  <1>4. PICK asked, k, w : /\ asked = ((Owed[s] \ held[s]) \ l.lacked) \ l.wanted /\ w = l.wanted \cup asked
                           /\ k = [l EXCEPT !.peerDone = TRUE, !.wanted = w]
    OBVIOUS
  <1>5. Handled(s, k, Wants(asked), <<>>) /\ held' = held
    BY <1>2, <1>4 DEF ReadDone, Facing
  <1>6. asked \in SUBSET Hashes /\ w \in SUBSET Hashes /\ asked \cap l.wanted = {}
    BY <1>2, <1>4, SessionAssumption DEF Loops, Facing
  <1>7. /\ k \in Loops /\ k.pc = "exchange" /\ k.stop = "none" /\ k.settled = l.settled
        /\ k.pages = l.pages /\ k.wanted = l.wanted \cup asked /\ k.blob = l.blob
    <2>1. l \in Loops /\ l.pc = "exchange" /\ l.stop = "none"
      BY <1>2 DEF Facing
    <2>2. k \in Loops
      BY <1>4, <1>6, <2>1 DEF Loops
    <2>3. /\ k.pc = l.pc /\ k.stop = l.stop /\ k.settled = l.settled /\ k.pages = l.pages
          /\ k.blob = l.blob /\ k.wanted = w
      BY <1>4, <2>1 DEF Loops
    <2> QED
      BY <1>4, <2>1, <2>2, <2>3
  <1>8. ASSUME Steady, NEW h \in Given(t)
        PROVE  h \notin asked /\ \A i \in 1..k.pages : h \in Delta[t][i] => h \in held[s]
    <2>1. h \in Hashes /\ \E i \in 1..Len(Delta[t]) : h \in Delta[t][i]
      BY GivenAre DEF Given
    <2>2. \A i \in 1..l.pages : h \in Delta[t][i] => h \in held[s]
      BY <1>2, <1>8, <2>1, FacingTidy
    <2> QED
      BY <1>3, <1>4, <1>7, <2>1, <2>2
  <1> QED
    BY <1>2, <1>5, <1>6, <1>7, <1>8, AskedTidy

LEMMA ReadSettledTidy ==
  ASSUME Inv, IInv, NEW s \in Sides, ReadSettled(s)
  PROVE  IInv'
  <1>1. Reads(s, "settled")
    BY DEF ReadSettled
  <1>2. PICK t, n, f, l : Facing(s, t, n, f, l) /\ f.kind = "settled"
    BY <1>1, InExchange
  <1>3. PICK k : k = [l EXCEPT !.peerSettled = TRUE]
    OBVIOUS
  <1>4. /\ k \in Loops /\ k.pc = "exchange" /\ k.stop = "none" /\ k.settled = l.settled
        /\ k.pages = l.pages /\ k.wanted = l.wanted /\ k.blob = l.blob
    BY <1>2, <1>3 DEF Loops, Facing
  <1>5. Handled(s, k, <<>>, <<>>) /\ held' = held
    BY <1>2, <1>3 DEF ReadSettled, Facing
  <1>6. held' \in [Sides -> SUBSET Hashes] /\ held[s] \subseteq held'[s] /\ held'[t] = held[t]
    BY <1>2, <1>5 DEF Facing
  <1>7. \A h \in Hashes : One(h \in l.wanted) + One(k.blob = h)
          <= One(h \in k.wanted) + One(f.kind = "missing" /\ f.hash = h)
               + One(f.kind = "start" /\ f.hash = h) + One(l.blob = h)
    BY <1>4 DEF One
  <1> QED
    BY <1>2, <1>4, <1>5, <1>6, <1>7, NotedTidy

\* What a want is answered with.
LEMMA AnswersAre ==
  ASSUME NEW s, NEW g \in Hashes, NEW controls, controls = Denials(s, g), NEW entries, entries = Answers(s, g)
  PROVE  /\ controls \in Seq(Frames) /\ entries \in Seq(Entries)
         /\ \A i \in 1..Len(controls) : controls[i].kind = "missing"
         /\ \A i \in 1..Len(entries) : entries[i].kind = "blob"
         /\ \A h \in Hashes : /\ Times(controls, "missing", h) + Times(entries, "blob", h) <= One(g = h)
                              /\ Times(controls, "want", h) = 0
  <1>1. /\ Missing(g) \in Frames /\ Missing(g).kind = "missing" /\ Missing(g).hash = g
        /\ Blob(g) \in Entries /\ Blob(g).kind = "blob" /\ Blob(g).hash = g
    BY FramesAre, EntriesAre DEF Missing, Blob
  <1>2. /\ controls \in Seq(Frames) /\ entries \in Seq(Entries)
        /\ \A i \in 1..Len(controls) : controls[i].kind = "missing"
        /\ \A i \in 1..Len(entries) : entries[i].kind = "blob"
    BY <1>1 DEF Answers, Denials
  <1>3. ASSUME NEW h \in Hashes
        PROVE  /\ Times(controls, "missing", h) + Times(entries, "blob", h) <= One(g = h)
               /\ Times(controls, "want", h) = 0
    <2>1. Times(controls, "want", h) = 0
      BY <1>2, TimesNone
    <2>2. Times(<<Missing(g)>>, "missing", h) = One(g = h) /\ Times(<<Blob(g)>>, "blob", h) = One(g = h)
      <3>1. PICK a, b : a = Missing(g) /\ b = Blob(g)
        OBVIOUS
      <3>2. /\ Times(<<a>>, "missing", h) = One(a.kind = "missing" /\ a.hash = h)
            /\ Times(<<b>>, "blob", h) = One(b.kind = "blob" /\ b.hash = h)
        BY <1>1, <3>1, TimesOne
      <3>3. (a.kind = "missing" /\ a.hash = h <=> g = h) /\ (b.kind = "blob" /\ b.hash = h <=> g = h)
        BY <1>1, <3>1
      <3> QED
        BY <3>1, <3>2, <3>3 DEF One
    <2>3. \A kind : Times(<<>>, kind, h) = 0
      BY Empty, TimesNone
    <2>4. One(g = h) \in Nat
      BY DEF One
    <2>5. CASE g \in held[s]
      <3>1. controls = <<>> /\ entries = <<Blob(g)>>
        BY <2>5 DEF Answers, Denials
      <3> QED
        BY <2>1, <2>2, <2>3, <2>4, <3>1
    <2>6. CASE g \notin held[s]
      <3>1. entries = <<>> /\ controls = <<Missing(g)>>
        BY <2>6 DEF Answers, Denials
      <3> QED
        BY <2>1, <2>2, <2>3, <2>4, <3>1
    <2> QED
      BY <2>5, <2>6
  <1> QED
    BY <1>2, <1>3

LEMMA ReadWantTidy ==
  ASSUME Inv, IInv, NEW s \in Sides, ReadWant(s)
  PROVE  IInv'
  <1>1. Reads(s, "want")
    BY DEF ReadWant, Incoming
  <1>2. PICK t, n, f, l : Facing(s, t, n, f, l) /\ f.kind = "want"
    BY <1>1, InExchange
  <1>3. PICK g, controls, entries : g = f.hash /\ controls = Denials(s, g) /\ entries = Answers(s, g)
    OBVIOUS
  <1>4. Handled(s, l, controls, entries) /\ held' = held
    BY <1>2, <1>3 DEF ReadWant, Incoming, Facing
  <1>5. g \in Hashes
    BY <1>2, <1>3, FrameFacts DEF Facing
  <1>6. /\ controls \in Seq(Frames) /\ entries \in Seq(Entries)
        /\ \A i \in 1..Len(controls) : controls[i].kind = "missing"
        /\ \A i \in 1..Len(entries) : entries[i].kind = "blob"
        /\ \A h \in Hashes : /\ Times(controls, "missing", h) + Times(entries, "blob", h) <= One(g = h)
                             /\ Times(controls, "want", h) = 0
    BY <1>3, <1>5, AnswersAre
  <1>7. \A i \in 1..Len(controls) : controls[i].kind \in {"want", "missing"}
    BY <1>6
  <1>8. ASSUME Steady PROVE Fits(s, t, f, l, l, controls, entries)
    <2> SUFFICES ASSUME NEW h \in Hashes
                 PROVE  /\ Times(controls, "missing", h) + Times(entries, "blob", h) <= One(f.kind = "want" /\ f.hash = h)
                        /\ IF h \in Given(t)
                           THEN /\ \A i \in 1..l.pages : h \in Delta[t][i] => h \in held'[s]
                                /\ l.blob = h => l.blob = h \/ h \in held'[s]
                                /\ f.kind = "start" /\ f.hash = h => l.blob = h
                                /\ Times(controls, "want", h) = 0 /\ h \notin l.wanted
                           ELSE Times(controls, "want", h) + Asking(s, h) + Answering(s, t, h) + One(l.blob = h)
                                  <= One(h \in l.wanted) + One(f.kind = "missing" /\ f.hash = h)
                                       + One(f.kind = "start" /\ f.hash = h) + One(l.blob = h)
      BY DEF Fits
    <2>1. /\ Times(controls, "missing", h) + Times(entries, "blob", h) <= One(g = h)
          /\ Times(controls, "want", h) = 0
      BY <1>6
    <2>2. One(f.kind = "want" /\ f.hash = h) = One(g = h)
      BY <1>2, <1>3 DEF One
    <2>3. h \in Given(t) => h \notin l.wanted /\ \A i \in 1..l.pages : h \in Delta[t][i] => h \in held[s]
      BY <1>2, <1>8, FacingTidy
    <2>4. ASSUME h \notin Given(t)
          PROVE  0 + Asking(s, h) + Answering(s, t, h) + One(l.blob = h)
                   <= One(h \in l.wanted) + One(f.kind = "missing" /\ f.hash = h)
                        + One(f.kind = "start" /\ f.hash = h) + One(l.blob = h)
      <3>1. PICK a, b, c, d : /\ a = Asking(s, h) /\ b = Answering(s, t, h) /\ c = One(l.blob = h)
                              /\ d = One(h \in l.wanted)
        OBVIOUS
      <3>2. a + b <= d /\ a \in Nat /\ b \in Nat
        BY <1>2, <1>8, <2>4, <3>1, FacingTidy
      <3>3. c \in Nat /\ d \in Nat
        BY <3>1 DEF One
      <3>4. One(f.kind = "missing" /\ f.hash = h) = 0 /\ One(f.kind = "start" /\ f.hash = h) = 0
        BY <1>2 DEF One
      <3>5. 0 + a + b + c <= d + 0 + 0 + c
        BY <3>2, <3>3
      <3> QED
        BY <3>1, <3>4, <3>5
    <2> QED
      BY <1>2, <1>4, <2>1, <2>2, <2>3, <2>4
  <1>9. /\ held' \in [Sides -> SUBSET Hashes] /\ held[s] \subseteq held'[s] /\ held'[t] = held[t]
         /\ l \in Loops /\ l.pc = "exchange" /\ l.stop = "none"
    BY <1>2, <1>4 DEF Facing
  <1> QED
    BY <1>2, <1>4, <1>6, <1>7, <1>8, <1>9, ReplyTidy

LEMMA ReadMissingTidy ==
  ASSUME Inv, IInv, NEW s \in Sides, ReadMissing(s)
  PROVE  IInv'
  <1>1. Reads(s, "missing")
    BY DEF ReadMissing
  <1>2. PICK t, n, f, l : Facing(s, t, n, f, l) /\ f.kind = "missing"
    BY <1>1, InExchange
  <1>3. PICK g, k : g = f.hash /\ k = [l EXCEPT !.wanted = @ \ {g}, !.lacked = @ \cup {g}]
    OBVIOUS
  <1>4. g \in Hashes
    BY <1>2, <1>3, FrameFacts DEF Facing
  <1>5. /\ k \in Loops /\ k.pc = "exchange" /\ k.stop = "none" /\ k.settled = l.settled
        /\ k.pages = l.pages /\ k.wanted = l.wanted \ {g} /\ k.blob = l.blob
    <2>1. l \in Loops /\ l.pc = "exchange" /\ l.stop = "none"
      BY <1>2 DEF Facing
    <2>2. k \in Loops
      BY <1>3, <1>4, <2>1 DEF Loops
    <2>3. /\ k.pc = l.pc /\ k.stop = l.stop /\ k.settled = l.settled /\ k.pages = l.pages
          /\ k.blob = l.blob /\ k.wanted = l.wanted \ {g}
      BY <1>3, <2>1 DEF Loops
    <2> QED
      BY <2>1, <2>2, <2>3
  <1>6. Handled(s, k, <<>>, <<>>) /\ held' = held
    BY <1>2, <1>3 DEF ReadMissing, Facing, Incoming
  <1>7. held' \in [Sides -> SUBSET Hashes] /\ held[s] \subseteq held'[s] /\ held'[t] = held[t]
    BY <1>2, <1>6 DEF Facing
  <1>8. \A h \in Hashes : One(h \in l.wanted) + One(k.blob = h)
          <= One(h \in k.wanted) + One(f.kind = "missing" /\ f.hash = h)
               + One(f.kind = "start" /\ f.hash = h) + One(l.blob = h)
    BY <1>2, <1>3, <1>5 DEF One
  <1> QED
    BY <1>2, <1>5, <1>6, <1>7, <1>8, NotedTidy

LEMMA ReadAbortedTidy ==
  ASSUME Inv, IInv, NEW s \in Sides, ReadAborted(s)
  PROVE  IInv'
  <1>1. Reads(s, "aborted")
    BY DEF ReadAborted
  <1>2. PICK t, n, f, l : Facing(s, t, n, f, l) /\ f.kind = "aborted"
    BY <1>1, InExchange
  <1>3. PICK g, k : g = l.blob /\ k = [l EXCEPT !.wanted = @ \ {g}, !.lacked = @ \cup {g}, !.blob = NoHash]
    OBVIOUS
  <1>4. g \in Hashes /\ f.hash = g
    BY <1>2, <1>3, FrameFacts DEF Facing, ReadAborted, Incoming
  <1>5. /\ k \in Loops /\ k.pc = "exchange" /\ k.stop = "none" /\ k.settled = l.settled
        /\ k.pages = l.pages /\ k.wanted = l.wanted \ {g} /\ k.blob = NoHash
    BY <1>2, <1>3, <1>4 DEF Loops, Facing
  <1>6. Handled(s, k, <<>>, <<>>) /\ held' = held
    BY <1>2, <1>3 DEF ReadAborted, Facing
  <1>7. held' \in [Sides -> SUBSET Hashes] /\ held[s] \subseteq held'[s] /\ held'[t] = held[t]
    BY <1>2, <1>6 DEF Facing
  <1>8. \A h \in Hashes : One(h \in l.wanted) + One(k.blob = h)
          <= One(h \in k.wanted) + One(f.kind = "missing" /\ f.hash = h)
               + One(f.kind = "start" /\ f.hash = h) + One(l.blob = h)
    BY <1>3, <1>5, SessionAssumption DEF One
  <1>9. \A h \in Hashes : l.blob = h => f.kind = "aborted" /\ f.hash = h
    BY <1>2, <1>3, <1>4
  <1>10. f.kind # "start"
    BY <1>2
  <1> QED
    BY <1>2, <1>5, <1>6, <1>7, <1>8, <1>9, <1>10, NotedTidy

LEMMA ReadBlobTidy ==
  ASSUME Inv, IInv, NEW s \in Sides, ReadBlobStart(s) \/ ReadBlobChunk(s) \/ ReadBlobEnd(s)
  PROVE  IInv'
  <1>1. CASE ReadBlobStart(s)
    <2>1. Reads(s, "start")
      BY <1>1 DEF ReadBlobStart
    <2>2. PICK t, n, f, l : Facing(s, t, n, f, l) /\ f.kind = "start"
      BY <2>1, InExchange
    <2>3. PICK k : k = [l EXCEPT !.blob = f.hash]
      OBVIOUS
    <2>4. f.hash \in Hashes /\ l.blob = NoHash
      BY <1>1, <2>2, FrameFacts DEF Facing, ReadBlobStart
    <2>5. /\ k \in Loops /\ k.pc = "exchange" /\ k.stop = "none" /\ k.settled = l.settled
          /\ k.pages = l.pages /\ k.wanted = l.wanted /\ k.blob = f.hash
      BY <2>2, <2>3, <2>4 DEF Loops, Facing
    <2>6. Handled(s, k, <<>>, <<>>) /\ held' = held
      BY <1>1, <2>2, <2>3 DEF ReadBlobStart, Facing, Incoming
    <2>7. held' \in [Sides -> SUBSET Hashes] /\ held[s] \subseteq held'[s] /\ held'[t] = held[t]
      BY <2>2, <2>6 DEF Facing
    <2>8. \A h \in Hashes : One(h \in l.wanted) + One(k.blob = h)
            <= One(h \in k.wanted) + One(f.kind = "missing" /\ f.hash = h)
                 + One(f.kind = "start" /\ f.hash = h) + One(l.blob = h)
      BY <2>2, <2>5 DEF One
    <2>9. \A h \in Hashes : l.blob # h
      BY <2>4, SessionAssumption
    <2> QED
      BY <2>2, <2>5, <2>6, <2>7, <2>8, <2>9, NotedTidy
  <1>2. CASE ReadBlobChunk(s)
    <2>1. Reads(s, "chunk")
      BY <1>2 DEF ReadBlobChunk
    <2>2. PICK t, n, f, l : Facing(s, t, n, f, l) /\ f.kind = "chunk"
      BY <2>1, InExchange
    <2>3. Handled(s, l, <<>>, <<>>) /\ held' = held
      BY <1>2, <2>2 DEF ReadBlobChunk, Facing
    <2>4. /\ held' \in [Sides -> SUBSET Hashes] /\ held[s] \subseteq held'[s] /\ held'[t] = held[t]
          /\ l \in Loops /\ l.pc = "exchange" /\ l.stop = "none"
      BY <2>2, <2>3 DEF Facing
    <2>5. \A h \in Hashes : One(h \in l.wanted) + One(l.blob = h)
            <= One(h \in l.wanted) + One(f.kind = "missing" /\ f.hash = h)
                 + One(f.kind = "start" /\ f.hash = h) + One(l.blob = h)
      BY DEF One
    <2> QED
      BY <2>2, <2>3, <2>4, <2>5, NotedTidy
  <1>3. CASE ReadBlobEnd(s)
    <2>1. Reads(s, "end")
      BY <1>3 DEF ReadBlobEnd
    <2>2. PICK t, n, f, l : Facing(s, t, n, f, l) /\ f.kind = "end"
      BY <2>1, InExchange
    <2>3. PICK g, k : g = l.blob /\ k = [l EXCEPT !.wanted = @ \ {g}, !.blob = NoHash]
      OBVIOUS
    <2>4. g \in Hashes
      BY <1>3, <2>2, <2>3 DEF ReadBlobEnd, Facing, Loops
    <2>5. /\ k \in Loops /\ k.pc = "exchange" /\ k.stop = "none" /\ k.settled = l.settled
          /\ k.pages = l.pages /\ k.wanted = l.wanted \ {g} /\ k.blob = NoHash
      BY <2>2, <2>3, <2>4 DEF Loops, Facing
    <2>6. Handled(s, k, <<>>, <<>>) /\ held' = [held EXCEPT ![s] = @ \cup {g}]
      BY <1>3, <2>2, <2>3 DEF ReadBlobEnd, Facing
    <2>7. /\ held' \in [Sides -> SUBSET Hashes] /\ held[s] \subseteq held'[s] /\ held'[t] = held[t]
          /\ g \in held'[s]
      BY <2>2, <2>4, <2>6 DEF Facing
    <2>8. \A h \in Hashes : One(h \in l.wanted) + One(k.blob = h)
            <= One(h \in k.wanted) + One(f.kind = "missing" /\ f.hash = h)
                 + One(f.kind = "start" /\ f.hash = h) + One(l.blob = h)
      BY <2>3, <2>5, SessionAssumption DEF One
    <2>9. \A h \in Hashes : l.blob = h => k.blob = h \/ h \in held'[s] \/ (f.kind = "aborted" /\ f.hash = h)
      BY <2>3, <2>7
    <2>10. (f.kind = "start" => k.blob = f.hash) /\ k.wanted \subseteq l.wanted /\ Handled(s, k, <<>>, <<>>)
      BY <2>2, <2>5, <2>6
    <2>11. held' \in [Sides -> SUBSET Hashes] /\ held[s] \subseteq held'[s] /\ held'[t] = held[t]
      BY <2>7
    <2> QED
      BY <2>2, <2>5, <2>8, <2>9, <2>10, <2>11, NotedTidy
  <1> QED
    BY <1>1, <1>2, <1>3

-----------------------------------------------------------------------------
\* Before and after the exchange, and live.

\* What is nowhere in a queue is not counted in it, and the other way round.
LEMMA TimesSays ==
  ASSUME NEW T, NEW q \in Seq(T), NEW kind, Says(q, kind),
         \A i \in 1..Len(q) : q[i].kind = kind => q[i].hash \in Hashes
  PROVE  \E h \in Hashes : Times(q, kind, h) >= 1
  <1>1. PICK i \in 1..Len(q) : q[i].kind = kind
    BY DEF Says
  <1>2. PICK h \in Hashes : q[i].hash = h
    BY <1>1
  <1>3. i \in Places(q, kind, h)
    BY <1>1, <1>2 DEF Places
  <1>4. Times(q, kind, h) # 0 /\ Times(q, kind, h) \in Nat
    BY <1>3, PlacesAre, FS_EmptySet
  <1> QED
    BY <1>4

\* A side that wants nothing asks for nothing.
LEMMA WantsNothing ==
  ASSUME Inv, IInv, Steady, NEW s, NEW t, Pair(s, t), Early(s), loop[s].wanted = {}
  PROVE  ~SaysOn(s, "want")
  <1>1. /\ Tidy(s, t) /\ Typed /\ s \in Sides
    BY BothTidy
  <1>2. ASSUME NEW q \in Seq(Frames), Says(q, "want") PROVE \E h \in Hashes : Times(q, "want", h) >= 1
    <2>1. \A i \in 1..Len(q) : q[i].kind = "want" => q[i].hash \in Hashes
      BY FrameFacts
    <2> QED
      BY <1>2, <2>1, TimesSays
  <1>3. ASSUME NEW h \in Hashes PROVE Times(urgent[s], "want", h) = 0 /\ Times(wire[s], "want", h) = 0
    <2>1. IF h \in Given(t) THEN Asking(s, h) = 0
          ELSE Asking(s, h) + Answering(s, t, h) <= One(h \in loop[s].wanted)
      BY <1>1 DEF Tidy, Asks
    <2>2. One(h \in loop[s].wanted) = 0
      BY DEF One
    <2>3. Asking(s, h) \in Nat /\ Answering(s, t, h) \in Nat
      BY <1>1, AskingType
    <2>4. Asking(s, h) = 0
      BY <2>1, <2>2, <2>3
    <2>5. /\ Asking(s, h) = Times(urgent[s], "want", h) + Times(wire[s], "want", h)
          /\ Times(urgent[s], "want", h) \in Nat /\ Times(wire[s], "want", h) \in Nat
      BY <1>1, TimesType DEF Asking
    <2> QED
      BY <2>4, <2>5
  <1>4. PICK u, w : u = urgent[s] /\ w = wire[s]
    OBVIOUS
  <1>5. u \in Seq(Frames) /\ w \in Seq(Frames)
    BY <1>1, <1>4 DEF Typed
  <1>6. ~Says(u, "want") /\ ~Says(w, "want")
    <2>1. \A h \in Hashes : ~(Times(u, "want", h) >= 1) /\ ~(Times(w, "want", h) >= 1)
      BY <1>3, <1>4
    <2> QED
      BY <1>2, <1>5, <2>1
  <1> QED
    BY <1>4, <1>6 DEF SaysOn

\* A turn of s that reads nothing, or a frame no one counts, sends nothing, and leaves the
\* exchange or is outside it.
LEMMA LeavesTidy ==
  ASSUME Inv, IInv, NEW s, NEW t, Pair(s, t), NEW l \in Loops, NEW controls \in Seq(Frames),
         NEW entries \in Seq(Entries), loop' = [loop EXCEPT ![s] = l], Send(s, controls, entries),
         \A i \in 1..Len(controls) : controls[i].kind \in Kinds,
         \A i \in 1..Len(entries) : entries[i].kind = "blob",
         wire' = wire \/ (wire[t] # <<>> /\ Took(s)),
         held' \in [Sides -> SUBSET Hashes], held'[t] = held[t], held[s] \subseteq held'[s],
         UNCHANGED <<compatible, sending, open, lost, failures>>,
         l.stop = "complete", l.pc \notin {"hello", "exchange", "over"},
         Steady /\ Early(t) =>
           /\ ~SaysOn(s, "want") /\ ~Says(controls, "want")
           /\ \A h \in Hashes :
                Times(controls, "missing", h) + Times(entries, "blob", h) + Times(wire'[t], "want", h)
                  <= Times(wire[t], "want", h)
  PROVE  IInv'
  <1>1. Move(s, t, l, controls, entries)
    BY DEF Move
  <1>2. Steady => Sends(s, t, l, controls, entries) /\ Receives(s, t, l, controls)
    BY DEF Sends, Receives
  <1> QED
    BY <1>1, <1>2, MoveTidy

LEMMA CommitTidy ==
  ASSUME Inv, IInv, NEW s \in Sides, Commit(s)
  PROVE  IInv'
  <1>1. PICK t : t = Peer(s)
    OBVIOUS
  <1>2. Pair(s, t) /\ Typed /\ loop[s] \in Loops /\ t \in Sides
    BY <1>1, PairOf, BothTidy
  <1>3. PICK l : l = [loop[s] EXCEPT !.stop = "complete", !.pc = IF s \in once THEN "closing" ELSE "live"]
    OBVIOUS
  <1>4. l \in Loops /\ l.stop = "complete" /\ l.pc \in {"live", "closing"}
    BY <1>2, <1>3 DEF Loops
  <1>5. /\ loop' = [loop EXCEPT ![s] = l] /\ UNCHANGED <<compatible, queues, held, lost, failures>>
        /\ loop[s].pc = "exchange" /\ loop[s].wanted = {}
    BY <1>2, <1>3 DEF Commit, Typed, Complete
  <1>6. Send(s, <<>>, <<>>) /\ UNCHANGED <<sending, open, wire>>
    BY <1>2, <1>5, SendNothing DEF queues
  <1>7. held' \in [Sides -> SUBSET Hashes] /\ held'[t] = held[t] /\ held[s] \subseteq held'[s]
    BY <1>2, <1>5 DEF Typed
  <1>8. Steady => ~SaysOn(s, "want")
    BY <1>2, <1>5, WantsNothing DEF Early
  <1>9. ASSUME NEW h \in Hashes
        PROVE  Times(<<>>, "missing", h) + Times(<<>>, "blob", h) + Times(wire'[t], "want", h)
                 <= Times(wire[t], "want", h)
    <2>1. Times(<<>>, "missing", h) = 0 /\ Times(<<>>, "blob", h) = 0
      BY Empty, TimesNone
    <2>2. wire'[t] = wire[t] /\ Times(wire[t], "want", h) \in Nat
      BY <1>2, <1>6, TimesType
    <2> QED
      BY <2>1, <2>2
  <1> QED
    BY <1>2, <1>4, <1>5, <1>6, <1>7, <1>8, <1>9, Empty, LeavesTidy

\* A step after which something has failed.
LEMMA FailedTidy ==
  ASSUME NEW s, NEW t, Pair(s, t), failures' # 0, Ends(s)', Ends(t)'
  PROVE  IInv'
  BY TidyAfter DEF Steady

LEMMA ReadHelloTidy ==
  ASSUME Inv, IInv, NEW s \in Sides, ReadHello(s)
  PROVE  IInv'
  <1>1. PICK t, w, d, g : t = Peer(s) /\ w = wire[t] /\ d = Delta[s] /\ g = held[s]
    OBVIOUS
  <1>2. /\ Pair(s, t) /\ Of(s, t) /\ Typed /\ t \in Sides /\ s # t /\ loop[s] \in Loops
        /\ d \in Seq(SUBSET Hashes) /\ Len(d) \in Nat /\ w \in Seq(Frames)
    BY <1>1, Both DEF Pair, Typed
  <1>3. /\ loop[s] = NewLoop /\ wire[t] # <<>> /\ Head(wire[t]) = Hello /\ Took(s)
        /\ UNCHANGED <<compatible, held, lost, failures>>
    BY <1>1, <1>2 DEF ReadHello, Of, Sane, Incoming
  <1>4. /\ held' \in [Sides -> SUBSET Hashes] /\ held[s] \subseteq held'[s] /\ held'[t] = held[t]
    BY <1>2, <1>3 DEF Typed
  <1>5. /\ NewLoop.pc = "hello" /\ NewLoop.stop = "none" /\ NewLoop.pages = 0 /\ NewLoop.wanted = {}
        /\ ~NewLoop.settled /\ NewLoop.blob = NoHash
    BY DEF NewLoop
  <1>6. CASE compatible /\ ~open[s]
    <2>1. StopLoop(s, "gone")
      BY <1>6 DEF ReadHello
    <2>2. ~Steady
      BY <1>2, <1>3, <1>5, <1>6, GoneIsComplete DEF Reading
    <2> QED
      BY <1>2, <1>3, <1>4, <2>1, <2>2, StopLoopTidy
  <1>7. CASE ~(compatible /\ ~open[s])
    <2>1. PICK l, controls, entries :
            /\ l = IF compatible THEN [NewLoop EXCEPT !.pc = "exchange"]
                                 ELSE [NewLoop EXCEPT !.pc = "closing", !.stop = "refused"]
            /\ controls = IF compatible THEN <<>> ELSE <<Refused>>
            /\ entries = IF compatible THEN Outgoing(s) ELSE <<>>
      OBVIOUS
    <2>2. /\ Send(s, controls, entries) /\ loop' = [loop EXCEPT ![s] = l] /\ UNCHANGED <<sending, open>>
      BY <1>2, <1>3, <1>7, <2>1 DEF ReadHello, Typed, NewLoop
    <2>3. /\ l \in Loops /\ l.pages = 0 /\ l.wanted = {} /\ l.blob = NoHash
          /\ l.pc = (IF compatible THEN "exchange" ELSE "closing")
          /\ l.stop = (IF compatible THEN "none" ELSE "refused")
      BY <2>1 DEF NewLoop, Loops
    <2>4. Refused \in Frames /\ Refused.kind = "refused"
      BY FramesAre DEF Refused
    <2>5. /\ controls \in Seq(Frames) /\ \A i \in 1..Len(controls) : controls[i].kind = "refused"
      BY <2>1, <2>4
    <2>6. /\ entries \in Seq(Entries)
          /\ \A i \in 1..Len(entries) :
               \/ entries[i].kind = "done"
               \/ i \in 1..Len(d) /\ entries[i].kind = "updates" /\ entries[i].page = d[i] /\ entries[i].inline = d[i] \cap Small \cap g
      <3>1. CASE compatible
        <4>1. entries = [i \in 1..Len(d) + 1 |-> IF i <= Len(d) THEN Page(d[i], d[i] \cap Small \cap g) ELSE Done]
          BY <1>1, <2>1, <3>1 DEF Outgoing, Inline
        <4>2. entries \in Seq(Entries)
          BY <1>1, <1>2, <2>1, <3>1, OutgoingRuns
        <4>3. Len(entries) = Len(d) + 1
          BY <1>2, <4>1
        <4>4. ASSUME NEW i \in 1..Len(d) + 1
              PROVE  \/ entries[i].kind = "done"
                     \/ i \in 1..Len(d) /\ entries[i].kind = "updates" /\ entries[i].page = d[i] /\ entries[i].inline = d[i] \cap Small \cap g
          <5>1. CASE i <= Len(d)
            <6>1. entries[i] = Page(d[i], d[i] \cap Small \cap g) /\ i \in 1..Len(d)
              BY <1>2, <4>1, <5>1
            <6> QED
              BY <6>1 DEF Page
          <5>2. CASE ~(i <= Len(d))
            <6>1. entries[i] = Done
              BY <1>2, <4>1, <5>2
            <6> QED
              BY <6>1 DEF Done
          <5> QED
            BY <5>1, <5>2
        <4> QED
          BY <4>2, <4>3, <4>4
      <3>2. CASE ~compatible
        BY <2>1, <3>2, Empty
      <3> QED
        BY <3>1, <3>2
    <2>7. Move(s, t, l, controls, entries)
      BY <1>2, <1>3, <1>4, <1>5, <2>2, <2>3, <2>5, <2>6 DEF Move, Kinds, Early
    <2>8. ASSUME NEW h
          PROVE  /\ Times(controls, "missing", h) = 0 /\ Times(controls, "want", h) = 0
                 /\ Times(entries, "blob", h) = 0
      BY <2>5, <2>6, TimesNone
    <2>9. PICK v : v = Tail(w)
      OBVIOUS
    <2>10. v \in Seq(Frames) /\ wire'[t] = v /\ w # <<>> /\ Head(w).kind = "hello"
      BY <1>1, <1>2, <1>3, <2>9, TookTypes DEF Hello
    <2>11. ASSUME NEW kind \in {"want", "missing", "start"}, NEW h
           PROVE  Times(w, kind, h) = Times(v, kind, h) /\ Times(v, kind, h) \in Nat
      <3>1. Times(w, kind, h) = One(Head(w).kind = kind /\ Head(w).hash = h) + Times(v, kind, h)
        BY <1>2, <2>9, <2>10, TimesTail
      <3>2. One(Head(w).kind = kind /\ Head(w).hash = h) = 0
        BY <2>10 DEF One
      <3>3. Times(v, kind, h) \in Nat
        BY <2>10, PlacesAre
      <3> QED
        BY <3>1, <3>2, <3>3
    <2>12. ASSUME Steady PROVE Sends(s, t, l, controls, entries)
      <3>1. Ends(s) /\ Keeps(s)
        BY <1>2, <2>12, BothTidy DEF Tidy
      <3>2. g \subseteq Holds[s] /\ Small \cap Holds[s] \subseteq g
        BY <1>1, <1>3, <1>5, <3>1 DEF Ends, Keeps
      <3>3. ASSUME NEW i \in 1..Len(entries), entries[i].kind = "updates"
            PROVE  entries[i].inline \subseteq Given(s) /\ entries[i].page \cap Given(s) \subseteq entries[i].inline
        <4>1. i \in 1..Len(d) /\ entries[i].page = d[i] /\ entries[i].inline = d[i] \cap Small \cap g
          BY <2>6, <3>3
        <4> QED
          BY <1>1, <3>2, <4>1 DEF Given
      <3>4. ASSUME NEW h \in Hashes
            PROVE  Times(controls, "missing", h) + Times(entries, "blob", h) + Times(wire'[t], "want", h)
                     <= Times(wire[t], "want", h)
        <4>1. /\ Times(controls, "missing", h) = 0 /\ Times(entries, "blob", h) = 0
              /\ Times(w, "want", h) = Times(v, "want", h) /\ Times(v, "want", h) \in Nat
          BY <2>8, <2>11
        <4> QED
          BY <1>1, <2>10, <4>1
      <3> QED
        BY <2>3, <3>3, <3>4 DEF Sends
    <2>13. ASSUME Steady PROVE Receives(s, t, l, controls)
      <3> SUFFICES ASSUME NEW h \in Hashes
                   PROVE  IF h \in Given(t)
                          THEN /\ Ahead(h, held'[s], NoHash, 0, wire'[t], bulk[t], Delta[t])
                               /\ Times(controls, "want", h) = 0 /\ h \notin l.wanted
                          ELSE Times(controls, "want", h) + Asking(s, h) + Times(urgent[t], "missing", h)
                                 + Times(wire'[t], "missing", h) + Times(bulk[t], "blob", h) + Times(wire'[t], "start", h)
                                 + One(l.blob = h)
                               <= One(h \in l.wanted)
        BY <2>3 DEF Receives
      <3>1. Tidy(s, t) /\ Early(s)
        BY <1>2, <1>3, <1>5, <2>13, BothTidy DEF Early
      <3>2. Times(controls, "want", h) = 0 /\ h \notin l.wanted /\ l.wanted = loop[s].wanted /\ l.blob = loop[s].blob
        BY <1>3, <1>5, <2>3, <2>8
      <3>3. CASE h \in Given(t)
        <4>1. Ahead(h, g, NoHash, 0, w, bulk[t], Delta[t])
          BY <1>1, <1>3, <1>5, <3>1, <3>3 DEF Tidy, Arrives
        <4>2. Ahead(h, g, NoHash, 0, v, bulk[t], Delta[t])
          BY <1>2, <2>9, <2>10, <4>1, AheadTail
        <4> QED
          BY <1>1, <1>3, <2>10, <3>2, <3>3, <4>2
      <3>4. CASE h \notin Given(t)
        <4>1. Asking(s, h) + Answering(s, t, h) <= One(h \in l.wanted)
          BY <3>1, <3>2, <3>4 DEF Tidy, Asks
        <4>2. Answering(s, t, h) = Times(urgent[t], "missing", h) + Times(w, "missing", h)
                + Times(bulk[t], "blob", h) + Times(w, "start", h) + One(l.blob = h)
          BY <1>1, <3>2 DEF Answering
        <4>3. Times(w, "missing", h) = Times(v, "missing", h)
          BY <2>11
        <4>4. Times(w, "start", h) = Times(v, "start", h)
          BY <2>11
        <4>5. /\ Times(urgent[t], "missing", h) \in Nat /\ Times(w, "missing", h) \in Nat
              /\ Times(bulk[t], "blob", h) \in Nat /\ Times(w, "start", h) \in Nat
              /\ One(l.blob = h) \in Nat /\ Asking(s, h) \in Nat /\ One(h \in l.wanted) \in Nat
          BY <1>1, <1>2, TimesType, AskingType DEF One
        <4>6. PICK a, b, c, e, x, y, z :
                /\ a = Asking(s, h) /\ b = Times(urgent[t], "missing", h) /\ c = Times(w, "missing", h)
                /\ e = Times(bulk[t], "blob", h) /\ x = Times(w, "start", h) /\ y = One(l.blob = h)
                /\ z = One(h \in l.wanted)
          OBVIOUS
        <4>7. a + (b + c + e + x + y) <= z
          BY <4>1, <4>2, <4>6
        <4>8. a \in Nat /\ b \in Nat /\ c \in Nat /\ e \in Nat /\ x \in Nat /\ y \in Nat /\ z \in Nat
          BY <4>5, <4>6
        <4>9. 0 + a + b + c + e + x + y <= z
          BY <4>7, <4>8
        <4>10. Times(wire'[t], "missing", h) = c /\ Times(wire'[t], "start", h) = x
          BY <2>10, <4>3, <4>4, <4>6
        <4> QED
          BY <3>2, <3>4, <4>6, <4>9, <4>10
      <3> QED
        BY <3>3, <3>4
    <2> QED
      BY <1>2, <2>7, <2>12, <2>13, MoveTidy
  <1> QED
    BY <1>6, <1>7

LEMMA PushTidy ==
  ASSUME Inv, IInv, NEW s \in Sides, Push(s)
  PROVE  IInv'
  <1>1. PICK t, n : t = Peer(s) /\ n = live[s].pushed + 1
    OBVIOUS
  <1>2. /\ Pair(s, t) /\ Of(s, t) /\ Typed /\ t \in Sides /\ s # t /\ loop[s] \in Loops /\ live[s] \in Lives
    BY <1>1, Both DEF Pair
  <1>3. /\ live[s].open /\ n <= Len(Batches[s]) /\ n \in Nat /\ n > 0
        /\ UNCHANGED <<compatible, loop, sending, wire, open, lost, failures>>
    BY <1>1, <1>2 DEF Push, Lives
  <1>4. PICK batch, a, l : batch = Batches[s][n] /\ a = Live(batch) /\ l = loop[s]
    OBVIOUS
  <1>5. batch \in SUBSET Hashes
    <2>1. Batches[s] \in Seq(SUBSET Hashes)
      BY SessionAssumption
    <2> QED
      BY <1>3, <1>4, <2>1
  <1>6. a \in Frames /\ a.kind = "live"
    BY <1>4, <1>5, FramesAre DEF Live
  <1>7. PICK controls : controls = <<a>>
    OBVIOUS
  <1>8. /\ controls \in Seq(Frames) /\ \A i \in 1..Len(controls) : controls[i].kind = "live"
    BY <1>6, <1>7
  <1>9. /\ Send(s, controls, <<>>) /\ held' = [held EXCEPT ![s] = @ \cup batch]
        /\ loop' = [loop EXCEPT ![s] = l]
    BY <1>1, <1>2, <1>3, <1>4, <1>7 DEF Push, Typed
  <1>10. /\ held' \in [Sides -> SUBSET Hashes] /\ held[s] \subseteq held'[s] /\ held'[t] = held[t]
    BY <1>2, <1>5, <1>9 DEF Typed
  <1>11. /\ l \in Loops /\ l.stop = "complete" /\ l.pc \notin {"hello", "exchange"}
    BY <1>2, <1>3, <1>4 DEF Of, Sane, NewLoop
  <1>12. Move(s, t, l, controls, <<>>) \/ l.pc = "over"
    BY <1>2, <1>3, <1>4, <1>8, <1>9, <1>10, <1>11, Empty DEF Move, Kinds
  <1>13. ASSUME NEW h \in Hashes
         PROVE  Times(controls, "missing", h) + Times(<<>>, "blob", h) + Times(wire'[t], "want", h)
                  <= Times(wire[t], "want", h)
    <2>1. Times(controls, "missing", h) = 0 /\ Times(<<>>, "blob", h) = 0
      BY <1>8, TimesNone, TimesEmpty
    <2>2. wire'[t] = wire[t] /\ Times(wire[t], "want", h) \in Nat
      BY <1>2, <1>3, TimesType
    <2> QED
      BY <2>1, <2>2
  <1>14. ASSUME Steady, Early(t) PROVE ~SaysOn(s, "want") /\ ~Says(controls, "want")
    <2>1. Quiet(s, t)
      BY <1>2, <1>14, BothTidy DEF Tidy
    <2> QED
      BY <1>4, <1>8, <1>11, <1>14, <2>1 DEF Quiet, Says
  <1>15. l.pc # "over"
    BY <1>2, <1>3, <1>4 DEF Push, Of, Alone, Ends, IInv
  <1> QED
    BY <1>2, <1>3, <1>8, <1>9, <1>10, <1>11, <1>13, <1>14, <1>15, Empty, LeavesTidy DEF Kinds

\* s reads the next frame while live, and answers.
LEMMA AnswerTidy ==
  ASSUME Inv, IInv, NEW s, NEW t, NEW n, NEW f, NEW l, NEW v, FacingLive(s, t, n, f, l, v), NEW k,
         NEW blob \in Hashes \cup {NoHash}, NEW controls \in Seq(Frames), NEW entries \in Seq(Entries),
         NEW returns, HandledLive(s, k, blob, controls, entries, returns),
         held' \in [Sides -> SUBSET Hashes], held[s] \subseteq held'[s], held'[t] = held[t],
         \A i \in 1..Len(controls) : controls[i].kind \in {"want", "missing"},
         \A i \in 1..Len(entries) : entries[i].kind = "blob",
         Early(t) => /\ ~Says(controls, "want")
                     /\ \A h \in Hashes : Times(controls, "missing", h) + Times(entries, "blob", h)
                                            <= One(f.kind = "want" /\ f.hash = h)
  PROVE  IInv'
  <1>1. PICK w, u : w = wire[t] /\ u = Tail(w)
    OBVIOUS
  <1>2. /\ Pair(s, t) /\ Of(s, t) /\ Typed /\ t \in Sides /\ s \in Sides /\ s # t /\ l \in Loops /\ l = loop[s]
        /\ w # <<>> /\ w \in Seq(Frames) /\ u \in Seq(Frames) /\ f = Head(w) /\ l.pc = "live"
    <2>1. Of(s, t)
      BY Both DEF FacingLive, Pair
    <2>2. w \in Seq(Frames) /\ w # <<>>
      BY <1>1 DEF FacingLive, Typed
    <2>3. u \in Seq(Frames)
      BY <1>1, <2>2
    <2> QED
      BY <1>1, <2>1, <2>2, <2>3 DEF FacingLive
  <1>3. l.stop = "complete"
    BY <1>2 DEF Of, Sane
  <1>4. Took(s) /\ UNCHANGED <<compatible, lost, failures>>
    BY DEF HandledLive
  <1>5. wire'[t] = u
    BY <1>1, <1>2, <1>4, TookTypes
  <1>6. Steady /\ Early(t) => ~SaysOn(s, "want")
    BY <1>2, <1>3, BothTidy DEF Tidy, Quiet
  <1>7. ASSUME NEW h \in Hashes
        PROVE  /\ Times(w, "want", h) = One(f.kind = "want" /\ f.hash = h) + Times(u, "want", h)
               /\ Times(u, "want", h) \in Nat /\ One(f.kind = "want" /\ f.hash = h) \in Nat
    <2>1. Times(w, "want", h) = One(Head(w).kind = "want" /\ Head(w).hash = h) + Times(Tail(w), "want", h)
      <3>1. w \in Seq(Frames) /\ w # <<>>
        BY <1>2
      <3> QED
        BY <3>1, TimesTail
    <2>2. f = Head(w) /\ u = Tail(w)
      BY <1>1, <1>2
    <2> QED
      BY <1>2, <2>1, <2>2, PlacesAre DEF One
  <1>8. CASE (controls # <<>> \/ entries # <<>>) /\ ~open[s]
    <2>1. PICK j : j = [l EXCEPT !.pc = "ended"]
      OBVIOUS
    <2>2. j \in Loops /\ j.pc = "ended" /\ j.stop = "complete"
      BY <1>2, <1>3, <2>1 DEF Loops
    <2>3. loop' = [loop EXCEPT ![s] = j] /\ UNCHANGED <<urgent, bulk, sending, open>>
      BY <1>2, <1>8, <2>1 DEF HandledLive, EndLive, Typed
    <2>4. Send(s, <<>>, <<>>)
      BY <1>2, <2>3, SendNothing
    <2>5. ASSUME NEW h \in Hashes
          PROVE  Times(<<>>, "missing", h) + Times(<<>>, "blob", h) + Times(wire'[t], "want", h)
                   <= Times(wire[t], "want", h)
      <3>1. Times(<<>>, "missing", h) = 0 /\ Times(<<>>, "blob", h) = 0
        BY TimesEmpty
      <3> QED
        BY <1>1, <1>5, <1>7, <3>1
    <2> QED
      BY <1>1, <1>2, <1>4, <1>6, <2>2, <2>3, <2>4, <2>5, Empty, LeavesTidy
  <1>9. CASE ~((controls # <<>> \/ entries # <<>>) /\ ~open[s])
    <2>1. PICK j : j = [l EXCEPT !.blob = blob]
      OBVIOUS
    <2>2. j \in Loops /\ j.pc = "live" /\ j.stop = "complete"
      BY <1>2, <1>3, <2>1 DEF Loops
    <2>3. loop' = [loop EXCEPT ![s] = j] /\ Send(s, controls, entries) /\ UNCHANGED <<sending, open>>
      BY <1>2, <1>9, <2>1 DEF HandledLive, Typed
    <2>4. ASSUME Early(t), NEW h \in Hashes
          PROVE  Times(controls, "missing", h) + Times(entries, "blob", h) + Times(wire'[t], "want", h)
                   <= Times(wire[t], "want", h)
      <3>1. /\ Times(controls, "missing", h) + Times(entries, "blob", h) <= One(f.kind = "want" /\ f.hash = h)
            /\ Times(controls, "missing", h) \in Nat /\ Times(entries, "blob", h) \in Nat
        BY <2>4, PlacesAre
      <3>2. /\ Times(w, "want", h) = One(f.kind = "want" /\ f.hash = h) + Times(u, "want", h)
            /\ Times(u, "want", h) \in Nat /\ One(f.kind = "want" /\ f.hash = h) \in Nat
        BY <1>7
      <3>3. Times(controls, "missing", h) + Times(entries, "blob", h) + Times(u, "want", h) <= Times(w, "want", h)
        BY <3>1, <3>2
      <3> QED
        BY <1>1, <1>5, <3>3
    <2>5. \A i \in 1..Len(controls) : controls[i].kind \in Kinds
      BY DEF Kinds
    <2> QED
      BY <1>1, <1>2, <1>4, <1>6, <2>2, <2>3, <2>4, <2>5, LeavesTidy
  <1> QED
    BY <1>8, <1>9

LEMMA ReadLiveTidy ==
  ASSUME Inv, IInv, NEW s \in Sides, ReadLive(s)
  PROVE  IInv'
  <1>1. ReadsLive(s, "live")
    BY DEF ReadLive
  <1>2. PICK t, n, f, l, v : FacingLive(s, t, n, f, l, v) /\ f.kind = "live"
    BY <1>1, InLive
  <1>3. PICK page, missing, asked, k :
          /\ page = f.page /\ missing = page \ held[s] /\ asked = missing \ v.wanted
          /\ k = [v EXCEPT !.wanted = @ \cup missing,
                           !.pending = @ \cup {[page |-> page, outstanding |-> missing]}]
    OBVIOUS
  <1>4. page \in SUBSET Hashes /\ asked \in SUBSET Hashes
    BY <1>2, <1>3, FrameFacts DEF FacingLive
  <1>5. HandledLive(s, k, l.blob, Wants(asked), <<>>, TRUE) /\ held' = held
    BY <1>2, <1>3 DEF ReadLive, Incoming, FacingLive
  <1>6. /\ Wants(asked) \in Seq(Frames) /\ \A i \in 1..Len(Wants(asked)) : Wants(asked)[i].kind \in {"want", "missing"}
    BY <1>4, WantsAre
  <1>7. /\ l.blob \in Hashes \cup {NoHash}
        /\ held' \in [Sides -> SUBSET Hashes] /\ held[s] \subseteq held'[s] /\ held'[t] = held[t]
    BY <1>2, <1>5 DEF Loops, FacingLive
  <1>8. ~Early(t)
    <2>1. SaysOn(t, "live") /\ Of(t, s)
      BY <1>2, NextFrame, Both DEF FacingLive, Reading, Pair
    <2> QED
      BY <2>1 DEF Of, Sane, Truthful, Early, NewLoop
  <1> QED
    BY <1>2, <1>5, <1>6, <1>7, <1>8, Empty, AnswerTidy

LEMMA LiveWantTidy ==
  ASSUME Inv, IInv, NEW s \in Sides, LiveWant(s)
  PROVE  IInv'
  <1>1. ReadsLive(s, "want")
    BY DEF LiveWant, Incoming
  <1>2. PICK t, n, f, l, v : FacingLive(s, t, n, f, l, v) /\ f.kind = "want"
    BY <1>1, InLive
  <1>3. PICK g, controls, entries : g = f.hash /\ controls = Denials(s, g) /\ entries = Answers(s, g)
    OBVIOUS
  <1>4. HandledLive(s, v, l.blob, controls, entries, FALSE) /\ held' = held
    BY <1>2, <1>3 DEF LiveWant, Incoming, FacingLive
  <1>5. g \in Hashes
    BY <1>2, <1>3, FrameFacts DEF FacingLive
  <1>6. /\ controls \in Seq(Frames) /\ entries \in Seq(Entries)
        /\ \A i \in 1..Len(controls) : controls[i].kind = "missing"
        /\ \A i \in 1..Len(entries) : entries[i].kind = "blob"
        /\ \A h \in Hashes : /\ Times(controls, "missing", h) + Times(entries, "blob", h) <= One(g = h)
                             /\ Times(controls, "want", h) = 0
    BY <1>3, <1>5, AnswersAre
  <1>7. ~Says(controls, "want") /\ \A i \in 1..Len(controls) : controls[i].kind \in {"want", "missing"}
    BY <1>6 DEF Says
  <1>8. \A h \in Hashes : Times(controls, "missing", h) + Times(entries, "blob", h) <= One(f.kind = "want" /\ f.hash = h)
    <2>1. \A h \in Hashes : One(f.kind = "want" /\ f.hash = h) = One(g = h)
      BY <1>2, <1>3 DEF One
    <2> QED
      BY <1>6, <2>1
  <1>9. /\ l.blob \in Hashes \cup {NoHash}
        /\ held' \in [Sides -> SUBSET Hashes] /\ held[s] \subseteq held'[s] /\ held'[t] = held[t]
    BY <1>2, <1>4 DEF Loops, FacingLive
  <1>10. PICK blob, k, r : blob = l.blob /\ k = v /\ r = FALSE
    OBVIOUS
  <1>11. HandledLive(s, k, blob, controls, entries, r) /\ blob \in Hashes \cup {NoHash}
    BY <1>4, <1>9, <1>10
  <1>12. FacingLive(s, t, n, f, l, v)
    BY <1>2
  <1>13. /\ controls \in Seq(Frames) /\ entries \in Seq(Entries)
         /\ \A i \in 1..Len(entries) : entries[i].kind = "blob"
    BY <1>6
  <1>14. held' \in [Sides -> SUBSET Hashes] /\ held[s] \subseteq held'[s] /\ held'[t] = held[t]
    BY <1>9
  <1> QED
    BY <1>7, <1>8, <1>11, <1>12, <1>13, <1>14, AnswerTidy

\* A frame that is not answered, live.
LEMMA HeardTidy ==
  ASSUME Inv, IInv, NEW s, NEW t, NEW n, NEW f, NEW l, NEW v, FacingLive(s, t, n, f, l, v), NEW k,
         NEW blob \in Hashes \cup {NoHash}, HandledLive(s, k, blob, <<>>, <<>>, FALSE),
         held' \in [Sides -> SUBSET Hashes], held[s] \subseteq held'[s], held'[t] = held[t]
  PROVE  IInv'
  <1>1. ASSUME NEW h \in Hashes
        PROVE  Times(<<>>, "missing", h) + Times(<<>>, "blob", h) <= One(f.kind = "want" /\ f.hash = h)
    <2>1. Times(<<>>, "missing", h) = 0 /\ Times(<<>>, "blob", h) = 0
      BY TimesEmpty
    <2> QED
      BY <2>1 DEF One
  <1> QED
    BY <1>1, Empty, AnswerTidy

LEMMA LiveLackedTidy ==
  ASSUME Inv, IInv, NEW s \in Sides, LiveLacked(s)
  PROVE  IInv'
  <1>1. PICK kind \in {"missing", "aborted"} : ReadsLive(s, kind)
    BY DEF LiveLacked
  <1>2. PICK t, n, f, l, v : FacingLive(s, t, n, f, l, v) /\ f.kind = kind
    BY <1>1, InLive
  <1>3. PICK h, k, blob : /\ h = f.hash /\ k = [Remember(v, h) EXCEPT !.lacked = @ \cup {h}]
                          /\ blob = IF kind = "missing" THEN l.blob ELSE NoHash
    OBVIOUS
  <1>4. blob \in Hashes \cup {NoHash}
    BY <1>2, <1>3 DEF Loops, FacingLive
  <1>5. HandledLive(s, k, blob, <<>>, <<>>, FALSE) /\ held' = held
    BY <1>2, <1>3 DEF LiveLacked, Incoming, ReadsLive, FacingLive
  <1>6. held' \in [Sides -> SUBSET Hashes] /\ held[s] \subseteq held'[s] /\ held'[t] = held[t]
    BY <1>2, <1>5 DEF FacingLive
  <1> QED
    BY <1>2, <1>4, <1>5, <1>6, HeardTidy

LEMMA LiveBlobTidy ==
  ASSUME Inv, IInv, NEW s \in Sides, LiveBlob(s)
  PROVE  IInv'
  <1>1. PICK kind \in {"start", "chunk", "end"} : ReadsLive(s, kind)
    BY DEF LiveBlob
  <1>2. PICK t, n, f, l, v : FacingLive(s, t, n, f, l, v) /\ f.kind = kind
    BY <1>1, InLive
  <1>3. PICK h, k, blob : /\ h = l.blob /\ k = (IF kind = "end" THEN Remember(v, h) ELSE v)
                          /\ blob = IF kind = "start" THEN f.hash ELSE IF kind = "end" THEN NoHash ELSE h
    OBVIOUS
  <1>4. blob \in Hashes \cup {NoHash} /\ h \in Hashes \cup {NoHash}
    BY <1>2, <1>3, FrameFacts DEF Loops, FacingLive
  <1>5. /\ HandledLive(s, k, blob, <<>>, <<>>, FALSE)
        /\ held' = held \/ (h # NoHash /\ held' = [held EXCEPT ![s] = @ \cup {h}])
    BY <1>1, <1>2, <1>3 DEF LiveBlob, FacingLive, Incoming, ReadsLive
  <1>6. held' \in [Sides -> SUBSET Hashes] /\ held[s] \subseteq held'[s] /\ held'[t] = held[t]
    BY <1>2, <1>4, <1>5 DEF FacingLive
  <1> QED
    BY <1>2, <1>4, <1>5, <1>6, HeardTidy

\* The live loop ends, or the session is dropped.
LEMMA LiveOverTidy ==
  ASSUME Inv, IInv, NEW s \in Sides, LiveEnd(s) \/ Drop(s)
  PROVE  IInv'
  <1>1. PICK t, l : t = Peer(s) /\ l = [loop[s] EXCEPT !.pc = IF LiveEnd(s) THEN "ended" ELSE "dropped"]
    OBVIOUS
  <1>2. /\ Pair(s, t) /\ Of(s, t) /\ Typed /\ t \in Sides /\ s # t /\ loop[s] \in Loops
    BY <1>1, Both DEF Pair
  <1>3. /\ loop' = [loop EXCEPT ![s] = l] /\ loop[s].pc \in {"live", "ended"}
        /\ UNCHANGED <<compatible, queues, held, lost>>
    <2>1. CASE LiveEnd(s)
      BY <1>1, <1>2, <2>1 DEF LiveEnd, EndLive, Typed
    <2>2. CASE ~LiveEnd(s)
      BY <1>1, <1>2, <2>2 DEF Drop, Typed
    <2> QED
      BY <2>1, <2>2
  <1>4. l \in Loops /\ l.stop = "complete" /\ l.pc \in {"ended", "dropped"} /\ loop[s].stop = "complete"
    BY <1>1, <1>2, <1>3 DEF Of, Sane, Loops
  <1>5. Send(s, <<>>, <<>>) /\ UNCHANGED <<sending, open, wire, urgent, bulk>>
    BY <1>2, <1>3, SendNothing DEF queues
  <1>6. CASE failures' = failures
    <2>1. held' \in [Sides -> SUBSET Hashes] /\ held'[t] = held[t] /\ held[s] \subseteq held'[s]
      BY <1>2, <1>3 DEF Typed
    <2>2. Steady /\ Early(t) => ~SaysOn(s, "want")
      BY <1>2, <1>4, BothTidy DEF Tidy, Quiet
    <2>3. ASSUME NEW h \in Hashes
          PROVE  Times(<<>>, "missing", h) + Times(<<>>, "blob", h) + Times(wire'[t], "want", h)
                   <= Times(wire[t], "want", h)
      <3>1. Times(<<>>, "missing", h) = 0 /\ Times(<<>>, "blob", h) = 0
        BY TimesEmpty
      <3>2. wire'[t] = wire[t] /\ Times(wire[t], "want", h) \in Nat
        BY <1>2, <1>5, TimesType
      <3> QED
        BY <3>1, <3>2
    <2> QED
      BY <1>2, <1>3, <1>4, <1>5, <1>6, <2>1, <2>2, <2>3, Empty, LeavesTidy
  <1>7. CASE failures' # failures
    <2>1. failures' > 0 /\ failures' # 0
      <3>1. failures \in Nat
        BY <1>2 DEF Typed
      <3>2. failures' = failures + 1
        BY <1>7 DEF LiveEnd, Drop
      <3> QED
        BY <3>1, <3>2
    <2>2. loop'[s] = l /\ loop'[t] = loop[t]
      BY <1>2, <1>3 DEF Typed
    <2>3. Ends(s) /\ Ends(t)
      BY <1>2, BothTidy
    <2>4. Ends(s)'
      BY <1>3, <1>4, <2>2, <2>1 DEF Ends
    <2>5. Ends(t)'
      BY <1>2, <1>3, <1>5, <2>1, <2>2, <2>3 DEF Ends
    <2> QED
      BY <1>2, <2>1, <2>4, <2>5, FailedTidy
  <1> QED
    BY <1>6, <1>7

LEMMA TimeoutTidy ==
  ASSUME Inv, IInv, NEW s \in Sides, Timeout(s)
  PROVE  IInv'
  <1>1. PICK t, why : t = Peer(s) /\ why = IF loop[s].pc = "closing" THEN loop[s].stop ELSE "timeout"
    OBVIOUS
  <1>2. Pair(s, t) /\ Ends(s) /\ Ends(t) /\ Typed /\ t \in Sides /\ s # t /\ loop[s] \in Loops
    BY <1>1, PairOf, BothTidy DEF Pair
  <1>3. StopLoop(s, why) /\ UNCHANGED <<compatible, held>> /\ failures' = failures + 1
    BY <1>1 DEF Timeout
  <1>10. failures' > 0 /\ failures' # 0
    BY <1>2, <1>3 DEF Typed
  <1>4. PICK l : l = [loop[s] EXCEPT !.pc = "over", !.stop = why]
    OBVIOUS
  <1>5. l.pc = "over" /\ l.stop = why
    BY <1>2, <1>4 DEF Loops
  <1>6. loop'[s] = l /\ loop'[t] = loop[t]
    BY <1>2, <1>3, <1>4 DEF StopLoop, Typed
  <1>7. /\ ~open'[s] /\ urgent'[s] = <<>> /\ bulk'[s] = <<>>
        /\ open'[t] = open[t] /\ urgent'[t] = urgent[t] /\ bulk'[t] = bulk[t]
    BY <1>2, <1>3 DEF StopLoop, StopWriter, Typed
  <1>8. why = "refused" => ~compatible
    BY <1>1, <1>2 DEF Ends
  <1>9. UNCHANGED <<compatible, held>>
    BY <1>3
  <1>11. Ends(s)'
    BY <1>5, <1>6, <1>7, <1>8, <1>9, <1>10 DEF Ends
  <1>12. Ends(t)'
    BY <1>2, <1>6, <1>7, <1>9, <1>10 DEF Ends
  <1> QED
    BY <1>2, <1>10, <1>11, <1>12, FailedTidy

LEMMA CutTidy ==
  ASSUME Inv, IInv, Cut
  PROVE  IInv'
  <1>1. PICK s \in Sides : open[s]
    BY DEF Cut
  <1>2. PICK t : t = Peer(s)
    OBVIOUS
  <1>3. Pair(s, t) /\ Ends(s) /\ Ends(t) /\ Typed /\ t \in Sides
    BY <1>1, <1>2, PairOf, BothTidy DEF Pair
  <1>4. failures' > 0 /\ failures' # 0
    <2>1. failures \in Nat /\ failures' = failures + 1
      BY <1>3 DEF Cut, Typed
    <2> QED
      BY <2>1
  <1>5. /\ UNCHANGED <<compatible, held, loop>>
        /\ \A p \in Sides : ~open'[p] /\ urgent'[p] = <<>> /\ bulk'[p] = <<>>
    BY <1>3 DEF Cut
  <1>6. Ends(s)'
    BY <1>3, <1>4, <1>5 DEF Ends
  <1>7. Ends(t)'
    BY <1>3, <1>4, <1>5 DEF Ends
  <1> QED
    BY <1>3, <1>4, <1>6, <1>7, FailedTidy

LEMMA LoseTidy ==
  ASSUME Inv, IInv, NEW s \in Sides, NEW g \in Hashes, Lose(s, g)
  PROVE  IInv'
  <1>1. PICK t : t = Peer(s)
    OBVIOUS
  <1>2. /\ Pair(s, t) /\ Ends(s) /\ Ends(t) /\ (Steady => Tidy(s, t) /\ Tidy(t, s)) /\ Typed /\ t \in Sides /\ s # t
        /\ Sides = {s, t}
    BY <1>1, PairOf, BothTidy DEF Pair
  <1>3. /\ held' = [held EXCEPT ![s] = @ \ {g}] /\ lost' = [lost EXCEPT ![s] = @ \cup {g}]
        /\ UNCHANGED <<compatible, loop, urgent, bulk, sending, wire, open, failures>>
    BY DEF Lose, queues
  <1>4. held'[s] = held[s] \ {g} /\ held'[t] = held[t] /\ lost'[s] = lost[s] \cup {g} /\ lost'[t] = lost[t]
    BY <1>2, <1>3 DEF Typed
  <1>5. Ends(s)' /\ Ends(t)'
    BY <1>2, <1>3, <1>4 DEF Ends
  <1>6. ASSUME Steady' PROVE Tidy(s, t)' /\ Tidy(t, s)'
    <2>1. Steady /\ g \notin Small
      BY <1>2, <1>3, <1>4, <1>6 DEF Steady
    <2>2. Tidy(s, t) /\ Tidy(t, s)
      BY <1>2, <2>1
    <2>3. Keeps(s)' /\ Keeps(t)'
      BY <1>3, <1>4, <2>1, <2>2 DEF Tidy, Keeps, Given
    <2>4. Arrives(t, s)'
      BY <1>3, <1>4, <2>2 DEF Tidy, Arrives, Early, Given
    <2>5. Arrives(s, t)'
      <3> SUFFICES ASSUME Early(s), NEW h \in Given(t)
                   PROVE  Ahead(h, held'[s], loop[s].blob, loop[s].pages, wire[t], bulk[t], Delta[t])
        BY <1>3 DEF Arrives, Early, Given
      <3>1. Ahead(h, held[s], loop[s].blob, loop[s].pages, wire[t], bulk[t], Delta[t])
        BY <2>2 DEF Tidy, Arrives
      <3>2. h \in held[s] => h \in held'[s]
        BY <1>4, <2>1, GivenAre
      <3> QED
        BY <3>1, <3>2, AheadMore
    <2>6. /\ Asks(s, t)' /\ Asks(t, s)' /\ Quiet(s, t)' /\ Quiet(t, s)'
      BY <1>3, <2>2 DEF Tidy, Asks, Asking, Answering, Early, Given, Quiet, SaysOn
    <2> QED
      BY <1>3, <2>2, <2>3, <2>4, <2>5, <2>6 DEF Tidy
  <1> QED
    BY <1>2, <1>5, <1>6, TidyAfter

-----------------------------------------------------------------------------
\* The theorem.

LEMMA InitTidy == Init => IInv
  <1> SUFFICES ASSUME Init, NEW s \in Sides PROVE Ends(s) /\ Tidy(s, Peer(s))
    BY DEF IInv
  <1>1. PICK t : t = Peer(s)
    OBVIOUS
  <1>2. Pair(s, t) /\ t \in Sides /\ s # t
    BY <1>1, PairOf DEF Pair
  <1>3. /\ loop[s] = NewLoop /\ loop[t] = NewLoop /\ urgent[s] = <<Hello>> /\ urgent[t] = <<Hello>>
        /\ bulk[s] = <<>> /\ bulk[t] = <<>> /\ wire[s] = <<>> /\ wire[t] = <<>> /\ sending[s] = NotSending
        /\ held = Holds
    BY <1>2 DEF Init
  <1>4. /\ NewLoop.pc = "hello" /\ NewLoop.stop = "none" /\ NewLoop.pages = 0 /\ NewLoop.wanted = {}
        /\ NewLoop.blob = NoHash /\ NotSending.read = "no"
    BY DEF NewLoop, NotSending
  <1>5. Ends(s)
    BY <1>3, <1>4 DEF Ends
  <1>6. Len(<<>>) = 0 /\ \A i \in 1..Len(<<>>) : FALSE
    BY Empty
  <1>7. Keeps(s)
    BY <1>3, <1>4, <1>6 DEF Keeps
  <1>8. Arrives(s, t)
    BY <1>3, <1>4, <1>6 DEF Arrives, Ahead
  <1>9. ASSUME NEW kind \in {"want", "missing", "blob", "start"}, NEW h \in Hashes
        PROVE  Times(<<>>, kind, h) = 0 /\ Times(<<Hello>>, kind, h) = 0
    <2>1. Times(<<Hello>>, kind, h) = One(Hello.kind = kind /\ Hello.hash = h)
      BY FramesAre, TimesOne
    <2> QED
      BY <2>1, TimesEmpty DEF One, Hello
  <1>10. Asks(s, t)
    <2> SUFFICES ASSUME NEW h \in Hashes
                 PROVE  Asking(s, h) = 0 /\ Answering(s, t, h) = 0 /\ One(h \in {}) = 0
      BY <1>3, <1>4 DEF Asks
    <2>1. /\ Times(<<>>, "want", h) = 0 /\ Times(<<>>, "missing", h) = 0 /\ Times(<<>>, "blob", h) = 0
          /\ Times(<<>>, "start", h) = 0 /\ Times(<<Hello>>, "want", h) = 0 /\ Times(<<Hello>>, "missing", h) = 0
      BY <1>9
    <2>2. One(NoHash = h) = 0
      BY SessionAssumption DEF One
    <2> QED
      BY <1>3, <1>4, <2>1, <2>2 DEF Asking, Answering, One
  <1>11. Quiet(s, t) /\ loop[s].stop # "gone"
    BY <1>3, <1>4 DEF Quiet
  <1> QED
    BY <1>1, <1>5, <1>7, <1>8, <1>10, <1>11 DEF Tidy

LEMMA StepTidy == Inv /\ IInv /\ [Next]_vars => IInv'
  <1> SUFFICES ASSUME Inv, IInv, [Next]_vars PROVE IInv'
    OBVIOUS
  <1>1. CASE UNCHANGED vars
    <2>1. UNCHANGED <<once, compatible, loop, urgent, bulk, sending, wire, open, held, live, lost, failures>>
      BY <1>1 DEF vars
    <2>2. (Steady' => Steady) /\ \A s : Ends(s)' = Ends(s)
      BY <2>1 DEF Steady, Ends
    <2>3. ASSUME NEW s, NEW t, Tidy(s, t) PROVE Tidy(s, t)'
      <3>1. Keeps(s)' /\ Arrives(s, t)'
        BY <2>1, <2>3 DEF Tidy, Keeps, Arrives, Given, Early
      <3>2. Asks(s, t)' /\ Quiet(s, t)'
        BY <2>1, <2>3 DEF Tidy, Asks, Asking, Answering, Given, Early, Quiet, SaysOn
      <3> QED
        BY <2>1, <2>3, <3>1, <3>2 DEF Tidy
    <2> QED
      BY <2>2, <2>3 DEF IInv
  <1>2. CASE Cut
    BY <1>2, CutTidy
  <1>3. ASSUME NEW s \in Sides, NEW h \in Hashes, Lose(s, h) PROVE IInv'
    BY <1>3, LoseTidy
  <1>4. ASSUME NEW s \in Sides, Push(s) \/ Drop(s) \/ Timeout(s) PROVE IInv'
    BY <1>4, PushTidy, LiveOverTidy, TimeoutTidy
  <1>5. ASSUME NEW s \in Sides, WriterStep(s) PROVE IInv'
    BY <1>5, WriteUrgentTidy, WriteBulkTidy, WriteBlobTidy, WriteFailsTidy, StartBlobTidy DEF WriterStep
  <1>6. ASSUME NEW s \in Sides, LoopStep(s) PROVE IInv'
    BY <1>6, ReadHelloTidy, ReadUpdatesTidy, ReadDoneTidy, ReadSettledTidy, ReadWantTidy,
       ReadMissingTidy, ReadAbortedTidy, ReadBlobTidy, ReadEndTidy, CommitTidy, CloseTidy,
       ReadLiveTidy, LiveWantTidy, LiveLackedTidy, LiveBlobTidy, LiveOverTidy
       DEF LoopStep, ReadExchange
  <1> QED
    BY <1>1, <1>2, <1>3, <1>4, <1>5, <1>6 DEF Next

\* While the stream holds and no small content is lost, neither side finds the other gone:
\* nobody leaves while the other still waits for something of it (Stop::Gone).
THEOREM Strands == Spec => []NobodyStranded
  <1>1. IInv => NobodyStranded
    BY DEF IInv, Tidy, NobodyStranded
  <1> QED
    BY <1>1, Invariant, InitTidy, StepTidy, PTL DEF Spec
=============================================================================
