----------------------- MODULE VirtioCryptoPortAnswers -----------------------
(***************************************************************************)
(* Proofs about the in queue of VirtioCryptoPort and a single caller: the  *)
(* in-buffers, for every number of them, and the answers, for answers of   *)
(* one page.                                                               *)
(***************************************************************************)
EXTENDS VirtioCryptoPortProofs

----------------------------------------------------------------------------
(* The in-buffers.                                                         *)

\* Two sequences one after the other.
LEMMA ConcatFacts ==
  ASSUME NEW q \in Seq(InBufs), NEW r \in Seq(InBufs)
  PROVE  /\ q \o r \in Seq(InBufs) /\ Len(q \o r) = Len(q) + Len(r)
         /\ Range(q \o r) = Range(q) \cup Range(r)
         /\ IsInjective(q \o r) <=> IsInjective(q) /\ IsInjective(r) /\ Range(q) \cap Range(r) = {}
<1>1. /\ q \o r \in Seq(InBufs) /\ Len(q \o r) = Len(q) + Len(r) /\ Len(q) \in Nat /\ Len(r) \in Nat
      /\ DOMAIN q = 1 .. Len(q) /\ DOMAIN r = 1 .. Len(r) /\ DOMAIN (q \o r) = 1 .. Len(q) + Len(r)
  OBVIOUS
<1>2. \A k \in 1 .. Len(q) : k \in DOMAIN (q \o r) /\ (q \o r)[k] = q[k]
  BY <1>1
<1>3. \A k \in 1 .. Len(r) : Len(q) + k \in DOMAIN (q \o r) /\ (q \o r)[Len(q) + k] = r[k]
  BY <1>1
<1>4. \A k \in DOMAIN (q \o r) : k \in 1 .. Len(q) \/ \E m \in 1 .. Len(r) : k = Len(q) + m
  <2>1. \A k \in DOMAIN (q \o r) : k \in 1 .. Len(q) \/ (k - Len(q) \in 1 .. Len(r) /\ k = Len(q) + (k - Len(q)))
    BY <1>1
  <2>2. QED BY <2>1, Zenon
<1>5. \A k, m \in 1 .. Len(r) : Len(q) + k = Len(q) + m => k = m
  BY <1>1
<1>6. \A k \in 1 .. Len(q), m \in 1 .. Len(r) : k # Len(q) + m
  BY <1>1
<1>7. Range(q \o r) = Range(q) \cup Range(r)
  <2>1. \A k \in DOMAIN (q \o r) : (q \o r)[k] \in Range(q) \cup Range(r)
    <3>1. TAKE k \in DOMAIN (q \o r)
    <3>2. CASE k \in 1 .. Len(q)
      BY <1>1, <1>2, <3>2, Zenon DEF Range
    <3>3. CASE \E m \in 1 .. Len(r) : k = Len(q) + m
      BY <1>1, <1>3, <3>3, Zenon DEF Range
    <3>4. QED BY <1>4, <3>2, <3>3, Zenon
  <2>2. \A k \in DOMAIN q : q[k] \in Range(q \o r)
    BY <1>1, <1>2, Zenon DEF Range
  <2>3. \A k \in DOMAIN r : r[k] \in Range(q \o r)
    BY <1>1, <1>3, Zenon DEF Range
  <2>4. QED BY <2>1, <2>2, <2>3, Zenon DEF Range
<1>8. ASSUME IsInjective(q \o r) PROVE IsInjective(q) /\ IsInjective(r) /\ Range(q) \cap Range(r) = {}
  <2>1. IsInjective(q)
    BY <1>1, <1>2, <1>8, Zenon DEF IsInjective
  <2>2. IsInjective(r)
    BY <1>1, <1>3, <1>5, <1>8, Zenon DEF IsInjective
  <2>3. Range(q) \cap Range(r) = {}
    BY <1>1, <1>2, <1>3, <1>6, <1>8 DEF IsInjective, Range
  <2>4. QED BY <2>1, <2>2, <2>3, Zenon
<1>9. ASSUME IsInjective(q), IsInjective(r), Range(q) \cap Range(r) = {} PROVE IsInjective(q \o r)
  <2>1. SUFFICES ASSUME NEW a \in DOMAIN (q \o r), NEW b \in DOMAIN (q \o r), (q \o r)[a] = (q \o r)[b]
                 PROVE  a = b
    BY Zenon DEF IsInjective
  <2>2. \A k \in 1 .. Len(q), m \in 1 .. Len(r) : q[k] # r[m]
    BY <1>1, <1>9, Zenon DEF Range
  <2>3. CASE a \in 1 .. Len(q) /\ b \in 1 .. Len(q)
    BY <1>1, <1>2, <1>9, <2>1, <2>3, Zenon DEF IsInjective
  <2>4. CASE a \in 1 .. Len(q) /\ \E m \in 1 .. Len(r) : b = Len(q) + m
    <3>1. PICK m \in 1 .. Len(r) : b = Len(q) + m
      BY <2>4, Zenon
    <3>2. (q \o r)[a] = q[a] /\ (q \o r)[b] = r[m]
      BY <1>2, <1>3, <2>4, <3>1, Zenon
    <3>3. QED BY <2>1, <2>2, <2>4, <3>2, Zenon
  <2>5. CASE b \in 1 .. Len(q) /\ \E m \in 1 .. Len(r) : a = Len(q) + m
    <3>1. PICK m \in 1 .. Len(r) : a = Len(q) + m
      BY <2>5, Zenon
    <3>2. (q \o r)[a] = r[m] /\ (q \o r)[b] = q[b]
      BY <1>2, <1>3, <2>5, <3>1, Zenon
    <3>3. QED BY <2>1, <2>2, <2>5, <3>2, Zenon
  <2>6. CASE /\ \E m \in 1 .. Len(r) : a = Len(q) + m
             /\ \E m \in 1 .. Len(r) : b = Len(q) + m
    <3>1. PICK m \in 1 .. Len(r), n \in 1 .. Len(r) : a = Len(q) + m /\ b = Len(q) + n
      BY <2>6, Zenon
    <3>2. r[m] = r[n]
      BY <1>3, <2>1, <3>1, Zenon
    <3>3. QED BY <1>1, <1>9, <3>1, <3>2, Zenon DEF IsInjective
  <2>7. QED BY <1>4, <2>3, <2>4, <2>5, <2>6, Zenon
<1>10. QED BY <1>1, <1>7, <1>8, <1>9, Zenon

\* Sequences with the same elements are equal.
LEMMA SameSeq ==
  ASSUME NEW S, NEW q \in Seq(S), NEW r \in Seq(S), NEW n, Len(q) = n, Len(r) = n,
         \A k \in 1 .. n : q[k] = r[k]
  PROVE  q = r
  OBVIOUS

\* The first element before the others.
LEMMA SplitFacts ==
  ASSUME NEW S, NEW q \in Seq(S)
  PROVE  /\ q # <<>> => q = <<Head(q)>> \o Tail(q)
         /\ \A k \in 0 .. Len(q) : /\ SubSeq(q, 1, k) \in Seq(S) /\ SubSeq(q, k + 1, Len(q)) \in Seq(S)
                                   /\ q = SubSeq(q, 1, k) \o SubSeq(q, k + 1, Len(q))
<1>1. Len(q) \in Nat /\ q = [j \in 1 .. Len(q) |-> q[j]]
  OBVIOUS
<1>2. ASSUME q # <<>> PROVE q = <<Head(q)>> \o Tail(q)
  <2>1. /\ <<Head(q)>> \o Tail(q) \in Seq(S) /\ Len(<<Head(q)>> \o Tail(q)) = Len(q)
        /\ \A j \in 1 .. Len(q) : (<<Head(q)>> \o Tail(q))[j] = q[j]
    BY <1>2
  <2>2. QED BY <1>1, <2>1
<1>3. ASSUME NEW k \in 0 .. Len(q)
      PROVE  /\ SubSeq(q, 1, k) \in Seq(S) /\ SubSeq(q, k + 1, Len(q)) \in Seq(S)
             /\ q = SubSeq(q, 1, k) \o SubSeq(q, k + 1, Len(q))
  <2>1. PICK f, g : f = SubSeq(q, 1, k) /\ g = SubSeq(q, k + 1, Len(q))
    BY Zenon
  <2>2. /\ f \in Seq(S) /\ Len(f) = k /\ \A j \in 1 .. k : f[j] = q[j]
        /\ g \in Seq(S) /\ Len(g) = Len(q) - k /\ \A j \in 1 .. Len(q) - k : g[j] = q[k + j]
    BY <1>1, <2>1
  <2>3. /\ f \o g \in Seq(S) /\ Len(f \o g) = Len(q)
    <3>1. f \o g \in Seq(S) /\ Len(f \o g) = Len(f) + Len(g)
      <4>1. ASSUME NEW x \in Seq(S), NEW y \in Seq(S) PROVE x \o y \in Seq(S) /\ Len(x \o y) = Len(x) + Len(y)
        OBVIOUS
      <4>2. QED BY <2>2, <4>1, Zenon
    <3>2. QED BY <1>1, <2>2, <3>1
  <2>4. \A j \in 1 .. Len(q) : (f \o g)[j] = IF j <= k THEN f[j] ELSE g[j - k]
    BY <1>1, <2>2
  <2>5. \A j \in 1 .. Len(q) : (f \o g)[j] = q[j]
    <3>1. TAKE j \in 1 .. Len(q)
    <3>2. CASE j <= k
      <4>1. j \in 1 .. k
        BY <3>2
      <4>2. QED BY <2>2, <2>4, <3>2, <4>1, Zenon
    <3>3. CASE ~(j <= k)
      <4>1. j - k \in 1 .. Len(q) - k /\ k + (j - k) = j
        BY <1>1, <3>3
      <4>2. g[j - k] = q[k + (j - k)]
        BY <2>2, <4>1, Zenon
      <4>3. QED BY <2>4, <3>3, <4>1, <4>2, Zenon
    <3>4. QED BY <3>2, <3>3, Zenon
  <2>6. f \o g = q
    <3>1. ASSUME NEW x \in Seq(S), Len(x) = Len(q), \A j \in 1 .. Len(q) : x[j] = q[j] PROVE x = q
      BY <3>1
    <3>2. QED BY <2>3, <2>5, <3>1, Zenon
  <2>7. QED BY <2>1, <2>2, <2>6, Zenon
<1>4. QED BY <1>2, <1>3, Zenon

\* Each in-buffer is on one of three lists, once.
Dealt(a, u, c) == /\ IsInjective(a \o u \o c) /\ Range(a \o u \o c) = InBufs
                  /\ Len(a) + Len(u) + Len(c) = Cardinality(InBufs)

\* Dealt, without the concatenation.
LEMMA DealtFacts ==
  ASSUME NEW a \in Seq(InBufs), NEW u \in Seq(InBufs), NEW c \in Seq(InBufs)
  PROVE  Dealt(a, u, c) <=>
            /\ IsInjective(a) /\ IsInjective(u) /\ IsInjective(c)
            /\ Range(a) \cap Range(u) = {} /\ Range(a) \cap Range(c) = {} /\ Range(u) \cap Range(c) = {}
            /\ Range(a) \cup Range(u) \cup Range(c) = InBufs
            /\ Len(a) + Len(u) + Len(c) = Cardinality(InBufs)
<1>1. /\ a \o u \in Seq(InBufs) /\ Range(a \o u) = Range(a) \cup Range(u)
      /\ IsInjective(a \o u) <=> IsInjective(a) /\ IsInjective(u) /\ Range(a) \cap Range(u) = {}
  BY ConcatFacts, Zenon
<1>2. /\ Range(a \o u \o c) = Range(a \o u) \cup Range(c)
      /\ IsInjective(a \o u \o c) <=> IsInjective(a \o u) /\ IsInjective(c) /\ Range(a \o u) \cap Range(c) = {}
  BY <1>1, ConcatFacts, Zenon
<1>3. (Range(a) \cup Range(u)) \cap Range(c) = {} <=> Range(a) \cap Range(c) = {} /\ Range(u) \cap Range(c) = {}
  BY Zenon
<1>4. QED BY <1>1, <1>2, <1>3, Zenon DEF Dealt

\* The first filled buffer becomes the current one;
LEMMA DealtTake ==
  ASSUME NEW a \in Seq(InBufs), NEW u \in Seq(InBufs), u # <<>>, Dealt(a, u, <<>>)
  PROVE  Dealt(a, Tail(u), <<Head(u)>>)
<1>p. PICK h, r, e : h = <<Head(u)>> /\ r = Tail(u) /\ e = <<>>
  BY Zenon
<1>1. r \in Seq(InBufs) /\ h \in Seq(InBufs) /\ e \in Seq(InBufs) /\ Len(h) = 1
  BY <1>p
<1>2. u = h \o r
  BY <1>p, SplitFacts, Zenon
<1>3. /\ Range(u) = Range(h) \cup Range(r) /\ Len(u) = Len(h) + Len(r)
      /\ IsInjective(u) <=> IsInjective(h) /\ IsInjective(r) /\ Range(h) \cap Range(r) = {}
  <2>1. Range(h \o r) = Range(h) \cup Range(r) /\ Len(h \o r) = Len(h) + Len(r)
    BY <1>1, ConcatFacts, Zenon
  <2>2. IsInjective(h \o r) <=> IsInjective(h) /\ IsInjective(r) /\ Range(h) \cap Range(r) = {}
    BY <1>1, ConcatFacts, Zenon
  <2>3. QED BY <1>2, <2>1, <2>2, Zenon
<1>4. Range(e) = {} /\ Len(e) = 0
  BY <1>p DEF Range
<1>5. Len(a) \in Nat /\ Len(r) \in Nat
  BY <1>1
<1>6. /\ IsInjective(a) /\ IsInjective(u) /\ Range(a) \cap Range(u) = {}
      /\ Range(a) \cup Range(u) \cup Range(e) = InBufs /\ Len(a) + Len(u) + Len(e) = Cardinality(InBufs)
  <2>1. Dealt(a, u, e)
    BY <1>p, Zenon
  <2>2. e \in Seq(InBufs)
    BY <1>1, Zenon
  <2>3. QED BY <2>1, <2>2, DealtFacts, Zenon
<1>7. Len(a) + Len(r) + Len(h) = Cardinality(InBufs)
  BY <1>1, <1>3, <1>4, <1>5, <1>6
<1>8. /\ Range(a) \cap Range(r) = {} /\ Range(a) \cap Range(h) = {} /\ Range(r) \cap Range(h) = {}
      /\ Range(a) \cup Range(r) \cup Range(h) = InBufs
  BY <1>3, <1>4, <1>6, Zenon
<1>9. Dealt(a, r, h)
  BY <1>1, <1>3, <1>6, <1>7, <1>8, DealtFacts, Zenon
<1>10. QED BY <1>p, <1>9, Zenon

\* the current buffer, or all of them, are posted again;
LEMMA DealtPost ==
  ASSUME NEW a \in Seq(InBufs), NEW u \in Seq(InBufs), NEW c \in Seq(InBufs), Dealt(a, u, c)
  PROVE  Dealt(a \o c, u, <<>>) /\ Dealt(a \o c \o u, <<>>, <<>>)
<1>p. PICK b, d, e : b = a \o c /\ d = b \o u /\ e = <<>>
  BY Zenon
<1>1. e \in Seq(InBufs) /\ Range(e) = {} /\ Len(e) = 0 /\ IsInjective(e)
  BY <1>p DEF Range, IsInjective
<1>2. /\ IsInjective(a) /\ IsInjective(u) /\ IsInjective(c)
      /\ Range(a) \cap Range(u) = {} /\ Range(a) \cap Range(c) = {} /\ Range(u) \cap Range(c) = {}
      /\ Range(a) \cup Range(u) \cup Range(c) = InBufs
      /\ Len(a) + Len(u) + Len(c) = Cardinality(InBufs)
  BY DealtFacts, Zenon
<1>3. /\ b \in Seq(InBufs) /\ Range(b) = Range(a) \cup Range(c) /\ Len(b) = Len(a) + Len(c)
      /\ IsInjective(b)
  BY <1>p, <1>2, ConcatFacts
<1>4. Range(b) \cap Range(u) = {} /\ Range(b) \cup Range(u) = InBufs
  BY <1>2, <1>3, Zenon
<1>5. /\ d \in Seq(InBufs) /\ Range(d) = Range(b) \cup Range(u)
      /\ Len(d) = Len(b) + Len(u) /\ IsInjective(d)
  BY <1>p, <1>2, <1>3, <1>4, ConcatFacts, Zenon
<1>6. Len(b) + Len(u) + Len(e) = Cardinality(InBufs) /\ Len(d) + Len(e) + Len(e) = Cardinality(InBufs)
  <2>1. Len(a) \in Nat /\ Len(c) \in Nat /\ Len(u) \in Nat
    OBVIOUS
  <2>2. QED BY <1>1, <1>2, <1>3, <1>5, <2>1
<1>7. Dealt(b, u, e)
  <2>1. /\ Range(b) \cap Range(e) = {} /\ Range(u) \cap Range(e) = {}
        /\ Range(b) \cup Range(u) \cup Range(e) = InBufs
    BY <1>1, <1>4, Zenon
  <2>2. QED BY <1>1, <1>2, <1>3, <1>4, <1>6, <2>1, DealtFacts, Zenon
<1>8. Dealt(d, e, e)
  <2>1. /\ Range(d) \cap Range(e) = {} /\ Range(e) \cap Range(e) = {}
        /\ Range(d) \cup Range(e) \cup Range(e) = InBufs
    BY <1>1, <1>4, <1>5, Zenon
  <2>2. QED BY <1>1, <1>5, <1>6, <2>1, DealtFacts, Zenon
<1>9. QED BY <1>p, <1>7, <1>8, Zenon

\* the host fills the first that are posted.
LEMMA DealtFill ==
  ASSUME NEW a \in Seq(InBufs), NEW u \in Seq(InBufs), NEW c \in Seq(InBufs), Dealt(a, u, c),
         NEW k \in 0 .. Len(a)
  PROVE  Dealt(SubSeq(a, k + 1, Len(a)), u \o SubSeq(a, 1, k), c)
<1>1. PICK f, g : f = SubSeq(a, 1, k) /\ g = SubSeq(a, k + 1, Len(a))
  BY Zenon
<1>2. f \in Seq(InBufs) /\ g \in Seq(InBufs) /\ a = f \o g
  BY <1>1, SplitFacts, Zenon
<1>3. /\ IsInjective(a) /\ IsInjective(u) /\ IsInjective(c)
      /\ Range(a) \cap Range(u) = {} /\ Range(a) \cap Range(c) = {} /\ Range(u) \cap Range(c) = {}
      /\ Range(a) \cup Range(u) \cup Range(c) = InBufs
      /\ Len(a) + Len(u) + Len(c) = Cardinality(InBufs)
  BY DealtFacts, Zenon
<1>4. /\ Range(a) = Range(f) \cup Range(g) /\ IsInjective(f) /\ IsInjective(g) /\ Range(f) \cap Range(g) = {}
      /\ Len(a) = Len(f) + Len(g)
  BY <1>2, <1>3, ConcatFacts
<1>5. Range(u) \cap Range(f) = {}
  BY <1>3, <1>4, Zenon
<1>6. /\ u \o f \in Seq(InBufs) /\ Range(u \o f) = Range(u) \cup Range(f) /\ IsInjective(u \o f)
      /\ Len(u \o f) = Len(u) + Len(f)
  BY <1>2, <1>3, <1>4, <1>5, ConcatFacts
<1>7. Len(g) + Len(u \o f) + Len(c) = Cardinality(InBufs)
  <2>1. Len(f) \in Nat /\ Len(g) \in Nat /\ Len(u) \in Nat /\ Len(c) \in Nat
    BY <1>2
  <2>2. QED BY <1>3, <1>4, <1>6, <2>1
<1>8. /\ Range(g) \cap Range(u \o f) = {} /\ Range(g) \cap Range(c) = {} /\ Range(u \o f) \cap Range(c) = {}
      /\ Range(g) \cup Range(u \o f) \cup Range(c) = InBufs
  BY <1>3, <1>4, <1>6, Zenon
<1>9. Dealt(g, u \o f, c)
  BY <1>2, <1>3, <1>4, <1>6, <1>7, <1>8, DealtFacts, Zenon
<1>10. QED BY <1>1, <1>9, Zenon

\* Until the port is unplugged, a single caller and the host have each in-buffer
\* once; what the caller posts again is the current one.
OnceInv ==
    Listed /\ Single =>
        /\ Dealt(iavail, Bufs(iused), Current)
        /\ \A t \in Tasks : pc[t] = "requeue" => inbuf # NoChunk /\ rbuf[t] = inbuf.buf

\* The buffers of the rest;
LEMMA BufsTail ==
  ASSUME NEW q \in Seq(Chunk), q # <<>>
  PROVE  Bufs(q) # <<>> /\ Head(Bufs(q)) = Head(q).buf /\ Bufs(Tail(q)) = Tail(Bufs(q))
<1>1. /\ Len(q) \in Nat \ {0} /\ Bufs(q) \in Seq(InBufs) /\ Len(Bufs(q)) = Len(q)
      /\ \A k \in 1 .. Len(q) : Bufs(q)[k] = q[k].buf
  BY BufsType
<1>2. /\ Tail(q) \in Seq(Chunk) /\ Len(Tail(q)) = Len(q) - 1
      /\ \A k \in 1 .. Len(q) - 1 : Tail(q)[k] = q[k + 1]
  OBVIOUS
<1>3. /\ Bufs(Tail(q)) \in Seq(InBufs) /\ Len(Bufs(Tail(q))) = Len(q) - 1
      /\ \A k \in 1 .. Len(q) - 1 : Bufs(Tail(q))[k] = Tail(q)[k].buf
  BY <1>2, BufsType, Zenon
<1>4. Head(Bufs(q)) = Bufs(q)[1] /\ Head(q) = q[1] /\ Bufs(q) # <<>>
  BY <1>1
<1>5. /\ Tail(Bufs(q)) \in Seq(InBufs) /\ Len(Tail(Bufs(q))) = Len(q) - 1
      /\ \A k \in 1 .. Len(q) - 1 : Tail(Bufs(q))[k] = Bufs(q)[k + 1]
  BY <1>1, <1>4
<1>6. \A k \in 1 .. Len(q) - 1 : Tail(Bufs(q))[k] = Bufs(Tail(q))[k]
  <2>1. \A k \in 1 .. Len(q) - 1 : k + 1 \in 1 .. Len(q)
    BY <1>1
  <2>2. QED BY <1>1, <1>2, <1>3, <1>5, <2>1, Zenon
<1>7. Bufs(Tail(q)) = Tail(Bufs(q))
  BY <1>3, <1>5, <1>6, SameSeq, Zenon
<1>8. Head(Bufs(q)) = Head(q).buf
  <2>1. 1 \in 1 .. Len(q)
    BY <1>1
  <2>2. QED BY <1>1, <1>4, <2>1, Zenon
<1>9. QED BY <1>4, <1>7, <1>8, Zenon

\* and of two sequences.
LEMMA BufsConcat ==
  ASSUME NEW q \in Seq(Chunk), NEW r \in Seq(Chunk)
  PROVE  Bufs(q \o r) = Bufs(q) \o Bufs(r)
<1>1. /\ Len(q) \in Nat /\ Bufs(q) \in Seq(InBufs) /\ Len(Bufs(q)) = Len(q)
      /\ \A k \in 1 .. Len(q) : Bufs(q)[k] = q[k].buf
  BY BufsType
<1>2. /\ Len(r) \in Nat /\ Bufs(r) \in Seq(InBufs) /\ Len(Bufs(r)) = Len(r)
      /\ \A k \in 1 .. Len(r) : Bufs(r)[k] = r[k].buf
  BY BufsType
<1>3. /\ q \o r \in Seq(Chunk) /\ Len(q \o r) = Len(q) + Len(r)
      /\ \A k \in 1 .. Len(q) + Len(r) : (q \o r)[k] = IF k <= Len(q) THEN q[k] ELSE r[k - Len(q)]
  OBVIOUS
<1>4. /\ Bufs(q \o r) \in Seq(InBufs) /\ Len(Bufs(q \o r)) = Len(q) + Len(r)
      /\ \A k \in 1 .. Len(q) + Len(r) : Bufs(q \o r)[k] = (q \o r)[k].buf
  BY <1>3, BufsType, Zenon
<1>5. /\ Bufs(q) \o Bufs(r) \in Seq(InBufs) /\ Len(Bufs(q) \o Bufs(r)) = Len(q) + Len(r)
      /\ \A k \in 1 .. Len(q) + Len(r) :
            (Bufs(q) \o Bufs(r))[k] = IF k <= Len(q) THEN Bufs(q)[k] ELSE Bufs(r)[k - Len(q)]
  <2>1. PICK x \in Seq(InBufs), y \in Seq(InBufs) : x = Bufs(q) /\ y = Bufs(r)
    BY <1>1, <1>2, Zenon
  <2>2. /\ x \o y \in Seq(InBufs) /\ Len(x \o y) = Len(x) + Len(y)
        /\ \A k \in 1 .. Len(x) + Len(y) : (x \o y)[k] = IF k <= Len(x) THEN x[k] ELSE y[k - Len(x)]
    OBVIOUS
  <2>3. Len(x) = Len(q) /\ Len(y) = Len(r)
    BY <1>1, <1>2, <2>1, Zenon
  <2>4. QED BY <2>1, <2>2, <2>3, Zenon
<1>6. ASSUME NEW k \in 1 .. Len(q) + Len(r) PROVE (Bufs(q) \o Bufs(r))[k] = Bufs(q \o r)[k]
  <2>1. CASE k <= Len(q)
    <3>1. k \in 1 .. Len(q)
      BY <1>1, <2>1
    <3>2. QED BY <1>1, <1>3, <1>4, <1>5, <2>1, <3>1, Zenon
  <2>2. CASE ~(k <= Len(q))
    <3>1. k - Len(q) \in 1 .. Len(r)
      BY <1>1, <1>2, <2>2
    <3>2. QED BY <1>2, <1>3, <1>4, <1>5, <2>2, <3>1, Zenon
  <2>3. QED BY <2>1, <2>2, Zenon
<1>7. QED BY <1>4, <1>5, <1>6, SameSeq, Zenon

\* A filled buffer becomes current.
LEMMA TakeOnce ==
  ASSUME InInv, Dealt(iavail, Bufs(iused), Current), iavail' = iavail,
         \/ iused' = iused /\ Current' = Current
         \/ inbuf = NoChunk /\ iused # <<>> /\ iused' = Tail(iused) /\ Current' = <<Head(iused).buf>>
  PROVE  Dealt(iavail', Bufs(iused'), Current')
<1>1. iavail \in Seq(InBufs) /\ iused \in Seq(Chunk) /\ Bufs(iused) \in Seq(InBufs)
  BY BufsType, Zenon DEF InInv
<1>2. CASE iused' = iused /\ Current' = Current
  BY <1>2, Zenon
<1>3. CASE inbuf = NoChunk /\ iused # <<>> /\ iused' = Tail(iused) /\ Current' = <<Head(iused).buf>>
  <2>1. Current = <<>>
    BY <1>3, Zenon DEF Current
  <2>2. Bufs(iused) # <<>> /\ Head(Bufs(iused)) = Head(iused).buf /\ Bufs(Tail(iused)) = Tail(Bufs(iused))
    BY <1>1, <1>3, BufsTail, Zenon
  <2>3. Dealt(iavail, Tail(Bufs(iused)), <<Head(Bufs(iused))>>)
    BY <1>1, <2>1, <2>2, DealtTake, Zenon
  <2>4. QED BY <1>3, <2>2, <2>3, Zenon
<1>4. QED BY <1>2, <1>3, Zenon

\* get_inbuf keeps the buffers dealt.
LEMMA TakeInbufOnce ==
  ASSUME InInv, Dealt(iavail, Bufs(iused), Current), TakeInbuf
  PROVE  Dealt(iavail', Bufs(iused'), Current') /\ (inbuf # NoChunk => inbuf' = inbuf)
<1>1. CASE inbuf # NoChunk \/ iused = <<>>
  <2>1. iused' = iused /\ iavail' = iavail /\ inbuf' = inbuf
    BY <1>1, Zenon DEF TakeInbuf, get_inbuf
  <2>2. Current' = Current
    BY <2>1, Zenon DEF Current
  <2>3. QED BY <2>1, <2>2, TakeOnce, Zenon
<1>2. CASE inbuf = NoChunk /\ iused # <<>>
  <2>1. iused' = Tail(iused) /\ iavail' = iavail /\ inbuf' = Head(iused)
    BY <1>2, Zenon DEF TakeInbuf, get_inbuf
  <2>2. Current' = <<Head(iused).buf>>
    BY <1>2, <2>1, GetFacts, Zenon DEF Current
  <2>3. QED BY <1>2, <2>1, <2>2, TakeOnce, Zenon
<1>3. QED BY <1>1, <1>2, Zenon

\* All are posted again.
LEMMA DiscardOnce ==
  ASSUME InInv, Dealt(iavail, Bufs(iused), Current), discard_port_data, portdev
  PROVE  Dealt(iavail', Bufs(iused'), Current')
<1>1. iavail' = iavail \o Current \o Bufs(iused) /\ iused' = <<>> /\ inbuf' = NoChunk
  BY Zenon DEF discard_port_data, Current, Bufs
<1>2. Current' = <<>> /\ Bufs(iused') = <<>>
  <2>1. Bufs(<<>>) = <<>>
    BY DEF Bufs
  <2>2. QED BY <1>1, <2>1, Zenon DEF Current
<1>3. iavail \in Seq(InBufs) /\ Bufs(iused) \in Seq(InBufs) /\ Current \in Seq(InBufs)
  BY BufsType, CurrentType, Zenon DEF InInv
<1>4. Dealt(iavail \o Current \o Bufs(iused), <<>>, <<>>)
  BY <1>3, DealtPost, Zenon
<1>5. QED BY <1>1, <1>2, <1>4, Zenon

\* The host fills some.
LEMMA ServeOnce ==
  ASSUME IInv, CallInv, InInv, Dealt(iavail, Bufs(iused), Current), HostServe
  PROVE  Dealt(iavail', Bufs(iused'), Current')
<1>0. Current' = Current
  BY Zenon DEF HostServe, Current
<1>1. CASE UNCHANGED <<iused, iavail>>
  BY <1>0, <1>1, Zenon
<1>2. CASE /\ iused' = iused \o Answer(content[elem])
           /\ iavail' = SubSeq(iavail, Len(Answer(content[elem])) + 1, Len(iavail))
  <2>1. content[elem] \in Calls
    BY ServedCall, Zenon DEF HostServe
  <2>2. PICK a : a = Answer(content[elem])
    BY Zenon
  <2>3. a \in Seq(Chunk) /\ Len(a) <= Len(iavail) /\ Bufs(a) = SubSeq(iavail, 1, Len(a))
    BY <2>1, <2>2, AnswerFacts, Zenon
  <2>4. iavail \in Seq(InBufs) /\ iused \in Seq(Chunk) /\ Bufs(iused) \in Seq(InBufs) /\ Current \in Seq(InBufs)
    BY BufsType, CurrentType, Zenon DEF InInv
  <2>5. Len(a) \in 0 .. Len(iavail)
    BY <2>3, <2>4
  <2>6. Dealt(SubSeq(iavail, Len(a) + 1, Len(iavail)), Bufs(iused) \o SubSeq(iavail, 1, Len(a)), Current)
    BY <2>4, <2>5, DealtFill, Zenon
  <2>7. Bufs(iused \o a) = Bufs(iused) \o SubSeq(iavail, 1, Len(a))
    BY <2>3, <2>4, BufsConcat, Zenon
  <2>8. QED BY <1>0, <1>2, <2>2, <2>6, <2>7, Zenon
<1>3. QED BY <1>1, <1>2, Zenon DEF HostServe

\* The current buffer is posted again: there is room for it.
LEMMA RequeueOnce ==
  ASSUME InInv, Dealt(iavail, Bufs(iused), Current), NEW t \in Tasks, FillRequeue(t),
         inbuf # NoChunk, rbuf[t] = inbuf.buf
  PROVE  Dealt(iavail', Bufs(iused'), Current')
<1>1. iavail \in Seq(InBufs) /\ iused \in Seq(Chunk) /\ Bufs(iused) \in Seq(InBufs) /\ Current \in Seq(InBufs)
      /\ inbuf.buf \in InBufs /\ Len(Bufs(iused)) = Len(iused)
  BY BufsType, CurrentType, Zenon DEF InInv
<1>2. Current = <<inbuf.buf>>
  BY Zenon DEF Current
<1>3. Len(iavail) + Len(Bufs(iused)) + Len(Current) = Cardinality(InBufs)
  BY Zenon DEF Dealt
<1>4. Len(iavail) + Len(iused) < Cardinality(InBufs)
  <2>1. Len(iavail) \in Nat /\ Len(iused) \in Nat /\ Len(Current) = 1
    BY <1>1, <1>2, SingleFacts
  <2>2. QED BY <1>1, <1>3, <2>1
<1>5. iavail' = Append(iavail, inbuf.buf) /\ iused' = iused /\ inbuf' = NoChunk
  BY <1>4, Zenon DEF FillRequeue
<1>6. Append(iavail, inbuf.buf) = iavail \o Current
  BY <1>1, <1>2
<1>7. Current' = <<>>
  BY <1>5, Zenon DEF Current
<1>8. Dealt(iavail \o Current, Bufs(iused), <<>>)
  BY <1>1, DealtPost, Zenon
<1>9. QED BY <1>5, <1>6, <1>7, <1>8, Zenon

\* A step that leaves the in queue, and what is being posted, alone.
LEMMA OnceSame ==
  ASSUME OnceInv, UNCHANGED <<inbuf, iused, iavail, rbuf, setting>>, Listed' => Listed,
         \A t \in Tasks : pc'[t] = "requeue" => pc[t] = "requeue"
  PROVE  OnceInv'
<1>1. Current' = Current
  BY Zenon DEF Current
<1>2. QED BY <1>1, Zenon DEF OnceInv, Single

\* The steps of an ioctl of a single caller keep the buffers dealt;
LEMMA IoctlOnce ==
  ASSUME IInv, CallInv, InInv, OnceInv, NEW t \in setting.users, IoctlStart(t) \/ Ioctl(t) \/ Signal(t)
  PROVE  OnceInv'
<1> USE DEF guest, ivq, task
<1>t. t \in Tasks
  BY SettingsKnown, Zenon DEF IInv, TypeInv
<1>T. pc \in [Tasks -> TaskPCs] /\ rbuf \in [Tasks -> InBufs \cup {NoBuf}]
  BY Zenon DEF IInv, TypeInv, InInv
<1>1. UNCHANGED <<portdev, cpc, setting>>
  BY Zenon DEF IoctlStart, Ioctl, Signal, WriteReady, WriteBlocked, IoctlRefused, IoctlBuild,
       IoctlUnknown, Send, Spin, ReadCheck, ReadWait, ReplyCheck, FillCopy, FillRequeue,
       IoctlDone
<1>2. Listed' = Listed
  BY <1>1, Zenon DEF Listed
<1>3. CASE IoctlStart(t) \/ WriteReady(t) \/ WriteBlocked(t) \/ IoctlRefused(t) \/ IoctlBuild(t) \/ IoctlUnknown(t)
           \/ Send(t) \/ Spin(t) \/ IoctlDone(t) \/ Signal(t)
  <2>1. \A u \in Tasks : pc'[u] = "requeue" => pc[u] = "requeue"
    BY <1>3, <1>t, GotoFacts, ReturnFacts DEF IoctlStart, WriteReady, WriteBlocked,
         IoctlRefused, IoctlBuild, IoctlUnknown, Send, Spin, IoctlDone, Signal
  <2>2. UNCHANGED <<inbuf, iused, iavail, rbuf>>
    BY <1>3, Zenon DEF IoctlStart, WriteReady, WriteBlocked, IoctlRefused, IoctlBuild,
         IoctlUnknown, Send, Spin, IoctlDone, Signal
  <2>3. QED BY <1>1, <1>2, <2>1, <2>2, OnceSame, ZenonT(30)
<1>4. SUFFICES ASSUME Listed, Single
               PROVE  /\ Dealt(iavail', Bufs(iused'), Current')
                      /\ \A u \in Tasks : pc'[u] = "requeue" => inbuf' # NoChunk /\ rbuf'[u] = inbuf'.buf
  BY <1>1, <1>2, Zenon DEF OnceInv, Single
<1>5. /\ Dealt(iavail, Bufs(iused), Current)
      /\ \A u \in Tasks : pc[u] = "requeue" => inbuf # NoChunk /\ rbuf[u] = inbuf.buf
  BY <1>4, Zenon DEF OnceInv
<1>6. \A u \in Tasks : u # t => pc[u] = "idle"
  BY <1>4, Zenon DEF Single, IInv, TaskInv
<1>7. CASE ReadCheck(t) \/ ReadWait(t) \/ ReplyCheck(t)
  <2>1. \A u \in Tasks : pc'[u] # "requeue"
    BY <1>7, <1>t, <1>6, GotoFacts, ReturnFacts DEF ReadCheck, ReadWait, ReplyCheck
  <2>2. CASE TakeInbuf
    BY <1>5, <2>1, <2>2, TakeInbufOnce, Zenon
  <2>3. CASE UNCHANGED ivq
    BY <1>5, <2>1, <2>3, Zenon DEF Current
  <2>4. QED BY <1>7, <2>2, <2>3, ZenonT(30) DEF ReadCheck, ReadWait, ReplyCheck
<1>8. CASE FillCopy(t) /\ ~port_has_data
  <2>1. UNCHANGED <<inbuf, iused, iavail, rbuf>>
    BY <1>8, Zenon DEF FillCopy
  <2>2. \A u \in Tasks : pc'[u] = "requeue" => pc[u] = "requeue"
    BY <1>8, <1>t, GotoFacts DEF FillCopy
  <2>3. QED BY <1>5, <2>1, <2>2, Zenon DEF Current
<1>9. CASE FillCopy(t) /\ port_has_data
  <2>1. get_inbuf \in Chunk /\ NoChunk \notin Chunk
    BY <1>9, GetFacts, Zenon DEF port_has_data
  <2>2. [get_inbuf EXCEPT !.unread = FALSE].buf = get_inbuf.buf /\ [get_inbuf EXCEPT !.unread = FALSE] \in Chunk
    BY <2>1, ChunkFacts, Zenon
  <2>3. /\ inbuf' = [get_inbuf EXCEPT !.unread = FALSE] /\ iavail' = iavail
        /\ iused' = IF inbuf = NoChunk THEN Tail(iused) ELSE iused
        /\ rbuf' = [rbuf EXCEPT ![t] = get_inbuf.buf]
    BY <1>9, Zenon DEF FillCopy
  <2>4. inbuf'.buf = get_inbuf.buf /\ inbuf' # NoChunk /\ Current' = <<get_inbuf.buf>>
    BY <2>1, <2>2, <2>3, Zenon DEF Current
  <2>5. rbuf'[t] = inbuf'.buf /\ \A u \in Tasks : u # t => pc'[u] = "idle"
    BY <1>9, <1>t, <1>T, <1>6, <2>3, <2>4, GotoFacts, Zenon DEF FillCopy
  <2>6. \A u \in Tasks : pc'[u] = "requeue" => inbuf' # NoChunk /\ rbuf'[u] = inbuf'.buf
    BY <2>4, <2>5, Zenon
  <2>7. CASE inbuf = NoChunk
    <3>1. iused # <<>> /\ get_inbuf = Head(iused) /\ iused' = Tail(iused)
      BY <1>9, <2>3, <2>7, Zenon DEF get_inbuf, port_has_data
    <3>2. QED BY <1>5, <2>3, <2>4, <2>6, <2>7, <3>1, TakeOnce, Zenon
  <2>8. CASE inbuf # NoChunk
    <3>1. get_inbuf = inbuf /\ iused' = iused
      BY <2>3, <2>8, Zenon DEF get_inbuf
    <3>2. Current' = Current
      BY <2>4, <2>8, <3>1, Zenon DEF Current
    <3>3. QED BY <1>5, <2>3, <2>6, <3>1, <3>2, TakeOnce, Zenon
  <2>9. QED BY <2>7, <2>8, Zenon
<1>10. CASE FillRequeue(t)
  <2>1. inbuf # NoChunk /\ rbuf[t] = inbuf.buf
    BY <1>10, <1>t, <1>5, ZenonT(30) DEF FillRequeue
  <2>2. \A u \in Tasks : pc'[u] # "requeue"
    BY <1>10, <1>t, <1>6, GotoFacts DEF FillRequeue
  <2>3. QED BY <1>10, <1>t, <1>5, <2>1, <2>2, RequeueOnce, Zenon
<1>11. CASE OnceInv'
  BY <1>1, <1>2, <1>4, <1>11, Zenon DEF OnceInv, Single
<1>12. QED BY <1>3, <1>7, <1>8, <1>9, <1>10, <1>11, Zenon DEF Ioctl

\* and so do all the others, while the port is listed.
LEMMA OnceKeeps ==
  ASSUME IInv, OpenInv, CallInv, InInv, OnceInv, [Next]_vars
  PROVE  OnceInv'
<1> USE DEF guest, ivq, task, host
<1>T. pc \in [Tasks -> TaskPCs]
  BY Zenon DEF IInv, TypeInv
<1>1. CASE \E t \in setting.users : IoctlStart(t) \/ Ioctl(t) \/ Signal(t)
  BY <1>1, IoctlOnce, Zenon
<1>2. CASE PollWrite \/ out_intr \/ OpenFind \/ OpenConnect \/ OpenReclaim \/ OpenNotify \/ ReleaseNotify
           \/ ReleaseReclaim \/ CtlPortOpen \/ CtlReclaim \/ CtlPortRemove \/ UnplugReclaim \/ HostDiscard
           \/ HostOutput \/ HostPop \/ HostRefuse \/ HostPush \/ HostNotify \/ HostClose \/ HostOpen \/ HostUnplug
           \/ UNCHANGED vars
  <2>1. UNCHANGED <<inbuf, iused, iavail, rbuf, setting>>
    BY <1>2, Zenon DEF PollWrite, out_intr, OpenFind, OpenConnect, OpenReclaim, OpenNotify,
         ReleaseNotify, ReleaseReclaim, CtlPortOpen, CtlReclaim, CtlPortRemove, UnplugReclaim,
         HostDiscard, HostOutput, HostPop, HostRefuse, HostPush, HostNotify, HostClose,
         HostOpen, HostUnplug, vars
  <2>2. Wake \/ UNCHANGED pc
    BY <1>2, Zenon DEF PollWrite, out_intr, OpenFind, OpenConnect, OpenReclaim, OpenNotify,
         ReleaseNotify, ReleaseReclaim, CtlPortOpen, CtlReclaim, CtlPortRemove, UnplugReclaim,
         HostDiscard, HostOutput, HostPop, HostRefuse, HostPush, HostNotify, HostClose,
         HostOpen, HostUnplug, vars
  <2>3. portdev' = portdev /\ (cpc' = cpc \/ cpc \in {"idle", "reclaim"} \/ cpc' \notin {"idle", "reclaim"})
    BY <1>2, Zenon DEF PollWrite, out_intr, OpenFind, OpenConnect, OpenReclaim, OpenNotify,
         ReleaseNotify, ReleaseReclaim, CtlPortOpen, CtlReclaim, CtlPortRemove, UnplugReclaim,
         HostDiscard, HostOutput, HostPop, HostRefuse, HostPush, HostNotify, HostClose,
         HostOpen, HostUnplug, vars, TakeControl
  <2>4. Listed' => Listed
    BY <2>3, Zenon DEF Listed
  <2>5. \A u \in Tasks : pc'[u] = "requeue" => pc[u] = "requeue"
    BY <1>T, <2>2, WakeFacts, Zenon DEF Awake
  <2>6. QED BY <2>1, <2>4, <2>5, OnceSame, Zenon
<1>3. CASE UnplugDiscard \/ UnplugDetach
  <2>1. ~Listed'
    BY <1>3, Zenon DEF UnplugDiscard, UnplugDetach, Listed
  <2>2. QED BY <2>1, Zenon DEF OnceInv
<1>4. CASE PollRead \/ HostServe \/ ReleaseDiscard \/ in_intr
  <2>1. UNCHANGED <<portdev, cpc, setting, rbuf>> /\ (Wake \/ UNCHANGED pc)
    BY <1>4, Zenon DEF PollRead, HostServe, ReleaseDiscard, in_intr
  <2>2. SUFFICES ASSUME Listed, Single
                 PROVE  /\ Dealt(iavail', Bufs(iused'), Current')
                        /\ \A u \in Tasks : pc'[u] = "requeue" => inbuf' # NoChunk /\ rbuf'[u] = inbuf'.buf
    BY <2>1, Zenon DEF OnceInv, Single, Listed
  <2>3. /\ Dealt(iavail, Bufs(iused), Current) /\ portdev
        /\ \A u \in Tasks : pc[u] = "requeue" => inbuf # NoChunk /\ rbuf[u] = inbuf.buf
    BY <2>2, Zenon DEF OnceInv, Listed
  <2>4. \A u \in Tasks : pc'[u] = "requeue" => pc[u] = "requeue"
    BY <1>T, <2>1, WakeFacts, Zenon DEF Awake
  <2>5. CASE HostServe
    <3>1. inbuf' = inbuf
      BY <2>5, Zenon DEF HostServe
    <3>2. QED BY <2>1, <2>3, <2>4, <2>5, <3>1, ServeOnce, Zenon
  <2>6. CASE PollRead \/ (in_intr /\ guest_connected)
    <3>1. TakeInbuf
      BY <2>2, <2>6, Zenon DEF PollRead, in_intr
    <3>2. Dealt(iavail', Bufs(iused'), Current') /\ (inbuf # NoChunk => inbuf' = inbuf)
      BY <2>3, <3>1, TakeInbufOnce, Zenon
    <3>3. QED BY <2>1, <2>3, <2>4, <3>2, Zenon
  <2>7. CASE ReleaseDiscard \/ (in_intr /\ ~guest_connected)
    <3>1. discard_port_data
      BY <2>2, <2>7, Zenon DEF ReleaseDiscard, in_intr
    <3>2. file # "open"
      BY <2>2, <2>7, Zenon DEF ReleaseDiscard, in_intr, OpenInv
    <3>3. \A u \in Tasks : pc[u] = "idle"
      BY <3>2, Zenon DEF IInv, TaskInv
    <3>4. \A u \in Tasks : pc'[u] # "requeue"
      BY <2>4, <3>3, Zenon
    <3>5. QED BY <2>3, <3>1, <3>4, DiscardOnce, Zenon
  <2>8. QED BY <1>4, <2>5, <2>6, <2>7, Zenon
<1>5. QED BY <1>1, <1>2, <1>3, <1>4, Zenon DEF Next, Interrupt, OpenRelease, Control, Output

----------------------------------------------------------------------------
(* Answers of one page to a single caller of a blocking file, whose back   *)
(* end does not re-open.                                                   *)

Alone == Single /\ ~setting.nonblock /\ "reopen" \notin setting.faults

\* The port was unplugged under the file, for good.
Dead == ~guest_connected /\ ~Listed /\ file # "found"

\* The one answer there is belongs to the call of t, which the host has done.
Done(t) == executed[call[t]] = "ok"
OneAnswer(n) == \/ inbuf # NoChunk /\ iused = <<>> /\ inbuf.call = n
                \/ inbuf = NoChunk /\ Len(iused) = 1 /\ Head(iused).call = n

\* What is on the in queue, for each step of the ioctl.
DataInv(t) ==
    /\ pc[t] \in {"idle", "write", "writeSleep", "ready"} => NoData \/ Dead
    /\ pc[t] \in {"send", "readWait", "readSleep", "copy"} => NoData
    /\ pc[t] \in {"spin", "read", "fill"} => NoData \/ (OneAnswer(call[t]) /\ Done(t))
    /\ pc[t] = "reply" => \/ OneAnswer(call[t]) /\ Done(t)
                          \/ NoData /\ (~guest_connected \/ ~host_connected)
    /\ pc[t] = "requeue" => iused = <<>>

\* What the caller has: a request that is its own, and an answer to it.
GotInv(t) ==
    /\ pc[t] \in {"send", "spin"} => content[cell[t]] = call[t]
    /\ pc[t] \notin {"idle", "requeue", "copy"} => got[t] = NoCall
    /\ pc[t] \in {"requeue", "copy"} => got[t] \in {NoCall, call[t]}
    /\ pc[t] \in {"fill", "requeue", "copy"} => Done(t)

AnswerInv ==
    Alone => /\ "open" \notin Range(ctl)
             /\ guest_connected /\ ~Listed => NoData
             /\ oavail # <<>> \/ hpc = "exec" => NoData
             /\ \A t \in setting.users : DataInv(t) /\ GotInv(t)

\* The caller is the only one, and what is on the out queue is its request.
LEMMA AloneFacts ==
  ASSUME IInv, Alone, NEW t \in setting.users
  PROVE  /\ t \in Tasks /\ setting.users = {t}
         /\ ~NoneQueued => pc[t] = "spin" /\ OneQueued(cell[t]) /\ cell[t] # NoCell
<1>1. t \in Tasks /\ setting.users = {t}
  BY Zenon DEF Alone, Single
<1>2. ASSUME ~NoneQueued PROVE pc[t] = "spin" /\ OneQueued(cell[t]) /\ cell[t] # NoCell
  <2>1. olock # NoTask /\ cell[olock] \in heap /\ OneQueued(cell[olock])
    BY <1>2, Zenon DEF IInv, BlockInv, Alone
  <2>2. olock \in Tasks /\ cell[olock] # NoCell
    BY <2>1, NoneFresh, Zenon DEF IInv, TypeInv
  <2>3. pc[olock] = "spin"
    BY <2>2, Zenon DEF IInv, SpinInv
  <2>4. olock \in setting.users
    BY <2>2, <2>3, Zenon DEF IInv, TaskInv
  <2>5. QED BY <1>1, <2>1, <2>2, <2>3, <2>4, Zenon
<1>3. QED BY <1>1, <1>2, Zenon

\* What QEMU serves for a single caller is the request its task spins on.
LEMMA ServedFacts ==
  ASSUME IInv, Alone, NEW t \in setting.users, hpc = "exec"
  PROVE  pc[t] = "spin" /\ elem = cell[t] /\ oavail = <<>>
<1>1. elem # NoCell
  BY Zenon DEF IInv, HostInv
<1>2. ~NoneQueued
  BY <1>1, Zenon DEF NoneQueued
<1>3. QED BY <1>1, <1>2, AloneFacts, Zenon DEF OneQueued

\* There is an answer, or there is none.
LEMMA OneOrNone ==
  ASSUME NEW n, OneAnswer(n)
  PROVE  ~NoData
  BY DEF OneAnswer, NoData

\* One chunk that is taken leaves nothing.
LEMMA TailOfOne ==
  ASSUME NEW S, NEW q \in Seq(S), Len(q) = 1
  PROVE  q # <<>> /\ Tail(q) = <<>>
<1>1. q # <<>>
  OBVIOUS
<1>2. Tail(q) \in Seq(S) /\ Len(Tail(q)) = 0
  BY <1>1, TailFacts
<1>3. QED BY <1>1, <1>2, RangeFacts, Zenon

\* A step that leaves the answer where it is, or makes it current.
Kept == /\ NoData => NoData'
        /\ \A n \in Calls : OneAnswer(n) => OneAnswer(n)'
        /\ iused = <<>> => iused' = <<>>

\* get_inbuf does so.
LEMMA KeptFacts ==
  ASSUME InInv, UNCHANGED <<inbuf, iused>> \/ TakeInbuf
  PROVE  Kept
<1>1. CASE UNCHANGED <<inbuf, iused>>
  BY <1>1, Zenon DEF Kept, NoData, OneAnswer
<1>2. CASE TakeInbuf
  <2>1. NoData => NoData'
    BY <1>2, TakeNone, Zenon
  <2>2. iused = <<>> => iused' = <<>>
    BY <1>2, Zenon DEF TakeInbuf
  <2>3. ASSUME NEW n \in Calls, OneAnswer(n) PROVE OneAnswer(n)'
    <3>1. CASE inbuf # NoChunk /\ iused = <<>> /\ inbuf.call = n
      BY <1>2, <3>1, Zenon DEF TakeInbuf, get_inbuf, OneAnswer
    <3>2. CASE inbuf = NoChunk /\ Len(iused) = 1 /\ Head(iused).call = n
      <4>1. iused # <<>> /\ Tail(iused) = <<>>
        BY <3>2, TailOfOne, Zenon DEF InInv
      <4>2. inbuf' = Head(iused) /\ iused' = <<>> /\ Head(iused) # NoChunk
        BY <1>2, <3>2, <4>1, GetFacts, Zenon DEF TakeInbuf, get_inbuf
      <4>3. QED BY <3>2, <4>2, Zenon DEF OneAnswer
    <3>3. QED BY <2>3, <3>1, <3>2, Zenon DEF OneAnswer
  <2>4. QED BY <2>1, <2>2, <2>3, Zenon DEF Kept
<1>3. QED BY <1>1, <1>2, Zenon

\* So it keeps the answer to a call.
LEMMA KeptCall ==
  ASSUME Kept, NEW t, call[t] \in Calls, UNCHANGED call, OneAnswer(call[t])
  PROVE  OneAnswer(call[t])'
<1>1. PICK n \in Calls : n = call[t] /\ n = call'[t]
  BY Zenon
<1>2. OneAnswer(n) => OneAnswer(n)'
  BY Zenon DEF Kept
<1>3. QED BY <1>1, <1>2, Zenon DEF OneAnswer

\* Steps of others: the answer stays,
LEMMA DataKept ==
  ASSUME NEW t \in Tasks, CallInv, DataInv(t), GotInv(t), UNCHANGED <<call, got, content, cell, executed>>,
         Awake, Kept, Dead => Dead' \/ NoData,
         pc[t] = "reply" /\ (~guest_connected \/ ~host_connected) => ~guest_connected' \/ ~host_connected'
  PROVE  DataInv(t)' /\ GotInv(t)'
<1>1. pc'[t] = pc[t] \/ (pc[t] = "writeSleep" /\ pc'[t] = "write") \/ (pc[t] = "readSleep" /\ pc'[t] = "readWait")
  BY Zenon DEF Awake
<1>2. Done(t)' <=> Done(t)
  BY Zenon DEF Done
<1>3. pc[t] # "idle" => (OneAnswer(call[t]) => OneAnswer(call[t])')
  BY KeptCall, Zenon DEF CallInv
<1>4. (NoData => NoData') /\ (iused = <<>> => iused' = <<>>)
  BY Zenon DEF Kept
<1>5. DataInv(t)'
  <2>1. pc'[t] \in {"idle", "write", "writeSleep", "ready"} => NoData' \/ Dead'
    <3>1. pc'[t] \in {"idle", "write", "writeSleep", "ready"} => pc[t] \in {"idle", "write", "writeSleep", "ready"}
      BY <1>1, Zenon
    <3>2. QED BY <1>4, <3>1, Zenon DEF DataInv
  <2>2. pc'[t] \in {"send", "readWait", "readSleep", "copy"} => NoData'
    <3>1. pc'[t] \in {"send", "readWait", "readSleep", "copy"} => pc[t] \in {"send", "readWait", "readSleep", "copy"}
      BY <1>1, Zenon
    <3>2. QED BY <1>4, <3>1, Zenon DEF DataInv
  <2>3. pc'[t] \in {"spin", "read", "fill"} => NoData' \/ (OneAnswer(call[t])' /\ Done(t)')
    <3>1. pc'[t] \in {"spin", "read", "fill"} => pc[t] \in {"spin", "read", "fill"} /\ pc[t] # "idle"
      BY <1>1, Zenon
    <3>2. QED BY <1>2, <1>3, <1>4, <3>1, Zenon DEF DataInv
  <2>4. pc'[t] = "reply" => \/ OneAnswer(call[t])' /\ Done(t)'
                            \/ NoData' /\ (~guest_connected' \/ ~host_connected')
    <3>1. pc'[t] = "reply" => pc[t] = "reply" /\ pc[t] # "idle"
      BY <1>1, Zenon
    <3>2. QED BY <1>2, <1>3, <1>4, <3>1, Zenon DEF DataInv
  <2>5. pc'[t] = "requeue" => iused' = <<>>
    <3>1. pc'[t] = "requeue" => pc[t] = "requeue"
      BY <1>1, Zenon
    <3>2. QED BY <1>4, <3>1, Zenon DEF DataInv
  <2>6. QED BY <2>1, <2>2, <2>3, <2>4, <2>5, Zenon DEF DataInv
<1>6. GotInv(t)'
  <2>1. /\ pc'[t] \in {"send", "spin"} => pc[t] \in {"send", "spin"}
        /\ pc'[t] \notin {"idle", "requeue", "copy"} => pc[t] \notin {"idle", "requeue", "copy"}
        /\ pc'[t] \in {"requeue", "copy"} => pc[t] \in {"requeue", "copy"}
        /\ pc'[t] \in {"fill", "requeue", "copy"} => pc[t] \in {"fill", "requeue", "copy"}
    BY <1>1, Zenon
  <2>2. QED BY <1>2, <2>1, Zenon DEF GotInv
<1>7. QED BY <1>5, <1>6, Zenon

\* or it is taken away.
LEMMA DataCleared ==
  ASSUME NEW t \in Tasks, CallInv, DataInv(t), GotInv(t), UNCHANGED <<call, got, content, cell, executed>>,
         Awake, NoData', pc[t] = "reply" => ~guest_connected' \/ ~host_connected'
  PROVE  DataInv(t)' /\ GotInv(t)'
<1>1. pc'[t] = pc[t] \/ (pc[t] = "writeSleep" /\ pc'[t] = "write") \/ (pc[t] = "readSleep" /\ pc'[t] = "readWait")
  BY Zenon DEF Awake
<1>2. Done(t)' <=> Done(t)
  BY Zenon DEF Done
<1>3. DataInv(t)'
  <2>1. pc'[t] = "reply" => pc[t] = "reply"
    BY <1>1, Zenon
  <2>2. iused' = <<>>
    BY Zenon DEF NoData
  <2>3. QED BY <2>1, <2>2, Zenon DEF DataInv
<1>6. GotInv(t)'
  <2>1. /\ pc'[t] \in {"send", "spin"} => pc[t] \in {"send", "spin"}
        /\ pc'[t] \notin {"idle", "requeue", "copy"} => pc[t] \notin {"idle", "requeue", "copy"}
        /\ pc'[t] \in {"requeue", "copy"} => pc[t] \in {"requeue", "copy"}
        /\ pc'[t] \in {"fill", "requeue", "copy"} => pc[t] \in {"fill", "requeue", "copy"}
    BY <1>1, Zenon
  <2>2. QED BY <1>2, <2>1, Zenon DEF GotInv
<1>7. QED BY <1>3, <1>6, Zenon

\* The steps of the ioctl of a single caller keep what is on the in queue, and what
\* the caller has.
LEMMA IoctlData ==
  ASSUME IInv, OpenInv, CallInv, InInv, Alone, NEW t \in setting.users, DataInv(t), GotInv(t),
         guest_connected /\ ~Listed => NoData, IoctlStart(t) \/ Ioctl(t) \/ Signal(t)
  PROVE  DataInv(t)' /\ GotInv(t)' /\ (NoData => NoData')
<1> USE DEF guest, ivq, task, host
<1>t. t \in Tasks
  BY AloneFacts, Zenon
<1>T. /\ pc \in [Tasks -> TaskPCs] /\ got \in [Tasks -> Calls \cup {NoCall}]
      /\ cell \in [Tasks -> Cells \cup {NoCell}] /\ content \in [Cells -> Calls \cup {NoCall}]
  BY Zenon DEF IInv, TypeInv, InInv, CallInv
<1>f. UNCHANGED <<guest_connected, host_connected, portdev, cpc, file, executed>>
  BY Zenon DEF IoctlStart, Ioctl, Signal, WriteReady, WriteBlocked, IoctlRefused, IoctlBuild,
       IoctlUnknown, Send, Spin, ReadCheck, ReadWait, ReplyCheck, FillCopy, FillRequeue,
       IoctlDone
<1>d. Dead' <=> Dead
  BY <1>f, Zenon DEF Dead, Listed
<1>1. CASE IoctlStart(t)
  <2>1. pc[t] = "idle" /\ pc'[t] = "write" /\ got'[t] = NoCall /\ UNCHANGED <<inbuf, iused>>
    BY <1>1, <1>t, <1>T, GotoFacts, Zenon DEF IoctlStart
  <2>2. NoData' <=> NoData
    BY <2>1, Zenon DEF NoData
  <2>3. QED BY <1>d, <2>1, <2>2, Zenon DEF DataInv, GotInv
<1>2. CASE WriteReady(t) \/ WriteBlocked(t) \/ IoctlRefused(t) \/ IoctlUnknown(t)
  <2>1. /\ pc[t] \in {"write", "ready"} /\ pc'[t] \in {"idle", "writeSleep", "ready"}
        /\ UNCHANGED <<inbuf, iused, got>>
    BY <1>2, <1>t, GotoFacts, Zenon DEF WriteReady, WriteBlocked, IoctlRefused, IoctlUnknown
  <2>2. NoData' <=> NoData
    BY <2>1, Zenon DEF NoData
  <2>3. QED BY <1>d, <2>1, <2>2, Zenon DEF DataInv, GotInv
<1>3. CASE IoctlBuild(t)
  <2>1. PICK c \in Cells \ heap : cell' = [cell EXCEPT ![t] = c] /\ content' = [content EXCEPT ![c] = call[t]]
    BY <1>3, Zenon DEF IoctlBuild
  <2>2. pc[t] = "ready" /\ pc'[t] = "send" /\ UNCHANGED <<inbuf, iused, got, call>> /\ guest_connected
    BY <1>3, <1>t, GotoFacts, Zenon DEF IoctlBuild
  <2>3. content'[cell'[t]] = call'[t]
    BY <1>t, <1>T, <2>1, <2>2, Zenon
  <2>4. NoData' <=> NoData
    BY <2>2, Zenon DEF NoData
  <2>5. NoData
    BY <2>2, Zenon DEF DataInv, Dead
  <2>6. QED BY <2>2, <2>3, <2>4, <2>5, Zenon DEF DataInv, GotInv
<1>4. CASE Send(t)
  <2>1. pc[t] = "send" /\ pc'[t] \in {"spin", "read"} /\ UNCHANGED <<inbuf, iused, got, call, cell, content>>
    BY <1>4, <1>t, GotoFacts, Zenon DEF Send
  <2>2. NoData' /\ NoData
    BY <2>1, Zenon DEF NoData, DataInv
  <2>3. QED BY <2>1, <2>2, Zenon DEF DataInv, GotInv
<1>5. CASE Spin(t)
  <2>1. pc[t] = "spin" /\ pc'[t] = "read" /\ UNCHANGED <<inbuf, iused, got, call>>
    BY <1>5, <1>t, GotoFacts, Zenon DEF Spin
  <2>2. NoData' <=> NoData
    BY <2>1, Zenon DEF NoData
  <2>3. (OneAnswer(call[t])' <=> OneAnswer(call[t])) /\ (Done(t)' <=> Done(t))
    BY <1>f, <2>1, Zenon DEF OneAnswer, Done
  <2>4. QED BY <2>1, <2>2, <2>3, Zenon DEF DataInv, GotInv
<1>6. CASE ReadCheck(t)
  <2>1. pc[t] = "read" /\ TakeInbuf /\ UNCHANGED <<got, call>>
    BY <1>6, Zenon DEF ReadCheck
  <2>2. Kept
    BY <2>1, KeptFacts, Zenon
  <2>3. CASE port_has_data
    <3>1. pc'[t] = "reply"
      BY <1>6, <1>t, <2>3, GotoFacts, Zenon DEF ReadCheck
    <3>2. ~NoData
      BY <2>3, GetFacts, Zenon DEF NoData
    <3>3. OneAnswer(call[t]) /\ Done(t) /\ call[t] \in Calls
      BY <1>t, <2>1, <3>2, Zenon DEF DataInv, CallInv
    <3>4. OneAnswer(call[t])' /\ Done(t)'
      BY <1>f, <2>1, <2>2, <3>3, KeptCall, Zenon DEF Done
    <3>5. QED BY <2>1, <2>2, <3>1, <3>4, Zenon DEF DataInv, GotInv, Kept
  <2>4. CASE ~port_has_data
    <3>1. pc'[t] \in {"readWait", "idle"}
      BY <1>6, <1>t, <2>4, GotoFacts, ReturnFacts, Zenon DEF ReadCheck
    <3>2. NoData
      BY <2>4, GetFacts, Zenon DEF NoData
    <3>3. NoData'
      BY <2>2, <3>2, Zenon DEF Kept
    <3>4. QED BY <2>1, <3>1, <3>3, Zenon DEF DataInv, GotInv
  <2>5. QED BY <2>3, <2>4, Zenon
<1>7. CASE ReadWait(t)
  <2>1. pc[t] = "readWait" /\ (TakeInbuf \/ UNCHANGED <<inbuf, iused>>) /\ UNCHANGED <<got, call>>
    BY <1>7, Zenon DEF ReadWait
  <2>2. NoData
    BY <2>1, Zenon DEF DataInv
  <2>3. NoData'
    BY <2>1, <2>2, KeptFacts, Zenon DEF Kept
  <2>4. pc'[t] = IF will_read_block THEN "readSleep" ELSE "reply"
    BY <1>7, <1>t, GotoFacts, Zenon DEF ReadWait
  <2>5. ~will_read_block => ~guest_connected \/ ~host_connected
    BY <2>2, GetFacts, Zenon DEF will_read_block, NoData
  <2>6. QED BY <1>f, <2>1, <2>3, <2>4, <2>5, Zenon DEF DataInv, GotInv
<1>8. CASE ReplyCheck(t)
  <2>1. pc[t] = "reply" /\ (TakeInbuf \/ UNCHANGED <<inbuf, iused>>) /\ UNCHANGED <<got, call>>
    BY <1>8, Zenon DEF ReplyCheck
  <2>2. Kept
    BY <2>1, KeptFacts, Zenon
  <2>3. CASE guest_connected /\ (port_has_data \/ host_connected)
    <3>1. pc'[t] = "fill"
      BY <1>8, <1>t, <2>3, GotoFacts, Zenon DEF ReplyCheck
    <3>2. OneAnswer(call[t]) /\ Done(t) /\ call[t] \in Calls
      BY <1>t, <2>1, <2>3, GetFacts, Zenon DEF DataInv, CallInv, NoData
    <3>3. OneAnswer(call[t])' /\ Done(t)'
      BY <1>f, <2>1, <2>2, <3>2, KeptCall, Zenon DEF Done
    <3>4. QED BY <2>1, <2>2, <3>1, <3>3, Zenon DEF DataInv, GotInv, Kept
  <2>4. CASE ~(guest_connected /\ (port_has_data \/ host_connected))
    <3>1. pc'[t] = "idle"
      BY <1>8, <1>t, <2>4, ReturnFacts, Zenon DEF ReplyCheck
    <3>2. CASE guest_connected
      <4>1. NoData
        BY <2>4, <3>2, GetFacts, Zenon DEF NoData
      <4>2. NoData'
        BY <2>2, <4>1, Zenon DEF Kept
      <4>3. QED BY <3>1, <4>2, Zenon DEF DataInv, GotInv
    <3>3. CASE ~guest_connected
      <4>1. file = "open"
        BY <1>t, <2>1, Zenon DEF IInv, TaskInv
      <4>2. Dead
        BY <3>3, <4>1, Zenon DEF OpenInv, Dead
      <4>3. QED BY <1>d, <2>2, <3>1, <4>2, Zenon DEF DataInv, GotInv, Kept
    <3>4. QED BY <3>2, <3>3, Zenon
  <2>5. QED BY <2>3, <2>4, Zenon
<1>9. CASE FillCopy(t) /\ ~port_has_data
  <2>1. pc[t] = "fill" /\ pc'[t] = "copy" /\ UNCHANGED <<got, call, inbuf, iused>>
    BY <1>9, <1>t, GotoFacts, Zenon DEF FillCopy
  <2>2. NoData'
    BY <1>9, <2>1, GetFacts, Zenon DEF NoData
  <2>3. Done(t)'
    BY <1>f, <2>1, Zenon DEF GotInv, Done
  <2>4. got'[t] = NoCall
    BY <2>1, Zenon DEF GotInv
  <2>5. QED BY <2>1, <2>2, <2>3, <2>4, Zenon DEF DataInv, GotInv
<1>10. CASE FillCopy(t) /\ port_has_data
  <2>1. pc[t] = "fill" /\ pc'[t] = "requeue" /\ call' = call
    BY <1>10, <1>t, GotoFacts, Zenon DEF FillCopy
  <2>2. /\ got' = [got EXCEPT ![t] = IF get_inbuf.unread THEN get_inbuf.call ELSE NoCall]
        /\ iused' = IF inbuf = NoChunk THEN Tail(iused) ELSE iused
    BY <1>10, Zenon DEF FillCopy
  <2>3. ~NoData
    BY <1>10, GetFacts, Zenon DEF NoData
  <2>4. OneAnswer(call[t])
    BY <2>1, <2>3, Zenon DEF DataInv
  <2>5. iused' = <<>> /\ get_inbuf.call = call[t]
    <3>1. CASE inbuf # NoChunk /\ iused = <<>> /\ inbuf.call = call[t]
      BY <2>2, <3>1, Zenon DEF get_inbuf
    <3>2. CASE inbuf = NoChunk /\ Len(iused) = 1 /\ Head(iused).call = call[t]
      <4>1. iused # <<>> /\ Tail(iused) = <<>>
        BY <3>2, TailOfOne, Zenon DEF InInv
      <4>2. QED BY <2>2, <3>2, <4>1, Zenon DEF get_inbuf
    <3>3. QED BY <2>4, <3>1, <3>2, Zenon DEF OneAnswer
  <2>6. got'[t] \in {NoCall, call'[t]}
    BY <1>t, <1>T, <2>1, <2>2, <2>5, Zenon
  <2>7. Done(t)'
    BY <1>f, <2>1, Zenon DEF GotInv, Done
  <2>8. QED BY <2>1, <2>3, <2>5, <2>6, <2>7, Zenon DEF DataInv, GotInv
<1>11. CASE FillRequeue(t)
  <2>1. pc[t] = "requeue" /\ pc'[t] = "copy" /\ UNCHANGED <<got, call, iused>> /\ inbuf' = NoChunk
    BY <1>11, <1>t, GotoFacts, Zenon DEF FillRequeue
  <2>2. NoData'
    BY <2>1, Zenon DEF NoData, DataInv
  <2>3. Done(t)'
    BY <1>f, <2>1, Zenon DEF GotInv, Done
  <2>4. QED BY <2>1, <2>2, <2>3, Zenon DEF DataInv, GotInv
<1>12. CASE IoctlDone(t) \/ Signal(t)
  <2>1. pc[t] \in {"copy", "writeSleep", "readSleep"} /\ pc'[t] = "idle" /\ UNCHANGED <<got, call, inbuf, iused>>
    BY <1>12, <1>t, ReturnFacts, Zenon DEF IoctlDone, Signal
  <2>2. NoData' <=> NoData
    BY <2>1, Zenon DEF NoData
  <2>3. QED BY <1>d, <2>1, <2>2, Zenon DEF DataInv, GotInv
<1>13. QED BY <1>1, <1>2, <1>3, <1>4, <1>5, <1>6, <1>7, <1>8, <1>9, <1>10, <1>11, <1>12, Zenon
              DEF Ioctl

\* Steps that are not the caller's, given what they do to its data.
LEMMA OtherAnswer ==
  ASSUME IInv, CallInv, AnswerInv, Alone, UNCHANGED setting,
         "open" \notin Range(ctl'), guest_connected' /\ ~Listed' => NoData',
         oavail' # <<>> \/ hpc' = "exec" => NoData',
         \A t \in setting.users : DataInv(t) /\ GotInv(t) => DataInv(t)' /\ GotInv(t)'
  PROVE  AnswerInv'
  BY Zenon DEF AnswerInv

\* The guest side: poll, open, release and the interrupts;
LEMMA GuestAnswer ==
  ASSUME IInv, OpenInv, CallInv, InInv, AnswerInv, Alone, PollRead \/ PollWrite \/ OpenRelease \/ Interrupt
  PROVE  AnswerInv'
<1> USE DEF guest, ivq, task, host, ovq
<1>T. pc \in [Tasks -> TaskPCs]
  BY Zenon DEF IInv, TypeInv
<1>0. /\ "open" \notin Range(ctl) /\ (guest_connected /\ ~Listed => NoData)
      /\ (oavail # <<>> \/ hpc = "exec" => NoData) /\ \A t \in setting.users : DataInv(t) /\ GotInv(t)
  BY Zenon DEF AnswerInv
<1>u. setting.users \subseteq Tasks
  BY AloneFacts, Zenon
<1>1. /\ UNCHANGED <<call, got, content, cell, executed>> /\ UNCHANGED <<setting, ctl, host_connected>>
      /\ UNCHANGED <<portdev, cpc, oavail, hpc>>
  BY Zenon DEF PollRead, PollWrite, OpenRelease, OpenFind, OpenConnect, OpenReclaim,
       OpenNotify, ReleaseNotify, ReleaseDiscard, ReleaseReclaim, Interrupt, in_intr, out_intr,
       reclaim_consumed_buffers, SendPortOpen
<1>2. Wake \/ UNCHANGED pc
  BY Zenon DEF PollRead, PollWrite, OpenRelease, OpenFind, OpenConnect, OpenReclaim,
       OpenNotify, ReleaseNotify, ReleaseDiscard, ReleaseReclaim, Interrupt, in_intr, out_intr
<1>3. Awake
  BY <1>T, <1>2, WakeFacts, Zenon
<1>4. Listed' <=> Listed
  BY <1>1, Zenon DEF Listed
<1>5. CASE OpenConnect
  <2>1. file = "found" /\ UNCHANGED <<inbuf, iused, pc>>
    BY <1>5, Zenon DEF OpenConnect
  <2>2. \A t \in setting.users : pc[t] = "idle"
    BY <1>u, <2>1, Zenon DEF IInv, TaskInv
  <2>3. (\A t \in setting.users : NoData \/ Dead) /\ ~Dead /\ \E t \in setting.users : TRUE
    BY <1>0, <2>1, <2>2, Zenon DEF DataInv, Dead, Alone, Single
  <2>4. NoData'
    BY <2>1, <2>3, Zenon DEF NoData
  <2>5. \A t \in setting.users : pc[t] # "reply"
    BY <2>2, Zenon
  <2>6. \A t \in setting.users : DataInv(t) /\ GotInv(t) => DataInv(t)' /\ GotInv(t)'
    BY <1>u, <1>1, <1>3, <2>4, <2>5, DataCleared, Zenon
  <2>7. QED BY <1>0, <1>1, <2>4, <2>6, OtherAnswer, Zenon
<1>6. CASE ReleaseDiscard \/ (in_intr /\ Listed /\ ~guest_connected)
  <2>1. guest_connected' = FALSE /\ discard_port_data
    BY <1>6, Zenon DEF ReleaseDiscard, in_intr, IInv, TypeInv
  <2>2. CASE portdev
    <3>1. NoData'
      BY <2>1, <2>2, Zenon DEF discard_port_data, NoData
    <3>2. \A t \in setting.users : DataInv(t) /\ GotInv(t) => DataInv(t)' /\ GotInv(t)'
      BY <1>u, <1>1, <1>3, <2>1, <3>1, DataCleared, Zenon
    <3>3. QED BY <1>0, <1>1, <3>1, <3>2, OtherAnswer, Zenon
  <2>3. CASE ~portdev
    <3>1. UNCHANGED <<inbuf, iused>> /\ ~Listed
      BY <2>1, <2>3, Zenon DEF discard_port_data, Listed
    <3>2. Kept
      BY <3>1, KeptFacts, Zenon
    <3>3. file' # "found"
      BY <1>6, <3>1, Zenon DEF ReleaseDiscard
    <3>4. Dead'
      BY <1>4, <2>1, <3>1, <3>3, Zenon DEF Dead
    <3>5. \A t \in setting.users : DataInv(t) /\ GotInv(t) => DataInv(t)' /\ GotInv(t)'
      BY <1>u, <1>1, <1>3, <2>1, <3>2, <3>4, DataKept, Zenon
    <3>6. QED BY <1>0, <1>1, <2>1, <3>2, <3>5, OtherAnswer, Zenon DEF Kept
  <2>4. QED BY <2>2, <2>3, Zenon
<1>7. CASE PollRead \/ PollWrite \/ OpenFind \/ OpenReclaim \/ OpenNotify \/ ReleaseNotify \/ ReleaseReclaim
           \/ out_intr \/ (in_intr /\ ~(Listed /\ ~guest_connected))
  <2>1. UNCHANGED <<inbuf, iused>> \/ TakeInbuf
    BY <1>7, Zenon DEF PollRead, PollWrite, OpenFind, OpenReclaim, OpenNotify, ReleaseNotify,
         ReleaseReclaim, out_intr, in_intr
  <2>2. Kept
    BY <2>1, KeptFacts, Zenon
  <2>3. guest_connected' = guest_connected
    BY <1>7, Zenon DEF PollRead, PollWrite, OpenFind, OpenReclaim, OpenNotify, ReleaseNotify,
         ReleaseReclaim, out_intr, in_intr
  <2>4. file' # "found" \/ file' = file \/ Listed
    BY <1>7, Zenon DEF PollRead, PollWrite, OpenFind, OpenReclaim, OpenNotify, ReleaseNotify,
         ReleaseReclaim, out_intr, in_intr
  <2>5. Dead => Dead'
    BY <1>4, <2>3, <2>4, Zenon DEF Dead
  <2>6. \A t \in setting.users : DataInv(t) /\ GotInv(t) => DataInv(t)' /\ GotInv(t)'
    BY <1>u, <1>1, <1>3, <2>2, <2>3, <2>5, DataKept, Zenon
  <2>7. QED BY <1>0, <1>1, <1>4, <2>2, <2>3, <2>6, OtherAnswer, Zenon DEF Kept
<1>8. QED BY <1>5, <1>6, <1>7, Zenon DEF OpenRelease, Interrupt

\* the control messages and unplugging, none of which is an "open";
LEMMA ControlAnswer ==
  ASSUME IInv, OpenInv, CallInv, InInv, AnswerInv, Alone, Control
  PROVE  AnswerInv'
<1> USE DEF guest, ivq, task, host, ovq
<1>T. pc \in [Tasks -> TaskPCs]
  BY Zenon DEF IInv, TypeInv
<1>0. /\ "open" \notin Range(ctl) /\ (guest_connected /\ ~Listed => NoData)
      /\ (oavail # <<>> \/ hpc = "exec" => NoData) /\ \A t \in setting.users : DataInv(t) /\ GotInv(t)
  BY Zenon DEF AnswerInv
<1>u. setting.users \subseteq Tasks
  BY AloneFacts, Zenon
<1>1. /\ UNCHANGED <<call, got, content, cell, executed>> /\ UNCHANGED <<setting, file>>
      /\ UNCHANGED <<oavail, hpc>>
  BY Zenon DEF Control, CtlPortOpen, CtlReclaim, CtlPortRemove, UnplugDiscard, UnplugReclaim,
       UnplugDetach, reclaim_consumed_buffers
<1>2. Wake \/ UNCHANGED pc
  BY Zenon DEF Control, CtlPortOpen, CtlReclaim, CtlPortRemove, UnplugDiscard, UnplugReclaim,
       UnplugDetach
<1>3. Awake
  BY <1>T, <1>2, WakeFacts, Zenon
<1>4. "open" \notin Range(ctl') /\ (ctl # <<>> => Head(ctl) # "open")
  <2>1. ctl' = ctl \/ (ctl # <<>> /\ ctl' = Tail(ctl))
    BY Zenon DEF Control, CtlPortOpen, CtlReclaim, CtlPortRemove, UnplugDiscard, UnplugReclaim,
         UnplugDetach, TakeControl
  <2>2. ctl # <<>> => Head(ctl) \in Range(ctl) /\ Range(Tail(ctl)) \subseteq Range(ctl)
    BY TailFacts, Zenon DEF IInv, TypeInv
  <2>3. QED BY <1>0, <2>1, <2>2, Zenon
<1>5. CASE UnplugDiscard
  <2>1. ~Listed /\ ~Listed'
    BY <1>5, Zenon DEF UnplugDiscard, Listed
  <2>2. discard_port_data /\ UNCHANGED <<guest_connected, host_connected>>
    BY <1>5, Zenon DEF UnplugDiscard
  <2>3. CASE NoData \/ ~portdev
    <3>1. UNCHANGED <<inbuf, iused>>
      BY <2>2, <2>3, Zenon DEF discard_port_data, NoData
    <3>2. Kept
      BY <3>1, KeptFacts, Zenon
    <3>3. Dead => Dead'
      BY <1>1, <2>1, <2>2, Zenon DEF Dead
    <3>4. \A t \in setting.users : DataInv(t) /\ GotInv(t) => DataInv(t)' /\ GotInv(t)'
      BY <1>u, <1>1, <1>3, <2>2, <3>2, <3>3, DataKept, Zenon
    <3>5. QED BY <1>0, <1>1, <1>4, <2>1, <2>2, <3>2, <3>4, OtherAnswer, Zenon DEF Kept
  <2>4. CASE ~NoData /\ portdev
    <3>1. ~guest_connected
      BY <1>0, <2>1, <2>4, Zenon
    <3>2. NoData'
      BY <2>2, <2>4, Zenon DEF discard_port_data, NoData
    <3>3. \A t \in setting.users : DataInv(t) /\ GotInv(t) => DataInv(t)' /\ GotInv(t)'
      BY <1>u, <1>1, <1>3, <2>2, <3>1, <3>2, DataCleared, Zenon
    <3>4. QED BY <1>1, <1>4, <3>2, <3>3, OtherAnswer, Zenon
  <2>5. QED BY <2>3, <2>4, Zenon
<1>6. CASE CtlPortOpen \/ CtlReclaim \/ CtlPortRemove \/ UnplugReclaim \/ UnplugDetach
  <2>1. UNCHANGED <<inbuf, iused>>
    BY <1>6, Zenon DEF CtlPortOpen, CtlReclaim, CtlPortRemove, UnplugReclaim, UnplugDetach
  <2>2. Kept
    BY <2>1, KeptFacts, Zenon
  <2>3. (guest_connected' => guest_connected) /\ (host_connected' => host_connected)
    <3>1. CASE CtlPortOpen
      <4>1. ctl # <<>> /\ host_connected' \in {host_connected, Head(ctl) = "open"} /\ UNCHANGED guest_connected
        BY <3>1, Zenon DEF CtlPortOpen, TakeControl
      <4>2. QED BY <1>4, <4>1, Zenon
    <3>2. CASE CtlPortRemove
      <4>1. CASE guest_connected
        BY <3>2, <4>1, Zenon DEF CtlPortRemove
      <4>2. CASE ~guest_connected
        BY <3>2, <4>2, Zenon DEF CtlPortRemove
      <4>3. QED BY <4>1, <4>2, Zenon
    <3>3. CASE CtlReclaim \/ UnplugReclaim \/ UnplugDetach
      BY <3>3 DEF CtlReclaim, UnplugReclaim, UnplugDetach
    <3>4. QED BY <1>6, <3>1, <3>2, <3>3, Zenon
  <2>4. (Listed' <=> Listed) \/ (~Listed' /\ ~guest_connected')
    BY <1>6, Zenon DEF CtlPortOpen, CtlReclaim, CtlPortRemove, UnplugReclaim, UnplugDetach,
         TakeControl, Listed, IInv, TypeInv
  <2>5. Dead => Dead'
    BY <1>1, <2>3, <2>4, Zenon DEF Dead
  <2>6. \A t \in setting.users : DataInv(t) /\ GotInv(t) => DataInv(t)' /\ GotInv(t)'
    BY <1>u, <1>1, <1>3, <2>2, <2>3, <2>5, DataKept, Zenon
  <2>7. QED BY <1>0, <1>1, <1>4, <2>2, <2>3, <2>4, <2>6, OtherAnswer, Zenon DEF Kept
<1>7. QED BY <1>5, <1>6, Zenon DEF Control

\* the host, which answers the request of the caller with one page at most;
LEMMA ServeAnswer ==
  ASSUME Pages = 1, IInv, CallInv, InInv, AnswerInv, Alone, HostServe \/ HostRefuse
  PROVE  AnswerInv'
<1> USE DEF guest, ivq, task, host, ovq
<1>0. PICK t \in setting.users : DataInv(t) /\ GotInv(t) /\ setting.users = {t} /\ t \in Tasks
  BY AloneFacts, Zenon DEF AnswerInv, Alone, Single
<1>1. hpc = "exec" /\ hpc' = "push"
  BY Zenon DEF HostServe, HostRefuse
<1>2. pc[t] = "spin" /\ elem = cell[t] /\ oavail = <<>>
  BY <1>1, ServedFacts, Zenon
<1>3. /\ "open" \notin Range(ctl) /\ NoData
  BY <1>1, Zenon DEF AnswerInv
<1>4. content[elem] = call[t] /\ call[t] \in Calls
  BY <1>0, <1>2, Zenon DEF GotInv, CallInv
<1>5. UNCHANGED <<setting, pc, call, got, cell, content, ctl, oavail, portdev, cpc, guest_connected, inbuf>>
  BY Zenon DEF HostServe, HostRefuse
<1>6. Listed'
  BY <1>1, <1>5, Zenon DEF IInv, HostInv, Listed
<1>7. NoData' \/ (OneAnswer(call[t])' /\ Done(t)')
  <2>1. CASE UNCHANGED iused
    BY <1>3, <1>5, <2>1, Zenon DEF NoData
  <2>2. CASE HostServe /\ iused' = iused \o Answer(content[elem])
    <3>1. PICK a : a = Answer(call[t])
      BY Zenon
    <3>2. a \in Seq(Chunk) /\ Len(a) = Min2(Pages, Len(iavail)) /\ Len(iavail) \in Nat
      BY <1>4, <3>1, AnswerFacts DEF InInv
    <3>3. iused' = a
      <4>1. iused' = <<>> \o a
        BY <1>3, <1>4, <2>2, <3>1, Zenon DEF NoData
      <4>2. QED BY <3>2, <4>1
    <3>4. inbuf' = NoChunk
      BY <1>3, <1>5, Zenon DEF NoData
    <3>5. CASE Len(iavail) = 0
      <4>1. Len(a) = 0
        BY <3>2, <3>5 DEF Min2
      <4>2. a = <<>>
        BY <3>2, <4>1
      <4>3. QED BY <3>3, <3>4, <4>2, Zenon DEF NoData
    <3>6. CASE Len(iavail) # 0
      <4>0. ASSUME NEW n \in Nat, n # 0 PROVE Min2(1, n) = 1
        BY <4>0 DEF Min2
      <4>1. Len(a) = 1 /\ Min2(Pages, Len(iavail)) = 1
        BY <3>2, <3>6, <4>0, Zenon
      <4>2. a = [p \in 1 .. 1 |-> [buf |-> iavail[p], call |-> call[t], page |-> p, unread |-> TRUE]]
        BY <3>1, <4>1, Zenon DEF Answer
      <4>3. Head(a) = a[1]
        BY <3>2, <4>1
      <4>4. Head(a).call = call[t]
        BY <4>2, <4>3
      <4>5. executed' = [executed EXCEPT ![call[t]] = "ok"] /\ executed \in [Calls -> {"no", "ok", "refused"}]
        BY <1>4, <2>2, Zenon DEF HostServe, CallInv
      <4>6. executed'[call[t]] = "ok"
        BY <1>4, <4>5, Zenon
      <4>7. QED BY <1>5, <3>3, <3>4, <4>1, <4>4, <4>6, Zenon DEF OneAnswer, Done
    <3>7. QED BY <3>5, <3>6, Zenon
  <2>3. QED BY <2>1, <2>2, Zenon DEF HostServe, HostRefuse
<1>8. DataInv(t)' /\ GotInv(t)'
  BY <1>0, <1>2, <1>5, <1>7, Zenon DEF DataInv, GotInv
<1>9. ~(oavail' # <<>> \/ hpc' = "exec")
  BY <1>1, <1>2, <1>5, Zenon
<1>10. QED BY <1>0, <1>3, <1>5, <1>6, <1>8, <1>9, OtherAnswer, Zenon

\* the other steps of QEMU;
LEMMA HostAnswer ==
  ASSUME IInv, CallInv, InInv, AnswerInv, Alone,
         HostDiscard \/ HostOutput \/ HostPop \/ HostPush \/ HostNotify \/ HostClose \/ HostOpen \/ HostUnplug
         \/ UNCHANGED vars
  PROVE  AnswerInv'
<1> USE DEF guest, ivq, task, host, ovq
<1>T. pc \in [Tasks -> TaskPCs]
  BY Zenon DEF IInv, TypeInv
<1>0. /\ "open" \notin Range(ctl) /\ (guest_connected /\ ~Listed => NoData)
      /\ (oavail # <<>> \/ hpc = "exec" => NoData) /\ \A t \in setting.users : DataInv(t) /\ GotInv(t)
  BY Zenon DEF AnswerInv
<1>u. setting.users \subseteq Tasks
  BY AloneFacts, Zenon
<1>1. /\ UNCHANGED <<call, got, content, cell, executed>> /\ UNCHANGED <<setting, file, inbuf, iused, pc>>
      /\ UNCHANGED <<portdev, cpc, guest_connected, host_connected>>
  BY Zenon DEF HostDiscard, HostOutput, HostPop, HostPush, HostNotify, HostClose, HostOpen,
       HostUnplug, vars
<1>2. Awake
  BY <1>T, <1>1, WakeFacts, Zenon
<1>3. (NoData' <=> NoData) /\ (Listed' <=> Listed) /\ (Dead' <=> Dead)
  BY <1>1, Zenon DEF NoData, Listed, Dead
<1>4. Kept
  BY <1>1, KeptFacts, Zenon
<1>5. \A t \in setting.users : DataInv(t) /\ GotInv(t) => DataInv(t)' /\ GotInv(t)'
  BY <1>u, <1>1, <1>2, <1>3, <1>4, DataKept, Zenon
<1>6. "open" \notin Range(ctl')
  <2>1. CASE UNCHANGED ctl
    BY <1>0, <2>1, Zenon
  <2>2. CASE SendControl("close")
    <3>1. Range(ctl') \subseteq Range(ctl) \cup {"close"}
      BY <2>2, SendControlFacts, Zenon
    <3>2. QED BY <1>0, <3>1, Zenon
  <2>3. CASE SendControl("remove")
    <3>1. Range(ctl') \subseteq Range(ctl) \cup {"remove"}
      BY <2>3, SendControlFacts, Zenon
    <3>2. QED BY <1>0, <3>1, Zenon
  <2>4. QED BY <2>1, <2>2, <2>3, Zenon DEF HostDiscard, HostOutput, HostPop, HostPush,
                 HostNotify, HostClose, HostOpen, HostUnplug, vars, Alone
<1>7. oavail' # <<>> \/ hpc' = "exec" => NoData'
  <2>1. CASE HostPop
    BY <1>0, <1>3, <2>1, Zenon DEF HostPop
  <2>2. CASE ~HostPop
    <3>1. (oavail' = <<>> \/ oavail' = oavail) /\ (hpc' = "exec" => hpc = "exec")
      BY <2>2, Zenon DEF HostDiscard, HostOutput, HostPush, HostNotify, HostClose, HostOpen,
           HostUnplug, vars, discard_vq_data
    <3>2. QED BY <1>0, <1>3, <3>1, Zenon
  <2>3. QED BY <2>1, <2>2, Zenon
<1>8. QED BY <1>0, <1>1, <1>3, <1>5, <1>6, <1>7, OtherAnswer, Zenon

\* and so every step keeps the answer the caller's own.
LEMMA AnswerKeeps ==
  ASSUME Pages = 1, IInv, OpenInv, CallInv, InInv, AnswerInv, [Next]_vars
  PROVE  AnswerInv'
<1>0. setting' = setting
  BY Zenon DEF Next, vars, IoctlStart, Ioctl, Signal, WriteReady, WriteBlocked, IoctlRefused,
       IoctlBuild, IoctlUnknown, Send, Spin, ReadCheck, ReadWait, ReplyCheck, FillCopy,
       FillRequeue, IoctlDone, PollRead, PollWrite, OpenRelease, OpenFind, OpenConnect,
       OpenReclaim, OpenNotify, ReleaseNotify, ReleaseDiscard, ReleaseReclaim, Interrupt,
       in_intr, out_intr, Control, CtlPortOpen, CtlReclaim, CtlPortRemove, UnplugDiscard,
       UnplugReclaim, UnplugDetach, Output, HostDiscard, HostOutput, HostPop, HostServe,
       HostRefuse, HostPush, HostNotify, HostClose, HostOpen, HostUnplug
<1>1. SUFFICES ASSUME Alone PROVE AnswerInv'
  BY <1>0, Zenon DEF AnswerInv, Alone, Single
<1>2. ASSUME NEW t \in setting.users, IoctlStart(t) \/ Ioctl(t) \/ Signal(t) PROVE AnswerInv'
  <2>1. /\ "open" \notin Range(ctl) /\ (guest_connected /\ ~Listed => NoData)
        /\ (oavail # <<>> \/ hpc = "exec" => NoData) /\ DataInv(t) /\ GotInv(t) /\ setting.users = {t}
    BY <1>1, AloneFacts, Zenon DEF AnswerInv
  <2>2. UNCHANGED <<ctl, guest_connected, portdev, cpc, hpc>>
    BY <1>2, Zenon DEF IoctlStart, Ioctl, Signal, WriteReady, WriteBlocked, IoctlRefused,
         IoctlBuild, IoctlUnknown, Send, Spin, ReadCheck, ReadWait, ReplyCheck, FillCopy,
         FillRequeue, IoctlDone, guest, host
  <2>3. DataInv(t)' /\ GotInv(t)' /\ (NoData => NoData')
    BY <1>1, <1>2, <2>1, IoctlData, Zenon
  <2>4. oavail' = oavail \/ NoData
    <3>1. CASE Send(t)
      BY <2>1, <3>1, Zenon DEF DataInv, Send
    <3>2. CASE ~Send(t)
      BY <1>2, <3>2, Zenon DEF IoctlStart, Ioctl, Signal, WriteReady, WriteBlocked,
           IoctlRefused, IoctlBuild, IoctlUnknown, Spin, ReadCheck, ReadWait, ReplyCheck,
           FillCopy, FillRequeue, IoctlDone, ovq, reclaim_consumed_buffers
    <3>3. QED BY <3>1, <3>2, Zenon
  <2>5. Listed' <=> Listed
    BY <2>2, Zenon DEF Listed
  <2>6. QED BY <1>0, <1>1, <2>1, <2>2, <2>3, <2>4, <2>5, OtherAnswer, Zenon
<1>3. QED BY <1>1, <1>2, GuestAnswer, ControlAnswer, ServeAnswer, HostAnswer, Zenon
             DEF Next, Output

----------------------------------------------------------------------------
(* What these give.                                                        *)

\* Every in-buffer is posted, filled or current, once, while the port is listed,
\* for a single caller.
THEOREM BuffersOnce == Spec => []InBufsOnce
<1>1. Init => OnceInv
  <2> SUFFICES ASSUME Init PROVE OnceInv
    BY Zenon
  <2>1. /\ iavail \in [1 .. Cardinality(InBufs) -> InBufs] /\ Cardinality(InBufs) \in Nat
        /\ IsInjective(iavail) /\ \A b \in InBufs : \E k \in 1 .. Cardinality(InBufs) : iavail[k] = b
    BY Posted, InBufsFinite, Zenon DEF Bijection, Injection, Surjection
  <2>2. iavail \in Seq(InBufs) /\ Len(iavail) = Cardinality(InBufs)
    BY <2>1
  <2>3. Range(iavail) = InBufs
    BY <2>1, Zenon DEF Range
  <2>4. Bufs(iused) = <<>>
    <3>1. iused = <<>> /\ iused \in Seq(Chunk) /\ Len(iused) = 0
      BY DEF Init
    <3>2. Bufs(iused) \in Seq(InBufs) /\ Len(Bufs(iused)) = 0
      BY <3>1, BufsType, Zenon
    <3>3. QED BY <3>2
  <2>5. Current = <<>>
    BY Zenon DEF Init, Current
  <2>6. iavail \o <<>> \o <<>> = iavail /\ Len(iavail) + Len(<<>>) + Len(<<>>) = Len(iavail)
    BY <2>2
  <2>7. Dealt(iavail, Bufs(iused), Current)
    BY <2>1, <2>2, <2>3, <2>4, <2>5, <2>6, Zenon DEF Dealt
  <2>8. \A t \in Tasks : pc[t] # "requeue"
    BY Zenon DEF Init
  <2>9. QED BY <2>7, <2>8, Zenon DEF OnceInv
<1>2. IInv /\ GuestInv /\ OnceInv /\ [Next]_vars => OnceInv'
  BY OnceKeeps, Zenon DEF GuestInv
<1>3. OnceInv => InBufsOnce
  BY Zenon DEF OnceInv, InBufsOnce, Dealt, Bufs, Current
<1>4. QED BY <1>1, <1>2, <1>3, Invariance, GuestInvariance, PTL DEF Spec

\* A single caller of a file that blocks copies out the answer to its own request,
\* which the back end has carried out, and nothing else: whatever signals, refusals,
\* closes and unplugging happen, as long as the answers are of one page and the back
\* end does not open again once it has closed.
THEOREM OwnAnswer ==
  ASSUME Pages = 1
  PROVE  Spec => []("reopen" \notin setting.faults => AnswerIsOwn)
<1>1. Init => AnswerInv
  <2> SUFFICES ASSUME Init PROVE AnswerInv
    BY Zenon
  <2>1. "open" \notin Range(ctl)
    BY DEF Init, Range
  <2>2. NoData
    BY Zenon DEF Init, NoData
  <2>3. \A t \in setting.users : pc[t] = "idle" /\ got[t] = NoCall
    BY SettingsKnown, Zenon DEF Init
  <2>4. \A t \in setting.users : DataInv(t) /\ GotInv(t)
    BY <2>2, <2>3 DEF DataInv, GotInv
  <2>5. QED BY <2>1, <2>2, <2>4, Zenon DEF AnswerInv
<1>2. IInv /\ GuestInv /\ AnswerInv /\ [Next]_vars => AnswerInv'
  BY AnswerKeeps, Zenon DEF GuestInv
<1>3. IInv /\ AnswerInv => ("reopen" \notin setting.faults => AnswerIsOwn)
  <2> SUFFICES ASSUME IInv, AnswerInv, "reopen" \notin setting.faults, Single, ~setting.nonblock,
                      NEW t \in Tasks, pc[t] = "copy"
               PROVE  got[t] \in {NoCall, call[t]} /\ executed[call[t]] = "ok"
    BY Zenon DEF AnswerIsOwn
  <2>1. t \in setting.users
    BY DEF IInv, TaskInv
  <2>2. QED BY <2>1 DEF AnswerInv, Alone, GotInv, Done
<1>4. QED BY <1>1, <1>2, <1>3, Invariance, GuestInvariance, PTL DEF Spec

=============================================================================
