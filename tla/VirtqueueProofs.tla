--------------------------- MODULE VirtqueueProofs ---------------------------
(***************************************************************************)
(* Proofs about Virtqueue, for every size of the ring and every width of   *)
(* an index: its types, and that it implements BufferQueue.                *)
(***************************************************************************)
EXTENDS Virtqueue, FunctionTheorems, TLAPS

----------------------------------------------------------------------------
(* Indices and slots.                                                      *)

\* The quotient and the remainder.
LEMMA Division ==
  ASSUME NEW m \in Nat \ {0}, NEW x \in Int
  PROVE  x = m * (x \div m) + (x % m) /\ x \div m \in Int /\ x % m \in 0 .. m - 1
  OBVIOUS

\* Between 0 and m there is no multiple of m.
LEMMA NoMultiple ==
  ASSUME NEW m \in Nat \ {0}, NEW q \in Int, NEW d \in Int, 0 < d, d < m
  PROVE  d # m * q
<1>1. CASE q <= 0
  BY <1>1
<1>2. CASE q >= 1
  BY <1>2
<1>3. QED BY <1>1, <1>2

\* Numbers that are less than m apart, up to a multiple of m, have two remainders.
LEMMA RemaindersDiffer ==
  ASSUME NEW m \in Nat \ {0}, NEW x \in Int, NEW y \in Int, NEW k \in Int,
         0 < (y - x) + k * m, (y - x) + k * m < m
  PROVE  x % m # y % m
<1> SUFFICES ASSUME x % m = y % m PROVE FALSE
  BY Zenon
<1> DEFINE p == x \div m
           q == y \div m
           d == (y - x) + k * m
<1>1. x = m * p + (x % m) /\ y = m * q + (y % m) /\ p \in Int /\ q \in Int /\ x % m \in Int
  BY Division
<1> HIDE DEF p, q
<1>2. d = m * ((q - p) + k) /\ (q - p) + k \in Int /\ d \in Int
  BY <1>1
<1>3. 0 < d /\ d < m
  BY Zenon
<1> HIDE DEF d
<1>4. QED BY <1>2, <1>3, NoMultiple, Zenon

\* The modulus of the indices.
LEMMA Sizes ==
  /\ M \in Nat \ {0} /\ Num \in Nat \ {0} /\ 2 * Num <= M
  /\ \E k \in Int : M = k * Num
<1>1. M \in Nat /\ Num \in Nat \ {0} /\ 2 * Num <= M /\ M % Num = 0
  BY SizeFits DEF M
<1>2. M = Num * (M \div Num) /\ M \div Num \in Int
  BY <1>1, Division
<1>3. QED BY <1>1, <1>2

\* What reducing a sum or a difference of two indices gives.
LEMMA Wrap ==
  ASSUME NEW x \in Int, -M <= x, x < 2 * M
  PROVE  /\ uint(x) \in Idx
         /\ x < 0 => uint(x) = x + M
         /\ 0 <= x /\ x < M => uint(x) = x
         /\ M <= x => uint(x) = x - M
  BY Sizes DEF uint, Idx

\* The slots of fewer than Num indices in a row are all different.
LEMMA SlotsDiffer ==
  ASSUME NEW a \in Idx, NEW i \in Nat, NEW j \in Nat, i < j, j - i < Num, j < M
  PROVE  uint(a + i) % Num # uint(a + j) % Num
<1>1. PICK k \in Int : M = k * Num
  BY Sizes, Zenon
<1>2. /\ uint(a + i) \in Int /\ uint(a + j) \in Int
      /\ uint(a + i) \in {a + i, (a + i) - M} /\ uint(a + j) \in {a + j, (a + j) - M}
      /\ a \in Int /\ M \in Nat
  BY Wrap, Sizes DEF Idx
<1> DEFINE x == uint(a + i)
           y == uint(a + j)
<1> HIDE DEF x, y
<1>3. /\ x \in Int /\ y \in Int /\ k \in Int /\ -k \in Int /\ 0 \in Int
      /\ Num \in Nat \ {0} /\ M \in Int
  BY <1>1, <1>2, Sizes DEF x, y
<1>4. y - x = j - i \/ (y - x) + M = j - i \/ (y - x) - M = j - i
  BY <1>2, <1>3 DEF x, y
<1>5. 0 < j - i /\ j - i < Num
  OBVIOUS
<1>6. CASE y - x = j - i
  <2>1. (y - x) + 0 * Num = j - i
    BY <1>3, <1>6
  <2>2. QED BY <1>3, <1>5, <2>1, RemaindersDiffer, Zenon DEF x, y
<1>7. CASE (y - x) + M = j - i
  <2>1. (y - x) + k * Num = j - i
    BY <1>1, <1>7, Zenon
  <2>2. QED BY <1>3, <1>5, <2>1, RemaindersDiffer, Zenon DEF x, y
<1>8. CASE (y - x) - M = j - i
  <2>1. (y - x) + (-k) * Num = j - i
    BY <1>1, <1>3, <1>8
  <2>2. QED BY <1>3, <1>5, <2>1, RemaindersDiffer, Zenon DEF x, y
<1>9. QED BY <1>4, <1>6, <1>7, <1>8, Zenon

----------------------------------------------------------------------------
(* The entries of a ring.                                                  *)

Rings == [Heads -> Heads]

\* Every index has a slot.
LEMMA SlotIsHead ==
  ASSUME NEW a \in Idx, NEW i \in Nat, i < M
  PROVE  a % Num \in Heads /\ uint(a + i) \in Idx /\ uint(a + i) % Num \in Heads
<1>1. a \in Int /\ -M <= a + i /\ a + i < 2 * M /\ a + i \in Int
  BY Sizes DEF Idx
<1>2. uint(a + i) \in Idx
  BY <1>1, Wrap, Zenon
<1>3. uint(a + i) \in Int
  BY <1>2 DEF Idx
<1>4. QED BY <1>1, <1>2, <1>3, Sizes, Division, Zenon DEF Heads

\* How many entries there are when either index moves by one.
LEMMA Distance ==
  ASSUME NEW a \in Idx, NEW b \in Idx
  PROVE  /\ uint(b - a) \in Idx /\ uint(a + 1) \in Idx
         /\ uint(b - a) = 0 <=> a = b
         /\ uint(a + uint(b - a)) = b
         /\ uint(b - a) < M - 1 => uint(uint(b + 1) - a) = uint(b - a) + 1
         /\ a # b => uint(b - uint(a + 1)) = uint(b - a) - 1
<1>1. a \in Int /\ b \in Int /\ M \in Int /\ 0 <= a /\ a < M /\ 0 <= b /\ b < M /\ 2 <= M
  BY Sizes DEF Idx
<1>2. uint(b - a) = IF b < a THEN (b - a) + M ELSE b - a
  BY <1>1, Wrap
<1>3. uint(a + 1) = (IF a = M - 1 THEN 0 ELSE a + 1) /\ uint(b + 1) = (IF b = M - 1 THEN 0 ELSE b + 1)
  BY <1>1, Wrap
<1>4. uint(b - a) \in Idx /\ uint(a + 1) \in Idx /\ (uint(b - a) = 0 <=> a = b)
  BY <1>1, <1>2, <1>3 DEF Idx
<1>5. uint(a + uint(b - a)) = b
  BY <1>1, <1>2, Wrap
<1>6. ASSUME uint(b - a) < M - 1 PROVE uint(uint(b + 1) - a) = uint(b - a) + 1
  BY <1>1, <1>2, <1>3, <1>6, Wrap
<1>7. ASSUME a # b PROVE uint(b - uint(a + 1)) = uint(b - a) - 1
  BY <1>1, <1>2, <1>3, <1>7, Wrap
<1>8. QED BY <1>4, <1>5, <1>6, <1>7, Zenon

\* The entries are a sequence of heads.
LEMMA EntriesSeq ==
  ASSUME NEW ring \in Rings, NEW a \in Idx, NEW b \in Idx
  PROVE  /\ Entries(ring, a, b) \in Seq(Heads)
         /\ Len(Entries(ring, a, b)) = uint(b - a)
         /\ \A i \in 1 .. uint(b - a) :
                Entries(ring, a, b)[i] = ring[uint(a + (i - 1)) % Num]
<1> DEFINE n == uint(b - a)
           e == Entries(ring, a, b)
<1>0. n \in Idx
  BY Distance, Zenon
<1>1. n \in Nat /\ n < M
  BY <1>0, Sizes DEF Idx
<1>2. ASSUME NEW i \in 1 .. n
      PROVE  a + i - 1 = a + (i - 1) /\ ring[uint(a + (i - 1)) % Num] \in Heads
  <2>1. i - 1 \in Nat /\ i - 1 < M /\ a + i - 1 = a + (i - 1)
    BY <1>1, Sizes DEF Idx
  <2>2. uint(a + (i - 1)) % Num \in Heads
    BY <2>1, SlotIsHead, Zenon
  <2>3. QED BY <2>1, <2>2, Zenon DEF Rings
<1>3. e = [i \in 1 .. n |-> ring[uint(a + i - 1) % Num]]
  BY Zenon DEF Entries
<1> HIDE DEF n, e
<1>4. e = [i \in 1 .. n |-> ring[uint(a + (i - 1)) % Num]]
  BY <1>2, <1>3, Zenon
<1>5. e \in Seq(Heads) /\ Len(e) = n
  BY <1>1, <1>2, <1>4
<1>6. QED BY <1>4, <1>5, Zenon DEF n, e

\* A ring without entries.
LEMMA EntriesEmpty ==
  ASSUME NEW ring \in Rings, NEW a \in Idx
  PROVE  Entries(ring, a, a) = <<>>
  BY EntriesSeq, Distance

\* The index moves on: the entry of its slot is added at the end.
LEMMA EntriesGrow ==
  ASSUME NEW ring \in Rings, NEW a \in Idx, NEW b \in Idx, uint(b - a) < Num
  PROVE  Entries(ring, a, uint(b + 1)) = Append(Entries(ring, a, b), ring[b % Num])
<1> DEFINE n == uint(b - a)
           e == Entries(ring, a, b)
           f == Entries(ring, a, uint(b + 1))
           h == ring[b % Num]
<1>1. n \in Idx /\ uint(b + 1) \in Idx /\ uint(a + n) = b
  BY Distance, Zenon
<1>2. n \in Nat /\ n < M - 1
  BY <1>1, Sizes DEF Idx
<1>3. uint(uint(b + 1) - a) = n + 1
  BY <1>2, Distance, Zenon
<1>4. /\ e \in Seq(Heads) /\ Len(e) = n
      /\ \A i \in 1 .. n : e[i] = ring[uint(a + (i - 1)) % Num]
  BY EntriesSeq, Zenon
<1>5. /\ f \in Seq(Heads) /\ Len(f) = n + 1
      /\ \A i \in 1 .. n + 1 : f[i] = ring[uint(a + (i - 1)) % Num]
  BY <1>1, <1>3, EntriesSeq
<1>6. b % Num \in Heads
  BY <1>2, SlotIsHead, Sizes
<1>7. h \in Heads
  BY <1>6, Zenon DEF Rings
<1>8. f[n + 1] = h
  <2>1. (n + 1) - 1 = n /\ n + 1 \in 1 .. n + 1
    BY <1>2
  <2>2. QED BY <1>1, <1>5, <2>1, Zenon
<1>9. \A i \in 1 .. n : f[i] = e[i]
  BY <1>2, <1>4, <1>5
<1> HIDE DEF n, e, f, h
<1>10. f = Append(e, h)
  BY <1>2, <1>4, <1>5, <1>7, <1>8, <1>9
<1>11. QED BY <1>10, Zenon DEF e, f, h

\* The other index moves on: the first entry is gone.
LEMMA EntriesShrink ==
  ASSUME NEW ring \in Rings, NEW a \in Idx, NEW b \in Idx, a # b
  PROVE  /\ Entries(ring, a, b) # <<>>
         /\ Head(Entries(ring, a, b)) = ring[a % Num]
         /\ Entries(ring, uint(a + 1), b) = Tail(Entries(ring, a, b))
<1> DEFINE n == uint(b - a)
           e == Entries(ring, a, b)
           c == uint(a + 1)
           f == Entries(ring, c, b)
<1>1. n \in Idx /\ c \in Idx /\ n # 0 /\ uint(b - c) = n - 1
  BY Distance, Zenon
<1>2. n \in Nat /\ n > 0 /\ n < M /\ a \in Nat /\ a < M /\ M \in Nat
  BY <1>1, Sizes DEF Idx
<1>3. /\ e \in Seq(Heads) /\ Len(e) = n
      /\ \A i \in 1 .. n : e[i] = ring[uint(a + (i - 1)) % Num]
  BY EntriesSeq, Zenon
<1>4. /\ f \in Seq(Heads) /\ Len(f) = n - 1
      /\ \A i \in 1 .. n - 1 : f[i] = ring[uint(c + (i - 1)) % Num]
  BY <1>1, EntriesSeq
<1>5. ASSUME NEW i \in 1 .. n - 1 PROVE f[i] = e[i + 1]
  <2>1. i \in Nat /\ 1 <= i /\ i < M /\ c \in Nat /\ c < M
    BY <1>1, <1>2 DEF Idx
  <2>2. c = IF a = M - 1 THEN 0 ELSE a + 1
    BY <1>2, Wrap
  <2>3. uint(c + (i - 1)) = uint(a + i)
    <3>1. CASE a + i < M
      BY <1>2, <2>1, <2>2, <3>1, Wrap
    <3>2. CASE a + i >= M
      BY <1>2, <2>1, <2>2, <3>2, Wrap
    <3>3. QED BY <1>2, <2>1, <3>1, <3>2
  <2>4. (i + 1) - 1 = i /\ i + 1 \in 1 .. n
    BY <1>2, <2>1
  <2>5. QED BY <1>3, <1>4, <2>3, <2>4, Zenon
<1>6. e[1] = ring[a % Num]
  <2>1. 1 - 1 = 0 /\ a + 0 = a /\ uint(a) = a
    BY <1>2, Wrap
  <2>2. QED BY <1>2, <1>3, <2>1
<1> HIDE DEF n, e, c, f
<1>7. e # <<>> /\ Head(e) = e[1]
  BY <1>2, <1>3
<1>8. /\ Tail(e) \in Seq(Heads) /\ Len(Tail(e)) = n - 1
      /\ \A i \in 1 .. n - 1 : Tail(e)[i] = e[i + 1]
  BY <1>2, <1>3, <1>7
<1>9. f = Tail(e)
  BY <1>2, <1>4, <1>5, <1>8
<1>10. QED BY <1>6, <1>7, <1>9, Zenon DEF e, c, f

\* Writing the slot of the index does not touch the entries before it.
LEMMA EntriesKept ==
  ASSUME NEW ring \in Rings, NEW a \in Idx, NEW b \in Idx, uint(b - a) < Num, NEW h \in Heads
  PROVE  /\ [ring EXCEPT ![b % Num] = h] \in Rings
         /\ [ring EXCEPT ![b % Num] = h][b % Num] = h
         /\ Entries([ring EXCEPT ![b % Num] = h], a, b) = Entries(ring, a, b)
<1> DEFINE n == uint(b - a)
           new == [ring EXCEPT ![b % Num] = h]
           e == Entries(ring, a, b)
           f == Entries(new, a, b)
<1>1. n \in Idx /\ uint(a + n) = b
  BY Distance, Zenon
<1>2. n \in Nat /\ n < M /\ n < Num /\ Num \in Nat /\ M \in Nat
  BY <1>1, Sizes DEF Idx
<1>3. b % Num \in Heads
  BY SlotIsHead, Sizes
<1>4. new \in Rings /\ new[b % Num] = h
  BY <1>3, Zenon DEF Rings
<1>5. /\ e \in Seq(Heads) /\ Len(e) = n
      /\ \A i \in 1 .. n : e[i] = ring[uint(a + (i - 1)) % Num]
  BY EntriesSeq, Zenon
<1>6. /\ f \in Seq(Heads) /\ Len(f) = n
      /\ \A i \in 1 .. n : f[i] = new[uint(a + (i - 1)) % Num]
  BY <1>4, EntriesSeq, Zenon
<1>7. ASSUME NEW i \in 1 .. n PROVE f[i] = e[i]
  <2>1. i - 1 \in Nat /\ i - 1 < n /\ n - (i - 1) < Num /\ i - 1 < M
    BY <1>2
  <2>2. uint(a + (i - 1)) % Num # uint(a + n) % Num
    BY <1>2, <2>1, SlotsDiffer, Zenon
  <2>3. uint(a + (i - 1)) % Num \in Heads
    BY <1>2, <2>1, SlotIsHead, Zenon
  <2>4. QED BY <1>1, <1>5, <1>6, <2>2, <2>3, Zenon DEF Rings
<1> HIDE DEF n, e, f
<1>8. f = e
  BY <1>2, <1>5, <1>6, <1>7
<1>9. QED BY <1>4, <1>8, Zenon DEF e, f

----------------------------------------------------------------------------
(* Sequences of heads without duplicates.                                  *)

\* As many different heads as there are leave no head over.
LEMMA AtMostNum ==
  ASSUME NEW q \in Seq(Heads), IsInjective(q)
  PROVE  Len(q) <= Num
<1> DEFINE n == Len(q)
           f == [i \in 1 .. n |-> q[i] + 1]
<1>1. n \in Nat /\ Num \in Nat /\ DOMAIN q = 1 .. n
  BY Sizes
<1>2. \A i \in 1 .. n : q[i] \in 0 .. Num - 1
  BY <1>1 DEF Heads
<1>3. f \in [1 .. n -> 1 .. Num]
  BY <1>1, <1>2
<1>4. \A i, j \in 1 .. n : f[i] = f[j] => i = j
  BY <1>1, <1>2 DEF IsInjective
<1>5. f \in Injection(1 .. n, 1 .. Num)
  <2>1. DOMAIN f = 1 .. n
    BY Zenon
  <2> HIDE DEF f
  <2>2. QED BY <1>3, <1>4, <2>1, Zenon DEF Injection, IsInjective
<1>6. QED BY <1>1, <1>5, Fun_NatInjLeq, Zenon DEF ExistsInjection

\* A head that is not among them can be added: there is room for it.
LEMMA GrowDistinct ==
  ASSUME NEW q \in Seq(Heads), IsInjective(q), NEW h \in Heads, h \notin Range(q)
  PROVE  /\ Len(q) < Num /\ IsInjective(Append(q, h))
         /\ Range(Append(q, h)) = Range(q) \cup {h}
<1> DEFINE n == Len(q)
           r == Append(q, h)
<1>1. n \in Nat /\ DOMAIN q = 1 .. n /\ \A i \in 1 .. n : q[i] # h
  BY DEF Range
<1>2. /\ r \in Seq(Heads) /\ Len(r) = n + 1 /\ DOMAIN r = 1 .. n + 1
      /\ r[n + 1] = h /\ \A i \in 1 .. n : r[i] = q[i]
  BY <1>1
<1> HIDE DEF r
<1>3. IsInjective(r)
  BY <1>1, <1>2 DEF IsInjective
<1>4. n + 1 <= Num
  BY <1>2, <1>3, AtMostNum, Zenon
<1>5. Range(r) = Range(q) \cup {h}
  <2>1. 1 .. n + 1 = (1 .. n) \cup {n + 1}
    BY <1>1
  <2>2. QED BY <1>1, <1>2, <2>1 DEF Range
<1>6. QED BY <1>1, <1>3, <1>4, <1>5, Sizes DEF r

\* The first one can be taken away.
LEMMA ShrinkDistinct ==
  ASSUME NEW q \in Seq(Heads), IsInjective(q), q # <<>>
  PROVE  /\ Tail(q) \in Seq(Heads) /\ IsInjective(Tail(q))
         /\ Head(q) \in Range(q) \ Range(Tail(q)) /\ Range(Tail(q)) \subseteq Range(q)
<1> DEFINE n == Len(q)
           r == Tail(q)
<1>1. n \in Nat \ {0} /\ DOMAIN q = 1 .. n /\ Head(q) = q[1]
  OBVIOUS
<1>2. /\ r \in Seq(Heads) /\ DOMAIN r = 1 .. n - 1
      /\ \A i \in 1 .. n - 1 : r[i] = q[i + 1] /\ i + 1 \in 1 .. n /\ i + 1 # 1
  BY <1>1
<1> HIDE DEF r
<1>3. IsInjective(r)
  <2>1. ASSUME NEW i \in 1 .. n - 1, NEW j \in 1 .. n - 1, r[i] = r[j] PROVE i = j
    <3>1. i + 1 = j + 1
      BY <1>1, <1>2, <2>1 DEF IsInjective
    <3>2. QED BY <3>1
  <2>2. QED BY <1>2, <2>1, Zenon DEF IsInjective
<1>4. Head(q) \in Range(q) /\ Range(r) \subseteq Range(q)
  <2>1. Head(q) \in Range(q)
    BY <1>1 DEF Range
  <2>2. ASSUME NEW i \in 1 .. n - 1 PROVE r[i] \in Range(q)
    BY <1>1, <1>2, Zenon DEF Range
  <2>3. QED BY <1>2, <2>1, <2>2, Zenon DEF Range
<1>5. Head(q) \notin Range(r)
  <2>1. ASSUME NEW i \in 1 .. n - 1 PROVE r[i] # q[1]
    BY <1>1, <1>2 DEF IsInjective
  <2>2. QED BY <1>1, <1>2, <2>1, Zenon DEF Range
<1>6. QED BY <1>2, <1>3, <1>4, <1>5, Zenon DEF r

----------------------------------------------------------------------------
(* The inductive invariant.                                                *)

\* A buffer is in one place; what virtqueue_fill wrote is still there when
\* virtqueue_flush moves the index over it.
PlaceInv ==
    /\ IsInjective(Posted) /\ IsInjective(Returned)
    /\ free \cap Range(Posted) = {} /\ free \cap Range(Returned) = {}
    /\ Range(Posted) \cap Range(Returned) = {}
    /\ elem \notin free \cup Range(Posted) \cup Range(Returned)
    /\ hpc = "flush" => used[used_idx % Num] = elem

IInv == TypeOK /\ PlaceInv

\* What the sequences of the abstract queue are made of.
LEMMA QueueFacts ==
  ASSUME TypeOK
  PROVE  /\ avail \in Rings /\ used \in Rings
         /\ avail_idx \in Idx /\ last_avail_idx \in Idx /\ used_idx \in Idx /\ last_used_idx \in Idx
         /\ Posted \in Seq(Heads) /\ Returned \in Seq(Heads)
         /\ Len(Posted) = uint(avail_idx - last_avail_idx)
         /\ Len(Returned) = uint(used_idx - last_used_idx)
<1>1. /\ avail \in Rings /\ used \in Rings
      /\ avail_idx \in Idx /\ last_avail_idx \in Idx /\ used_idx \in Idx /\ last_used_idx \in Idx
  BY Zenon DEF TypeOK, Rings
<1>2. QED BY <1>1, EntriesSeq, Zenon DEF Posted, Returned

\* NoElem is not a head.
LEMMA NoElemFresh == NoElem \notin Heads
  BY Sizes DEF NoElem, Heads

----------------------------------------------------------------------------
(* The steps.                                                              *)

\* virtqueue_add_buf posts a buffer at the end.
LEMMA GuestAddStep ==
  ASSUME IInv, NEW h \in Heads, GuestAdd(h)
  PROVE  IInv' /\ Abstract!Post(h)
<1> USE DEF IInv
<1>1. /\ h \in free /\ free' = free \ {h} /\ avail' = [avail EXCEPT ![avail_idx % Num] = h]
      /\ avail_idx' = uint(avail_idx + 1) /\ gpc' = "kick"
      /\ UNCHANGED <<used, used_idx, last_used_idx, last_avail_idx, hpc, elem>>
  BY Zenon DEF GuestAdd, used_ring, host
<1>2. h \notin Range(Posted)
  BY <1>1, Zenon DEF PlaceInv
<1>3. /\ Len(Posted) < Num /\ IsInjective(Append(Posted, h))
      /\ Range(Append(Posted, h)) = Range(Posted) \cup {h}
  BY <1>2, QueueFacts, GrowDistinct, Zenon DEF PlaceInv
<1>4. uint(avail_idx - last_avail_idx) < Num
  BY <1>3, QueueFacts, Zenon
<1> DEFINE new == [avail EXCEPT ![avail_idx % Num] = h]
<1>5. /\ new \in Rings /\ new[avail_idx % Num] = h
      /\ Entries(new, last_avail_idx, avail_idx) = Posted
  BY <1>4, QueueFacts, EntriesKept DEF Posted
<1> HIDE DEF new
<1>6. Posted' = Append(Posted, h)
  <2>1. Entries(new, last_avail_idx, uint(avail_idx + 1)) = Append(Posted, h)
    BY <1>4, <1>5, QueueFacts, EntriesGrow, Zenon
  <2>2. QED BY <1>1, <2>1, Zenon DEF Posted, new
<1>7. Returned' = Returned
  BY <1>1, Zenon DEF Returned
<1>8. TypeOK'
  <2>1. avail_idx' \in Idx /\ virtqueue_num_heads' <= Num
    <3>1. uint(avail_idx - last_avail_idx) \in Idx
      BY QueueFacts, Distance, Zenon
    <3>2. uint(avail_idx - last_avail_idx) \in Int /\ uint(avail_idx - last_avail_idx) < M - 1
      BY <1>4, <3>1, Sizes DEF Idx
    <3>3. uint(uint(avail_idx + 1) - last_avail_idx) = uint(avail_idx - last_avail_idx) + 1
      BY <3>2, QueueFacts, Distance, Zenon
    <3>4. QED BY <1>1, <1>4, <3>2, <3>3, QueueFacts, Distance, Sizes DEF virtqueue_num_heads
  <2>2. avail' \in [Heads -> Heads]
    BY <1>1, <1>5, Zenon DEF new, Rings
  <2>3. /\ UNCHANGED <<dir, callback, features, ready, used, used_event, used_idx, avail_event>>
        /\ UNCHANGED <<last_avail_idx, signalled_used, last_used_idx, signalled_used_valid>>
        /\ UNCHANGED <<kicked, isr, inuse, hpc, elem>>
    BY Zenon DEF GuestAdd, queue, device, used_ring, signalled, host
  <2>4. {avail_idx', used_event', used_idx', avail_event'} \subseteq Idx
    BY <2>1, <2>3, Zenon DEF TypeOK
  <2>5. gpc' \in {"idle", "kick", "callback"} /\ free' \subseteq Heads
    BY <1>1, Zenon DEF TypeOK
  <2>6. QED BY <2>1, <2>2, <2>3, <2>4, <2>5 DEF TypeOK
<1>9. PlaceInv'
  BY <1>1, <1>2, <1>3, <1>6, <1>7, Zenon DEF PlaceInv
<1>10. Abstract!Post(h)
  BY <1>1, <1>6, <1>7, Zenon DEF Abstract!Post
<1>11. QED BY <1>8, <1>9, <1>10, Zenon

\* virtqueue_pop takes the first buffer.
LEMMA HostPopStep ==
  ASSUME IInv, HostPop
  PROVE  IInv' /\ Abstract!Take
<1> USE DEF IInv
<1>1. /\ elem = NoElem /\ last_avail_idx # avail_idx
      /\ elem' = avail[last_avail_idx % Num] /\ last_avail_idx' = uint(last_avail_idx + 1)
      /\ hpc' = "event"
      /\ UNCHANGED <<free, avail, avail_idx, used, used_idx, last_used_idx>>
  <2>1. elem = NoElem
    BY Zenon DEF TypeOK, HostPop
  <2>2. last_avail_idx # avail_idx
    BY QueueFacts, Distance, Zenon DEF HostPop, virtqueue_num_heads
  <2>3. QED BY <2>1, <2>2, Zenon DEF HostPop, avail_ring, used_ring, guest
<1>2. Posted # <<>> /\ elem' = Head(Posted) /\ Posted' = Tail(Posted)
  BY <1>1, QueueFacts, EntriesShrink, Zenon DEF Posted
<1>3. Returned' = Returned
  BY <1>1, Zenon DEF Returned
<1>4. /\ IsInjective(Tail(Posted)) /\ Head(Posted) \in Range(Posted) \ Range(Tail(Posted))
      /\ Range(Tail(Posted)) \subseteq Range(Posted)
  BY <1>2, QueueFacts, ShrinkDistinct, Zenon DEF PlaceInv
<1>5. TypeOK'
  <2>1. last_avail_idx' \in Idx /\ virtqueue_num_heads' <= Num
    <3>1. /\ uint(avail_idx - uint(last_avail_idx + 1)) = uint(avail_idx - last_avail_idx) - 1
          /\ uint(last_avail_idx + 1) \in Idx /\ uint(avail_idx - last_avail_idx) \in Idx
      BY <1>1, QueueFacts, Distance, Zenon
    <3>2. virtqueue_num_heads <= Num
      BY Zenon DEF TypeOK
    <3>3. QED BY <1>1, <3>1, <3>2, Sizes DEF virtqueue_num_heads, Idx
  <2>2. elem' \in Heads
    BY <1>1, QueueFacts, SlotIsHead, Sizes DEF Rings
  <2>3. QED BY <1>1, <2>1, <2>2, Zenon DEF TypeOK, HostPop, queue, device, avail_ring,
                 used_ring, signalled, guest
<1>6. PlaceInv'
  BY <1>1, <1>2, <1>3, <1>4, Zenon DEF PlaceInv
<1>7. Abstract!Take
  <2>1. elem' # NoElem
    BY <1>1, QueueFacts, SlotIsHead, Sizes, NoElemFresh DEF Rings
  <2>2. QED BY <1>1, <1>2, <1>3, <2>1, Zenon DEF Abstract!Take
<1>8. QED BY <1>5, <1>6, <1>7, Zenon

\* virtqueue_fill writes a slot that nobody looks at yet.
LEMMA HostFillStep ==
  ASSUME IInv, HostFill
  PROVE  IInv' /\ UNCHANGED Abstract!qvars
<1> USE DEF IInv
<1>1. /\ used' = [used EXCEPT ![used_idx % Num] = elem] /\ hpc' = "flush" /\ elem \in Heads
      /\ UNCHANGED <<free, avail, avail_idx, last_avail_idx, used_idx, last_used_idx, elem>>
  BY Zenon DEF HostFill, TypeOK, avail_ring, guest
<1>2. Len(Returned) < Num
  BY <1>1, QueueFacts, GrowDistinct, Zenon DEF PlaceInv
<1>3. uint(used_idx - last_used_idx) < Num /\ elem \in Heads
  BY <1>1, <1>2, QueueFacts, Zenon
<1> DEFINE new == [used EXCEPT ![used_idx % Num] = elem]
<1>4. /\ new \in Rings /\ new[used_idx % Num] = elem
      /\ Entries(new, last_used_idx, used_idx) = Returned
  BY <1>3, QueueFacts, EntriesKept DEF Returned
<1>5. Posted' = Posted /\ Returned' = Returned
  BY <1>1, <1>4, Zenon DEF Posted, Returned
<1>6. TypeOK'
  <2>1. used' \in [Heads -> Heads]
    BY <1>1, <1>4, Zenon DEF Rings
  <2>2. virtqueue_num_heads' = virtqueue_num_heads
    BY <1>1, Zenon DEF virtqueue_num_heads
  <2>3. QED BY <1>1, <2>1, <2>2 DEF TypeOK, HostFill, queue, device, avail_ring, signalled, guest
<1>7. PlaceInv'
  BY <1>1, <1>4, <1>5, Zenon DEF PlaceInv
<1>8. UNCHANGED Abstract!qvars
  BY <1>1, <1>5, Zenon DEF Abstract!qvars
<1>9. QED BY <1>6, <1>7, <1>8, Zenon

\* virtqueue_flush gives the buffer back at the end.
LEMMA HostFlushStep ==
  ASSUME IInv, HostFlush
  PROVE  IInv' /\ Abstract!Return(elem)
<1> USE DEF IInv
<1>1. /\ used_idx' = uint(used_idx + 1) /\ elem' = NoElem /\ elem \in Heads
      /\ used[used_idx % Num] = elem /\ hpc' \in {"pop", "notify"}
      /\ UNCHANGED <<free, avail, avail_idx, last_avail_idx, used, last_used_idx>>
  BY Zenon DEF HostFlush, TypeOK, PlaceInv, avail_ring, guest
<1>2. elem \notin Range(Returned) /\ elem # NoElem
  BY <1>1, NoElemFresh, Zenon DEF PlaceInv
<1>3. /\ Len(Returned) < Num /\ IsInjective(Append(Returned, elem))
      /\ Range(Append(Returned, elem)) = Range(Returned) \cup {elem}
  BY <1>1, <1>2, QueueFacts, GrowDistinct, Zenon DEF PlaceInv
<1>4. Returned' = Append(Returned, elem)
  <2>1. uint(used_idx - last_used_idx) < Num
    BY <1>3, QueueFacts, Zenon
  <2>2. QED BY <1>1, <2>1, QueueFacts, EntriesGrow, Zenon DEF Returned
<1>5. Posted' = Posted
  BY <1>1, Zenon DEF Posted
<1>6. TypeOK'
  <2>1. used_idx' \in Idx
    BY <1>1, QueueFacts, Distance, Zenon
  <2>2. virtqueue_num_heads' = virtqueue_num_heads
    BY <1>1, Zenon DEF virtqueue_num_heads
  <2>3. inuse' = 0 /\ signalled_used_valid' \in BOOLEAN
    BY DEF TypeOK, HostFlush
  <2>4. QED BY <1>1, <2>1, <2>2, <2>3, Zenon DEF TypeOK, HostFlush, queue, device, avail_ring,
                 guest
<1>7. PlaceInv'
  <2>1. Range(Posted) \subseteq Heads /\ Range(Returned) \subseteq Heads /\ free \subseteq Heads
    BY QueueFacts DEF Range, TypeOK
  <2>2. QED BY <1>1, <1>2, <1>3, <1>4, <1>5, <2>1, NoElemFresh, Zenon DEF PlaceInv
<1>8. Abstract!Return(elem)
  BY <1>1, <1>2, <1>4, <1>5, Zenon DEF Abstract!Return
<1>9. QED BY <1>6, <1>7, <1>8, Zenon

\* virtqueue_get_buf collects the first one.
LEMMA GuestGetBufStep ==
  ASSUME IInv, GuestGetBuf
  PROVE  IInv' /\ Abstract!Collect
<1> USE DEF IInv
<1>1. /\ last_used_idx # used_idx /\ free' = free \cup {used[last_used_idx % Num]}
      /\ last_used_idx' = uint(last_used_idx + 1)
      /\ UNCHANGED <<avail, avail_idx, last_avail_idx, used, used_idx, elem, hpc>>
  BY Zenon DEF GuestGetBuf, used_ring, host
<1>2. /\ Returned # <<>> /\ Head(Returned) = used[last_used_idx % Num]
      /\ Returned' = Tail(Returned)
  BY <1>1, QueueFacts, EntriesShrink, Zenon DEF Returned
<1>3. Posted' = Posted
  BY <1>1, Zenon DEF Posted
<1>4. /\ IsInjective(Tail(Returned)) /\ Head(Returned) \in Range(Returned) \ Range(Tail(Returned))
      /\ Range(Tail(Returned)) \subseteq Range(Returned)
  BY <1>2, QueueFacts, ShrinkDistinct, Zenon DEF PlaceInv
<1>5. TypeOK'
  <2>1. last_used_idx' \in Idx
    BY <1>1, QueueFacts, Distance, Zenon
  <2>2. used_event' \in Idx
    BY <2>1, Zenon DEF GuestGetBuf, TypeOK
  <2>3. used[last_used_idx % Num] \in Heads
    BY QueueFacts, SlotIsHead, Sizes DEF Rings
  <2>4. virtqueue_num_heads' = virtqueue_num_heads
    BY <1>1, Zenon DEF virtqueue_num_heads
  <2>5. QED BY <1>1, <2>1, <2>2, <2>3, <2>4, Zenon DEF TypeOK, GuestGetBuf, queue, device,
                 used_ring, signalled, host
<1>6. PlaceInv'
  BY <1>1, <1>2, <1>3, <1>4, Zenon DEF PlaceInv
<1>7. Abstract!Collect
  BY <1>1, <1>2, <1>3, Zenon DEF Abstract!Collect
<1>8. QED BY <1>5, <1>6, <1>7, Zenon

\* Resetting gives all buffers to the driver.
LEMMA GuestResetStep ==
  ASSUME IInv, GuestReset
  PROVE  IInv' /\ Abstract!Clear
<1> USE DEF IInv
<1>1. /\ avail' = EmptyRing /\ used' = EmptyRing /\ free' = Heads /\ hpc' = "idle"
      /\ last_avail_idx' = 0 /\ avail_idx' = 0 /\ used_idx' = 0 /\ last_used_idx' = 0
      /\ elem' = NoElem
  BY Zenon DEF GuestReset, TypeOK
<1>2. 0 \in Idx /\ 0 \in Heads /\ EmptyRing \in Rings
  BY Sizes DEF Idx, Heads, EmptyRing, Rings
<1>3. Posted' = <<>> /\ Returned' = <<>>
  BY <1>1, <1>2, EntriesEmpty, Zenon DEF Posted, Returned
<1>4. TypeOK'
  <2>1. virtqueue_num_heads' <= Num
    BY <1>1, <1>2, Distance, Sizes DEF virtqueue_num_heads
  <2>2. QED BY <1>1, <1>2, <2>1, Zenon DEF TypeOK, GuestReset, queue, Rings
<1>5. PlaceInv'
  BY <1>1, <1>3, NoElemFresh DEF PlaceInv, Range, IsInjective
<1>6. Abstract!Clear
  BY <1>1, <1>3, Zenon DEF Abstract!Clear
<1>7. QED BY <1>4, <1>5, <1>6, Zenon

\* The other steps do not touch the rings.
Still == /\ UNCHANGED <<free, avail, avail_idx, last_avail_idx, used, used_idx, last_used_idx, elem>>
         /\ hpc' = "flush" => hpc = "flush"

LEMMA StillStep ==
  ASSUME IInv, Still, TypeOK'
  PROVE  IInv' /\ UNCHANGED Abstract!qvars
<1>1. Posted' = Posted /\ Returned' = Returned
  BY Zenon DEF Still, Posted, Returned
<1>2. PlaceInv'
  BY <1>1, Zenon DEF IInv, PlaceInv, Still
<1>3. UNCHANGED Abstract!qvars
  BY <1>1, Zenon DEF Still, Abstract!qvars
<1>4. QED BY <1>2, <1>3, Zenon DEF IInv

\* The steps of the guest among them,
LEMMA GuestStill ==
  ASSUME IInv, GuestKick \/ GuestDrained \/ GuestInterrupt
  PROVE  Still /\ TypeOK'
<1> USE DEF IInv, Still, TypeOK, virtqueue_num_heads, queue, device, avail_ring, used_ring, signalled, guest, host
<1>1. CASE GuestKick
  BY <1>1, Zenon DEF GuestKick
<1>2. CASE GuestDrained
  BY <1>2, Zenon DEF GuestDrained
<1>3. CASE GuestInterrupt
  BY <1>3, Zenon DEF GuestInterrupt
<1>4. QED BY <1>1, <1>2, <1>3, Zenon

\* those of QEMU's handlers,
LEMMA HostStill ==
  ASSUME IInv, HostKick \/ HostData \/ HostPopEmpty \/ HostPopEvent \/ HostNotify
  PROVE  Still /\ TypeOK'
<1> USE DEF IInv, Still, TypeOK, virtqueue_num_heads, queue, device, avail_ring, used_ring, signalled, guest, host
<1>1. CASE HostKick
  BY <1>1, Zenon DEF HostKick
<1>2. CASE HostData
  BY <1>2, Zenon DEF HostData
<1>3. CASE HostPopEmpty
  BY <1>3, Zenon DEF HostPopEmpty
<1>4. CASE HostPopEvent
  BY <1>4 DEF HostPopEvent
<1>5. CASE HostNotify
  BY <1>5, Zenon DEF HostNotify
<1>6. QED BY <1>1, <1>2, <1>3, <1>4, <1>5, Zenon

\* and setting up or moving the device.
LEMMA DeviceStill ==
  ASSUME IInv, Migrate \/ \E f \in SUBSET Features : GuestSetup(f)
  PROVE  Still /\ TypeOK'
<1> USE DEF IInv, Still, TypeOK, virtqueue_num_heads, queue, device, avail_ring, used_ring, signalled, guest, host
<1>1. CASE Migrate
  <2>1. 0 \in Idx
    BY Sizes DEF Idx
  <2>2. kicked' \in BOOLEAN
    BY <1>1, Zenon DEF Migrate
  <2>3. QED BY <1>1, <2>1, <2>2, Zenon DEF Migrate
<1>2. CASE \E f \in SUBSET Features : GuestSetup(f)
  BY <1>2, Zenon DEF GuestSetup
<1>3. QED BY <1>1, <1>2, Zenon

\* Every step keeps the invariant and is a step of the abstract queue.
LEMMA NextStep ==
  ASSUME IInv, [Next]_vars
  PROVE  IInv' /\ [Abstract!QueueNext]_(Abstract!qvars)
<1>1. CASE \E h \in Heads : GuestAdd(h)
  BY <1>1, GuestAddStep, Zenon DEF Abstract!QueueNext
<1>2. CASE GuestGetBuf
  BY <1>2, GuestGetBufStep, Zenon DEF Abstract!QueueNext
<1>3. CASE HostPop
  BY <1>3, HostPopStep, Zenon DEF Abstract!QueueNext
<1>4. CASE HostFill
  BY <1>4, HostFillStep, Zenon
<1>5. CASE HostFlush
  <2>1. elem \in Heads
    BY <1>5, Zenon DEF HostFlush, IInv, TypeOK
  <2>2. QED BY <1>5, <2>1, HostFlushStep, Zenon DEF Abstract!QueueNext
<1>6. CASE GuestReset
  BY <1>6, GuestResetStep, Zenon DEF Abstract!QueueNext
<1>7. CASE GuestKick \/ GuestDrained \/ GuestInterrupt
  BY <1>7, GuestStill, StillStep, Zenon
<1>8. CASE HostKick \/ HostData \/ HostPopEmpty \/ HostPopEvent \/ HostNotify
  BY <1>8, HostStill, StillStep, Zenon
<1>9. CASE Migrate \/ \E f \in SUBSET Features : GuestSetup(f)
  BY <1>9, DeviceStill, StillStep, Zenon
<1>10. CASE UNCHANGED vars
  <2> USE <1>10 DEF vars, queue, device, avail_ring, used_ring, signalled, guest, host
  <2>1. Still
    BY Zenon DEF Still
  <2>2. TypeOK'
    BY Zenon DEF IInv, TypeOK, virtqueue_num_heads
  <2>3. QED BY <2>1, <2>2, StillStep, Zenon
<1>11. QED BY <1>1, <1>2, <1>3, <1>4, <1>5, <1>6, <1>7, <1>8, <1>9, <1>10, Zenon
           DEF Next, Guest, Host, Handler

\* In the first state all buffers are with the driver.
LEMMA InitStep ==
  ASSUME Init
  PROVE  IInv /\ Abstract!QueueInit
<1>1. 0 \in Idx /\ 0 \in Heads /\ EmptyRing \in Rings
  BY Sizes DEF Idx, Heads, EmptyRing, Rings
<1>2. Posted = <<>> /\ Returned = <<>>
  BY <1>1, EntriesEmpty, Zenon DEF Init, Posted, Returned
<1>3. TypeOK
  <2>1. virtqueue_num_heads <= Num
    BY <1>1, Distance, Sizes DEF Init, virtqueue_num_heads
  <2>2. QED BY <1>1, <2>1, Zenon DEF Init, TypeOK, Rings
<1>4. PlaceInv
  BY <1>2, NoElemFresh DEF Init, PlaceInv, Range, IsInjective
<1>5. Abstract!QueueInit
  BY <1>2, Zenon DEF Init, Abstract!QueueInit
<1>6. QED BY <1>3, <1>4, <1>5, Zenon DEF IInv

----------------------------------------------------------------------------
(* The theorems.                                                           *)

LEMMA Invariance == Spec => []IInv
<1>1. Init => IInv
  BY InitStep, Zenon
<1>2. IInv /\ [Next]_vars => IInv'
  BY NextStep, Zenon
<1>3. QED BY <1>1, <1>2, PTL DEF Spec

\* The types of virtio.c's state, whatever the guest and QEMU do in turn: the
\* indices stay indices, the guest is never more than a ring ahead of QEMU, and
\* inuse is 0 between two handlers.
THEOREM TypeCorrect == Spec => []TypeOK
<1>1. IInv => TypeOK
  BY Zenon DEF IInv
<1>2. QED BY <1>1, Invariance, PTL

\* The rings of virtio.c, with their wrapping indices, are a queue of buffers,
\* for every size of the ring.
THEOREM RingsImplementQueue == Spec => ImplementsQueue
<1>1. Init => Abstract!QueueInit
  BY InitStep, Zenon
<1>2. IInv /\ [Next]_vars => [Abstract!QueueNext]_(Abstract!qvars)
  BY NextStep, Zenon
<1>3. QED BY <1>1, <1>2, Invariance, PTL DEF Spec, ImplementsQueue, Abstract!QueueSpec
=============================================================================
