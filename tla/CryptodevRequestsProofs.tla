----------------------- MODULE CryptodevRequestsProofs -----------------------
(***************************************************************************)
(* Proofs about CryptodevRequests, for every size of pages, blocks, tags   *)
(* and arrays and for every set of requests.                               *)
(***************************************************************************)
EXTENDS CryptodevRequests, TLAPS

----------------------------------------------------------------------------
(* The inductive invariant.                                                *)

\* Where a request is mapped.
Mapped == {"run", "release", "undo"}

\* What is known of a request once it was accepted: get_userbuf_tls refuses a
\* NULL record, and get_userbuf_srtp data that are NULL or empty.
RequestInv ==
    pc \notin {"none", "idle"} =>
        /\ req.kind \in {"crypt", "aead", "tls", "srtp"}
        /\ req.len \in Nat /\ req.src \in Nat /\ req.dst \in Nat
        /\ req.kind # "crypt" => req.tag \in Nat
        /\ req.kind = "tls" => req.dst # NULL
        /\ req.kind = "srtp" => req.auth \in Nat \ {NULL} /\ req.alen \in Nat

\* The first used_pages places of the array hold a reference while a request is
\* mapped, and no place does at other times.
PageInv ==
    /\ pc = "none" => held = << >> /\ ~wild /\ flaws \in {{}, {"array"}}
    /\ "pages" \notin flaws =>
          /\ ~wild
          /\ IF pc \in Mapped THEN DOMAIN held = 1 .. used_pages ELSE held = << >>

\* A session has allocated no more than Finish releases.
AllocInv ==
    IF pc = "none" THEN alloc = {} \/ "array" \in flaws
    ELSE alloc \subseteq (IF cipher = "none" THEN {} ELSE Range(CipherParts))
                         \cup (IF mac THEN Range(HashParts) ELSE {})
                         \cup {"ses", "pages", "sg"}

IInv == /\ used_pages \in Nat /\ authsize \in Nat
        /\ RequestInv /\ PageInv /\ AllocInv

----------------------------------------------------------------------------
(* Pages.                                                                  *)

\* Division is monotonic.
LEMMA DivMonotonic ==
  ASSUME NEW a \in Nat, NEW b \in Nat, a <= b, NEW p \in Nat \ {0}
  PROVE  /\ a \div p \in Nat /\ b \div p \in Nat
         /\ a \div p <= b \div p
  OBVIOUS

\* PAGECOUNT of a region.
LEMMA PageCountNat ==
  ASSUME NEW addr \in Nat, NEW len \in Nat
  PROVE  PageCount(addr, len) \in Nat
<1>1. CASE len = 0
  BY <1>1, Zenon DEF PageCount
<1>2. CASE len > 0
  <2>1. addr + len - 1 \in Nat /\ addr <= addr + len - 1
    BY <1>2
  <2>2. QED BY <1>2, <2>1, DivMonotonic, PageSizePositive DEF PageCount, PageOf
<1>3. QED BY <1>1, <1>2

\* get_user_pages is asked for n pages and takes them, or is not called.
LEMMA PinnedFacts ==
  ASSUME NEW addr \in Nat, NEW len \in Nat, NEW n \in Nat
  PROVE  /\ Pinned(addr, len, n) \in Seq(Nat)
         /\ DOMAIN Pinned(addr, len, n) = 1 .. (IF Empty(addr, len, n) THEN 0 ELSE n)
         /\ Len(Pinned(addr, len, n)) = IF Empty(addr, len, n) THEN 0 ELSE n
<1>1. PageOf(addr) \in Nat
  BY DivMonotonic, PageSizePositive DEF PageOf
<1>2. CASE Empty(addr, len, n)
  BY <1>2 DEF Pinned
<1>3. CASE ~Empty(addr, len, n)
  BY <1>1, <1>3 DEF Pinned
<1>4. QED BY <1>2, <1>3, Zenon

\* It takes no more than it is asked for.
LEMMA PinnedBound ==
  ASSUME NEW addr \in Nat, NEW len \in Nat, NEW n \in Nat
  PROVE  /\ Pinned(addr, len, n) \in Seq(Nat) /\ Len(Pinned(addr, len, n)) \in Nat
         /\ Len(Pinned(addr, len, n)) <= n
<1>1. /\ Pinned(addr, len, n) \in Seq(Nat)
      /\ Len(Pinned(addr, len, n)) = IF Empty(addr, len, n) THEN 0 ELSE n
  BY PinnedFacts, Zenon
<1>2. Len(Pinned(addr, len, n)) \in {0, n}
  <2>1. CASE Empty(addr, len, n)
    BY <1>1, <2>1, Zenon
  <2>2. CASE ~Empty(addr, len, n)
    BY <1>1, <2>2, Zenon
  <2>3. QED BY <2>1, <2>2, Zenon
<1>3. QED BY <1>1, <1>2

\* The pages of a request to get_userbuf.
LEMMA WantedFacts ==
  ASSUME IInv, pc = "map", req.kind \in {"crypt", "aead"}
  PROVE  /\ DstLen \in Nat
         /\ wanted_pages \in Nat /\ first_pages \in Nat /\ dst_pages \in Nat
         /\ first_pages + dst_pages = wanted_pages
<1>1. req.len \in Nat /\ req.src \in Nat /\ req.dst \in Nat /\ authsize \in Nat
  BY Zenon DEF IInv, RequestInv
<1>2. DstLen \in Nat
  BY <1>1 DEF DstLen
<1>3. src_pagecount \in Nat
  BY <1>1, PageCountNat, Zenon DEF src_pagecount
<1>4. dst_pagecount \in Nat
  BY <1>1, <1>2, PageCountNat, Zenon DEF dst_pagecount
<1>5. QED BY <1>2, <1>3, <1>4 DEF wanted_pages, first_pages, dst_pages, MaxOf

\* The pages of a request to get_userbuf_tls or get_userbuf_srtp.
LEMMA RegionFacts ==
  ASSUME IInv, pc = "map", req.kind \in {"tls", "srtp"}
  PROVE  /\ region_pages \in Nat
         /\ Pinned(Region.addr, Region.len, region_pages) \in Seq(Nat)
         /\ DOMAIN Pinned(Region.addr, Region.len, region_pages) = 1 .. region_pages
<1>1. blocksize \in Nat
  BY SizesPositive, Zenon DEF blocksize
<1>2. Region.addr \in Nat \ {NULL} /\ Region.len \in Nat
  BY <1>1 DEF IInv, RequestInv, Region
<1>3. region_pages \in Nat
  BY <1>2, PageCountNat, Zenon DEF region_pages
<1>4. Region.len = 0 => region_pages = 0
  BY Zenon DEF region_pages, PageCount
<1>5. Empty(Region.addr, Region.len, region_pages) <=> region_pages = 0
  BY <1>2, <1>4, Zenon DEF Empty
<1>6. QED BY <1>2, <1>3, <1>5, PinnedFacts, Zenon

----------------------------------------------------------------------------
(* Creation and destruction.                                               *)

\* The exit taken by a failing step of crypto_create_session releases what the
\* steps before it acquired, or a hash is left over.
LEMMA ExitsRelease ==
  ASSUME NEW c \in {"none", "cbc", "ctr", "gcm"}, NEW m \in BOOLEAN, c # "none" \/ m,
         NEW k \in DOMAIN Acquired(c, m)
  PROVE  LET steps == Acquired(c, m)
             got == {steps[j] : j \in 1 .. k - 1} \ {"hinit"}
         IN  got \subseteq Released(steps[k])
                \/ (steps[k] \in {"pages", "sg"} /\ "hreq" \in got)
<1> DEFINE s == Acquired(c, m)
<1> USE DEF Released, Range, CipherParts, HashParts
<1>1. CASE c # "none" /\ (~m \/ c = "gcm")
  <2>1. /\ DOMAIN s = 1 .. 6
        /\ s[1] = "ses" /\ s[2] = "ctfm" /\ s[3] = "cresult" /\ s[4] = "creq"
        /\ s[5] = "pages" /\ s[6] = "sg"
    BY <1>1 DEF Acquired
  <2>2. QED BY <2>1
<1>2. CASE c # "none" /\ m /\ c # "gcm"
  <2>1. /\ DOMAIN s = 1 .. 10
        /\ s[1] = "ses" /\ s[2] = "ctfm" /\ s[3] = "cresult" /\ s[4] = "creq"
        /\ s[5] = "htfm" /\ s[6] = "hresult" /\ s[7] = "hreq" /\ s[8] = "hinit"
        /\ s[9] = "pages" /\ s[10] = "sg"
    BY <1>2 DEF Acquired
  <2>2. QED BY <2>1
<1>3. CASE c = "none" /\ m
  <2>1. /\ DOMAIN s = 1 .. 7
        /\ s[1] = "ses" /\ s[2] = "htfm" /\ s[3] = "hresult" /\ s[4] = "hreq"
        /\ s[5] = "hinit" /\ s[6] = "pages" /\ s[7] = "sg"
    BY <1>3 DEF Acquired
  <2>2. QED BY <2>1
<1>4. QED BY <1>1, <1>2, <1>3, Zenon
----------------------------------------------------------------------------
(* The steps of requests.                                                  *)

\* What crypto_create_session acquires is a part of what Finish releases.
LEMMA AcquiredParts ==
  ASSUME NEW c \in {"none", "cbc", "ctr", "gcm"}, NEW m \in BOOLEAN
  PROVE  Range(Acquired(c, m)) \subseteq
         (IF c = "none" THEN {} ELSE Range(CipherParts))
         \cup (IF m /\ c # "gcm" THEN Range(HashParts) ELSE {}) \cup {"ses", "pages", "sg"}
<1> USE DEF Acquired, Range, CipherParts, HashParts
<1>1. CASE c # "none" /\ m /\ c # "gcm"
  BY <1>1
<1>2. CASE c # "none" /\ ~(m /\ c # "gcm")
  BY <1>2
<1>3. CASE c = "none" /\ m
  BY <1>3
<1>4. CASE c = "none" /\ ~m
  BY <1>4
<1>5. QED BY <1>1, <1>2, <1>3, <1>4, Zenon

\* A session that was created holds what its creation acquired.
LEMMA CreateInv ==
  ASSUME IInv, NEW c \in {"none", "cbc", "ctr", "gcm"}, NEW m \in BOOLEAN, Create(c, m)
  PROVE  IInv'
<1> USE DEF Create, session, pages, IInv
<1>a. Range(Acquired(c, m)) \ {"hinit"} \subseteq
         (IF c = "none" THEN {} ELSE Range(CipherParts))
         \cup (IF m /\ c # "gcm" THEN Range(HashParts) ELSE {}) \cup {"ses", "pages", "sg"}
  BY AcquiredParts, Zenon
<1>1. used_pages' \in Nat /\ authsize' \in Nat
  BY SizesPositive, Zenon
<1>2. RequestInv'
  BY Zenon DEF RequestInv
<1>3. PageInv'
  BY Zenon DEF PageInv, Mapped
<1>4. AllocInv'
  BY <1>a, Zenon DEF AllocInv
<1>5. QED BY <1>1, <1>2, <1>3, <1>4, Zenon

\* A creation that failed holds nothing, or a hash.
LEMMA CreateFailsInv ==
  ASSUME IInv, NEW c \in {"none", "cbc", "ctr", "gcm"}, NEW m \in BOOLEAN, CreateFails(c, m)
  PROVE  IInv'
<1> DEFINE steps == Acquired(c, m)
           got(k) == {steps[j] : j \in 1 .. k - 1} \ {"hinit"}
<1>1. PICK k \in DOMAIN steps :
        /\ alloc' = got(k) \ Released(steps[k])
        /\ flaws' = IF steps[k] \in {"pages", "sg"} /\ "hreq" \in got(k) THEN {"array"} ELSE {}
  BY Zenon DEF CreateFails
<1>2. /\ pc = "none" /\ (c # "none" \/ m)
      /\ UNCHANGED <<pc, authsize, used_pages, held, req, wild>>
  BY Zenon DEF CreateFails, pages
<1>3. got(k) \subseteq Released(steps[k]) \/ (steps[k] \in {"pages", "sg"} /\ "hreq" \in got(k))
  BY <1>2, ExitsRelease
<1> HIDE DEF steps, got
<1>4. alloc' = {} \/ flaws' = {"array"}
  BY <1>1, <1>3, Zenon
<1>5. flaws' \in {{}, {"array"}}
  BY <1>1, Zenon
<1>6. AllocInv'
  BY <1>2, <1>4, Zenon DEF AllocInv
<1>7. PageInv'
  BY <1>2, <1>5, Zenon DEF PageInv, Mapped, IInv
<1>8. RequestInv'
  BY <1>2, Zenon DEF RequestInv
<1>9. QED BY <1>2, <1>6, <1>7, <1>8, Zenon DEF IInv

\* crypto_destroy_session releases everything.
LEMMA FinishInv ==
  ASSUME IInv, Finish
  PROVE  IInv'
<1> USE DEF Finish, session, pages, IInv
<1>1. used_pages' \in Nat /\ authsize' \in Nat
  BY Zenon
<1>2. RequestInv'
  BY Zenon DEF RequestInv
<1>3. PageInv'
  BY Zenon DEF PageInv, Mapped
<1>4. AllocInv'
  BY Zenon DEF AllocInv
<1>5. QED BY <1>1, <1>2, <1>3, <1>4, Zenon

\* CIOCCRYPT changes no page before it maps.
LEMMA CryptInv ==
  ASSUME IInv, NEW r \in CryptInputs, Crypt(r)
  PROVE  IInv'
<1> USE DEF Crypt, CryptRequests, session, pages, IInv
<1>1. used_pages' \in Nat /\ authsize' \in Nat
  BY Zenon
<1>2. RequestInv'
  BY CryptInputsKnown, Zenon DEF RequestInv
<1>3. PageInv'
  BY CryptInputsKnown, Zenon DEF PageInv, Mapped
<1>4. AllocInv'
  BY Zenon DEF AllocInv
<1>5. QED BY <1>1, <1>2, <1>3, <1>4, Zenon

\* CIOCAUTHCRYPT refuses what it cannot map before it maps.
LEMMA AuthCryptInv ==
  ASSUME IInv, NEW r \in AuthInputs, AuthCrypt(r)
  PROVE  IInv'
<1> USE DEF AuthCrypt, AuthRequests, session, pages, IInv
<1>a. /\ r.kind \in {"tls", "srtp", "aead"}
      /\ r.len \in Nat /\ r.src \in Nat /\ r.dst \in Nat
      /\ r.auth \in Nat /\ r.alen \in Nat /\ r.tag \in Nat
      /\ r.src = NULL \/ r.src > MaxDiff
      /\ r = [kind |-> r.kind, op |-> r.op, len |-> r.len, src |-> r.src, dst |-> r.dst,
               auth |-> r.auth, alen |-> r.alen, tag |-> r.tag]
  BY AuthInputsKnown, Zenon
<1>b. UNCHANGED <<pc, req>> => RequestInv'
  BY Zenon DEF RequestInv
<1>c. ASSUME ~Refused(r), pc' = "map",
             req' = [r EXCEPT !.kind = IF aead THEN "aead" ELSE @,
                              !.tag = IF @ = 0 /\ mac THEN DigestSize ELSE @]
      PROVE  RequestInv'
  <2>1. /\ req'.kind = (IF aead THEN "aead" ELSE r.kind)
        /\ req'.tag = (IF r.tag = 0 /\ mac THEN DigestSize ELSE r.tag)
        /\ req'.len = r.len /\ req'.src = r.src /\ req'.dst = r.dst
        /\ req'.auth = r.auth /\ req'.alen = r.alen
    BY <1>a, <1>c, Zenon
  <2>2. req'.tag \in Nat
    BY <1>a, <2>1, SizesPositive, Zenon
  <2>3. r.kind = "srtp" => r.auth # NULL
    BY <1>a, <1>c, MaxDiffNat DEF Refused, NULL
  <2>4. r.kind = "tls" /\ ~aead => r.dst # NULL
    BY <1>c, Zenon DEF Refused
  <2>5. ~aead => r.kind # "aead"
    BY <1>c, Zenon DEF Refused
  <2>6. QED BY <1>a, <1>c, <2>1, <2>2, <2>3, <2>4, <2>5, Zenon DEF RequestInv
<1>1. used_pages' \in Nat /\ authsize' \in Nat
  BY Zenon
<1>2. RequestInv'
  BY <1>b, <1>c, Zenon
<1>3. PageInv'
  BY Zenon DEF PageInv, Mapped
<1>4. AllocInv'
  BY Zenon DEF AllocInv
<1>5. QED BY <1>1, <1>2, <1>3, <1>4, Zenon

\* A failed reset of the hash changes no page.
LEMMA ResetFailsInv ==
  ASSUME IInv, ResetFails
  PROVE  IInv'
<1> USE DEF ResetFails, session, pages, IInv
<1>1. used_pages' \in Nat /\ authsize' \in Nat
  BY Zenon
<1>2. RequestInv'
  BY Zenon DEF RequestInv
<1>3. PageInv'
  BY Zenon DEF PageInv, Mapped
<1>4. AllocInv'
  BY Zenon DEF AllocInv
<1>5. QED BY <1>1, <1>2, <1>3, <1>4, Zenon

\* get_userbuf takes the pages it counted, or the shortfall is recorded.
LEMMA MapInv ==
  ASSUME IInv, Map
  PROVE  IInv'
<1> USE DEF Map, session, pages, IInv
<1> DEFINE first == Pinned(req.src, req.len, first_pages)
           second == Pinned(req.dst, DstLen, dst_pages)
<1>a. /\ wanted_pages \in Nat /\ first_pages + dst_pages = wanted_pages
      /\ first_pages \in Nat /\ dst_pages \in Nat
      /\ req.src \in Nat /\ req.dst \in Nat /\ req.len \in Nat /\ DstLen \in Nat
  BY WantedFacts, Zenon DEF RequestInv
<1>b. first \in Seq(Nat) /\ Len(first) \in Nat /\ Len(first) <= first_pages
  BY <1>a, PinnedBound, Zenon
<1>c. second \in Seq(Nat) /\ Len(second) \in Nat /\ Len(second) <= dst_pages
  BY <1>a, PinnedBound, Zenon
<1> HIDE DEF first, second
<1>d. /\ Len(first \o second) \in Nat /\ Len(first \o second) <= wanted_pages
      /\ DOMAIN (first \o second) = 1 .. Len(first \o second)
  BY <1>a, <1>b, <1>c
<1>e. held' = first \o second
  BY Zenon DEF first, second
<1>1. used_pages' \in Nat /\ authsize' \in Nat
  BY <1>a, Zenon
<1>2. RequestInv'
  BY Zenon DEF RequestInv
<1>3. PageInv'
  BY <1>a, <1>d, <1>e DEF PageInv, Mapped
<1>4. AllocInv'
  BY Zenon DEF AllocInv
<1>5. QED BY <1>1, <1>2, <1>3, <1>4, Zenon

\* krealloc fails before any page is taken.
LEMMA MapNoMemoryInv ==
  ASSUME IInv, MapNoMemory
  PROVE  IInv'
<1> USE DEF MapNoMemory, MapFailed, session, pages, IInv
<1>1. used_pages' \in Nat /\ authsize' \in Nat
  BY WantedFacts, Zenon
<1>2. RequestInv'
  BY Zenon DEF RequestInv
<1>3. PageInv'
  BY Zenon DEF PageInv, Mapped
<1>4. AllocInv'
  BY Zenon DEF AllocInv
<1>5. QED BY <1>1, <1>2, <1>3, <1>4, Zenon

\* get_user_pages fails on the first region: it took none of it, or the rest is recorded.
LEMMA MapFirstFailsInv ==
  ASSUME IInv, MapFirstFails
  PROVE  IInv'
<1> USE DEF MapFirstFails, MapFailed, session, pages, IInv
<1> DEFINE first == Pinned(req.src, req.len, first_pages)
<1>a. first \in Seq(Nat) /\ wanted_pages \in Nat
  BY WantedFacts, PinnedFacts, Zenon DEF RequestInv
<1>b. PICK k \in 0 .. Len(first) - 1 :
         /\ held' = SubSeq(first, 1, k)
         /\ flaws' = IF k > 0 THEN flaws \cup {"pages"} ELSE flaws
  BY Zenon
<1> HIDE DEF first
<1>c. k = 0 => held' = << >>
  BY <1>a, <1>b
<1>1. used_pages' \in Nat /\ authsize' \in Nat
  BY <1>a, Zenon
<1>2. RequestInv'
  BY Zenon DEF RequestInv
<1>3. PageInv'
  BY <1>b, <1>c DEF PageInv, Mapped
<1>4. AllocInv'
  BY Zenon DEF AllocInv
<1>5. QED BY <1>1, <1>2, <1>3, <1>4, Zenon

\* get_user_pages fails on the second region, which is recorded.
LEMMA MapSecondFailsInv ==
  ASSUME IInv, MapSecondFails
  PROVE  IInv'
<1> USE DEF MapSecondFails, MapFailed, session, pages, IInv
<1>1. used_pages' \in Nat /\ authsize' \in Nat
  BY Zenon
<1>2. RequestInv'
  BY Zenon DEF RequestInv
<1>3. PageInv'
  BY Zenon DEF PageInv, Mapped
<1>4. AllocInv'
  BY Zenon DEF AllocInv
<1>5. QED BY <1>1, <1>2, <1>3, <1>4, Zenon

\* get_userbuf_tls takes the pages it counted.
LEMMA MapTlsInv ==
  ASSUME IInv, MapTls
  PROVE  IInv'
<1> USE DEF MapTls, session, pages, IInv
<1>1. used_pages' \in Nat /\ authsize' \in Nat
  BY RegionFacts, Zenon
<1>2. RequestInv'
  BY Zenon DEF RequestInv
<1>3. PageInv'
  BY RegionFacts, Zenon DEF PageInv, Mapped
<1>4. AllocInv'
  BY Zenon DEF AllocInv
<1>5. QED BY <1>1, <1>2, <1>3, <1>4, Zenon

\* get_userbuf_srtp takes the pages it counted, and undoes it when the payload is outside.
LEMMA MapSrtpInv ==
  ASSUME IInv, MapSrtp
  PROVE  IInv'
<1> USE DEF MapSrtp, session, pages, IInv
<1>1. used_pages' \in Nat /\ authsize' \in Nat
  BY RegionFacts, Zenon
<1>2. RequestInv'
  BY Zenon DEF RequestInv
<1>3. PageInv'
  BY RegionFacts, Zenon DEF PageInv, Mapped
<1>4. AllocInv'
  BY Zenon DEF AllocInv
<1>5. QED BY <1>1, <1>2, <1>3, <1>4, Zenon

\* A mapping of the authenticated modes fails: nothing was taken, or it is recorded.
LEMMA MapAuthFailsInv ==
  ASSUME IInv, MapAuthFails
  PROVE  IInv'
<1> USE DEF MapAuthFails, session, pages, IInv
<1> DEFINE region == Pinned(Region.addr, Region.len, region_pages)
<1>a. req.kind # "aead" => region \in Seq(Nat) /\ region_pages \in Nat
  BY RegionFacts, Zenon
<1>b. \/ UNCHANGED <<used_pages, held, flaws>>
      \/ /\ req.kind # "aead"
         /\ used_pages' \in {used_pages, region_pages}
         /\ \E k \in 0 .. region_pages - 1 :
               /\ held' = SubSeq(region, 1, k)
               /\ flaws' = IF k > 0 THEN flaws \cup {"pages"} ELSE flaws
  BY Zenon
<1> HIDE DEF region
<1>c. \/ UNCHANGED <<held, flaws>>
      \/ held' = << >> /\ UNCHANGED flaws
      \/ flaws' = flaws \cup {"pages"}
  BY <1>a, <1>b
<1>1. used_pages' \in Nat /\ authsize' \in Nat
  BY <1>a, <1>b, Zenon
<1>2. RequestInv'
  BY Zenon DEF RequestInv
<1>3. PageInv'
  BY <1>c, Zenon DEF PageInv, Mapped
<1>4. AllocInv'
  BY Zenon DEF AllocInv
<1>5. QED BY <1>1, <1>2, <1>3, <1>4, Zenon

\* hash_n_crypt works on pages that stay mapped.
LEMMA RunCryptInv ==
  ASSUME IInv, RunCrypt
  PROVE  IInv'
<1> USE DEF RunCrypt, session, pages, IInv
<1>1. used_pages' \in Nat /\ authsize' \in Nat
  BY Zenon
<1>2. RequestInv'
  BY Zenon DEF RequestInv
<1>3. PageInv'
  BY Zenon DEF PageInv, Mapped
<1>4. AllocInv'
  BY Zenon DEF AllocInv
<1>5. QED BY <1>1, <1>2, <1>3, <1>4, Zenon

\* tls_auth_n_crypt works on pages that stay mapped.
LEMMA RunTlsEncryptInv ==
  ASSUME IInv, RunTlsEncrypt
  PROVE  IInv'
<1> USE DEF RunTlsEncrypt, session, pages, IInv
<1>1. used_pages' \in Nat /\ authsize' \in Nat
  BY Zenon
<1>2. RequestInv'
  BY Zenon DEF RequestInv
<1>3. PageInv'
  BY Zenon DEF PageInv, Mapped
<1>4. AllocInv'
  BY Zenon DEF AllocInv
<1>5. QED BY <1>1, <1>2, <1>3, <1>4, Zenon

\* So it does when it decrypts.
LEMMA RunTlsDecryptInv ==
  ASSUME IInv, RunTlsDecrypt
  PROVE  IInv'
<1> USE DEF RunTlsDecrypt, session, pages, IInv
<1>1. used_pages' \in Nat /\ authsize' \in Nat
  BY Zenon
<1>2. RequestInv'
  BY Zenon DEF RequestInv
<1>3. PageInv'
  BY Zenon DEF PageInv, Mapped
<1>4. AllocInv'
  BY Zenon DEF AllocInv
<1>5. QED BY <1>1, <1>2, <1>3, <1>4, Zenon

\* srtp_auth_n_crypt works on pages that stay mapped.
LEMMA RunSrtpInv ==
  ASSUME IInv, RunSrtp
  PROVE  IInv'
<1> USE DEF RunSrtp, session, pages, IInv
<1>1. used_pages' \in Nat /\ authsize' \in Nat
  BY Zenon
<1>2. RequestInv'
  BY Zenon DEF RequestInv
<1>3. PageInv'
  BY Zenon DEF PageInv, Mapped
<1>4. AllocInv'
  BY Zenon DEF AllocInv
<1>5. QED BY <1>1, <1>2, <1>3, <1>4, Zenon

\* auth_n_crypt changes the tag size only.
LEMMA RunAeadInv ==
  ASSUME IInv, RunAead
  PROVE  IInv'
<1> USE DEF RunAead, session, pages, IInv
<1>1. used_pages' \in Nat /\ authsize' \in Nat
  BY Zenon DEF RequestInv
<1>2. RequestInv'
  BY Zenon DEF RequestInv
<1>3. PageInv'
  BY Zenon DEF PageInv, Mapped
<1>4. AllocInv'
  BY Zenon DEF AllocInv
<1>5. QED BY <1>1, <1>2, <1>3, <1>4, Zenon

\* A failing engine leaves the pages mapped, to be undone.
LEMMA RunFailsInv ==
  ASSUME IInv, RunFails
  PROVE  IInv'
<1> USE DEF RunFails, session, pages, IInv
<1>1. used_pages' \in Nat /\ authsize' \in Nat
  BY Zenon
<1>2. RequestInv'
  BY Zenon DEF RequestInv
<1>3. PageInv'
  BY Zenon DEF PageInv, Mapped
<1>4. AllocInv'
  BY Zenon DEF AllocInv
<1>5. QED BY <1>1, <1>2, <1>3, <1>4, Zenon

\* So it does after the tag size was set.
LEMMA RunAeadFailsInv ==
  ASSUME IInv, RunAeadFails
  PROVE  IInv'
<1> USE DEF RunAeadFails, session, pages, IInv
<1>1. used_pages' \in Nat /\ authsize' \in Nat
  BY Zenon DEF RequestInv
<1>2. RequestInv'
  BY Zenon DEF RequestInv
<1>3. PageInv'
  BY Zenon DEF PageInv, Mapped
<1>4. AllocInv'
  BY Zenon DEF AllocInv
<1>5. QED BY <1>1, <1>2, <1>3, <1>4, Zenon

\* The copying loop has no pages.
LEMMA StdChunkInv ==
  ASSUME IInv, StdChunk
  PROVE  IInv'
<1> USE DEF StdChunk, session, pages, IInv
<1>1. used_pages' \in Nat /\ authsize' \in Nat
  BY Zenon
<1>2. RequestInv'
  BY Zenon DEF RequestInv
<1>3. PageInv'
  BY Zenon DEF PageInv, Mapped
<1>4. AllocInv'
  BY Zenon DEF AllocInv
<1>5. QED BY <1>1, <1>2, <1>3, <1>4, Zenon

\* Nor when it fails.
LEMMA StdFailsInv ==
  ASSUME IInv, StdFails
  PROVE  IInv'
<1> USE DEF StdFails, session, pages, IInv
<1>1. used_pages' \in Nat /\ authsize' \in Nat
  BY Zenon
<1>2. RequestInv'
  BY Zenon DEF RequestInv
<1>3. PageInv'
  BY Zenon DEF PageInv, Mapped
<1>4. AllocInv'
  BY Zenon DEF AllocInv
<1>5. QED BY <1>1, <1>2, <1>3, <1>4, Zenon

\* release_user_pages drops the references of the first used_pages places, which are all there are.
LEMMA ReleaseInv ==
  ASSUME IInv, Release
  PROVE  IInv'
<1> USE DEF Release, release_user_pages, session, pages, IInv
<1>a. "pages" \notin flaws => held' = << >> /\ ~wild'
  <2>1. SUFFICES ASSUME "pages" \notin flaws PROVE held' = << >> /\ ~wild'
    BY Zenon
  <2>2. DOMAIN held = 1 .. used_pages /\ ~wild
    BY <2>1, Zenon DEF PageInv, Mapped
  <2>3. ~wild'
    BY <2>2, Zenon
  <2>4. DOMAIN held \ (1 .. used_pages) = {}
    BY <2>2, Zenon
  <2>5. held' = [i \in {} |-> held[i]]
    BY <2>4, Zenon
  <2>6. QED BY <2>3, <2>5
<1>1. used_pages' \in Nat /\ authsize' \in Nat
  BY Zenon
<1>2. RequestInv'
  BY Zenon DEF RequestInv
<1>3. PageInv'
  BY <1>a, Zenon DEF PageInv, Mapped
<1>4. AllocInv'
  BY Zenon DEF AllocInv
<1>5. QED BY <1>1, <1>2, <1>3, <1>4, Zenon

\* The end of crypto_run has no pages.
LEMMA FinalInv ==
  ASSUME IInv, Final
  PROVE  IInv'
<1> USE DEF Final, session, pages, IInv
<1>1. used_pages' \in Nat /\ authsize' \in Nat
  BY Zenon
<1>2. RequestInv'
  BY Zenon DEF RequestInv
<1>3. PageInv'
  BY Zenon DEF PageInv, Mapped
<1>4. AllocInv'
  BY Zenon DEF AllocInv
<1>5. QED BY <1>1, <1>2, <1>3, <1>4, Zenon

\* The request is over.
LEMMA DoneInv ==
  ASSUME IInv, Done
  PROVE  IInv'
<1> USE DEF Done, session, pages, IInv
<1>1. used_pages' \in Nat /\ authsize' \in Nat
  BY Zenon
<1>2. RequestInv'
  BY Zenon DEF RequestInv
<1>3. PageInv'
  BY Zenon DEF PageInv, Mapped
<1>4. AllocInv'
  BY Zenon DEF AllocInv
<1>5. QED BY <1>1, <1>2, <1>3, <1>4, Zenon

----------------------------------------------------------------------------
(* The invariance of IInv, and what it gives.                              *)

\* In the first state there is no session.
LEMMA InitInv == Init => IInv
  BY DEF Init, IInv, RequestInv, PageInv, Mapped, AllocInv

\* A stuttering step changes nothing.
LEMMA StutterInv == IInv /\ UNCHANGED vars => IInv'
<1> USE DEF vars, session, pages, digest
<1>1. RequestInv /\ UNCHANGED vars => RequestInv'
  BY Zenon DEF RequestInv
<1>2. PageInv /\ UNCHANGED vars => PageInv'
  BY DEF PageInv, Mapped
<1>3. AllocInv /\ UNCHANGED vars => AllocInv'
  BY DEF AllocInv
<1>4. QED BY <1>1, <1>2, <1>3, Zenon DEF IInv

\* Every step preserves the invariant.
LEMMA NextInv == IInv /\ [Next]_vars => IInv'
<1> SUFFICES ASSUME IInv, [Next]_vars PROVE IInv'
  BY Zenon
<1>1. CASE Next
  <2>1. CASE \E c \in {"none", "cbc", "ctr", "gcm"}, m \in BOOLEAN :
                Create(c, m) \/ CreateFails(c, m)
    BY <2>1, CreateInv, CreateFailsInv, Zenon
  <2>2. CASE Finish \/ ResetFails
    BY <2>2, FinishInv, ResetFailsInv, Zenon
  <2>3. CASE \E r \in CryptInputs : Crypt(r)
    BY <2>3, CryptInv, Zenon
  <2>4. CASE \E r \in AuthInputs : AuthCrypt(r)
    BY <2>4, AuthCryptInv, Zenon
  <2>5. CASE Map \/ MapNoMemory \/ MapFirstFails \/ MapSecondFails
    BY <2>5, MapInv, MapNoMemoryInv, MapFirstFailsInv, MapSecondFailsInv, Zenon
  <2>6. CASE MapTls \/ MapSrtp \/ MapAuthFails
    BY <2>6, MapTlsInv, MapSrtpInv, MapAuthFailsInv, Zenon
  <2>7. CASE RunCrypt \/ RunTlsEncrypt \/ RunTlsDecrypt \/ RunSrtp \/ RunAead
    BY <2>7, RunCryptInv, RunTlsEncryptInv, RunTlsDecryptInv, RunSrtpInv, RunAeadInv, Zenon
  <2>8. CASE RunFails \/ RunAeadFails
    BY <2>8, RunFailsInv, RunAeadFailsInv, Zenon
  <2>9. CASE StdChunk \/ StdFails \/ Release \/ Final \/ Done
    BY <2>9, StdChunkInv, StdFailsInv, ReleaseInv, FinalInv, DoneInv, Zenon
  <2>10. QED BY <1>1, <2>1, <2>2, <2>3, <2>4, <2>5, <2>6, <2>7, <2>8, <2>9, Zenon DEF Next
<1>2. CASE UNCHANGED vars
  BY <1>2, StutterInv, Zenon
<1>3. QED BY <1>1, <1>2, Zenon

\* IInv holds in every reachable state.
LEMMA Invariance == Spec => []IInv
  BY InitInv, NextInv, PTL DEF Spec

\* Whatever the sizes and the requests, a session that is between requests, or
\* copies instead of mapping, holds no user page, and release_user_pages drops no
\* reference that was not taken, but for the cases recorded in flaws.
THEOREM PagesReturned == Spec => []PagesBalanced
<1>1. IInv => PagesBalanced
  BY Zenon DEF IInv, PageInv, Mapped, PagesBalanced
<1>2. QED BY <1>1, Invariance, PTL

\* Whatever the step at which crypto_create_session fails, and after
\* crypto_destroy_session, nothing is left allocated but a hash that was set up
\* before the allocation of the page arrays failed.
THEOREM NothingLeftAllocated == Spec => []NothingLeaks
<1>1. IInv => NothingLeaks
  BY Zenon DEF IInv, AllocInv, NothingLeaks
<1>2. QED BY <1>1, Invariance, PTL
=============================================================================
