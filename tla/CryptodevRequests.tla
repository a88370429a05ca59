-------------------------- MODULE CryptodevRequests --------------------------
(***************************************************************************)
(* The life of one /dev/crypto session and of the requests it serves, one  *)
(* at a time (the session's mutex, see CryptodevSessions): what creation   *)
(* allocates and each failure releases, how CIOCCRYPT and CIOCAUTHCRYPT    *)
(* map user pages into scatterlists, which bytes the cipher and the hash   *)
(* are given, and what is released on every path.  Data are addresses: a   *)
(* digest is the sequence of the addresses whose bytes it covers.          *)
(*                                                                         *)
(* Three failures the code does not undo are kept, and recorded in flaws:  *)
(* see PagesBalanced and NothingLeaks.                                     *)
(***************************************************************************)
EXTENDS ScatterLists, FiniteSets

CONSTANTS
    Blocksize,      \* of the CBC cipher; the stream ciphers have 1
    DigestSize,     \* of the hash
    MaxAuthSize,    \* the AEAD algorithm's largest tag
    Prealloc,       \* DEFAULT_PREALLOC_PAGES
    MaxDiff,        \* MAX_SRTP_AUTH_DATA_DIFF
    MaxMessage,     \* bound on the bytes of a multi-update hash
    CryptInputs,    \* the CIOCCRYPT requests that are made
    AuthInputs      \* the CIOCAUTHCRYPT requests that are made

ASSUME SizesPositive == {Blocksize, DigestSize, MaxAuthSize, Prealloc} \subseteq Nat \ {0}
ASSUME MaxDiffNat == MaxDiff \in Nat
\* A request's fields; nothing is mapped at the first addresses, so that a pointer
\* is NULL or is far enough from NULL.
ASSUME CryptInputsKnown ==
    CryptInputs \subseteq [kind : {"crypt"}, op : {"encrypt", "decrypt"},
                          flags : SUBSET {"UPDATE", "FINAL", "RESET", "NO_ZC"},
                          len : Nat, src : Nat, dst : Nat]
ASSUME AuthInputsKnown ==
    /\ AuthInputs \subseteq [kind : {"tls", "srtp", "aead"}, op : {"encrypt", "decrypt"},
                            len : Nat, src : Nat, dst : Nat, auth : Nat, alen : Nat, tag : Nat]
    /\ \A r \in AuthInputs : r.src = NULL \/ r.src > MaxDiff

VARIABLES
    pc,             \* where the request stands; "none": no session
    cipher, mac,    \* the session's cipher (or "none"), and whether it hashes
    authsize,       \* the AEAD transform's current tag size
    alloc,          \* what is allocated for the session, or left by its creation
    array_size,     \* entries in ses->pages and ses->sg
    used_pages,     \* ses->used_pages
    held,           \* the places of ses->pages that hold a page reference
    src_sg, dst_sg, \* the lists of the request that is mapped
    req,            \* the request
    off,            \* bytes the copying loop has done
    hash,           \* the hash context
    want,           \* history: the message whose digest the caller expects
    out,            \* the digest the request returned
    io,             \* bytes the engine read of src_sg and wrote to dst_sg
    wild,           \* history: a reference nobody took was released
    flaws           \* history: failures met that the code does not undo

session == <<cipher, mac, authsize, alloc>>
pages == <<array_size, used_pages, held, src_sg, dst_sg>>
digest == <<hash, want, out>>
vars == <<pc, session, pages, req, off, digest, io, wild, flaws>>

NoRequest == [kind |-> "none"]
Unknown == [ok |-> FALSE, data |-> <<>>]
Fresh == [ok |-> TRUE, data |-> <<>>]
NoDigest == [given |-> FALSE, msg |-> Unknown]
NoIo == [read |-> 0, wrote |-> 0]

blocksize == IF cipher = "cbc" THEN Blocksize ELSE 1
aead == cipher = "gcm"

Init ==
    /\ pc = "none" /\ cipher = "none" /\ mac = FALSE /\ authsize = 0 /\ alloc = {}
    /\ array_size = 0 /\ used_pages = 0 /\ held = <<>> /\ src_sg = <<>> /\ dst_sg = <<>>
    /\ req = NoRequest /\ off = 0
    /\ hash = Unknown /\ want = Unknown /\ out = NoDigest
    /\ io = NoIo /\ wild = FALSE /\ flaws = {}
-----------------------------------------------------------------------------
\* Creation acquires these in this order; a step that fails leaves the rest out.
CipherParts == <<"ctfm", "cresult", "creq">>
HashParts == <<"htfm", "hresult", "hreq", "hinit">>   \* hinit holds nothing
Acquired(c, m) ==
    <<"ses">> \o (IF c = "none" THEN <<>> ELSE CipherParts)
              \o (IF m /\ c # "gcm" THEN HashParts ELSE <<>>) \o <<"pages", "sg">>

\* Mutant: error_hash no longer undoes the cipher.
ReleasedNotCipher(f) ==
    {"ses", "pages", "sg"} \cup (IF f \in Range(CipherParts) THEN Range(CipherParts) ELSE {})
        \cup (IF f \in Range(HashParts) THEN Range(HashParts) ELSE {})

\* What the error path of the failing step releases: cipher_init and hash_init
\* undo themselves, error_hash undoes the cipher and the arrays, and
\* error_cipher the session.  Nothing undoes a hash that was initialised.
Released(f) ==
    {"ses"} \cup Range(CipherParts)
        \cup (IF f \in Range(CipherParts) THEN {} ELSE {"pages", "sg"})
        \cup (IF f \in Range(HashParts) THEN Range(HashParts) ELSE {})

Create(c, m) ==
    /\ pc = "none" /\ (c # "none" \/ m)
    /\ pc' = "idle" /\ cipher' = c /\ mac' = (m /\ c # "gcm")
    /\ authsize' = IF c = "gcm" THEN MaxAuthSize ELSE 0
    /\ alloc' = Range(Acquired(c, m)) \ {"hinit"}
    /\ array_size' = Prealloc
    /\ hash' = (IF mac' THEN Fresh ELSE Unknown) /\ want' = hash'
    /\ flaws' = {}
    /\ UNCHANGED <<used_pages, held, src_sg, dst_sg, req, off, out, io, wild>>

CreateFails(c, m) ==
    LET steps == Acquired(c, m) IN
    /\ pc = "none" /\ (c # "none" \/ m)
    /\ \E k \in DOMAIN steps :
        LET got == {steps[j] : j \in 1 .. k - 1} \ {"hinit"} IN
        /\ alloc' = got \ Released(steps[k])
        /\ flaws' = IF steps[k] \in {"pages", "sg"} /\ "hreq" \in got THEN {"array"} ELSE {}
    /\ UNCHANGED <<pc, cipher, mac, authsize, pages, req, off, digest, io, wild>>

\* crypto_destroy_session
Finish ==
    /\ pc = "idle"
    /\ pc' = "none" /\ cipher' = "none" /\ mac' = FALSE /\ authsize' = 0
    /\ alloc' = alloc \ ((IF cipher = "none" THEN {} ELSE Range(CipherParts))
                         \cup (IF mac THEN Range(HashParts) ELSE {})
                         \cup {"ses", "pages", "sg"})
    /\ array_size' = 0 /\ used_pages' = 0 /\ held' = <<>> /\ wild' = FALSE /\ flaws' = {}
    /\ hash' = Unknown /\ want' = Unknown
    /\ UNCHANGED <<src_sg, dst_sg, req, off, out, io>>
-----------------------------------------------------------------------------
\* Mutant: one doubling.
GrownOnce(n) == IF array_size < n THEN 2 * array_size ELSE array_size

\* adjust_sg_array doubles the arrays until they are large enough.
Grown(n) ==
    LET size[k \in 0 .. n] ==
            IF k = 0 THEN array_size
            ELSE IF size[k - 1] < n THEN 2 * size[k - 1] ELSE size[k - 1]
    IN  size[n]

\* __get_userbuf does nothing for an empty region.
Empty(addr, len, n) == n = 0 \/ len = 0 \/ addr = NULL
Listed(addr, len, n) == IF Empty(addr, len, n) THEN <<>> ELSE UserList(addr, len, n)
\* The pages get_user_pages takes references on.
Pinned(addr, len, n) ==
    IF Empty(addr, len, n) THEN <<>> ELSE [k \in 1 .. n |-> PageOf(addr) + k - 1]

\* release_user_pages drops the first used_pages references of ses->pages.
release_user_pages ==
    /\ wild' = (wild \/ \E i \in 1 .. used_pages : i \notin DOMAIN held)
    /\ held' = [i \in DOMAIN held \ (1 .. used_pages) |-> held[i]]
    /\ used_pages' = 0
-----------------------------------------------------------------------------
\* The caller's view of the flags: without UPDATE and FINAL, or with RESET, a
\* new message begins; after a digest nothing is expected until one does.  NO_ZC
\* alone starts a message for the caller, but the code does not reset the hash
\* for it, so it promises nothing.
Expected(r) ==
    IF ~mac \/ r.flags = {"NO_ZC"} THEN Unknown
    ELSE IF r.flags \cap {"UPDATE", "FINAL"} = {} \/ "RESET" \in r.flags THEN Fresh
    ELSE want

\* Where the plaintext of a request is.
Plain(r) == IF r.op = "encrypt" THEN r.src ELSE r.dst

Update(h, data) == IF h.ok THEN [h EXCEPT !.data = @ \o data] ELSE h

\* The requests a caller may make on this session: data and an output buffer
\* where the cipher needs them.  A hash alone is asked for as an encryption, and
\* a session that met a failure the code does not undo is not used again.
CryptRequests ==
    {r \in CryptInputs :
        /\ ~aead /\ flaws = {}
        /\ r.len > 0 => r.src # NULL /\ (cipher # "none" => r.dst # NULL)
        /\ cipher = "none" => r.op = "encrypt"
        /\ "UPDATE" \in r.flags \/ "FINAL" \in r.flags =>
                mac /\ Len(hash.data) + r.len <= MaxMessage}

\* Mutant: only when the caller says so.
ResetsOnDemand(r) == "RESET" \in r.flags
\* crypto_run resets the hash.
Resets(r) == r.flags = {} \/ "RESET" \in r.flags

\* crypto_run, up to the choice of the path.
Crypt(r) ==
    /\ pc = "idle" /\ r \in CryptRequests
    /\ hash' = IF mac /\ Resets(r) THEN Fresh ELSE hash
    /\ want' = Expected(r)
    /\ IF cipher # "none" /\ r.len % blocksize # 0 THEN UNCHANGED <<pc, req>>
       ELSE /\ req' = r
            /\ pc' = IF r.len = 0 THEN "final" ELSE IF "NO_ZC" \in r.flags THEN "std" ELSE "map"
    /\ UNCHANGED <<session, pages, off, out, io, wild, flaws>>

\* crypto_ahash_init fails, in crypto_run or in crypto_auth_run.
ResetFails ==
    /\ pc = "idle" /\ mac
    /\ hash' = Unknown /\ want' = Unknown
    /\ UNCHANGED <<pc, session, pages, req, off, out, io, wild, flaws>>
-----------------------------------------------------------------------------
\* The length of the destination that get_userbuf maps.
DstLen ==
    IF req.kind = "aead" /\ req.op = "encrypt" THEN req.len + authsize ELSE req.len

src_pagecount == PageCount(req.src, IF req.src = NULL THEN 0 ELSE req.len)
dst_pagecount == PageCount(req.dst, IF req.dst = NULL THEN 0 ELSE DstLen)
inplace == req.src = req.dst
wanted_pages == IF inplace THEN MaxOf(src_pagecount, dst_pagecount)
                ELSE src_pagecount + dst_pagecount
\* The region get_userbuf takes first, and the one after it.
first_pages == IF inplace THEN wanted_pages ELSE src_pagecount
dst_pages == IF inplace THEN 0 ELSE dst_pagecount

\* What a request does when it could not be mapped.
MapFailed ==
    pc' = IF req.kind = "crypt" THEN "std" ELSE "done"

Map ==
    LET first == Pinned(req.src, req.len, first_pages)
        second == Pinned(req.dst, DstLen, dst_pages) IN
    /\ pc = "map" /\ req.kind \in {"crypt", "aead"}
    /\ pc' = "run"
    /\ used_pages' = wanted_pages
    /\ array_size' = Grown(wanted_pages)
    /\ held' = first \o second
    /\ src_sg' = Listed(req.src, req.len, first_pages)
    /\ dst_sg' = IF inplace THEN src_sg' ELSE Listed(req.dst, DstLen, dst_pages)
    /\ flaws' = IF Len(held') < wanted_pages THEN flaws \cup {"pages"} ELSE flaws
    /\ UNCHANGED <<session, req, off, digest, io, wild>>

\* krealloc fails in adjust_sg_array.
MapNoMemory ==
    /\ pc = "map" /\ req.kind \in {"crypt", "aead"}
    /\ wanted_pages > array_size
    /\ MapFailed
    /\ used_pages' = wanted_pages
    /\ UNCHANGED <<session, array_size, held, src_sg, dst_sg, req, off, digest, io, wild, flaws>>

\* get_user_pages takes fewer pages of the first region than it was asked for;
\* those it took are not given back.
MapFirstFails ==
    /\ pc = "map" /\ req.kind \in {"crypt", "aead"}
    /\ MapFailed
    /\ used_pages' = wanted_pages /\ array_size' = Grown(wanted_pages)
    /\ LET first == Pinned(req.src, req.len, first_pages) IN
       \E k \in 0 .. Len(first) - 1 :
        /\ held' = SubSeq(first, 1, k)
        /\ flaws' = IF k > 0 THEN flaws \cup {"pages"} ELSE flaws
    /\ UNCHANGED <<session, src_sg, dst_sg, req, off, digest, io, wild>>

\* It takes none of the destination's: the source's are given back, and the
\* destination's with them though they were not taken (the FIXME of zc.c).
MapSecondFails ==
    /\ pc = "map" /\ req.kind \in {"crypt", "aead"}
    /\ Len(Pinned(req.dst, DstLen, dst_pages)) > 0
    /\ MapFailed
    /\ array_size' = Grown(wanted_pages)
    /\ used_pages' = 0 /\ held' = <<>> /\ wild' = TRUE
    /\ flaws' = flaws \cup {"pages"}
    /\ UNCHANGED <<session, src_sg, dst_sg, req, off, digest, io>>
-----------------------------------------------------------------------------
\* hash_n_crypt on the mapped lists: the hash covers the plaintext.  After an
\* engine failure the state of the hash is unknown.
RunCrypt ==
    /\ pc = "run" /\ req.kind = "crypt"
    /\ \E ok \in BOOLEAN :
        /\ pc' = IF ok THEN "release" ELSE "undo"
        /\ hash' = IF ~mac THEN hash ELSE IF ~ok THEN Unknown
                   ELSE Update(hash, Bytes(IF req.op = "encrypt" THEN src_sg ELSE dst_sg))
        /\ want' = IF ok THEN Update(want, Buffer(Plain(req), req.len)) ELSE Unknown
        /\ io' = IF ok THEN [read |-> req.len,
                             wrote |-> IF cipher = "none" THEN 0 ELSE req.len] ELSE NoIo
    /\ UNCHANGED <<session, pages, req, off, out, wild, flaws>>

\* One turn of __crypto_run_std: a page's worth is copied in, processed and
\* copied out.
StdChunk ==
    LET n == MinOf(PageSize, req.len - off) IN
    /\ pc = "std"
    /\ off' = off + n
    /\ hash' = IF mac THEN Update(hash, Buffer(Plain(req) + off, n)) ELSE hash
    /\ pc' = IF off' < req.len THEN "std" ELSE "final"
    /\ want' = IF off' < req.len THEN want ELSE Update(want, Buffer(Plain(req), req.len))
    /\ UNCHANGED <<session, pages, req, out, io, wild, flaws>>

\* A copy, the engine or the allocation of the page fails.
StdFails ==
    /\ pc = "std"
    /\ pc' = "done"
    /\ hash' = (IF mac THEN Unknown ELSE hash) /\ want' = Unknown
    /\ UNCHANGED <<session, pages, req, off, out, io, wild, flaws>>

\* release_user_pages, then the end of crypto_run or of the request.
Release ==
    /\ pc \in {"release", "undo"}
    /\ release_user_pages
    /\ src_sg' = <<>> /\ dst_sg' = <<>>
    /\ pc' = IF pc = "release" /\ req.kind = "crypt" THEN "final" ELSE "done"
    /\ UNCHANGED <<session, array_size, req, off, digest, io, flaws>>

\* The end of crypto_run: the digest is computed unless the message goes on.
Final ==
    LET last == "FINAL" \in req.flags \/ "UPDATE" \notin req.flags \/ req.len = 0 IN
    /\ pc = "final"
    /\ pc' = "done"
    /\ IF mac /\ last
       THEN /\ \/ out' = [given |-> TRUE, msg |-> hash] /\ want' = want
               \/ out' = NoDigest /\ want' = Unknown   \* the engine fails
            /\ hash' = Unknown
       ELSE UNCHANGED digest
    /\ UNCHANGED <<session, pages, req, off, io, wild, flaws>>

\* crypto_put_session: the request is over, its digest is the caller's, and the
\* next message begins with a reset.
Done ==
    /\ pc = "done"
    /\ pc' = "idle" /\ req' = NoRequest /\ off' = 0 /\ io' = NoIo
    /\ out' = NoDigest /\ want' = IF out.given THEN Unknown ELSE want
    /\ UNCHANGED <<session, pages, hash, wild, flaws>>
-----------------------------------------------------------------------------
\* The CIOCAUTHCRYPT requests a caller may make: output of the cipher has room,
\* a TLS record that is decrypted is not empty, tags are no longer than the
\* digest, and the SRTP payload is within the authenticated data if it starts
\* there at all.
AuthRequests ==
    {r \in AuthInputs :
        /\ flaws = {}
        /\ r.len > 0 => r.src # NULL
        /\ aead => r.dst # NULL
        /\ r.kind = "tls" /\ r.op = "decrypt" => r.len > 0
        /\ r.kind = "srtp" => LET diff == r.src - r.auth IN
               diff \in 0 .. r.alen - 1 => diff + r.len <= r.alen}

\* What __crypto_auth_run_zc and the get_userbuf it calls refuse before they
\* map anything.
Refused(r) ==
    CASE r.kind = "srtp" ->
            \/ cipher # "ctr" \/ r.len = 0 \/ r.alen = 0
            \/ r.src - r.auth \notin 0 .. MaxDiff
      [] r.kind = "tls" /\ ~aead -> r.alen > PageSize \/ r.dst = NULL
      [] OTHER -> r.alen > PageSize \/ ~aead

\* fill_kcaop_from_caop, then crypto_auth_run up to the mapping.
AuthCrypt(r) ==
    /\ pc = "idle" /\ r \in AuthRequests
    /\ IF cipher = "none" \/ (r.kind \in {"tls", "srtp"} /\ r.src # r.dst)
       THEN UNCHANGED <<pc, req, digest>>
       ELSE /\ hash' = (IF mac THEN Fresh ELSE hash)
            /\ want' = Unknown /\ out' = out
            /\ IF Refused(r) THEN UNCHANGED <<pc, req>>
               ELSE /\ pc' = "map"
                    /\ req' = [r EXCEPT !.kind = IF aead THEN "aead" ELSE @,
                                        !.tag = IF @ = 0 /\ mac THEN DigestSize ELSE @]
    /\ UNCHANGED <<session, pages, off, io, wild, flaws>>

\* get_userbuf_tls and get_userbuf_srtp map one region: the record with room for
\* tag and padding, or the authenticated data.
Region ==
    IF req.kind = "srtp" THEN [addr |-> req.auth, len |-> req.alen]
    ELSE [addr |-> req.dst, len |-> req.len + blocksize + req.tag]
region_pages == PageCount(Region.addr, Region.len)

MapTls ==
    /\ pc = "map" /\ req.kind = "tls"
    /\ pc' = "run"
    /\ used_pages' = region_pages /\ array_size' = Grown(region_pages)
    /\ held' = Pinned(Region.addr, Region.len, region_pages)
    /\ src_sg' = Listed(Region.addr, Region.len, region_pages) /\ dst_sg' = src_sg'
    /\ UNCHANGED <<session, req, off, digest, io, wild, flaws>>

\* Mutant: a payload that begins after the data leaves them mapped.
MapSrtpKeeps ==
    /\ pc = "map" /\ req.kind = "srtp"
    /\ used_pages' = region_pages /\ array_size' = Grown(2 * region_pages)
    /\ held' = Pinned(Region.addr, Region.len, region_pages)
    /\ src_sg' = Listed(Region.addr, Region.len, region_pages)
    /\ dst_sg' = sg_advance(sg_copy(src_sg', req.alen), req.src - req.auth)
    /\ pc' = IF dst_sg' = <<>> THEN "done" ELSE "run"
    /\ UNCHANGED <<session, req, off, digest, io, wild, flaws>>

\* The second half of ses->sg is a copy of the first, advanced to the payload.
MapSrtp ==
    /\ pc = "map" /\ req.kind = "srtp"
    /\ used_pages' = region_pages /\ array_size' = Grown(2 * region_pages)
    /\ held' = Pinned(Region.addr, Region.len, region_pages)
    /\ src_sg' = Listed(Region.addr, Region.len, region_pages)
    /\ dst_sg' = sg_advance(sg_copy(src_sg', req.alen), req.src - req.auth)
    /\ pc' = IF dst_sg' = <<>> THEN "undo" ELSE "run"
    /\ UNCHANGED <<session, req, off, digest, io, wild, flaws>>

\* The page for the authenticated data, krealloc or get_user_pages fails; the
\* pages that get_user_pages took by then are not given back.
MapAuthFails ==
    /\ pc = "map" /\ req.kind \in {"tls", "srtp", "aead"}
    /\ pc' = "done"
    /\ \/ UNCHANGED <<array_size, used_pages, held, flaws>>
       \/ /\ req.kind # "aead"
          /\ array_size' = Grown(IF req.kind = "srtp" THEN 2 * region_pages ELSE region_pages)
          /\ used_pages' = IF req.kind = "srtp" THEN used_pages ELSE region_pages
          /\ \E k \in 0 .. region_pages - 1 :
                /\ held' = SubSeq(Pinned(Region.addr, Region.len, region_pages), 1, k)
                /\ flaws' = IF k > 0 THEN flaws \cup {"pages"} ELSE flaws
    /\ UNCHANGED <<session, src_sg, dst_sg, req, off, digest, io, wild>>
-----------------------------------------------------------------------------
\* An engine or a copy fails, or a tag or a pad is not the right one.
RunFails ==
    /\ pc = "run" /\ req.kind # "crypt"
    /\ pc' = "undo"
    /\ hash' = IF mac THEN Unknown ELSE hash
    /\ UNCHANGED <<session, pages, req, off, want, out, io, wild, flaws>>

\* The digest that is computed, and the one the caller expects.
Authenticate(message, expected) ==
    IF mac THEN /\ out' = [given |-> TRUE, msg |-> Update(hash, message)]
                /\ want' = [ok |-> TRUE, data |-> expected]
                /\ hash' = Unknown
    ELSE UNCHANGED digest

pad_size(len) == IF blocksize > 1 THEN blocksize - (len % blocksize) ELSE 0

\* tls_auth_n_crypt: authenticate, append the tag, pad and encrypt; or decrypt,
\* strip the pad (of any size up to the record's), and check the tag.  Without
\* a hash a bad pad goes unnoticed.
RunTlsEncrypt ==
    LET tagged == req.len + (IF mac THEN req.tag ELSE 0)
        total == tagged + pad_size(tagged) IN
    /\ pc = "run" /\ req.kind = "tls" /\ req.op = "encrypt"
    /\ pc' = "release"
    /\ Authenticate(Buffer(req.auth, req.alen) \o SubSeq(Bytes(dst_sg), 1, req.len),
                    Buffer(req.auth, req.alen) \o Buffer(req.dst, req.len))
    /\ io' = [read |-> total, wrote |-> total]
    /\ UNCHANGED <<session, pages, req, off, wild, flaws>>

RunTlsDecrypt ==
    /\ pc = "run" /\ req.kind = "tls" /\ req.op = "decrypt"
    /\ req.len % blocksize = 0
    /\ \E pad \in (IF blocksize = 1 THEN {0} ELSE (IF mac THEN 1 ELSE 0) .. req.len) :
        LET text == req.len - pad - (IF mac THEN req.tag ELSE 0) IN
        /\ text >= 0
        /\ Authenticate(Buffer(req.auth, req.alen) \o SubSeq(Bytes(dst_sg), 1, text),
                        Buffer(req.auth, req.alen) \o Buffer(req.dst, text))
    /\ pc' = "release"
    /\ io' = [read |-> req.len, wrote |-> req.len]
    /\ UNCHANGED <<session, pages, req, off, wild, flaws>>

\* srtp_auth_n_crypt: the ciphertext is authenticated with what surrounds it.
RunSrtp ==
    /\ pc = "run" /\ req.kind = "srtp"
    /\ mac /\ req.op = "decrypt" => req.tag <= req.len
    /\ pc' = "release"
    /\ Authenticate(Bytes(src_sg), Buffer(req.auth, req.alen))
    /\ io' = [read |-> req.alen, wrote |-> req.len]
    /\ UNCHANGED <<session, pages, req, off, wild, flaws>>

\* Mutant: the largest tag is the algorithm's.
max_tag_len_alg == MaxAuthSize
\* auth_n_crypt asks the transform for its tag size, and takes no larger one.
max_tag_len == authsize

\* auth_n_crypt: a tag size that is given becomes the transform's.
RunAead ==
    LET size == IF req.tag = 0 THEN authsize ELSE req.tag IN
    /\ pc = "run" /\ req.kind = "aead"
    /\ req.tag <= max_tag_len
    /\ req.op = "decrypt" => req.len >= size
    /\ pc' = "release" /\ authsize' = size
    /\ io' = [read |-> req.len,
              wrote |-> IF req.op = "encrypt" THEN req.len + size ELSE req.len - size]
    /\ UNCHANGED <<cipher, mac, alloc, pages, req, off, digest, wild, flaws>>

\* The tag size is set before the engine fails, or a decryption finds the tag
\* wrong.
RunAeadFails ==
    /\ pc = "run" /\ req.kind = "aead" /\ req.tag \in 1 .. max_tag_len
    /\ pc' = "undo" /\ authsize' = req.tag
    /\ UNCHANGED <<cipher, mac, alloc, pages, req, off, digest, io, wild, flaws>>
-----------------------------------------------------------------------------
Next ==
    \/ \E c \in {"none", "cbc", "ctr", "gcm"}, m \in BOOLEAN : Create(c, m) \/ CreateFails(c, m)
    \/ Finish
    \/ \E r \in CryptInputs : Crypt(r)
    \/ \E r \in AuthInputs : AuthCrypt(r)
    \/ ResetFails
    \/ Map \/ MapNoMemory \/ MapFirstFails \/ MapSecondFails
    \/ MapTls \/ MapSrtp \/ MapAuthFails
    \/ RunCrypt \/ RunTlsEncrypt \/ RunTlsDecrypt \/ RunSrtp \/ RunAead
    \/ RunFails \/ RunAeadFails
    \/ StdChunk \/ StdFails \/ Release \/ Final \/ Done

Spec == Init /\ [][Next]_vars
-----------------------------------------------------------------------------
\* The variables have the values the code gives them, and while a request is
\* mapped its pages (for SRTP, both lists) fit the session's arrays.
TypeOK ==
    /\ pc \in {"none", "idle", "map", "run", "std", "release", "undo", "final", "done"}
    /\ cipher \in {"none", "cbc", "ctr", "gcm"} /\ mac \in BOOLEAN
    /\ authsize \in 0 .. MaxAuthSize
    /\ array_size \in Nat /\ used_pages \in Nat
    /\ DOMAIN held \subseteq Nat \ {0}
    /\ off \in Nat /\ wild \in BOOLEAN
    /\ flaws \subseteq {"array", "pages"}
    /\ pc \in {"run", "release", "undo"} =>
          (IF req.kind = "srtp" THEN 2 * used_pages ELSE used_pages) <= array_size

\* Between requests a session holds no reference on a user page and none was
\* released that it did not take, on every path of get_userbuf and of the three
\* authenticated modes, with the exception of three cases zc.c does not
\* undo: get_user_pages took only part of a region, it failed on the second of
\* two regions, or an in-place AEAD encryption of no bytes counted pages for the
\* tag that it did not take.
PagesBalanced ==
    /\ pc \in {"none", "idle", "std", "final", "done"} => held = <<>> \/ "pages" \in flaws
    /\ wild => "pages" \in flaws

\* When the engines have run, the lists they were given began with exactly the
\* bytes of the caller's buffers they read and wrote, in order, and every page
\* listed was held: tag and padding of a TLS record, the tag after AEAD output
\* for whatever tag size earlier requests left, the payload inside SRTP data.
\* In-place AEAD encryption is the exception: its one list ends with the source.
ListsCover ==
    pc = "release" =>
        /\ \A e \in Range(src_sg) \cup Range(dst_sg) : e.length > 0 => e.page \in Range(held)
        /\ BeginsWith(src_sg, IF req.kind = "srtp" THEN req.auth ELSE req.src, io.read)
        /\ \/ BeginsWith(dst_sg, req.dst, io.wrote)
           \/ req.kind = "aead" /\ req.op = "encrypt" /\ inplace

\* A session that ended, or whose creation failed at any step, leaves nothing
\* allocated; the exception is a hash that was set up before the allocation of
\* the page arrays failed.
NothingLeaks == pc = "none" /\ "array" \notin flaws => alloc = {}

\* A digest covers every byte of its message once and in order, whatever the
\* requests that carried it: one or several updates, mapped, copied page by
\* page, or copied because mapping failed.
DigestIsOwn ==
    out.given /\ want.ok => out.msg = want
=============================================================================
