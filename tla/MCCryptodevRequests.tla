------------------------- MODULE MCCryptodevRequests -------------------------
(***************************************************************************)
(* Pages of two bytes, blocks of two, buffers of up to four bytes that     *)
(* begin at the start or in the middle of a page, so that a request spans  *)
(* one to three pages and, with a tag and padding, up to five.             *)
(***************************************************************************)
EXTENDS CryptodevRequests

Ops == {"encrypt", "decrypt"}
Sources == {4, 5}
Targets == {12, 13}

FlagSets == {{}, {"UPDATE"}, {"FINAL"}, {"RESET", "UPDATE"},
             {"NO_ZC"}, {"NO_ZC", "UPDATE"}, {"NO_ZC", "RESET"}}

MCCryptInputs ==
    {r \in [kind : {"crypt"}, op : Ops, flags : FlagSets, len : {0, 1, 2, 4},
            src : Sources, dst : Sources \cup {12, NULL}] :
        /\ r.dst \in {r.src, 12, NULL}
        /\ r.len = 0 => r.src = r.dst}

\* SRTP data begin before, at or after the payload, or nowhere.
MCAuthInputs ==
    {r \in [kind : {"tls", "srtp", "aead"}, op : Ops, len : {0, 1, 2, 4},
            src : Sources \cup {NULL}, dst : Sources \cup Targets,
            auth : {NULL, 3, 4, 5, 30}, alen : {0, 1, 3, 5}, tag : 0 .. 2] :
        /\ r.src = NULL => r.len = 0 /\ r.kind = "aead"
        /\ r.dst \in Sources => r.dst = r.src
        /\ r.dst \in Targets => r.kind = "aead" \/ (r.src = 4 /\ r.dst = 12)
        /\ r.auth \in {3, 4, 5} => r.kind = "srtp"
        /\ r.auth = 30 => r.kind # "srtp" /\ r.alen \in {1, 3}
        /\ r.auth = NULL => IF r.kind = "srtp" THEN r.alen = 1 ELSE r.alen = 0}
=============================================================================
