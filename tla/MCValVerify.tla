---------------------------- MODULE MCValVerify ----------------------------
(***************************************************************************)
(* Checks verify_next_assertion (ValVerify) on every small input: an A or *)
(* DNSKEY set with one RRSIG of any shape, or with two plain RRSIGs,      *)
(* against every kind of trust the authentication chain can hand it (a    *)
(* DNSKEY set, a DS set, or the head of a negative or bare-RRSIG answer). *)
(* One step: the call.                                                     *)
(***************************************************************************)
EXTENDS ValVerify, FiniteSets

CONSTANTS
    SignerLens   \* the wire lengths the signer names of two RRSIGs may have

VARIABLES rr, trust, status
vars == <<rr, trust, status>>

(* K1 is the zone's key; K1c has K1's tag and other material (a tag       *)
(* collision); K1z lacks the zone-key flag; K1p has protocol 2; K7 is an *)
(* NSEC3-RSASHA1 key, KD a Diffie-Hellman key and K8 a key of an unknown *)
(* algorithm, all with K1's tag; KX is a key nobody's signature names and *)
(* K2 the key of a signature whose key no set holds.                       *)
K1  == Key("K1")
K1c == KeyRec("K1", "c", TRUE, 3, ALG_RSASHA1)
K1z == KeyRec("K1", "z", FALSE, 3, ALG_RSASHA1)
K1p == KeyRec("K1", "p", TRUE, 2, ALG_RSASHA1)
K7  == KeyRec("K1", "7", TRUE, 3, ALG_NSEC3_RSASHA1)
KD  == KeyRec("K1", "d", TRUE, 3, ALG_DH)
K8  == KeyRec("K1", "8", TRUE, 3, 8)
KX  == Key("KX")
K2  == Key("K2")

Makers == {K1, K1z, K1p, K7, KD, K8, K2}

KeySets  == {{K1}, {KX}, {K1, KX}, {K1c, K1}, {K1c}, {K1z}, {K1p}, {K7}, {KD}, {K8}}
PlainKeySets == {{K1}, {KX}, {K1, KX}}

(* Times around Now = 10 with a window of 2: current; inception at the   *)
(* edge of the window and beyond it; expiration at the edge and beyond.  *)
Periods == {<<8, 12>>, <<12, 14>>, <<13, 14>>, <<5, 8>>, <<5, 7>>}

(* An RRSIG algorithm field equal to the maker's, and one that is not.   *)
SigAlgs(k) == {k.alg, IF k.alg = ALG_RSASHA1 THEN ALG_NSEC3_RSASHA1 ELSE ALG_RSASHA1}

OtherType(t) == IF t = "A" THEN "DNSKEY" ELSE "A"

(* One RRSIG of any shape over the genuine data of type t.               *)
RichSigs(t) ==
    UNION {{SigFull("z", 1, k, a, c, p[1], p[2], l, TRUE) :
               a \in SigAlgs(k), c \in {t, OtherType(t)}, p \in Periods,
               l \in {"exact", "wild", "over"}} : k \in Makers}

(* Plain current RRSIGs by K1, K2 or KX, exact or wildcard, genuine or   *)
(* not, of each signer length.                                            *)
PlainSigs ==
    {SigFull("z", n, Key(k), ALG_RSASHA1, c, 8, 12, l, g) :
        n \in SignerLens, k \in {"K1", "K2", "KX"}, c \in {"A", "DNSKEY"},
        l \in {"exact", "wild"}, g \in BOOLEAN}

PlainSeqs == {<<s>> : s \in PlainSigs} \cup {<<s, t>> : s, t \in PlainSigs}

InputSets ==
    {RRSet("z", "A", {}, ss, g, "z") :
        ss \in {<<>>} \cup PlainSeqs \cup {<<s>> : s \in RichSigs("A")}, g \in BOOLEAN}
    \cup {RRSet("z", "DNSKEY", ks, ss, g, "z") :
            ks \in PlainKeySets, ss \in {<<>>} \cup PlainSeqs, g \in BOOLEAN}
    \cup {RRSet("z", "DNSKEY", ks, <<s>>, g, "z") :
            ks \in KeySets, s \in RichSigs("DNSKEY"), g \in BOOLEAN}

(* What pc->qc_as can be when try_verify_assertion passes it as trust.   *)
Trusts(set) ==
    {RRSet("z", IF set.type = "DNSKEY" THEN "DS" ELSE "DNSKEY",
           ks, <<>>, TRUE, "p") : ks \in KeySets}
    \cup {RRSet("p", "SOA", {}, <<>>, TRUE, "p"),
          RRSet("z", "RRSIG", {}, <<>>, TRUE, "z")}

Init ==
    /\ rr \in InputSets
    /\ trust \in Trusts(rr)
    /\ status = "CAN_VERIFY"

Verify ==
    /\ status = "CAN_VERIFY"
    /\ status' = verify_next_assertion(rr, trust)
    /\ UNCHANGED <<rr, trust>>

Next == Verify

Spec == Init /\ [][Next]_vars

Returned == status # "CAN_VERIFY"

(* Reference (spec 4.6, step 1): the algorithms a signature may use.      *)
SpecAlgs == {ALG_RSAMD5, ALG_DSASHA1, ALG_RSASHA1, ALG_NSEC3_DSASHA1, ALG_NSEC3_RSASHA1}

(* Reference (spec 4.6, step 1): the key set is the set's own for a      *)
(* DNSKEY set, the trust's otherwise.                                      *)
SpecKeys == IF rr.type = "DNSKEY" THEN rr.keys
            ELSE IF trust.type = "DNSKEY" THEN trust.keys ELSE {}

(* Reference (spec 4.6, step 1): a signature checks when its label count  *)
(* is possible and it is no wildcard expansion of a DNSKEY or DS set, and *)
(* some DNSKEY of the key set with its tag and algorithm is a zone key of *)
(* protocol 3, the algorithm is supported, now lies in the validity       *)
(* period widened by the window, and the primitive accepts: the key made *)
(* the signature over this type and data.                                  *)
SigChecks(sig) ==
    /\ sig.labels # "over"
    /\ ~(sig.labels = "wild" /\ rr.type \in {"DNSKEY", "DS"})
    /\ \E k \in SpecKeys :
          /\ k.tag = sig.key /\ k.alg = sig.alg
          /\ k.zonekey /\ k.protocol = 3
          /\ sig.alg \in SpecAlgs
          /\ sig.incp - SIG_ACCEPT_WINDOW <= Now /\ Now <= sig.expr + SIG_ACCEPT_WINDOW
          /\ k = sig.maker /\ sig.covers = rr.type /\ sig.genuine = rr.genuine

SomeSigChecks == \E i \in 1..Len(rr.sigs) : SigChecks(rr.sigs[i])

(* Soundness of verify_next_assertion: whatever the order of signatures, *)
(* the signer-name lengths, and the failing keys, colliding tags, wrong  *)
(* flags, protocols, algorithms, times and wildcard expansions of key    *)
(* sets met before or after a good one, the set is reported VERIFIED or  *)
(* WCARD_VERIFIED only when at least one RRSIG checks, and WCARD_VERIFIED *)
(* only when a wildcard expansion's RRSIG checks.                          *)
VerifiedOnlyIfSomeSigChecks ==
    Returned =>
        /\ status \in {"VERIFIED", "WCARD_VERIFIED"} => SomeSigChecks
        /\ status = "WCARD_VERIFIED"
               => \E i \in 1..Len(rr.sigs) : SigChecks(rr.sigs[i]) /\ IsWildcard(rr.sigs[i])

(* Completeness (spec 4.6): a set with at least one RRSIG that checks is *)
(* reported VERIFIED or WCARD_VERIFIED, whatever RRSIGs come before it    *)
(* (SET_STATUS never lets a later failure overwrite a success, and        *)
(* make_sigfield must build each RRSIG's own signed buffer).               *)
SomeSigChecksIsVerified ==
    Returned => (SomeSigChecks => status \in {"VERIFIED", "WCARD_VERIFIED"})

=============================================================================
