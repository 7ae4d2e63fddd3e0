----------------------------- MODULE ValVerify -----------------------------
(***************************************************************************)
(* The signature check of libval, validator/libval/val_verify.c:          *)
(* verify_next_assertion, do_verify, val_sigverify, make_sigfield and the *)
(* SET_STATUS macro that folds the per-signature and per-key outcomes     *)
(* into one assertion status.                                              *)
(*                                                                         *)
(* Cryptography is abstracted.  A DNSKEY is a record of its key tag, its *)
(* key material, the zone-key flag, the protocol and the algorithm.  An   *)
(* RRSIG names the signer (and the wire length of that name), the key     *)
(* that made it, the key tag, the algorithm field, the type it covers,   *)
(* the inception and expiration times, how its labels field compares with *)
(* the owner's labels, and whether it was made over the genuine data.    *)
(* The algorithm's primitive succeeds iff the key tried is the key that  *)
(* made the signature and the buffer make_sigfield built is the one that *)
(* was signed: the set's own type and data.  A DS record is abstracted to *)
(* the DNSKEY it digests.                                                  *)
(***************************************************************************)
EXTENDS Integers, Sequences

CONSTANTS
    Now,                \* gettimeofday() during val_sigverify
    SIG_ACCEPT_WINDOW,  \* the skew allowed around inception and expiration
    LIBVAL_NSEC3        \* the build flag: NSEC3 algorithm aliases

(* DNSSEC algorithm numbers (RFC 4034 A.1, RFC 5155).                      *)
ALG_RSAMD5 == 1
ALG_DH == 2
ALG_DSASHA1 == 3
ALG_RSASHA1 == 5
ALG_NSEC3_DSASHA1 == 6
ALG_NSEC3_RSASHA1 == 7

(* A DNSKEY (val_dnskey_rdata_t): key tag, key material, the zone-key   *)
(* flag bit (ZONE_KEY_FLAG), protocol and algorithm.                       *)
KeyRec(tag, material, zonekey, protocol, alg) ==
    [alg |-> alg, material |-> material, protocol |-> protocol, tag |-> tag,
     zonekey |-> zonekey]

(* A well-formed RSA-SHA1 zone key whose material is told apart by tag.    *)
Key(tag) == KeyRec(tag, tag, TRUE, 3, ALG_RSASHA1)

Keys(tags) == {Key(t) : t \in tags}

(* An RRSIG: its signer name and that name's wire length, the key that   *)
(* made it (key is its tag, as identify_key_from_sig reads it), the      *)
(* algorithm field, covered type, inception and expiration, labels       *)
(* ("exact", "wild" for a wildcard expansion, "over" for more labels than *)
(* the owner has), and whether it was made over the genuine data.         *)
SigFull(signer, signby_len, maker, alg, covers, incp, expr, labels, genuine) ==
    [alg |-> alg, covers |-> covers, expr |-> expr, genuine |-> genuine, incp |-> incp,
     key |-> maker.tag, labels |-> labels, maker |-> maker, signby_len |-> signby_len,
     signer |-> signer]

(* A current, exactly owned RSA-SHA1 signature by Key(key).              *)
SigRec(signer, key, covers, genuine) ==
    SigFull(signer, 1, Key(key), ALG_RSASHA1, covers, Now, Now, "exact", genuine)

(* An RRset (struct rrset_rec): owner, type, the DNSKEYs its rdata       *)
(* carries (DNSKEY: the keys; DS: the keys digested), its RRSIGs in wire  *)
(* order, whether it is the zone's genuine data, and the zone cut it came *)
(* from.  A set of type RRSIG is a bare RRSIG set: it has no rdata.       *)
RRSet(owner, type, keys, sigs, genuine, zonecut) ==
    [genuine |-> genuine, keys |-> keys, owner |-> owner, sigs |-> sigs,
     type |-> type, zonecut |-> zonecut]

HasData(rr) == rr.type # "RRSIG"

(* Fault variant of SET_STATUS: the signature status RRSIG_VERIFIED is  *)
(* stored untranslated.                                                   *)
SET_STATUS_untranslated(saved, new) ==
    CASE new \in {"RRSIG_VERIFIED", "WCARD_VERIFIED"} -> new
      [] saved \notin {"VERIFIED", "WCARD_VERIFIED"}
         /\ new \notin {"UNSET", "SIGNING_KEY", "UNKNOWN_ALGORITHM_LINK",
                        "VERIFIED_LINK"} -> "NOT_VERIFIED"
      [] OTHER -> saved

(* SET_STATUS: a verified signature wins; any other outcome that is not   *)
(* a key-side success degrades the status to NOT_VERIFIED, unless a       *)
(* signature already verified.                                             *)
SET_STATUS(saved, new) ==
    CASE new = "RRSIG_VERIFIED" -> "VERIFIED"
      [] new = "WCARD_VERIFIED" -> "WCARD_VERIFIED"
      [] saved \notin {"VERIFIED", "WCARD_VERIFIED"}
         /\ new \notin {"UNSET", "SIGNING_KEY", "UNKNOWN_ALGORITHM_LINK",
                        "VERIFIED_LINK"} -> "NOT_VERIFIED"
      [] OTHER -> saved

(* check_label_count (not in this tree): an RRSIG with more labels than  *)
(* its owner is an error; fewer is a wildcard expansion.                  *)
LabelCountOK(sig) == sig.labels # "over"
IsWildcard(sig) == sig.labels = "wild"

(* make_sigfield with predict_sigbuflength: the signed buffer is the     *)
(* RRSIG rdata up to and through the signer name, then the set's records. *)
(* predict_sigbuflength takes the signer's length from the set's FIRST   *)
(* RRSIG, and make_sigfield copies that many bytes of the RRSIG being     *)
(* checked: the buffer is the one signed only if the two signer names     *)
(* have the same wire length.  No bound check fails on that path.         *)
SigFieldMatches(rr, sig) == Head(rr.sigs).signby_len = sig.signby_len

(* The algorithms val_sigverify hands to a primitive: the NSEC3 aliases  *)
(* only in a LIBVAL_NSEC3 build.                                          *)
Supported(alg) ==
    \/ alg \in {ALG_RSAMD5, ALG_DSASHA1, ALG_RSASHA1}
    \/ LIBVAL_NSEC3 /\ alg \in {ALG_NSEC3_DSASHA1, ALG_NSEC3_RSASHA1}

(* rsamd5_sigverify, dsasha1_sigverify, rsasha1_sigverify (val_crypto,   *)
(* not in this tree): the primitive succeeds iff the key is the signer's  *)
(* and the buffer is the signed one, over the genuine type and data.      *)
Primitive(rr, sig, key, field) ==
    IF field /\ key = sig.maker /\ sig.covers = rr.type /\ sig.genuine = rr.genuine
    THEN [key |-> "UNSET", sig |-> "RRSIG_VERIFIED"]
    ELSE [key |-> "UNSET", sig |-> "NOT_VERIFIED"]

(* val_sigverify: the [dnskey_status, sig_status] it leaves, in the order *)
(* of its early returns: a key that is not a zone key, a protocol other  *)
(* than 3, an algorithm mismatch, a signature not yet valid or expired    *)
(* beyond SIG_ACCEPT_WINDOW (within it only a warning), then the          *)
(* algorithm's primitive, or an unsupported or unknown algorithm.  The    *)
(* times are compared as integers (see README on 32-bit wrap-around).     *)
val_sigverify(rr, sig, key, field) ==
    CASE ~key.zonekey -> [key |-> "INVALID_KEY", sig |-> "UNSET"]
      [] key.protocol # 3 -> [key |-> "UNKNOWN_DNSKEY_PROTOCOL", sig |-> "UNSET"]
      [] key.alg # sig.alg -> [key |-> "UNSET", sig |-> "RRSIG_ALGORITHM_MISMATCH"]
      [] Now < sig.incp /\ Now < sig.incp - SIG_ACCEPT_WINDOW ->
            [key |-> "UNSET", sig |-> "RRSIG_NOTYETACTIVE"]
      [] Now > sig.expr /\ Now > sig.expr + SIG_ACCEPT_WINDOW ->
            [key |-> "UNSET", sig |-> "RRSIG_EXPIRED"]
      [] Supported(sig.alg) -> Primitive(rr, sig, key, field)
      [] sig.alg = ALG_DH -> [key |-> "ALGORITHM_NOT_SUPPORTED", sig |-> "ALGORITHM_NOT_SUPPORTED"]
      [] OTHER -> [key |-> "UNKNOWN_ALGORITHM", sig |-> "UNKNOWN_ALGORITHM"]

(* Fault variant of do_verify: the signature is checked against the      *)
(* covered type only, not against the key or the data it is attached to.  *)
do_verify_type_only(rr, sig, key) ==
    IF sig.covers = rr.type THEN [key |-> "UNSET", sig |-> "RRSIG_VERIFIED"]
    ELSE [key |-> "UNSET", sig |-> "NOT_VERIFIED"]

(* Fault variant of do_verify: the refusal of a wildcard-expanded DS or  *)
(* DNSKEY set is dropped.                                                  *)
do_verify_wild_keys(rr, sig, key) ==
    val_sigverify(rr, sig, key, SigFieldMatches(rr, sig))

(* do_verify: a wildcard expansion of a DS or DNSKEY set is refused with *)
(* INVALID_KEY; otherwise make_sigfield builds the buffer and             *)
(* val_sigverify checks it.                                                *)
do_verify(rr, sig, key) ==
    IF IsWildcard(sig) /\ rr.type \in {"DS", "DNSKEY"}
    THEN [key |-> "INVALID_KEY", sig |-> "UNSET"]
    ELSE val_sigverify(rr, sig, key, SigFieldMatches(rr, sig))

(* The key records the signature is checked against (keyrr): the set's    *)
(* own rdata for a DNSKEY set, the trust's rdata otherwise.  Rdata that   *)
(* is not a DNSKEY set fails val_parse_dnskey_rdata.                      *)
KeySource(rr, trust) == IF rr.type = "DNSKEY" THEN rr ELSE trust

ParsedKeys(src) == IF src.type = "DNSKEY" THEN src.keys ELSE {}

Unparseable(src) == HasData(src) /\ src.type # "DNSKEY"

(* The key loop over keyrr for one RRSIG: keys of another tag are         *)
(* skipped; each key of the tag is tried with do_verify and its two       *)
(* statuses folded in (SIGNING_KEY first while nothing else is set); the  *)
(* first key that verifies the signature ends the loop, the signature's   *)
(* status made WCARD_VERIFIED for a wildcard expansion.  The result: the  *)
(* status, the key the loop broke on ({} for none: nextrr == NULL) and    *)
(* the signature's last status.                                            *)
RECURSIVE KeyLoop(_, _, _, _)
KeyLoop(rr, sig, ks, acc) ==
    IF ks = {} \/ acc.found # {} THEN acc
    ELSE LET k  == CHOOSE x \in ks : TRUE
             r  == do_verify(rr, sig, k)
             ss == IF r.sig = "RRSIG_VERIFIED" /\ IsWildcard(sig) THEN "WCARD_VERIFIED" ELSE r.sig
             s1 == IF r.sig = "RRSIG_VERIFIED" \/ acc.status = "UNSET"
                   THEN SET_STATUS(acc.status, "SIGNING_KEY") ELSE acc.status
             s2 == SET_STATUS(SET_STATUS(s1, ss), r.key)
         IN  IF k.tag # sig.key THEN KeyLoop(rr, sig, ks \ {k}, acc)
             ELSE KeyLoop(rr, sig, ks \ {k},
                          [status |-> s2, sigstatus |-> ss,
                           found |-> IF r.sig = "RRSIG_VERIFIED" THEN {k} ELSE {}])

(* The trust path of a DNSKEY set: the key the loop broke on, with the   *)
(* signature verified (or its algorithm unknown), is digested by a DS of *)
(* the trust with the same tag and algorithm.  The first match sets       *)
(* VERIFIED_LINK (or UNKNOWN_ALGORITHM_LINK), which SET_STATUS ignores,   *)
(* and returns.  The DS records' own statuses fold in only after a        *)
(* verified signature, where SET_STATUS ignores them too.                  *)
DSLink(rr, trust, found, sigstatus) ==
    /\ found # {}
    /\ rr.type = "DNSKEY"
    /\ sigstatus \in {"RRSIG_VERIFIED", "UNKNOWN_ALGORITHM"}
    /\ trust.type = "DS"
    /\ \E k \in found : k \in trust.keys

(* One iteration of the signature loop: the status after it and whether  *)
(* it returned early on a DS link.  A wrong label count is                *)
(* WRONG_LABEL_COUNT and the next signature.                               *)
VerifyOneSig(rr, trust, sig, s) ==
    IF ~LabelCountOK(sig)
    THEN [status |-> SET_STATUS(s, "WRONG_LABEL_COUNT"), linked |-> FALSE]
    ELSE LET src == KeySource(rr, trust)
             s1  == IF Unparseable(src) THEN SET_STATUS(s, "INVALID_KEY") ELSE s
             r   == KeyLoop(rr, sig, ParsedKeys(src),
                            [status |-> s1, sigstatus |-> "UNSET", found |-> {}])
         IN  [status |-> r.status, linked |-> DSLink(rr, trust, r.found, r.sigstatus)]

RECURSIVE VerifySigs(_, _, _, _)
VerifySigs(rr, trust, sigs, s) ==
    IF sigs = <<>> THEN [status |-> s, linked |-> FALSE]
    ELSE LET r == VerifyOneSig(rr, trust, Head(sigs), s)
         IN  IF r.linked THEN r
             ELSE VerifySigs(rr, trust, Tail(sigs), r.status)

(* verify_next_assertion: the status the assertion of rr ends with.  A    *)
(* DNSKEY set whose verified key matched no DS gets BAD_DELEGATION on     *)
(* every signature, which SET_STATUS ignores once a signature verified.   *)
verify_next_assertion(rr, trust) ==
    IF rr.sigs = <<>> THEN "RRSIG_MISSING"
    ELSE LET r == VerifySigs(rr, trust, rr.sigs, "UNSET")
         IN  IF r.linked \/ rr.type # "DNSKEY" THEN r.status
             ELSE SET_STATUS(r.status, "BAD_DELEGATION")
=============================================================================
