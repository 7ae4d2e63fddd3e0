------------------------------ MODULE ValNsec ------------------------------
(***************************************************************************)
(* The proof of nonexistence of libval, validator/libval/               *)
(* val_assertion.c: prove_nonexistence with nsec_proof_chk and            *)
(* prove_nsec_wildcard_check (NSEC), and nsec3_proof_chk with             *)
(* compute_nsec3_hash (NSEC3), called by fix_validation_results when the  *)
(* answer to the top query is a verified denial.                          *)
(*                                                                         *)
(* A name is a sequence of labels, leftmost first (<<"b", "z">> is b.z,   *)
(* <<>> the root).  An NSEC RRset is its owner, the next owner name, the  *)
(* type bitmap in wire form (NsecBitmap) and the labels field of its      *)
(* verified RRSIG.  An NSEC3 RRset is the hash in its owner's first      *)
(* label, the next hash, the bitmap, its labels field, the hash           *)
(* algorithm, the iteration count and the opt-out flag.  A hash is a      *)
(* position on the hash ring 1..N: the name-to-hash function H (SHA-1 of  *)
(* the name with the zone's salt, base32hex-encoded, which keeps the      *)
(* order) is a parameter, and nsec3_order_cmp is the order of naturals.   *)
(***************************************************************************)
EXTENDS NsecBitmap, Integers
LOCAL INSTANCE SequencesExt

CONSTANTS
    LabelOrder,     \* the labels in canonical (octet) order
    LIBVAL_NSEC3,   \* whether libval is built with LIBVAL_NSEC3
    NSEC3_MAX_ITER  \* the nsec3-max-iter policy: a set of <<zone, max>>

ALG_NSEC3_HASH_SHA1 == 1

(* An optional value: {} is NULL, {x} is x.                               *)
The(o) == CHOOSE x \in o : TRUE

LabelRank(l) == CHOOSE i \in 1..Len(LabelOrder) : LabelOrder[i] = l

(* namecmp: canonical DNS name order (RFC 4034, 6.1), labels compared    *)
(* from the root; a name sorts before the names below it.  namecmp is not *)
(* in this tree.                                                           *)
RECURSIVE namecmp(_, _)
namecmp(x, y) ==
    CASE x = <<>> /\ y = <<>> -> 0
      [] x = <<>>             -> -1
      [] y = <<>>             -> 1
      [] LabelRank(Last(x)) < LabelRank(Last(y)) -> -1
      [] LabelRank(Last(x)) > LabelRank(Last(y)) -> 1
      [] OTHER -> namecmp(Front(x), Front(y))

(* Fault variant of WildcardExpanded: an RRSIG whose labels field equals *)
(* the owner's label count also counted as expanded.                     *)
WildcardExpanded_le(set) == set.labels <= Len(set.owner)

(* check_label_count (not in this tree): the RRSIG's labels field is     *)
(* below the owner's label count iff the RRset was wildcard-expanded.     *)
WildcardExpanded(set) == set.labels < Len(set.owner)

(* The NSEC proof state that nsec_proof_chk updates through its pointer  *)
(* arguments.                                                              *)
Checks == [status |-> "DONT_KNOW", span_chk |-> FALSE, wcard_chk |-> FALSE,
           wcard_proof |-> {}, closest |-> {}, nsec3 |-> FALSE]

(* The closest encounter: the first suffix of qname (one label stripped, *)
(* then two, ... down to the root) that equals the NSEC owner, or, at the *)
(* first suffix that sorts before it, the owner minus its first label.     *)
(* None found leaves the previous value.                                   *)
RECURSIVE Encounter(_, _, _, _)
Encounter(qname, owner, k, old) ==
    IF k > Len(qname) THEN old
    ELSE LET cur == SubSeq(qname, k + 1, Len(qname)) IN
         CASE namecmp(cur, owner) = 0 -> {cur}
           [] namecmp(cur, owner) < 0 -> {Tail(owner)}
           [] OTHER -> Encounter(qname, owner, k + 1, old)

(* The NSEC's next name is before qname and does not wrap to the apex:   *)
(* this NSEC does not span qname.                                         *)
NextCovers(qname, nxt, soa) ==
    namecmp(qname, nxt) > 0 /\ namecmp(nxt, soa) # 0

(* Fault variant of nsec_proof_chk: the NSEC owned by qname proves the   *)
(* type absent without reading its bitmap.                                *)
nsec_proof_chk_no_bitmap(set, qname, qtype, soa, c, junk) ==
    IF namecmp(set.owner, qname) = 0
    THEN [c EXCEPT !.status = "NONEXISTENT_TYPE", !.span_chk = TRUE,
                   !.wcard_chk = @ \/ ~WildcardExpanded(set)]
    ELSE c

(* nsec_proof_chk: one NSEC RRset of the denial against qname.            *)
nsec_proof_chk(set, qname, qtype, soa, c, junk) ==
    IF namecmp(set.owner, qname) = 0
    THEN IF is_type_set(set.bitmap, qtype, junk)
         THEN [c EXCEPT !.status = "BOGUS_PROOF"]
         ELSE [c EXCEPT !.status = "NONEXISTENT_TYPE", !.span_chk = TRUE,
                        !.wcard_chk = @ \/ ~WildcardExpanded(set)]
    ELSE IF namecmp(set.owner, qname) > 0
    THEN [c EXCEPT !.status = "BOGUS_PROOF"]
    ELSE IF NextCovers(qname, set.next, soa)
    THEN [c EXCEPT !.wcard_proof = {set}]
    ELSE [c EXCEPT !.span_chk = TRUE,
                   !.wcard_proof = IF @ = {} THEN {set} ELSE @,
                   !.closest = Encounter(qname, set.owner, 1, @)]

(* prove_nsec_wildcard_check: *.<closest> is the owner of wcard_proof and *)
(* lacks qtype, or lies strictly inside its span.                          *)
prove_nsec_wildcard_check(qtype, proof, closest, status, junk) ==
    LET dn == <<"*">> \o closest IN
    IF proof # {} /\ namecmp(dn, The(proof).owner) = 0
    THEN IF is_type_set(The(proof).bitmap, qtype, junk) THEN "BOGUS_PROOF" ELSE status
    ELSE IF \/ proof = {}
            \/ namecmp(dn, The(proof).owner) < 0
            \/ namecmp(The(proof).next, dn) < 0
    THEN "BOGUS_PROOF" ELSE status

(***************************************************************************)
(* The NSEC3 path (LIBVAL_NSEC3).                                         *)
(***************************************************************************)
(* Fault variant of CHECK_RANGE: the next hash itself is inside the span. *)
CHECK_RANGE_next_inclusive(range1, range2, hash) ==
    IF range2 > range1 THEN range1 < hash /\ hash <= range2
                       ELSE hash <= range2 \/ hash > range1

(* Fault variant of CHECK_RANGE: the span never wraps past the largest   *)
(* hash.                                                                   *)
CHECK_RANGE_nowrap(range1, range2, hash) ==
    range2 # hash /\ range1 < hash /\ hash < range2

(* CHECK_RANGE: hash lies strictly inside the span from the owner hash   *)
(* range1 to the next hash range2; when range2 is not above range1 the   *)
(* span wraps past the largest hash (the last NSEC3 of the chain).       *)
CHECK_RANGE(range1, range2, hash) ==
    /\ range2 # hash
    /\ IF range2 > range1 THEN range1 < hash /\ hash < range2
                          ELSE hash < range2 \/ hash > range1

(* compute_nsec3_hash: NULL ({}) for an unknown algorithm or when the    *)
(* nsec3-max-iter policy of the longest policy zone enclosing the SOA     *)
(* name allows fewer iterations; else the hash of name.  The code finds    *)
(* the policy zone with strstr on wire names; here it is a label suffix.  *)
compute_nsec3_hash(H, name, soa, alg, iter) ==
    LET pols == {p \in NSEC3_MAX_ITER : IsSuffix(p[1], soa)}
        pol  == CHOOSE p \in pols : \A o \in pols : Len(o[1]) <= Len(p[1])
    IN  IF alg # ALG_NSEC3_HASH_SHA1 THEN {}
        ELSE IF pols # {} /\ pol[2] < iter THEN {}
        ELSE {H[name]}

(* The search of nsec3_proof_chk: the closest provable encloser cpe and  *)
(* the next closer name ncn (NULL is {}), the opt-out flag of the NSEC3  *)
(* that covered ncn, and the status once a return has decided it.        *)
Search == [cpe |-> {}, ncn |-> {}, optout |-> FALSE, status |-> "DONT_KNOW",
           done |-> FALSE]

(* One NSEC3 RRset against the candidate cp: an exact hash match makes cp *)
(* the cpe (at qname, the type must be absent, and a non-expanded RRSIG  *)
(* completes a no-data proof); a span covering the hash makes cp the ncn. *)
Nsec3Candidate(set, cp, qname, qtype, soa, H, s, junk) ==
    LET hash  == compute_nsec3_hash(H, cp, soa, set.alg, set.iter)
        exact == hash # {} /\ The(hash) = set.hash
        s1    == CASE ~exact -> s
                   [] cp # qname -> [s EXCEPT !.cpe = {cp}]
                   [] is_type_set(set.bitmap, qtype, junk) ->
                         [s EXCEPT !.cpe = {cp}, !.status = "BOGUS_PROOF", !.done = TRUE]
                   [] OTHER ->
                         [s EXCEPT !.cpe = {cp}, !.ncn = {cp}, !.status = "NONEXISTENT_TYPE",
                                   !.done = ~WildcardExpanded(set)]
    IN  IF hash = {} THEN [s EXCEPT !.status = "BOGUS_PROOF", !.done = TRUE]
        ELSE IF s1.done THEN s1
        ELSE IF CHECK_RANGE(set.hash, set.next, The(hash))
        THEN [s1 EXCEPT !.ncn = {cp}, !.optout = set.optout]
        ELSE s1

(* The inner for loop: every NSEC3 result against cp, until a return.    *)
RECURSIVE Nsec3Results(_, _, _, _, _, _, _, _, _)
Nsec3Results(res, i, cp, qname, qtype, soa, H, s, junk) ==
    IF i > Len(res) \/ s.done THEN s
    ELSE Nsec3Results(res, i + 1, cp, qname, qtype, soa, H,
                      IF res[i].set.kind = "NACK_NSEC3"
                      THEN Nsec3Candidate(res[i].set, cp, qname, qtype, soa, H, s, junk)
                      ELSE s,
                      junk)

(* The outer while loop: cp runs from qname up, one label at a time,     *)
(* while it sorts at or after the SOA name and no cpe is found.  (The    *)
(* code's first test in the loop, ncn == cpe or one label longer, cannot *)
(* hold with cpe NULL.  With the root as SOA name the code would strip a *)
(* label off the root; the walk stops there.)                            *)
RECURSIVE Nsec3Walk(_, _, _, _, _, _, _, _)
Nsec3Walk(res, cp, qname, qtype, soa, H, s, junk) ==
    IF s.done \/ s.cpe # {} \/ namecmp(cp, soa) < 0 THEN s
    ELSE LET s1 == Nsec3Results(res, 1, cp, qname, qtype, soa, H, s, junk) IN
         IF cp = <<>> THEN s1
         ELSE Nsec3Walk(res, Tail(cp), qname, qtype, soa, H, s1, junk)

(* The wildcard loop: the first NSEC3 whose hash equals that of *.cpe    *)
(* (the type must be absent: no data) or whose span covers it (no name,  *)
(* weakened by opt-out) decides; none is a bogus proof.                   *)
RECURSIVE Nsec3Wildcard(_, _, _, _, _, _, _, _)
Nsec3Wildcard(res, i, wc, qtype, soa, H, optout, junk) ==
    IF i > Len(res) THEN "BOGUS_PROOF"
    ELSE LET set  == res[i].set
             hash == compute_nsec3_hash(H, wc, soa, set.alg, set.iter)
         IN  CASE set.kind # "NACK_NSEC3" ->
                    Nsec3Wildcard(res, i + 1, wc, qtype, soa, H, optout, junk)
               [] hash = {} -> "BOGUS_PROOF"
               [] The(hash) = set.hash ->
                    IF is_type_set(set.bitmap, qtype, junk) THEN "BOGUS_PROOF"
                    ELSE "NONEXISTENT_TYPE"
               [] CHECK_RANGE(set.hash, set.next, The(hash)) ->
                    IF optout THEN "NONEXISTENT_NAME_OPTOUT" ELSE "NONEXISTENT_NAME"
               [] OTHER -> Nsec3Wildcard(res, i + 1, wc, qtype, soa, H, optout, junk)

(* nsec3_proof_chk: the closest encloser proof, the next closer name one *)
(* label below the cpe, then the wildcard at the cpe.  (The bound on the *)
(* length of *.cpe, NS_MAXCDNAME, is never reached by the names here.)   *)
nsec3_proof_chk(res, qname, qtype, soa, H, junk) ==
    LET s == Nsec3Walk(res, qname, qname, qtype, soa, H, Search, junk) IN
    CASE s.done -> s.status
      [] s.ncn = {} \/ s.cpe = {} -> "INCOMPLETE_PROOF"
      [] s.ncn # s.cpe /\ The(s.cpe) # Tail(The(s.ncn)) -> "BOGUS_PROOF"
      [] OTHER -> Nsec3Wildcard(res, 1, <<"*">> \o The(s.cpe), qtype, soa, H,
                                s.optout, junk)

(* The loop over the results: NSEC sets are checked until one decides;   *)
(* an NSEC3 met before that is noted.                                     *)
RECURSIVE NsecLoop(_, _, _, _, _, _, _)
NsecLoop(res, i, qname, qtype, soa, c, junk) ==
    IF i > Len(res) \/ c.status # "DONT_KNOW" THEN c
    ELSE NsecLoop(res, i + 1, qname, qtype, soa,
                  CASE res[i].set.kind = "NACK_NSEC" ->
                          nsec_proof_chk(res[i].set, qname, qtype, soa, c, junk)
                    [] res[i].set.kind = "NACK_NSEC3" -> [c EXCEPT !.nsec3 = TRUE]
                    [] OTHER -> c,
                  junk)

(* The verdict once the loop is done: NSEC and NSEC3 together, or        *)
(* neither, is a bogus proof; the nsec and nsec3 flags are set only under *)
(* LIBVAL_NSEC3.                                                          *)
NsecVerdict(res, qname, qtype, soa, H, c, junk) ==
    LET nsec  == LIBVAL_NSEC3 /\ \E i \in 1..Len(res) : res[i].set.kind = "NACK_NSEC"
        nsec3 == LIBVAL_NSEC3 /\ c.nsec3
        st == CASE LIBVAL_NSEC3 /\ nsec = nsec3 -> "BOGUS_PROOF"
                [] nsec /\ ~c.span_chk -> "INCOMPLETE_PROOF"
                [] nsec /\ ~c.wcard_chk /\ c.closest = {} -> "INCOMPLETE_PROOF"
                [] nsec /\ ~c.wcard_chk ->
                      prove_nsec_wildcard_check(qtype, c.wcard_proof, The(c.closest),
                                                c.status, junk)
                [] nsec3 -> nsec3_proof_chk(res, qname, qtype, soa, H, junk)
                [] OTHER -> c.status
    IN  IF st = "DONT_KNOW" THEN "NONEXISTENT_NAME" ELSE st

(* prove_nonexistence: the status every result of the proof is set to.  *)
(* res is the result chain, each [set, status]; rcode the header's.       *)
prove_nonexistence(res, qname, qtype, rcode, H, junk) ==
    LET soas == {i \in 1..Len(res) : res[i].set.kind = "NACK_SOA"}
        soa  == CHOOSE i \in soas : \A j \in soas : i <= j
    IN  IF soas = {} THEN "INCOMPLETE_PROOF"
        ELSE IF res[soa].status = "PROVABLY_UNSECURE"
        THEN CASE rcode = "NOERROR"  -> "NONEXISTENT_TYPE"
               [] rcode = "NXDOMAIN" -> "NONEXISTENT_NAME"
               [] OTHER              -> "ERROR"
        ELSE NsecVerdict(res, qname, qtype, res[soa].set.owner, H,
                 NsecLoop(res, 1, qname, qtype, res[soa].set.owner, Checks, junk), junk)
(* Fault variant of fix_negative_results: a failed result in the proof  *)
(* is not noticed.                                                        *)
fix_negative_results_trusting(res, qname, qtype, rcode, H, junk) ==
    prove_nonexistence(res, qname, qtype, rcode, H, junk)

(* fix_validation_results for a negative answer (an NSEC or SOA among the *)
(* results): the status all results end with.  A result that is neither *)
(* SUCCESS nor PROVABLY_UNSECURE, or a DS question answered by an SOA of  *)
(* the name asked (the child), makes the proof BOGUS_PROOF; otherwise the *)
(* proof engine decides.                                                   *)
fix_negative_results(res, qname, qtype, rcode, H, junk) ==
    LET partially_wrong == \E i \in 1..Len(res) :
                               res[i].status \notin {"SUCCESS", "PROVABLY_UNSECURE"}
        soas == {i \in 1..Len(res) : res[i].set.kind = "NACK_SOA"}
        asked_the_child == /\ qtype = 43
                           /\ soas # {}
                           /\ res[CHOOSE i \in soas : \A j \in soas : i <= j].set.owner = qname
    IN  IF asked_the_child \/ partially_wrong THEN "BOGUS_PROOF"
        ELSE prove_nonexistence(res, qname, qtype, rcode, H, junk)
=============================================================================
