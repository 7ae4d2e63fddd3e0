---------------------------- MODULE ValAssertion ----------------------------
(***************************************************************************)
(* The validating resolver of libval, validator/libval/val_assertion.c:   *)
(* one call of val_resolve_and_check.  The call keeps                    *)
(* a query chain (struct val_query_chain, deduplicated by name and type, *)
(* move-to-front), an authentication chain (one assertion per answered   *)
(* RRset, linked upward by trust links) and a result chain, and loops:   *)
(* send unsent queries, block for one answer, assimilate it, and walk    *)
(* every answer's chain of trust until every chain is finished.          *)
(*                                                                         *)
(* The DNS is abstract: a tree of zones, one genuine key per signed zone *)
(* (ZoneKey), one trust anchor (the root key) and an attacker key KX.     *)
(* Each query is answered by the genuine zone data or, per Attacks, by a *)
(* loss, a stripped or a forged answer.  Signatures are checked by       *)
(* ValVerify.  The provably-insecure prover, whose nested                *)
(* val_resolve_and_check is a second call, is abstracted by its contract *)
(* (verify_provably_unsecure).                                            *)
(***************************************************************************)
EXTENDS ValVerify, Naturals, Sequences, FiniteSets, TLC

CONSTANTS
    Names,      \* owner names of the tree
    Zones,      \* the names that are zone apexes
    Root,       \* the root zone, holder of the only trust anchor
    Parent,     \* Parent[n]: the name above n (n # Root)
    QName,      \* the name asked for; val_resolve_and_check(QName, A)
    SignedChoices, \* the sets of zones that may be the signed ones
    Islands,    \* signed zones whose parent publishes no DS for them
    ZoneKey,    \* ZoneKey[z]: the key of zone z
    KX,         \* a key only the attacker holds
    Attacks,    \* what the network may do to an answer
    ForgeSigners, \* signer names the attacker writes into forged RRSIGs
    ForgeTypes, \* the query types the attacker answers with forged data
    Cached      \* the queries an earlier call may have left answers for

(* The zones that are signed.  A constant of the tree, but a variable   *)
(* fixed in Init, so one run covers every tree of SignedChoices.         *)
VARIABLE Signed

(* The NULL pointer, for query, trust and result links.                  *)
None == <<>>

ASSUME /\ Root \in Zones /\ Zones \subseteq Names /\ QName \in Names
       /\ \A s \in SignedChoices : Root \in s /\ Islands \subseteq s \ {Root}
       /\ ForgeTypes \subseteq {"A", "DNSKEY", "DS"}
       /\ Cached \subseteq Names \X {"A", "DNSKEY", "DS", "RRSIG"}
       /\ Attacks \subseteq {"drop", "strip", "forge", "forge_unsigned",
                             "anchor"}

ZoneOf(n) == IF n \in Zones THEN n ELSE Parent[n]

(* The trust anchor: the root zone and its key (trust_anchor_policy).    *)
AnchorZone == Root
AnchorKey  == ZoneKey[Root]

RECURSIVE Ancestors(_)
Ancestors(n) == IF n = Root THEN {} ELSE {Parent[n]} \cup Ancestors(Parent[n])

HasDS(z) == z \in Signed \ Islands /\ z # Root

QTypes == {"A", "DNSKEY", "DS", "RRSIG"}
QKeys  == Names \X QTypes
TopQ   == <<QName, "A">>

(***************************************************************************)
(* The answers a query can receive.                                       *)
(***************************************************************************)
SigsOf(z, ty) == IF z \in Signed THEN <<SigRec(z, ZoneKey[z], ty, TRUE)>> ELSE <<>>

G(owner, ty, keys, z) == RRSet(owner, ty, Keys(keys), SigsOf(z, ty), TRUE, z)

(* A no-data answer from zone z: its SOA, and an NSEC when z is signed.   *)
NoData(z, n) == <<G(z, "SOA", {}, z)>> \o
                (IF z \in Signed THEN <<G(n, "NSEC", {}, z)>> ELSE <<>>)

(* The types that have RRSIGs at n, in the order the server lists them.  *)
CoveredAt(n) == IF n \in Zones THEN <<"DNSKEY", "SOA">> ELSE <<"A">>

BareRRSIG(n) ==
    RRSet(n, "RRSIG", {},
          [i \in 1..Len(CoveredAt(n)) |->
              SigRec(ZoneOf(n), ZoneKey[ZoneOf(n)], CoveredAt(n)[i], TRUE)],
          TRUE, ZoneOf(n))

Genuine(q) ==
    LET n == q[1]  t == q[2] IN
    CASE t = "A" ->
            IF n = QName THEN <<G(n, "A", {}, ZoneOf(n))>> ELSE NoData(ZoneOf(n), n)
      [] t = "DNSKEY" ->
            IF n \in Zones \cap Signed
            THEN <<G(n, "DNSKEY", {ZoneKey[n]}, n)>> ELSE NoData(ZoneOf(n), n)
      [] t = "DS" ->
            IF n \in Zones \ {Root}
            THEN IF HasDS(n) THEN <<G(n, "DS", {ZoneKey[n]}, Parent[n])>>
                 ELSE NoData(Parent[n], n)
            ELSE NoData(ZoneOf(n), n)
      [] t = "RRSIG" ->
            IF ZoneOf(n) \in Signed THEN <<BareRRSIG(n)>> ELSE NoData(ZoneOf(n), n)

Strip(rr) == [rr EXCEPT !.sigs = <<>>]

ForgedKeys(t) == IF t \in {"DNSKEY", "DS"} THEN {KX} ELSE {}

Forged(q, sigs) == RRSet(q[1], q[2], Keys(ForgedKeys(q[2])), sigs, FALSE, ZoneOf(q[1]))

(* The answers that can reach the resolver for q; "drop" (a lost answer, *)
(* a timeout) is the action Timeout.                                      *)
Responses(q) ==
    {Genuine(q)}
    \cup (IF "strip" \in Attacks
          THEN {[i \in 1..Len(Genuine(q)) |-> Strip(Genuine(q)[i])]} ELSE {})
    \cup (IF "forge_unsigned" \in Attacks /\ q[2] \in ForgeTypes
          THEN {<<Forged(q, <<>>)>>} ELSE {})
    \cup (IF "forge" \in Attacks /\ q[2] \in ForgeTypes
          THEN {<<Forged(q, <<SigRec(s, KX, q[2], FALSE)>>)>> : s \in ForgeSigners}
          ELSE {})
    \cup (IF "anchor" \in Attacks /\ q[2] = "DNSKEY"
          THEN {<<RRSet(q[1], q[2], Keys({AnchorKey} \cup ForgedKeys(q[2])),
                        <<SigRec(AnchorZone, KX, q[2], FALSE)>>, FALSE, ZoneOf(q[1]))>>}
          ELSE {})

(***************************************************************************)
(* The record cache (val_cache.h; its code is not in this tree).  It maps *)
(* a <name, type> to the RRsets last stowed for it; get_cached_rrset     *)
(* returns them, stow_answer overwrites them.  Answers are stowed as they *)
(* arrive, before they are validated.                                     *)
(***************************************************************************)
CachedFor(resp, k) == SelectSeq(resp, LAMBDA rr : rr.owner = k[1] /\ rr.type = k[2])

stow_answer(cache, resp) ==
    [k \in QKeys |-> IF CachedFor(resp, k) = <<>> THEN cache[k] ELSE CachedFor(resp, k)]

(* What an earlier call may have stowed for k: nothing, or the part of an *)
(* answer it received for k that has k's name and type.                  *)
WarmEntries(k) == {None} \cup {CachedFor(r, k) : r \in Responses(k)}

(* The caches an earlier call may have left for the keys in ks.          *)
RECURSIVE WarmCaches(_)
WarmCaches(ks) ==
    IF ks = {} THEN {[k \in QKeys |-> None]}
    ELSE LET k == CHOOSE k \in ks : TRUE
         IN  {[q \in QKeys |-> IF q = k THEN e ELSE c[q]] :
                 c \in WarmCaches(ks \ {k}), e \in WarmEntries(k)}

(***************************************************************************)
(* Status bands.  The code compares VAL_A_* codes with <= VAL_A_INIT,     *)
(* VAL_A_LAST_ERROR, VAL_A_LAST_BAD and VAL_A_LAST_FAILURE; the codes are *)
(* defined in val_errors.h, which is not in this tree.  The bands follow  *)
(* the order the walk tests them in; UNSET (0) is below INIT.             *)
(***************************************************************************)
PendingStatus == {"UNSET", "INIT", "WAIT_FOR_RRSIG", "WAIT_FOR_TRUST", "CAN_VERIFY"}
ErrorStatus   == {"DNS_ERROR", "DATA_MISSING", "RRSIG_MISSING", "DNSKEY_MISSING",
                  "DS_MISSING"}
BadStatus     == {"INVALID_RRSIG", "UNKNOWN_DNSKEY_PROTOCOL"}
FailureStatus == {"NOT_VERIFIED", "BAD_DELEGATION", "DNSKEY_NOMATCH", "INVALID_KEY",
                  "WRONG_LABEL_COUNT", "RRSIG_EXPIRED", "RRSIG_NOTYETACTIVE"}
NackKinds     == {"NACK_NSEC", "NACK_NSEC3", "NACK_SOA"}

(* A result status: the VAL_R_* code and VAL_R_TRUST_FLAG.  VAL_SUCCESS  *)
(* is taken to be a trusted VERIFIED_CHAIN, the encoding under which the *)
(* spec's depth-2 example (SOA, then the anchored DNSKEY) is a success.   *)
Plain(b)              == [base |-> b, trusted |-> FALSE]
DONT_KNOW             == Plain("DONT_KNOW")
VAL_SUCCESS           == [base |-> "VERIFIED_CHAIN", trusted |-> TRUE]
VAL_PROVABLY_UNSECURE == [base |-> "PROVABLY_UNSECURE", trusted |-> TRUE]

NewAssertion(rr) ==
    [rr |-> rr, kind |-> "UNSET", status |-> "INIT", trust |-> None, pending |-> None]

(***************************************************************************)
(* The handlers work on a snapshot S of the context: S.qstate, S.qas      *)
(* (the assertions of each query's answer, qc_as first), S.head (front of *)
(* q_list), S.results, and the flags of verify_and_validate.              *)
(***************************************************************************)
(* With(e, F) is F(e) with e evaluated once: each handler below passes   *)
(* the snapshot its previous step left, by value, to the next step.      *)
With(e, F(_)) == CHOOSE v \in {F(x) : x \in {e}} : TRUE

As(S, a) == S.qas[a[1]][a[2]]

SetStatus(S, a, st) == [S EXCEPT !.qas[a[1]][a[2]].status = st]

SetRes(S, am, v) == [S EXCEPT !.results[am] = v]

Least(I) == CHOOSE i \in I : \A j \in I : i <= j

AssertionIds(S) == UNION {{<<q, i>> : i \in 1..Len(S.qas[q])} : q \in QKeys}

(* Fault variant of add_to_query_chain: an existing query is set back to  *)
(* Q_INIT as if newly created, so it is sent again.                       *)
add_to_query_chain_reset(S, q) == [S EXCEPT !.qstate[q] = "INIT", !.head = q]

(* add_to_query_chain: an existing query is moved to the front, a new one *)
(* is created in Q_INIT at the front.                                      *)
add_to_query_chain(S, q) ==
    [S EXCEPT !.qstate[q] = IF @ = "ABSENT" THEN "INIT" ELSE @, !.head = q]

(* is_trusted_key(signer, keys): an anchor for the signer name whose key  *)
(* is in the set, else hope if an anchor lies above the signer.           *)
is_trusted_key(zone, keys) ==
    IF zone = AnchorZone /\ \E k \in keys : k.tag = AnchorKey /\ k = Key(k.tag) THEN "TRUST_KEY"
    ELSE IF AnchorZone \in Ancestors(zone) THEN "WAIT_FOR_TRUST"
    ELSE "NO_TRUST_ANCHOR"

(* Fault variant of PendOn: the pending query is linked but never added *)
(* to the query chain, so it is never sent.                               *)
PendOn_unsent(S, a, st, q) ==
    [S EXCEPT !.qas[a[1]][a[2]].status = st, !.qas[a[1]][a[2]].pending = q]

PendOn(S, a, st, q) ==
    LET S1 == add_to_query_chain(S, q)
    IN  [S1 EXCEPT !.qas[a[1]][a[2]].status = st, !.qas[a[1]][a[2]].pending = q]

(* build_pending_query: what the assertion waits for, and the query that  *)
(* fetches it (pending = front of the chain after adding it).  No zone    *)
(* policy is configured: is_trusted_zone answers WAIT_FOR_TRUST.          *)
build_pending_query(S, a) ==
    LET x == As(S, a)  rr == x.rr  signer == rr.sigs[1].signer IN
    CASE x.kind = "BARE_RRSIG" -> SetStatus(S, a, "BARE_RRSIG")
      [] ~HasData(rr)          -> SetStatus(S, a, "DATA_MISSING")
      [] rr.sigs = <<>>        -> PendOn(S, a, "WAIT_FOR_RRSIG", <<rr.owner, "RRSIG">>)
      [] rr.type = "DNSKEY" /\ is_trusted_key(signer, rr.keys) # "WAIT_FOR_TRUST" ->
                                  SetStatus(S, a, is_trusted_key(signer, rr.keys))
      [] rr.type = "DNSKEY"    -> PendOn(S, a, "WAIT_FOR_TRUST", <<signer, "DS">>)
      [] OTHER                 -> PendOn(S, a, "WAIT_FOR_TRUST", <<signer, "DNSKEY">>)

(* set_ans_kind: how an RRset answers the query q; UNSET is WRONG_ANSWER. *)
set_ans_kind(q, rr) ==
    CASE ~HasData(rr) /\ rr.sigs # <<>>        -> "BARE_RRSIG"
      [] rr.type \in {"NSEC", "SOA"} ->
            IF rr.owner = q[1] /\ q[2] \in {"ANY", rr.type} THEN "STRAIGHT"
            ELSE IF rr.type = "NSEC" THEN "NACK_NSEC" ELSE "NACK_SOA"
      [] rr.owner = q[1] /\ q[2] \in {"ANY", rr.type} -> "STRAIGHT"
      [] OTHER                                 -> "UNSET"

(* fails_to_answer_query, with the query name as the only name of the    *)
(* qname chain (no CNAME is followed here).                                *)
fails_to_answer_query(q, rr, kind) ==
    LET type_match == rr.type = q[2]
        top        == rr.owner = q[1]
    IN  /\ HasData(rr)
        /\ \/ ~type_match /\ kind = "STRAIGHT"
           \/ type_match /\ kind # "STRAIGHT"
           \/ ~top /\ type_match /\ kind = "STRAIGHT"
           \/ ~type_match /\ kind = "CNAME"

(* The kinds assimilate_answers accepts after a first kind.               *)
KindsWith(kind) ==
    CASE kind = "STRAIGHT"   -> {"STRAIGHT", "CNAME"}
      [] kind = "CNAME"      -> {"STRAIGHT", "CNAME", "NACK_SOA", "NACK_NSEC3", "NACK_NSEC"}
      [] kind = "BARE_RRSIG" -> {"BARE_RRSIG"}
      [] kind \in NackKinds  -> {"NACK_NSEC", "NACK_NSEC3", "NACK_SOA", "CNAME"}
      [] OTHER               -> {}

RECURSIVE AssimilateFrom(_, _, _, _)
AssimilateFrom(S, q, i, kind) ==
    IF i > Len(S.qas[q]) THEN S
    ELSE LET a  == <<q, i>>
             rr == As(S, a).rr
             k  == set_ans_kind(q, rr)
             S1 == [S EXCEPT !.qas[q][i].kind = k]
             S2 == IF kind # "UNSET" /\ k \notin KindsWith(kind)
                   THEN [S1 EXCEPT !.qstate[q] = "ERROR"] ELSE S1
             wrong == k = "UNSET" \/ fails_to_answer_query(q, rr, k)
             next  == IF wrong THEN SetStatus(S1, a, "DNS_ERROR")
                      ELSE build_pending_query(S2, a)
         IN  With(next, LAMBDA T :
                 AssimilateFrom(T, q, i + 1,
                                IF ~wrong /\ kind = "UNSET" THEN k ELSE kind))

(* assimilate_answers: one assertion per RRset of the answer, each given *)
(* its kind, checked against the first kind, and its pending query.       *)
assimilate_answers(S, q, resp) ==
    IF S.qas[q] # <<>> THEN S
    ELSE IF resp = <<>> THEN [S EXCEPT !.qstate[q] = "ERROR"]
    ELSE AssimilateFrom([S EXCEPT !.qas[q] = [i \in 1..Len(resp) |-> NewAssertion(resp[i])]],
                        q, 1, "UNSET")
(* Fault variant of TakeTrust: the pending query is cleared without     *)
(* advancing the status.                                                  *)
TakeTrust_status_kept(S, pc, a) ==
    [S EXCEPT !.qas[a[1]][a[2]].trust = <<pc, 1>>, !.qas[a[1]][a[2]].pending = None]

(* The DNSKEY or DS answer a waited for has come: its first assertion     *)
(* becomes a's trust, the pending query is cleared, and a can be verified *)
(* (or, if the answer is a denial, must be proven insecure).              *)
TakeTrust(S, pc, a) ==
    [S EXCEPT !.qas[a[1]][a[2]].trust = <<pc, 1>>,
              !.qas[a[1]][a[2]].pending = None,
              !.qas[a[1]][a[2]].status =
                   IF S.qas[pc][1].kind \in NackKinds THEN "NEGATIVE_PROOF"
                   ELSE "CAN_VERIFY"]

(* try_verify_assertion(pc, a): advance a once its pending query pc has  *)
(* an answer: pair a bare RRSIG whose first record covers a's type, or   *)
(* take pc's first assertion as trust; then verify if possible.  The     *)
(* trust is passed to verify_next_assertion (val_verify.c).               *)
try_verify_assertion(S, pc, a) ==
    LET st    == As(S, a).status
        OnError == CASE S.qstate[pc] = "ERROR" /\ st = "WAIT_FOR_RRSIG" ->
                        SetStatus(S, a, "RRSIG_MISSING")
                   [] S.qstate[pc] = "ERROR" /\ st = "WAIT_FOR_TRUST" /\ pc[2] = "DS" ->
                        SetStatus(S, a, "DS_MISSING")
                   [] S.qstate[pc] = "ERROR" /\ st = "WAIT_FOR_TRUST" /\ pc[2] = "DNSKEY" ->
                        SetStatus(S, a, "DNSKEY_MISSING")
                   [] OTHER -> S
        bare  == {i \in 1..Len(S.qas[pc]) :
                    /\ S.qas[pc][i].status = "BARE_RRSIG"
                    /\ S.qas[pc][i].rr.sigs[1].covers = As(S, a).rr.type}
        OnAnswer(S1) == CASE S1.qstate[pc] = "ANSWERED" /\ st = "WAIT_FOR_RRSIG" /\ bare # {} ->
                        build_pending_query(
                            [S1 EXCEPT !.qas[a[1]][a[2]].rr.sigs = S1.qas[pc][Least(bare)].rr.sigs,
                                       !.qas[a[1]][a[2]].status = "WAIT_FOR_TRUST"], a)
                   [] S1.qstate[pc] = "ANSWERED" /\ st = "WAIT_FOR_RRSIG" ->
                        SetStatus(S1, a, "RRSIG_MISSING")
                   [] S1.qstate[pc] = "ANSWERED" /\ st = "WAIT_FOR_TRUST" ->
                        TakeTrust(S1, pc, a)
                   [] OTHER -> S1
        Verify(S2) == LET x == As(S2, a) IN
                      IF x.status = "CAN_VERIFY"
                      THEN SetStatus(S2, a, verify_next_assertion(x.rr, As(S2, x.trust).rr))
                      ELSE S2
    IN  With(With(OnError, OnAnswer), Verify)

(* Zones whose DNSSEC chain from the anchor is intact.                     *)
RECURSIVE SecureZone(_)
SecureZone(z) ==
    z \in Signed /\ (z = Root \/ (HasDS(z) /\ SecureZone(ZoneOf(Parent[z]))))

(* verify_provably_unsecure(top_q, as): the loop guard for a DS query     *)
(* answered by its own zone's SOA, then the nested                        *)
(* val_resolve_and_check(zone cut of as, DS).  Its contract: it returns   *)
(* NONEXISTENT_TYPE exactly when the cut is a zone that the secure parent *)
(* provably does not delegate to with a DS, and the nested lookup was not *)
(* lost (lost); a lost lookup ends the proof.                             *)
verify_provably_unsecure(S, a, lost) ==
    LET x == As(S, a)  cut == x.rr.zonecut IN
    IF /\ TopQ[2] = "DS" /\ TopQ[1] = x.rr.owner
       /\ x.status = "RRSIG_MISSING" /\ x.kind = "NACK_SOA"
    THEN FALSE
    ELSE /\ cut # Root /\ ~HasDS(cut)
         /\ SecureZone(ZoneOf(Parent[cut]))
         /\ cut \notin lost

(* The prover's verdict on a: PROVABLY_UNSECURE (trusted, and a's status *)
(* becomes PROVABLY_UNSECURE), or else res set to alt.                    *)
ProveOr(S, am, a, lost, alt) ==
    IF verify_provably_unsecure(S, a, lost)
    THEN SetRes(SetStatus(S, a, "PROVABLY_UNSECURE"), am, VAL_PROVABLY_UNSECURE)
    ELSE SetRes(S, am, alt)

(* The first SOA assertion from a's trust on along rrset_next.            *)
SoaOfTrust(S, a) ==
    LET t == As(S, a).trust
        I == {j \in t[2]..Len(S.qas[t[1]]) : S.qas[t[1]][j].rr.type = "SOA"}
    IN  IF I = {} THEN None ELSE <<t[1], Least(I)>>

(* Fault variant of MarkTrusted: the flag is not set.                    *)
MarkTrusted_unflagged(r) == r

(* res->val_rc_status |= VAL_R_TRUST_FLAG: the chain reached a trusted   *)
(* key, a trusted zone or a proof of insecurity.                          *)
MarkTrusted(r) == [r EXCEPT !.trusted = TRUE]

(* One node of the trust walk of verify_and_validate: bring the node up  *)
(* to date if it is pending (dereferencing its pending query), then      *)
(* Classify it.  fuel bounds the walk; running out of it is a hang.       *)
RECURSIVE Walk(_, _, _, _, _), Classify(_, _, _, _, _)
Walk(S, am, a, fuel, lost) ==
    IF a = None THEN S
    ELSE IF fuel = 0 THEN [S EXCEPT !.hang = TRUE]
    ELSE IF As(S, a).status \in PendingStatus /\ As(S, a).pending = None
    THEN [S EXCEPT !.crash = TRUE]
    ELSE LET pc      == As(S, a).pending
             Refresh == IF As(S, a).status \notin PendingStatus THEN S
                        ELSE try_verify_assertion(
                                 IF S.qstate[pc] = "ERROR" THEN SetStatus(S, a, "DNS_ERROR")
                                 ELSE S,
                                 pc, a)
         IN  With(Refresh, LAMBDA S1 : Classify(S1, am, a, fuel, lost))

(* The rest of the loop body for node a, once it is up to date: break a   *)
(* DNSKEY<->DS cycle of length two, then classify a's status into the     *)
(* result res of am, and go up the trust link unless the chain ended.     *)
Classify(S1, am, a, fuel, lost) ==
    LET x   == As(S1, a)
        st  == x.status
        r   == S1.results[am]
        Up(T) == With(T, LAMBDA U : Walk(U, am, As(U, a).trust, fuel - 1, lost))
    IN
    IF x.rr.type = "DNSKEY" /\ x.trust # None /\ As(S1, x.trust).trust = a
    THEN SetRes(S1, am, Plain("INDETERMINATE_DS"))
    ELSE CASE st \in PendingStatus ->
                Up([S1 EXCEPT !.done = FALSE, !.thisdone = FALSE])
           [] st = "DONT_VALIDATE" -> S1
           [] st \in {"TRUST_KEY", "TRUST_ZONE", "PROVABLY_UNSECURE"} ->
                SetRes(S1, am, MarkTrusted(r))
           [] st = "NEGATIVE_PROOF" /\ x.trust = None ->
                SetRes(S1, am, Plain("INDETERMINATE_PROOF"))
           [] st = "NEGATIVE_PROOF" /\ x.rr.type = "DNSKEY" ->
                LET soa == SoaOfTrust(S1, a) IN
                IF soa # None /\ As(S1, soa).rr.owner # x.rr.owner
                THEN ProveOr(S1, am, soa, lost, r)
                ELSE SetRes(S1, am, Plain("INDETERMINATE_PROOF"))
           [] st = "NEGATIVE_PROOF" -> ProveOr(S1, am, a, lost, r)
           [] st \in ErrorStatus -> ProveOr(S1, am, a, lost, Plain("ERROR"))
           [] st \in BadStatus -> SetRes(S1, am, Plain("ERROR"))
           [] st \in FailureStatus /\ r.base = "BOGUS_UNPROVABLE" ->
                ProveOr(S1, am, a, lost, Plain("ERROR"))
           [] st \in FailureStatus ->
                Up(SetRes(S1, am, [r EXCEPT !.base = "BOGUS_UNPROVABLE"]))
           [] r.base = "VERIFIED_CHAIN" \/ r = DONT_KNOW ->
                CASE st \in {"VERIFIED", "VERIFIED_LINK"} ->
                        Up(SetRes(S1, am, [r EXCEPT !.base = "VERIFIED_CHAIN"]))
                  [] st \in {"LOCAL_ANSWER", "TRUST_KEY", "TRUST_ZONE"} ->
                        SetRes(S1, am, Plain("LOCAL_ANSWER"))
                  [] st = "BARE_RRSIG" -> SetRes(S1, am, Plain("BARE_RRSIG"))
                  [] st = "NO_TRUST_ANCHOR" -> SetRes(S1, am, Plain("VERIFIED_CHAIN"))
                  [] OTHER -> Up(S1)
           [] OTHER -> Up(S1)

(* The outer loop of verify_and_validate over the answers of the top     *)
(* query: results already finished are skipped, the others are walked.   *)
RECURSIVE ValidateFrom(_, _, _)
ValidateFrom(S, i, lost) ==
    IF i > Len(S.qas[TopQ]) \/ S.crash \/ S.hang THEN S
    ELSE LET am == <<TopQ, i>> IN
         IF am \in DOMAIN S.results /\ S.results[am].base # "DONT_KNOW"
         THEN ValidateFrom(S, i + 1, lost)
         ELSE LET S1 == [S EXCEPT !.results = IF am \in DOMAIN @ THEN @
                                              ELSE (am :> DONT_KNOW) @@ @,
                                  !.thisdone = TRUE]
                  WalkAm(T) == Walk(T, am, am, Cardinality(AssertionIds(T)) + 1, lost)
                  Finish(S2) == IF S2.thisdone THEN S2
                                ELSE [S2 EXCEPT !.results[am].base = "DONT_KNOW"]
              IN  With(With(With(S1, WalkAm), Finish),
                       LAMBDA S3 : ValidateFrom(S3, i + 1, lost))

verify_and_validate(S, lost) ==
    IF S.qas[TopQ] = <<>> THEN S
    ELSE ValidateFrom([S EXCEPT !.done = TRUE], 1, lost)

(* fix_validation_results: a result with no trust is an ERROR, a trusted *)
(* DONT_KNOW a SUCCESS; a negative answer that is partially wrong, or a  *)
(* DS answered by the child's SOA, makes every result BOGUS_PROOF.  The  *)
(* remaining branch, prove_nonexistence, is not reached: the top query   *)
(* is never answered negatively in this model.                           *)
FixOne(res, k) ==
    LET s == IF k = None THEN Plain("ERROR") ELSE res[k]
    IN  IF s = [base |-> "DONT_KNOW", trusted |-> TRUE] THEN VAL_SUCCESS ELSE s

fix_validation_results(res, qas) ==
    LET r1 == [k \in DOMAIN res |-> FixOne(res, k)]
        Top(k) == qas[k[1]][k[2]]
        partially_wrong == \E k \in DOMAIN r1 :
                               r1[k] \notin {VAL_SUCCESS, VAL_PROVABLY_UNSECURE}
        negative_proof  == \E k \in DOMAIN r1 \ {None} : Top(k).kind \in NackKinds
        asked_the_child == /\ TopQ[2] = "DS"
                           /\ \E k \in DOMAIN r1 \ {None} :
                                 Top(k).rr.type = "SOA" /\ Top(k).rr.owner = TopQ[1]
    IN  IF negative_proof /\ (asked_the_child \/ partially_wrong)
        THEN [k \in DOMAIN r1 |-> Plain("BOGUS_PROOF")]
        ELSE r1
(***************************************************************************)
(* The state of one val_resolve_and_check call.                           *)
(***************************************************************************)
VARIABLES
    qstate,       \* qstate[q]: "ABSENT", or qc_state: INIT, SENT, ANSWERED, ERROR
    qas,          \* qas[q]: the assertions made from q's answer (qc_as first)
    head,         \* the front of context->q_list
    lastHead,     \* last_q: the front when this iteration began
    block,        \* block: wait for an answer in ask_resolver
    dataReceived, \* data_received
    results,      \* the result chain: top assertion (val_rc_trust) -> status
    phase,        \* "loop", "cache" (in ask_cache after a hit), "wait"
                  \* (polling in ask_resolver), "check", or the
                  \* end: "returned", "crashed" (NULL dereference), "hung"
    lost,         \* zone cuts whose nested DS lookup in the prover is lost
    tampered,     \* the network delivered something other than the zone data
    cache,        \* cache[q]: the RRsets get_cached_rrset returns for q
    scan          \* the queries the current ask_cache recursion looks at

vars == <<qstate, qas, head, lastHead, block, dataReceived, results, phase,
          lost, tampered, cache, scan, Signed>>

Snapshot == [qstate |-> qstate, qas |-> qas, head |-> head, results |-> results,
             done |-> FALSE, thisdone |-> TRUE, crash |-> FALSE, hang |-> FALSE]

Init ==
    /\ Signed \in SignedChoices
    /\ qstate = [q \in QKeys |-> IF q = TopQ THEN "INIT" ELSE "ABSENT"]
    /\ qas = [q \in QKeys |-> <<>>]
    /\ head = TopQ
    /\ lastHead = TopQ
    /\ block = TRUE
    /\ dataReceived = FALSE
    /\ results = <<>>
    /\ phase = "loop"
    /\ lost \in IF "drop" \in Attacks THEN SUBSET Zones ELSE {{}}
    /\ tampered = FALSE
    /\ cache \in WarmCaches(Cached)
    /\ scan = {}

(* The queries ask_cache looks at: at the top of the loop the whole      *)
(* chain; after a hit only the queries its assimilation put in front of   *)
(* the old front (the recursive call with end_q = top_q).  The chain's   *)
(* order is not kept, so the hit taken among them is any of them.         *)
CacheScan == IF phase = "loop" THEN QKeys ELSE scan

CacheHits == {q \in CacheScan : qstate[q] = "INIT" /\ cache[q] # None}

(* ask_cache finds data for the Q_INIT query q (the top of the loop sets *)
(* last_q first): data_received = 1, q is Q_ANSWERED and a response made  *)
(* of the cached RRsets is assimilated.  The scan breaks; if the          *)
(* assimilation added or moved queries to the front, ask_cache recurses   *)
(* over those.                                                             *)
CacheHit(q) ==
    /\ phase \in {"loop", "cache"}
    /\ q \in CacheHits
    /\ \E S \in {assimilate_answers([Snapshot EXCEPT !.qstate[q] = "ANSWERED"], q, cache[q])} :
           /\ qstate' = S.qstate
           /\ qas' = S.qas
           /\ head' = S.head
           /\ scan' = {S.qas[q][i].pending : i \in 1..Len(S.qas[q])} \ {None}
    /\ lastHead' = IF phase = "loop" THEN head ELSE lastHead
    /\ dataReceived' = TRUE
    /\ tampered' = (tampered \/ cache[q] # Genuine(q))
    /\ phase' = "cache"
    /\ UNCHANGED <<block, results, lost, cache, Signed>>

(* After ask_cache: if (data_received) block = 0.                         *)
ResolverBlock == block /\ ~dataReceived

(* ask_cache has found nothing more; then ask_resolver sends every Q_INIT *)
(* query and blocks only when block is set and some query is unanswered. *)
SendQueries ==
    /\ phase \in {"loop", "cache"}
    /\ CacheHits = {}
    /\ lastHead' = IF phase = "loop" THEN head ELSE lastHead
    /\ qstate' = [q \in QKeys |-> IF qstate[q] = "INIT" THEN "SENT" ELSE qstate[q]]
    /\ block' = ResolverBlock
    /\ phase' = IF block' /\ \E q \in QKeys : qstate'[q] = "SENT" THEN "wait" ELSE "check"
    /\ scan' = {}
    /\ UNCHANGED <<qas, head, dataReceived, results, lost, tampered, cache, Signed>>

(* ask_resolver's poll: val_resquery_rcv returns an answer for q, which   *)
(* is assimilated and stowed in the cache; answered = 1.                  *)
ReceiveAnswer(q, resp) ==
    /\ phase = "wait"
    /\ qstate[q] = "SENT"
    /\ \E S \in {assimilate_answers([Snapshot EXCEPT !.qstate[q] = "ANSWERED"], q, resp)} :
           /\ qstate' = S.qstate
           /\ qas' = S.qas
           /\ head' = S.head
    /\ tampered' = (tampered \/ resp # Genuine(q))
    /\ cache' = stow_answer(cache, resp)
    /\ phase' = "check"
    /\ UNCHANGED <<lastHead, block, dataReceived, results, lost, scan, Signed>>

(* The query times out or its answer is lost: an error state, which sets *)
(* data_received.                                                          *)
Timeout(q) ==
    /\ "drop" \in Attacks
    /\ phase = "wait"
    /\ qstate[q] = "SENT"
    /\ qstate' = [qstate EXCEPT ![q] = "ERROR"]
    /\ dataReceived' = TRUE
    /\ tampered' = TRUE
    /\ phase' = "check"
    /\ UNCHANGED <<qas, head, lastHead, block, results, lost, cache, scan, Signed>>

(* After ask_resolver: new queries were added, so loop without blocking. *)
NewQueries ==
    /\ phase = "check"
    /\ head # lastHead
    /\ block' = FALSE
    /\ phase' = "loop"
    /\ UNCHANGED <<qstate, qas, head, lastHead, dataReceived, results, lost, tampered,
                   cache, scan, Signed>>

(* Nothing received and the top query still unanswered: the loop goes   *)
(* round again, blocking.  The top query is the only one sent before the *)
(* first answer, and a blocking wait ends with an answer or a timeout, so *)
(* without glue fetching (Q_WAIT_FOR_GLUE) this branch is never taken;   *)
(* its negation guards the two branches below.                           *)
TopPending == ~dataReceived /\ qstate[TopQ] \in {"INIT", "SENT"}

(* The top query failed: a single DNS_ERROR result, then                  *)
(* fix_validation_results, and return.                                     *)
TopError ==
    /\ phase = "check"
    /\ head = lastHead
    /\ ~TopPending
    /\ qstate[TopQ] = "ERROR"
    /\ results' = fix_validation_results(
                      (IF qas[TopQ] = <<>> THEN None ELSE <<TopQ, 1>>) :> Plain("DNS_ERROR"),
                      qas)
    /\ block' = TRUE
    /\ phase' = "returned"
    /\ UNCHANGED <<qstate, qas, head, lastHead, dataReceived, lost, tampered, cache,
                   scan, Signed>>

(* verify_and_validate; when every chain is done, fix_validation_results  *)
(* and return.                                                             *)
Validate ==
    /\ phase = "check"
    /\ head = lastHead
    /\ ~TopPending
    /\ qstate[TopQ] # "ERROR"
    /\ \E S \in {verify_and_validate(Snapshot, lost)} :
       LET end == S.done /\ ~S.crash /\ ~S.hang
       IN  /\ qstate' = S.qstate
           /\ qas' = S.qas
           /\ head' = S.head
           /\ results' = IF end THEN fix_validation_results(S.results, S.qas)
                         ELSE S.results
           /\ phase' = CASE S.crash -> "crashed"
                         [] S.hang  -> "hung"
                         [] end     -> "returned"
                         [] OTHER   -> "loop"
    /\ dataReceived' = FALSE
    /\ block' = TRUE
    /\ UNCHANGED <<lastHead, lost, tampered, cache, scan, Signed>>

Terminal == phase \in {"returned", "crashed", "hung"}

(* val_resolve_and_check has returned (or the process died): nothing     *)
(* further happens in this call.                                           *)
Returned == Terminal /\ UNCHANGED vars

Next ==
    \/ \E q \in QKeys : CacheHit(q)
    \/ SendQueries
    \/ \E q \in QKeys : \E resp \in Responses(q) : ReceiveAnswer(q, resp)
    \/ \E q \in QKeys : Timeout(q)
    \/ NewQueries
    \/ TopError
    \/ Validate
    \/ Returned

Spec == Init /\ [][Next]_vars
(***************************************************************************)
(* Properties.                                                             *)
(***************************************************************************)
QStates  == {"ABSENT", "INIT", "SENT", "ANSWERED", "ERROR"}
Phases   == {"loop", "cache", "wait", "check", "returned", "crashed", "hung"}
AStatus  == PendingStatus \cup ErrorStatus \cup BadStatus \cup FailureStatus
            \cup {"VERIFIED", "VERIFIED_LINK", "WCARD_VERIFIED", "TRUST_KEY",
                  "TRUST_ZONE", "NO_TRUST_ANCHOR", "NEGATIVE_PROOF", "BARE_RRSIG",
                  "PROVABLY_UNSECURE", "LOCAL_ANSWER", "DONT_VALIDATE"}

TypeOK ==
    /\ qstate \in [QKeys -> QStates]
    /\ \A q \in QKeys : \A i \in 1..Len(qas[q]) :
          /\ qas[q][i].status \in AStatus
          /\ qas[q][i].pending \in QKeys \cup {None}
          /\ qas[q][i].trust \in AssertionIds(Snapshot) \cup {None}
    /\ head \in QKeys /\ lastHead \in QKeys
    /\ block \in BOOLEAN /\ dataReceived \in BOOLEAN /\ tampered \in BOOLEAN
    /\ DOMAIN results \subseteq {<<TopQ, i>> : i \in 1..Len(qas[TopQ])} \cup {None}
    /\ phase \in Phases
    /\ lost \subseteq Zones
    /\ \A q \in QKeys : \A i \in 1..Len(cache[q]) : <<cache[q][i].owner, cache[q][i].type>> = q
    /\ scan \subseteq QKeys
    /\ Signed \in SignedChoices

Trusted(r) == r \in {VAL_SUCCESS, Plain("LOCAL_ANSWER")}

(* val_istrusted: when val_resolve_and_check returns an answer as trusted *)
(* (SUCCESS or LOCAL_ANSWER) it is the zone's genuine RRset, whatever the *)
(* network delivered: forged, stripped or lost answers, and forged keys *)
(* or signatures at any level of the chain.                               *)
TrustedAnswerIsGenuine ==
    phase = "returned" =>
        \A k \in DOMAIN results \ {None} :
            Trusted(results[k]) => qas[k[1]][k[2]].rr.genuine

(* verify_and_validate dereferences the pending query of every assertion *)
(* it finds still waiting (status <= INIT) without a NULL check; no      *)
(* assertion on a walked chain is waiting without a pending query.        *)
NoNullPendingDereference == phase # "crashed"

(* The trust walk of verify_and_validate ends: the cycle check (a DNSKEY *)
(* whose trust's trust is itself) catches every cycle of trust links.    *)
TrustWalkTerminates == phase # "hung"

(* Spec 4.5, 4.8 and 8.6c: with the zone data delivered intact, the      *)
(* answer is SUCCESS when the chain from the anchor to the zone of QName  *)
(* is intact, and PROVABLY_INSECURE (trusted) when that zone is unsigned  *)
(* below a secure zone that denies its DS.                                *)
ExpectedResult ==
    IF SecureZone(ZoneOf(QName)) THEN VAL_SUCCESS ELSE VAL_PROVABLY_UNSECURE

(* With the zone data delivered intact and no lookup lost, the result    *)
(* chain val_resolve_and_check returns holds exactly the expected status *)
(* for the one answer of the top query.                                   *)
HonestOutcome ==
    (phase = "returned" /\ ~tampered /\ lost = {}) =>
        results = (<<TopQ, 1>> :> ExpectedResult)

(* val_resolve_and_check returns.  The program is single-threaded and   *)
(* every step but the final one changes the state, so the fairness the   *)
(* code has (the process keeps running; res_io answers or times out each *)
(* query) is that state-changing steps keep happening.  Under it, every  *)
(* answer waited for arrives or times out and every chain finishes.      *)
KeepsRunning == []<><<TRUE>>_vars

ResolveReturns == KeepsRunning => <>Terminal

(* Refinement: the query chain of val_resolve_and_check (qc_state of     *)
(* every query, add_to_query_chain reusing an existing one, ask_resolver  *)
(* sending only Q_INIT queries, the answer or the error of a sent one)    *)
(* and its return (only with the top query answered or failed, after      *)
(* which nothing changes) implement the abstract query lifecycle.         *)
Lifecycle == INSTANCE QueryLifecycle WITH qs <- qstate, returned <- (phase = "returned")

QueryLifecycleRefined == Lifecycle!Spec
=============================================================================
