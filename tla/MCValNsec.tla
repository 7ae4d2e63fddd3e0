------------------------------ MODULE MCValNsec ------------------------------
(***************************************************************************)
(* Checks prove_nonexistence (ValNsec) against what the zone holds.  The  *)
(* zone z has a set of owner names (Exists); its NSEC chain is derived    *)
(* from them, each NSEC signed by the zone.  A response to <qname, qtype> *)
(* carries the zone's SOA and any genuine NSEC RRsets of the chain, in any *)
(* order: an attacker can replay signed NSECs, and can add a forged NSEC *)
(* at qname, which the trust walk leaves BOGUS_UNPROVABLE.  Or the zone   *)
(* is signed with NSEC3: its chain holds every name that exists (empty    *)
(* non-terminals too) in hash order, and a response carries the SOA and  *)
(* any of those NSEC3 RRsets; the hash order is one of several, and the  *)
(* chain may set the opt-out flag.  Some names of the zone may be zone    *)
(* cuts (Cuts) delegating to a signed child.  One step:                   *)
(* fix_validation_results runs the proof.                                 *)
(***************************************************************************)
EXTENDS ValNsec, FiniteSets
LOCAL INSTANCE SequencesExt

CONSTANTS
    Contents,   \* the sets of owner names the zone may hold below the apex
    QNames,     \* the names asked for
    MaxRRsets,  \* the most RRsets a denial carries
    Cuts,       \* the names that, when in the zone, are delegations
    HashMults   \* the hash orders: multipliers of a name's rank, mod HashPrime

VARIABLES zone, qname, qtype, resp, status,
          hash,     \* the name-to-hash function of the zone's NSEC3 chain
          optout    \* whether the NSEC3 chain sets the opt-out flag
vars == <<zone, qname, qtype, resp, status, hash, optout>>

Apex == <<"z">>
A    == 1
MX   == 15

DS   == 43

(* The types at an owner name; the apex also holds SOA, NS and MX.  At a *)
(* zone cut the parent holds NS and DS; the child's apex holds the data.  *)
TypesAt(n) ==
    IF n \in Cuts THEN {2, DS, 46, 47}
    ELSE {A, 46, 47} \cup (IF n = Apex THEN {2, 6, MX} ELSE {})

ChildApexTypes == {A, 2, 6, 46, 47, 48}

(* The names of the zone in canonical order: the next owner of n.         *)
Owners(E) == E \cup {Apex}

NextOwner(E, n) ==
    LET after == {m \in Owners(E) : namecmp(m, n) > 0}
    IN  IF after = {} THEN Apex
        ELSE CHOOSE m \in after : \A k \in after : namecmp(m, k) <= 0

(* The NSEC RRset at n; its RRSIG's labels field omits a leading "*".    *)
NSEC(E, n) ==
    [kind |-> "NACK_NSEC", owner |-> n, next |-> NextOwner(E, n),
     bitmap |-> TypeBitmap(TypesAt(n)),
     labels |-> Len(n) - (IF n[1] = "*" THEN 1 ELSE 0)]

SOA == [kind |-> "NACK_SOA", owner |-> Apex, next |-> Apex, bitmap |-> <<>>,
        labels |-> 1]

Records(E) == {SOA} \cup {NSEC(E, n) : n \in Owners(E)}

(***************************************************************************)
(* The NSEC3 chain.  A hash is (rank * m) % HashPrime for a multiplier m, *)
(* the rank being the name's place in canonical order among the names     *)
(* that can be hashed: every name of the zone or asked, and the wildcard  *)
(* below each.  Each m gives another cyclic order of the hashes.          *)
(***************************************************************************)
InZone(n) == Len(n) >= 1 /\ Last(n) = Last(Apex)

NameSuffixes(n) == {SubSeq(n, k, Len(n)) : k \in 1..Len(n)}

HashBase  == UNION {NameSuffixes(n) : n \in {Apex} \cup UNION Contents \cup QNames}
HashNames == {n \in HashBase \cup {<<"*">> \o m : m \in HashBase} : InZone(n)}
HashPrime == 17

ASSUME Cardinality(HashNames) < HashPrime

Rank(n) == Cardinality({m \in HashNames : namecmp(m, n) < 0}) + 1

Hashes == {[n \in HashNames |-> (Rank(n) * m) % HashPrime] : m \in HashMults}

(* The names with an NSEC3: every name that exists, empty non-terminals  *)
(* included (RFC 5155, 7.1).                                               *)
Hashed(E) == {n \in UNION {NameSuffixes(m) : m \in Owners(E)} : InZone(n)}

(* The hash after H[n] on the ring, wrapping to the least.                *)
NextHash(E, H, n) ==
    LET after == {H[m] : m \in {m \in Hashed(E) : H[m] > H[n]}}
        all   == {H[m] : m \in Hashed(E)}
    IN  IF after = {} THEN Min(all) ELSE Min(after)

(* An empty non-terminal's NSEC3 has an empty bitmap; NSEC is not listed. *)
NSEC3(E, H, opt, n) ==
    [kind |-> "NACK_NSEC3", owner |-> <<H[n]>> \o Apex, hash |-> H[n],
     next |-> NextHash(E, H, n),
     bitmap |-> TypeBitmap(IF n \in Owners(E) THEN TypesAt(n) \ {47} ELSE {}),
     labels |-> Len(Apex) + 1, alg |-> ALG_NSEC3_HASH_SHA1, iter |-> 0, optout |-> opt]

Chain3(E, H, opt) == {NSEC3(E, H, opt, n) : n \in Hashed(E)}

Signed(rr) == [set |-> rr, status |-> "SUCCESS"]

(* NSEC3 denials: the SOA, then up to MaxRRsets of the chain's NSEC3s in *)
(* hash order; and the SOA with an NSEC and an NSEC3, in either order.   *)
Responses3(E, H, opt) ==
    {<<Signed(SOA)>> \o [i \in 1..Cardinality(T) |->
                          Signed(SetToSortSeq(T, LAMBDA x, y : x.hash < y.hash)[i])] :
        T \in {T \in SUBSET Chain3(E, H, opt) : Cardinality(T) \in 1..MaxRRsets}}
    \cup {<<Signed(SOA), Signed(x), Signed(y)>> :
            x \in {NSEC(E, n) : n \in Owners(E)}, y \in Chain3(E, H, opt)}
    \cup {<<Signed(SOA), Signed(y), Signed(x)>> :
            x \in {NSEC(E, n) : n \in Owners(E)}, y \in Chain3(E, H, opt)}

(* An NSEC made up by an attacker: qname exists with no data.  No key of *)
(* the zone signed it.                                                    *)
Forged(E, n) ==
    [kind |-> "NACK_NSEC", owner |-> n, next |-> NextOwner(E, n),
     bitmap |-> TypeBitmap({46, 47}), labels |-> Len(n)]

(* The walk's result for an RRset: the zone's own verify, a forgery does  *)
(* not.                                                                   *)
WalkStatus(E, rr) == IF rr \in Records(E) THEN "SUCCESS" ELSE "BOGUS_UNPROVABLE"

(* Denials as the result chain holds them: distinct RRsets, each with the *)
(* status the walk gave it.                                                *)
Responses(E, n) ==
    LET pool == Records(E) \cup {Forged(E, n)} IN
    {[i \in 1..Len(s) |-> [set |-> s[i], status |-> WalkStatus(E, s[i])]] :
        s \in {s \in UNION {[1..k -> pool] : k \in 1..MaxRRsets} :
                  \A i, j \in DOMAIN s : i # j => s[i] # s[j]}}

DefaultHash == CHOOSE H \in Hashes : TRUE

Init ==
    /\ zone \in Contents
    /\ qname \in QNames
    /\ qtype \in {A, MX}
    /\ \/ /\ hash = DefaultHash
          /\ optout = FALSE
          /\ resp \in Responses(zone, qname)
       \/ /\ hash \in Hashes
          /\ optout \in BOOLEAN
          /\ resp \in Responses3(zone, hash, optout)
    /\ status = "NONE"

Prove ==
    /\ status = "NONE"
    /\ status' = fix_negative_results(resp, qname, qtype, "NOERROR", hash, 0)
    /\ UNCHANGED <<zone, qname, qtype, resp, hash, optout>>

Next == Prove

Spec == Init /\ [][Next]_vars

(***************************************************************************)
(* Reference (RFC 4035 3.1.3, spec 4.7).  A name exists if it owns RRsets *)
(* or lies above one that does (an empty non-terminal).  A name that does *)
(* not exist is answered from the wildcard at its closest encloser, when  *)
(* there is one.                                                           *)
(***************************************************************************)
NameExists(E, n) ==
    \E m \in Owners(E) : Len(n) <= Len(m) /\ SubSeq(m, Len(m) - Len(n) + 1, Len(m)) = n

ClosestEncloser(E, n) ==
    LET encl == {k \in 1..Len(n) : NameExists(E, SubSeq(n, k, Len(n)))}
    IN  SubSeq(n, CHOOSE k \in encl : \A j \in encl : k <= j, Len(n))

Wildcard(E, n) == <<"*">> \o ClosestEncloser(E, n)

(* The types the zone answers for n: its own (at a cut, the child's), or *)
(* its wildcard's.                                                         *)
AnswerTypes(E, n) ==
    CASE n \in Owners(E) \cap Cuts -> ChildApexTypes \cup {DS}
      [] n \in Owners(E) -> TypesAt(n)
      [] NameExists(E, n) -> {}
      [] Wildcard(E, n) \in Owners(E) -> TypesAt(Wildcard(E, n))
      [] OTHER -> {}

Answerable(E, n) == NameExists(E, n) \/ Wildcard(E, n) \in Owners(E)

Done == status # "NONE"

(* The honest denials: the NSEC at qname (no data), the NSEC spanning an *)
(* empty non-terminal, or the NSECs spanning qname and the wildcard of its *)
(* closest encloser (no such name), each with the SOA, in any order.       *)
Spans(E, n) == CHOOSE m \in Owners(E) :
                   namecmp(m, n) <= 0 /\ (namecmp(n, NextOwner(E, m)) < 0
                                          \/ NextOwner(E, m) = Apex)

HonestSets(E, n) ==
    CASE n \in Owners(E)   -> {SOA, NSEC(E, n)}
      [] NameExists(E, n) -> {SOA, NSEC(E, Spans(E, n))}
      [] OTHER -> {SOA, NSEC(E, Spans(E, n)), NSEC(E, Spans(E, Wildcard(E, n)))}

(* The NSEC3 span that covers x: the chain's name with the greatest hash *)
(* below x's, or, when there is none, the one with the greatest hash.     *)
Cover(E, H, x) ==
    LET below == {m \in Hashed(E) : H[m] < H[x]}
        Top(S) == CHOOSE m \in S : \A k \in S : H[k] <= H[m]
    IN  IF below = {} THEN Top(Hashed(E)) ELSE Top(below)

(* The zone's own NSEC3 denials (RFC 5155, 7.2): the NSEC3 of a name that *)
(* exists (no data); or the closest encloser proof (the NSEC3 of the      *)
(* closest encloser and the one covering the next closer name) with the  *)
(* NSEC3 of the wildcard, or the one covering it.                          *)
HonestSets3(E, H, opt, n) ==
    LET N3(m) == NSEC3(E, H, opt, m)
        ce    == ClosestEncloser(E, n)
        nc    == SubSeq(n, Len(n) - Len(ce), Len(n))
        wc    == <<"*">> \o ce
    IN  IF NameExists(E, n) THEN {SOA, N3(n)}
        ELSE {SOA, N3(ce), N3(Cover(E, H, nc)),
              IF wc \in Hashed(E) THEN N3(wc) ELSE N3(Cover(E, H, wc))}

IsNsec3 == \A i \in DOMAIN resp : resp[i].set.kind # "NACK_NSEC"

IsHonest ==
    {resp[i].set : i \in DOMAIN resp} =
        IF IsNsec3 THEN HonestSets3(zone, hash, optout, qname) ELSE HonestSets(zone, qname)

(* A verified NSEC denial of the type (nsec_proof_chk: the NSEC owned by *)
(* qname whose bitmap lacks qtype) is reported as NONEXISTENT_TYPE only    *)
(* when the zone answers qname, or its wildcard, without that type.       *)
TypeDenialIsSound ==
    (Done /\ status = "NONEXISTENT_TYPE") =>
        Answerable(zone, qname) /\ qtype \notin AnswerTypes(zone, qname)

(* Spec 4.7, NSEC3 path: a name error (NONEXISTENT_NAME, or _OPTOUT) is *)
(* proven from the zone's signed NSEC3s only for a name that does not     *)
(* exist and that no wildcard answers, in every hash order: the closest  *)
(* encloser matched exactly, the next closer name covered by a span      *)
(* (CHECK_RANGE, wrapping at the end of the chain), and the wildcard     *)
(* covered.                                                                *)
Nsec3NameDenialIsSound ==
    (Done /\ IsNsec3 /\ status \in {"NONEXISTENT_NAME", "NONEXISTENT_NAME_OPTOUT"}) =>
        ~Answerable(zone, qname)

(* The zone's own closest encloser proof for a name that does not exist *)
(* is accepted: nsec3_proof_chk finds the cpe and the ncn one label     *)
(* below it in every hash order, and reports the opt-out flag of the span *)
(* that covers the next closer name.                                       *)
HonestNameErrorAccepted ==
    (Done /\ IsNsec3 /\ IsHonest /\ ~Answerable(zone, qname)) =>
        status = IF optout THEN "NONEXISTENT_NAME_OPTOUT" ELSE "NONEXISTENT_NAME"

(* Spec 4.7: NONEXISTENT_NAME is returned only when the name does not    *)
(* exist and no wildcard can answer it, whichever signed NSECs of the    *)
(* zone the response replays, in whichever order.                         *)
NameDenialIsSound ==
    (Done /\ status = "NONEXISTENT_NAME") => ~Answerable(zone, qname)

(* The zone's own no-data denial for a name it holds, in any order with  *)
(* the SOA, passes nsec_proof_chk and the wildcard-absence test: the     *)
(* result is NONEXISTENT_TYPE.                                             *)
HonestNoDataAccepted ==
    (Done /\ IsHonest /\ qname \in Owners(zone) \ Cuts /\ qtype \notin TypesAt(qname)) =>
        status = "NONEXISTENT_TYPE"

(***************************************************************************)
(* Instances.                                                              *)
(***************************************************************************)
Labels == <<"*", "a", "b", "c", "d", "z">>

Below == {<<"a", "z">>, <<"b", "z">>, <<"*", "z">>, <<"a", "a", "z">>}

AllContents == SUBSET Below

(* Zones with neither a wildcard nor an empty non-terminal.               *)
FlatContents == SUBSET {<<"a", "z">>, <<"b", "z">>}

AskedNames == {<<"a", "z">>, <<"b", "z">>, <<"a", "a", "z">>, <<"c", "z">>,
               <<"b", "a", "z">>}

AbsentName == {<<"c", "z">>}

NoCuts == {}

(* A zone holding one delegation, d.z, to a signed child.                  *)
CutName     == {<<"d", "z">>}
CutContents == {CutName}
=============================================================================
