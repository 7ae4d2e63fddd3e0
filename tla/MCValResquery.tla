---------------------------- MODULE MCValResquery ----------------------------
(***************************************************************************)
(* A resolution of c.z in the tree root -> z, where z holds c.z CNAME a.z *)
(* and an address at a.z; y is a name outside z.  The honest servers of a    *)
(* zone refer a name below a child cut to that child and answer the rest  *)
(* from their data (an alias by its CNAME alone); the forwarders answer  *)
(* the whole chain.  Any response may instead be spoofed: a CNAME, a      *)
(* DNAME, a referral (with glue for its server n.z, or naming servers y *)
(* and y.y without glue) or an SOA, for any server and name.              *)
(***************************************************************************)
EXTENDS ValResquery
LOCAL INSTANCE SequencesExt

CONSTANTS
    SelfDname,  \* a spoofed DNAME may be owned by the name asked
    SelfGlue    \* a spoofed glueless referral may name the name asked as server itself

Z == <<"z">>
Y == <<"y">>
YY == <<"y", "y">>
C == <<"c", "z">>
A == <<"a", "z">>
NZ == <<"n", "z">>

Zones     == {Root, Z}
TrustedZ  == {Z}
CnameData == [n \in {C} |-> A]
AddrData  == {A}

RR(sec, owner, type, target) == [sec |-> sec, owner |-> owner, type |-> type, target |-> target]

(* A referral to z: its NS record names the server n.z, whose address is *)
(* in the additional section.                                               *)
Referral(z) == <<RR("authority", z, "NS", NZ), RR("additional", NZ, "A", Root)>>

(* The names a glueless referral may give: y and y.y, and with SelfGlue   *)
(* the names the query may ask (c.z and, after the alias, a.z).           *)
GluelessHosts == {Y, YY} \cup (IF SelfGlue THEN {C, A} ELSE {})

(* The zone cut directly below s that encloses n, if any.                 *)
ChildCut(s, n) ==
    {c \in Zones : IsStrictSuffix(s, c) /\ IsSuffix(c, n)
                   /\ ~\E d \in Zones : IsStrictSuffix(s, d) /\ IsStrictSuffix(d, c)}

(* What an honest authoritative server of zone s answers for n.            *)
Authoritative(s, n) ==
    CASE ChildCut(s, n) # {} -> Referral(The(ChildCut(s, n)))
      [] n \in DOMAIN CnameData -> <<RR("answer", n, "CNAME", CnameData[n])>>
      [] n \in AddrData -> <<RR("answer", n, "A", Root)>>
      [] OTHER -> <<RR("authority", s, "SOA", Root)>>

(* A forwarder's answer: the alias chain and the address.                  *)
Recursive(n) ==
    IF n \in DOMAIN CnameData
    THEN <<RR("answer", n, "CNAME", CnameData[n]), RR("answer", CnameData[n], "A", Root)>>
    ELSE IF n \in AddrData THEN <<RR("answer", n, "A", Root)>>
    ELSE <<RR("authority", Z, "SOA", Root)>>

Honest(server, n) ==
    IF server.kind = "NSLIST" THEN Recursive(n) ELSE Authoritative(server.zone, n)

(* The owners a spoofed DNAME for n may have: the zone z above n, and    *)
(* with SelfDname n itself.  Its target is y or y.y.                       *)
DnameOwners(n) ==
    {o \in {Z} : IsStrictSuffix(o, n)} \cup (IF SelfDname THEN {n} ELSE {})

(* Spoofed responses for n: an alias, a DNAME, a referral, a denial, an   *)
(* alias with zone cut information, two SOAs of different cuts, a         *)
(* referral to two zones, and a response with no records at all.          *)
Attack(n) ==
    {<<RR("answer", n, "CNAME", x)>> : x \in {A, C}}
    \cup {<<RR("answer", o, "DNAME", x)>> : o \in DnameOwners(n), x \in {Y, YY}}
    \cup {Referral(z) : z \in Zones}
    \cup {<<RR("authority", Z, "SOA", Root)>>}
    \cup {<<RR("answer", n, "CNAME", A), RR("authority", Z, "NS", NZ)>>,
          <<RR("authority", Z, "SOA", Root), RR("authority", Root, "SOA", Root)>>,
          <<RR("authority", Root, "NS", NZ), RR("authority", Z, "NS", NZ)>>,
          <<>>}

(* Referrals to z without glue, from the root's servers: naming y and   *)
(* y.y, or (SelfGlue) the name asked.                                     *)
Glueless(server, n) ==
    IF server.kind = "ZONE" /\ server.zone = Root
    THEN {<<RR("authority", Z, "NS", Y), RR("authority", Z, "NS", YY)>>}
         \cup {<<RR("authority", Z, "NS", h)>> : h \in GluelessHosts \cap {n}}
    ELSE {}

MCRespond(server, n) ==
    {[rrs |-> Honest(server, n), honest |-> TRUE]}
    \cup {[rrs |-> s, honest |-> FALSE] : s \in Attack(n) \cup Glueless(server, n)}

(* With only honest responses taken in, digest_response and the referral *)
(* follower never reject the resolution: the loop registry does not fire *)
(* on the honest path (the cached cut of z lets the CNAME target be asked *)
(* of z without registering the referral to z again), and no two zone   *)
(* cuts conflict.                                                         *)
HonestNeverRejected ==
    ~spoofed => state \notin {"REFERRAL_ERROR", "CONFLICTING_ANSWERS"}
====
