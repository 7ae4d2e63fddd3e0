---------------------------- MODULE MCNsecBitmap ----------------------------
(***************************************************************************)
(* Checks is_type_set (NsecBitmap) against the RFC 4034 encoding: every   *)
(* set of types is encoded, and every query type is looked up in it, with *)
(* each value of the byte that follows the rdata.  One step: the call.    *)
(***************************************************************************)
EXTENDS NsecBitmap, FiniteSets

CONSTANTS
    RRTypes,    \* the type codes sets are drawn from
    QTypes,     \* the type codes looked up
    Junk        \* the values the byte after the rdata can hold

VARIABLES types, query, junk, done, result
vars == <<types, query, junk, done, result>>

Init ==
    /\ types \in SUBSET RRTypes \ {{}}
    /\ query \in QTypes
    /\ junk \in Junk
    /\ done = FALSE
    /\ result = FALSE

Lookup ==
    /\ ~done
    /\ done' = TRUE
    /\ result' = is_type_set(TypeBitmap(types), query, junk)
    /\ UNCHANGED <<types, query, junk>>

Next == Lookup

Spec == Init /\ [][Next]_vars

(* RFC 4034 4.1.2 (spec 4.7): is_type_set answers exactly whether the    *)
(* bitmap lists the type.                                                 *)
IsTypeSetDecodes ==
    done => result = (query \in types)

(* Type codes: A 1, NS 2, SOA 6, MX 15, RRSIG 46, NSEC 47, DNSKEY 48,     *)
(* CAA 257.                                                                *)
MixedTypes   == {1, 15, 46, 257}
ZeroByte     == {0}
QueryMX      == {15}
=============================================================================
