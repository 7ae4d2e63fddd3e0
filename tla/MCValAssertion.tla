--------------------------- MODULE MCValAssertion ---------------------------
(***************************************************************************)
(* A three-zone tree for ValAssertion: root -> tld -> leaf, and the data *)
(* name www in leaf.  Each .cfg picks the trees (which zones are signed, *)
(* which are islands) and what the network may do.                        *)
(***************************************************************************)
EXTENDS ValAssertion

MCNames   == {"root", "tld", "leaf", "www"}
MCZones   == {"root", "tld", "leaf"}
MCParent  == [n \in {"tld", "leaf", "www"} |->
                 CASE n = "tld" -> "root" [] n = "leaf" -> "tld" [] n = "www" -> "leaf"]
MCZoneKey == [z \in MCZones |-> CASE z = "root" -> "Kroot" [] z = "tld" -> "Ktld"
                                  [] z = "leaf" -> "Kleaf"]

(* Every zone signed; or, as well, an unsigned leaf below a secure tld   *)
(* that denies its DS (spec 8.6c), whose answers are provably insecure.   *)
AllSigned    == {MCZones}
DataTrees    == {MCZones, {"root", "tld"}}
NoIslands    == {}
(* A signed leaf whose DS tld denies: the reproduction of the island     *)
(* disagreement the README describes.                                      *)
LeafIsland   == {"leaf"}

NoAttack       == {}
DataAttacks    == {"drop", "strip", "forge_unsigned"}
UnsignedForgery == {"forge_unsigned"}
KeyForgery     == {"forge"}

SignersLeaf == {"leaf"}
SignersAll  == MCNames

(* Answers an earlier call may have stowed: the top query, and the keys *)
(* and the delegation of its zone, so a whole chain can come from the    *)
(* cache, one recursion of ask_cache per link.                            *)
NoCache   == {}
WarmCache == {<<"www", "A">>, <<"leaf", "DNSKEY">>, <<"leaf", "DS">>}

DataTypes   == {"A"}
AllTypes    == {"A", "DNSKEY", "DS"}
=============================================================================
