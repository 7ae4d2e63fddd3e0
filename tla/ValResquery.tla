----------------------------- MODULE ValResquery -----------------------------
(***************************************************************************)
(* One query of libval's resolver driver followed through referrals and   *)
(* aliases: ask_resolver (val_assertion.c) sends it, val_resquery_rcv and *)
(* digest_response (val_resquery.c) take in each response, and            *)
(* process_cname_dname_responses, follow_referral_or_alias_link,          *)
(* bootstrap_referral and find_nslist_for_query decide where it is asked  *)
(* next.                                                                   *)
(*                                                                         *)
(* A name is a sequence of labels, leftmost first (<<>> is the root).  A  *)
(* response is a sequence of records [sec, owner, type, target], answer   *)
(* section first; Respond(server, name) is the set of responses a server *)
(* may send for the name (honest or not).  The zone cache holds the zone *)
(* cuts whose NS sets were stowed.  The referral block's registry of      *)
(* <name, zone cut> pairs is the loop detector (register_query; the type  *)
(* is always this query's).  A referral whose NS names come without glue *)
(* makes the query wait for a glue query (an A query for an NS name); the *)
(* glue queries are other queries of the chain, whose outcome is chosen   *)
(* here, not followed.  The DNSKEY and DS fetches a trusted referral adds  *)
(* are not followed either.                                                *)
(***************************************************************************)
EXTENDS Naturals, Sequences
LOCAL INSTANCE SequencesExt

CONSTANTS
    QName,         \* the name asked
    QType,         \* the type asked
    NSLIST,        \* a forwarder list is configured (context->nslist)
    TrustAnchors,  \* the zones is_trusted_zone reports WAIT_FOR_TRUST below
    MaxLabels,     \* the longest name temp_name[NS_MAXCDNAME] holds
    Respond(_, _), \* Respond(server, name): the responses a server may send
    Hosts          \* the names NS records may give

VARIABLES
    qname,       \* qc_name_n: the name currently asked
    zonecut,     \* qc_zonecut_n: {} (NULL) or {cut}
    state,       \* qc_state
    ns,          \* qc_ns_list: who is asked, and whether with the DO bit
    registered,  \* qc_referral->queries: the registered <name, cut> pairs
    cache,       \* the zone cuts in the zone cache
    spoofed,     \* a response not from the honest servers was taken in
    trans,       \* qc_trans_id names a request res_io has outstanding
    pending,     \* qc_referral->pending_glue_ns: NS names still without glue
    glueptr,     \* qc_referral->glueptr: {} (NULL) or {the name of the glue query}
    glueq        \* the glue queries of the chain: their state, by NS name

vars == <<qname, zonecut, state, ns, registered, cache, spoofed, trans,
          pending, glueptr, glueq>>

Root == <<>>

Errors   == {"REFERRAL_ERROR", "CONFLICTING_ANSWERS", "RECV_ERROR", "MISSING_GLUE"}

(* The state of a glue query: not in the chain, not yet done, or done:   *)
(* Q_ANSWERED with an A record among its answers, with answers but none  *)
(* an A record (a denial or an alias), with no answers, or an error.      *)
GlueStates == {"NONE", "PENDING", "A", "NOA", "NOANS", "ERROR"}
Finished == {"ANSWERED"} \cup Errors

NoList == [kind |-> "NONE", zone |-> Root, dnssec |-> FALSE]

(* An optional value: {} is NULL, {x} is x.                               *)
The(o) == CHOOSE x \in o : TRUE

(* namename(name, zone) # NULL: name is zone or below it.  namename is   *)
(* not in this tree; a NULL zone cut matches nothing.                     *)
Namename(name, zc) == zc # {} /\ IsSuffix(The(zc), name)

(* is_trusted_zone (val_policy, not in this tree): the name is at or     *)
(* below a trust anchor.                                                   *)
Trusted(n) == \E a \in TrustAnchors : IsSuffix(a, n)

(* get_nslist_from_cache / get_matching_nslist (val_cache, not in this   *)
(* tree): the closest enclosing zone cut the cache holds, if any.         *)
CachedCut(n) ==
    LET enc == {c \in cache : IsSuffix(c, n)}
    IN  IF enc = {} THEN {} ELSE {CHOOSE c \in enc : \A d \in enc : Len(d) <= Len(c)}

(* register_query (not in this tree): ITS_BEEN_DONE when the pair is     *)
(* already registered.                                                     *)
ItsBeenDone(reg, n, zc) == <<n, zc>> \in reg

(***************************************************************************)
(* digest_response keeps its working state in locals; D is that state:    *)
(* the query's fields it writes (state, qname, zonecut, registered), the *)
(* head of the qname chain, nothing_other_than_alias, proof_seen, the     *)
(* referral zone, zonecut_was_modified, the NS owners saved to            *)
(* learned_zones, and stop for a "goto done".                              *)
(***************************************************************************)
Fail(D, err) == [D EXCEPT !.state = err, !.stop = TRUE]

(* The zone cut taken from an SOA or NS owner: the first one wins, a     *)
(* different one later is SR_CONFLICTING_ANSWERS.                         *)
SetZonecut(D, n) ==
    IF ~D.modified THEN [D EXCEPT !.zonecut = {n}, !.modified = TRUE]
    ELSE IF D.zonecut # {n} THEN Fail(D, "CONFLICTING_ANSWERS")
    ELSE D

(* process_cname_dname_responses for one answer record.  A CNAME of the  *)
(* name at the head of the chain moves to its target, registered with the *)
(* current zone cut.  A DNAME at or above it rewrites it (owner replaced *)
(* by target); the owner is registered only when the name lies strictly  *)
(* below it (len1 > 0).  The query name follows the head of the chain.   *)
process_cname_dname_responses(rr, D) ==
    LET len1 == Len(D.head) - Len(rr.owner)
        D1 ==
          CASE rr.type = "CNAME" /\ QType \notin {"CNAME", "RRSIG", "ANY"}
                 /\ D.head = rr.owner ->
                 IF ItsBeenDone(D.registered, rr.target, D.zonecut)
                 THEN Fail([D EXCEPT !.head = rr.target], "REFERRAL_ERROR")
                 ELSE [D EXCEPT !.head = rr.target, !.state = "INIT",
                                !.registered = @ \cup {<<rr.target, D.zonecut>>}]
            [] rr.type = "DNAME" /\ QType # "DNAME"
                 /\ (QType \notin {"ANY", "RRSIG"} \/ D.head # rr.owner)
                 /\ IsSuffix(rr.owner, D.head) ->
                 IF len1 + Len(rr.target) > MaxLabels THEN Fail(D, "REFERRAL_ERROR")
                 ELSE IF len1 > 0 /\ ItsBeenDone(D.registered, rr.owner, D.zonecut)
                 THEN Fail([D EXCEPT !.head = rr.owner], "REFERRAL_ERROR")
                 ELSE [D EXCEPT !.head = SubSeq(D.head, 1, len1) \o rr.target,
                                !.state = "INIT",
                                !.registered = IF len1 > 0 THEN @ \cup {<<rr.owner, D.zonecut>>}
                                               ELSE @]
            [] OTHER -> D
    IN  IF D1.stop THEN D1 ELSE [D1 EXCEPT !.qname = D1.head]

(* An NS record not after a proof: in an answer-less authority section it *)
(* names the referral zone (two owners are a malformed referral); else, *)
(* below the current cut and beside an alias or a complete answer, it is *)
(* the new zone cut.                                                      *)
NsRecord(rr, D, nans) ==
    IF D.proof THEN D
    ELSE IF nans = 0 /\ rr.sec = "authority"
    THEN IF D.referral = {} THEN [D EXCEPT !.referral = {rr.owner}]
         ELSE IF D.referral # {rr.owner} THEN Fail(D, "REFERRAL_ERROR")
         ELSE D
    ELSE IF /\ Namename(rr.owner, D.zonecut)
            /\ \/ D.noalias /\ rr.sec = "authority"
               \/ nans # 0 /\ ~D.noalias /\ rr.sec # "additional"
    THEN SetZonecut(D, rr.owner)
    ELSE D

(* One pass of the record loop of digest_response.                        *)
DigestRecord(rr, D, nans) ==
    LET explicit == /\ \/ QType = "CNAME" /\ rr.type = "CNAME"
                       \/ QType = "DNAME" /\ rr.type = "DNAME"
                       \/ QType \in {"ANY", "RRSIG"}
                    /\ rr.owner = D.head
        D1 == [D EXCEPT
                 !.noalias = IF @ /\ rr.sec = "answer"
                             THEN rr.type \in {"CNAME", "DNAME"} /\ ~explicit ELSE @,
                 !.proof = @ \/ (rr.sec = "authority" /\ rr.type \in {"NSEC", "SOA"})]
        D2 == IF rr.sec = "answer" THEN process_cname_dname_responses(rr, D1) ELSE D1
        D3 == CASE D2.stop -> D2
                [] rr.type = "SOA" -> SetZonecut(D2, rr.owner)
                [] rr.type = "NS" -> NsRecord(rr, D2, nans)
                [] OTHER -> D2
    IN  IF ~D3.stop /\ rr.type = "NS" THEN [D3 EXCEPT !.learned = @ \cup {rr.owner}] ELSE D3

RECURSIVE DigestLoop(_, _, _, _)
DigestLoop(rrs, i, D, nans) ==
    IF i > Len(rrs) \/ D.stop THEN D
    ELSE DigestLoop(rrs, i + 1, DigestRecord(rrs[i], D, nans), nans)

(* The answer count of the header.                                        *)
AnswerCount(rrs) == Len(SelectSeq(rrs, LAMBDA rr : rr.sec = "answer"))

digest_response(rrs) ==
    DigestLoop(rrs, 1,
               [state |-> state, qname |-> qname, zonecut |-> zonecut, head |-> qname,
                registered |-> registered, noalias |-> AnswerCount(rrs) # 0,
                proof |-> FALSE, referral |-> {}, modified |-> FALSE,
                stop |-> FALSE, learned |-> {}],
               AnswerCount(rrs))

(* find_nslist_for_query: the zone cut of the servers found for the name *)
(* (the closest cached cut, else the forwarder list with no cut, else the *)
(* root hints with the root as cut).                                       *)
find_nslist_for_query(n) ==
    IF CachedCut(n) # {} THEN CachedCut(n)
    ELSE IF NSLIST THEN {}
    ELSE {Root}

(* The copy of qc_zonecut_n made at query_err after the alias branch: the *)
(* source, referral_zone_n, points at the block just freed.  With the     *)
(* block back from the allocator intact the copy is right; with its first *)
(* bytes overwritten by a null free-list link, the name reads as the root. *)
UafRead(zc) == IF zc = {} THEN {{}} ELSE {zc, {Root}}

(* add_to_qfq_chain for <h, A>: the query already in the chain for that  *)
(* name and type, else a new Q_INIT one.  When h is the name this query   *)
(* asks and the type asked is A, the query found is this query itself.    *)
IsSelf(h, n) == h = n /\ QType = "A"

AddGlueQuery(h, n) ==
    IF IsSelf(h, n) \/ glueq[h] # "NONE" THEN glueq
    ELSE [glueq EXCEPT ![h] = "PENDING"]

(* res_zi_unverified_ns_list: the names of the NS records of zone z in   *)
(* learned_zones, in order, split into those with an A record in the      *)
(* additional section (the server list) and those without (pending glue). *)
NSNames(rrs, z) ==
    LET nsrrs == SelectSeq(rrs, LAMBDA rr : rr.type = "NS" /\ rr.owner = z)
    IN  [i \in 1..Len(nsrrs) |-> nsrrs[i].target]

HasGlue(rrs, h) ==
    \E i \in 1..Len(rrs) : rrs[i].sec = "additional" /\ rrs[i].type = "A" /\ rrs[i].owner = h

res_zi_unverified_ns_list(rrs, z) ==
    [list    |-> SelectSeq(NSNames(rrs, z), LAMBDA h : HasGlue(rrs, h)),
     pending |-> SelectSeq(NSNames(rrs, z), LAMBDA h : ~HasGlue(rrs, h))]

(* bootstrap_referral for a referral to z (not the root) asked for name  *)
(* n: with a glued server, Q_INIT; else, when a glue query is already    *)
(* under way, SR_REFERRAL_ERROR; else a glue query for the first pending *)
(* name and Q_WAIT_FOR_GLUE.  listed: ref_ns_list is not NULL.            *)
bootstrap_referral(rrs, z, n) ==
    LET zi == res_zi_unverified_ns_list(rrs, z)
    IN  CASE zi.list # <<>> ->
               [state |-> "INIT", listed |-> TRUE, pending |-> pending,
                glueptr |-> glueptr, glueq |-> glueq]
          [] glueptr # {} ->
               [state |-> "REFERRAL_ERROR", listed |-> FALSE, pending |-> pending,
                glueptr |-> glueptr, glueq |-> glueq]
          [] zi.pending # <<>> ->
               [state |-> "WAIT_FOR_GLUE", listed |-> FALSE, pending |-> zi.pending,
                glueptr |-> {Head(zi.pending)}, glueq |-> AddGlueQuery(Head(zi.pending), n)]
          [] OTHER ->
               [state |-> "MISSING_GLUE", listed |-> FALSE, pending |-> pending,
                glueptr |-> glueptr, glueq |-> glueq]

(* follow_referral_or_alias_link, then stow_zone_info, after a referral  *)
(* (to zone z) or an answer of aliases only.  An alias chain is asked     *)
(* again with no server list (ask_resolver picks one).  A referral to the *)
(* root uses the root hints and forgets the NS sets learned; one to any   *)
(* other zone goes through bootstrap_referral (the glued servers of z, or *)
(* a wait for glue).  With monitored, <qname, z> is registered with the   *)
(* referral monitor: a second time is SR_REFERRAL_ERROR.  An error state  *)
(* frees the referral block's members (registry, pending glue, glueptr).  *)
FollowLink(D, rrs, monitored) ==
    IF D.noalias
    THEN /\ zonecut' \in UafRead(find_nslist_for_query(D.qname))
         /\ state' = "INIT"
         /\ ns' = NoList
         /\ registered' = D.registered
         /\ cache' = cache \cup D.learned
         /\ UNCHANGED <<pending, glueptr, glueq>>
    ELSE LET z    == The(D.referral)
             B    == IF z = Root
                     THEN [state |-> "INIT", listed |-> TRUE, pending |-> pending,
                           glueptr |-> glueptr, glueq |-> glueq]
                     ELSE bootstrap_referral(rrs, z, D.qname)
             done == monitored /\ ItsBeenDone(D.registered, D.qname, {z})
             err  == done \/ B.state \in Errors
         IN  /\ zonecut' = {z}
             /\ state' = IF done THEN "REFERRAL_ERROR" ELSE B.state
             /\ ns' = IF B.listed
                      THEN [kind |-> "ZONE", zone |-> z, dnssec |-> ~done /\ Trusted(z)]
                      ELSE NoList
             /\ registered' = IF err THEN {}
                              ELSE IF monitored THEN D.registered \cup {<<D.qname, {z}>>}
                              ELSE D.registered
             /\ pending' = IF err THEN <<>> ELSE B.pending
             /\ glueptr' = IF err THEN {} ELSE B.glueptr
             /\ glueq' = B.glueq
             /\ cache' = IF z = Root THEN cache ELSE cache \cup D.learned

(* Fault variant of follow_referral_or_alias_link: the referral is not   *)
(* registered with the referral monitor.                                    *)
follow_referral_or_alias_link_unregistered(D, rrs) == FollowLink(D, rrs, FALSE)

(* follow_referral_or_alias_link registers every referral it follows.    *)
follow_referral_or_alias_link(D, rrs) == FollowLink(D, rrs, TRUE)

(***************************************************************************)
(* Actions.                                                                *)
(***************************************************************************)
Init ==
    /\ qname = QName
    /\ zonecut = {}
    /\ state = "INIT"
    /\ ns = NoList
    /\ registered = {}
    /\ cache = {}
    /\ spoofed = FALSE
    /\ trans = FALSE
    /\ pending = <<>>
    /\ glueptr = {}
    /\ glueq = [h \in Hosts |-> "NONE"]

(* val_resquery_send: query_send opens a request for qc_trans_id, or     *)
(* fails (ns_name_ntop cannot print the name, or a resolver error) and    *)
(* leaves Q_ERROR_BASE + error in qc_state with no request opened.        *)
val_resquery_send == trans' \in BOOLEAN

(* Fault variant of Send: with no server list, the cache is not looked at. *)
Send_uncached ==
    LET list == IF ns.kind # "NONE" THEN ns
                ELSE IF NSLIST THEN [kind |-> "NSLIST", zone |-> Root, dnssec |-> FALSE]
                ELSE [kind |-> "ZONE", zone |-> Root, dnssec |-> FALSE]
        test == IF zonecut # {} THEN The(zonecut) ELSE qname
    IN  /\ state = "INIT"
        /\ ns' = [list EXCEPT !.dnssec = @ \/ Trusted(test)]
        /\ state' = "SENT"
        /\ val_resquery_send
        /\ UNCHANGED <<qname, zonecut, registered, cache, spoofed, pending, glueptr, glueq>>

(* ask_resolver for a Q_INIT query: with no server list, the closest      *)
(* cached cut's servers, else the forwarders, else the root; the DO bit   *)
(* when the zone cut (else the name) is under a trust anchor; then        *)
(* val_resquery_send and Q_SENT.  val_resquery_send may fail (a name     *)
(* ns_name_ntop cannot print, or a query_send error): it stores the error *)
(* in qc_state with no request outstanding, and ask_resolver overwrites   *)
(* that error with Q_SENT all the same.                                    *)
Send ==
    LET list == IF ns.kind # "NONE" THEN ns
                ELSE IF CachedCut(qname) # {}
                THEN [kind |-> "ZONE", zone |-> The(CachedCut(qname)), dnssec |-> FALSE]
                ELSE IF NSLIST THEN [kind |-> "NSLIST", zone |-> Root, dnssec |-> FALSE]
                ELSE [kind |-> "ZONE", zone |-> Root, dnssec |-> FALSE]
        test == IF zonecut # {} THEN The(zonecut) ELSE qname
    IN  /\ state = "INIT"
        /\ ns' = [list EXCEPT !.dnssec = @ \/ Trusted(test)]
        /\ state' = "SENT"
        /\ val_resquery_send
        /\ UNCHANGED <<qname, zonecut, registered, cache, spoofed, pending, glueptr, glueq>>

(* digest_response: rrs_to_go == 0, the response has no records; it      *)
(* returns through prepare_empty_nxdomain before qc_state is looked at.   *)
NoRecords(rrs) == Len(rrs) = 0

(* What val_resquery_rcv does with a response that has records.            *)
Accept(D, rrs) ==
    /\ IF D.stop
       THEN /\ state' = D.state /\ qname' = D.qname /\ zonecut' = D.zonecut
            /\ registered' = D.registered
            /\ UNCHANGED <<ns, cache, pending, glueptr, glueq>>
       ELSE IF D.referral # {} \/ D.noalias
       THEN /\ qname' = D.qname
            /\ follow_referral_or_alias_link(D, rrs)
       ELSE /\ qname' = D.qname /\ zonecut' = D.zonecut /\ UNCHANGED <<cache, glueq>>
            /\ IF Trusted(D.qname) /\ ~ns.dnssec
               THEN /\ state' = "INIT" /\ ns' = [ns EXCEPT !.dnssec = TRUE]
                    /\ registered' = D.registered
                    /\ UNCHANGED <<pending, glueptr>>
               ELSE /\ state' = "ANSWERED" /\ registered' = {} /\ UNCHANGED ns
                    /\ pending' = <<>> /\ glueptr' = {}

(* val_resquery_rcv with a response r of the servers asked: digest it;   *)
(* after a referral or aliases only, follow it; after an answer from a    *)
(* server asked without the DO bit for a trusted name, ask again with it *)
(* (the EDNS0 retry); otherwise Q_ANSWERED, which frees the referral      *)
(* block's members.  A "goto done" keeps the error state set.  A response *)
(* with no records at all leaves digest_response at prepare_empty_nxdomain *)
(* with qc_state untouched: the query stays Q_SENT and ask_resolver calls  *)
(* val_resquery_rcv on it again, on a transaction res_io may have closed.  *)
(* A response is only delivered for a request outstanding.                 *)
Receive(r) ==
    LET D == digest_response(r.rrs) IN
    /\ state = "SENT"
    /\ trans
    /\ spoofed' = (spoofed \/ ~r.honest)
    /\ IF NoRecords(r.rrs)
       THEN /\ trans' \in BOOLEAN
            /\ UNCHANGED <<qname, zonecut, state, ns, registered, cache,
                           pending, glueptr, glueq>>
       ELSE /\ trans' = FALSE
            /\ Accept(D, r.rrs)

(* Fault variant of Timeout: the resolver error is stored without          *)
(* Q_ERROR_BASE, a value that is no query state.                           *)
Timeout_unbased ==
    /\ state = "SENT"
    /\ state' = "NO_ANSWER"
    /\ UNCHANGED <<qname, zonecut, ns, registered, cache, spoofed, trans,
                   pending, glueptr, glueq>>

(* val_resquery_rcv: response_recv reports an error (no server answered  *)
(* in time, or no request is outstanding), stored as Q_ERROR_BASE + ret.   *)
Timeout ==
    /\ state = "SENT"
    /\ state' = "RECV_ERROR"
    /\ UNCHANGED <<qname, zonecut, ns, registered, cache, spoofed, trans,
                   pending, glueptr, glueq>>

Reply == (\E r \in Respond(ns, qname) : Receive(r)) \/ Timeout

(* val_resquery_rcv on a query in Q_WAIT_FOR_GLUE: ask_resolver polls    *)
(* every query below Q_ANSWERED, and the transaction this one names was   *)
(* answered by the referral.  response_recv (res_io, not in this tree)    *)
(* either reports no answer yet (no step) or an error, stored in qc_state *)
(* though the glue may still come.                                        *)
StaleReceive ==
    /\ state = "WAIT_FOR_GLUE"
    /\ state' = "RECV_ERROR"
    /\ UNCHANGED <<qname, zonecut, ns, registered, cache, spoofed, trans,
                   pending, glueptr, glueq>>

(* The glue query for NS name h, another query of the chain, ends: how   *)
(* is up to its servers, whose answers are not followed here.  Its state  *)
(* is only read by merge_glue_in_referral, while this query waits, and by *)
(* add_to_qfq_chain, which tells only whether it is in the chain; so it   *)
(* is taken to end while this query waits.                                 *)
GlueResolve(h) ==
    /\ state = "WAIT_FOR_GLUE"
    /\ glueq[h] = "PENDING"
    /\ \E g \in {"A", "NOA", "NOANS", "ERROR"} : glueq' = [glueq EXCEPT ![h] = g]
    /\ UNCHANGED <<qname, zonecut, state, ns, registered, cache, spoofed, trans,
                   pending, glueptr>>

(* The state of the query glueptr names: a glue query, or this query.   *)
GlueState == IF IsSelf(The(glueptr), qname) THEN state ELSE glueq[The(glueptr)]

(* merge_glue_in_referral, called by val_resolve_and_check, ask_resolver  *)
(* and verify_and_validate for a query in Q_WAIT_FOR_GLUE.  Glue answered *)
(* with an A record: the first pending name, with those addresses, is the *)
(* server list (the others are forgotten), the zone cut is cleared and    *)
(* the query is Q_INIT again.  Answered with no A record among answers:   *)
(* SR_REFERRAL_ERROR.  Answered with nothing, or failed: a glue query for *)
(* the next pending name, or SR_MISSING_GLUE when there is none.  A glue  *)
(* query not yet done leaves the query waiting.                           *)
merge_glue_in_referral ==
    /\ state = "WAIT_FOR_GLUE"
    /\ \/ /\ GlueState = "A"
          /\ ns' = [kind |-> "ZONE", zone |-> The(zonecut), dnssec |-> FALSE]
          /\ zonecut' = {} /\ state' = "INIT"
          /\ pending' = <<>> /\ glueptr' = {}
          /\ UNCHANGED glueq
       \/ /\ GlueState = "NOA"
          /\ state' = "REFERRAL_ERROR"
          /\ UNCHANGED <<ns, zonecut, pending, glueptr, glueq>>
       \/ /\ GlueState \in {"NOANS", "ERROR"}
          /\ pending' = Tail(pending)
          /\ IF Tail(pending) = <<>>
             THEN /\ state' = "MISSING_GLUE" /\ UNCHANGED <<glueptr, glueq>>
             ELSE /\ glueptr' = {Head(Tail(pending))}
                  /\ glueq' = AddGlueQuery(Head(Tail(pending)), qname)
                  /\ UNCHANGED state
          /\ UNCHANGED <<ns, zonecut>>
    /\ UNCHANGED <<qname, registered, cache, spoofed, trans>>

Glue == merge_glue_in_referral \/ StaleReceive \/ \E h \in Hosts : GlueResolve(h)

(* The call has returned; nothing changes.                                 *)
Done ==
    /\ state \in Finished
    /\ UNCHANGED vars

Next == Send \/ Reply \/ Glue \/ Done

(* ask_resolver loops while the query is Q_INIT or Q_SENT; res_io either  *)
(* delivers a response or reports an error, also on a transaction it has *)
(* closed (StaleReceive).  val_resolve_and_check merges glue on every     *)
(* pass while its query waits, and a glue query, like any query, ends.    *)
Fairness == /\ WF_vars(Send) /\ WF_vars(Reply) /\ WF_vars(StaleReceive)
            /\ WF_vars(merge_glue_in_referral) /\ \A h \in Hosts : WF_vars(GlueResolve(h))

Spec == Init /\ [][Next]_vars /\ Fairness

(***************************************************************************)
(* Properties.                                                             *)
(***************************************************************************)
Names == Seq(STRING)

TypeOK ==
    /\ state \in {"INIT", "SENT", "WAIT_FOR_GLUE"} \cup Finished
    /\ zonecut \in SUBSET Names /\ registered \in SUBSET (Names \X SUBSET Names)
    /\ qname \in Names
    /\ ns.kind \in {"NONE", "NSLIST", "ZONE"} /\ ns.dnssec \in BOOLEAN
    /\ spoofed \in BOOLEAN /\ trans \in BOOLEAN
    /\ pending \in Seq(Hosts) /\ glueptr \in SUBSET Hosts /\ glueq \in [Hosts -> GlueStates]

(* Spec 8.5: resolution of a query ends (answered or failed), whatever   *)
(* the servers send; the registry of <name, zone cut> pairs in            *)
(* follow_referral_or_alias_link and process_cname_dname_responses is     *)
(* what rules out an endless chain of referrals and aliases.              *)
ResolutionEnds == <>(state \in Finished)

(* Spec 4.2: a query waiting for glue waits on a glue query for the first *)
(* NS name still pending, a query of the chain that is not the waiting   *)
(* query itself: bootstrap_referral and merge_glue_in_referral keep       *)
(* glueptr, pending_glue_ns and the chain in step through every failed    *)
(* glue fetch, or the query would wait on nothing that can end.           *)
GlueWaitHasFetch ==
    state = "WAIT_FOR_GLUE" =>
        /\ pending # <<>>
        /\ glueptr = {Head(pending)}
        /\ ~IsSelf(Head(pending), qname)
        /\ glueq[Head(pending)] # "NONE"
====
