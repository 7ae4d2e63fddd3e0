# TLA+ models of the libval validator (DNSSEC-Tools)

These modules model the validating resolver in
`validator/libval`. This covers one call of `val_resolve_and_check`: how it
builds its query and authentication chains from the answers that arrive, walks
every chain of trust up to a trust anchor, and classifies the answer. The
signature check `verify_next_assertion` is modelled as its own component.
So is the NSEC proof of nonexistence (`prove_nonexistence`), with its type
bitmap test (`is_type_set`), and the way one query is followed through
referrals and aliases (`digest_response` and its helpers in
`val_resquery.c`).

## The system and how its parts interact

| Part | Source | Module |
|---|---|---|
| resolver driver: `val_resolve_and_check`, `ask_cache`, `ask_resolver` | `val_assertion.c` 2282-2930 | `ValAssertion` (actions) |
| record cache: `get_cached_rrset`, `stow_answer` (only `val_cache.h` is in the tree) | spec 4.1 | `ValAssertion` (`cache`, `stow_answer`, `WarmCaches`) |
| authentication-chain builder: `add_to_query_chain`, `assimilate_answers`, `set_ans_kind`, `fails_to_answer_query`, `build_pending_query`, `is_trusted_key`, `try_verify_assertion` | `val_assertion.c` 153-966, 1852-1983 | `ValAssertion` (operators) |
| trust walk: `verify_and_validate`, `fix_validation_results` | `val_assertion.c` 1993-2279, 2656-2750 | `ValAssertion` (`Walk`, `Classify`, `ValidateFrom`, `fix_validation_results`) |
| provably-insecure prover | `val_assertion.c` 1695-1843 | `ValAssertion` (`verify_provably_unsecure`, by contract) |
| signature verifier: `verify_next_assertion`, `SET_STATUS`, `do_verify`, `val_sigverify`, `make_sigfield` | `val_verify.c` 35-208, 353-866 | `ValVerify` |
| answer receipt and timeout | `val_resquery.c` 1519-1547 | `ValAssertion` (`Timeout`) |
| query lifecycle (abstract) | spec 4.2 | `QueryLifecycle` |
| NSEC type bitmap: `is_type_set` | `val_assertion.c` 37-74 | `NsecBitmap` |
| response digester and referral follower: `digest_response`, `process_cname_dname_responses`, `follow_referral_or_alias_link`, `find_nslist_for_query` | `val_resquery.c` 418-1473, `val_assertion.c` 2406-2496 | `ValResquery` |
| glue fetching: `res_zi_unverified_ns_list`, `bootstrap_referral`, `merge_glue_in_referral` | `val_resquery.c` 111-417, 497-575, `val_assertion.c` 2489-2558 | `ValResquery` |
| NSEC proof: `nsec_proof_chk`, `prove_nsec_wildcard_check`, `prove_nonexistence`, the negative branch of `fix_validation_results` | `val_assertion.c` 967-1140, 1552-1690, 2700-2750 | `ValNsec` |

The driver loops as follows:

1. `ask_cache` looks for a cached answer to each query in state `Q_INIT`.
   On the first hit it marks the query answered, assimilates the cached
   RRsets as the response, and stops the scan. If that added queries to the
   front of the chain, it scans those again, recursively. Any hit clears
   `block`.
2. It sends every query still in state `Q_INIT`.
3. It blocks for one answer and assimilates it. Assimilating turns the answer
   into one assertion per RRset, each with a kind. It also gives the assertion
   a pending query: its RRSIGs, or its signer's DNSKEY or DS. That query is
   added to the front of the query chain. The answer is then stowed in the
   cache, before it is validated.
4. If new queries were added, it loops at once without blocking.
5. Otherwise it runs `verify_and_validate`. This walks the trust link of every
   answer of the top query. Any assertion on the walk that is still pending is
   brought up to date by `try_verify_assertion`, which takes the pending answer
   as its trust and calls `verify_next_assertion`. The walk then classifies the
   assertion's status into the result, and goes up the trust link.
6. When every chain is done, it runs `fix_validation_results` and returns.

## Modules

- **`ValVerify`** holds the pure operators of `val_verify.c`. Cryptography is
  abstract:
  - A DNSKEY is a record of its key tag, key material, zone-key flag,
    protocol and algorithm. `Key(t)` is a well-formed RSA-SHA1 zone key.
  - An RRSIG records its signer name and that name's wire length, the key
    that made it, its algorithm field, the type it covers, its inception and
    expiration, its label count (exact, wildcard, or more labels than the
    owner), and whether it was made over the genuine data.
  - The primitive (`rsasha1_sigverify` and the others, not in the tree)
    succeeds iff the key tried is the one that made the signature, and the
    buffer is the signed one: this type and this data.
  - A DS record is the key it digests.

  The operators:
  - `val_sigverify` returns its two statuses in the order of its early
    returns: the zone-key flag, the protocol, the algorithm match, then
    inception and expiration beyond `SIG_ACCEPT_WINDOW`. Then comes the
    algorithm switch, with the NSEC3 aliases only under `LIBVAL_NSEC3`.
  - `do_verify` refuses a wildcard expansion of a DNSKEY or DS set.
  - `SigFieldMatches` is `make_sigfield` with `predict_sigbuflength`. The
    buffer is the signed one only if the checked RRSIG's signer name has
    the wire length of the set's first RRSIG's signer name.
  - `KeyLoop` is the loop over the keys. It skips other tags, tries every
    key of the tag, and stops at the first that verifies.
  - `DSLink` is the DS trust path.
  - `verify_next_assertion` is `RECURSIVE` over the RRSIGs in wire order. It
    folds every outcome through `SET_STATUS`.

  `check_label_count` is not in the tree and is modelled from the spec.
  `ValAssertion` uses only well-formed, current RSA-SHA1 signatures and keys
  (`SigRec`, `Keys`). It composes this module as is.
- **`MCValVerify`** has a single step, the call. It checks the call on every
  input of the following shape:
  - an A or DNSKEY set with no RRSIG, or one RRSIG of any shape, drawn from:
    - 7 keys that make it, sharing one tag but differing in flag, protocol
      and algorithm;
    - an algorithm field equal to the key's or not;
    - the right type or another;
    - 5 validity periods around `Now = 10` with a window of 2, at and
      beyond each edge;
    - 3 label counts;
  - or two plain RRSIGs, by 3 key tags, genuine or forged, exact or
    wildcard, in either order;
  - DNSKEY sets holding up to two keys, a tag collision among them;
  - every trust `try_verify_assertion` can pass: a DNSKEY or DS set, an SOA or
    a bare RRSIG.

  That is 167808 initial states.
- **`ValAssertion`** covers one `val_resolve_and_check(QName, A)`. It starts
  from a cache that an earlier call may have filled for the keys in
  `Cached`. Each entry is either empty or the part of an answer that the
  earlier call could have received for that key: genuine, stripped or forged.
  The earlier call stowed it before validating it.

  Its variables:
  - `qstate` is each query's `qc_state`, or ABSENT;
  - `qas` is the assertions of each query's answer (`qc_as` and
    `rrset_next`);
  - `head` is the front of `q_list`, and `lastHead` is `last_q`;
  - `block` and `dataReceived`;
  - `results` is the result chain, keyed by the top assertion;
  - `phase` is the loop position, or the end: returned, crashed or hung;
  - `cache` maps each query key to the RRsets `get_cached_rrset` returns for it;
  - `scan` is the set of queries the current recursive call of `ask_cache`
    looks at (phase `cache`);
  - `lost` and `tampered` are ghost state that records what the network did.
    A cached entry other than the genuine data counts as tampered.

  Its actions:
  - `CacheHit(q)`: one hit of `ask_cache`. At the loop top the hit may be
    any `Q_INIT` query with cached data. After a hit, only the queries whose
    pending link the hit's assertions set are scanned: `add_to_query_chain`
    put exactly those in front of the old front (`end_q`). The model does not
    keep the chain's order, so within a scan the first hit may be any of them;
  - `SendQueries`: the end of `ask_cache` (no hit left in the scan),
    `if (data_received) block = 0` (`ResolverBlock`), and the send half of
    `ask_resolver`;
  - `ReceiveAnswer(q, resp)`: the poll half, with `assimilate_answers` and
    `stow_answer`;
  - `Timeout(q)`: `val_resquery_rcv`'s error state;
  - `NewQueries`: `last_q != q_list`;
  - `TopError`: the top query failed;
  - `Validate`: `verify_and_validate`, then `fix_validation_results` when
    done;
  - `Returned`: stuttering after the call has returned.

  Each handler is one action. Every call it makes that changes state is an
  operator applied inside the action, on a record snapshot of the state.

  The DNS is a tree root → tld → leaf, with the data name `www`:
  - each signed zone has one key `ZoneKey[z]`, and the root key is the only
    trust anchor;
  - `Responses(q)` is the genuine zone data, plus whatever `Attacks` allows:
    - `strip`: the RRSIGs removed;
    - `forge_unsigned`: a forged set with no RRSIG;
    - `forge`: signed with the attacker key `KX` under a signer name from
      `ForgeSigners`;
    - `anchor`: a forged DNSKEY set containing the root key, with a root
      signer name (no run uses it: see `forge`);
  - `drop` enables `Timeout`, and also nondeterministic loss of the prover's
    nested lookups (`lost`).
- **`MCValAssertion`** defines the tree, the attack sets and the signing
  variants used by the `MCValAssertion_*.cfg` files. Which zones are signed
  is a constant of the tree. It is kept in the variable `Signed`, which
  `Init` fixes to one of `SignedChoices` and no step changes. This way one
  run covers several trees.
- **`QueryLifecycle`** is the abstract specification of the query chain
  (spec 4.2). Each query is created once and sent, or answered from the
  cache without being sent; a sent query may be
  set back to `INIT` to be asked again (a referral or an alias followed,
  `val_resquery.c`); it ends answered or failed and never leaves that. Any number of queries may move in one
  step. The call returns only when the top query is finished, and nothing
  changes after the return. `ValAssertion` instantiates it as `Lifecycle`,
  with `qs <- qstate` and `returned <- (phase = "returned")`.
  `QueryLifecycleRefined == Lifecycle!Spec` is a `PROPERTY` of the `data`
  run.
- **`ValResquery`** follows one query through referrals and aliases.
  - Its variables are the query's fields:
    - `qname`, `zonecut` (`{}` is NULL), `state` and `ns` (who is asked,
      and whether with the DO bit);
    - `registered`, the referral block's registry of <name, zone cut> pairs;
    - `cache`, the zone cuts whose NS sets were stowed;
    - `spoofed`, ghost state that records a response not from the honest
      servers;
    - `trans`, whether `qc_trans_id` names a request that `res_io` has
      outstanding;
    - `pending` and `glueptr`, the referral block's pending glue list (NS
      names still without an address) and its pointer to the glue query;
    - `glueq`, the state of each glue query in the chain, by NS name.
  - `Send` is `ask_resolver` for a `Q_INIT` query. With no server list it
    picks the closest cached cut, else the forwarders, else the root. It
    sets the DO bit when the zone cut (else the name) is trusted, calls
    `val_resquery_send`, and moves the query to `Q_SENT`.
    `val_resquery_send` either opens a request or fails. When it fails,
    the error it stores is overwritten by `Q_SENT`.
  - `Receive(r)` is `val_resquery_rcv` on an open request. A response with
    no records (`NoRecords`) returns from `digest_response` early and
    leaves the query `Q_SENT`. Any other response goes to `Accept`, which
    is the rest of `digest_response`:
    - `DigestLoop` and `DigestRecord` are the record loop, with
      `process_cname_dname_responses`, the SOA/NS zone cut
      (`SetZonecut`, `SR_CONFLICTING_ANSWERS`) and `NsRecord`;
    - after the loop, `follow_referral_or_alias_link` (`FollowLink`) with
      `bootstrap_referral` and `stow_zone_info`, or the EDNS0 retry, or
      `Q_ANSWERED`.
  - `bootstrap_referral` takes the NS names of the referral zone from the
    response (`res_zi_unverified_ns_list`). Those with an A record in the
    additional section are the new server list. With none, the query adds
    a glue query (an A query for the first pending name) and goes to
    `Q_WAIT_FOR_GLUE`. `add_to_qfq_chain` returns the query already in the
    chain for that name and type, which is the waiting query itself when
    it asks for that name's A record (`IsSelf`). `add_to_qfq_chain` is not in
    the tree, so `IsSelf` and `AddGlueQuery` are modelled from the spec.
  - `merge_glue_in_referral` reads the glue query's state (`GlueState`).
    If the glue query found an A record, the first pending name becomes
    the server list, the zone cut is cleared and the query is `Q_INIT`.
    If its answers hold no A record, the query ends in
    `SR_REFERRAL_ERROR`. If it has no answers or failed, the next pending
    name gets a glue query, or the query ends in `SR_MISSING_GLUE` when no
    name is left.
  - `GlueResolve(h)` ends the glue query for `h` in any of those ways. It
    is another query of the chain, and its servers are not followed. Only
    a waiting query reads its state, so it ends while the query waits.
  - `StaleReceive` is `ask_resolver` polling a query in `Q_WAIT_FOR_GLUE`
    on the transaction the referral already answered. `response_recv`
    may report an error, which then overwrites the wait.
  - `Timeout` is `response_recv`'s error.
  - `namename`, `register_query`, `is_trusted_zone` and the cache lookup
    are not in the tree, so they are modelled from the spec.
  - In the alias branch, `referral_zone_n` points at `qc_zonecut_n`, which
    `query_err` frees and then copies from. `UafRead` takes the two
    outcomes glibc can give: the copy is intact, or its first byte is
    zeroed by a null free-list link and it reads as the root.
- **`MCValResquery`** resolves `c.z` in the tree root → z:
  - z holds `c.z CNAME a.z` and an address at `a.z`;
  - honest servers refer a name to the child cut below them, and
    otherwise answer from their data, giving an alias by its CNAME alone;
  - every response may instead be spoofed: a CNAME to `a.z` or `c.z`, a
    DNAME from z to `y` or `y.y`, a referral to root or z, an SOA, an alias
    with NS zone-cut information, two SOAs of different cuts, or a
    referral naming two zones, or a response with no records;
  - a referral carries its server `n.z` with glue. The root's servers may
    also be spoofed to refer to z without glue, naming `y` and `y.y`;
  - `SelfDname` also allows a DNAME owned by the name asked, and
    `SelfGlue` allows a glueless referral naming the name asked as its
    server.
- **`NsecBitmap`** translates `is_type_set` byte for byte:
  - a field is a sequence of naturals below 256;
  - `TypeLoop` is the `while` loop;
  - a read at or past `field_len` returns the parameter `junk`, because
    the C code reads whatever follows the rdata.

  `TypeBitmap(T)` is the reference: the RFC 4034 encoding of a set of
  types, windows ascending.
- **`MCNsecBitmap`** has one step. It encodes a set of types, then asks
  `is_type_set` about one type, for every set drawn from `{1, 15, 46, 257}`.
- **`ValNsec`** holds the NSEC proof as pure operators. The pieces:
  - A name is a sequence of labels, leftmost first.
  - `namecmp` is the canonical order (RFC 4034 6.1). It is not in the tree,
    so it is `spec_modelled`, as is `check_label_count`, which becomes
    `WildcardExpanded`.
  - `Checks` is the state `nsec_proof_chk` updates through its pointer
    arguments. A NULL pointer is `{}`.
  - `Encounter` is the closest-encounter loop.
  - `NsecLoop` is the loop of `prove_nonexistence` over the results, and
    `NsecVerdict` is what follows the loop.
  - `fix_negative_results` is the negative branch of
    `fix_validation_results`. A result that is neither SUCCESS nor
    PROVABLY_UNSECURE, or a DS question answered by the child's SOA,
    makes every result BOGUS_PROOF. Otherwise `prove_nonexistence` decides.
  - The build flag `LIBVAL_NSEC3` is a constant. `nsec = 1` is assigned
    only under it.
  - `nsec3_proof_chk` is the NSEC3 proof. The parameter `H` maps a name to
    its hash, which is a number: SHA-1 and base32hex are out of reach, so a
    hash is only a position on a ring. `CHECK_RANGE` is the macro that
    tests whether a hash falls between an NSEC3's owner and next hash,
    wrap-around included. `compute_nsec3_hash` returns NULL (`{}`) for an
    unknown algorithm, and for an iteration count above the
    `nsec3-max-iter` policy (`NSEC3_MAX_ITER`, matched by the longest zone
    suffix). The closest-provable-encloser walk is `Nsec3Walk` over
    `Nsec3Results` and `Nsec3Candidate`. Its state is the `Search` record.
    The wildcard test after it is `Nsec3Wildcard`.
  - `NsecLoop` marks that an NSEC3 came first, and `NsecVerdict` then hands
    the proof to `nsec3_proof_chk`. A response that mixes NSEC and NSEC3 is
    BOGUS_PROOF when the NSEC3 comes first.
- **`MCValNsec`** builds a zone `z` from a set of owner names below the
  apex. Its NSEC chain is derived from those names, and every NSEC is
  signed. A response is any sequence of up to `MaxRRsets` distinct RRsets,
  drawn from:
  - the zone's SOA;
  - its NSECs, so any signed NSEC can be replayed, in any order;
  - a forged NSEC at qname, which the walk leaves BOGUS_UNPROVABLE.

  In the NSEC3 half of `Init`, the zone is instead signed with NSEC3. Its
  hash order is one of the orders `HashMults` gives
  (`H[n] = (rank(n) * m) % 17`, where rank is the canonical order). Opt-out
  is on or off. A response is the SOA plus up to `MaxRRsets - 1` NSEC3s,
  or a mix of an NSEC and an NSEC3 in both orders.

  The one step is `fix_validation_results` on that response. The reference
  is RFC 4035 3.1.3:
  - which names exist, including empty non-terminals;
  - the closest encloser and its wildcard;
  - the types the zone answers for a name, which at a zone cut (`Cuts`)
    are the child's.

## Assumptions forced by the tree

- **Status bands.** `val_errors.h` is not in the tree. `PendingStatus`,
  `ErrorStatus`, `BadStatus` and `FailureStatus` follow the order in which the
  walk compares codes with `VAL_A_INIT`, `VAL_A_LAST_ERROR`, `VAL_A_LAST_BAD`
  and `VAL_A_LAST_FAILURE`.
- **`VAL_SUCCESS`** is a trusted `VERIFIED_CHAIN`. Under this encoding the
  spec's example chain is a success. These parts are marked `spec_modelled`.
- **Two revisions of the API.** `val_assertion.c` calls
  `verify_next_assertion` with two arguments and `VAL_A_*` names.
  `val_verify.c` defines it with three arguments and `VAL_AC_*` names. The
  model composes them: the trust is `as->val_ac_trust`'s RRset, which is what
  the newer revision reads from its extra argument.
- **The prover is modelled by its contract.** `find_next_zonecut` is not in
  the tree, and the prover's nested `val_resolve_and_check` is a second call.
  The contract: it succeeds iff the assertion's zone cut is not the root, has
  no DS, and its parent's chain is secure (`SecureZone`), and the nested
  lookup is not lost. The guard the code tests before calling
  (`asked_the_parent`) is modelled exactly.
- **The cache is modelled by its contract.** `val_cache.c` is not in the
  tree, and `val_cache.h` declares `get_cached_rrset` and `stow_answers` with
  signatures other than the ones `val_assertion.c` calls. The model follows
  spec 4.1: an entry is keyed by name and type, and a stow overwrites it. A
  lookup returns the RRsets of that name and type, so a negative answer (SOA,
  NSEC) is never a hit for a query of another type. Within one call, no query
  key is asked twice, so what the call itself stows is never read back. The
  hits come from the cache an earlier call left behind.
- **Glue.** `ValAssertion` has no glue fetching (that is modelled in
  `ValResquery`), so the `Q_WAIT_FOR_GLUE` branches are absent. A blocking wait
  ends with an answer or a timeout, and a cache hit sets `data_received`. So
  the "top query still pending" branch (`TopPending`) is unreachable: it is
  kept as the guard of the two branches after it.

## Runs

| Run | Checks | Result |
|---|---|---|
| `verify` | `VerifiedOnlyIfSomeSigChecks` | pass, 672000 states |
| `data` | `TypeOK`, `TrustedAnswerIsGenuine`, `NoNullPendingDereference`, `HonestOutcome`, `ResolveReturns`, `QueryLifecycleRefined` | pass, 10112 states |
| `nsec` | `TypeDenialIsSound`, `HonestNoDataAccepted`, `Nsec3NameDenialIsSound`, `HonestNameErrorAccepted` | pass, 92440 states |
| `crash` | `NoNullPendingDereference` | violated |
| `forge` | `TrustedAnswerIsGenuine` | violated |
| `hang` | `TrustWalkTerminates` | violated |
| `bitmap` | `IsTypeSetDecodes` | violated |
| `nsec_next` | `NameDenialIsSound` | violated |
| `nsec_wildcard` | `NameDenialIsSound` | violated |
| `nsec_delegation` | `TypeDenialIsSound` | violated |
| `resquery` | `TypeOK`, `HonestNeverRejected`, `ResolutionEnds` | pass, 509251 states |
| `resquery_dname` | `ResolutionEnds` | violated |

The `verify` run checks each signature against the spec's rules (4.6,
step 1). The rules are stated independently of the code's loops: label
count, no wildcard DNSKEY or DS, and a key of the right tag and algorithm
that is a protocol-3 zone key. The algorithm must be supported, now must
lie in the validity period widened by the window, and the key must have
made the signature over this data. Whatever comes before or after a good
signature or key, and whatever the wire lengths of the signer names
(`SignerLens = {1, 2}`), the call reports VERIFIED or WCARD_VERIFIED only
when some signature passes these rules. It reports WCARD_VERIFIED only
when a wildcard expansion passes. The converse does not hold (see the
signer length below), so it is not checked by a passing run.

The `nsec` run covers:
- 16 zones (every subset of `a.z`, `b.z`, `*.z`, `a.a.z`);
- 5 names asked, of which `c.z` and `b.a.z` never exist, and `a.z` may be
  an empty non-terminal;
- types A and MX;
- every response of up to 3 RRsets.

- the same zones signed with NSEC3, under three hash orders, with and
  without opt-out.

It shows four things. First, whatever the response replays or forges,
NONEXISTENT_TYPE is returned only for a type the zone really lacks. Second,
the zone's own no-data denial is always accepted. Third, an NSEC3 name
error (with or without opt-out) is returned only for a name the zone does
not answer for. Fourth, the zone's own closest-encloser proof of a name
error is accepted, with OPTOUT exactly when the covering NSEC3 has the
flag.

The `resquery` run shows two things. First, resolution always ends,
whatever the spoofed responses are. CNAME loops, referral loops and
rewrites past `MaxLabels` are all caught by the registry or by the
name-length check. Second, the honest resolution is never rejected as a
loop or as conflicting. This holds only because the alias is re-asked of
the cached cut z: from the root, the referral to z would be registered a
second time. Both hold under both readings of the freed zone cut. They
also hold when a send fails, and when a response with no records
arrives: the query stays `Q_SENT` and waits for the next `response_recv`.
They hold, third, with glueless referrals: whichever way the glue queries
end, the query goes on with the glued server, to the next pending name,
or to `SR_MISSING_GLUE` or `SR_REFERRAL_ERROR`, and after a glue merge has
cleared the zone cut the registry still stops every loop.

The `data` run starts from two trees, chosen in `Init`: every zone signed,
or `leaf` unsigned below a `tld` that denies its DS (spec 8.6c). With the
data delivered intact, the first gives SUCCESS and the second a trusted
PROVABLY_UNSECURE (`HonestOutcome`).

What the violations show (details in `PROJECT.json` "findings"):

- **`crash`.** `try_verify_assertion` takes as trust a DNSKEY answer that is
  itself still waiting for its RRSIG. A forged unsigned DNSKEY then leaves an
  assertion `UNSET` with a NULL pending query. The walk dereferences it at
  line 2062, which is marked `xxx-audit` in the code.
- **`forge`.** The signer name is unchecked (line 747), and
  `SET_STATUS(BAD_DELEGATION)` cannot undo `VERIFIED`, so a self-signed
  DNSKEY set needs no DS link (`val_verify.c` 864). Together, these let a
  forged A RRset be returned as `VAL_SUCCESS`.
- **`hang`.** Only two-link trust cycles are detected (line 2089). Forged
  signer names build a longer cycle, and the walk never ends.
  The same unchecked name reaches `is_trusted_key` (line 755): a forged
  DNSKEY set that carries the root key and names the root as signer would
  become `TRUST_KEY`. That attack is still in `ValAssertion` (`anchor`),
  but no run checks it.
- **`bitmap`.** `is_type_set` computes `t_bm_offset = type / 8`, and accepts
  `blen >= t_bm_offset`, which is off by one. With types {1, 257}, the
  window-0 bitmap is one byte long. The test for MX (15) then reads the next
  window's number byte, which is 1, so MX is reported present. A second
  defect is on line 45: the offset is not reduced to the window, so a type
  of window 1 (257 in {257}) is reported absent. `IsTypeSetDecodes` catches
  that too, with `QTypes` set to {257}.
- **`nsec_next`.** `nsec_proof_chk` counts an NSEC as spanning qname unless
  `namecmp(qname, next) > 0`, and that includes qname = next (line 1093).
  The zone's NSEC `z -> a.z`, replayed with the SOA, makes the existing
  `a.z` NONEXISTENT_NAME.
- **`nsec_wildcard`.** `prove_nsec_wildcard_check` rejects only when
  `namecmp(next, *.closest) < 0` (line 1020). A wildcard equal to the next
  name is therefore "proved" absent. With `*.z` in the zone, the NSECs
  `z -> *.z` and `*.z -> z` deny `c.z`, which the wildcard answers.
- **`nsec_delegation`.** No NS/SOA bit test guards the no-data branch. So
  the parent's NSEC at a zone cut, which lists NS and DS, proves that the
  signed child has no A record at its apex. Spec 4.7 states the rule
  without the exception that RFC 4035 5.4 and RFC 6840 4.1 make. The
  NSEC3 no-data branch has the same hole: its bitmap test sits in
  `#if 0` (line 1328).
- **`resquery_dname`.** `process_cname_dname_responses` registers a DNAME's
  owner only when the name asked lies strictly below it (`len1 > 0`, line
  898). A DNAME owned by the name itself still rewrites it and sets
  `Q_INIT`, and the alias branch of `follow_referral_or_alias_link`
  registers nothing. So a spoofed `y DNAME y` makes `ask_resolver` re-send
  the same query for ever. Spec 8.5 says registration makes an endless
  loop impossible.

Further disagreements need constants or properties the runs above do not
use. They are recorded as hazards in `PROJECT.json` and are easy to reproduce:
- **A query that is its own glue query.** With `SelfGlue = TRUE` in
  `MCValResquery.cfg` and `INVARIANT GlueWaitHasFetch` added, TLC finds
  `GlueWaitHasFetch` violated. (With `SelfGlue = FALSE` it holds, but the
  self glue is the only way it can fail, so no passing run checks it.) A referral to z
  naming `c.z` as its only server, with no glue, makes `bootstrap_referral`
  ask for the A record of `c.z`, which is the query itself
  (`add_to_qfq_chain` returns it, `val_resquery.c` 550). The query then
  waits on a query in `Q_WAIT_FOR_GLUE`, which `merge_glue_in_referral`
  never moves. It ends only through the stale poll below, in an error.
- **Signer length of the first RRSIG.** `predict_sigbuflength` measures the
  signer name of the set's first RRSIG (`val_verify.c` 377). `make_sigfield`
  then copies that many bytes of the RRSIG it checks (451).
  `tlc -config MCValVerify_signer.cfg MCValVerify` finds the completeness
  property `SomeSigChecksIsVerified` (spec 4.6) violated: in a DNSKEY set, a second RRSIG that checks is reported
  NOT_VERIFIED, because the first RRSIG's signer name has another length.
  One RRSIG injected in front thus makes a secure answer fail.
- **Build without NSEC3.** With `LIBVAL_NSEC3 = FALSE` and `MaxRRsets = 1`,
  an SOA alone proves NONEXISTENT_NAME, because `nsec = 1` (line 1632) is
  inside `#ifdef LIBVAL_NSEC3`.
- **Apex-only zone.** For a zone holding only its apex, the honest denial
  `z -> z` is rejected as BOGUS_PROOF, because the wildcard test has no
  wrap-around.
- **Empty non-terminal.** Under `AllContents`, an empty non-terminal (`a.z`
  above `a.a.z`) is reported NONEXISTENT_NAME. Spec 4.7 does not say
  otherwise, so this one is a question for the spec.

- **Signed island.** With `Islands <- LeafIsland` in
  `MCValAssertion_data.cfg`, `HonestOutcome` is violated. `leaf` is
  signed, but `tld` denies its DS. The walk reaches the leaf DNSKEY, whose
  trust is the denial, and hands `verify_provably_unsecure` the denial's
  SOA, owned by `tld` (line 2149). Spec 4.8 has the prover walk up from
  there, so it asks for the DS of `tld`, which exists, and the answer is
  returned as an untrusted VERIFIED_CHAIN, not PROVABLY_INSECURE. The
  prover is modelled by its contract, because `find_next_zonecut` is not in
  the tree.

The verifier also departs from the comment above `SET_STATUS`
(`val_verify.c` 649-654). That comment says that a single failure is
reported as "the exact error", and spec 4.6 step 3 and example 8.6f agree
(RRSIG_EXPIRED). But `SET_STATUS` turns every failure into NOT_VERIFIED
(line 672), so a lone expired RRSIG leaves the assertion NOT_VERIFIED. No
run checks the status codes. The walk classifies both codes in the same
band, so the disagreement changes what the caller sees in the chain, not
the result.

Every property of a passing run has a mutant in `PROJECT.json`: a plausible
bug in a mapped operator under which TLC finds that property violated.

## Bounds

- **The verifier's inputs.** One RRSIG is enough for each of
  `val_sigverify`'s checks and its edges. Two RRSIGs are enough for
  `SET_STATUS` and for the order of signatures. The validity periods put
  `Now` exactly on each widened edge (accepted) and one past it (refused).
  Two keys in a set are enough for a tag collision.
- **Three zones** is the smallest tree that has all of the following: a zone
  below the anchor that is not the anchor, a delegation with a DS, a
  delegation the parent denies a DS to, and a data name below a zone cut.
  The `data` run covers the denied delegation with an unsigned `leaf`
  (`DataTrees`). A signed `leaf` without a DS (`LeafIsland`) is the
  signed-island disagreement above, so no passing run uses it.
- **Each query is answered at most once.** In `ValAssertion`, each query is sent once, and
  `assimilate_answers` ignores a second answer.
- **The walk is bounded by fuel:** the number of assertions plus one. A walk
  longer than that has revisited a node, so running out of fuel is a cycle
  (`hung`).
- **The NSEC zone.** Four names below the apex give a wildcard, an empty
  non-terminal, names before and after it, and a name below a name. Three
  RRsets hold an SOA, a name-span NSEC and a wildcard NSEC, which is the
  largest honest denial.
- **The attack sets** are split across runs. A passing run then explores loss,
  stripping and unsigned forgeries everywhere. The attacks that break the code
  each have their own violation run.
- **The resolution tree** root → z, with one alias, is the smallest in
  which an honest alias is re-asked after a referral. The registry then
  matters: the referral to z and the CNAME target are both registered
  with z. `y` and `y.y` give a DNAME target outside z, and one past
  `MaxLabels = 2`. Spoofs are unbounded in number, so loops can be
  attempted for ever.
- **The glue.** Honest referrals carry their server `n.z` with glue. The
  glueless referral names two servers, `y` and `y.y`, which is the fewest
  for a failed glue query to move on to a next name and for the last one
  to end in `SR_MISSING_GLUE`. It is sent only by the root's servers, the
  place of a referral to z; every glue query may end in any of its four
  ways, and one found earlier in the chain is reused.
- **The NSEC3 hashes.** Multipliers 1, 3 and 5 modulo 17 give three orders
  of the zone's names, ENTs included. In these orders the closest encloser,
  the next closer name and the wildcard fall on different NSEC3s, and the
  last NSEC3 wraps around.
- **The warm cache** of the `data` run holds `www A`, `leaf DNSKEY` and
  `leaf DS`, each either empty or any answer the network of that run can
  give. This is enough for a hit whose assimilation adds a query that is
  itself a hit (one recursion of `ask_cache` per link). `ask_cache` takes
  only one hit per scan, but a second hit in the same scan never arises in
  this tree. A run with eight cached keys (every key of the chain, honest
  network) reached no state with two hits in one scan: a chain of trust
  adds one query at a time. The violation runs use `NoCache`, so their
  traces are the same as before.
- **`ForgeTypes`** restricts forged unsigned answers to A in the `data` run,
  because a forged unsigned DNSKEY crashes the walk (the `crash` run).

## Fairness

The program is single-threaded. Every step except `Returned` changes the
state, and `Returned` is enabled exactly when the call is over. So the only
fairness the code offers is that the process keeps running, and that the
resolver library answers or times out every query it sent.

`ValResquery` states fairness per action: `WF_vars(Send)`, because
`ask_resolver` sends every `Q_INIT` query on each pass of its loop, and
`WF_vars(Reply)`, because `res_io` delivers some response or reports an
error for each query sent. After a failed send, after an empty response
once the transaction is closed, or while the query waits for glue
(`StaleReceive`, also weakly fair), only the error remains. The model assumes
that `response_recv` reports it: that function is not in the tree, and if it
answered `SR_NO_ANSWER_YET` for ever, `ask_resolver` would poll for ever.
`WF_vars(merge_glue_in_referral)` holds because `val_resolve_and_check`
merges glue on every pass while its top query waits, and
`WF_vars(GlueResolve(h))` because a glue query is a query like this one,
whose resolution `ResolutionEnds` shows to end. Which response arrives is not constrained: a
spoofer may choose it every time.

`ResolveReturns` is stated as `KeepsRunning => <>Terminal`, where
`KeepsRunning == []<><<TRUE>>_vars`. This adds no weak fairness on any
particular action, and deadlock is still checked.

## Not modelled

- SHA-1 and base32hex in `compute_nsec3_hash`, and NSEC3 rdata parsing.
  A hash is a position in a chosen order, so a collision and a hash of the
  wrong length never happen.
- The `nsec3-max-iter` policy is empty in the run. The policy matching is
  modelled, but no run configures a limit.
- The NSEC3 form of the delegation hole: `x.d.z` denied from the parent's
  NSEC3 at `d.z`. No run checks it.
- A root SOA, for which `Nsec3Walk` stops at the root, where the C code
  reads past the name.
- In `ValAssertion` the top query is always answered positively. The
  negative branch of `fix_validation_results` is checked in `ValNsec`, on
  results given directly rather than produced by the walk.
- Wire-format parsing and the DNSKEY/DS queries a trusted referral adds
  (`val_resquery.c`). The glue queries' own resolution is not followed:
  `GlueResolve` picks its outcome. The glue addresses
  (`extract_glue_from_rdata`) and the query flags, including the `&=`
  that clears a glue query's flags (`val_resquery.c` 555), are left out.
- `merge_glue_in_referral` is defined with three arguments and reads
  `qc_ans`; `val_assertion.c` calls it with two and names the field
  `qc_as`. As for `verify_next_assertion`, the model composes the two
  revisions by what the function does.
- `response_recv` itself. After an empty response the transaction may stay
  open or be closed, and the model takes both. After a failed send, the
  next poll is an error.
- Out-of-memory returns of `val_resquery_rcv`.
- In `ValAssertion`, queries are answered directly, with no referrals.
  `ValResquery` follows a single query on its own.
- The cache's key, DS, zone and negative-answer partitions, and its
  lifetime. Only the answer partition is read by `ask_cache`. The zone
  partition is abstracted in `ValResquery`.
- Socket I/O (`ns_netint.c`).
- The applications (`getaddr.c`, the dnssec-nodes view).
- The cryptographic primitives, DS digests and rdata parsing
  (`val_crypto`, `val_parse_*`), which are not in the tree.
- The `UNKNOWN_ALGORITHM` case of the DS trust path (`val_verify.c` 808).
  `DSLink` models the condition as written, but the link it creates does not
  show in the assertion status, so no property can tell it apart.
- The 32-bit arithmetic of `sig_expr + SIG_ACCEPT_WINDOW` and
  `sig_incp - SIG_ACCEPT_WINDOW` (`val_verify.c` 100, 137). TLC's integers
  are 32-bit signed, so times are unbounded integers here. The wrap needs
  times near 2^32 (the year 2106).
- `DNSKEY_NOMATCH`: a trust or DNSKEY set with no rrset at all, which no
  caller passes.
- The prover's retry loop after a lost nested lookup.
