--------------------------- MODULE QueryLifecycle ---------------------------
(***************************************************************************)
(* What one val_resolve_and_check call promises of its query chain        *)
(* (spec 4.2), stated without assertions, trust or results.  A query is   *)
(* created once (Q_INIT) and sent (Q_SENT), or answered from the cache   *)
(* without being sent; a sent query may be set back to Q_INIT to be asked *)
(* again (a referral or alias followed), and ends answered (Q_ANSWERED)   *)
(* or failed (Q_ERROR), which it never leaves.  Any                       *)
(* number of queries may move in one step.  The call returns only once   *)
(* the top query has been answered or has failed, and after it has        *)
(* returned the chain no longer changes.                                  *)
(***************************************************************************)
CONSTANTS
    QKeys,   \* the <name, type> pairs that can be asked
    TopQ     \* the query of the call itself

VARIABLES
    qs,       \* qs[q]: "ABSENT" or the query's state
    returned  \* the call has returned

vars == <<qs, returned>>

(* The moves a single query may make.                                     *)
Moves == {<<"ABSENT", "INIT">>, <<"INIT", "SENT">>, <<"INIT", "ANSWERED">>, <<"SENT", "INIT">>,
          <<"SENT", "ANSWERED">>, <<"SENT", "ERROR">>}

Finished == {"ANSWERED", "ERROR"}

Init ==
    /\ qs = [q \in QKeys |-> IF q = TopQ THEN "INIT" ELSE "ABSENT"]
    /\ returned = FALSE

(* Queries are created, sent, answered or failed; each moves one stage.  *)
Progress ==
    /\ ~returned
    /\ qs' \in [QKeys -> {"ABSENT", "INIT", "SENT", "ANSWERED", "ERROR"}]
    /\ \A q \in QKeys : qs'[q] = qs[q] \/ <<qs[q], qs'[q]>> \in Moves
    /\ UNCHANGED returned

(* The call returns with the top query finished.                          *)
Return ==
    /\ ~returned
    /\ qs[TopQ] \in Finished
    /\ returned' = TRUE
    /\ UNCHANGED qs

Next == Progress \/ Return

Spec == Init /\ [][Next]_vars
=============================================================================
