--------------------------- MODULE SettlementRows ---------------------------
(***************************************************************************)
(* The settlement rule against every table of observations: any poll, with *)
(* any evidence gathered over any interval, may be stored at any time, so  *)
(* that overlapping and late polls are all there.  Module                  *)
(* ResolutionPolling has the polls themselves.                             *)
(***************************************************************************)
EXTENDS Settlement, FiniteSets

CONSTANTS
  Times,     \* clock readings
  Verdicts,  \* evidence a row may carry: status, outcome and cross-check
  MaxRows    \* bound: observations recorded

ASSUME RowsAssumption ==
  /\ Times \subseteq Nat
  /\ Verdicts \subseteq [status : {"open", "resolved"},
                         outcome : SettleableOutcomes \cup {NoOutcome, "UNKNOWN"},
                         check : {"NOT_APPLICABLE", "CONFIRMED", "MISMATCH", "UNCHECKED"}]
  /\ MaxRows \in Nat

VARIABLE rows   \* resolution_observations of one market

(* Rows written before schema v3 have no request time, and a market that   *)
(* Gamma did not return has no Gamma time.                                 *)
Intervals == {i \in [requested : Times \cup {NoTime}, fetched : Times, gamma : Times \cup {NoTime}] :
                /\ i.requested # NoTime => i.requested <= i.fetched
                /\ i.gamma # NoTime => i.fetched <= i.gamma}

Init == rows = {}

Insert ==
  /\ Cardinality(rows) < MaxRows
  /\ \E i \in Intervals, v \in Verdicts :
       rows' = rows \cup {[id |-> Cardinality(rows) + 1, requested |-> i.requested,
                           fetched |-> i.fetched, gamma |-> i.gamma,
                           status |-> v.status, outcome |-> v.outcome, check |-> v.check]}

Spec == Init /\ [][Insert]_rows

-----------------------------------------------------------------------------
(* The rule stated at once: a market settles at an outcome exactly when    *)
(* some confirmed row for it is such that every other row either says the  *)
(* same and is not later, or ended before that row began.                  *)
NotLater(r, g) == End(r) < End(g) \/ (End(r) = End(g) /\ Start(r) <= Start(g))

SettlesAt(outcome) ==
  \E g \in rows :
    /\ Evidence(g) = <<"resolved", outcome, "CONFIRMED">>
    /\ \A r \in rows : \/ Evidence(r) = Evidence(g) /\ NotLater(r, g)
                       \/ End(r) < Start(g)

RuleIsTheReference ==
  \A outcome \in SettleableOutcomes : FinalOutcome(rows) = outcome <=> SettlesAt(outcome)

(* A poll begun after all recorded evidence had ended puts an end to every *)
(* ambiguity: it governs alone (settlement.py line 88).                    *)
LaterPollGoverns ==
  \A r \in rows :
    (\A q \in rows \ {r} : End(q) < Start(r)) => Governing(rows) = r /\ ~Ambiguous(rows)

=============================================================================
