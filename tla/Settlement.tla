----------------------------- MODULE Settlement -----------------------------
(***************************************************************************)
(* The rule by which predict_agent settles a market (settlement.py): which *)
(* of the recorded resolution observations governs, whether the evidence   *)
(* is ambiguous, and what a ticket is paid.  Pure operators on a set of    *)
(* observation rows; module ResolutionPolling produces the rows.           *)
(*                                                                         *)
(* A row carries its id (insertion order), the times its resolution        *)
(* request began and ended and its Gamma fetch ended (NoTime for a NULL    *)
(* column), and its evidence: status, outcome and cross-check.             *)
(***************************************************************************)
EXTENDS Integers

NoTime == -1

SettleableOutcomes == {"YES", "NO", "HALF"}

(* When the evidence of a row was gathered.                                *)
Start(r) == IF r.requested = NoTime THEN r.fetched ELSE r.requested

(* Faulty variant: the Gamma fetch is forgotten.                           *)
EndOfResolution(r) == r.fetched

End(r) == IF r.gamma > r.fetched THEN r.gamma ELSE r.fetched

Evidence(r) == <<r.status, r.outcome, r.check>>

(* The rows whose evidence ended last, and among them those that started   *)
(* last.                                                                   *)
Latest(rows)      == {r \in rows : \A q \in rows : End(q) <= End(r)}
Youngest(rows)    == {r \in rows : \A q \in rows : Start(q) <= Start(r)}
LowestId(rows)    == CHOOSE r \in rows : \A q \in rows : r.id <= q.id

Governing(rows) ==
  LET last == Latest(rows) IN
  IF \E r, q \in last : Evidence(r) # Evidence(q)
  THEN LowestId(last)
  ELSE LowestId(Youngest(last))

(* Two rows that ended together disagree, or a row that disagrees with the *)
(* governing one had not ended when that one started.                      *)
(* Faulty variant: a contradiction that ends as the governing row starts   *)
(* counts as older.                                                        *)
AmbiguousStrict(rows) ==
  \/ \E r, q \in Latest(rows) : Evidence(r) # Evidence(q)
  \/ \E r \in rows : /\ Evidence(r) # Evidence(Governing(rows))
                     /\ End(r) > Start(Governing(rows))

Ambiguous(rows) ==
  \/ \E r, q \in Latest(rows) : Evidence(r) # Evidence(q)
  \/ \E r \in rows : /\ Evidence(r) # Evidence(Governing(rows))
                     /\ End(r) >= Start(Governing(rows))

(* _pending_reason: why a ticket waits, "NONE" when it can be settled.     *)
PendingReason(rows) ==
  IF rows = {} THEN "AWAITING_RESOLUTION"
  ELSE IF Ambiguous(rows) THEN "AMBIGUOUS_EVIDENCE"
  ELSE LET g == Governing(rows) IN
       CASE g.status # "resolved" -> "AWAITING_RESOLUTION"
         [] g.status = "resolved" /\ g.check = "UNCHECKED" -> "AWAITING_CONFIRMATION"
         [] g.status = "resolved" /\ g.check = "CONFIRMED" /\ g.outcome \in SettleableOutcomes -> "NONE"
         [] OTHER -> "UNSETTLEABLE"

(* final_outcome: what the market settles at, NoOutcome while it cannot.   *)
NoOutcome == "none"

FinalOutcome(rows) ==
  IF PendingReason(rows) = "NONE" THEN Governing(rows).outcome ELSE NoOutcome

(* payout_per_share, in half dollars.                                      *)
Payout(held, outcome) ==
  IF outcome = "HALF" THEN 1 ELSE IF held = outcome THEN 2 ELSE 0

(* reconcile_outcome: the outcome and the cross-check of a row, from the   *)
(* official resolution and the reading of Gamma's prices (an exact         *)
(* outcome, a price that leans to one side, or nothing usable).            *)
Contradicts(prices, outcome) ==
  \/ prices \in SettleableOutcomes \ {outcome}
  \/ prices = "LEAN_YES" /\ outcome = "NO"
  \/ prices = "LEAN_NO" /\ outcome = "YES"

(* Faulty variant: what Gamma does not contradict counts as confirmed.     *)
ReconcileTrusting(outcome, prices) ==
  IF outcome \in {NoOutcome, "UNKNOWN"} THEN <<outcome, "NOT_APPLICABLE">>
  ELSE IF Contradicts(prices, outcome) THEN <<"UNKNOWN", "MISMATCH">>
  ELSE <<outcome, "CONFIRMED">>

Reconcile(outcome, prices) ==
  IF outcome \in {NoOutcome, "UNKNOWN"} THEN <<outcome, "NOT_APPLICABLE">>
  ELSE IF prices = outcome THEN <<outcome, "CONFIRMED">>
  ELSE IF Contradicts(prices, outcome) THEN <<"UNKNOWN", "MISMATCH">>
  ELSE <<outcome, "UNCHECKED">>
=============================================================================
