--------------------------- MODULE ProposalStore ---------------------------
(***************************************************************************)
(* The SQLite tables behind a human-approved trade (storage.py): one row   *)
(* of "proposals" per ticket, at most one row of "executions" per ticket,  *)
(* and the append-only "events" ledger.  Every operator below is one       *)
(* transaction of Database: it reads and writes in one atomic step,        *)
(* because connect() commits once per call and the writers BEGIN           *)
(* IMMEDIATE.  The processes that call these transactions, and so the      *)
(* points where they may be interleaved or cut by a crash, are in module   *)
(* TradeExecution.                                                         *)
(*                                                                         *)
(* Abstracted: a ticket is its identity, its line (the ticker and side     *)
(* that has_open_duplicate compares) and its creation time.  The trigger   *)
(* immutable_proposal_ticket makes these constant once inserted, so a      *)
(* stored ticket always matches its stored hash.  "decided" stands for the *)
(* columns approved_by, approved_at and rejection_reason, which approval   *)
(* and rejection write together.  "orderId" says whether broker_order_id   *)
(* is not NULL.  The ledger keeps, per ticket, the kinds of its events.    *)
(***************************************************************************)
EXTENDS Integers, FiniteSets

CONSTANTS
  Proposals,    \* identities a ticket may take (uuid4 in the code)
  Lines,        \* pairs of a ticker and a side
  LineOf,       \* the line of each ticket
  Lifetime,     \* RiskPolicy.approval_ttl, in clock units
  WeekLength    \* clock units from one Monday 00:00 UTC to the next

ASSUME StoreAssumption ==
  /\ LineOf \in [Proposals -> Lines]
  /\ Lifetime \in Nat \ {0}
  /\ WeekLength \in Nat \ {0}

VARIABLES
  status,       \* proposals.status, "NONE" before the row exists
  decided,      \* the human verdict written on the row
  createdAt,    \* proposals.created_at (expires_at follows from it)
  exec,         \* executions.state, "NONE" before the row exists
  orderId,      \* executions.broker_order_id IS NOT NULL
  submittedAt,  \* executions.submitted_at, NoTime while NULL
  ledger        \* kinds of the events naming the ticket

ticketVars == <<status, decided, createdAt>>
execVars   == <<exec, orderId, submittedAt>>
storeVars  == <<status, decided, createdAt, exec, orderId, submittedAt, ledger>>

NoTime == -1

OpenStatuses     == {"PENDING", "APPROVED"}
RecordedStates   == {"SUBMITTED", "UNKNOWN", "FILLED", "FAILED"}
ProposalStatuses == {"NONE", "PENDING", "APPROVED", "REJECTED", "EXPIRED",
                     "SUBMITTED", "FILLED", "FAILED", "RECONCILIATION_REQUIRED"}
ExecutionStates  == {"NONE", "CLAIMED"} \cup RecordedStates
Verdicts         == {"approve", "reject"}
EventKinds       == {"PROPOSAL_CREATED", "PROPOSAL_APPROVED", "PROPOSAL_REJECTED",
                     "ORDER_SUBMITTED", "ORDER_REJECTED",
                     "ORDER_RECONCILIATION_REQUIRED", "ORDER_RECONCILED_OPEN",
                     "ORDER_FILLED", "ORDER_TERMINAL_WITHOUT_FILL"}

StoreTypeOK ==
  /\ status \in [Proposals -> ProposalStatuses]
  /\ decided \in [Proposals -> Verdicts \cup {"none"}]
  /\ createdAt \in [Proposals -> Nat \cup {NoTime}]
  /\ exec \in [Proposals -> ExecutionStates]
  /\ orderId \in [Proposals -> BOOLEAN]
  /\ submittedAt \in [Proposals -> Nat \cup {NoTime}]
  /\ ledger \in [Proposals -> SUBSET EventKinds]

StoreInit ==
  /\ status = [p \in Proposals |-> "NONE"]
  /\ decided = [p \in Proposals |-> "none"]
  /\ createdAt = [p \in Proposals |-> NoTime]
  /\ exec = [p \in Proposals |-> "NONE"]
  /\ orderId = [p \in Proposals |-> FALSE]
  /\ submittedAt = [p \in Proposals |-> NoTime]
  /\ ledger = [p \in Proposals |-> {}]

-----------------------------------------------------------------------------
(* Queries. *)

Expires(p) == createdAt[p] + Lifetime

(* has_open_duplicate: a dead PENDING or APPROVED row does not block.      *)
(* Faulty variant: an order of unknown outcome does not block.             *)
BlocksOnlyKnownOrders(q, now) ==
  \/ status[q] = "SUBMITTED"
  \/ status[q] \in OpenStatuses /\ Expires(q) > now

Blocks(q, now) ==
  \/ status[q] \in {"SUBMITTED", "RECONCILIATION_REQUIRED"}
  \/ status[q] \in OpenStatuses /\ Expires(q) > now

HasOpenDuplicate(line, now) ==
  \E q \in Proposals : LineOf[q] = line /\ Blocks(q, now)

(* The trades that count against the weekly limit at time now.             *)
Monday(now) == now - (now % WeekLength)

TradesThisWeek(now) ==
  Cardinality({q \in Proposals : submittedAt[q] # NoTime /\ submittedAt[q] >= Monday(now)})

-----------------------------------------------------------------------------
(* Transactions. *)

CreateProposal(p, now) ==
  /\ status' = [status EXCEPT ![p] = "PENDING"]
  /\ createdAt' = [createdAt EXCEPT ![p] = now]
  /\ UNCHANGED decided

(* decide_proposal on a PENDING row.  The deadline is tested inside the    *)
(* transaction, and the EXPIRED write of a late verdict is committed.      *)
(* Faulty variant: a ticket that was already decided is decided again.     *)
DecideAgain(p, verdict, now) ==
  /\ status[p] # "NONE"
  /\ now < Expires(p)
  /\ status' = [status EXCEPT ![p] = IF verdict = "approve" THEN "APPROVED" ELSE "REJECTED"]
  /\ decided' = [decided EXCEPT ![p] = verdict]
  /\ UNCHANGED createdAt

DecideLive(p, verdict, now) ==
  /\ status[p] = "PENDING"
  /\ now < Expires(p)
  /\ status' = [status EXCEPT ![p] = IF verdict = "approve" THEN "APPROVED" ELSE "REJECTED"]
  /\ decided' = [decided EXCEPT ![p] = verdict]
  /\ UNCHANGED createdAt

DecideLate(p, now) ==
  /\ status[p] = "PENDING"
  /\ Expires(p) <= now
  /\ status' = [status EXCEPT ![p] = "EXPIRED"]
  /\ UNCHANGED <<decided, createdAt>>

MarkExpired(p) ==
  /\ status' = [status EXCEPT ![p] = IF @ \in OpenStatuses THEN "EXPIRED" ELSE @]
  /\ UNCHANGED <<decided, createdAt>>

(* The half of claim_execution that inserts the row; the caller that finds *)
(* a row is told so and must not submit.                                   *)
(* Faulty variant: a second claim of the same ticket succeeds.             *)
ClaimAlwaysNew(p) == TRUE

ClaimIsNew(p) == exec[p] = "NONE"

InsertClaim(p) ==
  /\ exec' = [exec EXCEPT ![p] = "CLAIMED"]
  /\ UNCHANGED <<orderId, submittedAt>>

(* update_execution writes both tables in one transaction.  COALESCE(?,    *)
(* submitted_at) takes the new timestamp whenever one is supplied.         *)
(* Faulty variant: an unknown outcome does not count as a trade.           *)
UpdateWithoutUnknownStamp(p, state, now, knowsId, newStatus) ==
  /\ exec' = [exec EXCEPT ![p] = state]
  /\ orderId' = [orderId EXCEPT ![p] = @ \/ knowsId]
  /\ submittedAt' = [submittedAt EXCEPT
                       ![p] = IF state \in {"SUBMITTED", "FILLED"} THEN now ELSE @]
  /\ status' = [status EXCEPT ![p] = newStatus]
  /\ UNCHANGED <<decided, createdAt>>

UpdateExecution(p, state, now, knowsId, newStatus) ==
  /\ exec' = [exec EXCEPT ![p] = state]
  /\ orderId' = [orderId EXCEPT ![p] = @ \/ knowsId]
  /\ submittedAt' = [submittedAt EXCEPT
                       ![p] = IF state \in {"SUBMITTED", "UNKNOWN", "FILLED"} THEN now ELSE @]
  /\ status' = [status EXCEPT ![p] = newStatus]
  /\ UNCHANGED <<decided, createdAt>>

AppendEvent(kind, p) == ledger' = [ledger EXCEPT ![p] = @ \cup {kind}]
=============================================================================
