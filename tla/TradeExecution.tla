--------------------------- MODULE TradeExecution ---------------------------
(***************************************************************************)
(* From research decision to broker order: the command-line invocations    *)
(* and the approval handlers that share one SQLite file and one broker.    *)
(* Each process runs one operation at a time (propose, decide, execute or  *)
(* reconcile) and takes one step per database transaction or broker        *)
(* request, so the steps of different processes interleave between         *)
(* transactions, exactly where the program holds no lock.  A process may   *)
(* crash before any of its steps.                                          *)
(*                                                                         *)
(* An invocation reads the clock once, when it starts, and uses that       *)
(* value throughout (the parameter now of every service method).           *)
(*                                                                         *)
(* Abstracted: quote, portfolio, whitelist, citation and live-gate tests   *)
(* read inputs that no other part of the model writes, so each may pass or *)
(* refuse; a refusal ends the invocation without touching a ticket.  The   *)
(* broker holds at most one order per POST; "order" is the order of the    *)
(* ticket's last POST, which is the only one as long as AtMostOnePost      *)
(* holds.                                                                  *)
(***************************************************************************)
EXTENDS ProposalStore

CONSTANTS
  Procs,        \* concurrent invocations and handler threads
  WeeklyLimit,  \* RiskPolicy.max_trades_per_week
  NoTicket,     \* the ticket of an idle process
  MaxTime,      \* bound: the clock stops here
  MaxCrashes,   \* bound: how many invocations may die
  MaxCuts       \* bound: how many order answers may arrive unreadable

ASSUME ExecutionAssumption ==
  /\ NoTicket \notin Proposals
  /\ WeeklyLimit \in Nat
  /\ MaxTime \in Nat
  /\ MaxCrashes \in Nat
  /\ MaxCuts \in Nat

VARIABLES
  clock,     \* wall clock
  proc,      \* the local state of each process
  order,     \* the broker's order for the ticket
  posts,     \* how many order POSTs were sent for the ticket (history)
  postedAt,  \* the invocation time of the ticket's last POST (history)
  crashes,   \* how many processes died (history)
  cuts       \* how many order answers were unreadable (history)

envVars == <<clock, crashes, cuts>>
brokerVars == <<order, posts, postedAt>>
vars == <<storeVars, clock, proc, order, posts, postedAt, crashes, cuts>>

-----------------------------------------------------------------------------
(* What a process remembers between its steps: where it is, its ticket,    *)
(* its clock reading, and a note (the verdict it carries, the outcome it   *)
(* is about to record or the event it is about to append).                 *)

ProposePcs   == {"count", "duplicate", "create"}
ExecutePcs   == {"read", "retire", "check", "claim", "post", "await"}
ReconcilePcs == {"lookup", "query"}
Pcs          == {"idle", "decide", "record", "log"}
                  \cup ProposePcs \cup ExecutePcs \cup ReconcilePcs

(* How each answer of the broker is recorded: the execution state, the     *)
(* ticket status, whether the answer names the order, and the event that   *)
(* follows.  The first five answer a POST, the last three a status query.  *)
Row(state, newStatus, id, event) ==
  [state |-> state, status |-> newStatus, id |-> id, event |-> event]

(* _mark_unknown, with or without a broker order id.  Faulty variant: a    *)
(* lost answer taken for a rejection.                                      *)
UnknownAsRefused(id) == Row("FAILED", "FAILED", id, "ORDER_REJECTED")

Unknown(id) == Row("UNKNOWN", "RECONCILIATION_REQUIRED", id, "ORDER_RECONCILIATION_REQUIRED")

Outcome(note) ==
  CASE note = "ACCEPTED"     -> Row("SUBMITTED", "SUBMITTED", TRUE, "ORDER_SUBMITTED")
    [] note = "MISMATCHED"   -> Unknown(TRUE)
    [] note = "UNIDENTIFIED" -> Unknown(FALSE)
    [] note = "UNCERTAIN"    -> Unknown(FALSE)
    [] note = "REFUSED"      -> Row("FAILED", "FAILED", FALSE, "ORDER_REJECTED")
    [] note = "FOUND_OPEN"   -> Row("SUBMITTED", "SUBMITTED", TRUE, "ORDER_RECONCILED_OPEN")
    [] note = "FOUND_FILLED" -> Row("FILLED", "FILLED", TRUE, "ORDER_FILLED")
    [] note = "FOUND_DEAD"   -> Row("FAILED", "FAILED", TRUE, "ORDER_TERMINAL_WITHOUT_FILL")

SubmitNotes    == {"ACCEPTED", "MISMATCHED", "UNIDENTIFIED", "UNCERTAIN", "REFUSED"}
ReconcileNotes == {"FOUND_OPEN", "FOUND_FILLED", "FOUND_DEAD"}

Notes == {"none", "blocked"} \cup Verdicts \cup SubmitNotes \cup ReconcileNotes \cup EventKinds

Process == [pc : Pcs, p : Proposals \cup {NoTicket}, now : Nat, note : Notes]
Idle    == [pc |-> "idle", p |-> NoTicket, now |-> 0, note |-> "none"]

(* "sent": the request left and the broker has not acted on it.            *)
OrderStates == {"none", "sent", "refused", "open", "filled", "cancelled"}
Held        == {"open", "filled", "cancelled"}

NoteFits(pc, note) ==
  /\ pc = "decide" => note \in Verdicts
  /\ pc = "record" => note \in SubmitNotes \cup ReconcileNotes
  /\ pc = "log"    => note \in EventKinds

ProcTypeOK ==
  /\ proc \in [Procs -> Process]
  /\ \A w \in Procs : proc[w].pc # "idle" => proc[w].p \in Proposals
  /\ \A w \in Procs : NoteFits(proc[w].pc, proc[w].note)

(* Every variable keeps its type, and each process carries a note that     *)
(* fits the place it is at.                                                *)
TypeOK ==
  /\ StoreTypeOK
  /\ clock \in Nat
  /\ ProcTypeOK
  /\ order \in [Proposals -> OrderStates]
  /\ posts \in [Proposals -> Nat]
  /\ postedAt \in [Proposals -> Nat \cup {NoTime}]
  /\ crashes \in Nat
  /\ cuts \in Nat

Init ==
  /\ StoreInit
  /\ clock = 0
  /\ proc = [w \in Procs |-> Idle]
  /\ order = [p \in Proposals |-> "none"]
  /\ posts = [p \in Proposals |-> 0]
  /\ postedAt = [p \in Proposals |-> NoTime]
  /\ crashes = 0
  /\ cuts = 0

At(w, pc) == proc[w].pc = pc

Goto(w, pc, note) ==
  proc' = [proc EXCEPT ![w] = [pc |-> pc, p |-> @.p, now |-> @.now, note |-> note]]

Begin(w, pc, p, note) ==
  /\ At(w, "idle")
  /\ proc' = [proc EXCEPT ![w] = [pc |-> pc, p |-> p, now |-> clock, note |-> note]]

Finish(w) == proc' = [proc EXCEPT ![w] = Idle]

-----------------------------------------------------------------------------
(* Propose (ProposalWorkflow.propose): count this week's trades, look for  *)
(* an open duplicate, build the ticket, insert it.  The two reads and the  *)
(* insert are three separate transactions.                                 *)

StartPropose(w, p) ==
  /\ status[p] = "NONE"
  /\ \A v \in Procs : proc[v].pc \in ProposePcs => proc[v].p # p
  /\ Begin(w, "count", p, "none")
  /\ UNCHANGED <<storeVars, brokerVars, envVars>>

CountTrades(w) ==
  /\ At(w, "count")
  /\ Goto(w, "duplicate",
          IF TradesThisWeek(proc[w].now) >= WeeklyLimit THEN "blocked" ELSE "none")
  /\ UNCHANGED <<storeVars, brokerVars, envVars>>

CheckDuplicate(w) ==
  /\ At(w, "duplicate")
  /\ \/ Finish(w)
     \/ /\ proc[w].note # "blocked"
        /\ ~HasOpenDuplicate(LineOf[proc[w].p], proc[w].now)
        /\ Goto(w, "create", "none")
  /\ UNCHANGED <<storeVars, brokerVars, envVars>>

CreateTicket(w) ==
  /\ At(w, "create")
  /\ CreateProposal(proc[w].p, proc[w].now)
  /\ Goto(w, "log", "PROPOSAL_CREATED")
  /\ UNCHANGED <<execVars, ledger, brokerVars, envVars>>

-----------------------------------------------------------------------------
(* Decide (ApprovalService.approve and reject): one transaction for the    *)
(* verdict, a second one for its event.                                    *)

StartDecide(w, p, verdict) ==
  /\ status[p] # "NONE"
  /\ Begin(w, "decide", p, verdict)
  /\ UNCHANGED <<storeVars, brokerVars, envVars>>

Decide(w) ==
  LET p == proc[w].p IN
  /\ At(w, "decide")
  /\ \/ /\ status[p] # "PENDING"
        /\ Finish(w)
        /\ UNCHANGED ticketVars
     \/ /\ DecideLate(p, proc[w].now)
        /\ Finish(w)
     \/ /\ DecideLive(p, proc[w].note, proc[w].now)
        /\ Goto(w, "log", IF proc[w].note = "approve" THEN "PROPOSAL_APPROVED"
                                                      ELSE "PROPOSAL_REJECTED")
  /\ UNCHANGED <<execVars, ledger, brokerVars, envVars>>
-----------------------------------------------------------------------------
(* Execute (ExecutionService.execute).                                     *)

StartExecute(w, p) ==
  /\ status[p] # "NONE"
  /\ Begin(w, "read", p, "none")
  /\ UNCHANGED <<storeVars, brokerVars, envVars>>

Executable(p) == status[p] = "APPROVED" /\ decided[p] # "none"

ReadTicket(w) ==
  LET p == proc[w].p IN
  /\ At(w, "read")
  /\ \/ ~Executable(p) /\ Finish(w)
     \/ Executable(p) /\ proc[w].now >= Expires(p) /\ Goto(w, "retire", "none")
     \/ /\ Executable(p) /\ proc[w].now < Expires(p)
        /\ Finish(w) \/ Goto(w, "check", "none")   \* a stale quote or portfolio refuses
  /\ UNCHANGED <<storeVars, brokerVars, envVars>>

RetireTicket(w) ==
  /\ At(w, "retire")
  /\ MarkExpired(proc[w].p)
  /\ Finish(w)
  /\ UNCHANGED <<execVars, ledger, brokerVars, envVars>>

CheckRisk(w) ==
  /\ At(w, "check")
  /\ \/ Finish(w)
     \/ /\ TradesThisWeek(proc[w].now) < WeeklyLimit
        /\ Goto(w, "claim", "none")
  /\ UNCHANGED <<storeVars, brokerVars, envVars>>

Claim(w) ==
  LET p == proc[w].p IN
  /\ At(w, "claim")
  /\ \/ ClaimIsNew(p) /\ InsertClaim(p) /\ Goto(w, "post", "none")
     \/ ~ClaimIsNew(p) /\ Finish(w) /\ UNCHANGED execVars
  /\ UNCHANGED <<ticketVars, ledger, brokerVars, envVars>>

Post(w) ==
  LET p == proc[w].p IN
  /\ At(w, "post")
  /\ posts' = [posts EXCEPT ![p] = @ + 1]
  /\ postedAt' = [postedAt EXCEPT ![p] = proc[w].now]
  /\ order' = [order EXCEPT ![p] = "sent"]
  /\ Goto(w, "await", "none")
  /\ UNCHANGED <<storeVars, envVars>>

(* What the caller can learn of an order in state o.  A lost or 5xx answer *)
(* says nothing, whatever the broker did; an accepted order may be         *)
(* answered by an object that matches the ticket, or contradicts it, or    *)
(* carries no identifier.                                                  *)
(* Faulty variant: no timeout. *)
AnswersWithoutTimeout(o) ==
  (IF o = "refused" THEN {"REFUSED"} ELSE {}) \cup (IF o \in Held THEN {"ACCEPTED"} ELSE {})

Answers(o) ==
  {"UNCERTAIN"}
    \cup (IF o = "refused" THEN {"REFUSED"} ELSE {})
    \cup (IF o \in Held THEN {"ACCEPTED", "MISMATCHED", "UNIDENTIFIED"} ELSE {})

AwaitAnswer(w) ==
  /\ At(w, "await")
  /\ \E answer \in Answers(order[proc[w].p]) : Goto(w, "record", answer)
  /\ UNCHANGED <<storeVars, brokerVars, envVars>>

(* A body that breaks off (http.client.IncompleteRead) or is not UTF-8     *)
(* (UnicodeDecodeError) raises what neither UrllibTransport.request nor    *)
(* execute catches: the invocation ends and records nothing.               *)
CutAnswer(w) ==
  /\ At(w, "await")
  /\ cuts < MaxCuts
  /\ cuts' = cuts + 1
  /\ Finish(w)
  /\ UNCHANGED <<storeVars, brokerVars, clock, crashes>>

-----------------------------------------------------------------------------
(* Reconcile (ExecutionService.reconcile): read the claim, ask the broker  *)
(* (the pending endpoint, then the history), record what it said.          *)

StartReconcile(w, p) ==
  /\ Begin(w, "lookup", p, "none")
  /\ UNCHANGED <<storeVars, brokerVars, envVars>>

LookUpClaim(w) ==
  /\ At(w, "lookup")
  /\ IF orderId[proc[w].p] THEN Goto(w, "query", "none") ELSE Finish(w)
  /\ UNCHANGED <<storeVars, brokerVars, envVars>>

(* Faulty variant: an order gone from the pending endpoint taken for dead, *)
(* without a look at the history.                                          *)
FindingsPendingOnly(o) == IF o = "open" THEN {"FOUND_OPEN"} ELSE {"FOUND_DEAD"}

Findings(o) ==
  CASE o = "open"      -> {"FOUND_OPEN"}
    [] o = "filled"    -> {"FOUND_FILLED"}
    [] o = "cancelled" -> {"FOUND_DEAD"}
    [] OTHER           -> {}

QueryBroker(w) ==
  /\ At(w, "query")
  /\ \/ Finish(w)   \* a failed request, or absent from both endpoints
     \/ \E found \in Findings(order[proc[w].p]) : Goto(w, "record", found)
  /\ UNCHANGED <<storeVars, brokerVars, envVars>>

-----------------------------------------------------------------------------
(* The two transactions that close an execution or a reconciliation, and   *)
(* the event transaction that closes every operation.                      *)

(* Faulty variant: a refusal is recorded but its event is not appended.    *)
RecordWithoutRefusalEvent(w) ==
  LET row == Outcome(proc[w].note) IN
  /\ At(w, "record")
  /\ UpdateExecution(proc[w].p, row.state, proc[w].now, row.id, row.status)
  /\ IF row.state = "FAILED" THEN Finish(w) ELSE Goto(w, "log", row.event)
  /\ UNCHANGED <<ledger, brokerVars, envVars>>

Record(w) ==
  LET row == Outcome(proc[w].note) IN
  /\ At(w, "record")
  /\ UpdateExecution(proc[w].p, row.state, proc[w].now, row.id, row.status)
  /\ Goto(w, "log", row.event)
  /\ UNCHANGED <<ledger, brokerVars, envVars>>

Log(w) ==
  /\ At(w, "log")
  /\ AppendEvent(proc[w].note, proc[w].p)
  /\ Finish(w)
  /\ UNCHANGED <<ticketVars, execVars, brokerVars, envVars>>

-----------------------------------------------------------------------------
(* The surroundings: the broker, the clock and process death.              *)

BrokerAnswers(p) == order[p] = "sent" /\ \E o \in {"open", "refused"} : order' = [order EXCEPT ![p] = o]

BrokerSettles(p) == order[p] = "open" /\ \E o \in {"filled", "cancelled"} : order' = [order EXCEPT ![p] = o]

Broker(p) ==
  /\ BrokerAnswers(p) \/ BrokerSettles(p)
  /\ UNCHANGED <<storeVars, proc, posts, postedAt, envVars>>

Tick ==
  /\ clock < MaxTime
  /\ clock' = clock + 1
  /\ UNCHANGED <<storeVars, proc, brokerVars, crashes, cuts>>

Crash(w) ==
  /\ ~At(w, "idle")
  /\ crashes < MaxCrashes
  /\ crashes' = crashes + 1
  /\ Finish(w)
  /\ UNCHANGED <<storeVars, brokerVars, clock, cuts>>

Start(w) ==
  \E p \in Proposals :
    \/ StartPropose(w, p)
    \/ \E verdict \in Verdicts : StartDecide(w, p, verdict)
    \/ StartExecute(w, p)
    \/ StartReconcile(w, p)

Step(w) ==
  \/ CountTrades(w) \/ CheckDuplicate(w) \/ CreateTicket(w)
  \/ Decide(w)
  \/ ReadTicket(w) \/ RetireTicket(w) \/ CheckRisk(w)
  \/ Claim(w) \/ Post(w) \/ AwaitAnswer(w) \/ CutAnswer(w)
  \/ LookUpClaim(w) \/ QueryBroker(w)
  \/ Record(w) \/ Log(w)

Next ==
  \/ \E w \in Procs : Start(w) \/ Step(w) \/ Crash(w)
  \/ \E p \in Proposals : Broker(p)
  \/ Tick

Spec == Init /\ [][Next]_vars

(* A started invocation keeps running: the operating system schedules it,  *)
(* the HTTP client times out after 15 s and SQLite's busy wait after 10 s. *)
(* Nothing obliges a human, the broker or the clock to act.                *)
FairSpec == Spec /\ \A w \in Procs : WF_vars(Step(w))
-----------------------------------------------------------------------------
(* Safety. *)

(* The market-order endpoint is not idempotent: whatever is interleaved,   *)
(* repeated or cut short, a ticket is POSTed at most once.                 *)
AtMostOnePost == \A p \in Proposals : posts[p] <= 1

(* An order is sent only for a ticket a human approved, and no later       *)
(* verdict replaces that approval.                                         *)
ConsentBeforePost == \A p \in Proposals : posts[p] > 0 => decided[p] = "approve"

(* The two rows of a ticket never contradict each other: once an outcome   *)
(* is recorded, the ticket's status is that outcome's, however late an     *)
(* expiry or a verdict computed from an older read arrives; and a broker   *)
(* status never appears without a recorded outcome.                        *)
StatusOf(state) ==
  CASE state = "SUBMITTED" -> "SUBMITTED"
    [] state = "UNKNOWN"   -> "RECONCILIATION_REQUIRED"
    [] state = "FILLED"    -> "FILLED"
    [] state = "FAILED"    -> "FAILED"

RowsAgree ==
  \A p \in Proposals :
    IF exec[p] \in RecordedStates
    THEN status[p] = StatusOf(exec[p])
    ELSE status[p] \notin {"SUBMITTED", "FILLED", "FAILED", "RECONCILIATION_REQUIRED"}

(* The store never claims more than the broker did: a FILLED row has a     *)
(* filled order, a FAILED row has an order that can no longer trade, and a *)
(* SUBMITTED row has an order the broker holds and the store can name.     *)
RecordedFateIsTrue ==
  \A p \in Proposals :
    /\ exec[p] = "FILLED" => order[p] = "filled"
    /\ exec[p] = "FAILED" => order[p] \in {"refused", "cancelled"}
    /\ exec[p] = "SUBMITTED" => order[p] \in Held /\ orderId[p]

(* The event ledger is written after the fact, in a transaction of its     *)
(* own, so it may lag behind a crash but never runs ahead of the tables    *)
(* or of the broker.                                                       *)
Backed(kind, p) ==
  /\ kind = "PROPOSAL_CREATED" => status[p] # "NONE"
  /\ kind = "PROPOSAL_APPROVED" => decided[p] = "approve"
  /\ kind = "PROPOSAL_REJECTED" => decided[p] = "reject" /\ exec[p] = "NONE"
  /\ kind \in {"ORDER_SUBMITTED", "ORDER_RECONCILED_OPEN"} => order[p] \in Held /\ orderId[p]
  /\ kind = "ORDER_REJECTED" => exec[p] = "FAILED" /\ order[p] = "refused"
  /\ kind = "ORDER_FILLED" => order[p] = "filled"
  /\ kind = "ORDER_TERMINAL_WITHOUT_FILL" => order[p] = "cancelled"

LedgerNeverAhead == \A p \in Proposals : \A kind \in ledger[p] : Backed(kind, p)

(* What the two tables and the event ledger say of a ticket is consistent, *)
(* and true of its order, whatever crashed, was cut short, or read a row   *)
(* before another process changed it (execute/service.py lines 178 to 236).*)
StoreIsTrue == TypeOK /\ RowsAgree /\ RecordedFateIsTrue /\ LedgerNeverAhead

(* Orders the broker may still execute, or has executed.                   *)
Outstanding(p) == order[p] \in {"sent", "open"}
Traded(p)      == order[p] \in {"sent", "open", "filled", "cancelled"}

(* No more than WeeklyLimit orders are sent in the week their invocations  *)
(* were started in (docs/ARCHITECTURE.md, line 33).                        *)
WeeklyCap ==
  \A p \in Proposals :
    Traded(p) => Cardinality({q \in Proposals :
                    Traded(q) /\ Monday(postedAt[q]) = Monday(postedAt[p])}) <= WeeklyLimit

(* The broker never holds two outstanding orders for one ticker and side.  *)
OneLiveOrderPerLine ==
  \A p, q \in Proposals :
    p # q /\ LineOf[p] = LineOf[q] => ~(Outstanding(p) /\ Outstanding(q))

(* The store and the broker together implement module OrderPromise.  A     *)
(* claimed or unknown execution says nothing about its order; a SUBMITTED  *)
(* one may be out of date, because concurrent reconciliations overwrite    *)
(* each other.                                                             *)
Book(state) ==
  CASE state = "SUBMITTED" -> "open"
    [] state = "FILLED"    -> "filled"
    [] state = "FAILED"    -> "failed"
    [] OTHER               -> "silent"

Promise == INSTANCE OrderPromise WITH
  consent <- decided,
  fate    <- [p \in Proposals |-> IF order[p] = "none" THEN "unsent" ELSE order[p]],
  book    <- [p \in Proposals |-> Book(exec[p])]

KeepsPromise == Promise!Spec

-----------------------------------------------------------------------------
(* Liveness, under FairSpec and when no process dies.                      *)

(* Every answer of the broker, and every failure to answer, is recorded:   *)
(* no execution stays CLAIMED (docs/ARCHITECTURE.md, lines 38 to 40).      *)
ClaimIsResolved ==
  \A p \in Proposals : exec[p] = "CLAIMED" ~> exec[p] # "CLAIMED"

(* Every verdict and every recorded outcome reaches the event ledger.      *)
OrderEvents == {"ORDER_SUBMITTED", "ORDER_REJECTED", "ORDER_RECONCILIATION_REQUIRED"}

LedgerCatchesUp ==
  \A p \in Proposals :
    /\ decided[p] = "approve" ~> "PROPOSAL_APPROVED" \in ledger[p]
    /\ exec[p] \in RecordedStates ~> ledger[p] \cap OrderEvents # {}
=============================================================================
