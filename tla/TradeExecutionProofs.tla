------------------------ MODULE TradeExecutionProofs ------------------------
(***************************************************************************)
(* Theorems about TradeExecution, for any number of tickets, lines and     *)
(* processes, any limits and any number of crashes; the two about what a   *)
(* single operator can rely on, for one process and no crash.              *)
(***************************************************************************)
EXTENDS TradeExecution, FiniteSetTheorems, TLAPS

(* The three ways a process moves. *)
LEMMA BeginTyped ==
  ASSUME ProcTypeOK, clock \in Nat, NEW w \in Procs, NEW pc \in Pcs, NEW p \in Proposals,
         NEW note \in Notes, NoteFits(pc, note), Begin(w, pc, p, note)
  PROVE  ProcTypeOK'
BY DEF ProcTypeOK, Begin, Process

(* The types are kept by what moves a single process, by what writes the   *)
(* store, and so by every step.                                            *)
LEMMA GotoTyped ==
  ASSUME ProcTypeOK, NEW w \in Procs, proc[w].pc # "idle", NEW pc \in Pcs, NEW note \in Notes, NoteFits(pc, note),
         Goto(w, pc, note)
  PROVE  ProcTypeOK'
BY DEF ProcTypeOK, Goto, Process

LEMMA FinishTyped ==
  ASSUME ProcTypeOK, NEW w \in Procs, Finish(w)
  PROVE  ProcTypeOK'
BY DEF ProcTypeOK, Finish, Process, Idle, Pcs, Notes, NoteFits

(* The steps that move only the process that takes them.                   *)
QuietMove(w) ==
  /\ \/ \E p \in Proposals : StartPropose(w, p)
     \/ \E p \in Proposals, v \in Verdicts : StartDecide(w, p, v)
     \/ \E p \in Proposals : StartExecute(w, p)
     \/ \E p \in Proposals : StartReconcile(w, p)
     \/ CountTrades(w) \/ CheckDuplicate(w) \/ ReadTicket(w) \/ CheckRisk(w)
     \/ AwaitAnswer(w) \/ LookUpClaim(w) \/ QueryBroker(w)

(* They change nothing else, and keep the types.                           *)
LEMMA QuietFrame ==
  ASSUME NEW w \in Procs, QuietMove(w)
  PROVE  UNCHANGED <<storeVars, brokerVars, envVars>>
BY DEF QuietMove, StartPropose, StartDecide, StartExecute, StartReconcile, CountTrades,
       CheckDuplicate, ReadTicket, CheckRisk, AwaitAnswer, LookUpClaim, QueryBroker

LEMMA QuietTyped ==
  ASSUME TypeOK, NEW w \in Procs, QuietMove(w)
  PROVE  ProcTypeOK'
<1> USE DEF TypeOK, At, NoteFits
<1> {"idle", "decide", "record", "log", "count", "duplicate", "create", "read", "retire",
     "check", "claim", "post", "await", "lookup", "query"} \subseteq Pcs
  BY DEF Pcs, ProposePcs, ExecutePcs, ReconcilePcs
<1> {"none", "blocked"} \cup Verdicts \cup SubmitNotes \cup ReconcileNotes \subseteq Notes
  BY DEF Notes
<1>1. CASE \E p \in Proposals : StartPropose(w, p)
  BY <1>1, BeginTyped DEF StartPropose
<1>2. CASE \E p \in Proposals, v \in Verdicts : StartDecide(w, p, v)
  BY <1>2, BeginTyped DEF StartDecide
<1>3. CASE \E p \in Proposals : StartExecute(w, p)
  BY <1>3, BeginTyped DEF StartExecute
<1>4. CASE \E p \in Proposals : StartReconcile(w, p)
  BY <1>4, BeginTyped DEF StartReconcile
<1>5. CASE CountTrades(w)
  BY <1>5, GotoTyped DEF CountTrades
<1>6. CASE CheckDuplicate(w)
  BY <1>6, GotoTyped, FinishTyped DEF CheckDuplicate
<1>7. CASE ReadTicket(w)
  BY <1>7, GotoTyped, FinishTyped DEF ReadTicket
<1>8. CASE CheckRisk(w)
  BY <1>8, GotoTyped, FinishTyped DEF CheckRisk
<1>9. CASE AwaitAnswer(w)
  BY <1>9, GotoTyped DEF AwaitAnswer, Answers, SubmitNotes
<1>10. CASE LookUpClaim(w)
  BY <1>10, GotoTyped, FinishTyped DEF LookUpClaim
<1>11. CASE QueryBroker(w)
  BY <1>11, GotoTyped, FinishTyped DEF QueryBroker, Findings, ReconcileNotes
<1> QED
  BY <1>1, <1>2, <1>3, <1>4, <1>5, <1>6, <1>7, <1>8, <1>9, <1>10, <1>11 DEF QuietMove

(* Every step is one of these.                                             *)
LEMMA Steps ==
  ASSUME [Next]_vars
  PROVE  \/ \E w \in Procs :
              \/ QuietMove(w) \/ CreateTicket(w) \/ Decide(w) \/ RetireTicket(w)
              \/ Claim(w) \/ Post(w) \/ Record(w) \/ Log(w) \/ Crash(w) \/ CutAnswer(w)
         \/ \E p \in Proposals : Broker(p)
         \/ Tick
         \/ UNCHANGED vars
BY DEF Next, Start, Step, QuietMove

(* Every answer has a row of the right type.                               *)
LEMMA OutcomeTyped ==
  ASSUME NEW note \in SubmitNotes \cup ReconcileNotes
  PROVE  /\ Outcome(note).state \in RecordedStates
         /\ Outcome(note).status \in ProposalStatuses
         /\ Outcome(note).id \in BOOLEAN
         /\ Outcome(note).event \in EventKinds
BY DEF Outcome, Unknown, Row, RecordedStates, ProposalStatuses, EventKinds, SubmitNotes, ReconcileNotes

LEMMA StoreTyped ==
  ASSUME TypeOK, NEW w \in Procs,
         CreateTicket(w) \/ Decide(w) \/ RetireTicket(w) \/ Claim(w) \/ Record(w) \/ Log(w)
  PROVE  StoreTypeOK' /\ ProcTypeOK'
<1> USE DEF TypeOK, StoreTypeOK, At, NoteFits, ticketVars, execVars
<1> {"idle", "log", "post"} \subseteq Pcs
  BY DEF Pcs, ExecutePcs
<1> {"none"} \cup EventKinds \subseteq Notes
  BY DEF Notes
<1>0. proc[w].now \in Nat /\ proc[w].note \in Notes /\ NoteFits(proc[w].pc, proc[w].note)
  BY DEF ProcTypeOK, Process
<1>1. CASE CreateTicket(w)
  <2>1. ProcTypeOK'
    BY <1>1, GotoTyped DEF CreateTicket, EventKinds
  <2> QED
    BY <1>0, <1>1, <2>1 DEF CreateTicket, CreateProposal, ProposalStatuses
<1>2. CASE Decide(w)
  <2>1. ProcTypeOK'
    BY <1>2, GotoTyped, FinishTyped DEF Decide, EventKinds
  <2>2. CASE UNCHANGED ticketVars
    BY <1>2, <2>1, <2>2 DEF Decide
  <2>3. CASE DecideLate(proc[w].p, proc[w].now)
    BY <1>2, <2>1, <2>3 DEF Decide, DecideLate, ProposalStatuses
  <2>4. CASE DecideLive(proc[w].p, proc[w].note, proc[w].now)
    BY <1>0, <1>2, <2>1, <2>4 DEF Decide, DecideLive, ProposalStatuses
  <2> QED
    BY <1>2, <2>2, <2>3, <2>4 DEF Decide
<1>3. CASE RetireTicket(w)
  BY <1>3, FinishTyped DEF RetireTicket, MarkExpired, ProposalStatuses
<1>4. CASE Claim(w)
  <2>1. ProcTypeOK'
    BY <1>4, GotoTyped, FinishTyped DEF Claim
  <2> QED
    BY <1>4, <2>1 DEF Claim, InsertClaim, ExecutionStates
<1>5. CASE Record(w)
  <2> DEFINE row == Outcome(proc[w].note)
  <2>1. /\ row.state \in RecordedStates /\ row.status \in ProposalStatuses
        /\ row.id \in BOOLEAN /\ row.event \in EventKinds
    BY <1>0, <1>5, OutcomeTyped DEF Record
  <2>2. Goto(w, "log", row.event) /\ proc[w].pc # "idle"
    BY <1>5 DEF Record
  <2>3. ProcTypeOK'
    BY <2>1, <2>2, GotoTyped
  <2>4. UpdateExecution(proc[w].p, row.state, proc[w].now, row.id, row.status) /\ UNCHANGED ledger
    BY <1>5 DEF Record
  <2> HIDE DEF row
  <2> QED
    BY <1>0, <2>1, <2>3, <2>4 DEF UpdateExecution, ExecutionStates
<1>6. CASE Log(w)
  <2>1. ProcTypeOK'
    BY <1>6, FinishTyped DEF Log
  <2> QED
    BY <1>0, <1>6, <2>1 DEF Log, AppendEvent
<1> QED
  BY <1>1, <1>2, <1>3, <1>4, <1>5, <1>6

LEMMA InitTyped == Init => TypeOK
BY ExecutionAssumption DEF Init, StoreInit, TypeOK, StoreTypeOK, ProcTypeOK, NoteFits, Process, Idle,
   Pcs, Notes, ExecutionStates, ProposalStatuses, OrderStates, NoTime

LEMMA StepTyped == TypeOK /\ [Next]_vars => TypeOK'
<1> SUFFICES ASSUME TypeOK, [Next]_vars PROVE TypeOK'
  OBVIOUS
<1> USE DEF TypeOK, storeVars, brokerVars, envVars
<1>1. ASSUME NEW w \in Procs, QuietMove(w) PROVE TypeOK'
  BY <1>1, QuietFrame, QuietTyped DEF StoreTypeOK
<1>2. ASSUME NEW w \in Procs,
             CreateTicket(w) \/ Decide(w) \/ RetireTicket(w) \/ Claim(w) \/ Record(w) \/ Log(w)
      PROVE  TypeOK'
  BY <1>2, StoreTyped DEF CreateTicket, Decide, RetireTicket, Claim, Record, Log
<1>3. ASSUME NEW w \in Procs, Post(w) PROVE TypeOK'
  <2>1. ProcTypeOK'
    BY <1>3, GotoTyped DEF Post, At, Pcs, ExecutePcs, Notes, NoteFits
  <2>2. proc[w].now \in Nat /\ proc[w].p \in Proposals
    BY <1>3 DEF Post, At, ProcTypeOK, Process
  <2> QED
    BY <1>3, <2>1, <2>2 DEF Post, StoreTypeOK, OrderStates
<1>4. ASSUME NEW w \in Procs, Crash(w) \/ CutAnswer(w) PROVE TypeOK'
  BY <1>4, FinishTyped DEF Crash, CutAnswer, StoreTypeOK
<1>5. ASSUME NEW p \in Proposals, Broker(p) PROVE TypeOK'
  BY <1>5 DEF Broker, BrokerAnswers, BrokerSettles, OrderStates, StoreTypeOK, ProcTypeOK
<1>6. CASE Tick
  BY <1>6 DEF Tick, StoreTypeOK, ProcTypeOK
<1>7. CASE UNCHANGED vars
  BY <1>7 DEF vars, StoreTypeOK, ProcTypeOK
<1> QED
  BY <1>1, <1>2, <1>3, <1>4, <1>5, <1>6, <1>7, Steps

(* Every variable keeps its type: the states, statuses and events of the   *)
(* schema, and a note that fits the place of each process.                 *)
THEOREM TypeCorrect == Spec => []TypeOK
BY InitTyped, StepTyped, PTL DEF Spec

-----------------------------------------------------------------------------
(* The inductive invariant.  A process is the owner of its ticket from the *)
(* claim until it records the broker's answer, and asks after it while it  *)
(* reconciles; what it remembers of the store and of the broker stays true *)
(* until it uses it.                                                       *)

Proposing(w) == proc[w].pc \in ProposePcs
Owner(w) == proc[w].pc \in {"post", "await"} \/ (At(w, "record") /\ proc[w].note \in SubmitNotes)
Asker(w) == At(w, "query") \/ (At(w, "record") /\ proc[w].note \in ReconcileNotes)

(* What an answer says of the order.                                       *)
Learned(note, p) ==
  /\ note \in {"ACCEPTED", "MISMATCHED", "UNIDENTIFIED", "FOUND_OPEN"} => order[p] \in Held
  /\ note = "REFUSED" => order[p] = "refused"
  /\ note = "FOUND_FILLED" => order[p] = "filled"
  /\ note = "FOUND_DEAD" => order[p] = "cancelled"

Remembers(w) ==
  LET p == proc[w].p IN
  /\ Proposing(w) => status[p] = "NONE"
  /\ proc[w].pc \in {"check", "claim"} => decided[p] = "approve"
  /\ Owner(w) => exec[p] = "CLAIMED"
  /\ At(w, "post") => posts[p] = 0
  /\ Asker(w) => orderId[p]
  /\ At(w, "record") => Learned(proc[w].note, p)
  /\ At(w, "log") => Backed(proc[w].note, p)

Exclusive ==
  \A v, w \in Procs :
    v # w /\ proc[v].p = proc[w].p => ~(Owner(v) /\ Owner(w)) /\ ~(Proposing(v) /\ Proposing(w))

TicketInv ==
  \A p \in Proposals :
    /\ status[p] \in {"NONE", "PENDING"} => decided[p] = "none"
    /\ status[p] = "APPROVED" => decided[p] = "approve"
    /\ exec[p] # "NONE" => decided[p] = "approve"
    /\ exec[p] = "NONE" => posts[p] = 0
    /\ posts[p] <= 1
    /\ posts[p] = 0 <=> order[p] = "none"
    /\ orderId[p] => order[p] \in Held /\ exec[p] \in RecordedStates

StoreInv == TicketInv /\ RowsAgree /\ RecordedFateIsTrue /\ LedgerNeverAhead
ProcInv == (\A w \in Procs : Remembers(w)) /\ Exclusive

IInv == TypeOK /\ StoreInv /\ ProcInv

(* Where each way of moving leaves the processes.                          *)
LEMMA Gone ==
  ASSUME ProcTypeOK, NEW w \in Procs, NEW pc, NEW note, Goto(w, pc, note)
  PROVE  /\ proc'[w].pc = pc /\ proc'[w].p = proc[w].p /\ proc'[w].note = note
         /\ \A v \in Procs \ {w} : proc'[v] = proc[v]
BY DEF ProcTypeOK, Goto

(* Where a process is that has begun or finished.                          *)
LEMMA Begun ==
  ASSUME ProcTypeOK, NEW w \in Procs, NEW pc, NEW p, NEW note, Begin(w, pc, p, note)
  PROVE  /\ proc'[w].pc = pc /\ proc'[w].p = p /\ proc'[w].note = note
         /\ \A v \in Procs \ {w} : proc'[v] = proc[v]
BY DEF ProcTypeOK, Begin

LEMMA Finished ==
  ASSUME ProcTypeOK, NEW w \in Procs, Finish(w)
  PROVE  proc'[w].pc = "idle" /\ \A v \in Procs \ {w} : proc'[v] = proc[v]
BY DEF ProcTypeOK, Finish, Idle

(* A quiet move changes what its own process remembers and nothing else.   *)
LEMMA QuietRemembers ==
  ASSUME IInv, NEW w \in Procs, QuietMove(w)
  PROVE  /\ Remembers(w)'
         /\ \A v \in Procs \ {w} : proc'[v] = proc[v]
         /\ Owner(w)' => Owner(w) /\ proc'[w].p = proc[w].p
         /\ Proposing(w)' => \A v \in Procs \ {w} : Proposing(v) => proc[v].p # proc'[w].p
<1> USE DEF IInv, TypeOK, At, Remembers, Owner, Asker, Proposing, ProposePcs, ProcInv, Exclusive
<1>0. UNCHANGED <<storeVars, brokerVars, envVars>>
  BY QuietFrame
<1> USE <1>0 DEF storeVars, brokerVars
<1>1. CASE \E p \in Proposals : StartPropose(w, p)
  BY <1>1, Begun DEF StartPropose
<1>2. CASE \E p \in Proposals, v \in Verdicts : StartDecide(w, p, v)
  BY <1>2, Begun DEF StartDecide
<1>3. CASE \E p \in Proposals : StartExecute(w, p)
  BY <1>3, Begun DEF StartExecute
<1>4. CASE \E p \in Proposals : StartReconcile(w, p)
  BY <1>4, Begun DEF StartReconcile
<1>5. CASE CountTrades(w)
  BY <1>5, Gone DEF CountTrades
<1>6. CASE CheckDuplicate(w)
  BY <1>6, Gone, Finished DEF CheckDuplicate
<1>7. CASE ReadTicket(w)
  <2>1. Executable(proc[w].p) => decided[proc[w].p] = "approve"
    BY <1>7 DEF ReadTicket, Executable, StoreInv, TicketInv, ProcTypeOK
  <2> QED
    BY <1>7, <2>1, Gone, Finished DEF ReadTicket
<1>8. CASE CheckRisk(w)
  BY <1>8, Gone, Finished DEF CheckRisk
<1>9. CASE AwaitAnswer(w)
  BY <1>9, Gone DEF AwaitAnswer, Answers, SubmitNotes, ReconcileNotes, Learned
<1>10. CASE LookUpClaim(w)
  BY <1>10, Gone, Finished DEF LookUpClaim
<1>11. CASE QueryBroker(w)
  BY <1>11, Gone, Finished DEF QueryBroker, Findings, SubmitNotes, ReconcileNotes, Learned, Held
<1> QED
  BY <1>1, <1>2, <1>3, <1>4, <1>5, <1>6, <1>7, <1>8, <1>9, <1>10, <1>11 DEF QuietMove

(* One lemma per kind of step: what it keeps of the store and of what      *)
(* processes remember.                                                     *)
LEMMA QuietKeeps ==
  ASSUME IInv, NEW w \in Procs, QuietMove(w)
  PROVE  StoreInv' /\ ProcInv'
<1>0. UNCHANGED <<storeVars, brokerVars, envVars>>
  BY QuietFrame
<1>1. StoreInv'
  BY <1>0 DEF IInv, StoreInv, TicketInv, RowsAgree, RecordedFateIsTrue, LedgerNeverAhead, Backed,
              storeVars, brokerVars
<1>2. \A v \in Procs : Remembers(v)'
  BY <1>0, QuietRemembers DEF IInv, ProcInv, Remembers, Owner, Asker, Proposing, At, Learned, Backed,
                              storeVars, brokerVars
<1>3. Exclusive'
  BY QuietRemembers DEF IInv, ProcInv, Exclusive, Owner, Proposing, At
<1> QED
  BY <1>1, <1>2, <1>3 DEF ProcInv

(* The steps that write the store, one by one.                             *)
LEMMA CreateKeeps ==
  ASSUME IInv, NEW w \in Procs, CreateTicket(w)
  PROVE  StoreInv' /\ ProcInv'
<1> DEFINE t == proc[w].p
<1> USE DEF IInv, TypeOK, StoreTypeOK, StoreInv, ProcInv, execVars, brokerVars
<1>0. /\ t \in Proposals /\ status[t] = "NONE" /\ exec[t] = "NONE" /\ decided[t] = "none"
      /\ At(w, "create")
  BY DEF CreateTicket, At, ProcTypeOK, Remembers, Proposing, ProposePcs, TicketInv
<1>1. /\ status' = [status EXCEPT ![t] = "PENDING"]
      /\ UNCHANGED <<decided, execVars, ledger, brokerVars>>
      /\ Goto(w, "log", "PROPOSAL_CREATED")
  BY DEF CreateTicket, CreateProposal
<1> HIDE DEF t
<1>2. /\ proc'[w].pc = "log" /\ proc'[w].p = t /\ proc'[w].note = "PROPOSAL_CREATED"
      /\ \A v \in Procs \ {w} : proc'[v] = proc[v]
  BY <1>1, Gone DEF t
<1>3. StoreInv'
  BY <1>0, <1>1 DEF TicketInv, RowsAgree, RecordedFateIsTrue, LedgerNeverAhead, Backed, RecordedStates
<1>4. Remembers(w)'
  BY <1>0, <1>1, <1>2 DEF Remembers, Proposing, Owner, Asker, At, Backed, ProposePcs
<1>5. \A v \in Procs \ {w} : Remembers(v)'
  BY <1>0, <1>1, <1>2 DEF Remembers, Proposing, Owner, Asker, At, Backed, Learned, Exclusive, t, ProposePcs
<1>6. Exclusive'
  BY <1>2 DEF Exclusive, Proposing, Owner, At, ProposePcs
<1> QED
  BY <1>3, <1>4, <1>5, <1>6

LEMMA DecideKeeps ==
  ASSUME IInv, NEW w \in Procs, Decide(w) \/ RetireTicket(w)
  PROVE  StoreInv' /\ ProcInv'
<1> DEFINE t == proc[w].p
           s == status'[t]
           d == decided'[t]
<1> USE DEF IInv, TypeOK, StoreTypeOK, StoreInv, ProcInv, execVars, brokerVars
<1>0. t \in Proposals /\ ~Proposing(w) /\ ~Owner(w) /\ ~Asker(w)
  BY DEF Decide, RetireTicket, At, ProcTypeOK, Proposing, ProposePcs, Owner, Asker
<1>1. /\ UNCHANGED <<execVars, ledger, brokerVars>>
      /\ \A q \in Proposals \ {t} : status'[q] = status[q] /\ decided'[q] = decided[q]
      /\ \/ status'[t] = status[t] /\ decided'[t] = decided[t] /\ Finish(w)
         \/ status[t] = "PENDING" /\ s = "EXPIRED" /\ d = decided[t] /\ Finish(w)
         \/ status[t] = "APPROVED" /\ s = "EXPIRED" /\ d = decided[t] /\ Finish(w)
         \/ /\ status[t] = "PENDING" /\ s = "APPROVED" /\ d = "approve"
            /\ Goto(w, "log", "PROPOSAL_APPROVED")
         \/ /\ status[t] = "PENDING" /\ s = "REJECTED" /\ d = "reject"
            /\ Goto(w, "log", "PROPOSAL_REJECTED")
  <2>1. CASE RetireTicket(w)
    BY <1>0, <2>1 DEF RetireTicket, MarkExpired, OpenStatuses
  <2>2. CASE Decide(w) /\ UNCHANGED ticketVars
    BY <1>0, <2>2 DEF Decide, ticketVars, DecideLate, DecideLive
  <2>3. CASE Decide(w) /\ DecideLate(t, proc[w].now) /\ Finish(w)
    BY <1>0, <2>3 DEF Decide, DecideLate
  <2>4. CASE /\ Decide(w) /\ DecideLive(t, proc[w].note, proc[w].now)
             /\ Goto(w, "log", IF proc[w].note = "approve" THEN "PROPOSAL_APPROVED"
                                                           ELSE "PROPOSAL_REJECTED")
    BY <1>0, <2>4 DEF Decide, DecideLive, At, ProcTypeOK, NoteFits, Verdicts
  <2> QED
    BY <2>1, <2>2, <2>3, <2>4 DEF Decide
<1> HIDE DEF t, s, d
<1>2. proc'[w].pc \in {"idle", "log"} /\ (\A v \in Procs \ {w} : proc'[v] = proc[v])
  BY <1>1, Gone, Finished
<1>3. StoreInv'
  BY <1>0, <1>1 DEF TicketInv, RowsAgree, RecordedFateIsTrue, LedgerNeverAhead, Backed, RecordedStates,
                    StatusOf, s, d
<1>4. Remembers(w)'
  <2>1. CASE proc'[w].pc = "idle"
    BY ONLY <2>1 DEF Remembers, Proposing, Owner, Asker, At, ProposePcs
  <2>2. CASE proc'[w].pc = "log"
    <3>1. /\ proc'[w].p = t
          /\ \/ proc'[w].note = "PROPOSAL_APPROVED" /\ d = "approve"
             \/ proc'[w].note = "PROPOSAL_REJECTED" /\ d = "reject" /\ status[t] = "PENDING"
      BY <1>1, <2>2, Gone, Finished DEF t
    <3>2. status[t] = "PENDING" => exec'[t] = "NONE"
      BY <1>0, <1>1 DEF TicketInv
    <3>3. Backed(proc[w].note, proc[w].p)'
      BY <3>1, <3>2 DEF Backed, d
    <3> QED
      BY ONLY <2>2, <3>3 DEF Remembers, Proposing, Owner, Asker, At, ProposePcs
  <2> QED
    BY <1>2, <2>1, <2>2
<1>5. \A v \in Procs \ {w} : Remembers(v)'
  BY <1>0, <1>1, <1>2 DEF Remembers, Proposing, Owner, Asker, At, Backed, Learned, ProposePcs, TicketInv, s, d, ProcTypeOK
<1>6. Exclusive'
  BY <1>2 DEF Exclusive, Proposing, Owner, At, ProposePcs
<1> QED
  BY <1>3, <1>4, <1>5, <1>6

LEMMA ClaimKeeps ==
  ASSUME IInv, NEW w \in Procs, Claim(w)
  PROVE  StoreInv' /\ ProcInv'
<1> DEFINE t == proc[w].p
<1> USE DEF IInv, TypeOK, StoreTypeOK, StoreInv, ProcInv, ticketVars, brokerVars
<1>0. t \in Proposals /\ ~Proposing(w) /\ ~Owner(w) /\ decided[t] = "approve"
  BY DEF Claim, At, ProcTypeOK, Proposing, ProposePcs, Owner, Remembers
<1>1. CASE Finish(w) /\ UNCHANGED execVars
  <2>1. proc'[w].pc = "idle" /\ (\A v \in Procs \ {w} : proc'[v] = proc[v])
    BY <1>1, Finished
  <2>2. UNCHANGED <<ticketVars, execVars, ledger, brokerVars>>
    BY <1>1 DEF Claim
  <2>3. StoreInv'
    BY <2>2 DEF TicketInv, RowsAgree, RecordedFateIsTrue, LedgerNeverAhead, Backed, execVars
  <2>4. \A v \in Procs : Remembers(v)'
    BY <2>1, <2>2 DEF Remembers, Proposing, Owner, Asker, At, Backed, Learned, ProposePcs, execVars
  <2>5. Exclusive'
    BY <2>1 DEF Exclusive, Proposing, Owner, At, ProposePcs
  <2> QED
    BY <2>3, <2>4, <2>5
<1>2. CASE exec[t] = "NONE" /\ InsertClaim(t) /\ Goto(w, "post", "none")
  <2>1. /\ proc'[w].pc = "post" /\ proc'[w].p = t
        /\ \A v \in Procs \ {w} : proc'[v] = proc[v]
    BY <1>2, Gone
  <2>2. /\ exec' = [exec EXCEPT ![t] = "CLAIMED"]
        /\ UNCHANGED <<ticketVars, orderId, submittedAt, ledger, brokerVars>>
    BY <1>2 DEF Claim, InsertClaim
  <2>3. posts[t] = 0 /\ ~orderId[t]
    BY <1>0, <1>2 DEF TicketInv, RecordedStates
  <2> HIDE DEF t
  <2>4. StoreInv'
    BY <1>0, <1>2, <2>2, <2>3 DEF TicketInv, RowsAgree, RecordedFateIsTrue, LedgerNeverAhead, Backed, RecordedStates
  <2>5. Remembers(w)'
    BY <1>0, <2>1, <2>2, <2>3 DEF Remembers, Proposing, Owner, Asker, At, ProposePcs
  <2>6. \A v \in Procs \ {w} : Remembers(v)'
    BY <1>0, <1>2, <2>1, <2>2 DEF Remembers, Proposing, Owner, Asker, At, Backed, Learned, ProposePcs, ProcTypeOK
  <2>7. \A v \in Procs \ {w} : proc[v].p = t => ~Owner(v)
    BY <1>2 DEF Remembers
  <2>8. Exclusive'
    BY <2>1, <2>7 DEF Exclusive, Proposing, Owner, At, ProposePcs
  <2> QED
    BY <2>4, <2>5, <2>6, <2>8
<1> QED
  BY <1>1, <1>2 DEF Claim, ClaimIsNew

LEMMA PostKeeps ==
  ASSUME IInv, NEW w \in Procs, Post(w)
  PROVE  StoreInv' /\ ProcInv'
<1> DEFINE t == proc[w].p
<1> USE DEF IInv, TypeOK, StoreTypeOK, StoreInv, ProcInv, storeVars
<1>0. /\ t \in Proposals /\ Owner(w) /\ exec[t] = "CLAIMED" /\ posts[t] = 0 /\ order[t] = "none"
      /\ ~orderId[t]
  BY DEF Post, At, ProcTypeOK, Owner, Remembers, TicketInv, RecordedStates
<1>1. /\ posts' = [posts EXCEPT ![t] = 1] /\ order' = [order EXCEPT ![t] = "sent"]
      /\ Goto(w, "await", "none") /\ UNCHANGED storeVars
  BY <1>0 DEF Post
<1> HIDE DEF t
<1>2. /\ proc'[w].pc = "await" /\ proc'[w].p = t
      /\ \A v \in Procs \ {w} : proc'[v] = proc[v]
  BY <1>1, Gone DEF t
<1>3. StoreInv'
  BY <1>0, <1>1 DEF TicketInv, RowsAgree, RecordedFateIsTrue, LedgerNeverAhead, Backed, RecordedStates, Held
<1>4. Remembers(w)'
  BY <1>0, <1>1, <1>2 DEF Remembers, Proposing, Owner, Asker, At, ProposePcs
<1>5. \A v \in Procs \ {w} : Remembers(v)'
  BY <1>0, <1>1, <1>2 DEF Remembers, Proposing, Owner, Asker, At, Backed, Learned, ProposePcs, Exclusive, t, Held, ProcTypeOK
<1>6. Exclusive'
  BY <1>0, <1>2 DEF Exclusive, Proposing, Owner, At, ProposePcs, t
<1> QED
  BY <1>3, <1>4, <1>5, <1>6

LEMMA RecordKeeps ==
  ASSUME IInv, NEW w \in Procs, Record(w)
  PROVE  StoreInv' /\ ProcInv'
<1> DEFINE t == proc[w].p
           n == proc[w].note
<1> USE DEF IInv, TypeOK, StoreTypeOK, StoreInv, ProcInv, brokerVars
<1>0. /\ t \in Proposals /\ n \in SubmitNotes \cup ReconcileNotes /\ Learned(n, t) /\ ~Proposing(w)
      /\ n \in SubmitNotes => Owner(w) /\ exec[t] = "CLAIMED" /\ ~orderId[t]
      /\ n \in ReconcileNotes => orderId[t] /\ order[t] \in Held /\ exec[t] \in RecordedStates
  BY DEF Record, At, ProcTypeOK, NoteFits, Owner, Asker, Remembers, TicketInv, RecordedStates, Proposing, ProposePcs
<1>1. /\ exec' = [exec EXCEPT ![t] = Outcome(n).state]
      /\ status' = [status EXCEPT ![t] = Outcome(n).status]
      /\ orderId' = [orderId EXCEPT ![t] = @ \/ Outcome(n).id]
      /\ UNCHANGED <<decided, ledger, brokerVars>>
      /\ Goto(w, "log", Outcome(n).event)
  BY DEF Record, UpdateExecution
<1> HIDE DEF t, n
<1>2. /\ proc'[w].pc = "log" /\ proc'[w].p = t /\ proc'[w].note = Outcome(n).event
      /\ \A v \in Procs \ {w} : proc'[v] = proc[v]
  BY <1>1, Gone DEF t
<1>3. /\ exec'[t] = Outcome(n).state /\ status'[t] = Outcome(n).status
      /\ orderId'[t] = (orderId[t] \/ Outcome(n).id)
      /\ \A q \in Proposals \ {t} : exec'[q] = exec[q] /\ status'[q] = status[q] /\ orderId'[q] = orderId[q]
  BY <1>0, <1>1
<1>4. exec[t] # "NONE" /\ decided[t] = "approve"
  BY <1>0 DEF RecordedStates, TicketInv
<1>5. /\ exec'[t] \in RecordedStates /\ status'[t] = StatusOf(exec'[t])
      /\ status'[t] \notin {"NONE", "PENDING", "APPROVED"}
      /\ exec'[t] = "FILLED" => order[t] = "filled"
      /\ exec'[t] = "FAILED" => order[t] \in {"refused", "cancelled"}
      /\ exec'[t] = "SUBMITTED" => order[t] \in Held /\ orderId'[t]
      /\ orderId'[t] => order[t] \in Held
  <2>1. CASE n \in SubmitNotes
    BY <1>0, <1>3, <2>1 DEF Outcome, Unknown, Row, SubmitNotes, Learned, StatusOf, RecordedStates
  <2>2. CASE n \in ReconcileNotes
    BY <1>0, <1>3, <2>2 DEF Outcome, Unknown, Row, ReconcileNotes, Learned, StatusOf, RecordedStates
  <2> QED
    BY <1>0, <2>1, <2>2
<1>6. /\ Outcome(n).event \in {"ORDER_SUBMITTED", "ORDER_RECONCILED_OPEN"} => order[t] \in Held /\ orderId'[t]
      /\ Outcome(n).event = "ORDER_REJECTED" => exec'[t] = "FAILED" /\ order[t] = "refused"
      /\ Outcome(n).event = "ORDER_FILLED" => order[t] = "filled"
      /\ Outcome(n).event = "ORDER_TERMINAL_WITHOUT_FILL" => order[t] = "cancelled"
      /\ Outcome(n).event \notin {"PROPOSAL_CREATED", "PROPOSAL_APPROVED", "PROPOSAL_REJECTED"}
  <2>1. CASE n \in SubmitNotes
    BY <1>0, <1>3, <2>1 DEF Outcome, Unknown, Row, SubmitNotes, Learned
  <2>2. CASE n \in ReconcileNotes
    BY <1>0, <1>3, <2>2 DEF Outcome, Unknown, Row, ReconcileNotes, Learned
  <2> QED
    BY <1>0, <2>1, <2>2
<1>7. \A kind \in EventKinds, q \in Proposals : Backed(kind, q) => Backed(kind, q)'
  <2>1. "ORDER_REJECTED" \in EventKinds /\ "refused" \notin Held
    BY DEF EventKinds, Held
  <2>2. exec[t] = "FAILED" /\ order[t] = "refused" => FALSE
    BY <1>0, <2>1
  <2>3. orderId[t] => orderId'[t]
    BY <1>3
  <2> QED
    BY <1>1, <1>3, <1>4, <1>5, <2>2, <2>3 DEF Backed
<1>8. StoreInv'
  <2>1. TicketInv'
    BY <1>0, <1>1, <1>3, <1>4, <1>5 DEF TicketInv, RecordedStates
  <2>2. RowsAgree' /\ RecordedFateIsTrue'
    BY <1>1, <1>3, <1>5 DEF RowsAgree, RecordedFateIsTrue
  <2>3. LedgerNeverAhead'
    BY <1>1, <1>7 DEF LedgerNeverAhead
  <2> QED
    BY <2>1, <2>2, <2>3
<1>9. Remembers(w)'
  BY <1>1, <1>2, <1>6 DEF Remembers, Proposing, Owner, Asker, At, Backed, ProposePcs
<1>10. ASSUME NEW v \in Procs \ {w} PROVE Remembers(v)'
  <2>1. proc'[v] = proc[v] /\ Remembers(v)
    BY <1>2
  <2>2. proc[v].p = t => ~Proposing(v) /\ ~Owner(v)
    <3>1. status[t] # "NONE"
      BY <1>0, <1>4 DEF TicketInv
    <3>2. exec[t] = "CLAIMED" => Owner(w)
      BY <1>0 DEF RecordedStates
    <3> QED
      BY <2>1, <3>1, <3>2 DEF Remembers, Exclusive, t
  <2>3. At(v, "log") => Backed(proc[v].note, proc[v].p)'
    BY <1>7, <2>1 DEF Remembers, At, ProcTypeOK, NoteFits
  <2>4. Asker(v) => orderId'[proc[v].p]
    BY <1>3, <2>1 DEF Remembers, Asker, At, ProcTypeOK
  <2>5. proc[v].pc # "idle" => proc[v].p \in Proposals
    BY DEF ProcTypeOK
  <2> QED
    BY <1>1, <1>3, <2>1, <2>2, <2>3, <2>4, <2>5 DEF Remembers, Proposing, Owner, Asker, At, Learned, ProposePcs
<1>11. Exclusive'
  BY <1>2 DEF Exclusive, Proposing, Owner, At, ProposePcs
<1> QED
  BY <1>8, <1>9, <1>10, <1>11

LEMMA LogKeeps ==
  ASSUME IInv, NEW w \in Procs, Log(w)
  PROVE  StoreInv' /\ ProcInv'
<1> DEFINE t == proc[w].p
<1> USE DEF IInv, TypeOK, StoreTypeOK, StoreInv, ProcInv, ticketVars, execVars, brokerVars
<1>1. /\ proc'[w].pc = "idle" /\ \A v \in Procs \ {w} : proc'[v] = proc[v]
      /\ UNCHANGED <<ticketVars, execVars, brokerVars>>
      /\ ledger' = [ledger EXCEPT ![t] = @ \cup {proc[w].note}] /\ Backed(proc[w].note, t)
  BY Finished DEF Log, AppendEvent, Remembers
<1>2. StoreInv'
  BY <1>1 DEF TicketInv, RowsAgree, RecordedFateIsTrue, LedgerNeverAhead, Backed
<1>3. ProcInv'
  BY <1>1 DEF Remembers, Exclusive, Proposing, Owner, Asker, At, Learned, Backed, ProposePcs
<1> QED
  BY <1>2, <1>3

LEMMA CrashKeeps ==
  ASSUME IInv, NEW w \in Procs, Crash(w) \/ CutAnswer(w)
  PROVE  StoreInv' /\ ProcInv'
<1> USE DEF IInv, TypeOK, StoreInv, ProcInv, storeVars, brokerVars
<1>1. /\ proc'[w].pc = "idle" /\ \A v \in Procs \ {w} : proc'[v] = proc[v]
      /\ UNCHANGED <<storeVars, brokerVars>>
  BY Finished DEF Crash, CutAnswer
<1>2. StoreInv'
  BY <1>1 DEF TicketInv, RowsAgree, RecordedFateIsTrue, LedgerNeverAhead, Backed
<1>3. ProcInv'
  BY <1>1 DEF Remembers, Exclusive, Proposing, Owner, Asker, At, Learned, Backed, ProposePcs
<1> QED
  BY <1>2, <1>3

(* What the store and the processes know of an order survives the broker.  *)
LEMMA BrokerTurns ==
  ASSUME TypeOK, NEW p \in Proposals, Broker(p), NEW q \in Proposals
  PROVE  \/ order'[q] = order[q]
         \/ order[q] = "sent" /\ order'[q] \in {"open", "refused"}
         \/ order[q] = "open" /\ order'[q] \in {"filled", "cancelled"}
BY DEF TypeOK, Broker, BrokerAnswers, BrokerSettles

(* What the broker has turned an order into backs what was learned of it   *)
(* before.                                                                 *)
LEMMA BrokerBacks ==
  ASSUME TypeOK, NEW p \in Proposals, Broker(p), NEW q \in Proposals, NEW kind, Backed(kind, q)
  PROVE  Backed(kind, q)'
<1>1. UNCHANGED <<status, decided, exec, orderId>>
  BY DEF Broker, storeVars
<1> QED
  BY <1>1, BrokerTurns DEF Backed, Held

LEMMA BrokerTeaches ==
  ASSUME TypeOK, NEW p \in Proposals, Broker(p), NEW q \in Proposals, NEW note, Learned(note, q)
  PROVE  Learned(note, q)'
BY BrokerTurns DEF Learned, Held

LEMMA BrokerKeeps ==
  ASSUME IInv, NEW p \in Proposals, Broker(p)
  PROVE  StoreInv' /\ ProcInv'
<1> USE DEF IInv, StoreInv, ProcInv
<1>1. UNCHANGED <<storeVars, proc, posts>>
  BY DEF Broker
<1>2. \A q \in Proposals :
        \/ order'[q] = order[q]
        \/ order[q] = "sent" /\ order'[q] \in {"open", "refused"}
        \/ order[q] = "open" /\ order'[q] \in {"filled", "cancelled"}
  BY BrokerTurns
<1>3. StoreInv'
  <2>1. TicketInv'
    BY <1>1, <1>2 DEF TicketInv, storeVars, Held
  <2>2. RowsAgree'
    BY <1>1 DEF RowsAgree, storeVars
  <2>3. RecordedFateIsTrue'
    BY <1>1, <1>2 DEF RecordedFateIsTrue, storeVars, Held
  <2>4. LedgerNeverAhead'
    BY <1>1, BrokerBacks DEF LedgerNeverAhead, storeVars
  <2> QED
    BY <2>1, <2>2, <2>3, <2>4
<1>4. ASSUME NEW w \in Procs PROVE Remembers(w)'
  <2>1. proc[w].pc # "idle" => proc[w].p \in Proposals
    BY DEF TypeOK, ProcTypeOK
  <2>2. At(w, "record") => Learned(proc[w].note, proc[w].p)'
    BY <1>1, <2>1, BrokerTeaches DEF Remembers, At
  <2>3. At(w, "log") => Backed(proc[w].note, proc[w].p)'
    BY <1>1, <2>1, BrokerBacks DEF Remembers, At
  <2> QED
    BY <1>1, <2>2, <2>3 DEF Remembers, Proposing, Owner, Asker, At, storeVars
<1>5. Exclusive'
  BY <1>1 DEF Exclusive, Owner, Proposing, At
<1> QED
  BY <1>3, <1>4, <1>5

(* The invariant is inductive.                                             *)
THEOREM Invariance == Spec => []IInv
<1>1. Init => IInv
  <2> SUFFICES ASSUME Init PROVE IInv
    OBVIOUS
  <2>1. TypeOK
    BY InitTyped
  <2>2. StoreInv
    BY DEF Init, StoreInit, StoreInv, TicketInv, RowsAgree, RecordedFateIsTrue, LedgerNeverAhead, RecordedStates
  <2>3. ProcInv
    BY DEF Init, Idle, ProcInv, Remembers, Exclusive, Proposing, Owner, Asker, At, ProposePcs
  <2> QED
    BY <2>1, <2>2, <2>3 DEF IInv
<1>2. IInv /\ [Next]_vars => IInv'
  <2> SUFFICES ASSUME IInv, [Next]_vars PROVE IInv'
    OBVIOUS
  <2>1. TypeOK'
    BY StepTyped DEF IInv
  <2>2. ASSUME Tick \/ UNCHANGED vars PROVE StoreInv' /\ ProcInv'
    <3>1. UNCHANGED <<storeVars, proc, brokerVars>>
      BY <2>2 DEF Tick, vars, brokerVars
    <3> QED
      BY <3>1 DEF IInv, StoreInv, ProcInv, TicketInv, RowsAgree, RecordedFateIsTrue, LedgerNeverAhead, Backed,
         Remembers, Exclusive, Proposing, Owner, Asker, At, Learned, storeVars, brokerVars
  <2>3. StoreInv' /\ ProcInv'
    BY <2>2, Steps, QuietKeeps, CreateKeeps, DecideKeeps, ClaimKeeps, PostKeeps, RecordKeeps, LogKeeps,
       CrashKeeps, BrokerKeeps
  <2> QED
    BY <2>1, <2>3 DEF IInv
<1> QED
  BY <1>1, <1>2, PTL DEF Spec

(* A ticket is POSTed at most once: two owners of one claim exclude each   *)
(* other, and a claim outlives the process that took it.                   *)
THEOREM SinglePost == Spec => []AtMostOnePost
<1>1. IInv => AtMostOnePost
  BY DEF IInv, StoreInv, TicketInv, AtMostOnePost
<1> QED
  BY <1>1, Invariance, PTL

(* Every order was approved by a human, and the approval still stands.     *)
THEOREM OrdersHaveConsent == Spec => []ConsentBeforePost
<1>1. IInv => ConsentBeforePost
  BY DEF IInv, StoreInv, TicketInv, ConsentBeforePost, TypeOK
<1> QED
  BY <1>1, Invariance, PTL

(* The rows of a ticket agree, and what the store and the event ledger say *)
(* of its order is true.                                                   *)
THEOREM StoreIsTruthful == Spec => []StoreIsTrue
<1>1. IInv => StoreIsTrue
  BY DEF IInv, StoreInv, StoreIsTrue
<1> QED
  BY <1>1, Invariance, PTL

-----------------------------------------------------------------------------
(* One operator at a time: the properties that two invocations, or one     *)
(* that dies between the order and its record, can break.  Whatever is     *)
(* read stays true until it is used, because nobody else writes.           *)

Alone(w) == Procs = {w} /\ MaxCrashes = 0 /\ MaxCuts = 0

(* The time that the only process goes by.                                 *)
GoesBy(w) == IF At(w, "idle") THEN clock ELSE proc[w].now

(* No order was posted later than that.                                    *)
Punctual(w) ==
  /\ proc[w].now <= clock
  /\ \A p \in Proposals : postedAt[p] <= GoesBy(w) /\ (posts[p] > 0 => postedAt[p] \in Nat)

(* A claim whose outcome is not recorded is being worked on.               *)
InHand(w) == \A p \in Proposals : exec[p] = "CLAIMED" => proc[w].p = p /\ Owner(w)

(* An order that was not refused counts from when it was posted on.        *)
Stamped == {p \in Proposals : submittedAt[p] # NoTime}

Counted ==
  /\ IsFiniteSet(Stamped)
  /\ \A p \in Proposals :
       exec[p] \in RecordedStates =>
         order[p] = "refused" \/ (p \in Stamped /\ submittedAt[p] >= postedAt[p])

StillTrue(w) ==
  LET p == proc[w].p  now == proc[w].now IN
  /\ At(w, "create") => ~HasOpenDuplicate(LineOf[p], now)
  /\ proc[w].pc \in {"check", "claim"} \/ Owner(w) => status[p] = "APPROVED" /\ now < Expires(p)
  /\ proc[w].pc \in {"claim", "post"} => TradesThisWeek(now) < WeeklyLimit
  /\ At(w, "record") /\ proc[w].note = "FOUND_OPEN" => exec[p] \in {"SUBMITTED", "UNKNOWN"}

(* At most one ticket of a line blocks the others.                         *)
OneOpen(w) ==
  \A p, q \in Proposals :
    p # q /\ LineOf[p] = LineOf[q] => ~(Blocks(p, GoesBy(w)) /\ Blocks(q, GoesBy(w)))

AloneInv(w) == Punctual(w) /\ InHand(w) /\ Counted /\ StillTrue(w) /\ OneOpen(w) /\ WeeklyCap

(* Weeks begin no later than any of their moments.                         *)
LEMMA MondayIs ==
  ASSUME NEW t \in Nat
  PROVE  Monday(t) \in Int /\ Monday(t) <= t
<1>1. t % WeekLength \in 0..(WeekLength - 1)
  BY StoreAssumption
<1> QED
  BY <1>1, StoreAssumption DEF Monday

(* What may happen beside an only process: nothing that another process    *)
(* does, no death, and no unreadable answer.                               *)
StoreMove(w) ==
  CreateTicket(w) \/ Decide(w) \/ RetireTicket(w) \/ Claim(w) \/ Record(w) \/ Log(w)

LEMMA AloneSteps ==
  ASSUME NEW w, Alone(w), TypeOK, [Next]_vars
  PROVE  \/ QuietMove(w) \/ StoreMove(w) \/ Post(w)
         \/ (\E p \in Proposals : Broker(p)) \/ Tick \/ UNCHANGED vars
<1>1. ASSUME NEW v \in Procs, Crash(v) \/ CutAnswer(v) PROVE FALSE
  BY <1>1 DEF Alone, Crash, CutAnswer, TypeOK
<1> QED
  BY <1>1, Steps DEF Alone, StoreMove

(* The time that it goes by never runs back, and is never ahead.           *)
LEMMA TimeGoesOn ==
  ASSUME NEW w, Alone(w), TypeOK, proc[w].now <= clock, [Next]_vars
  PROVE  /\ proc'[w].now <= clock'
         /\ GoesBy(w) \in Nat /\ GoesBy(w)' \in Nat /\ GoesBy(w) <= GoesBy(w)'
<1>1. /\ w \in Procs /\ proc \in [Procs -> Process] /\ clock \in Nat
      /\ proc[w] \in Process /\ proc[w].now \in Nat
  BY DEF Alone, TypeOK, ProcTypeOK, Process
<1>2. CASE proc' = proc /\ clock' \in Nat /\ clock <= clock'
  BY <1>1, <1>2 DEF GoesBy, At
<1>3. CASE clock' = clock /\ At(w, "idle") /\ \E pc \in Pcs \ {"idle"} : \E p, note : Begin(w, pc, p, note)
  BY <1>1, <1>3 DEF GoesBy, At, Begin
<1>4. CASE clock' = clock /\ ~At(w, "idle") /\ \E pc \in Pcs \ {"idle"} : \E note : Goto(w, pc, note)
  BY <1>1, <1>4 DEF GoesBy, At, Goto
<1>5. CASE clock' = clock /\ ~At(w, "idle") /\ Finish(w)
  BY <1>1, <1>5 DEF GoesBy, At, Finish, Idle
<1>6. CASE Tick \/ (\E p \in Proposals : Broker(p)) \/ UNCHANGED vars
  BY <1>1, <1>2, <1>6 DEF Tick, Broker, envVars, vars
<1>7. Pcs \ {"idle"} = {"decide", "record", "log", "count", "duplicate", "create", "read", "retire",
                        "check", "claim", "post", "await", "lookup", "query"}
  BY DEF Pcs, ProposePcs, ExecutePcs, ReconcilePcs
<1>8. CASE QuietMove(w)
  <2>1. clock' = clock
    BY <1>8, QuietFrame, <1>1 DEF envVars
  <2> QED
    BY <1>3, <1>4, <1>5, <1>7, <1>8, <2>1
       DEF QuietMove, StartPropose, StartDecide, StartExecute, StartReconcile, CountTrades,
           CheckDuplicate, ReadTicket, CheckRisk, AwaitAnswer, LookUpClaim, QueryBroker, At, Begin
<1>9. CASE StoreMove(w) \/ Post(w)
  <2>1. clock' = clock
    BY <1>9 DEF StoreMove, Post, CreateTicket, Decide, RetireTicket, Claim, Record, Log, envVars
  <2> QED
    BY <1>4, <1>5, <1>7, <1>9, <2>1
       DEF StoreMove, Post, CreateTicket, Decide, RetireTicket, Claim, Record, Log, At
<1> QED
  BY <1>6, <1>8, <1>9, AloneSteps

(* What blocked its line at some time blocked it before.                   *)
LEMMA BlockedBefore ==
  ASSUME TypeOK, NEW p \in Proposals, NEW t \in Nat, NEW u \in Nat, t <= u, Blocks(p, u)
  PROVE  Blocks(p, t)
<1>1. Expires(p) \in Int
  BY StoreAssumption DEF TypeOK, StoreTypeOK, Expires, NoTime
<1> QED
  BY <1>1 DEF Blocks

(* A line stays free while no ticket begins to block it.                   *)
LEMMA LinesStayFree ==
  ASSUME NEW w, OneOpen(w),
         \A p \in Proposals : Blocks(p, GoesBy(w))' => Blocks(p, GoesBy(w))
  PROVE  OneOpen(w)'
BY DEF OneOpen

(* The trades are the stamped tickets, and perhaps the one in hand.        *)
LEMMA TradesAre ==
  ASSUME IInv, NEW w, InHand(w), Counted, NEW p \in Proposals, Traded(p)
  PROVE  p = proc[w].p \/ (p \in Stamped /\ submittedAt[p] >= postedAt[p])
<1>1. posts[p] # 0 /\ order[p] # "none" /\ order[p] # "refused"
  BY DEF IInv, StoreInv, TicketInv, TypeOK, Traded
<1>2. exec[p] # "NONE" /\ exec[p] \in ExecutionStates
  BY <1>1 DEF IInv, StoreInv, TicketInv, TypeOK, StoreTypeOK
<1> QED
  BY <1>1, <1>2 DEF Counted, InHand, ExecutionStates

LEMMA TradesAreFinite ==
  ASSUME IInv, NEW w, InHand(w), Counted
  PROVE  IsFiniteSet({p \in Proposals : Traded(p)})
<1>1. IsFiniteSet(Stamped \cup {proc[w].p})
  BY FS_AddElement DEF Counted
<1>2. {p \in Proposals : Traded(p)} \subseteq Stamped \cup {proc[w].p}
  BY TradesAre
<1> QED
  BY <1>1, <1>2, FS_Subset

(* The week's trades.                                                      *)
InWeek(m) == {q \in Proposals : Traded(q) /\ Monday(postedAt[q]) = m}

LEMMA CapIs == WeeklyCap <=> \A p \in Proposals :
                 Traded(p) => Cardinality(InWeek(Monday(postedAt[p]))) <= WeeklyLimit
BY DEF WeeklyCap, InWeek

LEMMA CapIsAfter == WeeklyCap' <=> \A p \in Proposals :
                      Traded(p)' => Cardinality(InWeek(Monday(postedAt[p]))') <= WeeklyLimit
BY DEF WeeklyCap, InWeek

(* The cap stands while nothing is posted.                                 *)
LEMMA CapStays ==
  ASSUME IInv, NEW w, InHand(w), Counted, WeeklyCap, postedAt' = postedAt,
         \A p \in Proposals : Traded(p)' => Traded(p)
  PROVE  WeeklyCap'
<1> SUFFICES ASSUME NEW p \in Proposals, Traded(p)'
             PROVE  Cardinality(InWeek(Monday(postedAt[p]))') <= WeeklyLimit
  BY CapIsAfter
<1>1. PICK m : m = Monday(postedAt[p])
  OBVIOUS
<1>2. InWeek(m)' \subseteq InWeek(m)
  BY DEF InWeek, Monday
<1>3. IsFiniteSet(InWeek(m))
  BY TradesAreFinite, FS_Subset DEF InWeek
<1>4. Cardinality(InWeek(m)) <= WeeklyLimit
  BY <1>1, CapIs
<1>5. Cardinality(InWeek(m))' <= Cardinality(InWeek(m)) /\ Cardinality(InWeek(m)) \in Nat /\ Cardinality(InWeek(m))' \in Nat
  BY <1>2, <1>3, FS_Subset, FS_CardinalityType
<1>6. InWeek(m)' = InWeek(Monday(postedAt[p]))'
  BY <1>1 DEF InWeek
<1> QED
  BY <1>4, <1>5, <1>6, ExecutionAssumption

(* Time only gets further from the posts there are.                        *)
LEMMA StaysPunctual ==
  ASSUME NEW w, Alone(w), TypeOK, Punctual(w), [Next]_vars, UNCHANGED <<posts, postedAt>>
  PROVE  Punctual(w)'
<1>1. /\ proc'[w].now <= clock' /\ GoesBy(w) \in Nat /\ GoesBy(w)' \in Nat
      /\ GoesBy(w) <= GoesBy(w)'
  BY TimeGoesOn DEF Punctual
<1>2. ASSUME NEW p \in Proposals
      PROVE  postedAt'[p] <= GoesBy(w)' /\ (posts'[p] > 0 => postedAt'[p] \in Nat)
  <2>1. postedAt[p] \in Int /\ postedAt[p] <= GoesBy(w) /\ (posts[p] > 0 => postedAt[p] \in Nat)
    BY DEF Punctual, TypeOK, NoTime
  <2> QED
    BY <1>1, <2>1
<1> QED
  BY <1>1, <1>2 DEF Punctual

(* What none of the steps that leave store and broker alone can break.     *)
LEMMA NothingWritten ==
  ASSUME IInv, NEW w, Alone(w), AloneInv(w), [Next]_vars, UNCHANGED <<storeVars, brokerVars>>
  PROVE  Punctual(w)' /\ Counted' /\ OneOpen(w)' /\ WeeklyCap'
<1>1. /\ UNCHANGED <<status, createdAt, exec, submittedAt, order, posts, postedAt>>
      /\ Punctual(w) /\ InHand(w) /\ Counted /\ OneOpen(w) /\ WeeklyCap /\ TypeOK
  BY DEF storeVars, brokerVars, AloneInv, IInv
<1>2. /\ proc'[w].now <= clock' /\ GoesBy(w) \in Nat /\ GoesBy(w)' \in Nat
      /\ GoesBy(w) <= GoesBy(w)'
  BY <1>1, TimeGoesOn DEF Punctual
<1>3. Punctual(w)'
  BY <1>1, StaysPunctual
<1>4. Counted'
  BY <1>1 DEF Counted, Stamped
<1>5. OneOpen(w)'
  <2>1. PICK t \in Nat : t = GoesBy(w)
    BY <1>2
  <2>2. PICK u \in Nat : u = GoesBy(w)'
    BY <1>2
  <2>3. ASSUME NEW p \in Proposals, Blocks(p, u) PROVE Blocks(p, t)
    BY <1>1, <1>2, <2>1, <2>2, <2>3, BlockedBefore
  <2>4. \A p \in Proposals : Blocks(p, GoesBy(w))' => Blocks(p, u)
    BY <1>1, <2>2 DEF Blocks, Expires
  <2> QED
    BY <1>1, <2>1, <2>3, <2>4, LinesStayFree
<1>6. WeeklyCap'
  BY <1>1, CapStays DEF Traded
<1> QED
  BY <1>3, <1>4, <1>5, <1>6

(* One lemma per kind of step.                                             *)
LEMMA AloneQuiet ==
  ASSUME IInv, NEW w, Alone(w), AloneInv(w), QuietMove(w), [Next]_vars
  PROVE  AloneInv(w)'
<1> DEFINE p == proc[w].p
           now == proc[w].now
<1>1. UNCHANGED <<storeVars, brokerVars, envVars>> /\ w \in Procs
  BY QuietFrame DEF Alone
<1>2. Punctual(w)' /\ Counted' /\ OneOpen(w)' /\ WeeklyCap'
  BY <1>1, NothingWritten
<1>3. /\ UNCHANGED <<status, createdAt, exec, submittedAt, orderId, order>>
      /\ TypeOK /\ ProcTypeOK /\ InHand(w) /\ StillTrue(w) /\ StoreInv
  BY <1>1 DEF storeVars, brokerVars, AloneInv, IInv, TypeOK
<1>4. CASE \/ \E q \in Proposals : StartPropose(w, q)
           \/ \E q \in Proposals, v \in Verdicts : StartDecide(w, q, v)
           \/ \E q \in Proposals : StartExecute(w, q)
           \/ \E q \in Proposals : StartReconcile(w, q)
  <2>1. At(w, "idle") /\ proc'[w].pc \in {"count", "decide", "read", "lookup"}
    BY <1>1, <1>3, <1>4, Begun DEF StartPropose, StartDecide, StartExecute, StartReconcile, Begin
  <2> QED
    BY <1>2, <1>3, <2>1 DEF AloneInv, InHand, StillTrue, Owner, At
<1>5. CASE proc'[w].pc \in {"idle", "duplicate", "retire", "query"} /\ ~Owner(w)
  BY <1>2, <1>3, <1>5 DEF AloneInv, InHand, StillTrue, Owner, At
<1>6. CASE CountTrades(w) \/ LookUpClaim(w)
  BY <1>1, <1>3, <1>5, <1>6, Gone, Finished DEF CountTrades, LookUpClaim, Owner, At
<1>7. CASE CheckDuplicate(w)
  <2>1. CASE Finish(w)
    BY <1>1, <1>3, <1>5, <1>7, <2>1, Finished DEF CheckDuplicate, Owner, At
  <2>2. CASE Goto(w, "create", "none") /\ ~HasOpenDuplicate(LineOf[p], now)
    <3>1. proc'[w].pc = "create" /\ proc'[w].p = p /\ proc'[w].now = now
      BY <1>1, <1>3, <2>2 DEF Goto, ProcTypeOK
    <3>2. StillTrue(w)'
      BY <1>3, <2>2, <3>1 DEF StillTrue, Owner, At, HasOpenDuplicate, Blocks, Expires
    <3>3. InHand(w)'
      BY <1>3, <1>7 DEF InHand, CheckDuplicate, Owner, At
    <3> QED
      BY <1>2, <3>2, <3>3 DEF AloneInv
  <2> QED
    BY <1>7, <2>1, <2>2 DEF CheckDuplicate
<1>8. CASE ReadTicket(w)
  <2>1. CASE Finish(w) \/ Goto(w, "retire", "none")
    BY <1>1, <1>3, <1>5, <1>8, <2>1, Gone, Finished DEF ReadTicket, Owner, At
  <2>2. CASE Goto(w, "check", "none") /\ Executable(p) /\ now < Expires(p)
    <3>1. proc'[w].pc = "check" /\ proc'[w].p = p /\ proc'[w].now = now
      BY <1>1, <1>3, <2>2 DEF Goto, ProcTypeOK
    <3>2. StillTrue(w)'
      BY <1>3, <2>2, <3>1 DEF StillTrue, Owner, At, Executable, Expires
    <3>3. InHand(w)'
      BY <1>3, <1>8 DEF InHand, ReadTicket, Owner, At
    <3> QED
      BY <1>2, <3>2, <3>3 DEF AloneInv
  <2> QED
    BY <1>8, <2>1, <2>2 DEF ReadTicket
<1>9. CASE CheckRisk(w)
  <2>1. CASE Finish(w)
    BY <1>1, <1>3, <1>5, <1>9, <2>1, Finished DEF CheckRisk, Owner, At
  <2>2. CASE Goto(w, "claim", "none") /\ TradesThisWeek(now) < WeeklyLimit
    <3>1. proc'[w].pc = "claim" /\ proc'[w].p = p /\ proc'[w].now = now
      BY <1>1, <1>3, <2>2 DEF Goto, ProcTypeOK
    <3>2. StillTrue(w)'
      BY <1>3, <1>9, <2>2, <3>1 DEF StillTrue, CheckRisk, Owner, At, Expires, TradesThisWeek
    <3>3. InHand(w)'
      BY <1>3, <1>9 DEF InHand, CheckRisk, Owner, At
    <3> QED
      BY <1>2, <3>2, <3>3 DEF AloneInv
  <2> QED
    BY <1>9, <2>1, <2>2 DEF CheckRisk
<1>10. CASE AwaitAnswer(w)
  <2>1. /\ proc'[w].pc = "record" /\ proc'[w].p = p /\ proc'[w].now = now
        /\ proc'[w].note \in SubmitNotes
    BY <1>1, <1>3, <1>10 DEF AwaitAnswer, Answers, SubmitNotes, Goto, ProcTypeOK
  <2>2. Owner(w)' /\ Owner(w) /\ proc'[w].note # "FOUND_OPEN"
    BY <1>10, <2>1 DEF Owner, At, AwaitAnswer, SubmitNotes
  <2>3. StillTrue(w)'
    BY <1>3, <2>1, <2>2 DEF StillTrue, At, Expires
  <2>4. InHand(w)'
    BY <1>3, <2>1, <2>2 DEF InHand
  <2> QED
    BY <1>2, <2>3, <2>4 DEF AloneInv
<1>11. CASE QueryBroker(w)
  <2>1. CASE Finish(w)
    BY <1>1, <1>3, <1>5, <1>11, <2>1, Finished DEF QueryBroker, Owner, At
  <2>2. CASE \E found \in Findings(order[p]) : Goto(w, "record", found)
    <3>1. PICK found \in Findings(order[p]) :
            /\ proc'[w].pc = "record" /\ proc'[w].p = p /\ proc'[w].now = now
            /\ proc'[w].note = found
      BY <1>1, <1>3, <2>2 DEF Goto, ProcTypeOK
    <3>2. found \in ReconcileNotes /\ (found = "FOUND_OPEN" => order[p] = "open")
      BY DEF Findings, ReconcileNotes
    <3>3. p \in Proposals /\ orderId[p]
      BY <1>1, <1>11 DEF QueryBroker, At, IInv, TypeOK, ProcTypeOK, ProcInv, Remembers, Asker
    <3>4. found = "FOUND_OPEN" => exec[p] \in {"SUBMITTED", "UNKNOWN"}
      BY <1>3, <3>2, <3>3 DEF StoreInv, TicketInv, RecordedFateIsTrue, RecordedStates
    <3>5. ~Owner(w)' /\ ~Owner(w)
      BY <1>11, <3>1, <3>2 DEF Owner, At, QueryBroker, SubmitNotes, ReconcileNotes
    <3>6. StillTrue(w)'
      BY <1>3, <3>1, <3>4, <3>5 DEF StillTrue, At
    <3>7. InHand(w)'
      BY <1>3, <3>5 DEF InHand
    <3> QED
      BY <1>2, <3>6, <3>7 DEF AloneInv
  <2> QED
    BY <1>11, <2>1, <2>2 DEF QueryBroker
<1> QED
  BY <1>4, <1>6, <1>7, <1>8, <1>9, <1>10, <1>11 DEF QuietMove

LEMMA AloneSurroundings ==
  ASSUME IInv, NEW w, Alone(w), AloneInv(w), [Next]_vars,
         Tick \/ (\E p \in Proposals : Broker(p)) \/ UNCHANGED vars
  PROVE  AloneInv(w)'
<1>1. /\ UNCHANGED <<status, createdAt, exec, submittedAt, posts, postedAt, proc>>
      /\ TypeOK /\ InHand(w) /\ StillTrue(w) /\ Punctual(w) /\ Counted /\ OneOpen(w) /\ WeeklyCap
  BY DEF Tick, Broker, vars, storeVars, brokerVars, AloneInv, IInv
<1>2. InHand(w)' /\ StillTrue(w)'
  BY <1>1 DEF InHand, StillTrue, Owner, At, HasOpenDuplicate, Blocks, Expires, TradesThisWeek
<1>3. CASE Tick \/ UNCHANGED vars
  BY <1>2, <1>3, NothingWritten DEF Tick, vars, brokerVars, AloneInv
<1>4. CASE \E p \in Proposals : Broker(p)
  <2>1. \A q \in Proposals : /\ order[q] = "refused" => order'[q] = "refused"
                             /\ Traded(q)' => Traded(q)
    BY <1>1, <1>4, BrokerTurns DEF Traded
  <2>2. clock' = clock
    BY <1>4 DEF Broker, envVars
  <2>3. Punctual(w)' /\ OneOpen(w)'
    BY <1>1, <2>2 DEF Punctual, OneOpen, GoesBy, At, Blocks, Expires
  <2>4. Counted'
    BY <1>1, <2>1 DEF Counted, Stamped
  <2>5. WeeklyCap'
    BY <1>1, <2>1, CapStays
  <2> QED
    BY <1>2, <2>3, <2>4, <2>5 DEF AloneInv
<1> QED
  BY <1>3, <1>4

LEMMA AloneCreate ==
  ASSUME IInv, NEW w, Alone(w), AloneInv(w), CreateTicket(w), [Next]_vars
  PROVE  AloneInv(w)'
<1>1. PICK t \in Proposals : t = proc[w].p
  BY DEF CreateTicket, At, Alone, IInv, TypeOK, ProcTypeOK
<1>2. PICK now \in Nat : now = proc[w].now
  BY DEF Alone, IInv, TypeOK, ProcTypeOK, Process
<1>3. /\ TypeOK /\ ProcTypeOK /\ w \in Procs /\ At(w, "create")
      /\ InHand(w) /\ StillTrue(w) /\ Punctual(w) /\ Counted /\ OneOpen(w) /\ WeeklyCap
      /\ status[t] = "NONE"
  BY <1>1 DEF CreateTicket, Alone, AloneInv, IInv, TypeOK, ProcInv, Remembers, Proposing, ProposePcs, At
<1>4. /\ status' = [status EXCEPT ![t] = "PENDING"] /\ createdAt' = [createdAt EXCEPT ![t] = now]
      /\ UNCHANGED <<exec, submittedAt, order, posts, postedAt, clock>>
      /\ Goto(w, "log", "PROPOSAL_CREATED")
  BY <1>1, <1>2 DEF CreateTicket, CreateProposal, execVars, brokerVars, envVars
<1>5. proc'[w].pc = "log" /\ proc'[w].p = t /\ proc'[w].now = now
  BY <1>1, <1>2, <1>3, <1>4 DEF Goto, ProcTypeOK
<1>6. GoesBy(w) = now /\ GoesBy(w)' = now
  BY <1>2, <1>3, <1>5 DEF GoesBy, At
<1>7. ~Owner(w) /\ ~Owner(w)'
  BY <1>3, <1>5 DEF Owner, At
<1>8. Punctual(w)' /\ InHand(w)' /\ Counted'
  BY <1>2, <1>3, <1>4, <1>5, <1>6, <1>7 DEF Punctual, InHand, Counted, Stamped
<1>9. StillTrue(w)'
  BY <1>5, <1>7 DEF StillTrue, At
<1>10. OneOpen(w)'
  <2>1. \A q \in Proposals : LineOf[q] = LineOf[t] => ~Blocks(q, now)
    BY <1>1, <1>2, <1>3 DEF StillTrue, HasOpenDuplicate
  <2>2. ASSUME NEW q \in Proposals, q # t PROVE Blocks(q, GoesBy(w))' <=> Blocks(q, now)
    BY <1>3, <1>4, <1>6, <2>2 DEF Blocks, Expires, TypeOK, StoreTypeOK
  <2>3. ASSUME NEW p \in Proposals, NEW q \in Proposals, p # q, LineOf[p] = LineOf[q]
        PROVE  ~(Blocks(p, GoesBy(w))' /\ Blocks(q, GoesBy(w))')
    <3>1. CASE p = t
      BY <2>1, <2>2, <2>3, <3>1
    <3>2. CASE q = t
      BY <2>1, <2>2, <2>3, <3>2
    <3>3. CASE p # t /\ q # t
      BY <1>3, <1>6, <2>2, <2>3, <3>3 DEF OneOpen
    <3> QED
      BY <3>1, <3>2, <3>3
  <2> QED
    BY <2>3 DEF OneOpen
<1>11. WeeklyCap'
  BY <1>3, <1>4, CapStays DEF Traded
<1> QED
  BY <1>8, <1>9, <1>10, <1>11 DEF AloneInv

(* A verdict, an expiry and an event close no line, and open none.         *)
LEMMA AloneDecide ==
  ASSUME IInv, NEW w, Alone(w), AloneInv(w), Decide(w) \/ RetireTicket(w) \/ Log(w), [Next]_vars
  PROVE  AloneInv(w)'
<1>1. PICK t \in Proposals : t = proc[w].p
  BY DEF Decide, RetireTicket, Log, At, Alone, IInv, TypeOK, ProcTypeOK
<1>2. /\ TypeOK /\ ProcTypeOK /\ w \in Procs /\ proc[w].pc \in {"decide", "retire", "log"}
      /\ InHand(w) /\ StillTrue(w) /\ Punctual(w) /\ Counted /\ OneOpen(w) /\ WeeklyCap
  BY DEF Decide, RetireTicket, Log, Alone, AloneInv, IInv, TypeOK, At
<1>3. UNCHANGED <<createdAt, exec, submittedAt, order, posts, postedAt, clock>>
  BY DEF Decide, RetireTicket, Log, DecideLate, DecideLive, MarkExpired, ticketVars, execVars, brokerVars, envVars
<1>4. proc'[w].pc \in {"idle", "log"}
  BY <1>2, Gone, Finished DEF Decide, RetireTicket, Log
<1>5. /\ proc'[w].now <= clock' /\ GoesBy(w) \in Nat /\ GoesBy(w)' \in Nat
      /\ GoesBy(w) <= GoesBy(w)'
  BY <1>2, TimeGoesOn DEF Punctual
<1>6. Punctual(w)' /\ Counted'
  BY <1>2, <1>3, StaysPunctual DEF Counted, Stamped
<1>7. ~Owner(w) /\ ~Owner(w)'
  BY <1>2, <1>4 DEF Owner, At
<1>8. InHand(w)' /\ StillTrue(w)'
  BY <1>2, <1>3, <1>4, <1>7 DEF InHand, StillTrue, At
<1>9. \A q \in Proposals : status'[q] = status[q] \/ status'[q] \in {"EXPIRED", "REJECTED"}
                           \/ (status[q] = "PENDING" /\ status'[q] = "APPROVED")
  BY <1>2 DEF Decide, RetireTicket, Log, DecideLate, DecideLive, MarkExpired, ticketVars, TypeOK, StoreTypeOK
<1>10. OneOpen(w)'
  <2>1. PICK t0 \in Nat : t0 = GoesBy(w)
    BY <1>5
  <2>2. PICK t1 \in Nat : t1 = GoesBy(w)'
    BY <1>5
  <2>3. ASSUME NEW q \in Proposals, Blocks(q, GoesBy(w))' PROVE Blocks(q, t1)
    BY <1>3, <1>9, <2>2, <2>3 DEF Blocks, Expires, OpenStatuses
  <2>4. \A q \in Proposals : Blocks(q, GoesBy(w))' => Blocks(q, GoesBy(w))
    BY <1>2, <1>5, <2>1, <2>2, <2>3, BlockedBefore
  <2> QED
    BY <1>2, <2>4, LinesStayFree
<1>11. WeeklyCap'
  BY <1>2, <1>3, CapStays DEF Traded
<1> QED
  BY <1>6, <1>8, <1>10, <1>11 DEF AloneInv

LEMMA AloneClaim ==
  ASSUME IInv, NEW w, Alone(w), AloneInv(w), Claim(w), [Next]_vars
  PROVE  AloneInv(w)'
<1>1. PICK t \in Proposals : t = proc[w].p
  BY DEF Claim, At, Alone, IInv, TypeOK, ProcTypeOK
<1>2. /\ TypeOK /\ ProcTypeOK /\ w \in Procs /\ At(w, "claim") /\ ~Owner(w)
      /\ InHand(w) /\ StillTrue(w) /\ Punctual(w) /\ Counted /\ OneOpen(w) /\ WeeklyCap
  BY DEF Claim, Alone, AloneInv, IInv, TypeOK, Owner, At
<1>3. UNCHANGED <<status, createdAt, submittedAt, order, posts, postedAt, clock>>
  BY DEF Claim, InsertClaim, ticketVars, execVars, brokerVars, envVars
<1>4. /\ proc'[w].now <= clock' /\ GoesBy(w) \in Nat /\ GoesBy(w)' \in Nat
      /\ GoesBy(w) <= GoesBy(w)'
  BY <1>2, TimeGoesOn DEF Punctual
<1>5. Punctual(w)'
  BY <1>2, <1>3, StaysPunctual
<1>6. \A q \in Proposals : exec'[q] = exec[q] \/ (q = t /\ exec'[q] = "CLAIMED")
  BY <1>1, <1>2 DEF Claim, InsertClaim, execVars, TypeOK, StoreTypeOK
<1>7. Counted'
  BY <1>2, <1>3, <1>6 DEF Counted, Stamped, RecordedStates
<1>8. InHand(w)' /\ StillTrue(w)'
  <2>1. CASE Finish(w) /\ UNCHANGED execVars
    <3>1. proc'[w].pc = "idle"
      BY <1>2, <2>1, Finished
    <3> QED
      BY <1>2, <2>1, <3>1 DEF InHand, StillTrue, Owner, At, execVars
  <2>2. CASE Goto(w, "post", "none")
    <3>1. proc'[w].pc = "post" /\ proc'[w].p = t /\ proc'[w].now = proc[w].now
      BY <1>1, <1>2, <2>2 DEF Goto, ProcTypeOK
    <3>2. InHand(w)'
      BY <1>2, <1>6, <3>1 DEF InHand, Owner, At
    <3>3. StillTrue(w)'
      BY <1>1, <1>2, <1>3, <3>1 DEF StillTrue, Owner, At, Expires, TradesThisWeek
    <3> QED
      BY <3>2, <3>3
  <2> QED
    BY <2>1, <2>2 DEF Claim
<1>9. OneOpen(w)'
  <2>1. PICK t0 \in Nat : t0 = GoesBy(w)
    BY <1>4
  <2>2. PICK t1 \in Nat : t1 = GoesBy(w)'
    BY <1>4
  <2>3. ASSUME NEW q \in Proposals, Blocks(q, GoesBy(w))' PROVE Blocks(q, t1)
    BY <1>3, <2>2, <2>3 DEF Blocks, Expires
  <2>4. \A q \in Proposals : Blocks(q, GoesBy(w))' => Blocks(q, GoesBy(w))
    BY <1>2, <1>4, <2>1, <2>2, <2>3, BlockedBefore
  <2> QED
    BY <1>2, <2>4, LinesStayFree
<1>10. WeeklyCap'
  BY <1>2, <1>3, CapStays DEF Traded
<1> QED
  BY <1>5, <1>7, <1>8, <1>9, <1>10 DEF AloneInv

(* A post is the only step that adds a trade to a week, and its week had   *)
(* room for one more.                                                      *)
LEMMA AlonePost ==
  ASSUME IInv, NEW w, Alone(w), AloneInv(w), Post(w), [Next]_vars
  PROVE  AloneInv(w)'
<1>1. PICK t \in Proposals : t = proc[w].p
  BY DEF Post, At, Alone, IInv, TypeOK, ProcTypeOK
<1>2. PICK now \in Nat : now = proc[w].now
  BY DEF Alone, IInv, TypeOK, ProcTypeOK, Process
<1>3. /\ TypeOK /\ ProcTypeOK /\ w \in Procs /\ At(w, "post") /\ Owner(w)
      /\ InHand(w) /\ StillTrue(w) /\ Punctual(w) /\ Counted /\ OneOpen(w) /\ WeeklyCap
      /\ exec[t] = "CLAIMED"
  BY <1>1 DEF Post, Alone, AloneInv, IInv, TypeOK, ProcInv, Remembers, Owner, At
<1>4. /\ posts' = [posts EXCEPT ![t] = @ + 1] /\ postedAt' = [postedAt EXCEPT ![t] = now]
      /\ order' = [order EXCEPT ![t] = "sent"] /\ Goto(w, "await", "none")
      /\ UNCHANGED <<status, createdAt, exec, submittedAt, clock>>
  BY <1>1, <1>2 DEF Post, storeVars, envVars
<1>5. proc'[w].pc = "await" /\ proc'[w].p = t /\ proc'[w].now = now
  BY <1>1, <1>2, <1>3, <1>4 DEF Goto, ProcTypeOK
<1>6. GoesBy(w) = now /\ GoesBy(w)' = now
  BY <1>2, <1>3, <1>5 DEF GoesBy, At
<1>7. Punctual(w)'
  BY <1>2, <1>3, <1>4, <1>5, <1>6 DEF Punctual, TypeOK
<1>8. InHand(w)' /\ StillTrue(w)'
  BY <1>1, <1>2, <1>3, <1>4, <1>5 DEF InHand, StillTrue, Owner, At, Expires
<1>9. Counted'
  BY <1>3, <1>4 DEF Counted, Stamped, RecordedStates, TypeOK
<1>10. OneOpen(w)'
  BY <1>3, <1>4, <1>6 DEF OneOpen, Blocks, Expires
<1>11. \A q \in Proposals \ {t} : (Traded(q)' <=> Traded(q)) /\ postedAt'[q] = postedAt[q]
  BY <1>4 DEF Traded, TypeOK, IInv
<1>12. postedAt'[t] = now
  BY <1>3, <1>4 DEF TypeOK
<1>13. WeeklyCap'
  <2> SUFFICES ASSUME NEW p \in Proposals, Traded(p)'
               PROVE  Cardinality(InWeek(Monday(postedAt[p]))') <= WeeklyLimit
    BY CapIsAfter
  <2>1. CASE Monday(postedAt'[p]) = Monday(now)
    <3> DEFINE C == {q \in Proposals : submittedAt[q] # NoTime /\ submittedAt[q] >= Monday(now)}
    <3>1. IsFiniteSet(C) /\ Cardinality(C) < WeeklyLimit
      <4>1. C \subseteq Stamped
        BY DEF Stamped
      <4>2. TradesThisWeek(now) < WeeklyLimit
        BY <1>2, <1>3 DEF StillTrue, At
      <4> QED
        BY <1>3, <4>1, <4>2, FS_Subset DEF Counted, TradesThisWeek
    <3>2. ASSUME NEW q \in Proposals \ {t}, Traded(q), Monday(postedAt[q]) = Monday(now) PROVE q \in C
      <4>1. q \in Stamped /\ submittedAt[q] >= postedAt[q]
        BY <1>1, <1>3, <3>2, TradesAre
      <4>2. postedAt[q] \in Nat
        BY <1>3, <3>2 DEF Punctual, Traded, IInv, StoreInv, TicketInv, TypeOK
      <4>3. Monday(now) <= postedAt[q] /\ Monday(now) \in Int
        BY <3>2, <4>2, MondayIs
      <4>4. submittedAt[q] \in Int
        BY <1>3 DEF TypeOK, StoreTypeOK, NoTime
      <4> QED
        BY <4>1, <4>2, <4>3, <4>4 DEF Stamped
    <3>3. InWeek(Monday(postedAt[p]))' \subseteq C \cup {t}
      <4>1. ASSUME NEW q \in InWeek(Monday(postedAt[p]))', q # t PROVE q \in C
        BY <1>11, <2>1, <3>2, <4>1 DEF InWeek, Monday
      <4> QED
        BY <4>1 DEF InWeek
    <3> HIDE DEF C
    <3>4. /\ IsFiniteSet(C \cup {t}) /\ Cardinality(C \cup {t}) <= Cardinality(C) + 1
          /\ Cardinality(C) \in Nat
      BY <3>1, FS_AddElement, FS_CardinalityType
    <3>5. /\ Cardinality(InWeek(Monday(postedAt[p]))') <= Cardinality(C \cup {t})
          /\ Cardinality(InWeek(Monday(postedAt[p]))') \in Nat /\ Cardinality(C \cup {t}) \in Nat
      BY <3>3, <3>4, FS_Subset, FS_CardinalityType
    <3> QED
      BY <3>1, <3>4, <3>5, ExecutionAssumption
  <2>2. CASE Monday(postedAt'[p]) # Monday(now)
    <3>1. p # t /\ Traded(p) /\ postedAt'[p] = postedAt[p]
      BY <1>11, <1>12, <2>2
    <3>2. PICK m : m = Monday(postedAt[p])
      OBVIOUS
    <3>3. InWeek(Monday(postedAt[p]))' \subseteq InWeek(m)
      BY <1>11, <1>12, <2>2, <3>1, <3>2 DEF InWeek, Monday
    <3>4. IsFiniteSet(InWeek(m))
      BY <1>3, TradesAreFinite, FS_Subset DEF InWeek
    <3>5. Cardinality(InWeek(m)) <= WeeklyLimit
      BY <1>3, <3>1, <3>2, CapIs
    <3>6. /\ Cardinality(InWeek(Monday(postedAt[p]))') <= Cardinality(InWeek(m))
          /\ Cardinality(InWeek(Monday(postedAt[p]))') \in Nat /\ Cardinality(InWeek(m)) \in Nat
      BY <3>3, <3>4, FS_Subset, FS_CardinalityType
    <3> QED
      BY <3>5, <3>6, ExecutionAssumption
  <2> QED
    BY <2>1, <2>2
<1> QED
  BY <1>7, <1>8, <1>9, <1>10, <1>13 DEF AloneInv

(* What is recorded is stamped with a time no earlier than the post, and   *)
(* the record takes over the line from the approval.                       *)
LEMMA AloneRecord ==
  ASSUME IInv, NEW w, Alone(w), AloneInv(w), Record(w), [Next]_vars
  PROVE  AloneInv(w)'
<1>1. PICK t \in Proposals : t = proc[w].p
  BY DEF Record, At, Alone, IInv, TypeOK, ProcTypeOK
<1>2. PICK now \in Nat : now = proc[w].now
  BY DEF Alone, IInv, TypeOK, ProcTypeOK, Process
<1>3. PICK note \in SubmitNotes \cup ReconcileNotes : note = proc[w].note
  BY DEF Record, At, Alone, IInv, TypeOK, ProcTypeOK, NoteFits
<1>4. PICK row : row = Outcome(note)
  OBVIOUS
<1>5. /\ TypeOK /\ ProcTypeOK /\ w \in Procs /\ At(w, "record") /\ StoreInv
      /\ InHand(w) /\ StillTrue(w) /\ Punctual(w) /\ Counted /\ OneOpen(w) /\ WeeklyCap
      /\ Learned(note, t) /\ (note \in ReconcileNotes => orderId[t])
  BY <1>1, <1>3 DEF Record, Alone, AloneInv, IInv, TypeOK, ProcInv, Remembers, Asker, At
<1>6. /\ exec' = [exec EXCEPT ![t] = row.state] /\ status' = [status EXCEPT ![t] = row.status]
      /\ submittedAt' = [submittedAt EXCEPT
                           ![t] = IF row.state \in {"SUBMITTED", "UNKNOWN", "FILLED"} THEN now ELSE @]
      /\ Goto(w, "log", row.event)
      /\ UNCHANGED <<createdAt, order, posts, postedAt, clock>>
  BY <1>1, <1>2, <1>3, <1>4 DEF Record, UpdateExecution, brokerVars, envVars
<1>7. proc'[w].pc = "log" /\ proc'[w].p = t /\ proc'[w].now = now
  BY <1>1, <1>2, <1>5, <1>6 DEF Goto, ProcTypeOK
<1>8. GoesBy(w) = now /\ GoesBy(w)' = now
  BY <1>2, <1>5, <1>7 DEF GoesBy, At
<1>9. /\ row.state \in RecordedStates
      /\ row.state = "FAILED" <=> note \in {"REFUSED", "FOUND_DEAD"}
      /\ row.status \in {"SUBMITTED", "RECONCILIATION_REQUIRED"} =>
           note \in SubmitNotes \/ note = "FOUND_OPEN"
      /\ row.status \notin OpenStatuses
  BY <1>3, <1>4 DEF Outcome, Unknown, Row, SubmitNotes, ReconcileNotes, RecordedStates, OpenStatuses
<1>10. Punctual(w)'
  BY <1>5, <1>6, StaysPunctual
<1>11. InHand(w)' /\ StillTrue(w)'
  <2>1. ~Owner(w)' /\ \A q \in Proposals \ {t} : exec'[q] # "CLAIMED"
    BY <1>1, <1>5, <1>6, <1>7 DEF InHand, Owner, At, TypeOK, StoreTypeOK
  <2>2. exec'[t] # "CLAIMED"
    BY <1>5, <1>6, <1>9 DEF RecordedStates, TypeOK, StoreTypeOK
  <2> QED
    BY <1>7, <2>1, <2>2 DEF InHand, StillTrue, At
<1>12. Counted'
  <2>1. IsFiniteSet(Stamped')
    <3>1. Stamped' \subseteq Stamped \cup {t}
      BY <1>5, <1>6 DEF Stamped, TypeOK, StoreTypeOK
    <3>2. IsFiniteSet(Stamped \cup {t})
      BY <1>5, FS_AddElement DEF Counted
    <3> QED
      BY <3>1, <3>2, FS_Subset
  <2>2. ASSUME NEW q \in Proposals, q # t, exec'[q] \in RecordedStates
        PROVE  order'[q] = "refused" \/ (q \in Stamped' /\ submittedAt'[q] >= postedAt'[q])
    BY <1>5, <1>6, <2>2 DEF Counted, Stamped, TypeOK, StoreTypeOK
  <2>3. order'[t] = "refused" \/ (t \in Stamped' /\ submittedAt'[t] >= postedAt'[t])
    <3>1. CASE note = "REFUSED"
      BY <1>5, <1>6, <3>1 DEF Learned
    <3>2. CASE note = "FOUND_DEAD"
      <4>1. order[t] = "cancelled" /\ exec[t] \in RecordedStates
        BY <1>3, <1>5, <3>2 DEF Learned, StoreInv, TicketInv, ReconcileNotes
      <4>2. t \in Stamped /\ submittedAt[t] >= postedAt[t]
        BY <1>5, <4>1 DEF Counted
      <4>3. row.state = "FAILED"
        BY <1>9, <3>2
      <4> QED
        BY <1>5, <1>6, <4>2, <4>3 DEF Stamped, TypeOK, StoreTypeOK
    <3>3. CASE note \notin {"REFUSED", "FOUND_DEAD"}
      <4>1. row.state \in {"SUBMITTED", "UNKNOWN", "FILLED"}
        BY <1>9, <3>3 DEF RecordedStates
      <4>2. submittedAt'[t] = now
        BY <1>5, <1>6, <4>1 DEF TypeOK, StoreTypeOK
      <4>3. postedAt[t] \in Int /\ postedAt[t] <= now
        BY <1>2, <1>5, <1>8 DEF Punctual, TypeOK, NoTime
      <4> QED
        BY <1>2, <1>6, <4>2, <4>3 DEF Stamped, NoTime
    <3> QED
      BY <3>1, <3>2, <3>3
  <2> QED
    BY <2>1, <2>2, <2>3 DEF Counted
<1>13. OneOpen(w)'
  <2>1. ASSUME NEW q \in Proposals, q # t PROVE Blocks(q, GoesBy(w))' => Blocks(q, GoesBy(w))
    BY <1>5, <1>6, <1>8, <2>1 DEF Blocks, Expires, TypeOK, StoreTypeOK
  <2>2. ASSUME Blocks(t, GoesBy(w))' PROVE Blocks(t, GoesBy(w))
    <3>1. row.status \in {"SUBMITTED", "RECONCILIATION_REQUIRED"}
      BY <1>5, <1>6, <1>9, <2>2 DEF Blocks, TypeOK, StoreTypeOK
    <3>2. CASE note \in SubmitNotes
      <4>1. status[t] = "APPROVED" /\ now < Expires(t)
        BY <1>1, <1>2, <1>3, <1>5, <3>2 DEF StillTrue, Owner, At
      <4> QED
        BY <1>8, <4>1 DEF Blocks, OpenStatuses
    <3>3. CASE note = "FOUND_OPEN"
      <4>1. exec[t] \in {"SUBMITTED", "UNKNOWN"}
        BY <1>1, <1>3, <1>5, <3>3 DEF StillTrue
      <4> QED
        BY <1>5, <4>1 DEF Blocks, StoreInv, RowsAgree, StatusOf, RecordedStates
    <3> QED
      BY <1>9, <3>1, <3>2, <3>3
  <2> QED
    BY <1>5, <2>1, <2>2, LinesStayFree
<1>14. WeeklyCap'
  BY <1>5, <1>6, CapStays DEF Traded
<1> QED
  BY <1>10, <1>11, <1>12, <1>13, <1>14 DEF AloneInv

LEMMA AloneStarts == ASSUME Init, NEW w, Alone(w) PROVE AloneInv(w)
<1>1. w \in Procs /\ proc[w] = Idle /\ clock = 0
  BY DEF Init, Alone
<1>2. \A p \in Proposals : /\ posts[p] = 0 /\ exec[p] = "NONE" /\ order[p] = "none"
                           /\ status[p] = "NONE" /\ submittedAt[p] = NoTime /\ postedAt[p] = NoTime
  BY DEF Init, StoreInit
<1>3. Punctual(w)
  BY <1>1, <1>2 DEF Punctual, GoesBy, At, Idle, NoTime
<1>4. InHand(w) /\ StillTrue(w)
  BY <1>1, <1>2 DEF InHand, StillTrue, Idle, Owner, At
<1>5. Counted
  <2>1. Stamped = {}
    BY <1>2 DEF Stamped
  <2> QED
    BY <1>2, <2>1, FS_EmptySet DEF Counted, RecordedStates
<1>6. OneOpen(w) /\ WeeklyCap
  BY <1>2 DEF OneOpen, WeeklyCap, Traded, Blocks, OpenStatuses
<1> QED
  BY <1>3, <1>4, <1>5, <1>6 DEF AloneInv

LEMMA AloneKeeps ==
  ASSUME IInv, NEW w, Alone(w), AloneInv(w), [Next]_vars
  PROVE  AloneInv(w)'
<1>1. TypeOK
  BY DEF IInv
<1> QED
  BY <1>1, AloneSteps, AloneQuiet, AloneSurroundings, AloneCreate, AloneDecide, AloneClaim, AlonePost,
     AloneRecord DEF StoreMove

(* While one operator works alone and no invocation dies between an order  *)
(* and its record, what was counted before an order is still the count     *)
(* when it is sent: no week has more than WeeklyLimit trades               *)
(* (risk/engine.py, storage.py).                                           *)
THEOREM CapHoldsAlone ==
  ASSUME NEW w, Alone(w)
  PROVE  Spec => []WeeklyCap
<1>1. Init => AloneInv(w)
  BY AloneStarts
<1>2. IInv /\ AloneInv(w) /\ [Next]_vars => AloneInv(w)'
  BY AloneKeeps
<1>3. AloneInv(w) => WeeklyCap
  BY DEF AloneInv
<1> QED
  BY <1>1, <1>2, <1>3, Invariance, PTL DEF Spec

(* Under the same conditions the broker never has two live orders for one  *)
(* ticker and side: an approval that may still be executed, and an order   *)
(* that may still trade, each block their line (has_open_duplicate).       *)
THEOREM LinesAreFreeAlone ==
  ASSUME NEW w, Alone(w)
  PROVE  Spec => []OneLiveOrderPerLine
<1>1. Init => AloneInv(w)
  BY AloneStarts
<1>2. IInv /\ AloneInv(w) /\ [Next]_vars => AloneInv(w)'
  BY AloneKeeps
<1>3. IInv /\ AloneInv(w) => OneLiveOrderPerLine
  <2> SUFFICES ASSUME IInv, AloneInv(w) PROVE OneLiveOrderPerLine
    OBVIOUS
  <2>1. TypeOK /\ InHand(w) /\ StillTrue(w) /\ OneOpen(w) /\ StoreInv
    BY DEF AloneInv, IInv
  <2>2. ASSUME NEW p \in Proposals, Outstanding(p) PROVE Blocks(p, GoesBy(w))
    <3>1. order[p] \in {"sent", "open"} /\ exec[p] \in ExecutionStates \ {"NONE"}
      BY <2>1, <2>2 DEF Outstanding, StoreInv, TicketInv, TypeOK, StoreTypeOK
    <3>2. CASE exec[p] = "CLAIMED"
      BY <2>1, <3>2 DEF InHand, StillTrue, GoesBy, Owner, At, Blocks, OpenStatuses
    <3>3. CASE exec[p] # "CLAIMED"
      <4>1. exec[p] \in {"SUBMITTED", "UNKNOWN"}
        BY <2>1, <3>1, <3>3 DEF StoreInv, RecordedFateIsTrue, ExecutionStates, RecordedStates
      <4> QED
        BY <2>1, <4>1 DEF StoreInv, RowsAgree, StatusOf, RecordedStates, Blocks
    <3> QED
      BY <3>2, <3>3
  <2> QED
    BY <2>1, <2>2 DEF OneOpen, OneLiveOrderPerLine
<1> QED
  BY <1>1, <1>2, <1>3, Invariance, PTL DEF Spec

-----------------------------------------------------------------------------
(* Refinement: the store and the broker implement OrderPromise.            *)

Fate(p) == IF order[p] = "none" THEN "unsent" ELSE order[p]

(* How each step of the execution maps to the promise.                     *)
LEMMA StutterStep ==
  ASSUME UNCHANGED <<decided, order>>, \A p \in Proposals : Book(exec'[p]) = Book(exec[p])
  PROVE  UNCHANGED Promise!promiseVars
BY DEF Promise!promiseVars

LEMMA ConsentStep ==
  ASSUME IInv, NEW w \in Procs, Decide(w)
  PROVE  Promise!Next \/ UNCHANGED Promise!promiseVars
<1> DEFINE t == proc[w].p
<1> USE DEF IInv, TypeOK, execVars, brokerVars
<1>0. t \in Proposals
  BY DEF Decide, At, ProcTypeOK
<1>1. UNCHANGED <<exec, order>>
  BY DEF Decide
<1>2. CASE UNCHANGED decided
  BY <1>1, <1>2, StutterStep
<1>3. CASE DecideLive(t, proc[w].note, proc[w].now) /\ At(w, "decide")
  <2>1. decided[t] = "none" /\ proc[w].note \in {"approve", "reject"}
    BY <1>0, <1>3 DEF DecideLive, StoreInv, TicketInv, At, ProcTypeOK, NoteFits, Verdicts
  <2>2. decided' = [decided EXCEPT ![t] = proc[w].note]
    BY <1>3 DEF DecideLive
  <2>3. Promise!Consent(t)
    BY <1>1, <2>1, <2>2 DEF Promise!Consent
  <2> QED
    BY <1>0, <2>3 DEF Promise!Next
<1> QED
  BY <1>2, <1>3 DEF Decide, ticketVars, DecideLate

LEMMA SendStep ==
  ASSUME IInv, NEW w \in Procs, Post(w)
  PROVE  Promise!Next
<1> USE DEF IInv, TypeOK
<1>0. PICK t \in Proposals : t = proc[w].p /\ order[t] = "none" /\ decided[t] = "approve"
  BY DEF Post, At, ProcTypeOK, ProcInv, Remembers, Owner, StoreInv, TicketInv
<1>1. order' = [order EXCEPT ![t] = "sent"] /\ UNCHANGED <<decided, exec>>
  BY <1>0 DEF Post, storeVars
<1>2. [p \in Proposals |-> Fate(p)]' = [[p \in Proposals |-> Fate(p)] EXCEPT ![t] = "sent"]
  BY <1>0, <1>1 DEF Fate
<1>3. Promise!Send(t)
  BY <1>0, <1>1, <1>2 DEF Promise!Send, Fate
<1> QED
  BY <1>3 DEF Promise!Next

LEMMA TurnStep ==
  ASSUME IInv, NEW p \in Proposals, Broker(p)
  PROVE  Promise!Next
<1> USE DEF IInv, TypeOK
<1>1. PICK o \in {"open", "refused", "filled", "cancelled"} :
        /\ order' = [order EXCEPT ![p] = o]
        /\ \/ order[p] = "sent" /\ o \in {"open", "refused"}
           \/ order[p] = "open" /\ o \in {"filled", "cancelled"}
  BY DEF Broker, BrokerAnswers, BrokerSettles
<1>2. [q \in Proposals |-> Fate(q)]' = [[q \in Proposals |-> Fate(q)] EXCEPT ![p] = o]
  BY <1>1 DEF Fate
<1>3. <<Fate(p), o>> \in Promise!Turns /\ o \in Promise!Fates
  BY <1>1 DEF Fate, Promise!Turns, Promise!Fates
<1>4. UNCHANGED <<decided, exec>>
  BY DEF Broker, storeVars
<1>5. Promise!Turn(p)
  BY <1>2, <1>3, <1>4 DEF Promise!Turn, Fate
<1> QED
  BY <1>5 DEF Promise!Next

LEMMA ReportStep ==
  ASSUME IInv, NEW w \in Procs, Record(w)
  PROVE  Promise!Next \/ UNCHANGED Promise!promiseVars
<1> DEFINE t == proc[w].p
           e == Outcome(proc[w].note).state
<1> USE DEF IInv, TypeOK
<1>0. t \in Proposals
  BY DEF Record, At, ProcTypeOK
<1>1. exec' = [exec EXCEPT ![t] = e] /\ UNCHANGED <<decided, order>>
  BY DEF Record, UpdateExecution, brokerVars
<1>2. StoreInv' /\ e \in RecordedStates
  BY RecordKeeps, OutcomeTyped DEF Record, At, ProcTypeOK, NoteFits
<1>3. Book(exec[t]) = "silent" \/ e # "UNKNOWN"
  BY <1>0 DEF Record, At, Outcome, Unknown, Row, ProcInv, Remembers, Owner, SubmitNotes, Book,
              ProcTypeOK, NoteFits, ReconcileNotes
<1> HIDE DEF t, e
<1>4. CASE e = "UNKNOWN"
  BY <1>0, <1>1, <1>3, <1>4, StutterStep DEF StoreTypeOK, Book
<1>5. CASE e # "UNKNOWN"
  <2>1. Promise!Truthful(Book(e), Fate(t)) /\ Book(e) \in Promise!Books
    BY <1>0, <1>1, <1>2, <1>5 DEF StoreTypeOK, StoreInv, RecordedFateIsTrue, RecordedStates, Book, Fate,
                                  Held, Promise!Truthful, Promise!Books
  <2>2. [p \in Proposals |-> Book(exec[p])]' = [[p \in Proposals |-> Book(exec[p])] EXCEPT ![t] = Book(e)]
    BY <1>0, <1>1 DEF StoreTypeOK
  <2>3. Promise!Report(t)
    BY <1>0, <1>1, <2>1, <2>2 DEF Promise!Report, Fate
  <2> QED
    BY <1>0, <2>3 DEF Promise!Next
<1> QED
  BY <1>4, <1>5

(* The detailed system implements the one-shot order promise: consent is   *)
(* given once, an order follows it at most once, and the book never says   *)
(* what was not true of the order.                                         *)
THEOREM PromiseKept == Spec => KeepsPromise
<1>1. Init => Promise!Init
  BY DEF Init, StoreInit, Promise!Init, Book
<1>2. IInv /\ [Next]_vars => [Promise!Next]_(Promise!promiseVars)
  <2> SUFFICES ASSUME IInv, [Next]_vars PROVE Promise!Next \/ UNCHANGED Promise!promiseVars
    OBVIOUS
  <2>1. ASSUME NEW w \in Procs,
               QuietMove(w) \/ CreateTicket(w) \/ RetireTicket(w) \/ Log(w) \/ Crash(w) \/ CutAnswer(w)
        PROVE  UNCHANGED Promise!promiseVars
    <3>1. UNCHANGED <<decided, order, exec>>
      BY <2>1, QuietFrame DEF CreateTicket, CreateProposal, RetireTicket, MarkExpired, Log, Crash, CutAnswer,
                              storeVars, ticketVars, execVars, brokerVars
    <3> QED
      BY <3>1, StutterStep
  <2>2. ASSUME NEW w \in Procs, Claim(w) PROVE UNCHANGED Promise!promiseVars
    <3>1. UNCHANGED <<decided, order>>
      BY <2>2 DEF Claim, ticketVars, brokerVars
    <3>2. \A p \in Proposals : Book(exec'[p]) = Book(exec[p])
      BY <2>2 DEF Claim, ClaimIsNew, InsertClaim, execVars, Book, IInv, TypeOK, StoreTypeOK
    <3> QED
      BY <3>1, <3>2, StutterStep
  <2>3. ASSUME Tick \/ UNCHANGED vars PROVE UNCHANGED Promise!promiseVars
    <3>1. UNCHANGED <<decided, order, exec>>
      BY <2>3 DEF Tick, vars, storeVars, brokerVars
    <3> QED
      BY <3>1, StutterStep
  <2> QED
    BY <2>1, <2>2, <2>3, Steps, ConsentStep, SendStep, TurnStep, ReportStep
<1> QED
  BY <1>1, <1>2, Invariance, PTL DEF Spec, KeepsPromise, Promise!Spec
=============================================================================
