----------------------------- MODULE Approvals -----------------------------
(***************************************************************************)
(* How a human verdict reaches the store (approve/polling.py, webhook.py,  *)
(* telegram.py, service.py and the local decide of cli.py).  The approver  *)
(* presses the buttons of tickets that were sent; Telegram keeps each      *)
(* press as an update and hands it over by long polling or to a webhook,   *)
(* again and again until it counts as delivered; the local command decides *)
(* beside both.  Recording a verdict takes two transactions of module      *)
(* ProposalStore, the decision and its event, and a worker may die between *)
(* them: the process is stopped, or an error nobody catches, such as a     *)
(* database that stays locked, ends it.                                    *)
(*                                                                         *)
(* Telegram is external.  It numbers updates in order, drops those below   *)
(* the offset of a getUpdates call, and posts to a webhook until it is     *)
(* answered; after a refusal (400 or 403) it may give up.  It uses one of  *)
(* the two ways: polling deletes the webhook.                              *)
(***************************************************************************)
EXTENDS ProposalStore, Sequences, FiniteSetsExt

CONSTANTS
  Handlers,     \* threads of the webhook server
  MaxTime,      \* bound: the last clock reading
  MaxPresses,   \* bound: buttons pressed
  MaxFailures   \* bound: workers that die

Poller  == "poller"
Local   == "local"
ASSUME ApprovalsAssumption ==
  /\ {Poller, Local} \cap Handlers = {}
  /\ MaxTime \in Nat /\ MaxPresses \in Nat /\ MaxFailures \in Nat

Workers == Handlers \cup {Poller, Local}
Updates == 1..MaxPresses

VARIABLES
  now,
  channel,     \* how Telegram hands updates over
  presses,     \* the updates so far: ticket, verdict, and whether it is a good one
  dropped,     \* updates Telegram no longer hands over
  offset,      \* of the poller, in its memory only
  batch,       \* updates the poller has fetched and not yet handled
  worker,      \* what each worker is doing for which ticket and update
  said,        \* history: verdicts given to the local command
  forgotten,   \* history: tickets whose decider died before its event
  failures

telegramVars == <<channel, presses, dropped>>
pollVars     == <<offset, batch>>
historyVars  == <<said, forgotten, failures>>
vars == <<storeVars, now, telegramVars, pollVars, worker, historyVars>>

Idle == [pc |-> "idle"]
Down == [pc |-> "down"]
Working(w) == worker[w] \notin {Idle, Down}
Jobs == [pc : {"decide", "event", "ack"}, update : Updates \cup {0},
         ticket : Proposals, verdict : Verdicts]
Work(pc, u, p, verdict) == [pc |-> pc, update |-> u, ticket |-> p, verdict |-> verdict]

(* handle_update refuses an update from another user or chat, one it       *)
(* cannot read, and one that does not match the stored ticket.             *)
Bad == [good |-> FALSE]
GoodPresses == [good : {TRUE}, ticket : Proposals, verdict : Verdicts]

TypeOK ==
  /\ StoreTypeOK
  /\ now \in 0..MaxTime
  /\ channel \in {"poll", "webhook"}
  /\ presses \in Seq({Bad} \cup GoodPresses)
  /\ dropped \subseteq Updates /\ batch \subseteq Updates
  /\ offset \in 0..(MaxPresses + 1)
  /\ worker \in [Workers -> {Idle, Down} \cup Jobs]
  /\ said \subseteq Proposals \X Verdicts /\ forgotten \subseteq Proposals
  /\ failures \in 0..MaxFailures

(* The tickets have been proposed and sent to the approver. *)
Init ==
  /\ status = [p \in Proposals |-> "PENDING"]
  /\ decided = [p \in Proposals |-> "none"]
  /\ createdAt = [p \in Proposals |-> 0]
  /\ exec = [p \in Proposals |-> "NONE"]
  /\ orderId = [p \in Proposals |-> FALSE]
  /\ submittedAt = [p \in Proposals |-> NoTime]
  /\ ledger = [p \in Proposals |-> {"PROPOSAL_CREATED"}]
  /\ now = 0
  /\ channel \in {"poll", "webhook"}
  /\ presses = << >> /\ dropped = {}
  /\ offset = 0 /\ batch = {}
  /\ worker = [w \in Workers |-> IF w = Poller THEN Down ELSE Idle]
  /\ said = {} /\ forgotten = {} /\ failures = 0

Tick ==
  /\ now < MaxTime
  /\ now' = now + 1
  /\ UNCHANGED <<storeVars, telegramVars, pollVars, worker, historyVars>>

(* A button is pressed. *)
Press ==
  /\ Len(presses) < MaxPresses
  /\ \E press \in {Bad} \cup GoodPresses : presses' = Append(presses, press)
  /\ UNCHANGED <<storeVars, now, channel, dropped, pollVars, worker, historyVars>>

-----------------------------------------------------------------------------
(* Long polling.  A call drops what lies below its offset, be its answer   *)
(* lost; updates of a batch are handled in order, and the offset advances  *)
(* past each before it is handled.                                         *)
Confirmed == dropped \cup {u \in Updates : u < offset}

StartPoller ==
  /\ channel = "poll" /\ worker[Poller] = Down
  /\ worker' = [worker EXCEPT ![Poller] = Idle]
  /\ UNCHANGED <<storeVars, now, telegramVars, pollVars, historyVars>>

Fetching == channel = "poll" /\ worker[Poller] = Idle /\ batch = {}

Fetch ==
  /\ Fetching
  /\ dropped' = Confirmed
  /\ batch' = (1..Len(presses)) \ Confirmed
  /\ UNCHANGED <<storeVars, now, channel, presses, offset, worker, historyVars>>

FetchFails ==
  /\ Fetching
  /\ dropped' \in {dropped, Confirmed}
  /\ UNCHANGED <<storeVars, now, channel, presses, pollVars, worker, historyVars>>

(* Faulty variant: what is no approval, be it unreadable, is a rejection. *)
StartWorkUnread(w, u) ==
  worker' = [worker EXCEPT ![w] =
    IF presses[u].good THEN Work("decide", u, presses[u].ticket, presses[u].verdict)
    ELSE Work("decide", u, CHOOSE p \in Proposals : TRUE, "reject")]

StartWork(w, u) ==
  worker' = [worker EXCEPT ![w] = IF presses[u].good
                                  THEN Work("decide", u, presses[u].ticket, presses[u].verdict)
                                  ELSE Idle]

Past(u) == u + 1

Take ==
  /\ channel = "poll" /\ worker[Poller] = Idle
  /\ \E u \in batch :
       /\ \A v \in batch : u <= v
       /\ offset' = Max({offset, Past(u)})
       /\ batch' = batch \ {u}
       /\ StartWork(Poller, u)
  /\ UNCHANGED <<storeVars, now, telegramVars, historyVars>>

-----------------------------------------------------------------------------
(* The webhook: one thread per request.  Telegram may lose patience and    *)
(* post an update again while a thread is still at it.                     *)
Refused(u) == dropped' \in {dropped, dropped \cup {u}}

Deliver(u) ==
  /\ channel = "webhook"
  /\ u \in (1..Len(presses)) \ dropped
  /\ \E h \in Handlers : worker[h] = Idle /\ StartWork(h, u)
  /\ IF presses[u].good THEN UNCHANGED dropped ELSE Refused(u)
  /\ UNCHANGED <<storeVars, now, channel, presses, pollVars, historyVars>>

(* decide of the command line. *)
DecideHere(p, verdict) ==
  /\ worker[Local] = Idle
  /\ <<p, verdict>> \notin said
  /\ said' = said \cup {<<p, verdict>>}
  /\ worker' = [worker EXCEPT ![Local] = Work("decide", 0, p, verdict)]
  /\ UNCHANGED <<storeVars, now, telegramVars, pollVars, forgotten, failures>>

-----------------------------------------------------------------------------
(* handle_update and ApprovalService.  A ticket that is decided, or whose  *)
(* time is up, raises: the poller ignores it, the webhook answers 400.     *)
Goto(w, pc) == worker' = [worker EXCEPT ![w].pc = pc]
Finish(w)   == worker' = [worker EXCEPT ![w] = Idle]

Decide(w) ==
  /\ worker[w].pc = "decide"
  /\ LET p == worker[w].ticket
     IN \/ /\ DecideLive(p, worker[w].verdict, now)
           /\ Goto(w, "event")
           /\ UNCHANGED dropped
        \/ /\ DecideLate(p, now) \/ (status[p] # "PENDING" /\ UNCHANGED ticketVars)
           /\ Finish(w)
           /\ IF w \in Handlers THEN Refused(worker[w].update) ELSE UNCHANGED dropped
  /\ UNCHANGED <<execVars, ledger, now, channel, presses, pollVars, historyVars>>

(* Faulty variant: both verdicts are journalled as approvals. *)
DecisionEventOne(verdict) == "PROPOSAL_APPROVED"

DecisionEvent(verdict) ==
  IF verdict = "approve" THEN "PROPOSAL_APPROVED" ELSE "PROPOSAL_REJECTED"

Record(w) ==
  /\ worker[w].pc = "event"
  /\ AppendEvent(DecisionEvent(worker[w].verdict), worker[w].ticket)
  /\ IF w = Local THEN Finish(w) ELSE Goto(w, "ack")
  /\ UNCHANGED <<ticketVars, execVars, now, telegramVars, pollVars, historyVars>>

(* answerCallbackQuery may fail: the poller goes on, the webhook thread    *)
(* ends without an answer and is sent the update again.                    *)
Acknowledge(w) ==
  /\ worker[w].pc = "ack"
  /\ Finish(w)
  /\ IF w \in Handlers THEN Refused(worker[w].update) ELSE UNCHANGED dropped
  /\ UNCHANGED <<storeVars, now, channel, presses, pollVars, historyVars>>

(* A worker dies wherever it is; all a poller knew is lost. *)
(* Faulty variant: the poller catches everything and goes on. *)
AfterDeathCaught(w) == worker' = [worker EXCEPT ![w] = Idle] /\ UNCHANGED pollVars

AfterDeath(w) ==
  IF w = Poller
  THEN worker' = [worker EXCEPT ![w] = Down] /\ offset' = 0 /\ batch' = {}
  ELSE worker' = [worker EXCEPT ![w] = Idle] /\ UNCHANGED pollVars

Die(w) ==
  /\ failures < MaxFailures
  /\ worker[w] # Down /\ (Working(w) \/ w = Poller)
  /\ failures' = failures + 1
  /\ forgotten' = IF worker[w].pc = "event" THEN forgotten \cup {worker[w].ticket} ELSE forgotten
  /\ AfterDeath(w)
  /\ UNCHANGED <<storeVars, now, telegramVars, said>>

Next ==
  \/ Tick \/ Press
  \/ StartPoller \/ Fetch \/ FetchFails \/ Take
  \/ \E u \in Updates : Deliver(u)
  \/ \E p \in Proposals, verdict \in Verdicts : DecideHere(p, verdict)
  \/ \E w \in Workers : Decide(w) \/ Record(w) \/ Acknowledge(w) \/ Die(w)

(* Processes that run go on, the operator restarts the poller, some of its *)
(* calls are answered, and Telegram posts every update it has not dropped. *)
Fairness ==
  /\ WF_vars(StartPoller) /\ WF_vars(Fetch) /\ WF_vars(Take)
  /\ \A u \in Updates : SF_vars(Deliver(u))
  /\ \A w \in Workers : WF_vars(Decide(w) \/ Record(w) \/ Acknowledge(w))

Spec == Init /\ [][Next]_vars /\ Fairness

-----------------------------------------------------------------------------
Pressed(p, verdict) ==
  \E u \in 1..Len(presses) :
    presses[u] = [good |-> TRUE, ticket |-> p, verdict |-> verdict]

(* A ticket carries a verdict only if its approver gave that very verdict, *)
(* by a button or by the local command, and the verdict is the one its     *)
(* status shows, however often updates are delivered and by whomever they  *)
(* are handled at once (telegram.py line 90, storage.py line 416).         *)
VerdictWasGiven ==
  TypeOK /\ \A p \in Proposals :
    /\ decided[p] # "none" => Pressed(p, decided[p]) \/ <<p, decided[p]>> \in said
    /\ status[p] = "APPROVED" <=> decided[p] = "approve"
    /\ status[p] = "REJECTED" <=> decided[p] = "reject"

(* The event ledger tells of each verdict what the ticket says, and of one *)
(* only; a verdict without its event is one whose decider is about to      *)
(* append it or died before it could, for redelivery never repairs it      *)
(* (service.py lines 31 to 47).                                            *)
LedgerTellsTheVerdict ==
  \A p \in Proposals :
    LET told == ledger[p] \cap {"PROPOSAL_APPROVED", "PROPOSAL_REJECTED"}
    IN IF decided[p] = "none" THEN told = {}
       ELSE \/ decided[p] = "approve" /\ told = {"PROPOSAL_APPROVED"}
            \/ decided[p] = "reject" /\ told = {"PROPOSAL_REJECTED"}
            \/ told = {} /\ (\/ p \in forgotten
                             \/ \E w \in Workers : worker[w].pc = "event"
                                                   /\ worker[w].ticket = p)

(* A press is answered in the end: its ticket is decided or found expired, *)
(* with bad updates before it in the queue, failed calls and deaths of the *)
(* poller on the way (polling.py line 17).                                 *)
PressIsAnswered ==
  \A p \in Proposals :
    (\E verdict \in Verdicts : Pressed(p, verdict)) ~> status[p] # "PENDING"
=============================================================================
