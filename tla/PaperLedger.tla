---------------------------- MODULE PaperLedger ----------------------------
(***************************************************************************)
(* The paper ledger of predict_agent: cohorts and their funded portfolios, *)
(* entry forecasts and their baselines, decisions, tickets, cash and       *)
(* settlements (cohorts.py, forecasts.py, paper.py, tickets.py, cash.py,   *)
(* settlement.py).                                                         *)
(*                                                                         *)
(* One step is one transaction (BEGIN IMMEDIATE: writers are serialised).  *)
(* "trade" and "settle" are unlocked invocations: they list their work     *)
(* outside any transaction and then decide or settle it entry by entry, so *)
(* several of them, the research run and resolution polls interleave       *)
(* between a listing and its use.  The research run's transactions on      *)
(* these tables are actions of their own, since a run may die after any of *)
(* them and its successor starts anywhere.                                 *)
(*                                                                         *)
(* A portfolio is <<cohort, variant>>.  A cohort has at most one entry     *)
(* forecast per market, so <<cohort, market>> names a forecast, and with   *)
(* it <<portfolio, market>> a decision and a ticket.  Money is counted in  *)
(* half dollars.  Each cash entry carries the running sum the code         *)
(* computes on demand.  Hash chains, journal entries and the arithmetic of *)
(* the policy are left out: the policy may refuse, or buy one of Offers    *)
(* within the available cash.                                              *)
(***************************************************************************)
EXTENDS Settlement, Sequences, FiniteSets, Functions

CONSTANTS
  Cohorts, Variants, Markets,
  Runs,        \* concurrent trade and settle invocations
  Bankroll,    \* FUNDING of each portfolio
  Offers,      \* what the policy may buy: side, shares and cost
  MaxCrashes   \* bound: invocations that die

Portfolios == Cohorts \X Variants
Forecasts  == Cohorts \X Markets
Sides      == {"YES", "NO"}

ASSUME LedgerAssumption ==
  /\ "none" \notin Markets     \* the FUNDING entry is for no market
  /\ Bankroll \in Nat \ {0}
  /\ Offers \subseteq [side : Sides, shares : Nat \ {0}, cost : Nat \ {0}]
  /\ MaxCrashes \in Nat

VARIABLES
  cohort,      \* cohorts.status
  baseline,    \* per entry forecast: none yet, waiting, late (the window has closed),
               \* or its forecast_baselines row
  decision,    \* decisions.kind, and the reason when it is COHORT_CLOSED
  ticket,      \* paper_tickets with their settlements
  cash,        \* cash_ledger per portfolio
  started,     \* an observation of the market is no longer open
  verdict,     \* final_outcome of the market's observations
  run,         \* what each invocation is doing and still has to do
  crashes

ledger == <<cohort, baseline, decision, ticket, cash>>
market == <<started, verdict>>
vars   == <<ledger, market, run, crashes>>

Lines    == Portfolios \X Markets     \* decisions and tickets
Undecided == "undecided"
NoTicket  == [status |-> "none"]

Decisions == {Undecided, "TRADED", "REFUSED", "COHORT_CLOSED", "NO_TIMELY_BASELINE"}
Entry     == [type : {"FUNDING", "DEBIT", "CREDIT"}, amount : Nat,
              market : Markets \cup {"none"}, balance : Nat]
Ticket    == [status : {"OPEN"}, side : Sides, shares : Nat, cost : Nat]
             \cup [status : {"SETTLED"}, side : Sides, shares : Nat, cost : Nat,
                   outcome : SettleableOutcomes, payout : Nat]
Invocation == [job : {"idle", "trade", "settle", "raised"}, todo : SUBSET Lines]
Idle       == [job |-> "idle", todo |-> {}]

(* Balances are natural numbers: available cash is never negative          *)
(* (invariants.py line 123).                                               *)
TypeOK ==
  /\ cohort \in [Cohorts -> {"none", "ACTIVE", "CLOSED"}]
  /\ baseline \in [Forecasts -> {"none", "waiting", "late", "attached", "NO_TIMELY_BASELINE"}]
  /\ decision \in [Lines -> Decisions]
  /\ ticket \in [Lines -> Ticket \cup {NoTicket}]
  /\ cash \in [Portfolios -> Seq(Entry)]
  /\ started \in [Markets -> BOOLEAN]
  /\ verdict \in [Markets -> SettleableOutcomes \cup {NoOutcome}]
  /\ run \in [Runs -> Invocation]
  /\ crashes \in 0..MaxCrashes

Init ==
  /\ cohort = [c \in Cohorts |-> "none"]
  /\ baseline = [f \in Forecasts |-> "none"]
  /\ decision = [l \in Lines |-> Undecided]
  /\ ticket = [l \in Lines |-> NoTicket]
  /\ cash = [p \in Portfolios |-> <<>>]
  /\ started = [m \in Markets |-> FALSE]
  /\ verdict = [m \in Markets |-> NoOutcome]
  /\ run = [w \in Runs |-> Idle]
  /\ crashes = 0

CohortOf(l)   == l[1][1]
ForecastOf(l) == <<l[1][1], l[2]>>

-----------------------------------------------------------------------------
(* Cash.                                                                   *)

AvailableCash(p) == IF cash[p] = <<>> THEN 0 ELSE cash[p][Len(cash[p])].balance

(* append_cash_entry.                                                      *)
WithEntry(p, type, amount, m) ==
  [cash EXCEPT ![p] = Append(@, [type |-> type, amount |-> amount, market |-> m,
     balance |-> AvailableCash(p) + IF type = "DEBIT" THEN -amount ELSE amount])]

HasEntry(p, type, m) == \E i \in DOMAIN cash[p] : cash[p][i].type = type /\ cash[p][i].market = m

OpenLines(p) == {l \in Lines : l[1] = p /\ ticket[l].status = "OPEN"}

OpenCost(p) == SumFunctionOnSet([l \in OpenLines(p) |-> ticket[l].cost], OpenLines(p))
Equity(p)   == AvailableCash(p) + OpenCost(p)

-----------------------------------------------------------------------------
(* The research run's transactions.                                        *)

(* A new identity supersedes the active cohort and funds its portfolios; a *)
(* cohort that is ACTIVE is left alone, and a closed one is refused.       *)
(* Faulty variants: the active cohort is left open; a closed cohort is     *)
(* reopened.                                                               *)
EnsureCohortBeside(c) ==
  /\ cohort[c] = "none"
  /\ cohort' = [cohort EXCEPT ![c] = "ACTIVE"]
  /\ cash' = [p \in Portfolios |-> IF p[1] = c THEN WithEntry(p, "FUNDING", Bankroll, "none")[p]
                                               ELSE cash[p]]
  /\ UNCHANGED <<baseline, decision, ticket, market, run, crashes>>

EnsureCohortAgain(c) ==
  /\ cohort[c] # "ACTIVE"
  /\ cohort' = [d \in Cohorts |-> IF d = c THEN "ACTIVE"
                                  ELSE IF cohort[d] = "ACTIVE" THEN "CLOSED" ELSE cohort[d]]
  /\ cash' = [p \in Portfolios |-> IF p[1] = c THEN WithEntry(p, "FUNDING", Bankroll, "none")[p]
                                               ELSE cash[p]]
  /\ UNCHANGED <<baseline, decision, ticket, market, run, crashes>>

EnsureCohort(c) ==
  /\ cohort[c] = "none"
  /\ cohort' = [d \in Cohorts |-> IF d = c THEN "ACTIVE"
                                  ELSE IF cohort[d] = "ACTIVE" THEN "CLOSED" ELSE cohort[d]]
  /\ cash' = [p \in Portfolios |-> IF p[1] = c THEN WithEntry(p, "FUNDING", Bankroll, "none")[p]
                                               ELSE cash[p]]
  /\ UNCHANGED <<baseline, decision, ticket, market, run, crashes>>

RecordForecast(f) ==
  /\ cohort[f[1]] = "ACTIVE"
  /\ baseline[f] = "none"
  /\ baseline' = [baseline EXCEPT ![f] = "waiting"]
  /\ UNCHANGED <<cohort, decision, ticket, cash, market, run, crashes>>

(* Time passes baseline_deadline.                                          *)
CloseWindow(f) ==
  /\ baseline[f] = "waiting"
  /\ baseline' = [baseline EXCEPT ![f] = "late"]
  /\ UNCHANGED <<cohort, decision, ticket, cash, market, run, crashes>>

(* Books fetched inside the window may be attached after it, whether or    *)
(* not the cohort is still active.                                         *)
AttachBaseline(f) ==
  /\ baseline[f] \in {"waiting", "late"}
  /\ baseline' = [baseline EXCEPT ![f] = "attached"]
  /\ UNCHANGED <<cohort, decision, ticket, cash, market, run, crashes>>

MarkNoTimelyBaseline(f) ==
  /\ baseline[f] = "late"
  /\ baseline' = [baseline EXCEPT ![f] = "NO_TIMELY_BASELINE"]
  /\ decision' = [l \in Lines |-> IF ForecastOf(l) = f /\ decision[l] = Undecided
                                  THEN "NO_TIMELY_BASELINE" ELSE decision[l]]
  /\ UNCHANGED <<cohort, ticket, cash, market, run, crashes>>

-----------------------------------------------------------------------------
(* trade: a forecast that needs decisions is listed with its undecided     *)
(* portfolios, and each is then decided in a transaction of its own.       *)

UndecidedLines(f) == {l \in Lines : ForecastOf(l) = f /\ decision[l] = Undecided}

(* resume_step = NEEDS_DECISION, in every cohort.                          *)
(* Faulty variant: only the active cohort is visited.                      *)
NeedsDecisionIfActive(f) ==
  cohort[f[1]] = "ACTIVE" /\ baseline[f] = "attached" /\ UndecidedLines(f) # {}

NeedsDecision(f) == baseline[f] = "attached" /\ UndecidedLines(f) # {}

ListUndecided(w, f) ==
  /\ run[w] = Idle
  /\ NeedsDecision(f)
  /\ run' = [run EXCEPT ![w] = [job |-> "trade", todo |-> UndecidedLines(f)]]
  /\ UNCHANGED <<ledger, market, crashes>>

(* The rest of an invocation's work after line l; Idle when none is left.  *)
Rest(w, l) ==
  IF run[w].todo = {l} THEN Idle ELSE [run[w] EXCEPT !.todo = @ \ {l}]

(* decide_portfolio finds the decision another run has made.               *)
AlreadyDecided(l) == decision[l] # Undecided

SkipDecided(w, l) ==
  /\ run[w].job = "trade" /\ l \in run[w].todo
  /\ AlreadyDecided(l)
  /\ run' = [run EXCEPT ![w] = Rest(w, l)]
  /\ UNCHANGED <<ledger, market, crashes>>

(* record_refusal_locked: the policy refuses, or the cohort has closed.    *)
Refuse(w, l) ==
  /\ run[w].job = "trade" /\ l \in run[w].todo
  /\ ~AlreadyDecided(l)
  /\ decision' = [decision EXCEPT ![l] =
                    IF cohort[CohortOf(l)] = "ACTIVE" THEN "REFUSED" ELSE "COHORT_CLOSED"]
  /\ run' = [run EXCEPT ![w] = Rest(w, l)]
  /\ UNCHANGED <<cohort, baseline, ticket, cash, market, crashes>>

(* What the policy may buy.                                                *)
(* Faulty variant: the budget is the equity.                               *)
BudgetOfEquity(l) == Equity(l[1])
Budget(l)         == AvailableCash(l[1])

Tradable(l) == cohort[CohortOf(l)] = "ACTIVE" /\ ~started[l[2]] /\ ticket[l] = NoTicket

(* The errors of open_ticket_locked, _check_backing and append_cash_entry, *)
(* which roll the transaction back and end the invocation.                 *)
OpenRaises(l, offer) ==
  \/ cohort[CohortOf(l)] # "ACTIVE"
  \/ baseline[ForecastOf(l)] # "attached"
  \/ decision[l] # Undecided
  \/ ticket[l] # NoTicket
  \/ HasEntry(l[1], "DEBIT", l[2])
  \/ AvailableCash(l[1]) < offer.cost

OpenTicket(w, l) ==
  /\ run[w].job = "trade" /\ l \in run[w].todo
  /\ ~AlreadyDecided(l)
  /\ Tradable(l)
  /\ \E offer \in Offers :
       /\ offer.cost <= Budget(l)
       /\ IF OpenRaises(l, offer)
          THEN /\ run' = [run EXCEPT ![w] = [job |-> "raised", todo |-> {}]]
               /\ UNCHANGED ledger
          ELSE /\ ticket' = [ticket EXCEPT ![l] =
                    [status |-> "OPEN", side |-> offer.side,
                     shares |-> offer.shares, cost |-> offer.cost]]
               /\ cash' = WithEntry(l[1], "DEBIT", offer.cost, l[2])
               /\ decision' = [decision EXCEPT ![l] = "TRADED"]
               /\ run' = [run EXCEPT ![w] = Rest(w, l)]
               /\ UNCHANGED <<cohort, baseline>>
  /\ UNCHANGED <<market, crashes>>

-----------------------------------------------------------------------------
(* settle: the open tickets are listed, and each is read again in a        *)
(* transaction of its own.                                                 *)

ListOpen(w) ==
  /\ run[w] = Idle
  /\ \E l \in Lines : ticket[l].status = "OPEN"
  /\ run' = [run EXCEPT ![w] = [job |-> "settle",
                                todo |-> {l \in Lines : ticket[l].status = "OPEN"}]]
  /\ UNCHANGED <<ledger, market, crashes>>

Settleable(l) == ticket[l].status = "OPEN" /\ verdict[l[2]] # NoOutcome

(* Settled meanwhile, or pending.                                          *)
SkipTicket(w, l) ==
  /\ run[w].job = "settle" /\ l \in run[w].todo
  /\ ~Settleable(l)
  /\ run' = [run EXCEPT ![w] = Rest(w, l)]
  /\ UNCHANGED <<ledger, market, crashes>>

(* The settlements row exists already, or the ticket has its CREDIT.       *)
SettleRaises(l) == ticket[l].status = "SETTLED" \/ HasEntry(l[1], "CREDIT", l[2])

Settled(l) ==
  LET t == ticket[l]
      o == verdict[l[2]]
  IN  [status |-> "SETTLED", side |-> t.side, shares |-> t.shares, cost |-> t.cost,
       outcome |-> o, payout |-> t.shares * Payout(t.side, o)]

(* Faulty variant: a lost ticket gets no CREDIT.                           *)
SettleTicketWithoutZero(w, l) ==
  /\ run[w].job = "settle" /\ l \in run[w].todo
  /\ Settleable(l)
  /\ IF SettleRaises(l)
     THEN /\ run' = [run EXCEPT ![w] = [job |-> "raised", todo |-> {}]]
          /\ UNCHANGED ledger
     ELSE /\ ticket' = [ticket EXCEPT ![l] = Settled(l)]
          /\ cash' = IF Settled(l).payout = 0 THEN cash
                     ELSE WithEntry(l[1], "CREDIT", Settled(l).payout, l[2])
          /\ run' = [run EXCEPT ![w] = Rest(w, l)]
          /\ UNCHANGED <<cohort, baseline, decision>>
  /\ UNCHANGED <<market, crashes>>

SettleTicket(w, l) ==
  /\ run[w].job = "settle" /\ l \in run[w].todo
  /\ Settleable(l)
  /\ IF SettleRaises(l)
     THEN /\ run' = [run EXCEPT ![w] = [job |-> "raised", todo |-> {}]]
          /\ UNCHANGED ledger
     ELSE /\ ticket' = [ticket EXCEPT ![l] = Settled(l)]
          /\ cash' = WithEntry(l[1], "CREDIT", Settled(l).payout, l[2])
          /\ run' = [run EXCEPT ![w] = Rest(w, l)]
          /\ UNCHANGED <<cohort, baseline, decision>>
  /\ UNCHANGED <<market, crashes>>

-----------------------------------------------------------------------------
(* The surroundings.                                                       *)

(* A poll stores an observation; a verdict may come, change and go         *)
(* (module ResolutionPolling), but a market stays started.                 *)
Observe(m) ==
  /\ \E s \in {started[m], TRUE}, v \in SettleableOutcomes \cup {NoOutcome} :
       /\ v # NoOutcome => s
       /\ started' = [started EXCEPT ![m] = s]
       /\ verdict' = [verdict EXCEPT ![m] = v]
  /\ UNCHANGED <<ledger, run, crashes>>

Crash(w) ==
  /\ run[w].job \in {"trade", "settle"}
  /\ crashes < MaxCrashes
  /\ crashes' = crashes + 1
  /\ run' = [run EXCEPT ![w] = Idle]
  /\ UNCHANGED <<ledger, market>>

Resume(f)  == AttachBaseline(f) \/ MarkNoTimelyBaseline(f)
Work(w, l) == SkipDecided(w, l) \/ Refuse(w, l) \/ OpenTicket(w, l)
              \/ SkipTicket(w, l) \/ SettleTicket(w, l)

Next ==
  \/ \E c \in Cohorts : EnsureCohort(c)
  \/ \E f \in Forecasts : RecordForecast(f) \/ CloseWindow(f) \/ Resume(f)
  \/ \E w \in Runs : \/ ListOpen(w) \/ Crash(w)
                     \/ \E f \in Forecasts : ListUndecided(w, f)
                     \/ \E l \in Lines : Work(w, l)
  \/ \E m \in Markets : Observe(m)

Spec == Init /\ [][Next]_vars

(* Time passes, research resumes what is late, and trade and settle run    *)
(* again and again (the daily cycle of cli.py line 265); an invocation     *)
(* that has started runs on.  Nothing obliges a market to resolve.         *)
Fairness ==
  /\ \A f \in Forecasts : /\ WF_vars(CloseWindow(f))
                          /\ WF_vars(baseline[f] = "late" /\ Resume(f))
  /\ \A w \in Runs : /\ \A f \in Forecasts : SF_vars(ListUndecided(w, f))
                     /\ SF_vars(ListOpen(w))
                     /\ WF_vars(\E l \in Lines : Work(w, l))

FairSpec == Spec /\ Fairness

-----------------------------------------------------------------------------
(* The audit of `doctor` (invariants.py) and the performance report.       *)

Entries(p, type, m) == {i \in DOMAIN cash[p] : cash[p][i].type = type /\ cash[p][i].market = m}

(* Exactly one entry of this type for the ticket, of this amount.          *)
OneEntry(p, type, m, amount) ==
  \E i \in DOMAIN cash[p] : Entries(p, type, m) = {i} /\ cash[p][i].amount = amount

CashSound(p) ==
  IF cohort[p[1]] = "none" THEN cash[p] = <<>>
  ELSE /\ cash[p] # <<>>
       /\ \A i \in DOMAIN cash[p] :
            LET entry == cash[p][i] IN
            /\ (entry.type = "FUNDING") <=> (i = 1)
            /\ (entry.type = "FUNDING") <=> (entry.market = "none")
            /\ entry.market # "none" => ticket[<<p, entry.market>>] # NoTicket
            /\ entry.balance >= 0
       /\ cash[p][1].amount = Bankroll

(* The observation that a settlement names is never changed, so its        *)
(* outcome is the one kept with the ticket.                                *)
SettlementSound(l) ==
  /\ ticket[l].outcome \in SettleableOutcomes
  /\ ticket[l].payout = ticket[l].shares * Payout(ticket[l].side, ticket[l].outcome)

TicketSound(l) ==
  LET t == ticket[l] IN
  t # NoTicket =>
    /\ baseline[ForecastOf(l)] = "attached"
    /\ decision[l] = "TRADED"
    /\ OneEntry(l[1], "DEBIT", l[2], t.cost)
    /\ IF t.status = "OPEN" THEN Entries(l[1], "CREDIT", l[2]) = {}
       ELSE OneEntry(l[1], "CREDIT", l[2], t.payout) /\ SettlementSound(l)

(* A decision that refers to a ticket refers to one that exists. *)
NoOrphan(l) == decision[l] = "TRADED" => ticket[l] # NoTicket

OneActiveCohort == Cardinality({c \in Cohorts : cohort[c] = "ACTIVE"}) <= 1

(* verify_ledger, which reads all of it in one transaction. *)
LedgerVerified ==
  /\ OneActiveCohort
  /\ \A p \in Portfolios : CashSound(p)
  /\ \A l \in Lines : TicketSound(l) /\ NoOrphan(l)

SettledLines(p) == {l \in Lines : l[1] = p /\ ticket[l].status = "SETTLED"}

Realized(p) ==
  SumFunctionOnSet([l \in SettledLines(p) |-> ticket[l].payout - ticket[l].cost], SettledLines(p))

(* The money of portfolio_section, when nothing commits while it reads. *)
Report(p) ==
  [cash     |-> AvailableCash(p),
   locked   |-> OpenCost(p),
   equity   |-> AvailableCash(p) + OpenCost(p),
   open     |-> Cardinality(OpenLines(p)),
   settled  |-> Cardinality(SettledLines(p)),
   realized |-> Realized(p)]

-----------------------------------------------------------------------------
(* Properties.                                                             *)

(* The reported equity is the bankroll plus the reported result of the     *)
(* settled tickets, and it is the equity that the policy sees.             *)
EquityExplained(p) ==
  /\ Report(p).equity = Bankroll + Report(p).realized
  /\ Report(p).equity = Equity(p)

(* However the processes interleave and wherever they die, `doctor` has    *)
(* nothing to report: every portfolio has one funding first, every ticket  *)
(* its decision, baseline, one debit and, once settled, one credit of what *)
(* it is owed, and one cohort at most is active; and no ticket is counted  *)
(* twice, lost, or counted both as cash and as locked in the report        *)
(* (invariants.py line 378, performance.py line 277, tickets.py line 264). *)
BooksAreSound ==
  /\ TypeOK /\ LedgerVerified
  /\ \A p \in Portfolios : cohort[p[1]] # "none" => EquityExplained(p)

(* The ledger's own errors are never raised by concurrent invocations: the *)
(* skips and checks made inside each transaction are enough, so a stale    *)
(* listing or a spent budget is never an error (paper.py line 204).        *)
NoInvocationRaises == \A w \in Runs : run[w].job # "raised"

(* Once a cohort has closed its portfolios spend nothing more, whatever a  *)
(* trade had already listed; they only receive what their tickets are      *)
(* owed.                                                                   *)
ClosedCohortsOnlyReceive ==
  [][\A p \in Portfolios :
       cohort[p[1]] = "CLOSED" =>
         \/ cash'[p] = cash[p]
         \/ cash'[p][Len(cash'[p])].type = "CREDIT"]_vars

(* Every recorded forecast is decided in every portfolio of its cohort,    *)
(* even when the cohort closes first or no book is ever fetched in time.   *)
EveryForecastDecided ==
  \A l \in Lines : baseline[ForecastOf(l)] # "none" ~> decision[l] # Undecided

(* A ticket on a market whose verdict stays is settled, also when its      *)
(* cohort has closed.                                                      *)
EveryVerdictPaid ==
  \A l \in Lines :
    <>[](verdict[l[2]] # NoOutcome) => (ticket[l].status = "OPEN" ~> ticket[l].status = "SETTLED")

(* Nothing is left open: what was forecast is decided, and what was bought *)
(* and is over is paid (paper.py line 240, settlement.py line 141).        *)
NothingIsLeftOpen == EveryForecastDecided /\ EveryVerdictPaid
=============================================================================
