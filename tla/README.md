# Verification of Japan_Agent

This directory holds TLA+ models of the two programs in this repository, the TLC
configurations that check them on small instances, and TLAPS proofs of their most
important properties.

* `japan_agent` proposes trades, asks a human, and sends approved orders to Trading 212.
* `predict_agent` forecasts Polymarket questions and trades them on paper.

## 1. Inventory

### japan_agent

| Component | State it keeps | Operations | What makes it correct |
|---|---|---|---|
| Store (`storage.py`) | tables `proposals`, `executions`, `events` (hash chain), and append-only inputs (`snapshots`, `research_runs`, `ingest_runs`) | one transaction per method: `create_proposal`, `decide_proposal`, `mark_expired`, `has_open_duplicate`, `submitted_trade_times`, `claim_execution`, `update_execution`, `append_event` | a ticket never changes; its two rows agree; the ledger never says what did not happen |
| Approval service and channels (`approve/`) | none of its own; the poller keeps an offset in memory | approve, reject, redelivered button presses, webhook threads | one verdict per ticket, in time, by the configured human |
| Proposal workflow (`workflow.py`) | none | propose: weekly count, duplicate check, build, insert | no second open ticket for one ticker and side |
| Execution service (`execute/service.py`) | none; everything in the store | execute, reconcile | an order is POSTed at most once, only with consent; every answer is recorded truthfully |
| Broker client (`execute/t212.py`) | none | place order, query order and history | a definite rejection and an unknown outcome are told apart |
| Risk engine (`risk/engine.py`) | none | weekly limit, position, cash and satellite caps, expiry | limits hold across concurrent and repeated invocations |
| Ingest and research (`ingest/`, `research/`) | snapshots, research items, heartbeats, research runs | store a batch entry by entry, assemble a snapshot, record what was shown | a heartbeat never precedes its data; a ticket cites what its model was shown, and recently |
| Journal, identity, configuration | JSONL mirror, files | rendering, parsing | out of scope: no state that several steps share |

The processes are separate command-line invocations and handler threads that share one
SQLite file. They hold no lock between transactions, may die anywhere, and talk to a
broker whose order endpoint is not idempotent and may not answer.

### predict_agent

| Component | State it keeps | Operations | What makes it correct |
|---|---|---|---|
| Paper ledger (`cash.py`, `tickets.py`, `paper.py`, `cohorts.py`) | cohorts, portfolios, decisions, tickets, cash entries | open a cohort, decide a forecast in a portfolio, open a ticket, refuse | one decision per portfolio and forecast; every cash entry is backed; cash never negative; a closed cohort takes no entries |
| Settlement (`settlement.py`, `resolution.py`, `collect.py`) | resolution observations, settlements | poll, settle open tickets | tickets settle once, on the newest unambiguous evidence |
| Research run (`research_run.py`, `forecasts.py`, `budget.py`) | attempts, forecasts, baselines | one day's research under a lock, recovery after a crash | the daily budget holds; a forecast is committed before any price is seen; interrupted work is resumed or closed |
| Discovery and snapshots (`collect.py`) | markets, rules versions and their journal, fee rows, books, refusals, runs | discover, snapshot, poll | the journal is the history of the rules; a completed run is whole; a book's fee was in force |
| Policy and fills (`policy.py`, `fills.py`) | none | size and price a trade | fills are the best the recorded book gives and stay within every cap |
| Session (`research/sdk.py`) | transcript, fetched URLs, what was reported | admit or deny tool calls, read messages, close | nothing runs before the toolset is verified; a session without an error can be relied on |
| Reports (`performance.py`, `report.py`, `scoring.py`) | none | equity, shortlists, scores | the report of a finished run stands; equity is explained |
| CLI (`cli.py`) | lock files | run-daily: data, settle, research, trade, report | one failed step never stops the independent ones; research has today's data |

### The hard behaviours

* Two or more invocations interleave between transactions: a check made in one transaction
  is used in the next (`execute`, `settle`, `trade`, `resolve`).
* A process may die between two transactions, between a broker request and its answer, or
  inside a paid session.
* A broker order cannot be repeated, its answer may be lost, late or unreadable, and its
  fate may be learned only by a later query.
* Evidence about a market is gathered at one time and stored at another, by polls that
  overlap, from two services that may contradict each other and change their mind.
* A cohort is superseded while its forecasts, tickets and attempts are still open.
* Telegram hands a button press over again until it counts as delivered; the poller's
  offset is lost when it stops.
* Ingests and collections store row by row and may stop half-way; what comes next must not
  take the rest for the whole.
* Hooks run while a session is being closed.
* Limits (weekly orders, daily budget, cash) are counted from rows that another process,
  or an earlier crash, may leave incomplete.

Every hazard is listed in `PROJECT.json` at its line, with the properties that cover it.

## 2. Plan

Done, in this order:

1. `ProposalStore`, `TradeExecution` (core: real money), with the abstract `OrderPromise`;
   proofs in `TradeExecutionProofs`.
2. `Settlement` (which observation governs), `SettlementRows` (the rule over every table),
   `ResolutionPolling` (polls that overlap, and settlement); proofs in `SettlementProofs`
   and `ResolutionPollingProofs`.
3. `PaperLedger`: cohorts, decisions, tickets, cash, settlement, using `Settlement`; proofs
   in `PaperProofs`.
4. `ResearchRun`: the day's paid sessions, the budget, recovery, stop rules; proofs in
   `ResearchRunProofs`.
5. `Approvals`: the way of a verdict from a button, or a command, to the store; proofs in
   `JapanAgentProofs`.
6. `PaperPolicy`, `RiskLimits`: the arithmetic of both programs against references; proofs
   about the first in `PaperProofs`, about the second in `JapanAgentProofs`.
7. `ResearchSession`: the hooks, the messages and the close of one session; proofs in
   `CollectionProofs`.
8. `Collection`: discoveries, snapshots, polls, and the daily cycle that chains them; proofs
   in `CollectionProofs`.
9. `Evidence`: from an ingest to a ticket that cites it; proofs in `JapanAgentProofs`.

`SumLemmas` holds what the proofs about money need: how a sum over a finite set changes when
one term changes, or one element comes or goes.

Next, in this order:

| Module | Question | Kind |
|---|---|---|
| `EventChain` | the hash chain, its JSONL mirror, a crash between the two | TLC, then a proof |

Abstract specifications worth stating: `OrderPromise` (done), the reference statement of
the settlement rule (done, `SettlesAt`), the best purchase a book allows (done, in
`WalkIsBest`), an audit trail that only grows (for `EventChain`).

## 3. The models and the code

In every module a step is one SQLite transaction, one HTTP request, one HTTP answer or one
paid session. Nothing is held between transactions except the research lock, so everything
else interleaves there. What a process read before a step and uses after it is part of its
local state. Texts, JSON and logging are left out; so are ids and hashes unless a property
tells them apart.

### TradeExecution (japan_agent)

`ProposalStore` is `storage.py`: the ticket row (`status`, with its deadline), the
execution row (`exec`, `submittedAt`) and the event ledger, with one operator per
transaction. `TradeExecution` gives each process one operation at a time: propose
(`count`, `duplicate`, `create`), decide, execute (`read`, `retire`, `check`, `claim`,
`post`, `await`, `record`, `log`) and reconcile (`lookup`, `query`, `record`, `log`). The
process reads the clock once, as the services do with their parameter `now`. The broker
(external) accepts, refuses, fills or cancels at any time; its answer may be lost or, within
a bound, break off. `OrderPromise` is the promise seen from outside: consent once, one
order, an account of it that may be late but not false. The mapping is
`consent` from the verdict (`decided`), `fate` from the broker's order and `book` from the execution row.

### Settlement, SettlementRows, ResolutionPolling (predict_agent)

`Settlement` is the rule of `settlement.py` and `resolution.py`: a row's evidence
has an interval, from the resolution request to the later of its answer and the Gamma fetch
(the request and the Gamma times may be NULL). The row whose evidence ended last governs,
and nothing settles while a row that disagrees with it had not ended when it started.
`SettlementRows` inserts any rows in any order and compares the rule with its reference.
`ResolutionPolling` is the protocol around it: `poll_resolutions` asks two services one
after the other and stores at the end, while the world moves on from era to era and other
polls do the same; `settle_open_tickets` reads what is stored.

### PaperLedger (predict_agent)

Cohorts and funded portfolios, the forecast and its baseline, and two kinds of unlocked
invocation: `trade` (lists undecided forecasts, then decides each in a transaction of its
own: refuse or open a ticket with its decision and its debit) and `settle` (lists open
tickets, then settles each). `EnsureCohort` may supersede a cohort between any two steps.
The policy may refuse or choose any of `Offers` within the budget. `BooksAreSound`
holds the part of the ledger audit (`verify_ledger` in `invariants.py`) that concerns these
tables, and the equity a report shows.

### ResearchRun (predict_agent)

A run takes the lock, opens or finds its cohort, recovers every open attempt one by one,
lists updates and entries, and for each market checks the budget, opens an attempt, waits
for the session, and records or refuses. `spent` is what the session really cost; the
program learns it only from a report and otherwise charges the cap frozen in the attempt's
cohort. That a session stays within the cap it was given is the SDK's part and is assumed.
A run may die at any step, and the next one may work under another configuration.

### Approvals (japan_agent)

Uses `ProposalStore`. Telegram (external) keeps the presses and hands them over by long
polling (`Fetch`, `FetchFails`, `Take`: `polling.py`) or to webhook threads (`Deliver`:
`webhook.py`); an update may be unreadable or from somebody else. Each worker goes through
`decide` (the verdict transaction), `event` (the ledger transaction) and `ack`
(`answerCallbackQuery`); the local command does the first two. `Die` covers a killed process
and an exception nobody catches: the poller then stops and loses its offset and its batch.

### PaperPolicy (predict_agent)

`Decide` is `policy.decide`: the gate, the probability of each side, the headroom under four
caps, the Kelly stake, the fill walk with its fees, and the choice of a side.
`FillProblems` is the audit that `doctor` makes of the stored ticket. Numbers are exact
integers in a unit fine enough for every product the code forms. `WalkAsks` goes up the
prices rather than along a sorted list: a price without a level leaves the walk as it is
(`Visit`). The refusals are a table in the order of the code (`Checks`). The only step poses
a case; the runs pose a bounded set of books, forecasts and accounts.

### RiskLimits (japan_agent)

`BuildBreaches` and `ValidateBreaches` are the two halves of `risk/engine.py`, with the
rounding to pence and to fractions of shares. The actions move what they read: prices move,
a new portfolio file is taken or an old one used again, and a ticket is proposed, then
executed at the price of that moment.

### ResearchSession (predict_agent)

One session of `ClaudeSdkRunner`: the SDK (external) asks for tools in any order, before the
init report and during the close too, and sends an init report, a result, the end of the
stream, an error, or nothing until the deadline. Each hook call is a step. `Outcome` is what
the session returns.

### Collection (predict_agent)

Discovery lists, tracks known markets, asks for their states and stores each market with its
rules and fee rows; a snapshot fetches and inserts book by book; a poll reads all markets and
stores at the end. The processes run the commands of `cli.py` with their locks; `run-daily`
chains run-data, research and the report, goes on after a failed step, and may be killed.
A listing stands for a version of the rules with the fee it charges. `Shortlist` is what the
report of a run shows.

### Evidence (japan_agent)

Ingests store prices or research items entry by entry, then the heartbeat, and may stop
anywhere. Research checks source by source that a heartbeat and the prices are recent,
reads the items under its quotas, saves what was shown, and decides; `ProposeOn` checks the
citations at any later time. Left out: J-Quants, whose observations are twelve weeks old by
design and exempt from the age limit, the 120-day window of items, and clocks that differ by
less than the tick of the model.

### The audit and the reports

`PaperLedger` states the audit of `invariants.py` as `CashSound`, `SettlementSound`,
`TicketSound`, `NoOrphan` and `OneActiveCohort` (together `LedgerVerified`), and the equity
of `performance.py` as `Report`; the audit of one fill is `FillProblems` in `PaperPolicy`.

## 4. The runs

| Run | States | Bounds | Shows |
|---|---|---|---|
| TradeRaces | 773,721 | 1 ticket, 3 processes, 1 crash, 1 unreadable answer | one POST, with consent; rows agree; nothing false is recorded; `OrderPromise` is implemented |
| TradeProgress | 32,411 | 1 ticket, 2 processes, no crash | every claim is resolved; the ledger catches up |
| TradeLimits | 1.9 million | 3 tickets, 2 lines, 1 process, no crash | weekly limit, one live order per line |
| Rules | 629,257 | five components that share no state, each behaviour in one of them: tables of 3 rows, 3 times, NULLs and 3 verdicts; books of up to 3 levels in tenths, 6 forecasts, 2 probability sources; 2 tickers, 2 prices, 2 orders; 2 tool calls; 2 feeds, 3 ingests, 1 research run, 3 times | settlement rule = reference; the walk is the best purchase, trades keep their caps and pass the audit; orders keep caps and cash floor; session outcomes are sound; tickets cite recent evidence they were shown |
| Approvals | 82,662 | 1 ticket, 2 presses, 2 webhook threads, a poller and a local command, 2 deaths | a verdict was given and stands; the ledger tells it; no press is lost or left unanswered |
| Collection | 290,458 | 1 market, 2 listings that change once, a daily cycle and a manual process, 2 runs, 1 death | the rules journal is a history; completed runs are whole, their reports stand; fees were in force; the cycle reports |
| PollOverlap | 4.3 million | 2 polls at once, 2 rows, 2 eras, 3 times | settles only on evidence both services showed, and on the newest |
| PaperRaces | 15,875 | 2 markets, 2 invocations, 1 crash, bankroll for one ticket and a half | the books are sound (audit silent, equity explained), no ledger error |
| PaperProgress | 14,077 | 2 cohorts, 1 market, 2 invocations, 1 crash | the books are sound; a closed cohort only receives; nothing is left open: every forecast decided, every verdict paid |
| ResearchBudget | 207,056 | 2 caps, 2 markets, 1 run at a time, 3 attempts, 1 entry a day, 2 days | daily cost and volume; every attempt is closed |
| ResearchStreaks | 825,318 | 2 competing runs, 4 markets, 4 attempts, all failures | no live session is recovered, nothing paid for twice; retries and streaks stop |

`Rules` is a sum: `MCRules` starts each behaviour in one of five parts and leaves the other
parts' variables as they are, so its properties speak of each component alone.

Why the bounds suffice. One ticket is enough for `TradeRaces` because tickets share
nothing but the weekly count and the duplicate check, which `TradeLimits` covers with
three; three processes give one that decides, one that executes and one that interferes.
A table of three rows has every way in which two rows can disagree about a third. Two
overlapping polls and two eras already give every order of gathering and storing. Two
tickets competing for one bankroll, one of which fits, give the cash races. Three attempts
under two caps are what a budget error needs: one that is lost, one that is charged and one
too many; with one entry a day, the second session of a day is an update; `ResearchStreaks` needs four, one more than the longest streak. `ResearchBudget`
meets only failures on one market (`SessionFailures`), since the other kinds only empty the
queue earlier; `ResearchStreaks` covers them.

Two presses give both buttons, a press repeated, or a bad one before a good one; two deaths
are what it takes to lose the poller and then the worker that took over. One change of a
listing, seen or missed by two overlapping commands, gives every order in which rules can
be stored; with a second market nothing new is shared. Books with three levels and sizes below, at and above a quantum
meet every stop of the walk. Two orders on two tickers are needed to use a portfolio file
twice. Two tool calls give one that ran and one that was lost. Three ingests are two feeds
and the prices, or one feed again after it stopped half-way.

Symmetry is used only in runs without liveness, over processes, lines, markets, variants
or tickets that no constant tells apart. Deadlock is checked where the system cannot stop;
`CHECK_DEADLOCK FALSE` stands where all rows are inserted, or the whole day's work is done.

### Where the code departs from its documents

* `TradeCrashForgets` (a run that finds the violation, quoted in `PROJECT.json`): an execution
  dies between POST and record. The ticket stays APPROVED and expires; a replacement is
  proposed, approved and posted while the first order lives.
* `COALESCE(?, submitted_at)` (`storage.py` line 543) takes the newest time, not the earliest
  as the comment above it says, so a reconciliation moves an order into another week. In the
  model `UpdateExecution` does the same; `WeeklyCap` holds while invocations do not overlap.
* An order answer that breaks off or is not UTF-8 escapes every except clause of
  `UrllibTransport.request` and `execute`; the claim stays CLAIMED without a reconciliation
  state (`docs/ARCHITECTURE.md` line 39). `CutAnswer` models it; `TradeProgress` leaves it out
  (`MaxCuts = 0`), since `ClaimIsResolved` is false with it.

Two limits of what passes: `WeeklyCap` and `OneLiveOrderPerLine` are checked with one
invocation at a time. Two executions at once may both count the week before either is
recorded, and a ticket that another process retires between an execution's checks and its
claim is still posted; nothing in the code serialises invocations, only the habit of a single operator does.

## 5. Fairness

* `TradeExecution`: weak fairness of each process's own step. The operating system
  schedules it, the HTTP client gives up after 15 s, and SQLite's busy wait ends after
  10 s. Nothing obliges a human, the broker or the clock to act.
* `PaperLedger`: a baseline window closes in the end, since time passes, and the research
  run that follows resumes the forecast. The daily cycle starts `trade` and `settle` again
  and again, hence strong fairness of their listings (which are possible only while the
  invocation is idle), and weak fairness of the work listed. Crashes are bounded.
* `ResearchRun`: cron starts a run whenever the lock is free; a run's next step is taken
  unless it dies (sessions end or time out); and a run that again and again has something
  to recover does recover it (it does not die there forever).

* `Approvals`: workers that run go on; the operator restarts the poller
  (`docs/OPERATIONS.md`, lines 50 to 52); some `getUpdates` calls are answered; Telegram posts
  every update it has not dropped, strongly fair because a thread must be free for it. Deaths
  are bounded; nobody has to press a button.
* `Collection`: a process that runs goes on until its requests end (they have timeouts), and
  `resolve` is started again and again by the daily cycle's poll. Nothing obliges the venue to
  list anything, and a daily cycle may be killed.

## 6. The proofs

Each theorem holds for every value of the constants that the named assumption of its module
allows: any sets of processes, tickets, markets and cohorts, any caps, streaks, prices and
bounds. In every module the properties the runs check are too weak to be carried from step
to step; the inductive invariant adds what a process remembers between two transactions.
Every inductive invariant was an invariant of a TLC run before it was proved.

`TradeExecutionProofs`, from `ExecutionAssumption` and `StoreAssumption`: `TypeCorrect`; then
`Invariance`: `IInv == TypeOK /\ StoreInv /\ ProcInv` is inductive. That a ticket is posted
at most once depends on what a process still remembers. `Remembers(w)` says, for each place
a process may be in, what stays true of the store and the broker until it gets further (a
process about to post owns a fresh claim and nothing was sent; one that carries an outcome
carries a true one). `Exclusive` says that two processes never own the same ticket's order.
`TicketInv` ties the ticket row, the decision and the posts together. From it `SinglePost`,
`OrdersHaveConsent`, `StoreIsTruthful`, and `PromiseKept`: each step is a step of
`OrderPromise` under the mapping, or a stutter.

`WeeklyCap` and `OneLiveOrderPerLine` fail when invocations overlap or die, as section 4 tells;
`CapHoldsAlone` and `LinesAreFreeAlone` are about `Alone(w)`: `w` is the only process, and no
invocation dies or gets an unreadable answer. Then what was read stays true until it is used
(`StillTrue`), every order that was not refused counts from its post on (`Counted`), and an
approval blocks its line until the record takes over (`OneOpen`): an expired ticket is not
sent, because the clock reading of a lone invocation is never behind another's.

`SettlementProofs`, from `RowsAssumption`: `RowsStaySound` (the table is finite, rows end no
earlier than they start, and every non-empty selection has a last, a youngest and a first
row; inductive over `Insert`, and needed because the rule chooses such rows), and from it
`RuleIsSound` (rule = reference, for tables of any size) and `LaterPollWins` (a poll begun
after all recorded evidence had ended governs alone; no run states it, since it follows
from the reference).

`ResolutionPollingProofs`, from `PollingAssumption` (worlds are rulings and prices): the rule
knows only times, while the properties speak of eras of the world. `Ordered` ties the two:
of two observations, rows or polls under way, the one requested after the other was answered
shows nothing older. `RowsTrue` says what a confirmed row tells of the eras it saw, `Past`
that nothing comes from the future, and `RowsSound` of the instantiated `SettlementProofs`
that the rule has rows to choose. From `PollingInvariant` follow `PaysConfirmed` and
`SettlesOnNewest`, an action property.

`PaperProofs`, from `LedgerAssumption` ("none" is no market, costs and the bankroll are
positive): `LedgerInvariant`. `BooksAreSound` and `NoInvocationRaises` need each other: a debit
is booked because no error is raised, and none is raised because the books are sound.
`Listed` (what a trade still has to decide has its baseline), `Unborn` (no forecasts before
the cohort) and `FewLines` (finitely many tickets) are the rest; the equity of the report is
a sum over tickets, moved by one term at a time. From it `DoctorHasNothingToReport`,
`LedgerNeverRaises` and, as an action property, `ClosedCohortsReceive`.

The same module has the policy, from `PolicyAssumption` (the units are positive; the books of
every case posed are parsed ones, with prices between 0 and 1 and sizes above 0, and a
forecast that does not abstain has its probabilities). Books are of any length, so the walk
is followed price by price: `Tallied` (fills lie within the levels and the limit, totals are
the sums of the fills, the cost stays within the budget) and `Greedy` (every level below has
been bought, or one of them ended the walk; it rests on `CostsGrow`: a fee rate below 1 makes
a share dearer as its price rises). `WalksAreOptimal` is an exchange argument: where the walk
ended there is a cost per share that divides what was bought from what was not
(`MarginExists`), and any other purchase gives up cheaper shares for dearer ones. From
`Tallied` alone follow `AuditFindsNothing`, `TradesKeepTheCaps` and `TradesKeepTheEdge`.

`ResearchRunProofs`, from `ResearchAssumption` (no run is `Free`, no cohort is `NoCohort`, no
cap exceeds the daily budget, a session costs at most its cap): `ResearchInvariant` rests on
`Locked` (the holder of the lock is the only run under way), `OpenIsLast` (an open attempt is the
newest: that of the run's session, or one a dead run left, and then every run is before its
recovery), `QueueSound` (what is queued is fresh and stays so) and `StreakSound` (the streak a
run counts in memory reaches back to the attempt that broke it). From it `PaidAtMostOnce`
and `WasteIsBounded`. `LimitsHold` adds `Covered` (charges are never less than costs),
`WithinLimits`, and `HasRoom` (the room a market was cleared for is still there when its
attempt is opened, perhaps after midnight).

`CollectionProofs`, from `CollectionAssumption` (finitely many markets, at least one market and
one listing, natural bounds; the fairness of `Spec` is not used): the journals are nearly
inductive (`Chained`), the rest is about what processes remember. `Gathered` says, for each
place a process may be in, what its run already holds and what it still has to ask for;
`Owns` and `Apart` that a run under way is of one process, `Sourced` that a run draws on a
completed one, `Clocked` what was known when a book was fetched, `Daily` what a cycle
remembers of its data run. `Touches(r)` makes this stable: a step adds rows to one run, and that
run has not ended. From `CollectionInvariant`: `JournalIsHistory`, `CompletedRunsStayWhole` (with
a lemma on cardinalities for the outage rule), `TodaysDataReachResearch`, and the action
properties `FeesWereInForce` and `ReportsStand`.

The same module has the session (no assumption): `Toolset` (what "verified" stands for),
`OnRecord` (what the transcript has of each call that ran) and `Course` (how the reading of
messages may have ended) make `SoundOutcome` and `ToolsRunVerified` inductive:
`OutcomeIsSound`, `ToolsAreVerified`.

`JapanAgentProofs` has the components around the execution, each under its own specification
(`Spec`, `EvidenceSpec`, `RiskSpec`):

* Approvals, from `ApprovalsAssumption` (the bounds are naturals, the poller and the local
  command are no webhook threads): `ApprovalsInvariant`, whose new parts are `Honest` (a worker
  carries only a verdict that was given, and one about to append its event carries the
  ticket's), `Queue` (a batch holds recorded updates only) and `Undecided` (a PENDING ticket
  has no verdict); without `Honest` nothing ties the event to the ticket. From it
  `VerdictsAreGiven` and `LedgerTells`.
* The evidence, from `EvidenceAssumption` (a whitelist and feeds, none of them the price
  feed; age limits are naturals): `TicketsRest` is about the end of a long chain, and the
  invariant follows the data along it: `Storing` (what an ingest has stored), `Checked` (what
  an assembly has checked), `ManifestSound`, and decisions that name existing manifests.
* The risk engine, from `RiskAssumption` (finitely many tickers, a positive lot and prices,
  an opening account that has its floor): `FloorIsKept` by `FileIsAccount`, since the account
  is only ever checked through the portfolio file; `CapsAreKept` and `OneDecisionOneOrder` are
  arithmetic: half a penny per rounding, whole lots towards a target, and a fill that moves
  money between cash and a position but never the NAV.

`SumLemmas` proves what `SumFunctionOnSet` computes on every finite set: it is an integer, any
element may be taken off first, a sum grows by what is added. The library's induction
theorems take an operator as a parameter, which the provers cannot instantiate; these proofs
take a smallest set on which the claim fails instead, since strict inclusion is well founded
on the subsets of a finite set.

Only model-checked: all liveness (fairness and ENABLED are beyond the prover). Every invariant
and action property of the runs that pass is stated by a theorem; `WeeklyCap` and
`OneLiveOrderPerLine` under `Alone(w)` only, beyond which they are false.

## 7. Not modelled

* The clients' parsing, text rendering, prompts, scores and configuration: no state, or
  text only.
* Quotes, portfolio, whitelist and live-gate tests of `execute` may pass or refuse in
  `TradeExecution`; `RiskLimits` has their arithmetic, `Evidence` the citations.
* `ResearchRun` leaves out end dates and the age of the discovery run: a market may leave
  the queue at any time, and a run may find nothing to do. It also leaves out the fallback
  for a frozen cap that cannot be read. Baselines are in `PaperLedger`.
* The resolution check of `research_market` happens before the record and outside its
  transaction. The model has both steps; the code promises nothing about what comes between.
* `Collection` does not model what makes a market eligible, nor the paging of lists.
* The event hash chain and its JSONL mirror: planned, see section 2.
* A torn performance report (`performance.py` line 277 reads in several queries; it is only
  printed), a kill switch set between its check and the POST (`execute/service.py` line 58;
  it stops the next order), two processes that mirror the event ledger at once
  (`storage.py` line 650; the mirror is rewritten at the next event), and a forecast's
  `created_at`, read before its commit (`research_run.py` line 436), so that a book fetched in
  between counts as fetched after it.
* An item whose text is replaced after research read it: see its note in the hazard list.
