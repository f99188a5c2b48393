----------------------------- MODULE ResearchRun -----------------------------
(***************************************************************************)
(* The research run of predict_agent (research_run.py, budget.py and the   *)
(* attempts of forecasts.py): one day's paid research sessions under the   *)
(* research lock, with their budget, the recovery of what an earlier run   *)
(* left behind, and the rules that stop a run.                             *)
(*                                                                         *)
(* One step is one transaction, or one session.  A run may die anywhere;   *)
(* the lock dies with it, its open attempt stays STARTED, and what the     *)
(* session really cost is then known to nobody.  The day may change        *)
(* between any two steps.  Each attempt carries that real cost as "spent", *)
(* which the program only learns when a session reports it.                *)
(*                                                                         *)
(* A run works for the cohort its configuration names, and the cap of a    *)
(* session is frozen in the cohort.  Abstracted: the queue's order (any),  *)
(* refusal rows (a refused market just leaves the queue), the discovery    *)
(* run (every market is listed unless discovery is stale) and baselines    *)
(* (module PaperLedger; here they may report an outage).                   *)
(***************************************************************************)
EXTENDS Integers, FiniteSets, FiniteSetsExt

CONSTANTS
  Runs,             \* research invocations
  Cohorts, Markets,
  CapOf,            \* per_forecast_usd frozen in each cohort
  DailyUsd,         \* daily_usd
  MaxEntries,       \* max_entry_forecasts_per_day
  MaxFailedEntries, \* MAX_FAILED_ENTRY_ATTEMPTS
  ErrorStreak,      \* SDK_ERROR_STREAK
  AnyStreak,        \* ANY_FAILURE_STREAK
  UpdateInterval,   \* days until a market is due an update
  CostsOf,          \* bound: what a session of each cohort may really cost
  SessionFailures,  \* bound: the failures a session may meet
  MaxDay,           \* bound: days
  MaxAttempts       \* bound: research attempts

NoCohort == "no cohort"
Free     == "free"

ASSUME ResearchAssumption ==
  /\ Free \notin Runs /\ NoCohort \notin Cohorts
  /\ CapOf \in [Cohorts -> Nat \ {0}]
  /\ DailyUsd \in Nat /\ \A c \in Cohorts : CapOf[c] <= DailyUsd
  /\ MaxEntries \in Nat \ {0} /\ MaxFailedEntries \in Nat \ {0}
  /\ ErrorStreak \in Nat \ {0} /\ AnyStreak \in Nat \ {0}
  /\ UpdateInterval \in Nat \ {0}
  /\ \A c \in Cohorts : CostsOf[c] \subseteq 0..CapOf[c]
  /\ SessionFailures \subseteq {"SYSTEMIC", "REPEATED", "OTHER"}
  /\ MaxDay \in Nat /\ MaxAttempts \in Nat

VARIABLES
  day,        \* the UTC day
  active,     \* the ACTIVE cohort, or NoCohort
  closed,     \* CLOSED cohorts
  attempts,   \* research_attempts
  started,    \* markets with an observation that is no longer open
  lock,       \* the run that holds .research.lock, or Free
  run         \* the local state of each run

vars == <<day, active, closed, attempts, started, lock, run>>

(* Failures of the setup, repeated SDK errors and timeouts, and verdicts   *)
(* on one market are a session's; INTERRUPTED is recovery's.               *)
Errors == {"SYSTEMIC", "REPEATED", "OTHER", "INTERRUPTED", "none"}

(* An attempt names its run by the id of the run's first attempt.          *)
Attempt == [id : 1..MaxAttempts, run : 1..MaxAttempts, cohort : Cohorts, market : Markets,
            kind : {"entry", "update"}, day : 0..MaxDay,
            status : {"STARTED", "SUCCEEDED", "FAILED"}, cost : 0..DailyUsd,
            error : Errors, spent : 0..DailyUsd]

(* What a run remembers: its place, its cohort, its first attempt, the     *)
(* markets it has still to do, whether the day's entries are used up       *)
(* (stop), its failure streaks, and the market and attempt in work.        *)
Idle == [pc |-> "idle", cohort |-> NoCohort, first |-> 0, updates |-> {}, entries |-> {},
         stop |-> FALSE, repeats |-> 0, failures |-> 0, kind |-> "entry",
         market |-> {}, attempt |-> 0]

TypeOK ==
  /\ day \in 0..MaxDay
  /\ active \in Cohorts \cup {NoCohort}
  /\ closed \subseteq Cohorts /\ active \notin closed
  /\ attempts \subseteq Attempt
  /\ \A a, b \in attempts : a.id = b.id => a = b
  /\ started \subseteq Markets
  /\ lock \in Runs \cup {Free}
  /\ run \in [Runs -> [pc : {"idle", "recover", "queue", "cleared", "session", "record", "baseline"},
                       cohort : Cohorts \cup {NoCohort}, first : 0..MaxAttempts,
                       updates : SUBSET Markets, entries : SUBSET Markets,
                       stop : BOOLEAN,
                       repeats : 0..ErrorStreak, failures : 0..AnyStreak,
                       kind : {"entry", "update"}, market : SUBSET Markets,
                       attempt : 0..MaxAttempts]]

Init ==
  /\ day = 0
  /\ active = NoCohort /\ closed = {}
  /\ attempts = {}
  /\ started = {}
  /\ lock = Free
  /\ run = [r \in Runs |-> Idle]

-----------------------------------------------------------------------------
(* Attempts.                                                               *)

WithId(i) == CHOOSE a \in attempts : a.id = i

(* The attempt closes once (_locked and the attempts_finish_once trigger). *)
Close(a, status, cost, error) ==
  (attempts \ {a}) \cup {[a EXCEPT !.status = status, !.cost = cost, !.error = error]}

EntriesOf(c, m) == {a \in attempts : a.cohort = c /\ a.market = m /\ a.kind = "entry"}

(* A failed attempt counts against its market unless it was interrupted.   *)
FailedEntries(c, m) ==
  {a \in EntriesOf(c, m) : a.status = "FAILED" /\ a.error # "INTERRUPTED"}

(* day_usage: an attempt that is still open counts at its cohort's cap.    *)
Charge(a) == IF a.status = "STARTED" THEN CapOf[a.cohort] ELSE a.cost

On(d)        == {a \in attempts : a.day = d}
SpentOn(d)   == SumFunctionOnSet([a \in attempts |-> Charge(a)], On(d))
EntriesOn(d) == Cardinality({a \in On(d) : a.kind = "entry"})

-----------------------------------------------------------------------------
(* A run.                                                                  *)

(* Faulty variant: the lock is not taken.                                  *)
TakesNoLock(r) == lock' = lock

TakesLock(r) == lock = Free /\ lock' = r

Begin(r, c) ==
  /\ run[r].pc = "idle"
  /\ c \notin closed
  /\ TakesLock(r)
  /\ active' = c
  /\ closed' = IF active \in {c, NoCohort} THEN closed ELSE closed \cup {active}
  /\ run' = [run EXCEPT ![r] = [Idle EXCEPT !.pc = "recover", !.cohort = c]]
  /\ UNCHANGED <<day, attempts, started>>

(* Faulty variant: only attempts of the running cohort are recovered.      *)
UnfinishedOfCohort(c) == {a \in attempts : a.status = "STARTED" /\ a.cohort = c}

(* What a run for cohort c recovers: every open attempt, of any cohort.    *)
Unfinished(c) == {a \in attempts : a.status = "STARTED"}

(* Faulty variant: recovery charges the cap of the running cohort.         *)
RecoverAtRunningCap(r) ==
  /\ run[r].pc = "recover"
  /\ \E a \in Unfinished(run[r].cohort) :
       attempts' = Close(a, "FAILED", CapOf[run[r].cohort], "INTERRUPTED")
  /\ UNCHANGED <<day, active, closed, started, lock, run>>

(* recover_interrupted_attempts, one attempt per transaction.              *)
Recover(r) ==
  /\ run[r].pc = "recover"
  /\ \E a \in Unfinished(run[r].cohort) :
       attempts' = Close(a, "FAILED", CapOf[a.cohort], "INTERRUPTED")
  /\ UNCHANGED <<day, active, closed, started, lock, run>>

(* candidates and due_updates.  The ticket that makes a market due is not  *)
(* modelled (any due market may be left out), nor are the end dates (Skip  *)
(* may drop any market); a stale discovery leaves nothing to do.           *)
Candidates(c) ==
  {m \in Markets \ started :
     /\ \A a \in EntriesOf(c, m) : a.status # "SUCCEEDED"
     /\ Cardinality(FailedEntries(c, m)) < MaxFailedEntries}

DueUpdates(c) ==
  {m \in Markets \ started :
     /\ \E a \in EntriesOf(c, m) : a.status = "SUCCEEDED"
     /\ \A a \in attempts : a.cohort = c /\ a.market = m => day - a.day >= UpdateInterval}

List(r) ==
  /\ run[r].pc = "recover"
  /\ Unfinished(run[r].cohort) = {}
  /\ \/ \E updates \in SUBSET DueUpdates(run[r].cohort) :
            run' = [run EXCEPT ![r].pc = "queue", ![r].updates = updates,
                               ![r].entries = Candidates(run[r].cohort)]
     \/ run' = [run EXCEPT ![r].pc = "queue"]
  /\ UNCHANGED <<day, active, closed, attempts, started, lock>>

(* Updates come before entries.                                            *)
Queue(r) == IF run[r].updates # {} THEN run[r].updates ELSE run[r].entries
KindOf(r) == IF run[r].updates # {} THEN "update" ELSE "entry"

Without(r, m) ==
  IF run[r].updates # {} THEN [run[r] EXCEPT !.updates = @ \ {m}]
                         ELSE [run[r] EXCEPT !.entries = @ \ {m}]

OverBudget(r) == SpentOn(day) + CapOf[run[r].cohort] > DailyUsd

OverVolume(r) == EntriesOn(day) >= MaxEntries

(* Refused: the market left its window while queued, or the day's budget   *)
(* or volume is used up (for entries once and for all).                    *)
Skip(r, m) ==
  /\ run[r].pc = "queue" /\ m \in Queue(r)
  /\ \/ run' = [run EXCEPT ![r] = Without(r, m)]
     \/ /\ KindOf(r) = "entry" /\ (OverBudget(r) \/ OverVolume(r))
        /\ run' = [run EXCEPT ![r] = [Without(r, m) EXCEPT !.stop = TRUE]]
  /\ UNCHANGED <<day, active, closed, attempts, started, lock>>

(* Every test of the queue passes.                                         *)
Clear(r, m) ==
  /\ run[r].pc = "queue" /\ m \in Queue(r)
  /\ m \notin started
  /\ ~OverBudget(r)
  /\ KindOf(r) = "entry" => ~run[r].stop /\ ~OverVolume(r)
  /\ run' = [run EXCEPT ![r] = [Without(r, m) EXCEPT !.pc = "cleared", !.market = {m},
                                                     !.kind = KindOf(r)]]
  /\ UNCHANGED <<day, active, closed, attempts, started, lock>>

RunId(r, id) == IF run[r].first = 0 THEN id ELSE run[r].first

(* start_attempt: durable before the paid call.  The session is given its  *)
(* cap and, external to this code, keeps to it.                            *)
StartAttempt(r) ==
  LET id == Cardinality(attempts) + 1 IN
  /\ run[r].pc = "cleared"
  /\ run[r].cohort = active
  /\ id <= MaxAttempts
  /\ \E m \in run[r].market, spent \in CostsOf[run[r].cohort] :
       attempts' = attempts \cup
         {[id |-> id, run |-> RunId(r, id), cohort |-> run[r].cohort, market |-> m, kind |-> run[r].kind,
           day |-> day, status |-> "STARTED", cost |-> 0, error |-> "none", spent |-> spent]}
  /\ run' = [run EXCEPT ![r].pc = "session", ![r].attempt = id, ![r].first = RunId(r, id)]
  /\ UNCHANGED <<day, active, closed, started, lock>>

(* The cost a session reports; an unknown one is charged at the cap.       *)
ReportedCosts(a) == {a.spent, CapOf[a.cohort]}

(* FailureStreak.failed.                                                   *)
Repeats(r, error) == IF error = "REPEATED" THEN run[r].repeats + 1 ELSE 0

(* Faulty variant: failures of any kind are not counted.                   *)
StopsOnRepeats(r, error) == error = "SYSTEMIC" \/ Repeats(r, error) >= ErrorStreak

Stops(r, error) ==
  \/ error = "SYSTEMIC"
  \/ Repeats(r, error) >= ErrorStreak
  \/ run[r].failures + 1 >= AnyStreak

(* A run that is stopped refuses every market it has left.                 *)
Stopped(s) == [s EXCEPT !.updates = {}, !.entries = {}]

AfterFailure(r, error) ==
  LET next == [run[r] EXCEPT !.pc = "queue", !.market = {}, !.attempt = 0, !.kind = "entry",
                             !.repeats = Repeats(r, error),
                             !.failures = @ + 1]
  IN  IF Stops(r, error) THEN Stopped(next) ELSE next

(* The session fails, its output is unusable, or its market started to     *)
(* resolve meanwhile: attempt and refusal commit together.                 *)
FailSession(r) ==
  /\ run[r].pc = "session"
  /\ \E error \in SessionFailures :
       LET a == WithId(run[r].attempt) IN
       /\ a.status = "STARTED"
       /\ \E cost \in ReportedCosts(a) : attempts' = Close(a, "FAILED", cost, error)
       /\ run' = [run EXCEPT ![r] = AfterFailure(r, error)]
  /\ UNCHANGED <<day, active, closed, started, lock>>

(* The session succeeds and its market has not started to resolve.         *)
PassSession(r) ==
  /\ run[r].pc = "session"
  /\ \E m \in run[r].market : m \notin started
  /\ run' = [run EXCEPT ![r].pc = "record"]
  /\ UNCHANGED <<day, active, closed, attempts, started, lock>>

(* record_forecast closes the attempt with the forecast.                   *)
RecordForecast(r) ==
  LET a == WithId(run[r].attempt) IN
  /\ run[r].pc = "record"
  /\ a.status = "STARTED" /\ a.cohort = active
  /\ \E cost \in ReportedCosts(a) : attempts' = Close(a, "SUCCEEDED", cost, "none")
  /\ run' = [run EXCEPT ![r].pc = "baseline", ![r].repeats = 0, ![r].failures = 0]
  /\ UNCHANGED <<day, active, closed, started, lock>>

(* The attempt was closed by another run, or the forecast is refused.      *)
FailRecord(r) ==
  LET a == WithId(run[r].attempt) IN
  /\ run[r].pc = "record"
  /\ IF a.status = "STARTED"
     THEN \E cost \in ReportedCosts(a) : attempts' = Close(a, "FAILED", cost, "OTHER")
     ELSE UNCHANGED attempts
  /\ run' = [run EXCEPT ![r] = AfterFailure(r, "OTHER")]
  /\ UNCHANGED <<day, active, closed, started, lock>>

(* The books were fetched, refused, or could not be fetched at all: an     *)
(* outage stops the run.                                                   *)
TakeBaseline(r) ==
  /\ run[r].pc = "baseline"
  /\ LET next == [run[r] EXCEPT !.pc = "queue", !.market = {}, !.attempt = 0, !.kind = "entry"] IN
     \/ run' = [run EXCEPT ![r] = next]
     \/ run' = [run EXCEPT ![r] = Stopped(next)]
  /\ UNCHANGED <<day, active, closed, attempts, started, lock>>

Release(r) == IF lock = r THEN Free ELSE lock

Finish(r) ==
  /\ run[r].pc = "queue"
  /\ run[r].updates = {} /\ run[r].entries = {}
  /\ run' = [run EXCEPT ![r] = Idle]
  /\ lock' = Release(r)
  /\ UNCHANGED <<day, active, closed, attempts, started>>

(* The process dies: flock releases the lock.                              *)
Crash(r) ==
  /\ run[r].pc # "idle"
  /\ run' = [run EXCEPT ![r] = Idle]
  /\ lock' = Release(r)
  /\ UNCHANGED <<day, active, closed, attempts, started>>

-----------------------------------------------------------------------------
(* The surroundings: midnight, and polls that store observations.          *)

Midnight ==
  /\ day < MaxDay
  /\ day' = day + 1
  /\ UNCHANGED <<active, closed, attempts, started, lock, run>>

Observe(m) ==
  /\ m \notin started
  /\ started' = started \cup {m}
  /\ UNCHANGED <<day, active, closed, attempts, lock, run>>

RunStep(r) ==
  \/ Recover(r) \/ List(r) \/ StartAttempt(r) \/ FailSession(r) \/ PassSession(r)
  \/ RecordForecast(r) \/ FailRecord(r) \/ TakeBaseline(r) \/ Finish(r)
  \/ \E m \in Markets : Skip(r, m) \/ Clear(r, m)

Next ==
  \/ \E r \in Runs : RunStep(r) \/ Crash(r) \/ (\E c \in Cohorts : Begin(r, c))
  \/ \E m \in Markets : Observe(m)
  \/ Midnight

Spec == Init /\ [][Next]_vars

(* Cron starts a run again and again, sessions end (or time out), and      *)
(* runs do not die forever while they recover.                             *)
Fairness ==
  /\ WF_vars(\E r \in Runs, c \in Cohorts : Begin(r, c))
  /\ \A r \in Runs : WF_vars(RunStep(r)) /\ SF_vars(Recover(r))

FairSpec == Spec /\ Fairness

-----------------------------------------------------------------------------
(* Properties.                                                             *)

(* What the sessions started on a day really cost never exceeds the daily  *)
(* budget, and no day sees more entry sessions than the configured volume, *)
(* whatever crashed, was recovered under another configuration, or ran     *)
(* across midnight (budget.py budget_refusal).                             *)
DailyLimits ==
  /\ TypeOK
  /\ \A d \in 0..MaxDay :
       /\ SumFunctionOnSet([a \in attempts |-> a.spent], On(d)) <= DailyUsd
       /\ EntriesOn(d) <= MaxEntries

(* The attempt of a session in progress stays open: recovery never closes  *)
(* a live one (cli.py line 336).                                           *)
LiveSessionsKept ==
  \A r \in Runs :
    run[r].pc \in {"session", "record"} => WithId(run[r].attempt).status = "STARTED"

(* So no entry session is paid for a market whose entry forecast the       *)
(* cohort already has, or is about to have.                                *)
NeverPaysTwice ==
  /\ LiveSessionsKept
  /\ \A a, b \in attempts :
       /\ a.kind = "entry" /\ a.status = "SUCCEEDED"
       /\ b.kind = "entry" /\ b.cohort = a.cohort /\ b.market = a.market
       => b.id <= a.id

(* The last n attempts a run made before attempt a.                        *)
Before(a, n) == {b \in attempts : b.run = a.run /\ b.id \in (a.id - n)..(a.id - 1)}

(* Failures cost no more than the settings allow: a market is given up     *)
(* after its failed entry attempts, crashes not counted, and a run that    *)
(* keeps failing stops paying, since no session follows a failure of the   *)
(* setup, or a full streak of repeated or of any failures (research_run.py *)
(* lines 72, 85 and 196).                                                  *)
BoundedWaste ==
  /\ \A c \in Cohorts, m \in Markets : Cardinality(FailedEntries(c, m)) <= MaxFailedEntries
  /\ \A a \in attempts :
       /\ \A b \in Before(a, 1) : b.error # "SYSTEMIC"
       /\ ~(/\ Cardinality(Before(a, ErrorStreak)) = ErrorStreak
            /\ \A b \in Before(a, ErrorStreak) : b.error = "REPEATED")
       /\ ~(/\ Cardinality(Before(a, AnyStreak)) = AnyStreak
            /\ \A b \in Before(a, AnyStreak) : b.status = "FAILED")

(* Every attempt is closed in the end, also when its run died and its      *)
(* cohort has been superseded, so that its market is not blocked forever.  *)
AttemptsClosed ==
  \A i \in 1..MaxAttempts :
    (\E a \in attempts : a.id = i) ~> (\E a \in attempts : a.id = i /\ a.status # "STARTED")
=============================================================================
