----------------------------- MODULE Collection -----------------------------
(***************************************************************************)
(* Collecting the venue's data (collect.py) and the commands around it     *)
(* (cli.py): discover, snapshot, resolve, run-data, research and the daily *)
(* cycle that chains them, run by processes that share the database and    *)
(* may die anywhere.  Every request to the venue lies outside the          *)
(* transactions, which are single steps: _track_known_market,              *)
(* _store_market, the insertion of a book, and the whole of a resolution   *)
(* poll.                                                                   *)
(*                                                                         *)
(* Abstracted: a run and the discovery it begins with read the clock at    *)
(* once. A listing stands for a version of a market's rules together with  *)
(* the fee it charges. A snapshot row keeps its run and the discovery row  *)
(* its fee came from. The resolution observations of a poll are in         *)
(* ResolutionPolling; the sessions of research, and the books it takes for *)
(* its forecasts, in ResearchRun; settling and trading in PaperLedger. The *)
(* run row of a resolve command is left out: nothing reads it. The venue   *)
(* is external; its listings may change and change back, its answers may   *)
(* be late, missing or unusable.                                           *)
(***************************************************************************)
EXTENDS Integers, Sequences, FiniteSets, FiniteSetsExt, Functions

CONSTANTS
  Markets,
  Listings,       \* versions of a market's rules and fee
  NoListing,      \* rules of a market that is not in the database
  Procs,          \* processes of predict-agent
  CommandsOf,     \* the commands each of them is used for, in turn
  FailureShare,   \* BOOK_FAILURE_SHARE
  MaxRuns,        \* bound: run rows before the last command starts
  MaxChanges,     \* bound: changes of listings
  MaxFailures     \* bound: requests and steps that fail, processes that die

ASSUME CollectionAssumption ==
  /\ IsFiniteSet(Markets) /\ Markets # {}
  /\ Listings # {} /\ NoListing \notin Listings
  /\ FailureShare \in Nat \ {0}
  /\ MaxRuns \in Nat /\ MaxChanges \in Nat /\ MaxFailures \in Nat

VARIABLES
  venue,       \* what the venue lists of each market
  current,     \* markets.current_rules_hash
  versions,    \* rules_versions
  journal,     \* MARKET_DISCOVERED and RULES_CHANGED entries of each market
  runs,        \* the rows of "runs"; a row's index is its identity
  discoveries, \* the rows of "discoveries" in rowid order
  books,       \* the rows of "book_snapshots"
  refusals,    \* of books, per run
  proc,        \* what each process is doing
  changes, failures

rulesVars == <<current, versions, journal>>
bookVars  == <<books, refusals>>
dbVars    == <<rulesVars, runs, discoveries, bookVars>>
worldVars == <<venue, changes>>
vars == <<worldVars, dbVars, proc, failures>>

OneOf(S) == CHOOSE e \in S : TRUE
Both(ms) == ms \X {"YES", "NO"}

(* Programme points within a data or research run, and those of run-daily  *)
(* around them.                                                            *)
DataPcs  == {"list", "track", "states", "store", "choose", "book", "insert", "poll", "apply",
             "finish"}
DailyPcs == {"research", "report"}
Unseen   == [m \in Markets |-> NoListing]

(* A process: its command and run row; of run-daily the run row of today's *)
(* data, 0 when it failed; its last clock reading, the discoveries known   *)
(* then, and its last answer; and what is still to do.                     *)
Process(pc, cmd, daily) ==
  [pc |-> pc, cmd |-> cmd, daily |-> daily, run |-> 0, data |-> 0, at |-> 0, known |-> 0,
   seen |-> Unseen, todo |-> {}, passing |-> {}]

Idle == Process("idle", "none", FALSE)
Dead == Process("dead", "none", FALSE)
Free(p) == proc[p] \in {Idle, Dead}

DailyHeld    == \E q \in Procs : proc[q].daily
ResearchHeld == \E q \in Procs : proc[q].cmd = "research"

TypeOK ==
  /\ changes \in 0..MaxChanges /\ failures \in 0..MaxFailures
  /\ venue \in [Markets -> Listings]
  /\ current \in [Markets -> Listings \cup {NoListing}]
  /\ versions \in [Markets -> SUBSET Listings]
  /\ \A m \in Markets : \A i \in DOMAIN journal[m] :
       journal[m][i] \in (Listings \cup {NoListing}) \X Listings
  /\ \A r \in DOMAIN runs :
       runs[r] \in [cmd : {"discover", "snapshot", "run-data", "research"}, started : Nat,
                    source : 0..Len(runs), status : {"STARTED", "COMPLETED", "FAILED"}]
  /\ \A i \in DOMAIN discoveries :
       discoveries[i] \in [run : DOMAIN runs, market : Markets, fee : Listings,
                           observed : Nat]
  /\ \A s \in books : s \in [run : DOMAIN runs, book : Both(Markets), basis : 0..Len(discoveries)]
  /\ refusals \subseteq (DOMAIN runs) \X Both(Markets) \X {"failed", "unusable"}
  /\ \A p \in Procs :
       /\ proc[p].pc \in {"idle", "dead"} \cup DataPcs \cup DailyPcs
       /\ proc[p].run \in 0..Len(runs)
       /\ proc[p].seen \in [Markets -> Listings \cup {NoListing}]

Init ==
  /\ changes = 0 /\ failures = 0
  /\ venue = [m \in Markets |-> OneOf(Listings)]
  /\ current = Unseen
  /\ versions = [m \in Markets |-> {}] /\ journal = [m \in Markets |-> << >>]
  /\ runs = << >> /\ discoveries = << >>
  /\ books = {} /\ refusals = {}
  /\ proc = [p \in Procs |-> Idle]

(* The clock: of two readings, only those with the start of a run between  *)
(* them are told apart.                                                    *)
Now == Len(runs)

Become(p, state) == proc' = [proc EXCEPT ![p] = state]
Go(p, pc) == proc' = [proc EXCEPT ![p].pc = pc]

Relist(m, l) ==
  /\ changes < MaxChanges
  /\ l # venue[m]
  /\ venue' = [venue EXCEPT ![m] = l]
  /\ changes' = changes + 1
  /\ UNCHANGED <<dbVars, proc, failures>>

-----------------------------------------------------------------------------
(* Commands. *)
NewRun(cmd) ==
  runs' = Append(runs, [cmd |-> cmd, started |-> Now + 1, source |-> 0, status |-> "STARTED"])

FirstPc(cmd) == IF cmd \in {"snapshot", "research"} THEN "choose" ELSE "list"

(* run-daily takes .daily.lock first and research .research.lock; a command *)
(* refused its lock leaves no trace.                                       *)
Start(p, cmd, daily) ==
  /\ Free(p) /\ Len(runs) < MaxRuns
  /\ (IF daily THEN "run-daily" ELSE cmd) \in CommandsOf[p]
  /\ daily => cmd = "run-data" /\ ~DailyHeld
  /\ cmd = "research" => ~ResearchHeld
  /\ NewRun(cmd)
  /\ Become(p, [Process(FirstPc(cmd), cmd, daily)
                EXCEPT !.run = Len(runs'), !.at = Now', !.data = IF daily THEN Len(runs') ELSE 0])
  /\ UNCHANGED <<worldVars, rulesVars, discoveries, bookVars, failures>>

StartResolve(p) ==
  /\ Free(p) /\ "resolve" \in CommandsOf[p]
  /\ Become(p, Process("poll", "resolve", FALSE))
  /\ UNCHANGED <<worldVars, dbVars, failures>>

(* What a process does after its run: a manual command ends, run-daily     *)
(* goes on, and remembers whether today's data are there.                  *)
AfterRun(p, ok) ==
  IF ~proc[p].daily THEN Idle
  ELSE [Process(IF proc[p].cmd = "research" THEN "report" ELSE "research", "none", TRUE)
        EXCEPT !.data = IF ok \/ proc[p].cmd = "research" THEN proc[p].data ELSE 0]

AfterPoll(p) ==
  IF proc[p].cmd = "resolve" THEN Idle
  ELSE [proc[p] EXCEPT !.pc = "finish", !.todo = {}, !.seen = Unseen]

Conclude(p, status) ==
  /\ runs' = IF proc[p].run = 0 THEN runs ELSE [runs EXCEPT ![proc[p].run].status = status]
  /\ Become(p, AfterRun(p, status = "COMPLETED"))
  /\ UNCHANGED <<worldVars, rulesVars, discoveries, bookVars>>

(* A request to the venue fails to be fetched or parsed. *)
FailFetch(p) ==
  /\ failures < MaxFailures /\ failures' = failures + 1
  /\ proc[p].pc \in {"list", "states", "poll"}
  /\ proc[p].pc = "states" => proc[p].passing # {}
  /\ Conclude(p, "FAILED")

-----------------------------------------------------------------------------
Known == {m \in Markets : current[m] # NoListing}

(* Rules (_record_rules_version), for the markets of ms at once.           *)
Moves(m, l) == current[m] # NoListing /\ current[m] # l

(* Faulty variant: only a version never seen before is journalled. *)
JournalsNewOnly(m, l) == current[m] = NoListing \/ l \notin versions[m]

Journals(m, l) == current[m] = NoListing \/ Moves(m, l)

RecordRules(ms, listing) ==
  /\ versions' = [m \in Markets |-> IF m \in ms THEN versions[m] \cup {listing[m]} ELSE versions[m]]
  /\ journal' = [m \in Markets |-> IF m \in ms /\ Journals(m, listing[m])
                                   THEN Append(journal[m], <<current[m], listing[m]>>)
                                   ELSE journal[m]]
  /\ current' = [m \in Markets |-> IF m \in ms /\ (current[m] = NoListing \/ Moves(m, listing[m]))
                                   THEN listing[m] ELSE current[m]]

-----------------------------------------------------------------------------
(* Discovery.  A market the venue does not list, or whose entry cannot be  *)
(* parsed, is passed over; the rules of a known one are kept current,      *)
(* eligible or not; then the ineligible ones, and those whose resolution   *)
(* has begun, are refused.                                                 *)
List(p) ==
  /\ proc[p].pc = "list"
  /\ proc' = [proc EXCEPT ![p].pc = "track", ![p].seen = venue, ![p].todo = Markets]
  /\ UNCHANGED <<worldVars, dbVars, failures>>

Track(p) ==
  /\ proc[p].pc = "track"
  /\ LET m    == OneOf(proc[p].todo)
         left == proc[p].todo \ {m}
         After(passing) ==
           Become(p, [proc[p] EXCEPT !.todo = left, !.passing = passing,
                                     !.pc = IF left # {} THEN "track" ELSE "states"])
     IN \/ After(proc[p].passing) /\ UNCHANGED rulesVars
        \/ After(proc[p].passing \cup {m}) /\ RecordRules({m} \cap Known, proc[p].seen)
  /\ UNCHANGED <<worldVars, runs, discoveries, bookVars, failures>>

(* The books a command asks for once it knows its markets, if any. *)
Found(run) == {d.market : d \in {e \in Range(discoveries) : e.run = run}}

WithBooks(p, found) ==
  LET wanted == IF proc[p].cmd \in {"snapshot", "run-data"} THEN Both(found) ELSE {}
  IN [proc[p] EXCEPT !.seen = Unseen, !.passing = {}, !.todo = wanted, !.at = 0, !.known = 0,
                     !.pc = IF wanted # {} THEN "book"
                            ELSE IF proc[p].cmd = "run-data" THEN "poll" ELSE "finish"]

AskStates(p) ==
  /\ proc[p].pc = "states"
  /\ \E open \in SUBSET proc[p].passing :
       Become(p, IF open = {} THEN WithBooks(p, {})
                 ELSE [proc[p] EXCEPT !.pc = "store", !.todo = open, !.passing = open])
  /\ UNCHANGED <<worldVars, dbVars, failures>>

Store(p) ==
  /\ proc[p].pc = "store"
  /\ LET m    == OneOf(proc[p].todo)
         left == proc[p].todo \ {m}
     IN /\ RecordRules({m}, proc[p].seen)
        /\ discoveries' = Append(discoveries, [run |-> proc[p].run, market |-> m,
                                               fee |-> proc[p].seen[m], observed |-> proc[p].at])
        /\ Become(p, IF left # {} THEN [proc[p] EXCEPT !.todo = left]
                     ELSE WithBooks(p, proc[p].passing))
  /\ UNCHANGED <<worldVars, runs, bookVars, failures>>

-----------------------------------------------------------------------------
(* _latest_discovery_run: the COMPLETED one that started last.             *)
Discovering == {r \in DOMAIN runs : runs[r].cmd \in {"discover", "run-data"}}

Last(rs) == Max({0} \cup {r \in rs : \A q \in rs : runs[q].started <= runs[r].started})

(* Faulty variant: the run that started last, whatever became of it. *)
LatestOfAny == Last(Discovering)

Latest == Last({r \in Discovering : runs[r].status = "COMPLETED"})

(* snapshot takes the books of the latest discovery, research forecasts    *)
(* its markets.                                                            *)
Choose(p) ==
  /\ proc[p].pc = "choose"
  /\ runs' = [runs EXCEPT ![proc[p].run].source = Latest]
  /\ Become(p, WithBooks(p, Found(Latest)))
  /\ UNCHANGED <<worldVars, rulesVars, discoveries, bookVars, failures>>

FetchBook(p) ==
  /\ proc[p].pc = "book"
  /\ proc' = [proc EXCEPT ![p].pc = "insert", ![p].at = Now, ![p].known = Len(discoveries)]
  /\ UNCHANGED <<worldVars, dbVars, failures>>

NextBook(p, left) ==
  Become(p, IF left = {} THEN WithBooks(p, {})
            ELSE [proc[p] EXCEPT !.pc = "book", !.at = 0, !.known = 0, !.todo = left])

RefusalRun(p) == proc[p].run

(* No book, or one nobody could trade on. *)
RefuseBook(p) ==
  /\ proc[p].pc = "book"
  /\ LET b == OneOf(proc[p].todo)
     IN /\ \E code \in {"failed", "unusable"} :
             refusals' = refusals \cup {<<RefusalRun(p), b, code>>}
        /\ NextBook(p, proc[p].todo \ {b})
  /\ UNCHANGED <<worldVars, rulesVars, runs, discoveries, books, failures>>

(* fee_in_force: the discovery row that was observed last by the time the  *)
(* book was fetched, 0 if there is none.                                   *)
LastObserved(rows) ==
  Max({0} \cup {i \in rows : \A j \in rows : discoveries[j].observed <= discoveries[i].observed})

RowsOf(m) == {i \in DOMAIN discoveries : discoveries[i].market = m}

(* Faulty variant: the fee of the latest complete discovery. *)
FeeInForceOfLatest(m, at) == LastObserved({i \in RowsOf(m) : discoveries[i].run = Latest})

FeeInForce(m, at) == LastObserved({i \in RowsOf(m) : discoveries[i].observed <= at})

InsertBook(p) ==
  /\ proc[p].pc = "insert"
  /\ LET b == OneOf(proc[p].todo)
     IN /\ books' = books \cup {[run |-> proc[p].run, book |-> b,
                                 basis |-> FeeInForce(b[1], proc[p].at)]}
        /\ NextBook(p, proc[p].todo \ {b})
  /\ UNCHANGED <<worldVars, rulesVars, runs, discoveries, refusals, failures>>

(* book_outage. *)
BooksOf(run)          == {s.book : s \in {t \in books : t.run = run}}
RefusedOf(run, codes) == {f[2] : f \in {g \in refusals : g[1] = run /\ g[3] \in codes}}

(* Faulty variant: only a run without any book is an outage. *)
BookOutageTotal(run) == BooksOf(run) = {} /\ RefusedOf(run, {"failed", "unusable"}) # {}

BookOutage(run) ==
  LET stored    == Cardinality(BooksOf(run))
      attempted == stored + Cardinality(RefusedOf(run, {"failed", "unusable"}))
  IN /\ attempted > 0
     /\ \/ stored = 0
        \/ Cardinality(RefusedOf(run, {"failed"})) * FailureShare >= attempted

(* The report of a run, made of rows at the time it is asked for. *)
Shortlist(r) ==
  LET source == IF runs[r].cmd = "snapshot" THEN runs[r].source ELSE r
  IN [status |-> runs[r].status, source |-> source,
      markets |-> {d \in Range(discoveries) : d.run = source},
      books |-> BooksOf(r), refused |-> {f \in refusals : f[1] = r}]

-----------------------------------------------------------------------------
(* The rules a resolution poll brings back: Gamma is asked about the       *)
(* markets known when the poll began, and some may be missing.             *)
(* Faulty variant: only the markets of the latest discovery are polled. *)
PolledWhileListed == Found(Latest)

Polled == Known

Poll(p) ==
  /\ proc[p].pc = "poll"
  /\ Become(p, IF Polled = {} THEN AfterPoll(p)
               ELSE [proc[p] EXCEPT !.pc = "apply", !.seen = venue, !.todo = Polled])
  /\ UNCHANGED <<worldVars, dbVars, failures>>

ApplyPoll(p, missing) ==
  /\ proc[p].pc = "apply"
  /\ failures' = failures + Cardinality(missing) /\ failures' <= MaxFailures
  /\ RecordRules(proc[p].todo \ missing, proc[p].seen)
  /\ Become(p, AfterPoll(p))
  /\ UNCHANGED <<worldVars, runs, discoveries, bookVars>>

(* What the run comes to: a snapshot without a discovery to work from, and *)
(* an outage, make it FAILED.                                              *)
Finish(p) ==
  /\ proc[p].pc = "finish"
  /\ Conclude(p, IF \/ proc[p].cmd = "snapshot" /\ runs[proc[p].run].source = 0
                    \/ proc[p].cmd \in {"snapshot", "run-data"} /\ BookOutage(proc[p].run)
                 THEN "FAILED" ELSE "COMPLETED")
  /\ UNCHANGED failures

-----------------------------------------------------------------------------
(* The later steps of run-daily.  Research needs today's data and its own  *)
(* lock; whatever a step returns or raises, the next one follows.          *)
DailyResearch(p) ==
  /\ proc[p].pc = "research"
  /\ IF proc[p].data # 0 /\ ~ResearchHeld
     THEN /\ NewRun("research")
          /\ Become(p, [Process("choose", "research", TRUE)
                        EXCEPT !.run = Len(runs'), !.at = Now', !.data = proc[p].data])
     ELSE runs' = runs /\ Go(p, "report")
  /\ UNCHANGED <<worldVars, rulesVars, discoveries, bookVars, failures>>

Report(p) ==
  /\ proc[p].pc = "report"
  /\ Become(p, Idle)
  /\ UNCHANGED <<worldVars, dbVars, failures>>

(* An error that only run-daily catches, such as a database that stays     *)
(* locked: a data run is left STARTED, a research run is closed as FAILED. *)
(* Faulty variant: the error ends run-daily. *)
AfterErrorNothing(p) == Idle

AfterError(p) == AfterRun(p, FALSE)

Raise(p) ==
  /\ failures < MaxFailures /\ failures' = failures + 1
  /\ proc[p].daily /\ proc[p].pc \in DataPcs
  /\ runs' = IF proc[p].cmd = "research" THEN [runs EXCEPT ![proc[p].run].status = "FAILED"]
             ELSE runs
  /\ Become(p, AfterError(p))
  /\ UNCHANGED <<worldVars, rulesVars, discoveries, bookVars>>

(* The process dies; its locks are free and its run stays as it is. *)
Die(p) ==
  /\ failures < MaxFailures /\ failures' = failures + 1
  /\ ~Free(p)
  /\ Become(p, IF proc[p].daily THEN Dead ELSE Idle)
  /\ UNCHANGED <<worldVars, dbVars>>

Advance(p) ==
  \/ List(p) \/ Track(p) \/ AskStates(p) \/ Store(p)
  \/ Choose(p) \/ FetchBook(p) \/ RefuseBook(p) \/ InsertBook(p)
  \/ Poll(p) \/ ApplyPoll(p, {}) \/ Finish(p)
  \/ DailyResearch(p) \/ Report(p)

Next ==
  \/ \E m \in Markets, l \in Listings : Relist(m, l)
  \/ \E p \in Procs :
       \/ \E cmd \in {"discover", "snapshot", "run-data", "research"}, daily \in BOOLEAN :
            Start(p, cmd, daily)
       \/ StartResolve(p)
       \/ Advance(p)
       \/ \E missing \in SUBSET proc[p].todo : ApplyPoll(p, missing)
       \/ FailFetch(p) \/ Raise(p) \/ Die(p)

(* Processes that run go on, and resolution is polled again and again. *)
Continue == \A p \in Procs : WF_vars(Advance(p))
Resolve  == \E p \in Procs : StartResolve(p)

Spec == Init /\ [][Next]_vars /\ Continue /\ WF_vars(Resolve)

-----------------------------------------------------------------------------
(* The journal alone tells the history of a market's rules: its entries    *)
(* follow on from one another, begin with the discovery, end with the      *)
(* rules in force, and name stored versions, whatever discoveries and      *)
(* polls overlap (collect.py lines 98 to 111).                             *)
RulesHistoryHolds ==
  TypeOK /\ \A m \in Markets :
    /\ \A i \in DOMAIN journal[m] :
         /\ journal[m][i][1] = IF i = 1 THEN NoListing ELSE journal[m][i - 1][2]
         /\ journal[m][i][2] \in versions[m]
    /\ current[m] = IF journal[m] = << >> THEN NoListing ELSE journal[m][Len(journal[m])][2]

(* A run of books that is COMPLETED has an answer for both books of every  *)
(* market of the discovery it works from, too few of them failures to call *)
(* it an outage; and that discovery is itself complete, so it gains no     *)
(* more markets (collect.py line 369, cli.py lines 392 to 405).            *)
CompletedRunsAreWhole ==
  \A r \in DOMAIN runs :
    (runs[r].status = "COMPLETED" /\ runs[r].cmd \in {"snapshot", "run-data"}) =>
      LET source == IF runs[r].cmd = "snapshot" THEN runs[r].source ELSE r
          wanted == Both(Found(source))
          failed == RefusedOf(r, {"failed"})
      IN /\ source # 0 /\ runs[source].status = "COMPLETED"
         /\ wanted = BooksOf(r) \cup RefusedOf(r, {"failed", "unusable"})
         /\ wanted # {} => /\ BooksOf(r) # {}
                           /\ Cardinality(failed) * FailureShare < Cardinality(wanted)

(* The fee kept with a book is that of a discovery row: never one observed *)
(* after the fetch, never one older than a row that was already there when *)
(* the book was fetched; the fallback is never needed (collect.py lines    *)
(* 257 to 261).                                                            *)
FeeWasInForce ==
  [][\A p \in Procs, s \in books' \ books :
       s.run = proc[p].run =>
         LET m == s.book[1]
         IN /\ s.basis \in RowsOf(m)
            /\ discoveries[s.basis].observed <= proc[p].at
            /\ \A i \in RowsOf(m) \cap (1..proc[p].known) :
                 discoveries[i].observed <= discoveries[s.basis].observed]_vars

(* The report of a run that has ended is the same whenever it is asked     *)
(* for: no later run, and no run still going on that a snapshot worked     *)
(* from, adds to it or takes from it (report.py line 29).                  *)
FinishedReportsStand ==
  [][\A r \in DOMAIN runs :
       (runs[r].cmd # "research" /\ runs[r].status # "STARTED") =>
         Shortlist(r)' = Shortlist(r)]_vars

(* The research of a daily cycle works from a complete discovery no older  *)
(* than the cycle's own data run, whatever other commands ran meanwhile    *)
(* (cli.py lines 270 and 302).                                             *)
ResearchHasTodaysData ==
  \A p \in Procs :
    (proc[p].daily /\ proc[p].cmd = "research" /\ proc[p].pc # "choose") =>
      /\ runs[proc[p].data].status = "COMPLETED"
      /\ runs[runs[proc[p].run].source].status = "COMPLETED"
      /\ runs[runs[proc[p].run].source].started >= runs[proc[p].data].started

(* Once the venue leaves a market's listing alone, the rules in force      *)
(* become the listed ones and stay so: a late poll that puts an older      *)
(* version back is made good by the next (collect.py line 108).            *)
RulesCatchUp ==
  \A m \in Markets : <>[](current[m] # NoListing => current[m] = venue[m])

(* A daily cycle that is not killed comes to its report, whatever fails on *)
(* the way and whoever holds the research lock (cli.py line 265).          *)
DailyReachesReport ==
  \A p \in Procs : proc[p].daily ~> proc[p].pc \in {"report", "dead"}
=============================================================================
