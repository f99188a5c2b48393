---------------------------- MODULE ResearchRunProofs ----------------------------
(***************************************************************************)
(* Proofs about ResearchRun, for any runs, markets and cohorts, any caps   *)
(* and streaks, and whatever the sessions do.                              *)
(*                                                                         *)
(* The properties speak of the attempts alone; what makes them hold is     *)
(* what a run remembers between its transactions.  Three facts carry the   *)
(* induction.  The lock lets only one run be under way, and an attempt     *)
(* that is open is the last one there is: that of the run's own session,   *)
(* or one a dead run left, and then every run is before its recovery.      *)
(* What is in the queue was fresh when it was listed and stays so, since   *)
(* its market leaves the queue before its attempt is opened.  And the      *)
(* streak a run counts in memory reaches back exactly to the attempt that  *)
(* broke it, or to the run's first.                                        *)
(***************************************************************************)
EXTENDS ResearchRun, SumLemmas

Made == Cardinality(attempts)

Numbered ==
  /\ IsFiniteSet(attempts)
  /\ \A a \in attempts : a.id <= Made /\ a.run <= a.id

(* The lock's holder is the only run under way.                            *)
Locked == \A r \in Runs : run[r].pc # "idle" => lock = r /\ run[r].cohort \in Cohorts

InSession(r) == run[r].pc \in {"session", "record"}

(* The attempt in work, as the run knows it.                               *)
InWork(r, a) ==
  /\ a.id = run[r].attempt /\ a.run = run[r].first
  /\ a.status = "STARTED"
  /\ a.cohort = run[r].cohort /\ a.kind = run[r].kind /\ run[r].market = {a.market}

OpenIsLast == \A a \in attempts : a.status = "STARTED" => a.id = Made

(* No attempt is open but that of the run's session, once it has recovered *)
(* what other runs left.                                                   *)
WorkSound(r) ==
  /\ InSession(r) => \E a \in attempts : InWork(r, a)
  /\ run[r].pc \in {"queue", "cleared", "baseline"} => \A a \in attempts : a.status # "STARTED"
  /\ run[r].pc = "cleared" => \E m \in Markets : run[r].market = {m}

(* A market an entry may still be paid for.                                *)
Fresh(c, m) ==
  /\ \A a \in EntriesOf(c, m) : a.status # "SUCCEEDED"
  /\ Cardinality(FailedEntries(c, m)) < MaxFailedEntries

(* What is queued is fresh, and so is the market in work, which the queue  *)
(* no longer holds.                                                        *)
QueueSound(r) ==
  run[r].pc \notin {"idle", "recover"} =>
    /\ \A m \in run[r].entries : Fresh(run[r].cohort, m)
    /\ run[r].pc \in {"cleared", "session", "record"} /\ run[r].kind = "entry" =>
         \A m \in run[r].market : m \notin run[r].entries /\ Fresh(run[r].cohort, m)

(* The last attempt of run r that is closed.                               *)
LastClosed(r) == IF InSession(r) THEN Made - 1 ELSE Made

(* The n last closed attempts are all the run made, or the one before them *)
(* is an attempt of the run that did not go on with the streak.            *)
FailuresSince(r, n) ==
  \/ LastClosed(r) - n = run[r].first - 1
  \/ \E b \in attempts : /\ b.run = run[r].first /\ b.id = LastClosed(r) - n
                         /\ b.status = "SUCCEEDED"
RepeatsSince(r, n) ==
  \/ LastClosed(r) - n = run[r].first - 1
  \/ \E b \in attempts : /\ b.run = run[r].first /\ b.id = LastClosed(r) - n
                         /\ b.status # "STARTED" /\ b.error # "REPEATED"

StreakSound(r) ==
  run[r].pc # "idle" =>
    /\ run[r].first = 0 => run[r].failures = 0 /\ run[r].repeats = 0
    /\ run[r].first # 0 => FailuresSince(r, run[r].failures) /\ RepeatsSince(r, run[r].repeats)
    /\ run[r].pc = "recover" => run[r].first = 0 /\ run[r].updates = {} /\ run[r].entries = {}

(* A run that may still open an attempt is not to be stopped.              *)
MayGoOn(r) ==
  \/ run[r].pc \in {"recover", "cleared", "baseline"}
  \/ run[r].pc = "queue" /\ (run[r].updates # {} \/ run[r].entries # {})

GoesOnSound(r) ==
  /\ MayGoOn(r) \/ InSession(r) => run[r].failures < AnyStreak /\ run[r].repeats < ErrorStreak
  /\ MayGoOn(r) => \A b \in attempts : b.run = run[r].first /\ b.id = Made => b.error # "SYSTEMIC"

Sound(r) == WorkSound(r) /\ QueueSound(r) /\ StreakSound(r) /\ GoesOnSound(r)

PaidOnce ==
  \A a, b \in attempts :
    /\ a.kind = "entry" /\ a.status = "SUCCEEDED"
    /\ b.kind = "entry" /\ b.cohort = a.cohort /\ b.market = a.market
    => b.id <= a.id

(* The two halves of BoundedWaste.                                         *)
FewFailures ==
  \A c \in Cohorts, m \in Markets : Cardinality(FailedEntries(c, m)) <= MaxFailedEntries

Patient(a) ==
  /\ \A b \in Before(a, 1) : b.error # "SYSTEMIC"
  /\ ~(/\ Cardinality(Before(a, ErrorStreak)) = ErrorStreak
       /\ \A b \in Before(a, ErrorStreak) : b.error = "REPEATED")
  /\ ~(/\ Cardinality(Before(a, AnyStreak)) = AnyStreak
       /\ \A b \in Before(a, AnyStreak) : b.status = "FAILED")

RunState == [pc : {"idle", "recover", "queue", "cleared", "session", "record", "baseline"},
             cohort : Cohorts \cup {NoCohort}, first : 0..MaxAttempts,
             updates : SUBSET Markets, entries : SUBSET Markets,
             stop : BOOLEAN,
             repeats : 0..ErrorStreak, failures : 0..AnyStreak,
             kind : {"entry", "update"}, market : SUBSET Markets,
             attempt : 0..MaxAttempts]

IInv ==
  /\ TypeOK
  /\ Numbered
  /\ Locked
  /\ OpenIsLast
  /\ \A r \in Runs : Sound(r)
  /\ PaidOnce
  /\ BoundedWaste

-----------------------------------------------------------------------------
(* What closing an attempt, and opening one, does to the attempts.         *)

Unique == attempts \subseteq Attempt /\ \A a, b \in attempts : a.id = b.id => a = b

(* A market that failed once more has one failed entry more.               *)
Counts(a, c, m) == /\ a.cohort = c /\ a.market = m /\ a.kind = "entry"
                   /\ a.status = "FAILED" /\ a.error # "INTERRUPTED"

(* The failed entries of a market, in terms of Counts.                     *)
LEMMA FailedEntriesAre ==
  \A c, m : /\ FailedEntries(c, m) = {a \in attempts : Counts(a, c, m)}
            /\ EntriesOf(c, m) = {a \in attempts : a.cohort = c /\ a.market = m /\ a.kind = "entry"}
BY DEF FailedEntries, EntriesOf, Counts

(* Closing the open attempt, which is the last.                            *)
Closing(a, b) ==
  /\ Unique /\ Numbered
  /\ a \in attempts /\ a.status = "STARTED" /\ a.id = Made
  /\ b \in [id : {a.id}, run : {a.run}, cohort : {a.cohort}, market : {a.market}, kind : {a.kind},
            day : {a.day}, status : {"SUCCEEDED", "FAILED"}, cost : 0..DailyUsd, error : Errors,
            spent : {a.spent}]
  /\ attempts' = (attempts \ {a}) \cup {b}

(* What closing an attempt leaves of it.                                   *)
LEMMA CloseIs ==
  ASSUME NEW a \in Attempt, NEW status \in {"SUCCEEDED", "FAILED"}, NEW cost \in 0..DailyUsd,
         NEW error \in Errors
  PROVE  LET b == [a EXCEPT !.status = status, !.cost = cost, !.error = error]
         IN  /\ b \in [id : {a.id}, run : {a.run}, cohort : {a.cohort}, market : {a.market},
                       kind : {a.kind}, day : {a.day}, status : {"SUCCEEDED", "FAILED"},
                       cost : 0..DailyUsd, error : Errors, spent : {a.spent}]
             /\ b.status = status /\ b.error = error /\ b.cost = cost
BY DEF Attempt

(* Closing the last attempt keeps the numbering, and replaces that attempt *)
(* only.                                                                   *)
LEMMA ClosingKeeps ==
  ASSUME NEW a, NEW b, Closing(a, b)
  PROVE  /\ Unique' /\ Numbered' /\ Made' = Made /\ Made \in Nat
         /\ b \notin attempts /\ b \in Attempt
         /\ \A x \in attempts' : x = b \/ (x \in attempts /\ x # a /\ x.id < Made)
         /\ \A x \in attempts : x = a \/ (x \in attempts' /\ x.id < Made)
<1>1. /\ a \in Attempt /\ b \in Attempt /\ b.id = a.id /\ b.run = a.run /\ b.status # "STARTED"
      /\ b.cohort = a.cohort /\ b.market = a.market
  BY DEF Closing, Unique, Attempt
<1>2. b \notin attempts
  BY <1>1 DEF Closing, Unique
<1>3. Unique'
  BY <1>1 DEF Closing, Unique
<1>4. IsFiniteSet(attempts') /\ Cardinality(attempts') = Cardinality(attempts) /\ Made \in Nat
  <2>1. IsFiniteSet(attempts) /\ Cardinality(attempts) \in Nat
    BY FS_CardinalityType DEF Closing, Numbered
  <2>2. IsFiniteSet(attempts \ {a}) /\ Cardinality(attempts \ {a}) = Cardinality(attempts) - 1
    BY <2>1, FS_RemoveElement DEF Closing
  <2>3. /\ IsFiniteSet((attempts \ {a}) \cup {b})
        /\ Cardinality((attempts \ {a}) \cup {b}) = Cardinality(attempts) - 1 + 1
    BY <1>2, <2>2, FS_AddElement
  <2> QED
    BY <2>1, <2>3 DEF Closing, Made
<1>5. Made' = Made
  BY <1>4 DEF Made
<1>6. Numbered'
  BY <1>1, <1>4, <1>5 DEF Closing, Numbered, Unique
<1>7. \A x \in attempts : x # a => x.id < Made
  BY <1>1, <1>4 DEF Closing, Unique, Numbered, Attempt
<1> QED
  BY <1>1, <1>2, <1>3, <1>4, <1>5, <1>6, <1>7 DEF Closing

(* Opening an attempt: it is the last, under a new number.                 *)
Opening(b) ==
  /\ Unique /\ Numbered
  /\ b \in Attempt /\ b.id = Made + 1 /\ b.run <= b.id
  /\ attempts' = attempts \cup {b}

(* Opening an attempt keeps the numbering, and adds one with the highest   *)
(* number.                                                                 *)
LEMMA OpeningKeeps ==
  ASSUME NEW b, Opening(b)
  PROVE  /\ Unique' /\ Numbered' /\ Made' = Made + 1 /\ Made \in Nat
         /\ b \notin attempts /\ \A x \in attempts : x.id <= Made
<1>1. Made \in Nat /\ \A x \in attempts : x.id <= Made /\ x.id # b.id
  BY FS_CardinalityType DEF Opening, Numbered, Made, Unique, Attempt
<1>2. b \notin attempts
  BY <1>1
<1>3. IsFiniteSet(attempts') /\ Cardinality(attempts') = Cardinality(attempts) + 1
  BY <1>2, FS_AddElement DEF Opening, Numbered
<1>4. Made' = Made + 1
  BY <1>3 DEF Made
<1>5. Unique'
  BY <1>1 DEF Opening, Unique
<1>6. Numbered'
  BY <1>1, <1>3, <1>4 DEF Opening, Numbered, Unique, Attempt
<1> QED
  BY <1>1, <1>2, <1>4, <1>5, <1>6

(* The failed entries of each market, after an attempt was closed.         *)
LEMMA ClosingCounts ==
  ASSUME NEW a, NEW b, Closing(a, b), NEW c, NEW m
  PROVE  /\ IsFiniteSet(FailedEntries(c, m)) /\ Cardinality(FailedEntries(c, m)) \in Nat
         /\ Cardinality(FailedEntries(c, m))' =
              IF Counts(b, c, m) THEN Cardinality(FailedEntries(c, m)) + 1
                                 ELSE Cardinality(FailedEntries(c, m))
<1>1. b \notin attempts /\ ~Counts(a, c, m)
  BY ClosingKeeps DEF Closing, Counts
<1>2. FailedEntries(c, m) = {x \in attempts : Counts(x, c, m)}
  BY DEF FailedEntries, EntriesOf, Counts
<1>3. FailedEntries(c, m)' = {x \in attempts' : Counts(x, c, m)}
  BY DEF FailedEntries, EntriesOf, Counts
<1>4. FailedEntries(c, m)' = IF Counts(b, c, m) THEN FailedEntries(c, m) \cup {b}
                                                ELSE FailedEntries(c, m)
  BY <1>1, <1>2, <1>3 DEF Closing
<1>5. IsFiniteSet(FailedEntries(c, m))
  BY <1>2, FS_Subset DEF Closing, Numbered
<1>6. b \notin FailedEntries(c, m)
  BY <1>1, <1>2
<1> QED
  BY <1>4, <1>5, <1>6, FS_AddElement, FS_CardinalityType

(* A streak that something broke, or that began with the run, fills no     *)
(* window that reaches further back.                                       *)
LEMMA StreakIsBroken ==
  ASSUME Unique, NEW a, a.id \in Nat, a.run \in Nat, \A b \in attempts : b.run <= b.id,
         NEW n \in Nat, NEW k \in Nat, k < n,
         a.id - 1 - k = a.run - 1
  PROVE  Cardinality(Before(a, n)) # n
<1> DEFINE W == Before(a, n)
           I == a.run..(a.id - 1)
<1>1. \A b \in W : b \in attempts /\ b.id \in I
  BY DEF Before, Unique, Attempt
<1>2. IsFiniteSet(I) /\ Cardinality(I) = k
  <2>1. I = a.run..(a.run + k - 1)
    OBVIOUS
  <2>2. a.run \in Int /\ a.run + k - 1 \in Int
    OBVIOUS
  <2>3. /\ IsFiniteSet(a.run..(a.run + k - 1))
        /\ Cardinality(a.run..(a.run + k - 1)) = IF a.run > a.run + k - 1 THEN 0
                                                 ELSE (a.run + k - 1) - a.run + 1
    BY <2>2, FS_Interval
  <2> QED
    BY <2>1, <2>3
<1>3. [b \in W |-> b.id] \in Injection(W, I)
  <2>1. [b \in W |-> b.id] \in [W -> I]
    BY <1>1
  <2>2. \A x, y \in W : x.id = y.id => x = y
    BY <1>1 DEF Unique
  <2> QED
    BY <2>1, <2>2 DEF Injection, IsInjective
<1> HIDE DEF W, I
<1>4. Cardinality(W) <= Cardinality(I) /\ IsFiniteSet(W)
  BY <1>2, <1>3, FS_Injection
<1>5. Cardinality(W) \in Nat
  BY <1>4, FS_CardinalityType
<1> QED
  BY <1>2, <1>4, <1>5 DEF W

(* Closing the last attempt takes nothing from the windows of the others,  *)
(* and opening one asks for the windows before it.                         *)
LEMMA ClosingPatient ==
  ASSUME NEW a, NEW b, Closing(a, b), \A x \in attempts : Patient(x)
  PROVE  \A x \in attempts' : Patient(x)'
<1> SUFFICES ASSUME NEW x \in attempts' PROVE Patient(x)'
  OBVIOUS
<1>1. a.id = b.id /\ a.run = b.run /\ a \in Attempt /\ b \in Attempt /\ a.id = Made
  BY ClosingKeeps DEF Closing, Unique, Attempt
<1>2. PICK y \in attempts : y.id = x.id /\ y.run = x.run
  BY <1>1, ClosingKeeps DEF Closing
<1>3. x \in Attempt /\ x.id <= Made /\ Made \in Nat
  BY <1>2, ClosingKeeps DEF Closing, Numbered, Unique
<1>4. \A n \in Nat : Before(x, n)' = Before(y, n)
  <2> SUFFICES ASSUME NEW n \in Nat PROVE Before(x, n)' = Before(y, n)
    OBVIOUS
  <2>1. /\ \A z \in attempts' : z = b \/ z \in attempts
        /\ \A z \in attempts : z = a \/ z \in attempts'
    BY DEF Closing
  <2>2. /\ a.id \notin (x.id - n)..(x.id - 1) /\ b.id \notin (x.id - n)..(x.id - 1)
    BY <1>1, <1>3 DEF Attempt
  <2>3. Before(x, n)' = {z \in attempts' : z.run = x.run /\ z.id \in (x.id - n)..(x.id - 1)}
    BY DEF Before
  <2>4. Before(y, n) = {z \in attempts : z.run = x.run /\ z.id \in (x.id - n)..(x.id - 1)}
    BY <1>2 DEF Before
  <2> QED
    BY <2>1, <2>2, <2>3, <2>4
<1>5. Patient(y) /\ 1 \in Nat /\ ErrorStreak \in Nat /\ AnyStreak \in Nat
  BY <1>2, ResearchAssumption
<1> QED
  BY <1>4, <1>5 DEF Patient

(* An attempt opened while neither streak is full keeps every attempt      *)
(* patient.                                                                *)
LEMMA OpeningPatient ==
  ASSUME NEW b, Opening(b), \A x \in attempts : Patient(x),
         \A x \in attempts : x.run = b.run /\ x.id = Made => x.error # "SYSTEMIC",
         NEW f \in Nat, f < AnyStreak,
         \/ Made - f = b.run - 1
         \/ \E x \in attempts : x.run = b.run /\ x.id = Made - f /\ x.status = "SUCCEEDED",
         NEW p \in Nat, p < ErrorStreak,
         \/ Made - p = b.run - 1
         \/ \E x \in attempts : x.run = b.run /\ x.id = Made - p /\ x.error # "REPEATED"
  PROVE  \A x \in attempts' : Patient(x)'
<1>1. Made \in Nat /\ b \in Attempt /\ b.id = Made + 1 /\ \A x \in attempts : x.id <= Made
  BY OpeningKeeps DEF Opening
<1>2. b.id \in Nat /\ b.run \in Nat /\ ErrorStreak \in Nat /\ AnyStreak \in Nat
      /\ \A z \in attempts : z.id \in Nat
  BY <1>1, ResearchAssumption DEF Attempt, Opening, Unique
<1>3. \A x \in attempts', n \in Nat : Before(x, n)' = Before(x, n)
  <2> SUFFICES ASSUME NEW x \in attempts', NEW n \in Nat PROVE Before(x, n)' = Before(x, n)
    OBVIOUS
  <2>1. x.id \in Nat /\ x.id <= Made + 1
    BY <1>1, <1>2 DEF Opening
  <2>2. b.id \notin (x.id - n)..(x.id - 1)
    BY <1>1, <2>1
  <2>3. Before(x, n)' = {z \in attempts' : z.run = x.run /\ z.id \in (x.id - n)..(x.id - 1)}
    BY DEF Before
  <2>4. Before(x, n) = {z \in attempts : z.run = x.run /\ z.id \in (x.id - n)..(x.id - 1)}
    BY DEF Before
  <2> QED
    BY <2>2, <2>3, <2>4 DEF Opening
<1>4. \A z \in Before(b, 1) : z.error # "SYSTEMIC"
  <2> SUFFICES ASSUME NEW z \in Before(b, 1) PROVE z.error # "SYSTEMIC"
    OBVIOUS
  <2>1. z \in attempts /\ z.run = b.run /\ z.id = Made
    BY <1>1 DEF Before
  <2> QED
    BY <2>1
<1>5. \A z \in attempts : z.run <= z.id
  BY DEF Opening, Numbered
<1>6. ~(/\ Cardinality(Before(b, AnyStreak)) = AnyStreak
        /\ \A z \in Before(b, AnyStreak) : z.status = "FAILED")
  <2>1. CASE Made - f = b.run - 1
    <3>1. Cardinality(Before(b, AnyStreak)) # AnyStreak
      BY <1>1, <1>2, <1>5, <2>1, StreakIsBroken DEF Opening
    <3> QED
      BY <3>1
  <2>2. CASE \E x \in attempts : x.run = b.run /\ x.id = Made - f /\ x.status = "SUCCEEDED"
    <3>1. PICK x \in attempts : x.run = b.run /\ x.id = Made - f /\ x.status = "SUCCEEDED"
      BY <2>2
    <3>2. x \in Before(b, AnyStreak)
      BY <1>1, <1>2, <3>1 DEF Before
    <3> QED
      BY <3>1, <3>2
  <2> QED
    BY <2>1, <2>2
<1>7. ~(/\ Cardinality(Before(b, ErrorStreak)) = ErrorStreak
        /\ \A z \in Before(b, ErrorStreak) : z.error = "REPEATED")
  <2>1. CASE Made - p = b.run - 1
    <3>1. Cardinality(Before(b, ErrorStreak)) # ErrorStreak
      BY <1>1, <1>2, <1>5, <2>1, StreakIsBroken DEF Opening
    <3> QED
      BY <3>1
  <2>2. CASE \E x \in attempts : x.run = b.run /\ x.id = Made - p /\ x.error # "REPEATED"
    <3>1. PICK x \in attempts : x.run = b.run /\ x.id = Made - p /\ x.error # "REPEATED"
      BY <2>2
    <3>2. x \in Before(b, ErrorStreak)
      BY <1>1, <1>2, <3>1 DEF Before
    <3> QED
      BY <3>1, <3>2
  <2> QED
    BY <2>1, <2>2
<1>8. Patient(b)
  BY <1>4, <1>6, <1>7 DEF Patient
<1>9. \A x \in attempts' : Patient(x)
  BY <1>8 DEF Opening
<1>10. 1 \in Nat
  OBVIOUS
<1> QED
  BY <1>2, <1>3, <1>9, <1>10 DEF Patient

-----------------------------------------------------------------------------
(* What every step needs.                                                  *)

(* The parts of the type invariant, before a step and after it.            *)
LEMMA Typed ==
  TypeOK <=> /\ day \in 0..MaxDay
             /\ active \in Cohorts \cup {NoCohort}
             /\ closed \subseteq Cohorts /\ active \notin closed
             /\ Unique
             /\ started \subseteq Markets
             /\ lock \in Runs \cup {Free}
             /\ run \in [Runs -> RunState]
BY DEF TypeOK, Unique, RunState

LEMMA TypedAfter ==
  TypeOK' <=> /\ day' \in 0..MaxDay
              /\ active' \in Cohorts \cup {NoCohort}
              /\ closed' \subseteq Cohorts /\ active' \notin closed'
              /\ Unique'
              /\ started' \subseteq Markets
              /\ lock' \in Runs \cup {Free}
              /\ run' \in [Runs -> RunState]
BY DEF TypeOK, Unique, RunState

(* An empty count is within every bound.                                   *)
LEMMA Zeros == 0 \in 0..MaxAttempts /\ 0 \in 0..ErrorStreak /\ 0 \in 0..AnyStreak
BY ResearchAssumption

(* A run under way is alone.                                               *)
LEMMA Alone ==
  ASSUME IInv, NEW r \in Runs, run[r].pc # "idle"
  PROVE  /\ lock = r /\ run[r] \in RunState /\ run[r].cohort \in Cohorts
         /\ \A q \in Runs : q # r => run[q].pc = "idle"
<1>1. Locked /\ run \in [Runs -> RunState]
  BY Typed DEF IInv
<1> QED
  BY <1>1 DEF Locked

(* What depends on the attempts alone holds while they stay.               *)
LEMMA AttemptsStay ==
  ASSUME IInv, attempts' = attempts
  PROVE  /\ Unique' /\ Numbered' /\ OpenIsLast' /\ PaidOnce' /\ BoundedWaste'
         /\ Made' = Made /\ \A c, m : Fresh(c, m)' = Fresh(c, m)
<1>1. Unique /\ Numbered /\ OpenIsLast /\ PaidOnce /\ BoundedWaste
  BY Typed DEF IInv
<1>2. Unique'
  BY <1>1 DEF Unique
<1>3. Numbered' /\ OpenIsLast' /\ Made' = Made
  BY <1>1 DEF Numbered, OpenIsLast, Made
<1>4. PaidOnce'
  BY <1>1 DEF PaidOnce
<1>5. BoundedWaste'
  BY <1>1 DEF BoundedWaste, FailedEntries, EntriesOf, Before
<1>6. \A c, m : Fresh(c, m)' = Fresh(c, m)
  BY DEF Fresh, FailedEntries, EntriesOf
<1> QED
  BY <1>2, <1>3, <1>4, <1>5, <1>6

(* When only run r moves, only what r remembers has to be shown.           *)
LEMMA OneMoves ==
  ASSUME IInv, NEW r \in Runs, \A q \in Runs : q # r => run[q].pc = "idle",
         NEW s \in RunState, run' = [run EXCEPT ![r] = s],
         s.pc # "idle" => lock' = r /\ s.cohort \in Cohorts,
         Sound(r)'
  PROVE  run' \in [Runs -> RunState] /\ Locked' /\ \A q \in Runs : Sound(q)'
<1>1. run \in [Runs -> RunState]
  BY Typed DEF IInv
<1>2. run' \in [Runs -> RunState] /\ run'[r] = s /\ \A q \in Runs : q # r => run'[q] = run[q]
  BY <1>1
<1>3. Locked'
  BY <1>2 DEF Locked
<1>4. \A q \in Runs : q # r => Sound(q)'
  BY <1>2 DEF Sound, WorkSound, QueueSound, StreakSound, GoesOnSound, InSession, MayGoOn
<1> QED
  BY <1>2, <1>3, <1>4

-----------------------------------------------------------------------------
(* The steps that leave the attempts alone.                                *)

(* A run that starts has nothing to remember yet.                          *)
LEMMA BeginKeeps ==
  ASSUME IInv, NEW r \in Runs, NEW c \in Cohorts, Begin(r, c)
  PROVE  IInv'
<1> DEFINE s == [Idle EXCEPT !.pc = "recover", !.cohort = c]
<1>1. /\ s \in RunState
      /\ s.pc = "recover" /\ s.cohort = c /\ s.first = 0 /\ s.updates = {} /\ s.entries = {}
      /\ s.repeats = 0 /\ s.failures = 0
  BY Zeros DEF Idle, RunState
<1>2. TypeOK /\ Locked /\ run' = [run EXCEPT ![r] = s] /\ attempts' = attempts /\ lock = Free /\ lock' = r
  BY DEF IInv, Begin, TakesLock
<1> HIDE DEF s
<1>3. \A q \in Runs : run[q].pc = "idle"
  BY <1>2, ResearchAssumption DEF Locked
<1>4. run'[r] = s /\ \A b \in attempts : b.run # 0
  BY <1>2, Typed DEF Unique, Attempt
<1>5. Sound(r)'
  BY <1>1, <1>2, <1>4, ResearchAssumption
     DEF Sound, WorkSound, QueueSound, StreakSound, GoesOnSound, InSession, MayGoOn
<1>6. run' \in [Runs -> RunState] /\ Locked' /\ \A q \in Runs : Sound(q)'
  BY <1>1, <1>2, <1>3, <1>5, OneMoves
<1>7. TypeOK'
  BY <1>2, <1>6, AttemptsStay, Typed, TypedAfter DEF Begin
<1> QED
  BY <1>2, <1>6, <1>7, AttemptsStay DEF IInv

(* A run lists what is fresh, once nothing is open.                        *)
LEMMA ListKeeps ==
  ASSUME IInv, NEW r \in Runs, List(r)
  PROVE  IInv'
<1>1. /\ TypeOK /\ Sound(r) /\ run[r].pc = "recover" /\ attempts' = attempts /\ lock' = lock
      /\ Unfinished(run[r].cohort) = {} /\ UNCHANGED <<day, active, closed, started>>
  BY DEF IInv, List
<1>2. /\ lock = r /\ run[r] \in RunState /\ run[r].cohort \in Cohorts
      /\ \A q \in Runs : q # r => run[q].pc = "idle"
  BY <1>1, Alone
<1>3. PICK s \in RunState :
        /\ run' = [run EXCEPT ![r] = s]
        /\ s.pc = "queue" /\ s.cohort = run[r].cohort /\ s.first = run[r].first
        /\ s.repeats = run[r].repeats /\ s.failures = run[r].failures
        /\ s.entries \subseteq Candidates(run[r].cohort)
  <2>1. CASE \E updates \in SUBSET DueUpdates(run[r].cohort) :
               run' = [run EXCEPT ![r].pc = "queue", ![r].updates = updates,
                                  ![r].entries = Candidates(run[r].cohort)]
    <3>1. PICK updates \in SUBSET DueUpdates(run[r].cohort) :
            run' = [run EXCEPT ![r].pc = "queue", ![r].updates = updates,
                               ![r].entries = Candidates(run[r].cohort)]
      BY <2>1
    <3> DEFINE s == [run[r] EXCEPT !.pc = "queue", !.updates = updates,
                                   !.entries = Candidates(run[r].cohort)]
    <3>2. updates \in SUBSET Markets /\ Candidates(run[r].cohort) \in SUBSET Markets
      BY DEF DueUpdates, Candidates
    <3>3. /\ s \in RunState /\ s.pc = "queue" /\ s.cohort = run[r].cohort /\ s.first = run[r].first
          /\ s.repeats = run[r].repeats /\ s.failures = run[r].failures
          /\ s.entries = Candidates(run[r].cohort)
      BY <1>2, <3>2 DEF RunState
    <3>4. run' = [run EXCEPT ![r] = s]
      BY <1>1, <3>1, Typed
    <3> QED
      BY <3>3, <3>4
  <2>2. CASE run' = [run EXCEPT ![r].pc = "queue"]
    <3> DEFINE s == [run[r] EXCEPT !.pc = "queue"]
    <3>1. /\ s \in RunState /\ s.pc = "queue" /\ s.cohort = run[r].cohort /\ s.first = run[r].first
          /\ s.repeats = run[r].repeats /\ s.failures = run[r].failures /\ s.entries = run[r].entries
      BY <1>2 DEF RunState
    <3>2. run' = [run EXCEPT ![r] = s] /\ run[r].entries = {}
      BY <1>1, <2>2, Typed DEF Sound, StreakSound
    <3> QED
      BY <3>1, <3>2
  <2> QED
    BY <2>1, <2>2 DEF List
<1>4. run'[r] = s /\ \A b \in attempts : b.run # 0 /\ b.status # "STARTED"
  BY <1>1, <1>3, Typed DEF Unique, Attempt, Unfinished
<1>5. Made' = Made /\ \A c, m : Fresh(c, m)' = Fresh(c, m)
  BY <1>1, AttemptsStay
<1>6. \A m \in s.entries : Fresh(s.cohort, m)
  BY <1>3 DEF Candidates, Fresh
<1>7. run[r].first = 0 /\ run[r].failures = 0 /\ run[r].repeats = 0
  BY <1>1 DEF Sound, StreakSound
<1>8. Sound(r)'
  BY <1>1, <1>3, <1>4, <1>5, <1>6, <1>7, ResearchAssumption
     DEF Sound, WorkSound, QueueSound, StreakSound, GoesOnSound, InSession, MayGoOn
<1>9. run' \in [Runs -> RunState] /\ Locked' /\ \A q \in Runs : Sound(q)'
  BY <1>1, <1>2, <1>3, <1>8, OneMoves
<1>10. TypeOK'
  BY <1>1, <1>9, AttemptsStay, Typed, TypedAfter
<1> QED
  BY <1>1, <1>9, <1>10, AttemptsStay DEF IInv

(* A step within the queue, or out of it: the attempts, the streaks and    *)
(* the cohort are kept, and nothing is added to the queue.                 *)
LEMMA QueueStepKeeps ==
  ASSUME IInv, NEW r \in Runs, run[r].pc # "idle", attempts' = attempts, lock' = lock,
         UNCHANGED <<day, active, closed, started>>,
         NEW s \in RunState, run' = [run EXCEPT ![r] = s],
         s.cohort = run[r].cohort /\ s.first = run[r].first,
         s.repeats = run[r].repeats /\ s.failures = run[r].failures,
         s.entries \subseteq run[r].entries,
         \/ /\ MayGoOn(r) /\ run[r].pc \in {"queue", "baseline"}
            /\ s.pc \in {"queue", "cleared"}
            /\ s.pc = "cleared" => \E m \in Markets : s.market = {m}
            /\ s.pc = "cleared" /\ s.kind = "entry" =>
                 \A m \in s.market : m \in run[r].entries \ s.entries
         \/ /\ run[r].pc = "session" /\ s.pc = "record"
            /\ s.kind = run[r].kind /\ s.market = run[r].market /\ s.attempt = run[r].attempt
  PROVE  IInv'
<1>1. /\ lock = r /\ run[r] \in RunState /\ run[r].cohort \in Cohorts
      /\ \A q \in Runs : q # r => run[q].pc = "idle"
  BY Alone
<1>2. TypeOK /\ Sound(r)
  BY DEF IInv
<1>3. run'[r] = s /\ Made' = Made /\ \A c, m : Fresh(c, m)' = Fresh(c, m)
  BY <1>2, AttemptsStay, Typed
<1>4. (\E a \in attempts : InWork(r, a)) /\ InSession(r)' => \E a \in attempts : InWork(r, a)'
  BY <1>3 DEF InWork, InSession
<1>5. WorkSound(r)'
  BY <1>2, <1>3, <1>4 DEF Sound, WorkSound, InSession
<1>6. QueueSound(r)'
  BY <1>2, <1>3 DEF Sound, QueueSound
<1>7. LastClosed(r)' = LastClosed(r)
  BY <1>3 DEF LastClosed, InSession
<1>8. StreakSound(r)'
  BY <1>2, <1>3, <1>7 DEF Sound, StreakSound, FailuresSince, RepeatsSince
<1>9. GoesOnSound(r)'
  BY <1>2, <1>3 DEF Sound, GoesOnSound, MayGoOn, InSession
<1>10. Sound(r)'
  BY <1>5, <1>6, <1>8, <1>9 DEF Sound
<1>11. run' \in [Runs -> RunState] /\ Locked' /\ \A q \in Runs : Sound(q)'
  BY <1>1, <1>10, OneMoves
<1>12. TypeOK'
  BY <1>2, <1>11, AttemptsStay, Typed, TypedAfter
<1> QED
  BY <1>11, <1>12, AttemptsStay DEF IInv

(* A market that leaves the queue leaves one of its two parts.             *)
LEMMA WithoutIs ==
  ASSUME NEW r, run[r] \in RunState, NEW m \in Queue(r)
  PROVE  /\ Without(r, m) \in RunState
         /\ Without(r, m).cohort = run[r].cohort /\ Without(r, m).first = run[r].first
         /\ Without(r, m).repeats = run[r].repeats /\ Without(r, m).failures = run[r].failures
         /\ Without(r, m).pc = run[r].pc
         /\ Without(r, m).entries \subseteq run[r].entries
         /\ KindOf(r) = "entry" => m \in run[r].entries \ Without(r, m).entries
         /\ KindOf(r) \in {"entry", "update"} /\ m \in Markets
         /\ run[r].updates # {} \/ run[r].entries # {}
<1>1. CASE run[r].updates # {}
  BY <1>1 DEF Without, KindOf, Queue, RunState
<1>2. CASE run[r].updates = {}
  BY <1>2 DEF Without, KindOf, Queue, RunState
<1> QED
  BY <1>1, <1>2

LEMMA SkipKeeps ==
  ASSUME IInv, NEW r \in Runs, NEW m \in Markets, Skip(r, m)
  PROVE  IInv'
<1>1. /\ run[r].pc = "queue" /\ m \in Queue(r)
      /\ UNCHANGED <<day, active, closed, attempts, started, lock>>
  BY DEF Skip
<1>2. run[r] \in RunState
  BY <1>1, Alone
<1> DEFINE u == Without(r, m)
<1>3. PICK s \in {u, [u EXCEPT !.stop = TRUE]} : run' = [run EXCEPT ![r] = s]
  BY DEF Skip
<1>4. u \in RunState
  BY <1>1, <1>2, WithoutIs
<1>5. /\ s \in RunState /\ s.cohort = u.cohort /\ s.first = u.first /\ s.repeats = u.repeats
      /\ s.failures = u.failures /\ s.entries = u.entries /\ s.pc = u.pc
  <2> HIDE DEF u
  <2> QED
    BY <1>3, <1>4 DEF RunState
<1>6. MayGoOn(r)
  BY <1>1, <1>2, WithoutIs DEF MayGoOn
<1>7. /\ s.cohort = run[r].cohort /\ s.first = run[r].first /\ s.repeats = run[r].repeats
      /\ s.failures = run[r].failures /\ s.entries \subseteq run[r].entries /\ s.pc = "queue"
  BY <1>1, <1>2, <1>5, WithoutIs
<1> QED
  BY <1>1, <1>3, <1>5, <1>6, <1>7, QueueStepKeeps

LEMMA ClearKeeps ==
  ASSUME IInv, NEW r \in Runs, NEW m \in Markets, Clear(r, m)
  PROVE  IInv'
<1> DEFINE u == Without(r, m)
           s == [u EXCEPT !.pc = "cleared", !.market = {m}, !.kind = KindOf(r)]
<1>1. /\ run[r].pc = "queue" /\ m \in Queue(r) /\ run' = [run EXCEPT ![r] = s]
      /\ UNCHANGED <<day, active, closed, attempts, started, lock>>
  BY DEF Clear
<1>2. run[r] \in RunState
  BY <1>1, Alone
<1>3. u \in RunState /\ KindOf(r) \in {"entry", "update"}
  BY <1>1, <1>2, WithoutIs
<1>4. /\ s \in RunState /\ s.cohort = u.cohort /\ s.first = u.first /\ s.repeats = u.repeats
      /\ s.failures = u.failures /\ s.entries = u.entries /\ s.pc = "cleared"
      /\ s.market = {m} /\ s.kind = KindOf(r)
  <2> HIDE DEF u
  <2> QED
    BY <1>3 DEF RunState
<1>5. MayGoOn(r)
  BY <1>1, <1>2, WithoutIs DEF MayGoOn
<1> HIDE DEF s
<1>6. /\ s.cohort = run[r].cohort /\ s.first = run[r].first /\ s.repeats = run[r].repeats
      /\ s.failures = run[r].failures /\ s.entries \subseteq run[r].entries
      /\ s.kind = "entry" => \A x \in s.market : x \in run[r].entries \ s.entries
  BY <1>1, <1>2, <1>4, WithoutIs
<1> QED
  BY <1>1, <1>4, <1>5, <1>6, QueueStepKeeps

LEMMA PassSessionKeeps ==
  ASSUME IInv, NEW r \in Runs, PassSession(r)
  PROVE  IInv'
<1> DEFINE s == [run[r] EXCEPT !.pc = "record"]
<1>1. run[r].pc = "session" /\ UNCHANGED <<day, active, closed, attempts, started, lock>>
  BY DEF PassSession
<1>2. run[r] \in RunState /\ run \in [Runs -> RunState]
  BY <1>1, Alone, Typed DEF IInv
<1>3. /\ s \in RunState /\ s.cohort = run[r].cohort /\ s.first = run[r].first
      /\ s.repeats = run[r].repeats /\ s.failures = run[r].failures /\ s.entries = run[r].entries
      /\ s.pc = "record" /\ s.kind = run[r].kind /\ s.market = run[r].market
      /\ s.attempt = run[r].attempt
  BY <1>2 DEF RunState
<1>4. run' = [run EXCEPT ![r] = s]
  BY <1>2 DEF PassSession
<1> QED
  BY <1>1, <1>3, <1>4, QueueStepKeeps

LEMMA TakeBaselineKeeps ==
  ASSUME IInv, NEW r \in Runs, TakeBaseline(r)
  PROVE  IInv'
<1> DEFINE n == [run[r] EXCEPT !.pc = "queue", !.market = {}, !.attempt = 0, !.kind = "entry"]
<1>1. run[r].pc = "baseline" /\ UNCHANGED <<day, active, closed, attempts, started, lock>>
  BY DEF TakeBaseline
<1>2. run[r] \in RunState /\ run \in [Runs -> RunState]
  BY <1>1, Alone, Typed DEF IInv
<1>3. PICK s \in {n, Stopped(n)} : run' = [run EXCEPT ![r] = s]
  BY DEF TakeBaseline
<1>4. /\ n \in RunState /\ n.cohort = run[r].cohort /\ n.first = run[r].first
      /\ n.repeats = run[r].repeats /\ n.failures = run[r].failures /\ n.entries = run[r].entries
      /\ n.pc = "queue"
  BY <1>2, Zeros DEF RunState
<1> HIDE DEF n
<1>5. /\ s \in RunState /\ s.cohort = n.cohort /\ s.first = n.first
      /\ s.repeats = n.repeats /\ s.failures = n.failures /\ s.entries \subseteq n.entries
      /\ s.pc = "queue"
  BY <1>3, <1>4 DEF Stopped, RunState
<1>6. MayGoOn(r)
  BY <1>1 DEF MayGoOn
<1> QED
  BY <1>1, <1>3, <1>4, <1>5, <1>6, QueueStepKeeps

(* A run that ends, or dies, forgets everything.                           *)
LEMMA EndKeeps ==
  ASSUME IInv, NEW r \in Runs, Finish(r) \/ Crash(r)
  PROVE  IInv'
<1>1. /\ run[r].pc # "idle" /\ run' = [run EXCEPT ![r] = Idle]
      /\ lock' = Release(r) /\ UNCHANGED <<day, active, closed, attempts, started>>
  BY DEF Finish, Crash
<1>2. lock = r /\ TypeOK /\ \A q \in Runs : q # r => run[q].pc = "idle"
  BY <1>1, Alone DEF IInv
<1>3. Idle \in RunState /\ Idle.pc = "idle"
  BY ResearchAssumption DEF Idle, RunState
<1>4. run'[r] = Idle
  BY <1>1, <1>2, Typed
<1>5. Sound(r)'
  BY <1>3, <1>4 DEF Sound, WorkSound, QueueSound, StreakSound, GoesOnSound, InSession, MayGoOn
<1>6. run' \in [Runs -> RunState] /\ Locked' /\ \A q \in Runs : Sound(q)'
  BY <1>1, <1>2, <1>3, <1>5, OneMoves
<1>7. TypeOK'
  BY <1>1, <1>2, <1>6, AttemptsStay, Typed, TypedAfter DEF Release
<1> QED
  BY <1>1, <1>6, <1>7, AttemptsStay DEF IInv

-----------------------------------------------------------------------------
(* The steps that close an attempt.                                        *)

(* No session is reported to cost more than the daily budget.              *)
LEMMA Costs ==
  ASSUME NEW a \in Attempt
  PROVE  ReportedCosts(a) \subseteq 0..DailyUsd /\ CapOf[a.cohort] \in 0..DailyUsd
<1>1. a.spent \in 0..DailyUsd /\ a.cohort \in Cohorts
  BY DEF Attempt
<1>2. CapOf[a.cohort] \in Nat /\ CapOf[a.cohort] <= DailyUsd /\ DailyUsd \in Nat
  BY <1>1, ResearchAssumption
<1> QED
  BY <1>1, <1>2 DEF ReportedCosts

(* The attempts are in order after one was closed, provided its market had *)
(* a failure left to spend.                                                *)
LEMMA CloseKeeps ==
  ASSUME IInv, NEW a, NEW b, Closing(a, b),
         \A c \in Cohorts, m \in Markets :
            Counts(b, c, m) => Cardinality(FailedEntries(c, m)) < MaxFailedEntries
  PROVE  /\ OpenIsLast' /\ PaidOnce' /\ BoundedWaste' /\ \A x \in attempts' : x.status # "STARTED"
         /\ \A c, m :
              /\ Fresh(c, m) /\ ~Counts(b, c, m)
              /\ ~(b.cohort = c /\ b.market = m /\ b.kind = "entry" /\ b.status = "SUCCEEDED")
              => Fresh(c, m)'
<1>1. OpenIsLast /\ PaidOnce /\ BoundedWaste
  BY DEF IInv
<1>2. /\ b.status # "STARTED" /\ b.id = a.id /\ b.kind = a.kind /\ b.cohort = a.cohort
      /\ b.market = a.market /\ a.id = Made /\ a \in attempts
  BY DEF Closing
<1>3. /\ Unique' /\ Numbered' /\ Made' = Made /\ Made \in Nat
      /\ \A x \in attempts' : x = b \/ (x \in attempts /\ x # a /\ x.id < Made)
  BY ClosingKeeps
<1>4. \A x \in attempts' : x.status # "STARTED"
  BY <1>1, <1>2, <1>3 DEF OpenIsLast, Closing, Unique, Numbered, Attempt
<1>5. OpenIsLast'
  BY <1>4 DEF OpenIsLast
<1>6. PaidOnce'
  <2> SUFFICES ASSUME NEW x \in attempts', NEW y \in attempts',
                      x.kind = "entry", x.status = "SUCCEEDED",
                      y.kind = "entry", y.cohort = x.cohort, y.market = x.market
               PROVE  y.id <= x.id
    BY DEF PaidOnce
  <2>1. CASE x = b
    BY <1>2, <1>3, <2>1 DEF Numbered
  <2>2. CASE x # b /\ y = b
    <3>1. x \in attempts /\ a.id <= x.id
      BY <1>1, <1>2, <1>3, <2>2 DEF PaidOnce
    <3> QED
      BY <1>2, <2>2, <3>1
  <2>3. CASE x # b /\ y # b
    BY <1>1, <1>3, <2>3 DEF PaidOnce
  <2> QED
    BY <2>1, <2>2, <2>3
<1>7. FewFailures' /\ \A x \in attempts' : Patient(x)'
  <2>1. FewFailures /\ \A x \in attempts : Patient(x)
    BY <1>1 DEF BoundedWaste, FewFailures, Patient
  <2>2. \A c \in Cohorts, m \in Markets : Cardinality(FailedEntries(c, m))' <= MaxFailedEntries
    <3> SUFFICES ASSUME NEW c \in Cohorts, NEW m \in Markets
                 PROVE  Cardinality(FailedEntries(c, m))' <= MaxFailedEntries
      OBVIOUS
    <3>1. /\ Cardinality(FailedEntries(c, m)) \in Nat
          /\ Cardinality(FailedEntries(c, m))' =
               IF Counts(b, c, m) THEN Cardinality(FailedEntries(c, m)) + 1
                                  ELSE Cardinality(FailedEntries(c, m))
      BY ClosingCounts
    <3> QED
      BY <2>1, <3>1, ResearchAssumption DEF FewFailures
  <2>3. FewFailures'
    BY <2>2 DEF FewFailures
  <2> QED
    BY <2>1, <2>3, ClosingPatient
<1>8. BoundedWaste'
  BY <1>7 DEF BoundedWaste, FewFailures, Patient
<1>9. ASSUME NEW c, NEW m, Fresh(c, m), ~Counts(b, c, m),
             ~(b.cohort = c /\ b.market = m /\ b.kind = "entry" /\ b.status = "SUCCEEDED")
      PROVE  Fresh(c, m)'
  <2>1. Cardinality(FailedEntries(c, m))' = Cardinality(FailedEntries(c, m))
    BY <1>9, ClosingCounts
  <2>2. \A x \in EntriesOf(c, m)' : x.status # "SUCCEEDED"
    BY <1>3, <1>9 DEF EntriesOf, Fresh
  <2> QED
    BY <1>9, <2>1, <2>2 DEF Fresh
<1> QED
  BY <1>4, <1>5, <1>6, <1>8, <1>9

(* Recovery closes what a dead run left, and counts it against no market.  *)
LEMMA RecoverKeeps ==
  ASSUME IInv, NEW r \in Runs, Recover(r)
  PROVE  IInv'
<1>1. PICK a \in Unfinished(run[r].cohort) :
         attempts' = Close(a, "FAILED", CapOf[a.cohort], "INTERRUPTED")
  BY DEF Recover
<1> DEFINE b == [a EXCEPT !.status = "FAILED", !.cost = CapOf[a.cohort], !.error = "INTERRUPTED"]
<1>2. /\ run[r].pc = "recover" /\ TypeOK /\ Unique /\ Numbered /\ Sound(r)
      /\ UNCHANGED <<day, active, closed, started, lock, run>>
  BY Typed DEF Recover, IInv
<1>3. a \in attempts /\ a.status = "STARTED" /\ a.id = Made /\ a \in Attempt
  BY <1>1, <1>2 DEF Unfinished, IInv, OpenIsLast, Unique
<1>4. attempts' = (attempts \ {a}) \cup {b}
  BY <1>1 DEF Close
<1>5. CapOf[a.cohort] \in 0..DailyUsd /\ "FAILED" \in {"SUCCEEDED", "FAILED"} /\ "INTERRUPTED" \in Errors
  BY <1>3, Costs DEF Errors
<1>6. b \in [id : {a.id}, run : {a.run}, cohort : {a.cohort}, market : {a.market},
             kind : {a.kind}, day : {a.day}, status : {"SUCCEEDED", "FAILED"},
             cost : 0..DailyUsd, error : Errors, spent : {a.spent}]
      /\ b.error = "INTERRUPTED"
  BY <1>3, <1>5, CloseIs
<1> HIDE DEF b
<1>7. Closing(a, b)
  BY <1>2, <1>3, <1>4, <1>6 DEF Closing
<1>8. Unique' /\ Numbered' /\ OpenIsLast' /\ PaidOnce' /\ BoundedWaste'
  BY <1>6, <1>7, ClosingKeeps, CloseKeeps DEF Counts
<1>9. run[r] \in RunState /\ run' = [run EXCEPT ![r] = run[r]] /\ run'[r] = run[r]
      /\ lock' = r /\ run[r].cohort \in Cohorts /\ \A q \in Runs : q # r => run[q].pc = "idle"
  BY <1>2, Alone, Typed
<1>10. \A x \in attempts' : x.run # 0
  BY <1>8 DEF Unique, Attempt
<1>11. Sound(r)'
  BY <1>2, <1>9, <1>10 DEF Sound, WorkSound, QueueSound, StreakSound, GoesOnSound, InSession, MayGoOn
<1>12. run' \in [Runs -> RunState] /\ Locked' /\ \A q \in Runs : Sound(q)'
  BY <1>9, <1>11, OneMoves
<1>13. TypeOK'
  BY <1>2, <1>8, <1>12, Typed, TypedAfter
<1> QED
  BY <1>8, <1>12, <1>13 DEF IInv

(* The attempt that a session names is the one it has in work.             *)
LEMMA AttemptInWork ==
  ASSUME IInv, NEW r \in Runs, InSession(r)
  PROVE  /\ WithId(run[r].attempt) \in attempts
         /\ InWork(r, WithId(run[r].attempt))
<1>1. PICK a \in attempts : InWork(r, a)
  BY DEF IInv, Sound, WorkSound
<1>2. \A x, y \in attempts : x.id = y.id => x = y
  BY DEF IInv, TypeOK
<1>3. WithId(run[r].attempt) = a
  BY <1>1, <1>2 DEF WithId, InWork
<1> QED
  BY <1>1, <1>3

(* The run's own session ends: its attempt is closed and the run goes back *)
(* to its queue, or on to the baseline.                                    *)
LEMMA SessionEnds ==
  ASSUME IInv, NEW r \in Runs, InSession(r), NEW a \in attempts, InWork(r, a),
         NEW status \in {"SUCCEEDED", "FAILED"}, NEW cost \in ReportedCosts(a),
         NEW error \in Errors \ {"INTERRUPTED"},
         attempts' = Close(a, status, cost, error),
         UNCHANGED <<day, active, closed, started, lock>>,
         NEW s \in RunState, run' = [run EXCEPT ![r] = s],
         s.cohort = run[r].cohort, s.first = run[r].first,
         s.entries \subseteq run[r].entries,
         s.pc \in {"queue", "baseline"},
         s.failures = IF status = "SUCCEEDED" THEN 0 ELSE run[r].failures + 1,
         s.repeats = IF error = "REPEATED" THEN run[r].repeats + 1 ELSE 0,
         \/ s.pc = "queue" /\ s.updates = {} /\ s.entries = {}
         \/ error # "SYSTEMIC" /\ s.failures < AnyStreak /\ s.repeats < ErrorStreak
  PROVE  IInv'
<1> DEFINE b == [a EXCEPT !.status = status, !.cost = cost, !.error = error]
<1>1. /\ lock = r /\ run[r] \in RunState /\ run[r].cohort \in Cohorts
      /\ \A q \in Runs : q # r => run[q].pc = "idle"
  BY Alone DEF InSession
<1>2. /\ TypeOK /\ Unique /\ Numbered /\ OpenIsLast /\ Sound(r) /\ run \in [Runs -> RunState]
  BY Typed DEF IInv
<1>3. a.status = "STARTED" /\ a.id = Made /\ a \in Attempt
  BY <1>2 DEF InWork, OpenIsLast, Unique
<1>4. attempts' = (attempts \ {a}) \cup {b}
  BY DEF Close
<1>5. cost \in 0..DailyUsd
  BY <1>3, Costs
<1>6. b \in [id : {a.id}, run : {a.run}, cohort : {a.cohort}, market : {a.market},
             kind : {a.kind}, day : {a.day}, status : {"SUCCEEDED", "FAILED"},
             cost : 0..DailyUsd, error : Errors, spent : {a.spent}]
      /\ b.error = error /\ b.status = status
  BY <1>3, <1>5, CloseIs, ZenonT(60)
<1> HIDE DEF b
<1>7. Closing(a, b)
  BY <1>2, <1>3, <1>4, <1>6 DEF Closing
<1>8. /\ b.id = Made /\ b.run = run[r].first /\ b.cohort = run[r].cohort /\ b.kind = run[r].kind
      /\ run[r].market = {b.market} /\ b \in attempts'
  BY <1>3, <1>4, <1>6 DEF InWork
<1>9. QueueSound(r) /\ StreakSound(r) /\ GoesOnSound(r) /\ run[r].pc \in {"session", "record"}
  BY <1>2 DEF Sound, InSession
<1>10. \A c \in Cohorts, m \in Markets :
         Counts(b, c, m) => Cardinality(FailedEntries(c, m)) < MaxFailedEntries
  BY <1>8, <1>9 DEF Counts, QueueSound, Fresh
<1>11. /\ Unique' /\ Numbered' /\ Made' = Made /\ Made \in Nat
       /\ \A x \in attempts : x = a \/ x \in attempts'
       /\ \A x \in attempts' : x = b \/ x.id < Made
  BY <1>7, ClosingKeeps
<1>12. /\ OpenIsLast' /\ PaidOnce' /\ BoundedWaste' /\ \A x \in attempts' : x.status # "STARTED"
       /\ \A c, m :
            /\ Fresh(c, m) /\ ~Counts(b, c, m)
            /\ ~(b.cohort = c /\ b.market = m /\ b.kind = "entry" /\ b.status = "SUCCEEDED")
            => Fresh(c, m)'
  BY <1>7, <1>10, CloseKeeps
<1>13. run'[r] = s
  BY <1>2
<1>14. WorkSound(r)'
  BY <1>12, <1>13 DEF WorkSound, InSession
<1>15. QueueSound(r)'
  <2>1. \A m \in s.entries : Fresh(run[r].cohort, m) /\ (b.kind = "entry" => m # b.market)
    BY <1>8, <1>9 DEF QueueSound
  <2>2. \A m \in s.entries : Fresh(run[r].cohort, m)'
    BY <1>12, <2>1 DEF Counts
  <2> QED
    BY <1>13, <2>2 DEF QueueSound
<1>16. LastClosed(r) = Made - 1 /\ LastClosed(r)' = Made
  BY <1>9, <1>11, <1>13 DEF LastClosed, InSession
<1>17. StreakSound(r)'
  <2>1. run[r].first # 0 /\ FailuresSince(r, run[r].failures) /\ RepeatsSince(r, run[r].repeats)
    BY <1>3, <1>9 DEF StreakSound, InWork, Attempt
  <2>2. run[r].failures \in Nat /\ run[r].repeats \in Nat
    BY <1>1 DEF RunState
  <2>3. FailuresSince(r, s.failures)'
    <3>1. CASE status = "SUCCEEDED"
      <4>1. b \in attempts' /\ b.run = s.first /\ b.id = Made - 0 /\ b.status = "SUCCEEDED"
        BY <1>6, <1>8, <1>11, <3>1
      <4> QED
        BY <1>13, <1>16, <3>1, <4>1 DEF FailuresSince
    <3>2. CASE status # "SUCCEEDED"
      <4>1. Made - s.failures = LastClosed(r) - run[r].failures
        BY <1>11, <1>16, <2>2, <3>2
      <4>2. CASE LastClosed(r) - run[r].failures = run[r].first - 1
        BY <1>13, <1>16, <4>1, <4>2 DEF FailuresSince
      <4>3. CASE \E x \in attempts : /\ x.run = run[r].first
                                     /\ x.id = LastClosed(r) - run[r].failures
                                     /\ x.status = "SUCCEEDED"
        <5>1. PICK x \in attempts : /\ x.run = run[r].first
                                    /\ x.id = LastClosed(r) - run[r].failures
                                    /\ x.status = "SUCCEEDED"
          BY <4>3
        <5>2. x \in attempts'
          BY <1>3, <1>11, <5>1
        <5> QED
          BY <1>13, <1>16, <4>1, <5>1, <5>2 DEF FailuresSince
      <4> QED
        BY <2>1, <4>2, <4>3 DEF FailuresSince
    <3> QED
      BY <3>1, <3>2
  <2>4. RepeatsSince(r, s.repeats)'
    <3>1. CASE error # "REPEATED"
      <4>1. /\ b \in attempts' /\ b.run = s.first /\ b.id = Made - 0
            /\ b.status # "STARTED" /\ b.error # "REPEATED"
        BY <1>6, <1>8, <1>11, <3>1
      <4> QED
        BY <1>13, <1>16, <3>1, <4>1 DEF RepeatsSince
    <3>2. CASE error = "REPEATED"
      <4>1. Made - s.repeats = LastClosed(r) - run[r].repeats
        BY <1>11, <1>16, <2>2, <3>2
      <4>2. CASE LastClosed(r) - run[r].repeats = run[r].first - 1
        BY <1>13, <1>16, <4>1, <4>2 DEF RepeatsSince
      <4>3. CASE \E x \in attempts : /\ x.run = run[r].first
                                     /\ x.id = LastClosed(r) - run[r].repeats
                                     /\ x.status # "STARTED" /\ x.error # "REPEATED"
        <5>1. PICK x \in attempts : /\ x.run = run[r].first
                                    /\ x.id = LastClosed(r) - run[r].repeats
                                    /\ x.status # "STARTED" /\ x.error # "REPEATED"
          BY <4>3
        <5>2. x \in attempts'
          BY <1>3, <1>11, <5>1
        <5> QED
          BY <1>13, <1>16, <4>1, <5>1, <5>2 DEF RepeatsSince
      <4> QED
        BY <2>1, <4>2, <4>3 DEF RepeatsSince
    <3> QED
      BY <3>1, <3>2
  <2> QED
    BY <1>13, <2>1, <2>3, <2>4 DEF StreakSound
<1>18. GoesOnSound(r)'
  <2>1. \A x \in attempts' : x.id = Made => x = b
    BY <1>11
  <2> QED
    BY <1>6, <1>11, <1>13, <2>1 DEF GoesOnSound, MayGoOn, InSession
<1>19. Sound(r)'
  BY <1>14, <1>15, <1>17, <1>18 DEF Sound
<1>20. run' \in [Runs -> RunState] /\ Locked' /\ \A q \in Runs : Sound(q)'
  BY <1>1, <1>19, OneMoves
<1>21. TypeOK'
  BY <1>2, <1>11, <1>20, Typed, TypedAfter
<1> QED
  BY <1>11, <1>12, <1>20, <1>21 DEF IInv

(* What a run remembers after a failure.                                   *)
LEMMA AfterFailureIs ==
  ASSUME IInv, NEW r \in Runs, InSession(r), NEW error \in {"SYSTEMIC", "REPEATED", "OTHER"}
  PROVE  LET s == AfterFailure(r, error)
         IN  /\ s \in RunState /\ s.cohort = run[r].cohort /\ s.first = run[r].first
             /\ s.entries \subseteq run[r].entries /\ s.pc = "queue"
             /\ s.failures = run[r].failures + 1
             /\ s.repeats = IF error = "REPEATED" THEN run[r].repeats + 1 ELSE 0
             /\ \/ s.pc = "queue" /\ s.updates = {} /\ s.entries = {}
                \/ error # "SYSTEMIC" /\ s.failures < AnyStreak /\ s.repeats < ErrorStreak
<1> DEFINE n == [run[r] EXCEPT !.pc = "queue", !.market = {}, !.attempt = 0, !.kind = "entry",
                               !.repeats = Repeats(r, error), !.failures = @ + 1]
           s == AfterFailure(r, error)
<1>1. run[r] \in RunState /\ run[r].failures < AnyStreak /\ run[r].repeats < ErrorStreak
  BY Alone DEF IInv, Sound, GoesOnSound, InSession
<1>2. /\ run[r].failures + 1 \in 0..AnyStreak /\ Repeats(r, error) \in 0..ErrorStreak
      /\ Repeats(r, error) = IF error = "REPEATED" THEN run[r].repeats + 1 ELSE 0
      /\ Repeats(r, error) \in Nat /\ run[r].failures + 1 \in Nat
      /\ ErrorStreak \in Nat /\ AnyStreak \in Nat
  BY <1>1, ResearchAssumption DEF RunState, Repeats
<1>3. /\ n \in RunState /\ n.cohort = run[r].cohort /\ n.first = run[r].first
      /\ n.entries = run[r].entries /\ n.pc = "queue"
      /\ n.failures = run[r].failures + 1 /\ n.repeats = Repeats(r, error)
  BY <1>1, <1>2, Zeros DEF RunState
<1>4. s = IF Stops(r, error) THEN Stopped(n) ELSE n
  BY DEF AfterFailure
<1> HIDE DEF n, s
<1>5. CASE Stops(r, error)
  <2>1. /\ s \in RunState /\ s.cohort = n.cohort /\ s.first = n.first /\ s.entries = {}
        /\ s.updates = {} /\ s.pc = n.pc /\ s.failures = n.failures /\ s.repeats = n.repeats
    BY <1>3, <1>4, <1>5 DEF Stopped, RunState
  <2> QED
    BY <1>2, <1>3, <2>1 DEF s
<1>6. CASE ~Stops(r, error)
  <2>1. s = n
    BY <1>4, <1>6
  <2>2. error # "SYSTEMIC" /\ Repeats(r, error) < ErrorStreak /\ run[r].failures + 1 < AnyStreak
    BY <1>2, <1>6 DEF Stops
  <2> QED
    BY <1>2, <1>3, <2>1, <2>2 DEF s
<1> QED
  BY <1>5, <1>6

LEMMA FailSessionKeeps ==
  ASSUME IInv, NEW r \in Runs, FailSession(r)
  PROVE  IInv'
<1> DEFINE a == WithId(run[r].attempt)
<1>1. InSession(r) /\ UNCHANGED <<day, active, closed, started, lock>>
  BY DEF FailSession, InSession
<1>2. a \in attempts /\ InWork(r, a)
  BY <1>1, AttemptInWork
<1>3. PICK error \in SessionFailures, cost \in ReportedCosts(a) :
        attempts' = Close(a, "FAILED", cost, error) /\ run' = [run EXCEPT ![r] = AfterFailure(r, error)]
  BY DEF FailSession
<1> HIDE DEF a
<1>4. error \in {"SYSTEMIC", "REPEATED", "OTHER"} /\ error \in Errors \ {"INTERRUPTED"}
  BY ResearchAssumption DEF Errors
<1>7. PICK s : s = AfterFailure(r, error)
  OBVIOUS
<1>8. /\ s \in RunState /\ s.cohort = run[r].cohort /\ s.first = run[r].first
      /\ s.entries \subseteq run[r].entries /\ s.pc = "queue"
      /\ s.failures = run[r].failures + 1
      /\ s.repeats = IF error = "REPEATED" THEN run[r].repeats + 1 ELSE 0
      /\ \/ s.pc = "queue" /\ s.updates = {} /\ s.entries = {}
         \/ error # "SYSTEMIC" /\ s.failures < AnyStreak /\ s.repeats < ErrorStreak
  BY <1>1, <1>4, <1>7, AfterFailureIs
<1> QED
  BY <1>1, <1>2, <1>3, <1>4, <1>7, <1>8, SessionEnds

LEMMA FailRecordKeeps ==
  ASSUME IInv, NEW r \in Runs, FailRecord(r)
  PROVE  IInv'
<1> DEFINE a == WithId(run[r].attempt)
<1>1. InSession(r) /\ UNCHANGED <<day, active, closed, started, lock>>
  BY DEF FailRecord, InSession
<1>2. a \in attempts /\ InWork(r, a)
  BY <1>1, AttemptInWork
<1>3. PICK cost \in ReportedCosts(a) : attempts' = Close(a, "FAILED", cost, "OTHER")
  BY <1>2 DEF FailRecord, InWork
<1>4. run' = [run EXCEPT ![r] = AfterFailure(r, "OTHER")]
  BY DEF FailRecord
<1> HIDE DEF a
<1>5. "OTHER" \in {"SYSTEMIC", "REPEATED", "OTHER"} /\ "OTHER" \in Errors \ {"INTERRUPTED"}
  BY DEF Errors
<1>7. PICK s : s = AfterFailure(r, "OTHER")
  OBVIOUS
<1>8. /\ s \in RunState /\ s.cohort = run[r].cohort /\ s.first = run[r].first
      /\ s.entries \subseteq run[r].entries /\ s.pc = "queue"
      /\ s.failures = run[r].failures + 1
      /\ s.repeats = IF "OTHER" = "REPEATED" THEN run[r].repeats + 1 ELSE 0
      /\ \/ s.pc = "queue" /\ s.updates = {} /\ s.entries = {}
         \/ "OTHER" # "SYSTEMIC" /\ s.failures < AnyStreak /\ s.repeats < ErrorStreak
  BY <1>1, <1>5, <1>7, AfterFailureIs
<1> QED
  BY <1>1, <1>2, <1>3, <1>4, <1>5, <1>7, <1>8, SessionEnds

LEMMA RecordForecastKeeps ==
  ASSUME IInv, NEW r \in Runs, RecordForecast(r)
  PROVE  IInv'
<1> DEFINE a == WithId(run[r].attempt)
           s == [run[r] EXCEPT !.pc = "baseline", !.repeats = 0, !.failures = 0]
<1>1. InSession(r) /\ UNCHANGED <<day, active, closed, started, lock>>
  BY DEF RecordForecast, InSession
<1>2. a \in attempts /\ InWork(r, a) /\ run[r] \in RunState /\ run \in [Runs -> RunState]
  BY <1>1, AttemptInWork, Alone, Typed DEF InSession, IInv
<1>3. PICK cost \in ReportedCosts(a) : attempts' = Close(a, "SUCCEEDED", cost, "none")
  BY DEF RecordForecast
<1>4. run' = [run EXCEPT ![r] = s]
  BY <1>2 DEF RecordForecast
<1>5. /\ s \in RunState /\ s.cohort = run[r].cohort /\ s.first = run[r].first
      /\ s.entries = run[r].entries /\ s.pc = "baseline" /\ s.failures = 0 /\ s.repeats = 0
  BY <1>2, Zeros DEF RunState
<1> HIDE DEF a, s
<1>6. /\ "none" \in Errors \ {"INTERRUPTED"} /\ "SUCCEEDED" \in {"SUCCEEDED", "FAILED"}
      /\ "none" # "SYSTEMIC" /\ s.failures < AnyStreak /\ s.repeats < ErrorStreak
      /\ s.failures = IF "SUCCEEDED" = "SUCCEEDED" THEN 0 ELSE run[r].failures + 1
      /\ s.repeats = IF "none" = "REPEATED" THEN run[r].repeats + 1 ELSE 0
  BY <1>5, ResearchAssumption DEF Errors
<1>7. s.entries \subseteq run[r].entries /\ s.pc \in {"queue", "baseline"}
  BY <1>5
<1> QED
  BY <1>1, <1>2, <1>3, <1>4, <1>5, <1>6, <1>7, SessionEnds

-----------------------------------------------------------------------------
(* The step that opens an attempt, and the surroundings.                   *)

LEMMA StartAttemptKeeps ==
  ASSUME IInv, NEW r \in Runs, StartAttempt(r)
  PROVE  IInv'
<1> DEFINE id == Cardinality(attempts) + 1
           first == RunId(r, id)
<1>1. /\ run[r].pc = "cleared" /\ id <= MaxAttempts
      /\ UNCHANGED <<day, active, closed, started, lock>>
  BY DEF StartAttempt
<1>2. /\ lock = r /\ run[r] \in RunState /\ run[r].cohort \in Cohorts
      /\ \A q \in Runs : q # r => run[q].pc = "idle"
  BY <1>1, Alone
<1>3. /\ TypeOK /\ Unique /\ Numbered /\ OpenIsLast /\ PaidOnce /\ BoundedWaste /\ Sound(r)
      /\ run \in [Runs -> RunState] /\ day \in 0..MaxDay
  BY Typed DEF IInv
<1>4. PICK m \in run[r].market, spent \in CostsOf[run[r].cohort] :
        attempts' = attempts \cup
          {[id |-> id, run |-> first, cohort |-> run[r].cohort, market |-> m, kind |-> run[r].kind,
            day |-> day, status |-> "STARTED", cost |-> 0, error |-> "none", spent |-> spent]}
  BY DEF StartAttempt
<1>5. Made \in Nat /\ id = Made + 1 /\ id \in 1..MaxAttempts
  BY <1>1, <1>3, FS_CardinalityType DEF Numbered, Made
<1>6. first \in 1..MaxAttempts /\ first <= id /\ first = IF run[r].first = 0 THEN id ELSE run[r].first
  <2>1. CASE run[r].first = 0
    BY <1>5, <2>1 DEF RunId
  <2>2. CASE run[r].first # 0
    <3>1. Made - run[r].failures = run[r].first - 1 \/ \E x \in attempts : x.run = run[r].first
      BY <1>1, <1>3, <2>2 DEF Sound, StreakSound, FailuresSince, LastClosed, InSession
    <3>2. run[r].failures \in Nat /\ run[r].first \in 1..MaxAttempts
      BY <1>2, <2>2 DEF RunState
    <3>3. run[r].first <= Made + 1
      BY <1>3, <1>5, <3>1, <3>2 DEF Numbered, Unique, Attempt
    <3> QED
      BY <1>5, <2>2, <3>2, <3>3 DEF RunId
  <2> QED
    BY <2>1, <2>2
<1>7. spent \in 0..DailyUsd /\ 0 \in 0..DailyUsd
  BY <1>2, <1>4, ResearchAssumption
<1>8. PICK market \in Markets : run[r].market = {market}
  BY <1>1, <1>3 DEF Sound, WorkSound
<1>9. m \in Markets /\ run[r].market = {m} /\ run[r].kind \in {"entry", "update"}
  BY <1>2, <1>4, <1>8 DEF RunState
<1> HIDE DEF id, first
<1>10. PICK b \in Attempt :
         /\ b.id = id /\ b.run = first /\ b.cohort = run[r].cohort /\ b.market = m
         /\ b.kind = run[r].kind /\ b.status = "STARTED"
         /\ attempts' = attempts \cup {b}
  <2> DEFINE b == [id |-> id, run |-> first, cohort |-> run[r].cohort, market |-> m,
                   kind |-> run[r].kind, day |-> day, status |-> "STARTED", cost |-> 0,
                   error |-> "none", spent |-> spent]
  <2>1. /\ b \in Attempt /\ b.id = id /\ b.run = first /\ b.cohort = run[r].cohort /\ b.market = m
        /\ b.kind = run[r].kind /\ b.status = "STARTED"
    BY <1>2, <1>3, <1>5, <1>6, <1>7, <1>9 DEF Attempt, Errors
  <2>2. attempts' = attempts \cup {b}
    BY <1>4
  <2> QED
    BY <2>1, <2>2
<1>11. attempts' = attempts \cup {b}
  BY <1>10
<1>12. PICK s \in RunState :
         /\ s.pc = "session" /\ s.attempt = id /\ s.first = first
         /\ s.cohort = run[r].cohort /\ s.kind = run[r].kind /\ s.market = run[r].market
         /\ s.entries = run[r].entries /\ s.failures = run[r].failures /\ s.repeats = run[r].repeats
         /\ run' = [run EXCEPT ![r] = s]
  <2> DEFINE s == [run[r] EXCEPT !.pc = "session", !.attempt = id, !.first = first]
  <2>1. id \in 0..MaxAttempts /\ first \in 0..MaxAttempts
    BY <1>5, <1>6
  <2>2. /\ s \in RunState /\ s.pc = "session" /\ s.attempt = id /\ s.first = first
        /\ s.cohort = run[r].cohort /\ s.kind = run[r].kind /\ s.market = run[r].market
        /\ s.entries = run[r].entries /\ s.failures = run[r].failures /\ s.repeats = run[r].repeats
    BY <1>2, <2>1 DEF RunState
  <2>3. run' = [run EXCEPT ![r] = s]
    BY <1>3 DEF StartAttempt, id, first
  <2> QED
    BY <2>2, <2>3
<1>13. run' = [run EXCEPT ![r] = s]
  BY <1>12
<1>14. run'[r] = s
  BY <1>3, <1>13
<1>15. Opening(b)
  BY <1>3, <1>5, <1>6, <1>10, <1>11 DEF Opening
<1>16. /\ Unique' /\ Numbered' /\ Made' = Made + 1
       /\ b \notin attempts /\ \A x \in attempts : x.id <= Made
  BY <1>15, OpeningKeeps
<1>17. \A x \in attempts : x.status # "STARTED"
  BY <1>1, <1>3 DEF Sound, WorkSound
<1>18. OpenIsLast'
  BY <1>5, <1>10, <1>11, <1>16, <1>17 DEF OpenIsLast
<1>19. QueueSound(r) /\ StreakSound(r) /\ GoesOnSound(r) /\ MayGoOn(r) /\ LastClosed(r) = Made
  BY <1>1, <1>3 DEF Sound, MayGoOn, LastClosed, InSession
<1>20. \A c, x : Fresh(c, x) => Fresh(c, x)'
  <2> SUFFICES ASSUME NEW c, NEW x, Fresh(c, x) PROVE Fresh(c, x)'
    OBVIOUS
  <2>1. FailedEntries(c, x)' = FailedEntries(c, x)
    BY <1>10, <1>11 DEF FailedEntries, EntriesOf
  <2>2. \A y \in EntriesOf(c, x)' : y.status # "SUCCEEDED"
    BY <1>10, <1>11 DEF EntriesOf, Fresh
  <2> QED
    BY <2>1, <2>2 DEF Fresh
<1>21. PaidOnce'
  <2> SUFFICES ASSUME NEW x \in attempts', NEW y \in attempts',
                      x.kind = "entry", x.status = "SUCCEEDED",
                      y.kind = "entry", y.cohort = x.cohort, y.market = x.market
               PROVE  y.id <= x.id
    BY DEF PaidOnce
  <2>1. x \in attempts
    BY <1>10, <1>11
  <2>2. y # b
    <3> SUFFICES ASSUME y = b PROVE FALSE
      OBVIOUS
    <3>1. Fresh(run[r].cohort, m)
      BY <1>1, <1>9, <1>10, <1>19 DEF QueueSound
    <3>2. x \in EntriesOf(run[r].cohort, m)
      BY <1>10, <2>1 DEF EntriesOf
    <3> QED
      BY <3>1, <3>2 DEF Fresh
  <2> QED
    BY <1>3, <1>11, <2>1, <2>2 DEF PaidOnce
<1>22. run[r].failures \in Nat /\ run[r].repeats \in Nat
       /\ run[r].failures < AnyStreak /\ run[r].repeats < ErrorStreak
  BY <1>2, <1>19 DEF GoesOnSound, RunState
<1>23. /\ Made - run[r].failures = b.run - 1 \/
          \E x \in attempts : x.run = b.run /\ x.id = Made - run[r].failures /\ x.status = "SUCCEEDED"
       /\ Made - run[r].repeats = b.run - 1 \/
          \E x \in attempts : /\ x.run = b.run /\ x.id = Made - run[r].repeats
                              /\ x.status # "STARTED" /\ x.error # "REPEATED"
  <2>1. CASE run[r].first = 0
    BY <1>1, <1>5, <1>6, <1>10, <1>19, <2>1 DEF StreakSound
  <2>2. CASE run[r].first # 0
    BY <1>1, <1>6, <1>10, <1>19, <2>2 DEF StreakSound, FailuresSince, RepeatsSince
  <2> QED
    BY <2>1, <2>2
<1>24. \A x \in attempts : x.run = b.run /\ x.id = Made => x.error # "SYSTEMIC"
  <2> SUFFICES ASSUME NEW x \in attempts, x.run = b.run, x.id = Made PROVE x.error # "SYSTEMIC"
    OBVIOUS
  <2>1. x.run <= x.id
    BY <1>3 DEF Numbered
  <2>2. run[r].first # 0
    BY <1>5, <1>6, <1>10, <2>1
  <2> QED
    BY <1>6, <1>10, <1>19, <2>2 DEF GoesOnSound
<1>25. \A x \in attempts : Patient(x)
  BY <1>3 DEF BoundedWaste, Patient
<1>26. \A x \in attempts' : Patient(x)'
  BY <1>15, <1>22, <1>23, <1>24, <1>25, OpeningPatient
<1>27. \A c, x : FailedEntries(c, x)' = FailedEntries(c, x)
  BY <1>10, <1>11 DEF FailedEntries, EntriesOf
<1>28. BoundedWaste'
  BY <1>3, <1>26, <1>27 DEF BoundedWaste, Patient
<1>29. WorkSound(r)'
  <2>1. b \in attempts' /\ InWork(r, b)'
    BY <1>9, <1>10, <1>11, <1>12, <1>14 DEF InWork
  <2> QED
    BY <1>12, <1>14, <2>1 DEF WorkSound
<1>30. QueueSound(r)'
  BY <1>1, <1>12, <1>14, <1>19, <1>20 DEF QueueSound
<1>31. StreakSound(r)'
  <2>1. LastClosed(r)' = Made
    BY <1>5, <1>12, <1>14, <1>16 DEF LastClosed, InSession
  <2>2. FailuresSince(r, s.failures)' /\ RepeatsSince(r, s.repeats)'
    BY <1>10, <1>11, <1>12, <1>14, <1>23, <2>1 DEF FailuresSince, RepeatsSince
  <2>3. s.first # 0
    BY <1>6, <1>12
  <2> QED
    BY <1>12, <1>14, <2>2, <2>3 DEF StreakSound
<1>32. GoesOnSound(r)'
  BY <1>12, <1>14, <1>22 DEF GoesOnSound, MayGoOn, InSession
<1>33. Sound(r)'
  BY <1>29, <1>30, <1>31, <1>32 DEF Sound
<1>34. run' \in [Runs -> RunState] /\ Locked' /\ \A q \in Runs : Sound(q)'
  BY <1>1, <1>2, <1>12, <1>13, <1>33, OneMoves
<1>35. TypeOK'
  BY <1>1, <1>3, <1>16, <1>34, Typed, TypedAfter
<1> QED
  BY <1>16, <1>18, <1>21, <1>28, <1>34, <1>35 DEF IInv

(* Midnight, and a resolution observed meanwhile, keep the invariant.      *)
LEMMA SurroundingsKeep ==
  ASSUME IInv, Midnight \/ (\E m \in Markets : Observe(m)) \/ UNCHANGED vars
  PROVE  IInv'
<1>1. UNCHANGED <<active, closed, attempts, lock, run>>
  BY DEF Midnight, Observe, vars
<1>2. /\ TypeOK /\ Locked /\ run \in [Runs -> RunState] /\ \A q \in Runs : Sound(q)
  BY Typed DEF IInv
<1>3. day' \in 0..MaxDay /\ started' \subseteq Markets
  BY <1>2, Typed, ResearchAssumption DEF Midnight, Observe, vars
<1>4. TypeOK'
  BY <1>1, <1>2, <1>3, AttemptsStay, Typed, TypedAfter
<1>5. Locked'
  BY <1>1, <1>2 DEF Locked
<1>6. Made' = Made /\ \A c, m : Fresh(c, m)' = Fresh(c, m)
  BY <1>1, AttemptsStay
<1>7. ASSUME NEW q \in Runs PROVE Sound(q)'
  <2>1. Sound(q) /\ run'[q] = run[q]
    BY <1>1, <1>2
  <2>2. WorkSound(q)' /\ GoesOnSound(q)'
    BY <1>1, <1>6, <2>1 DEF Sound, WorkSound, GoesOnSound, InSession, MayGoOn, InWork
  <2>3. QueueSound(q)'
    BY <1>6, <2>1 DEF Sound, QueueSound
  <2>4. LastClosed(q)' = LastClosed(q)
    BY <1>6, <2>1 DEF LastClosed, InSession
  <2>5. StreakSound(q)'
    BY <1>1, <2>1, <2>4 DEF Sound, StreakSound, FailuresSince, RepeatsSince
  <2> QED
    BY <2>2, <2>3, <2>5 DEF Sound
<1> QED
  BY <1>1, <1>4, <1>5, <1>7, AttemptsStay DEF IInv

-----------------------------------------------------------------------------
(* The invariant, and what follows from it.                                *)

(* Everything above holds throughout: the types, the numbering of the      *)
(* attempts, the lock, what a run remembers of its queue and its streaks,  *)
(* and both properties of the attempts.                                    *)
THEOREM ResearchInvariant == Spec => []IInv
<1>1. Init => IInv
  <2> SUFFICES ASSUME Init PROVE IInv
    OBVIOUS
  <2>1. attempts = {} /\ Idle \in RunState /\ Idle.pc = "idle" /\ run = [r \in Runs |-> Idle]
    BY Zeros DEF Init, Idle, RunState
  <2>2. TypeOK
    BY <2>1, Typed, ResearchAssumption DEF Init, Unique
  <2>3. Numbered /\ OpenIsLast /\ PaidOnce
    BY <2>1, FS_EmptySet DEF Numbered, OpenIsLast, PaidOnce
  <2>4. Locked /\ \A r \in Runs : Sound(r)
    BY <2>1 DEF Locked, Sound, WorkSound, QueueSound, StreakSound, GoesOnSound, InSession, MayGoOn
  <2>5. \A c, m : FailedEntries(c, m) = {}
    BY <2>1 DEF FailedEntries, EntriesOf
  <2>6. BoundedWaste
    BY <2>1, <2>5, FS_EmptySet, ResearchAssumption DEF BoundedWaste
  <2> QED
    BY <2>2, <2>3, <2>4, <2>6 DEF IInv
<1>2. ASSUME IInv, [Next]_vars
      PROVE  IInv'
  <2>1. ASSUME NEW r \in Runs, RunStep(r)
        PROVE  IInv'
    BY <1>2, <2>1, RecoverKeeps, ListKeeps, StartAttemptKeeps, FailSessionKeeps, PassSessionKeeps,
       RecordForecastKeeps, FailRecordKeeps, TakeBaselineKeeps, EndKeeps, SkipKeeps, ClearKeeps
       DEF RunStep
  <2>2. ASSUME NEW r \in Runs, Crash(r) \/ \E c \in Cohorts : Begin(r, c)
        PROVE  IInv'
    BY <1>2, <2>2, EndKeeps, BeginKeeps
  <2> QED
    BY <1>2, <2>1, <2>2, SurroundingsKeep DEF Next
<1> QED
  BY <1>1, <1>2, PTL DEF Spec

(* Recovery never closes the attempt of a session in progress, and no      *)
(* entry is paid for a market whose forecast the cohort already has, for   *)
(* any number of runs that start, die and start again at any time.         *)
THEOREM PaidAtMostOnce == Spec => []NeverPaysTwice
<1>1. IInv => NeverPaysTwice
  BY AttemptInWork DEF IInv, PaidOnce, NeverPaysTwice, LiveSessionsKept, InSession, InWork
<1> QED
  BY <1>1, ResearchInvariant, PTL

(* Failures cost no more than the settings allow, whatever the failures,   *)
(* the settings and the crashes.                                           *)
THEOREM WasteIsBounded == Spec => []BoundedWaste
<1>1. IInv => BoundedWaste
  BY DEF IInv
<1> QED
  BY <1>1, ResearchInvariant, PTL

-----------------------------------------------------------------------------
(* The budget.  What a day is charged never goes up but when an attempt is *)
(* opened, since an open attempt counts at its cap and a closed one at no  *)
(* more; and what a session really costs is never more than is charged.    *)

Charged == [a \in Attempt |-> Charge(a)]
Costed  == [a \in Attempt |-> a.spent]

EntryDay(d) == {a \in On(d) : a.kind = "entry"}

(* Charges cover costs, and no attempt is of a day to come.                *)
Covered ==
  \A a \in attempts :
    /\ a.day <= day /\ a.spent <= Charge(a) /\ a.spent <= CapOf[a.cohort]
    /\ Charge(a) <= CapOf[a.cohort]

WithinLimits == \A d \in 0..MaxDay : SpentOn(d) <= DailyUsd /\ EntriesOn(d) <= MaxEntries

(* The room a cleared market was granted is still there.                   *)
HasRoom(r) ==
  run[r].pc = "cleared" =>
    /\ SpentOn(day) + CapOf[run[r].cohort] <= DailyUsd
    /\ run[r].kind = "entry" => EntriesOn(day) < MaxEntries

Budget == Covered /\ WithinLimits /\ \A r \in Runs : HasRoom(r)

(* What is charged for an attempt is a natural within the daily budget.    *)
LEMMA ChargeIs ==
  ASSUME NEW a \in Attempt
  PROVE  /\ Charge(a) \in 0..DailyUsd /\ Charged[a] = Charge(a) /\ Costed[a] = a.spent
         /\ a.spent \in 0..DailyUsd /\ a.cost \in 0..DailyUsd
         /\ CapOf[a.cohort] \in 0..DailyUsd /\ DailyUsd \in Nat
         /\ Charge(a) \in Int /\ a.spent \in Int
<1>1. CapOf[a.cohort] \in 0..DailyUsd
  BY Costs
<1>2. a.spent \in 0..DailyUsd /\ a.cost \in 0..DailyUsd
  BY DEF Attempt
<1> QED
  BY <1>1, <1>2, ResearchAssumption DEF Charge, Charged, Costed

(* A day's sum does not depend on what else there is.                      *)
LEMMA DaySums ==
  ASSUME Unique, Numbered, NEW d
  PROVE  /\ IsFiniteSet(On(d)) /\ On(d) \subseteq Attempt /\ SpentOn(d) = SumFunctionOnSet(Charged, On(d))
         /\ SpentOn(d) \in Int
         /\ SumFunctionOnSet([a \in attempts |-> a.spent], On(d)) = SumFunctionOnSet(Costed, On(d))
         /\ IsFiniteSet(EntryDay(d)) /\ EntriesOn(d) = Cardinality(EntryDay(d)) /\ EntriesOn(d) \in Nat
<1>1. IsFiniteSet(On(d)) /\ IsFiniteSet(EntryDay(d)) /\ On(d) \subseteq Attempt
  <2>1. On(d) \subseteq attempts /\ EntryDay(d) \subseteq attempts
    BY DEF On, EntryDay
  <2> QED
    BY <2>1, FS_Subset DEF Numbered, Unique
<1> DEFINE f == [a \in attempts |-> Charge(a)]
           g == [a \in attempts |-> a.spent]
<1>2. \A a \in On(d) : /\ f[a] = Charge(a) /\ Charged[a] = f[a] /\ f[a] \in Int
                       /\ Costed[a] = g[a] /\ g[a] \in Int
  BY <1>1, ChargeIs DEF On
<1> HIDE DEF f, g
<1>3. /\ SumFunctionOnSet(f, On(d)) = SumFunctionOnSet(Charged, On(d))
      /\ SumFunctionOnSet(g, On(d)) = SumFunctionOnSet(Costed, On(d))
      /\ SumFunctionOnSet(f, On(d)) \in Int
  BY <1>1, <1>2, SumAgrees, SumType
<1> QED
  BY <1>1, <1>3, FS_CardinalityType DEF f, g, SpentOn, EntriesOn, EntryDay

(* The sums of a day after a step, as sums over finite sets.               *)
LEMMA DaySumsAfter ==
  ASSUME Unique', Numbered', NEW d
  PROVE  /\ SpentOn(d)' = SumFunctionOnSet(Charged, On(d)')
         /\ EntriesOn(d)' = Cardinality(EntryDay(d)')
<1>1. IsFiniteSet(On(d)') /\ On(d)' \subseteq Attempt /\ On(d)' \subseteq attempts'
  <2>1. On(d)' \subseteq attempts'
    BY DEF On
  <2> QED
    BY <2>1, FS_Subset DEF Numbered, Unique
<1> DEFINE f == [a \in attempts' |-> Charge(a)]
<1>2. \A a \in On(d)' : f[a] = Charge(a) /\ Charged[a] = f[a] /\ f[a] \in Int
  BY <1>1, ChargeIs
<1> HIDE DEF f
<1>3. SumFunctionOnSet(f, On(d)') = SumFunctionOnSet(Charged, On(d)')
  BY <1>1, <1>2, SumAgrees
<1>4. SpentOn(d)' = SumFunctionOnSet(f, On(d)')
  BY DEF f, SpentOn, Charge
<1> QED
  BY <1>3, <1>4 DEF EntriesOn, EntryDay

(* What closing an attempt does to the days, and what opening one does.    *)
LEMMA ClosingSpends ==
  ASSUME NEW a, NEW b, Closing(a, b), NEW d, Charge(b) <= Charge(a)
  PROVE  SpentOn(d)' <= SpentOn(d) /\ EntriesOn(d)' = EntriesOn(d)
<1>1. Unique /\ Numbered /\ Unique' /\ Numbered' /\ b \notin attempts /\ a \in attempts
      /\ a \in Attempt /\ b \in Attempt /\ a.day = b.day /\ a.kind = b.kind
      /\ attempts' = (attempts \ {a}) \cup {b}
  BY ClosingKeeps DEF Closing, Unique
<1>2. /\ IsFiniteSet(On(d)) /\ On(d) \subseteq Attempt /\ SpentOn(d) = SumFunctionOnSet(Charged, On(d))
      /\ SpentOn(d) \in Int
      /\ IsFiniteSet(EntryDay(d)) /\ EntriesOn(d) = Cardinality(EntryDay(d)) /\ EntriesOn(d) \in Nat
      /\ SpentOn(d)' = SumFunctionOnSet(Charged, On(d)')
      /\ EntriesOn(d)' = Cardinality(EntryDay(d)')
  BY <1>1, DaySums, DaySumsAfter
<1>3. CASE a \in On(d)
  <2>1. On(d)' = (On(d) \ {a}) \cup {b} /\ b \notin On(d) \ {a}
    BY <1>1, <1>3 DEF On
  <2>2. IsFiniteSet(On(d) \ {a}) /\ \A x \in (On(d) \ {a}) \cup {b, a} : Charged[x] \in Int
    BY <1>1, <1>2, FS_RemoveElement, ChargeIs
  <2>3. SumFunctionOnSet(Charged, On(d)) = Charged[a] + SumFunctionOnSet(Charged, On(d) \ {a})
    BY <1>2, <1>3, <2>2, SumRemove
  <2>4. SumFunctionOnSet(Charged, (On(d) \ {a}) \cup {b}) =
          Charged[b] + SumFunctionOnSet(Charged, On(d) \ {a})
    BY <2>1, <2>2, SumAdd
  <2>5. SumFunctionOnSet(Charged, On(d) \ {a}) \in Int
    BY <2>2, SumType
  <2>6. Charged[b] <= Charged[a] /\ Charged[b] \in Int /\ Charged[a] \in Int
    BY <1>1, ChargeIs
  <2>7. SpentOn(d)' <= SpentOn(d)
    BY <1>2, <2>1, <2>3, <2>4, <2>5, <2>6
  <2>8. EntriesOn(d)' = EntriesOn(d)
    <3>1. CASE a.kind = "entry"
      <4>1. a \in EntryDay(d) /\ EntryDay(d)' = (EntryDay(d) \ {a}) \cup {b} /\ b \notin EntryDay(d) \ {a}
        BY <1>1, <1>3, <2>1, <3>1 DEF EntryDay
      <4>2. /\ IsFiniteSet(EntryDay(d) \ {a})
            /\ Cardinality(EntryDay(d) \ {a}) = Cardinality(EntryDay(d)) - 1
        BY <1>2, <4>1, FS_RemoveElement
      <4>3. Cardinality((EntryDay(d) \ {a}) \cup {b}) = Cardinality(EntryDay(d)) - 1 + 1
        BY <4>1, <4>2, FS_AddElement
      <4> QED
        BY <1>2, <4>1, <4>3
    <3>2. CASE a.kind # "entry"
      <4>1. EntryDay(d)' = EntryDay(d)
        BY <1>1, <2>1, <3>2 DEF EntryDay
      <4> QED
        BY <1>2, <4>1
    <3> QED
      BY <3>1, <3>2
  <2> QED
    BY <2>7, <2>8
<1>4. CASE a \notin On(d)
  <2>1. On(d)' = On(d)
    BY <1>1, <1>4 DEF On
  <2>2. EntryDay(d)' = EntryDay(d)
    BY <2>1 DEF EntryDay
  <2> QED
    BY <1>2, <2>1, <2>2
<1> QED
  BY <1>3, <1>4

(* What an opened attempt adds to the sums of its day.                     *)
LEMMA OpeningSpends ==
  ASSUME NEW b, Opening(b), NEW d
  PROVE  /\ SpentOn(d) \in Int /\ EntriesOn(d) \in Nat
         /\ SpentOn(d)' = IF b.day = d THEN SpentOn(d) + Charge(b) ELSE SpentOn(d)
         /\ EntriesOn(d)' = IF b.day = d /\ b.kind = "entry" THEN EntriesOn(d) + 1 ELSE EntriesOn(d)
<1>1. Unique /\ Numbered /\ Unique' /\ Numbered' /\ b \notin attempts
      /\ b \in Attempt /\ attempts' = attempts \cup {b}
  BY OpeningKeeps DEF Opening
<1>2. /\ IsFiniteSet(On(d)) /\ On(d) \subseteq Attempt /\ SpentOn(d) = SumFunctionOnSet(Charged, On(d))
      /\ SpentOn(d) \in Int
      /\ IsFiniteSet(EntryDay(d)) /\ EntriesOn(d) = Cardinality(EntryDay(d)) /\ EntriesOn(d) \in Nat
      /\ SpentOn(d)' = SumFunctionOnSet(Charged, On(d)')
      /\ EntriesOn(d)' = Cardinality(EntryDay(d)')
  BY <1>1, DaySums, DaySumsAfter
<1>3. On(d)' = IF b.day = d THEN On(d) \cup {b} ELSE On(d)
  BY <1>1 DEF On
<1>4. b \notin On(d) /\ b \notin EntryDay(d)
  BY <1>1 DEF On, EntryDay
<1>5. EntryDay(d)' = IF b.day = d /\ b.kind = "entry" THEN EntryDay(d) \cup {b} ELSE EntryDay(d)
  BY <1>3 DEF EntryDay
<1>6. SpentOn(d)' = IF b.day = d THEN SpentOn(d) + Charge(b) ELSE SpentOn(d)
  <2>1. \A x \in On(d) \cup {b} : Charged[x] \in Int
    BY <1>1, <1>2, ChargeIs
  <2>2. SumFunctionOnSet(Charged, On(d) \cup {b}) = Charged[b] + SumFunctionOnSet(Charged, On(d))
    BY <1>2, <1>4, <2>1, SumAdd
  <2>3. Charged[b] = Charge(b) /\ Charge(b) \in Int
    BY <1>1, ChargeIs
  <2>4. CASE b.day = d
    BY <1>2, <1>3, <2>2, <2>3, <2>4
  <2>5. CASE b.day # d
    BY <1>2, <1>3, <2>5
  <2> QED
    BY <2>4, <2>5
<1>7. EntriesOn(d)' = IF b.day = d /\ b.kind = "entry" THEN EntriesOn(d) + 1 ELSE EntriesOn(d)
  <2>1. Cardinality(EntryDay(d) \cup {b}) = Cardinality(EntryDay(d)) + 1
    BY <1>2, <1>4, FS_AddElement
  <2>2. CASE b.day = d /\ b.kind = "entry"
    BY <1>2, <1>5, <2>1, <2>2
  <2>3. CASE ~(b.day = d /\ b.kind = "entry")
    BY <1>2, <1>5, <2>3
  <2> QED
    BY <2>2, <2>3
<1> QED
  BY <1>2, <1>6, <1>7

(* Steps that leave attempts and day alone: a market is only cleared where *)
(* there is room.                                                          *)
LEMMA AttemptsStayBudget ==
  ASSUME IInv, Budget, attempts' = attempts, day' = day,
         \A q \in Runs : run'[q].pc = "cleared" =>
           \/ run[q].pc = "cleared" /\ run'[q].cohort = run[q].cohort /\ run'[q].kind = run[q].kind
           \/ /\ SpentOn(day) + CapOf[run'[q].cohort] <= DailyUsd
              /\ run'[q].kind = "entry" => EntriesOn(day) < MaxEntries
  PROVE  Budget'
<1>1. \A d : SpentOn(d)' = SpentOn(d) /\ EntriesOn(d)' = EntriesOn(d)
  BY DEF SpentOn, EntriesOn, On, Charge
<1>2. SpentOn(day)' = SpentOn(day) /\ EntriesOn(day)' = EntriesOn(day)
  BY DEF SpentOn, EntriesOn, On, Charge
<1>3. Covered'
  BY DEF Budget, Covered, Charge
<1>4. WithinLimits'
  BY <1>1 DEF Budget, WithinLimits
<1>5. \A r \in Runs : HasRoom(r)'
  BY <1>2 DEF Budget, HasRoom
<1> QED
  BY <1>3, <1>4, <1>5 DEF Budget

(* Closing an attempt keeps the budget: it never costs more than was       *)
(* charged for it while open.                                              *)
LEMMA CloseBudget ==
  ASSUME IInv, Budget, NEW a \in attempts, a.status = "STARTED",
         NEW status \in {"SUCCEEDED", "FAILED"}, NEW cost \in ReportedCosts(a), NEW error \in Errors,
         attempts' = Close(a, status, cost, error), day' = day,
         \A q \in Runs : run'[q].pc # "cleared"
  PROVE  Budget'
<1> DEFINE b == [a EXCEPT !.status = status, !.cost = cost, !.error = error]
<1>1. Unique /\ Numbered /\ a \in Attempt /\ a.id = Made
  BY Typed DEF IInv, OpenIsLast, Unique
<1>2. cost \in 0..DailyUsd
  BY <1>1, Costs
<1>3. b \in [id : {a.id}, run : {a.run}, cohort : {a.cohort}, market : {a.market},
             kind : {a.kind}, day : {a.day}, status : {"SUCCEEDED", "FAILED"},
             cost : 0..DailyUsd, error : Errors, spent : {a.spent}]
      /\ b.cost = cost
  BY <1>1, <1>2, CloseIs, ZenonT(60)
<1>4. attempts' = (attempts \ {a}) \cup {b}
  BY DEF Close
<1> HIDE DEF b
<1>5. Closing(a, b)
  BY <1>1, <1>3, <1>4 DEF Closing
<1>6. /\ Charge(a) = CapOf[a.cohort] /\ Charge(b) = cost /\ CapOf[a.cohort] \in Int
      /\ a.spent \in Int /\ cost \in {a.spent, CapOf[a.cohort]}
  <2>1. Charge(a) = CapOf[a.cohort]
    BY DEF Charge
  <2>2. Charge(b) = cost
    BY <1>3 DEF Charge
  <2>3. CapOf[a.cohort] \in Int /\ a.spent \in Int
    BY <1>1, ChargeIs
  <2>4. cost \in {a.spent, CapOf[a.cohort]}
    BY DEF ReportedCosts
  <2> QED
    BY <2>1, <2>2, <2>3, <2>4
<1>7. a.spent <= CapOf[a.cohort] /\ a.day <= day
  BY DEF Budget, Covered
<1>8. Charge(b) <= Charge(a) /\ b.spent <= Charge(b) /\ b.spent <= CapOf[b.cohort]
      /\ Charge(b) <= CapOf[b.cohort] /\ b.day <= day
  BY <1>3, <1>6, <1>7
<1>9. Covered'
  <2>1. \A x \in attempts' :
           /\ x.day <= day /\ x.spent <= Charge(x) /\ x.spent <= CapOf[x.cohort]
           /\ Charge(x) <= CapOf[x.cohort]
    BY <1>4, <1>8 DEF Budget, Covered
  <2> QED
    BY <2>1 DEF Covered, Charge
<1>10. \A d : SpentOn(d) \in Int /\ SpentOn(d)' <= SpentOn(d) /\ EntriesOn(d)' = EntriesOn(d)
  BY <1>1, <1>5, <1>8, ClosingSpends, DaySums
<1>11. \A d : SpentOn(d)' \in Int
  <2>1. Unique' /\ Numbered'
    BY <1>5, ClosingKeeps
  <2> SUFFICES ASSUME NEW d PROVE SpentOn(d)' \in Int
    OBVIOUS
  <2>2. IsFiniteSet(On(d)') /\ On(d)' \subseteq Attempt
    <3>1. On(d)' \subseteq attempts'
      BY DEF On
    <3> QED
      BY <2>1, <3>1, FS_Subset DEF Numbered, Unique
  <2>3. \A x \in On(d)' : Charged[x] \in Int
    BY <2>2, ChargeIs
  <2> QED
    BY <2>1, <2>2, <2>3, DaySumsAfter, SumType
<1>12. WithinLimits'
  <2> SUFFICES ASSUME NEW d \in 0..MaxDay
               PROVE  SpentOn(d)' <= DailyUsd /\ EntriesOn(d)' <= MaxEntries
    BY DEF WithinLimits
  <2> QED
    BY <1>10, <1>11, ResearchAssumption DEF Budget, WithinLimits
<1>13. \A r \in Runs : HasRoom(r)'
  BY DEF HasRoom
<1> QED
  BY <1>9, <1>12, <1>13 DEF Budget

(* A run that clears nothing now, where no other does anything.            *)
LEMMA NoneCleared ==
  ASSUME IInv, NEW r \in Runs, run[r].pc # "idle", NEW s, s.pc # "cleared",
         run' = [run EXCEPT ![r] = s]
  PROVE  \A q \in Runs : run'[q].pc # "cleared"
<1>1. \A q \in Runs : q # r => run[q].pc = "idle"
  BY Alone
<1>2. run \in [Runs -> RunState]
  BY Typed DEF IInv
<1> QED
  BY <1>1, <1>2

(* A step that ends a session closes its attempt, and keeps the budget.    *)
LEMMA SessionBudget ==
  ASSUME IInv, Budget, NEW r \in Runs, FailSession(r) \/ FailRecord(r) \/ RecordForecast(r)
  PROVE  Budget'
<1> DEFINE a == WithId(run[r].attempt)
<1>1. InSession(r) /\ day' = day /\ run[r].pc # "idle"
  BY DEF FailSession, FailRecord, RecordForecast, InSession
<1>2. a \in attempts /\ a.status = "STARTED" /\ InWork(r, a) /\ run[r] \in RunState
      /\ run \in [Runs -> RunState]
  BY <1>1, AttemptInWork, Alone, Typed DEF InWork, IInv
<1>3. CASE FailSession(r)
  <2>1. PICK error \in SessionFailures, cost \in ReportedCosts(a) :
          /\ attempts' = Close(a, "FAILED", cost, error)
          /\ run' = [run EXCEPT ![r] = AfterFailure(r, error)]
    BY <1>3 DEF FailSession
  <2> HIDE DEF a
  <2>2. error \in {"SYSTEMIC", "REPEATED", "OTHER"} /\ error \in Errors
    BY ResearchAssumption DEF Errors
  <2>3. \A q \in Runs : run'[q].pc # "cleared"
    BY <1>1, <2>1, <2>2, AfterFailureIs, NoneCleared
  <2> QED
    BY <1>1, <1>2, <2>1, <2>2, <2>3, CloseBudget
<1>4. CASE FailRecord(r)
  <2>1. PICK cost \in ReportedCosts(a) : attempts' = Close(a, "FAILED", cost, "OTHER")
    BY <1>2, <1>4 DEF FailRecord
  <2>2. run' = [run EXCEPT ![r] = AfterFailure(r, "OTHER")]
    BY <1>4 DEF FailRecord
  <2> HIDE DEF a
  <2>3. "OTHER" \in {"SYSTEMIC", "REPEATED", "OTHER"} /\ "OTHER" \in Errors
    BY DEF Errors
  <2>4. \A q \in Runs : run'[q].pc # "cleared"
    BY <1>1, <2>2, <2>3, AfterFailureIs, NoneCleared
  <2> QED
    BY <1>1, <1>2, <2>1, <2>3, <2>4, CloseBudget
<1>5. CASE RecordForecast(r)
  <2>1. PICK cost \in ReportedCosts(a) : attempts' = Close(a, "SUCCEEDED", cost, "none")
    BY <1>5 DEF RecordForecast
  <2> DEFINE s == [run[r] EXCEPT !.pc = "baseline", !.repeats = 0, !.failures = 0]
  <2>2. run' = [run EXCEPT ![r] = s] /\ s.pc = "baseline"
    BY <1>2, <1>5 DEF RecordForecast, RunState
  <2> HIDE DEF a, s
  <2>3. "none" \in Errors
    BY DEF Errors
  <2>4. \A q \in Runs : run'[q].pc # "cleared"
    BY <1>1, <2>2, NoneCleared
  <2> QED
    BY <1>1, <1>2, <2>1, <2>3, <2>4, CloseBudget
<1> QED
  BY <1>3, <1>4, <1>5

(* Recovery closes an attempt at its cap, and keeps the budget.            *)
LEMMA RecoverBudget ==
  ASSUME IInv, Budget, NEW r \in Runs, Recover(r)
  PROVE  Budget'
<1>1. PICK a \in Unfinished(run[r].cohort) :
         attempts' = Close(a, "FAILED", CapOf[a.cohort], "INTERRUPTED")
  BY DEF Recover
<1>2. run[r].pc = "recover" /\ day' = day /\ run' = run
  BY DEF Recover
<1>3. a \in attempts /\ a.status = "STARTED" /\ CapOf[a.cohort] \in ReportedCosts(a)
      /\ "INTERRUPTED" \in Errors
  BY DEF Unfinished, ReportedCosts, Errors
<1>4. \A q \in Runs : run'[q].pc # "cleared"
  BY <1>2, Alone
<1> QED
  BY <1>1, <1>2, <1>3, <1>4, CloseBudget

(* An attempt is opened where there is room for it, by the clock's day.    *)
LEMMA StartAttemptBudget ==
  ASSUME IInv, Budget, NEW r \in Runs, StartAttempt(r)
  PROVE  Budget'
<1> DEFINE id == Cardinality(attempts) + 1
<1>1. /\ run[r].pc = "cleared" /\ id <= MaxAttempts /\ day' = day /\ IInv'
  BY StartAttemptKeeps DEF StartAttempt
<1>2. /\ TypeOK /\ Unique /\ Numbered /\ run[r] \in RunState /\ run[r].cohort \in Cohorts
      /\ run \in [Runs -> RunState] /\ day \in 0..MaxDay
  BY <1>1, Alone, Typed DEF IInv
<1>3. PICK m \in run[r].market, spent \in CostsOf[run[r].cohort] :
        attempts' = attempts \cup
          {[id |-> id, run |-> RunId(r, id), cohort |-> run[r].cohort, market |-> m,
            kind |-> run[r].kind, day |-> day, status |-> "STARTED", cost |-> 0, error |-> "none",
            spent |-> spent]}
  BY DEF StartAttempt
<1>4. PICK b \in attempts' :
        /\ b.id = Made + 1 /\ b.cohort = run[r].cohort /\ b.kind = run[r].kind /\ b.day = day
        /\ b.status = "STARTED" /\ b.spent = spent /\ attempts' = attempts \cup {b}
  BY <1>3 DEF Made
<1>5. b \in Attempt /\ b.run <= b.id
  <2>1. Unique' /\ Numbered'
    BY <1>1, TypedAfter DEF IInv
  <2> QED
    BY <1>4, <2>1 DEF Unique, Numbered
<1>6. Opening(b)
  BY <1>2, <1>4, <1>5 DEF Opening
<1>7. /\ Charge(b) = CapOf[run[r].cohort] /\ CapOf[run[r].cohort] \in Int
      /\ spent <= CapOf[run[r].cohort] /\ spent \in Int
  BY <1>2, <1>4, ResearchAssumption DEF Charge
<1>8. SpentOn(day) + CapOf[run[r].cohort] <= DailyUsd
      /\ (run[r].kind = "entry" => EntriesOn(day) < MaxEntries)
  BY <1>1 DEF Budget, HasRoom
<1>9. Covered'
  <2>1. \A x \in attempts' :
           /\ x.day <= day /\ x.spent <= Charge(x) /\ x.spent <= CapOf[x.cohort]
           /\ Charge(x) <= CapOf[x.cohort]
    BY <1>2, <1>4, <1>7 DEF Budget, Covered
  <2> QED
    BY <1>1, <2>1 DEF Covered, Charge
<1>10. WithinLimits'
  <2> SUFFICES ASSUME NEW d \in 0..MaxDay
               PROVE  SpentOn(d)' <= DailyUsd /\ EntriesOn(d)' <= MaxEntries
    BY DEF WithinLimits
  <2>1. SpentOn(d) <= DailyUsd /\ EntriesOn(d) <= MaxEntries
    BY DEF Budget, WithinLimits
  <2>2. /\ SpentOn(d) \in Int /\ EntriesOn(d) \in Nat
        /\ SpentOn(d)' = IF b.day = d THEN SpentOn(d) + Charge(b) ELSE SpentOn(d)
        /\ EntriesOn(d)' = IF b.day = d /\ b.kind = "entry" THEN EntriesOn(d) + 1 ELSE EntriesOn(d)
    BY <1>6, OpeningSpends
  <2>3. CASE d = day
    BY <1>4, <1>7, <1>8, <2>1, <2>2, <2>3, ResearchAssumption
  <2>4. CASE d # day
    BY <1>4, <2>1, <2>2, <2>4
  <2> QED
    BY <2>3, <2>4
<1>11. \A q \in Runs : run'[q].pc # "cleared"
  <2>1. PICK s \in {[run[r] EXCEPT !.pc = "session", !.attempt = id, !.first = RunId(r, id)]} :
          run' = [run EXCEPT ![r] = s]
    BY <1>2 DEF StartAttempt
  <2>2. s.pc = "session"
    BY <1>2 DEF RunState
  <2> QED
    BY <1>1, <2>1, <2>2, NoneCleared
<1>12. \A q \in Runs : HasRoom(q)'
  BY <1>11 DEF HasRoom
<1> QED
  BY <1>9, <1>10, <1>12 DEF Budget

(* A new day is charged nothing yet.                                       *)
LEMMA MidnightBudget ==
  ASSUME IInv, Budget, Midnight
  PROVE  Budget'
<1>1. /\ day' = day + 1 /\ UNCHANGED <<attempts, run>> /\ Unique /\ Numbered /\ day \in Nat
      /\ run \in [Runs -> RunState] /\ Locked
  BY Typed, ResearchAssumption DEF Midnight, IInv
<1>2. On(day + 1) = {}
  BY <1>1 DEF On, Budget, Covered, Unique, Attempt
<1>3. SpentOn(day + 1) = 0 /\ EntriesOn(day + 1) = 0
  <2>1. SpentOn(day + 1) = 0
    BY <1>2, SumEmpty DEF SpentOn
  <2>2. {a \in On(day + 1) : a.kind = "entry"} = {}
    BY <1>2
  <2> QED
    BY <2>1, <2>2, FS_EmptySet DEF EntriesOn
<1>4. \A d : SpentOn(d)' = SpentOn(d) /\ EntriesOn(d)' = EntriesOn(d)
  BY <1>1 DEF SpentOn, EntriesOn, On, Charge
<1>5. SpentOn(day)' = 0 /\ EntriesOn(day)' = 0
  <2>1. SpentOn(day)' = SpentOn(day + 1) /\ EntriesOn(day)' = EntriesOn(day + 1)
    BY <1>1 DEF SpentOn, EntriesOn, On, Charge
  <2> QED
    BY <1>3, <2>1
<1>6. Covered'
  <2>1. \A a \in attempts : a.day \in Nat
    BY <1>1, ResearchAssumption DEF Unique, Attempt
  <2>2. \A a \in attempts' :
           /\ a.day <= day + 1 /\ a.spent <= Charge(a) /\ a.spent <= CapOf[a.cohort]
           /\ Charge(a) <= CapOf[a.cohort]
    BY <1>1, <2>1 DEF Budget, Covered
  <2> QED
    BY <1>1, <2>2 DEF Covered, Charge
<1>7. WithinLimits'
  BY <1>4 DEF Budget, WithinLimits
<1>8. ASSUME NEW r \in Runs PROVE HasRoom(r)'
  <2>1. run'[r].pc = "cleared" => run'[r].cohort \in Cohorts
    BY <1>1 DEF Locked
  <2>2. \A c \in Cohorts : 0 + CapOf[c] <= DailyUsd
    BY ResearchAssumption
  <2>3. 0 < MaxEntries
    BY ResearchAssumption
  <2> QED
    BY <1>5, <2>1, <2>2, <2>3 DEF HasRoom
<1> QED
  BY <1>6, <1>7, <1>8 DEF Budget

(* A market is cleared only when the day has room for its cap.             *)
LEMMA ClearBudget ==
  ASSUME IInv, Budget, NEW r \in Runs, NEW m \in Markets, Clear(r, m)
  PROVE  Budget'
<1> DEFINE u == Without(r, m)
           s == [u EXCEPT !.pc = "cleared", !.market = {m}, !.kind = KindOf(r)]
<1>1. /\ run[r].pc = "queue" /\ m \in Queue(r) /\ run' = [run EXCEPT ![r] = s]
      /\ attempts' = attempts /\ day' = day
      /\ ~OverBudget(r) /\ (KindOf(r) = "entry" => ~OverVolume(r))
  BY DEF Clear
<1>2. /\ run[r] \in RunState /\ run[r].cohort \in Cohorts /\ run \in [Runs -> RunState]
      /\ Unique /\ Numbered /\ \A q \in Runs : q # r => run[q].pc = "idle"
  BY <1>1, Alone, Typed DEF IInv
<1>3. u \in RunState /\ u.cohort = run[r].cohort
  BY <1>1, <1>2, WithoutIs
<1>4. s.cohort = run[r].cohort /\ s.kind = KindOf(r)
  <2> HIDE DEF u
  <2> QED
    BY <1>3 DEF RunState
<1> HIDE DEF s
<1>5. SpentOn(day) \in Int /\ EntriesOn(day) \in Nat /\ CapOf[run[r].cohort] \in Int
  <2> HIDE DEF u
  <2>1. run[r].cohort \in Cohorts /\ IInv
    BY <1>2
  <2>2. CapOf[run[r].cohort] \in Nat
    BY <2>1, ResearchAssumption
  <2>3. SpentOn(day) \in Int /\ EntriesOn(day) \in Nat
    BY <1>2, DaySums
  <2> QED
    BY <2>2, <2>3
<1>6. SpentOn(day) + CapOf[s.cohort] <= DailyUsd /\ (s.kind = "entry" => EntriesOn(day) < MaxEntries)
  BY <1>1, <1>4, <1>5, ResearchAssumption DEF OverBudget, OverVolume
<1>7. run'[r] = s /\ \A q \in Runs : q # r => run'[q].pc # "cleared"
  BY <1>1, <1>2
<1> QED
  BY <1>1, <1>6, <1>7, AttemptsStayBudget

(* The other steps clear nothing and charge nothing.                       *)
LEMMA RestBudget ==
  ASSUME IInv, Budget, NEW r \in Runs,
         \/ List(r) \/ PassSession(r) \/ TakeBaseline(r) \/ Finish(r) \/ Crash(r)
         \/ (\E m \in Markets : Skip(r, m)) \/ (\E c \in Cohorts : Begin(r, c))
  PROVE  Budget'
<1>1. attempts' = attempts /\ day' = day /\ run \in [Runs -> RunState]
  BY Typed DEF IInv, List, PassSession, TakeBaseline, Finish, Crash, Skip, Begin
<1>2. \A q \in Runs : run'[q].pc = "cleared" => run'[q] = run[q]
  <2>1. run[r] \in RunState
    BY <1>1
  <2>2. CASE List(r)
    <3>1. PICK x \in SUBSET Markets, y \in SUBSET Markets :
            run' = [run EXCEPT ![r] = [run[r] EXCEPT !.pc = "queue", !.updates = x, !.entries = y]]
      <4>1. CASE run' = [run EXCEPT ![r].pc = "queue"]
        <5>1. [run[r] EXCEPT !.pc = "queue"]
                = [run[r] EXCEPT !.pc = "queue", !.updates = run[r].updates, !.entries = run[r].entries]
          BY <2>1 DEF RunState
        <5>2. run[r].updates \in SUBSET Markets /\ run[r].entries \in SUBSET Markets
          BY <2>1 DEF RunState
        <5>3. run' = [run EXCEPT ![r] = [run[r] EXCEPT !.pc = "queue"]]
          BY <4>1
        <5> QED
          BY <5>1, <5>2, <5>3
      <4>2. CASE \E updates \in SUBSET DueUpdates(run[r].cohort) :
              run' = [run EXCEPT ![r].pc = "queue", ![r].updates = updates,
                                 ![r].entries = Candidates(run[r].cohort)]
        <5>1. DueUpdates(run[r].cohort) \subseteq Markets /\ Candidates(run[r].cohort) \subseteq Markets
          BY DEF DueUpdates, Candidates
        <5>2. PICK v \in SUBSET Markets : run' = [run EXCEPT ![r].pc = "queue", ![r].updates = v,
                                                      ![r].entries = Candidates(run[r].cohort)]
          BY <4>2, <5>1
        <5>3. run' = [run EXCEPT ![r] = [run[r] EXCEPT !.pc = "queue", !.updates = v,
                                                       !.entries = Candidates(run[r].cohort)]]
          BY <1>1, <5>2
        <5> QED
          BY <5>1, <5>3
      <4> QED
        BY <2>2, <4>1, <4>2 DEF List
    <3>2. [run[r] EXCEPT !.pc = "queue", !.updates = x, !.entries = y].pc = "queue"
      BY <2>1 DEF RunState
    <3> QED
      BY <1>1, <3>1, <3>2
  <2>3. CASE PassSession(r)
    BY <1>1, <2>1, <2>3 DEF PassSession, RunState
  <2>4. CASE TakeBaseline(r)
    BY <1>1, <2>1, <2>4 DEF TakeBaseline, Stopped, RunState
  <2>5. CASE Finish(r) \/ Crash(r)
    BY <1>1, <2>5 DEF Finish, Crash, Idle
  <2>6. CASE \E m \in Markets : Skip(r, m)
    <3>1. PICK m \in Markets : Skip(r, m)
      BY <2>6
    <3>2. PICK s \in {Without(r, m), [Without(r, m) EXCEPT !.stop = TRUE]} : run' = [run EXCEPT ![r] = s]
      BY <3>1 DEF Skip
    <3>3. Without(r, m) \in RunState /\ Without(r, m).pc = "queue"
      BY <2>1, <3>1, WithoutIs DEF Skip
    <3>4. s.pc = "queue"
      BY <3>2, <3>3 DEF RunState
    <3> QED
      BY <1>1, <3>2, <3>4
  <2>7. CASE \E c \in Cohorts : Begin(r, c)
    BY <1>1, <2>7 DEF Begin, Idle
  <2> QED
    BY <2>2, <2>3, <2>4, <2>5, <2>6, <2>7
<1> QED
  BY <1>1, <1>2, AttemptsStayBudget

(* What the sessions started on a day really cost never exceeds the daily  *)
(* budget, and no day sees more entries than the configured volume, for    *)
(* any budget, caps and costs within the caps, across crashes, changes of  *)
(* configuration and midnight.                                             *)
THEOREM LimitsHold == Spec => []DailyLimits
<1>1. Init => Budget
  <2> SUFFICES ASSUME Init PROVE Budget
    OBVIOUS
  <2>1. attempts = {} /\ \A d : On(d) = {}
    BY DEF Init, On
  <2>2. \A d : SpentOn(d) = 0
    BY <2>1, SumEmpty DEF SpentOn
  <2>3. \A d : EntriesOn(d) = 0
    <3>1. \A d : {a \in On(d) : a.kind = "entry"} = {}
      BY <2>1
    <3> QED
      BY <3>1, FS_EmptySet DEF EntriesOn
  <2>4. \A r \in Runs : run[r].pc = "idle"
    BY DEF Init, Idle
  <2> QED
    BY <2>1, <2>2, <2>3, <2>4, ResearchAssumption DEF Budget, Covered, WithinLimits, HasRoom
<1>2. ASSUME IInv, Budget, [Next]_vars
      PROVE  Budget'
  <2>1. ASSUME NEW r \in Runs, RunStep(r) \/ Crash(r) \/ \E c \in Cohorts : Begin(r, c)
        PROVE  Budget'
    BY <1>2, <2>1, SessionBudget, RecoverBudget, StartAttemptBudget, ClearBudget, RestBudget DEF RunStep
  <2>2. CASE (\E m \in Markets : Observe(m)) \/ UNCHANGED vars
    BY <1>2, <2>2, AttemptsStayBudget DEF Observe, vars
  <2> QED
    BY <1>2, <2>1, <2>2, MidnightBudget DEF Next
<1>3. IInv /\ Budget => DailyLimits
  <2> SUFFICES ASSUME IInv, Budget, NEW d \in 0..MaxDay
               PROVE  /\ SumFunctionOnSet([a \in attempts |-> a.spent], On(d)) <= DailyUsd
                      /\ EntriesOn(d) <= MaxEntries
    BY DEF IInv, DailyLimits
  <2>1. Unique /\ Numbered
    BY Typed DEF IInv
  <2>2. /\ IsFiniteSet(On(d)) /\ On(d) \subseteq Attempt /\ SpentOn(d) \in Int
        /\ SpentOn(d) = SumFunctionOnSet(Charged, On(d))
        /\ SumFunctionOnSet([a \in attempts |-> a.spent], On(d)) = SumFunctionOnSet(Costed, On(d))
    BY <2>1, DaySums
  <2>3. \A a \in On(d) : Costed[a] \in Int /\ Charged[a] \in Int /\ Costed[a] <= Charged[a]
    BY <2>2, ChargeIs DEF On, Budget, Covered
  <2>4. SumFunctionOnSet(Costed, On(d)) <= SumFunctionOnSet(Charged, On(d))
    BY <2>2, <2>3, SumMonotone
  <2>5. SumFunctionOnSet(Costed, On(d)) \in Int
    BY <2>2, <2>3, SumType
  <2> QED
    BY <2>2, <2>4, <2>5, ResearchAssumption DEF Budget, WithinLimits
<1> QED
  BY <1>1, <1>2, <1>3, ResearchInvariant, PTL DEF Spec
=============================================================================
