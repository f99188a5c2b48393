-------------------------- MODULE CollectionProofs --------------------------
(***************************************************************************)
(* Theorems about Collection, and about ResearchSession, the session that  *)
(* a research run opens; they share no state, so each is proved under its  *)
(* own specification.                                                      *)
(*                                                                         *)
(* Collection, for any markets, listings, processes, commands and bounds.  *)
(* Of the properties only the journals are nearly inductive.  Whether a    *)
(* run that ends is whole depends on what its process still has to ask     *)
(* for (Gathered), on the run being no other process's (Apart), and on the *)
(* run it draws on having ended before (Sourced).  That a book gets a fee  *)
(* depends on what was known at its fetch (Clocked), and that a daily      *)
(* cycle has today's data on what it remembers of its data run (Daily).    *)
(* What makes all of it stable is Touches: a step adds rows to one run     *)
(* only, and that run has not ended.                                       *)
(*                                                                         *)
(* ResearchSession, for any number of tool calls, in whatever order the    *)
(* SDK calls the hooks and delivers its messages.  Neither property is     *)
(* inductive: ToolsRunVerified depends on what "verified" stands for       *)
(* (Toolset), SoundOutcome on what is on record of every call that ran     *)
(* (OnRecord) and on how the reading of messages ended (Course).           *)
(***************************************************************************)
EXTENDS Collection, ResearchSession, SumLemmas, SequenceTheorems

-----------------------------------------------------------------------------
(* Collection.                                                             *)

RunCmds  == {"discover", "snapshot", "run-data", "research"}
BookCmds == {"snapshot", "run-data"}
Codes    == {"failed", "unusable"}

RunRow       == [cmd : RunCmds, started : Nat, source : Nat,
                 status : {"STARTED", "COMPLETED", "FAILED"}]
DiscoveryRow == [run : Nat, market : Markets, fee : Listings, observed : Nat]
RulesEntry   == (Listings \cup {NoListing}) \X Listings
ProcState    == [pc : {"idle", "dead"} \cup DataPcs \cup DailyPcs,
                 cmd : RunCmds \cup {"none", "resolve"}, daily : BOOLEAN,
                 run : Nat, data : Nat, at : Nat, known : Nat,
                 seen : [Markets -> Listings \cup {NoListing}],
                 todo : SUBSET (Markets \cup Both(Markets)), passing : SUBSET Markets]

WorldTyped ==
  /\ changes \in 0..MaxChanges /\ failures \in 0..MaxFailures
  /\ venue \in [Markets -> Listings]

RulesTyped ==
  /\ current \in [Markets -> Listings \cup {NoListing}]
  /\ versions \in [Markets -> SUBSET Listings]
  /\ journal \in [Markets -> Seq(RulesEntry)]

DbTyped ==
  /\ runs \in Seq(RunRow) /\ discoveries \in Seq(DiscoveryRow)
  /\ books \subseteq [run : Nat, book : Both(Markets), basis : Nat]
  /\ refusals \subseteq Nat \X Both(Markets) \X Codes

Chained(m) ==
  /\ \A i \in DOMAIN journal[m] :
       /\ journal[m][i][1] = IF i = 1 THEN NoListing ELSE journal[m][i - 1][2]
       /\ journal[m][i][2] \in versions[m]
  /\ current[m] = IF journal[m] = << >> THEN NoListing ELSE journal[m][Len(journal[m])][2]

(* Rows name what there is, and a run draws on a complete discovery.       *)
Dated ==
  /\ \A r \in DOMAIN runs : runs[r].started = r /\ runs[r].source \in 0..Len(runs)
  /\ \A i \in DOMAIN discoveries :
       discoveries[i].run \in DOMAIN runs /\ discoveries[i].observed <= Len(runs)
  /\ \A s \in books : s.run \in DOMAIN runs /\ s.basis \in 0..Len(discoveries)
  /\ \A f \in refusals : f[1] \in DOMAIN runs

Sourced(r) == runs[r].source # 0 => runs[runs[r].source].status = "COMPLETED"

(* Process state s: what it may be doing where.                            *)
CmdsAt(pc) ==
  IF pc \in {"idle", "dead", "research", "report"} THEN {"none"}
  ELSE IF pc \in {"list", "track", "states", "store"} THEN {"discover", "run-data"}
  ELSE IF pc = "choose" THEN {"snapshot", "research"}
  ELSE IF pc \in {"book", "insert"} THEN BookCmds
  ELSE IF pc \in {"poll", "apply"} THEN {"run-data", "resolve"}
  ELSE RunCmds

Doing(s) ==
  /\ s.cmd \in CmdsAt(s.pc)
  /\ s.pc \in {"track", "states", "store", "apply"} => s.seen \in [Markets -> Listings]
  /\ s.pc \in {"track", "store"} => s.todo \subseteq Markets /\ s.todo # {}
  /\ s.pc = "apply" => s.todo \subseteq Markets
  /\ s.pc \in {"book", "insert"} => s.todo \subseteq Both(Markets) /\ s.todo # {}
  /\ s.pc \in {"research", "report"} => s.daily

(* A run under way is that of its process, and of no other.                *)
Owns(s) ==
  /\ s.cmd \in RunCmds =>
       /\ s.run \in DOMAIN runs
       /\ runs[s.run].cmd = s.cmd /\ runs[s.run].status = "STARTED"
  /\ s.cmd \notin RunCmds => s.run = 0

Apart == \A p, q \in Procs : p # q /\ proc[p].run = proc[q].run => proc[p].run = 0

(* What a run has so far: of the markets of its discovery, and of the      *)
(* answers for the books of those.                                         *)
SourceOf(r) == IF runs[r].cmd = "snapshot" THEN runs[r].source ELSE r
Answers(r)  == BooksOf(r) \cup RefusedOf(r, Codes)

Gathered(s) ==
  /\ s.cmd \in BookCmds => BooksOf(s.run) \cap RefusedOf(s.run, Codes) = {}
  /\ s.cmd \in BookCmds /\ s.pc \in {"list", "track", "states", "store", "choose"} => Answers(s.run) = {}
  /\ s.pc \in {"list", "track", "states"} => Found(s.run) = {}
  /\ s.pc = "store" => Found(s.run) = s.passing \ s.todo /\ s.todo \subseteq s.passing
  /\ s.pc \in {"book", "insert"} =>
       /\ Answers(s.run) \cup s.todo = Both(Found(SourceOf(s.run)))
       /\ Answers(s.run) \cap s.todo = {}
  /\ s.cmd \in BookCmds /\ s.pc \in {"poll", "apply", "finish"} =>
       Answers(s.run) = Both(Found(SourceOf(s.run)))

(* A book is about to be stored with the clock and the rows of its fetch.  *)
Clocked(s) ==
  /\ s.at <= Len(runs) /\ s.known <= Len(discoveries)
  /\ s.pc = "insert" =>
       /\ \A i \in 1..s.known : discoveries[i].observed <= s.at
       /\ \A b \in s.todo : \E i \in RowsOf(b[1]) : i <= s.known

(* What a daily cycle remembers of its data run.                           *)
Daily(s) ==
  s.daily =>
    /\ s.cmd \in RunCmds => s.cmd \in {"run-data", "research"}
    /\ s.cmd = "run-data" => s.data = s.run
    /\ s.cmd = "research" => s.data # 0
    /\ s.cmd # "run-data" /\ s.data # 0 =>
         s.data \in DOMAIN runs /\ runs[s.data].cmd = "run-data" /\ runs[s.data].status = "COMPLETED"
    /\ s.cmd = "research" /\ s.pc # "choose" => runs[s.run].source >= s.data

Fit(s) == Doing(s) /\ Owns(s) /\ Gathered(s) /\ Clocked(s) /\ Daily(s)

(* A completed run of books has an answer for each, and few failures.      *)
Whole(r) ==
  runs[r].status = "COMPLETED" /\ runs[r].cmd \in BookCmds =>
    /\ SourceOf(r) # 0 /\ runs[SourceOf(r)].status = "COMPLETED"
    /\ Both(Found(SourceOf(r))) = Answers(r)
    /\ Answers(r) # {} => /\ BooksOf(r) # {}
                          /\ Cardinality(RefusedOf(r, {"failed"})) * FailureShare
                               < Cardinality(Answers(r))

DataInv ==
  /\ DbTyped /\ Dated /\ proc \in [Procs -> ProcState]
  /\ \A r \in DOMAIN runs : Sourced(r) /\ Whole(r)
  /\ \A p \in Procs : Fit(proc[p])
  /\ Apart

CollectionInv ==
  /\ WorldTyped /\ RulesTyped /\ DataInv
  /\ \A m \in Markets : Chained(m)

(* A finite set that is not empty has an element of largest key. *)
LEMMA KeyMax ==
  ASSUME NEW S, IsFiniteSet(S), S # {}, NEW f, \A x \in S : f[x] \in Int
  PROVE  \E x \in S : \A y \in S : f[y] <= f[x]
<1> DEFINE Good == {T \in SUBSET S : T # {} => \E x \in T : \A y \in T : f[y] <= f[x]}
<1>1. ASSUME NEW T \in SUBSET S, \A U \in SUBSET T : U # T => U \in Good
      PROVE  T \in Good
  <2> SUFFICES ASSUME T # {} PROVE \E x \in T : \A y \in T : f[y] <= f[x]
    OBVIOUS
  <2>1. PICK e \in T : TRUE
    OBVIOUS
  <2>2. T \ {e} \in Good
    BY <1>1, <2>1
  <2>3. CASE T \ {e} = {}
    <3>1. \A y \in T : y = e
      BY <2>3
    <3> QED
      BY <2>1, <3>1
  <2>4. CASE T \ {e} # {}
    <3>1. PICK x \in T \ {e} : \A y \in T \ {e} : f[y] <= f[x]
      BY <2>2, <2>4
    <3>2. f[x] \in Int /\ f[e] \in Int /\ \A y \in T : f[y] \in Int
      BY <2>1, <3>1
    <3>3. CASE f[e] <= f[x]
      BY <3>1, <3>3
    <3>4. CASE ~(f[e] <= f[x])
      <4>1. f[e] <= f[e] /\ \A y \in T \ {e} : f[y] <= f[e]
        BY <3>1, <3>2, <3>4
      <4> QED
        BY <2>1, <4>1
    <3> QED
      BY <3>3, <3>4
  <2> QED
    BY <2>3, <2>4
<1> HIDE DEF Good
<1>2. \A T \in SUBSET S : T \in Good
  BY <1>1, SubsetInduction
<1> QED
  BY <1>2 DEF Good

(* The community module's maximum is one. *)
LEMMA MaxIs ==
  ASSUME NEW S, IsFiniteSet(S), S # {}, S \subseteq Int
  PROVE  Max(S) \in S /\ \A y \in S : Max(S) >= y
<1> DEFINE id == [x \in S |-> x]
<1>1. \A x \in S : id[x] \in Int
  OBVIOUS
<1>2. PICK x \in S : \A y \in S : id[y] <= id[x]
  <2> HIDE DEF id
  <2> QED
    BY <1>1, KeyMax
<1>3. \A y \in S : x >= y
  BY <1>2
<1> QED
  BY <1>3 DEF Max

(* Of rows numbered from 1, the last of those with the largest key. *)
LastBy(rs, f) == Max({0} \cup {r \in rs : \A q \in rs : f[q] <= f[r]})

(* LastBy chooses one of the rows with the largest key, or 0 of none.      *)
LEMMA LastIs ==
  ASSUME NEW n \in Nat, NEW rs \in SUBSET (1..n), NEW f \in [rs -> Int]
  PROVE  /\ LastBy(rs, f) \in {0} \cup rs
         /\ rs # {} => LastBy(rs, f) \in rs /\ \A q \in rs : f[q] <= f[LastBy(rs, f)]
<1> DEFINE T == {r \in rs : \A q \in rs : f[q] <= f[r]}
<1>1. IsFiniteSet(rs) /\ IsFiniteSet(T) /\ T \subseteq 1..n
  <2>1. IsFiniteSet(1..n)
    BY FS_Interval
  <2> QED
    BY <2>1, FS_Subset
<1>2. IsFiniteSet({0} \cup T)
  <2>1. IsFiniteSet(T \cup {0})
    BY <1>1, FS_AddElement
  <2>2. T \cup {0} = {0} \cup T
    OBVIOUS
  <2> QED
    BY ONLY <2>1, <2>2
<1>3. {0} \cup T \subseteq Int
  BY <1>1
<1>4. rs # {} => T # {}
  <2> SUFFICES ASSUME rs # {} PROVE T # {}
    OBVIOUS
  <2>1. \E x \in rs : \A y \in rs : f[y] <= f[x]
    BY <1>1, KeyMax
  <2> QED
    BY <2>1
<1> DEFINE all == {0} \cup T
<1>5. Max(all) \in all /\ \A y \in all : Max(all) >= y
  <2>1. IsFiniteSet(all) /\ all # {} /\ all \subseteq Int
    BY <1>2, <1>3
  <2> HIDE DEF all
  <2> QED
    BY <2>1, MaxIs
<1>6. T # {} => Max(all) \in T
  <2> SUFFICES ASSUME NEW t \in T PROVE Max(all) \in T
    OBVIOUS
  <2>1. t >= 1 /\ t \in Int /\ t \in all
    BY <1>1
  <2>2. Max(all) >= t
    BY <1>5, <2>1
  <2>3. Max(all) # 0
    BY <1>3, <1>5, <2>1, <2>2
  <2> QED
    BY <1>5, <2>3
<1> HIDE DEF all
<1>7. Max(all) \in {0} \cup rs
  BY <1>5 DEF all
<1>8. rs # {} => Max(all) \in rs /\ \A q \in rs : f[q] <= f[Max(all)]
  BY <1>4, <1>6
<1> QED
  BY <1>7, <1>8 DEF all, LastBy

(* Rules: recording what the venue listed for any markets keeps the        *)
(* journals chains.                                                        *)
LEMMA RecordKeeps ==
  ASSUME RulesTyped, \A m \in Markets : Chained(m),
         NEW ms, NEW listing \in [Markets -> Listings], RecordRules(ms, listing)
  PROVE  RulesTyped' /\ \A m \in Markets : Chained(m)'
<1>1. /\ current \in [Markets -> Listings \cup {NoListing}] /\ versions \in [Markets -> SUBSET Listings]
      /\ journal \in [Markets -> Seq(RulesEntry)] /\ NoListing \notin Listings
  BY CollectionAssumption DEF RulesTyped
<1>2. ASSUME NEW m \in Markets
      PROVE  /\ versions'[m] \in SUBSET Listings /\ versions[m] \subseteq versions'[m]
             /\ journal'[m] \in Seq(RulesEntry) /\ current'[m] \in Listings \cup {NoListing}
             /\ Chained(m)'
  <2> DEFINE l == listing[m]
  <2>1. l \in Listings /\ current[m] \in Listings \cup {NoListing} /\ journal[m] \in Seq(RulesEntry)
        /\ versions[m] \in SUBSET Listings
    BY <1>1
  <2>2. PICK j : j = journal[m]
    OBVIOUS
  <2>3. /\ j \in Seq(RulesEntry)
        /\ \A i \in DOMAIN j : /\ j[i][1] = IF i = 1 THEN NoListing ELSE j[i - 1][2]
                               /\ j[i][2] \in versions[m]
        /\ current[m] = IF j = << >> THEN NoListing ELSE j[Len(j)][2]
    BY <2>1, <2>2 DEF Chained
  <2> DEFINE vs == IF m \in ms THEN versions[m] \cup {l} ELSE versions[m]
  <2>4. versions'[m] = vs
    BY DEF RecordRules
  <2>5. CASE m \in ms /\ Journals(m, l)
    <3>1. journal'[m] = Append(j, <<current[m], l>>) /\ current'[m] = l /\ l \in versions'[m]
      BY <2>2, <2>4, <2>5 DEF RecordRules, Journals, Moves
    <3> DEFINE e == <<current[m], l>>
    <3>2. e \in RulesEntry /\ e[1] = current[m] /\ e[2] = l
      BY <2>1 DEF RulesEntry
    <3> HIDE DEF e, l, vs
    <3>3. PICK k : k = Append(j, e)
      OBVIOUS
    <3>4. /\ k \in Seq(RulesEntry) /\ Len(j) \in Nat /\ Len(k) = Len(j) + 1
          /\ DOMAIN k = 1..(Len(j) + 1) /\ DOMAIN j = 1..Len(j)
          /\ k[Len(j) + 1] = e /\ \A i \in 1..Len(j) : k[i] = j[i]
      BY <2>3, <3>2, <3>3
    <3>5. k # << >> /\ (j = << >> <=> Len(j) = 0)
      BY <2>3, <3>4
    <3>6. k[Len(k)][2] = l
      BY <3>2, <3>4
    <3>7. \A i \in DOMAIN k : /\ k[i][1] = IF i = 1 THEN NoListing ELSE k[i - 1][2]
                              /\ k[i][2] \in versions'[m]
      <4> SUFFICES ASSUME NEW i \in DOMAIN k
                   PROVE  /\ k[i][1] = IF i = 1 THEN NoListing ELSE k[i - 1][2]
                          /\ k[i][2] \in versions'[m]
        OBVIOUS
      <4>1. CASE i \in 1..Len(j)
        <5>1. k[i] = j[i] /\ (i # 1 => i - 1 \in 1..Len(j) /\ k[i - 1] = j[i - 1])
          BY <3>4, <4>1
        <5>2. j[i][2] \in versions'[m]
          BY <2>3, <2>4, <3>4, <4>1 DEF vs
        <5> QED
          BY <2>3, <3>4, <4>1, <5>1, <5>2
      <4>2. CASE i = Len(j) + 1
        <5>1. k[i] = e
          BY <3>4, <4>2
        <5>2. i = 1 => e[1] = NoListing
          BY <2>3, <3>2, <3>4, <3>5, <4>2
        <5>3. i # 1 => i - 1 = Len(j) /\ Len(j) \in 1..Len(j) /\ j # << >>
          BY <3>4, <3>5, <4>2
        <5>4. i # 1 => e[1] = k[i - 1][2]
          BY <2>3, <3>2, <3>4, <5>3
        <5> QED
          BY <3>1, <3>2, <5>1, <5>2, <5>4
      <4> QED
        BY <3>4, <4>1, <4>2
    <3>8. journal'[m] = k
      BY <3>1, <3>3 DEF e
    <3>9. Chained(m)'
      BY <3>1, <3>5, <3>6, <3>7, <3>8 DEF Chained
    <3>10. versions'[m] \in SUBSET Listings /\ versions[m] \subseteq versions'[m]
      BY <2>1, <2>4 DEF vs
    <3> QED
      BY <2>1, <3>1, <3>4, <3>8, <3>9, <3>10
  <2>6. CASE ~(m \in ms /\ Journals(m, l))
    <3>1. journal'[m] = j /\ current'[m] = current[m]
      BY <2>2, <2>6 DEF RecordRules, Journals
    <3>2. versions'[m] \in SUBSET Listings /\ versions[m] \subseteq versions'[m]
      BY <2>1, <2>4
    <3>3. Chained(m)'
      BY <2>3, <3>1, <3>2 DEF Chained
    <3> QED
      BY <2>1, <2>2, <3>1, <3>2, <3>3
  <2> QED
    BY <2>5, <2>6
<1>3. DOMAIN versions' = Markets /\ DOMAIN journal' = Markets /\ DOMAIN current' = Markets
  BY DEF RecordRules
<1>4. RulesTyped'
  <2>1. versions' = [m \in Markets |-> versions'[m]] /\ journal' = [m \in Markets |-> journal'[m]]
        /\ current' = [m \in Markets |-> current'[m]]
    BY DEF RecordRules
  <2> QED
    BY <1>2, <2>1 DEF RulesTyped
<1> QED
  BY <1>2, <1>4

-----------------------------------------------------------------------------
(* What a step on behalf of run r, or of none, may do to the database.     *)
Touches(r) ==
  /\ r \in {0, Len(runs) + 1} \cup DOMAIN runs
  /\ r \in DOMAIN runs => runs[r].status = "STARTED"
  /\ Len(runs') >= Len(runs) /\ Len(discoveries') >= Len(discoveries)
  /\ \A i \in DOMAIN runs : runs'[i].cmd = runs[i].cmd /\ (i # r => runs'[i] = runs[i])
  /\ \A i \in DOMAIN discoveries : discoveries'[i] = discoveries[i]
  /\ \A i \in DOMAIN discoveries' : i \in DOMAIN discoveries \/ (r # 0 /\ discoveries'[i].run = r)
  /\ books \subseteq books' /\ \A s \in books' \ books : r # 0 /\ s.run = r
  /\ refusals \subseteq refusals' /\ \A f \in refusals' \ refusals : r # 0 /\ f[1] = r

(* What was found and answered, spelled out. *)
LEMMA FoundIs == \A i, m : m \in Found(i) <=>
                   \E k \in DOMAIN discoveries : discoveries[k].run = i /\ discoveries[k].market = m
BY DEF Found, Range

(* What belongs to the other runs, and to no run, stays what it is. *)
LEMMA OthersStand ==
  ASSUME DbTyped, Dated, DbTyped', NEW r, Touches(r)
  PROVE  /\ \A i : i # r \/ i = 0 => /\ Found(i)' = Found(i) /\ BooksOf(i)' = BooksOf(i)
                                     /\ RefusedOf(i, Codes)' = RefusedOf(i, Codes)
                                     /\ RefusedOf(i, {"failed"})' = RefusedOf(i, {"failed"})
                                     /\ Answers(i)' = Answers(i)
         /\ Found(0) = {}
<1>1. DOMAIN runs = 1..Len(runs) /\ DOMAIN runs' = 1..Len(runs') /\ Len(runs) \in Nat /\ Len(runs') \in Nat
      /\ DOMAIN discoveries = 1..Len(discoveries) /\ DOMAIN discoveries' = 1..Len(discoveries')
      /\ Len(discoveries) \in Nat /\ Len(discoveries') \in Nat
  BY DEF DbTyped
<1>2. Found(0) = {}
  BY <1>1, FoundIs DEF Dated
<1>3. ASSUME NEW i, i # r \/ i = 0 PROVE Found(i)' = Found(i)
  <2>1. \A m : m \in Found(i)' <=>
          \E k \in DOMAIN discoveries' : discoveries'[k].run = i /\ discoveries'[k].market = m
    BY DEF Found, Range
  <2>2. \A m : m \in Found(i) <=>
          \E k \in DOMAIN discoveries : discoveries[k].run = i /\ discoveries[k].market = m
    BY FoundIs
  <2>3. DOMAIN discoveries \subseteq DOMAIN discoveries'
    BY <1>1 DEF Touches
  <2>4. \A k \in DOMAIN discoveries' : discoveries'[k].run = i => k \in DOMAIN discoveries
    BY <1>3 DEF Touches
  <2>5. \A k \in DOMAIN discoveries : discoveries'[k] = discoveries[k]
    BY DEF Touches
  <2>6. \A m : m \in Found(i)' <=> m \in Found(i)
    BY ONLY <2>1, <2>2, <2>3, <2>4, <2>5
  <2> QED
    BY ONLY <2>6
<1>4. ASSUME NEW i, i # r \/ i = 0 PROVE BooksOf(i)' = BooksOf(i)
  BY <1>4 DEF BooksOf, Touches
<1>5. ASSUME NEW i, i # r \/ i = 0, NEW codes PROVE RefusedOf(i, codes)' = RefusedOf(i, codes)
  BY <1>5 DEF RefusedOf, Touches
<1> QED
  BY <1>2, <1>3, <1>4, <1>5 DEF Answers, Codes

(* A process that does nothing stays fit for what it does, unless its run  *)
(* is the one touched.                                                     *)
LEMMA OthersKeep ==
  ASSUME DbTyped, Dated, DbTyped', NEW r, Touches(r),
         \A i \in DOMAIN runs : Sourced(i),
         NEW s \in ProcState, Fit(s), s.run # r \/ s.run = 0
  PROVE  Fit(s)'
<1>1. DOMAIN runs = 1..Len(runs) /\ DOMAIN runs' = 1..Len(runs') /\ Len(runs) \in Nat /\ Len(runs') \in Nat
      /\ DOMAIN discoveries = 1..Len(discoveries) /\ DOMAIN discoveries' = 1..Len(discoveries')
      /\ Len(discoveries) \in Nat /\ Len(discoveries') \in Nat
      /\ Len(runs') >= Len(runs) /\ Len(discoveries') >= Len(discoveries)
  BY DEF DbTyped, Touches
<1>2. s.cmd \in RunCmds => s.run \in DOMAIN runs /\ s.run # 0 /\ s.run # r
  BY <1>1 DEF Fit, Owns
<1>3. \A i \in DOMAIN runs : i # r => runs'[i] = runs[i]
  BY DEF Touches
<1>4. \A i \in DOMAIN runs : runs[i].status = "COMPLETED" => i # r
  BY DEF Touches
<1>5. Doing(s)'
  BY DEF Fit, Doing
<1>6. Owns(s)'
  <2>1. Owns(s) /\ DOMAIN runs \subseteq DOMAIN runs'
    BY <1>1 DEF Fit
  <2> QED
    BY <1>2, <1>3, <2>1 DEF Owns
<1>7. Gathered(s)'
  <2>1. Gathered(s) /\ Doing(s)
    BY DEF Fit
  <2>2. s.cmd \in RunCmds => /\ Found(s.run)' = Found(s.run) /\ BooksOf(s.run)' = BooksOf(s.run)
                             /\ RefusedOf(s.run, Codes)' = RefusedOf(s.run, Codes)
                             /\ Answers(s.run)' = Answers(s.run)
    BY <1>2, OthersStand
  <2>3. BookCmds \subseteq RunCmds
    BY DEF BookCmds, RunCmds
  <2>4. s.pc \in {"list", "track", "states", "store", "choose", "book", "insert"} => s.cmd \in RunCmds
    BY <2>1 DEF Doing, CmdsAt, RunCmds, BookCmds
  <2>5. s.cmd \in RunCmds => Found(SourceOf(s.run))' = Found(SourceOf(s.run))
    <3> SUFFICES ASSUME s.cmd \in RunCmds PROVE Found(SourceOf(s.run))' = Found(SourceOf(s.run))
      OBVIOUS
    <3>1. runs'[s.run] = runs[s.run]
      BY <1>2, <1>3
    <3> DEFINE src == IF runs[s.run].cmd = "snapshot" THEN runs[s.run].source ELSE s.run
    <3>2. PICK k : k = src
      OBVIOUS
    <3>3. k # r \/ k = 0
      <4>1. CASE runs[s.run].cmd = "snapshot"
        <5>1. k = runs[s.run].source
          BY <3>2, <4>1
        <5>2. k \in 0..Len(runs) /\ Sourced(s.run)
          BY <1>2, <5>1 DEF Dated
        <5> QED
          BY <1>1, <1>4, <5>1, <5>2 DEF Sourced
      <4> QED
        BY <1>2, <3>2, <4>1
    <3>4. Found(k)' = Found(k)
      BY <3>3, OthersStand
    <3>5. SourceOf(s.run) = k /\ SourceOf(s.run)' = k
      BY <3>1, <3>2 DEF SourceOf
    <3> QED
      BY <3>4, <3>5 DEF Found
  <2> QED
    BY <2>1, <2>2, <2>3, <2>4, <2>5 DEF Gathered
<1>8. Clocked(s)'
  <2>1. Clocked(s) /\ s.at \in Nat /\ s.known \in Nat
    BY DEF Fit, ProcState
  <2>2. \A i \in DOMAIN discoveries : discoveries'[i] = discoveries[i]
    BY DEF Touches
  <2>3. \A m, i : i \in RowsOf(m) => i \in RowsOf(m)'
    BY <1>1, <2>2 DEF RowsOf
  <2>4. \A i \in 1..s.known : i \in DOMAIN discoveries
    BY <1>1, <2>1 DEF Clocked
  <2> QED
    BY <1>1, <2>1, <2>2, <2>3, <2>4 DEF Clocked
<1>9. Daily(s)'
  <2>1. Daily(s)
    BY DEF Fit
  <2>2. s.data \in DOMAIN runs /\ runs[s.data].status = "COMPLETED"
          => s.data \in DOMAIN runs' /\ runs'[s.data] = runs[s.data]
    BY <1>1, <1>3, <1>4
  <2>3. s.cmd = "research" => runs'[s.run] = runs[s.run]
    BY <1>2, <1>3 DEF RunCmds
  <2> QED
    BY <2>1, <2>2, <2>3 DEF Daily
<1> QED
  BY <1>5, <1>6, <1>7, <1>8, <1>9 DEF Fit

(* So do the other runs. *)
LEMMA OtherRunsKeep ==
  ASSUME DbTyped, Dated, DbTyped', NEW r, Touches(r),
         NEW i \in DOMAIN runs, i # r, Sourced(i), Whole(i)
  PROVE  Sourced(i)' /\ Whole(i)'
<1>1. DOMAIN runs = 1..Len(runs) /\ Len(runs) \in Nat /\ i # 0
  BY DEF DbTyped
<1>2. runs'[i] = runs[i] /\ \A k \in DOMAIN runs : k # r => runs'[k] = runs[k]
  BY DEF Touches
<1>3. \A k \in DOMAIN runs : runs[k].status = "COMPLETED" => k # r
  BY DEF Touches
<1>4. runs[i].source \in 0..Len(runs)
  BY DEF Dated
<1>5. Sourced(i)'
  BY <1>1, <1>2, <1>3, <1>4 DEF Sourced
<1>6. Whole(i)'
  <2> SUFFICES ASSUME runs'[i].status = "COMPLETED", runs'[i].cmd \in BookCmds PROVE Whole(i)'
    BY DEF Whole
  <2> DEFINE src == IF runs[i].cmd = "snapshot" THEN runs[i].source ELSE i
  <2>1. PICK k : k = src
    OBVIOUS
  <2>2. SourceOf(i) = k /\ SourceOf(i)' = k
    BY <1>2, <2>1 DEF SourceOf
  <2>3. k # 0 /\ runs[k].status = "COMPLETED" /\ Both(Found(k)) = Answers(i)
        /\ (Answers(i) # {} => /\ BooksOf(i) # {}
                               /\ Cardinality(RefusedOf(i, {"failed"})) * FailureShare
                                    < Cardinality(Answers(i)))
    BY <1>2, <2>2 DEF Whole
  <2>4. k \in DOMAIN runs /\ k # r /\ runs'[k] = runs[k]
    BY <1>1, <1>2, <1>3, <1>4, <2>1, <2>3
  <2>5. Found(k)' = Found(k) /\ BooksOf(i)' = BooksOf(i) /\ Answers(i)' = Answers(i)
        /\ RefusedOf(i, {"failed"})' = RefusedOf(i, {"failed"})
    BY <2>4, OthersStand
  <2>6. Both(Found(k))' = Both(Found(k)) /\ Both(Found(SourceOf(i)))' = Both(Found(k))'
    BY <2>2, <2>5 DEF Both, Found
  <2>7. Both(Found(SourceOf(i)))' = Answers(i)'
    BY <2>3, <2>5, <2>6
  <2>8. Answers(i)' # {} => /\ BooksOf(i)' # {}
                            /\ Cardinality(RefusedOf(i, {"failed"})') * FailureShare
                                 < Cardinality(Answers(i)')
    BY ONLY <2>3, <2>5
  <2> QED
    BY <2>2, <2>3, <2>4, <2>7, <2>8 DEF Whole
<1> QED
  BY <1>5, <1>6

(* The data stay sound, and what belongs to all runs but one stays as it is. *)
Kept == DataInv' /\ \E r : Touches(r)

(* The step of one process, on behalf of its run, of a new one or of none. *)
LEMMA StepKeeps ==
  ASSUME DataInv, DbTyped', Dated',
         NEW p \in Procs, NEW t \in ProcState, proc' = [proc EXCEPT ![p] = t],
         NEW r \in {0, Len(runs) + 1, proc[p].run}, Touches(r),
         t.run \in {0, Len(runs) + 1, proc[p].run}, Fit(t)',
         \A i \in DOMAIN runs' : i = r \/ i \notin DOMAIN runs => Sourced(i)' /\ Whole(i)'
  PROVE  Kept
<1>1. DbTyped /\ Dated /\ proc \in [Procs -> ProcState] /\ Apart
      /\ (\A i \in DOMAIN runs : Sourced(i) /\ Whole(i)) /\ (\A q \in Procs : Fit(proc[q]))
  BY DEF DataInv
<1>2. DOMAIN runs = 1..Len(runs) /\ Len(runs) \in Nat
  BY <1>1 DEF DbTyped
<1>3. ASSUME NEW q \in Procs PROVE proc[q].run \in 0..Len(runs) /\ proc[q] \in ProcState /\ Fit(proc[q])
  <2>1. Owns(proc[q]) /\ proc[q] \in ProcState /\ Fit(proc[q])
    BY <1>1 DEF Fit
  <2> QED
    BY <1>2, <2>1 DEF Owns
<1>4. proc'[p] = t /\ \A q \in Procs : q # p => proc'[q] = proc[q]
  BY <1>1
<1>5. proc' \in [Procs -> ProcState]
  BY <1>1
<1>6. ASSUME NEW q \in Procs, q # p PROVE proc[q].run # r \/ proc[q].run = 0
  BY <1>1, <1>2, <1>3, <1>6 DEF Apart
<1>7. \A q \in Procs : Fit(proc[q])'
  <2> SUFFICES ASSUME NEW q \in Procs PROVE Fit(proc[q])'
    OBVIOUS
  <2>1. CASE q = p
    <3>1. t = proc'[q]
      BY <1>4, <2>1
    <3>2. Fit(t)'
      OBVIOUS
    <3> QED
      BY ONLY <3>1, <3>2 DEF Fit, Doing, Owns, Gathered, Clocked, Daily
  <2>2. CASE q # p
    <3>1. PICK s : s = proc[q]
      OBVIOUS
    <3>2. s \in ProcState /\ Fit(s) /\ (s.run # r \/ s.run = 0)
      BY <1>3, <1>6, <2>2, <3>1
    <3>3. Fit(s)'
      BY <1>1, <3>2, OthersKeep
    <3>4. s = proc'[q]
      BY <1>4, <2>2, <3>1
    <3> QED
      BY <3>3, <3>4 DEF Fit, Doing, Owns, Gathered, Clocked, Daily
  <2> QED
    BY <2>1, <2>2
<1>8. Apart'
  <2> SUFFICES ASSUME NEW q \in Procs, NEW u \in Procs, q # u, proc'[q].run = proc'[u].run
               PROVE  proc'[q].run = 0
    BY DEF Apart
  <2>1. CASE q = p
    BY <1>1, <1>2, <1>3, <1>4, <2>1 DEF Apart
  <2>2. CASE u = p
    BY <1>1, <1>2, <1>3, <1>4, <2>2 DEF Apart
  <2>3. CASE q # p /\ u # p
    BY <1>1, <1>4, <2>3 DEF Apart
  <2> QED
    BY <2>1, <2>2, <2>3
<1>9. ASSUME NEW i \in DOMAIN runs' PROVE Sourced(i)' /\ Whole(i)'
  <2>1. CASE i = r \/ i \notin DOMAIN runs
    BY <2>1
  <2>2. CASE i # r /\ i \in DOMAIN runs
    BY <1>1, <2>2, OtherRunsKeep
  <2> QED
    BY <2>1, <2>2
<1> QED
  BY <1>5, <1>7, <1>8, <1>9 DEF DataInv, Kept

(* A step that leaves the database alone. *)
LEMMA QuietKeeps ==
  ASSUME DataInv, UNCHANGED <<runs, discoveries, books, refusals>>,
         NEW p \in Procs, NEW t \in ProcState, proc' = [proc EXCEPT ![p] = t],
         t.run \in {0, proc[p].run}, Fit(t)
  PROVE  Kept
<1>1. DbTyped /\ Dated /\ \A i \in DOMAIN runs : Sourced(i)
  BY DEF DataInv
<1>2. DbTyped' /\ Dated'
  BY <1>1 DEF DbTyped, Dated
<1>3. Touches(0)
  BY <1>1 DEF Touches, DbTyped
<1>4. Fit(t)'
  <2>1. t.run # 0 \/ t.run = 0
    OBVIOUS
  <2> QED
    BY <1>1, <1>2, <1>3, <2>1, OthersKeep
<1>5. \A i \in DOMAIN runs' : ~(i = 0 \/ i \notin DOMAIN runs)
  BY <1>1 DEF DbTyped
<1> QED
  BY <1>2, <1>3, <1>4, <1>5, StepKeeps

(* What a process is that has learned its markets. *)
LEMMA WithBooksIs ==
  ASSUME NEW p \in Procs, proc[p] \in ProcState, proc[p].cmd \in RunCmds,
         NEW found \in SUBSET Markets, NEW t, t = WithBooks(p, found)
  PROVE  /\ t \in ProcState /\ Doing(t)
         /\ t.cmd = proc[p].cmd /\ t.run = proc[p].run /\ t.daily = proc[p].daily
         /\ t.data = proc[p].data /\ t.at = 0 /\ t.known = 0
         /\ t.pc \in {"book", "poll", "finish"}
         /\ t.pc = "book" => t.cmd \in BookCmds /\ t.todo = Both(found)
         /\ t.pc # "book" /\ t.cmd \in BookCmds => Both(found) = {}
<1> DEFINE wanted == IF proc[p].cmd \in {"snapshot", "run-data"} THEN Both(found) ELSE {}
<1>1. wanted \in SUBSET Both(Markets)
  BY DEF Both
<1>2. Unseen \in [Markets -> Listings \cup {NoListing}]
  BY DEF Unseen
<1>3. {"book", "poll", "finish"} \subseteq DataPcs
  BY DEF DataPcs
<1>4. PICK w : w = wanted
  OBVIOUS
<1>5. PICK c \in {"book", "poll", "finish"} :
        c = IF w # {} THEN "book" ELSE IF proc[p].cmd = "run-data" THEN "poll" ELSE "finish"
  OBVIOUS
<1>6. t = [proc[p] EXCEPT !.seen = Unseen, !.passing = {}, !.todo = w, !.at = 0, !.known = 0, !.pc = c]
  BY <1>4, <1>5 DEF WithBooks
<1>7. w \in SUBSET (Markets \cup Both(Markets))
  BY <1>1, <1>4
<1>8. t \in ProcState /\ t.todo = w /\ t.pc = c /\ t.cmd = proc[p].cmd /\ t.run = proc[p].run
      /\ t.daily = proc[p].daily /\ t.data = proc[p].data /\ t.at = 0 /\ t.known = 0
  <2>1. PICK s \in ProcState : s = proc[p]
    OBVIOUS
  <2>2. t = [s EXCEPT !.seen = Unseen, !.passing = {}, !.todo = w, !.at = 0, !.known = 0, !.pc = c]
    BY ONLY <1>6, <2>1
  <2>3. c \in DataPcs /\ {} \in SUBSET Markets /\ 0 \in Nat
    BY <1>3
  <2> HIDE DEF wanted
  <2>4. t \in ProcState /\ t.todo = w /\ t.pc = c /\ t.cmd = s.cmd /\ t.run = s.run
        /\ t.daily = s.daily /\ t.data = s.data /\ t.at = 0 /\ t.known = 0
    BY ONLY <1>2, <1>7, <2>1, <2>2, <2>3 DEF ProcState
  <2> QED
    BY ONLY <2>1, <2>4
<1>9. c = "book" => w # {} /\ t.cmd \in BookCmds /\ w = Both(found)
  BY <1>4, <1>5, <1>8 DEF BookCmds
<1>10. c # "book" => w = {} /\ (t.cmd \in BookCmds => Both(found) = {})
  BY <1>4, <1>5, <1>8 DEF BookCmds
<1>11. c = "poll" => t.cmd = "run-data"
  BY <1>5, <1>8
<1>12. Doing(t)
  BY <1>1, <1>4, <1>8, <1>9, <1>10, <1>11 DEF Doing, CmdsAt, RunCmds
<1> QED
  BY <1>8, <1>9, <1>10, <1>12

-----------------------------------------------------------------------------
(* The steps that leave the database alone, or change rules only.          *)

(* A process as it is. *)
LEMMA AsItIs ==
  ASSUME DataInv, NEW p \in Procs
  PROVE  /\ proc[p] \in ProcState /\ Doing(proc[p]) /\ Owns(proc[p]) /\ Gathered(proc[p])
         /\ Clocked(proc[p]) /\ Daily(proc[p])
BY DEF DataInv, Fit

(* Both count something. *)
LEMMA NowIsNat == ASSUME DbTyped PROVE Len(runs) \in Nat /\ Len(discoveries) \in Nat
BY DEF DbTyped

(* A process without a run, and what is left of today's data. *)
LEMMA WithoutRun ==
  ASSUME DbTyped, NEW pc \in {"idle", "dead", "poll"}, NEW cmd \in {"none", "resolve"}, cmd = "resolve" <=> pc = "poll"
  PROVE  Process(pc, cmd, FALSE) \in ProcState /\ Fit(Process(pc, cmd, FALSE))
<1>1. Unseen \in [Markets -> Listings \cup {NoListing}]
  BY DEF Unseen
<1>2. PICK t : t = Process(pc, cmd, FALSE)
  OBVIOUS
<1>3. t \in ProcState
  BY <1>1, <1>2 DEF Process, ProcState, DataPcs, DailyPcs
<1>4. t.pc = pc /\ t.cmd = cmd /\ t.daily = FALSE /\ t.run = 0 /\ t.at = 0 /\ t.known = 0 /\ t.todo = {}
  BY <1>2 DEF Process
<1>5. Doing(t)
  BY <1>4 DEF Doing, CmdsAt
<1>6. Owns(t) /\ Gathered(t) /\ Daily(t)
  BY <1>4 DEF Owns, Gathered, Daily, RunCmds, BookCmds
<1>7. Clocked(t)
  BY <1>4, NowIsNat DEF Clocked
<1> QED
  BY <1>2, <1>3, <1>5, <1>6, <1>7 DEF Fit

(* The steps that only move their process keep the invariant: first the    *)
(* list of the venue.                                                      *)
LEMMA ListKeeps ==
  ASSUME DataInv, WorldTyped, NEW p \in Procs, List(p)
  PROVE  Kept
<1>1. PICK s \in ProcState : s = proc[p]
  BY AsItIs
<1>2. Doing(s) /\ Owns(s) /\ Gathered(s) /\ Clocked(s) /\ Daily(s) /\ s.pc = "list"
  BY <1>1, AsItIs DEF List
<1>3. PICK t : t = [s EXCEPT !.pc = "track", !.seen = venue, !.todo = Markets]
  OBVIOUS
<1>4. venue \in [Markets -> Listings] /\ Markets # {}
  BY CollectionAssumption DEF WorldTyped
<1>5. t \in ProcState
  BY <1>3, <1>4 DEF ProcState, DataPcs
<1>6. t.pc = "track" /\ t.seen = venue /\ t.todo = Markets /\ t.cmd = s.cmd /\ t.run = s.run
      /\ t.daily = s.daily /\ t.data = s.data /\ t.at = s.at /\ t.known = s.known
  BY <1>3 DEF ProcState
<1>7. proc' = [proc EXCEPT ![p] = t]
  BY <1>1, <1>3 DEF List
<1>8. Fit(t)
  <2>1. Doing(t)
    BY <1>2, <1>4, <1>6 DEF Doing, CmdsAt
  <2>2. Owns(t)
    BY <1>2, <1>6 DEF Owns
  <2>3. Gathered(t)
    BY <1>2, <1>6 DEF Gathered
  <2>4. Clocked(t) /\ Daily(t)
    BY <1>2, <1>6 DEF Clocked, Daily
  <2> QED
    BY <2>1, <2>2, <2>3, <2>4 DEF Fit
<1> QED
  BY <1>1, <1>5, <1>6, <1>7, <1>8, QuietKeeps DEF List, dbVars, bookVars

LEMMA TrackKeeps ==
  ASSUME DataInv, NEW p \in Procs, Track(p)
  PROVE  Kept
<1>1. PICK s \in ProcState : s = proc[p]
  BY AsItIs
<1>2. Doing(s) /\ Owns(s) /\ Gathered(s) /\ Clocked(s) /\ Daily(s) /\ s.pc = "track"
  BY <1>1, AsItIs DEF Track
<1>3. s.todo \subseteq Markets /\ s.todo # {} /\ OneOf(s.todo) \in s.todo
  BY <1>2 DEF Doing, OneOf
<1>4. PICK left : left = s.todo \ {OneOf(s.todo)}
  OBVIOUS
<1>5. PICK passing \in SUBSET Markets :
        proc' = [proc EXCEPT ![p] = [s EXCEPT !.todo = left, !.passing = passing,
                                              !.pc = IF left # {} THEN "track" ELSE "states"]]
  <2>1. s.passing \in SUBSET Markets /\ s.passing \cup {OneOf(s.todo)} \in SUBSET Markets
    BY <1>3 DEF ProcState
  <2>2. \E passing \in {s.passing, s.passing \cup {OneOf(s.todo)}} :
          proc' = [proc EXCEPT ![p] = [s EXCEPT !.todo = left, !.passing = passing,
                                                !.pc = IF left # {} THEN "track" ELSE "states"]]
    BY <1>1, <1>4 DEF Track, Become
  <2> QED
    BY <2>1, <2>2
<1>6. PICK pc \in {"track", "states"} : pc = IF left # {} THEN "track" ELSE "states"
  OBVIOUS
<1>7. PICK t : t = [s EXCEPT !.todo = left, !.passing = passing, !.pc = pc]
  OBVIOUS
<1>8. t \in ProcState
  BY <1>3, <1>4, <1>6, <1>7 DEF ProcState, DataPcs
<1>9. t.pc = pc /\ t.seen = s.seen /\ t.todo = left /\ t.cmd = s.cmd /\ t.run = s.run
      /\ t.daily = s.daily /\ t.data = s.data /\ t.at = s.at /\ t.known = s.known
  BY <1>7 DEF ProcState
<1>10. Fit(t)
  <2>1. Doing(t)
    BY <1>2, <1>3, <1>4, <1>6, <1>9 DEF Doing, CmdsAt
  <2>2. Owns(t)
    BY <1>2, <1>9 DEF Owns
  <2>3. Gathered(t)
    BY <1>2, <1>6, <1>9 DEF Gathered
  <2>4. Clocked(t) /\ Daily(t)
    BY <1>2, <1>6, <1>9 DEF Clocked, Daily
  <2> QED
    BY <2>1, <2>2, <2>3, <2>4 DEF Fit
<1>11. proc' = [proc EXCEPT ![p] = t]
  BY <1>5, <1>6, <1>7
<1> QED
  BY <1>1, <1>8, <1>9, <1>10, <1>11, QuietKeeps DEF Track, bookVars

LEMMA AskStatesKeeps ==
  ASSUME DataInv, NEW p \in Procs, AskStates(p)
  PROVE  Kept
<1>1. PICK s \in ProcState : s = proc[p]
  BY AsItIs
<1>2. Doing(s) /\ Owns(s) /\ Gathered(s) /\ Clocked(s) /\ Daily(s) /\ s.pc = "states"
  BY <1>1, AsItIs DEF AskStates
<1>3. s.cmd \in {"discover", "run-data"} /\ s.seen \in [Markets -> Listings]
  BY <1>2 DEF Doing, CmdsAt
<1>4. PICK open \in SUBSET s.passing :
        proc' = [proc EXCEPT ![p] = IF open = {} THEN WithBooks(p, {})
                                    ELSE [s EXCEPT !.pc = "store", !.todo = open, !.passing = open]]
  BY <1>1 DEF AskStates, Become
<1>5. CASE open = {}
  <2>1. PICK t : t = WithBooks(p, {})
    OBVIOUS
  <2>2. /\ t \in ProcState /\ Doing(t) /\ t.cmd = s.cmd /\ t.run = s.run /\ t.daily = s.daily
        /\ t.data = s.data /\ t.at = 0 /\ t.known = 0 /\ t.pc \in {"book", "poll", "finish"}
        /\ t.pc = "book" => t.cmd \in BookCmds /\ t.todo = Both({})
    BY <1>1, <1>3, <2>1, WithBooksIs DEF RunCmds
  <2>3. t.pc # "book"
    BY <2>2 DEF Doing, Both
  <2>4. Owns(t)
    BY <1>2, <2>2 DEF Owns
  <2>5. s.cmd \in BookCmds => SourceOf(s.run) = s.run
    BY <1>2, <1>3 DEF SourceOf, Owns, RunCmds, BookCmds
  <2>6. Both({}) = {} /\ (s.cmd \in BookCmds => Answers(s.run) = {}) /\ Found(s.run) = {}
    BY <1>2 DEF Gathered, Both
  <2>7. Gathered(t)
    BY <1>2, <2>2, <2>3, <2>5, <2>6 DEF Gathered
  <2>8. Clocked(t) /\ Daily(t)
    BY <1>2, <2>2, <2>3, NowIsNat DEF Clocked, Daily, DataInv
  <2>9. Fit(t)
    BY <2>2, <2>4, <2>7, <2>8 DEF Fit
  <2>10. proc' = [proc EXCEPT ![p] = t]
    BY <1>4, <1>5, <2>1
  <2> QED
    BY <1>1, <2>2, <2>9, <2>10, QuietKeeps DEF AskStates, dbVars, bookVars
<1>6. CASE open # {}
  <2>1. PICK t : t = [s EXCEPT !.pc = "store", !.todo = open, !.passing = open]
    OBVIOUS
  <2>2. open \subseteq Markets
    BY <1>4 DEF ProcState
  <2>3. t \in ProcState
    BY <2>1, <2>2 DEF ProcState, DataPcs
  <2>4. t.pc = "store" /\ t.seen = s.seen /\ t.todo = open /\ t.passing = open /\ t.cmd = s.cmd
        /\ t.run = s.run /\ t.daily = s.daily /\ t.data = s.data /\ t.at = s.at /\ t.known = s.known
    BY <2>1 DEF ProcState
  <2>5. Doing(t)
    BY <1>3, <1>6, <2>2, <2>4 DEF Doing, CmdsAt
  <2>6. Owns(t)
    BY <1>2, <2>4 DEF Owns
  <2>7. Gathered(t)
    BY <1>2, <2>4 DEF Gathered
  <2>8. Clocked(t) /\ Daily(t)
    BY <1>2, <2>4 DEF Clocked, Daily
  <2>9. Fit(t)
    BY <2>5, <2>6, <2>7, <2>8 DEF Fit
  <2>10. proc' = [proc EXCEPT ![p] = t]
    BY <1>4, <1>6, <2>1
  <2> QED
    BY <1>1, <2>3, <2>4, <2>9, <2>10, QuietKeeps DEF AskStates, dbVars, bookVars
<1> QED
  BY <1>4, <1>5, <1>6

LEMMA FetchBookKeeps ==
  ASSUME DataInv, NEW p \in Procs, FetchBook(p)
  PROVE  Kept
<1>1. PICK s \in ProcState : s = proc[p]
  BY AsItIs
<1>2. Doing(s) /\ Owns(s) /\ Gathered(s) /\ Clocked(s) /\ Daily(s) /\ s.pc = "book"
  BY <1>1, AsItIs DEF FetchBook
<1>3. DbTyped /\ Dated /\ Len(runs) \in Nat /\ Len(discoveries) \in Nat
  BY NowIsNat DEF DataInv
<1>4. PICK t : t = [s EXCEPT !.pc = "insert", !.at = Len(runs), !.known = Len(discoveries)]
  OBVIOUS
<1>5. t \in ProcState
  BY <1>3, <1>4 DEF ProcState, DataPcs
<1>6. t.pc = "insert" /\ t.seen = s.seen /\ t.todo = s.todo /\ t.cmd = s.cmd /\ t.run = s.run
      /\ t.daily = s.daily /\ t.data = s.data /\ t.at = Len(runs) /\ t.known = Len(discoveries)
  BY <1>4 DEF ProcState
<1>7. Clocked(t)
  <2>1. \A i \in 1..Len(discoveries) : discoveries[i].observed <= Len(runs)
    BY <1>3 DEF DbTyped, Dated
  <2>2. ASSUME NEW b \in t.todo PROVE \E i \in RowsOf(b[1]) : i <= t.known
    <3>1. b \in Both(Found(SourceOf(s.run)))
      BY <1>2, <1>6, <2>2 DEF Gathered
    <3>2. b[1] \in Found(SourceOf(s.run))
      BY <3>1 DEF Both
    <3>3. PICK i \in DOMAIN discoveries : discoveries[i].market = b[1]
      BY <3>2, FoundIs
    <3>4. i \in RowsOf(b[1]) /\ i <= Len(discoveries)
      BY <1>3, <3>3 DEF RowsOf, DbTyped
    <3> QED
      BY <1>6, <3>4
  <2> QED
    BY <1>3, <1>6, <2>1, <2>2 DEF Clocked
<1>8. Fit(t)
  <2>1. Doing(t)
    BY <1>2, <1>6 DEF Doing, CmdsAt
  <2>2. Owns(t)
    BY <1>2, <1>6 DEF Owns
  <2>3. Gathered(t)
    BY <1>2, <1>6 DEF Gathered
  <2>4. Daily(t)
    BY <1>2, <1>6 DEF Daily
  <2> QED
    BY <1>7, <2>1, <2>2, <2>3, <2>4 DEF Fit
<1>9. proc' = [proc EXCEPT ![p] = t]
  BY <1>1, <1>4 DEF FetchBook, Now
<1> QED
  BY <1>1, <1>5, <1>6, <1>8, <1>9, QuietKeeps DEF FetchBook, dbVars, bookVars

(* What is left to do after a poll. *)
LEMMA AfterPollIs ==
  ASSUME DataInv, NEW p \in Procs, proc[p].pc \in {"poll", "apply"}
  PROVE  /\ AfterPoll(p) \in ProcState /\ Fit(AfterPoll(p))
         /\ AfterPoll(p).run \in {0, proc[p].run}
<1>1. PICK s \in ProcState : s = proc[p]
  BY AsItIs
<1>2. Doing(s) /\ Owns(s) /\ Gathered(s) /\ Clocked(s) /\ Daily(s) /\ s.pc \in {"poll", "apply"}
  BY <1>1, AsItIs
<1>3. CASE s.cmd = "resolve"
  <2>1. AfterPoll(p) = Process("idle", "none", FALSE)
    BY <1>1, <1>3 DEF AfterPoll, Idle
  <2>2. Process("idle", "none", FALSE).run = 0
    BY DEF Process
  <2> QED
    BY <2>1, <2>2, WithoutRun DEF DataInv
<1>4. CASE s.cmd # "resolve"
  <2>1. PICK t : t = [s EXCEPT !.pc = "finish", !.todo = {}, !.seen = Unseen]
    OBVIOUS
  <2>2. Unseen \in [Markets -> Listings \cup {NoListing}]
    BY DEF Unseen
  <2>3. t \in ProcState
    BY <2>1, <2>2 DEF ProcState, DataPcs
  <2>4. t.pc = "finish" /\ t.todo = {} /\ t.cmd = s.cmd /\ t.run = s.run
        /\ t.daily = s.daily /\ t.data = s.data /\ t.at = s.at /\ t.known = s.known
    BY <2>1 DEF ProcState
  <2>5. s.cmd = "run-data"
    BY <1>2, <1>4 DEF Doing, CmdsAt
  <2>6. Doing(t)
    BY <2>4, <2>5 DEF Doing, CmdsAt, RunCmds
  <2>7. Owns(t) /\ Gathered(t)
    BY <1>2, <2>4 DEF Owns, Gathered
  <2>8. Clocked(t) /\ Daily(t)
    BY <1>2, <2>4, <2>5 DEF Clocked, Daily
  <2>9. AfterPoll(p) = t
    BY <1>1, <1>4, <2>1 DEF AfterPoll
  <2> QED
    BY <1>1, <2>3, <2>4, <2>6, <2>7, <2>8, <2>9 DEF Fit
<1> QED
  BY <1>3, <1>4

(* A poll looks at markets that a completed discovery has seen, if any.    *)
LEMMA PollKeeps ==
  ASSUME DataInv, WorldTyped, NEW p \in Procs, Poll(p)
  PROVE  Kept
<1>1. PICK s \in ProcState : s = proc[p]
  BY AsItIs
<1>2. Doing(s) /\ Owns(s) /\ Gathered(s) /\ Clocked(s) /\ Daily(s) /\ s.pc = "poll"
  BY <1>1, AsItIs DEF Poll
<1>3. CASE Polled = {}
  <2>1. proc' = [proc EXCEPT ![p] = AfterPoll(p)] /\ proc[p].pc \in {"poll", "apply"}
    BY <1>3 DEF Poll, Become
  <2>2. PICK t : t = AfterPoll(p)
    OBVIOUS
  <2>3. t \in ProcState /\ Fit(t) /\ t.run \in {0, proc[p].run}
    BY <2>1, <2>2, AfterPollIs
  <2> QED
    BY <2>1, <2>2, <2>3, QuietKeeps DEF Poll, dbVars, bookVars
<1>4. CASE Polled # {}
  <2>1. PICK polled : polled = Polled
    OBVIOUS
  <2>2. PICK t : t = [s EXCEPT !.pc = "apply", !.seen = venue, !.todo = polled]
    OBVIOUS
  <2>3. polled \subseteq Markets /\ venue \in [Markets -> Listings]
    BY <2>1 DEF Polled, Known, WorldTyped
  <2>4. t \in ProcState
    BY <2>2, <2>3 DEF ProcState, DataPcs
  <2>5. t.pc = "apply" /\ t.todo = polled /\ t.seen = venue /\ t.cmd = s.cmd /\ t.run = s.run
        /\ t.daily = s.daily /\ t.data = s.data /\ t.at = s.at /\ t.known = s.known
    BY <2>2 DEF ProcState
  <2>6. Doing(t)
    BY <1>2, <2>3, <2>5 DEF Doing, CmdsAt
  <2>7. Owns(t)
    BY <1>2, <2>5 DEF Owns
  <2>8. Gathered(t)
    BY <1>2, <2>5 DEF Gathered
  <2>9. Clocked(t) /\ Daily(t)
    BY <1>2, <2>5 DEF Clocked, Daily
  <2>10. Fit(t)
    BY <2>6, <2>7, <2>8, <2>9 DEF Fit
  <2>11. proc' = [proc EXCEPT ![p] = t]
    BY <1>1, <1>4, <2>1, <2>2 DEF Poll, Become
  <2> QED
    BY <1>1, <2>4, <2>5, <2>10, <2>11, QuietKeeps DEF Poll, dbVars, bookVars
<1> QED
  BY <1>3, <1>4

LEMMA ApplyPollKeeps ==
  ASSUME DataInv, NEW p \in Procs, NEW missing, ApplyPoll(p, missing)
  PROVE  Kept
<1>1. proc' = [proc EXCEPT ![p] = AfterPoll(p)] /\ proc[p].pc \in {"poll", "apply"}
  BY DEF ApplyPoll, Become
<1>2. PICK t : t = AfterPoll(p)
  OBVIOUS
<1>3. t \in ProcState /\ Fit(t) /\ t.run \in {0, proc[p].run}
  BY <1>1, <1>2, AfterPollIs
<1> QED
  BY <1>1, <1>2, <1>3, QuietKeeps DEF ApplyPoll, bookVars

(* A process that begins to poll, or ends. *)
LEMMA RunlessKeeps ==
  ASSUME DataInv, NEW p \in Procs,
         StartResolve(p) \/ Report(p) \/ Die(p)
  PROVE  Kept
<1>1. PICK pc \in {"idle", "dead", "poll"}, cmd \in {"none", "resolve"} :
        (cmd = "resolve" <=> pc = "poll") /\ proc' = [proc EXCEPT ![p] = Process(pc, cmd, FALSE)]
  BY DEF StartResolve, Report, Die, Become, Idle, Dead
<1>2. PICK t : t = Process(pc, cmd, FALSE)
  OBVIOUS
<1>3. DbTyped
  BY DEF DataInv
<1>4. t \in ProcState /\ Fit(t)
  BY <1>1, <1>2, <1>3, WithoutRun
<1>5. t.run = 0
  BY <1>2 DEF Process
<1>6. UNCHANGED <<runs, discoveries, books, refusals>>
  BY DEF StartResolve, Report, Die, dbVars, bookVars
<1> QED
  BY <1>1, <1>2, <1>4, <1>5, <1>6, QuietKeeps

(* No process moves. *)
LEMMA StillKeeps ==
  ASSUME DataInv, UNCHANGED <<runs, discoveries, books, refusals, proc>>
  PROVE  Kept
<1>1. /\ DbTyped /\ Dated /\ proc \in [Procs -> ProcState] /\ Apart
      /\ \A r \in DOMAIN runs : Sourced(r) /\ Whole(r)
      /\ \A p \in Procs : Fit(proc[p])
  BY DEF DataInv
<1>2. DbTyped' /\ Dated' /\ proc' \in [Procs -> ProcState] /\ Apart'
  BY <1>1 DEF DbTyped, Dated, Apart
<1>3. Touches(0)
  BY <1>1 DEF Touches, DbTyped
<1>4. ASSUME NEW r \in DOMAIN runs PROVE Sourced(r)' /\ Whole(r)'
  <2>1. r # 0
    BY <1>1 DEF DbTyped
  <2> QED
    BY <1>1, <1>2, <1>3, <2>1, OtherRunsKeep
<1>5. ASSUME NEW p \in Procs PROVE Fit(proc[p])'
  <2>1. PICK s : s = proc[p]
    OBVIOUS
  <2>2. s \in ProcState /\ Fit(s) /\ (s.run # 0 \/ s.run = 0)
    BY <1>1, <2>1
  <2>3. Fit(s)'
    BY <1>1, <1>2, <1>3, <2>2, OthersKeep
  <2>4. s = proc'[p]
    BY <2>1
  <2> QED
    BY ONLY <2>3, <2>4 DEF Fit, Doing, Owns, Gathered, Clocked, Daily
<1> QED
  BY <1>2, <1>3, <1>4, <1>5 DEF DataInv, Kept

-----------------------------------------------------------------------------
(* The steps that write run rows. *)

(* A run that is still STARTED may become COMPLETED. *)
MayEnd(r) ==
  runs[r].cmd \in BookCmds =>
    /\ SourceOf(r) # 0
    /\ SourceOf(r) # r => runs[SourceOf(r)].status = "COMPLETED"
    /\ Both(Found(SourceOf(r))) = Answers(r)
    /\ Answers(r) # {} => /\ BooksOf(r) # {}
                          /\ Cardinality(RefusedOf(r, {"failed"})) * FailureShare
                               < Cardinality(Answers(r))

(* A new run touches nothing else, and has nothing yet. *)
LEMMA NewRunTouches ==
  ASSUME DataInv, NEW cmd \in RunCmds, NewRun(cmd), UNCHANGED <<discoveries, books, refusals>>,
         NEW n, n = Len(runs) + 1
  PROVE  /\ DbTyped' /\ Dated' /\ Touches(n) /\ n \in Nat \ {0} /\ Len(runs') = n
         /\ n \in DOMAIN runs' /\ runs'[n].cmd = cmd /\ runs'[n].status = "STARTED"
         /\ Found(n)' = {} /\ Answers(n)' = {} /\ BooksOf(n)' = {} /\ RefusedOf(n, Codes)' = {}
         /\ \A i \in DOMAIN runs' : i = n \/ i \notin DOMAIN runs => Sourced(i)' /\ Whole(i)'
         /\ DOMAIN runs \subseteq DOMAIN runs' /\ \A i \in DOMAIN runs : runs'[i] = runs[i]
<1>1. DbTyped /\ Dated
  BY DEF DataInv
<1>2. PICK row : row = [cmd |-> cmd, started |-> n, source |-> 0, status |-> "STARTED"]
  OBVIOUS
<1>3. runs' = Append(runs, row) /\ runs \in Seq(RunRow) /\ Len(runs) \in Nat
  BY <1>1, <1>2 DEF NewRun, Now, DbTyped
<1>4. row \in RunRow /\ row.started = n /\ row.source = 0 /\ row.cmd = cmd /\ row.status = "STARTED"
  BY <1>2, <1>3 DEF RunRow
<1>5. /\ runs' \in Seq(RunRow) /\ Len(runs') = n /\ DOMAIN runs' = 1..n /\ DOMAIN runs = 1..Len(runs)
      /\ runs'[n] = row /\ \A i \in 1..Len(runs) : runs'[i] = runs[i]
  BY <1>3, <1>4
<1>6. DbTyped'
  BY <1>1, <1>5 DEF DbTyped
<1>7. Dated'
  <2>1. \A r \in DOMAIN runs' : runs'[r].started = r /\ runs'[r].source \in 0..Len(runs')
    <3> SUFFICES ASSUME NEW r \in 1..n PROVE runs'[r].started = r /\ runs'[r].source \in 0..n
      BY <1>5
    <3>1. CASE r = n
      BY <1>3, <1>4, <1>5, <3>1
    <3>2. CASE r # n
      <4>1. r \in 1..Len(runs) /\ runs'[r] = runs[r]
        BY <1>3, <1>5, <3>2
      <4> QED
        BY <1>1, <1>3, <1>5, <4>1 DEF Dated
    <3> QED
      BY <3>1, <3>2
  <2>2. \A i \in DOMAIN discoveries :
          discoveries[i].run \in DOMAIN runs' /\ discoveries[i].observed <= Len(runs')
    <3> SUFFICES ASSUME NEW i \in DOMAIN discoveries
                 PROVE  discoveries[i].run \in DOMAIN runs' /\ discoveries[i].observed <= Len(runs')
      OBVIOUS
    <3>1. discoveries[i].run \in DOMAIN runs /\ discoveries[i].observed <= Len(runs)
      BY <1>1 DEF Dated
    <3>2. discoveries[i] \in DiscoveryRow
      BY <1>1 DEF DbTyped
    <3>3. discoveries[i].observed \in Nat
      BY <3>2 DEF DiscoveryRow
    <3> QED
      BY <1>3, <1>5, <3>1, <3>3
  <2>3. (\A s \in books : s.run \in DOMAIN runs') /\ \A f \in refusals : f[1] \in DOMAIN runs'
    BY <1>1, <1>3, <1>5 DEF Dated
  <2> QED
    BY <1>1, <2>1, <2>2, <2>3 DEF Dated
<1>8. Touches(n)
  <2>1. n \notin DOMAIN runs /\ n # 0
    BY <1>3, <1>5
  <2>2. Len(discoveries) \in Nat /\ Len(runs') >= Len(runs)
    BY <1>1, <1>3, <1>5, NowIsNat
  <2> QED
    BY <1>5, <2>1, <2>2 DEF Touches
<1>9. Found(n)' = {} /\ BooksOf(n)' = {} /\ RefusedOf(n, Codes)' = {} /\ Answers(n)' = {}
  <2>1. n \notin DOMAIN runs
    BY <1>3, <1>5
  <2>2. Found(n) = {}
    BY <1>1, <2>1, FoundIs DEF Dated
  <2>3. BooksOf(n) = {} /\ RefusedOf(n, Codes) = {}
    BY <1>1, <2>1 DEF Dated, BooksOf, RefusedOf
  <2> QED
    BY <2>2, <2>3 DEF Found, BooksOf, RefusedOf, Answers
<1>10. \A i \in DOMAIN runs' : i = n \/ i \notin DOMAIN runs => Sourced(i)' /\ Whole(i)'
  <2>1. Sourced(n)' /\ Whole(n)'
    BY <1>4, <1>5 DEF Sourced, Whole
  <2>2. \A i \in DOMAIN runs' : i \notin DOMAIN runs => i = n
    BY <1>3, <1>5
  <2> QED
    BY <2>1, <2>2
<1> QED
  BY <1>3, <1>4, <1>5, <1>6, <1>7, <1>8, <1>9, <1>10

(* A new run adds an empty run, which is no other process's.               *)
LEMMA StartKeeps ==
  ASSUME DataInv, NEW p \in Procs, NEW cmd \in RunCmds, NEW daily \in BOOLEAN, Start(p, cmd, daily)
  PROVE  Kept
<1>1. PICK n : n = Len(runs) + 1
  OBVIOUS
<1>2. NewRun(cmd) /\ UNCHANGED <<discoveries, books, refusals>>
  BY DEF Start, bookVars
<1>3. /\ DbTyped' /\ Dated' /\ Touches(n) /\ n \in Nat \ {0} /\ Len(runs') = n
      /\ n \in DOMAIN runs' /\ runs'[n].cmd = cmd /\ runs'[n].status = "STARTED"
      /\ Found(n)' = {} /\ Answers(n)' = {} /\ BooksOf(n)' = {} /\ RefusedOf(n, Codes)' = {}
      /\ \A i \in DOMAIN runs' : i = n \/ i \notin DOMAIN runs => Sourced(i)' /\ Whole(i)'
  BY <1>1, <1>2, NewRunTouches
<1>4. Len(discoveries') \in Nat
  BY <1>3 DEF DbTyped
<1>5. PICK data \in {0, n} : data = IF daily THEN n ELSE 0
  OBVIOUS
<1>6. PICK pc \in {"list", "choose"} : pc = FirstPc(cmd)
  BY DEF FirstPc
<1>7. PICK t : t = [Process(pc, cmd, daily) EXCEPT !.run = n, !.at = n, !.data = data]
  OBVIOUS
<1>8. Unseen \in [Markets -> Listings \cup {NoListing}]
  BY DEF Unseen
<1>9. t = [pc |-> pc, cmd |-> cmd, daily |-> daily, run |-> n, data |-> data, at |-> n,
           known |-> 0, seen |-> Unseen, todo |-> {}, passing |-> {}]
  BY <1>7 DEF Process
<1>10. t \in ProcState
  BY <1>3, <1>5, <1>8, <1>9 DEF ProcState, DataPcs
<1>11. t.pc = pc /\ t.cmd = cmd /\ t.daily = daily /\ t.run = n /\ t.data = data /\ t.at = n /\ t.known = 0
  BY <1>9
<1>12. pc = "choose" <=> cmd \in {"snapshot", "research"}
  BY <1>6 DEF FirstPc
<1>13. Doing(t)
  BY <1>11, <1>12 DEF Doing, CmdsAt, RunCmds
<1>14. Owns(t)'
  BY <1>3, <1>11 DEF Owns
<1>15. Gathered(t)'
  BY <1>3, <1>11 DEF Gathered
<1>16. Clocked(t)'
  BY <1>3, <1>4, <1>11 DEF Clocked
<1>17. Daily(t)'
  <2>1. daily => cmd = "run-data"
    BY DEF Start
  <2> QED
    BY <1>3, <1>5, <1>11, <2>1 DEF Daily
<1>18. Fit(t)'
  BY <1>13, <1>14, <1>15, <1>16, <1>17 DEF Fit, Doing
<1>19. proc' = [proc EXCEPT ![p] = t]
  BY <1>3, <1>5, <1>6, <1>7 DEF Start, Become, Now
<1> QED
  BY <1>1, <1>3, <1>10, <1>11, <1>18, <1>19, StepKeeps

(* The cycle's research begins after its data run, and so finds today's    *)
(* data.                                                                   *)
LEMMA DailyResearchKeeps ==
  ASSUME DataInv, NEW p \in Procs, DailyResearch(p)
  PROVE  Kept
<1>1. PICK s \in ProcState : s = proc[p]
  BY AsItIs
<1>2. Doing(s) /\ Owns(s) /\ Gathered(s) /\ Clocked(s) /\ Daily(s) /\ s.pc = "research"
  BY <1>1, AsItIs DEF DailyResearch
<1>3. s.cmd = "none" /\ s.daily /\ s.run = 0
  BY <1>2 DEF Doing, CmdsAt, Owns, RunCmds
<1>4. CASE proc[p].data # 0 /\ ~ResearchHeld
  <2>1. PICK n : n = Len(runs) + 1
    OBVIOUS
  <2>2. NewRun("research") /\ UNCHANGED <<discoveries, books, refusals>> /\ "research" \in RunCmds
    BY <1>4 DEF DailyResearch, bookVars, RunCmds
  <2>3. /\ DbTyped' /\ Dated' /\ Touches(n) /\ n \in Nat \ {0} /\ Len(runs') = n
        /\ n \in DOMAIN runs' /\ runs'[n].cmd = "research" /\ runs'[n].status = "STARTED"
        /\ Found(n)' = {} /\ Answers(n)' = {} /\ BooksOf(n)' = {} /\ RefusedOf(n, Codes)' = {}
        /\ \A i \in DOMAIN runs' : i = n \/ i \notin DOMAIN runs => Sourced(i)' /\ Whole(i)'
        /\ DOMAIN runs \subseteq DOMAIN runs' /\ \A i \in DOMAIN runs : runs'[i] = runs[i]
    BY <2>1, <2>2, NewRunTouches
  <2>4. PICK t : t = [Process("choose", "research", TRUE) EXCEPT !.run = n, !.at = n, !.data = s.data]
    OBVIOUS
  <2>5. Unseen \in [Markets -> Listings \cup {NoListing}] /\ s.data \in Nat
    BY DEF Unseen, ProcState
  <2>6. t = [pc |-> "choose", cmd |-> "research", daily |-> TRUE, run |-> n, data |-> s.data,
             at |-> n, known |-> 0, seen |-> Unseen, todo |-> {}, passing |-> {}]
    BY <2>4 DEF Process
  <2>7. t \in ProcState
    BY <2>3, <2>5, <2>6 DEF ProcState, DataPcs, RunCmds
  <2>8. /\ t.pc = "choose" /\ t.cmd = "research" /\ t.daily = TRUE /\ t.run = n /\ t.data = s.data
        /\ t.at = n /\ t.known = 0
    BY <2>6
  <2>9. Len(discoveries') \in Nat
    BY <2>3 DEF DbTyped
  <2>10. Doing(t)
    BY <2>8 DEF Doing, CmdsAt
  <2>11. Owns(t)'
    BY <2>2, <2>3, <2>8 DEF Owns
  <2>12. Gathered(t)' /\ Clocked(t)'
    BY <2>3, <2>8, <2>9 DEF Gathered, Clocked, BookCmds
  <2>13. Daily(t)'
    <3>1. s.data # 0 /\ s.data \in DOMAIN runs /\ runs[s.data].cmd = "run-data"
          /\ runs[s.data].status = "COMPLETED"
      BY <1>1, <1>2, <1>3, <1>4 DEF Daily
    <3>2. s.data \in DOMAIN runs' /\ runs'[s.data] = runs[s.data]
      BY <2>3, <3>1
    <3> QED
      BY <2>8, <3>1, <3>2 DEF Daily
  <2>14. Fit(t)'
    BY <2>10, <2>11, <2>12, <2>13 DEF Fit, Doing
  <2>15. proc' = [proc EXCEPT ![p] = t]
    BY <1>1, <1>4, <2>3, <2>4 DEF DailyResearch, Become, Now
  <2> QED
    BY <2>1, <2>3, <2>7, <2>8, <2>14, <2>15, StepKeeps
<1>5. CASE ~(proc[p].data # 0 /\ ~ResearchHeld)
  <2>1. PICK t : t = [s EXCEPT !.pc = "report"]
    OBVIOUS
  <2>2. t \in ProcState
    BY <2>1 DEF ProcState, DailyPcs
  <2>3. t.pc = "report" /\ t.todo = s.todo /\ t.cmd = s.cmd /\ t.run = s.run
        /\ t.daily = s.daily /\ t.data = s.data /\ t.at = s.at /\ t.known = s.known
    BY <2>1 DEF ProcState
  <2>4. Doing(t)
    BY <1>3, <2>3 DEF Doing, CmdsAt
  <2>5. Owns(t) /\ Gathered(t)
    BY <1>2, <1>3, <2>3 DEF Owns, Gathered, BookCmds
  <2>6. Clocked(t) /\ Daily(t)
    BY <1>2, <1>3, <2>3 DEF Clocked, Daily
  <2>7. Fit(t)
    BY <2>4, <2>5, <2>6 DEF Fit
  <2>8. proc' = [proc EXCEPT ![p] = t]
    BY <1>1, <1>5, <2>1 DEF DailyResearch, Go
  <2> QED
    BY <1>1, <1>5, <2>2, <2>3, <2>7, <2>8, QuietKeeps DEF DailyResearch, bookVars
<1> QED
  BY <1>4, <1>5

(* A run's own row is written. *)
LEMMA EditTouches ==
  ASSUME DataInv, NEW r \in DOMAIN runs, runs[r].status = "STARTED", NEW row \in RunRow,
         row.cmd = runs[r].cmd, row.started = r, row.source \in 0..Len(runs),
         runs' = [runs EXCEPT ![r] = row], UNCHANGED <<discoveries, books, refusals>>
  PROVE  /\ DbTyped' /\ Dated' /\ Touches(r) /\ DOMAIN runs' = DOMAIN runs /\ runs'[r] = row
         /\ Len(runs') = Len(runs) /\ \A i \in DOMAIN runs : i # r => runs'[i] = runs[i]
         /\ \A i : /\ Found(i)' = Found(i) /\ BooksOf(i)' = BooksOf(i) /\ Answers(i)' = Answers(i)
                   /\ RefusedOf(i, Codes)' = RefusedOf(i, Codes)
                   /\ RefusedOf(i, {"failed"})' = RefusedOf(i, {"failed"})
<1>1. DbTyped /\ Dated /\ runs \in Seq(RunRow)
  BY DEF DataInv, DbTyped
<1>2. /\ runs' \in Seq(RunRow) /\ DOMAIN runs' = DOMAIN runs /\ runs'[r] = row
      /\ Len(runs') = Len(runs) /\ \A i \in DOMAIN runs : i # r => runs'[i] = runs[i]
  BY <1>1
<1>3. DbTyped'
  BY <1>1, <1>2 DEF DbTyped
<1>4. Dated'
  <2>1. ASSUME NEW i \in DOMAIN runs'
        PROVE  runs'[i].started = i /\ runs'[i].source \in 0..Len(runs')
    <3>1. CASE i = r
      BY <1>2, <3>1
    <3>2. CASE i # r
      BY <1>1, <1>2, <3>2 DEF Dated
    <3> QED
      BY <3>1, <3>2
  <2> QED
    BY <1>1, <1>2, <2>1 DEF Dated
<1>5. Touches(r)
  <2>1. Len(runs) \in Nat /\ Len(discoveries) \in Nat
    BY <1>1, NowIsNat
  <2> QED
    BY <1>2, <2>1 DEF Touches
<1>6. \A i : /\ Found(i)' = Found(i) /\ BooksOf(i)' = BooksOf(i) /\ Answers(i)' = Answers(i)
             /\ RefusedOf(i, Codes)' = RefusedOf(i, Codes)
             /\ RefusedOf(i, {"failed"})' = RefusedOf(i, {"failed"})
  BY DEF Found, BooksOf, Answers, RefusedOf
<1> QED
  BY <1>2, <1>3, <1>4, <1>5, <1>6

(* What a process is after its run. *)
LEMMA AfterRunIs ==
  ASSUME NEW p \in Procs, NEW s \in ProcState, s = proc[p], NEW ok \in BOOLEAN,
         NEW t, t = AfterRun(p, ok)
  PROVE  /\ t \in ProcState /\ Doing(t) /\ t.cmd = "none" /\ t.run = 0 /\ t.at = 0 /\ t.known = 0
         /\ t.pc \in {"idle", "research", "report"}
         /\ t.data = 0 \/ (t.data = s.data /\ s.daily /\ (ok \/ s.cmd = "research"))
<1>1. Unseen \in [Markets -> Listings \cup {NoListing}]
  BY DEF Unseen
<1>2. CASE ~s.daily
  <2>1. t = [pc |-> "idle", cmd |-> "none", daily |-> FALSE, run |-> 0, data |-> 0,
             at |-> 0, known |-> 0, seen |-> Unseen, todo |-> {}, passing |-> {}]
    BY <1>2 DEF AfterRun, Idle, Process
  <2>2. t \in ProcState
    BY <1>1, <2>1 DEF ProcState
  <2>3. t.pc = "idle" /\ t.cmd = "none" /\ t.run = 0 /\ t.data = 0 /\ t.at = 0 /\ t.known = 0
    BY <2>1
  <2>4. Doing(t)
    BY <2>3 DEF Doing, CmdsAt
  <2> QED
    BY <2>2, <2>3, <2>4
<1>3. CASE s.daily
  <2>1. PICK pc \in DailyPcs : pc = IF s.cmd = "research" THEN "report" ELSE "research"
    BY DEF DailyPcs
  <2>2. PICK data : data = IF ok \/ s.cmd = "research" THEN s.data ELSE 0
    OBVIOUS
  <2>3. t = [pc |-> pc, cmd |-> "none", daily |-> TRUE, run |-> 0, data |-> data,
             at |-> 0, known |-> 0, seen |-> Unseen, todo |-> {}, passing |-> {}]
    BY <1>3, <2>1, <2>2 DEF AfterRun, Process
  <2>4. data \in Nat
    BY <2>2 DEF ProcState
  <2>5. t \in ProcState
    BY <1>1, <2>1, <2>3, <2>4 DEF ProcState
  <2>6. t.pc = pc /\ t.cmd = "none" /\ t.daily /\ t.run = 0 /\ t.data = data /\ t.at = 0 /\ t.known = 0
    BY <2>3
  <2>7. Doing(t)
    BY <2>1, <2>6 DEF Doing, CmdsAt, DailyPcs
  <2> QED
    BY <1>3, <2>1, <2>2, <2>5, <2>6, <2>7 DEF DailyPcs
<1> QED
  BY <1>2, <1>3

(* A run ends, its row closed or left as it is. *)
LEMMA EndKeeps ==
  ASSUME DataInv, UNCHANGED <<discoveries, books, refusals>>, NEW p \in Procs,
         NEW ok \in BOOLEAN, proc' = [proc EXCEPT ![p] = AfterRun(p, ok)],
         NEW status \in {"COMPLETED", "FAILED"},
         \/ runs' = runs
         \/ proc[p].run # 0 /\ runs' = [runs EXCEPT ![proc[p].run].status = status],
         ok => proc[p].cmd \in RunCmds /\ status = "COMPLETED" /\ runs' # runs,
         status = "COMPLETED" => MayEnd(proc[p].run)
  PROVE  Kept
<1>1. PICK s \in ProcState : s = proc[p]
  BY AsItIs
<1>2. Doing(s) /\ Owns(s) /\ Gathered(s) /\ Clocked(s) /\ Daily(s)
  BY <1>1, AsItIs
<1>3. PICK t : t = AfterRun(p, ok)
  OBVIOUS
<1>4. /\ t \in ProcState /\ Doing(t) /\ t.cmd = "none" /\ t.run = 0 /\ t.at = 0 /\ t.known = 0
      /\ t.pc \in {"idle", "research", "report"}
      /\ t.data = 0 \/ (t.data = s.data /\ s.daily /\ (ok \/ s.cmd = "research"))
  BY <1>1, <1>3, AfterRunIs
<1>5. Owns(t) /\ Gathered(t) /\ Owns(t)' /\ Gathered(t)'
  BY <1>4 DEF Owns, Gathered, RunCmds, BookCmds
<1>6. DbTyped /\ Dated /\ \A i \in DOMAIN runs : Sourced(i) /\ Whole(i)
  BY DEF DataInv
<1>7. CASE runs' = runs
  <2>1. Clocked(t)
    BY <1>4, <1>6, NowIsNat DEF Clocked
  <2>2. Daily(t)
    BY <1>2, <1>4, <1>7 DEF Daily, RunCmds
  <2>3. Fit(t)
    BY <1>4, <1>5, <2>1, <2>2 DEF Fit
  <2> QED
    BY <1>3, <1>4, <1>7, <2>3, QuietKeeps
<1>8. CASE runs' # runs
  <2>1. PICK r : r = s.run
    OBVIOUS
  <2>2. r # 0 /\ r \in DOMAIN runs /\ runs[r].cmd = s.cmd /\ runs[r].status = "STARTED" /\ s.cmd \in RunCmds
    BY <1>1, <1>2, <1>8, <2>1 DEF Owns
  <2>3. PICK row : row = [runs[r] EXCEPT !.status = status]
    OBVIOUS
  <2>4. runs[r] \in RunRow /\ runs[r].started = r /\ runs[r].source \in 0..Len(runs)
    BY <1>6, <2>2 DEF DbTyped, Dated
  <2>5. row \in RunRow /\ row.cmd = runs[r].cmd /\ row.started = r /\ row.source = runs[r].source
        /\ row.status = status
    BY <2>3, <2>4 DEF RunRow
  <2>6. runs' = [runs EXCEPT ![r] = row]
    BY <1>1, <1>8, <2>1, <2>3
  <2>7. /\ DbTyped' /\ Dated' /\ Touches(r) /\ DOMAIN runs' = DOMAIN runs /\ runs'[r] = row
        /\ Len(runs') = Len(runs) /\ \A i \in DOMAIN runs : i # r => runs'[i] = runs[i]
        /\ \A i : /\ Found(i)' = Found(i) /\ BooksOf(i)' = BooksOf(i) /\ Answers(i)' = Answers(i)
                  /\ RefusedOf(i, Codes)' = RefusedOf(i, Codes)
                  /\ RefusedOf(i, {"failed"})' = RefusedOf(i, {"failed"})
    BY <2>2, <2>4, <2>5, <2>6, EditTouches
  <2>8. Clocked(t)'
    BY <1>4, <2>7, NowIsNat DEF Clocked, DataInv
  <2>9. Daily(t)'
    <3> SUFFICES ASSUME t.data # 0
                 PROVE  t.data \in DOMAIN runs' /\ runs'[t.data].cmd = "run-data"
                        /\ runs'[t.data].status = "COMPLETED"
      BY <1>4 DEF Daily, RunCmds
    <3>1. t.data = s.data /\ s.daily /\ (ok \/ s.cmd = "research")
      BY <1>4
    <3>2. CASE s.cmd = "research"
      <4>1. s.data \in DOMAIN runs /\ runs[s.data].cmd = "run-data" /\ runs[s.data].status = "COMPLETED"
        BY <1>2, <3>1, <3>2 DEF Daily
      <4>2. s.data # r
        BY <2>2, <4>1
      <4> QED
        BY <2>7, <3>1, <4>1, <4>2
    <3>3. CASE s.cmd # "research"
      <4>1. s.cmd = "run-data" /\ s.data = r
        BY <1>2, <2>1, <2>2, <3>1, <3>3 DEF Daily
      <4> QED
        BY <2>2, <2>5, <2>7, <3>1, <3>3, <4>1
    <3> QED
      BY <3>2, <3>3
  <2>10. Fit(t)'
    BY <1>4, <1>5, <2>8, <2>9 DEF Fit, Doing
  <2>11. Sourced(r)'
    <3>1. Sourced(r) /\ runs[r].source # 0 => runs[r].source # r
      BY <2>2 DEF Sourced
    <3>2. Sourced(r)
      BY <1>6, <2>2
    <3>3. runs[r].source # 0 => runs[r].source \in DOMAIN runs
      BY <1>6, <2>4 DEF DbTyped
    <3> QED
      BY <2>5, <2>7, <3>1, <3>2, <3>3 DEF Sourced
  <2>12. Whole(r)'
    <3> SUFFICES ASSUME status = "COMPLETED", s.cmd \in BookCmds PROVE Whole(r)'
      BY <2>2, <2>5, <2>7 DEF Whole
    <3> DEFINE src == IF runs[r].cmd = "snapshot" THEN runs[r].source ELSE r
    <3>1. PICK k : k = src
      OBVIOUS
    <3>2. SourceOf(r) = k /\ SourceOf(r)' = k
      BY <2>5, <2>7, <3>1 DEF SourceOf
    <3>3. /\ k # 0 /\ (k # r => runs[k].status = "COMPLETED") /\ Both(Found(k)) = Answers(r)
          /\ Answers(r) # {} => /\ BooksOf(r) # {}
                                /\ Cardinality(RefusedOf(r, {"failed"})) * FailureShare
                                     < Cardinality(Answers(r))
      BY <1>1, <2>1, <2>2, <3>2 DEF MayEnd
    <3>4. k \in DOMAIN runs /\ runs'[k].status = "COMPLETED"
      <4>1. k \in DOMAIN runs
        BY <1>6, <2>2, <2>4, <3>1, <3>3 DEF DbTyped
      <4> QED
        BY <2>5, <2>7, <3>3, <4>1
    <3>5. Both(Found(SourceOf(r)))' = Both(Found(k))
      BY <2>7, <3>2 DEF Both
    <3>6. Both(Found(SourceOf(r)))' = Answers(r)'
      BY <2>7, <3>3, <3>5
    <3>7. Answers(r)' # {} => /\ BooksOf(r)' # {}
                              /\ Cardinality(RefusedOf(r, {"failed"})') * FailureShare
                                   < Cardinality(Answers(r)')
      <4>1. Answers(r)' = Answers(r) /\ BooksOf(r)' = BooksOf(r)
            /\ RefusedOf(r, {"failed"})' = RefusedOf(r, {"failed"})
        BY <2>7
      <4> QED
        BY ONLY <3>3, <4>1
    <3> QED
      BY <3>2, <3>3, <3>4, <3>6, <3>7 DEF Whole
  <2>13. \A i \in DOMAIN runs' : i = r \/ i \notin DOMAIN runs => Sourced(i)' /\ Whole(i)'
    BY <2>7, <2>11, <2>12
  <2> QED
    BY <1>1, <1>3, <1>4, <2>1, <2>7, <2>10, <2>13, StepKeeps
<1> QED
  BY <1>7, <1>8

(* The ends of a run: a request that fails, a check that raises, and the   *)
(* last step.                                                              *)
LEMMA FailFetchKeeps ==
  ASSUME DataInv, NEW p \in Procs, FailFetch(p)
  PROVE  Kept
<1>1. /\ proc' = [proc EXCEPT ![p] = AfterRun(p, FALSE)]
      /\ runs' = runs \/ (proc[p].run # 0 /\ runs' = [runs EXCEPT ![proc[p].run].status = "FAILED"])
      /\ UNCHANGED <<discoveries, books, refusals>>
  BY DEF FailFetch, Conclude, Become, bookVars
<1> QED
  BY <1>1, EndKeeps

LEMMA RaiseKeeps ==
  ASSUME DataInv, NEW p \in Procs, Raise(p)
  PROVE  Kept
<1>1. Owns(proc[p])
  BY AsItIs
<1>2. DbTyped
  BY DEF DataInv
<1>3. proc[p].cmd = "research" => proc[p].run # 0
  BY <1>1, <1>2 DEF Owns, RunCmds, DbTyped
<1>4. /\ proc' = [proc EXCEPT ![p] = AfterRun(p, FALSE)]
      /\ runs' = runs \/ (proc[p].run # 0 /\ runs' = [runs EXCEPT ![proc[p].run].status = "FAILED"])
      /\ UNCHANGED <<discoveries, books, refusals>>
  BY <1>3 DEF Raise, Become, AfterError, bookVars
<1> QED
  BY <1>4, EndKeeps

(* No outage, and an answer for every book: the run may be completed. *)
LEMMA NoOutage ==
  ASSUME DbTyped, NEW r, ~BookOutage(r), BooksOf(r) \cap RefusedOf(r, Codes) = {}, Answers(r) # {}
  PROVE  /\ BooksOf(r) # {}
         /\ Cardinality(RefusedOf(r, {"failed"})) * FailureShare < Cardinality(Answers(r))
<1>1. IsFiniteSet(Both(Markets))
  <2>1. IsFiniteSet({"YES", "NO"})
    <3>1. IsFiniteSet({}) /\ IsFiniteSet({} \cup {"NO"})
      BY FS_EmptySet, FS_AddElement
    <3>2. IsFiniteSet(({} \cup {"NO"}) \cup {"YES"})
      BY <3>1, FS_AddElement
    <3>3. ({} \cup {"NO"}) \cup {"YES"} = {"YES", "NO"}
      OBVIOUS
    <3> QED
      BY <3>2, <3>3
  <2> QED
    BY <2>1, CollectionAssumption, FS_Product DEF Both
<1>2. PICK stored : stored = BooksOf(r)
  OBVIOUS
<1>3. PICK refused : refused = RefusedOf(r, {"failed", "unusable"})
  OBVIOUS
<1>4. PICK failed : failed = RefusedOf(r, {"failed"})
  OBVIOUS
<1>5. stored \subseteq Both(Markets)
  BY <1>2 DEF BooksOf, DbTyped
<1>6. refused \subseteq Both(Markets) /\ failed \subseteq Both(Markets)
  BY <1>3, <1>4 DEF RefusedOf, DbTyped
<1>7. IsFiniteSet(stored) /\ IsFiniteSet(refused) /\ IsFiniteSet(failed)
  BY <1>1, <1>5, <1>6, FS_Subset
<1>8. Answers(r) = stored \cup refused /\ stored \cap refused = {}
  BY <1>2, <1>3 DEF Answers, Codes
<1>9. Cardinality(stored \cup refused) = Cardinality(stored) + Cardinality(refused)
  <2>1. Cardinality(stored \cup refused)
          = Cardinality(stored) + Cardinality(refused) - Cardinality(stored \cap refused)
    BY <1>7, FS_Union
  <2>2. Cardinality(stored \cap refused) = 0
    BY <1>8, FS_EmptySet
  <2>3. Cardinality(stored) \in Nat /\ Cardinality(refused) \in Nat
    BY <1>7, FS_CardinalityType
  <2> QED
    BY <2>1, <2>2, <2>3
<1>10. PICK m \in Nat : m = Cardinality(stored)
  BY <1>7, FS_CardinalityType
<1>11. PICK n \in Nat : n = Cardinality(refused)
  BY <1>7, FS_CardinalityType
<1>12. PICK f \in Nat : f = Cardinality(failed)
  BY <1>7, FS_CardinalityType
<1>13. PICK x \in Int : x = f * FailureShare
  BY CollectionAssumption
<1>14. m + n # 0
  <2>1. IsFiniteSet(stored \cup refused)
    BY <1>7, FS_Union
  <2> QED
    BY <1>8, <1>9, <1>10, <1>11, <2>1, FS_EmptySet
<1>15. ~(m + n > 0 /\ (m = 0 \/ x >= m + n))
  BY <1>2, <1>3, <1>4, <1>10, <1>11, <1>12, <1>13 DEF BookOutage
<1>16. m # 0 /\ x < m + n
  BY <1>14, <1>15
<1>17. stored # {}
  BY <1>10, <1>16, FS_EmptySet
<1> QED
  BY <1>2, <1>4, <1>8, <1>9, <1>10, <1>11, <1>12, <1>13, <1>16, <1>17

LEMMA FinishKeeps ==
  ASSUME DataInv, NEW p \in Procs, Finish(p)
  PROVE  Kept
<1>1. PICK s \in ProcState : s = proc[p]
  BY AsItIs
<1>2. Doing(s) /\ Owns(s) /\ Gathered(s) /\ s.pc = "finish"
  BY <1>1, AsItIs DEF Finish
<1>3. DbTyped /\ Dated /\ \A i \in DOMAIN runs : Sourced(i)
  BY DEF DataInv
<1>4. PICK r : r = s.run
  OBVIOUS
<1>5. s.cmd \in RunCmds /\ r \in DOMAIN runs /\ r # 0 /\ runs[r].cmd = s.cmd
      /\ runs[r].status = "STARTED"
  <2>1. s.cmd \in RunCmds
    BY <1>2 DEF Doing, CmdsAt
  <2> QED
    BY <1>2, <1>3, <1>4, <2>1 DEF Owns, DbTyped
<1>6. PICK status \in {"COMPLETED", "FAILED"} :
        status = IF \/ s.cmd = "snapshot" /\ runs[r].source = 0
                    \/ s.cmd \in {"snapshot", "run-data"} /\ BookOutage(r)
                 THEN "FAILED" ELSE "COMPLETED"
  OBVIOUS
<1>7. PICK ok \in BOOLEAN : ok = (status = "COMPLETED")
  OBVIOUS
<1>8. Conclude(p, status)
  BY <1>1, <1>4, <1>6 DEF Finish
<1>9. runs' = [runs EXCEPT ![r].status = status]
  BY <1>1, <1>4, <1>5, <1>8 DEF Conclude
<1>10. ok => runs' # runs
  <2>1. PICK row : row = [runs[r] EXCEPT !.status = status]
    OBVIOUS
  <2>2. runs[r] \in RunRow
    BY <1>3, <1>5 DEF DbTyped
  <2>3. row.status = status
    BY <2>1, <2>2 DEF RunRow
  <2>4. runs'[r] = row
    BY <1>3, <1>5, <1>9, <2>1 DEF DbTyped
  <2> QED
    BY <1>5, <1>7, <2>3, <2>4
<1>11. status = "COMPLETED" => MayEnd(r)
  <2> SUFFICES ASSUME status = "COMPLETED", s.cmd \in BookCmds PROVE MayEnd(r)
    BY <1>5 DEF MayEnd
  <2>1. s.cmd = "snapshot" => runs[r].source # 0
    BY <1>6
  <2>2. ~BookOutage(r)
    BY <1>6 DEF BookCmds
  <2>3. Answers(r) = Both(Found(SourceOf(r))) /\ BooksOf(r) \cap RefusedOf(r, Codes) = {}
    BY <1>2, <1>4 DEF Gathered
  <2>4. SourceOf(r) # 0 /\ (SourceOf(r) # r => runs[SourceOf(r)].status = "COMPLETED")
    BY <1>3, <1>5, <2>1 DEF SourceOf, Sourced
  <2>5. Answers(r) # {} => /\ BooksOf(r) # {}
                           /\ Cardinality(RefusedOf(r, {"failed"})) * FailureShare
                                < Cardinality(Answers(r))
    BY <1>3, <2>2, <2>3, NoOutage
  <2> QED
    BY <2>3, <2>4, <2>5 DEF MayEnd
<1>12. proc' = [proc EXCEPT ![p] = AfterRun(p, ok)]
  BY <1>7, <1>8 DEF Conclude, Become
<1>13. UNCHANGED <<discoveries, books, refusals>>
  BY <1>8 DEF Conclude, bookVars
<1>14. \/ runs' = runs
       \/ proc[p].run # 0 /\ runs' = [runs EXCEPT ![proc[p].run].status = status]
  BY <1>1, <1>4, <1>5, <1>9
<1>15. ok => proc[p].cmd \in RunCmds /\ status = "COMPLETED" /\ runs' # runs
  BY <1>1, <1>5, <1>7, <1>10
<1>16. status = "COMPLETED" => MayEnd(proc[p].run)
  BY <1>1, <1>4, <1>11
<1> QED
  BY <1>12, <1>13, <1>14, <1>15, <1>16, EndKeeps

(* The latest discovery is complete, and none complete began later. *)
LEMMA LatestIs ==
  ASSUME DbTyped, Dated
  PROVE  /\ Latest \in Nat
         /\ Latest # 0 => Latest \in DOMAIN runs /\ runs[Latest].status = "COMPLETED"
         /\ \A r \in Discovering : runs[r].status = "COMPLETED" => r <= Latest
<1> DEFINE D == {r \in Discovering : runs[r].status = "COMPLETED"}
<1> DEFINE f == [r \in D |-> runs[r].started]
<1>1. PICK n \in Nat : n = Len(runs) /\ DOMAIN runs = 1..n
  BY DEF DbTyped
<1>2. D \in SUBSET (1..n)
  BY <1>1 DEF Discovering
<1>3. \A r \in D : f[r] = r
  BY DEF Dated, Discovering
<1>4. \A r \in D : f[r] \in Int
  BY <1>2, <1>3
<1>5. Latest = Max({0} \cup {r \in D : \A q \in D : f[q] <= f[r]})
  BY DEF Latest, Last
<1> HIDE DEF f
<1>6. /\ Latest \in {0} \cup D
      /\ D # {} => Latest \in D /\ \A q \in D : f[q] <= f[Latest]
  <2> HIDE DEF D
  <2>1. PICK rs \in SUBSET (1..n) : rs = D
    BY <1>2
  <2>2. PICK g : g = f
    OBVIOUS
  <2>3. g \in [rs -> Int]
    BY <1>4, <2>1, <2>2 DEF f
  <2>4. /\ LastBy(rs, g) \in {0} \cup rs
        /\ rs # {} => LastBy(rs, g) \in rs /\ \A q \in rs : g[q] <= g[LastBy(rs, g)]
    BY <2>3, LastIs
  <2>5. Latest = LastBy(rs, g)
    BY <1>5, <2>1, <2>2 DEF LastBy
  <2> QED
    BY <2>1, <2>2, <2>4, <2>5
<1>7. ASSUME NEW q \in D PROVE q <= Latest
  BY <1>3, <1>6, <1>7
<1>8. Latest \in D => Latest \in DOMAIN runs /\ runs[Latest].status = "COMPLETED"
  BY DEF Discovering
<1> QED
  BY <1>1, <1>2, <1>6, <1>7, <1>8

(* The latest completed run of the commands asked for is a run to draw on. *)
LEMMA ChooseKeeps ==
  ASSUME DataInv, NEW p \in Procs, Choose(p)
  PROVE  Kept
<1>1. PICK s \in ProcState : s = proc[p]
  BY AsItIs
<1>2. Doing(s) /\ Owns(s) /\ Gathered(s) /\ Daily(s) /\ s.pc = "choose"
  BY <1>1, AsItIs DEF Choose
<1>3. s.cmd \in {"snapshot", "research"} /\ s.cmd \in RunCmds
  BY <1>2 DEF Doing, CmdsAt, RunCmds
<1>4. DbTyped /\ Dated /\ \A i \in DOMAIN runs : Sourced(i) /\ Whole(i)
  BY DEF DataInv
<1>5. PICK r : r = s.run
  OBVIOUS
<1>6. r \in DOMAIN runs /\ r # 0 /\ runs[r].cmd = s.cmd /\ runs[r].status = "STARTED"
  BY <1>2, <1>3, <1>4, <1>5 DEF Owns, DbTyped
<1>7. PICK k \in Nat : k = Latest
  BY <1>4, LatestIs
<1>8. k # 0 => k \in DOMAIN runs /\ runs[k].status = "COMPLETED"
  BY <1>4, <1>7, LatestIs
<1>9. PICK row : row = [runs[r] EXCEPT !.source = k]
  OBVIOUS
<1>10. runs[r] \in RunRow /\ runs[r].started = r /\ k \in 0..Len(runs)
  BY <1>4, <1>6, <1>8, NowIsNat DEF DbTyped, Dated
<1>11. row \in RunRow /\ row.cmd = runs[r].cmd /\ row.started = r /\ row.source = k
       /\ row.status = "STARTED"
  BY <1>6, <1>9, <1>10 DEF RunRow
<1>12. runs' = [runs EXCEPT ![r] = row] /\ UNCHANGED <<discoveries, books, refusals>>
  BY <1>1, <1>5, <1>7, <1>9 DEF Choose, bookVars
<1>13. /\ DbTyped' /\ Dated' /\ Touches(r) /\ DOMAIN runs' = DOMAIN runs /\ runs'[r] = row
       /\ Len(runs') = Len(runs) /\ \A i \in DOMAIN runs : i # r => runs'[i] = runs[i]
       /\ \A i : /\ Found(i)' = Found(i) /\ BooksOf(i)' = BooksOf(i) /\ Answers(i)' = Answers(i)
                 /\ RefusedOf(i, Codes)' = RefusedOf(i, Codes)
                 /\ RefusedOf(i, {"failed"})' = RefusedOf(i, {"failed"})
  BY <1>6, <1>10, <1>11, <1>12, EditTouches
<1>14. PICK found : found = Found(k)
  OBVIOUS
<1>15. found \in SUBSET Markets
  <2>1. \A i \in DOMAIN discoveries : discoveries[i] \in DiscoveryRow
    BY <1>4 DEF DbTyped
  <2>2. \A i \in DOMAIN discoveries : discoveries[i].market \in Markets
    BY <2>1 DEF DiscoveryRow
  <2> QED
    BY <1>14, <2>2, FoundIs
<1>16. PICK t : t = WithBooks(p, found)
  OBVIOUS
<1>17. /\ t \in ProcState /\ Doing(t)
       /\ t.cmd = s.cmd /\ t.run = r /\ t.daily = s.daily
       /\ t.data = s.data /\ t.at = 0 /\ t.known = 0
       /\ t.pc \in {"book", "poll", "finish"}
       /\ t.pc = "book" => t.cmd \in BookCmds /\ t.todo = Both(found)
       /\ t.pc # "book" /\ t.cmd \in BookCmds => Both(found) = {}
  BY <1>1, <1>3, <1>5, <1>15, <1>16, WithBooksIs
<1>18. Owns(t)'
  BY <1>3, <1>6, <1>11, <1>13, <1>17 DEF Owns
<1>19. Gathered(t)'
  <2>1. s.cmd \in BookCmds => s.cmd = "snapshot"
    BY <1>3 DEF BookCmds
  <2>2. s.cmd \in BookCmds => Answers(r) = {} /\ BooksOf(r) \cap RefusedOf(r, Codes) = {}
    BY <1>2, <1>5 DEF Gathered
  <2>3. s.cmd \in BookCmds => SourceOf(r)' = k
    BY <1>6, <1>11, <1>13, <2>1 DEF SourceOf
  <2>4. Found(k)' = found
    BY <1>13, <1>14
  <2>5. s.cmd \in BookCmds => Both(Found(SourceOf(r)))' = Both(found)
    BY <2>3, <2>4 DEF Both, Found
  <2>6. Answers(r)' = Answers(r) /\ BooksOf(r)' = BooksOf(r)
        /\ RefusedOf(r, Codes)' = RefusedOf(r, Codes)
    BY <1>13
  <2> QED
    BY <1>17, <2>2, <2>5, <2>6 DEF Gathered
<1>20. Clocked(t)'
  BY <1>4, <1>13, <1>17, NowIsNat DEF Clocked
<1>21. Daily(t)'
  <2> SUFFICES ASSUME s.daily PROVE Daily(t)'
    BY <1>17 DEF Daily
  <2>1. s.cmd = "research"
    BY <1>2, <1>3 DEF Daily
  <2>2. s.data # 0 /\ s.data \in DOMAIN runs /\ runs[s.data].cmd = "run-data"
        /\ runs[s.data].status = "COMPLETED"
    BY <1>2, <2>1 DEF Daily
  <2>3. s.data <= k
    BY <1>4, <1>7, <2>2, LatestIs DEF Discovering
  <2>4. s.data # r /\ runs'[s.data] = runs[s.data] /\ s.data \in DOMAIN runs'
    BY <1>6, <1>13, <2>2
  <2>5. runs'[r].source >= s.data
    BY <1>7, <1>11, <1>13, <2>3 DEF ProcState
  <2> QED
    BY <1>17, <2>1, <2>2, <2>4, <2>5 DEF Daily
<1>22. Fit(t)'
  BY <1>17, <1>18, <1>19, <1>20, <1>21 DEF Fit, Doing
<1>23. Sourced(r)' /\ Whole(r)'
  <2>1. k # 0 => k # r
    BY <1>6, <1>8
  <2> QED
    BY <1>8, <1>11, <1>13, <2>1 DEF Sourced, Whole
<1>24. proc' = [proc EXCEPT ![p] = t]
  BY <1>7, <1>14, <1>16 DEF Choose, Become
<1>25. \A i \in DOMAIN runs' : i = r \/ i \notin DOMAIN runs => Sourced(i)' /\ Whole(i)'
  BY <1>13, <1>23
<1> QED
  BY <1>1, <1>5, <1>13, <1>17, <1>22, <1>24, <1>25, StepKeeps

-----------------------------------------------------------------------------
(* The steps that store what was found or answered. *)

(* The fee row that is taken is the last observed of those that qualify. *)
LEMMA LastObservedIs ==
  ASSUME DbTyped, NEW rows \in SUBSET DOMAIN discoveries
  PROVE  /\ LastObserved(rows) \in {0} \cup rows
         /\ rows # {} => /\ LastObserved(rows) \in rows
                         /\ \A q \in rows :
                              discoveries[q].observed <= discoveries[LastObserved(rows)].observed
<1>1. PICK n \in Nat : n = Len(discoveries) /\ DOMAIN discoveries = 1..n
  BY DEF DbTyped
<1>2. \A i \in DOMAIN discoveries : discoveries[i] \in DiscoveryRow
  BY DEF DbTyped
<1>3. \A i \in DOMAIN discoveries : discoveries[i].observed \in Int
  BY <1>2 DEF DiscoveryRow
<1>4. PICK f : f = [i \in rows |-> discoveries[i].observed]
  OBVIOUS
<1>5. f \in [rows -> Int] /\ \A i \in rows : f[i] = discoveries[i].observed
  BY <1>3, <1>4
<1>6. rows \in SUBSET (1..n)
  BY <1>1
<1>7. /\ LastBy(rows, f) \in {0} \cup rows
      /\ rows # {} => LastBy(rows, f) \in rows /\ \A q \in rows : f[q] <= f[LastBy(rows, f)]
  BY <1>5, <1>6, LastIs
<1>8. LastObserved(rows) = LastBy(rows, f)
  BY <1>5 DEF LastObserved, LastBy
<1> QED
  BY <1>5, <1>7, <1>8

(* One more answer for a book that a process still had to ask for. *)
LEMMA AnswerKeeps ==
  ASSUME DataInv, NEW p \in Procs, proc[p].pc \in {"book", "insert"},
         NEW b \in proc[p].todo, NextBook(p, proc[p].todo \ {b}), UNCHANGED <<runs, discoveries>>,
         \/ /\ \E k \in 0..Len(discoveries) :
                 books' = books \cup {[run |-> proc[p].run, book |-> b, basis |-> k]}
            /\ refusals' = refusals
         \/ /\ \E code \in Codes : refusals' = refusals \cup {<<proc[p].run, b, code>>}
            /\ books' = books
  PROVE  Kept
<1>1. PICK s \in ProcState : s = proc[p]
  BY AsItIs
<1>2. Doing(s) /\ Owns(s) /\ Gathered(s) /\ Daily(s) /\ s.pc \in {"book", "insert"}
  BY <1>1, AsItIs
<1>3. DbTyped /\ Dated /\ \A i \in DOMAIN runs : Sourced(i) /\ Whole(i)
  BY DEF DataInv
<1>4. PICK r : r = s.run
  OBVIOUS
<1>5. s.cmd \in BookCmds /\ s.cmd \in RunCmds /\ b \in Both(Markets) /\ b \in s.todo
  BY <1>1, <1>2 DEF Doing, CmdsAt, BookCmds, RunCmds
<1>6. r \in DOMAIN runs /\ r # 0 /\ r \in Nat /\ runs[r].cmd = s.cmd /\ runs[r].status = "STARTED"
  BY <1>2, <1>3, <1>4, <1>5 DEF Owns, DbTyped
<1>7. DbTyped' /\ Dated' /\ Touches(r)
  <2>1. Len(runs) \in Nat /\ Len(discoveries) \in Nat
    BY <1>3, NowIsNat
  <2>2. CASE /\ \E k \in 0..Len(discoveries) :
                  books' = books \cup {[run |-> proc[p].run, book |-> b, basis |-> k]}
             /\ refusals' = refusals
    <3>1. PICK k \in 0..Len(discoveries) :
            books' = books \cup {[run |-> r, book |-> b, basis |-> k]}
      BY <1>1, <1>4, <2>2
    <3>2. k \in Nat
      BY <2>1
    <3>3. DbTyped'
      BY <1>3, <1>5, <1>6, <2>2, <3>1, <3>2 DEF DbTyped
    <3>4. Dated'
      BY <1>3, <1>6, <2>2, <3>1 DEF Dated
    <3>5. Touches(r)
      BY <1>6, <2>1, <2>2, <3>1 DEF Touches
    <3> QED
      BY <3>3, <3>4, <3>5
  <2>3. CASE /\ \E code \in Codes : refusals' = refusals \cup {<<proc[p].run, b, code>>}
             /\ books' = books
    <3>1. PICK code \in Codes : refusals' = refusals \cup {<<r, b, code>>}
      BY <1>1, <1>4, <2>3
    <3>2. DbTyped'
      BY <1>3, <1>5, <1>6, <2>3, <3>1 DEF DbTyped
    <3>3. Dated'
      BY <1>3, <1>6, <2>3, <3>1 DEF Dated
    <3>4. Touches(r)
      BY <1>6, <2>1, <2>3, <3>1 DEF Touches
    <3> QED
      BY <3>2, <3>3, <3>4
  <2> QED
    BY <2>2, <2>3
<1>8. \/ BooksOf(r)' = BooksOf(r) \cup {b} /\ RefusedOf(r, Codes)' = RefusedOf(r, Codes)
      \/ BooksOf(r)' = BooksOf(r) /\ RefusedOf(r, Codes)' = RefusedOf(r, Codes) \cup {b}
  <2>1. CASE /\ \E k \in 0..Len(discoveries) :
                  books' = books \cup {[run |-> proc[p].run, book |-> b, basis |-> k]}
             /\ refusals' = refusals
    <3>1. PICK k \in 0..Len(discoveries) :
            books' = books \cup {[run |-> r, book |-> b, basis |-> k]}
      BY <1>1, <1>4, <2>1
    <3>2. PICK new : new = [run |-> r, book |-> b, basis |-> k]
      OBVIOUS
    <3>3. new.run = r /\ new.book = b /\ books' = books \cup {new}
      BY <3>1, <3>2
    <3>4. \A x : x \in BooksOf(r)' <=> \E v \in books' : v.run = r /\ v.book = x
      BY DEF BooksOf
    <3>5. \A x : x \in BooksOf(r) <=> \E v \in books : v.run = r /\ v.book = x
      BY DEF BooksOf
    <3>6. \A x : x \in BooksOf(r)' <=> x \in BooksOf(r) \cup {b}
      BY ONLY <3>3, <3>4, <3>5
    <3>7. BooksOf(r)' = BooksOf(r) \cup {b}
      BY ONLY <3>6
    <3> QED
      BY <2>1, <3>7 DEF RefusedOf
  <2>2. CASE /\ \E code \in Codes : refusals' = refusals \cup {<<proc[p].run, b, code>>}
             /\ books' = books
    <3>1. PICK code \in Codes : refusals' = refusals \cup {<<r, b, code>>}
      BY <1>1, <1>4, <2>2
    <3>2. \A x : x \in RefusedOf(r, Codes)' <=> \E v \in refusals' : v[1] = r /\ v[3] \in Codes /\ v[2] = x
      BY DEF RefusedOf
    <3>3. \A x : x \in RefusedOf(r, Codes) <=> \E v \in refusals : v[1] = r /\ v[3] \in Codes /\ v[2] = x
      BY DEF RefusedOf
    <3>4. PICK new : new = <<r, b, code>>
      OBVIOUS
    <3>5. new[1] = r /\ new[2] = b /\ new[3] \in Codes /\ refusals' = refusals \cup {new}
      BY <3>1, <3>4
    <3>6. \A x : x \in RefusedOf(r, Codes)' <=> x \in RefusedOf(r, Codes) \cup {b}
      BY ONLY <3>2, <3>3, <3>5
    <3>7. RefusedOf(r, Codes)' = RefusedOf(r, Codes) \cup {b}
      BY ONLY <3>6
    <3> QED
      BY <2>2, <3>7 DEF BooksOf
  <2> QED
    BY <2>1, <2>2
<1>9. Answers(r)' = Answers(r) \cup {b}
  BY <1>8 DEF Answers
<1>10. PICK src : src = SourceOf(r)
  OBVIOUS
<1>11. SourceOf(r)' = src /\ Found(src)' = Found(src)
  BY <1>10 DEF SourceOf, Found
<1>12. PICK wanted : wanted = Both(Found(src))
  OBVIOUS
<1>13. Both(Found(SourceOf(r)))' = wanted
  BY <1>11, <1>12 DEF Both, Found
<1>14. /\ Answers(r) \cup s.todo = wanted /\ Answers(r) \cap s.todo = {}
       /\ BooksOf(r) \cap RefusedOf(r, Codes) = {}
  BY <1>2, <1>4, <1>5, <1>10, <1>12 DEF Gathered
<1>15. BooksOf(r)' \cap RefusedOf(r, Codes)' = {}
  <2>1. b \notin BooksOf(r) /\ b \notin RefusedOf(r, Codes)
    BY <1>5, <1>14 DEF Answers
  <2> QED
    BY ONLY <1>8, <1>14, <2>1
<1>16. PICK left : left = s.todo \ {b}
  OBVIOUS
<1>17. Answers(r)' \cup left = wanted /\ Answers(r)' \cap left = {}
  BY <1>5, <1>9, <1>14, <1>16
<1>18. PICK t : t = IF left = {} THEN WithBooks(p, {})
                    ELSE [s EXCEPT !.pc = "book", !.at = 0, !.known = 0, !.todo = left]
  OBVIOUS
<1>19. /\ t \in ProcState /\ Doing(t) /\ t.cmd = s.cmd /\ t.run = r /\ t.daily = s.daily
       /\ t.data = s.data /\ t.at = 0 /\ t.known = 0 /\ t.pc \in {"book", "poll", "finish"}
       /\ t.pc = "book" => t.todo = left
       /\ t.pc # "book" => left = {}
  <2>1. CASE left = {}
    <3>1. /\ t \in ProcState /\ Doing(t) /\ t.cmd = s.cmd /\ t.run = r /\ t.daily = s.daily
          /\ t.data = s.data /\ t.at = 0 /\ t.known = 0 /\ t.pc \in {"book", "poll", "finish"}
          /\ t.pc = "book" => t.todo = Both({})
      BY <1>1, <1>4, <1>5, <1>18, <2>1, WithBooksIs
    <3>2. t.pc # "book"
      BY <3>1 DEF Doing, Both
    <3> QED
      BY <2>1, <3>1, <3>2
  <2>2. CASE left # {}
    <3>1. t = [s EXCEPT !.pc = "book", !.at = 0, !.known = 0, !.todo = left]
      BY <1>18, <2>2
    <3>2. left \subseteq Both(Markets)
      BY <1>2, <1>16 DEF Doing
    <3>3. t \in ProcState
      BY <3>1, <3>2 DEF ProcState, DataPcs
    <3>4. t.pc = "book" /\ t.todo = left /\ t.cmd = s.cmd /\ t.run = s.run
          /\ t.daily = s.daily /\ t.data = s.data /\ t.at = 0 /\ t.known = 0
      BY <3>1 DEF ProcState
    <3>5. Doing(t)
      BY <1>5, <2>2, <3>2, <3>4 DEF Doing, CmdsAt
    <3> QED
      BY <1>4, <3>3, <3>4, <3>5
  <2> QED
    BY <2>1, <2>2
<1>20. Owns(t)'
  BY <1>5, <1>6, <1>19 DEF Owns
<1>21. Gathered(t)'
  <2>1. t.pc = "book" => /\ Answers(t.run)' \cup t.todo = Both(Found(SourceOf(t.run)))'
                         /\ Answers(t.run)' \cap t.todo = {}
    BY <1>13, <1>17, <1>19
  <2>2. t.pc # "book" => Answers(t.run)' = Both(Found(SourceOf(t.run)))'
    BY <1>13, <1>17, <1>19
  <2> QED
    BY <1>15, <1>19, <2>1, <2>2 DEF Gathered
<1>22. Clocked(t)'
  BY <1>3, <1>19, NowIsNat DEF Clocked
<1>23. Daily(t)'
  BY <1>2, <1>4, <1>5, <1>19 DEF Daily, BookCmds
<1>24. Fit(t)'
  BY <1>19, <1>20, <1>21, <1>22, <1>23 DEF Fit, Doing
<1>25. \A i \in DOMAIN runs' : i = r \/ i \notin DOMAIN runs => Sourced(i)' /\ Whole(i)'
  BY <1>3, <1>6 DEF Sourced, Whole
<1>26. proc' = [proc EXCEPT ![p] = t]
  BY <1>1, <1>16, <1>18 DEF NextBook, Become
<1> QED
  BY <1>1, <1>4, <1>7, <1>19, <1>24, <1>25, <1>26, StepKeeps

(* A book is refused or stored once, and is then no longer to do.          *)
LEMMA RefuseBookKeeps ==
  ASSUME DataInv, NEW p \in Procs, RefuseBook(p)
  PROVE  Kept
<1>1. proc[p].pc \in {"book", "insert"} /\ proc[p].todo # {}
  BY AsItIs DEF RefuseBook, Doing
<1>2. PICK b \in proc[p].todo : b = OneOf(proc[p].todo)
  BY <1>1 DEF OneOf
<1>3. /\ \E code \in Codes : refusals' = refusals \cup {<<proc[p].run, b, code>>}
      /\ NextBook(p, proc[p].todo \ {b})
  BY <1>2 DEF RefuseBook, RefusalRun, Codes
<1>4. UNCHANGED <<runs, discoveries, books>>
  BY DEF RefuseBook
<1> QED
  BY <1>1, <1>3, <1>4, AnswerKeeps

LEMMA InsertBookKeeps ==
  ASSUME DataInv, NEW p \in Procs, InsertBook(p)
  PROVE  Kept
<1>1. proc[p].pc \in {"book", "insert"} /\ proc[p].todo # {}
  BY AsItIs DEF InsertBook, Doing
<1>2. PICK b \in proc[p].todo : b = OneOf(proc[p].todo)
  BY <1>1 DEF OneOf
<1>3. PICK k : k = FeeInForce(b[1], proc[p].at)
  OBVIOUS
<1>4. DbTyped
  BY DEF DataInv
<1>5. k \in 0..Len(discoveries)
  <2> DEFINE rows == {i \in RowsOf(b[1]) : discoveries[i].observed <= proc[p].at}
  <2>1. rows \in SUBSET DOMAIN discoveries
    BY DEF RowsOf
  <2>2. k = LastObserved(rows)
    BY <1>3 DEF FeeInForce
  <2> HIDE DEF rows
  <2>3. k \in {0} \cup rows
    BY <1>4, <2>1, <2>2, LastObservedIs
  <2> QED
    BY <1>4, <2>1, <2>3 DEF DbTyped
<1>6. /\ books' = books \cup {[run |-> proc[p].run, book |-> b, basis |-> k]}
      /\ NextBook(p, proc[p].todo \ {b})
  BY <1>2, <1>3 DEF InsertBook
<1>7. UNCHANGED <<runs, discoveries, refusals>>
  BY DEF InsertBook
<1> QED
  BY <1>1, <1>5, <1>6, <1>7, AnswerKeeps

(* Storing a market appends to its journal when its rules have changed,    *)
(* and adds the discovery and fee rows.                                    *)
LEMMA StoreMarketKeeps ==
  ASSUME DataInv, NEW p \in Procs, Store(p)
  PROVE  Kept
<1>1. PICK s \in ProcState : s = proc[p]
  BY AsItIs
<1>2. Doing(s) /\ Owns(s) /\ Gathered(s) /\ Clocked(s) /\ Daily(s) /\ s.pc = "store"
  BY <1>1, AsItIs DEF Store
<1>3. DbTyped /\ Dated /\ \A i \in DOMAIN runs : Sourced(i) /\ Whole(i)
  BY DEF DataInv
<1>4. PICK r : r = s.run
  OBVIOUS
<1>5. /\ s.cmd \in {"discover", "run-data"} /\ s.cmd \in RunCmds /\ s.seen \in [Markets -> Listings]
      /\ s.todo \subseteq Markets /\ s.todo # {}
  BY <1>2 DEF Doing, CmdsAt, RunCmds
<1>6. r \in DOMAIN runs /\ r # 0 /\ r \in Nat /\ runs[r].cmd = s.cmd /\ runs[r].status = "STARTED"
  BY <1>2, <1>3, <1>4, <1>5 DEF Owns, DbTyped
<1>7. PICK m \in s.todo : m = OneOf(s.todo)
  BY <1>5 DEF OneOf
<1>8. PICK row : row = [run |-> r, market |-> m, fee |-> s.seen[m], observed |-> s.at]
  OBVIOUS
<1>9. row \in DiscoveryRow /\ row.run = r /\ row.market = m /\ row.observed = s.at
  BY <1>5, <1>6, <1>7, <1>8 DEF DiscoveryRow, ProcState
<1>10. discoveries' = Append(discoveries, row) /\ UNCHANGED <<runs, books, refusals>>
  BY <1>1, <1>4, <1>7, <1>8 DEF Store, bookVars
<1>11. PICK n \in Nat : n = Len(discoveries)
  BY <1>3, NowIsNat
<1>12. /\ discoveries' \in Seq(DiscoveryRow) /\ Len(discoveries') = n + 1
       /\ DOMAIN discoveries' = 1..(n + 1) /\ DOMAIN discoveries = 1..n
       /\ discoveries'[n + 1] = row /\ \A i \in 1..n : discoveries'[i] = discoveries[i]
  <2>1. discoveries \in Seq(DiscoveryRow)
    BY <1>3 DEF DbTyped
  <2> QED
    BY <1>9, <1>10, <1>11, <2>1
<1>13. DbTyped' /\ Dated' /\ Touches(r)
  <2>1. Len(runs) \in Nat
    BY <1>3, NowIsNat
  <2>2. DbTyped'
    BY <1>3, <1>10, <1>12 DEF DbTyped
  <2>3. \A i \in DOMAIN discoveries' :
          discoveries'[i].run \in DOMAIN runs /\ discoveries'[i].observed <= Len(runs)
    <3> SUFFICES ASSUME NEW i \in 1..(n + 1)
                 PROVE  discoveries'[i].run \in DOMAIN runs /\ discoveries'[i].observed <= Len(runs)
      BY <1>12
    <3>1. CASE i = n + 1
      BY <1>2, <1>6, <1>9, <1>12, <3>1 DEF Clocked
    <3>2. CASE i \in 1..n
      BY <1>3, <1>12, <3>2 DEF Dated
    <3> QED
      BY <3>1, <3>2
  <2>4. \A v \in books : v.basis \in 0..Len(discoveries')
    BY <1>3, <1>11, <1>12 DEF Dated
  <2>5. Dated'
    BY <1>3, <1>10, <2>3, <2>4 DEF Dated
  <2>6. Touches(r)
    <3>1. \A i \in DOMAIN discoveries' : i \in DOMAIN discoveries \/ (r # 0 /\ discoveries'[i].run = r)
      BY <1>6, <1>9, <1>12
    <3> QED
      BY <1>6, <1>10, <1>11, <1>12, <2>1, <3>1 DEF Touches
  <2> QED
    BY <2>2, <2>5, <2>6
<1>14. Found(r)' = Found(r) \cup {m}
  <2>1. \A x : x \in Found(r)' <=>
          \E k \in 1..(n + 1) : discoveries'[k].run = r /\ discoveries'[k].market = x
    BY <1>12 DEF Found, Range
  <2>2. \A x : x \in Found(r) <=>
          \E k \in 1..n : discoveries[k].run = r /\ discoveries[k].market = x
    BY <1>12, FoundIs
  <2>3. \A k \in 1..(n + 1) : k \in 1..n \/ k = n + 1
    OBVIOUS
  <2>4. n + 1 \in 1..(n + 1) /\ \A k \in 1..n : k \in 1..(n + 1)
    OBVIOUS
  <2>5. \A x : x \in Found(r)' <=> x \in Found(r) \cup {m}
    BY ONLY <1>9, <1>12, <2>1, <2>2, <2>3, <2>4
  <2> QED
    BY ONLY <2>5
<1>15. PICK left : left = s.todo \ {m}
  OBVIOUS
<1>16. Found(r)' = s.passing \ left /\ left \subseteq s.passing
  <2>1. Found(r) = s.passing \ s.todo /\ s.todo \subseteq s.passing
    BY <1>2, <1>4 DEF Gathered
  <2> QED
    BY <1>14, <1>15, <2>1
<1>17. s.cmd \in BookCmds => /\ Answers(r)' = {} /\ SourceOf(r)' = r
                             /\ BooksOf(r)' \cap RefusedOf(r, Codes)' = {}
  <2>1. s.cmd \in BookCmds => Answers(r) = {} /\ BooksOf(r) \cap RefusedOf(r, Codes) = {}
    BY <1>2, <1>4 DEF Gathered
  <2>2. Answers(r)' = Answers(r) /\ BooksOf(r)' = BooksOf(r) /\ RefusedOf(r, Codes)' = RefusedOf(r, Codes)
    BY <1>10 DEF Answers, BooksOf, RefusedOf
  <2>3. SourceOf(r)' = r
    BY <1>5, <1>6, <1>10 DEF SourceOf
  <2> QED
    BY <2>1, <2>2, <2>3
<1>18. Len(runs) \in Nat /\ s.at <= Len(runs) /\ s.known <= n + 1 /\ Len(discoveries') = n + 1
  BY <1>2, <1>3, <1>11, <1>12, NowIsNat DEF Clocked, ProcState
<1>19. \A i \in DOMAIN runs' : i = r \/ i \notin DOMAIN runs => Sourced(i)' /\ Whole(i)'
  BY <1>3, <1>6, <1>10 DEF Sourced, Whole
<1>20. CASE left # {}
  <2>1. PICK t : t = [s EXCEPT !.todo = left]
    OBVIOUS
  <2>2. t \in ProcState
    BY <1>5, <1>15, <2>1 DEF ProcState
  <2>3. t.pc = "store" /\ t.seen = s.seen /\ t.todo = left /\ t.passing = s.passing /\ t.cmd = s.cmd
        /\ t.run = r /\ t.daily = s.daily /\ t.data = s.data /\ t.at = s.at /\ t.known = s.known
    BY <1>2, <1>4, <2>1 DEF ProcState
  <2>4. Doing(t)
    BY <1>5, <1>15, <1>20, <2>3 DEF Doing, CmdsAt
  <2>5. Owns(t)'
    BY <1>5, <1>6, <1>10, <2>3 DEF Owns
  <2>6. Gathered(t)'
    BY <1>16, <1>17, <2>3 DEF Gathered
  <2>7. Clocked(t)' /\ Daily(t)'
    BY <1>2, <1>4, <1>10, <1>18, <2>3 DEF Clocked, Daily
  <2>8. Fit(t)'
    BY <2>4, <2>5, <2>6, <2>7 DEF Fit, Doing
  <2>9. proc' = [proc EXCEPT ![p] = t]
    BY <1>1, <1>7, <1>15, <1>20, <2>1 DEF Store, Become
  <2> QED
    BY <1>1, <1>4, <1>13, <1>19, <2>2, <2>3, <2>8, <2>9, StepKeeps
<1>21. CASE left = {}
  <2>1. PICK t : t = WithBooks(p, s.passing)
    OBVIOUS
  <2>2. s.passing \in SUBSET Markets
    BY DEF ProcState
  <2>3. /\ t \in ProcState /\ Doing(t) /\ t.cmd = s.cmd /\ t.run = r /\ t.daily = s.daily
        /\ t.data = s.data /\ t.at = 0 /\ t.known = 0 /\ t.pc \in {"book", "poll", "finish"}
        /\ t.pc = "book" => t.cmd \in BookCmds /\ t.todo = Both(s.passing)
        /\ t.pc # "book" /\ t.cmd \in BookCmds => Both(s.passing) = {}
    BY <1>1, <1>4, <1>5, <2>1, <2>2, WithBooksIs
  <2>4. Found(r)' = s.passing
    BY <1>16, <1>21
  <2>5. s.cmd \in BookCmds => Both(Found(SourceOf(r)))' = Both(s.passing)
    BY <1>17, <2>4 DEF Both, Found
  <2>6. Owns(t)'
    BY <1>5, <1>6, <1>10, <2>3 DEF Owns
  <2>7. Gathered(t)'
    BY <1>17, <2>3, <2>5 DEF Gathered
  <2>8. Clocked(t)' /\ Daily(t)'
    BY <1>2, <1>4, <1>5, <1>10, <1>18, <2>3 DEF Clocked, Daily
  <2>9. Fit(t)'
    BY <2>3, <2>6, <2>7, <2>8 DEF Fit, Doing
  <2>10. proc' = [proc EXCEPT ![p] = t]
    BY <1>1, <1>7, <1>15, <1>21, <2>1 DEF Store, Become
  <2> QED
    BY <1>1, <1>4, <1>13, <1>19, <2>3, <2>9, <2>10, StepKeeps
<1> QED
  BY <1>20, <1>21

-----------------------------------------------------------------------------
(* The invariant, and what follows from it. *)
LEMMA CollectionStarts == Init => CollectionInv
<1> SUFFICES ASSUME Init PROVE CollectionInv
  OBVIOUS
<1>1. OneOf(Listings) \in Listings
  BY CollectionAssumption DEF OneOf
<1>2. WorldTyped
  <2>1. 0 \in 0..MaxChanges /\ 0 \in 0..MaxFailures
    BY CollectionAssumption
  <2> QED
    BY <1>1, <2>1 DEF Init, WorldTyped
<1>3. current = [m \in Markets |-> NoListing] /\ RulesTyped
  BY DEF Init, RulesTyped, Unseen
<1>4. \A m \in Markets : Chained(m)
  BY <1>3 DEF Init, Chained
<1>5. DbTyped /\ Dated /\ DOMAIN runs = {} /\ Len(runs) = 0
  BY DEF Init, DbTyped, Dated
<1>6. PICK s : s = Process("idle", "none", FALSE)
  OBVIOUS
<1>7. s \in ProcState /\ Fit(s) /\ s.run = 0
  <2>1. s.run = 0
    BY <1>6 DEF Process
  <2> QED
    BY <1>5, <1>6, <2>1, WithoutRun
<1>8. proc = [p \in Procs |-> s]
  BY <1>6 DEF Init, Idle
<1>9. proc \in [Procs -> ProcState] /\ (\A p \in Procs : Fit(proc[p])) /\ Apart
  <2>1. \A p \in Procs : proc[p] = s
    BY <1>8
  <2>2. proc \in [Procs -> ProcState] /\ Apart
    BY <1>7, <1>8, <2>1 DEF Apart
  <2> QED
    BY <1>7, <2>1, <2>2
<1>10. DataInv
  BY <1>5, <1>9 DEF DataInv
<1> QED
  BY <1>2, <1>3, <1>4, <1>10 DEF CollectionInv

(* A step of one process keeps the data sound. *)
LEMMA ProcessKeeps ==
  ASSUME CollectionInv, NEW p \in Procs,
         \/ \E cmd \in RunCmds, daily \in BOOLEAN : Start(p, cmd, daily)
         \/ StartResolve(p)
         \/ Advance(p)
         \/ \E missing \in SUBSET proc[p].todo : ApplyPoll(p, missing)
         \/ FailFetch(p) \/ Raise(p) \/ Die(p)
  PROVE  Kept
<1>1. DataInv /\ WorldTyped
  BY DEF CollectionInv
<1>2. CASE \E cmd \in RunCmds, daily \in BOOLEAN : Start(p, cmd, daily)
  BY <1>1, <1>2, StartKeeps
<1>3. CASE StartResolve(p) \/ Die(p) \/ Report(p)
  BY <1>1, <1>3, RunlessKeeps
<1>4. CASE List(p)
  BY <1>1, <1>4, ListKeeps
<1>5. CASE Track(p)
  BY <1>1, <1>5, TrackKeeps
<1>6. CASE AskStates(p)
  BY <1>1, <1>6, AskStatesKeeps
<1>7. CASE Store(p)
  BY <1>1, <1>7, StoreMarketKeeps
<1>8. CASE Choose(p)
  BY <1>1, <1>8, ChooseKeeps
<1>9. CASE FetchBook(p)
  BY <1>1, <1>9, FetchBookKeeps
<1>10. CASE RefuseBook(p)
  BY <1>1, <1>10, RefuseBookKeeps
<1>11. CASE InsertBook(p)
  BY <1>1, <1>11, InsertBookKeeps
<1>12. CASE Poll(p)
  BY <1>1, <1>12, PollKeeps
<1>13. CASE ApplyPoll(p, {}) \/ \E missing \in SUBSET proc[p].todo : ApplyPoll(p, missing)
  BY <1>1, <1>13, ApplyPollKeeps
<1>14. CASE Finish(p)
  BY <1>1, <1>14, FinishKeeps
<1>15. CASE DailyResearch(p)
  BY <1>1, <1>15, DailyResearchKeeps
<1>16. CASE FailFetch(p)
  BY <1>1, <1>16, FailFetchKeeps
<1>17. CASE Raise(p)
  BY <1>1, <1>17, RaiseKeeps
<1> QED
  BY <1>2, <1>3, <1>4, <1>5, <1>6, <1>7, <1>8, <1>9, <1>10, <1>11, <1>12, <1>13, <1>14, <1>15,
     <1>16, <1>17 DEF Advance

(* Where rules are recorded, they are recorded as the venue listed them. *)
LEMMA RulesKeep ==
  ASSUME CollectionInv, NEW p \in Procs,
         \/ \E cmd \in RunCmds, daily \in BOOLEAN : Start(p, cmd, daily)
         \/ StartResolve(p)
         \/ Advance(p)
         \/ \E missing \in SUBSET proc[p].todo : ApplyPoll(p, missing)
         \/ FailFetch(p) \/ Raise(p) \/ Die(p)
  PROVE  RulesTyped' /\ \A m \in Markets : Chained(m)'
<1>1. RulesTyped /\ (\A m \in Markets : Chained(m)) /\ Doing(proc[p])
  BY AsItIs DEF CollectionInv
<1>2. CASE UNCHANGED rulesVars
  BY <1>1, <1>2 DEF rulesVars, RulesTyped, Chained
<1>3. CASE ~(UNCHANGED rulesVars)
  <2>1. Track(p) \/ Store(p) \/ \E missing : ApplyPoll(p, missing)
    BY <1>3 DEF Start, StartResolve, Advance, FailFetch, Raise, Die, Conclude, List, AskStates, Choose,
                FetchBook, RefuseBook, InsertBook, Poll, Finish, DailyResearch, Report, dbVars
  <2>2. \E ms : RecordRules(ms, proc[p].seen)
    BY <1>3, <2>1 DEF Track, Store, ApplyPoll
  <2>3. proc[p].seen \in [Markets -> Listings]
    BY <1>1, <2>1 DEF Doing, Track, Store, ApplyPoll
  <2> QED
    BY <1>1, <2>2, <2>3, RecordKeeps
<1> QED
  BY <1>2, <1>3

(* The world may change and time may pass at any step.                     *)
LEMMA WorldKeeps ==
  ASSUME CollectionInv, NEW p \in Procs,
         \/ \E cmd \in RunCmds, daily \in BOOLEAN : Start(p, cmd, daily)
         \/ StartResolve(p)
         \/ Advance(p)
         \/ \E missing \in SUBSET proc[p].todo : ApplyPoll(p, missing)
         \/ FailFetch(p) \/ Raise(p) \/ Die(p)
  PROVE  WorldTyped'
<1>1. WorldTyped /\ Doing(proc[p])
  BY AsItIs DEF CollectionInv
<1>2. UNCHANGED worldVars
  BY DEF Start, StartResolve, Advance, FailFetch, Raise, Die, Conclude, List, Track, AskStates, Store,
         Choose, FetchBook, RefuseBook, InsertBook, Poll, ApplyPoll, Finish, DailyResearch, Report
<1>3. failures' \in 0..MaxFailures
  <2>1. failures \in 0..MaxFailures /\ MaxFailures \in Nat
    BY <1>1, CollectionAssumption DEF WorldTyped
  <2>2. CASE failures' = failures \/ (failures < MaxFailures /\ failures' = failures + 1)
    BY <2>1, <2>2
  <2>3. CASE \E missing \in SUBSET proc[p].todo : ApplyPoll(p, missing)
    <3>1. PICK missing \in SUBSET proc[p].todo : ApplyPoll(p, missing)
      BY <2>3
    <3>2. missing \subseteq Markets
      BY <1>1, <3>1 DEF ApplyPoll, Doing
    <3>3. IsFiniteSet(missing)
      BY <3>2, CollectionAssumption, FS_Subset
    <3>4. PICK k \in Nat : k = Cardinality(missing)
      BY <3>3, FS_CardinalityType
    <3>5. failures' = failures + k /\ failures' <= MaxFailures
      BY <3>1, <3>4 DEF ApplyPoll
    <3> QED
      BY <2>1, <3>5
  <2>4. \/ failures' = failures \/ (failures < MaxFailures /\ failures' = failures + 1)
        \/ \E missing \in SUBSET proc[p].todo : ApplyPoll(p, missing)
    BY DEF Start, StartResolve, Advance, FailFetch, Raise, Die, List, Track, AskStates, Store,
           Choose, FetchBook, RefuseBook, InsertBook, Poll, Finish, DailyResearch, Report
  <2> QED
    BY <2>2, <2>3, <2>4
<1> QED
  BY <1>1, <1>2, <1>3 DEF WorldTyped, worldVars

(* Every step, of a process or of the venue. *)
LEMMA CollectionKeeps ==
  ASSUME CollectionInv, [Next]_vars
  PROVE  CollectionInv' /\ Kept
<1>1. DataInv /\ WorldTyped /\ RulesTyped /\ (\A m \in Markets : Chained(m))
  BY DEF CollectionInv
<1>2. ASSUME NEW m \in Markets, NEW l \in Listings, Relist(m, l)
      PROVE  CollectionInv' /\ Kept
  <2>1. UNCHANGED <<runs, discoveries, books, refusals, proc>> /\ UNCHANGED rulesVars
    BY <1>2 DEF Relist, dbVars, bookVars
  <2>2. Kept
    BY <1>1, <2>1, StillKeeps
  <2>3. RulesTyped' /\ \A k \in Markets : Chained(k)'
    BY <1>1, <2>1 DEF rulesVars, RulesTyped, Chained
  <2>4. WorldTyped'
    <3>1. changes' \in 0..MaxChanges
      BY <1>1, <1>2, CollectionAssumption DEF WorldTyped, Relist
    <3> QED
      BY <1>1, <1>2, <3>1 DEF WorldTyped, Relist
  <2> QED
    BY <2>2, <2>3, <2>4 DEF CollectionInv, Kept
<1>3. ASSUME NEW p \in Procs,
             \/ \E cmd \in RunCmds, daily \in BOOLEAN : Start(p, cmd, daily)
             \/ StartResolve(p)
             \/ Advance(p)
             \/ \E missing \in SUBSET proc[p].todo : ApplyPoll(p, missing)
             \/ FailFetch(p) \/ Raise(p) \/ Die(p)
      PROVE  CollectionInv' /\ Kept
  <2>1. Kept
    BY <1>3, ProcessKeeps
  <2>2. RulesTyped' /\ \A m \in Markets : Chained(m)'
    BY <1>3, RulesKeep
  <2>3. WorldTyped'
    BY <1>3, WorldKeeps
  <2> QED
    BY <2>1, <2>2, <2>3 DEF CollectionInv, Kept
<1>4. CASE UNCHANGED vars
  <2>1. UNCHANGED <<runs, discoveries, books, refusals, proc>> /\ UNCHANGED rulesVars
        /\ UNCHANGED worldVars /\ UNCHANGED failures
    BY <1>4 DEF vars, dbVars, bookVars
  <2>2. Kept
    BY <1>1, <2>1, StillKeeps
  <2> QED
    BY <1>1, <2>1, <2>2 DEF rulesVars, worldVars, RulesTyped, Chained, WorldTyped, CollectionInv, Kept
<1> QED
  BY <1>2, <1>3, <1>4 DEF Next, RunCmds

(* Everything above holds throughout: the types, the chain of rules, and   *)
(* what every process still has to do and every run has so far.            *)
THEOREM CollectionInvariant == Spec => []CollectionInv
<1>1. Init => CollectionInv
  BY CollectionStarts
<1>2. CollectionInv /\ [Next]_vars => CollectionInv'
  BY CollectionKeeps
<1> QED
  BY <1>1, <1>2, PTL DEF Spec

(* The journal is the history of the rules, for any markets and listings   *)
(* that may change back, any commands that overlap, and wherever they die. *)
THEOREM JournalIsHistory == Spec => []RulesHistoryHolds
<1>1. ASSUME CollectionInv PROVE RulesHistoryHolds
  <2>1. WorldTyped /\ RulesTyped /\ DbTyped /\ Dated /\ proc \in [Procs -> ProcState]
        /\ (\A m \in Markets : Chained(m)) /\ \A p \in Procs : Owns(proc[p])
    BY <1>1 DEF CollectionInv, DataInv, Fit
  <2>2. TypeOK
    <3>1. \A m \in Markets : \A i \in DOMAIN journal[m] :
            journal[m][i] \in (Listings \cup {NoListing}) \X Listings
      <4>1. ASSUME NEW m \in Markets, NEW i \in DOMAIN journal[m]
            PROVE  journal[m][i] \in RulesEntry
        <5>1. journal[m] \in Seq(RulesEntry)
          BY <2>1 DEF RulesTyped
        <5> QED
          BY <5>1
      <4> QED
        BY <4>1 DEF RulesEntry
    <3>2. ASSUME NEW r \in DOMAIN runs
          PROVE  runs[r] \in [cmd : {"discover", "snapshot", "run-data", "research"}, started : Nat,
                              source : 0..Len(runs), status : {"STARTED", "COMPLETED", "FAILED"}]
      <4>1. runs[r] \in RunRow /\ runs[r].source \in 0..Len(runs)
        BY <2>1 DEF DbTyped, Dated
      <4> QED
        BY <4>1 DEF RunRow, RunCmds
    <3>3. ASSUME NEW i \in DOMAIN discoveries
          PROVE  discoveries[i] \in [run : DOMAIN runs, market : Markets, fee : Listings,
                                     observed : Nat]
      <4>1. discoveries[i] \in DiscoveryRow /\ discoveries[i].run \in DOMAIN runs
        BY <2>1 DEF DbTyped, Dated
      <4> QED
        BY <4>1 DEF DiscoveryRow
    <3>4. ASSUME NEW s \in books
          PROVE  s \in [run : DOMAIN runs, book : Both(Markets), basis : 0..Len(discoveries)]
      <4>1. s \in [run : Nat, book : Both(Markets), basis : Nat] /\ s.run \in DOMAIN runs
            /\ s.basis \in 0..Len(discoveries)
        BY <2>1 DEF DbTyped, Dated
      <4> QED
        BY <4>1
    <3>5. refusals \subseteq (DOMAIN runs) \X Both(Markets) \X {"failed", "unusable"}
      BY <2>1 DEF DbTyped, Dated, Codes
    <3>6. ASSUME NEW p \in Procs
          PROVE  /\ proc[p].pc \in {"idle", "dead"} \cup DataPcs \cup DailyPcs
                 /\ proc[p].run \in 0..Len(runs)
                 /\ proc[p].seen \in [Markets -> Listings \cup {NoListing}]
      <4>1. proc[p] \in ProcState /\ Owns(proc[p])
        BY <2>1
      <4>2. DOMAIN runs = 1..Len(runs) /\ Len(runs) \in Nat
        BY <2>1 DEF DbTyped
      <4>3. proc[p].run \in 0..Len(runs)
        BY <4>1, <4>2 DEF Owns
      <4> QED
        BY <4>1, <4>3 DEF ProcState
    <3> QED
      BY <2>1, <3>1, <3>2, <3>3, <3>4, <3>5, <3>6 DEF TypeOK, WorldTyped, RulesTyped
  <2> QED
    BY <2>1, <2>2 DEF RulesHistoryHolds, Chained
<1> QED
  BY <1>1, CollectionInvariant, PTL

(* A completed run of books is whole whatever failed, died or overlapped   *)
(* before it, and for any share of failures that counts as an outage.      *)
THEOREM CompletedRunsStayWhole == Spec => []CompletedRunsAreWhole
<1>1. ASSUME CollectionInv PROVE CompletedRunsAreWhole
  <2> SUFFICES ASSUME NEW r \in DOMAIN runs, runs[r].status = "COMPLETED", runs[r].cmd \in BookCmds
               PROVE  LET source == IF runs[r].cmd = "snapshot" THEN runs[r].source ELSE r
                          wanted == Both(Found(source))
                          failed == RefusedOf(r, {"failed"})
                      IN /\ source # 0 /\ runs[source].status = "COMPLETED"
                         /\ wanted = BooksOf(r) \cup RefusedOf(r, {"failed", "unusable"})
                         /\ wanted # {} => /\ BooksOf(r) # {}
                                           /\ Cardinality(failed) * FailureShare < Cardinality(wanted)
    BY DEF CompletedRunsAreWhole, BookCmds
  <2>1. PICK source : source = SourceOf(r)
    OBVIOUS
  <2>2. PICK wanted : wanted = Both(Found(source))
    OBVIOUS
  <2>3. Whole(r)
    BY <1>1 DEF CollectionInv, DataInv
  <2>4. source # 0 /\ runs[source].status = "COMPLETED" /\ wanted = Answers(r)
        /\ (wanted # {} => /\ BooksOf(r) # {}
                           /\ Cardinality(RefusedOf(r, {"failed"})) * FailureShare < Cardinality(wanted))
    BY <2>1, <2>2, <2>3 DEF Whole
  <2>5. source = IF runs[r].cmd = "snapshot" THEN runs[r].source ELSE r
    BY <2>1 DEF SourceOf
  <2>6. wanted = BooksOf(r) \cup RefusedOf(r, {"failed", "unusable"})
    BY <2>4 DEF Answers, Codes
  <2> QED
    BY ONLY <2>2, <2>4, <2>5, <2>6
<1> QED
  BY <1>1, CollectionInvariant, PTL

(* Research in a daily cycle never works from older data than the cycle's  *)
(* own, whatever other commands discover meanwhile.                        *)
THEOREM TodaysDataReachResearch == Spec => []ResearchHasTodaysData
<1>1. ASSUME CollectionInv PROVE ResearchHasTodaysData
  <2> SUFFICES ASSUME NEW p \in Procs, proc[p].daily, proc[p].cmd = "research", proc[p].pc # "choose"
               PROVE  /\ runs[proc[p].data].status = "COMPLETED"
                      /\ runs[runs[proc[p].run].source].status = "COMPLETED"
                      /\ runs[runs[proc[p].run].source].started >= runs[proc[p].data].started
    BY DEF ResearchHasTodaysData
  <2>1. DataInv
    BY <1>1 DEF CollectionInv
  <2>2. PICK s \in ProcState : s = proc[p]
    BY <2>1, AsItIs
  <2>3. Owns(s) /\ Daily(s)
    BY <2>1, <2>2, AsItIs
  <2>4. DbTyped /\ Dated /\ \A r \in DOMAIN runs : Sourced(r)
    BY <2>1 DEF DataInv
  <2>5. s.data # 0 /\ s.data \in DOMAIN runs /\ runs[s.data].status = "COMPLETED"
        /\ runs[s.run].source >= s.data
    BY <2>2, <2>3 DEF Daily
  <2>6. s.run \in DOMAIN runs
    BY <2>2, <2>3 DEF Owns, RunCmds
  <2>7. PICK k : k = runs[s.run].source
    OBVIOUS
  <2>8. k \in 0..Len(runs) /\ k >= s.data /\ DOMAIN runs = 1..Len(runs) /\ Len(runs) \in Nat
    BY <2>4, <2>5, <2>6, <2>7 DEF DbTyped, Dated
  <2>9. k \in DOMAIN runs /\ k # 0
    BY <2>5, <2>8
  <2>10. runs[k].status = "COMPLETED"
    BY <2>4, <2>6, <2>7, <2>9 DEF Sourced
  <2>11. runs[k].started = k /\ runs[s.data].started = s.data
    BY <2>4, <2>5, <2>9 DEF Dated
  <2> QED
    BY <2>2, <2>5, <2>7, <2>8, <2>10, <2>11
<1> QED
  BY <1>1, CollectionInvariant, PTL

(* The book that is stored takes the fee that was in force at its fetch.   *)
LEMMA FeeIsInForce ==
  ASSUME DataInv, NEW q \in Procs, InsertBook(q), NEW p \in Procs, NEW s \in books' \ books,
         s.run = proc[p].run
  PROVE  /\ s.basis \in RowsOf(s.book[1])
         /\ discoveries[s.basis].observed <= proc[p].at
         /\ \A i \in RowsOf(s.book[1]) \cap (1..proc[p].known) :
              discoveries[i].observed <= discoveries[s.basis].observed
<1>1. DbTyped /\ Apart
  BY DEF DataInv
<1>2. Doing(proc[q]) /\ Owns(proc[q]) /\ Clocked(proc[q]) /\ proc[q].pc = "insert"
  BY AsItIs DEF InsertBook
<1>3. proc[q].cmd \in RunCmds /\ proc[q].todo # {}
  BY <1>2 DEF Doing, CmdsAt, BookCmds, RunCmds
<1>4. proc[q].run # 0
  BY <1>1, <1>2, <1>3 DEF Owns, DbTyped
<1>5. PICK b \in proc[q].todo : b = OneOf(proc[q].todo)
  BY <1>3 DEF OneOf
<1>6. PICK k : k = FeeInForce(b[1], proc[q].at)
  OBVIOUS
<1>7. s = [run |-> proc[q].run, book |-> b, basis |-> k]
  BY <1>5, <1>6 DEF InsertBook
<1>8. s.run = proc[q].run /\ s.book = b /\ s.basis = k
  BY <1>7
<1>9. p = q
  BY <1>1, <1>4, <1>8 DEF Apart
<1> DEFINE rows == {i \in RowsOf(b[1]) : discoveries[i].observed <= proc[q].at}
<1>10. rows \in SUBSET DOMAIN discoveries /\ rows \subseteq RowsOf(b[1])
  BY DEF RowsOf
<1>11. (\A i \in 1..proc[q].known : discoveries[i].observed <= proc[q].at)
       /\ \E i \in RowsOf(b[1]) : i <= proc[q].known
  BY <1>2, <1>5 DEF Clocked
<1>12. \A i \in RowsOf(b[1]) : i \in Nat \ {0}
  BY <1>1 DEF RowsOf, DbTyped
<1>13. proc[q].known \in Nat
  BY AsItIs DEF ProcState
<1>14. \A i \in RowsOf(b[1]) : i <= proc[q].known => i \in rows
  BY <1>11, <1>12, <1>13
<1>15. rows # {} /\ k = LastObserved(rows) /\ \A i \in rows : discoveries[i].observed <= proc[q].at
  BY <1>6, <1>11, <1>14 DEF FeeInForce
<1> HIDE DEF rows
<1>16. k \in rows /\ \A i \in rows : discoveries[i].observed <= discoveries[k].observed
  BY <1>1, <1>10, <1>15, LastObservedIs
<1>17. \A i \in RowsOf(b[1]) \cap (1..proc[q].known) : i \in rows
  BY <1>13, <1>14
<1> QED
  BY <1>8, <1>9, <1>10, <1>15, <1>16, <1>17

(* The fee of every stored book was in force when the book was fetched,    *)
(* although discoveries of other processes go on between the fetch and the *)
(* insertion, and no book goes without one.                                *)
THEOREM FeesWereInForce == Spec => FeeWasInForce
<1> DEFINE Sound == \A p \in Procs, s \in books' \ books :
       s.run = proc[p].run =>
         LET m == s.book[1]
         IN /\ s.basis \in RowsOf(m)
            /\ discoveries[s.basis].observed <= proc[p].at
            /\ \A i \in RowsOf(m) \cap (1..proc[p].known) :
                 discoveries[i].observed <= discoveries[s.basis].observed
<1>1. ASSUME CollectionInv, [Next]_vars PROVE [Sound]_vars
  <2>1. DataInv
    BY <1>1 DEF CollectionInv
  <2>2. CASE books' = books
    BY <2>2
  <2>3. CASE books' # books
    <3>1. \E q \in Procs : InsertBook(q)
      BY <1>1, <2>3 DEF Next, Relist, Start, StartResolve, Advance, FailFetch, Raise, Die, Conclude,
         List, Track, AskStates, Store, Choose, FetchBook, RefuseBook, Poll, ApplyPoll, Finish,
         DailyResearch, Report, vars, dbVars, bookVars
    <3>2. PICK q \in Procs : InsertBook(q)
      BY <3>1
    <3>3. Sound
      BY <2>1, <3>2, FeeIsInForce
    <3> QED
      BY <3>3
  <2> QED
    BY <2>2, <2>3
<1>2. CollectionInv /\ [Next]_vars => [Sound]_vars
  BY <1>1
<1> QED
  BY <1>2, CollectionInvariant, PTL DEF Spec, FeeWasInForce

(* The report of a run that has ended says for ever what it says now,      *)
(* whatever is collected, and by whom, afterwards.                         *)
THEOREM ReportsStand == Spec => FinishedReportsStand
<1> DEFINE Same == \A r \in DOMAIN runs :
       (runs[r].cmd # "research" /\ runs[r].status # "STARTED") =>
         Shortlist(r)' = Shortlist(r)
<1>1. ASSUME CollectionInv, [Next]_vars PROVE [Same]_vars
  <2>1. DbTyped /\ Dated /\ (\A r \in DOMAIN runs : Sourced(r)) /\ DbTyped'
    BY <1>1, CollectionKeeps DEF CollectionInv, DataInv
  <2>2. PICK x : Touches(x)
    BY <1>1, CollectionKeeps DEF Kept
  <2>3. ASSUME NEW r \in DOMAIN runs, runs[r].cmd # "research", runs[r].status # "STARTED"
        PROVE  Shortlist(r)' = Shortlist(r)
    <3>1. r # x /\ runs'[r] = runs[r]
      BY <2>2, <2>3 DEF Touches
    <3>2. PICK source : source = IF runs[r].cmd = "snapshot" THEN runs[r].source ELSE r
      OBVIOUS
    <3>3. source # x \/ source = 0
      <4>1. CASE runs[r].cmd = "snapshot"
        <5>1. source # 0 => source \in DOMAIN runs /\ runs[source].status = "COMPLETED"
          BY <2>1, <2>3, <3>2, <4>1 DEF Dated, Sourced, DbTyped
        <5> QED
          BY <2>2, <5>1 DEF Touches
      <4> QED
        BY <3>1, <3>2, <4>1
    <3> DEFINE Rows == {d \in Range(discoveries) : d.run = source}
    <3>4. Rows' = Rows
      <4>1. DOMAIN discoveries \subseteq DOMAIN discoveries'
        BY <2>1, <2>2 DEF Touches, DbTyped
      <4>2. \A d : d \in Rows' <=> \E i \in DOMAIN discoveries' : d = discoveries'[i] /\ d.run = source
        BY DEF Range
      <4>3. \A d : d \in Rows <=> \E i \in DOMAIN discoveries : d = discoveries[i] /\ d.run = source
        BY DEF Range
      <4>4. \A i \in DOMAIN discoveries' : discoveries'[i].run = source => i \in DOMAIN discoveries
        BY <2>2, <3>3 DEF Touches
      <4>5. \A i \in DOMAIN discoveries : discoveries'[i] = discoveries[i]
        BY <2>2 DEF Touches
      <4> HIDE DEF Rows
      <4>6. \A d : d \in Rows' <=> d \in Rows
        BY ONLY <4>1, <4>2, <4>3, <4>4, <4>5
      <4> QED
        BY ONLY <4>6
    <3>5. BooksOf(r)' = BooksOf(r)
      BY <2>1, <2>2, <3>1, OthersStand
    <3>6. {f \in refusals : f[1] = r}' = {f \in refusals : f[1] = r}
      BY <2>2, <3>1 DEF Touches
    <3>7. Shortlist(r) = [status |-> runs[r].status, source |-> source, markets |-> Rows,
                          books |-> BooksOf(r), refused |-> {f \in refusals : f[1] = r}]
      BY <3>2 DEF Shortlist
    <3>8. Shortlist(r)' = [status |-> runs'[r].status, source |-> source, markets |-> Rows',
                           books |-> BooksOf(r)', refused |-> {f \in refusals : f[1] = r}']
      BY <3>1, <3>2 DEF Shortlist
    <3> QED
      BY ONLY <3>1, <3>4, <3>5, <3>6, <3>7, <3>8
  <2>4. Same
    BY <2>3
  <2> QED
    BY <2>4
<1>2. CollectionInv /\ [Next]_vars => [Same]_vars
  BY <1>1
<1> QED
  BY <1>2, CollectionInvariant, PTL DEF Spec, FinishedReportsStand

-----------------------------------------------------------------------------
(* The research session.                                                   *)

CallStates == [ask : Asks \cup {"none"}, at : {"unasked", "denied", "running", "ran", "page"}]

SessionTypeOK ==
  /\ phase \in {"running", "closing", "done"}
  /\ inits \subseteq {"sound", "unsound"}
  /\ reported \in BOOLEAN /\ verified \in BOOLEAN /\ hookError \in BOOLEAN
  /\ structured \in BOOLEAN
  /\ cost \in {"none", "known"}
  /\ call \in [Calls -> CallStates]
  /\ fetched \subseteq Calls

(* The toolset counts as verified when a sound report came; a tool runs    *)
(* only then.                                                              *)
Toolset ==
  /\ verified <=> "sound" \in inits
  /\ \A c \in Calls : Ran(c) => verified /\ call[c].ask \in Tools

(* What the transcript has of a call that ran, and of its result unless    *)
(* the hook failed on it.                                                  *)
OnRecord ==
  /\ \A c \in Calls : Ran(c) /\ call[c].ask # "StructuredOutput" => <<"call", c>> \in seen
  /\ \A c \in Calls :
       call[c].at \in {"ran", "page"} /\ call[c].ask # "StructuredOutput" =>
         hookError \/ <<"result", c>> \in seen \/ <<"tool_error", c>> \in seen
  /\ \A c \in fetched : /\ call[c].ask = "WebFetch" /\ call[c].at = "page"
                        /\ <<"result", c>> \in seen

(* How the reading of messages has gone, until the session is done: an     *)
(* answer or a cost comes with the result message, which neither a timeout *)
(* nor an error of the SDK follows, and an unsound report ends the reading *)
(* with an error.                                                          *)
Course ==
  /\ phase = "running" => ended = "no" /\ "unsound" \notin inits
  /\ phase = "closing" => ended \in {"stream", "broke", "timeout", "raised"}
  /\ phase # "done" =>
       /\ error \notin {"TIMEOUT", "CLEANUP_TIMEOUT"}
       /\ "unsound" \in inits => error # NoError
       /\ ended = "broke" => error # NoError
       /\ structured => reported /\ verified
       /\ ~reported => cost = "none"
       /\ ended \in {"timeout", "raised"} => ~reported

SessionInv == SessionTypeOK /\ Toolset /\ OnRecord /\ Course /\ SoundOutcome

-----------------------------------------------------------------------------
(* The hooks change nothing but a call, the transcript and a URL.  A call  *)
(* that starts to run, or ends, does so with its record.                   *)
LEMMA PreToolUseKeeps ==
  ASSUME SessionInv, NEW c \in Calls, PreToolUse(c)
  PROVE  SessionInv'
<1> USE DEF SessionInv
<1>1. PICK ask \in Asks :
        /\ call' = [call EXCEPT ![c] = [ask |-> ask,
                                        at |-> IF Allowed(ask) THEN "running" ELSE "denied"]]
        /\ seen' = IF ~Allowed(ask) THEN seen \cup {<<"denied", c>>}
                   ELSE IF ask = "StructuredOutput" THEN seen
                   ELSE seen \cup {<<"call", c>>}
  BY DEF PreToolUse
<1>2. UNCHANGED <<phase, ended, inits, reported, verified, hookError, fetched, structured, cost, error>>
  BY DEF PreToolUse, sessionResult
<1>3. phase # "done" /\ call[c].at = "unasked"
  BY DEF PreToolUse
<1>4. call'[c] \in CallStates /\ \A d \in Calls \ {c} : call'[d] = call[d]
  BY <1>1 DEF CallStates, SessionTypeOK
<1>5. call'[c].ask = ask /\ call'[c].at = IF Allowed(ask) THEN "running" ELSE "denied"
  BY <1>1 DEF SessionTypeOK
<1>6. seen \subseteq seen'
  BY <1>1
<1>7. SessionTypeOK'
  BY <1>1, <1>2, <1>4 DEF SessionTypeOK
<1>8. Toolset'
  BY <1>2, <1>4, <1>5 DEF Toolset, Ran, Allowed
<1>9. OnRecord'
  <2>1. c \notin fetched
    BY <1>3 DEF OnRecord
  <2>2. Ran(c)' /\ call'[c].ask # "StructuredOutput" => <<"call", c>> \in seen'
    BY <1>1, <1>5 DEF Ran
  <2> QED
    BY <1>2, <1>4, <1>5, <1>6, <2>1, <2>2 DEF OnRecord, Ran, SessionTypeOK
<1>10. Course' /\ SoundOutcome'
  BY <1>2, <1>3 DEF Course, SoundOutcome, Done
<1> QED
  BY <1>7, <1>8, <1>9, <1>10

(* A call that ran leaves a result on record, or the hook's failure.       *)
LEMMA ToolEndKeeps ==
  ASSUME SessionInv, NEW c \in Calls, PostToolUse(c) \/ PostToolUseFailure(c)
  PROVE  SessionInv'
<1> USE DEF SessionInv
<1>1. PICK at \in {"page", "ran"}, event \in {"result", "tool_error"} :
        /\ call' = [call EXCEPT ![c].at = at]
        /\ \/ Fails(c)
           \/ Records(c, event, at = "page") /\ (at = "page" => event = "result")
  <2>1. CASE PostToolUse(c)
    <3>1. PICK response \in {"page", "other", "unreadable"} :
            /\ call' = [call EXCEPT ![c].at = IF response = "page" THEN "page" ELSE "ran"]
            /\ IF response = "unreadable" THEN Fails(c) ELSE Records(c, "result", response = "page")
      BY <2>1 DEF PostToolUse
    <3>2. CASE response = "page"
      BY <3>1, <3>2
    <3>3. CASE response = "other"
      <4>1. call' = [call EXCEPT ![c].at = "ran"] /\ Records(c, "result", FALSE)
        BY <3>1, <3>3
      <4> QED
        BY <4>1 DEF Records
    <3>4. CASE response = "unreadable"
      BY <3>1, <3>4
    <3> QED
      BY <3>2, <3>3, <3>4
  <2>2. CASE PostToolUseFailure(c)
    <3>1. call' = [call EXCEPT ![c].at = "ran"] /\ (Records(c, "tool_error", FALSE) \/ Fails(c))
      BY <2>2 DEF PostToolUseFailure
    <3> QED
      BY <3>1 DEF Records
  <2> QED
    BY <2>1, <2>2
<1>2. UNCHANGED <<phase, ended, inits, reported, verified, structured, cost, error>>
  BY DEF PostToolUse, PostToolUseFailure, sessionResult
<1>3. phase # "done" /\ call[c].at = "running"
  BY DEF PostToolUse, PostToolUseFailure
<1>4. call'[c] \in CallStates /\ \A d \in Calls \ {c} : call'[d] = call[d]
  BY <1>1 DEF CallStates, SessionTypeOK
<1>5. call'[c].ask = call[c].ask /\ call'[c].at = at
  BY <1>1 DEF SessionTypeOK, CallStates
<1>6. seen \subseteq seen' /\ hookError' \in BOOLEAN /\ (hookError => hookError')
  BY <1>1 DEF Fails, Records, SessionTypeOK
<1>7. fetched' \subseteq fetched \cup {c} /\ c \notin fetched
  BY <1>1, <1>3 DEF Fails, Records, OnRecord
<1>8. SessionTypeOK'
  BY <1>1, <1>2, <1>4, <1>6, <1>7 DEF SessionTypeOK
<1>9. Toolset'
  BY <1>2, <1>3, <1>4, <1>5 DEF Toolset, Ran
<1>10. OnRecord'
  <2>1. call[c].ask # "StructuredOutput" => <<"call", c>> \in seen'
    BY <1>3, <1>6 DEF OnRecord, Ran
  <2>2. call[c].ask # "StructuredOutput" =>
          hookError' \/ <<"result", c>> \in seen' \/ <<"tool_error", c>> \in seen'
    BY <1>1 DEF Fails, Records
  <2>3. c \in fetched' => call[c].ask = "WebFetch" /\ at = "page" /\ <<"result", c>> \in seen'
    BY <1>1, <1>7 DEF Fails, Records
  <2> QED
    BY <1>4, <1>5, <1>6, <1>7, <2>1, <2>2, <2>3 DEF OnRecord, Ran, SessionTypeOK
<1>11. Course' /\ SoundOutcome'
  BY <1>2, <1>3 DEF Course, SoundOutcome, Done
<1> QED
  BY <1>8, <1>9, <1>10, <1>11

(* The messages leave the calls and their record alone.                    *)
LEMMA MessagesKeep ==
  ASSUME SessionInv, ReceiveInit \/ ReceiveResult \/ MessagesEnd
  PROVE  SessionInv'
<1> USE DEF SessionInv
<1>1. phase = "running" /\ phase' # "done" /\ UNCHANGED <<call, seen, fetched, hookError>>
  BY DEF ReceiveInit, ReceiveResult, MessagesEnd, Reading, sessionState
<1>2. OnRecord' /\ SoundOutcome'
  BY <1>1 DEF OnRecord, SoundOutcome, Done, Ran
<1>3. CASE ReceiveInit
  <2>1. UNCHANGED <<reported, structured, cost>> /\ ended = "no" /\ ~reported
    BY <1>3 DEF ReceiveInit, Reading
  <2>2. CASE inits' = inits \cup {"sound"} /\ verified' = TRUE /\ UNCHANGED <<phase, ended, error>>
    BY <1>1, <1>2, <2>1, <2>2 DEF SessionTypeOK, Toolset, Course, Ran, NoError
  <2>3. CASE /\ inits' = inits \cup {"unsound"} /\ error' = "TOOLSET_MISMATCH"
             /\ phase' = "closing" /\ ended' = "broke" /\ UNCHANGED verified
    BY <1>1, <1>2, <2>1, <2>3 DEF SessionTypeOK, Toolset, Course, Ran, NoError
  <2> QED
    BY <1>3, <2>2, <2>3 DEF ReceiveInit
<1>4. CASE ReceiveResult
  <2>1. UNCHANGED <<phase, ended, inits, verified>> /\ reported' = TRUE /\ cost' \in {"none", "known"}
    BY <1>4 DEF ReceiveResult, sessionState
  <2>2. structured' \in BOOLEAN /\ (structured' => verified)
    <3>1. PICK output \in BOOLEAN, success \in BOOLEAN : Result(output, success)
      BY <1>4 DEF ReceiveResult
    <3>2. verified \in BOOLEAN /\ structured \in BOOLEAN /\ (structured => verified)
      BY <1>1 DEF SessionTypeOK, Course
    <3>3. CASE ~verified
      BY <3>1, <3>2, <3>3 DEF Result
    <3>4. CASE verified
      BY <3>1, <3>2, <3>4 DEF Result
    <3> QED
      BY <3>3, <3>4
  <2>3. error' \in {error, NoError, "NO_RESULT", "SESSION_ERROR"}
    BY <1>4 DEF ReceiveResult, Result
  <2>4. ~verified => error' = error
    BY <1>4 DEF ReceiveResult, Result
  <2> QED
    BY <1>1, <1>2, <2>1, <2>2, <2>3, <2>4 DEF SessionTypeOK, Toolset, Course, Ran, NoError
<1>5. CASE MessagesEnd
  BY <1>1, <1>2, <1>5 DEF MessagesEnd, SessionTypeOK, Toolset, Course, Ran, sessionState, sessionResult
<1> QED
  BY <1>3, <1>4, <1>5

(* The close decides what the outcome says.                                *)
LEMMA CloseKeeps ==
  ASSUME SessionInv, Close
  PROVE  SessionInv'
<1> USE DEF SessionInv
<1>1. phase = "closing" /\ phase' = "done"
      /\ UNCHANGED <<ended, inits, reported, verified, hookError, seen, fetched, call>>
  BY DEF Close, sessionState
<1>2. PICK code, keepResult, keepCost : Outcome(code, keepResult, keepCost)
        /\ \/ code = LastProblem /\ ended \in {"stream", "broke"} /\ keepResult = TRUE /\ keepCost = TRUE
           \/ code \in {"TIMEOUT", "CLEANUP_TIMEOUT"} /\ keepResult = FALSE /\ keepCost = FALSE
           \/ code = "SDK_ERROR" /\ keepResult = TRUE /\ keepCost = TRUE
  <2>1. CASE CloseInTime
    BY <1>1, <2>1 DEF CloseInTime, Course
  <2> QED
    BY <2>1 DEF Close, CloseHung, CloseRaised
<1>3. error' = code /\ structured' = (keepResult /\ structured) /\ cost' = IF keepCost THEN cost ELSE "none"
  BY <1>2 DEF Outcome
<1>4. SessionTypeOK'
  BY <1>1, <1>2, <1>3 DEF SessionTypeOK
<1>5. Toolset' /\ OnRecord' /\ Course'
  BY <1>1 DEF Toolset, OnRecord, Course, Ran
<1>6. LastProblem \notin {"TIMEOUT", "CLEANUP_TIMEOUT"}
  BY <1>1 DEF LastProblem, Course, NoError
<1>7. LastProblem = NoError => error = NoError /\ verified /\ ~hookError /\ structured
  BY DEF LastProblem, NoError
<1>8. SoundOutcome'
  <2>1. ASSUME error' = NoError
        PROVE  /\ ended' = "stream" /\ reported' /\ structured' /\ inits' = {"sound"}
               /\ \A c \in Calls : call'[c].at \in {"ran", "page"} /\ call'[c].ask # "StructuredOutput" =>
                    <<"call", c>> \in seen' /\ {<<"result", c>>, <<"tool_error", c>>} \cap seen' # {}
    <3>1. code = LastProblem /\ LastProblem = NoError /\ ended \in {"stream", "broke"} /\ keepResult
      BY <1>2, <1>3, <2>1 DEF NoError
    <3>2. error = NoError /\ verified /\ ~hookError /\ structured
      BY <1>7, <3>1
    <3>3. ended = "stream" /\ reported /\ structured' /\ inits = {"sound"}
      BY <1>1, <1>3, <3>1, <3>2 DEF Course, Toolset, SessionTypeOK
    <3> QED
      BY <1>1, <3>2, <3>3 DEF OnRecord, Ran
  <2>2. ASSUME ended' = "timeout" \/ error' \in {"TIMEOUT", "CLEANUP_TIMEOUT"}
        PROVE  ~structured' /\ cost' = "none" /\ error' # NoError
    <3>1. CASE code \in {"TIMEOUT", "CLEANUP_TIMEOUT"}
      BY <1>2, <1>3, <1>6, <3>1 DEF NoError
    <3>2. CASE code \notin {"TIMEOUT", "CLEANUP_TIMEOUT"}
      <4>1. ended = "timeout" /\ code = "SDK_ERROR"
        BY <1>1, <1>2, <1>3, <2>2, <3>2
      <4> QED
        BY <1>1, <1>3, <4>1 DEF Course, NoError
    <3> QED
      BY <3>1, <3>2
  <2> QED
    BY <2>1, <2>2 DEF SoundOutcome, Done
<1> QED
  BY <1>4, <1>5, <1>8

-----------------------------------------------------------------------------
(* The conjunction above is an invariant of every session.                 *)
THEOREM SessionInvariant == SessionSpec => []SessionInv
<1>1. SessionInit => SessionInv
  <2> SUFFICES ASSUME SessionInit PROVE SessionInv
    OBVIOUS
  <2>1. \A c \in Calls : call[c] = [ask |-> "none", at |-> "unasked"]
    BY DEF SessionInit
  <2>2. SessionTypeOK
    BY DEF SessionInit, SessionTypeOK, CallStates
  <2>3. Toolset /\ OnRecord
    BY <2>1 DEF SessionInit, Toolset, OnRecord, Ran
  <2> QED
    BY <2>2, <2>3 DEF SessionInit, SessionInv, Course, SoundOutcome, Done, NoError
<1>2. ASSUME SessionInv, [SessionNext]_sessionVars
      PROVE  SessionInv'
  <2>1. CASE UNCHANGED sessionVars
    BY <1>2, <2>1 DEF sessionVars, sessionState, sessionResult, SessionInv, SessionTypeOK, Toolset,
                      OnRecord, Course, SoundOutcome, Done, Ran
  <2> QED
    BY <1>2, <2>1, PreToolUseKeeps, ToolEndKeeps, MessagesKeep, CloseKeeps DEF SessionNext
<1> QED
  BY <1>1, <1>2, PTL DEF SessionSpec

(* A session without an error ended by itself with every result on record; *)
(* one that ran out of its time, or whose close did, leaves neither an     *)
(* answer nor a cost (sdk.py lines 400 and 407).                           *)
THEOREM OutcomeIsSound == SessionSpec => []SoundOutcome
<1>1. SessionInv => SoundOutcome
  BY DEF SessionInv
<1> QED
  BY <1>1, SessionInvariant, PTL

(* No tool runs before a sound report of the toolset, and a citable URL    *)
(* was allowed, fetched and put on record (sdk.py lines 207 and 258).      *)
THEOREM ToolsAreVerified == SessionSpec => []ToolsRunVerified
<1>1. SessionInv => ToolsRunVerified
  <2> SUFFICES ASSUME SessionInv PROVE ToolsRunVerified
    OBVIOUS
  <2>1. \A c \in Calls : Ran(c) => "sound" \in inits /\ call[c].ask \in Tools
    BY DEF SessionInv, Toolset
  <2>2. ASSUME NEW c \in fetched
        PROVE  /\ call[c] = [ask |-> "WebFetch", at |-> "page"]
               /\ {<<"call", c>>, <<"result", c>>} \subseteq seen
    <3>1. call[c] \in CallStates /\ call[c].ask = "WebFetch" /\ call[c].at = "page"
      BY DEF SessionInv, SessionTypeOK, OnRecord
    <3>2. call[c] = [ask |-> "WebFetch", at |-> "page"]
      BY <3>1 DEF CallStates
    <3> QED
      BY <3>1, <3>2 DEF SessionInv, SessionTypeOK, OnRecord, Ran
  <2> QED
    BY <2>1, <2>2 DEF ToolsRunVerified
<1> QED
  BY <1>1, SessionInvariant, PTL
=============================================================================
