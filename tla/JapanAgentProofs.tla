-------------------------- MODULE JapanAgentProofs --------------------------
(***************************************************************************)
(* Theorems about the components of japan_agent around the execution of    *)
(* orders.  They share no state, so each is proved under its own           *)
(* specification.                                                          *)
(*                                                                         *)
(* Evidence, for any whitelist, feeds, age limits, processes and bounds.   *)
(* TicketsRestOnEvidence is about the end of a long chain, so the          *)
(* invariant follows the data along it: what an ingest has stored so far   *)
(* (Storing), what an assembly has checked so far (Checked), what a        *)
(* manifest therefore says (ManifestSound), and that decisions name        *)
(* manifests that exist.  It holds because data and manifests only grow.   *)
(*                                                                         *)
(* RiskLimits, for any account, prices, limits and lot.  The account is    *)
(* checked only through the portfolio file, so what AccountKeepsItsFloor   *)
(* needs is that an unused file is the account (FileIsAccount); the rest   *)
(* of its three properties is arithmetic: of roundings, of whole lots and  *)
(* of the NAV, a sum over any finite set of tickers.                       *)
(*                                                                         *)
(* Approvals, for any tickets, webhook threads, presses and deaths.  Its   *)
(* properties depend on what a worker still carries.  Honest says that a   *)
(* worker carries only a verdict that was given, and that a worker on its  *)
(* way to the event ledger carries the one its ticket has.                 *)
(***************************************************************************)
EXTENDS Evidence, RiskLimits, Approvals, SumLemmas, SequenceTheorems

-----------------------------------------------------------------------------
(* Evidence.                                                               *)

Items   == UNION {ItemsOf[s] : s \in Feeds}
Entries == (Whitelist \X Nat) \cup Items

Ingest   == [completed : Nat, through : Nat, stored : SUBSET Entries]
StoreJob == [pc : {"store"}, source : Sources, todo : SUBSET Entries, row : Ingest]
ReadJob  == [pc : {"sources", "prices", "items", "save"}, now : Nat,
             left : SUBSET (Sources \cup Whitelist), prices : [Whitelist -> Nat],
             shown : SUBSET Items]
DecideJob == [pc : {"decide"}, run : Nat]
Manifest == [assembled : Nat, prices : [Whitelist -> Nat], shown : SUBSET Items,
             permitted : SUBSET (Whitelist \cup Items)]
Decision == [run : Nat, cites : Citings, ticker : Whitelist]

CommandJobs == {NoJob} \cup StoreJob \cup ReadJob \cup DecideJob

EvidenceTypeOK ==
  /\ clock \in Nat
  /\ heartbeats \in [Sources -> SUBSET Ingest]
  /\ \A h \in heartbeats["PRICE"] : h.stored \subseteq Whitelist \X Nat
  /\ quotes \in [Whitelist -> Nat]
  /\ items \subseteq Items
  /\ manifests \in Seq(Manifest)
  /\ decisions \subseteq Decision
  /\ tickets \subseteq [decision : Decision, at : Nat]
  /\ job \in [Commands -> CommandJobs]

(* All of a batch is stored but what is still to do.                       *)
Storing(j) ==
  /\ j.todo \subseteq j.row.stored
  /\ j.source = "PRICE" =>
       /\ j.row.stored \subseteq Whitelist \X Nat
       /\ \A entry \in j.row.stored \ j.todo : quotes[entry[1]] >= entry[2]
  /\ j.source # "PRICE" =>
       /\ j.row.stored \subseteq ItemsOf[j.source]
       /\ j.row.stored \ j.todo \subseteq items

(* A source is covered at a time when a heartbeat says so, and a price is  *)
(* of that time, within their age limits.                                  *)
Covered(s, t)      == \E h \in heartbeats[s] : h.through \in (t - MaxAge[s])..t
Current(quoted, t) == quoted \in (t - MaxAge["PRICE"])..t

(* What an assembly has behind it at each of its places.                   *)
Checked(j) ==
  /\ j.pc # "save" => j.left # {}
  /\ j.pc = "sources" =>
       /\ j.left \subseteq Sources
       /\ \A s \in Sources \ j.left : Covered(s, j.now)
  /\ j.pc # "sources" => \A s \in Sources : Covered(s, j.now)
  /\ j.pc = "prices" =>
       /\ j.left \subseteq Whitelist
       /\ \A w \in Whitelist \ j.left : Current(j.prices[w], j.now)
  /\ j.pc \in {"items", "save"} => \A w \in Whitelist : Current(j.prices[w], j.now)
  /\ j.pc = "items" => j.left \subseteq Feeds

NamesARun(d) == d.run \in 1..Len(manifests)

JobSound(c) ==
  /\ job[c] \in StoreJob => Storing(job[c])
  /\ job[c] \in ReadJob => Checked(job[c])
  /\ job[c] \in DecideJob => NamesARun(job[c])

(* A manifest permits what it shows, which was recent when assembled.      *)
ManifestSound(k) ==
  /\ manifests[k].permitted = Whitelist \cup manifests[k].shown
  /\ \A s \in Sources : Covered(s, manifests[k].assembled)
  /\ \A w \in Whitelist : Current(manifests[k].prices[w], manifests[k].assembled)

TicketSound(t) ==
  /\ NamesARun(t.decision)
  /\ t.decision.cites \subseteq Whitelist \cup manifests[t.decision.run].shown
  /\ manifests[t.decision.run].assembled <= t.at
  /\ t.at - manifests[t.decision.run].assembled <= MaxRunAge

EvidenceInv ==
  /\ EvidenceTypeOK
  /\ HeartbeatsAreBacked
  /\ \A c \in Commands : JobSound(c)
  /\ \A k \in 1..Len(manifests) : ManifestSound(k)
  /\ \A d \in decisions : NamesARun(d)
  /\ \A t \in tickets : TicketSound(t)

-----------------------------------------------------------------------------
(* Choosing, and the shapes of a job.                                      *)
LEMMA AnyOfIn ==
  ASSUME NEW S, S # {}
  PROVE  AnyOf(S) \in S
BY DEF AnyOf

(* The larger of two numbers.                                              *)
LEMMA MaxOfTwo ==
  ASSUME NEW a \in Nat, NEW b \in Nat
  PROVE  Max({a, b}) \in Nat /\ Max({a, b}) \in {a, b} /\ Max({a, b}) >= a /\ Max({a, b}) >= b
BY DEF Max

(* A job's place tells its shape.                                          *)
LEMMA Shapes ==
  ASSUME EvidenceTypeOK, NEW c \in Commands
  PROVE  /\ job[c] \in CommandJobs
         /\ job[c].pc = "store" => job[c] \in StoreJob
         /\ job[c].pc \in {"sources", "prices", "items", "save"} => job[c] \in ReadJob
         /\ job[c].pc = "decide" => job[c] \in DecideJob
BY DEF EvidenceTypeOK, CommandJobs, NoJob, StoreJob, ReadJob, DecideJob

-----------------------------------------------------------------------------
(* The stored data only grows.                                             *)
Grows ==
  /\ \A s \in Sources : heartbeats[s] \subseteq heartbeats'[s]
  /\ \A w \in Whitelist : quotes'[w] >= quotes[w]
  /\ items \subseteq items'
  /\ Len(manifests) \in Nat /\ Len(manifests') \in Nat
  /\ Len(manifests) <= Len(manifests')
  /\ \A k \in 1..Len(manifests) : manifests'[k] = manifests[k]

(* Growth never uncovers a price that was stored.                          *)
LEMMA PriceStaysStored ==
  ASSUME EvidenceTypeOK, EvidenceTypeOK', Grows, NEW entry \in Whitelist \X Nat,
         quotes[entry[1]] >= entry[2]
  PROVE  quotes'[entry[1]] >= entry[2]
<1>1. entry[1] \in Whitelist /\ entry[2] \in Nat
  OBVIOUS
<1>2. quotes'[entry[1]] >= quotes[entry[1]]
  BY <1>1 DEF Grows
<1>3. quotes'[entry[1]] \in Nat /\ quotes[entry[1]] \in Nat
  BY <1>1 DEF EvidenceTypeOK
<1> QED
  BY <1>1, <1>2, <1>3

(* A job that is left alone stays sound while data grows.                  *)
LEMMA GrowthKeepsJobs ==
  ASSUME EvidenceInv, EvidenceTypeOK', Grows, NEW c \in Commands, job'[c] = job[c]
  PROVE  JobSound(c)'
<1>1. EvidenceTypeOK /\ JobSound(c)
  BY DEF EvidenceInv
<1>2. \A s \in Sources : \A t : Covered(s, t) => Covered(s, t)'
  BY DEF Covered, Grows
<1>3. ASSUME job[c] \in ReadJob
      PROVE  Checked(job[c])'
  BY <1>1, <1>2, <1>3 DEF JobSound, Checked, Current
<1>4. ASSUME job[c] \in StoreJob
      PROVE  Storing(job[c])'
  <2>1. Storing(job[c])
    BY <1>1, <1>4 DEF JobSound
  <2>2. ASSUME job[c].source = "PRICE", NEW entry \in job[c].row.stored \ job[c].todo
        PROVE  quotes'[entry[1]] >= entry[2]
    BY <1>1, <2>1, <2>2, PriceStaysStored DEF Storing
  <2> QED
    BY <2>1, <2>2 DEF Storing, Grows
<1>5. ASSUME job[c] \in DecideJob
      PROVE  NamesARun(job[c])'
  BY <1>1, <1>5 DEF JobSound, NamesARun, Grows
<1> QED
  BY <1>3, <1>4, <1>5 DEF JobSound

(* So does every row that was stored.                                      *)
LEMMA GrowthKeepsRows ==
  ASSUME EvidenceInv, EvidenceTypeOK', Grows
  PROVE  /\ \A k \in 1..Len(manifests) : ManifestSound(k)'
         /\ \A d \in decisions : NamesARun(d)'
         /\ \A t \in tickets : TicketSound(t)'
         /\ \A s \in Sources : \A h \in heartbeats[s] :
              IF s = "PRICE" THEN \A entry \in h.stored : quotes'[entry[1]] >= entry[2]
              ELSE h.stored \subseteq items'
<1>1. EvidenceTypeOK
  BY DEF EvidenceInv
<1>2. \A s \in Sources : \A t : Covered(s, t) => Covered(s, t)'
  BY DEF Covered, Grows
<1>3. ASSUME NEW k \in 1..Len(manifests)
      PROVE  ManifestSound(k)'
  <2>1. manifests'[k] = manifests[k] /\ ManifestSound(k)
    BY DEF Grows, EvidenceInv
  <2> QED
    BY <1>2, <2>1 DEF ManifestSound, Current
<1>4. \A d : NamesARun(d) => NamesARun(d)'
  BY DEF NamesARun, Grows
<1>5. \A t \in tickets : TicketSound(t)'
  BY <1>4 DEF TicketSound, NamesARun, Grows, EvidenceInv
<1>6. ASSUME NEW h \in heartbeats["PRICE"], NEW entry \in h.stored
      PROVE  quotes'[entry[1]] >= entry[2]
  BY <1>1, PriceStaysStored DEF EvidenceInv, HeartbeatsAreBacked, EvidenceTypeOK, Sources
<1> QED
  BY <1>3, <1>4, <1>5, <1>6 DEF EvidenceInv, HeartbeatsAreBacked, Grows

(* A turn that leaves all rows alone keeps them sound, and needs only      *)
(* leave its own job sound.                                                *)
LEMMA TurnKeeps ==
  ASSUME EvidenceInv, NEW c \in Commands, NEW j \in CommandJobs, Turn(c, j),
         UNCHANGED <<clock, heartbeats, quotes, items, manifests, decisions, tickets>>,
         j \in StoreJob => Storing(j), j \in ReadJob => Checked(j), j \in DecideJob => NamesARun(j)
  PROVE  EvidenceInv'
<1>1. EvidenceTypeOK
  BY DEF EvidenceInv
<1>2. job'[c] = j /\ \A d \in Commands \ {c} : job'[d] = job[d]
  BY <1>1 DEF Turn, EvidenceTypeOK
<1>3. EvidenceTypeOK'
  BY <1>1 DEF Turn, EvidenceTypeOK
<1>4. Grows
  BY <1>1 DEF Grows, EvidenceTypeOK
<1>5. JobSound(c)'
  <2>1. /\ j \in StoreJob => Storing(j)'
        /\ j \in ReadJob => Checked(j)'
        /\ j \in DecideJob => NamesARun(j)'
    BY DEF Storing, Checked, Covered, NamesARun
  <2> QED
    BY <1>2, <2>1 DEF JobSound, Storing, Checked, Covered, NamesARun
<1>6. \A d \in Commands : JobSound(d)'
  BY <1>2, <1>3, <1>4, <1>5, GrowthKeepsJobs
<1> QED
  BY <1>3, <1>4, <1>6, GrowthKeepsRows DEF EvidenceInv, HeartbeatsAreBacked

-----------------------------------------------------------------------------
(* Ingest.  A batch begins with everything still to do.                    *)
LEMMA BeginIngestKeeps ==
  ASSUME EvidenceInv, NEW c \in Commands, NEW source \in Sources, NEW entries \in SUBSET Entries,
         NEW completed \in Nat, NEW through \in Nat,
         BeginIngest(c, source, entries, completed, through),
         IF source = "PRICE" THEN entries \subseteq Whitelist \X Nat ELSE entries \subseteq ItemsOf[source]
  PROVE  EvidenceInv'
<1> DEFINE j == [pc |-> "store", source |-> source, todo |-> entries,
                 row |-> [completed |-> completed, through |-> through, stored |-> entries]]
<1>1. j \in StoreJob /\ j \in CommandJobs /\ j \notin ReadJob /\ j \notin DecideJob
  BY DEF StoreJob, Ingest, CommandJobs, ReadJob, DecideJob
<1>2. Storing(j)
  BY DEF Storing
<1>3. Turn(c, j) /\ UNCHANGED <<clock, heartbeats, quotes, items, manifests, decisions, tickets>>
  BY DEF BeginIngest, dataVars
<1> QED
  BY <1>1, <1>2, <1>3, TurnKeeps

(* What a price ingest or a feed's ingest begins with.                     *)
LEMMA IngestKeeps ==
  ASSUME EvidenceInv, NEW c \in Ingesters, IngestPrices(c) \/ \E s \in Feeds : IngestFeed(c, s)
  PROVE  EvidenceInv'
<1>1. clock \in Nat /\ c \in Commands
  BY DEF EvidenceInv, EvidenceTypeOK, Commands
<1>2. CASE IngestPrices(c)
  <2>1. PICK observed \in UNION {[ts -> 1..(clock + 1)] : ts \in SUBSET Whitelist \ {{}}} :
          \E latest \in {observed[t] : t \in DOMAIN observed} :
            BeginIngest(c, "PRICE", {<<t, observed[t]>> : t \in DOMAIN observed}, latest, latest)
    BY <1>2 DEF IngestPrices
  <2>2. PICK latest \in {observed[t] : t \in DOMAIN observed} :
          BeginIngest(c, "PRICE", {<<t, observed[t]>> : t \in DOMAIN observed}, latest, latest)
    BY <2>1
  <2>3. {<<t, observed[t]>> : t \in DOMAIN observed} \subseteq Whitelist \X Nat /\ latest \in Nat
    BY <1>1
  <2> QED
    BY <1>1, <2>2, <2>3, BeginIngestKeeps DEF Sources, Entries
<1>3. ASSUME NEW s \in Feeds, IngestFeed(c, s)
      PROVE  EvidenceInv'
  <2>1. PICK entries \in SUBSET ItemsOf[s], claim \in Claims(s) :
          BeginIngest(c, s, entries, claim[1], claim[2])
    BY <1>3 DEF IngestFeed
  <2>2. claim[1] \in Nat /\ claim[2] \in Nat
    BY <1>1 DEF Claims
  <2>3. s # "PRICE" /\ s \in Sources /\ entries \subseteq Entries
    BY EvidenceAssumption DEF Sources, Entries, Items
  <2> QED
    BY <1>1, <2>1, <2>2, <2>3, BeginIngestKeeps
<1> QED
  BY <1>2, <1>3

(* An entry is stored before it is taken from the list.                    *)
LEMMA StoreEntryKeeps ==
  ASSUME EvidenceInv, NEW c \in Commands, StoreEntry(c)
  PROVE  EvidenceInv'
<1> DEFINE entry == AnyOf(job[c].todo)
           left == [job[c] EXCEPT !.todo = @ \ {entry}]
<1>1. EvidenceTypeOK /\ JobSound(c)
  BY DEF EvidenceInv
<1>2. job[c] \in StoreJob /\ entry \in job[c].todo
  BY <1>1, Shapes, AnyOfIn DEF StoreEntry
<1>3. Storing(job[c]) /\ entry \in job[c].row.stored
  BY <1>1, <1>2 DEF JobSound, Storing
<1>4. left \in StoreJob /\ left.source = job[c].source /\ left.row = job[c].row
      /\ left.todo = job[c].todo \ {entry}
  BY <1>2 DEF StoreJob
<1>5. UNCHANGED <<clock, heartbeats, manifests, decisions, tickets>> /\ job' = [job EXCEPT ![c] = left]
      /\ IF job[c].source = "PRICE" THEN SaveSnapshot(entry[1], entry[2]) ELSE SaveResearchItem(entry)
  BY DEF StoreEntry, Turn
<1>6. job'[c] = left /\ \A d \in Commands \ {c} : job'[d] = job[d]
  BY <1>1, <1>5 DEF EvidenceTypeOK
<1>7. /\ quotes' \in [Whitelist -> Nat] /\ items' \subseteq Items
      /\ \A w \in Whitelist : quotes'[w] >= quotes[w]
      /\ items \subseteq items'
      /\ job[c].source = "PRICE" => quotes'[entry[1]] >= entry[2]
      /\ job[c].source # "PRICE" => entry \in items'
  <2>1. CASE job[c].source = "PRICE"
    <3>1. entry[1] \in Whitelist /\ entry[2] \in Nat
      BY <1>3, <2>1 DEF Storing
    <3>2. quotes[entry[1]] \in Nat
      BY <1>1, <3>1 DEF EvidenceTypeOK
    <3>3. quotes' = [quotes EXCEPT ![entry[1]] = Max({quotes[entry[1]], entry[2]})] /\ items' = items
      BY <1>5, <2>1 DEF SaveSnapshot
    <3>4. /\ Max({quotes[entry[1]], entry[2]}) \in Nat
          /\ Max({quotes[entry[1]], entry[2]}) >= quotes[entry[1]]
          /\ Max({quotes[entry[1]], entry[2]}) >= entry[2]
      BY <3>1, <3>2, MaxOfTwo
    <3> DEFINE larger == Max({quotes[entry[1]], entry[2]})
    <3>5. larger \in Nat /\ larger >= quotes[entry[1]] /\ larger >= entry[2]
      BY <3>4
    <3> HIDE DEF entry, larger
    <3>6. quotes \in [Whitelist -> Nat] /\ items \subseteq Items
      BY <1>1 DEF EvidenceTypeOK
    <3>7. quotes' = [quotes EXCEPT ![entry[1]] = larger]
      BY <3>3 DEF larger
    <3>8. quotes' \in [Whitelist -> Nat]
      BY <3>5, <3>6, <3>7
    <3>9. quotes'[entry[1]] = larger /\ \A w \in Whitelist \ {entry[1]} : quotes'[w] = quotes[w]
      BY <3>1, <3>6, <3>7
    <3>10. \A w \in Whitelist : quotes'[w] >= quotes[w]
      BY <3>5, <3>6, <3>9
    <3> QED
      BY <2>1, <3>3, <3>5, <3>6, <3>8, <3>9, <3>10
  <2>2. CASE job[c].source # "PRICE"
    <3>1. entry \in Items
      BY <1>2, <1>3, <2>2 DEF Storing, StoreJob, Items, Sources
    <3>2. items' = items \cup {entry} /\ quotes' = quotes
      BY <1>5, <2>2 DEF SaveResearchItem
    <3> QED
      BY <1>1, <2>2, <3>1, <3>2 DEF EvidenceTypeOK
  <2> QED
    BY <2>1, <2>2
<1>8. EvidenceTypeOK'
  BY <1>1, <1>4, <1>5, <1>7 DEF EvidenceTypeOK, CommandJobs
<1>9. Grows
  BY <1>1, <1>5, <1>7 DEF Grows, EvidenceTypeOK
<1>10. JobSound(c)'
  <2>1. job'[c] \notin ReadJob /\ job'[c] \notin DecideJob
    BY <1>4, <1>6 DEF StoreJob, ReadJob, DecideJob
  <2>2. Storing(job[c])'
    <3>1. job'[c].todo \subseteq job'[c].row.stored
      BY <1>3, <1>4, <1>6 DEF Storing
    <3>2. ASSUME job[c].source = "PRICE", NEW e \in job[c].row.stored \ left.todo
          PROVE  quotes'[e[1]] >= e[2]
      <4>1. CASE e = entry
        BY <1>7, <3>2, <4>1
      <4>2. CASE e # entry
        BY <1>1, <1>3, <1>4, <1>8, <1>9, <3>2, <4>2, PriceStaysStored DEF Storing
      <4> QED
        BY <4>1, <4>2
    <3>3. ASSUME job[c].source # "PRICE"
          PROVE  job[c].row.stored \ left.todo \subseteq items'
      BY <1>3, <1>4, <1>7, <3>3 DEF Storing
    <3>4. job[c].source = "PRICE" => job[c].row.stored \subseteq Whitelist \X Nat
      BY <1>3 DEF Storing
    <3>5. job[c].source # "PRICE" => job[c].row.stored \subseteq ItemsOf[job[c].source]
      BY <1>3 DEF Storing
    <3> HIDE DEF left, entry
    <3> QED
      BY <1>4, <1>6, <3>1, <3>2, <3>3, <3>4, <3>5 DEF Storing
  <2> QED
    BY <2>1, <2>2 DEF JobSound
<1>11. \A d \in Commands : JobSound(d)'
  BY <1>6, <1>8, <1>9, <1>10, GrowthKeepsJobs
<1> QED
  BY <1>5, <1>8, <1>9, <1>11, GrowthKeepsRows DEF EvidenceInv, HeartbeatsAreBacked

(* The heartbeat comes when nothing is left to store.                      *)
LEMMA RecordIngestKeeps ==
  ASSUME EvidenceInv, NEW c \in Commands, RecordIngest(c)
  PROVE  EvidenceInv'
<1>1. EvidenceTypeOK /\ JobSound(c)
  BY DEF EvidenceInv
<1>2. job[c] \in StoreJob /\ job[c].todo = {}
  BY <1>1, Shapes DEF RecordIngest, AllStored
<1>3. job[c].source \in Sources /\ job[c].row \in Ingest
  BY <1>2 DEF StoreJob
<1>4. UNCHANGED <<clock, quotes, items, manifests, decisions, tickets>>
      /\ heartbeats' = [heartbeats EXCEPT ![job[c].source] = @ \cup {job[c].row}]
      /\ job' = [job EXCEPT ![c] = NoJob]
  BY DEF RecordIngest, Turn
<1>5. job'[c] = NoJob /\ \A d \in Commands \ {c} : job'[d] = job[d]
  BY <1>1, <1>4 DEF EvidenceTypeOK
<1>6. heartbeats' \in [Sources -> SUBSET Ingest]
      /\ \A s \in Sources :
           heartbeats'[s] = IF s = job[c].source THEN heartbeats[s] \cup {job[c].row} ELSE heartbeats[s]
  BY <1>1, <1>3, <1>4 DEF EvidenceTypeOK
<1>7. IF job[c].source = "PRICE"
      THEN /\ job[c].row.stored \subseteq Whitelist \X Nat
           /\ \A entry \in job[c].row.stored : quotes[entry[1]] >= entry[2]
      ELSE job[c].row.stored \subseteq items
  BY <1>1, <1>2 DEF JobSound, Storing
<1>8. EvidenceTypeOK'
  <2>1. "PRICE" \in Sources
    BY DEF Sources
  <2>2. \A h \in heartbeats'["PRICE"] : h.stored \subseteq Whitelist \X Nat
    <3>1. \A h \in heartbeats["PRICE"] : h.stored \subseteq Whitelist \X Nat
      BY <1>1 DEF EvidenceTypeOK
    <3>2. \A h \in heartbeats'["PRICE"] : h \in heartbeats["PRICE"] \/ (job[c].source = "PRICE" /\ h = job[c].row)
      BY <1>6, <2>1
    <3> QED
      BY <1>7, <3>1, <3>2
  <2>3. job' \in [Commands -> CommandJobs]
    BY <1>1, <1>4 DEF EvidenceTypeOK, CommandJobs
  <2> QED
    BY <1>1, <1>4, <1>6, <2>2, <2>3 DEF EvidenceTypeOK
<1>9. Grows
  BY <1>1, <1>4, <1>6 DEF Grows, EvidenceTypeOK
<1>10. JobSound(c)'
  BY <1>5 DEF JobSound, NoJob, StoreJob, ReadJob, DecideJob
<1>11. \A d \in Commands : JobSound(d)'
  BY <1>5, <1>8, <1>9, <1>10, GrowthKeepsJobs
<1>12. HeartbeatsAreBacked'
  BY <1>4, <1>6, <1>7 DEF EvidenceInv, HeartbeatsAreBacked
<1> QED
  BY <1>4, <1>8, <1>9, <1>11, <1>12, GrowthKeepsRows DEF EvidenceInv

LEMMA GiveUpKeeps ==
  ASSUME EvidenceInv, NEW c \in Commands, Turn(c, NoJob),
         UNCHANGED <<clock, heartbeats, quotes, items, manifests, decisions, tickets>>
  PROVE  EvidenceInv'
<1>1. NoJob \in CommandJobs /\ NoJob \notin StoreJob /\ NoJob \notin ReadJob /\ NoJob \notin DecideJob
  BY DEF CommandJobs, NoJob, StoreJob, ReadJob, DecideJob
<1> QED
  BY <1>1, TurnKeeps

-----------------------------------------------------------------------------
(* Research.                                                               *)
LEMMA ReadJobTurn ==
  ASSUME EvidenceInv, NEW c \in Commands, NEW j \in ReadJob, Checked(j), Turn(c, j),
         UNCHANGED <<clock, heartbeats, quotes, items, manifests, decisions, tickets>>
  PROVE  EvidenceInv'
<1>1. j \in CommandJobs /\ j \notin StoreJob /\ j \notin DecideJob
  BY DEF CommandJobs, StoreJob, ReadJob, DecideJob
<1> QED
  BY <1>1, TurnKeeps

LEMMA BeginResearchKeeps ==
  ASSUME EvidenceInv, NEW c \in Commands, BeginResearch(c)
  PROVE  EvidenceInv'
<1> DEFINE j == [pc |-> "sources", now |-> clock, left |-> Sources,
                 prices |-> [t \in Whitelist |-> NoQuoteYet], shown |-> {}]
<1>1. clock \in Nat
  BY DEF EvidenceInv, EvidenceTypeOK
<1>2. [t \in Whitelist |-> NoQuoteYet] \in [Whitelist -> Nat]
  BY DEF NoQuoteYet
<1>3. j \in ReadJob
  BY <1>1, <1>2 DEF ReadJob
<1>4. Checked(j)
  BY DEF Checked, Sources
<1> QED
  BY <1>3, <1>4, ReadJobTurn DEF BeginResearch, dataVars

(* ReadOn goes on to the next place when nothing is left in this one.      *)
LEMMA ReadOnIs ==
  ASSUME NEW c \in Commands, job[c] \in ReadJob, NEW left \in SUBSET (Sources \cup Whitelist),
         NEW then \in {"prices", "items", "save"}
  PROVE  /\ ReadOn(c, left, then) \in ReadJob
         /\ ReadOn(c, left, then).now = job[c].now
         /\ ReadOn(c, left, then).prices = job[c].prices
         /\ ReadOn(c, left, then).shown = job[c].shown
         /\ left # {} => ReadOn(c, left, then).left = left /\ ReadOn(c, left, then).pc = job[c].pc
         /\ left = {} => /\ ReadOn(c, left, then).left = IF then = "prices" THEN Whitelist ELSE Feeds
                        /\ ReadOn(c, left, then).pc = then
<1>1. Whitelist \subseteq Sources \cup Whitelist /\ Feeds \subseteq Sources \cup Whitelist
  BY DEF Sources
<1> QED
  BY <1>1 DEF ReadOn, ReadJob

LEMMA CheckSourceKeeps ==
  ASSUME EvidenceInv, NEW c \in Commands, CheckSource(c)
  PROVE  EvidenceInv'
<1> DEFINE s == AnyOf(job[c].left)
           j == ReadOn(c, job[c].left \ {s}, "prices")
<1>1. EvidenceTypeOK /\ JobSound(c)
  BY DEF EvidenceInv
<1>2. job[c] \in ReadJob /\ job[c].pc = "sources"
  BY <1>1, Shapes DEF CheckSource
<1>3. Checked(job[c])
  BY <1>1, <1>2 DEF JobSound
<1>4. s \in job[c].left /\ job[c].left \subseteq Sources
  BY <1>2, <1>3, AnyOfIn DEF Checked
<1>5. UNCHANGED <<clock, heartbeats, quotes, items, manifests, decisions, tickets>>
  BY DEF CheckSource, dataVars
<1>6. CASE Turn(c, NoJob)
  BY <1>5, <1>6, GiveUpKeeps
<1>7. CASE (\E h \in LatestIngests(s) : Fresh(s, h, job[c].now)) /\ Turn(c, j)
  <2>1. PICK h \in heartbeats[s] : Fresh(s, h, job[c].now)
    BY <1>7 DEF LatestIngests
  <2>2. h.through \in Nat /\ job[c].now \in Nat /\ MaxAge[s] \in Nat
    BY <1>1, <1>2, <1>4, EvidenceAssumption DEF EvidenceTypeOK, Ingest, ReadJob
  <2>3. Covered(s, job[c].now)
    BY <2>1, <2>2 DEF Fresh, Covered
  <2> HIDE DEF s
  <2>4. /\ j \in ReadJob /\ j.now = job[c].now
        /\ job[c].left \ {s} # {} => j.left = job[c].left \ {s} /\ j.pc = "sources"
        /\ job[c].left \ {s} = {} => j.left = Whitelist /\ j.pc = "prices"
    BY <1>2, <1>4, ReadOnIs
  <2> HIDE DEF j
  <2>5. Checked(j)
    <3>1. CASE job[c].left \ {s} # {}
      BY <1>2, <1>3, <1>4, <2>3, <2>4, <3>1 DEF Checked
    <3>2. CASE job[c].left \ {s} = {}
      BY <1>2, <1>3, <1>4, <2>3, <2>4, <3>2, EvidenceAssumption DEF Checked
    <3> QED
      BY <3>1, <3>2
  <2> QED
    BY <1>5, <1>7, <2>4, <2>5, ReadJobTurn
<1> QED
  BY <1>6, <1>7 DEF CheckSource

LEMMA CheckQuoteKeeps ==
  ASSUME EvidenceInv, NEW c \in Commands, CheckQuote(c)
  PROVE  EvidenceInv'
<1> DEFINE t == AnyOf(job[c].left)
           read == ReadOn(c, job[c].left \ {t}, "items")
           j == [read EXCEPT !.prices[t] = quotes[t]]
<1>1. EvidenceTypeOK /\ JobSound(c)
  BY DEF EvidenceInv
<1>2. job[c] \in ReadJob /\ job[c].pc = "prices"
  BY <1>1, Shapes DEF CheckQuote
<1>3. Checked(job[c])
  BY <1>1, <1>2 DEF JobSound
<1>4. t \in job[c].left /\ job[c].left \subseteq Whitelist
  BY <1>2, <1>3, AnyOfIn DEF Checked
<1>5. UNCHANGED <<clock, heartbeats, quotes, items, manifests, decisions, tickets>>
      /\ Turn(c, IF QuoteIsUsable(quotes[t], job[c].now) THEN j ELSE NoJob)
  BY DEF CheckQuote, dataVars
<1>6. CASE ~QuoteIsUsable(quotes[t], job[c].now)
  BY <1>5, <1>6, GiveUpKeeps
<1>7. CASE QuoteIsUsable(quotes[t], job[c].now)
  <2>1. quotes[t] \in Nat /\ job[c].now \in Nat /\ MaxAge["PRICE"] \in Nat
    BY <1>1, <1>2, <1>4, EvidenceAssumption DEF EvidenceTypeOK, ReadJob, Sources
  <2>2. Current(quotes[t], job[c].now)
    BY <1>7, <2>1 DEF QuoteIsUsable, Current
  <2> HIDE DEF t
  <2>3. /\ read \in ReadJob /\ read.now = job[c].now /\ read.prices = job[c].prices
        /\ job[c].left \ {t} # {} => read.left = job[c].left \ {t} /\ read.pc = "prices"
        /\ job[c].left \ {t} = {} => read.left = Feeds /\ read.pc = "items"
    BY <1>2, <1>4, ReadOnIs
  <2> HIDE DEF read
  <2>4. /\ j \in ReadJob /\ j.now = read.now /\ j.left = read.left /\ j.pc = read.pc
        /\ j.prices = [read.prices EXCEPT ![t] = quotes[t]]
    BY <2>1, <2>3 DEF ReadJob
  <2> HIDE DEF j
  <2>5. j.prices[t] = quotes[t] /\ \A w \in Whitelist \ {t} : j.prices[w] = job[c].prices[w]
    BY <1>2, <1>4, <2>3, <2>4 DEF ReadJob
  <2>6. \A w \in Whitelist \ (job[c].left \ {t}) : Current(j.prices[w], job[c].now)
    BY <1>2, <1>3, <2>2, <2>5 DEF Checked
  <2>7. Checked(j)
    <3>1. CASE job[c].left \ {t} # {}
      BY <1>2, <1>3, <1>4, <2>3, <2>4, <2>6, <3>1 DEF Checked
    <3>2. CASE job[c].left \ {t} = {}
      BY <1>2, <1>3, <1>4, <2>3, <2>4, <2>6, <3>2, EvidenceAssumption DEF Checked
    <3> QED
      BY <3>1, <3>2
  <2> QED
    BY <1>5, <1>7, <2>4, <2>7, ReadJobTurn
<1> QED
  BY <1>6, <1>7

LEMMA ReadItemsKeeps ==
  ASSUME EvidenceInv, NEW c \in Commands, ReadItems(c)
  PROVE  EvidenceInv'
<1> DEFINE s == AnyOf(job[c].left)
           read == ReadOn(c, job[c].left \ {s}, "save")
           j == [read EXCEPT !.shown = @ \cup Recent(s)]
<1>1. EvidenceTypeOK /\ JobSound(c)
  BY DEF EvidenceInv
<1>2. job[c] \in ReadJob /\ job[c].pc = "items"
  BY <1>1, Shapes DEF ReadItems
<1>3. Checked(job[c])
  BY <1>1, <1>2 DEF JobSound
<1>4. s \in job[c].left /\ job[c].left \subseteq Feeds /\ job[c].left \subseteq Sources
  BY <1>2, <1>3, AnyOfIn DEF Checked, Sources
<1>5. UNCHANGED <<clock, heartbeats, quotes, items, manifests, decisions, tickets>> /\ Turn(c, j)
  BY DEF ReadItems, dataVars
<1>6. Recent(s) \subseteq Items
  BY <1>1 DEF Recent, EvidenceTypeOK
<1> HIDE DEF s
<1>7. /\ read \in ReadJob /\ read.now = job[c].now /\ read.prices = job[c].prices
      /\ job[c].left \ {s} # {} => read.left = job[c].left \ {s} /\ read.pc = "items"
      /\ job[c].left \ {s} = {} => read.pc = "save"
  BY <1>2, <1>4, ReadOnIs
<1> HIDE DEF read
<1>8. /\ j \in ReadJob /\ j.now = read.now /\ j.left = read.left /\ j.pc = read.pc
      /\ j.prices = read.prices
  BY <1>6, <1>7 DEF ReadJob
<1> HIDE DEF j
<1>9. Checked(j)
  <2>1. CASE job[c].left \ {s} # {}
    BY <1>2, <1>3, <1>4, <1>7, <1>8, <2>1 DEF Checked
  <2>2. CASE job[c].left \ {s} = {}
    BY <1>2, <1>3, <1>7, <1>8, <2>2 DEF Checked
  <2> QED
    BY <2>1, <2>2
<1> QED
  BY <1>5, <1>8, <1>9, ReadJobTurn

(* The manifest records what the assembly has checked.                     *)
LEMMA SaveManifestKeeps ==
  ASSUME EvidenceInv, NEW c \in Commands, SaveManifest(c)
  PROVE  EvidenceInv'
<1> DEFINE m == [assembled |-> job[c].now, prices |-> job[c].prices,
                 shown |-> job[c].shown, permitted |-> PermittedCitations(c)]
           n == Len(manifests)
<1>1. EvidenceTypeOK /\ JobSound(c)
  BY DEF EvidenceInv
<1>2. job[c] \in ReadJob /\ job[c].pc = "save"
  BY <1>1, Shapes DEF SaveManifest
<1>3. Checked(job[c])
  BY <1>1, <1>2 DEF JobSound
<1>4. m \in Manifest
  BY <1>2 DEF Manifest, ReadJob, PermittedCitations
<1>5. m.assembled = job[c].now /\ m.prices = job[c].prices /\ m.permitted = Whitelist \cup m.shown
  BY DEF PermittedCitations
<1>6. UNCHANGED <<clock, heartbeats, quotes, items, decisions, tickets>>
      /\ manifests' = Append(manifests, m) /\ Turn(c, [pc |-> "decide", run |-> Len(manifests')])
  BY DEF SaveManifest, dataVars
<1> HIDE DEF m
<1>7. manifests \in Seq(Manifest) /\ n \in Nat
  BY <1>1 DEF EvidenceTypeOK
<1>8. /\ manifests' \in Seq(Manifest) /\ Len(manifests') = n + 1 /\ manifests'[n + 1] = m
      /\ \A k \in 1..n : manifests'[k] = manifests[k]
  BY <1>4, <1>6, <1>7
<1>9. job' = [job EXCEPT ![c] = [pc |-> "decide", run |-> n + 1]]
  BY <1>6, <1>8 DEF Turn
<1>10. job'[c] = [pc |-> "decide", run |-> n + 1] /\ \A d \in Commands \ {c} : job'[d] = job[d]
  BY <1>1, <1>9 DEF EvidenceTypeOK
<1>11. [pc |-> "decide", run |-> n + 1] \in DecideJob
  BY <1>7 DEF DecideJob
<1>12. EvidenceTypeOK'
  <2>1. job' \in [Commands -> CommandJobs]
    BY <1>1, <1>9, <1>11 DEF EvidenceTypeOK, CommandJobs
  <2> QED
    BY <1>1, <1>6, <1>8, <2>1 DEF EvidenceTypeOK
<1>13. Grows
  BY <1>1, <1>6, <1>7, <1>8 DEF Grows, EvidenceTypeOK
<1>14. JobSound(c)'
  <2>1. job'[c] \notin StoreJob /\ job'[c] \notin ReadJob
    BY <1>10 DEF StoreJob, ReadJob
  <2>2. NamesARun(job[c])'
    BY <1>7, <1>8, <1>10 DEF NamesARun
  <2> QED
    BY <2>1, <2>2 DEF JobSound
<1>15. \A d \in Commands : JobSound(d)'
  BY <1>10, <1>12, <1>13, <1>14, GrowthKeepsJobs
<1>16. ASSUME NEW k \in 1..Len(manifests')
       PROVE  ManifestSound(k)'
  <2>1. CASE k = n + 1
    <3>1. manifests'[k] = m
      BY <1>8, <2>1
    <3> QED
      BY <1>2, <1>3, <1>5, <1>6, <3>1 DEF ManifestSound, Checked, Covered
  <2>2. CASE k # n + 1
    <3>1. k \in 1..Len(manifests)
      BY <1>7, <1>8, <2>2
    <3> QED
      BY <1>12, <1>13, <3>1, GrowthKeepsRows
  <2> QED
    BY <2>1, <2>2
<1> QED
  BY <1>6, <1>12, <1>13, <1>15, <1>16, GrowthKeepsRows DEF EvidenceInv, HeartbeatsAreBacked

(* A decision names the run whose manifest was saved for it.               *)
LEMMA DecideTradeKeeps ==
  ASSUME EvidenceInv, NEW c \in Commands, DecideTrade(c)
  PROVE  EvidenceInv'
<1>1. EvidenceTypeOK /\ JobSound(c)
  BY DEF EvidenceInv
<1>2. job[c] \in DecideJob
  BY <1>1, Shapes DEF DecideTrade
<1>3. NamesARun(job[c]) /\ job[c].run \in Nat
  BY <1>1, <1>2 DEF JobSound, DecideJob
<1>4. PICK cites \in Citings, t \in Whitelist :
        decisions' = decisions \cup {[run |-> job[c].run, cites |-> cites, ticker |-> t]}
  BY DEF DecideTrade
<1>5. UNCHANGED <<clock, heartbeats, quotes, items, manifests, tickets>> /\ Turn(c, NoJob)
  BY DEF DecideTrade, dataVars
<1>6. job'[c] = NoJob /\ \A d \in Commands \ {c} : job'[d] = job[d]
  BY <1>1, <1>5 DEF EvidenceTypeOK, Turn
<1>7. EvidenceTypeOK'
  <2>1. job' \in [Commands -> CommandJobs]
    BY <1>1, <1>5 DEF EvidenceTypeOK, Turn, CommandJobs
  <2>2. decisions' \subseteq Decision
    BY <1>1, <1>3, <1>4 DEF EvidenceTypeOK, Decision
  <2> QED
    BY <1>1, <1>5, <2>1, <2>2 DEF EvidenceTypeOK
<1>8. Grows
  BY <1>1, <1>5 DEF Grows, EvidenceTypeOK
<1>9. JobSound(c)'
  BY <1>6 DEF JobSound, NoJob, StoreJob, ReadJob, DecideJob
<1>10. \A d \in Commands : JobSound(d)'
  BY <1>6, <1>7, <1>8, <1>9, GrowthKeepsJobs
<1>11. \A d \in decisions' : NamesARun(d)'
  BY <1>3, <1>4, <1>5 DEF EvidenceInv, NamesARun
<1> QED
  BY <1>5, <1>7, <1>8, <1>10, <1>11, GrowthKeepsRows DEF EvidenceInv, HeartbeatsAreBacked

-----------------------------------------------------------------------------
(* A ticket is proposed on a decision whose citations hold.                *)
LEMMA ProposeOnKeeps ==
  ASSUME EvidenceInv, NEW d \in decisions, ProposeOn(d)
  PROVE  EvidenceInv'
<1>1. EvidenceTypeOK /\ NamesARun(d) /\ clock \in Nat /\ d \in Decision
  BY DEF EvidenceInv, EvidenceTypeOK
<1>2. UNCHANGED <<clock, heartbeats, quotes, items, manifests, decisions, job>>
      /\ tickets' = tickets \cup {[decision |-> d, at |-> clock]}
  BY DEF ProposeOn, dataVars
<1>3. EvidenceTypeOK'
  BY <1>1, <1>2 DEF EvidenceTypeOK
<1>4. Grows
  BY <1>1, <1>2 DEF Grows, EvidenceTypeOK
<1>5. ManifestSound(d.run)
  BY <1>1 DEF EvidenceInv, NamesARun
<1>6. TicketSound([decision |-> d, at |-> clock])
  BY <1>1, <1>5 DEF ProposeOn, CitationsHold, TicketSound, ManifestSound
<1>7. \A t \in tickets' : TicketSound(t)'
  BY <1>2, <1>6 DEF EvidenceInv, TicketSound, NamesARun
<1>8. \A c \in Commands : JobSound(c)'
  BY <1>2, <1>3, <1>4, GrowthKeepsJobs
<1> QED
  BY <1>2, <1>3, <1>4, <1>7, <1>8, GrowthKeepsRows DEF EvidenceInv, HeartbeatsAreBacked

LEMMA TimePassesKeeps ==
  ASSUME EvidenceInv, clock' \in Nat,
         UNCHANGED <<heartbeats, quotes, items, manifests, decisions, tickets, job>>
  PROVE  EvidenceInv'
<1>1. EvidenceTypeOK
  BY DEF EvidenceInv
<1>2. EvidenceTypeOK'
  BY <1>1 DEF EvidenceTypeOK
<1>3. Grows
  BY <1>1 DEF Grows, EvidenceTypeOK
<1>4. \A c \in Commands : JobSound(c)'
  BY <1>2, <1>3, GrowthKeepsJobs
<1> QED
  BY <1>2, <1>3, <1>4, GrowthKeepsRows DEF EvidenceInv, HeartbeatsAreBacked

(* Everything above, for every step.                                       *)
THEOREM EvidenceInvariant == EvidenceSpec => []EvidenceInv
<1>1. EvidenceInit => EvidenceInv
  <2> SUFFICES ASSUME EvidenceInit PROVE EvidenceInv
    OBVIOUS
  <2>1. EvidenceTypeOK
    BY DEF EvidenceInit, EvidenceTypeOK, CommandJobs, Sources, NoQuoteYet
  <2>2. \A c \in Commands : JobSound(c)
    BY DEF EvidenceInit, JobSound, NoJob, StoreJob, ReadJob, DecideJob
  <2> QED
    BY <2>1, <2>2 DEF EvidenceInit, EvidenceInv, HeartbeatsAreBacked
<1>2. ASSUME EvidenceInv, [EvidenceNext]_evidenceVars
      PROVE  EvidenceInv'
  <2>1. CASE UNCHANGED evidenceVars
    <3>1. clock' \in Nat
      BY <1>2, <2>1 DEF evidenceVars, EvidenceInv, EvidenceTypeOK
    <3> QED
      BY <1>2, <2>1, <3>1, TimePassesKeeps DEF evidenceVars, dataVars
  <2>2. CASE TimePasses
    <3>1. clock' \in Nat
      BY <1>2, <2>2 DEF TimePasses, EvidenceInv, EvidenceTypeOK
    <3> QED
      BY <1>2, <2>2, <3>1, TimePassesKeeps DEF TimePasses, dataVars
  <2>3. ASSUME NEW c \in Ingesters,
               \/ IngestPrices(c) \/ StoreEntry(c) \/ RecordIngest(c)
               \/ \E s \in Feeds : IngestFeed(c, s)
        PROVE  EvidenceInv'
    BY <1>2, <2>3, IngestKeeps, StoreEntryKeeps, RecordIngestKeeps DEF Commands
  <2>4. ASSUME NEW c \in Researchers,
               \/ BeginResearch(c) \/ CheckSource(c) \/ CheckQuote(c) \/ ReadItems(c)
               \/ SaveManifest(c) \/ DecideTrade(c)
        PROVE  EvidenceInv'
    BY <1>2, <2>4, BeginResearchKeeps, CheckSourceKeeps, CheckQuoteKeeps, ReadItemsKeeps,
       SaveManifestKeeps, DecideTradeKeeps DEF Commands
  <2>5. ASSUME NEW c \in Commands, GiveUp(c)
        PROVE  EvidenceInv'
    BY <1>2, <2>5, GiveUpKeeps DEF GiveUp, dataVars
  <2> QED
    BY <1>2, <2>1, <2>2, <2>3, <2>4, <2>5, ProposeOnKeeps DEF EvidenceNext
<1> QED
  BY <1>1, <1>2, PTL DEF EvidenceSpec

(* A heartbeat is backed by the data it counts, and every ticket cites     *)
(* what the model of its run was shown, covered and priced within the age  *)
(* limits of the snapshot and of the run together (workflow.py line 33,    *)
(* snapshot.py line 51).                                                   *)
THEOREM TicketsRest == EvidenceSpec => []TicketsRestOnEvidence
<1>1. EvidenceInv => TicketsRestOnEvidence
  <2> SUFFICES ASSUME EvidenceInv, NEW t \in tickets
               PROVE  /\ t.decision.cites \subseteq Whitelist \cup manifests[t.decision.run].shown
                      /\ RecentFor(t)
    BY DEF EvidenceInv, TicketsRestOnEvidence
  <2> DEFINE known == manifests[t.decision.run]
  <2>1. TicketSound(t) /\ ManifestSound(t.decision.run)
    BY DEF EvidenceInv, TicketSound, NamesARun
  <2>2. known \in Manifest /\ t.at \in Nat /\ known.assembled \in Nat
    <3>1. manifests \in Seq(Manifest) /\ t \in [decision : Decision, at : Nat]
      BY DEF EvidenceInv, EvidenceTypeOK
    <3>2. t.decision.run \in 1..Len(manifests)
      BY <2>1 DEF TicketSound, NamesARun
    <3>3. known \in Manifest
      BY <3>1, <3>2
    <3> QED
      BY <3>1, <3>3 DEF Manifest
  <2>3. ASSUME NEW s \in Sources
        PROVE  \E h \in heartbeats[s] : h.through \in (t.at - MaxRunAge - MaxAge[s])..known.assembled
    <3>1. PICK h \in heartbeats[s] : h.through \in (known.assembled - MaxAge[s])..known.assembled
      BY <2>1 DEF ManifestSound, Covered
    <3>2. MaxAge[s] \in Nat /\ MaxRunAge \in Nat
      BY EvidenceAssumption
    <3>3. h.through >= t.at - MaxRunAge - MaxAge[s]
      BY <2>1, <2>2, <3>1, <3>2 DEF TicketSound
    <3> QED
      BY <2>2, <3>1, <3>2, <3>3
  <2>4. ASSUME NEW w \in Whitelist
        PROVE  known.prices[w] \in (t.at - MaxRunAge - MaxAge["PRICE"])..known.assembled
    <3>1. known.prices[w] \in (known.assembled - MaxAge["PRICE"])..known.assembled
      BY <2>1 DEF ManifestSound, Current
    <3>2. MaxAge["PRICE"] \in Nat /\ MaxRunAge \in Nat
      BY EvidenceAssumption DEF Sources
    <3> QED
      BY <2>1, <2>2, <3>1, <3>2 DEF TicketSound
  <2> QED
    BY <2>1, <2>3, <2>4 DEF TicketSound, RecentFor
<1> QED
  BY <1>1, EvidenceInvariant, PTL

-----------------------------------------------------------------------------
(* The risk engine: roundings.                                             *)

(* Whole numbers divided by a positive one. *)
LEMMA Divides ==
  ASSUME NEW n \in Int, NEW d \in Nat \ {0}
  PROVE  \E q, r \in Int : q = n \div d /\ r = n % d /\ 0 <= r /\ r < d /\ n = d * q + r
<1>1. PICK q \in Int : q = n \div d
  OBVIOUS
<1>2. PICK r \in Int : r = n % d /\ 0 <= r /\ r < d
  <2>1. n % d \in 0..(d - 1)
    OBVIOUS
  <2> QED
    BY <2>1
<1>3. n = d * q + r
  BY ONLY n \in Int, d \in Nat \ {0}, q \in Int, r \in Int, <1>1, <1>2
<1> QED
  BY <1>1, <1>2, <1>3

(* To the nearest penny: never off by more than half of one. *)
LEMMA Rounds ==
  ASSUME NEW n \in Int, NEW d \in Nat \ {0}
  PROVE  /\ ToPence(n, d) \in Int
         /\ 2 * n <= 2 * (d * ToPence(n, d)) + d
         /\ 2 * (d * ToPence(n, d)) <= 2 * n + d
<1>1. PICK q, r \in Int : q = n \div d /\ r = n % d /\ 0 <= r /\ r < d /\ n = d * q + r
  BY Divides
<1>2. PICK m \in Int : m = d * q
  OBVIOUS
<1>3. /\ n = m + r /\ 0 <= r /\ r < d /\ m \in Int /\ r \in Int
      /\ d * (q + 1) = m + d
  BY <1>1, <1>2
<1>4. CASE 2 * r > d \/ (2 * r = d /\ q % 2 = 1)
  <2>1. ToPence(n, d) = q + 1 /\ 2 * r >= d
    BY <1>1, <1>4 DEF ToPence
  <2>2. d * ToPence(n, d) = m + d
    BY <1>3, <2>1
  <2>3. 2 * n <= 2 * (m + d) + d /\ 2 * (m + d) <= 2 * n + d
    BY <1>3, <2>1
  <2> QED
    BY <2>1, <2>2, <2>3
<1>5. CASE ~(2 * r > d \/ (2 * r = d /\ q % 2 = 1))
  <2>1. ToPence(n, d) = q /\ 2 * r <= d
    BY <1>1, <1>5 DEF ToPence
  <2>2. d * ToPence(n, d) = m
    BY <1>2, <2>1
  <2>3. 2 * n <= 2 * m + d /\ 2 * m <= 2 * n + d
    BY <1>3, <2>1
  <2> QED
    BY <2>1, <2>2, <2>3
<1> QED
  BY <1>4, <1>5

(* What an order is worth, against what it is filled at. *)
LEMMA ValueIs ==
  ASSUME NEW n \in Nat, NEW p \in Nat
  PROVE  /\ Value(n, p) \in Int /\ n * p \in Nat
         /\ 2 * (n * p) <= 2 * Value(n, p) + Lot
         /\ 2 * Value(n, p) <= 2 * (n * p) + Lot
<1>1. n * p \in Nat /\ Lot \in Nat \ {0}
  BY RiskAssumption
<1> DEFINE m == n * p
<1>2. /\ ToPence(m, Lot) \in Int
      /\ 2 * m <= 2 * (Lot * ToPence(m, Lot)) + Lot
      /\ 2 * (Lot * ToPence(m, Lot)) <= 2 * m + Lot
  BY <1>1, Rounds
<1> QED
  BY <1>1, <1>2 DEF Value

(* A check that finds nothing wrong. *)
LEMMA Validated ==
  ASSUME NEW ticket, NEW t, NEW f, NEW p, NEW count, Nav(f) \in Int,
         ValidateBreaches(ticket, t, f, p, count) = {}
  PROVE  /\ t \in DOMAIN Instruments /\ ~(Nav(f) <= 0)
         /\ ~(ticket.side = "BUY" /\ f.cash - Value(ticket.quantity, p) < Lot * Floor)
         /\ ~(ticket.side = "SELL" /\ ticket.quantity > f.quantity[t])
         /\ ~(Projected(ticket.side, t, f, Value(ticket.quantity, p)) < 0)
         /\ LimitBreaches(t, f, Projected(ticket.side, t, f, Value(ticket.quantity, p))) = {}
<1> DEFINE value     == Value(ticket.quantity, p)
           projected == Projected(ticket.side, t, f, value)
<1>1. /\ Breach(t \notin DOMAIN Instruments, "NOT_WHITELISTED") = {}
      /\ Breach(Nav(f) <= 0, "NAV_INVALID") = {}
      /\ CashBreach(ticket.side, f, value) = {}
      /\ SharesBreach(ticket.side, t, f, ticket.quantity) = {}
      /\ Breach(projected < 0, "NEGATIVE_POSITION") = {}
      /\ (IF t \in DOMAIN Instruments /\ Nav(f) > 0 THEN LimitBreaches(t, f, projected) ELSE {}) = {}
  BY DEF ValidateBreaches
<1>2. t \in DOMAIN Instruments /\ ~(Nav(f) <= 0) /\ ~(projected < 0)
  BY <1>1 DEF Breach
<1>3. /\ ~(ticket.side = "BUY" /\ f.cash - value < Lot * Floor)
      /\ ~(ticket.side = "SELL" /\ ticket.quantity > f.quantity[t])
  BY <1>1 DEF Breach, CashBreach, SharesBreach
<1> QED
  BY <1>1, <1>2, <1>3

-----------------------------------------------------------------------------
(* The risk engine: the account and its file.                              *)

FileType   == [cash : Int, quantity : [Tickers -> Int], value : [Tickers -> Int]]
TicketType == [side : {"BUY", "SELL"}, reference : Quotes, quantity : Nat]

RiskTypeOK ==
  /\ account \in [cash : Int, quantity : [Tickers -> Int]]
  /\ price \in [Tickers -> Quotes]
  /\ file \in FileType
  /\ used \in Nat /\ reused \in BOOLEAN /\ orders \in Nat
  /\ open \in [Tickers -> TicketType \cup {NoTicketYet}]

FileIsAccount ==
  used = 0 => file.cash = account.cash /\ file.quantity = account.quantity

RiskInv == RiskTypeOK /\ FileIsAccount /\ AccountKeepsItsFloor

(* The net asset value of a file is a number. *)
LEMMA NavIsInt == ASSUME NEW f \in FileType PROVE Nav(f) \in Int
<1>1. f.cash \in Int /\ \A t \in Tickers : f.value[t] \in Int
  BY DEF FileType
<1>2. SumFunctionOnSet(f.value, Tickers) \in Int
  BY <1>1, SumType, RiskAssumption
<1> QED
  BY <1>1, <1>2 DEF Nav

(* The fraction that binds is one of the two. *)
LEMMA FractionIs == ASSUME NEW t \in DOMAIN Instruments PROVE Fraction(t) \in Nat
<1> DEFINE a == Instruments[t].fraction
<1>1. a \in Nat /\ MaxFraction \in Nat
  BY RiskAssumption
<1> DEFINE S == {a, MaxFraction}
<1>2. \E x \in S : \A y \in S : x <= y
  <2> HIDE DEF a
  <2>1. CASE a <= MaxFraction
    BY <1>1, <2>1
  <2>2. CASE ~(a <= MaxFraction)
    BY <1>1, <2>2
  <2> QED
    BY <2>1, <2>2
<1>3. (CHOOSE x \in S : \A y \in S : x <= y) \in S
  <2> HIDE DEF S
  <2> QED
    BY <1>2
<1>4. Fraction(t) = CHOOSE x \in S : \A y \in S : x <= y
  BY DEF Fraction, Min
<1> QED
  BY <1>1, <1>3, <1>4

(* What an accepted decision says. *)
LEMMA Built ==
  ASSUME NEW side, NEW weight, NEW t, NEW f, NEW p, NEW duplicate, NEW count,
         BuildBreaches(side, weight, t, f, p, duplicate, count) = {}
  PROVE  /\ side # "HOLD" /\ t \in DOMAIN Instruments /\ p # NoQuote
         /\ ~(Nav(f) <= 0) /\ OrderBreaches(side, weight, t, f, p) = {}
         /\ ~(count >= MaxOrders) /\ Admission(side, t, p, duplicate, count) = {}
<1>1. Admission(side, t, p, duplicate, count) = {}
  BY DEF BuildBreaches
<1>2. ~(Nav(f) <= 0) /\ OrderBreaches(side, weight, t, f, p) = {}
  BY <1>1 DEF BuildBreaches
<1>3. /\ Breach(side = "HOLD", "HOLD") = {} /\ Breach(t \notin DOMAIN Instruments, "NOT_WHITELISTED") = {}
      /\ Breach(p = NoQuote, "NO_USABLE_PRICE") = {} /\ Breach(count >= MaxOrders, "WEEKLY_TRADE_LIMIT") = {}
  BY <1>1 DEF Admission
<1> QED
  BY <1>1, <1>2, <1>3 DEF Breach

(* The quantity that brings a position to its target. *)
LEMMA QuantityIs ==
  ASSUME NEW weight \in Nat, NEW t \in Tickers, NEW f \in FileType, NEW p \in Nat \ {0}
  PROVE  /\ Delta(weight, t, f) \in Int /\ OrderQuantity(weight, t, f, p) \in Nat
         /\ Lot * ToPence(weight * Nav(f), 100 * Lot) \in Int
<1>1. Nav(f) \in Int /\ f.value[t] \in Int /\ Lot \in Nat \ {0}
  BY NavIsInt, RiskAssumption DEF FileType
<1>2. weight * Nav(f) \in Int /\ 100 * Lot \in Nat \ {0}
  BY <1>1
<1>3. ToPence(weight * Nav(f), 100 * Lot) \in Int
  BY <1>2, Rounds
<1>4. Lot * ToPence(weight * Nav(f), 100 * Lot) \in Int
  BY <1>1, <1>3
<1>5. Delta(weight, t, f) \in Int
  BY <1>1, <1>4 DEF Delta
<1>6. Abs(Delta(weight, t, f)) \in Nat
  BY <1>5 DEF Abs
<1>7. \A n \in Nat : n \div p \in Nat
  OBVIOUS
<1> QED
  BY <1>4, <1>5, <1>6, <1>7 DEF OrderQuantity

(* What each position is worth is a number. *)
LEMMA Worths ==
  ASSUME NEW q, NEW p, \A t \in Tickers : q[t] \in Int /\ p[t] \in Int
  PROVE  [t \in Tickers |-> q[t] * p[t]] \in [Tickers -> Int]
<1>1. \A a, b \in Int : a * b \in Int
  OBVIOUS
<1>2. \A t \in Tickers : q[t] * p[t] \in Int
  <2> TAKE t \in Tickers
  <2>1. PICK a, b \in Int : a = q[t] /\ b = p[t]
    OBVIOUS
  <2>2. a * b \in Int
    BY <1>1
  <2> QED
    BY <2>1, <2>2
<1> QED
  BY ONLY <1>2

(* The types, and that an unused file is the account. *)
LEMMA RiskStep ==
  ASSUME RiskInv, [RiskNext]_riskVars
  PROVE  RiskTypeOK' /\ FileIsAccount'
<1>1. /\ account \in [cash : Int, quantity : [Tickers -> Int]] /\ price \in [Tickers -> Quotes]
      /\ file \in FileType /\ used \in Nat /\ reused \in BOOLEAN /\ orders \in Nat
      /\ open \in [Tickers -> TicketType \cup {NoTicketYet}] /\ Quotes \subseteq Nat \ {0} /\ Weights \subseteq Nat
  BY RiskAssumption DEF RiskInv, RiskTypeOK
<1>2. CASE UNCHANGED riskVars
  BY <1>1, <1>2 DEF riskVars, RiskTypeOK, RiskInv, FileIsAccount
<1>3. CASE NewFile
  <2>1. Snapshot \in FileType /\ Snapshot.cash = account.cash /\ Snapshot.quantity = account.quantity
    <3>1. \A t \in Tickers : account.quantity[t] \in Int /\ price[t] \in Int
      <4>1. \A x \in Quotes : x \in Int
        BY <1>1
      <4> QED
        BY ONLY <1>1, <4>1
    <3> DEFINE v == [t \in Tickers |-> account.quantity[t] * price[t]]
    <3>2. v \in [Tickers -> Int]
      BY ONLY <3>1, Worths
    <3>3. Snapshot = [cash |-> account.cash, quantity |-> account.quantity, value |-> v]
      BY DEF Snapshot
    <3> HIDE DEF v
    <3> QED
      BY <1>1, <3>2, <3>3 DEF FileType
  <2>2. /\ account' = account /\ price' = price /\ file' = Snapshot /\ used' = 0 /\ reused' = reused
        /\ orders' = orders /\ open' = open
    BY <1>3 DEF NewFile
  <2> QED
    BY <1>1, <2>1, <2>2 DEF RiskTypeOK, FileIsAccount
<1>4. ASSUME NEW t \in Tickers, PriceMoves(t) PROVE RiskTypeOK' /\ FileIsAccount'
  BY <1>1, <1>4 DEF PriceMoves, RiskTypeOK, RiskInv, FileIsAccount
<1>5. ASSUME NEW t \in Tickers, Lapse(t) PROVE RiskTypeOK' /\ FileIsAccount'
  BY <1>1, <1>5 DEF Lapse, RiskTypeOK, RiskInv, FileIsAccount
<1>6. ASSUME NEW t \in Tickers, NEW side \in {"BUY", "SELL", "HOLD"}, NEW weight \in Weights,
             NEW p \in Quotes \cup {NoQuote}, Propose(t, side, weight, p)
      PROVE  RiskTypeOK' /\ FileIsAccount'
  <2>1. side # "HOLD" /\ p # NoQuote
    BY <1>6, Built DEF Propose
  <2>2. OrderQuantity(weight, t, file, p) \in Nat
    BY <1>1, <2>1, QuantityIs
  <2> DEFINE x == [side |-> side, reference |-> p, quantity |-> OrderQuantity(weight, t, file, p)]
  <2>3. x \in TicketType
    BY <2>1, <2>2 DEF TicketType
  <2>4. /\ open' = [open EXCEPT ![t] = x] /\ account' = account /\ price' = price /\ file' = file
        /\ used' = used /\ reused' = reused /\ orders' = orders
    BY <1>6 DEF Propose
  <2> HIDE DEF x
  <2> QED
    BY <1>1, <2>3, <2>4 DEF RiskTypeOK, RiskInv, FileIsAccount
<1>7. ASSUME NEW t \in Tickers, Execute(t) PROVE RiskTypeOK' /\ FileIsAccount'
  <2> DEFINE signed == IF open[t].side = "BUY" THEN open[t].quantity ELSE -open[t].quantity
  <2>1. open[t] \in TicketType /\ price[t] \in Nat
    BY <1>1, <1>7 DEF Execute
  <2>2. signed \in Int
    BY <2>1 DEF TicketType
  <2>3. account' = [cash |-> account.cash - signed * price[t],
                    quantity |-> [account.quantity EXCEPT ![t] = @ + signed]]
    BY <1>7 DEF Execute, Fill
  <2> HIDE DEF signed
  <2>4. account' \in [cash : Int, quantity : [Tickers -> Int]]
    <3>1. signed * price[t] \in Int
      BY <2>1, <2>2
    <3> QED
      BY <1>1, <2>2, <2>3, <3>1
  <2>5. /\ open' = [open EXCEPT ![t] = NoTicketYet] /\ orders' = orders + 1 /\ used' = used + 1
        /\ reused' = (reused \/ used > 0) /\ price' = price /\ file' = file
    BY <1>7 DEF Execute
  <2> QED
    BY <1>1, <2>4, <2>5 DEF RiskTypeOK, FileIsAccount
<1> QED
  BY <1>2, <1>3, <1>4, <1>5, <1>6, <1>7 DEF RiskNext

(* An order that passed the checks on the account itself keeps the floor   *)
(* and sells nothing that is not held.                                     *)
LEMMA ExecuteKeepsFloor ==
  ASSUME RiskInv, NEW t \in Tickers, Execute(t), ~reused'
  PROVE  /\ 2 * account'.cash >= 2 * (Lot * Floor) - Lot
         /\ \A u \in Tickers : account'.quantity[u] >= 0
<1> DEFINE n == open[t].quantity
           p == price[t]
           value == Value(n, p)
<1>1. /\ account \in [cash : Int, quantity : [Tickers -> Int]] /\ file \in FileType
      /\ used \in Nat /\ Lot \in Nat \ {0} /\ Floor \in Nat /\ Lot * Floor \in Int
      /\ open[t] \in TicketType /\ n \in Nat /\ p \in Nat
  <2>1. /\ account \in [cash : Int, quantity : [Tickers -> Int]] /\ file \in FileType
        /\ used \in Nat /\ open \in [Tickers -> TicketType \cup {NoTicketYet}]
        /\ price \in [Tickers -> Quotes]
    BY DEF RiskInv, RiskTypeOK
  <2>2. Lot \in Nat \ {0} /\ Floor \in Nat /\ Quotes \subseteq Nat \ {0}
    BY RiskAssumption
  <2>3. open[t] # NoTicketYet
    BY DEF Execute
  <2>4. open[t] \in TicketType /\ p \in Nat
    BY <2>1, <2>2, <2>3
  <2>5. n \in Nat
    BY <2>4 DEF TicketType
  <2>6. Lot * Floor \in Int
    BY <2>2
  <2> QED
    BY <2>1, <2>2, <2>4, <2>5, <2>6
<1>2. used = 0 /\ ~reused
  <2>1. reused' = (reused \/ used > 0)
    BY DEF Execute
  <2>2. ~reused /\ ~(used > 0)
    BY <2>1
  <2> QED
    BY ONLY <1>1, <2>2
<1>3. file.cash = account.cash /\ file.quantity = account.quantity
  BY <1>2 DEF RiskInv, FileIsAccount
<1>4. /\ 2 * account.cash >= 2 * (Lot * Floor) - Lot
      /\ \A u \in Tickers : account.quantity[u] >= 0
  BY <1>1, <1>2 DEF RiskInv, AccountKeepsItsFloor
<1>5. /\ value \in Int /\ n * p \in Nat /\ 2 * (n * p) <= 2 * value + Lot
  BY <1>1, ValueIs
<1>6. ValidateBreaches(open[t], t, file, p, orders) = {}
  BY DEF Execute
<1>7. /\ ~(open[t].side = "BUY" /\ file.cash - value < Lot * Floor)
      /\ ~(open[t].side = "SELL" /\ n > file.quantity[t])
  BY <1>1, <1>6, Validated, NavIsInt
<1> HIDE DEF value
<1>8. CASE open[t].side = "BUY"
  <2>1. account' = [cash |-> account.cash - n * p, quantity |-> [account.quantity EXCEPT ![t] = @ + n]]
    BY <1>8 DEF Execute, Fill
  <2>2. account.cash - value >= Lot * Floor
    BY <1>1, <1>3, <1>5, <1>7, <1>8
  <2>3. account'.cash = account.cash - n * p
    BY <2>1
  <2>4. \A a, v, c, x, y \in Int : a - v >= c /\ 2 * x <= 2 * v + y => 2 * (a - x) >= 2 * c - y
    OBVIOUS
  <2>5. 2 * (account.cash - n * p) >= 2 * (Lot * Floor) - Lot
    <3>1. account.cash \in Int /\ n * p \in Int /\ Lot \in Int
      BY <1>1, <1>5
    <3> HIDE DEF n, p
    <3> QED
      BY <1>1, <1>5, <2>2, <2>4, <3>1
  <2>6. \A u \in Tickers : account'.quantity[u] >= 0
    BY <1>1, <1>4, <2>1
  <2> QED
    BY <2>3, <2>5, <2>6
<1>9. CASE open[t].side = "SELL"
  <2>1. account' = [cash |-> account.cash - (-n) * p,
                    quantity |-> [account.quantity EXCEPT ![t] = @ + (-n)]]
    BY <1>9 DEF Execute, Fill
  <2>2. account'.cash = account.cash + n * p
    <3>1. (-n) * p = -(n * p)
      BY <1>1
    <3> QED
      BY <1>1, <1>5, <2>1, <3>1
  <2>3. 2 * account'.cash >= 2 * (Lot * Floor) - Lot
    <3>1. \A a, x, c \in Int : 2 * a >= c /\ x >= 0 => 2 * (a + x) >= c
      OBVIOUS
    <3>2. account.cash \in Int /\ n * p \in Int /\ n * p >= 0 /\ 2 * (Lot * Floor) - Lot \in Int
      BY <1>1, <1>5
    <3> HIDE DEF n, p
    <3> QED
      BY <1>4, <2>2, <3>1, <3>2
  <2>4. account.quantity[t] >= n
    BY <1>1, <1>3, <1>7, <1>9
  <2>5. \A u \in Tickers : account'.quantity[u] >= 0
    BY <1>1, <1>4, <2>1, <2>4
  <2> QED
    BY <2>3, <2>5
<1> QED
  BY <1>1, <1>8, <1>9 DEF TicketType

(* The types, the file and the floor hold in every state. *)
LEMMA RiskInvHolds == RiskSpec => []RiskInv
<1>1. RiskInit => RiskInv
  <2> SUFFICES ASSUME RiskInit PROVE RiskInv
    OBVIOUS
  <2>1. /\ Opening \in [cash : Nat, quantity : [Tickers -> Nat], price : [Tickers -> Quotes]]
        /\ Opening.cash >= Lot * Floor /\ Lot \in Nat /\ Lot * Floor \in Nat /\ Quotes \subseteq Nat
    BY RiskAssumption
  <2>2. /\ account = [cash |-> Opening.cash, quantity |-> Opening.quantity] /\ price = Opening.price
        /\ used = 0 /\ reused = FALSE /\ orders = 0 /\ open = [t \in Tickers |-> NoTicketYet]
        /\ file = [cash |-> Opening.cash, quantity |-> Opening.quantity,
                   value |-> [t \in Tickers |-> Opening.quantity[t] * Opening.price[t]]]
    BY DEF RiskInit
  <2>3. file \in FileType
    <3>1. \A t \in Tickers : Opening.quantity[t] \in Int /\ Opening.price[t] \in Int
      <4>1. \A x \in Quotes : x \in Int
        BY <2>1
      <4>2. Opening.quantity \in [Tickers -> Nat] /\ Opening.price \in [Tickers -> Quotes]
        BY <2>1
      <4> QED
        BY ONLY <4>1, <4>2
    <3> DEFINE v == [t \in Tickers |-> Opening.quantity[t] * Opening.price[t]]
    <3>2. v \in [Tickers -> Int]
      BY ONLY <3>1, Worths
    <3> HIDE DEF v
    <3>3. file = [cash |-> Opening.cash, quantity |-> Opening.quantity, value |-> v]
      BY <2>2 DEF v
    <3> QED
      BY <2>1, <3>2, <3>3 DEF FileType
  <2>4. RiskTypeOK /\ FileIsAccount
    <3>1. account \in [cash : Int, quantity : [Tickers -> Int]] /\ price \in [Tickers -> Quotes]
      BY <2>1, <2>2
    <3>2. used \in Nat /\ orders \in Nat /\ reused \in BOOLEAN
      BY <2>2
    <3>3. open \in [Tickers -> TicketType \cup {NoTicketYet}]
      BY <2>2
    <3>4. file.cash = account.cash /\ file.quantity = account.quantity
      BY <2>2
    <3> QED
      BY <2>3, <3>1, <3>2, <3>3, <3>4 DEF RiskTypeOK, FileIsAccount
  <2>5. AccountKeepsItsFloor
    <3>1. \A t \in Tickers : account.quantity[t] >= 0
      BY <2>1, <2>2
    <3>2. \A a, c, y \in Int : a >= c /\ y >= 0 => 2 * a >= 2 * c - y
      OBVIOUS
    <3>3. 2 * account.cash >= 2 * (Lot * Floor) - Lot
      BY <2>1, <2>2, <3>2
    <3>4. 2 * Lot * Floor = 2 * (Lot * Floor)
      BY <2>1, RiskAssumption
    <3> QED
      BY <3>1, <3>3, <3>4 DEF AccountKeepsItsFloor
  <2> QED
    BY <2>4, <2>5 DEF RiskInv
<1>2. RiskInv /\ [RiskNext]_riskVars => RiskInv'
  <2> SUFFICES ASSUME RiskInv, [RiskNext]_riskVars PROVE RiskInv'
    OBVIOUS
  <2>1. RiskTypeOK' /\ FileIsAccount'
    BY RiskStep
  <2>2. 2 * Lot * Floor = 2 * (Lot * Floor)
    BY RiskAssumption
  <2>3. ASSUME NEW t \in Tickers, Execute(t) PROVE AccountKeepsItsFloor'
    <3>1. CASE ~reused'
      <4>1. /\ 2 * account'.cash >= 2 * (Lot * Floor) - Lot
            /\ \A u \in Tickers : account'.quantity[u] >= 0
        BY <2>3, <3>1, ExecuteKeepsFloor
      <4>2. 2 * account'.cash >= 2 * Lot * Floor - Lot
        BY ONLY <2>2, <4>1
      <4> QED
        BY <4>1, <4>2 DEF AccountKeepsItsFloor
    <3>2. CASE reused'
      BY <3>2 DEF AccountKeepsItsFloor
    <3> QED
      BY <3>1, <3>2
  <2>4. ASSUME account' = account, reused' = reused PROVE AccountKeepsItsFloor'
    <3>1. AccountKeepsItsFloor
      BY DEF RiskInv
    <3> QED
      BY ONLY <2>4, <3>1 DEF AccountKeepsItsFloor
  <2>5. (account' = account /\ reused' = reused) \/ (\E t \in Tickers : Execute(t))
    BY DEF RiskNext, riskVars, NewFile, PriceMoves, Lapse, Propose
  <2> QED
    BY <2>1, <2>3, <2>4, <2>5 DEF RiskInv
<1> QED
  BY <1>1, <1>2, PTL DEF RiskSpec

(* Whatever the prices do, the account keeps its floor to half a penny and *)
(* never holds less than nothing, unless two orders shared one file.       *)
THEOREM FloorIsKept == RiskSpec => []AccountKeepsItsFloor
<1>1. RiskInv => AccountKeepsItsFloor
  BY DEF RiskInv
<1> QED
  BY <1>1, RiskInvHolds, PTL


(* Limits that nothing breaches. *)
LEMMA Within ==
  ASSUME NEW t, NEW f, NEW projected, LimitBreaches(t, f, projected) = {}
  PROVE  /\ ~(100 * projected > Fraction(t) * Nav(f))
         /\ ~(Instruments[t].cap # NoCap /\ projected > Lot * Instruments[t].cap)
         /\ ~(projected < 0)
<1>1. /\ Breach(100 * projected > Fraction(t) * Nav(f), "POSITION_LIMIT") = {}
      /\ Breach(Instruments[t].cap # NoCap /\ projected > Lot * Instruments[t].cap, "ABSOLUTE_POSITION_LIMIT") = {}
      /\ Breach(projected < 0, "NEGATIVE_POSITION") = {}
  BY DEF LimitBreaches
<1>2. \A name : {name} # {}
  OBVIOUS
<1> QED
  BY ONLY <1>1, <1>2 DEF Breach

(* A fill is the position the check projected, to half a penny.            *)
LEMMA WorthIs ==
  ASSUME NEW q \in Int, NEW n \in Nat, NEW p \in Nat, NEW side \in {"BUY", "SELL"}
  PROVE  LET signed    == IF side = "BUY" THEN n ELSE -n
             projected == q * p + IF side = "BUY" THEN Value(n, p) ELSE -Value(n, p)
         IN /\ (q + signed) * p \in Int /\ projected \in Int
            /\ (q + signed) * p - Lot <= projected
<1>1. PICK m \in Nat : m = n * p
  BY ValueIs
<1>2. PICK v \in Int : v = Value(n, p) /\ 2 * m <= 2 * v + Lot /\ 2 * v <= 2 * m + Lot
  BY <1>1, ValueIs
<1>3. PICK V \in Int : V = q * p
  OBVIOUS
<1>4. Lot \in Nat
  BY RiskAssumption
<1>5. (q + n) * p = V + m /\ (q + (-n)) * p = V - m
  BY <1>1, <1>3
<1>6. V + m - Lot <= V + v /\ V - m - Lot <= V - v
  BY ONLY <1>2, <1>4, V \in Int, m \in Nat, v \in Int
<1> DEFINE signed    == IF side = "BUY" THEN n ELSE -n
           projected == q * p + IF side = "BUY" THEN Value(n, p) ELSE -Value(n, p)
           Goal      == /\ (q + signed) * p \in Int /\ projected \in Int
                        /\ (q + signed) * p - Lot <= projected
<1>7. ASSUME side = "BUY" PROVE Goal
  <2>1. signed = n /\ projected = V + v
    BY <1>2, <1>3, <1>7
  <2>2. (q + signed) * p = V + m
    BY <1>5, <2>1
  <2>3. V + m \in Int /\ V + v \in Int /\ V + m - Lot <= V + v
    BY ONLY <1>6, V \in Int, m \in Nat, v \in Int
  <2>4. PICK w : w = (q + signed) * p
    OBVIOUS
  <2>5. w = V + m /\ projected = V + v
    BY ONLY <2>1, <2>2, <2>4
  <2> HIDE DEF signed, projected
  <2>6. w \in Int /\ projected \in Int /\ w - Lot <= projected
    BY ONLY <1>4, <2>3, <2>5, V \in Int, m \in Nat, v \in Int
  <2> QED
    BY ONLY <2>4, <2>6, Zenon
<1>8. ASSUME side = "SELL" PROVE Goal
  <2>1. signed = -n /\ projected = V - v
    BY <1>2, <1>3, <1>8
  <2>2. (q + signed) * p = V - m
    BY <1>5, <2>1
  <2>3. V - m \in Int /\ V - v \in Int /\ V - m - Lot <= V - v
    BY ONLY <1>6, V \in Int, m \in Nat, v \in Int
  <2>4. PICK w : w = (q + signed) * p
    OBVIOUS
  <2>5. w = V - m /\ projected = V - v
    BY ONLY <2>1, <2>2, <2>4
  <2> HIDE DEF signed, projected
  <2>6. w \in Int /\ projected \in Int /\ w - Lot <= projected
    BY ONLY <1>4, <2>3, <2>5, V \in Int, m \in Nat, v \in Int
  <2> QED
    BY ONLY <2>4, <2>6, Zenon
<1>9. Goal
  BY <1>7, <1>8
<1> QED
  BY <1>9

(* An order checked against the account itself, at the price it is filled  *)
(* at, leaves the position within both caps, to a penny.                   *)
LEMMA ExecuteKeepsCaps ==
  ASSUME RiskInv, NEW t \in Tickers, Execute(t), file = Snapshot
  PROVE  LET worth == account'.quantity[t] * price[t]
         IN /\ 100 * (worth - Lot) <= Fraction(t) * Nav(file)
            /\ Instruments[t].cap # NoCap => worth - Lot <= Lot * Instruments[t].cap
<1> DEFINE n == open[t].quantity
           p == price[t]
           q == account.quantity[t]
           side == open[t].side
           signed == IF side = "BUY" THEN n ELSE -n
           projected == q * p + IF side = "BUY" THEN Value(n, p) ELSE -Value(n, p)
<1>1. /\ account \in [cash : Int, quantity : [Tickers -> Int]] /\ file \in FileType
      /\ open[t] \in TicketType /\ n \in Nat /\ p \in Nat /\ q \in Int
  <2>1. /\ account \in [cash : Int, quantity : [Tickers -> Int]] /\ file \in FileType
        /\ open \in [Tickers -> TicketType \cup {NoTicketYet}] /\ price \in [Tickers -> Quotes]
    BY DEF RiskInv, RiskTypeOK
  <2>2. open[t] \in TicketType
    BY <2>1 DEF Execute
  <2>3. p \in Nat
    BY <2>1, RiskAssumption
  <2> QED
    BY <2>1, <2>2, <2>3 DEF TicketType
<1>2. side \in {"BUY", "SELL"}
  BY <1>1 DEF TicketType
<1>3. file.value[t] = q * p
  BY DEF Snapshot
<1>4. Projected(side, t, file, Value(n, p)) = projected
  BY <1>3 DEF Projected
<1>5. Nav(file) \in Int
  BY <1>1, NavIsInt
<1>6. ValidateBreaches(open[t], t, file, p, orders) = {}
  BY DEF Execute
<1>7. t \in DOMAIN Instruments /\ LimitBreaches(t, file, Projected(side, t, file, Value(n, p))) = {}
  BY ONLY <1>5, <1>6, Validated
<1>8. /\ ~(100 * projected > Fraction(t) * Nav(file))
      /\ ~(Instruments[t].cap # NoCap /\ projected > Lot * Instruments[t].cap)
  BY ONLY <1>4, <1>7, Within
<1>9. (q + signed) * p \in Int /\ projected \in Int /\ (q + signed) * p - Lot <= projected
  BY <1>1, <1>2, WorthIs
<1>10. account'.quantity[t] = q + signed
  BY <1>1 DEF Execute, Fill
<1>11. Fraction(t) * Nav(file) \in Int
  BY <1>5, <1>7, FractionIs
<1>12. Instruments[t].cap # NoCap => Lot * Instruments[t].cap \in Int
  BY <1>7, RiskAssumption
<1>13. Lot \in Int
  BY RiskAssumption
<1>14. \A w, l, j, c \in Int : w - l <= j /\ ~(100 * j > c) => 100 * (w - l) <= c
  OBVIOUS
<1>15. \A w, l, j, c \in Int : w - l <= j /\ ~(j > c) => w - l <= c
  OBVIOUS
<1> HIDE DEF n, p, q, side, signed, projected
<1>16. PICK w \in Int : w = (q + signed) * p
  BY <1>9
<1>17. 100 * (w - Lot) <= Fraction(t) * Nav(file)
  BY ONLY <1>8, <1>9, <1>11, <1>13, <1>14, <1>16
<1>18. Instruments[t].cap # NoCap => w - Lot <= Lot * Instruments[t].cap
  BY ONLY <1>8, <1>9, <1>12, <1>13, <1>15, <1>16
<1>19. account'.quantity[t] * price[t] = w
  BY <1>10, <1>16 DEF p
<1> QED
  BY ONLY <1>17, <1>18, <1>19

(* An order never leaves a position worth more than its caps allow, to a   *)
(* penny, at the prices it was checked and filled at, whatever its side,   *)
(* quantity and roundings, while the file is the account.                  *)
THEOREM CapsAreKept == RiskSpec => FillsStayWithinCaps
<1> DEFINE Capped == \A t \in Tickers :
             /\ open[t] # NoTicketYet /\ account' # account /\ open'[t] = NoTicketYet
             /\ file = Snapshot
             => LET worth == account'.quantity[t] * price[t]
                IN /\ 100 * (worth - Lot) <= Fraction(t) * Nav(file)
                   /\ Instruments[t].cap # NoCap => worth - Lot <= Lot * Instruments[t].cap
<1>1. RiskInv /\ [RiskNext]_riskVars => [Capped]_riskVars
  <2> SUFFICES ASSUME RiskInv, RiskNext PROVE Capped
    BY DEF riskVars
  <2> SUFFICES ASSUME NEW t \in Tickers, open[t] # NoTicketYet, account' # account,
                      open'[t] = NoTicketYet, file = Snapshot
               PROVE  LET worth == account'.quantity[t] * price[t]
                      IN /\ 100 * (worth - Lot) <= Fraction(t) * Nav(file)
                         /\ Instruments[t].cap # NoCap => worth - Lot <= Lot * Instruments[t].cap
    OBVIOUS
  <2>1. PICK u \in Tickers : Execute(u)
    BY DEF RiskNext, NewFile, PriceMoves, Lapse, Propose
  <2>2. t = u
    <3>1. open \in [Tickers -> TicketType \cup {NoTicketYet}]
      BY DEF RiskInv, RiskTypeOK
    <3>2. open' = [open EXCEPT ![u] = NoTicketYet]
      BY <2>1 DEF Execute
    <3> QED
      BY <3>1, <3>2
  <2>3. Execute(t)
    BY <2>1, <2>2
  <2> QED
    BY ONLY RiskInv, t \in Tickers, file = Snapshot, <2>3, ExecuteKeepsCaps
<1> QED
  BY <1>1, RiskInvHolds, PTL DEF RiskSpec, FillsStayWithinCaps

(* A fill moves money between cash and a position, not the NAV. *)
LEMMA NavStays ==
  ASSUME NEW f \in FileType, NEW side, NEW t \in Tickers, NEW n \in Nat, NEW p \in Nat
  PROVE  /\ Nav(Filled(f, side, t, n, p)) = Nav(f)
         /\ Filled(f, side, t, n, p).value[t] = f.value[t] + (IF side = "BUY" THEN n ELSE -n) * p
<1> DEFINE signed == IF side = "BUY" THEN n ELSE -n
           after  == Filled(f, side, t, n, p)
           rest   == Tickers \ {t}
<1>1. f.cash \in Int /\ f.value \in [Tickers -> Int]
  BY DEF FileType
<1>2. PICK m \in Int : m = signed * p
  OBVIOUS
<1>3. after.cash = f.cash - m /\ after.value = [f.value EXCEPT ![t] = @ + m]
  BY <1>2 DEF Filled
<1> HIDE DEF signed, after
<1>4. after.value \in [Tickers -> Int] /\ after.value[t] = f.value[t] + m
  BY <1>1, <1>3
<1>5. \A u \in rest : f.value[u] \in Int /\ after.value[u] = f.value[u]
  BY <1>1, <1>3
<1>6. IsFiniteSet(Tickers) /\ IsFiniteSet(rest)
  BY RiskAssumption, FS_RemoveElement
<1>7. SumFunctionOnSet(f.value, rest) = SumFunctionOnSet(after.value, rest)
  BY <1>5, <1>6, SumAgrees
<1>8. SumFunctionOnSet(f.value, Tickers) = f.value[t] + SumFunctionOnSet(f.value, rest)
  BY <1>1, <1>6, SumRemove
<1>9. SumFunctionOnSet(after.value, Tickers) = after.value[t] + SumFunctionOnSet(after.value, rest)
  BY <1>4, <1>6, SumRemove
<1>10. SumFunctionOnSet(f.value, rest) \in Int
  BY <1>5, <1>6, SumType
<1>11. Nav(after) = Nav(f)
  BY <1>1, <1>3, <1>4, <1>7, <1>8, <1>9, <1>10 DEF Nav
<1> QED
  BY <1>2, <1>4, <1>11 DEF after, signed

(* After an order of the whole lots there are towards the target, what is  *)
(* left of the way is on the same side and less than one more lot.         *)
LEMMA LeftOver ==
  ASSUME NEW D \in Int, NEW p \in Nat \ {0}, NEW n, n = Abs(D) \div p,
         NEW side \in {"BUY", "SELL"}, side = "BUY" => D > 0, side = "SELL" => D < 0
  PROVE  LET left == D - (IF side = "BUY" THEN n ELSE -n) * p
         IN /\ left \in Int /\ Abs(left) \div p = 0
            /\ side = "BUY" => left >= 0
            /\ side = "SELL" => left <= 0
<1>1. PICK a \in Nat : a = Abs(D)
  BY DEF Abs
<1>2. PICK q, r \in Int : q = a \div p /\ r = a % p /\ 0 <= r /\ r < p /\ a = p * q + r
  BY Divides
<1>3. n = q
  BY <1>1, <1>2
<1>4. PICK m \in Int : m = p * q
  OBVIOUS
<1>5. n * p = m /\ (-n) * p = -m
  BY <1>3, <1>4
<1>6. a = m + r
  BY <1>2, <1>4
<1>7. r \div p = 0
  <2>1. PICK x, y \in Int : x = r \div p /\ y = r % p /\ 0 <= y /\ y < p /\ r = p * x + y
    BY Divides
  <2>2. x <= 0
    <3> SUFFICES ASSUME x >= 1 PROVE FALSE
      BY <2>1
    <3>1. p * x >= p
      BY <2>1
    <3> QED
      BY <1>2, <2>1, <3>1
  <2>3. x >= 0
    <3> SUFFICES ASSUME x <= -1 PROVE FALSE
      BY <2>1
    <3>1. p * x <= -p
      BY <2>1
    <3> QED
      BY <1>2, <2>1, <3>1
  <2> QED
    BY <2>1, <2>2, <2>3
<1> DEFINE left == D - (IF side = "BUY" THEN n ELSE -n) * p
           Goal == /\ left \in Int /\ Abs(left) \div p = 0
                   /\ side = "BUY" => left >= 0
                   /\ side = "SELL" => left <= 0
<1>8. ASSUME side = "BUY" PROVE Goal
  <2>1. D = a
    BY <1>1, <1>8 DEF Abs
  <2>2. left = D - m
    BY <1>5, <1>8
  <2>3. left = r
    BY ONLY <1>6, <2>1, <2>2, D \in Int, m \in Int, r \in Int
  <2> HIDE DEF left
  <2>4. Abs(left) = r
    BY ONLY <1>2, <2>3, r \in Int DEF Abs
  <2> QED
    BY ONLY <1>2, <1>7, <1>8, <2>3, <2>4, r \in Int
<1>9. ASSUME side = "SELL" PROVE Goal
  <2>1. D = -a
    BY <1>1, <1>9 DEF Abs
  <2>2. left = D - (-m)
    BY <1>5, <1>9
  <2>3. left = -r
    BY ONLY <1>6, <2>1, <2>2, D \in Int, m \in Int, r \in Int
  <2> HIDE DEF left
  <2>4. Abs(left) = r
    BY ONLY <1>2, <2>3, r \in Int DEF Abs
  <2> QED
    BY ONLY <1>2, <1>7, <1>9, <2>3, <2>4, r \in Int
<1>10. Goal
  BY <1>8, <1>9
<1> QED
  BY <1>10

(* validate_execution asks nothing of an order that build did not. *)
LEMMA BuiltIsValid ==
  ASSUME NEW f \in FileType, NEW side \in {"BUY", "SELL"}, NEW t \in Tickers, NEW weight \in Nat,
         NEW p \in Nat \ {0}, NEW count, ~(count >= MaxOrders),
         t \in DOMAIN Instruments, ~(Nav(f) <= 0), OrderBreaches(side, weight, t, f, p) = {},
         NEW n \in Nat, n = OrderQuantity(weight, t, f, p)
  PROVE  ValidateBreaches([side |-> side, quantity |-> n], t, f, p, count) = {}
<1> DEFINE ticket == [side |-> side, quantity |-> n]
           value == Value(n, p)
           projected == Projected(side, t, f, value)
<1>1. SharesBreach(side, t, f, n) = {} /\ LimitBreaches(t, f, projected) = {} /\ CashBreach(side, f, value) = {}
  BY DEF OrderBreaches
<1>2. ~(projected < 0)
  BY ONLY <1>1, Within
<1>3. ticket.side = side /\ ticket.quantity = n
  OBVIOUS
<1>4. /\ Breach(t \notin DOMAIN Instruments, "NOT_WHITELISTED") = {}
      /\ Breach(Nav(f) <= 0, "NAV_INVALID") = {}
      /\ Breach(count >= MaxOrders, "WEEKLY_TRADE_LIMIT") = {}
      /\ Breach(projected < 0, "NEGATIVE_POSITION") = {}
  BY <1>2 DEF Breach
<1>5. ValidateBreaches(ticket, t, f, p, count) =
        Breach(t \notin DOMAIN Instruments, "NOT_WHITELISTED")
         \cup Breach(Nav(f) <= 0, "NAV_INVALID")
         \cup Breach(count >= MaxOrders, "WEEKLY_TRADE_LIMIT")
         \cup CashBreach(side, f, value)
         \cup SharesBreach(side, t, f, n)
         \cup Breach(projected < 0, "NEGATIVE_POSITION")
         \cup (IF t \in DOMAIN Instruments /\ Nav(f) > 0 THEN LimitBreaches(t, f, projected) ELSE {})
  BY <1>3 DEF ValidateBreaches
<1> HIDE DEF ticket, value, projected
<1>6. ValidateBreaches(ticket, t, f, p, count) = {}
  BY ONLY <1>1, <1>4, <1>5
<1> QED
  BY <1>6 DEF ticket

(* A decision whose quantity comes to nothing is refused. *)
LEMMA TooSmall ==
  ASSUME NEW side, NEW weight, NEW t, NEW f, NEW p, NEW duplicate, NEW count,
         OrderQuantity(weight, t, f, p) = 0
  PROVE  BuildBreaches(side, weight, t, f, p, duplicate, count) # {}
<1>1. Breach(OrderQuantity(weight, t, f, p) = 0, "ORDER_TOO_SMALL") = {"ORDER_TOO_SMALL"}
  BY DEF Breach
<1>2. "ORDER_TOO_SMALL" \in OrderBreaches(side, weight, t, f, p)
  BY <1>1 DEF OrderBreaches
<1> QED
  BY <1>2 DEF BuildBreaches

(* While the week admits an order, a decision that build accepts passes    *)
(* validate_execution on the same file and price, is refused once it is    *)
(* filled, and has not brought the position past its target.               *)
THEOREM OneDecisionOneOrder == RiskSpec => []GoodForOneOrder
<1>1. RiskInv => GoodForOneOrder
  <2> SUFFICES ASSUME RiskInv, orders < MaxOrders,
                      NEW t \in Tickers, NEW side \in {"BUY", "SELL"}, NEW weight \in Weights, NEW p \in Quotes,
                      BuildBreaches(side, weight, t, file, p, FALSE, orders) = {}
               PROVE  LET quantity == OrderQuantity(weight, t, file, p)
                          after    == Filled(file, side, t, quantity, p)
                          target   == Lot * ToPence(weight * Nav(file), 100 * Lot)
                      IN /\ ValidateBreaches([side |-> side, quantity |-> quantity], t, file, p, orders) = {}
                         /\ BuildBreaches(side, weight, t, after, p, FALSE, orders) # {}
                         /\ side = "BUY"  => after.value[t] <= target
                         /\ side = "SELL" => after.value[t] >= target
    BY Zenon DEF GoodForOneOrder
  <2> ~(orders >= MaxOrders)
    <3>1. orders \in Nat /\ MaxOrders \in Nat
      BY RiskAssumption DEF RiskInv, RiskTypeOK
    <3> QED
      BY ONLY <3>1, orders < MaxOrders
  <2>1. file \in FileType /\ weight \in Nat /\ p \in Nat \ {0}
    BY RiskAssumption DEF RiskInv, RiskTypeOK
  <2>2. t \in DOMAIN Instruments /\ ~(Nav(file) <= 0) /\ OrderBreaches(side, weight, t, file, p) = {}
    BY Built
  <2>3. PICK n \in Nat : n = OrderQuantity(weight, t, file, p)
    BY <2>1, QuantityIs
  <2>4. PICK D \in Int : D = Delta(weight, t, file)
    BY <2>1, QuantityIs
  <2>5. PICK target \in Int : target = Lot * ToPence(weight * Nav(file), 100 * Lot)
    BY <2>1, QuantityIs
  <2>6. PICK v \in Int : v = file.value[t]
    BY <2>1 DEF FileType
  <2>7. D = target - v
    BY <2>4, <2>5, <2>6 DEF Delta
  <2>8. /\ n = Abs(D) \div p
        /\ side = "BUY" => D > 0
        /\ side = "SELL" => D < 0
    <3>1. /\ Breach(side = "BUY" /\ Delta(weight, t, file) <= 0, "ACTION_TARGET_MISMATCH") = {}
          /\ Breach(side = "SELL" /\ Delta(weight, t, file) >= 0, "ACTION_TARGET_MISMATCH") = {}
      BY <2>2 DEF OrderBreaches
    <3>2. ~(side = "BUY" /\ D <= 0) /\ ~(side = "SELL" /\ D >= 0)
      BY <2>4, <3>1 DEF Breach
    <3>3. n = Abs(D) \div p
      BY <2>3, <2>4 DEF OrderQuantity
    <3> QED
      BY ONLY <3>2, <3>3, D \in Int
  <2>9. ValidateBreaches([side |-> side, quantity |-> n], t, file, p, orders) = {}
    BY <2>1, <2>2, <2>3, BuiltIsValid
  <2> DEFINE after == Filled(file, side, t, n, p)
             moved == (IF side = "BUY" THEN n ELSE -n) * p
  <2>10. Nav(after) = Nav(file) /\ after.value[t] = v + moved
    BY <2>1, <2>6, NavStays
  <2>11. /\ D - moved \in Int /\ Abs(D - moved) \div p = 0
         /\ side = "BUY" => D - moved >= 0
         /\ side = "SELL" => D - moved <= 0
    BY <2>1, <2>8, LeftOver
  <2>12. moved \in Int
    BY <2>1
  <2> HIDE DEF after, moved
  <2>13. target - after.value[t] = D - moved /\ after.value[t] \in Int
    BY ONLY <2>7, <2>10, <2>12, D \in Int, target \in Int, v \in Int
  <2>14. Delta(weight, t, after) = D - moved
    BY ONLY <2>5, <2>10, <2>13 DEF Delta
  <2>15. OrderQuantity(weight, t, after, p) = 0
    BY ONLY <2>11, <2>14 DEF OrderQuantity
  <2>16. BuildBreaches(side, weight, t, after, p, FALSE, orders) # {}
    BY ONLY <2>15, TooSmall
  <2>17. /\ side = "BUY" => after.value[t] <= target
         /\ side = "SELL" => after.value[t] >= target
    BY ONLY <2>11, <2>13, target \in Int
  <2> QED
    BY ONLY <2>3, <2>5, <2>9, <2>16, <2>17, Zenon DEF after
<1> QED
  BY <1>1, RiskInvHolds, PTL

-----------------------------------------------------------------------------
(* Approvals.                                                              *)

Given(p, verdict) == Pressed(p, verdict) \/ <<p, verdict>> \in said

Queue ==
  /\ Len(presses) <= MaxPresses /\ batch \subseteq 1..Len(presses)
  /\ \A w \in Workers : worker[w] \in Jobs /\ worker[w].update = 0 => w = Local

WorkersTyped ==
  /\ worker \in [Workers -> {Idle, Down} \cup Jobs]
  /\ \A w \in Workers : worker[w] \in Jobs /\ worker[w].update = 0 => w = Local

Honest(w) ==
  worker[w] \in Jobs =>
    /\ Given(worker[w].ticket, worker[w].verdict)
    /\ worker[w].pc = "event" => decided[worker[w].ticket] = worker[w].verdict

Undecided == \A p \in Proposals : status[p] = "PENDING" => decided[p] = "none"

IInv ==
  /\ VerdictWasGiven
  /\ LedgerTellsTheVerdict
  /\ Queue
  /\ \A w \in Workers : Honest(w)
  /\ Undecided

-----------------------------------------------------------------------------
(* Approvals: typing. *)

(* What is started on a recorded update is a well-formed job for it.       *)
LEMMA StartTyped ==
  ASSUME TypeOK, Queue, NEW w \in Workers, NEW u \in 1..Len(presses), StartWork(w, u)
  PROVE  WorkersTyped'
<1>1. presses[u] \in {Bad} \cup GoodPresses /\ u \in Updates
  BY ApprovalsAssumption DEF TypeOK, Queue, Updates
<1>2. CASE presses[u].good
  <2>1. presses[u] \in GoodPresses
    BY <1>1, <1>2 DEF Bad
  <2>2. presses[u].ticket \in Proposals /\ presses[u].verdict \in Verdicts
    BY <2>1 DEF GoodPresses
  <2> QED
    BY <1>1, <1>2, <2>2, ApprovalsAssumption DEF TypeOK, Queue, StartWork, Work, Jobs, WorkersTyped, Updates
<1>3. CASE ~presses[u].good
  BY <1>3 DEF TypeOK, Queue, StartWork, WorkersTyped, Idle, Jobs
<1> QED
  BY <1>2, <1>3

(* Steps that move one worker keep the types of all.                       *)
LEMMA GotoTyped ==
  ASSUME TypeOK, Queue, NEW w \in Workers, worker[w] \in Jobs,
         (\E pc \in {"event", "ack"} : Goto(w, pc)) \/ Finish(w)
  PROVE  WorkersTyped'
BY DEF TypeOK, Queue, Goto, Finish, Jobs, WorkersTyped, Idle

(* What a worker at work holds.                                            *)
LEMMA AtWork ==
  ASSUME TypeOK, NEW w \in Workers, worker[w].pc \in {"decide", "event", "ack"}
  PROVE  /\ worker[w] \in Jobs
         /\ worker[w].ticket \in Proposals /\ worker[w].verdict \in Verdicts
BY DEF TypeOK, Idle, Down, Jobs

(* A webhook thread is at work on an update of Telegram's.                 *)
LEMMA RefusedTyped ==
  ASSUME TypeOK, Queue, NEW w \in Handlers, worker[w] \in Jobs, Refused(worker[w].update)
  PROVE  dropped' \subseteq Updates
<1>1. worker[w].update \in Updates
  BY ApprovalsAssumption DEF Queue, Jobs, Workers
<1> QED
  BY <1>1 DEF Refused, TypeOK

(* Every step keeps the types, and only recorded updates in a batch.       *)
LEMMA StepTyped ==
  ASSUME TypeOK, Queue, [Next]_vars
  PROVE  TypeOK' /\ Queue'
<1> USE ApprovalsAssumption DEF vars, storeVars, ticketVars, execVars, telegramVars, pollVars, historyVars
<1>0. WorkersTyped
  BY DEF TypeOK, Queue, WorkersTyped
<1>1. CASE UNCHANGED vars
  BY <1>1 DEF TypeOK, StoreTypeOK, Queue
<1>2. CASE Tick
  BY <1>2 DEF Tick, TypeOK, StoreTypeOK, Queue
<1>3. CASE Press
  <2>1. PICK press \in {Bad} \cup GoodPresses : presses' = Append(presses, press)
    BY <1>3 DEF Press
  <2>2. presses' \in Seq({Bad} \cup GoodPresses) /\ Len(presses') = Len(presses) + 1
    BY <2>1 DEF TypeOK
  <2>3. Len(presses') <= MaxPresses /\ 1..Len(presses) \subseteq 1..Len(presses')
    BY <1>3, <2>2 DEF Press, TypeOK
  <2>4. Queue'
    BY <1>3, <2>3 DEF Press, Queue
  <2>5. UNCHANGED <<storeVars, now, channel, dropped, pollVars, worker, historyVars>>
    BY <1>3 DEF Press
  <2>6. StoreTypeOK'
    BY <2>5 DEF TypeOK, StoreTypeOK
  <2>7. TypeOK'
    BY <2>2, <2>5, <2>6 DEF TypeOK
  <2> QED
    BY <2>4, <2>7
<1>4. CASE StartPoller
  BY <1>4 DEF StartPoller, TypeOK, StoreTypeOK, Queue, Idle, Jobs
<1>5. CASE Fetch \/ FetchFails
  <2>0. Confirmed \subseteq Updates
    BY DEF Confirmed, TypeOK
  <2>1. 1..Len(presses) \subseteq Updates
    <3>1. Len(presses) \in Nat /\ Len(presses) <= MaxPresses
      BY DEF TypeOK, Queue
    <3> QED
      BY <3>1 DEF Updates
  <2>2. dropped' \subseteq Updates /\ batch' \subseteq 1..Len(presses) /\ batch' \subseteq Updates
    BY <1>5, <2>0, <2>1 DEF Fetch, FetchFails, TypeOK, Queue
  <2>3. UNCHANGED <<storeVars, now, channel, presses, offset, worker, historyVars>>
    BY <1>5 DEF Fetch, FetchFails
  <2>4. StoreTypeOK'
    BY <2>3 DEF TypeOK, StoreTypeOK
  <2> QED
    BY <2>2, <2>3, <2>4 DEF TypeOK, Queue
<1>6. CASE Take
  <2>1. PICK u \in batch : /\ offset' = Max({offset, Past(u)})
                           /\ batch' = batch \ {u} /\ StartWork(Poller, u)
    BY <1>6 DEF Take
  <2>2. u \in 1..Len(presses) /\ u \in Updates
    BY DEF Queue, TypeOK, Updates
  <2>3. offset' \in 0..(MaxPresses + 1)
    BY <2>1, <2>2, MaxOfTwo DEF Past, TypeOK, Updates
  <2>4. WorkersTyped'
    BY <2>1, <2>2, StartTyped DEF Workers
  <2> QED
    BY <1>6, <2>1, <2>3, <2>4 DEF Take, TypeOK, StoreTypeOK, Queue, WorkersTyped
<1>7. ASSUME NEW u \in Updates, Deliver(u) PROVE TypeOK' /\ Queue'
  <2>1. WorkersTyped'
    BY <1>7, StartTyped DEF Deliver, Workers
  <2> QED
    BY <1>7, <2>1 DEF Deliver, Refused, TypeOK, StoreTypeOK, Queue, WorkersTyped
<1>8. ASSUME NEW p \in Proposals, NEW verdict \in Verdicts, DecideHere(p, verdict)
      PROVE  TypeOK' /\ Queue'
  <2>1. WorkersTyped'
    BY <1>8, <1>0 DEF DecideHere, Work, Jobs, WorkersTyped
  <2> QED
    BY <1>8, <2>1 DEF DecideHere, TypeOK, StoreTypeOK, Queue, WorkersTyped
<1>9. ASSUME NEW w \in Workers, Decide(w) PROVE TypeOK' /\ Queue'
  <2>1. worker[w] \in Jobs /\ worker[w].ticket \in Proposals /\ worker[w].verdict \in Verdicts
    BY <1>9, AtWork DEF Decide
  <2>2. WorkersTyped'
    BY <1>9, <2>1, GotoTyped DEF Decide
  <2>3. StoreTypeOK'
    BY <1>9, <2>1 DEF Decide, DecideLive, DecideLate, TypeOK, StoreTypeOK, ProposalStatuses
  <2>4. dropped' \subseteq Updates
    BY <1>9, <2>1, RefusedTyped DEF Decide, TypeOK
  <2> QED
    BY <1>9, <2>2, <2>3, <2>4 DEF Decide, TypeOK, Queue, WorkersTyped
<1>10. ASSUME NEW w \in Workers, Record(w) PROVE TypeOK' /\ Queue'
  <2>1. worker[w] \in Jobs /\ worker[w].ticket \in Proposals /\ worker[w].verdict \in Verdicts
    BY <1>10, AtWork DEF Record
  <2>2. WorkersTyped'
    BY <1>10, <2>1, GotoTyped DEF Record
  <2>3. StoreTypeOK'
    BY <1>10, <2>1 DEF Record, AppendEvent, DecisionEvent, TypeOK, StoreTypeOK, EventKinds
  <2> QED
    BY <1>10, <2>2, <2>3 DEF Record, TypeOK, Queue, WorkersTyped
<1>11. ASSUME NEW w \in Workers, Acknowledge(w) PROVE TypeOK' /\ Queue'
  <2>1. worker[w] \in Jobs
    BY <1>11, AtWork DEF Acknowledge
  <2>2. WorkersTyped'
    BY <1>11, <2>1, GotoTyped DEF Acknowledge
  <2>3. dropped' \subseteq Updates
    BY <1>11, <2>1, RefusedTyped DEF Acknowledge, TypeOK
  <2> QED
    BY <1>11, <2>2, <2>3 DEF Acknowledge, TypeOK, StoreTypeOK, Queue, WorkersTyped
<1>12. ASSUME NEW w \in Workers, Die(w) PROVE TypeOK' /\ Queue'
  <2>1. WorkersTyped' /\ batch' \subseteq batch /\ offset' \in 0..(MaxPresses + 1)
    BY <1>12, <1>0 DEF Die, AfterDeath, WorkersTyped, Idle, Down, Jobs, TypeOK
  <2>2. forgotten' \subseteq Proposals
    BY <1>12, AtWork DEF Die, TypeOK
  <2> QED
    BY <1>12, <2>1, <2>2 DEF Die, TypeOK, StoreTypeOK, Queue, WorkersTyped
<1> QED
  BY <1>1, <1>2, <1>3, <1>4, <1>5, <1>6, <1>7, <1>8, <1>9, <1>10, <1>11, <1>12 DEF Next

-----------------------------------------------------------------------------
(* The invariant. *)

(* Presses are never taken back.                                           *)
LEMMA GivenStays ==
  ASSUME TypeOK, [Next]_vars, NEW p \in Proposals, NEW verdict \in Verdicts, Given(p, verdict)
  PROVE  Given(p, verdict)'
<1>1. said \subseteq said'
  BY DEF Next, vars, historyVars, Tick, Press, StartPoller, Fetch, FetchFails, Take, Deliver,
         DecideHere, Decide, Record, Acknowledge, Die
<1>2. presses' = presses \/ \E press \in {Bad} \cup GoodPresses : presses' = Append(presses, press)
  BY DEF Next, vars, telegramVars, Tick, Press, StartPoller, Fetch, FetchFails, Take, Deliver,
         DecideHere, Decide, Record, Acknowledge, Die
<1>3. Pressed(p, verdict) => Pressed(p, verdict)'
  <2>1. SUFFICES ASSUME NEW press \in {Bad} \cup GoodPresses, presses' = Append(presses, press),
                        NEW u \in 1..Len(presses),
                        presses[u] = [good |-> TRUE, ticket |-> p, verdict |-> verdict]
                 PROVE  u \in 1..Len(presses') /\ presses'[u] = presses[u]
    BY <1>2 DEF Pressed
  <2> QED
    BY <2>1 DEF TypeOK
<1> QED
  BY <1>1, <1>3 DEF Given

(* A worker that starts on an update carries the verdict of its button.    *)
LEMMA StartHonest ==
  ASSUME TypeOK, \A v \in Workers : Honest(v), NEW w \in Workers, NEW u \in 1..Len(presses),
         StartWork(w, u), UNCHANGED <<presses, said, decided>>
  PROVE  \A v \in Workers : Honest(v)'
<1>1. presses[u] \in {Bad} \cup GoodPresses
  BY DEF TypeOK
<1>2. CASE presses[u].good
  <2>1. presses[u] \in GoodPresses
    BY <1>1, <1>2 DEF Bad
  <2>2. presses[u] = [good |-> TRUE, ticket |-> presses[u].ticket, verdict |-> presses[u].verdict]
    BY <2>1 DEF GoodPresses
  <2>3. Given(presses[u].ticket, presses[u].verdict)'
    BY <2>2 DEF Given, Pressed
  <2>4. worker' = [worker EXCEPT ![w] = Work("decide", u, presses[u].ticket, presses[u].verdict)]
    BY <1>2 DEF StartWork
  <2> QED
    BY <2>3, <2>4 DEF Honest, Given, Pressed, Work, TypeOK
<1>3. CASE ~presses[u].good
  BY <1>3 DEF StartWork, Honest, Given, Pressed, TypeOK, Idle, Jobs
<1> QED
  BY <1>2, <1>3

(* Steps that leave the tickets and the ledger alone, and after which the  *)
(* workers are honest and those that owe an event still do.                *)
LEMMA QuietKeeps ==
  ASSUME IInv, [Next]_vars, UNCHANGED <<ticketVars, ledger>>,
         \A w \in Workers : Honest(w)',
         \A w \in Workers : worker[w].pc = "event" =>
            worker'[w] = worker[w] \/ worker[w].ticket \in forgotten',
         forgotten \subseteq forgotten'
  PROVE  IInv'
<1>1. TypeOK' /\ Queue'
  BY StepTyped DEF IInv, VerdictWasGiven
<1>2. VerdictWasGiven'
  BY <1>1, GivenStays DEF IInv, VerdictWasGiven, Given, ticketVars, TypeOK, StoreTypeOK
<1>3. LedgerTellsTheVerdict'
  BY DEF IInv, LedgerTellsTheVerdict, ticketVars
<1> QED
  BY <1>1, <1>2, <1>3 DEF IInv, Undecided, ticketVars

(* The decision, in time or late.                                          *)
LEMMA DecideKeeps ==
  ASSUME IInv, [Next]_vars, NEW w \in Workers, Decide(w)
  PROVE  IInv'
<1> DEFINE p == worker[w].ticket
           verdict == worker[w].verdict
<1> USE DEF Decide
<1>0. TypeOK' /\ Queue' /\ TypeOK
  BY StepTyped DEF IInv, VerdictWasGiven
<1>1. worker[w] \in Jobs /\ p \in Proposals /\ verdict \in Verdicts /\ Given(p, verdict)
  BY <1>0, AtWork DEF IInv, Honest
<1>2. UNCHANGED <<ledger, presses, said, forgotten>>
  BY DEF historyVars
<1>3. CASE DecideLive(p, verdict, now) /\ Goto(w, "event")
  <2>1. /\ status' = [status EXCEPT ![p] = IF verdict = "approve" THEN "APPROVED" ELSE "REJECTED"]
        /\ decided' = [decided EXCEPT ![p] = verdict]
        /\ decided[p] = "none" /\ status[p] = "PENDING"
    BY <1>1, <1>3 DEF DecideLive, IInv, Undecided
  <2>2. worker' = [worker EXCEPT ![w].pc = "event"]
    BY <1>3 DEF Goto
  <2>3. VerdictWasGiven'
    <3>1. \A q \in Proposals : decided'[q] = (IF q = p THEN verdict ELSE decided[q])
      BY <1>0, <1>1, <2>1 DEF TypeOK, StoreTypeOK
    <3>2. \A q \in Proposals :
            status'[q] = IF q = p THEN IF verdict = "approve" THEN "APPROVED" ELSE "REJECTED" ELSE status[q]
      BY <1>0, <1>1, <2>1 DEF TypeOK, StoreTypeOK
    <3>3. \A q \in Proposals : decided'[q] # "none" => Given(q, decided'[q])
      BY <1>1, <3>1 DEF IInv, VerdictWasGiven, Given
    <3>4. \A q \in Proposals : (status'[q] = "APPROVED" <=> decided'[q] = "approve")
                            /\ (status'[q] = "REJECTED" <=> decided'[q] = "reject")
      BY <1>1, <3>1, <3>2 DEF IInv, VerdictWasGiven, Verdicts
    <3> QED
      BY <1>0, <1>2, <3>3, <3>4 DEF VerdictWasGiven, Given, Pressed
  <2>4. \A v \in Workers : Honest(v)'
    <3>1. TAKE v \in Workers
    <3>2. worker[v] \in Jobs /\ worker[v].pc = "event" => worker[v].ticket # p
      BY <1>0, <1>1, <2>1 DEF IInv, Honest, Jobs, Verdicts
    <3>3. worker'[v] \in Jobs => worker[v] \in Jobs /\ worker'[v].ticket = worker[v].ticket
                                /\ worker'[v].verdict = worker[v].verdict
      BY <1>0, <1>1, <2>2 DEF TypeOK, Jobs
    <3>4. worker'[v] \in Jobs => Given(worker[v].ticket, worker[v].verdict)'
      BY <1>2, <3>3 DEF IInv, Honest, Given, Pressed
    <3>5. worker'[v] \in Jobs /\ worker'[v].pc = "event" => decided'[worker[v].ticket] = worker[v].verdict
      BY <1>0, <1>1, <2>1, <2>2, <3>2, <3>3 DEF IInv, Honest, Jobs, TypeOK, StoreTypeOK
    <3> QED
      BY <3>3, <3>4, <3>5 DEF Honest
  <2>5. LedgerTellsTheVerdict'
    <3>1. worker'[w].pc = "event" /\ worker'[w].ticket = p
      BY <1>0, <1>1, <2>2 DEF TypeOK, Jobs
    <3>2. \A v \in Workers : worker[v].pc = "event" => worker'[v].pc = "event" /\ worker'[v].ticket = worker[v].ticket
      BY <1>0, <1>1, <2>2 DEF TypeOK, Jobs
    <3>3. \A q \in Proposals : q # p => decided'[q] = decided[q]
      BY <1>0, <2>1 DEF TypeOK, StoreTypeOK
    <3>4. ledger[p] \cap {"PROPOSAL_APPROVED", "PROPOSAL_REJECTED"} = {} /\ decided'[p] \in Verdicts
      BY <1>0, <1>1, <2>1 DEF IInv, LedgerTellsTheVerdict, TypeOK, StoreTypeOK
    <3> QED
      BY <1>1, <1>2, <3>1, <3>2, <3>3, <3>4 DEF IInv, LedgerTellsTheVerdict, Verdicts
  <2>6. Undecided'
    BY <1>0, <1>1, <2>1 DEF IInv, Undecided, TypeOK, StoreTypeOK
  <2> QED
    BY <1>0, <2>3, <2>4, <2>5, <2>6 DEF IInv
<1>4. CASE (DecideLate(p, now) \/ UNCHANGED ticketVars) /\ Finish(w) /\ worker[w].pc = "decide"
  <2>1. UNCHANGED decided /\ worker' = [worker EXCEPT ![w] = Idle]
    BY <1>4 DEF DecideLate, ticketVars, Finish
  <2>2. \A q \in Proposals : status'[q] = status[q] \/ (status[q] = "PENDING" /\ status'[q] = "EXPIRED")
    BY <1>0, <1>1, <1>4 DEF DecideLate, ticketVars, TypeOK, StoreTypeOK
  <2>3. VerdictWasGiven'
    BY <1>0, <1>2, <2>1, <2>2 DEF IInv, VerdictWasGiven, Pressed
  <2>4. \A v \in Workers : Honest(v)'
    BY <1>0, <1>2, <2>1 DEF IInv, Honest, Given, Pressed, TypeOK, Idle, Jobs
  <2>5. LedgerTellsTheVerdict'
    <3>1. \A v \in Workers : worker[v].pc = "event" => worker'[v] = worker[v]
      BY <1>0, <1>4, <2>1 DEF TypeOK
    <3> QED
      BY <1>2, <2>1, <3>1 DEF IInv, LedgerTellsTheVerdict
  <2>6. Undecided'
    BY <2>1, <2>2 DEF IInv, Undecided
  <2> QED
    BY <1>0, <2>3, <2>4, <2>5, <2>6 DEF IInv
<1> QED
  BY <1>3, <1>4

(* The event of the verdict the worker carries, which is the ticket's.     *)
LEMMA RecordKeeps ==
  ASSUME IInv, [Next]_vars, NEW w \in Workers, Record(w)
  PROVE  IInv'
<1> DEFINE p == worker[w].ticket
<1> USE DEF Record
<1>0. TypeOK' /\ Queue' /\ TypeOK
  BY StepTyped DEF IInv, VerdictWasGiven
<1>1. worker[w] \in Jobs /\ p \in Proposals /\ worker[w].verdict \in Verdicts
      /\ decided[p] = worker[w].verdict
  BY <1>0, AtWork DEF IInv, Honest
<1>2. UNCHANGED <<status, decided, presses, said, forgotten>>
  BY DEF historyVars, telegramVars, ticketVars
<1>3. ledger' = [ledger EXCEPT ![p] = @ \cup {DecisionEvent(decided[p])}]
  BY <1>1 DEF AppendEvent
<1>4. \A v \in Workers : Honest(v)'
  BY <1>0, <1>1, <1>2 DEF IInv, Honest, Given, Pressed, TypeOK, Goto, Finish, Idle, Jobs
<1>5. LedgerTellsTheVerdict'
  <2> USE DEF LedgerTellsTheVerdict
  <2>1. TAKE q \in Proposals
  <2>2. CASE q = p
    <3>1. ledger'[p] = ledger[p] \cup {DecisionEvent(decided[p])}
      BY <1>0, <1>1, <1>3 DEF TypeOK, StoreTypeOK
    <3> QED
      BY <1>1, <1>2, <2>2, <3>1 DEF IInv, LedgerTellsTheVerdict, DecisionEvent, Verdicts
  <2>3. CASE q # p
    <3>1. ledger'[q] = ledger[q]
      BY <1>0, <1>3, <2>3 DEF TypeOK, StoreTypeOK
    <3>2. \A v \in Workers : worker[v].pc = "event" /\ worker[v].ticket = q => worker'[v] = worker[v]
      BY <1>0, <2>3 DEF TypeOK, Goto, Finish
    <3> QED
      BY <1>2, <3>1, <3>2 DEF IInv, LedgerTellsTheVerdict
  <2> QED
    BY <2>2, <2>3
<1> QED
  BY <1>0, <1>2, <1>4, <1>5 DEF IInv, VerdictWasGiven, Undecided, Pressed

(* All other steps are quiet: they leave the tickets and the ledger alone. *)
LEMMA OtherKeeps ==
  ASSUME IInv, [Next]_vars,
         \/ Tick \/ Press \/ StartPoller \/ Fetch \/ FetchFails \/ Take
         \/ \E u \in Updates : Deliver(u)
         \/ \E p \in Proposals, verdict \in Verdicts : DecideHere(p, verdict)
         \/ \E w \in Workers : Acknowledge(w) \/ Die(w)
         \/ UNCHANGED vars
  PROVE  IInv'
<1> USE DEF storeVars, ticketVars, historyVars, telegramVars, pollVars
<1>0. TypeOK /\ TypeOK' /\ \A w \in Workers : Honest(w)
  BY StepTyped DEF IInv, VerdictWasGiven
<1>1. UNCHANGED <<ticketVars, ledger>> /\ forgotten \subseteq forgotten'
  BY DEF Tick, Press, StartPoller, Fetch, FetchFails, Take, Deliver, DecideHere, Acknowledge, Die, vars
<1>2. ASSUME NEW v \in Workers, worker'[v] \in Jobs => worker'[v] = worker[v] PROVE Honest(v)'
  BY <1>0, <1>1, <1>2, GivenStays DEF Honest, Jobs
<1> DEFINE Owed == \A v \in Workers : worker[v].pc = "event" =>
                     worker'[v] = worker[v] \/ worker[v].ticket \in forgotten'
<1>3. CASE Tick \/ Press \/ Fetch \/ FetchFails \/ UNCHANGED vars
  <2>1. worker' = worker
    BY <1>3 DEF Tick, Press, Fetch, FetchFails, vars
  <2> QED
    BY <1>1, <1>2, <2>1, QuietKeeps
<1>4. CASE StartPoller
  <2>1. worker' = [worker EXCEPT ![Poller] = Idle] /\ worker[Poller] = Down
    BY <1>4 DEF StartPoller
  <2>2. \A v \in Workers : Honest(v)'
    BY <1>0, <1>2, <2>1 DEF TypeOK, Idle, Jobs
  <2>3. Owed
    BY <1>0, <2>1 DEF TypeOK, Down
  <2> QED
    BY <1>1, <2>2, <2>3, QuietKeeps
<1>5. ASSUME NEW w \in Workers, NEW u \in 1..Len(presses), worker[w] = Idle, StartWork(w, u),
             UNCHANGED <<presses, said>>
      PROVE  IInv'
  <2>1. \A v \in Workers : Honest(v)'
    BY <1>0, <1>1, <1>5, StartHonest
  <2>2. Owed
    BY <1>0, <1>5 DEF StartWork, TypeOK, Idle
  <2> QED
    BY <1>1, <2>1, <2>2, QuietKeeps
<1>6. CASE Take
  <2>1. PICK u \in batch : StartWork(Poller, u)
    BY <1>6 DEF Take
  <2>2. u \in 1..Len(presses) /\ Poller \in Workers
    BY DEF IInv, Queue, Workers
  <2> QED
    BY <1>5, <1>6, <2>1, <2>2 DEF Take
<1>7. ASSUME NEW u \in Updates, Deliver(u) PROVE IInv'
  BY <1>5, <1>7 DEF Deliver, Workers
<1>8. ASSUME NEW p \in Proposals, NEW verdict \in Verdicts, DecideHere(p, verdict) PROVE IInv'
  <2>1. worker' = [worker EXCEPT ![Local] = Work("decide", 0, p, verdict)] /\ worker[Local] = Idle
        /\ <<p, verdict>> \in said'
    BY <1>8 DEF DecideHere
  <2>2. Honest(Local)'
    BY <1>0, <2>1 DEF Honest, Given, Work, TypeOK, Workers
  <2>3. \A v \in Workers : Honest(v)'
    BY <1>0, <1>2, <2>1, <2>2 DEF TypeOK
  <2>4. Owed
    BY <1>0, <2>1 DEF TypeOK, Idle
  <2> QED
    BY <1>1, <2>3, <2>4, QuietKeeps
<1>9. ASSUME NEW w \in Workers, Acknowledge(w) \/ Die(w) PROVE IInv'
  <2>1. \A v \in Workers : worker'[v] = worker[v] \/ (v = w /\ worker'[v] \in {Idle, Down})
    BY <1>0, <1>9 DEF Acknowledge, Die, AfterDeath, Finish, TypeOK
  <2>2. \A v \in Workers : Honest(v)'
    BY <1>2, <2>1 DEF Idle, Down, Jobs
  <2>3. worker[w].pc = "event" => worker[w].ticket \in forgotten'
    BY <1>9 DEF Acknowledge, Die
  <2>4. Owed
    BY <2>1, <2>3
  <2> QED
    BY <1>1, <2>2, <2>4, QuietKeeps
<1> QED
  BY <1>3, <1>4, <1>6, <1>7, <1>8, <1>9

(* The invariant is inductive.                                             *)
THEOREM ApprovalsInvariant == Spec => []IInv
<1>1. Init => IInv
  <2> SUFFICES ASSUME Init PROVE IInv
    OBVIOUS
  <2> USE ApprovalsAssumption DEF Init
  <2>1. TypeOK
    BY DEF TypeOK, StoreTypeOK, ProposalStatuses, ExecutionStates, EventKinds, NoTime, Updates
  <2>2. \A w \in Workers : worker[w] \in {Idle, Down}
    OBVIOUS
  <2>3. Queue
    BY <2>2 DEF Queue, Idle, Down, Jobs
  <2>4. VerdictWasGiven /\ Undecided /\ LedgerTellsTheVerdict
    BY <2>1 DEF VerdictWasGiven, Undecided, LedgerTellsTheVerdict
  <2>5. \A w \in Workers : Honest(w)
    BY <2>2 DEF Honest, Idle, Down, Jobs
  <2> QED
    BY <2>3, <2>4, <2>5 DEF IInv
<1>2. IInv /\ [Next]_vars => IInv'
  <2> SUFFICES ASSUME IInv, [Next]_vars PROVE IInv'
    OBVIOUS
  <2> QED
    BY DecideKeeps, RecordKeeps, OtherKeeps DEF Next
<1> QED
  BY <1>1, <1>2, PTL DEF Spec

(* Whatever is delivered, how often, and to whom: a ticket carries only a  *)
(* verdict that its approver gave.                                         *)
THEOREM VerdictsAreGiven == Spec => []VerdictWasGiven
<1>1. IInv => VerdictWasGiven
  BY DEF IInv
<1> QED
  BY <1>1, ApprovalsInvariant, PTL

(* The event ledger never tells another verdict than the ticket has, and   *)
(* lacks one only while its decider is on the way, or after it died.       *)
THEOREM LedgerTells == Spec => []LedgerTellsTheVerdict
<1>1. IInv => LedgerTellsTheVerdict
  BY DEF IInv
<1> QED
  BY <1>1, ApprovalsInvariant, PTL
=============================================================================
