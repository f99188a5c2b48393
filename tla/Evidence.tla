------------------------------ MODULE Evidence ------------------------------
(***************************************************************************)
(* From collected data to a ticket in japan_agent: the ingest commands     *)
(* store prices and research items and then a heartbeat, research          *)
(* assembles a snapshot of them, records what the model may cite and asks  *)
(* it for a decision, and propose checks the decision's citations against  *)
(* that record (ingest/*.py, research/snapshot.py, workflow.py).           *)
(*                                                                         *)
(* Every row is a transaction of its own and no command excludes another,  *)
(* so ingests, assemblies and proposals interleave between the rows, and   *)
(* any command may stop half-way: it dies, or meets an entry it cannot     *)
(* read.  Of the quotes of a ticker only the latest is kept, for nothing   *)
(* else is read.  J-Quants, whose observations are twelve weeks old by     *)
(* design, is left out of the feeds.  The model is external: it returns    *)
(* any decision that the schema allows, or none.                           *)
(***************************************************************************)
EXTENDS Integers, Sequences, FiniteSets, FiniteSetsExt

CONSTANTS
  Whitelist,     \* tickers
  Feeds,         \* sources of research items
  Digests,       \* feeds whose file states its own time (TDNET, NEWS)
  ItemsOf,       \* the items each feed may carry
  Published,     \* and when they were published
  MaxAge,        \* SOURCE_MAX_AGES
  Quota,         \* SOURCE_ITEM_LIMITS
  MaxRunAge,     \* how long a research run may be cited
  Citings,       \* what a decision may cite: items and tickers
  Ingesters,     \* processes that ingest
  Researchers,   \* processes that do research
  EndOfTime,     \* bound: the last clock reading
  MaxIngests,    \* bound: ingests that are begun
  MaxResearch    \* bound: research runs that are begun

Sources == Feeds \cup {"PRICE"}
NoQuoteYet == 0

(* Research refuses an empty whitelist (cli.py line 183).                  *)
ASSUME EvidenceAssumption ==
  /\ Whitelist # {}
  /\ Feeds # {} /\ "PRICE" \notin Feeds
  /\ MaxAge \in [Sources -> Nat] /\ MaxRunAge \in Nat

VARIABLES
  clock,
  heartbeats,   \* ingest_runs, per source, with what each of them had stored
  quotes,       \* per ticker, when its latest snapshot was observed
  items,        \* research_items
  manifests,    \* research_runs, each with the snapshot its hash stands for
  decisions,    \* decisions that research has printed
  tickets,      \* history: what tickets were proposed on
  job,          \* what each command is doing
  begun         \* ingests and research runs begun

dataVars == <<heartbeats, quotes, items>>
evidenceVars == <<clock, dataVars, manifests, decisions, tickets, job, begun>>

Commands == Ingesters \cup Researchers
NoJob == [pc |-> "none"]
AnyOf(S) == CHOOSE e \in S : TRUE

EvidenceInit ==
  /\ clock = 1
  /\ heartbeats = [s \in Sources |-> {}]
  /\ quotes = [t \in Whitelist |-> NoQuoteYet]
  /\ items = {}
  /\ manifests = << >> /\ decisions = {} /\ tickets = {}
  /\ job = [c \in Commands |-> NoJob]
  /\ begun = [ingests |-> 0, research |-> 0]

TimePasses ==
  /\ clock < EndOfTime
  /\ clock' = clock + 1
  /\ UNCHANGED <<dataVars, manifests, decisions, tickets, job, begun>>

Turn(c, state) == job' = [job EXCEPT ![c] = state]

-----------------------------------------------------------------------------
(* Ingest.  A batch is read and checked as far as it can be, then stored   *)
(* entry by entry; the heartbeat comes last.                               *)
BeginIngest(c, source, batch, completed, through) ==
  /\ job[c] = NoJob /\ begun.ingests < MaxIngests
  /\ begun' = [begun EXCEPT !.ingests = @ + 1]
  /\ Turn(c, [pc |-> "store", source |-> source, todo |-> batch,
              row |-> [completed |-> completed, through |-> through, stored |-> batch]])
  /\ UNCHANGED <<clock, dataVars, manifests, decisions, tickets>>

(* collect-prices observes every whitelisted ticker before it stores any;  *)
(* ingest-prices takes the tickers and times of a file, be they ahead of   *)
(* the clock.                                                              *)
IngestPrices(c) ==
  \E observed \in UNION {[ts -> 1..(clock + 1)] : ts \in SUBSET Whitelist \ {{}}} :
    \E latest \in {observed[t] : t \in DOMAIN observed} :
      /\ \A t \in DOMAIN observed : observed[t] <= latest
      /\ BeginIngest(c, "PRICE", {<<t, observed[t]>> : t \in DOMAIN observed}, latest, latest)

(* A feed that is asked now about a day it chooses covers at most the time *)
(* until now, and a digest what it says.                                   *)
Claims(s) ==
  IF s \in Digests THEN {<<t, t>> : t \in 1..(clock + 1)}
  ELSE {clock} \X (0..clock)

IngestFeed(c, s) ==
  \E batch \in SUBSET ItemsOf[s], claim \in Claims(s) :
    BeginIngest(c, s, batch, claim[1], claim[2])

(* A snapshot that is older than the one there is changes nothing that is  *)
(* read (latest_snapshot).                                                 *)
SaveSnapshot(t, observed) ==
  quotes' = [quotes EXCEPT ![t] = Max({@, observed})] /\ UNCHANGED items

SaveResearchItem(i) == items' = items \cup {i} /\ UNCHANGED quotes

StoreEntry(c) ==
  /\ job[c].pc = "store" /\ job[c].todo # {}
  /\ LET entry == AnyOf(job[c].todo)
     IN /\ IF job[c].source = "PRICE" THEN SaveSnapshot(entry[1], entry[2])
                                      ELSE SaveResearchItem(entry)
        /\ Turn(c, [job[c] EXCEPT !.todo = @ \ {entry}])
  /\ UNCHANGED <<clock, heartbeats, manifests, decisions, tickets, begun>>

AllStored(c) == job[c].todo = {}

RecordIngest(c) ==
  /\ job[c].pc = "store" /\ AllStored(c)
  /\ heartbeats' = [heartbeats EXCEPT ![job[c].source] = @ \cup {job[c].row}]
  /\ Turn(c, NoJob)
  /\ UNCHANGED <<clock, quotes, items, manifests, decisions, tickets, begun>>

GiveUp(c) ==
  /\ job[c] # NoJob
  /\ Turn(c, NoJob)
  /\ UNCHANGED <<clock, dataVars, manifests, decisions, tickets, begun>>

-----------------------------------------------------------------------------
(* Research.  The snapshot is as of the time its assembly begins, and any  *)
(* source or price that is missing, too old or from the future ends it.    *)
BeginResearch(c) ==
  /\ job[c] = NoJob /\ begun.research < MaxResearch
  /\ begun' = [begun EXCEPT !.research = @ + 1]
  /\ Turn(c, [pc |-> "sources", now |-> clock, left |-> Sources,
              prices |-> [t \in Whitelist |-> NoQuoteYet], shown |-> {}])
  /\ UNCHANGED <<clock, dataVars, manifests, decisions, tickets>>

(* latest_successful_ingest: of equal times, any. *)
LatestIngests(s) ==
  {h \in heartbeats[s] : \A other \in heartbeats[s] : other.completed <= h.completed}

Fresh(s, h, now) ==
  /\ h.completed <= now /\ now - h.completed <= MaxAge[s]
  /\ h.through <= now
  /\ now - h.through <= MaxAge[s]

ReadOn(c, left, then) ==
  [job[c] EXCEPT !.left = IF left # {} THEN left
                          ELSE IF then = "prices" THEN Whitelist ELSE Feeds,
                 !.pc = IF left # {} THEN @ ELSE then]

CheckSource(c) ==
  /\ job[c].pc = "sources"
  /\ LET s == AnyOf(job[c].left)
     IN \/ /\ \E h \in LatestIngests(s) : Fresh(s, h, job[c].now)
           /\ Turn(c, ReadOn(c, job[c].left \ {s}, "prices"))
        \/ /\ \A h \in LatestIngests(s) : ~Fresh(s, h, job[c].now)
           /\ Turn(c, NoJob)
  /\ UNCHANGED <<clock, dataVars, manifests, decisions, tickets, begun>>

QuoteIsUsable(observed, now) ==
  observed # NoQuoteYet /\ observed <= now /\ now - observed <= MaxAge["PRICE"]

CheckQuote(c) ==
  /\ job[c].pc = "prices"
  /\ LET t == AnyOf(job[c].left)
     IN Turn(c, IF QuoteIsUsable(quotes[t], job[c].now)
                THEN [ReadOn(c, job[c].left \ {t}, "items") EXCEPT !.prices[t] = quotes[t]]
                ELSE NoJob)
  /\ UNCHANGED <<clock, dataVars, manifests, decisions, tickets, begun>>

(* recent_research_items of one source: the newest within its quota.  No   *)
(* item is as old as the 120 days after which it is left out.              *)
Recent(s) ==
  LET stored == items \cap ItemsOf[s]
  IN {i \in stored : Cardinality({j \in stored : Published[j] > Published[i]}) < Quota[s]}

ReadItems(c) ==
  /\ job[c].pc = "items"
  /\ LET s == AnyOf(job[c].left)
     IN Turn(c, [ReadOn(c, job[c].left \ {s}, "save") EXCEPT !.shown = @ \cup Recent(s)])
  /\ UNCHANGED <<clock, dataVars, manifests, decisions, tickets, begun>>

(* What the model is about to see is recorded before it sees it. *)
PermittedCitations(c) == Whitelist \cup job[c].shown

SaveManifest(c) ==
  /\ job[c].pc = "save"
  /\ manifests' = Append(manifests, [assembled |-> job[c].now, prices |-> job[c].prices,
                                     shown |-> job[c].shown, permitted |-> PermittedCitations(c)])
  /\ Turn(c, [pc |-> "decide", run |-> Len(manifests')])
  /\ UNCHANGED <<clock, dataVars, decisions, tickets, begun>>

DecideTrade(c) ==
  /\ job[c].pc = "decide"
  /\ \E cites \in Citings, t \in Whitelist :
       decisions' = decisions \cup {[run |-> job[c].run, cites |-> cites, ticker |-> t]}
  /\ Turn(c, NoJob)
  /\ UNCHANGED <<clock, dataVars, manifests, tickets, begun>>

-----------------------------------------------------------------------------
(* propose.  A decision may be proposed at any later time.                 *)
(* Faulty variant: whatever is stored may be cited. *)
CitationsHoldIfStored(d) ==
  /\ manifests[d.run].assembled <= clock
  /\ clock - manifests[d.run].assembled <= MaxRunAge
  /\ d.cites \subseteq Whitelist \cup items

CitationsHold(d) ==
  /\ manifests[d.run].assembled <= clock
  /\ clock - manifests[d.run].assembled <= MaxRunAge
  /\ d.cites \subseteq manifests[d.run].permitted

ProposeOn(d) ==
  /\ CitationsHold(d)
  /\ QuoteIsUsable(quotes[d.ticker], clock)
  /\ tickets' = tickets \cup {[decision |-> d, at |-> clock]}
  /\ UNCHANGED <<clock, dataVars, manifests, decisions, job, begun>>

EvidenceNext ==
  \/ TimePasses
  \/ \E c \in Ingesters :
       \/ IngestPrices(c) \/ StoreEntry(c) \/ RecordIngest(c)
       \/ \E s \in Feeds : IngestFeed(c, s)
  \/ \E c \in Researchers :
       \/ BeginResearch(c) \/ CheckSource(c) \/ CheckQuote(c) \/ ReadItems(c)
       \/ SaveManifest(c) \/ DecideTrade(c)
  \/ \E c \in Commands : GiveUp(c)
  \/ \E d \in decisions : ProposeOn(d)

EvidenceSpec == EvidenceInit /\ [][EvidenceNext]_evidenceVars

-----------------------------------------------------------------------------
(* A heartbeat is never ahead of the data: all that its ingest counted is  *)
(* stored when it appears, whatever ingests run beside it and wherever     *)
(* others stopped half-way (collect.py line 41, prices.py line 62).        *)
HeartbeatsAreBacked ==
  \A s \in Sources : \A h \in heartbeats[s] :
    IF s = "PRICE" THEN \A entry \in h.stored : quotes[entry[1]] >= entry[2]
    ELSE h.stored \subseteq items

(* When the ticket was proposed, each source had been covered, and every   *)
(* ticker been priced, no longer ago than the limits of the snapshot and   *)
(* of the run allow together, and nothing the model saw came from the      *)
(* future.                                                                 *)
RecentFor(t) ==
  LET seen == manifests[t.decision.run]
      Since(s) == t.at - MaxRunAge - MaxAge[s]
  IN /\ seen.assembled <= t.at
     /\ \A s \in Sources : \E h \in heartbeats[s] : h.through \in Since(s)..seen.assembled
     /\ \A w \in Whitelist : seen.prices[w] \in Since("PRICE")..seen.assembled

(* A ticket rests on recent evidence that its model was shown: what it     *)
(* cites was in the snapshot of its own run, however much has been stored  *)
(* since, and the data was as recent as its heartbeats said (workflow.py   *)
(* line 33, snapshot.py line 51).                                          *)
TicketsRestOnEvidence ==
  /\ HeartbeatsAreBacked
  /\ \A t \in tickets :
       /\ t.decision.cites \subseteq Whitelist \cup manifests[t.decision.run].shown
       /\ RecentFor(t)
=============================================================================
