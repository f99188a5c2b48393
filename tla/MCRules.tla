------------------------------ MODULE MCRules ------------------------------
(* The components that share no state with any other, side by side: each   *)
(* behaviour is one of its own part, the other parts stay as they began.   *)
EXTENDS SettlementRows, PaperPolicy, RiskLimits, ResearchSession, Evidence, TLC

VARIABLE part

(* No order may be placed any more, which leaves nothing to check. *)
RiskAsleep ==
  /\ account = Opening /\ price = Opening.price /\ used = 0 /\ reused = FALSE
  /\ file = [cash |-> 0, quantity |-> Opening.quantity, value |-> [t \in Tickers |-> 0]]
  /\ open = [t \in Tickers |-> NoTicketYet] /\ orders = MaxOrders

(* No ingest and no research may begin, and the clock stands. *)
EvidenceAsleep ==
  /\ clock = EndOfTime
  /\ heartbeats = [s \in Sources |-> {}] /\ quotes = [t \in Whitelist |-> NoQuoteYet]
  /\ items = {} /\ manifests = << >> /\ decisions = {} /\ tickets = {}
  /\ job = [c \in Commands |-> NoJob]
  /\ begun = [ingests |-> MaxIngests, research |-> MaxResearch]

RulesInit ==
  /\ part \in {"settlement", "policy", "risk", "session", "evidence"}
  /\ Init /\ SessionInit
  /\ IF part = "risk" THEN RiskInit ELSE RiskAsleep
  /\ IF part = "evidence" THEN EvidenceInit ELSE EvidenceAsleep
  /\ PolicyInit

(* Everything but the variables of one part. *)
Others(p) ==
  /\ p # "settlement" => UNCHANGED rows
  /\ p # "policy" => UNCHANGED decisionVars
  /\ p # "risk" => UNCHANGED riskVars
  /\ p # "session" => UNCHANGED sessionVars
  /\ p # "evidence" => UNCHANGED evidenceVars

RulesNext ==
  /\ UNCHANGED part
  /\ \/ part = "settlement" /\ Insert
     \/ part = "policy" /\ PoseCase
     \/ part = "risk" /\ RiskNext
     \/ part = "session" /\ SessionNext
     \/ part = "evidence" /\ EvidenceNext
  /\ Others(part)

RulesSpec == RulesInit /\ [][RulesNext]_<<part, rows, decisionVars, riskVars, sessionVars, evidenceVars>>

-----------------------------------------------------------------------------
(* Settlement: two confirmed outcomes, and one still to be confirmed. *)
Says(status, outcome, check) == [status |-> status, outcome |-> outcome, check |-> check]

ThreeVerdicts == {Says("resolved", "YES", "CONFIRMED"), Says("resolved", "NO", "CONFIRMED"),
                  Says("resolved", "YES", "UNCHECKED")}

-----------------------------------------------------------------------------
(* Policy: prices in tenths, fee rates in tenths, two quanta to a share    *)
(* and two grains to a quantum.  A slippage of 70 % lets a walk from 3     *)
(* reach 5.                                                                *)
Book(asks) == [asks |-> asks, tick |-> 1, minimum |-> 1, fees |-> TRUE, standard |-> TRUE,
               rate |-> 2, fetched |-> 5]

YesBooks == {Book(asks) : asks \in UNION {[ps -> {1, 6, 12}] : ps \in SUBSET {3, 4, 5} \ {{}}}}
              \cup {Book(6 :> 11)}
NoBooks  == {Book(asks) : asks \in {3 :> 12, (4 :> 5) @@ (5 :> 12), << >>}}
              \cup {[Book(2 :> 12) EXCEPT !.tick = 4]}

View(low, mid, high) == [low |-> low, mid |-> mid, high |-> high, abstained |-> FALSE,
                         rules |-> "h", confidence |-> "medium"]
Views == {View(1, 2, 3), View(2, 4, 6), View(3, 4, 5), View(4, 6, 8), View(5, 6, 6), View(6, 7, 8)}

Params(source) ==
  [source |-> source, edge |-> 1, confidence |-> "medium", kelly |-> 50, slippage |-> 70,
   hours |-> 24, maxAge |-> 2,
   caps |-> [market |-> 30, event |-> 40, category |-> 40, total |-> 60]]

Exposed(n) == [cap \in CapNames |-> IF cap = "total" THEN n * Dollar ELSE (n * Dollar) \div 2]

Market == [eligible |-> TRUE, started |-> FALSE, traded |-> FALSE, rules |-> "h",
           hoursLeft |-> 30, now |-> 6, equity |-> 12 * Dollar]

BookCases ==
  {[params |-> Params(source),
    inputs |-> Market @@ [forecast |-> view, books |-> [YES |-> yes, NO |-> no],
                          cash |-> cash * Dollar, exposure |-> Exposed(open_)]] :
     source \in {"bounds", "mid"}, view \in Views, yes \in YesBooks, no \in NoBooks,
     cash \in {0, 2, 12}, open_ \in {0, 6}}

(* One good forecast and book, and everything that may refuse it. *)
Refused(f, b, m) ==
  [params |-> Params("bounds"),
   inputs |-> m @@ Market @@ [forecast |-> f, books |-> b, cash |-> 12 * Dollar,
                              exposure |-> Exposed(0)]]

GoodView == View(6, 7, 7)
GoodBooks == [YES |-> Book(3 :> 12), NO |-> [Book(4 :> 12) EXCEPT !.fees = FALSE]]

GateCases ==
  {Refused([GoodView EXCEPT !.abstained = a, !.confidence = c],
           [GoodBooks EXCEPT !.YES.fetched = at, !.YES.rate = rate, !.NO.standard = s],
           [hoursLeft |-> hours]) :
     a \in BOOLEAN, c \in {"low", "high"}, at \in 3..7, rate \in {2, 10}, s \in BOOLEAN,
     hours \in {23, 24}}
  \cup {Refused(GoodView, books, [eligible |-> e, started |-> st, traded |-> t, rules |-> r]) :
          books \in {GoodBooks, << >>}, e, st, t \in BOOLEAN, r \in {"h", "i"}}

AllCases == BookCases \cup GateCases

-----------------------------------------------------------------------------
(* Risk: prices that move by the allowed deviation, thirds of a share, an  *)
(* instrument that only its fraction limits and one with a cap of its own. *)
Limits == [core |-> [fraction |-> 60, cap |-> NoCap], sat |-> [fraction |-> 30, cap |-> 150]]
Holdings  == [cash |-> 800 * Lot, quantity |-> [core |-> 2, sat |-> 3],
              price |-> [core |-> 100, sat |-> 100]]

-----------------------------------------------------------------------------
(* Evidence: a feed that is asked and a digest, each with one place in the *)
(* snapshot.                                                               *)
Ages == [PRICE |-> 1, EDINET |-> 1, NEWS |-> 0]
ItemsOfFeeds == [EDINET |-> {"filing1", "filing2"}, NEWS |-> {}]
WhenPublished == [filing1 |-> 1, filing2 |-> 2]
OnePerFeed == [EDINET |-> 1, NEWS |-> 1]
Cited == {{"filing1"}, {"filing2", "core"}}
=============================================================================
