---------------------------- MODULE PaperPolicy ----------------------------
(***************************************************************************)
(* The paper policy of predict_agent: from a forecast, the two recorded    *)
(* books and the state of the ledger to one trade or one refusal           *)
(* (policy.py, fills.py), and the audit that later reads the ticket back   *)
(* (invariants.py).  Pure functions: the only step poses a case.           *)
(*                                                                         *)
(* Numbers are whole: a price or probability counts 1/Prices, a fee rate   *)
(* 1/FeeUnits, a share quantity the venue's quantum, of which a share has  *)
(* Quanta, and money 1/(Prices^2 * FeeUnits * Quanta), the unit in which   *)
(* every cost and fee of the walk is exact.  Budgets are rounded down to   *)
(* that unit, which changes no fill since every cost is a multiple of it.  *)
(***************************************************************************)
EXTENDS Integers, Functions

CONSTANTS
  Prices, FeeUnits, Quanta,
  Grain,   \* a recorded size counts 1/Grain of a quantum
  Cases    \* the inputs posed: [inputs, params]

Dollar == Prices * Prices * FeeUnits * Quanta
CapNames == {"market", "event", "category", "total"}

(* Parsing leaves prices between 0 and 1 and sizes above 0 (clob.py line   *)
(* 78); only an abstained forecast has no probabilities.                   *)
WellPosed(in, params) ==
  /\ \A side \in DOMAIN in.books :
       LET asks == in.books[side].asks
       IN DOMAIN asks \subseteq 1..(Prices - 1) /\ asks \in [DOMAIN asks -> Nat \ {0}]
  /\ ~in.forecast.abstained => {in.forecast.low, in.forecast.mid, in.forecast.high} \subseteq 0..Prices
  /\ params.source \in {"bounds", "mid"}
  /\ {params.slippage, params.kelly, params.edge, in.equity, in.cash} \subseteq Int
  /\ \A cap \in CapNames : params.caps[cap] \in Int /\ in.exposure[cap] \in Int

ASSUME PolicyAssumption ==
  /\ {Prices, FeeUnits, Quanta, Grain} \subseteq Nat \ {0}
  /\ \A c \in Cases : WellPosed(c.inputs, c.params)

VARIABLES
  case,    \* what decide is called with, once it is posed
  answer   \* and what it returned

Unposed == [reason |-> "none"]

-----------------------------------------------------------------------------
(* fills.py: the walk.  A book's asks are a function from price to size.   *)
Least(S) == CHOOSE x \in S : \A y \in S : x <= y
Most(S)  == CHOOSE x \in S : \A y \in S : x >= y

LevelFee(shares, price, rate) == shares * rate * price * (Prices - price)
UnitCost(price, rate) == price * Prices * FeeUnits + LevelFee(1, price, rate)
(* Faulty variant: the size a level shows is trusted past the quantum. *)
RoundSharesUp(size) == (size + Grain - 1) \div Grain

RoundShares(size) == size \div Grain

(* Levels off the tick grid make the book unusable (sizes and prices are   *)
(* positive by parsing, clob.py line 78).                                  *)
OffTick(book) == \E price \in DOMAIN book.asks : price % book.tick # 0

NothingBought == [fills |-> [p \in {} |-> 0], shares |-> 0, fee |-> 0, cost |-> 0, open |-> TRUE]

(* A walk so far with so many shares more at a price.                      *)
Taking(walk, take, price, rate) ==
  [fills  |-> [p \in DOMAIN walk.fills \cup {price} |-> IF p = price THEN take ELSE walk.fills[p]],
   shares |-> walk.shares + take,
   fee    |-> walk.fee + LevelFee(take, price, rate),
   cost   |-> walk.cost + take * UnitCost(price, rate),
   open   |-> TRUE]

(* Faulty variant: a level larger than the rest of the budget ends the walk. *)
TakeWholeLevels(walk, budget, price, size, rate) ==
  LET take == RoundShares(size)
  IN IF take <= 0 \/ walk.cost + take * UnitCost(price, rate) > budget THEN [walk EXCEPT !.open = FALSE]
     ELSE Taking(walk, take, price, rate)

TakeLevel(walk, budget, price, size, rate) ==
  LET take == Least({RoundShares(size), (budget - walk.cost) \div UnitCost(price, rate)})
  IN IF take <= 0 THEN [walk EXCEPT !.open = FALSE] ELSE Taking(walk, take, price, rate)

(* Prices up to best ask * (1 + slippage), the slippage in percent. *)
WithinLimit(price, best, params) == 100 * price <= best * (100 + params.slippage)

Visit(walk, book, budget, rate, params, price) ==
  IF price \notin DOMAIN book.asks THEN walk
  ELSE IF walk.open /\ WithinLimit(price, Least(DOMAIN book.asks), params)
       THEN TakeLevel(walk, budget, price, book.asks[price], rate)
       ELSE [walk EXCEPT !.open = FALSE]

(* From the lowest price up.                                               *)
WalkAsks(book, budget, rate, params) ==
  LET upTo[price \in 0..Prices] ==
        IF price = 0 THEN NothingBought
        ELSE Visit(upTo[price - 1], book, budget, rate, params, price)
  IN upTo[Prices]

-----------------------------------------------------------------------------
(* policy.py.  A fee schedule is usable when it has the standard shape     *)
(* (exponent 1, taker only) and a rate in [0, 1).                          *)
FeeKnown(book) == book.standard /\ book.rate \in 0..(FeeUnits - 1)
Rate(book) == IF book.fees THEN book.rate ELSE 0

(* Faulty variant: NO is priced from the lower bound as well. *)
SideProbabilityLowOnly(f, params, side) ==
  LET q == IF params.source = "bounds" THEN f.low ELSE f.mid
  IN IF side = "YES" THEN q ELSE Prices - q

SideProbability(f, params, side) ==
  CASE params.source = "bounds" /\ side = "YES" -> f.low
    [] params.source = "bounds" /\ side = "NO"  -> Prices - f.high
    [] params.source = "mid"    /\ side = "YES" -> f.mid
    [] params.source = "mid"    /\ side = "NO"  -> Prices - f.mid

(* Faulty variant: each cap is measured from zero, not from what is open. *)
HeadroomOfOneTrade(in, params, cap) == (params.caps[cap] * in.equity) \div 100

Headroom(in, params, cap) ==
  Most({0, (params.caps[cap] * in.equity) \div 100 - in.exposure[cap]})

KellyStake(q, ask, in, params) ==
  (params.kelly * (q - ask) * in.equity) \div (100 * (Prices - ask))

BudgetFor(q, ask, in, params) ==
  Most({0, Least({KellyStake(q, ask, in, params), in.cash}
                 \cup {Headroom(in, params, cap) : cap \in CapNames})})

ConfidenceRank == [low |-> 0, medium |-> 1, high |-> 2]

HasBooks(in) == DOMAIN in.books = {"YES", "NO"}
StaleBook(in, params, side) ==
  LET age == in.now - in.books[side].fetched
  IN HasBooks(in) /\ (age > params.maxAge \/ age < 0)
FeeUnknown(in, side) == HasBooks(in) /\ in.books[side].fees /\ ~FeeKnown(in.books[side])

(* The refusals that do not depend on the walk, in the order of the code.  *)
(* A forecast whose rules name no end date has hoursLeft below zero.       *)
Checks(in, params) ==
  << <<in.forecast.abstained, "ABSTAINED">>,
     <<in.forecast.rules # in.rules, "RULES_CHANGED">>,
     <<~in.eligible, "ELIGIBILITY_LOST">>,
     <<in.started, "RESOLUTION_STARTED">>,
     <<in.traded, "ALREADY_TRADED">>,
     <<ConfidenceRank[in.forecast.confidence] < ConfidenceRank[params.confidence], "LOW_CONFIDENCE">>,
     <<in.hoursLeft < params.hours, "CLOSING_SOON">>,
     <<~HasBooks(in), "NO_BOOK">>,
     <<StaleBook(in, params, "YES"), "STALE_BOOK">>,
     <<FeeUnknown(in, "YES"), "FEE_UNKNOWN">>,
     <<StaleBook(in, params, "NO"), "STALE_BOOK">>,
     <<FeeUnknown(in, "NO"), "FEE_UNKNOWN">> >>

Failing(in, params) == {i \in 1..12 : Checks(in, params)[i][1]}

Refusal(reason) == [reason |-> reason]
IsTrade(result) == result.reason = "TRADE"

EdgeAfterFill(trade) == trade.q * Prices * FeeUnits * trade.shares - trade.cost
EdgeNeeded(shares, params) == params.edge * Prices * FeeUnits * shares

TrySide(in, params, side) ==
  LET book   == in.books[side]
      q      == SideProbability(in.forecast, params, side)
      rate   == Rate(book)
      best   == Least(DOMAIN book.asks)
      budget == BudgetFor(q, best, in, params)
      walk   == WalkAsks(book, budget, rate, params)
      trade  == [reason |-> "TRADE", side |-> side, q |-> q, budget |-> budget,
                 fills |-> walk.fills, shares |-> walk.shares, fee |-> walk.fee,
                 cost |-> walk.cost]
  IN IF DOMAIN book.asks = {} THEN Refusal("NO_DEPTH")
     ELSE IF q * Prices * FeeUnits - UnitCost(best, rate) < EdgeNeeded(1, params)
          THEN Refusal("NO_EDGE")
     ELSE IF budget <= 0    THEN Refusal("NO_BUDGET")
     ELSE IF OffTick(book)  THEN Refusal("TICK_MISMATCH")
     ELSE IF walk.shares = 0 THEN Refusal("NO_DEPTH")
     ELSE IF walk.shares < book.minimum * Quanta \/ walk.cost < book.minimum * Dollar
          THEN Refusal("BELOW_MIN_ORDER")
     ELSE IF EdgeAfterFill(trade) < EdgeNeeded(walk.shares, params)
          THEN Refusal("NO_EDGE_AFTER_FILL")
     ELSE trade

(* The larger realised edge per share first, YES when they are equal.      *)
NoBetter(a, b) == EdgeAfterFill(a) * b.shares <= EdgeAfterFill(b) * a.shares

Decide(in, params) ==
  LET failing == Failing(in, params)
      yes == TrySide(in, params, "YES")
      no  == TrySide(in, params, "NO")
  IN IF failing # {} THEN Refusal(Checks(in, params)[Least(failing)][2])
     ELSE IF IsTrade(yes) /\ (IsTrade(no) => NoBetter(no, yes)) THEN yes
     ELSE IF IsTrade(no) THEN no
     ELSE IF yes.reason # "NO_EDGE" THEN yes ELSE no

-----------------------------------------------------------------------------
(* invariants.py: what doctor finds wrong with a ticket when it reads it   *)
(* back with the snapshot it names.  The ticket holds what paper.py stores *)
(* of a trade: tickets.py adds the shares and the cost up from the fills.  *)
FillProblems(ticket, book, params, created) ==
  LET levels   == DOMAIN ticket.fills
      fee      == SumFunction([p \in levels |-> LevelFee(ticket.fills[p], p, Rate(book))])
      notional == SumFunction([p \in levels |-> ticket.fills[p] * p * Prices * FeeUnits])
      age      == created - book.fetched
      problem(holds, name) == IF holds THEN {name} ELSE {}
  IN problem(\/ levels = {}
             \/ \E p \in levels : \/ p \notin DOMAIN book.asks
                                  \/ ticket.fills[p] <= 0
                                  \/ Grain * ticket.fills[p] > book.asks[p], "book")
     \cup problem(book.fees /\ ~FeeKnown(book), "fee rate")
     \cup problem(ticket.fee # fee, "fee")
     \cup problem(\/ ticket.cost # notional + ticket.fee
                  \/ ticket.shares # SumFunction(ticket.fills), "cost")
     \cup problem(levels # {} /\ ~WithinLimit(Most(levels), Least(DOMAIN book.asks), params),
                  "slippage")
     \cup problem(age < 0 \/ age > params.maxAge, "age")

-----------------------------------------------------------------------------
PoseCase ==
  /\ case = Unposed
  /\ \E c \in Cases : /\ case' = c
                      /\ answer' = Decide(c.inputs, c.params)

decisionVars == <<case, answer>>
PolicyInit == case = Unposed /\ answer = Unposed
PolicySpec == PolicyInit /\ [][PoseCase]_decisionVars

Traded == case # Unposed /\ IsTrade(answer)

(* The walk buys the most shares the budget, the limit and the recorded    *)
(* sizes allow, and as cheaply as that many can be bought, fees included.  *)
(* It stops at the first level that gives no whole quantum (fills.py line  *)
(* 101), which is right only because the cost of a share, fee included,    *)
(* grows with its price; a size below one quantum is the exception.        *)
Purchases(book, rate, params) ==
  {buy \in [DOMAIN book.asks -> 0..Most({RoundShares(book.asks[p]) : p \in DOMAIN book.asks})] :
     \A p \in DOMAIN book.asks :
       /\ buy[p] <= RoundShares(book.asks[p])
       /\ buy[p] > 0 => WithinLimit(p, Least(DOMAIN book.asks), params)}

WalkIsBest ==
  Traded =>
    LET book == case.inputs.books[answer.side]
        rate == Rate(book)
    IN (\A p \in DOMAIN book.asks : book.asks[p] >= Grain) =>
         \A buy \in Purchases(book, rate, case.params) :
           LET shares == SumFunction(buy)
               cost   == SumFunction([p \in DOMAIN buy |-> buy[p] * UnitCost(p, rate)])
           IN cost <= answer.budget =>
                \/ shares < answer.shares
                \/ shares = answer.shares /\ answer.cost <= cost

(* Every trade passes the audit that doctor makes of the stored ticket     *)
(* against the snapshot it was decided on (invariants.py line 287).        *)
TradesPassTheAudit ==
  Traded => FillProblems(answer, case.inputs.books[answer.side], case.params,
                         case.inputs.now) = {}

(* A trade, its fees included, leaves no cap of the portfolio exceeded     *)
(* that was not before, costs no more than the available cash, and stakes  *)
(* at most the configured fraction of Kelly (policy.py line 109).          *)
CapsHold ==
  Traded =>
    LET in == case.inputs
        params == case.params
    IN /\ answer.cost <= in.cash
       /\ \A cap \in CapNames :
            100 * (in.exposure[cap] + answer.cost) <= params.caps[cap] * in.equity
       /\ LET best == Least(DOMAIN in.books[answer.side].asks)
          IN 100 * (Prices - best) * answer.cost
               <= params.kelly * (answer.q - best) * in.equity

(* What the conservative bounds are for: a trade of the primary portfolio  *)
(* keeps the required edge, after fees and slippage, at every probability  *)
(* of YES between the forecast's bounds (policy_params.py line 4).         *)
EdgeHoldsWithinBounds ==
  Traded /\ case.params.source = "bounds" =>
    \A p \in case.inputs.forecast.low..case.inputs.forecast.high :
      LET win == IF answer.side = "YES" THEN p ELSE Prices - p
      IN win * Prices * FeeUnits * answer.shares - answer.cost
           >= EdgeNeeded(answer.shares, case.params)

=============================================================================
