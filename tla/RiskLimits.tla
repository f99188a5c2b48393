----------------------------- MODULE RiskLimits -----------------------------
(***************************************************************************)
(* The risk engine of japan_agent (risk/engine.py): build turns a decision *)
(* into a ticket, validate_execution repeats the checks that may have      *)
(* changed just before the order is placed, and the account, its quotes    *)
(* and the portfolio files taken of it move in between.                    *)
(*                                                                         *)
(* A quantity counts lots, of which a share has Lot; a price is in pence   *)
(* per share, and money in 1/Lot of a penny, so that quantity * price is   *)
(* exact.  ToPence rounds as Decimal.quantize does.  The weeks of the      *)
(* trade limit are in module TradeExecution: here all orders fall in one.  *)
(* The broker is assumed to fill at the quoted price.                      *)
(***************************************************************************)
EXTENDS Integers, FiniteSets, FiniteSetsExt

CONSTANTS
  Tickers,
  Instruments,   \* the whitelist: per ticker fraction (percent) and cap (pence, or NoCap)
  Lot,
  Quotes,        \* prices there are
  Weights,       \* target weights, in percent
  Floor,         \* cash_floor_gbp, in pence
  MaxFraction,   \* max_position_fraction, in percent
  Deviation,     \* max_price_deviation_fraction, in percent
  Opening,       \* the account at the start: cash, quantities held and prices
  MaxOrders      \* max_trades_per_week

NoCap == -1
NoQuote == 0     \* no snapshot, a stale one, or one from the future

(* Shares are bought in whole lots at positive prices, and the account     *)
(* begins above its floor.                                                 *)
ASSUME RiskAssumption ==
  /\ IsFiniteSet(Tickers) /\ Lot \in Nat \ {0} /\ Quotes \subseteq Nat \ {0}
  /\ Instruments \in [DOMAIN Instruments -> [fraction : Nat, cap : Nat \cup {NoCap}]]
  /\ Weights \subseteq Nat /\ Floor \in Nat /\ MaxFraction \in Nat /\ Deviation \in Nat
  /\ MaxOrders \in Nat
  /\ Opening \in [cash : Nat, quantity : [Tickers -> Nat], price : [Tickers -> Quotes]]
  /\ Opening.cash >= Lot * Floor

VARIABLES
  account,   \* what the broker holds: cash, and per ticker quantity
  price,     \* per ticker, what it trades at
  file,      \* the reconciled portfolio file: cash, quantities and market values
  used,      \* orders placed on this file
  reused,    \* some order was placed on a file that an earlier one had outdated
  open,      \* per ticker, the approved ticket
  orders     \* submitted this week

riskVars == <<account, price, file, used, reused, open, orders>>

NoTicketYet == [side |-> "NONE"]

-----------------------------------------------------------------------------
ToPence(n, d) ==    \* n/d to the nearest whole number, a half to the even one
  LET q == n \div d
      r == n % d
  IN IF 2 * r > d \/ (2 * r = d /\ q % 2 = 1) THEN q + 1 ELSE q

Abs(n) == IF n < 0 THEN -n ELSE n

Value(quantity, p) == Lot * ToPence(quantity * p, Lot)

Nav(f) == f.cash + SumFunctionOnSet(f.value, Tickers)

Breach(holds, name) == IF holds THEN {name} ELSE {}

(* What both checks ask of a position of ticker t that the order brings to *)
(* the projected value, against the file's NAV.                            *)
Fraction(t) == Min({Instruments[t].fraction, MaxFraction})

(* Faulty variant: the cap limits the order instead of the position. *)
LimitBreachesOfOrder(t, f, projected) ==
  LET order == IF projected > f.value[t] THEN projected - f.value[t] ELSE 0
  IN Breach(100 * order > Fraction(t) * Nav(f), "POSITION_LIMIT")
       \cup Breach(Instruments[t].cap # NoCap /\ order > Lot * Instruments[t].cap,
                   "ABSOLUTE_POSITION_LIMIT")
       \cup Breach(projected < 0, "NEGATIVE_POSITION")

LimitBreaches(t, f, projected) ==
  Breach(100 * projected > Fraction(t) * Nav(f), "POSITION_LIMIT")
    \cup Breach(/\ Instruments[t].cap # NoCap
                /\ projected > Lot * Instruments[t].cap, "ABSOLUTE_POSITION_LIMIT")
    \cup Breach(projected < 0, "NEGATIVE_POSITION")

Projected(side, t, f, value) == f.value[t] + IF side = "BUY" THEN value ELSE -value

(* Faulty variant: the floor is tested before the order is paid for. *)
CashBreachBefore(side, f, value) ==
  Breach(side = "BUY" /\ f.cash < Lot * Floor, "CASH_FLOOR")

CashBreach(side, f, value) ==
  Breach(side = "BUY" /\ f.cash - value < Lot * Floor, "CASH_FLOOR")

SharesBreach(side, t, f, quantity) ==
  Breach(side = "SELL" /\ quantity > f.quantity[t], "INSUFFICIENT_SHARES")

-----------------------------------------------------------------------------
(* build.  What has to hold before anything is computed, *)
Admission(side, t, p, duplicate, count) ==
  Breach(side = "HOLD", "HOLD")
    \cup Breach(t \notin DOMAIN Instruments, "NOT_WHITELISTED")
    \cup Breach(p = NoQuote, "NO_USABLE_PRICE")
    \cup Breach(count >= MaxOrders, "WEEKLY_TRADE_LIMIT")
    \cup Breach(duplicate, "DUPLICATE_OPEN")

(* and the order that brings the position to its target weight. *)
Delta(weight, t, f) == Lot * ToPence(weight * Nav(f), 100 * Lot) - f.value[t]

OrderQuantity(weight, t, f, p) == Abs(Delta(weight, t, f)) \div p

OrderBreaches(side, weight, t, f, p) ==
  LET quantity == OrderQuantity(weight, t, f, p)
      value    == Value(quantity, p)
  IN Breach(side = "BUY" /\ Delta(weight, t, f) <= 0, "ACTION_TARGET_MISMATCH")
       \cup Breach(side = "SELL" /\ Delta(weight, t, f) >= 0, "ACTION_TARGET_MISMATCH")
       \cup Breach(quantity = 0, "ORDER_TOO_SMALL")
       \cup SharesBreach(side, t, f, quantity)
       \cup LimitBreaches(t, f, Projected(side, t, f, value))
       \cup CashBreach(side, f, value)

BuildBreaches(side, weight, t, f, p, duplicate, count) ==
  LET admission == Admission(side, t, p, duplicate, count)
  IN IF admission # {} THEN admission
     ELSE IF Nav(f) <= 0 THEN {"NAV_INVALID"}
     ELSE OrderBreaches(side, weight, t, f, p)

(* validate_execution *)
(* Faulty variant: the order is checked as if it were always a purchase. *)
ValidateAsPurchase(ticket, t, f, p, count) ==
  LET value     == Value(ticket.quantity, p)
      projected == f.value[t] + value
  IN Breach(t \notin DOMAIN Instruments, "NOT_WHITELISTED")
       \cup Breach(count >= MaxOrders, "WEEKLY_TRADE_LIMIT")
       \cup CashBreach(ticket.side, f, value)
       \cup SharesBreach(ticket.side, t, f, ticket.quantity)
       \cup IF t \in DOMAIN Instruments THEN LimitBreaches(t, f, projected) ELSE {}

ValidateBreaches(ticket, t, f, p, count) ==
  LET value     == Value(ticket.quantity, p)
      projected == Projected(ticket.side, t, f, value)
  IN Breach(t \notin DOMAIN Instruments, "NOT_WHITELISTED")
       \cup Breach(Nav(f) <= 0, "NAV_INVALID")
       \cup Breach(count >= MaxOrders, "WEEKLY_TRADE_LIMIT")
       \cup CashBreach(ticket.side, f, value)
       \cup SharesBreach(ticket.side, t, f, ticket.quantity)
       \cup Breach(projected < 0, "NEGATIVE_POSITION")
       \cup IF t \in DOMAIN Instruments /\ Nav(f) > 0 THEN LimitBreaches(t, f, projected) ELSE {}

-----------------------------------------------------------------------------
Snapshot == [cash |-> account.cash, quantity |-> account.quantity,
             value |-> [t \in Tickers |-> account.quantity[t] * price[t]]]

RiskInit ==
  /\ account = [cash |-> Opening.cash, quantity |-> Opening.quantity]
  /\ price = Opening.price
  /\ file = [cash |-> Opening.cash, quantity |-> Opening.quantity,
             value |-> [t \in Tickers |-> Opening.quantity[t] * Opening.price[t]]]
  /\ used = 0
  /\ reused = FALSE
  /\ open = [t \in Tickers |-> NoTicketYet]
  /\ orders = 0

PriceMoves(t) ==
  /\ \E p \in Quotes : price' = [price EXCEPT ![t] = p]
  /\ UNCHANGED <<account, file, used, reused, open, orders>>

(* A new file is reconciled from Trading 212. *)
NewFile ==
  /\ file' = Snapshot
  /\ used' = 0
  /\ UNCHANGED <<account, price, reused, open, orders>>

(* propose reads any file, however old, and the latest stored quote, which *)
(* may be three days old: any price.  A human approves the ticket.         *)
Propose(t, side, weight, p) ==
  /\ BuildBreaches(side, weight, t, file, p, open[t].side = side, orders) = {}
  /\ open' = [open EXCEPT ![t] = [side |-> side, reference |-> p,
                                  quantity |-> OrderQuantity(weight, t, file, p)]]
  /\ UNCHANGED <<account, price, file, used, reused, orders>>

(* execute: the price must be near the ticket's, the file fresh, and the   *)
(* limits are checked against the file.  The order is then filled.         *)
Fill(t) ==
  LET signed == IF open[t].side = "BUY" THEN open[t].quantity ELSE -open[t].quantity
  IN account' = [cash |-> account.cash - signed * price[t],
                 quantity |-> [account.quantity EXCEPT ![t] = @ + signed]]

Execute(t) ==
  /\ open[t] # NoTicketYet
  /\ 100 * Abs(price[t] - open[t].reference) <= Deviation * open[t].reference
  /\ ValidateBreaches(open[t], t, file, price[t], orders) = {}
  /\ Fill(t)
  /\ open' = [open EXCEPT ![t] = NoTicketYet]
  /\ orders' = orders + 1
  /\ used' = used + 1
  /\ reused' = (reused \/ used > 0)
  /\ UNCHANGED <<price, file>>

(* An approved ticket expires. *)
Lapse(t) ==
  /\ open[t] # NoTicketYet
  /\ open' = [open EXCEPT ![t] = NoTicketYet]
  /\ UNCHANGED <<account, price, file, used, reused, orders>>

RiskNext ==
  \/ NewFile
  \/ \E t \in Tickers :
       \/ PriceMoves(t) \/ Execute(t) \/ Lapse(t)
       \/ \E side \in {"BUY", "SELL", "HOLD"}, weight \in Weights, p \in Quotes \cup {NoQuote} :
            Propose(t, side, weight, p)

RiskSpec == RiskInit /\ [][RiskNext]_riskVars

-----------------------------------------------------------------------------
(* The real account keeps its cash floor, to half a penny of rounding, and *)
(* never holds less than nothing, whatever the prices did between the      *)
(* proposal and the order, provided no two orders were placed on one file: *)
(* validate_execution sees the account only through the file (engine.py    *)
(* line 235), and a file may be used again within its two minutes.         *)
AccountKeepsItsFloor ==
  ~reused => /\ 2 * account.cash >= 2 * Lot * Floor - Lot
             /\ \A t \in Tickers : account.quantity[t] >= 0

(* An order never leaves a position worth more than its caps at the prices *)
(* it was checked and filled at, unless the file was outdated: neither the *)
(* half-penny roundings nor the way the fill changes the NAV break a cap   *)
(* by more than a penny (engine.py line 249).                              *)
FillsStayWithinCaps ==
  [][\A t \in Tickers :
       /\ open[t] # NoTicketYet /\ account' # account /\ open'[t] = NoTicketYet
       /\ file = Snapshot
       => LET worth == account'.quantity[t] * price[t]
          IN /\ 100 * (worth - Lot) <= Fraction(t) * Nav(file)
             /\ Instruments[t].cap # NoCap => worth - Lot <= Lot * Instruments[t].cap]_riskVars

(* The account after the fill of an order at the quoted price. *)
Filled(f, side, t, quantity, p) ==
  LET signed == IF side = "BUY" THEN quantity ELSE -quantity
  IN [cash |-> f.cash - signed * p,
      quantity |-> [f.quantity EXCEPT ![t] = @ + signed],
      value |-> [f.value EXCEPT ![t] = @ + signed * p]]

(* While the week admits an order, a decision that build accepts is good   *)
(* for one order: validate_execution accepts the ticket on the same file   *)
(* at the same price, and after the fill the same decision is refused and  *)
(* the position has not gone past the target.  Model output that repeats   *)
(* itself does not accumulate (engine.py lines 136 and 201).               *)
GoodForOneOrder ==
  orders < MaxOrders => \A t \in Tickers, side \in {"BUY", "SELL"}, weight \in Weights, p \in Quotes :
    BuildBreaches(side, weight, t, file, p, FALSE, orders) = {} =>
      LET quantity == OrderQuantity(weight, t, file, p)
          after    == Filled(file, side, t, quantity, p)
          target   == Lot * ToPence(weight * Nav(file), 100 * Lot)
      IN /\ ValidateBreaches([side |-> side, quantity |-> quantity], t, file, p, orders) = {}
         /\ BuildBreaches(side, weight, t, after, p, FALSE, orders) # {}
         /\ side = "BUY"  => after.value[t] <= target
         /\ side = "SELL" => after.value[t] >= target
=============================================================================
