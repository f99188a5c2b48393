---------------------------- MODULE PaperProofs ----------------------------
(***************************************************************************)
(* Theorems about PaperLedger, for any cohorts, portfolios, markets,       *)
(* invocations, offers and bankroll, and any number of deaths; and about   *)
(* PaperPolicy, for any cases and units.                                   *)
(*                                                                         *)
(* BooksAreSound and NoInvocationRaises need each other: a debit is booked *)
(* because no error is raised, and no error is raised because the books    *)
(* are sound.  Both also need what lies between two transactions of an     *)
(* invocation, and what the sums of the report range over:                 *)
(*   Listed    what a trade still has to decide has its baseline, although *)
(*             it was listed a while ago;                                  *)
(*   Unborn    before a cohort exists it has no forecast;                  *)
(*   FewLines  the tickets of a portfolio are finitely many.               *)
(*                                                                         *)
(* The proofs about the policy follow the walk over the book price by      *)
(* price.  It always adds up (Tallied), and it is Greedy: every level so   *)
(* far is bought, or one of them ended it.  From that a price per share    *)
(* divides the levels into those bought and those not, and no other        *)
(* purchase gains against it.                                              *)
(***************************************************************************)
EXTENDS PaperLedger, PaperPolicy, SumLemmas, SequenceTheorems

Baselines == {"none", "waiting", "late", "attached", "NO_TIMELY_BASELINE"}

AtMostOneActive ==
  \A c, d \in Cohorts : cohort[c] = "ACTIVE" /\ cohort[d] = "ACTIVE" => c = d

CashIsSound   == \A p \in Portfolios : CashSound(p)
TicketsAreSound == \A l \in Lines : TicketSound(l) /\ NoOrphan(l)

Explained ==
  \A p \in Portfolios :
    cohort[p[1]] # "none" => AvailableCash(p) + OpenCost(p) = Bankroll + Realized(p)

FewLines == \A p \in Portfolios : IsFiniteSet(OpenLines(p)) /\ IsFiniteSet(SettledLines(p))

Unborn == \A f \in Forecasts : cohort[f[1]] = "none" => baseline[f] = "none"

Listed ==
  \A w \in Runs : run[w].job = "trade" =>
    \A l \in run[w].todo : baseline[ForecastOf(l)] = "attached"

LedgerInv ==
  /\ TypeOK /\ AtMostOneActive /\ CashIsSound /\ TicketsAreSound
  /\ Explained /\ FewLines /\ Unborn /\ Listed /\ NoInvocationRaises

-----------------------------------------------------------------------------
(* What a line names, and the pairs that are lines. *)
LEMMA LineIs ==
  /\ \A l \in Lines : /\ l[1] \in Portfolios /\ l[1][1] \in Cohorts /\ l[2] \in Markets
                      /\ l = <<l[1], l[2]>>
                      /\ ForecastOf(l) \in Forecasts /\ ForecastOf(l)[1] = CohortOf(l)
                      /\ CohortOf(l) = l[1][1]
  /\ \A p \in Portfolios, m \in Markets :
       <<p, m>> \in Lines /\ <<p, m>>[1] = p /\ <<p, m>>[2] = m
  /\ \A p \in Portfolios : p[1] \in Cohorts
  /\ \A f \in Forecasts : f[1] \in Cohorts
BY DEF Lines, Portfolios, Forecasts, ForecastOf, CohortOf

(* A settled ticket is owed a natural number. *)
LEMMA PayoutIsNat == \A held, outcome : Payout(held, outcome) \in Nat
BY DEF Payout

(* The kinds of ticket, and what is known of each. *)
LEMMA TicketIs ==
  ASSUME TypeOK, NEW l \in Lines
  PROVE  /\ ticket[l] = NoTicket <=> ticket[l].status = "none"
         /\ ticket[l].status \in {"none", "OPEN", "SETTLED"}
         /\ ticket[l].status = "OPEN" =>
              /\ ticket[l].side \in Sides /\ ticket[l].shares \in Nat /\ ticket[l].cost \in Nat
         /\ ticket[l].status = "SETTLED" => ticket[l].cost \in Nat /\ ticket[l].payout \in Nat
<1>1. ticket[l] \in Ticket \cup {NoTicket}
  BY DEF TypeOK
<1>2. CASE ticket[l] = NoTicket
  BY <1>2 DEF NoTicket
<1>3. CASE ticket[l] \in [status : {"OPEN"}, side : Sides, shares : Nat, cost : Nat]
  BY <1>3 DEF NoTicket
<1>4. CASE ticket[l] \in [status : {"SETTLED"}, side : Sides, shares : Nat, cost : Nat,
                          outcome : SettleableOutcomes, payout : Nat]
  BY <1>4 DEF NoTicket
<1> QED
  BY <1>1, <1>2, <1>3, <1>4 DEF Ticket

(* A sequence of entries with one more. *)
LEMMA OneMoreEntry ==
  ASSUME NEW s \in Seq(Entry), NEW e \in Entry
  PROVE  /\ Len(s) \in Nat /\ DOMAIN s = 1..Len(s)
         /\ Append(s, e) \in Seq(Entry) /\ Append(s, e) # <<>>
         /\ Len(Append(s, e)) = Len(s) + 1 /\ DOMAIN Append(s, e) = 1..(Len(s) + 1)
         /\ \A i \in 1..Len(s) : Append(s, e)[i] = s[i]
         /\ Append(s, e)[Len(s) + 1] = e
         /\ \A i \in 1..Len(s) : s[i] \in Entry
         /\ s # <<>> => Len(s) > 0
<1>1. Len(s) \in Nat /\ DOMAIN s = 1..Len(s)
  BY LenProperties
<1>2. /\ Append(s, e) \in Seq(Entry) /\ Append(s, e) # <<>>
      /\ Len(Append(s, e)) = Len(s) + 1
      /\ \A i \in 1..Len(s) : Append(s, e)[i] = s[i]
      /\ Append(s, e)[Len(s) + 1] = e
  BY AppendProperties
<1>3. DOMAIN Append(s, e) = 1..(Len(s) + 1)
  BY <1>2, LenProperties
<1>4. \A i \in 1..Len(s) : s[i] \in Entry
  BY ElementOfSeq
<1>5. s # <<>> => Len(s) > 0
  BY <1>1, EmptySeq
<1> QED
  BY <1>1, <1>2, <1>3, <1>4, <1>5

(* The balance of a portfolio is a natural number. *)
LEMMA CashIsNat ==
  ASSUME TypeOK, NEW p \in Portfolios
  PROVE  AvailableCash(p) \in Nat
<1>1. cash[p] \in Seq(Entry)
  BY DEF TypeOK
<1>2. CASE cash[p] = <<>>
  BY <1>2 DEF AvailableCash
<1>3. CASE cash[p] # <<>>
  <2>1. Len(cash[p]) \in 1..Len(cash[p])
    BY <1>1, <1>3, EmptySeq
  <2>2. cash[p][Len(cash[p])] \in Entry
    BY <1>1, <2>1, ElementOfSeq
  <2> QED
    BY <1>3, <2>2 DEF AvailableCash, Entry
<1> QED
  BY <1>2, <1>3

(* An entry e booked to portfolio p: nothing else of the cash changes, and *)
(* of the sets of entries only the one of its type and market.             *)
LEMMA Booked ==
  ASSUME TypeOK, NEW p \in Portfolios, NEW e \in Entry,
         cash' = [cash EXCEPT ![p] = Append(@, e)]
  PROVE  /\ cash' \in [Portfolios -> Seq(Entry)]
         /\ \A q \in Portfolios : q # p => cash'[q] = cash[q] /\ AvailableCash(q)' = AvailableCash(q)
         /\ cash'[p] # <<>> /\ AvailableCash(p)' = e.balance
         /\ Len(cash[p]) \in Nat /\ Len(cash'[p]) = Len(cash[p]) + 1
         /\ DOMAIN cash[p] = 1..Len(cash[p]) /\ DOMAIN cash'[p] = 1..(Len(cash[p]) + 1)
         /\ \A i \in 1..Len(cash[p]) : cash'[p][i] = cash[p][i]
         /\ cash'[p][Len(cash[p]) + 1] = e
         /\ cash[p] # <<>> => Len(cash[p]) > 0
         /\ \A q \in Portfolios : \A type, m :
              ~(q = p /\ type = e.type /\ m = e.market) => Entries(q, type, m)' = Entries(q, type, m)
         /\ Entries(p, e.type, e.market)' = Entries(p, e.type, e.market) \cup {Len(cash[p]) + 1}
<1> DEFINE s == cash[p]
<1>1. cash \in [Portfolios -> Seq(Entry)] /\ s \in Seq(Entry)
  BY DEF TypeOK
<1>2. cash'[p] = Append(s, e) /\ \A q \in Portfolios : q # p => cash'[q] = cash[q]
  BY <1>1
<1>3. /\ Len(s) \in Nat /\ DOMAIN s = 1..Len(s)
      /\ cash'[p] \in Seq(Entry) /\ cash'[p] # <<>>
      /\ Len(cash'[p]) = Len(s) + 1 /\ DOMAIN cash'[p] = 1..(Len(s) + 1)
      /\ \A i \in 1..Len(s) : cash'[p][i] = s[i]
      /\ cash'[p][Len(s) + 1] = e
      /\ s # <<>> => Len(s) > 0
  BY <1>1, <1>2, OneMoreEntry
<1>4. cash' \in [Portfolios -> Seq(Entry)]
  BY <1>1, <1>2, <1>3
<1>5. \A q \in Portfolios : q # p => AvailableCash(q)' = AvailableCash(q)
  BY <1>2 DEF AvailableCash
<1>6. AvailableCash(p)' = e.balance
  BY <1>3 DEF AvailableCash
<1>7. ASSUME NEW q \in Portfolios, NEW type, NEW m
      PROVE  /\ q = p /\ type = e.type /\ m = e.market
                => Entries(q, type, m)' = Entries(q, type, m) \cup {Len(s) + 1}
             /\ ~(q = p /\ type = e.type /\ m = e.market)
                => Entries(q, type, m)' = Entries(q, type, m)
  <2>1. CASE q # p
    BY <1>2, <2>1 DEF Entries
  <2>2. CASE q = p
    <3>1. \A i \in 1..(Len(s) + 1) : i \in 1..Len(s) \/ i = Len(s) + 1
      BY <1>3
    <3>2. Len(s) + 1 \in 1..(Len(s) + 1) /\ 1..Len(s) \subseteq 1..(Len(s) + 1)
      BY <1>3
    <3>3. Entries(p, type, m)' = {i \in 1..(Len(s) + 1) : cash'[p][i].type = type /\ cash'[p][i].market = m}
      BY <1>3 DEF Entries
    <3>4. Entries(p, type, m) = {i \in 1..Len(s) : s[i].type = type /\ s[i].market = m}
      BY <1>3 DEF Entries
    <3> HIDE DEF s
    <3> QED
      BY <1>3, <2>2, <3>1, <3>2, <3>3, <3>4
  <2> QED
    BY <2>1, <2>2
<1> QED
  BY <1>2, <1>3, <1>4, <1>5, <1>6, <1>7

-----------------------------------------------------------------------------
(* Sums of a set with one element more or fewer, of functions that agree   *)
(* on the rest.                                                            *)
LEMMA SumOneMore ==
  ASSUME NEW S, IsFiniteSet(S), NEW f, NEW g, NEW e, e \notin S,
         \A x \in S : f[x] \in Int /\ g[x] = f[x], g[e] \in Int
  PROVE  /\ IsFiniteSet(S \cup {e})
         /\ SumFunctionOnSet(g, S \cup {e}) = g[e] + SumFunctionOnSet(f, S)
         /\ SumFunctionOnSet(f, S) \in Int
<1>1. SumFunctionOnSet(g, S \cup {e}) = g[e] + SumFunctionOnSet(g, S)
  BY SumAdd
<1>2. SumFunctionOnSet(g, S) = SumFunctionOnSet(f, S) /\ SumFunctionOnSet(f, S) \in Int
  BY SumAgrees, SumType
<1> QED
  BY <1>1, <1>2, FS_AddElement

(* Taking one element off a sum, when the other terms are as they were.    *)
LEMMA SumOneFewer ==
  ASSUME NEW S, IsFiniteSet(S), NEW f, NEW g, NEW e \in S,
         \A x \in S : f[x] \in Int, \A x \in S \ {e} : g[x] = f[x]
  PROVE  /\ IsFiniteSet(S \ {e})
         /\ SumFunctionOnSet(f, S) = f[e] + SumFunctionOnSet(g, S \ {e})
         /\ SumFunctionOnSet(g, S \ {e}) \in Int
<1>1. IsFiniteSet(S \ {e})
  BY FS_RemoveElement
<1>2. SumFunctionOnSet(f, S) = f[e] + SumFunctionOnSet(f, S \ {e})
  BY SumRemove
<1>3. SumFunctionOnSet(g, S \ {e}) = SumFunctionOnSet(f, S \ {e})
  BY <1>1, SumAgrees
<1>4. SumFunctionOnSet(f, S \ {e}) \in Int
  BY <1>1, SumType
<1> QED
  BY <1>1, <1>2, <1>3, <1>4

(* What a ticket costs and, once settled, what it earned, are integers. *)
LEMMA AmountsAreInts ==
  ASSUME TypeOK
  PROVE  /\ \A p : \A l \in OpenLines(p) : ticket[l].cost \in Int
         /\ \A p : \A l \in SettledLines(p) : ticket[l].payout - ticket[l].cost \in Int
BY TicketIs DEF OpenLines, SettledLines

(* The lines of the other portfolios, when only the ticket of line l       *)
(* changes.                                                                *)
LEMMA OthersStay ==
  ASSUME TypeOK, NEW l \in Lines, NEW t, ticket' = [ticket EXCEPT ![l] = t],
         NEW q \in Portfolios, q # l[1]
  PROVE  /\ OpenLines(q)' = OpenLines(q) /\ SettledLines(q)' = SettledLines(q)
         /\ OpenCost(q)' = OpenCost(q) /\ Realized(q)' = Realized(q)
<1>1. \A k \in Lines : k[1] = q => ticket'[k] = ticket[k]
  BY DEF TypeOK
<1>2. OpenLines(q)' = OpenLines(q) /\ SettledLines(q)' = SettledLines(q)
  BY <1>1 DEF OpenLines, SettledLines
<1>3. [k \in OpenLines(q) |-> ticket'[k].cost] = [k \in OpenLines(q) |-> ticket[k].cost]
  BY <1>1 DEF OpenLines
<1>4. [k \in SettledLines(q) |-> ticket'[k].payout - ticket'[k].cost]
        = [k \in SettledLines(q) |-> ticket[k].payout - ticket[k].cost]
  BY <1>1 DEF SettledLines
<1> QED
  BY <1>2, <1>3, <1>4 DEF OpenCost, Realized

(* A ticket is opened: its cost is locked. *)
LEMMA OpeningSums ==
  ASSUME TypeOK, FewLines, NEW l \in Lines, NEW t, ticket' = [ticket EXCEPT ![l] = t],
         ticket[l] = NoTicket, t.status = "OPEN", t.cost \in Nat
  PROVE  LET p == l[1] IN
         /\ IsFiniteSet(OpenLines(p)') /\ IsFiniteSet(SettledLines(p)')
         /\ OpenCost(p)' = OpenCost(p) + t.cost /\ Realized(p)' = Realized(p)
         /\ OpenCost(p) \in Int /\ Realized(p) \in Int
<1> DEFINE p == l[1]
           f == [k \in OpenLines(p) |-> ticket[k].cost]
           g == [k \in OpenLines(p) \cup {l} |-> ticket'[k].cost]
           h == [k \in SettledLines(p) |-> ticket[k].payout - ticket[k].cost]
<1>1. /\ p \in Portfolios /\ ticket'[l] = t /\ \A k \in Lines : k # l => ticket'[k] = ticket[k]
      /\ ticket[l].status = "none" /\ IsFiniteSet(OpenLines(p)) /\ IsFiniteSet(SettledLines(p))
  BY LineIs, TicketIs DEF TypeOK, FewLines
<1>2. l \notin OpenLines(p) /\ OpenLines(p)' = OpenLines(p) \cup {l} /\ SettledLines(p)' = SettledLines(p)
  BY <1>1 DEF OpenLines, SettledLines
<1>3. OpenLines(p) \subseteq Lines \ {l} /\ SettledLines(p) \subseteq Lines \ {l}
  BY <1>1 DEF OpenLines, SettledLines
<1>4. /\ \A k \in OpenLines(p) : f[k] \in Int /\ g[k] = f[k]
      /\ g[l] = t.cost /\ g[l] \in Int
  BY <1>1, <1>3, AmountsAreInts
<1>5. /\ IsFiniteSet(OpenLines(p) \cup {l})
      /\ SumFunctionOnSet(g, OpenLines(p) \cup {l}) = g[l] + SumFunctionOnSet(f, OpenLines(p))
      /\ SumFunctionOnSet(f, OpenLines(p)) \in Int
  <2> HIDE DEF f, g
  <2> QED
    BY <1>1, <1>2, <1>4, SumOneMore
<1>6. OpenCost(p)' = SumFunctionOnSet(g, OpenLines(p) \cup {l}) /\ OpenCost(p) = SumFunctionOnSet(f, OpenLines(p))
  BY <1>2 DEF OpenCost
<1>7. [k \in SettledLines(p) |-> ticket'[k].payout - ticket'[k].cost] = h
  BY <1>1, <1>3
<1>8. Realized(p)' = Realized(p) /\ Realized(p) = SumFunctionOnSet(h, SettledLines(p))
  BY <1>2, <1>7 DEF Realized
<1>9. SumFunctionOnSet(h, SettledLines(p)) \in Int
  <2>1. \A k \in SettledLines(p) : h[k] \in Int
    BY AmountsAreInts
  <2> HIDE DEF h
  <2> QED
    BY <1>1, <2>1, SumType
<1>10. OpenCost(p)' = OpenCost(p) + t.cost /\ OpenCost(p) \in Int
  <2> HIDE DEF f, g
  <2> QED
    BY <1>4, <1>5, <1>6
<1> QED
  BY <1>1, <1>2, <1>5, <1>8, <1>9, <1>10

(* A ticket is settled: its cost is released and its result realized. *)
LEMMA SettlingSums ==
  ASSUME TypeOK, FewLines, NEW l \in Lines, NEW t, ticket' = [ticket EXCEPT ![l] = t],
         ticket[l].status = "OPEN", t.status = "SETTLED", t.cost = ticket[l].cost, t.payout \in Nat
  PROVE  LET p == l[1] IN
         /\ IsFiniteSet(OpenLines(p)') /\ IsFiniteSet(SettledLines(p)')
         /\ OpenCost(p)' = OpenCost(p) - t.cost
         /\ Realized(p)' = Realized(p) + t.payout - t.cost
         /\ OpenCost(p)' \in Int /\ Realized(p) \in Int /\ t.cost \in Nat
<1> DEFINE p == l[1]
           f == [k \in OpenLines(p) |-> ticket[k].cost]
           g == [k \in OpenLines(p) \ {l} |-> ticket'[k].cost]
           h == [k \in SettledLines(p) |-> ticket[k].payout - ticket[k].cost]
           j == [k \in SettledLines(p) \cup {l} |-> ticket'[k].payout - ticket'[k].cost]
<1>1. /\ p \in Portfolios /\ ticket'[l] = t /\ \A k \in Lines : k # l => ticket'[k] = ticket[k]
      /\ t.cost \in Nat /\ IsFiniteSet(OpenLines(p)) /\ IsFiniteSet(SettledLines(p))
  BY LineIs, TicketIs DEF TypeOK, FewLines
<1>2. /\ l \in OpenLines(p) /\ OpenLines(p)' = OpenLines(p) \ {l}
      /\ l \notin SettledLines(p) /\ SettledLines(p)' = SettledLines(p) \cup {l}
  BY <1>1 DEF OpenLines, SettledLines
<1>3. OpenLines(p) \subseteq Lines /\ SettledLines(p) \subseteq Lines \ {l}
  BY <1>2 DEF OpenLines, SettledLines
<1>4. /\ \A k \in OpenLines(p) : f[k] \in Int
      /\ \A k \in OpenLines(p) \ {l} : g[k] = f[k]
      /\ f[l] = t.cost
  BY <1>1, <1>2, <1>3, AmountsAreInts
<1>5. /\ IsFiniteSet(OpenLines(p) \ {l})
      /\ SumFunctionOnSet(f, OpenLines(p)) = f[l] + SumFunctionOnSet(g, OpenLines(p) \ {l})
      /\ SumFunctionOnSet(g, OpenLines(p) \ {l}) \in Int
  <2> HIDE DEF f, g
  <2> QED
    BY <1>1, <1>2, <1>4, SumOneFewer
<1>6. OpenCost(p)' = SumFunctionOnSet(g, OpenLines(p) \ {l}) /\ OpenCost(p) = SumFunctionOnSet(f, OpenLines(p))
  BY <1>2 DEF OpenCost
<1>7. /\ \A k \in SettledLines(p) : h[k] \in Int /\ j[k] = h[k]
      /\ j[l] = t.payout - t.cost /\ j[l] \in Int
  BY <1>1, <1>3, AmountsAreInts
<1>8. /\ IsFiniteSet(SettledLines(p) \cup {l})
      /\ SumFunctionOnSet(j, SettledLines(p) \cup {l}) = j[l] + SumFunctionOnSet(h, SettledLines(p))
      /\ SumFunctionOnSet(h, SettledLines(p)) \in Int
  <2> HIDE DEF h, j
  <2> QED
    BY <1>1, <1>2, <1>7, SumOneMore
<1>9. Realized(p)' = SumFunctionOnSet(j, SettledLines(p) \cup {l}) /\ Realized(p) = SumFunctionOnSet(h, SettledLines(p))
  BY <1>2 DEF Realized
<1>10. OpenCost(p)' = OpenCost(p) - t.cost /\ OpenCost(p)' \in Int
  <2> HIDE DEF f, g
  <2> QED
    BY <1>1, <1>4, <1>5, <1>6
<1>11. Realized(p)' = Realized(p) + t.payout - t.cost /\ Realized(p) \in Int
  <2> HIDE DEF h, j
  <2> QED
    BY <1>1, <1>7, <1>8, <1>9
<1> QED
  BY <1>1, <1>2, <1>5, <1>8, <1>10, <1>11

-----------------------------------------------------------------------------
(* An invocation goes on, or ends, without an error. *)
LEMMA RunMoves ==
  ASSUME LedgerInv, NEW w \in Runs, NEW x \in Invocation,
         run' = [run EXCEPT ![w] = x], baseline' = baseline,
         x.job # "raised",
         x.job = "trade" => \A l \in x.todo : baseline[ForecastOf(l)] = "attached"
  PROVE  run' \in [Runs -> Invocation] /\ Listed' /\ NoInvocationRaises'
<1>1. run \in [Runs -> Invocation]
  BY DEF LedgerInv, TypeOK
<1>2. run'[w] = x /\ \A v \in Runs : v # w => run'[v] = run[v]
  BY <1>1
<1>3. run' \in [Runs -> Invocation]
  BY <1>1
<1>4. Listed'
  BY <1>2 DEF LedgerInv, Listed
<1>5. NoInvocationRaises'
  BY <1>2 DEF LedgerInv, NoInvocationRaises
<1> QED
  BY <1>3, <1>4, <1>5

(* The rest of the work of an invocation. *)
LEMMA RestIs ==
  ASSUME LedgerInv, NEW w \in Runs, NEW l \in Lines
  PROVE  /\ Rest(w, l) \in Invocation /\ Rest(w, l).job \in {"idle", run[w].job}
         /\ Rest(w, l).job # "idle" => Rest(w, l).todo \subseteq run[w].todo
<1>1. run[w] \in Invocation
  BY DEF LedgerInv, TypeOK
<1> QED
  BY <1>1 DEF Rest, Idle, Invocation

(* An invocation that has done with a line keeps what it knows of the      *)
(* rest.                                                                   *)
LEMMA RestMoves ==
  ASSUME LedgerInv, NEW w \in Runs, NEW l \in Lines, run[w].job \in {"trade", "settle"},
         run' = [run EXCEPT ![w] = Rest(w, l)], baseline' = baseline
  PROVE  run' \in [Runs -> Invocation] /\ Listed' /\ NoInvocationRaises'
<1> DEFINE x == Rest(w, l)
<1>1. x \in Invocation /\ x.job \in {"idle", run[w].job} /\ (x.job # "idle" => x.todo \subseteq run[w].todo)
  BY RestIs
<1>2. x.job # "raised" /\ (x.job = "trade" => \A k \in x.todo : baseline[ForecastOf(k)] = "attached")
  BY <1>1 DEF LedgerInv, Listed
<1>3. run' = [run EXCEPT ![w] = x]
  OBVIOUS
<1> HIDE DEF x
<1> QED
  BY <1>1, <1>2, <1>3, RunMoves

(* What depends on cohorts, tickets and cash alone. *)
LEMMA FundsStay ==
  ASSUME LedgerInv, cohort' = cohort, ticket' = ticket, cash' = cash
  PROVE  AtMostOneActive' /\ CashIsSound' /\ Explained' /\ FewLines'
<1>1. AtMostOneActive /\ CashIsSound /\ Explained /\ FewLines
  BY DEF LedgerInv
<1>2. AtMostOneActive' /\ CashIsSound'
  BY <1>1 DEF AtMostOneActive, CashIsSound, CashSound
<1>3. Explained' /\ FewLines'
  BY <1>1 DEF Explained, FewLines, AvailableCash, OpenCost, Realized, OpenLines, SettledLines
<1> QED
  BY <1>2, <1>3

(* A ticket keeps its baseline and its decision. *)
LEMMA TicketsStay ==
  ASSUME LedgerInv, ticket' = ticket, cash' = cash,
         \A f \in Forecasts : baseline[f] = "attached" => baseline'[f] = "attached",
         \A l \in Lines : decision'[l] = "TRADED" <=> decision[l] = "TRADED"
  PROVE  TicketsAreSound'
<1> SUFFICES ASSUME NEW l \in Lines PROVE TicketSound(l)' /\ NoOrphan(l)'
  BY DEF TicketsAreSound
<1>1. TicketSound(l) /\ NoOrphan(l) /\ ForecastOf(l) \in Forecasts
  BY LineIs DEF LedgerInv, TicketsAreSound
<1>2. baseline[ForecastOf(l)] = "attached" => baseline'[ForecastOf(l)] = "attached"
  BY <1>1
<1>3. TicketSound(l)'
  BY <1>1, <1>2 DEF TicketSound, OneEntry, Entries, SettlementSound
<1> QED
  BY <1>1, <1>3 DEF NoOrphan

(* A step that leaves the ledger alone leaves it sound. *)
LEMMA LedgerStays ==
  ASSUME LedgerInv, UNCHANGED ledger
  PROVE  /\ AtMostOneActive' /\ CashIsSound' /\ TicketsAreSound'
         /\ Explained' /\ FewLines' /\ Unborn'
<1>1. /\ cohort' = cohort /\ baseline' = baseline /\ decision' = decision
      /\ ticket' = ticket /\ cash' = cash
  BY DEF ledger
<1>2. Unborn'
  BY <1>1 DEF LedgerInv, Unborn
<1> QED
  BY <1>1, <1>2, FundsStay, TicketsStay

(* A cohort with a ticket exists, and so do its funds. *)
LEMMA TicketsAreFunded ==
  ASSUME LedgerInv, NEW l \in Lines, ticket[l] # NoTicket
  PROVE  cohort[CohortOf(l)] # "none"
BY LineIs DEF LedgerInv, TicketsAreSound, TicketSound, Unborn

(* The cash of a portfolio whose cohort exists has its opening entry.      *)
LEMMA CashStarts ==
  ASSUME LedgerInv, NEW p \in Portfolios, cohort[p[1]] # "none"
  PROVE  cash[p] # <<>>
BY DEF LedgerInv, CashIsSound, CashSound

(* An entry for the ticket of line l leaves the cash sound, and says       *)
(* nothing of any other ticket.                                            *)
LEMMA BookedSound ==
  ASSUME LedgerInv, NEW p \in Portfolios, NEW m \in Markets, NEW l \in Lines, l = <<p, m>>,
         NEW e \in Entry, NEW t \in Ticket, NEW d \in Decisions,
         e.type \in {"DEBIT", "CREDIT"}, e.market = m,
         t # NoTicket, cohort[CohortOf(l)] # "none",
         ticket' = [ticket EXCEPT ![l] = t], cohort' = cohort, baseline' = baseline,
         decision' = [decision EXCEPT ![l] = d],
         cash' = [cash EXCEPT ![p] = Append(@, e)]
  PROVE  /\ CashIsSound'
         /\ \A k \in Lines : k # l => TicketSound(k)' /\ NoOrphan(k)'
<1> DEFINE n == Len(cash[p])
<1>1. l[1] = p /\ l[2] = m /\ p[1] = CohortOf(l) /\ TypeOK
  BY LineIs DEF LedgerInv
<1>2. /\ \A k \in Lines : k # l => ticket'[k] = ticket[k] /\ decision'[k] = decision[k]
      /\ ticket'[l] = t
  BY <1>1 DEF TypeOK
<1>3. \A k \in Lines : ticket[k] # NoTicket => ticket'[k] # NoTicket
  BY <1>2
<1>4. /\ \A q \in Portfolios : q # p => cash'[q] = cash[q]
      /\ cash'[p] # <<>> /\ n \in Nat
      /\ DOMAIN cash[p] = 1..n /\ DOMAIN cash'[p] = 1..(n + 1)
      /\ \A i \in 1..n : cash'[p][i] = cash[p][i]
      /\ cash'[p][n + 1] = e
      /\ cash[p] # <<>> => n > 0
      /\ \A q \in Portfolios : \A type, o :
           ~(q = p /\ type = e.type /\ o = e.market) => Entries(q, type, o)' = Entries(q, type, o)
  <2>1. TypeOK /\ cash' = [cash EXCEPT ![p] = Append(@, e)]
    BY <1>1
  <2>2. \A q \in Portfolios : \A type, o :
          ~(q = p /\ type = e.type /\ o = e.market) => Entries(q, type, o)' = Entries(q, type, o)
    BY ONLY <2>1, Booked, p \in Portfolios, e \in Entry, ZenonT(60)
  <2>3. /\ \A q \in Portfolios : q # p => cash'[q] = cash[q]
        /\ cash'[p] # <<>> /\ n \in Nat
        /\ DOMAIN cash[p] = 1..n /\ DOMAIN cash'[p] = 1..(n + 1)
        /\ \A i \in 1..n : cash'[p][i] = cash[p][i]
        /\ cash'[p][n + 1] = e
        /\ cash[p] # <<>> => n > 0
    BY ONLY <2>1, Booked, p \in Portfolios, e \in Entry
  <2> QED
    BY <2>2, <2>3
<1>5. n > 0
  BY <1>1, <1>4, CashStarts
<1>6. ASSUME NEW q \in Portfolios PROVE CashSound(q)'
  <2>1. CASE q # p
    <3>1. CashSound(q)
      BY DEF LedgerInv, CashIsSound
    <3>2. cash'[q] = cash[q] /\ cohort' = cohort
      BY <1>4, <2>1
    <3>3. ASSUME NEW i \in DOMAIN cash[q], cash[q][i].market # "none", ticket[<<q, cash[q][i].market>>] # NoTicket
          PROVE  ticket'[<<q, cash[q][i].market>>] # NoTicket
      <4>1. <<q, cash[q][i].market>> \in Lines
        <5>1. cash[q] \in Seq(Entry)
          BY <1>1 DEF TypeOK
        <5>2. cash[q][i] \in Entry
          BY <5>1, OneMoreEntry
        <5>3. cash[q][i].market \in Markets
          BY <3>3, <5>2 DEF Entry
        <5> QED
          BY <5>3, LineIs
      <4> QED
        BY <1>3, <3>3, <4>1
    <3> QED
      BY <3>1, <3>2, <3>3 DEF CashSound
  <2>2. CASE q = p
    <3>1. CashSound(p) /\ cohort[p[1]] # "none" /\ cohort'[p[1]] # "none"
      BY <1>1 DEF LedgerInv, CashIsSound
    <3>2. ASSUME NEW i \in 1..n
          PROVE  /\ (cash'[p][i].type = "FUNDING") <=> (i = 1)
                 /\ (cash'[p][i].type = "FUNDING") <=> (cash'[p][i].market = "none")
                 /\ cash'[p][i].market # "none" => ticket'[<<p, cash'[p][i].market>>] # NoTicket
                 /\ cash'[p][i].balance >= 0
      <4>1. cash'[p][i] = cash[p][i] /\ i \in DOMAIN cash[p]
        BY <1>4
      <4>2. /\ (cash[p][i].type = "FUNDING") <=> (i = 1)
            /\ (cash[p][i].type = "FUNDING") <=> (cash[p][i].market = "none")
            /\ cash[p][i].market # "none" => ticket[<<p, cash[p][i].market>>] # NoTicket
            /\ cash[p][i].balance >= 0
        BY <3>1, <4>1 DEF CashSound
      <4>3. cash[p][i].market # "none" => <<p, cash[p][i].market>> \in Lines
        <5>1. cash[p] \in Seq(Entry)
          BY <1>1 DEF TypeOK
        <5>2. cash[p][i] \in Entry
          BY <4>1, <5>1, OneMoreEntry
        <5> QED
          BY <1>1, <5>2, LineIs DEF Entry
      <4> HIDE DEF n
      <4> QED
        BY <1>3, <4>1, <4>2, <4>3
    <3>3. /\ cash'[p][n + 1].type # "FUNDING" /\ n + 1 # 1
          /\ cash'[p][n + 1].market # "none" /\ ticket'[<<p, cash'[p][n + 1].market>>] # NoTicket
          /\ cash'[p][n + 1].balance >= 0
      <4>1. cash'[p][n + 1] = e /\ e.market \in Markets /\ <<p, e.market>> = l /\ e.balance \in Nat
        BY <1>1, <1>4 DEF Entry
      <4>2. n + 1 # 1
        BY <1>4, <1>5
      <4>3. e.type # "FUNDING" /\ e.market # "none" /\ e.balance >= 0
        BY <4>1, LedgerAssumption
      <4>4. ticket'[<<p, e.market>>] # NoTicket
        BY <1>2, <4>1
      <4> HIDE DEF n
      <4> QED
        BY <4>1, <4>2, <4>3, <4>4
    <3>4. cash'[p][1].amount = Bankroll
      BY <1>4, <1>5, <3>1 DEF CashSound
    <3>5. \A i \in 1..(n + 1) : i \in 1..n \/ i = n + 1
      BY <1>4
    <3>6. \A i \in 1..(n + 1) :
            /\ (cash'[p][i].type = "FUNDING") <=> (i = 1)
            /\ (cash'[p][i].type = "FUNDING") <=> (cash'[p][i].market = "none")
            /\ cash'[p][i].market # "none" => ticket'[<<p, cash'[p][i].market>>] # NoTicket
            /\ cash'[p][i].balance >= 0
      <4> HIDE DEF n
      <4> QED
        BY <3>2, <3>3, <3>5
    <3> HIDE DEF n
    <3> QED
      BY <1>4, <2>2, <3>1, <3>4, <3>6 DEF CashSound
  <2> QED
    BY <2>1, <2>2
<1>7. ASSUME NEW k \in Lines, k # l PROVE TicketSound(k)' /\ NoOrphan(k)'
  <2>1. k[1] \in Portfolios /\ (k[1] # p \/ k[2] # m)
    BY <1>1, <1>7, LineIs
  <2>2. \A type : Entries(k[1], type, k[2])' = Entries(k[1], type, k[2])
    BY <1>4, <2>1
  <2>3. \A i, type : Entries(k[1], type, k[2]) = {i} => cash'[k[1]][i] = cash[k[1]][i]
    <3> SUFFICES ASSUME NEW i, NEW type, Entries(k[1], type, k[2]) = {i}
                 PROVE  cash'[k[1]][i] = cash[k[1]][i]
      OBVIOUS
    <3>1. i \in DOMAIN cash[k[1]]
      BY DEF Entries
    <3> QED
      BY <1>4, <2>1, <3>1
  <2>4. \A i, type : Entries(k[1], type, k[2]) = {i} => i \in DOMAIN cash'[k[1]]
    <3> SUFFICES ASSUME NEW i, NEW type, Entries(k[1], type, k[2]) = {i}
                 PROVE  i \in DOMAIN cash'[k[1]]
      OBVIOUS
    <3>1. Entries(k[1], type, k[2])' = {i}
      BY <2>2
    <3> QED
      BY <3>1 DEF Entries
  <2>5. \A type, amount : OneEntry(k[1], type, k[2], amount) => OneEntry(k[1], type, k[2], amount)'
    BY <2>2, <2>3, <2>4 DEF OneEntry
  <2>6. TicketSound(k) /\ NoOrphan(k) /\ ticket'[k] = ticket[k] /\ decision'[k] = decision[k]
    BY <1>2, <1>7 DEF LedgerInv, TicketsAreSound
  <2>7. TicketSound(k)'
    BY <2>2, <2>5, <2>6 DEF TicketSound, SettlementSound
  <2> QED
    BY <2>6, <2>7 DEF NoOrphan
<1> QED
  BY <1>6, <1>7 DEF CashIsSound

-----------------------------------------------------------------------------
(* Cash moves for a market only once there is a ticket. *)
LEMMA NoTicketNoEntry ==
  ASSUME LedgerInv, NEW p \in Portfolios, NEW m \in Markets, ticket[<<p, m>>] = NoTicket, NEW type
  PROVE  Entries(p, type, m) = {}
<1> SUFFICES ASSUME NEW i \in Entries(p, type, m) PROVE FALSE
  OBVIOUS
<1>1. i \in DOMAIN cash[p] /\ cash[p][i].market = m
  BY DEF Entries
<1>2. cash[p] # <<>>
  <2>1. cash[p] \in Seq(Entry)
    BY DEF LedgerInv, TypeOK
  <2> QED
    BY <1>1, <2>1, EmptySeq, OneMoreEntry
<1>3. cash[p][i].market # "none" => ticket[<<p, cash[p][i].market>>] # NoTicket
  BY <1>1, <1>2 DEF LedgerInv, CashIsSound, CashSound
<1> QED
  BY <1>1, <1>3, LedgerAssumption

(* HasEntry and the sets of entries.                                       *)
LEMMA HasEntryIs == \A p, type, m : HasEntry(p, type, m) <=> Entries(p, type, m) # {}
BY DEF HasEntry, Entries

(* A ticket is opened: the cost leaves the cash and is locked.             *)
LEMMA OpenTicketKeeps ==
  ASSUME LedgerInv, NEW w \in Runs, NEW l \in Lines, OpenTicket(w, l)
  PROVE  LedgerInv'
<1>0. PICK p \in Portfolios, m \in Markets : l[1] = p /\ l[2] = m /\ l = <<p, m>>
  BY LineIs
<1>1. /\ run[w].job = "trade" /\ l \in run[w].todo /\ decision[l] = Undecided
      /\ cohort[CohortOf(l)] = "ACTIVE" /\ ticket[l] = NoTicket
  BY DEF OpenTicket, AlreadyDecided, Tradable
<1>2. /\ CohortOf(l) = p[1] /\ l[1] = p /\ l = <<p, m>>
      /\ TypeOK /\ FewLines /\ AvailableCash(p) \in Nat
  BY <1>0, LineIs, CashIsNat DEF LedgerInv
<1>3. baseline[ForecastOf(l)] = "attached"
  BY <1>1 DEF LedgerInv, Listed
<1>4. \A type : Entries(p, type, m) = {}
  BY <1>1, <1>2, NoTicketNoEntry
<1>5. PICK offer \in Offers :
        /\ offer.cost <= Budget(l)
        /\ IF OpenRaises(l, offer)
           THEN /\ run' = [run EXCEPT ![w] = [job |-> "raised", todo |-> {}]]
                /\ UNCHANGED ledger
           ELSE /\ ticket' = [ticket EXCEPT ![l] =
                     [status |-> "OPEN", side |-> offer.side,
                      shares |-> offer.shares, cost |-> offer.cost]]
                /\ cash' = WithEntry(l[1], "DEBIT", offer.cost, l[2])
                /\ decision' = [decision EXCEPT ![l] = "TRADED"]
                /\ run' = [run EXCEPT ![w] = Rest(w, l)]
                /\ UNCHANGED <<cohort, baseline>>
  BY DEF OpenTicket
<1>6. /\ offer.cost \in Nat \ {0} /\ offer.shares \in Nat \ {0} /\ offer.side \in Sides
      /\ AvailableCash(p) >= offer.cost
  BY <1>0, <1>2, <1>5, LedgerAssumption DEF Budget
<1>7. ~OpenRaises(l, offer)
  BY <1>0, <1>1, <1>2, <1>3, <1>4, <1>6, HasEntryIs DEF OpenRaises
<1>8. PICK t \in Ticket, e \in Entry :
        /\ t.status = "OPEN" /\ t.cost = offer.cost
        /\ e.type = "DEBIT" /\ e.amount = offer.cost /\ e.market = m
        /\ e.balance = AvailableCash(p) - offer.cost
        /\ ticket' = [ticket EXCEPT ![l] = t] /\ cash' = [cash EXCEPT ![p] = Append(@, e)]
  <2> DEFINE t == [status |-> "OPEN", side |-> offer.side, shares |-> offer.shares, cost |-> offer.cost]
             e == [type |-> "DEBIT", amount |-> offer.cost, market |-> m,
                   balance |-> AvailableCash(p) + (-offer.cost)]
  <2>1. AvailableCash(p) + (-offer.cost) = AvailableCash(p) - offer.cost /\ AvailableCash(p) - offer.cost \in Nat
    BY <1>2, <1>6
  <2>2. t \in Ticket
    BY <1>6 DEF Ticket
  <2>3. e \in Entry
    BY <1>2, <1>6, <2>1 DEF Entry
  <2>4. ticket' = [ticket EXCEPT ![l] = t] /\ cash' = [cash EXCEPT ![p] = Append(@, e)]
    BY <1>0, <1>5, <1>7 DEF WithEntry
  <2>5. /\ t.status = "OPEN" /\ t.cost = offer.cost
        /\ e.type = "DEBIT" /\ e.amount = offer.cost /\ e.market = m
        /\ e.balance = AvailableCash(p) - offer.cost
    BY <2>1
  <2> HIDE DEF t, e
  <2> QED
    BY <2>2, <2>3, <2>4, <2>5
<1>9. /\ decision' = [decision EXCEPT ![l] = "TRADED"] /\ run' = [run EXCEPT ![w] = Rest(w, l)]
      /\ cohort' = cohort /\ baseline' = baseline
      /\ started' = started /\ verdict' = verdict /\ crashes' = crashes
  BY <1>5, <1>7 DEF OpenTicket, market
<1>10. t # NoTicket
  BY <1>8 DEF NoTicket
<1>11. /\ CashIsSound' /\ \A k \in Lines : k # l => TicketSound(k)' /\ NoOrphan(k)'
  <2>1. /\ l = <<p, m>> /\ e.type \in {"DEBIT", "CREDIT"} /\ e.market = m /\ cohort[CohortOf(l)] # "none"
        /\ cohort' = cohort /\ baseline' = baseline
        /\ ticket' = [ticket EXCEPT ![l] = t] /\ cash' = [cash EXCEPT ![p] = Append(@, e)]
        /\ decision' = [decision EXCEPT ![l] = "TRADED"] /\ "TRADED" \in Decisions
    BY <1>1, <1>2, <1>8, <1>9 DEF Decisions
  <2> QED
    BY <1>10, <2>1, BookedSound
<1>12. /\ cash' \in [Portfolios -> Seq(Entry)]
       /\ \A q \in Portfolios : q # p => AvailableCash(q)' = AvailableCash(q)
       /\ AvailableCash(p)' = AvailableCash(p) - offer.cost
       /\ Entries(p, "CREDIT", m)' = {}
       /\ \E i \in DOMAIN cash'[p] : Entries(p, "DEBIT", m)' = {i} /\ cash'[p][i].amount = offer.cost
  <2> DEFINE n == Len(cash[p])
  <2>1. /\ cash' \in [Portfolios -> Seq(Entry)]
        /\ \A q \in Portfolios : q # p => AvailableCash(q)' = AvailableCash(q)
        /\ AvailableCash(p)' = e.balance
        /\ n \in Nat /\ DOMAIN cash'[p] = 1..(n + 1) /\ cash'[p][n + 1] = e
    BY <1>2, <1>8, Booked
  <2>2. /\ \A q \in Portfolios : \A type, o :
              ~(q = p /\ type = e.type /\ o = e.market) => Entries(q, type, o)' = Entries(q, type, o)
        /\ Entries(p, e.type, e.market)' = Entries(p, e.type, e.market) \cup {Len(cash[p]) + 1}
    <3>1. TypeOK /\ cash' = [cash EXCEPT ![p] = Append(@, e)]
      BY <1>2, <1>8
    <3> QED
      BY ONLY <3>1, Booked, p \in Portfolios, e \in Entry, ZenonT(60)
  <2>3. Entries(p, "CREDIT", m)' = {}
    BY <1>2, <1>4, <1>8, <2>2
  <2>4. Entries(p, "DEBIT", m)' = {n + 1}
    BY <1>4, <1>8, <2>2
  <2>5. n + 1 \in DOMAIN cash'[p] /\ cash'[p][n + 1].amount = offer.cost
    BY <1>8, <2>1
  <2> QED
    BY <1>8, <2>1, <2>3, <2>4, <2>5
<1>13. ticket'[l] = t /\ decision'[l] = "TRADED"
  BY <1>2, <1>8, <1>9 DEF TypeOK
<1>14. TicketSound(l)' /\ NoOrphan(l)'
  <2>1. OneEntry(p, "DEBIT", m, offer.cost)'
    BY <1>12 DEF OneEntry
  <2> QED
    BY <1>0, <1>3, <1>8, <1>9, <1>10, <1>12, <1>13, <2>1 DEF TicketSound, NoOrphan
<1>15. TicketsAreSound'
  BY <1>11, <1>14 DEF TicketsAreSound
<1>16. /\ IsFiniteSet(OpenLines(p)') /\ IsFiniteSet(SettledLines(p)')
       /\ OpenCost(p)' = OpenCost(p) + t.cost /\ Realized(p)' = Realized(p)
       /\ OpenCost(p) \in Int /\ Realized(p) \in Int
  BY <1>1, <1>2, <1>6, <1>8, OpeningSums
<1>17. \A q \in Portfolios : q # p =>
         /\ OpenLines(q)' = OpenLines(q) /\ SettledLines(q)' = SettledLines(q)
         /\ OpenCost(q)' = OpenCost(q) /\ Realized(q)' = Realized(q)
  BY <1>2, <1>8, OthersStay
<1>18. FewLines'
  BY <1>2, <1>16, <1>17 DEF FewLines
<1>19. ASSUME NEW q \in Portfolios, cohort'[q[1]] # "none"
       PROVE  AvailableCash(q)' + OpenCost(q)' = Bankroll + Realized(q)'
  <2>1. AvailableCash(q) + OpenCost(q) = Bankroll + Realized(q)
    BY <1>9, <1>19 DEF LedgerInv, Explained
  <2>2. CASE q # p
    BY <1>12, <1>17, <2>1, <2>2
  <2>3. CASE q = p
    BY <1>2, <1>6, <1>8, <1>12, <1>16, <2>1, <2>3
  <2> QED
    BY <2>2, <2>3
<1>20. Explained'
  BY <1>19 DEF Explained
<1>21. run' \in [Runs -> Invocation] /\ Listed' /\ NoInvocationRaises'
  <2>1. run[w].job \in {"trade", "settle"} /\ run' = [run EXCEPT ![w] = Rest(w, l)] /\ baseline' = baseline
    BY <1>1, <1>9
  <2> QED
    BY <2>1, RestMoves
<1>22. TypeOK'
  <2>1. ticket' \in [Lines -> Ticket \cup {NoTicket}] /\ decision' \in [Lines -> Decisions]
    BY <1>2, <1>8, <1>9 DEF TypeOK, Decisions
  <2> QED
    BY <1>2, <1>9, <1>12, <1>21, <2>1 DEF TypeOK
<1>23. AtMostOneActive' /\ Unborn'
  BY <1>9 DEF LedgerInv, AtMostOneActive, Unborn
<1> QED
  BY <1>11, <1>15, <1>18, <1>20, <1>21, <1>22, <1>23 DEF LedgerInv

(* A ticket is settled: it is paid what it is owed, once.                  *)
LEMMA SettleTicketKeeps ==
  ASSUME LedgerInv, NEW w \in Runs, NEW l \in Lines, SettleTicket(w, l)
  PROVE  LedgerInv'
<1>0. PICK p \in Portfolios, m \in Markets : l[1] = p /\ l[2] = m /\ l = <<p, m>>
  BY LineIs
<1>1. /\ run[w].job = "settle" /\ ticket[l].status = "OPEN"
      /\ verdict[m] \in SettleableOutcomes
  BY <1>0 DEF SettleTicket, Settleable, LedgerInv, TypeOK
<1>2. /\ CohortOf(l) = p[1] /\ TypeOK /\ FewLines /\ AvailableCash(p) \in Nat
      /\ ticket[l] # NoTicket
      /\ ticket[l].side \in Sides /\ ticket[l].shares \in Nat /\ ticket[l].cost \in Nat
  BY <1>0, <1>1, LineIs, CashIsNat, TicketIs DEF LedgerInv
<1>3. TicketSound(l) /\ NoOrphan(l) /\ cohort[CohortOf(l)] # "none"
  BY <1>2, TicketsAreFunded DEF LedgerInv, TicketsAreSound
<1>4. /\ baseline[ForecastOf(l)] = "attached" /\ decision[l] = "TRADED"
      /\ OneEntry(p, "DEBIT", m, ticket[l].cost) /\ Entries(p, "CREDIT", m) = {}
  BY <1>0, <1>1, <1>2, <1>3 DEF TicketSound
<1>5. ~SettleRaises(l)
  BY <1>0, <1>1, <1>4, HasEntryIs DEF SettleRaises
<1>6. /\ ticket' = [ticket EXCEPT ![l] = Settled(l)]
      /\ cash' = WithEntry(p, "CREDIT", Settled(l).payout, m)
      /\ run' = [run EXCEPT ![w] = Rest(w, l)]
      /\ cohort' = cohort /\ baseline' = baseline /\ decision' = decision
      /\ started' = started /\ verdict' = verdict /\ crashes' = crashes
  BY <1>0, <1>5 DEF SettleTicket, market
<1>7. PICK t \in Ticket :
        /\ t = Settled(l)
        /\ t.status = "SETTLED" /\ t.side = ticket[l].side /\ t.shares = ticket[l].shares
        /\ t.cost = ticket[l].cost /\ t.outcome = verdict[m]
        /\ t.outcome \in SettleableOutcomes /\ t.payout \in Nat
        /\ t.payout = t.shares * Payout(t.side, t.outcome)
  <2> DEFINE owed == ticket[l].shares * Payout(ticket[l].side, verdict[m])
             t == [status |-> "SETTLED", side |-> ticket[l].side, shares |-> ticket[l].shares,
                   cost |-> ticket[l].cost, outcome |-> verdict[m], payout |-> owed]
  <2>1. Payout(ticket[l].side, verdict[m]) \in Nat
    BY PayoutIsNat
  <2>2. owed \in Nat
    <3>1. \A a, b \in Nat : a * b \in Nat
      OBVIOUS
    <3> QED
      BY <1>2, <2>1, <3>1
  <2>3. t = Settled(l)
    BY <1>0 DEF Settled
  <2>4. t \in Ticket
    <3> HIDE DEF owed
    <3> QED
      BY <1>1, <1>2, <2>2 DEF Ticket
  <2>5. /\ t.status = "SETTLED" /\ t.side = ticket[l].side /\ t.shares = ticket[l].shares
        /\ t.cost = ticket[l].cost /\ t.outcome = verdict[m] /\ t.payout = owed
    OBVIOUS
  <2>6. t.payout = t.shares * Payout(t.side, t.outcome)
    BY <2>5
  <2> HIDE DEF t, owed
  <2> QED
    BY <1>1, <2>2, <2>3, <2>4, <2>5, <2>6
<1>8. PICK e \in Entry :
        /\ e.type = "CREDIT" /\ e.amount = t.payout /\ e.market = m
        /\ e.balance = AvailableCash(p) + t.payout
        /\ cash' = [cash EXCEPT ![p] = Append(@, e)]
  <2> DEFINE e == [type |-> "CREDIT", amount |-> t.payout, market |-> m,
                   balance |-> AvailableCash(p) + t.payout]
  <2>1. AvailableCash(p) + t.payout \in Nat
    BY <1>2, <1>7
  <2>2. e \in Entry
    BY <1>7, <2>1 DEF Entry
  <2>3. cash' = [cash EXCEPT ![p] = Append(@, e)]
    BY <1>6, <1>7 DEF WithEntry
  <2>4. e.type = "CREDIT" /\ e.amount = t.payout /\ e.market = m /\ e.balance = AvailableCash(p) + t.payout
    OBVIOUS
  <2> HIDE DEF e
  <2> QED
    BY <2>2, <2>3, <2>4
<1>9. t # NoTicket /\ ticket' = [ticket EXCEPT ![l] = t] /\ TypeOK
  BY <1>2, <1>6, <1>7 DEF NoTicket
<1>10. decision' = [decision EXCEPT ![l] = "TRADED"] /\ "TRADED" \in Decisions
  BY <1>2, <1>4, <1>6 DEF TypeOK, Decisions
<1>11. /\ CashIsSound' /\ \A k \in Lines : k # l => TicketSound(k)' /\ NoOrphan(k)'
  <2>1. /\ l = <<p, m>> /\ e.type \in {"DEBIT", "CREDIT"} /\ e.market = m /\ cohort[CohortOf(l)] # "none"
        /\ cohort' = cohort /\ baseline' = baseline
        /\ ticket' = [ticket EXCEPT ![l] = t] /\ cash' = [cash EXCEPT ![p] = Append(@, e)]
        /\ decision' = [decision EXCEPT ![l] = "TRADED"] /\ "TRADED" \in Decisions
        /\ t # NoTicket
    BY <1>0, <1>3, <1>6, <1>8, <1>9, <1>10
  <2> QED
    BY <2>1, BookedSound
<1>12. /\ cash' \in [Portfolios -> Seq(Entry)]
       /\ \A q \in Portfolios : q # p => AvailableCash(q)' = AvailableCash(q)
       /\ AvailableCash(p)' = AvailableCash(p) + t.payout
       /\ \E i \in DOMAIN cash'[p] : Entries(p, "DEBIT", m)' = {i} /\ cash'[p][i].amount = t.cost
       /\ \E i \in DOMAIN cash'[p] : Entries(p, "CREDIT", m)' = {i} /\ cash'[p][i].amount = t.payout
  <2> DEFINE n == Len(cash[p])
  <2>1. /\ cash' \in [Portfolios -> Seq(Entry)]
        /\ \A q \in Portfolios : q # p => AvailableCash(q)' = AvailableCash(q)
        /\ AvailableCash(p)' = e.balance
        /\ n \in Nat /\ DOMAIN cash[p] = 1..n /\ DOMAIN cash'[p] = 1..(n + 1)
        /\ \A i \in 1..n : cash'[p][i] = cash[p][i]
        /\ cash'[p][n + 1] = e
    BY <1>8, <1>9, Booked
  <2>2. /\ \A q \in Portfolios : \A type, o :
              ~(q = p /\ type = e.type /\ o = e.market) => Entries(q, type, o)' = Entries(q, type, o)
        /\ Entries(p, e.type, e.market)' = Entries(p, e.type, e.market) \cup {Len(cash[p]) + 1}
    <3>1. TypeOK /\ cash' = [cash EXCEPT ![p] = Append(@, e)]
      BY <1>8, <1>9
    <3> QED
      BY ONLY <3>1, Booked, p \in Portfolios, e \in Entry
  <2>3. Entries(p, "DEBIT", m)' = Entries(p, "DEBIT", m) /\ Entries(p, "CREDIT", m)' = {n + 1}
    BY <1>4, <1>8, <2>2
  <2>4. n + 1 \in DOMAIN cash'[p] /\ cash'[p][n + 1].amount = t.payout
    BY <1>8, <2>1
  <2>5. PICK i \in DOMAIN cash[p] : Entries(p, "DEBIT", m) = {i} /\ cash[p][i].amount = ticket[l].cost
    BY <1>4 DEF OneEntry
  <2>6. i \in DOMAIN cash'[p] /\ cash'[p][i].amount = t.cost
    BY <1>7, <2>1, <2>5
  <2>7. AvailableCash(p)' = AvailableCash(p) + t.payout
    BY <1>8, <2>1
  <2> HIDE DEF n
  <2> QED
    BY <2>1, <2>3, <2>4, <2>5, <2>6, <2>7
<1>13. ticket'[l] = t /\ decision'[l] = "TRADED"
  BY <1>4, <1>6, <1>9 DEF TypeOK
<1>14. TicketSound(l)' /\ NoOrphan(l)'
  <2>1. OneEntry(p, "DEBIT", m, t.cost)' /\ OneEntry(p, "CREDIT", m, t.payout)'
    BY <1>12 DEF OneEntry
  <2>2. SettlementSound(l)'
    BY <1>7, <1>13 DEF SettlementSound
  <2> QED
    BY <1>0, <1>4, <1>6, <1>7, <1>9, <1>13, <2>1, <2>2 DEF TicketSound, NoOrphan
<1>15. TicketsAreSound'
  BY <1>11, <1>14 DEF TicketsAreSound
<1>16. /\ IsFiniteSet(OpenLines(p)') /\ IsFiniteSet(SettledLines(p)')
       /\ OpenCost(p)' = OpenCost(p) - t.cost
       /\ Realized(p)' = Realized(p) + t.payout - t.cost
       /\ OpenCost(p)' \in Int /\ Realized(p) \in Int /\ t.cost \in Nat
  BY <1>0, <1>1, <1>2, <1>7, <1>9, SettlingSums
<1>17. \A q \in Portfolios : q # p =>
         /\ OpenLines(q)' = OpenLines(q) /\ SettledLines(q)' = SettledLines(q)
         /\ OpenCost(q)' = OpenCost(q) /\ Realized(q)' = Realized(q)
  BY <1>0, <1>9, OthersStay
<1>18. FewLines'
  BY <1>2, <1>16, <1>17 DEF FewLines
<1>19. ASSUME NEW q \in Portfolios, cohort'[q[1]] # "none"
       PROVE  AvailableCash(q)' + OpenCost(q)' = Bankroll + Realized(q)'
  <2>1. AvailableCash(q) + OpenCost(q) = Bankroll + Realized(q)
    BY <1>6, <1>19 DEF LedgerInv, Explained
  <2>2. CASE q # p
    BY <1>12, <1>17, <2>1, <2>2
  <2>3. CASE q = p
    <3>1. OpenCost(p) \in Int
      <4>1. \A k \in OpenLines(p) : [x \in OpenLines(p) |-> ticket[x].cost][k] \in Int
        BY <1>2, AmountsAreInts
      <4>2. IsFiniteSet(OpenLines(p))
        BY <1>2 DEF FewLines
      <4> QED
        BY <4>1, <4>2, SumType DEF OpenCost
    <3>2. t.payout \in Nat /\ AvailableCash(p) \in Nat /\ Bankroll \in Nat
      BY <1>2, <1>7, LedgerAssumption
    <3>3. AvailableCash(p)' + OpenCost(p)' = Bankroll + Realized(p)'
      <4>1. AvailableCash(p) + OpenCost(p) = Bankroll + Realized(p)
        BY <2>1, <2>3
      <4>2. AvailableCash(p)' = AvailableCash(p) + t.payout
        BY <1>12
      <4>3. /\ OpenCost(p)' = OpenCost(p) - t.cost
            /\ Realized(p)' = Realized(p) + t.payout - t.cost
            /\ Realized(p) \in Int /\ t.cost \in Nat
        BY <1>16
      <4>4. \A a, o, b, r, x, y \in Int :
              a + o = b + r => (a + x) + (o - y) = b + (r + x - y)
        OBVIOUS
      <4> QED
        BY <3>1, <3>2, <4>1, <4>2, <4>3, <4>4
    <3> QED
      BY <2>3, <3>3
  <2> QED
    BY <2>2, <2>3
<1>20. Explained'
  BY <1>19 DEF Explained
<1>21. run' \in [Runs -> Invocation] /\ Listed' /\ NoInvocationRaises'
  <2>1. run[w].job \in {"trade", "settle"} /\ run' = [run EXCEPT ![w] = Rest(w, l)] /\ baseline' = baseline
    BY <1>1, <1>6
  <2> QED
    BY <2>1, RestMoves
<1>22. TypeOK'
  <2>1. ticket' \in [Lines -> Ticket \cup {NoTicket}]
    BY <1>9 DEF TypeOK
  <2> QED
    BY <1>6, <1>9, <1>12, <1>21, <2>1 DEF TypeOK
<1>23. AtMostOneActive' /\ Unborn'
  BY <1>6 DEF LedgerInv, AtMostOneActive, Unborn
<1> QED
  BY <1>11, <1>15, <1>18, <1>20, <1>21, <1>22, <1>23 DEF LedgerInv

(* A cohort is registered and funded; its portfolios have no ticket yet.   *)
LEMMA EnsureCohortKeeps ==
  ASSUME LedgerInv, NEW c \in Cohorts, EnsureCohort(c)
  PROVE  LedgerInv'
<1>1. /\ cohort[c] = "none" /\ TypeOK
      /\ cohort' = [d \in Cohorts |-> IF d = c THEN "ACTIVE"
                                      ELSE IF cohort[d] = "ACTIVE" THEN "CLOSED" ELSE cohort[d]]
      /\ cash' = [p \in Portfolios |-> IF p[1] = c THEN WithEntry(p, "FUNDING", Bankroll, "none")[p]
                                                   ELSE cash[p]]
      /\ baseline' = baseline /\ decision' = decision /\ ticket' = ticket
      /\ started' = started /\ verdict' = verdict /\ run' = run /\ crashes' = crashes
  BY DEF EnsureCohort, LedgerInv, market
<1>2. /\ cohort' \in [Cohorts -> {"none", "ACTIVE", "CLOSED"}]
      /\ \A d \in Cohorts : /\ cohort'[d] = "ACTIVE" => d = c
                            /\ cohort'[d] = "none" <=> d # c /\ cohort[d] = "none"
  BY <1>1 DEF TypeOK
<1>3. \A l \in Lines : CohortOf(l) = c => ticket[l] = NoTicket
  BY <1>1, TicketsAreFunded
<1>4. PICK e \in Entry : /\ e.type = "FUNDING" /\ e.amount = Bankroll /\ e.market = "none"
                         /\ e.balance = Bankroll
                         /\ \A p \in Portfolios : p[1] = c => cash'[p] = <<e>>
  <2> DEFINE e == [type |-> "FUNDING", amount |-> Bankroll, market |-> "none", balance |-> Bankroll]
  <2>1. e \in Entry
    BY LedgerAssumption DEF Entry
  <2>2. ASSUME NEW p \in Portfolios, p[1] = c PROVE cash'[p] = <<e>>
    <3>1. cash[p] = <<>> /\ AvailableCash(p) = 0 /\ 0 + Bankroll = Bankroll
      BY <1>1, <2>2, LedgerAssumption DEF LedgerInv, CashIsSound, CashSound, AvailableCash
    <3>2. WithEntry(p, "FUNDING", Bankroll, "none")[p] = Append(cash[p], e)
      BY <1>1, <3>1 DEF WithEntry, TypeOK
    <3>3. cash'[p] = Append(<<>>, e)
      BY <1>1, <2>2, <3>1, <3>2
    <3> HIDE DEF e
    <3> QED
      BY <3>3
  <2>3. /\ e.type = "FUNDING" /\ e.amount = Bankroll /\ e.market = "none" /\ e.balance = Bankroll
    OBVIOUS
  <2> HIDE DEF e
  <2> QED
    BY <2>1, <2>2, <2>3
<1>5. \A p \in Portfolios : p[1] # c => cash'[p] = cash[p]
  BY <1>1
<1>6. ASSUME NEW p \in Portfolios, p[1] = c
      PROVE  /\ cash'[p] \in Seq(Entry) /\ cash'[p] # <<>> /\ Len(cash'[p]) = 1
             /\ DOMAIN cash'[p] = {1} /\ cash'[p][1] = e
  <2>1. cash'[p] = <<e>>
    BY <1>4, <1>6
  <2>2. DOMAIN <<e>> = {1} /\ Len(<<e>>) = 1 /\ <<e>>[1] = e /\ <<e>> # <<>> /\ <<e>> \in Seq(Entry)
    OBVIOUS
  <2> QED
    BY <2>1, <2>2
<1>7. cash' \in [Portfolios -> Seq(Entry)]
  BY <1>1, <1>5, <1>6 DEF TypeOK
<1>8. TypeOK'
  BY <1>1, <1>2, <1>7 DEF TypeOK
<1>9. AtMostOneActive'
  BY <1>2 DEF AtMostOneActive
<1>10. ASSUME NEW p \in Portfolios PROVE CashSound(p)'
  <2>1. p[1] \in Cohorts
    BY LineIs
  <2>2. CASE p[1] = c
    <3>1. e.balance >= 0
      BY <1>4, LedgerAssumption
    <3> QED
      BY <1>2, <1>4, <1>6, <2>1, <2>2, <3>1 DEF CashSound
  <2>3. CASE p[1] # c
    <3>1. CashSound(p)
      BY DEF LedgerInv, CashIsSound
    <3>2. cash'[p] = cash[p] /\ ticket' = ticket /\ (cohort'[p[1]] = "none" <=> cohort[p[1]] = "none")
      BY <1>1, <1>2, <1>5, <2>1, <2>3
    <3> QED
      BY <3>1, <3>2 DEF CashSound
  <2> QED
    BY <2>2, <2>3
<1>11. ASSUME NEW l \in Lines PROVE TicketSound(l)' /\ NoOrphan(l)'
  <2>1. /\ TicketSound(l) /\ NoOrphan(l)
        /\ ticket' = ticket /\ decision' = decision /\ baseline' = baseline
    BY <1>1 DEF LedgerInv, TicketsAreSound
  <2>2. NoOrphan(l)'
    BY <2>1 DEF NoOrphan
  <2>3. CASE ticket[l] = NoTicket
    BY <2>1, <2>2, <2>3 DEF TicketSound
  <2>4. CASE ticket[l] # NoTicket
    <3>1. cash'[l[1]] = cash[l[1]]
      BY <1>3, <1>5, <2>4, LineIs
    <3> QED
      BY <2>1, <2>2, <3>1 DEF TicketSound, OneEntry, Entries, SettlementSound
  <2> QED
    BY <2>2, <2>3, <2>4
<1>12. ASSUME NEW p \in Portfolios
       PROVE  /\ OpenLines(p)' = OpenLines(p) /\ SettledLines(p)' = SettledLines(p)
              /\ OpenCost(p)' = OpenCost(p) /\ Realized(p)' = Realized(p)
  BY <1>1 DEF OpenLines, SettledLines, OpenCost, Realized
<1>13. ASSUME NEW p \in Portfolios, cohort'[p[1]] # "none"
       PROVE  AvailableCash(p)' + OpenCost(p)' = Bankroll + Realized(p)'
  <2>1. CASE p[1] = c
    <3>1. \A l \in Lines : l[1] = p => ticket[l] = NoTicket /\ ticket[l].status = "none"
      BY <1>1, <1>3, <2>1, LineIs, TicketIs
    <3>2. OpenLines(p) = {} /\ SettledLines(p) = {}
      BY <3>1 DEF OpenLines, SettledLines
    <3>3. OpenCost(p) = 0 /\ Realized(p) = 0
      BY <3>2, SumEmpty DEF OpenCost, Realized
    <3>4. AvailableCash(p)' = Bankroll
      BY <1>4, <1>6, <2>1 DEF AvailableCash
    <3> QED
      BY <1>12, <3>3, <3>4, LedgerAssumption
  <2>2. CASE p[1] # c
    <3>1. cohort[p[1]] # "none" /\ AvailableCash(p)' = AvailableCash(p)
      BY <1>2, <1>5, <1>13, <2>2, LineIs DEF AvailableCash
    <3> QED
      BY <1>12, <3>1 DEF LedgerInv, Explained
  <2> QED
    BY <2>1, <2>2
<1>14. Explained' /\ CashIsSound' /\ TicketsAreSound'
  BY <1>10, <1>11, <1>13 DEF Explained, CashIsSound, TicketsAreSound
<1>15. FewLines'
  BY <1>12 DEF LedgerInv, FewLines
<1>16. Unborn'
  BY <1>1, <1>2, LineIs DEF LedgerInv, Unborn
<1>17. Listed' /\ NoInvocationRaises'
  BY <1>1 DEF LedgerInv, Listed, NoInvocationRaises
<1> QED
  BY <1>8, <1>9, <1>14, <1>15, <1>16, <1>17 DEF LedgerInv

(* A forecast's baseline moves on while it has none, and its undecided     *)
(* portfolios may be decided without a trade.                              *)
LEMMA BaselineMoves ==
  ASSUME LedgerInv, NEW f \in Forecasts, cohort[f[1]] # "none", baseline[f] # "attached",
         NEW b \in Baselines,
         baseline' = [baseline EXCEPT ![f] = b],
         \A l \in Lines : \/ decision'[l] = decision[l]
                           \/ (decision[l] = Undecided /\ decision'[l] = "NO_TIMELY_BASELINE"),
         decision' \in [Lines -> Decisions],
         UNCHANGED <<cohort, ticket, cash, market, run, crashes>>
  PROVE  LedgerInv'
<1>1. /\ cohort' = cohort /\ ticket' = ticket /\ cash' = cash /\ started' = started
      /\ verdict' = verdict /\ run' = run /\ crashes' = crashes /\ TypeOK
  BY DEF market, LedgerInv
<1>2. /\ baseline'[f] = b /\ \A g \in Forecasts : g # f => baseline'[g] = baseline[g]
      /\ baseline' \in [Forecasts -> {"none", "waiting", "late", "attached", "NO_TIMELY_BASELINE"}]
  BY <1>1 DEF TypeOK, Baselines
<1>3. \A g \in Forecasts : baseline[g] = "attached" => baseline'[g] = "attached"
  BY <1>2
<1>4. TypeOK'
  BY <1>1, <1>2 DEF TypeOK
<1>5. AtMostOneActive' /\ CashIsSound' /\ Explained' /\ FewLines'
  BY <1>1, FundsStay
<1>6. \A l \in Lines : decision'[l] = "TRADED" <=> decision[l] = "TRADED"
  BY DEF Undecided
<1>7. TicketsAreSound'
  BY <1>1, <1>3, <1>6, TicketsStay
<1>8. Unborn'
  BY <1>1, <1>2 DEF LedgerInv, Unborn
<1>9. Listed' /\ NoInvocationRaises'
  <2>1. \A w \in Runs : \A l \in run[w].todo : l \in Lines
    BY <1>1 DEF TypeOK, Invocation
  <2> QED
    BY <1>1, <1>3, <2>1, LineIs DEF LedgerInv, Listed, NoInvocationRaises
<1> QED
  BY <1>4, <1>5, <1>7, <1>8, <1>9 DEF LedgerInv

(* The actions of BaselineMoves. *)
LEMMA BaselineKeeps ==
  ASSUME LedgerInv, NEW f \in Forecasts, RecordForecast(f) \/ CloseWindow(f) \/ Resume(f)
  PROVE  LedgerInv'
<1>1. /\ decision \in [Lines -> Decisions]
      /\ baseline[f] # "none" => cohort[f[1]] # "none"
  BY DEF LedgerInv, TypeOK, Unborn
<1>2. /\ "waiting" \in Baselines /\ "late" \in Baselines /\ "attached" \in Baselines
      /\ "NO_TIMELY_BASELINE" \in Baselines
  BY DEF Baselines
<1>3. CASE RecordForecast(f)
  <2>1. /\ cohort[f[1]] # "none" /\ baseline[f] # "attached"
        /\ baseline' = [baseline EXCEPT ![f] = "waiting"] /\ decision' \in [Lines -> Decisions]
        /\ \A l \in Lines : decision'[l] = decision[l]
        /\ UNCHANGED <<cohort, ticket, cash, market, run, crashes>>
    BY <1>1, <1>3 DEF RecordForecast
  <2> QED
    BY <1>1, <1>2, <2>1, BaselineMoves
<1>4. CASE CloseWindow(f)
  <2>1. /\ cohort[f[1]] # "none" /\ baseline[f] # "attached"
        /\ baseline' = [baseline EXCEPT ![f] = "late"] /\ decision' \in [Lines -> Decisions]
        /\ \A l \in Lines : decision'[l] = decision[l]
        /\ UNCHANGED <<cohort, ticket, cash, market, run, crashes>>
    BY <1>1, <1>4 DEF CloseWindow
  <2> QED
    BY <1>1, <1>2, <2>1, BaselineMoves
<1>5. CASE AttachBaseline(f)
  <2>1. /\ cohort[f[1]] # "none" /\ baseline[f] # "attached"
        /\ baseline' = [baseline EXCEPT ![f] = "attached"] /\ decision' \in [Lines -> Decisions]
        /\ \A l \in Lines : decision'[l] = decision[l]
        /\ UNCHANGED <<cohort, ticket, cash, market, run, crashes>>
    BY <1>1, <1>5 DEF AttachBaseline
  <2> QED
    BY <1>1, <1>2, <2>1, BaselineMoves
<1>6. CASE MarkNoTimelyBaseline(f)
  <2>1. /\ cohort[f[1]] # "none" /\ baseline[f] # "attached"
        /\ baseline' = [baseline EXCEPT ![f] = "NO_TIMELY_BASELINE"]
        /\ UNCHANGED <<cohort, ticket, cash, market, run, crashes>>
    BY <1>1, <1>6 DEF MarkNoTimelyBaseline
  <2>2. decision' = [l \in Lines |-> IF ForecastOf(l) = f /\ decision[l] = Undecided
                                     THEN "NO_TIMELY_BASELINE" ELSE decision[l]]
    BY <1>6 DEF MarkNoTimelyBaseline
  <2>3. \A l \in Lines : \/ decision'[l] = decision[l]
                           \/ (decision[l] = Undecided /\ decision'[l] = "NO_TIMELY_BASELINE")
    <3> SUFFICES ASSUME NEW l \in Lines
                 PROVE  \/ decision'[l] = decision[l]
                           \/ (decision[l] = Undecided /\ decision'[l] = "NO_TIMELY_BASELINE")
      OBVIOUS
    <3>1. decision'[l] = IF ForecastOf(l) = f /\ decision[l] = Undecided
                         THEN "NO_TIMELY_BASELINE" ELSE decision[l]
      BY <2>2
    <3>2. CASE ForecastOf(l) = f /\ decision[l] = Undecided
      BY <3>1, <3>2
    <3>3. CASE ~(ForecastOf(l) = f /\ decision[l] = Undecided)
      BY <3>1, <3>3
    <3> QED
      BY <3>2, <3>3
  <2>4. decision' \in [Lines -> Decisions]
    <3>1. "NO_TIMELY_BASELINE" \in Decisions /\ \A l \in Lines : decision[l] \in Decisions
      BY <1>1 DEF Decisions
    <3> QED
      BY <2>2, <3>1
  <2> QED
    BY <1>2, <2>1, <2>3, <2>4, BaselineMoves
<1> QED
  BY <1>3, <1>4, <1>5, <1>6 DEF Resume

(* A refusal: what is undecided has no ticket. *)
LEMMA RefuseKeeps ==
  ASSUME LedgerInv, NEW w \in Runs, NEW l \in Lines, Refuse(w, l)
  PROVE  LedgerInv'
<1>1. /\ run[w].job \in {"trade", "settle"} /\ decision[l] = Undecided /\ TypeOK
      /\ run' = [run EXCEPT ![w] = Rest(w, l)]
      /\ cohort' = cohort /\ ticket' = ticket /\ cash' = cash /\ started' = started
      /\ verdict' = verdict /\ crashes' = crashes /\ baseline' = baseline
  BY DEF Refuse, AlreadyDecided, LedgerInv, market
<1>2. PICK d \in {"REFUSED", "COHORT_CLOSED"} : decision' = [decision EXCEPT ![l] = d]
  BY DEF Refuse
<1>3. /\ decision' \in [Lines -> Decisions]
      /\ \A k \in Lines : decision'[k] = "TRADED" <=> decision[k] = "TRADED"
  BY <1>1, <1>2 DEF TypeOK, Decisions, Undecided
<1>4. run' \in [Runs -> Invocation] /\ Listed' /\ NoInvocationRaises'
  BY <1>1, RestMoves
<1>5. TypeOK'
  BY <1>1, <1>3, <1>4 DEF TypeOK
<1>6. AtMostOneActive' /\ CashIsSound' /\ Explained' /\ FewLines'
  BY <1>1, FundsStay
<1>7. TicketsAreSound'
  BY <1>1, <1>3, TicketsStay
<1>8. Unborn'
  BY <1>1 DEF LedgerInv, Unborn
<1> QED
  BY <1>4, <1>5, <1>6, <1>7, <1>8 DEF LedgerInv

(* The steps that leave the ledger alone: listings, skips, deaths, polls.  *)
LEMMA IdleStepsKeep ==
  ASSUME LedgerInv,
         \/ \E w \in Runs : \/ ListOpen(w) \/ Crash(w) \/ \E f \in Forecasts : ListUndecided(w, f)
                            \/ \E l \in Lines : SkipDecided(w, l) \/ SkipTicket(w, l)
         \/ \E m \in Markets : Observe(m)
  PROVE  LedgerInv'
<1>1. UNCHANGED ledger /\ baseline' = baseline
  BY DEF ListOpen, Crash, ListUndecided, SkipDecided, SkipTicket, Observe, ledger
<1>2. /\ AtMostOneActive' /\ CashIsSound' /\ TicketsAreSound'
      /\ Explained' /\ FewLines' /\ Unborn'
  BY <1>1, LedgerStays
<1>3. started' \in [Markets -> BOOLEAN] /\ verdict' \in [Markets -> SettleableOutcomes \cup {NoOutcome}]
      /\ crashes' \in 0..MaxCrashes
  <2>1. /\ started \in [Markets -> BOOLEAN] /\ verdict \in [Markets -> SettleableOutcomes \cup {NoOutcome}]
        /\ crashes \in 0..MaxCrashes
    BY DEF LedgerInv, TypeOK
  <2>2. CASE \E m \in Markets : Observe(m)
    BY <2>1, <2>2 DEF Observe
  <2>3. CASE \E w \in Runs : Crash(w)
    BY <2>1, <2>3, LedgerAssumption DEF Crash, market
  <2>4. CASE \E w \in Runs : \/ ListOpen(w) \/ \E f \in Forecasts : ListUndecided(w, f)
                             \/ \E l \in Lines : SkipDecided(w, l) \/ SkipTicket(w, l)
    BY <2>1, <2>4 DEF ListOpen, ListUndecided, SkipDecided, SkipTicket, market
  <2> QED
    BY <2>2, <2>3, <2>4
<1>4. run' \in [Runs -> Invocation] /\ Listed' /\ NoInvocationRaises'
  <2>1. ASSUME NEW w \in Runs, NEW l \in Lines, SkipDecided(w, l) \/ SkipTicket(w, l)
        PROVE  run' \in [Runs -> Invocation] /\ Listed' /\ NoInvocationRaises'
    BY <1>1, <2>1, RestMoves DEF SkipDecided, SkipTicket
  <2>2. ASSUME NEW w \in Runs, Crash(w)
        PROVE  run' \in [Runs -> Invocation] /\ Listed' /\ NoInvocationRaises'
    <3>1. Idle \in Invocation /\ Idle.job = "idle"
      BY DEF Idle, Invocation
    <3> QED
      BY <1>1, <2>2, <3>1, RunMoves DEF Crash
  <2>3. ASSUME NEW w \in Runs, ListOpen(w)
        PROVE  run' \in [Runs -> Invocation] /\ Listed' /\ NoInvocationRaises'
    <3> DEFINE x == [job |-> "settle", todo |-> {l \in Lines : ticket[l].status = "OPEN"}]
    <3>1. x \in Invocation /\ x.job = "settle"
      BY DEF Invocation
    <3>2. run' = [run EXCEPT ![w] = x]
      BY <2>3 DEF ListOpen
    <3> HIDE DEF x
    <3> QED
      BY <1>1, <3>1, <3>2, RunMoves
  <2>4. ASSUME NEW w \in Runs, NEW f \in Forecasts, ListUndecided(w, f)
        PROVE  run' \in [Runs -> Invocation] /\ Listed' /\ NoInvocationRaises'
    <3> DEFINE x == [job |-> "trade", todo |-> UndecidedLines(f)]
    <3>1. x \in Invocation /\ x.job = "trade" /\ \A l \in x.todo : baseline[ForecastOf(l)] = "attached"
      BY <2>4 DEF Invocation, UndecidedLines, ListUndecided, NeedsDecision
    <3>2. run' = [run EXCEPT ![w] = x]
      BY <2>4 DEF ListUndecided
    <3> HIDE DEF x
    <3> QED
      BY <1>1, <3>1, <3>2, RunMoves
  <2>5. ASSUME NEW m \in Markets, Observe(m)
        PROVE  run' \in [Runs -> Invocation] /\ Listed' /\ NoInvocationRaises'
    BY <1>1, <2>5 DEF Observe, LedgerInv, TypeOK, Listed, NoInvocationRaises
  <2> QED
    BY <2>1, <2>2, <2>3, <2>4, <2>5
<1>5. TypeOK'
  BY <1>1, <1>3, <1>4 DEF LedgerInv, TypeOK, ledger
<1> QED
  BY <1>2, <1>4, <1>5 DEF LedgerInv

-----------------------------------------------------------------------------
(* Before any cohort is registered there is nothing to report. *)
LEMMA LedgerInit == ASSUME Init PROVE LedgerInv
<1>1. /\ cohort = [c \in Cohorts |-> "none"] /\ baseline = [f \in Forecasts |-> "none"]
      /\ decision = [l \in Lines |-> Undecided] /\ ticket = [l \in Lines |-> NoTicket]
      /\ cash = [p \in Portfolios |-> <<>>] /\ run = [w \in Runs |-> Idle]
  BY DEF Init
<1>2. \A c \in Cohorts : cohort[c] = "none"
  BY <1>1
<1>3. TypeOK
  <2>1. Undecided \in Decisions /\ Idle \in Invocation /\ <<>> \in Seq(Entry) /\ 0 \in 0..MaxCrashes
    BY LedgerAssumption DEF Decisions, Idle, Invocation
  <2> QED
    BY <2>1 DEF Init, TypeOK
<1>4. AtMostOneActive /\ Unborn /\ CashIsSound
  BY <1>1, <1>2, LineIs DEF AtMostOneActive, Unborn, CashIsSound, CashSound
<1>5. \A l \in Lines : ticket[l] = NoTicket /\ ticket[l].status = "none" /\ decision[l] # "TRADED"
  BY <1>1 DEF NoTicket, Undecided
<1>6. TicketsAreSound
  BY <1>5 DEF TicketsAreSound, TicketSound, NoOrphan
<1>7. FewLines
  <2>1. \A p \in Portfolios : OpenLines(p) = {} /\ SettledLines(p) = {}
    BY <1>5 DEF OpenLines, SettledLines
  <2> QED
    BY <2>1, FS_EmptySet DEF FewLines
<1>8. Explained
  BY <1>2, LineIs DEF Explained
<1>9. Listed /\ NoInvocationRaises
  BY <1>1 DEF Listed, NoInvocationRaises, Idle
<1> QED
  BY <1>3, <1>4, <1>6, <1>7, <1>8, <1>9 DEF LedgerInv

(* Every transaction leaves the ledger as it has to be. *)
LEMMA LedgerStep == ASSUME LedgerInv, [Next]_vars PROVE LedgerInv'
<1>1. CASE \E c \in Cohorts : EnsureCohort(c)
  BY <1>1, EnsureCohortKeeps
<1>2. CASE \E f \in Forecasts : RecordForecast(f) \/ CloseWindow(f) \/ Resume(f)
  BY <1>2, BaselineKeeps
<1>3. ASSUME NEW w \in Runs, NEW l \in Lines, Work(w, l) PROVE LedgerInv'
  <2>1. CASE SkipDecided(w, l) \/ SkipTicket(w, l)
    BY <2>1, IdleStepsKeep
  <2>2. CASE Refuse(w, l)
    BY <2>2, RefuseKeeps
  <2>3. CASE OpenTicket(w, l)
    BY <2>3, OpenTicketKeeps
  <2>4. CASE SettleTicket(w, l)
    BY <2>4, SettleTicketKeeps
  <2> QED
    BY <1>3, <2>1, <2>2, <2>3, <2>4 DEF Work
<1>4. CASE \/ \E w \in Runs : \/ ListOpen(w) \/ Crash(w)
                              \/ \E f \in Forecasts : ListUndecided(w, f)
           \/ \E m \in Markets : Observe(m)
  BY <1>4, IdleStepsKeep
<1>5. CASE UNCHANGED vars
  <2>1. UNCHANGED ledger /\ UNCHANGED <<started, verdict, run, crashes>>
    BY <1>5 DEF vars, market
  <2>2. /\ AtMostOneActive' /\ CashIsSound' /\ TicketsAreSound'
        /\ Explained' /\ FewLines' /\ Unborn'
    BY <2>1, LedgerStays
  <2>3. TypeOK' /\ Listed' /\ NoInvocationRaises'
    BY <2>1 DEF LedgerInv, TypeOK, Listed, NoInvocationRaises, ledger
  <2> QED
    BY <2>2, <2>3 DEF LedgerInv
<1> QED
  BY <1>1, <1>2, <1>3, <1>4, <1>5 DEF Next

(* LedgerInv holds in every state: the books, the types and what the       *)
(* invocations have listed.                                                *)
THEOREM LedgerInvariant == Spec => []LedgerInv
<1>1. Init => LedgerInv
  BY LedgerInit
<1>2. LedgerInv /\ [Next]_vars => LedgerInv'
  BY LedgerStep
<1> QED
  BY <1>1, <1>2, PTL DEF Spec

(* The books are sound whatever the interleaving of the invocations, the   *)
(* research run and the polls, and wherever an invocation dies: each       *)
(* ticket has its decision, its baseline, one debit and, once settled, one *)
(* credit of what it is owed, and the reported equity is the bankroll plus *)
(* the reported result of the settled tickets.                             *)
THEOREM DoctorHasNothingToReport == Spec => []BooksAreSound
<1>1. LedgerInv => BooksAreSound
  <2> SUFFICES ASSUME LedgerInv PROVE BooksAreSound
    OBVIOUS
  <2>1. OneActiveCohort
    <3> DEFINE A == {c \in Cohorts : cohort[c] = "ACTIVE"}
    <3>1. CASE A = {}
      <4>1. Cardinality(A) = 0
        BY <3>1, FS_EmptySet
      <4> QED
        BY <4>1 DEF OneActiveCohort
    <3>2. CASE A # {}
      <4>1. PICK c \in Cohorts : cohort[c] = "ACTIVE"
        BY <3>2
      <4>2. A = {c}
        BY <4>1 DEF LedgerInv, AtMostOneActive
      <4>3. Cardinality(A) = 1
        BY <4>2, FS_Singleton
      <4> QED
        BY <4>3 DEF OneActiveCohort
    <3> QED
      BY <3>1, <3>2
  <2>2. LedgerVerified
    BY <2>1 DEF LedgerInv, LedgerVerified, CashIsSound, TicketsAreSound
  <2>3. ASSUME NEW p \in Portfolios, cohort[p[1]] # "none" PROVE EquityExplained(p)
    <3>1. AvailableCash(p) + OpenCost(p) = Bankroll + Realized(p)
      BY <2>3 DEF LedgerInv, Explained
    <3>2. /\ Report(p).equity = AvailableCash(p) + OpenCost(p)
          /\ Report(p).realized = Realized(p)
      BY DEF Report
    <3> QED
      BY <3>1, <3>2 DEF EquityExplained, Equity
  <2> QED
    BY <2>2, <2>3 DEF BooksAreSound, LedgerInv
<1> QED
  BY <1>1, LedgerInvariant, PTL

(* No error of the ledger is ever raised by concurrent invocations.        *)
THEOREM LedgerNeverRaises == Spec => []NoInvocationRaises
<1>1. LedgerInv => NoInvocationRaises
  BY DEF LedgerInv
<1> QED
  BY <1>1, LedgerInvariant, PTL

(* After its cohort has closed a portfolio only receives.                  *)
THEOREM ClosedCohortsReceive == Spec => ClosedCohortsOnlyReceive
<1>1. LedgerInv /\ [Next]_vars =>
        [\A p \in Portfolios :
           cohort[p[1]] = "CLOSED" =>
             \/ cash'[p] = cash[p]
             \/ cash'[p][Len(cash'[p])].type = "CREDIT"]_vars
  <2> SUFFICES ASSUME LedgerInv, Next, NEW p \in Portfolios, cohort[p[1]] = "CLOSED", cash'[p] # cash[p]
               PROVE  cash'[p][Len(cash'[p])].type = "CREDIT"
    BY DEF vars, ledger
  <2>1. ASSUME NEW c \in Cohorts, EnsureCohort(c) PROVE FALSE
    BY <2>1 DEF EnsureCohort
  <2>2. ASSUME NEW w \in Runs, NEW l \in Lines, OpenTicket(w, l) PROVE FALSE
    <3>1. PICK offer \in Offers : cash' = cash \/ cash' = WithEntry(l[1], "DEBIT", offer.cost, l[2])
      BY <2>2 DEF OpenTicket, ledger
    <3>2. cohort[l[1][1]] = "ACTIVE" /\ cash \in [Portfolios -> Seq(Entry)]
      BY <2>2 DEF OpenTicket, Tradable, CohortOf, LedgerInv, TypeOK
    <3>3. l[1] # p
      BY <3>2
    <3> QED
      BY <3>1, <3>2, <3>3 DEF WithEntry
  <2>3. ASSUME NEW w \in Runs, NEW l \in Lines, SettleTicket(w, l)
        PROVE  cash'[p][Len(cash'[p])].type = "CREDIT"
    <3>1. cash' = WithEntry(l[1], "CREDIT", Settled(l).payout, l[2])
      BY <2>3 DEF SettleTicket, ledger
    <3>2. PICK e : e.type = "CREDIT" /\ cash' = [cash EXCEPT ![l[1]] = Append(@, e)]
      BY <3>1 DEF WithEntry
    <3>3. cash[p] \in Seq(Entry) /\ cash \in [Portfolios -> Seq(Entry)]
      BY DEF LedgerInv, TypeOK
    <3>4. cash'[p] = Append(cash[p], e)
      BY <3>2, <3>3
    <3>5. Append(cash[p], e)[Len(Append(cash[p], e))] = e
      BY <3>3
    <3> QED
      BY <3>2, <3>4, <3>5
  <2>4. cash' = cash \/ (\E c \in Cohorts : EnsureCohort(c))
                     \/ (\E w \in Runs, l \in Lines : OpenTicket(w, l) \/ SettleTicket(w, l))
    BY DEF Next, RecordForecast, CloseWindow, Resume, AttachBaseline, MarkNoTimelyBaseline, ListOpen,
       Crash, ListUndecided, Work, SkipDecided, Refuse, SkipTicket, Observe, ledger
  <2> QED
    BY <2>1, <2>2, <2>3, <2>4
<1> QED
  BY <1>1, LedgerInvariant, PTL DEF Spec, ClosedCohortsOnlyReceive

-----------------------------------------------------------------------------
(* A finite set of numbers has a least one, and Least chooses it.          *)
LEMMA LeastIs ==
  ASSUME NEW S, IsFiniteSet(S), S # {}, S \subseteq Int
  PROVE  Least(S) \in S /\ \A y \in S : Least(S) <= y
<1> DEFINE Good == {T \in SUBSET S : T # {} => \E x \in T : \A y \in T : x <= y}
<1>1. ASSUME NEW T \in SUBSET S, \A U \in SUBSET T : U # T => U \in Good
      PROVE  T \in Good
  <2> SUFFICES ASSUME NEW e \in T PROVE \E x \in T : \A y \in T : x <= y
    OBVIOUS
  <2>1. T \ {e} \in Good
    BY <1>1
  <2>2. CASE T \ {e} = {}
    <3>1. \A y \in T : e <= y
      BY <2>2
    <3> QED
      BY <3>1
  <2>3. CASE T \ {e} # {}
    <3>1. PICK x \in T \ {e} : \A y \in T \ {e} : x <= y
      BY <2>1, <2>3
    <3>2. CASE x <= e
      BY <3>1, <3>2
    <3>3. CASE e < x
      <4>1. \A y \in T : e <= y
        BY <3>1, <3>3
      <4> QED
        BY <4>1
    <3> QED
      BY <3>2, <3>3
  <2> QED
    BY <2>2, <2>3
<1> HIDE DEF Good
<1>2. \A T \in SUBSET S : T \in Good
  BY <1>1, SubsetInduction
<1> QED
  BY <1>2 DEF Good, Least

(* The same for the greatest.                                              *)
LEMMA MostIs ==
  ASSUME NEW S, IsFiniteSet(S), S # {}, S \subseteq Int
  PROVE  Most(S) \in S /\ \A y \in S : Most(S) >= y
<1> DEFINE Good == {T \in SUBSET S : T # {} => \E x \in T : \A y \in T : x >= y}
<1>1. ASSUME NEW T \in SUBSET S, \A U \in SUBSET T : U # T => U \in Good
      PROVE  T \in Good
  <2> SUFFICES ASSUME NEW e \in T PROVE \E x \in T : \A y \in T : x >= y
    OBVIOUS
  <2>1. T \ {e} \in Good
    BY <1>1
  <2>2. CASE T \ {e} = {}
    <3>1. \A y \in T : e >= y
      BY <2>2
    <3> QED
      BY <3>1
  <2>3. CASE T \ {e} # {}
    <3>1. PICK x \in T \ {e} : \A y \in T \ {e} : x >= y
      BY <2>1, <2>3
    <3>2. CASE x >= e
      BY <3>1, <3>2
    <3>3. CASE e > x
      <4>1. \A y \in T : e >= y
        BY <3>1, <3>3
      <4> QED
        BY <4>1
    <3> QED
      BY <3>2, <3>3
  <2> QED
    BY <2>2, <2>3
<1> HIDE DEF Good
<1>2. \A T \in SUBSET S : T \in Good
  BY <1>1, SubsetInduction
<1> QED
  BY <1>2 DEF Good, Most

-----------------------------------------------------------------------------
(* The cost of a share, fee included, grows with its price for as long as  *)
(* the fee rate is below 1: the fee falls by less than the price rises.    *)
(* The walk relies on it.                                                  *)
LEMMA CostsGrow ==
  ASSUME NEW P \in Nat \ {0}, NEW Q \in Nat \ {0}, NEW r \in 0..(Q - 1),
         NEW p \in 1..P, NEW s \in 1..P, p < s
  PROVE  p * P * Q + 1 * r * p * (P - p) < s * P * Q + 1 * r * s * (P - s)
<1> DEFINE d == s - p
           k == P * Q + r * (P - p - s)
<1>1. d \in Int /\ d >= 1
  OBVIOUS
<1>2. (s * P * Q + 1 * r * s * (P - s)) - (p * P * Q + 1 * r * p * (P - p)) = d * k
  OBVIOUS
<1>3. k = (Q - r) * P + r * (P - p + P - s)
  OBVIOUS
<1>4. (Q - r) * P >= 1
  OBVIOUS
<1>5. r * (P - p + P - s) >= 0
  OBVIOUS
<1>6. k \in Int /\ k >= 1
  BY <1>3, <1>4, <1>5
<1> HIDE DEF d, k
<1>7. d * k >= 1
  BY <1>1, <1>6
<1>8. s * P * Q + 1 * r * s * (P - s) \in Int /\ p * P * Q + 1 * r * p * (P - p) \in Int
  OBVIOUS
<1> QED
  BY <1>2, <1>7, <1>8

(* What the prover needs to know of a rounded quotient.                    *)
LEMMA Division ==
  ASSUME NEW a \in Int, NEW b \in Nat \ {0}
  PROVE  /\ a \div b \in Int
         /\ b * (a \div b) <= a
         /\ a < b * ((a \div b) + 1)
OBVIOUS

(* The units are positive numbers.                                         *)
LEMMA Units == Prices \in Nat \ {0} /\ FeeUnits \in Nat \ {0} /\ Quanta \in Nat \ {0} /\ Grain \in Nat \ {0}
BY PolicyAssumption

(* Rounding down to the quantum never exceeds the recorded size.           *)
LEMMA Rounded ==
  ASSUME NEW size \in Nat \ {0}
  PROVE  /\ RoundShares(size) \in Nat
         /\ Grain * RoundShares(size) <= size
         /\ size >= Grain => RoundShares(size) >= 1
<1> DEFINE q == size \div Grain
<1>1. q \in Int /\ Grain * q <= size /\ size < Grain * (q + 1)
  BY Units, Division
<1> HIDE DEF q
<1>2. q < 0 => Grain * (q + 1) <= 0
  BY <1>1, Units
<1>3. q < 1 => Grain * (q + 1) <= Grain
  BY <1>1, Units
<1> QED
  BY <1>1, <1>2, <1>3, Units DEF RoundShares, q

(* A share costs something.                                                *)
LEMMA CostIs ==
  ASSUME NEW rate \in 0..(FeeUnits - 1), NEW p \in 1..Prices
  PROVE  UnitCost(p, rate) \in Nat \ {0}
<1>1. p * Prices * FeeUnits \in Int /\ p * Prices * FeeUnits >= 1
  BY Units
<1>2. 1 * rate * p * (Prices - p) \in Int /\ 1 * rate * p * (Prices - p) >= 0
  BY Units
<1> QED
  BY <1>1, <1>2 DEF UnitCost, LevelFee

(* The fact about costs in the units of the model.                         *)
LEMMA CostGrows ==
  ASSUME NEW rate \in 0..(FeeUnits - 1), NEW p \in 1..Prices, NEW s \in 1..Prices, p < s
  PROVE  UnitCost(p, rate) < UnitCost(s, rate)
BY Units, CostsGrow DEF UnitCost, LevelFee

(* What a fill costs is its notional and its fee.                          *)
LEMMA FeeIs ==
  ASSUME NEW rate \in 0..(FeeUnits - 1), NEW p \in 1..Prices, NEW n \in Nat
  PROVE  /\ LevelFee(n, p, rate) \in Int
         /\ n * p * Prices * FeeUnits \in Int
         /\ n * UnitCost(p, rate) = n * p * Prices * FeeUnits + LevelFee(n, p, rate)
BY Units DEF UnitCost, LevelFee

-----------------------------------------------------------------------------
(* A book as parsing leaves it.                                            *)
AsksFine(book) ==
  DOMAIN book.asks \subseteq 1..(Prices - 1) /\ book.asks \in [DOMAIN book.asks -> Nat \ {0}]

(* The fee and the cost of each fill.                                      *)
FeesOf(fills, rate)  == [p \in DOMAIN fills |-> LevelFee(fills[p], p, rate)]
CostsOf(fills, rate) == [p \in DOMAIN fills |-> fills[p] * UnitCost(p, rate)]

(* A walk adds up: its fills are within the levels and the limit, its      *)
(* totals are their sums, and its cost is within the budget.               *)
Tallied(w, book, budget, rate, params) ==
  /\ w = [fills |-> w.fills, shares |-> w.shares, fee |-> w.fee, cost |-> w.cost, open |-> w.open]
  /\ w.open \in BOOLEAN
  /\ DOMAIN w.fills \subseteq DOMAIN book.asks
  /\ \A p \in DOMAIN w.fills :
       /\ w.fills[p] \in Nat \ {0} /\ w.fills[p] <= RoundShares(book.asks[p])
       /\ WithinLimit(p, Least(DOMAIN book.asks), params)
  /\ w.shares = SumFunction(w.fills)
  /\ w.fee = SumFunction(FeesOf(w.fills, rate))
  /\ w.cost = SumFunction(CostsOf(w.fills, rate))
  /\ w.cost \in Int /\ w.cost <= budget

(* What the proofs use of the asks of a parsed book.                       *)
LEMMA AsksAre ==
  ASSUME NEW book, AsksFine(book)
  PROVE  /\ IsFiniteSet(DOMAIN book.asks)
         /\ \A p \in DOMAIN book.asks : /\ p \in 1..Prices /\ p < Prices
                                        /\ book.asks[p] \in Nat \ {0}
                                        /\ RoundShares(book.asks[p]) \in Nat
<1>1. IsFiniteSet(1..(Prices - 1))
  BY Units, FS_Interval
<1>2. IsFiniteSet(DOMAIN book.asks)
  BY <1>1, FS_Subset DEF AsksFine
<1>3. \A p \in DOMAIN book.asks : book.asks[p] \in Nat \ {0} /\ p \in 1..Prices /\ p < Prices
  BY Units DEF AsksFine
<1> QED
  BY <1>2, <1>3, Rounded

(* A walk begins with nothing bought.                                      *)
LEMMA NothingIsTallied ==
  ASSUME NEW book, NEW budget \in Nat, NEW rate, NEW params
  PROVE  Tallied(NothingBought, book, budget, rate, params)
<1> DEFINE w == NothingBought
<1>1. DOMAIN w.fills = {}
  BY DEF NothingBought
<1>2. SumFunction(w.fills) = 0
  BY <1>1, SumEmpty DEF SumFunction
<1>3. DOMAIN FeesOf(w.fills, rate) = {} /\ DOMAIN CostsOf(w.fills, rate) = {}
  BY <1>1 DEF FeesOf, CostsOf
<1>4. SumFunction(FeesOf(w.fills, rate)) = 0 /\ SumFunction(CostsOf(w.fills, rate)) = 0
  BY <1>3, SumEmpty DEF SumFunction
<1>5. /\ w = [fills |-> w.fills, shares |-> w.shares, fee |-> w.fee, cost |-> w.cost, open |-> w.open]
      /\ w.open = TRUE /\ w.shares = 0 /\ w.fee = 0 /\ w.cost = 0
  BY DEF NothingBought
<1> HIDE DEF w
<1>6. w.cost \in Int /\ w.cost <= budget
  BY <1>5
<1>7. /\ w.shares = SumFunction(w.fills) /\ w.fee = SumFunction(FeesOf(w.fills, rate))
      /\ w.cost = SumFunction(CostsOf(w.fills, rate))
  BY <1>2, <1>4, <1>5
<1>8. DOMAIN w.fills \subseteq DOMAIN book.asks
  BY <1>1
<1>9. Tallied(w, book, budget, rate, params)
  BY <1>1, <1>5, <1>6, <1>7, <1>8 DEF Tallied
<1> QED
  BY <1>9 DEF w

(* A walk that takes an affordable part of the next level still adds up.   *)
LEMMA TakingIsTallied ==
  ASSUME NEW book, AsksFine(book), NEW budget \in Nat, NEW rate \in 0..(FeeUnits - 1), NEW params,
         NEW w, Tallied(w, book, budget, rate, params),
         NEW price \in DOMAIN book.asks, price \notin DOMAIN w.fills,
         WithinLimit(price, Least(DOMAIN book.asks), params),
         NEW take \in Nat \ {0}, take <= RoundShares(book.asks[price]),
         w.cost + take * UnitCost(price, rate) <= budget
  PROVE  Tallied(Taking(w, take, price, rate), book, budget, rate, params)
<1> DEFINE v == Taking(w, take, price, rate)
           D == DOMAIN w.fills
<1>1. /\ v = [fills |-> v.fills, shares |-> v.shares, fee |-> v.fee, cost |-> v.cost, open |-> v.open]
      /\ v.open = TRUE /\ v.shares = w.shares + take
      /\ v.fee = w.fee + LevelFee(take, price, rate)
      /\ v.cost = w.cost + take * UnitCost(price, rate)
      /\ v.fills = [p \in D \cup {price} |-> IF p = price THEN take ELSE w.fills[p]]
  BY DEF Taking
<1> HIDE DEF v
<1>2. DOMAIN v.fills = D \cup {price} /\ v.fills[price] = take /\ \A p \in D : v.fills[p] = w.fills[p]
  BY <1>1
<1>3. IsFiniteSet(D) /\ D \subseteq DOMAIN book.asks
  BY AsksAre, FS_Subset DEF Tallied
<1>4. \A p \in D \cup {price} : v.fills[p] \in Nat \ {0} /\ p \in 1..Prices
  BY <1>2, <1>3, AsksAre DEF Tallied
<1>5. SumFunction(v.fills) = SumFunction(w.fills) + take
  <2>1. \A p \in D : w.fills[p] \in Int /\ v.fills[p] = w.fills[p]
    BY <1>2, <1>4
  <2>2. SumFunctionOnSet(v.fills, D \cup {price}) = SumFunctionOnSet(w.fills, D) + v.fills[price]
    BY <1>2, <1>3, <2>1, SumOfMore
  <2> QED
    BY <1>2, <2>2 DEF SumFunction
<1>6. SumFunction(FeesOf(v.fills, rate)) = SumFunction(FeesOf(w.fills, rate)) + LevelFee(take, price, rate)
  <2> DEFINE f == FeesOf(w.fills, rate)
             g == FeesOf(v.fills, rate)
  <2>1. DOMAIN g = D \cup {price} /\ DOMAIN f = D
    BY <1>2 DEF FeesOf
  <2>2. \A p \in D : f[p] = LevelFee(w.fills[p], p, rate) /\ g[p] = f[p]
    BY <1>2 DEF FeesOf
  <2>3. g[price] = LevelFee(take, price, rate)
    BY <1>2 DEF FeesOf
  <2>4. g[price] \in Int /\ \A p \in D : f[p] \in Int
    BY <1>2, <1>4, <2>2, <2>3, FeeIs
  <2> HIDE DEF f, g
  <2>5. SumFunctionOnSet(g, D \cup {price}) = SumFunctionOnSet(f, D) + g[price]
    BY <1>3, <2>2, <2>4, SumOfMore
  <2> QED
    BY <2>1, <2>3, <2>5 DEF SumFunction, f, g
<1>7. SumFunction(CostsOf(v.fills, rate)) = SumFunction(CostsOf(w.fills, rate)) + take * UnitCost(price, rate)
  <2> DEFINE f == CostsOf(w.fills, rate)
             g == CostsOf(v.fills, rate)
  <2>1. DOMAIN g = D \cup {price} /\ DOMAIN f = D
    BY <1>2 DEF CostsOf
  <2>2. \A p \in D : f[p] = w.fills[p] * UnitCost(p, rate) /\ g[p] = f[p]
    BY <1>2 DEF CostsOf
  <2>3. g[price] = take * UnitCost(price, rate)
    BY <1>2 DEF CostsOf
  <2>4. g[price] \in Int /\ \A p \in D : f[p] \in Int
    <3>1. \A p \in D \cup {price} : UnitCost(p, rate) \in Int /\ v.fills[p] \in Int
      BY <1>4, CostIs
    <3>2. \A a \in Int, b \in Int : a * b \in Int
      OBVIOUS
    <3> QED
      BY <1>2, <2>2, <2>3, <3>1, <3>2
  <2> HIDE DEF f, g
  <2>5. SumFunctionOnSet(g, D \cup {price}) = SumFunctionOnSet(f, D) + g[price]
    BY <1>3, <2>2, <2>4, SumOfMore
  <2> QED
    BY <2>1, <2>3, <2>5 DEF SumFunction, f, g
<1>8. v.cost \in Int /\ v.cost <= budget
  <2>1. UnitCost(price, rate) \in Nat
    BY AsksAre, CostIs
  <2> QED
    BY <1>1, <2>1 DEF Tallied
<1>9. \A p \in DOMAIN v.fills : /\ v.fills[p] <= RoundShares(book.asks[p])
                                /\ WithinLimit(p, Least(DOMAIN book.asks), params)
  BY <1>2 DEF Tallied
<1>10. DOMAIN v.fills \subseteq DOMAIN book.asks
  BY <1>2, <1>3
<1>11. /\ w.shares = SumFunction(w.fills) /\ w.fee = SumFunction(FeesOf(w.fills, rate))
       /\ w.cost = SumFunction(CostsOf(w.fills, rate))
  BY DEF Tallied
<1>12. /\ v.shares = SumFunction(v.fills) /\ v.fee = SumFunction(FeesOf(v.fills, rate))
       /\ v.cost = SumFunction(CostsOf(v.fills, rate))
  BY <1>1, <1>5, <1>6, <1>7, <1>11
<1>13. Tallied(v, book, budget, rate, params)
  BY <1>1, <1>2, <1>4, <1>8, <1>9, <1>10, <1>12 DEF Tallied
<1> QED
  BY <1>13 DEF v

(* Counting up to N reaches every number: the least one missed would       *)
(* follow one that is not.                                                 *)
LEMMA CountUp ==
  ASSUME NEW N \in Nat, NEW Good, 0 \in Good, \A n \in 0..(N - 1) : n \in Good => n + 1 \in Good
  PROVE  \A n \in 0..N : n \in Good
<1> DEFINE Bad == (0..N) \ Good
<1> SUFFICES ASSUME Bad # {} PROVE FALSE
  OBVIOUS
<1>1. IsFiniteSet(Bad)
  <2>1. IsFiniteSet(0..N) /\ Bad \in SUBSET (0..N)
    BY FS_Interval
  <2> QED
    BY <2>1, FS_Subset
<1>2. Least(Bad) \in Bad /\ \A m \in Bad : Least(Bad) <= m
  BY <1>1, LeastIs
<1> DEFINE n == Least(Bad)
<1> HIDE DEF n
<1>3. n \in 0..N /\ n \notin Good /\ \A m \in 0..N : m \notin Good => n <= m
  BY <1>2 DEF n
<1>4. n # 0
  BY <1>3
<1>5. n - 1 \in 0..(N - 1) /\ n - 1 \in 0..N /\ ~(n <= n - 1) /\ (n - 1) + 1 = n
  BY <1>3, <1>4
<1> QED
  BY <1>3, <1>5

(* The walk up to price n, as the recursion defines it.                    *)
Walked(upTo, n, book, budget, rate, params) ==
  upTo = [price \in 0..n |->
            IF price = 0 THEN NothingBought
            ELSE Visit(upTo[price - 1], book, budget, rate, params, price)]

(* The equation that defines the walk has a solution: the walk up to a     *)
(* price extends to the next.                                              *)
LEMMA WalkExists ==
  ASSUME NEW book, NEW budget, NEW rate, NEW params
  PROVE  \E upTo : Walked(upTo, Prices, book, budget, rate, params)
<1> DEFINE Good == {n \in 0..Prices : \E upTo : Walked(upTo, n, book, budget, rate, params)}
<1>1. 0 \in Good
  <2> DEFINE f == [price \in 0..0 |-> NothingBought]
  <2>1. \A price \in 0..0 : price = 0
    OBVIOUS
  <2>2. Walked(f, 0, book, budget, rate, params)
    BY <2>1 DEF Walked
  <2> QED
    BY <2>2, Units
<1>2. ASSUME NEW n \in 0..(Prices - 1), n \in Good PROVE n + 1 \in Good
  <2>1. PICK f : Walked(f, n, book, budget, rate, params)
    BY <1>2
  <2> DEFINE g == [price \in 0..(n + 1) |->
                     IF price = n + 1 THEN Visit(f[n], book, budget, rate, params, price) ELSE f[price]]
             V(price, w) == Visit(w, book, budget, rate, params, price)
  <2>2. f = [price \in 0..n |-> IF price = 0 THEN NothingBought ELSE V(price, f[price - 1])]
    BY <2>1 DEF Walked
  <2>3. g = [price \in 0..(n + 1) |-> IF price = n + 1 THEN V(price, f[n]) ELSE f[price]]
    OBVIOUS
  <2> HIDE DEF g, V
  <2>4. \A price \in 0..n : g[price] = f[price]
    BY <2>3
  <2>5. \A price \in 0..n : f[price] = IF price = 0 THEN NothingBought ELSE V(price, f[price - 1])
    BY <2>2
  <2>6. \A price \in 0..(n + 1) : g[price] = IF price = 0 THEN NothingBought ELSE V(price, g[price - 1])
    <3> SUFFICES ASSUME NEW price \in 0..(n + 1)
                 PROVE  g[price] = IF price = 0 THEN NothingBought ELSE V(price, g[price - 1])
      OBVIOUS
    <3>1. CASE price = n + 1
      <4>1. price - 1 = n /\ n \in 0..n /\ price # 0
        BY <3>1
      <4>2. g[price] = V(price, f[n])
        BY <2>3, <3>1
      <4>3. g[price - 1] = f[n]
        BY <2>4, <4>1
      <4> QED
        BY <4>1, <4>2, <4>3
    <3>2. CASE price # n + 1
      <4>1. price \in 0..n /\ (price # 0 => price - 1 \in 0..n)
        BY <3>2
      <4>2. price # 0 => g[price - 1] = f[price - 1]
        BY <2>4, <4>1
      <4> QED
        BY <2>4, <2>5, <4>1, <4>2
    <3> QED
      BY <3>1, <3>2
  <2>7. g = [price \in 0..(n + 1) |-> IF price = 0 THEN NothingBought ELSE V(price, g[price - 1])]
    <3>1. g = [price \in 0..(n + 1) |-> g[price]]
      BY <2>3
    <3> QED
      BY <2>6, <3>1
  <2>8. Walked(g, n + 1, book, budget, rate, params)
    BY <2>7 DEF Walked, V
  <2>9. n + 1 \in 0..Prices
    BY Units
  <2> QED
    BY <2>8, <2>9
<1>3. Prices \in 0..Prices /\ Prices \in Nat
  BY Units
<1> HIDE DEF Good
<1>4. \A n \in 0..Prices : n \in Good
  BY <1>1, <1>2, <1>3, CountUp
<1> QED
  BY <1>3, <1>4 DEF Good

(* The walk begins with nothing and visits one price after the other.      *)
LEMMA WalkIs ==
  ASSUME NEW book, NEW budget, NEW rate, NEW params
  PROVE  \E upTo : /\ WalkAsks(book, budget, rate, params) = upTo[Prices]
                   /\ upTo[0] = NothingBought
                   /\ \A n \in 0..(Prices - 1) :
                        upTo[n + 1] = Visit(upTo[n], book, budget, rate, params, n + 1)
<1> DEFINE f == CHOOSE upTo : Walked(upTo, Prices, book, budget, rate, params)
<1>1. WalkAsks(book, budget, rate, params) = f[Prices]
  BY DEF WalkAsks, Walked
<1>2. Walked(f, Prices, book, budget, rate, params)
  BY WalkExists
<1> HIDE DEF f
<1> DEFINE V(price, w) == Visit(w, book, budget, rate, params, price)
<1>3. f = [price \in 0..Prices |-> IF price = 0 THEN NothingBought ELSE V(price, f[price - 1])]
  BY <1>2 DEF Walked
<1> HIDE DEF V
<1>4. f[0] = NothingBought
  BY <1>3, Units
<1>5. \A n \in 0..(Prices - 1) : f[n + 1] = V(n + 1, f[n])
  <2> SUFFICES ASSUME NEW n \in 0..(Prices - 1) PROVE f[n + 1] = V(n + 1, f[n])
    OBVIOUS
  <2>1. n + 1 \in 0..Prices /\ n + 1 # 0 /\ (n + 1) - 1 = n
    BY Units
  <2> QED
    BY <1>3, <2>1
<1> QED
  BY <1>1, <1>4, <1>5 DEF V

(* A walk that has ended.                                                  *)
Closed(w) == [w EXCEPT !.open = FALSE]

(* Ending a walk changes nothing else of it.                               *)
LEMMA ClosedIs ==
  ASSUME NEW w, w.open \in BOOLEAN,
         w = [fills |-> w.fills, shares |-> w.shares, fee |-> w.fee, cost |-> w.cost, open |-> w.open]
  PROVE  Closed(w) = [fills |-> w.fills, shares |-> w.shares, fee |-> w.fee, cost |-> w.cost, open |-> FALSE]
<1> DEFINE v == Closed(w)
<1>1. PICK A, B, C, D : w \in [fills : A, shares : B, fee : C, cost : D, open : BOOLEAN]
  <2>1. w \in [fills : {w.fills}, shares : {w.shares}, fee : {w.fee}, cost : {w.cost}, open : BOOLEAN]
    OBVIOUS
  <2> HIDE DEF v
  <2> QED
    BY <2>1, Zenon
<1>2. /\ v \in [fills : A, shares : B, fee : C, cost : D, open : BOOLEAN]
      /\ v.fills = w.fills /\ v.shares = w.shares /\ v.fee = w.fee
      /\ v.cost = w.cost /\ v.open = FALSE
  BY <1>1 DEF Closed
<1> HIDE DEF v
<1>3. v = [fills |-> v.fills, shares |-> v.shares, fee |-> v.fee, cost |-> v.cost, open |-> v.open]
  BY <1>2
<1>4. v = [fills |-> w.fills, shares |-> w.shares, fee |-> w.fee, cost |-> w.cost, open |-> FALSE]
  BY <1>2, <1>3
<1> QED
  BY <1>4 DEF v

(* A walk that has ended still adds up.                                    *)
LEMMA ClosedIsTallied ==
  ASSUME NEW book, NEW budget \in Nat, NEW rate \in 0..(FeeUnits - 1), NEW params, NEW w, Tallied(w, book, budget, rate, params)
  PROVE  Tallied(Closed(w), book, budget, rate, params)
<1> DEFINE v == Closed(w)
<1>1. /\ w = [fills |-> w.fills, shares |-> w.shares, fee |-> w.fee, cost |-> w.cost, open |-> w.open]
      /\ w.open \in BOOLEAN
  BY DEF Tallied
<1>2. v = [fills |-> w.fills, shares |-> w.shares, fee |-> w.fee, cost |-> w.cost, open |-> FALSE]
  BY <1>1, ClosedIs
<1> HIDE DEF v
<1>3. /\ v.fills = w.fills /\ v.shares = w.shares /\ v.fee = w.fee /\ v.cost = w.cost /\ v.open = FALSE
      /\ v = [fills |-> v.fills, shares |-> v.shares, fee |-> v.fee, cost |-> v.cost, open |-> v.open]
  BY <1>2
<1>4. Tallied(v, book, budget, rate, params)
  BY <1>3 DEF Tallied
<1> QED
  BY <1>3, <1>4 DEF v

(* Two elements make a finite set.                                         *)
LEMMA PairIsFinite == \A a, b : IsFiniteSet({a, b})
<1> TAKE a, b
<1>1. IsFiniteSet({a})
  BY FS_Singleton
<1>2. IsFiniteSet({a} \cup {b})
  BY <1>1, FS_AddElement
<1>3. {a, b} = {a} \cup {b}
  OBVIOUS
<1> QED
  BY <1>2, <1>3

(* What is taken of a level: what it shows, or as much as is affordable.   *)
LEMMA TakeIs ==
  ASSUME NEW book, AsksFine(book), NEW budget \in Nat, NEW rate \in 0..(FeeUnits - 1), NEW params,
         NEW w, Tallied(w, book, budget, rate, params), NEW price \in DOMAIN book.asks
  PROVE  \E take \in Int :
           /\ TakeLevel(w, budget, price, book.asks[price], rate)
                = IF take <= 0 THEN Closed(w) ELSE Taking(w, take, price, rate)
           /\ take <= RoundShares(book.asks[price])
           /\ take > 0 => w.cost + take * UnitCost(price, rate) <= budget
           /\ \/ take = RoundShares(book.asks[price])
              \/ budget - w.cost < (take + 1) * UnitCost(price, rate)
<1> DEFINE u == UnitCost(price, rate)
           most == RoundShares(book.asks[price])
           affordable == (budget - w.cost) \div u
           take == Least({most, affordable})
<1>1. u \in Nat \ {0} /\ most \in Nat
  BY AsksAre, CostIs
<1>2. budget - w.cost \in Int
  BY DEF Tallied
<1>3. affordable \in Int /\ u * affordable <= budget - w.cost /\ budget - w.cost < u * (affordable + 1)
  <2> HIDE DEF u
  <2> QED
    BY <1>1, <1>2, Division
<1>4. TakeLevel(w, budget, price, book.asks[price], rate)
        = IF take <= 0 THEN Closed(w) ELSE Taking(w, take, price, rate)
  BY DEF TakeLevel, Closed
<1>5. take \in {most, affordable} /\ take <= most /\ take <= affordable
  <2> HIDE DEF most, affordable
  <2>1. IsFiniteSet({most, affordable})
    BY PairIsFinite
  <2>2. Least({most, affordable}) \in {most, affordable}
        /\ \A y \in {most, affordable} : Least({most, affordable}) <= y
    BY <1>1, <1>3, <2>1, LeastIs
  <2> QED
    BY <2>2
<1> HIDE DEF u, most, affordable, take
<1>6. take \in Int
  BY <1>1, <1>3, <1>5
<1>7. w.cost \in Int
  BY DEF Tallied
<1>8. w.cost + take * u <= budget
  <2>1. take * u <= u * affordable
    BY <1>1, <1>3, <1>5, <1>6
  <2> QED
    BY <1>1, <1>3, <1>6, <1>7, <2>1
<1>9. take = most \/ budget - w.cost < (take + 1) * u
  <2>1. \A a \in Int, b \in Int : a * b = b * a
    OBVIOUS
  <2> QED
    BY <1>1, <1>3, <1>5, <1>6, <2>1
<1> QED
  BY <1>4, <1>5, <1>6, <1>8, <1>9 DEF u, most

(* Nothing is bought above price n yet.                                    *)
Below(w, n) == \A p \in DOMAIN w.fills : p <= n

(* What a visit to a price makes of a walk: nothing, its end, or a fill.   *)
Visited(v, w, price, book, budget, rate, params) ==
  /\ Tallied(v, book, budget, rate, params) /\ Below(v, price)
  /\ \/ price \notin DOMAIN book.asks /\ v = w
     \/ /\ price \in DOMAIN book.asks
        /\ v.fills = w.fills /\ v.cost = w.cost /\ ~v.open
        /\ \/ ~w.open
           \/ ~WithinLimit(price, Least(DOMAIN book.asks), params)
           \/ RoundShares(book.asks[price]) = 0
           \/ budget - w.cost < UnitCost(price, rate)
     \/ /\ price \in DOMAIN book.asks
        /\ w.open /\ v.open
        /\ \E take \in Nat \ {0} :
             /\ v.fills = [p \in DOMAIN w.fills \cup {price} |-> IF p = price THEN take ELSE w.fills[p]]
             /\ v.cost = w.cost + take * UnitCost(price, rate)
             /\ v.cost <= budget
             /\ \/ take = RoundShares(book.asks[price])
                \/ budget - w.cost < (take + 1) * UnitCost(price, rate)

(* Every visit is one of the three.                                        *)
LEMMA VisitIs ==
  ASSUME NEW book, AsksFine(book), NEW budget \in Nat, NEW rate \in 0..(FeeUnits - 1), NEW params,
         NEW w, Tallied(w, book, budget, rate, params),
         NEW n \in 0..(Prices - 1), Below(w, n)
  PROVE  Visited(Visit(w, book, budget, rate, params, n + 1), w, n + 1, book, budget, rate, params)
<1>0. /\ Tallied(Closed(w), book, budget, rate, params)
      /\ Closed(w).fills = w.fills /\ Closed(w).cost = w.cost /\ Closed(w).open = FALSE
  <2>1. Closed(w) = [fills |-> w.fills, shares |-> w.shares, fee |-> w.fee, cost |-> w.cost, open |-> FALSE]
    BY ClosedIs DEF Tallied
  <2>2. Tallied(Closed(w), book, budget, rate, params)
    BY ClosedIsTallied
  <2> QED
    BY <2>1, <2>2
<1> DEFINE price == n + 1
           v == Visit(w, book, budget, rate, params, price)
           within == WithinLimit(price, Least(DOMAIN book.asks), params)
           most == RoundShares(book.asks[price])
<1>1. CASE price \notin DOMAIN book.asks
  <2>1. v = w
    BY <1>1 DEF Visit
  <2>2. Below(w, n + 1)
    BY AsksAre DEF Below, Tallied
  <2> QED
    BY <1>1, <2>1, <2>2 DEF Visited
<1>2. CASE price \in DOMAIN book.asks /\ ~(w.open /\ within)
  <2>1. v = Closed(w)
    BY <1>2 DEF Visit, Closed
  <2>2. /\ Tallied(v, book, budget, rate, params)
        /\ v.fills = w.fills /\ v.cost = w.cost /\ v.open = FALSE
    BY <1>0, <2>1
  <2> HIDE DEF v
  <2>3. Below(v, n + 1)
    BY <2>2, AsksAre DEF Below, Tallied
  <2> QED
    BY <1>2, <2>2, <2>3 DEF v, Visited
<1>3. CASE price \in DOMAIN book.asks /\ w.open /\ within
  <2>1. v = TakeLevel(w, budget, price, book.asks[price], rate)
    BY <1>3 DEF Visit
  <2>2. PICK take \in Int :
           /\ v = IF take <= 0 THEN Closed(w) ELSE Taking(w, take, price, rate)
           /\ take <= most
           /\ take > 0 => w.cost + take * UnitCost(price, rate) <= budget
           /\ take = most \/ budget - w.cost < (take + 1) * UnitCost(price, rate)
    <3> HIDE DEF price
    <3> QED
      BY <1>3, <2>1, TakeIs
  <2>3. most \in Nat /\ UnitCost(price, rate) \in Nat \ {0}
    BY <1>3, AsksAre, CostIs
  <2>4. price \notin DOMAIN w.fills
    BY DEF Below
  <2> HIDE DEF v, within
  <2>5. CASE take <= 0
    <3>1. v = Closed(w)
      BY <2>2, <2>5
    <3>2. /\ Tallied(v, book, budget, rate, params)
          /\ v.fills = w.fills /\ v.cost = w.cost /\ v.open = FALSE
      BY <1>0, <3>1
    <3>3. Below(v, n + 1)
      BY <3>2, AsksAre DEF Below, Tallied
    <3>4. most = 0 \/ budget - w.cost < UnitCost(price, rate)
      <4> HIDE DEF most, price
      <4>1. CASE take = most
        BY <2>3, <2>5, <4>1
      <4>2. CASE take # most
        <5> DEFINE u == UnitCost(price, rate)
        <5>1. u \in Nat \ {0} /\ w.cost \in Int
          BY <2>3 DEF Tallied
        <5> HIDE DEF u
        <5>2. (take + 1) * u <= u
          BY <2>5, <5>1
        <5>3. budget - w.cost < (take + 1) * u /\ (take + 1) * u \in Int
          BY <2>2, <4>2, <5>1 DEF u
        <5>4. budget - w.cost < u
          BY <5>1, <5>2, <5>3
        <5> QED
          BY <5>4 DEF u
      <4> QED
        BY <4>1, <4>2
    <3> QED
      BY <1>3, <3>2, <3>3, <3>4 DEF v, Visited
  <2>6. CASE take > 0
    <3>1. v = Taking(w, take, price, rate) /\ take \in Nat \ {0}
      BY <2>2, <2>6
    <3>2. Tallied(v, book, budget, rate, params)
      <4> HIDE DEF price
      <4> QED
        BY <1>3, <2>2, <2>4, <2>6, <3>1, TakingIsTallied DEF within
    <3>3. /\ v.fills = [p \in DOMAIN w.fills \cup {price} |-> IF p = price THEN take ELSE w.fills[p]]
          /\ v.cost = w.cost + take * UnitCost(price, rate) /\ v.open = TRUE
      BY <3>1 DEF Taking
    <3>4. Below(v, n + 1)
      <4>1. \A p \in DOMAIN w.fills \cup {price} : p <= n + 1
        BY AsksAre DEF Below, Tallied
      <4> QED
        BY <3>3, <4>1 DEF Below
    <3>5. v.cost <= budget
      BY <2>2, <2>6, <3>3
    <3> QED
      BY <1>3, <2>2, <3>1, <3>2, <3>3, <3>4, <3>5 DEF v, Visited
  <2> QED
    BY <2>5, <2>6
<1> QED
  BY <1>1, <1>2, <1>3

(* How much of a level is bought.                                          *)
Share(w, p) == IF p \in DOMAIN w.fills THEN w.fills[p] ELSE 0

(* Every level so far is bought.                                           *)
Filled(w, n, book) ==
  w.open /\ \A p \in DOMAIN book.asks : p <= n => Share(w, p) = RoundShares(book.asks[p])

(* The levels below c are bought, none above it, and at c the money or the *)
(* limit ended the walk.                                                   *)
CutAt(w, c, book, budget, rate, params) ==
  /\ \A p \in DOMAIN book.asks : /\ p < c => Share(w, p) = RoundShares(book.asks[p])
                                 /\ p > c => Share(w, p) = 0
  /\ \/ budget - w.cost < UnitCost(c, rate)
     \/ ~w.open /\ Share(w, c) = 0 /\ ~WithinLimit(c, Least(DOMAIN book.asks), params)

(* Every level up to n is bought, or one of them ended the walk.           *)
Greedy(w, n, book, budget, rate, params) ==
  \/ Filled(w, n, book)
  \/ \E c \in DOMAIN book.asks : c <= n /\ CutAt(w, c, book, budget, rate, params)

(* No level shows less than a quantum.                                     *)
WholeQuanta(book) == \A p \in DOMAIN book.asks : book.asks[p] >= Grain

(* A visit leaves the walk greedy. Money too short for a share at one      *)
(* price is too short at every higher one, so nothing is bought above the  *)
(* level that ended it.                                                    *)
LEMMA VisitIsGreedy ==
  ASSUME NEW book, AsksFine(book), WholeQuanta(book),
         NEW budget \in Nat, NEW rate \in 0..(FeeUnits - 1), NEW params,
         NEW w, Tallied(w, book, budget, rate, params),
         NEW n \in 0..(Prices - 1), Below(w, n), Greedy(w, n, book, budget, rate, params),
         NEW v, Visited(v, w, n + 1, book, budget, rate, params)
  PROVE  Greedy(v, n + 1, book, budget, rate, params)
<1> DEFINE price == n + 1
           u == UnitCost(price, rate)
           most == RoundShares(book.asks[price])
<1>1. \A p \in DOMAIN book.asks :
        p \in 1..Prices /\ RoundShares(book.asks[p]) \in Nat /\ RoundShares(book.asks[p]) >= 1
  BY AsksAre, Rounded DEF WholeQuanta
<1>2. w.cost \in Int /\ \A p \in DOMAIN w.fills : p \in DOMAIN book.asks /\ p \in Int /\ p <= n
  BY <1>1 DEF Tallied, Below
<1>3. price \notin DOMAIN w.fills
  BY <1>2
<1>4. price \in 1..Prices /\ u \in Nat \ {0}
  <2>1. price \in 1..Prices
    BY Units
  <2> QED
    BY <2>1, CostIs
<1>5. \A p \in DOMAIN book.asks : p > n => Share(w, p) = 0
  BY <1>1, <1>2 DEF Share
<1>6. Tallied(v, book, budget, rate, params) /\ v.cost \in Int
  BY DEF Visited, Tallied
<1>7. CASE price \notin DOMAIN book.asks /\ v = w
  <2>1. \A p \in DOMAIN book.asks : p <= n + 1 => p <= n
    BY <1>1, <1>7
  <2>2. CASE Filled(w, n, book)
    BY <1>7, <2>1, <2>2 DEF Greedy, Filled
  <2>3. ASSUME NEW c \in DOMAIN book.asks, c <= n, CutAt(w, c, book, budget, rate, params)
        PROVE  Greedy(v, n + 1, book, budget, rate, params)
    <3>1. c <= n + 1
      BY <1>1, <2>3
    <3> QED
      BY <1>7, <2>3, <3>1 DEF Greedy
  <2> QED
    BY <2>2, <2>3 DEF Greedy
<1>8. CASE /\ price \in DOMAIN book.asks
           /\ v.fills = w.fills /\ v.cost = w.cost /\ ~v.open
           /\ \/ ~w.open
              \/ ~WithinLimit(price, Least(DOMAIN book.asks), params)
              \/ most = 0
              \/ budget - w.cost < u
  <2>1. \A p \in DOMAIN book.asks : Share(v, p) = Share(w, p)
    BY <1>8 DEF Share
  <2>2. CASE Filled(w, n, book)
    <3>1. ~WithinLimit(price, Least(DOMAIN book.asks), params) \/ budget - w.cost < u
      BY <1>1, <1>8, <2>2 DEF Filled
    <3>2. \A p \in DOMAIN book.asks : /\ p < price => Share(v, p) = RoundShares(book.asks[p])
                                      /\ p > price => Share(v, p) = 0
      BY <1>1, <1>5, <2>1, <2>2 DEF Filled
    <3>3. Share(v, price) = 0
      BY <1>3, <1>8 DEF Share
    <3>4. budget - w.cost < u => budget - v.cost < UnitCost(price, rate)
      BY <1>8
    <3> HIDE DEF price
    <3>5. CutAt(v, price, book, budget, rate, params)
      BY <1>8, <3>1, <3>2, <3>3, <3>4 DEF CutAt
    <3> QED
      BY <1>4, <1>8, <3>5 DEF Greedy, price
  <2>3. ASSUME NEW c \in DOMAIN book.asks, c <= n, CutAt(w, c, book, budget, rate, params)
        PROVE  Greedy(v, n + 1, book, budget, rate, params)
    <3>1. CutAt(v, c, book, budget, rate, params)
      BY <1>8, <2>1, <2>3 DEF CutAt
    <3>2. c <= n + 1
      BY <1>1, <2>3
    <3> QED
      BY <2>3, <3>1, <3>2 DEF Greedy
  <2> QED
    BY <2>2, <2>3 DEF Greedy
<1>9. ASSUME price \in DOMAIN book.asks, w.open, v.open, NEW take \in Nat \ {0},
             v.fills = [p \in DOMAIN w.fills \cup {price} |-> IF p = price THEN take ELSE w.fills[p]],
             v.cost = w.cost + take * u, v.cost <= budget,
             take = most \/ budget - w.cost < (take + 1) * u
      PROVE  Greedy(v, n + 1, book, budget, rate, params)
  <2>1. take * u \in Int /\ take * u >= u /\ (take + 1) * u = take * u + u
    BY <1>4
  <2>2. Filled(w, n, book)
    <3> SUFFICES ASSUME NEW c \in DOMAIN book.asks, c <= n, CutAt(w, c, book, budget, rate, params)
                 PROVE  FALSE
      BY DEF Greedy
    <3>1. budget - w.cost < UnitCost(c, rate)
      BY <1>9 DEF CutAt
    <3>2. c \in 1..Prices /\ c < price
      BY <1>1, <1>4
    <3>3. UnitCost(c, rate) < u /\ UnitCost(c, rate) \in Int
      BY <1>4, <3>2, CostGrows, CostIs
    <3> HIDE DEF u
    <3> QED
      BY <1>2, <1>4, <1>9, <2>1, <3>1, <3>3
  <2>3. /\ Share(v, price) = take
        /\ \A p \in DOMAIN book.asks : p # price => Share(v, p) = Share(w, p)
    BY <1>3, <1>9 DEF Share
  <2>4. \A p \in DOMAIN book.asks : /\ p < price => Share(v, p) = RoundShares(book.asks[p])
                                    /\ p > price => Share(v, p) = 0
    BY <1>1, <1>5, <2>2, <2>3 DEF Filled
  <2>5. CASE take = most
    <3>1. \A p \in DOMAIN book.asks : p <= n + 1 => Share(v, p) = RoundShares(book.asks[p])
      BY <1>1, <2>3, <2>4, <2>5
    <3> QED
      BY <1>9, <3>1 DEF Greedy, Filled
  <2>6. CASE take # most
    <3> HIDE DEF u
    <3>1. budget - v.cost < u
      BY <1>2, <1>4, <1>9, <2>1, <2>6
    <3> HIDE DEF price
    <3>2. CutAt(v, price, book, budget, rate, params)
      BY <2>4, <3>1 DEF CutAt, u
    <3> QED
      BY <1>4, <1>9, <3>2 DEF Greedy, price
  <2> QED
    BY <2>5, <2>6
<1> QED
  BY <1>7, <1>8, <1>9 DEF Visited

(* The whole walk adds up, and is greedy if no level is smaller than a     *)
(* quantum.                                                                *)
LEMMA WalkIsGreedy ==
  ASSUME NEW book, AsksFine(book), NEW budget \in Nat, NEW rate \in 0..(FeeUnits - 1), NEW params
  PROVE  LET w == WalkAsks(book, budget, rate, params)
         IN /\ Tallied(w, book, budget, rate, params)
            /\ WholeQuanta(book) => Greedy(w, Prices, book, budget, rate, params)
<1>1. PICK upTo : /\ WalkAsks(book, budget, rate, params) = upTo[Prices]
                  /\ upTo[0] = NothingBought
                  /\ \A n \in 0..(Prices - 1) :
                       upTo[n + 1] = Visit(upTo[n], book, budget, rate, params, n + 1)
  BY WalkIs
<1> DEFINE Fine(n) == /\ Tallied(upTo[n], book, budget, rate, params) /\ Below(upTo[n], n)
                      /\ WholeQuanta(book) => Greedy(upTo[n], n, book, budget, rate, params)
           Good == {n \in 0..Prices : Fine(n)}
<1>2. Fine(0)
  <2>1. DOMAIN NothingBought.fills = {} /\ NothingBought.open = TRUE
    BY DEF NothingBought
  <2>2. Below(NothingBought, 0)
    BY <2>1 DEF Below
  <2>3. Filled(NothingBought, 0, book)
    BY <2>1, AsksAre DEF Filled
  <2> QED
    BY <1>1, <2>2, <2>3, NothingIsTallied DEF Greedy
<1>3. ASSUME NEW n \in 0..(Prices - 1), Fine(n) PROVE Fine(n + 1)
  <2> DEFINE w == upTo[n]
             v == upTo[n + 1]
  <2>1. v = Visit(w, book, budget, rate, params, n + 1)
    BY <1>1
  <2>2. Tallied(w, book, budget, rate, params) /\ Below(w, n)
    BY <1>3
  <2>3. WholeQuanta(book) => Greedy(w, n, book, budget, rate, params)
    BY <1>3
  <2> HIDE DEF w, v
  <2>4. Visited(v, w, n + 1, book, budget, rate, params)
    BY <2>1, <2>2, VisitIs
  <2>5. Tallied(v, book, budget, rate, params) /\ Below(v, n + 1)
    BY <2>4 DEF Visited
  <2>6. WholeQuanta(book) => Greedy(v, n + 1, book, budget, rate, params)
    BY <2>2, <2>3, <2>4, VisitIsGreedy
  <2> QED
    BY <2>5, <2>6 DEF v
<1> HIDE DEF Fine
<1>4. \A n \in 0..(Prices - 1) : n \in Good => n + 1 \in Good
  BY <1>3, Units
<1>5. 0 \in Good /\ Prices \in Nat /\ Prices \in 0..Prices
  BY <1>2, Units
<1> HIDE DEF Good
<1>6. \A n \in 0..Prices : n \in Good
  BY <1>4, <1>5, CountUp
<1>7. Fine(Prices)
  BY <1>5, <1>6 DEF Good
<1> QED
  BY <1>1, <1>7 DEF Fine

(* The best ask of a book that has one.                                    *)
LEMMA BestAskIs ==
  ASSUME NEW book, AsksFine(book), DOMAIN book.asks # {}
  PROVE  /\ Least(DOMAIN book.asks) \in DOMAIN book.asks
         /\ \A p \in DOMAIN book.asks : Least(DOMAIN book.asks) <= p
<1>1. IsFiniteSet(DOMAIN book.asks) /\ DOMAIN book.asks \subseteq Int
  BY AsksAre
<1> QED
  BY <1>1, LeastIs

(* What is bought for less than k a share saves money against k, what is   *)
(* bought for more wastes some.                                            *)
LEMMA Exchange ==
  ASSUME NEW a \in Int, NEW x \in Int, NEW u \in Int, NEW k \in Int,
         (a <= x /\ u <= k) \/ (a >= x /\ u >= k)
  PROVE  x * u + k * a <= a * u + k * x
<1>1. (a * u + k * x) - (x * u + k * a) = (a - x) * (u - k)
  OBVIOUS
<1>2. (a - x) * (u - k) >= 0
  <2>1. CASE a <= x /\ u <= k
    <3>1. (a - x) * (u - k) = (x - a) * (k - u)
      OBVIOUS
    <3> QED
      BY <2>1, <3>1
  <2>2. CASE a >= x /\ u >= k
    BY <2>2
  <2> QED
    BY <2>1, <2>2
<1> QED
  BY <1>1, <1>2

(* There is a price per share that divides the levels: the walk buys all   *)
(* of what is cheaper, none of what is dearer, and could not pay for one   *)
(* share more.                                                             *)
LEMMA MarginExists ==
  ASSUME NEW book, AsksFine(book), WholeQuanta(book),
         NEW budget \in Nat, NEW rate \in 0..(FeeUnits - 1), NEW params, params.slippage \in Int,
         NEW w, Tallied(w, book, budget, rate, params),
         Greedy(w, Prices, book, budget, rate, params),
         NEW buy \in [DOMAIN book.asks -> Nat],
         \A p \in DOMAIN book.asks :
           /\ buy[p] <= RoundShares(book.asks[p])
           /\ buy[p] > 0 => WithinLimit(p, Least(DOMAIN book.asks), params)
  PROVE  \E k \in Nat :
           /\ \A p \in DOMAIN book.asks :
                \/ buy[p] <= Share(w, p) /\ UnitCost(p, rate) <= k
                \/ buy[p] >= Share(w, p) /\ UnitCost(p, rate) >= k
           /\ \/ budget - w.cost < k
              \/ \A p \in DOMAIN book.asks : buy[p] <= Share(w, p)
<1>1. \A p \in DOMAIN book.asks :
        /\ p \in 1..Prices /\ p < Prices /\ buy[p] \in Nat /\ UnitCost(p, rate) \in Nat
        /\ RoundShares(book.asks[p]) \in Nat
  BY AsksAre, CostIs
<1>2. \A p \in DOMAIN book.asks : Share(w, p) \in Nat
  BY DEF Tallied, Share
<1>3. CASE Filled(w, Prices, book)
  <2>1. Prices \in 1..Prices /\ UnitCost(Prices, rate) \in Nat
    <3>1. Prices \in 1..Prices
      BY Units
    <3> QED
      BY <3>1, CostIs
  <2>2. \A p \in DOMAIN book.asks : buy[p] <= Share(w, p)
    BY <1>1, <1>3 DEF Filled
  <2>3. \A p \in DOMAIN book.asks : UnitCost(p, rate) <= UnitCost(Prices, rate)
    <3> SUFFICES ASSUME NEW p \in DOMAIN book.asks
                 PROVE  UnitCost(p, rate) <= UnitCost(Prices, rate)
      OBVIOUS
    <3>1. UnitCost(p, rate) < UnitCost(Prices, rate)
      BY <1>1, <2>1, CostGrows
    <3> QED
      BY <1>1, <2>1, <3>1
  <2> QED
    BY <2>1, <2>2, <2>3
<1>4. ASSUME NEW c \in DOMAIN book.asks, CutAt(w, c, book, budget, rate, params)
      PROVE  \E k \in Nat :
               /\ \A p \in DOMAIN book.asks :
                    \/ buy[p] <= Share(w, p) /\ UnitCost(p, rate) <= k
                    \/ buy[p] >= Share(w, p) /\ UnitCost(p, rate) >= k
               /\ \/ budget - w.cost < k
                  \/ \A p \in DOMAIN book.asks : buy[p] <= Share(w, p)
  <2>1. \A p \in DOMAIN book.asks : /\ p < c => UnitCost(p, rate) < UnitCost(c, rate)
                                    /\ p > c => UnitCost(p, rate) > UnitCost(c, rate)
    BY <1>1, CostGrows
  <2>2. \A p \in DOMAIN book.asks : /\ p < c => buy[p] <= Share(w, p)
                                    /\ p > c => buy[p] >= Share(w, p)
    BY <1>1, <1>4 DEF CutAt
  <2>3. \A p \in DOMAIN book.asks :
          \/ buy[p] <= Share(w, p) /\ UnitCost(p, rate) <= UnitCost(c, rate)
          \/ buy[p] >= Share(w, p) /\ UnitCost(p, rate) >= UnitCost(c, rate)
    <3> SUFFICES ASSUME NEW p \in DOMAIN book.asks
                 PROVE  \/ buy[p] <= Share(w, p) /\ UnitCost(p, rate) <= UnitCost(c, rate)
                        \/ buy[p] >= Share(w, p) /\ UnitCost(p, rate) >= UnitCost(c, rate)
      OBVIOUS
    <3>1. p < c \/ p = c \/ p > c
      BY <1>1
    <3>2. /\ buy[p] \in Int /\ Share(w, p) \in Int
          /\ UnitCost(p, rate) \in Int /\ UnitCost(c, rate) \in Int
      BY <1>1, <1>2
    <3> QED
      BY <2>1, <2>2, <3>1, <3>2
  <2>4. \/ budget - w.cost < UnitCost(c, rate)
        \/ \A p \in DOMAIN book.asks : buy[p] <= Share(w, p)
    <3> SUFFICES ASSUME Share(w, c) = 0, ~WithinLimit(c, Least(DOMAIN book.asks), params),
                        NEW p \in DOMAIN book.asks
                 PROVE  buy[p] <= Share(w, p)
      BY <1>4 DEF CutAt
    <3>1. CASE p < c
      BY <2>2, <3>1
    <3>2. CASE ~(p < c)
      <4>1. Least(DOMAIN book.asks) \in Int
        BY <1>1, BestAskIs
      <4>2. ~WithinLimit(p, Least(DOMAIN book.asks), params)
        <5> DEFINE best == Least(DOMAIN book.asks)
        <5>1. best * (100 + params.slippage) \in Int /\ p \in Int /\ c \in Int
          BY <1>1, <4>1
        <5> QED
          BY <3>2, <5>1 DEF WithinLimit
      <4>3. buy[p] = 0
        BY <1>1, <4>2
      <4> QED
        BY <1>2, <4>3
    <3> QED
      BY <3>1, <3>2
  <2> QED
    BY <1>1, <2>3, <2>4
<1> QED
  BY <1>3, <1>4 DEF Greedy

(* No purchase from the book beats a greedy walk: the difference to it,    *)
(* valued level by level against the dividing price, is never a gain.      *)
LEMMA WalkBeats ==
  ASSUME NEW book, AsksFine(book), WholeQuanta(book),
         NEW budget \in Nat, NEW rate \in 0..(FeeUnits - 1), NEW params, params.slippage \in Int,
         NEW w, Tallied(w, book, budget, rate, params),
         Greedy(w, Prices, book, budget, rate, params),
         NEW buy \in [DOMAIN book.asks -> Nat],
         \A p \in DOMAIN book.asks :
           /\ buy[p] <= RoundShares(book.asks[p])
           /\ buy[p] > 0 => WithinLimit(p, Least(DOMAIN book.asks), params),
         SumFunction(CostsOf(buy, rate)) <= budget
  PROVE  \/ SumFunction(buy) < w.shares
         \/ SumFunction(buy) = w.shares /\ w.cost <= SumFunction(CostsOf(buy, rate))
<1> DEFINE A == DOMAIN book.asks
           D == DOMAIN w.fills
           x == [p \in A |-> Share(w, p)]
           xu == [p \in A |-> x[p] * UnitCost(p, rate)]
           bu == [p \in A |-> buy[p] * UnitCost(p, rate)]
           S(f) == SumFunctionOnSet(f, A)
<1>1. PICK k \in Nat :
           /\ \A p \in A : \/ buy[p] <= Share(w, p) /\ UnitCost(p, rate) <= k
                           \/ buy[p] >= Share(w, p) /\ UnitCost(p, rate) >= k
           /\ \/ budget - w.cost < k
              \/ \A p \in A : buy[p] <= Share(w, p)
  BY MarginExists
<1> DEFINE kx == [p \in A |-> k * x[p]]
           kb == [p \in A |-> k * buy[p]]
           left == [p \in A |-> xu[p] + kb[p]]
           right == [p \in A |-> bu[p] + kx[p]]
<1>2. IsFiniteSet(A) /\ IsFiniteSet(D) /\ D \in SUBSET A
  BY AsksAre, FS_Subset DEF Tallied
<1>3. \A p \in A : p \in 1..Prices /\ buy[p] \in Int /\ UnitCost(p, rate) \in Int
  BY AsksAre, CostIs
<1>4. \A p \in A : x[p] \in Int /\ (p \in D => x[p] = w.fills[p]) /\ (p \notin D => x[p] = 0)
  BY DEF Share, Tallied
<1>5. \A p \in A : x[p] = Share(w, p)
  OBVIOUS
<1>6. \A a \in Int, b \in Int : a * b \in Int /\ 0 * b = 0
  OBVIOUS
<1> HIDE DEF x
<1>7. \A p \in A : /\ xu[p] \in Int /\ bu[p] \in Int /\ kx[p] \in Int /\ kb[p] \in Int
                   /\ xu[p] = x[p] * UnitCost(p, rate) /\ bu[p] = buy[p] * UnitCost(p, rate)
                   /\ kx[p] = k * x[p] /\ kb[p] = k * buy[p]
                   /\ left[p] = xu[p] + kb[p] /\ right[p] = bu[p] + kx[p]
  BY <1>3, <1>4, <1>6
<1> HIDE DEF xu, bu, kx, kb, left, right
<1>8. \A p \in A : left[p] \in Int /\ right[p] \in Int /\ left[p] <= right[p]
  <2> SUFFICES ASSUME NEW p \in A PROVE left[p] \in Int /\ right[p] \in Int /\ left[p] <= right[p]
    OBVIOUS
  <2>1. x[p] * UnitCost(p, rate) + k * buy[p] <= buy[p] * UnitCost(p, rate) + k * x[p]
    BY <1>1, <1>3, <1>4, <1>5, Exchange
  <2> QED
    BY <1>7, <2>1
<1>9. S(left) <= S(right)
  BY <1>2, <1>8, SumMonotone
<1>10. S(left) = S(xu) + S(kb) /\ S(right) = S(bu) + S(kx)
  BY <1>2, <1>7, SumCombine
<1>11. S(kb) = k * S(buy) /\ S(kx) = k * S(x)
  BY <1>2, <1>3, <1>4, <1>7, SumScaled
<1>12. S(x) = w.shares
  <2>1. S(x) = SumFunctionOnSet(x, D)
    BY <1>2, <1>4, SumZeros
  <2>2. \A p \in D : w.fills[p] \in Int /\ x[p] = w.fills[p]
    BY <1>2, <1>4 DEF Tallied
  <2>3. SumFunctionOnSet(w.fills, D) = SumFunctionOnSet(x, D)
    BY <1>2, <2>2, SumAgrees
  <2> QED
    BY <2>1, <2>3 DEF Tallied, SumFunction
<1>13. S(xu) = w.cost
  <2>1. \A p \in A \ D : xu[p] = 0
    BY <1>3, <1>4, <1>6, <1>7
  <2>2. S(xu) = SumFunctionOnSet(xu, D)
    BY <1>2, <1>7, <2>1, SumZeros
  <2> DEFINE f == CostsOf(w.fills, rate)
  <2>3. DOMAIN f = D /\ \A p \in D : f[p] = w.fills[p] * UnitCost(p, rate)
    BY DEF CostsOf
  <2>4. \A p \in D : f[p] \in Int /\ xu[p] = f[p]
    BY <1>2, <1>4, <1>7, <2>3
  <2> HIDE DEF f
  <2>5. SumFunctionOnSet(f, D) = SumFunctionOnSet(xu, D)
    BY <1>2, <2>4, SumAgrees
  <2> QED
    BY <2>2, <2>3, <2>5 DEF Tallied, SumFunction, f
<1>14. S(bu) = SumFunction(CostsOf(buy, rate)) /\ S(buy) = SumFunction(buy)
  <2>1. DOMAIN buy = A
    OBVIOUS
  <2>2. CostsOf(buy, rate) = bu
    BY <2>1 DEF CostsOf, bu
  <2>3. DOMAIN bu = A
    BY DEF bu
  <2> QED
    BY <2>1, <2>2, <2>3 DEF SumFunction
<1>15. S(bu) \in Int /\ S(buy) \in Int /\ S(x) \in Int /\ S(xu) \in Int
  BY <1>2, <1>3, <1>4, <1>7, SumType
<1>16. (\A p \in A : buy[p] <= x[p]) => S(buy) <= S(x)
  BY <1>2, <1>3, <1>4, SumMonotone
<1> HIDE DEF S, A
<1> DEFINE b == S(buy)
           sx == S(x)
           cb == S(bu)
           cx == S(xu)
<1>17. /\ b \in Int /\ sx \in Int /\ cb \in Int /\ cx \in Int
       /\ cx + k * b <= cb + k * sx
       /\ cb <= budget
       /\ budget - cx < k \/ b <= sx
  BY <1>1, <1>5, <1>9, <1>10, <1>11, <1>13, <1>14, <1>15, <1>16
<1>18. b < sx \/ (b = sx /\ cx <= cb)
  <2> HIDE DEF b, sx, cb, cx
  <2>1. CASE b > sx
    <3>1. k * (b - sx) >= k
      BY <1>17, <2>1
    <3>2. k * (b - sx) = k * b - k * sx
      BY <1>17
    <3>3. k * b \in Int /\ k * sx \in Int
      BY <1>17
    <3> QED
      BY <1>17, <2>1, <3>1, <3>2, <3>3
  <2>2. CASE b = sx
    <3>1. k * b = k * sx /\ k * b \in Int
      BY <1>17, <2>2
    <3> QED
      BY <1>17, <2>2, <3>1
  <2> QED
    BY <1>17, <2>1, <2>2
<1> QED
  BY <1>12, <1>13, <1>14, <1>18

-----------------------------------------------------------------------------
BothSides == {"YES", "NO"}

(* What the gate lets through.                                             *)
Passes(in, params) ==
  /\ ~in.forecast.abstained /\ HasBooks(in)
  /\ \A side \in BothSides : ~StaleBook(in, params, side) /\ ~FeeUnknown(in, side)

(* A case without failing checks has both books, fresh and with known      *)
(* fees.                                                                   *)
LEMMA GatePasses ==
  ASSUME NEW in, NEW params, Failing(in, params) = {}
  PROVE  Passes(in, params)
<1>1. \A i \in 1..12 : ~Checks(in, params)[i][1]
  BY DEF Failing
<1>2. ~Checks(in, params)[1][1] /\ ~Checks(in, params)[8][1]
  BY <1>1
<1>3. /\ ~Checks(in, params)[9][1] /\ ~Checks(in, params)[10][1]
      /\ ~Checks(in, params)[11][1] /\ ~Checks(in, params)[12][1]
  BY <1>1
<1>4. ~in.forecast.abstained /\ HasBooks(in)
  BY <1>2 DEF Checks
<1>5. /\ ~StaleBook(in, params, "YES") /\ ~FeeUnknown(in, "YES")
      /\ ~StaleBook(in, params, "NO") /\ ~FeeUnknown(in, "NO")
  BY <1>3 DEF Checks
<1> QED
  BY <1>4, <1>5 DEF Passes, BothSides

(* No check that fails is answered with a trade.                           *)
LEMMA RefusalsAreNoTrades ==
  ASSUME NEW in, NEW params, NEW i \in 1..12
  PROVE  ~IsTrade(Refusal(Checks(in, params)[i][2]))
<1>1. Checks(in, params)[i][2] # "TRADE"
  BY DEF Checks
<1> QED
  BY <1>1 DEF IsTrade, Refusal

(* A trade is that of a side, and the gate was passed.                     *)
LEMMA DecideIs ==
  ASSUME NEW in, NEW params, IsTrade(Decide(in, params))
  PROVE  /\ Passes(in, params)
         /\ \E side \in BothSides : /\ Decide(in, params) = TrySide(in, params, side)
                                /\ IsTrade(TrySide(in, params, side))
<1>1. Failing(in, params) = {}
  <2> SUFFICES ASSUME Failing(in, params) # {} PROVE FALSE
    OBVIOUS
  <2> DEFINE F == Failing(in, params)
  <2>0. IsFiniteSet(1..12)
    <3>1. \A n \in Nat : IsFiniteSet(1..n)
      BY FS_Interval
    <3> QED
      BY <3>1
  <2>1. F \in SUBSET (1..12) /\ F \subseteq Int
    BY DEF Failing
  <2>2. Least(F) \in 1..12
    <3> HIDE DEF F
    <3>1. IsFiniteSet(F)
      BY <2>0, <2>1, FS_Subset
    <3> QED
      BY <2>1, <3>1, LeastIs DEF F
  <2>3. Decide(in, params) = Refusal(Checks(in, params)[Least(F)][2])
    BY DEF Decide
  <2> QED
    BY <2>2, <2>3, RefusalsAreNoTrades
<1>2. \E side \in BothSides : /\ Decide(in, params) = TrySide(in, params, side)
                          /\ IsTrade(TrySide(in, params, side))
  <2> DEFINE yes == TrySide(in, params, "YES")
             no == TrySide(in, params, "NO")
  <2>1. Decide(in, params) = IF IsTrade(yes) /\ (IsTrade(no) => NoBetter(no, yes)) THEN yes
                             ELSE IF IsTrade(no) THEN no
                             ELSE IF yes.reason # "NO_EDGE" THEN yes ELSE no
    BY <1>1 DEF Decide
  <2> HIDE DEF yes, no
  <2>2. \/ Decide(in, params) = yes
        \/ Decide(in, params) = no
    BY <2>1
  <2> QED
    BY <2>2 DEF yes, no, BothSides
<1> QED
  BY <1>1, <1>2, GatePasses

(* The greater of zero and a number.                                       *)
LEMMA MostWithZero == \A a \in Int : Most({0, a}) \in Int /\ Most({0, a}) = IF a > 0 THEN a ELSE 0
<1> TAKE a \in Int
<1> DEFINE T == {0, a}
<1>1. IsFiniteSet(T)
  BY PairIsFinite
<1>2. T # {} /\ T \subseteq Int /\ 0 \in T /\ a \in T /\ \A x \in T : x = 0 \/ x = a
  OBVIOUS
<1> HIDE DEF T
<1>3. Most(T) \in T /\ \A y \in T : Most(T) >= y
  BY <1>1, <1>2, MostIs
<1> DEFINE m == Most(T)
<1>4. (m = 0 \/ m = a) /\ m >= 0 /\ m >= a
  BY <1>2, <1>3
<1> HIDE DEF m
<1>5. m \in Int /\ m = IF a > 0 THEN a ELSE 0
  BY <1>4
<1> QED
  BY <1>5 DEF m, T

(* A budget that is not zero is within the stake, the cash and every       *)
(* headroom.                                                               *)
LEMMA BudgetIs ==
  ASSUME NEW in, NEW params, WellPosed(in, params), NEW q \in Int, NEW ask \in 1..(Prices - 1)
  PROVE  LET budget == BudgetFor(q, ask, in, params)
         IN /\ budget \in Nat
            /\ budget > 0 =>
                 /\ budget <= in.cash
                 /\ 100 * (Prices - ask) * budget <= params.kelly * (q - ask) * in.equity
                 /\ \A cap \in CapNames :
                      100 * (in.exposure[cap] + budget) <= params.caps[cap] * in.equity
<1> DEFINE stake == KellyStake(q, ask, in, params)
           room(cap) == Headroom(in, params, cap)
           limits == {stake, in.cash} \cup {room(cap) : cap \in CapNames}
           least == Least(limits)
           budget == BudgetFor(q, ask, in, params)
<1>1. /\ params.kelly \in Int /\ in.equity \in Int /\ in.cash \in Int
      /\ \A cap \in CapNames : params.caps[cap] \in Int /\ in.exposure[cap] \in Int
  BY DEF WellPosed
<1>2. \A a \in Int, b \in Int : a * b \in Int
  OBVIOUS
<1>3. stake \in Int /\ 100 * (Prices - ask) * stake <= params.kelly * (q - ask) * in.equity
  <2> DEFINE a == params.kelly * (q - ask) * in.equity
             b == 100 * (Prices - ask)
  <2>1. a \in Int /\ b \in Nat \ {0}
    <3>1. q - ask \in Int /\ Prices - ask \in Nat \ {0}
      BY Units
    <3> QED
      BY <1>1, <1>2, <3>1
  <2>2. stake = a \div b
    BY DEF KellyStake
  <2> HIDE DEF a, b, stake
  <2>3. stake \in Int /\ b * stake <= a
    BY <2>1, <2>2, Division
  <2> QED
    BY <2>3 DEF a, b
<1>4. \A cap \in CapNames :
        /\ room(cap) \in Int
        /\ room(cap) > 0 => 100 * (in.exposure[cap] + room(cap)) <= params.caps[cap] * in.equity
  <2> SUFFICES ASSUME NEW cap \in CapNames
               PROVE  /\ room(cap) \in Int
                      /\ room(cap) > 0 => 100 * (in.exposure[cap] + room(cap)) <= params.caps[cap] * in.equity
    OBVIOUS
  <2> DEFINE a == params.caps[cap] * in.equity
             e == in.exposure[cap]
             h == a \div 100 - e
             r == room(cap)
  <2>1. a \in Int /\ e \in Int
    BY <1>1, <1>2
  <2>2. r = Most({0, h})
    BY DEF Headroom
  <2> HIDE DEF a, e, room
  <2>3. a \div 100 \in Int /\ 100 * (a \div 100) <= a
    BY <2>1, Division
  <2>4. h \in Int
    BY <2>1, <2>3
  <2> HIDE DEF h, r
  <2>5. Most({0, h}) = IF h > 0 THEN h ELSE 0
    BY <2>4, MostWithZero
  <2>6. r \in Int /\ (r > 0 => r = h)
    BY <2>2, <2>4, <2>5
  <2>7. r > 0 => 100 * (e + r) <= a
    BY <2>1, <2>3, <2>6 DEF h
  <2> QED
    BY <2>6, <2>7 DEF a, e, r
<1> HIDE DEF stake, room
<1>5. IsFiniteSet(limits) /\ limits \subseteq Int /\ limits # {}
  <2>1. IsFiniteSet({stake, in.cash})
    BY PairIsFinite
  <2>2. limits = ((({stake, in.cash} \cup {room("market")}) \cup {room("event")})
                    \cup {room("category")}) \cup {room("total")}
    BY DEF CapNames
  <2>3. IsFiniteSet(limits)
    <3>1. IsFiniteSet({stake, in.cash} \cup {room("market")})
      BY <2>1, FS_AddElement
    <3>2. IsFiniteSet(({stake, in.cash} \cup {room("market")}) \cup {room("event")})
      BY <3>1, FS_AddElement
    <3>3. IsFiniteSet((({stake, in.cash} \cup {room("market")}) \cup {room("event")}) \cup {room("category")})
      BY <3>2, FS_AddElement
    <3> QED
      BY <2>2, <3>3, FS_AddElement
  <2> QED
    BY <1>1, <1>3, <1>4, <2>3
<1>6. least \in limits /\ \A y \in limits : least <= y
  <2> HIDE DEF limits
  <2> QED
    BY <1>5, LeastIs
<1>7. least \in Int
  <2> HIDE DEF limits, least
  <2> QED
    BY <1>5, <1>6
<1>8. budget = Most({0, least})
  BY DEF BudgetFor, stake, room
<1>9. least <= stake /\ least <= in.cash /\ \A cap \in CapNames : least <= room(cap)
  BY <1>6
<1> HIDE DEF least, limits, budget
<1>10. Most({0, least}) = IF least > 0 THEN least ELSE 0
  BY <1>7, MostWithZero
<1>11. budget \in Nat /\ (budget > 0 => budget = least)
  BY <1>7, <1>8, <1>10
<1>12. ASSUME budget > 0
       PROVE  /\ budget <= in.cash
              /\ 100 * (Prices - ask) * budget <= params.kelly * (q - ask) * in.equity
              /\ \A cap \in CapNames :
                   100 * (in.exposure[cap] + budget) <= params.caps[cap] * in.equity
  <2>1. budget <= in.cash /\ budget <= stake /\ \A cap \in CapNames : budget <= room(cap)
    BY <1>9, <1>11, <1>12
  <2>2. 100 * (Prices - ask) * budget <= params.kelly * (q - ask) * in.equity
    <3> DEFINE b == 100 * (Prices - ask)
               a == params.kelly * (q - ask) * in.equity
    <3>1. b \in Nat
      BY Units
    <3>2. a \in Int
      BY <1>1, <1>2
    <3>3. b * stake <= a
      BY <1>3
    <3> HIDE DEF a, b
    <3>4. b * budget <= b * stake /\ b * budget \in Int /\ b * stake \in Int
      BY <1>3, <1>11, <2>1, <3>1
    <3>5. b * budget <= a
      BY <3>2, <3>3, <3>4
    <3> QED
      BY <3>5 DEF a, b
  <2>3. ASSUME NEW cap \in CapNames
        PROVE  100 * (in.exposure[cap] + budget) <= params.caps[cap] * in.equity
    <3> DEFINE a == params.caps[cap] * in.equity
               e == in.exposure[cap]
               r == room(cap)
    <3>1. a \in Int /\ e \in Int /\ r \in Int
      BY <1>1, <1>2, <1>4
    <3>2. budget <= r
      BY <2>1
    <3>3. r > 0 => 100 * (e + r) <= a
      BY <1>4
    <3> HIDE DEF a, e, r
    <3>4. 100 * (e + budget) <= a
      BY <1>11, <1>12, <3>1, <3>2, <3>3
    <3> QED
      BY <3>4 DEF a, e
  <2> QED
    BY <2>1, <2>2, <2>3
<1> QED
  BY <1>11, <1>12 DEF budget

(* What a side's trade is: the walk of its book with its budget.           *)
Bought(t, in, params, side) ==
  LET book == in.books[side]
      walk == WalkAsks(book, t.budget, Rate(book), params)
  IN /\ DOMAIN book.asks # {}
     /\ t.side = side /\ t.q = SideProbability(in.forecast, params, side)
     /\ t.budget = BudgetFor(t.q, Least(DOMAIN book.asks), in, params)
     /\ ~(t.budget <= 0)
     /\ t.fills = walk.fills /\ t.shares = walk.shares /\ t.fee = walk.fee /\ t.cost = walk.cost
     /\ t.shares # 0
     /\ ~(EdgeAfterFill(t) < EdgeNeeded(t.shares, params))

(* A side that trades has passed every test of its own.                    *)
LEMMA TradeIsBought ==
  ASSUME NEW in, NEW params, NEW side, IsTrade(TrySide(in, params, side))
  PROVE  Bought(TrySide(in, params, side), in, params, side)
<1> DEFINE book == in.books[side]
           q == SideProbability(in.forecast, params, side)
           budget == BudgetFor(q, Least(DOMAIN book.asks), in, params)
           walk == WalkAsks(book, budget, Rate(book), params)
           t == [reason |-> "TRADE", side |-> side, q |-> q, budget |-> budget,
                 fills |-> walk.fills, shares |-> walk.shares, fee |-> walk.fee,
                 cost |-> walk.cost]
           try == TrySide(in, params, side)
<1>1. \A reason : IsTrade(Refusal(reason)) => reason = "TRADE"
  BY DEF IsTrade, Refusal
<1>2. try = IF DOMAIN book.asks = {} THEN Refusal("NO_DEPTH")
            ELSE IF q * Prices * FeeUnits - UnitCost(Least(DOMAIN book.asks), Rate(book)) < EdgeNeeded(1, params)
                 THEN Refusal("NO_EDGE")
            ELSE IF budget <= 0    THEN Refusal("NO_BUDGET")
            ELSE IF OffTick(book)  THEN Refusal("TICK_MISMATCH")
            ELSE IF walk.shares = 0 THEN Refusal("NO_DEPTH")
            ELSE IF walk.shares < book.minimum * Quanta \/ walk.cost < book.minimum * Dollar
                 THEN Refusal("BELOW_MIN_ORDER")
            ELSE IF EdgeAfterFill(t) < EdgeNeeded(walk.shares, params)
                 THEN Refusal("NO_EDGE_AFTER_FILL")
            ELSE t
  BY DEF TrySide
<1>3. /\ t.side = side /\ t.q = q /\ t.budget = budget /\ t.fills = walk.fills
      /\ t.shares = walk.shares /\ t.fee = walk.fee /\ t.cost = walk.cost
  OBVIOUS
<1> HIDE DEF book, q, budget, walk, t, try
<1>4. IsTrade(try)
  BY DEF try
<1>5. /\ DOMAIN book.asks # {} /\ ~(budget <= 0) /\ walk.shares # 0
      /\ ~(EdgeAfterFill(t) < EdgeNeeded(walk.shares, params)) /\ try = t
  BY <1>1, <1>2, <1>4
<1>6. Bought(t, in, params, side)
  <2>1. DOMAIN in.books[side].asks # {}
    BY <1>5 DEF book
  <2>2. t.q = SideProbability(in.forecast, params, side)
    BY <1>3 DEF q
  <2>3. t.budget = BudgetFor(t.q, Least(DOMAIN in.books[side].asks), in, params)
    BY <1>3 DEF budget, book
  <2>4. walk = WalkAsks(in.books[side], t.budget, Rate(in.books[side]), params)
    BY <1>3 DEF walk, book
  <2> QED
    BY <1>3, <1>5, <2>1, <2>2, <2>3, <2>4 DEF Bought
<1> QED
  BY <1>5, <1>6 DEF try

(* Past the gate the fee rate is usable.                                   *)
LEMMA RateIs ==
  ASSUME NEW in, NEW params, Passes(in, params), NEW side \in BothSides
  PROVE  Rate(in.books[side]) \in 0..(FeeUnits - 1)
BY Units DEF Passes, FeeUnknown, FeeKnown, Rate

(* Past the gate there are probabilities.                                  *)
LEMMA ProbabilityIs ==
  ASSUME NEW in, NEW params, WellPosed(in, params), Passes(in, params), NEW side \in BothSides
  PROVE  SideProbability(in.forecast, params, side) \in Int
<1>1. in.forecast.low \in Int /\ in.forecast.mid \in Int /\ in.forecast.high \in Int
  BY DEF WellPosed, Passes
<1>2. params.source = "bounds" \/ params.source = "mid"
  BY DEF WellPosed
<1>3. side = "YES" \/ side = "NO"
  BY DEF BothSides
<1> QED
  BY <1>1, <1>2, <1>3, Units DEF SideProbability

(* Past the gate there are parsed books.                                   *)
LEMMA BookIs ==
  ASSUME NEW in, NEW params, WellPosed(in, params), Passes(in, params), NEW side \in BothSides
  PROVE  AsksFine(in.books[side])
<1>1. side \in DOMAIN in.books
  BY DEF Passes, HasBooks, BothSides
<1> QED
  BY <1>1 DEF WellPosed, AsksFine

(* What every trade rests on: a parsed book, a usable rate, a budget, and  *)
(* a walk of that book within it.                                          *)
Founded(t, in, params, side) ==
  /\ AsksFine(in.books[side]) /\ DOMAIN in.books[side].asks # {}
  /\ Rate(in.books[side]) \in 0..(FeeUnits - 1)
  /\ t.q \in Int /\ t.budget \in Nat /\ t.budget > 0
  /\ t.cost \in Int /\ t.cost <= t.budget /\ t.shares \in Nat \ {0}
  /\ \E w : /\ Tallied(w, in.books[side], t.budget, Rate(in.books[side]), params)
            /\ WholeQuanta(in.books[side]) =>
                 Greedy(w, Prices, in.books[side], t.budget, Rate(in.books[side]), params)
            /\ t.fills = w.fills /\ t.shares = w.shares /\ t.fee = w.fee /\ t.cost = w.cost

(* Every trade past the gate is founded.                                   *)
LEMMA TradeIsFounded ==
  ASSUME NEW in, NEW params, WellPosed(in, params), Passes(in, params), NEW side \in BothSides,
         NEW t, Bought(t, in, params, side)
  PROVE  Founded(t, in, params, side)
<1> DEFINE book == in.books[side]
           rate == Rate(book)
           best == Least(DOMAIN book.asks)
           w == WalkAsks(book, t.budget, rate, params)
<1>1. AsksFine(book) /\ DOMAIN book.asks # {} /\ rate \in 0..(FeeUnits - 1) /\ t.q \in Int
  BY BookIs, RateIs, ProbabilityIs DEF Bought
<1>2. best \in 1..(Prices - 1)
  <2> HIDE DEF book
  <2> QED
    BY <1>1, BestAskIs DEF AsksFine
<1>3. t.budget \in Nat /\ t.budget > 0
  <2>1. t.budget = BudgetFor(t.q, best, in, params) /\ ~(t.budget <= 0)
    BY DEF Bought
  <2> HIDE DEF best
  <2>2. BudgetFor(t.q, best, in, params) \in Nat
    BY <1>1, <1>2, BudgetIs
  <2> QED
    BY <2>1, <2>2
<1>4. /\ t.fills = w.fills /\ t.shares = w.shares /\ t.fee = w.fee /\ t.cost = w.cost
      /\ t.shares # 0
  BY DEF Bought
<1> HIDE DEF book, rate
<1>5. /\ Tallied(w, book, t.budget, rate, params)
      /\ WholeQuanta(book) => Greedy(w, Prices, book, t.budget, rate, params)
  BY <1>1, <1>3, WalkIsGreedy
<1> HIDE DEF w
<1>6. w.cost \in Int /\ w.cost <= t.budget
  BY <1>5 DEF Tallied
<1>7. w.shares \in Nat
  <2> DEFINE D == DOMAIN w.fills
             zero == [p \in D |-> 0]
  <2>1. IsFiniteSet(D) /\ \A p \in D : w.fills[p] \in Int /\ 0 <= w.fills[p]
    BY <1>1, <1>5, AsksAre, FS_Subset DEF Tallied
  <2>2. \A p \in D : zero[p] = 0
    OBVIOUS
  <2> HIDE DEF zero
  <2>3. SumFunctionOnSet(zero, D) <= SumFunctionOnSet(w.fills, D)
    BY <2>1, <2>2, SumMonotone
  <2>4. SumFunctionOnSet(zero, D) = SumFunctionOnSet(zero, {})
    BY <2>1, <2>2, SumZeros
  <2>5. SumFunctionOnSet(zero, {}) = 0
    BY SumEmpty
  <2>6. SumFunctionOnSet(w.fills, D) \in Int
    BY <2>1, SumType
  <2>7. w.shares = SumFunctionOnSet(w.fills, D)
    BY <1>5 DEF Tallied, SumFunction
  <2> QED
    BY <2>3, <2>4, <2>5, <2>6, <2>7
<1> QED
  BY <1>1, <1>3, <1>4, <1>5, <1>6, <1>7 DEF Founded, book, rate

(* The audit of a founded trade finds nothing.                             *)
LEMMA AuditPasses ==
  ASSUME NEW in, NEW params, WellPosed(in, params), Passes(in, params), NEW side \in BothSides,
         NEW t, Founded(t, in, params, side)
  PROVE  FillProblems(t, in.books[side], params, in.now) = {}
<1> DEFINE book == in.books[side]
           rate == Rate(book)
           D == DOMAIN t.fills
           costs == CostsOf(t.fills, rate)
           fees == FeesOf(t.fills, rate)
           notionals == [p \in D |-> t.fills[p] * p * Prices * FeeUnits]
<1>1. /\ AsksFine(book) /\ DOMAIN book.asks # {} /\ rate \in 0..(FeeUnits - 1) /\ t.shares # 0
  BY DEF Founded
<1>2. /\ D \subseteq DOMAIN book.asks
      /\ \A p \in D : /\ t.fills[p] \in Nat \ {0} /\ t.fills[p] <= RoundShares(book.asks[p])
                      /\ WithinLimit(p, Least(DOMAIN book.asks), params)
      /\ t.shares = SumFunction(t.fills) /\ t.fee = SumFunction(fees) /\ t.cost = SumFunction(costs)
  BY DEF Founded, Tallied
<1>3. IsFiniteSet(D) /\ D \subseteq Int /\ \A p \in D : p \in 1..Prices
  BY <1>1, <1>2, AsksAre, FS_Subset
<1>4. D # {}
  BY <1>1, <1>2, SumEmpty DEF SumFunction
<1>5. \A p \in D : /\ p \in DOMAIN book.asks /\ ~(t.fills[p] <= 0)
                   /\ ~(Grain * t.fills[p] > book.asks[p])
  <2> SUFFICES ASSUME NEW p \in D
               PROVE  /\ p \in DOMAIN book.asks /\ ~(t.fills[p] <= 0)
                      /\ ~(Grain * t.fills[p] > book.asks[p])
    OBVIOUS
  <2> DEFINE n == t.fills[p]
             size == book.asks[p]
             most == RoundShares(size)
  <2>1. p \in DOMAIN book.asks /\ n \in Nat \ {0} /\ n <= most
    BY <1>2
  <2>2. size \in Nat \ {0} /\ most \in Nat
    BY <1>1, <2>1, AsksAre
  <2> HIDE DEF size
  <2>3. Grain * most <= size
    BY <2>2, Rounded
  <2> HIDE DEF n, most
  <2>4. Grain * n <= Grain * most /\ Grain * n \in Int /\ Grain * most \in Int
    BY <2>1, <2>2, Units
  <2>5. Grain * n <= size
    BY <2>2, <2>3, <2>4
  <2> QED
    BY <2>1, <2>2, <2>4, <2>5 DEF n, size
<1>6. ~FeeUnknown(in, side) /\ ~StaleBook(in, params, side) /\ HasBooks(in)
  BY DEF Passes
<1>7. t.cost = SumFunction(notionals) + t.fee
  <2>1. DOMAIN costs = D /\ DOMAIN fees = D /\ DOMAIN notionals = D
    BY DEF CostsOf, FeesOf
  <2>2. \A p \in D : /\ notionals[p] \in Int /\ fees[p] \in Int
                     /\ costs[p] = notionals[p] + fees[p]
    <3> SUFFICES ASSUME NEW p \in D
                 PROVE  /\ notionals[p] \in Int /\ fees[p] \in Int
                        /\ costs[p] = notionals[p] + fees[p]
      OBVIOUS
    <3>1. /\ costs[p] = t.fills[p] * UnitCost(p, rate)
          /\ fees[p] = LevelFee(t.fills[p], p, rate)
          /\ notionals[p] = t.fills[p] * p * Prices * FeeUnits
      BY DEF CostsOf, FeesOf
    <3>2. t.fills[p] \in Nat /\ p \in 1..Prices
      BY <1>2, <1>3
    <3> HIDE DEF costs, fees, notionals, rate
    <3>3. /\ LevelFee(t.fills[p], p, rate) \in Int
          /\ t.fills[p] * p * Prices * FeeUnits \in Int
          /\ t.fills[p] * UnitCost(p, rate)
               = t.fills[p] * p * Prices * FeeUnits + LevelFee(t.fills[p], p, rate)
      BY <1>1, <3>2, FeeIs
    <3> QED
      BY <3>1, <3>3
  <2> HIDE DEF costs, fees, notionals
  <2>3. SumFunctionOnSet(costs, D) = SumFunctionOnSet(notionals, D) + SumFunctionOnSet(fees, D)
    BY <1>3, <2>2, SumCombine
  <2> QED
    BY <1>2, <2>1, <2>3 DEF SumFunction
<1>8. WithinLimit(Most(D), Least(DOMAIN book.asks), params)
  <2>1. Most(D) \in D
    BY <1>3, <1>4, MostIs
  <2> QED
    BY <1>2, <2>1
<1>9. t.fee = SumFunction([p \in D |-> LevelFee(t.fills[p], p, rate)])
  BY <1>2 DEF FeesOf
<1>10. ~(in.now - book.fetched < 0 \/ in.now - book.fetched > params.maxAge)
  BY <1>6 DEF StaleBook
<1>11. ~(book.fees /\ ~FeeKnown(book))
  BY <1>6 DEF FeeUnknown
<1>12. ~(t.shares # SumFunction(t.fills))
  BY <1>2
<1>13. D = DOMAIN t.fills
  OBVIOUS
<1>14. t.cost = SumFunction([p \in D |-> t.fills[p] * p * Prices * FeeUnits]) + t.fee
  BY <1>7
<1> HIDE DEF D, book, rate
<1>15. FillProblems(t, book, params, in.now) = {}
  BY <1>4, <1>5, <1>8, <1>9, <1>10, <1>11, <1>12, <1>14 DEF FillProblems, D, rate
<1> QED
  BY <1>15 DEF book

(* A founded trade is the best purchase.                                   *)
LEMMA WalksAreBest ==
  ASSUME NEW in, NEW params, WellPosed(in, params), Passes(in, params), NEW side \in BothSides,
         NEW t, Founded(t, in, params, side), WholeQuanta(in.books[side]),
         NEW buy \in Purchases(in.books[side], Rate(in.books[side]), params),
         SumFunction([p \in DOMAIN buy |-> buy[p] * UnitCost(p, Rate(in.books[side]))]) <= t.budget
  PROVE  \/ SumFunction(buy) < t.shares
         \/ /\ SumFunction(buy) = t.shares
            /\ t.cost <= SumFunction([p \in DOMAIN buy |-> buy[p] * UnitCost(p, Rate(in.books[side]))])
<1> DEFINE book == in.books[side]
           rate == Rate(book)
<1>1. AsksFine(book) /\ rate \in 0..(FeeUnits - 1) /\ t.budget \in Nat /\ params.slippage \in Int
  BY DEF Founded, WellPosed
<1>2. PICK w : /\ Tallied(w, book, t.budget, rate, params)
               /\ Greedy(w, Prices, book, t.budget, rate, params)
               /\ t.shares = w.shares /\ t.cost = w.cost
  BY DEF Founded
<1>3. /\ buy \in [DOMAIN book.asks -> Nat]
      /\ \A p \in DOMAIN book.asks :
           /\ buy[p] <= RoundShares(book.asks[p])
           /\ buy[p] > 0 => WithinLimit(p, Least(DOMAIN book.asks), params)
  <2> DEFINE sizes == {RoundShares(book.asks[p]) : p \in DOMAIN book.asks}
  <2>1. Most(sizes) \in Int
    <3> HIDE DEF rate
    <3>1. IsFiniteSet(DOMAIN book.asks) /\ DOMAIN book.asks # {}
      BY <1>1, AsksAre DEF Founded
    <3>2. IsFiniteSet(sizes)
      <4> DEFINE f == [p \in DOMAIN book.asks |-> RoundShares(book.asks[p])]
      <4>1. f \in Surjection(DOMAIN book.asks, sizes)
        BY DEF Surjection
      <4> QED
        BY <3>1, <4>1, FS_Surjection
    <3>3. sizes \subseteq Int /\ sizes # {}
      <4> HIDE DEF book
      <4> QED
        BY <1>1, <3>1, AsksAre
    <3> HIDE DEF sizes
    <3> QED
      BY <3>2, <3>3, MostIs
  <2>2. /\ buy \in [DOMAIN book.asks -> 0..Most(sizes)]
        /\ \A p \in DOMAIN book.asks :
             /\ buy[p] <= RoundShares(book.asks[p])
             /\ buy[p] > 0 => WithinLimit(p, Least(DOMAIN book.asks), params)
    BY DEF Purchases
  <2> HIDE DEF sizes
  <2>3. 0..Most(sizes) \subseteq Nat
    BY <2>1
  <2> QED
    BY <2>2, <2>3
<1>4. CostsOf(buy, rate) = [p \in DOMAIN buy |-> buy[p] * UnitCost(p, rate)]
  BY DEF CostsOf
<1>5. SumFunction(CostsOf(buy, rate)) <= t.budget
  BY <1>4
<1> HIDE DEF book, rate
<1>6. WholeQuanta(book)
  BY DEF book
<1>7. \/ SumFunction(buy) < w.shares
      \/ SumFunction(buy) = w.shares /\ w.cost <= SumFunction(CostsOf(buy, rate))
  BY <1>1, <1>2, <1>3, <1>5, <1>6, WalkBeats
<1> QED
  BY <1>2, <1>4, <1>7 DEF book, rate

(* What a trade costs is within its budget, and so within all that bounds  *)
(* it.                                                                     *)
LEMMA CostIsCovered ==
  ASSUME NEW in, NEW params, WellPosed(in, params), Passes(in, params), NEW side \in BothSides,
         NEW t, Bought(t, in, params, side)
  PROVE  LET best == Least(DOMAIN in.books[side].asks)
         IN /\ t.cost <= in.cash
            /\ \A cap \in CapNames :
                 100 * (in.exposure[cap] + t.cost) <= params.caps[cap] * in.equity
            /\ 100 * (Prices - best) * t.cost <= params.kelly * (t.q - best) * in.equity
<1> DEFINE best == Least(DOMAIN in.books[side].asks)
<1>1. /\ AsksFine(in.books[side]) /\ DOMAIN in.books[side].asks # {}
      /\ t.q \in Int /\ t.budget \in Nat /\ t.budget > 0
      /\ t.cost \in Int /\ t.cost <= t.budget
  BY TradeIsFounded DEF Founded
<1>2. best \in 1..(Prices - 1)
  BY <1>1, BestAskIs DEF AsksFine
<1>3. t.budget = BudgetFor(t.q, best, in, params)
  BY DEF Bought
<1> HIDE DEF best
<1>4. /\ t.budget <= in.cash
      /\ 100 * (Prices - best) * t.budget <= params.kelly * (t.q - best) * in.equity
      /\ \A cap \in CapNames :
           100 * (in.exposure[cap] + t.budget) <= params.caps[cap] * in.equity
  BY <1>1, <1>2, <1>3, BudgetIs
<1>5. /\ params.kelly \in Int /\ in.equity \in Int /\ in.cash \in Int
      /\ \A cap \in CapNames : params.caps[cap] \in Int /\ in.exposure[cap] \in Int
  BY DEF WellPosed
<1>6. t.cost <= in.cash
  BY <1>1, <1>4, <1>5
<1>7. \A a \in Int, b \in Int : a * b \in Int
  OBVIOUS
<1>8. 100 * (Prices - best) * t.cost <= params.kelly * (t.q - best) * in.equity
  <2> DEFINE a == params.kelly * (t.q - best) * in.equity
             b == 100 * (Prices - best)
  <2>1. a \in Int /\ b \in Nat
    <3>1. t.q - best \in Int /\ b \in Nat
      BY <1>1, <1>2, Units
    <3> QED
      BY <1>5, <1>7, <3>1
  <2>2. b * t.budget <= a
    BY <1>4
  <2> HIDE DEF a, b
  <2>3. b * t.cost <= b * t.budget /\ b * t.cost \in Int /\ b * t.budget \in Int
    BY <1>1, <2>1
  <2>4. b * t.cost <= a
    BY <2>1, <2>2, <2>3
  <2> QED
    BY <2>4 DEF a, b
<1>9. ASSUME NEW cap \in CapNames
      PROVE  100 * (in.exposure[cap] + t.cost) <= params.caps[cap] * in.equity
  <2> DEFINE a == params.caps[cap] * in.equity
             e == in.exposure[cap]
  <2>1. a \in Int /\ e \in Int
    BY <1>5, <1>7
  <2>2. 100 * (e + t.budget) <= a
    BY <1>4
  <2> HIDE DEF a, e
  <2>3. 100 * (e + t.cost) <= a
    BY <1>1, <2>1, <2>2
  <2> QED
    BY <2>3 DEF a, e
<1> QED
  BY <1>6, <1>8, <1>9 DEF best

(* The side is priced at the bound least favourable to it, so the edge is  *)
(* no less anywhere else between the bounds.                               *)
LEMMA EdgeIsKept ==
  ASSUME NEW in, NEW params, WellPosed(in, params), Passes(in, params), NEW side \in BothSides,
         NEW t, Bought(t, in, params, side), params.source = "bounds",
         NEW p \in in.forecast.low..in.forecast.high
  PROVE  (IF t.side = "YES" THEN p ELSE Prices - p) * Prices * FeeUnits * t.shares - t.cost
           >= EdgeNeeded(t.shares, params)
<1> DEFINE win == IF t.side = "YES" THEN p ELSE Prices - p
           unit == Prices * FeeUnits
<1>1. /\ t.q \in Int /\ t.cost \in Int /\ t.shares \in Nat
      /\ in.forecast.low \in Int /\ in.forecast.high \in Int /\ params.edge \in Int
  BY TradeIsFounded DEF Founded, WellPosed, Passes
<1>2. t.side = side /\ t.q = SideProbability(in.forecast, params, side)
  BY DEF Bought
<1>3. win \in Int /\ win >= t.q
  <2>1. p \in Int /\ p >= in.forecast.low /\ p <= in.forecast.high
    BY <1>1
  <2>2. CASE side = "YES"
    <3>1. t.q = in.forecast.low
      BY <1>2, <2>2 DEF SideProbability
    <3> QED
      BY <1>2, <2>1, <2>2, <3>1
  <2>3. CASE side = "NO"
    <3>1. t.q = Prices - in.forecast.high
      BY <1>2, <2>3 DEF SideProbability
    <3> QED
      BY <1>1, <1>2, <2>1, <2>3, <3>1, Units
  <2> QED
    BY <2>2, <2>3 DEF BothSides
<1>4. t.q * Prices * FeeUnits * t.shares - t.cost >= EdgeNeeded(t.shares, params)
  <2>1. ~(t.q * Prices * FeeUnits * t.shares - t.cost < EdgeNeeded(t.shares, params))
    BY DEF Bought, EdgeAfterFill
  <2>2. \A a \in Int, b \in Int : a * b \in Int /\ a - b \in Int
    OBVIOUS
  <2>3. EdgeNeeded(t.shares, params) \in Int /\ t.q * Prices * FeeUnits * t.shares - t.cost \in Int
    BY <1>1, <2>2, Units DEF EdgeNeeded
  <2> QED
    BY <2>1, <2>3
<1>5. win * Prices * FeeUnits * t.shares >= t.q * Prices * FeeUnits * t.shares
  <2> HIDE DEF win
  <2>1. unit \in Nat
    BY Units
  <2>2. \A a \in Int : a * Prices * FeeUnits * t.shares = a * (unit * t.shares)
    BY <1>1, Units
  <2>3. unit * t.shares \in Nat
    BY <1>1, <2>1
  <2> HIDE DEF unit
  <2> DEFINE m == unit * t.shares
  <2>4. win * m >= t.q * m
    <3> HIDE DEF m
    <3> QED
      BY <1>1, <1>3, <2>3 DEF m
  <2> QED
    BY <1>1, <1>3, <2>2, <2>4
<1>6. /\ win * Prices * FeeUnits * t.shares \in Int /\ t.q * Prices * FeeUnits * t.shares \in Int
      /\ EdgeNeeded(t.shares, params) \in Int
  <2>1. \A a \in Int, b \in Int : a * b \in Int
    OBVIOUS
  <2> HIDE DEF win
  <2> QED
    BY <1>1, <1>3, <2>1, Units DEF EdgeNeeded
<1> HIDE DEF win
<1>7. win * Prices * FeeUnits * t.shares - t.cost >= EdgeNeeded(t.shares, params)
  <2> DEFINE a == win * Prices * FeeUnits * t.shares
             b == t.q * Prices * FeeUnits * t.shares
             e == EdgeNeeded(t.shares, params)
  <2>1. a \in Int /\ b \in Int /\ e \in Int /\ a >= b /\ b - t.cost >= e
    BY <1>4, <1>5, <1>6
  <2> HIDE DEF a, b, e
  <2>2. a - t.cost >= e
    BY <1>1, <2>1
  <2> QED
    BY <2>2 DEF a, e
<1> QED
  BY <1>7 DEF win

-----------------------------------------------------------------------------
(* A case is one of those posed, and its answer what decide says of it.    *)
PolicyInv ==
  \/ case = Unposed /\ answer = Unposed
  \/ case \in Cases /\ answer = Decide(case.inputs, case.params)

(* Every answer is what decide returns for a case that may be posed        *)
(* (policy.py line 203).                                                   *)
THEOREM PolicyInvariant == PolicySpec => []PolicyInv
<1>1. PolicyInit => PolicyInv
  BY DEF PolicyInit, PolicyInv
<1>2. PolicyInv /\ [PoseCase]_decisionVars => PolicyInv'
  BY DEF PolicyInv, PoseCase, decisionVars
<1> QED
  BY <1>1, <1>2, PTL DEF PolicySpec

(* Every trade answered is founded.                                        *)
LEMMA TradesAreFounded ==
  ASSUME PolicyInv, Traded
  PROVE  /\ WellPosed(case.inputs, case.params) /\ Passes(case.inputs, case.params)
         /\ answer.side \in BothSides
         /\ Bought(answer, case.inputs, case.params, answer.side)
         /\ Founded(answer, case.inputs, case.params, answer.side)
<1>1. case \in Cases /\ answer = Decide(case.inputs, case.params) /\ IsTrade(answer)
  BY DEF PolicyInv, Traded
<1>2. WellPosed(case.inputs, case.params)
  BY <1>1, PolicyAssumption
<1>3. PICK side \in BothSides : /\ answer = TrySide(case.inputs, case.params, side)
                            /\ IsTrade(TrySide(case.inputs, case.params, side))
  BY <1>1, DecideIs
<1>4. Passes(case.inputs, case.params)
  BY <1>1, DecideIs
<1>5. Bought(answer, case.inputs, case.params, side)
  BY <1>3, TradeIsBought
<1>6. answer.side = side
  BY <1>5 DEF Bought
<1>7. Founded(answer, case.inputs, case.params, side)
  BY <1>2, <1>4, <1>5, TradeIsFounded
<1> QED
  BY <1>2, <1>3, <1>4, <1>5, <1>6, <1>7

(* For any book, budget, fee rate and slippage, no purchase within the     *)
(* budget, the limit and the recorded sizes buys more than the walk of a   *)
(* trade, or as much for less (fills.py line 78).                          *)
THEOREM WalksAreOptimal == PolicySpec => []WalkIsBest
<1>1. PolicyInv => WalkIsBest
  <2> SUFFICES ASSUME PolicyInv, Traded,
                      WholeQuanta(case.inputs.books[answer.side]),
                      NEW buy \in Purchases(case.inputs.books[answer.side],
                                            Rate(case.inputs.books[answer.side]), case.params),
                      SumFunction([p \in DOMAIN buy |->
                        buy[p] * UnitCost(p, Rate(case.inputs.books[answer.side]))]) <= answer.budget
               PROVE  \/ SumFunction(buy) < answer.shares
                      \/ /\ SumFunction(buy) = answer.shares
                         /\ answer.cost <= SumFunction([p \in DOMAIN buy |->
                              buy[p] * UnitCost(p, Rate(case.inputs.books[answer.side]))])
    BY DEF WalkIsBest, WholeQuanta
  <2> QED
    BY TradesAreFounded, WalksAreBest
<1> QED
  BY <1>1, PolicyInvariant, PTL

(* Whatever is traded, the audit of the stored ticket against the book it  *)
(* was decided on finds nothing (invariants.py line 269).                  *)
THEOREM AuditFindsNothing == PolicySpec => []TradesPassTheAudit
<1>1. PolicyInv => TradesPassTheAudit
  BY TradesAreFounded, AuditPasses DEF TradesPassTheAudit
<1> QED
  BY <1>1, PolicyInvariant, PTL

(* No trade costs more than the cash, exceeds a cap or stakes more than    *)
(* the fraction of Kelly, its fees included (policy.py line 109).          *)
THEOREM TradesKeepTheCaps == PolicySpec => []CapsHold
<1>1. PolicyInv => CapsHold
  BY TradesAreFounded, CostIsCovered DEF CapsHold
<1> QED
  BY <1>1, PolicyInvariant, PTL

(* A trade of the primary portfolio keeps its edge at every probability    *)
(* between the bounds of its forecast (policy.py line 165).                *)
THEOREM TradesKeepTheEdge == PolicySpec => []EdgeHoldsWithinBounds
<1>1. PolicyInv => EdgeHoldsWithinBounds
  <2> SUFFICES ASSUME PolicyInv, Traded, case.params.source = "bounds",
                      NEW p \in case.inputs.forecast.low..case.inputs.forecast.high
               PROVE  (IF answer.side = "YES" THEN p ELSE Prices - p) * Prices * FeeUnits * answer.shares
                        - answer.cost >= EdgeNeeded(answer.shares, case.params)
    BY DEF EdgeHoldsWithinBounds
  <2> QED
    BY TradesAreFounded, EdgeIsKept
<1> QED
  BY <1>1, PolicyInvariant, PTL

=============================================================================
