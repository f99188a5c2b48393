---------------------- MODULE ResolutionPollingProofs ----------------------
(***************************************************************************)
(* Proofs about ResolutionPolling, for any number of polls and tickets,    *)
(* any worlds and any bounds.                                              *)
(*                                                                         *)
(* The rule itself only knows times; that it picks the newest evidence is  *)
(* a fact about how times and eras go together, although no variable of    *)
(* the model says so.  Ordered states it for every two observations, be    *)
(* they rows or polls under way: what was requested after another had been *)
(* answered shows nothing older.  It is inductive because a new request    *)
(* comes after all that was seen, and a new answer before all that is yet  *)
(* to be requested.                                                        *)
(***************************************************************************)
EXTENDS ResolutionPolling, FiniteSetTheorems, TLAPS

(* The table the polls write is one the proofs about the rule speak of.    *)
Checks == {"NOT_APPLICABLE", "CONFIRMED", "MISMATCH", "UNCHECKED"}

Table == INSTANCE SettlementProofs WITH
           Times <- Nat,
           Verdicts <- [status : {"open", "resolved"}, outcome : Outcomes, check : Checks]

Counted == \A r \in rows : r.id <= Cardinality(rows)

(* Requests, answers and the eras they showed lie in the past.             *)
Past ==
  /\ \A w \in Pollers :
       /\ poll[w].sentIn <= Era /\ poll[w].ruledIn <= Era /\ poll[w].pricedIn <= Era
       /\ poll[w].requested <= clock
       /\ poll[w].pc \in {"gamma", "store"} =>
            poll[w].requested <= poll[w].fetched /\ poll[w].fetched <= clock
       /\ poll[w].pc = "store" => poll[w].fetched <= poll[w].gamma /\ poll[w].gamma <= clock
  /\ \A r \in rows : r.requested <= clock /\ r.ruledIn \in 1..Era /\ r.pricedIn <= Era

(* Whatever observation o shows, it shows no era before e.                 *)
ShowsFrom(o, e) ==
  /\ o.ruledIn # NoEra => e <= o.ruledIn
  /\ o.pricedIn # NoEra => e <= o.pricedIn

(* Observation y was requested when the answers of x had come: y shows     *)
(* nothing older than what x showed, nor will what it still waits for.     *)
Succeeds(y, x) ==
  /\ x.fetched < y.requested => ShowsFrom(y, x.ruledIn)
  /\ x.fetched < y.requested /\ x.gamma < y.requested => ShowsFrom(y, x.pricedIn)

WaitsFrom(y, x) ==
  y.pc \in {"resolution", "gamma"} =>
    /\ x.fetched < y.requested => x.ruledIn <= y.sentIn
    /\ x.fetched < y.requested /\ x.gamma < y.requested => x.pricedIn <= y.sentIn

Observations == rows \cup {poll[w] : w \in Pollers}

Ordered ==
  /\ \A x, y \in Observations : Succeeds(y, x)
  /\ \A x \in Observations, w \in Pollers : WaitsFrom(poll[w], x)

(* A confirmed row says what both services showed in the eras it saw.      *)
RowsTrue ==
  \A r \in rows :
    r.check = "CONFIRMED" =>
      /\ r.outcome \in SettleableOutcomes
      /\ r.outcome = history[r.ruledIn].ruling
      /\ r.pricedIn # NoEra /\ r.outcome = history[r.pricedIn].prices

PaidOnRows ==
  /\ paid \in [Tickets -> Row \cup {Unpaid}]
  /\ \A t \in Tickets : paid[t] # Unpaid => paid[t] \in rows /\ paid[t].check = "CONFIRMED"

IInv ==
  /\ TypeOK
  /\ Table!RowsSound /\ Counted
  /\ Past
  /\ Ordered
  /\ RowsTrue
  /\ PaidOnRows

-----------------------------------------------------------------------------
(* The rule, by its name here and there.                                   *)
LEMMA TableAssumed == Table!RowsAssumption
BY PollingAssumption
   DEF Table!RowsAssumption, Outcomes, Checks, SettleableOutcomes, Table!SettleableOutcomes,
       NoOutcome, Table!NoOutcome

(* A finite set is the same there and here.                                *)
LEMMA SameFinite == \A S : Table!IsFiniteSet(S) <=> IsFiniteSet(S)
BY DEF Table!IsFiniteSet, IsFiniteSet

(* The rule that SettlementProofs is about is the rule of this module.     *)
LEMMA SameRule ==
  /\ Table!Latest(rows) = Latest(rows)
  /\ Table!Governing(rows) = Governing(rows)
  /\ \A r : Table!Evidence(r) = Evidence(r) /\ Table!Start(r) = Start(r) /\ Table!End(r) = End(r)
<1>1. \A r : Table!Evidence(r) = Evidence(r) /\ Table!Start(r) = Start(r) /\ Table!End(r) = End(r)
  BY DEF Table!Evidence, Evidence, Table!Start, Start, Table!End, End, Table!NoTime, NoTime
<1>2. Table!Latest(rows) = Latest(rows)
  BY DEF Table!Latest, Latest, Table!End, End
<1>3. Table!Governing(rows) = Governing(rows)
  BY DEF Table!Governing, Governing, Table!LowestId, LowestId, Table!Youngest, Youngest,
         Table!Latest, Latest, Table!Evidence, Evidence, Table!Start, Start, Table!End, End,
         Table!NoTime, NoTime
<1> QED
  BY <1>1, <1>2, <1>3

(* What an unambiguous table is settled on.                                *)
LEMMA SettlingRow ==
  ASSUME IInv, PendingReason(rows) = "NONE"
  PROVE  /\ Governing(rows) \in rows
         /\ Governing(rows).check = "CONFIRMED"
         /\ \A r \in rows : Evidence(r) # Evidence(Governing(rows)) => ~(End(r) >= Start(Governing(rows)))
<1> DEFINE g == Governing(rows)
<1> HIDE DEF g
<1>1. rows # {} /\ ~Ambiguous(rows)
  BY DEF PendingReason
<1>2. \A r, q \in Latest(rows) : Evidence(r) = Evidence(q)
  BY <1>1 DEF Ambiguous
<1>3. g \in Latest(rows)
  <2>1. \A r, q \in Table!Latest(rows) : Table!Evidence(r) = Table!Evidence(q)
    BY <1>2, SameRule
  <2>2. Table!Governing(rows) \in Table!Latest(rows)
    BY <1>1, <2>1, TableAssumed, Table!GoverningRow DEF IInv
  <2> QED
    BY <2>2, SameRule DEF g
<1>4. g.check = "CONFIRMED"
  <2>1. PendingReason(rows) =
          CASE g.status # "resolved" -> "AWAITING_RESOLUTION"
            [] g.status = "resolved" /\ g.check = "UNCHECKED" -> "AWAITING_CONFIRMATION"
            [] g.status = "resolved" /\ g.check = "CONFIRMED" /\ g.outcome \in SettleableOutcomes
                 -> "NONE"
            [] OTHER -> "UNSETTLEABLE"
    BY <1>1 DEF PendingReason, g
  <2> QED
    BY <2>1
<1> QED
  BY <1>1, <1>3, <1>4 DEF g, Latest, Ambiguous

(* reconcile_outcome confirms only a ruling that the price repeats.        *)
LEMMA ReconcileIs ==
  ASSUME NEW outcome \in Outcomes, NEW prices \in PriceReadings
  PROVE  /\ Reconcile(outcome, prices)[1] \in Outcomes
         /\ Reconcile(outcome, prices)[2] \in Checks
         /\ Reconcile(outcome, prices)[2] = "CONFIRMED" =>
              /\ Reconcile(outcome, prices)[1] = outcome
              /\ outcome = prices /\ outcome \in SettleableOutcomes
BY DEF Reconcile, Outcomes, PriceReadings, SettleableOutcomes, Checks, NoOutcome

-----------------------------------------------------------------------------
(* What the observations are made of.                                      *)
LEMMA ObservationsTyped ==
  ASSUME TypeOK, NEW x \in Observations
  PROVE  /\ x.requested \in Nat /\ x.fetched \in Nat /\ x.gamma \in Int
         /\ x.ruledIn \in Nat /\ x.pricedIn \in Nat
BY DEF TypeOK, Observations, Poll, Row, NoTime

(* Polls are observations.                                                 *)
LEMMA PollsTyped ==
  ASSUME TypeOK, NEW w \in Pollers
  PROVE  poll[w] \in Poll /\ poll[w] \in Observations
BY DEF TypeOK, Observations

LEMMA EraIsNat ==
  ASSUME TypeOK
  PROVE  Era \in Nat
BY DEF TypeOK, Era

(* What has shown nothing precedes everything, and what was requested at   *)
(* the beginning of time follows everything.                               *)
LEMMA NothingShown ==
  ASSUME NEW x, NEW y, x.ruledIn = NoEra, x.pricedIn = NoEra,
         y.ruledIn \in Nat, y.pricedIn \in Nat
  PROVE  Succeeds(y, x) /\ (y.sentIn \in Nat => WaitsFrom(y, x))
BY DEF Succeeds, WaitsFrom, ShowsFrom, NoEra

(* What was requested at time zero follows everything.                     *)
LEMMA RequestedAtZero ==
  ASSUME NEW x, NEW y, y.requested = 0, x.fetched \in Nat
  PROVE  Succeeds(y, x) /\ WaitsFrom(y, x)
BY DEF Succeeds, WaitsFrom

(* Order survives when every new observation fits in.                      *)
LEMMA OrderedStep ==
  ASSUME Ordered, NEW N,
         Observations' \subseteq Observations \cup N,
         \A n \in N : \A x \in Observations \cup N : Succeeds(n, x) /\ Succeeds(x, n),
         \A v \in Pollers : \A x \in Observations \cup N : WaitsFrom(poll'[v], x)
  PROVE  Ordered'
<1>1. \A x, y \in Observations' : Succeeds(y, x)
  BY DEF Ordered
<1>2. \A x \in Observations', v \in Pollers : WaitsFrom(poll'[v], x)
  OBVIOUS
<1> QED
  BY <1>1, <1>2 DEF Ordered

(* A step of poll w that leaves the table alone.                           *)
LEMMA PollTurn ==
  ASSUME IInv, NEW w \in Pollers, NEW n \in Poll, poll' = [poll EXCEPT ![w] = n],
         UNCHANGED <<clock, history, rows, paid>>, currentRules' = currentRules \/ currentRules' \in Nat,
         n.sentIn <= Era /\ n.ruledIn <= Era /\ n.pricedIn <= Era /\ n.requested <= clock,
         n.pc \in {"gamma", "store"} => n.requested <= n.fetched /\ n.fetched <= clock,
         n.pc = "store" => n.fetched <= n.gamma /\ n.gamma <= clock,
         \A x \in Observations \cup {n} : Succeeds(n, x) /\ Succeeds(x, n) /\ WaitsFrom(n, x),
         \A v \in Pollers : WaitsFrom(poll[v], n)
  PROVE  IInv'
<1>1. TypeOK /\ Past /\ Ordered
  BY DEF IInv
<1>2. TypeOK'
  BY <1>1 DEF TypeOK
<1>3. poll'[w] = n /\ \A v \in Pollers \ {w} : poll'[v] = poll[v]
  BY <1>1 DEF TypeOK
<1>4. Past'
  BY <1>1, <1>3 DEF Past, Era
<1>5. Ordered'
  <2>1. Observations' \subseteq Observations \cup {n}
    BY <1>3 DEF Observations
  <2>2. \A v \in Pollers : \A x \in Observations \cup {n} : WaitsFrom(poll'[v], x)
    BY <1>1, <1>3 DEF Ordered
  <2>3. \A m \in {n} : \A x \in Observations \cup {n} : Succeeds(m, x) /\ Succeeds(x, m)
    OBVIOUS
  <2> QED
    BY <1>1, <2>1, <2>2, <2>3, OrderedStep
<1>6. Table!RowsSound' /\ Counted' /\ RowsTrue' /\ PaidOnRows'
  BY DEF IInv, Table!RowsSound, Table!HasExtremes, Table!Timed, Counted, RowsTrue, PaidOnRows
<1> QED
  BY <1>2, <1>4, <1>5, <1>6 DEF IInv

(* A poll that has just begun knows nothing, and its request comes after   *)
(* everything that was seen.                                               *)
LEMMA RequestKeeps ==
  ASSUME IInv, NEW w \in Pollers, Request(w)
  PROVE  IInv'
<1> DEFINE n == [NoPoll EXCEPT !.pc = "resolution", !.sentIn = Era, !.requested = clock]
<1>1. TypeOK /\ Past /\ Ordered /\ Era \in Nat /\ clock \in Nat
  BY EraIsNat DEF IInv, TypeOK
<1>2. /\ n \in Poll /\ n.pc = "resolution" /\ n.sentIn = Era /\ n.requested = clock
      /\ n.ruledIn = NoEra /\ n.pricedIn = NoEra /\ n.fetched = 0 /\ n.gamma = 0
  BY <1>1 DEF NoPoll, Poll, NoEra
<1>3. UNCHANGED <<clock, history, rows, currentRules, paid>> /\ poll' = [poll EXCEPT ![w] = n]
  BY DEF Request
<1> HIDE DEF n
<1>4. \A x \in Observations : x.ruledIn <= Era /\ x.pricedIn <= Era
  BY <1>1 DEF Past, Observations, TypeOK, Row
<1>5. ASSUME NEW x \in Observations \cup {n}
      PROVE  Succeeds(n, x) /\ Succeeds(x, n) /\ WaitsFrom(n, x)
  <2>1. x.ruledIn \in Nat /\ x.pricedIn \in Nat /\ x.ruledIn <= Era /\ x.pricedIn <= Era
    BY <1>1, <1>2, <1>4, ObservationsTyped DEF NoEra
  <2>2. Succeeds(x, n)
    BY <1>2, <2>1, NothingShown
  <2>3. Succeeds(n, x) /\ WaitsFrom(n, x)
    BY <1>2, <2>1 DEF Succeeds, WaitsFrom, ShowsFrom
  <2> QED
    BY <2>2, <2>3
<1>6. \A v \in Pollers : WaitsFrom(poll[v], n)
  BY <1>1, <1>2, PollsTyped, NothingShown DEF Poll
<1>7. n.sentIn <= Era /\ n.ruledIn <= Era /\ n.pricedIn <= Era /\ n.requested <= clock
  BY <1>1, <1>2 DEF NoEra
<1> QED
  BY <1>2, <1>3, <1>5, <1>6, <1>7, PollTurn

(* An answer shows an era since its request left, and comes before all     *)
(* that is yet to be requested.                                            *)
LEMMA ReceiveResolutionKeeps ==
  ASSUME IInv, NEW w \in Pollers, ReceiveResolution(w)
  PROVE  IInv'
<1>1. TypeOK /\ Past /\ Ordered /\ Era \in Nat /\ clock \in Nat
  BY EraIsNat DEF IInv, TypeOK
<1> DEFINE p == poll[w]
<1>2. PICK e \in {NoEra} \cup p.sentIn .. Era :
        poll' = [poll EXCEPT ![w].pc = "gamma", ![w].sentIn = Era, ![w].fetched = clock, ![w].ruledIn = e]
  BY DEF ReceiveResolution, Seen
<1> DEFINE n == [p EXCEPT !.pc = "gamma", !.sentIn = Era, !.fetched = clock, !.ruledIn = e]
<1>3. p \in Poll /\ p \in Observations /\ p.pc = "resolution"
  BY <1>1, PollsTyped DEF ReceiveResolution
<1>4. e \in Nat /\ e <= Era
  BY <1>1, <1>2, <1>3 DEF Poll, NoEra
<1>5. /\ n \in Poll /\ n.pc = "gamma" /\ n.sentIn = Era /\ n.fetched = clock /\ n.ruledIn = e
      /\ n.requested = p.requested /\ n.gamma = p.gamma /\ n.pricedIn = p.pricedIn
  BY <1>1, <1>3, <1>4 DEF Poll
<1>6. poll' = [poll EXCEPT ![w] = n] /\ UNCHANGED <<clock, history, rows, currentRules, paid>>
  BY <1>1, <1>2 DEF ReceiveResolution, TypeOK
<1> HIDE DEF p, n
<1>7. \A x \in Observations : x.requested <= clock /\ x.ruledIn <= Era /\ x.pricedIn <= Era
  BY <1>1 DEF Past, Observations, TypeOK, Row
<1>8. ASSUME NEW x \in Observations \cup {n}
      PROVE  Succeeds(n, x) /\ Succeeds(x, n) /\ WaitsFrom(n, x)
  <2>1. /\ x.requested \in Nat /\ x.fetched \in Nat /\ x.gamma \in Int
        /\ x.ruledIn \in Nat /\ x.pricedIn \in Nat
        /\ x.requested <= clock /\ x.ruledIn <= Era /\ x.pricedIn <= Era
    <3>1. CASE x = n
      BY <1>1, <1>3, <1>4, <1>5, <1>7, <3>1, ObservationsTyped
    <3>2. CASE x \in Observations
      BY <1>1, <1>7, <3>2, ObservationsTyped
    <3> QED
      BY <3>1, <3>2
  <2>2. Succeeds(x, n) /\ WaitsFrom(n, x)
    BY <1>1, <1>5, <2>1 DEF Succeeds, WaitsFrom
  <2>3. Succeeds(n, x)
    <3>1. CASE x = n
      BY <2>2, <3>1
    <3>2. CASE x \in Observations
      <4>1. Succeeds(p, x) /\ WaitsFrom(p, x)
        BY <1>1, <1>3, <3>2 DEF Ordered, p
      <4>2. e # NoEra => p.sentIn <= e /\ p.sentIn \in Nat
        BY <1>1, <1>2, <1>3, <1>4 DEF Poll, NoEra
      <4> QED
        BY <1>3, <1>4, <1>5, <2>1, <4>1, <4>2 DEF Succeeds, WaitsFrom, ShowsFrom
    <3> QED
      BY <3>1, <3>2
  <2> QED
    BY <2>2, <2>3
<1>9. \A v \in Pollers : WaitsFrom(poll[v], n)
  BY <1>1, <1>5, <1>7, PollsTyped, ObservationsTyped DEF WaitsFrom
<1>10. /\ n.sentIn <= Era /\ n.ruledIn <= Era /\ n.pricedIn <= Era /\ n.requested <= clock
       /\ n.requested <= n.fetched /\ n.fetched <= clock
  BY <1>1, <1>3, <1>4, <1>5, <1>7
<1> QED
  BY <1>5, <1>6, <1>8, <1>9, <1>10, PollTurn

LEMMA ReceiveGammaKeeps ==
  ASSUME IInv, NEW w \in Pollers, ReceiveGamma(w)
  PROVE  IInv'
<1>1. TypeOK /\ Past /\ Ordered /\ Era \in Nat /\ clock \in Nat
  BY EraIsNat DEF IInv, TypeOK
<1> DEFINE p == poll[w]
<1>2. PICK e \in {NoEra} \cup p.sentIn .. Era :
        poll' = [poll EXCEPT ![w].pc = "store", ![w].sentIn = NoEra, ![w].gamma = clock, ![w].pricedIn = e]
  BY DEF ReceiveGamma, Seen
<1> DEFINE n == [p EXCEPT !.pc = "store", !.sentIn = NoEra, !.gamma = clock, !.pricedIn = e]
<1>3. p \in Poll /\ p \in Observations /\ p.pc = "gamma"
  BY <1>1, PollsTyped DEF ReceiveGamma
<1>4. e \in Nat /\ e <= Era
  BY <1>1, <1>2, <1>3 DEF Poll, NoEra
<1>5. /\ n \in Poll /\ n.pc = "store" /\ n.sentIn = NoEra /\ n.fetched = p.fetched /\ n.ruledIn = p.ruledIn
      /\ n.requested = p.requested /\ n.gamma = clock /\ n.pricedIn = e
  BY <1>1, <1>3, <1>4 DEF Poll, NoEra
<1>6. poll' = [poll EXCEPT ![w] = n] /\ UNCHANGED <<clock, history, rows, currentRules, paid>>
  BY <1>1, <1>2 DEF ReceiveGamma, TypeOK
<1>7. p.requested <= p.fetched /\ p.fetched <= clock
  BY <1>1, <1>3 DEF Past
<1> HIDE DEF p, n
<1>8. \A x \in Observations : x.requested <= clock /\ x.ruledIn <= Era /\ x.pricedIn <= Era
  BY <1>1 DEF Past, Observations, TypeOK, Row
<1>9. ASSUME NEW x \in Observations
      PROVE  Succeeds(n, x) /\ Succeeds(x, n) /\ WaitsFrom(n, x)
  <2>1. /\ x.requested \in Nat /\ x.fetched \in Nat /\ x.gamma \in Int
        /\ x.ruledIn \in Nat /\ x.pricedIn \in Nat
        /\ x.requested <= clock /\ x.ruledIn <= Era /\ x.pricedIn <= Era
    BY <1>1, <1>8, ObservationsTyped
  <2>2. WaitsFrom(n, x)
    BY <1>5 DEF WaitsFrom
  <2>3. Succeeds(x, n)
    <3>1. Succeeds(x, p)
      BY <1>1, <1>3 DEF Ordered
    <3> QED
      BY <1>1, <1>5, <2>1, <3>1 DEF Succeeds
  <2>4. Succeeds(n, x)
    <3>1. Succeeds(p, x) /\ WaitsFrom(p, x)
      BY <1>1, <1>3 DEF Ordered, p
    <3>2. e # NoEra => p.sentIn <= e /\ p.sentIn \in Nat
      BY <1>1, <1>2, <1>3, <1>4 DEF Poll, NoEra
    <3> QED
      BY <1>3, <1>4, <1>5, <2>1, <3>1, <3>2 DEF Succeeds, WaitsFrom, ShowsFrom
  <2> QED
    BY <2>2, <2>3, <2>4
<1>10. Succeeds(n, n) /\ WaitsFrom(n, n)
  <2>1. p.requested \in Nat /\ p.fetched \in Nat
    BY <1>3 DEF Poll
  <2> QED
    BY <1>5, <1>7, <2>1 DEF Succeeds, WaitsFrom
<1>11. \A v \in Pollers : WaitsFrom(poll[v], n)
  <2>1. \A v \in Pollers : WaitsFrom(poll[v], p) /\ poll[v].requested <= clock /\ poll[v].requested \in Nat
    BY <1>1, <1>3, <1>8, PollsTyped, ObservationsTyped DEF Ordered
  <2> QED
    BY <1>1, <1>5, <2>1 DEF WaitsFrom
<1>12. /\ n.sentIn <= Era /\ n.ruledIn <= Era /\ n.pricedIn <= Era /\ n.requested <= clock
       /\ n.requested <= n.fetched /\ n.fetched <= clock /\ n.fetched <= n.gamma /\ n.gamma <= clock
  BY <1>1, <1>3, <1>4, <1>5, <1>7, <1>8 DEF NoEra
<1> QED
  BY <1>5, <1>6, <1>9, <1>10, <1>11, <1>12, PollTurn

(* A poll that ends without a row leaves nothing behind.                   *)
LEMMA PollEnds ==
  ASSUME IInv, NEW w \in Pollers, poll' = [poll EXCEPT ![w] = NoPoll],
         UNCHANGED <<clock, history, rows, paid>>, currentRules' = currentRules \/ currentRules' \in Nat
  PROVE  IInv'
<1>1. TypeOK /\ Era \in Nat /\ clock \in Nat
  BY EraIsNat DEF IInv, TypeOK
<1>2. /\ NoPoll \in Poll /\ NoPoll.pc = "idle" /\ NoPoll.sentIn = 0 /\ NoPoll.requested = 0
      /\ NoPoll.ruledIn = 0 /\ NoPoll.pricedIn = 0 /\ NoPoll.fetched = 0
  BY DEF NoPoll, Poll, NoEra
<1>3. ASSUME NEW x \in Observations \cup {NoPoll}
      PROVE  Succeeds(NoPoll, x) /\ Succeeds(x, NoPoll) /\ WaitsFrom(NoPoll, x)
  <2>1. x.fetched \in Nat /\ x.ruledIn \in Nat /\ x.pricedIn \in Nat
    BY <1>1, <1>2, ObservationsTyped
  <2> QED
    BY <1>2, <2>1, NothingShown, RequestedAtZero DEF NoEra
<1>4. \A v \in Pollers : WaitsFrom(poll[v], NoPoll)
  BY <1>1, <1>2, PollsTyped, NothingShown DEF Poll, NoEra
<1>5. NoPoll.sentIn <= Era /\ NoPoll.ruledIn <= Era /\ NoPoll.pricedIn <= Era /\ NoPoll.requested <= clock
  BY <1>1, <1>2
<1>6. NoPoll.pc \notin {"gamma", "store"}
  BY <1>2
<1> QED
  BY <1>2, <1>3, <1>4, <1>5, <1>6, PollTurn

-----------------------------------------------------------------------------
(* The row a poll inserts says what the poll saw.                          *)
LEMMA ObservedIs ==
  ASSUME IInv, NEW w \in Pollers, poll[w].pc = "store", poll[w].ruledIn # NoEra
  PROVE  LET p == poll[w]
             o == Observed(p)
         IN  /\ o \in Row
             /\ o.id = Cardinality(rows) + 1
             /\ o.requested = p.requested /\ o.fetched = p.fetched
             /\ o.ruledIn = p.ruledIn /\ o.pricedIn = p.pricedIn
             /\ o.gamma = IF p.pricedIn = NoEra THEN NoTime ELSE p.gamma
             /\ o.check = "CONFIRMED" =>
                  /\ o.outcome \in SettleableOutcomes
                  /\ o.outcome = history[o.ruledIn].ruling
                  /\ o.pricedIn # NoEra /\ o.outcome = history[o.pricedIn].prices
<1> DEFINE p == poll[w]
           ruling == history[p.ruledIn].ruling
           prices == IF p.pricedIn = NoEra THEN "NONE" ELSE history[p.pricedIn].prices
           judged == Reconcile(ruling, prices)
           o == Observed(p)
<1>1. TypeOK /\ Past /\ p \in Poll /\ Era \in Nat
  BY PollsTyped, EraIsNat DEF IInv
<1>2. p.ruledIn \in 1..Era /\ p.pricedIn \in 0..Era
  BY <1>1 DEF Past, Poll, NoEra
<1>3. \A k \in 1..Era : history[k].ruling \in Outcomes /\ history[k].prices \in PriceReadings
  <2>1. \A k \in 1..Era : history[k] \in Worlds
    BY <1>1 DEF TypeOK, Era
  <2> QED
    BY <2>1, PollingAssumption
<1>4. ruling \in Outcomes /\ prices \in PriceReadings /\ "NONE" \notin SettleableOutcomes
  BY <1>2, <1>3 DEF PriceReadings, NoEra, SettleableOutcomes
<1>5. Cardinality(rows) + 1 \in Nat
  BY SameFinite, FS_CardinalityType DEF IInv, Table!RowsSound
<1>6. o = [id |-> Cardinality(rows) + 1, requested |-> p.requested, fetched |-> p.fetched,
           gamma |-> IF p.pricedIn = NoEra THEN NoTime ELSE p.gamma,
           status |-> IF ruling = NoOutcome THEN "open" ELSE "resolved",
           outcome |-> judged[1], check |-> judged[2],
           ruledIn |-> p.ruledIn, pricedIn |-> p.pricedIn]
  BY DEF Observed
<1>7. judged[1] \in Outcomes /\ judged[2] \in Checks
      /\ (judged[2] = "CONFIRMED" => judged[1] = ruling /\ ruling = prices /\ ruling \in SettleableOutcomes)
  BY <1>4, ReconcileIs
<1> HIDE DEF ruling, judged, o
<1>8. o \in Row
  BY <1>1, <1>5, <1>6, <1>7 DEF Row, Poll, Checks
<1>9. /\ o.id = Cardinality(rows) + 1
      /\ o.requested = p.requested /\ o.fetched = p.fetched
      /\ o.ruledIn = p.ruledIn /\ o.pricedIn = p.pricedIn
      /\ o.gamma = IF p.pricedIn = NoEra THEN NoTime ELSE p.gamma
      /\ o.outcome = judged[1] /\ o.check = judged[2]
  BY <1>6
<1>10. o.check = "CONFIRMED" =>
         /\ o.outcome \in SettleableOutcomes
         /\ o.outcome = history[o.ruledIn].ruling
         /\ o.pricedIn # NoEra /\ o.outcome = history[o.pricedIn].prices
  BY <1>4, <1>7, <1>9 DEF ruling
<1> QED
  BY <1>8, <1>9, <1>10 DEF o

(* One more row keeps the table sound.                                     *)
LEMMA RowsGrow ==
  ASSUME Table!RowsSound, Counted, rows \subseteq Row, NEW o \in Row, o.id = Cardinality(rows) + 1,
         o.requested <= o.fetched, rows' = rows \cup {o}
  PROVE  Table!RowsSound' /\ Counted' /\ \A r \in rows : r.id < o.id
<1>1. IsFiniteSet(rows) /\ Cardinality(rows) \in Nat
  BY SameFinite, FS_CardinalityType DEF Table!RowsSound
<1>2. \A r \in rows : r.id < o.id /\ r.id \in Nat
  BY <1>1 DEF Counted, Row
<1>3. o \notin rows
  BY <1>2
<1>4. IsFiniteSet(rows') /\ Cardinality(rows') = Cardinality(rows) + 1
  BY <1>1, <1>3, FS_AddElement
<1>5. Counted'
  BY <1>1, <1>2, <1>4 DEF Counted
<1>6. Table!Timed(o)
  BY DEF Table!Timed, Table!Start, Table!End, Table!NoTime, NoTime, Row
<1>7. \A r \in rows : Table!Timed(r)
  BY DEF Table!RowsSound
<1>8. \A S \in SUBSET rows : S # {} => Table!HasExtremes(S)
  BY DEF Table!RowsSound
<1>9. \A S \in SUBSET (rows \cup {o}) : S # {} => Table!HasExtremes(S)
  BY <1>6, <1>7, <1>8, TableAssumed, Table!OneMoreRow
<1>10. Table!RowsSound'
  BY <1>4, <1>6, <1>7, <1>9, SameFinite DEF Table!RowsSound, Table!HasExtremes, Table!Timed
<1> QED
  BY <1>2, <1>5, <1>10

(* A row that is stored observes what its poll has seen, and follows as    *)
(* its poll did.                                                           *)
LEMMA StoreKeeps ==
  ASSUME IInv, NEW w \in Pollers, Store(w)
  PROVE  IInv'
<1> DEFINE p == poll[w]
           o == Observed(p)
<1>1. TypeOK /\ Past /\ Ordered /\ p \in Poll /\ p \in Observations /\ p.pc = "store"
  BY PollsTyped DEF IInv, Store
<1>2. UNCHANGED <<clock, history, paid>> /\ poll' = [poll EXCEPT ![w] = NoPoll]
      /\ rows' = IF p.ruledIn = NoEra THEN rows ELSE rows \cup {o}
  BY DEF Store
<1>3. currentRules' \in Nat
  BY <1>1 DEF Store, TypeOK, Poll
<1>4. CASE p.ruledIn = NoEra
  BY <1>2, <1>3, <1>4, PollEnds
<1>5. CASE p.ruledIn # NoEra
  <2>1. /\ o \in Row /\ o.id = Cardinality(rows) + 1
        /\ o.requested = p.requested /\ o.fetched = p.fetched
        /\ o.ruledIn = p.ruledIn /\ o.pricedIn = p.pricedIn
        /\ o.gamma = IF p.pricedIn = NoEra THEN NoTime ELSE p.gamma
        /\ o.check = "CONFIRMED" =>
             /\ o.outcome \in SettleableOutcomes
             /\ o.outcome = history[o.ruledIn].ruling
             /\ o.pricedIn # NoEra /\ o.outcome = history[o.pricedIn].prices
    BY <1>1, <1>5, ObservedIs
  <2> HIDE DEF o
  <2>2. rows' = rows \cup {o}
    BY <1>2, <1>5
  <2>3. /\ p.requested \in Nat /\ p.fetched \in Nat /\ p.gamma \in Nat /\ p.ruledIn \in Nat /\ p.pricedIn \in Nat
        /\ p.requested <= p.fetched /\ p.fetched <= p.gamma /\ p.gamma <= clock
        /\ p.ruledIn <= Era /\ p.pricedIn <= Era /\ Era \in Nat /\ clock \in Nat
    BY <1>1, EraIsNat DEF Past, Poll, TypeOK
  <2>4. Table!RowsSound' /\ Counted' /\ \A r \in rows : r.id < o.id
    BY <1>1, <2>1, <2>2, <2>3, RowsGrow DEF IInv, TypeOK
  <2>5. NoPoll \in Poll /\ NoPoll.pc = "idle"
    BY DEF NoPoll, Poll, NoEra
  <2>6. TypeOK'
    <3>1. poll' \in [Pollers -> Poll] /\ rows' \subseteq Row
      BY <1>1, <1>2, <2>1, <2>2, <2>5 DEF TypeOK
    <3>2. \A r, q \in rows' : r.id = q.id => r = q
      BY <1>1, <2>1, <2>2, <2>4 DEF TypeOK, Row
    <3>3. \A r \in rows' : r.requested <= r.fetched /\ (r.gamma = NoTime \/ r.fetched <= r.gamma)
      BY <1>1, <2>1, <2>2, <2>3 DEF TypeOK
    <3>4. \A t \in Tickets : paid'[t] = Unpaid \/ paid'[t] \in rows'
      BY <1>1, <1>2, <2>2 DEF TypeOK
    <3> QED
      BY <1>1, <1>2, <1>3, <3>1, <3>2, <3>3, <3>4 DEF TypeOK
  <2>7. poll'[w] = NoPoll /\ \A v \in Pollers \ {w} : poll'[v] = poll[v]
    BY <1>1, <1>2 DEF TypeOK
  <2>8. Past'
    <3>1. NoPoll.sentIn = 0 /\ NoPoll.ruledIn = 0 /\ NoPoll.pricedIn = 0 /\ NoPoll.requested = 0
      BY DEF NoPoll, NoEra
    <3>2. \A r \in rows' : r.requested <= clock' /\ r.ruledIn \in 1..Era' /\ r.pricedIn <= Era'
      BY <1>1, <1>2, <1>5, <2>1, <2>2, <2>3 DEF Past, Era, NoEra
    <3>3. ASSUME NEW v \in Pollers
          PROVE  /\ poll'[v].sentIn <= Era' /\ poll'[v].ruledIn <= Era' /\ poll'[v].pricedIn <= Era'
                 /\ poll'[v].requested <= clock'
                 /\ poll'[v].pc \in {"gamma", "store"} =>
                      poll'[v].requested <= poll'[v].fetched /\ poll'[v].fetched <= clock'
                 /\ poll'[v].pc = "store" => poll'[v].fetched <= poll'[v].gamma /\ poll'[v].gamma <= clock'
      <4>1. CASE v = w
        BY <1>2, <2>3, <2>5, <2>7, <3>1, <4>1 DEF Era
      <4>2. CASE v # w
        BY <1>1, <1>2, <2>7, <4>2 DEF Past, Era
      <4> QED
        BY <4>1, <4>2
    <3> QED
      BY <3>2, <3>3 DEF Past
  <2>9. Ordered'
    <3> DEFINE N == {NoPoll, o}
    <3>1. NoPoll.requested = 0 /\ NoPoll.ruledIn = NoEra /\ NoPoll.pricedIn = NoEra /\ NoPoll.fetched = 0
      BY DEF NoPoll, NoEra
    <3>2. \A x \in Observations \cup N : x.fetched \in Nat /\ x.ruledIn \in Nat /\ x.pricedIn \in Nat
      BY <1>1, <2>1, <2>3, <3>1, ObservationsTyped DEF NoEra
    <3>3. \A x \in Observations \cup N : Succeeds(NoPoll, x) /\ Succeeds(x, NoPoll) /\ WaitsFrom(NoPoll, x)
      BY <3>1, <3>2, NothingShown, RequestedAtZero
    <3>4. ASSUME NEW x \in Observations
          PROVE  Succeeds(o, x) /\ Succeeds(x, o)
      <4>1. Succeeds(p, x) /\ Succeeds(x, p)
        BY <1>1 DEF Ordered
      <4>2. Succeeds(o, x)
        BY <2>1, <4>1 DEF Succeeds, ShowsFrom
      <4>3. Succeeds(x, o)
        BY <2>1, <3>2, <4>1 DEF Succeeds, ShowsFrom, NoEra
      <4> QED
        BY <4>2, <4>3
    <3>5. Succeeds(o, o)
      BY <2>1, <2>3 DEF Succeeds
    <3>6. \A n \in N : \A x \in Observations \cup N : Succeeds(n, x) /\ Succeeds(x, n)
      BY <3>3, <3>4, <3>5
    <3>7. ASSUME NEW v \in Pollers, NEW x \in Observations \cup N
          PROVE  WaitsFrom(poll'[v], x)
      <4>1. CASE v = w
        BY <2>7, <3>3, <4>1
      <4>2. CASE v # w /\ x = NoPoll
        BY <1>1, <2>7, <3>1, <4>2, PollsTyped, NothingShown DEF Poll
      <4>3. CASE v # w /\ x \in Observations
        BY <1>1, <2>7, <4>3 DEF Ordered
      <4>4. CASE v # w /\ x = o
        <5>1. WaitsFrom(poll[v], p) /\ poll[v].sentIn \in Nat
          BY <1>1, PollsTyped DEF Ordered, Poll
        <5> QED
          BY <2>1, <2>3, <2>7, <4>4, <5>1 DEF WaitsFrom, NoEra
      <4> QED
        BY <4>1, <4>2, <4>3, <4>4
    <3>8. Observations' \subseteq Observations \cup N
      BY <2>2, <2>7 DEF Observations
    <3> HIDE DEF N
    <3> QED
      BY <1>1, <3>6, <3>7, <3>8, OrderedStep
  <2>10. RowsTrue'
    BY <1>2, <2>1, <2>2 DEF IInv, RowsTrue
  <2>11. PaidOnRows'
    BY <1>2, <2>2 DEF IInv, PaidOnRows
  <2> QED
    BY <2>4, <2>6, <2>8, <2>9, <2>10, <2>11 DEF IInv
<1> QED
  BY <1>4, <1>5

-----------------------------------------------------------------------------
(* Settlement, and the surroundings.                                       *)
LEMMA SettleKeeps ==
  ASSUME IInv, NEW t \in Tickets, Settle(t)
  PROVE  IInv'
<1> DEFINE g == Governing(rows)
<1>1. g \in rows /\ g.check = "CONFIRMED"
  BY SettlingRow DEF Settle
<1>2. UNCHANGED <<clock, history, poll, rows, currentRules>> /\ paid' = [paid EXCEPT ![t] = g]
  BY DEF Settle
<1> HIDE DEF g
<1>3. TypeOK /\ PaidOnRows /\ rows \subseteq Row
  BY DEF IInv, TypeOK
<1>4. PaidOnRows'
  BY <1>1, <1>2, <1>3 DEF PaidOnRows
<1>5. TypeOK'
  BY <1>2, <1>3, <1>4 DEF TypeOK, PaidOnRows
<1>6. Table!RowsSound' /\ Counted' /\ RowsTrue' /\ Past' /\ Ordered'
  BY <1>2 DEF IInv, Table!RowsSound, Table!HasExtremes, Table!Timed, Counted, RowsTrue, Past, Era,
              Ordered, Observations
<1> QED
  BY <1>4, <1>5, <1>6 DEF IInv

(* The world may change and time may pass between any two steps.           *)
LEMMA SurroundingsKeep ==
  ASSUME IInv, WorldChanges \/ Tick
  PROVE  IInv'
<1>1. TypeOK /\ Era \in Nat /\ clock \in Nat /\ history \in Seq(Worlds)
  BY EraIsNat DEF IInv, TypeOK
<1>2. UNCHANGED <<poll, rows, currentRules, paid>>
  BY DEF WorldChanges, Tick
<1>3. /\ clock' \in Nat /\ clock <= clock'
      /\ history' \in Seq(Worlds) /\ Era' \in Nat /\ Era <= Era'
      /\ \A k \in 1..Era : history'[k] = history[k]
  BY <1>1 DEF WorldChanges, Tick, Era
<1>4. TypeOK'
  BY <1>1, <1>2, <1>3 DEF TypeOK
<1>5. Past'
  <2>1. \A w \in Pollers : poll[w] \in Poll
    BY <1>1 DEF TypeOK
  <2>2. \A r \in rows : r \in Row
    BY <1>1 DEF TypeOK
  <2> QED
    BY <1>1, <1>2, <1>3, <2>1, <2>2, SMTT(30) DEF IInv, Past, Poll, Row
<1>6. RowsTrue'
  <2>1. \A r \in rows : r.ruledIn \in 1..Era /\ (r.pricedIn # NoEra => r.pricedIn \in 1..Era)
    BY <1>1 DEF IInv, Past, TypeOK, Row, NoEra
  <2> QED
    BY <1>2, <1>3, <2>1 DEF IInv, RowsTrue
<1>7. Table!RowsSound' /\ Counted' /\ Ordered' /\ PaidOnRows'
  BY <1>2 DEF IInv, Table!RowsSound, Table!HasExtremes, Table!Timed, Counted, Ordered, Observations, PaidOnRows
<1> QED
  BY <1>4, <1>5, <1>6, <1>7 DEF IInv

(* Everything above, for every step.                                       *)
THEOREM PollingInvariant == Spec => []IInv
<1>1. Init => IInv
  <2> SUFFICES ASSUME Init PROVE IInv
    OBVIOUS
  <2>1. PICK present \in Worlds : history = <<present>>
    BY DEF Init
  <2>2. history \in Seq(Worlds) /\ Era = 1
    BY <2>1 DEF Era
  <2>3. /\ NoPoll \in Poll /\ NoPoll.pc = "idle" /\ NoPoll.sentIn = 0 /\ NoPoll.requested = 0
        /\ NoPoll.ruledIn = 0 /\ NoPoll.pricedIn = 0 /\ NoPoll.fetched = 0
    BY DEF NoPoll, Poll, NoEra
  <2>4. \A w \in Pollers : poll[w] = NoPoll
    BY DEF Init
  <2>5. TypeOK
    BY <2>2, <2>3 DEF Init, TypeOK
  <2>6. Table!RowsSound /\ Counted
    BY FS_EmptySet, SameFinite DEF Init, Table!RowsSound, Counted
  <2>7. Past
    BY <2>2, <2>3, <2>4 DEF Init, Past
  <2>8. Ordered
    BY <2>3, <2>4, RequestedAtZero DEF Init, Ordered, Observations
  <2>9. RowsTrue /\ PaidOnRows
    BY DEF Init, RowsTrue, PaidOnRows
  <2> QED
    BY <2>5, <2>6, <2>7, <2>8, <2>9 DEF IInv
<1>2. ASSUME IInv, [Next]_vars
      PROVE  IInv'
  <2>1. CASE UNCHANGED vars
    BY <1>2, <2>1 DEF vars, IInv, TypeOK, Table!RowsSound, Table!HasExtremes, Table!Timed, Counted, Past, Era,
                      Ordered, Observations, RowsTrue, PaidOnRows
  <2>2. ASSUME NEW w \in Pollers, Abort(w)
        PROVE  IInv'
    BY <1>2, <2>2, PollEnds DEF Abort
  <2> QED
    BY <1>2, <2>1, <2>2, RequestKeeps, ReceiveResolutionKeeps, ReceiveGammaKeeps, StoreKeeps,
       SettleKeeps, SurroundingsKeep DEF Next, PollStep
<1> QED
  BY <1>1, <1>2, PTL DEF Spec

(* Money only follows a ruling that both services showed in one poll: the  *)
(* outcome served, and Gamma's exact price for it.                         *)
THEOREM PaysConfirmed == Spec => []PaysConfirmedOutcomes
<1>1. IInv => PaysConfirmedOutcomes
  <2> SUFFICES ASSUME IInv, NEW t \in Tickets, paid[t] # Unpaid
               PROVE  /\ paid[t].outcome = history[paid[t].ruledIn].ruling
                      /\ paid[t].outcome \in SettleableOutcomes
                      /\ paid[t].pricedIn # NoEra
                      /\ paid[t].outcome = history[paid[t].pricedIn].prices
    BY DEF IInv, PaysConfirmedOutcomes
  <2> QED
    BY DEF IInv, PaidOnRows, RowsTrue
<1> QED
  BY <1>1, PollingInvariant, PTL

(* A ticket is settled on the newest evidence: no recorded row that says   *)
(* otherwise looked at either service later (settlement.py line 88).       *)
THEOREM SettlesOnNewest == Spec => SettlesOnNewestEvidence
<1>1. ASSUME IInv, [Next]_vars, NEW t \in Tickets, paid'[t] # paid[t],
             NEW r \in rows, Evidence(r) # Evidence(paid'[t])
      PROVE  r.ruledIn <= paid'[t].ruledIn /\ r.pricedIn <= paid'[t].pricedIn
  <2> DEFINE g == Governing(rows)
  <2>1. TypeOK /\ Past /\ Ordered /\ RowsTrue /\ PaidOnRows
    BY <1>1 DEF IInv
  <2>2. Settle(t)
    <3>1. paid' # paid
      BY <1>1
    <3>2. PICK s \in Tickets : Settle(s)
      BY <1>1, <3>1 DEF Next, PollStep, Request, ReceiveResolution, ReceiveGamma, Store, Abort,
                        WorldChanges, Tick, vars
    <3>3. s = t
      BY <1>1, <2>1, <3>2 DEF Settle, PaidOnRows
    <3> QED
      BY <3>2, <3>3
  <2>3. /\ paid'[t] = g /\ g \in rows /\ g.check = "CONFIRMED"
        /\ \A q \in rows : Evidence(q) # Evidence(g) => ~(End(q) >= Start(g))
    BY <1>1, <2>1, <2>2, SettlingRow DEF Settle, PaidOnRows
  <2> HIDE DEF g
  <2>4. ~(End(r) >= Start(g))
    BY <1>1, <2>3
  <2>5. r \in Row /\ g \in Row /\ r \in Observations /\ g \in Observations
    BY <2>1, <2>3 DEF TypeOK, Observations
  <2>6. r.fetched < g.requested /\ r.gamma < g.requested
    BY <2>4, <2>5 DEF End, Start, Row, NoTime
  <2>7. ShowsFrom(g, r.ruledIn) /\ ShowsFrom(g, r.pricedIn)
    BY <2>1, <2>5, <2>6 DEF Ordered, Succeeds
  <2>8. g.ruledIn # NoEra /\ g.pricedIn # NoEra
    BY <2>1, <2>3 DEF Past, RowsTrue, NoEra
  <2> QED
    BY <2>3, <2>7, <2>8 DEF ShowsFrom
<1>2. IInv /\ [Next]_vars =>
        [\A t \in Tickets :
           paid'[t] # paid[t] =>
             \A r \in rows : Evidence(r) # Evidence(paid'[t]) =>
                r.ruledIn <= paid'[t].ruledIn /\ r.pricedIn <= paid'[t].pricedIn]_vars
  BY <1>1
<1> QED
  BY <1>2, PollingInvariant, PTL DEF Spec, SettlesOnNewestEvidence
=============================================================================
