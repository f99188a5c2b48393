-------------------------- MODULE ResolutionPolling --------------------------
(***************************************************************************)
(* Resolution polling and settlement of one market (collect.py             *)
(* poll_resolutions, settlement.py settle_open_tickets).  Polls are        *)
(* unlocked invocations that overlap freely: each asks the resolution      *)
(* service, then Gamma, and inserts one row in a transaction of its own,   *)
(* so rows may be inserted in another order than their evidence was        *)
(* gathered.  Settlement reads the rows inside its transaction.            *)
(*                                                                         *)
(* The services answer with what was true at some moment between request   *)
(* and response; a poll may also fail anywhere and insert nothing.  The    *)
(* clock is coarser than the order of events: many steps share one         *)
(* reading.  The eras of the world, numbered in "history", are the order   *)
(* the clock does not show.  The market is one because a poll treats each  *)
(* market of its batch alike, and a ticket reads its own market's rows.    *)
(*                                                                         *)
(* Abstracted: of the statuses served, only "resolved" is told from the    *)
(* rest; the rules text Gamma serves is the number of the era.             *)
(***************************************************************************)
EXTENDS Settlement, FiniteSets, Sequences

CONSTANTS
  Pollers,      \* concurrent resolve invocations
  Tickets,      \* open paper tickets on the market
  Worlds,       \* what the two services may serve together
  MaxTime,      \* bound: the clock stops here
  MaxRows,      \* bound: observations recorded
  MaxEras       \* bound: states of the world

PriceReadings == SettleableOutcomes \cup {"LEAN_YES", "LEAN_NO", "NONE"}
Outcomes      == SettleableOutcomes \cup {NoOutcome, "UNKNOWN"}
Unresolved    == [ruling |-> NoOutcome, prices |-> "NONE"]

ASSUME PollingAssumption ==
  /\ Worlds \subseteq [ruling : Outcomes, prices : PriceReadings]
  /\ MaxTime \in Nat /\ MaxRows \in Nat /\ MaxEras \in Nat

VARIABLES
  clock,
  history,       \* the eras of the world so far, the present one last
  poll,          \* the local state of each poll
  rows,          \* resolution_observations of the market
  currentRules,  \* markets.current_rules_hash
  paid           \* per ticket: the row it was settled on, Unpaid while OPEN

vars == <<clock, history, poll, rows, currentRules, paid>>

Era    == Len(history)
NoEra  == 0
Unpaid == [id |-> 0]

(* What a poll holds: where it is, the era its open request left in, its   *)
(* clock readings, and the eras it saw (NoEra: the market was missing).    *)
Poll == [pc : {"idle", "resolution", "gamma", "store"}, sentIn : Nat,
         requested : Nat, fetched : Nat, gamma : Nat, ruledIn : Nat, pricedIn : Nat]
NoPoll == [pc |-> "idle", sentIn |-> NoEra, requested |-> 0, fetched |-> 0, gamma |-> 0,
           ruledIn |-> NoEra, pricedIn |-> NoEra]

Row == [id : Nat, requested : Nat, fetched : Nat, gamma : Nat \cup {NoTime},
        status : {"open", "resolved"}, outcome : Outcomes,
        check : {"NOT_APPLICABLE", "CONFIRMED", "MISMATCH", "UNCHECKED"},
        ruledIn : Nat, pricedIn : Nat]

(* Rows are distinct in their ids, times do not run backwards, and every   *)
(* settled ticket points to a recorded row.                                *)
TypeOK ==
  /\ clock \in Nat
  /\ history \in Seq(Worlds)
  /\ poll \in [Pollers -> Poll]
  /\ rows \subseteq Row
  /\ \A r, q \in rows : r.id = q.id => r = q
  /\ \A r \in rows : r.requested <= r.fetched /\ (r.gamma = NoTime \/ r.fetched <= r.gamma)
  /\ currentRules \in Nat
  /\ \A t \in Tickets : paid[t] = Unpaid \/ paid[t] \in rows

Init ==
  /\ clock = 0
  /\ \E present \in Worlds : history = <<present>>
  /\ poll = [w \in Pollers |-> NoPoll]
  /\ rows = {}
  /\ currentRules = 1
  /\ paid = [t \in Tickets |-> Unpaid]

-----------------------------------------------------------------------------
(* A poll.                                                                 *)

Request(w) ==
  /\ poll[w].pc = "idle"
  /\ Cardinality(rows) < MaxRows
  /\ poll' = [poll EXCEPT ![w] = [NoPoll EXCEPT !.pc = "resolution", !.sentIn = Era,
                                               !.requested = clock]]
  /\ UNCHANGED <<clock, history, rows, currentRules, paid>>

(* What an answer may show: any era since its request left, or nothing     *)
(* about the market.                                                       *)
Seen(w) == {NoEra} \cup poll[w].sentIn .. Era

(* resolution_fetched_at is read, and the Gamma request leaves at once.    *)
ReceiveResolution(w) ==
  /\ poll[w].pc = "resolution"
  /\ \E e \in Seen(w) :
       poll' = [poll EXCEPT ![w].pc = "gamma", ![w].sentIn = Era,
                            ![w].fetched = clock, ![w].ruledIn = e]
  /\ UNCHANGED <<clock, history, rows, currentRules, paid>>

(* gamma_fetched_at is read.                                               *)
ReceiveGamma(w) ==
  /\ poll[w].pc = "gamma"
  /\ \E e \in Seen(w) :
       poll' = [poll EXCEPT ![w].pc = "store", ![w].sentIn = NoEra,
                            ![w].gamma = clock, ![w].pricedIn = e]
  /\ UNCHANGED <<clock, history, rows, currentRules, paid>>

(* The row a poll inserts; a market missing from Gamma has no Gamma time.  *)
Observed(p) ==
  LET ruling == history[p.ruledIn].ruling
      judged == Reconcile(ruling, IF p.pricedIn = NoEra THEN "NONE"
                                                        ELSE history[p.pricedIn].prices)
  IN  [id |-> Cardinality(rows) + 1,
       requested |-> p.requested, fetched |-> p.fetched,
       gamma |-> IF p.pricedIn = NoEra THEN NoTime ELSE p.gamma,
       status |-> IF ruling = NoOutcome THEN "open" ELSE "resolved",
       outcome |-> judged[1], check |-> judged[2],
       ruledIn |-> p.ruledIn, pricedIn |-> p.pricedIn]

(* The transaction: rules from the Gamma answer, unless they cannot be     *)
(* parsed, then the observation.                                           *)
Store(w) ==
  LET p == poll[w] IN
  /\ p.pc = "store"
  /\ currentRules' \in {currentRules} \cup ({p.pricedIn} \ {NoEra})
  /\ rows' = IF p.ruledIn = NoEra THEN rows ELSE rows \cup {Observed(p)}
  /\ poll' = [poll EXCEPT ![w] = NoPoll]
  /\ UNCHANGED <<clock, history, paid>>

(* A failed fetch or a dead process.                                       *)
Abort(w) ==
  /\ poll[w].pc # "idle"
  /\ poll' = [poll EXCEPT ![w] = NoPoll]
  /\ UNCHANGED <<clock, history, rows, currentRules, paid>>

-----------------------------------------------------------------------------
(* Settlement of one ticket: one transaction, which reads the ticket and   *)
(* the rows again.                                                         *)

Settle(t) ==
  /\ paid[t] = Unpaid
  /\ PendingReason(rows) = "NONE"
  /\ paid' = [paid EXCEPT ![t] = Governing(rows)]
  /\ UNCHANGED <<clock, history, poll, rows, currentRules>>

-----------------------------------------------------------------------------
(* The surroundings.                                                       *)

WorldChanges ==
  /\ Era < MaxEras
  /\ \E present \in Worlds : history' = Append(history, present)
  /\ UNCHANGED <<clock, poll, rows, currentRules, paid>>

Tick ==
  /\ clock < MaxTime
  /\ clock' = clock + 1
  /\ UNCHANGED <<history, poll, rows, currentRules, paid>>

PollStep(w) ==
  \/ Request(w) \/ ReceiveResolution(w) \/ ReceiveGamma(w) \/ Store(w) \/ Abort(w)

Next ==
  \/ \E w \in Pollers : PollStep(w)
  \/ \E t \in Tickets : Settle(t)
  \/ WorldChanges
  \/ Tick

Spec == Init /\ [][Next]_vars

-----------------------------------------------------------------------------
(* Properties.                                                             *)

(* When a ticket is settled, no recorded observation that says otherwise   *)
(* looked at either service later than the one it is settled on, however   *)
(* the polls overlapped and in whatever order they were stored.            *)
SettlesOnNewestEvidence ==
  [][\A t \in Tickets :
       paid'[t] # paid[t] =>
         \A r \in rows : Evidence(r) # Evidence(paid'[t]) =>
            r.ruledIn <= paid'[t].ruledIn /\ r.pricedIn <= paid'[t].pricedIn]_vars

(* Money only follows a ruling both services showed in one poll: the       *)
(* outcome the resolution service served, and Gamma's exact price for it.  *)
PaysConfirmedOutcomes ==
  TypeOK /\ \A t \in Tickets :
    paid[t] # Unpaid =>
      /\ paid[t].outcome = history[paid[t].ruledIn].ruling
      /\ paid[t].outcome \in SettleableOutcomes
      /\ paid[t].pricedIn # NoEra
      /\ paid[t].outcome = history[paid[t].pricedIn].prices
=============================================================================
