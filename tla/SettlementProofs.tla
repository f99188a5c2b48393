-------------------------- MODULE SettlementProofs --------------------------
(***************************************************************************)
(* Proofs about the settlement rule, for tables of any size, any clock     *)
(* readings and any evidence.                                              *)
(***************************************************************************)
EXTENDS SettlementRows, FiniteSetTheorems, TLAPS

(* Every selection of rows has one that ended last, one that started last  *)
(* and one with the lowest id: what the CHOOSE of the rule relies on.      *)
HasExtremes(S) ==
  /\ \E r \in S : \A q \in S : End(q) <= End(r)
  /\ \E r \in S : \A q \in S : Start(q) <= Start(r)
  /\ \E r \in S : \A q \in S : r.id <= q.id

(* Evidence is gathered from its start to its end.                         *)
Timed(r) == r.id \in Int /\ Start(r) \in Int /\ End(r) \in Int /\ Start(r) <= End(r)

RowsSound ==
  /\ IsFiniteSet(rows)
  /\ \A r \in rows : Timed(r)
  /\ \A S \in SUBSET rows : S # {} => HasExtremes(S)

-----------------------------------------------------------------------------
(* An inserted row is timed, and extremes survive one more row.            *)
LEMMA InsertedIsTimed ==
  ASSUME NEW i \in Intervals, NEW k \in Int, NEW v
  PROVE  Timed([id |-> k, requested |-> i.requested, fetched |-> i.fetched, gamma |-> i.gamma,
                status |-> v.status, outcome |-> v.outcome, check |-> v.check])
<1> DEFINE r == [id |-> k, requested |-> i.requested, fetched |-> i.fetched, gamma |-> i.gamma,
                 status |-> v.status, outcome |-> v.outcome, check |-> v.check]
<1>1. /\ i.requested \in Int /\ i.fetched \in Int /\ i.gamma \in Int
      /\ i.requested # NoTime => i.requested <= i.fetched
  <2>1. /\ i \in [requested : Times \cup {NoTime}, fetched : Times, gamma : Times \cup {NoTime}]
        /\ i.requested # NoTime => i.requested <= i.fetched
    BY DEF Intervals
  <2>2. Times \cup {NoTime} \subseteq Int /\ Times \subseteq Int
    BY RowsAssumption DEF NoTime
  <2> QED
    BY <2>1, <2>2
<1>2. /\ r.requested = i.requested /\ r.fetched = i.fetched /\ r.gamma = i.gamma /\ r.id = k
  OBVIOUS
<1> HIDE DEF r
<1>3. Timed(r)
  BY <1>1, <1>2 DEF Timed, Start, End
<1> QED
  BY <1>3 DEF r

(* One more row leaves every selection with its extremes.                  *)
LEMMA OneMoreRow ==
  ASSUME NEW R, NEW n, Timed(n), \A r \in R : Timed(r),
         \A S \in SUBSET R : S # {} => HasExtremes(S),
         NEW S \in SUBSET (R \cup {n}), S # {}
  PROVE  HasExtremes(S)
<1> DEFINE T == S \ {n}
<1>1. CASE n \notin S
  BY <1>1
<1>2. CASE n \in S /\ T = {}
  <2>1. S = {n}
    BY <1>2
  <2>2. End(n) <= End(n) /\ Start(n) <= Start(n) /\ n.id <= n.id
    BY DEF Timed
  <2> QED
    BY <2>1, <2>2 DEF HasExtremes
<1>3. CASE n \in S /\ T # {}
  <2>1. T \in SUBSET R /\ HasExtremes(T)
    BY <1>3
  <2>2. \A q \in S : Timed(q)
    BY <2>1
  <2>3. \E r \in S : \A q \in S : End(q) <= End(r)
    <3>1. PICK r \in T : \A q \in T : End(q) <= End(r)
      BY <2>1 DEF HasExtremes
    <3>2. CASE End(n) <= End(r)
      <4>1. \A q \in S : End(q) <= End(r)
        BY <3>1, <3>2
      <4> QED BY <4>1
    <3>3. CASE ~(End(n) <= End(r))
      <4>1. \A q \in S : End(q) <= End(n)
        BY <3>1, <3>3, <2>2, <1>3 DEF Timed
      <4> QED BY <4>1, <1>3
    <3> QED BY <3>2, <3>3
  <2>4. \E r \in S : \A q \in S : Start(q) <= Start(r)
    <3>1. PICK r \in T : \A q \in T : Start(q) <= Start(r)
      BY <2>1 DEF HasExtremes
    <3>2. CASE Start(n) <= Start(r)
      <4>1. \A q \in S : Start(q) <= Start(r)
        BY <3>1, <3>2
      <4> QED BY <4>1
    <3>3. CASE ~(Start(n) <= Start(r))
      <4>1. \A q \in S : Start(q) <= Start(n)
        BY <3>1, <3>3, <2>2, <1>3 DEF Timed
      <4> QED BY <4>1, <1>3
    <3> QED BY <3>2, <3>3
  <2>5. \E r \in S : \A q \in S : r.id <= q.id
    <3>1. PICK r \in T : \A q \in T : r.id <= q.id
      BY <2>1 DEF HasExtremes
    <3>2. CASE r.id <= n.id
      <4>1. \A q \in S : r.id <= q.id
        BY <3>1, <3>2
      <4> QED BY <4>1
    <3>3. CASE ~(r.id <= n.id)
      <4>1. \A q \in S : n.id <= q.id
        BY <3>1, <3>3, <2>2, <1>3 DEF Timed
      <4> QED BY <4>1, <1>3
    <3> QED BY <3>2, <3>3
  <2> QED
    BY <2>3, <2>4, <2>5 DEF HasExtremes
<1> QED
  BY <1>1, <1>2, <1>3

(* The table is finite and its ids are integers, so RowsSound is           *)
(* inductive.                                                              *)
THEOREM RowsStaySound == Spec => []RowsSound
<1>1. Init => RowsSound
  BY FS_EmptySet DEF Init, RowsSound
<1>2. RowsSound /\ [Insert]_rows => RowsSound'
  <2> SUFFICES ASSUME RowsSound, [Insert]_rows
               PROVE  RowsSound'
    OBVIOUS
  <2>1. CASE UNCHANGED rows
    BY <2>1 DEF RowsSound, HasExtremes, Timed
  <2>2. CASE Insert
    <3>1. Cardinality(rows) + 1 \in Int
      BY FS_CardinalityType DEF RowsSound
    <3>2. PICK i \in Intervals, v \in Verdicts :
            rows' = rows \cup {[id |-> Cardinality(rows) + 1, requested |-> i.requested,
                                fetched |-> i.fetched, gamma |-> i.gamma,
                                status |-> v.status, outcome |-> v.outcome, check |-> v.check]}
      BY <2>2 DEF Insert
    <3> DEFINE n == [id |-> Cardinality(rows) + 1, requested |-> i.requested,
                     fetched |-> i.fetched, gamma |-> i.gamma,
                     status |-> v.status, outcome |-> v.outcome, check |-> v.check]
    <3>3. Timed(n)
      BY <3>1, InsertedIsTimed
    <3> HIDE DEF n
    <3>4. rows' = rows \cup {n}
      BY <3>2 DEF n
    <3>5. IsFiniteSet(rows')
      BY <3>4, FS_AddElement DEF RowsSound
    <3>6. \A r \in rows : Timed(r)
      BY DEF RowsSound
    <3>7. \A r \in rows \cup {n} : Timed(r)
      BY <3>3, <3>6
    <3>8. \A S \in SUBSET rows : S # {} => HasExtremes(S)
      BY DEF RowsSound
    <3>9. \A S \in SUBSET (rows \cup {n}) : S # {} => HasExtremes(S)
      BY <3>3, <3>6, <3>8, OneMoreRow
    <3> QED
      BY <3>4, <3>5, <3>7, <3>9 DEF RowsSound
  <2> QED
    BY <2>1, <2>2
<1> QED
  BY <1>1, <1>2, PTL DEF Spec

-----------------------------------------------------------------------------
(* What the choices of the rule return.                                    *)

(* The selections that the rule makes are of rows, and not empty.          *)
LEMMA LatestRows ==
  ASSUME RowsSound, rows # {}
  PROVE  /\ Latest(rows) \in SUBSET rows
         /\ Latest(rows) # {}
  BY DEF RowsSound, HasExtremes, Latest

LEMMA YoungestRows ==
  ASSUME RowsSound, NEW S \in SUBSET rows, S # {}
  PROVE  /\ LowestId(Youngest(S)) \in S
         /\ \A q \in S : Start(q) <= Start(LowestId(Youngest(S)))
<1>1. Youngest(S) \in SUBSET rows /\ Youngest(S) # {}
  BY DEF Youngest, RowsSound, HasExtremes
<1>2. \E r \in Youngest(S) : \A q \in Youngest(S) : r.id <= q.id
  BY <1>1 DEF RowsSound, HasExtremes
<1>3. LowestId(Youngest(S)) \in Youngest(S)
  BY <1>2 DEF LowestId
<1> QED
  BY <1>3 DEF Youngest

(* Rows that ended last and agree: the youngest of them governs.           *)
LEMMA GoverningRow ==
  ASSUME RowsSound, rows # {},
         \A r, q \in Latest(rows) : Evidence(r) = Evidence(q)
  PROVE  /\ Governing(rows) \in Latest(rows)
         /\ \A q \in Latest(rows) : Start(q) <= Start(Governing(rows))
<1>1. Governing(rows) = LowestId(Youngest(Latest(rows)))
  BY DEF Governing
<1> QED
  BY <1>1, LatestRows, YoungestRows

(* A market is settled exactly when the governing row is confirmed and     *)
(* nothing is ambiguous.                                                   *)
LEMMA WhenFinal ==
  ASSUME NEW outcome \in SettleableOutcomes
  PROVE  FinalOutcome(rows) = outcome <=>
           /\ rows # {}
           /\ ~Ambiguous(rows)
           /\ Evidence(Governing(rows)) = <<"resolved", outcome, "CONFIRMED">>
<1> DEFINE g == Governing(rows)
<1> HIDE DEF g
<1>1. outcome # NoOutcome
  BY DEF SettleableOutcomes, NoOutcome
<1>2. CASE rows = {}
  BY <1>1, <1>2 DEF FinalOutcome, PendingReason
<1>3. CASE rows # {} /\ Ambiguous(rows)
  BY <1>1, <1>3 DEF FinalOutcome, PendingReason
<1>4. CASE rows # {} /\ ~Ambiguous(rows)
  <2>1. PendingReason(rows) =
          CASE g.status # "resolved" -> "AWAITING_RESOLUTION"
            [] g.status = "resolved" /\ g.check = "UNCHECKED" -> "AWAITING_CONFIRMATION"
            [] g.status = "resolved" /\ g.check = "CONFIRMED" /\ g.outcome \in SettleableOutcomes
                 -> "NONE"
            [] OTHER -> "UNSETTLEABLE"
    BY <1>4 DEF PendingReason, g
  <2>2. PendingReason(rows) = "NONE" <=>
          g.status = "resolved" /\ g.check = "CONFIRMED" /\ g.outcome \in SettleableOutcomes
    BY <2>1
  <2>3. FinalOutcome(rows) = outcome <=>
          g.status = "resolved" /\ g.check = "CONFIRMED" /\ g.outcome = outcome
    BY <1>1, <2>2 DEF FinalOutcome, g
  <2>4. Evidence(g) = <<g.status, g.outcome, g.check>>
    BY DEF Evidence
  <2> QED
    BY <1>4, <2>3, <2>4 DEF g
<1> QED
  BY <1>2, <1>3, <1>4

(* The rule as the code evaluates it settles a market exactly when the     *)
(* reference statement does, and at the same outcome.                      *)
THEOREM RuleIsSound == Spec => []RuleIsTheReference
<1>1. RowsSound => RuleIsTheReference
  <2> SUFFICES ASSUME RowsSound, NEW outcome \in SettleableOutcomes
               PROVE  FinalOutcome(rows) = outcome <=> SettlesAt(outcome)
    BY DEF RuleIsTheReference
  <2> DEFINE g == Governing(rows)
  <2> DEFINE e == <<"resolved", outcome, "CONFIRMED">>
  <2> HIDE DEF g, e
  <2>1. ASSUME rows # {}, ~Ambiguous(rows), Evidence(g) = e
        PROVE  SettlesAt(outcome)
    <3>1. \A r, q \in Latest(rows) : Evidence(r) = Evidence(q)
      BY <2>1 DEF Ambiguous
    <3>2. g \in Latest(rows) /\ \A q \in Latest(rows) : Start(q) <= Start(g)
      BY <2>1, <3>1, GoverningRow DEF g
    <3>3. g \in rows
      BY <3>2 DEF Latest
    <3>4. ASSUME NEW r \in rows
          PROVE  (Evidence(r) = Evidence(g) /\ NotLater(r, g)) \/ End(r) < Start(g)
      <4>1. Timed(r) /\ Timed(g)
        BY <3>3 DEF RowsSound
      <4>2. CASE Evidence(r) # Evidence(g)
        <5>1. ~(End(r) >= Start(g))
          BY <2>1, <4>2 DEF Ambiguous, g
        <5> QED BY <4>1, <5>1 DEF Timed
      <4>3. CASE Evidence(r) = Evidence(g)
        <5>1. End(r) <= End(g)
          BY <3>2 DEF Latest
        <5>2. End(r) = End(g) => r \in Latest(rows)
          BY <3>2 DEF Latest
        <5> QED
          BY <3>2, <4>1, <4>3, <5>1, <5>2 DEF NotLater, Timed
      <4> QED BY <4>2, <4>3
    <3> QED
      BY <2>1, <3>3, <3>4 DEF SettlesAt, e
  <2>2. ASSUME SettlesAt(outcome)
        PROVE  rows # {} /\ ~Ambiguous(rows) /\ Evidence(g) = e
    <3>1. PICK h \in rows :
            /\ Evidence(h) = e
            /\ \A r \in rows : \/ Evidence(r) = Evidence(h) /\ NotLater(r, h)
                               \/ End(r) < Start(h)
      BY <2>2 DEF SettlesAt, e
    <3>2. \A r \in rows : Timed(r)
      BY DEF RowsSound
    <3>3. \A r \in rows : End(r) <= End(h)
      BY <3>1, <3>2 DEF Timed, NotLater
    <3>4. h \in Latest(rows)
      BY <3>3 DEF Latest
    <3>5. \A r \in Latest(rows) : Evidence(r) = Evidence(h)
      <4>1. \A r \in Latest(rows) : r \in rows /\ End(h) <= End(r)
        BY DEF Latest
      <4> QED BY <3>1, <3>2, <4>1 DEF Timed
    <3>6. g \in Latest(rows) /\ Start(h) <= Start(g)
      BY <3>1, <3>4, <3>5, GoverningRow DEF g
    <3>7. g \in rows /\ Evidence(g) = Evidence(h)
      BY <3>5, <3>6 DEF Latest
    <3>8. \A r \in rows : Evidence(r) # Evidence(g) => ~(End(r) >= Start(g))
      BY <3>1, <3>2, <3>6, <3>7 DEF Timed
    <3>9. ~Ambiguous(rows)
      BY <3>5, <3>8 DEF Ambiguous, g
    <3> QED
      BY <3>1, <3>7, <3>9
  <2> QED
    BY <2>1, <2>2, WhenFinal DEF g, e
<1> QED
  BY <1>1, RowsStaySound, PTL

(* Whatever was recorded before, a poll begun after all of it had ended    *)
(* governs alone and leaves no ambiguity.                                  *)
THEOREM LaterPollWins == Spec => []LaterPollGoverns
<1>1. RowsSound => LaterPollGoverns
  <2> SUFFICES ASSUME RowsSound, NEW r \in rows, \A q \in rows \ {r} : End(q) < Start(r)
               PROVE  Governing(rows) = r /\ ~Ambiguous(rows)
    BY DEF LaterPollGoverns
  <2>1. \A q \in rows : Timed(q)
    BY DEF RowsSound
  <2>2. Latest(rows) = {r}
    <3>1. \A q \in rows : End(q) <= End(r)
      BY <2>1 DEF Timed
    <3>2. \A q \in rows \ {r} : ~(End(r) <= End(q))
      BY <2>1 DEF Timed
    <3> QED
      BY <3>1, <3>2 DEF Latest
  <2>3. Governing(rows) = r
    BY <2>2, GoverningRow
  <2>4. \A q \in rows : Evidence(q) # Evidence(r) => ~(End(q) >= Start(r))
    BY <2>1 DEF Timed
  <2>5. ~Ambiguous(rows)
    BY <2>2, <2>3, <2>4 DEF Ambiguous
  <2> QED
    BY <2>3, <2>5
<1> QED
  BY <1>1, RowsStaySound, PTL
=============================================================================
