--------------------------- MODULE MCPaperLedger ---------------------------
(* Instances of PaperLedger for TLC. *)
EXTENDS PaperLedger, TLC

(* Two tickets cost more than the bankroll of 4 half dollars unless the
   first one has paid. *)
OneOffer == {[side |-> "YES", shares |-> 2, cost |-> 3]}

(* A second one that costs all there is. *)
TwoOffers == OneOffer \cup {[side |-> "NO", shares |-> 3, cost |-> 4]}

(* Invocations run the same code; markets are independent. *)
LedgerSymmetry == Permutations(Runs) \cup Permutations(Markets)
=============================================================================
