-------------------------- MODULE MCTradeExecution --------------------------
(* Instances of TradeExecution for TLC. *)
EXTENDS TradeExecution, TLC

CONSTANTS p1, p2, p3, buyA, buyB

(* Every ticket on one line, or the third ticket on a line of its own. *)
SameLine == [p \in Proposals |-> buyA]
TwoLines == [p \in Proposals |-> IF p = p1 THEN buyB ELSE buyA]

(* Processes run the same code. *)
ProcSymmetry == Permutations(Procs)

(* Under TwoLines the tickets other than p1 are interchangeable. *)
LineSymmetry == Permutations(Proposals \ {p1})
=============================================================================
