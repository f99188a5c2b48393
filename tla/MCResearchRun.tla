--------------------------- MODULE MCResearchRun ---------------------------
(* Instances of ResearchRun for TLC. *)
EXTENDS ResearchRun, TLC

CONSTANTS c1, c2

(* A configuration that costs twice as much per session as the other. *)
CheapAndDear == [c \in {c1, c2} |-> IF c = c1 THEN 1 ELSE 2]

(* A cheap session may cost nothing, a dear one costs all it may. *)
CheapVaries == [c \in {c1, c2} |-> IF c = c1 THEN {0, 1} ELSE {2}]

OneCap == [c \in {c1} |-> 1]

FullCost == [c \in {c1} |-> {1}]

(* Markets are treated alike, and so are runs. *)
ResearchSymmetry == Permutations(Markets) \cup Permutations(Runs)
=============================================================================
