------------------------ MODULE MCResolutionPolling ------------------------
(* Instances of ResolutionPolling for TLC. *)
EXTENDS ResolutionPolling, TLC

Serves(ruling, prices) == [ruling |-> ruling, prices |-> prices]

(* A ruling, its reversal, and a reopening. *)
Disputed == {Serves("YES", "YES"), Serves("NO", "NO"), Unresolved}

(* Polls run the same code. *)
PollSymmetry == Permutations(Pollers)
=============================================================================
