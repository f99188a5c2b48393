---------------------------- MODULE MCApprovals ----------------------------
(* Instances of Approvals for TLC. *)
EXTENDS Approvals

(* Each ticket is on a line of its own. *)
OwnLine == [p \in Proposals |-> p]
=============================================================================
