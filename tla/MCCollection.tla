---------------------------- MODULE MCCollection ----------------------------
(* Instances of Collection for TLC. *)
EXTENDS Collection, TLC

CONSTANTS w1, w2

(* One process runs the daily cycle, the other whatever somebody types. *)
Roles == w1 :> {"run-daily"} @@ w2 :> {"discover", "snapshot", "resolve", "research"}
=============================================================================
