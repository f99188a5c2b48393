---------------------------- MODULE OrderPromise ----------------------------
(***************************************************************************)
(* What the execution service promises about one-shot orders, without      *)
(* processes, clocks, claims or crashes: a human gives or refuses consent  *)
(* once; an order goes out at most once, and only with consent; the broker *)
(* decides its fate; and the book kept about it may be silent or out of    *)
(* date, but never says anything that was not true of the order.           *)
(***************************************************************************)
CONSTANT Proposals

VARIABLES
  consent,   \* "none", "approve" or "reject"
  fate,      \* what became of the order at the broker
  book       \* what the store says of it

promiseVars == <<consent, fate, book>>

Fates == {"unsent", "sent", "refused", "open", "filled", "cancelled"}
Books == {"silent", "open", "filled", "failed"}

Init ==
  /\ consent = [p \in Proposals |-> "none"]
  /\ fate = [p \in Proposals |-> "unsent"]
  /\ book = [p \in Proposals |-> "silent"]

Consent(p) ==
  /\ consent[p] = "none"
  /\ \E verdict \in {"approve", "reject"} : consent' = [consent EXCEPT ![p] = verdict]
  /\ UNCHANGED <<fate, book>>

Send(p) ==
  /\ consent[p] = "approve" /\ fate[p] = "unsent"
  /\ fate' = [fate EXCEPT ![p] = "sent"]
  /\ UNCHANGED <<consent, book>>

Turns == {<<"sent", "open">>, <<"sent", "refused">>, <<"open", "filled">>, <<"open", "cancelled">>}

Turn(p) ==
  /\ \E o \in Fates : <<fate[p], o>> \in Turns /\ fate' = [fate EXCEPT ![p] = o]
  /\ UNCHANGED <<consent, book>>

(* "open" may be stale, the two final entries may not.                     *)
Truthful(entry, o) ==
  \/ entry = "open"   /\ o \in {"open", "filled", "cancelled"}
  \/ entry = "filled" /\ o = "filled"
  \/ entry = "failed" /\ o \in {"refused", "cancelled"}

Report(p) ==
  /\ \E entry \in Books :
       Truthful(entry, fate[p]) /\ book' = [book EXCEPT ![p] = entry]
  /\ UNCHANGED <<consent, fate>>

Next == \E p \in Proposals : Consent(p) \/ Send(p) \/ Turn(p) \/ Report(p)

Spec == Init /\ [][Next]_promiseVars
=============================================================================
