----------------------------- MODULE EmailDuty ------------------------------
(***************************************************************************)
(* What the email channel promises for every turn - an owner's email, or   *)
(* the welcome: it is closed at most once, either by one reply text, by    *)
(* the fixed failure notice, or by being dropped.  How often the model     *)
(* was called, how often the reply was transmitted and how often the       *)
(* process restarted in between does not show.                             *)
(***************************************************************************)
CONSTANTS Turns, Bodies

VARIABLE outcome

Open    == "open"
Dropped == "dropped"
Noticed == "noticed"

Init == outcome = [k \in Turns |-> Open]

Close(k) ==
  /\ outcome[k] = Open
  /\ outcome' \in {[outcome EXCEPT ![k] = r] : r \in Bodies \union {Dropped, Noticed}}

Next == \E k \in Turns : Close(k)

Spec == Init /\ [][Next]_outcome
=============================================================================
