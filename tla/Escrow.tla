-------------------------------- MODULE Escrow --------------------------------
(***************************************************************************)
(* What a buyer and a seller expect of the contract: money paid for a      *)
(* purchase is held, and leaves once, either released to the seller or     *)
(* returned to the buyer.                                                  *)
(***************************************************************************)
EXTENDS Integers

CONSTANTS Ids

VARIABLES
  deposit,   \* purchase -> money paid for it
  outcome,   \* purchase -> "none", "held", "released" or "returned"
  vault      \* money in custody

vars == <<deposit, outcome, vault>>

Init ==
  /\ deposit = [i \in Ids |-> 0]
  /\ outcome = [i \in Ids |-> "none"]
  /\ vault = 0

Deposit(i) ==
  /\ outcome[i] = "none"
  /\ outcome' = [outcome EXCEPT ![i] = "held"]
  /\ deposit'[i] >= 0 /\ deposit' = [deposit EXCEPT ![i] = deposit'[i]]
  /\ vault' = vault + deposit'[i]

PayOut(i, how) ==
  /\ outcome[i] = "held"
  /\ outcome' = [outcome EXCEPT ![i] = how]
  /\ vault' = vault - deposit[i]
  /\ UNCHANGED deposit

Next == \E i \in Ids : Deposit(i) \/ PayOut(i, "released") \/ PayOut(i, "returned")

Spec == Init /\ [][Next]_vars
=============================================================================
