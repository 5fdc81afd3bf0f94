-------------------------------- MODULE Ledger --------------------------------
(***************************************************************************)
(* What the order book promises, without a word on how: energy moves from  *)
(* lots on offer to demands, a lot never gives more than it holds, a       *)
(* demand never gets more than it asked for, what the lots give is what    *)
(* the demands get, and a lot or demand once closed is closed for good.    *)
(***************************************************************************)
EXTENDS Integers, FiniteSets, Sums

CONSTANTS Lots, Demands

VARIABLES
  supply,    \* lot -> what its owner put on offer, 0 before there is an offer
  given,     \* lot -> what it has given so far
  wanted,    \* demand -> what was asked for, 0 before there is a demand
  got,       \* demand -> what it has received so far
  open       \* the lots and demands that may still trade

vars == <<supply, given, wanted, got, open>>

Init ==
  /\ supply = [l \in Lots |-> 0] /\ given = [l \in Lots |-> 0]
  /\ wanted = [d \in Demands |-> 0] /\ got = [d \in Demands |-> 0]
  /\ open = {}

OnlyAt(f, g, x) == \A y \in DOMAIN f \ {x} : g[y] = f[y]

\* A lot is offered once.
Offer(l) ==
  /\ supply[l] = 0 /\ supply'[l] > 0 /\ OnlyAt(supply, supply', l)
  /\ open' = open \cup {<<"lot", l>>}
  /\ UNCHANGED <<given, wanted, got>>

\* The owner changes what is left of an open lot, never what it gave.
Resize(l) ==
  /\ <<"lot", l>> \in open
  /\ supply'[l] >= given[l] /\ OnlyAt(supply, supply', l)
  /\ UNCHANGED <<given, wanted, got, open>>

\* A demand, new or open, draws on any open lots; whatever is used up closes.
Trade(d) ==
  /\ \/ wanted[d] = 0 /\ wanted'[d] > 0 /\ OnlyAt(wanted, wanted', d)
     \/ <<"demand", d>> \in open /\ UNCHANGED wanted
  /\ \A l \in Lots : /\ given[l] <= given'[l] /\ given'[l] <= supply[l]
                     /\ given'[l] # given[l] => <<"lot", l>> \in open
  /\ got'[d] <= wanted'[d] /\ OnlyAt(got, got', d)
  /\ got'[d] - got[d] = SumOver(given') - SumOver(given)
  /\ open' = (open \cup {<<"demand", d>>})
               \ ({<<"lot", l>> : l \in {k \in Lots : given'[k] = supply[k]}}
                  \cup {<<"demand", e>> : e \in {e \in Demands : got'[e] = wanted'[e]}})
  /\ UNCHANGED supply

Close == /\ open' \subseteq open
         /\ UNCHANGED <<supply, given, wanted, got>>

Next ==
  \/ \E l \in Lots : Offer(l) \/ Resize(l)
  \/ \E d \in Demands : Trade(d)
  \/ Close

Spec == Init /\ [][Next]_vars
=============================================================================
