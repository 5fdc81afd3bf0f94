-------------------------------- MODULE MCBook --------------------------------
(* Small instances of Book for TLC. *)
EXTENDS Book, TLC

\* A cheap offer sold in twos whose last unit is under its minimum lot, a
\* dearer one with a short window, and one with bounds no request may carry.
MCOffers ==
  {[market |-> "z", kwh |-> 3, min |-> 2, max |-> 2, price |-> 1, from |-> 0, until |-> 2],
   [market |-> "z", kwh |-> 2, min |-> 1, max |-> 2, price |-> 2, from |-> 0, until |-> 1],
   [market |-> "z", kwh |-> 1, min |-> 1, max |-> 2, price |-> 1, from |-> 0, until |-> 2]}

\* A bid that crosses both offers and one aimed at listing 1.
MCOrders ==
  {[market |-> "z", kwh |-> 4, maxPrice |-> 2, from |-> 0, until |-> 2, target |-> None],
   [market |-> "z", kwh |-> 1, maxPrice |-> 1, from |-> 1, until |-> 2, target |-> 1]}

NoPatch == [market |-> None, kwh |-> None, min |-> None, max |-> None, price |-> None,
            from |-> None, until |-> None]

\* Cutting the rest of the offer down to one unit, moving it to a market where
\* nobody bids, and extending the window.
Moves == {[NoPatch EXCEPT !.market = "y"]}
Resizes == {[NoPatch EXCEPT !.kwh = 1, !.min = 1, !.max = 1]}
Extensions == {[NoPatch EXCEPT !.until = 3]}
AllPatches == Resizes \cup Moves \cup Extensions

RequestSymmetry == Permutations(Requests)

-----------------------------------------------------------------------------
\* An execution is of one part.  "orders": two listings, the first of them resized and moved,
\* by one request at a time, until time 1.  "races": one listing, resized and extended by
\* several requests at a time.
VARIABLE part

mcVars == <<vars, part>>

Patching == {r \in Requests : req'[r].pc = "patch"}

OrdersPart ==
  /\ now' <= 1
  /\ Cardinality({r \in Requests : req'[r] # Idle}) <= 1
  /\ \A r \in Patching : req'[r].id = 1 /\ req'[r].body \in Resizes \cup Moves

RacesPart ==
  /\ listing'[2] = None
  /\ \A r \in Patching : req'[r].body \in Resizes \cup Extensions

MCInit == Init /\ part \in {"orders", "races"}

MCNext ==
  /\ Next
  /\ IF part = "orders" THEN OrdersPart ELSE RacesPart
  /\ UNCHANGED part

MCSpec == MCInit /\ [][MCNext]_mcVars
=============================================================================
