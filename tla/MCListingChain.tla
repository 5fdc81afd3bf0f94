---------------------------- MODULE MCListingChain ----------------------------
(* Small instances of ListingChain for TLC. *)
EXTENDS Publication, TLC

\* l1 is published twice, at the offer it has before and after a fill, and once from a wallet
\* that is not the seller's.
MCTx == [h \in Hashes |->
  [listing |-> "l1", offer |-> IF h = "t1b" THEN "part" ELSE "full", seller |-> h # "t2"]]

Body(a, l, k, h) == [action |-> a, listing |-> l, key |-> k, hash |-> h]

\* Two tabs publish l1; l2 is reported with l1's first transaction.
Bodies ==
  {Body("confirm", "l1", "k1", "t1"), Body("confirm", "l1", "k1", "t1b"),
   Body("reject", "l1", "k1r", None), Body("confirm", "l2", "k2", "t1")}

-----------------------------------------------------------------------------
\* One tab, with a submit and a second one beside it, each with one transaction.
MCTabOf == [s \in Reporters |-> "tab1"]
MCFirstKeys == [confirm |-> "k1", reject |-> "k1r"]
Own(s) == IF s = CHOOSE r \in Reporters : TRUE THEN "t1" ELSE "t2"

\* The offer changes once, between reports; reports are not cut off at the chain, and the page
\* is fetched again when no submit is at work.
PanelPart ==
  /\ PublicationNext
  /\ outages' = 0
  /\ book' # book =>
       book'["l1"] = [offer |-> "part", open |-> TRUE] /\ req = [r \in Reporters |-> Idle]
  /\ tab' # tab => submit' # submit \/ submit = [r \in Reporters |-> Rest]
  /\ \A s \in Reporters :
       /\ submit'[s].hash \in {Own(s), None}
       /\ submit[s] = Rest /\ submit'[s] # Rest => Own(s) \notin signed
       /\ req[s].pc = "chain" => req'[s].pc = "write"

-----------------------------------------------------------------------------
\* An execution is of one part.  "tabs": l1 is published twice and nobody declines.
\* "repeats": only the second transaction of l1 is reported, or declined, with failures between.
\* "panel": l1 is published from the seller's page.
VARIABLE part

mcVars == <<publicationVars, part>>

Reported(body) ==
  IF part = "tabs" THEN body.action = "confirm" ELSE body.hash # "t1"

MCInit ==
  /\ Init /\ PanelInit /\ part \in {"tabs", "repeats", "panel"}
  /\ \A l \in Listings : book[l].offer = "full"

ReportPart ==
  /\ Next
  /\ book'["l2"] = book["l2"] /\ chain'["t2"] = chain["t2"]
  /\ \A r \in Reporters : req'[r] # Idle => Reported(req'[r].body)
  /\ part = "tabs" => outages' = 0
  /\ UNCHANGED panelVars

MCNext == (IF part = "panel" THEN PanelPart ELSE ReportPart) /\ UNCHANGED part

\* FairSpec for the one report that is nobody else's: l1's with its second transaction.
MCSpec ==
  /\ MCInit /\ [][MCNext]_mcVars
  /\ \A r \in Reporters : WF_vars(Step(r))
  /\ \A body \in {b \in Bodies : b.action = "confirm" /\ OwnReport(b)} :
       SF_vars(part # "panel" /\ \E r \in Reporters : findListing(r, body))
=============================================================================
