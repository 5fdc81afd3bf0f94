-------------------------- MODULE MCSettlementParts --------------------------
(* The instance of Settlement in which its properties hold: keys as in the web *)
(* client, one match or two.                                                   *)
EXTENDS MCSettlement

\* An execution is of one part: of one match paid twice and settled, of two matches reported
\* with one payment, or declined, or of one payment and its settlement under two keys each.
VARIABLE part

mcVars == <<vars, part>>

Bodies == TwoTabs \cup OnePayment \cup NewKeyOfPayment

Reported(body) ==
  CASE part = "one" -> body \in TwoTabs
    [] part = "two" -> body \in OnePayment /\ body.action # "settle"
    [] part = "keys" -> body \in NewKeyOfPayment

\* The key has a row, or a report that is on its way.
Known(key) == trade[key] # None \/ \E r \in Reporters : req[r] # Idle /\ req[r].body.key = key

\* The two keys of one payment are alike: the first is reported first.
InOrder(first, second) == Known(second)' => Known(first)

MCInit == Init /\ part \in {"one", "two", "keys"}

MCNext ==
  /\ Next
  /\ \A r \in Reporters : req'[r] # Idle => Reported(req'[r].body)
  /\ part = "two" => chain'["s1"] = "unmined"
  /\ part # "two" => "m2" \in live' /\ (mapped => mapped')
  /\ part # "one" => chain'["p2"] = "unmined"
  /\ part = "keys" => InOrder("buy1", "buy2") /\ InOrder("settle1", "settle2")
  /\ UNCHANGED part

MCSpec == MCInit /\ [][MCNext]_mcVars
=============================================================================
