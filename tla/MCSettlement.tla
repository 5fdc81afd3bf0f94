----------------------------- MODULE MCSettlement -----------------------------
(* Small instances of Settlement for TLC. *)
EXTENDS Settlement, TLC

\* p1 and p2 are purchases that fit every match, as two matches of one buyer on
\* one listing at one price and quantity have; s1 settles p1.
MCFits == [h \in Hashes |-> IF h \in {"p1", "p2"} THEN Matches ELSE {}]
MCSettles == [h \in Hashes |-> IF h = "s1" THEN "p1" ELSE None]

Body(a, m, k, h) == [action |-> a, match |-> m, key |-> k, hash |-> h]

\* One match: the buyer pays twice from two tabs, which share the key.
TwoTabs ==
  {Body("purchase", "m1", "buy1", "p1"), Body("purchase", "m1", "buy1", "p2"),
   Body("settle", "m1", "settle1", "s1")}

\* Two matches and one payment, reported for both; keys as in the web client.
OnePayment ==
  {Body("purchase", "m1", "buy1", "p1"), Body("purchase", "m2", "buy2", "p1"),
   Body("settle", "m1", "settle1", "s1"), Body("reject", "m1", "reject1", None)}

\* One match and one payment, reported anew under another key after a declined prompt has
\* replaced the first (review-trade.tsx:233).
NewKeyOfPayment ==
  {Body("purchase", "m1", "buy1", "p1"), Body("purchase", "m1", "buy2", "p1"),
   Body("settle", "m1", "settle1", "s1"), Body("settle", "m1", "settle2", "s1")}

\* OnePayment, with the rejection under the key of the purchase, as the test "allows
\* a purchase after the same idempotency key was used for a wallet reject".
SharedKey ==
  {Body("purchase", "m1", "buy1", "p1"), Body("purchase", "m2", "buy2", "p1"),
   Body("settle", "m1", "settle1", "s1"), Body("reject", "m1", "buy1", None)}

\* One purchase, alone and with its settlement.
BuyOnly == {Body("purchase", "m1", "buy1", "p1")}
BuyAndSettle == BuyOnly \cup {Body("settle", "m1", "settle1", "s1")}

ReporterSymmetry == Permutations(Reporters)
=============================================================================
