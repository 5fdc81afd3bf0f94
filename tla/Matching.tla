------------------------------- MODULE Matching -------------------------------
(***************************************************************************)
(* The pure matching and quantity rules of packages/shared/src/matching.ts *)
(* and quantity.ts.                                                        *)
(*                                                                         *)
(* Quantities are integers counting thousandths of a kWh: the request      *)
(* schemas accept only multiples of 0.001, every column is Decimal(18,3)   *)
(* and every result goes through roundKwh, so the numbers of the program   *)
(* are exactly these integers.  Prices are integers for the same reason,   *)
(* instants are integers, and an (energyType, marketZone) pair is one      *)
(* market.                                                                 *)
(*                                                                         *)
(* A listing row has the fields seller, market, price, from, until,        *)
(* createdAt, orig, avail, sold, min, max and status; a bid row has buyer, *)
(* market, maxPrice, from, until, target, req, unm, mat and status.        *)
(***************************************************************************)
EXTENDS Integers, Sequences, FiniteSetsExt

\* Half-open windows [from, until) share an instant.
intervalsOverlap(a, b) == a.from < b.until /\ b.from < a.until

\* listing may supply bid, of which `unmatched` is still open.
isCompatible(listing, bid, unmatched) ==
  /\ listing.avail > 0 /\ unmatched > 0
  /\ listing.price <= bid.maxPrice
  /\ listing.market = bid.market
  /\ listing.seller # bid.buyer
  /\ intervalsOverlap(listing, bid)

\* Mutant: the lot is not limited by what the listing has left.
computePartialMatch_IgnoresStock(listing, bid, unmatched) ==
  LET lot == Min({unmatched, listing.max})
  IN  IF isCompatible(listing, bid, unmatched) /\ lot >= listing.min THEN lot ELSE 0

\* The kWh that listing gives to the open part of bid, 0 when the program
\* returns null.  A lot under the listing's minimum is refused unless it
\* empties the listing.
computePartialMatch(listing, bid, unmatched) ==
  LET lot == Min({listing.avail, unmatched, listing.max})
  IN  IF /\ isCompatible(listing, bid, unmatched)
         /\ lot >= listing.min \/ lot = listing.avail
      THEN lot
      ELSE 0

\* Mutant: the dearest ask first.
Before_DearestFirst(rows, a, b) ==
  \/ rows[a].price > rows[b].price
  \/ rows[a].price = rows[b].price /\ a < b

\* Ask price first, then age, then id.  Type and zone are compared between
\* price and age in the program; listings that differ from the bid in either
\* are skipped by isCompatible, so only equal ones are ever ordered here.
Before(rows, a, b) ==
  \/ rows[a].price < rows[b].price
  \/ /\ rows[a].price = rows[b].price
     /\ \/ rows[a].createdAt < rows[b].createdAt
        \/ rows[a].createdAt = rows[b].createdAt /\ a < b

\* The ids in that order.
sortListingsForMatching(rows, ids) ==
  CHOOSE s \in [1..Cardinality(ids) -> ids] :
    \A i, j \in DOMAIN s : i < j => Before(rows, s[i], s[j])

\* One listing of the pass; acc is what is unmatched and the fills so far.
Take(bid, rows, acc, id) ==
  LET kwh == computePartialMatch(rows[id], bid, acc.unmatched)
  IN  IF kwh <= 0
      THEN acc
      ELSE [unmatched |-> acc.unmatched - kwh,
            fills |-> Append(acc.fills, [listing |-> id, kwh |-> kwh, price |-> rows[id].price])]

\* One pass over the sorted listings; the result is the sequence of fills
\* [listing, kwh, price].
matchBidAgainstListings(bid, rows, ids) ==
  LET sorted == sortListingsForMatching(rows, ids)
      acc[n \in 0..Cardinality(ids)] ==
        IF n = 0 THEN [unmatched |-> bid.unm, fills |-> <<>>]
        ELSE Take(bid, rows, acc[n - 1], sorted[n])
  IN  acc[Cardinality(ids)].fills

-----------------------------------------------------------------------------
(* Quantity triples *)

checkQuantityIntegrity(orig, avail, sold) ==
  /\ {orig, avail, sold} \subseteq Int
  /\ orig > 0 /\ avail >= 0 /\ sold >= 0 /\ sold <= orig
  /\ avail + sold = orig

checkBidQuantity(req, unm, mat) ==
  /\ {req, unm, mat} \subseteq Int
  /\ req > 0 /\ unm >= 0 /\ mat >= 0
  /\ unm + mat = req

\* Mutant: the edit starts the listing afresh.
resizeRemaining_ForgetsSold(row, nextAvailable) ==
  [row EXCEPT !.orig = nextAvailable, !.avail = nextAvailable, !.sold = 0]

\* A seller's edit of the remaining quantity never touches what is sold.
resizeRemaining(row, nextAvailable) ==
  [row EXCEPT !.orig = nextAvailable + row.sold, !.avail = nextAvailable]

applyFill(row, kwh) == [row EXCEPT !.avail = @ - kwh, !.sold = @ + kwh]

applyBidFill(row, kwh) == [row EXCEPT !.unm = @ - kwh, !.mat = @ + kwh]
=============================================================================
