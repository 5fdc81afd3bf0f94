--------------------------------- MODULE Book ---------------------------------
(***************************************************************************)
(* The off-chain order book: listings, bids and the matches between them,  *)
(* as kept by listing.service.ts, bid.service.ts and matching.service.ts.  *)
(*                                                                         *)
(* Everything the program does inside withSerializableRetry is one step:   *)
(* the transaction is SERIALIZABLE, locks its rows FOR UPDATE and is run   *)
(* again after a conflict.  What it does outside a transaction is not: a   *)
(* row is read, the request awaits, and a later step writes what the read  *)
(* justified.  `req` holds the requests between their read and their       *)
(* write.                                                                  *)
(***************************************************************************)
EXTENDS Matching, Sums

CONSTANTS
  Users,       \* accounts that sell and buy
  Verified,    \* the accounts with a verified wallet
  ListingIds,  \* listing primary keys, a set of integers (bounds the listings)
  BidIds,      \* bid primary keys (bounds the bids)
  Requests,    \* requests that can be between a read and a write at once
  Offers,      \* the bodies of POST /listings that are tried
  Orders,      \* the bodies of POST /bids that are tried
  Patches,     \* the bodies of PATCH /listings/:id that are tried
  None,        \* an absent row or an absent optional field
  MaxTime,     \* bound on the clock
  MaxMatches   \* bound on the matches, for rematchOpenBid alone is unbounded

OfferShape(S) == /\ \A o \in S : {o.kwh, o.min, o.max, o.price, o.from, o.until} \subseteq Nat
                 /\ \A o \in S : o.kwh > 0
OrderShape(S) == /\ \A o \in S : {o.kwh, o.maxPrice, o.from, o.until} \subseteq Nat
                 /\ \A o \in S : o.kwh > 0 /\ o.target \in ListingIds \cup {None}
PatchShape(S) == \A p \in S :
                   {p.kwh, p.min, p.max, p.price, p.from, p.until} \subseteq Nat \cup {None}

ASSUME BookAssumption ==
  /\ ListingIds \subseteq Int /\ None \notin Int
  /\ IsFiniteSet(ListingIds) /\ IsFiniteSet(BidIds)
  /\ Verified \subseteq Users /\ None \notin Users
  /\ OfferShape(Offers) /\ OrderShape(Orders) /\ PatchShape(Patches)
  /\ \A p \in Patches : p.kwh # 0    \* kwhSchema is positive
  /\ MaxTime \in Nat /\ MaxMatches \in Nat

VARIABLES
  listing,   \* the Listing table: id -> row or None
  bid,       \* the Bid table: id -> row or None
  matches,   \* the Match table in creation order
  req,       \* request -> what it is about to write
  now        \* the wall clock

vars == <<listing, bid, matches, req, now>>

Idle == [pc |-> "idle"]

Init ==
  /\ listing = [l \in ListingIds |-> None]
  /\ bid = [b \in BidIds |-> None]
  /\ matches = <<>>
  /\ req = [r \in Requests |-> Idle]
  /\ now = 0

-----------------------------------------------------------------------------
(* Listings *)

EDITABLE_STATUSES == {"ACTIVE", "PARTIALLY_FILLED"}

assertTradeSizes(available, minTrade, maxTrade) ==
  minTrade <= maxTrade /\ maxTrade <= available

createListing(l, seller, o) ==
  /\ listing[l] = None
  /\ seller \in Verified
  /\ o.from < o.until /\ o.until > now
  /\ checkQuantityIntegrity(o.kwh, o.kwh, 0)
  /\ assertTradeSizes(o.kwh, o.min, o.max)
  /\ listing' = [listing EXCEPT ![l] =
       [seller |-> seller, market |-> o.market, price |-> o.price,
        from |-> o.from, until |-> o.until, createdAt |-> now,
        orig |-> o.kwh, avail |-> o.kwh, sold |-> 0,
        min |-> o.min, max |-> o.max, status |-> "ACTIVE"]]
  /\ UNCHANGED <<bid, matches, req, now>>

\* The test of expireIfNeeded on a row just read.
ListingLapsed(l) ==
  /\ listing[l] # None
  /\ listing[l].status \in EDITABLE_STATUSES
  /\ listing[l].until <= now

\* GET, PATCH and cancel all read the row and hand it to expireIfNeeded.  A
\* lapsed row sends any of the three to the same write, after which PATCH and
\* cancel are refused because the row they hold says EXPIRED.
readLapsedListing(r, l) ==
  /\ req[r] = Idle
  /\ ListingLapsed(l)
  /\ req' = [req EXCEPT ![r] = [pc |-> "expireListing", id |-> l]]
  /\ UNCHANGED <<listing, bid, matches, now>>

\* The write of expireIfNeeded: by id alone, whatever the row says now.
expireIfNeeded(r) ==
  /\ req[r].pc = "expireListing"
  /\ listing' = [listing EXCEPT ![req[r].id].status = "EXPIRED"]
  /\ req' = [req EXCEPT ![r] = Idle]
  /\ UNCHANGED <<bid, matches, now>>

Given(field, old) == IF field = None THEN old ELSE field

\* updateListing up to its transaction.  The window that will be written is
\* merged here, from the row as it is read now.
readForUpdate(r, l, p) ==
  /\ req[r] = Idle
  /\ listing[l] # None /\ ~ListingLapsed(l)
  /\ listing[l].status \in EDITABLE_STATUSES
  /\ LET from == Given(p.from, listing[l].from)
         until == Given(p.until, listing[l].until)
     IN  /\ from < until /\ until > now
         /\ req' = [req EXCEPT ![r] = [pc |-> "patch", id |-> l, body |-> p,
                                       from |-> from, until |-> until]]
  /\ UNCHANGED <<listing, bid, matches, now>>

\* The row the transaction of updateListing writes; status is not recomputed.
Patched(row, q) ==
  [resizeRemaining(row, Given(q.body.kwh, row.avail)) EXCEPT
     !.min = Given(q.body.min, row.min), !.max = Given(q.body.max, row.max),
     !.price = Given(q.body.price, row.price),
     !.from = q.from, !.until = q.until,
     !.market = Given(q.body.market, row.market)]

\* Mutant: the status is not read again under the row lock.
updateListing_NoRecheck(r) ==
  /\ req[r].pc = "patch"
  /\ LET l == req[r].id
         row == Patched(listing[l], req[r])
     IN  /\ assertTradeSizes(row.avail, row.min, row.max)
         /\ listing' = [listing EXCEPT ![l] = row]
  /\ req' = [req EXCEPT ![r] = Idle]
  /\ UNCHANGED <<bid, matches, now>>

updateListing(r) ==
  /\ req[r].pc = "patch"
  /\ LET l == req[r].id
         row == Patched(listing[l], req[r])
     IN  \/ /\ listing[l].status \in EDITABLE_STATUSES
            /\ checkQuantityIntegrity(row.orig, row.avail, row.sold)
            /\ assertTradeSizes(row.avail, row.min, row.max)
            /\ listing' = [listing EXCEPT ![l] = row]
         \/ /\ \/ listing[l].status \notin EDITABLE_STATUSES
               \/ ~checkQuantityIntegrity(row.orig, row.avail, row.sold)
               \/ ~assertTradeSizes(row.avail, row.min, row.max)
            /\ UNCHANGED listing
  /\ req' = [req EXCEPT ![r] = Idle]
  /\ UNCHANGED <<bid, matches, now>>

readForCancel(r, l) ==
  /\ req[r] = Idle
  /\ listing[l] # None /\ ~ListingLapsed(l)
  /\ listing[l].status \in EDITABLE_STATUSES
  /\ req' = [req EXCEPT ![r] = [pc |-> "cancelListing", id |-> l]]
  /\ UNCHANGED <<listing, bid, matches, now>>

cancelListing(r) ==
  /\ req[r].pc = "cancelListing"
  /\ LET l == req[r].id
     IN  \/ /\ listing[l].status \in EDITABLE_STATUSES
            /\ listing' = [listing EXCEPT ![l].status = "CANCELLED"]
         \/ /\ listing[l].status \notin EDITABLE_STATUSES
            /\ UNCHANGED listing
  /\ req' = [req EXCEPT ![r] = Idle]
  /\ UNCHANGED <<bid, matches, now>>

-----------------------------------------------------------------------------
(* Bids and matching *)

\* Mutant: the word for bids.
listingStatusAfterFill_BidWord(available, sold) ==
  IF available <= 0 THEN "SOLD_OUT"
  ELSE IF sold > 0 THEN "PARTIALLY_MATCHED" ELSE "ACTIVE"

listingStatusAfterFill(available, sold) ==
  IF available <= 0 THEN "SOLD_OUT"
  ELSE IF sold > 0 THEN "PARTIALLY_FILLED" ELSE "ACTIVE"

\* Mutant: an off-by-one at zero.
bidStatusAfterFill_OffByOne(unmatched, matched) ==
  IF unmatched < 0 THEN "MATCHED"
  ELSE IF matched > 0 THEN "PARTIALLY_MATCHED" ELSE "OPEN"

bidStatusAfterFill(unmatched, matched) ==
  IF unmatched <= 0 THEN "MATCHED"
  ELSE IF matched > 0 THEN "PARTIALLY_MATCHED" ELSE "OPEN"

\* Mutant: rows that nobody has read since they lapsed still count.
loadMatchableListings_ByStatus(row) ==
  {l \in ListingIds :
     /\ listing[l] # None
     /\ row.target \in {None, l}
     /\ listing[l].status \in EDITABLE_STATUSES
     /\ listing[l].market = row.market
     /\ listing[l].seller # row.buyer
     /\ listing[l].until > row.from
     /\ listing[l].from < row.until
     /\ listing[l].avail > 0
     /\ listing[l].price <= row.maxPrice}

\* The WHERE clause and the re-check under the row locks.
loadMatchableListings(row) ==
  {l \in ListingIds :
     /\ listing[l] # None
     /\ row.target \in {None, l}
     /\ listing[l].status \in EDITABLE_STATUSES
     /\ listing[l].market = row.market
     /\ listing[l].seller # row.buyer
     /\ listing[l].until > now /\ listing[l].until > row.from
     /\ listing[l].from < row.until
     /\ listing[l].avail > 0
     /\ listing[l].price <= row.maxPrice}

\* Mutant: the sold column is left out of the update.
Filled_KeepsSold(row, kwh) ==
  LET next == applyFill(row, kwh)
  IN  [row EXCEPT !.avail = next.avail, !.status = listingStatusAfterFill(next.avail, next.sold)]

Filled(row, kwh) ==
  LET next == applyFill(row, kwh)
  IN  [next EXCEPT !.status = listingStatusAfterFill(next.avail, next.sold)]

\* The listings a plan draws on, what it takes from one of them, and the bid
\* after its first n fills.
Named(plan) == {plan[i].listing : i \in DOMAIN plan}
FillOf(plan, l) == plan[CHOOSE i \in DOMAIN plan : plan[i].listing = l].kwh
WorkingBid(row, plan, n) ==
  LET after[k \in 0..n] == IF k = 0 THEN row ELSE applyBidFill(after[k - 1], plan[k].kwh)
  IN  after[n]

\* The fill loop draws on loaded listings only, and a quantity check that fails
\* aborts the transaction with QUANTITY_INTEGRITY, so together the checks guard
\* the whole step.  The last bid is the row itself when there is no fill.
FillsAccepted(row, plan) ==
  /\ Named(plan) \subseteq loadMatchableListings(row)
  /\ \A l \in Named(plan) :
       LET next == applyFill(listing[l], FillOf(plan, l))
       IN  checkQuantityIntegrity(next.orig, next.avail, next.sold)
  /\ \A n \in DOMAIN plan \cup {Len(plan)} :
       LET next == WorkingBid(row, plan, n)
       IN  checkBidQuantity(row.req, next.unm, next.mat)

\* Writes the plan for bid b, whose row before the plan is `row`: every listing
\* it names, one match per fill, and the bid.
persistFills(b, row, plan) ==
  LET last == WorkingBid(row, plan, Len(plan))
  IN  /\ FillsAccepted(row, plan)
      /\ listing' = [l \in ListingIds |-> IF l \in Named(plan)
                                          THEN Filled(listing[l], FillOf(plan, l))
                                          ELSE listing[l]]
      /\ matches' = matches \o [i \in DOMAIN plan |->
                      [listing |-> plan[i].listing, bid |-> b, kwh |-> plan[i].kwh,
                       price |-> plan[i].price]]
      /\ Len(matches') <= MaxMatches
      /\ bid' = [bid EXCEPT ![b] =
                   [row EXCEPT !.unm = last.unm, !.mat = last.mat,
                               !.status = bidStatusAfterFill(last.unm, last.mat)]]

\* The row the handler inserts before it matches.
NewBid(buyer, o) ==
  [buyer |-> buyer, market |-> o.market, maxPrice |-> o.maxPrice,
   from |-> o.from, until |-> o.until, target |-> o.target,
   req |-> o.kwh, unm |-> o.kwh, mat |-> 0, status |-> "OPEN"]

PlanFor(row) == matchBidAgainstListings(row, listing, loadMatchableListings(row))

createBidAndMatch(b, buyer, o) ==
  /\ bid[b] = None
  /\ o.from < o.until /\ o.until > now
  /\ checkBidQuantity(o.kwh, o.kwh, 0)
  /\ o.target # None =>
       listing[o.target] # None /\ listing[o.target].seller # buyer
  /\ persistFills(b, NewBid(buyer, o), PlanFor(NewBid(buyer, o)))
  /\ UNCHANGED <<req, now>>

OPEN_BID == {"OPEN", "PARTIALLY_MATCHED"}

rematchOpenBid(b) ==
  /\ bid[b] # None
  /\ bid[b].status \in OPEN_BID
  /\ \/ /\ bid[b].until <= now
        /\ bid' = [bid EXCEPT ![b].status = "EXPIRED"]
        /\ UNCHANGED <<listing, matches>>
     \/ /\ bid[b].until > now
        /\ persistFills(b, bid[b], PlanFor(bid[b]))
  /\ UNCHANGED <<req, now>>

\* GET and cancel read the bid and hand it to expireBidIfNeeded.
readLapsedBid(r, b) ==
  /\ req[r] = Idle
  /\ bid[b] # None /\ bid[b].status \in OPEN_BID /\ bid[b].until <= now
  /\ req' = [req EXCEPT ![r] = [pc |-> "expireBid", id |-> b]]
  /\ UNCHANGED <<listing, bid, matches, now>>

expireBidIfNeeded(r) ==
  /\ req[r].pc = "expireBid"
  /\ bid' = [bid EXCEPT ![req[r].id].status = "EXPIRED"]
  /\ req' = [req EXCEPT ![r] = Idle]
  /\ UNCHANGED <<listing, matches, now>>

readBidForCancel(r, b) ==
  /\ req[r] = Idle
  /\ bid[b] # None /\ bid[b].status \in OPEN_BID /\ bid[b].until > now
  /\ req' = [req EXCEPT ![r] = [pc |-> "cancelBid", id |-> b]]
  /\ UNCHANGED <<listing, bid, matches, now>>

\* No transaction and no second look at the status.
cancelBid(r) ==
  /\ req[r].pc = "cancelBid"
  /\ bid' = [bid EXCEPT ![req[r].id].status = "CANCELLED"]
  /\ req' = [req EXCEPT ![r] = Idle]
  /\ UNCHANGED <<listing, matches, now>>

Tick ==
  /\ now < MaxTime
  /\ now' = now + 1
  /\ UNCHANGED <<listing, bid, matches, req>>

Next ==
  \/ \E l \in ListingIds, u \in Users, o \in Offers : createListing(l, u, o)
  \/ \E r \in Requests, l \in ListingIds : readLapsedListing(r, l)
  \/ \E r \in Requests, l \in ListingIds, p \in Patches : readForUpdate(r, l, p)
  \/ \E r \in Requests, l \in ListingIds : readForCancel(r, l)
  \/ \E r \in Requests : expireIfNeeded(r)
  \/ \E r \in Requests : updateListing(r)
  \/ \E r \in Requests : cancelListing(r)
  \/ \E b \in BidIds, u \in Users, o \in Orders : createBidAndMatch(b, u, o)
  \/ \E b \in BidIds : rematchOpenBid(b)
  \/ \E r \in Requests, b \in BidIds : readLapsedBid(r, b)
  \/ \E r \in Requests : expireBidIfNeeded(r)
  \/ \E r \in Requests, b \in BidIds : readBidForCancel(r, b)
  \/ \E r \in Requests : cancelBid(r)
  \/ Tick

Spec == Init /\ [][Next]_vars

-----------------------------------------------------------------------------
(* What the book promises *)

ListingStatus == {"ACTIVE", "PARTIALLY_FILLED", "SOLD_OUT", "EXPIRED", "CANCELLED"}
BidStatus == {"OPEN", "PARTIALLY_MATCHED", "MATCHED", "EXPIRED", "CANCELLED"}

Markets == {o.market : o \in Offers} \cup ({p.market : p \in Patches} \ {None})

ListingRow == [seller : Users, market : Markets, price : Nat,
               from : Nat, until : Nat, createdAt : 0..MaxTime,
               orig : Nat, avail : Nat, sold : Nat, min : Nat, max : Nat,
               status : ListingStatus]
BidRow == [buyer : Users, market : {o.market : o \in Orders}, maxPrice : Nat,
           from : Nat, until : Nat, target : ListingIds \cup {None},
           req : Nat, unm : Nat, mat : Nat, status : BidStatus]
MatchRow == [listing : ListingIds, bid : BidIds, kwh : Nat, price : Nat]

\* The mark of an absent row is not itself a row.
ASSUME NoneAssumption == None \notin ListingRow \cup BidRow

Request ==
  {Idle}
  \cup [pc : {"expireListing", "cancelListing"}, id : ListingIds]
  \cup [pc : {"expireBid", "cancelBid"}, id : BidIds]
  \cup [pc : {"patch"}, id : ListingIds, body : Patches, from : Nat, until : Nat]

\* Every table holds rows of its schema, a match those of a listing and a bid
\* that are there, and every request in flight is one of the five writes the
\* services make (the Prisma models and the handlers).
TypeOK ==
  /\ now \in 0..MaxTime
  /\ req \in [Requests -> Request]
  /\ listing \in [ListingIds -> ListingRow \cup {None}]
  /\ bid \in [BidIds -> BidRow \cup {None}]
  /\ matches \in Seq(MatchRow)
  /\ \A i \in DOMAIN matches :
       listing[matches[i].listing] # None /\ bid[matches[i].bid] # None

\* The integrity rules of docs/database.md for listings, and the same for bids:
\* what is left and what is sold always make up what was offered, and what is
\* unmatched and matched what was asked for, through every interleaving of
\* fills, edits, cancellations and expiries.
QuantityIdentity ==
  /\ \A l \in ListingIds : listing[l] # None =>
       checkQuantityIntegrity(listing[l].orig, listing[l].avail, listing[l].sold)
  /\ \A b \in BidIds : bid[b] # None =>
       checkBidQuantity(bid[b].req, bid[b].unm, bid[b].mat)

\* The lifecycle word and the numbers of a row never contradict each other
\* (listingStatusAfterFill, bidStatusAfterFill): in particular a row the
\* matcher may still draw on has something left and an untouched one sold
\* nothing, although updateListing changes numbers without touching status.
StatusTellsQuantity ==
  /\ \A l \in ListingIds : listing[l] # None =>
       /\ listing[l].status = "ACTIVE" => listing[l].sold = 0 /\ listing[l].avail > 0
       /\ listing[l].status = "PARTIALLY_FILLED" => listing[l].sold > 0 /\ listing[l].avail > 0
       /\ listing[l].status = "SOLD_OUT" => listing[l].avail = 0
  /\ \A b \in BidIds : bid[b] # None =>
       /\ bid[b].status = "OPEN" => bid[b].mat = 0 /\ bid[b].unm > 0
       /\ bid[b].status = "PARTIALLY_MATCHED" => bid[b].mat > 0 /\ bid[b].unm > 0
       /\ bid[b].status = "MATCHED" => bid[b].unm = 0

SoldOf(ms, l) == Total([i \in DOMAIN ms |-> IF ms[i].listing = l THEN ms[i].kwh ELSE 0])
MatchedOf(ms, b) == Total([i \in DOMAIN ms |-> IF ms[i].bid = b THEN ms[i].kwh ELSE 0])

\* No invented volume: the sold column of a listing is the sum of its match
\* rows and the matched column of a bid the sum of its own, so no fill is lost
\* or counted twice by concurrent writers (persistFills against updateListing,
\* rematchOpenBid and the unlocked status writes).
SoldIsMatched ==
  /\ \A l \in ListingIds : listing[l] # None =>
       listing[l].sold = SoldOf(matches, l)
  /\ \A b \in BidIds : bid[b] # None =>
       bid[b].mat = MatchedOf(matches, b)

NewMatches == {matches'[i] : i \in DOMAIN matches' \ DOMAIN matches}

\* Every match is made on terms both sides stated and still stand by at that
\* instant: a live listing whose window is open, another account, the ask
\* price and no more than the bid's limit, overlapping windows, and a lot
\* within the seller's bounds unless it is the last one.
TradeTermsHonoured ==
  [][\A m \in NewMatches :
       LET row == listing[m.listing]
           buy == bid'[m.bid]
       IN  /\ row.status \in EDITABLE_STATUSES /\ row.until > now
           /\ row.seller # buy.buyer /\ row.market = buy.market
           /\ m.price = row.price /\ m.price <= buy.maxPrice
           /\ intervalsOverlap(row, buy)
           /\ m.kwh > 0 /\ m.kwh <= row.max
           /\ m.kwh >= row.min \/ listing'[m.listing].avail = 0]_vars

\* Price-time priority across a whole fill: when a bid draws on a listing, none
\* that is cheaper, or as cheap and older, is passed over although it could
\* have supplied the quantity that was still open when the worse one was served.
PriceTimePriority ==
  [][\A m \in NewMatches : \A l \in ListingIds :
       (/\ listing[l] # None
        /\ \/ listing[l].price < m.price
           \/ /\ listing[l].price = m.price
              /\ listing[l].createdAt < listing[m.listing].createdAt
        /\ ~\E n \in NewMatches : n.listing = l)
       => LET buy == bid'[m.bid]
          IN  \/ l \notin loadMatchableListings(buy)
              \/ computePartialMatch(listing[l], buy, m.kwh + buy.unm) = 0]_vars

\* The planner and the re-checks agree: no reachable book makes persistFills
\* abort a bid with QUANTITY_INTEGRITY, whoever places whichever order.
NoFillAborts ==
  \A u \in Users, o \in Orders : FillsAccepted(NewBid(u, o), PlanFor(NewBid(u, o)))

\* The book seen as a ledger: what was offered, given, wanted and received, and
\* which rows may still trade.
SupplyNow == [l \in ListingIds |-> IF listing[l] = None THEN 0 ELSE listing[l].orig]
GivenNow == [l \in ListingIds |-> IF listing[l] = None THEN 0 ELSE listing[l].sold]
WantedNow == [b \in BidIds |-> IF bid[b] = None THEN 0 ELSE bid[b].req]
GotNow == [b \in BidIds |-> IF bid[b] = None THEN 0 ELSE bid[b].mat]
LotsOpen == {l \in ListingIds : listing[l] # None /\ listing[l].status \in EDITABLE_STATUSES}
BidsOpen == {b \in BidIds : bid[b] # None /\ bid[b].status \in OPEN_BID}
OpenNow == {<<"lot", l>> : l \in LotsOpen} \cup {<<"demand", b>> : b \in BidsOpen}

LedgerView == INSTANCE Ledger WITH
  Lots <- ListingIds, Demands <- BidIds,
  supply <- SupplyNow, given <- GivenNow, wanted <- WantedNow, got <- GotNow, open <- OpenNow

\* The book implements the ledger: every handler's writes, unlocked ones and
\* stale ones included, are an offer, a resize, a conserving trade or a closing.
ImplementsLedger == LedgerView!Spec

\* docs/api.md:95 says a read expires the row if its window has passed.  As the
\* window is re-written by updateListing, it is a claim about two requests.
ExpiredOnlyPastWindow ==
  \A l \in ListingIds : listing[l] # None =>
    (listing[l].status = "EXPIRED" => listing[l].until <= now)
=============================================================================
