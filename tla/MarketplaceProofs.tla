-------------------------- MODULE MarketplaceProofs --------------------------
(***************************************************************************)
(* The bookkeeping of EnerMeshMarketplace for any accounts, roles,         *)
(* quantities, prices and word size.                                       *)
(*                                                                         *)
(* Storage is one value and a transfer in progress keeps another, the one  *)
(* a revert goes back to.  Good says of a storage all that is invariant of *)
(* it; the proof shows that every function takes a good storage to a good  *)
(* one, and so both the current and the saved storage stay good.           *)
(***************************************************************************)
EXTENDS EnerMeshMarketplace, SumsProofs

\* StatusTellsRemaining of one listing.
RemainingFits(row) ==
  /\ row.status = ACTIVE => row.remaining > 0
  /\ row.status = SOLD_OUT => row.remaining = 0

\* What is invariant of one listing of the storage.
ListingGood(ls, ts, used, l) ==
  /\ ls[l].escrowed = Cardinality(Unsettled(ts, l))
  /\ ls[l].status = CANCELLED => Unsettled(ts, l) = {}
  /\ RemainingFits(ls[l])
  /\ ls[l].externalId # None => ls[l].externalId \in used

Good(ls, ts, used) ==
  /\ ls \in Seq(Listing) /\ ts \in Seq(Trade) /\ used \subseteq ExternalIds
  /\ \A t \in 1..Len(ts) : ts[t].listing \in 1..Len(ls) /\ ts[t].quantity > 0
  /\ \A l \in 1..Len(ls) : ListingGood(ls, ts, used, l)
  /\ \A i, j \in 1..Len(ls) :
       i # j /\ ls[i].externalId # None => ls[i].externalId # ls[j].externalId

LEMMA UnsettledFinite ==
  ASSUME NEW ts \in Seq(Trade), NEW l
  PROVE  IsFiniteSet(Unsettled(ts, l)) /\ Unsettled(ts, l) \subseteq 1..Len(ts)
<1>1. Len(ts) \in Nat /\ DOMAIN ts = 1..Len(ts)
  BY LenProperties
<1>2. IsFiniteSet(1..Len(ts))
  BY <1>1, FS_Interval
<1>3. Unsettled(ts, l) \subseteq 1..Len(ts)
  BY <1>1 DEF Unsettled
<1> QED
  BY <1>2, <1>3, FS_Subset

\* Only the listings are written, one of them, and neither its escrow count nor
\* its correlation id: updateListing and cancelListing.
LEMMA EditKeepsGood ==
  ASSUME NEW ls, NEW ts, NEW used, Good(ls, ts, used),
         NEW l \in 1..Len(ls), NEW new \in Listing,
         new.escrowed = ls[l].escrowed, new.externalId = ls[l].externalId,
         new.status = CANCELLED => Unsettled(ts, l) = {}, RemainingFits(new)
  PROVE  Good([ls EXCEPT ![l] = new], ts, used)
<1> DEFINE after == [ls EXCEPT ![l] = new]
<1>1. /\ after \in Seq(Listing) /\ Len(after) = Len(ls)
      /\ \A k \in 1..Len(ls) : after[k] = IF k = l THEN new ELSE ls[k]
  BY ExceptSeq DEF Good
<1> HIDE DEF after
<1>2. \A k \in 1..Len(after) : ListingGood(after, ts, used, k)
  BY <1>1 DEF Good, ListingGood
<1>3. \A i, j \in 1..Len(after) :
        i # j /\ after[i].externalId # None => after[i].externalId # after[j].externalId
  BY <1>1 DEF Good
<1> QED
  BY <1>1, <1>2, <1>3 DEF Good, after

\* A new listing holds no escrow and has a fresh correlation id or none.
LEMMA NewListingKeepsGood ==
  ASSUME NEW ls, NEW ts, NEW used, Good(ls, ts, used),
         NEW new \in Listing, new.escrowed = 0, new.status = ACTIVE, new.remaining > 0,
         new.externalId \notin used
  PROVE  Good(Append(ls, new), ts, used \cup ({new.externalId} \ {None}))
<1> DEFINE after == Append(ls, new)
           taken == used \cup ({new.externalId} \ {None})
<1>1. /\ after \in Seq(Listing) /\ Len(after) = Len(ls) + 1 /\ Len(ls) \in Nat
      /\ \A k \in 1..Len(ls) : after[k] = ls[k]
      /\ after[Len(ls) + 1] = new
  BY AppendProperties, LenProperties DEF Good
<1> HIDE DEF after
<1>2. taken \subseteq ExternalIds
  BY DEF Good, Listing
<1>3. Unsettled(ts, Len(ls) + 1) = {}
  <2>1. DOMAIN ts = 1..Len(ts)
    BY LenProperties DEF Good
  <2> QED
    BY <1>1, <2>1 DEF Good, Unsettled
<1>4. ListingGood(after, ts, taken, Len(ls) + 1)
  BY <1>1, <1>3, FS_EmptySet DEF ListingGood, RemainingFits, ACTIVE, CANCELLED, SOLD_OUT
<1>5. \A k \in 1..Len(ls) : ListingGood(after, ts, taken, k)
  BY <1>1 DEF Good, ListingGood
<1>6. \A i, j \in 1..Len(after) :
        i # j /\ after[i].externalId # None => after[i].externalId # after[j].externalId
  BY <1>1 DEF Good, ListingGood
<1>7. \A k \in 1..Len(after) : ListingGood(after, ts, taken, k)
  <2>1. \A k \in 1..Len(after) : k \in 1..Len(ls) \/ k = Len(ls) + 1
    BY <1>1
  <2> QED
    BY <1>4, <1>5, <2>1
<1>8. \A t \in 1..Len(ts) : ts[t].listing \in 1..Len(after) /\ ts[t].quantity > 0
  BY <1>1 DEF Good
<1>9. Good(after, ts, taken)
  <2> HIDE DEF taken
  <2> QED
    BY <1>1, <1>2, <1>6, <1>7, <1>8 DEF Good
<1> QED
  BY <1>9 DEF after

\* A purchase adds one unsettled trade and one to the count of its listing.
LEMMA PurchaseKeepsGood ==
  ASSUME NEW ls, NEW ts, NEW used, Good(ls, ts, used),
         NEW l \in 1..Len(ls), NEW new \in Listing, NEW t \in Trade,
         new.escrowed = ls[l].escrowed + 1, new.externalId = ls[l].externalId,
         new.status # CANCELLED, RemainingFits(new),
         t.listing = l, t.quantity > 0, ~t.settled
  PROVE  Good([ls EXCEPT ![l] = new], Append(ts, t), used)
<1> DEFINE after == [ls EXCEPT ![l] = new]
           grown == Append(ts, t)
<1>1. /\ after \in Seq(Listing) /\ Len(after) = Len(ls)
      /\ \A k \in 1..Len(ls) : after[k] = IF k = l THEN new ELSE ls[k]
  BY ExceptSeq DEF Good
<1>2. /\ grown \in Seq(Trade) /\ Len(grown) = Len(ts) + 1 /\ Len(ts) \in Nat
      /\ \A k \in 1..Len(ts) : grown[k] = ts[k]
      /\ grown[Len(ts) + 1] = t
      /\ DOMAIN grown = 1..Len(grown) /\ DOMAIN ts = 1..Len(ts)
  BY AppendProperties, LenProperties DEF Good
<1> HIDE DEF after, grown
<1>3. Unsettled(grown, l) = Unsettled(ts, l) \cup {Len(ts) + 1}
  BY <1>2 DEF Unsettled
<1>4. \A k \in 1..Len(ls) : k # l => Unsettled(grown, k) = Unsettled(ts, k)
  BY <1>2 DEF Unsettled
<1>5. Cardinality(Unsettled(grown, l)) = Cardinality(Unsettled(ts, l)) + 1
  <2>1. IsFiniteSet(Unsettled(ts, l)) /\ Len(ts) + 1 \notin Unsettled(ts, l)
    BY <1>2, UnsettledFinite DEF Good
  <2> QED
    BY ZenonT(30), <1>3, <2>1, FS_AddElement
<1>6. \A k \in 1..Len(after) : ListingGood(after, grown, used, k)
  <2>1. ListingGood(after, grown, used, l)
    BY <1>1, <1>5 DEF Good, ListingGood
  <2>2. \A k \in 1..Len(ls) : k # l => ListingGood(after, grown, used, k)
    BY <1>1, <1>4 DEF Good, ListingGood
  <2> QED
    BY <1>1, <2>1, <2>2
<1>7. \A i, j \in 1..Len(after) :
        i # j /\ after[i].externalId # None => after[i].externalId # after[j].externalId
  BY <1>1 DEF Good
<1>8. \A k \in 1..Len(grown) : grown[k].listing \in 1..Len(after) /\ grown[k].quantity > 0
  BY <1>1, <1>2 DEF Good
<1> QED
  BY <1>1, <1>2, <1>6, <1>7, <1>8 DEF Good, after, grown

\* A settlement or refund takes one trade out of the unsettled ones and, since
\* the count was right, one off the count.
LEMMA ReleaseKeepsGood ==
  ASSUME NEW ls, NEW ts, NEW used, Good(ls, ts, used),
         NEW t \in 1..Len(ts), NEW done \in Trade, NEW new \in Listing,
         ~ts[t].settled, done.settled,
         done.listing = ts[t].listing, done.quantity = ts[t].quantity,
         new.escrowed = Released(ls[ts[t].listing].escrowed),
         new.externalId = ls[ts[t].listing].externalId,
         new.status = CANCELLED => ls[ts[t].listing].status = CANCELLED,
         RemainingFits(new)
  PROVE  Good([ls EXCEPT ![ts[t].listing] = new], [ts EXCEPT ![t] = done], used)
<1> DEFINE l == ts[t].listing
           after == [ls EXCEPT ![l] = new]
           closed == [ts EXCEPT ![t] = done]
<1>0. l \in 1..Len(ls) /\ DOMAIN ts = 1..Len(ts)
  BY LenProperties DEF Good
<1>1. /\ after \in Seq(Listing) /\ Len(after) = Len(ls)
      /\ \A k \in 1..Len(ls) : after[k] = IF k = l THEN new ELSE ls[k]
  BY <1>0, ExceptSeq DEF Good
<1>2. /\ closed \in Seq(Trade) /\ Len(closed) = Len(ts)
      /\ \A k \in 1..Len(ts) : closed[k] = IF k = t THEN done ELSE ts[k]
  BY ExceptSeq DEF Good
<1>3. DOMAIN closed = 1..Len(ts)
  BY <1>2, LenProperties
<1> HIDE DEF after, closed
<1>4. t \in Unsettled(ts, l) /\ Unsettled(closed, l) = Unsettled(ts, l) \ {t}
  BY <1>0, <1>2, <1>3 DEF Unsettled
<1>5. \A k \in 1..Len(ls) : k # l => Unsettled(closed, k) = Unsettled(ts, k)
  BY <1>0, <1>2, <1>3 DEF Unsettled
<1>6. IsFiniteSet(Unsettled(ts, l))
  BY UnsettledFinite DEF Good
<1>7. Cardinality(Unsettled(ts, l)) \in Nat /\ Cardinality(Unsettled(ts, l)) > 0
  BY <1>4, <1>6, FS_EmptySet, FS_CardinalityType
<1>8. Cardinality(Unsettled(closed, l)) = Cardinality(Unsettled(ts, l)) - 1
  BY <1>4, <1>6, FS_RemoveElement
<1>9. new.escrowed = Cardinality(Unsettled(closed, l))
  BY <1>0, <1>7, <1>8 DEF Good, ListingGood, Released
<1>10. \A k \in 1..Len(after) : ListingGood(after, closed, used, k)
  <2>1. ListingGood(after, closed, used, l)
    BY <1>0, <1>1, <1>4, <1>9 DEF Good, ListingGood
  <2>2. \A k \in 1..Len(ls) : k # l => ListingGood(after, closed, used, k)
    BY <1>1, <1>5 DEF Good, ListingGood
  <2> QED
    BY <1>1, <2>1, <2>2
<1>11. \A i, j \in 1..Len(after) :
        i # j /\ after[i].externalId # None => after[i].externalId # after[j].externalId
  BY <1>0, <1>1 DEF Good
<1>12. \A k \in 1..Len(closed) : closed[k].listing \in 1..Len(after) /\ closed[k].quantity > 0
  BY <1>1, <1>2 DEF Good
<1> QED
  BY <1>1, <1>2, <1>10, <1>11, <1>12 DEF Good, after, closed, l

-----------------------------------------------------------------------------
(* Functions of the contract *)

FrameOK ==
  frame # None =>
    /\ frame \in Frame
    /\ Good(frame.listings, frame.trades, frame.externalIdUsed)

\* The inductive invariant: both storages are good.
IInv ==
  /\ Good(listings, trades, externalIdUsed)
  /\ balance \in Nat /\ paused \in BOOLEAN
  /\ FrameOK

LEMMA InitIInv == Init => IInv
<1> SUFFICES ASSUME Init PROVE IInv
  OBVIOUS
<1>1. /\ listings \in Seq(Listing) /\ Len(listings) = 0
      /\ trades \in Seq(Trade) /\ Len(trades) = 0
  BY EmptySeq DEF Init
<1>2. 1..0 = {}
  OBVIOUS
<1>3. Good(listings, trades, externalIdUsed)
  <2>1. externalIdUsed = {}
    BY DEF Init
  <2> QED
    BY <1>1, <1>2, <2>1 DEF Good
<1>4. balance = 0 /\ paused = FALSE /\ frame = None
  BY DEF Init
<1> QED
  BY <1>3, <1>4 DEF IInv, FrameOK

\* An edit or a cancellation is the replacement of one listing.
LEMMA EditPreserves ==
  ASSUME IInv, NEW sender \in Accounts, NEW l \in DOMAIN listings,
         \/ \E q \in Quantities, p \in Prices : updateListing(sender, l, q, p)
         \/ cancelListing(sender, l)
  PROVE  IInv'
<1>1. l \in 1..Len(listings) /\ listings[l] \in Listing
  BY LenProperties, ElementOfSeq DEF IInv, Good
<1>2. CASE \E q \in Quantities, p \in Prices : updateListing(sender, l, q, p)
  <2>1. PICK q \in Quantities, p \in Prices : updateListing(sender, l, q, p)
    BY <1>2
  <2> DEFINE new == [listings[l] EXCEPT !.remaining = q, !.price = p,
                                        !.status = IF q = 0 THEN SOLD_OUT ELSE ACTIVE]
  <2>2. q \in 0..MaxWord
    BY MarketplaceAssumption DEF MarketplaceAssumption
  <2>3. new \in Listing
    BY <1>1, <2>2 DEF Listing
  <2>4. /\ new.escrowed = listings[l].escrowed /\ new.externalId = listings[l].externalId
        /\ new.status # CANCELLED /\ RemainingFits(new)
    BY <1>1, <2>2 DEF Listing, RemainingFits, ACTIVE, SOLD_OUT, CANCELLED
  <2>5. listings' = [listings EXCEPT ![l] = new]
    BY <2>1 DEF updateListing
  <2>6. UNCHANGED <<trades, externalIdUsed, balance, paused, frame>>
    BY <2>1 DEF updateListing
  <2> HIDE DEF new
  <2>7. Good(listings', trades, externalIdUsed)
    BY <1>1, <2>3, <2>4, <2>5, EditKeepsGood DEF IInv
  <2> QED
    BY <2>6, <2>7 DEF IInv, FrameOK
<1>3. CASE cancelListing(sender, l)
  <2> DEFINE new == [listings[l] EXCEPT !.status = CANCELLED]
  <2>1. new \in Listing
    BY <1>1 DEF Listing, CANCELLED
  <2>2. /\ new.escrowed = listings[l].escrowed /\ new.externalId = listings[l].externalId
        /\ RemainingFits(new)
    BY <1>1 DEF Listing, RemainingFits, ACTIVE, SOLD_OUT, CANCELLED
  <2>3. listings[l].escrowed = 0
    BY <1>3 DEF cancelListing
  <2>4. Unsettled(trades, l) = {}
    <3>1. Cardinality(Unsettled(trades, l)) = 0
      BY <1>1, <2>3 DEF IInv, Good, ListingGood
    <3>2. IsFiniteSet(Unsettled(trades, l))
      BY UnsettledFinite DEF IInv, Good
    <3> QED
      BY <3>1, <3>2, FS_EmptySet
  <2>5. listings' = [listings EXCEPT ![l] = new]
    BY <1>3 DEF cancelListing
  <2>6. UNCHANGED <<trades, externalIdUsed, balance, paused, frame>>
    BY <1>3 DEF cancelListing
  <2> HIDE DEF new
  <2>7. Good(listings', trades, externalIdUsed)
    BY <1>1, <2>1, <2>2, <2>4, <2>5, EditKeepsGood DEF IInv
  <2> QED
    BY <2>6, <2>7 DEF IInv, FrameOK
<1> QED
  BY <1>2, <1>3

LEMMA CreatePreserves ==
  ASSUME IInv, NEW sender \in Accounts, NEW q \in Quantities, NEW p \in Prices,
         NEW x \in ExternalIds \cup {None}, createListing(sender, q, p, x)
  PROVE  IInv'
<1> DEFINE new == [seller |-> sender, remaining |-> q, price |-> p,
                   externalId |-> x, status |-> ACTIVE, escrowed |-> 0]
<1>1. q \in 0..MaxWord /\ q > 0
  BY MarketplaceAssumption DEF MarketplaceAssumption, createListing
<1>2. new \in Listing
  BY <1>1 DEF Listing
<1>3. /\ new.escrowed = 0 /\ new.status = ACTIVE /\ new.remaining > 0
      /\ new.externalId = x /\ x \notin externalIdUsed
  BY <1>1 DEF createListing
<1>4. /\ listings' = Append(listings, new)
      /\ externalIdUsed' = externalIdUsed \cup ({x} \ {None})
      /\ UNCHANGED <<trades, balance, paused, frame>>
  BY DEF createListing
<1> HIDE DEF new
<1>5. Good(listings', trades, externalIdUsed')
  BY <1>2, <1>3, <1>4, NewListingKeepsGood DEF IInv
<1> QED
  BY <1>4, <1>5 DEF IInv, FrameOK

LEMMA PurchasePreserves ==
  ASSUME IInv, NEW sender \in Accounts, NEW l \in DOMAIN listings, NEW q \in Quantities,
         purchaseEnergy(sender, l, q)
  PROVE  IInv'
<1> DEFINE left == listings[l].remaining - q
           totalPaid == q * listings[l].price
           new == [listings[l] EXCEPT !.remaining = left, !.escrowed = @ + 1,
                                      !.status = IF left = 0 THEN SOLD_OUT ELSE @]
           t == [listing |-> l, seller |-> listings[l].seller, buyer |-> sender,
                 quantity |-> q, totalPaid |-> totalPaid,
                 settled |-> FALSE, outcome |-> "held"]
<1>1. l \in 1..Len(listings) /\ listings[l] \in Listing /\ Len(listings) \in Nat
  BY LenProperties, ElementOfSeq DEF IInv, Good
<1>2. /\ listings[l].status = ACTIVE /\ q > 0 /\ q <= listings[l].remaining
      /\ totalPaid <= MaxWord
  BY DEF purchaseEnergy
<1>3. left \in 0..MaxWord /\ q \in Nat
  BY <1>1, <1>2, MarketplaceAssumption DEF Listing, MarketplaceAssumption
<1>4. totalPaid \in 0..MaxWord
  <2>1. listings[l].price \in Nat
    <3>1. \A p \in Prices : p \in Nat
      BY MarketplaceAssumption DEF MarketplaceAssumption
    <3>2. \A r \in Listing : r.price \in Prices
      BY DEF Listing
    <3> QED
      BY <1>1, <3>1, <3>2
  <2>2. \A a, b \in Nat : a * b \in Nat
    OBVIOUS
  <2>3. totalPaid \in Nat
    BY <1>3, <2>1, <2>2
  <2> HIDE DEF totalPaid
  <2> QED
    BY <1>2, <2>3, MarketplaceAssumption DEF MarketplaceAssumption
<1> HIDE DEF left, totalPaid
<1>5. new \in Listing
  <2>1. \A r \in Listing, n \in 0..MaxWord, e \in Nat, s \in {ACTIVE, CANCELLED, SOLD_OUT} :
          [r EXCEPT !.remaining = n, !.escrowed = e, !.status = s] \in Listing
    BY DEF Listing
  <2>2. /\ listings[l].escrowed + 1 \in Nat
        /\ (IF left = 0 THEN SOLD_OUT ELSE listings[l].status) \in {ACTIVE, CANCELLED, SOLD_OUT}
    BY <1>1 DEF Listing
  <2> HIDE DEF t
  <2> QED
    BY <1>1, <1>3, <2>1, <2>2
<1>6. /\ new.escrowed = listings[l].escrowed + 1
      /\ new.externalId = listings[l].externalId
      /\ new.status # CANCELLED /\ RemainingFits(new)
  BY <1>1, <1>2, <1>3 DEF Listing, RemainingFits, ACTIVE, SOLD_OUT, CANCELLED
<1>7. t \in Trade /\ t.listing = l /\ t.quantity > 0 /\ ~t.settled
  BY <1>1, <1>2, <1>4 DEF Trade, Listing
<1>8. /\ listings' = [listings EXCEPT ![l] = new]
      /\ trades' = Append(trades, t)
      /\ balance' = balance + totalPaid
      /\ UNCHANGED <<externalIdUsed, paused, frame>>
  BY DEF purchaseEnergy, left, totalPaid
<1> HIDE DEF new, t
<1>9. Good(listings', trades', externalIdUsed)
  BY <1>1, <1>5, <1>6, <1>7, <1>8, PurchaseKeepsGood DEF IInv
<1>10. balance' \in Nat
  BY <1>4, <1>8, MarketplaceAssumption DEF IInv, MarketplaceAssumption
<1> QED
  BY <1>8, <1>9, <1>10 DEF IInv, FrameOK

\* The transfer keeps the storage as it was, which is good.
LEMMA TransferFrame ==
  ASSUME IInv, NEW to \in Accounts, NEW amount \in Nat, sendValue(to, amount)
  PROVE  FrameOK' /\ balance' \in Nat
<1> DEFINE f == [to |-> to, listings |-> listings, trades |-> trades,
                 externalIdUsed |-> externalIdUsed, balance |-> balance,
                 paused |-> paused]
<1>1. f \in Frame /\ Good(f.listings, f.trades, f.externalIdUsed)
  BY DEF IInv, Good, Frame
<1>2. frame' = f
  BY DEF sendValue
<1>3. balance' \in Nat
  BY DEF IInv, sendValue
<1> HIDE DEF f
<1> QED
  BY <1>1, <1>2, <1>3 DEF FrameOK

LEMMA ReleasePreserves ==
  ASSUME IInv, NEW sender \in Accounts, NEW t \in DOMAIN trades,
         settleTrade(sender, t) \/ refundTrade(sender, t)
  PROVE  IInv'
<1> DEFINE l == trades[t].listing
           left == listings[l].remaining + trades[t].quantity
           count == Released(listings[l].escrowed)
<1>1. /\ t \in 1..Len(trades) /\ trades[t] \in Trade
      /\ l \in 1..Len(listings) /\ listings[l] \in Listing
      /\ trades[t].quantity > 0
  BY LenProperties, ElementOfSeq DEF IInv, Good
<1>2. count \in Nat
  BY <1>1 DEF Listing, Released
<1>3. /\ trades[t].seller \in Accounts /\ trades[t].buyer \in Accounts
      /\ trades[t].totalPaid \in Nat
  BY <1>1, MarketplaceAssumption DEF Trade, MarketplaceAssumption
<1> HIDE DEF count
<1>4. CASE settleTrade(sender, t)
  <2> DEFINE new == [listings[l] EXCEPT !.escrowed = count]
             done == [trades[t] EXCEPT !.settled = TRUE, !.outcome = "released"]
  <2>1. new \in Listing /\ done \in Trade
    BY <1>1, <1>2 DEF Listing, Trade
  <2>2. /\ ~trades[t].settled /\ done.settled /\ done.listing = l
        /\ done.quantity = trades[t].quantity
        /\ new.escrowed = count /\ new.externalId = listings[l].externalId
        /\ new.status = listings[l].status /\ new.remaining = listings[l].remaining
    BY <1>1, <1>4 DEF Listing, Trade, settleTrade
  <2>3. RemainingFits(new)
    BY <1>1, <2>2 DEF IInv, Good, ListingGood, RemainingFits
  <2>4. /\ listings' = [listings EXCEPT ![l] = new]
        /\ trades' = [trades EXCEPT ![t] = done]
        /\ UNCHANGED <<externalIdUsed, paused>>
    BY <1>1, <1>4 DEF settleTrade, count, Listing
  <2>5. sendValue(trades[t].seller, trades[t].totalPaid)
    BY <1>4 DEF settleTrade
  <2> HIDE DEF new, done
  <2>6. Good(listings', trades', externalIdUsed)
    BY <1>1, <2>1, <2>2, <2>3, <2>4, ReleaseKeepsGood DEF IInv, count
  <2>7. FrameOK' /\ balance' \in Nat
    BY <1>3, <2>5, TransferFrame
  <2> QED
    BY <2>4, <2>6, <2>7 DEF IInv
<1>5. CASE refundTrade(sender, t)
  <2> DEFINE new == [listings[l] EXCEPT !.escrowed = count, !.remaining = left,
                                        !.status = IF @ = SOLD_OUT THEN ACTIVE ELSE @]
             done == [trades[t] EXCEPT !.settled = TRUE, !.outcome = "returned"]
  <2>1. left \in 0..MaxWord /\ left > 0
    BY <1>1, <1>5, MarketplaceAssumption
       DEF refundTrade, Listing, Trade, MarketplaceAssumption
  <2>2. /\ listings' = [listings EXCEPT ![l] = new]
        /\ trades' = [trades EXCEPT ![t] = done]
        /\ UNCHANGED <<externalIdUsed, paused>>
    BY <1>1, <1>5 DEF refundTrade, StatusAfterRefund, count, Listing
  <2> HIDE DEF left
  <2>3. new \in Listing /\ done \in Trade
    BY <1>1, <1>2, <2>1 DEF Listing, Trade
  <2>4. /\ ~trades[t].settled /\ done.settled /\ done.listing = l
        /\ done.quantity = trades[t].quantity
        /\ new.escrowed = count /\ new.externalId = listings[l].externalId
        /\ new.status = CANCELLED => listings[l].status = CANCELLED
    BY <1>1, <1>5 DEF Listing, Trade, refundTrade, ACTIVE, CANCELLED
  <2>5. RemainingFits(new)
    BY <1>1, <2>1 DEF Listing, RemainingFits, ACTIVE, SOLD_OUT
  <2>6. sendValue(trades[t].buyer, trades[t].totalPaid)
    BY <1>5 DEF refundTrade
  <2> HIDE DEF new, done
  <2>7. Good(listings', trades', externalIdUsed)
    BY <1>1, <2>2, <2>3, <2>4, <2>5, ReleaseKeepsGood DEF IInv, count
  <2>8. FrameOK' /\ balance' \in Nat
    BY <1>3, <2>6, TransferFrame
  <2> QED
    BY <2>2, <2>7, <2>8 DEF IInv
<1> QED
  BY <1>4, <1>5

LEMMA OthersPreserve ==
  ASSUME IInv,
         \/ \E a \in Accounts : pause(a) \/ unpause(a)
         \/ transferReturns \/ transferReverts \/ UNCHANGED vars
  PROVE  IInv'
<1>1. CASE \E a \in Accounts : pause(a) \/ unpause(a)
  BY <1>1 DEF pause, unpause, IInv, FrameOK
<1>2. CASE transferReturns
  BY <1>2 DEF transferReturns, storage, IInv, FrameOK
<1>3. CASE transferReverts
  BY <1>3 DEF transferReverts, IInv, FrameOK, Frame
<1>4. CASE UNCHANGED vars
  BY <1>4 DEF vars, storage, IInv, FrameOK
<1> QED
  BY <1>1, <1>2, <1>3, <1>4

LEMMA StepPreserves == IInv /\ [Next]_vars => IInv'
<1> SUFFICES ASSUME IInv, [Next]_vars PROVE IInv'
  OBVIOUS
<1> QED
  BY CreatePreserves, EditPreserves, PurchasePreserves, ReleasePreserves, OthersPreserve
     DEF Next

\* What a good storage means for the properties.
LEMMA GoodStorage ==
  ASSUME NEW ls, NEW ts, NEW used, Good(ls, ts, used), NEW money \in Nat,
         NEW stopped \in BOOLEAN
  PROVE  StorageOK(ls, ts, used, money, stopped)
BY LenProperties DEF Good, StorageOK

LEMMA IInvImplies ==
  ASSUME IInv
  PROVE  /\ TypeOK /\ EscrowCountsUnsettled /\ CancelledHoldsNoEscrow
         /\ StatusTellsRemaining /\ ExternalIdIsUnique
<1>1. DOMAIN listings = 1..Len(listings)
  BY LenProperties DEF IInv, Good
<1>2. TypeOK
  BY GoodStorage DEF IInv, FrameOK, Frame, TypeOK
<1>3. EscrowCountsUnsettled /\ CancelledHoldsNoEscrow
  BY <1>1 DEF IInv, Good, ListingGood, EscrowCountsUnsettled, CancelledHoldsNoEscrow
<1>4. StatusTellsRemaining
  BY <1>1 DEF IInv, Good, ListingGood, RemainingFits, StatusTellsRemaining
<1>5. ExternalIdIsUnique
  BY <1>1 DEF IInv, Good, ExternalIdIsUnique
<1> QED
  BY <1>2, <1>3, <1>4, <1>5

-----------------------------------------------------------------------------
(* Money *)

Due(t) == IF t.settled THEN 0 ELSE t.totalPaid
Dues(ts) == [t \in DOMAIN ts |-> Due(ts[t])]

LEMMA DuesType ==
  ASSUME NEW ts \in Seq(Trade)
  PROVE  /\ Dues(ts) \in Seq(Nat) /\ Len(Dues(ts)) = Len(ts) /\ Held(ts) = Total(Dues(ts))
         /\ \A t \in 1..Len(ts) : Dues(ts)[t] = Due(ts[t])
<1>1. DOMAIN ts = 1..Len(ts) /\ Len(ts) \in Nat /\ \A t \in 1..Len(ts) : ts[t] \in Trade
  BY LenProperties, ElementOfSeq
<1>2. \A t \in Trade : Due(t) \in Nat
  BY MarketplaceAssumption DEF Trade, Due, MarketplaceAssumption
<1>3. Dues(ts) = [t \in 1..Len(ts) |-> Due(ts[t])]
  BY <1>1 DEF Dues
<1>4. Dues(ts) \in Seq(Nat) /\ Len(Dues(ts)) = Len(ts)
  BY <1>1, <1>2, <1>3, IsASeq
<1>5. Held(ts) = Total(Dues(ts))
  BY DEF Held, Dues, Due
<1> QED
  BY <1>3, <1>4, <1>5

\* A purchase adds what it paid.
LEMMA HeldGrows ==
  ASSUME NEW ts \in Seq(Trade), NEW t \in Trade, ~t.settled
  PROVE  Held(Append(ts, t)) = Held(ts) + t.totalPaid
<1> DEFINE grown == Append(ts, t)
           more == Append(Dues(ts), t.totalPaid)
<1>1. /\ grown \in Seq(Trade) /\ Len(grown) = Len(ts) + 1 /\ Len(ts) \in Nat
      /\ \A k \in 1..Len(ts) : grown[k] = ts[k]
      /\ grown[Len(ts) + 1] = t
  BY AppendProperties, LenProperties
<1>2. t.totalPaid \in Nat /\ Due(t) = t.totalPaid
  BY MarketplaceAssumption DEF Trade, Due, MarketplaceAssumption
<1>3. /\ more \in Seq(Nat) /\ Len(more) = Len(ts) + 1
      /\ \A k \in 1..Len(ts) : more[k] = Due(ts[k])
      /\ more[Len(ts) + 1] = t.totalPaid
  BY <1>2, DuesType, AppendProperties, LenProperties
<1>4. Dues(grown) = more
  <2>1. /\ Dues(grown) \in Seq(Nat) /\ Len(Dues(grown)) = Len(ts) + 1
        /\ \A k \in 1..(Len(ts) + 1) : Dues(grown)[k] = Due(grown[k])
    BY <1>1, DuesType
  <2> HIDE DEF grown, more
  <2>2. \A k \in 1..(Len(ts) + 1) : Dues(grown)[k] = more[k]
    <3>1. \A k \in 1..(Len(ts) + 1) : k \in 1..Len(ts) \/ k = Len(ts) + 1
      BY <1>1
    <3> QED
      BY <1>1, <1>2, <1>3, <2>1, <3>1
  <2> QED
    BY <1>3, <2>1, <2>2, SeqEqual
<1>5. Held(grown) = Total(Dues(ts)) + t.totalPaid
  BY <1>1, <1>2, <1>4, DuesType, AppendTotal
<1> QED
  BY <1>5, DuesType

\* A settlement or refund takes off what its trade paid.
LEMMA HeldShrinks ==
  ASSUME NEW ts \in Seq(Trade), NEW t \in 1..Len(ts), NEW done \in Trade,
         ~ts[t].settled, done.settled
  PROVE  Held([ts EXCEPT ![t] = done]) = Held(ts) - ts[t].totalPaid
<1> DEFINE closed == [ts EXCEPT ![t] = done]
           less == [Dues(ts) EXCEPT ![t] = 0]
<1>1. /\ closed \in Seq(Trade) /\ Len(closed) = Len(ts) /\ Len(ts) \in Nat
      /\ \A k \in 1..Len(ts) : closed[k] = IF k = t THEN done ELSE ts[k]
  BY ExceptSeq, LenProperties
<1>2. /\ less \in Seq(Nat) /\ Len(less) = Len(ts)
      /\ \A k \in 1..Len(ts) : less[k] = IF k = t THEN 0 ELSE Due(ts[k])
  BY DuesType, ExceptSeq
<1>3. Dues(closed) = less
  <2>1. /\ Dues(closed) \in Seq(Nat) /\ Len(Dues(closed)) = Len(ts)
        /\ \A k \in 1..Len(ts) : Dues(closed)[k] = Due(closed[k])
    BY <1>1, DuesType
  <2> HIDE DEF closed, less
  <2>2. \A k \in 1..Len(ts) : Dues(closed)[k] = less[k]
    BY <1>1, <1>2, <2>1 DEF Due
  <2> QED
    BY <1>2, <2>1, <2>2, SeqEqual
<1>4. Dues(ts)[t] = ts[t].totalPaid
  BY DuesType DEF Due
<1>5. /\ Total(less) = Total(Dues(ts)) - ts[t].totalPaid + 0
      /\ Total(Dues(ts)) \in Nat
  BY <1>4, DuesType, ExceptTotal, NatTotal
<1>6. ts[t].totalPaid \in Nat
  <2>1. ts[t] \in Trade
    BY ElementOfSeq
  <2> QED
    BY <2>1, MarketplaceAssumption DEF Trade, MarketplaceAssumption
<1>7. Held(closed) = Total(less)
  BY <1>1, <1>3, DuesType
<1> QED
  BY <1>5, <1>6, <1>7, DuesType

\* Whatever is written, listings stay and a cancelled one stays cancelled.
StayCancelled(before, after) ==
  /\ DOMAIN before \subseteq DOMAIN after
  /\ \A l \in DOMAIN before : before[l].status = CANCELLED => after[l].status = CANCELLED

LEMMA StayCancelledComposes ==
  ASSUME NEW a, NEW b, NEW c, StayCancelled(a, b), StayCancelled(b, c)
  PROVE  StayCancelled(a, c)
BY DEF StayCancelled

\* One listing is written, and its status is kept if it was CANCELLED.
LEMMA OneWritten ==
  ASSUME IInv, NEW l \in DOMAIN listings, NEW new,
         listings[l].status = CANCELLED => new.status = CANCELLED
  PROVE  StayCancelled(listings, [listings EXCEPT ![l] = new])
BY DEF StayCancelled

LEMMA NobodyReopens ==
  ASSUME IInv, [Next]_vars, ~transferReverts
  PROVE  StayCancelled(listings, listings')
<1>1. /\ listings \in Seq(Listing) /\ Len(listings) \in Nat
      /\ DOMAIN listings = 1..Len(listings)
      /\ \A l \in DOMAIN listings : listings[l] \in Listing
  BY LenProperties, ElementOfSeq DEF IInv, Good
<1>2. CASE UNCHANGED listings
  BY <1>2 DEF StayCancelled
<1>3. ASSUME NEW a \in Accounts, NEW q \in Quantities, NEW p \in Prices,
             NEW x \in ExternalIds \cup {None}, createListing(a, q, p, x)
      PROVE  StayCancelled(listings, listings')
  <2>1. PICK row : listings' = Append(listings, row) /\ row \in Listing
    <3> DEFINE new == [seller |-> a, remaining |-> q, price |-> p,
                       externalId |-> x, status |-> ACTIVE, escrowed |-> 0]
    <3>1. new \in Listing /\ listings' = Append(listings, new)
      BY <1>3, MarketplaceAssumption DEF createListing, Listing, MarketplaceAssumption
    <3> QED
      BY <3>1
  <2>2. /\ DOMAIN listings' = 1..(Len(listings) + 1)
        /\ \A l \in 1..Len(listings) : listings'[l] = listings[l]
    BY <1>1, <2>1, AppendProperties, LenProperties
  <2> QED
    BY <1>1, <2>2 DEF StayCancelled
<1>4. ASSUME NEW a \in Accounts, NEW l \in DOMAIN listings, NEW q \in Quantities, NEW p \in Prices,
             updateListing(a, l, q, p)
      PROVE  StayCancelled(listings, listings')
  <2>1. /\ listings[l].status # CANCELLED
        /\ listings' = [listings EXCEPT ![l] =
             [listings[l] EXCEPT !.remaining = q, !.price = p,
                                 !.status = IF q = 0 THEN SOLD_OUT ELSE ACTIVE]]
    BY <1>4 DEF updateListing
  <2> QED
    BY <2>1, OneWritten
<1>5. ASSUME NEW a \in Accounts, NEW l \in DOMAIN listings, cancelListing(a, l)
      PROVE  StayCancelled(listings, listings')
  <2>1. listings' = [listings EXCEPT ![l] = [listings[l] EXCEPT !.status = CANCELLED]]
    BY <1>5 DEF cancelListing
  <2>2. [listings[l] EXCEPT !.status = CANCELLED].status = CANCELLED
    BY <1>1 DEF Listing
  <2> QED
    BY <2>1, <2>2, OneWritten
<1>6. ASSUME NEW a \in Accounts, NEW l \in DOMAIN listings, NEW q \in Quantities,
             purchaseEnergy(a, l, q)
      PROVE  StayCancelled(listings, listings')
  <2>1. PICK new : listings' = [listings EXCEPT ![l] = new]
    BY <1>6 DEF purchaseEnergy
  <2>2. listings[l].status # CANCELLED
    BY <1>6 DEF purchaseEnergy, ACTIVE, CANCELLED
  <2> QED
    BY <2>1, <2>2, OneWritten
<1>7. ASSUME NEW a \in Accounts, NEW t \in DOMAIN trades,
             settleTrade(a, t) \/ refundTrade(a, t)
      PROVE  StayCancelled(listings, listings')
  <2> DEFINE l == trades[t].listing
             count == Released(listings[l].escrowed)
             left == listings[l].remaining + trades[t].quantity
  <2>1. l \in DOMAIN listings
    BY <1>1, LenProperties DEF IInv, Good
  <2>2. CASE settleTrade(a, t)
    <3>1. listings' = [listings EXCEPT ![l] = [listings[l] EXCEPT !.escrowed = count]]
      BY <1>1, <2>1, <2>2 DEF settleTrade, Listing
    <3>2. [listings[l] EXCEPT !.escrowed = count].status = listings[l].status
      BY <1>1, <2>1 DEF Listing
    <3> HIDE DEF l, count
    <3> QED
      BY <2>1, <3>1, <3>2, OneWritten
  <2>3. CASE refundTrade(a, t)
    <3> DEFINE new == [listings[l] EXCEPT !.escrowed = count, !.remaining = left,
                                          !.status = StatusAfterRefund(@)]
    <3>1. listings' = [listings EXCEPT ![l] = new]
      BY <1>1, <2>1, <2>3 DEF refundTrade, Listing
    <3>2. new.status = StatusAfterRefund(listings[l].status)
      BY <1>1, <2>1 DEF Listing
    <3>3. listings[l].status = CANCELLED => new.status = CANCELLED
      BY <3>2 DEF StatusAfterRefund, CANCELLED, SOLD_OUT
    <3> HIDE DEF l, new
    <3> QED
      BY <2>1, <3>1, <3>3, OneWritten
  <2> QED
    BY <1>7, <2>2, <2>3
<1>8. (\E a \in Accounts : pause(a) \/ unpause(a)) \/ transferReturns \/ UNCHANGED vars
        => UNCHANGED listings
  BY DEF pause, unpause, transferReturns, vars, storage
<1> QED
  BY <1>2, <1>3, <1>4, <1>5, <1>6, <1>7, <1>8 DEF Next

\* The money of a storage is that of its open trades, and the trades with an
\* outcome are the settled ones.
Accounted(ts, money) ==
  /\ money = Held(ts)
  /\ Len(ts) <= MaxTrades
  /\ \A t \in DOMAIN ts : ts[t].settled <=> ts[t].outcome # "held"

Closed(ts, t, how) == [ts EXCEPT ![t].settled = TRUE, ![t].outcome = how]

\* A transfer pays out one open trade of the storage it would revert to, and
\* nothing else has moved money since.
Pays(f) ==
  \E t \in DOMAIN f.trades, how \in {"released", "returned"} :
    /\ ~f.trades[t].settled
    /\ trades = Closed(f.trades, t, how)
    /\ balance = f.balance - f.trades[t].totalPaid

\* The second inductive invariant: both storages are accounted for, and the
\* current one is the saved one with one trade paid out.
MoneyInv ==
  /\ Accounted(trades, balance)
  /\ frame # None => /\ Accounted(frame.trades, frame.balance)
                     /\ Pays(frame)
                     /\ StayCancelled(frame.listings, listings)

LEMMA InitMoneyInv == Init => MoneyInv
<1> SUFFICES ASSUME Init PROVE MoneyInv
  OBVIOUS
<1>1. trades = <<>> /\ Len(trades) = 0 /\ trades \in Seq(Trade) /\ balance = 0 /\ frame = None
  BY EmptySeq DEF Init
<1>2. Held(trades) = 0
  BY <1>1, DuesType, EmptyTotal
<1>3. DOMAIN trades = {}
  BY <1>1
<1> QED
  BY <1>1, <1>2, <1>3, MarketplaceAssumption DEF MoneyInv, Accounted, MarketplaceAssumption

\* Closing an open trade takes what it paid off the books.
LEMMA ClosedAccounted ==
  ASSUME NEW ts \in Seq(Trade), NEW money, Accounted(ts, money), NEW t \in DOMAIN ts,
         NEW how \in {"released", "returned"}, ~ts[t].settled
  PROVE  Accounted(Closed(ts, t, how), money - ts[t].totalPaid)
<1> DEFINE done == [ts[t] EXCEPT !.settled = TRUE, !.outcome = how]
           closed == [ts EXCEPT ![t] = done]
<1>1. t \in 1..Len(ts) /\ ts[t] \in Trade
  BY LenProperties, ElementOfSeq
<1>2. done \in Trade /\ done.settled /\ done.outcome = how
  BY <1>1 DEF Trade
<1>3. Closed(ts, t, how) = closed
  BY <1>1 DEF Closed, Trade
<1> HIDE DEF done
<1>4. Held(closed) = money - ts[t].totalPaid
  BY <1>1, <1>2, HeldShrinks DEF Accounted
<1>5. Len(closed) = Len(ts)
  BY <1>1, <1>2, ExceptSeq
<1>6. \A k \in DOMAIN closed : closed[k].settled <=> closed[k].outcome # "held"
  BY <1>2 DEF Accounted
<1> QED
  BY <1>3, <1>4, <1>5, <1>6 DEF Accounted

LEMMA PurchaseAccounts ==
  ASSUME IInv, MoneyInv, NEW sender \in Accounts, NEW l \in DOMAIN listings,
         NEW q \in Quantities, purchaseEnergy(sender, l, q)
  PROVE  MoneyInv' /\ frame = None /\ frame' = None
<1> DEFINE t == [listing |-> l, seller |-> listings[l].seller, buyer |-> sender,
                 quantity |-> q, totalPaid |-> q * listings[l].price,
                 settled |-> FALSE, outcome |-> "held"]
<1>1. /\ frame = None /\ frame' = None /\ Len(trades) < MaxTrades
      /\ trades' = Append(trades, t) /\ balance' = balance + t.totalPaid
  BY DEF purchaseEnergy
<1>2. trades \in Seq(Trade) /\ trades' \in Seq(Trade)
  BY PurchasePreserves DEF IInv, Good
<1>3. ~t.settled /\ t.outcome = "held"
  OBVIOUS
<1> HIDE DEF t
<1>4. /\ Len(trades') = Len(trades) + 1 /\ Len(trades) \in Nat
      /\ DOMAIN trades = 1..Len(trades) /\ DOMAIN trades' = 1..Len(trades')
      /\ \A k \in 1..Len(trades) : trades'[k] = trades[k]
      /\ trades'[Len(trades) + 1] = t
  BY <1>1, <1>2, LenProperties
<1>5. t \in Trade
  BY <1>2, <1>4, ElementOfSeq
<1>6. Held(trades') = Held(trades) + t.totalPaid
  BY <1>1, <1>2, <1>3, <1>5, HeldGrows
<1>7. \A k \in DOMAIN trades' : trades'[k].settled <=> trades'[k].outcome # "held"
  <2>1. \A k \in DOMAIN trades' : k \in DOMAIN trades \/ k = Len(trades) + 1
    BY <1>4
  <2> QED
    BY <1>3, <1>4, <2>1 DEF MoneyInv, Accounted
<1>8. Len(trades') <= MaxTrades
  BY <1>1, <1>4, MarketplaceAssumption DEF MarketplaceAssumption
<1> QED
  BY <1>1, <1>6, <1>7, <1>8 DEF MoneyInv, Accounted

\* settleTrade and refundTrade, up to the transfer.
LEMMA ReleaseAccounts ==
  ASSUME IInv, MoneyInv, NEW sender \in Accounts, NEW t \in DOMAIN trades,
         settleTrade(sender, t) \/ refundTrade(sender, t)
  PROVE  /\ MoneyInv' /\ frame = None /\ frame' # None
         /\ frame'.listings = listings /\ frame'.trades = trades /\ frame'.balance = balance
<1>1. PICK how \in {"released", "returned"} : trades' = Closed(trades, t, how)
  BY DEF settleTrade, refundTrade, Closed
<1>2. PICK to \in Accounts : sendValue(to, trades[t].totalPaid)
  <2>1. trades[t] \in Trade
    BY ElementOfSeq, LenProperties DEF IInv, Good
  <2>2. trades[t].seller \in Accounts /\ trades[t].buyer \in Accounts
    BY <2>1 DEF Trade
  <2> QED
    BY <2>2 DEF settleTrade, refundTrade
<1>3. /\ ~trades[t].settled /\ frame = None /\ balance' = balance - trades[t].totalPaid
  BY <1>2 DEF settleTrade, refundTrade, sendValue
<1>4. /\ frame' = [to |-> to, listings |-> listings, trades |-> trades,
                   externalIdUsed |-> externalIdUsed, balance |-> balance, paused |-> paused]
  BY <1>2 DEF sendValue
<1>5. /\ frame'.listings = listings /\ frame'.trades = trades /\ frame'.balance = balance
      /\ frame' # None
  <2>1. frame' \in Frame
    BY <1>4 DEF IInv, Good, Frame
  <2> QED
    BY <1>4, <2>1, FrameAssumption
<1>6. StayCancelled(listings, listings')
  <2>1. [Next]_vars /\ ~transferReverts
    BY <1>3 DEF Next, transferReverts
  <2> QED
    BY <2>1, NobodyReopens
<1>7. Accounted(trades', balance')
  BY <1>1, <1>3, ClosedAccounted DEF MoneyInv, IInv, Good
<1>8. Pays(frame)'
  BY <1>1, <1>3, <1>5 DEF Pays
<1> QED
  BY <1>3, <1>5, <1>6, <1>7, <1>8 DEF MoneyInv

\* The functions that move no money, and steps inside a transfer.
LEMMA NoMoneyMoves ==
  ASSUME IInv, MoneyInv, [Next]_vars, UNCHANGED <<trades, balance, frame>>
  PROVE  MoneyInv'
<1>1. ~transferReverts
  BY DEF transferReverts
<1>2. StayCancelled(listings, listings')
  BY <1>1, NobodyReopens
<1>3. frame # None => StayCancelled(frame.listings, listings')
  BY <1>2, StayCancelledComposes DEF MoneyInv
<1> QED
  BY <1>3 DEF MoneyInv, Pays

\* What a step does to the money, seen from outside the transactions.
LEMMA StepKinds ==
  ASSUME IInv, MoneyInv, [Next]_vars
  PROVE  \/ \E a \in Accounts, l \in DOMAIN listings, q \in Quantities : purchaseEnergy(a, l, q)
         \/ \E a \in Accounts, t \in DOMAIN trades : settleTrade(a, t) \/ refundTrade(a, t)
         \/ transferReturns \/ transferReverts
         \/ UNCHANGED <<trades, balance, frame>>
<1>1. CASE \/ \E a \in Accounts : pause(a) \/ unpause(a)
           \/ \E a \in Accounts, q \in Quantities, p \in Prices,
                 x \in ExternalIds \cup {None} : createListing(a, q, p, x)
           \/ \E a \in Accounts, l \in DOMAIN listings, q \in Quantities, p \in Prices :
                updateListing(a, l, q, p)
           \/ \E a \in Accounts, l \in DOMAIN listings : cancelListing(a, l)
           \/ UNCHANGED vars
  BY <1>1 DEF pause, unpause, createListing, updateListing, cancelListing, vars, storage
<1> QED
  BY <1>1 DEF Next

LEMMA MoneyStep == IInv /\ MoneyInv /\ [Next]_vars => MoneyInv'
<1> SUFFICES ASSUME IInv, MoneyInv, [Next]_vars PROVE MoneyInv'
  OBVIOUS
<1>1. CASE transferReturns
  BY <1>1 DEF transferReturns, storage, MoneyInv
<1>2. CASE transferReverts
  BY <1>2 DEF transferReverts, MoneyInv
<1> QED
  BY <1>1, <1>2, StepKinds, PurchaseAccounts, ReleaseAccounts, NoMoneyMoves

-----------------------------------------------------------------------------
(* Results *)

\* The contract's storage is always well formed, and so is the storage a
\* reverting transfer restores.
THEOREM TypesHold == Spec => []TypeOK
BY InitIInv, StepPreserves, IInvImplies, PTL DEF Spec

\* listingEscrowed counts the unsettled purchases of each listing, at every
\* point of every transaction.
THEOREM EscrowCountHolds == Spec => []EscrowCountsUnsettled
BY InitIInv, StepPreserves, IInvImplies, PTL DEF Spec

\* A cancelled listing holds nobody's money.
THEOREM CancelledHoldsNoEscrowHolds == Spec => []CancelledHoldsNoEscrow
BY InitIInv, StepPreserves, IInvImplies, PTL DEF Spec

\* Status and remaining quantity of a listing agree.
THEOREM StatusTellsRemainingHolds == Spec => []StatusTellsRemaining
BY InitIInv, StepPreserves, IInvImplies, PTL DEF Spec

\* No two listings share a correlation id.
THEOREM ExternalIdHolds == Spec => []ExternalIdIsUnique
BY InitIInv, StepPreserves, IInvImplies, PTL DEF Spec

\* The contract holds exactly what the open trades paid, so no settlement or
\* refund fails for want of money, in any reachable storage.
THEOREM SolventHolds == Spec => []Solvent
<1>1. MoneyInv => Solvent
  BY DEF MoneyInv, Accounted, Solvent
<1> QED
  BY <1>1, InitIInv, StepPreserves, InitMoneyInv, MoneyStep, PTL DEF Spec

\* A cancellation that is committed is never undone: not by a refund, nor by a
\* revert, nor by calls that a recipient makes in the middle of a transfer.
THEOREM CancelIsFinalHolds == Spec => CancelIsFinal
<1>1. ASSUME IInv, MoneyInv, [Next]_vars
      PROVE  \A l \in CommittedListings :
               Committed(l).status = CANCELLED => Committed(l)'.status = CANCELLED
  <2>1. CASE transferReturns
    BY <1>1, <2>1 DEF transferReturns, storage, Committed, CommittedListings, MoneyInv,
                      StayCancelled
  <2>2. CASE transferReverts
    BY <2>2 DEF transferReverts, Committed, CommittedListings
  <2>3. CASE \E a \in Accounts, t \in DOMAIN trades : settleTrade(a, t) \/ refundTrade(a, t)
    BY <1>1, <2>3, ReleaseAccounts DEF Committed, CommittedListings
  <2>4. CASE UNCHANGED frame /\ ~transferReverts
    <3>1. StayCancelled(listings, listings')
      BY <1>1, <2>4, NobodyReopens
    <3> QED
      BY <2>4, <3>1 DEF StayCancelled, Committed, CommittedListings
  <2>5. CASE \E a \in Accounts, l \in DOMAIN listings, q \in Quantities : purchaseEnergy(a, l, q)
    BY <1>1, <2>4, <2>5, PurchaseAccounts DEF transferReverts
  <2>6. CASE UNCHANGED <<trades, balance, frame>>
    BY <2>4, <2>6 DEF transferReverts
  <2> QED
    BY <1>1, <2>1, <2>2, <2>3, <2>5, <2>6, StepKinds
<1> QED
  BY <1>1, InitIInv, StepPreserves, InitMoneyInv, MoneyStep, PTL DEF Spec, CancelIsFinal
-----------------------------------------------------------------------------
(* The contract is an escrow *)

\* What EscrowView shows of a sequence of trades.
DepositOf(ts) == [t \in 1..MaxTrades |-> IF t \in DOMAIN ts THEN ts[t].totalPaid ELSE 0]
OutcomeOf(ts) == [t \in 1..MaxTrades |-> IF t \in DOMAIN ts THEN ts[t].outcome ELSE "none"]
CommittedBalance == IF frame = None THEN balance ELSE frame.balance

\* A step that shows the escrow nothing is a stutter of it.
LEMMA HiddenSteps ==
  ASSUME UNCHANGED <<CommittedTrades, CommittedBalance>>
  PROVE  UNCHANGED EscrowView!vars
BY DEF EscrowView!vars, CommittedTrades, CommittedBalance

LEMMA DepositStep ==
  ASSUME IInv, MoneyInv, NEW sender \in Accounts, NEW l \in DOMAIN listings,
         NEW q \in Quantities, purchaseEnergy(sender, l, q)
  PROVE  EscrowView!Next
<1> DEFINE t == [listing |-> l, seller |-> listings[l].seller, buyer |-> sender,
                 quantity |-> q, totalPaid |-> q * listings[l].price,
                 settled |-> FALSE, outcome |-> "held"]
<1>1. /\ frame = None /\ frame' = None /\ Len(trades) < MaxTrades
      /\ trades' = Append(trades, t) /\ balance' = balance + t.totalPaid
  BY DEF purchaseEnergy
<1>2. trades \in Seq(Trade) /\ trades' \in Seq(Trade)
  BY PurchasePreserves DEF IInv, Good
<1>3. t.outcome = "held"
  OBVIOUS
<1> HIDE DEF t
<1>0. PICK n \in 1..MaxTrades : n = Len(trades) + 1
  BY <1>1, <1>2, LenProperties, MarketplaceAssumption DEF MarketplaceAssumption
<1>4. /\ Len(trades') = n /\ Len(trades) \in Nat
      /\ DOMAIN trades = 1..Len(trades) /\ DOMAIN trades' = 1..n
      /\ \A k \in 1..Len(trades) : trades'[k] = trades[k]
      /\ trades'[n] = t
  BY <1>0, <1>1, <1>2, LenProperties
<1>5. t.totalPaid \in Nat
  <2>1. t \in Trade
    BY <1>2, <1>4, ElementOfSeq
  <2> QED
    BY <2>1, MarketplaceAssumption DEF Trade, MarketplaceAssumption
<1>6. DOMAIN trades' = DOMAIN trades \cup {n} /\ n \notin DOMAIN trades
  BY <1>0, <1>4
<1>7. /\ OutcomeOf(trades)[n] = "none"
      /\ OutcomeOf(trades') = [OutcomeOf(trades) EXCEPT ![n] = "held"]
  BY <1>3, <1>4, <1>6 DEF OutcomeOf
<1>8. /\ DepositOf(trades')[n] = t.totalPaid
      /\ DepositOf(trades') = [DepositOf(trades) EXCEPT ![n] = t.totalPaid]
  BY <1>3, <1>4, <1>6 DEF DepositOf
<1> DEFINE seen == OutcomeOf(CommittedTrades)
           paid == DepositOf(CommittedTrades)
<1>9. /\ seen = OutcomeOf(trades) /\ seen' = OutcomeOf(trades')
      /\ paid = DepositOf(trades) /\ paid' = DepositOf(trades')
  BY <1>1 DEF CommittedTrades
<1>10. /\ CommittedBalance = balance /\ CommittedBalance' = balance'
  BY <1>1 DEF CommittedBalance
<1>11. /\ seen[n] = "none" /\ seen' = [seen EXCEPT ![n] = "held"]
       /\ paid'[n] >= 0 /\ paid' = [paid EXCEPT ![n] = paid'[n]]
       /\ CommittedBalance' = CommittedBalance + paid'[n]
  <2> HIDE DEF seen, paid
  <2>1. seen[n] = "none" /\ seen' = [seen EXCEPT ![n] = "held"]
    BY <1>7, <1>9
  <2>2. paid'[n] = t.totalPaid
    BY <1>8, <1>9
  <2>3. paid' = [paid EXCEPT ![n] = t.totalPaid]
    BY <1>8, <1>9
  <2>4. CommittedBalance' = CommittedBalance + t.totalPaid
    BY <1>1, <1>10
  <2>5. t.totalPaid >= 0
    BY <1>5
  <2> QED
    BY <2>1, <2>2, <2>3, <2>4, <2>5
<1>12. EscrowView!Deposit(n)
  BY <1>11 DEF EscrowView!Deposit, OutcomeOf, DepositOf, CommittedBalance
<1> QED
  BY <1>12 DEF EscrowView!Next

\* The transfer that returns commits the payout.
LEMMA PayOutStep ==
  ASSUME IInv, MoneyInv, transferReturns
  PROVE  EscrowView!Next
<1>1. /\ frame # None /\ frame' = None /\ trades' = trades /\ balance' = balance
  BY DEF transferReturns, storage
<1> DEFINE ts == frame.trades
<1>2. PICK t \in DOMAIN ts, how \in {"released", "returned"} :
        /\ ~ts[t].settled
        /\ trades = Closed(ts, t, how)
        /\ balance = frame.balance - ts[t].totalPaid
  BY <1>1 DEF MoneyInv, Pays
<1>3. /\ ts \in Seq(Trade) /\ Len(ts) \in Nat /\ Len(ts) <= MaxTrades
      /\ DOMAIN ts = 1..Len(ts) /\ \A k \in DOMAIN ts : ts[k] \in Trade
  BY <1>1, LenProperties, ElementOfSeq DEF IInv, FrameOK, Good, MoneyInv, Accounted
<1>4. t \in 1..MaxTrades /\ ts[t].outcome = "held"
  BY <1>1, <1>2, <1>3, MarketplaceAssumption DEF MoneyInv, Accounted, MarketplaceAssumption
<1>5. /\ DOMAIN trades = DOMAIN ts
      /\ \A k \in DOMAIN ts : /\ trades[k].totalPaid = ts[k].totalPaid
                              /\ trades[k].outcome = IF k = t THEN how ELSE ts[k].outcome
  <2>1. trades = [ts EXCEPT ![t] = [ts[t] EXCEPT !.settled = TRUE, !.outcome = how]]
    BY <1>2, <1>3 DEF Closed, Trade
  <2>2. \A r \in Trade : /\ [r EXCEPT !.settled = TRUE, !.outcome = how].totalPaid = r.totalPaid
                         /\ [r EXCEPT !.settled = TRUE, !.outcome = how].outcome = how
    BY DEF Trade
  <2> QED
    BY <1>3, <2>1, <2>2
<1> HIDE DEF ts
<1>6. /\ OutcomeOf(ts)[t] = "held"
      /\ OutcomeOf(trades) = [OutcomeOf(ts) EXCEPT ![t] = how]
      /\ DepositOf(trades) = DepositOf(ts) /\ DepositOf(ts)[t] = ts[t].totalPaid
  BY <1>2, <1>4, <1>5 DEF OutcomeOf, DepositOf
<1>7. EscrowView!PayOut(t, how)
  BY <1>1, <1>2, <1>6 DEF EscrowView!PayOut, CommittedTrades, OutcomeOf, DepositOf, ts
<1> QED
  BY <1>4, <1>7 DEF EscrowView!Next

\* The contract implements the escrow: what a buyer pays is held until it is
\* released or returned, once and in full, and no other step moves money.
THEOREM EscrowImplemented == Spec => ImplementsEscrow
<1>1. Init => EscrowView!Init
  BY DEF Init, EscrowView!Init, CommittedTrades
<1>2. ASSUME IInv, MoneyInv, [Next]_vars
      PROVE  [EscrowView!Next]_(EscrowView!vars)
  <2>1. CASE \E a \in Accounts, l \in DOMAIN listings, q \in Quantities : purchaseEnergy(a, l, q)
    BY <1>2, <2>1, DepositStep
  <2>2. CASE \E a \in Accounts, t \in DOMAIN trades : settleTrade(a, t) \/ refundTrade(a, t)
    BY <1>2, <2>2, ReleaseAccounts, HiddenSteps DEF CommittedTrades, CommittedBalance
  <2>3. CASE transferReturns
    BY <1>2, <2>3, PayOutStep
  <2>4. CASE transferReverts
    BY <2>4, HiddenSteps DEF transferReverts, CommittedTrades, CommittedBalance
  <2>5. CASE UNCHANGED <<trades, balance, frame>>
    BY <2>5, HiddenSteps DEF CommittedTrades, CommittedBalance
  <2> QED
    BY <1>2, <2>1, <2>2, <2>3, <2>4, <2>5, StepKinds
<1> QED
  BY <1>1, <1>2, InitIInv, StepPreserves, InitMoneyInv, MoneyStep, PTL
     DEF Spec, ImplementsEscrow, EscrowView!Spec
=============================================================================
