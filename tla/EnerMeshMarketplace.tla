-------------------------- MODULE EnerMeshMarketplace --------------------------
(***************************************************************************)
(* The smart contract EnerMeshMarketplace.sol: listings, escrowed          *)
(* purchases, settlement and refund.                                       *)
(*                                                                         *)
(* A call that reverts leaves no trace, so a require is a guard and so is  *)
(* the overflow check of Solidity 0.8 arithmetic.  One external call can   *)
(* interleave with others: sendValue hands control to the recipient, which *)
(* may call back, itself or through other contracts, before it returns or  *)
(* reverts.  `frame` is that pending transfer, with the storage to which a *)
(* revert goes back; the functions that are not nonReentrant stay enabled  *)
(* while there is one, for any msg.sender.                                 *)
(***************************************************************************)
EXTENDS Integers, Sequences, FiniteSets, Sums

CONSTANTS
  Accounts,      \* addresses
  Admins,        \* holders of DEFAULT_ADMIN_ROLE
  Operators,     \* holders of OPERATOR_ROLE
  ExternalIds,   \* the non-zero correlation ids
  Quantities,    \* quantities that calls carry
  Prices,        \* prices that calls carry
  None,          \* no externalId (0), no pending transfer
  MaxWord,       \* the largest uint256
  MaxListings,   \* bound on the listings created
  MaxTrades      \* bound on the purchases made

ASSUME MarketplaceAssumption ==
  /\ Admins \subseteq Accounts /\ Operators \subseteq Accounts
  /\ None \notin ExternalIds
  /\ MaxWord \in Nat /\ MaxListings \in Nat /\ MaxTrades \in Nat
  /\ Quantities \subseteq 0..MaxWord /\ Prices \subseteq 0..MaxWord

VARIABLES
  listings,        \* sequence of listings, nextListingId = Len + 1; `escrowed`
                   \* is the entry of listingEscrowed
  trades,          \* sequence of trades, nextTradeId = Len + 1; `outcome` is a
                   \* history field that tells a settlement from a refund
  externalIdUsed,  \* the correlation ids taken
  balance,         \* wei held by the contract
  paused,
  frame            \* the transfer in progress, or None

storage == <<listings, trades, externalIdUsed, balance, paused>>
vars == <<storage, frame>>

ACTIVE == "ACTIVE"
CANCELLED == "CANCELLED"
SOLD_OUT == "SOLD_OUT"

isListingManager(sender, seller) == sender = seller \/ sender \in Operators

Init ==
  /\ listings = <<>> /\ trades = <<>> /\ externalIdUsed = {}
  /\ balance = 0 /\ paused = FALSE /\ frame = None

pause(sender) ==
  /\ sender \in Admins /\ ~paused
  /\ paused' = TRUE
  /\ UNCHANGED <<listings, trades, externalIdUsed, balance, frame>>

unpause(sender) ==
  /\ sender \in Admins /\ paused
  /\ paused' = FALSE
  /\ UNCHANGED <<listings, trades, externalIdUsed, balance, frame>>

createListing(sender, quantityKwh, pricePerKwh, externalId) ==
  /\ ~paused /\ Len(listings) < MaxListings
  /\ quantityKwh > 0 /\ pricePerKwh > 0
  /\ externalId \notin externalIdUsed
  /\ externalIdUsed' = externalIdUsed \cup ({externalId} \ {None})
  /\ listings' = Append(listings,
       [seller |-> sender, remaining |-> quantityKwh, price |-> pricePerKwh,
        externalId |-> externalId, status |-> ACTIVE, escrowed |-> 0])
  /\ UNCHANGED <<trades, balance, paused, frame>>

\* Mutant: a cancelled listing can be edited.
updateListing_Cancelled(sender, l, quantityKwh, pricePerKwh) ==
  /\ ~paused
  /\ isListingManager(sender, listings[l].seller)
  /\ pricePerKwh > 0
  /\ listings' = [listings EXCEPT
       ![l].remaining = quantityKwh, ![l].price = pricePerKwh,
       ![l].status = IF quantityKwh = 0 THEN SOLD_OUT ELSE ACTIVE]
  /\ UNCHANGED <<trades, externalIdUsed, balance, paused, frame>>

updateListing(sender, l, quantityKwh, pricePerKwh) ==
  /\ ~paused
  /\ listings[l].status # CANCELLED
  /\ isListingManager(sender, listings[l].seller)
  /\ pricePerKwh > 0
  /\ listings' = [listings EXCEPT
       ![l].remaining = quantityKwh, ![l].price = pricePerKwh,
       ![l].status = IF quantityKwh = 0 THEN SOLD_OUT ELSE ACTIVE]
  /\ UNCHANGED <<trades, externalIdUsed, balance, paused, frame>>

\* Mutant: money in escrow does not stand in the way.
cancelListing_IgnoresEscrow(sender, l) ==
  /\ ~paused
  /\ listings[l].status # CANCELLED
  /\ isListingManager(sender, listings[l].seller)
  /\ listings' = [listings EXCEPT ![l].status = CANCELLED]
  /\ UNCHANGED <<trades, externalIdUsed, balance, paused, frame>>

cancelListing(sender, l) ==
  /\ ~paused
  /\ listings[l].status # CANCELLED
  /\ isListingManager(sender, listings[l].seller)
  /\ listings[l].escrowed = 0
  /\ listings' = [listings EXCEPT ![l].status = CANCELLED]
  /\ UNCHANGED <<trades, externalIdUsed, balance, paused, frame>>

\* Mutant: more than what remains can be bought, with unchecked arithmetic.
purchaseEnergy_Oversells(sender, l, quantityKwh) ==
  /\ frame = None /\ ~paused /\ Len(trades) < MaxTrades
  /\ listings[l].status = ACTIVE
  /\ quantityKwh > 0
  /\ sender # listings[l].seller
  /\ quantityKwh * listings[l].price <= MaxWord
  /\ LET left == listings[l].remaining - quantityKwh
         totalPaid == quantityKwh * listings[l].price
     IN  /\ listings' = [listings EXCEPT
              ![l].remaining = left, ![l].escrowed = @ + 1,
              ![l].status = IF left = 0 THEN SOLD_OUT ELSE @]
         /\ trades' = Append(trades,
              [listing |-> l, seller |-> listings[l].seller, buyer |-> sender,
               quantity |-> quantityKwh, totalPaid |-> totalPaid,
               settled |-> FALSE, outcome |-> "held"])
         /\ balance' = balance + totalPaid
  /\ UNCHANGED <<externalIdUsed, paused, frame>>

\* nonReentrant: refused while a transfer is in progress.
purchaseEnergy(sender, l, quantityKwh) ==
  /\ frame = None /\ ~paused /\ Len(trades) < MaxTrades
  /\ listings[l].status = ACTIVE
  /\ quantityKwh > 0 /\ quantityKwh <= listings[l].remaining
  /\ sender # listings[l].seller
  /\ quantityKwh * listings[l].price <= MaxWord
  /\ LET left == listings[l].remaining - quantityKwh
         totalPaid == quantityKwh * listings[l].price
     IN  /\ listings' = [listings EXCEPT
              ![l].remaining = left, ![l].escrowed = @ + 1,
              ![l].status = IF left = 0 THEN SOLD_OUT ELSE @]
         /\ trades' = Append(trades,
              [listing |-> l, seller |-> listings[l].seller, buyer |-> sender,
               quantity |-> quantityKwh, totalPaid |-> totalPaid,
               settled |-> FALSE, outcome |-> "held"])
         /\ balance' = balance + totalPaid
  /\ UNCHANGED <<externalIdUsed, paused, frame>>

\* sendValue as the last act of a function: the contract must hold the money,
\* which leaves with the call, and the storage before the function is kept for
\* a revert.
sendValue(to, amount) ==
  /\ balance >= amount
  /\ balance' = balance - amount
  /\ frame' = [to |-> to, listings |-> listings, trades |-> trades,
               externalIdUsed |-> externalIdUsed, balance |-> balance,
               paused |-> paused]

\* Mutant: an off-by-one in the test.
Released_OffByOne(escrowed) == IF escrowed > 1 THEN escrowed - 1 ELSE escrowed

Released(escrowed) == IF escrowed > 0 THEN escrowed - 1 ELSE escrowed

settleTrade(sender, t) ==
  /\ frame = None /\ ~paused
  /\ ~trades[t].settled
  /\ sender \in {trades[t].seller, trades[t].buyer} \cup Operators
  /\ trades' = [trades EXCEPT ![t].settled = TRUE, ![t].outcome = "released"]
  /\ listings' = [listings EXCEPT ![trades[t].listing].escrowed = Released(@)]
  /\ sendValue(trades[t].seller, trades[t].totalPaid)
  /\ UNCHANGED <<externalIdUsed, paused>>

\* Mutant: a sold-out listing stays sold out.
StatusAfterRefund_StaysSoldOut(status) == status

StatusAfterRefund(status) == IF status = SOLD_OUT THEN ACTIVE ELSE status

\* Mutant: a settled trade can be refunded.
refundTrade_Settled(sender, t) ==
  /\ frame = None /\ ~paused
  /\ sender \in Operators
  /\ LET l == trades[t].listing
         left == listings[l].remaining + trades[t].quantity
     IN  /\ left <= MaxWord
         /\ listings' = [listings EXCEPT
              ![l].escrowed = Released(@), ![l].remaining = left,
              ![l].status = StatusAfterRefund(@)]
  /\ trades' = [trades EXCEPT ![t].settled = TRUE, ![t].outcome = "returned"]
  /\ sendValue(trades[t].buyer, trades[t].totalPaid)
  /\ UNCHANGED <<externalIdUsed, paused>>

refundTrade(sender, t) ==
  /\ frame = None /\ ~paused
  /\ sender \in Operators
  /\ ~trades[t].settled
  /\ LET l == trades[t].listing
         left == listings[l].remaining + trades[t].quantity
     IN  /\ left <= MaxWord
         /\ listings' = [listings EXCEPT
              ![l].escrowed = Released(@), ![l].remaining = left,
              ![l].status = StatusAfterRefund(@)]
  /\ trades' = [trades EXCEPT ![t].settled = TRUE, ![t].outcome = "returned"]
  /\ sendValue(trades[t].buyer, trades[t].totalPaid)
  /\ UNCHANGED <<externalIdUsed, paused>>

\* The recipient returns, and the transaction is final.
transferReturns ==
  /\ frame # None
  /\ frame' = None
  /\ UNCHANGED storage

\* Mutant: a failed send is ignored where sendValue reverts.
transferReverts_KeepsStorage ==
  /\ frame # None
  /\ balance' = frame.balance
  /\ frame' = None
  /\ UNCHANGED <<listings, trades, externalIdUsed, paused>>

\* The recipient reverts, and with it everything since the call began.
transferReverts ==
  /\ frame # None
  /\ listings' = frame.listings /\ trades' = frame.trades
  /\ externalIdUsed' = frame.externalIdUsed
  /\ balance' = frame.balance /\ paused' = frame.paused
  /\ frame' = None

Next ==
  \/ \E a \in Accounts : pause(a)
  \/ \E a \in Accounts : unpause(a)
  \/ \E a \in Accounts, q \in Quantities, p \in Prices, x \in ExternalIds \cup {None} :
       createListing(a, q, p, x)
  \/ \E a \in Accounts, l \in DOMAIN listings, q \in Quantities, p \in Prices :
       updateListing(a, l, q, p)
  \/ \E a \in Accounts, l \in DOMAIN listings : cancelListing(a, l)
  \/ \E a \in Accounts, l \in DOMAIN listings, q \in Quantities : purchaseEnergy(a, l, q)
  \/ \E a \in Accounts, t \in DOMAIN trades : settleTrade(a, t)
  \/ \E a \in Accounts, t \in DOMAIN trades : refundTrade(a, t)
  \/ transferReturns
  \/ transferReverts

Spec == Init /\ [][Next]_vars

-----------------------------------------------------------------------------
(* What the contract promises *)

Listing == [seller : Accounts, remaining : 0..MaxWord, price : Prices,
            externalId : ExternalIds \cup {None},
            status : {ACTIVE, CANCELLED, SOLD_OUT}, escrowed : Nat]
Trade == [listing : Nat \ {0}, seller : Accounts, buyer : Accounts,
          quantity : Quantities, totalPaid : 0..MaxWord, settled : BOOLEAN,
          outcome : {"held", "released", "returned"}]

StorageOK(ls, ts, used, money, stopped) ==
  /\ ls \in Seq(Listing)
  /\ ts \in Seq(Trade) /\ \A t \in DOMAIN ts : ts[t].listing \in DOMAIN ls
  /\ used \subseteq ExternalIds
  /\ money \in Nat
  /\ stopped \in BOOLEAN

Frame == [to : Accounts, listings : Seq(Listing), trades : Seq(Trade),
          externalIdUsed : SUBSET ExternalIds, balance : Nat, paused : BOOLEAN]

\* The mark of no transfer is not itself a transfer.
ASSUME FrameAssumption == None \notin Frame

\* Storage is well formed, now and in the state a revert would restore: every
\* trade names a listing that exists.
TypeOK ==
  /\ StorageOK(listings, trades, externalIdUsed, balance, paused)
  /\ frame # None =>
       /\ frame \in Frame
       /\ StorageOK(frame.listings, frame.trades, frame.externalIdUsed,
                    frame.balance, frame.paused)

Unsettled(ts, l) == {t \in DOMAIN ts : ts[t].listing = l /\ ~ts[t].settled}

\* listingEscrowed is exactly the number of purchases of the listing that are
\* neither settled nor refunded, in the middle of a transfer too.  So the test
\* `escrowed > 0` in settleTrade and refundTrade never hides a missed count and
\* cancelListing is refused for as long as a buyer's money is held.
EscrowCountsUnsettled ==
  \A l \in DOMAIN listings :
    listings[l].escrowed = Cardinality(Unsettled(trades, l))

\* A cancelled listing holds nobody's money, so no refund can bring it back.
CancelledHoldsNoEscrow ==
  \A l \in DOMAIN listings :
    listings[l].status = CANCELLED => Unsettled(trades, l) = {}

\* The status of a listing and its remaining quantity agree after any mix of
\* purchases, edits and refunds: only a listing with something left is active
\* and a sold-out one has nothing left.
StatusTellsRemaining ==
  \A l \in DOMAIN listings :
    /\ listings[l].status = ACTIVE => listings[l].remaining > 0
    /\ listings[l].status = SOLD_OUT => listings[l].remaining = 0

Held(ts) ==
  Total([t \in DOMAIN ts |-> IF ts[t].settled THEN 0 ELSE ts[t].totalPaid])

\* The contract holds exactly what the unsettled purchases paid, so no
\* settlement or refund can fail for want of money and none is paid from
\* another buyer's purchase.
Solvent == balance = Held(trades)

\* Two listings never carry the same correlation id: ListingCreated can be
\* tied to one off-chain listing (externalIdUsed).
ExternalIdIsUnique ==
  \A i, j \in DOMAIN listings :
    /\ i # j
    /\ listings[i].externalId # None
    => listings[i].externalId # listings[j].externalId

\* Cancellation is final for everyone who does not see the inside of a
\* transaction: once committed no call, refund included, reopens the listing.
Committed(l) == IF frame = None THEN listings[l] ELSE frame.listings[l]
CommittedListings == IF frame = None THEN DOMAIN listings ELSE DOMAIN frame.listings

CancelIsFinal ==
  [][\A l \in CommittedListings :
       Committed(l).status = CANCELLED => Committed(l)'.status = CANCELLED]_vars

\* The contract as an escrow: committed purchases, and what became of each.
CommittedTrades == IF frame = None THEN trades ELSE frame.trades
EscrowView == INSTANCE Escrow WITH
  Ids <- 1..MaxTrades,
  deposit <- [t \in 1..MaxTrades |->
                IF t \in DOMAIN CommittedTrades THEN CommittedTrades[t].totalPaid ELSE 0],
  outcome <- [t \in 1..MaxTrades |->
                IF t \in DOMAIN CommittedTrades THEN CommittedTrades[t].outcome ELSE "none"],
  vault <- IF frame = None THEN balance ELSE frame.balance

\* The contract implements the escrow: each deposit is held until it is released
\* or returned, once and in full, and the vault changes by nothing else.
ImplementsEscrow == EscrowView!Spec
=============================================================================
