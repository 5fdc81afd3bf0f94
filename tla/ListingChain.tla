----------------------------- MODULE ListingChain -----------------------------
(***************************************************************************)
(* POST /listings/:id/on-chain: the on-chain columns of the Listing table, *)
(* as kept by listing-chain.service.ts from what the chain shows.          *)
(*                                                                         *)
(* A report reads the listing, reads who else has its key and hash, asks   *)
(* the chain, and overwrites all the columns by id.  Nothing is locked: it *)
(* acts on the row it read first (`old`), and what has happened to the     *)
(* listing since then is lost.                                             *)
(*                                                                         *)
(* The order book is only present as what verification compares: whether a *)
(* listing is open, and its offer, which stands for available quantity and *)
(* price together.  The contract is present as createListing: it numbers   *)
(* the listings and takes an externalId once.                              *)
(***************************************************************************)
EXTENDS Integers

CONSTANTS
  Listings, Keys, Hashes,
  Offers,      \* the quantities and prices a listing may have
  Reporters,   \* reports that can be in flight at once
  None,        \* an absent id, hash, key or status
  Tx,          \* createListing transaction -> [listing, offer, seller]: its
               \* externalId, its arguments, whether the seller's wallet sent it
  Reports,     \* the bodies that are sent, [action, listing, key, hash]
  MaxOutages   \* bound on failures of the API or its RPC node

\* A confirmation names its transaction, a rejection has none.
ReportShape ==
  [action : {"confirm"}, listing : Listings, key : Keys, hash : Hashes]
  \cup [action : {"reject"}, listing : Listings, key : Keys, hash : {None}]

ASSUME ListingChainAssumption ==
  /\ None \notin Keys \cup Hashes \cup Nat
  /\ Tx \in [Hashes -> [listing : Listings, offer : Offers, seller : BOOLEAN]]
  /\ Reports \subseteq ReportShape
  /\ MaxOutages \in Nat

VARIABLES
  listing,        \* the on-chain columns: listing -> [id, hash, key, status]
  book,           \* listing -> [offer, open]: open unless CANCELLED or EXPIRED
  chain,          \* transaction -> [status, id], as the RPC node knows it
  nextListingId,  \* the contract's counter
  req,            \* report in flight -> how far it is and what it has read
  outages

vars == <<listing, book, chain, nextListingId, req, outages>>

Idle == [pc |-> "idle"]
Columns(id, hash, key, status) == [id |-> id, hash |-> hash, key |-> key, status |-> status]

Init ==
  /\ listing = [l \in Listings |-> Columns(None, None, None, "NONE")]
  /\ book \in [Listings -> [offer : Offers, open : {TRUE}]]
  /\ chain = [h \in Hashes |-> [status |-> "unmined", id |-> None]]
  /\ nextListingId = 1
  /\ req = [r \in Reporters |-> Idle]
  /\ outages = 0

Goto(r, q) == req' = [req EXCEPT ![r] = q]

-----------------------------------------------------------------------------
(* The report, await by await *)

\* The owner check passes: reports of strangers change nothing.
findListing(r, body) ==
  /\ req[r] = Idle
  /\ Goto(r, [pc |-> "find", body |-> body, old |-> listing[body.listing],
              offer |-> book[body.listing].offer, open |-> book[body.listing].open])
  /\ UNCHANGED <<listing, book, chain, nextListingId, outages>>

\* Mutant: whatever has been answered is final, retries included.
Mapped_Answered(row) == row.status \in {"CONFIRMED", "FAILED", "REJECTED"}

\* TERMINAL_CONFIRMED
Mapped(row) == row.id # None /\ row.status = "CONFIRMED"

\* Another listing has the key or the hash.
UsedElsewhere(body) ==
  \E m \in Listings \ {body.listing} :
    \/ listing[m].key = body.key
    \/ body.hash # None /\ listing[m].hash = body.hash

Writing(q, w) == [pc |-> "write", body |-> q.body, write |-> w]

\* The listing was not CANCELLED or EXPIRED when the report read it.
assertConfirmable(q) == q.open

\* Answered at once: DUPLICATE_TX, a listing that is mapped already, and
\* STALE_LISTING.
findOthers(r) ==
  /\ req[r].pc = "find"
  /\ LET q == req[r]
         answered == UsedElsewhere(q.body) \/ Mapped(q.old)
     IN  \/ /\ answered \/ (q.body.action = "confirm" /\ ~assertConfirmable(q))
            /\ Goto(r, Idle)
         \/ /\ ~answered /\ q.body.action = "reject"
            /\ Goto(r, Writing(q, Columns(None, None, q.body.key, "REJECTED")))
         \/ /\ ~answered /\ q.body.action = "confirm" /\ assertConfirmable(q)
            /\ Goto(r, [q EXCEPT !.pc = "chain"])
  /\ UNCHANGED <<listing, book, chain, nextListingId, outages>>

\* The receipt says success.
assertSuccessfulReceipt(h) == chain[h].status = "succeeded"

\* A verified wallet of the seller sent the transaction, and so is the event's seller.
senderAllowed(h) == Tx[h].seller

\* The arguments of the call, of which the event repeats the offer.
parseCreateListingInput(h) == [externalId |-> Tx[h].listing, offer |-> Tx[h].offer]

\* The id in the event.
parseListingCreatedLogs(h) == chain[h].id

\* Mutant: the externalId is not looked at.
verifyListingCreated_AnyListing(q) ==
  LET h == q.body.hash
  IN  /\ assertSuccessfulReceipt(h) /\ senderAllowed(h)
      /\ parseCreateListingInput(h).offer = q.offer

\* Mutant: whoever sent it.
verifyListingCreated_AnyWallet(q) ==
  LET h == q.body.hash
  IN  /\ assertSuccessfulReceipt(h)
      /\ parseCreateListingInput(h) = [externalId |-> q.body.listing, offer |-> q.offer]

\* Sent by the seller's wallet, for this listing, at the offer the listing had
\* when the report read it.
verifyListingCreated(q) ==
  LET h == q.body.hash
  IN  /\ assertSuccessfulReceipt(h) /\ senderAllowed(h)
      /\ parseCreateListingInput(h) = [externalId |-> q.body.listing, offer |-> q.offer]

Report(q, id, status) == Columns(id, q.body.hash, q.body.key, status)

\* Mutant: a receipt's own word for its status is stored.
queryChain_CopiesStatus(r) ==
  /\ req[r].pc = "chain"
  /\ LET q == req[r]
         seen == chain[q.body.hash]
     IN  Goto(r, Writing(q,
           IF seen.status = "unmined" THEN Report(q, None, "PENDING")
           ELSE IF verifyListingCreated(q)
           THEN Report(q, parseListingCreatedLogs(q.body.hash), "CONFIRMED")
           ELSE Report(q, None, seen.status)))
  /\ UNCHANGED <<listing, book, chain, nextListingId, outages>>

queryChain(r) ==
  /\ req[r].pc = "chain"
  /\ LET q == req[r]
         seen == chain[q.body.hash]
     IN  Goto(r, Writing(q,
           IF seen.status = "unmined" THEN Report(q, None, "PENDING")
           ELSE IF verifyListingCreated(q)
           THEN Report(q, parseListingCreatedLogs(q.body.hash), "CONFIRMED")
           ELSE Report(q, None, "FAILED")))
  /\ UNCHANGED <<listing, book, chain, nextListingId, outages>>

\* P2002: an id, a hash or a key is already in another row.
isUniqueViolation(l, w) ==
  \E m \in Listings \ {l} :
    \/ w.id # None /\ listing[m].id = w.id
    \/ w.hash # None /\ listing[m].hash = w.hash
    \/ listing[m].key = w.key

persistOnChain(r) ==
  /\ req[r].pc = "write"
  /\ LET l == req[r].body.listing
         w == req[r].write
     IN  listing' = IF isUniqueViolation(l, w) THEN listing
                    ELSE [listing EXCEPT ![l] = w]
  /\ Goto(r, Idle)
  /\ UNCHANGED <<book, chain, nextListingId, outages>>

-----------------------------------------------------------------------------
(* What fails *)

Fails == outages < MaxOutages /\ outages' = outages + 1

\* The node is on another network (the id the row had is written back) or does
\* not know the transaction whose receipt it gives.
misled(r) ==
  /\ req[r].pc = "chain"
  /\ Fails
  /\ \E id \in {req[r].old.id, None} :
       Goto(r, Writing(req[r], Report(req[r], id, "FAILED")))
  /\ UNCHANGED <<listing, book, chain, nextListingId>>

\* An await throws, no wallet is verified, or the process stops.
dies(r) ==
  /\ req[r] # Idle
  /\ Fails
  /\ Goto(r, Idle)
  /\ UNCHANGED <<listing, book, chain, nextListingId>>

-----------------------------------------------------------------------------
(* The contract and the order book *)

\* Some listing on chain has the externalId.
externalIdUsed(l) == \E h \in Hashes : chain[h].status = "succeeded" /\ Tx[h].listing = l

\* Mutant: createListing forgets to require !externalIdUsed.
createListing_NoExternalIdCheck(h) ==
  /\ chain[h].status = "unmined"
  /\ \/ /\ chain' = [chain EXCEPT ![h] = [status |-> "succeeded", id |-> nextListingId]]
        /\ nextListingId' = nextListingId + 1
     \/ /\ chain' = [chain EXCEPT ![h].status = "reverted"]
        /\ UNCHANGED nextListingId
  /\ UNCHANGED <<listing, book, req, outages>>

createListing(h) ==
  /\ chain[h].status = "unmined"
  /\ \/ /\ ~externalIdUsed(Tx[h].listing)
        /\ chain' = [chain EXCEPT ![h] = [status |-> "succeeded", id |-> nextListingId]]
        /\ nextListingId' = nextListingId + 1
     \/ /\ chain' = [chain EXCEPT ![h].status = "reverted"]
        /\ UNCHANGED nextListingId
  /\ UNCHANGED <<listing, book, req, outages>>

\* A fill or an edit changes what is offered.
changeOffer(l, offer) ==
  /\ book[l].open /\ offer # book[l].offer
  /\ book' = [book EXCEPT ![l].offer = offer]
  /\ UNCHANGED <<listing, chain, nextListingId, req, outages>>

\* Cancelled or expired, for good.
close(l) ==
  /\ book[l].open
  /\ book' = [book EXCEPT ![l].open = FALSE]
  /\ UNCHANGED <<listing, chain, nextListingId, req, outages>>

Step(r) == findOthers(r) \/ queryChain(r) \/ persistOnChain(r)

Next ==
  \/ \E r \in Reporters : \/ \E body \in Reports : findListing(r, body)
                          \/ Step(r)
                          \/ misled(r)
                          \/ dies(r)
  \/ \E h \in Hashes : createListing(h)
  \/ \E l \in Listings : close(l) \/ \E offer \in Offers : changeOffer(l, offer)

Spec == Init /\ [][Next]_vars

\* The event loop finishes a report, and a client reports again until it has
\* its answer: it gets its turn among the reports of others.
FairSpec ==
  /\ Spec
  /\ \A r \in Reporters : WF_vars(Step(r))
  /\ \A body \in Reports : SF_vars(\E r \in Reporters : findListing(r, body))

-----------------------------------------------------------------------------
(* What the mapping promises *)

ListingRow == [id : Nat \cup {None}, hash : Hashes \cup {None}, key : Keys \cup {None},
               status : {"NONE", "PENDING", "FAILED", "REJECTED", "CONFIRMED"}]

\* Rows of the schema, and a chain that numbers what succeeded.
TypeOK ==
  /\ listing \in [Listings -> ListingRow]
  /\ book \in [Listings -> [offer : Offers, open : BOOLEAN]]
  /\ chain \in [Hashes -> [status : {"unmined", "succeeded", "reverted"}, id : Nat \cup {None}]]
  /\ nextListingId \in Nat \ {0}

\* docs/database.md:12, whatever reports raced and whatever they had read: an id
\* is stored exactly with CONFIRMED, and is the id the contract gave this very
\* listing in a transaction of its seller.
MappingIsVerified ==
  \A l \in Listings :
    LET row == listing[l]
    IN  /\ row.id # None <=> row.status = "CONFIRMED"
        /\ row.status = "CONFIRMED" =>
             /\ row.hash # None
             /\ chain[row.hash].status = "succeeded" /\ chain[row.hash].id = row.id
             /\ Tx[row.hash].listing = l /\ Tx[row.hash].seller

\* A listing's trades are checked against one on-chain id, now and later: two
\* reports of two transactions never take the mapping from one to the other,
\* because the contract takes an externalId only once.
MappingNeverMoves ==
  [][\A l \in Listings :
       listing[l].id # None /\ listing'[l].id # None => listing'[l].id = listing[l].id]_vars

\* The listing is open and the contract has it, as it is offered.
Creatable(l, h) ==
  /\ chain[h].status = "succeeded" /\ Tx[h].listing = l /\ Tx[h].seller
  /\ book[l].open /\ book[l].offer = Tx[h].offer

\* No other listing is reported with this key or this transaction.
OwnReport(body) ==
  \A other \in Reports :
    other.listing # body.listing => other.key # body.key /\ other.hash # body.hash

\* A listing that was created on chain as it is offered gets its id, whatever
\* late, failing and rejecting reports of it are in the way, if only it is
\* reported again and again; unless it closes or changes first.
CreatedIsMapped ==
  \A body \in Reports :
    body.action = "confirm" /\ OwnReport(body) =>
      []<>(Creatable(body.listing, body.hash) => listing[body.listing].status = "CONFIRMED")
=============================================================================
