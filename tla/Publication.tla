----------------------------- MODULE Publication -----------------------------
(***************************************************************************)
(* The seller's side of a publication, composed with the API and the       *)
(* contract of ListingChain: the panels of publish-listing-on-chain.tsx in *)
(* the tabs of one browser, over one listing, with the idempotency keys of *)
(* lib/listings.ts and the wallet calls of ethereum.ts.                    *)
(*                                                                         *)
(* As in Checkout, a click starts a submit, which awaits its reports, and  *)
(* while the network is being checked and during the last report the       *)
(* button is open.                                                         *)
(***************************************************************************)
EXTENDS ListingChain, FiniteSets

CONSTANTS
    Tabs,
    TabOf,       \* submit -> the tab it is clicked in
    TheListing,  \* the listing the panels publish
    FirstKeys    \* slot -> the key the browser generates first

Slots == {"confirm", "reject"}

ASSUME PublicationAssumption ==
    /\ IsFiniteSet(Reporters) /\ IsFiniteSet(Keys)
    /\ TabOf \in [Reporters -> Tabs]
    /\ TheListing \in Listings
    /\ FirstKeys \in [Slots -> Keys]

VARIABLES
    tab,     \* each tab: whether its phase is a busy one, the row last heard of, its page's offer
    submit,  \* each submit: what it awaits, its transaction, the offer it encodes
    keyOf,   \* the browser's idempotency key per slot
    minted,  \* the keys generated so far
    signed   \* the transactions the wallet has sent

panelVars == <<tab, submit, keyOf, minted, signed>>

publicationVars == <<vars, panelVars>>

Seen(row) == [id |-> row.id, status |-> row.status]

\* What the page is given, or is given again: the panel forgets what it had heard.
Page(busy) ==
    [busy |-> busy, api |-> Seen(listing[TheListing]),
     offer |-> book[TheListing].offer, open |-> book[TheListing].open]

Rest == [step |-> "rest", hash |-> None, offer |-> None, asked |-> FALSE]

Slot(s) == IF submit[s].step = "decline" THEN "reject" ELSE "confirm"

SetBusy(s, busy) == tab' = [tab EXCEPT ![TabOf[s]].busy = busy]

-----------------------------------------------------------------------------
(* submit, up to a transaction *)

Click(s) ==
    LET t == TabOf[s]
    IN  /\ submit[s].step = "rest" /\ req[s] = Idle
        /\ tab[t].open /\ ~tab[t].busy /\ ~Mapped(tab[t].api)
        /\ submit' = [submit EXCEPT ![s] =
             [Rest EXCEPT !.step = "network", !.offer = tab[t].offer]]
        /\ UNCHANGED <<vars, tab, keyOf, minted, signed>>

Prompt(s) ==
    /\ submit[s].step = "network"
    /\ submit' = [submit EXCEPT ![s].step = "prompt"]
    /\ SetBusy(s, TRUE)
    /\ UNCHANGED <<vars, keyOf, minted, signed>>

\* The wallet sends createListing with the offer that the page showed at the click, from
\* whatever account is selected.
Approve(s, h) ==
    /\ submit[s].step = "prompt"
    /\ h \notin signed
    /\ Tx[h].listing = TheListing /\ Tx[h].offer = submit[s].offer
    /\ signed' = signed \cup {h}
    /\ submit' = [submit EXCEPT ![s].step = "report", ![s].hash = h]
    /\ SetBusy(s, TRUE)
    /\ UNCHANGED <<vars, keyOf, minted>>

\* The user declines the transaction, or to connect or switch.
Decline(s) ==
    /\ submit[s].step \in {"network", "prompt"}
    /\ Cardinality({t \in Reporters : submit[t].step = "decline"}) < Cardinality(Keys \ minted)
    /\ submit' = [submit EXCEPT ![s].step = "decline"]
    /\ SetBusy(s, FALSE)
    /\ UNCHANGED <<vars, keyOf, minted, signed>>

\* Any other error before there is a hash.
WalletFails(s) ==
    /\ submit[s].step \in {"network", "prompt"}
    /\ submit' = [submit EXCEPT ![s] = Rest]
    /\ SetBusy(s, FALSE)
    /\ UNCHANGED <<vars, keyOf, minted, signed>>

-----------------------------------------------------------------------------
(* The reports and their answers *)

\* reportOnChainListing sends what the submit stands at, under the browser's key for it.
Send(s) ==
    /\ submit[s].step \in {"report", "again", "decline"}
    /\ ~submit[s].asked
    /\ findListing(s, [action |-> Slot(s), listing |-> TheListing, key |-> keyOf[Slot(s)],
                       hash |-> IF Slot(s) = "reject" THEN None ELSE submit[s].hash])
    /\ submit' = [submit EXCEPT ![s].asked = TRUE]
    /\ UNCHANGED <<tab, keyOf, minted, signed>>

\* The row that the last step of a report answers with, in an error too, or None.  A write that
\* meets the key or the hash of another listing answers with the row that is there, if that shows
\* all that was to be written.
Answer(s) ==
    LET q == req[s]
        current == listing[TheListing]
    IN  IF q.pc = "find"
        THEN IF /\ Mapped(q.old) /\ ~UsedElsewhere(q.body)
                /\ q.body.hash = None \/ q.old.hash = q.body.hash
             THEN Seen(q.old) ELSE None
        ELSE IF ~isUniqueViolation(TheListing, q.write) THEN Seen(q.write)
        ELSE IF q.write.id \in {None, current.id} /\ q.write.hash \in {None, current.hash}
             THEN Seen(current) ELSE None

NewKey == CHOOSE k \in Keys : k \notin minted

\* submitReport returns, with a row or with null; after a rejection the key of "confirm"
\* is replaced.
Continue(s, answer) ==
    LET declined == submit[s].step = "decline"
    IN  /\ submit' = [submit EXCEPT ![s] =
             IF @.step = "report" THEN [@ EXCEPT !.step = "wait", !.asked = FALSE] ELSE Rest]
        /\ tab' = [tab EXCEPT ![TabOf[s]].api = IF answer = None THEN @ ELSE answer]
        /\ keyOf' = IF declined THEN [keyOf EXCEPT !["confirm"] = NewKey] ELSE keyOf
        /\ minted' = IF declined THEN minted \cup {NewKey} ELSE minted

\* A step of the API; the last one answers, unless the answer or the page is gone.
Api(s) ==
    /\ Step(s)
    /\ IF req'[s] = Idle /\ submit[s].asked
       THEN \E answer \in {Answer(s), None} : Continue(s, answer)
       ELSE UNCHANGED <<tab, submit, keyOf, minted>>
    /\ UNCHANGED signed

ApiFails(s) ==
    /\ misled(s) \/ dies(s)
    /\ IF req'[s] = Idle /\ submit[s].asked
       THEN Continue(s, None)
       ELSE UNCHANGED <<tab, submit, keyOf, minted>>
    /\ UNCHANGED signed

Receipt(s) ==
    /\ submit[s].step = "wait"
    /\ chain[submit[s].hash].status # "unmined"
    /\ submit' = [submit EXCEPT ![s].step = "again"]
    /\ SetBusy(s, FALSE)
    /\ UNCHANGED <<vars, keyOf, minted, signed>>

ReceiptTimeout(s) ==
    /\ submit[s].step = "wait"
    /\ submit' = [submit EXCEPT ![s] = Rest]
    /\ SetBusy(s, FALSE)
    /\ UNCHANGED <<vars, keyOf, minted, signed>>

\* The listing is fetched again: after a report, or on an event.
Refetch(t) ==
    /\ tab' = [tab EXCEPT ![t] = Page(@.busy)]
    /\ UNCHANGED <<vars, submit, keyOf, minted, signed>>

\* The page is opened anew: only localStorage is left of what it did.
Reload(t) ==
    /\ tab' = [tab EXCEPT ![t] = Page(FALSE)]
    /\ submit' = [s \in Reporters |-> IF TabOf[s] = t THEN Rest ELSE submit[s]]
    /\ UNCHANGED <<vars, keyOf, minted, signed>>

-----------------------------------------------------------------------------
PanelInit ==
    /\ tab = [t \in Tabs |-> Page(FALSE)]
    /\ submit = [s \in Reporters |-> Rest]
    /\ keyOf = FirstKeys
    /\ minted = {FirstKeys[slot] : slot \in Slots}
    /\ signed = {}

\* The chain, and the offer's edits and fills, beside the panels.
Outside ==
    /\ \/ \E h \in signed : createListing(h)
       \/ close(TheListing)
       \/ \E offer \in Offers : changeOffer(TheListing, offer)
    /\ UNCHANGED panelVars

PublicationNext ==
    \/ \E s \in Reporters :
         \/ Click(s) \/ Prompt(s) \/ Decline(s) \/ WalletFails(s) \/ \E h \in Hashes : Approve(s, h)
         \/ Send(s) \/ Api(s) \/ ApiFails(s) \/ Receipt(s) \/ ReceiptTimeout(s)
    \/ \E t \in Tabs : Refetch(t) \/ Reload(t)
    \/ Outside

PublicationSpec == Init /\ PanelInit /\ [][PublicationNext]_publicationVars

\* A page names an on-chain listing id only if the contract gave it to this listing in a
\* transaction of the seller, whatever wallet was selected, whichever of two submits or
\* pages reported, and whatever rows came in answers, in errors and in fetches.
ShownIdIsOwn ==
    \A t \in Tabs : Mapped(tab[t].api) =>
        \E h \in Hashes :
            /\ chain[h] = [status |-> "succeeded", id |-> tab[t].api.id]
            /\ Tx[h].listing = TheListing /\ Tx[h].seller
=============================================================================
