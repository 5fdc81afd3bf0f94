------------------------------ MODULE Checkout ------------------------------
(***************************************************************************)
(* The buyer's side of a trade, composed with the API of Settlement: the   *)
(* purchase and settle panels of review-trade.tsx in one or more browsers, *)
(* over one match, with the idempotency keys and the on-chain trade id     *)
(* that each browser keeps in its localStorage (trades.ts, marketplace.ts) *)
(* and the wallet calls of ethereum.ts.                                     *)
(*                                                                         *)
(* A click starts a submit, which is a reporter of Settlement and awaits   *)
(* each report.  The button is closed while the panel's phase is a busy    *)
(* one; while the network is being checked, and in the last report, it is  *)
(* not, so that a panel may have two submits at work.                      *)
(*                                                                         *)
(* The chain answers as it is and every wallet is verified, so that a      *)
(* report fails only for what the transaction is.                          *)
(***************************************************************************)
EXTENDS Settlement, SequencesExt

CONSTANTS
    Browsers,
    Panels,
    PanelOf,    \* submit -> the panel it is clicked in
    BrowserOf,  \* panel -> the browser it is shown in
    ActionOf,   \* panel -> "purchase" or "settle"
    TheMatch,   \* the match the panels are about
    FirstKeys   \* browser -> slot -> the key it generates first, a random UUID

Slots == {"purchase", "settle", "reject"}

\* What the panels may send.
ClientReports ==
    [action : {"purchase", "settle"}, match : {TheMatch}, key : Keys, hash : Hashes]
    \cup [action : {"reject"}, match : {TheMatch}, key : Keys, hash : {None}]

ASSUME CheckoutAssumption ==
    /\ IsFiniteSet(Reporters) /\ IsFiniteSet(Keys)
    /\ ClientReports \subseteq Reports
    /\ PanelOf \in [Reporters -> Panels]
    /\ BrowserOf \in [Panels -> Browsers]
    /\ ActionOf \in [Panels -> {"purchase", "settle"}]
    /\ TheMatch \in Matches
    /\ FirstKeys \in [Browsers -> [Slots -> Keys]]
    /\ \A b, c \in Browsers, x, y \in Slots : FirstKeys[b][x] = FirstKeys[c][y] => x = y

VARIABLES
    panel,   \* each panel: whether its phase is a busy one, the trade last heard of, the trade
             \* that the list on its way to it brings
    submit,  \* each submit: what it awaits, its transaction
    view,    \* each browser: the match status its page was last given
    keyOf,   \* each browser: its idempotency key per action
    minted,  \* the keys generated so far
    stored,  \* each browser: the on-chain trade id it has seen in a receipt
    signed,  \* the transactions the wallets have sent
    heard,   \* each browser: the purchases the API acknowledged to it after moving the match
    newest   \* the keys of the Trade rows, the latest created first

clientVars == <<panel, submit, view, keyOf, minted, stored, signed, heard, newest>>

checkoutVars == <<vars, clientVars>>

NoTrade == [status |-> "none", hash |-> None]

Shown(row) == [status |-> row.status, hash |-> row.hash]

Opened == [busy |-> FALSE, api |-> NoTrade, list |-> NoTrade]
Rest == [step |-> "rest", hash |-> None, asked |-> FALSE]

Action(s) == ActionOf[PanelOf[s]]
Browser(s) == BrowserOf[PanelOf[s]]

Slot(s) == IF submit[s].step = "decline" THEN "reject" ELSE Action(s)

\* Mutant: only the trade that the panel holds closes the button.
Locked_ByTrade(p) ==
    IF ActionOf[p] = "purchase"
    THEN panel[p].api.status \in {"PENDING", "CONFIRMED", "COMPLETED"}
    ELSE panel[p].api.status = "COMPLETED"

\* What the page knows, from the trade and from the match, closes the button.
Locked(p) ==
    IF ActionOf[p] = "purchase"
    THEN \/ view[BrowserOf[p]] \in {"SETTLEMENT_PENDING", "SETTLED"}
         \/ panel[p].api.status \in {"PENDING", "CONFIRMED", "COMPLETED"}
    ELSE view[BrowserOf[p]] = "SETTLED" \/ panel[p].api.status = "COMPLETED"

\* A settlement needs the trade id from this browser, and a purchase the page knows of.
Ready(p) ==
    ActionOf[p] = "settle" =>
        /\ stored[BrowserOf[p]] # None
        /\ \/ view[BrowserOf[p]] \in {"SETTLEMENT_PENDING", "SETTLED"}
           \/ panel[p].api.status \in {"CONFIRMED", "COMPLETED"}

\* A click: a submit begins to connect and to check the network.
Click(s) ==
    LET p == PanelOf[s]
    IN  /\ submit[s].step = "rest"
        /\ req[s] = Idle
        /\ mapped
        /\ ~panel[p].busy /\ ~Locked(p) /\ Ready(p)
        /\ submit' = [submit EXCEPT ![s].step = "network"]
        /\ UNCHANGED <<vars, panel, view, keyOf, minted, stored, signed, heard, newest>>

SetBusy(s, busy) == panel' = [panel EXCEPT ![PanelOf[s]].busy = busy]

\* The wallet is asked; what the button has checked by then is not checked again.
Prompt(s) ==
    /\ submit[s].step = "network"
    /\ submit' = [submit EXCEPT ![s].step = "prompt"]
    /\ SetBusy(s, TRUE)
    /\ UNCHANGED <<vars, view, keyOf, minted, stored, signed, heard, newest>>

\* The transaction encodes what the page shows: a purchase the match's listing, quantity and
\* price, a settlement the trade id.
Signable(s) ==
    {h \in Hashes \ signed :
        IF Action(s) = "settle" THEN Settles[h] = stored[Browser(s)]
        ELSE Settles[h] = None /\ TheMatch \in Fits[h]}

\* The user confirms: the wallet sends the transaction and returns its hash.
Approve(s, h) ==
    /\ submit[s].step = "prompt"
    /\ h \in Signable(s)
    /\ signed' = signed \cup {h}
    /\ submit' = [submit EXCEPT ![s].step = "report", ![s].hash = h]
    /\ SetBusy(s, TRUE)
    /\ UNCHANGED <<vars, view, keyOf, minted, stored, heard, newest>>

\* The user declines the transaction, or to connect or switch: the rejection is reported under
\* a key of its own.
Decline(s) ==
    /\ submit[s].step \in {"network", "prompt"}
    /\ Cardinality({t \in Reporters : submit[t].step = "decline"}) < Cardinality(Keys \ minted)
    /\ submit' = [submit EXCEPT ![s].step = "decline"]
    /\ SetBusy(s, FALSE)
    /\ UNCHANGED <<vars, view, keyOf, minted, stored, signed, heard, newest>>

\* Any other error, of the wallet or of a check, before there is a hash.
WalletFails(s) ==
    /\ submit[s].step \in {"network", "prompt"}
    /\ submit' = [submit EXCEPT ![s] = Rest]
    /\ SetBusy(s, FALSE)
    /\ UNCHANGED <<vars, view, keyOf, minted, stored, signed, heard, newest>>

\* reportTrade sends what the panel stands at, under the browser's key for it.
Send(s) ==
    /\ submit[s].step \in {"report", "again", "decline"}
    /\ ~submit[s].asked
    /\ loadMatch(s, [action |-> Slot(s), match |-> TheMatch,
                     key |-> keyOf[Browser(s)][Slot(s)],
                     hash |-> IF Slot(s) = "reject" THEN None ELSE submit[s].hash])
    /\ submit' = [submit EXCEPT ![s].asked = TRUE]
    /\ UNCHANGED <<panel, view, keyOf, minted, stored, signed, heard, newest>>

-----------------------------------------------------------------------------
(* The API's answer *)

\* The chain refuses a report only for what the transaction is.
Honest(p) ==
    (req[p].pc = "chain" /\ req'[p].write.status = "FAILED") =>
        \/ chain[req[p].body.hash] = "reverted"
        \/ chain[req[p].body.hash] = "succeeded"
             /\ ~ IF req[p].body.action = "settle" THEN verifySettle(req[p]) ELSE verifyPurchase(req[p])

\* The row that the last step of report p answers with, NoTrade for an error.  A FAILED row
\* comes inside an error.
AnswerOf(p) ==
    LET q == req[p]
    IN  CASE q.pc = "sync" /\ q.row.status # "FAILED" -> Shown(q.row)
          [] q.pc = "find" /\ Continued(q.body) # {} ->
               LET row == trade[CHOOSE k \in Continued(q.body) : TRUE]
               IN  IF /\ row.match = q.body.match
                      /\ row.hash = None \/ q.body.hash = None \/ row.hash = q.body.hash
                      /\ row.status \notin RETRYING
                   THEN Shown(row) ELSE NoTrade
          [] q.pc = "write" /\ q.body.action = "reject" -> [status |-> "REJECTED", hash |-> None]
          [] OTHER -> NoTrade

NewKey == CHOOSE k \in Keys \ minted : TRUE

\* submitReport returns the trade, or null: then submit goes on all the same.  After a
\* rejection it replaces the key of the action that was declined.
Continue(s, answer) ==
    LET b == Browser(s)
        declined == submit[s].step = "decline"
    IN  /\ submit' = [submit EXCEPT ![s] =
             IF @.step = "report" THEN [@ EXCEPT !.step = "wait", !.asked = FALSE] ELSE Rest]
        /\ panel' = [panel EXCEPT ![PanelOf[s]].api = IF answer = NoTrade THEN @ ELSE answer]
        /\ heard' = IF answer # NoTrade /\ req[s].pc = "sync" /\ Slot(s) = "purchase"
                    THEN [heard EXCEPT ![b] = @ \cup {answer.hash}] ELSE heard
        /\ keyOf' = IF declined THEN [keyOf EXCEPT ![b][Action(s)] = NewKey] ELSE keyOf
        /\ minted' = IF declined THEN minted \cup {NewKey} ELSE minted

\* A step of the API; the last one answers, unless the answer or the page is gone.
Api(s) ==
    /\ Step(s)
    /\ Honest(s)
    /\ IF req'[s] = Idle /\ submit[s].asked
       THEN \E answer \in {AnswerOf(s), NoTrade} : Continue(s, answer)
       ELSE UNCHANGED <<panel, submit, heard, keyOf, minted>>
    /\ newest' = SetToSeq({k \in Keys : trade[k] = None /\ trade'[k] # None}) \o newest
    /\ UNCHANGED <<view, stored, signed>>

ApiDies(s) ==
    /\ dies(s)
    /\ IF submit[s].asked THEN Continue(s, NoTrade)
       ELSE UNCHANGED <<panel, submit, heard, keyOf, minted>>
    /\ UNCHANGED <<view, stored, signed, newest>>

-----------------------------------------------------------------------------
(* The receipt, and what the page learns otherwise *)

\* waitForReceipt: submit reports once more; of a purchase it keeps the trade id.
Receipt(s) ==
    /\ submit[s].step = "wait"
    /\ chain[submit[s].hash] # "unmined"
    /\ submit' = [submit EXCEPT ![s].step = "again"]
    /\ SetBusy(s, FALSE)
    /\ stored' = IF chain[submit[s].hash] = "succeeded" /\ Action(s) = "purchase"
                 THEN [stored EXCEPT ![Browser(s)] = submit[s].hash] ELSE stored
    /\ UNCHANGED <<vars, view, keyOf, minted, signed, heard, newest>>

\* Mutant: the wait has no timer.
ReceiptTimeout_Never(s) == FALSE

\* After two minutes it gives up, whatever becomes of the transaction.
ReceiptTimeout(s) ==
    /\ submit[s].step = "wait"
    /\ submit' = [submit EXCEPT ![s] = Rest]
    /\ SetBusy(s, FALSE)
    /\ UNCHANGED <<vars, view, keyOf, minted, stored, signed, heard, newest>>

\* The trades of the match, newest first.
listTrades == [i \in DOMAIN newest |-> trade[newest[i]]]

\* Asked when the page opens and when its access token changes, which gives up an answer on its
\* way.  Of the answer, as the rows are when the API reads them, the page takes the newest that
\* its action is about, else the newest.
ListTrades(p) ==
    /\ newest # <<>>
    /\ LET wanted == {i \in DOMAIN listTrades :
                        (listTrades[i].status = "COMPLETED") <=> (ActionOf[p] = "settle")}
           latest == IF wanted = {} THEN 1 ELSE Min(wanted)
       IN  panel' = [panel EXCEPT ![p].list = Shown(listTrades[latest])]
    /\ UNCHANGED <<vars, submit, view, keyOf, minted, stored, signed, heard, newest>>

\* The answer replaces what the panel heard since it asked.
LoadTrades(p) ==
    /\ panel[p].list # NoTrade
    /\ panel' = [panel EXCEPT ![p].api = panel[p].list, ![p].list = NoTrade]
    /\ UNCHANGED <<vars, submit, view, keyOf, minted, stored, signed, heard, newest>>

\* The matches are fetched again: after a report, or on an event.
Refetch(b) ==
    /\ view' = [view EXCEPT ![b] = match[TheMatch]]
    /\ UNCHANGED <<vars, panel, submit, keyOf, minted, stored, signed, heard, newest>>

\* The page is opened anew: only localStorage is left of what it did.
Reload(b) ==
    /\ panel' = [p \in Panels |-> IF BrowserOf[p] = b THEN Opened ELSE panel[p]]
    /\ submit' = [s \in Reporters |-> IF Browser(s) = b THEN Rest ELSE submit[s]]
    /\ view' = [view EXCEPT ![b] = match[TheMatch]]
    /\ UNCHANGED <<vars, keyOf, minted, stored, signed, heard, newest>>

Mine(h) == h \in signed /\ mine(h) /\ UNCHANGED clientVars

CheckoutInit ==
    /\ Init
    /\ panel = [p \in Panels |-> Opened]
    /\ submit = [s \in Reporters |-> Rest]
    /\ view = [b \in Browsers |-> match[TheMatch]]
    /\ keyOf = FirstKeys
    /\ minted = {FirstKeys[b][s] : b \in Browsers, s \in Slots}
    /\ stored = [b \in Browsers |-> None]
    /\ signed = {}
    /\ heard = [b \in Browsers |-> {}]
    /\ newest = <<>>

\* The seller's publication of the listing is confirmed, once.
Published == ~mapped /\ remap /\ UNCHANGED clientVars

Work(s) == Send(s) \/ Receipt(s) \/ Api(s)

Choose(s) ==
    \/ Click(s) \/ Prompt(s) \/ Decline(s) \/ WalletFails(s)
    \/ \E h \in Hashes : Approve(s, h)

CheckoutNext ==
    \/ \E s \in Reporters : Work(s) \/ Choose(s) \/ ReceiptTimeout(s) \/ ApiDies(s)
    \/ \E p \in Panels : ListTrades(p) \/ LoadTrades(p)
    \/ \E b \in Browsers : Refetch(b) \/ Reload(b)
    \/ \E h \in Hashes : Mine(h)
    \/ Published

\* The event loops of the page and of the API run what is ready, and the wait has its timer.
CheckoutFairness ==
    \A s \in Reporters : WF_checkoutVars(Work(s)) /\ WF_checkoutVars(ReceiptTimeout(s))

CheckoutSpec == CheckoutInit /\ [][CheckoutNext]_checkoutVars /\ CheckoutFairness

\* A patient user: no answer is lost, no wait gives up, a page is left only when it is at rest.
Answered(s) ==
    (submit[s].asked /\ req'[s] = Idle /\ AnswerOf(s) # NoTrade)
       => panel'[PanelOf[s]].api = AnswerOf(s)

PatientNext ==
    \/ \E s \in Reporters : (Work(s) /\ Answered(s)) \/ Choose(s)
    \/ \E p \in Panels : ListTrades(p) \/ LoadTrades(p)
    \/ \E b \in Browsers :
         \/ Refetch(b)
         \/ Reload(b) /\ \A s \in Reporters : Browser(s) = b => submit[s].step = "rest"
    \/ \E h \in Hashes : Mine(h)
    \/ Published

PatientFairness == \A s \in Reporters : WF_checkoutVars(Work(s) /\ Answered(s))

PatientSpec == CheckoutInit /\ [][PatientNext]_checkoutVars /\ PatientFairness

-----------------------------------------------------------------------------
\* A page that is up to date offers no second payment beside a first: once the API has
\* acknowledged a purchase to a browser and moved the match, the button stays closed until a
\* payment of the match reverts, through reloads, lost answers, reports that were under way
\* and submits begun before.
HeardPurchaseLocks ==
    [][\A s \in Reporters :
         /\ Action(s) = "purchase" /\ submit[s].step = "rest" /\ submit'[s].step = "network"
         /\ view[Browser(s)] = match[TheMatch] /\ heard[Browser(s)] # {}
         => \E g \in signed : Settles[g] = None /\ chain[g] = "reverted"]_checkoutVars

\* A panel says "confirmed" or "completed" only of a transaction that succeeded on chain,
\* whatever it heard from its own reports, from older ones and from the list of trades.
ShownIsVerified ==
    \A p \in Panels :
        panel[p].api.status \in COMPLETED_TRADE => Succeeded(panel[p].api.hash)

\* A payment of a patient user becomes a trade the marketplace counts.
Paid(h) == h \in signed /\ Settles[h] = None /\ chain[h] = "succeeded"

PaidIsCounted ==
    \A h \in Hashes : Paid(h) ~> \E k \in Counted : trade[k].tradeId = h

\* No panel stays busy, except with an open prompt: every report and every wait for a receipt
\* ends, although submits share the phase, the API dies, answers are lost and transactions
\* are never mined.
NoPanelWaitsForever ==
    \A p \in Panels :
        []<>(panel[p].busy => \E s \in Reporters : PanelOf[s] = p /\ submit[s].step = "prompt")
=============================================================================
