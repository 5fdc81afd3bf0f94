------------------------------ MODULE Settlement ------------------------------
(***************************************************************************)
(* POST /trades/report: the trades and matches of one listing, as kept by  *)
(* settlement.service.ts from what the chain shows.                        *)
(*                                                                         *)
(* A report is a sequence of awaits: the match is read, the trade row it   *)
(* continues is read, the chain is asked, the row is written, the match is *)
(* written.  Only the confirming write is a transaction.  Everything a     *)
(* report has read is kept in `req` and is what it later acts on, however  *)
(* stale; each await is a step, and at each the report may die.            *)
(*                                                                         *)
(* Every Trade is created with a key, so the key names the row.  Status    *)
(* and blockchainTxStatus are always written together and one tells the    *)
(* other.  A purchase is named by its hash, on chain too.                  *)
(***************************************************************************)
EXTENDS Integers, FiniteSets

CONSTANTS
  Matches,     \* the matches of the listing
  Keys,        \* idempotency keys (bounds the Trade rows)
  Hashes,      \* the transactions participants may broadcast
  Reporters,   \* reports that can be in flight at once
  None,        \* an absent row, hash or trade id
  Fits,        \* purchase -> the matches whose listing, quantity, payment and
               \* buyer its EnergyPurchased event shows
  Settles,     \* transaction -> the purchase it calls settleTrade for, or None
               \* when it is itself a purchase
  Reports      \* the bodies that are sent, [action, match, key, hash]

\* A purchase or a settlement names its transaction, a rejection has none.
ReportShape ==
  [action : {"purchase", "settle"}, match : Matches, key : Keys, hash : Hashes]
  \cup [action : {"reject"}, match : Matches, key : Keys, hash : {None}]

ASSUME SettlementAssumption ==
  /\ None \notin Keys \cup Hashes
  /\ Fits \in [Hashes -> SUBSET Matches]
  /\ Settles \in [Hashes -> Hashes \cup {None}]
  /\ \A h \in Hashes : Settles[h] # None => Settles[Settles[h]] = None
  /\ Reports \subseteq ReportShape

VARIABLES
  match,    \* the Match table: id -> status
  trade,    \* the Trade table: idempotency key -> row or None
  live,     \* the matches whose listing and bid are neither withdrawn nor past
            \* their windows
  mapped,   \* the listing row carries its on-chain id
  chain,    \* the RPC's view: transaction -> "unmined", "succeeded", "reverted"
  req       \* report in flight -> how far it is and what it has read

vars == <<match, trade, live, mapped, chain, req>>

Idle == [pc |-> "idle"]

Init ==
  /\ match = [m \in Matches |-> "PROPOSED"]
  /\ trade = [k \in Keys |-> None]
  /\ live = Matches /\ mapped = FALSE
  /\ chain = [h \in Hashes |-> "unmined"]
  /\ req = [r \in Reporters |-> Idle]

Finish(r) == req' = [req EXCEPT ![r] = Idle]

-----------------------------------------------------------------------------
(* The report, await by await *)

\* The participant check passes: reports of strangers change nothing.
loadMatch(r, body) ==
  /\ req[r] = Idle
  /\ req' = [req EXCEPT ![r] =
       [pc |-> "find", body |-> body, status |-> match[body.match],
        live |-> body.match \in live, mapped |-> mapped]]
  /\ UNCHANGED <<match, trade, live, mapped, chain>>

\* The row a report continues: the one with its key, else the one with its hash.
Continued(body) ==
  IF trade[body.key] # None THEN {body.key}
  ELSE {k \in Keys : trade[k] # None /\ trade[k].hash # None /\ trade[k].hash = body.hash}

RETRYING == {"FAILED", "PENDING", "REJECTED"}

\* status is the match's, retrying whether a row with a RETRYING status is continued.
assertMatchSettleable(action, status, isLive, retrying) ==
  /\ status = "FAILED" => retrying
  /\ action = "purchase" => isLive /\ (status = "SETTLEMENT_PENDING" => retrying)
  /\ status # "SETTLED"

\* Refused: another match's row, another hash under the key; answered at once:
\* a row that is final.
Resumable(body, row) ==
  /\ row.match = body.match
  /\ row.hash = None \/ body.hash = None \/ row.hash = body.hash
  /\ row.status \in RETRYING

Write(status, hash, tradeId) == [status |-> status, hash |-> hash, tradeId |-> tradeId]

findExisting(r) ==
  /\ req[r].pc = "find"
  /\ LET q == req[r]
         at == IF Continued(q.body) = {} THEN None ELSE CHOOSE k \in Continued(q.body) : TRUE
         old == IF at = None THEN None ELSE trade[at]
         base == [pc |-> "chain", body |-> q.body, mapped |-> q.mapped, at |-> at,
                  old |-> old, purchase |-> None, write |-> None]
         allowed == assertMatchSettleable(q.body.action, q.status, q.live, at # None)
     IN  \/ /\ at # None => Resumable(q.body, old)
            /\ \/ /\ q.body.action = "reject"
                  /\ req' = [req EXCEPT ![r] = [base EXCEPT
                       !.pc = "write", !.write = Write("REJECTED", None, None)]]
               \/ /\ q.body.action = "purchase" /\ allowed
                  /\ req' = [req EXCEPT ![r] = base]
               \/ /\ q.body.action = "settle" /\ allowed
                  /\ req' = [req EXCEPT ![r] = [base EXCEPT !.pc = "purchase"]]
         \/ /\ \/ at # None /\ ~Resumable(q.body, old)
               \/ q.body.action # "reject" /\ ~allowed
            /\ Finish(r)
  /\ UNCHANGED <<match, trade, live, mapped, chain>>

ConfirmedPurchases(m) ==
  {k \in Keys : trade[k] # None /\ trade[k].match = m /\ trade[k].status = "CONFIRMED"}

\* settle only: any confirmed row of the match will do.
findPurchase(r) ==
  /\ req[r].pc = "purchase"
  /\ LET found == ConfirmedPurchases(req[r].body.match)
     IN  \/ /\ found = {}
            /\ Finish(r)
         \/ \E k \in found :
              req' = [req EXCEPT ![r].pc = "chain", ![r].purchase = trade[k].tradeId]
  /\ UNCHANGED <<match, trade, live, mapped, chain>>

\* The receipt says success; a contract other than the marketplace has none of its events.
assertSuccessfulReceipt(h) == chain[h] = "succeeded"

\* What a receipt's events show: of a purchase the matches it fits, of a settlement the
\* purchase it pays out.
parseEnergyPurchasedLogs(h) == IF Settles[h] = None THEN Fits[h] ELSE {}
parseTradeSettledLogs(h) == Settles[h]

\* Of the listing as the report read it.
expectedOnChainListingId(q) == q.mapped

verifyPurchase(q) ==
  /\ assertSuccessfulReceipt(q.body.hash)
  /\ expectedOnChainListingId(q)
  /\ q.body.match \in parseEnergyPurchasedLogs(q.body.hash)

\* Mutant: any settlement for this match will do.
verifySettle_AnyTrade(q) ==
  /\ assertSuccessfulReceipt(q.body.hash)
  /\ parseTradeSettledLogs(q.body.hash) # None
  /\ q.body.match \in Fits[Settles[q.body.hash]]

verifySettle(q) ==
  /\ assertSuccessfulReceipt(q.body.hash)
  /\ parseTradeSettledLogs(q.body.hash) = q.purchase
  /\ q.body.match \in Fits[q.purchase]

\* The row of a report that is refused says FAILED and keeps the hash.
markFailed(q) == Write("FAILED", q.body.hash, None)

\* Any report may be refused: the network, the transaction that the node gives for the hash
\* and the sender's wallets are not in the model.
failVerification(q) == {markFailed(q)}

\* Mutant: a purchase without a receipt passes for one that succeeded.
Outcome_NullReceipt(q) ==
  failVerification(q)
  \cup (IF q.body.action = "purchase" THEN {Write("CONFIRMED", q.body.hash, q.body.hash)}
        ELSE {Write("COMPLETED", q.body.hash, q.purchase)})

\* What the answers of the RPC lead the report to write.
Outcome(q) ==
  LET h == q.body.hash
      settle == q.body.action = "settle"
      good == IF settle THEN Write("COMPLETED", h, q.purchase) ELSE Write("CONFIRMED", h, h)
      verified == IF settle THEN verifySettle(q) ELSE verifyPurchase(q)
  IN  failVerification(q)
      \cup (IF chain[h] = "unmined" THEN {Write("PENDING", h, None)} ELSE {})
      \cup (IF verified THEN {good} ELSE {})

queryChain(r) ==
  /\ req[r].pc = "chain"
  /\ \E w \in Outcome(req[r]) :
       req' = [req EXCEPT ![r].pc = "write", ![r].write = w]
  /\ UNCHANGED <<match, trade, live, mapped, chain>>

Confirming(q) == q.write.status \in {"CONFIRMED", "COMPLETED"}

\* The row written: a new one, or the continued one, with whatever the write
\* lacks taken from the row as it was when it was read.
Row(q) ==
  IF q.at = None
  THEN [match |-> q.body.match, status |-> q.write.status,
        hash |-> q.write.hash, tradeId |-> q.write.tradeId]
  ELSE [q.old EXCEPT !.status = q.write.status,
                     !.hash = IF q.write.hash = None THEN @ ELSE q.write.hash,
                     !.tradeId = IF q.write.tradeId = None THEN @ ELSE q.write.tradeId]

Target(q) == IF q.at = None THEN q.body.key ELSE q.at

\* Mutants: only one of the two columns is unique.
isUniqueViolation_HashOnly(q) ==
  \E k \in Keys \ {Target(q)} :
    trade[k] # None /\ trade[k].hash # None /\ trade[k].hash = Row(q).hash
isUniqueViolation_KeyOnly(q) == q.at = None /\ trade[q.body.key] # None

\* P2002: the key of a new row is taken, or another row has the hash.
isUniqueViolation(q) ==
  \/ q.at = None /\ trade[q.body.key] # None
  \/ \E k \in Keys \ {Target(q)} :
       trade[k] # None /\ trade[k].hash # None /\ trade[k].hash = Row(q).hash

Sync(q, row) == [pc |-> "sync", body |-> q.body, row |-> row]

\* The confirming transaction locks the listing and looks at its on-chain id again.
StillMapped(q) == q.body.action = "purchase" => mapped

persistTrade(r) ==
  /\ req[r].pc = "write"
  /\ LET q == req[r]
     IN  \/ /\ ~isUniqueViolation(q)
            /\ Confirming(q) => StillMapped(q)
            /\ trade' = [trade EXCEPT ![Target(q)] = Row(q)]
            /\ req' = [req EXCEPT ![r] = IF q.body.action = "reject" THEN Idle
                                         ELSE Sync(q, Row(q))]
         \/ \* DUPLICATE_TX or LISTING_MISMATCH: the transaction rolls back
            /\ Confirming(q)
            /\ isUniqueViolation(q) \/ ~StillMapped(q)
            /\ Finish(r)
            /\ UNCHANGED trade
         \/ \* the row that is in the way, whichever of the two is found first
            /\ ~Confirming(q) /\ isUniqueViolation(q)
            /\ \E k \in {c \in Keys : /\ trade[c] # None
                                      /\ \/ c = q.body.key
                                         \/ trade[c].hash # None /\ trade[c].hash = q.body.hash} :
                 req' = [req EXCEPT ![r] =
                   IF /\ k = q.body.key /\ trade[k].match = q.body.match
                      /\ q.body.action # "reject"
                   THEN Sync(q, trade[k]) ELSE Idle]
            /\ UNCHANGED trade
  /\ UNCHANGED <<match, live, mapped, chain>>

\* Mutants: the trade's status is copied; a verified row settles whatever the
\* report was about.
StatusAfter_CopiesRow(action, row, old) == row.status
StatusAfter_AnyAction(action, row, old) ==
  CASE row.status = "PENDING" -> "SETTLEMENT_PENDING"
    [] row.status = "FAILED" -> IF action = "settle" THEN "SETTLEMENT_PENDING" ELSE "FAILED"
    [] row.status \in {"CONFIRMED", "COMPLETED"} -> "SETTLED"
    [] OTHER -> old

\* Written from the report's action and the status of the row it holds.
StatusAfter(action, row, old) ==
  CASE row.status = "PENDING" -> "SETTLEMENT_PENDING"
    [] row.status = "FAILED" -> IF action = "settle" THEN "SETTLEMENT_PENDING" ELSE "FAILED"
    [] row.status \in {"CONFIRMED", "COMPLETED"} ->
         IF action = "settle" THEN "SETTLED" ELSE "SETTLEMENT_PENDING"
    [] OTHER -> old

syncMatch(r) ==
  /\ req[r].pc = "sync"
  /\ LET q == req[r]
     IN  match' = [match EXCEPT ![q.body.match] = StatusAfter(q.body.action, q.row, @)]
  /\ Finish(r)
  /\ UNCHANGED <<trade, live, mapped, chain>>

\* An await throws, as when the node is unreachable, answers with an error or not in time, or
\* the process stops: nothing more of the report is done.
dies(r) ==
  /\ req[r] # Idle
  /\ Finish(r)
  /\ UNCHANGED <<match, trade, live, mapped, chain>>

-----------------------------------------------------------------------------
(* The rest of the program and the chain *)

\* The contract lets a trade be settled once, after its purchase.
mine(h) ==
  /\ chain[h] = "unmined"
  /\ \/ /\ Settles[h] # None =>
             /\ chain[Settles[h]] = "succeeded"
             /\ \A g \in Hashes : Settles[g] = Settles[h] => chain[g] # "succeeded"
        /\ chain' = [chain EXCEPT ![h] = "succeeded"]
     \/ chain' = [chain EXCEPT ![h] = "reverted"]
  /\ UNCHANGED <<match, trade, live, mapped, req>>

\* One bid, or the listing and with it every match, is cancelled or lapses.
withdraw(gone) ==
  /\ gone # {} /\ gone \subseteq live
  /\ live' = live \ gone
  /\ UNCHANGED <<match, trade, mapped, chain, req>>

\* reportOnChainListing confirms the listing's on-chain id, or clears it.
remap ==
  /\ mapped' = ~mapped
  /\ UNCHANGED <<match, trade, live, chain, req>>

Step(r) ==
  findExisting(r) \/ findPurchase(r) \/ queryChain(r) \/ persistTrade(r) \/ syncMatch(r)

Next ==
  \/ \E r \in Reporters : \/ \E body \in Reports : loadMatch(r, body)
                          \/ Step(r)
                          \/ dies(r)
  \/ \E h \in Hashes : mine(h)
  \/ \E gone \in {{m} : m \in live} \cup {live} : withdraw(gone)
  \/ remap

Spec == Init /\ [][Next]_vars

\* A report in flight is not left standing by the event loop, and participants
\* report again for as long as the API takes reports.
FairSpec ==
  /\ Spec
  /\ \A r \in Reporters : WF_vars(Step(r))
  /\ \A body \in Reports : WF_vars(\E r \in Reporters : loadMatch(r, body))

-----------------------------------------------------------------------------
(* What settlement promises *)

TradeRow == [match : Matches,
             status : {"PENDING", "FAILED", "REJECTED", "CONFIRMED", "COMPLETED"},
             hash : Hashes \cup {None}, tradeId : Hashes \cup {None}]

\* The mark of an absent row is not itself a row.
ASSUME NoneAssumption == None \notin TradeRow

\* Both tables hold rows of their schema: a status of the other table's enum,
\* or a hash in the wrong column, is never written (the Prisma models).
TypeOK ==
  /\ match \in [Matches -> {"PROPOSED", "SETTLEMENT_PENDING", "SETTLED", "FAILED"}]
  /\ trade \in [Keys -> TradeRow \cup {None}]

\* The trades that analytics and reports add up.
COMPLETED_TRADE == {"CONFIRMED", "COMPLETED"}
Counted == {k \in Keys : trade[k] # None /\ trade[k].status \in COMPLETED_TRADE}

Succeeded(h) == h # None /\ chain[h] = "succeeded"

\* docs/database.md:28, whatever was read before the row was written: a
\* CONFIRMED trade has a transaction that succeeded and shows this match's
\* purchase, a COMPLETED one a transaction that succeeded and settles such a
\* purchase.
ConfirmedIsVerified ==
  \A k \in Counted :
    LET row == trade[k]
    IN  /\ Succeeded(row.hash) /\ Succeeded(row.tradeId)
        /\ Settles[row.tradeId] = None /\ row.match \in Fits[row.tradeId]
        /\ IF row.status = "CONFIRMED" THEN row.hash = row.tradeId
           ELSE Settles[row.hash] = row.tradeId

\* A match is SETTLED only if the contract paid out a purchase of it.
\* syncMatch decides from the action of the report and the status of whatever
\* row persistTrade handed back.
SettledIsVerified ==
  \A m \in Matches : match[m] = "SETTLED" =>
    \E h \in Hashes : Succeeded(h) /\ Settles[h] # None /\ m \in Fits[Settles[h]]

\* The check "Idempotency key is bound to a different transaction", for two
\* reports that race on the key too: a row never changes its transaction.
KeyKeepsHash ==
  [][\A k \in Keys :
       (trade[k] # None /\ trade[k].hash # None) => trade'[k].hash = trade[k].hash]_vars

\* Uniqueness of keys and hashes prevents duplicate settlement rows
\* (docs/database.md:29): one on-chain purchase never counts for two matches.
OnePurchaseOneMatch ==
  \A i, j \in Counted :
    trade[i].tradeId = trade[j].tradeId => trade[i].match = trade[j].match

\* docs/api.md:134: a verified purchase moves its match on, for good or until
\* the trade itself is overwritten, if only it is reported again and again.
VerifiedPurchaseMovesMatch ==
  \A k \in Keys, m \in Matches :
    k \in Counted /\ trade[k].match = m
      ~> match[m] \in {"SETTLEMENT_PENDING", "SETTLED"} \/ k \notin Counted

\* Of docs/architecture.md:22, analytics never invents volume, this much holds: the sums take a
\* payment once as a purchase and once as a settlement, never again, although it is reported
\* under several keys and by reports that race, die and act on what they read long ago.
CountedOnceEach ==
  \A i, j \in Counted :
    trade[i].status = trade[j].status /\ trade[i].tradeId = trade[j].tradeId => i = j
=============================================================================
